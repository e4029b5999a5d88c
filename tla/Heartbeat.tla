------------------------------ MODULE Heartbeat ------------------------------
(***************************************************************************)
(* Heartbeats and data frames between two clients whose agents have        *)
(* Completed (p2p-sdk client.rs, the loops of start_ice_threads).          *)
(*                                                                         *)
(* Time passes in units.  Both tick loops look at their timers once in a   *)
(* unit; a datagram is delivered, or lost, within MAX_DELAY units.         *)
(* Instant::now() and the tick counter now_ms are kept as ages, so that    *)
(* nothing but `now`, the bound of a run, grows.                           *)
(***************************************************************************)
EXTENDS Integers, FiniteSets, Bags

CONSTANTS Ends,           \* the two clients
          Interval,       \* [Ends -> Nat]: heartbeat_interval_secs, 0 is off
          FirstElapsed,   \* ages the heartbeat timer may have at the start
          Mortal,         \* ends that may close() or die
          Reconnecting,   \* those of them that connect() again
          MAX_TIME,       \* bound: units of time
          MAX_DELAY,      \* bound: age of a datagram in flight
          MAX_LOST,       \* bound: datagrams lost
          MAX_DATA        \* bound: data frames sent by the applications

ASSUME HeartbeatAssumption ==
    /\ \E a, b \in Ends : a # b /\ Ends = {a, b}
    /\ Interval \in [Ends -> Nat]
    /\ FirstElapsed \subseteq Nat
    /\ Mortal \subseteq Ends /\ Reconnecting \subseteq Mortal
    /\ MAX_TIME \in Nat /\ MAX_DELAY \in Nat /\ MAX_LOST \in Nat /\ MAX_DATA \in Nat

Never == -1

FrameTypes == {"heartbeat", "data"}

Frames == [type : FrameTypes, to : Ends, age : 0..MAX_DELAY]

VARIABLES up,           \* [Ends -> BOOLEAN]: the process lives and is connected
          elapsed,      \* [Ends -> units since last_heartbeat_ms]
          last_recv,    \* [Ends -> units since last_recv_instant, or Never]
          ticked,       \* ends whose tick loop ran in this unit
          net,          \* bag of frames in flight
          fired,        \* ends that fired Disconnected in this connection
          uptime,       \* [Ends -> units since the connection was made]
          heard,        \* [Ends -> units since a frame came in this connection, or Never]
          now, lost, data

vars == <<up, elapsed, last_recv, ticked, net, fired, uptime, heard, now, lost, data>>

ghosts == <<uptime, heard>>

Other(e) == CHOOSE o \in Ends : o # e

Init ==
    /\ up = [e \in Ends |-> TRUE]
    /\ elapsed \in [Ends -> FirstElapsed]
    /\ last_recv = [e \in Ends |-> Never]
    /\ ticked = {}
    /\ net = EmptyBag
    /\ fired = {}
    /\ uptime = [e \in Ends |-> 0]
    /\ heard = [e \in Ends |-> Never]
    /\ now = 0 /\ lost = 0 /\ data = 0

----------------------------------------------------------------------------

\* A datagram to an end that is down disappears.
Sent(e, type) ==
    IF up[Other(e)]
    THEN SetToBag({[type |-> type, to |-> Other(e), age |-> 0]})
    ELSE EmptyBag

\* Mutant of HeartbeatDue: heartbeats are sent at the timeout, not the interval.
HeartbeatDueLate(e) == Interval[e] > 0 /\ elapsed[e] >= 2 * Interval[e]

HeartbeatDue(e) == Interval[e] > 0 /\ elapsed[e] >= Interval[e]

\* Mutant of TimedOut: the age is compared for equality after one tick too many.
TimedOutTooLate(e) ==
    Interval[e] > 0 /\ last_recv[e] # Never /\ last_recv[e] > 2 * Interval[e]

TimedOut(e) ==
    Interval[e] > 0 /\ last_recv[e] # Never /\ last_recv[e] >= 2 * Interval[e]

\* One iteration of the tick loop: heartbeat first, then the timeout.
Tick(e) ==
    /\ up[e] /\ e \notin ticked
    /\ ticked' = ticked \cup {e}
    /\ IF HeartbeatDue(e)
       THEN /\ elapsed' = [elapsed EXCEPT ![e] = 0]
            /\ net' = net (+) Sent(e, "heartbeat")
       ELSE UNCHANGED <<elapsed, net>>
    /\ fired' = IF TimedOut(e) THEN fired \cup {e} ELSE fired
    /\ UNCHANGED <<up, last_recv, ghosts, now, lost, data>>

\* The receive loop: any frame is a sign of life.  A heartbeat is answered by an
\* end whose heartbeats are on; the answer is a heartbeat like any other, so the
\* two ends go on answering each other until a frame is lost.
Receive(e) ==
    \E f \in BagToSet(net) :
        /\ f.to = e /\ up[e]
        /\ last_recv' = [last_recv EXCEPT ![e] = 0]
        /\ heard' = [heard EXCEPT ![e] = 0]
        /\ net' = (net (-) SetToBag({f})) (+)
                  IF f.type = "heartbeat" /\ Interval[e] > 0
                  THEN Sent(e, "heartbeat") ELSE EmptyBag
        /\ UNCHANGED <<up, elapsed, ticked, fired, uptime, now, lost, data>>

\* send_text or send_data of an application.
SendData(e) ==
    /\ up[e] /\ data < MAX_DATA
    /\ net' = net (+) Sent(e, "data")
    /\ data' = data + 1
    /\ UNCHANGED <<up, elapsed, last_recv, ticked, fired, ghosts, now, lost>>

InFlightTo(e) == [f \in {g \in BagToSet(net) : g.to = e} |-> net[f]]

Close(e) ==
    /\ up[e] /\ e \in Mortal
    /\ up' = [up EXCEPT ![e] = FALSE]
    /\ net' = net (-) InFlightTo(e)
    /\ fired' = fired \ {e}
    /\ UNCHANGED <<elapsed, last_recv, ticked, ghosts, now, lost, data>>

\* A connect() that completes: new threads with new timers, but the instant of
\* the last datagram is the one of the old connection.
Open(e) ==
    /\ ~up[e] /\ e \in Reconnecting
    /\ up' = [up EXCEPT ![e] = TRUE]
    /\ elapsed' = [elapsed EXCEPT ![e] = 0]
    /\ uptime' = [uptime EXCEPT ![e] = 0]
    /\ heard' = [heard EXCEPT ![e] = Never]
    /\ UNCHANGED <<last_recv, ticked, net, fired, now, lost, data>>

Lose ==
    /\ lost < MAX_LOST
    /\ \E f \in BagToSet(net) : net' = net (-) SetToBag({f})
    /\ lost' = lost + 1
    /\ UNCHANGED <<up, elapsed, last_recv, ticked, fired, ghosts, now, data>>

Older(age) == IF age = Never THEN Never ELSE age + 1

AllOlder(f) == [e \in Ends |-> Older(f[e])]

\* A unit passes when every loop had its turn and no datagram is overdue.
Advance ==
    /\ now < MAX_TIME
    /\ \A e \in Ends : up[e] => e \in ticked
    /\ \A f \in BagToSet(net) : f.age < MAX_DELAY
    /\ now' = now + 1
    /\ ticked' = {}
    /\ elapsed' = AllOlder(elapsed)
    /\ last_recv' = AllOlder(last_recv)
    /\ uptime' = AllOlder(uptime)
    /\ heard' = AllOlder(heard)
    /\ net' = [f \in {[g EXCEPT !.age = @ + 1] : g \in BagToSet(net)}
                 |-> net[[f EXCEPT !.age = @ - 1]]]
    /\ UNCHANGED <<up, fired, lost, data>>

Next ==
    \/ \E e \in Ends : \/ Tick(e) \/ Receive(e) \/ SendData(e)
                       \/ Close(e) \/ Open(e)
    \/ Lose
    \/ Advance

Spec == Init /\ [][Next]_vars
----------------------------------------------------------------------------
(* Correctness *)

\* While both ends live and stay connected and no frame is lost, heartbeats and
\* their answers keep the timeout away, whatever the two intervals, as long as
\* both are on and longer than a round trip: no end reports Disconnected.
NoFalseAlarm ==
    lost = 0 /\ (\A e \in Ends : up[e] /\ uptime[e] = now) => fired = {}

\* An end whose peer fell silent after it was heard reports it in time; one that
\* never heard its peer reports nothing.
SilenceNoticed ==
    \A e \in Ends :
        up[e] /\ Interval[e] > 0 /\ heard[e] > 2 * Interval[e] => e \in fired
=============================================================================
