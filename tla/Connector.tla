------------------------------ MODULE Connector ------------------------------
(***************************************************************************)
(* The signalling client (p2p-sdk connector.rs) in run_with_reconnect, its *)
(* WebSocket transport (p2p-tokio ws.rs) and the server.  The loop is the  *)
(* only thread that uses the client; the server, the network and whoever   *)
(* sets `stop` act between any two of its steps.                           *)
(***************************************************************************)
EXTENDS Integers, Sequences, FiniteSetsExt

CONSTANTS STOPPABLE,          \* stop may be set
          MAX_MESSAGES,       \* bound: messages the server forwards
          MAX_PINGS,          \* bound: frames that are not text
          MAX_DROPS,          \* bound: links lost
          MAX_WAITS           \* bound: waits in a row

ASSUME ConnectorAssumption ==
    /\ STOPPABLE \in BOOLEAN
    /\ MAX_MESSAGES \in Nat /\ MAX_PINGS \in Nat
    /\ MAX_DROPS \in Nat /\ MAX_WAITS \in Nat

MAX_DELAY == 30     \* seconds

Messages == 1..MAX_MESSAGES

\* What the server sends; only messages are numbered.
Frame(type, number) == [type |-> type, number |-> number]

Frames == {Frame("register_ok", 0), Frame("ping", 0)}
          \cup {Frame("message", n) : n \in Messages}

VARIABLES pc,             \* step of the loop
          socket,         \* the transport holds a socket
          link,           \* its TCP connection is up
          inbox,          \* frames that arrived on it
          registered,
          was_registered,
          incoming,       \* messages of the current poll
          delay,          \* seconds
          stop,
          told,           \* what on_state_change was last called with
          seen,           \* messages on_message was called with
          server,         \* what the server knows of the current link
          waits,          \* waits since the last successful connect
          sent, pings, drops

vars == <<pc, socket, link, inbox, registered, was_registered, incoming, delay, stop,
          told, seen, server, waits, sent, pings, drops>>

serverVars == <<sent, pings, drops>>

Init ==
    /\ pc = "outer"
    /\ socket = FALSE /\ link = FALSE
    /\ inbox = <<>>
    /\ registered = FALSE /\ was_registered = FALSE
    /\ incoming = <<>>
    /\ delay = 1
    /\ stop = FALSE
    /\ told = FALSE
    /\ seen = <<>>
    /\ server = "unknown"
    /\ waits = 0
    /\ sent = 0 /\ pings = 0 /\ drops = 0

\* SyncSignalingTransport: a socket object exists, whatever became of its link.
IsConnected == socket

----------------------------------------------------------------------------
(* The loop *)

\* Mutant of OuterTest: disconnect() is missing.
OuterTestLeavesOpen ==
    /\ pc = "outer"
    /\ pc' = IF stop THEN "ended" ELSE "connect"
    /\ UNCHANGED <<socket, link, inbox, registered, server, was_registered, incoming,
                   delay, stop, told, seen, waits, serverVars>>

\* while !stop; after the loop, disconnect().
OuterTest ==
    /\ pc = "outer"
    /\ IF stop
       THEN /\ pc' = "ended"
            /\ socket' = FALSE /\ link' = FALSE
            /\ inbox' = <<>>
            /\ registered' = FALSE
            /\ server' = "unknown"
       ELSE /\ pc' = "connect"
            /\ UNCHANGED <<socket, link, inbox, registered, server>>
    /\ UNCHANGED <<was_registered, incoming, delay, stop, told, seen, waits, serverVars>>

Doubled(d) == Min({2 * d, MAX_DELAY})

ResetDelay == waits' = 0 /\ delay' = 1

\* connect(): a new socket replaces the old one, and the register message is sent.
ConnectSucceeds ==
    /\ pc = "connect"
    /\ socket' = TRUE /\ link' = TRUE
    /\ inbox' = <<>>
    /\ registered' = FALSE
    /\ server' = "registering"
    /\ ResetDelay
    /\ pc' = "inner"
    /\ UNCHANGED <<was_registered, incoming, stop, told, seen, serverVars>>

Wait == delay' = Doubled(delay) /\ waits' = waits + 1

\* The server cannot be reached: the old socket, if any, stays.
ConnectFails ==
    /\ pc = "connect" /\ waits < MAX_WAITS
    /\ Wait
    /\ pc' = "outer"
    /\ UNCHANGED <<socket, link, inbox, registered, was_registered, incoming, stop,
                   told, seen, server, serverVars>>

\* The link is lost before the register message is sent.
RegisterFails ==
    /\ pc = "connect" /\ waits < MAX_WAITS
    /\ socket' = TRUE /\ link' = FALSE
    /\ inbox' = <<>>
    /\ registered' = FALSE
    /\ server' = "unknown"
    /\ Wait
    /\ pc' = "outer"
    /\ UNCHANGED <<was_registered, incoming, stop, told, seen, serverVars>>

InnerTest ==
    /\ pc = "inner"
    /\ IF stop
       THEN /\ pc' = "outer"
            /\ UNCHANGED <<was_registered, incoming>>
       ELSE /\ pc' = "poll"
            /\ was_registered' = registered
            /\ incoming' = <<>>
    /\ UNCHANGED <<socket, link, inbox, registered, delay, stop, told, seen, server,
                   waits, serverVars>>

\* Mutant of Collected: what comes together with the registration is dropped.
CollectedRegistered(f) ==
    IF f.type = "message" /\ was_registered THEN Append(incoming, f.number) ELSE incoming

\* Mutant of Collected: the newest message comes first.
CollectedFirst(f) ==
    IF f.type = "message" THEN <<f.number>> \o incoming ELSE incoming

Collected(f) ==
    IF f.type = "message" THEN Append(incoming, f.number) ELSE incoming

\* poll(): try_recv until it has nothing; a frame that is not text ends it too.
PollFrame ==
    /\ pc = "poll" /\ inbox # <<>>
    /\ inbox' = Tail(inbox)
    /\ IF Head(inbox).type = "ping"
       THEN pc' = "dispatch" /\ UNCHANGED <<registered, incoming>>
       ELSE /\ registered' = (registered \/ Head(inbox).type = "register_ok")
            /\ incoming' = Collected(Head(inbox))
            /\ UNCHANGED pc
    /\ UNCHANGED <<socket, link, was_registered, delay, stop, told, seen, server, waits,
                   serverVars>>

\* Nothing to read, and a read error looks the same.
PollEmpty ==
    /\ pc = "poll" /\ inbox = <<>>
    /\ pc' = "dispatch"
    /\ UNCHANGED <<socket, link, inbox, registered, was_registered, incoming, delay, stop,
                   told, seen, server, waits, serverVars>>

\* The connection stands: report a registration, then hand the messages over.
HandOver ==
    /\ told' = (told \/ (registered /\ ~was_registered))
    /\ seen' = seen \o incoming
    /\ pc' = "inner"
    /\ UNCHANGED <<registered, delay, waits>>

\* The connection is gone: report it, drop the messages of this poll, and wait.
BreakOff ==
    /\ registered' = FALSE
    /\ told' = (told /\ ~was_registered)
    /\ IF stop THEN UNCHANGED <<delay, waits>> ELSE Wait
    /\ pc' = "outer"
    /\ UNCHANGED seen

Dispatch ==
    /\ pc = "dispatch"
    /\ IF IsConnected THEN HandOver ELSE BreakOff
    /\ UNCHANGED <<socket, link, inbox, was_registered, incoming, stop, server, serverVars>>

LoopStep ==
    \/ OuterTest
    \/ ConnectSucceeds
    \/ ConnectFails
    \/ RegisterFails
    \/ InnerTest
    \/ PollFrame
    \/ PollEmpty
    \/ Dispatch

----------------------------------------------------------------------------
(* The environment *)

loopVars == <<pc, socket, registered, was_registered, incoming, delay, told, seen, waits>>

RegisterOk ==
    /\ server = "registering" /\ link
    /\ inbox' = Append(inbox, Frame("register_ok", 0))
    /\ server' = "registered"
    /\ UNCHANGED <<loopVars, link, stop, serverVars>>

\* The server forwards messages only to clients it has registered.
Forward ==
    /\ server = "registered" /\ link /\ sent < MAX_MESSAGES
    /\ inbox' = Append(inbox, Frame("message", sent + 1))
    /\ sent' = sent + 1
    /\ UNCHANGED <<loopVars, link, server, stop, pings, drops>>

Ping ==
    /\ server # "unknown" /\ link /\ pings < MAX_PINGS
    /\ inbox' = Append(inbox, Frame("ping", 0))
    /\ pings' = pings + 1
    /\ UNCHANGED <<loopVars, link, server, stop, sent, drops>>

\* The server closes or the network fails; what arrived may be read or be lost.
LoseLink ==
    /\ link /\ drops < MAX_DROPS
    /\ link' = FALSE
    /\ inbox' \in {inbox, <<>>}
    /\ server' = "unknown"
    /\ drops' = drops + 1
    /\ UNCHANGED <<loopVars, stop, sent, pings>>

SetStop ==
    /\ STOPPABLE /\ ~stop
    /\ stop' = TRUE
    /\ UNCHANGED <<loopVars, link, inbox, server, serverVars>>

----------------------------------------------------------------------------

Next ==
    \/ LoopStep
    \/ RegisterOk
    \/ Forward
    \/ Ping
    \/ LoseLink
    \/ SetStop

Spec == Init /\ [][Next]_vars

(* The loop sleeps 50 ms or `delay` and goes on; but its connect, with the WebSocket
   handshake in it, has no time limit and need not come back. *)
Fairness == WF_vars(LoopStep /\ pc # "connect")

FairSpec == Spec /\ Fairness

(* A server that can be reached and answers: a loop that keeps connecting has a
   connect that succeeds, and is registered. *)
Reachable == SF_vars(ConnectSucceeds) /\ WF_vars(RegisterOk)

ReachableSpec == FairSpec /\ Reachable

----------------------------------------------------------------------------
(* Correctness *)

\* The messages handed over are the first ones the server forwarded, in its order,
\* without a gap and none of them twice, whatever comes between them and however
\* the polls cut them.
MessagesInOrder == \A i \in DOMAIN seen : seen[i] = i

\* A message that was forwarded is handed over, unless the link is lost before or
\* the loop was told to stop.
MessagesDelivered ==
    \A n \in Messages : sent >= n ~> Len(seen) >= n \/ drops > 0 \/ stop

Ended == pc = "ended" /\ ~socket /\ ~registered

\* A loop that is told to stop ends and leaves nothing open, whatever step it was
\* in, unless the connect under way never returns.
StopEnds == <>stop => <>Ended \/ <>[](pc = "connect")

\* "Runs until `stop` becomes true" (connector.rs:131).
EndsWhenTold == stop ~> Ended

\* "On disconnect, retries with exponential backoff" (connector.rs:133).
Reconnects == socket /\ ~link ~> link \/ stop
=============================================================================
