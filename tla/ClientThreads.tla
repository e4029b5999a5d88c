---------------------------- MODULE ClientThreads ----------------------------
(***************************************************************************)
(* Threads of one P2pClient (p2p-sdk client.rs): the background thread of  *)
(* each connect(), the tick and receive threads it starts, and the         *)
(* application that connects, stops and closes.  They share ClientInner    *)
(* under one mutex; every action is one critical section, or one step      *)
(* outside of it, so that all their interleavings are explored.            *)
(*                                                                         *)
(* Each connect k makes a stop flag of its own, also named k, when it      *)
(* starts its threads.  The agent and its socket are stored and dropped    *)
(* together and are one variable, `session`; what the agent does inside is *)
(* IceSession's subject and here only the states it may move to.           *)
(***************************************************************************)
EXTENDS Naturals, FiniteSets

CONSTANTS Connects,      \* calls of connect()
          NoConnect,     \* owner of the stop flag of ClientInner::new
          Callbacks,     \* state callbacks the application registers
          FirstCallback, \* the one registered before the first connect
          NoCallback,
          CALLS,         \* when the application makes its next call
          PROGRESS,      \* bound: states agents get to after Connecting
          HEARTBEAT,     \* heartbeat_interval_secs > 0 and the peer may be silent
          MAX_STOPS      \* bound: calls of close() and stop_ice()

ASSUME ThreadsAssumption ==
    /\ NoConnect \notin Connects
    /\ "app" \notin Connects /\ \A k \in Connects : <<k, "tick">> \notin Connects
    /\ FirstCallback \in Callbacks /\ NoCallback \notin Callbacks
    /\ CALLS \in {"any time", "informed", "settled"}
    /\ PROGRESS \subseteq {"Connected", "Completed", "Failed"}
    /\ HEARTBEAT \in BOOLEAN
    /\ MAX_STOPS \in Nat

Ticks == {<<k, "tick">> : k \in Connects}

Receives == {<<k, "recv">> : k \in Connects}

Threads == Ticks \cup Receives

Gen(t) == t[1]

Flags == Connects \cup {NoConnect}

States == {"Connecting", "Connected", "Completed", "Failed", "Closed"}

Events == Connects \X (States \cup {"Disconnected"})

\* Who may be inside fire_state_change: tick threads and connect threads.
Firers == Ticks \cup Connects

Quiet == [stage |-> "quiet"]

Firings ==
    {Quiet} \cup [stage : {"take"}, event : Events]
            \cup [stage : {"call", "restore"}, event : Events, cb : Callbacks]

ConnectSteps ==
    {"idle", "gather", "halt", "join", "flag", "spawn", "handles", "done", "failed"}

AppSteps == {"ready", "join_close", "join_stop", "drop", "stop"}

NoSession == [owner |-> NoConnect, state |-> "None"]

VARIABLES connect,    \* [Connects -> ConnectSteps]
          session,    \* ice_agent and ice_udp: the connect() that stored them
                      \*   and the state of the agent
          ice_stop,   \* whose stop flag ClientInner holds
          stopped,    \* stop flags that are set
          handles,    \* tick_handle and recv_handle
          joining,    \* threads a caller of stop_ice_threads still joins
          thread,     \* [Threads -> step of the loop]
          last_state, \* [Ticks -> state the loop saw last]
          firing,     \* [Firers -> Firings]
          slot,       \* on_state_change
          app,        \* the application's step
          registered, \* callback the application registered last
          reported,   \* events a callback was called with
          closed,     \* close() has returned and nothing was started since
          stops       \* calls of close() and stop_ice() so far

vars == <<connect, session, ice_stop, stopped, handles, joining, thread,
          last_state, firing, slot, app, registered, reported, closed, stops>>

sharedVars == <<session, ice_stop, stopped, handles>>

callbackVars == <<slot, registered, reported>>

appVars == <<app, closed, stops>>

App == "app"

Init ==
    /\ connect = [k \in Connects |-> "idle"]
    /\ session = NoSession
    /\ ice_stop = NoConnect
    /\ stopped = {}
    /\ handles = {}
    /\ joining = [j \in Connects \cup {App} |-> {}]
    /\ thread = [t \in Threads |-> "new"]
    /\ last_state = [t \in Ticks |-> "None"]
    /\ firing = [f \in Firers |-> Quiet]
    /\ slot = FirstCallback
    /\ app = "ready"
    /\ registered = FirstCallback
    /\ reported = {}
    /\ closed = FALSE
    /\ stops = 0

Alive(t) == thread[t] \notin {"new", "ended"}

----------------------------------------------------------------------------
(* Stopping threads: stop_ice_threads *)

\* Mutant of HaltThreads: the flag is not set.
HaltThreadsNoFlag(j) ==
    /\ joining' = [joining EXCEPT ![j] = handles]
    /\ handles' = {}
    /\ UNCHANGED stopped

\* Under the lock: set the current stop flag and take both handles.
HaltThreads(j) ==
    /\ stopped' = stopped \cup {ice_stop}
    /\ joining' = [joining EXCEPT ![j] = handles]
    /\ handles' = {}

\* Mutant of JoinThreads: only the receive thread is joined.
JoinThreadsOfReceive(j) ==
    /\ \A t \in joining[j] \cap Receives : thread[t] = "ended"
    /\ joining' = [joining EXCEPT ![j] = {}]

\* Outside of the lock: both threads have ended.
JoinThreads(j) ==
    /\ \A t \in joining[j] : thread[t] = "ended"
    /\ joining' = [joining EXCEPT ![j] = {}]

----------------------------------------------------------------------------
(* Calling the application: fire_state_change *)

Fire(f, event) == firing' = [firing EXCEPT ![f] = [stage |-> "take", event |-> event]]

TakeCallback(f) ==
    /\ firing[f].stage = "take"
    /\ IF slot = NoCallback
       THEN firing' = [firing EXCEPT ![f] = Quiet]
       ELSE firing' = [firing EXCEPT ![f] =
                         [stage |-> "call", event |-> @.event, cb |-> slot]]
    /\ slot' = NoCallback
    /\ UNCHANGED <<connect, sharedVars, joining, thread, last_state, appVars,
                   registered, reported>>

CallCallback(f) ==
    /\ firing[f].stage = "call"
    /\ firing' = [firing EXCEPT ![f].stage = "restore"]
    /\ reported' = reported \cup {firing[f].event}
    /\ UNCHANGED <<connect, sharedVars, joining, thread, last_state, slot, appVars,
                   registered>>

RestoreCallback(f) ==
    /\ firing[f].stage = "restore"
    /\ slot' = firing[f].cb
    /\ firing' = [firing EXCEPT ![f] = Quiet]
    /\ UNCHANGED <<connect, sharedVars, joining, thread, last_state, appVars,
                   registered, reported>>

----------------------------------------------------------------------------
(* The background thread of connect: connect_background, start_ice_threads *)

\* NAT route, STUN, TURN, socket, SDP exchange and start_checks succeeded.
StoreSession(k) ==
    /\ connect[k] = "gather"
    /\ session' = [owner |-> k, state |-> "Connecting"]
    /\ connect' = [connect EXCEPT ![k] = "halt"]
    /\ UNCHANGED <<ice_stop, stopped, handles, joining, thread, last_state, firing,
                   callbackVars, appVars>>

\* One of them failed: the Failed event is fired from this thread.
ConnectFails(k) ==
    /\ connect[k] = "gather"
    /\ connect' = [connect EXCEPT ![k] = "failed"]
    /\ Fire(k, <<k, "Failed">>)
    /\ UNCHANGED <<sharedVars, joining, thread, last_state, callbackVars, appVars>>

HaltOld(k) ==
    /\ connect[k] = "halt"
    /\ HaltThreads(k)
    /\ connect' = [connect EXCEPT ![k] = "join"]
    /\ UNCHANGED <<session, ice_stop, thread, last_state, firing, callbackVars,
                   appVars>>

JoinOld(k) ==
    /\ connect[k] = "join"
    /\ JoinThreads(k)
    /\ connect' = [connect EXCEPT ![k] = "flag"]
    /\ UNCHANGED <<sharedVars, thread, last_state, firing, callbackVars, appVars>>

NewFlag(k) ==
    /\ connect[k] = "flag"
    /\ ice_stop' = k
    /\ connect' = [connect EXCEPT ![k] = "spawn"]
    /\ UNCHANGED <<session, stopped, handles, joining, thread, last_state, firing,
                   callbackVars, appVars>>

SpawnThreads(k) ==
    /\ connect[k] = "spawn"
    /\ thread' = [t \in Threads |-> IF Gen(t) = k THEN "top" ELSE thread[t]]
    /\ connect' = [connect EXCEPT ![k] = "handles"]
    /\ UNCHANGED <<sharedVars, joining, last_state, firing, callbackVars, appVars>>

StoreHandles(k) ==
    /\ connect[k] = "handles"
    /\ handles' = {t \in Threads : Gen(t) = k}
    /\ connect' = [connect EXCEPT ![k] = "done"]
    /\ UNCHANGED <<session, ice_stop, stopped, joining, thread, last_state, firing,
                   callbackVars, appVars>>

ConnectStep(k) ==
    \/ StoreSession(k)
    \/ ConnectFails(k)
    \/ HaltOld(k)
    \/ JoinOld(k)
    \/ NewFlag(k)
    \/ SpawnThreads(k)
    \/ StoreHandles(k)

----------------------------------------------------------------------------
(* The loops of start_ice_threads *)

Quietly(t) == t \in Ticks => firing[t] = Quiet

\* while !stop.load(): the check and what follows it are separate steps.
LoopTop(t) ==
    /\ thread[t] = "top" /\ Quietly(t)
    /\ thread' = [thread EXCEPT ![t] = IF Gen(t) \in stopped THEN "ended" ELSE "body"]
    /\ UNCHANGED <<connect, sharedVars, joining, last_state, firing, callbackVars,
                   appVars>>

\* States the agent may be in after a tick or a datagram.
Moves(s) ==
    {s} \cup (PROGRESS \cap CASE s = "Connecting" -> {"Connected", "Completed", "Failed"}
                             [] s = "Connected" -> {"Completed", "Failed"}
                             [] s = "Failed" -> {"Completed"}
                             [] OTHER -> {})

DriveAgent == session' \in {[session EXCEPT !.state = s] : s \in Moves(session.state)}

\* Mutant of LookAtState: a state is only reported if the last one was.
LookAtStateOnce(t) ==
    /\ thread[t] = "body" /\ t \in Ticks
    /\ session.state # "None" /\ last_state[t] = "None"
    /\ last_state' = [last_state EXCEPT ![t] = session.state]
    /\ Fire(t, <<session.owner, session.state>>)
    /\ thread' = [thread EXCEPT ![t] = "tick"]
    /\ UNCHANGED <<connect, sharedVars, joining, callbackVars, appVars>>

\* The tick loop looks at the state before it drives the agent.
LookAtState(t) ==
    /\ thread[t] = "body" /\ t \in Ticks
    /\ session.state \notin {"None", last_state[t]}
    /\ last_state' = [last_state EXCEPT ![t] = session.state]
    /\ Fire(t, <<session.owner, session.state>>)
    /\ thread' = [thread EXCEPT ![t] = "tick"]
    /\ UNCHANGED <<connect, sharedVars, joining, callbackVars, appVars>>

TickAgent(t) ==
    /\ t \in Ticks
    /\ \/ thread[t] = "body" /\ session.state \in {"None", last_state[t]}
       \/ thread[t] = "tick" /\ Quietly(t)
    /\ DriveAgent
    /\ thread' = [thread EXCEPT ![t] = "pace"]
    /\ UNCHANGED <<connect, ice_stop, stopped, handles, joining, last_state, firing,
                   callbackVars, appVars>>

\* End of an iteration; while the peer is silent Disconnected is fired in each.
PaceTick(t) ==
    /\ thread[t] = "pace" /\ t \in Ticks
    /\ thread' = [thread EXCEPT ![t] = "top"]
    /\ \/ UNCHANGED firing
       \/ /\ HEARTBEAT /\ last_state[t] = "Completed"
          /\ Fire(t, <<Gen(t), "Disconnected">>)
    /\ UNCHANGED <<connect, sharedVars, joining, last_state, callbackVars, appVars>>

\* recv_from of the current socket timed out, or the agent took a datagram.
ReceiveOnce(t) ==
    /\ thread[t] = "body" /\ t \in Receives
    /\ DriveAgent
    /\ thread' = [thread EXCEPT ![t] = "top"]
    /\ UNCHANGED <<connect, ice_stop, stopped, handles, joining, last_state, firing,
                   callbackVars, appVars>>

ThreadStep(t) ==
    \/ LoopTop(t)
    \/ LookAtState(t)
    \/ TickAgent(t)
    \/ PaceTick(t)
    \/ ReceiveOnce(t)

FireStep(f) ==
    \/ TakeCallback(f)
    \/ CallCallback(f)
    \/ RestoreCallback(f)

----------------------------------------------------------------------------
(* The application *)

\* How an application spaces its calls: not at all, after an event of every
\* connect it made was reported, or after their background threads have ended.
MayCall ==
    /\ app = "ready"
    /\ CASE CALLS = "any time" -> TRUE
         [] CALLS = "informed" -> \A k \in Connects :
                closed \/ connect[k] = "idle" \/ \E e \in reported : e[1] = k
         [] CALLS = "settled" -> \A k \in Connects :
                connect[k] \in {"idle", "done", "failed"} /\ firing[k] = Quiet

\* connect() itself: parameters and heartbeat interval, then the thread.
Connect(k) ==
    /\ MayCall /\ connect[k] = "idle"
    /\ connect' = [connect EXCEPT ![k] = "gather"]
    /\ closed' = FALSE
    /\ UNCHANGED <<sharedVars, joining, thread, last_state, firing, callbackVars,
                   app, stops>>

\* The application may register another callback before it connects again, when
\* every connect it made has failed and was reported to it.
OnStateChange(c) ==
    /\ MayCall /\ c # registered
    /\ \A k \in Connects : connect[k] = "idle" \/ <<k, "Failed">> \in reported
    /\ registered' = c
    /\ slot' = c
    /\ UNCHANGED <<connect, sharedVars, joining, thread, last_state, firing,
                   reported,
                   appVars>>

\* close() and stop_ice() both begin with stop_ice_threads.
Halt(next) ==
    /\ MayCall /\ stops < MAX_STOPS
    /\ HaltThreads(App)
    /\ app' = next
    /\ stops' = stops + 1
    /\ UNCHANGED <<connect, session, ice_stop, thread, last_state, firing,
                   callbackVars,
                   closed>>

Close == Halt("join_close")

StopIce == Halt("join_stop")

JoinInCall ==
    /\ app \in {"join_close", "join_stop"}
    /\ JoinThreads(App)
    /\ app' = IF app = "join_close" THEN "drop" ELSE "stop"
    /\ UNCHANGED <<connect, sharedVars, thread, last_state, firing, callbackVars,
                   closed, stops>>

\* Mutant of DropSession: close() stops the agent but keeps it.
DropSessionKept ==
    /\ app = "drop"
    /\ session' = IF session = NoSession THEN session
                  ELSE [session EXCEPT !.state = "Closed"]
    /\ app' = "ready"
    /\ closed' = TRUE
    /\ UNCHANGED <<connect, ice_stop, stopped, handles, joining, thread, last_state,
                   firing, callbackVars, stops>>

\* End of close().
DropSession ==
    /\ app = "drop"
    /\ session' = NoSession
    /\ app' = "ready"
    /\ closed' = TRUE
    /\ UNCHANGED <<connect, ice_stop, stopped, handles, joining, thread, last_state,
                   firing, callbackVars, stops>>

\* End of stop_ice().
StopAgent ==
    /\ app = "stop"
    /\ session' = IF session = NoSession THEN session
                  ELSE [session EXCEPT !.state = "Closed"]
    /\ app' = "ready"
    /\ UNCHANGED <<connect, ice_stop, stopped, handles, joining, thread, last_state,
                   firing, callbackVars, closed, stops>>

----------------------------------------------------------------------------

Next ==
    \/ \E k \in Connects : Connect(k) \/ ConnectStep(k)
    \/ \E t \in Threads : ThreadStep(t)
    \/ \E f \in Firers : FireStep(f)
    \/ \E c \in Callbacks : OnStateChange(c)
    \/ Close
    \/ StopIce
    \/ JoinInCall
    \/ DropSession
    \/ StopAgent

Spec == Init /\ [][Next]_vars

(* Every thread is scheduled and every network call of connect_background has a
   time limit (HTTP 10 s, DTLS 15 s); the application finishes a call it began,
   but is not obliged to call anything. *)
Fairness ==
    /\ \A k \in Connects : WF_vars(ConnectStep(k))
    /\ \A t \in Threads : WF_vars(ThreadStep(t))
    /\ \A f \in Firers : WF_vars(FireStep(f))
    /\ WF_vars(JoinInCall) /\ WF_vars(DropSession) /\ WF_vars(StopAgent)

FairSpec == Spec /\ Fairness

----------------------------------------------------------------------------
(* Correctness *)

\* Every variable keeps its type.
TypeOK ==
    /\ connect \in [Connects -> ConnectSteps]
    /\ session \in [owner : Flags, state : States \cup {"None"}]
    /\ ice_stop \in Flags /\ stopped \subseteq Flags
    /\ handles \subseteq Threads
    /\ joining \in [Connects \cup {App} -> SUBSET Threads]
    /\ thread \in [Threads -> {"new", "top", "body", "tick", "pace", "ended"}]
    /\ last_state \in [Ticks -> States \cup {"None"}]
    /\ firing \in [Firers -> Firings]
    /\ slot \in Callbacks \cup {NoCallback}
    /\ app \in AppSteps /\ registered \in Callbacks
    /\ reported \subseteq Events
    /\ closed \in BOOLEAN /\ stops \in 0..MAX_STOPS

\* After close() has returned ("Stop ICE threads, close UDP, release all
\* resources.") there is no agent, no socket and no thread that uses them, until
\* the application connects again.
Released ==
    closed => session = NoSession /\ \A t \in Threads : ~Alive(t)

\* Every thread that runs was told to stop or can be: its flag is the one
\* ClientInner holds, so no later close() leaves a thread behind for ever.
ThreadsReachable ==
    \A t \in Threads : Alive(t) => Gen(t) \in stopped \/ ice_stop = Gen(t)

\* Nothing is called back once close() has returned and before the next connect.
QuietAfterClose ==
    closed => \A f \in Firers : firing[f].stage # "call"

\* close() and stop_ice() return: their joins never wait for a thread that
\* nobody stops.
CallsReturn == app # "ready" ~> app = "ready"

ConnectsAgain(k) == \E j \in Connects \ {k} : connect[j] # "idle"

\* A state the agent stays in is reported to the application, if it leaves the
\* session running and does not connect again.
StateReported ==
    \A e \in Connects \X States :
        session = [owner |-> e[1], state |-> e[2]]
            ~> \/ e \in reported
               \/ session # [owner |-> e[1], state |-> e[2]]
               \/ stops > 0 \/ ConnectsAgain(e[1])
=============================================================================
