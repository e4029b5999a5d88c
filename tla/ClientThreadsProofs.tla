------------------------ MODULE ClientThreadsProofs ------------------------
(***************************************************************************)
(* Proofs about the threads of a P2pClient (ClientThreads), for any number *)
(* of connects, callbacks and calls.                                       *)
(***************************************************************************)
EXTENDS ClientThreads, TLAPS

----------------------------------------------------------------------------
(* Types *)

\* A session that is stored has the connect that stored it and an agent.
SessionOK == session = NoSession \/ session \in [owner : Connects, state : States]

Typed == TypeOK /\ SessionOK

\* The bound on the calls, taken by itself.
LEMMA StopsBound == MAX_STOPS \in Nat
  BY ThreadsAssumption

\* A thread belongs to a connect.
LEMMA GenOfThread == \A t \in Threads : Gen(t) \in Connects
  BY DEF Threads, Ticks, Receives, Gen

\* What fire_state_change is doing can be told from its stage.
LEMMA FiringStages ==
    ASSUME NEW x \in Firings
    PROVE  /\ x = Quiet <=> x.stage = "quiet"
           /\ x # Quiet => x.event \in Events
           /\ x.stage \in {"call", "restore"} => x.cb \in Callbacks
  BY DEF Firings, Quiet

\* Firing an event.
LEMMA FireTyped ==
    ASSUME Typed, NEW f \in Firers, NEW e \in Events, Fire(f, e)
    PROVE  firing' \in [Firers -> Firings]
  BY DEF Typed, TypeOK, Fire, Firings

\* Driving an agent leaves an absent one absent.
LEMMA DriveTyped ==
    ASSUME Typed, DriveAgent
    PROVE  /\ session = NoSession => session' = NoSession
           /\ session' = NoSession \/ session' \in [owner : Connects, state : States]
<1>1. CASE session = NoSession
  BY <1>1 DEF DriveAgent, NoSession, Moves
<1>2. CASE session \in [owner : Connects, state : States]
  <2>1. Moves(session.state) \subseteq States
    BY <1>2, ThreadsAssumption DEF Moves, States
  <2>2. PICK s \in States : session' = [session EXCEPT !.state = s]
    BY <2>1 DEF DriveAgent
  <2>3. session # NoSession
    BY <1>2 DEF NoSession, States
  <2> QED
    BY <1>2, <2>2, <2>3
<1> QED
  BY <1>1, <1>2 DEF Typed, SessionOK

\* Either kind of session has its type.
LEMMA SessionTyped ==
    ASSUME session' = NoSession \/ session' \in [owner : Connects, state : States]
    PROVE  session' \in [owner : Flags, state : States \cup {"None"}] /\ SessionOK'
  BY DEF NoSession, Flags, SessionOK

\* Types hold in the beginning.
LEMMA TypedInit == Init => Typed
<1> SUFFICES ASSUME Init PROVE Typed
  OBVIOUS
<1>1. session \in [owner : Flags, state : States \cup {"None"}] /\ SessionOK
  BY DEF Init, SessionOK, NoSession, Flags
<1>2. firing \in [Firers -> Firings]
  BY DEF Init, Firings
<1>3. stops \in 0..MAX_STOPS
  BY StopsBound DEF Init
<1>4. slot \in Callbacks \cup {NoCallback} /\ registered \in Callbacks
  BY ThreadsAssumption DEF Init
<1> QED
  BY <1>1, <1>2, <1>3, <1>4 DEF Init, Typed, TypeOK, Flags, ConnectSteps, AppSteps

\* Steps of the background threads of connect.
LEMMA ConnectTyped ==
    ASSUME Typed, NEW k \in Connects, ConnectStep(k)
    PROVE  Typed'
<1> USE DEF Typed, TypeOK, ConnectSteps
<1>1. CASE StoreSession(k)
  <2>1. session' \in [owner : Connects, state : States]
    BY <1>1 DEF StoreSession, States
  <2> QED
    BY <1>1, <2>1, SessionTyped DEF StoreSession, callbackVars, appVars
<1>2. CASE ConnectFails(k)
  <2>1. firing' \in [Firers -> Firings]
    BY <1>2, FireTyped DEF ConnectFails, Firers, Events, States
  <2> QED
    BY <1>2, <2>1 DEF ConnectFails, sharedVars, callbackVars, appVars, SessionOK
<1>3. CASE HaltOld(k)
  BY <1>3 DEF HaltOld, HaltThreads, callbackVars, appVars, SessionOK
<1>4. CASE JoinOld(k)
  BY <1>4 DEF JoinOld, JoinThreads, sharedVars, callbackVars, appVars, SessionOK
<1>5. CASE NewFlag(k)
  BY <1>5 DEF NewFlag, callbackVars, appVars, SessionOK, Flags
<1>6. CASE SpawnThreads(k)
  BY <1>6 DEF SpawnThreads, sharedVars, callbackVars, appVars, SessionOK
<1>7. CASE StoreHandles(k)
  BY <1>7 DEF StoreHandles, callbackVars, appVars, SessionOK
<1> QED
  BY <1>1, <1>2, <1>3, <1>4, <1>5, <1>6, <1>7 DEF ConnectStep

\* Steps of the loops.
LEMMA ThreadTyped ==
    ASSUME Typed, NEW t \in Threads, ThreadStep(t)
    PROVE  Typed'
<1> USE DEF Typed, TypeOK
<1>1. CASE LoopTop(t)
  BY <1>1 DEF LoopTop, sharedVars, callbackVars, appVars, SessionOK
<1>2. CASE LookAtState(t)
  <2>1. session \in [owner : Connects, state : States]
    BY <1>2 DEF LookAtState, SessionOK, NoSession
  <2>2. firing' \in [Firers -> Firings]
    BY <1>2, <2>1, FireTyped DEF LookAtState, Firers, Events
  <2>3. last_state' \in [Ticks -> States \cup {"None"}]
    BY <1>2, <2>1 DEF LookAtState
  <2> QED
    BY <1>2, <2>2, <2>3 DEF LookAtState, sharedVars, callbackVars, appVars, SessionOK
<1>3. CASE TickAgent(t)
  BY <1>3, DriveTyped, SessionTyped DEF TickAgent, callbackVars, appVars
<1>4. CASE PaceTick(t)
  <2>1. firing' \in [Firers -> Firings]
    <3>1. CASE UNCHANGED firing
      BY <3>1
    <3>2. CASE last_state[t] = "Completed" /\ Fire(t, <<Gen(t), "Disconnected">>)
      BY <1>4, <3>2, FireTyped, GenOfThread DEF PaceTick, Firers, Events
    <3> QED
      BY <1>4, <3>1, <3>2 DEF PaceTick
  <2> QED
    BY <1>4, <2>1 DEF PaceTick, sharedVars, callbackVars, appVars, SessionOK
<1>5. CASE ReceiveOnce(t)
  BY <1>5, DriveTyped, SessionTyped DEF ReceiveOnce, callbackVars, appVars
<1> QED
  BY <1>1, <1>2, <1>3, <1>4, <1>5 DEF ThreadStep

\* Steps of fire_state_change.
LEMMA FireStepTyped ==
    ASSUME Typed, NEW f \in Firers, FireStep(f)
    PROVE  Typed'
<1> USE DEF Typed, TypeOK
<1> DEFINE x == firing[f]
<1>0. x \in Firings /\ Quiet \in Firings
  BY DEF Firings
<1>1. CASE TakeCallback(f)
  <2>1. x.event \in Events
    BY <1>0, <1>1, FiringStages DEF TakeCallback, Quiet
  <2>2. CASE slot = NoCallback
    BY <1>0, <1>1, <2>2
    DEF TakeCallback, sharedVars, appVars, SessionOK
  <2>3. CASE slot # NoCallback
    <3>1. [stage |-> "call", event |-> x.event, cb |-> slot] \in Firings
      BY <2>1, <2>3 DEF Firings
    <3>2. firing' = [firing EXCEPT ![f] =
                       [stage |-> "call", event |-> x.event, cb |-> slot]]
      BY <1>1, <2>3 DEF TakeCallback
    <3> QED
      BY <1>1, <3>1, <3>2 DEF TakeCallback, sharedVars, appVars, SessionOK
  <2> QED
    BY <2>2, <2>3
<1>2. CASE CallCallback(f)
  <2>1. x \in [stage : {"call", "restore"}, event : Events, cb : Callbacks]
    BY <1>0, <1>2 DEF CallCallback, Firings, Quiet
  <2>2. [x EXCEPT !.stage = "restore"] \in Firings /\ x.event \in Events
    BY <2>1 DEF Firings
  <2>3. firing' = [firing EXCEPT ![f] = [x EXCEPT !.stage = "restore"]]
    BY <1>2 DEF CallCallback
  <2> QED
    BY <1>2, <2>2, <2>3 DEF CallCallback, sharedVars, appVars, SessionOK
<1>3. CASE RestoreCallback(f)
  BY <1>0, <1>3, FiringStages DEF RestoreCallback, sharedVars, appVars, SessionOK
<1> QED
  BY <1>1, <1>2, <1>3 DEF FireStep

\* Calls of the application.
LEMMA ApplicationTyped ==
    ASSUME Typed,
           \/ \E k \in Connects : Connect(k)
           \/ \E c \in Callbacks : OnStateChange(c)
           \/ Close \/ StopIce \/ JoinInCall \/ DropSession \/ StopAgent
    PROVE  Typed'
<1> USE DEF Typed, TypeOK
<1>1. ASSUME NEW k \in Connects, Connect(k) PROVE Typed'
  BY <1>1 DEF Connect, ConnectSteps, sharedVars, callbackVars, SessionOK
<1>2. ASSUME NEW c \in Callbacks, OnStateChange(c) PROVE Typed'
  BY <1>2 DEF OnStateChange, sharedVars, appVars, SessionOK
<1>3. ASSUME NEW s \in {"join_close", "join_stop"}, Halt(s) PROVE Typed'
  <2>1. stops \in 0..MAX_STOPS /\ stops < MAX_STOPS /\ stops' = stops + 1
    BY <1>3 DEF Halt
  <2>2. stops' \in 0..MAX_STOPS
    BY <2>1, StopsBound
  <2> QED
    BY <1>3, <2>2 DEF Halt, HaltThreads, AppSteps, callbackVars, SessionOK
<1>4. CASE JoinInCall
  BY <1>4 DEF JoinInCall, JoinThreads, AppSteps, sharedVars, callbackVars, SessionOK
<1>5. CASE DropSession
  BY <1>5, SessionTyped DEF DropSession, AppSteps, callbackVars
<1>6. CASE StopAgent
  <2>1. session' = NoSession \/ session' \in [owner : Connects, state : States]
    BY <1>6 DEF StopAgent, SessionOK, States
  <2> QED
    BY <1>6, <2>1, SessionTyped DEF StopAgent, AppSteps, callbackVars
<1> QED
  BY <1>1, <1>2, <1>3, <1>4, <1>5, <1>6 DEF Close, StopIce

\* And are kept by every step.
LEMMA TypedStep == Typed /\ [Next]_vars => Typed'
<1> SUFFICES ASSUME Typed, [Next]_vars PROVE Typed'
  OBVIOUS
<1>1. CASE UNCHANGED vars
  BY <1>1 DEF vars, sharedVars, callbackVars, appVars, Typed, TypeOK, SessionOK
<1> QED
  BY <1>1, ConnectTyped, ThreadTyped, FireStepTyped, ApplicationTyped DEF Next

\* Every variable keeps its type (client.rs), however the application calls.
THEOREM TypeCorrect == Spec => []TypeOK
<1>1. Typed => TypeOK
  BY DEF Typed
<1> QED
  BY <1>1, TypedInit, TypedStep, PTL DEF Spec

----------------------------------------------------------------------------
(* Calls that wait for the background thread of a connect *)

\* The application lets the background thread of every connect it made end, its
\* Failed event included, before it calls anything.
SettledCalls == CALLS = "settled"

\* The background thread of connect k runs.
Active(k) == connect[k] \notin {"idle", "done", "failed"}

\* No two connects run, and none during a call or once the client is closed.
OneAtATime ==
    /\ \A k, l \in Connects : Active(k) /\ Active(l) => k = l
    /\ app # "ready" \/ closed =>
         \A k \in Connects : ~Active(k) /\ firing[k] = Quiet

\* Who joins is at its join, and who is between two stops of the threads finds
\* no handles.
JoinsInOrder ==
    /\ \A k \in Connects : joining[k] # {} => connect[k] = "join"
    /\ joining[App] # {} => app \in {"join_close", "join_stop"}
    /\ \A k \in Connects :
         connect[k] \in {"join", "flag", "spawn", "handles"} => handles = {}
    /\ \A k \in Connects : connect[k] \in {"spawn", "handles"} => ice_stop = k
    /\ app # "ready" => handles = {}

\* A thread that runs has a handle and the current flag, or was told to stop and is
\* joined, or is about to have its handle stored.
Accounted(t) ==
    \/ t \in handles /\ ice_stop = Gen(t)
    \/ Gen(t) \in stopped /\ \E j \in Connects \cup {App} : t \in joining[j]
    \/ connect[Gen(t)] = "handles" /\ ice_stop = Gen(t)

ThreadsAccounted == \A t \in Threads : Alive(t) => Accounted(t)

\* Only a thread that runs is inside fire_state_change.
FiringAlive == \A t \in Ticks : firing[t] # Quiet => Alive(t)

ClientInv ==
    /\ Typed
    /\ OneAtATime
    /\ JoinsInOrder
    /\ ThreadsAccounted
    /\ FiringAlive
    /\ Released

\* A step that neither touches threads nor what accounts for them.
SameThreads == UNCHANGED <<thread, handles, joining, ice_stop, stopped>>

\* The application, the connects and the tick threads are different things.
LEMMA Distinct ==
    /\ App \notin Connects
    /\ \A t \in Ticks : t \notin Connects
    /\ Ticks \subseteq Threads /\ Receives \subseteq Threads
  BY ThreadsAssumption DEF App, Ticks, Threads

\* The invariant holds in the beginning.
LEMMA ClientInit == Init => ClientInv
<1> SUFFICES ASSUME Init PROVE ClientInv
  OBVIOUS
<1>1. Typed
  BY TypedInit
<1>2. OneAtATime
  BY DEF Init, OneAtATime, Active
<1>3. JoinsInOrder
  BY DEF Init, JoinsInOrder
<1>4. ThreadsAccounted /\ Released
  BY DEF Init, ThreadsAccounted, Alive, Released
<1>5. FiringAlive
  BY DEF Init, FiringAlive, Firers
<1> QED
  BY <1>1, <1>2, <1>3, <1>4, <1>5 DEF ClientInv

----------------------------------------------------------------------------

\* Of two connects one runs at a time, so what k finds it has made itself.
LEMMA ConnectClient ==
    ASSUME ClientInv, NEW k \in Connects, ConnectStep(k)
    PROVE  ClientInv'
<1> USE DEF ClientInv
<1>1. Typed' /\ Typed
  BY ConnectTyped
<1>2. Active(k) /\ app = "ready" /\ ~closed
  BY DEF ConnectStep, StoreSession, ConnectFails, HaltOld, JoinOld, NewFlag,
     SpawnThreads, StoreHandles, Active, OneAtATime
<1>3. \A l \in Connects : l # k => ~Active(l) /\ joining[l] = {}
  BY <1>2 DEF OneAtATime, JoinsInOrder, Active
<1>4. app' = app /\ closed' = closed /\ \A l \in Connects : l # k => connect'[l] = connect[l]
  BY <1>1 DEF ConnectStep, StoreSession, ConnectFails, HaltOld, JoinOld, NewFlag,
     SpawnThreads, StoreHandles, appVars, Typed, TypeOK
<1>5. OneAtATime' /\ Released'
  BY <1>2, <1>3, <1>4 DEF OneAtATime, Active, Released
<1>6. FiringAlive'
  <2>1. CASE ConnectFails(k)
    BY <2>1, Distinct DEF ConnectFails, Fire, FiringAlive, Alive, Typed, TypeOK, Firers
  <2>2. CASE SpawnThreads(k)
    BY <2>2, Distinct DEF SpawnThreads, FiringAlive, Alive
  <2>3. CASE ~ConnectFails(k) /\ ~SpawnThreads(k)
    BY <2>3 DEF ConnectStep, StoreSession, HaltOld, JoinOld, NewFlag, StoreHandles,
       FiringAlive, Alive
  <2> QED
    BY <2>1, <2>2, <2>3
<1>7. JoinsInOrder' /\ ThreadsAccounted'
  <2> USE DEF Typed, TypeOK
  <2>1. \A t \in Threads : connect[Gen(t)] = "handles" => Gen(t) = k
    BY <1>3, GenOfThread DEF Active
  <2>2. joining[App] = {} /\ App \in Connects \cup {App}
    BY <1>2 DEF JoinsInOrder
  <2>3. CASE StoreSession(k) \/ ConnectFails(k)
    <3>1. /\ SameThreads /\ connect[k] = "gather"
          /\ connect'[k] \in {"halt", "failed"}
      BY <1>1, <2>3 DEF StoreSession, ConnectFails, sharedVars, SameThreads
    <3> QED
      BY <1>2, <1>3, <1>4, <2>1, <2>2, <3>1
      DEF SameThreads, JoinsInOrder, ThreadsAccounted, Accounted, Alive, Active
  <2>4. CASE HaltOld(k)
    <3>1. /\ connect[k] = "halt" /\ connect'[k] = "join"
          /\ joining' = [joining EXCEPT ![k] = handles] /\ handles' = {}
          /\ stopped' = stopped \cup {ice_stop}
          /\ thread' = thread /\ ice_stop' = ice_stop
      BY <1>1, <2>4 DEF HaltOld, HaltThreads
    <3>2. JoinsInOrder'
      BY <1>1, <1>2, <1>3, <1>4, <2>2, <3>1, Distinct DEF JoinsInOrder, Active
    <3>3. ASSUME NEW t \in Threads, Alive(t) PROVE Accounted(t)'
      <4>1. CASE t \in handles /\ ice_stop = Gen(t)
        BY <1>1, <3>1, <4>1 DEF Accounted
      <4>2. CASE Gen(t) \in stopped /\ \E j \in Connects \cup {App} : t \in joining[j]
        <5>1. PICK j \in Connects \cup {App} : t \in joining[j]
          BY <4>2
        <5>2. FALSE
          BY <1>3, <2>2, <3>1, <5>1 DEF JoinsInOrder
        <5> QED
          BY <5>2
      <4>3. connect[Gen(t)] # "handles"
        BY <2>1, <3>1
      <4> QED
        BY <3>3, <4>1, <4>2, <4>3 DEF ThreadsAccounted, Accounted
    <3> QED
      BY <3>1, <3>2, <3>3 DEF ThreadsAccounted, Alive
  <2>5. CASE JoinOld(k)
    <3>1. /\ connect[k] = "join" /\ connect'[k] = "flag"
          /\ joining' = [joining EXCEPT ![k] = {}] /\ handles' = handles
          /\ \A t \in joining[k] : thread[t] = "ended"
          /\ stopped' = stopped /\ thread' = thread /\ ice_stop' = ice_stop
      BY <1>1, <2>5 DEF JoinOld, JoinThreads, sharedVars
    <3>2. JoinsInOrder'
      BY <1>1, <1>2, <1>3, <1>4, <2>2, <3>1, Distinct DEF JoinsInOrder, Active
    <3>3. \A t \in Threads : ~Alive(t)
      BY <1>3, <2>1, <2>2, <3>1 DEF ThreadsAccounted, Accounted, JoinsInOrder, Alive
    <3> QED
      BY <3>1, <3>2, <3>3 DEF ThreadsAccounted, Alive
  <2>6. CASE NewFlag(k)
    <3>1. /\ connect[k] = "flag" /\ connect'[k] = "spawn" /\ ice_stop' = k
          /\ UNCHANGED <<thread, handles, joining, stopped>>
      BY <1>1, <2>6 DEF NewFlag
    <3>2. JoinsInOrder'
      BY <1>1, <1>2, <1>3, <1>4, <2>2, <3>1 DEF JoinsInOrder, Active
    <3>3. \A t \in Threads : ~Alive(t)
      BY <1>3, <2>1, <2>2, <3>1 DEF ThreadsAccounted, Accounted, JoinsInOrder, Alive
    <3> QED
      BY <3>1, <3>2, <3>3 DEF ThreadsAccounted, Alive
  <2>7. CASE SpawnThreads(k)
    <3>1. /\ connect[k] = "spawn" /\ connect'[k] = "handles" /\ ice_stop = k
          /\ thread' = [t \in Threads |-> IF Gen(t) = k THEN "top" ELSE thread[t]]
          /\ UNCHANGED <<handles, joining, stopped, ice_stop>>
      BY <1>1, <2>7 DEF SpawnThreads, sharedVars, JoinsInOrder
    <3>2. JoinsInOrder'
      BY <1>1, <1>2, <1>3, <1>4, <2>2, <3>1 DEF JoinsInOrder, Active
    <3>3. \A t \in Threads : ~Alive(t)
      BY <1>3, <2>1, <2>2, <3>1 DEF ThreadsAccounted, Accounted, JoinsInOrder, Alive
    <3> QED
      BY <3>1, <3>2, <3>3 DEF ThreadsAccounted, Accounted, Alive
  <2>8. CASE StoreHandles(k)
    <3>1. /\ connect[k] = "handles" /\ connect'[k] = "done" /\ ice_stop = k
          /\ handles' = {t \in Threads : Gen(t) = k}
          /\ UNCHANGED <<thread, joining, stopped, ice_stop>>
      BY <1>1, <2>8 DEF StoreHandles, JoinsInOrder
    <3>2. JoinsInOrder'
      BY <1>1, <1>2, <1>3, <1>4, <2>2, <3>1 DEF JoinsInOrder, Active
    <3>3. \A t \in Threads : Alive(t) => Gen(t) = k
      BY <1>3, <2>1, <2>2, <3>1 DEF ThreadsAccounted, Accounted, JoinsInOrder, Alive
    <3> QED
      BY <3>1, <3>2, <3>3 DEF ThreadsAccounted, Accounted, Alive
  <2> QED
    BY <2>3, <2>4, <2>5, <2>6, <2>7, <2>8 DEF ConnectStep
<1> QED
  BY <1>1, <1>5, <1>6, <1>7

\* The loops only run threads that are accounted for, and not while closed.
LEMMA ThreadClient ==
    ASSUME ClientInv, NEW t \in Threads, ThreadStep(t)
    PROVE  ClientInv'
<1> USE DEF ClientInv
<1>1. Typed' /\ Typed
  BY ThreadTyped
<1>2. /\ Alive(t) /\ UNCHANGED <<connect, handles, joining, ice_stop, stopped, app, closed>>
      /\ \A u \in Threads : u # t => thread'[u] = thread[u]
  BY <1>1 DEF ThreadStep, LoopTop, LookAtState, TickAgent, PaceTick, ReceiveOnce, Alive,
     sharedVars, appVars, Typed, TypeOK
<1>3. ~closed /\ Released'
  BY <1>2 DEF Released
<1>4. JoinsInOrder'
  BY <1>2 DEF JoinsInOrder
<1>5. ThreadsAccounted'
  BY <1>2 DEF ThreadsAccounted, Accounted, Alive
<1>6. /\ \A f \in Firers : f # t => firing'[f] = firing[f]
      /\ t \in Ticks /\ firing'[t] # Quiet => thread'[t] \notin {"new", "ended"}
  <2> USE DEF Typed, TypeOK
  <2>1. CASE LoopTop(t)
    BY <1>1, <2>1 DEF LoopTop, Quietly
  <2>2. CASE LookAtState(t)
    BY <1>1, <2>2 DEF LookAtState, Fire
  <2>3. CASE TickAgent(t)
    BY <1>1, <2>3 DEF TickAgent
  <2>4. CASE PaceTick(t)
    BY <1>1, <2>4 DEF PaceTick, Fire
  <2>5. CASE ReceiveOnce(t)
    BY <1>1, <2>5 DEF ReceiveOnce
  <2> QED
    BY <2>1, <2>2, <2>3, <2>4, <2>5 DEF ThreadStep
<1>7. FiringAlive'
  BY <1>2, <1>6, Distinct DEF FiringAlive, Alive, Firers
<1>8. OneAtATime'
  <2>1. app # "ready" => \A k \in Connects : ~Active(k) /\ firing'[k] = Quiet
    <3>1. \A k \in Connects : k # t \/ t \notin Ticks
      BY Distinct
    <3>2. \A k \in Connects : k = t => firing'[k] = firing[k]
      BY <1>1, <3>1 DEF ThreadStep, LoopTop, LookAtState, TickAgent, PaceTick,
         ReceiveOnce
    <3> QED
      BY <1>6, <3>2 DEF OneAtATime, Firers
  <2> QED
    BY <1>2, <1>3, <2>1 DEF OneAtATime, Active
<1> QED
  BY <1>1, <1>3, <1>4, <1>5, <1>7, <1>8

\* A firing ends where it began, and nobody fires once the client is closed.
LEMMA FireClient ==
    ASSUME ClientInv, NEW f \in Firers, FireStep(f)
    PROVE  ClientInv'
<1> USE DEF ClientInv
<1>1. Typed' /\ Typed
  BY FireStepTyped
<1>2. /\ SameThreads /\ UNCHANGED <<connect, session, app, closed>>
      /\ firing[f] # Quiet
      /\ \A g \in Firers : g # f => firing'[g] = firing[g]
  BY <1>1, FiringStages DEF FireStep, TakeCallback, CallCallback, RestoreCallback, Quiet,
     sharedVars, appVars, SameThreads, Typed, TypeOK
<1>3. OneAtATime'
  BY <1>2 DEF OneAtATime, Active, Firers
<1>4. JoinsInOrder' /\ ThreadsAccounted' /\ Released'
  BY <1>2 DEF SameThreads, JoinsInOrder, ThreadsAccounted, Accounted, Alive, Released
<1>5. FiringAlive'
  BY <1>2 DEF SameThreads, FiringAlive, Alive, Firers
<1> QED
  BY <1>1, <1>3, <1>4, <1>5

\* A call that joins leaves no thread behind, since no connect runs beside it.
LEMMA ApplicationClient ==
    ASSUME SettledCalls, ClientInv,
           \/ \E k \in Connects : Connect(k)
           \/ \E c \in Callbacks : OnStateChange(c)
           \/ Close \/ StopIce \/ JoinInCall \/ DropSession \/ StopAgent
    PROVE  ClientInv'
<1> USE DEF ClientInv
<1>1. Typed' /\ Typed
  BY ApplicationTyped
<1>2. MayCall => /\ app = "ready"
                 /\ \A k \in Connects : ~Active(k) /\ firing[k] = Quiet
  BY DEF MayCall, SettledCalls, Active
<1> USE DEF Typed, TypeOK
<1>3. ASSUME NEW k \in Connects, Connect(k) PROVE ClientInv'
  <2>1. /\ SameThreads /\ app = "ready" /\ app' = "ready" /\ ~closed'
        /\ firing' = firing /\ connect[k] = "idle"
        /\ connect' = [connect EXCEPT ![k] = "gather"]
    BY <1>2, <1>3 DEF Connect, MayCall, sharedVars, SameThreads
  <2>2. \A l \in Connects : ~Active(l)
    BY <1>2, <1>3 DEF Connect
  <2>3. OneAtATime' /\ Released'
    BY <1>1, <2>1, <2>2 DEF OneAtATime, Active, Released
  <2>4. JoinsInOrder'
    BY <1>1, <2>1, <2>2 DEF JoinsInOrder, SameThreads, Active
  <2>5. \A t \in Threads : connect[Gen(t)] # "handles"
    BY <2>2, GenOfThread DEF Active
  <2>6. ThreadsAccounted' /\ FiringAlive'
    BY <2>1, <2>5 DEF ThreadsAccounted, Accounted, Alive, SameThreads, FiringAlive
  <2> QED
    BY <1>1, <2>3, <2>4, <2>6
<1>4. ASSUME NEW c \in Callbacks, OnStateChange(c) PROVE ClientInv'
  <2>1. SameThreads /\ UNCHANGED <<connect, session, app, closed, firing>>
    BY <1>4 DEF OnStateChange, sharedVars, appVars, SameThreads
  <2> QED
    BY <1>1, <2>1 DEF SameThreads, OneAtATime, Active, JoinsInOrder, ThreadsAccounted,
       Accounted, Alive, FiringAlive, Released
<1>5. ASSUME NEW s \in {"join_close", "join_stop"}, Halt(s) PROVE ClientInv'
  <2>1. /\ app = "ready" /\ app' = s /\ closed' = closed /\ joining[App] = {}
        /\ stopped' = stopped \cup {ice_stop} /\ handles' = {}
        /\ joining' = [joining EXCEPT ![App] = handles]
        /\ UNCHANGED <<connect, session, ice_stop, thread, firing>>
    BY <1>5 DEF Halt, HaltThreads, MayCall, JoinsInOrder
  <2>2. \A k \in Connects : ~Active(k) /\ firing[k] = Quiet
    BY <1>2, <1>5 DEF Halt
  <2>3. OneAtATime' /\ Released' /\ FiringAlive'
    BY <2>1, <2>2 DEF OneAtATime, Active, Released, FiringAlive, Alive
  <2>4. JoinsInOrder'
    BY <1>1, <2>1, <2>2, Distinct DEF JoinsInOrder, Active
  <2>5. ASSUME NEW t \in Threads, Alive(t) PROVE Accounted(t)'
    <3>1. CASE t \in handles /\ ice_stop = Gen(t)
      BY <1>1, <2>1, <3>1 DEF Accounted
    <3>2. CASE Gen(t) \in stopped /\ \E j \in Connects \cup {App} : t \in joining[j]
      BY <1>1, <2>1, <3>2 DEF Accounted
    <3>3. connect[Gen(t)] # "handles"
      BY <2>2, GenOfThread DEF Active
    <3> QED
      BY <2>5, <3>1, <3>2, <3>3 DEF ThreadsAccounted, Accounted
  <2> QED
    BY <1>1, <2>1, <2>3, <2>4, <2>5 DEF ThreadsAccounted, Alive
<1>6. CASE JoinInCall
  <2>1. /\ app # "ready" /\ app' \in {"drop", "stop"} /\ closed' = closed
        /\ joining' = [joining EXCEPT ![App] = {}]
        /\ \A t \in joining[App] : thread[t] = "ended"
        /\ UNCHANGED <<connect, session, ice_stop, stopped, handles, thread, firing>>
    BY <1>6 DEF JoinInCall, JoinThreads, sharedVars
  <2>2. OneAtATime' /\ Released' /\ FiringAlive'
    BY <2>1 DEF OneAtATime, Active, Released, FiringAlive, Alive
  <2>3. JoinsInOrder'
    BY <1>1, <2>1, Distinct DEF JoinsInOrder
  <2>4. ASSUME NEW t \in Threads, Alive(t) PROVE Accounted(t)'
    BY <1>1, <2>1, <2>4, Distinct DEF ThreadsAccounted, Accounted, Alive
  <2> QED
    BY <1>1, <2>1, <2>2, <2>3, <2>4 DEF ThreadsAccounted, Alive
<1>7. ASSUME DropSession \/ StopAgent PROVE \A t \in Threads : ~Alive(t)
  <2>1. app \in {"drop", "stop"}
    BY <1>7 DEF DropSession, StopAgent
  <2>2. handles = {} /\ \A j \in Connects \cup {App} : joining[j] = {}
    BY <2>1 DEF JoinsInOrder, OneAtATime, Active
  <2>3. \A t \in Threads : connect[Gen(t)] # "handles"
    BY <2>1, GenOfThread DEF OneAtATime, Active
  <2> QED
    BY <2>2, <2>3 DEF ThreadsAccounted, Accounted
<1>8. CASE DropSession
  <2>1. /\ SameThreads /\ app = "drop" /\ session' = NoSession /\ app' = "ready"
        /\ UNCHANGED <<connect, firing>>
    BY <1>8 DEF DropSession, SameThreads
  <2> QED
    BY <1>1, <1>7, <1>8, <2>1
    DEF SameThreads, OneAtATime, Active, JoinsInOrder, ThreadsAccounted, Accounted,
        Alive, FiringAlive, Released
<1>9. CASE StopAgent
  <2>1. /\ SameThreads /\ app = "stop" /\ app' = "ready" /\ closed' = closed
        /\ session = NoSession => session' = NoSession
        /\ UNCHANGED <<connect, firing>>
    BY <1>9 DEF StopAgent, SameThreads
  <2> QED
    BY <1>1, <2>1
    DEF SameThreads, OneAtATime, Active, JoinsInOrder, ThreadsAccounted, Accounted,
        Alive, FiringAlive, Released
<1> QED
  BY <1>3, <1>4, <1>5, <1>6, <1>8, <1>9 DEF Close, StopIce

----------------------------------------------------------------------------

\* And is kept by every step, if the application waits for its connects.
LEMMA ClientStep ==
    ASSUME SettledCalls, ClientInv, [Next]_vars
    PROVE  ClientInv'
<1>1. CASE UNCHANGED vars
  <2>1. /\ SameThreads /\ Typed'
        /\ UNCHANGED <<connect, session, app, closed, firing>>
    BY <1>1, TypedStep DEF vars, sharedVars, appVars, SameThreads, ClientInv
  <2> QED
    BY <2>1 DEF ClientInv, SameThreads, OneAtATime, Active, JoinsInOrder,
       ThreadsAccounted, Accounted, Alive, FiringAlive, Released
<1> QED
  BY <1>1, ConnectClient, ThreadClient, FireClient, ApplicationClient DEF Next

\* The invariant of an application that waits for its connects.
THEOREM ClientInvariant == SettledCalls /\ Spec => []ClientInv
<1>1. SettledCalls => (ClientInv /\ [Next]_vars => ClientInv')
  BY ClientStep
<1>2. CASE SettledCalls
  BY <1>1, <1>2, ClientInit, PTL DEF Spec
<1> QED
  BY <1>2

\* After close() there is no agent, no socket and no thread (client.rs, close): for
\* an application that lets the background thread of each connect end before it
\* calls again.
THEOREM CloseReleases == SettledCalls /\ Spec => []Released
<1>1. ClientInv => Released
  BY DEF ClientInv
<1> QED
  BY <1>1, ClientInvariant, PTL

\* Every running thread has been told to stop or can be (client.rs,
\* stop_ice_threads and start_ice_threads), for the same applications.
THEOREM ThreadsCanBeStopped == SettledCalls /\ Spec => []ThreadsReachable
<1>1. ClientInv => ThreadsReachable
  BY DEF ClientInv, ThreadsAccounted, Accounted, ThreadsReachable
<1> QED
  BY <1>1, ClientInvariant, PTL

\* No callback runs after close() has returned (client.rs, fire_state_change), for
\* the same applications.
THEOREM ClosedIsQuiet == SettledCalls /\ Spec => []QuietAfterClose
<1>1. ClientInv => QuietAfterClose
  BY DEF ClientInv, OneAtATime, FiringAlive, Released, QuietAfterClose, Firers, Quiet,
     Ticks, Threads
<1> QED
  BY <1>1, ClientInvariant, PTL
=============================================================================
