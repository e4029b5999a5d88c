----------------------------- MODULE NapiClient -----------------------------
(***************************************************************************)
(* The client behind the NAPI module (p2p-napi client_napi.rs): one global *)
(* Inner under one mutex, shared by the JS thread, the connector thread,   *)
(* the background thread of each initiateIce(), and the tick and receive   *)
(* threads of an ICE session.  A session is started by an initiateIce() or *)
(* by a peer's offer, handled on the connector thread; it is named after   *)
(* its starter, and so are its agent, its two threads and their stop flag. *)
(*                                                                         *)
(* Every action is one critical section, or one step outside of it.  What  *)
(* the agent, the connector's protocol and P2pClient do inside is the      *)
(* subject of IceSession, Connector and ClientThreads.                     *)
(***************************************************************************)
EXTENDS Naturals, Sequences

CONSTANTS Initiations,  \* calls of initiateIce()
          Offers,       \* offers the peer sends
          Connectors,   \* calls of connectConnector()
          None,
          USAGES,       \* how calls and messages may cross
          MAX_STOPS     \* bound: calls of stopIce(), close(), disconnectConnector()

Sessions == Initiations \cup Offers

JS == "js"

ASSUME NapiAssumption ==
    /\ Initiations \cap Offers = {} /\ Sessions \cap Connectors = {}
    /\ None \notin Sessions \cup Connectors /\ JS \notin Sessions
    /\ Connectors \cap {"none", "initiate", "stop", "close", "disconnect"} = {}
    /\ USAGES \subseteq {"in turn", "stops any time", "any time"}
    /\ MAX_STOPS \in Nat

Threads == Sessions \X {"tick", "recv"}

ThreadsOf(s) == {s} \X {"tick", "recv"}

NoAgent == [owner |-> None, state |-> "New", remote |-> None]

VARIABLES usage,     \* chosen once, from USAGES
          inner,     \* what the mutex guards; held: close() keeps it locked
          stopped,   \* stop flags that are set, of sessions and connectors
          joining,   \* threads a caller of stop_ice_threads still joins
          alive,     \* threads of sessions that run
          seen,      \* last_state of each session's tick thread
          starter,   \* [Sessions -> step of the start: 0 idle, 11 over]
          connector, \* [Connectors -> step, was_registered, session it starts]
          js,        \* the JS thread: its call and step, what it was told
          net        \* out: descriptions in each connector's channel;
                     \*   sent: those the peer has; answered: those it answered

vars == <<usage, inner, stopped, joining, alive, seen, starter, connector, js, net>>

iceVars == <<stopped, joining, alive, seen, starter>>

Init ==
    /\ usage \in USAGES
    /\ inner = [held |-> FALSE, agent |-> NoAgent, ice_stop |-> None, handles |-> {},
                connector |-> None, connector_stop |-> None, connector_tx |-> None,
                registered |-> FALSE]
    /\ stopped = {}
    /\ joining = [j \in Sessions \cup {JS} |-> {}]
    /\ alive = {}
    /\ seen = [s \in Sessions |-> "none"]
    /\ starter = [s \in Sessions |-> 0]
    /\ connector = [c \in Connectors |-> [step |-> "new", was |-> FALSE, starts |-> None]]
    /\ js = [call |-> "none", step |-> "ready", stops |-> 0, released |-> FALSE,
             closed |-> FALSE, told |-> "none"]
    /\ net = [out |-> [c \in Connectors |-> {}], sent |-> {}, answered |-> {}]

Alive(t) == t \in alive

ConnectorAlive(c) == connector[c].step \notin {"new", "ended"}

Starting(s) == starter[s] \in 1..10

\* A critical section that leaves `value` in Inner.
Locked(value) == ~inner.held /\ inner' = value

----------------------------------------------------------------------------
(* Ways of use.  "in turn": no call while a start or a registration is     *)
(* under way, no offer while a call is; "stops any time": one start after  *)
(* the other, all else when it likes; "any time": nobody waits.            *)

OneStart == usage # "any time" => \A s \in Sessions : ~Starting(s)

Answered ==
    \A s \in Initiations :
        s \in net.sent \cup UNION {net.out[c] : c \in Connectors} => s \in net.answered

Settled ==
    usage = "in turn" =>
        /\ \A s \in Sessions : ~Starting(s)
        /\ inner.connector_tx = None \/ inner.registered

MayInitiate == OneStart /\ Settled /\ (usage = "in turn" => Answered)

MayOffer == OneStart /\ (usage = "in turn" => js.step = "ready" /\ Answered)

----------------------------------------------------------------------------
(* stop_ice_threads                                                        *)

\* Under the mutex: set the current flag, take both handles.
HaltThreads(j) ==
    /\ Locked([inner EXCEPT !.handles = {}])
    /\ joining' = [joining EXCEPT ![j] = inner.handles]
    /\ stopped' = stopped \cup {inner.ice_stop}

\* The mutex is free again.
JoinThreads(j) ==
    /\ \A t \in joining[j] : ~Alive(t)
    /\ joining' = [joining EXCEPT ![j] = {}]
    /\ UNCHANGED <<inner, stopped>>

DropAgent == Locked([inner EXCEPT !.agent = NoAgent])

----------------------------------------------------------------------------
(* A start: handle_ice_offer_inner or initiate_ice_bg_inner, which both    *)
(* end in start_ice_threads_inner.  An answer is sent before the agent is  *)
(* stored, an offer after.                                                 *)

\* Mutant of StepsOf: the offer is sent before its agent is stored.
StepsOfOfferFirst(s) ==
    <<"halt", "join", "drop", "send", "store", "halt", "join", "flag", "spawn", "handles">>

\* The steps of a start; a number in `starter` says how far it is.
StepsOf(s) ==
    IF s \in Offers
    THEN <<"halt", "join", "drop", "send", "store", "halt", "join", "flag", "spawn", "handles">>
    ELSE <<"halt", "join", "drop", "store", "send", "halt", "join", "flag", "spawn", "handles">>

At(s, step) ==
    /\ Starting(s) /\ StepsOf(s)[starter[s]] = step
    /\ starter' = [starter EXCEPT ![s] = @ + 1]

StartHalt(s) ==
    At(s, "halt") /\ HaltThreads(s) /\ UNCHANGED <<usage, alive, seen, connector, js, net>>

StartJoin(s) ==
    At(s, "join") /\ JoinThreads(s) /\ UNCHANGED <<usage, alive, seen, connector, js, net>>

StartDrop(s) ==
    /\ At(s, "drop") /\ DropAgent
    /\ UNCHANGED <<usage, stopped, joining, alive, seen, connector, js, net>>

\* No socket, or an offer that does not parse: the handler returns.
StartFails(s) ==
    /\ starter[s] = 4
    /\ starter' = [starter EXCEPT ![s] = 11]
    /\ UNCHANGED <<usage, inner, stopped, joining, alive, seen, connector, js, net>>

\* An offer's agent has the peer's description and starts its checks at once.
NewAgent(s) ==
    IF s \in Offers THEN [owner |-> s, state |-> "Connecting", remote |-> s]
    ELSE [owner |-> s, state |-> "New", remote |-> None]

StartStore(s) ==
    /\ At(s, "store") /\ Locked([inner EXCEPT !.agent = NewAgent(s)])
    /\ UNCHANGED <<usage, stopped, joining, alive, seen, connector, js, net>>

\* send_via_connector: without a connector the description is dropped.
StartSend(s) ==
    LET c == inner.connector_tx IN
    /\ At(s, "send") /\ Locked(inner)
    /\ net' = IF c = None \/ connector[c].step = "ended" THEN net
              ELSE [net EXCEPT !.out[c] = @ \cup {s}]
    /\ UNCHANGED <<usage, stopped, joining, alive, seen, connector, js>>

\* Mutant of NewFlag: the new flag is not stored in Inner.
NewFlagNot(s) == Locked(inner)

NewFlag(s) == Locked([inner EXCEPT !.ice_stop = s])

StartFlag(s) ==
    /\ At(s, "flag") /\ NewFlag(s)
    /\ UNCHANGED <<usage, stopped, joining, alive, seen, connector, js, net>>

StartSpawn(s) ==
    /\ At(s, "spawn")
    /\ alive' = alive \cup ThreadsOf(s)
    /\ UNCHANGED <<usage, inner, stopped, joining, seen, connector, js, net>>

\* Handles that are there already are overwritten: their threads are detached.
StartHandles(s) ==
    /\ At(s, "handles") /\ Locked([inner EXCEPT !.handles = ThreadsOf(s)])
    /\ UNCHANGED <<usage, stopped, joining, alive, seen, connector, js, net>>

Start(s) ==
    \/ StartHalt(s) \/ StartJoin(s) \/ StartDrop(s) \/ StartFails(s) \/ StartStore(s)
    \/ StartSend(s) \/ StartFlag(s) \/ StartSpawn(s) \/ StartHandles(s)

----------------------------------------------------------------------------
(* The threads of a session                                                *)

\* A turn of a thread's loop: it looks at its own flag, which may not be the
\* current one, and runs the body.  Whoever sets the flag joins the thread, so a
\* body that ends after the flag was set is as good as one before it.
Turns(t) == Alive(t) /\ t[1] \notin stopped

ThreadEnds(t) ==
    /\ Alive(t) /\ t[1] \in stopped
    /\ alive' = alive \ {t}
    /\ UNCHANGED <<usage, inner, stopped, joining, seen, starter, connector, js, net>>

\* What a check may do to the agent in a step of one of its threads.
Checked(to) ==
    {inner.agent} \cup
    (IF inner.agent.state = "Connecting" THEN {[inner.agent EXCEPT !.state = to]} ELSE {})

\* Mutant of SawState: a state an earlier session saw is not told again.
SawStateOnce(s) == \E o \in Sessions : seen[o] = inner.agent.state

SawState(s) == seen[s] = inner.agent.state

\* Under the mutex: tell JS a new state, then let the agent tick.
Tick(s) ==
    LET state == inner.agent.state IN
    /\ Turns(<<s, "tick">>)
    /\ \E a \in Checked("Failed") : Locked([inner EXCEPT !.agent = a])
    /\ IF inner.agent = NoAgent THEN UNCHANGED <<seen, js>>
       ELSE /\ seen' = [seen EXCEPT ![s] = state]
            /\ js' = IF SawState(s) \/ js.released THEN js ELSE [js EXCEPT !.told = state]
    /\ UNCHANGED <<usage, stopped, joining, alive, starter, connector, net>>

\* A datagram, or 200 ms without one.
Receive(s) ==
    /\ Turns(<<s, "recv">>)
    /\ \E a \in Checked("Completed") : Locked([inner EXCEPT !.agent = a])
    /\ UNCHANGED <<usage, stopped, joining, alive, seen, starter, connector, js, net>>

----------------------------------------------------------------------------
(* The connector thread: connector_loop_inner.  Its action names what it   *)
(* does to its own step, to Inner and to the channel.  A lost link is never*)
(* noticed (Connector, LossGoesUnnoticed): only the stop flag ends the     *)
(* inner loop, and what is sent over a dead link is lost.                  *)

Goes(c, from, to) ==
    /\ connector[c].step = from
    /\ connector' = [connector EXCEPT ![c].step = to]
    /\ UNCHANGED <<usage, iceVars, js>>

ConnectorDials(c) ==
    /\ Goes(c, "dial", IF c \in stopped THEN "ended" ELSE "connect")
    /\ UNCHANGED <<inner, net>>

ConnectorConnects(c) ==
    /\ Goes(c, "connect", "top")
    /\ Locked([inner EXCEPT !.registered = FALSE]) /\ UNCHANGED net

ConnectorRefused(c) == Goes(c, "connect", "dial") /\ UNCHANGED <<inner, net>>

\* The top of the inner loop: what the channel holds is sent; send_to may fail,
\* which is only logged.
ConnectorSends(c) ==
    /\ c \notin stopped /\ Goes(c, "top", "poll")
    /\ \E gone \in SUBSET net.out[c] :
         net' = [net EXCEPT !.out[c] = {}, !.sent = @ \cup gone]
    /\ UNCHANGED inner

ConnectorStops(c) == c \in stopped /\ Goes(c, "top", "leave") /\ UNCHANGED <<inner, net>>

\* The stop flag is not looked at again before the client counts as registered.
ConnectorRegisters(c) ==
    /\ connector[c].step = "poll" /\ ~connector[c].was
    /\ connector' = [connector EXCEPT ![c].step = "batch", ![c].was = TRUE]
    /\ Locked([inner EXCEPT !.registered = TRUE])
    /\ UNCHANGED <<usage, iceVars, js, net>>

ConnectorPolls(c) == Goes(c, "poll", "batch") /\ UNCHANGED <<inner, net>>

\* handle_connector_msg_inner with an offer: the loop waits for the start.
HandleOffer(c, s) ==
    /\ connector[c].step = "batch" /\ connector[c].was
    /\ starter[s] = 0 /\ MayOffer
    /\ connector' = [connector EXCEPT ![c].step = "start", ![c].starts = s]
    /\ starter' = [starter EXCEPT ![s] = 1]
    /\ UNCHANGED <<usage, inner, stopped, joining, alive, seen, js, net>>

OfferHandled(c) ==
    /\ connector[c].step = "start" /\ ~Starting(connector[c].starts)
    /\ connector' = [connector EXCEPT ![c].step = "batch", ![c].starts = None]
    /\ UNCHANGED <<usage, inner, iceVars, js, net>>

\* handle_ice_answer_inner: whichever agent is there takes the description and
\* starts over; nothing says whose answer it is.
HandleAnswer(c, s) ==
    /\ connector[c].was /\ Goes(c, "batch", "batch")
    /\ s \in net.sent \ net.answered
    /\ net' = [net EXCEPT !.answered = @ \cup {s}]
    /\ Locked(IF inner.agent = NoAgent THEN inner
              ELSE [inner EXCEPT !.agent.remote = s, !.agent.state = "Connecting"])

BatchDone(c) == Goes(c, "batch", "top") /\ UNCHANGED <<inner, net>>

\* What is still in the channel is thrown away.
ConnectorLeaves(c) ==
    /\ Goes(c, "leave", "dial")
    /\ net' = [net EXCEPT !.out[c] = {}] /\ UNCHANGED inner

ConnectorLoop(c) ==
    \/ ConnectorDials(c) \/ ConnectorConnects(c) \/ ConnectorRefused(c) \/ ConnectorSends(c)
    \/ ConnectorStops(c) \/ ConnectorRegisters(c) \/ ConnectorPolls(c)
    \/ OfferHandled(c) \/ BatchDone(c) \/ ConnectorLeaves(c)

----------------------------------------------------------------------------
(* The JS thread                                                           *)

Call(call, step) ==
    /\ js.step = "ready"
    /\ js' = [js EXCEPT !.call = call, !.step = step, !.closed = FALSE]

StopCall(call, step) ==
    /\ js.step = "ready" /\ Settled /\ js.stops < MAX_STOPS
    /\ js' = [js EXCEPT !.call = call, !.step = step, !.closed = FALSE, !.stops = @ + 1]

Moves(from, to) == js.step = from /\ js' = [js EXCEPT !.step = to]

\* Mutant of HaltConnector: the channel is closed, but the flag is not set.
HaltConnectorNoFlag ==
    /\ Locked([inner EXCEPT !.registered = FALSE, !.connector_tx = None])
    /\ UNCHANGED <<usage, iceVars, connector, net>>

\* stop_connector under the mutex; the handle it takes is kept until joined.
HaltConnector ==
    /\ Locked([inner EXCEPT !.registered = FALSE, !.connector_tx = None])
    /\ stopped' = stopped \cup {inner.connector_stop}
    /\ UNCHANGED <<usage, joining, alive, seen, starter, connector, net>>

CallConnectConnector(c) ==
    Settled /\ connector[c].step = "new" /\ Call(c, "join connector") /\ HaltConnector

CallDisconnectConnector == StopCall("disconnect", "join connector") /\ HaltConnector

CloseHaltConnector == Moves("halt connector", "join connector") /\ HaltConnector

\* Mutant of JoinConnector: the handle is dropped and not joined.
JoinConnectorNot ==
    /\ inner' = [inner EXCEPT !.connector = None]
    /\ Moves("join connector", CASE js.call = "close" -> "drop"
                                 [] js.call = "disconnect" -> "ready"
                                 [] OTHER -> "channel")
    /\ UNCHANGED <<usage, iceVars, connector, net>>

JoinConnector ==
    /\ inner.connector # None => ~ConnectorAlive(inner.connector)
    /\ inner' = [inner EXCEPT !.connector = None]
    /\ Moves("join connector", CASE js.call = "close" -> "drop"
                                 [] js.call = "disconnect" -> "ready"
                                 [] OTHER -> "channel")
    /\ UNCHANGED <<usage, iceVars, connector, net>>

\* connect_connector goes on: new flag and channel, the thread, its handle.
ConnectChannel ==
    /\ Moves("channel", "spawn")
    /\ Locked([inner EXCEPT !.connector_stop = js.call, !.connector_tx = js.call])
    /\ UNCHANGED <<usage, iceVars, connector, net>>

ConnectSpawn ==
    /\ Moves("spawn", "handle")
    /\ connector' = [connector EXCEPT ![js.call].step = "dial"]
    /\ UNCHANGED <<usage, inner, iceVars, net>>

ConnectHandle ==
    /\ Moves("handle", "ready") /\ Locked([inner EXCEPT !.connector = js.call])
    /\ UNCHANGED <<usage, iceVars, connector, net>>

\* initiate_ice returns at once; nobody keeps track of its thread.
CallInitiate(s) ==
    /\ inner.registered /\ starter[s] = 0 /\ MayInitiate
    /\ Call("initiate", "ready") /\ Locked(inner)
    /\ starter' = [starter EXCEPT ![s] = 1]
    /\ UNCHANGED <<usage, stopped, joining, alive, seen, connector, net>>

CallStopIce ==
    /\ StopCall("stop", "join") /\ HaltThreads(JS)
    /\ UNCHANGED <<usage, alive, seen, starter, connector, net>>

\* P2pClient::close is called, and joins its threads, under the mutex.
CallClose ==
    /\ StopCall("close", "client") /\ Locked([inner EXCEPT !.held = TRUE])
    /\ UNCHANGED <<usage, iceVars, connector, net>>

ClientClosed ==
    /\ Moves("client", "halt") /\ inner' = [inner EXCEPT !.held = FALSE]
    /\ UNCHANGED <<usage, iceVars, connector, net>>

CloseHaltThreads ==
    /\ Moves("halt", "join") /\ HaltThreads(JS)
    /\ UNCHANGED <<usage, alive, seen, starter, connector, net>>

JsJoinThreads ==
    /\ Moves("join", IF js.call = "close" THEN "halt connector" ELSE "drop")
    /\ JoinThreads(JS)
    /\ UNCHANGED <<usage, alive, seen, starter, connector, net>>

JsDrop ==
    /\ Moves("drop", IF js.call = "close" THEN "release" ELSE "ready") /\ DropAgent
    /\ UNCHANGED <<usage, iceVars, connector, net>>

\* release_all_tsfn: nothing can be told after it.
CloseRelease ==
    /\ js.step = "release"
    /\ js' = [js EXCEPT !.step = "ready", !.released = TRUE, !.closed = TRUE]
    /\ UNCHANGED <<usage, inner, iceVars, connector, net>>

JsStep ==
    \/ CloseHaltConnector \/ JoinConnector \/ ConnectChannel \/ ConnectSpawn \/ ConnectHandle
    \/ ClientClosed \/ CloseHaltThreads \/ JsJoinThreads \/ JsDrop \/ CloseRelease

Next ==
    \/ JsStep \/ CallDisconnectConnector \/ CallStopIce \/ CallClose
    \/ \E c \in Connectors : ConnectorLoop(c) \/ CallConnectConnector(c)
    \/ \E s \in Initiations : CallInitiate(s)
    \/ \E c \in Connectors, s \in Offers : HandleOffer(c, s)
    \/ \E c \in Connectors, s \in Initiations : HandleAnswer(c, s)
    \/ \E s \in Sessions : Start(s) \/ Tick(s) \/ Receive(s)
    \/ \E t \in Threads : ThreadEnds(t)

\* Every thread that can go on does, in the end; but the connect of a connector
\* thread, the WebSocket handshake in it, has no time limit and need not come back.
Fairness ==
    /\ WF_vars(JsStep)
    /\ \A s \in Sessions : WF_vars(Start(s)) /\ WF_vars(Tick(s)) /\ WF_vars(Receive(s))
    /\ \A t \in Threads : WF_vars(ThreadEnds(t))
    /\ \A c \in Connectors : WF_vars(ConnectorLoop(c) /\ connector[c].step # "connect")

Spec == Init /\ [][Next]_vars /\ Fairness

----------------------------------------------------------------------------
(* Properties                                                              *)

\* Unless two starts overlap, every ICE thread that was not told to stop can be: its
\* flag is the current one and its handle is kept, or about to be; and no stop
\* waits for it.
ThreadsStoppable ==
    \A t \in Threads :
        Alive(t) /\ t[1] \notin stopped =>
            /\ inner.ice_stop = t[1] /\ (t \in inner.handles \/ Starting(t[1]))
            /\ \A j \in DOMAIN joining : t \notin joining[j]

\* stop_ice_threads "sets stop flag and takes handles while holding the lock, then
\* releases the lock before joining (avoids deadlock ...)": a stop only waits for
\* threads that were told to end.  Two starts that overlap break it, an initiateIce
\* and an offer of the peer: the flag of the one replaces the other's, whose
\* handles are stored after that.
JoinsEnd ==
    \A j \in DOMAIN joining : \A t \in joining[j] : Alive(t) => t[1] \in stopped

\* When calls and messages take turns, close() leaves nothing behind: no thread
\* of a session, no connector thread, no agent, no registration.
QuietWhenClosed ==
    usage = "in turn" /\ js.closed =>
        /\ \A t \in Threads : ~Alive(t)
        /\ \A c \in Connectors : ~ConnectorAlive(c)
        /\ inner.agent = NoAgent /\ ~inner.registered

\* An answer reaches the agent whose offer it answers, however soon it comes.
AnswerTaken ==
    usage = "in turn" =>
        /\ inner.agent.remote \in {None, inner.agent.owner}
        /\ inner.agent.owner \in net.answered => inner.agent.remote = inner.agent.owner

\* Every call returns and every start ends: no thread waits for one that waits for
\* it. Only a connector's connect that never comes back keeps a call waiting, the
\* one that joins the connector's thread.
CallsReturn ==
    /\ []<>(js.step = "ready") \/ \E c \in Connectors : <>[](connector[c].step = "connect")
    /\ \A s \in Sessions : []<>~Starting(s)

\* JS is told the state the agent is in, in the end.
StateTold == <>[](inner.agent = NoAgent \/ js.released \/ js.told = inner.agent.state)
=============================================================================
