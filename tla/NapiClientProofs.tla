-------------------------- MODULE NapiClientProofs --------------------------
(***************************************************************************)
(* Proofs about the client behind the NAPI module (NapiClient), for any    *)
(* number of calls, offers, connectors and stops.                          *)
(***************************************************************************)
EXTENDS NapiClient, TLAPS

----------------------------------------------------------------------------
(* Types *)

States == {"New", "Connecting", "Failed", "Completed"}

\* NoAgent, or the agent of a session.
Agents ==
    [owner : Sessions, state : States, remote : Sessions \cup {None}] \cup {NoAgent}

Inners ==
    [held : BOOLEAN, agent : Agents, ice_stop : Sessions \cup {None},
     handles : SUBSET Threads, connector : Connectors \cup {None},
     connector_stop : Connectors \cup {None}, connector_tx : Connectors \cup {None},
     registered : BOOLEAN]

LoopSteps ==
    {"new", "dial", "connect", "top", "poll", "batch", "start", "leave", "ended"}

ConnectorStates ==
    [step : LoopSteps, was : BOOLEAN, starts : Sessions \cup {None}]

Calls == Connectors \cup {"none", "initiate", "stop", "close", "disconnect"}

CallSteps ==
    {"ready", "join connector", "channel", "spawn", "handle", "client", "halt", "join",
     "halt connector", "drop", "release"}

JSStates ==
    [call : Calls, step : CallSteps, stops : Nat, released : BOOLEAN, closed : BOOLEAN,
     told : States \cup {"none"}]

Nets ==
    [out : [Connectors -> SUBSET Sessions], sent : SUBSET Sessions,
     answered : SUBSET Initiations]

Typed ==
    /\ usage \in {"in turn", "stops any time", "any time"}
    /\ inner \in Inners
    /\ stopped \subseteq Sessions \cup Connectors \cup {None}
    /\ joining \in [Sessions \cup {JS} -> SUBSET Threads]
    /\ alive \subseteq Threads
    /\ seen \in [Sessions -> States \cup {"none"}]
    /\ starter \in [Sessions -> 0..11]
    /\ connector \in [Connectors -> ConnectorStates]
    /\ js \in JSStates
    /\ net \in Nets

\* The names of sessions, of their threads and of None do not meet.
LEMMA Names ==
    /\ None \notin Sessions /\ None \notin Connectors /\ JS \notin Sessions
    /\ \A c \in Connectors : c \notin {"none", "initiate", "stop", "close", "disconnect"}
    /\ Initiations \subseteq Sessions /\ Offers \subseteq Sessions
    /\ \A s \in Initiations : s \notin Offers
  BY NapiAssumption DEF Sessions

\* A thread is one of its session's.
LEMMA ThreadNames ==
    /\ \A s \in Sessions : ThreadsOf(s) \subseteq Threads
    /\ \A t \in Threads : t[1] \in Sessions /\ t \in ThreadsOf(t[1])
    /\ \A s \in Sessions : \A t \in ThreadsOf(s) : t[1] = s
  BY DEF Threads, ThreadsOf

\* What an agent is, and what becomes of one.
LEMMA AgentFacts ==
    /\ NoAgent \in Agents /\ NoAgent.owner = None /\ NoAgent.remote = None
    /\ NoAgent.state = "New"
    /\ \A a \in Agents : /\ a.owner \in Sessions \cup {None} /\ a.state \in States
                         /\ a.remote \in Sessions \cup {None}
                         /\ a = NoAgent <=> a.owner = None
    /\ \A a \in Agents, to \in States :
          a # NoAgent => [a EXCEPT !.state = to] \in Agents \ {NoAgent}
    /\ \A a \in Agents, s \in Sessions, to \in States :
          a # NoAgent => [a EXCEPT !.remote = s, !.state = to] \in Agents \ {NoAgent}
<1> DEFINE Kept == [owner : Sessions, state : States, remote : Sessions \cup {None}]
<1>1. /\ NoAgent \in Agents /\ NoAgent.owner = None /\ NoAgent.remote = None
      /\ NoAgent.state = "New" /\ NoAgent.state \in States
  BY DEF Agents, NoAgent, States
<1>2. NoAgent \notin Kept /\ Agents = Kept \cup {NoAgent}
  BY <1>1, Names DEF Agents
<1>3. \A a \in Kept : a.owner \in Sessions /\ a.state \in States
                      /\ a.remote \in Sessions \cup {None}
  OBVIOUS
<1>4. \A a \in Kept, to \in States : [a EXCEPT !.state = to] \in Kept
  OBVIOUS
<1>5. \A a \in Kept, s \in Sessions, to \in States :
        [a EXCEPT !.remote = s, !.state = to] \in Kept
  OBVIOUS
<1> HIDE DEF Kept
<1>6. \A a \in Agents : /\ a.owner \in Sessions \cup {None} /\ a.state \in States
                        /\ a.remote \in Sessions \cup {None}
                        /\ a = NoAgent <=> a.owner = None
  BY <1>1, <1>2, <1>3, Names
<1>7. Kept = Agents \ {NoAgent}
  BY <1>2
<1> QED
  BY <1>1, <1>4, <1>5, <1>6, <1>7

\* The ten steps of a start, by number.
LEMMA StepNumbers ==
    ASSUME NEW s \in Sessions, NEW n \in 1..10
    PROVE  /\ StepsOf(s)[n] = "halt" <=> n \in {1, 6}
           /\ StepsOf(s)[n] = "join" <=> n \in {2, 7}
           /\ StepsOf(s)[n] = "drop" <=> n = 3
           /\ StepsOf(s)[n] = "store" <=> n = IF s \in Offers THEN 5 ELSE 4
           /\ StepsOf(s)[n] = "send" <=> n = IF s \in Offers THEN 4 ELSE 5
           /\ StepsOf(s)[n] = "flag" <=> n = 8
           /\ StepsOf(s)[n] = "spawn" <=> n = 9
           /\ StepsOf(s)[n] = "handles" <=> n = 10
<1>1. \/ n = 1 \/ n = 2 \/ n = 3 \/ n = 4 \/ n = 5
      \/ n = 6 \/ n = 7 \/ n = 8 \/ n = 9 \/ n = 10
  OBVIOUS
<1>2. CASE s \in Offers
  <2>1. /\ StepsOf(s)[1] = "halt" /\ StepsOf(s)[2] = "join" /\ StepsOf(s)[3] = "drop"
        /\ StepsOf(s)[4] = "send" /\ StepsOf(s)[5] = "store"
        /\ StepsOf(s)[6] = "halt" /\ StepsOf(s)[7] = "join" /\ StepsOf(s)[8] = "flag"
        /\ StepsOf(s)[9] = "spawn" /\ StepsOf(s)[10] = "handles"
    BY <1>2 DEF StepsOf
  <2> QED
    BY <1>1, <1>2, <2>1
<1>3. CASE s \notin Offers
  <2>1. /\ StepsOf(s)[1] = "halt" /\ StepsOf(s)[2] = "join" /\ StepsOf(s)[3] = "drop"
        /\ StepsOf(s)[4] = "store" /\ StepsOf(s)[5] = "send"
        /\ StepsOf(s)[6] = "halt" /\ StepsOf(s)[7] = "join" /\ StepsOf(s)[8] = "flag"
        /\ StepsOf(s)[9] = "spawn" /\ StepsOf(s)[10] = "handles"
    BY <1>3 DEF StepsOf
  <2> QED
    BY <1>1, <1>3, <2>1
<1> QED
  BY <1>2, <1>3

\* Types hold in the beginning.
LEMMA TypedInit == Init => Typed
<1> SUFFICES ASSUME Init PROVE Typed
  OBVIOUS
<1>1. inner \in Inners
  BY AgentFacts DEF Init, Inners
<1>2. connector \in [Connectors -> ConnectorStates]
  BY DEF Init, ConnectorStates, LoopSteps
<1>3. js \in JSStates
  BY DEF Init, JSStates, Calls, CallSteps
<1>4. net \in Nets
  BY DEF Init, Nets
<1>5. usage \in {"in turn", "stops any time", "any time"}
  BY NapiAssumption DEF Init
<1>6. /\ joining \in [Sessions \cup {JS} -> SUBSET Threads]
      /\ seen \in [Sessions -> States \cup {"none"}]
      /\ starter \in [Sessions -> 0..11]
  BY DEF Init
<1> QED
  BY <1>1, <1>2, <1>3, <1>4, <1>5, <1>6 DEF Init, Typed

\* How far a start is says which step it takes.
LEMMA StartNumbers ==
    ASSUME Typed, NEW s \in Sessions
    PROVE  /\ At(s, "halt") => starter[s] \in {1, 6}
           /\ At(s, "join") => starter[s] \in {2, 7}
           /\ At(s, "drop") => starter[s] = 3
           /\ At(s, "store") => starter[s] = IF s \in Offers THEN 5 ELSE 4
           /\ At(s, "send") => starter[s] = IF s \in Offers THEN 4 ELSE 5
           /\ At(s, "flag") => starter[s] = 8
           /\ At(s, "spawn") => starter[s] = 9
           /\ At(s, "handles") => starter[s] = 10
<1> SUFFICES ASSUME Starting(s) PROVE starter[s] \in 1..10
  BY StepNumbers DEF At
<1> QED
  BY DEF Starting

\* A step of a start moves it on by one, or ends it.
LEMMA StartMoves ==
    ASSUME Typed, NEW s \in Sessions, Start(s)
    PROVE  /\ Starting(s) /\ starter[s] \in 1..10
           /\ \/ starter' = [starter EXCEPT ![s] = starter[s] + 1]
              \/ starter[s] = 4 /\ starter' = [starter EXCEPT ![s] = 11]
           /\ UNCHANGED <<usage, seen, connector, js>>
<1>1. UNCHANGED <<usage, seen, connector, js>>
  BY DEF Start, StartHalt, StartJoin, StartDrop, StartFails, StartStore, StartSend,
     StartFlag, StartSpawn, StartHandles
<1>2. CASE StartFails(s)
  <2>1. starter[s] = 4 /\ starter' = [starter EXCEPT ![s] = 11]
    BY <1>2 DEF StartFails
  <2> QED
    BY <1>1, <2>1 DEF Starting
<1>3. ASSUME NEW step, At(s, step)
      PROVE  /\ Starting(s) /\ starter[s] \in 1..10
             /\ starter' = [starter EXCEPT ![s] = starter[s] + 1]
  <2>1. Starting(s) /\ starter' = [starter EXCEPT ![s] = starter[s] + 1]
    BY <1>3 DEF At
  <2> QED
    BY <2>1 DEF Starting
<1>4. \/ StartFails(s) \/ At(s, "halt") \/ At(s, "join") \/ At(s, "drop") \/ At(s, "store")
      \/ At(s, "send") \/ At(s, "flag") \/ At(s, "spawn") \/ At(s, "handles")
  BY DEF Start, StartHalt, StartJoin, StartDrop, StartStore, StartSend, StartFlag,
     StartSpawn, StartHandles
<1> QED
  BY <1>1, <1>2, <1>3, <1>4

\* Telling the threads to stop, and joining them.
LEMMA HaltTyped ==
    ASSUME Typed, NEW j \in Sessions \cup {JS}, HaltThreads(j) \/ JoinThreads(j)
    PROVE  /\ inner' \in Inners /\ joining' \in [Sessions \cup {JS} -> SUBSET Threads]
           /\ stopped' \subseteq Sessions \cup Connectors \cup {None}
<1>1. CASE HaltThreads(j)
  BY <1>1 DEF HaltThreads, Locked, Typed, Inners
<1>2. CASE JoinThreads(j)
  BY <1>2 DEF JoinThreads, Typed
<1> QED
  BY <1>1, <1>2

\* The agent in Inner is replaced, or a flag or a field of it.
LEMMA InnerTyped ==
    ASSUME Typed
    PROVE  /\ inner.agent \in Agents
           /\ \A a \in Agents : [inner EXCEPT !.agent = a] \in Inners
           /\ \A b \in BOOLEAN : /\ [inner EXCEPT !.held = b] \in Inners
                                 /\ [inner EXCEPT !.registered = b] \in Inners
           /\ \A s \in Sessions : [inner EXCEPT !.ice_stop = s] \in Inners
           /\ \A h \in SUBSET Threads : [inner EXCEPT !.handles = h] \in Inners
           /\ \A c \in Connectors \cup {None} :
                /\ [inner EXCEPT !.connector = c] \in Inners
                /\ [inner EXCEPT !.connector_stop = c, !.connector_tx = c] \in Inners
                /\ [inner EXCEPT !.registered = FALSE, !.connector_tx = c] \in Inners
<1> USE DEF Typed, Inners
<1>1. /\ inner.agent \in Agents
      /\ \A a \in Agents : [inner EXCEPT !.agent = a] \in Inners
  OBVIOUS
<1>2. \A b \in BOOLEAN : [inner EXCEPT !.held = b] \in Inners
  OBVIOUS
<1>3. \A b \in BOOLEAN : [inner EXCEPT !.registered = b] \in Inners
  OBVIOUS
<1>4. /\ \A s \in Sessions : [inner EXCEPT !.ice_stop = s] \in Inners
      /\ \A h \in SUBSET Threads : [inner EXCEPT !.handles = h] \in Inners
  OBVIOUS
<1>5. \A c \in Connectors \cup {None} : [inner EXCEPT !.connector = c] \in Inners
  OBVIOUS
<1>6. \A c \in Connectors \cup {None} :
         [inner EXCEPT !.connector_stop = c, !.connector_tx = c] \in Inners
  OBVIOUS
<1>7. \A c \in Connectors \cup {None} :
         [inner EXCEPT !.registered = FALSE, !.connector_tx = c] \in Inners
  OBVIOUS
<1> HIDE DEF Typed, Inners
<1> QED
  BY <1>1, <1>2, <1>3, <1>4, <1>5, <1>6, <1>7

\* Steps of a start keep the types.
LEMMA StartTyped == ASSUME Typed, NEW s \in Sessions, Start(s) PROVE Typed'
<1>1. starter' \in [Sessions -> 0..11] /\ UNCHANGED <<usage, seen, connector, js>>
  <2>1. starter \in [Sessions -> 0..11]
    BY DEF Typed
  <2>2. 11 \in 0..11 /\ (starter[s] \in 1..10 => starter[s] + 1 \in 0..11)
    OBVIOUS
  <2> QED
    BY <2>1, <2>2, StartMoves
<1>2. CASE StartHalt(s) \/ StartJoin(s)
  <2>1. HaltThreads(s) \/ JoinThreads(s)
    BY <1>2 DEF StartHalt, StartJoin
  <2> QED
    BY <1>1, <1>2, <2>1, HaltTyped DEF StartHalt, StartJoin, Typed
<1>3. CASE StartDrop(s)
  BY <1>1, <1>3, InnerTyped, AgentFacts DEF StartDrop, DropAgent, Locked, Typed
<1>4. CASE StartFails(s)
  BY <1>1, <1>4 DEF StartFails, Typed
<1>5. CASE StartStore(s)
  <2>1. NewAgent(s) \in Agents
    BY DEF NewAgent, Agents, States
  <2> QED
    BY <1>1, <1>5, <2>1, InnerTyped DEF StartStore, Locked, Typed
<1>6. CASE StartSend(s)
  <2>1. net' \in Nets
    BY <1>6 DEF StartSend, Typed, Nets, Inners
  <2> QED
    BY <1>1, <1>6, <2>1 DEF StartSend, Locked, Typed
<1>7. CASE StartFlag(s)
  BY <1>1, <1>7, InnerTyped DEF StartFlag, NewFlag, Locked, Typed
<1>8. CASE StartSpawn(s)
  BY <1>1, <1>8, ThreadNames DEF StartSpawn, Typed
<1>9. CASE StartHandles(s)
  <2>1. ThreadsOf(s) \in SUBSET Threads
    BY ThreadNames
  <2> QED
    BY <1>1, <1>9, <2>1, InnerTyped DEF StartHandles, Locked, Typed
<1> QED
  BY <1>2, <1>3, <1>4, <1>5, <1>6, <1>7, <1>8, <1>9 DEF Start

\* A check moves the state of an agent that is there.
LEMMA CheckedAgents ==
    ASSUME Typed, NEW to \in States
    PROVE  /\ Checked(to) \subseteq Agents
           /\ \A a \in Checked(to) : a.owner = inner.agent.owner
                                     /\ a.remote = inner.agent.remote
<1> DEFINE a == inner.agent
<1>1. a \in Agents
  BY InnerTyped
<1>2. CASE a = NoAgent
  BY <1>1, <1>2, AgentFacts DEF Checked
<1>3. CASE a # NoAgent
  <2> DEFINE b == [a EXCEPT !.state = to]
  <2>1. b \in Agents
    BY <1>1, <1>3, AgentFacts
  <2>2. b.owner = a.owner /\ b.remote = a.remote
    <3>1. a \in [owner : Sessions, state : States, remote : Sessions \cup {None}]
      BY <1>1, <1>3 DEF Agents
    <3> QED
      BY <3>1
  <2>3. Checked(to) \subseteq {a, b}
    BY DEF Checked
  <2> HIDE DEF a, b
  <2> QED
    BY <1>1, <2>1, <2>2, <2>3 DEF a
<1> QED
  BY <1>2, <1>3

\* Steps of the threads of a session keep the types.
LEMMA ThreadTyped ==
    ASSUME Typed,
           \/ \E s \in Sessions : Tick(s) \/ Receive(s)
           \/ \E t \in Threads : ThreadEnds(t)
    PROVE  Typed'
<1>1. ASSUME NEW s \in Sessions, Tick(s) PROVE Typed'
  <2>1. inner' \in Inners
    <3>1. PICK a \in Checked("Failed") : inner' = [inner EXCEPT !.agent = a]
      BY <1>1 DEF Tick, Locked
    <3>2. a \in Agents
      BY <3>1, CheckedAgents DEF States
    <3> QED
      BY <3>1, <3>2, InnerTyped
  <2>2. inner.agent.state \in States
    BY InnerTyped, AgentFacts
  <2>3. seen' \in [Sessions -> States \cup {"none"}]
    BY <1>1, <2>2 DEF Tick, Typed
  <2>4. js' \in JSStates
    <3>1. js \in JSStates /\ [js EXCEPT !.told = inner.agent.state] \in JSStates
      BY <2>2 DEF Typed, JSStates
    <3>2. js' \in {js, [js EXCEPT !.told = inner.agent.state]}
      BY <1>1 DEF Tick
    <3> QED
      BY <3>1, <3>2
  <2> QED
    BY <1>1, <2>1, <2>3, <2>4 DEF Tick, Typed
<1>2. ASSUME NEW s \in Sessions, Receive(s) PROVE Typed'
  <2>1. inner' \in Inners
    <3>1. PICK a \in Checked("Completed") : inner' = [inner EXCEPT !.agent = a]
      BY <1>2 DEF Receive, Locked
    <3>2. a \in Agents
      BY <3>1, CheckedAgents DEF States
    <3> QED
      BY <3>1, <3>2, InnerTyped
  <2> QED
    BY <1>2, <2>1 DEF Receive, Typed
<1>3. ASSUME NEW t \in Threads, ThreadEnds(t) PROVE Typed'
  BY <1>3 DEF ThreadEnds, Typed
<1> QED
  BY <1>1, <1>2, <1>3

\* What a step of the connector thread does: its own step is one of a thread that
\* runs, and in Inner only the registration is its.
LEMMA ConnectorEffect ==
    ASSUME Typed, NEW c \in Connectors, ConnectorLoop(c)
    PROVE  /\ UNCHANGED <<usage, iceVars, js>> /\ ConnectorAlive(c)
           /\ \/ inner' = inner
              \/ \E b \in BOOLEAN : inner' = [inner EXCEPT !.registered = b]
           /\ connector' \in [Connectors -> ConnectorStates]
           /\ \A d \in Connectors \ {c} : connector'[d] = connector[d]
           /\ net' \in Nets
<1>0. UNCHANGED <<usage, iceVars, js>>
  BY DEF ConnectorLoop, ConnectorDials, ConnectorConnects, ConnectorRefused, ConnectorSends,
     ConnectorStops, ConnectorRegisters, ConnectorPolls, OfferHandled,
     BatchDone, ConnectorLeaves, Goes
<1>1. connector[c] \in ConnectorStates /\ connector \in [Connectors -> ConnectorStates]
  BY DEF Typed
<1>2. ASSUME NEW r \in ConnectorStates, connector' = [connector EXCEPT ![c] = r]
      PROVE  /\ connector' \in [Connectors -> ConnectorStates]
             /\ \A d \in Connectors \ {c} : connector'[d] = connector[d]
  BY <1>1, <1>2
<1>3. ASSUME NEW from, NEW to \in LoopSteps, Goes(c, from, to), from \notin {"new", "ended"}
      PROVE  /\ ConnectorAlive(c) /\ connector' \in [Connectors -> ConnectorStates]
             /\ \A d \in Connectors \ {c} : connector'[d] = connector[d]
  <2>1. [connector[c] EXCEPT !.step = to] \in ConnectorStates
    BY <1>1 DEF ConnectorStates
  <2>2. connector' = [connector EXCEPT ![c] = [connector[c] EXCEPT !.step = to]]
    BY <1>3 DEF Goes
  <2> QED
    BY <1>2, <1>3, <2>1, <2>2 DEF Goes, ConnectorAlive
<1>4. CASE ConnectorDials(c) \/ ConnectorRefused(c) \/ ConnectorStops(c)
           \/ ConnectorPolls(c) \/ BatchDone(c)
  <2>1. inner' = inner /\ net' = net
    BY <1>4 DEF ConnectorDials, ConnectorRefused, ConnectorStops, ConnectorPolls, BatchDone
  <2>2. \/ Goes(c, "dial", "ended") \/ Goes(c, "dial", "connect") \/ Goes(c, "connect", "dial")
        \/ Goes(c, "top", "leave") \/ Goes(c, "poll", "batch") \/ Goes(c, "batch", "top")
    BY <1>4 DEF ConnectorDials, ConnectorRefused, ConnectorStops, ConnectorPolls, BatchDone
  <2> QED
    BY <1>0, <1>3, <2>1, <2>2 DEF LoopSteps, Typed
<1>5. CASE ConnectorConnects(c)
  BY <1>0, <1>3, <1>5 DEF ConnectorConnects, Locked, LoopSteps, Typed
<1>6. CASE ConnectorSends(c) \/ ConnectorLeaves(c)
  <2>1. inner' = inner /\ (Goes(c, "top", "poll") \/ Goes(c, "leave", "dial"))
    BY <1>6 DEF ConnectorSends, ConnectorLeaves
  <2>2. net' \in Nets
    <3>1. /\ net \in Nets /\ net.out[c] \subseteq Sessions
          /\ [net.out EXCEPT ![c] = {}] \in [Connectors -> SUBSET Sessions]
      BY DEF Typed, Nets
    <3>2. CASE ConnectorSends(c)
      <4>1. PICK gone \in SUBSET net.out[c] :
              net' = [net EXCEPT !.out[c] = {}, !.sent = @ \cup gone]
        BY <3>2 DEF ConnectorSends
      <4> QED
        BY <3>1, <4>1 DEF Nets
    <3>3. CASE ConnectorLeaves(c)
      BY <3>1, <3>3 DEF ConnectorLeaves, Nets
    <3> QED
      BY <1>6, <3>2, <3>3
  <2> QED
    BY <1>0, <1>3, <2>1, <2>2 DEF LoopSteps
<1>7. CASE ConnectorRegisters(c)
  <2> DEFINE r == [connector[c] EXCEPT !.step = "batch", !.was = TRUE]
  <2>1. r \in ConnectorStates
    BY <1>1 DEF ConnectorStates, LoopSteps
  <2>2. connector' = [connector EXCEPT ![c] = r] /\ connector[c].step = "poll"
    BY <1>7, <1>1 DEF ConnectorRegisters
  <2>3. net' \in Nets /\ inner' = [inner EXCEPT !.registered = TRUE]
    BY <1>7 DEF ConnectorRegisters, Locked, Typed
  <2> QED
    BY <1>0, <1>2, <2>1, <2>2, <2>3 DEF ConnectorAlive
<1>8. CASE OfferHandled(c)
  <2> DEFINE r == [connector[c] EXCEPT !.step = "batch", !.starts = None]
  <2>1. r \in ConnectorStates
    BY <1>1 DEF ConnectorStates, LoopSteps
  <2>2. connector' = [connector EXCEPT ![c] = r] /\ connector[c].step = "start"
    BY <1>8, <1>1 DEF OfferHandled
  <2>3. net' \in Nets /\ inner' = inner
    BY <1>8 DEF OfferHandled, Typed
  <2> QED
    BY <1>0, <1>2, <2>1, <2>2, <2>3 DEF ConnectorAlive
<1> QED
  BY <1>4, <1>5, <1>6, <1>7, <1>8 DEF ConnectorLoop

\* Messages that start a session or reach an agent keep the types.
LEMMA MessageTyped ==
    ASSUME Typed, NEW c \in Connectors,
           \/ \E s \in Offers : HandleOffer(c, s)
           \/ \E s \in Initiations : HandleAnswer(c, s)
    PROVE  Typed'
<1>1. connector[c] \in ConnectorStates /\ connector \in [Connectors -> ConnectorStates]
  BY DEF Typed
<1>2. ASSUME NEW s \in Offers, HandleOffer(c, s) PROVE Typed'
  <2> DEFINE r == [connector[c] EXCEPT !.step = "start", !.starts = s]
  <2>1. r \in ConnectorStates
    BY <1>1, Names DEF ConnectorStates, LoopSteps
  <2>2. connector' = [connector EXCEPT ![c] = r]
    BY <1>1, <1>2 DEF HandleOffer
  <2>3. starter' \in [Sessions -> 0..11]
    <3>1. starter \in [Sessions -> 0..11] /\ starter' = [starter EXCEPT ![s] = 1]
      BY <1>2 DEF HandleOffer, Typed
    <3>2. 1 \in 0..11
      OBVIOUS
    <3> QED
      BY <3>1, <3>2
  <2> QED
    BY <1>1, <1>2, <2>1, <2>2, <2>3 DEF HandleOffer, Typed
<1>3. ASSUME NEW s \in Initiations, HandleAnswer(c, s) PROVE Typed'
  <2> DEFINE a == [inner.agent EXCEPT !.remote = s, !.state = "Connecting"]
  <2>1. connector' \in [Connectors -> ConnectorStates]
    <3>1. [connector[c] EXCEPT !.step = "batch"] \in ConnectorStates
      BY <1>1 DEF ConnectorStates, LoopSteps
    <3> QED
      BY <1>1, <1>3, <3>1 DEF HandleAnswer, Goes
  <2>2. net' \in Nets
    BY <1>3 DEF HandleAnswer, Typed, Nets
  <2>3. inner' \in Inners
    <3>1. CASE inner.agent = NoAgent
      BY <1>3, <3>1 DEF HandleAnswer, Locked, Typed
    <3>2. CASE inner.agent # NoAgent
      <4>1. a \in Agents
        BY <3>2, InnerTyped, AgentFacts, Names DEF States
      <4>2. inner' = [inner EXCEPT !.agent = a]
        BY <1>3, <3>2 DEF HandleAnswer, Locked, Typed, Inners
      <4> QED
        BY <4>1, <4>2, InnerTyped
    <3> QED
      BY <3>1, <3>2
  <2>4. UNCHANGED <<usage, iceVars, js>>
    BY <1>3 DEF HandleAnswer, Goes
  <2> QED
    BY <2>1, <2>2, <2>3, <2>4 DEF iceVars, Typed
<1> QED
  BY <1>2, <1>3

\* The JS thread goes from step to step, and from call to call.
LEMMA JsTyped ==
    ASSUME Typed
    PROVE  /\ \A from, to \in CallSteps : Moves(from, to) => js' \in JSStates
           /\ \A call \in Calls, step \in CallSteps :
                 Call(call, step) \/ StopCall(call, step) => js' \in JSStates
           /\ js.call \in Calls /\ js.step \in CallSteps /\ js.released \in BOOLEAN
<1>1. js \in JSStates
  BY DEF Typed
<1>2. \A from, to \in CallSteps : Moves(from, to) => js' \in JSStates
  BY <1>1 DEF JSStates, Moves
<1>3. ASSUME NEW call \in Calls, NEW step \in CallSteps, Call(call, step) PROVE js' \in JSStates
  BY <1>1, <1>3 DEF JSStates, Call
<1>4. ASSUME NEW call \in Calls, NEW step \in CallSteps, StopCall(call, step)
      PROVE  js' \in JSStates
  <2>1. /\ js.stops + 1 \in Nat
        /\ js' = [js EXCEPT !.call = call, !.step = step, !.closed = FALSE,
                           !.stops = js.stops + 1]
    BY <1>1, <1>4 DEF JSStates, StopCall
  <2> QED
    BY <1>1, <2>1 DEF JSStates
<1>5. js.call \in Calls /\ js.step \in CallSteps /\ js.released \in BOOLEAN
  BY <1>1 DEF JSStates
<1> QED
  BY <1>2, <1>3, <1>4, <1>5

\* Stopping the connector.
LEMMA HaltConnectorTyped ==
    ASSUME Typed, HaltConnector
    PROVE  /\ inner' \in Inners /\ stopped' \subseteq Sessions \cup Connectors \cup {None}
           /\ UNCHANGED <<usage, joining, alive, seen, starter, connector, net>>
<1>1. inner' \in Inners
  BY InnerTyped DEF HaltConnector, Locked
<1>2. inner.connector_stop \in Connectors \cup {None}
  BY DEF Typed, Inners
<1> QED
  BY <1>1, <1>2 DEF HaltConnector, Typed

\* Which call the JS thread is in, by its step; one that connects is named after
\* its connector.
Dialling ==
    /\ js.step \in {"channel", "spawn", "handle"} => js.call \in Connectors
    /\ js.step = "join connector" => js.call \in Connectors \cup {"close", "disconnect"}
    /\ js.step \in {"client", "halt", "halt connector", "release"} => js.call = "close"
    /\ js.step \in {"join", "drop"} => js.call \in {"close", "stop"}

\* The JS thread's steps keep the types.
LEMMA JsStepTyped == ASSUME Typed, Dialling, JsStep PROVE Typed'
<1> USE DEF CallSteps
<1>1. CASE CloseHaltConnector
  BY <1>1, JsTyped, HaltConnectorTyped DEF CloseHaltConnector, Typed
<1>2. CASE JoinConnector
  <2>1. PICK to \in CallSteps : Moves("join connector", to)
    BY <1>2 DEF JoinConnector, Moves
  <2>2. js' \in JSStates
    BY <2>1, JsTyped
  <2> QED
    BY <1>2, <2>2, InnerTyped DEF JoinConnector, iceVars, Typed
<1>3. CASE ConnectChannel
  <2>1. js.call \in Connectors
    BY <1>3 DEF ConnectChannel, Moves, Dialling
  <2> QED
    BY <1>3, <2>1, JsTyped, InnerTyped DEF ConnectChannel, Locked, iceVars, Typed
<1>4. CASE ConnectSpawn
  <2>1. js.call \in Connectors
    BY <1>4 DEF ConnectSpawn, Moves, Dialling
  <2>2. [connector[js.call] EXCEPT !.step = "dial"] \in ConnectorStates
    <3>1. connector[js.call] \in ConnectorStates
      BY <2>1 DEF Typed
    <3> QED
      BY <3>1 DEF ConnectorStates, LoopSteps
  <2>3. connector' \in [Connectors -> ConnectorStates]
    BY <1>4, <2>1, <2>2 DEF ConnectSpawn, Typed
  <2> QED
    BY <1>4, <2>3, JsTyped DEF ConnectSpawn, iceVars, Typed
<1>5. CASE ConnectHandle
  <2>1. js.call \in Connectors
    BY <1>5 DEF ConnectHandle, Moves, Dialling
  <2> QED
    BY <1>5, <2>1, JsTyped, InnerTyped DEF ConnectHandle, Locked, iceVars, Typed
<1>6. CASE ClientClosed
  BY <1>6, JsTyped, InnerTyped DEF ClientClosed, iceVars, Typed
<1>7. CASE CloseHaltThreads
  BY <1>7, JsTyped, HaltTyped DEF CloseHaltThreads, Typed
<1>8. CASE JsJoinThreads
  <2>1. PICK to \in CallSteps : Moves("join", to)
    BY <1>8 DEF JsJoinThreads
  <2>2. js' \in JSStates
    BY <2>1, JsTyped
  <2> QED
    BY <1>8, <2>2, HaltTyped DEF JsJoinThreads, Typed
<1>9. CASE JsDrop
  <2>1. PICK to \in CallSteps : Moves("drop", to)
    BY <1>9 DEF JsDrop
  <2>2. js' \in JSStates
    BY <2>1, JsTyped
  <2> QED
    BY <1>9, <2>2, InnerTyped, AgentFacts DEF JsDrop, DropAgent, Locked, iceVars, Typed
<1>10. CASE CloseRelease
  <2>1. js' \in JSStates
    BY <1>10 DEF CloseRelease, Typed, JSStates
  <2> QED
    BY <1>10, <2>1 DEF CloseRelease, iceVars, Typed
<1> QED
  BY <1>1, <1>2, <1>3, <1>4, <1>5, <1>6, <1>7, <1>8, <1>9, <1>10 DEF JsStep

\* Calls keep the types.
LEMMA CallTyped ==
    ASSUME Typed,
           \/ CallDisconnectConnector \/ CallStopIce \/ CallClose
           \/ \E c \in Connectors : CallConnectConnector(c)
           \/ \E s \in Initiations : CallInitiate(s)
    PROVE  Typed'
<1> USE DEF CallSteps, Calls
<1>1. CASE CallDisconnectConnector
  BY <1>1, JsTyped, HaltConnectorTyped DEF CallDisconnectConnector, Typed
<1>2. CASE CallStopIce
  BY <1>2, JsTyped, HaltTyped DEF CallStopIce, Typed
<1>3. CASE CallClose
  BY <1>3, JsTyped, InnerTyped DEF CallClose, Locked, iceVars, Typed
<1>4. ASSUME NEW c \in Connectors, CallConnectConnector(c) PROVE Typed'
  BY <1>4, JsTyped, HaltConnectorTyped DEF CallConnectConnector, Typed
<1>5. ASSUME NEW s \in Initiations, CallInitiate(s) PROVE Typed'
  <2>1. starter' \in [Sessions -> 0..11]
    <3>1. starter \in [Sessions -> 0..11] /\ starter' = [starter EXCEPT ![s] = 1]
      BY <1>5 DEF CallInitiate, Typed
    <3>2. 1 \in 0..11
      OBVIOUS
    <3> QED
      BY <3>1, <3>2
  <2> QED
    BY <1>5, <2>1, JsTyped DEF CallInitiate, Locked, Typed
<1> QED
  BY <1>1, <1>2, <1>3, <1>4, <1>5

\* A call that connects keeps its name until it is over.
LEMMA DiallingStep == ASSUME Typed, Dialling, [Next]_vars PROVE Dialling'
<1>1. js \in JSStates
  BY DEF Typed
<1>2. ASSUME NEW call \in Calls, NEW step \in {"join connector", "client", "join", "ready"},
             Call(call, step) \/ StopCall(call, step),
             step = "join connector" => call \in Connectors \cup {"disconnect"},
             step = "client" => call = "close", step = "join" => call = "stop"
      PROVE  Dialling'
  <2>1. js'.step = step /\ js'.call = call
    BY <1>1, <1>2 DEF Call, StopCall, JSStates
  <2> QED
    BY <1>2, <2>1 DEF Dialling
<1>3. ASSUME NEW from, NEW to, Moves(from, to)
      PROVE  js.step = from /\ js'.step = to /\ js'.call = js.call
  BY <1>1, <1>3 DEF Moves, JSStates
<1>4. CASE JsStep
  <2>1. CASE CloseRelease
    <3>1. js'.step = "ready"
      BY <1>1, <2>1 DEF CloseRelease, JSStates
    <3> QED
      BY <3>1 DEF Dialling
  <2>2. CASE JoinConnector
    <3> DEFINE to == CASE js.call = "close" -> "drop" [] js.call = "disconnect" -> "ready"
                       [] OTHER -> "channel"
    <3>1. js.step = "join connector" /\ js'.step = to /\ js'.call = js.call
      BY <1>3, <2>2 DEF JoinConnector
    <3> QED
      BY <3>1 DEF Dialling
  <2>3. CASE JsJoinThreads
    <3> DEFINE to == IF js.call = "close" THEN "halt connector" ELSE "drop"
    <3>1. js.step = "join" /\ js'.step = to /\ js'.call = js.call
      BY <1>3, <2>3 DEF JsJoinThreads
    <3> QED
      BY <3>1 DEF Dialling
  <2>4. CASE JsDrop
    <3> DEFINE to == IF js.call = "close" THEN "release" ELSE "ready"
    <3>1. js.step = "drop" /\ js'.step = to /\ js'.call = js.call
      BY <1>3, <2>4 DEF JsDrop
    <3> QED
      BY <3>1 DEF Dialling
  <2>5. CASE \/ CloseHaltConnector \/ ConnectChannel \/ ConnectSpawn \/ ConnectHandle
             \/ ClientClosed \/ CloseHaltThreads
    <3>1. \/ Moves("halt connector", "join connector") \/ Moves("channel", "spawn")
          \/ Moves("spawn", "handle") \/ Moves("handle", "ready") \/ Moves("client", "halt")
          \/ Moves("halt", "join")
      BY <2>5 DEF CloseHaltConnector, ConnectChannel, ConnectSpawn, ConnectHandle,
         ClientClosed, CloseHaltThreads
    <3>2. js'.call = js.call
      BY <1>3, <3>1
    <3>3. \/ js.step = "halt connector" /\ js'.step = "join connector"
          \/ js.step = "channel" /\ js'.step = "spawn"
          \/ js.step = "spawn" /\ js'.step = "handle"
          \/ js'.step = "ready"
          \/ js.step = "client" /\ js'.step = "halt"
          \/ js.step = "halt" /\ js'.step = "join"
      BY <1>3, <3>1
    <3> QED
      BY <3>2, <3>3 DEF Dialling
  <2> QED
    BY <1>4, <2>1, <2>2, <2>3, <2>4, <2>5 DEF JsStep
<1>5. ASSUME js'.step = js.step, js'.call = js.call PROVE Dialling'
  BY <1>5 DEF Dialling
<1>6. CASE \/ CallDisconnectConnector \/ CallStopIce \/ CallClose
           \/ \E c \in Connectors : CallConnectConnector(c)
           \/ \E s \in Initiations : CallInitiate(s)
  BY <1>2, <1>6 DEF Calls, CallDisconnectConnector, CallStopIce, CallClose,
     CallConnectConnector, CallInitiate
<1>7. ASSUME NEW s \in Sessions, Tick(s) PROVE Dialling'
  <2>1. js'.step = js.step /\ js'.call = js.call
    BY <1>1, <1>7 DEF Tick, JSStates
  <2> QED
    BY <1>5, <2>1
<1>8. ASSUME \/ \E s \in Sessions : Start(s) \/ Receive(s)
             \/ \E t \in Threads : ThreadEnds(t)
             \/ \E c \in Connectors : ConnectorLoop(c)
             \/ \E c \in Connectors, s \in Offers : HandleOffer(c, s)
             \/ \E c \in Connectors, s \in Initiations : HandleAnswer(c, s)
             \/ UNCHANGED vars
      PROVE  Dialling'
  <2>1. js' = js
    BY <1>8, StartMoves, ConnectorEffect
    DEF Receive, ThreadEnds, HandleOffer, HandleAnswer, Goes, vars
  <2> QED
    BY <1>5, <2>1
<1> QED
  BY <1>4, <1>6, <1>7, <1>8 DEF Next

\* Types hold in the beginning and are kept by every step.
LEMMA TypedStep == ASSUME Typed, Dialling, [Next]_vars PROVE Typed'
<1>1. CASE UNCHANGED vars
  BY <1>1 DEF vars, Typed
<1>2. ASSUME NEW c \in Connectors, ConnectorLoop(c) PROVE Typed'
  <2>1. inner' \in Inners
    BY <1>2, ConnectorEffect, InnerTyped DEF Typed
  <2> QED
    BY <1>2, <2>1, ConnectorEffect DEF Typed, iceVars
<1> QED
  BY <1>1, <1>2, StartTyped, ThreadTyped, MessageTyped, JsStepTyped, CallTyped DEF Next

\* Type correctness: agents, handles, flags and connectors are those of sessions
\* and connectors that were started, however calls and messages cross; the JS
\* thread's step says which call it is in.
THEOREM TypeCorrect == Spec => [](Typed /\ Dialling)
<1>1. Init => Typed /\ Dialling
  BY TypedInit DEF Init, Dialling
<1>2. Typed /\ Dialling /\ [Next]_vars => Typed' /\ Dialling'
  BY TypedStep, DiallingStep
<1> QED
  BY <1>1, <1>2, PTL DEF Spec

----------------------------------------------------------------------------
(* One start after the other: whoever stops the threads finds them         *)

\* While a start is under way nobody else starts, and no handles are stored.
StartsInTurn ==
    /\ \A s, r \in Sessions : Starting(s) /\ Starting(r) => s = r
    /\ \A s \in Sessions : starter[s] \in 2..10 => inner.handles = {}
    /\ \A s \in Sessions : starter[s] \in 9..10 => inner.ice_stop = s

\* A stored handle is of a thread that the current flag stops, and a handle that
\* was taken is of one that was told to stop; both are of a start that is over.
HandlesMatch ==
    /\ \A t \in inner.handles : inner.ice_stop = t[1] /\ starter[t[1]] = 11
    /\ \A j \in DOMAIN joining :
          \A t \in joining[j] : t[1] \in stopped /\ starter[t[1]] = 11

\* A thread that nobody told to stop has the current flag.
FlagsMatch ==
    \A t \in Threads :
        Alive(t) /\ t[1] \notin stopped => inner.ice_stop = t[1]

\* Every handle of a running thread is stored, taken, or about to be stored.
ThreadsAccounted ==
    \A t \in Threads : Alive(t) =>
        /\ starter[t[1]] \in 10..11
        /\ \/ t \in inner.handles \/ starter[t[1]] = 10
           \/ \E j \in DOMAIN joining : t \in joining[j]

\* A caller has taken handles only while it is joining.
JoinsInStep ==
    /\ \A s \in Sessions : joining[s] # {} => starter[s] \in {2, 7}
    /\ joining[JS] # {} => js.step = "join"

\* Starts do not overlap.
OneByOne == usage # "any time"

\* Inductive.
StartsInv ==
    OneByOne =>
        StartsInTurn /\ HandlesMatch /\ FlagsMatch /\ ThreadsAccounted /\ JoinsInStep

\* The steps that have nothing to do with threads, but may stop some.
SameThreads ==
    /\ UNCHANGED <<usage, joining, alive, starter>> /\ stopped \subseteq stopped'
    /\ inner'.ice_stop = inner.ice_stop /\ inner'.handles = inner.handles
    /\ js.step = "join" => js'.step = "join"

\* Such a step keeps the invariant of the starts: a flag that is set only lets
\* threads end.
LEMMA SameStarts == ASSUME StartsInv, SameThreads PROVE StartsInv'
<1> SUFFICES ASSUME OneByOne
             PROVE  (StartsInTurn /\ HandlesMatch /\ FlagsMatch /\ ThreadsAccounted
                     /\ JoinsInStep)'
  BY DEF StartsInv, SameThreads, OneByOne
<1>1. StartsInTurn'
  BY DEF StartsInv, StartsInTurn, SameThreads, Starting
<1>2. HandlesMatch' /\ FlagsMatch'
  BY DEF StartsInv, HandlesMatch, FlagsMatch, SameThreads, Alive
<1>3. ThreadsAccounted' /\ JoinsInStep'
  BY DEF StartsInv, ThreadsAccounted, JoinsInStep, SameThreads, Alive
<1> QED
  BY <1>1, <1>2, <1>3

\* The loops, the messages and the calls that start no session are such steps.
LEMMA OtherSteps ==
    ASSUME Typed, Dialling,
           \/ \E s \in Sessions : Tick(s) \/ Receive(s)
           \/ \E c \in Connectors : ConnectorLoop(c) \/ CallConnectConnector(c)
           \/ \E c \in Connectors, s \in Initiations : HandleAnswer(c, s)
           \/ CloseHaltConnector \/ JoinConnector \/ ConnectChannel \/ ConnectSpawn
           \/ ConnectHandle \/ ClientClosed \/ JsDrop \/ CloseRelease
           \/ CallDisconnectConnector \/ CallClose \/ UNCHANGED vars
    PROVE  SameThreads
<1> USE DEF SameThreads
<1>1. inner \in Inners /\ js \in JSStates
  BY DEF Typed
<1>2. ASSUME NEW s \in Sessions, Tick(s) PROVE SameThreads
  BY <1>1, <1>2 DEF Tick, Locked, Inners, JSStates
<1>3. ASSUME NEW s \in Sessions, Receive(s) PROVE SameThreads
  BY <1>1, <1>3 DEF Receive, Locked, Inners
<1>4. ASSUME NEW c \in Connectors, ConnectorLoop(c) PROVE SameThreads
  <2>1. UNCHANGED <<usage, joining, alive, starter, stopped, js>>
    BY <1>4, ConnectorEffect DEF iceVars
  <2>2. inner' = inner \/ \E b \in BOOLEAN : inner' = [inner EXCEPT !.registered = b]
    BY <1>4, ConnectorEffect
  <2>3. inner'.ice_stop = inner.ice_stop /\ inner'.handles = inner.handles
    BY <1>1, <2>2 DEF Inners
  <2> QED
    BY <2>1, <2>3
<1>5. ASSUME NEW c \in Connectors, NEW s \in Initiations, HandleAnswer(c, s)
      PROVE  SameThreads
  <2>1. UNCHANGED <<usage, joining, alive, starter, stopped, js>>
    BY <1>5 DEF HandleAnswer, Goes, iceVars
  <2>2. inner'.ice_stop = inner.ice_stop /\ inner'.handles = inner.handles
    BY <1>1, <1>5 DEF HandleAnswer, Locked, Inners
  <2> QED
    BY <2>1, <2>2
<1>6. CASE \/ CloseHaltConnector \/ CallDisconnectConnector
           \/ \E c \in Connectors : CallConnectConnector(c)
  <2>1. HaltConnector /\ js.step # "join"
    BY <1>6 DEF CloseHaltConnector, CallDisconnectConnector, CallConnectConnector, Moves,
       Call, StopCall
  <2>2. inner'.ice_stop = inner.ice_stop /\ inner'.handles = inner.handles
    BY <1>1, <2>1 DEF HaltConnector, Locked, Inners
  <2> QED
    BY <2>1, <2>2 DEF HaltConnector
<1>7. CASE \/ JoinConnector \/ ConnectChannel \/ ConnectSpawn \/ ConnectHandle
           \/ ClientClosed \/ CallClose
  <2>1. UNCHANGED <<usage, iceVars>> /\ js.step # "join"
    BY <1>7 DEF JoinConnector, ConnectChannel, ConnectSpawn, ConnectHandle, ClientClosed,
       CallClose, Moves, StopCall
  <2>2. inner'.ice_stop = inner.ice_stop /\ inner'.handles = inner.handles
    BY <1>1, <1>7 DEF JoinConnector, ConnectChannel, ConnectSpawn, ConnectHandle,
       ClientClosed, CallClose, Locked, Inners
  <2> QED
    BY <2>1, <2>2 DEF iceVars
<1>8. CASE JsDrop \/ CloseRelease
  <2>1. UNCHANGED <<usage, iceVars>> /\ js.step # "join"
    BY <1>8 DEF JsDrop, CloseRelease, Moves
  <2>2. inner'.ice_stop = inner.ice_stop /\ inner'.handles = inner.handles
    BY <1>1, <1>8 DEF JsDrop, CloseRelease, DropAgent, Locked, Inners
  <2> QED
    BY <2>1, <2>2 DEF iceVars
<1>9. CASE UNCHANGED vars
  BY <1>9 DEF vars
<1> QED
  BY <1>2, <1>3, <1>4, <1>5, <1>6, <1>7, <1>8, <1>9

\* The start of j, if j is one, goes on from one of the given steps; no other does.
GoesOn(j, steps) ==
    \A s \in Sessions :
        \/ s = j /\ starter[s] \in steps /\ starter'[s] = starter[s] + 1
        \/ s # j /\ starter'[s] = starter[s]

\* What this means for the numbers of the steps.
LEMMA Numbers ==
    ASSUME Typed, NEW j, GoesOn(j, {1, 2, 6, 7}), NEW s \in Sessions
    PROVE  /\ starter[s] = 11 <=> starter'[s] = 11
           /\ starter[s] \in 10..11 => starter'[s] = starter[s]
           /\ Starting(s)' => Starting(s)
           /\ starter'[s] \in 9..10 => starter[s] \in 9..10
           /\ starter'[s] \in 2..10 /\ starter[s] \notin 2..10 => starter[s] = 1 /\ s = j
<1>1. CASE starter'[s] = starter[s]
  BY <1>1 DEF Starting
<1>2. CASE s = j /\ starter[s] \in {1, 2, 6, 7} /\ starter'[s] = starter[s] + 1
  BY <1>2 DEF Starting
<1> QED
  BY <1>1, <1>2 DEF GoesOn

\* Whoever halts the threads takes their handles, and all of them are told to stop.
LEMMA HaltStarts ==
    ASSUME Typed, StartsInv, OneByOne, NEW j \in Sessions \cup {JS},
           HaltThreads(j), UNCHANGED <<usage, alive>>, GoesOn(j, {1, 6}),
           joining[j] = {}, j = JS \/ js' = js, js'.step = "join" \/ j # JS
    PROVE  StartsInv'
<1>0. GoesOn(j, {1, 2, 6, 7})
  BY DEF GoesOn
<1>1. /\ inner'.handles = {} /\ inner'.ice_stop = inner.ice_stop
      /\ joining' = [joining EXCEPT ![j] = inner.handles]
      /\ stopped' = stopped \cup {inner.ice_stop}
      /\ joining \in [Sessions \cup {JS} -> SUBSET Threads]
  BY DEF HaltThreads, Locked, Typed, Inners
<1>2. StartsInTurn /\ HandlesMatch /\ FlagsMatch /\ ThreadsAccounted /\ JoinsInStep
  BY DEF StartsInv
<1>4. /\ \A s \in Sessions : starter'[s] # 11 => starter[s] # 11
      /\ \A s \in Sessions : starter[s] = 11 => starter'[s] = 11
      /\ \A s \in Sessions : starter[s] \in 10..11 => starter'[s] = starter[s]
      /\ \A s \in Sessions : Starting(s)' => Starting(s)
      /\ \A s \in Sessions : starter'[s] \in 9..10 => starter[s] \in 9..10
  BY <1>0, Numbers
<1>5. StartsInTurn'
  BY <1>1, <1>2, <1>4 DEF StartsInTurn
<1>6. HandlesMatch'
  <2> SUFFICES ASSUME NEW i \in DOMAIN joining', NEW t \in joining'[i]
               PROVE  t[1] \in stopped' /\ starter'[t[1]] = 11
    BY <1>1 DEF HandlesMatch
  <2>1. i \in DOMAIN joining /\ t \in joining[i] \cup inner.handles /\ t \in Threads
    BY <1>1 DEF Typed, Inners
  <2>2. t[1] \in stopped' /\ starter[t[1]] = 11
    BY <1>1, <1>2, <2>1 DEF HandlesMatch
  <2> QED
    BY <1>4, <2>1, <2>2, ThreadNames
<1>7. FlagsMatch'
  BY <1>1, <1>2 DEF FlagsMatch, Alive
<1>8. ThreadsAccounted'
  <2> SUFFICES ASSUME NEW t \in Threads, Alive(t)'
               PROVE  /\ starter'[t[1]] \in 10..11
                      /\ \/ t \in inner'.handles \/ starter'[t[1]] = 10
                         \/ \E i \in DOMAIN joining' : t \in joining'[i]
    BY DEF ThreadsAccounted
  <2>1. t[1] \in Sessions /\ Alive(t)
    BY ThreadNames DEF Alive
  <2>2. starter'[t[1]] = starter[t[1]] /\ starter[t[1]] \in 10..11
    BY <1>2, <1>4, <2>1 DEF ThreadsAccounted
  <2>3. \/ t \in inner.handles \/ starter[t[1]] = 10
        \/ \E i \in DOMAIN joining : t \in joining[i]
    BY <1>2, <2>1 DEF ThreadsAccounted
  <2>4. /\ t \in inner.handles => t \in joining'[j] /\ j \in DOMAIN joining'
        /\ \A i \in DOMAIN joining : t \in joining[i] => /\ i \in DOMAIN joining'
                                                          /\ t \in joining'[i]
    BY <1>1
  <2> QED
    BY <2>2, <2>3, <2>4
<1>9. JoinsInStep'
  <2>1. \A s \in Sessions : joining'[s] # {} => starter'[s] \in {2, 7}
    <3>1. ASSUME NEW s \in Sessions, s = j PROVE starter'[s] \in {2, 7}
      BY <3>1 DEF GoesOn
    <3>2. ASSUME NEW s \in Sessions, s # j
          PROVE  joining'[s] # {} => starter'[s] \in {2, 7}
      BY <1>1, <1>2, <3>2 DEF JoinsInStep, GoesOn
    <3> QED
      BY <3>1, <3>2
  <2>2. joining'[JS] # {} => js'.step = "join"
    BY <1>1, <1>2, Names DEF JoinsInStep
  <2> QED
    BY <2>1, <2>2 DEF JoinsInStep
<1> QED
  BY <1>5, <1>6, <1>7, <1>8, <1>9 DEF StartsInv

\* Whoever joined them goes on, and they are gone.
LEMMA JoinStarts ==
    ASSUME Typed, StartsInv, OneByOne, NEW j \in Sessions \cup {JS},
           JoinThreads(j), UNCHANGED <<usage, alive>>, GoesOn(j, {2, 7}),
           j = JS \/ js' = js
    PROVE  StartsInv'
<1>0. GoesOn(j, {1, 2, 6, 7})
  BY DEF GoesOn
<1>1. /\ UNCHANGED <<inner, stopped>> /\ joining' = [joining EXCEPT ![j] = {}]
      /\ joining \in [Sessions \cup {JS} -> SUBSET Threads]
      /\ \A t \in joining[j] : ~Alive(t)
  BY DEF JoinThreads, Typed
<1>2. StartsInTurn /\ HandlesMatch /\ FlagsMatch /\ ThreadsAccounted /\ JoinsInStep
  BY DEF StartsInv
<1>4. /\ \A s \in Sessions : starter[s] = 11 => starter'[s] = 11
      /\ \A s \in Sessions : starter[s] \in 10..11 => starter'[s] = starter[s]
      /\ \A s \in Sessions : Starting(s)' => Starting(s)
      /\ \A s \in Sessions : starter'[s] \in 9..10 => starter[s] \in 9..10
      /\ \A s \in Sessions : starter'[s] \in 2..10 => starter[s] \in 2..10
  <2>1. \A s \in Sessions : s = j => starter[s] # 1
    BY DEF GoesOn
  <2> QED
    BY <1>0, <2>1, Numbers
<1>5. StartsInTurn'
  BY <1>1, <1>2, <1>4 DEF StartsInTurn
<1>6. HandlesMatch'
  <2>1. \A t \in inner.handles : t[1] \in Sessions
    BY ThreadNames DEF Typed, Inners
  <2>2. \A i \in DOMAIN joining' : /\ i \in DOMAIN joining /\ joining'[i] \subseteq joining[i]
                                   /\ \A t \in joining'[i] : t[1] \in Sessions
    BY <1>1, ThreadNames
  <2> QED
    BY <1>1, <1>2, <1>4, <2>1, <2>2 DEF HandlesMatch
<1>7. FlagsMatch'
  BY <1>1, <1>2 DEF FlagsMatch, Alive
<1>8. ThreadsAccounted'
  <2> SUFFICES ASSUME NEW t \in Threads, Alive(t)'
               PROVE  /\ starter'[t[1]] \in 10..11
                      /\ \/ t \in inner'.handles \/ starter'[t[1]] = 10
                         \/ \E i \in DOMAIN joining' : t \in joining'[i]
    BY DEF ThreadsAccounted
  <2>1. t[1] \in Sessions /\ Alive(t)
    BY ThreadNames DEF Alive
  <2>2. starter'[t[1]] = starter[t[1]] /\ starter[t[1]] \in 10..11
    BY <1>2, <1>4, <2>1 DEF ThreadsAccounted
  <2>3. \/ t \in inner.handles \/ starter[t[1]] = 10
        \/ \E i \in DOMAIN joining : t \in joining[i]
    BY <1>2, <2>1 DEF ThreadsAccounted
  <2>4. \A i \in DOMAIN joining : t \in joining[i] => /\ i \in DOMAIN joining'
                                                      /\ t \in joining'[i]
    BY <1>1, <2>1
  <2> QED
    BY <1>1, <2>2, <2>3, <2>4
<1>9. JoinsInStep'
  <2>1. \A s \in Sessions : joining'[s] # {} => starter'[s] \in {2, 7}
    BY <1>1, <1>2 DEF JoinsInStep, GoesOn
  <2>2. joining'[JS] # {} => js'.step = "join"
    BY <1>1, <1>2, Names DEF JoinsInStep
  <2> QED
    BY <2>1, <2>2 DEF JoinsInStep
<1> QED
  BY <1>5, <1>6, <1>7, <1>8, <1>9 DEF StartsInv

\* Steps of a start that leave the threads alone: what it drops, stores and sends.
LEMMA QuietStart ==
    ASSUME Typed, StartsInv, OneByOne, NEW s \in Sessions,
           UNCHANGED <<alive, joining, stopped, js>>,
           inner'.ice_stop = inner.ice_stop, inner'.handles = inner.handles,
           starter[s] \in 3..5, starter'[s] \in {4, 5, 6, 11},
           \A r \in Sessions : r # s => starter'[r] = starter[r]
    PROVE  StartsInv'
<1>1. StartsInTurn /\ HandlesMatch /\ FlagsMatch /\ ThreadsAccounted /\ JoinsInStep
  BY DEF StartsInv
<1>2. /\ starter[s] \in 2..10 /\ Starting(s)
      /\ \A r \in Sessions : Starting(r)' => Starting(r)
      /\ \A r \in Sessions : starter[r] = 11 => r # s /\ starter'[r] = 11
      /\ \A r \in Sessions : starter[r] \in 10..11 => r # s /\ starter'[r] = starter[r]
      /\ \A r \in Sessions : starter'[r] \in 9..10 => r # s /\ starter'[r] = starter[r]
  BY DEF Starting
<1>3. StartsInTurn'
  <2>1. \A r \in Sessions : starter'[r] \in 2..10 => starter[r] \in 2..10
    BY <1>2
  <2> QED
    BY <1>1, <1>2, <2>1 DEF StartsInTurn
<1>4. HandlesMatch'
  <2>1. \A t \in inner.handles : t[1] \in Sessions
    BY ThreadNames DEF Typed, Inners
  <2>2. \A i \in DOMAIN joining : \A t \in joining[i] : t[1] \in Sessions
    BY ThreadNames DEF Typed
  <2> QED
    BY <1>1, <1>2, <2>1, <2>2 DEF HandlesMatch
<1>5. FlagsMatch'
  BY <1>1 DEF FlagsMatch, Alive
<1>6. ThreadsAccounted'
  BY <1>1, <1>2, ThreadNames DEF ThreadsAccounted, Alive
<1>7. JoinsInStep'
  <2>1. joining[s] = {}
    BY <1>1 DEF JoinsInStep
  <2> QED
    BY <1>1, <2>1 DEF JoinsInStep
<1> QED
  BY <1>3, <1>4, <1>5, <1>6, <1>7 DEF StartsInv

\* A new flag is stored when every running thread has been told to stop.
LEMMA FlagStarts ==
    ASSUME Typed, StartsInv, OneByOne, NEW s \in Sessions, StartFlag(s)
    PROVE  StartsInv'
<1>1. StartsInTurn /\ HandlesMatch /\ FlagsMatch /\ ThreadsAccounted /\ JoinsInStep
  BY DEF StartsInv
<1>2. /\ inner' = [inner EXCEPT !.ice_stop = s] /\ inner \in Inners
      /\ UNCHANGED <<alive, joining, stopped, js>>
      /\ starter[s] = 8 /\ starter' = [starter EXCEPT ![s] = 9]
      /\ starter \in [Sessions -> 0..11]
  <2>1. starter[s] = 8 /\ starter' = [starter EXCEPT ![s] = starter[s] + 1]
    BY StartNumbers DEF StartFlag, At
  <2>2. starter' = [starter EXCEPT ![s] = 9]
    BY <2>1
  <2> QED
    BY <2>1, <2>2 DEF StartFlag, NewFlag, Locked, Typed
<1>3. inner'.ice_stop = s /\ inner'.handles = {} /\ inner.handles = {}
  BY <1>1, <1>2 DEF StartsInTurn, Inners
<1>4. /\ Starting(s)
      /\ \A r \in Sessions : Starting(r)' => Starting(r)
      /\ \A r \in Sessions : starter[r] \in 10..11 => r # s /\ starter'[r] = starter[r]
      /\ \A r \in Sessions : starter[r] = 11 => starter'[r] = 11
      /\ \A r \in Sessions : starter'[r] \in 9..10 => Starting(r)
  BY <1>2 DEF Starting
<1>5. StartsInTurn'
  BY <1>1, <1>3, <1>4 DEF StartsInTurn
<1>6. HandlesMatch'
  <2>1. \A i \in DOMAIN joining : \A t \in joining[i] : t[1] \in Sessions
    BY ThreadNames DEF Typed
  <2> QED
    BY <1>1, <1>2, <1>3, <1>4, <2>1 DEF HandlesMatch
<1>7. FlagsMatch'
  <2> SUFFICES ASSUME NEW t \in Threads, Alive(t), t[1] \notin stopped PROVE FALSE
    BY <1>2 DEF FlagsMatch, Alive
  <2>1. t[1] \in Sessions /\ t \notin inner.handles
    BY <1>3, ThreadNames
  <2>2. starter[t[1]] = 10
    BY <1>1, <2>1 DEF ThreadsAccounted, HandlesMatch
  <2>3. Starting(t[1])
    BY <2>2 DEF Starting
  <2> QED
    BY <1>1, <1>2, <1>4, <2>1, <2>2, <2>3 DEF StartsInTurn
<1>8. ThreadsAccounted'
  BY <1>1, <1>2, <1>3, <1>4, ThreadNames DEF ThreadsAccounted, Alive
<1>9. JoinsInStep'
  <2>1. joining[s] = {}
    BY <1>1, <1>2 DEF JoinsInStep
  <2> QED
    BY <1>1, <1>2, <2>1 DEF JoinsInStep
<1> QED
  BY <1>5, <1>6, <1>7, <1>8, <1>9 DEF StartsInv

\* The threads are spawned under the flag of their start.
LEMMA SpawnStarts ==
    ASSUME Typed, StartsInv, OneByOne, NEW s \in Sessions, StartSpawn(s)
    PROVE  StartsInv'
<1>1. StartsInTurn /\ HandlesMatch /\ FlagsMatch /\ ThreadsAccounted /\ JoinsInStep
  BY DEF StartsInv
<1>2. /\ UNCHANGED <<inner, joining, stopped, js>> /\ alive' = alive \cup ThreadsOf(s)
      /\ starter[s] = 9 /\ starter' = [starter EXCEPT ![s] = 10]
      /\ starter \in [Sessions -> 0..11]
  <2>1. starter[s] = 9 /\ starter' = [starter EXCEPT ![s] = starter[s] + 1]
    BY StartNumbers DEF StartSpawn, At
  <2>2. starter' = [starter EXCEPT ![s] = 10]
    BY <2>1
  <2> QED
    BY <2>1, <2>2 DEF StartSpawn, Typed
<1>3. inner.ice_stop = s /\ inner.handles = {}
  BY <1>1, <1>2 DEF StartsInTurn
<1>4. /\ Starting(s) /\ starter'[s] = 10
      /\ \A r \in Sessions : Starting(r)' => Starting(r)
      /\ \A r \in Sessions : starter[r] \in 10..11 => r # s /\ starter'[r] = starter[r]
      /\ \A r \in Sessions : starter[r] = 11 => starter'[r] = 11
      /\ \A r \in Sessions : starter'[r] \in 9..10 => Starting(r)
  BY <1>2 DEF Starting
<1>5. StartsInTurn'
  BY <1>1, <1>2, <1>3, <1>4 DEF StartsInTurn
<1>6. HandlesMatch'
  <2>1. \A i \in DOMAIN joining : \A t \in joining[i] : t[1] \in Sessions
    BY ThreadNames DEF Typed
  <2> QED
    BY <1>1, <1>2, <1>3, <1>4, <2>1 DEF HandlesMatch
<1>7. \A t \in Threads : Alive(t)' => Alive(t) \/ t[1] = s
  BY <1>2, ThreadNames DEF Alive
<1>8. FlagsMatch'
  BY <1>1, <1>2, <1>3, <1>7 DEF FlagsMatch
<1>9. ThreadsAccounted'
  BY <1>1, <1>2, <1>3, <1>4, <1>7, ThreadNames DEF ThreadsAccounted
<1>10. JoinsInStep'
  <2>1. joining[s] = {}
    BY <1>1, <1>2 DEF JoinsInStep
  <2> QED
    BY <1>1, <1>2, <2>1 DEF JoinsInStep
<1> QED
  BY <1>5, <1>6, <1>8, <1>9, <1>10 DEF StartsInv

\* Their handles are stored, and the start is over.
LEMMA HandlesStarts ==
    ASSUME Typed, StartsInv, OneByOne, NEW s \in Sessions, StartHandles(s)
    PROVE  StartsInv'
<1>1. StartsInTurn /\ HandlesMatch /\ FlagsMatch /\ ThreadsAccounted /\ JoinsInStep
  BY DEF StartsInv
<1>2. /\ inner' = [inner EXCEPT !.handles = ThreadsOf(s)] /\ inner \in Inners
      /\ UNCHANGED <<alive, joining, stopped, js>>
      /\ starter[s] = 10 /\ starter' = [starter EXCEPT ![s] = 11]
      /\ starter \in [Sessions -> 0..11]
  <2>1. starter[s] = 10 /\ starter' = [starter EXCEPT ![s] = starter[s] + 1]
    BY StartNumbers DEF StartHandles, At
  <2>2. starter' = [starter EXCEPT ![s] = 11]
    BY <2>1
  <2> QED
    BY <2>1, <2>2 DEF StartHandles, Locked, Typed
<1>3. /\ inner.ice_stop = s /\ inner.handles = {}
      /\ inner'.ice_stop = s /\ inner'.handles = ThreadsOf(s)
  BY <1>1, <1>2 DEF StartsInTurn, Inners
<1>4. /\ Starting(s) /\ starter'[s] = 11
      /\ \A r \in Sessions : Starting(r)' => Starting(r) /\ r # s
      /\ \A r \in Sessions : r # s => starter'[r] = starter[r]
      /\ \A r \in Sessions : starter[r] = 11 => starter'[r] = 11
      /\ \A r \in Sessions : starter'[r] \in 2..10 => Starting(r)'
      /\ \A r \in Sessions : starter'[r] \in 9..10 => Starting(r)'
  BY <1>2 DEF Starting
<1>5. StartsInTurn'
  <2>1. \A r \in Sessions : ~Starting(r)'
    BY <1>1, <1>4 DEF StartsInTurn
  <2> QED
    BY <1>4, <2>1 DEF StartsInTurn
<1>6. HandlesMatch'
  <2>1. \A i \in DOMAIN joining : \A t \in joining[i] : t[1] \in Sessions
    BY ThreadNames DEF Typed
  <2> QED
    BY <1>1, <1>2, <1>3, <1>4, <2>1, ThreadNames DEF HandlesMatch
<1>7. FlagsMatch'
  BY <1>1, <1>2, <1>3 DEF FlagsMatch, Alive
<1>8. ThreadsAccounted'
  <2> SUFFICES ASSUME NEW t \in Threads, Alive(t)
               PROVE  /\ starter'[t[1]] \in 10..11
                      /\ \/ t \in inner'.handles \/ starter'[t[1]] = 10
                         \/ \E i \in DOMAIN joining : t \in joining[i]
    BY <1>2 DEF ThreadsAccounted, Alive
  <2>1. t[1] \in Sessions /\ t \in ThreadsOf(t[1])
    BY ThreadNames
  <2>2. CASE t[1] = s
    BY <1>3, <1>4, <2>1, <2>2
  <2>3. CASE t[1] # s
    BY <1>1, <1>3, <1>4, <2>1, <2>3 DEF ThreadsAccounted
  <2> QED
    BY <2>2, <2>3
<1>9. JoinsInStep'
  <2>1. joining[s] = {}
    BY <1>1, <1>2 DEF JoinsInStep
  <2> QED
    BY <1>1, <1>2, <2>1 DEF JoinsInStep
<1> QED
  BY <1>5, <1>6, <1>7, <1>8, <1>9 DEF StartsInv

\* Steps of a start.
LEMMA StartStarts ==
    ASSUME Typed, StartsInv, NEW s \in Sessions, Start(s)
    PROVE  StartsInv'
<1>0. UNCHANGED <<usage, js>>
  BY StartMoves
<1> SUFFICES ASSUME OneByOne PROVE StartsInv'
  BY <1>0 DEF StartsInv, OneByOne
<1>1. s # JS /\ s \in Sessions \cup {JS} /\ inner \in Inners
  BY Names DEF Typed
<1>2. CASE StartHalt(s)
  <2>1. HaltThreads(s) /\ UNCHANGED alive /\ starter[s] \in {1, 6}
    BY <1>2, StartNumbers DEF StartHalt
  <2>2. joining[s] = {}
    BY <2>1 DEF StartsInv, JoinsInStep
  <2>3. GoesOn(s, {1, 6})
    BY <1>2, <2>1 DEF StartHalt, At, GoesOn, Typed
  <2> QED
    BY <1>0, <1>1, <2>1, <2>2, <2>3, HaltStarts
<1>3. CASE StartJoin(s)
  <2>1. JoinThreads(s) /\ UNCHANGED alive /\ starter[s] \in {2, 7}
    BY <1>3, StartNumbers DEF StartJoin
  <2>2. GoesOn(s, {2, 7})
    BY <1>3, <2>1 DEF StartJoin, At, GoesOn, Typed
  <2> QED
    BY <1>0, <1>1, <2>1, <2>2, JoinStarts
<1>4. CASE StartDrop(s) \/ StartFails(s) \/ StartStore(s) \/ StartSend(s)
  <2>1. UNCHANGED <<alive, joining, stopped, js>>
    BY <1>0, <1>4 DEF StartDrop, StartFails, StartStore, StartSend
  <2>2. inner'.ice_stop = inner.ice_stop /\ inner'.handles = inner.handles
    BY <1>1, <1>4 DEF StartDrop, StartFails, StartStore, StartSend, DropAgent, Locked, Inners
  <2>3. /\ starter[s] \in 3..5 /\ starter'[s] \in {4, 5, 6, 11}
        /\ \A r \in Sessions : r # s => starter'[r] = starter[r]
    <3>1. starter \in [Sessions -> 0..11]
      BY DEF Typed
    <3>2. CASE StartFails(s)
      BY <3>1, <3>2 DEF StartFails
    <3>3. CASE StartDrop(s) \/ StartStore(s) \/ StartSend(s)
      <4>1. starter[s] \in {3, 4, 5} /\ starter' = [starter EXCEPT ![s] = starter[s] + 1]
        BY <3>3, StartNumbers DEF StartDrop, StartStore, StartSend, At
      <4> QED
        BY <3>1, <4>1
    <3> QED
      BY <1>4, <3>2, <3>3
  <2> QED
    BY <2>1, <2>2, <2>3, QuietStart
<1> QED
  BY <1>2, <1>3, <1>4, FlagStarts, SpawnStarts, HandlesStarts DEF Start

\* Steps that begin a start: nobody else's is under way.
LEMMA BeginStarts ==
    ASSUME Typed, StartsInv,
           \/ \E c \in Connectors, s \in Offers : HandleOffer(c, s)
           \/ \E s \in Initiations : CallInitiate(s)
    PROVE  StartsInv'
<1>1. PICK s \in Sessions :
         /\ starter[s] = 0 /\ starter' = [starter EXCEPT ![s] = 1]
         /\ UNCHANGED <<usage, inner, stopped, joining, alive>>
         /\ OneByOne => \A r \in Sessions : ~Starting(r)
         /\ js.step = "join" => js'.step = "join"
  <2>1. CASE \E c \in Connectors, s \in Offers : HandleOffer(c, s)
    BY <2>1, Names DEF HandleOffer, MayOffer, OneStart, OneByOne
  <2>2. CASE \E s \in Initiations : CallInitiate(s)
    <3>1. js.step # "join"
      BY <2>2 DEF CallInitiate, Call
    <3> QED
      BY <2>2, <3>1, Names DEF CallInitiate, Locked, MayInitiate, OneStart, OneByOne
  <2> QED
    BY <2>1, <2>2
<1> SUFFICES ASSUME OneByOne PROVE StartsInv'
  BY <1>1 DEF StartsInv, OneByOne
<1>2. StartsInTurn /\ HandlesMatch /\ FlagsMatch /\ ThreadsAccounted /\ JoinsInStep
  BY DEF StartsInv
<1>3. /\ starter \in [Sessions -> 0..11] /\ starter'[s] = 1
      /\ \A r \in Sessions \ {s} : starter'[r] = starter[r] /\ starter[r] \notin 1..10
  BY <1>1 DEF Starting, Typed
<1>4. /\ \A r \in Sessions : Starting(r)' => r = s
      /\ \A r \in Sessions : starter[r] \in 10..11 => starter'[r] = starter[r]
      /\ \A r \in Sessions : starter[r] = 11 => starter'[r] = 11
      /\ \A r \in Sessions : starter[r] \in {2, 7} => starter'[r] = starter[r]
      /\ \A r \in Sessions : starter'[r] \notin 2..10 /\ starter'[r] \notin 9..10
  <2> SUFFICES ASSUME NEW r \in Sessions
               PROVE  /\ Starting(r)' => r = s
                      /\ starter[r] \in 10..11 => starter'[r] = starter[r]
                      /\ starter[r] = 11 => starter'[r] = 11
                      /\ starter[r] \in {2, 7} => starter'[r] = starter[r]
                      /\ starter'[r] \notin 2..10 /\ starter'[r] \notin 9..10
    OBVIOUS
  <2>1. CASE r = s
    BY <1>1, <1>3, <2>1
  <2>2. CASE r # s
    BY <1>3, <2>2 DEF Starting
  <2> QED
    BY <2>1, <2>2
<1>5. StartsInTurn'
  BY <1>4 DEF StartsInTurn
<1>6. HandlesMatch' /\ FlagsMatch'
  <2>1. \A t \in inner.handles : t[1] \in Sessions
    BY ThreadNames DEF Typed, Inners
  <2>2. \A i \in DOMAIN joining : \A t \in joining[i] : t[1] \in Sessions
    BY ThreadNames DEF Typed
  <2> QED
    BY <1>1, <1>2, <1>4, <2>1, <2>2 DEF HandlesMatch, FlagsMatch, Alive
<1>7. ThreadsAccounted' /\ JoinsInStep'
  BY <1>1, <1>2, <1>4, ThreadNames DEF ThreadsAccounted, JoinsInStep, Alive
<1> QED
  BY <1>5, <1>6, <1>7 DEF StartsInv

\* A stop halts and joins, and a thread ends.
LEMMA StopStarts ==
    ASSUME Typed, StartsInv,
           \/ CallStopIce \/ CloseHaltThreads \/ JsJoinThreads
           \/ \E t \in Threads : ThreadEnds(t)
    PROVE  StartsInv'
<1>0. UNCHANGED usage
  BY DEF CallStopIce, CloseHaltThreads, JsJoinThreads, ThreadEnds
<1> SUFFICES ASSUME OneByOne PROVE StartsInv'
  BY <1>0 DEF StartsInv, OneByOne
<1>1. StartsInTurn /\ HandlesMatch /\ FlagsMatch /\ ThreadsAccounted /\ JoinsInStep
  BY DEF StartsInv
<1>2. js \in JSStates /\ JS \notin Sessions
  BY Names DEF Typed
<1>3. CASE CallStopIce \/ CloseHaltThreads
  <2>1. HaltThreads(JS) /\ UNCHANGED <<alive, starter>> /\ js.step # "join"
    BY <1>3 DEF CallStopIce, CloseHaltThreads, StopCall, Moves
  <2>2. js'.step = "join"
    BY <1>2, <1>3 DEF CallStopIce, CloseHaltThreads, StopCall, Moves, JSStates
  <2>3. joining[JS] = {} /\ GoesOn(JS, {1, 6})
    BY <1>1, <1>2, <2>1 DEF JoinsInStep, GoesOn
  <2> QED
    BY <1>0, <2>1, <2>2, <2>3, HaltStarts
<1>4. CASE JsJoinThreads
  <2>1. JoinThreads(JS) /\ UNCHANGED <<alive, starter>>
    BY <1>4 DEF JsJoinThreads
  <2>2. GoesOn(JS, {2, 7})
    BY <1>2, <2>1 DEF GoesOn
  <2> QED
    BY <1>0, <2>1, <2>2, JoinStarts
<1>5. CASE \E t \in Threads : ThreadEnds(t)
  <2>1. UNCHANGED <<inner, stopped, joining, starter, js>> /\ alive' \subseteq alive
    BY <1>5 DEF ThreadEnds
  <2>2. StartsInTurn' /\ HandlesMatch' /\ JoinsInStep'
    BY <1>1, <2>1 DEF StartsInTurn, HandlesMatch, JoinsInStep, Starting
  <2>3. FlagsMatch' /\ ThreadsAccounted'
    BY <1>1, <2>1 DEF FlagsMatch, ThreadsAccounted, Alive
  <2> QED
    BY <2>2, <2>3 DEF StartsInv
<1> QED
  BY <1>3, <1>4, <1>5

\* The invariant of the starts, however calls and messages cross.
THEOREM StartsInvariant == Spec => [](Typed /\ Dialling /\ StartsInv)
<1>1. Init => StartsInv
  BY DEF Init, StartsInv, StartsInTurn, HandlesMatch, FlagsMatch, ThreadsAccounted,
     JoinsInStep, Starting, Alive
<1>2. Typed /\ Dialling /\ StartsInv /\ [Next]_vars => StartsInv'
  BY SameStarts, OtherSteps, StartStarts, BeginStarts, StopStarts DEF Next, JsStep
<1> QED
  BY <1>1, <1>2, TypeCorrect, PTL DEF Spec

\* Every running thread of a session can be stopped, unless starts overlap: nobody
\* detaches a handle or replaces a flag that a thread still looks at.
THEOREM StartsAreStoppable == Spec => [](OneByOne => ThreadsStoppable)
<1>1. StartsInv => (OneByOne => ThreadsStoppable)
  <2> SUFFICES ASSUME StartsInv, OneByOne, NEW t \in Threads, Alive(t), t[1] \notin stopped
               PROVE  /\ inner.ice_stop = t[1] /\ (t \in inner.handles \/ Starting(t[1]))
                      /\ \A j \in DOMAIN joining : t \notin joining[j]
    BY DEF ThreadsStoppable
  <2>1. inner.ice_stop = t[1]
    BY DEF StartsInv, FlagsMatch
  <2>2. \A j \in DOMAIN joining : t \notin joining[j]
    BY DEF StartsInv, HandlesMatch
  <2>3. t \in inner.handles \/ starter[t[1]] = 10
    BY <2>2 DEF StartsInv, ThreadsAccounted
  <2> QED
    BY <2>1, <2>2, <2>3 DEF Starting
<1> QED
  BY <1>1, StartsInvariant, PTL

----------------------------------------------------------------------------
(* Calls and messages in turn: close() leaves nothing behind               *)

NoConnector == \A c \in Connectors : ~ConnectorAlive(c)

\* close() has joined the threads of the session.
ThreadsJoined ==
    \/ js.closed \/ js.step = "halt connector"
    \/ js.call = "close" /\ js.step \in {"join connector", "drop", "release"}

\* The JS thread has joined the connector thread.
ConnectorJoined ==
    \/ js.closed \/ js.step \in {"channel", "spawn"}
    \/ js.call = "close" /\ js.step \in {"drop", "release"}

\* No start is under way while the JS thread is in a call, or after close().
CallsAlone ==
    /\ js.step # "ready" \/ js.closed => \A s \in Sessions : ~Starting(s)
    /\ js.closed => js.step = "ready"

\* The one connector thread that runs has its handle and its channel in Inner.
OneConnector ==
    /\ \A c \in Connectors : ConnectorAlive(c) =>
          
             \/ inner.connector = c
             \/ js.call = c /\ js.step = "handle"
    /\ js.step \in {"channel", "spawn", "handle"} => inner.connector = None
    /\ js.step \in {"spawn", "handle"} => inner.connector_tx = js.call
    /\ ConnectorJoined => NoConnector
    /\ inner.connector_tx = None /\ js.step # "join connector" => NoConnector

\* Only a connector that was told it is registered says so, and during a call it is.
Registrations ==
    /\ \A c \in Connectors : ConnectorAlive(c) =>
          (inner.registered \/ js.step \notin {"ready", "handle"} => connector[c].was)
    /\ ConnectorJoined \/ js.step = "join connector" => ~inner.registered

\* A join finds all threads in the handles taken, and they are gone after it.
ThreadsGone ==
    /\ js.step = "join" => inner.handles = {}
    /\ ThreadsJoined => alive = {} /\ inner.handles = {}

AgentGone == js.closed \/ js.step = "release" => inner.agent = NoAgent

InTurn == usage = "in turn"

QuietParts ==
    CallsAlone /\ OneConnector /\ Registrations /\ ThreadsGone /\ AgentGone

\* Inductive, with StartsInv.
QuietInv == InTurn => QuietParts

\* What does not touch the connectors and leaves the JS thread between two calls.
LEMMA ReadyQuiet ==
    ASSUME QuietParts, js.step = "ready", js'.step = "ready", ~js'.closed,
           UNCHANGED <<inner.connector, inner.connector_tx, inner.registered>>,
           \A c \in Connectors : /\ ConnectorAlive(c)' => ConnectorAlive(c)
                                 /\ connector'[c].was = connector[c].was
    PROVE  QuietParts'
<1>1. CallsAlone' /\ ThreadsGone' /\ AgentGone'
  BY DEF CallsAlone, ThreadsGone, ThreadsJoined, AgentGone
<1>2. OneConnector'
  BY DEF QuietParts, OneConnector, ConnectorJoined, NoConnector
<1>3. Registrations'
  BY DEF QuietParts, Registrations, ConnectorJoined
<1> QED
  BY <1>1, <1>2, <1>3 DEF QuietParts

\* What leaves the JS thread in its call and starts nothing.
LEMMA SameCallQuiet ==
    ASSUME QuietParts, js'.step = js.step, js'.call = js.call, js'.closed = js.closed,
           starter' = starter, alive' \subseteq alive,
           UNCHANGED <<inner.connector, inner.connector_tx, inner.handles>>,
           inner.agent = NoAgent => inner'.agent = NoAgent,
           \A c \in Connectors : ConnectorAlive(c)' => ConnectorAlive(c),
           Registrations'
    PROVE  QuietParts'
<1>1. CallsAlone' /\ AgentGone'
  BY DEF QuietParts, CallsAlone, AgentGone, Starting
<1>2. OneConnector'
  BY DEF QuietParts, OneConnector, ConnectorJoined, NoConnector
<1>3. ThreadsGone'
  BY DEF QuietParts, ThreadsGone, ThreadsJoined
<1> QED
  BY <1>1, <1>2, <1>3 DEF QuietParts

\* A start goes on, or one begins.
LEMMA StartQuiet ==
    ASSUME Typed, InTurn, QuietParts,
           \/ \E s \in Sessions : Start(s)
           \/ \E s \in Initiations : CallInitiate(s)
           \/ \E c \in Connectors, s \in Offers : HandleOffer(c, s)
    PROVE  QuietParts'
<1>0. inner \in Inners /\ js \in JSStates /\ connector \in [Connectors -> ConnectorStates]
  BY DEF Typed
<1>1. ASSUME NEW s \in Sessions, Start(s) PROVE QuietParts'
  <2>1. Starting(s) /\ UNCHANGED <<connector, js>>
    BY <1>1, StartMoves
  <2>2. js.step = "ready" /\ ~js.closed
    BY <2>1 DEF QuietParts, CallsAlone
  <2>3. UNCHANGED <<inner.connector, inner.connector_tx, inner.registered>>
    BY <1>0, <1>1 DEF Start, StartHalt, StartJoin, StartDrop, StartFails, StartStore,
       StartSend, StartFlag, StartSpawn, StartHandles, HaltThreads, JoinThreads, DropAgent,
       NewFlag, Locked, Inners
  <2>4. js'.step = "ready" /\ ~js'.closed
    BY <2>1, <2>2
  <2>5. \A c \in Connectors : /\ ConnectorAlive(c)' => ConnectorAlive(c)
                              /\ connector'[c].was = connector[c].was
    BY <2>1 DEF ConnectorAlive
  <2> QED
    BY <2>2, <2>3, <2>4, <2>5, ReadyQuiet
<1>2. ASSUME NEW s \in Initiations, CallInitiate(s) PROVE QuietParts'
  <2>1. js.step = "ready" /\ js'.step = "ready" /\ ~js'.closed
    BY <1>0, <1>2 DEF CallInitiate, Call, JSStates
  <2>2. UNCHANGED <<inner.connector, inner.connector_tx, inner.registered>>
    BY <1>2 DEF CallInitiate, Locked
  <2>3. \A c \in Connectors : /\ ConnectorAlive(c)' => ConnectorAlive(c)
                              /\ connector'[c].was = connector[c].was
    BY <1>2 DEF CallInitiate, ConnectorAlive
  <2> QED
    BY <2>1, <2>2, <2>3, ReadyQuiet
<1>3. ASSUME NEW c \in Connectors, NEW s \in Offers, HandleOffer(c, s) PROVE QuietParts'
  <2>1. js.step = "ready" /\ UNCHANGED <<inner, js>> /\ connector[c].step = "batch"
    BY <1>3 DEF HandleOffer, MayOffer, InTurn
  <2>2. ~js.closed
    BY <2>1 DEF QuietParts, OneConnector, ConnectorJoined, NoConnector, ConnectorAlive
  <2>3. \A d \in Connectors : /\ ConnectorAlive(d)' => ConnectorAlive(d)
                              /\ connector'[d].was = connector[d].was
    <3>1. ASSUME NEW d \in Connectors, d = c
          PROVE  ConnectorAlive(d) /\ connector'[d].was = connector[d].was
      BY <1>0, <1>3, <2>1, <3>1 DEF HandleOffer, ConnectorAlive, ConnectorStates
    <3>2. ASSUME NEW d \in Connectors, d # c PROVE connector'[d] = connector[d]
      BY <1>0, <1>3, <3>2 DEF HandleOffer
    <3> QED
      BY <3>1, <3>2 DEF ConnectorAlive
  <2> QED
    BY <2>1, <2>2, <2>3, ReadyQuiet
<1> QED
  BY <1>1, <1>2, <1>3

\* A check leaves no agent as it is.
LEMMA NoAgentChecked ==
    ASSUME Typed, NEW to, NEW a \in Checked(to), inner.agent = NoAgent
    PROVE  a = NoAgent
BY DEF Checked, NoAgent

\* The threads of a session, and the answers to an offer.
LEMMA SessionQuiet ==
    ASSUME Typed, QuietParts,
           \/ \E s \in Sessions : Tick(s) \/ Receive(s)
           \/ \E t \in Threads : ThreadEnds(t)
           \/ \E c \in Connectors, s \in Initiations : HandleAnswer(c, s)
           \/ UNCHANGED vars
    PROVE  QuietParts'
<1>0. inner \in Inners /\ js \in JSStates /\ connector \in [Connectors -> ConnectorStates]
  BY DEF Typed
<1>1. /\ starter' = starter /\ alive' \subseteq alive
      /\ js'.step = js.step /\ js'.call = js.call /\ js'.closed = js.closed
  BY <1>0 DEF Tick, Receive, ThreadEnds, HandleAnswer, Goes, iceVars, vars, JSStates
<1>2. /\ UNCHANGED <<inner.connector, inner.connector_tx, inner.handles, inner.registered>>
      /\ inner.agent = NoAgent => inner'.agent = NoAgent
  <2>1. ASSUME NEW to, NEW a \in Checked(to), inner' = [inner EXCEPT !.agent = a]
        PROVE  <1>2!1 /\ <1>2!2
    BY <1>0, <2>1, NoAgentChecked DEF Inners
  <2>2. ASSUME NEW s \in Sessions, Tick(s) \/ Receive(s) PROVE <1>2!1 /\ <1>2!2
    BY <2>1, <2>2 DEF Tick, Receive, Locked
  <2>3. ASSUME NEW c \in Connectors, NEW s \in Initiations, HandleAnswer(c, s)
        PROVE  <1>2!1 /\ <1>2!2
    BY <1>0, <2>3 DEF HandleAnswer, Locked, Inners
  <2>4. CASE (\E t \in Threads : ThreadEnds(t)) \/ UNCHANGED vars
    BY <2>4 DEF ThreadEnds, vars
  <2> QED
    BY <2>2, <2>3, <2>4
<1>3. \A c \in Connectors : /\ ConnectorAlive(c)' => ConnectorAlive(c)
                            /\ connector'[c].was = connector[c].was
  <2>1. ASSUME NEW c \in Connectors, NEW s \in Initiations, HandleAnswer(c, s),
               NEW d \in Connectors
        PROVE  /\ ConnectorAlive(d)' => ConnectorAlive(d)
               /\ connector'[d].was = connector[d].was
    BY <1>0, <2>1 DEF HandleAnswer, Goes, ConnectorAlive, ConnectorStates
  <2>2. CASE \/ \E s \in Sessions : Tick(s) \/ Receive(s)
             \/ \E t \in Threads : ThreadEnds(t)
             \/ UNCHANGED vars
    BY <2>2 DEF Tick, Receive, ThreadEnds, vars, ConnectorAlive
  <2> QED
    BY <2>1, <2>2
<1>4. Registrations'
  BY <1>1, <1>2, <1>3 DEF QuietParts, Registrations, ConnectorJoined
<1> QED
  BY <1>1, <1>2, <1>3, <1>4, SameCallQuiet

\* At most one connector thread runs.
LEMMA OneRuns ==
    ASSUME QuietParts, NEW c \in Connectors, NEW d \in Connectors,
           ConnectorAlive(c), ConnectorAlive(d)
    PROVE  c = d
<1>1. /\ inner.connector = c \/ (js.call = c /\ js.step = "handle")
      /\ inner.connector = d \/ (js.call = d /\ js.step = "handle")
      /\ js.step = "handle" => inner.connector = None
  BY DEF QuietParts, OneConnector
<1> QED
  BY <1>1, Names

\* The connector thread: it says that it is registered, or, connected anew, not yet.
LEMMA LoopQuiet ==
    ASSUME Typed, InTurn, QuietParts, NEW c \in Connectors, ConnectorLoop(c)
    PROVE  QuietParts'
<1>0. inner \in Inners /\ connector \in [Connectors -> ConnectorStates]
  BY DEF Typed
<1>1. /\ UNCHANGED <<usage, iceVars, js>> /\ ConnectorAlive(c)
      /\ inner' = inner \/ \E b \in BOOLEAN : inner' = [inner EXCEPT !.registered = b]
      /\ \A d \in Connectors \ {c} : connector'[d] = connector[d]
  BY ConnectorEffect
<1>2. /\ UNCHANGED <<inner.connector, inner.connector_tx, inner.handles>>
      /\ inner.agent = NoAgent => inner'.agent = NoAgent
  BY <1>0, <1>1 DEF Inners
<1>3. \A d \in Connectors : ConnectorAlive(d)' => ConnectorAlive(d)
  BY <1>1 DEF ConnectorAlive
<1>4. ~ConnectorJoined
  BY <1>1 DEF QuietParts, OneConnector, NoConnector
<1>5. CASE ConnectorRegisters(c)
  <2>1. ~connector[c].was /\ connector'[c].was /\ inner'.registered
    BY <1>0, <1>5 DEF ConnectorRegisters, Locked, ConnectorStates, Inners
  <2>2. js.step # "join connector"
    BY <1>1, <2>1 DEF QuietParts, Registrations
  <2>3. \A d \in Connectors : ConnectorAlive(d)' => d = c
    BY <1>1, <1>3, OneRuns
  <2>4. Registrations'
    BY <1>1, <1>4, <2>1, <2>2, <2>3 DEF Registrations, ConnectorJoined
  <2> QED
    BY <1>1, <1>2, <1>3, <2>4, SameCallQuiet DEF iceVars
<1>6. CASE \/ ConnectorDials(c) \/ ConnectorConnects(c) \/ ConnectorRefused(c)
           \/ ConnectorSends(c) \/ ConnectorStops(c) \/ ConnectorPolls(c) \/ OfferHandled(c)
           \/ BatchDone(c) \/ ConnectorLeaves(c)
  <2>1. connector'[c].was = connector[c].was
    BY <1>0, <1>6 DEF ConnectorDials, ConnectorConnects, ConnectorRefused, ConnectorSends,
       ConnectorStops, ConnectorPolls, OfferHandled, BatchDone, ConnectorLeaves, Goes,
       ConnectorStates
  <2>2. inner'.registered => inner.registered
    BY <1>0, <1>6 DEF ConnectorDials, ConnectorConnects, ConnectorRefused, ConnectorSends,
       ConnectorStops, ConnectorPolls, OfferHandled, BatchDone, ConnectorLeaves, Locked,
       Inners
  <2>3. \A d \in Connectors : connector'[d].was = connector[d].was
    BY <1>1, <2>1
  <2>4. Registrations'
    BY <1>1, <1>3, <2>2, <2>3 DEF QuietParts, Registrations, ConnectorJoined
  <2> QED
    BY <1>1, <1>2, <1>3, <2>4, SameCallQuiet DEF iceVars
<1> QED
  BY <1>5, <1>6 DEF ConnectorLoop

\* What every step of the JS thread has to show: no start is under way, and what
\* it says of the call it is in then is what Inner holds.
LEMMA JsQuiet ==
    ASSUME Typed, InTurn, QuietParts,
           UNCHANGED starter, js.step # "ready" \/ Settled,
           js'.closed => js'.step = "ready",
           OneConnector', Registrations', ThreadsGone', AgentGone'
    PROVE  QuietParts'
<1>1. \A s \in Sessions : ~Starting(s)
  BY DEF QuietParts, CallsAlone, Settled, InTurn
<1>2. CallsAlone'
  BY <1>1 DEF CallsAlone, Starting
<1> QED
  BY <1>2 DEF QuietParts

\* In a call nothing is closed, and before one every connector is registered.
LEMMA BeforeJs ==
    ASSUME Typed, InTurn, QuietParts, js.step # "ready" \/ Settled
    PROVE  /\ js.closed => js.step = "ready"
           /\ js.step # "handle" =>
                 \A c \in Connectors : ConnectorAlive(c) => connector[c].was
<1>1. js.closed => js.step = "ready"
  BY DEF QuietParts, CallsAlone
<1>2. ASSUME js.step # "handle", NEW c \in Connectors, ConnectorAlive(c)
      PROVE  connector[c].was
  <2>1. CASE js.step # "ready"
    BY <1>2, <2>1 DEF QuietParts, Registrations
  <2>2. CASE js.step = "ready"
    <3>1. inner.connector_tx = None \/ inner.registered
      BY <2>2 DEF Settled, InTurn
    <3>2. inner.connector_tx # None
      BY <1>2, <2>2 DEF QuietParts, OneConnector, NoConnector
    <3> QED
      BY <1>2, <3>1, <3>2 DEF QuietParts, Registrations
  <2> QED
    BY <2>1, <2>2
<1> QED
  BY <1>1, <1>2

\* The connector is told to stop: it no more counts as registered, and cannot say
\* so again, since it was.
LEMMA HaltConnectorQuiet ==
    ASSUME Typed, Dialling, InTurn, QuietParts,
           \/ CloseHaltConnector \/ CallDisconnectConnector
           \/ \E c \in Connectors : CallConnectConnector(c)
    PROVE  QuietParts'
<1>0. inner \in Inners /\ js \in JSStates
  BY DEF Typed
<1>1. /\ js'.step = "join connector" /\ ~js'.closed
      /\ \/ js.step = "ready" /\ Settled /\ js'.call # "close"
         \/ js.step = "halt connector" /\ js'.call = "close"
  <2>1. CASE CloseHaltConnector
    BY <1>0, <2>1 DEF CloseHaltConnector, Moves, JSStates, Dialling, QuietParts, CallsAlone
  <2>2. CASE CallDisconnectConnector
    BY <1>0, <2>2 DEF CallDisconnectConnector, StopCall, JSStates
  <2>3. ASSUME NEW c \in Connectors, CallConnectConnector(c) PROVE <1>1
    BY <1>0, <2>3, Names DEF CallConnectConnector, Call, JSStates
  <2> QED
    BY <2>1, <2>2, <2>3
<1>2. HaltConnector
  BY DEF CloseHaltConnector, CallDisconnectConnector, CallConnectConnector
<1>3. /\ ~inner'.registered /\ inner'.connector = inner.connector
      /\ inner'.handles = inner.handles
  BY <1>0, <1>2 DEF HaltConnector, Locked, Inners
<1>4. UNCHANGED <<connector, alive, starter>>
  BY <1>2 DEF HaltConnector
<1>5. \A c \in Connectors : ConnectorAlive(c) => /\ inner.connector = c
                                                 /\ connector[c].was
  BY <1>1, BeforeJs DEF QuietParts, OneConnector
<1>6. OneConnector'
  BY <1>1, <1>3, <1>4, <1>5 DEF OneConnector, ConnectorJoined, ConnectorAlive
<1>7. Registrations'
  BY <1>3, <1>4, <1>5 DEF Registrations, ConnectorAlive
<1>8. ThreadsGone' /\ AgentGone'
  BY <1>1, <1>3, <1>4 DEF QuietParts, ThreadsGone, ThreadsJoined, AgentGone
<1> QED
  BY <1>1, <1>4, <1>6, <1>7, <1>8, JsQuiet

\* It is joined, and gone.
LEMMA JoinConnectorQuiet ==
    ASSUME Typed, Dialling, InTurn, QuietParts, JoinConnector
    PROVE  QuietParts'
<1>0. inner \in Inners /\ js \in JSStates
  BY DEF Typed
<1>1. js.step = "join connector" /\ js'.call = js.call /\ js'.closed = js.closed
  BY <1>0 DEF JoinConnector, Moves, JSStates
<1>2. \/ js.call = "close" /\ js'.step = "drop"
      \/ js.call = "disconnect" /\ js'.step = "ready"
      \/ js.call \in Connectors /\ js'.step = "channel"
  <2>1. js'.step = CASE js.call = "close" -> "drop"
                     [] js.call = "disconnect" -> "ready"
                     [] OTHER -> "channel"
    BY <1>0 DEF JoinConnector, Moves, JSStates
  <2>2. js.call \in Connectors \cup {"close", "disconnect"}
    BY <1>1 DEF Dialling
  <2> QED
    BY <2>1, <2>2, Names
<1>3. ~js.closed
  BY <1>1 DEF QuietParts, CallsAlone
<1>4. /\ inner'.connector = None /\ inner'.registered = inner.registered
      /\ inner'.handles = inner.handles /\ UNCHANGED <<connector, alive, starter>>
  BY <1>0 DEF JoinConnector, Inners, iceVars
<1>5. NoConnector'
  <2>1. \A c \in Connectors : ConnectorAlive(c) => inner.connector = c
    BY <1>1 DEF QuietParts, OneConnector
  <2>2. inner.connector # None => ~ConnectorAlive(inner.connector)
    BY DEF JoinConnector
  <2>3. \A c \in Connectors : ~ConnectorAlive(c)
    BY <2>1, <2>2, Names
  <2> QED
    BY <1>4, <2>3 DEF NoConnector, ConnectorAlive
<1>6. ~inner'.registered
  BY <1>1, <1>4 DEF QuietParts, Registrations
<1>7. OneConnector'
  BY <1>2, <1>4, <1>5 DEF OneConnector, NoConnector
<1>8. Registrations'
  BY <1>5, <1>6 DEF Registrations, NoConnector
<1>9. ThreadsGone' /\ AgentGone'
  BY <1>1, <1>2, <1>3, <1>4 DEF QuietParts, ThreadsGone, ThreadsJoined, AgentGone
<1> QED
  BY <1>1, <1>3, <1>4, <1>7, <1>8, <1>9, JsQuiet

\* A new connector thread is the only one.
LEMMA DialQuiet ==
    ASSUME Typed, Dialling, InTurn, QuietParts,
           ConnectChannel \/ ConnectSpawn \/ ConnectHandle
    PROVE  QuietParts'
<1>0. inner \in Inners /\ js \in JSStates /\ connector \in [Connectors -> ConnectorStates]
  BY DEF Typed
<1>1. /\ js'.call = js.call /\ js'.closed = js.closed
      /\ \/ js.step = "channel" /\ js'.step = "spawn"
         \/ js.step = "spawn" /\ js'.step = "handle"
         \/ js.step = "handle" /\ js'.step = "ready"
  BY <1>0 DEF ConnectChannel, ConnectSpawn, ConnectHandle, Moves, JSStates
<1>2. js.call \in Connectors /\ ~js.closed
  BY <1>1 DEF Dialling, QuietParts, CallsAlone
<1>3. js.call # None /\ js.call # "close"
  BY <1>2, Names
<1>4. /\ inner'.handles = inner.handles /\ inner'.registered = inner.registered
      /\ UNCHANGED <<alive, starter>>
  BY <1>0 DEF ConnectChannel, ConnectSpawn, ConnectHandle, Locked, Inners, iceVars
<1>6. CASE ConnectChannel
  <2>1. js.step = "channel" /\ js'.step = "spawn"
    BY <1>0, <1>6 DEF ConnectChannel, Moves, JSStates
  <2>2. /\ inner'.connector_tx = js.call /\ inner'.connector = inner.connector
        /\ UNCHANGED connector
    BY <1>0, <1>6 DEF ConnectChannel, Locked, Inners
  <2>3. NoConnector /\ inner.connector = None /\ ~inner.registered
    BY <2>1 DEF QuietParts, OneConnector, Registrations, ConnectorJoined
  <2>4. NoConnector'
    BY <2>2, <2>3 DEF NoConnector, ConnectorAlive
  <2>5. OneConnector' /\ Registrations'
    BY <1>1, <1>4, <2>2, <2>3, <2>4 DEF OneConnector, NoConnector, Registrations
  <2>6. ThreadsGone' /\ AgentGone'
    BY <1>1, <1>2, <1>3, <2>1 DEF ThreadsGone, ThreadsJoined, AgentGone
  <2> QED
    BY <1>1, <1>2, <1>4, <2>5, <2>6, JsQuiet
<1>7. CASE ConnectSpawn
  <2>1. js.step = "spawn" /\ js'.step = "handle" /\ UNCHANGED inner
    BY <1>0, <1>7 DEF ConnectSpawn, Moves, JSStates
  <2>2. NoConnector /\ inner.connector = None /\ inner.connector_tx = js.call
        /\ ~inner.registered
    BY <2>1 DEF QuietParts, OneConnector, Registrations, ConnectorJoined
  <2>3. \A c \in Connectors : c # js.call => ~ConnectorAlive(c)'
    BY <1>0, <1>7, <2>2 DEF ConnectSpawn, NoConnector, ConnectorAlive
  <2>4. ~ConnectorJoined'
    BY <1>1, <1>2, <1>3, <2>1 DEF ConnectorJoined
  <2>5. OneConnector' /\ Registrations'
    BY <1>1, <1>2, <1>3, <2>1, <2>2, <2>3, <2>4 DEF OneConnector, Registrations
  <2>6. ThreadsGone' /\ AgentGone'
    BY <1>1, <1>2, <1>3, <2>1 DEF ThreadsGone, ThreadsJoined, AgentGone
  <2> QED
    BY <1>1, <1>2, <1>4, <2>5, <2>6, JsQuiet
<1>8. CASE ConnectHandle
  <2>1. js.step = "handle" /\ js'.step = "ready"
    BY <1>0, <1>8 DEF ConnectHandle, Moves, JSStates
  <2>2. /\ inner'.connector = js.call /\ inner'.connector_tx = inner.connector_tx
        /\ UNCHANGED connector
    BY <1>0, <1>8 DEF ConnectHandle, Locked, Inners
  <2>3. inner.connector_tx = js.call
        /\ \A c \in Connectors : ConnectorAlive(c) => js.call = c
    BY <2>1, Names DEF QuietParts, OneConnector
  <2>4. ~ConnectorJoined'
    BY <1>1, <1>2, <1>3, <2>1 DEF ConnectorJoined
  <2>5. OneConnector'
    BY <1>3, <2>1, <2>2, <2>3, <2>4 DEF OneConnector, ConnectorAlive
  <2>6. Registrations'
    BY <1>4, <2>1, <2>2, <2>4 DEF QuietParts, Registrations, ConnectorAlive
  <2>7. ThreadsGone' /\ AgentGone'
    BY <1>1, <1>2, <1>3, <2>1 DEF ThreadsGone, ThreadsJoined, AgentGone
  <2> QED
    BY <1>1, <1>2, <1>4, <2>5, <2>6, <2>7, JsQuiet
<1> QED
  BY <1>6, <1>7, <1>8

\* The way the client is used is chosen once.
LEMMA SameUsage == ASSUME Typed, [Next]_vars PROVE usage' = usage
<1>1. ASSUME NEW s \in Sessions, Start(s) PROVE usage' = usage
  BY <1>1, StartMoves
<1>2. ASSUME NEW c \in Connectors, ConnectorLoop(c) PROVE usage' = usage
  BY <1>2, ConnectorEffect
<1>3. CASE \/ JsStep \/ CallDisconnectConnector \/ CallStopIce \/ CallClose
           \/ \E c \in Connectors : CallConnectConnector(c)
  BY <1>3 DEF JsStep, CloseHaltConnector, JoinConnector, ConnectChannel, ConnectSpawn,
     ConnectHandle, ClientClosed, CloseHaltThreads, JsJoinThreads, JsDrop, CloseRelease,
     CallDisconnectConnector, CallStopIce, CallClose, CallConnectConnector, HaltConnector
<1>4. CASE \/ \E s \in Initiations : CallInitiate(s)
           \/ \E c \in Connectors, s \in Offers : HandleOffer(c, s)
           \/ \E c \in Connectors, s \in Initiations : HandleAnswer(c, s)
           \/ \E s \in Sessions : Tick(s) \/ Receive(s)
           \/ \E t \in Threads : ThreadEnds(t)
           \/ UNCHANGED vars
  BY <1>4 DEF CallInitiate, HandleOffer, HandleAnswer, Goes, Tick, Receive, ThreadEnds, vars
<1> QED
  BY <1>1, <1>2, <1>3, <1>4 DEF Next

\* The threads of the session are told to stop, and joined; Inner is closed first.
LEMMA CloseQuiet ==
    ASSUME Typed, Dialling, InTurn, QuietParts,
           CallStopIce \/ CloseHaltThreads \/ CallClose \/ ClientClosed
    PROVE  QuietParts'
<1>0. inner \in Inners /\ js \in JSStates
  BY DEF Typed
<1>1. /\ ~js'.closed /\ js'.call \in {"close", "stop"}
      /\ \/ js.step = "ready" /\ Settled /\ js'.step \in {"join", "client"}
         \/ js.step = "halt" /\ js'.step = "join"
         \/ js.step = "client" /\ js'.step = "halt"
  <2>1. CASE CallStopIce \/ CallClose
    BY <1>0, <2>1 DEF CallStopIce, CallClose, StopCall, JSStates
  <2>2. CASE CloseHaltThreads \/ ClientClosed
    BY <1>0, <2>2 DEF CloseHaltThreads, ClientClosed, Moves, JSStates, Dialling,
       QuietParts, CallsAlone
  <2> QED
    BY <2>1, <2>2
<1>2. /\ inner'.connector = inner.connector /\ inner'.connector_tx = inner.connector_tx
      /\ inner'.registered = inner.registered /\ UNCHANGED <<connector, starter>>
  BY <1>0 DEF CallStopIce, CloseHaltThreads, CallClose, ClientClosed, HaltThreads, Locked,
     Inners, iceVars
<1>3. js'.step = "join" => inner'.handles = {}
  <2>1. CASE CallStopIce \/ CloseHaltThreads
    BY <1>0, <2>1 DEF CallStopIce, CloseHaltThreads, HaltThreads, Locked, Inners
  <2>2. CASE CallClose \/ ClientClosed
    BY <1>0, <2>2 DEF CallClose, ClientClosed, StopCall, Moves, JSStates
  <2> QED
    BY <2>1, <2>2
<1>4. ~ConnectorJoined' /\ ~ThreadsJoined'
  BY <1>1 DEF ConnectorJoined, ThreadsJoined
<1>5. \A c \in Connectors : ConnectorAlive(c) => inner.connector = c /\ connector[c].was
  BY <1>1, BeforeJs DEF QuietParts, OneConnector
<1>6. OneConnector'
  BY <1>1, <1>2, <1>4, <1>5
  DEF QuietParts, OneConnector, NoConnector, ConnectorAlive
<1>7. Registrations'
  BY <1>1, <1>2, <1>4, <1>5 DEF Registrations, ConnectorAlive
<1>8. ThreadsGone' /\ AgentGone'
  BY <1>1, <1>3, <1>4 DEF ThreadsGone, AgentGone
<1> QED
  BY <1>1, <1>2, <1>6, <1>7, <1>8, JsQuiet

\* All threads that run were among the handles, and are gone when they are joined.
LEMMA JoinQuiet ==
    ASSUME Typed, Dialling, StartsInv, InTurn, QuietParts, JsJoinThreads
    PROVE  QuietParts'
<1>0. inner \in Inners /\ js \in JSStates
  BY DEF Typed
<1>1. /\ js.step = "join" /\ ~js'.closed /\ js'.call = js.call
      /\ \/ js.call = "close" /\ js'.step = "halt connector"
         \/ js.call # "close" /\ js'.step = "drop"
  <2>1. js.step = "join"
        /\ js' = [js EXCEPT !.step = IF js.call = "close" THEN "halt connector" ELSE "drop"]
    BY DEF JsJoinThreads, Moves
  <2>2. ~js.closed
    BY <2>1 DEF QuietParts, CallsAlone
  <2> QED
    BY <1>0, <2>1, <2>2 DEF JSStates
<1>2. /\ UNCHANGED <<inner, alive, starter, connector>>
      /\ \A t \in joining[JS] : ~Alive(t)
  BY DEF JsJoinThreads, JoinThreads
<1>3. alive = {} /\ inner.handles = {}
  <2>1. inner.handles = {} /\ \A s \in Sessions : ~Starting(s)
    BY <1>1 DEF QuietParts, ThreadsGone, CallsAlone
  <2>2. DOMAIN joining = Sessions \cup {JS} /\ alive \subseteq Threads
    BY DEF Typed
  <2>4. OneByOne
    BY DEF OneByOne, InTurn
  <2>5. \A j \in Sessions : joining[j] = {}
    BY <2>1, <2>4 DEF StartsInv, JoinsInStep, Starting
  <2>3. ASSUME NEW t \in alive PROVE FALSE
    <3>1. t \in Threads /\ t[1] \in Sessions
      BY <2>2, <2>3, ThreadNames
    <3>2. starter[t[1]] = 10 \/ \E j \in DOMAIN joining : t \in joining[j]
      BY <2>1, <2>3, <2>4, <3>1 DEF StartsInv, ThreadsAccounted, Alive
    <3>3. starter[t[1]] # 10
      BY <2>1, <3>1 DEF Starting
    <3>4. t \in joining[JS]
      BY <2>2, <2>5, <3>2, <3>3
    <3> QED
      BY <1>2, <2>3, <3>4 DEF Alive
  <2> QED
    BY <2>1, <2>3
<1>4. ~ConnectorJoined'
  BY <1>1 DEF ConnectorJoined
<1>5. OneConnector'
  BY <1>1, <1>2, <1>4
  DEF QuietParts, OneConnector, NoConnector, ConnectorAlive
<1>6. Registrations'
  BY <1>1, <1>2, <1>4 DEF QuietParts, Registrations, ConnectorAlive
<1>7. ThreadsGone' /\ AgentGone'
  BY <1>1, <1>2, <1>3 DEF ThreadsGone, AgentGone
<1> QED
  BY <1>1, <1>2, <1>5, <1>6, <1>7, JsQuiet

\* The agent is dropped, and what JS is told with is released.
LEMMA DropQuiet ==
    ASSUME Typed, Dialling, InTurn, QuietParts, JsDrop \/ CloseRelease
    PROVE  QuietParts'
<1>0. inner \in Inners /\ js \in JSStates
  BY DEF Typed
<1>1. /\ js.step \in {"drop", "release"} /\ js'.call = js.call
      /\ js'.closed => js'.step = "ready"
      /\ \/ js.step = "drop" /\ js.call = "close" /\ js'.step = "release" /\ ~js'.closed
         \/ js.step = "drop" /\ js.call # "close" /\ js'.step = "ready" /\ ~js'.closed
         \/ js.step = "release" /\ js.call = "close" /\ js'.step = "ready"
  <2>1. CASE JsDrop
    <3>1. js.step = "drop"
          /\ js' = [js EXCEPT !.step = IF js.call = "close" THEN "release" ELSE "ready"]
      BY <2>1 DEF JsDrop, Moves
    <3>2. ~js.closed
      BY <3>1 DEF QuietParts, CallsAlone
    <3> QED
      BY <1>0, <3>1, <3>2 DEF JSStates
  <2>2. CASE CloseRelease
    BY <1>0, <2>2 DEF CloseRelease, JSStates, Dialling
  <2> QED
    BY <2>1, <2>2
<1>2. /\ inner'.connector = inner.connector /\ inner'.connector_tx = inner.connector_tx
      /\ inner'.registered = inner.registered /\ inner'.handles = inner.handles
      /\ UNCHANGED <<connector, starter, alive>>
  BY <1>0 DEF JsDrop, DropAgent, CloseRelease, Locked, Inners, iceVars
<1>3. ConnectorJoined' => ConnectorJoined
  BY <1>1 DEF ConnectorJoined
<1>4. ThreadsJoined' => ThreadsJoined
  BY <1>1 DEF ThreadsJoined
<1>5. OneConnector'
  BY <1>1, <1>2, <1>3 DEF QuietParts, OneConnector, NoConnector, ConnectorAlive
<1>6. Registrations'
  BY <1>1, <1>2, <1>3 DEF QuietParts, Registrations, ConnectorAlive
<1>7. ThreadsGone'
  BY <1>1, <1>2, <1>4 DEF QuietParts, ThreadsGone
<1>8. AgentGone'
  <2>1. CASE JsDrop
    BY <1>0, <2>1 DEF JsDrop, DropAgent, Locked, Inners, AgentGone
  <2>2. CASE CloseRelease
    BY <2>2 DEF CloseRelease, QuietParts, AgentGone
  <2> QED
    BY <2>1, <2>2
<1> QED
  BY <1>1, <1>2, <1>5, <1>6, <1>7, <1>8, JsQuiet

\* The invariant of the calls in turn, for every usage.
THEOREM QuietInvariant == Spec => [](Typed /\ Dialling /\ StartsInv /\ QuietInv)
<1>1. Init => QuietInv
  BY DEF Init, QuietInv, QuietParts, CallsAlone, OneConnector, ConnectorJoined,
     NoConnector, Registrations, ThreadsGone, ThreadsJoined, AgentGone, ConnectorAlive,
     Starting
<1>2. Typed /\ Dialling /\ StartsInv /\ QuietInv /\ [Next]_vars => QuietInv'
  <2> SUFFICES ASSUME Typed, Dialling, StartsInv, QuietInv, [Next]_vars, InTurn'
               PROVE  QuietParts'
    BY DEF QuietInv
  <2>1. InTurn
    BY SameUsage DEF InTurn
  <2>2. QuietParts
    BY <2>1 DEF QuietInv
  <2> HIDE DEF InTurn
  <2> QED
    BY <2>1, <2>2, StartQuiet, SessionQuiet, LoopQuiet, HaltConnectorQuiet,
       JoinConnectorQuiet, DialQuiet, CloseQuiet, JoinQuiet, DropQuiet DEF Next, JsStep
<1> QED
  BY <1>1, <1>2, StartsInvariant, PTL DEF Spec

\* When calls and messages take turns, close() leaves no thread, no connector, no
\* agent and no registration behind, for any number of them.
THEOREM ClosedIsQuiet == Spec => []QuietWhenClosed
<1>1. QuietInv => QuietWhenClosed
  BY DEF QuietInv, QuietWhenClosed, InTurn, QuietParts, OneConnector, ConnectorJoined,
     NoConnector, Registrations, ThreadsGone, ThreadsJoined, AgentGone, Alive
<1> QED
  BY <1>1, QuietInvariant, PTL

----------------------------------------------------------------------------
(* Calls and messages in turn: an answer finds the agent it is for         *)

\* The peer has the description of i, or it is on its way.
Out(i) == i \in net.sent \/ \E c \in Connectors : i \in net.out[c]

\* A description is out after its send, and is answered when the peer has it.
SentInStep ==
    /\ \A i \in Initiations : Out(i) => starter[i] \in 6..11
    /\ net.answered \subseteq net.sent

\* Nothing of another session waits for an answer while a start is under way.
AnsweredBefore ==
    \A s \in Sessions, i \in Initiations :
        Starting(s) /\ Out(i) => i \in net.answered \/ i = s

\* While the answer is out, the agent that made the offer is there, or none is.
AgentWaits ==
    /\ \A i \in Initiations :
          Out(i) /\ i \notin net.answered => inner.agent = NoAgent \/ inner.agent.owner = i
    /\ \A i \in Initiations : starter[i] = 5 => inner.agent.owner = i

\* The agent has its own answer, if any.
OwnAnswer ==
    /\ inner.agent.remote \in {None, inner.agent.owner}
    /\ inner.agent.owner \in net.answered => inner.agent.remote = inner.agent.owner

AnswersParts == SentInStep /\ AnsweredBefore /\ AgentWaits /\ OwnAnswer

\* Inductive, with StartsInv and QuietInv.
AnswersInv == InTurn => AnswersParts

\* What sends and answers nothing and leaves the agent to its session.
LEMMA SameAnswers ==
    ASSUME AnswersParts, starter' = starter, net'.answered = net.answered,
           net.sent \subseteq net'.sent, \A i \in Initiations : Out(i)' => Out(i),
           inner'.agent.owner = inner.agent.owner,
           inner'.agent.remote = inner.agent.remote,
           inner.agent = NoAgent => inner'.agent = NoAgent
    PROVE  AnswersParts'
<1>1. SentInStep'
  BY DEF AnswersParts, SentInStep
<1>2. AnsweredBefore'
  BY DEF AnswersParts, AnsweredBefore, Starting
<1>3. AgentWaits'
  BY DEF AnswersParts, AgentWaits
<1>4. OwnAnswer'
  BY DEF AnswersParts, OwnAnswer
<1> QED
  BY <1>1, <1>2, <1>3, <1>4 DEF AnswersParts

\* A check changes the state of an agent, and neither its session nor its answer.
LEMMA CheckedSession ==
    ASSUME Typed, NEW to, NEW a \in Checked(to)
    PROVE  /\ a.owner = inner.agent.owner /\ a.remote = inner.agent.remote
           /\ inner.agent = NoAgent => a = NoAgent
<1>1. inner.agent \in Agents
  BY DEF Typed, Inners
<1>2. a = inner.agent \/ a = [inner.agent EXCEPT !.state = to]
  BY DEF Checked
<1>3. a.owner = inner.agent.owner /\ a.remote = inner.agent.remote
  BY <1>1, <1>2 DEF Agents, NoAgent
<1> QED
  BY <1>3, NoAgentChecked

\* The threads of a session and of the connector, and the JS thread, unless it
\* drops the agent.
LEMMA OtherAnswers ==
    ASSUME Typed, AnswersParts,
           \/ \E s \in Sessions : Tick(s) \/ Receive(s)
           \/ \E t \in Threads : ThreadEnds(t)
           \/ \E c \in Connectors : ConnectorLoop(c) \/ CallConnectConnector(c)
           \/ CloseHaltConnector \/ JoinConnector \/ ConnectChannel \/ ConnectSpawn
           \/ ConnectHandle \/ ClientClosed \/ CloseHaltThreads \/ JsJoinThreads
           \/ CloseRelease \/ CallDisconnectConnector \/ CallStopIce \/ CallClose
           \/ UNCHANGED vars
    PROVE  AnswersParts'
<1>0. inner \in Inners /\ net \in Nets
  BY DEF Typed
<1>1. ASSUME NEW to, NEW a \in Checked(to), inner' = [inner EXCEPT !.agent = a],
             UNCHANGED <<starter, net>>
      PROVE  AnswersParts'
  <2>1. inner'.agent = a
    BY <1>0, <1>1 DEF Inners
  <2>2. \A i \in Initiations : Out(i)' => Out(i)
    BY <1>1 DEF Out
  <2> QED
    BY <1>1, <2>1, <2>2, CheckedSession, SameAnswers
<1>2. ASSUME NEW s \in Sessions, Tick(s) \/ Receive(s) PROVE AnswersParts'
  BY <1>1, <1>2 DEF Tick, Receive, Locked
<1>3. ASSUME UNCHANGED <<starter, net>>, inner'.agent = inner.agent PROVE AnswersParts'
  <2>1. \A i \in Initiations : Out(i)' => Out(i)
    BY <1>3 DEF Out
  <2> QED
    BY <1>3, <2>1, SameAnswers
<1>4. CASE (\E t \in Threads : ThreadEnds(t)) \/ UNCHANGED vars
  BY <1>3, <1>4 DEF ThreadEnds, vars
<1>5. ASSUME NEW c \in Connectors, ConnectorLoop(c) PROVE AnswersParts'
  <2>1. starter' = starter /\ inner'.agent = inner.agent
    BY <1>0, <1>5, ConnectorEffect DEF iceVars, Inners
  <2>2. CASE net' = net
    BY <1>3, <2>1, <2>2
  <2>3. CASE ConnectorSends(c) \/ ConnectorLeaves(c)
    <3>1. /\ net'.answered = net.answered /\ net.sent \subseteq net'.sent
          /\ net'.sent \subseteq net.sent \cup net.out[c]
          /\ \A d \in Connectors : net'.out[d] \subseteq net.out[d]
      BY <1>0, <2>3 DEF ConnectorSends, ConnectorLeaves, Nets
    <3>2. \A i \in Initiations : Out(i)' => Out(i)
      BY <3>1 DEF Out
    <3> QED
      BY <2>1, <3>1, <3>2, SameAnswers
  <2> QED
    BY <1>5, <2>2, <2>3 DEF ConnectorLoop, ConnectorDials, ConnectorConnects,
       ConnectorRefused, ConnectorStops, ConnectorRegisters, ConnectorPolls,
       OfferHandled, BatchDone
<1>6. CASE \/ \E c \in Connectors : CallConnectConnector(c)
           \/ CloseHaltConnector \/ CallDisconnectConnector
  <2>1. HaltConnector
    BY <1>6 DEF CallConnectConnector, CloseHaltConnector, CallDisconnectConnector
  <2> QED
    BY <1>0, <1>3, <2>1 DEF HaltConnector, Locked, Inners
<1>7. CASE \/ JoinConnector \/ ConnectChannel \/ ConnectSpawn \/ ConnectHandle
           \/ ClientClosed \/ CloseRelease \/ CallClose
  <2>1. UNCHANGED <<starter, net>>
    BY <1>7 DEF JoinConnector, ConnectChannel, ConnectSpawn, ConnectHandle, ClientClosed,
       CloseRelease, CallClose, iceVars
  <2>2. inner'.agent = inner.agent
    BY <1>0, <1>7 DEF JoinConnector, ConnectChannel, ConnectSpawn, ConnectHandle,
       ClientClosed, CloseRelease, CallClose, Locked, Inners
  <2> QED
    BY <1>3, <2>1, <2>2
<1>8. CASE CloseHaltThreads \/ JsJoinThreads \/ CallStopIce
  <2>1. UNCHANGED <<starter, net>>
    BY <1>8 DEF CloseHaltThreads, JsJoinThreads, CallStopIce
  <2>2. inner'.agent = inner.agent
    BY <1>0, <1>8 DEF CloseHaltThreads, JsJoinThreads, CallStopIce, HaltThreads,
       JoinThreads, Locked, Inners
  <2> QED
    BY <1>3, <2>1, <2>2
<1> QED
  BY <1>2, <1>4, <1>5, <1>6, <1>7, <1>8

\* The JS thread drops the agent, when no start is under way.
LEMMA DropAnswers ==
    ASSUME Typed, QuietParts, AnswersParts, JsDrop
    PROVE  AnswersParts'
<1>1. /\ js.step = "drop" /\ UNCHANGED <<starter, net>> /\ inner'.agent = NoAgent
  BY DEF JsDrop, Moves, DropAgent, Locked, iceVars, Typed, Inners
<1>2. \A s \in Sessions : ~Starting(s)
  BY <1>1 DEF QuietParts, CallsAlone
<1>3. SentInStep' /\ AnsweredBefore'
  BY <1>1, <1>2 DEF AnswersParts, SentInStep, AnsweredBefore, Out, Starting
<1>4. AgentWaits'
  <2>1. \A i \in Initiations : starter[i] # 5
    BY <1>2, Names DEF Starting
  <2> QED
    BY <1>1, <2>1 DEF AgentWaits
<1>5. OwnAnswer'
  <2>1. None \notin net.answered
    BY Names DEF Typed, Nets
  <2> QED
    BY <1>1, <2>1 DEF OwnAnswer, NoAgent
<1> QED
  BY <1>3, <1>4, <1>5 DEF AnswersParts

\* The answer that comes is for the agent that is there, if one is.
LEMMA AnswerAnswers ==
    ASSUME Typed, AnswersParts, NEW c \in Connectors, NEW s \in Initiations,
           HandleAnswer(c, s)
    PROVE  AnswersParts'
<1>0. inner \in Inners /\ net \in Nets
  BY DEF Typed
<1>1. /\ s \in net.sent /\ s \notin net.answered /\ starter' = starter
      /\ net'.answered = net.answered \cup {s} /\ net'.sent = net.sent
      /\ net'.out = net.out
  BY <1>0 DEF HandleAnswer, Goes, iceVars, Nets
<1>2. Out(s) /\ \A i \in Initiations : Out(i)' <=> Out(i)
  BY <1>1 DEF Out
<1>3. inner.agent = NoAgent \/ inner.agent.owner = s
  BY <1>1, <1>2 DEF AnswersParts, AgentWaits
<1>4. \/ inner.agent = NoAgent /\ inner'.agent = NoAgent
      \/ /\ inner.agent # NoAgent /\ inner'.agent # NoAgent
         /\ inner.agent.owner = s /\ inner'.agent.owner = s /\ inner'.agent.remote = s
  <2>1. CASE inner.agent = NoAgent
    BY <2>1 DEF HandleAnswer, Locked
  <2>2. CASE inner.agent # NoAgent
    <3>1. inner.agent \in [owner : Sessions, state : States,
                           remote : Sessions \cup {None}]
      BY <1>0, <2>2 DEF Inners, Agents
    <3>2. inner'.agent = [[inner.agent EXCEPT !.remote = s] EXCEPT !.state = "Connecting"]
      BY <1>0, <2>2 DEF HandleAnswer, Locked, Inners
    <3>3. inner'.agent.owner = inner.agent.owner /\ inner'.agent.remote = s
      BY <3>1, <3>2
    <3>4. inner'.agent.remote # None
      BY <3>3, Names
    <3> QED
      BY <1>3, <2>2, <3>3, <3>4 DEF NoAgent
  <2> QED
    BY <2>1, <2>2
<1>5. SentInStep' /\ AnsweredBefore'
  BY <1>1, <1>2 DEF AnswersParts, SentInStep, AnsweredBefore, Starting
<1>6. AgentWaits'
  BY <1>1, <1>2, <1>4 DEF AnswersParts, AgentWaits
<1>7. OwnAnswer'
  <2>1. None \notin net'.answered
    BY <1>0, <1>1, Names DEF Nets
  <2> QED
    BY <1>4, <2>1 DEF OwnAnswer, NoAgent
<1> QED
  BY <1>5, <1>6, <1>7 DEF AnswersParts

\* A start begins when everything that went out is answered.
LEMMA BeginAnswers ==
    ASSUME Typed, InTurn, AnswersParts, NEW s \in Sessions,
           starter[s] = 0, starter' = [starter EXCEPT ![s] = 1], UNCHANGED net,
           inner' = inner, OneStart, Answered
    PROVE  AnswersParts'
<1>1. /\ \A r \in Sessions : ~Starting(r)
      /\ \A i \in Initiations : Out(i) => i \in net.answered
  BY Names DEF OneStart, Answered, InTurn, Out
<1>2. \A i \in Initiations : Out(i)' <=> Out(i)
  BY DEF Out
<1>3. \A r \in Sessions : starter'[r] = IF r = s THEN 1 ELSE starter[r]
  BY DEF Typed
<1>4. SentInStep'
  BY <1>2, <1>3, Names DEF AnswersParts, SentInStep
<1>5. AnsweredBefore'
  BY <1>1, <1>2 DEF AnsweredBefore
<1>6. AgentWaits'
  BY <1>1, <1>2, <1>3, Names DEF AnswersParts, AgentWaits
<1>7. OwnAnswer'
  BY DEF AnswersParts, OwnAnswer
<1> QED
  BY <1>4, <1>5, <1>6, <1>7 DEF AnswersParts

\* What a step of a start has to show.
LEMMA StartGoesOn ==
    ASSUME Typed, OneByOne, StartsInv, AnswersParts, NEW s \in Sessions, Start(s),
           net'.answered = net.answered, net'.sent = net.sent,
           \A i \in Initiations : Out(i)' => Out(i) \/ i = s,
           s \in Initiations /\ Out(s)' => starter'[s] \in 6..11,
           s \in Initiations /\ Out(s)' /\ s \notin net.answered =>
               inner'.agent = NoAgent \/ inner'.agent.owner = s,
           s \in Initiations /\ starter'[s] = 5 => inner'.agent.owner = s,
           OwnAnswer'
    PROVE  AnswersParts'
<1>1. /\ Starting(s) /\ \A r \in Sessions : r # s => starter'[r] = starter[r]
      /\ \A r \in Sessions : Starting(r) => r = s
  BY StartMoves DEF StartsInv, StartsInTurn, Typed
<1>2. \A r \in Sessions : Starting(r)' => r = s
  BY <1>1 DEF Starting
<1>3. \A i \in Initiations : Out(i)' => i \in net.answered \/ i = s
  BY <1>1 DEF AnswersParts, AnsweredBefore
<1>4. SentInStep'
  <2>1. ASSUME NEW i \in Initiations, Out(i)', i # s PROVE starter'[i] \in 6..11
    BY <1>1, <2>1, Names DEF AnswersParts, SentInStep
  <2> QED
    BY <2>1 DEF AnswersParts, SentInStep
<1>5. AnsweredBefore'
  BY <1>2, <1>3 DEF AnsweredBefore
<1>6. AgentWaits'
  <2>1. ASSUME NEW i \in Initiations, starter'[i] = 5 PROVE inner'.agent.owner = i
    <3>1. Starting(i)'
      BY <2>1 DEF Starting
    <3>2. i = s
      BY <1>2, <3>1, Names
    <3> QED
      BY <2>1, <3>2
  <2>2. ASSUME NEW i \in Initiations, Out(i)', i \notin net'.answered
        PROVE  inner'.agent = NoAgent \/ inner'.agent.owner = i
    BY <1>3, <2>2
  <2> QED
    BY <2>1, <2>2 DEF AgentWaits
<1> QED
  BY <1>4, <1>5, <1>6 DEF AnswersParts

\* The steps of a start: the old agent is dropped, a new one stored and its offer
\* sent after it.
LEMMA StartAnswers ==
    ASSUME Typed, OneByOne, StartsInv, AnswersParts, NEW s \in Sessions, Start(s)
    PROVE  AnswersParts'
<1>0. /\ inner \in Inners /\ net \in Nets /\ starter \in [Sessions -> 0..11]
      /\ s \in Initiations => s \notin Offers
  BY Names DEF Typed
<1>1. ASSUME NEW n \in 1..10, starter[s] = n, starter' = [starter EXCEPT ![s] = starter[s] + 1]
      PROVE  starter'[s] = n + 1
  BY <1>0, <1>1
<1>2. \A i \in Initiations : Out(i) => starter[i] \in 6..11
  BY DEF AnswersParts, SentInStep
<1>3. ASSUME net' = net, inner'.agent = inner.agent,
             s \in Initiations => /\ starter'[s] # 5
                                  /\ starter[s] \in 6..11 => starter'[s] \in 6..11
      PROVE  AnswersParts'
  <2>1. \A i \in Initiations : Out(i)' => Out(i)
    BY <1>3 DEF Out
  <2>2. OwnAnswer'
    BY <1>3 DEF AnswersParts, OwnAnswer
  <2>3. s \in Initiations /\ Out(s) /\ s \notin net.answered =>
            inner.agent = NoAgent \/ inner.agent.owner = s
    BY DEF AnswersParts, AgentWaits
  <2> QED
    BY <1>2, <1>3, <2>1, <2>2, <2>3, StartGoesOn
<1>4. ASSUME NEW step, At(s, step)
      PROVE  starter' = [starter EXCEPT ![s] = starter[s] + 1]
  BY <1>4 DEF At
<1>5. CASE StartHalt(s) \/ StartJoin(s) \/ StartFlag(s) \/ StartSpawn(s) \/ StartHandles(s)
  <2>1. starter[s] \in {1, 2, 6, 7, 8, 9, 10}
    BY <1>5, StartNumbers DEF StartHalt, StartJoin, StartFlag, StartSpawn, StartHandles
  <2>2. starter'[s] = starter[s] + 1
    BY <1>0, <1>4, <1>5 DEF StartHalt, StartJoin, StartFlag, StartSpawn, StartHandles
  <2>3. net' = net /\ inner'.agent = inner.agent
    BY <1>0, <1>5 DEF StartHalt, StartJoin, StartFlag, StartSpawn, StartHandles,
       HaltThreads, JoinThreads, NewFlag, Locked, Inners
  <2>4. starter'[s] # 5 /\ (starter[s] \in 6..11 => starter'[s] \in 6..11)
    BY <2>1, <2>2
  <2> QED
    BY <1>3, <2>3, <2>4
<1>6. CASE StartFails(s)
  <2>1. starter[s] = 4 /\ starter'[s] = 11 /\ net' = net /\ inner' = inner
    BY <1>0, <1>6 DEF StartFails
  <2> QED
    BY <1>3, <2>1
<1>7. CASE StartDrop(s)
  <2>1. starter[s] = 3 /\ starter'[s] = 4
    BY <1>1, <1>4, <1>7, StartNumbers DEF StartDrop
  <2>2. net' = net /\ inner'.agent = NoAgent
    BY <1>0, <1>7 DEF StartDrop, DropAgent, Locked, Inners
  <2>3. \A i \in Initiations : Out(i)' <=> Out(i)
    BY <2>2 DEF Out
  <2>4. s \in Initiations => ~Out(s)
    BY <1>2, <2>1
  <2>5. OwnAnswer'
    <3>1. None \notin net'.answered
      BY <1>0, <2>2, Names DEF Nets
    <3> QED
      BY <2>2, <3>1 DEF OwnAnswer, NoAgent
  <2> QED
    BY <2>1, <2>2, <2>3, <2>4, <2>5, StartGoesOn
<1>8. CASE StartStore(s)
  <2>1. net' = net /\ inner'.agent = NewAgent(s)
    BY <1>0, <1>8 DEF StartStore, Locked, Inners
  <2>2. s \in Initiations => starter[s] = 4 /\ starter'[s] = 5
    BY <1>0, <1>1, <1>4, <1>8, StartNumbers DEF StartStore
  <2>3. \A i \in Initiations : Out(i)' <=> Out(i)
    BY <2>1 DEF Out
  <2>4. s \in Initiations => ~Out(s)
    BY <1>2, <2>2
  <2>5. s \notin net.answered
    <3>1. net.answered \subseteq Initiations /\ \A i \in net.answered : Out(i)
      BY <1>0 DEF Nets, AnswersParts, SentInStep, Out
    <3> QED
      BY <2>4, <3>1
  <2>6. inner'.agent.owner = s /\ inner'.agent.remote \in {None, s}
    BY <2>1 DEF NewAgent
  <2>7. OwnAnswer'
    BY <2>1, <2>5, <2>6 DEF OwnAnswer
  <2> QED
    BY <2>1, <2>3, <2>4, <2>6, <2>7, StartGoesOn
<1>9. CASE StartSend(s)
  <2>1. /\ net'.answered = net.answered /\ net'.sent = net.sent /\ inner' = inner
        /\ \A c \in Connectors : net'.out[c] \subseteq net.out[c] \cup {s}
    BY <1>0, <1>9 DEF StartSend, Locked, Nets
  <2>2. s \in Initiations => starter[s] = 5 /\ starter'[s] = 6
    BY <1>0, <1>1, <1>4, <1>9, StartNumbers DEF StartSend
  <2>3. \A i \in Initiations : Out(i)' => Out(i) \/ i = s
    BY <2>1 DEF Out
  <2>4. s \in Initiations => inner.agent.owner = s
    BY <2>2 DEF AnswersParts, AgentWaits
  <2>5. OwnAnswer'
    BY <2>1 DEF AnswersParts, OwnAnswer
  <2> QED
    BY <2>1, <2>2, <2>3, <2>4, <2>5, StartGoesOn
<1> QED
  BY <1>5, <1>6, <1>7, <1>8, <1>9 DEF Start

\* The invariant of the answers, for every usage.
THEOREM AnswersInvariant ==
    Spec => [](Typed /\ Dialling /\ StartsInv /\ QuietInv /\ AnswersInv)
<1>1. Init => AnswersInv
  <2> SUFFICES ASSUME Init PROVE AnswersParts
    BY DEF AnswersInv
  <2>1. SentInStep /\ AnsweredBefore
    BY DEF Init, SentInStep, AnsweredBefore, Out, Starting
  <2>2. AgentWaits
    BY Names DEF Init, AgentWaits, Out
  <2>3. OwnAnswer
    BY DEF Init, OwnAnswer, NoAgent
  <2> QED
    BY <2>1, <2>2, <2>3 DEF AnswersParts
<1>2. Typed /\ StartsInv /\ QuietInv /\ AnswersInv /\ [Next]_vars => AnswersInv'
  <2> SUFFICES ASSUME Typed, StartsInv, QuietInv, AnswersInv, [Next]_vars, InTurn'
               PROVE  AnswersParts'
    BY DEF AnswersInv
  <2>1. InTurn /\ OneByOne
    BY SameUsage DEF InTurn, OneByOne
  <2>2. QuietParts /\ AnswersParts
    BY <2>1 DEF QuietInv, AnswersInv
  <2>3. ASSUME NEW s \in Initiations, CallInitiate(s) PROVE AnswersParts'
    <3>1. /\ starter[s] = 0 /\ starter' = [starter EXCEPT ![s] = 1] /\ UNCHANGED net
          /\ inner' = inner /\ OneStart /\ (InTurn => Answered)
      BY <2>3 DEF CallInitiate, Locked, MayInitiate, InTurn
    <3> QED
      BY <2>1, <2>2, <3>1, BeginAnswers, Names
  <2>4. ASSUME NEW c \in Connectors, NEW s \in Offers, HandleOffer(c, s)
        PROVE  AnswersParts'
    <3>1. /\ starter[s] = 0 /\ starter' = [starter EXCEPT ![s] = 1] /\ UNCHANGED net
          /\ inner' = inner /\ OneStart /\ (InTurn => Answered)
      BY <2>4 DEF HandleOffer, MayOffer, InTurn
    <3> QED
      BY <2>1, <2>2, <3>1, BeginAnswers, Names
  <2> HIDE DEF InTurn
  <2> QED
    BY <2>1, <2>2, <2>3, <2>4, OtherAnswers, DropAnswers, AnswerAnswers, StartAnswers
    DEF Next, JsStep
<1> QED
  BY <1>1, <1>2, QuietInvariant, PTL DEF Spec

\* When calls and messages take turns, no agent takes the answer to the offer of
\* another, and no answer comes before the agent it is for, for any number of them.
THEOREM AnswersReachTheirAgent == Spec => []AnswerTaken
<1>1. AnswersInv => AnswerTaken
  BY DEF AnswersInv, AnswerTaken, InTurn, AnswersParts, OwnAnswer
<1> QED
  BY <1>1, AnswersInvariant, PTL
=============================================================================
