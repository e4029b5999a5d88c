----------------------------- MODULE IceSession -----------------------------
(***************************************************************************)
(* Two ICE agents and the UDP network between them.                        *)
(*                                                                         *)
(* Each agent is driven by two threads of its client, the 50 ms tick loop  *)
(* and the receive loop (p2p-sdk client.rs, start_ice_threads), which take *)
(* turns under the client's mutex, so a handler is one atomic step.  The   *)
(* descriptions travel by signalling and are taken as delivered.           *)
(***************************************************************************)
EXTENDS IceAgent

CONSTANTS Agents,         \* the two agents
          InitialRole,    \* [Agents -> IceRoles]
          Gathered,       \* [Agents -> SUBSET Candidate]: local candidates
          Described,      \* those of them in the description sent to the peer
          Source,         \* Source[a][c]: address the peer sees when a sends
                          \*   to the peer's candidate c, or NoRoute
          NoRoute,
          SplitStart,     \* agents whose application starts checks by a call
                          \*   of its own (iceAnswer of handle_signaling_message)
          Stoppers,       \* agents whose application may stop the agent
          MAX_STARTS,     \* bound: check lists built per agent
          MAX_LOST,       \* bound: datagrams the network loses
          MAX_COPIES,     \* bound: datagrams the network duplicates
          MAX_CONFLICTS   \* bound: 487 answers an agent receives

Addresses == {c.addr : c \in Candidate}

ASSUME SessionAssumption ==
    /\ InitialRole \in [Agents -> IceRoles]
    /\ Gathered \in [Agents -> SUBSET Candidate]
    /\ \A a, b \in Agents : a # b => Gathered[a] \cap Gathered[b] = {}
    /\ Described \in [Agents -> SUBSET Candidate]
    /\ \A a \in Agents : Described[a] \subseteq Gathered[a]
    /\ SplitStart \subseteq Agents /\ Stoppers \subseteq Agents
    /\ MAX_STARTS \in Nat /\ MAX_LOST \in Nat
    /\ MAX_COPIES \in Nat /\ MAX_CONFLICTS \in Nat
    /\ Source \in [Agents -> [Candidate -> Addresses \cup {NoRoute}]]
    /\ NoRoute \notin Addresses

VARIABLES agent,    \* [Agents -> Agent]
          net,      \* datagrams in flight
          faults    \* what the network and the peers did so far, for the bounds

vars == <<agent, net, faults>>

Peers(a) == Agents \ {a}

Faults == [lost : 0..MAX_LOST, copies : 0..MAX_COPIES, conflicts : 0..MAX_CONFLICTS]

----------------------------------------------------------------------------
(* Datagrams *)

Requests ==
    [type : {"request"}, from : Agents, to : Agents, src : Addresses,
     tid : TransactionIds, controlling : BOOLEAN, use_candidate : BOOLEAN,
     copy : Nat]

Responses == [type : {"response"}, to : Agents, tid : TransactionIds, copy : Nat]

Owner(c) == CHOOSE b \in Agents : c \in Gathered[b]

\* The request tick() builds for pair i, after the send was recorded in ag.
RequestOf(a, ag, i) ==
    LET c == ag.check_list[i].remote
    IN  [type |-> "request", from |-> a, to |-> Owner(c), src |-> Source[a][c],
         tid |-> ag.check_list[i].transaction_id,
         controlling |-> ag.role = "Controlling",
         use_candidate |-> ag.check_list[i].nominated, copy |-> 0]

\* A request to an address that nobody reaches is never in flight.
RequestsOf(a, ag, due) ==
    { m \in { RequestOf(a, ag, i) : i \in due } : m.src # NoRoute }

ResponseTo(m) ==
    [type |-> "response", to |-> m.from, tid |-> m.tid, copy |-> m.copy]

----------------------------------------------------------------------------

Init ==
    /\ agent = [a \in Agents |-> NewAgent(InitialRole[a], Gathered[a])]
    /\ net = {}
    /\ faults = [lost |-> 0, copies |-> 0, conflicts |-> 0]

(* The application and the signalling channel *)

SetRemoteDescription(a) ==
    /\ a \in SplitStart
    /\ \E b \in Peers(a) :
         agent' = [agent EXCEPT ![a] = SetRemoteSessionDescription(@, Described[b])]
    /\ UNCHANGED <<net, faults>>

StartChecks(a) ==
    /\ a \in SplitStart
    /\ agent[a].checklists < MAX_STARTS
    /\ \E next \in StartChecksResults(agent[a]) :
         agent' = [agent EXCEPT ![a] = next]
    /\ UNCHANGED <<net, faults>>

\* An offer or answer: description and start under one lock.
AcceptDescription(a) ==
    /\ a \notin SplitStart
    /\ agent[a].checklists < MAX_STARTS
    /\ \E b \in Peers(a) :
         \E next \in StartChecksResults(
                        SetRemoteSessionDescription(agent[a], Described[b])) :
           agent' = [agent EXCEPT ![a] = next]
    /\ UNCHANGED <<net, faults>>

\* An iceCandidate message: known to the agent, not added to its check list.
AddRemoteCandidate(a) ==
    /\ \E b \in Peers(a) : \E c \in Gathered[b] \ agent[a].remote_candidates :
         agent' = [agent EXCEPT ![a] = AddRemoteCandidates(@, {c})]
    /\ UNCHANGED <<net, faults>>

Stop(a) ==
    /\ a \in Stoppers
    /\ agent' = [agent EXCEPT ![a] = OnStop(@)]
    /\ UNCHANGED <<net, faults>>

(* The tick loop *)

TickOn(a, due) ==
    LET next == OnTick(agent[a], due)
    IN  /\ agent' = [agent EXCEPT ![a] = next]
        /\ net' = net \cup RequestsOf(a, next, due)
        /\ UNCHANGED faults

Tick(a) == \E due \in SUBSET Sendable(agent[a]) : TickOn(a, due)

(* The receive loop *)

ReceiveRequest(a) ==
    \E m \in net :
        /\ m.type = "request" /\ m.to = a
        /\ IF agent[a].remote_ufrag_set
           THEN /\ agent' = [agent EXCEPT ![a] =
                               OnRequest(@, m.src, m.controlling, m.use_candidate)]
                /\ net' = (net \ {m}) \cup {ResponseTo(m)}
           ELSE /\ net' = net \ {m}
                /\ UNCHANGED agent
        /\ UNCHANGED faults

ReceiveResponse(a) ==
    \E m \in net :
        /\ m.type = "response" /\ m.to = a
        /\ agent' = [agent EXCEPT ![a] = OnResponse(@, m.tid)]
        /\ net' = net \ {m}
        /\ UNCHANGED faults

\* No agent of this code sends a 487; a peer that does is the environment.
ReceiveRoleConflict(a) ==
    /\ faults.conflicts < MAX_CONFLICTS
    /\ agent' = [agent EXCEPT ![a] = OnRoleConflict(@)]
    /\ faults' = [faults EXCEPT !.conflicts = @ + 1]
    /\ UNCHANGED net

(* The network *)

Lose ==
    /\ faults.lost < MAX_LOST
    /\ \E m \in net : net' = net \ {m}
    /\ faults' = [faults EXCEPT !.lost = @ + 1]
    /\ UNCHANGED agent

Duplicate ==
    /\ faults.copies < MAX_COPIES
    /\ \E m \in net : net' = net \cup {[m EXCEPT !.copy = faults.copies + 1]}
    /\ faults' = [faults EXCEPT !.copies = @ + 1]
    /\ UNCHANGED agent

----------------------------------------------------------------------------

AgentStep(a) ==
    \/ SetRemoteDescription(a)
    \/ StartChecks(a)
    \/ AcceptDescription(a)
    \/ AddRemoteCandidate(a)
    \/ Stop(a)
    \/ Tick(a)
    \/ ReceiveRequest(a)
    \/ ReceiveResponse(a)
    \/ ReceiveRoleConflict(a)

Next ==
    \/ \E a \in Agents : AgentStep(a)
    \/ Lose
    \/ Duplicate

Spec == Init /\ [][Next]_vars

(* The tick loop runs every 50 ms and every timer it waits for is finite; the
   receive loop takes every datagram the socket delivers; signalling delivers. *)
Fairness ==
    \A a \in Agents :
        /\ WF_vars(AcceptDescription(a))
        /\ WF_vars(TickOn(a, Sendable(agent[a])))
        /\ WF_vars(ReceiveRequest(a))
        /\ WF_vars(ReceiveResponse(a))

FairSpec == Spec /\ Fairness

----------------------------------------------------------------------------
(* Correctness *)

\* The agents, the datagrams and the fault counters keep their types; in
\* particular no pair is sent more than MAX_RETRANSMITS times in a round.
TypeOK ==
    /\ agent \in [Agents -> Agent]
    /\ net \subseteq Requests \cup Responses
    /\ faults \in Faults

\* A controlling agent completes only after the peer took its nomination: the
\* peer has a confirmed pair, so data can flow both ways (handle_stun_response).
NominationAgreed ==
    \A a \in Agents : \A b \in Peers(a) :
        agent[a].state = "Completed" /\ agent[a].role = "Controlling"
            => agent[b].nominated_pair_confirmed

\* Agent d was checked from address s: the pair it looks up by s has succeeded.
HeardFrom(d, s) ==
    LET i == PairOfSource(d, s)
    IN  i # 0 /\ d.check_list[i].state = "Succeeded"

\* A controlling agent completes only on a path that carries both ways: the peer
\* heard a check over the nominated pair and its answer came back, also where
\* checks of both agents cross and come twice (handle_stun_response finds the
\* pair by transaction id; that a peer's check marked the pair is not enough).
CompletedIsHeard ==
    \A a \in Agents : \A b \in Peers(a) :
        agent[a].state = "Completed" /\ agent[a].role = "Controlling" =>
            /\ CanSend(agent[a])
            /\ HeardFrom(agent[b],
                   Source[a][agent[a].check_list[agent[a].nominated_pair_idx].remote])

\* A controlled agent confirms a pair only if the controlling one nominated one,
\* and it is the same path: b sends to the address a's nominated checks come
\* from (the first-match look-up by source address finds the right pair).
PathsMirror ==
    \A a \in Agents : \A b \in Peers(a) :
        agent[b].role = "Controlled" /\ agent[b].nominated_pair_confirmed =>
            /\ CanSend(agent[a]) /\ CanSend(agent[b])
            /\ Source[a][agent[a].check_list[agent[a].nominated_pair_idx].remote]
                   = SendTarget(agent[b])

\* Once an agent has a path, later requests, answers, failures and losses never
\* move its data to another address (send_data follows nominated_pair_idx).
PathIsStable ==
    [][\A a \in Agents :
          CanSend(agent[a]) =>
              CanSend(agent'[a]) /\ SendTarget(agent'[a]) = SendTarget(agent[a])]_vars

\* In one round of checks Completed is final: no late or repeated datagram
\* takes an agent back to Connected or on to Failed.
CompletedIsStable ==
    [][\A a \in Agents :
          agent[a].state = "Completed" => agent'[a].state = "Completed"]_vars

\* A stopped agent stays stopped and has nothing to send, whatever arrives,
\* until its checks are started again (test_tick_after_stop).
ClosedIsQuiet ==
    [][\A a \in Agents :
          agent[a].state = "Closed" /\ agent'[a].state # "Closed" =>
              \/ agent'[a].checklists > agent[a].checklists
              \/ ~CanStart(agent[a])]_vars

\* Checking ends: the tick loop brings every agent out of Connecting, to a
\* success or to Failed, whatever is lost.
ChecksEnd ==
    \A a \in Agents : agent[a].state = "Connecting" ~> agent[a].state # "Connecting"

\* A nomination is carried through: a connected agent with a nominated pair gets
\* USE-CANDIDATE to its peer and both complete, if no datagram is lost
\* (test_loopback_handshake: "Full loopback: controlling + controlled agents
\* complete handshake.").
NominationCompletes ==
    \A a \in Agents :
        agent[a].state = "Connected" /\ agent[a].nominated_pair_idx # 0
            ~> \/ \A b \in Agents : agent[b].state = "Completed"
               \/ faults.lost > 0

----------------------------------------------------------------------------
(* Nomination, seen from outside *)

PathOf(a) ==
    IF CanSend(agent[a])
    THEN Source[a][agent[a].check_list[agent[a].nominated_pair_idx].remote]
    ELSE NoRoute

ControllingAgent == CHOOSE a \in Agents : InitialRole[a] = "Controlling"

ControlledAgent == CHOOSE a \in Agents : InitialRole[a] = "Controlled"

ChosenPath == PathOf(ControllingAgent)

AdoptedPath ==
    IF agent[ControlledAgent].nominated_pair_confirmed /\ CanSend(agent[ControlledAgent])
    THEN SendTarget(agent[ControlledAgent])
    ELSE NoRoute

Promise == INSTANCE Nomination WITH
    Paths <- Addresses, None <- NoRoute, chosen <- ChosenPath, adopted <- AdoptedPath

\* The session implements nomination as promised: one path chosen once, the
\* same path adopted once, over a network that loses, repeats and reorders.
NominationPromise == Promise!Spec
=============================================================================
