------------------------------ MODULE IceAgent ------------------------------
(***************************************************************************)
(* The ICE agent of p2p-core (ice/agent.rs): a Sans-IO state machine.      *)
(* Each operator below is one handler, from the agent before to the agent  *)
(* after it; IceSession puts two agents and a datagram network around it.  *)
(*                                                                         *)
(* Time.  tick() sends on the pairs whose retransmission timer has run     *)
(* out.  Which ones those are is the argument `due` of OnTick: any subset  *)
(* of the pairs the other guards let through.                              *)
(*                                                                         *)
(* Transaction ids.  96 random bits in the code; here <<checklist, pair,   *)
(* number of the send>>, so that two different sends never share one.      *)
(***************************************************************************)
EXTENDS IceCheckList

CONSTANTS Candidate,          \* every candidate of an instance
          MAX_RETRANSMITS     \* sends of one pair before it is Failed

ASSUME AgentAssumption ==
    /\ MAX_RETRANSMITS \in Nat \ {0}
    /\ IsFiniteSet(Candidate)

IceStates ==
    {"New", "Gathering", "Connecting", "Connected", "Completed", "Failed", "Closed"}

\* States in which tick() returns at once.
Ended == {"Completed", "Failed", "Closed"}

TransactionIds == Nat \X Nat \X Nat

NoTid == <<0, 0, 0>>

PairEntry ==
    [local : Candidate, remote : Candidate, state : CheckStates,
     nominated : BOOLEAN, retransmit_count : 0..MAX_RETRANSMITS,
     transaction_id : TransactionIds]

Agent ==
    [state : IceStates, role : IceRoles, local_candidates : SUBSET Candidate,
     remote_candidates : SUBSET Candidate, remote_ufrag_set : BOOLEAN,
     check_list : Seq(PairEntry), checklists : Nat,
     nominated_pair_idx : Nat, nominated_pair_confirmed : BOOLEAN]

\* IceAgent::new, after the application added its local candidates.
NewAgent(role, locals) ==
    [state |-> "New", role |-> role, local_candidates |-> locals,
     remote_candidates |-> {}, remote_ufrag_set |-> FALSE,
     check_list |-> <<>>, checklists |-> 0,
     nominated_pair_idx |-> 0, nominated_pair_confirmed |-> FALSE]

----------------------------------------------------------------------------
(* Remote description and check list *)

AddRemoteCandidates(ag, cands) ==
    [ag EXCEPT !.remote_candidates = @ \cup cands]

SetRemoteSessionDescription(ag, cands) ==
    [AddRemoteCandidates(ag, cands) EXCEPT !.remote_ufrag_set = TRUE]

FreshPair(c) ==
    [local |-> c[1], remote |-> c[2], state |-> "Waiting", nominated |-> FALSE,
     retransmit_count |-> 0, transaction_id |-> NoTid]

CanStart(ag) ==
    /\ ag.remote_ufrag_set
    /\ ag.local_candidates # {}
    /\ ag.remote_candidates # {}

\* start_checks: a new check list.  Neither the nominated index nor the
\* confirmed flag of an earlier list is cleared.
StartChecksResults(ag) ==
    IF CanStart(ag)
    THEN { [ag EXCEPT !.state = "Connecting",
                      !.checklists = @ + 1,
                      !.check_list = [i \in DOMAIN cl |-> FreshPair(cl[i])]] :
             cl \in CheckLists(ag.local_candidates, ag.remote_candidates, ag.role) }
    ELSE { [ag EXCEPT !.state = "Failed"] }

----------------------------------------------------------------------------
(* The check cycle *)

\* Pairs tick() does not skip before it looks at their timer.
Sendable(ag) ==
    { i \in DOMAIN ag.check_list :
        /\ ag.state \notin Ended
        /\ ag.check_list[i].state \in {"Waiting", "InProgress"}
        /\ ag.nominated_pair_idx # 0 => ag.nominated_pair_idx = i }

NextTid(ag, i) == <<ag.checklists, i, ag.check_list[i].transaction_id[3] + 1>>

\* One (re)transmission: the last one allowed fails the pair as it is sent.
SentPair(ag, i) ==
    LET p == ag.check_list[i]
    IN  [p EXCEPT !.transaction_id = NextTid(ag, i),
                  !.retransmit_count = p.retransmit_count + 1,
                  !.state = IF p.retransmit_count + 1 >= MAX_RETRANSMITS
                            THEN "Failed" ELSE "InProgress"]

\* Mutant of CheckCompletion: the call at the end of tick() is missing.
CheckCompletionMissing(ag) == ag

CheckCompletion(ag) ==
    IF AllPairsFailed(ag.check_list) THEN [ag EXCEPT !.state = "Failed"] ELSE ag

OnTick(ag, due) ==
    IF ag.state \in Ended
    THEN ag
    ELSE CheckCompletion(
           [ag EXCEPT !.check_list =
              [i \in DOMAIN ag.check_list |->
                 IF i \in due THEN SentPair(ag, i) ELSE ag.check_list[i]]])

----------------------------------------------------------------------------
(* Incoming requests *)

\* Only a controlling agent that meets a controlling peer changes its role.
RoleAfterRequest(ag, controlling) ==
    IF controlling /\ ag.role = "Controlling" THEN "Controlled" ELSE ag.role

\* First pair with the request's source address as its remote candidate.
PairOfSource(ag, src) ==
    Position({ i \in DOMAIN ag.check_list : ag.check_list[i].remote.addr = src })

\* Mutant of MarkPair: every check moves the nominated index to its pair.
MarkPairMoving(ag, i, nominate) ==
    [ag EXCEPT !.check_list[i].state = "Succeeded",
               !.nominated_pair_idx = i,
               !.nominated_pair_confirmed = @ \/ nominate,
               !.state = IF nominate /\ ~ag.nominated_pair_confirmed
                         THEN "Completed" ELSE @]

MarkPair(ag, i, nominate) ==
    [ag EXCEPT !.check_list[i] =
                   [@ EXCEPT !.state = "Succeeded",
                             !.nominated = ag.check_list[i].nominated \/ nominate],
               !.nominated_pair_idx = IF nominate THEN i ELSE @,
               !.nominated_pair_confirmed = @ \/ nominate,
               !.state = IF nominate /\ ~ag.nominated_pair_confirmed
                         THEN "Completed" ELSE @]

RaiseConnected(ag, from) ==
    IF ag.state \in from THEN [ag EXCEPT !.state = "Connected"] ELSE ag

\* Mutant of OnRequest: Connected is raised first and whatever the state is.
OnRequestRaisesFirst(ag, src, controlling, use_candidate) ==
    LET r == [ag EXCEPT !.role = RoleAfterRequest(ag, controlling)]
        c == RaiseConnected(r, IceStates)
        i == PairOfSource(r, src)
    IN  IF i # 0
        THEN MarkPair(c, i, use_candidate /\ c.role = "Controlled")
        ELSE c

\* handle_incoming_stun for a request whose USERNAME matches.
OnRequest(ag, src, controlling, use_candidate) ==
    LET r == [ag EXCEPT !.role = RoleAfterRequest(ag, controlling)]
        i == PairOfSource(r, src)
        m == IF i # 0
             THEN MarkPair(r, i, use_candidate /\ r.role = "Controlled")
             ELSE r
    IN  RaiseConnected(m, {"New", "Gathering", "Connecting"})

----------------------------------------------------------------------------
(* Incoming responses *)

\* A 487 answer flips the role and puts the pairs in progress back to Waiting.
OnRoleConflict(ag) ==
    [ag EXCEPT
       !.role = IF @ = "Controlling" THEN "Controlled" ELSE "Controlling",
       !.check_list = [i \in DOMAIN @ |->
           IF @[i].state = "InProgress"
           THEN [@[i] EXCEPT !.state = "Waiting", !.retransmit_count = 0]
           ELSE @[i]]]

PairOfTid(ag, tid) ==
    Position({ i \in DOMAIN ag.check_list : ag.check_list[i].transaction_id = tid })

\* Mutant of NominateBest: nominating already confirms.
NominateBestConfirmed(ag) ==
    LET i == Position({ j \in DOMAIN ag.check_list :
                          ag.check_list[j].state = "Succeeded" })
    IN  IF i = 0
        THEN ag
        ELSE [ag EXCEPT !.check_list[i].nominated = TRUE,
                        !.nominated_pair_idx = i,
                        !.nominated_pair_confirmed = TRUE,
                        !.state = "Completed"]

\* Mutant of NominateBest: the pair is not put back in progress.
NominateBestSucceeded(ag) ==
    LET i == Position({ j \in DOMAIN ag.check_list :
                          ag.check_list[j].state = "Succeeded" })
    IN  IF i = 0
        THEN ag
        ELSE [ag EXCEPT !.check_list[i].retransmit_count = 0,
                        !.check_list[i].nominated = TRUE,
                        !.nominated_pair_idx = i]

\* nominate_best: the first succeeded pair goes back in progress, nominated;
\* it keeps the transaction id of the request it succeeded with.
NominateBest(ag) ==
    LET i == Position({ j \in DOMAIN ag.check_list :
                          ag.check_list[j].state = "Succeeded" })
    IN  IF i = 0
        THEN ag
        ELSE [ag EXCEPT !.check_list[i] = [@ EXCEPT !.state = "InProgress",
                                                   !.retransmit_count = 0,
                                                   !.nominated = TRUE],
                        !.nominated_pair_idx = i]

\* Mutant of ControllingProgress: every other success nominates again.
ControllingProgressAgain(ag, i) ==
    IF ag.role # "Controlling" \/ ag.nominated_pair_confirmed
    THEN ag
    ELSE IF ag.nominated_pair_idx = i
    THEN [ag EXCEPT !.nominated_pair_confirmed = TRUE, !.state = "Completed"]
    ELSE NominateBest(ag)

ControllingProgress(ag, i) ==
    IF ag.role # "Controlling" \/ ag.nominated_pair_confirmed
    THEN ag
    ELSE IF ag.nominated_pair_idx = i
    THEN [ag EXCEPT !.nominated_pair_confirmed = TRUE, !.state = "Completed"]
    ELSE IF ag.nominated_pair_idx = 0
    THEN NominateBest(ag)
    ELSE ag

\* handle_stun_response for a success response.
OnResponse(ag, tid) ==
    LET i == PairOfTid(ag, tid)
    IN  IF i = 0
        THEN ag
        ELSE RaiseConnected(
               ControllingProgress([ag EXCEPT !.check_list[i].state = "Succeeded"], i),
               {"Connecting"})

----------------------------------------------------------------------------
(* Teardown and data *)

\* Mutant of OnStop: the check list and the nomination survive.
OnStopKeepsList(ag) == [ag EXCEPT !.state = "Closed"]

OnStop(ag) ==
    [ag EXCEPT !.state = "Closed", !.check_list = <<>>, !.nominated_pair_idx = 0]

\* nominated_remote / send_data: whether there is a pair to send data on, and
\* the address the datagram goes to.
CanSend(ag) == ag.nominated_pair_idx \in DOMAIN ag.check_list

SendTarget(ag) == ag.check_list[ag.nominated_pair_idx].remote.addr
=============================================================================
