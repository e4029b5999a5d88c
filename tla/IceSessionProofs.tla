-------------------------- MODULE IceSessionProofs --------------------------
(***************************************************************************)
(* The session keeps its types, for any number of agents, any candidates,  *)
(* any reachability and any bounds.  TypeOK alone is not inductive: that a *)
(* request has an addressee rests on every pair's remote candidate being   *)
(* one a peer gathered, and that a pair is sent at most MAX_RETRANSMITS    *)
(* times on PairOK.                                                        *)
(***************************************************************************)
EXTENDS IceSession, FiniteSetTheorems, WellFoundedInduction, TLAPS

----------------------------------------------------------------------------
(* What each handler of the agent preserves: its types and bounds          *)
(* (AgentOK), and the parts of the agent it leaves alone.                  *)

\* A pair that may still be sent has sends left.
PairOK(p) ==
    /\ p \in PairEntry
    /\ p.state \in {"Waiting", "InProgress"} => p.retransmit_count < MAX_RETRANSMITS

AgentOK(ag) ==
    /\ ag \in Agent
    /\ \A i \in DOMAIN ag.check_list : PairOK(ag.check_list[i])

\* The pairs are the same ones, with the same nomination flags.
SamePairs(old, new) ==
    /\ DOMAIN new.check_list = DOMAIN old.check_list
    /\ \A i \in DOMAIN old.check_list :
         /\ new.check_list[i].remote = old.check_list[i].remote
         /\ new.check_list[i].nominated = old.check_list[i].nominated

\* Candidates, description and number of check lists are the same.
SameSetup(old, new) ==
    /\ new.remote_candidates = old.remote_candidates
    /\ new.remote_ufrag_set = old.remote_ufrag_set
    /\ new.local_candidates = old.local_candidates
    /\ new.checklists = old.checklists

----------------------------------------------------------------------------

\* A position that is found is a member of the set searched.
LEMMA PositionInSet ==
    ASSUME NEW S
    PROVE  Position(S) = 0 \/ Position(S) \in S
  BY DEF Position

\* The fields of a pair, one by one.
LEMMA PairFields ==
    ASSUME NEW p, PairOK(p)
    PROVE  /\ p.local \in Candidate /\ p.remote \in Candidate
           /\ p.state \in CheckStates /\ p.nominated \in BOOLEAN
           /\ p.retransmit_count \in 0..MAX_RETRANSMITS
           /\ p.transaction_id \in TransactionIds
  BY DEF PairOK, PairEntry

\* A pair put back in line may be sent again.
LEMMA FreshCount == 0 \in 0..MAX_RETRANSMITS /\ 0 < MAX_RETRANSMITS
  BY AgentAssumption

\* Replacing entries of a check list by well-formed ones keeps it well-formed.
LEMMA ListOK ==
    ASSUME NEW ag, AgentOK(ag),
           NEW list, DOMAIN list = DOMAIN ag.check_list,
           list = [i \in DOMAIN list |-> list[i]],
           \A i \in DOMAIN list : PairOK(list[i])
    PROVE  list \in Seq(PairEntry)
<1>1. PICK n \in Nat : DOMAIN ag.check_list = 1..n
  BY DEF AgentOK, Agent
<1>2. \A i \in 1..n : list[i] \in PairEntry
  BY <1>1 DEF PairOK
<1>3. list \in [1..n -> PairEntry]
  BY <1>1, <1>2
<1> QED
  BY <1>3

\* Sending a check keeps a pair well-formed (agent.rs, tick), below the bound on its sends.
LEMMA SentPairOK ==
    ASSUME NEW ag, AgentOK(ag), NEW i \in Sendable(ag)
    PROVE  /\ PairOK(SentPair(ag, i))
           /\ SentPair(ag, i).remote = ag.check_list[i].remote
           /\ SentPair(ag, i).nominated = ag.check_list[i].nominated
<1> DEFINE p == ag.check_list[i]
<1>1. PairOK(p) /\ p.state \in {"Waiting", "InProgress"} /\ i \in DOMAIN ag.check_list
  BY DEF AgentOK, Sendable
<1>2. p.retransmit_count + 1 \in 0..MAX_RETRANSMITS
  BY <1>1, AgentAssumption DEF PairOK, PairEntry
<1>3. NextTid(ag, i) \in TransactionIds
  <2>1. ag.checklists \in Nat /\ i \in Nat
    BY <1>1 DEF AgentOK, Agent
  <2>2. p.transaction_id[3] \in Nat
    BY <1>1 DEF PairOK, PairEntry, TransactionIds
  <2> QED
    BY <2>1, <2>2 DEF NextTid, TransactionIds
<1>4. SentPair(ag, i) \in PairEntry
  BY <1>1, <1>2, <1>3 DEF SentPair, PairOK, PairEntry, CheckStates
<1>5. SentPair(ag, i).state \in {"Waiting", "InProgress"}
         => SentPair(ag, i).retransmit_count < MAX_RETRANSMITS
  BY <1>1, <1>2, AgentAssumption DEF SentPair, PairOK, PairEntry
<1> QED
  BY <1>1, <1>4, <1>5 DEF PairOK, SentPair, PairEntry

\* The completion test changes nothing but the state, and only to Failed.
LEMMA CheckCompletionOK ==
    ASSUME NEW ag, AgentOK(ag)
    PROVE  /\ AgentOK(CheckCompletion(ag))
           /\ CheckCompletion(ag) \in {ag, [ag EXCEPT !.state = "Failed"]}
<1>1. [ag EXCEPT !.state = "Failed"] \in Agent
  BY DEF AgentOK, Agent, IceStates
<1>2. [ag EXCEPT !.state = "Failed"].check_list = ag.check_list
  BY DEF AgentOK, Agent
<1> QED
  BY <1>1, <1>2 DEF CheckCompletion, AgentOK

\* tick(): no pair, candidate, role or nomination changes, and no pair is sent
\* more often than MAX_RETRANSMITS allows.
LEMMA OnTickOK ==
    ASSUME NEW ag, AgentOK(ag), NEW due \in SUBSET Sendable(ag)
    PROVE  LET next == OnTick(ag, due)
           IN  /\ AgentOK(next)
               /\ SamePairs(ag, next) /\ SameSetup(ag, next)
               /\ next.role = ag.role
               /\ next.nominated_pair_idx = ag.nominated_pair_idx
               /\ next.nominated_pair_confirmed = ag.nominated_pair_confirmed
               /\ ag.state \in Ended => next = ag
               /\ next.state \in {ag.state, "Failed"}
<1> DEFINE list == [i \in DOMAIN ag.check_list |->
                      IF i \in due THEN SentPair(ag, i) ELSE ag.check_list[i]]
           sent == [ag EXCEPT !.check_list = list]
<1>1. CASE ag.state \in Ended
  BY <1>1 DEF OnTick, SamePairs, SameSetup
<1>2. CASE ag.state \notin Ended
  <2>1. /\ DOMAIN list = DOMAIN ag.check_list
        /\ \A i \in DOMAIN list :
             /\ PairOK(list[i])
             /\ list[i].remote = ag.check_list[i].remote
             /\ list[i].nominated = ag.check_list[i].nominated
    BY SentPairOK DEF AgentOK
  <2>2. list \in Seq(PairEntry)
    BY <2>1, ListOK
  <2>3. sent \in Agent /\ sent.check_list = list
    BY <2>2 DEF AgentOK, Agent
  <2>4. AgentOK(sent)
    BY <2>1, <2>3 DEF AgentOK
  <2>5. /\ sent.role = ag.role
        /\ sent.nominated_pair_idx = ag.nominated_pair_idx
        /\ sent.nominated_pair_confirmed = ag.nominated_pair_confirmed
        /\ sent.state = ag.state
        /\ SamePairs(ag, sent) /\ SameSetup(ag, sent)
    BY <2>1, <2>3 DEF AgentOK, Agent, SamePairs, SameSetup
  <2>6. OnTick(ag, due) = CheckCompletion(sent)
    BY <1>2 DEF OnTick
  <2>7. /\ AgentOK(CheckCompletion(sent))
        /\ CheckCompletion(sent) \in {sent, [sent EXCEPT !.state = "Failed"]}
    BY <2>4, CheckCompletionOK
  <2>8. CASE CheckCompletion(sent) = sent
    BY <1>2, <2>5, <2>6, <2>7, <2>8 DEF SamePairs, SameSetup
  <2>9. CASE CheckCompletion(sent) = [sent EXCEPT !.state = "Failed"]
    <3> DEFINE failed == [sent EXCEPT !.state = "Failed"]
    <3>1. /\ failed.check_list = sent.check_list /\ failed.role = sent.role
          /\ failed.nominated_pair_idx = sent.nominated_pair_idx
          /\ failed.nominated_pair_confirmed = sent.nominated_pair_confirmed
          /\ failed.state = "Failed" /\ SameSetup(sent, failed)
      BY <2>3 DEF Agent, SameSetup
    <3>2. SamePairs(ag, failed) /\ SameSetup(ag, failed)
      BY <2>5, <3>1 DEF SamePairs, SameSetup
    <3> QED
      BY <1>2, <2>5, <2>6, <2>7, <2>9, <3>1, <3>2
  <2> QED
    BY <2>7, <2>8, <2>9
<1> QED
  BY <1>1, <1>2

\* The pair found by the source of a request has that remote address.
LEMMA PairOfSourceFound ==
    ASSUME NEW ag, NEW src, PairOfSource(ag, src) # 0
    PROVE  /\ PairOfSource(ag, src) \in DOMAIN ag.check_list
           /\ ag.check_list[PairOfSource(ag, src)].remote.addr = src
<1> DEFINE S == { i \in DOMAIN ag.check_list : ag.check_list[i].remote.addr = src }
<1>1. PairOfSource(ag, src) \in S
  BY PositionInSet DEF PairOfSource
<1> QED
  BY <1>1

\* A pair marked by a request: it is Succeeded, and nominated if asked for.
LEMMA MarkPairOK ==
    ASSUME NEW ag, AgentOK(ag), NEW i \in DOMAIN ag.check_list,
           NEW nominate \in BOOLEAN
    PROVE  LET next == MarkPair(ag, i, nominate)
           IN  /\ AgentOK(next) /\ SameSetup(ag, next)
               /\ DOMAIN next.check_list = DOMAIN ag.check_list
               /\ \A j \in DOMAIN ag.check_list :
                    /\ next.check_list[j].remote = ag.check_list[j].remote
                    /\ next.check_list[j].nominated <=>
                         (ag.check_list[j].nominated \/ (j = i /\ nominate))
               /\ next.role = ag.role
               /\ next.nominated_pair_idx =
                    IF nominate THEN i ELSE ag.nominated_pair_idx
               /\ next.nominated_pair_confirmed <=>
                    (ag.nominated_pair_confirmed \/ nominate)
               /\ next.state = IF nominate /\ ~ag.nominated_pair_confirmed
                               THEN "Completed" ELSE ag.state
<1> DEFINE next == MarkPair(ag, i, nominate)
           p == [ag.check_list[i] EXCEPT !.state = "Succeeded",
                    !.nominated = ag.check_list[i].nominated \/ nominate]
           list == [ag.check_list EXCEPT ![i] = p]
<1>1. PairOK(ag.check_list[i])
  BY DEF AgentOK
<1>2. /\ PairOK(p) /\ p.remote = ag.check_list[i].remote
      /\ p.nominated <=> (ag.check_list[i].nominated \/ nominate)
  BY <1>1 DEF PairOK, PairEntry, CheckStates
<1>3. /\ DOMAIN list = DOMAIN ag.check_list
      /\ list = [j \in DOMAIN list |-> list[j]]
      /\ \A j \in DOMAIN list : PairOK(list[j])
  <2>1. PairOK(p)
    BY <1>2
  <2> HIDE DEF p
  <2>2. /\ DOMAIN list = DOMAIN ag.check_list
        /\ \A j \in DOMAIN list : list[j] = IF j = i THEN p ELSE ag.check_list[j]
    OBVIOUS
  <2>3. list = [j \in DOMAIN list |-> list[j]]
    OBVIOUS
  <2> QED
    BY <2>1, <2>2, <2>3 DEF AgentOK
<1>4. list \in Seq(PairEntry)
  BY <1>3, ListOK
<1> DEFINE idx == IF nominate THEN i ELSE ag.nominated_pair_idx
           confirmed == ag.nominated_pair_confirmed \/ nominate
           st == IF nominate /\ ~ag.nominated_pair_confirmed
                 THEN "Completed" ELSE ag.state
           flat == [ag EXCEPT !.check_list = list,
                              !.nominated_pair_idx = IF nominate THEN i ELSE @,
                              !.nominated_pair_confirmed = @ \/ nominate,
                              !.state = IF nominate /\ ~ag.nominated_pair_confirmed
                                        THEN "Completed" ELSE @]
<1>5. idx \in Nat /\ confirmed \in BOOLEAN /\ st \in IceStates
  <2>1. i \in Nat
    BY DEF AgentOK, Agent
  <2>2. ag.nominated_pair_idx \in Nat /\ ag.state \in IceStates
    BY DEF AgentOK, Agent
  <2> QED
    BY <2>1, <2>2 DEF IceStates
<1>6. next = flat
  BY Zenon DEF MarkPair
<1>9. flat = [ag EXCEPT !.check_list = list, !.nominated_pair_idx = idx,
                        !.nominated_pair_confirmed = confirmed, !.state = st]
  <2> HIDE DEF list
  <2> QED
    BY DEF AgentOK, Agent
<1> HIDE DEF idx, confirmed, st, list, flat
<1>8. /\ flat \in Agent /\ flat.check_list = list /\ SameSetup(ag, flat)
      /\ flat.role = ag.role /\ flat.nominated_pair_idx = idx
      /\ flat.nominated_pair_confirmed = confirmed /\ flat.state = st
  BY <1>4, <1>5, <1>9 DEF AgentOK, Agent, SameSetup
<1> USE DEF idx, confirmed, st, list
<1>7. \A j \in DOMAIN ag.check_list :
        /\ list[j].remote = ag.check_list[j].remote
        /\ list[j].nominated <=> (ag.check_list[j].nominated \/ (j = i /\ nominate))
  BY <1>1, <1>2 DEF AgentOK, PairOK, PairEntry
<1> QED
  BY <1>3, <1>6, <1>7, <1>8 DEF AgentOK

\* Reporting Connected keeps pairs, role and nomination.
LEMMA RaiseConnectedOK ==
    ASSUME NEW ag, AgentOK(ag), NEW from
    PROVE  LET next == RaiseConnected(ag, from)
           IN  /\ AgentOK(next) /\ SameSetup(ag, next)
               /\ next.check_list = ag.check_list
               /\ next.role = ag.role
               /\ next.nominated_pair_idx = ag.nominated_pair_idx
               /\ next.nominated_pair_confirmed = ag.nominated_pair_confirmed
               /\ next.state = IF ag.state \in from THEN "Connected" ELSE ag.state
<1> DEFINE up == [ag EXCEPT !.state = "Connected"]
<1>1. /\ up \in Agent /\ up.check_list = ag.check_list /\ up.role = ag.role
      /\ up.nominated_pair_idx = ag.nominated_pair_idx
      /\ up.nominated_pair_confirmed = ag.nominated_pair_confirmed
      /\ up.state = "Connected" /\ SameSetup(ag, up)
  BY DEF AgentOK, Agent, IceStates, SameSetup
<1>2. AgentOK(up)
  BY <1>1 DEF AgentOK
<1> QED
  BY <1>1, <1>2 DEF RaiseConnected, SameSetup

\* Whether a request nominates the pair of its source.
Nominates(ag, src, use_candidate, next) ==
    PairOfSource(ag, src) # 0 /\ use_candidate /\ next.role = "Controlled"

\* What a request does to the agent's nomination.
RequestEffect(ag, src, controlling, use_candidate, next) ==
    /\ next.role = RoleAfterRequest(ag, controlling)
    /\ DOMAIN next.check_list = DOMAIN ag.check_list
    /\ \A j \in DOMAIN ag.check_list :
         /\ next.check_list[j].remote = ag.check_list[j].remote
         /\ next.check_list[j].nominated <=>
              \/ ag.check_list[j].nominated
              \/ j = PairOfSource(ag, src) /\ Nominates(ag, src, use_candidate, next)
    /\ next.nominated_pair_idx =
         IF Nominates(ag, src, use_candidate, next)
         THEN PairOfSource(ag, src) ELSE ag.nominated_pair_idx
    /\ next.nominated_pair_confirmed <=>
         (ag.nominated_pair_confirmed \/ Nominates(ag, src, use_candidate, next))
    /\ next.state =
         IF Nominates(ag, src, use_candidate, next) /\ ~ag.nominated_pair_confirmed
         THEN "Completed"
         ELSE IF ag.state \in {"New", "Gathering", "Connecting"}
              THEN "Connected" ELSE ag.state

\* A request marks at most the pair of its source, and nominates it exactly if
\* it carries USE-CANDIDATE and the agent is controlled.
LEMMA OnRequestOK ==
    ASSUME NEW ag, AgentOK(ag), NEW src, NEW controlling, NEW use_candidate,
           controlling \in BOOLEAN, use_candidate \in BOOLEAN
    PROVE  LET next == OnRequest(ag, src, controlling, use_candidate)
           IN  /\ AgentOK(next) /\ SameSetup(ag, next)
               /\ RequestEffect(ag, src, controlling, use_candidate, next)
<1> DEFINE r == [ag EXCEPT !.role = RoleAfterRequest(ag, controlling)]
           i == PairOfSource(ag, src)
           wanted == use_candidate /\ r.role = "Controlled"
           m == IF i # 0 THEN MarkPair(r, i, wanted) ELSE r
<1>1. RoleAfterRequest(ag, controlling) \in IceRoles
  BY DEF RoleAfterRequest, AgentOK, Agent, IceRoles
<1>2. /\ r \in Agent /\ r.check_list = ag.check_list
      /\ r.role = RoleAfterRequest(ag, controlling)
      /\ r.nominated_pair_idx = ag.nominated_pair_idx
      /\ r.nominated_pair_confirmed = ag.nominated_pair_confirmed
      /\ r.state = ag.state /\ SameSetup(ag, r)
  BY <1>1 DEF AgentOK, Agent, SameSetup
<1>3. AgentOK(r)
  BY <1>2 DEF AgentOK
<1>4. PairOfSource(r, src) = i
  BY <1>2 DEF PairOfSource
<1>5. OnRequest(ag, src, controlling, use_candidate)
        = RaiseConnected(m, {"New", "Gathering", "Connecting"})
  BY <1>4 DEF OnRequest
<1> DEFINE nominate == i # 0 /\ wanted
<1>6. /\ AgentOK(m) /\ SameSetup(ag, m) /\ m.role = r.role
      /\ DOMAIN m.check_list = DOMAIN ag.check_list
      /\ \A j \in DOMAIN ag.check_list :
           /\ m.check_list[j].remote = ag.check_list[j].remote
           /\ m.check_list[j].nominated <=>
                (ag.check_list[j].nominated \/ (j = i /\ nominate))
      /\ m.nominated_pair_idx = IF nominate THEN i ELSE ag.nominated_pair_idx
      /\ m.nominated_pair_confirmed <=> (ag.nominated_pair_confirmed \/ nominate)
      /\ m.state = IF nominate /\ ~ag.nominated_pair_confirmed
                   THEN "Completed" ELSE ag.state
  <2>1. CASE i = 0
    <3>1. m = r /\ ~nominate
      BY <2>1
    <3>2. \A j \in DOMAIN ag.check_list : ag.check_list[j].nominated \in BOOLEAN
      BY DEF AgentOK, PairOK, PairEntry
    <3>3. ag.nominated_pair_confirmed \in BOOLEAN
      BY DEF AgentOK, Agent
    <3> HIDE DEF m, nominate, r, i
    <3> QED
      BY <1>2, <1>3, <3>1, <3>2, <3>3
  <2>2. CASE i # 0
    <3>1. i \in DOMAIN r.check_list
      BY <2>2, <1>2, PairOfSourceFound
    <3>2. wanted \in BOOLEAN /\ m = MarkPair(r, i, wanted) /\ (nominate <=> wanted)
      BY <2>2
    <3> HIDE DEF m, nominate, r, i, wanted
    <3>3. nominate = wanted
      BY <3>2 DEF nominate
    <3> QED
      BY <1>2, <1>3, <3>1, <3>2, <3>3, MarkPairOK DEF SameSetup
  <2> QED
    BY <2>1, <2>2
<1> DEFINE next == OnRequest(ag, src, controlling, use_candidate)
<1>7. /\ AgentOK(next) /\ SameSetup(m, next)
      /\ next.check_list = m.check_list /\ next.role = m.role
      /\ next.nominated_pair_idx = m.nominated_pair_idx
      /\ next.nominated_pair_confirmed = m.nominated_pair_confirmed
      /\ next.state = IF m.state \in {"New", "Gathering", "Connecting"}
                      THEN "Connected" ELSE m.state
  <2> HIDE DEF m
  <2>1. AgentOK(m)
    BY <1>6
  <2>2. next = RaiseConnected(m, {"New", "Gathering", "Connecting"})
    BY <1>5
  <2> HIDE DEF next
  <2> QED
    BY <2>1, <2>2, RaiseConnectedOK
<1>8. nominate <=> (i # 0 /\ use_candidate /\ next.role = "Controlled")
  BY <1>2, <1>6, <1>7
<1> HIDE DEF nominate, m, r, i, next
<1>9. SameSetup(ag, next)
  BY <1>6, <1>7 DEF SameSetup
<1> QED
  BY <1>2, <1>6, <1>7, <1>8, <1>9 DEF i, next, RequestEffect, Nominates

\* A 487 answer: the role, and the state and count of pairs in progress.
LEMMA OnRoleConflictOK ==
    ASSUME NEW ag, AgentOK(ag)
    PROVE  LET next == OnRoleConflict(ag)
           IN  /\ AgentOK(next) /\ SameSetup(ag, next) /\ SamePairs(ag, next)
               /\ next.state = ag.state
               /\ next.nominated_pair_idx = ag.nominated_pair_idx
               /\ next.nominated_pair_confirmed = ag.nominated_pair_confirmed
<1> DEFINE role == IF ag.role = "Controlling" THEN "Controlled" ELSE "Controlling"
           list == [i \in DOMAIN ag.check_list |->
                      IF ag.check_list[i].state = "InProgress"
                      THEN [ag.check_list[i] EXCEPT !.state = "Waiting",
                                                    !.retransmit_count = 0]
                      ELSE ag.check_list[i]]
           next == [ag EXCEPT !.role = role, !.check_list = list]
<1>1. OnRoleConflict(ag) = next
  BY DEF OnRoleConflict
<1>2. /\ DOMAIN list = DOMAIN ag.check_list
      /\ \A i \in DOMAIN list :
           /\ PairOK(list[i])
           /\ list[i].remote = ag.check_list[i].remote
           /\ list[i].nominated = ag.check_list[i].nominated
  <2>1. ASSUME NEW i \in DOMAIN ag.check_list
        PROVE  /\ PairOK(list[i])
               /\ list[i].remote = ag.check_list[i].remote
               /\ list[i].nominated = ag.check_list[i].nominated
    <3>1. PairOK(ag.check_list[i])
      BY DEF AgentOK
    <3>2. CASE ag.check_list[i].state = "InProgress"
      <4> DEFINE q == [ag.check_list[i] EXCEPT !.state = "Waiting",
                                               !.retransmit_count = 0]
      <4>1. q \in PairEntry /\ q.retransmit_count = 0
        BY <3>1, FreshCount DEF PairOK, PairEntry, CheckStates
      <4>2. q.remote = ag.check_list[i].remote
            /\ q.nominated = ag.check_list[i].nominated
        BY <3>1 DEF PairOK, PairEntry
      <4>3. PairOK(q)
        BY <4>1, FreshCount DEF PairOK
      <4> QED
        BY <3>2, <4>2, <4>3
    <3> QED
      BY <3>1, <3>2
  <2> QED
    BY <2>1, Zenon
<1>3. list \in Seq(PairEntry)
  BY <1>2, ListOK
<1>4. role \in IceRoles
  BY DEF IceRoles
<1> HIDE DEF list, role
<1>5. /\ next \in Agent /\ next.check_list = list /\ SameSetup(ag, next)
      /\ next.state = ag.state
      /\ next.nominated_pair_idx = ag.nominated_pair_idx
      /\ next.nominated_pair_confirmed = ag.nominated_pair_confirmed
  BY <1>3, <1>4 DEF AgentOK, Agent, SameSetup
<1> QED
  BY <1>1, <1>2, <1>5 DEF AgentOK, SamePairs

\* nominate_best: nothing changes, or one pair gets nominated.
LEMMA NominateBestOK ==
    ASSUME NEW ag, AgentOK(ag)
    PROVE  LET next == NominateBest(ag)
           IN  /\ AgentOK(next) /\ SameSetup(ag, next)
               /\ next.role = ag.role /\ next.state = ag.state
               /\ next.nominated_pair_confirmed = ag.nominated_pair_confirmed
               /\ DOMAIN next.check_list = DOMAIN ag.check_list
               /\ \/ next = ag
                  \/ /\ next.nominated_pair_idx \in DOMAIN ag.check_list
                     /\ \A j \in DOMAIN ag.check_list :
                          /\ next.check_list[j].remote = ag.check_list[j].remote
                          /\ next.check_list[j].nominated <=>
                               (\/ ag.check_list[j].nominated
                                \/ j = next.nominated_pair_idx)
<1> DEFINE S == { j \in DOMAIN ag.check_list : ag.check_list[j].state = "Succeeded" }
           i == Position(S)
<1>1. CASE i = 0
  BY <1>1 DEF NominateBest, SameSetup
<1>2. CASE i # 0
  <2> DEFINE p == [ag.check_list[i] EXCEPT !.state = "InProgress",
                      !.retransmit_count = 0, !.nominated = TRUE]
             list == [ag.check_list EXCEPT ![i] = p]
             next == [ag EXCEPT !.check_list = list, !.nominated_pair_idx = i]
  <2>1. i \in DOMAIN ag.check_list
    BY <1>2, PositionInSet
  <2> HIDE DEF i
  <2>2. PairOK(ag.check_list[i])
    BY <2>1 DEF AgentOK
  <2>3. PairOK(p) /\ p.remote = ag.check_list[i].remote /\ p.nominated = TRUE
    <3>1. p \in PairEntry /\ p.retransmit_count = 0
      BY <2>2, FreshCount DEF PairOK, PairEntry, CheckStates
    <3>2. p.remote = ag.check_list[i].remote /\ p.nominated = TRUE
      BY <2>2 DEF PairOK, PairEntry
    <3> QED
      BY <3>1, <3>2, FreshCount DEF PairOK
  <2>4. /\ DOMAIN list = DOMAIN ag.check_list
        /\ list = [j \in DOMAIN list |-> list[j]]
        /\ \A j \in DOMAIN list :
             /\ PairOK(list[j])
             /\ list[j].remote = ag.check_list[j].remote
             /\ list[j].nominated <=> (ag.check_list[j].nominated \/ j = i)
    <3> HIDE DEF p
    <3>1. \A j \in DOMAIN ag.check_list :
             /\ PairOK(ag.check_list[j])
             /\ ag.check_list[j].nominated \in BOOLEAN
      BY PairFields DEF AgentOK
    <3> QED
      BY <2>3, <3>1
  <2>5. list \in Seq(PairEntry)
    BY <2>4, ListOK
  <2>6. i \in Nat
    BY <2>1 DEF AgentOK, Agent
  <2>7. NominateBest(ag) = next
    BY <1>2, Zenon DEF NominateBest, i
  <2> HIDE DEF list
  <2>8. /\ next \in Agent /\ next.check_list = list /\ SameSetup(ag, next)
        /\ next.role = ag.role /\ next.nominated_pair_idx = i
        /\ next.state = ag.state
        /\ next.nominated_pair_confirmed = ag.nominated_pair_confirmed
    BY <2>5, <2>6 DEF AgentOK, Agent, SameSetup
  <2>9. AgentOK(next)
    BY <2>4, <2>8 DEF AgentOK
  <2> HIDE DEF next, p
  <2> QED
    BY <2>1, <2>4, <2>7, <2>8, <2>9
<1> QED
  BY <1>1, <1>2

\* A success: nothing changes, or the pair nominated before is confirmed, or
\* the agent has no nomination yet and nominates one pair.
LEMMA ControllingProgressOK ==
    ASSUME NEW ag, AgentOK(ag), NEW i \in Nat \ {0}
    PROVE  LET next == ControllingProgress(ag, i)
           IN  /\ AgentOK(next) /\ SameSetup(ag, next)
               /\ next.role = ag.role
               /\ DOMAIN next.check_list = DOMAIN ag.check_list
               /\ next.state \in {ag.state, "Completed"}
               /\ \/ next = ag
                  \/ /\ ag.role = "Controlling" /\ SamePairs(ag, next)
                     /\ next.nominated_pair_idx = ag.nominated_pair_idx
                  \/ /\ ag.role = "Controlling" /\ ag.nominated_pair_idx = 0
                     /\ next.nominated_pair_idx \in DOMAIN ag.check_list
                     /\ \A j \in DOMAIN ag.check_list :
                          /\ next.check_list[j].remote = ag.check_list[j].remote
                          /\ next.check_list[j].nominated <=>
                               (\/ ag.check_list[j].nominated
                                \/ j = next.nominated_pair_idx)
<1> DEFINE next == ControllingProgress(ag, i)
           done == [ag EXCEPT !.nominated_pair_confirmed = TRUE, !.state = "Completed"]
<1>1. CASE next = ag
  BY <1>1 DEF SameSetup
<1>2. CASE ag.role = "Controlling" /\ next = done
  <2>1. /\ done \in Agent /\ done.check_list = ag.check_list
        /\ SameSetup(ag, done) /\ done.role = ag.role
        /\ done.nominated_pair_idx = ag.nominated_pair_idx
        /\ done.state = "Completed"
    BY DEF AgentOK, Agent, IceStates, SameSetup
  <2>2. AgentOK(done) /\ SamePairs(ag, done)
    BY <2>1 DEF AgentOK, SamePairs
  <2> HIDE DEF next, done
  <2> QED
    BY <1>2, <2>1, <2>2 DEF next
<1>3. CASE /\ ag.role = "Controlling" /\ ag.nominated_pair_idx = 0
           /\ next = NominateBest(ag)
  <2> HIDE DEF next
  <2>1. CASE next = ag
    BY <2>1, <1>1
  <2>2. CASE next # ag
    BY <2>2, <1>3, NominateBestOK DEF next
  <2> QED
    BY <2>1, <2>2
<1> QED
  BY <1>1, <1>2, <1>3 DEF ControllingProgress

\* The pair found by a transaction id is on the list.
LEMMA PairOfTidFound ==
    ASSUME NEW ag, NEW tid, PairOfTid(ag, tid) # 0
    PROVE  PairOfTid(ag, tid) \in DOMAIN ag.check_list
  BY PositionInSet DEF PairOfTid

\* A success response only ever changes the nomination of a controlling agent
\* that has none, and keeps a Completed agent Completed.
LEMMA OnResponseOK ==
    ASSUME NEW ag, AgentOK(ag), NEW tid
    PROVE  LET next == OnResponse(ag, tid)
           IN  /\ AgentOK(next) /\ SameSetup(ag, next)
               /\ next.role = ag.role
               /\ DOMAIN next.check_list = DOMAIN ag.check_list
               /\ next.state \in {ag.state, "Connected", "Completed"}
               /\ ag.state = "Completed" => next.state = "Completed"
               /\ DOMAIN ag.check_list = {} => next = ag
               /\ \/ /\ SamePairs(ag, next)
                     /\ next.nominated_pair_idx = ag.nominated_pair_idx
                     /\ \/ ag.role = "Controlling"
                        \/ next.nominated_pair_confirmed = ag.nominated_pair_confirmed
                  \/ /\ ag.role = "Controlling" /\ ag.nominated_pair_idx = 0
                     /\ next.nominated_pair_idx \in DOMAIN ag.check_list
                     /\ \A j \in DOMAIN ag.check_list :
                          /\ next.check_list[j].remote = ag.check_list[j].remote
                          /\ next.check_list[j].nominated <=>
                               (\/ ag.check_list[j].nominated
                                \/ j = next.nominated_pair_idx)
<1> DEFINE i == PairOfTid(ag, tid)
           p == [ag.check_list[i] EXCEPT !.state = "Succeeded"]
           list == [ag.check_list EXCEPT ![i] = p]
           hit == [ag EXCEPT !.check_list = list]
           done == ControllingProgress(hit, i)
           next == OnResponse(ag, tid)
<1>1. CASE i = 0
  BY <1>1 DEF OnResponse, SameSetup, SamePairs
<1>2. CASE i # 0
  <2>1. i \in DOMAIN ag.check_list
    BY <1>2, PairOfTidFound
  <2>2. next = RaiseConnected(done, {"Connecting"})
    BY <1>2, Zenon DEF OnResponse
  <2> HIDE DEF i, next
  <2>3. PairOK(ag.check_list[i])
    BY <2>1 DEF AgentOK
  <2>4. PairOK(p) /\ p.remote = ag.check_list[i].remote
        /\ p.nominated = ag.check_list[i].nominated
    BY <2>3 DEF PairOK, PairEntry, CheckStates
  <2>5. /\ DOMAIN list = DOMAIN ag.check_list
        /\ list = [j \in DOMAIN list |-> list[j]]
        /\ \A j \in DOMAIN list :
             /\ PairOK(list[j])
             /\ list[j].remote = ag.check_list[j].remote
             /\ list[j].nominated = ag.check_list[j].nominated
    <3> HIDE DEF p
    <3> QED
      BY <2>4 DEF AgentOK
  <2>6. list \in Seq(PairEntry)
    BY <2>5, ListOK
  <2> HIDE DEF list
  <2>7. /\ hit \in Agent /\ hit.check_list = list /\ SameSetup(ag, hit)
        /\ hit.role = ag.role /\ hit.state = ag.state
        /\ hit.nominated_pair_idx = ag.nominated_pair_idx
        /\ hit.nominated_pair_confirmed = ag.nominated_pair_confirmed
    BY <2>6 DEF AgentOK, Agent, SameSetup
  <2>8. AgentOK(hit)
    BY <2>5, <2>7 DEF AgentOK
  <2>9. i \in Nat \ {0}
    BY <2>1, <1>2 DEF AgentOK, Agent
  <2> HIDE DEF hit
  <2>10. /\ AgentOK(done) /\ SameSetup(hit, done)
         /\ done.role = hit.role
         /\ DOMAIN done.check_list = DOMAIN hit.check_list
         /\ done.state \in {hit.state, "Completed"}
         /\ \/ done = hit
            \/ /\ hit.role = "Controlling" /\ SamePairs(hit, done)
               /\ done.nominated_pair_idx = hit.nominated_pair_idx
            \/ /\ hit.role = "Controlling" /\ hit.nominated_pair_idx = 0
               /\ done.nominated_pair_idx \in DOMAIN hit.check_list
               /\ \A j \in DOMAIN hit.check_list :
                    /\ done.check_list[j].remote = hit.check_list[j].remote
                    /\ done.check_list[j].nominated <=>
                         (\/ hit.check_list[j].nominated
                          \/ j = done.nominated_pair_idx)
    BY <2>8, <2>9, ControllingProgressOK
  <2> HIDE DEF done
  <2>11. /\ AgentOK(next) /\ SameSetup(done, next)
         /\ next.check_list = done.check_list /\ next.role = done.role
         /\ next.nominated_pair_idx = done.nominated_pair_idx
         /\ next.nominated_pair_confirmed = done.nominated_pair_confirmed
         /\ next.state = IF done.state \in {"Connecting"} THEN "Connected"
                         ELSE done.state
    BY <2>2, <2>10, RaiseConnectedOK
  <2>12. SameSetup(ag, next)
    BY <2>7, <2>10, <2>11 DEF SameSetup
  <2>13. next.role = ag.role /\ DOMAIN next.check_list = DOMAIN ag.check_list
         /\ (ag.state = "Completed" => next.state = "Completed")
         /\ next.state \in {ag.state, "Connected", "Completed"}
         /\ DOMAIN ag.check_list # {}
    BY <2>1, <2>5, <2>7, <2>10, <2>11
  <2>14. CASE done = hit
    BY <2>5, <2>7, <2>11, <2>12, <2>13, <2>14 DEF next, SamePairs
  <2>15. CASE /\ hit.role = "Controlling" /\ SamePairs(hit, done)
              /\ done.nominated_pair_idx = hit.nominated_pair_idx
    BY <2>5, <2>7, <2>11, <2>12, <2>13, <2>15 DEF next, SamePairs
  <2>16. CASE /\ hit.role = "Controlling" /\ hit.nominated_pair_idx = 0
              /\ done.nominated_pair_idx \in DOMAIN hit.check_list
              /\ \A j \in DOMAIN hit.check_list :
                   /\ done.check_list[j].remote = hit.check_list[j].remote
                   /\ done.check_list[j].nominated <=>
                        (\/ hit.check_list[j].nominated
                         \/ j = done.nominated_pair_idx)
    BY <2>5, <2>7, <2>11, <2>12, <2>13, <2>16 DEF next
  <2> QED
    BY <2>10, <2>14, <2>15, <2>16
<1> QED
  BY <1>1, <1>2

\* stop() leaves an agent of the right type without pairs.
LEMMA OnStopOK ==
    ASSUME NEW ag, AgentOK(ag)
    PROVE  LET next == OnStop(ag)
           IN  /\ AgentOK(next) /\ SameSetup(ag, next)
               /\ next.check_list = <<>> /\ next.role = ag.role
               /\ next.state = "Closed"
<1> DEFINE next == [ag EXCEPT !.state = "Closed", !.check_list = <<>>,
                              !.nominated_pair_idx = 0]
<1>1. <<>> \in Seq(PairEntry)
  OBVIOUS
<1>2. /\ next \in Agent /\ next.check_list = <<>> /\ SameSetup(ag, next)
      /\ next.role = ag.role /\ next.state = "Closed"
  BY <1>1 DEF AgentOK, Agent, IceStates, SameSetup
<1>3. AgentOK(next)
  BY <1>2 DEF AgentOK
<1> QED
  BY <1>2, <1>3 DEF OnStop

\* New remote candidates change neither pairs nor nomination.
LEMMA AddRemoteCandidatesOK ==
    ASSUME NEW ag, AgentOK(ag), NEW cands \in SUBSET Candidate
    PROVE  LET next == AddRemoteCandidates(ag, cands)
           IN  /\ AgentOK(next)
               /\ next.check_list = ag.check_list /\ next.role = ag.role
               /\ next.state = ag.state
               /\ next.nominated_pair_idx = ag.nominated_pair_idx
               /\ next.nominated_pair_confirmed = ag.nominated_pair_confirmed
               /\ next.remote_candidates = ag.remote_candidates \cup cands
               /\ next.checklists = ag.checklists
               /\ next.local_candidates = ag.local_candidates
<1>1. AddRemoteCandidates(ag, cands) \in Agent
  BY DEF AddRemoteCandidates, AgentOK, Agent
<1> QED
  BY <1>1 DEF AddRemoteCandidates, AgentOK, Agent

\* A description of the peer changes neither pairs nor nomination.
LEMMA SetRemoteSessionDescriptionOK ==
    ASSUME NEW ag, AgentOK(ag), NEW cands \in SUBSET Candidate
    PROVE  LET next == SetRemoteSessionDescription(ag, cands)
           IN  /\ AgentOK(next)
               /\ next.check_list = ag.check_list /\ next.role = ag.role
               /\ next.state = ag.state
               /\ next.nominated_pair_idx = ag.nominated_pair_idx
               /\ next.nominated_pair_confirmed = ag.nominated_pair_confirmed
               /\ next.remote_candidates = ag.remote_candidates \cup cands
               /\ next.checklists = ag.checklists
               /\ next.local_candidates = ag.local_candidates
               /\ CanStart(ag) => CanStart(next)
<1> DEFINE added == AddRemoteCandidates(ag, cands)
           next == SetRemoteSessionDescription(ag, cands)
<1>1. /\ AgentOK(added)
      /\ added.check_list = ag.check_list /\ added.role = ag.role
      /\ added.state = ag.state
      /\ added.nominated_pair_idx = ag.nominated_pair_idx
      /\ added.nominated_pair_confirmed = ag.nominated_pair_confirmed
      /\ added.remote_candidates = ag.remote_candidates \cup cands
      /\ added.checklists = ag.checklists
      /\ added.local_candidates = ag.local_candidates
  BY AddRemoteCandidatesOK
<1>2. next = [added EXCEPT !.remote_ufrag_set = TRUE]
  BY DEF SetRemoteSessionDescription
<1> HIDE DEF added, next
<1>3. next \in Agent /\ next.check_list = added.check_list
  BY <1>1, <1>2 DEF AgentOK, Agent
<1>4. AgentOK(next)
  BY <1>1, <1>3 DEF AgentOK
<1>5. /\ next.remote_ufrag_set /\ next.role = added.role /\ next.state = added.state
      /\ next.nominated_pair_idx = added.nominated_pair_idx
      /\ next.nominated_pair_confirmed = added.nominated_pair_confirmed
      /\ next.remote_candidates = added.remote_candidates
      /\ next.checklists = added.checklists
      /\ next.local_candidates = added.local_candidates
  BY <1>1, <1>2 DEF AgentOK, Agent
<1>6. CanStart(ag) => CanStart(next)
  BY <1>1, <1>5 DEF CanStart
<1> QED
  BY <1>1, <1>3, <1>4, <1>5, <1>6 DEF next

\* A check list is a sequence of pairs of a local and a remote candidate.
LEMMA CheckListsOK ==
    ASSUME NEW locals \in SUBSET Candidate, NEW remotes \in SUBSET Candidate,
           NEW role, NEW cl \in CheckLists(locals, remotes, role)
    PROVE  \E n \in Nat : cl \in [1..n -> locals \X remotes]
<1>1. IsFiniteSet(locals) /\ IsFiniteSet(remotes)
  BY AgentAssumption, FS_Subset
<1>2. IsFiniteSet(locals \X remotes)
  BY <1>1, FS_Product
<1>3. Cardinality(locals \X remotes) \in Nat
  BY <1>2, FS_CardinalityType
<1> QED
  BY <1>3 DEF CheckLists

\* start_checks: a new list of fresh pairs with known remotes, or Failed.
LEMMA StartChecksOK ==
    ASSUME NEW ag, AgentOK(ag), NEW next \in StartChecksResults(ag)
    PROVE  /\ AgentOK(next)
           /\ next.role = ag.role
           /\ next.remote_candidates = ag.remote_candidates
           /\ next.nominated_pair_idx = ag.nominated_pair_idx
           /\ next.nominated_pair_confirmed = ag.nominated_pair_confirmed
           /\ \/ /\ ~CanStart(ag) /\ next.state = "Failed"
                 /\ next.check_list = ag.check_list /\ next.checklists = ag.checklists
              \/ /\ next.checklists = ag.checklists + 1 /\ next.state = "Connecting"
                 /\ \A i \in DOMAIN next.check_list :
                      /\ next.check_list[i].remote \in ag.remote_candidates
                      /\ next.check_list[i].nominated = FALSE
<1>1. CASE CanStart(ag)
  <2>1. PICK cl \in CheckLists(ag.local_candidates, ag.remote_candidates, ag.role) :
          next = [ag EXCEPT !.state = "Connecting", !.checklists = @ + 1,
                     !.check_list = [i \in DOMAIN cl |-> FreshPair(cl[i])]]
    BY <1>1 DEF StartChecksResults
  <2> DEFINE list == [i \in DOMAIN cl |-> FreshPair(cl[i])]
  <2>2. ag.local_candidates \in SUBSET Candidate
        /\ ag.remote_candidates \in SUBSET Candidate
    BY DEF AgentOK, Agent
  <2>3. PICK n \in Nat : cl \in [1..n -> ag.local_candidates \X ag.remote_candidates]
    BY <2>2, CheckListsOK
  <2>4. ASSUME NEW i \in DOMAIN cl
        PROVE  /\ PairOK(FreshPair(cl[i]))
               /\ FreshPair(cl[i]).remote \in ag.remote_candidates
               /\ FreshPair(cl[i]).nominated = FALSE
    <3>1. cl[i] \in ag.local_candidates \X ag.remote_candidates
      BY <2>3, <2>4
    <3>2. cl[i][1] \in Candidate /\ cl[i][2] \in ag.remote_candidates
          /\ cl[i][2] \in Candidate
      BY <2>2, <3>1
    <3>3. NoTid \in TransactionIds
      BY DEF NoTid, TransactionIds
    <3> QED
      BY <3>2, <3>3, FreshCount DEF FreshPair, PairOK, PairEntry, CheckStates
  <2>5. list \in Seq(PairEntry)
    <3>1. DOMAIN cl = 1..n
      BY <2>3
    <3>2. \A i \in DOMAIN cl : FreshPair(cl[i]) \in PairEntry
      BY <2>4 DEF PairOK
    <3>3. list \in [1..n -> PairEntry]
      BY <3>1, <3>2
    <3> HIDE DEF list
    <3> QED
      BY <3>3
  <2>6. DOMAIN list = DOMAIN cl /\ \A i \in DOMAIN cl : list[i] = FreshPair(cl[i])
    OBVIOUS
  <2>8. next = [ag EXCEPT !.state = "Connecting", !.checklists = @ + 1,
                          !.check_list = list]
    BY <2>1
  <2> DEFINE count == ag.checklists + 1
  <2>9. count \in Nat
    BY DEF AgentOK, Agent
  <2>10. "Connecting" \in IceStates
    BY DEF IceStates
  <2>11. next = [ag EXCEPT !.state = "Connecting", !.checklists = count,
                           !.check_list = list]
    BY <2>8
  <2> HIDE DEF list, count
  <2>7. /\ next \in Agent /\ next.check_list = list /\ next.role = ag.role
        /\ next.checklists = count /\ next.state = "Connecting"
        /\ next.remote_candidates = ag.remote_candidates
        /\ next.nominated_pair_idx = ag.nominated_pair_idx
        /\ next.nominated_pair_confirmed = ag.nominated_pair_confirmed
    BY <2>5, <2>9, <2>10, <2>11 DEF AgentOK, Agent
  <2> QED
    BY <2>4, <2>6, <2>7 DEF AgentOK, count
<1>2. CASE ~CanStart(ag)
  <2>1. next = [ag EXCEPT !.state = "Failed"]
    BY <1>2 DEF StartChecksResults
  <2>2. next \in Agent /\ next.check_list = ag.check_list
    BY <2>1 DEF AgentOK, Agent, IceStates
  <2> QED
    BY <1>2, <2>1, <2>2 DEF AgentOK, Agent
<1> QED
  BY <1>1, <1>2

----------------------------------------------------------------------------
(* The session.                                                            *)

\* Candidates of the other agents.
Foreign(a) == UNION {Gathered[b] : b \in Peers(a)}

AgentInv(a, ag) ==
    /\ AgentOK(ag)
    /\ ag.remote_candidates \subseteq Foreign(a)
    /\ \A i \in DOMAIN ag.check_list : ag.check_list[i].remote \in Foreign(a)

\* A check goes to another agent.
NetInv == \A m \in net : m.type = "request" => m.to \in Peers(m.from)

SessionInv ==
    /\ TypeOK
    /\ NetInv
    /\ \A a \in Agents : AgentInv(a, agent[a])

----------------------------------------------------------------------------

\* The agent step only replaces agent[a], by an agent that is well-formed.
Replaces(a, next) ==
    /\ agent' = [agent EXCEPT ![a] = next]
    /\ AgentInv(a, next)

\* What a peer gathers or describes is foreign to the agent.
LEMMA ForeignCandidates ==
    ASSUME NEW a \in Agents
    PROVE  /\ Foreign(a) \subseteq Candidate
           /\ \A b \in Peers(a) : Gathered[b] \subseteq Foreign(a)
                                  /\ Described[b] \subseteq Foreign(a)
  BY SessionAssumption DEF Foreign, Peers

\* A foreign candidate belongs to a peer.
LEMMA OwnerIsPeer ==
    ASSUME NEW a \in Agents, NEW c \in Foreign(a)
    PROVE  Owner(c) \in Peers(a)
<1>1. PICK b \in Peers(a) : c \in Gathered[b]
  BY DEF Foreign
<1>2. b \in Agents /\ b # a
  BY DEF Peers
<1>3. Owner(c) \in Agents /\ c \in Gathered[Owner(c)]
  BY <1>1, <1>2 DEF Owner
<1>4. Owner(c) = b
  BY <1>1, <1>2, <1>3, SessionAssumption
<1> QED
  BY <1>1, <1>4

\* Replacing one agent by a well-formed one keeps the agents' part.
LEMMA ReplacesOK ==
    ASSUME SessionInv, NEW a \in Agents, NEW next, Replaces(a, next)
    PROVE  /\ agent' \in [Agents -> Agent]
           /\ \A b \in Agents : AgentInv(b, agent'[b])
<1>1. next \in Agent
  BY DEF Replaces, AgentInv, AgentOK
<1> QED
  BY <1>1 DEF SessionInv, TypeOK, Replaces

\* An agent that keeps the remote ends of its pairs keeps its invariant.
LEMMA SameRemotes ==
    ASSUME NEW a \in Agents, NEW ag, AgentInv(a, ag), NEW next, AgentOK(next),
           next.remote_candidates = ag.remote_candidates,
           DOMAIN next.check_list = DOMAIN ag.check_list,
           \A i \in DOMAIN ag.check_list :
             next.check_list[i].remote = ag.check_list[i].remote
    PROVE  AgentInv(a, next)
  BY DEF AgentInv

\* So does one that only learns further candidates of its peers.
LEMMA MoreRemotes ==
    ASSUME NEW a \in Agents, NEW ag, AgentInv(a, ag), NEW next, AgentOK(next),
           NEW cands \in SUBSET Foreign(a),
           next.remote_candidates = ag.remote_candidates \cup cands,
           next.check_list = ag.check_list
    PROVE  AgentInv(a, next)
  BY DEF AgentInv

\* A new agent satisfies the invariant of agents.
LEMMA NewAgentOK ==
    ASSUME NEW a \in Agents
    PROVE  AgentInv(a, NewAgent(InitialRole[a], Gathered[a]))
<1> DEFINE ag == NewAgent(InitialRole[a], Gathered[a])
<1>1. InitialRole[a] \in IceRoles /\ Gathered[a] \in SUBSET Candidate
  BY SessionAssumption
<1>2. <<>> \in Seq(PairEntry)
  OBVIOUS
<1>3. ag \in Agent
  BY <1>1, <1>2 DEF NewAgent, Agent, IceStates
<1>4. ag.check_list = <<>> /\ ag.remote_candidates = {}
  BY DEF NewAgent
<1> QED
  BY <1>3, <1>4 DEF AgentInv, AgentOK

\* The invariant holds in the beginning.
LEMMA SessionInit == Init => SessionInv
<1> SUFFICES ASSUME Init PROVE SessionInv
  OBVIOUS
<1>1. \A a \in Agents : agent[a] = NewAgent(InitialRole[a], Gathered[a])
  BY DEF Init
<1>2. \A a \in Agents : AgentInv(a, agent[a])
  BY <1>1, NewAgentOK
<1>3. agent \in [Agents -> Agent]
  BY <1>2 DEF Init, AgentInv, AgentOK
<1>4. faults \in Faults
  BY SessionAssumption DEF Init, Faults
<1> QED
  BY <1>2, <1>3, <1>4 DEF Init, SessionInv, TypeOK, NetInv

----------------------------------------------------------------------------
(* One lemma per kind of step *)

\* A step of the application keeps the network and the counters.
LEMMA ApplicationStep ==
    ASSUME SessionInv, NEW a \in Agents, NEW next, Replaces(a, next),
           UNCHANGED <<net, faults>>
    PROVE  SessionInv'
  BY ReplacesOK DEF SessionInv, TypeOK, NetInv

\* A description that arrives (client.rs, handle_signaling_message).
LEMMA SetRemoteDescriptionStep ==
    ASSUME SessionInv, NEW a \in Agents, SetRemoteDescription(a)
    PROVE  SessionInv'
<1>1. PICK b \in Peers(a) :
        agent' = [agent EXCEPT ![a] = SetRemoteSessionDescription(@, Described[b])]
  BY DEF SetRemoteDescription
<1> DEFINE next == SetRemoteSessionDescription(agent[a], Described[b])
<1>2. Described[b] \in SUBSET Foreign(a) /\ Described[b] \in SUBSET Candidate
  BY ForeignCandidates, SessionAssumption DEF Peers
<1>3. AgentInv(a, agent[a]) /\ AgentOK(agent[a])
  BY DEF SessionInv, AgentInv
<1>4. AgentInv(a, next)
  <2>1. /\ AgentOK(next) /\ next.check_list = agent[a].check_list
        /\ next.remote_candidates = agent[a].remote_candidates \cup Described[b]
    BY <1>2, <1>3, SetRemoteSessionDescriptionOK
  <2> HIDE DEF next
  <2> QED
    BY <1>2, <1>3, <2>1, MoreRemotes
<1> HIDE DEF next
<1>5. Replaces(a, next)
  BY <1>1, <1>4 DEF Replaces, SessionInv, TypeOK, next
<1> QED
  BY <1>5, ApplicationStep DEF SetRemoteDescription

\* Starting the checks keeps the invariant of an agent.
LEMMA StartedOK ==
    ASSUME NEW a \in Agents, NEW ag, AgentInv(a, ag),
           NEW next \in StartChecksResults(ag)
    PROVE  AgentInv(a, next)
  BY StartChecksOK DEF AgentInv

\* start_checks on its own.
LEMMA StartChecksStep ==
    ASSUME SessionInv, NEW a \in Agents, StartChecks(a)
    PROVE  SessionInv'
<1>1. PICK next \in StartChecksResults(agent[a]) : agent' = [agent EXCEPT ![a] = next]
  BY DEF StartChecks
<1>2. Replaces(a, next)
  BY <1>1, StartedOK DEF Replaces, SessionInv
<1> QED
  BY <1>2, ApplicationStep DEF StartChecks

\* An offer: description and start of the checks in one step.
LEMMA AcceptDescriptionStep ==
    ASSUME SessionInv, NEW a \in Agents, AcceptDescription(a)
    PROVE  SessionInv'
<1>1. PICK b \in Peers(a) :
        \E next \in StartChecksResults(
                       SetRemoteSessionDescription(agent[a], Described[b])) :
          agent' = [agent EXCEPT ![a] = next]
  BY DEF AcceptDescription
<1> DEFINE told == SetRemoteSessionDescription(agent[a], Described[b])
<1>2. Described[b] \in SUBSET Foreign(a) /\ Described[b] \in SUBSET Candidate
  BY ForeignCandidates, SessionAssumption DEF Peers
<1>3. AgentInv(a, agent[a]) /\ AgentOK(agent[a])
  BY DEF SessionInv, AgentInv
<1>4. AgentInv(a, told)
  <2>1. /\ AgentOK(told) /\ told.check_list = agent[a].check_list
        /\ told.remote_candidates = agent[a].remote_candidates \cup Described[b]
    BY <1>2, <1>3, SetRemoteSessionDescriptionOK
  <2> HIDE DEF told
  <2> QED
    BY <1>2, <1>3, <2>1, MoreRemotes
<1> HIDE DEF told
<1>5. PICK next \in StartChecksResults(told) : agent' = [agent EXCEPT ![a] = next]
  BY <1>1 DEF told
<1>6. Replaces(a, next)
  BY <1>4, <1>5, StartedOK DEF Replaces
<1> QED
  BY <1>6, ApplicationStep DEF AcceptDescription

\* A trickled candidate.
LEMMA AddRemoteCandidateStep ==
    ASSUME SessionInv, NEW a \in Agents, AddRemoteCandidate(a)
    PROVE  SessionInv'
<1>0. PICK b \in Peers(a) : \E c \in Gathered[b] :
        agent' = [agent EXCEPT ![a] = AddRemoteCandidates(@, {c})]
  BY DEF AddRemoteCandidate
<1>1. PICK c \in Gathered[b] :
        agent' = [agent EXCEPT ![a] = AddRemoteCandidates(@, {c})]
  BY <1>0
<1> DEFINE next == AddRemoteCandidates(agent[a], {c})
<1>2. {c} \in SUBSET Foreign(a) /\ {c} \in SUBSET Candidate
  BY <1>0, <1>1, ForeignCandidates
<1>3. AgentInv(a, agent[a]) /\ AgentOK(agent[a])
  BY DEF SessionInv, AgentInv
<1>4. AgentInv(a, next)
  <2>1. /\ AgentOK(next) /\ next.check_list = agent[a].check_list
        /\ next.remote_candidates = agent[a].remote_candidates \cup {c}
    BY <1>2, <1>3, AddRemoteCandidatesOK
  <2> HIDE DEF next
  <2> QED
    BY <1>2, <1>3, <2>1, MoreRemotes
<1> HIDE DEF next
<1>5. Replaces(a, next)
  BY <1>1, <1>4 DEF Replaces, SessionInv, TypeOK, next
<1> QED
  BY <1>5, ApplicationStep DEF AddRemoteCandidate

\* stop_ice.
LEMMA StopStep ==
    ASSUME SessionInv, NEW a \in Agents, Stop(a)
    PROVE  SessionInv'
<1> DEFINE next == OnStop(agent[a])
<1>1. AgentInv(a, agent[a]) /\ AgentOK(agent[a])
  BY DEF SessionInv, AgentInv
<1>2. AgentOK(next) /\ SameSetup(agent[a], next) /\ next.check_list = <<>>
  BY <1>1, OnStopOK
<1> HIDE DEF next
<1>3. AgentInv(a, next)
  BY <1>1, <1>2 DEF AgentInv, SameSetup
<1>4. Replaces(a, next)
  BY <1>3 DEF Replaces, SessionInv, TypeOK, Stop, next
<1> QED
  BY <1>4, ApplicationStep DEF Stop

\* The requests of a tick are well-formed and go to a peer.
LEMMA RequestOfOK ==
    ASSUME NEW a \in Agents, NEW ag, AgentInv(a, ag),
           NEW i \in DOMAIN ag.check_list, RequestOf(a, ag, i).src # NoRoute
    PROVE  /\ RequestOf(a, ag, i) \in Requests
           /\ RequestOf(a, ag, i).to \in Peers(a)
           /\ RequestOf(a, ag, i).from = a
<1> DEFINE c == ag.check_list[i].remote
<1>1. PairOK(ag.check_list[i]) /\ c \in Foreign(a) /\ c \in Candidate
  BY ForeignCandidates DEF AgentInv, AgentOK
<1>2. Owner(c) \in Peers(a) /\ Owner(c) \in Agents
  BY <1>1, OwnerIsPeer DEF Peers
<1>3. Source[a][c] \in Addresses
  BY <1>1, SessionAssumption DEF RequestOf
<1>4. ag.check_list[i].transaction_id \in TransactionIds
      /\ ag.check_list[i].nominated \in BOOLEAN
  BY <1>1, PairFields
<1> HIDE DEF c
<1>5. RequestOf(a, ag, i) =
        [type |-> "request", from |-> a, to |-> Owner(c), src |-> Source[a][c],
         tid |-> ag.check_list[i].transaction_id,
         controlling |-> ag.role = "Controlling",
         use_candidate |-> ag.check_list[i].nominated, copy |-> 0]
  BY DEF RequestOf, c
<1> QED
  BY <1>2, <1>3, <1>4, <1>5 DEF Requests

\* One tick that sends the due pairs.
LEMMA TickStep ==
    ASSUME SessionInv, NEW a \in Agents, NEW due \in SUBSET Sendable(agent[a]),
           TickOn(a, due)
    PROVE  SessionInv'
<1> DEFINE next == OnTick(agent[a], due)
<1>1. AgentInv(a, agent[a]) /\ AgentOK(agent[a])
  BY DEF SessionInv, AgentInv
<1>2. AgentOK(next) /\ SamePairs(agent[a], next) /\ SameSetup(agent[a], next)
  BY <1>1, OnTickOK
<1>3. agent' = [agent EXCEPT ![a] = next] /\ net' = net \cup RequestsOf(a, next, due)
      /\ UNCHANGED faults
  BY DEF TickOn
<1>4. due \subseteq DOMAIN agent[a].check_list
  BY DEF Sendable
<1> HIDE DEF next
<1>5. AgentInv(a, next)
  BY <1>1, <1>2, SameRemotes DEF SamePairs, SameSetup
<1>6. \A m \in RequestsOf(a, next, due) :
        m \in Requests /\ m.to \in Peers(m.from)
  BY <1>2, <1>4, <1>5, RequestOfOK DEF RequestsOf, SamePairs
<1>7. Replaces(a, next)
  BY <1>3, <1>5 DEF Replaces
<1> QED
  BY <1>3, <1>6, <1>7, ReplacesOK DEF SessionInv, TypeOK, NetInv

\* A request is received and answered, or dropped without a description.
LEMMA ReceiveRequestStep ==
    ASSUME SessionInv, NEW a \in Agents, ReceiveRequest(a)
    PROVE  SessionInv'
<1>1. PICK m \in net :
        /\ m.type = "request" /\ m.to = a
        /\ IF agent[a].remote_ufrag_set
           THEN /\ agent' = [agent EXCEPT ![a] =
                               OnRequest(@, m.src, m.controlling, m.use_candidate)]
                /\ net' = (net \ {m}) \cup {ResponseTo(m)}
           ELSE /\ net' = net \ {m}
                /\ UNCHANGED agent
        /\ UNCHANGED faults
  BY DEF ReceiveRequest
<1>2. m \in Requests
  BY <1>1 DEF SessionInv, TypeOK, Requests, Responses
<1>3. CASE agent[a].remote_ufrag_set
  <2>7. m.controlling \in BOOLEAN /\ m.use_candidate \in BOOLEAN
    BY <1>2 DEF Requests
  <2> DEFINE next == OnRequest(agent[a], m.src, m.controlling, m.use_candidate)
  <2>1. AgentInv(a, agent[a]) /\ AgentOK(agent[a])
    BY DEF SessionInv, AgentInv
  <2>3. /\ AgentOK(next) /\ SameSetup(agent[a], next)
        /\ DOMAIN next.check_list = DOMAIN agent[a].check_list
        /\ \A j \in DOMAIN agent[a].check_list :
             next.check_list[j].remote = agent[a].check_list[j].remote
    <3>1. /\ AgentOK(next) /\ SameSetup(agent[a], next)
          /\ RequestEffect(agent[a], m.src, m.controlling, m.use_candidate, next)
      BY <2>1, <2>7, OnRequestOK, Zenon
    <3> QED
      BY <3>1 DEF RequestEffect
  <2>4. agent' = [agent EXCEPT ![a] = next]
    BY <1>1, <1>3
  <2> HIDE DEF next
  <2>5. AgentInv(a, next)
    BY <2>1, <2>3, SameRemotes DEF SameSetup
  <2>6. Replaces(a, next)
    BY <2>4, <2>5 DEF Replaces
  <2>2. ResponseTo(m) \in Responses /\ ResponseTo(m).type # "request"
    BY <1>2 DEF ResponseTo, Requests, Responses
  <2> QED
    BY <1>1, <1>3, <2>2, <2>6, ReplacesOK DEF SessionInv, TypeOK, NetInv
<1>4. CASE ~agent[a].remote_ufrag_set
  BY <1>1, <1>4 DEF SessionInv, TypeOK, NetInv
<1> QED
  BY <1>3, <1>4

\* A success response is received.
LEMMA ReceiveResponseStep ==
    ASSUME SessionInv, NEW a \in Agents, ReceiveResponse(a)
    PROVE  SessionInv'
<1>1. PICK m \in net :
        /\ agent' = [agent EXCEPT ![a] = OnResponse(@, m.tid)]
        /\ net' = net \ {m}
        /\ UNCHANGED faults
  BY DEF ReceiveResponse
<1> DEFINE next == OnResponse(agent[a], m.tid)
<1>2. AgentInv(a, agent[a]) /\ AgentOK(agent[a])
  BY DEF SessionInv, AgentInv
<1>3. /\ AgentOK(next) /\ SameSetup(agent[a], next)
      /\ DOMAIN next.check_list = DOMAIN agent[a].check_list
      /\ \A j \in DOMAIN agent[a].check_list :
           next.check_list[j].remote = agent[a].check_list[j].remote
  BY <1>2, OnResponseOK DEF SamePairs
<1>4. agent' = [agent EXCEPT ![a] = next]
  BY <1>1
<1> HIDE DEF next
<1>5. AgentInv(a, next)
  BY <1>2, <1>3, SameRemotes DEF SameSetup
<1>6. Replaces(a, next)
  BY <1>4, <1>5 DEF Replaces
<1> QED
  BY <1>1, <1>6, ReplacesOK DEF SessionInv, TypeOK, NetInv

\* A 487 response is received.
LEMMA ReceiveRoleConflictStep ==
    ASSUME SessionInv, NEW a \in Agents, ReceiveRoleConflict(a)
    PROVE  SessionInv'
<1> DEFINE next == OnRoleConflict(agent[a])
<1>1. AgentInv(a, agent[a]) /\ AgentOK(agent[a])
  BY DEF SessionInv, AgentInv
<1>2. AgentOK(next) /\ SameSetup(agent[a], next) /\ SamePairs(agent[a], next)
  BY <1>1, OnRoleConflictOK
<1>3. agent' = [agent EXCEPT ![a] = next] /\ UNCHANGED net
  BY DEF ReceiveRoleConflict
<1> HIDE DEF next
<1>4. AgentInv(a, next)
  BY <1>1, <1>2, SameRemotes DEF SameSetup, SamePairs
<1>5. Replaces(a, next)
  BY <1>3, <1>4 DEF Replaces
<1>6. faults' \in Faults
  BY SessionAssumption DEF SessionInv, TypeOK, Faults, ReceiveRoleConflict
<1> QED
  BY <1>3, <1>5, <1>6, ReplacesOK DEF SessionInv, TypeOK, NetInv

\* A datagram is lost.
LEMMA LoseStep ==
    ASSUME SessionInv, Lose
    PROVE  SessionInv'
<1>1. faults' \in Faults
  BY SessionAssumption DEF SessionInv, TypeOK, Faults, Lose
<1> QED
  BY <1>1 DEF SessionInv, TypeOK, NetInv, Lose

\* A datagram is repeated: its copy is as good as itself.
LEMMA DuplicateStep ==
    ASSUME SessionInv, Duplicate
    PROVE  SessionInv'
<1>1. faults' \in Faults
  BY SessionAssumption DEF SessionInv, TypeOK, Faults, Duplicate
<1>2. PICK m \in net : net' = net \cup {[m EXCEPT !.copy = faults.copies + 1]}
  BY DEF Duplicate
<1> DEFINE n == faults.copies + 1
           d == [m EXCEPT !.copy = n]
<1>3. n \in Nat
  BY SessionAssumption DEF SessionInv, TypeOK, Faults
<1> HIDE DEF n
<1>4. CASE m \in Requests
  <2>1. d \in Requests /\ d.to = m.to /\ d.from = m.from
    BY <1>3, <1>4 DEF Requests
  <2>2. d.to \in Peers(d.from)
    BY <1>4, <2>1 DEF SessionInv, NetInv, Requests
  <2> QED
    BY <1>1, <1>2, <2>1, <2>2 DEF SessionInv, TypeOK, NetInv, Duplicate, n
<1>5. CASE m \in Responses
  <2>1. d \in Responses /\ d.type # "request"
    BY <1>3, <1>5 DEF Responses
  <2> QED
    BY <1>1, <1>2, <2>1 DEF SessionInv, TypeOK, NetInv, Duplicate, n
<1> QED
  BY <1>4, <1>5 DEF SessionInv, TypeOK

----------------------------------------------------------------------------

\* Every step, of either agent or of the network, preserves SessionInv.
LEMMA SessionStep == SessionInv /\ [Next]_vars => SessionInv'
<1> SUFFICES ASSUME SessionInv, [Next]_vars PROVE SessionInv'
  OBVIOUS
<1>1. ASSUME NEW a \in Agents, SetRemoteDescription(a) PROVE SessionInv'
  BY <1>1, SetRemoteDescriptionStep
<1>2. ASSUME NEW a \in Agents, StartChecks(a) PROVE SessionInv'
  BY <1>2, StartChecksStep
<1>3. ASSUME NEW a \in Agents, AcceptDescription(a) PROVE SessionInv'
  BY <1>3, AcceptDescriptionStep
<1>4. ASSUME NEW a \in Agents, AddRemoteCandidate(a) PROVE SessionInv'
  BY <1>4, AddRemoteCandidateStep
<1>5. ASSUME NEW a \in Agents, Stop(a) PROVE SessionInv'
  BY <1>5, StopStep
<1>6. ASSUME NEW a \in Agents, Tick(a) PROVE SessionInv'
  BY <1>6, TickStep DEF Tick
<1>7. ASSUME NEW a \in Agents, ReceiveRequest(a) PROVE SessionInv'
  BY <1>7, ReceiveRequestStep
<1>8. ASSUME NEW a \in Agents, ReceiveResponse(a) PROVE SessionInv'
  BY <1>8, ReceiveResponseStep
<1>9. ASSUME NEW a \in Agents, ReceiveRoleConflict(a) PROVE SessionInv'
  BY <1>9, ReceiveRoleConflictStep
<1>10. CASE Lose
  BY <1>10, LoseStep
<1>11. CASE Duplicate
  BY <1>11, DuplicateStep
<1>12. CASE UNCHANGED vars
  BY <1>12 DEF vars, SessionInv, TypeOK, NetInv, AgentInv
<1> QED
  BY <1>1, <1>2, <1>3, <1>4, <1>5, <1>6, <1>7, <1>8, <1>9, <1>10, <1>11, <1>12
  DEF Next, AgentStep

\* The inductive invariant of every session: types, and datagrams between peers only.
THEOREM SessionInvariant == Spec => []SessionInv
  BY SessionInit, SessionStep, PTL DEF Spec

\* Types, and the bound on the sends of a pair (agent.rs, tick), in every session.
THEOREM TypeCorrect == Spec => []TypeOK
<1>1. SessionInv => TypeOK
  BY DEF SessionInv
<1> QED
  BY <1>1, SessionInvariant, PTL

----------------------------------------------------------------------------
(* The life of an agent: what closes it, completes it and starts it again *)

\* A stopped agent has no pair left, so no datagram finds one.
Stopped(ag) == ag.state = "Closed" => DOMAIN ag.check_list = {}

\* A list exists only once checks were started, and without one nothing completes.
Begun(ag) ==
    /\ ag.checklists = 0 => DOMAIN ag.check_list = {}
    /\ ag.state = "Completed" => ag.checklists # 0

StoppedInv == \A a \in Agents : Stopped(agent[a])

BegunInv == \A a \in Agents : Begun(agent[a])

\* The checks of agent a are started, or refused for want of a description.
Starts(old, new) ==
    /\ old.checklists < MAX_STARTS
    /\ \/ new.checklists = old.checklists + 1 /\ new.state = "Connecting"
       \/ /\ ~CanStart(old) /\ new.state = "Failed"
          /\ new.check_list = old.check_list /\ new.checklists = old.checklists

Stops(a, old, new) ==
    /\ a \in Stoppers
    /\ new.state = "Closed" /\ DOMAIN new.check_list = {}
    /\ new.checklists = old.checklists

\* Anything else: an agent is not closed by it, stays Completed, and only an
\* agent that has pairs completes or leaves Closed.
GoesOn(old, new) ==
    /\ new.checklists = old.checklists
    /\ DOMAIN new.check_list = DOMAIN old.check_list
    /\ new.state = "Closed" => old.state = "Closed"
    /\ old.state = "Completed" => new.state = "Completed"
    /\ DOMAIN old.check_list = {} =>
         /\ old.state = "Closed" => new.state = "Closed"
         /\ new.state = "Completed" => old.state = "Completed"

Lives(a, old, new) == Starts(old, new) \/ Stops(a, old, new) \/ GoesOn(old, new)

\* A step that keeps state, pairs and number of lists goes on.
LEMMA KeptGoesOn ==
    ASSUME NEW old, NEW new, new.state = old.state,
           new.checklists = old.checklists,
           DOMAIN new.check_list = DOMAIN old.check_list
    PROVE  GoesOn(old, new)
  BY DEF GoesOn

\* start_checks starts or refuses, with the description just taken or without.
LEMMA StartChecksLives ==
    ASSUME NEW old, NEW ag, AgentOK(ag), old.checklists < MAX_STARTS,
           ag.checklists = old.checklists, ag.check_list = old.check_list,
           CanStart(old) => CanStart(ag),
           NEW next \in StartChecksResults(ag)
    PROVE  Starts(old, next)
<1>1. \/ /\ ~CanStart(ag) /\ next.state = "Failed"
         /\ next.check_list = ag.check_list /\ next.checklists = ag.checklists
      \/ next.checklists = ag.checklists + 1 /\ next.state = "Connecting"
  BY StartChecksOK, ZenonT(60)
<1> QED
  BY <1>1 DEF Starts

\* Calls of the application.
LEMMA ApplicationLives ==
    ASSUME SessionInv, NEW a \in Agents,
           \/ SetRemoteDescription(a) \/ StartChecks(a) \/ AcceptDescription(a)
           \/ AddRemoteCandidate(a) \/ Stop(a)
    PROVE  \E new : /\ agent' = [agent EXCEPT ![a] = new]
                    /\ Lives(a, agent[a], new)
<1> DEFINE old == agent[a]
<1>1. AgentOK(old)
  BY DEF SessionInv, AgentInv
<1>2. \A b \in Peers(a) : Described[b] \in SUBSET Candidate
                          /\ Gathered[b] \in SUBSET Candidate
  BY SessionAssumption DEF Peers
<1>3. CASE SetRemoteDescription(a)
  <2>1. PICK b \in Peers(a) :
          agent' = [agent EXCEPT ![a] = SetRemoteSessionDescription(old, Described[b])]
    BY <1>3 DEF SetRemoteDescription
  <2> DEFINE new == SetRemoteSessionDescription(old, Described[b])
  <2> HIDE DEF old
  <2>2. new.check_list = old.check_list /\ new.state = old.state
        /\ new.checklists = old.checklists
    BY <1>1, <1>2, SetRemoteSessionDescriptionOK
  <2> HIDE DEF new
  <2>3. GoesOn(old, new)
    BY <2>2, KeptGoesOn
  <2> QED
    BY <2>1, <2>3 DEF Lives, old, new
<1>4. CASE StartChecks(a)
  <2>1. PICK next \in StartChecksResults(old) : agent' = [agent EXCEPT ![a] = next]
    BY <1>4 DEF StartChecks
  <2>2. old.checklists < MAX_STARTS
    BY <1>4 DEF StartChecks
  <2> HIDE DEF old
  <2>3. Starts(old, next)
    BY <1>1, <2>1, <2>2, StartChecksLives
  <2> QED
    BY <2>1, <2>3 DEF Lives, old
<1>5. CASE AcceptDescription(a)
  <2>1. PICK b \in Peers(a) :
          \E next \in StartChecksResults(SetRemoteSessionDescription(old, Described[b])) :
            agent' = [agent EXCEPT ![a] = next]
    BY <1>5 DEF AcceptDescription
  <2>2. old.checklists < MAX_STARTS
    BY <1>5 DEF AcceptDescription
  <2> DEFINE told == SetRemoteSessionDescription(old, Described[b])
  <2> HIDE DEF old
  <2>3. /\ AgentOK(told) /\ told.check_list = old.check_list
        /\ told.checklists = old.checklists
        /\ CanStart(old) => CanStart(told)
    BY <1>1, <1>2, SetRemoteSessionDescriptionOK
  <2>4. PICK next \in StartChecksResults(told) : agent' = [agent EXCEPT ![a] = next]
    BY <2>1
  <2> HIDE DEF told
  <2>5. Starts(old, next)
    BY <2>2, <2>3, <2>4, StartChecksLives
  <2> QED
    BY <2>4, <2>5 DEF Lives, old
<1>6. CASE AddRemoteCandidate(a)
  <2>1. PICK b \in Peers(a) : \E c \in Gathered[b] :
          agent' = [agent EXCEPT ![a] = AddRemoteCandidates(old, {c})]
    BY <1>6 DEF AddRemoteCandidate
  <2>2. PICK c \in Gathered[b] :
          agent' = [agent EXCEPT ![a] = AddRemoteCandidates(old, {c})]
    BY <2>1
  <2> DEFINE new == AddRemoteCandidates(old, {c})
  <2>3. {c} \in SUBSET Candidate
    BY <1>2, <2>1, <2>2
  <2> HIDE DEF old
  <2>4. new.check_list = old.check_list /\ new.state = old.state
        /\ new.checklists = old.checklists
    BY <1>1, <2>3, AddRemoteCandidatesOK
  <2> HIDE DEF new
  <2>5. GoesOn(old, new)
    BY <2>4, KeptGoesOn
  <2> QED
    BY <2>2, <2>5 DEF Lives, old, new
<1>7. CASE Stop(a)
  <2> DEFINE new == OnStop(old)
  <2>1. agent' = [agent EXCEPT ![a] = new] /\ a \in Stoppers
    BY <1>7 DEF Stop
  <2> HIDE DEF old
  <2>2. new.state = "Closed" /\ new.check_list = <<>> /\ SameSetup(old, new)
    BY <1>1, OnStopOK
  <2> HIDE DEF new
  <2>3. DOMAIN new.check_list = {}
    BY <2>2
  <2>4. Stops(a, old, new)
    BY <2>1, <2>2, <2>3 DEF Stops, SameSetup
  <2> QED
    BY <2>1, <2>4 DEF Lives, old, new
<1> QED
  BY <1>3, <1>4, <1>5, <1>6, <1>7

\* A request that finds no pair neither completes an agent nor reopens it.
LEMMA RequestGoesOn ==
    ASSUME NEW old, NEW new, SameSetup(old, new), NEW src, NEW controlling,
           NEW use_candidate,
           RequestEffect(old, src, controlling, use_candidate, new)
    PROVE  GoesOn(old, new)
<1> DEFINE hit == Nominates(old, src, use_candidate, new)
<1>1. DOMAIN new.check_list = DOMAIN old.check_list
      /\ new.checklists = old.checklists
  BY DEF RequestEffect, SameSetup
<1>2. DOMAIN old.check_list = {} => ~hit
  BY PairOfSourceFound DEF Nominates
<1>3. new.state = IF hit /\ ~old.nominated_pair_confirmed
                  THEN "Completed"
                  ELSE IF old.state \in {"New", "Gathering", "Connecting"}
                       THEN "Connected" ELSE old.state
  BY DEF RequestEffect
<1> HIDE DEF hit
<1> QED
  BY <1>1, <1>2, <1>3 DEF GoesOn

\* Ticks and datagrams.
LEMMA NetworkLives ==
    ASSUME SessionInv, NEW a \in Agents,
           \/ Tick(a) \/ ReceiveRequest(a) \/ ReceiveResponse(a)
           \/ ReceiveRoleConflict(a)
    PROVE  \/ UNCHANGED agent
           \/ \E new : /\ agent' = [agent EXCEPT ![a] = new]
                       /\ Lives(a, agent[a], new)
<1> DEFINE old == agent[a]
<1>1. AgentOK(old)
  BY DEF SessionInv, AgentInv
<1>2. CASE Tick(a)
  <2>1. PICK due \in SUBSET Sendable(old) :
          agent' = [agent EXCEPT ![a] = OnTick(old, due)]
    BY <1>2 DEF Tick, TickOn
  <2> DEFINE new == OnTick(old, due)
  <2> HIDE DEF old
  <2>2. /\ SamePairs(old, new) /\ SameSetup(old, new)
        /\ old.state \in Ended => new = old
        /\ new.state \in {old.state, "Failed"}
    BY <1>1, OnTickOK
  <2> HIDE DEF new
  <2>3. GoesOn(old, new)
    BY <2>2 DEF GoesOn, SamePairs, SameSetup, Ended
  <2> QED
    BY <2>1, <2>3 DEF Lives, old, new
<1>3. CASE ReceiveRequest(a)
  <2>1. PICK m \in net :
          /\ m.type = "request" /\ m.to = a
          /\ IF old.remote_ufrag_set
             THEN agent' = [agent EXCEPT ![a] =
                              OnRequest(old, m.src, m.controlling, m.use_candidate)]
             ELSE UNCHANGED agent
    BY <1>3 DEF ReceiveRequest
  <2>2. m.controlling \in BOOLEAN /\ m.use_candidate \in BOOLEAN
    BY <2>1 DEF SessionInv, TypeOK, Requests, Responses
  <2> DEFINE new == OnRequest(old, m.src, m.controlling, m.use_candidate)
  <2> HIDE DEF old
  <2>3. /\ SameSetup(old, new)
        /\ RequestEffect(old, m.src, m.controlling, m.use_candidate, new)
    BY <1>1, <2>2, OnRequestOK, Zenon
  <2> HIDE DEF new
  <2>4. GoesOn(old, new)
    BY <2>3, RequestGoesOn
  <2>5. UNCHANGED agent \/ agent' = [agent EXCEPT ![a] = new]
    BY <2>1 DEF new
  <2> QED
    BY <2>4, <2>5 DEF Lives, old, new
<1>4. CASE ReceiveResponse(a)
  <2>1. PICK m \in net : agent' = [agent EXCEPT ![a] = OnResponse(old, m.tid)]
    BY <1>4 DEF ReceiveResponse
  <2> DEFINE new == OnResponse(old, m.tid)
  <2> HIDE DEF old
  <2>2. /\ SameSetup(old, new)
        /\ DOMAIN new.check_list = DOMAIN old.check_list
        /\ new.state \in {old.state, "Connected", "Completed"}
        /\ old.state = "Completed" => new.state = "Completed"
        /\ DOMAIN old.check_list = {} => new = old
    BY <1>1, OnResponseOK
  <2> HIDE DEF new
  <2>3. GoesOn(old, new)
    BY <2>2 DEF GoesOn, SameSetup
  <2> QED
    BY <2>1, <2>3 DEF Lives, old, new
<1>5. CASE ReceiveRoleConflict(a)
  <2> DEFINE new == OnRoleConflict(old)
  <2>1. agent' = [agent EXCEPT ![a] = new]
    BY <1>5 DEF ReceiveRoleConflict
  <2> HIDE DEF old
  <2>2. SameSetup(old, new) /\ SamePairs(old, new) /\ new.state = old.state
    BY <1>1, OnRoleConflictOK
  <2> HIDE DEF new
  <2>3. GoesOn(old, new)
    BY <2>2, KeptGoesOn DEF SamePairs, SameSetup
  <2> QED
    BY <2>1, <2>3 DEF Lives, old, new
<1> QED
  BY <1>2, <1>3, <1>4, <1>5

\* Every step lets every agent start, stop or go on.
LEMMA EveryStepLives ==
    ASSUME SessionInv, [Next]_vars
    PROVE  \A a \in Agents : Lives(a, agent[a], agent'[a])
<1>1. \A a \in Agents : GoesOn(agent[a], agent[a])
  BY DEF GoesOn
<1>2. CASE UNCHANGED agent
  BY <1>1, <1>2 DEF Lives
<1>3. ASSUME NEW a \in Agents, AgentStep(a)
      PROVE  \/ UNCHANGED agent
             \/ \E new : /\ agent' = [agent EXCEPT ![a] = new]
                         /\ Lives(a, agent[a], new)
  BY <1>3, ApplicationLives, NetworkLives DEF AgentStep
<1>4. ASSUME NEW a \in Agents, NEW new, agent' = [agent EXCEPT ![a] = new],
             Lives(a, agent[a], new)
      PROVE  \A b \in Agents : Lives(b, agent[b], agent'[b])
  <2>1. agent'[a] = new /\ \A b \in Agents : b # a => agent'[b] = agent[b]
    BY <1>4 DEF SessionInv, TypeOK
  <2> QED
    BY <1>1, <1>4, <2>1 DEF Lives
<1>5. \/ UNCHANGED agent
      \/ \E a \in Agents : AgentStep(a)
  BY DEF Next, Lose, Duplicate, vars
<1> QED
  BY <1>2, <1>3, <1>4, <1>5

\* No step gives a stopped agent pairs, or stops one that keeps them.
LEMMA StoppedStep ==
    ASSUME SessionInv, StoppedInv, [Next]_vars
    PROVE  StoppedInv'
<1>1. ASSUME NEW a \in Agents PROVE Stopped(agent'[a])
  BY EveryStepLives DEF StoppedInv, Lives, Starts, Stops, GoesOn, Stopped
<1> QED
  BY <1>1 DEF StoppedInv

\* The inductive invariant of stopped agents.
LEMMA StoppedInvariant == Spec => []StoppedInv
<1>1. Init => StoppedInv
  BY DEF Init, StoppedInv, Stopped, NewAgent
<1> QED
  BY <1>1, SessionInvariant, StoppedStep, PTL DEF Spec

\* A stopped agent stays stopped whatever arrives, until its checks are started
\* again (handle_incoming_stun and tick after stop), in every session.
THEOREM StoppedStaysStopped == Spec => ClosedIsQuiet
<1>1. ASSUME SessionInv, StoppedInv, [Next]_vars, NEW a \in Agents,
             agent[a].state = "Closed", agent'[a].state # "Closed"
      PROVE  agent'[a].checklists > agent[a].checklists \/ ~CanStart(agent[a])
  <2>1. DOMAIN agent[a].check_list = {}
    BY <1>1 DEF StoppedInv, Stopped
  <2>2. Starts(agent[a], agent'[a])
    BY <1>1, <2>1, EveryStepLives DEF Lives, Stops, GoesOn
  <2>3. agent[a].checklists \in Nat
    BY <1>1 DEF SessionInv, TypeOK, Agent
  <2> QED
    BY <2>2, <2>3 DEF Starts
<1>2. SessionInv /\ StoppedInv /\ [Next]_vars =>
        [\A a \in Agents :
           agent[a].state = "Closed" /\ agent'[a].state # "Closed" =>
              \/ agent'[a].checklists > agent[a].checklists
              \/ ~CanStart(agent[a])]_vars
  BY <1>1
<1> QED
  BY <1>2, SessionInvariant, StoppedInvariant, PTL DEF Spec, ClosedIsQuiet

----------------------------------------------------------------------------

\* One list of checks at most, and nobody stops the agents.
CheckedOnce == MAX_STARTS \in {0, 1} /\ Stoppers = {}

\* No step completes an agent that has no list, or builds one unnoticed.
LEMMA BegunStep ==
    ASSUME SessionInv, BegunInv, [Next]_vars
    PROVE  BegunInv'
<1>1. ASSUME NEW a \in Agents PROVE Begun(agent'[a])
  <2>1. agent[a].checklists \in Nat
    BY DEF SessionInv, TypeOK, Agent
  <2> QED
    BY <2>1, EveryStepLives DEF BegunInv, Lives, Starts, Stops, GoesOn, Begun
<1> QED
  BY <1>1 DEF BegunInv

\* The inductive invariant of the first round.
LEMMA BegunInvariant == Spec => []BegunInv
<1>1. Init => BegunInv
  BY DEF Init, BegunInv, Begun, NewAgent
<1> QED
  BY <1>1, SessionInvariant, BegunStep, PTL DEF Spec

\* In one round of checks, between any agents in any roles, no late, repeated or
\* conflicting datagram takes an agent out of Completed.
THEOREM CompletedStaysCompleted ==
    ASSUME CheckedOnce
    PROVE  Spec => CompletedIsStable
<1> DEFINE Keep == \A a \in Agents :
             agent[a].state = "Completed" => agent'[a].state = "Completed"
<1>1. ASSUME SessionInv, BegunInv, [Next]_vars, NEW a \in Agents,
             agent[a].state = "Completed"
      PROVE  agent'[a].state = "Completed"
  <2>1. agent[a].checklists \in Nat \ {0}
    BY <1>1 DEF SessionInv, TypeOK, Agent, BegunInv, Begun
  <2>2. ~(agent[a].checklists < MAX_STARTS)
    BY <1>1, <2>1 DEF CheckedOnce
  <2>3. GoesOn(agent[a], agent'[a])
    BY <1>1, <2>2, EveryStepLives DEF Lives, Starts, Stops, CheckedOnce
  <2> QED
    BY <1>1, <2>3 DEF GoesOn
<1>2. SessionInv /\ BegunInv /\ [Next]_vars => [Keep]_vars
  BY <1>1
<1> QED
  BY <1>2, SessionInvariant, BegunInvariant, PTL DEF Spec, CompletedIsStable

----------------------------------------------------------------------------
(***************************************************************************)
(* In a session of one round of checks between a controlling and a         *)
(* controlled agent, whatever the network loses, repeats or reorders and   *)
(* whatever candidates are trickled, both agents end up on the two ends of *)
(* one path, never leave it, and so implement Nomination.                  *)
(*                                                                         *)
(* The argument: a controlling agent nominates only when it has nothing    *)
(* nominated, so the one pair it ever nominates is the one every           *)
(* USE-CANDIDATE in flight was sent for; the first-match look-up of the    *)
(* controlled agent is a function of the source address, so every such     *)
(* check, late or repeated, marks the same pair.                           *)
(***************************************************************************)


OneRound == MAX_STARTS \in {0, 1} /\ Stoppers = {} /\ MAX_CONFLICTS = 0

OpposedRoles ==
    /\ Agents = {ControllingAgent, ControlledAgent}
    /\ InitialRole[ControllingAgent] = "Controlling"
    /\ InitialRole[ControlledAgent] = "Controlled"

\* The remote candidate of the nominated pair, and the path it stands for.
Selected(ag) == ag.check_list[ag.nominated_pair_idx].remote

PathOfSelected(ag) == Source[ControllingAgent][Selected(ag)]

\* What holds of each agent on its own.
RoundOK(a, ag) ==
    /\ ag.role = InitialRole[a]
    /\ ag.checklists = 0 => DOMAIN ag.check_list = {}
    /\ ag.nominated_pair_idx # 0 => CanSend(ag)
    /\ a = ControllingAgent =>
         \A i \in DOMAIN ag.check_list :
           ag.check_list[i].nominated => i = ag.nominated_pair_idx
    /\ a = ControlledAgent =>
         (ag.nominated_pair_idx # 0 => ag.nominated_pair_confirmed)

\* The controlled agent sends to where the nominated checks come from.
Mirrors(c, d) == CanSend(c) /\ CanSend(d) /\ PathOfSelected(c) = SendTarget(d)

\* A request in flight while the controlling agent is c.
RequestOK(m, c) ==
    /\ m.controlling <=> InitialRole[m.from] = "Controlling"
    /\ m.use_candidate /\ m.from = ControllingAgent =>
         CanSend(c) /\ m.src = PathOfSelected(c)

RoundInv ==
    /\ \A a \in Agents : RoundOK(a, agent[a])
    /\ agent[ControlledAgent].nominated_pair_confirmed =>
         Mirrors(agent[ControllingAgent], agent[ControlledAgent])
    /\ \A m \in net : m.type = "request" => RequestOK(m, agent[ControllingAgent])

----------------------------------------------------------------------------

\* What one step may do to agent a: old and new are the agent before and after.
Advance(a, old, new) ==
    /\ RoundOK(a, new)
    /\ a = ControllingAgent =>
         (CanSend(old) => CanSend(new) /\ Selected(new) = Selected(old))
    /\ a = ControlledAgent =>
         /\ CanSend(old) => CanSend(new) /\ SendTarget(new) = SendTarget(old)
         /\ new.nominated_pair_confirmed =>
              \/ old.nominated_pair_confirmed
              \/ Mirrors(agent[ControllingAgent], new)

AgentsAdvance ==
    \/ UNCHANGED agent
    \/ \E a \in Agents : \E new :
         agent' = [agent EXCEPT ![a] = new] /\ Advance(a, agent[a], new)

\* A request in flight was there before, but for its copy number, or is new.
NetAdvance ==
    \A m \in net' : m.type = "request" =>
        \/ \E o \in net :
             /\ o.type = "request"
             /\ o.from = m.from /\ o.src = m.src
             /\ o.controlling = m.controlling
             /\ o.use_candidate = m.use_candidate
        \/ RequestOK(m, agent'[ControllingAgent])

\* The two agents of a round, and each the only peer of the other.
LEMMA AgentsAre ==
    ASSUME OpposedRoles
    PROVE  /\ ControllingAgent \in Agents /\ ControlledAgent \in Agents
           /\ ControllingAgent # ControlledAgent
           /\ \A a \in Agents : a = ControllingAgent \/ a = ControlledAgent
           /\ \A b \in Peers(ControllingAgent) : b = ControlledAgent
           /\ \A b \in Peers(ControlledAgent) : b = ControllingAgent
  BY DEF OpposedRoles, Peers

\* No pair has index 0.
LEMMA NoPairZero ==
    ASSUME NEW ag, AgentOK(ag)
    PROVE  0 \notin DOMAIN ag.check_list
  BY DEF AgentOK, Agent

\* A step that keeps the pairs, the nomination and the role.
LEMMA KeptAdvances ==
    ASSUME OpposedRoles, NEW a \in Agents, NEW old, RoundOK(a, old), NEW new,
           new.role = old.role, SamePairs(old, new),
           new.checklists = old.checklists,
           new.nominated_pair_idx = old.nominated_pair_idx,
           a = ControlledAgent =>
             new.nominated_pair_confirmed = old.nominated_pair_confirmed
    PROVE  Advance(a, old, new)
<1>1. CanSend(old) => CanSend(new) /\ Selected(new) = Selected(old)
                      /\ SendTarget(new) = SendTarget(old)
  BY DEF CanSend, SamePairs, Selected, SendTarget
<1>2. RoundOK(a, new)
  BY <1>1 DEF RoundOK, SamePairs, CanSend
<1> QED
  BY <1>1, <1>2 DEF Advance

\* The controlling agent nominates its first pair.
LEMMA ChosenAdvances ==
    ASSUME OpposedRoles, NEW old, AgentOK(old), NEW new,
           RoundOK(ControllingAgent, old),
           new.role = old.role, new.checklists = old.checklists,
           DOMAIN new.check_list = DOMAIN old.check_list,
           old.nominated_pair_idx = 0,
           new.nominated_pair_idx \in DOMAIN old.check_list,
           \A j \in DOMAIN old.check_list :
             new.check_list[j].nominated <=>
               (old.check_list[j].nominated \/ j = new.nominated_pair_idx)
    PROVE  Advance(ControllingAgent, old, new)
<1>1. ~CanSend(old) /\ \A j \in DOMAIN old.check_list : ~old.check_list[j].nominated
  BY NoPairZero DEF CanSend, RoundOK
<1>2. CanSend(new)
  BY DEF CanSend
<1>3. RoundOK(ControllingAgent, new)
  BY <1>1, <1>2, AgentsAre DEF RoundOK
<1> QED
  BY <1>1, <1>3, AgentsAre DEF Advance

\* start_checks in the only round: the agent had no list and no nomination.
LEMMA StartedAdvances ==
    ASSUME OpposedRoles, OneRound, SessionInv, RoundInv,
           NEW a \in Agents, NEW ag, AgentOK(ag),
           ag.role = agent[a].role, ag.check_list = agent[a].check_list,
           ag.checklists = agent[a].checklists,
           ag.nominated_pair_idx = agent[a].nominated_pair_idx,
           ag.nominated_pair_confirmed = agent[a].nominated_pair_confirmed,
           agent[a].checklists < MAX_STARTS,
           NEW next \in StartChecksResults(ag)
    PROVE  Advance(a, agent[a], next)
<1> DEFINE old == agent[a]
<1>1. RoundOK(a, old)
  BY DEF RoundInv
<1>2. /\ AgentOK(next) /\ next.role = old.role
      /\ next.nominated_pair_idx = old.nominated_pair_idx
      /\ next.nominated_pair_confirmed = old.nominated_pair_confirmed
      /\ \/ next.check_list = old.check_list /\ next.checklists = old.checklists
         \/ /\ next.checklists = old.checklists + 1
            /\ \A i \in DOMAIN next.check_list : next.check_list[i].nominated = FALSE
  <2>1. /\ AgentOK(next) /\ next.role = ag.role
        /\ next.nominated_pair_idx = ag.nominated_pair_idx
        /\ next.nominated_pair_confirmed = ag.nominated_pair_confirmed
    BY StartChecksOK, Zenon
  <2>2. \/ next.check_list = ag.check_list /\ next.checklists = ag.checklists
        \/ /\ next.checklists = ag.checklists + 1
           /\ \A i \in DOMAIN next.check_list : next.check_list[i].nominated = FALSE
    BY StartChecksOK, ZenonT(60)
  <2> QED
    BY <2>1, <2>2
<1>3. CASE next.check_list = old.check_list /\ next.checklists = old.checklists
  <2> HIDE DEF old
  <2>1. SamePairs(old, next)
    BY <1>3 DEF SamePairs
  <2>2. Advance(a, old, next)
    BY <1>1, <1>2, <1>3, <2>1, KeptAdvances
  <2> QED
    BY <2>2 DEF old
<1>4. CASE /\ next.checklists = old.checklists + 1
           /\ \A i \in DOMAIN next.check_list : next.check_list[i].nominated = FALSE
  <2>1. old.checklists \in Nat /\ AgentOK(old)
    BY DEF SessionInv, AgentInv, AgentOK, Agent
  <2>2. old.checklists = 0
    BY <2>1 DEF OneRound
  <2>3. DOMAIN old.check_list = {}
    BY <1>1, <2>2 DEF RoundOK
  <2>4. ~CanSend(old) /\ old.nominated_pair_idx = 0
    BY <1>1, <2>3 DEF RoundOK, CanSend
  <2>5. next.checklists # 0
    BY <1>4, <2>1
  <2>6. a = ControlledAgent => ~old.nominated_pair_confirmed
    BY <2>4 DEF RoundInv, Mirrors
  <2> HIDE DEF old
  <2>7. RoundOK(a, next)
    BY <1>1, <1>2, <1>4, <2>4, <2>5 DEF RoundOK
  <2>8. Advance(a, old, next)
    BY <1>2, <2>4, <2>6, <2>7 DEF Advance
  <2> QED
    BY <2>8 DEF old
<1> QED
  BY <1>2, <1>3, <1>4

\* A step that sends nothing new.
LEMMA NothingSent ==
    ASSUME \A m \in net' : m.type = "request" => m \in net
    PROVE  NetAdvance
  BY DEF NetAdvance

\* Calls of the application advance a round.
LEMMA ApplicationAdvances ==
    ASSUME OpposedRoles, OneRound, SessionInv, RoundInv, NEW a \in Agents,
           \/ SetRemoteDescription(a) \/ StartChecks(a)
           \/ AcceptDescription(a) \/ AddRemoteCandidate(a)
    PROVE  AgentsAdvance /\ NetAdvance
<1> DEFINE old == agent[a]
<1>1. AgentOK(old) /\ RoundOK(a, old)
  BY DEF SessionInv, AgentInv, RoundInv
<1>2. NetAdvance
  BY NothingSent DEF SetRemoteDescription, StartChecks, AcceptDescription,
     AddRemoteCandidate
<1>3. \A b \in Peers(a) : Described[b] \in SUBSET Candidate
                          /\ Gathered[b] \in SUBSET Candidate
  BY SessionAssumption DEF Peers
<1>4. CASE SetRemoteDescription(a)
  <2>1. PICK b \in Peers(a) :
          agent' = [agent EXCEPT ![a] = SetRemoteSessionDescription(old, Described[b])]
    BY <1>4 DEF SetRemoteDescription
  <2> DEFINE new == SetRemoteSessionDescription(old, Described[b])
  <2> HIDE DEF old
  <2>2. /\ new.check_list = old.check_list /\ new.role = old.role
        /\ new.nominated_pair_idx = old.nominated_pair_idx
        /\ new.nominated_pair_confirmed = old.nominated_pair_confirmed
        /\ new.checklists = old.checklists
    BY <1>1, <1>3, SetRemoteSessionDescriptionOK
  <2> HIDE DEF new
  <2>3. Advance(a, old, new)
    BY <1>1, <2>2, KeptAdvances DEF SamePairs
  <2> QED
    BY <1>2, <2>1, <2>3 DEF AgentsAdvance, new, old
<1>5. CASE StartChecks(a)
  <2>1. PICK next \in StartChecksResults(old) : agent' = [agent EXCEPT ![a] = next]
    BY <1>5 DEF StartChecks
  <2>2. Advance(a, old, next)
    BY <1>1, <1>5, <2>1, StartedAdvances DEF StartChecks
  <2> QED
    BY <1>2, <2>1, <2>2 DEF AgentsAdvance
<1>6. CASE AcceptDescription(a)
  <2>1. PICK b \in Peers(a) :
          \E next \in StartChecksResults(
                         SetRemoteSessionDescription(old, Described[b])) :
            agent' = [agent EXCEPT ![a] = next]
    BY <1>6 DEF AcceptDescription
  <2> DEFINE told == SetRemoteSessionDescription(old, Described[b])
  <2>2. /\ told.check_list = old.check_list /\ told.role = old.role
        /\ told.nominated_pair_idx = old.nominated_pair_idx
        /\ told.nominated_pair_confirmed = old.nominated_pair_confirmed
        /\ told.checklists = old.checklists /\ AgentOK(told)
    BY <1>1, <1>3, SetRemoteSessionDescriptionOK
  <2> HIDE DEF told
  <2>3. PICK next \in StartChecksResults(told) : agent' = [agent EXCEPT ![a] = next]
    BY <2>1 DEF told
  <2>4. old.checklists < MAX_STARTS
    BY <1>6 DEF AcceptDescription
  <2>5. Advance(a, old, next)
    BY <2>2, <2>3, <2>4, StartedAdvances
  <2> QED
    BY <1>2, <2>3, <2>5 DEF AgentsAdvance
<1>7. CASE AddRemoteCandidate(a)
  <2>1. PICK b \in Peers(a) : \E c \in Gathered[b] :
          agent' = [agent EXCEPT ![a] = AddRemoteCandidates(old, {c})]
    BY <1>7 DEF AddRemoteCandidate
  <2>2. PICK c \in Gathered[b] :
          agent' = [agent EXCEPT ![a] = AddRemoteCandidates(old, {c})]
    BY <2>1
  <2>3. {c} \in SUBSET Candidate
    BY <1>3, <2>2
  <2> DEFINE new == AddRemoteCandidates(old, {c})
  <2> HIDE DEF old
  <2>4. /\ new.check_list = old.check_list /\ new.role = old.role
        /\ new.nominated_pair_idx = old.nominated_pair_idx
        /\ new.nominated_pair_confirmed = old.nominated_pair_confirmed
        /\ new.checklists = old.checklists
    BY <1>1, <2>3, AddRemoteCandidatesOK
  <2> HIDE DEF new
  <2>5. Advance(a, old, new)
    BY <1>1, <2>4, KeptAdvances DEF SamePairs
  <2> QED
    BY <1>2, <2>2, <2>5 DEF AgentsAdvance, new, old
<1> QED
  BY <1>4, <1>5, <1>6, <1>7

\* So does a tick: what it sends carries the nomination only if there is one.
LEMMA TickAdvances ==
    ASSUME OpposedRoles, SessionInv, RoundInv,
           NEW a \in Agents, NEW due \in SUBSET Sendable(agent[a]), TickOn(a, due)
    PROVE  AgentsAdvance /\ NetAdvance
<1> DEFINE old == agent[a]
           new == OnTick(old, due)
<1>1. AgentOK(old) /\ RoundOK(a, old) /\ AgentInv(a, old)
  BY DEF SessionInv, AgentInv, RoundInv
<1>2. /\ SamePairs(old, new) /\ SameSetup(old, new) /\ new.role = old.role
      /\ new.nominated_pair_idx = old.nominated_pair_idx
      /\ new.nominated_pair_confirmed = old.nominated_pair_confirmed
      /\ AgentOK(new)
  BY <1>1, OnTickOK
<1>3. agent' = [agent EXCEPT ![a] = new] /\ net' = net \cup RequestsOf(a, new, due)
  BY DEF TickOn
<1>4. due \subseteq DOMAIN old.check_list
  BY DEF Sendable
<1> HIDE DEF new, old
<1>5. Advance(a, old, new)
  BY <1>1, <1>2, KeptAdvances DEF SameSetup
<1>6. AgentInv(a, new)
  BY <1>1, <1>2, SameRemotes DEF SamePairs, SameSetup
<1>7. agent'[ControllingAgent] = IF a = ControllingAgent THEN new
                                 ELSE agent[ControllingAgent]
  BY <1>3, AgentsAre DEF SessionInv, TypeOK
<1>8. ASSUME NEW i \in due, RequestOf(a, new, i).src # NoRoute
      PROVE  RequestOK(RequestOf(a, new, i), agent'[ControllingAgent])
  <2> DEFINE m == RequestOf(a, new, i)
  <2>1. i \in DOMAIN new.check_list
    BY <1>2, <1>4 DEF SamePairs
  <2>2. /\ m.from = a /\ m.src = Source[a][new.check_list[i].remote]
        /\ m.controlling = (new.role = "Controlling")
        /\ m.use_candidate = new.check_list[i].nominated
    BY DEF RequestOf
  <2> HIDE DEF m
  <2>3. m.controlling <=> InitialRole[m.from] = "Controlling"
    BY <1>1, <1>2, <2>2 DEF RoundOK
  <2>4. ASSUME m.use_candidate, m.from = ControllingAgent
        PROVE  CanSend(new) /\ m.src = PathOfSelected(new)
    <3>1. a = ControllingAgent
      BY <2>2, <2>4
    <3>2. i = new.nominated_pair_idx
      BY <1>5, <2>1, <2>2, <2>4, <3>1 DEF Advance, RoundOK
    <3> QED
      BY <2>1, <2>2, <3>1, <3>2 DEF CanSend, PathOfSelected, Selected
  <2> QED
    BY <1>7, <2>2, <2>3, <2>4 DEF RequestOK, m
<1>9. NetAdvance
  BY <1>3, <1>8 DEF NetAdvance, RequestsOf
<1> QED
  BY <1>3, <1>5, <1>9 DEF AgentsAdvance, old

\* A check the controlling agent receives nominates nothing; one the controlled
\* agent receives nominates, if at all, the pair of the controlling agent's path.
LEMMA RequestAdvances ==
    ASSUME OpposedRoles, SessionInv, RoundInv, NEW a \in Agents, ReceiveRequest(a)
    PROVE  AgentsAdvance /\ NetAdvance
<1>1. PICK m \in net :
        /\ m.type = "request" /\ m.to = a
        /\ IF agent[a].remote_ufrag_set
           THEN /\ agent' = [agent EXCEPT ![a] =
                               OnRequest(@, m.src, m.controlling, m.use_candidate)]
                /\ net' = (net \ {m}) \cup {ResponseTo(m)}
           ELSE /\ net' = net \ {m}
                /\ UNCHANGED agent
  BY DEF ReceiveRequest
<1>2. m \in Requests /\ m.to \in Peers(m.from)
  BY <1>1 DEF SessionInv, TypeOK, NetInv, Requests, Responses
<1>3. NetAdvance
  <2>1. ResponseTo(m).type # "request"
    BY DEF ResponseTo
  <2> QED
    BY <1>1, <2>1, NothingSent
<1>4. CASE ~agent[a].remote_ufrag_set
  BY <1>1, <1>3, <1>4 DEF AgentsAdvance
<1>5. CASE agent[a].remote_ufrag_set
  <2> DEFINE old == agent[a]
             new == OnRequest(old, m.src, m.controlling, m.use_candidate)
             i == PairOfSource(old, m.src)
             nominate == Nominates(old, m.src, m.use_candidate, new)
  <2>1. AgentOK(old) /\ RoundOK(a, old)
    BY DEF SessionInv, AgentInv, RoundInv
  <2>2. /\ m.controlling \in BOOLEAN /\ m.use_candidate \in BOOLEAN
        /\ m.from \in Agents /\ a \in Peers(m.from) /\ m.from # a
    BY <1>1, <1>2 DEF Requests, Peers
  <2>3. /\ AgentOK(new) /\ SameSetup(old, new)
        /\ RequestEffect(old, m.src, m.controlling, m.use_candidate, new)
    BY <2>1, <2>2, OnRequestOK, Zenon
  <2>4. agent' = [agent EXCEPT ![a] = new]
    BY <1>1, <1>5
  <2>5. RequestOK(m, agent[ControllingAgent])
    BY <1>1 DEF RoundInv
  <2>6. i # 0 => i \in DOMAIN old.check_list /\ old.check_list[i].remote.addr = m.src
    BY PairOfSourceFound
  <2> HIDE DEF new, old, i, nominate
  <2>7. /\ new.role = RoleAfterRequest(old, m.controlling)
        /\ DOMAIN new.check_list = DOMAIN old.check_list
        /\ \A j \in DOMAIN old.check_list :
             /\ new.check_list[j].remote = old.check_list[j].remote
             /\ new.check_list[j].nominated <=>
                  (old.check_list[j].nominated \/ (j = i /\ nominate))
        /\ new.nominated_pair_idx = IF nominate THEN i ELSE old.nominated_pair_idx
        /\ new.nominated_pair_confirmed <=> (old.nominated_pair_confirmed \/ nominate)
        /\ new.checklists = old.checklists
    BY <2>3 DEF RequestEffect, SameSetup, i, nominate
  <2>8. nominate => i # 0 /\ m.use_candidate /\ new.role = "Controlled"
    BY DEF Nominates, nominate, i
  <2>9. new.role = old.role
    BY <2>1, <2>2, <2>5, <2>7, AgentsAre DEF RoundOK, RequestOK, OpposedRoles,
       RoleAfterRequest
  <2>10. CASE ~nominate
    <3>1. SamePairs(old, new)
      <4>1. \A j \in DOMAIN old.check_list :
              /\ old.check_list[j].nominated \in BOOLEAN
              /\ new.check_list[j].nominated \in BOOLEAN
        BY <2>1, <2>3, <2>7, PairFields DEF AgentOK
      <4> QED
        BY <2>7, <2>10, <4>1 DEF SamePairs
    <3>2. new.nominated_pair_confirmed = old.nominated_pair_confirmed
      BY <2>1, <2>3, <2>7, <2>10 DEF AgentOK, Agent
    <3>3. Advance(a, old, new)
      BY <2>1, <2>7, <2>9, <2>10, <3>1, <3>2, KeptAdvances
    <3> QED
      BY <1>3, <2>4, <3>3 DEF AgentsAdvance, old
  <2>11. CASE nominate
    <3>1. /\ a = ControlledAgent /\ a # ControllingAgent
          /\ m.from = ControllingAgent
      BY <2>1, <2>2, <2>8, <2>9, <2>11, AgentsAre DEF RoundOK, OpposedRoles
    <3>2. /\ CanSend(agent[ControllingAgent])
          /\ m.src = PathOfSelected(agent[ControllingAgent])
      BY <2>5, <2>8, <2>11, <3>1 DEF RequestOK
    <3>3. CanSend(new) /\ SendTarget(new) = m.src
      BY <2>6, <2>7, <2>8, <2>11 DEF CanSend, SendTarget
    <3>4. CanSend(old) => SendTarget(old) = m.src
      <4>1. CanSend(old) => old.nominated_pair_confirmed
        BY <2>1, <3>1, NoPairZero DEF CanSend, RoundOK
      <4>2. old.nominated_pair_confirmed =>
              Mirrors(agent[ControllingAgent], old)
        BY <3>1 DEF RoundInv, old
      <4> QED
        BY <3>2, <4>1, <4>2 DEF Mirrors
    <3>5. RoundOK(a, new)
      BY <2>1, <2>7, <2>9, <2>11, <3>1, <3>3 DEF RoundOK
    <3>6. Mirrors(agent[ControllingAgent], new)
      BY <3>2, <3>3 DEF Mirrors
    <3>7. Advance(a, old, new)
      BY <3>1, <3>3, <3>4, <3>5, <3>6 DEF Advance
    <3> QED
      BY <1>3, <2>4, <3>7 DEF AgentsAdvance, old
  <2> QED
    BY <2>10, <2>11
<1> QED
  BY <1>4, <1>5

\* So does a success response: it nominates at most once.
LEMMA ResponseAdvances ==
    ASSUME OpposedRoles, SessionInv, RoundInv, NEW a \in Agents, ReceiveResponse(a)
    PROVE  AgentsAdvance /\ NetAdvance
<1>1. PICK m \in net :
        agent' = [agent EXCEPT ![a] = OnResponse(@, m.tid)] /\ net' = net \ {m}
  BY DEF ReceiveResponse
<1>2. NetAdvance
  BY <1>1, NothingSent
<1> DEFINE old == agent[a]
           new == OnResponse(old, m.tid)
<1>3. AgentOK(old) /\ RoundOK(a, old)
  BY DEF SessionInv, AgentInv, RoundInv
<1>4. agent' = [agent EXCEPT ![a] = new]
  BY <1>1
<1> HIDE DEF old
<1>5. /\ SameSetup(old, new) /\ new.role = old.role
      /\ DOMAIN new.check_list = DOMAIN old.check_list
      /\ \/ /\ SamePairs(old, new)
            /\ new.nominated_pair_idx = old.nominated_pair_idx
            /\ \/ old.role = "Controlling"
               \/ new.nominated_pair_confirmed = old.nominated_pair_confirmed
         \/ /\ old.role = "Controlling" /\ old.nominated_pair_idx = 0
            /\ new.nominated_pair_idx \in DOMAIN old.check_list
            /\ \A j \in DOMAIN old.check_list :
                 /\ new.check_list[j].remote = old.check_list[j].remote
                 /\ new.check_list[j].nominated <=>
                      (\/ old.check_list[j].nominated
                       \/ j = new.nominated_pair_idx)
  BY <1>3, OnResponseOK
<1> HIDE DEF new
<1>6. a = ControlledAgent <=> old.role # "Controlling"
  BY <1>3, AgentsAre DEF RoundOK, OpposedRoles
<1>7. Advance(a, old, new)
  <2>1. CASE /\ SamePairs(old, new)
             /\ new.nominated_pair_idx = old.nominated_pair_idx
             /\ \/ old.role = "Controlling"
                \/ new.nominated_pair_confirmed = old.nominated_pair_confirmed
    BY <1>3, <1>5, <1>6, <2>1, KeptAdvances DEF SameSetup
  <2>2. CASE /\ old.role = "Controlling" /\ old.nominated_pair_idx = 0
             /\ new.nominated_pair_idx \in DOMAIN old.check_list
             /\ \A j \in DOMAIN old.check_list :
                  /\ new.check_list[j].remote = old.check_list[j].remote
                  /\ new.check_list[j].nominated <=>
                       (\/ old.check_list[j].nominated
                        \/ j = new.nominated_pair_idx)
    <3>1. a = ControllingAgent
      BY <1>6, <2>2, AgentsAre
    <3> QED
      BY <1>3, <1>5, <2>2, <3>1, ChosenAdvances DEF SameSetup
  <2> QED
    BY <1>5, <2>1, <2>2
<1> QED
  BY <1>2, <1>4, <1>7 DEF AgentsAdvance, old

\* So do the faults of the network.
LEMMA NetworkAdvances ==
    ASSUME SessionInv, Lose \/ Duplicate
    PROVE  AgentsAdvance /\ NetAdvance
<1>1. CASE Lose
  BY <1>1, NothingSent DEF Lose, AgentsAdvance
<1>2. CASE Duplicate
  <2>1. PICK o \in net : net' = net \cup {[o EXCEPT !.copy = faults.copies + 1]}
    BY <1>2 DEF Duplicate
  <2> DEFINE d == [o EXCEPT !.copy = faults.copies + 1]
  <2>2. o.type = "request" => o \in Requests
    BY DEF SessionInv, TypeOK, Requests, Responses
  <2>3. d.type = "request" =>
          /\ o.type = "request" /\ o.from = d.from /\ o.src = d.src
          /\ o.controlling = d.controlling /\ o.use_candidate = d.use_candidate
    <3>1. CASE o \in Requests
      BY <3>1 DEF Requests
    <3>2. CASE o \in Responses
      BY <3>2 DEF Responses
    <3> QED
      BY <3>1, <3>2 DEF SessionInv, TypeOK
  <2> HIDE DEF d
  <2>4. net' = net \cup {d}
    BY <2>1 DEF d
  <2>5. NetAdvance
    BY <2>3, <2>4 DEF NetAdvance
  <2> QED
    BY <1>2, <2>5 DEF Duplicate, AgentsAdvance
<1> QED
  BY <1>1, <1>2

----------------------------------------------------------------------------

\* Every step of a round advances both agents and the network.
LEMMA StepAdvances ==
    ASSUME OpposedRoles, OneRound, SessionInv, RoundInv, [Next]_vars
    PROVE  AgentsAdvance /\ NetAdvance
<1>1. ASSUME NEW a \in Agents,
             \/ SetRemoteDescription(a) \/ StartChecks(a)
             \/ AcceptDescription(a) \/ AddRemoteCandidate(a)
      PROVE  AgentsAdvance /\ NetAdvance
  BY <1>1, ApplicationAdvances
<1>2. ASSUME NEW a \in Agents, Stop(a) PROVE FALSE
  BY <1>2 DEF Stop, OneRound
<1>3. ASSUME NEW a \in Agents, Tick(a) PROVE AgentsAdvance /\ NetAdvance
  BY <1>3, TickAdvances DEF Tick
<1>4. ASSUME NEW a \in Agents, ReceiveRequest(a) PROVE AgentsAdvance /\ NetAdvance
  BY <1>4, RequestAdvances
<1>5. ASSUME NEW a \in Agents, ReceiveResponse(a) PROVE AgentsAdvance /\ NetAdvance
  BY <1>5, ResponseAdvances
<1>6. ASSUME NEW a \in Agents, ReceiveRoleConflict(a) PROVE FALSE
  <2>1. faults.conflicts \in Nat
    BY DEF SessionInv, TypeOK, Faults
  <2> QED
    BY <1>6, <2>1 DEF ReceiveRoleConflict, OneRound
<1>7. CASE Lose \/ Duplicate
  BY <1>7, NetworkAdvances
<1>8. CASE UNCHANGED vars
  BY <1>8, NothingSent DEF vars, AgentsAdvance
<1> QED
  BY <1>1, <1>2, <1>3, <1>4, <1>5, <1>6, <1>7, <1>8 DEF Next, AgentStep

\* The invariant of a round holds in the beginning.
LEMMA RoundInit == OpposedRoles /\ Init => RoundInv
<1> SUFFICES ASSUME OpposedRoles, Init PROVE RoundInv
  OBVIOUS
<1>1. \A a \in Agents :
        /\ agent[a].role = InitialRole[a] /\ agent[a].check_list = <<>>
        /\ agent[a].nominated_pair_idx = 0
        /\ agent[a].nominated_pair_confirmed = FALSE
  BY DEF Init, NewAgent
<1> QED
  BY <1>1, AgentsAre DEF RoundInv, RoundOK, Init

\* And is kept by steps that advance the round.
LEMMA RoundStep ==
    ASSUME OpposedRoles, OneRound, SessionInv, RoundInv, [Next]_vars
    PROVE  RoundInv'
<1> DEFINE c == ControllingAgent
           d == ControlledAgent
<1>1. AgentsAdvance /\ NetAdvance
  BY StepAdvances
<1>2. c \in Agents /\ d \in Agents /\ c # d /\ \A a \in Agents : a = c \/ a = d
  BY AgentsAre
<1>3. agent \in [Agents -> Agent]
  BY DEF SessionInv, TypeOK
<1> HIDE DEF c, d
<1>4. \A a \in Agents : RoundOK(a, agent'[a])
  BY <1>1, <1>3 DEF AgentsAdvance, Advance, RoundInv
<1>5. CanSend(agent[c]) =>
        CanSend(agent'[c]) /\ Selected(agent'[c]) = Selected(agent[c])
  BY <1>1, <1>2, <1>3 DEF AgentsAdvance, Advance, c
<1>6. CanSend(agent[d]) =>
        CanSend(agent'[d]) /\ SendTarget(agent'[d]) = SendTarget(agent[d])
  BY <1>1, <1>2, <1>3 DEF AgentsAdvance, Advance, d
<1>7. ASSUME agent'[d].nominated_pair_confirmed
      PROVE  Mirrors(agent'[c], agent'[d])
  <2>1. CASE agent[d].nominated_pair_confirmed
    <3>1. Mirrors(agent[c], agent[d])
      BY <2>1 DEF RoundInv, c, d
    <3> QED
      BY <3>1, <1>5, <1>6 DEF Mirrors, PathOfSelected
  <2>2. CASE ~agent[d].nominated_pair_confirmed
    <3>1. PICK a \in Agents : \E new :
            agent' = [agent EXCEPT ![a] = new] /\ Advance(a, agent[a], new)
      BY <1>1, <1>7, <2>2 DEF AgentsAdvance
    <3>2. PICK new :
            agent' = [agent EXCEPT ![a] = new] /\ Advance(a, agent[a], new)
      BY <3>1
    <3>3. a = d
      BY <1>2, <1>3, <1>7, <2>2, <3>2
    <3>4. agent'[d] = new /\ agent'[c] = agent[c]
      BY <1>2, <1>3, <3>2, <3>3
    <3>5. Mirrors(agent[c], new)
      BY <1>7, <2>2, <3>2, <3>3, <3>4 DEF Advance, c, d
    <3> QED
      BY <3>4, <3>5
  <2> QED
    BY <2>1, <2>2
<1>8. ASSUME NEW m \in net', m.type = "request"
      PROVE  RequestOK(m, agent'[c])
  <2>1. CASE RequestOK(m, agent'[c])
    BY <2>1
  <2>2. CASE \E o \in net :
               /\ o.type = "request" /\ o.from = m.from /\ o.src = m.src
               /\ o.controlling = m.controlling
               /\ o.use_candidate = m.use_candidate
    <3>1. PICK o \in net :
               /\ o.type = "request" /\ o.from = m.from /\ o.src = m.src
               /\ o.controlling = m.controlling
               /\ o.use_candidate = m.use_candidate
      BY <2>2
    <3>2. RequestOK(o, agent[c])
      BY <3>1 DEF RoundInv, c
    <3> QED
      BY <1>5, <3>1, <3>2 DEF RequestOK, PathOfSelected
  <2> QED
    BY <1>1, <1>8, <2>1, <2>2 DEF NetAdvance, c
<1> QED
  BY <1>4, <1>7, <1>8 DEF RoundInv, c, d

\* The inductive invariant of one round between a controlling and a controlled agent.
THEOREM RoundInvariant ==
    ASSUME OpposedRoles, OneRound
    PROVE  Spec => []RoundInv
<1>1. Init => RoundInv
  BY RoundInit
<1>2. SessionInv /\ RoundInv /\ [Next]_vars => RoundInv'
  BY RoundStep
<1> QED
  BY <1>1, <1>2, SessionInvariant, PTL DEF Spec

\* Both agents are on the two ends of one path: a controlled agent confirms
\* only the pair the controlling agent nominated (agent.rs, handle_incoming_stun).
THEOREM NominationMirrors ==
    ASSUME OpposedRoles, OneRound
    PROVE  Spec => []PathsMirror
<1>1. RoundInv => PathsMirror
  <2> SUFFICES ASSUME RoundInv, NEW a \in Agents, NEW b \in Peers(a),
                      agent[b].role = "Controlled", agent[b].nominated_pair_confirmed
               PROVE  /\ CanSend(agent[a]) /\ CanSend(agent[b])
                      /\ Source[a][agent[a].check_list[agent[a].nominated_pair_idx].remote]
                             = SendTarget(agent[b])
    BY DEF PathsMirror
  <2>1. b \in Agents /\ b # a
    BY DEF Peers
  <2>2. b = ControlledAgent /\ a = ControllingAgent
    BY <2>1, AgentsAre DEF RoundInv, RoundOK, OpposedRoles
  <2> QED
    BY <2>2 DEF RoundInv, Mirrors, PathOfSelected, Selected
<1> QED
  BY <1>1, RoundInvariant, PTL

\* An agent that can send keeps its path in every step.
LEMMA PathKept ==
    ASSUME OpposedRoles, OneRound, SessionInv, RoundInv, [Next]_vars,
           NEW a \in Agents, CanSend(agent[a])
    PROVE  /\ CanSend(agent'[a]) /\ SendTarget(agent'[a]) = SendTarget(agent[a])
           /\ a = ControllingAgent => Selected(agent'[a]) = Selected(agent[a])
<1>1. AgentsAdvance
  BY StepAdvances
<1>2. agent \in [Agents -> Agent]
  BY DEF SessionInv, TypeOK
<1>3. CASE agent'[a] = agent[a]
  BY <1>3
<1>4. CASE agent'[a] # agent[a]
  <2>1. Advance(a, agent[a], agent'[a])
    BY <1>1, <1>2, <1>4 DEF AgentsAdvance
  <2> QED
    BY <2>1, AgentsAre DEF Advance, Selected, SendTarget
<1> QED
  BY <1>3, <1>4

\* Once an agent has a path it never leaves it (agent.rs, send_data).
THEOREM PathNeverMoves ==
    ASSUME OpposedRoles, OneRound
    PROVE  Spec => PathIsStable
<1> DEFINE Keep == \A a \in Agents : CanSend(agent[a]) =>
                     CanSend(agent'[a]) /\ SendTarget(agent'[a]) = SendTarget(agent[a])
<1>1. SessionInv /\ RoundInv /\ [Next]_vars => [Keep]_vars
  BY PathKept
<1> QED
  BY <1>1, SessionInvariant, RoundInvariant, PTL DEF Spec, PathIsStable

----------------------------------------------------------------------------
(* The session implements Nomination *)

\* A step chooses, adopts or leaves both paths as they are.
LEMMA StepRefines ==
    ASSUME OpposedRoles, OneRound, SessionInv, RoundInv, RoundInv', SessionInv',
           [Next]_vars
    PROVE  [Promise!Next]_<<ChosenPath, AdoptedPath>>
<1> DEFINE c == ControllingAgent
           d == ControlledAgent
<1>1. AgentsAdvance /\ agent \in [Agents -> Agent]
  BY StepAdvances DEF SessionInv, TypeOK
<1>2. c \in Agents /\ d \in Agents /\ c # d
  BY AgentsAre
<1>3. ChosenPath # NoRoute => ChosenPath' = ChosenPath
  <2>1. CanSend(agent[c]) => CanSend(agent'[c])
                             /\ Selected(agent'[c]) = Selected(agent[c])
    BY <1>2, PathKept
  <2> QED
    BY <2>1 DEF ChosenPath, PathOf, Selected
<1>4. ChosenPath' \in Addresses \cup {NoRoute}
  <2>1. PathOf(c)' \in Addresses \cup {NoRoute}
    <3>1. CanSend(agent'[c]) => Selected(agent'[c]) \in Candidate
      BY <1>2, PairFields DEF SessionInv, AgentInv, AgentOK, CanSend, Selected
    <3> QED
      BY <1>2, <3>1, SessionAssumption DEF PathOf, Selected, Addresses
  <2> QED
    BY <2>1 DEF ChosenPath
<1>5. AdoptedPath' # AdoptedPath =>
        AdoptedPath = NoRoute /\ AdoptedPath' = ChosenPath' /\ ChosenPath' # NoRoute
  <2>1. agent[d].nominated_pair_confirmed =>
          /\ CanSend(agent[d]) /\ agent'[d].nominated_pair_confirmed
          /\ CanSend(agent'[d]) /\ SendTarget(agent'[d]) = SendTarget(agent[d])
    <3> SUFFICES ASSUME agent[d].nominated_pair_confirmed
                 PROVE  /\ CanSend(agent[d]) /\ agent'[d].nominated_pair_confirmed
                        /\ CanSend(agent'[d])
                        /\ SendTarget(agent'[d]) = SendTarget(agent[d])
      OBVIOUS
    <3>1. CanSend(agent[d])
      BY DEF RoundInv, Mirrors
    <3>2. CanSend(agent'[d]) /\ SendTarget(agent'[d]) = SendTarget(agent[d])
      BY <1>2, <3>1, PathKept
    <3>3. agent'[d].nominated_pair_idx # 0
      BY <1>2, <3>2, NoPairZero DEF SessionInv, AgentInv, CanSend
    <3>4. RoundOK(d, agent'[d])
      BY <1>2 DEF RoundInv
    <3> QED
      BY <3>1, <3>2, <3>3, <3>4 DEF RoundOK
  <2>2. agent'[d].nominated_pair_confirmed =>
          /\ CanSend(agent'[c]) /\ CanSend(agent'[d])
          /\ PathOfSelected(agent'[c]) = SendTarget(agent'[d])
    BY DEF RoundInv, Mirrors
  <2>3. CanSend(agent'[d]) => SendTarget(agent'[d]) # NoRoute
    <3>1. CanSend(agent'[d]) => Selected(agent'[d]) \in Candidate
      BY <1>2, PairFields DEF SessionInv, AgentInv, AgentOK, CanSend, Selected
    <3> QED
      BY <3>1, SessionAssumption DEF Selected, SendTarget, Addresses
  <2> QED
    BY <2>1, <2>2, <2>3 DEF AdoptedPath, ChosenPath, PathOf, PathOfSelected, Selected
<1>6. ChosenPath' = ChosenPath \/ AdoptedPath' = AdoptedPath
  <2>1. agent'[c] = agent[c] \/ agent'[d] = agent[d]
    BY <1>1, <1>2 DEF AgentsAdvance
  <2> QED
    BY <2>1 DEF ChosenPath, PathOf, AdoptedPath
<1> QED
  BY <1>3, <1>4, <1>5, <1>6 DEF Promise!Next, Promise!Choose, Promise!Adopt

\* Over a network that loses, repeats and reorders, the controlling agent chooses
\* one path once and the controlled agent adopts that one (agent.rs, nominate_best).
THEOREM NominationRefined ==
    ASSUME OpposedRoles, OneRound
    PROVE  Spec => NominationPromise
<1>1. Init => Promise!Init
  BY AgentsAre DEF Init, NewAgent, Promise!Init, ChosenPath, AdoptedPath, PathOf,
     CanSend
<1>2. SessionInv /\ RoundInv /\ SessionInv' /\ RoundInv' /\ [Next]_vars
        => [Promise!Next]_<<ChosenPath, AdoptedPath>>
  BY StepRefines
<1> QED
  BY <1>1, <1>2, SessionInvariant, RoundInvariant, PTL
  DEF Spec, NominationPromise, Promise!Spec
----------------------------------------------------------------------------
(* A controlling agent completes only on a path that carries both ways.    *)
(*                                                                         *)
(* An answer says by its id which pair it is for.  So what has to be shown *)
(* is that an answer under way to the controlling agent was given by a     *)
(* peer that has marked the pair of the check's source (CheckOK), and that *)
(* what the peer has heard stays heard (Grows).  Nothing is assumed of     *)
(* what the network loses, repeats or reorders, nor of the checks of the   *)
(* controlled agent, which cross those of the controlling one.             *)

\* The controlled agent starts its checks with the description, which names the
\* addresses the checks of the other come from.
AddressesKnown ==
    /\ ControlledAgent \notin SplitStart /\ Gathered[ControlledAgent] # {}
    /\ \A x \in Candidate :
         Source[ControllingAgent][x] # NoRoute =>
           \E y \in Described[ControllingAgent] : y.addr = Source[ControllingAgent][x]

\* What an agent has heard stays heard.
Grows(old, new) == \A s : HeardFrom(old, s) => HeardFrom(new, s)

\* A check of the controlling agent c comes from the address of its pair, and an
\* answer to it says that the controlled agent d has heard that address.
CheckOK(m, c, d) ==
    LET s == Source[ControllingAgent][c.check_list[m.tid[2]].remote]
    IN  /\ m.type = "request" /\ m.from = ControllingAgent =>
             m.tid[2] \in DOMAIN c.check_list /\ m.src = s
        /\ m.type = "response" /\ m.to = ControllingAgent =>
             m.tid[2] \in DOMAIN c.check_list /\ HeardFrom(d, s)

\* The controlling agent and its pairs.
NominatorOK(c, d) ==
    /\ \A i \in DOMAIN c.check_list : c.check_list[i].transaction_id[2] \in {0, i}
    /\ c.nominated_pair_confirmed => CanSend(c) /\ HeardFrom(d, PathOfSelected(c))
    /\ c.state = "Completed" => c.nominated_pair_confirmed

\* The controlled agent has a pair for each address it was told of.
AnswererOK(d) ==
    /\ d.local_candidates = Gathered[ControlledAgent]
    /\ d.remote_ufrag_set =>
         \A y \in Described[ControllingAgent] :
           \E i \in DOMAIN d.check_list : d.check_list[i].remote = y

\* The two agents and the datagrams between them.
Heard(c, d, msgs) ==
    /\ NominatorOK(c, d) /\ AnswererOK(d)
    /\ \A m \in msgs : CheckOK(m, c, d)

HeardInv == Heard(agent[ControllingAgent], agent[ControlledAgent], net)

----------------------------------------------------------------------------

\* A set of numbers has a least one.
LEMMA LeastOf ==
    ASSUME NEW T, T \subseteq Nat, T # {}
    PROVE  \E m \in T : \A j \in T : m <= j
<1>1. PICK m \in T : \A j \in T : ~(<<j, m>> \in OpToRel(<, Nat))
  BY WFMin, NatLessThanWellFounded
<1>2. ASSUME NEW j \in T, j < m PROVE FALSE
  <2>1. <<j, m>> \in OpToRel(<, Nat)
    BY <1>2 DEF OpToRel
  <2> QED
    BY <1>1, <2>1
<1>3. \A j \in T : m <= j
  BY <1>2
<1> QED
  BY <1>3

\* A position is found wherever there is one to find.
LEMMA PositionFound ==
    ASSUME NEW S, S \subseteq Nat \ {0}, S # {}
    PROVE  Position(S) \in S /\ Position(S) # 0
<1>1. S \subseteq Nat
  OBVIOUS
<1>2. \E i \in S : \A j \in S : i <= j
  BY <1>1, LeastOf
<1>3. Position(S) \in S
  BY <1>2 DEF Position
<1> QED
  BY <1>3

\* A check list has every pair of a local and a remote candidate.
LEMMA CheckListsComplete ==
    ASSUME NEW locals \in SUBSET Candidate, NEW remotes \in SUBSET Candidate,
           NEW role, NEW cl \in CheckLists(locals, remotes, role),
           NEW l \in locals, NEW r \in remotes
    PROVE  \E i \in DOMAIN cl : cl[i] = <<l, r>>
<1> DEFINE pairs == locals \X remotes
           n == Cardinality(pairs)
<1>1. IsFiniteSet(pairs)
  BY AgentAssumption, FS_Subset, FS_Product
<1>2. n \in Nat
  BY <1>1, FS_CardinalityType
<1>3. cl \in [1..n -> pairs] /\ \A i, j \in 1..n : i < j => cl[i] # cl[j]
  BY DEF CheckLists
<1> HIDE DEF n, pairs
<1>4. \A i, j \in 1..n : cl[i] = cl[j] => i = j
  BY <1>2, <1>3
<1>5. cl \in Injection(1..n, pairs)
  BY <1>3, <1>4 DEF Injection, IsInjective
<1>6. Cardinality(1..n) = n
  BY <1>2, FS_Interval
<1>7. cl \in Surjection(1..n, pairs)
  BY <1>1, <1>5, <1>6, FS_Injection DEF n
<1>8. <<l, r>> \in pairs
  BY DEF pairs
<1> QED
  BY <1>3, <1>7, <1>8 DEF Surjection

\* The first checks of fresh pairs are still to be sent.
LEMMA StartedPairs ==
    ASSUME NEW ag, AgentOK(ag), NEW next \in StartChecksResults(ag)
    PROVE  /\ next.local_candidates = ag.local_candidates
           /\ next.remote_ufrag_set = ag.remote_ufrag_set
           /\ \/ next.check_list = ag.check_list /\ ~CanStart(ag)
              \/ /\ \A i \in DOMAIN next.check_list :
                      next.check_list[i].transaction_id = NoTid
                 /\ \A l \in ag.local_candidates, r \in ag.remote_candidates :
                      \E i \in DOMAIN next.check_list : next.check_list[i].remote = r
<1>1. CASE CanStart(ag)
  <2>1. PICK cl \in CheckLists(ag.local_candidates, ag.remote_candidates, ag.role) :
          next = [ag EXCEPT !.state = "Connecting", !.checklists = @ + 1,
                     !.check_list = [i \in DOMAIN cl |-> FreshPair(cl[i])]]
    BY <1>1 DEF StartChecksResults
  <2>2. ag.local_candidates \in SUBSET Candidate
        /\ ag.remote_candidates \in SUBSET Candidate
    BY DEF AgentOK, Agent
  <2>3. /\ next.check_list = [i \in DOMAIN cl |-> FreshPair(cl[i])]
        /\ next.local_candidates = ag.local_candidates
        /\ next.remote_ufrag_set = ag.remote_ufrag_set
    BY <2>1 DEF AgentOK, Agent
  <2>4. \A i \in DOMAIN next.check_list : /\ next.check_list[i].transaction_id = NoTid
                                          /\ next.check_list[i].remote = cl[i][2]
    BY <2>3 DEF FreshPair
  <2>5. ASSUME NEW l \in ag.local_candidates, NEW r \in ag.remote_candidates
        PROVE  \E i \in DOMAIN next.check_list : next.check_list[i].remote = r
    <3>1. PICK i \in DOMAIN cl : cl[i] = <<l, r>>
      BY <2>2, CheckListsComplete
    <3> QED
      BY <2>3, <2>4, <3>1
  <2> QED
    BY <2>3, <2>4, <2>5
<1>2. CASE ~CanStart(ag)
  <2>1. next = [ag EXCEPT !.state = "Failed"]
    BY <1>2 DEF StartChecksResults
  <2> QED
    BY <1>2, <2>1 DEF AgentOK, Agent
<1> QED
  BY <1>1, <1>2

\* A tick gives each due pair a new id and takes none for succeeded.
LEMMA TickPairs ==
    ASSUME NEW ag, AgentOK(ag), NEW due \in SUBSET Sendable(ag), NEW i \in DOMAIN ag.check_list
    PROVE  LET p == ag.check_list[i]
               q == OnTick(ag, due).check_list[i]
           IN  IF i \in due
               THEN /\ q.transaction_id[2] = i /\ q.transaction_id[3] = p.transaction_id[3] + 1
                    /\ q.state # "Succeeded" /\ q.nominated = p.nominated
                    /\ ag.nominated_pair_idx \in {0, i}
               ELSE q = p
<1> DEFINE list == [j \in DOMAIN ag.check_list |->
                      IF j \in due THEN SentPair(ag, j) ELSE ag.check_list[j]]
           sent == [ag EXCEPT !.check_list = list]
<1>1. CASE ag.state \in Ended
  BY <1>1 DEF OnTick, Sendable
<1>2. CASE ag.state \notin Ended
  <2>1. CheckCompletion(sent).check_list = sent.check_list
    BY DEF CheckCompletion, AgentOK, Agent
  <2>2. OnTick(ag, due).check_list = list
    BY <1>2, <2>1 DEF OnTick, AgentOK, Agent
  <2>3. PairOK(ag.check_list[i])
    BY DEF AgentOK
  <2>4. i \in due => ag.nominated_pair_idx \in {0, i}
    BY DEF Sendable
  <2>5. OnTick(ag, due).check_list[i] = IF i \in due THEN SentPair(ag, i) ELSE ag.check_list[i]
    BY <2>2
  <2>6. /\ SentPair(ag, i).transaction_id = NextTid(ag, i)
        /\ SentPair(ag, i).state # "Succeeded"
        /\ SentPair(ag, i).nominated = ag.check_list[i].nominated
    BY <2>3 DEF SentPair, PairOK, PairEntry
  <2>7. NextTid(ag, i)[2] = i /\ NextTid(ag, i)[3] = ag.check_list[i].transaction_id[3] + 1
    BY DEF NextTid
  <2> QED
    BY <2>4, <2>5, <2>6, <2>7
<1> QED
  BY <1>1, <1>2

\* A success answers the pair's last check; what it nominates has succeeded.
LEMMA ResponsePairs ==
    ASSUME NEW ag, AgentOK(ag), NEW tid
    PROVE  LET next == OnResponse(ag, tid)
               i == PairOfTid(ag, tid)
           IN  /\ \A j \in DOMAIN ag.check_list :
                    /\ next.check_list[j].transaction_id = ag.check_list[j].transaction_id
                    /\ next.check_list[j].state = "Succeeded" =>
                         j = i \/ ag.check_list[j].state = "Succeeded"
                    /\ ag.check_list[j].nominated => next.check_list[j].nominated
               /\ \/ next.nominated_pair_idx = ag.nominated_pair_idx
                  \/ LET b == next.nominated_pair_idx
                     IN  /\ b \in DOMAIN ag.check_list /\ ag.nominated_pair_idx = 0
                         /\ next.check_list[b].nominated
                         /\ b = i \/ ag.check_list[b].state = "Succeeded"
               /\ next.nominated_pair_confirmed =>
                    \/ ag.nominated_pair_confirmed
                    \/ i # 0 /\ ag.nominated_pair_idx = i
               /\ ag.nominated_pair_confirmed => next.nominated_pair_confirmed
               /\ next.state = "Completed" =>
                    ag.state = "Completed" \/ next.nominated_pair_confirmed
<1> DEFINE i == PairOfTid(ag, tid)
           p == [ag.check_list[i] EXCEPT !.state = "Succeeded"]
           list == [ag.check_list EXCEPT ![i] = p]
           hit == [ag EXCEPT !.check_list = list]
           done == ControllingProgress(hit, i)
           next == OnResponse(ag, tid)
<1>1. CASE i = 0
  BY <1>1 DEF OnResponse
<1>2. CASE i # 0
  <2>1. i \in DOMAIN ag.check_list
    BY <1>2, PairOfTidFound
  <2>2. next = RaiseConnected(done, {"Connecting"})
    BY <1>2, Zenon DEF OnResponse
  <2> HIDE DEF i, next
  <2>3. /\ hit.check_list = list /\ hit.role = ag.role /\ hit.state = ag.state
        /\ hit.nominated_pair_idx = ag.nominated_pair_idx
        /\ hit.nominated_pair_confirmed = ag.nominated_pair_confirmed
        /\ DOMAIN hit = DOMAIN ag
    BY DEF AgentOK, Agent
  <2>4. \A j \in DOMAIN ag.check_list : PairOK(ag.check_list[j])
    BY DEF AgentOK
  <2>5. /\ DOMAIN list = DOMAIN ag.check_list
        /\ \A j \in DOMAIN ag.check_list :
             /\ list[j].transaction_id = ag.check_list[j].transaction_id
             /\ list[j].nominated = ag.check_list[j].nominated
             /\ list[j].state = "Succeeded" => j = i \/ ag.check_list[j].state = "Succeeded"
    BY <2>1, <2>4 DEF PairOK, PairEntry
  <2> HIDE DEF hit, list, p
  <2>6. /\ \A j \in DOMAIN ag.check_list :
             /\ done.check_list[j].transaction_id = list[j].transaction_id
             /\ done.check_list[j].state = "Succeeded" => list[j].state = "Succeeded"
             /\ list[j].nominated => done.check_list[j].nominated
        /\ \/ done.nominated_pair_idx = ag.nominated_pair_idx
           \/ LET b == done.nominated_pair_idx
              IN  /\ b \in DOMAIN ag.check_list /\ ag.nominated_pair_idx = 0
                  /\ done.check_list[b].nominated
                  /\ list[b].state = "Succeeded"
        /\ done.nominated_pair_confirmed =>
             ag.nominated_pair_confirmed \/ ag.nominated_pair_idx = i
        /\ ag.nominated_pair_confirmed => done.nominated_pair_confirmed
        /\ done.state = "Completed" =>
             ag.state = "Completed" \/ done.nominated_pair_confirmed
    <3>1. CASE done = hit
      BY <2>3, <3>1
    <3>2. CASE /\ hit.nominated_pair_idx = i
               /\ done = [hit EXCEPT !.nominated_pair_confirmed = TRUE, !.state = "Completed"]
      <4>1. /\ done.check_list = list /\ done.nominated_pair_idx = ag.nominated_pair_idx
            /\ done.nominated_pair_confirmed
        BY <2>3, <3>2 DEF AgentOK, Agent
      <4> QED
        BY <2>3, <3>2, <4>1
    <3>3. CASE hit.nominated_pair_idx = 0 /\ done = NominateBest(hit)
      <4> DEFINE S == {j \in DOMAIN hit.check_list : hit.check_list[j].state = "Succeeded"}
                 b == Position(S)
                 best == [list[b] EXCEPT !.state = "InProgress", !.retransmit_count = 0,
                                         !.nominated = TRUE]
      <4>1. CASE b = 0
        BY <3>1, <3>3, <4>1 DEF NominateBest
      <4>2. CASE b # 0
        <5>1. b \in S
          BY <4>2, PositionInSet
        <5>2. b \in DOMAIN ag.check_list /\ list[b].state = "Succeeded"
          BY <2>3, <2>5, <5>1
        <5>3. done = [hit EXCEPT !.check_list[b] = best, !.nominated_pair_idx = b]
          BY <2>3, <3>3, <4>2 DEF NominateBest
        <5> HIDE DEF b
        <5>4. /\ done.check_list = [list EXCEPT ![b] = best]
              /\ done.nominated_pair_idx = b
              /\ done.nominated_pair_confirmed = hit.nominated_pair_confirmed
              /\ done.state = hit.state
          BY <2>3, <5>3 DEF AgentOK, Agent
        <5>5. PairOK(ag.check_list[b])
          BY <2>4, <5>2
        <5>6. /\ best.transaction_id = list[b].transaction_id
              /\ best.state = "InProgress" /\ best.nominated = TRUE
          BY <2>1, <5>2, <5>5 DEF list, p, PairOK, PairEntry
        <5> HIDE DEF best
        <5> QED
          BY <2>3, <2>5, <3>3, <5>2, <5>4, <5>6
      <4> QED
        BY <4>1, <4>2
    <3> HIDE DEF done
    <3> QED
      BY <3>1, <3>2, <3>3 DEF ControllingProgress, done
  <2>7. /\ next.check_list = done.check_list
        /\ next.nominated_pair_idx = done.nominated_pair_idx
        /\ next.nominated_pair_confirmed = done.nominated_pair_confirmed
        /\ next.state = "Completed" => done.state = "Completed"
    <3>1. done \in Agent
      <4>1. PairOK(p)
        BY <2>1, <2>4 DEF p, PairOK, PairEntry, CheckStates
      <4>2. DOMAIN list = DOMAIN ag.check_list /\ list = [j \in DOMAIN list |-> list[j]]
            /\ \A j \in DOMAIN list : PairOK(list[j])
        BY <2>1, <2>4, <4>1 DEF list
      <4>3. list \in Seq(PairEntry)
        BY <4>2, ListOK
      <4>4. hit \in Agent /\ hit.check_list = list
        BY <4>3 DEF hit, AgentOK, Agent
      <4>5. AgentOK(hit) /\ i \in Nat \ {0}
        BY <1>2, <2>1, <4>2, <4>4 DEF AgentOK, Agent
      <4> QED
        BY <4>5, ControllingProgressOK DEF AgentOK
    <3> HIDE DEF done
    <3> QED
      BY <2>2, <3>1 DEF RaiseConnected, Agent
  <2> HIDE DEF done
  <2> QED
    BY <1>2, <2>5, <2>6, <2>7 DEF next, i
<1> QED
  BY <1>1, <1>2

----------------------------------------------------------------------------
\* Where pairs stay and successes stay, what was heard stays heard.
LEMMA HeardStays ==
    ASSUME NEW old, NEW new, DOMAIN new.check_list = DOMAIN old.check_list,
           \A j \in DOMAIN old.check_list :
             /\ new.check_list[j].remote = old.check_list[j].remote
             /\ old.check_list[j].state = "Succeeded" =>
                  new.check_list[j].state = "Succeeded"
    PROVE  /\ Grows(old, new)
           /\ \A s : PairOfSource(new, s) = PairOfSource(old, s)
<1>1. ASSUME NEW s PROVE PairOfSource(new, s) = PairOfSource(old, s)
  <2>1. { i \in DOMAIN new.check_list : new.check_list[i].remote.addr = s }
          = { i \in DOMAIN old.check_list : old.check_list[i].remote.addr = s }
    OBVIOUS
  <2> QED
    BY <2>1 DEF PairOfSource
<1>2. ASSUME NEW s, HeardFrom(old, s) PROVE HeardFrom(new, s)
  <2>1. PairOfSource(old, s) \in DOMAIN old.check_list
    BY <1>2, PairOfSourceFound DEF HeardFrom
  <2> QED
    BY <1>1, <1>2, <2>1 DEF HeardFrom
<1> QED
  BY <1>1, <1>2 DEF Grows

\* A request is heard from its source, if the agent has a pair for it.
LEMMA RequestHeard ==
    ASSUME NEW ag, AgentOK(ag), NEW src, NEW controlling, NEW use_candidate,
           controlling \in BOOLEAN, use_candidate \in BOOLEAN
    PROVE  LET next == OnRequest(ag, src, controlling, use_candidate)
           IN  /\ Grows(ag, next)
               /\ PairOfSource(ag, src) # 0 => HeardFrom(next, src)
               /\ \A j \in DOMAIN ag.check_list :
                    next.check_list[j].transaction_id = ag.check_list[j].transaction_id
<1> DEFINE r == [ag EXCEPT !.role = RoleAfterRequest(ag, controlling)]
           i == PairOfSource(ag, src)
           wanted == use_candidate /\ r.role = "Controlled"
           m == IF i # 0 THEN MarkPair(r, i, wanted) ELSE r
           next == OnRequest(ag, src, controlling, use_candidate)
<1>1. /\ DOMAIN next.check_list = DOMAIN ag.check_list
      /\ \A j \in DOMAIN ag.check_list :
           next.check_list[j].remote = ag.check_list[j].remote
  <2>1. RequestEffect(ag, src, controlling, use_candidate, next)
    BY OnRequestOK, Zenon
  <2> HIDE DEF next
  <2> QED
    BY <2>1 DEF RequestEffect
<1>2. RoleAfterRequest(ag, controlling) \in IceRoles
  BY DEF RoleAfterRequest, AgentOK, Agent, IceRoles
<1>3. r \in Agent /\ r.check_list = ag.check_list /\ PairOfSource(r, src) = i
  BY <1>2 DEF AgentOK, Agent, PairOfSource
<1>4. next = RaiseConnected(m, {"New", "Gathering", "Connecting"})
  BY <1>3 DEF OnRequest
<1>5. i # 0 => i \in DOMAIN ag.check_list
  BY PairOfSourceFound
<1>6. CASE i = 0
  <2>1. next.check_list = ag.check_list
    BY <1>3, <1>4, <1>6 DEF RaiseConnected, Agent
  <2> QED
    BY <1>1, <1>6, <2>1, HeardStays
<1>7. CASE i # 0
  <2> DEFINE p == [r.check_list[i] EXCEPT !.state = "Succeeded",
                     !.nominated = r.check_list[i].nominated \/ wanted]
             list == [r.check_list EXCEPT ![i] = p]
  <2>1. \A j \in DOMAIN ag.check_list : PairOK(ag.check_list[j])
    BY DEF AgentOK
  <2>2. p.state = "Succeeded" /\ p.transaction_id = ag.check_list[i].transaction_id
    BY <1>3, <1>5, <1>7, <2>1 DEF PairOK, PairEntry
  <2>3. /\ list[i].state = "Succeeded"
        /\ \A j \in DOMAIN ag.check_list :
             /\ ag.check_list[j].state = "Succeeded" => list[j].state = "Succeeded"
             /\ list[j].transaction_id = ag.check_list[j].transaction_id
    <3> HIDE DEF p
    <3> QED
      BY <1>3, <1>5, <1>7, <2>2
  <2>4. next.check_list = list
    <3>1. MarkPair(r, i, wanted) =
            [r EXCEPT !.check_list = list,
                      !.nominated_pair_idx = IF wanted THEN i ELSE @,
                      !.nominated_pair_confirmed = @ \/ wanted,
                      !.state = IF wanted /\ ~r.nominated_pair_confirmed
                                THEN "Completed" ELSE @]
      BY Zenon DEF MarkPair
    <3> HIDE DEF list, wanted, i
    <3>2. m.check_list = list /\ DOMAIN m = DOMAIN r
      <4>1. m = MarkPair(r, i, wanted)
        BY <1>7
      <4> HIDE DEF m, r
      <4> QED
        BY <1>3, <3>1, <4>1 DEF Agent
    <3> HIDE DEF m, r, next
    <3>3. [m EXCEPT !.state = "Connected"].check_list = m.check_list
      BY <1>3, <3>2 DEF Agent
    <3> QED
      BY <1>4, <3>2, <3>3 DEF RaiseConnected
  <2> HIDE DEF list, next, r, m, i
  <2>5. Grows(ag, next) /\ PairOfSource(next, src) = i
    BY <1>1, <2>3, <2>4, HeardStays DEF i
  <2>6. HeardFrom(next, src)
    BY <1>7, <2>3, <2>4, <2>5 DEF HeardFrom
  <2> QED
    BY <2>3, <2>4, <2>5, <2>6 DEF next, i
<1> QED
  BY <1>6, <1>7

\* A tick keeps what was heard.
LEMMA TickGrows ==
    ASSUME NEW ag, AgentOK(ag), NEW due \in SUBSET Sendable(ag)
    PROVE  Grows(ag, OnTick(ag, due))
<1> DEFINE next == OnTick(ag, due)
<1>1. SamePairs(ag, next)
  BY OnTickOK
<1>2. ASSUME NEW j \in DOMAIN ag.check_list, ag.check_list[j].state = "Succeeded"
      PROVE  next.check_list[j].state = "Succeeded"
  <2>1. j \notin due
    BY <1>2 DEF Sendable
  <2> QED
    BY <1>2, <2>1, TickPairs
<1> HIDE DEF next
<1>3. Grows(ag, next)
  BY <1>1, <1>2, HeardStays DEF SamePairs
<1> QED
  BY <1>3 DEF next

\* A success of a controlled agent's own check does: it never nominates.
LEMMA ResponseGrows ==
    ASSUME NEW ag, AgentOK(ag), NEW tid, ag.role # "Controlling"
    PROVE  Grows(ag, OnResponse(ag, tid))
<1> DEFINE i == PairOfTid(ag, tid)
           p == [ag.check_list[i] EXCEPT !.state = "Succeeded"]
           list == [ag.check_list EXCEPT ![i] = p]
           hit == [ag EXCEPT !.check_list = list]
           next == OnResponse(ag, tid)
<1>1. CASE i = 0
  BY <1>1 DEF OnResponse, Grows
<1>2. CASE i # 0
  <2>1. i \in DOMAIN ag.check_list /\ PairOK(ag.check_list[i])
    BY <1>2, PairOfTidFound DEF AgentOK
  <2>2. next = RaiseConnected(ControllingProgress(hit, i), {"Connecting"})
    BY <1>2, Zenon DEF OnResponse
  <2>3. /\ hit.role = ag.role /\ hit.check_list = list /\ DOMAIN hit = DOMAIN ag
    BY DEF AgentOK, Agent
  <2>4. p.state = "Succeeded" /\ p.remote = ag.check_list[i].remote
    BY <2>1 DEF PairOK, PairEntry
  <2> HIDE DEF hit, i, next, p
  <2>5. ControllingProgress(hit, i) = hit
    BY <2>3 DEF ControllingProgress
  <2>6. next.check_list = list
    BY <2>2, <2>3, <2>5 DEF RaiseConnected, AgentOK, Agent
  <2>7. /\ DOMAIN next.check_list = DOMAIN ag.check_list
        /\ \A j \in DOMAIN ag.check_list :
             /\ next.check_list[j].remote = ag.check_list[j].remote
             /\ ag.check_list[j].state = "Succeeded" =>
                  next.check_list[j].state = "Succeeded"
    BY <2>1, <2>4, <2>6
  <2>8. Grows(ag, next)
    BY <2>7, HeardStays
  <2> QED
    BY <2>8 DEF next
<1> QED
  BY <1>1, <1>2

----------------------------------------------------------------------------

\* The controlled agent may go on, and datagrams may get lost.
LEMMA AnswererMoves ==
    ASSUME NEW c, NEW d, NEW msgs, Heard(c, d, msgs),
           NEW new, AnswererOK(new), Grows(d, new),
           NEW less, less \subseteq msgs
    PROVE  Heard(c, new, less)
  BY DEF Heard, NominatorOK, CheckOK, Grows

\* The controlling agent may do what touches neither its pairs nor its nomination.
LEMMA NominatorMoves ==
    ASSUME NEW c, NEW d, NEW msgs, Heard(c, d, msgs), NEW new,
           DOMAIN new.check_list = DOMAIN c.check_list,
           \A i \in DOMAIN c.check_list :
             /\ new.check_list[i].transaction_id = c.check_list[i].transaction_id
             /\ new.check_list[i].remote = c.check_list[i].remote,
           new.nominated_pair_idx = c.nominated_pair_idx,
           new.nominated_pair_confirmed = c.nominated_pair_confirmed,
           new.state = "Completed" => c.state = "Completed",
           NEW less, less \subseteq msgs
    PROVE  Heard(new, d, less)
<1>1. CanSend(c) => CanSend(new) /\ PathOfSelected(new) = PathOfSelected(c)
  BY DEF CanSend, PathOfSelected, Selected
<1>2. NominatorOK(new, d)
  BY <1>1 DEF Heard, NominatorOK
<1>3. \A m \in less : CheckOK(m, new, d)
  BY DEF Heard, CheckOK
<1> QED
  BY <1>2, <1>3 DEF Heard

\* The controlling agent starts its only round: nothing of its own is under way.
LEMMA NominatorStarts ==
    ASSUME NEW c, NEW d, NEW msgs, Heard(c, d, msgs), NEW new,
           DOMAIN c.check_list = {},
           \A i \in DOMAIN new.check_list : i # 0 /\ new.check_list[i].transaction_id = NoTid,
           new.nominated_pair_confirmed = c.nominated_pair_confirmed,
           new.state # "Completed"
    PROVE  Heard(new, d, msgs)
<1>1. ~c.nominated_pair_confirmed
  BY DEF Heard, NominatorOK, CanSend
<1>2. NominatorOK(new, d)
  BY <1>1 DEF NominatorOK, NoTid
<1>3. \A m \in msgs : CheckOK(m, new, d)
  BY DEF Heard, CheckOK
<1> QED
  BY <1>2, <1>3 DEF Heard

\* The checks the controlling agent sends come from the addresses of their pairs.
LEMMA NominatorTicks ==
    ASSUME NEW c, NEW d, NEW msgs, Heard(c, d, msgs), AgentOK(c),
           NEW due \in SUBSET Sendable(c)
    PROVE  LET new == OnTick(c, due)
           IN  Heard(new, d, msgs \cup RequestsOf(ControllingAgent, new, due))
<1> DEFINE new == OnTick(c, due)
           sent == RequestsOf(ControllingAgent, new, due)
<1>1. /\ DOMAIN new.check_list = DOMAIN c.check_list
      /\ new.nominated_pair_idx = c.nominated_pair_idx
      /\ new.nominated_pair_confirmed = c.nominated_pair_confirmed
      /\ new.state = "Completed" => c.state = "Completed"
      /\ \A i \in DOMAIN c.check_list : new.check_list[i].remote = c.check_list[i].remote
  BY OnTickOK DEF SamePairs
<1>2. due \subseteq DOMAIN c.check_list
  BY DEF Sendable
<1>3. \A i \in due : new.check_list[i].transaction_id[2] = i
  BY <1>2, TickPairs
<1>4. \A i \in DOMAIN c.check_list : i \notin due => new.check_list[i] = c.check_list[i]
  BY TickPairs
<1>5. \A m \in sent : \E i \in due :
        /\ m.type = "request"
        /\ m.src = Source[ControllingAgent][new.check_list[i].remote]
        /\ m.tid = new.check_list[i].transaction_id
  BY DEF RequestsOf, RequestOf
<1> HIDE DEF new, sent
<1>6. CanSend(c) => CanSend(new) /\ PathOfSelected(new) = PathOfSelected(c)
  BY <1>1 DEF CanSend, PathOfSelected, Selected
<1>7. NominatorOK(new, d)
  <2>1. \A i \in DOMAIN new.check_list : new.check_list[i].transaction_id[2] \in {0, i}
    BY <1>1, <1>3, <1>4 DEF Heard, NominatorOK
  <2> QED
    BY <1>1, <1>6, <2>1 DEF Heard, NominatorOK
<1>8. ASSUME NEW m \in msgs PROVE CheckOK(m, new, d)
  BY <1>1 DEF Heard, CheckOK
<1>9. ASSUME NEW m \in sent PROVE CheckOK(m, new, d)
  <2>1. PICK i \in due :
          /\ m.type = "request"
          /\ m.src = Source[ControllingAgent][new.check_list[i].remote]
          /\ m.tid = new.check_list[i].transaction_id
    BY <1>5
  <2>2. m.tid[2] = i /\ i \in DOMAIN new.check_list
    BY <1>1, <1>2, <1>3, <2>1
  <2> QED
    BY <2>1, <2>2 DEF CheckOK
<1>10. Heard(new, d, msgs \cup sent)
  BY <1>7, <1>8, <1>9 DEF Heard
<1> QED
  BY <1>10 DEF new, sent

\* The controlled agent answers a check of the controlling one only after it
\* marked the pair of the check's source.
LEMMA AnswererAnswers ==
    ASSUME AddressesKnown, NEW c, NEW d, NEW msgs, Heard(c, d, msgs), AgentOK(d),
           AgentOK(c), NEW m \in msgs, m \in Requests, m.from = ControllingAgent,
           ControllingAgent \in Agents, d.remote_ufrag_set
    PROVE  Heard(c, OnRequest(d, m.src, m.controlling, m.use_candidate),
                 (msgs \ {m}) \cup {ResponseTo(m)})
<1> DEFINE new == OnRequest(d, m.src, m.controlling, m.use_candidate)
           r == ResponseTo(m)
<1>1. m.type = "request" /\ m.controlling \in BOOLEAN /\ m.use_candidate \in BOOLEAN
      /\ m.src \in Addresses
  BY DEF Requests
<1>2. SameSetup(d, new) /\ RequestEffect(d, m.src, m.controlling, m.use_candidate, new)
  BY <1>1, OnRequestOK, Zenon
<1>3. Grows(d, new) /\ (PairOfSource(d, m.src) # 0 => HeardFrom(new, m.src))
  BY <1>1, RequestHeard, Zenon
<1>4. r.type = "response" /\ r.to = m.from /\ r.tid = m.tid
  BY DEF ResponseTo
<1> HIDE DEF new, r
<1>5. AnswererOK(new)
  BY <1>2 DEF Heard, AnswererOK, SameSetup, RequestEffect
<1> DEFINE x == c.check_list[m.tid[2]].remote
<1>6. m.tid[2] \in DOMAIN c.check_list /\ m.src = Source[ControllingAgent][x]
  BY <1>1 DEF Heard, CheckOK
<1>7. HeardFrom(new, m.src)
  <2>1. x \in Candidate
    BY <1>6, PairFields DEF AgentOK
  <2>2. PICK y \in Described[ControllingAgent] : y.addr = m.src
    BY <1>1, <1>6, <2>1, SessionAssumption DEF AddressesKnown
  <2>3. PICK i \in DOMAIN d.check_list : d.check_list[i].remote = y
    BY <2>2 DEF Heard, AnswererOK
  <2>4. DOMAIN d.check_list \subseteq Nat \ {0}
    BY DEF AgentOK, Agent
  <2>5. PairOfSource(d, m.src) # 0
    <3> DEFINE S == {j \in DOMAIN d.check_list : d.check_list[j].remote.addr = m.src}
    <3>1. S # {} /\ S \subseteq Nat \ {0}
      BY <2>2, <2>3, <2>4
    <3> HIDE DEF S
    <3>2. Position(S) # 0
      BY <3>1, PositionFound
    <3> QED
      BY <3>2 DEF S, PairOfSource
  <2> QED
    BY <1>3, <2>5
<1>8. Heard(c, new, msgs \ {m})
  BY <1>3, <1>5, AnswererMoves
<1>9. CheckOK(r, c, new)
  BY <1>4, <1>6, <1>7 DEF CheckOK
<1>10. Heard(c, new, (msgs \ {m}) \cup {r})
  BY <1>8, <1>9 DEF Heard
<1> QED
  BY <1>10 DEF new, r

\* A datagram that is none of the controlling agent's checks nor an answer to one.
LEMMA OthersAdded ==
    ASSUME NEW c, NEW d, NEW msgs, Heard(c, d, msgs), NEW others,
           \A m \in others : /\ m.type = "request" => m.from # ControllingAgent
                             /\ m.type = "response" => m.to # ControllingAgent
    PROVE  Heard(c, d, msgs \cup others)
  BY DEF Heard, CheckOK

\* The controlling agent completes with an answer on the nominated pair.
LEMMA NominatorHears ==
    ASSUME NEW c, NEW d, NEW msgs, Heard(c, d, msgs), AgentOK(c),
           NEW m \in msgs, m.type = "response", m.to = ControllingAgent
    PROVE  Heard(OnResponse(c, m.tid), d, msgs \ {m})
<1> DEFINE new == OnResponse(c, m.tid)
           i == PairOfTid(c, m.tid)
<1>1. /\ \A j \in DOMAIN c.check_list :
           new.check_list[j].transaction_id = c.check_list[j].transaction_id
      /\ \/ new.nominated_pair_idx = c.nominated_pair_idx
         \/ c.nominated_pair_idx = 0
      /\ new.nominated_pair_confirmed =>
           c.nominated_pair_confirmed \/ (i # 0 /\ c.nominated_pair_idx = i)
      /\ new.state = "Completed" =>
           c.state = "Completed" \/ new.nominated_pair_confirmed
      /\ c.nominated_pair_confirmed => new.nominated_pair_confirmed
  BY ResponsePairs
<1>2. /\ DOMAIN new.check_list = DOMAIN c.check_list
      /\ \A j \in DOMAIN c.check_list :
           new.check_list[j].remote = c.check_list[j].remote
  BY OnResponseOK DEF SamePairs
<1>3. i # 0 => i \in DOMAIN c.check_list /\ c.check_list[i].transaction_id = m.tid
  BY PositionInSet DEF PairOfTid
<1>4. 0 \notin DOMAIN c.check_list
  BY DEF AgentOK, Agent
<1> HIDE DEF new, i
<1>5. NominatorOK(c, d) /\ AnswererOK(d) /\ CheckOK(m, c, d)
  BY DEF Heard
<1>6. i # 0 => HeardFrom(d, Source[ControllingAgent][c.check_list[i].remote])
  <2> SUFFICES ASSUME i # 0
               PROVE  HeardFrom(d, Source[ControllingAgent][c.check_list[i].remote])
    OBVIOUS
  <2>1. m.tid[2] \in {0, i} /\ m.tid[2] \in DOMAIN c.check_list
    BY <1>3, <1>5 DEF NominatorOK, CheckOK
  <2>2. m.tid[2] = i
    BY <1>4, <2>1
  <2> QED
    BY <1>5, <2>2 DEF CheckOK
<1>7. new.nominated_pair_confirmed => CanSend(new) /\ HeardFrom(d, PathOfSelected(new))
  <2> SUFFICES ASSUME new.nominated_pair_confirmed
               PROVE  CanSend(new) /\ HeardFrom(d, PathOfSelected(new))
    OBVIOUS
  <2>1. CanSend(c) /\ HeardFrom(d, PathOfSelected(c))
    <3>1. CASE c.nominated_pair_confirmed
      BY <1>5, <3>1 DEF NominatorOK
    <3>2. CASE i # 0 /\ c.nominated_pair_idx = i
      BY <1>3, <1>6, <3>2 DEF CanSend, PathOfSelected, Selected
    <3> QED
      BY <1>1, <3>1, <3>2
  <2>2. new.nominated_pair_idx = c.nominated_pair_idx
    BY <1>1, <1>4, <2>1 DEF CanSend
  <2> QED
    BY <1>2, <2>1, <2>2 DEF CanSend, PathOfSelected, Selected
<1>8. NominatorOK(new, d)
  BY <1>1, <1>2, <1>5, <1>7 DEF NominatorOK
<1>9. \A n \in msgs : CheckOK(n, new, d)
  BY <1>2 DEF Heard, CheckOK
<1>10. Heard(new, d, msgs \ {m})
  BY <1>5, <1>8, <1>9 DEF Heard
<1> QED
  BY <1>10 DEF new

----------------------------------------------------------------------------

\* What one step does to what the two agents know of each other.
LEMMA NominatorSteps ==
    ASSUME SessionInv, NEW new,
           agent' = [agent EXCEPT ![ControllingAgent] = new], OpposedRoles,
           Heard(new, agent[ControlledAgent], net')
    PROVE  HeardInv'
<1>1. agent'[ControllingAgent] = new /\ agent'[ControlledAgent] = agent[ControlledAgent]
  BY AgentsAre DEF SessionInv, TypeOK
<1> QED
  BY <1>1 DEF HeardInv

LEMMA AnswererSteps ==
    ASSUME SessionInv, NEW new,
           agent' = [agent EXCEPT ![ControlledAgent] = new], OpposedRoles,
           Heard(agent[ControllingAgent], new, net')
    PROVE  HeardInv'
<1>1. agent'[ControlledAgent] = new /\ agent'[ControllingAgent] = agent[ControllingAgent]
  BY AgentsAre DEF SessionInv, TypeOK
<1> QED
  BY <1>1 DEF HeardInv

\* Start of the controlling agent's checks.
LEMMA NominatorStarted ==
    ASSUME OpposedRoles, OneRound, SessionInv, RoundInv, HeardInv,
           NEW ag, AgentOK(ag), NEW old, old = agent[ControllingAgent],
           ag.check_list = old.check_list, ag.checklists = old.checklists,
           ag.nominated_pair_idx = old.nominated_pair_idx,
           ag.nominated_pair_confirmed = old.nominated_pair_confirmed,
           old.checklists < MAX_STARTS,
           NEW next \in StartChecksResults(ag)
    PROVE  Heard(next, agent[ControlledAgent], net)
<1>1. RoundOK(ControllingAgent, old) /\ AgentOK(old)
      /\ Heard(old, agent[ControlledAgent], net)
  BY AgentsAre DEF RoundInv, SessionInv, AgentInv, HeardInv
<1>2. old.checklists \in Nat
  BY <1>1 DEF AgentOK, Agent
<1>3. old.checklists = 0
  BY <1>2 DEF OneRound
<1>4. DOMAIN old.check_list = {}
  BY <1>1, <1>3 DEF RoundOK
<1>5. /\ AgentOK(next)
      /\ next.nominated_pair_idx = ag.nominated_pair_idx
      /\ next.nominated_pair_confirmed = ag.nominated_pair_confirmed
      /\ next.state \in {"Failed", "Connecting"}
  BY StartChecksOK, ZenonT(60)
<1>6. \/ next.check_list = ag.check_list
      \/ \A i \in DOMAIN next.check_list : next.check_list[i].transaction_id = NoTid
  BY StartedPairs
<1>7. \A i \in DOMAIN next.check_list : i # 0 /\ next.check_list[i].transaction_id = NoTid
  BY <1>4, <1>5, <1>6 DEF AgentOK, Agent
<1> QED
  BY <1>1, <1>4, <1>5, <1>7, NominatorStarts

\* Start of the controlled agent's: it gets a pair for each described address.
LEMMA AnswererStarted ==
    ASSUME AddressesKnown, NEW c, NEW d, NEW msgs, Heard(c, d, msgs), AgentOK(d),
           DOMAIN d.check_list = {},
           Described[ControllingAgent] \in SUBSET Candidate,
           NEW next \in StartChecksResults(
                          SetRemoteSessionDescription(d, Described[ControllingAgent]))
    PROVE  Heard(c, next, msgs)
<1> DEFINE ag == SetRemoteSessionDescription(d, Described[ControllingAgent])
<1>1. /\ AgentOK(ag)
      /\ ag.nominated_pair_confirmed = d.nominated_pair_confirmed
      /\ ag.remote_candidates = d.remote_candidates \cup Described[ControllingAgent]
      /\ ag.local_candidates = d.local_candidates
  BY SetRemoteSessionDescriptionOK
<1>2. ag.remote_ufrag_set
  BY DEF SetRemoteSessionDescription, AddRemoteCandidates, AgentOK, Agent
<1> HIDE DEF ag
<1>3. next \in StartChecksResults(ag)
  BY DEF ag
<1>4. /\ next.local_candidates = ag.local_candidates
      /\ \/ ~CanStart(ag)
         \/ \A l \in ag.local_candidates, r \in ag.remote_candidates :
              \E i \in DOMAIN next.check_list : next.check_list[i].remote = r
  BY <1>1, <1>3, StartedPairs
<1>5. d.local_candidates = Gathered[ControlledAgent] /\ d.local_candidates # {}
  BY DEF Heard, AnswererOK, AddressesKnown
<1>6. ASSUME NEW y \in Described[ControllingAgent]
      PROVE  \E i \in DOMAIN next.check_list : next.check_list[i].remote = y
  <2>1. CanStart(ag)
    BY <1>1, <1>2, <1>5, <1>6 DEF CanStart
  <2> QED
    BY <1>1, <1>4, <1>5, <1>6, <2>1
<1>7. AnswererOK(next)
  BY <1>1, <1>4, <1>5, <1>6 DEF AnswererOK
<1>8. Grows(d, next)
  BY PairOfSourceFound DEF Grows, HeardFrom
<1> QED
  BY <1>7, <1>8, AnswererMoves

\* The application's calls.
LEMMA ApplicationHears ==
    ASSUME OpposedRoles, OneRound, AddressesKnown,
           SessionInv, RoundInv, HeardInv, NEW a \in Agents,
           \/ SetRemoteDescription(a) \/ StartChecks(a)
           \/ AcceptDescription(a) \/ AddRemoteCandidate(a)
    PROVE  HeardInv'
<1> DEFINE c == agent[ControllingAgent]
           d == agent[ControlledAgent]
<1>1. Heard(c, d, net) /\ AgentOK(c) /\ AgentOK(d)
  BY AgentsAre DEF HeardInv, SessionInv, AgentInv
<1>2. net' = net
  BY DEF SetRemoteDescription, StartChecks, AcceptDescription, AddRemoteCandidate
<1>3. /\ \A b \in Peers(a) : Described[b] \in SUBSET Candidate
                            /\ Gathered[b] \in SUBSET Candidate
      /\ Described[ControllingAgent] \in SUBSET Candidate
  BY AgentsAre, SessionAssumption DEF Peers
<1>4. CASE AddRemoteCandidate(a)
  <2>1. PICK b \in Peers(a) : \E x \in Gathered[b] :
          agent' = [agent EXCEPT ![a] = AddRemoteCandidates(@, {x})]
    BY <1>4 DEF AddRemoteCandidate
  <2>2. PICK x \in Candidate :
          agent' = [agent EXCEPT ![a] = AddRemoteCandidates(agent[a], {x})]
    BY <1>3, <2>1
  <2> DEFINE new == AddRemoteCandidates(agent[a], {x})
  <2>3. AgentOK(agent[a])
    BY DEF SessionInv, AgentInv
  <2>4. /\ new.check_list = agent[a].check_list /\ new.state = agent[a].state
        /\ new.nominated_pair_idx = agent[a].nominated_pair_idx
        /\ new.nominated_pair_confirmed = agent[a].nominated_pair_confirmed
        /\ new.local_candidates = agent[a].local_candidates
    BY <2>3, AddRemoteCandidatesOK
  <2>5. new.remote_ufrag_set = agent[a].remote_ufrag_set
    BY <2>3 DEF AddRemoteCandidates, AgentOK, Agent
  <2>6. agent' = [agent EXCEPT ![a] = new]
    BY <2>2
  <2> HIDE DEF new
  <2>7. CASE a = ControllingAgent
    <3>1. Heard(new, d, net)
      BY <1>1, <2>4, <2>7, NominatorMoves
    <3> QED
      BY <1>2, <2>6, <2>7, <3>1, NominatorSteps
  <2>8. CASE a = ControlledAgent
    <3>1. AnswererOK(new)
      BY <1>1, <2>4, <2>5, <2>8 DEF Heard, AnswererOK
    <3>2. Grows(d, new)
      BY <2>4, <2>8, HeardStays
    <3>3. Heard(c, new, net)
      BY <1>1, <3>1, <3>2, AnswererMoves
    <3> QED
      BY <1>2, <2>6, <2>8, <3>3, AnswererSteps
  <2> QED
    BY <2>7, <2>8, AgentsAre
<1>5. CASE SetRemoteDescription(a)
  <2>1. a = ControllingAgent
    BY <1>5, AgentsAre DEF SetRemoteDescription, AddressesKnown
  <2>2. PICK b \in Peers(a) :
          agent' = [agent EXCEPT ![a] = SetRemoteSessionDescription(agent[a], Described[b])]
    BY <1>5 DEF SetRemoteDescription
  <2> DEFINE new == SetRemoteSessionDescription(c, Described[b])
  <2>3. agent' = [agent EXCEPT ![ControllingAgent] = new]
    BY <2>1, <2>2
  <2>4. /\ new.check_list = c.check_list /\ new.state = c.state
        /\ new.nominated_pair_idx = c.nominated_pair_idx
        /\ new.nominated_pair_confirmed = c.nominated_pair_confirmed
    BY <1>1, <1>3, SetRemoteSessionDescriptionOK
  <2> HIDE DEF new
  <2>5. Heard(new, d, net)
    BY <1>1, <2>4, NominatorMoves
  <2> QED
    BY <1>2, <2>3, <2>5, NominatorSteps
<1>6. CASE StartChecks(a)
  <2>1. a = ControllingAgent
    BY <1>6, AgentsAre DEF StartChecks, AddressesKnown
  <2>2. PICK next \in StartChecksResults(c) :
          agent' = [agent EXCEPT ![ControllingAgent] = next]
    BY <1>6, <2>1 DEF StartChecks
  <2>3. c.checklists < MAX_STARTS
    BY <1>6, <2>1 DEF StartChecks
  <2>4. Heard(next, d, net)
    BY <1>1, <2>2, <2>3, NominatorStarted
  <2> QED
    BY <1>2, <2>2, <2>4, NominatorSteps
<1>7. CASE AcceptDescription(a)
  <2>1. PICK b \in Peers(a) :
          \E next \in StartChecksResults(
                         SetRemoteSessionDescription(agent[a], Described[b])) :
            agent' = [agent EXCEPT ![a] = next]
    BY <1>7 DEF AcceptDescription
  <2>2. PICK next \in StartChecksResults(
                        SetRemoteSessionDescription(agent[a], Described[b])) :
            agent' = [agent EXCEPT ![a] = next]
    BY <2>1
  <2>3. CASE a = ControllingAgent
    <3> DEFINE ag == SetRemoteSessionDescription(c, Described[b])
    <3>1. /\ ag.check_list = c.check_list /\ ag.checklists = c.checklists
          /\ ag.nominated_pair_idx = c.nominated_pair_idx
          /\ ag.nominated_pair_confirmed = c.nominated_pair_confirmed
          /\ AgentOK(ag)
      BY <1>1, <1>3, SetRemoteSessionDescriptionOK
    <3>2. next \in StartChecksResults(ag) /\ c.checklists < MAX_STARTS
      BY <1>7, <2>2, <2>3 DEF AcceptDescription
    <3> HIDE DEF ag
    <3>3. Heard(next, d, net)
      BY <3>1, <3>2, NominatorStarted
    <3> QED
      BY <1>2, <2>2, <2>3, <3>3, NominatorSteps
  <2>4. CASE a = ControlledAgent
    <3>1. b = ControllingAgent
      BY <2>1, <2>4, AgentsAre
    <3>2. DOMAIN d.check_list = {}
      <4>1. d.checklists \in Nat /\ d.checklists < MAX_STARTS
        BY <1>1, <1>7, <2>4 DEF AcceptDescription, AgentOK, Agent
      <4>2. d.checklists = 0
        BY <4>1 DEF OneRound
      <4> QED
        BY <2>4, <4>2 DEF RoundInv, RoundOK
    <3>3. Heard(c, next, net)
      BY <1>1, <1>3, <2>2, <2>4, <3>1, <3>2, AnswererStarted
    <3> QED
      BY <1>2, <2>2, <2>4, <3>3, AnswererSteps
  <2> QED
    BY <2>3, <2>4, AgentsAre
<1> QED
  BY <1>4, <1>5, <1>6, <1>7

\* A tick of either agent.
LEMMA TickHears ==
    ASSUME OpposedRoles, SessionInv, RoundInv, HeardInv,
           NEW a \in Agents, NEW due \in SUBSET Sendable(agent[a]), TickOn(a, due)
    PROVE  HeardInv'
<1> DEFINE c == agent[ControllingAgent]
           d == agent[ControlledAgent]
           new == OnTick(agent[a], due)
<1>1. Heard(c, d, net) /\ AgentOK(c) /\ AgentOK(d)
  BY AgentsAre DEF HeardInv, SessionInv, AgentInv
<1>2. agent' = [agent EXCEPT ![a] = new] /\ net' = net \cup RequestsOf(a, new, due)
  BY DEF TickOn
<1>3. CASE a = ControllingAgent
  <2>1. Heard(new, d, net')
    BY <1>1, <1>2, <1>3, NominatorTicks
  <2> QED
    BY <1>2, <1>3, <2>1, NominatorSteps
<1>4. CASE a = ControlledAgent
  <2>1. SamePairs(d, new) /\ SameSetup(d, new)
    BY <1>1, <1>4, OnTickOK
  <2>2. Grows(d, new)
    BY <1>1, <1>4, TickGrows
  <2> HIDE DEF new
  <2>3. AnswererOK(new)
    BY <1>1, <2>1 DEF Heard, AnswererOK, SamePairs, SameSetup
  <2>4. Heard(c, new, net)
    BY <1>1, <2>2, <2>3, AnswererMoves
  <2>5. \A m \in RequestsOf(a, new, due) : m.type = "request" /\ m.from # ControllingAgent
    BY <1>4, AgentsAre DEF RequestsOf, RequestOf
  <2>6. Heard(c, new, net')
    BY <1>2, <2>4, <2>5, OthersAdded
  <2> QED
    BY <1>2, <1>4, <2>6, AnswererSteps
<1> QED
  BY <1>3, <1>4, AgentsAre

\* A request that arrives at either agent, answered or dropped.
LEMMA RequestHears ==
    ASSUME OpposedRoles, AddressesKnown, SessionInv, RoundInv, HeardInv,
           NEW a \in Agents, ReceiveRequest(a)
    PROVE  HeardInv'
<1> DEFINE c == agent[ControllingAgent]
           d == agent[ControlledAgent]
<1>1. Heard(c, d, net) /\ AgentOK(c) /\ AgentOK(d)
  BY AgentsAre DEF HeardInv, SessionInv, AgentInv
<1>2. PICK m \in net :
        /\ m.type = "request" /\ m.to = a
        /\ IF agent[a].remote_ufrag_set
           THEN /\ agent' = [agent EXCEPT ![a] =
                               OnRequest(@, m.src, m.controlling, m.use_candidate)]
                /\ net' = (net \ {m}) \cup {ResponseTo(m)}
           ELSE /\ net' = net \ {m}
                /\ UNCHANGED agent
  BY DEF ReceiveRequest
<1>3. m \in Requests /\ m.to \in Peers(m.from)
  BY <1>2 DEF SessionInv, TypeOK, NetInv, Requests, Responses
<1>4. m.controlling \in BOOLEAN /\ m.use_candidate \in BOOLEAN /\ m.from \in Agents
  BY <1>3 DEF Requests
<1>5. CASE ~agent[a].remote_ufrag_set
  <2>1. net' \subseteq net /\ UNCHANGED agent
    BY <1>2, <1>5
  <2>2. Heard(c, d, net')
    BY <1>1, <2>1 DEF Heard
  <2> QED
    BY <2>1, <2>2 DEF HeardInv
<1>6. CASE agent[a].remote_ufrag_set /\ a = ControlledAgent
  <2> DEFINE new == OnRequest(d, m.src, m.controlling, m.use_candidate)
  <2>1. agent' = [agent EXCEPT ![ControlledAgent] = new]
        /\ net' = (net \ {m}) \cup {ResponseTo(m)}
    BY <1>2, <1>6
  <2>2. m.from = ControllingAgent
    BY <1>2, <1>3, <1>4, <1>6, AgentsAre
  <2>3. Heard(c, new, (net \ {m}) \cup {ResponseTo(m)})
    BY <1>1, <1>3, <1>6, <2>2, AgentsAre, AnswererAnswers
  <2> HIDE DEF new
  <2> QED
    BY <2>1, <2>3, AnswererSteps
<1>7. CASE agent[a].remote_ufrag_set /\ a = ControllingAgent
  <2> DEFINE new == OnRequest(c, m.src, m.controlling, m.use_candidate)
  <2>1. agent' = [agent EXCEPT ![ControllingAgent] = new]
        /\ net' = (net \ {m}) \cup {ResponseTo(m)}
    BY <1>2, <1>7
  <2>2. m.from = ControlledAgent
    BY <1>2, <1>3, <1>4, <1>7, AgentsAre
  <2>3. RequestOK(m, c)
    BY <1>2 DEF RoundInv
  <2>4. ~m.controlling /\ c.role = "Controlling"
    BY <1>4, <2>2, <2>3, AgentsAre DEF RequestOK, RoundInv, RoundOK, OpposedRoles
  <2>5. RequestEffect(c, m.src, m.controlling, m.use_candidate, new)
    BY <1>1, <1>4, OnRequestOK, Zenon
  <2>6. \A j \in DOMAIN c.check_list :
          new.check_list[j].transaction_id = c.check_list[j].transaction_id
    BY <1>1, <1>4, RequestHeard
  <2> HIDE DEF new
  <2>7. new.role = "Controlling"
    BY <2>4, <2>5 DEF RequestEffect, RoleAfterRequest
  <2>8. ~Nominates(c, m.src, m.use_candidate, new)
    BY <2>7 DEF Nominates
  <2>9. /\ new.nominated_pair_idx = c.nominated_pair_idx
        /\ new.nominated_pair_confirmed = c.nominated_pair_confirmed
        /\ new.state = "Completed" => c.state = "Completed"
    <3>1. new.nominated_pair_confirmed <=> c.nominated_pair_confirmed
      BY <2>5, <2>8 DEF RequestEffect
    <3>2. AgentOK(new)
      <4>1. AgentOK(OnRequest(c, m.src, m.controlling, m.use_candidate))
        BY <1>1, <1>4, OnRequestOK, Zenon
      <4> QED
        BY <4>1 DEF new
    <3>3. new.nominated_pair_confirmed \in BOOLEAN /\ c.nominated_pair_confirmed \in BOOLEAN
      BY <1>1, <3>2 DEF AgentOK, Agent
    <3>4. new.nominated_pair_confirmed = c.nominated_pair_confirmed
      BY <3>1, <3>3
    <3> QED
      BY <2>5, <2>8, <3>4 DEF RequestEffect
  <2>10. Heard(new, d, net \ {m})
    <3>1. /\ DOMAIN new.check_list = DOMAIN c.check_list
          /\ \A j \in DOMAIN c.check_list :
               new.check_list[j].remote = c.check_list[j].remote
      BY <2>5 DEF RequestEffect
    <3> QED
      BY <1>1, <2>6, <2>9, <3>1, NominatorMoves
  <2>11. ResponseTo(m).type = "response" /\ ResponseTo(m).to # ControllingAgent
    BY <2>2, AgentsAre DEF ResponseTo
  <2>12. Heard(new, d, net')
    BY <2>1, <2>10, <2>11, OthersAdded
  <2> QED
    BY <2>1, <2>12, NominatorSteps
<1> QED
  BY <1>5, <1>6, <1>7, AgentsAre

\* A success that arrives at either agent.
LEMMA ResponseHears ==
    ASSUME OpposedRoles, SessionInv, RoundInv, HeardInv,
           NEW a \in Agents, ReceiveResponse(a)
    PROVE  HeardInv'
<1> DEFINE c == agent[ControllingAgent]
           d == agent[ControlledAgent]
<1>1. Heard(c, d, net) /\ AgentOK(c) /\ AgentOK(d)
  BY AgentsAre DEF HeardInv, SessionInv, AgentInv
<1>2. PICK m \in net :
        /\ m.type = "response" /\ m.to = a
        /\ agent' = [agent EXCEPT ![a] = OnResponse(@, m.tid)]
        /\ net' = net \ {m}
  BY DEF ReceiveResponse
<1>3. CASE a = ControllingAgent
  <2> DEFINE new == OnResponse(c, m.tid)
  <2>1. agent' = [agent EXCEPT ![ControllingAgent] = new]
    BY <1>2, <1>3
  <2>2. Heard(new, d, net')
    BY <1>1, <1>2, <1>3, NominatorHears
  <2> HIDE DEF new
  <2> QED
    BY <2>1, <2>2, NominatorSteps
<1>4. CASE a = ControlledAgent
  <2> DEFINE new == OnResponse(d, m.tid)
  <2>1. agent' = [agent EXCEPT ![ControlledAgent] = new]
    BY <1>2, <1>4
  <2>2. d.role # "Controlling"
    BY AgentsAre DEF RoundInv, RoundOK, OpposedRoles
  <2>3. Grows(d, new)
    BY <1>1, <2>2, ResponseGrows
  <2>4. SameSetup(d, new) /\ SamePairs(d, new)
    BY <1>1, <2>2, OnResponseOK
  <2> HIDE DEF new
  <2>5. AnswererOK(new)
    BY <1>1, <2>4 DEF Heard, AnswererOK, SamePairs, SameSetup
  <2>6. Heard(c, new, net')
    BY <1>1, <1>2, <2>3, <2>5, AnswererMoves
  <2> QED
    BY <2>1, <2>6, AnswererSteps
<1> QED
  BY <1>3, <1>4, AgentsAre

\* Every step.
LEMMA HeardStep ==
    ASSUME OpposedRoles, OneRound, AddressesKnown,
           SessionInv, RoundInv, HeardInv, [Next]_vars
    PROVE  HeardInv'
<1>1. ASSUME NEW a \in Agents,
             \/ SetRemoteDescription(a) \/ StartChecks(a)
             \/ AcceptDescription(a) \/ AddRemoteCandidate(a)
      PROVE  HeardInv'
  BY <1>1, ApplicationHears
<1>2. ASSUME NEW a \in Agents, Stop(a) PROVE FALSE
  BY <1>2 DEF Stop, OneRound
<1>3. ASSUME NEW a \in Agents, Tick(a) PROVE HeardInv'
  BY <1>3, TickHears DEF Tick
<1>4. ASSUME NEW a \in Agents, ReceiveRequest(a) PROVE HeardInv'
  BY <1>4, RequestHears
<1>5. ASSUME NEW a \in Agents, ReceiveResponse(a) PROVE HeardInv'
  BY <1>5, ResponseHears
<1>6. ASSUME NEW a \in Agents, ReceiveRoleConflict(a) PROVE FALSE
  <2>1. faults.conflicts \in Nat
    BY DEF SessionInv, TypeOK, Faults
  <2> QED
    BY <1>6, <2>1 DEF ReceiveRoleConflict, OneRound
<1>7. CASE Lose
  <2>1. UNCHANGED agent /\ net' \subseteq net
    BY <1>7 DEF Lose
  <2>2. Heard(agent[ControllingAgent], agent[ControlledAgent], net')
    BY <2>1 DEF HeardInv, Heard
  <2> QED
    BY <2>1, <2>2 DEF HeardInv
<1>8. CASE Duplicate
  <2>1. PICK m \in net : net' = net \cup {[m EXCEPT !.copy = faults.copies + 1]}
    BY <1>8 DEF Duplicate
  <2> DEFINE n == [m EXCEPT !.copy = faults.copies + 1]
  <2>2. /\ n.type = m.type /\ n.tid = m.tid
        /\ n.type = "request" => n.from = m.from /\ n.src = m.src
        /\ n.type = "response" => n.to = m.to
    BY DEF SessionInv, TypeOK, Requests, Responses
  <2> HIDE DEF n
  <2>3. CheckOK(m, agent[ControllingAgent], agent[ControlledAgent])
    BY DEF HeardInv, Heard
  <2>4. CheckOK(n, agent[ControllingAgent], agent[ControlledAgent])
    BY <2>2, <2>3 DEF CheckOK
  <2>5. net' = net \cup {n} /\ UNCHANGED agent
    BY <1>8, <2>1 DEF Duplicate, n
  <2> QED
    BY <2>4, <2>5 DEF HeardInv, Heard
<1>9. CASE UNCHANGED vars
  BY <1>9 DEF vars, HeardInv
<1> QED
  BY <1>1, <1>2, <1>3, <1>4, <1>5, <1>6, <1>7, <1>8, <1>9 DEF Next, AgentStep

\* A controlling agent completes only on a path that carries both ways, whatever
\* is lost, repeated or reordered and however the checks of both agents cross
\* (agent.rs, handle_stun_response).
THEOREM CompletionIsHeard ==
    ASSUME OpposedRoles, OneRound, AddressesKnown
    PROVE  Spec => []CompletedIsHeard
<1>1. Init => HeardInv
  BY AgentsAre DEF Init, NewAgent, HeardInv, Heard, NominatorOK, AnswererOK
<1>2. SessionInv /\ RoundInv /\ HeardInv /\ [Next]_vars => HeardInv'
  BY HeardStep
<1>3. RoundInv /\ HeardInv => CompletedIsHeard
  <2> SUFFICES ASSUME RoundInv, HeardInv, NEW a \in Agents, NEW b \in Peers(a),
                      agent[a].state = "Completed", agent[a].role = "Controlling"
               PROVE  /\ CanSend(agent[a])
                      /\ HeardFrom(agent[b],
                           Source[a][agent[a].check_list[agent[a].nominated_pair_idx].remote])
    BY DEF CompletedIsHeard
  <2>1. a = ControllingAgent /\ b = ControlledAgent
    BY AgentsAre DEF RoundInv, RoundOK, OpposedRoles
  <2> QED
    BY <2>1 DEF HeardInv, Heard, NominatorOK, PathOfSelected, Selected
<1> QED
  BY <1>1, <1>2, <1>3, SessionInvariant, RoundInvariant, PTL DEF Spec
=============================================================================
