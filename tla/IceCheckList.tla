---------------------------- MODULE IceCheckList ----------------------------
(***************************************************************************)
(* Pair priorities and check-list construction (p2p-core, ice/check_list.rs *)
(* and the body of IceAgent::start_checks).                                *)
(*                                                                         *)
(* A candidate is a record [addr, prio].  The code computes the priority   *)
(* of a pair in a u64 with the base 2^32; PRIO_BASE is that base, scaled   *)
(* down together with the priorities of an instance.                       *)
(***************************************************************************)
EXTENDS Integers, Sequences, FiniteSets

CONSTANT PRIO_BASE

ASSUME PrioBaseAssumption == PRIO_BASE \in Nat \ {0}

IceRoles == {"Controlling", "Controlled"}

CheckStates == {"Waiting", "InProgress", "Succeeded", "Failed"}

\* Priority of the pair (l, r): G is the controlling side's candidate.
PairPriority(l, r, role) ==
    LET g   == IF role = "Controlling" THEN l.prio ELSE r.prio
        d   == IF role = "Controlling" THEN r.prio ELSE l.prio
        low == IF g < d THEN g ELSE d
        top == IF g < d THEN d ELSE g
    IN  PRIO_BASE * low + 2 * top + (IF g > d THEN 1 ELSE 0)

\* Every local x remote pair once, by descending priority.  Equal priorities
\* keep their insertion order in the code; here any order of a tie is allowed.
CheckLists(locals, remotes, role) ==
    LET pairs == locals \X remotes
        Prio(c) == PairPriority(c[1], c[2], role)
    IN  { cl \in [1..Cardinality(pairs) -> pairs] :
            \A i, j \in 1..Cardinality(pairs) :
                i < j => cl[i] # cl[j] /\ Prio(cl[i]) >= Prio(cl[j]) }

\* Iterator::position over a check list: the first index of S, 0 for None.
Position(S) ==
    IF \E i \in S : \A j \in S : i <= j
    THEN CHOOSE i \in S : \A j \in S : i <= j
    ELSE 0

\* all_pairs_failed / check_completion: a non-empty list, terminal, no success.
AllPairsFailed(pairs) ==
    /\ DOMAIN pairs # {}
    /\ \A i \in DOMAIN pairs : pairs[i].state = "Failed"
=============================================================================
