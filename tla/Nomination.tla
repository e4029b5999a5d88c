----------------------------- MODULE Nomination -----------------------------
(***************************************************************************)
(* What nomination promises: the controlling agent chooses one path, once; *)
(* the controlled agent adopts that path and no other, and keeps it.       *)
(*                                                                         *)
(* A path is named by the address the controlled agent sees the checks     *)
(* come from, which is where it sends its data.                            *)
(***************************************************************************)
CONSTANTS Paths, None     \* None is not a path

VARIABLES chosen,    \* the controlling agent's path
          adopted    \* the controlled agent's path

Init == chosen = None /\ adopted = None

Choose ==
    /\ chosen = None
    /\ chosen' \in Paths
    /\ UNCHANGED adopted

Adopt ==
    /\ chosen # None
    /\ adopted = None
    /\ adopted' = chosen
    /\ UNCHANGED chosen

Next == Choose \/ Adopt

Spec == Init /\ [][Next]_<<chosen, adopted>>
=============================================================================
