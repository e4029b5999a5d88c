---------------------------- MODULE MCIceSession ----------------------------
(* Small instances of IceSession: each agent has a host candidate and may have
   a server-reflexive one. *)
EXTENDS IceSession

CONSTANTS A, B, a1, a2, b1, b2

hostA  == [addr |-> a1, prio |-> 3]
srflxA == [addr |-> a2, prio |-> 2]
hostB  == [addr |-> b1, prio |-> 3]
srflxB == [addr |-> b2, prio |-> 2]

MCCandidate == {hostA, srflxA, hostB, srflxB}

ControllingA == [a \in Agents |-> IF a = A THEN "Controlling" ELSE "Controlled"]

OnePath == [a \in Agents |-> IF a = A THEN {hostA} ELSE {hostB}]

BothCandidates ==
    [a \in Agents |-> IF a = A THEN {hostA, srflxA} ELSE {hostB, srflxB}]

TwoPaths == [a \in Agents |-> IF a = A THEN {hostA} ELSE {hostB, srflxB}]

(* Everyone reaches everyone: the peer sees the host address. *)
Direct ==
    [a \in Agents |-> [c \in MCCandidate |-> IF a = A THEN a1 ELSE b1]]

(* A's datagrams arrive, B's do not: A sits behind a filtering NAT. *)
OneWay ==
    [a \in Agents |-> [c \in MCCandidate |-> IF a = A THEN a1 ELSE NoRoute]]

(* A's NAT gives each destination a port of its own: B sees A's checks come from
   a1 or a2.  Of B's own checks those of A's host address arrive. *)
TwoMappingsBack ==
    [a \in Agents |-> [c \in MCCandidate |->
        IF a = A THEN (IF c = srflxB THEN a2 ELSE a1)
                 ELSE (IF c = hostA THEN b1 ELSE NoRoute)]]
=============================================================================
