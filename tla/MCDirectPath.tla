---------------------------- MODULE MCDirectPath ----------------------------
(* Instances of DirectPath for TLC. *)
EXTENDS DirectPath, TLC

CONSTANTS u1, u2, c1, c2, c3

OneUser == {u1}
TwoUsers == {u1, u2}
TwoConns == {c1, c2}
ThreeConns == {c1, c2, c3}

\* Users and connections are interchangeable in the safety runs.
Symmetry == Permutations(Users) \cup Permutations(Conns)
=============================================================================
