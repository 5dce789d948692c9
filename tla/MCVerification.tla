--------------------------- MODULE MCVerification ---------------------------
(* Small instances of Verification for TLC. *)
EXTENDS Verification, TLC

CONSTANTS q1, q2, v1, v2, v3

TwoRequests == {q1, q2}
ThreeRuns == {v1, v2, v3}

Ids == Permutations(Request) \cup Permutations(Run)
=============================================================================
