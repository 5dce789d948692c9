--------------------------- MODULE MCFilePipeline ---------------------------
(* Instances of FilePipeline for TLC. *)
EXTENDS FilePipeline, TLC

CONSTANTS f1, f2, c1, c2, s1, s2, w1, w2, h1, h2, p1, p2

\* two contents, one of them without indexable text
TwoContentOf == (f1 :> c1) @@ (f2 :> c2)
TwoScopeOf == (f1 :> s1) @@ (f2 :> s2)

\* the same bytes uploaded twice, into different scopes
PairContentOf == (f1 :> c1) @@ (f2 :> c1)
PairScopeOf == (f1 :> s1) @@ (f2 :> s2)

ChunksOfShort == (c1 :> 1)
ChunksOfTwo == (c1 :> 2) @@ (c2 :> 0)

OneProc == [t \in {w1, w2, h1, h2} |-> p1]
OneProcOneHandler == [t \in {w1, w2, h1} |-> p1]

\* threads of one process are interchangeable
ThreadSymmetry == Permutations({w1, w2}) \cup Permutations({h1, h2})
=============================================================================
