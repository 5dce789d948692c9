------------------------------ MODULE Folding ------------------------------
(***************************************************************************)
(* Folds over sequences, unrolled: what FoldLeft computes from a sequence  *)
(* with one element more, for any operation.  Op is a constant operator,   *)
(* so each fold of Chunking gets the lemmas from an instance with its own  *)
(* operation; the first parameter of Op is what stays the same in a fold.  *)
(* Also the induction these lemmas rest on, in terms of sets.              *)
(***************************************************************************)
EXTENDS Integers, Sequences, WellFoundedInduction

CONSTANT Op(_, _, _)

-----------------------------------------------------------------------------
(* Induction over the naturals, for sets *)

\* a set of naturals with a member has a least one
LEMMA LeastOf ==
  ASSUME NEW S \in SUBSET Nat, S # {}
  PROVE  \E i \in S : \A j \in S : i <= j
<1> DEFINE R == OpToRel(<, Nat)
<1>1. IsWellFoundedOn(R, Nat)
  BY NatLessThanWellFounded
<1>2. PICK i \in S : \A j \in S : ~ (<<j, i>> \in R)
  BY <1>1, WFMin
<1>3. \A j \in S : ~ (j < i)
  BY <1>2 DEF OpToRel
<1> QED BY <1>3

\* a set that holds 0, and i + 1 with every i below n, holds 0..n
LEMMA UpTo ==
  ASSUME NEW n \in Nat, NEW S, 0 \in S, \A i \in 0..n : i \in S /\ i < n => i + 1 \in S
  PROVE  0..n \subseteq S
<1> DEFINE missing == {i \in 0..n : i \notin S}
<1> SUFFICES ASSUME missing # {}  PROVE FALSE
  OBVIOUS
<1>1. PICK i \in missing : \A j \in missing : i <= j
  <2>1. missing \in SUBSET Nat
    OBVIOUS
  <2> HIDE DEF missing
  <2> QED BY <2>1, LeastOf
<1>2. i - 1 \in 0..n /\ i - 1 < n /\ i - 1 \in S
  BY <1>1
<1> QED BY <1>1, <1>2

\* as SequencesExt chooses the elements of a fold
Max(S) == CHOOSE i \in S : \A j \in S : i >= j

\* the largest of a set of positions is in it
LEMMA MaxOf ==
  ASSUME NEW n \in Nat, NEW T \in SUBSET (1..n), T # {}
  PROVE  Max(T) \in T /\ \A j \in T : j <= Max(T)
<1> DEFINE above == {i \in Nat : \A j \in T : j <= i}
<1>1. PICK k \in above : \A i \in above : k <= i
  <2>1. n \in above
    OBVIOUS
  <2>2. above \in SUBSET Nat /\ above # {}
    BY <2>1
  <2> HIDE DEF above
  <2> QED BY <2>2, LeastOf
<1>2. k \in T
  <2> SUFFICES ASSUME k \notin T  PROVE FALSE
    OBVIOUS
  <2>1. \A j \in T : j <= k /\ j # k /\ j \in Int /\ j >= 1
    BY <1>1
  <2>2. k >= 1
    <3>1. PICK j \in T : TRUE
      OBVIOUS
    <3>2. k \in Int /\ j \in Int /\ j <= k /\ j >= 1
      BY <1>1, <2>1
    <3> QED BY <3>2
  <2>3. k - 1 \in above
    BY <1>1, <2>1, <2>2
  <2> QED BY <1>1, <2>3
<1>3. \A j \in T : j <= k /\ j \in Int
  BY <1>1
<1> QED BY <1>2, <1>3 DEF Max

-----------------------------------------------------------------------------
(* A fold is an iteration *)

Iterates(iter, p, n, s, base) ==
  iter = [t \in SUBSET (1..n) |-> IF t = {} THEN base ELSE Op(p, iter[t \ {Max(t)}], s[Max(t)])]

\* the function that an iteration chooses exists
LEMMA IterationExists ==
  ASSUME NEW n \in Nat, NEW s, NEW base, NEW p
  PROVE  \E iter : Iterates(iter, p, n, s, base)
<1> DEFINE Done == {k \in 0..n : \E f : Iterates(f, p, k, s, base)}
<1>1. 0 \in Done
  <2>1. 1..0 = {}
    OBVIOUS
  <2>2. Iterates([t \in SUBSET {} |-> base], p, 0, s, base)
    BY <2>1 DEF Iterates
  <2> QED BY <2>2
<1>2. ASSUME NEW k \in 0..n, k \in Done, k < n  PROVE k + 1 \in Done
  <2>1. PICK f : Iterates(f, p, k, s, base)
    BY <1>2
  <2> DEFINE Step(t) == IF t = {} THEN base ELSE Op(p, f[t \ {Max(t)}], s[Max(t)])
             g == [t \in SUBSET (1..k + 1) |-> Step(t)]
  <2>2. \A t \in SUBSET (1..k) : f[t] = Step(t)
    BY <2>1 DEF Iterates
  <2>3. \A t \in SUBSET (1..k + 1) : t # {} => t \ {Max(t)} \in SUBSET (1..k)
    <3> SUFFICES ASSUME NEW t \in SUBSET (1..k + 1), t # {}, NEW j \in t, j # Max(t)  PROVE j \in 1..k
      OBVIOUS
    <3>1. k + 1 \in Nat
      BY <1>2
    <3>2. Max(t) \in t /\ j <= Max(t)
      BY <3>1, MaxOf
    <3>3. Max(t) \in 1..k + 1 /\ j \in 1..k + 1
      BY <3>2
    <3> QED BY <3>2, <3>3
  <2>4. \A t \in SUBSET (1..k) : g[t] = f[t]
    BY <2>2
  <2>5. \A t \in SUBSET (1..k + 1) : g[t] = IF t = {} THEN base ELSE Op(p, g[t \ {Max(t)}], s[Max(t)])
    <3> SUFFICES ASSUME NEW t \in SUBSET (1..k + 1), t # {}  PROVE g[t] = Op(p, g[t \ {Max(t)}], s[Max(t)])
      OBVIOUS
    <3>1. g[t \ {Max(t)}] = f[t \ {Max(t)}]
      BY <2>3, <2>4
    <3>2. g[t] = Op(p, f[t \ {Max(t)}], s[Max(t)])
      OBVIOUS
    <3> QED BY <3>1, <3>2
  <2>6. g = [t \in SUBSET (1..k + 1) |-> g[t]]
    OBVIOUS
  <2> HIDE DEF g
  <2>7. Iterates(g, p, k + 1, s, base)
    BY <2>5, <2>6 DEF Iterates
  <2> QED BY <1>2, <2>7
<1>3. n \in Done
  <2>1. n \in 0..n
    OBVIOUS
  <2> HIDE DEF Done
  <2> QED BY <1>1, <1>2, <2>1, UpTo
<1> QED BY <1>3

\* what FoldLeft(Op, base, s) expands to, for a sequence s of length n
Iteration(p, n, s, base) == (CHOOSE iter : Iterates(iter, p, n, s, base))[1..n]

\* an iteration is the last of a series that starts from base and applies Op to each element in turn
LEMMA FoldIterates ==
  ASSUME NEW n \in Nat, NEW s, NEW base, NEW p
  PROVE  \E acc : /\ acc[0] = base /\ acc[n] = Iteration(p, n, s, base)
                  /\ \A i \in 1..n : acc[i] = Op(p, acc[i - 1], s[i])
<1> DEFINE iter == CHOOSE f : Iterates(f, p, n, s, base)
           acc == [i \in 0..n |-> iter[1..i]]
<1>0. Iterates(iter, p, n, s, base)
  BY IterationExists
<1>2. acc[n] = Iteration(p, n, s, base)
  BY DEF Iteration
<1> HIDE DEF iter
<1>1. iter = [t \in SUBSET (1..n) |-> IF t = {} THEN base ELSE Op(p, iter[t \ {Max(t)}], s[Max(t)])]
  BY <1>0 DEF Iterates
<1>3. acc[0] = base
  <2>1. 1..0 = {}
    OBVIOUS
  <2> QED BY <1>1, <2>1
<1>4. ASSUME NEW i \in 1..n  PROVE acc[i] = Op(p, acc[i - 1], s[i])
  <2>1. 1..i \in SUBSET (1..n) /\ 1..i # {}
    OBVIOUS
  <2>2. Max(1..i) \in 1..i /\ \A j \in 1..i : j <= Max(1..i)
    BY <2>1, MaxOf
  <2>3. Max(1..i) = i
    BY <2>2
  <2>4. (1..i) \ {i} = 1..i - 1
    OBVIOUS
  <2>5. iter[1..i] = Op(p, iter[1..i - 1], s[i])
    BY <1>1, <2>1, <2>3, <2>4
  <2> QED BY <2>5
<1> QED BY <1>2, <1>3, <1>4

\* no step leaves the base
LEMMA IterationNone ==
  ASSUME NEW p, NEW s, NEW base
  PROVE  Iteration(p, 0, s, base) = base
BY FoldIterates

\* one more step applies Op to what the steps before it made
LEMMA IterationStep ==
  ASSUME NEW p, NEW n \in Nat, NEW s, NEW t, NEW base, \A i \in 1..n : s[i] = t[i]
  PROVE  Iteration(p, n + 1, t, base) = Op(p, Iteration(p, n, s, base), t[n + 1])
<1>1. PICK f : /\ f[0] = base /\ f[n] = Iteration(p, n, s, base)
               /\ \A i \in 1..n : f[i] = Op(p, f[i - 1], s[i])
  BY FoldIterates
<1>2. PICK g : /\ g[0] = base /\ g[n + 1] = Iteration(p, n + 1, t, base)
               /\ \A i \in 1..n + 1 : g[i] = Op(p, g[i - 1], t[i])
  BY FoldIterates
<1> DEFINE Same == {i \in 0..n : f[i] = g[i]}
<1>3. 0 \in Same
  BY <1>1, <1>2
<1>4. ASSUME NEW i \in 0..n, i \in Same, i < n  PROVE i + 1 \in Same
  <2>1. i + 1 \in 1..n /\ i + 1 \in 1..n + 1 /\ (i + 1) - 1 = i
    BY <1>4
  <2>2. f[i + 1] = Op(p, f[i], s[i + 1]) /\ g[i + 1] = Op(p, g[i], t[i + 1])
    BY <1>1, <1>2, <2>1
  <2> QED BY <1>4, <2>1, <2>2
<1>5. f[n] = g[n]
  <2>1. n \in 0..n
    OBVIOUS
  <2>2. n \in Same
    <3> HIDE DEF Same
    <3> QED BY <1>3, <1>4, <2>1, UpTo
  <2> QED BY <2>2
<1>6. g[n + 1] = Op(p, g[n], t[n + 1])
  <2>1. n + 1 \in 1..n + 1 /\ (n + 1) - 1 = n
    OBVIOUS
  <2> QED BY <1>2, <2>1
<1> QED BY <1>1, <1>2, <1>5, <1>6

Fold(p, s, base) == (CHOOSE iter : Iterates(iter, p, Len(s), s, base))[1..Len(s)]

\* a fold of nothing is its base
LEMMA FoldNone ==
  ASSUME NEW p, NEW base
  PROVE  Fold(p, <<>>, base) = base
<1>1. Len(<<>>) = 0
  OBVIOUS
<1>2. Fold(p, <<>>, base) = Iteration(p, 0, <<>>, base)
  BY <1>1 DEF Fold, Iteration
<1> QED BY <1>2, IterationNone

\* a fold of one element more applies Op once more
LEMMA FoldAppend ==
  ASSUME NEW p, NEW S, NEW s \in Seq(S), NEW e, NEW base
  PROVE  Fold(p, Append(s, e), base) = Op(p, Fold(p, s, base), e)
<1> DEFINE t == Append(s, e)
<1>1. PICK n \in Nat : n = Len(s)
  OBVIOUS
<1>2. Len(t) = n + 1 /\ t[n + 1] = e /\ \A i \in 1..n : s[i] = t[i]
  BY <1>1
<1> HIDE DEF t
<1>3. Iteration(p, n + 1, t, base) = Op(p, Iteration(p, n, s, base), t[n + 1])
  BY <1>2, IterationStep
<1>4. Fold(p, s, base) = Iteration(p, n, s, base)
  BY <1>1 DEF Fold, Iteration
<1>5. Fold(p, t, base) = Iteration(p, n + 1, t, base)
  BY <1>2 DEF Fold, Iteration
<1>6. Fold(p, t, base) = Op(p, Fold(p, s, base), e)
  BY <1>2, <1>3, <1>4, <1>5
<1> QED BY <1>6 DEF t
=============================================================================
