-------------------------- MODULE AIRequestsProofs --------------------------
(***************************************************************************)
(* Theorems about the limiter and the pools of AIRequests, for any number  *)
(* of requests, any limit and any size of the pools.                       *)
(***************************************************************************)
EXTENDS AIRequests, TLAPS, SequenceTheorems, FiniteSetTheorems

-----------------------------------------------------------------------------
(* The limiter: what relates its deque to the history of admissions.        *)

Admission == [stamp : 0..Horizon, at : 0..Horizon]

LimitTypeOK ==
    /\ clock \in 0..Horizon
    /\ hits \in Seq(0..Horizon)
    /\ gate \in [Request -> {"new", "stamped", "admitted", "refused"}]
    /\ stamp \in [Request -> 0..Horizon]
    /\ admitted \in Seq(Admission)
    /\ dropped \in Nat

(* The deque is the last part of the admissions, and never too long.        *)
DequeIsSuffix ==
    /\ Len(hits) + dropped = Len(admitted)
    /\ Len(hits) <= Limit
    /\ \A j \in 1..Len(hits) : hits[j] = admitted[dropped + j].stamp

(* No request reaches the lock later than MaxDelay after its clock.         *)
DelayBounded ==
    /\ \A i \in 1..Len(admitted) :
          /\ admitted[i].stamp <= admitted[i].at
          /\ admitted[i].at <= admitted[i].stamp + MaxDelay
    /\ \A q \in Request :
          gate[q] = "stamped" => stamp[q] <= clock /\ clock <= stamp[q] + MaxDelay

(* What was popped was admitted long ago.                                   *)
DroppedAreOld ==
    \A i \in 1..Len(admitted) :
        i <= dropped => admitted[i].at + Window - MaxDelay < clock

LimitInv ==
    /\ LimitTypeOK
    /\ DequeIsSuffix
    /\ DelayBounded
    /\ DroppedAreOld
    /\ AdmissionsSpaced

LEMMA LimitInitInv == LimitInit => LimitInv
BY LimitAssumption
   DEF LimitInit, LimitInv, LimitTypeOK, DequeIsSuffix, DelayBounded,
       DroppedAreOld, AdmissionsSpaced, Admission

(* The rest of a sequence after its first n elements. *)
LEMMA SuffixProperties ==
    ASSUME NEW S, NEW s \in Seq(S), NEW n \in 0..Len(s)
    PROVE  LET rest == SubSeq(s, n + 1, Len(s)) IN
           /\ rest \in Seq(S)
           /\ Len(rest) = Len(s) - n
           /\ \A i \in 1..Len(rest) : rest[i] = s[n + i]
  <1> DEFINE rest == SubSeq(s, n + 1, Len(s))
  <1>0. Len(s) \in Nat /\ n \in Nat /\ n <= Len(s)
    BY LenProperties
  <1>1. \A i \in (n + 1)..Len(s) : s[i] \in S
    <2> TAKE i \in (n + 1)..Len(s)
    <2>1. i \in 1..Len(s)
      BY <1>0
    <2> QED BY <2>1, ElementOfSeq
  <1>2. n + 1 \in Int /\ Len(s) \in Int
    BY <1>0
  <1>3. /\ rest \in Seq(S)
        /\ Len(rest) = IF n + 1 <= Len(s) THEN Len(s) - (n + 1) + 1 ELSE 0
        /\ \A i \in 1..(Len(s) - (n + 1) + 1) : rest[i] = s[(n + 1) + i - 1]
    BY <1>1, <1>2, SubSeqProperties
  <1> HIDE DEF rest
  <1>4. Len(rest) = Len(s) - n
    BY <1>0, <1>3
  <1>5. ASSUME NEW i \in 1..Len(rest) PROVE rest[i] = s[n + i]
    <2>1. i \in 1..(Len(s) - (n + 1) + 1) /\ (n + 1) + i - 1 = n + i
      BY <1>0, <1>4
    <2> QED BY <2>1, <1>3
  <1> QED BY <1>3, <1>4, <1>5 DEF rest

LEMMA AdmissionTypes ==
    ASSUME LimitTypeOK, NEW i \in 1..Len(admitted)
    PROVE  admitted[i].stamp \in Int /\ admitted[i].at \in Int
  <1>1. admitted[i] \in Admission
    BY ElementOfSeq DEF LimitTypeOK
  <1> QED BY <1>1 DEF Admission

LEMMA PoppedIsOld ==
    \A now, st, adm, c \in Int :
        now - st > Window /\ adm <= st + MaxDelay /\ now <= c
        => adm + Window - MaxDelay < c
BY LimitAssumption

LEMMA Regroup == \A r, d, n, a \in Int : r + (d + n) = a => (d + n) + (r + 1) = a + 1
OBVIOUS

LEMMA Pop == \A h, d, n, a \in Int : h + d = a => (h - n) + (d + n) = a
OBVIOUS

(* What pruning leaves: the rest of the deque, whose head is in the window, *)
(* and all that was ever popped is old.                                     *)
LEMMA PruneKeeps ==
    ASSUME LimitInv,
           NEW q \in Request, gate[q] = "stamped",
           NEW n \in 0..Len(hits), Pruned(stamp[q], n)
    PROVE  LET rest == SubSeq(hits, n + 1, Len(hits)) IN
           /\ rest \in Seq(0..Horizon)
           /\ Len(rest) = Len(hits) - n
           /\ dropped + n \in Nat
           /\ Len(rest) + (dropped + n) = Len(admitted)
           /\ \A j \in 1..Len(rest) : rest[j] = admitted[(dropped + n) + j].stamp
           /\ \A i \in 1..Len(admitted) :
                 i <= dropped + n => admitted[i].at + Window - MaxDelay < clock
           /\ rest # <<>> => stamp[q] - rest[1] <= Window
  <1> DEFINE rest == SubSeq(hits, n + 1, Len(hits))
  <1> USE LimitAssumption DEF LimitInv, LimitTypeOK, DequeIsSuffix
  <1>0. /\ Len(hits) \in Nat /\ n \in Nat /\ n <= Len(hits)
        /\ stamp[q] \in Int /\ clock \in Int /\ dropped \in Nat
        /\ Len(admitted) \in Nat
    BY LenProperties
  <1>1. /\ rest \in Seq(0..Horizon)
        /\ Len(rest) = Len(hits) - n
        /\ \A i \in 1..Len(rest) : rest[i] = hits[n + i]
    BY SuffixProperties
  <1> HIDE DEF rest
  <1>2. Len(rest) = Len(hits) - n
    BY <1>1
  <1>3. \A i \in 1..Len(rest) : rest[i] = hits[n + i]
    BY <1>1
  <1>4. \A j \in 1..Len(rest) : rest[j] = admitted[(dropped + n) + j].stamp
    <2> TAKE j \in 1..Len(rest)
    <2>1. n + j \in 1..Len(hits)
      BY <1>0, <1>2
    <2>2. hits[n + j] = admitted[dropped + (n + j)].stamp
      BY <2>1
    <2>3. dropped + (n + j) = (dropped + n) + j
      BY <1>0, <1>2
    <2> QED BY <2>2, <2>3, <1>3
  <1>5. \A i \in 1..Len(admitted) :
           i <= dropped + n => admitted[i].at + Window - MaxDelay < clock
    <2> SUFFICES ASSUME NEW i \in 1..Len(admitted), i <= dropped + n
                 PROVE  admitted[i].at + Window - MaxDelay < clock
      OBVIOUS
    <2>1. CASE i <= dropped
      BY <2>1 DEF DroppedAreOld
    <2>2. CASE i > dropped
      <3>1. i - dropped \in 1..n /\ i - dropped \in 1..Len(hits)
        BY <2>2, <1>0
      <3>2. stamp[q] - hits[i - dropped] > Window
        BY <3>1 DEF Pruned, Old
      <3>3. hits[i - dropped] = admitted[i].stamp
        <4>1. hits[i - dropped] = admitted[dropped + (i - dropped)].stamp
          BY <3>1
        <4>2. dropped + (i - dropped) = i
          OBVIOUS
        <4> QED BY <4>1, <4>2
      <3>4. admitted[i].stamp \in Int /\ admitted[i].at \in Int
        BY AdmissionTypes
      <3>5. admitted[i].at <= admitted[i].stamp + MaxDelay /\ stamp[q] <= clock
        BY DEF DelayBounded
      <3>6. stamp[q] - admitted[i].stamp > Window
        BY <3>2, <3>3
      <3> QED BY <3>4, <3>5, <3>6, <1>0, PoppedIsOld
    <2> QED BY <2>1, <2>2
  <1>6. rest # <<>> => stamp[q] - rest[1] <= Window
    <2> SUFFICES ASSUME rest # <<>> PROVE stamp[q] - rest[1] <= Window
      OBVIOUS
    <2>1. Len(rest) \in Nat \ {0}
      BY <1>1, EmptySeq
    <2>2. n < Len(hits) /\ n + 1 \in 1..Len(hits) /\ rest[1] = hits[n + 1]
      BY <2>1, <1>0, <1>2, <1>3
    <2>3. ~(stamp[q] - hits[n + 1] > Window) /\ hits[n + 1] \in 0..Horizon
      BY <2>2, ElementOfSeq DEF Pruned, Old
    <2> QED BY <2>2, <2>3, <1>0
  <1>7. dropped + n \in Nat /\ Len(rest) + (dropped + n) = Len(admitted)
    <2>1. Len(hits) + dropped = Len(admitted)
      OBVIOUS
    <2> DEFINE H == Len(hits)
               A == Len(admitted)
    <2>2. dropped + n \in Nat /\ H \in Int /\ A \in Int /\ dropped \in Int /\ n \in Int
      BY <1>0
    <2>3. H + dropped = A
      BY <2>1
    <2> HIDE DEF H, A
    <2>4. (H - n) + (dropped + n) = A
      BY <2>2, <2>3, Pop
    <2> QED BY <2>2, <2>4, <1>2 DEF H, A
  <1>8. rest \in Seq(0..Horizon)
    BY <1>1
  <1> QED BY <1>2, <1>4, <1>5, <1>6, <1>7, <1>8 DEF rest

LEMMA TickInv == LimitInv /\ Tick => LimitInv'
  <1> SUFFICES ASSUME LimitInv, Tick PROVE LimitInv'
    OBVIOUS
  <1> USE LimitAssumption DEF LimitInv, LimitTypeOK, Tick
  <1>1. LimitTypeOK'
    OBVIOUS
  <1>2. DequeIsSuffix'
    BY DEF DequeIsSuffix
  <1>3. DelayBounded'
    BY DEF DelayBounded
  <1>4. DroppedAreOld'
    <2> SUFFICES ASSUME NEW i \in 1..Len(admitted), i <= dropped
                 PROVE  admitted[i].at + Window - MaxDelay < clock + 1
      BY DEF DroppedAreOld
    <2>1. admitted[i].at \in Int
      BY AdmissionTypes
    <2>2. admitted[i].at + Window - MaxDelay < clock
      BY DEF DroppedAreOld
    <2> QED BY <2>1, <2>2
  <1>5. AdmissionsSpaced'
    BY DEF AdmissionsSpaced
  <1> QED BY <1>1, <1>2, <1>3, <1>4, <1>5

LEMMA ReadClockInv == \A q \in Request : LimitInv /\ ReadClock(q) => LimitInv'
  <1> SUFFICES ASSUME NEW q \in Request, LimitInv, ReadClock(q) PROVE LimitInv'
    OBVIOUS
  <1> USE LimitAssumption DEF LimitInv, LimitTypeOK, ReadClock
  <1>1. LimitTypeOK'
    OBVIOUS
  <1>2. DequeIsSuffix'
    BY DEF DequeIsSuffix
  <1>3. DelayBounded'
    BY DEF DelayBounded
  <1>4. DroppedAreOld'
    BY DEF DroppedAreOld
  <1>5. AdmissionsSpaced'
    BY DEF AdmissionsSpaced
  <1> QED BY <1>1, <1>2, <1>3, <1>4, <1>5

(* The new admission is the last: Limit places before it stands one that    *)
(* was popped, for otherwise the deque would have been full.                *)
LEMMA AdmitInv == \A q \in Request : LimitInv /\ Admit(q) => LimitInv'
  <1> SUFFICES ASSUME NEW q \in Request, LimitInv, Admit(q) PROVE LimitInv'
    OBVIOUS
  <1>0. gate[q] = "stamped"
    BY DEF Admit
  <1>1. PICK n \in 0..Len(hits) :
           LET rest == SubSeq(hits, n + 1, Len(hits))
           IN /\ Pruned(stamp[q], n)
              /\ ~Full(rest)
              /\ hits' = Append(rest, stamp[q])
              /\ dropped' = dropped + n
    BY DEF Admit
  <1> DEFINE rest == SubSeq(hits, n + 1, Len(hits))
             new == [stamp |-> stamp[q], at |-> clock]
  <1>2. /\ rest \in Seq(0..Horizon)
        /\ Len(rest) = Len(hits) - n
        /\ dropped + n \in Nat
        /\ Len(rest) + (dropped + n) = Len(admitted)
        /\ \A j \in 1..Len(rest) : rest[j] = admitted[(dropped + n) + j].stamp
        /\ \A i \in 1..Len(admitted) :
              i <= dropped + n => admitted[i].at + Window - MaxDelay < clock
    BY <1>0, <1>1, PruneKeeps
  <1>3. /\ Len(rest) < Limit
        /\ hits' = Append(rest, stamp[q])
        /\ dropped' = dropped + n
    <2>1. ~(Len(rest) >= Limit)
      BY <1>1 DEF Full
    <2>2. Len(rest) \in Nat
      BY <1>2
    <2> QED BY <2>1, <2>2, <1>1, LimitAssumption
  <1> HIDE DEF rest
  <1>4. /\ gate' = [gate EXCEPT ![q] = "admitted"]
        /\ admitted' = Append(admitted, new)
        /\ clock' = clock /\ stamp' = stamp
    BY DEF Admit
  <1>5. /\ clock \in 0..Horizon /\ stamp[q] \in 0..Horizon /\ new \in Admission
        /\ admitted \in Seq(Admission) /\ Len(admitted) \in Nat
        /\ stamp[q] <= clock /\ clock <= stamp[q] + MaxDelay
    BY <1>0, LenProperties DEF LimitInv, LimitTypeOK, Admission, DelayBounded
  <1> HIDE DEF new
  <1>6. /\ admitted' \in Seq(Admission)
        /\ Len(admitted') = Len(admitted) + 1
        /\ \A i \in 1..Len(admitted) : admitted'[i] = admitted[i]
        /\ admitted'[Len(admitted) + 1] = new
    BY <1>4, <1>5, AppendProperties
  <1>7. /\ hits' \in Seq(0..Horizon)
        /\ Len(hits') = Len(rest) + 1
        /\ \A i \in 1..Len(rest) : hits'[i] = rest[i]
        /\ hits'[Len(rest) + 1] = stamp[q]
    BY <1>2, <1>3, <1>5, AppendProperties
  <1>8. new.stamp = stamp[q] /\ new.at = clock
    BY DEF new
  <1>n. Len(rest) \in Nat
    BY <1>2
  <1>9. LimitTypeOK'
    BY <1>2, <1>3, <1>4, <1>6, <1>7, <1>5 DEF LimitInv, LimitTypeOK
  <1>10. DequeIsSuffix'
    <2>1. Len(hits') + dropped' = Len(admitted')
      BY <1>2, <1>3, <1>6, <1>7, <1>n
    <2>2. Len(hits') <= Limit
      BY <1>3, <1>7, <1>n, LimitAssumption
    <2>3. ASSUME NEW j \in 1..Len(hits')
          PROVE  hits'[j] = admitted'[dropped' + j].stamp
      <3>1. CASE j = Len(rest) + 1
        <4>1. dropped' + j = Len(admitted) + 1
          <5>1. dropped \in Int /\ n \in Int /\ Len(admitted) \in Int /\ Len(rest) \in Int
            BY <1>5, <1>n, LenProperties DEF LimitInv, LimitTypeOK
          <5> DEFINE R == Len(rest)
                     A == Len(admitted)
          <5>2. R \in Int /\ A \in Int /\ dropped \in Int /\ n \in Int
                /\ R + (dropped + n) = A
            BY <5>1, <1>2
          <5> HIDE DEF R, A
          <5>3. (dropped + n) + (R + 1) = A + 1
            BY <5>2, Regroup
          <5> QED BY <5>3, <3>1, <1>3 DEF R, A
        <4>2. hits'[j] = stamp[q]
          BY <3>1, <1>7
        <4>3. admitted'[dropped' + j].stamp = stamp[q]
          BY <4>1, <1>6, <1>8
        <4> QED BY <4>2, <4>3
      <3>2. CASE j # Len(rest) + 1
        <4>1. j \in 1..Len(rest)
          BY <3>2, <1>7, <1>n
        <4>2. (dropped + n) + j \in 1..Len(admitted)
          BY <4>1, <1>2, <1>n
        <4> QED BY <4>1, <4>2, <1>2, <1>3, <1>6, <1>7
      <3> QED BY <3>1, <3>2
    <2> QED BY <2>1, <2>2, <2>3 DEF DequeIsSuffix
  <1>11. DelayBounded'
    <2>1. ASSUME NEW i \in 1..Len(admitted')
          PROVE  /\ admitted'[i].stamp <= admitted'[i].at
                 /\ admitted'[i].at <= admitted'[i].stamp + MaxDelay
      <3>1. CASE i = Len(admitted) + 1
        BY <3>1, <1>5, <1>6, <1>8
      <3>2. CASE i # Len(admitted) + 1
        <4>1. i \in 1..Len(admitted)
          BY <3>2, <1>5, <1>6
        <4> QED BY <4>1, <1>6 DEF LimitInv, DelayBounded
      <3> QED BY <3>1, <3>2
    <2>2. ASSUME NEW p \in Request, gate'[p] = "stamped"
          PROVE  stamp'[p] <= clock' /\ clock' <= stamp'[p] + MaxDelay
      <3>1. gate[p] = "stamped"
        BY <2>2, <1>4 DEF LimitInv, LimitTypeOK
      <3> QED BY <3>1, <1>4 DEF LimitInv, DelayBounded
    <2> QED BY <2>1, <2>2 DEF DelayBounded
  <1>12. DroppedAreOld'
    <2> SUFFICES ASSUME NEW i \in 1..Len(admitted'), i <= dropped'
                 PROVE  admitted'[i].at + Window - MaxDelay < clock'
      BY DEF DroppedAreOld
    <2>1. i \in 1..Len(admitted) /\ i <= dropped + n
      BY <1>2, <1>3, <1>n
    <2> QED BY <2>1, <1>2, <1>4, <1>6
  <1>13. AdmissionsSpaced'
    <2> SUFFICES ASSUME NEW i \in 1..Len(admitted'), NEW j \in 1..Len(admitted'),
                        j = i + Limit
                 PROVE  admitted'[j].at - admitted'[i].at > Window - MaxDelay
      BY DEF AdmissionsSpaced
    <2>0. i \in 1..Len(admitted)
      BY <1>6, <1>5, LimitAssumption
    <2>1. CASE j = Len(admitted) + 1
      <3>1. i <= dropped + n
        BY <2>1, <1>2, <1>3, <1>n, LimitAssumption
      <3>2. admitted[i].at + Window - MaxDelay < clock
        BY <3>1, <2>0, <1>2
      <3>3. admitted'[j].at = clock /\ admitted'[i] = admitted[i]
        BY <2>0, <2>1, <1>6, <1>8
      <3>4. admitted[i].at \in Int /\ clock \in Int
        BY <2>0, <1>5, AdmissionTypes DEF LimitInv
      <3> QED BY <3>2, <3>3, <3>4, LimitAssumption
    <2>2. CASE j # Len(admitted) + 1
      <3>1. j \in 1..Len(admitted)
        BY <2>2, <1>5, <1>6
      <3> QED BY <3>1, <2>0, <1>6 DEF LimitInv, AdmissionsSpaced
    <2> QED BY <2>1, <2>2
  <1> QED BY <1>9, <1>10, <1>11, <1>12, <1>13 DEF LimitInv

LEMMA RefuseInv == \A q \in Request : LimitInv /\ Refuse(q) => LimitInv'
  <1> SUFFICES ASSUME NEW q \in Request, LimitInv, Refuse(q) PROVE LimitInv'
    OBVIOUS
  <1>0. /\ gate[q] = "stamped"
        /\ gate' = [gate EXCEPT ![q] = "refused"]
        /\ clock' = clock /\ stamp' = stamp /\ admitted' = admitted
    BY DEF Refuse
  <1>1. PICK n \in 0..Len(hits) :
           /\ Pruned(stamp[q], n)
           /\ hits' = SubSeq(hits, n + 1, Len(hits))
           /\ dropped' = dropped + n
    BY DEF Refuse
  <1>2. /\ hits' \in Seq(0..Horizon)
        /\ Len(hits') = Len(hits) - n
        /\ dropped + n \in Nat
        /\ Len(hits') + (dropped + n) = Len(admitted)
        /\ \A j \in 1..Len(hits') : hits'[j] = admitted[(dropped + n) + j].stamp
        /\ \A i \in 1..Len(admitted) :
              i <= dropped + n => admitted[i].at + Window - MaxDelay < clock
    BY <1>0, <1>1, PruneKeeps
  <1>3. LimitTypeOK'
    BY <1>0, <1>1, <1>2 DEF LimitInv, LimitTypeOK
  <1>4. DequeIsSuffix'
    <2>1. Len(hits') <= Limit
      BY <1>2, LimitAssumption DEF LimitInv, LimitTypeOK, DequeIsSuffix
    <2> QED BY <2>1, <1>0, <1>1, <1>2 DEF DequeIsSuffix
  <1>5. DelayBounded'
    BY <1>0 DEF LimitInv, LimitTypeOK, DelayBounded
  <1>6. DroppedAreOld'
    BY <1>0, <1>1, <1>2 DEF DroppedAreOld
  <1>7. AdmissionsSpaced'
    BY <1>0 DEF LimitInv, AdmissionsSpaced
  <1> QED BY <1>3, <1>4, <1>5, <1>6, <1>7 DEF LimitInv

LEMMA LimitStepInv == LimitInv /\ [LimitStep]_limiter => LimitInv'
  <1> SUFFICES ASSUME LimitInv, [LimitStep]_limiter PROVE LimitInv'
    OBVIOUS
  <1>1. CASE UNCHANGED limiter
    BY <1>1 DEF limiter, LimitInv, LimitTypeOK, DequeIsSuffix, DelayBounded,
                DroppedAreOld, AdmissionsSpaced
  <1> QED BY <1>1, TickInv, ReadClockInv, AdmitInv, RefuseInv DEF LimitStep

(* A full deque has Limit hits, and the first of them is in the window of    *)
(* the request that is refused.                                              *)
LEMMA RefusalIsBusy ==
    ASSUME LimitInv, NEW q \in Request, Refuse(q)
    PROVE  /\ Len(admitted) >= Limit
           /\ clock - admitted[Len(admitted) - Limit + 1].at <= Window + MaxDelay
  <1>1. PICK n \in 0..Len(hits) :
           LET rest == SubSeq(hits, n + 1, Len(hits))
           IN /\ Pruned(stamp[q], n)
              /\ Full(rest)
    BY DEF Refuse
  <1> DEFINE rest == SubSeq(hits, n + 1, Len(hits))
  <1>2. /\ rest \in Seq(0..Horizon)
        /\ Len(rest) = Len(hits) - n
        /\ dropped + n \in Nat
        /\ Len(rest) + (dropped + n) = Len(admitted)
        /\ \A j \in 1..Len(rest) : rest[j] = admitted[(dropped + n) + j].stamp
        /\ rest # <<>> => stamp[q] - rest[1] <= Window
    BY <1>1, PruneKeeps DEF Refuse
  <1>3. Len(rest) >= Limit
    BY <1>1 DEF Full
  <1> HIDE DEF rest
  <1>4. Len(hits) \in Nat /\ Len(rest) \in Nat /\ n \in Nat /\ Len(hits) <= Limit
    BY <1>2, LenProperties DEF LimitInv, LimitTypeOK, DequeIsSuffix
  <1>5. Len(rest) = Limit /\ 1 \in 1..Len(rest)
    BY <1>2, <1>3, <1>4, LimitAssumption
  <1>6. rest # <<>>
    BY <1>5, <1>2, EmptySeq
  <1>7. (dropped + n) + 1 = Len(admitted) - Limit + 1
    BY <1>2, <1>5, <1>4, LimitAssumption
  <1> DEFINE k == Len(admitted) - Limit + 1
  <1>8. rest[1] = admitted[k].stamp /\ stamp[q] - rest[1] <= Window
    BY <1>2, <1>5, <1>6, <1>7
  <1>9. k \in 1..Len(admitted) /\ Len(admitted) >= Limit
    BY <1>2, <1>5, <1>4, LimitAssumption
  <1> HIDE DEF k
  <1>10. admitted[k].stamp \in Int /\ admitted[k].at \in Int
    BY <1>9, AdmissionTypes DEF LimitInv
  <1>11. /\ admitted[k].stamp <= admitted[k].at
         /\ clock <= stamp[q] + MaxDelay
         /\ clock \in Int /\ stamp[q] \in Int
    BY <1>9 DEF LimitInv, LimitTypeOK, DelayBounded, Refuse
  <1>12. clock - admitted[k].at <= Window + MaxDelay
    BY <1>8, <1>10, <1>11, LimitAssumption
  <1> QED BY <1>9, <1>12 DEF k

-----------------------------------------------------------------------------
(* The requests around the limiter.                                         *)

LEMMA NextIsLimitStep == [Next]_vars => [LimitStep]_limiter
  <1> SUFFICES ASSUME [Next]_vars PROVE [LimitStep]_limiter
    OBVIOUS
  <1>1. CASE UNCHANGED vars
    BY <1>1 DEF vars
  <1>2. CASE Tick
    BY <1>2 DEF LimitStep
  <1>3. ASSUME NEW q \in Request,
               ReadClock(q) \/ Handle(q) \/ Work(q) \/ TimeOut(q)
        PROVE  [LimitStep]_limiter
    BY <1>3 DEF LimitStep, Handle, Work, TimeOut, PassLimiter, OpenRead, Ask,
                RefuseTurn, Answered, OpenRecord, Record, StartJob, ModelReplies,
                OpenHistory, CloseHistory, AskTimesOut, ConnectionTimesOut
  <1> QED BY <1>1, <1>2, <1>3 DEF Next

LEMMA LimitHolds == Spec => []LimitInv
  <1>1. Init => LimitInv
    BY LimitInitInv DEF Init
  <1>2. LimitInv /\ [Next]_vars => LimitInv'
    BY NextIsLimitStep, LimitStepInv
  <1> QED BY <1>1, <1>2, PTL DEF Spec

(* Of any Limit + 1 admissions in a row the last comes more than            *)
(* Window - MaxDelay after the first (ratelimit.py:22-29), for any number   *)
(* of requests and any order in which their threads get the lock.           *)
THEOREM AdmissionsAreSpaced == Spec => []AdmissionsSpaced
  <1>1. LimitInv => AdmissionsSpaced
    BY DEF LimitInv
  <1> QED BY <1>1, LimitHolds, PTL

(* A request is refused only if Limit others were admitted within the last  *)
(* Window + MaxDelay (ratelimit.py:25-28).                                  *)
THEOREM RefusalsAreJust == Spec => RefusedWhenBusy
  <1> DEFINE Just == \A q \in Request :
                gate[q] = "stamped" /\ gate'[q] = "refused"
                => /\ Len(admitted) >= Limit
                   /\ clock - admitted[Len(admitted) - Limit + 1].at
                        <= Window + MaxDelay
  <1>1. LimitInv /\ [Next]_vars => [Just]_limiter
    <2> SUFFICES ASSUME LimitInv, [Next]_vars, limiter' # limiter,
                        NEW q \in Request,
                        gate[q] = "stamped", gate'[q] = "refused"
                 PROVE  /\ Len(admitted) >= Limit
                        /\ clock - admitted[Len(admitted) - Limit + 1].at
                             <= Window + MaxDelay
      OBVIOUS
    <2>1. LimitStep
      BY NextIsLimitStep
    <2>2. gate \in [Request -> {"new", "stamped", "admitted", "refused"}]
      BY DEF LimitInv, LimitTypeOK
    <2>3. Refuse(q)
      <3>1. CASE Tick
        BY <3>1 DEF Tick
      <3>2. ASSUME NEW p \in Request, ReadClock(p) \/ Admit(p) PROVE FALSE
        BY <3>2, <2>2 DEF ReadClock, Admit
      <3>3. ASSUME NEW p \in Request, Refuse(p) PROVE p = q
        BY <3>3, <2>2 DEF Refuse
      <3> QED BY <2>1, <3>1, <3>2, <3>3 DEF LimitStep
    <2> QED BY <2>3, RefusalIsBusy
  <1> QED BY <1>1, LimitHolds, PTL DEF Spec, RefusedWhenBusy

LEMMA StepTypeOK == LimitInv' /\ TypeOK /\ [Next]_vars => TypeOK'
  <1> SUFFICES ASSUME LimitInv', TypeOK, [Next]_vars PROVE TypeOK'
    OBVIOUS
  <1> DEFINE Places == Ended \cup {"limiter", "admitted", "reading", "asking",
                                   "answered", "recording"}
             Jobs == {"none", "queued", "model", "wants", "history", "done", "failed"}
  <1>1. at' \in [Request -> Places] /\ job' \in [Request -> Jobs]
    <2>0. at \in [Request -> Places] /\ job \in [Request -> Jobs]
      BY DEF TypeOK
    <2>1. CASE UNCHANGED vars
      BY <2>0, <2>1 DEF vars
    <2>2. CASE Tick /\ UNCHANGED <<at, job>>
      BY <2>0, <2>2
    <2>3. ASSUME NEW q \in Request,
                 (ReadClock(q) /\ UNCHANGED <<at, job>>) \/ Handle(q) \/ Work(q)
                   \/ TimeOut(q)
          PROVE  at' \in [Request -> Places] /\ job' \in [Request -> Jobs]
      BY <2>0, <2>3
         DEF Handle, Work, TimeOut, PassLimiter, OpenRead, Ask, RefuseTurn, Answered,
             OpenRecord, Record, StartJob, ModelReplies, OpenHistory, CloseHistory,
             AskTimesOut, ConnectionTimesOut, Goto, Turn, Ended
    <2> QED BY <2>1, <2>2, <2>3 DEF Next
  <1> QED BY <1>1 DEF TypeOK, LimitInv, LimitTypeOK, Admission

(* Type correctness of the limiter and of the requests around it.           *)
THEOREM RequestTypes == Spec => []TypeOK
  <1>1. Init => TypeOK
    BY LimitAssumption DEF Init, LimitInit, TypeOK, Ended
  <1>2. LimitInv' /\ TypeOK /\ [Next]_vars => TypeOK'
    BY StepTypeOK
  <1> QED BY <1>1, <1>2, LimitHolds, PTL DEF Spec

=============================================================================
