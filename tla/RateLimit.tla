----------------------------- MODULE RateLimit -----------------------------
(***************************************************************************)
(* The sliding-window limit on the requests of one user                    *)
(* (src/backend/app/ratelimit.py): limiter("ai", ...) stands in front of   *)
(* the endpoints that call the model.  A handler reads the clock, and only *)
(* then takes the lock under which the deque of the user's hits is pruned, *)
(* measured and extended; between the two the thread may be kept waiting,  *)
(* so hits can be appended out of order.  MaxDelay is the longest such     *)
(* wait, an assumption on the scheduler; Horizon bounds the clock for TLC. *)
(***************************************************************************)
EXTENDS Integers, Sequences

CONSTANTS Request,   \* the requests of one user, numbered as they read the clock
          Limit,     \* ai_rate_limit_per_minute
          Window,    \* the 60 seconds of the limiter
          MaxDelay,  \* longest time from reading the clock to holding the lock
          Horizon    \* bound on the clock

ASSUME LimitAssumption ==
    /\ Request \subseteq Nat
    /\ Limit \in Nat \ {0}
    /\ Window \in Nat
    /\ MaxDelay \in Nat
    /\ Horizon \in Nat

VARIABLES clock,     \* time.monotonic()
          hits,      \* the deque of this user
          gate,      \* where each request stands at the limiter
          stamp,     \* the `now` each request has read
          admitted,  \* history: the admissions, [stamp, at], in order
          dropped    \* history: how many hits were ever popped

limiter == <<clock, hits, gate, stamp, admitted, dropped>>

LimitInit ==
    /\ clock = 0
    /\ hits = <<>>
    /\ gate = [q \in Request |-> "new"]
    /\ stamp = [q \in Request |-> 0]
    /\ admitted = <<>>
    /\ dropped = 0

(* Time passes, but no thread is kept from the lock for longer than MaxDelay. *)
(* Only the limiter looks at the clock: it stops after the last request.      *)
Tick ==
    /\ clock < Horizon
    /\ \E q \in Request : gate[q] \in {"new", "stamped"}
    /\ \A q \in Request : gate[q] = "stamped" => clock - stamp[q] < MaxDelay
    /\ clock' = clock + 1
    /\ UNCHANGED <<hits, gate, stamp, admitted, dropped>>

(* Mutant: the clock is rounded up. *)
ReadClockUp(q) ==
    /\ gate[q] = "new"
    /\ \A p \in Request : p < q => gate[p] # "new"
    /\ gate' = [gate EXCEPT ![q] = "stamped"]
    /\ stamp' = [stamp EXCEPT ![q] = clock + 1]
    /\ UNCHANGED <<clock, hits, admitted, dropped>>

(* limit, now = per_minute(), time.monotonic() *)
ReadClock(q) ==
    /\ gate[q] = "new"
    /\ \A p \in Request : p < q => gate[p] # "new"
    /\ gate' = [gate EXCEPT ![q] = "stamped"]
    /\ stamp' = [stamp EXCEPT ![q] = clock]
    /\ UNCHANGED <<clock, hits, admitted, dropped>>

(* Mutant: a hit leaves the window one unit too early. *)
OldTooSoon(now, hit) == now - hit > Window - 1

Old(now, hit) == now - hit > Window

(* The loop pops n hits: those at the head that are out of the window, up to *)
(* the first one that is not.                                                *)
Pruned(now, n) ==
    /\ \A i \in 1..n : Old(now, hits[i])
    /\ n < Len(hits) => ~Old(now, hits[n + 1])

(* Mutant: the limit is measured before the old hits are popped. *)
FullEarly(q) == Len(q) >= Limit \/ Len(hits) >= Limit

Full(q) == Len(q) >= Limit

Admit(q) ==
    /\ gate[q] = "stamped"
    /\ \E n \in 0..Len(hits) :
          LET rest == SubSeq(hits, n + 1, Len(hits))
          IN /\ Pruned(stamp[q], n)
             /\ ~Full(rest)
             /\ hits' = Append(rest, stamp[q])
             /\ dropped' = dropped + n
    /\ gate' = [gate EXCEPT ![q] = "admitted"]
    /\ admitted' = Append(admitted, [stamp |-> stamp[q], at |-> clock])
    /\ UNCHANGED <<clock, stamp>>

(* AppError(429): the hits that were popped stay popped. *)
Refuse(q) ==
    /\ gate[q] = "stamped"
    /\ \E n \in 0..Len(hits) :
          LET rest == SubSeq(hits, n + 1, Len(hits))
          IN /\ Pruned(stamp[q], n)
             /\ Full(rest)
             /\ hits' = rest
             /\ dropped' = dropped + n
    /\ gate' = [gate EXCEPT ![q] = "refused"]
    /\ UNCHANGED <<clock, stamp, admitted>>

LimitStep == Tick \/ \E q \in Request : ReadClock(q) \/ Admit(q) \/ Refuse(q)

LimitSpec == LimitInit /\ [][LimitStep]_limiter

-----------------------------------------------------------------------------
(* What the user gets, in real time.  The hits may be out of order and a   *)
(* late stamp may pop what an earlier one still counts, so neither bound is *)
(* exactly the window: each is off by the delay.                            *)

(* Of any Limit + 1 admissions in a row the last comes more than            *)
(* Window - MaxDelay after the first: no burst gets past the limit.         *)
AdmissionsSpaced ==
    \A i, j \in 1..Len(admitted) :
        j = i + Limit => admitted[j].at - admitted[i].at > Window - MaxDelay

(* A request is refused only if Limit others were admitted within the last  *)
(* Window + MaxDelay: nobody is refused for hits long gone.                 *)
RefusedWhenBusy ==
    [][\A q \in Request :
          gate[q] = "stamped" /\ gate'[q] = "refused"
          => /\ Len(admitted) >= Limit
             /\ clock - admitted[Len(admitted) - Limit + 1].at <= Window + MaxDelay
      ]_limiter
=============================================================================
