---------------------------- MODULE AIRequests ----------------------------
(***************************************************************************)
(* The way of a request to the model: the limiter, a short transaction     *)
(* that reads the context, a job in the thread pool of the AI adapter, a   *)
(* short transaction that records the turn (src/backend/app/routers/ai.py, *)
(* ai_adapter.py, db.py).  Two pools meet here: the database connections   *)
(* and the AI threads, and a job takes a connection of its own for the     *)
(* student's history.  A request waits at most 90 seconds for its job; the *)
(* job then goes on with nobody waiting.  All errors a request can end     *)
(* with but the 429 are "failed" here.                                     *)
(***************************************************************************)
EXTENDS RateLimit, FiniteSets

CONSTANTS Connections,   \* max_size of the connection pool
          Workers        \* max_workers of the AI pool

ASSUME PoolAssumption ==
    /\ Connections \in Nat \ {0}
    /\ Workers \in Nat \ {0}

VARIABLES at,    \* where the handler of each request is
          job    \* what the AI pool does for each request

vars == <<limiter, at, job>>

Init ==
    /\ LimitInit
    /\ at = [q \in Request |-> "limiter"]
    /\ job = [q \in Request |-> "none"]

(* Mutant: the handler keeps its connection while the model answers. *)
HoldsConnectionThroughout(q) == at[q] \in {"reading", "asking", "recording"}

(* `with db.tx()`: a handler holds a connection while it reads or records,  *)
(* a job while it reads the history.                                        *)
HoldsConnection(q) == at[q] \in {"reading", "recording"}
InUse == {q \in Request : HoldsConnection(q)}
Reading == {q \in Request : job[q] = "history"}

FreeConnection == Cardinality(InUse) + Cardinality(Reading) < Connections

Running == {q \in Request : job[q] \in {"model", "wants", "history"}}
FreeWorker == Cardinality(Running) < Workers

Goto(q, from, to) == at[q] = from /\ at' = [at EXCEPT ![q] = to]
Turn(q, from, to) == job[q] = from /\ job' = [job EXCEPT ![q] = to]

(* The 429 of the limiter ends the request. *)
PassLimiter(q) ==
    /\ at[q] = "limiter"
    /\ \/ Admit(q) /\ at' = [at EXCEPT ![q] = "admitted"]
       \/ Refuse(q) /\ at' = [at EXCEPT ![q] = "refused"]
    /\ UNCHANGED job

OpenRead(q) ==
    /\ FreeConnection
    /\ Goto(q, "admitted", "reading")
    /\ UNCHANGED <<limiter, job>>

(* No open attempt, or no such assignment: 404 or 409. *)
RefuseTurn(q) ==
    /\ Goto(q, "reading", "failed")
    /\ UNCHANGED <<limiter, job>>

(* The transaction ends, then _call submits the job and waits for it. *)
Ask(q) ==
    /\ Goto(q, "reading", "asking")
    /\ Turn(q, "none", "queued")
    /\ UNCHANGED limiter

StartJob(q) ==
    /\ FreeWorker
    /\ Turn(q, "queued", "model")
    /\ UNCHANGED <<limiter, at>>

(* A call of the model ends, with a text or an error: the graph needs the    *)
(* history next, is done with its answer, or breaks off.                     *)
ModelReplies(q) ==
    /\ \/ Turn(q, "model", "wants")
       \/ Turn(q, "model", "done")
       \/ Turn(q, "model", "failed")
    /\ UNCHANGED <<limiter, at>>

OpenHistory(q) ==
    /\ FreeConnection
    /\ Turn(q, "wants", "history")
    /\ UNCHANGED <<limiter, at>>

(* Mutant: the history is closed only for a request that still waits. *)
CloseHistoryIfAwaited(q) ==
    /\ at[q] = "asking"
    /\ Turn(q, "history", "done")
    /\ UNCHANGED <<limiter, at>>

CloseHistory(q) ==
    /\ Turn(q, "history", "done")
    /\ UNCHANGED <<limiter, at>>

(* fut.result(): the answer, or any error of the job as AIUnavailable. *)
Answered(q) ==
    /\ \/ job[q] = "done" /\ Goto(q, "asking", "answered")
       \/ job[q] = "failed" /\ Goto(q, "asking", "failed")
    /\ UNCHANGED <<limiter, job>>

(* Ninety seconds are over: the caller gets AIUnavailable.  The job is not  *)
(* cancelled; its thread, or its place in the queue, stays taken.           *)
AskTimesOut(q) ==
    /\ job[q] \notin {"done", "failed"}
    /\ Goto(q, "asking", "failed")
    /\ UNCHANGED <<limiter, job>>

OpenRecord(q) ==
    /\ FreeConnection
    /\ Goto(q, "answered", "recording")
    /\ UNCHANGED <<limiter, job>>

(* The attempt is still open and the turn is recorded, or it was closed    *)
(* meanwhile: 409.                                                         *)
Record(q) ==
    /\ \/ Goto(q, "recording", "recorded")
       \/ Goto(q, "recording", "failed")
    /\ UNCHANGED <<limiter, job>>

(* ConnectionPool(timeout=15): who waits too long for a connection fails.   *)
(* In a job it is a failure of a tool, and the turn goes on without history. *)
ConnectionTimesOut(q) ==
    /\ ~FreeConnection
    /\ \/ Goto(q, "admitted", "failed") /\ UNCHANGED job
       \/ Goto(q, "answered", "failed") /\ UNCHANGED job
       \/ Turn(q, "wants", "done") /\ UNCHANGED at
    /\ UNCHANGED limiter

Handle(q) ==
    \/ PassLimiter(q) \/ OpenRead(q) \/ Ask(q) \/ RefuseTurn(q)
    \/ Answered(q) \/ OpenRecord(q) \/ Record(q)
Work(q) ==
    \/ StartJob(q) \/ ModelReplies(q) \/ OpenHistory(q) \/ CloseHistory(q)
TimeOut(q) == AskTimesOut(q) \/ ConnectionTimesOut(q)

Next ==
    \/ Tick /\ UNCHANGED <<at, job>>
    \/ \E q \in Request :
          \/ ReadClock(q) /\ UNCHANGED <<at, job>>
          \/ Handle(q)
          \/ Work(q)
          \/ TimeOut(q)

(* Threads that can go on do, and the model answers in the end; no timeout  *)
(* is needed for that, so none is assumed.                                  *)
Fairness == \A q \in Request : WF_vars(Handle(q)) /\ WF_vars(Work(q))

Spec == Init /\ [][Next]_vars /\ Fairness

-----------------------------------------------------------------------------
Ended == {"refused", "failed", "recorded"}

TypeOK ==
    /\ clock \in 0..Horizon
    /\ hits \in Seq(0..Horizon)
    /\ gate \in [Request -> {"new", "stamped", "admitted", "refused"}]
    /\ stamp \in [Request -> 0..Horizon]
    /\ admitted \in Seq([stamp : 0..Horizon, at : 0..Horizon])
    /\ dropped \in Nat
    /\ at \in [Request -> Ended \cup {"limiter", "admitted", "reading", "asking",
                                      "answered", "recording"}]
    /\ job \in [Request -> {"none", "queued", "model", "wants", "history",
                            "done", "failed"}]

(* Every request ends, with no timeout to help: the two pools never wait    *)
(* for each other in a circle.                                              *)
EveryRequestEnds == <>[](\A q \in Request : gate[q] # "new" => at[q] \in Ended)

(* What timed-out requests leave behind comes back: in the end every thread *)
(* and every connection is free again.                                      *)
PoolsDrain == <>[](Running = {} /\ InUse = {} /\ Reading = {})
=============================================================================
