---------------------------- MODULE Verification ----------------------------
(***************************************************************************)
(* The Explain, Modify, Transfer verification of one student's work: runs, *)
(* their questions and results, and the student's state in the one concept *)
(* all questions are about.                                                *)
(*                                                                         *)
(* The student may have several requests in flight, on runs of different   *)
(* attempts.  A step is a statement, or a transaction that no other can    *)
(* come between.  The transaction that records an answer has three steps:  *)
(* what it writes is pending, and the row locks it took are held, from     *)
(* Record to Commit.  The learning events that the handlers append are     *)
(* left out: nothing here reads them.                                      *)
(***************************************************************************)
EXTENDS Naturals, FiniteSets, Sequences

CONSTANTS
    Request,      \* request threads
    Run,          \* ids verification_runs can get
    MaxAttempts,  \* bound: attempts submitted
    NoRun

ASSUME VerificationAssumption ==
    /\ MaxAttempts \in Nat \ {0}
    /\ NoRun \notin Run
    /\ IsFiniteSet(Run)

VARIABLES
    visible,    \* the student sees the assignment
    submitted,  \* the latest submitted attempt, 0 if there is none
    run,        \* verification_runs: the attempt and the status
    asked,      \* verification_questions: the steps a run has questions for
    results,    \* responses and results of a run, in the order they came
    evidence,   \* student_concept_state.evidence_count, 0 if there is no row
    request     \* local state of the request threads

vars == <<visible, submitted, run, asked, results, evidence, request>>

(* STEPS: 0 is Explain, 1 is Modify, 2 is Transfer. *)
Steps == 0 .. 2

(* An outcome is INSUFFICIENT_EVIDENCE or one that has a score. *)
Result == [step : Steps, scored : BOOLEAN]

RequestPC == {"idle", "create", "reselect", "run", "questions", "challenge",
              "evaluate", "mastery", "commit"}

Idle == [pc |-> "idle", attempt |-> 0, run |-> NoRun, step |-> 0,
         scored |-> FALSE, count |-> 0]

RunsOf(k) == {v \in Run : run[v].attempt = k}
Open(v) == run[v].status = "IN_PROGRESS"
Answered(v) == {results[v][i].step : i \in DOMAIN results[v]}

(* The scored results of all runs are the evidence of a concept state. *)
ScoredOf(v) == {i \in DOMAIN results[v] : results[v][i].scored}
AllScored == Cardinality(UNION {{v} \X ScoredOf(v) : v \in Run})

(* Row locks: SELECT ... FOR UPDATE on the run, the upsert on the concept. *)
RunLocked(v) == \E r \in Request : request[r].pc \in {"mastery", "commit"} /\ request[r].run = v
ConceptLocked == \E r \in Request : request[r].pc = "commit"

Init ==
    /\ visible = TRUE
    /\ submitted = 0
    /\ run = [v \in Run |-> [attempt |-> 0, status |-> "none"]]
    /\ asked = [v \in Run |-> {}]
    /\ results = [v \in Run |-> <<>>]
    /\ evidence = 0
    /\ request = [r \in Request |-> Idle]

Becomes(r, state) == request' = [request EXCEPT ![r] = state]
Done(r) == Becomes(r, Idle)
At(r, pc) == request[r].pc = pc

course == <<visible, submitted>>
records == <<asked, results, evidence>>

-----------------------------------------------------------------------------
(* What happens outside: the instructor publishes, archives, removes or    *)
(* restores; the student submits another attempt.                          *)
SetVisible ==
    /\ visible' = ~visible
    /\ UNCHANGED <<submitted, run, records, request>>

Submit ==
    /\ visible /\ submitted < MaxAttempts
    /\ submitted' = submitted + 1
    /\ UNCHANGED <<visible, run, records, request>>

-----------------------------------------------------------------------------
(* start_verification: the open run of the latest submitted attempt, or    *)
(* its last one, or none.                                                  *)
AskStart(r) ==
    LET runs == RunsOf(submitted)
        open == {v \in runs : Open(v)}
    IN  /\ At(r, "idle") /\ visible /\ submitted > 0
        /\ IF runs = {}
           THEN Becomes(r, [Idle EXCEPT !.pc = "create", !.attempt = submitted])
           ELSE \E v \in IF open # {} THEN open ELSE runs :
                    Becomes(r, [Idle EXCEPT !.pc = "run", !.run = v])
        /\ UNCHANGED <<course, run, records>>

(* INSERT ... ON CONFLICT DO NOTHING: one open run per attempt. *)
Create(r) ==
    LET k == request[r].attempt IN
    /\ At(r, "create")
    /\ IF \E v \in RunsOf(k) : Open(v)
       THEN /\ Becomes(r, [request[r] EXCEPT !.pc = "reselect"])
            /\ UNCHANGED run
       ELSE \E v \in Run :
            /\ run[v].status = "none"
            /\ run' = [run EXCEPT ![v] = [attempt |-> k, status |-> "IN_PROGRESS"]]
            /\ Becomes(r, [Idle EXCEPT !.pc = "run", !.run = v])
    /\ UNCHANGED <<course, records>>

(* The open run that was in the way; the request fails on the missing row  *)
(* if it is complete by now.                                               *)
Reselect(r) ==
    /\ At(r, "reselect")
    /\ \/ \E v \in RunsOf(request[r].attempt) :
            Open(v) /\ Becomes(r, [Idle EXCEPT !.pc = "run", !.run = v])
       \/ /\ \A v \in RunsOf(request[r].attempt) : ~Open(v)
          /\ Done(r)
    /\ UNCHANGED <<course, run, records>>

-----------------------------------------------------------------------------
(* _generate_if_needed *)

ReadRun(r) ==
    /\ At(r, "run")
    /\ IF Open(request[r].run)
       THEN Becomes(r, [request[r] EXCEPT !.pc = "questions"])
       ELSE Done(r)
    /\ UNCHANGED <<course, run, records>>

(* Mutant: the step to ask is taken for one that exists. *)
ReadQuestionsUnbounded(r) ==
    LET n == Cardinality(Answered(request[r].run)) IN
    /\ At(r, "questions")
    /\ IF n \notin asked[request[r].run] /\ visible
       THEN Becomes(r, [request[r] EXCEPT !.pc = "challenge", !.step = n])
       ELSE Done(r)
    /\ UNCHANGED <<course, run, records>>

(* Mutant: the next question is due when the last one is there. *)
ReadQuestionsAhead(r) ==
    LET n == Cardinality(asked[request[r].run]) IN
    /\ At(r, "questions")
    /\ IF n \in Steps /\ visible
       THEN Becomes(r, [request[r] EXCEPT !.pc = "challenge", !.step = n])
       ELSE Done(r)
    /\ UNCHANGED <<course, run, records>>

(* The first step without an answer needs a question if it has none.  With *)
(* three answers, when the run was read before the last of them came,      *)
(* there is no such step and the request fails.                            *)
ReadQuestions(r) ==
    LET n == Cardinality(Answered(request[r].run)) IN
    /\ At(r, "questions")
    /\ IF n \in Steps \ asked[request[r].run] /\ visible
       THEN Becomes(r, [request[r] EXCEPT !.pc = "challenge", !.step = n])
       ELSE Done(r)
    /\ UNCHANGED <<course, run, records>>

(* The challenge is there: it is inserted unless the step has a question. *)
InsertQuestion(r) ==
    LET v == request[r].run IN
    /\ At(r, "challenge") /\ ~RunLocked(v)
    /\ asked' = [asked EXCEPT ![v] = @ \cup {request[r].step}]
    /\ Done(r)
    /\ UNCHANGED <<course, run, results, evidence>>

-----------------------------------------------------------------------------
(* answer *)

(* The first question without a response. *)
AskAnswer(r, v, i) ==
    /\ At(r, "idle") /\ visible
    /\ Open(v)
    /\ i \in asked[v] \ Answered(v)
    /\ \A j \in asked[v] \ Answered(v) : i <= j
    /\ Becomes(r, [Idle EXCEPT !.pc = "evaluate", !.run = v, !.step = i])
    /\ UNCHANGED <<course, run, records>>

(* Mutant: without a second look at the responses. *)
RecordAgain(r) ==
    /\ At(r, "evaluate") /\ ~RunLocked(request[r].run)
    /\ \E s \in BOOLEAN :
         Becomes(r, [request[r] EXCEPT !.pc = "mastery", !.scored = s])
    /\ UNCHANGED <<course, run, records>>

(* The evaluation is there.  With the run locked, an answer to a question  *)
(* that got one meanwhile is refused, any other is written.                *)
Record(r) ==
    LET v == request[r].run IN
    /\ At(r, "evaluate") /\ ~RunLocked(v)
    /\ IF request[r].step \in Answered(v)
       THEN Done(r)
       ELSE \E s \in BOOLEAN :
                Becomes(r, [request[r] EXCEPT !.pc = "mastery", !.scored = s])
    /\ UNCHANGED <<course, run, records>>

(* Mutant: ON CONFLICT DO NOTHING takes no lock on a concept that exists. *)
MasteryUnlocked(r) ==
    /\ At(r, "mastery")
    /\ Becomes(r, [request[r] EXCEPT !.pc = "commit",
                   !.count = AllScored + (IF request[r].scored THEN 1 ELSE 0)])
    /\ UNCHANGED <<course, run, records>>

(* update_concept_state: with the concept locked by its upsert, the        *)
(* results that are committed, and one's own, are counted.                 *)
Mastery(r) ==
    /\ At(r, "mastery") /\ ~ConceptLocked
    /\ Becomes(r, [request[r] EXCEPT !.pc = "commit",
                   !.count = AllScored + (IF request[r].scored THEN 1 ELSE 0)])
    /\ UNCHANGED <<course, run, records>>

(* The third result completes the run; before that the next question is    *)
(* generated.  Without a scored result no state is written.                *)
Commit(r) ==
    LET v == request[r].run
        new == Append(results[v], [step |-> request[r].step, scored |-> request[r].scored])
        complete == Len(new) >= Cardinality(Steps)
    IN  /\ At(r, "commit")
        /\ results' = [results EXCEPT ![v] = new]
        /\ evidence' = IF request[r].count > 0 THEN request[r].count ELSE evidence
        /\ run' = IF complete THEN [run EXCEPT ![v].status = "COMPLETED"] ELSE run
        /\ Becomes(r, IF complete THEN Idle ELSE [Idle EXCEPT !.pc = "run", !.run = v])
        /\ UNCHANGED <<course, asked>>

(* The AI does not answer, the database fails, or the process dies: an     *)
(* open transaction is rolled back.                                        *)
Fail(r) ==
    /\ ~At(r, "idle")
    /\ Done(r)
    /\ UNCHANGED <<course, run, records>>

-----------------------------------------------------------------------------
Step(r) ==
    \/ Create(r) \/ Reselect(r) \/ ReadRun(r) \/ ReadQuestions(r) \/ InsertQuestion(r)
    \/ Record(r) \/ Mastery(r) \/ Commit(r) \/ Fail(r)

Next ==
    \/ SetVisible \/ Submit
    \/ \E r \in Request :
         AskStart(r) \/ Step(r) \/ \E v \in Run, i \in Steps : AskAnswer(r, v, i)

Spec == Init /\ [][Next]_vars
-----------------------------------------------------------------------------
(* Properties. *)

(* The shape of the tables and of the requests; no question goes beyond    *)
(* the three steps.                                                        *)
TypeOK ==
    /\ visible \in BOOLEAN
    /\ submitted \in 0 .. MaxAttempts
    /\ run \in [Run -> [attempt : 0 .. MaxAttempts,
                        status : {"none", "IN_PROGRESS", "COMPLETED"}]]
    /\ asked \in [Run -> SUBSET Steps]
    /\ results \in [Run -> Seq(Result)]
    /\ evidence \in Nat
    /\ request \in [Request -> [pc : RequestPC, attempt : 0 .. MaxAttempts,
                                run : Run \cup {NoRun}, step : Steps,
                                scored : BOOLEAN, count : Nat]]

(* Explain, Modify, Transfer, one at a time: a question is asked only when *)
(* all earlier ones are answered, also when several requests generate.     *)
QuestionsInOrder ==
    \A v \in Run :
        /\ \A i \in asked[v] : \A j \in Steps : j < i => j \in Answered(v)
        /\ Answered(v) \subseteq asked[v]

(* A run is COMPLETED exactly when each of its three questions has one     *)
(* result: none is counted twice and none is missing.                      *)
CompletedByAnswers ==
    \A v \in Run :
        /\ Cardinality(Answered(v)) = Len(results[v])
        /\ run[v].status = "COMPLETED" <=> Answered(v) = Steps

(* The concept state counts every scored result that is committed, when    *)
(* answers on two runs are recorded at the same time.                      *)
ConceptStateFresh == evidence = AllScored
=============================================================================
