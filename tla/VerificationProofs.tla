------------------------- MODULE VerificationProofs -------------------------
(***************************************************************************)
(* The safety properties of Verification hold for every number of requests *)
(* and runs.  The invariant adds to the tables what a request knows        *)
(* between its steps, and who holds which row lock.                        *)
(***************************************************************************)
EXTENDS Verification, FiniteSetTheorems, TLAPS

RequestStates == [pc : RequestPC, attempt : 0 .. MaxAttempts,
                  run : Run \cup {NoRun}, step : Steps, scored : BOOLEAN, count : Nat]

Recording == {"mastery", "commit"}
Answering == {"evaluate"} \cup Recording
OnRun == {"run", "questions", "challenge"} \cup Answering

(* What a request in state q may rely on. *)
Justified(q) ==
    /\ q.pc \in OnRun => q.run \in Run
    /\ q.pc = "challenge" => \A j \in Steps : j < q.step => j \in Answered(q.run)
    /\ q.pc \in Answering => q.step \in asked[q.run]
    /\ q.pc \in Recording => q.step \notin Answered(q.run)
    /\ q.pc = "commit" => q.count = AllScored + (IF q.scored THEN 1 ELSE 0)

(* Two requests that record hold the locks of two runs; only one of them   *)
(* holds the lock of the concept.                                          *)
Apart(p, q) ==
    /\ p.pc \in Recording /\ q.pc \in Recording => p.run # q.run
    /\ ~(p.pc = "commit" /\ q.pc = "commit")

Requests == \A r \in Request : Justified(request[r])
Locks == \A r, s \in Request : r # s => Apart(request[r], request[s])

IInv ==
    /\ TypeOK
    /\ QuestionsInOrder
    /\ CompletedByAnswers
    /\ ConceptStateFresh
    /\ Requests
    /\ Locks

-----------------------------------------------------------------------------
(* Sets of steps. *)

LEMMA StepsFinite == IsFiniteSet(Steps) /\ Cardinality(Steps) = 3
<1>1. 0 \in Int /\ 2 \in Int
  OBVIOUS
<1>2. IsFiniteSet(0 .. 2) /\ Cardinality(0 .. 2) = IF 0 > 2 THEN 0 ELSE 2 - 0 + 1
  BY <1>1, FS_Interval, Zenon
<1> QED BY <1>2 DEF Steps

LEMMA StepSets ==
    ASSUME NEW A \in SUBSET Steps
    PROVE  /\ IsFiniteSet(A)
           /\ Cardinality(A) \in 0 .. 3
           /\ Cardinality(A) = 3 <=> A = Steps
<1>1. IsFiniteSet(A) /\ Cardinality(A) <= 3
  BY StepsFinite, FS_Subset
<1>2. Cardinality(A) \in Nat
  BY <1>1, FS_CardinalityType
<1>3. Cardinality(A) = 3 => A = Steps
  BY StepsFinite, FS_Subset
<1> QED BY <1>1, <1>2, <1>3, StepsFinite

(* An initial segment of the steps is known by its size. *)
LEMMA Segment ==
    ASSUME NEW A \in SUBSET Steps,
           \A i \in A : \A j \in Steps : j < i => j \in A
    PROVE  \A j \in Steps : j < Cardinality(A) => j \in A
<1>1. CASE 0 \notin A
  <2>1. A = {}
    BY <1>1 DEF Steps
  <2> QED BY <2>1, FS_EmptySet DEF Steps
<1>2. CASE 0 \in A /\ 1 \notin A
  <2>0. \A i \in A : i = 0
    BY <1>2 DEF Steps
  <2>1. A = {0}
    BY <1>2, <2>0
  <2>2. Cardinality(A) = 1
    BY <2>1, FS_Singleton
  <2> QED BY <1>2, <2>2 DEF Steps
<1>3. CASE 0 \in A /\ 1 \in A /\ 2 \notin A
  <2>0. \A i \in A : i = 0 \/ i = 1
    BY <1>3 DEF Steps
  <2>1. A = {0} \cup {1}
    BY <1>3, <2>0
  <2>2. IsFiniteSet({0}) /\ Cardinality({0}) = 1
    BY FS_Singleton
  <2>3. Cardinality({0} \cup {1}) = 2
    BY <2>2, FS_AddElement
  <2> QED BY <1>3, <2>1, <2>3 DEF Steps
<1>4. CASE 0 \in A /\ 1 \in A /\ 2 \in A
  BY <1>4 DEF Steps
<1> QED BY <1>1, <1>2, <1>3, <1>4

-----------------------------------------------------------------------------
(* The results. *)

LEMMA AnsweredSteps ==
    ASSUME TypeOK, NEW v \in Run
    PROVE  Answered(v) \in SUBSET Steps
<1>1. results[v] \in Seq(Result)
  BY DEF TypeOK
<1>2. \A i \in DOMAIN results[v] : results[v][i] \in Result
  BY <1>1
<1> QED BY <1>2 DEF Answered, Result

(* The pairs that AllScored counts. *)
ScoredPairs == UNION {{v} \X ScoredOf(v) : v \in Run}

LEMMA InPairs ==
    ASSUME NEW p
    PROVE  p \in ScoredPairs <=> \E v \in Run : \E i \in ScoredOf(v) : p = <<v, i>>
BY DEF ScoredPairs

LEMMA PairsFinite ==
    ASSUME TypeOK, CompletedByAnswers
    PROVE  IsFiniteSet(ScoredPairs) /\ AllScored \in Nat
<1>1. ASSUME NEW v \in Run PROVE ScoredOf(v) \subseteq 1 .. 3
  <2>1. results[v] \in Seq(Result)
    BY DEF TypeOK
  <2>2. Len(results[v]) <= 3
    BY AnsweredSteps, StepSets DEF CompletedByAnswers
  <2> QED BY <2>1, <2>2 DEF ScoredOf
<1>2. ScoredPairs \subseteq Run \X (1 .. 3)
  BY <1>1, InPairs
<1>3. IsFiniteSet(1 .. 3)
  <2>1. 1 \in Int /\ 3 \in Int
    OBVIOUS
  <2> QED BY <2>1, FS_Interval, Zenon
<1>4. IsFiniteSet(Run \X (1 .. 3))
  BY <1>3, VerificationAssumption, FS_Product
<1>5. IsFiniteSet(ScoredPairs)
  BY <1>2, <1>4, FS_Subset
<1> QED BY <1>5, FS_CardinalityType DEF ScoredPairs, AllScored

-----------------------------------------------------------------------------
(* Steps that leave the questions and the results alone. *)

LEMMA Frame ==
    ASSUME UNCHANGED <<asked, results>>
    PROVE  /\ \A v \in Run : Answered(v)' = Answered(v)
           /\ AllScored' = AllScored
           /\ \A q \in RequestStates : Justified(q) => Justified(q)'
<1>1. \A v : Answered(v)' = Answered(v)
  BY DEF Answered
<1>2. \A v : ScoredOf(v)' = ScoredOf(v)
  BY DEF ScoredOf
<1>3. AllScored' = AllScored
  BY <1>2 DEF AllScored
<1>4. ASSUME NEW q \in RequestStates, Justified(q) PROVE Justified(q)'
  BY <1>1, <1>3, <1>4 DEF Justified
<1> QED BY <1>1, <1>3, <1>4

(* Request r moves to a state that is justified and holds no lock of       *)
(* another request.                                                        *)
Moves(r) ==
    \E q \in RequestStates :
        /\ Justified(q)
        /\ \A s \in Request \ {r} : Apart(q, request[s])
        /\ request' = [request EXCEPT ![r] = q]

(* The status of a run may change, but not to COMPLETED or from it. *)
SameCompleted ==
    /\ run' \in [Run -> [attempt : 0 .. MaxAttempts,
                         status : {"none", "IN_PROGRESS", "COMPLETED"}]]
    /\ \A v \in Run : run'[v].status = "COMPLETED" <=> run[v].status = "COMPLETED"

LEMMA TablesKept ==
    ASSUME IInv, SameCompleted, UNCHANGED <<asked, results, evidence>>
    PROVE  QuestionsInOrder' /\ CompletedByAnswers' /\ ConceptStateFresh'
<1>1. \A v \in Run : Answered(v)' = Answered(v)
  BY Frame
<1>2. AllScored' = AllScored
  BY Frame
<1>3. QuestionsInOrder'
  BY <1>1 DEF IInv, QuestionsInOrder
<1>4. CompletedByAnswers'
  BY <1>1 DEF IInv, CompletedByAnswers, SameCompleted
<1>5. ConceptStateFresh'
  BY <1>2 DEF IInv, ConceptStateFresh
<1> QED BY <1>3, <1>4, <1>5

LEMMA RequestsKept ==
    ASSUME IInv, NEW r \in Request, Moves(r), UNCHANGED <<asked, results>>
    PROVE  /\ request' \in [Request -> RequestStates]
           /\ Requests'
           /\ Locks'
<1>1. PICK q \in RequestStates :
        /\ Justified(q)
        /\ \A s \in Request \ {r} : Apart(q, request[s])
        /\ request' = [request EXCEPT ![r] = q]
  BY DEF Moves
<1>2. request \in [Request -> RequestStates]
  BY DEF IInv, TypeOK, RequestStates
<1>3. request' \in [Request -> RequestStates]
  BY <1>1, <1>2
<1>4. \A s \in Request : request'[s] = IF s = r THEN q ELSE request[s]
  BY <1>1, <1>2
<1>5. ASSUME NEW s \in Request PROVE Justified(request[s])'
  <2>1. Justified(request'[s])
    BY <1>1, <1>4 DEF IInv, Requests
  <2>2. UNCHANGED <<asked, results>> /\ request'[s] \in RequestStates
    BY <1>3
  <2>3. \A v : Answered(v)' = Answered(v)
    BY DEF Answered
  <2>4. AllScored' = AllScored
    BY Frame
  <2> QED BY <2>1, <2>2, <2>3, <2>4 DEF Justified
<1>6. ASSUME NEW s \in Request, NEW u \in Request, s # u
      PROVE  Apart(request[s], request[u])'
  <2>1. Apart(request'[s], request'[u])
    BY <1>1, <1>4, <1>6 DEF IInv, Locks, Apart
  <2> QED BY <2>1 DEF Apart
<1> QED BY <1>3, <1>5, <1>6 DEF Requests, Locks

LEMMA MovePreserves ==
    ASSUME IInv, NEW r \in Request, Moves(r), SameCompleted,
           UNCHANGED <<course, records>>
    PROVE  IInv'
<1> USE DEF course, records
<1>1. request' \in [Request -> RequestStates] /\ Requests' /\ Locks'
  BY RequestsKept
<1>2. QuestionsInOrder' /\ CompletedByAnswers' /\ ConceptStateFresh'
  BY TablesKept
<1>3. TypeOK'
  BY <1>1 DEF IInv, TypeOK, SameCompleted, RequestStates
<1> QED BY <1>1, <1>2, <1>3 DEF IInv

(* A request that holds no lock is apart from every other. *)
LEMMA NoLock ==
    ASSUME NEW q, NEW p, q.pc \notin Recording
    PROVE  Apart(q, p)
BY DEF Apart, Recording

LEMMA RunKept ==
    ASSUME IInv, UNCHANGED run
    PROVE  SameCompleted
BY DEF IInv, TypeOK, SameCompleted

LEMMA IdleJustified == Idle \in RequestStates /\ Justified(Idle)
BY VerificationAssumption
   DEF Idle, RequestStates, RequestPC, Steps, Justified, OnRun, Answering, Recording

LEMMA DoneMoves ==
    ASSUME NEW r \in Request, Done(r)
    PROVE  Moves(r)
<1>1. Idle.pc \notin Recording
  BY DEF Idle, Recording
<1> QED BY <1>1, IdleJustified, NoLock DEF Moves, Done, Becomes

(* A state without locks and without an answer to record. *)
LEMMA PlainMoves ==
    ASSUME NEW r \in Request,
           \E q \in RequestStates :
             /\ \/ q.pc \in {"create", "reselect"}
                \/ q.pc \in {"run", "questions"} /\ q.run \in Run
             /\ request' = [request EXCEPT ![r] = q]
    PROVE  Moves(r)
<1>1. PICK q \in RequestStates :
        /\ \/ q.pc \in {"create", "reselect"}
           \/ q.pc \in {"run", "questions"} /\ q.run \in Run
        /\ request' = [request EXCEPT ![r] = q]
  OBVIOUS
<1>2. Justified(q) /\ q.pc \notin Recording
  BY <1>1 DEF Justified, OnRun, Answering, Recording
<1> QED BY <1>1, <1>2, NoLock DEF Moves

LEMMA RunMoves ==
    ASSUME NEW r \in Request,
           \E v \in Run : Becomes(r, [Idle EXCEPT !.pc = "run", !.run = v])
    PROVE  Moves(r)
<1>1. PICK v \in Run : Becomes(r, [Idle EXCEPT !.pc = "run", !.run = v])
  OBVIOUS
<1> DEFINE q == [Idle EXCEPT !.pc = "run", !.run = v]
<1>2. q \in RequestStates /\ q.pc = "run" /\ q.run = v
  BY IdleJustified DEF Idle, RequestStates, RequestPC
<1> QED BY <1>1, <1>2, PlainMoves DEF Becomes

(* What TypeOK and the invariant say of one request. *)
LEMMA OneRequest ==
    ASSUME IInv, NEW r \in Request
    PROVE  request[r] \in RequestStates /\ Justified(request[r])
BY DEF IInv, TypeOK, RequestStates, Requests

-----------------------------------------------------------------------------
(* One lemma for each action. *)

LEMMA OutsideStep ==
    ASSUME IInv, SetVisible \/ Submit
    PROVE  IInv'
<1>1. visible' \in BOOLEAN /\ submitted' \in 0 .. MaxAttempts
  <2>1. visible \in BOOLEAN /\ submitted \in 0 .. MaxAttempts /\ MaxAttempts \in Nat
    BY VerificationAssumption DEF IInv, TypeOK
  <2>2. CASE SetVisible
    BY <2>1, <2>2, Zenon DEF SetVisible
  <2>3. CASE Submit
    BY <2>1, <2>3 DEF Submit
  <2> QED BY <2>2, <2>3
<1>2. UNCHANGED <<run, asked, results, evidence, request>>
  BY DEF SetVisible, Submit, records
<1>3. TypeOK'
  BY <1>1, <1>2 DEF IInv, TypeOK
<1>4. QuestionsInOrder' /\ CompletedByAnswers' /\ ConceptStateFresh'
  BY <1>2, RunKept, TablesKept
<1>5. \A r \in Request : Justified(request[r])'
  <2> SUFFICES ASSUME NEW r \in Request PROVE Justified(request[r])'
    OBVIOUS
  <2>1. Justified(request[r])
    BY OneRequest
  <2>2. \A v : Answered(v)' = Answered(v)
    BY <1>2 DEF Answered
  <2>3. AllScored' = AllScored
    BY <1>2, Frame
  <2> QED BY <1>2, <2>1, <2>2, <2>3 DEF Justified
<1>6. Locks'
  BY <1>2 DEF IInv, Locks, Apart
<1> QED BY <1>3, <1>4, <1>5, <1>6 DEF IInv, Requests

LEMMA AskStartStep ==
    ASSUME IInv, NEW r \in Request, AskStart(r)
    PROVE  IInv'
<1>1. UNCHANGED <<course, run, records>>
  BY DEF AskStart
<1>2. Moves(r)
  <2>1. CASE RunsOf(submitted) = {}
    <3> DEFINE q == [Idle EXCEPT !.pc = "create", !.attempt = submitted]
    <3>1. q \in RequestStates /\ q.pc = "create"
      BY IdleJustified DEF Idle, RequestStates, RequestPC, IInv, TypeOK
    <3>2. request' = [request EXCEPT ![r] = q]
      BY <2>1 DEF AskStart, Becomes
    <3>3. \E x \in RequestStates : x.pc = "create" /\ request' = [request EXCEPT ![r] = x]
      BY <3>1, <3>2
    <3> QED BY <3>3, PlainMoves
  <2>2. CASE RunsOf(submitted) # {}
    BY <2>2, RunMoves DEF AskStart, RunsOf
  <2> QED BY <2>1, <2>2
<1> QED BY <1>1, <1>2, RunKept, MovePreserves

LEMMA CreateStep ==
    ASSUME IInv, NEW r \in Request, Create(r)
    PROVE  IInv'
<1> DEFINE k == request[r].attempt
<1>1. UNCHANGED <<course, records>>
  BY DEF Create
<1>2. request[r] \in RequestStates
  BY OneRequest
<1>3. CASE \E v \in RunsOf(k) : Open(v)
  <2>1. UNCHANGED run /\ Becomes(r, [request[r] EXCEPT !.pc = "reselect"])
    BY <1>3 DEF Create
  <2>2. [request[r] EXCEPT !.pc = "reselect"] \in RequestStates
    BY <1>2 DEF RequestStates, RequestPC
  <2>3. [request[r] EXCEPT !.pc = "reselect"].pc = "reselect"
    BY <1>2 DEF RequestStates
  <2>4. \E x \in RequestStates : x.pc = "reselect" /\ request' = [request EXCEPT ![r] = x]
    BY <2>1, <2>2, <2>3 DEF Becomes
  <2> QED BY <1>1, <2>1, <2>4, PlainMoves, RunKept, MovePreserves
<1>4. CASE ~ \E v \in RunsOf(k) : Open(v)
  <2>1. PICK v \in Run :
          /\ run[v].status = "none"
          /\ run' = [run EXCEPT ![v] = [attempt |-> k, status |-> "IN_PROGRESS"]]
          /\ Becomes(r, [Idle EXCEPT !.pc = "run", !.run = v])
    BY <1>4 DEF Create
  <2>2. SameCompleted
    BY <1>2, <2>1 DEF SameCompleted, IInv, TypeOK, RequestStates
  <2> QED BY <1>1, <2>1, <2>2, RunMoves, MovePreserves
<1> QED BY <1>3, <1>4

LEMMA ReselectStep ==
    ASSUME IInv, NEW r \in Request, Reselect(r)
    PROVE  IInv'
<1>1. UNCHANGED <<course, run, records>>
  BY DEF Reselect
<1>2. Moves(r)
  BY RunMoves, DoneMoves DEF Reselect, RunsOf
<1> QED BY <1>1, <1>2, RunKept, MovePreserves

LEMMA ReadRunStep ==
    ASSUME IInv, NEW r \in Request, ReadRun(r)
    PROVE  IInv'
<1>1. UNCHANGED <<course, run, records>>
  BY DEF ReadRun
<1>2. Moves(r)
  <2>1. CASE Done(r)
    BY <2>1, DoneMoves
  <2>2. CASE Becomes(r, [request[r] EXCEPT !.pc = "questions"])
    <3>1. request[r] \in RequestStates /\ request[r].run \in Run
      BY OneRequest DEF ReadRun, At, Justified, OnRun
    <3>2. [request[r] EXCEPT !.pc = "questions"] \in RequestStates
      BY <3>1 DEF RequestStates, RequestPC
    <3>3. /\ [request[r] EXCEPT !.pc = "questions"].pc = "questions"
          /\ [request[r] EXCEPT !.pc = "questions"].run \in Run
      BY <3>1 DEF RequestStates
    <3>4. \E x \in RequestStates : /\ x.pc = "questions" /\ x.run \in Run
                                   /\ request' = [request EXCEPT ![r] = x]
      BY <2>2, <3>2, <3>3 DEF Becomes
    <3> QED BY <3>4, PlainMoves
  <2> QED BY <2>1, <2>2 DEF ReadRun
<1> QED BY <1>1, <1>2, RunKept, MovePreserves

(* The step that is read is the first without an answer. *)
LEMMA ReadQuestionsStep ==
    ASSUME IInv, NEW r \in Request, ReadQuestions(r)
    PROVE  IInv'
<1> DEFINE v == request[r].run
           n == Cardinality(Answered(request[r].run))
           q == [request[r] EXCEPT !.pc = "challenge", !.step = n]
<1>1. UNCHANGED <<course, run, records>>
  BY DEF ReadQuestions
<1>2. Moves(r)
  <2>1. CASE Done(r)
    BY <2>1, DoneMoves
  <2>2. CASE n \in Steps /\ Becomes(r, q)
    <3>1. request[r] \in RequestStates /\ v \in Run
      BY OneRequest DEF ReadQuestions, At, Justified, OnRun
    <3>2. /\ q \in RequestStates
          /\ q.pc = "challenge" /\ q.run = v /\ q.step = n
      BY <2>2, <3>1 DEF RequestStates, RequestPC
    <3>3. Answered(v) \in SUBSET Steps
      BY <3>1, AnsweredSteps DEF IInv
    <3>4. \A i \in Answered(v) : \A j \in Steps : j < i => j \in Answered(v)
      BY <3>1 DEF IInv, QuestionsInOrder
    <3>5. \A j \in Steps : j < n => j \in Answered(v)
      BY <3>3, <3>4, Segment
    <3>6. Justified(q) /\ q.pc \notin Recording
      BY <3>1, <3>2, <3>5 DEF Justified, OnRun, Answering, Recording
    <3> QED BY <2>2, <3>2, <3>6, NoLock DEF Moves, Becomes
  <2> QED BY <2>1, <2>2 DEF ReadQuestions
<1> QED BY <1>1, <1>2, RunKept, MovePreserves

LEMMA InsertQuestionStep ==
    ASSUME IInv, NEW r \in Request, InsertQuestion(r)
    PROVE  IInv'
<1> DEFINE v == request[r].run
           n == request[r].step
<1>1. /\ asked' = [asked EXCEPT ![v] = @ \cup {n}]
      /\ request' = [request EXCEPT ![r] = Idle]
      /\ UNCHANGED <<visible, submitted, run, results, evidence>>
  BY DEF InsertQuestion, Done, Becomes, course
<1>2. /\ request[r] \in RequestStates /\ v \in Run /\ n \in Steps
      /\ \A j \in Steps : j < n => j \in Answered(v)
  <2>1. request[r] \in RequestStates /\ Justified(request[r]) /\ request[r].pc = "challenge"
    BY OneRequest DEF InsertQuestion, At
  <2> QED BY <2>1 DEF Justified, OnRun, RequestStates
<1> HIDE DEF v, n
<1>3. asked \in [Run -> SUBSET Steps] /\ request \in [Request -> RequestStates]
  BY DEF IInv, TypeOK, RequestStates
<1>4. \A w \in Run : asked'[w] = IF w = v THEN asked[w] \cup {n} ELSE asked[w]
  BY <1>1, <1>3
<1>5. \A w : Answered(w)' = Answered(w)
  BY <1>1 DEF Answered
<1>6. AllScored' = AllScored
  BY <1>1 DEF AllScored, ScoredOf
<1>7. TypeOK'
  <2>1. asked' \in [Run -> SUBSET Steps]
    BY <1>1, <1>2, <1>3
  <2>2. request' \in [Request -> RequestStates]
    BY <1>1, <1>3, IdleJustified
  <2> QED BY <1>1, <2>1, <2>2 DEF IInv, TypeOK, RequestStates
<1>8. QuestionsInOrder'
  BY <1>2, <1>4, <1>5 DEF IInv, QuestionsInOrder
<1>9. CompletedByAnswers' /\ ConceptStateFresh'
  BY <1>1, <1>5, <1>6 DEF IInv, CompletedByAnswers, ConceptStateFresh
<1>10. ASSUME NEW s \in Request PROVE Justified(request[s])'
  <2>1. request'[s] = Idle \/ request'[s] = request[s]
    BY <1>1, <1>3
  <2>2. Justified(request'[s])
    BY <2>1, IdleJustified, OneRequest
  <2>3. asked[request'[s].run] \subseteq asked'[request'[s].run] \/ request'[s].run \notin Run
    BY <1>4
  <2> QED BY <1>5, <1>6, <2>2, <2>3 DEF Justified, OnRun, Answering
<1>11. Locks'
  <2>1. Idle.pc \notin Recording
    BY DEF Idle, Recording
  <2>2. ASSUME NEW s \in Request, NEW u \in Request, s # u
        PROVE  Apart(request'[s], request'[u])
    BY <1>1, <1>3, <2>1, <2>2 DEF IInv, Locks, Apart, Recording
  <2> QED BY <2>2 DEF Locks, Apart
<1> QED BY <1>7, <1>8, <1>9, <1>10, <1>11 DEF IInv, Requests

LEMMA AskAnswerStep ==
    ASSUME IInv, NEW r \in Request, NEW v \in Run, NEW i \in Steps, AskAnswer(r, v, i)
    PROVE  IInv'
<1> DEFINE q == [Idle EXCEPT !.pc = "evaluate", !.run = v, !.step = i]
<1>1. UNCHANGED <<course, run, records>> /\ i \in asked[v] /\ request' = [request EXCEPT ![r] = q]
  BY DEF AskAnswer, Becomes
<1>2. q \in RequestStates /\ q.pc = "evaluate" /\ q.run = v /\ q.step = i
  BY IdleJustified DEF Idle, RequestStates, RequestPC
<1>3. Justified(q) /\ q.pc \notin Recording
  BY <1>1, <1>2 DEF Justified, Recording
<1>4. Moves(r)
  BY <1>1, <1>2, <1>3, NoLock DEF Moves
<1> QED BY <1>1, <1>4, RunKept, MovePreserves

(* The run is locked by no other request. *)
LEMMA RecordStep ==
    ASSUME IInv, NEW r \in Request, Record(r)
    PROVE  IInv'
<1> DEFINE v == request[r].run
<1>1. UNCHANGED <<course, run, records>>
  BY DEF Record
<1>2. Moves(r)
  <2>1. CASE Done(r)
    BY <2>1, DoneMoves
  <2>2. CASE ~Done(r)
    <3>1. PICK b \in BOOLEAN :
            /\ request' = [request EXCEPT ![r] = [request[r] EXCEPT !.pc = "mastery", !.scored = b]]
            /\ request[r].step \notin Answered(v)
      BY <2>2 DEF Record, Becomes
    <3> DEFINE q == [request[r] EXCEPT !.pc = "mastery", !.scored = b]
    <3>2. /\ request[r] \in RequestStates
          /\ v \in Run /\ request[r].step \in asked[v]
      BY OneRequest DEF Record, At, Justified, OnRun, Answering
    <3>3. /\ q \in RequestStates
          /\ q.pc = "mastery" /\ q.run = v /\ q.step = request[r].step
      BY <3>2 DEF RequestStates, RequestPC
    <3>4. Justified(q)
      BY <3>1, <3>2, <3>3 DEF Justified
    <3>5. \A s \in Request : request[s].pc \in Recording => request[s].run # v
      BY DEF Record, RunLocked, Recording
    <3>6. \A s \in Request \ {r} : Apart(q, request[s])
      BY <3>3, <3>5 DEF Apart
    <3> QED BY <3>1, <3>3, <3>4, <3>6 DEF Moves
  <2> QED BY <2>1, <2>2
<1> QED BY <1>1, <1>2, RunKept, MovePreserves

(* The concept is locked by no other request. *)
LEMMA MasteryStep ==
    ASSUME IInv, NEW r \in Request, Mastery(r)
    PROVE  IInv'
<1> DEFINE c == AllScored + (IF request[r].scored THEN 1 ELSE 0)
           q == [request[r] EXCEPT !.pc = "commit", !.count = c]
<1>1. UNCHANGED <<course, run, records>> /\ request' = [request EXCEPT ![r] = q]
  BY DEF Mastery, Becomes
<1>2. request[r] \in RequestStates /\ Justified(request[r]) /\ request[r].pc = "mastery"
  BY OneRequest DEF Mastery, At
<1>3. c \in Nat
  BY PairsFinite DEF IInv
<1>4. /\ q \in RequestStates
      /\ q.pc = "commit" /\ q.run = request[r].run /\ q.step = request[r].step
      /\ q.scored = request[r].scored /\ q.count = c
  BY <1>2, <1>3 DEF RequestStates, RequestPC
<1>5. Justified(q)
  BY <1>2, <1>4 DEF Justified, OnRun, Answering, Recording
<1>6. \A s \in Request \ {r} : Apart(q, request[s])
  BY <1>2, <1>4 DEF Apart, IInv, Locks, Recording, Mastery, ConceptLocked
<1>7. Moves(r)
  BY <1>1, <1>4, <1>5, <1>6 DEF Moves
<1> QED BY <1>1, <1>7, RunKept, MovePreserves

LEMMA FailStep ==
    ASSUME IInv, NEW r \in Request, Fail(r)
    PROVE  IInv'
BY DoneMoves, RunKept, MovePreserves DEF Fail

-----------------------------------------------------------------------------
(* Commit: what an appended result does to the tables. *)

(* The results of run v get one more, of step n. *)
Appended(v, n, b) ==
    results' = [results EXCEPT ![v] = Append(results[v], [step |-> n, scored |-> b])]

LEMMA AppendedResults ==
    ASSUME TypeOK, NEW v \in Run, NEW n \in Steps, NEW b \in BOOLEAN, Appended(v, n, b)
    PROVE  /\ results' \in [Run -> Seq(Result)]
           /\ \A w \in Run : w # v => results'[w] = results[w]
           /\ Len(results'[v]) = Len(results[v]) + 1
           /\ Len(results[v]) \in Nat
           /\ DOMAIN results'[v] = DOMAIN results[v] \cup {Len(results[v]) + 1}
           /\ Len(results[v]) + 1 \notin DOMAIN results[v]
           /\ \A i \in DOMAIN results[v] : results'[v][i] = results[v][i]
           /\ results'[v][Len(results[v]) + 1].step = n
           /\ results'[v][Len(results[v]) + 1].scored = b
<1> DEFINE new == [step |-> n, scored |-> b]
           old == results[v]
<1>1. results \in [Run -> Seq(Result)] /\ old \in Seq(Result) /\ new \in Result
  BY DEF TypeOK, Result
<1>2. results' = [results EXCEPT ![v] = Append(old, new)]
  BY DEF Appended
<1> HIDE DEF new, old
<1>3. /\ Append(old, new) \in Seq(Result)
      /\ Len(Append(old, new)) = Len(old) + 1 /\ Len(old) \in Nat
      /\ DOMAIN old = 1 .. Len(old)
      /\ DOMAIN Append(old, new) = 1 .. (Len(old) + 1)
      /\ \A i \in 1 .. Len(old) : Append(old, new)[i] = old[i]
      /\ Append(old, new)[Len(old) + 1] = new
  BY <1>1
<1>4. results'[v] = Append(old, new) /\ results' \in [Run -> Seq(Result)]
  BY <1>1, <1>2, <1>3
<1>5. \A w \in Run : w # v => results'[w] = results[w]
  BY <1>1, <1>2
<1> DEFINE k == Len(old)
<1>6. DOMAIN results'[v] = DOMAIN old \cup {Len(old) + 1} /\ Len(old) + 1 \notin DOMAIN old
  <2>1. k \in Nat /\ DOMAIN old = 1 .. k /\ DOMAIN results'[v] = 1 .. (k + 1)
    BY <1>3, <1>4
  <2> HIDE DEF k
  <2>2. 1 .. (k + 1) = (1 .. k) \cup {k + 1} /\ k + 1 \notin 1 .. k
    BY <2>1
  <2>3. DOMAIN results'[v] = DOMAIN old \cup {k + 1} /\ k + 1 \notin DOMAIN old
    BY <2>1, <2>2
  <2> QED BY <2>3 DEF k
<1>7. \A i \in DOMAIN old : results'[v][i] = old[i]
  BY <1>3, <1>4
<1>8. results'[v][Len(old) + 1] = new /\ Len(results'[v]) = Len(old) + 1 /\ Len(old) \in Nat
  BY <1>3, <1>4
<1>9. new.step = n /\ new.scored = b
  BY DEF new
<1> QED BY <1>4, <1>5, <1>6, <1>7, <1>8, <1>9 DEF old

LEMMA AppendedAnswered ==
    ASSUME TypeOK, NEW v \in Run, NEW n \in Steps, NEW b \in BOOLEAN, Appended(v, n, b)
    PROVE  /\ Answered(v)' = Answered(v) \cup {n}
           /\ \A w \in Run : w # v => Answered(w)' = Answered(w)
<1> DEFINE k == Len(results[v]) + 1
<1>1. /\ DOMAIN results'[v] = DOMAIN results[v] \cup {k}
      /\ \A i \in DOMAIN results[v] : results'[v][i] = results[v][i]
      /\ k \notin DOMAIN results[v]
      /\ results'[v][k].step = n
      /\ \A w \in Run : w # v => results'[w] = results[w]
  BY AppendedResults DEF Appended
<1> HIDE DEF k
<1>2. {results'[v][i].step : i \in DOMAIN results'[v]} = {results[v][i].step : i \in DOMAIN results[v]} \cup {n}
  BY <1>1
<1> QED BY <1>1, <1>2 DEF Answered

LEMMA AppendedPairs ==
    ASSUME TypeOK, CompletedByAnswers, NEW v \in Run, NEW n \in Steps, NEW b \in BOOLEAN,
           Appended(v, n, b)
    PROVE  AllScored' = AllScored + (IF b THEN 1 ELSE 0)
<1> DEFINE k == Len(results[v]) + 1
           p == <<v, k>>
<1>1. /\ DOMAIN results'[v] = DOMAIN results[v] \cup {k}
      /\ \A i \in DOMAIN results[v] : results'[v][i] = results[v][i]
      /\ k \notin DOMAIN results[v]
      /\ results'[v][k].scored = b
      /\ \A w \in Run : w # v => results'[w] = results[w]
  BY AppendedResults DEF Appended
<1> HIDE DEF k
<1>2. \A w \in Run : w # v => ScoredOf(w)' = ScoredOf(w)
  BY <1>1 DEF ScoredOf
<1>3. ScoredOf(v)' = IF b THEN ScoredOf(v) \cup {k} ELSE ScoredOf(v)
  BY <1>1 DEF ScoredOf
<1>4. IsFiniteSet(ScoredPairs) /\ AllScored \in Nat
  BY PairsFinite
<1>5. AllScored = Cardinality(ScoredPairs) /\ AllScored' = Cardinality(ScoredPairs')
  BY DEF AllScored, ScoredPairs
<1>6. \A x : x \in ScoredPairs' <=> \E w \in Run : \E i \in ScoredOf(w)' : x = <<w, i>>
  BY DEF ScoredPairs
<1>7. CASE b
  <2>1. p \notin ScoredPairs
    BY <1>1, InPairs DEF ScoredOf
  <2>2. ScoredPairs' = ScoredPairs \cup {p}
    BY <1>2, <1>3, <1>6, <1>7, InPairs
  <2>3. Cardinality(ScoredPairs \cup {p}) = Cardinality(ScoredPairs) + 1
    BY <1>4, <2>1, FS_AddElement
  <2> QED BY <1>5, <1>7, <2>2, <2>3
<1>8. CASE ~b
  <2>1. ScoredPairs' = ScoredPairs
    BY <1>2, <1>3, <1>6, <1>8, InPairs
  <2> QED BY <1>4, <1>5, <1>8, <2>1
<1> QED BY <1>7, <1>8

(* The request that commits holds the locks of its run and of the concept. *)
LEMMA CommitStep ==
    ASSUME IInv, NEW r \in Request, Commit(r)
    PROVE  IInv'
<1>0. /\ request[r] \in RequestStates /\ Justified(request[r]) /\ request[r].pc = "commit"
      /\ request[r].run \in Run
  BY OneRequest DEF Commit, At, Justified, OnRun, Answering, Recording
<1>1. PICK v \in Run, n \in Steps, b \in BOOLEAN, c \in Nat :
        /\ v = request[r].run /\ n = request[r].step
        /\ b = request[r].scored /\ c = request[r].count
        /\ n \in asked[v] /\ n \notin Answered(v)
        /\ c = AllScored + (IF b THEN 1 ELSE 0)
  BY <1>0 DEF Justified, Answering, Recording, RequestStates
<1> DEFINE complete == Len(results[v]) + 1 >= 3
<1>2. Appended(v, n, b) /\ UNCHANGED <<visible, submitted, asked>>
  BY <1>1 DEF Commit, Appended, course
<1>3. evidence' = IF c > 0 THEN c ELSE evidence
  BY <1>1 DEF Commit
<1>4. Len(results'[v]) = Len(results[v]) + 1 /\ results'[v] = Append(results[v], [step |-> n, scored |-> b])
  <2>1. TypeOK
    BY DEF IInv
  <2>2. Len(results'[v]) = Len(results[v]) + 1
    BY <1>1, <1>2, <2>1, AppendedResults DEF Appended
  <2> QED BY <1>1, <1>2, <2>1, <2>2 DEF Appended, TypeOK
<1>5. /\ run' = IF complete THEN [run EXCEPT ![v].status = "COMPLETED"] ELSE run
      /\ Becomes(r, IF complete THEN Idle ELSE [Idle EXCEPT !.pc = "run", !.run = v])
  BY <1>1, <1>4, StepsFinite DEF Commit
<1> HIDE DEF complete
<1>6. TypeOK /\ CompletedByAnswers /\ QuestionsInOrder /\ evidence = AllScored
  BY DEF IInv, ConceptStateFresh
<1>7. /\ Answered(v)' = Answered(v) \cup {n}
      /\ \A w \in Run : w # v => Answered(w)' = Answered(w)
  BY <1>1, <1>2, <1>6, AppendedAnswered DEF Appended
<1>8. AllScored' = AllScored + (IF b THEN 1 ELSE 0) /\ AllScored \in Nat
  BY <1>1, <1>2, <1>6, AppendedPairs, PairsFinite DEF Appended
<1>9. /\ results' \in [Run -> Seq(Result)]
      /\ \A w \in Run : w # v => results'[w] = results[w]
      /\ Len(results[v]) \in Nat
  BY <1>1, <1>2, <1>6, AppendedResults DEF Appended
<1>10. ConceptStateFresh'
  BY <1>1, <1>3, <1>6, <1>8 DEF ConceptStateFresh
<1>11. QuestionsInOrder'
  BY <1>1, <1>2, <1>6, <1>7 DEF QuestionsInOrder
<1>12. /\ Cardinality(Answered(v)') = Len(results'[v])
       /\ complete <=> Answered(v)' = Steps
  <2>1. Answered(v) \in SUBSET Steps /\ Answered(v)' \in SUBSET Steps
    BY <1>1, <1>6, <1>7, AnsweredSteps
  <2>2. Cardinality(Answered(v)') = Cardinality(Answered(v)) + 1
    BY <1>1, <1>7, <2>1, StepSets, FS_AddElement
  <2>3. Cardinality(Answered(v)) = Len(results[v])
    BY <1>1, <1>6 DEF CompletedByAnswers
  <2>4. Cardinality(Answered(v)') = Len(results[v]) + 1
    BY <2>2, <2>3
  <2>5. Cardinality(Answered(v)') \in 0 .. 3 /\ (Cardinality(Answered(v)') = 3 <=> Answered(v)' = Steps)
    BY <2>1, StepSets
  <2>6. complete <=> Cardinality(Answered(v)') >= 3
    BY <2>4 DEF complete
  <2>7. Cardinality(Answered(v)') >= 3 <=> Cardinality(Answered(v)') = 3
    BY <2>5
  <2> QED BY <1>4, <2>4, <2>5, <2>6, <2>7
<1>13. run[v].status # "COMPLETED"
  BY <1>1, <1>6 DEF CompletedByAnswers
<1>14. /\ run' \in [Run -> [attempt : 0 .. MaxAttempts, status : {"none", "IN_PROGRESS", "COMPLETED"}]]
       /\ run'[v].status = "COMPLETED" <=> complete
       /\ \A w \in Run : w # v => run'[w] = run[w]
  <2>1. run \in [Run -> [attempt : 0 .. MaxAttempts, status : {"none", "IN_PROGRESS", "COMPLETED"}]]
    BY <1>6 DEF TypeOK
  <2>2. CASE complete
    BY <1>1, <1>5, <2>1, <2>2
  <2>3. CASE ~complete
    BY <1>5, <1>13, <2>1, <2>3
  <2> QED BY <2>2, <2>3
<1>15. CompletedByAnswers'
  <2> SUFFICES ASSUME NEW w \in Run
               PROVE  /\ Cardinality(Answered(w)') = Len(results'[w])
                      /\ run'[w].status = "COMPLETED" <=> Answered(w)' = Steps
    BY DEF CompletedByAnswers
  <2>1. CASE w = v
    BY <1>12, <1>14, <2>1
  <2>2. CASE w # v
    <3>1. Cardinality(Answered(w)) = Len(results[w]) /\ (run[w].status = "COMPLETED" <=> Answered(w) = Steps)
      BY <1>6 DEF CompletedByAnswers
    <3> QED BY <1>7, <1>9, <1>14, <2>2, <3>1
  <2> QED BY <2>1, <2>2
<1>16. PICK q \in RequestStates :
         /\ q.pc \in {"idle", "run"} /\ (q.pc = "run" => q.run \in Run)
         /\ request' = [request EXCEPT ![r] = q]
  <2> DEFINE x == [Idle EXCEPT !.pc = "run", !.run = v]
  <2>1. x \in RequestStates /\ x.pc = "run" /\ x.run \in Run
    BY <1>1, IdleJustified DEF Idle, RequestStates, RequestPC
  <2>2. Idle \in RequestStates /\ Idle.pc = "idle"
    BY IdleJustified DEF Idle
  <2>3. request' = [request EXCEPT ![r] = x] \/ request' = [request EXCEPT ![r] = Idle]
    BY <1>5 DEF Becomes
  <2> QED BY <2>1, <2>2, <2>3
<1>17. /\ request \in [Request -> RequestStates] /\ request' \in [Request -> RequestStates]
       /\ \A s \in Request : request'[s] = IF s = r THEN q ELSE request[s]
  <2>1. request \in [Request -> RequestStates]
    BY <1>6 DEF TypeOK, RequestStates
  <2> QED BY <1>16, <2>1
<1>18. TypeOK'
  <2>1. evidence' \in Nat
    BY <1>1, <1>3, <1>6, <1>8
  <2> QED BY <1>2, <1>6, <1>9, <1>14, <1>17, <2>1 DEF TypeOK, RequestStates
<1>19. ASSUME NEW s \in Request PROVE Justified(request[s])'
  <2>1. CASE s = r
    <3>1. request'[s] = q
      BY <1>17, <2>1
    <3> QED BY <1>16, <3>1 DEF Justified, OnRun, Answering, Recording
  <2>2. CASE s # r
    <3>1. PICK p \in RequestStates : p = request[s] /\ request'[s] = p /\ Justified(p)
      BY <1>17, <2>2, OneRequest
    <3>2. p.pc # "commit"
      BY <1>0, <2>2, <3>1 DEF IInv, Locks, Apart
    <3>3. p.pc \in Recording => p.run # v
      BY <1>0, <1>1, <2>2, <3>1 DEF IInv, Locks, Apart, Recording
    <3>4. /\ p.pc \in OnRun => p.run \in Run
          /\ p.pc = "challenge" => \A j \in Steps : j < p.step => j \in Answered(p.run)
          /\ p.pc \in Answering => p.step \in asked[p.run]
          /\ p.pc \in Recording => p.step \notin Answered(p.run)
      BY <3>1, Zenon DEF Justified
    <3>5. "challenge" \in OnRun /\ Recording \subseteq OnRun /\ "commit" \in Recording
      BY DEF OnRun, Answering, Recording
    <3>6. /\ p.pc = "challenge" => \A j \in Steps : j < p.step => j \in Answered(p.run)'
          /\ p.pc \in Recording => p.step \notin Answered(p.run)'
      BY <1>7, <3>3, <3>4, <3>5
    <3>7. Justified(p)'
      BY <1>2, <3>2, <3>4, <3>6 DEF Justified
    <3> QED BY <3>1, <3>7 DEF Justified
  <2> QED BY <2>1, <2>2
<1>20. Locks'
  <2>1. q.pc \notin Recording
    BY <1>16 DEF Recording
  <2>2. ASSUME NEW s \in Request, NEW u \in Request, s # u
        PROVE  Apart(request'[s], request'[u])
    BY <1>17, <2>1, <2>2 DEF IInv, Locks, Apart, Recording
  <2> QED BY <2>2 DEF Locks, Apart
<1> QED BY <1>10, <1>11, <1>15, <1>18, <1>19, <1>20 DEF IInv, Requests

-----------------------------------------------------------------------------
(* The invariant holds, and with it the properties. *)

LEMMA InitInvariant == Init => IInv
<1> SUFFICES ASSUME Init PROVE IInv
  OBVIOUS
<1>1. \A v \in Run : results[v] = <<>> /\ asked[v] = {} /\ run[v] = [attempt |-> 0, status |-> "none"]
  BY DEF Init
<1>2. \A v \in Run : Answered(v) = {} /\ ScoredOf(v) = {} /\ Len(results[v]) = 0
  BY <1>1 DEF Answered, ScoredOf
<1>3. Cardinality({}) = 0
  BY FS_EmptySet
<1>4. AllScored = 0
  <2>1. ScoredPairs = {}
    BY <1>2, InPairs
  <2> QED BY <1>3, <2>1 DEF AllScored, ScoredPairs
<1>5. TypeOK
  <2>1. MaxAttempts \in Nat /\ 0 \in 0 .. MaxAttempts
    BY VerificationAssumption
  <2>2. results \in [Run -> Seq(Result)] /\ asked \in [Run -> SUBSET Steps]
    BY DEF Init
  <2>3. request \in [Request -> RequestStates]
    BY IdleJustified DEF Init
  <2> QED BY <2>1, <2>2, <2>3 DEF Init, TypeOK, RequestStates
<1>6. QuestionsInOrder
  BY <1>1, <1>2 DEF QuestionsInOrder
<1>7. CompletedByAnswers
  <2>1. Steps # {}
    BY DEF Steps
  <2>2. \A v \in Run : run[v].status # "COMPLETED"
    BY <1>1
  <2> QED BY <1>2, <1>3, <2>1, <2>2 DEF CompletedByAnswers
<1>8. ConceptStateFresh
  BY <1>4 DEF Init, ConceptStateFresh
<1>9. Requests /\ Locks
  <2>1. \A r \in Request : request[r] = Idle
    BY DEF Init
  <2> QED BY <2>1, IdleJustified DEF Requests, Locks, Apart, Idle, Recording
<1> QED BY <1>5, <1>6, <1>7, <1>8, <1>9 DEF IInv

LEMMA NextInvariant == IInv /\ [Next]_vars => IInv'
<1> SUFFICES ASSUME IInv, [Next]_vars PROVE IInv'
  OBVIOUS
<1>1. CASE UNCHANGED vars
  <2>1. UNCHANGED <<visible, submitted, run, asked, results, evidence, request>>
    BY <1>1 DEF vars
  <2>2. TypeOK'
    BY <2>1 DEF IInv, TypeOK
  <2>3. QuestionsInOrder' /\ CompletedByAnswers' /\ ConceptStateFresh'
    BY <2>1, RunKept, TablesKept
  <2>4. Requests'
    BY <2>1 DEF IInv, Requests, Justified, Answered, AllScored, ScoredOf
  <2>5. Locks'
    BY <2>1 DEF IInv, Locks, Apart
  <2> QED BY <2>2, <2>3, <2>4, <2>5 DEF IInv
<1>2. CASE SetVisible \/ Submit
  BY <1>2, OutsideStep
<1>3. ASSUME NEW r \in Request, AskStart(r) \/ Create(r) \/ Reselect(r) \/ ReadRun(r)
      PROVE  IInv'
  BY <1>3, AskStartStep, CreateStep, ReselectStep, ReadRunStep
<1>4. ASSUME NEW r \in Request, ReadQuestions(r) \/ InsertQuestion(r) \/ Fail(r)
      PROVE  IInv'
  BY <1>4, ReadQuestionsStep, InsertQuestionStep, FailStep
<1>5. ASSUME NEW r \in Request, Record(r) \/ Mastery(r) \/ Commit(r)
      PROVE  IInv'
  BY <1>5, RecordStep, MasteryStep, CommitStep
<1>6. ASSUME NEW r \in Request, NEW v \in Run, NEW i \in Steps, AskAnswer(r, v, i)
      PROVE  IInv'
  BY <1>6, AskAnswerStep
<1> QED BY <1>1, <1>2, <1>3, <1>4, <1>5, <1>6 DEF Next, Step

LEMMA Invariant == Spec => []IInv
<1>1. Init => IInv
  BY InitInvariant
<1>2. IInv /\ [Next]_vars => IInv'
  BY NextInvariant
<1> QED BY <1>1, <1>2, PTL DEF Spec

(* The tables and the requests keep their shape; no question is asked      *)
(* beyond the third step.                                                  *)
THEOREM VerificationTypes == Spec => []TypeOK
<1>1. IInv => TypeOK
  BY DEF IInv
<1> QED BY Invariant, <1>1, PTL

(* However many requests generate questions at once, a question is there   *)
(* only when all earlier ones are answered.                                *)
THEOREM OneQuestionAtATime == Spec => []QuestionsInOrder
<1>1. IInv => QuestionsInOrder
  BY DEF IInv
<1> QED BY Invariant, <1>1, PTL

(* A run is COMPLETED exactly by one result for each of its questions,     *)
(* however many answers to a question are evaluated at once.               *)
THEOREM ThreeAnswersComplete == Spec => []CompletedByAnswers
<1>1. IInv => CompletedByAnswers
  BY DEF IInv
<1> QED BY Invariant, <1>1, PTL

(* The concept state counts the scored results of all runs, however many   *)
(* transactions record one at the same time.                               *)
THEOREM NoResultForgotten == Spec => []ConceptStateFresh
<1>1. IInv => ConceptStateFresh
  BY DEF IInv
<1> QED BY Invariant, <1>1, PTL
=============================================================================
