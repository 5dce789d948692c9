-------------------------- MODULE CourseworkProofs --------------------------
(***************************************************************************)
(* Proofs about Coursework for any number of requests, sessions, files,    *)
(* attempts and turns.                                                     *)
(***************************************************************************)
EXTENDS Coursework, TLAPS

Submitting == {"put", "finalize", "rollback"}
Coaching == {"history", "reply"}

(* What a request holds while it is at work. *)
RequestsHold ==
    \A r \in Request :
        /\ request[r].pc = "again" => request[r].try < 3
        /\ request[r].pc \in Submitting => request[r].work \in Work
        /\ request[r].pc \in Coaching => request[r].session \in Session

(* The number a request is going to insert comes after those in use. *)
NumbersFollow ==
    \A r \in Request :
        request[r].pc = "insert" =>
            \A j \in Attempt : j < request[r].attempt => Started(j)

(* A turn belongs to a session of the attempt it was asked for. *)
TurnsBelong ==
    \A r \in Request :
        request[r].pc \in Coaching =>
            /\ session[request[r].session].attempt = request[r].attempt
            /\ session[request[r].session].status # "none"

(* A session that is not there has no turns. *)
NoTurnsBefore == \A s \in Session : session[s].status = "none" => log[s] = <<>>

(* A file that is being submitted is nobody else's. *)
FilesOwned ==
    \A r \in Request :
        request[r].pc \in Submitting =>
            /\ \A k \in Attempt : work[k] # request[r].work
            /\ request[r].pc = "finalize" => request[r].work \in object
            /\ \A q \in Request :
                 request[q].pc \in Submitting /\ request[q].work = request[r].work
                 => q = r

CourseworkInv ==
    /\ TypeOK /\ RequestsHold /\ NumbersFollow /\ TurnsBelong
    /\ NoTurnsBefore /\ FilesOwned
    /\ AttemptsInOrder /\ SessionsFollowAttempts /\ WorkKept

-----------------------------------------------------------------------------
(* The invariant holds initially. *)

LEMMA IdleTyped == Idle \in RequestState
  BY CourseworkAssumption DEF Idle, RequestState, RequestPC, Turn

LEMMA InitCoursework == Init => CourseworkInv
  <1> SUFFICES ASSUME Init PROVE CourseworkInv
    OBVIOUS
  <1>1. TypeOK
    <2>1. request \in [Request -> RequestState]
      BY IdleTyped DEF Init
    <2>2. log \in [Session -> Seq(Turn)]
      BY DEF Init
    <2>3. session \in [Session -> [attempt : 0 .. MaxAttempts,
                                   status : {"none", "ACTIVE", "ENDED"}]]
      BY CourseworkAssumption DEF Init
    <2> QED BY <2>1, <2>2, <2>3 DEF Init, TypeOK
  <1>2. \A r \in Request : request[r].pc = "idle"
    BY DEF Init, Idle
  <1>3. RequestsHold /\ NumbersFollow /\ TurnsBelong /\ FilesOwned
    BY <1>2 DEF RequestsHold, NumbersFollow, TurnsBelong, FilesOwned, Submitting, Coaching
  <1>4. NoTurnsBefore /\ AttemptsInOrder /\ WorkKept
    BY DEF Init, NoTurnsBefore, AttemptsInOrder, WorkKept, Started
  <1>5. SessionsFollowAttempts
    BY DEF Init, SessionsFollowAttempts
  <1> QED BY <1>1, <1>3, <1>4, <1>5 DEF CourseworkInv

-----------------------------------------------------------------------------
(* Types. *)

LEMMA RequestTyped ==
  ASSUME TypeOK, NEW r, NEW s \in RequestState, Becomes(r, s)
  PROVE  request' \in [Request -> RequestState]
  BY DEF TypeOK, Becomes

(* The states a request goes to. *)
LEMMA StateUpdate ==
  ASSUME NEW s \in RequestState, NEW pc \in RequestPC
  PROVE  /\ [s EXCEPT !.pc = pc] \in RequestState
         /\ \A k \in 0 .. MaxAttempts : [s EXCEPT !.pc = pc, !.attempt = k] \in RequestState
         /\ \A n \in 0 .. 3 : [s EXCEPT !.pc = pc, !.try = n] \in RequestState
         /\ \A i \in Session, t \in Turn :
               [s EXCEPT !.pc = pc, !.session = i, !.turn = t] \in RequestState
         /\ \A k \in 0 .. MaxAttempts, f \in Work :
               [s EXCEPT !.pc = pc, !.attempt = k, !.work = f] \in RequestState
  BY DEF RequestState

LEMMA HistoryUpdate ==
  ASSUME NEW s \in RequestState, NEW n \in Nat
  PROVE  [s EXCEPT !.pc = "reply", !.turn.history = n] \in RequestState
  <1>1. [s.turn EXCEPT !.history = n] \in Turn
    BY DEF RequestState, Turn
  <1> QED BY <1>1 DEF RequestState, RequestPC

LEMMA RequestsTyped ==
  ASSUME TypeOK, RequestsHold, NEW r \in Request,
         AskStart(r) \/ Step(r) \/ \E k \in Attempt : Ask(r, k)
  PROVE  request' \in [Request -> RequestState]
  <1>1. request[r] \in RequestState
    BY DEF TypeOK
  <1>2. Idle \in RequestState
    BY IdleTyped
  <1>3. Attempt \subseteq 0 .. MaxAttempts
    BY CourseworkAssumption DEF Attempt
  <1>4. ASSUME Done(r) PROVE request' \in [Request -> RequestState]
    BY <1>2, <1>4, RequestTyped DEF Done
  <1>5. ASSUME NEW n \in 1 .. 3, Look(r, n) PROVE request' \in [Request -> RequestState]
    <2>1. [Idle EXCEPT !.pc = "number", !.try = n] \in RequestState
      <3>1. n \in 0 .. 3 /\ "number" \in RequestPC
        BY DEF RequestPC
      <3> QED BY <1>2, <3>1, StateUpdate
    <2> QED BY <1>4, <1>5, <2>1, RequestTyped DEF Look
  <1>6. CASE AskStart(r)
    BY <1>5, <1>6 DEF AskStart
  <1>7. CASE Again(r)
    <2>1. request[r].try \in 0 .. 3 /\ request[r].try < 3
      BY <1>1, <1>7 DEF Again, RequestsHold, RequestState
    <2>2. request[r].try + 1 \in 1 .. 3
      BY <2>1
    <2> QED BY <1>5, <1>7, <2>2 DEF Again
  <1>8. CASE Number(r)
    <2>1. PICK k \in Attempt : Becomes(r, [request[r] EXCEPT !.pc = "insert", !.attempt = k])
      BY <1>8 DEF Number
    <2>2. [request[r] EXCEPT !.pc = "insert", !.attempt = k] \in RequestState
      BY <1>1, <1>3, StateUpdate DEF RequestPC
    <2> QED BY <2>1, <2>2, RequestTyped
  <1>9. CASE InsertAttempt(r)
    <2>1. [Idle EXCEPT !.pc = "again", !.try = request[r].try] \in RequestState
      <3>1. request[r].try \in 0 .. 3
        BY <1>1 DEF RequestState
      <3> QED BY <1>2, <3>1, StateUpdate DEF RequestPC
    <2> QED BY <1>2, <1>4, <1>9, <2>1, RequestTyped DEF InsertAttempt
  <1>10. CASE PutWork(r)
    BY <1>1, <1>10, StateUpdate, RequestTyped DEF PutWork, RequestPC
  <1>11. CASE FinalizeFile(r)
    BY <1>1, <1>4, <1>11, StateUpdate, RequestTyped DEF FinalizeFile, RequestPC
  <1>12. CASE RollbackWork(r)
    BY <1>4, <1>12 DEF RollbackWork
  <1>13. ASSUME NEW i \in Session, Found(r, i) PROVE request' \in [Request -> RequestState]
    <2>1. [index |-> Len(log[i]), history |-> 0] \in Turn
      BY DEF TypeOK, Turn
    <2> QED BY <1>1, <1>13, <2>1, StateUpdate, RequestTyped DEF Found, RequestPC
  <1>14. CASE FindSession(r)
    <2>1. [request[r] EXCEPT !.pc = "create"] \in RequestState
      BY <1>1, StateUpdate DEF RequestPC
    <2> QED BY <1>13, <1>14, <2>1, RequestTyped DEF FindSession, ActiveSessions
  <1>15. CASE CreateSession(r)
    <2>1. [request[r] EXCEPT !.pc = "refind"] \in RequestState
      BY <1>1, StateUpdate DEF RequestPC
    <2> QED BY <1>13, <1>15, <2>1, RequestTyped DEF CreateSession
  <1>16. CASE Refind(r)
    BY <1>4, <1>13, <1>16 DEF Refind, ActiveSessions
  <1>17. CASE ReadHistory(r)
    <2> DEFINE n == Len(log[request[r].session])
    <2>1. request[r].session \in Session
      BY <1>17 DEF ReadHistory, RequestsHold, Coaching
    <2>2. n \in Nat
      BY <2>1 DEF TypeOK
    <2> HIDE DEF n
    <2>3. [request[r] EXCEPT !.pc = "reply", !.turn.history = n] \in RequestState
      BY <1>1, <2>2, HistoryUpdate
    <2>4. Becomes(r, [request[r] EXCEPT !.pc = "reply", !.turn.history = n])
      BY <1>17 DEF ReadHistory, n
    <2> QED BY <2>3, <2>4, RequestTyped
  <1>18. CASE Persist(r)
    BY <1>4, <1>18 DEF Persist
  <1>19. CASE Fail(r)
    BY <1>4, <1>19 DEF Fail
  <1>20. ASSUME NEW k \in Attempt, Ask(r, k) PROVE request' \in [Request -> RequestState]
    <2>1. CASE SaveDraft(r, k) \/ SubmitText(r, k)
      BY <2>1 DEF SaveDraft, SubmitText, TypeOK
    <2>2. CASE AskSubmitFile(r, k)
      <3>1. PICK f \in Work : Becomes(r, [Idle EXCEPT !.pc = "put", !.attempt = k, !.work = f])
        BY <2>2 DEF AskSubmitFile
      <3> QED BY <1>2, <1>3, <3>1, StateUpdate, RequestTyped DEF RequestPC
    <2>3. CASE AskCoach(r, k)
      BY <1>2, <1>3, <2>3, StateUpdate, RequestTyped DEF AskCoach, RequestPC
    <2> QED BY <1>20, <2>1, <2>2, <2>3 DEF Ask
  <1> QED
    BY <1>6, <1>7, <1>8, <1>9, <1>10, <1>11, <1>12, <1>14, <1>15, <1>16, <1>17,
       <1>18, <1>19, <1>20 DEF Step

(* Steps that change nothing but the state of a request. *)
Quiet == UNCHANGED <<attempt, draft, work, object, session, log>>

(* The steps that change the tables, and how. *)
LEMMA TableMoves ==
  ASSUME [Next]_vars
  PROVE  \/ Quiet
         \/ \E r \in Request : InsertAttempt(r) /\ ~Quiet
         \/ \E r \in Request, k \in Attempt : SaveDraft(r, k) \/ SubmitText(r, k)
         \/ \E r \in Request :
              \/ PutWork(r) \/ RollbackWork(r) \/ Persist(r)
              \/ FinalizeFile(r) /\ Done(r) /\ Finalize(request[r].attempt, request[r].work)
              \/ CreateSession(r) /\ ~Quiet
  <1>1. CASE UNCHANGED vars
    BY <1>1 DEF vars, Quiet
  <1>2. CASE Instructor
    BY <1>2 DEF Instructor, Transition, SetEnrollment, Quiet, files, coaching
  <1>3. ASSUME NEW r \in Request, AskStart(r) \/ Step(r) PROVE
           \/ Quiet
           \/ InsertAttempt(r) /\ ~Quiet
           \/ PutWork(r) \/ RollbackWork(r) \/ Persist(r)
           \/ FinalizeFile(r) /\ Done(r) /\ Finalize(request[r].attempt, request[r].work)
           \/ CreateSession(r) /\ ~Quiet
    <2>1. CASE AskStart(r) \/ Again(r) \/ Number(r)
      BY <2>1 DEF AskStart, Again, Number, Look, Quiet, files, coaching
    <2>2. CASE FindSession(r) \/ Refind(r) \/ ReadHistory(r) \/ Fail(r)
      BY <2>2 DEF FindSession, Refind, ReadHistory, Fail, Quiet, files, coaching
    <2>3. CASE FinalizeFile(r)
      BY <2>3 DEF FinalizeFile, Quiet
    <2> QED BY <1>3, <2>1, <2>2, <2>3 DEF Step
  <1>4. ASSUME NEW r \in Request, NEW k \in Attempt, Ask(r, k) PROVE
           Quiet \/ SaveDraft(r, k) \/ SubmitText(r, k)
    BY <1>4 DEF Ask, AskSubmitFile, AskCoach, Quiet, files, coaching
  <1> QED BY <1>1, <1>2, <1>3, <1>4 DEF Next

(* What a request goes through changes by its own steps only. *)
LEMMA OwnSteps ==
  ASSUME TypeOK, [Next]_vars, NEW q \in Request
  PROVE  \/ request'[q] = request[q]
         \/ AskStart(q) \/ Step(q) \/ \E k \in Attempt : Ask(q, k)
  <1>1. CASE UNCHANGED vars \/ Instructor
    BY <1>1 DEF vars, Instructor, Transition, SetEnrollment
  <1>2. ASSUME NEW r \in Request, AskStart(r) \/ Step(r) \/ \E k \in Attempt : Ask(r, k)
        PROVE  r # q => request'[q] = request[q]
    <2>1. ASSUME NEW s, Becomes(r, s) PROVE r # q => request'[q] = request[q]
      BY <2>1 DEF Becomes, TypeOK
    <2>2. CASE AskStart(r) \/ Again(r)
      BY <2>1, <2>2 DEF AskStart, Again, Look, Done
    <2>3. CASE Number(r)
      BY <2>1, <2>3 DEF Number
    <2>4. CASE InsertAttempt(r)
      BY <2>1, <2>4 DEF InsertAttempt, Done
    <2>5. CASE PutWork(r) \/ RollbackWork(r) \/ FinalizeFile(r)
      BY <2>1, <2>5 DEF PutWork, RollbackWork, FinalizeFile, Done
    <2>6. CASE FindSession(r) \/ CreateSession(r) \/ Refind(r)
      BY <2>1, <2>6 DEF FindSession, CreateSession, Refind, Found, Done
    <2>7. CASE ReadHistory(r) \/ Persist(r) \/ Fail(r)
      BY <2>1, <2>7 DEF ReadHistory, Persist, Fail, Done
    <2>8. CASE \E k \in Attempt : Ask(r, k)
      BY <2>1, <2>8 DEF Ask, SaveDraft, SubmitText, AskSubmitFile, AskCoach
    <2> QED BY <1>2, <2>2, <2>3, <2>4, <2>5, <2>6, <2>7, <2>8 DEF Step
  <1> QED BY <1>1, <1>2 DEF Next

LEMMA CourseTyped ==
  ASSUME TypeOK, [Next]_vars
  PROVE  assignment' \in {"DRAFT", "PUBLISHED", "ARCHIVED"} /\ enrolled' \in BOOLEAN
  <1>1. CASE UNCHANGED vars
    BY <1>1 DEF vars, TypeOK
  <1>2. CASE Instructor
    BY <1>2 DEF Instructor, Transition, SetEnrollment, TypeOK
  <1>3. CASE \E r \in Request : AskStart(r) \/ Step(r) \/ \E k \in Attempt : Ask(r, k)
    <2>1. UNCHANGED <<assignment, enrolled>>
      BY <1>3 DEF AskStart, Again, Number, Look, InsertAttempt, PutWork, RollbackWork,
        FinalizeFile, FindSession, CreateSession, Refind, ReadHistory, Persist, Fail,
        Step, Ask, SaveDraft, SubmitText, AskSubmitFile, AskCoach, course
    <2> QED BY <2>1 DEF TypeOK
  <1> QED BY <1>1, <1>2, <1>3 DEF Next

LEMMA EndedTyped ==
  ASSUME TypeOK, NEW k
  PROVE  Ended(k) \in [Session -> [attempt : 0 .. MaxAttempts,
                                   status : {"none", "ACTIVE", "ENDED"}]]
  <1>1. \A s \in Session :
          /\ session[s] \in [attempt : 0 .. MaxAttempts, status : {"none", "ACTIVE", "ENDED"}]
          /\ [session[s] EXCEPT !.status = "ENDED"]
               \in [attempt : 0 .. MaxAttempts, status : {"none", "ACTIVE", "ENDED"}]
    BY DEF TypeOK
  <1> QED BY <1>1 DEF Ended

LEMMA TablesTyped ==
  ASSUME TypeOK, RequestsHold, [Next]_vars
  PROVE  /\ attempt' \in [Attempt -> {"none", "open", "submitted"}]
         /\ draft' \in [Attempt -> Text \cup {NoText}]
         /\ work' \in [Attempt -> Work \cup {NoWork}]
         /\ object' \subseteq Work
         /\ session' \in [Session -> [attempt : 0 .. MaxAttempts,
                                      status : {"none", "ACTIVE", "ENDED"}]]
         /\ log' \in [Session -> Seq(Turn)]
  <1> USE DEF TypeOK
  <1>1. CASE Quiet
    BY <1>1 DEF Quiet
  <1>2. ASSUME NEW r \in Request, InsertAttempt(r)
        PROVE  /\ attempt' \in [Attempt -> {"none", "open", "submitted"}]
               /\ UNCHANGED <<draft, work, object, session, log>>
    BY <1>2 DEF InsertAttempt, files, coaching
  <1>3. ASSUME NEW r \in Request, NEW k \in Attempt, SaveDraft(r, k)
        PROVE  /\ draft' \in [Attempt -> Text \cup {NoText}]
               /\ UNCHANGED <<attempt, work, object, session, log>>
    BY <1>3 DEF SaveDraft, files, coaching
  <1>4. ASSUME NEW k, NEW f \in Work \cup {NoWork}, Finalize(k, f)
        PROVE  /\ attempt' \in [Attempt -> {"none", "open", "submitted"}]
               /\ work' \in [Attempt -> Work \cup {NoWork}]
               /\ session' \in [Session -> [attempt : 0 .. MaxAttempts,
                                            status : {"none", "ACTIVE", "ENDED"}]]
    BY <1>4, EndedTyped DEF Finalize
  <1>5. ASSUME NEW r \in Request, NEW k \in Attempt, SubmitText(r, k)
        PROVE  UNCHANGED <<draft, object, log>> /\ Finalize(k, NoWork)
    BY <1>5 DEF SubmitText
  <1>6. ASSUME NEW r \in Request, PutWork(r) \/ RollbackWork(r)
        PROVE  object' \subseteq Work /\ UNCHANGED <<attempt, draft, work, session, log>>
    <2>1. request[r].work \in Work
      BY <1>6 DEF PutWork, RollbackWork, RequestsHold, Submitting
    <2> QED BY <1>6, <2>1 DEF PutWork, RollbackWork, coaching
  <1>7. ASSUME NEW r \in Request, FinalizeFile(r)
        PROVE  request[r].work \in Work /\ UNCHANGED <<draft, object, log>>
    BY <1>7 DEF FinalizeFile, RequestsHold, Submitting
  <1>8. ASSUME NEW r \in Request, CreateSession(r), ~Quiet
        PROVE  /\ session' \in [Session -> [attempt : 0 .. MaxAttempts,
                                            status : {"none", "ACTIVE", "ENDED"}]]
               /\ UNCHANGED <<attempt, draft, work, object, log>>
    <2>1. request[r].attempt \in 0 .. MaxAttempts
      BY DEF RequestState
    <2>2. [attempt |-> request[r].attempt, status |-> "ACTIVE"]
            \in [attempt : 0 .. MaxAttempts, status : {"none", "ACTIVE", "ENDED"}]
      BY <2>1
    <2>3. UNCHANGED <<attempt, draft, work, object, log>>
      BY <1>8 DEF CreateSession, files
    <2>4. \E s \in Session :
            session' = [session EXCEPT ![s] = [attempt |-> request[r].attempt, status |-> "ACTIVE"]]
      BY <1>8, <2>3 DEF CreateSession, Quiet
    <2> QED BY <2>2, <2>3, <2>4
  <1>9. ASSUME NEW r \in Request, Persist(r)
        PROVE  log' \in [Session -> Seq(Turn)] /\ UNCHANGED <<attempt, draft, work, object, session>>
    <2>1. request[r].turn \in Turn /\ request[r].session \in Session
      BY <1>9 DEF RequestState, Persist, RequestsHold, Coaching
    <2>2. Append(log[request[r].session], request[r].turn) \in Seq(Turn)
      BY <2>1
    <2> QED BY <1>9, <2>1, <2>2 DEF Persist, files
  <1> QED
    BY <1>1, <1>2, <1>3, <1>4, <1>5, <1>6, <1>7, <1>8, <1>9, TableMoves

LEMMA TypeStep ==
  ASSUME TypeOK, RequestsHold, [Next]_vars
  PROVE  TypeOK'
  <1>1. request' \in [Request -> RequestState]
    <2>1. CASE UNCHANGED vars \/ Instructor
      BY <2>1 DEF TypeOK, vars, Instructor, Transition, SetEnrollment
    <2>2. CASE \E r \in Request : AskStart(r) \/ Step(r) \/ \E k \in Attempt : Ask(r, k)
      BY <2>2, RequestsTyped
    <2> QED BY <2>1, <2>2 DEF Next
  <1> QED BY <1>1, CourseTyped, TablesTyped DEF TypeOK

-----------------------------------------------------------------------------
(* What a table keeps from step to step. *)

(* An attempt that exists keeps existing, a submitted one is submitted. *)
LEMMA AttemptStays ==
  ASSUME TypeOK, [Next]_vars, NEW k \in Attempt
  PROVE  /\ Started(k) => Started(k)'
         /\ attempt[k] = "submitted" => attempt'[k] = "submitted"
  <1>1. CASE attempt' = attempt
    BY <1>1 DEF Started
  <1>2. ASSUME NEW r \in Request, InsertAttempt(r)
        PROVE  attempt' = attempt
               \/ (~Started(request[r].attempt) /\ attempt' = [attempt EXCEPT ![request[r].attempt] = "open"])
    BY <1>2 DEF InsertAttempt
  <1>3. ASSUME NEW j, NEW f, Finalize(j, f)
        PROVE  attempt' = [attempt EXCEPT ![j] = "submitted"]
    BY <1>3 DEF Finalize
  <1>4. ASSUME NEW r \in Request,
               PutWork(r) \/ RollbackWork(r) \/ Persist(r) \/ CreateSession(r)
               \/ \E j \in Attempt : SaveDraft(r, j)
        PROVE  attempt' = attempt
    BY <1>4 DEF PutWork, RollbackWork, Persist, CreateSession, SaveDraft
  <1>5. \/ attempt' = attempt
        \/ \E j \in Attempt : ~Started(j) /\ attempt' = [attempt EXCEPT ![j] = "open"]
        \/ \E j : attempt' = [attempt EXCEPT ![j] = "submitted"]
        \/ \E j : ~Started(j) /\ attempt' = [attempt EXCEPT ![j] = "open"]
    BY <1>2, <1>3, <1>4, TableMoves DEF Quiet, SubmitText
  <1> QED BY <1>5 DEF Started, TypeOK

(* A session that exists keeps its attempt and keeps existing. *)
LEMMA SessionStays ==
  ASSUME TypeOK, [Next]_vars, NEW s \in Session, session[s].status # "none"
  PROVE  session'[s].status # "none" /\ session'[s].attempt = session[s].attempt
  <1>1. ASSUME NEW k, session' = Ended(k)
        PROVE  session'[s].status # "none" /\ session'[s].attempt = session[s].attempt
    BY <1>1 DEF Ended, TypeOK
  <1>2. ASSUME NEW r \in Request, CreateSession(r)
        PROVE  session'[s] = session[s]
    BY <1>2 DEF CreateSession, TypeOK
  <1>3. ASSUME NEW r \in Request,
               PutWork(r) \/ RollbackWork(r) \/ Persist(r) \/ InsertAttempt(r)
               \/ \E j \in Attempt : SaveDraft(r, j)
        PROVE  session' = session
    BY <1>3 DEF PutWork, RollbackWork, Persist, InsertAttempt, SaveDraft, coaching
  <1>4. session' = session \/ session'[s] = session[s] \/ \E k : session' = Ended(k)
    BY <1>2, <1>3, TableMoves DEF Quiet, SubmitText, Finalize
  <1> QED BY <1>1, <1>4

(* Work is handed in by Finalize only, a turn is recorded by Persist only. *)
LEMMA WorkMoves ==
  ASSUME [Next]_vars
  PROVE  \/ work' = work /\ (session' = session \/ \E r \in Request : CreateSession(r))
         \/ \E k \in Attempt : Finalize(k, NoWork) /\ UNCHANGED <<object, log, request>>
         \/ \E r \in Request :
              /\ request[r].pc = "finalize" /\ Done(r)
              /\ Finalize(request[r].attempt, request[r].work)
              /\ UNCHANGED <<object, log>>
  <1>1. ASSUME NEW r \in Request,
               \/ InsertAttempt(r) \/ PutWork(r) \/ RollbackWork(r) \/ Persist(r)
               \/ \E k \in Attempt : SaveDraft(r, k)
        PROVE  work' = work /\ session' = session
    BY <1>1 DEF InsertAttempt, PutWork, RollbackWork, Persist, SaveDraft, files, coaching
  <1>2. ASSUME NEW r \in Request, CreateSession(r)
        PROVE  work' = work
    BY <1>2 DEF CreateSession, files
  <1>3. ASSUME NEW r \in Request, FinalizeFile(r)
        PROVE  request[r].pc = "finalize" /\ UNCHANGED <<object, log>>
    BY <1>3 DEF FinalizeFile
  <1>4. ASSUME NEW r \in Request, NEW k \in Attempt, SubmitText(r, k)
        PROVE  Finalize(k, NoWork) /\ UNCHANGED <<object, log, request>>
    BY <1>4 DEF SubmitText
  <1> QED BY <1>1, <1>2, <1>3, <1>4, TableMoves DEF Quiet

LEMMA LogMoves ==
  ASSUME [Next]_vars
  PROVE  \/ log' = log
         \/ \E r \in Request :
              /\ request[r].pc = "reply" /\ attempt[request[r].attempt] = "open"
              /\ log' = [log EXCEPT ![request[r].session] = Append(@, request[r].turn)]
              /\ UNCHANGED <<attempt, draft, work, session>>
  <1>1. ASSUME NEW r \in Request,
               \/ InsertAttempt(r) \/ PutWork(r) \/ RollbackWork(r) \/ CreateSession(r)
               \/ FinalizeFile(r) \/ \E k \in Attempt : SaveDraft(r, k) \/ SubmitText(r, k)
        PROVE  log' = log
    BY <1>1 DEF InsertAttempt, PutWork, RollbackWork, CreateSession, FinalizeFile, SaveDraft,
                SubmitText, coaching
  <1>2. ASSUME NEW r \in Request, Persist(r), log' # log
        PROVE  /\ request[r].pc = "reply" /\ attempt[request[r].attempt] = "open"
               /\ log' = [log EXCEPT ![request[r].session] = Append(@, request[r].turn)]
               /\ UNCHANGED <<attempt, draft, work, session>>
    BY <1>2 DEF Persist, files
  <1> QED BY <1>1, <1>2, TableMoves DEF Quiet

LEMMA DraftMoves ==
  ASSUME [Next]_vars
  PROVE  \/ draft' = draft
         \/ \E k \in Attempt, t \in Text :
              attempt[k] = "open" /\ draft' = [draft EXCEPT ![k] = t]
  <1>1. ASSUME NEW r \in Request,
               \/ InsertAttempt(r) \/ PutWork(r) \/ RollbackWork(r) \/ CreateSession(r)
               \/ FinalizeFile(r) \/ Persist(r) \/ \E k \in Attempt : SubmitText(r, k)
        PROVE  draft' = draft
    BY <1>1 DEF InsertAttempt, PutWork, RollbackWork, CreateSession, FinalizeFile, Persist,
                SubmitText
  <1> QED BY <1>1, TableMoves DEF Quiet, SaveDraft

-----------------------------------------------------------------------------
(* The parts of the invariant that speak of requests. *)

LEMMA HoldStep ==
  ASSUME TypeOK, RequestsHold, [Next]_vars
  PROVE  RequestsHold'
  <1> SUFFICES ASSUME NEW q \in Request
        PROVE  /\ request'[q].pc = "again" => request'[q].try < 3
               /\ request'[q].pc \in Submitting => request'[q].work \in Work
               /\ request'[q].pc \in Coaching => request'[q].session \in Session
    BY DEF RequestsHold
  <1> DEFINE P == /\ request'[q].pc = "again" => request'[q].try < 3
                  /\ request'[q].pc \in Submitting => request'[q].work \in Work
                  /\ request'[q].pc \in Coaching => request'[q].session \in Session
  <1>0. request[q] \in RequestState /\ DOMAIN request = Request
    BY DEF TypeOK
  <1>1. CASE request'[q] = request[q]
    BY <1>1 DEF RequestsHold
  <1>2. ASSUME Done(q) PROVE P
    BY <1>0, <1>2 DEF Done, Becomes, Idle, Submitting, Coaching
  <1>3. ASSUME NEW s, Becomes(q, s), s.pc \notin {"again"} \cup Submitting \cup Coaching PROVE P
    BY <1>0, <1>3 DEF Becomes
  <1>4. CASE AskStart(q) \/ Again(q)
    BY <1>2, <1>3, <1>4 DEF AskStart, Again, Look, Idle, Submitting, Coaching
  <1>5. CASE Number(q)
    BY <1>0, <1>3, <1>5 DEF Number, RequestState, Submitting, Coaching
  <1>6. CASE InsertAttempt(q)
    <2>1. CASE Done(q)
      BY <1>2, <2>1
    <2>2. CASE request[q].try # 3 /\ Becomes(q, [Idle EXCEPT !.pc = "again", !.try = request[q].try])
      <3>1. request'[q].pc = "again" /\ request'[q].try = request[q].try
        BY <1>0, <2>2 DEF Becomes, Idle
      <3>2. request[q].try \in 0 .. 3
        BY <1>0 DEF RequestState
      <3> QED BY <2>2, <3>1, <3>2 DEF Submitting, Coaching
    <2> QED BY <1>6, <2>1, <2>2 DEF InsertAttempt, Done
  <1>7. CASE PutWork(q) \/ FinalizeFile(q)
    <2>1. request[q].work \in Work
      BY <1>7 DEF PutWork, FinalizeFile, RequestsHold, Submitting
    <2>2. ASSUME NEW pc \in Submitting, Becomes(q, [request[q] EXCEPT !.pc = pc]) PROVE P
      BY <1>0, <2>1, <2>2 DEF Becomes, RequestState, Submitting, Coaching
    <2> QED BY <1>2, <1>7, <2>2 DEF PutWork, FinalizeFile, Submitting
  <1>8. CASE RollbackWork(q) \/ Persist(q) \/ Fail(q)
    BY <1>2, <1>8 DEF RollbackWork, Persist, Fail
  <1>9. ASSUME NEW i \in Session, Found(q, i) PROVE P
    BY <1>0, <1>9 DEF Found, Becomes, RequestState, Submitting, Coaching
  <1>10. CASE FindSession(q) \/ CreateSession(q) \/ Refind(q)
    <2>1. ASSUME NEW pc \in {"create", "refind"}, Becomes(q, [request[q] EXCEPT !.pc = pc]) PROVE P
      BY <1>0, <2>1 DEF Becomes, RequestState, Submitting, Coaching
    <2> QED BY <1>2, <1>9, <1>10, <2>1 DEF FindSession, CreateSession, Refind, ActiveSessions
  <1>11. CASE ReadHistory(q)
    <2>1. request[q].session \in Session
      BY <1>11 DEF ReadHistory, RequestsHold, Coaching
    <2>2. request'[q].pc = "reply" /\ request'[q].session = request[q].session
      BY <1>0, <1>11 DEF ReadHistory, Becomes, RequestState
    <2> QED BY <2>1, <2>2 DEF Submitting, Coaching
  <1>12. CASE \E k \in Attempt : Ask(q, k)
    <2>1. ASSUME NEW k \in Attempt, NEW f \in Work,
                 Becomes(q, [Idle EXCEPT !.pc = "put", !.attempt = k, !.work = f])
          PROVE  P
      BY <1>0, <2>1 DEF Becomes, Idle, Submitting, Coaching
    <2>2. ASSUME NEW k \in Attempt, AskCoach(q, k) PROVE P
      BY <1>3, <2>2 DEF AskCoach, Idle, Submitting, Coaching
    <2>3. ASSUME NEW k \in Attempt, AskSubmitFile(q, k) PROVE P
      BY <2>1, <2>3 DEF AskSubmitFile
    <2>4. ASSUME NEW k \in Attempt, SaveDraft(q, k) \/ SubmitText(q, k) PROVE P
      BY <1>1, <2>4 DEF SaveDraft, SubmitText
    <2> QED BY <1>12, <2>2, <2>3, <2>4 DEF Ask
  <1> QED
    BY <1>1, <1>4, <1>5, <1>6, <1>7, <1>8, <1>10, <1>11, <1>12, OwnSteps DEF Step

LEMMA AttemptMoves ==
  ASSUME [Next]_vars
  PROVE  \/ attempt' = attempt
         \/ \E r \in Request :
              /\ request[r].pc = "insert"
              /\ OpenAttempts = {} /\ ~Started(request[r].attempt)
              /\ attempt' = [attempt EXCEPT ![request[r].attempt] = "open"]
              /\ session' = session /\ work' = work
         \/ \E k : attempt[k] = "open" /\ attempt' = [attempt EXCEPT ![k] = "submitted"]
  <1>1. ASSUME NEW r \in Request,
               PutWork(r) \/ RollbackWork(r) \/ Persist(r) \/ CreateSession(r)
               \/ \E j \in Attempt : SaveDraft(r, j)
        PROVE  attempt' = attempt
    BY <1>1 DEF PutWork, RollbackWork, Persist, CreateSession, SaveDraft
  <1>2. ASSUME NEW r \in Request, InsertAttempt(r), attempt' # attempt
        PROVE  /\ request[r].pc = "insert"
               /\ OpenAttempts = {} /\ ~Started(request[r].attempt)
               /\ attempt' = [attempt EXCEPT ![request[r].attempt] = "open"]
               /\ session' = session /\ work' = work
    BY <1>2 DEF InsertAttempt, coaching, files
  <1>3. ASSUME NEW k, NEW f, Finalize(k, f)
        PROVE  attempt[k] = "open" /\ attempt' = [attempt EXCEPT ![k] = "submitted"]
    BY <1>3 DEF Finalize
  <1> QED BY <1>1, <1>2, <1>3, TableMoves DEF Quiet, SubmitText

(* Where a request's own step leaves it. *)
LEMMA LeavesAt ==
  ASSUME TypeOK, [Next]_vars, NEW q \in Request
  PROVE  \/ request'[q] = request[q]
         \/ request'[q].pc \notin {"insert"} \cup Submitting \cup Coaching
         \/ Number(q) /\ request'[q].pc = "insert"
         \/ request'[q].pc = "put" /\ \E k \in Attempt : AskSubmitFile(q, k)
         \/ request'[q].pc = "finalize" /\ PutWork(q)
         \/ request'[q].pc = "rollback" /\ FinalizeFile(q)
         \/ /\ request'[q].pc = "history"
            /\ \/ FindSession(q) \/ Refind(q)
               \/ CreateSession(q) /\ session' # session
         \/ request'[q].pc = "reply" /\ ReadHistory(q)
  <1> DEFINE Elsewhere == request'[q].pc \notin {"insert"} \cup Submitting \cup Coaching
  <1>0. request[q] \in RequestState /\ DOMAIN request = Request
    BY DEF TypeOK
  <1>1. ASSUME NEW s, Becomes(q, s) PROVE request'[q] = s
    BY <1>0, <1>1 DEF Becomes
  <1>2. ASSUME Done(q) PROVE Elsewhere
    <2>1. request'[q].pc = "idle"
      BY <1>1, <1>2 DEF Done, Idle
    <2> QED BY <2>1 DEF Submitting, Coaching
  <1>3. ASSUME NEW n, Becomes(q, [Idle EXCEPT !.pc = "number", !.try = n])
        PROVE  Elsewhere
    <2>1. request'[q].pc = "number"
      BY <1>1, <1>3 DEF Idle
    <2> QED BY <2>1 DEF Submitting, Coaching
  <1>4. ASSUME NEW n, Becomes(q, [Idle EXCEPT !.pc = "again", !.try = n])
        PROVE  Elsewhere
    <2>1. request'[q].pc = "again"
      BY <1>1, <1>4 DEF Idle
    <2> QED BY <2>1 DEF Submitting, Coaching
  <1>5. ASSUME NEW pc, Becomes(q, [request[q] EXCEPT !.pc = pc])
        PROVE  request'[q].pc = pc
    BY <1>0, <1>1, <1>5 DEF RequestState
  <1>6. ASSUME NEW i, Found(q, i) PROVE request'[q].pc = "history"
    BY <1>0, <1>6 DEF Found, Becomes, RequestState
  <1>7. CASE AskStart(q) \/ Again(q)
    BY <1>2, <1>3, <1>7 DEF AskStart, Again, Look
  <1>8. CASE Number(q)
    <2>1. request'[q].pc = "insert"
      BY <1>0, <1>8 DEF Number, Becomes, RequestState
    <2> QED BY <1>8, <2>1
  <1>9. CASE InsertAttempt(q)
    <2>1. Done(q) \/ Becomes(q, [Idle EXCEPT !.pc = "again", !.try = request[q].try])
      BY <1>9 DEF InsertAttempt, Done
    <2> QED BY <1>2, <1>4, <2>1
  <1>10. CASE PutWork(q)
    BY <1>5, <1>10 DEF PutWork
  <1>11. CASE FinalizeFile(q)
    BY <1>2, <1>5, <1>11 DEF FinalizeFile
  <1>12. CASE RollbackWork(q) \/ Persist(q) \/ Fail(q)
    BY <1>2, <1>12 DEF RollbackWork, Persist, Fail
  <1>13. ASSUME NEW pc \in {"create", "refind"}, Becomes(q, [request[q] EXCEPT !.pc = pc])
         PROVE  Elsewhere
    BY <1>5, <1>13 DEF Submitting, Coaching
  <1>14. CASE FindSession(q)
    BY <1>6, <1>13, <1>14 DEF FindSession
  <1>15. CASE Refind(q)
    BY <1>2, <1>6, <1>15 DEF Refind
  <1>16. CASE CreateSession(q)
    <2>1. CASE Becomes(q, [request[q] EXCEPT !.pc = "refind"])
      BY <1>13, <2>1
    <2>2. CASE \E i \in Session :
                 /\ session[i].status = "none"
                 /\ session' = [session EXCEPT
                      ![i] = [attempt |-> request[q].attempt, status |-> "ACTIVE"]]
                 /\ Found(q, i)
      <3>1. request'[q].pc = "history"
        BY <1>6, <2>2
      <3>2. session' # session
        BY <2>2 DEF TypeOK
      <3> QED BY <1>16, <3>1, <3>2
    <2> QED BY <1>16, <2>1, <2>2 DEF CreateSession
  <1>17. CASE ReadHistory(q)
    <2>1. request'[q].pc = "reply"
      BY <1>0, <1>17 DEF ReadHistory, Becomes, RequestState
    <2> QED BY <1>17, <2>1
  <1>18. ASSUME NEW k \in Attempt, SaveDraft(q, k) \/ SubmitText(q, k)
         PROVE  request'[q] = request[q]
    BY <1>18 DEF SaveDraft, SubmitText
  <1>19. ASSUME NEW k \in Attempt, AskSubmitFile(q, k) PROVE request'[q].pc = "put"
    <2>1. PICK f \in Work : Becomes(q, [Idle EXCEPT !.pc = "put", !.attempt = k, !.work = f])
      BY <1>19 DEF AskSubmitFile
    <2> QED BY <1>1, <2>1 DEF Idle
  <1>20. ASSUME NEW k \in Attempt, AskCoach(q, k) PROVE Elsewhere
    <2>1. request'[q].pc = "find"
      BY <1>1, <1>20 DEF AskCoach, Idle
    <2> QED BY <2>1 DEF Submitting, Coaching
  <1> QED
    BY <1>7, <1>8, <1>9, <1>10, <1>11, <1>12, <1>14, <1>15, <1>16, <1>17, <1>18, <1>19,
       <1>20, OwnSteps DEF Step, Ask

LEMMA NumbersStep ==
  ASSUME TypeOK, NumbersFollow, [Next]_vars
  PROVE  NumbersFollow'
  <1> SUFFICES ASSUME NEW q \in Request, request'[q].pc = "insert",
                      NEW j \in Attempt, j < request'[q].attempt
               PROVE  Started(j)'
    BY DEF NumbersFollow
  <1>1. CASE request'[q] = request[q]
    BY <1>1, AttemptStays DEF NumbersFollow
  <1>2. CASE Number(q)
    <2>1. PICK k \in Attempt :
            /\ \A i \in Attempt : Started(i) <=> i < k
            /\ Becomes(q, [request[q] EXCEPT !.pc = "insert", !.attempt = k])
      BY <1>2 DEF Number
    <2>2. request'[q].attempt = k
      BY <2>1 DEF Becomes, TypeOK, RequestState
    <2> QED BY <2>1, <2>2, AttemptStays
  <1> QED BY <1>1, <1>2, LeavesAt

LEMMA TurnsStep ==
  ASSUME TypeOK, RequestsHold, TurnsBelong, [Next]_vars
  PROVE  TurnsBelong'
  <1> SUFFICES ASSUME NEW q \in Request, request'[q].pc \in Coaching
               PROVE  /\ session'[request'[q].session].attempt = request'[q].attempt
                      /\ session'[request'[q].session].status # "none"
    BY DEF TurnsBelong
  <1>0. request[q] \in RequestState /\ DOMAIN request = Request
    BY DEF TypeOK
  <1>1. ASSUME request[q].pc \in Coaching,
               request'[q].session = request[q].session, request'[q].attempt = request[q].attempt
        PROVE  /\ session'[request'[q].session].attempt = request'[q].attempt
               /\ session'[request'[q].session].status # "none"
    <2>1. request[q].session \in Session
      BY <1>1 DEF RequestsHold
    <2> QED BY <1>1, <2>1, SessionStays DEF TurnsBelong
  <1>2. CASE request'[q] = request[q]
    BY <1>1, <1>2
  <1>3. ASSUME NEW i \in Session, Found(q, i)
        PROVE  request'[q].session = i /\ request'[q].attempt = request[q].attempt
    BY <1>0, <1>3 DEF Found, Becomes, RequestState
  <1>4. CASE request'[q].pc = "history" /\ (FindSession(q) \/ Refind(q))
    <2>0. ~Done(q) /\ ~Becomes(q, [request[q] EXCEPT !.pc = "create"])
      <3>1. ASSUME NEW s, Becomes(q, s) PROVE s.pc = "history"
        BY <1>0, <1>4, <3>1 DEF Becomes
      <3>2. Idle.pc # "history"
        BY DEF Idle
      <3>3. [request[q] EXCEPT !.pc = "create"].pc # "history"
        BY <1>0 DEF RequestState
      <3> QED BY <3>1, <3>2, <3>3 DEF Done
    <2>1. PICK i \in ActiveSessions(request[q].attempt) : Found(q, i)
      BY <1>4, <2>0 DEF FindSession, Refind
    <2>2. session' = session
      BY <1>4 DEF FindSession, Refind, coaching
    <2> QED BY <1>3, <2>1, <2>2 DEF ActiveSessions
  <1>5. CASE CreateSession(q) /\ session' # session
    <2>1. PICK i \in Session :
            /\ session' = [session EXCEPT ![i] = [attempt |-> request[q].attempt, status |-> "ACTIVE"]]
            /\ Found(q, i)
      BY <1>5 DEF CreateSession
    <2> QED BY <1>3, <2>1 DEF TypeOK
  <1>6. CASE ReadHistory(q)
    <2>1. request'[q].session = request[q].session /\ request'[q].attempt = request[q].attempt
      BY <1>0, <1>6 DEF ReadHistory, Becomes, RequestState
    <2> QED BY <1>1, <1>6, <2>1 DEF ReadHistory, Coaching
  <1>7. "insert" \notin Coaching /\ \A pc \in Submitting : pc \notin Coaching
    BY DEF Coaching, Submitting
  <1> QED BY <1>2, <1>4, <1>5, <1>6, <1>7, LeavesAt DEF Submitting

LEMMA ObjectMoves ==
  ASSUME [Next]_vars
  PROVE  \/ object \subseteq object'
         \/ \E r \in Request :
              /\ request[r].pc = "rollback"
              /\ object' = object \ {request[r].work}
              /\ work' = work /\ attempt' = attempt
  <1>1. ASSUME NEW r \in Request,
               \/ InsertAttempt(r) \/ PutWork(r) \/ Persist(r) \/ CreateSession(r)
               \/ FinalizeFile(r) \/ \E k \in Attempt : SaveDraft(r, k) \/ SubmitText(r, k)
        PROVE  object \subseteq object'
    BY <1>1 DEF InsertAttempt, PutWork, Persist, CreateSession, FinalizeFile, SaveDraft,
                SubmitText, files
  <1> QED BY <1>1, TableMoves DEF Quiet, RollbackWork

(* The file of a request is the one it had, or a new one. *)
LEMMA FileClaims ==
  ASSUME TypeOK, [Next]_vars, NEW q \in Request, request'[q].pc \in Submitting
  PROVE  \/ /\ request[q].pc \in Submitting /\ request'[q].work = request[q].work
            /\ request'[q].pc = "finalize" =>
                 request[q].pc = "finalize" \/ request[q].work \in object'
         \/ /\ request'[q].pc = "put" /\ FreshWork(request'[q].work) /\ work' = work
            /\ \A r \in Request : r # q => request'[r] = request[r]
  <1>0. request[q] \in RequestState /\ DOMAIN request = Request
    BY DEF TypeOK
  <1>1. CASE request'[q] = request[q]
    BY <1>1
  <1>2. CASE \E k \in Attempt : AskSubmitFile(q, k)
    <2>1. PICK k \in Attempt, f \in Work :
            /\ FreshWork(f) /\ work' = work
            /\ Becomes(q, [Idle EXCEPT !.pc = "put", !.attempt = k, !.work = f])
      BY <1>2 DEF AskSubmitFile, files
    <2>2. request'[q].pc = "put" /\ request'[q].work = f
      BY <1>0, <2>1 DEF Becomes, Idle
    <2>3. \A r \in Request : r # q => request'[r] = request[r]
      BY <1>0, <2>1 DEF Becomes
    <2> QED BY <2>1, <2>2, <2>3
  <1>3. CASE request'[q].pc = "finalize" /\ PutWork(q)
    <2>1. request[q].pc \in Submitting /\ request[q].work \in object'
      BY <1>3 DEF PutWork, Submitting
    <2>2. request'[q].work = request[q].work
      BY <1>0, <1>3 DEF PutWork, Becomes, RequestState
    <2> QED BY <2>1, <2>2
  <1>4. CASE request'[q].pc = "rollback" /\ FinalizeFile(q)
    <2>1. request[q].pc \in Submitting /\ ~Done(q)
      BY <1>0, <1>4 DEF FinalizeFile, Submitting, Done, Becomes, Idle
    <2>2. Becomes(q, [request[q] EXCEPT !.pc = "rollback"])
      BY <1>4, <2>1 DEF FinalizeFile
    <2>3. request'[q].work = request[q].work
      BY <1>0, <2>2 DEF Becomes, RequestState
    <2> QED BY <1>4, <2>1, <2>3
  <1> QED BY <1>1, <1>2, <1>3, <1>4, LeavesAt DEF Submitting

LEMMA FilesStep ==
  ASSUME TypeOK, RequestsHold, FilesOwned, [Next]_vars
  PROVE  FilesOwned'
  <1> SUFFICES ASSUME NEW q \in Request, request'[q].pc \in Submitting
               PROVE  /\ \A k \in Attempt : work'[k] # request'[q].work
                      /\ request'[q].pc = "finalize" => request'[q].work \in object'
                      /\ \A r \in Request :
                           request'[r].pc \in Submitting /\ request'[r].work = request'[q].work
                           => r = q
    BY DEF FilesOwned
  <1> DEFINE Old(r) == request[r].pc \in Submitting /\ request'[r].work = request[r].work
             New(r) == /\ request'[r].pc = "put" /\ FreshWork(request'[r].work) /\ work' = work
                       /\ \A p \in Request : p # r => request'[p] = request[p]
  <1>1. \A r \in Request : request'[r].pc \in Submitting => Old(r) \/ New(r)
    BY FileClaims
  <1>2. ASSUME Old(q) PROVE \A k \in Attempt : work'[k] # request'[q].work
    <2>1. request[q].work \in Work /\ \A k \in Attempt : work[k] # request[q].work
      BY <1>2 DEF RequestsHold, FilesOwned
    <2>2. CASE work' = work
      BY <1>2, <2>1, <2>2
    <2>3. ASSUME NEW j, Finalize(j, NoWork) PROVE \A k \in Attempt : work'[k] # request[q].work
      BY <2>1, <2>3, CourseworkAssumption DEF Finalize, TypeOK
    <2>4. ASSUME NEW r \in Request, request[r].pc = "finalize", Done(r),
                 Finalize(request[r].attempt, request[r].work)
          PROVE  \A k \in Attempt : work'[k] # request[q].work
      <3>1. request'[r].pc = "idle"
        BY <2>4 DEF Done, Becomes, Idle, TypeOK
      <3>2. r # q
        BY <3>1 DEF Submitting
      <3>3. request[r].work # request[q].work
        BY <1>2, <2>4, <3>2 DEF FilesOwned, Submitting
      <3> QED BY <2>1, <2>4, <3>3 DEF Finalize, TypeOK
    <2> QED BY <1>2, <2>2, <2>3, <2>4, WorkMoves
  <1>3. ASSUME New(q) PROVE \A k \in Attempt : work'[k] # request'[q].work
    BY <1>3 DEF FreshWork
  <1>4. ASSUME request'[q].pc = "finalize" PROVE request'[q].work \in object'
    <2>1. Old(q) /\ (request[q].pc = "finalize" \/ request[q].work \in object')
      BY <1>4, FileClaims DEF Submitting
    <2>2. CASE request[q].pc = "finalize"
      <3>1. request[q].work \in object
        BY <2>2 DEF FilesOwned, Submitting
      <3>2. ASSUME NEW r \in Request, request[r].pc = "rollback"
            PROVE  request[r].work # request[q].work
        BY <2>2, <3>2 DEF FilesOwned, Submitting
      <3> QED BY <2>1, <3>1, <3>2, ObjectMoves
    <2> QED BY <2>1, <2>2
  <1>5. ASSUME NEW r \in Request, request'[r].pc \in Submitting,
               request'[r].work = request'[q].work
        PROVE  r = q
    <2>1. CASE Old(q) /\ Old(r)
      BY <1>5, <2>1 DEF FilesOwned
    <2>2. CASE New(q) /\ r # q
      BY <1>5, <2>2 DEF FreshWork
    <2>3. CASE New(r) /\ r # q
      BY <1>5, <2>3 DEF FreshWork
    <2> QED BY <1>1, <1>5, <2>1, <2>2, <2>3
  <1> QED BY <1>1, <1>2, <1>3, <1>4, <1>5

-----------------------------------------------------------------------------
(* The parts of the invariant that speak of the tables. *)

LEMMA OrderStep ==
  ASSUME TypeOK, NumbersFollow, AttemptsInOrder, [Next]_vars
  PROVE  AttemptsInOrder'
  <1> SUFFICES ASSUME NEW j \in Attempt, NEW k \in Attempt, Started(k)', j < k
               PROVE  attempt'[j] = "submitted"
    BY DEF AttemptsInOrder
  <1>1. CASE Started(k)
    BY <1>1, AttemptStays DEF AttemptsInOrder
  <1>2. CASE ~Started(k)
    <2>1. PICK r \in Request :
            /\ request[r].pc = "insert"
            /\ OpenAttempts = {}
            /\ attempt' = [attempt EXCEPT ![request[r].attempt] = "open"]
      BY <1>2, AttemptMoves DEF Started, TypeOK
    <2>2. k = request[r].attempt
      BY <1>2, <2>1 DEF Started, TypeOK
    <2>3. Started(j)
      BY <2>1, <2>2 DEF NumbersFollow
    <2>4. attempt[j] = "submitted"
      BY <2>1, <2>3 DEF OpenAttempts, Started, TypeOK
    <2> QED BY <2>4, AttemptStays
  <1> QED BY <1>1, <1>2

(* How the attempts, their sessions and the turns change together. *)
LEMMA CoachMoves ==
  ASSUME [Next]_vars
  PROVE  \/ UNCHANGED <<attempt, session, log>>
         \/ \E r \in Request :
              /\ ~Started(request[r].attempt)
              /\ attempt' = [attempt EXCEPT ![request[r].attempt] = "open"]
              /\ UNCHANGED <<session, log>>
         \/ \E k : /\ attempt' = [attempt EXCEPT ![k] = "submitted"]
                   /\ session' = Ended(k) /\ log' = log
         \/ \E r \in Request, s \in Session :
              /\ ActiveSessions(request[r].attempt) = {} /\ session[s].status = "none"
              /\ session' = [session EXCEPT
                   ![s] = [attempt |-> request[r].attempt, status |-> "ACTIVE"]]
              /\ UNCHANGED <<attempt, log>>
         \/ \E r \in Request :
              /\ request[r].pc = "reply" /\ attempt[request[r].attempt] = "open"
              /\ log' = [log EXCEPT ![request[r].session] = Append(@, request[r].turn)]
              /\ UNCHANGED <<attempt, session>>
  <1>1. ASSUME NEW r \in Request, InsertAttempt(r), ~Quiet
        PROVE  /\ ~Started(request[r].attempt)
               /\ attempt' = [attempt EXCEPT ![request[r].attempt] = "open"]
               /\ UNCHANGED <<session, log>>
    BY <1>1 DEF InsertAttempt, Quiet, files, coaching
  <1>2. ASSUME NEW r \in Request,
               PutWork(r) \/ RollbackWork(r) \/ \E k \in Attempt : SaveDraft(r, k)
        PROVE  UNCHANGED <<attempt, session, log>>
    BY <1>2 DEF PutWork, RollbackWork, SaveDraft, coaching
  <1>3. ASSUME NEW r \in Request, NEW k \in Attempt, SubmitText(r, k)
        PROVE  Finalize(k, NoWork) /\ log' = log
    BY <1>3 DEF SubmitText
  <1>4. ASSUME NEW r \in Request, FinalizeFile(r)
        PROVE  log' = log
    BY <1>4 DEF FinalizeFile
  <1>5. ASSUME NEW k, NEW f, Finalize(k, f)
        PROVE  attempt' = [attempt EXCEPT ![k] = "submitted"] /\ session' = Ended(k)
    BY <1>5 DEF Finalize
  <1>6. ASSUME NEW r \in Request, CreateSession(r), ~Quiet
        PROVE  \E s \in Session :
                 /\ ActiveSessions(request[r].attempt) = {} /\ session[s].status = "none"
                 /\ session' = [session EXCEPT
                      ![s] = [attempt |-> request[r].attempt, status |-> "ACTIVE"]]
                 /\ UNCHANGED <<attempt, log>>
    BY <1>6 DEF CreateSession, Quiet, files
  <1>7. ASSUME NEW r \in Request, Persist(r)
        PROVE  \/ UNCHANGED <<attempt, session, log>>
               \/ /\ request[r].pc = "reply" /\ attempt[request[r].attempt] = "open"
                  /\ log' = [log EXCEPT ![request[r].session] = Append(@, request[r].turn)]
                  /\ UNCHANGED <<attempt, session>>
    BY <1>7 DEF Persist
  <1>8. CASE Quiet
    BY <1>8 DEF Quiet
  <1>9. ASSUME NEW r \in Request,
               FinalizeFile(r) /\ Finalize(request[r].attempt, request[r].work)
        PROVE  \E k : /\ attempt' = [attempt EXCEPT ![k] = "submitted"]
                      /\ session' = Ended(k) /\ log' = log
    BY <1>4, <1>5, <1>9
  <1>10. ASSUME NEW r \in Request, NEW k \in Attempt, SubmitText(r, k)
         PROVE  \E j : /\ attempt' = [attempt EXCEPT ![j] = "submitted"]
                       /\ session' = Ended(j) /\ log' = log
    BY <1>3, <1>5, <1>10
  <1> QED BY <1>1, <1>2, <1>6, <1>7, <1>8, <1>9, <1>10, TableMoves

LEMMA NoTurnsStep ==
  ASSUME TypeOK, RequestsHold, TurnsBelong, NoTurnsBefore, [Next]_vars
  PROVE  NoTurnsBefore'
  <1> SUFFICES ASSUME NEW s \in Session, session'[s].status = "none"
               PROVE  log'[s] = <<>>
    BY DEF NoTurnsBefore
  <1>1. session[s].status = "none" /\ log[s] = <<>>
    BY SessionStays DEF NoTurnsBefore
  <1>2. ASSUME NEW r \in Request, request[r].pc = "reply"
        PROVE  request[r].session # s
    BY <1>1, <1>2 DEF TurnsBelong, Coaching
  <1> QED BY <1>1, <1>2, LogMoves DEF TypeOK

LEMMA SessionsStep ==
  ASSUME TypeOK, RequestsHold, TurnsBelong, NoTurnsBefore, SessionsFollowAttempts, [Next]_vars
  PROVE  SessionsFollowAttempts'
  <1> DEFINE
        One(se) == \A s, t \in Session :
                     /\ se[s].status = "ACTIVE" /\ se[t].status = "ACTIVE"
                     /\ se[s].attempt = se[t].attempt
                     => s = t
        Follow(at, se, lo) ==
          \A s \in Session : \A k \in Attempt :
            se[s].attempt = k =>
              /\ se[s].status = "ENDED" => at[k] = "submitted"
              /\ se[s].status = "ACTIVE" /\ at[k] = "submitted" => lo[s] = <<>>
  <1>0. One(session) /\ Follow(attempt, session, log)
    BY DEF SessionsFollowAttempts
  <1>1. CASE UNCHANGED <<attempt, session, log>>
    BY <1>0, <1>1 DEF SessionsFollowAttempts
  <1>2. ASSUME NEW r \in Request, ~Started(request[r].attempt),
               attempt' = [attempt EXCEPT ![request[r].attempt] = "open"],
               UNCHANGED <<session, log>>
        PROVE  One(session') /\ Follow(attempt', session', log')
    BY <1>0, <1>2 DEF Started, TypeOK
  <1>3. ASSUME NEW j, attempt' = [attempt EXCEPT ![j] = "submitted"],
               session' = Ended(j), log' = log
        PROVE  One(session') /\ Follow(attempt', session', log')
    <2>1. ASSUME NEW s \in Session
          PROVE  /\ session'[s].attempt = session[s].attempt
                 /\ session'[s].status = "ACTIVE" =>
                      session[s].status = "ACTIVE" /\ session[s].attempt # j
                 /\ session'[s].status = "ENDED" =>
                      session[s].status = "ENDED" \/ session[s].attempt = j
      BY <1>3 DEF Ended, ActiveSessions, TypeOK
    <2>2. ASSUME NEW k \in Attempt
          PROVE  /\ k = j => attempt'[k] = "submitted"
                 /\ k # j => attempt'[k] = attempt[k]
                 /\ attempt[k] = "submitted" => attempt'[k] = "submitted"
      BY <1>3 DEF TypeOK
    <2>3. One(session')
      BY <1>0, <2>1
    <2>4. Follow(attempt', session', log')
      BY <1>0, <1>3, <2>1, <2>2
    <2> QED BY <2>3, <2>4
  <1>4. ASSUME NEW r \in Request, NEW i \in Session,
               ActiveSessions(request[r].attempt) = {}, session[i].status = "none",
               session' = [session EXCEPT
                 ![i] = [attempt |-> request[r].attempt, status |-> "ACTIVE"]],
               UNCHANGED <<attempt, log>>
        PROVE  One(session') /\ Follow(attempt', session', log')
    <2>1. /\ session'[i].attempt = request[r].attempt /\ session'[i].status = "ACTIVE"
          /\ \A s \in Session : s # i => session'[s] = session[s]
      BY <1>4 DEF TypeOK
    <2>2. \A s \in Session :
            session[s].status = "ACTIVE" => session[s].attempt # request[r].attempt
      BY <1>4 DEF ActiveSessions
    <2>3. One(session')
      BY <1>0, <2>1, <2>2
    <2>4. log[i] = <<>>
      BY <1>4 DEF NoTurnsBefore
    <2>5. Follow(attempt', session', log')
      BY <1>0, <1>4, <2>1, <2>4
    <2> QED BY <2>3, <2>5
  <1>5. ASSUME NEW r \in Request,
               request[r].pc = "reply", attempt[request[r].attempt] = "open",
               log' = [log EXCEPT ![request[r].session] = Append(@, request[r].turn)],
               UNCHANGED <<attempt, session>>
        PROVE  One(session') /\ Follow(attempt', session', log')
    <2>1. session[request[r].session].attempt = request[r].attempt
      BY <1>5 DEF TurnsBelong, Coaching
    <2>2. \A s \in Session : s # request[r].session => log'[s] = log[s]
      BY <1>5 DEF TypeOK
    <2>3. Follow(attempt', session', log')
      BY <1>0, <1>5, <2>1, <2>2
    <2> QED BY <1>0, <1>5, <2>3
  <1> QED BY <1>1, <1>2, <1>3, <1>4, <1>5, CoachMoves DEF SessionsFollowAttempts

LEMMA WorkStep ==
  ASSUME TypeOK, RequestsHold, FilesOwned, WorkKept, [Next]_vars
  PROVE  WorkKept'
  <1> SUFFICES ASSUME NEW k \in Attempt, work'[k] # NoWork
               PROVE  /\ attempt'[k] = "submitted" /\ work'[k] \in object'
                      /\ \A j \in Attempt : work'[j] = work'[k] => j = k
    BY DEF WorkKept
  <1>1. CASE work' = work
    <2>1. /\ attempt[k] = "submitted" /\ work[k] \in object
          /\ \A j \in Attempt : work[j] = work[k] => j = k
      BY <1>1 DEF WorkKept
    <2>2. work[k] \in object'
      <3>1. ASSUME NEW r \in Request, request[r].pc = "rollback" PROVE work[k] # request[r].work
        BY <3>1 DEF FilesOwned, Submitting
      <3> QED BY <2>1, <3>1, ObjectMoves
    <2> QED BY <1>1, <2>1, <2>2, AttemptStays
  <1>2. ASSUME NEW i, NEW f \in Work \cup {NoWork}, Finalize(i, f), object' = object,
               f # NoWork => f \in object /\ \A j \in Attempt : work[j] # f
        PROVE  /\ attempt'[k] = "submitted" /\ work'[k] \in object'
               /\ \A j \in Attempt : work'[j] = work'[k] => j = k
    <2>1. \A j \in Attempt :
            /\ j = i => work'[j] = f /\ attempt'[j] = "submitted"
            /\ j # i => work'[j] = work[j]
      BY <1>2 DEF Finalize, TypeOK
    <2> QED BY <1>2, <2>1, AttemptStays DEF WorkKept
  <1>3. ASSUME NEW r \in Request, request[r].pc = "finalize"
        PROVE  /\ request[r].work \in Work /\ request[r].work \in object
               /\ \A j \in Attempt : work[j] # request[r].work
    BY <1>3 DEF RequestsHold, FilesOwned, Submitting
  <1> QED BY <1>1, <1>2, <1>3, WorkMoves

LEMMA CourseworkStep == CourseworkInv /\ [Next]_vars => CourseworkInv'
  BY TypeStep, HoldStep, NumbersStep, TurnsStep, NoTurnsStep, FilesStep, OrderStep,
     SessionsStep, WorkStep DEF CourseworkInv

-----------------------------------------------------------------------------
(* Theorems. *)

THEOREM CourseworkInvariant == Spec => []CourseworkInv
  BY InitCoursework, CourseworkStep, PTL DEF Spec

(* Every reachable state has the types that the tables and the requests    *)
(* are declared with.                                                      *)
THEOREM CourseworkTypes == Spec => []TypeOK
  <1>1. CourseworkInv => TypeOK
    BY DEF CourseworkInv
  <1> QED BY <1>1, CourseworkInvariant, PTL

(* start_attempt opens an attempt only when all earlier ones are submitted, *)
(* for any number of tabs that ask at once and any number of tries.         *)
THEOREM AttemptsAreInOrder == Spec => []AttemptsInOrder
  <1>1. CourseworkInv => AttemptsInOrder
    BY DEF CourseworkInv
  <1> QED BY <1>1, CourseworkInvariant, PTL

(* _active_session and _finalize: one ACTIVE session for an attempt at      *)
(* most, ended with it, unless it was opened too late and holds no turn.    *)
THEOREM SessionsAreOfTheirAttempt == Spec => []SessionsFollowAttempts
  <1>1. CourseworkInv => SessionsFollowAttempts
    BY DEF CourseworkInv
  <1> QED BY <1>1, CourseworkInvariant, PTL

(* submit_file: whatever requests fail and are cleaned up after, the file   *)
(* of a submission is in storage and is no other submission's.              *)
THEOREM WorkIsKept == Spec => []WorkKept
  <1>1. CourseworkInv => WorkKept
    BY DEF CourseworkInv
  <1> QED BY <1>1, CourseworkInvariant, PTL

(* No step changes the draft, the file or a transcript of an attempt that   *)
(* is submitted: late saves, uploads and replies are refused or dropped.    *)
THEOREM SubmittedStays == Spec => SubmittedIsFrozen
  <1> DEFINE
        Frozen(k) == attempt[k] = "submitted" =>
          /\ attempt'[k] = "submitted"
          /\ draft'[k] = draft[k] /\ work'[k] = work[k]
          /\ \A s \in Session : session[s].attempt = k => log'[s] = log[s]
  <1>1. ASSUME CourseworkInv, [Next]_vars, NEW k \in Attempt PROVE Frozen(k)
    <2> SUFFICES ASSUME attempt[k] = "submitted"
                 PROVE  /\ attempt'[k] = "submitted"
                        /\ draft'[k] = draft[k] /\ work'[k] = work[k]
                        /\ \A s \in Session : session[s].attempt = k => log'[s] = log[s]
      OBVIOUS
    <2>0. TypeOK /\ TurnsBelong
      BY <1>1 DEF CourseworkInv
    <2>1. attempt'[k] = "submitted"
      BY <1>1, <2>0, AttemptStays
    <2>2. draft'[k] = draft[k]
      BY <1>1, <2>0, DraftMoves DEF TypeOK
    <2>3. work'[k] = work[k]
      <3>1. ASSUME NEW i, NEW f, Finalize(i, f) PROVE work'[k] = work[k]
        BY <2>0, <3>1 DEF Finalize, TypeOK
      <3> QED BY <1>1, <3>1, WorkMoves
    <2>4. ASSUME NEW s \in Session, session[s].attempt = k PROVE log'[s] = log[s]
      <3>1. ASSUME NEW r \in Request, request[r].pc = "reply",
                   attempt[request[r].attempt] = "open"
            PROVE  request[r].session # s
        BY <2>0, <2>4, <3>1 DEF TurnsBelong, Coaching
      <3> QED BY <1>1, <2>0, <3>1, LogMoves DEF TypeOK
    <2> QED BY <2>1, <2>2, <2>3, <2>4
  <1>2. CourseworkInv /\ [Next]_vars => [\A k \in Attempt : Frozen(k)]_vars
    BY <1>1
  <1>3. Spec => [][\A k \in Attempt : Frozen(k)]_vars
    BY <1>2, CourseworkInvariant, PTL DEF Spec
  <1> QED BY <1>3 DEF SubmittedIsFrozen
=============================================================================
