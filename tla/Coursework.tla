----------------------------- MODULE Coursework -----------------------------
(***************************************************************************)
(* One student's work on one assignment: the attempts, the coaching        *)
(* sessions and their turns, the submissions, and what the instructor does *)
(* to the assignment and to the student's enrolment meanwhile.             *)
(*                                                                         *)
(* The student has several requests in flight (tabs, double clicks).       *)
(* Transactions run at READ COMMITTED: each statement reads what is        *)
(* committed when it starts, and a step below is a statement, or several   *)
(* that no other transaction can come between because of the row locks the *)
(* first of them takes.  While the Coach replies no transaction is open.   *)
(***************************************************************************)
EXTENDS Naturals, Sequences, FiniteSets

CONSTANTS
    Request,      \* request threads
    Session,      \* ids ai_sessions can get
    Work,         \* ids stored_files can get for submitted files
    Text,         \* drafts the student may save
    Asks,         \* what the student asks for
    Moves,        \* what the instructor does
    MaxAttempts,  \* bound: attempts made
    MaxTurns,     \* bound: no turn is asked for in a session that has these
    NoWork,
    NoText,
    NoSession

VARIABLES
    assignment,  \* assignments.status
    enrolled,    \* the student's enrolment is active
    attempt,     \* attempts, by attempt_number
    draft,       \* attempts.draft_text
    work,        \* the file of an attempt's submission
    object,      \* submitted files in object storage
    session,     \* ai_sessions: status and the attempt they belong to
    log,         \* the turns recorded in a session
    request      \* local state of the request threads

vars == <<assignment, enrolled, attempt, draft, work, object, session, log, request>>

StudentAsks == {"start", "coach", "draft", "text", "file"}
InstructorMoves == {"publish", "unpublish", "archive", "enrolment"}

ASSUME CourseworkAssumption ==
    /\ MaxAttempts \in Nat \ {0}
    /\ MaxTurns \in Nat
    /\ Asks \subseteq StudentAsks
    /\ Moves \subseteq InstructorMoves
    /\ NoWork \notin Work
    /\ NoText \notin Text
    /\ NoSession \notin Session

Attempt == 1 .. MaxAttempts

(* What a turn was made from: the turn_index and how many earlier turns the *)
(* history held that were handed to the Coach.                              *)
Turn == [index : Nat, history : Nat]

RequestPC == {"idle", "number", "insert", "again", "find", "create", "refind",
              "history", "reply", "put", "finalize", "rollback"}

RequestState ==
    [pc : RequestPC, attempt : 0 .. MaxAttempts, try : 0 .. 3,
     session : Session \cup {NoSession}, turn : Turn, work : Work \cup {NoWork}]

Idle == [pc |-> "idle", attempt |-> 0, try |-> 0, session |-> NoSession,
         turn |-> [index |-> 0, history |-> 0], work |-> NoWork]

Started(k) == attempt[k] # "none"
OpenAttempts == {k \in Attempt : attempt[k] = "open"}
ActiveSessions(k) ==
    {s \in Session : session[s].attempt = k /\ session[s].status = "ACTIVE"}

(* student_assignment: an active enrolment and a PUBLISHED assignment. *)
Visible == assignment = "PUBLISHED" /\ enrolled

Init ==
    /\ assignment \in {"DRAFT", "PUBLISHED"}
    /\ enrolled = TRUE
    /\ attempt = [k \in Attempt |-> "none"]
    /\ draft = [k \in Attempt |-> NoText]
    /\ work = [k \in Attempt |-> NoWork]
    /\ object = {}
    /\ session = [s \in Session |-> [attempt |-> 0, status |-> "none"]]
    /\ log = [s \in Session |-> <<>>]
    /\ request = [r \in Request |-> Idle]

course == <<assignment, enrolled>>
files == <<work, object>>
coaching == <<session, log>>

Becomes(r, state) == request' = [request EXCEPT ![r] = state]

Done(r) == Becomes(r, Idle)

Accepts(r, ask) == ask \in Asks /\ request[r].pc = "idle"

-----------------------------------------------------------------------------
(* The instructor. *)

(* assignments_lifecycle: the status changes the trigger lets through, and *)
(* no way back to DRAFT once there are attempts.                           *)
MayMove(to) ==
    \/ assignment = "DRAFT" /\ to \in {"PUBLISHED", "ARCHIVED"}
    \/ assignment = "PUBLISHED" /\ to = "ARCHIVED"
    \/ assignment = "PUBLISHED" /\ to = "DRAFT" /\ ~\E k \in Attempt : Started(k)
    \/ assignment = "ARCHIVED" /\ to = "PUBLISHED"

(* _transition *)
Transition(move, to) ==
    /\ move \in Moves
    /\ MayMove(to)
    /\ assignment' = to
    /\ UNCHANGED <<enrolled, attempt, draft, files, coaching, request>>

(* set_enrollment: remove the student from the class, or restore him. *)
SetEnrollment ==
    /\ "enrolment" \in Moves
    /\ enrolled' = ~enrolled
    /\ UNCHANGED <<assignment, attempt, draft, files, coaching, request>>

-----------------------------------------------------------------------------
(* Attempts. *)

(* start_attempt, one of three tries: an open attempt is returned. *)
Look(r, try) ==
    /\ IF Visible /\ OpenAttempts = {}
       THEN Becomes(r, [Idle EXCEPT !.pc = "number", !.try = try])
       ELSE Done(r)
    /\ UNCHANGED <<course, attempt, draft, files, coaching>>

AskStart(r) == Accepts(r, "start") /\ Look(r, 1)

Again(r) ==
    /\ request[r].pc = "again"
    /\ Look(r, request[r].try + 1)

(* The INSERT: max(attempt_number) + 1 by the statement's snapshot ... *)
Number(r) ==
    /\ request[r].pc = "number"
    /\ \E k \in Attempt :
         /\ \A j \in Attempt : Started(j) <=> j < k
         /\ Becomes(r, [request[r] EXCEPT !.pc = "insert", !.attempt = k])
    /\ UNCHANGED <<course, attempt, draft, files, coaching>>

(* Mutant: without the index on open attempts. *)
InsertAnyAttempt(r) ==
    LET k == request[r].attempt IN
    /\ request[r].pc = "insert"
    /\ ~Started(k)
    /\ attempt' = [attempt EXCEPT ![k] = "open"]
    /\ Done(r)
    /\ UNCHANGED <<course, draft, files, coaching>>

(* ... and the row, unless a unique index refuses it: one open attempt, no *)
(* number twice.  The third refusal is reported.                           *)
InsertAttempt(r) ==
    LET k == request[r].attempt IN
    /\ request[r].pc = "insert"
    /\ \/ /\ OpenAttempts = {} /\ ~Started(k)
          /\ attempt' = [attempt EXCEPT ![k] = "open"]
          /\ Done(r)
       \/ /\ OpenAttempts # {} \/ Started(k)
          /\ Becomes(r, IF request[r].try = 3 THEN Idle
                        ELSE [Idle EXCEPT !.pc = "again", !.try = request[r].try])
          /\ UNCHANGED attempt
    /\ UNCHANGED <<course, draft, files, coaching>>

(* Mutant: the attempt's status is not looked at. *)
SaveDraftAnytime(r, k) ==
    /\ Accepts(r, "draft")
    /\ Visible /\ Started(k)
    /\ \E t \in Text : draft' = [draft EXCEPT ![k] = t]
    /\ UNCHANGED <<course, attempt, files, coaching, request>>

(* save_draft: the row is locked, so check and update are one step. *)
SaveDraft(r, k) ==
    /\ Accepts(r, "draft")
    /\ Visible /\ attempt[k] = "open"
    /\ \E t \in Text : draft' = [draft EXCEPT ![k] = t]
    /\ UNCHANGED <<course, attempt, files, coaching, request>>

-----------------------------------------------------------------------------
(* Submissions. *)

(* Mutant: a submission leaves the sessions as they are. *)
EndedNone(k) == session

(* The sessions of the attempt that are ACTIVE are ENDED. *)
Ended(k) == [s \in Session |-> IF s \in ActiveSessions(k)
                               THEN [session[s] EXCEPT !.status = "ENDED"]
                               ELSE session[s]]

(* _finalize: with the attempt's row locked from the first statement on. *)
Finalize(k, f) ==
    /\ Visible /\ attempt[k] = "open"
    /\ attempt' = [attempt EXCEPT ![k] = "submitted"]
    /\ work' = [work EXCEPT ![k] = f]
    /\ session' = Ended(k)

(* submit_text *)
SubmitText(r, k) ==
    /\ Accepts(r, "text")
    /\ Finalize(k, NoWork)
    /\ UNCHANGED <<course, draft, object, log, request>>

(* Mutant: the object's key is that of an earlier upload. *)
OldWork(f) == f \in Work

(* new_id: a file id nothing uses. *)
FreshWork(f) ==
    /\ f \notin object
    /\ \A k \in Attempt : work[k] # f
    /\ \A r \in Request : request[r].work # f

(* Mutant: the object is put before its file id is drawn. *)
AskSubmitFileUnnamed(r, k) ==
    /\ Accepts(r, "file")
    /\ Visible /\ Started(k)
    /\ Becomes(r, [Idle EXCEPT !.pc = "put", !.attempt = k])
    /\ UNCHANGED <<course, attempt, draft, files, coaching>>

(* submit_file, first transaction: the attempt is the student's. *)
AskSubmitFile(r, k) ==
    /\ Accepts(r, "file")
    /\ Visible /\ Started(k)
    /\ \E f \in Work :
         /\ FreshWork(f)
         /\ Becomes(r, [Idle EXCEPT !.pc = "put", !.attempt = k, !.work = f])
    /\ UNCHANGED <<course, attempt, draft, files, coaching>>

(* save puts the object ... *)
PutWork(r) ==
    /\ request[r].pc = "put"
    /\ object' = object \cup {request[r].work}
    /\ Becomes(r, [request[r] EXCEPT !.pc = "finalize"])
    /\ UNCHANGED <<course, attempt, draft, work, coaching>>

(* ... and the second transaction inserts its row and submits the attempt, *)
(* unless it is refused or fails.                                          *)
FinalizeFile(r) ==
    LET k == request[r].attempt IN
    /\ request[r].pc = "finalize"
    /\ \/ Finalize(k, request[r].work) /\ Done(r)
       \/ /\ Becomes(r, [request[r] EXCEPT !.pc = "rollback"])
          /\ UNCHANGED <<attempt, work, session>>
    /\ UNCHANGED <<course, draft, object, log>>

RollbackWork(r) ==
    /\ request[r].pc = "rollback"
    /\ object' = object \ {request[r].work}
    /\ Done(r)
    /\ UNCHANGED <<course, attempt, draft, work, coaching>>

-----------------------------------------------------------------------------
(* The Coach. *)

(* coach, first transaction: the open attempt ... *)
AskCoach(r, k) ==
    /\ Accepts(r, "coach")
    /\ Visible /\ attempt[k] = "open"
    /\ \A s \in ActiveSessions(k) : Len(log[s]) < MaxTurns
    /\ Becomes(r, [Idle EXCEPT !.pc = "find", !.attempt = k])
    /\ UNCHANGED <<course, attempt, draft, files, coaching>>

(* A session that is found comes with its turn_count. *)
Found(r, s) ==
    Becomes(r, [request[r] EXCEPT !.pc = "history", !.session = s,
                                  !.turn = [index |-> Len(log[s]), history |-> 0]])

(* ... its ACTIVE session ... *)
FindSession(r) ==
    LET k == request[r].attempt IN
    /\ request[r].pc = "find"
    /\ \/ \E s \in ActiveSessions(k) : Found(r, s)
       \/ /\ ActiveSessions(k) = {}
          /\ Becomes(r, [request[r] EXCEPT !.pc = "create"])
    /\ UNCHANGED <<course, attempt, draft, files, coaching>>

(* ... or a new one, when the index does not refuse it.  The attempt may   *)
(* have been submitted by now: its foreign key does not look at the status.*)
CreateSession(r) ==
    LET k == request[r].attempt IN
    /\ request[r].pc = "create"
    /\ \/ /\ ActiveSessions(k) = {}
          /\ \E s \in Session :
               /\ session[s].status = "none"
               /\ session' = [session EXCEPT ![s] = [attempt |-> k, status |-> "ACTIVE"]]
               /\ Found(r, s)
       \/ /\ ActiveSessions(k) # {}
          /\ Becomes(r, [request[r] EXCEPT !.pc = "refind"])
          /\ UNCHANGED session
    /\ UNCHANGED <<course, attempt, draft, files, log>>

(* Refused, the one that is there is read: it may have ENDED meanwhile,    *)
(* and the request then fails on the missing row.                          *)
Refind(r) ==
    LET k == request[r].attempt IN
    /\ request[r].pc = "refind"
    /\ \/ \E s \in ActiveSessions(k) : Found(r, s)
       \/ ActiveSessions(k) = {} /\ Done(r)
    /\ UNCHANGED <<course, attempt, draft, files, coaching>>

ReadHistory(r) ==
    /\ request[r].pc = "history"
    /\ Becomes(r, [request[r] EXCEPT !.pc = "reply",
                                     !.turn.history = Len(log[request[r].session])])
    /\ UNCHANGED <<course, attempt, draft, files, coaching>>

(* Mutant: the status of the attempt is not read again. *)
PersistAnyway(r) ==
    LET s == request[r].session IN
    /\ request[r].pc = "reply"
    /\ log' = [log EXCEPT ![s] = Append(@, request[r].turn)]
    /\ Done(r)
    /\ UNCHANGED <<course, attempt, draft, files, session>>

(* The reply is there.  The second transaction, under the session's lock   *)
(* and with the attempt's row locked, records the turn if the attempt is   *)
(* still open.                                                             *)
Persist(r) ==
    LET s == request[r].session IN
    /\ request[r].pc = "reply"
    /\ log' = IF attempt[request[r].attempt] = "open"
              THEN [log EXCEPT ![s] = Append(@, request[r].turn)] ELSE log
    /\ Done(r)
    /\ UNCHANGED <<course, attempt, draft, files, session>>

(* The Coach times out, the database fails, or the process dies: what was  *)
(* not committed is gone.                                                  *)
Fail(r) ==
    /\ request[r].pc # "idle"
    /\ Done(r)
    /\ UNCHANGED <<course, attempt, draft, files, coaching>>

-----------------------------------------------------------------------------
Instructor ==
    \/ Transition("publish", "PUBLISHED") \/ Transition("unpublish", "DRAFT")
    \/ Transition("archive", "ARCHIVED") \/ SetEnrollment

Ask(r, k) ==
    SaveDraft(r, k) \/ SubmitText(r, k) \/ AskSubmitFile(r, k) \/ AskCoach(r, k)

Step(r) ==
    \/ Again(r) \/ Number(r) \/ InsertAttempt(r)
    \/ PutWork(r) \/ FinalizeFile(r) \/ RollbackWork(r)
    \/ FindSession(r) \/ CreateSession(r) \/ Refind(r) \/ ReadHistory(r) \/ Persist(r)
    \/ Fail(r)

Next ==
    \/ Instructor
    \/ \E r \in Request : AskStart(r) \/ Step(r) \/ \E k \in Attempt : Ask(r, k)

Spec == Init /\ [][Next]_vars
-----------------------------------------------------------------------------
(* Properties. *)

TypeOK ==
    /\ assignment \in {"DRAFT", "PUBLISHED", "ARCHIVED"}
    /\ enrolled \in BOOLEAN
    /\ attempt \in [Attempt -> {"none", "open", "submitted"}]
    /\ draft \in [Attempt -> Text \cup {NoText}]
    /\ work \in [Attempt -> Work \cup {NoWork}]
    /\ object \subseteq Work
    /\ session \in [Session -> [attempt : 0 .. MaxAttempts,
                                status : {"none", "ACTIVE", "ENDED"}]]
    /\ log \in [Session -> Seq(Turn)]
    /\ request \in [Request -> RequestState]

(* Attempts are made one after the other: a new one only when all earlier  *)
(* ones are submitted, however many tabs ask for it at once.               *)
AttemptsInOrder ==
    \A j, k \in Attempt : Started(k) /\ j < k => attempt[j] = "submitted"

(* An attempt has one ACTIVE session at most; sessions end with their      *)
(* attempt, and only an empty one can be left ACTIVE: the one a request    *)
(* opens that saw the attempt open before it was submitted.                *)
SessionsFollowAttempts ==
    /\ \A s, t \in Session :
         /\ session[s].status = "ACTIVE" /\ session[t].status = "ACTIVE"
         /\ session[s].attempt = session[t].attempt
         => s = t
    /\ \A s \in Session : \A k \in Attempt :
         session[s].attempt = k =>
             /\ session[s].status = "ENDED" => attempt[k] = "submitted"
             /\ session[s].status = "ACTIVE" /\ attempt[k] = "submitted"
                => log[s] = <<>>

(* The file of a submission is in storage, and no other attempt has it:    *)
(* the clean-up of a submission that lost never removes the winner's file. *)
WorkKept ==
    \A k \in Attempt :
        work[k] # NoWork =>
            /\ attempt[k] = "submitted" /\ work[k] \in object
            /\ \A j \in Attempt : work[j] = work[k] => j = k

(* What was submitted stays as it is: the draft, the file and the          *)
(* transcripts, also when a reply of the Coach or a save arrives late.     *)
SubmittedIsFrozen ==
    [][\A k \in Attempt :
         attempt[k] = "submitted" =>
             /\ attempt'[k] = "submitted"
             /\ draft'[k] = draft[k] /\ work'[k] = work[k]
             /\ \A s \in Session : session[s].attempt = k => log'[s] = log[s]]_vars

(* An assignment the student has started does not return to DRAFT. *)
NoStartedDraft == assignment = "DRAFT" => ~\E k \in Attempt : Started(k)
=============================================================================
