------------------------- MODULE FilePipelineProofs -------------------------
(***************************************************************************)
(* Proofs about FilePipeline for any number of files, contents, scopes,    *)
(* processes, threads and attempts.  For any combination of requests and   *)
(* mishaps: types, the objects behind rows, the abstract shelf.  While     *)
(* nothing disturbs the claims: who works on a file, and how often.  Then  *)
(* the references between rows, documents, links and chunks, the objects   *)
(* that no row refers to, and what the index holds for a READY file.       *)
(***************************************************************************)
EXTENDS FilePipeline, TLAPS

Uploading == {"put", "insert", "rollback"}
Removing  == {"deleteDoc", "deleteObject"}

(* A thread at work holds a file, a request the file it is about. *)
ThreadsHoldFiles ==
    /\ \A w \in Worker : Busy(w) => worker[w].file \in File
    /\ \A h \in Handler :
         /\ handler[h].pc \in {"deleteRow", "requeue", "link"} \cup Removing
             => handler[h].target \in File
         /\ handler[h].pc \in Uploading => handler[h].file \in File

(* The id of a pending upload has no row yet and no other upload has it. *)
UploadsOwnIds ==
    /\ \A h \in Handler : handler[h].pc \in Uploading =>
         row[handler[h].file].status = "none"
    /\ \A g, h \in Handler :
         /\ handler[g].pc \in Uploading /\ handler[h].pc \in Uploading
         /\ handler[g].file = handler[h].file
         => g = h

(* save has put the object by the time it inserts the row. *)
ObjectBeforeRow ==
    \A h \in Handler : handler[h].pc = "insert" => handler[h].file \in object

(* delete_file has removed the row by the time it cleans up. *)
RowBeforeObject ==
    \A h \in Handler : handler[h].pc \in Removing =>
        row[handler[h].target].status = "gone"

StorageInv ==
    /\ TypeOK
    /\ ThreadsHoldFiles
    /\ UploadsOwnIds
    /\ ObjectBeforeRow
    /\ RowBeforeObject
    /\ ObjectBehindRow

-----------------------------------------------------------------------------
(* The storage invariant is inductive. *)

LEMMA InitStorage == Init => StorageInv
  <1> SUFFICES ASSUME Init PROVE StorageInv
    OBVIOUS
  <1> USE FilesAssumption, ThreadsAssumption DEF Init
  <1>1. TypeOK
    <2>1. row \in [File -> Row]
      BY DEF Row, Absent
    <2>2. doc \in [Content -> Doc]
      BY DEF Doc, NoDoc
    <2>3. worker \in [Worker -> WorkerState]
      BY DEF WorkerState, WorkerPC, Idle, Fault
    <2>4. handler \in [Handler -> HandlerState]
      BY DEF HandlerState, HandlerPC, IdleHandler
    <2> QED BY <2>1, <2>2, <2>3, <2>4 DEF TypeOK
  <1>2. ThreadsHoldFiles /\ UploadsOwnIds /\ ObjectBeforeRow /\ RowBeforeObject
    BY DEF ThreadsHoldFiles, UploadsOwnIds, ObjectBeforeRow, RowBeforeObject,
           Busy, Idle, IdleHandler, Uploading, Removing
  <1>3. ObjectBehindRow
    BY DEF ObjectBehindRow, InRow, InTable, Settled
  <1> QED BY <1>1, <1>2, <1>3 DEF StorageInv

(* How the records of the model are updated. *)

LEMMA RowUpdate ==
  ASSUME NEW r \in Row, NEW s \in InTable \cup Absent
  PROVE  /\ [r EXCEPT !.status = s] \in Row
         /\ \A n \in Nat : [r EXCEPT !.status = s, !.attempts = n] \in Row
         /\ \A d \in BOOLEAN : [r EXCEPT !.status = s, !.document = d] \in Row
         /\ [r EXCEPT !.document = FALSE] \in Row
         /\ r.attempts + 1 \in Nat
  <1>1. [r EXCEPT !.status = s] \in Row
    BY DEF Row
  <1>2. \A n \in Nat : [r EXCEPT !.status = s, !.attempts = n] \in Row
    BY DEF Row
  <1>3. \A d \in BOOLEAN : [r EXCEPT !.status = s, !.document = d] \in Row
    BY DEF Row
  <1>4. [r EXCEPT !.document = FALSE] \in Row
    BY DEF Row
  <1>5. r.attempts + 1 \in Nat
    BY DEF Row
  <1> QED BY <1>1, <1>2, <1>3, <1>4, <1>5

LEMMA RowTyped ==
  ASSUME TypeOK, NEW f, NEW r \in Row, row' = [row EXCEPT ![f] = r]
  PROVE  row' \in [File -> Row]
  BY DEF TypeOK

LEMMA RequeuedTyped ==
  ASSUME TypeOK, NEW S
  PROVE  Requeued(S) \in [File -> Row]
  <1>1. \A f \in File : [row[f] EXCEPT !.status = "QUEUED"] \in Row
    BY RowUpdate DEF TypeOK, InTable
  <1> QED BY <1>1 DEF Requeued, TypeOK

LEMMA DocTyped ==
  ASSUME TypeOK, NEW c, NEW d \in Doc, doc' = [doc EXCEPT ![c] = d]
  PROVE  doc' \in [Content -> Doc]
  BY DEF TypeOK

LEMMA WorkerTyped ==
  ASSUME TypeOK, NEW w \in Worker,
         \/ \E pc \in WorkerPC : GoTo(w, pc)
         \/ \E e \in Fault : Raise(w, e)
         \/ Finish(w)
         \/ \E s \in WorkerState : worker' = [worker EXCEPT ![w] = s]
  PROVE  worker' \in [Worker -> WorkerState]
  <1>1. worker[w] \in WorkerState
    BY DEF TypeOK
  <1>2. \A pc \in WorkerPC : [worker[w] EXCEPT !.pc = pc] \in WorkerState
    BY <1>1 DEF WorkerState
  <1>3. \A e \in Fault :
          [worker[w] EXCEPT !.pc = "fail", !.fault = e] \in WorkerState
    BY <1>1 DEF WorkerState, WorkerPC
  <1>4. Idle \in WorkerState
    BY DEF Idle, WorkerState, WorkerPC, Fault
  <1>5. CASE \E pc \in WorkerPC : GoTo(w, pc)
    BY <1>2, <1>5 DEF GoTo, TypeOK
  <1>6. CASE \E e \in Fault : Raise(w, e)
    BY <1>3, <1>6 DEF Raise, TypeOK
  <1>7. CASE Finish(w)
    BY <1>4, <1>7 DEF Finish, TypeOK
  <1>8. CASE \E s \in WorkerState : worker' = [worker EXCEPT ![w] = s]
    BY <1>8 DEF TypeOK
  <1> QED BY <1>5, <1>6, <1>7, <1>8

LEMMA HandlerTyped ==
  ASSUME TypeOK, NEW h, NEW s \in HandlerState, HandlerTo(h, s)
  PROVE  handler' \in [Handler -> HandlerState]
  BY DEF TypeOK, HandlerTo

LEMMA HandlerUpdate ==
  ASSUME NEW s \in HandlerState, NEW pc \in HandlerPC
  PROVE  /\ [s EXCEPT !.pc = pc] \in HandlerState
         /\ \A n \in 0 .. 2 : [s EXCEPT !.pc = pc, !.try = n] \in HandlerState
         /\ \A f \in File : [s EXCEPT !.pc = pc, !.target = f] \in HandlerState
         /\ \A f \in File, n \in 0 .. 2 :
              [s EXCEPT !.pc = pc, !.file = f, !.try = n] \in HandlerState
         /\ IdleHandler \in HandlerState
         /\ s.try \in 0 .. 2
  <1>1. [s EXCEPT !.pc = pc] \in HandlerState
    BY DEF HandlerState
  <1>2. \A n \in 0 .. 2 : [s EXCEPT !.pc = pc, !.try = n] \in HandlerState
    BY DEF HandlerState
  <1>3. \A f \in File : [s EXCEPT !.pc = pc, !.target = f] \in HandlerState
    BY DEF HandlerState
  <1>4. \A f \in File, n \in 0 .. 2 :
          [s EXCEPT !.pc = pc, !.file = f, !.try = n] \in HandlerState
    BY DEF HandlerState
  <1>5. IdleHandler \in HandlerState
    BY DEF HandlerState, IdleHandler, HandlerPC
  <1>6. s.try \in 0 .. 2
    BY DEF HandlerState
  <1> QED BY <1>1, <1>2, <1>3, <1>4, <1>5, <1>6

-----------------------------------------------------------------------------
(* Every step keeps the types. *)

LEMMA WorkerTypeStep ==
  ASSUME TypeOK, ThreadsHoldFiles, NEW w \in Worker, WorkerStep(w)
  PROVE  TypeOK'
  <1> USE FilesAssumption
  <1>1. worker' \in [Worker -> WorkerState]
    <2>1. worker[w] \in WorkerState
      BY DEF TypeOK
    <2>2. worker[w].next + 1 \in Nat
      BY <2>1 DEF WorkerState
    <2>3. \A pc \in {"reconcile", "insert"} :
            [worker[w] EXCEPT !.pc = pc, !.next = worker[w].next + 1]
                \in WorkerState
      BY <2>1, <2>2 DEF WorkerState, WorkerPC
    <2>4. CASE Fetch(w) \/ Lookup(w)
      BY <2>4, WorkerTyped DEF Fetch, Lookup, WorkerPC, Fault
    <2>5. CASE Upsert(w) \/ Wipe(w)
      BY <2>5, WorkerTyped DEF Upsert, Wipe, WorkerPC, Fault
    <2>6. CASE Insert(w)
      BY <2>6, <2>3, WorkerTyped DEF Insert, Fault
    <2>7. CASE Reconcile(w) \/ Fail(w) \/ FailUnwritten(w)
      BY <2>7, WorkerTyped DEF Reconcile, Fail, FailUnwritten, Fault
    <2> QED BY <2>4, <2>5, <2>6, <2>7 DEF WorkerStep
  <1>2. worker[w].file \in File
    BY DEF ThreadsHoldFiles, Busy, WorkerStep, Fetch, Lookup, Upsert, Wipe,
           Insert, Reconcile, Fail, FailUnwritten
  <1>3. row' \in [File -> Row]
    <2>1. row[worker[w].file] \in Row
      BY <1>2 DEF TypeOK
    <2>2. \A s \in InTable :
            /\ [row[worker[w].file] EXCEPT !.status = s] \in Row
            /\ [row[worker[w].file] EXCEPT !.status = s, !.document = TRUE] \in Row
      BY <2>1, RowUpdate
    <2>3. CASE Reconcile(w)
      <3>1. {"READY", "STORED_ONLY"} \subseteq InTable
        BY DEF InTable, Settled
      <3>2. \/ UNCHANGED row
            \/ \E s \in {"READY", "STORED_ONLY"} :
                 row' = [row EXCEPT ![worker[w].file] =
                           [row[worker[w].file] EXCEPT !.status = s,
                                                       !.document = TRUE]]
        BY <2>3 DEF Reconcile
      <3>3. ASSUME NEW s \in {"READY", "STORED_ONLY"},
                   row' = [row EXCEPT ![worker[w].file] =
                             [row[worker[w].file] EXCEPT !.status = s,
                                                         !.document = TRUE]]
            PROVE  row' \in [File -> Row]
        BY <2>2, <3>1, <3>3, RowTyped
      <3>4. CASE UNCHANGED row
        BY <3>4 DEF TypeOK
      <3> QED BY <3>2, <3>3, <3>4
    <2>4. CASE Fail(w)
      BY <2>2, <2>4 DEF Fail, InTable, Settled, TypeOK
    <2>5. CASE UNCHANGED row
      BY <2>5 DEF TypeOK
    <2> QED
      BY <2>3, <2>4, <2>5
         DEF WorkerStep, Fetch, Lookup, Upsert, Wipe, Insert, FailUnwritten
  <1>4. doc' \in [Content -> Doc]
    <2>1. \A c \in Content : doc[c] \in Doc
      BY DEF TypeOK
    <2>2. \A d \in Doc : \A s \in {"stored", "failed"} :
            [d EXCEPT !.status = s] \in Doc
      BY DEF Doc
    <2>3. CASE Upsert(w)
      BY <1>2, <2>1, <2>3 DEF Upsert, Doc, TypeOK
    <2>4. CASE Reconcile(w)
      <3>1. \/ UNCHANGED doc
            \/ doc' = [doc EXCEPT ![ContentOf[worker[w].file]] =
                         [doc[ContentOf[worker[w].file]] EXCEPT !.status = "stored"]]
        BY <2>4 DEF Reconcile
      <3>2. ContentOf[worker[w].file] \in Content
        BY <1>2
      <3>3. doc \in [Content -> Doc]
        BY DEF TypeOK
      <3>4. \A s \in {"stored"} :
              [doc[ContentOf[worker[w].file]] EXCEPT !.status = s] \in Doc
        BY <2>1, <2>2, <3>2
      <3> QED BY <3>1, <3>3, <3>4
    <2>5. CASE Fail(w)
      BY <1>2, <2>1, <2>2, <2>5 DEF Fail, TypeOK
    <2>6. CASE UNCHANGED doc
      BY <2>6 DEF TypeOK
    <2> QED
      BY <2>3, <2>4, <2>5, <2>6
         DEF WorkerStep, Fetch, Lookup, Wipe, Insert, FailUnwritten, index
  <1>5. chunk' \in [Content -> [Indexes -> Scope \cup {NoScope}]]
    <2>1. CASE Wipe(w)
      BY <2>1 DEF Wipe, TypeOK
    <2>2. CASE Insert(w)
      <3> DEFINE c == ContentOf[worker[w].file]
      <3>1. chunk[c] \in [Indexes -> Scope \cup {NoScope}]
        BY <1>2 DEF TypeOK
      <3>2. \A i : [chunk[c] EXCEPT ![i] = ScopeOf[worker[w].file]]
                      \in [Indexes -> Scope \cup {NoScope}]
        BY <1>2, <3>1
      <3>3. \/ UNCHANGED chunk
            \/ \E i : chunk' = [chunk EXCEPT ![c] =
                          [chunk[c] EXCEPT ![i] = ScopeOf[worker[w].file]]]
        BY <2>2 DEF Insert
      <3>4. ASSUME NEW i, chunk' = [chunk EXCEPT ![c] =
                             [chunk[c] EXCEPT ![i] = ScopeOf[worker[w].file]]]
            PROVE  chunk' \in [Content -> [Indexes -> Scope \cup {NoScope}]]
        <4> DEFINE new == [chunk[c] EXCEPT ![i] = ScopeOf[worker[w].file]]
        <4>1. new \in [Indexes -> Scope \cup {NoScope}]
          BY <3>2
        <4> HIDE DEF new
        <4> QED BY <3>4, <4>1 DEF TypeOK, new
      <3>5. CASE UNCHANGED chunk
        BY <3>5 DEF TypeOK
      <3> QED BY <3>3, <3>4, <3>5
    <2>3. CASE UNCHANGED chunk
      BY <2>3 DEF TypeOK
    <2> QED
      BY <2>1, <2>2, <2>3
         DEF WorkerStep, Fetch, Lookup, Upsert, Reconcile, Fail, FailUnwritten, index
  <1>6. UNCHANGED <<object, link, handler, up>>
    BY DEF WorkerStep, Fetch, Lookup, Upsert, Wipe, Insert, Reconcile, Fail,
           FailUnwritten, index
  <1>7. trouble' \in Nat
    BY DEF WorkerStep, Fetch, Lookup, Upsert, Wipe, Insert, Reconcile, Fail,
           FailUnwritten, Trouble, TypeOK
  <1> QED BY <1>1, <1>3, <1>4, <1>5, <1>6, <1>7 DEF TypeOK

LEMMA HandlerTypeStep ==
  ASSUME TypeOK, ThreadsHoldFiles, NEW h \in Handler, HandlerStep(h)
  PROVE  TypeOK'
  <1> DEFINE g == handler[h].target
  <1>1. handler[h] \in HandlerState
    BY DEF TypeOK
  <1>2. handler' \in [Handler -> HandlerState]
    <2>1. IdleHandler \in HandlerState
      BY <1>1, HandlerUpdate DEF HandlerPC
    <2>2. CASE Put(h) \/ PutUnanswered(h)
      BY <1>1, <2>1, <2>2, HandlerUpdate, HandlerTyped
         DEF Put, PutUnanswered, HandlerPC
    <2>3. CASE InsertRow(h)
      <3>1. \A n \in 0 .. 2 :
              [handler[h] EXCEPT !.pc = "rollback", !.try = n] \in HandlerState
        BY <1>1, HandlerUpdate DEF HandlerPC
      <3>2. handler[h].try \in 0 .. 2 /\ 0 \in 0 .. 2
        BY <1>1 DEF HandlerState
      <3> QED BY <2>1, <2>3, <3>1, <3>2, HandlerTyped DEF InsertRow
    <2>4. CASE RollbackObject(h)
      BY <1>1, <2>1, <2>4, HandlerUpdate, HandlerTyped
         DEF RollbackObject, HandlerPC
    <2>5. CASE Duplicate(h)
      BY <1>1, <2>1, <2>5, HandlerUpdate, HandlerTyped
         DEF Duplicate, SameBytes, HandlerPC
    <2>6. CASE DeleteRow(h)
      BY <1>1, <2>1, <2>6, HandlerUpdate, HandlerTyped
         DEF DeleteRow, AfterDelete, HandlerPC
    <2>7. CASE DeleteDoc(h) \/ DeleteObject(h)
      BY <1>1, <2>1, <2>7, HandlerUpdate, HandlerTyped
         DEF DeleteDoc, DeleteObject, AfterDelete, HandlerPC
    <2>8. CASE RequeueRow(h) \/ InsertLink(h)
      BY <2>1, <2>8, HandlerTyped DEF RequeueRow, InsertLink
    <2>9. ASSUME NEW f \in File, Again(h, f)
          PROVE  handler' \in [Handler -> HandlerState]
      <3>1. "put" \in HandlerPC /\ 2 \in 0 .. 2
        BY DEF HandlerPC
      <3>2. [IdleHandler EXCEPT !.pc = "put", !.file = f, !.try = 2]
              \in HandlerState
        BY <2>1, <3>1, HandlerUpdate
      <3> QED BY <2>9, <3>2, HandlerTyped DEF Again
    <2> QED
      BY <2>2, <2>3, <2>4, <2>5, <2>6, <2>7, <2>8, <2>9 DEF HandlerStep
  <1>3. row' \in [File -> Row]
    <2>1. CASE InsertRow(h)
      <3>1. [status |-> "QUEUED", attempts |-> 0, document |-> FALSE] \in Row
        BY DEF Row, InTable
      <3> QED BY <2>1, <3>1 DEF InsertRow, TypeOK
    <2>2. CASE DeleteRow(h)
      <3>1. g \in File
        BY <2>2 DEF DeleteRow, ThreadsHoldFiles
      <3>2. [row[g] EXCEPT !.status = "gone", !.document = FALSE] \in Row
        BY <3>1, RowUpdate DEF TypeOK, Absent
      <3> QED BY <2>2, <3>2 DEF DeleteRow, TypeOK
    <2>3. CASE DeleteDoc(h)
      <3>1. \A f \in File : [row[f] EXCEPT !.document = FALSE] \in Row
        BY RowUpdate DEF TypeOK, Absent
      <3> QED BY <2>3, <3>1 DEF DeleteDoc, TypeOK
    <2>4. CASE RequeueRow(h)
      <3>1. g \in File
        BY <2>4 DEF RequeueRow, ThreadsHoldFiles
      <3>2. [row[g] EXCEPT !.status = "QUEUED", !.attempts = 0] \in Row
        BY <3>1, RowUpdate DEF TypeOK, InTable
      <3> QED BY <2>4, <3>2 DEF RequeueRow, TypeOK
    <2>5. CASE UNCHANGED row
      BY <2>5 DEF TypeOK
    <2> QED
      BY <2>1, <2>2, <2>3, <2>4, <2>5
         DEF HandlerStep, Put, PutUnanswered, RollbackObject, Duplicate, DeleteObject,
             InsertLink, Again
  <1>4. object' \subseteq File
    <2>1. CASE Put(h) \/ PutUnanswered(h)
      BY <2>1 DEF Put, PutUnanswered, ThreadsHoldFiles, Uploading, TypeOK
    <2>2. CASE RollbackObject(h) \/ DeleteObject(h)
      BY <2>2 DEF RollbackObject, DeleteObject, TypeOK
    <2>3. CASE UNCHANGED object
      BY <2>3 DEF TypeOK
    <2> QED
      BY <2>1, <2>2, <2>3
         DEF HandlerStep, InsertRow, Duplicate, DeleteRow, DeleteDoc,
             RequeueRow, InsertLink, Again
  <1>5. link' \subseteq Content
    <2>1. CASE DeleteRow(h) \/ DeleteDoc(h)
      BY <2>1 DEF DeleteRow, DeleteDoc, TypeOK
    <2>2. CASE InsertLink(h)
      <3>1. g \in File
        BY <2>2 DEF InsertLink, ThreadsHoldFiles
      <3> QED BY <2>2, <3>1, FilesAssumption DEF InsertLink, TypeOK
    <2>3. CASE UNCHANGED link
      BY <2>3 DEF TypeOK
    <2> QED
      BY <2>1, <2>2, <2>3
         DEF HandlerStep, Put, PutUnanswered, InsertRow, RollbackObject, Duplicate,
             DeleteObject, RequeueRow, Again, index
  <1>6. /\ doc' \in [Content -> Doc]
        /\ chunk' \in [Content -> [Indexes -> Scope \cup {NoScope}]]
    <2>1. CASE DeleteDoc(h)
      <3>1. NoDoc \in Doc
        BY DEF Doc, NoDoc
      <3>2. doc' \in [Content -> Doc]
        BY <2>1, <3>1 DEF DeleteDoc, TypeOK
      <3>3. chunk' \in [Content -> [Indexes -> Scope \cup {NoScope}]]
        BY <2>1 DEF DeleteDoc, TypeOK
      <3> QED BY <3>2, <3>3
    <2>2. CASE UNCHANGED <<doc, chunk>>
      BY <2>2 DEF TypeOK
    <2> QED
      BY <2>1, <2>2
         DEF HandlerStep, Put, PutUnanswered, InsertRow, RollbackObject, Duplicate, DeleteRow,
             DeleteObject, RequeueRow, InsertLink, Again, index
  <1>7. UNCHANGED <<worker, up, trouble>>
    BY DEF HandlerStep, Put, PutUnanswered, InsertRow, RollbackObject, Duplicate, DeleteRow,
           DeleteDoc, DeleteObject, RequeueRow, InsertLink, Again
  <1> QED BY <1>2, <1>3, <1>4, <1>5, <1>6, <1>7 DEF TypeOK

LEMMA OtherTypeStep ==
  ASSUME TypeOK,
         \/ \E w \in Worker, f \in File : Claim(w, f)
         \/ \E h \in Handler, f \in File : Ask(h, f)
         \/ RequeueStale
         \/ \E p \in Proc : Crash(p) \/ Start(p)
         \/ UNCHANGED vars
  PROVE  TypeOK'
  <1>1. ASSUME NEW w \in Worker, NEW f \in File, Claim(w, f)
        PROVE  TypeOK'
    <2>1. row[f] \in Row /\ row[f].attempts + 1 \in Nat
      BY RowUpdate DEF TypeOK, Absent
    <2>2. [row[f] EXCEPT !.status = "PROCESSING",
                         !.attempts = row[f].attempts + 1] \in Row
      BY <2>1, RowUpdate DEF InTable
    <2>3. row' \in [File -> Row]
      BY <1>1, <2>2 DEF Claim, TypeOK
    <2>4. [Idle EXCEPT !.pc = "fetch", !.file = f,
                       !.attempt = row[f].attempts + 1] \in WorkerState
      BY <2>1 DEF Idle, WorkerState, WorkerPC, Fault
    <2>5. worker' \in [Worker -> WorkerState]
      BY <1>1, <2>4 DEF Claim, TypeOK
    <2> QED BY <1>1, <2>3, <2>5 DEF Claim, TypeOK, index
  <1>2. ASSUME NEW h \in Handler, NEW f \in File, Ask(h, f)
        PROVE  TypeOK'
    <2>1. IdleHandler \in HandlerState
      BY DEF IdleHandler, HandlerState, HandlerPC
    <2>2. \A n \in {1, 2} :
            [IdleHandler EXCEPT !.pc = "put", !.file = f, !.try = n]
                \in HandlerState
      <3>1. "put" \in HandlerPC /\ {1, 2} \subseteq 0 .. 2
        BY DEF HandlerPC
      <3> QED BY <2>1, <3>1, HandlerUpdate
    <2>3. \A pc \in HandlerPC :
            [IdleHandler EXCEPT !.pc = pc, !.target = f] \in HandlerState
      BY <2>1, HandlerUpdate
    <2>4. handler' \in [Handler -> HandlerState]
      BY <1>2, <2>2, <2>3, HandlerTyped
         DEF Ask, AskUpload, AskDelete, AskRetry, AskLink, HandlerPC
    <2>5. trouble' \in Nat
      <3>1. trouble' = trouble \/ Trouble
        BY <1>2 DEF Ask, AskUpload, AskDelete, AskRetry, AskLink
      <3> QED BY <3>1 DEF Trouble, TypeOK
    <2> QED
      BY <1>2, <2>4, <2>5
         DEF Ask, AskUpload, AskDelete, AskRetry, AskLink, TypeOK, index
  <1>3. ASSUME RequeueStale
        PROVE  TypeOK'
    <2>1. row' \in [File -> Row]
      BY <1>3, RequeuedTyped DEF RequeueStale
    <2>2. trouble' \in Nat
      BY <1>3 DEF RequeueStale, Trouble, TypeOK
    <2> QED BY <1>3, <2>1, <2>2 DEF RequeueStale, TypeOK, index, threads
  <1>4. ASSUME NEW p \in Proc, Crash(p)
        PROVE  TypeOK'
    <2>1. Down \in WorkerState /\ IdleHandler \in HandlerState
      BY DEF Down, Idle, WorkerState, WorkerPC, Fault, IdleHandler,
             HandlerState, HandlerPC
    <2>2. worker' \in [Worker -> WorkerState]
      BY <1>4, <2>1 DEF Crash, TypeOK
    <2>3. handler' \in [Handler -> HandlerState]
      BY <1>4, <2>1 DEF Crash, TypeOK
    <2> QED BY <1>4, <2>2, <2>3 DEF Crash, Trouble, TypeOK, index
  <1>5. ASSUME NEW p \in Proc, Start(p)
        PROVE  TypeOK'
    <2>1. Idle \in WorkerState
      BY DEF Idle, WorkerState, WorkerPC, Fault
    <2>2. worker' \in [Worker -> WorkerState]
      BY <1>5, <2>1 DEF Start, TypeOK
    <2>3. row' \in [File -> Row]
      BY <1>5, RequeuedTyped DEF Start, TypeOK
    <2> QED BY <1>5, <2>2, <2>3 DEF Start, TypeOK, index
  <1>6. CASE UNCHANGED vars
    BY <1>6 DEF vars, TypeOK
  <1> QED BY <1>1, <1>2, <1>3, <1>4, <1>5, <1>6

LEMMA TypeStep == TypeOK /\ ThreadsHoldFiles /\ [Next]_vars => TypeOK'
  BY WorkerTypeStep, HandlerTypeStep, OtherTypeStep DEF Next

-----------------------------------------------------------------------------
(* Every step keeps what threads and requests hold. *)

LEMMA OtherHandlers ==
  ASSUME TypeOK, [Next]_vars, NEW h \in Handler
  PROVE  \/ handler'[h] = handler[h]
         \/ handler'[h] = IdleHandler
         \/ HandlerStep(h)
         \/ \E f \in File : Ask(h, f)
  <1>1. ASSUME NEW g \in Handler, g # h,
               HandlerStep(g) \/ \E f \in File : Ask(g, f)
        PROVE  handler'[h] = handler[h]
    BY <1>1 DEF HandlerStep, Put, PutUnanswered, InsertRow, RollbackObject, Duplicate,
                DeleteRow, DeleteDoc, DeleteObject, AfterDelete, RequeueRow,
                InsertLink, Again, Ask, AskUpload, AskDelete, AskRetry,
                AskLink, HandlerTo, TypeOK
  <1>2. ASSUME NEW w \in Worker, WorkerStep(w) \/ \E f \in File : Claim(w, f)
        PROVE  handler'[h] = handler[h]
    BY <1>2 DEF WorkerStep, Fetch, Lookup, Upsert, Wipe, Insert, Reconcile,
                Fail, FailUnwritten, Claim
  <1>3. CASE \E p \in Proc : Crash(p) \/ Start(p)
    BY <1>3 DEF Crash, Start
  <1>4. CASE RequeueStale \/ UNCHANGED vars
    BY <1>4 DEF RequeueStale, threads, vars
  <1> QED BY <1>1, <1>2, <1>3, <1>4 DEF Next

LEMMA HoldStep ==
  ASSUME TypeOK, ThreadsHoldFiles, [Next]_vars
  PROVE  ThreadsHoldFiles'
  <1>1. \A w \in Worker : worker'[w].pc \notin {"down", "idle"} => worker'[w].file \in File
    <2> SUFFICES ASSUME NEW v \in Worker, worker'[v].pc \notin {"down", "idle"}
                 PROVE  worker'[v].file \in File
      OBVIOUS
    <2>1. CASE worker'[v] = worker[v]
      BY <2>1 DEF ThreadsHoldFiles, Busy
    <2>2. ASSUME NEW f \in File, Claim(v, f)
          PROVE  worker'[v].file \in File
      BY <2>2 DEF Claim, TypeOK, Idle
    <2>3. CASE WorkerStep(v)
      <3>1. worker[v].file \in File
        BY <2>3 DEF ThreadsHoldFiles, Busy, WorkerStep, Fetch, Lookup, Upsert,
                    Wipe, Insert, Reconcile, Fail, FailUnwritten
      <3>2. worker'[v].file = worker[v].file \/ Finish(v)
        <4>1. worker[v] \in WorkerState /\ worker \in [Worker -> WorkerState]
          BY DEF TypeOK
        <4>2. /\ \A pc : GoTo(v, pc) => worker'[v].file = worker[v].file
              /\ \A e : Raise(v, e) => worker'[v].file = worker[v].file
          BY <4>1 DEF GoTo, Raise, WorkerState
        <4>3. Insert(v) => worker'[v].file = worker[v].file
          BY <4>1, <4>2 DEF Insert, WorkerState
        <4> QED
          BY <2>3, <4>2, <4>3
             DEF WorkerStep, Fetch, Lookup, Upsert, Wipe, Reconcile, Fail,
                 FailUnwritten
      <3>3. ~Finish(v)
        BY DEF Finish, Idle, TypeOK
      <3> QED BY <3>1, <3>2, <3>3
    <2>4. CASE \E p \in Proc : Crash(p) \/ Start(p)
      BY <2>4 DEF Crash, Start, Down, Idle, TypeOK, ThreadsHoldFiles, Busy
    <2>5. ASSUME NEW w \in Worker, w # v,
                 WorkerStep(w) \/ \E f \in File : Claim(w, f)
          PROVE  worker'[v] = worker[v]
      BY <2>5 DEF WorkerStep, Fetch, Lookup, Upsert, Wipe, Insert, Reconcile,
                  Fail, FailUnwritten, GoTo, Raise, Finish, Claim, TypeOK
    <2>6. ASSUME NEW h \in Handler, HandlerStep(h) \/ \E f \in File : Ask(h, f)
          PROVE  worker'[v] = worker[v]
      BY <2>6 DEF HandlerStep, Put, PutUnanswered, InsertRow, RollbackObject, Duplicate,
                  DeleteRow, DeleteDoc, DeleteObject, RequeueRow, InsertLink,
                  Again, Ask, AskUpload, AskDelete, AskRetry, AskLink
    <2>7. CASE RequeueStale \/ UNCHANGED vars
      BY <2>1, <2>7 DEF RequeueStale, threads, vars
    <2> QED BY <2>1, <2>2, <2>3, <2>4, <2>5, <2>6, <2>7 DEF Next
  <1>2. \A h \in Handler :
          /\ handler'[h].pc \in {"deleteRow", "requeue", "link"} \cup Removing
               => handler'[h].target \in File
          /\ handler'[h].pc \in Uploading => handler'[h].file \in File
    <2> SUFFICES
          ASSUME NEW h \in Handler
          PROVE  /\ handler'[h].pc \in {"deleteRow", "requeue", "link"} \cup Removing
                      => handler'[h].target \in File
                 /\ handler'[h].pc \in Uploading => handler'[h].file \in File
      OBVIOUS
    <2>1. CASE handler'[h] = handler[h]
      BY <2>1 DEF ThreadsHoldFiles
    <2>2. CASE handler'[h] = IdleHandler
      BY <2>2 DEF IdleHandler, Uploading, Removing
    <2>3. ASSUME NEW f \in File, Ask(h, f)
          PROVE  /\ handler'[h].pc \in {"put", "deleteRow", "requeue", "link"}
                 /\ IF handler'[h].pc = "put" THEN handler'[h].file = f
                                              ELSE handler'[h].target = f
      <3> USE DEF HandlerTo, IdleHandler
      <3>1. handler \in [Handler -> HandlerState]
        BY DEF TypeOK
      <3>2. CASE AskUpload(h, f)
        BY <3>1, <3>2 DEF AskUpload
      <3>3. CASE AskDelete(h, f)
        BY <3>1, <3>3 DEF AskDelete
      <3>4. CASE AskRetry(h, f)
        BY <3>1, <3>4 DEF AskRetry
      <3>5. CASE AskLink(h, f)
        BY <3>1, <3>5 DEF AskLink
      <3> QED BY <2>3, <3>2, <3>3, <3>4, <3>5 DEF Ask
    <2>4. ASSUME HandlerStep(h), handler'[h] # IdleHandler
          PROVE  \/ handler'[h].pc \in {"duplicate", "again"}
                 \/ /\ handler[h].pc \in Uploading
                    /\ handler'[h].pc \in Uploading
                    /\ handler'[h].file = handler[h].file
                 \/ /\ handler[h].pc \in {"deleteRow", "deleteDoc"}
                    /\ handler'[h].pc \in Removing
                    /\ handler'[h].target = handler[h].target
                 \/ /\ handler'[h].pc = "deleteRow" /\ handler'[h].target \in File
                 \/ /\ handler'[h].pc = "put" /\ handler'[h].file \in File
      <3>1. handler[h] \in HandlerState /\ handler \in [Handler -> HandlerState]
        BY DEF TypeOK
      <3> USE <3>1 DEF HandlerState, HandlerTo, Uploading, Removing
      <3>2. CASE Put(h) \/ PutUnanswered(h)
        BY <2>4, <3>2 DEF Put, PutUnanswered
      <3>7. CASE InsertRow(h)
        <4>1. \/ handler' = [handler EXCEPT ![h] = IdleHandler]
              \/ \E n : handler' = [handler EXCEPT ![h] =
                          [handler[h] EXCEPT !.pc = "rollback", !.try = n]]
          BY <3>7 DEF InsertRow
        <4>2. handler[h].pc = "insert"
          BY <3>7 DEF InsertRow
        <4>3. ASSUME NEW n, handler' = [handler EXCEPT ![h] =
                          [handler[h] EXCEPT !.pc = "rollback", !.try = n]]
              PROVE  /\ handler'[h].pc = "rollback"
                     /\ handler'[h].file = handler[h].file
          BY <3>1, <4>3
        <4>4. CASE handler' = [handler EXCEPT ![h] = IdleHandler]
          BY <2>4, <3>1, <4>4
        <4> QED BY <4>1, <4>2, <4>3, <4>4
      <3>8. CASE RollbackObject(h)
        BY <2>4, <3>8 DEF RollbackObject
      <3>3. CASE Duplicate(h)
        BY <2>4, <3>3 DEF Duplicate, SameBytes
      <3>4. CASE DeleteRow(h) \/ DeleteDoc(h) \/ DeleteObject(h)
        BY <2>4, <3>4 DEF DeleteRow, DeleteDoc, DeleteObject, AfterDelete
      <3>5. CASE RequeueRow(h) \/ InsertLink(h)
        BY <2>4, <3>5 DEF RequeueRow, InsertLink
      <3>6. CASE \E f \in File : Again(h, f)
        BY <2>4, <3>6 DEF Again, IdleHandler
      <3> QED BY <2>4, <3>2, <3>3, <3>4, <3>5, <3>6, <3>7, <3>8 DEF HandlerStep
    <2> QED
      BY <2>1, <2>2, <2>3, <2>4, OtherHandlers
         DEF ThreadsHoldFiles, Uploading, Removing
  <1> QED BY <1>1, <1>2 DEF ThreadsHoldFiles, Busy

-----------------------------------------------------------------------------
(* What a step does to rows and objects. *)

(* A row enters the table by save and leaves it by delete_file. *)
LEMMA StatusMoves ==
  ASSUME TypeOK, ThreadsHoldFiles, [Next]_vars, NEW f \in File
  PROVE  \/ row'[f].status = row[f].status
         \/ InRow(f) /\ InRow(f)'
         \/ \E h \in Handler :
              /\ handler[h].pc = "insert" /\ handler[h].file = f
              /\ handler' = [handler EXCEPT ![h] = IdleHandler]
              /\ row'[f].status = "QUEUED" /\ object' = object
              /\ SameBytes(f) = {}
         \/ \E h \in Handler :
              /\ handler[h].pc = "deleteRow" /\ handler[h].target = f
              /\ InRow(f) /\ row'[f].status = "gone"
  <1> USE DEF InRow, InTable
  <1>1. row \in [File -> Row] /\ \A g \in File : row[g] \in Row
    BY DEF TypeOK
  <1>2. \A S : /\ f \in S => Requeued(S)[f].status = "QUEUED"
               /\ f \notin S => Requeued(S)[f] = row[f]
    BY <1>1 DEF Requeued, Row
  <1>3. ASSUME NEW g \in File, NEW r, row' = [row EXCEPT ![g] = r]
        PROVE  row'[f] = IF f = g THEN r ELSE row[f]
    BY <1>1, <1>3
  <1>4. ASSUME NEW w \in Worker, NEW g \in File, Claim(w, g)
        PROVE  \/ row'[f].status = row[f].status
               \/ InRow(f) /\ row'[f].status \in InTable
    BY <1>1, <1>4 DEF Claim, Row
  <1>5. ASSUME NEW w \in Worker, WorkerStep(w)
        PROVE  \/ row'[f].status = row[f].status
               \/ InRow(f) /\ row'[f].status \in InTable
    <2>1. CASE Reconcile(w)
      <3> DEFINE g == worker[w].file
      <3>1. \/ row' = row
            \/ /\ InRow(g)
               /\ \E s \in {"READY", "STORED_ONLY"} :
                    row' = [row EXCEPT ![g] = [row[g] EXCEPT !.status = s,
                                                             !.document = TRUE]]
        BY <2>1 DEF Reconcile
      <3>2. ASSUME NEW s \in {"READY", "STORED_ONLY"},
                   row' = [row EXCEPT ![g] = [row[g] EXCEPT !.status = s,
                                                            !.document = TRUE]]
            PROVE  row'[f].status = IF f = g THEN s ELSE row[f].status
        BY <1>1, <3>2 DEF Row
      <3> QED BY <3>1, <3>2 DEF Settled
    <2>2. CASE Fail(w)
      BY <1>1, <2>2 DEF Fail, Settled, Row
    <2> QED
      BY <1>5, <2>1, <2>2
         DEF WorkerStep, Fetch, Lookup, Upsert, Wipe, Insert, FailUnwritten
  <1>6. CASE RequeueStale \/ \E p \in Proc : Start(p)
    <2>1. row' = row \/ \E S \in SUBSET Processing : row' = Requeued(S)
      BY <1>6 DEF RequeueStale, Start
    <2> QED BY <1>2, <2>1 DEF Processing
  <1>7. ASSUME NEW h \in Handler, HandlerStep(h), row' # row
        PROVE  \/ row'[f].status = row[f].status
               \/ InRow(f) /\ row'[f].status \in InTable
               \/ /\ handler[h].pc = "insert" /\ handler[h].file = f
                  /\ handler' = [handler EXCEPT ![h] = IdleHandler]
                  /\ row'[f].status = "QUEUED" /\ object' = object
                  /\ SameBytes(f) = {}
               \/ /\ handler[h].pc = "deleteRow" /\ handler[h].target = f
                  /\ InRow(f) /\ row'[f].status = "gone"
    <2>1. CASE InsertRow(h)
      BY <1>1, <1>7, <2>1 DEF InsertRow, HandlerTo
    <2>2. CASE DeleteRow(h)
      BY <1>1, <1>7, <2>2 DEF DeleteRow, Row
    <2>3. CASE DeleteDoc(h)
      BY <1>1, <2>3 DEF DeleteDoc, Row
    <2>4. CASE RequeueRow(h)
      BY <1>1, <2>4 DEF RequeueRow, Row
    <2> QED
      BY <1>7, <2>1, <2>2, <2>3, <2>4
         DEF HandlerStep, Put, PutUnanswered, RollbackObject, Duplicate, DeleteObject,
             InsertLink, Again
  <1>8. ASSUME \/ \E h \in Handler, g \in File : Ask(h, g)
               \/ \E p \in Proc : Crash(p)
               \/ UNCHANGED vars
        PROVE  row' = row
    BY <1>8 DEF Ask, AskUpload, AskDelete, AskRetry, AskLink, Crash, vars
  <1> QED BY <1>4, <1>5, <1>6, <1>7, <1>8 DEF Next

(* Only a request that refused or deleted a file removes its object. *)
LEMMA ObjectMoves ==
  ASSUME [Next]_vars, NEW f \in object
  PROVE  \/ f \in object'
         \/ \E h \in Handler :
              \/ handler[h].pc = "rollback" /\ handler[h].file = f
              \/ handler[h].pc = "deleteObject" /\ handler[h].target = f
  <1>1. ASSUME NEW w \in Worker, WorkerStep(w) \/ \E g \in File : Claim(w, g)
        PROVE  object' = object
    BY <1>1 DEF WorkerStep, Fetch, Lookup, Upsert, Wipe, Insert, Reconcile,
                Fail, FailUnwritten, Claim
  <1>2. ASSUME NEW h \in Handler, HandlerStep(h)
        PROVE  \/ f \in object'
               \/ handler[h].pc = "rollback" /\ handler[h].file = f
               \/ handler[h].pc = "deleteObject" /\ handler[h].target = f
    BY <1>2 DEF HandlerStep, Put, PutUnanswered, InsertRow, RollbackObject, Duplicate,
                DeleteRow, DeleteDoc, DeleteObject, RequeueRow, InsertLink, Again
  <1>3. ASSUME \/ \E h \in Handler, g \in File : Ask(h, g)
               \/ RequeueStale
               \/ \E p \in Proc : Crash(p) \/ Start(p)
               \/ UNCHANGED vars
        PROVE  object' = object
    BY <1>3 DEF Ask, AskUpload, AskDelete, AskRetry, AskLink, RequeueStale,
                Crash, Start, vars
  <1> QED BY <1>1, <1>2, <1>3 DEF Next

(* An upload comes to hold an id by drawing a fresh one, and nothing else  *)
(* changes in that step but the request.                                   *)
LEMMA UploadMoves ==
  ASSUME TypeOK, [Next]_vars, NEW h \in Handler, handler'[h].pc \in Uploading
  PROVE  \/ /\ handler[h].pc \in Uploading
            /\ handler'[h].file = handler[h].file
            /\ handler'[h].pc = "insert" =>
                  \/ handler[h].pc = "insert"
                  \/ handler[h].file \in object'
         \/ /\ Fresh(handler'[h].file) /\ handler'[h].file \in File
            /\ handler'[h].pc = "put"
            /\ \A g \in Handler : g # h => handler'[g] = handler[g]
            /\ UNCHANGED <<row, object>>
  <1> USE DEF Uploading, HandlerTo
  <1>1. handler[h] \in HandlerState /\ handler \in [Handler -> HandlerState]
    BY DEF TypeOK
  <1>2. CASE handler'[h] = handler[h]
    BY <1>2
  <1>3. CASE handler'[h] = IdleHandler
    BY <1>3 DEF IdleHandler
  <1>4. ASSUME NEW f \in File, Ask(h, f)
        PROVE  /\ Fresh(handler'[h].file) /\ handler'[h].file = f
               /\ handler'[h].pc = "put"
               /\ \A g \in Handler : g # h => handler'[g] = handler[g]
               /\ UNCHANGED <<row, object>>
    <2>1. ~AskDelete(h, f)
      BY <1>1 DEF AskDelete, IdleHandler
    <2>2. ~AskRetry(h, f)
      BY <1>1 DEF AskRetry, IdleHandler
    <2>3. ~AskLink(h, f)
      <3>1. AskLink(h, f) =>
              HandlerTo(h, [IdleHandler EXCEPT !.pc = "link", !.target = f])
        BY Zenon DEF AskLink
      <3> QED BY <1>1, <3>1 DEF IdleHandler
    <2>4. AskUpload(h, f)
      BY <1>4, <2>1, <2>2, <2>3 DEF Ask
    <2> QED BY <1>1, <2>4 DEF AskUpload, IdleHandler
  <1>5. ASSUME NEW f \in File, Again(h, f)
        PROVE  /\ Fresh(handler'[h].file) /\ handler'[h].file = f
               /\ handler'[h].pc = "put"
               /\ \A g \in Handler : g # h => handler'[g] = handler[g]
               /\ UNCHANGED <<row, object>>
    BY <1>1, <1>5 DEF Again, IdleHandler
  <1>6. ASSUME HandlerStep(h), ~ \E f \in File : Again(h, f),
               handler'[h] # IdleHandler
        PROVE  /\ handler[h].pc \in Uploading
               /\ handler'[h].file = handler[h].file
               /\ handler'[h].pc = "insert" => handler[h].file \in object'
    <2>1. CASE Put(h) \/ PutUnanswered(h)
      BY <1>1, <1>6, <2>1 DEF Put, PutUnanswered, HandlerState
    <2>2. CASE InsertRow(h)
      <3>1. \E n : handler' = [handler EXCEPT ![h] =
                         [handler[h] EXCEPT !.pc = "rollback", !.try = n]]
        BY <1>1, <1>6, <2>2 DEF InsertRow
      <3>2. ASSUME NEW n, handler' = [handler EXCEPT ![h] =
                         [handler[h] EXCEPT !.pc = "rollback", !.try = n]]
            PROVE  /\ handler'[h].pc = "rollback"
                   /\ handler'[h].file = handler[h].file
        BY <1>1, <3>2 DEF HandlerState
      <3> QED BY <2>2, <3>1, <3>2 DEF InsertRow
    <2>3. ~RollbackObject(h) /\ ~Duplicate(h)
      BY <1>1, <1>6 DEF RollbackObject, Duplicate, HandlerState
    <2>4. ~DeleteRow(h)
      BY <1>1, <1>6 DEF DeleteRow, AfterDelete, HandlerState
    <2>5. ~DeleteDoc(h) /\ ~DeleteObject(h)
      BY <1>1, <1>6 DEF DeleteDoc, DeleteObject, AfterDelete, HandlerState
    <2>6. ~RequeueRow(h) /\ ~InsertLink(h)
      BY <1>1, <1>6 DEF RequeueRow, InsertLink
    <2> QED BY <1>6, <2>1, <2>2, <2>3, <2>4, <2>5, <2>6 DEF HandlerStep
  <1> QED BY <1>2, <1>3, <1>4, <1>5, <1>6, OtherHandlers

(* A request comes to clean up only after it has removed the row. *)
LEMMA RemovalMoves ==
  ASSUME TypeOK, ThreadsHoldFiles, [Next]_vars,
         NEW h \in Handler, handler'[h].pc \in Removing
  PROVE  /\ handler'[h].target = handler[h].target
         /\ \/ handler[h].pc \in Removing
            \/ handler[h].pc = "deleteRow" /\ row'[handler[h].target].status = "gone"
  <1> USE DEF Removing, HandlerTo
  <1>1. /\ handler[h] \in HandlerState /\ handler \in [Handler -> HandlerState]
        /\ row \in [File -> Row] /\ \A f \in File : row[f] \in Row
    BY DEF TypeOK
  <1>2. CASE handler'[h] = handler[h]
    BY <1>2
  <1>3. CASE handler'[h] = IdleHandler
    BY <1>3 DEF IdleHandler
  <1>4. ASSUME NEW f \in File, Ask(h, f)
        PROVE  FALSE
    <2>1. \E pc \in {"put", "deleteRow", "requeue", "link"} :
            handler'[h].pc = pc
      <3>1. CASE AskUpload(h, f)
        BY <1>1, <3>1 DEF AskUpload, IdleHandler
      <3>2. CASE AskDelete(h, f)
        BY <1>1, <3>2 DEF AskDelete, IdleHandler
      <3>3. CASE AskRetry(h, f)
        BY <1>1, <3>3 DEF AskRetry, IdleHandler
      <3>4. CASE AskLink(h, f)
        BY <1>1, <3>4 DEF AskLink, IdleHandler
      <3> QED BY <1>4, <3>1, <3>2, <3>3, <3>4 DEF Ask
    <2> QED BY <2>1
  <1>5. ASSUME HandlerStep(h), handler'[h] # IdleHandler
        PROVE  /\ handler'[h].target = handler[h].target
               /\ \/ handler[h].pc \in Removing
                  \/ /\ handler[h].pc = "deleteRow"
                     /\ row'[handler[h].target].status = "gone"
    <2>1. CASE DeleteRow(h)
      <3>1. handler[h].target \in File
        BY <2>1 DEF DeleteRow, ThreadsHoldFiles
      <3>2. handler[h].pc = "deleteRow" /\ handler'[h].target = handler[h].target
        BY <1>1, <1>5, <2>1 DEF DeleteRow, AfterDelete, HandlerState
      <3>3. \/ handler'[h].pc = "again"
            \/ row' = [row EXCEPT ![handler[h].target] =
                  [row[handler[h].target] EXCEPT !.status = "gone",
                                                 !.document = FALSE]]
        BY <1>1, <1>5, <2>1 DEF DeleteRow, AfterDelete, HandlerState
      <3>4. row'[handler[h].target].status = "gone"
        <4> DEFINE g == handler[h].target
        <4>1. row[g] \in Row
          BY <1>1, <3>1
        <4>2. [row[g] EXCEPT !.status = "gone", !.document = FALSE].status = "gone"
          BY <4>1 DEF Row
        <4> QED BY <1>1, <3>1, <3>3, <4>2
      <3> QED BY <3>2, <3>4
    <2>2. CASE DeleteDoc(h) \/ DeleteObject(h)
      BY <1>1, <1>5, <2>2
         DEF DeleteDoc, DeleteObject, AfterDelete, HandlerState
    <2>3. /\ ~Put(h) /\ ~PutUnanswered(h)
          /\ ~RollbackObject(h) /\ ~Duplicate(h)
      BY <1>1, <1>5
         DEF Put, PutUnanswered, RollbackObject, Duplicate, HandlerState
    <2>4. ~InsertRow(h)
      <3>1. InsertRow(h) =>
              \E n : handler' = [handler EXCEPT ![h] =
                       [handler[h] EXCEPT !.pc = "rollback", !.try = n]]
        BY <1>1, <1>5 DEF InsertRow
      <3>2. ASSUME NEW n, handler' = [handler EXCEPT ![h] =
                       [handler[h] EXCEPT !.pc = "rollback", !.try = n]]
            PROVE  FALSE
        BY <1>1, <3>2 DEF HandlerState
      <3> QED BY <3>1, <3>2
    <2>5. ~RequeueRow(h) /\ ~InsertLink(h)
      BY <1>1, <1>5 DEF RequeueRow, InsertLink
    <2>6. ~ \E f \in File : Again(h, f)
      BY <1>1 DEF Again, IdleHandler
    <2> QED BY <1>5, <2>1, <2>2, <2>3, <2>4, <2>5, <2>6 DEF HandlerStep
  <1> QED BY <1>2, <1>3, <1>4, <1>5, OtherHandlers

-----------------------------------------------------------------------------
(* Every step keeps the storage invariant. *)

LEMMA StorageStep == StorageInv /\ [Next]_vars => StorageInv'
  <1> SUFFICES ASSUME StorageInv, [Next]_vars PROVE StorageInv'
    OBVIOUS
  <1>1. /\ TypeOK /\ ThreadsHoldFiles /\ UploadsOwnIds /\ ObjectBeforeRow
        /\ RowBeforeObject /\ ObjectBehindRow
    BY DEF StorageInv
  <1>2. TypeOK' /\ ThreadsHoldFiles'
    BY <1>1, TypeStep, HoldStep
  <1>3. UploadsOwnIds'
    <2>1. ASSUME NEW h \in Handler, handler'[h].pc \in Uploading
          PROVE  row'[handler'[h].file].status = "none"
      <3>1. CASE handler[h].pc \in Uploading /\ handler'[h].file = handler[h].file
        <4> DEFINE f == handler[h].file
        <4>1. f \in File /\ row[f].status = "none"
          BY <1>1, <3>1 DEF ThreadsHoldFiles, UploadsOwnIds
        <4>2. ~InRow(f)
          BY <4>1 DEF InRow, InTable, Settled
        <4>3. ASSUME NEW g \in Handler,
                     handler[g].pc = "insert", handler[g].file = f,
                     handler' = [handler EXCEPT ![g] = IdleHandler]
              PROVE  FALSE
          <5>1. g = h
            BY <1>1, <3>1, <4>3 DEF UploadsOwnIds, Uploading
          <5> QED BY <1>1, <2>1, <4>3, <5>1 DEF TypeOK, IdleHandler, Uploading
        <4> QED BY <1>1, <3>1, <4>1, <4>2, <4>3, StatusMoves
      <3>2. CASE Fresh(handler'[h].file) /\ UNCHANGED row
        BY <3>2 DEF Fresh
      <3> QED BY <1>1, <2>1, <3>1, <3>2, UploadMoves
    <2>2. ASSUME NEW g \in Handler, NEW h \in Handler,
                 handler'[g].pc \in Uploading, handler'[h].pc \in Uploading,
                 handler'[g].file = handler'[h].file
          PROVE  g = h
      <3>1. ASSUME NEW k \in Handler, NEW l \in Handler, k # l,
                   handler'[l].pc \in Uploading,
                   Fresh(handler'[k].file), handler'[l] = handler[l]
            PROVE  handler'[k].file # handler'[l].file
        BY <3>1 DEF Fresh, Uploading
      <3>2. CASE /\ handler[g].pc \in Uploading
                 /\ handler'[g].file = handler[g].file
                 /\ handler[h].pc \in Uploading
                 /\ handler'[h].file = handler[h].file
        BY <1>1, <2>2, <3>2 DEF UploadsOwnIds
      <3> QED BY <1>1, <2>2, <3>1, <3>2, UploadMoves
    <2> QED BY <2>1, <2>2 DEF UploadsOwnIds
  <1>4. ObjectBeforeRow'
    <2> SUFFICES ASSUME NEW h \in Handler, handler'[h].pc = "insert"
                 PROVE  handler'[h].file \in object'
      BY DEF ObjectBeforeRow
    <2> DEFINE f == handler[h].file
    <2>1. /\ handler[h].pc \in Uploading /\ handler'[h].file = f
          /\ handler[h].pc = "insert" \/ f \in object'
      BY <1>1, UploadMoves DEF Uploading
    <2>2. CASE handler[h].pc = "insert"
      <3>1. f \in object /\ row[f].status = "none"
        BY <1>1, <2>1, <2>2 DEF ObjectBeforeRow, UploadsOwnIds
      <3>2. ASSUME NEW g \in Handler,
                   handler[g].pc = "rollback", handler[g].file = f
            PROVE  FALSE
        BY <1>1, <2>1, <2>2, <3>2 DEF UploadsOwnIds, Uploading
      <3>3. ASSUME NEW g \in Handler,
                   handler[g].pc = "deleteObject", handler[g].target = f
            PROVE  FALSE
        BY <1>1, <3>1, <3>3 DEF RowBeforeObject, Removing
      <3> QED BY <2>1, <3>1, <3>2, <3>3, ObjectMoves
    <2> QED BY <2>1, <2>2
  <1>5. RowBeforeObject'
    <2> SUFFICES ASSUME NEW h \in Handler, handler'[h].pc \in Removing
                 PROVE  row'[handler'[h].target].status = "gone"
      BY DEF RowBeforeObject
    <2> DEFINE g == handler[h].target
    <2>1. handler'[h].target = g
      BY <1>1, RemovalMoves
    <2>2. CASE handler[h].pc \in Removing
      <3>1. g \in File /\ row[g].status = "gone"
        BY <1>1, <2>2 DEF ThreadsHoldFiles, RowBeforeObject
      <3>2. ~InRow(g)
        BY <3>1 DEF InRow, InTable, Settled
      <3>3. ASSUME NEW k \in Handler,
                   handler[k].pc = "insert", handler[k].file = g
            PROVE  FALSE
        BY <1>1, <3>1, <3>3 DEF UploadsOwnIds, Uploading
      <3> QED BY <1>1, <2>1, <3>1, <3>2, <3>3, StatusMoves
    <2> QED BY <1>1, <2>1, <2>2, RemovalMoves
  <1>6. ObjectBehindRow'
    <2> SUFFICES ASSUME NEW f \in File, InRow(f)'
                 PROVE  f \in object'
      BY DEF ObjectBehindRow
    <2>1. CASE InRow(f)
      <3>1. f \in object
        BY <1>1, <2>1 DEF ObjectBehindRow
      <3>2. row[f].status # "none" /\ row[f].status # "gone"
        BY <2>1 DEF InRow, InTable, Settled
      <3>3. ASSUME NEW g \in Handler,
                   \/ handler[g].pc = "rollback" /\ handler[g].file = f
                   \/ handler[g].pc = "deleteObject" /\ handler[g].target = f
            PROVE  FALSE
        BY <1>1, <3>2, <3>3 DEF UploadsOwnIds, RowBeforeObject, Uploading, Removing
      <3> QED BY <3>1, <3>3, ObjectMoves
    <2>2. CASE ~InRow(f)
      <3>1. row'[f].status # row[f].status /\ row'[f].status # "gone"
        BY <2>2 DEF InRow, InTable, Settled
      <3>2. \E h \in Handler : /\ handler[h].pc = "insert" /\ handler[h].file = f
                               /\ object' = object
        BY <1>1, <2>2, <3>1, StatusMoves
      <3> QED BY <1>1, <3>2 DEF ObjectBeforeRow
    <2> QED BY <2>1, <2>2
  <1> QED BY <1>2, <1>3, <1>4, <1>5, <1>6 DEF StorageInv

(* Whatever the requests, the crashes and the failed clean-ups, the        *)
(* storage invariant holds: in particular the types are right and ...      *)
THEOREM StorageCorrect == Spec => []StorageInv
  BY InitStorage, StorageStep, PTL DEF Spec

THEOREM TypeCorrect == Spec => []TypeOK
  <1>1. StorageInv => TypeOK
    BY DEF StorageInv
  <1> QED BY <1>1, StorageCorrect, PTL

(* ... the bytes behind every row are in object storage. *)
THEOREM ObjectsBehindRows == Spec => []ObjectBehindRow
  <1>1. StorageInv => ObjectBehindRow
    BY DEF StorageInv
  <1> QED BY <1>1, StorageCorrect, PTL

-----------------------------------------------------------------------------
(* The pipeline implements its abstract specification: every step of       *)
(* FilePipeline is a step of FileShelf or leaves the shelf and the kept    *)
(* bytes alone.                                                            *)

Onto == [f \in File |-> ShelfOf(row[f].status)]

LEMMA ShelfTable ==
  /\ ShelfOf("none") = "absent" /\ ShelfOf("gone") = "gone"
  /\ ShelfOf("QUEUED") = "pending" /\ ShelfOf("PROCESSING") = "pending"
  /\ ShelfOf("READY") = "ready" /\ ShelfOf("STORED_ONLY") = "stored"
  /\ ShelfOf("FAILED") = "failed"
  BY DEF ShelfOf

LEMMA OnShelfIsInRow ==
  ASSUME TypeOK, NEW f \in File
  PROVE  (ShelfOf(row[f].status) \in {"pending"} \cup Shelf!Outcome) <=> InRow(f)
  <1>1. row[f].status \in InTable \cup Absent
    BY DEF TypeOK, Row
  <1> QED
    BY <1>1, ShelfTable DEF InRow, InTable, Settled, Absent, Shelf!Outcome

(* A step that changes the status of one file only. *)
LEMMA OneFileMoves ==
  ASSUME NEW f \in File,
         \A g \in File \ {f} : row'[g].status = row[g].status
  PROVE  Onto' = [Onto EXCEPT ![f] = ShelfOf(row'[f].status)]
  BY DEF Onto

LEMMA NoFileMoves ==
  ASSUME \A g \in File : ShelfOf(row'[g].status) = ShelfOf(row[g].status),
         UNCHANGED object
  PROVE  UNCHANGED <<Onto, object>>
  BY DEF Onto

(* A status change the trigger lets through settles a file, reopens it or  *)
(* leaves it where it stands.                                              *)
LEMMA LifecycleStep ==
  ASSUME TypeOK, NEW f \in File, InRow(f), UNCHANGED object,
         \A g \in File \ {f} : row'[g].status = row[g].status,
         row'[f].status \in InTable,
         MayBecome(row[f].status, row'[f].status)
  PROVE  [Shelf!ShelfNext]_<<Onto, object>>
  <1> DEFINE old == row[f].status  new == row'[f].status
  <1>1. Onto' = [Onto EXCEPT ![f] = ShelfOf(new)]
    BY OneFileMoves
  <1>2. Onto[f] = ShelfOf(old)
    BY DEF Onto
  <1>3. CASE ShelfOf(old) = ShelfOf(new)
    BY <1>3, NoFileMoves
  <1>4. CASE ShelfOf(old) = "pending" /\ ShelfOf(new) \in Shelf!Outcome
    <2>1. Shelf!Settle(f)
      BY <1>1, <1>2, <1>4 DEF Shelf!Settle, Onto
    <2> QED BY <2>1 DEF Shelf!ShelfNext
  <1>5. CASE ShelfOf(old) \in Shelf!Outcome /\ ShelfOf(new) = "pending"
    <2>1. Shelf!Reopen(f)
      BY <1>1, <1>2, <1>5 DEF Shelf!Reopen, Onto
    <2> QED BY <2>1 DEF Shelf!ShelfNext
  <1>6. \/ ShelfOf(old) = ShelfOf(new)
        \/ ShelfOf(old) = "pending" /\ ShelfOf(new) \in Shelf!Outcome
        \/ ShelfOf(old) \in Shelf!Outcome /\ ShelfOf(new) = "pending"
    BY ShelfTable DEF MayBecome, InRow, InTable, Settled, Shelf!Outcome
  <1> QED BY <1>3, <1>4, <1>5, <1>6

LEMMA WorkerShelfStep ==
  ASSUME TypeOK, ThreadsHoldFiles, NEW w \in Worker,
         WorkerStep(w) \/ \E f \in File : Claim(w, f)
  PROVE  [Shelf!ShelfNext]_<<Onto, object>>
  <1>1. row \in [File -> Row] /\ \A g \in File : row[g] \in Row
    BY DEF TypeOK
  <1>2. ASSUME NEW f \in File, Claim(w, f)
        PROVE  [Shelf!ShelfNext]_<<Onto, object>>
    <2>1. row'[f].status = "PROCESSING" /\ \A g \in File \ {f} : row'[g] = row[g]
      BY <1>1, <1>2 DEF Claim, Row
    <2>2. row[f].status = "QUEUED" /\ UNCHANGED object
      BY <1>2 DEF Claim
    <2> QED
      BY <2>1, <2>2, LifecycleStep DEF InRow, InTable, MayBecome
  <1>3. CASE Reconcile(w)
    <2> DEFINE f == worker[w].file
    <2>1. f \in File /\ UNCHANGED object
      BY <1>3 DEF Reconcile, ThreadsHoldFiles, Busy
    <2>2. CASE row' = row
      BY <2>1, <2>2, NoFileMoves
    <2>3. ASSUME row' # row
          PROVE  \E s \in {"READY", "STORED_ONLY"} :
                   /\ InRow(f) /\ MayBecome(row[f].status, s)
                   /\ row' = [row EXCEPT ![f] =
                                [row[f] EXCEPT !.status = s, !.document = TRUE]]
      BY <1>3, <2>3 DEF Reconcile
    <2>4. ASSUME NEW s \in {"READY", "STORED_ONLY"},
                 InRow(f), MayBecome(row[f].status, s),
                 row' = [row EXCEPT ![f] =
                           [row[f] EXCEPT !.status = s, !.document = TRUE]]
          PROVE  [Shelf!ShelfNext]_<<Onto, object>>
      <3>1. row'[f].status = s /\ \A g \in File \ {f} : row'[g] = row[g]
        BY <1>1, <2>1, <2>4 DEF Row
      <3> QED
        BY <2>1, <2>4, <3>1, LifecycleStep DEF InTable, Settled
    <2> QED BY <2>2, <2>3, <2>4
  <1>4. CASE Fail(w)
    <2> DEFINE f == worker[w].file
    <2>1. f \in File /\ UNCHANGED object
      BY <1>4 DEF Fail, ThreadsHoldFiles, Busy
    <2>2. CASE row' = row
      BY <2>1, <2>2, NoFileMoves
    <2>3. ASSUME row' # row
          PROVE  \E s \in {"QUEUED", "FAILED"} :
                   /\ InRow(f) /\ MayBecome(row[f].status, s)
                   /\ row' = [row EXCEPT ![f].status = s]
      BY <1>4, <2>3 DEF Fail
    <2>4. ASSUME NEW s \in {"QUEUED", "FAILED"},
                 InRow(f), MayBecome(row[f].status, s),
                 row' = [row EXCEPT ![f].status = s]
          PROVE  [Shelf!ShelfNext]_<<Onto, object>>
      <3>1. row'[f].status = s /\ \A g \in File \ {f} : row'[g] = row[g]
        BY <1>1, <2>1, <2>4 DEF Row
      <3> QED
        BY <2>1, <2>4, <3>1, LifecycleStep DEF InTable, Settled
    <2> QED BY <2>2, <2>3, <2>4
  <1>5. CASE \/ Fetch(w) \/ Lookup(w) \/ Upsert(w) \/ Wipe(w) \/ Insert(w)
             \/ FailUnwritten(w)
    <2>1. UNCHANGED <<row, object>>
      BY <1>5 DEF Fetch, Lookup, Upsert, Wipe, Insert, FailUnwritten
    <2> QED BY <2>1, NoFileMoves
  <1> QED BY <1>2, <1>3, <1>4, <1>5 DEF WorkerStep

LEMMA RequeueShelfStep ==
  ASSUME TypeOK, UNCHANGED object,
         row' = row \/ \E S \in SUBSET Processing : row' = Requeued(S)
  PROVE  UNCHANGED <<Onto, object>>
  <1>1. ASSUME NEW S \in SUBSET Processing, row' = Requeued(S), NEW g \in File
        PROVE  ShelfOf(row'[g].status) = ShelfOf(row[g].status)
    <2>1. row[g] \in Row
      BY DEF TypeOK
    <2>2. CASE g \in S
      BY <1>1, <2>1, <2>2, ShelfTable DEF Requeued, Processing, Row
    <2>3. CASE g \notin S
      BY <1>1, <2>3 DEF Requeued
    <2> QED BY <2>2, <2>3
  <1> QED BY <1>1, NoFileMoves

LEMMA HandlerShelfStep ==
  ASSUME StorageInv, NEW h \in Handler, HandlerStep(h)
  PROVE  [Shelf!ShelfNext]_<<Onto, object>>
  <1> DEFINE f == handler[h].file  g == handler[h].target
  <1>1. /\ TypeOK /\ ThreadsHoldFiles /\ UploadsOwnIds /\ RowBeforeObject
        /\ ObjectBeforeRow
    BY DEF StorageInv
  <1>2. row \in [File -> Row] /\ \A k \in File : row[k] \in Row
    BY <1>1 DEF TypeOK
  <1>3. CASE Put(h) \/ PutUnanswered(h)
    <2>1. f \in File /\ Onto[f] = "absent"
      BY <1>1, <1>3, ShelfTable
         DEF Put, PutUnanswered, ThreadsHoldFiles, UploadsOwnIds, Uploading,
             Onto
    <2>2. UNCHANGED Onto
      BY <1>3 DEF Put, PutUnanswered, Onto
    <2>3. UNCHANGED object \/ object' = object \cup {f}
      BY <1>3 DEF Put, PutUnanswered
    <2>4. UNCHANGED object \/ Shelf!Keep(f)
      BY <2>1, <2>2, <2>3 DEF Shelf!Keep, Onto
    <2> QED BY <2>1, <2>2, <2>4 DEF Shelf!ShelfNext
  <1>4. CASE InsertRow(h)
    <2>1. /\ f \in File /\ Onto[f] = "absent" /\ f \in object
          /\ UNCHANGED object
      BY <1>1, <1>4, ShelfTable
         DEF InsertRow, ThreadsHoldFiles, UploadsOwnIds, ObjectBeforeRow,
             Uploading, Onto
    <2>2. CASE row' = row
      BY <2>1, <2>2, NoFileMoves
    <2>3. CASE row' # row
      <3>1. /\ SameBytes(f) = {}
            /\ row' = [row EXCEPT ![f] = [status |-> "QUEUED", attempts |-> 0,
                                          document |-> FALSE]]
        BY <1>4, <2>3 DEF InsertRow
      <3>2. row'[f].status = "QUEUED" /\ \A k \in File \ {f} : row'[k] = row[k]
        BY <1>2, <2>1, <3>1
      <3>3. Onto' = [Onto EXCEPT ![f] = "pending"]
        BY <2>1, <3>2, OneFileMoves, ShelfTable
      <3>4. \A k \in File : Shelf!OnShelf(k) => ContentOf[k] # ContentOf[f]
        BY <1>1, <3>1, OnShelfIsInRow DEF SameBytes, Shelf!OnShelf
      <3>5. Shelf!Add(f)
        BY <2>1, <3>3, <3>4 DEF Shelf!Add, Onto
      <3> QED BY <2>1, <3>5 DEF Shelf!ShelfNext
    <2> QED BY <2>2, <2>3
  <1>5. CASE RollbackObject(h)
    <2>1. f \in File /\ Onto[f] = "absent"
      BY <1>1, <1>5, ShelfTable
         DEF RollbackObject, ThreadsHoldFiles, UploadsOwnIds, Uploading, Onto
    <2>2. UNCHANGED Onto
      BY <1>5 DEF RollbackObject, Onto
    <2>3. UNCHANGED object \/ object' = object \ {f}
      BY <1>5 DEF RollbackObject
    <2>4. UNCHANGED object \/ Shelf!Discard(f)
      BY <2>1, <2>2, <2>3
         DEF Shelf!Discard, Shelf!OnShelf, Shelf!Outcome, Onto
    <2> QED BY <2>1, <2>2, <2>4 DEF Shelf!ShelfNext
  <1>6. CASE DeleteObject(h)
    <2>1. g \in File /\ Onto[g] = "gone"
      BY <1>1, <1>6, ShelfTable
         DEF DeleteObject, ThreadsHoldFiles, RowBeforeObject, Removing, Onto
    <2>2. UNCHANGED Onto
      BY <1>6 DEF DeleteObject, Onto
    <2>3. UNCHANGED object \/ object' = object \ {g}
      BY <1>6 DEF DeleteObject
    <2>4. UNCHANGED object \/ Shelf!Discard(g)
      BY <2>1, <2>2, <2>3
         DEF Shelf!Discard, Shelf!OnShelf, Shelf!Outcome, Onto
    <2> QED BY <2>1, <2>2, <2>4 DEF Shelf!ShelfNext
  <1>7. CASE DeleteRow(h)
    <2>1. g \in File /\ UNCHANGED object
      BY <1>1, <1>7 DEF DeleteRow, ThreadsHoldFiles
    <2>2. CASE row' = row
      BY <2>1, <2>2, NoFileMoves
    <2>3. CASE row' # row
      <3>1. /\ InRow(g)
            /\ row' = [row EXCEPT ![g] = [row[g] EXCEPT !.status = "gone",
                                                        !.document = FALSE]]
        BY <1>7, <2>3 DEF DeleteRow
      <3>2. row'[g].status = "gone" /\ \A k \in File \ {g} : row'[k] = row[k]
        BY <1>2, <2>1, <3>1 DEF Row
      <3>3. Onto' = [Onto EXCEPT ![g] = "gone"]
        BY <2>1, <3>2, OneFileMoves, ShelfTable
      <3>4. Shelf!OnShelf(g)
        BY <1>1, <2>1, <3>1, OnShelfIsInRow DEF Shelf!OnShelf
      <3>5. Shelf!Remove(g)
        BY <2>1, <3>3, <3>4 DEF Shelf!Remove, Onto
      <3> QED BY <2>1, <3>5 DEF Shelf!ShelfNext
    <2> QED BY <2>2, <2>3
  <1>8. CASE DeleteDoc(h)
    <2>1. \A k \in File : row'[k].status = row[k].status
      BY <1>2, <1>8 DEF DeleteDoc, Row
    <2> QED BY <1>8, <2>1, NoFileMoves DEF DeleteDoc
  <1>9. CASE RequeueRow(h)
    <2>1. g \in File /\ UNCHANGED object
      BY <1>1, <1>9 DEF RequeueRow, ThreadsHoldFiles
    <2>2. CASE row' = row
      BY <2>1, <2>2, NoFileMoves
    <2>3. CASE row' # row
      <3>1. /\ InRow(g)
            /\ row' = [row EXCEPT ![g] = [row[g] EXCEPT !.status = "QUEUED",
                                                        !.attempts = 0]]
        BY <1>9, <2>3 DEF RequeueRow
      <3>2. row'[g].status = "QUEUED" /\ \A k \in File \ {g} : row'[k] = row[k]
        BY <1>2, <2>1, <3>1 DEF Row
      <3>3. MayBecome(row[g].status, "QUEUED")
        BY <3>1 DEF InRow, InTable, MayBecome
      <3> QED BY <1>1, <2>1, <3>1, <3>2, <3>3, LifecycleStep DEF InTable
    <2> QED BY <2>2, <2>3
  <1>10. CASE Duplicate(h) \/ InsertLink(h) \/ \E k \in File : Again(h, k)
    <2>1. UNCHANGED <<row, object>>
      BY <1>10 DEF Duplicate, InsertLink, Again
    <2> QED BY <2>1, NoFileMoves
  <1> QED
    BY <1>3, <1>4, <1>5, <1>6, <1>7, <1>8, <1>9, <1>10 DEF HandlerStep

LEMMA ShelfStep ==
  ASSUME StorageInv, [Next]_vars
  PROVE  [Shelf!ShelfNext]_<<Onto, object>>
  <1>1. TypeOK /\ ThreadsHoldFiles
    BY DEF StorageInv
  <1>2. ASSUME \/ \E h \in Handler, f \in File : Ask(h, f)
               \/ \E p \in Proc : Crash(p)
               \/ UNCHANGED vars
        PROVE  UNCHANGED <<Onto, object>>
    <2>1. UNCHANGED <<row, object>>
      BY <1>2 DEF Ask, AskUpload, AskDelete, AskRetry, AskLink, Crash, vars
    <2> QED BY <2>1, NoFileMoves
  <1>3. ASSUME RequeueStale \/ \E p \in Proc : Start(p)
        PROVE  UNCHANGED <<Onto, object>>
    <2>1. /\ UNCHANGED object
          /\ row' = row \/ \E S \in SUBSET Processing : row' = Requeued(S)
      BY <1>3 DEF RequeueStale, Start
    <2> QED BY <1>1, <2>1, RequeueShelfStep
  <1> QED BY <1>1, <1>2, <1>3, WorkerShelfStep, HandlerShelfStep DEF Next

LEMMA ShelfStart == Init => Shelf!ShelfInit
  BY ShelfTable DEF Init, Shelf!ShelfInit

(* The pipeline implements the shelf: a file appears only with its bytes   *)
(* kept and no equal file there, an outcome is written only over pending   *)
(* work, and a file taken off never returns, whatever crashes in between.  *)
THEOREM PipelineImplementsShelf == Spec => ImplementsShelf
  <1>1. StorageInv /\ [Next]_vars => [Shelf!ShelfNext]_<<Onto, object>>
    BY ShelfStep
  <1> QED
    BY <1>1, ShelfStart, StorageCorrect, PTL
       DEF Spec, ImplementsShelf, Shelf!ShelfSpec, Onto

-----------------------------------------------------------------------------
(* Who works on a file, when nothing disturbs the claims: the deployment   *)
(* has one process, no thread outlives ingest_stale_minutes and no teacher *)
(* asks for a retry.  The run FilePipelineTwice shows that the last        *)
(* condition cannot be dropped.                                            *)

Undisturbed ==
    /\ "retry" \notin Asks
    /\ "slow" \notin Mishaps
    /\ \A p, q \in Proc : p = q

(* The file of a busy thread is still PROCESSING, or has been deleted. *)
ClaimsHold ==
    \A w \in Worker : Busy(w) => row[worker[w].file].status \in {"PROCESSING", "gone"}

(* A thread runs only while its process does. *)
RunsWithin == \A w \in Worker : worker[w].pc # "down" => ProcOf[w] \in up

NoRetry == \A h \in Handler : handler[h].pc # "requeue"

ClaimInv == StorageInv /\ ClaimsHold /\ OneWorkerPerFile /\ RunsWithin /\ NoRetry

LEMMA InitClaim == Init => ClaimInv
  <1>1. Init => ClaimsHold /\ OneWorkerPerFile /\ RunsWithin /\ NoRetry
    BY ThreadsAssumption
       DEF Init, ClaimsHold, OneWorkerPerFile, RunsWithin, NoRetry, Busy,
           Idle, IdleHandler
  <1> QED BY <1>1, InitStorage DEF ClaimInv

(* A step of one thread moves no other, and it works on the same attempt   *)
(* at the same file or on none.                                            *)
LEMMA WorkerMoves ==
  ASSUME TypeOK, NEW w \in Worker, WorkerStep(w)
  PROVE  /\ \A v \in Worker \ {w} : worker'[v] = worker[v]
         /\ \/ worker'[w] = Idle
            \/ /\ worker'[w].file = worker[w].file
               /\ worker'[w].attempt = worker[w].attempt
               /\ Busy(w)'
         /\ Busy(w)
         /\ UNCHANGED <<handler, up>>
  <1>1. worker[w] \in WorkerState /\ worker \in [Worker -> WorkerState]
    BY DEF TypeOK
  <1>2. \A s : worker' = [worker EXCEPT ![w] = s] =>
          \A v \in Worker \ {w} : worker'[v] = worker[v]
    BY <1>1
  <1>3. ASSUME NEW pc \in WorkerPC \ {"idle", "down"}, GoTo(w, pc)
        PROVE  worker'[w].file = worker[w].file
               /\ worker'[w].attempt = worker[w].attempt /\ Busy(w)'
               /\ \A v \in Worker \ {w} : worker'[v] = worker[v]
    BY <1>1, <1>3 DEF GoTo, WorkerState, Busy
  <1>4. ASSUME NEW e, Raise(w, e)
        PROVE  worker'[w].file = worker[w].file
               /\ worker'[w].attempt = worker[w].attempt /\ Busy(w)'
               /\ \A v \in Worker \ {w} : worker'[v] = worker[v]
    BY <1>1, <1>4 DEF Raise, WorkerState, Busy
  <1>5. ASSUME Finish(w)
        PROVE  worker'[w] = Idle /\ \A v \in Worker \ {w} : worker'[v] = worker[v]
    BY <1>1, <1>5 DEF Finish
  <1>6. CASE Insert(w)
    <2>1. \/ \E e : Raise(w, e)
          \/ \E n : \E pc \in {"reconcile", "insert"} : worker' = [worker EXCEPT ![w] =
                          [worker[w] EXCEPT !.pc = pc, !.next = n]]
      BY <1>6 DEF Insert
    <2>2. ASSUME NEW pc \in {"reconcile", "insert"}, NEW n,
                 worker' = [worker EXCEPT ![w] =
                          [worker[w] EXCEPT !.pc = pc, !.next = n]]
          PROVE  worker'[w].file = worker[w].file
                 /\ worker'[w].attempt = worker[w].attempt /\ Busy(w)'
                 /\ \A v \in Worker \ {w} : worker'[v] = worker[v]
      BY <1>1, <2>2 DEF WorkerState, Busy
    <2> QED BY <1>4, <1>6, <2>1, <2>2 DEF Insert, Busy
  <1>7. CASE ~Insert(w)
    <2>1. \/ \E pc \in WorkerPC \ {"idle", "down"} : GoTo(w, pc)
          \/ \E e : Raise(w, e)
          \/ Finish(w)
      BY <1>7 DEF WorkerStep, Fetch, Lookup, Upsert, Wipe, Reconcile, Fail,
                  FailUnwritten, WorkerPC
    <2>2. Busy(w) /\ UNCHANGED <<handler, up>>
      BY <1>7 DEF WorkerStep, Fetch, Lookup, Upsert, Wipe, Reconcile, Fail,
                  FailUnwritten, Busy
    <2> QED BY <1>3, <1>4, <1>5, <2>1, <2>2
  <1> QED BY <1>6, <1>7

(* A step of a thread changes the row of its own file only. *)
LEMMA WorkerRows ==
  ASSUME TypeOK, NEW w \in Worker, WorkerStep(w)
  PROVE  \A f \in File \ {worker[w].file} : row'[f] = row[f]
  <1>1. row \in [File -> Row]
    BY DEF TypeOK
  <1> QED
    BY <1>1 DEF WorkerStep, Fetch, Lookup, Upsert, Wipe, Insert, Reconcile,
                Fail, FailUnwritten

(* Between reading a row and writing its outcome a thread leaves it alone, *)
(* and its outcome is written over PROCESSING only.                        *)
LEMMA WorkerOutcome ==
  ASSUME TypeOK, ThreadsHoldFiles, ClaimsHold, NEW w \in Worker, WorkerStep(w)
  PROVE  /\ worker'[w] = Idle \/ row' = row
         /\ row[worker[w].file].status = "PROCESSING" \/ row' = row
  <1>1. worker[w].file \in File /\ Busy(w)
    BY WorkerMoves DEF ThreadsHoldFiles
  <1>2. row[worker[w].file].status \in {"PROCESSING", "gone"}
    BY <1>1 DEF ClaimsHold
  <1>3. row[worker[w].file].status = "gone" => ~InRow(worker[w].file)
    BY DEF InRow, InTable, Settled
  <1>4. worker \in [Worker -> WorkerState]
    BY DEF TypeOK
  <1>5. CASE Reconcile(w) \/ Fail(w)
    BY <1>2, <1>3, <1>4, <1>5 DEF Reconcile, Fail, Finish
  <1>6. CASE ~Reconcile(w) /\ ~Fail(w)
    BY <1>6 DEF WorkerStep, Fetch, Lookup, Upsert, Wipe, Insert, FailUnwritten
  <1> QED BY <1>5, <1>6

(* Only the request for a retry leads to requeueing a row. *)
LEMMA RequeueMoves ==
  ASSUME TypeOK, [Next]_vars, "retry" \notin Asks,
         NEW h \in Handler, handler'[h].pc = "requeue"
  PROVE  handler[h].pc = "requeue"
  <1> USE DEF HandlerTo
  <1>1. handler[h] \in HandlerState /\ handler \in [Handler -> HandlerState]
    BY DEF TypeOK
  <1>2. ASSUME NEW f \in File, Ask(h, f)
        PROVE  FALSE
    <2>1. ~AskRetry(h, f)
      BY DEF AskRetry, Accepts
    <2>2. ~AskUpload(h, f)
      BY <1>1 DEF AskUpload, IdleHandler
    <2>3. ~AskDelete(h, f)
      BY <1>1 DEF AskDelete, IdleHandler
    <2>4. AskLink(h, f) =>
            handler' = [handler EXCEPT ![h] =
                          [IdleHandler EXCEPT !.pc = "link", !.target = f]]
      BY Zenon DEF AskLink
    <2>5. ~AskLink(h, f)
      BY <1>1, <2>4 DEF IdleHandler
    <2> QED BY <1>2, <2>1, <2>2, <2>3, <2>5 DEF Ask
  <1>3. ASSUME HandlerStep(h), handler'[h] # IdleHandler
        PROVE  FALSE
    <2>1. /\ ~Put(h) /\ ~PutUnanswered(h)
          /\ ~RollbackObject(h) /\ ~Duplicate(h)
      BY <1>1, <1>3
         DEF Put, PutUnanswered, RollbackObject, Duplicate, HandlerState
    <2>2. ASSUME NEW n, handler' = [handler EXCEPT ![h] =
                       [handler[h] EXCEPT !.pc = "rollback", !.try = n]]
          PROVE  FALSE
      BY <1>1, <2>2 DEF HandlerState
    <2>3. InsertRow(h) =>
            \E n : handler' = [handler EXCEPT ![h] =
                     [handler[h] EXCEPT !.pc = "rollback", !.try = n]]
      BY <1>1, <1>3 DEF InsertRow
    <2>4. ~DeleteRow(h)
      BY <1>1, <1>3 DEF DeleteRow, AfterDelete, HandlerState
    <2>5. ~DeleteDoc(h) /\ ~DeleteObject(h)
      BY <1>1, <1>3 DEF DeleteDoc, DeleteObject, AfterDelete, HandlerState
    <2>6. ~RequeueRow(h) /\ ~InsertLink(h)
      BY <1>1, <1>3 DEF RequeueRow, InsertLink
    <2>7. ~ \E f \in File : Again(h, f)
      BY <1>1 DEF Again, IdleHandler
    <2> QED BY <1>3, <2>1, <2>2, <2>3, <2>4, <2>5, <2>6, <2>7 DEF HandlerStep
  <1> QED BY <1>2, <1>3, OtherHandlers DEF IdleHandler

LEMMA ClaimStep ==
  ASSUME Undisturbed
  PROVE  ClaimInv /\ [Next]_vars => ClaimInv'
  <1> SUFFICES ASSUME ClaimInv, [Next]_vars PROVE ClaimInv'
    OBVIOUS
  <1>1. /\ StorageInv /\ ClaimsHold /\ OneWorkerPerFile /\ RunsWithin /\ NoRetry
        /\ TypeOK /\ ThreadsHoldFiles
        /\ row \in [File -> Row] /\ worker \in [Worker -> WorkerState]
        /\ handler \in [Handler -> HandlerState]
    BY DEF ClaimInv, StorageInv, TypeOK
  <1>2. StorageInv'
    BY <1>1, StorageStep
  <1>3. \A w \in Worker : Busy(w) => worker[w].file \in File
    BY <1>1 DEF ThreadsHoldFiles
  <1>4. ASSUME NEW w \in Worker, NEW f \in File, Claim(w, f)
        PROVE  ClaimsHold' /\ OneWorkerPerFile' /\ RunsWithin' /\ NoRetry'
    <2>1. /\ row[f].status = "QUEUED" /\ row'[f].status = "PROCESSING"
          /\ \A g \in File \ {f} : row'[g] = row[g]
      BY <1>1, <1>4 DEF Claim, Row
    <2>2. /\ worker'[w].file = f /\ worker'[w].pc = "fetch"
          /\ \A v \in Worker \ {w} : worker'[v] = worker[v]
      BY <1>1, <1>4 DEF Claim, Idle
    <2>3. \A v \in Worker : Busy(v) => worker[v].file # f
      BY <1>1, <2>1 DEF ClaimsHold
    <2>4. ClaimsHold'
      BY <1>1, <1>3, <2>1, <2>2 DEF ClaimsHold, Busy
    <2>5. OneWorkerPerFile'
      BY <1>1, <2>2, <2>3 DEF OneWorkerPerFile, Busy
    <2>6. UNCHANGED <<handler, up>>
      BY <1>4 DEF Claim
    <2>7. ProcOf[w] \in up
      BY <1>1, <1>4 DEF Claim, RunsWithin
    <2> QED BY <1>1, <2>2, <2>4, <2>5, <2>6, <2>7 DEF RunsWithin, NoRetry
  <1>5. ASSUME NEW w \in Worker, WorkerStep(w)
        PROVE  ClaimsHold' /\ OneWorkerPerFile' /\ RunsWithin' /\ NoRetry'
    <2>1. /\ \A v \in Worker \ {w} : worker'[v] = worker[v]
          /\ worker'[w] = Idle \/ worker'[w].file = worker[w].file
          /\ Busy(w) /\ UNCHANGED <<handler, up>>
      BY <1>1, <1>5, WorkerMoves
    <2>2. \A v \in Worker : Busy(v)' => Busy(v) /\ worker'[v].file = worker[v].file
      BY <2>1 DEF Busy, Idle
    <2>3. \A v \in Worker : Busy(v)' => row'[worker[v].file] = row[worker[v].file]
      <3>1. CASE Busy(w)'
        BY <1>1, <1>5, <3>1, WorkerOutcome DEF Busy, Idle
      <3>2. CASE ~Busy(w)'
        <4>1. \A v \in Worker : Busy(v)' => worker[v].file # worker[w].file
          BY <1>1, <2>1, <2>2, <3>2 DEF OneWorkerPerFile
        <4> QED BY <1>1, <1>3, <1>5, <2>2, <4>1, WorkerRows
      <3> QED BY <3>1, <3>2
    <2>4. ClaimsHold'
      BY <1>1, <2>2, <2>3 DEF ClaimsHold
    <2>5. OneWorkerPerFile'
      BY <1>1, <2>2 DEF OneWorkerPerFile
    <2>6. worker[w].pc # "down"
      BY <2>1 DEF Busy
    <2> QED BY <1>1, <2>1, <2>4, <2>5, <2>6 DEF RunsWithin, NoRetry
  <1>6. ASSUME NEW h \in Handler, HandlerStep(h) \/ \E f \in File : Ask(h, f)
        PROVE  ClaimsHold' /\ OneWorkerPerFile' /\ RunsWithin' /\ NoRetry'
    <2>1. UNCHANGED <<worker, up>>
      BY <1>6 DEF HandlerStep, Put, PutUnanswered, InsertRow, RollbackObject, Duplicate,
                  DeleteRow, DeleteDoc, DeleteObject, RequeueRow, InsertLink,
                  Again, Ask, AskUpload, AskDelete, AskRetry, AskLink
    <2>2. ~RequeueRow(h) /\ \A f \in File : ~AskRetry(h, f)
      BY <1>1 DEF RequeueRow, NoRetry, AskRetry, Accepts, Undisturbed
    <2>3. ASSUME NEW f \in File, row[f].status \in {"PROCESSING", "gone"}
          PROVE  row'[f].status \in {"PROCESSING", "gone"}
      <3>1. CASE InsertRow(h)
        <4>1. row[handler[h].file].status = "none"
          BY <1>1, <3>1 DEF InsertRow, StorageInv, UploadsOwnIds, Uploading
        <4>2. handler[h].file # f
          BY <2>3, <4>1
        <4> QED BY <1>1, <2>3, <3>1, <4>2 DEF InsertRow
      <3>2. CASE DeleteRow(h)
        BY <1>1, <2>3, <3>2 DEF DeleteRow, Row
      <3>3. CASE DeleteDoc(h)
        BY <1>1, <2>3, <3>3 DEF DeleteDoc, Row
      <3>4. CASE ~InsertRow(h) /\ ~DeleteRow(h) /\ ~DeleteDoc(h)
        <4>1. row' = row
          BY <1>6, <2>2, <3>4
             DEF HandlerStep, Put, PutUnanswered, RollbackObject, Duplicate, DeleteObject,
                 InsertLink, Again, Ask, AskUpload, AskDelete, AskLink
        <4> QED BY <2>3, <4>1
      <3> QED BY <3>1, <3>2, <3>3, <3>4
    <2>4. ClaimsHold'
      BY <1>1, <1>3, <2>1, <2>3 DEF ClaimsHold, Busy
    <2>5. NoRetry'
      BY <1>1, RequeueMoves DEF NoRetry, Undisturbed
    <2> QED BY <1>1, <2>1, <2>4, <2>5 DEF OneWorkerPerFile, RunsWithin, Busy
  <1>7. ASSUME RequeueStale
        PROVE  ClaimsHold' /\ OneWorkerPerFile' /\ RunsWithin' /\ NoRetry'
    <2>1. UNCHANGED <<worker, handler, up>>
      BY <1>7 DEF RequeueStale, threads
    <2>2. PICK S \in SUBSET Processing : row' = Requeued(S) /\ \A f \in S : ~Held(f)
      BY <1>7 DEF RequeueStale, Undisturbed
    <2>3. \A w \in Worker : Busy(w) => row'[worker[w].file] = row[worker[w].file]
      BY <1>3, <2>2 DEF Requeued, Held
    <2>4. ClaimsHold'
      BY <1>1, <2>1, <2>3 DEF ClaimsHold, Busy
    <2> QED BY <1>1, <2>1, <2>4 DEF OneWorkerPerFile, RunsWithin, NoRetry, Busy
  <1>8. ASSUME NEW p \in Proc, Crash(p)
        PROVE  ClaimsHold' /\ OneWorkerPerFile' /\ RunsWithin' /\ NoRetry'
    <2>1. UNCHANGED row
      BY <1>8 DEF Crash
    <2>2. \A w \in Worker : worker'[w].pc # "down" =>
                               worker'[w] = worker[w] /\ ProcOf[w] # p
      BY <1>8 DEF Crash, Down, Idle
    <2>3. \A h \in Handler : handler'[h] \in {handler[h], IdleHandler}
      BY <1>8 DEF Crash
    <2>4. up' = up \ {p}
      BY <1>8 DEF Crash
    <2>5. ClaimsHold' /\ OneWorkerPerFile'
      BY <1>1, <2>1, <2>2 DEF ClaimsHold, OneWorkerPerFile, Busy
    <2> QED
      BY <1>1, <2>2, <2>3, <2>4, <2>5 DEF RunsWithin, NoRetry, IdleHandler
  <1>9. ASSUME NEW p \in Proc, Start(p)
        PROVE  ClaimsHold' /\ OneWorkerPerFile' /\ RunsWithin' /\ NoRetry'
    <2>1. p \notin up /\ \A w \in Worker : ProcOf[w] = p
      BY <1>9, ThreadsAssumption DEF Start, Undisturbed
    <2>2. \A w \in Worker : worker'[w] = Idle
      BY <1>9, <2>1 DEF Start
    <2>3. \A w \in Worker : ~Busy(w)'
      BY <2>2 DEF Busy, Idle
    <2>4. UNCHANGED handler
      BY <1>9 DEF Start
    <2>5. RunsWithin'
      BY <1>9, <2>1 DEF Start, RunsWithin
    <2> QED BY <1>1, <2>3, <2>4, <2>5 DEF ClaimsHold, OneWorkerPerFile, NoRetry
  <1>10. CASE UNCHANGED vars
    <2>1. UNCHANGED <<row, worker, handler, up>>
      BY <1>10 DEF vars
    <2>2. ClaimsHold' /\ OneWorkerPerFile'
      BY <1>1, <2>1 DEF ClaimsHold, OneWorkerPerFile, Busy
    <2>3. RunsWithin'
      BY <1>1, <2>1 DEF RunsWithin
    <2>4. NoRetry'
      BY <1>1, <2>1 DEF NoRetry
    <2> QED BY <1>2, <2>2, <2>3, <2>4 DEF ClaimInv
  <1> QED
    BY <1>2, <1>4, <1>5, <1>6, <1>7, <1>8, <1>9, <1>10 DEF ClaimInv, Next

(* A thread writes over PROCESSING only, and so does a recovery: only a    *)
(* deletion or a retry takes a READY or STORED_ONLY file elsewhere.        *)
TakenByTeacher(f) ==
    \E h \in Handler : /\ handler[h].pc \in {"requeue", "deleteRow"}
                       /\ handler[h].target = f
                       /\ handler'[h] # handler[h]

LEMMA SettledStep ==
  ASSUME ClaimInv, [Next]_vars, NEW f \in File,
         row[f].status \in {"READY", "STORED_ONLY"},
         row'[f].status # row[f].status
  PROVE  TakenByTeacher(f)
  <1>1. /\ StorageInv /\ ClaimsHold /\ TypeOK /\ ThreadsHoldFiles
        /\ row \in [File -> Row] /\ handler \in [Handler -> HandlerState]
        /\ \A g \in File : row[g] \in Row
    BY DEF ClaimInv, StorageInv, TypeOK
  <1>2. ASSUME NEW w \in Worker, NEW g \in File, Claim(w, g)
        PROVE  FALSE
    <2>1. f # g
      BY <1>2 DEF Claim
    <2> QED BY <1>1, <1>2, <2>1 DEF Claim
  <1>3. ASSUME NEW w \in Worker, WorkerStep(w)
        PROVE  FALSE
    <2>1. CASE f = worker[w].file
      BY <1>1, <1>3, <2>1, WorkerOutcome
    <2>2. CASE f # worker[w].file
      BY <1>1, <1>3, <2>2, WorkerRows
    <2> QED BY <2>1, <2>2
  <1>4. ASSUME RequeueStale \/ \E p \in Proc : Start(p)
        PROVE  FALSE
    <2>1. row' = row \/ \E S \in SUBSET Processing : row' = Requeued(S)
      BY <1>4 DEF RequeueStale, Start
    <2>2. f \notin Processing
      BY DEF Processing
    <2> QED BY <2>1, <2>2 DEF Requeued
  <1>5. ASSUME NEW h \in Handler, HandlerStep(h)
        PROVE  TakenByTeacher(f)
    <2>1. CASE InsertRow(h)
      <3>1. handler[h].file # f
        BY <1>1, <2>1 DEF InsertRow, StorageInv, UploadsOwnIds, Uploading
      <3> QED BY <1>1, <2>1, <3>1 DEF InsertRow
    <2>2. CASE DeleteRow(h)
      <3>1. handler[h].target = f /\ handler[h].pc = "deleteRow"
        BY <1>1, <2>2 DEF DeleteRow
      <3>2. InRow(f) => \E pc \in {"deleteDoc", "deleteObject"} :
                          handler'[h] = [handler[h] EXCEPT !.pc = pc]
        BY <1>1, <2>2, <3>1 DEF DeleteRow, HandlerTo
      <3>3. InRow(f)
        BY DEF InRow, InTable, Settled
      <3>4. \A pc : [handler[h] EXCEPT !.pc = pc].pc = pc
        BY <1>1 DEF HandlerState
      <3>5. handler'[h] # handler[h]
        BY <3>1, <3>2, <3>3, <3>4
      <3> QED BY <3>1, <3>5 DEF TakenByTeacher
    <2>3. CASE DeleteDoc(h)
      BY <1>1, <2>3 DEF DeleteDoc, Row
    <2>4. CASE RequeueRow(h)
      <3>1. handler[h].target = f /\ handler[h].pc = "requeue"
        BY <1>1, <2>4 DEF RequeueRow
      <3>2. handler'[h] = IdleHandler
        BY <1>1, <2>4 DEF RequeueRow, HandlerTo
      <3> QED BY <3>1, <3>2 DEF TakenByTeacher, IdleHandler
    <2> QED
      BY <1>5, <2>1, <2>2, <2>3, <2>4
         DEF HandlerStep, Put, PutUnanswered, RollbackObject, Duplicate, DeleteObject,
             InsertLink, Again
  <1>6. ~ \E h \in Handler, g \in File : Ask(h, g)
    BY DEF Ask, AskUpload, AskDelete, AskRetry, AskLink
  <1>7. ~ \E p \in Proc : Crash(p)
    BY DEF Crash
  <1>8. ~ UNCHANGED vars
    BY DEF vars
  <1> QED BY <1>2, <1>3, <1>4, <1>5, <1>6, <1>7, <1>8 DEF Next

-----------------------------------------------------------------------------
(* The attempts at a file. *)

(* A thread judges a failure by the attempts its row still has; a row that *)
(* is PROCESSING without a thread was left by a crash or by an outcome     *)
(* that was not written, and both are counted.                             *)
AttemptsInv ==
    /\ AttemptsBounded
    /\ \A w \in Worker : Busy(w) /\ row[worker[w].file].status = "PROCESSING"
         => worker[w].attempt = row[worker[w].file].attempts
    /\ \A f \in File : row[f].status = "PROCESSING" /\ ~Held(f)
         => row[f].attempts < MaxAttempts + trouble

LEMMA InitAttempts == Init => AttemptsInv
  <1> SUFFICES ASSUME Init PROVE AttemptsInv
    OBVIOUS
  <1>1. MaxAttempts \in Nat \ {0} /\ trouble = 0
    BY BoundsAssumption DEF Init
  <1>2. \A f \in File : row[f].status = "none" /\ row[f].attempts = 0
    BY DEF Init
  <1>3. \A w \in Worker : ~Busy(w)
    BY DEF Init, Busy, Idle
  <1> QED BY <1>1, <1>2, <1>3 DEF AttemptsInv, AttemptsBounded

(* What a thread leaves of its row when it is done and has written it. *)
LEMMA WorkerFinish ==
  ASSUME TypeOK, ThreadsHoldFiles, ClaimsHold, NEW w \in Worker, WorkerStep(w),
         ~FailUnwritten(w), worker'[w] = Idle, NEW f \in File, f = worker[w].file
  PROVE  /\ row'[f].attempts = row[f].attempts
         /\ row'[f].status # "PROCESSING"
         /\ row'[f].status = "QUEUED" =>
              row[f].status = "PROCESSING" /\ worker[w].attempt < MaxAttempts
  <1>1. row \in [File -> Row] /\ row[f] \in Row /\ Busy(w)
        /\ worker \in [Worker -> WorkerState] /\ worker[w] \in WorkerState
    BY WorkerMoves DEF TypeOK
  <1>2. row[f].status \in {"PROCESSING", "gone"}
    BY <1>1 DEF ClaimsHold
  <1>3. row[f].status = "gone" => ~InRow(f)
    BY DEF InRow, InTable, Settled
  <1>4. row[f].status = "PROCESSING" => InRow(f)
    BY DEF InRow, InTable
  <1>5. CASE Reconcile(w)
    <2>1. \/ row' = row /\ ~InRow(f)
          \/ \E s \in Settled : row' = [row EXCEPT ![f] =
                [row[f] EXCEPT !.status = s, !.document = TRUE]]
      <3>1. ~Raise(w, "temporary")
        <4>1. Raise(w, "temporary") => worker'[w].pc = "fail"
          BY <1>1 DEF Raise, WorkerState
        <4>2. worker'[w].pc = "idle"
          BY DEF Idle
        <4> QED BY <4>1, <4>2
      <3> QED BY <1>5, <3>1 DEF Reconcile, Settled
    <2>2. ASSUME NEW s \in Settled,
                 row' = [row EXCEPT ![f] = [row[f] EXCEPT !.status = s, !.document = TRUE]]
          PROVE  row'[f].attempts = row[f].attempts /\ row'[f].status = s
      BY <1>1, <2>2 DEF Row
    <2> QED BY <1>2, <1>4, <2>1, <2>2 DEF Settled
  <1>6. CASE Fail(w)
    <2>1. \A s \in {"QUEUED", "FAILED"} :
            /\ [row EXCEPT ![f].status = s][f].attempts = row[f].attempts
            /\ [row EXCEPT ![f].status = s][f].status = s
      BY <1>1 DEF Row
    <2>2. row[f].status = "PROCESSING" =>
            MayBecome(row[f].status, "QUEUED") /\ MayBecome(row[f].status, "FAILED")
      BY DEF MayBecome
    <2>3. row' = IF InRow(f) /\ MayBecome(row[f].status, IF Retryable(w) THEN "QUEUED" ELSE "FAILED")
                 THEN [row EXCEPT ![f].status = IF Retryable(w) THEN "QUEUED" ELSE "FAILED"]
                 ELSE row
      BY <1>6 DEF Fail
    <2> QED BY <1>2, <1>3, <1>4, <2>1, <2>2, <2>3 DEF Retryable
  <1>7. CASE ~Reconcile(w) /\ ~Fail(w)
    <2>1. \/ \E pc \in WorkerPC \ {"idle"} : GoTo(w, pc)
          \/ \E e : Raise(w, e)
          \/ \E n : \E pc \in {"reconcile", "insert"} :
                worker' = [worker EXCEPT ![w] = [worker[w] EXCEPT !.pc = pc, !.next = n]]
      BY <1>7 DEF WorkerStep, Fetch, Lookup, Upsert, Wipe, Insert, WorkerPC
    <2>2. ASSUME NEW pc \in WorkerPC \ {"idle"}, GoTo(w, pc)
          PROVE  worker'[w].pc # "idle"
      BY <1>1, <2>2 DEF GoTo, WorkerState
    <2>3. ASSUME NEW e, Raise(w, e)
          PROVE  worker'[w].pc # "idle"
      BY <1>1, <2>3 DEF Raise, WorkerState
    <2>4. ASSUME NEW pc \in {"reconcile", "insert"}, NEW n,
                 worker' = [worker EXCEPT ![w] = [worker[w] EXCEPT !.pc = pc, !.next = n]]
          PROVE  worker'[w].pc # "idle"
      BY <1>1, <2>4 DEF WorkerState
    <2>5. worker'[w].pc # "idle"
      BY <2>1, <2>2, <2>3, <2>4
    <2> QED BY <2>5 DEF Idle
  <1> QED BY <1>5, <1>6, <1>7

LEMMA AttemptsStep ==
  ASSUME Undisturbed, ClaimInv, AttemptsInv, [Next]_vars
  PROVE  AttemptsInv'
  <1>1. /\ StorageInv /\ ClaimsHold /\ OneWorkerPerFile /\ RunsWithin /\ NoRetry
        /\ TypeOK /\ ThreadsHoldFiles
        /\ row \in [File -> Row] /\ \A f \in File : row[f] \in Row
        /\ \A f \in File : row[f].attempts \in Nat
        /\ worker \in [Worker -> WorkerState]
        /\ trouble \in Nat /\ MaxAttempts \in Nat \ {0}
    BY BoundsAssumption DEF ClaimInv, StorageInv, TypeOK, Row
  <1>2. \A w \in Worker : Busy(w) => worker[w].file \in File
    BY <1>1 DEF ThreadsHoldFiles
  <1>3. /\ \A f \in File : row[f].status = "QUEUED" => row[f].attempts < MaxAttempts + trouble
        /\ \A f \in File : row[f].attempts <= MaxAttempts + trouble
        /\ \A w \in Worker : Busy(w) /\ row[worker[w].file].status = "PROCESSING"
             => worker[w].attempt = row[worker[w].file].attempts
        /\ \A f \in File : row[f].status = "PROCESSING" /\ ~Held(f)
             => row[f].attempts < MaxAttempts + trouble
    BY DEF AttemptsInv, AttemptsBounded
  <1>4. ASSUME NEW w \in Worker, NEW f \in File, Claim(w, f)
        PROVE  AttemptsInv'
    <2>1. /\ row[f].status = "QUEUED" /\ row'[f].status = "PROCESSING"
          /\ row'[f].attempts = row[f].attempts + 1
          /\ \A g \in File \ {f} : row'[g] = row[g]
      BY <1>1, <1>4 DEF Claim, Row
    <2>2. /\ worker'[w].file = f /\ worker'[w].pc = "fetch"
          /\ worker'[w].attempt = row[f].attempts + 1 /\ worker[w].pc = "idle"
          /\ \A v \in Worker \ {w} : worker'[v] = worker[v]
      BY <1>1, <1>4 DEF Claim, Idle
    <2>3. \A v \in Worker : Busy(v) => worker[v].file # f
      BY <1>1, <2>1 DEF ClaimsHold
    <2>4. trouble' = trouble
      BY <1>4 DEF Claim
    <2>5. Held(f)' /\ \A g \in File : Held(g) => Held(g)'
      BY <2>2 DEF Held, Busy
    <2>6. AttemptsBounded'
      BY <1>1, <1>3, <2>1, <2>4 DEF AttemptsBounded
    <2>7. \A v \in Worker : Busy(v)' /\ row'[worker'[v].file].status = "PROCESSING"
            => worker'[v].attempt = row'[worker'[v].file].attempts
      BY <1>2, <1>3, <2>1, <2>2, <2>3 DEF Busy
    <2>8. \A g \in File : row'[g].status = "PROCESSING" /\ ~Held(g)'
             => row'[g].attempts < MaxAttempts + trouble'
      BY <1>3, <2>1, <2>4, <2>5
    <2> QED BY <2>6, <2>7, <2>8 DEF AttemptsInv
  <1>5. ASSUME NEW w \in Worker, WorkerStep(w)
        PROVE  AttemptsInv'
    <2>1. /\ \A v \in Worker \ {w} : worker'[v] = worker[v]
          /\ \/ worker'[w] = Idle
             \/ /\ worker'[w].file = worker[w].file
                /\ worker'[w].attempt = worker[w].attempt
                /\ Busy(w)'
          /\ Busy(w)
      BY <1>1, <1>5, WorkerMoves
    <2>2. \A g \in File \ {worker[w].file} : row'[g] = row[g]
      BY <1>1, <1>5, WorkerRows
    <2>3. ASSUME ~FailUnwritten(w)
          PROVE  trouble' = trouble
      BY <1>5, <2>3 DEF WorkerStep, Fetch, Lookup, Upsert, Wipe, Insert,
                        Reconcile, Fail
    <2>4. CASE worker'[w] = Idle /\ ~FailUnwritten(w)
      <3>1. PICK f \in File : f = worker[w].file
        BY <1>2, <2>1
      <3>2. /\ row'[f].attempts = row[f].attempts
            /\ row'[f].status # "PROCESSING"
            /\ row'[f].status = "QUEUED" =>
                 row[f].status = "PROCESSING" /\ worker[w].attempt < MaxAttempts
        BY <1>1, <1>5, <2>4, <3>1, WorkerFinish
      <3>3. row'[f].status = "QUEUED" => row[f].attempts < MaxAttempts
        BY <1>3, <2>1, <3>1, <3>2
      <3>4. AttemptsBounded'
        BY <1>1, <1>3, <2>2, <2>3, <2>4, <3>1, <3>2, <3>3 DEF AttemptsBounded
      <3>5. ~Busy(w)' /\ \A v \in Worker : Busy(v)' => Busy(v) /\ worker'[v] = worker[v] /\ worker[v].file # f
        BY <1>1, <2>1, <2>4, <3>1 DEF Busy, Idle, OneWorkerPerFile
      <3>6. \A v \in Worker : Busy(v)' /\ row'[worker'[v].file].status = "PROCESSING"
              => worker'[v].attempt = row'[worker'[v].file].attempts
        BY <1>2, <1>3, <2>2, <3>1, <3>5
      <3>7. \A g \in File \ {f} : Held(g) => Held(g)'
        BY <2>1, <3>1 DEF Held, Busy
      <3>8. \A g \in File : row'[g].status = "PROCESSING" /\ ~Held(g)'
               => row'[g].attempts < MaxAttempts + trouble'
        BY <1>3, <2>2, <2>3, <2>4, <3>1, <3>2, <3>7
      <3> QED BY <3>4, <3>6, <3>8 DEF AttemptsInv
    <2>5. CASE worker'[w] # Idle /\ ~FailUnwritten(w)
      <3>1. row' = row
        BY <1>1, <1>5, <2>5, WorkerOutcome
      <3>2. \A v \in Worker : /\ Busy(v)' <=> Busy(v)
                              /\ worker'[v].file = worker[v].file
                              /\ worker'[v].attempt = worker[v].attempt
        BY <2>1, <2>5 DEF Busy
      <3>3. \A g \in File : Held(g)' <=> Held(g)
        BY <3>2 DEF Held
      <3> QED
        BY <1>3, <2>3, <2>5, <3>1, <3>2, <3>3 DEF AttemptsInv, AttemptsBounded
    <2>6. CASE FailUnwritten(w)
      <3>1. row' = row /\ trouble' = trouble + 1 /\ worker'[w] = Idle
        BY <1>1, <2>6 DEF FailUnwritten, Trouble, Finish
      <3>2. \A v \in Worker : Busy(v)' => Busy(v) /\ worker'[v] = worker[v]
        BY <2>1, <3>1 DEF Busy, Idle
      <3>3. \A f \in File : row'[f].attempts < MaxAttempts + trouble'
        BY <1>1, <1>3, <3>1
      <3>4. \A f \in File : row'[f].attempts <= MaxAttempts + trouble'
        BY <1>1, <1>3, <3>1
      <3>5. \A v \in Worker : Busy(v)' /\ row'[worker'[v].file].status = "PROCESSING"
              => worker'[v].attempt = row'[worker'[v].file].attempts
        BY <1>3, <3>1, <3>2
      <3> QED BY <3>3, <3>4, <3>5 DEF AttemptsInv, AttemptsBounded
    <2> QED BY <2>4, <2>5, <2>6
  <1>6. ASSUME NEW h \in Handler, HandlerStep(h) \/ \E f \in File : Ask(h, f)
        PROVE  AttemptsInv'
    <2>1. UNCHANGED worker /\ ~RequeueRow(h) /\ \A f \in File : ~AskRetry(h, f)
      <3>1. ~RequeueRow(h) /\ \A f \in File : ~AskRetry(h, f)
        BY <1>1 DEF RequeueRow, NoRetry, AskRetry, Accepts, Undisturbed
      <3>2. UNCHANGED worker
        BY <1>6 DEF HandlerStep, Put, PutUnanswered, InsertRow, RollbackObject, Duplicate,
                    DeleteRow, DeleteDoc, DeleteObject, RequeueRow, InsertLink,
                    Again, Ask, AskUpload, AskDelete, AskRetry, AskLink
      <3> QED BY <3>1, <3>2
    <2>2. trouble' = trouble
      BY <1>6, <2>1 DEF HandlerStep, Put, PutUnanswered, InsertRow, RollbackObject, Duplicate,
                  DeleteRow, DeleteDoc, DeleteObject, InsertLink,
                  Again, Ask, AskUpload, AskDelete, AskLink
    <2>3. ASSUME NEW f \in File
          PROVE  \/ row'[f].status = row[f].status /\ row'[f].attempts = row[f].attempts
                 \/ row'[f].status = "gone" /\ row'[f].attempts = row[f].attempts
                 \/ /\ row[f].status = "none"
                    /\ row'[f].status = "QUEUED" /\ row'[f].attempts = 0
      <3>1. CASE InsertRow(h)
        <4>1. row[handler[h].file].status = "none"
          BY <1>1, <3>1 DEF InsertRow, StorageInv, UploadsOwnIds, Uploading
        <4> QED BY <1>1, <3>1, <4>1 DEF InsertRow
      <3>2. CASE DeleteRow(h)
        <4>1. row' = row \/ row' = [row EXCEPT ![handler[h].target] =
                [row[handler[h].target] EXCEPT !.status = "gone", !.document = FALSE]]
          BY <3>2 DEF DeleteRow
        <4>2. ASSUME NEW g, row' = [row EXCEPT ![g] =
                [row[g] EXCEPT !.status = "gone", !.document = FALSE]]
              PROVE  \/ row'[f] = row[f]
                     \/ row'[f].status = "gone" /\ row'[f].attempts = row[f].attempts
          BY <1>1, <4>2 DEF Row
        <4> QED BY <4>1, <4>2
      <3>3. CASE DeleteDoc(h)
        <4>1. row'[f] = row[f] \/ row'[f] = [row[f] EXCEPT !.document = FALSE]
          BY <1>1, <3>3 DEF DeleteDoc
        <4> QED BY <1>1, <4>1 DEF Row
      <3>4. CASE ~InsertRow(h) /\ ~DeleteRow(h) /\ ~DeleteDoc(h)
        <4>1. row' = row
          BY <1>6, <2>1, <3>4
             DEF HandlerStep, Put, PutUnanswered, RollbackObject, Duplicate, DeleteObject,
                 InsertLink, Again, Ask, AskUpload, AskDelete, AskLink
        <4> QED BY <4>1
      <3> QED BY <3>1, <3>2, <3>3, <3>4
    <2>4. AttemptsBounded'
      BY <1>1, <1>3, <2>2, <2>3 DEF AttemptsBounded
    <2>5. \A v \in Worker : Busy(v)' /\ row'[worker'[v].file].status = "PROCESSING"
            => worker'[v].attempt = row'[worker'[v].file].attempts
      BY <1>2, <1>3, <2>1, <2>3 DEF Busy
    <2>6. \A g \in File : Held(g)' <=> Held(g)
      BY <2>1 DEF Held, Busy
    <2>7. \A g \in File : row'[g].status = "PROCESSING" /\ ~Held(g)'
             => row'[g].attempts < MaxAttempts + trouble'
      BY <1>3, <2>2, <2>3, <2>6
    <2> QED BY <2>4, <2>5, <2>7 DEF AttemptsInv
  <1>7. ASSUME RequeueStale
        PROVE  AttemptsInv'
    <2>1. UNCHANGED worker
      BY <1>7 DEF RequeueStale, threads
    <2>2. PICK S \in SUBSET Processing :
            row' = Requeued(S) /\ (\A f \in S : ~Held(f)) /\ trouble' = trouble
      BY <1>7 DEF RequeueStale, Undisturbed
    <2>3. \A f \in File : /\ f \notin S => row'[f] = row[f]
                          /\ f \in S => /\ row'[f].status = "QUEUED"
                                        /\ row'[f].attempts = row[f].attempts
                                        /\ row[f].status = "PROCESSING"
      BY <1>1, <2>2 DEF Requeued, Row, Processing
    <2>4. AttemptsBounded'
      BY <1>1, <1>3, <2>2, <2>3 DEF AttemptsBounded
    <2>5. \A v \in Worker : Busy(v)' /\ row'[worker'[v].file].status = "PROCESSING"
            => worker'[v].attempt = row'[worker'[v].file].attempts
      BY <1>2, <1>3, <2>1, <2>3 DEF Busy
    <2>6. \A g \in File : Held(g)' <=> Held(g)
      BY <2>1 DEF Held, Busy
    <2>7. \A g \in File : row'[g].status = "PROCESSING" /\ ~Held(g)'
             => row'[g].attempts < MaxAttempts + trouble'
      BY <1>3, <2>2, <2>3, <2>6
    <2> QED BY <2>4, <2>5, <2>7 DEF AttemptsInv
  <1>8. ASSUME NEW p \in Proc, Crash(p)
        PROVE  AttemptsInv'
    <2>1. row' = row /\ trouble' = trouble + 1
      BY <1>8 DEF Crash, Trouble
    <2>2. \A w \in Worker : Busy(w)' => Busy(w) /\ worker'[w] = worker[w]
      BY <1>8 DEF Crash, Down, Idle, Busy
    <2>3. \A f \in File : row'[f].attempts < MaxAttempts + trouble'
      BY <1>1, <1>3, <2>1
    <2>4. \A f \in File : row'[f].attempts <= MaxAttempts + trouble'
      BY <1>1, <1>3, <2>1
    <2>5. \A v \in Worker : Busy(v)' /\ row'[worker'[v].file].status = "PROCESSING"
            => worker'[v].attempt = row'[worker'[v].file].attempts
      BY <1>3, <2>1, <2>2
    <2> QED BY <2>3, <2>4, <2>5 DEF AttemptsInv, AttemptsBounded
  <1>9. ASSUME NEW p \in Proc, Start(p)
        PROVE  AttemptsInv'
    <2>1. p \notin up /\ \A w \in Worker : ProcOf[w] = p
      BY <1>9, ThreadsAssumption DEF Start, Undisturbed
    <2>2. \A f \in File : ~Held(f)
      BY <1>1, <2>1 DEF Held, Busy, RunsWithin
    <2>3. \A w \in Worker : ~Busy(w)'
      BY <1>9, <2>1 DEF Start, Busy, Idle
    <2>4. trouble' = trouble /\ (row' = row \/ row' = Requeued(Processing))
      BY <1>9 DEF Start
    <2>5. \A f \in File : \/ row'[f] = row[f]
                          \/ /\ row'[f].status = "QUEUED"
                             /\ row'[f].attempts = row[f].attempts
                             /\ row[f].status = "PROCESSING"
      BY <1>1, <2>4 DEF Requeued, Row, Processing
    <2>6. AttemptsBounded'
      BY <1>1, <1>3, <2>2, <2>4, <2>5 DEF AttemptsBounded
    <2>7. \A f \in File : row'[f].status = "PROCESSING" => row'[f].attempts < MaxAttempts + trouble'
      BY <1>3, <2>2, <2>4, <2>5
    <2> QED BY <2>3, <2>6, <2>7 DEF AttemptsInv
  <1>10. CASE UNCHANGED vars
    <2>1. UNCHANGED <<row, worker, trouble>>
      BY <1>10 DEF vars
    <2> QED BY <2>1 DEF AttemptsInv, AttemptsBounded, Held, Busy
  <1> QED
    BY <1>4, <1>5, <1>6, <1>7, <1>8, <1>9, <1>10 DEF Next

(* Workers never process the same file twice at a time, whatever crashes,  *)
(* as long as claims are undisturbed.                                      *)
THEOREM WorkersNeverShare ==
  ASSUME Undisturbed
  PROVE  Spec => []OneWorkerPerFile
  <1>1. ClaimInv /\ [Next]_vars => ClaimInv'
    BY ClaimStep
  <1>2. ClaimInv => OneWorkerPerFile
    BY DEF ClaimInv
  <1> QED BY <1>1, <1>2, InitClaim, PTL DEF Spec

(* Under the same conditions only a teacher unsettles a file. *)
THEOREM SettledStaysSettled ==
  ASSUME Undisturbed
  PROVE  Spec => SettledByTeacher
  <1>1. ClaimInv /\ [Next]_vars => ClaimInv'
    BY ClaimStep
  <1>2. ClaimInv /\ [Next]_vars =>
          [\A f \in File :
             /\ row[f].status \in {"READY", "STORED_ONLY"}
             /\ row'[f].status # row[f].status
             => TakenByTeacher(f)]_vars
    BY SettledStep
  <1> QED
    BY <1>1, <1>2, InitClaim, PTL DEF Spec, SettledByTeacher, TakenByTeacher

(* Under the same conditions a file is tried MaxAttempts times, and once   *)
(* more for every crash and every outcome the database did not take.       *)
THEOREM AttemptsAreBounded ==
  ASSUME Undisturbed
  PROVE  Spec => []AttemptsBounded
  <1>1. ClaimInv /\ AttemptsInv /\ [Next]_vars => ClaimInv' /\ AttemptsInv'
    BY ClaimStep, AttemptsStep
  <1>2. Init => ClaimInv /\ AttemptsInv
    BY InitClaim, InitAttempts
  <1>3. AttemptsInv => AttemptsBounded
    BY DEF AttemptsInv
  <1> QED BY <1>1, <1>2, <1>3, PTL DEF Spec

-----------------------------------------------------------------------------
(* References. *)

RowsResolve  == \A f \in File : row[f].document => InRow(f) /\ Present(ContentOf[f])
LinksResolve == \A c \in Content : c \in link => Present(c)
ChunksResolve ==
    \A c \in Content, i \in Indexes : chunk[c][i] # NoScope => Present(c)

LEMMA ResolveParts ==
  ReferencesResolve <=> RowsResolve /\ LinksResolve /\ ChunksResolve
  BY DEF ReferencesResolve, RowsResolve, LinksResolve, ChunksResolve

LEMMA InitResolve == Init => ReferencesResolve
  BY FilesAssumption DEF Init, ReferencesResolve

(* Steps that leave the index alone and keep rows with a document. *)
LEMMA RowsOnly ==
  ASSUME ReferencesResolve, UNCHANGED <<doc, chunk, link>>,
         \A f \in File : row'[f].document =>
             row[f].document /\ row'[f].status \in InTable
  PROVE  ReferencesResolve'
  BY DEF ReferencesResolve, Present, InRow

LEMMA RequeueResolve ==
  ASSUME TypeOK, ReferencesResolve, UNCHANGED <<doc, chunk, link>>,
         row' = row \/ \E S \in SUBSET Processing : row' = Requeued(S)
  PROVE  ReferencesResolve'
  <1>1. ASSUME NEW S \in SUBSET Processing, row' = Requeued(S), NEW f \in File,
               row'[f].document
        PROVE  row[f].document /\ row'[f].status \in InTable
    <2>1. row[f] \in Row
      BY DEF TypeOK
    <2>2. CASE f \in S
      <3>1. row'[f] = [row[f] EXCEPT !.status = "QUEUED"]
        BY <1>1, <2>2 DEF Requeued
      <3>2. row'[f].document = row[f].document /\ row'[f].status = "QUEUED"
        BY <2>1, <3>1 DEF Row
      <3> QED BY <1>1, <3>2 DEF InTable
    <2>3. CASE f \notin S
      <3>1. row'[f] = row[f]
        BY <1>1, <2>3 DEF Requeued
      <3> QED BY <1>1, <3>1 DEF ReferencesResolve, InRow
    <2> QED BY <2>2, <2>3
  <1>2. CASE row' = row
    BY <1>2, RowsOnly DEF ReferencesResolve, InRow
  <1> QED BY <1>1, <1>2, RowsOnly

LEMMA WorkerResolve ==
  ASSUME TypeOK, ThreadsHoldFiles, ReferencesResolve, NEW w \in Worker,
         WorkerStep(w) \/ \E f \in File : Claim(w, f)
  PROVE  ReferencesResolve'
  <1> DEFINE f == worker[w].file  c == ContentOf[f]
  <1>1. /\ row \in [File -> Row] /\ \A k \in File : row[k] \in Row
        /\ doc \in [Content -> Doc] /\ \A d \in Content : doc[d] \in Doc
        /\ chunk \in [Content -> [Indexes -> Scope \cup {NoScope}]]
    BY DEF TypeOK
  <1>2. ASSUME NEW k \in File, Claim(w, k)
        PROVE  ReferencesResolve'
    <2>1. /\ row'[k].document = row[k].document /\ row'[k].status \in InTable
          /\ \A j \in File \ {k} : row'[j] = row[j]
      BY <1>1, <1>2 DEF Claim, Row, InTable
    <2>2. UNCHANGED <<doc, chunk, link>>
      BY <1>2 DEF Claim, index
    <2> QED BY <2>1, <2>2, RowsOnly DEF ReferencesResolve, InRow
  <1>3. WorkerStep(w) => f \in File /\ c \in Content
    BY FilesAssumption
       DEF ThreadsHoldFiles, Busy, WorkerStep, Fetch, Lookup, Upsert, Wipe,
           Insert, Reconcile, Fail, FailUnwritten
  <1>4. CASE Fetch(w) \/ Lookup(w) \/ FailUnwritten(w)
    BY <1>4, RowsOnly
       DEF Fetch, Lookup, FailUnwritten, index, ReferencesResolve, InRow
  <1>5. CASE Upsert(w)
    <2>1. \A d \in Content : Present(d) => Present(d)'
      BY <1>1, <1>5 DEF Upsert, Present
    <2>2. UNCHANGED <<row, chunk, link>>
      BY <1>5 DEF Upsert
    <2> QED BY <2>1, <2>2, FilesAssumption DEF ReferencesResolve, InRow
  <1>6. CASE Wipe(w)
    <2>1. \A d \in Content, i \in Indexes :
            chunk'[d][i] # NoScope => chunk[d][i] # NoScope
      BY <1>1, <1>6 DEF Wipe
    <2>2. UNCHANGED <<row, doc, link>>
      BY <1>6 DEF Wipe
    <2> QED BY <2>1, <2>2 DEF ReferencesResolve, InRow, Present
  <1>7. CASE Insert(w)
    <2>1. \A d \in Content, i \in Indexes :
            chunk'[d][i] # NoScope => chunk[d][i] # NoScope \/ Present(d)
      <3>1. UNCHANGED chunk \/ /\ Present(c)
                               /\ \E j : chunk' = [chunk EXCEPT ![c][j] = ScopeOf[f]]
        BY <1>7 DEF Insert, Present
      <3> QED BY <1>1, <3>1
    <2>2. UNCHANGED <<row, doc, link>>
      BY <1>7 DEF Insert
    <2> QED BY <2>1, <2>2 DEF ReferencesResolve, InRow, Present
  <1>8. CASE Reconcile(w)
    <2>1. UNCHANGED <<chunk, link>>
      BY <1>8 DEF Reconcile
    <2>2. CASE UNCHANGED <<row, doc>>
      BY <2>1, <2>2, RowsOnly DEF ReferencesResolve, InRow
    <2>3. ASSUME ~UNCHANGED <<row, doc>>
          PROVE  ReferencesResolve'
      <3>1. /\ Present(c)
            /\ doc' = [doc EXCEPT ![c].status = "stored"]
            /\ \/ row' = row
               \/ \E s \in {"READY", "STORED_ONLY"} :
                    row' = [row EXCEPT ![f] = [row[f] EXCEPT !.status = s,
                                                             !.document = TRUE]]
        BY <1>8, <2>3 DEF Reconcile, Present
      <3>2. \A d \in Content : Present(d) => Present(d)'
        BY <1>1, <3>1 DEF Present, Doc
      <3>3. ASSUME NEW s \in {"READY", "STORED_ONLY"},
                   row' = [row EXCEPT ![f] = [row[f] EXCEPT !.status = s,
                                                            !.document = TRUE]]
            PROVE  /\ row'[f].status \in InTable
                   /\ \A k \in File \ {f} : row'[k] = row[k]
        BY <1>1, <1>3, <1>8, <3>3 DEF WorkerStep, Row, InTable, Settled
      <3>4. \A k \in File : row'[k].document =>
               \/ k = f /\ row'[k].status \in InTable
               \/ row'[k] = row[k]
        BY <3>1, <3>3
      <3>5. RowsResolve'
        BY <3>1, <3>2, <3>4, ResolveParts, FilesAssumption
           DEF RowsResolve, InRow
      <3> QED
        BY <2>1, <3>2, <3>5 DEF ReferencesResolve, RowsResolve
    <2> QED BY <2>2, <2>3
  <1>9. CASE Fail(w)
    <2>1. UNCHANGED <<chunk, link>>
      BY <1>9 DEF Fail
    <2>2. \A d \in Content : Present(d) => Present(d)'
      BY <1>1, <1>9 DEF Fail, Present, Doc
    <2>3. \/ row' = row
          \/ \E s \in {"QUEUED", "FAILED"} : row' = [row EXCEPT ![f].status = s]
      BY <1>9 DEF Fail
    <2>4. ASSUME NEW s \in {"QUEUED", "FAILED"}, row' = [row EXCEPT ![f].status = s]
          PROVE  /\ row'[f].status \in InTable /\ row'[f].document = row[f].document
                 /\ \A k \in File \ {f} : row'[k] = row[k]
      BY <1>1, <1>3, <1>9, <2>4 DEF WorkerStep, Row, InTable, Settled
    <2>5. RowsResolve'
      BY <2>2, <2>3, <2>4, ResolveParts, FilesAssumption DEF RowsResolve, InRow
    <2> QED BY <2>1, <2>2, <2>5 DEF ReferencesResolve, RowsResolve
  <1> QED
    BY <1>2, <1>4, <1>5, <1>6, <1>7, <1>8, <1>9 DEF WorkerStep

LEMMA HandlerResolve ==
  ASSUME TypeOK, ThreadsHoldFiles, ReferencesResolve, NEW h \in Handler,
         HandlerStep(h)
  PROVE  ReferencesResolve'
  <1> DEFINE g == handler[h].target  f == handler[h].file
  <1>1. /\ row \in [File -> Row] /\ \A k \in File : row[k] \in Row
        /\ doc \in [Content -> Doc]
        /\ chunk \in [Content -> [Indexes -> Scope \cup {NoScope}]]
    BY DEF TypeOK
  <1>2. CASE \/ Put(h) \/ PutUnanswered(h) \/ RollbackObject(h) \/ Duplicate(h)
             \/ DeleteObject(h) \/ \E k \in File : Again(h, k)
    <2>1. UNCHANGED <<row, doc, chunk, link>>
      BY <1>2 DEF Put, PutUnanswered, RollbackObject, Duplicate, DeleteObject,
                  Again, index
    <2> QED BY <2>1, RowsOnly DEF ReferencesResolve, InRow
  <1>3. CASE InsertRow(h)
    <2>1. UNCHANGED <<doc, chunk, link>>
      BY <1>3 DEF InsertRow, index
    <2>2. \A k \in File : row'[k].document => row'[k] = row[k]
      BY <1>1, <1>3 DEF InsertRow
    <2> QED BY <2>1, <2>2, RowsOnly DEF ReferencesResolve, InRow
  <1>4. CASE RequeueRow(h)
    <2>1. UNCHANGED <<doc, chunk, link>>
      BY <1>4 DEF RequeueRow, index
    <2>2. g \in File
      BY <1>4 DEF RequeueRow, ThreadsHoldFiles
    <2>3. \/ row' = row
          \/ row' = [row EXCEPT ![g] = [row[g] EXCEPT !.status = "QUEUED",
                                                      !.attempts = 0]]
      BY <1>4 DEF RequeueRow
    <2>4. CASE row' = row
      BY <2>1, <2>4, RowsOnly DEF ReferencesResolve, InRow
    <2>5. CASE row' = [row EXCEPT ![g] = [row[g] EXCEPT !.status = "QUEUED",
                                                        !.attempts = 0]]
      <3>1. /\ row'[g].document = row[g].document /\ row'[g].status = "QUEUED"
            /\ \A k \in File \ {g} : row'[k] = row[k]
        BY <1>1, <2>2, <2>5 DEF Row
      <3> QED BY <2>1, <3>1, RowsOnly DEF ReferencesResolve, InRow, InTable
    <2> QED BY <2>3, <2>4, <2>5
  <1>5. CASE DeleteRow(h)
    <2>1. g \in File /\ UNCHANGED <<doc, chunk>> /\ link' \subseteq link
      BY <1>5 DEF DeleteRow, ThreadsHoldFiles
    <2>2. \/ row' = row
          \/ row' = [row EXCEPT ![g] = [row[g] EXCEPT !.status = "gone",
                                                      !.document = FALSE]]
      BY <1>5 DEF DeleteRow
    <2>3. row' = row \/ /\ row'[g].document = FALSE
                        /\ \A k \in File \ {g} : row'[k] = row[k]
      BY <1>1, <2>1, <2>2 DEF Row
    <2> QED BY <2>1, <2>3 DEF ReferencesResolve, InRow, Present
  <1>6. CASE DeleteDoc(h)
    <2> DEFINE c == ContentOf[g]
    <2>1. c \in Content
      BY <1>6, FilesAssumption DEF DeleteDoc, ThreadsHoldFiles, Removing
    <2>2. CASE UNCHANGED <<row, doc, chunk, link>>
      BY <2>2, RowsOnly DEF ReferencesResolve, InRow
    <2>3. ASSUME ~UNCHANGED <<row, doc, chunk, link>>
          PROVE  ReferencesResolve'
      <3>1. /\ doc' = [doc EXCEPT ![c] = NoDoc]
            /\ chunk' = [chunk EXCEPT ![c] = [i \in Indexes |-> NoScope]]
            /\ link' = link \ {c}
            /\ row' = [k \in File |-> IF ContentOf[k] = c
                                      THEN [row[k] EXCEPT !.document = FALSE]
                                      ELSE row[k]]
        BY <1>6, <2>3 DEF DeleteDoc
      <3>2. \A d \in Content \ {c} : Present(d) => Present(d)'
        BY <1>1, <3>1 DEF Present
      <3>3. \A k \in File : row'[k].document => ContentOf[k] # c /\ row'[k] = row[k]
        BY <1>1, <3>1 DEF Row
      <3>4. RowsResolve'
        BY <3>2, <3>3, ResolveParts, FilesAssumption DEF RowsResolve, InRow
      <3>5. LinksResolve'
        BY <3>1, <3>2, ResolveParts DEF LinksResolve
      <3>6. ChunksResolve'
        BY <1>1, <3>1, <3>2, ResolveParts DEF ChunksResolve
      <3> QED
        BY <3>4, <3>5, <3>6
           DEF ReferencesResolve, RowsResolve, LinksResolve, ChunksResolve
    <2> QED BY <2>2, <2>3
  <1>7. CASE InsertLink(h)
    <2>1. UNCHANGED <<row, doc, chunk>>
      BY <1>7 DEF InsertLink
    <2>2. \A c \in Content : c \in link' => c \in link \/ Present(c)
      BY <1>7 DEF InsertLink, Present
    <2> QED BY <2>1, <2>2 DEF ReferencesResolve, InRow, Present
  <1> QED BY <1>2, <1>3, <1>4, <1>5, <1>6, <1>7 DEF HandlerStep

LEMMA ResolveStep ==
  ASSUME StorageInv, ReferencesResolve, [Next]_vars
  PROVE  ReferencesResolve'
  <1>1. TypeOK /\ ThreadsHoldFiles
    BY DEF StorageInv
  <1>2. ASSUME \/ \E h \in Handler, f \in File : Ask(h, f)
               \/ \E p \in Proc : Crash(p)
               \/ UNCHANGED vars
        PROVE  ReferencesResolve'
    <2>1. UNCHANGED <<row, doc, chunk, link>>
      BY <1>2 DEF Ask, AskUpload, AskDelete, AskRetry, AskLink, Crash, vars, index
    <2> QED BY <2>1, RowsOnly DEF ReferencesResolve, InRow
  <1>3. ASSUME RequeueStale \/ \E p \in Proc : Start(p)
        PROVE  ReferencesResolve'
    <2>1. /\ UNCHANGED <<doc, chunk, link>>
          /\ row' = row \/ \E S \in SUBSET Processing : row' = Requeued(S)
      BY <1>3 DEF RequeueStale, Start, index
    <2> QED BY <1>1, <2>1, RequeueResolve
  <1> QED BY <1>1, <1>2, <1>3, WorkerResolve, HandlerResolve DEF Next

(* No row, link or chunk refers to a document that is gone, however        *)
(* deletions and ingests of the same bytes interleave.                     *)
THEOREM ReferencesAlwaysResolve == Spec => []ReferencesResolve
  <1>1. StorageInv /\ ReferencesResolve /\ [Next]_vars => ReferencesResolve'
    BY ResolveStep
  <1> QED BY <1>1, InitResolve, StorageCorrect, PTL DEF Spec

-----------------------------------------------------------------------------
(* No object is left behind, when nothing dies, clean-ups succeed and a    *)
(* put that raises has stored nothing.                                     *)

TidyUp == Mishaps \cap {"crash", "cleanup", "reply"} = {}

(* The request h is going to insert the row of f or to remove its object. *)
Owner(h, f) ==
    \/ handler[h].pc \in {"insert", "rollback"} /\ handler[h].file = f
    \/ handler[h].pc \in {"deleteDoc", "deleteObject"} /\ handler[h].target = f

LEMMA OwnedObjects ==
  NoOrphanObject <=> \A f \in object : InRow(f) \/ \E h \in Handler : Owner(h, f)
  BY DEF NoOrphanObject, Owner

(* An object appears when an upload puts it. *)
LEMMA NewObject ==
  ASSUME TidyUp, TypeOK, [Next]_vars, NEW f \in object', f \notin object
  PROVE  \E h \in Handler : Owner(h, f)'
  <1>1. \A h \in Handler : ~PutUnanswered(h)
    BY DEF TidyUp, PutUnanswered
  <1>2. PICK h \in Handler : Put(h)
    BY <1>1
       DEF Next, vars, WorkerStep, HandlerStep, Ask, Claim, Fetch, Lookup, Upsert,
           Wipe, Insert, Reconcile, Fail, FailUnwritten, InsertRow,
           RollbackObject, Duplicate, DeleteRow, DeleteDoc, DeleteObject,
           RequeueRow, InsertLink, Again, AskUpload, AskDelete, AskRetry,
           AskLink, RequeueStale, Crash, Start
  <1>3. handler[h].file = f /\ HandlerTo(h, [handler[h] EXCEPT !.pc = "insert"])
    BY <1>2 DEF Put
  <1>4. handler'[h] = [handler[h] EXCEPT !.pc = "insert"] /\ handler[h] \in HandlerState
    BY <1>3 DEF HandlerTo, TypeOK
  <1>5. handler'[h].pc = "insert" /\ handler'[h].file = f
    BY <1>3, <1>4 DEF HandlerState
  <1> QED BY <1>5 DEF Owner

(* Who owns an object keeps it until the row is there or the object gone.  *)
LEMMA OwnerMoves ==
  ASSUME TidyUp, TypeOK, [Next]_vars, NEW h \in Handler, NEW f \in object', Owner(h, f)
  PROVE  InRow(f)' \/ Owner(h, f)'
  <1>1. handler[h] \in HandlerState /\ handler \in [Handler -> HandlerState]
        /\ row \in [File -> Row] /\ object \subseteq File
    BY DEF TypeOK
  <1>2. CASE handler'[h] = handler[h]
    BY <1>2 DEF Owner
  <1>3. CASE HandlerStep(h)
    <2>1. CASE InsertRow(h)
      <3>1. handler[h].file = f
        BY <2>1 DEF InsertRow, Owner
      <3>2. CASE row' = [row EXCEPT ![f] = [status |-> "QUEUED", attempts |-> 0, document |-> FALSE]]
        <4>1. f \in File
          BY <2>1, <1>1 DEF InsertRow
        <4>2. row'[f].status = "QUEUED"
          BY <1>1, <3>2, <4>1
        <4> QED BY <4>2 DEF InRow, InTable
      <3>3. ASSUME NEW n, handler'[h] = [handler[h] EXCEPT !.pc = "rollback", !.try = n]
            PROVE  Owner(h, f)'
        <4>1. handler'[h].pc = "rollback" /\ handler'[h].file = f
          BY <1>1, <3>1, <3>3 DEF HandlerState
        <4> QED BY <4>1 DEF Owner
      <3> QED BY <1>1, <2>1, <3>1, <3>2, <3>3 DEF InsertRow, HandlerTo
    <2>2. CASE RollbackObject(h)
      BY <2>2 DEF RollbackObject, Owner, TidyUp
    <2>3. CASE DeleteDoc(h)
      <3>1. handler'[h] = [handler[h] EXCEPT !.pc = "deleteObject"] /\ handler[h].target = f
        BY <1>1, <2>3 DEF DeleteDoc, HandlerTo, Owner
      <3>2. handler'[h].pc = "deleteObject" /\ handler'[h].target = f
        BY <1>1, <3>1 DEF HandlerState
      <3> QED BY <3>2 DEF Owner
    <2>4. CASE DeleteObject(h)
      BY <2>4 DEF DeleteObject, Owner, TidyUp
    <2>5. /\ ~Put(h) /\ ~PutUnanswered(h) /\ ~Duplicate(h) /\ ~DeleteRow(h)
          /\ ~RequeueRow(h) /\ ~InsertLink(h) /\ ~ \E g \in File : Again(h, g)
      BY DEF Owner, Put, PutUnanswered, Duplicate, DeleteRow, RequeueRow,
             InsertLink, Again
    <2> QED BY <1>3, <2>1, <2>2, <2>3, <2>4, <2>5 DEF HandlerStep
  <1>4. ~ \E g \in File : Ask(h, g)
    BY DEF Owner, Ask, AskUpload, AskDelete, AskRetry, AskLink, Accepts
  <1>5. ASSUME NEW g \in Handler, g # h, HandlerStep(g) \/ \E k \in File : Ask(g, k)
        PROVE  handler'[h] = handler[h]
    <2>1. \E s : handler' = [handler EXCEPT ![g] = s]
      BY <1>5 DEF HandlerStep, Put, PutUnanswered, InsertRow, RollbackObject, Duplicate, DeleteRow,
                  DeleteDoc, DeleteObject, RequeueRow, InsertLink, Again, AfterDelete,
                  Ask, AskUpload, AskDelete, AskRetry, AskLink, HandlerTo
    <2> QED BY <1>1, <1>5, <2>1
  <1>6. ASSUME NEW w \in Worker, WorkerStep(w) \/ \E g \in File : Claim(w, g)
        PROVE  handler'[h] = handler[h]
    BY <1>6 DEF WorkerStep, Claim, Fetch, Lookup, Upsert, Wipe, Insert,
                Reconcile, Fail, FailUnwritten
  <1>7. CASE RequeueStale \/ (\E p \in Proc : Crash(p) \/ Start(p)) \/ UNCHANGED vars
    <2>1. handler' = handler
      BY <1>7 DEF RequeueStale, threads, Crash, Start, vars, TidyUp
    <2> QED BY <1>2, <2>1
  <1> QED BY <1>2, <1>3, <1>4, <1>5, <1>6, <1>7 DEF Next

(* Only delete_file takes a row out of the table. *)
LEMMA OnlyDeleteRow ==
  ASSUME TypeOK, [Next]_vars, NEW f \in File, InRow(f), row'[f].status \notin InTable
  PROVE  \E h \in Handler : DeleteRow(h) /\ handler[h].target = f
  <1> USE DEF InRow, InTable
  <1>1. row \in [File -> Row] /\ \A g \in File : row[g] \in Row
    BY DEF TypeOK
  <1>2. ASSUME NEW w \in Worker, WorkerStep(w) \/ \E g \in File : Claim(w, g)
        PROVE  FALSE
    <2>1. ASSUME NEW g \in File, Claim(w, g)
          PROVE  FALSE
      BY <1>1, <2>1 DEF Claim, Row
    <2>2. ~Reconcile(w)
      <3>1. Reconcile(w) =>
              \/ row' = row
              \/ \E s \in Settled : row' = [row EXCEPT ![worker[w].file] =
                   [row[worker[w].file] EXCEPT !.status = s, !.document = TRUE]]
        BY DEF Reconcile, Settled
      <3>2. ASSUME NEW s \in Settled, NEW g, row' = [row EXCEPT ![g] =
                   [row[g] EXCEPT !.status = s, !.document = TRUE]]
            PROVE  row'[f] = row[f] \/ row'[f].status = s
        BY <1>1, <3>2 DEF Row
      <3> QED BY <3>1, <3>2
    <2>3. ~Fail(w)
      <3>1. Fail(w) =>
              \/ row' = row
              \/ \E s \in {"QUEUED", "FAILED"} : row' = [row EXCEPT ![worker[w].file] =
                   [row[worker[w].file] EXCEPT !.status = s]]
        BY DEF Fail
      <3> QED BY <1>1, <3>1 DEF Row, Settled
    <2>4. /\ ~Fetch(w) /\ ~Lookup(w) /\ ~Upsert(w) /\ ~Wipe(w) /\ ~Insert(w)
          /\ ~FailUnwritten(w)
      BY DEF Fetch, Lookup, Upsert, Wipe, Insert, FailUnwritten
    <2> QED BY <1>2, <2>1, <2>2, <2>3, <2>4 DEF WorkerStep
  <1>3. ASSUME NEW h \in Handler, HandlerStep(h) \/ \E g \in File : Ask(h, g)
        PROVE  DeleteRow(h) /\ handler[h].target = f
    <2>1. ~InsertRow(h)
      BY <1>1 DEF InsertRow
    <2>2. ~DeleteDoc(h)
      BY <1>1 DEF DeleteDoc, Row
    <2>3. ~RequeueRow(h)
      <3>1. RequeueRow(h) =>
              \/ row' = row
              \/ row' = [row EXCEPT ![handler[h].target] =
                   [row[handler[h].target] EXCEPT !.status = "QUEUED", !.attempts = 0]]
        BY DEF RequeueRow
      <3> QED BY <1>1, <3>1 DEF Row
    <2>4. /\ ~Put(h) /\ ~PutUnanswered(h) /\ ~RollbackObject(h)
          /\ ~Duplicate(h) /\ ~DeleteObject(h) /\ ~InsertLink(h)
          /\ ~(\E g \in File : Again(h, g))
      BY DEF Put, PutUnanswered, RollbackObject, Duplicate, DeleteObject,
             InsertLink, Again
    <2>5. ~ \E g \in File : Ask(h, g)
      BY DEF Ask, AskUpload, AskDelete, AskRetry, AskLink
    <2>6. DeleteRow(h)
      BY <1>3, <2>1, <2>2, <2>3, <2>4, <2>5 DEF HandlerStep
    <2>7. handler[h].target = f
      BY <1>1, <2>6 DEF DeleteRow
    <2> QED BY <2>6, <2>7
  <1>4. ~RequeueStale /\ ~ \E p \in Proc : Start(p)
    <2>1. \A S : Requeued(S)[f].status \in InTable
      BY <1>1 DEF Requeued, Row
    <2>2. row' # row /\ \A S : row' # Requeued(S)
      BY <2>1
    <2> QED BY <2>2 DEF RequeueStale, Start
  <1>5. ~ \E p \in Proc : Crash(p)
    BY DEF Crash
  <1>6. ~ UNCHANGED vars
    BY DEF vars
  <1> QED BY <1>2, <1>3, <1>4, <1>5, <1>6 DEF Next

LEMMA OrphanStep ==
  ASSUME TidyUp, StorageInv, NoOrphanObject, [Next]_vars
  PROVE  NoOrphanObject'
  <1>1. TypeOK /\ ThreadsHoldFiles
    BY DEF StorageInv
  <1>2. ASSUME NEW f \in object'
        PROVE  InRow(f)' \/ \E h \in Handler : Owner(h, f)'
    <2>1. CASE f \notin object
      BY <1>1, <2>1, NewObject
    <2>2. CASE f \in object /\ ~InRow(f)
      BY <1>1, <2>2, OwnedObjects, OwnerMoves
    <2>3. CASE f \in object /\ InRow(f)
      <3>1. f \in File
        BY <1>1, <2>3 DEF TypeOK
      <3>2. \/ InRow(f)'
            \/ \E h \in Handler : DeleteRow(h) /\ handler[h].target = f
        BY <1>1, <2>3, <3>1, StatusMoves, OnlyDeleteRow DEF InRow
      <3>3. ASSUME NEW h \in Handler, DeleteRow(h), handler[h].target = f
            PROVE  Owner(h, f)'
        <4>1. \E pc \in {"deleteDoc", "deleteObject"} :
                handler'[h] = [handler[h] EXCEPT !.pc = pc]
          BY <1>1, <2>3, <3>3 DEF DeleteRow, HandlerTo, TypeOK
        <4>2. handler[h] \in HandlerState
          BY <1>1 DEF TypeOK
        <4>3. handler'[h].pc \in {"deleteDoc", "deleteObject"} /\ handler'[h].target = f
          BY <3>3, <4>1, <4>2 DEF HandlerState
        <4> QED BY <4>3 DEF Owner
      <3> QED BY <3>2, <3>3
    <2> QED BY <2>1, <2>2, <2>3
  <1> QED BY <1>2 DEF NoOrphanObject, Owner

(* Without a crash, a failing clean-up and a put that raises after it has  *)
(* stored its object, every object has a row or a request that will give   *)
(* it one or remove it: refused uploads, replaced duplicates and deletions *)
(* leave nothing in storage.                                               *)
THEOREM NothingLeftBehind ==
  ASSUME TidyUp
  PROVE  Spec => []NoOrphanObject
  <1>1. Init => NoOrphanObject
    BY DEF Init, NoOrphanObject
  <1>2. StorageInv /\ NoOrphanObject /\ [Next]_vars => NoOrphanObject'
    BY OrphanStep
  <1> QED BY <1>1, <1>2, StorageCorrect, PTL DEF Spec

-----------------------------------------------------------------------------
(* What a READY file has in the index, when claims are undisturbed and no  *)
(* teacher deletes a file whose bytes another file may have: a document is *)
(* known by its bytes, and deleting it for one file takes it from another  *)
(* that has been uploaded in the meantime.                                 *)

Distinct == \A f, g \in File : ContentOf[f] = ContentOf[g] => f = g

Unshared == Undisturbed /\ ("delete" \notin Asks \/ Distinct)

(* The unique index on the bytes of the rows. *)
OneRowPerBytes ==
    \A f, g \in File : InRow(f) /\ InRow(g) /\ ContentOf[f] = ContentOf[g] => f = g

(* Only a teacher's request takes a file away while it is worked on or     *)
(* indexed; a refused upload replaces a FAILED one.                        *)
LeftAlone ==
    /\ \A w \in Worker : Busy(w) /\ row[worker[w].file].status = "gone" => Distinct
    /\ \A h \in Handler :
         /\ handler[h].pc = "deleteDoc" => Distinct
         /\ handler[h].pc = "deleteRow" =>
              Distinct \/ row[handler[h].target].status \in {"FAILED", "gone"}

Indexed == {"READY", "STORED_ONLY"}

(* A row has a document, and a document is stored, once an ingest is done. *)
DocumentsFinished ==
    /\ \A f \in File : row[f].document => row[f].status \in Indexed
    /\ \A c \in Content : doc[c].status = "stored" =>
         \E f \in File : /\ ContentOf[f] = c
                         /\ row[f].status \in Indexed \/ (row[f].status = "gone" /\ Distinct)

(* A thread has written, in the scope of its file, the chunks it has come  *)
(* past.                                                                   *)
Written(w) ==
    LET f == worker[w].file  c == ContentOf[f] IN
    /\ worker[w].pc \in {"fetch", "lookup", "upsert", "wipe"} => worker[w].next = 0
    /\ worker[w].pc = "insert" =>
         /\ worker[w].next < ChunksOf[c]
         /\ \A i \in Indexes : i < worker[w].next => chunk[c][i] = ScopeOf[f]
    /\ worker[w].pc = "reconcile" =>
         \A i \in Indexes : i < ChunksOf[c] => chunk[c][i] = ScopeOf[f]

ChunksWritten ==
    \A w \in Worker : Busy(w) /\ row[worker[w].file].status = "PROCESSING" => Written(w)

IndexInv ==
    /\ ClaimInv /\ OneRowPerBytes /\ LeftAlone
    /\ DocumentsFinished /\ ChunksWritten /\ ReadyIsSearchable

LEMMA InitIndex == Init => IndexInv
  <1>1. Init => OneRowPerBytes /\ LeftAlone /\ ChunksWritten
    BY DEF Init, OneRowPerBytes, LeftAlone, ChunksWritten, InRow, InTable, Settled,
           Busy, Idle, IdleHandler
  <1>2. Init => DocumentsFinished /\ ReadyIsSearchable
    BY DEF Init, DocumentsFinished, ReadyIsSearchable, NoDoc
  <1> QED BY <1>1, <1>2, InitClaim DEF IndexInv

(* A thread at work on the bytes of a row works on that row's file, so     *)
(* nobody ingests the bytes of an indexed file; nor deletes them, as long  *)
(* as it has its row.                                                      *)
LEMMA NobodyElse ==
  ASSUME IndexInv, NEW f \in File, InRow(f)
  PROVE  /\ \A w \in Worker : Busy(w) /\ ContentOf[worker[w].file] = ContentOf[f] =>
              worker[w].file = f /\ row[f].status = "PROCESSING"
         /\ \A h \in Handler : handler[h].pc = "deleteDoc" =>
              ContentOf[handler[h].target] # ContentOf[f]
  <1>1. /\ StorageInv /\ ClaimsHold /\ OneRowPerBytes /\ LeftAlone /\ ThreadsHoldFiles
        /\ RowBeforeObject
    BY DEF IndexInv, ClaimInv, StorageInv
  <1>2. row[f].status # "gone"
    BY DEF InRow, InTable, Settled
  <1>3. ASSUME NEW w \in Worker, Busy(w), ContentOf[worker[w].file] = ContentOf[f]
        PROVE  worker[w].file = f /\ row[f].status = "PROCESSING"
    <2>1. worker[w].file \in File /\ row[worker[w].file].status \in {"PROCESSING", "gone"}
      BY <1>1, <1>3 DEF ThreadsHoldFiles, ClaimsHold
    <2>2. CASE row[worker[w].file].status = "PROCESSING"
      BY <1>1, <1>3, <2>1, <2>2 DEF OneRowPerBytes, InRow, InTable
    <2>3. CASE row[worker[w].file].status = "gone"
      BY <1>1, <1>2, <1>3, <2>1, <2>3 DEF LeftAlone, Distinct
    <2> QED BY <2>1, <2>2, <2>3
  <1>4. ASSUME NEW h \in Handler, handler[h].pc = "deleteDoc",
               ContentOf[handler[h].target] = ContentOf[f]
        PROVE  FALSE
    <2>1. handler[h].target \in File /\ row[handler[h].target].status = "gone" /\ Distinct
      BY <1>1, <1>4 DEF ThreadsHoldFiles, RowBeforeObject, LeftAlone, Removing
    <2> QED BY <1>2, <1>4, <2>1 DEF Distinct
  <1> QED BY <1>3, <1>4

(* The ways in which the row of a file changes. *)
LEMMA RowChanges ==
  ASSUME IndexInv, "retry" \notin Asks, [Next]_vars, NEW f \in File
  PROVE  \/ row'[f] = row[f]
         \/ /\ row'[f].status = row[f].status /\ ~row'[f].document
            /\ \E h \in Handler : DeleteDoc(h) /\ ContentOf[handler[h].target] = ContentOf[f]
         \/ /\ row[f].status = "QUEUED" /\ row'[f].status = "PROCESSING"
            /\ row'[f].document = row[f].document
         \/ /\ row[f].status = "PROCESSING" /\ row'[f].status \in {"QUEUED", "FAILED"}
            /\ row'[f].document = row[f].document
         \/ /\ row[f].status = "PROCESSING" /\ row'[f].document
            /\ row'[f].status = IF ChunksOf[ContentOf[f]] > 0 THEN "READY" ELSE "STORED_ONLY"
            /\ \E w \in Worker : Reconcile(w) /\ worker[w].file = f /\ ~UNCHANGED row
         \/ /\ row[f].status = "none" /\ row'[f].status = "QUEUED" /\ ~row'[f].document
            /\ SameBytes(f) = {}
            /\ \E h \in Handler : InsertRow(h) /\ handler[h].file = f
         \/ /\ InRow(f) /\ row'[f].status = "gone" /\ ~row'[f].document
            /\ \E h \in Handler : DeleteRow(h) /\ handler[h].target = f
  <1>1. /\ StorageInv /\ ClaimsHold /\ TypeOK /\ ThreadsHoldFiles /\ NoRetry /\ UploadsOwnIds
        /\ row \in [File -> Row] /\ \A g \in File : row[g] \in Row
    BY DEF IndexInv, ClaimInv, StorageInv, TypeOK
  <1>2. ASSUME NEW w \in Worker, NEW g \in File, Claim(w, g), row'[f] # row[f]
        PROVE  /\ row[f].status = "QUEUED" /\ row'[f].status = "PROCESSING"
               /\ row'[f].document = row[f].document
    BY <1>1, <1>2 DEF Claim, Row
  <1>3. ASSUME NEW w \in Worker, WorkerStep(w), row'[f] # row[f]
        PROVE  /\ row[f].status = "PROCESSING"
               /\ \/ /\ row'[f].status \in {"QUEUED", "FAILED"}
                     /\ row'[f].document = row[f].document
                  \/ /\ row'[f].document
                     /\ row'[f].status = IF ChunksOf[ContentOf[f]] > 0
                                         THEN "READY" ELSE "STORED_ONLY"
                     /\ Reconcile(w) /\ worker[w].file = f /\ ~UNCHANGED row
    <2>1. worker[w].file = f
      BY <1>1, <1>3, WorkerRows
    <2>2. row[f].status = "PROCESSING"
      BY <1>1, <1>3, <2>1, WorkerOutcome
    <2>3. CASE Reconcile(w)
      <3>1. row' = [row EXCEPT ![f] = [row[f] EXCEPT
                      !.status = IF ChunksOf[ContentOf[f]] > 0 THEN "READY" ELSE "STORED_ONLY",
                      !.document = TRUE]]
        BY <1>3, <2>1, <2>3 DEF Reconcile
      <3> QED BY <1>1, <2>1, <2>2, <2>3, <3>1, <1>3 DEF Row
    <2>4. CASE Fail(w)
      <3>1. \E s \in {"QUEUED", "FAILED"} : row' = [row EXCEPT ![f] = [row[f] EXCEPT !.status = s]]
        BY <1>3, <2>1, <2>4 DEF Fail
      <3> QED BY <1>1, <2>2, <3>1 DEF Row
    <2> QED
      BY <1>3, <2>3, <2>4
         DEF WorkerStep, Fetch, Lookup, Upsert, Wipe, Insert, FailUnwritten
  <1>4. ASSUME RequeueStale \/ \E p \in Proc : Start(p), row'[f] # row[f]
        PROVE  /\ row[f].status = "PROCESSING" /\ row'[f].status = "QUEUED"
               /\ row'[f].document = row[f].document
    <2>1. \E S \in SUBSET Processing : row' = Requeued(S)
      BY <1>4 DEF RequeueStale, Start
    <2>2. PICK S \in SUBSET Processing : row' = Requeued(S)
      BY <2>1
    <2>3. f \in S /\ row'[f] = [row[f] EXCEPT !.status = "QUEUED"]
      BY <1>4, <2>2 DEF Requeued
    <2> QED BY <1>1, <2>2, <2>3 DEF Processing, Row
  <1>5. ASSUME NEW h \in Handler, HandlerStep(h), row'[f] # row[f]
        PROVE  \/ /\ row'[f].status = row[f].status /\ ~row'[f].document
                  /\ DeleteDoc(h) /\ ContentOf[handler[h].target] = ContentOf[f]
               \/ /\ row[f].status = "none" /\ row'[f].status = "QUEUED" /\ ~row'[f].document
                  /\ SameBytes(f) = {} /\ InsertRow(h) /\ handler[h].file = f
               \/ /\ InRow(f) /\ row'[f].status = "gone" /\ ~row'[f].document
                  /\ DeleteRow(h) /\ handler[h].target = f
    <2>1. CASE InsertRow(h)
      <3>1. handler[h].pc = "insert" /\ SameBytes(handler[h].file) = {}
            /\ row' = [row EXCEPT ![handler[h].file] = [status |-> "QUEUED", attempts |-> 0,
                                                        document |-> FALSE]]
        BY <1>5, <2>1 DEF InsertRow
      <3>2. handler[h].file = f
        BY <1>1, <1>5, <3>1
      <3>3. row[f].status = "none"
        BY <1>1, <3>1, <3>2 DEF UploadsOwnIds, Uploading
      <3> QED BY <1>1, <2>1, <3>1, <3>2, <3>3
    <2>2. CASE DeleteRow(h)
      <3>1. row' = [row EXCEPT ![handler[h].target] = [row[handler[h].target] EXCEPT
                      !.status = "gone", !.document = FALSE]] /\ InRow(handler[h].target)
        BY <1>5, <2>2 DEF DeleteRow
      <3>2. handler[h].target = f
        BY <1>1, <1>5, <3>1
      <3> QED BY <1>1, <2>2, <3>1, <3>2 DEF Row
    <2>3. CASE DeleteDoc(h)
      <3>1. row' = [k \in File |-> IF ContentOf[k] = ContentOf[handler[h].target]
                                   THEN [row[k] EXCEPT !.document = FALSE] ELSE row[k]]
        BY <1>5, <2>3 DEF DeleteDoc
      <3> QED BY <1>1, <1>5, <2>3, <3>1 DEF Row
    <2>4. ~RequeueRow(h)
      BY <1>1 DEF RequeueRow, NoRetry
    <2> QED
      BY <1>5, <2>1, <2>2, <2>3, <2>4
         DEF HandlerStep, Put, PutUnanswered, RollbackObject, Duplicate, DeleteObject, InsertLink, Again
  <1>6. CASE \/ \E h \in Handler, g \in File : Ask(h, g)
             \/ \E p \in Proc : Crash(p)
             \/ UNCHANGED vars
    BY <1>6 DEF Ask, AskUpload, AskDelete, AskRetry, AskLink, Crash, vars
  <1> QED BY <1>2, <1>3, <1>4, <1>5, <1>6 DEF Next

(* The ways in which the document and the chunks of a content change: a    *)
(* thread at work on the content, or a deletion.                           *)
LEMMA IndexChanges ==
  ASSUME IndexInv, [Next]_vars, NEW c \in Content
  PROVE  \/ doc'[c] = doc[c] /\ chunk'[c] = chunk[c]
         \/ \E w \in Worker :
              /\ Busy(w) /\ ContentOf[worker[w].file] = c /\ WorkerStep(w)
              /\ doc'[c].status = "stored" => Reconcile(w) \/ doc[c].status = "stored"
         \/ \E h \in Handler :
              /\ handler[h].pc = "deleteDoc" /\ ContentOf[handler[h].target] = c
              /\ doc'[c].status # "stored"
  <1>1. /\ doc \in [Content -> Doc] /\ \A d \in Content : doc[d] \in Doc
        /\ chunk \in [Content -> [Indexes -> Scope \cup {NoScope}]]
        /\ TypeOK /\ ThreadsHoldFiles
    BY DEF IndexInv, ClaimInv, StorageInv, TypeOK
  <1>2. ASSUME NEW w \in Worker, WorkerStep(w), ~(doc'[c] = doc[c] /\ chunk'[c] = chunk[c])
        PROVE  /\ Busy(w) /\ ContentOf[worker[w].file] = c
               /\ doc'[c].status = "stored" => Reconcile(w) \/ doc[c].status = "stored"
    <2> DEFINE d == ContentOf[worker[w].file]
    <2>1. Busy(w) /\ worker[w].file \in File /\ d \in Content
      BY <1>1, <1>2, WorkerMoves, FilesAssumption DEF ThreadsHoldFiles
    <2>2. CASE Upsert(w)
      <3>1. /\ chunk' = chunk
            /\ \E s : doc' = [doc EXCEPT ![d] = [status |-> "embedding", scope |-> s]]
        BY <1>2, <2>2 DEF Upsert
      <3> QED BY <1>1, <1>2, <2>1, <3>1
    <2>3. CASE Wipe(w) \/ Insert(w)
      <3>1. doc' = doc
        BY <2>3 DEF Wipe, Insert
      <3>2. d = c
        <4>1. CASE Wipe(w)
          BY <1>1, <1>2, <3>1, <4>1 DEF Wipe
        <4>2. CASE Insert(w)
          <5>1. \E j, v : chunk' = [chunk EXCEPT ![d][j] = v]
            BY <1>2, <3>1, <4>2 DEF Insert
          <5> QED BY <1>1, <1>2, <3>1, <5>1
        <4> QED BY <2>3, <4>1, <4>2
      <3> QED BY <2>1, <3>1, <3>2
    <2>4. CASE Reconcile(w)
      <3>1. chunk' = chunk /\ (doc' = doc \/ doc' = [doc EXCEPT ![d].status = "stored"])
        BY <2>4 DEF Reconcile
      <3> QED BY <1>1, <1>2, <2>1, <2>4, <3>1
    <2>5. CASE Fail(w)
      <3>1. chunk' = chunk /\ (doc' = doc \/ doc' = [doc EXCEPT ![d] = [doc[d] EXCEPT !.status = "failed"]])
        BY <2>5 DEF Fail
      <3> QED BY <1>1, <1>2, <2>1, <3>1 DEF Doc
    <2>6. ~Fetch(w) /\ ~Lookup(w) /\ ~FailUnwritten(w)
      BY <1>2 DEF Fetch, Lookup, FailUnwritten, index
    <2> QED BY <1>2, <2>2, <2>3, <2>4, <2>5, <2>6 DEF WorkerStep
  <1>3. ASSUME NEW h \in Handler, HandlerStep(h), ~(doc'[c] = doc[c] /\ chunk'[c] = chunk[c])
        PROVE  /\ handler[h].pc = "deleteDoc" /\ ContentOf[handler[h].target] = c
               /\ doc'[c].status # "stored"
    <2>1. DeleteDoc(h)
      BY <1>3 DEF HandlerStep, Put, PutUnanswered, InsertRow, RollbackObject, Duplicate, DeleteRow,
                  DeleteObject, RequeueRow, InsertLink, Again, index
    <2>2. handler[h].pc = "deleteDoc"
      BY <2>1 DEF DeleteDoc
    <2>3. /\ doc' = [doc EXCEPT ![ContentOf[handler[h].target]] = NoDoc]
          /\ chunk' = [chunk EXCEPT ![ContentOf[handler[h].target]] = [i \in Indexes |-> NoScope]]
      BY <1>3, <2>1 DEF DeleteDoc
    <2> QED BY <1>1, <1>3, <2>2, <2>3 DEF NoDoc
  <1>4. CASE \/ \E w \in Worker, f \in File : Claim(w, f)
             \/ \E h \in Handler, f \in File : Ask(h, f)
             \/ RequeueStale
             \/ \E p \in Proc : Crash(p) \/ Start(p)
             \/ UNCHANGED vars
    BY <1>4 DEF Claim, Ask, AskUpload, AskDelete, AskRetry, AskLink, RequeueStale,
                Crash, Start, vars, index
  <1> QED BY <1>2, <1>3, <1>4 DEF Next

LEMMA OneRowStep ==
  ASSUME IndexInv, [Next]_vars
  PROVE  OneRowPerBytes'
  <1>1. TypeOK /\ ThreadsHoldFiles /\ OneRowPerBytes /\ handler \in [Handler -> HandlerState]
    BY DEF IndexInv, ClaimInv, StorageInv, TypeOK
  <1>2. ASSUME NEW f \in File, InRow(f)', ~InRow(f)
        PROVE  \E h \in Handler : /\ handler[h].pc = "insert" /\ handler[h].file = f
                                  /\ handler' = [handler EXCEPT ![h] = IdleHandler]
                                  /\ SameBytes(f) = {}
    <2>1. row'[f].status # row[f].status /\ row'[f].status # "gone"
      BY <1>2 DEF InRow, InTable, Settled
    <2> QED BY <1>1, <1>2, <2>1, StatusMoves
  <1>3. ASSUME NEW f \in File, NEW g \in File, InRow(f)', InRow(g)', ContentOf[f] = ContentOf[g]
        PROVE  f = g
    <2>1. CASE InRow(f) /\ InRow(g)
      BY <1>1, <1>3, <2>1 DEF OneRowPerBytes
    <2>2. CASE ~InRow(f) /\ InRow(g)
      BY <1>2, <1>3, <2>2 DEF SameBytes
    <2>3. CASE InRow(f) /\ ~InRow(g)
      BY <1>2, <1>3, <2>3 DEF SameBytes
    <2>4. CASE ~InRow(f) /\ ~InRow(g)
      <3>1. PICK h \in Handler : /\ handler[h].pc = "insert" /\ handler[h].file = f
                                 /\ handler' = [handler EXCEPT ![h] = IdleHandler]
        BY <1>2, <1>3, <2>4
      <3>2. PICK k \in Handler : /\ handler[k].pc = "insert" /\ handler[k].file = g
                                 /\ handler' = [handler EXCEPT ![k] = IdleHandler]
        BY <1>2, <1>3, <2>4
      <3>3. handler'[h] = IdleHandler /\ handler'[k] = IdleHandler
        BY <1>1, <3>1, <3>2
      <3>4. handler[h] # IdleHandler /\ handler[k] # IdleHandler
        BY <3>1, <3>2 DEF IdleHandler
      <3>5. h = k
        BY <1>1, <3>1, <3>2, <3>3, <3>4
      <3> QED BY <3>1, <3>2, <3>5
    <2> QED BY <2>1, <2>2, <2>3, <2>4
  <1> QED BY <1>3 DEF OneRowPerBytes

(* A thread that is busy after a step was busy with the same file before,  *)
(* or has claimed it.                                                      *)
LEMMA BusyAfter ==
  ASSUME IndexInv, [Next]_vars, NEW w \in Worker, Busy(w)'
  PROVE  \/ worker'[w] = worker[w] /\ Busy(w)
         \/ WorkerStep(w) /\ Busy(w) /\ worker'[w].file = worker[w].file
         \/ \E f \in File : /\ Claim(w, f) /\ worker'[w].file = f /\ worker'[w].pc = "fetch"
                            /\ worker'[w].next = 0 /\ row'[f].status = "PROCESSING"
  <1>1. TypeOK /\ worker \in [Worker -> WorkerState] /\ row \in [File -> Row]
        /\ \A f \in File : row[f] \in Row
    BY DEF IndexInv, ClaimInv, StorageInv, TypeOK
  <1>2. ASSUME NEW v \in Worker, WorkerStep(v)
        PROVE  \/ worker'[w] = worker[w]
               \/ v = w /\ Busy(w) /\ worker'[w].file = worker[w].file
    BY <1>1, <1>2, WorkerMoves DEF Busy, Idle
  <1>3. ASSUME NEW v \in Worker, NEW f \in File, Claim(v, f)
        PROVE  \/ worker'[w] = worker[w]
               \/ /\ v = w /\ worker'[w].file = f /\ worker'[w].pc = "fetch"
                  /\ worker'[w].next = 0 /\ row'[f].status = "PROCESSING"
    <2>1. row'[f].status = "PROCESSING"
      BY <1>1, <1>3 DEF Claim, Row
    <2>2. /\ worker'[v].file = f /\ worker'[v].pc = "fetch" /\ worker'[v].next = 0
          /\ \A u \in Worker \ {v} : worker'[u] = worker[u]
      BY <1>1, <1>3 DEF Claim, Idle
    <2> QED BY <2>1, <2>2
  <1>4. ASSUME NEW p \in Proc, Crash(p) \/ Start(p)
        PROVE  worker'[w] = worker[w]
    <2>1. worker'[w] \in {worker[w], Idle, Down}
      BY <1>4 DEF Crash, Start
    <2> QED BY <2>1 DEF Busy, Idle, Down
  <1>5. ASSUME NEW h \in Handler, HandlerStep(h) \/ \E f \in File : Ask(h, f)
        PROVE  worker'[w] = worker[w]
    BY <1>5 DEF HandlerStep, Put, PutUnanswered, InsertRow, RollbackObject, Duplicate, DeleteRow, DeleteDoc,
                DeleteObject, RequeueRow, InsertLink, Again, Ask, AskUpload, AskDelete,
                AskRetry, AskLink
  <1>6. CASE RequeueStale \/ UNCHANGED vars
    BY <1>6 DEF RequeueStale, threads, vars, Busy
  <1> QED BY <1>2, <1>3, <1>4, <1>5, <1>6 DEF Next, Busy

LEMMA LeftAloneStep ==
  ASSUME Unshared, IndexInv, [Next]_vars
  PROVE  LeftAlone'
  <1>1. /\ StorageInv /\ TypeOK /\ ThreadsHoldFiles /\ ClaimsHold /\ LeftAlone /\ DocumentsFinished
        /\ handler \in [Handler -> HandlerState] /\ \A h \in Handler : handler[h] \in HandlerState
        /\ "retry" \notin Asks
    BY DEF IndexInv, ClaimInv, StorageInv, TypeOK, Unshared, Undisturbed
  <1>2. ASSUME NEW f \in File, row'[f].status = "gone", row[f].status # "gone"
        PROVE  \E h \in Handler : /\ handler[h].pc = "deleteRow" /\ handler[h].target = f
    <2>1. \E h \in Handler : DeleteRow(h) /\ handler[h].target = f
      BY <1>1, <1>2, RowChanges
    <2> QED BY <2>1 DEF DeleteRow
  <1>3. ASSUME NEW w \in Worker, Busy(w)', row'[worker'[w].file].status = "gone"
        PROVE  Distinct
    <2>1. Busy(w) /\ worker'[w].file = worker[w].file
      BY <1>3, BusyAfter
    <2>2. worker[w].file \in File /\ row[worker[w].file].status \in {"PROCESSING", "gone"}
      BY <1>1, <2>1 DEF ThreadsHoldFiles, ClaimsHold
    <2> QED BY <1>1, <1>2, <1>3, <2>1, <2>2 DEF LeftAlone
  <1>4. ASSUME NEW f \in File, row[f].status \in {"FAILED", "gone"}
        PROVE  row'[f].status \in {"FAILED", "gone"}
    BY <1>1, <1>4, RowChanges DEF InRow, InTable, Settled
  <1>5. ASSUME NEW h \in Handler
        PROVE  /\ handler'[h].pc = "deleteDoc" => Distinct
               /\ handler'[h].pc = "deleteRow" =>
                    Distinct \/ row'[handler'[h].target].status \in {"FAILED", "gone"}
    <2>1. CASE handler'[h] = handler[h]
      BY <1>1, <1>4, <2>1 DEF LeftAlone, ThreadsHoldFiles, Removing
    <2>2. CASE handler'[h] = IdleHandler
      BY <2>2 DEF IdleHandler
    <2>3. CASE HandlerStep(h)
      <3>1. CASE Duplicate(h)
        <4>1. \/ handler'[h] = IdleHandler
              \/ \E g \in SameBytes(handler[h].file) :
                   /\ row[g].status = "FAILED"
                   /\ handler'[h] = [handler[h] EXCEPT !.pc = "deleteRow", !.target = g]
          BY <1>1, <3>1 DEF Duplicate, HandlerTo
        <4>2. ASSUME NEW g \in SameBytes(handler[h].file), row[g].status = "FAILED",
                     handler'[h] = [handler[h] EXCEPT !.pc = "deleteRow", !.target = g]
              PROVE  /\ handler'[h].pc = "deleteRow"
                     /\ row'[handler'[h].target].status \in {"FAILED", "gone"}
          <5>1. handler'[h].pc = "deleteRow" /\ handler'[h].target = g /\ g \in File
            BY <1>1, <4>2 DEF HandlerState, SameBytes
          <5> QED BY <1>4, <4>2, <5>1
        <4> QED BY <2>2, <4>1, <4>2
      <3>2. CASE DeleteRow(h)
        <4>1. handler[h].pc = "deleteRow" /\ handler[h].target \in File
          BY <1>1, <3>2 DEF DeleteRow, ThreadsHoldFiles
        <4>2. \/ handler'[h].pc \in {"idle", "again", "deleteObject"}
              \/ InRow(handler[h].target) /\ row[handler[h].target].document
                 /\ handler'[h].pc = "deleteDoc"
          <5>1. \/ handler'[h] = IdleHandler
                \/ \E pc \in {"again", "deleteObject"} : handler'[h] = [handler[h] EXCEPT !.pc = pc]
                \/ InRow(handler[h].target) /\ row[handler[h].target].document
                   /\ handler'[h] = [handler[h] EXCEPT !.pc = "deleteDoc"]
            BY <1>1, <3>2 DEF DeleteRow, AfterDelete, HandlerTo
          <5> QED BY <1>1, <5>1 DEF HandlerState, IdleHandler
        <4>3. InRow(handler[h].target) /\ row[handler[h].target].document => Distinct
          <5>1. row[handler[h].target].document => row[handler[h].target].status \in {"READY", "STORED_ONLY"}
            BY <1>1, <4>1 DEF DocumentsFinished, Indexed
          <5> QED BY <1>1, <4>1, <5>1 DEF LeftAlone
        <4> QED BY <4>2, <4>3
      <3>3. CASE ~Duplicate(h) /\ ~DeleteRow(h)
        <4>1. \/ handler'[h] = IdleHandler
              \/ \E pc \in {"insert", "duplicate", "deleteObject", "again"} :
                   handler'[h] = [handler[h] EXCEPT !.pc = pc]
              \/ \E n : handler'[h] = [handler[h] EXCEPT !.pc = "rollback", !.try = n]
              \/ \E g : handler'[h] = [IdleHandler EXCEPT !.pc = "put", !.file = g, !.try = 2]
          BY <1>1, <2>3, <3>3
             DEF HandlerStep, Put, PutUnanswered, InsertRow, RollbackObject, DeleteDoc, DeleteObject,
                 AfterDelete, RequeueRow, InsertLink, Again, HandlerTo
        <4>2. handler[h] \in HandlerState
          BY <1>1
        <4>3. ASSUME NEW pc, handler'[h] = [handler[h] EXCEPT !.pc = pc]
              PROVE  handler'[h].pc = pc
          BY <4>2, <4>3 DEF HandlerState
        <4>4. ASSUME NEW n, handler'[h] = [handler[h] EXCEPT !.pc = "rollback", !.try = n]
              PROVE  handler'[h].pc = "rollback"
          BY <4>2, <4>4 DEF HandlerState
        <4>5. ASSUME NEW g, handler'[h] = [IdleHandler EXCEPT !.pc = "put", !.file = g, !.try = 2]
              PROVE  handler'[h].pc = "put"
          BY <4>5 DEF IdleHandler
        <4>6. CASE handler'[h] = IdleHandler
          BY <4>6 DEF IdleHandler
        <4>7. CASE \E pc \in {"insert", "duplicate", "deleteObject", "again"} :
                     handler'[h] = [handler[h] EXCEPT !.pc = pc]
          BY <4>3, <4>7
        <4>8. CASE \E n : handler'[h] = [handler[h] EXCEPT !.pc = "rollback", !.try = n]
          BY <4>4, <4>8
        <4>9. CASE \E g : handler'[h] = [IdleHandler EXCEPT !.pc = "put", !.file = g, !.try = 2]
          BY <4>5, <4>9
        <4> QED BY <4>1, <4>6, <4>7, <4>8, <4>9
      <3> QED BY <3>1, <3>2, <3>3
    <2>4. ASSUME NEW f \in File, Ask(h, f)
          PROVE  handler'[h].pc # "deleteDoc" /\ (handler'[h].pc = "deleteRow" => Distinct)
      <3>1. CASE AskDelete(h, f)
        <4>1. Distinct
          BY <3>1 DEF AskDelete, Accepts, Unshared
        <4>2. handler'[h] = [IdleHandler EXCEPT !.pc = "deleteRow", !.target = f]
          BY <1>1, <3>1 DEF AskDelete, HandlerTo
        <4> QED BY <4>1, <4>2 DEF IdleHandler
      <3>2. CASE AskUpload(h, f)
        <4>1. \E n : handler'[h] = [IdleHandler EXCEPT !.pc = "put", !.file = f, !.try = n]
          BY <1>1, <3>2 DEF AskUpload, HandlerTo
        <4> QED BY <4>1 DEF IdleHandler
      <3>3. ~AskRetry(h, f)
        BY <1>1 DEF AskRetry, Accepts
      <3>4. CASE AskLink(h, f)
        <4>1. handler' = [handler EXCEPT ![h] = [IdleHandler EXCEPT !.pc = "link", !.target = f]]
          BY <3>4, Zenon DEF AskLink, HandlerTo
        <4> QED BY <1>1, <4>1 DEF IdleHandler
      <3> QED BY <2>4, <3>1, <3>2, <3>3, <3>4 DEF Ask
    <2> QED BY <1>1, <2>1, <2>2, <2>3, <2>4, OtherHandlers
  <1> QED BY <1>3, <1>5 DEF LeftAlone

LEMMA FinishedStep ==
  ASSUME Unshared, IndexInv, [Next]_vars
  PROVE  DocumentsFinished'
  <1>1. /\ StorageInv /\ TypeOK /\ ThreadsHoldFiles /\ ClaimsHold /\ LeftAlone /\ DocumentsFinished
        /\ doc \in [Content -> Doc] /\ row \in [File -> Row] /\ \A k \in File : row[k] \in Row
        /\ "retry" \notin Asks
    BY DEF IndexInv, ClaimInv, StorageInv, TypeOK, Unshared, Undisturbed
  <1>2. ASSUME NEW f \in File, row'[f].document
        PROVE  row'[f].status \in Indexed
    BY <1>1, <1>2, RowChanges DEF DocumentsFinished, Indexed
  <1>3. ASSUME NEW f \in File, row[f].status \in Indexed \/ (row[f].status = "gone" /\ Distinct)
        PROVE  row'[f].status \in Indexed \/ (row'[f].status = "gone" /\ Distinct)
    <2>1. CASE row'[f].status = row[f].status
      BY <1>3, <2>1
    <2>2. CASE row'[f].status # row[f].status
      <3>1. row'[f].status = "gone" /\ row[f].status # "gone"
            /\ \E h \in Handler : DeleteRow(h) /\ handler[h].target = f
        BY <1>1, <1>3, <2>2, RowChanges DEF Indexed, InRow, InTable, Settled
      <3>2. Distinct
        BY <1>1, <1>3, <3>1 DEF DeleteRow, LeftAlone, Indexed
      <3> QED BY <3>1, <3>2
    <2> QED BY <2>1, <2>2
  <1>4. ASSUME NEW c \in Content, doc'[c].status = "stored"
        PROVE  \E f \in File : /\ ContentOf[f] = c
                              /\ \/ row'[f].status \in Indexed
                                 \/ row'[f].status = "gone" /\ Distinct
    <2>1. CASE doc[c].status = "stored"
      BY <1>1, <1>3, <2>1 DEF DocumentsFinished
    <2>2. CASE doc[c].status # "stored"
      <3>1. PICK w \in Worker : Busy(w) /\ ContentOf[worker[w].file] = c /\ Reconcile(w)
        BY <1>4, <2>2, IndexChanges
      <3> DEFINE f == worker[w].file
      <3>2. f \in File /\ row[f].status \in {"PROCESSING", "gone"}
        BY <1>1, <3>1 DEF ThreadsHoldFiles, ClaimsHold
      <3>3. doc' # doc
        BY <1>4, <2>2
      <3>4. CASE row[f].status = "PROCESSING"
        <4>1. InRow(f)
          BY <3>4 DEF InRow, InTable
        <4>2. \E s \in {"READY", "STORED_ONLY"} : row' = [row EXCEPT ![f] = [row[f] EXCEPT
                        !.status = s, !.document = TRUE]]
          BY <3>1, <3>3, <4>1 DEF Reconcile
        <4>3. row'[f].status \in Indexed
          BY <1>1, <3>2, <4>2 DEF Indexed, Row
        <4> QED BY <3>1, <3>2, <4>3
      <3>5. CASE row[f].status = "gone"
        <4>1. Distinct
          BY <1>1, <3>1, <3>5 DEF LeftAlone
        <4> QED BY <1>3, <3>1, <3>2, <3>5, <4>1
      <3> QED BY <3>2, <3>4, <3>5
    <2> QED BY <2>1, <2>2
  <1> QED BY <1>2, <1>4 DEF DocumentsFinished

LEMMA IndexFacts ==
  /\ Indexes \subseteq Nat
  /\ \A c \in Content : ChunksOf[c] \in Nat /\ \A i \in Nat : i <= ChunksOf[c] => i \in Indexes
  <1>1. \A c \in Content : ChunksOf[c] \in Nat
    BY FilesAssumption
  <1> QED BY <1>1 DEF Indexes

(* The chunks of a content stay while nobody but w works on it.            *)
LEMMA ChunksStay ==
  ASSUME IndexInv, [Next]_vars, NEW f \in File, InRow(f),
         \A w \in Worker : worker[w].file = f => ~WorkerStep(w)
  PROVE  doc'[ContentOf[f]] = doc[ContentOf[f]] /\ chunk'[ContentOf[f]] = chunk[ContentOf[f]]
  <1>1. ContentOf[f] \in Content
    BY FilesAssumption
  <1> QED BY <1>1, NobodyElse, IndexChanges

LEMMA WrittenStep ==
  ASSUME Unshared, IndexInv, [Next]_vars
  PROVE  ChunksWritten'
  <1>1. /\ TypeOK /\ ThreadsHoldFiles /\ ClaimsHold /\ OneWorkerPerFile /\ OneRowPerBytes
        /\ DocumentsFinished /\ ChunksWritten /\ worker \in [Worker -> WorkerState]
        /\ chunk \in [Content -> [Indexes -> Scope \cup {NoScope}]]
        /\ "retry" \notin Asks
    BY DEF IndexInv, ClaimInv, StorageInv, TypeOK, Unshared, Undisturbed
  <1> SUFFICES ASSUME NEW w \in Worker, Busy(w)', row'[worker'[w].file].status = "PROCESSING"
               PROVE  Written(w)'
    BY DEF ChunksWritten
  <1>2. ASSUME NEW f \in File, Claim(w, f), worker'[w].pc = "fetch", worker'[w].next = 0
        PROVE  Written(w)'
    BY <1>2 DEF Written
  <1>3. ASSUME Busy(w), worker'[w].file = worker[w].file
        PROVE  worker[w].file \in File /\ row[worker[w].file].status = "PROCESSING" /\ Written(w)
    <2>1. worker[w].file \in File /\ row[worker[w].file].status \in {"PROCESSING", "gone"}
      BY <1>1, <1>3 DEF ThreadsHoldFiles, ClaimsHold
    <2>2. row[worker[w].file].status # "gone"
      BY <1>1, <1>3, <2>1, RowChanges DEF InRow, InTable, Settled
    <2> QED BY <1>1, <1>3, <2>1, <2>2 DEF ChunksWritten
  <1>4. CASE worker'[w] = worker[w] /\ Busy(w) /\ ~WorkerStep(w)
    <2>1. worker[w].file \in File /\ InRow(worker[w].file) /\ Written(w)
      BY <1>3, <1>4 DEF InRow, InTable
    <2>2. \A v \in Worker : worker[v].file = worker[w].file => ~WorkerStep(v)
      BY <1>1, <1>4, WorkerMoves DEF OneWorkerPerFile
    <2>3. chunk'[ContentOf[worker[w].file]] = chunk[ContentOf[worker[w].file]]
      BY <2>1, <2>2, ChunksStay
    <2> QED BY <1>4, <2>1, <2>3 DEF Written
  <1>5. CASE WorkerStep(w) /\ Busy(w) /\ worker'[w].file = worker[w].file
    <2> DEFINE f == worker[w].file  c == ContentOf[f]
    <2>1. f \in File /\ c \in Content /\ row[f].status = "PROCESSING" /\ Written(w) /\ f = worker'[w].file
      BY <1>3, <1>5, FilesAssumption
    <2>2. worker[w] \in WorkerState /\ worker[w].next \in Nat
      BY <1>1 DEF WorkerState
    <2>3. ASSUME NEW pc, GoTo(w, pc)
          PROVE  worker'[w].pc = pc /\ worker'[w].next = worker[w].next
      BY <1>1, <2>2, <2>3 DEF GoTo, WorkerState
    <2>4. ASSUME NEW e, Raise(w, e)
          PROVE  Written(w)'
      <3>1. worker'[w].pc = "fail"
        BY <1>1, <2>2, <2>4 DEF Raise, WorkerState
      <3> QED BY <3>1 DEF Written
    <2>5. ~Finish(w)
      BY <1>1 DEF Finish, Busy, Idle
    <2>6. CASE Fetch(w)
      BY <2>1, <2>3, <2>4, <2>6 DEF Fetch, Written
    <2>7. CASE Lookup(w)
      <3>1. doc[c].status # "stored"
        BY <1>1, <2>1 DEF DocumentsFinished, OneRowPerBytes, Distinct, Indexed, InRow, InTable, Settled
      <3> QED BY <2>1, <2>3, <2>4, <2>7, <3>1 DEF Lookup, Written
    <2>8. CASE Upsert(w)
      BY <2>1, <2>3, <2>4, <2>8 DEF Upsert, Written
    <2>9. CASE Wipe(w)
      <3>1. \/ \E e : Raise(w, e)
            \/ ChunksOf[c] = 0 /\ GoTo(w, "reconcile")
            \/ ChunksOf[c] # 0 /\ GoTo(w, "insert")
        BY <2>9 DEF Wipe
      <3>2. CASE ChunksOf[c] = 0 /\ GoTo(w, "reconcile")
        BY <2>1, <2>3, <3>2, IndexFacts DEF Written
      <3>3. CASE ChunksOf[c] # 0 /\ GoTo(w, "insert")
        <4>1. worker[w].next = 0
          BY <2>1, <2>9 DEF Written, Wipe
        <4>2. worker'[w].pc = "insert" /\ worker'[w].next = 0
          BY <2>3, <3>3, <4>1
        <4> QED BY <2>1, <3>3, <4>2, IndexFacts DEF Written
      <3> QED BY <2>4, <3>1, <3>2, <3>3
    <2>10. CASE Insert(w)
      <3> DEFINE i == worker[w].next
      <3>1. CASE \E e : Raise(w, e)
        BY <2>4, <3>1
      <3>2. CASE ~ \E e : Raise(w, e)
        <4>1. /\ chunk' = [chunk EXCEPT ![c][i] = ScopeOf[f]]
              /\ worker' = [worker EXCEPT ![w] = [worker[w] EXCEPT
                             !.pc = IF i + 1 = ChunksOf[c] THEN "reconcile" ELSE "insert",
                             !.next = i + 1]]
          BY <2>10, <3>2 DEF Insert
        <4>2. /\ worker'[w].pc = IF i + 1 = ChunksOf[c] THEN "reconcile" ELSE "insert"
              /\ worker'[w].next = i + 1
          BY <1>1, <2>2, <4>1 DEF WorkerState
        <4>3. i < ChunksOf[c] /\ \A j \in Indexes : j < i => chunk[c][j] = ScopeOf[f]
          BY <2>1, <2>10 DEF Written, Insert
        <4>4. i \in Indexes
          BY <2>1, <2>2, <4>3, IndexFacts
        <4>5. /\ chunk'[c][i] = ScopeOf[f]
              /\ \A j \in Indexes \ {i} : chunk'[c][j] = chunk[c][j]
          BY <1>1, <2>1, <4>1, <4>4
        <4>6. \A j \in Indexes : j < i + 1 => chunk'[c][j] = ScopeOf[f]
          BY <2>2, <4>3, <4>5, IndexFacts
        <4>7. i + 1 # ChunksOf[c] => i + 1 < ChunksOf[c]
          BY <2>1, <2>2, <4>3, IndexFacts
        <4> QED BY <2>1, <4>2, <4>6, <4>7 DEF Written
      <3> QED BY <3>1, <3>2
    <2>11. CASE Reconcile(w) \/ Fail(w) \/ FailUnwritten(w)
      BY <2>4, <2>5, <2>11 DEF Reconcile, Fail, FailUnwritten
    <2> QED BY <1>5, <2>6, <2>7, <2>8, <2>9, <2>10, <2>11 DEF WorkerStep
  <1> QED BY <1>2, <1>4, <1>5, BusyAfter

LEMMA ReadyStep ==
  ASSUME Unshared, IndexInv, [Next]_vars
  PROVE  ReadyIsSearchable'
  <1>1. /\ TypeOK /\ ThreadsHoldFiles /\ ClaimsHold /\ ReadyIsSearchable /\ ChunksWritten
        /\ doc \in [Content -> Doc] /\ \A d \in Content : doc[d] \in Doc
        /\ "retry" \notin Asks
    BY DEF IndexInv, ClaimInv, StorageInv, TypeOK, Unshared, Undisturbed
  <1> SUFFICES ASSUME NEW f \in File, row'[f].status = "READY"
               PROVE  Searchable(f)'
    BY DEF ReadyIsSearchable
  <1> DEFINE c == ContentOf[f]
  <1>2. c \in Content
    BY FilesAssumption
  <1>3. CASE row[f].status = "READY"
    <2>1. InRow(f) /\ Searchable(f)
      BY <1>1, <1>3 DEF InRow, InTable, Settled, ReadyIsSearchable
    <2>2. \A w \in Worker : worker[w].file = f => ~WorkerStep(w)
      BY <1>1, <1>3, WorkerMoves DEF ClaimsHold
    <2>3. doc'[c] = doc[c] /\ chunk'[c] = chunk[c]
      BY <2>1, <2>2, ChunksStay
    <2>4. ~ \E h \in Handler : DeleteDoc(h) /\ ContentOf[handler[h].target] = c
      BY <2>1, NobodyElse DEF DeleteDoc
    <2>5. row'[f] = row[f]
      BY <1>1, <1>3, <2>4, RowChanges
    <2> QED BY <2>1, <2>3, <2>5 DEF Searchable
  <1>4. CASE row[f].status # "READY"
    <2>1. /\ row[f].status = "PROCESSING" /\ row'[f].document
          /\ \E w \in Worker : Reconcile(w) /\ worker[w].file = f /\ ~UNCHANGED row
      BY <1>1, <1>4, RowChanges
    <2>2. PICK w \in Worker : Reconcile(w) /\ worker[w].file = f /\ ~UNCHANGED row
      BY <2>1
    <2>3. Busy(w) /\ worker[w].pc = "reconcile"
      BY <2>2 DEF Reconcile, Busy
    <2>4. Written(w)
      BY <1>1, <2>1, <2>2, <2>3 DEF ChunksWritten
    <2>5. \A i \in Indexes : i < ChunksOf[c] => chunk[c][i] = ScopeOf[f]
      BY <2>2, <2>3, <2>4 DEF Written
    <2>6. doc' = [doc EXCEPT ![c].status = "stored"] /\ chunk' = chunk
      BY <2>2 DEF Reconcile
    <2>7. doc'[c].status = "stored"
      BY <1>1, <1>2, <2>6 DEF Doc
    <2> QED BY <2>1, <2>5, <2>6, <2>7 DEF Searchable
  <1> QED BY <1>3, <1>4

(* A READY file can be searched: its document is stored, with all of its   *)
(* chunks, in the scope of the file, whatever crashes or fails, while      *)
(* claims are undisturbed and no file is deleted that shares its bytes.    *)
THEOREM ReadyMeansSearchable ==
  ASSUME Unshared
  PROVE  Spec => []ReadyIsSearchable
  <1>1. IndexInv /\ [Next]_vars => IndexInv'
    BY ClaimStep, OneRowStep, LeftAloneStep, FinishedStep, WrittenStep, ReadyStep
       DEF IndexInv, Unshared
  <1>2. IndexInv => ReadyIsSearchable
    BY DEF IndexInv
  <1> QED BY <1>1, <1>2, InitIndex, PTL DEF Spec
=============================================================================
