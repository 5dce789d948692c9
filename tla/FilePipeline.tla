---------------------------- MODULE FilePipeline ----------------------------
(***************************************************************************)
(* The ingestion of course files: rows of stored_files, the objects they   *)
(* name in object storage, the documents and chunks the retrieval index    *)
(* keeps for them, the worker threads that drain the queue and the request *)
(* handlers through which a teacher uploads, retries, links and deletes.   *)
(*                                                                         *)
(* Every database transaction, every autocommitted statement of the vector *)
(* store and every call to object storage is one step.  A process may die  *)
(* between any two of them: its threads and handlers lose what they hold.  *)
(*                                                                         *)
(* A file id is drawn once and never reused, so what the identity columns  *)
(* of a row say (its bytes, the classroom or assignment it belongs to) is  *)
(* a constant of the id.  The id of a document is a function of the bytes, *)
(* so documents and chunks are indexed by content.                         *)
(***************************************************************************)
EXTENDS Naturals, FiniteSets

CONSTANTS
    File,         \* file ids new_id("file") can return
    Content,      \* distinct byte strings, by their sha256
    Scope,        \* classrooms (materials) and assignments (attachments)
    ContentOf,    \* the sha256 column of a row
    ScopeOf,      \* the classroom_id, or the attachment's assignment
    ChunksOf,     \* how many chunks the chunker makes of a content
    Proc,         \* API processes; each runs worker threads and handlers
    Worker,       \* ingest threads
    Handler,      \* request threads
    ProcOf,       \* the process a thread runs in
    Asks,         \* which requests the teachers make
    Mishaps,      \* what may go wrong besides a failing attempt, see below
    MaxAttempts,  \* ingest_max_attempts
    MaxTrouble,   \* bound: crashes, lost outcomes, teacher retries and slow
                  \* claims together
    NoFile,
    NoScope

VARIABLES
    row,       \* stored_files: status, attempts, whether document_id is set
    object,    \* keys present in object storage
    doc,       \* documents: processing_status and the scope first written
    chunk,     \* document_chunks: index -> scope it was written with
    link,      \* assignment_materials: contents linked to an assignment
    worker,    \* local state of the ingest threads
    handler,   \* local state of the request threads
    up,        \* processes that are running
    trouble    \* adverse events so far

vars == <<row, object, doc, chunk, link, worker, handler, up, trouble>>

Requests == {"upload", "retry", "delete", "link"}

(* A process dies; a thread takes longer than ingest_stale_minutes; a      *)
(* best-effort clean-up (rollback_object, the tail of delete_file) fails;  *)
(* the database refuses the transaction that writes down why an attempt    *)
(* failed; storage keeps an object, but the call that put it raises.       *)
MishapKinds == {"crash", "slow", "cleanup", "outage", "reply"}

ASSUME FilesAssumption ==
    /\ ContentOf \in [File -> Content]
    /\ ScopeOf \in [File -> Scope]
    /\ ChunksOf \in [Content -> Nat]
    /\ NoFile \notin File
    /\ NoScope \notin Scope

ASSUME ThreadsAssumption ==
    /\ ProcOf \in [Worker \cup Handler -> Proc]
    /\ Worker \cap Handler = {}

ASSUME BoundsAssumption ==
    /\ Asks \subseteq Requests
    /\ Mishaps \subseteq MishapKinds
    /\ MaxAttempts \in Nat \ {0}
    /\ MaxTrouble \in Nat

-----------------------------------------------------------------------------
(* Rows, documents and threads. *)

Settled == {"READY", "STORED_ONLY", "FAILED"}
InTable == {"QUEUED", "PROCESSING"} \cup Settled
Absent  == {"none", "gone"}          \* not inserted yet; deleted

Row == [status : InTable \cup Absent, attempts : Nat, document : BOOLEAN]

Doc == [status : {"absent", "embedding", "stored", "failed"},
        scope  : Scope \cup {NoScope}]

NoDoc == [status |-> "absent", scope |-> NoScope]

Indexes == UNION {0 .. ChunksOf[c] : c \in Content}

(* What made an attempt fail.  "wrapped" is a temporary error (embedding   *)
(* service, database) inside ingest_document, which re-raises everything   *)
(* as IngestionError; "temporary" is one raised outside it.                *)
Fault == {"none", "permanent", "wrapped", "temporary"}

WorkerPC == {"down", "idle", "fetch", "lookup", "upsert", "wipe", "insert",
             "reconcile", "fail"}

WorkerState ==
    [pc : WorkerPC,
     file : File \cup {NoFile}, attempt : Nat, next : Nat, fault : Fault]

HandlerPC == {"idle", "put", "insert", "rollback", "duplicate", "deleteRow",
              "deleteDoc", "deleteObject", "again", "requeue", "link"}

HandlerState ==
    [pc : HandlerPC,
     file : File \cup {NoFile}, target : File \cup {NoFile}, try : 0 .. 2]

Idle == [pc |-> "idle", file |-> NoFile, attempt |-> 0, next |-> 0,
         fault |-> "none"]
Down == [Idle EXCEPT !.pc = "down"]

IdleHandler == [pc |-> "idle", file |-> NoFile, target |-> NoFile, try |-> 0]

InRow(f) == row[f].status \in InTable

Busy(w) == worker[w].pc \notin {"down", "idle"}

(* Some running thread believes it is processing f. *)
Held(f) == \E w \in Worker : Busy(w) /\ worker[w].file = f

(* new_id: an id no row, object or pending upload uses. *)
Fresh(f) ==
    /\ row[f].status = "none"
    /\ f \notin object
    /\ \A h \in Handler : handler[h].file = f => handler[h].pc = "again"

(* The index on (university, course, sha256) of RAG rows. *)
SameBytes(f) == {g \in File : InRow(g) /\ ContentOf[g] = ContentOf[f]}

(* stored_files_lifecycle: the status changes the trigger lets through. *)
MayBecome(old, new) ==
    \/ old = new
    \/ old = "QUEUED" /\ new \in {"PROCESSING", "FAILED"}
    \/ old = "PROCESSING" /\ new \in {"READY", "STORED_ONLY", "FAILED", "QUEUED"}
    \/ old \in Settled /\ new = "QUEUED"

-----------------------------------------------------------------------------
Init ==
    /\ row = [f \in File |-> [status |-> "none", attempts |-> 0,
                              document |-> FALSE]]
    /\ object = {}
    /\ doc = [c \in Content |-> NoDoc]
    /\ chunk = [c \in Content |-> [i \in Indexes |-> NoScope]]
    /\ link = {}
    /\ worker = [w \in Worker |-> Idle]
    /\ handler = [h \in Handler |-> IdleHandler]
    /\ up = Proc
    /\ trouble = 0

index == <<doc, chunk, link>>
threads == <<worker, handler, up>>

(* An adverse event is counted, so that a behaviour has finitely many. *)
Trouble == trouble < MaxTrouble /\ trouble' = trouble + 1

-----------------------------------------------------------------------------
(* Ingest threads. *)

GoTo(w, pc) == worker' = [worker EXCEPT ![w].pc = pc]

Raise(w, fault) ==
    worker' = [worker EXCEPT ![w] = [@ EXCEPT !.pc = "fail", !.fault = fault]]

Finish(w) == worker' = [worker EXCEPT ![w] = Idle]

(* claim_next: the thread takes a queued row.  The query prefers the oldest *)
(* one but SKIPs rows another transaction has locked, so any may be next.   *)
(* The attempts the thread will judge a failure by are those it read here.  *)
Claim(w, f) ==
    LET attempt == row[f].attempts + 1 IN
    /\ worker[w].pc = "idle"
    /\ row[f].status = "QUEUED"
    /\ row' = [row EXCEPT ![f] = [@ EXCEPT !.status = "PROCESSING",
                                          !.attempts = attempt]]
    /\ worker' = [worker EXCEPT ![w] =
                    [Idle EXCEPT !.pc = "fetch", !.file = f,
                                 !.attempt = attempt]]
    /\ UNCHANGED <<object, index, handler, up, trouble>>

(* _index reads the object.  It may be gone (its row was deleted after the *)
(* claim), storage may fail for a while, or the bytes may be corrupt.      *)
Fetch(w) ==
    /\ worker[w].pc = "fetch"
    /\ \/ worker[w].file \in object /\ GoTo(w, "lookup")
       \/ Raise(w, "temporary")
       \/ worker[w].file \in object /\ Raise(w, "permanent")
    /\ UNCHANGED <<row, object, index, handler, up, trouble>>

(* Mutant: any document of these bytes is taken for a finished one. *)
LookupAnyDocument(w) ==
    LET d == doc[ContentOf[worker[w].file]] IN
    /\ worker[w].pc = "lookup"
    /\ \/ d.status # "absent" /\ GoTo(w, "reconcile")
       \/ d.status = "absent" /\ GoTo(w, "upsert")
       \/ \E e \in {"permanent", "wrapped", "temporary"} : Raise(w, e)
    /\ UNCHANGED <<row, object, index, handler, up, trouble>>

(* ingest_document: a document already 'stored' for these bytes is reused  *)
(* as it is.  Otherwise the file is parsed, chunked and embedded; whatever *)
(* goes wrong there is raised as IngestionError.  A failure of the lookup  *)
(* itself is raised as it is.                                              *)
Lookup(w) ==
    LET d == doc[ContentOf[worker[w].file]] IN
    /\ worker[w].pc = "lookup"
    /\ \/ d.status = "stored" /\ GoTo(w, "reconcile")
       \/ d.status # "stored" /\ GoTo(w, "upsert")
       \/ d.status # "stored" /\ \E e \in {"permanent", "wrapped"} : Raise(w, e)
       \/ Raise(w, "temporary")
    /\ UNCHANGED <<row, object, index, handler, up, trouble>>

(* store_document, first statement: ON CONFLICT keeps the scope columns. *)
Upsert(w) ==
    LET f == worker[w].file  c == ContentOf[f] IN
    /\ worker[w].pc = "upsert"
    /\ \/ /\ doc' = [doc EXCEPT ![c] =
                       [status |-> "embedding",
                        scope |-> IF @.status = "absent" THEN ScopeOf[f]
                                                         ELSE @.scope]]
          /\ GoTo(w, "wipe")
       \/ Raise(w, "wrapped") /\ UNCHANGED doc
    /\ UNCHANGED <<row, object, chunk, link, handler, up, trouble>>

(* store_document, second statement. *)
Wipe(w) ==
    LET c == ContentOf[worker[w].file] IN
    /\ worker[w].pc = "wipe"
    /\ \/ /\ chunk' = [chunk EXCEPT ![c] = [i \in Indexes |-> NoScope]]
          /\ GoTo(w, IF ChunksOf[c] = 0 THEN "reconcile" ELSE "insert")
       \/ Raise(w, "wrapped") /\ UNCHANGED chunk
    /\ UNCHANGED <<row, object, doc, link, handler, up, trouble>>

(* store_document, one INSERT: refused when the document is gone (foreign  *)
(* key) or another thread has inserted this index (unique constraint).     *)
Insert(w) ==
    LET f == worker[w].file  c == ContentOf[f]  i == worker[w].next IN
    /\ worker[w].pc = "insert"
    /\ \/ /\ doc[c].status # "absent"
          /\ chunk[c][i] = NoScope
          /\ chunk' = [chunk EXCEPT ![c][i] = ScopeOf[f]]
          /\ worker' = [worker EXCEPT ![w] = [@ EXCEPT
                          !.pc = IF i + 1 = ChunksOf[c] THEN "reconcile"
                                                        ELSE "insert",
                          !.next = i + 1]]
       \/ Raise(w, "wrapped") /\ UNCHANGED chunk
    /\ UNCHANGED <<row, object, doc, link, handler, up, trouble>>

(* Mutant: the row is written whether or not it still exists. *)
ReconcileUpsert(w) ==
    LET f == worker[w].file  c == ContentOf[f] IN
    /\ worker[w].pc = "reconcile"
    /\ doc[c].status # "absent"
    /\ doc' = [doc EXCEPT ![c].status = "stored"]
    /\ row' = [row EXCEPT ![f] = [@ EXCEPT !.status = "READY",
                                          !.document = TRUE]]
    /\ Finish(w)
    /\ UNCHANGED <<object, chunk, link, handler, up, trouble>>

(* _reconcile, one transaction.  It raises when the document is gone, when *)
(* the trigger refuses the status, or when the database fails; nothing is  *)
(* written then.  When the row is gone its updates match nothing, but the  *)
(* document is still recorded as stored.                                   *)
Reconcile(w) ==
    LET f == worker[w].file
        c == ContentOf[f]
        outcome == IF ChunksOf[c] > 0 THEN "READY" ELSE "STORED_ONLY"
    IN
    /\ worker[w].pc = "reconcile"
    /\ \/ /\ doc[c].status # "absent"
          /\ InRow(f) => MayBecome(row[f].status, outcome)
          /\ doc' = [doc EXCEPT ![c].status = "stored"]
          /\ row' = IF InRow(f)
                    THEN [row EXCEPT ![f] = [@ EXCEPT !.status = outcome,
                                                      !.document = TRUE]]
                    ELSE row
          /\ Finish(w)
       \/ Raise(w, "temporary") /\ UNCHANGED <<row, doc>>
    /\ UNCHANGED <<object, chunk, link, handler, up, trouble>>

(* Mutant: one attempt too many. *)
RetryableOnceMore(w) ==
    worker[w].fault = "temporary" /\ worker[w].attempt <= MaxAttempts

Retryable(w) == worker[w].fault = "temporary" /\ worker[w].attempt < MaxAttempts

(* process, the except branch: back to the queue, or FAILED together with  *)
(* the document the row points at.  The trigger may refuse FAILED; the     *)
(* loop logs that and goes on.                                             *)
Fail(w) ==
    LET f == worker[w].file
        status == IF Retryable(w) THEN "QUEUED" ELSE "FAILED"
        written == InRow(f) /\ MayBecome(row[f].status, status)
    IN
    /\ worker[w].pc = "fail"
    /\ row' = IF written THEN [row EXCEPT ![f].status = status] ELSE row
    /\ doc' = IF written /\ status = "FAILED" /\ row[f].document
              THEN [doc EXCEPT ![ContentOf[f]].status = "failed"]
              ELSE doc
    /\ Finish(w)
    /\ UNCHANGED <<object, chunk, link, handler, up, trouble>>

(* The transaction of the except branch fails itself.  The loop logs that  *)
(* and goes on: the row stays PROCESSING, and nobody works on it.          *)
FailUnwritten(w) ==
    /\ worker[w].pc = "fail"
    /\ "outage" \in Mishaps /\ Trouble
    /\ Finish(w)
    /\ UNCHANGED <<row, object, index, handler, up>>

Requeued(S) == [f \in File |-> IF f \in S THEN [row[f] EXCEPT !.status = "QUEUED"]
                                          ELSE row[f]]

(* Mutant: requeue_stale without its condition on the status. *)
ProcessingOrDone == {f \in File : row[f].status \in {"PROCESSING", "READY"}}

Processing == {f \in File : row[f].status = "PROCESSING"}

(* Mutants: the age of the claim is not looked at; only start() recovers.  *)
RequeueAll ==
    \E S \in SUBSET Processing :
        /\ S # {}
        /\ \E w \in Worker : worker[w].pc = "idle"
        /\ row' = Requeued(S)
        /\ UNCHANGED <<object, index, threads, trouble>>

RequeueNever == FALSE /\ UNCHANGED vars

(* requeue_stale(ingest_stale_minutes), from an idle thread's loop: the    *)
(* rows claimed long ago.  Those a live thread still works on are among    *)
(* them only if the thread is slow.                                        *)
RequeueStale ==
    \E S \in SUBSET Processing :
        /\ S # {}
        /\ \E w \in Worker : worker[w].pc = "idle"
        /\ row' = Requeued(S)
        /\ \/ (\A f \in S : ~Held(f)) /\ UNCHANGED trouble
           \/ (\E f \in S : Held(f)) /\ "slow" \in Mishaps /\ Trouble
        /\ UNCHANGED <<object, index, threads>>

-----------------------------------------------------------------------------
(* Requests. *)

HandlerTo(h, state) == handler' = [handler EXCEPT ![h] = state]

Accepts(h, ask) == ask \in Asks /\ handler[h].pc = "idle" /\ ProcOf[h] \in up

(* Mutant: the row is inserted before the object is stored. *)
AskUploadRowFirst(h, f) ==
    /\ Accepts(h, "upload")
    /\ Fresh(f)
    /\ HandlerTo(h, [IdleHandler EXCEPT !.pc = "insert", !.file = f, !.try = 1])
    /\ UNCHANGED <<row, object, index, worker, up, trouble>>

(* A validated upload.  A material may replace a FAILED duplicate once     *)
(* (attempts 1 and 2 of the loop); an attachment has no second attempt.    *)
AskUpload(h, f) ==
    /\ Accepts(h, "upload")
    /\ Fresh(f)
    /\ \E try \in {1, 2} :
         HandlerTo(h, [IdleHandler EXCEPT !.pc = "put", !.file = f, !.try = try])
    /\ UNCHANGED <<row, object, index, worker, up, trouble>>

(* save puts the object before the row exists. *)
Put(h) ==
    /\ handler[h].pc = "put"
    /\ \/ /\ object' = object \cup {handler[h].file}
          /\ HandlerTo(h, [handler[h] EXCEPT !.pc = "insert"])
       \/ HandlerTo(h, IdleHandler) /\ UNCHANGED object
    /\ UNCHANGED <<row, index, worker, up, trouble>>

(* The object is stored, but the call raises (a timeout, a lost reply):    *)
(* save has not returned its key, so the caller has nothing to remove.     *)
PutUnanswered(h) ==
    /\ handler[h].pc = "put"
    /\ "reply" \in Mishaps
    /\ object' = object \cup {handler[h].file}
    /\ HandlerTo(h, IdleHandler)
    /\ UNCHANGED <<row, index, worker, up, trouble>>

(* Mutant: a status outside the CHECK constraint. *)
InsertRowPending(h) ==
    LET f == handler[h].file IN
    /\ handler[h].pc = "insert"
    /\ SameBytes(f) = {}
    /\ row' = [row EXCEPT ![f] = [status |-> "PENDING", attempts |-> 0,
                                  document |-> FALSE]]
    /\ HandlerTo(h, IdleHandler)
    /\ UNCHANGED <<object, index, worker, up, trouble>>

(* save inserts the row; the unique index may refuse it, or the            *)
(* transaction fails for another reason.                                   *)
InsertRow(h) ==
    LET f == handler[h].file IN
    /\ handler[h].pc = "insert"
    /\ \/ /\ SameBytes(f) = {}
          /\ row' = [row EXCEPT ![f] = [status |-> "QUEUED", attempts |-> 0,
                                        document |-> FALSE]]
          /\ HandlerTo(h, IdleHandler)
       \/ /\ HandlerTo(h, [handler[h] EXCEPT !.pc = "rollback",
                            !.try = IF SameBytes(f) = {} THEN 0 ELSE @])
          /\ UNCHANGED row
    /\ UNCHANGED <<object, index, worker, up, trouble>>

(* Mutant: a refused upload keeps its object. *)
RollbackNothing(h) ==
    /\ handler[h].pc = "rollback"
    /\ HandlerTo(h, IdleHandler)
    /\ UNCHANGED <<row, object, index, worker, up, trouble>>

(* rollback_object: best effort.  A duplicate is looked into, any other    *)
(* error is reported.                                                      *)
RollbackObject(h) ==
    /\ handler[h].pc = "rollback"
    /\ \/ object' = object \ {handler[h].file}
       \/ "cleanup" \in Mishaps /\ UNCHANGED object
    /\ HandlerTo(h, IF handler[h].try = 0 THEN IdleHandler
                    ELSE [handler[h] EXCEPT !.pc = "duplicate"])
    /\ UNCHANGED <<row, index, worker, up, trouble>>

(* _duplicate_of: on the first attempt a FAILED file gives way to this one. *)
Duplicate(h) ==
    /\ handler[h].pc = "duplicate"
    /\ \/ \E g \in SameBytes(handler[h].file) :
             /\ row[g].status = "FAILED"
             /\ handler[h].try = 1
             /\ HandlerTo(h, [handler[h] EXCEPT !.pc = "deleteRow",
                                                !.target = g])
       \/ /\ \A g \in SameBytes(handler[h].file) :
                row[g].status # "FAILED" \/ handler[h].try = 2
          /\ HandlerTo(h, IdleHandler)
    /\ UNCHANGED <<row, object, index, worker, up, trouble>>

AskDelete(h, f) ==
    /\ Accepts(h, "delete")
    /\ InRow(f)
    /\ HandlerTo(h, [IdleHandler EXCEPT !.pc = "deleteRow", !.target = f])
    /\ UNCHANGED <<row, object, index, worker, up, trouble>>

(* After delete_file: the second attempt of an upload, or done.            *)
AfterDelete(h) ==
    HandlerTo(h, IF handler[h].try = 0 THEN IdleHandler
                 ELSE [handler[h] EXCEPT !.pc = "again"])

(* The second attempt draws a new id for the same bytes. *)
Again(h, g) ==
    LET f == handler[h].file IN
    /\ handler[h].pc = "again"
    /\ Fresh(g)
    /\ ContentOf[g] = ContentOf[f] /\ ScopeOf[g] = ScopeOf[f]
    /\ HandlerTo(h, [IdleHandler EXCEPT !.pc = "put", !.file = g, !.try = 2])
    /\ UNCHANGED <<row, object, index, worker, up, trouble>>

(* delete_file, the transaction: link rows and the row itself. *)
DeleteRow(h) ==
    LET g == handler[h].target IN
    /\ handler[h].pc = "deleteRow"
    /\ \/ /\ InRow(g)
          /\ row' = [row EXCEPT ![g] = [@ EXCEPT !.status = "gone",
                                                  !.document = FALSE]]
          /\ link' = IF row[g].document THEN link \ {ContentOf[g]} ELSE link
          /\ HandlerTo(h, [handler[h] EXCEPT
                !.pc = IF row[g].document THEN "deleteDoc" ELSE "deleteObject"])
       \/ ~InRow(g) /\ AfterDelete(h) /\ UNCHANGED <<row, link>>
    /\ UNCHANGED <<object, doc, chunk, worker, up, trouble>>

(* delete_document: chunks and links cascade, rows of stored_files that    *)
(* point at the document get NULL.  A failure is only logged.              *)
DeleteDoc(h) ==
    LET c == ContentOf[handler[h].target] IN
    /\ handler[h].pc = "deleteDoc"
    /\ \/ /\ doc' = [doc EXCEPT ![c] = NoDoc]
          /\ chunk' = [chunk EXCEPT ![c] = [i \in Indexes |-> NoScope]]
          /\ link' = link \ {c}
          /\ row' = [f \in File |-> IF ContentOf[f] = c
                                    THEN [row[f] EXCEPT !.document = FALSE]
                                    ELSE row[f]]
       \/ "cleanup" \in Mishaps /\ UNCHANGED <<row, doc, chunk, link>>
    /\ HandlerTo(h, [handler[h] EXCEPT !.pc = "deleteObject"])
    /\ UNCHANGED <<object, worker, up, trouble>>

DeleteObject(h) ==
    /\ handler[h].pc = "deleteObject"
    /\ \/ object' = object \ {handler[h].target}
       \/ "cleanup" \in Mishaps /\ UNCHANGED object
    /\ AfterDelete(h)
    /\ UNCHANGED <<row, index, worker, up, trouble>>

(* retry_material: the status is read, and refused while PROCESSING ...    *)
AskRetry(h, f) ==
    /\ Accepts(h, "retry")
    /\ InRow(f) /\ row[f].status # "PROCESSING"
    /\ Trouble
    /\ HandlerTo(h, [IdleHandler EXCEPT !.pc = "requeue", !.target = f])
    /\ UNCHANGED <<row, object, index, worker, up>>

(* ... and written by a second statement, whatever it is by then.          *)
RequeueRow(h) ==
    LET f == handler[h].target IN
    /\ handler[h].pc = "requeue"
    /\ row' = IF InRow(f)
              THEN [row EXCEPT ![f] = [@ EXCEPT !.status = "QUEUED",
                                                !.attempts = 0]]
              ELSE row
    /\ HandlerTo(h, IdleHandler)
    /\ UNCHANGED <<object, index, worker, up, trouble>>

(* _set_links: the material's document is read ...                         *)
AskLink(h, f) ==
    /\ Accepts(h, "link")
    /\ InRow(f) /\ row[f].document
    /\ HandlerTo(h, [IdleHandler EXCEPT !.pc = "link", !.target = f])
    /\ UNCHANGED <<row, object, index, worker, up, trouble>>

(* Mutant: no foreign key on assignment_materials. *)
InsertLinkUnchecked(h) ==
    /\ handler[h].pc = "link"
    /\ link' = link \cup {ContentOf[handler[h].target]}
    /\ HandlerTo(h, IdleHandler)
    /\ UNCHANGED <<row, object, doc, chunk, worker, up, trouble>>

(* ... and linked by a second statement, if the document still exists.     *)
InsertLink(h) ==
    LET c == ContentOf[handler[h].target] IN
    /\ handler[h].pc = "link"
    /\ link' = IF doc[c].status = "absent" THEN link ELSE link \cup {c}
    /\ HandlerTo(h, IdleHandler)
    /\ UNCHANGED <<row, object, doc, chunk, worker, up, trouble>>

-----------------------------------------------------------------------------
(* Processes. *)

Crash(p) ==
    /\ "crash" \in Mishaps
    /\ p \in up /\ up' = up \ {p}
    /\ Trouble
    /\ worker' = [w \in Worker |-> IF ProcOf[w] = p THEN Down ELSE worker[w]]
    /\ handler' = [h \in Handler |-> IF ProcOf[h] = p THEN IdleHandler
                                                      ELSE handler[h]]
    /\ UNCHANGED <<row, object, index>>

(* IngestWorker.start: "anything left PROCESSING by a previous process is  *)
(* orphaned".  When the database refuses, the threads start all the same.  *)
Start(p) ==
    /\ p \in Proc \ up /\ up' = up \cup {p}
    /\ row' \in {row, Requeued(Processing)}
    /\ worker' = [w \in Worker |-> IF ProcOf[w] = p THEN Idle ELSE worker[w]]
    /\ UNCHANGED <<object, index, handler, trouble>>

WorkerStep(w) ==
    \/ Fetch(w) \/ Lookup(w) \/ Upsert(w) \/ Wipe(w) \/ Insert(w)
    \/ Reconcile(w) \/ Fail(w) \/ FailUnwritten(w)

HandlerStep(h) ==
    \/ Put(h) \/ PutUnanswered(h) \/ InsertRow(h) \/ RollbackObject(h)
    \/ Duplicate(h) \/ DeleteRow(h) \/ DeleteDoc(h) \/ DeleteObject(h)
    \/ RequeueRow(h) \/ InsertLink(h) \/ \E g \in File : Again(h, g)

Ask(h, f) == AskUpload(h, f) \/ AskDelete(h, f) \/ AskRetry(h, f) \/ AskLink(h, f)

Next ==
    \/ \E w \in Worker : WorkerStep(w) \/ \E f \in File : Claim(w, f)
    \/ \E h \in Handler : HandlerStep(h) \/ \E f \in File : Ask(h, f)
    \/ RequeueStale
    \/ \E p \in Proc : Crash(p) \/ Start(p)

Spec == Init /\ [][Next]_vars

(* Threads run, a supervisor restarts the process, and the idle loop keeps *)
(* looking for stale rows.  No teacher has to ask for anything.            *)
Fairness ==
    /\ \A w \in Worker : WF_vars(WorkerStep(w))
    /\ \A w \in Worker : WF_vars(\E f \in File : Claim(w, f))
    /\ \A h \in Handler : WF_vars(HandlerStep(h))
    /\ \A p \in Proc : WF_vars(Start(p))
    /\ WF_vars(RequeueStale)

FairSpec == Spec /\ Fairness
-----------------------------------------------------------------------------
(* Properties. *)

TypeOK ==
    /\ row \in [File -> Row]
    /\ object \subseteq File
    /\ doc \in [Content -> Doc]
    /\ chunk \in [Content -> [Indexes -> Scope \cup {NoScope}]]
    /\ link \subseteq Content
    /\ worker \in [Worker -> WorkerState]
    /\ handler \in [Handler -> HandlerState]
    /\ up \subseteq Proc
    /\ trouble \in Nat

Present(c) == doc[c].status # "absent"

(* The bytes of every row are in object storage: save puts the object      *)
(* first, a refused upload removes only its own object, and delete_file    *)
(* removes the row before the object, wherever a process dies.             *)
ObjectBehindRow == \A f \in File : InRow(f) => f \in object

(* document_id and assignment_materials never point at a document that is  *)
(* gone, and a chunk never outlives its document, however deletions and    *)
(* ingests of the same bytes interleave.                                   *)
ReferencesResolve ==
    /\ \A f \in File : row[f].document => InRow(f) /\ Present(ContentOf[f])
    /\ \A c \in Content : c \in link => Present(c)
    /\ \A c \in Content, i \in Indexes : chunk[c][i] # NoScope => Present(c)

(* "Ready, searchable by the AI Coach": a READY file is linked to a stored *)
(* document all of whose chunks carry the file's own scope.                *)
Searchable(f) ==
    LET c == ContentOf[f] IN
    /\ row[f].document
    /\ doc[c].status = "stored"
    /\ \A i \in Indexes : i < ChunksOf[c] => chunk[c][i] = ScopeOf[f]

ReadyIsSearchable == \A f \in File : row[f].status = "READY" => Searchable(f)

(* Workers never process the same file twice at a time. *)
OneWorkerPerFile ==
    \A v, w \in Worker :
        Busy(v) /\ Busy(w) /\ worker[v].file = worker[w].file => v = w

(* A file is attempted at most MaxAttempts times, and once more for every  *)
(* attempt whose end was not written down, by a crash or because the       *)
(* database refused: recovery takes such a file back whatever its count    *)
(* (pipeline.py:113-116), and nothing else goes past ingest_max_attempts.  *)
AttemptsBounded ==
    \A f \in File :
        /\ row[f].status = "QUEUED" => row[f].attempts < MaxAttempts + trouble
        /\ row[f].attempts <= MaxAttempts + trouble

(* No object is left behind: one without a row belongs to a request that   *)
(* is still going to insert the row or remove the object.  This is all the *)
(* code can do about it where no process dies, no clean-up fails and no    *)
(* put raises after the object was stored (the mishaps "crash", "cleanup"  *)
(* and "reply"): nothing looks for objects without a row.                  *)
NoOrphanObject ==
    \A f \in object :
        \/ InRow(f)
        \/ \E h \in Handler :
              \/ handler[h].pc \in {"insert", "rollback"} /\ handler[h].file = f
              \/ /\ handler[h].pc \in {"deleteDoc", "deleteObject"}
                 /\ handler[h].target = f

(* Once a file is indexed or stored only a teacher's request takes it back *)
(* to the queue or removes it: no worker ever does.                        *)
SettledByTeacher ==
    [][\A f \in File :
         /\ row[f].status \in {"READY", "STORED_ONLY"}
         /\ row'[f].status # row[f].status
         => \E h \in Handler : /\ handler[h].pc \in {"requeue", "deleteRow"}
                               /\ handler[h].target = f
                               /\ handler'[h] # handler[h]]_vars

(* A temporary error is retried while attempts are left. *)
TemporaryErrorsAreRetried ==
    [][\A w \in Worker :
         /\ worker[w].pc = "fail" /\ worker'[w].pc = "idle"
         /\ worker[w].fault \in {"wrapped", "temporary"}
         /\ worker[w].attempt < MaxAttempts
         => row'[worker[w].file].status # "FAILED"]_vars

(* "Remove a file everywhere": with no row for a content and nobody at     *)
(* work on it, the index holds nothing of it.                              *)
AtWork(c) ==
    \/ \E w \in Worker : Busy(w) /\ ContentOf[worker[w].file] = c
    \/ \E h \in Handler : /\ handler[h].pc = "deleteDoc"
                           /\ ContentOf[handler[h].target] = c

Listed(c) == \E f \in File : InRow(f) /\ ContentOf[f] = c

DeletedEverywhere == \A c \in Content : Present(c) => Listed(c) \/ AtWork(c)

-----------------------------------------------------------------------------
(* The abstract specification the pipeline implements. *)

ShelfOf(status) ==
    CASE status = "none" -> "absent"
      [] status \in {"QUEUED", "PROCESSING"} -> "pending"
      [] status = "READY" -> "ready"
      [] status = "STORED_ONLY" -> "stored"
      [] status = "FAILED" -> "failed"
      [] status = "gone" -> "gone"

Shelf == INSTANCE FileShelf
         WITH shelf <- [f \in File |-> ShelfOf(row[f].status)], kept <- object

(* Every behaviour of the pipeline is a behaviour of the shelf. *)
ImplementsShelf == Shelf!ShelfSpec

(* The same with its promise that no file waits forever. *)
ImplementsFairShelf == Shelf!FairShelfSpec
=============================================================================
