# Verification of SocratiQ

SocratiQ (`src/`) is a learning platform: a FastAPI back end over PostgreSQL,
an AI package (an AI Coach built as a graph of nodes, verification challenges,
retrieval over course material) and a web front end. Students work on
assignments with a Coach that never gives the answer away; after submitting
they explain, modify and transfer their work; instructors upload material that
the Coach may search.

This directory holds TLA+ models of the parts that keep state or decide,
configurations for TLC, and proofs checked by TLAPS. `PROJECT.json` maps every
definition to the lines it models and lists runs, hazards, findings, theorems
and, for every property, a mutant of the model (a definition marked "Mutant:"
in the modules, unused by the specifications) that breaks it.

## 1. The system

| Component | State it keeps | Operations | What is hard | What makes it correct |
|---|---|---|---|---|
| File pipeline (`app/files/pipeline.py`, `worker.py`, `routers/teacher.py`, migration 011) | rows of `stored_files`, objects in storage, links to assignments | upload, replace a failed duplicate, claim, process, retry, recover stale rows, link, delete | threads and handlers of several processes share rows; three stores without a common transaction; crashes; best-effort clean-up | a row has its bytes; nothing dangles; READY means searchable; one worker per file; every file is settled |
| Retrieval index (`ai/rag/service.py`, `storage/pgvector.py`, migration 001) | `documents`, `document_chunks` | ingest (upsert, wipe, insert chunk by chunk), reuse, delete | autocommitted statements; two ingests of the same bytes; deletion meanwhile | no chunk without its document; only complete documents are reused |
| From file to chunks (`app/files/validation.py`, `extractors.py`, `ai/rag/ingestion`, `chunking`, `embeddings`) | none | validate, extract, clean, chunk, embed in batches | twelve formats with libraries that disagree; thresholds; estimates that do not add up; batches repeated, answered in any order or in part | no text lost; a chunk fits; vectors follow their texts; what is accepted can be read |
| Retrieval (`ai/rag/retrieval`, `ai/tools/course_retrieval.py`, `access.py`) | sources recorded with a turn | read the whitelist, search twice, fuse, rerank, filter, record | documents come and go during a turn; each search and the reranker may fail; an empty whitelist means "no restriction" inside the AI | only allowed sources; agreement counts; one search suffices; recorded sources exist |
| Attempts and submissions (`routers/student.py`, `access.py`, migration 010) | `attempts`, drafts, `submissions` | start, save, submit text, submit a file | check and write in different statements; double clicks; a file put before the transaction | one open attempt; a submission never changes and keeps its file |
| Coaching sessions (`routers/ai.py`) | `ai_sessions`, messages, interactions | a turn: two transactions around a call of up to 90 s | everything read before the call may be stale after it | one active session; transcripts of a submitted attempt are frozen |
| Rate limiter and AI adapter (`app/ratelimit.py`, `ai_adapter.py`, `db.py`) | windows of hits; a pool of threads; a pool of connections | admit or refuse, run a job with a timeout | the clock is read before the lock; a job outlives its request; jobs and handlers share connections | the limit holds; the pools do not deadlock, and drain |
| Coach graph (`ai/agents/coach`, `ai/guardrails`) | the state of one turn | route, answer from the records, diagnose, choose, retrieve, generate, validate, fall back, emit evidence | the model may answer anything or fail at each node; retries; two sets of rules; the state starts with that of the turn before | the answer is never given; what is recorded fits the turn; a turn ends |
| Verification (`routers/verification.py`, `records.py`, migration 005) | runs, questions, responses, results, concept states | start or resume, generate, answer | generation and evaluation outside transactions; two requests at once; aggregates over other runs | questions in order; three results complete a run; the concept state counts all |
| Assignments, classrooms, enrolment (`routers/teacher.py`, `student.py`) | status, versions, enrolments, join codes | publish, unpublish, archive, edit, join, remove | check then act against students who are working | a started assignment is not orphaned |
| Analytics, authentication, configuration, prompts, migrations, front end | none, or none the server relies on | | | |

Interaction: request handlers, ingest threads and AI threads meet only in the
database, in object storage and in the two pools. The Coach and the
verification service are called between two transactions of a handler and
touch no table themselves, but for the history a Coach job reads and the index
it searches. The ingest threads take what uploads have queued; the Coach
retrieves what they have indexed.

## 2. Modules

| Module | Models | Read with |
|---|---|---|
| `FilePipeline` | rows, objects, documents, chunks, links; ingest threads, request handlers, processes | `pipeline.py`, `worker.py`, `teacher.py`, `pgvector.py` |
| `FileShelf` | what the pipeline promises about a course's files, abstractly | |
| `MCFilePipeline` | instances for TLC | |
| `FilePipelineProofs` | theorems about `FilePipeline`: types and storage, the refinement of `FileShelf`, the threads, the index | |
| `Chunking` | cleaner and chunker as functions of lines | `cleaner.py`, `structure_chunker.py` |
| `Folding` | what a fold over a sequence computes, element by element, for any operation | |
| `ChunkingProofs` | lemmas about `Chunking`, for any pages and limits | |
| `Formats` (extends `Chunking`) | what each format's validator accepts and its extractor reads | `registry.py`, `validation.py`, `extractors.py`, `legacy_office.py`, `ocr.py` |
| `Retrieval` | one turn's sources, and the teachers meanwhile | `access.py`, `hybrid_retriever.py`, `reranker.py`, `course_retrieval.py`, `routers/ai.py` |
| `Knowledge` (composes `Formats` and `Retrieval`), `MCKnowledge` | one file from upload to stored chunks while turns retrieve | `rag/service.py`, `parser.py`, `nvidia.py`, `pgvector.py` |
| `KnowledgeProofs` | theorems about `Knowledge`: the document on its way, and the turns | |
| `Coursework`, `MCCoursework`, `CourseworkProofs` | one student's attempts, sessions, submissions, and the instructor | `student.py`, `ai.py`, `access.py` |
| `RateLimit` | one user's sliding window | `ratelimit.py` |
| `AIRequests` (extends `RateLimit`), `AIRequestsProofs` | requests through the limiter, the connection pool and the AI pool | `ai_adapter.py`, `db.py`, `routers/ai.py` |
| `Verification`, `MCVerification`, `VerificationProofs` | runs, questions, results, concept state | `verification.py`, `records.py` |
| `Grounding` | which messages are answered from the records, and which answers are grounded in them | `context_questions.py`, `context.py` |
| `Evidence` | the evidence made of a turn | `evidence.py` |
| `CoachTurn` (extends both), `CoachTurnProofs` | the graph of one turn and its guardrails; needs no instance | `graph.py`, `nodes.py`, `routing.py`, `coach_validator.py` |

### FilePipeline

Every transaction, every autocommitted statement of the vector store and every
call of object storage is an action. A thread's `pc` says which comes next:
`Claim`, `Fetch`, `Lookup`, `Upsert`, `Wipe`, `Insert`, `Reconcile`, `Fail` are
`claim_next` and the parts of `process`; with `FailUnwritten` the database
refuses the transaction of the except branch too, so that the row stays
PROCESSING with nobody at work, until a recovery takes it back whatever its
attempts. `Put`, `PutUnanswered` (storage keeps the object, but the call
raises), `InsertRow`, `RollbackObject`,
`Duplicate`, `DeleteRow`, `DeleteDoc`, `DeleteObject`, `RequeueRow`,
`InsertLink` are those of the handlers. `Crash` ends a process with everything
its threads hold; `Start` is `IngestWorker.start`, which requeues what is left
PROCESSING. The triggers and constraints of migration 011 are guards
(`MayBecome`, `SameBytes`, the foreign keys in `Insert` and `InsertLink`).

Abstracted: a document's id is a function of its bytes, so documents are
indexed by content; parsing, chunking and embedding are a number of chunks
(`ChunksOf`) or an error; a fault is permanent, temporary, or a temporary one
that `ingest_document` has wrapped, since `process` treats these differently.
The database does not lose the outcome of a COMMIT. Files that no worker
touches (EXTRACT_ONLY, STORAGE_ONLY) and signed links are left out.

### Knowledge

`FilePipeline` has who writes what and when; `Knowledge` has what is written.
A file is a record of what the code asks about it: extension, whether the
declared type fits, a class of size, what its first bytes are, what is unusual
in it (`flags`), and a body in the shape of its format (pages, paragraphs and
tables, slides, cells, words between the marks of a Word document). The
parsing libraries are these answers; the code on top of them is translated:
the order of the checks in `ValidateUpload`, the extractors, the fallback for
degraded PDFs (kept only if it finds more), the cleaner, the chunker. A line is
its kind and its words, and a word has a number of letters (`Letters`), so that
`Tokens` is `estimate_tokens`: the words, or 5/19 of the characters rounded down
if that is more. It is not additive: the chunker adds the estimates of blocks
(`Total`) and of lines, but the tokens of a chunk are those of the joined text.
A broken word that the cleaner joins counts as its first half; an image engine
that is found is assumed to import.

`Batch` texts go out in one call, and `Replies` are lists of items that name
texts of the call: in any order, too few, too many, one twice. The provider
sorts them by index and takes as many as came (`EmbedBatch`). An item without an
index or with one outside of the batch is left out.

A turn reads its whitelist in one transaction and searches long after. The
order a search finds is any order of the candidates, as similarity is the
data's; the full-text search finds any part of them. Fusion computes the
scores as fractions; equal scores keep their order of arrival, as the stable
sort does. The reranking model names any of the passages it got, one perhaps
twice: `reranker.py` drops an index beyond the last (after its cut) and asks
nothing else, so a passage may come twice; it is shown twice and recorded once
(`ON CONFLICT` in `routers/ai.py`). A negative index, which Python counts from
the end, names a passage like any other. A failed call falls back to a local
order. The file on its way is `Incoming`, one of the documents; it can be found
while its chunks are being inserted.

### Coursework

A request's `pc` is the place between two of its statements or transactions.
`start_attempt` has three tries, each of which looks (`Look`), computes the
number (`Number`) and inserts (`InsertAttempt`), where the two unique indexes
may refuse it. A turn of the Coach reads the attempt, finds or creates the
session, reads the history (`AskCoach` to `ReadHistory`), waits for the reply
with no transaction open, and records under the lock of the attempt's row
(`Persist`). `log` keeps of a turn what it was made from. Steps that a row lock
makes indivisible (`SaveDraft`, `Finalize`) are one action. `Fail` is a
timeout, an error of the database or the death of the process.

Left out: what the Coach says, evidence, risk signals, learning events and
read-only endpoints. One student and one assignment stand for all: nothing the
handlers decide here depends on another student.

### AIRequests

A request passes the limiter, opens a short transaction, submits a job,
waits for it without a connection, and opens a second transaction. The job
calls the model and may take a connection of its own for the history. Each
wait may time out; a job that nobody waits for goes on. `ReadClock` and
`Admit` or `Refuse` are separate because `limiter` reads the clock before it
takes the lock; `MaxDelay` is the longest such delay, which the code does not
bound: the properties state what the limit is worth given a bound. Time passes
only as long as a request has still to be judged.

### Verification

A run has three steps, Explain, Modify and Transfer. The transaction that
records an answer is three actions, because it takes two locks one after the
other and reads, under the second, what others have committed: what it writes
is invisible until `Commit`, and `RunLocked` and `ConceptLocked` say who waits.
Generating and evaluating succeed or fail. All questions are about one concept,
the case in which transactions on different runs meet.

### CoachTurn

One action per node, together with the routing function of the edge that
leaves it. The model's output is any value its schema allows, or a failure. A
text is one of seven classes, one for each answer the guardrails can give:
harmless, empty, with a phrase that reveals the answer, with one only the last
pattern knows, with one forbidden under GUIDED, with the code of one function or
of several. `rule_based_check` is `Flagged`, `final_answer_enforcement` is
`Unsafe`. A message is the topics its phrases ask about, the words beside them,
whether words for doing the work occur, and its size (`Messages` in
`Grounding`); an answer about the assignment is what it has that the assignment
has not, and what it takes from it (`Answers`). A later turn starts with the
diagnosis and the intervention of the one before, which is how these can be
stale. `undecided` is the error that `choose_intervention` notes when its model
fails; the fallback it takes then returns before the rules on uncertain
diagnoses. A final state has no successor, which is why deadlock is not checked.

## 3. Runs

Deadlock is not checked anywhere: the actors' budgets are bounded, and a system
in which nobody asks for anything rests. That nothing waits forever where waits
are modelled is `EveryRequestEnds`.

| Run | Question | Properties |
|---|---|---|
| `files_crash` | uploads only, two threads, two crashes or outcomes that cannot be written, failing attempts, puts and clean-ups | `ReadyIsSearchable`, `OneWorkerPerFile`, `AttemptsBounded`, `SettledByTeacher`, `ImplementsFairShelf` |
| `files_requests` | two handlers upload, retry, delete and link the same bytes while two threads ingest, slowly at times | `TypeOK`, `NoOrphanObject`, `ReferencesResolve`, `ObjectBehindRow`, `ImplementsShelf` |
| `knowledge` | files of every format, sound and defective, become chunks while turns retrieve and teachers publish, link, withdraw and purge | `OnceSeenIsKept`, `ChunksCover`, `ChunkFits`, `AcceptedIsReadable`, `VectorsFollowTexts`, `RetrievalTypeOK`, `SourcesAllowed`, `FusionAgrees`, `OneSearchSuffices`, `RecordedSourcesExist` |
| `coursework` | two tabs, two attempts, all requests, all moves of the instructor | `TypeOK`, `AttemptsInOrder`, `SessionsFollowAttempts`, `WorkKept`, `SubmittedIsFrozen` |
| `ai_requests` | three requests, one connection, one thread | `TypeOK`, `AdmissionsSpaced`, `RefusedWhenBusy`, `EveryRequestEnds`, `PoolsDrain` |
| `verification` | two requests, three runs, two attempts | `TypeOK`, `QuestionsInOrder`, `CompletedByAnswers`, `ConceptStateFresh` |
| `coach_turn` | every policy, kind of task, message, draft, and a first and a later turn | `TypeOK`, `NeverTheAnswer`, `InterventionFits`, `EvidenceFits`, `OnlyFactsSkipReview`, `TurnEnds` |

Five runs show the code disagree with what the repository says of it; the
counterexamples in short:

* `files_twice` (`OneWorkerPerFile`): `retry_material` reads QUEUED, a worker
  claims the file, the handler writes QUEUED, a second worker claims it.
* `files_deleted` (`DeletedEverywhere`): an ingest fails after its document is
  written; the row never learns of the document, and deleting the file leaves
  the document and its chunks in the index.
* `files_temporary` (`TemporaryErrorsAreRetried`): an embedding service that is
  briefly down makes `ingest_document` raise `IngestionError`, and the file is
  FAILED on its first attempt.
* `coursework_unpublish` (`NoStartedDraft`): a start that saw PUBLISHED inserts
  its attempt after the assignment went back to DRAFT.
* `coach_breaks` (`NoTurnBreaksOff`): an answer about the assignment that is
  not grounded in it is routed to a node that the graph has no edge to.

`OneWorkerPerFile` passes in `files_crash` and fails in `files_twice`: the
retry is what breaks it, and theorem `WorkersNeverShare` says so for any size.

### Bounds

`MaxTrouble` bounds crashes, outcomes that are not written, slow claims and
teachers' retries together;
`MaxAttempts` (files) is the setting `ingest_max_attempts`, 2 where a retry
matters. Two files suffice for every conflict over equal bytes, because the
unique index, the shared document and the replaced duplicate are all about a
pair; two chunks are the fewest with a state between them; a content without
chunks is the STORED_ONLY outcome. Two threads and two handlers give every
race between a pair of them. What `files_requests` leaves to one process without
crashes, the theorems cover for any number of both.

In `Coursework`, `MaxAttempts` bounds the attempts and `MaxTurns` the turns
asked for in a session; three sessions let one be lost and another be made.
With two tabs a start is refused once; that three refusals end it is in the
model and in theorem `AttemptsAreInOrder`, for any number of tabs. In
`Verification`, three runs are one more than the attempts, so that an attempt
can get a second run. `CoachTurn` is finite as it stands, and its run is
exhaustive.

In `Knowledge`, the limits of the chunker are 2, 4 and 2 tokens and a word has
up to ten letters, so that an estimate is now the words, now the characters, and
a row of short paragraphs makes a chunk of more tokens than its blocks; a reply
is odd for documents of up to `OddChunks` chunks, which are two batches. Every
Markdown text of up to three lines over ten kinds of line, and of four over five
kinds, then shows every way a buffer can fill, overflow, be flushed by a heading
or split, with lines of one, two and five words. Twelve extensions stand for the
registry's: one for each pair of validator and extractor that differ in
control. There is one file for each format and defect. Three documents are one
listed, one in scope, one both; two chunks each; the searches find two, and the
reranker ranks two, so that lists overflow. `RrfK` is the 60 of the code.
Turns start when the store begins: before, they would see the index as it is
then. In `AIRequests`, one connection and one thread make every wait happen;
three requests are one more than the limit; the window of one unit and the
delay of one can just be told apart by a clock of four values.

### Fairness

`files_crash` assumes weak fairness of each thread's next step, of claiming
while the thread is idle, of a handler's next step, of `Start` (a supervisor
restarts the process) and of `RequeueStale` (the idle loop runs it again and
again). The code justifies each: threads loop with a timed wait and catch every
exception. No teacher has to ask for anything. Since crashes are bounded, an
unbounded crash loop is outside of the claim. `ai_requests` assumes weak
fairness of each handler's and each job's next step: threads are scheduled and
the model's client has a timeout. It assumes no timeout of the application, so
that `EveryRequestEnds` and `PoolsDrain` do not rest on requests being given
up. `TurnEnds` assumes that the graph goes on: each call of the model ends by
an answer or an error. The other runs assume no fairness.

### Abstract specification

`FileShelf` says what a course's files are to a reader: bytes are kept before a
file is put on the shelf and as long as it stands there, no two equal files
stand there, an outcome is only written beside a pending file, a removed file
never returns, and a pending file is eventually settled. `ImplementsShelf` and
`ImplementsFairShelf` map each status to a place on the shelf (`ShelfOf`) and
the objects in storage to what is kept.

## 4. Proofs

Those about files hold for any number of files, contents, scopes, processes,
threads and attempts, any set of requests and mishaps, from the assumptions of
`FilePipeline` alone (`FilesAssumption`, `ThreadsAssumption`,
`BoundsAssumption`: types of the constants, and that a thread is a worker or a
handler).

* `StorageCorrect`, `TypeCorrect`, `ObjectsBehindRows`. `ObjectBehindRow` is
  not inductive: nothing in it says why the object an upload removes has no
  row. `StorageInv` adds that a pending upload has the only claim on its fresh
  id (`UploadsOwnIds`), that its object is there when the row is inserted
  (`ObjectBeforeRow`), that a deletion that cleans up has removed the row
  (`RowBeforeObject`), and the types. The step proof first says how a status,
  an object, an upload and a removal can move, then combines these.
* `PipelineImplementsShelf`: under `StorageInv` every step is a step of
  `FileShelf` or a stutter (`ImplementsShelf`).
* `ReferencesAlwaysResolve`: `ReferencesResolve` is inductive relative to
  `StorageInv`. `NothingLeftBehind` (`NoOrphanObject`) holds if no process dies,
  no clean-up fails and no put raises after it stored its object (`TidyUp`),
  which is all the code can do about it: every object has a row or a handler
  that will remove it.
* `WorkersNeverShare`, `SettledStaysSettled`: with one process, no slow thread
  and no teacher's retry (`Undisturbed`), `ClaimInv` says in addition that the
  row of a thread at work is PROCESSING or gone, and that only a running
  process has threads; from this a recovery never requeues a file in work.
  `Undisturbed` is a condition, not an assumption on the constants:
  `files_twice` shows that it is needed. `AttemptsAreBounded`, under the same
  condition: `AttemptsInv` says that a row left PROCESSING without a thread was
  left by a crash or by an outcome the database refused, so that the count of a
  file exceeds the setting by no more than there were of these.
* `ReadyMeansSearchable` (`ReadyIsSearchable`) under the condition `Unshared`:
  `Undisturbed`, and nobody deletes a file whose bytes another file has. The
  second part is needed: a document is known by its bytes, and a deletion that
  was begun for one file takes the document of another that was uploaded and
  indexed in the meantime (TLC finds this when the run `files_requests` is given
  the property). Retries of failed attempts, crashes, failing clean-ups and the
  replacement of a failed duplicate by another scope's upload remain. `IndexInv`
  adds to the claims that the unique index keeps equal bytes to one row
  (`OneRowPerBytes`), that only a teacher takes away what is worked on
  (`LeftAlone`), that a stored document belongs to a file whose ingest is done
  (`DocumentsFinished`), so that an ingest that begins again finds none it could
  mistake for its own, and which chunks a thread has come past (`ChunksWritten`).

Those about `Coursework` hold for any number of requests in flight, sessions,
files, attempts and turns and any set of things asked, from
`CourseworkAssumption` (types of the constants, and that "no file", "no text"
and "no session" are not files, texts or sessions).

* `CourseworkInvariant` is the inductive invariant. `AttemptsInOrder` alone is
  not: that the next attempt is opened after a submitted one follows from the
  index on open attempts only together with what the inserting request read
  before (`NumbersFollow`: all numbers below its own are in use, and attempts
  never go away). For the sessions, `TurnsBelong` says that a request that waits
  for a reply holds a session of the attempt it asked about, and `NoTurnsBefore`
  that a session not yet created has no turns. For the files, `FilesOwned` says
  that what a request is submitting is in no submission and with no other
  request, so that removing it after a failure removes nothing else's.
* `AttemptsAreInOrder`, `SessionsAreOfTheirAttempt`, `WorkIsKept` and
  `CourseworkTypes` follow. `SubmittedStays` is the action property
  `SubmittedIsFrozen`: the step lemmas say who writes a draft, a file and a
  transcript (`DraftMoves`, `WorkMoves`, `LogMoves`), and each of them requires
  the attempt to be open.

Those about `AIRequests` hold for any requests, limit, window, delay and pools
(`LimitAssumption`, `PoolAssumption`).

* `AdmissionsAreSpaced`, `RefusalsAreJust`. The deque is related to the history
  of admissions by `LimitInv`: it is the last part of it (`DequeIsSuffix`), no
  admission is later than `MaxDelay` after its stamp (`DelayBounded`), and what
  was popped is old (`DroppedAreOld`). Of `Limit + 1` admissions in a row the
  first must have been popped before the last was let in.
* `RequestTypes` (`TypeOK`).

Those about `Verification` hold for any requests, attempts and finite set of
runs: `VerificationTypes`, `OneQuestionAtATime`, `ThreeAnswersComplete`,
`NoResultForgotten`. The invariant `IInv` adds what a request may rely on
between its steps (`Justified`: the question it answers was asked and, once the
run is locked, has no answer; the number of results it counted is still right)
and that two recording requests hold different runs and only one the concept
(`Apart`). `NoResultForgotten` needs both: the count is still right at `Commit`
because nobody else can commit while the concept is locked.

Those about `CoachTurn` hold whatever the message, the draft, the diagnosis the
turn starts with and the answers of the models are: `TurnTypes`,
`AnswerIsNeverGiven`, `InterventionAlwaysFits`, `EvidenceAlwaysFits`,
`OnlyFactsGoUnreviewed`, all from
`TurnCorrect`, the inductive invariant `TurnInv`. Each of its parts says what the
nodes a turn has come past have established: which messages come to which nodes
(`OnItsWay`), that a response is checked by the rules when it is emitted and by
the last check afterwards (`ResponseChecked`), that the diagnosis is this turn's
once an intervention is chosen and that the choice fits it (`Judged`), that an
answer is kept only when it was found grounded (`Grounded`). The properties speak
of the end of a turn only, so none is inductive alone. The model is finite and
its run exhaustive; the proof says why the properties hold.

Those about the turns of `Knowledge` hold for any documents, scopes, limits and
files (`RetrievalAssumption`, in which `DenseK <= RrfK` and `FtsK <= RrfK`, and
`KnowledgeAssumption`): `RetrievalTypes`, `SourcesAreAllowed`,
`FusionAlwaysAgrees`, `OneSearchIsEnough`, `ProvenanceHolds`. `Scoped` says that
a whitelist is the one that was read and all lists of the turn come from it;
`Flow` says which searches were tried in which phase and what their lists hold.
`FusionAlwaysAgrees` is arithmetic: `1/(K+i) + 1/(K+j) > 1/(K+k)` for all ranks
up to `K`, which is why the assumption on the limits is there.

Those about the document of `Knowledge` hold for any files, pages, limits of the
chunker and sizes of batches (`ChunkingAssumption`: the limits are naturals;
`KnowledgeAssumption`: among others that a reader returns a list of pages, and
these lists of lines, `ReadsPages`, which is the type `DocumentParser` declares).

* `AcceptedStaysReadable` (`AcceptedIsReadable`): `Admitted` says that a file
  under way has passed `ValidateUpload` and has its engine, and `AcceptedReads`
  compares the two lists of checks: each of the three reasons to refuse a file
  when it is read is one for which the validator of that format has asked.
* `ChunksAlwaysCover`, `ChunksAlwaysFit`, `OnceSeenStays`, `VectorsAlwaysFollow`.
  `Indexed` says what each phase has of pages, chunks and vectors. What the
  functions compute is the work of `ChunkingProofs`.
  * The folds. `FoldLeft` is a choice of a function over all sets of positions.
    `Folding` shows, for any operation `Op`, that it exists and that a sequence
    with one element more takes one more step (`FoldAppend`); `ChunkingProofs`
    instantiates it for each of its folds. An induction over sequences then
    needs no schema: `SeqInduction` says that a set which holds the empty
    sequence, and with a sequence every longer one, holds all; the set is the one
    of which the statement is true.
  * Chunking (`BlocksWhole`, `ChunksInOrder`). The lines of the blocks are those of
    the pages but for blank ones, in their order (`Keeps`, kept by `LineAdded`
    and `PageAdded`). The invariant of the loop over blocks (`GatheredHolds`)
    says of the chunks made and the buffer together that they hold every line
    gathered so far, that a line comes first no earlier than one before it
    (`InOrder`, which the overlap does not disturb, as it only repeats what was
    the buffer), and that a block which fits is whole in one of them.
  * Sizes (`ChunksSized`). Estimates do not add up, so the limit of a chunk is an
    invariant of its own: every block has a word (`Solid`), so that of blocks
    whose estimates make `Total`, five times the characters, with the blank lines
    between them, are at most `47 * Total` (`JoinedSize`); the buffer has at most
    the maximum and the overlap (`BufferSized`). The parts of a block that is cut
    are counted line by line (`SplitSized`).
  * Cleaning (`CleaningKeeps`). A line that occurs once has one vote at most at
    either edge, and `MinOccurrences` is two at least (`OnceDoesNotRecur`), so it
    is not dropped; joining a broken word keeps all words but the first of the
    second line (`LineJoined`); tidying drops blank lines only.
  * Vectors. `VectorsOf` says that those that have come are of texts sent so far,
    in the order of the texts; the items of the next reply are of later ones
    (`VectorsGrow`). If there are as many as texts and none twice, an increasing
    list of that length has no other choice (`VectorsComplete`).

Only model-checked: liveness (`ImplementsFairShelf`, `TurnEnds`,
`EveryRequestEnds`, `PoolsDrain`), which is outside of what TLAPS proves here.
`ReadyIsSearchable` with several processes or slow threads, which `Unshared`
excludes, is neither proved nor run. The extractors of `Formats` are used in the
proofs only through `ReadsPages`; the run evaluates them.

## 5. Plan

Done, in this order: the file pipeline with its proofs, coursework with its
proofs, verification, the Coach's turn; then the limiter and the AI pool with
their proofs, the way from file to chunks and to sources with the proofs about
turns, grounding and evidence in the Coach's turn, the proofs about verification, the
Coach's turn, the document on its way to the index and what is READY. Every
invariant and action property of the passing runs is stated by a theorem. Next,
most important first:

1. `Classroom`: joining with rotating codes, removal and restoring, versions of
   an assignment, and the order in which links lock concepts (a deadlock the
   database resolves by failing one request).
2. Attachments and prompts of assignments: files that are read in the request.
3. A liveness property of `Verification`: a run whose question failed to be
   generated gets it when the student asks again, unless a later attempt was
   submitted meanwhile (`start_verification` resumes the latest only).
4. The overall outcome of a verification and the mastery of a concept as
   functions of the scores.

## 6. Divergences noticed

Besides the five that runs show. These are read from the code; where a module
covers the place it behaves as the code does.

* `teacher.py:282` locks concepts in the order of the request; the handler of an
  upload (`teacher.py:207`) takes a failing COMMIT for a rollback and removes
  the object.
* `pipeline.py:60`: a put that raises after the object was stored leaves it
  behind, as the caller has no key yet. `pipeline.py:130-136`: if the database
  refuses the except branch's own transaction, the row stays PROCESSING, and
  `requeue_stale` (`:113-116`) tries it again whatever its attempts, beyond
  `ingest_max_attempts`.
* `nodes.py:47-49` says that on an uncertain diagnosis every intervention but a
  clarification or a question is forced to a clarification. The fallback after a
  failed call (`nodes.py:409-429`) returns before that rule, so uncertain
  correct reasoning is encouraged. `InterventionFits` states the rule with this
  exception.
* `records.py:47` speaks of COMPLETED verification results; the query counts
  those of runs IN_PROGRESS too.
* `structure_chunker.py:6` ("500-900 tokens with 80-120 token overlap"): sums of
  truncated estimates without the blank lines let a chunk reach 47/19 of that
  (128 paragraphs of 30 characters count 896, and make a chunk of 1077 tokens);
  a single line may have any length. `ChunkFits` states the limit that is kept.
* `service.py:256-268`: the same content in two classrooms shares one document,
  whose chunks carry the first classroom; one that outlived its file is reused
  as it is.
* `routers/ai.py:40`: two turns asked for at once are both made with the history
  before either. `verification.py:84`: a start that stood still while another
  request's run was completed makes a second run of the attempt.
* `evidence.py:139`: any later turn is evidence of a revision, a STRONG one even
  for an uncertain diagnosis of correct reasoning; the first turn of a new
  session may claim independence again, with MODERATE strength on WEAK
  understanding.
* `evidence.py:186` compares the previous message with the current draft and
  message, so an unchanged long draft counts as a jump (risk signals are not
  modelled).
* `nodes.py:66,382` looks at draft and message together, so a long draft turns
  off the forced retrieval for a question about materials. A question about a
  name and the assignment is answered with the name only (`routing.py`), and
  `compose_context_answer` has no caller.
* `coach_validator.py:382`: a rejection by the reviewer that lists no violation
  passes.
* `cleaner.py:42` strips the indentation its docstring promises to keep, drops
  rows of tables that recur at the edges of pages, and joins hyphens in code.
  A `$$...$$` on one line opens a block for the chunker; a fence of four
  backticks is closed by three (`structure_chunker.py:182`); a chunk that starts
  with overlap carries the earlier page.
* `textutil.py:69` repeats a table's header per block of rows, but a block above
  the maximum is split again without. `parser.py` copies the whole text to each
  page beyond the fallback's page breaks.
* `legacy_office.py:92`: a field without separator drops the text after it.
* `nvidia.py:79-81` takes a reply that is short, skips an index or repeats one
  for a success, and `service.py:223` zips what came: chunks get the vectors of
  others, and the last ones none (the store writes NULL, and only the full-text
  search finds them). A vector for every chunk is therefore no property here;
  `VectorsFollowTexts` says what is left of it.
* `reranker.py:156-163`: an invalid index is dropped after the cut, and a
  repeated one kept: the passage is cited twice.
* `access.py:155`: linked documents enter the whitelist without a look at the
  status of their file. `service.py:249`: an accepted file of fewer than 10
  bytes fails in the worker.

## 7. Not modelled

Analytics (read-only), authentication (checks against an external service),
configuration, health and views, prompts and offline evaluation, row-level
security and migration scripts, and the front end. The bytes of files and the
libraries that parse them; similarity of texts, which only orders what a search
finds; the risk signals, which compare lengths and times of texts and are only
stored. Learning events, which the handlers append and nothing modelled reads,
are left out throughout. Of classrooms, joining and codes; of assignments,
their editing: single statements on rows nothing else modelled writes.
