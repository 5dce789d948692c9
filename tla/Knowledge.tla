------------------------------ MODULE Knowledge ------------------------------
(***************************************************************************)
(* One uploaded file on its way into what the Coach knows: validation,     *)
(* parsing with its fallback, cleaning, chunking, embedding in batches     *)
(* with retries and storing chunk by chunk (ai/rag/service.py              *)
(* ingest_document, ai/rag/embeddings/nvidia.py,                           *)
(* ai/rag/storage/pgvector.py), while Coach turns retrieve (Retrieval).    *)
(***************************************************************************)
EXTENDS Formats, Retrieval

CONSTANTS Files,      \* the uploads: a file and its purpose
          Incoming,   \* the document the upload becomes
          ThinPage,   \* characters per page under which a parse counts as degraded (100)
          BatchSize,  \* texts of one embedding call (48)
          OddChunks,  \* bound: chunks of a document for which a reply may be odd
          MaxRetries  \* repetitions of a failed embedding call (2)

\* what the readers return are lists of pages, and these lists of lines
ReadsPages(f) == /\ Extract(f).pages \in Seq(PageSet)
                 /\ Registry[f.ext].reader = "pdf" => f.body \in Seq(PageSet)
                 /\ f.scan.parts \in Seq(Seq(Lines)) /\ f.scan.total \in Nat

ASSUME KnowledgeAssumption ==
  /\ Incoming \in Docs /\ BatchSize \in Nat \ {0} /\ {OddChunks, MaxRetries} \subseteq Nat
  /\ \A u \in Files : u.file.ext \in DOMAIN Registry => ReadsPages(u.file)

VARIABLE doc
knowledgeVars == <<doc, rows, ready, linked, recorded, turn>>

Nothing == [phase |-> "", mode |-> "", error |-> "ok", upload |-> <<>>, pages |-> <<>>, cleaned |-> <<>>,
            chunks |-> <<>>, vectors |-> <<>>, sent |-> 0, tries |-> 0, left |-> 0]
\* the end of a file: its text is forgotten
Ended(phase, error) == [Nothing EXCEPT !.phase = phase, !.error = error]

Init == RetrievalInit /\ \E u \in Files : doc = [Nothing EXCEPT !.phase = "offered", !.upload = u]

file == doc.upload.file
purpose == doc.upload.purpose

-----------------------------------------------------------------------------
(* The request *)

Validate ==
  /\ doc.phase = "offered"
  /\ LET verdict == ValidateUpload(file)
     IN  doc' = IF verdict # "ok" THEN Ended("rejected", verdict)
                ELSE IF ModeFor(file, purpose) = "STORAGE_ONLY" THEN Ended("stored_only", "ok")
                ELSE [doc EXCEPT !.phase = "accepted", !.mode = ModeFor(file, purpose)]
  /\ UNCHANGED retrievalVars

\* prompts and submissions are read in the request and never indexed
ExtractNow ==
  /\ doc.phase = "accepted" /\ doc.mode = "EXTRACT_ONLY"
  /\ LET ex == Extract(file)
     IN  doc' = IF ex.error # "ok" THEN Ended("failed", ex.error)
                ELSE Ended(IF ex.pages = <<>> THEN "stored_only" ELSE "extracted", "ok")
  /\ UNCHANGED retrievalVars

-----------------------------------------------------------------------------
(* The worker: parse, clean, chunk *)

\* a page beyond the page breaks of the fallback gets the whole text
FallbackPages(scan) ==
  LET whole == FlattenSeq(scan.parts)
  IN  IF scan.total = 0 THEN <<Page(1, whole)>>
      ELSE [p \in 1..scan.total |-> Page(p, IF p <= Len(scan.parts) THEN scan.parts[p] ELSE whole)]

Degraded(pages) == pages # <<>> /\ Characters(AllLines(pages)) < ThinPage * Len(pages)

\* the fallback reads PDFs only, may fail, and is kept only if it finds more
Parses(primary) ==
  {primary} \cup
  {pages \in {FallbackPages(file.scan)} :
     Registry[file.ext].reader = "pdf" /\ Degraded(primary)
     /\ Characters(FlattenSeq(file.scan.parts)) > Characters(AllLines(primary))}

Parse ==
  /\ doc.phase = "accepted" /\ doc.mode = "RAG"
  /\ LET ex == IF Registry[file.ext].reader = "pdf"
               THEN [error |-> ReadError(file), pages |-> file.body] ELSE Extract(file)
         Empty(pages) == Words(AllLines(pages)) = 0
     IN  IF file.size = "tiny" THEN doc' = Ended("failed", "too_short")   \* fewer than 10 bytes: not even read
         ELSE IF ex.error # "ok" THEN doc' = Ended("failed", ex.error)
         ELSE \E pages \in Parses(ex.pages) :
                doc' = IF Empty(pages) THEN Ended("failed", "no_text")
                       ELSE [doc EXCEPT !.phase = "parsed", !.pages = pages]
  /\ UNCHANGED retrievalVars

Clean ==
  /\ doc.phase = "parsed"
  /\ doc' = [doc EXCEPT !.phase = "cleaned", !.cleaned = Cleaned(doc.pages)]
  /\ UNCHANGED retrievalVars

ChunkDocument ==
  /\ doc.phase = "cleaned"
  /\ doc' = IF Chunks(doc.cleaned) = <<>> THEN Ended("failed", "no_chunks")
            ELSE [doc EXCEPT !.phase = "chunked", !.pages = <<>>, !.chunks = Chunks(doc.cleaned)]
  /\ UNCHANGED retrievalVars

-----------------------------------------------------------------------------
(* Embedding: one call per batch, repeated when it fails.  The vector of a text is its position in the document *)

\* how many texts the next call sends
Batch == LET rest == Len(doc.chunks) - doc.sent IN IF BatchSize < rest THEN BatchSize ELSE rest

\* the items of a reply name texts of the call, in any order; whether each is named, and once, is not asked
\* bounds: at most an item more than texts; in a document of more than OddChunks each is named once
Replies == {reply \in UpTo(1..Batch, Batch + 1) : Len(doc.chunks) > OddChunks => Elements(reply) = 1..Batch /\ Len(reply) = Batch}

\* mutant: the items are taken as they come
AsTheyCome(reply, at) == \A i \in DOMAIN at : at[i] = i

\* at puts the items in the order of the texts they name
InIndexOrder(reply, at) == \A i, k \in DOMAIN at : i < k => reply[at[i]] <= reply[at[k]]

EmbedBatch ==
  /\ doc.phase = "chunked"
  /\ \E reply \in Replies : \E at \in Bijection(DOMAIN reply, DOMAIN reply) :
       /\ InIndexOrder(reply, at)
       /\ doc' = [doc EXCEPT !.vectors = @ \o [i \in DOMAIN reply |-> doc.sent + reply[at[i]]],
                             !.sent = @ + Batch, !.tries = 0, !.cleaned = <<>>,
                             !.phase = IF doc.sent + Batch = Len(doc.chunks) THEN "embedded" ELSE @]
  /\ UNCHANGED retrievalVars

EmbedFails ==
  /\ doc.phase = "chunked"
  /\ doc' = IF doc.tries < MaxRetries THEN [doc EXCEPT !.tries = @ + 1, !.cleaned = <<>>]
            ELSE Ended("failed", "embedding")
  /\ UNCHANGED retrievalVars

\* vectors of another size are an error of the configuration: no repetition
EmbedWrongSize ==
  /\ doc.phase = "chunked"
  /\ doc' = Ended("failed", "dimension")
  /\ UNCHANGED retrievalVars

-----------------------------------------------------------------------------
(* Storing: every statement commits by itself, so turns see a document grow *)

\* the document is written and its former chunks are deleted
BeginStore ==
  /\ doc.phase = "embedded"
  /\ doc' = [Ended("storing", "ok") EXCEPT !.left = IF Len(doc.chunks) < MaxChunks THEN Len(doc.chunks) ELSE MaxChunks]
  /\ rows' = {c \in rows : c[1] # Incoming}
  /\ recorded' = {c \in recorded : c[1] # Incoming}
  /\ UNCHANGED <<ready, linked, turn>>

StoreChunk ==
  /\ doc.phase = "storing" /\ doc.left \in 1..MaxChunks   \* bound: chunks of a document
  /\ rows' = rows \cup {<<Incoming, doc.left>>}
  /\ doc' = IF doc.left = 1 THEN Ended("stored", "ok") ELSE [doc EXCEPT !.left = @ - 1]
  /\ UNCHANGED <<ready, linked, recorded, turn>>

StoreFails ==
  /\ doc.phase = "storing"
  /\ doc' = Ended("failed", "store")
  /\ UNCHANGED retrievalVars

-----------------------------------------------------------------------------
\* bound: turns begin with the store; before, they would see what they see when it begins
Settled == doc.phase \in {"storing", "stored"} \/ doc.error = "store"

Turns == Settled /\ TurnStep /\ UNCHANGED doc
\* the incoming document is published when its store is complete
Teachers ==
  /\ Settled
  /\ \/ \E d \in Docs : Publish(d) /\ (d = Incoming => doc.phase = "stored")
     \/ \E d \in Docs : Withdraw(d) \/ PurgeDocument(d)
     \/ \E docs \in SUBSET Docs : SetLinks(docs)
  /\ UNCHANGED doc

Ingest == \/ Validate \/ ExtractNow \/ Parse \/ Clean \/ ChunkDocument
          \/ EmbedBatch \/ EmbedFails \/ EmbedWrongSize \/ BeginStore \/ StoreChunk \/ StoreFails
Next == Ingest \/ Turns \/ Teachers
Spec == Init /\ [][Next]_knowledgeVars

-----------------------------------------------------------------------------
(* Properties *)

Times(l, lines) == Cardinality({i \in DOMAIN lines : lines[i] = l})
Once(lines) == {l \in ToSet(lines) : ~ IsBlank(l) /\ Times(l, lines) = 1}

\* Cleaning drops page numbers and lines that recur, and nothing else: a line that occurs once in the document is
\* still there; if it takes part in a broken word, its other words are (cleaner.py:26 "without destroying structure").
WordsOf(lines) == UNION {ToSet(lines[i].text) : i \in DOMAIN lines}
OnceSeenIsKept ==
  doc.phase = "cleaned" =>
    LET before == AllLines(doc.pages)
        after == AllLines(doc.cleaned)
        Broken(l) == l.wrap \/ \E i, k \in DOMAIN before : k < i /\ before[k].wrap /\ before[i] = l
    IN  \A l \in Once(before) : \/ l.kind = "number" \/ l \in ToSet(after)
                                \/ Broken(l) /\ ToSet(Tail(l.text)) \subseteq WordsOf(after)

\* Chunking loses nothing and keeps the order: every line of the cleaned document that occurs once is in a chunk, and
\* a line never comes first in an earlier chunk than one that stands before it (structure_chunker.py:59).
FirstChunk(l) == CHOOSE c \in DOMAIN doc.chunks :
                   /\ l \in ToSet(doc.chunks[c].lines)
                   /\ \A b \in 1..c - 1 : l \notin ToSet(doc.chunks[b].lines)
ChunksCover ==
  doc.phase = "chunked" /\ doc.cleaned # <<>> =>
    LET lines == AllLines(doc.cleaned)
    IN  /\ \A l \in Once(lines) : \E c \in DOMAIN doc.chunks : l \in ToSet(doc.chunks[c].lines)
        /\ \A i, j \in DOMAIN lines : i < j /\ {lines[i], lines[j]} \subseteq Once(lines)
             => FirstChunk(lines[i]) <= FirstChunk(lines[j])

\* A chunk fits: unless it is a single line, the rounding of its blocks and the blank lines between them take it to
\* 47/19 of the maximum and the overlap at most (structure_chunker.py:26, :110, :310); and a block that fits is whole
\* in one chunk, so no code or table is cut without need (structure_chunker.py:4 "avoids naive splitting").
ChunkFits ==
  doc.phase = "chunked" /\ doc.cleaned # <<>> =>
    LET chunks == doc.chunks
        blocks == Blocks(doc.cleaned)
    IN  /\ \A c \in DOMAIN chunks : \/ Len(chunks[c].lines) = 1
                                    \/ 19 * chunks[c].tokens <= 47 * (MaxTokens + OverlapTokens)
        /\ \A b \in DOMAIN blocks : Tokens(blocks[b].lines) <= MaxTokens =>
             \E c \in DOMAIN chunks : Inside(blocks[b].lines, chunks[c].lines)

\* What validation lets through is not refused later for what it is: no accepted file turns out to be locked, binary
\* or beyond the installed engines when it is read (errors.py:1 "must never learn ... only after processing").
AcceptedIsReadable ==
  doc.phase = "failed" => doc.error \notin {"encrypted", "not_text", "unavailable"}

\* Whatever the order of a reply, however often a call is repeated and whatever a reply leaves out, the vectors stand
\* in the order of their texts, over all calls; so if as many came as there are chunks, and none twice, each chunk gets
\* the vector of its own text (nvidia.py:79, service.py:223).
VectorsFollowTexts ==
  doc.phase = "embedded" =>
    LET vectors == doc.vectors
        Complete == Len(vectors) = Len(doc.chunks) /\ \A i, k \in DOMAIN vectors : vectors[i] = vectors[k] => i = k
    IN  /\ \A i, k \in DOMAIN vectors : i < k => vectors[i] <= vectors[k]
        /\ Complete => \A i \in DOMAIN doc.chunks : vectors[i] = i
=============================================================================
