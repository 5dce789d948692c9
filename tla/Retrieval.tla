------------------------------ MODULE Retrieval ------------------------------
(***************************************************************************)
(* The sources of one Coach turn: the whitelist the request reads          *)
(* (backend/app/access.py), the query understanding, the two searches of   *)
(* the vector store, their fusion and the reranker (ai/rag), the filter of *)
(* the tool (ai/tools/course_retrieval.py), and the provenance that is     *)
(* recorded with the turn (backend/app/routers/ai.py).  Meanwhile teachers *)
(* publish, link, withdraw and purge documents.                            *)
(***************************************************************************)
EXTENDS Integers, Sequences, FiniteSets

CONSTANTS Docs,        \* documents of the vector store
          Listed,      \* those that are materials of the classroom or attachments of the assignment
          InScope,     \* those whose chunks carry the university, course, classroom and assignment of the turn
          NoDocument,  \* the sentinel id that stands for an empty whitelist
          MaxChunks,   \* bound: chunks of a document
          InitialRows, \* the chunks stored at first
          DenseK, FtsK, TopK, RrfK,
          PassageLimit \* passages sent to the reranking model (20)

ASSUME RetrievalAssumption ==
  /\ Listed \subseteq Docs /\ InScope \subseteq Docs /\ NoDocument \notin Docs
  /\ InitialRows \subseteq Docs \X (1..MaxChunks)
  /\ {MaxChunks, DenseK, FtsK, RrfK, PassageLimit} \subseteq Nat /\ TopK \in Nat \ {0}
  /\ DenseK <= RrfK /\ FtsK <= RrfK   \* 20 and 60 by default: agreement outweighs rank

VARIABLES rows,      \* the chunks that are stored
          ready,     \* documents of a file that is READY
          linked,    \* documents linked to the assignment
          recorded,  \* the chunks recorded as sources of earlier turns
          turn       \* the turn under way
retrievalVars == <<rows, ready, linked, recorded, turn>>

ChunkIds == Docs \X (1..MaxChunks)
\* a pleasantry without an attempt, a message mostly in Arabic, any other
Messages == {"thanks", "arabic", "english"}
Phases == {"idle", "asked", "dense", "fts", "fuse", "rerank", "filter", "answered"}

Elements(s) == {s[i] : i \in DOMAIN s}
\* the sequences of at most k distinct members of S
Rankings(S, k) == UNION {{s \in [1..n -> S] : \A i, j \in 1..n : s[i] = s[j] => i = j} : n \in 0..k}
\* the sequences of at most k members of S
UpTo(S, k) == UNION {[1..n -> S] : n \in 0..k}
Full(S, k) == IF Cardinality(S) < k THEN Cardinality(S) ELSE k

Idle == [phase |-> "idle", message |-> "thanks", whitelist |-> {}, allowed |-> {},
         tried |-> {}, dense |-> <<>>, fts |-> <<>>, fused |-> <<>>, results |-> <<>>, ranker |-> "none"]

RetrievalInit == /\ rows = InitialRows
                 /\ ready = {d \in Docs : \E c \in rows : c[1] = d}
                 /\ linked = {} /\ recorded = {} /\ turn = Idle

-----------------------------------------------------------------------------
(* What a turn may see *)

AllowedDocuments == (ready \cap Listed) \cup linked

\* mutant: the whitelist is passed as it is
WhitelistAsIs(docs) == docs

\* inside the AI an empty whitelist means no restriction: the adapter passes a sentinel instead
Whitelist(docs) == IF docs = {} THEN {NoDocument} ELSE docs

MatchesScope(c, allowed) == c[1] \in InScope /\ (allowed = {} \/ c[1] \in allowed)
Candidates == {c \in rows : MatchesScope(c, turn.allowed)}

NeedsRetrieval(t) == t.message # "thanks"

ReadWhitelist(message) ==
  /\ turn.phase = "idle"
  /\ turn' = [Idle EXCEPT !.phase = "asked", !.message = message,
                          !.whitelist = AllowedDocuments, !.allowed = Whitelist(AllowedDocuments)]
  /\ UNCHANGED <<rows, ready, linked, recorded>>

Understand ==
  /\ turn.phase = "asked"
  /\ turn' = [turn EXCEPT !.phase = IF NeedsRetrieval(turn) THEN "dense" ELSE "answered"]
  /\ UNCHANGED <<rows, ready, linked, recorded>>

-----------------------------------------------------------------------------
(* The two searches: the order they find is the data's; a failure is an empty result *)

\* chunks without a vector are not found
SearchDense ==
  /\ turn.phase = "dense"
  /\ \E found \in Rankings(Candidates, DenseK) :
       turn' = [turn EXCEPT !.phase = "fts", !.dense = found, !.tried = @ \cup {"dense"}]
  /\ UNCHANGED <<rows, ready, linked, recorded>>

\* mutant: the failure of one search ends the retrieval
DenseFailureEndsAll ==
  /\ turn.phase = "dense"
  /\ turn' = [turn EXCEPT !.phase = "answered", !.tried = @ \cup {"dense"}]
  /\ UNCHANGED <<rows, ready, linked, recorded>>

DenseFails ==
  /\ turn.phase = "dense"
  /\ turn' = [turn EXCEPT !.phase = "fts", !.tried = @ \cup {"dense"}]
  /\ UNCHANGED <<rows, ready, linked, recorded>>

\* the full-text search finds the candidates that hold the words, also none; it is skipped for Arabic
SearchFts ==
  /\ turn.phase = "fts" /\ turn.message # "arabic"
  /\ \E found \in Rankings(Candidates, FtsK) :
       turn' = [turn EXCEPT !.phase = "fuse", !.fts = found, !.tried = @ \cup {"fts"}]
  /\ UNCHANGED <<rows, ready, linked, recorded>>

SkipFts ==
  /\ turn.phase = "fts" /\ turn.message = "arabic"
  /\ turn' = [turn EXCEPT !.phase = "fuse"]
  /\ UNCHANGED <<rows, ready, linked, recorded>>

-----------------------------------------------------------------------------
(* Reciprocal rank fusion: 1 / (RrfK + rank), summed over the searches that found the chunk *)

Rank(s, c) == CHOOSE k \in DOMAIN s : s[k] = c

\* mutant: the second search overwrites the score of the first
ScoreReplaced(c, dense, fts) ==
  IF c \in Elements(fts) THEN [num |-> 1, den |-> RrfK + Rank(fts, c)]
  ELSE [num |-> 1, den |-> RrfK + Rank(dense, c)]

\* a score is a fraction
Score(c, dense, fts) ==
  LET i == RrfK + Rank(dense, c)
      j == RrfK + Rank(fts, c)
  IN  IF c \notin Elements(fts) THEN [num |-> 1, den |-> i]
      ELSE IF c \notin Elements(dense) THEN [num |-> 1, den |-> j]
      ELSE [num |-> i + j, den |-> i * j]

Above(x, y) == x.num * y.den > y.num * x.den

\* equal scores keep the order of arrival: the dense results, then the others
Arrival(c, dense, fts) == IF c \in Elements(dense) THEN Rank(dense, c) ELSE Len(dense) + Rank(fts, c)

Precedes(c, d, dense, fts) ==
  LET x == Score(c, dense, fts)
      y == Score(d, dense, fts)
  IN  Above(x, y) \/ (~ Above(y, x) /\ Arrival(c, dense, fts) < Arrival(d, dense, fts))

Found == Elements(turn.dense) \cup Elements(turn.fts)

Fuse ==
  /\ turn.phase = "fuse" /\ Found # {}
  /\ \E order \in [1..Cardinality(Found) -> Found] :
       /\ Elements(order) = Found
       /\ \A i, j \in DOMAIN order : i < j => Precedes(order[i], order[j], turn.dense, turn.fts)
       /\ turn' = [turn EXCEPT !.phase = "rerank", !.fused = order]
  /\ UNCHANGED <<rows, ready, linked, recorded>>

NothingFound ==
  /\ turn.phase = "fuse" /\ Found = {}
  /\ turn' = [turn EXCEPT !.phase = "answered"]
  /\ UNCHANGED <<rows, ready, linked, recorded>>

-----------------------------------------------------------------------------
(* Reranking, filtering, recording *)

\* the lists of the retriever are its own: only the results leave it
Ranked(order, ranker) ==
  [phase |-> "filter", message |-> turn.message, whitelist |-> turn.whitelist, allowed |-> turn.allowed,
   tried |-> turn.tried, dense |-> <<>>, fts |-> <<>>, fused |-> <<>>, results |-> order, ranker |-> ranker]

\* the model names some of the first passages, one perhaps twice: nothing is asked of its indices but that they are
\* not beyond the last, and one that is gets dropped after the cut at TopK
Rerank ==
  /\ turn.phase = "rerank"
  /\ \E order \in UpTo({turn.fused[i] : i \in {k \in DOMAIN turn.fused : k <= PassageLimit}}, TopK) :
       turn' = Ranked(order, "model")
  /\ UNCHANGED <<rows, ready, linked, recorded>>

\* mutant: the local reranker returns all that it ordered
FallbackUncut ==
  /\ turn.phase = "rerank"
  /\ turn' = Ranked(turn.fused, "local")
  /\ UNCHANGED <<rows, ready, linked, recorded>>

\* the call fails: the local reranker orders all of them by its own scores
RerankFallback ==
  /\ turn.phase = "rerank"
  /\ \E order \in Rankings(Elements(turn.fused), TopK) :
       /\ Len(order) = Full(Elements(turn.fused), TopK)
       /\ turn' = Ranked(order, "local")
  /\ UNCHANGED <<rows, ready, linked, recorded>>

\* the tool checks the scope of every result again, in the order of the results
FilterResults ==
  /\ turn.phase = "filter"
  /\ LET allowed == {i \in DOMAIN turn.results : MatchesScope(turn.results[i], turn.allowed)}
     IN  \E at \in Rankings(allowed, TopK) :
           /\ Elements(at) = allowed
           /\ \A i, j \in DOMAIN at : i < j => at[i] < at[j]
           /\ turn' = [turn EXCEPT !.phase = "answered", !.results = [i \in DOMAIN at |-> turn.results[at[i]]]]
  /\ UNCHANGED <<rows, ready, linked, recorded>>

\* mutant: the sources are recorded without asking whether their chunks are still stored
RecordUnasked ==
  /\ turn.phase = "answered"
  /\ recorded' = recorded \cup Elements(turn.results)
  /\ turn' = Idle
  /\ UNCHANGED <<rows, ready, linked>>

\* the sources recorded are those that are still rows
RecordSources ==
  /\ turn.phase = "answered"
  /\ recorded' = recorded \cup (Elements(turn.results) \cap rows)
  /\ turn' = Idle
  /\ UNCHANGED <<rows, ready, linked>>

\* the request fails, or its attempt was submitted meanwhile: nothing is recorded
Abandon ==
  /\ turn.phase # "idle"
  /\ turn' = Idle
  /\ UNCHANGED <<rows, ready, linked, recorded>>

-----------------------------------------------------------------------------
(* Teachers and workers, between any two steps of a turn *)

\* an ingest ends, or finds the document already stored
Publish(d) == /\ d \notin ready /\ \E c \in rows : c[1] = d
              /\ ready' = ready \cup {d}
              /\ UNCHANGED <<rows, linked, recorded, turn>>

\* the links of an assignment are replaced by documents that materials of the course name
SetLinks(docs) == /\ docs \subseteq ready
                  /\ linked' = docs
                  /\ UNCHANGED <<rows, ready, recorded, turn>>

\* a file is deleted: its row and its links go in one transaction, the index follows when it can
Withdraw(d) == /\ d \in ready
               /\ ready' = ready \ {d} /\ linked' = linked \ {d}
               /\ UNCHANGED <<rows, recorded, turn>>

\* the recorded sources of the chunks go with them
PurgeDocument(d) == /\ d \notin ready
                    /\ rows' = {c \in rows : c[1] # d}
                    /\ recorded' = {c \in recorded : c[1] # d}
                    /\ UNCHANGED <<ready, linked, turn>>

TurnStep == \/ \E m \in Messages : ReadWhitelist(m)
            \/ Understand \/ SearchDense \/ DenseFails \/ SearchFts \/ SkipFts
            \/ Fuse \/ NothingFound \/ Rerank \/ RerankFallback \/ FilterResults
            \/ RecordSources \/ Abandon

-----------------------------------------------------------------------------
(* Properties *)

\* The state of a turn stays in range: its searches rank chunk ids within their limits.
DenseLists == Rankings(ChunkIds, DenseK)
FtsLists == Rankings(ChunkIds, FtsK)
ResultLists == UpTo(ChunkIds, TopK)
TurnRecords == [phase : Phases, message : Messages, whitelist : SUBSET Docs, allowed : SUBSET (Docs \cup {NoDocument}),
           tried : SUBSET {"dense", "fts"}, dense : DenseLists, fts : FtsLists, fused : Seq(ChunkIds),
           results : ResultLists, ranker : {"none", "model", "local"}]
RetrievalTypeOK ==
  /\ rows \subseteq ChunkIds /\ recorded \subseteq ChunkIds
  /\ ready \subseteq Docs /\ linked \subseteq Docs
  /\ turn \in TurnRecords

\* Whatever teachers do while a turn runs, and whichever search or reranker fails, a turn only cites chunks, at most
\* TopK, of documents that were on the whitelist it read (access.py:145, ai_adapter.py:123); and it cites none twice
\* unless the reranking model named it twice, which nobody checks (reranker.py:156).
SourcesAllowed ==
  turn.phase \in {"filter", "answered"} =>
    /\ \A c \in Elements(turn.results) : c[1] \in turn.whitelist \cap InScope
    /\ turn.ranker # "model" => \A i, j \in DOMAIN turn.results : turn.results[i] = turn.results[j] => i = j
    /\ Len(turn.results) <= TopK

\* The fused list holds what either search found, and agrees with them: a chunk both searches found comes before
\* one that only one of them found, whatever the ranks (the constants of the fusion see to it), and a chunk that is
\* nowhere behind another is not placed behind it (hybrid_retriever.py:27).
RankOr(s, c) == IF c \in Elements(s) THEN Rank(s, c) ELSE Len(s) + 1
InBoth(c) == c \in Elements(turn.dense) \cap Elements(turn.fts)
Dominates(c, d) == /\ RankOr(turn.dense, c) < RankOr(turn.dense, d)
                   /\ RankOr(turn.fts, c) < RankOr(turn.fts, d)
FusionAgrees ==
  turn.phase = "rerank" =>
    /\ Elements(turn.fused) = Found
    /\ \A i, j \in DOMAIN turn.fused : i < j =>
         /\ InBoth(turn.fused[j]) => InBoth(turn.fused[i])
         /\ ~ Dominates(turn.fused[j], turn.fused[i])

\* One working search suffices: a turn that needs material ends without sources only if every search that applies
\* was tried and found none, or the reranking model named no passage (hybrid_retriever.py:182-219).
OneSearchSuffices ==
  turn.phase = "answered" /\ turn.results = <<>> =>
    \/ ~ NeedsRetrieval(turn)
    \/ turn.ranker = "none" /\ Found = {} /\ turn.tried = (IF turn.message = "arabic" THEN {"dense"} ELSE {"dense", "fts"})
    \/ turn.ranker = "model"

\* The provenance of every turn leads to stored chunks, also when the document was purged between the search and
\* the record, or later (routers/ai.py:69, migration 004).
RecordedSourcesExist == recorded \subseteq rows
=============================================================================
