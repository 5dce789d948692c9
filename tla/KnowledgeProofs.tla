--------------------------- MODULE KnowledgeProofs ---------------------------
(***************************************************************************)
(* Proofs about Knowledge, for any documents, limits and files.  About the *)
(* turns: what a turn cites was on the whitelist it read, the fusion       *)
(* agrees with the searches, one working search suffices, and the recorded *)
(* sources are stored.  About the document on its way: what validation     *)
(* accepts can be read, cleaning keeps every line that occurs once, the    *)
(* chunks cover the cleaned document in order and fit, and the vectors     *)
(* follow their texts.                                                     *)
(***************************************************************************)
EXTENDS Knowledge, ChunkingProofs

-----------------------------------------------------------------------------
(* Rankings *)

LEMMA RankingFacts ==
  ASSUME NEW S, NEW k \in Nat, NEW s \in Rankings(S, k)
  PROVE  /\ s \in Seq(S) /\ Len(s) \in 0..k /\ DOMAIN s = 1..Len(s)
         /\ Elements(s) \subseteq S
         /\ \A i, j \in DOMAIN s : s[i] = s[j] => i = j
<1>1. PICK n \in 0..k : s \in [1..n -> S] /\ \A i, j \in 1..n : s[i] = s[j] => i = j
  BY DEF Rankings
<1> QED BY <1>1 DEF Elements

LEMMA RankingOf ==
  ASSUME NEW S, NEW T, NEW k \in Nat, NEW s \in Rankings(S, k), Elements(s) \subseteq T
  PROVE  s \in Rankings(T, k)
<1>1. PICK n \in 0..k : s \in [1..n -> S] /\ \A i, j \in 1..n : s[i] = s[j] => i = j
  BY DEF Rankings
<1>2. s \in [1..n -> T]
  BY <1>1 DEF Elements
<1> QED BY <1>1, <1>2 DEF Rankings

LEMMA IsRanking ==
  ASSUME NEW S, NEW k \in Nat, NEW n \in 0..k, NEW s \in [1..n -> S],
         \A i, j \in 1..n : s[i] = s[j] => i = j
  PROVE  s \in Rankings(S, k)
<1> DEFINE Of(m) == {q \in [1..m -> S] : \A i, j \in 1..m : q[i] = q[j] => i = j}
<1>1. s \in Of(n)
  OBVIOUS
<1>2. Rankings(S, k) = UNION {Of(m) : m \in 0..k}
  BY DEF Rankings
<1> HIDE DEF Of
<1> QED BY <1>1, <1>2

LEMMA EmptyRanking ==
  ASSUME NEW S, NEW k \in Nat
  PROVE  <<>> \in Rankings(S, k) /\ Elements(<<>>) = {}
<1>1. DOMAIN <<>> = {}
  OBVIOUS
<1>2. PICK n \in 0..k : n = 0
  OBVIOUS
<1>3. 1..n = {}
  BY <1>2
<1>4. <<>> \in [1..n -> S]
  BY <1>1, <1>3
<1>5. <<>> \in Rankings(S, k)
  BY <1>3, <1>4, IsRanking
<1>6. Elements(<<>>) = {}
  BY <1>1 DEF Elements
<1> QED BY <1>5, <1>6

LEMMA UpToFacts ==
  ASSUME NEW S, NEW k \in Nat, NEW s \in UpTo(S, k)
  PROVE  s \in Seq(S) /\ Len(s) \in 0..k /\ DOMAIN s = 1..Len(s) /\ Elements(s) \subseteq S
<1>1. PICK n \in 0..k : s \in [1..n -> S]
  BY DEF UpTo
<1> QED BY <1>1 DEF Elements

LEMMA UpToOf ==
  ASSUME NEW S, NEW T, NEW k \in Nat, NEW s \in UpTo(S, k), Elements(s) \subseteq T
  PROVE  s \in UpTo(T, k)
<1>1. PICK n \in 0..k : s \in [1..n -> S]
  BY DEF UpTo
<1>2. s \in [1..n -> T]
  BY <1>1 DEF Elements
<1> QED BY <1>1, <1>2 DEF UpTo

LEMMA RankingIsUpTo ==
  ASSUME NEW S, NEW k \in Nat, NEW s \in Rankings(S, k)
  PROVE  s \in UpTo(S, k)
BY DEF Rankings, UpTo

LEMMA RankOfElement ==
  ASSUME NEW S, NEW k \in Nat, NEW s \in Rankings(S, k), NEW c \in Elements(s)
  PROVE  Rank(s, c) \in 1..k /\ Rank(s, c) \in DOMAIN s /\ s[Rank(s, c)] = c
<1>1. \E i \in DOMAIN s : s[i] = c
  BY DEF Elements
<1>2. Rank(s, c) \in DOMAIN s /\ s[Rank(s, c)] = c
  BY <1>1 DEF Rank
<1> QED BY <1>2, RankingFacts

LEMMA ElementsAreFinite ==
  ASSUME NEW S, NEW s \in Seq(S)
  PROVE  IsFiniteSet(Elements(s))
<1>1. s \in Surjection(1..Len(s), Elements(s))
  BY DEF Surjection, Elements
<1>2. IsFiniteSet(1..Len(s))
  BY FS_Interval
<1> QED BY <1>1, <1>2, FS_Surjection

-----------------------------------------------------------------------------
(* What validation accepts can be read *)

\* the verdict of checks is that of one that applies
LEMMA FirstFinds ==
  ASSUME NEW checks, DOMAIN checks \subseteq Nat, NEW i \in DOMAIN checks, checks[i][1]
  PROVE  \E k \in DOMAIN checks : checks[k][1] /\ First(checks) = checks[k][2]
<1> DEFINE hits == {j \in DOMAIN checks : checks[j][1]}
<1>1. hits \in SUBSET Nat /\ hits # {}
  OBVIOUS
<1>2. \E k \in hits : \A j \in hits : k <= j
  BY <1>1, Counting!LeastOf
<1>3. PICK k \in hits : First(checks) = checks[k][2]
  BY <1>1, <1>2 DEF First
<1> QED BY <1>3

\* no check applies
LEMMA FirstIsOk ==
  ASSUME NEW checks, \A i \in DOMAIN checks : ~ checks[i][1]
  PROVE  First(checks) = "ok"
BY DEF First

\* a verdict of ok: none applied
LEMMA FirstRefuses ==
  ASSUME NEW checks, DOMAIN checks \subseteq Nat, \A k \in DOMAIN checks : checks[k][2] # "ok", First(checks) = "ok"
  PROVE  \A i \in DOMAIN checks : ~ checks[i][1]
BY FirstFinds

\* what the checks of a validation leave
LEMMA OleIsOpen ==
  ASSUME NEW f, OleRefusal(f) = "ok"
  PROVE  ~ Has(f, "locked")
<1> DEFINE checks == << <<f.content \notin {"doc", "ppt", "xls"}, "content_mismatch">>,
           <<Has(f, "damaged"), "corrupt">>, <<f.content # f.ext, "content_mismatch">>,
           <<Has(f, "macros"), "macros">>, <<Has(f, "locked"), "encrypted">> >>
<1>1. DOMAIN checks = 1..5 /\ DOMAIN checks \subseteq Nat
  OBVIOUS
<1>2. \A k \in DOMAIN checks : checks[k][2] # "ok"
  BY <1>1
<1>3. First(checks) = "ok"
  BY DEF OleRefusal
<1>4. checks[5][1] = Has(f, "locked")
  OBVIOUS
<1> HIDE DEF checks
<1>5. ~ checks[5][1]
  BY <1>1, <1>2, <1>3, FirstRefuses
<1> QED BY <1>4, <1>5

LEMMA TextIsText ==
  ASSUME NEW f, f.ext \in DOMAIN Registry, Registry[f.ext].validator \in {"text", "ipynb"}, ContentRefusal(f) = "ok"
  PROVE  IsText(f)
<1> DEFINE checks == << <<~ IsText(f), "not_text">>,
                        <<Registry[f.ext].validator = "ipynb" /\ Has(f, "damaged"), "content_mismatch">> >>
<1>1. DOMAIN checks = 1..2 /\ DOMAIN checks \subseteq Nat
  OBVIOUS
<1>2. \A k \in DOMAIN checks : checks[k][2] # "ok"
  BY <1>1
<1>3. First(checks) = "ok"
  BY DEF ContentRefusal
<1>4. checks[1][1] = ~ IsText(f)
  OBVIOUS
<1> HIDE DEF checks
<1>5. ~ checks[1][1]
  BY <1>1, <1>2, <1>3, FirstRefuses
<1> QED BY <1>4, <1>5

\* a valid upload has a known extension, and content that fits it
LEMMA ValidIsKnown ==
  ASSUME NEW f, ValidateUpload(f) = "ok"
  PROVE  f.ext \in DOMAIN Registry /\ ContentRefusal(f) = "ok"
<1> DEFINE checks == << <<f.size = "none", "empty">>, <<f.size = "large", "too_large">>,
                        <<~ f.labelled, "mime_mismatch">>, <<TRUE, ContentRefusal(f)>> >>
<1>1. DOMAIN checks = 1..4 /\ DOMAIN checks \subseteq Nat
  OBVIOUS
<1>2. f.ext \in DOMAIN Registry /\ First(checks) = "ok"
  BY DEF ValidateUpload
<1>3. /\ checks[1][2] # "ok" /\ checks[2][2] # "ok" /\ checks[3][2] # "ok"
      /\ checks[4][1] /\ checks[4][2] = ContentRefusal(f)
  OBVIOUS
<1> HIDE DEF checks
<1>4. PICK k \in DOMAIN checks : First(checks) = checks[k][2]
  BY <1>1, <1>3, FirstFinds
<1>5. k = 4
  BY <1>1, <1>2, <1>3, <1>4
<1> QED BY <1>2, <1>3, <1>4, <1>5

\* the formats whose reader may find a file locked, no text or without its engine are those whose validation asked
LEMMA Readers ==
  ASSUME NEW ext \in DOMAIN Registry
  PROVE  /\ Registry[ext].reader \in {"doc", "ppt"} => Registry[ext].validator = "ole"
         /\ Registry[ext].reader \in {"csv", "text", "code", "ipynb"} => Registry[ext].validator \in {"text", "ipynb"}
<1>1. DOMAIN Registry = {"pdf", "docx", "doc", "pptx", "ppt", "xlsx", "xls", "csv", "md", "png", "ipynb", "py"}
  BY DEF Registry
<1> QED BY <1>1 DEF Registry, FormatSpec

\* what validation accepts and keeps for reading does not fail there for being locked, binary or unreadable here
LEMMA AcceptedReads ==
  ASSUME NEW f, NEW why, ValidateUpload(f) = "ok", ModeFor(f, why) # "STORAGE_ONLY"
  PROVE  ReadError(f) \notin {"encrypted", "not_text", "unavailable"}
<1>1. f.ext \in DOMAIN Registry /\ ContentRefusal(f) = "ok"
  BY ValidIsKnown
<1>2. ~ NotDecoded(f)
  BY <1>1, Readers, TextIsText DEF NotDecoded, ReaderOf
<1>3. ~ LegacyLocked(f)
  <2> SUFFICES ASSUME ReaderOf(f) \in {"doc", "ppt"}  PROVE ~ Has(f, "locked")
    BY DEF LegacyLocked
  <2>1. OleRefusal(f) = "ok"
    BY <1>1, Readers DEF ContentRefusal, ReaderOf
  <2> QED BY <2>1, OleIsOpen
<1>4. ~ NoEngine(f)
  BY DEF ModeFor, NoEngine, ReaderOf
<1> DEFINE checks == << <<NotDecoded(f), "not_text">>, <<LegacyLocked(f), "encrypted">>, <<NoEngine(f), "unavailable">>,
               <<Has(f, "broken") \/ Has(f, "locked"), "extraction_failed">>, <<Has(f, "huge"), "too_large">>,
               <<NoSlideText(f), "no_text">> >>
<1>5. ReadError(f) = First(checks)
  BY DEF ReadError
<1>6. DOMAIN checks = 1..6 /\ DOMAIN checks \subseteq Nat
  OBVIOUS
<1>7. checks[1][1] = NotDecoded(f) /\ checks[2][1] = LegacyLocked(f) /\ checks[3][1] = NoEngine(f)
  OBVIOUS
<1>8. /\ checks[4][2] = "extraction_failed" /\ checks[5][2] = "too_large" /\ checks[6][2] = "no_text"
  OBVIOUS
<1> HIDE DEF checks
<1>9. ~ checks[1][1] /\ ~ checks[2][1] /\ ~ checks[3][1]
  BY <1>2, <1>3, <1>4, <1>7
<1>10. \/ First(checks) = "ok"
       \/ \E k \in DOMAIN checks : checks[k][1] /\ First(checks) = checks[k][2]
  BY <1>6, FirstIsOk, FirstFinds
<1> QED BY <1>5, <1>6, <1>8, <1>9, <1>10

\* the strengthening: a file under way was let through, and its engine is installed
Admitted ==
  /\ DOMAIN doc = DOMAIN Nothing
  /\ doc.phase = "accepted" => ValidateUpload(file) = "ok" /\ ModeFor(file, purpose) # "STORAGE_ONLY"
  /\ AcceptedIsReadable

\* what the end of a document leaves
LEMMA EndedFields ==
  ASSUME NEW phase, NEW error
  PROVE  /\ DOMAIN Ended(phase, error) = DOMAIN Nothing
         /\ Ended(phase, error).phase = phase /\ Ended(phase, error).error = error
         /\ Ended(phase, error).chunks = <<>> /\ Ended(phase, error).vectors = <<>>
BY DEF Ended, Nothing

\* every step of the document keeps that
LEMMA AdmittedStep ==
  ASSUME Admitted, Ingest
  PROVE  Admitted'
<1> USE DEF Admitted, AcceptedIsReadable
<1>d. {"phase", "mode", "error", "upload", "pages", "cleaned", "chunks", "vectors", "sent", "tries", "left"} = DOMAIN doc
  BY DEF Nothing
<1>1. CASE Validate
  <2>1. CASE ValidateUpload(file) # "ok"
    BY <1>1, <2>1, EndedFields DEF Validate
  <2>2. CASE ModeFor(file, purpose) = "STORAGE_ONLY"
    BY <1>1, <2>2, EndedFields DEF Validate
  <2>3. CASE ValidateUpload(file) = "ok" /\ ModeFor(file, purpose) # "STORAGE_ONLY"
    <3>1. doc' = [doc EXCEPT !.phase = "accepted", !.mode = ModeFor(file, purpose)]
      BY <1>1, <2>3 DEF Validate
    <3>2. doc'.phase = "accepted" /\ doc'.upload = doc.upload /\ DOMAIN doc' = DOMAIN doc
      BY <1>d, <3>1
    <3>3. file' = file /\ purpose' = purpose
      BY <3>2 DEF file, purpose
    <3> QED BY <2>3, <3>2, <3>3
  <2> QED BY <2>1, <2>2, <2>3
<1>2. CASE ExtractNow
  <2>1. ReadError(file) \notin {"encrypted", "not_text", "unavailable"}
    BY <1>2, AcceptedReads DEF ExtractNow
  <2>2. Extract(file).error = ReadError(file)
    BY DEF Extract
  <2>3. \/ doc' = Ended("failed", ReadError(file))
        \/ doc' = Ended("stored_only", "ok") \/ doc' = Ended("extracted", "ok")
    BY <1>2, <2>2 DEF ExtractNow
  <2> QED BY <2>1, <2>3, EndedFields
<1>3. CASE Parse
  <2>1. ReadError(file) \notin {"encrypted", "not_text", "unavailable"}
    BY <1>3, AcceptedReads DEF Parse
  <2>2. Extract(file).error = ReadError(file)
    BY DEF Extract
  <2>3. \/ \E error \in {ReadError(file), "too_short", "no_text"} : doc' = Ended("failed", error)
        \/ \E pages : doc' = [doc EXCEPT !.phase = "parsed", !.pages = pages]
    BY <1>3, <2>2 DEF Parse
  <2>4. CASE \E pages : doc' = [doc EXCEPT !.phase = "parsed", !.pages = pages]
    BY <1>d, <2>4
  <2>5. CASE \E error \in {ReadError(file), "too_short", "no_text"} : doc' = Ended("failed", error)
    BY <2>1, <2>5, EndedFields
  <2> QED BY <2>3, <2>4, <2>5
<1>4. CASE Clean
  BY <1>d, <1>4 DEF Clean
<1>5. CASE ChunkDocument
  <2>1. CASE doc' = Ended("failed", "no_chunks")
    BY <2>1, EndedFields
  <2>2. CASE doc' = [doc EXCEPT !.phase = "chunked", !.pages = <<>>, !.chunks = Chunks(doc.cleaned)]
    BY <1>d, <2>2
  <2> QED BY <1>5, <2>1, <2>2 DEF ChunkDocument
<1>6. CASE EmbedBatch
  <2>1. PICK vectors, sent, phase :
          /\ phase \in {"embedded", doc.phase}
          /\ doc' = [doc EXCEPT !.vectors = vectors, !.sent = sent, !.tries = 0, !.cleaned = <<>>, !.phase = phase]
    BY <1>6 DEF EmbedBatch
  <2>2. doc.phase = "chunked"
    BY <1>6 DEF EmbedBatch
  <2> QED BY <1>d, <2>1, <2>2
<1>7. CASE EmbedFails
  <2>1. CASE doc' = Ended("failed", "embedding")
    BY <2>1, EndedFields
  <2>2. CASE doc' = [doc EXCEPT !.tries = @ + 1, !.cleaned = <<>>]
    BY <1>d, <2>2, <1>7 DEF EmbedFails
  <2> QED BY <1>7, <2>1, <2>2 DEF EmbedFails
<1>8. CASE EmbedWrongSize \/ StoreFails
  BY <1>8, EndedFields DEF EmbedWrongSize, StoreFails
<1>9. CASE BeginStore
  <2>1. PICK left : doc' = [Ended("storing", "ok") EXCEPT !.left = left]
    BY <1>9 DEF BeginStore
  <2>2. DOMAIN doc' = DOMAIN Nothing /\ doc'.phase = "storing"
    BY <2>1, EndedFields DEF Nothing
  <2> QED BY <2>2
<1>10. CASE StoreChunk
  <2>1. CASE doc' = Ended("stored", "ok")
    BY <2>1, EndedFields
  <2>2. CASE doc' = [doc EXCEPT !.left = @ - 1]
    BY <1>d, <2>2, <1>10 DEF StoreChunk
  <2> QED BY <1>10, <2>1, <2>2 DEF StoreChunk
<1> QED BY <1>1, <1>2, <1>3, <1>4, <1>5, <1>6, <1>7, <1>8, <1>9, <1>10 DEF Ingest

\* Whatever the files are: none that validation accepted is refused, when it is read, for being locked, binary or beyond
\* the installed engines (errors.py:1 "must never learn ... only after processing").
THEOREM AcceptedStaysReadable == Spec => []AcceptedIsReadable
<1>1. Init => Admitted
  BY DEF Init, Nothing, Admitted, AcceptedIsReadable
<1>2. Admitted /\ [Next]_knowledgeVars => Admitted'
  <2> SUFFICES ASSUME Admitted, [Next]_knowledgeVars  PROVE Admitted'
    OBVIOUS
  <2>1. CASE doc' = doc
    BY <2>1 DEF Admitted, AcceptedIsReadable, file, purpose
  <2>2. CASE Ingest
    BY <2>2, AdmittedStep
  <2> QED BY <2>1, <2>2 DEF Next, Turns, Teachers, knowledgeVars
<1>3. Admitted => AcceptedIsReadable
  BY DEF Admitted
<1> QED BY <1>1, <1>2, <1>3, PTL DEF Spec

-----------------------------------------------------------------------------
(* The vectors of a reply *)

\* vectors of texts up to this one, in the order of the texts
VectorsOf(vectors, sent) ==
  /\ sent \in Nat /\ vectors \in Seq(Nat)
  /\ \A i \in DOMAIN vectors : vectors[i] \in 1..sent
  /\ \A i, k \in DOMAIN vectors : i < k => vectors[i] <= vectors[k]

\* a reply for the next n texts, in the order of its indices, goes after the vectors of the first l
LEMMA VectorsGrow ==
  ASSUME NEW u, NEW l \in Nat, NEW n \in Nat, NEW m \in Nat, VectorsOf(u, l), NEW reply \in UpTo(1..n, m),
         NEW at \in Bijection(DOMAIN reply, DOMAIN reply), InIndexOrder(reply, at)
  PROVE  VectorsOf(u \o [i \in DOMAIN reply |-> l + reply[at[i]]], l + n)
<1> DEFINE v == [i \in DOMAIN reply |-> l + reply[at[i]]]
           w == u \o v
<1>1. PICK h \in Nat : DOMAIN reply = 1..h /\ reply \in [1..h -> 1..n]
  BY DEF UpTo
<1>2. at \in [1..h -> 1..h]
  BY <1>1 DEF Bijection, Injection
<1>3. \A i \in 1..h : at[i] \in 1..h /\ reply[at[i]] \in 1..n
  BY <1>1, <1>2
<1>4. v \in [1..h -> Nat] /\ DOMAIN v = 1..h
  BY <1>1, <1>3
<1>5. \A i \in 1..h : v[i] \in l + 1..l + n
  <2> TAKE i \in 1..h
  <2>1. PICK r \in 1..n : r = reply[at[i]]
    BY <1>3
  <2>2. v[i] = l + r
    BY <1>1, <2>1
  <2> QED BY <2>2
<1>6. \A i, k \in 1..h : i < k => v[i] <= v[k]
  <2> SUFFICES ASSUME NEW i \in 1..h, NEW k \in 1..h, i < k  PROVE v[i] <= v[k]
    OBVIOUS
  <2>1. PICK r \in 1..n, q \in 1..n : r = reply[at[i]] /\ q = reply[at[k]]
    BY <1>3
  <2>2. r <= q
    BY <1>2, <2>1 DEF InIndexOrder
  <2>3. v[i] = l + r /\ v[k] = l + q
    BY <1>1, <2>1
  <2> QED BY <2>2, <2>3
<1> HIDE DEF v
<1>7. v \in Seq(Nat) /\ h = Len(v)
  <2>1. v \in Seq(Nat)
    BY <1>4, SeqDef
  <2>2. PICK g \in Nat : g = Len(v) /\ DOMAIN v = 1..g
    BY <2>1, LenProperties
  <2>3. 1..g = 1..h
    BY <1>4, <2>2
  <2>4. g = h
    BY <2>3
  <2> QED BY <2>1, <2>2, <2>4
<1>8. PICK a \in Nat : a = Len(u) /\ DOMAIN u = 1..a /\ u \in Seq(Nat)
  BY LenProperties DEF VectorsOf
<1>9. /\ \A i \in 1..a : u[i] \in 1..l
      /\ \A i, k \in 1..a : i < k => u[i] <= u[k]
  BY <1>8 DEF VectorsOf
<1>10. /\ w \in Seq(Nat) /\ DOMAIN w = 1..a + h
       /\ (\A i \in 1..a : w[i] = u[i]) /\ \A i \in 1..h : w[a + i] = v[i]
  <2>1. /\ u \o v \in Seq(Nat) /\ DOMAIN (u \o v) = 1..a + h
        /\ (\A i \in 1..a : (u \o v)[i] = u[i]) /\ \A i \in 1..h : (u \o v)[a + i] = v[i]
    <3>1. u \in Seq(Nat) /\ v \in Seq(Nat) /\ a = Len(u) /\ h = Len(v)
      BY <1>7, <1>8
    <3> QED BY <3>1, ConcatOf
  <2> QED BY <2>1, Zenon
<1> HIDE DEF w
<1>11. \A i \in 1..a : w[i] \in 1..l
  BY <1>9, <1>10
<1>12. ASSUME NEW i \in 1..a + h, i \notin 1..a
       PROVE  i - a \in 1..h /\ w[i] = v[i - a] /\ w[i] \in l + 1..l + n
  <2>1. PICK e \in 1..h : e = i - a /\ i = a + e
    BY <1>12
  <2>2. w[i] = v[e]
    BY <1>10, <2>1
  <2> QED BY <1>5, <2>1, <2>2
<1>13. ASSUME NEW i \in 1..a + h  PROVE w[i] \in 1..l + n
  <2>1. CASE i \in 1..a
    <3>1. 1..l \subseteq 1..l + n
      OBVIOUS
    <3> QED BY <1>11, <2>1, <3>1
  <2>2. CASE i \notin 1..a
    <3>1. l + 1..l + n \subseteq 1..l + n
      OBVIOUS
    <3> QED BY <1>12, <2>2, <3>1
  <2> QED BY <2>1, <2>2
<1>14. ASSUME NEW i \in 1..a + h, NEW k \in 1..a + h, i < k  PROVE w[i] <= w[k]
  <2>1. CASE i \in 1..a /\ k \in 1..a
    <3>1. w[i] = u[i] /\ w[k] = u[k]
      BY <1>10, <2>1
    <3> QED BY <1>9, <1>14, <2>1, <3>1
  <2>2. CASE i \in 1..a /\ k \notin 1..a
    <3>1. PICK x \in 1..l : x = w[i]
      BY <1>11, <2>2
    <3>2. PICK y \in l + 1..l + n : y = w[k]
      BY <1>12, <2>2
    <3>3. x <= y
      OBVIOUS
    <3> QED BY <3>1, <3>2, <3>3
  <2>3. CASE i \notin 1..a
    <3>1. k \notin 1..a
      BY <1>14, <2>3
    <3>2. i - a \in 1..h /\ w[i] = v[i - a]
      BY <1>12, <2>3
    <3>3. k - a \in 1..h /\ w[k] = v[k - a]
      BY <1>12, <3>1
    <3>4. i - a < k - a
      BY <1>14
    <3> QED BY <1>6, <3>2, <3>3, <3>4
  <2> QED BY <2>1, <2>2, <2>3
<1>15. VectorsOf(w, l + n)
  BY <1>10, <1>13, <1>14 DEF VectorsOf
<1> QED BY <1>15 DEF v, w

\* if there are as many as texts, and none comes twice, each is that of its own text
LEMMA VectorsComplete ==
  ASSUME NEW n \in Nat, NEW v, VectorsOf(v, n), Len(v) = n, \A i, k \in DOMAIN v : v[i] = v[k] => i = k
  PROVE  \A i \in 1..n : v[i] = i
<1>1. DOMAIN v = 1..n
  BY LenProperties DEF VectorsOf
<1>2. /\ \A i \in 1..n : v[i] \in 1..n
      /\ \A i, k \in 1..n : i < k => v[i] < v[k]
  <2>1. \A i \in 1..n : v[i] \in 1..n
    BY <1>1 DEF VectorsOf
  <2>2. ASSUME NEW i \in 1..n, NEW k \in 1..n, i < k  PROVE v[i] < v[k]
    <3>1. v[i] <= v[k]
      BY <1>1, <2>2 DEF VectorsOf
    <3>4. v[i] # v[k]
      BY <1>1, <2>2
    <3>2. PICK x \in 1..n, y \in 1..n : x = v[i] /\ y = v[k]
      BY <2>1
    <3>3. x < y
      BY <3>1, <3>2, <3>4
    <3> QED BY <3>2, <3>3
  <2> QED BY <2>1, <2>2
<1> DEFINE NotBelow == {i \in 0..n : i = 0 \/ v[i] >= i}
           NotAbove == {i \in 0..n : i = n \/ v[n - i] <= n - i}
<1>3. 0..n \subseteq NotBelow
  <2>1. 0 \in NotBelow
    OBVIOUS
  <2>2. ASSUME NEW i \in 0..n, i \in NotBelow, i < n  PROVE i + 1 \in NotBelow
    <3>1. i + 1 \in 1..n /\ v[i + 1] \in 1..n
      BY <1>2, <2>2
    <3>2. CASE i = 0
      BY <3>1, <3>2
    <3>3. CASE i # 0
      <4>1. i \in 1..n /\ v[i] >= i /\ v[i] \in 1..n
        BY <1>2, <2>2, <3>3
      <4>2. v[i] < v[i + 1]
        BY <1>2, <3>1, <4>1
      <4> QED BY <3>1, <4>1, <4>2
    <3> QED BY <3>2, <3>3
  <2> HIDE DEF NotBelow
  <2> QED BY <2>1, <2>2, Counting!UpTo
<1>4. 0..n \subseteq NotAbove
  <2>1. 0 \in NotAbove
    <3>1. n # 0 => n \in 1..n /\ v[n] \in 1..n
      BY <1>2
    <3> QED BY <3>1
  <2>2. ASSUME NEW i \in 0..n, i \in NotAbove, i < n  PROVE i + 1 \in NotAbove
    <3>1. PICK k \in 0..n - 1 : k = n - (i + 1) /\ k + 1 = n - i
      BY <2>2
    <3>2. k + 1 \in 1..n /\ v[k + 1] <= k + 1 /\ i + 1 \in 0..n
      BY <2>2, <3>1
    <3>3. CASE k = 0
      BY <3>1, <3>2, <3>3
    <3>4. CASE k # 0
      <4>1. k \in 1..n /\ v[k] < v[k + 1] /\ v[k] \in 1..n /\ v[k + 1] \in 1..n
        BY <1>2, <3>2, <3>4
      <4>2. v[k] <= k
        BY <3>2, <4>1
      <4> QED BY <3>1, <3>2, <4>2
    <3> QED BY <3>3, <3>4
  <2> HIDE DEF NotAbove
  <2> QED BY <2>1, <2>2, Counting!UpTo
<1>5. ASSUME NEW i \in 1..n  PROVE v[i] = i
  <2>1. i \in 0..n /\ n - i \in 0..n /\ n - (n - i) = i /\ n - i # n
    OBVIOUS
  <2>2. v[i] >= i
    BY <1>3, <2>1
  <2>3. v[n - (n - i)] <= n - (n - i)
    BY <1>4, <2>1
  <2>4. v[i] \in 1..n
    BY <1>2
  <2> QED BY <2>1, <2>2, <2>3, <2>4
<1> QED BY <1>5

-----------------------------------------------------------------------------
(* The pages of a parse *)

\* the lines of the pages that the fallback makes
LEMMA FallbackTyped ==
  ASSUME NEW scan, scan.parts \in Seq(Seq(Lines)), scan.total \in Nat
  PROVE  FallbackPages(scan) \in Seq(PageSet)
<1> DEFINE whole == FlattenSeq(scan.parts)
<1>1. whole \in Seq(Lines)
  BY FlattenFold
<1>2. scan.parts \in Seq(LineSeqs)
  BY DEF LineSeqs
<1>3. PICK w \in LineSeqs : w = whole
  BY <1>1 DEF LineSeqs
<1>4. PICK m \in Nat : m = scan.total
  OBVIOUS
<1> HIDE DEF whole
<1>5. ASSUME NEW n \in Nat, NEW x \in LineSeqs  PROVE Page(n, x) \in PageSet
  BY <1>5 DEF Page, PageSet, LineSeqs
<1>6. CASE m = 0
  <2>1. FallbackPages(scan) = <<Page(1, w)>>
    BY <1>3, <1>4, <1>6 DEF FallbackPages, whole
  <2>2. Page(1, w) \in PageSet
    BY <1>5
  <2> QED BY <2>1, <2>2
<1>7. CASE m # 0
  <2> DEFINE x(p) == IF p <= Len(scan.parts) THEN scan.parts[p] ELSE w
  <2>1. FallbackPages(scan) = [p \in 1..m |-> Page(p, x(p))]
    BY <1>3, <1>4, <1>7 DEF FallbackPages, whole
  <2>2. ASSUME NEW p \in 1..m  PROVE Page(p, x(p)) \in PageSet
    <3>1. x(p) \in LineSeqs
      BY <1>2
    <3> HIDE DEF x
    <3> QED BY <1>5, <3>1
  <2> HIDE DEF x
  <2>3. [p \in 1..m |-> Page(p, x(p))] \in [1..m -> PageSet]
    BY <2>2
  <2> QED BY <2>1, <2>3, SeqDef
<1> QED BY <1>6, <1>7

\* what a parse leaves, for a file whose reader returns pages
LEMMA ParsedPages ==
  ASSUME ReadsPages(file), NEW primary, NEW pages \in Parses(primary),
         primary = Extract(file).pages \/ (primary = file.body /\ Registry[file.ext].reader = "pdf")
  PROVE  pages \in Seq(PageSet)
<1>1. FallbackPages(file.scan) \in Seq(PageSet)
  BY FallbackTyped DEF ReadsPages
<1> QED BY <1>1 DEF ReadsPages, Parses

-----------------------------------------------------------------------------
(* A document on its way *)

\* the strengthening: what the next steps need of the phase the document is in
Indexed ==
  /\ doc.phase \in {"offered", "accepted"} => doc.upload \in Files
  /\ doc.phase \in {"offered", "accepted", "parsed", "cleaned"} => doc.vectors = <<>> /\ doc.sent = 0
  /\ doc.phase \in {"parsed", "cleaned"} => doc.pages \in Seq(PageSet)
  /\ doc.phase = "cleaned" => doc.cleaned = Cleaned(doc.pages)
  /\ doc.phase = "chunked" =>
       /\ doc.chunks \in Seq(ChunkSet) /\ doc.chunks # <<>>
       /\ VectorsOf(doc.vectors, doc.sent) /\ doc.sent < Len(doc.chunks)
       /\ doc.cleaned # <<>> => doc.cleaned \in Seq(PageSet) /\ doc.chunks = Chunks(doc.cleaned)
  /\ VectorsFollowTexts

\* a document that ended has nothing left to go wrong
LEMMA EndedIndexed ==
  ASSUME NEW phase \in {"rejected", "stored_only", "extracted", "failed", "storing", "stored"}, NEW error,
         doc'.phase = phase
  PROVE  Indexed'
BY DEF Indexed, VectorsFollowTexts

\* how many texts one more batch sends
LEMMA BatchOf ==
  ASSUME doc.chunks \in Seq(ChunkSet), doc.sent \in Nat, doc.sent < Len(doc.chunks)
  PROVE  Batch \in Nat /\ doc.sent + Batch <= Len(doc.chunks)
<1>1. PICK k \in Nat, b \in Nat, l \in Nat : k = Len(doc.chunks) /\ b = BatchSize /\ l = doc.sent
  BY KnowledgeAssumption
<1>2. Batch = IF b < k - l THEN b ELSE k - l
  BY <1>1 DEF Batch
<1> QED BY <1>1, <1>2

\* every step of the document keeps what holds of it on its way
LEMMA IndexedStep ==
  ASSUME Admitted, Indexed, Ingest
  PROVE  Indexed'
<1>d. {"phase", "mode", "error", "upload", "pages", "cleaned", "chunks", "vectors", "sent", "tries", "left"} = DOMAIN doc
  BY DEF Nothing, Admitted
<1>e. ASSUME NEW phase \in {"rejected", "stored_only", "extracted", "failed", "storing", "stored"}, NEW error,
             doc' = Ended(phase, error)
      PROVE  Indexed'
  BY <1>e, EndedFields, EndedIndexed
<1>1. CASE Validate
  <2>1. CASE ValidateUpload(file) # "ok"
    BY <1>1, <1>e, <2>1 DEF Validate
  <2>2. CASE ModeFor(file, purpose) = "STORAGE_ONLY"
    BY <1>1, <1>e, <2>2 DEF Validate
  <2>3. CASE ValidateUpload(file) = "ok" /\ ModeFor(file, purpose) # "STORAGE_ONLY"
    <3>1. doc' = [doc EXCEPT !.phase = "accepted", !.mode = ModeFor(file, purpose)] /\ doc.phase = "offered"
      BY <1>1, <2>3 DEF Validate
    <3>2. doc'.phase = "accepted" /\ doc'.upload = doc.upload /\ doc'.vectors = doc.vectors /\ doc'.sent = doc.sent
      BY <1>d, <3>1
    <3> QED BY <3>1, <3>2 DEF Indexed, VectorsFollowTexts
  <2> QED BY <2>1, <2>2, <2>3
<1>2. CASE ExtractNow
  BY <1>2, <1>e DEF ExtractNow
<1>3. CASE Parse
  <2>1. doc.phase = "accepted" /\ doc.upload \in Files /\ doc.vectors = <<>> /\ doc.sent = 0
    BY <1>3 DEF Parse, Indexed
  <2>2. ReadsPages(file)
    <3>1. file.ext \in DOMAIN Registry
      BY <2>1, ValidIsKnown DEF Admitted
    <3> QED BY <2>1, <3>1, KnowledgeAssumption DEF file
  <2>3. \/ \E error : doc' = Ended("failed", error)
        \/ \E primary :
             /\ primary = Extract(file).pages \/ (primary = file.body /\ Registry[file.ext].reader = "pdf")
             /\ \E pages \in Parses(primary) : doc' = [doc EXCEPT !.phase = "parsed", !.pages = pages]
    BY <1>3 DEF Parse
  <2>4. ASSUME NEW primary, primary = Extract(file).pages \/ (primary = file.body /\ Registry[file.ext].reader = "pdf"),
               NEW pages \in Parses(primary), doc' = [doc EXCEPT !.phase = "parsed", !.pages = pages]
        PROVE  Indexed'
    <3>1. pages \in Seq(PageSet)
      BY <2>2, <2>4, ParsedPages
    <3>2. doc'.phase = "parsed" /\ doc'.pages = pages /\ doc'.vectors = doc.vectors /\ doc'.sent = doc.sent
      BY <1>d, <2>4
    <3> QED BY <2>1, <3>1, <3>2 DEF Indexed, VectorsFollowTexts
  <2> QED BY <1>e, <2>3, <2>4
<1>4. CASE Clean
  <2>1. /\ doc'.phase = "cleaned" /\ doc'.cleaned = Cleaned(doc.pages) /\ doc'.pages = doc.pages
        /\ doc'.vectors = doc.vectors /\ doc'.sent = doc.sent /\ doc.phase = "parsed"
    BY <1>4, <1>d DEF Clean
  <2> QED BY <2>1 DEF Indexed, VectorsFollowTexts
<1>5. CASE ChunkDocument
  <2>1. CASE doc' = Ended("failed", "no_chunks")
    BY <1>e, <2>1
  <2>2. CASE doc' = [doc EXCEPT !.phase = "chunked", !.pages = <<>>, !.chunks = Chunks(doc.cleaned)] /\ Chunks(doc.cleaned) # <<>>
    <3>1. /\ doc'.phase = "chunked" /\ doc'.chunks = Chunks(doc.cleaned) /\ doc'.cleaned = doc.cleaned
          /\ doc'.vectors = doc.vectors /\ doc'.sent = doc.sent
      BY <1>d, <2>2
    <3>2. doc.pages \in Seq(PageSet) /\ doc.cleaned = Cleaned(doc.pages) /\ doc.vectors = <<>> /\ doc.sent = 0
      BY <1>5 DEF ChunkDocument, Indexed
    <3>3. doc.cleaned \in Seq(PageSet)
      BY <3>2, CleanedOf
    <3>4. Chunks(doc.cleaned) \in Seq(ChunkSet)
      BY <3>3, ChunksInOrder
    <3>5. PICK k \in Nat : k = Len(Chunks(doc.cleaned)) /\ k # 0
      BY <2>2, <3>4
    <3>6. VectorsOf(<<>>, 0)
      BY EmptySeq DEF VectorsOf
    <3>7. VectorsOf(doc'.vectors, doc'.sent) /\ doc'.sent < Len(doc'.chunks)
      BY <3>1, <3>2, <3>5, <3>6
    <3> QED BY <2>2, <3>1, <3>3, <3>4, <3>7 DEF Indexed, VectorsFollowTexts
  <2> QED BY <1>5, <2>1, <2>2 DEF ChunkDocument
<1>6. CASE EmbedBatch
  <2>0. /\ doc.phase = "chunked" /\ doc.chunks \in Seq(ChunkSet) /\ doc.chunks # <<>>
        /\ VectorsOf(doc.vectors, doc.sent) /\ doc.sent < Len(doc.chunks)
    BY <1>6 DEF EmbedBatch, Indexed
  <2>1. PICK l \in Nat, n \in Nat, k \in Nat :
          l = doc.sent /\ n = Batch /\ k = Len(doc.chunks) /\ l < k /\ l + n <= k
    BY <2>0, BatchOf DEF VectorsOf
  <2>2. PICK reply \in Replies : \E at \in Bijection(DOMAIN reply, DOMAIN reply) :
          /\ InIndexOrder(reply, at)
          /\ doc' = [doc EXCEPT !.vectors = @ \o [i \in DOMAIN reply |-> doc.sent + reply[at[i]]],
                                !.sent = @ + Batch, !.tries = 0, !.cleaned = <<>>,
                                !.phase = IF doc.sent + Batch = Len(doc.chunks) THEN "embedded" ELSE @]
    BY <1>6 DEF EmbedBatch
  <2>3. PICK at \in Bijection(DOMAIN reply, DOMAIN reply) :
          /\ InIndexOrder(reply, at)
          /\ doc' = [doc EXCEPT !.vectors = @ \o [i \in DOMAIN reply |-> doc.sent + reply[at[i]]],
                                !.sent = @ + Batch, !.tries = 0, !.cleaned = <<>>,
                                !.phase = IF doc.sent + Batch = Len(doc.chunks) THEN "embedded" ELSE @]
    BY <2>2
  <2> DEFINE v == doc.vectors \o [i \in DOMAIN reply |-> l + reply[at[i]]]
             phase == IF l + n = k THEN "embedded" ELSE doc.phase
  <2>4. VectorsOf(v, l + n)
    <3>1. reply \in UpTo(1..n, n + 1) /\ n + 1 \in Nat /\ VectorsOf(doc.vectors, l)
      BY <2>0, <2>1 DEF Replies
    <3> QED BY <2>3, <3>1, VectorsGrow
  <2>5. doc' = [doc EXCEPT !.vectors = v, !.sent = l + n, !.tries = 0, !.cleaned = <<>>, !.phase = phase]
    BY <2>1, <2>3
  <2> HIDE DEF v
  <2>6. /\ doc'.vectors = v /\ doc'.sent = l + n /\ doc'.cleaned = <<>> /\ doc'.chunks = doc.chunks
        /\ doc'.phase = IF l + n = k THEN "embedded" ELSE "chunked"
    BY <1>d, <2>0, <2>5
  <2>7. CASE l + n = k
    <3>1. doc'.phase = "embedded" /\ VectorsOf(v, k)
      BY <2>4, <2>6, <2>7
    <3>2. DOMAIN doc.chunks = 1..k
      BY <2>0, <2>1
    <3>3. ASSUME Len(v) = k, \A i, j \in DOMAIN v : v[i] = v[j] => i = j  PROVE \A i \in 1..k : v[i] = i
      BY <3>1, <3>3, VectorsComplete
    <3>4. \A i, j \in DOMAIN v : i < j => v[i] <= v[j]
      BY <3>1 DEF VectorsOf
    <3>5. VectorsFollowTexts'
      BY <2>1, <2>6, <3>2, <3>3, <3>4 DEF VectorsFollowTexts
    <3> QED BY <3>1, <3>5 DEF Indexed
  <2>8. CASE l + n # k
    <3>1. doc'.phase = "chunked" /\ l + n < k
      BY <2>1, <2>6, <2>8
    <3> QED BY <2>0, <2>1, <2>4, <2>6, <3>1 DEF Indexed, VectorsFollowTexts
  <2> QED BY <2>7, <2>8
<1>7. CASE EmbedFails
  <2>1. CASE doc' = Ended("failed", "embedding")
    BY <1>e, <2>1
  <2>2. CASE doc' = [doc EXCEPT !.tries = @ + 1, !.cleaned = <<>>]
    <3>1. doc'.phase = "chunked" /\ doc'.chunks = doc.chunks /\ doc'.vectors = doc.vectors /\ doc'.sent = doc.sent /\ doc'.cleaned = <<>> /\ doc.phase = "chunked"
      BY <1>d, <1>7, <2>2 DEF EmbedFails
    <3> QED BY <3>1 DEF Indexed, VectorsFollowTexts
  <2> QED BY <1>7, <2>1, <2>2 DEF EmbedFails
<1>8. CASE EmbedWrongSize \/ StoreFails
  BY <1>8, <1>e DEF EmbedWrongSize, StoreFails
<1>9. CASE BeginStore
  <2>1. PICK left : doc' = [Ended("storing", "ok") EXCEPT !.left = left]
    BY <1>9 DEF BeginStore
  <2>2. doc'.phase = "storing"
    BY <2>1, EndedFields DEF Nothing
  <2> QED BY <2>2, EndedIndexed
<1>10. CASE StoreChunk
  <2>1. CASE doc' = Ended("stored", "ok")
    BY <1>e, <2>1
  <2>2. CASE doc' = [doc EXCEPT !.left = @ - 1]
    <3>1. doc'.phase = "storing"
      BY <1>d, <2>2, <1>10 DEF StoreChunk
    <3> QED BY <3>1, EndedIndexed
  <2> QED BY <1>10, <2>1, <2>2 DEF StoreChunk
<1> QED BY <1>1, <1>2, <1>3, <1>4, <1>5, <1>6, <1>7, <1>8, <1>9, <1>10 DEF Ingest

\* what holds of a document on its way
LEMMA IndexedAlways == Spec => [](Admitted /\ Indexed)
<1>1. Init => Admitted /\ Indexed
  <2> SUFFICES ASSUME Init  PROVE Admitted /\ Indexed
    OBVIOUS
  <2>1. PICK u \in Files : doc = [Nothing EXCEPT !.phase = "offered", !.upload = u]
    BY DEF Init
  <2>2. DOMAIN doc = DOMAIN Nothing /\ doc.phase = "offered" /\ doc.upload = u /\ doc.vectors = <<>> /\ doc.sent = 0
    BY <2>1 DEF Nothing
  <2> QED BY <2>2 DEF Admitted, AcceptedIsReadable, Indexed, VectorsFollowTexts
<1>2. Admitted /\ Indexed /\ [Next]_knowledgeVars => (Admitted /\ Indexed)'
  <2> SUFFICES ASSUME Admitted, Indexed, [Next]_knowledgeVars  PROVE (Admitted /\ Indexed)'
    OBVIOUS
  <2>1. CASE doc' = doc
    BY <2>1 DEF Admitted, AcceptedIsReadable, file, purpose, Indexed, VectorsFollowTexts
  <2>2. CASE Ingest
    BY <2>2, AdmittedStep, IndexedStep
  <2> QED BY <2>1, <2>2 DEF Next, Turns, Teachers, knowledgeVars
<1> QED BY <1>1, <1>2, PTL DEF Spec

\* Whatever the order of a reply, what it leaves out or repeats, and however often a call is repeated, the vectors stand
\* in the order of their texts; so where as many come as there are chunks, and none twice, each chunk gets its own
\* (nvidia.py:79 sorts by index, service.py:223).
THEOREM VectorsAlwaysFollow == Spec => []VectorsFollowTexts
<1>1. Indexed => VectorsFollowTexts
  BY DEF Indexed
<1> QED BY <1>1, IndexedAlways, PTL

\* Whatever the document and the limits are, a chunk is a single line or has no more than 47/19 of the maximum and the
\* overlap, and a block that fits is whole in a chunk (structure_chunker.py:4, :26, :110).
THEOREM ChunksAlwaysFit == Spec => []ChunkFits
<1>1. Indexed => ChunkFits
  <2> SUFFICES ASSUME Indexed, doc.phase = "chunked", doc.cleaned # <<>>  PROVE ChunkFits
    BY DEF ChunkFits
  <2>1. doc.cleaned \in Seq(PageSet) /\ doc.chunks = Chunks(doc.cleaned)
    BY DEF Indexed
  <2>2. PICK pages \in Seq(PageSet) : pages = doc.cleaned
    BY <2>1
  <2> QED BY <2>1, <2>2, ChunksSized, BlocksWhole DEF ChunkFits
<1> QED BY <1>1, IndexedAlways, PTL

\* a line that occurs once is at one position
LEMMA OnceIsUnique ==
  ASSUME NEW lines \in Seq(Lines), NEW l \in Once(lines)
  PROVE  ~ IsBlank(l) /\ l \in ToSet(lines) /\ Unique(l, lines)
<1> DEFINE S == {i \in DOMAIN lines : lines[i] = l}
<1>1. ~ IsBlank(l) /\ l \in ToSet(lines) /\ Cardinality(S) = 1
  BY DEF Once, Times
<1>2. IsFiniteSet(S)
  <2>1. PICK n \in Nat : n = Len(lines)
    OBVIOUS
  <2>2. IsFiniteSet(1..n) /\ S \in SUBSET (1..n)
    BY <2>1, FS_Interval
  <2> HIDE DEF S
  <2> QED BY <2>2, FS_Subset
<1>3. \E x : S = {x}
  <2> HIDE DEF S
  <2> QED BY <1>1, <1>2, FS_Singleton
<1>4. ASSUME NEW i \in DOMAIN lines, NEW j \in DOMAIN lines, lines[i] = l, lines[j] = l  PROVE i = j
  <2>1. i \in S /\ j \in S
    BY <1>4
  <2> HIDE DEF S
  <2> QED BY <1>3, <2>1
<1> QED BY <1>1, <1>4 DEF Unique

\* Whatever the pages are, cleaning loses no line that occurs once, but page numbers and the first word of a line that
\* ends a broken one (cleaner.py:26).
THEOREM OnceSeenStays == Spec => []OnceSeenIsKept
<1>1. Indexed => OnceSeenIsKept
  <2> SUFFICES ASSUME Indexed, doc.phase = "cleaned"  PROVE OnceSeenIsKept
    BY DEF OnceSeenIsKept
  <2>1. PICK pages \in Seq(PageSet) : pages = doc.pages /\ doc.cleaned = Cleaned(pages)
    BY DEF Indexed
  <2> DEFINE before == AllLines(pages)
             after == AllLines(Cleaned(pages))
             Broken(l) == l.wrap \/ \E i, k \in DOMAIN before : k < i /\ before[k].wrap /\ before[i] = l
  <2>2. before \in Seq(Lines) /\ after \in Seq(Lines)
    BY CleanedOf, ChunksInOrder
  <2>3. ASSUME NEW l \in Once(before)
        PROVE  \/ l.kind = "number" \/ l \in ToSet(after)
               \/ Broken(l) /\ ToSet(Tail(l.text)) \subseteq WordsOf(after)
    <3>1. ~ IsBlank(l) /\ l \in ToSet(before) /\ Unique(l, before)
      BY <2>2, OnceIsUnique
    <3>2. CASE l.kind # "number"
      <4>1. \/ l \in ToSet(after)
            \/ Broken(l) /\ \A w \in ToSet(Tail(l.text)) : HasWord(after, w)
        BY <3>1, <3>2, CleaningKeeps
      <4>2. ASSUME NEW w, HasWord(after, w)  PROVE w \in WordsOf(after)
        BY <4>2 DEF HasWord, WordsOf, ToSet
      <4> QED BY <4>1, <4>2
    <3> QED BY <3>2
  <2> QED BY <2>1, <2>3 DEF OnceSeenIsKept
<1> QED BY <1>1, IndexedAlways, PTL

\* Whatever the document and the limits are, every line that occurs once in the cleaned document is in a chunk, and the
\* chunks come in the order of the lines (structure_chunker.py:59).
THEOREM ChunksAlwaysCover == Spec => []ChunksCover
<1>1. Indexed => ChunksCover
  <2> SUFFICES ASSUME Indexed, doc.phase = "chunked", doc.cleaned # <<>>  PROVE ChunksCover
    BY DEF ChunksCover
  <2>1. PICK pages \in Seq(PageSet) : pages = doc.cleaned /\ doc.chunks = Chunks(pages)
    BY DEF Indexed
  <2> DEFINE lines == AllLines(pages)
             chunks == Chunks(pages)
             Holds(l, c) == l \in ToSet(chunks[c].lines)
  <2>2. lines \in Seq(Lines) /\ chunks \in Seq(ChunkSet)
    BY ChunksInOrder
  <2>3. ASSUME NEW l \in Once(lines)  PROVE \E i \in DOMAIN lines : lines[i] = l /\ ~ IsBlank(lines[i])
    BY DEF Once, ToSet
  <2>4. ASSUME NEW l \in Once(lines)  PROVE \E c \in DOMAIN chunks : Holds(l, c)
    BY <2>3, ChunksInOrder
  <2>5. PICK n \in Nat : DOMAIN chunks = 1..n
    BY <2>2
  <2>6. ASSUME NEW l \in Once(lines)
        PROVE  /\ FirstChunk(l) \in DOMAIN chunks /\ Holds(l, FirstChunk(l))
               /\ \A b \in 1..FirstChunk(l) - 1 : ~ Holds(l, b)
    <3> DEFINE S == {c \in DOMAIN chunks : Holds(l, c)}
    <3>1. S \in SUBSET Nat /\ S # {}
      BY <2>4, <2>5
    <3>2. PICK c \in S : \A b \in S : c <= b
      <4> HIDE DEF S
      <4> QED BY <3>1, Counting!LeastOf
    <3>3. \A b \in 1..c - 1 : ~ Holds(l, b)
      BY <2>5, <3>2
    <3>4. FirstChunk(l) = CHOOSE a \in DOMAIN chunks : Holds(l, a) /\ \A b \in 1..a - 1 : ~ Holds(l, b)
      BY <2>1 DEF FirstChunk
    <3> QED BY <3>2, <3>3, <3>4
  <2>7. ASSUME NEW i \in DOMAIN lines, NEW j \in DOMAIN lines, i < j, lines[i] \in Once(lines), lines[j] \in Once(lines)
        PROVE  FirstChunk(lines[i]) <= FirstChunk(lines[j])
    <3>1. Unique(lines[j], lines) /\ ~ IsBlank(lines[i])
      BY <2>2, <2>7, OnceIsUnique
    <3>2. PICK c \in DOMAIN chunks : c = FirstChunk(lines[j]) /\ Holds(lines[j], c)
      BY <2>6, <2>7
    <3>3. \A k \in DOMAIN lines : lines[k] = lines[j] => k = j
      BY <3>1 DEF Unique
    <3>4. PICK b \in 1..c : Holds(lines[i], b)
      BY <2>7, <3>1, <3>2, <3>3, ChunksInOrder
    <3>5. PICK a \in DOMAIN chunks : a = FirstChunk(lines[i]) /\ \A e \in 1..a - 1 : ~ Holds(lines[i], e)
      BY <2>6, <2>7
    <3>6. ~ (b \in 1..a - 1)
      BY <3>4, <3>5
    <3>7. a <= c
      BY <2>5, <3>4, <3>6
    <3> QED BY <3>2, <3>5, <3>7
  <2> QED BY <2>1, <2>4, <2>7 DEF ChunksCover
<1> QED BY <1>1, IndexedAlways, PTL

-----------------------------------------------------------------------------
(* The turns *)

LEMMA IncomingIsKnown == Incoming \in Docs
BY KnowledgeAssumption

USE RetrievalAssumption, IncomingIsKnown

-----------------------------------------------------------------------------
(* The records of turns *)

LEMMA IdleRecord == Idle \in TurnRecords /\ Idle.phase = "idle"
<1>1. /\ <<>> \in DenseLists /\ <<>> \in FtsLists /\ <<>> \in ResultLists
  BY EmptyRanking, RankingIsUpTo DEF DenseLists, FtsLists, ResultLists
<1> QED BY <1>1 DEF Idle, TurnRecords, Phases, Messages

LEMMA RankedRecord ==
  ASSUME turn \in TurnRecords, NEW order \in ResultLists, NEW ranker \in {"model", "local"}
  PROVE  LET t == Ranked(order, ranker)
         IN  /\ t \in TurnRecords /\ t.phase = "filter" /\ t.results = order /\ t.ranker = ranker
             /\ t.dense = <<>> /\ t.fts = <<>> /\ t.fused = <<>>
             /\ t.whitelist = turn.whitelist /\ t.allowed = turn.allowed
             /\ t.message = turn.message /\ t.tried = turn.tried
<1>1. <<>> \in DenseLists /\ <<>> \in FtsLists
  BY EmptyRanking DEF DenseLists, FtsLists
<1> QED BY <1>1 DEF Ranked, TurnRecords, Phases

LEMMA TurnFields ==
  ASSUME turn \in TurnRecords
  PROVE  /\ turn.phase \in Phases /\ turn.message \in Messages
         /\ turn.whitelist \subseteq Docs /\ turn.allowed \subseteq Docs \cup {NoDocument}
         /\ turn.tried \subseteq {"dense", "fts"} /\ turn.ranker \in {"none", "model", "local"}
         /\ turn.dense \in DenseLists /\ turn.fts \in FtsLists /\ turn.fused \in Seq(ChunkIds)
         /\ turn.results \in ResultLists
BY DEF TurnRecords

-----------------------------------------------------------------------------
(* Which results a turn has *)

NamesOnce(s) == \A i, j \in DOMAIN s : s[i] = s[j] => i = j

\* both rerankers name passages of the fused list, and the local one names each once
LEMMA RankedResults ==
  ASSUME turn \in TurnRecords, Rerank \/ RerankFallback
  PROVE  \E order \in ResultLists, ranker \in {"model", "local"} :
           /\ turn' = Ranked(order, ranker) /\ Elements(order) \subseteq Elements(turn.fused)
           /\ ranker = "local" => NamesOnce(order)
<1> DEFINE Passages == {turn.fused[i] : i \in {k \in DOMAIN turn.fused : k <= PassageLimit}}
<1>1. Passages \subseteq Elements(turn.fused) /\ Elements(turn.fused) \subseteq ChunkIds
  BY TurnFields DEF Elements
<1>2. CASE Rerank
  <2>1. PICK order \in UpTo(Passages, TopK) : turn' = Ranked(order, "model")
    BY <1>2 DEF Rerank
  <2>2. Elements(order) \subseteq Passages
    BY UpToFacts
  <2>3. order \in ResultLists
    BY <1>1, <2>2, UpToOf DEF ResultLists
  <2> QED BY <1>1, <2>1, <2>2, <2>3
<1>3. CASE RerankFallback
  <2>1. PICK order \in Rankings(Elements(turn.fused), TopK) : turn' = Ranked(order, "local")
    BY <1>3 DEF RerankFallback
  <2>2. Elements(order) \subseteq Elements(turn.fused) /\ NamesOnce(order)
    BY RankingFacts DEF NamesOnce
  <2>3. order \in ResultLists
    BY <1>1, <2>2, RankingIsUpTo, UpToOf DEF ResultLists
  <2> QED BY <2>1, <2>2, <2>3
<1> QED BY <1>2, <1>3

\* the tool keeps the results in scope, and names none it did not get
LEMMA KeptResults ==
  ASSUME turn \in TurnRecords, FilterResults
  PROVE  \E kept \in ResultLists :
           /\ turn' = [turn EXCEPT !.phase = "answered", !.results = kept]
           /\ Elements(kept) = {c \in Elements(turn.results) : MatchesScope(c, turn.allowed)}
           /\ NamesOnce(turn.results) => NamesOnce(kept)
<1> DEFINE allowed == {i \in DOMAIN turn.results : MatchesScope(turn.results[i], turn.allowed)}
<1>1. PICK at \in Rankings(allowed, TopK) :
        /\ Elements(at) = allowed
        /\ turn' = [turn EXCEPT !.phase = "answered", !.results = [i \in DOMAIN at |-> turn.results[at[i]]]]
  BY DEF FilterResults
<1> DEFINE kept == [i \in DOMAIN at |-> turn.results[at[i]]]
<1>2. turn.results \in Seq(ChunkIds)
  BY TurnFields, UpToFacts DEF ResultLists
<1>3. PICK n \in 0..TopK : at \in [1..n -> allowed] /\ \A i, j \in 1..n : at[i] = at[j] => i = j
  BY DEF Rankings
<1>4. \A i \in 1..n : at[i] \in DOMAIN turn.results
  BY <1>3
<1>5. kept \in [1..n -> ChunkIds]
  BY <1>2, <1>3, <1>4
<1>6. Elements(kept) = {c \in Elements(turn.results) : MatchesScope(c, turn.allowed)}
  <2>1. ASSUME NEW c \in Elements(kept)
        PROVE  c \in Elements(turn.results) /\ MatchesScope(c, turn.allowed)
    <3>1. PICK i \in 1..n : c = turn.results[at[i]]
      BY <1>3 DEF Elements
    <3> QED BY <1>3, <3>1 DEF Elements
  <2>2. ASSUME NEW c \in Elements(turn.results), MatchesScope(c, turn.allowed)
        PROVE  c \in Elements(kept)
    <3>1. PICK k \in DOMAIN turn.results : c = turn.results[k]
      BY DEF Elements
    <3>2. k \in Elements(at)
      BY <1>1, <2>2, <3>1
    <3>3. PICK i \in DOMAIN at : at[i] = k
      BY <3>2 DEF Elements
    <3> QED BY <3>1, <3>3 DEF Elements
  <2> QED BY <2>1, <2>2
<1>7. NamesOnce(turn.results) => NamesOnce(kept)
  BY <1>3, <1>4 DEF NamesOnce
<1>8. kept \in ResultLists
  BY <1>5 DEF ResultLists, UpTo
<1> HIDE DEF kept
<1> QED BY <1>1, <1>6, <1>7, <1>8 DEF kept

-----------------------------------------------------------------------------
(* Which steps a turn takes *)

\* the steps of workers and teachers leave the turn alone
LEMMA OtherSteps ==
  ASSUME RetrievalTypeOK, Ingest \/ Teachers \/ UNCHANGED knowledgeVars
  PROVE  /\ turn' = turn /\ rows' \subseteq ChunkIds /\ recorded' \subseteq ChunkIds
         /\ ready' \subseteq Docs /\ linked' \subseteq Docs
<1>1. CASE StoreChunk
  BY <1>1 DEF StoreChunk, RetrievalTypeOK, ChunkIds
<1>2. CASE BeginStore
  BY <1>2 DEF BeginStore, RetrievalTypeOK
<1>3. CASE Teachers
  BY <1>3 DEF Teachers, Publish, Withdraw, PurgeDocument, SetLinks, RetrievalTypeOK
<1>4. CASE UNCHANGED retrievalVars
  BY <1>4 DEF retrievalVars, RetrievalTypeOK
<1>5. UNCHANGED knowledgeVars => UNCHANGED retrievalVars
  BY DEF knowledgeVars, retrievalVars
<1>6. Ingest => StoreChunk \/ BeginStore \/ UNCHANGED retrievalVars
  BY DEF Ingest, Validate, ExtractNow, Parse, Clean, ChunkDocument, EmbedBatch, EmbedFails, EmbedWrongSize,
         StoreFails
<1> QED BY <1>1, <1>2, <1>3, <1>4, <1>5, <1>6

-----------------------------------------------------------------------------
(* Types *)

LEMMA TurnTypes ==
  ASSUME RetrievalTypeOK, TurnStep
  PROVE  turn' \in TurnRecords
<1>t. turn \in TurnRecords
  BY DEF RetrievalTypeOK
<1> USE <1>t
<1>f. /\ turn.dense \in DenseLists /\ turn.fts \in FtsLists /\ turn.fused \in Seq(ChunkIds)
      /\ turn.results \in ResultLists
  BY TurnFields
<1>c. Candidates \subseteq ChunkIds
  BY DEF Candidates, RetrievalTypeOK
<1>1. ASSUME NEW m \in Messages, ReadWhitelist(m)  PROVE turn' \in TurnRecords
  <2>1. AllowedDocuments \subseteq Docs /\ Whitelist(AllowedDocuments) \subseteq Docs \cup {NoDocument}
    BY DEF AllowedDocuments, Whitelist, RetrievalTypeOK
  <2> QED BY <1>1, <2>1, IdleRecord DEF ReadWhitelist, TurnRecords, Phases
<1>2. CASE Understand
  BY <1>2 DEF Understand, TurnRecords, Phases
<1>3. CASE SearchDense
  <2>1. PICK found \in Rankings(Candidates, DenseK) :
          turn' = [turn EXCEPT !.phase = "fts", !.dense = found, !.tried = @ \cup {"dense"}]
    BY <1>3 DEF SearchDense
  <2>2. found \in DenseLists
    BY <1>c, RankingFacts, RankingOf DEF DenseLists
  <2> QED BY <2>1, <2>2 DEF TurnRecords, Phases
<1>4. CASE DenseFails
  BY <1>4 DEF DenseFails, TurnRecords, Phases
<1>5. CASE SearchFts
  <2>1. PICK found \in Rankings(Candidates, FtsK) :
          turn' = [turn EXCEPT !.phase = "fuse", !.fts = found, !.tried = @ \cup {"fts"}]
    BY <1>5 DEF SearchFts
  <2>2. found \in FtsLists
    BY <1>c, RankingFacts, RankingOf DEF FtsLists
  <2> QED BY <2>1, <2>2 DEF TurnRecords, Phases
<1>6. CASE SkipFts \/ NothingFound
  BY <1>6 DEF SkipFts, NothingFound, TurnRecords, Phases
<1>7. CASE Fuse
  <2>1. PICK order \in [1..Cardinality(Found) -> Found] : turn' = [turn EXCEPT !.phase = "rerank", !.fused = order]
    BY <1>7 DEF Fuse
  <2>2. Found \subseteq ChunkIds /\ IsFiniteSet(Found)
    <3>1. turn.dense \in Seq(ChunkIds) /\ Elements(turn.dense) \subseteq ChunkIds
      BY <1>f, RankingFacts DEF DenseLists
    <3>2. turn.fts \in Seq(ChunkIds) /\ Elements(turn.fts) \subseteq ChunkIds
      BY <1>f, RankingFacts DEF FtsLists
    <3>3. IsFiniteSet(Elements(turn.dense)) /\ IsFiniteSet(Elements(turn.fts))
      BY <3>1, <3>2, ElementsAreFinite
    <3> QED BY <3>1, <3>2, <3>3, FS_Union DEF Found
  <2>3. order \in Seq(ChunkIds)
    BY <2>2, FS_CardinalityType
  <2> QED BY <2>1, <2>3 DEF TurnRecords, Phases
<1>8. CASE Rerank \/ RerankFallback
  BY <1>8, RankedResults, RankedRecord
<1>9. CASE FilterResults
  BY <1>9, KeptResults DEF TurnRecords, Phases
<1>10. CASE RecordSources \/ Abandon
  BY <1>10, IdleRecord DEF RecordSources, Abandon
<1> QED BY <1>1, <1>2, <1>3, <1>4, <1>5, <1>6, <1>7, <1>8, <1>9, <1>10 DEF TurnStep

LEMMA TypeStep == RetrievalTypeOK /\ [Next]_knowledgeVars => RetrievalTypeOK'
<1> SUFFICES ASSUME RetrievalTypeOK, [Next]_knowledgeVars  PROVE RetrievalTypeOK'
  OBVIOUS
<1>1. CASE Ingest \/ Teachers \/ UNCHANGED knowledgeVars
  BY <1>1, OtherSteps DEF RetrievalTypeOK
<1>2. CASE Turns
  <2>1. turn' \in TurnRecords
    BY <1>2, TurnTypes DEF Turns
  <2>2. /\ rows' = rows /\ ready' = ready /\ linked' = linked
        /\ recorded' \subseteq recorded \cup rows
    BY <1>2 DEF Turns, TurnStep, ReadWhitelist, Understand, SearchDense, DenseFails, SearchFts, SkipFts, Fuse,
                NothingFound, Rerank, RerankFallback, FilterResults, RecordSources, Abandon
  <2> QED BY <2>1, <2>2 DEF RetrievalTypeOK
<1> QED BY <1>1, <1>2 DEF Next

LEMMA TypeInit == Init => RetrievalTypeOK
BY IdleRecord DEF Init, RetrievalInit, RetrievalTypeOK, ChunkIds

\* The turn, its lists and what is stored and recorded stay in range (Retrieval: the state of one Coach turn).
THEOREM RetrievalTypes == Spec => []RetrievalTypeOK
BY TypeInit, TypeStep, PTL DEF Spec

-----------------------------------------------------------------------------
(* Provenance *)

\* Every recorded source is a stored chunk, also when its document is purged or replaced between the search and the
\* record, or later (routers/ai.py:69).
THEOREM ProvenanceHolds == Spec => []RecordedSourcesExist
<1>1. Init => RecordedSourcesExist
  BY DEF Init, RetrievalInit, RecordedSourcesExist
<1>2. RecordedSourcesExist /\ [Next]_knowledgeVars => RecordedSourcesExist'
  <2> SUFFICES ASSUME RecordedSourcesExist, [Next]_knowledgeVars  PROVE RecordedSourcesExist'
    OBVIOUS
  <2>1. CASE Ingest
    BY <2>1 DEF Ingest, Validate, ExtractNow, Parse, Clean, ChunkDocument, EmbedBatch, EmbedFails, EmbedWrongSize,
                BeginStore, StoreChunk, StoreFails, retrievalVars, RecordedSourcesExist
  <2>2. CASE Turns
    BY <2>2 DEF Turns, TurnStep, ReadWhitelist, Understand, SearchDense, DenseFails, SearchFts, SkipFts, Fuse,
                NothingFound, Rerank, RerankFallback, FilterResults, RecordSources, Abandon, RecordedSourcesExist
  <2>3. CASE Teachers
    BY <2>3 DEF Teachers, Publish, Withdraw, PurgeDocument, SetLinks, RecordedSourcesExist
  <2>4. CASE UNCHANGED knowledgeVars
    BY <2>4 DEF knowledgeVars, RecordedSourcesExist
  <2> QED BY <2>1, <2>2, <2>3, <2>4 DEF Next
<1> QED BY <1>1, <1>2, PTL DEF Spec

-----------------------------------------------------------------------------
(* What a turn may cite *)

\* the chunks of the documents on the whitelist of the turn
Reach == {c \in ChunkIds : c[1] \in turn.whitelist \cap InScope}

\* the strengthening: from its first search on, every list of a turn stays within its whitelist, and only the
\* reranking model names a chunk twice
Scoped ==
  turn.phase # "idle" =>
    /\ turn.allowed = Whitelist(turn.whitelist)
    /\ Elements(turn.dense) \subseteq Reach /\ Elements(turn.fts) \subseteq Reach
    /\ Elements(turn.fused) \subseteq Reach /\ Elements(turn.results) \subseteq Reach
    /\ turn.ranker # "model" => NamesOnce(turn.results)

LEMMA CandidatesInReach ==
  ASSUME RetrievalTypeOK, Scoped, turn.phase # "idle"
  PROVE  Candidates \subseteq Reach
BY TurnFields DEF Candidates, MatchesScope, Scoped, Whitelist, Reach, RetrievalTypeOK, ChunkIds

LEMMA ScopedStep ==
  ASSUME RetrievalTypeOK, Scoped, TurnStep
  PROVE  Scoped'
<1>t. turn \in TurnRecords
  BY DEF RetrievalTypeOK
<1> USE <1>t
<1>e. Elements(<<>>) = {}
  BY EmptyRanking
<1>1. ASSUME NEW m \in Messages, ReadWhitelist(m)  PROVE Scoped'
  <2>1. /\ turn'.allowed = Whitelist(turn'.whitelist)
        /\ turn'.dense = <<>> /\ turn'.fts = <<>> /\ turn'.fused = <<>> /\ turn'.results = <<>>
    BY <1>1 DEF ReadWhitelist, Idle
  <2>2. NamesOnce(<<>>)
    BY DEF NamesOnce
  <2> QED BY <1>e, <2>1, <2>2 DEF Scoped, Whitelist
<1>2. CASE Understand \/ DenseFails \/ SkipFts \/ NothingFound
  <2>1. /\ turn.phase # "idle" /\ turn'.allowed = turn.allowed /\ turn'.whitelist = turn.whitelist
        /\ turn'.dense = turn.dense /\ turn'.fts = turn.fts
        /\ turn'.fused = turn.fused /\ turn'.results = turn.results /\ turn'.ranker = turn.ranker
    BY <1>2 DEF Understand, DenseFails, SkipFts, NothingFound, TurnRecords
  <2> QED BY <2>1 DEF Scoped, Reach, Whitelist
<1>3. CASE SearchDense
  <2>1. PICK found \in Rankings(Candidates, DenseK) :
          turn' = [turn EXCEPT !.phase = "fts", !.dense = found, !.tried = @ \cup {"dense"}]
    BY <1>3 DEF SearchDense
  <2>2. turn.phase # "idle" /\ Elements(found) \subseteq Reach
    BY <1>3, CandidatesInReach, RankingFacts DEF SearchDense
  <2>3. /\ turn'.allowed = turn.allowed /\ turn'.whitelist = turn.whitelist /\ turn'.dense = found
        /\ turn'.fts = turn.fts /\ turn'.fused = turn.fused /\ turn'.results = turn.results
        /\ turn'.ranker = turn.ranker
    BY <2>1 DEF TurnRecords
  <2> QED BY <2>2, <2>3 DEF Scoped, Reach, Whitelist
<1>4. CASE SearchFts
  <2>1. PICK found \in Rankings(Candidates, FtsK) :
          turn' = [turn EXCEPT !.phase = "fuse", !.fts = found, !.tried = @ \cup {"fts"}]
    BY <1>4 DEF SearchFts
  <2>2. turn.phase # "idle" /\ Elements(found) \subseteq Reach
    BY <1>4, CandidatesInReach, RankingFacts DEF SearchFts
  <2>3. /\ turn'.allowed = turn.allowed /\ turn'.whitelist = turn.whitelist /\ turn'.fts = found
        /\ turn'.dense = turn.dense /\ turn'.fused = turn.fused /\ turn'.results = turn.results
        /\ turn'.ranker = turn.ranker
    BY <2>1 DEF TurnRecords
  <2> QED BY <2>2, <2>3 DEF Scoped, Reach, Whitelist
<1>5. CASE Fuse
  <2>1. PICK order : Elements(order) = Found /\ turn' = [turn EXCEPT !.phase = "rerank", !.fused = order]
    BY <1>5 DEF Fuse
  <2>2. turn.phase # "idle" /\ Elements(order) \subseteq Reach
    BY <1>5, <2>1 DEF Fuse, Found, Scoped
  <2>3. /\ turn'.allowed = turn.allowed /\ turn'.whitelist = turn.whitelist /\ turn'.fused = order
        /\ turn'.dense = turn.dense /\ turn'.fts = turn.fts /\ turn'.results = turn.results
        /\ turn'.ranker = turn.ranker
    BY <2>1 DEF TurnRecords
  <2> QED BY <2>2, <2>3 DEF Scoped, Reach, Whitelist
<1>6. CASE Rerank \/ RerankFallback
  <2>1. PICK order \in ResultLists, ranker \in {"model", "local"} :
          /\ turn' = Ranked(order, ranker) /\ Elements(order) \subseteq Elements(turn.fused)
          /\ ranker = "local" => NamesOnce(order)
    BY <1>6, RankedResults
  <2>3. turn.phase # "idle" /\ Elements(order) \subseteq Reach
    BY <1>6, <2>1 DEF Rerank, RerankFallback, Scoped
  <2>4. /\ turn'.allowed = turn.allowed /\ turn'.whitelist = turn.whitelist /\ turn'.results = order
        /\ turn'.dense = <<>> /\ turn'.fts = <<>> /\ turn'.fused = <<>> /\ turn'.ranker = ranker
    BY <2>1 DEF Ranked
  <2> QED BY <1>e, <2>1, <2>3, <2>4 DEF Scoped, Reach, Whitelist
<1>7. CASE FilterResults
  <2>2. PICK kept \in ResultLists :
          /\ turn' = [turn EXCEPT !.phase = "answered", !.results = kept]
          /\ Elements(kept) \subseteq Elements(turn.results)
          /\ NamesOnce(turn.results) => NamesOnce(kept)
    BY <1>7, KeptResults
  <2>3. turn.phase # "idle" /\ Elements(kept) \subseteq Reach
    BY <1>7, <2>2 DEF FilterResults, Scoped
  <2>4. /\ turn'.allowed = turn.allowed /\ turn'.whitelist = turn.whitelist /\ turn'.results = kept
        /\ turn'.dense = turn.dense /\ turn'.fts = turn.fts /\ turn'.fused = turn.fused
        /\ turn'.ranker = turn.ranker
    BY <2>2 DEF TurnRecords
  <2> QED BY <2>2, <2>3, <2>4 DEF Scoped, Reach, Whitelist
<1>8. CASE RecordSources \/ Abandon
  BY <1>8, IdleRecord DEF RecordSources, Abandon, Scoped
<1> QED BY <1>1, <1>2, <1>3, <1>4, <1>5, <1>6, <1>7, <1>8 DEF TurnStep

LEMMA ScopedAlways == Spec => [](RetrievalTypeOK /\ Scoped)
<1>1. Init => Scoped
  BY IdleRecord DEF Init, RetrievalInit, Scoped
<1>2. RetrievalTypeOK /\ Scoped /\ [Next]_knowledgeVars => Scoped'
  <2> SUFFICES ASSUME RetrievalTypeOK, Scoped, [Next]_knowledgeVars  PROVE Scoped'
    OBVIOUS
  <2>1. CASE Turns
    BY <2>1, ScopedStep DEF Turns
  <2>2. CASE Ingest \/ Teachers \/ UNCHANGED knowledgeVars
    BY <2>2, OtherSteps DEF Scoped, Reach
  <2> QED BY <2>1, <2>2 DEF Next
<1> QED BY <1>1, <1>2, TypeInit, TypeStep, PTL DEF Spec

\* Whatever teachers and workers do during a turn, whichever call fails and whatever the reranking model names, the
\* turn cites chunks, at most TopK, of documents on the whitelist it read (access.py:145, ai_adapter.py:123,
\* course_retrieval.py:146); and it cites none twice, unless the model named it twice.
THEOREM SourcesAreAllowed == Spec => []SourcesAllowed
<1>1. RetrievalTypeOK /\ Scoped => SourcesAllowed
  <2> SUFFICES ASSUME RetrievalTypeOK, Scoped, turn.phase \in {"filter", "answered"}
               PROVE  /\ \A c \in Elements(turn.results) : c[1] \in turn.whitelist \cap InScope
                      /\ turn.ranker # "model" => NamesOnce(turn.results)
                      /\ Len(turn.results) <= TopK
    BY DEF SourcesAllowed, NamesOnce
  <2>1. \A c \in Elements(turn.results) : c[1] \in turn.whitelist \cap InScope
    BY DEF Scoped, Reach
  <2>2. turn.results \in UpTo(ChunkIds, TopK)
    BY TurnFields DEF RetrievalTypeOK, ResultLists
  <2>3. turn.ranker # "model" => NamesOnce(turn.results)
    BY DEF Scoped
  <2> QED BY <2>1, <2>2, <2>3, UpToFacts
<1> QED BY <1>1, ScopedAlways, PTL

-----------------------------------------------------------------------------
(* One working search suffices *)

Applicable == IF turn.message = "arabic" THEN {"dense"} ELSE {"dense", "fts"}

\* the strengthening: what a turn has tried and found when it gets to each of its steps
Flow ==
  /\ turn.phase \in {"asked", "dense"} => turn.tried = {} /\ turn.dense = <<>> /\ turn.fts = <<>>
  /\ turn.phase = "fts" => turn.tried = {"dense"} /\ turn.fts = <<>>
  /\ turn.phase = "fuse" => turn.tried = Applicable
  /\ turn.phase \in {"asked", "dense", "fts", "fuse"} => turn.ranker = "none"
  /\ turn.phase = "rerank" => turn.fused # <<>>
  /\ turn.phase = "filter" => turn.ranker = "model" \/ turn.results # <<>>
  /\ OneSearchSuffices

LEMMA NonEmptyElements ==
  ASSUME NEW S, NEW s \in Seq(S)
  PROVE  s # <<>> <=> Elements(s) # {}
<1>1. CASE s = <<>>
  BY <1>1, EmptyRanking
<1>2. CASE s # <<>>
  <2>1. 1 \in DOMAIN s
    BY <1>2
  <2> QED BY <1>2, <2>1 DEF Elements
<1> QED BY <1>1, <1>2

LEMMA FlowStep ==
  ASSUME RetrievalTypeOK, Scoped, Flow, TurnStep
  PROVE  Flow'
<1>t. turn \in TurnRecords
  BY DEF RetrievalTypeOK
<1> USE <1>t
<1>1. ASSUME NEW m \in Messages, ReadWhitelist(m)  PROVE Flow'
  <2>1. /\ turn'.phase = "asked" /\ turn'.tried = {} /\ turn'.dense = <<>> /\ turn'.fts = <<>>
        /\ turn'.ranker = "none"
    BY <1>1 DEF ReadWhitelist, Idle
  <2> QED BY <2>1 DEF Flow, OneSearchSuffices
<1>2. CASE Understand
  BY <1>2 DEF Understand, Flow, OneSearchSuffices, NeedsRetrieval, TurnRecords
<1>3. CASE SearchDense \/ DenseFails
  <2>1. /\ turn.phase = "dense" /\ turn'.phase = "fts" /\ turn'.tried = turn.tried \cup {"dense"}
        /\ turn'.fts = turn.fts /\ turn'.ranker = turn.ranker
    BY <1>3 DEF SearchDense, DenseFails, TurnRecords
  <2> QED BY <2>1 DEF Flow, OneSearchSuffices
<1>4. CASE SearchFts \/ SkipFts
  <2>1. /\ turn.phase = "fts" /\ turn'.phase = "fuse" /\ turn'.message = turn.message
        /\ turn'.tried = IF turn.message = "arabic" THEN turn.tried ELSE turn.tried \cup {"fts"}
        /\ turn'.ranker = turn.ranker
    BY <1>4 DEF SearchFts, SkipFts, TurnRecords
  <2> QED BY <2>1 DEF Flow, OneSearchSuffices, Applicable
<1>5. CASE Fuse
  <2>1. PICK order \in [1..Cardinality(Found) -> Found] :
          Elements(order) = Found /\ turn' = [turn EXCEPT !.phase = "rerank", !.fused = order]
    BY <1>5 DEF Fuse
  <2>2. order # <<>>
    BY <1>5, <2>1, EmptyRanking DEF Fuse
  <2>3. turn'.phase = "rerank" /\ turn'.fused = order
    BY <2>1 DEF TurnRecords
  <2> QED BY <2>2, <2>3 DEF Flow, OneSearchSuffices
<1>6. CASE NothingFound
  <2>1. turn.phase = "fuse" /\ Found = {} /\ turn'.phase = "answered" /\ turn'.ranker = turn.ranker
        /\ turn'.tried = turn.tried /\ turn'.message = turn.message
        /\ turn'.dense = turn.dense /\ turn'.fts = turn.fts
    BY <1>6 DEF NothingFound, TurnRecords
  <2> QED BY <2>1 DEF Flow, OneSearchSuffices, Applicable, Found
<1>7. CASE Rerank
  <2>1. turn'.phase = "filter" /\ turn'.ranker = "model"
    BY <1>7 DEF Rerank, Ranked
  <2> QED BY <2>1 DEF Flow, OneSearchSuffices
<1>8. CASE RerankFallback
  <2>1. PICK order \in Rankings(Elements(turn.fused), TopK) :
          Len(order) = Full(Elements(turn.fused), TopK) /\ turn' = Ranked(order, "local")
    BY <1>8 DEF RerankFallback
  <2>2. IsFiniteSet(Elements(turn.fused)) /\ Elements(turn.fused) # {}
    BY <1>8, TurnFields, ElementsAreFinite, NonEmptyElements DEF RerankFallback, Flow
  <2>3. Cardinality(Elements(turn.fused)) \in Nat /\ Cardinality(Elements(turn.fused)) # 0
    BY <2>2, FS_CardinalityType, FS_EmptySet
  <2>4. Len(order) # 0
    BY <2>1, <2>3 DEF Full
  <2>5. turn'.phase = "filter" /\ turn'.results # <<>>
    BY <2>1, <2>4 DEF Ranked
  <2> QED BY <2>5 DEF Flow, OneSearchSuffices
<1>9. CASE FilterResults
  <2> DEFINE kept == turn'.results
  <2>1. /\ turn.phase = "filter" /\ turn'.phase = "answered" /\ turn'.ranker = turn.ranker
        /\ Elements(kept) = {c \in Elements(turn.results) : MatchesScope(c, turn.allowed)}
    <3>1. PICK s \in ResultLists :
            /\ turn' = [turn EXCEPT !.phase = "answered", !.results = s]
            /\ Elements(s) = {c \in Elements(turn.results) : MatchesScope(c, turn.allowed)}
      BY <1>9, KeptResults
    <3>2. turn'.results = s /\ turn'.phase = "answered" /\ turn'.ranker = turn.ranker
      BY <3>1 DEF TurnRecords
    <3> QED BY <1>9, <3>1, <3>2 DEF FilterResults
  <2>2. ASSUME turn.results # <<>>  PROVE kept # <<>>
    <3>1. Elements(turn.results) \subseteq Reach /\ turn.allowed = Whitelist(turn.whitelist)
      BY <2>1 DEF Scoped
    <3>2. \A c \in Elements(turn.results) : MatchesScope(c, turn.allowed)
      BY <3>1 DEF Reach, MatchesScope, Whitelist
    <3>3. turn.results \in Seq(ChunkIds)
      BY TurnFields, UpToFacts DEF ResultLists
    <3>4. Elements(turn.results) # {}
      BY <2>2, <3>3, NonEmptyElements
    <3> QED BY <2>1, <3>2, <3>4, EmptyRanking
  <2> HIDE DEF kept
  <2>3. kept = <<>> => turn'.ranker = "model"
    BY <2>1, <2>2 DEF Flow
  <2> QED BY <2>1, <2>3 DEF Flow, OneSearchSuffices, kept
<1>10. CASE RecordSources \/ Abandon
  BY <1>10, IdleRecord DEF RecordSources, Abandon, Flow, OneSearchSuffices
<1> QED BY <1>1, <1>2, <1>3, <1>4, <1>5, <1>6, <1>7, <1>8, <1>9, <1>10 DEF TurnStep

\* A turn that needs material ends without sources only if every search that applies was tried and found none, or the
\* reranking model named no passage: no single failure costs the turn its material (hybrid_retriever.py:182).
THEOREM OneSearchIsEnough == Spec => []OneSearchSuffices
<1>1. Init => Flow
  BY IdleRecord DEF Init, RetrievalInit, Flow, OneSearchSuffices
<1>2. RetrievalTypeOK /\ Scoped /\ Flow /\ [Next]_knowledgeVars => Flow'
  <2> SUFFICES ASSUME RetrievalTypeOK, Scoped, Flow, [Next]_knowledgeVars  PROVE Flow'
    OBVIOUS
  <2>1. CASE Turns
    BY <2>1, FlowStep DEF Turns
  <2>2. CASE Ingest \/ Teachers \/ UNCHANGED knowledgeVars
    BY <2>2, OtherSteps DEF Flow, OneSearchSuffices, NeedsRetrieval, Found, Applicable
  <2> QED BY <2>1, <2>2 DEF Next
<1>3. Flow => OneSearchSuffices
  BY DEF Flow
<1> QED BY <1>1, <1>2, <1>3, ScopedAlways, PTL DEF Spec

-----------------------------------------------------------------------------
(* The fusion *)

\* two ranks up to twice the constant outweigh one rank
LEMMA TwoOutweighOne ==
  ASSUME NEW K \in Nat, NEW p \in 1..2 * K, NEW q \in 1..2 * K, NEW r \in Nat, r > K
  PROVE  (p + q) * r > p * q
<1>1. p * q <= (2 * K) * q
  OBVIOUS
<1>2. p * q <= p * (2 * K)
  OBVIOUS
<1>3. p * q <= K * (p + q)
  BY <1>1, <1>2
<1>4. (p + q) * r >= (p + q) * (K + 1)
  OBVIOUS
<1>5. (p + q) * (K + 1) > K * (p + q)
  OBVIOUS
<1>6. /\ p * q \in Int /\ K * (p + q) \in Int /\ (p + q) * r \in Int /\ (p + q) * (K + 1) \in Int
  OBVIOUS
<1> QED BY <1>3, <1>4, <1>5, <1>6

LEMMA BetterTwice ==
  ASSUME NEW p \in Nat \ {0}, NEW q \in Nat \ {0}, NEW u \in Nat, NEW v \in Nat, p < u, q < v
  PROVE  (p + q) * (u * v) > (u + v) * (p * q)
<1>1. (p + q) * (u * v) - (u + v) * (p * q) = (p * u) * (v - q) + (q * v) * (u - p)
  OBVIOUS
<1>2. (p * u) * (v - q) > 0 /\ (q * v) * (u - p) > 0
  OBVIOUS
<1>3. (p + q) * (u * v) \in Int /\ (u + v) * (p * q) \in Int /\ (p * u) * (v - q) \in Int /\ (q * v) * (u - p) \in Int
  OBVIOUS
<1> QED BY <1>1, <1>2, <1>3

LEMMA RanksInRange ==
  ASSUME NEW dense \in DenseLists, NEW fts \in FtsLists, NEW c
  PROVE  /\ c \in Elements(dense) => Rank(dense, c) \in 1..DenseK /\ RrfK + Rank(dense, c) \in 1..2 * RrfK
         /\ c \in Elements(fts) => Rank(fts, c) \in 1..FtsK /\ RrfK + Rank(fts, c) \in 1..2 * RrfK
<1>1. c \in Elements(dense) => Rank(dense, c) \in 1..DenseK
  BY RankOfElement DEF DenseLists
<1>2. c \in Elements(fts) => Rank(fts, c) \in 1..FtsK
  BY RankOfElement DEF FtsLists
<1> QED BY <1>1, <1>2

LEMMA ScoreParts ==
  ASSUME NEW dense \in DenseLists, NEW fts \in FtsLists, NEW c \in Elements(dense) \cup Elements(fts)
  PROVE  Score(c, dense, fts).num \in Nat /\ Score(c, dense, fts).den \in Nat
<1> DEFINE i == RrfK + Rank(dense, c)
           j == RrfK + Rank(fts, c)
<1>1. (c \in Elements(dense) => i \in Nat) /\ (c \in Elements(fts) => j \in Nat)
  BY RanksInRange
<1>2. Score(c, dense, fts) = IF c \notin Elements(fts) THEN [num |-> 1, den |-> i]
                             ELSE IF c \notin Elements(dense) THEN [num |-> 1, den |-> j]
                             ELSE [num |-> i + j, den |-> i * j]
  BY DEF Score
<1> HIDE DEF i, j
<1>3. c \in Elements(dense) /\ c \in Elements(fts) => i + j \in Nat /\ i * j \in Nat
  BY <1>1
<1> QED BY <1>1, <1>2, <1>3

LEMMA NotBehind ==
  ASSUME NEW dense \in DenseLists, NEW fts \in FtsLists,
         NEW c \in Elements(dense) \cup Elements(fts), NEW d \in Elements(dense) \cup Elements(fts),
         Above(Score(d, dense, fts), Score(c, dense, fts))
  PROVE  ~ Precedes(c, d, dense, fts)
<1> DEFINE x == Score(c, dense, fts)
           y == Score(d, dense, fts)
<1>1. x.num \in Nat /\ x.den \in Nat /\ y.num \in Nat /\ y.den \in Nat
  BY ScoreParts
<1>2. y.num * x.den > x.num * y.den
  BY DEF Above
<1>3. Precedes(c, d, dense, fts) => Above(x, y)
  BY DEF Precedes
<1> HIDE DEF x, y
<1>4. Above(x, y) => x.num * y.den > y.num * x.den
  BY DEF Above
<1>5. x.num * y.den \in Int /\ y.num * x.den \in Int
  BY <1>1
<1> QED BY <1>2, <1>3, <1>4, <1>5

LEMMA BothAboveOne ==
  ASSUME NEW dense \in DenseLists, NEW fts \in FtsLists,
         NEW c \in Elements(dense) \cup Elements(fts), c \notin Elements(dense) \cap Elements(fts),
         NEW d \in Elements(dense) \cap Elements(fts)
  PROVE  Above(Score(d, dense, fts), Score(c, dense, fts))
<1> DEFINE p == RrfK + Rank(dense, d)
           q == RrfK + Rank(fts, d)
<1>1. p \in 1..2 * RrfK /\ q \in 1..2 * RrfK
  BY RanksInRange
<1>2. Score(d, dense, fts) = [num |-> p + q, den |-> p * q]
  BY DEF Score
<1>3. PICK r \in Nat : r > RrfK /\ Score(c, dense, fts) = [num |-> 1, den |-> r]
  <2>1. CASE c \notin Elements(fts)
    BY <2>1, RanksInRange DEF Score
  <2>2. CASE c \notin Elements(dense)
    BY <2>2, RanksInRange DEF Score
  <2> QED BY <2>1, <2>2
<1> HIDE DEF p, q
<1>4. (p + q) * r > p * q
  BY <1>1, <1>3, TwoOutweighOne
<1>5. p * q \in Int
  BY <1>1
<1> QED BY <1>2, <1>3, <1>4, <1>5 DEF Above

LEMMA BothBetterAbove ==
  ASSUME NEW dense \in DenseLists, NEW fts \in FtsLists,
         NEW c \in Elements(dense) \cap Elements(fts), NEW d \in Elements(dense) \cap Elements(fts),
         Rank(dense, c) < Rank(dense, d), Rank(fts, c) < Rank(fts, d)
  PROVE  Above(Score(c, dense, fts), Score(d, dense, fts))
<1> DEFINE p == RrfK + Rank(dense, c)
           q == RrfK + Rank(fts, c)
           u == RrfK + Rank(dense, d)
           v == RrfK + Rank(fts, d)
<1>1. p \in Nat \ {0} /\ q \in Nat \ {0} /\ u \in Nat /\ v \in Nat /\ p < u /\ q < v
  BY RanksInRange
<1>2. /\ Score(c, dense, fts) = [num |-> p + q, den |-> p * q]
      /\ Score(d, dense, fts) = [num |-> u + v, den |-> u * v]
  BY DEF Score
<1> HIDE DEF p, q, u, v
<1> QED BY <1>1, <1>2, BetterTwice DEF Above

LEMMA FusionStep ==
  ASSUME RetrievalTypeOK, Fuse
  PROVE  FusionAgrees'
<1>1. turn \in TurnRecords /\ turn.dense \in DenseLists /\ turn.fts \in FtsLists
  BY TurnFields DEF RetrievalTypeOK
<1> DEFINE dense == turn.dense
           fts == turn.fts
<1>2. PICK order \in [1..Cardinality(Found) -> Found] :
        /\ Elements(order) = Found
        /\ \A i, j \in DOMAIN order : i < j => Precedes(order[i], order[j], dense, fts)
        /\ turn' = [turn EXCEPT !.phase = "rerank", !.fused = order]
  BY DEF Fuse
<1>3. turn'.fused = order /\ turn'.dense = dense /\ turn'.fts = fts
  BY <1>1, <1>2 DEF TurnRecords
<1>4. Found' = Found /\ Found = Elements(dense) \cup Elements(fts)
  BY <1>3 DEF Found
<1>5. ASSUME NEW i \in DOMAIN order, NEW j \in DOMAIN order, i < j
      PROVE  /\ InBoth(order[j])' => InBoth(order[i])'
             /\ ~ Dominates(order[j], order[i])'
  <2> DEFINE c == order[i]
             d == order[j]
  <2>1. Precedes(c, d, dense, fts) /\ c \in Found /\ d \in Found
    BY <1>2, <1>5
  <2>2. InBoth(d)' => InBoth(c)'
    <3> SUFFICES ASSUME InBoth(d)', ~ InBoth(c)'  PROVE FALSE
      OBVIOUS
    <3>1. d \in Elements(dense) \cap Elements(fts) /\ c \notin Elements(dense) \cap Elements(fts)
      BY <1>3 DEF InBoth
    <3>2. Above(Score(d, dense, fts), Score(c, dense, fts))
      BY <1>1, <1>4, <2>1, <3>1, BothAboveOne
    <3> QED BY <1>1, <1>4, <2>1, <3>2, NotBehind
  <2>3. ~ Dominates(d, c)'
    <3> SUFFICES ASSUME Dominates(d, c)'  PROVE FALSE
      OBVIOUS
    <3>1. RankOr(dense, d) < RankOr(dense, c) /\ RankOr(fts, d) < RankOr(fts, c)
      BY <1>3 DEF Dominates
    <3>2. d \in Elements(dense) \cap Elements(fts)
      <4>1. \A s \in {dense, fts} : d \notin Elements(s) => RankOr(s, c) <= RankOr(s, d)
        <5>1. dense \in Seq(ChunkIds) /\ fts \in Seq(ChunkIds)
          BY <1>1, RankingFacts DEF DenseLists, FtsLists
        <5>2. /\ c \in Elements(dense) => Rank(dense, c) \in 1..Len(dense)
              /\ c \in Elements(fts) => Rank(fts, c) \in 1..Len(fts)
          BY <1>1, <5>1, RankOfElement DEF DenseLists, FtsLists
        <5> QED BY <5>1, <5>2 DEF RankOr
      <4>2. \A s \in {dense, fts} : RankOr(s, c) \in Int /\ RankOr(s, d) \in Int
        <5>1. Len(dense) \in Nat /\ Len(fts) \in Nat
          BY <1>1, RankingFacts DEF DenseLists, FtsLists
        <5> QED BY <1>1, <5>1, RanksInRange DEF RankOr
      <4> HIDE DEF dense, fts, c, d
      <4> QED BY <3>1, <4>1, <4>2
    <3>3. CASE c \in Elements(dense) \cap Elements(fts)
      <4>1. Rank(dense, d) < Rank(dense, c) /\ Rank(fts, d) < Rank(fts, c)
        BY <3>1, <3>2, <3>3 DEF RankOr
      <4>2. Above(Score(d, dense, fts), Score(c, dense, fts))
        BY <1>1, <3>2, <3>3, <4>1, BothBetterAbove
      <4> QED BY <1>1, <1>4, <2>1, <4>2, NotBehind
    <3>4. CASE c \notin Elements(dense) \cap Elements(fts)
      <4>1. Above(Score(d, dense, fts), Score(c, dense, fts))
        BY <1>1, <1>4, <2>1, <3>2, <3>4, BothAboveOne
      <4> QED BY <1>1, <1>4, <2>1, <4>1, NotBehind
    <3> QED BY <3>3, <3>4
  <2> QED BY <2>2, <2>3
<1> QED BY <1>2, <1>3, <1>4, <1>5 DEF FusionAgrees

\* For any limits up to the constant of the fusion: what both searches found comes before what one of them found, and
\* nothing is placed behind a chunk that is behind it in both (hybrid_retriever.py:27; 20, 20 and 60 by default).
THEOREM FusionAlwaysAgrees == Spec => []FusionAgrees
<1>1. Init => FusionAgrees
  BY IdleRecord DEF Init, RetrievalInit, FusionAgrees
<1>2. RetrievalTypeOK /\ FusionAgrees /\ [Next]_knowledgeVars => FusionAgrees'
  <2> SUFFICES ASSUME RetrievalTypeOK, FusionAgrees, [Next]_knowledgeVars  PROVE FusionAgrees'
    OBVIOUS
  <2>1. CASE Fuse
    BY <2>1, FusionStep
  <2>2. CASE Turns /\ ~ Fuse
    <3>0. turn \in TurnRecords
      BY DEF RetrievalTypeOK
    <3>1. turn'.phase # "rerank"
      <4>1. CASE (\E m \in Messages : ReadWhitelist(m)) \/ RecordSources \/ Abandon
        BY <4>1, IdleRecord DEF ReadWhitelist, Idle, RecordSources, Abandon
      <4>2. CASE Understand \/ NothingFound \/ FilterResults
        BY <3>0, <4>2 DEF Understand, NothingFound, FilterResults, TurnRecords
      <4>3. CASE SearchDense \/ DenseFails
        BY <3>0, <4>3 DEF SearchDense, DenseFails, TurnRecords
      <4>4. CASE SearchFts \/ SkipFts
        BY <3>0, <4>4 DEF SearchFts, SkipFts, TurnRecords
      <4>5. CASE Rerank \/ RerankFallback
        <5>1. \E order, ranker : turn' = Ranked(order, ranker)
          BY <4>5, Zenon DEF Rerank, RerankFallback
        <5>2. turn'.phase = "filter"
          BY <5>1 DEF Ranked
        <5> QED BY <5>2
      <4> QED BY <2>2, <4>1, <4>2, <4>3, <4>4, <4>5 DEF Turns, TurnStep
    <3> QED BY <3>1 DEF FusionAgrees
  <2>3. CASE Ingest \/ Teachers \/ UNCHANGED knowledgeVars
    BY <2>3, OtherSteps DEF FusionAgrees, Found, InBoth, Dominates
  <2> QED BY <2>1, <2>2, <2>3 DEF Next
<1> QED BY <1>1, <1>2, TypeInit, TypeStep, PTL DEF Spec
=============================================================================
