--------------------------- MODULE ChunkingProofs ---------------------------
(***************************************************************************)
(* Proofs about Chunking, for any pages and any limits: what the cleaner   *)
(* keeps of a document, and how the chunker covers what it gets.  The      *)
(* folds are unrolled by Folding, one instance for each; then a statement  *)
(* about every document is an induction over its lines or its blocks.      *)
(***************************************************************************)
EXTENDS Chunking, SequenceTheorems, FiniteSetTheorems, TLAPS

-----------------------------------------------------------------------------
(* The folds, step by step *)

(* The steps of the folds of Chunking, as operators of their own *)
AddWord(none, sum, w) == sum + Letters(w) + 1
AddWords(none, sum, l) == sum + Len(l.text)
AddWidth(none, sum, l) == sum + Width(l)
AddCost(none, sum, l) == sum + Tokens(<<l>>) + 1
AddTokens(none, sum, b) == sum + Tokens(b.lines)
KeepLine(recurring, acc, l) ==
  IF l.kind = "fence" THEN [code |-> ~ acc.code, out |-> Append(acc.out, l)]
  ELSE IF acc.code \/ (l \notin recurring /\ l.kind # "number")
       THEN [acc EXCEPT !.out = Append(@, l)] ELSE acc
JoinedWith(x, l) == [x EXCEPT !.text = @ \o Tail(l.text), !.wrap = l.wrap /\ Len(l.text) > 1]
UnwrapLine(none, out, l) ==
  IF out # <<>> /\ Last(out).wrap /\ l.kind \in {"text", "number"}
  THEN Append(Front(out), JoinedWith(Last(out), l))
  ELSE Append(out, l)
SqueezeLine(none, out, l) ==
  IF IsBlank(l) /\ (out = <<>> \/ IsBlank(Last(out))) THEN out ELSE Append(out, l)
AddLineOf(page, acc, l) == AddLine(acc, l, page)
AddLines(acc, p) == FoldLeft(LAMBDA a, l : AddLine(a, l, p.page), [acc EXCEPT !.open = "none"], p.lines)
AddPage(none, acc, p) == AddLines(acc, p)
AddBody(none, out, b) == IF b.level = 0 THEN Append(out, b) ELSE out
Cost(lines) == FoldLeft(LAMBDA sum, l : sum + Tokens(<<l>>) + 1, 0, lines)
CutLine(none, parts, l) ==
  IF Cost(Append(Last(parts), l)) > MaxTokens /\ Last(parts) # <<>>
  THEN Append(parts, <<l>>) ELSE Append(Front(parts), Append(Last(parts), l))
GatherBlock(none, acc, b) == AddBlock(acc, b)

Spelling == INSTANCE Folding WITH Op <- AddWord
Counting == INSTANCE Folding WITH Op <- AddWords
Measuring == INSTANCE Folding WITH Op <- AddWidth
Charging == INSTANCE Folding WITH Op <- AddCost
Adding == INSTANCE Folding WITH Op <- AddTokens
Keeping == INSTANCE Folding WITH Op <- KeepLine
Unwrapping == INSTANCE Folding WITH Op <- UnwrapLine
Squeezing == INSTANCE Folding WITH Op <- SqueezeLine
Lining == INSTANCE Folding WITH Op <- AddLineOf
Paging == INSTANCE Folding WITH Op <- AddPage
Choosing == INSTANCE Folding WITH Op <- AddBody
Cutting == INSTANCE Folding WITH Op <- CutLine
Gathering == INSTANCE Folding WITH Op <- GatherBlock

\* a set that holds the empty sequence, and with a sequence every sequence one element longer, holds every
\* sequence
LEMMA SeqInduction ==
  ASSUME NEW S, NEW T, <<>> \in T, \A s \in Seq(S), e \in S : s \in T => Append(s, e) \in T
  PROVE  Seq(S) \subseteq T
<1> SUFFICES ASSUME NEW s \in Seq(S)  PROVE s \in T
  OBVIOUS
<1>0. PICK n \in Nat : n = Len(s)
  OBVIOUS
<1> DEFINE Good == {k \in 0..n : SubSeq(s, 1, k) \in T}
<1>1. 0 \in Good
  <2>1. SubSeq(s, 1, 0) = <<>>
    BY SubSeqEmpty
  <2>2. SubSeq(s, 1, 0) \in T
    BY <2>1, Zenon
  <2>3. 0 \in 0..n
    OBVIOUS
  <2> QED BY <2>2, <2>3
<1>2. ASSUME NEW k \in 0..n, k \in Good, k < n  PROVE k + 1 \in Good
  <2>1. SubSeq(s, 1, k) \in Seq(S) /\ s[k + 1] \in S
    BY <1>0, <1>2
  <2>2. SubSeq(s, 1, k + 1) = Append(SubSeq(s, 1, k), s[k + 1])
    <3>1. k + 1 \in 1..Len(s) /\ (k + 1) - 1 = k
      BY <1>0, <1>2
    <3>2. SubSeq(s, 1, k + 1) = SubSeq(s, 1, k) \o <<s[k + 1]>>
      BY <1>2, <3>1, SubSeqRecursiveSecond
    <3> QED BY <2>1, <3>2, AppendIsConcat
  <2>3. SubSeq(s, 1, k + 1) \in T
    BY <1>2, <2>1, <2>2
  <2>4. k + 1 \in 0..n
    BY <1>2
  <2> QED BY <2>3, <2>4
<1>3. n \in Good
  <2>1. n \in 0..n
    OBVIOUS
  <2> HIDE DEF Good
  <2> QED BY <1>1, <1>2, <2>1, Counting!UpTo
<1> QED BY <1>0, <1>3, SubSeqFull

Spelled(text) == FoldLeft(LAMBDA sum, w : sum + Letters(w) + 1, 0, text)
Squeezed(lines) == FoldLeft(LAMBDA out, l : IF IsBlank(l) /\ (out = <<>> \/ IsBlank(Last(out)))
                                           THEN out ELSE Append(out, l), <<>>, lines)
KeptState(lines, recurring) == FoldLeft(LAMBDA acc, l : KeepLine(recurring, acc, l), [code |-> FALSE, out |-> <<>>], lines)
Body(blocks) == FoldLeft(LAMBDA out, b : IF b.level = 0 THEN Append(out, b) ELSE out, <<>>, blocks)
Gathered(blocks) == FoldLeft(AddBlock, [chunks |-> <<>>, buf |-> <<>>], blocks)
CutLines(lines) == FoldLeft(LAMBDA parts, l : CutLine({}, parts, l), << <<>> >>, lines)
PageState(pages) == FoldLeft(AddLines, [blocks |-> <<>>, section |-> <<>>, open |-> "none"], pages)
LineState(base, page, lines) == FoldLeft(LAMBDA a, l : AddLine(a, l, page), base, lines)

\* the letters of a text and the spaces after its words, word by word
LEMMA LettersFold ==
  ASSUME NEW S
  PROVE  /\ Spelled(<<>>) = 0
         /\ \A s \in Seq(S), w \in S : Spelled(Append(s, w)) = Spelled(s) + Letters(w) + 1
<1>1. ASSUME NEW s \in Seq(S)  PROVE Spelled(s) = Spelling!Fold({}, s, 0)
  <2>1. DOMAIN s = 1..Len(s)
    OBVIOUS
  <2> QED BY <2>1 DEF Spelled, AddWord, Spelling!Fold, Spelling!Iterates, FoldLeft, MapThenFoldSet, Spelling!Max, Max
<1>2. Spelled(<<>>) = 0
  <2>1. Spelled(<<>>) = Spelling!Fold({}, <<>>, 0)
    BY <1>1, EmptySeq
  <2> QED BY <2>1, Spelling!FoldNone
<1>3. ASSUME NEW s \in Seq(S), NEW w \in S  PROVE Spelled(Append(s, w)) = Spelled(s) + Letters(w) + 1
  <2>1. Append(s, w) \in Seq(S)
    OBVIOUS
  <2>2. Spelling!Fold({}, Append(s, w), 0) = AddWord({}, Spelling!Fold({}, s, 0), w)
    BY Spelling!FoldAppend
  <2> QED BY <1>1, <2>1, <2>2 DEF AddWord
<1> QED BY <1>2, <1>3

\* the words of lines, line by line
LEMMA WordsFold ==
  ASSUME NEW S
  PROVE  /\ Words(<<>>) = 0
         /\ \A s \in Seq(S), l \in S : Words(Append(s, l)) = Words(s) + Len(l.text)
<1>1. ASSUME NEW s \in Seq(S)  PROVE Words(s) = Counting!Fold({}, s, 0)
  <2>1. DOMAIN s = 1..Len(s)
    OBVIOUS
  <2> QED BY <2>1 DEF Words, AddWords, Counting!Fold, Counting!Iterates, FoldLeft, MapThenFoldSet, Counting!Max, Max
<1>2. Words(<<>>) = 0
  <2>1. Words(<<>>) = Counting!Fold({}, <<>>, 0)
    BY <1>1, EmptySeq
  <2> QED BY <2>1, Counting!FoldNone
<1>3. ASSUME NEW s \in Seq(S), NEW l \in S  PROVE Words(Append(s, l)) = Words(s) + Len(l.text)
  <2>1. Append(s, l) \in Seq(S)
    OBVIOUS
  <2>2. Counting!Fold({}, Append(s, l), 0) = AddWords({}, Counting!Fold({}, s, 0), l)
    BY Counting!FoldAppend
  <2> QED BY <1>1, <2>1, <2>2 DEF AddWords
<1> QED BY <1>2, <1>3

\* the characters of lines, line by line
LEMMA CharactersFold ==
  ASSUME NEW S
  PROVE  /\ Characters(<<>>) = 0
         /\ \A s \in Seq(S), l \in S : Characters(Append(s, l)) = Characters(s) + Width(l)
<1>1. ASSUME NEW s \in Seq(S)  PROVE Characters(s) = Measuring!Fold({}, s, 0)
  <2>1. DOMAIN s = 1..Len(s)
    OBVIOUS
  <2> QED BY <2>1 DEF Characters, AddWidth, Measuring!Fold, Measuring!Iterates, FoldLeft, MapThenFoldSet, Measuring!Max, Max
<1>2. Characters(<<>>) = 0
  <2>1. Characters(<<>>) = Measuring!Fold({}, <<>>, 0)
    BY <1>1, EmptySeq
  <2> QED BY <2>1, Measuring!FoldNone
<1>3. ASSUME NEW s \in Seq(S), NEW l \in S  PROVE Characters(Append(s, l)) = Characters(s) + Width(l)
  <2>1. Append(s, l) \in Seq(S)
    OBVIOUS
  <2>2. Measuring!Fold({}, Append(s, l), 0) = AddWidth({}, Measuring!Fold({}, s, 0), l)
    BY Measuring!FoldAppend
  <2> QED BY <1>1, <2>1, <2>2 DEF AddWidth
<1> QED BY <1>2, <1>3

\* what the cut counts of lines, line by line
LEMMA CostFold ==
  ASSUME NEW S
  PROVE  /\ Cost(<<>>) = 0
         /\ \A s \in Seq(S), l \in S : Cost(Append(s, l)) = Cost(s) + Tokens(<<l>>) + 1
<1>1. ASSUME NEW s \in Seq(S)  PROVE Cost(s) = Charging!Fold({}, s, 0)
  <2>1. DOMAIN s = 1..Len(s)
    OBVIOUS
  <2> QED BY <2>1 DEF Cost, AddCost, Charging!Fold, Charging!Iterates, FoldLeft, MapThenFoldSet, Charging!Max, Max
<1>2. Cost(<<>>) = 0
  <2>1. Cost(<<>>) = Charging!Fold({}, <<>>, 0)
    BY <1>1, EmptySeq
  <2> QED BY <2>1, Charging!FoldNone
<1>3. ASSUME NEW s \in Seq(S), NEW l \in S  PROVE Cost(Append(s, l)) = Cost(s) + Tokens(<<l>>) + 1
  <2>1. Append(s, l) \in Seq(S)
    OBVIOUS
  <2>2. Charging!Fold({}, Append(s, l), 0) = AddCost({}, Charging!Fold({}, s, 0), l)
    BY Charging!FoldAppend
  <2> QED BY <1>1, <2>1, <2>2 DEF AddCost
<1> QED BY <1>2, <1>3

\* what the chunker counts of blocks, block by block
LEMMA TotalFold ==
  ASSUME NEW S
  PROVE  /\ Total(<<>>) = 0
         /\ \A s \in Seq(S), b \in S : Total(Append(s, b)) = Total(s) + Tokens(b.lines)
<1>1. ASSUME NEW s \in Seq(S)  PROVE Total(s) = Adding!Fold({}, s, 0)
  <2>1. DOMAIN s = 1..Len(s)
    OBVIOUS
  <2> QED BY <2>1 DEF Total, AddTokens, Adding!Fold, Adding!Iterates, FoldLeft, MapThenFoldSet, Adding!Max, Max
<1>2. Total(<<>>) = 0
  <2>1. Total(<<>>) = Adding!Fold({}, <<>>, 0)
    BY <1>1, EmptySeq
  <2> QED BY <2>1, Adding!FoldNone
<1>3. ASSUME NEW s \in Seq(S), NEW b \in S  PROVE Total(Append(s, b)) = Total(s) + Tokens(b.lines)
  <2>1. Append(s, b) \in Seq(S)
    OBVIOUS
  <2>2. Adding!Fold({}, Append(s, b), 0) = AddTokens({}, Adding!Fold({}, s, 0), b)
    BY Adding!FoldAppend
  <2> QED BY <1>1, <2>1, <2>2 DEF AddTokens
<1> QED BY <1>2, <1>3

\* the chunks and the buffer, block by block
LEMMA GatheredFold ==
  ASSUME NEW S
  PROVE  /\ Gathered(<<>>) = [chunks |-> <<>>, buf |-> <<>>]
         /\ \A s \in Seq(S), b \in S : Gathered(Append(s, b)) = AddBlock(Gathered(s), b)
<1> DEFINE base == [chunks |-> <<>>, buf |-> <<>>]
<1>1. ASSUME NEW s \in Seq(S)  PROVE Gathered(s) = Gathering!Fold({}, s, base)
  <2>1. DOMAIN s = 1..Len(s)
    OBVIOUS
  <2> QED BY <2>1 DEF Gathered, GatherBlock, Gathering!Fold, Gathering!Iterates, FoldLeft, MapThenFoldSet, Gathering!Max, Max
<1>2. Gathered(<<>>) = base
  <2>1. Gathered(<<>>) = Gathering!Fold({}, <<>>, base)
    BY <1>1, EmptySeq
  <2> QED BY <2>1, Gathering!FoldNone
<1>3. ASSUME NEW s \in Seq(S), NEW b \in S  PROVE Gathered(Append(s, b)) = AddBlock(Gathered(s), b)
  <2>1. Append(s, b) \in Seq(S)
    OBVIOUS
  <2>2. Gathering!Fold({}, Append(s, b), base) = GatherBlock({}, Gathering!Fold({}, s, base), b)
    BY Gathering!FoldAppend
  <2> QED BY <1>1, <2>1, <2>2 DEF GatherBlock
<1> QED BY <1>2, <1>3

\* what is kept of a page, line by line
LEMMA KeptFold ==
  ASSUME NEW S, NEW recurring
  PROVE  /\ KeptState(<<>>, recurring) = [code |-> FALSE, out |-> <<>>]
         /\ \A s \in Seq(S), l \in S : KeptState(Append(s, l), recurring) = KeepLine(recurring, KeptState(s, recurring), l)
         /\ \A s : Kept(s, recurring) = KeptState(s, recurring).out
<1> DEFINE base == [code |-> FALSE, out |-> <<>>]
<1>1. ASSUME NEW s \in Seq(S)  PROVE KeptState(s, recurring) = Keeping!Fold(recurring, s, base)
  <2>1. DOMAIN s = 1..Len(s)
    OBVIOUS
  <2> QED BY <2>1 DEF KeptState, KeepLine, Keeping!Fold, Keeping!Iterates, FoldLeft, MapThenFoldSet, Keeping!Max, Max
<1>2. KeptState(<<>>, recurring) = base
  <2>1. KeptState(<<>>, recurring) = Keeping!Fold(recurring, <<>>, base)
    BY <1>1, EmptySeq
  <2> QED BY <2>1, Keeping!FoldNone
<1>3. ASSUME NEW s \in Seq(S), NEW l \in S  PROVE KeptState(Append(s, l), recurring) = KeepLine(recurring, KeptState(s, recurring), l)
  <2>1. Append(s, l) \in Seq(S)
    OBVIOUS
  <2>2. Keeping!Fold(recurring, Append(s, l), base) = KeepLine(recurring, Keeping!Fold(recurring, s, base), l)
    BY Keeping!FoldAppend
  <2> QED BY <1>1, <2>1, <2>2
<1>4. \A s : Kept(s, recurring) = KeptState(s, recurring).out
  BY DEF Kept, KeptState, KeepLine, FoldLeft, MapThenFoldSet
<1> QED BY <1>2, <1>3, <1>4

\* joining broken words, line by line
LEMMA UnwrappedFold ==
  ASSUME NEW S
  PROVE  /\ Unwrapped(<<>>) = <<>>
         /\ \A s \in Seq(S), l \in S : Unwrapped(Append(s, l)) = UnwrapLine({}, Unwrapped(s), l)
<1> DEFINE base == <<>>
<1>1. ASSUME NEW s \in Seq(S)  PROVE Unwrapped(s) = Unwrapping!Fold({}, s, base)
  <2>1. DOMAIN s = 1..Len(s)
    OBVIOUS
  <2> QED BY <2>1 DEF Unwrapped, UnwrapLine, JoinedWith, Unwrapping!Fold, Unwrapping!Iterates, FoldLeft, MapThenFoldSet, Unwrapping!Max, Max
<1>2. Unwrapped(<<>>) = base
  <2>1. Unwrapped(<<>>) = Unwrapping!Fold({}, <<>>, base)
    BY <1>1, EmptySeq
  <2> QED BY <2>1, Unwrapping!FoldNone
<1>3. ASSUME NEW s \in Seq(S), NEW l \in S  PROVE Unwrapped(Append(s, l)) = UnwrapLine({}, Unwrapped(s), l)
  <2>1. Append(s, l) \in Seq(S)
    OBVIOUS
  <2>2. Unwrapping!Fold({}, Append(s, l), base) = UnwrapLine({}, Unwrapping!Fold({}, s, base), l)
    BY Unwrapping!FoldAppend
  <2> QED BY <1>1, <2>1, <2>2
<1> QED BY <1>2, <1>3

\* dropping blank lines, line by line
LEMMA SqueezedFold ==
  ASSUME NEW S
  PROVE  /\ Squeezed(<<>>) = <<>>
         /\ \A s \in Seq(S), l \in S : Squeezed(Append(s, l)) = SqueezeLine({}, Squeezed(s), l)
<1> DEFINE base == <<>>
<1>1. ASSUME NEW s \in Seq(S)  PROVE Squeezed(s) = Squeezing!Fold({}, s, base)
  <2>1. DOMAIN s = 1..Len(s)
    OBVIOUS
  <2> QED BY <2>1 DEF Squeezed, SqueezeLine, Squeezing!Fold, Squeezing!Iterates, FoldLeft, MapThenFoldSet, Squeezing!Max, Max
<1>2. Squeezed(<<>>) = base
  <2>1. Squeezed(<<>>) = Squeezing!Fold({}, <<>>, base)
    BY <1>1, EmptySeq
  <2> QED BY <2>1, Squeezing!FoldNone
<1>3. ASSUME NEW s \in Seq(S), NEW l \in S  PROVE Squeezed(Append(s, l)) = SqueezeLine({}, Squeezed(s), l)
  <2>1. Append(s, l) \in Seq(S)
    OBVIOUS
  <2>2. Squeezing!Fold({}, Append(s, l), base) = SqueezeLine({}, Squeezing!Fold({}, s, base), l)
    BY Squeezing!FoldAppend
  <2> QED BY <1>1, <2>1, <2>2
<1> QED BY <1>2, <1>3

\* the blocks without the headings, block by block
LEMMA BodyFold ==
  ASSUME NEW S
  PROVE  /\ Body(<<>>) = <<>>
         /\ \A s \in Seq(S), b \in S : Body(Append(s, b)) = AddBody({}, Body(s), b)
<1> DEFINE base == <<>>
<1>1. ASSUME NEW s \in Seq(S)  PROVE Body(s) = Choosing!Fold({}, s, base)
  <2>1. DOMAIN s = 1..Len(s)
    OBVIOUS
  <2> QED BY <2>1 DEF Body, AddBody, Choosing!Fold, Choosing!Iterates, FoldLeft, MapThenFoldSet, Choosing!Max, Max
<1>2. Body(<<>>) = base
  <2>1. Body(<<>>) = Choosing!Fold({}, <<>>, base)
    BY <1>1, EmptySeq
  <2> QED BY <2>1, Choosing!FoldNone
<1>3. ASSUME NEW s \in Seq(S), NEW b \in S  PROVE Body(Append(s, b)) = AddBody({}, Body(s), b)
  <2>1. Append(s, b) \in Seq(S)
    OBVIOUS
  <2>2. Choosing!Fold({}, Append(s, b), base) = AddBody({}, Choosing!Fold({}, s, base), b)
    BY Choosing!FoldAppend
  <2> QED BY <1>1, <2>1, <2>2
<1> QED BY <1>2, <1>3

\* the parts of a block too large, line by line
LEMMA CutsFold ==
  ASSUME NEW S
  PROVE  /\ CutLines(<<>>) = << <<>> >>
         /\ \A s \in Seq(S), l \in S : CutLines(Append(s, l)) = CutLine({}, CutLines(s), l)
<1> DEFINE base == << <<>> >>
<1>1. ASSUME NEW s \in Seq(S)  PROVE CutLines(s) = Cutting!Fold({}, s, base)
  <2>1. DOMAIN s = 1..Len(s)
    OBVIOUS
  <2> QED BY <2>1 DEF CutLines, CutLine, Cutting!Fold, Cutting!Iterates, FoldLeft, MapThenFoldSet, Cutting!Max, Max
<1>2. CutLines(<<>>) = base
  <2>1. CutLines(<<>>) = Cutting!Fold({}, <<>>, base)
    BY <1>1, EmptySeq
  <2> QED BY <2>1, Cutting!FoldNone
<1>3. ASSUME NEW s \in Seq(S), NEW l \in S  PROVE CutLines(Append(s, l)) = CutLine({}, CutLines(s), l)
  <2>1. Append(s, l) \in Seq(S)
    OBVIOUS
  <2>2. Cutting!Fold({}, Append(s, l), base) = CutLine({}, Cutting!Fold({}, s, base), l)
    BY Cutting!FoldAppend
  <2> QED BY <1>1, <2>1, <2>2
<1> QED BY <1>2, <1>3

\* the blocks of a document, page by page
LEMMA PagesFold ==
  ASSUME NEW S
  PROVE  /\ PageState(<<>>) = [blocks |-> <<>>, section |-> <<>>, open |-> "none"]
         /\ \A s \in Seq(S), p \in S : PageState(Append(s, p)) = AddLines(PageState(s), p)
<1> DEFINE base == [blocks |-> <<>>, section |-> <<>>, open |-> "none"]
<1>1. ASSUME NEW s \in Seq(S)  PROVE PageState(s) = Paging!Fold({}, s, base)
  <2>1. DOMAIN s = 1..Len(s)
    OBVIOUS
  <2> QED BY <2>1 DEF PageState, AddPage, AddLines, Paging!Fold, Paging!Iterates, FoldLeft, MapThenFoldSet, Paging!Max, Max
<1>2. PageState(<<>>) = base
  <2>1. PageState(<<>>) = Paging!Fold({}, <<>>, base)
    BY <1>1, EmptySeq
  <2> QED BY <2>1, Paging!FoldNone
<1>3. ASSUME NEW s \in Seq(S), NEW p \in S  PROVE PageState(Append(s, p)) = AddLines(PageState(s), p)
  <2>1. Append(s, p) \in Seq(S)
    OBVIOUS
  <2>2. Paging!Fold({}, Append(s, p), base) = AddLines(Paging!Fold({}, s, base), p)
    BY Paging!FoldAppend DEF AddPage
  <2> QED BY <1>1, <2>1, <2>2
<1> QED BY <1>2, <1>3

\* the blocks of a page are a fold
LEMMA LinesFolded ==
  ASSUME NEW S, NEW start, NEW page, NEW u \in Seq(S)
  PROVE  LineState(start, page, u) = Lining!Fold(page, u, start)
<1>1. DOMAIN u = 1..Len(u)
  OBVIOUS
<1> QED BY <1>1 DEF LineState, AddLineOf, Lining!Fold, Lining!Iterates, FoldLeft, MapThenFoldSet, Lining!Max, Max

\* a page without lines adds no block
LEMMA NoLinesFold ==
  ASSUME NEW start, NEW page
  PROVE  LineState(start, page, <<>>) = start
<1>1. LineState(start, page, <<>>) = Lining!Fold(page, <<>>, start)
  BY LinesFolded, EmptySeq
<1> QED BY <1>1, Lining!FoldNone

\* the blocks of a page, line by line
LEMMA LinesFold ==
  ASSUME NEW S, NEW start, NEW page, NEW s \in Seq(S), NEW l \in S
  PROVE  LineState(start, page, Append(s, l)) = AddLine(LineState(start, page, s), l, page)
<1>1. Append(s, l) \in Seq(S)
  OBVIOUS
<1>2. Lining!Fold(page, Append(s, l), start) = AddLine(Lining!Fold(page, s, start), l, page)
  BY Lining!FoldAppend DEF AddLineOf
<1> QED BY <1>1, <1>2, LinesFolded

-----------------------------------------------------------------------------
(* Flattening *)

Flattens(f, n, s) == f = [i \in 1..n |-> IF i = 1 THEN s[i] ELSE f[i - 1] \o s[i]]

\* the function that FlattenSeq chooses exists
LEMMA FlatteningExists ==
  ASSUME NEW n \in Nat, NEW s
  PROVE  \E f : Flattens(f, n, s)
<1> DEFINE Done == {k \in 0..n : \E f : Flattens(f, k, s)}
<1>1. 0 \in Done
  <2>1. 1..0 = {}
    OBVIOUS
  <2>2. Flattens([i \in {} |-> {}], 0, s)
    BY <2>1 DEF Flattens
  <2> QED BY <2>2
<1>2. ASSUME NEW k \in 0..n, k \in Done, k < n  PROVE k + 1 \in Done
  <2>1. PICK f : Flattens(f, k, s)
    BY <1>2
  <2> DEFINE Step(i) == IF i = 1 THEN s[i] ELSE f[i - 1] \o s[i]
             g == [i \in 1..k + 1 |-> Step(i)]
  <2>2. \A i \in 1..k : f[i] = Step(i)
    BY <2>1 DEF Flattens
  <2>3. \A i \in 1..k + 1 : i # 1 => i - 1 \in 1..k
    BY <1>2
  <2>4. \A i \in 1..k : g[i] = f[i]
    BY <2>2
  <2>5. \A i \in 1..k + 1 : g[i] = IF i = 1 THEN s[i] ELSE g[i - 1] \o s[i]
    BY <2>3, <2>4
  <2>6. g = [i \in 1..k + 1 |-> g[i]]
    OBVIOUS
  <2> HIDE DEF g
  <2>7. Flattens(g, k + 1, s)
    BY <2>5, <2>6 DEF Flattens
  <2> QED BY <1>2, <2>7
<1>3. n \in Done
  <2>1. n \in 0..n
    OBVIOUS
  <2> HIDE DEF Done
  <2> QED BY <1>1, <1>2, <2>1, Counting!UpTo
<1> QED BY <1>3

\* its first value, and the next one
LEMMA FlattensFacts ==
  ASSUME NEW n \in Nat, NEW s, NEW f, Flattens(f, n, s), NEW i \in 1..n
  PROVE  /\ i = 1 => f[i] = s[i]
         /\ i # 1 => f[i] = f[i - 1] \o s[i]
BY DEF Flattens

Flattened(n, s) == (CHOOSE f : Flattens(f, n, s))[n]

\* flattening a sequence more appends it
LEMMA FlattenedSteps ==
  ASSUME NEW n \in Nat \ {0}, NEW s, NEW t, \A i \in 1..n : s[i] = t[i]
  PROVE  /\ Flattened(1, s) = s[1]
         /\ Flattened(n + 1, t) = Flattened(n, s) \o t[n + 1]
<1> DEFINE f == CHOOSE x : Flattens(x, n, s)
           g == CHOOSE x : Flattens(x, n + 1, t)
           h == CHOOSE x : Flattens(x, 1, s)
<1>1. Flattens(f, n, s) /\ Flattens(g, n + 1, t) /\ Flattens(h, 1, s)
  BY FlatteningExists
<1>2. Flattened(n, s) = f[n] /\ Flattened(n + 1, t) = g[n + 1] /\ Flattened(1, s) = h[1]
  BY DEF Flattened
<1> HIDE DEF f, g, h
<1>3. /\ \A i \in 1..n : (i = 1 => f[i] = s[i]) /\ (i # 1 => f[i] = f[i - 1] \o s[i])
      /\ \A i \in 1..n + 1 : (i = 1 => g[i] = t[i]) /\ (i # 1 => g[i] = g[i - 1] \o t[i])
      /\ h[1] = s[1]
  <2>1. ASSUME NEW i \in 1..n  PROVE (i = 1 => f[i] = s[i]) /\ (i # 1 => f[i] = f[i - 1] \o s[i])
    BY <1>1, FlattensFacts
  <2>2. ASSUME NEW i \in 1..n + 1  PROVE (i = 1 => g[i] = t[i]) /\ (i # 1 => g[i] = g[i - 1] \o t[i])
    <3>1. PICK m \in Nat : m = n + 1
      OBVIOUS
    <3>2. Flattens(g, m, t) /\ i \in 1..m
      BY <1>1, <3>1
    <3> HIDE DEF g
    <3>3. g = [j \in 1..m |-> IF j = 1 THEN t[j] ELSE g[j - 1] \o t[j]]
      BY <3>2, Zenon DEF Flattens
    <3> QED BY <3>2, <3>3
  <2>3. h[1] = s[1]
    <3>1. h = [i \in 1..1 |-> IF i = 1 THEN s[i] ELSE h[i - 1] \o s[i]]
      BY <1>1, Zenon DEF Flattens
    <3>2. 1 \in 1..1
      OBVIOUS
    <3>3. h[1] = [i \in 1..1 |-> IF i = 1 THEN s[i] ELSE h[i - 1] \o s[i]][1]
      BY <3>1, Zenon
    <3>4. [i \in 1..1 |-> IF i = 1 THEN s[i] ELSE h[i - 1] \o s[i]][1] = s[1]
      BY <3>2
    <3> QED BY <3>3, <3>4, Zenon
  <2> QED BY <2>1, <2>2, <2>3
<1> DEFINE Same == {i \in 0..n : i = 0 \/ f[i] = g[i]}
<1>4. 0 \in Same
  OBVIOUS
<1>5. ASSUME NEW i \in 0..n, i \in Same, i < n  PROVE i + 1 \in Same
  <2>1. i + 1 \in 1..n /\ i + 1 \in 1..n + 1 /\ (i + 1) - 1 = i
    BY <1>5
  <2>2. CASE i = 0
    <3>0. 1 \in 1..n /\ 1 \in 1..n + 1 /\ 1 \in 0..n
      OBVIOUS
    <3>1. f[1] = s[1] /\ g[1] = t[1] /\ s[1] = t[1] /\ 1 \in 0..n
      BY <1>3, <3>0
    <3> QED BY <2>2, <3>1
  <2>3. CASE i # 0
    <3> DEFINE j == i + 1
    <3>0. j \in 1..n /\ j \in 1..n + 1 /\ j # 1 /\ j - 1 = i
      BY <2>1, <2>3
    <3> HIDE DEF j
    <3>4. f[j] = f[i] \o s[j] /\ g[j] = g[i] \o t[j]
      BY <1>3, <3>0
    <3>1. f[i + 1] = f[i] \o s[i + 1] /\ g[i + 1] = g[i] \o t[i + 1]
      BY <3>4 DEF j
    <3>2. f[i] = g[i] /\ s[i + 1] = t[i + 1]
      BY <1>5, <2>1, <2>3
    <3>3. i + 1 \in 0..n
      BY <2>1
    <3> QED BY <3>1, <3>2, <3>3
  <2> QED BY <2>2, <2>3
<1>6. f[n] = g[n]
  <2>1. n \in 0..n
    OBVIOUS
  <2>2. n \in Same
    <3> HIDE DEF Same
    <3> QED BY <1>4, <1>5, <2>1, Counting!UpTo
  <2> QED BY <2>2
<1>7. g[n + 1] = g[n] \o t[n + 1]
  <2>1. n + 1 \in 1..n + 1 /\ n + 1 # 1 /\ (n + 1) - 1 = n
    OBVIOUS
  <2> QED BY <1>3, <2>1
<1> QED BY <1>2, <1>3, <1>6, <1>7

\* FlattenSeq, sequence by sequence
LEMMA FlattenFold ==
  ASSUME NEW S
  PROVE  /\ FlattenSeq(<<>>) = <<>>
         /\ \A ss \in Seq(Seq(S)), s \in Seq(S) : FlattenSeq(Append(ss, s)) = FlattenSeq(ss) \o s
         /\ \A ss \in Seq(Seq(S)) : FlattenSeq(ss) \in Seq(S)
<1>1. FlattenSeq(<<>>) = <<>>
  BY EmptySeq DEF FlattenSeq
<1>2. ASSUME NEW ss \in Seq(Seq(S)), NEW n \in Nat \ {0}, n = Len(ss)  PROVE FlattenSeq(ss) = Flattened(n, ss)
  BY <1>2 DEF FlattenSeq, Flattened, Flattens
<1>3. ASSUME NEW ss \in Seq(Seq(S)), NEW s \in Seq(S)  PROVE FlattenSeq(Append(ss, s)) = FlattenSeq(ss) \o s
  <2> DEFINE tt == Append(ss, s)
  <2>0. PICK n \in Nat : n = Len(ss)
    OBVIOUS
  <2>1. /\ tt \in Seq(Seq(S)) /\ Len(tt) = n + 1 /\ tt[n + 1] = s
        /\ \A i \in 1..n : ss[i] = tt[i]
    BY <2>0
  <2> HIDE DEF tt
  <2>2. FlattenSeq(tt) = Flattened(n + 1, tt)
    BY <1>2, <2>1
  <2>3. CASE n = 0
    <3>1. ss = <<>>
      BY <2>0, <2>3, EmptySeq
    <3>2. FlattenSeq(ss) \o s = s
      BY <1>1, <3>1, ConcatEmptySeq
    <3>3. Flattened(1, tt) = tt[1]
      BY FlattenedSteps
    <3> QED BY <2>1, <2>2, <2>3, <3>2, <3>3 DEF tt
  <2>4. CASE n # 0
    <3>1. FlattenSeq(ss) = Flattened(n, ss)
      BY <1>2, <2>0, <2>4
    <3>2. Flattened(n + 1, tt) = Flattened(n, ss) \o tt[n + 1]
      BY <2>1, <2>4, FlattenedSteps
    <3> QED BY <2>1, <2>2, <3>1, <3>2 DEF tt
  <2> QED BY <2>3, <2>4
<1>4. \A ss \in Seq(Seq(S)) : FlattenSeq(ss) \in Seq(S)
  <2> DEFINE T == {ss \in Seq(Seq(S)) : FlattenSeq(ss) \in Seq(S)}
  <2>1. <<>> \in T
    <3>1. <<>> \in Seq(Seq(S)) /\ FlattenSeq(<<>>) \in Seq(S)
      BY <1>1, EmptySeq
    <3> QED BY <3>1
  <2>2. ASSUME NEW ss \in Seq(Seq(S)), NEW s \in Seq(S), ss \in T  PROVE Append(ss, s) \in T
    <3>1. FlattenSeq(ss) \o s \in Seq(S)
      BY <2>2, ConcatProperties
    <3>2. Append(ss, s) \in Seq(Seq(S))
      OBVIOUS
    <3> QED BY <1>3, <3>1, <3>2
  <2>3. Seq(Seq(S)) \subseteq T
    <3> HIDE DEF T
    <3> QED BY <2>1, <2>2, SeqInduction
  <2> QED BY <2>3
<1> QED BY <1>1, <1>3, <1>4

-----------------------------------------------------------------------------
(* Sequences and blocks *)

\* the elements of a sequence with one more
LEMMA AppendOf ==
  ASSUME NEW S, NEW s \in Seq(S), NEW e \in S, NEW n \in Nat, n = Len(s)
  PROVE  /\ Append(s, e) \in Seq(S) /\ Append(s, e) # <<>> /\ DOMAIN s = 1..n
         /\ Len(Append(s, e)) = n + 1 /\ DOMAIN Append(s, e) = 1..n + 1
         /\ Append(s, e)[n + 1] = e /\ \A i \in 1..n : Append(s, e)[i] = s[i]
<1>1. Append(s, e) \in Seq(S) /\ Append(s, e) # <<>> /\ Len(Append(s, e)) = n + 1
  BY AppendProperties
<1>2. DOMAIN s = 1..n /\ DOMAIN Append(s, e) = 1..n + 1
  BY <1>1
<1>3. Append(s, e)[n + 1] = e /\ \A i \in 1..n : Append(s, e)[i] = s[i]
  OBVIOUS
<1> QED BY <1>1, <1>2, <1>3

\* the elements of two sequences one after the other
LEMMA ConcatOf ==
  ASSUME NEW S, NEW s \in Seq(S), NEW t \in Seq(S), NEW n \in Nat, n = Len(s), NEW m \in Nat, m = Len(t)
  PROVE  /\ s \o t \in Seq(S) /\ DOMAIN s = 1..n /\ DOMAIN t = 1..m
         /\ Len(s \o t) = n + m /\ DOMAIN (s \o t) = 1..n + m
         /\ \A i \in 1..n : (s \o t)[i] = s[i]
         /\ \A i \in 1..m : (s \o t)[n + i] = t[i]
<1> DEFINE u == s \o t
<1>1. /\ u \in Seq(S) /\ DOMAIN s = 1..n /\ DOMAIN t = 1..m /\ Len(u) = n + m /\ DOMAIN u = 1..n + m
      /\ \A i \in 1..n + m : u[i] = IF i <= n THEN s[i] ELSE t[i - n]
  BY ConcatProperties
<1> HIDE DEF u
<1>2. \A i \in 1..n : i \in 1..n + m /\ i <= n
  OBVIOUS
<1>3. \A i \in 1..m : n + i \in 1..n + m /\ ~ (n + i <= n) /\ (n + i) - n = i
  OBVIOUS
<1>4. \A i \in 1..m : u[n + i] = t[i]
  BY <1>1, <1>3
<1>5. \A i \in 1..n : u[i] = s[i]
  BY <1>1, <1>2
<1> QED BY <1>1, <1>4, <1>5 DEF u

\* the front and the last of a sequence with one more
LEMMA EndsOf ==
  ASSUME NEW S, NEW s \in Seq(S), NEW e \in S
  PROVE  Front(Append(s, e)) = s /\ Last(Append(s, e)) = e /\ Append(s, e) # <<>>
<1> DEFINE t == Append(s, e)
<1>1. PICK n \in Nat : n = Len(s)
  OBVIOUS
<1>2. t \in Seq(S) /\ Len(t) = n + 1 /\ t[n + 1] = e /\ (\A i \in 1..n : t[i] = s[i]) /\ t # <<>>
  BY <1>1, AppendProperties
<1> HIDE DEF t
<1>3. Last(t) = e
  BY <1>2 DEF Last
<1>4. Front(t) = s
  <2>1. Front(t) = SubSeq(t, 1, n)
    BY <1>2 DEF Front
  <2>2. n \in Int /\ 1 \in Int /\ \A i \in 1..n : t[i] \in S
    BY <1>1, <1>2, ElementOfSeq
  <2>3. /\ SubSeq(t, 1, n) \in Seq(S) /\ Len(SubSeq(t, 1, n)) = n
        /\ \A i \in 1..n : SubSeq(t, 1, n)[i] = t[i]
    BY <2>2, SubSeqProperties
  <2> QED BY <1>1, <1>2, <2>1, <2>3, SeqEqual
<1> QED BY <1>2, <1>3, <1>4 DEF t

\* members are of the type of the sequence
LEMMA MembersIn ==
  ASSUME NEW S, NEW s \in Seq(S)
  PROVE  ToSet(s) \subseteq S
BY DEF ToSet

\* the members of a sequence with one more
LEMMA MembersAppend ==
  ASSUME NEW S, NEW s \in Seq(S), NEW e \in S
  PROVE  ToSet(Append(s, e)) = ToSet(s) \cup {e}
<1>1. PICK n \in Nat : n = Len(s)
  OBVIOUS
<1> DEFINE u == Append(s, e)
<1>2. DOMAIN s = 1..n /\ DOMAIN u = 1..n + 1 /\ u[n + 1] = e /\ \A i \in 1..n : u[i] = s[i]
  BY <1>1
<1> HIDE DEF u
<1>3. ToSet(u) = ToSet(s) \cup {e}
  <2>1. ASSUME NEW i \in 1..n + 1  PROVE u[i] \in ToSet(s) \cup {e}
    BY <1>2 DEF ToSet
  <2>2. ASSUME NEW i \in 1..n  PROVE s[i] \in ToSet(u)
    <3>1. i \in 1..n + 1 /\ u[i] = s[i]
      BY <1>2
    <3> QED BY <1>2, <3>1 DEF ToSet
  <2>3. e \in ToSet(u)
    <3>1. n + 1 \in 1..n + 1
      OBVIOUS
    <3> QED BY <1>2, <3>1 DEF ToSet
  <2> QED BY <1>2, <2>1, <2>2, <2>3 DEF ToSet
<1> QED BY <1>3 DEF u

\* the members of two sequences one after the other
LEMMA MembersConcat ==
  ASSUME NEW S, NEW s \in Seq(S), NEW t \in Seq(S)
  PROVE  ToSet(s \o t) = ToSet(s) \cup ToSet(t)
<1>1. PICK n \in Nat, m \in Nat : n = Len(s) /\ m = Len(t)
  OBVIOUS
<1> DEFINE u == s \o t
<1>2. /\ DOMAIN s = 1..n /\ DOMAIN t = 1..m /\ DOMAIN u = 1..n + m
      /\ \A i \in 1..n + m : u[i] = IF i <= n THEN s[i] ELSE t[i - n]
  BY <1>1, ConcatProperties
<1> HIDE DEF u
<1>3. ToSet(u) = ToSet(s) \cup ToSet(t)
  <2>1. ASSUME NEW i \in 1..n + m  PROVE u[i] \in ToSet(s) \cup ToSet(t)
    <3>1. CASE i <= n
      <4>1. i \in 1..n /\ u[i] = s[i]
        BY <1>2, <3>1
      <4> QED BY <1>2, <4>1 DEF ToSet
    <3>2. CASE ~ (i <= n)
      <4>1. i - n \in 1..m /\ u[i] = t[i - n]
        BY <1>2, <3>2
      <4> QED BY <1>2, <4>1 DEF ToSet
    <3> QED BY <3>1, <3>2
  <2>2. ASSUME NEW i \in 1..n  PROVE s[i] \in ToSet(u)
    <3>1. i \in 1..n + m /\ u[i] = s[i]
      BY <1>2
    <3> QED BY <1>2, <3>1 DEF ToSet
  <2>3. ASSUME NEW i \in 1..m  PROVE t[i] \in ToSet(u)
    <3>1. n + i \in 1..n + m /\ ~ (n + i <= n) /\ (n + i) - n = i
      OBVIOUS
    <3>2. u[n + i] = t[i]
      BY <1>2, <3>1
    <3> QED BY <1>2, <3>1, <3>2 DEF ToSet
  <2> QED BY <1>2, <2>1, <2>2, <2>3 DEF ToSet
<1> QED BY <1>3 DEF u

\* appending to the second of two sequences is appending to both
LEMMA ConcatAppend ==
  ASSUME NEW S, NEW s \in Seq(S), NEW t \in Seq(S), NEW e \in S
  PROVE  s \o Append(t, e) = Append(s \o t, e)
<1>1. s \o t \in Seq(S) /\ <<e>> \in Seq(S)
  BY ConcatProperties
<1>2. Append(t, e) = t \o <<e>> /\ Append(s \o t, e) = (s \o t) \o <<e>>
  BY <1>1, AppendIsConcat
<1> QED BY <1>1, <1>2, ConcatAssociative

\* the empty sequence has no member
LEMMA NoMembers == ToSet(<<>>) = {}
BY DEF ToSet

BlockSet == [kind : {"heading", "code", "table", "math", "text"}, level : Nat, section : Seq(Nat), page : Nat,
             lines : Seq(Lines)]
\* a block with a word, as all that are made of the lines of a page
Solid == {b \in BlockSet : Words(b.lines) >= 1}

\* the lines of blocks, block by block
LEMMA LinesOfBlocks ==
  ASSUME NEW bs \in Seq(BlockSet), NEW b \in BlockSet
  PROVE  /\ LinesOf(bs) \in Seq(Lines)
         /\ LinesOf(<<>>) = <<>>
         /\ LinesOf(Append(bs, b)) = LinesOf(bs) \o b.lines
         /\ LinesOf(<<b>>) = b.lines
<1> DEFINE of(s) == [i \in DOMAIN s |-> s[i].lines]
<1>1. b.lines \in Seq(Lines)
  BY DEF BlockSet
<1>2. ASSUME NEW s \in Seq(BlockSet)  PROVE of(s) \in Seq(Seq(Lines)) /\ Len(of(s)) = Len(s)
  <2>1. PICK n \in Nat : n = Len(s)
    OBVIOUS
  <2>2. DOMAIN s = 1..n /\ \A i \in 1..n : s[i].lines \in Seq(Lines)
    <3>1. DOMAIN s = 1..n /\ \A i \in 1..n : s[i] \in BlockSet
      BY <2>1
    <3>2. \A x \in BlockSet : x.lines \in Seq(Lines)
      BY DEF BlockSet
    <3> QED BY <3>1, <3>2
  <2>3. of(s) = [i \in 1..n |-> s[i].lines]
    BY <2>2
  <2> DEFINE v == [i \in 1..n |-> s[i].lines]
  <2>4. v \in [1..n -> Seq(Lines)]
    BY <2>2
  <2> HIDE DEF v
  <2>5. v \in Seq(Seq(Lines))
    BY <2>4, SeqDef
  <2>6. Len(v) = n
    <3>1. DOMAIN v = 1..n
      BY <2>4
    <3>2. Len(v) \in Nat /\ DOMAIN v = 1..Len(v)
      BY <2>5, LenProperties
    <3>3. PICK m \in Nat : m = Len(v)
      BY <3>2
    <3>4. 1..n = 1..m
      BY <3>1, <3>2, <3>3
    <3>5. n = m
      BY <3>4
    <3> QED BY <3>3, <3>5
  <2>7. of(s) = v
    BY <2>3 DEF v
  <2> HIDE DEF of
  <2> QED BY <2>1, <2>5, <2>6, <2>7
<1>3. ASSUME NEW s \in Seq(BlockSet)  PROVE of(Append(s, b)) = Append(of(s), b.lines)
  <2>1. PICK n \in Nat : n = Len(s)
    OBVIOUS
  <2> DEFINE u == Append(s, b)
  <2>2. /\ u \in Seq(BlockSet) /\ Len(u) = n + 1 /\ DOMAIN u = 1..n + 1 /\ u[n + 1] = b
        /\ \A i \in 1..n : u[i] = s[i]
    BY <2>1
  <2> HIDE DEF u
  <2>3. of(u) \in Seq(Seq(Lines)) /\ Len(of(u)) = n + 1
    <3> HIDE DEF of
    <3> QED BY <1>2, <2>2
  <2> DEFINE w == Append(of(s), b.lines)
  <2>4. of(s) \in Seq(Seq(Lines)) /\ Len(of(s)) = n /\ DOMAIN s = 1..n
    <3> HIDE DEF of
    <3> QED BY <1>2, <2>1
  <2> DEFINE v == of(s)
  <2>5. \A i \in 1..n : v[i] = s[i].lines
    BY <2>4
  <2> HIDE DEF v
  <2>6. Append(v, b.lines) \in Seq(Seq(Lines)) /\ Len(Append(v, b.lines)) = n + 1
    BY <1>1, <2>4, AppendProperties DEF v
  <2>7. \A i \in 1..n + 1 : Append(v, b.lines)[i] = IF i = n + 1 THEN b.lines ELSE s[i].lines
    BY <1>1, <2>4, <2>5, AppendProperties DEF v
  <2>8. \A i \in 1..n + 1 : of(u)[i] = IF i = n + 1 THEN b.lines ELSE s[i].lines
    BY <2>2
  <2>9. of(u) = Append(v, b.lines)
    <3> HIDE DEF of
    <3> QED BY <2>3, <2>6, <2>7, <2>8, SeqEqual
  <2> QED BY <2>9 DEF u, v
<1>4. ASSUME NEW s \in Seq(BlockSet)  PROVE LinesOf(s) = FlattenSeq(of(s))
  BY DEF LinesOf
<1>5. LinesOf(<<>>) = <<>>
  <2>1. of(<<>>) = <<>>
    OBVIOUS
  <2>2. LinesOf(<<>>) = FlattenSeq(<<>>)
    BY <2>1 DEF LinesOf
  <2> QED BY <2>2, FlattenFold
<1>6. ASSUME NEW s \in Seq(BlockSet)  PROVE LinesOf(s) \in Seq(Lines) /\ LinesOf(Append(s, b)) = LinesOf(s) \o b.lines
  <2>1. Append(s, b) \in Seq(BlockSet)
    OBVIOUS
  <2> HIDE DEF of
  <2>2. LinesOf(Append(s, b)) = FlattenSeq(Append(of(s), b.lines)) /\ LinesOf(s) = FlattenSeq(of(s))
    BY <1>3, <1>4, <2>1
  <2>3. of(s) \in Seq(Seq(Lines))
    BY <1>2
  <2> QED BY <1>1, <2>2, <2>3, FlattenFold
<1>7. LinesOf(<<b>>) = b.lines
  <2>1. <<>> \in Seq(BlockSet) /\ <<b>> = Append(<<>>, b)
    BY EmptySeq
  <2>2. LinesOf(<<b>>) = LinesOf(<<>>) \o b.lines
    BY <1>6, <2>1
  <2> QED BY <1>1, <1>5, <2>2, ConcatEmptySeq
<1> QED BY <1>5, <1>6, <1>7

\* the lines of blocks are lines
LEMMA LinesOfTyped ==
  ASSUME NEW bs \in Seq(BlockSet)
  PROVE  LinesOf(bs) \in Seq(Lines)
<1> DEFINE of == [i \in DOMAIN bs |-> bs[i].lines]
<1>1. PICK n \in Nat : n = Len(bs)
  OBVIOUS
<1>2. DOMAIN bs = 1..n /\ \A i \in 1..n : bs[i] \in BlockSet
  BY <1>1
<1>3. \A x \in BlockSet : x.lines \in Seq(Lines)
  BY DEF BlockSet
<1>4. of \in [1..n -> Seq(Lines)]
  BY <1>2, <1>3
<1>5. LinesOf(bs) = FlattenSeq(of)
  BY DEF LinesOf
<1> HIDE DEF of
<1>6. of \in Seq(Seq(Lines))
  BY <1>4, SeqDef
<1> QED BY <1>5, <1>6, FlattenFold

\* a sum over sequences is a number, and adds up over two sequences one after the other
LEMMA Sums ==
  ASSUME NEW S, NEW g \in [S -> Nat], NEW f, f[<<>>] = 0,
         \A s \in Seq(S), e \in S : f[Append(s, e)] = f[s] + g[e]
  PROVE  /\ \A s \in Seq(S) : f[s] \in Nat
         /\ \A s, t \in Seq(S) : f[s \o t] = f[s] + f[t]
<1> DEFINE N == {u \in Seq(S) : f[u] \in Nat}
<1>1. Seq(S) \subseteq N
  <2>1. <<>> \in N
    BY EmptySeq
  <2>2. ASSUME NEW u \in Seq(S), NEW e \in S, u \in N  PROVE Append(u, e) \in N
    <3>1. Append(u, e) \in Seq(S) /\ f[Append(u, e)] = f[u] + g[e] /\ g[e] \in Nat
      OBVIOUS
    <3> QED BY <2>2, <3>1
  <2> HIDE DEF N
  <2> QED BY <2>1, <2>2, SeqInduction
<1>2. \A u \in Seq(S) : f[u] \in Nat
  BY <1>1
<1>3. ASSUME NEW s \in Seq(S)  PROVE \A t \in Seq(S) : f[s \o t] = f[s] + f[t]
  <2> DEFINE T == {t \in Seq(S) : f[s \o t] = f[s] + f[t]}
  <2>1. <<>> \in T
    <3>1. <<>> \in Seq(S) /\ s \o <<>> = s
      BY EmptySeq, ConcatEmptySeq
    <3>2. f[s] = f[s] + 0
      BY <1>2
    <3> QED BY <3>1, <3>2
  <2>2. ASSUME NEW u \in Seq(S), NEW e \in S, u \in T  PROVE Append(u, e) \in T
    <3>1. Append(u, e) \in Seq(S) /\ s \o u \in Seq(S)
      BY ConcatProperties
    <3>2. s \o Append(u, e) = Append(s \o u, e)
      BY ConcatAppend
    <3>3. f[Append(u, e)] = f[u] + g[e] /\ f[Append(s \o u, e)] = f[s \o u] + g[e]
      BY <3>1
    <3>4. f[s] \in Nat /\ f[u] \in Nat /\ g[e] \in Nat
      BY <1>2
    <3>5. f[Append(s \o u, e)] = f[s] + f[Append(u, e)]
      BY <2>2, <3>3, <3>4
    <3> QED BY <3>1, <3>2, <3>5
  <2> HIDE DEF T
  <2>3. Seq(S) \subseteq T
    BY <2>1, <2>2, SeqInduction
  <2> QED BY <2>3 DEF T
<1> QED BY <1>2, <1>3

\* the width of a line is a number
LEMMA WidthOf ==
  ASSUME NEW l \in Lines
  PROVE  Width(l) \in Nat /\ Len(l.text) \in Nat
<1>1. l.text \in Seq(Nat)
  BY DEF Lines
<1>2. \A w \in Nat : Letters(w) + 1 \in Nat
  BY ChunkingAssumption DEF Letters
<1>3. Spelled(l.text) \in Nat
  <2> DEFINE T == {s \in Seq(Nat) : Spelled(s) \in Nat}
  <2>1. <<>> \in T
    BY LettersFold, EmptySeq
  <2>2. ASSUME NEW s \in Seq(Nat), NEW w \in Nat, s \in T  PROVE Append(s, w) \in T
    <3>1. Append(s, w) \in Seq(Nat)
      OBVIOUS
    <3>2. Spelled(Append(s, w)) = Spelled(s) + Letters(w) + 1
      BY LettersFold
    <3>3. Letters(w) \in Nat
      BY ChunkingAssumption DEF Letters
    <3> QED BY <2>2, <3>1, <3>2, <3>3
  <2> HIDE DEF T
  <2>3. Seq(Nat) \subseteq T
    BY <2>1, <2>2, SeqInduction
  <2> QED BY <1>1, <2>3 DEF T
<1>4. Width(l) = IF l.text = <<>> THEN 1 ELSE Spelled(l.text)
  BY DEF Width, Spelled
<1> QED BY <1>1, <1>3, <1>4

\* the words and the characters of lines one after the other add up
LEMMA CountsOf ==
  /\ \A s \in Seq(Lines) : Words(s) \in Nat /\ Characters(s) \in Nat
  /\ \A s, t \in Seq(Lines) : /\ Words(s \o t) = Words(s) + Words(t)
                              /\ Characters(s \o t) = Characters(s) + Characters(t)
<1>1. /\ \A s \in Seq(Lines) : Words(s) \in Nat
      /\ \A s, t \in Seq(Lines) : Words(s \o t) = Words(s) + Words(t)
  <2> DEFINE f == [s \in Seq(Lines) |-> Words(s)]
             g == [l \in Lines |-> Len(l.text)]
  <2>1. g \in [Lines -> Nat]
    BY WidthOf
  <2>2. f[<<>>] = 0
    BY WordsFold, EmptySeq
  <2>3. \A s \in Seq(Lines), l \in Lines : f[Append(s, l)] = f[s] + g[l]
    BY WordsFold, AppendProperties
  <2>4. \A s \in Seq(Lines) : f[s] = Words(s)
    OBVIOUS
  <2> HIDE DEF f, g
  <2>5. (\A s \in Seq(Lines) : f[s] \in Nat) /\ \A s, t \in Seq(Lines) : f[s \o t] = f[s] + f[t]
    BY <2>1, <2>2, <2>3, Sums
  <2> QED BY <2>4, <2>5, ConcatProperties
<1>2. /\ \A s \in Seq(Lines) : Characters(s) \in Nat
      /\ \A s, t \in Seq(Lines) : Characters(s \o t) = Characters(s) + Characters(t)
  <2> DEFINE f == [s \in Seq(Lines) |-> Characters(s)]
             g == [l \in Lines |-> Width(l)]
  <2>1. g \in [Lines -> Nat]
    BY WidthOf
  <2>2. f[<<>>] = 0
    BY CharactersFold, EmptySeq
  <2>3. \A s \in Seq(Lines), l \in Lines : f[Append(s, l)] = f[s] + g[l]
    BY CharactersFold, AppendProperties
  <2>4. \A s \in Seq(Lines) : f[s] = Characters(s)
    OBVIOUS
  <2> HIDE DEF f, g
  <2>5. (\A s \in Seq(Lines) : f[s] \in Nat) /\ \A s, t \in Seq(Lines) : f[s \o t] = f[s] + f[t]
    BY <2>1, <2>2, <2>3, Sums
  <2> QED BY <2>4, <2>5, ConcatProperties
<1> QED BY <1>1, <1>2

\* what an estimate is between
LEMMA EstimateOf ==
  ASSUME NEW w \in Nat, NEW c \in Int
  PROVE  LET e == Estimate(w, c)
         IN  e \in Nat /\ w <= e /\ 5 * c <= 19 * e + 18 /\ (e = w \/ 19 * e <= 5 * c)
<1> DEFINE rate == (5 * c) \div 19
<1>1. rate \in Int /\ 19 * rate <= 5 * c /\ 5 * c <= 19 * rate + 18
  OBVIOUS
<1>2. Estimate(w, c) = IF w > rate THEN w ELSE rate
  BY DEF Estimate
<1> HIDE DEF rate
<1> QED BY <1>1, <1>2

\* the tokens of lines are no fewer than their words, and their characters are bounded by their tokens
LEMMA TokensOf ==
  ASSUME NEW s \in Seq(Lines)
  PROVE  Tokens(s) \in Nat /\ Words(s) <= Tokens(s) /\ 5 * Characters(s) <= 19 * Tokens(s) + 23
<1>1. PICK w \in Nat, c \in Nat : w = Words(s) /\ c = Characters(s)
  BY CountsOf
<1>2. PICK k \in Int : k = c - 1
  BY <1>1
<1>3. PICK e \in Nat : e = Estimate(w, k) /\ w <= e /\ 5 * k <= 19 * e + 18
  BY EstimateOf
<1>4. Tokens(s) = e
  BY <1>1, <1>2, <1>3 DEF Tokens
<1>5. 5 * c <= 19 * e + 23
  BY <1>2, <1>3
<1> QED BY <1>1, <1>3, <1>4, <1>5

\* what the chunker counts of blocks adds up
LEMMA TotalOf ==
  /\ Total(<<>>) = 0
  /\ \A bs \in Seq(BlockSet) : Total(bs) \in Nat
  /\ \A bs \in Seq(BlockSet), b \in BlockSet : Total(Append(bs, b)) = Total(bs) + Tokens(b.lines)
  /\ \A b \in BlockSet : Tokens(b.lines) \in Nat
<1> DEFINE f == [s \in Seq(BlockSet) |-> Total(s)]
           g == [b \in BlockSet |-> Tokens(b.lines)]
<1>1. \A b \in BlockSet : Tokens(b.lines) \in Nat
  BY TokensOf DEF BlockSet
<1>2. g \in [BlockSet -> Nat]
  BY <1>1
<1>3. f[<<>>] = 0 /\ Total(<<>>) = 0
  BY TotalFold, EmptySeq
<1>4. \A s \in Seq(BlockSet), b \in BlockSet : Total(Append(s, b)) = Total(s) + Tokens(b.lines)
  BY TotalFold
<1>5. \A s \in Seq(BlockSet), b \in BlockSet : f[Append(s, b)] = f[s] + g[b]
  BY <1>4, AppendProperties
<1>6. \A s \in Seq(BlockSet) : f[s] = Total(s)
  OBVIOUS
<1> HIDE DEF f, g
<1>7. \A s \in Seq(BlockSet) : f[s] \in Nat
  BY <1>2, <1>3, <1>5, Sums
<1> QED BY <1>1, <1>3, <1>4, <1>6, <1>7

\* what the cut counts of lines
LEMMA CostOf ==
  ASSUME NEW s \in Seq(Lines)
  PROVE  Cost(s) \in Nat /\ Words(s) <= Cost(s) /\ 5 * Characters(s) <= 23 * Cost(s)
<1> DEFINE T == {u \in Seq(Lines) : Cost(u) \in Nat /\ Words(u) <= Cost(u) /\ 5 * Characters(u) <= 23 * Cost(u)}
<1>1. <<>> \in T
  <2>1. <<>> \in Seq(Lines)
    BY EmptySeq
  <2>2. Cost(<<>>) = 0 /\ Words(<<>>) = 0 /\ Characters(<<>>) = 0
    BY CostFold, WordsFold, CharactersFold
  <2> QED BY <2>1, <2>2
<1>2. ASSUME NEW u \in Seq(Lines), NEW l \in Lines, u \in T  PROVE Append(u, l) \in T
  <2>0. Append(u, l) \in Seq(Lines) /\ <<l>> \in Seq(Lines) /\ Append(<<>>, l) = <<l>> /\ <<>> \in Seq(Lines)
    BY EmptySeq
  <2>1. PICK a \in Nat, c \in Nat, n \in Nat : a = Len(l.text) /\ c = Width(l) /\ n = Tokens(<<l>>)
    BY <2>0, WidthOf, TokensOf
  <2>2. Words(<<l>>) = a /\ Characters(<<l>>) = c
    <3>1. Words(<<l>>) = 0 + a /\ Characters(<<l>>) = 0 + c
      BY <2>0, <2>1, WordsFold, CharactersFold
    <3> QED BY <3>1
  <2>3. a <= n /\ 5 * c <= 19 * n + 23
    BY <2>0, <2>1, <2>2, TokensOf
  <2>4. PICK w \in Nat, x \in Nat, k \in Nat : w = Words(u) /\ x = Characters(u) /\ k = Cost(u) /\ w <= k /\ 5 * x <= 23 * k
    BY <1>2, CountsOf
  <2>5. Cost(Append(u, l)) = k + n + 1 /\ Words(Append(u, l)) = w + a /\ Characters(Append(u, l)) = x + c
    <3>1. Cost(Append(u, l)) = k + n + 1
      BY <2>1, <2>4, CostFold
    <3>2. Words(Append(u, l)) = w + a
      BY <2>1, <2>4, WordsFold
    <3>3. Characters(Append(u, l)) = x + c
      BY <2>1, <2>4, CharactersFold
    <3> QED BY <3>1, <3>2, <3>3
  <2>6. k + n + 1 \in Nat /\ w + a <= k + n + 1 /\ 5 * (x + c) <= 23 * (k + n + 1)
    <3>1. k + n + 1 \in Nat /\ w + a <= k + n + 1
      BY <2>3, <2>4
    <3>2. 5 * (x + c) <= 23 * k + 19 * n + 23
      <4>1. 5 * x <= 23 * k
        BY <2>4
      <4>2. 5 * c <= 19 * n + 23
        BY <2>3
      <4>3. 5 * (x + c) = 5 * x + 5 * c
        OBVIOUS
      <4> QED BY <4>1, <4>2, <4>3
    <3>3. 23 * k + 19 * n + 23 <= 23 * (k + n + 1)
      OBVIOUS
    <3> QED BY <3>1, <3>2, <3>3
  <2>7. PICK v \in Seq(Lines) : v = Append(u, l)
    BY <2>0
  <2>8. v \in T
    BY <2>5, <2>6, <2>7
  <2> QED BY <2>7, <2>8, Zenon
<1>3. Seq(Lines) \subseteq T
  <2> HIDE DEF T
  <2> QED BY <1>1, <1>2, SeqInduction
<1> QED BY <1>3

\* blocks with a word are blocks, of one token or more
LEMMA SolidBlocks ==
  /\ \A b \in Solid : b \in BlockSet /\ Tokens(b.lines) >= 1
  /\ \A bs \in Seq(Solid) : bs \in Seq(BlockSet)
<1>1. Solid \subseteq BlockSet
  BY DEF Solid
<1>2. ASSUME NEW b \in Solid  PROVE Tokens(b.lines) >= 1
  <2>1. b.lines \in Seq(Lines) /\ Words(b.lines) >= 1
    BY DEF Solid, BlockSet
  <2>2. Words(b.lines) \in Nat /\ Tokens(b.lines) \in Nat /\ Words(b.lines) <= Tokens(b.lines)
    BY <2>1, CountsOf, TokensOf
  <2> QED BY <2>1, <2>2
<1>3. Seq(Solid) \subseteq Seq(BlockSet)
  BY <1>1, SeqMonotonic
<1> QED BY <1>1, <1>2, <1>3

-----------------------------------------------------------------------------
(* Parts of blocks, and the overlap *)

\* a part stays inside when lines come before it or after it
LEMMA InsideConcat ==
  ASSUME NEW s \in Seq(Lines), NEW t \in Seq(Lines), NEW part \in Seq(Lines)
  PROVE  Inside(t, s \o t) /\ (Inside(part, s) => Inside(part, s \o t))
<1> DEFINE u == s \o t
<1>1. PICK n \in Nat, m \in Nat, h \in Nat : n = Len(s) /\ m = Len(t) /\ h = Len(part)
  OBVIOUS
<1>2. /\ Len(u) = n + m /\ DOMAIN t = 1..m /\ DOMAIN part = 1..h
      /\ \A i \in 1..n + m : u[i] = IF i <= n THEN s[i] ELSE t[i - n]
  BY <1>1, ConcatProperties
<1> HIDE DEF u
<1>3. Inside(t, u)
  <2>1. n \in 0..(n + m) - m
    OBVIOUS
  <2>2. ASSUME NEW k \in 1..m  PROVE u[n + k] = t[k]
    <3>1. n + k \in 1..n + m /\ ~ (n + k <= n) /\ (n + k) - n = k
      OBVIOUS
    <3> QED BY <1>2, <3>1
  <2> QED BY <1>1, <1>2, <2>1, <2>2 DEF Inside
<1>4. ASSUME Inside(part, s)  PROVE Inside(part, u)
  <2>1. PICK i \in 0..n - h : \A k \in 1..h : s[i + k] = part[k]
    BY <1>1, <1>2, <1>4 DEF Inside
  <2>2. i \in 0..(n + m) - h
    BY <2>1
  <2>3. ASSUME NEW k \in 1..h  PROVE u[i + k] = part[k]
    <3>1. i + k \in 1..n + m /\ i + k <= n
      BY <2>1
    <3> QED BY <1>2, <2>1, <3>1
  <2> QED BY <1>1, <1>2, <2>2, <2>3 DEF Inside
<1> QED BY <1>3, <1>4 DEF u

\* a block is whole in the lines of its sequence
LEMMA BlockInside ==
  ASSUME NEW bs \in Seq(BlockSet), NEW k \in DOMAIN bs
  PROVE  Inside(bs[k].lines, LinesOf(bs))
<1> DEFINE T == {s \in Seq(BlockSet) : \A i \in DOMAIN s : Inside(s[i].lines, LinesOf(s))}
<1>1. <<>> \in T
  <2>1. <<>> \in Seq(BlockSet) /\ DOMAIN <<>> = {}
    BY EmptySeq
  <2> QED BY <2>1
<1>2. ASSUME NEW s \in Seq(BlockSet), NEW b \in BlockSet, s \in T  PROVE Append(s, b) \in T
  <2>1. PICK n \in Nat : n = Len(s)
    OBVIOUS
  <2> DEFINE u == Append(s, b)
  <2>2. u \in Seq(BlockSet) /\ DOMAIN u = 1..n + 1 /\ DOMAIN s = 1..n /\ u[n + 1] = b /\ \A i \in 1..n : u[i] = s[i]
    BY <2>1
  <2>3. LinesOf(u) = LinesOf(s) \o b.lines /\ LinesOf(s) \in Seq(Lines)
    BY LinesOfBlocks
  <2>4. \A x \in BlockSet : x.lines \in Seq(Lines)
    BY DEF BlockSet
  <2> HIDE DEF u
  <2>5. ASSUME NEW i \in DOMAIN u  PROVE Inside(u[i].lines, LinesOf(u))
    <3>1. CASE i = n + 1
      BY <2>2, <2>3, <2>4, <3>1, InsideConcat
    <3>2. CASE i # n + 1
      <4>1. i \in DOMAIN s /\ u[i] = s[i]
        BY <2>2, <3>2
      <4>2. Inside(s[i].lines, LinesOf(s))
        BY <1>2, <4>1
      <4>3. s[i].lines \in Seq(Lines)
        BY <2>4, <4>1
      <4> QED BY <2>3, <2>4, <4>1, <4>2, <4>3, InsideConcat
    <3> QED BY <3>1, <3>2
  <2>6. u \in T
    BY <2>2, <2>5
  <2> QED BY <2>6 DEF u
<1>3. bs \in T
  <2> HIDE DEF T
  <2> QED BY <1>1, <1>2, SeqInduction
<1> QED BY <1>3

\* no blocks, no lines
LEMMA NoLines == LinesOf(<<>>) = <<>> /\ Total(<<>>) = 0
<1>1. [b \in DOMAIN <<>> |-> <<>>[b].lines] = <<>>
  OBVIOUS
<1>2. LinesOf(<<>>) = FlattenSeq(<<>>)
  BY <1>1 DEF LinesOf
<1> QED BY <1>2, FlattenFold, TotalOf

\* a line of blocks is a line of one of them
LEMMA LinesInBlocks ==
  ASSUME NEW bs \in Seq(BlockSet)
  PROVE  \A x : x \in ToSet(LinesOf(bs)) <=> \E i \in DOMAIN bs : x \in ToSet(bs[i].lines)
<1> DEFINE In(x, s) == \E i \in DOMAIN s : x \in ToSet(s[i].lines)
           T == {s \in Seq(BlockSet) : \A x : x \in ToSet(LinesOf(s)) <=> In(x, s)}
<1>1. <<>> \in T
  <2>1. <<>> \in Seq(BlockSet) /\ DOMAIN <<>> = {}
    BY EmptySeq
  <2>2. \A x : x \notin ToSet(LinesOf(<<>>)) /\ ~ In(x, <<>>)
    BY <2>1, NoLines, NoMembers
  <2> HIDE DEF In
  <2> QED BY <2>1, <2>2
<1>2. ASSUME NEW s \in Seq(BlockSet), NEW b \in BlockSet, s \in T  PROVE Append(s, b) \in T
  <2>1. PICK n \in Nat : n = Len(s)
    OBVIOUS
  <2> DEFINE u == Append(s, b)
  <2>2. u \in Seq(BlockSet) /\ DOMAIN u = 1..n + 1 /\ DOMAIN s = 1..n /\ u[n + 1] = b /\ \A i \in 1..n : u[i] = s[i]
    BY <2>1
  <2>3. LinesOf(u) = LinesOf(s) \o b.lines /\ LinesOf(s) \in Seq(Lines) /\ b.lines \in Seq(Lines)
    BY LinesOfBlocks DEF BlockSet
  <2>4. ToSet(LinesOf(u)) = ToSet(LinesOf(s)) \cup ToSet(b.lines)
    BY <2>3, MembersConcat
  <2> HIDE DEF u
  <2>5. ASSUME NEW x  PROVE In(x, u) <=> In(x, s) \/ x \in ToSet(b.lines)
    <3>1. ASSUME NEW i \in 1..n + 1, x \in ToSet(u[i].lines)  PROVE In(x, s) \/ x \in ToSet(b.lines)
      <4>1. CASE i = n + 1
        BY <2>2, <3>1, <4>1
      <4>2. CASE i # n + 1
        <5>1. i \in 1..n /\ u[i] = s[i]
          BY <2>2, <4>2
        <5> QED BY <2>2, <3>1, <5>1
      <4> QED BY <4>1, <4>2
    <3>2. ASSUME NEW i \in 1..n, x \in ToSet(s[i].lines)  PROVE In(x, u)
      <4>1. i \in 1..n + 1 /\ u[i] = s[i]
        BY <2>2
      <4> QED BY <2>2, <3>2, <4>1
    <3>3. n + 1 \in 1..n + 1
      OBVIOUS
    <3> QED BY <2>2, <3>1, <3>2, <3>3
  <2>6. \A x : x \in ToSet(LinesOf(s)) <=> In(x, s)
    BY <1>2
  <2> HIDE DEF In
  <2>8. u \in T
    BY <2>2, <2>4, <2>5, <2>6
  <2> QED BY <2>8 DEF u
<1>3. bs \in T
  <2> HIDE DEF T
  <2> QED BY <1>1, <1>2, SeqInduction
<1> QED BY <1>3

\* the blocks without headings are some of the blocks
LEMMA BodyOf ==
  ASSUME NEW bs \in Seq(BlockSet)
  PROVE  Body(bs) \in Seq(BlockSet) /\ ToSet(Body(bs)) \subseteq ToSet(bs)
<1> DEFINE T == {s \in Seq(BlockSet) : Body(s) \in Seq(BlockSet) /\ ToSet(Body(s)) \subseteq ToSet(s)}
<1>1. <<>> \in T
  <2>1. <<>> \in Seq(BlockSet)
    BY EmptySeq
  <2>2. Body(<<>>) = <<>>
    BY BodyFold
  <2> QED BY <2>1, <2>2
<1>2. ASSUME NEW s \in Seq(BlockSet), NEW b \in BlockSet, s \in T  PROVE Append(s, b) \in T
  <2>1. Body(Append(s, b)) = IF b.level = 0 THEN Append(Body(s), b) ELSE Body(s)
    BY BodyFold DEF AddBody
  <2>2. Body(s) \in Seq(BlockSet) /\ ToSet(Body(s)) \subseteq ToSet(s)
    BY <1>2
  <2>3. ToSet(Append(s, b)) = ToSet(s) \cup {b} /\ ToSet(Append(Body(s), b)) = ToSet(Body(s)) \cup {b}
    BY <2>2, MembersAppend
  <2>4. Append(s, b) \in Seq(BlockSet) /\ Append(Body(s), b) \in Seq(BlockSet)
    BY <2>2
  <2>5. CASE b.level = 0
    BY <2>1, <2>2, <2>3, <2>4, <2>5
  <2>6. CASE b.level # 0
    BY <2>1, <2>2, <2>3, <2>4, <2>6
  <2> QED BY <2>5, <2>6
<1>3. bs \in T
  <2> HIDE DEF T
  <2> QED BY <1>1, <1>2, SeqInduction
<1> QED BY <1>3

\* the overlap fits, and repeats lines of the blocks it closes
LEMMA OverlapOf ==
  ASSUME NEW bs \in Seq(BlockSet)
  PROVE  /\ Overlap(bs) \in Seq(BlockSet) /\ Total(Overlap(bs)) <= OverlapTokens
         /\ ToSet(Overlap(bs)) \subseteq ToSet(bs)
         /\ ToSet(LinesOf(Overlap(bs))) \subseteq ToSet(LinesOf(bs))
<1> DEFINE body == Body(bs)
           Fits(n) == Total(SubSeq(body, n, Len(body))) <= OverlapTokens
           at == CHOOSE n \in 1..Len(body) + 1 : Fits(n) /\ \A k \in 1..n - 1 : ~ Fits(k)
           tail == SubSeq(body, at, Len(body))
<1>1. Overlap(bs) = tail
  BY DEF Overlap, Body
<1>2. body \in Seq(BlockSet) /\ ToSet(body) \subseteq ToSet(bs)
  BY BodyOf
<1> HIDE DEF body
<1>3. PICK m \in Nat : m = Len(body)
  BY <1>2
<1>4. at \in 1..m + 1 /\ Fits(at)
  <2> DEFINE S == {n \in 1..m + 1 : Fits(n)}
  <2>1. m + 1 \in S
    <3>1. SubSeq(body, m + 1, m) = <<>>
      BY SubSeqEmpty
    <3>2. Total(<<>>) = 0
      BY NoLines
    <3>3. m + 1 \in 1..m + 1 /\ 0 <= OverlapTokens
      BY ChunkingAssumption
    <3> QED BY <1>3, <3>1, <3>2, <3>3
  <2>2. PICK n \in S : \A j \in S : n <= j
    <3>1. S \in SUBSET Nat
      OBVIOUS
    <3> HIDE DEF S
    <3> QED BY <2>1, <3>1, Counting!LeastOf
  <2>3. n \in 1..Len(body) + 1 /\ Fits(n) /\ \A k \in 1..n - 1 : ~ Fits(k)
    <3>1. ASSUME NEW k \in 1..n - 1  PROVE ~ Fits(k)
      <4>1. k \in 1..m + 1 /\ k < n
        OBVIOUS
      <4> HIDE DEF Fits
      <4> QED BY <2>2, <4>1
    <3> HIDE DEF Fits
    <3> QED BY <1>3, <2>2, <3>1
  <2> HIDE DEF Fits
  <2> QED BY <1>3, <2>3
<1> HIDE DEF at
<1>5. tail \in Seq(BlockSet) /\ ToSet(tail) \subseteq ToSet(body)
  <2>1. DOMAIN body = 1..m /\ at \in Int /\ m \in Int /\ \A i \in at..m : i \in 1..m
    BY <1>2, <1>3, <1>4
  <2>2. \A i \in at..m : body[i] \in ToSet(body)
    BY <2>1 DEF ToSet
  <2>3. SubSeq(body, at, m) \in Seq(ToSet(body))
    BY <2>1, <2>2, SubSeqProperties
  <2>4. ToSet(body) \subseteq BlockSet
    BY <1>2, MembersIn DEF ToSet
  <2>5. tail \in Seq(ToSet(body))
    BY <1>3, <2>3
  <2> HIDE DEF tail
  <2>6. tail \in Seq(BlockSet)
    BY <2>4, <2>5, SeqMonotonic
  <2>7. ToSet(tail) \subseteq ToSet(body)
    BY <2>5 DEF ToSet
  <2> QED BY <2>6, <2>7
<1>6. Total(tail) <= OverlapTokens
  BY <1>4
<1> HIDE DEF tail
<1>7. ToSet(LinesOf(tail)) \subseteq ToSet(LinesOf(bs))
  <2>1. \A x \in ToSet(tail) : x \in ToSet(bs)
    BY <1>2, <1>5
  <2>2. ASSUME NEW i \in DOMAIN tail  PROVE \E j \in DOMAIN bs : tail[i] = bs[j]
    BY <2>1 DEF ToSet
  <2> QED BY <1>5, <2>2, LinesInBlocks
<1> QED BY <1>1, <1>2, <1>5, <1>6, <1>7

-----------------------------------------------------------------------------
(* The parts of a block too large *)

LineSeqs == Seq(Lines)

\* what the parts hold, up to a part
Shown(parts, i) == UNION {ToSet(parts[d]) : d \in 1..i}
\* a line comes in a part only when those before it have come
InOrder(s, parts) ==
  \A i \in DOMAIN parts : \A x \in ToSet(parts[i]) :
    \E k \in DOMAIN s : s[k] = x /\ \A h \in 1..k : s[h] \in Shown(parts, i)

\* what the first of two runs of parts show is not changed by the second
LEMMA ShownGrows ==
  ASSUME NEW S, NEW p \in Seq(S), NEW q \in Seq(S)
  PROVE  /\ \A i \in 0..Len(p) : Shown(p \o q, i) = Shown(p, i)
         /\ \A i \in 0..Len(q) : Shown(p \o q, Len(p) + i) = Shown(p, Len(p)) \cup Shown(q, i)
<1> DEFINE u == p \o q
<1>1. PICK n \in Nat, m \in Nat : n = Len(p) /\ m = Len(q)
  OBVIOUS
<1>2. \A d \in 1..n : u[d] = p[d]
  BY <1>1, ConcatOf
<1>4. \A d \in 1..m : u[n + d] = q[d]
  BY <1>1, ConcatOf
<1> HIDE DEF u
<1>3. \A d \in 1..n : u[d] = p[d]
  BY <1>2
<1>5. ASSUME NEW i \in 0..n  PROVE Shown(u, i) = Shown(p, i)
  BY <1>3 DEF Shown
<1>6. ASSUME NEW i \in 0..m  PROVE Shown(u, n + i) = Shown(p, n) \cup Shown(q, i)
  <2>1. ASSUME NEW x \in Shown(p, n)  PROVE x \in Shown(u, n + i)
    <3>1. PICK d \in 1..n : x \in ToSet(p[d])
      BY <2>1 DEF Shown
    <3>2. d \in 1..n + i /\ x \in ToSet(u[d])
      BY <1>3, <3>1
    <3> QED BY <3>2 DEF Shown
  <2>2. ASSUME NEW x \in Shown(q, i)  PROVE x \in Shown(u, n + i)
    <3>1. PICK d \in 1..i : x \in ToSet(q[d])
      BY <2>2 DEF Shown
    <3>2. d \in 1..m /\ n + d \in 1..n + i
      OBVIOUS
    <3>3. x \in ToSet(u[n + d])
      BY <1>4, <3>1, <3>2
    <3> QED BY <3>2, <3>3 DEF Shown
  <2>3. ASSUME NEW x \in Shown(u, n + i)  PROVE x \in Shown(p, n) \cup Shown(q, i)
    <3>1. PICK d \in 1..n + i : x \in ToSet(u[d])
      BY <2>3 DEF Shown
    <3>2. CASE d <= n
      <4>1. d \in 1..n
        BY <3>2
      <4> QED BY <1>3, <3>1, <4>1 DEF Shown
    <3>3. CASE ~ (d <= n)
      <4>1. PICK e \in Nat : e = d - n
        BY <3>3
      <4>2. e \in 1..i /\ e \in 1..m /\ d = n + e
        BY <3>3, <4>1
      <4>3. x \in ToSet(q[e])
        BY <1>4, <3>1, <4>2
      <4> QED BY <4>2, <4>3 DEF Shown
    <3> QED BY <3>2, <3>3
  <2> QED BY <2>1, <2>2, <2>3
<1> QED BY <1>1, <1>5, <1>6 DEF u

\* the parts that a block too large is cut into
CutsHold(s, parts) ==
  /\ parts \in Seq(LineSeqs) /\ parts # <<>>
  /\ \A i \in DOMAIN parts : Len(parts[i]) = 1 \/ Cost(parts[i]) <= MaxTokens
  /\ ToSet(s) \subseteq Shown(parts, Len(parts))
  /\ InOrder(s, parts)

\* a line more: the parts keep their size, their lines and the order
LEMMA CutsAppend ==
  ASSUME NEW s \in Seq(Lines), NEW l \in Lines, NEW parts, CutsHold(s, parts)
  PROVE  CutsHold(Append(s, l), CutLine({}, parts, l))
<1> DEFINE new == CutLine({}, parts, l)
           t == Append(s, l)
<1>1. PICK front \in Seq(LineSeqs), last \in LineSeqs : parts = Append(front, last)
  BY SequenceEmptyOrAppend DEF CutsHold
<1>2. Front(parts) = front /\ Last(parts) = last
  BY <1>1, EndsOf
<1>3. PICK n \in Nat, m \in Nat : n = Len(front) /\ m = Len(s)
  OBVIOUS
<1>4. /\ parts \in Seq(LineSeqs) /\ Len(parts) = n + 1 /\ DOMAIN parts = 1..n + 1 /\ parts[n + 1] = last
      /\ \A i \in 1..n : parts[i] = front[i]
  BY <1>1, <1>3, AppendOf
<1>5. DOMAIN s = 1..m /\ DOMAIN t = 1..m + 1 /\ t[m + 1] = l /\ \A k \in 1..m : t[k] = s[k]
  BY <1>3
<1>6. ToSet(t) = ToSet(s) \cup {l} /\ t \in Seq(Lines)
  BY MembersAppend
<1>7. <<l>> \in LineSeqs /\ Len(<<l>>) = 1 /\ ToSet(<<l>>) = {l}
  BY DEF ToSet, LineSeqs
<1>8. /\ Append(last, l) \in LineSeqs /\ ToSet(Append(last, l)) = ToSet(last) \cup {l}
      /\ last = <<>> => Len(Append(last, l)) = 1
  BY MembersAppend DEF LineSeqs
<1>9. \A i \in 1..n + 1 : Len(parts[i]) = 1 \/ Cost(parts[i]) <= MaxTokens
  BY <1>4 DEF CutsHold
<1> HIDE DEF t
\* one more part, or more in the last one
<1>10. ASSUME NEW v \in Seq(LineSeqs), NEW k \in {n + 1, n + 2}, Len(v) = k,
              \A i \in 1..n : v[i] = parts[i],
              k = n + 1 => ToSet(v[k]) = ToSet(last) \cup {l},
              k = n + 2 => ToSet(v[k]) = {l} /\ v[n + 1] = parts[n + 1]
       PROVE  ToSet(t) \subseteq Shown(v, Len(v)) /\ InOrder(t, v)
  <2>1. DOMAIN v = 1..k /\ k \in Nat
    BY <1>10
  <2>2. \A i \in 1..n + 1 : i \in 1..k /\ ToSet(parts[i]) \subseteq ToSet(v[i])
    <3> TAKE i \in 1..n + 1
    <3>1. CASE i \in 1..n
      BY <1>10, <3>1
    <3>2. CASE i = n + 1
      BY <1>4, <1>10, <3>2
    <3> QED BY <3>1, <3>2
  <2>3. \A i \in 1..n + 1 : Shown(parts, i) \subseteq Shown(v, i)
    <3> TAKE i \in 1..n + 1
    <3>1. \A d \in 1..i : ToSet(parts[d]) \subseteq ToSet(v[d])
      BY <2>2
    <3> QED BY <3>1 DEF Shown
  <2>4. ToSet(s) \subseteq Shown(parts, n + 1)
    BY <1>4 DEF CutsHold
  <2>5. Shown(v, n + 1) \subseteq Shown(v, k)
    <3>1. \A d \in 1..n + 1 : d \in 1..k
      BY <1>10
    <3> QED BY <3>1 DEF Shown
  <2>6. l \in Shown(v, k)
    <3>1. l \in ToSet(v[k]) /\ k \in 1..k
      BY <1>10, <2>1
    <3> QED BY <3>1 DEF Shown
  <2>7. ToSet(t) \subseteq Shown(v, k)
    <3>1. n + 1 \in 1..n + 1
      OBVIOUS
    <3> QED BY <1>6, <2>3, <2>4, <2>5, <2>6, <3>1
  <2>8. ASSUME NEW i \in 1..k, NEW x \in ToSet(v[i])
        PROVE  \E j \in DOMAIN t : t[j] = x /\ \A h \in 1..j : t[h] \in Shown(v, i)
    <3>1. CASE i \in 1..n + 1 /\ x \in ToSet(parts[i])
      <4>1. PICK j \in DOMAIN s : s[j] = x /\ \A h \in 1..j : s[h] \in Shown(parts, i)
        BY <1>4, <3>1 DEF CutsHold, InOrder
      <4>2. j \in DOMAIN t /\ t[j] = x
        BY <1>5, <4>1
      <4>3. \A h \in 1..j : t[h] = s[h]
        BY <1>5
      <4>4. \A h \in 1..j : t[h] \in Shown(v, i)
        BY <2>3, <3>1, <4>1, <4>3
      <4> QED BY <4>2, <4>4
    <3>2. CASE i = k /\ x = l
      <4>1. m + 1 \in DOMAIN t /\ t[m + 1] = x
        BY <1>5, <3>2
      <4>2. \A h \in 1..m + 1 : t[h] \in ToSet(t)
        BY <1>5 DEF ToSet
      <4>3. \A h \in 1..m + 1 : t[h] \in Shown(v, i)
        BY <2>7, <3>2, <4>2
      <4> QED BY <4>1, <4>3
    <3>3. i \in 1..n => x \in ToSet(parts[i]) /\ i \in 1..n + 1
      BY <1>10
    <3>4. i = n + 1 /\ k = n + 1 => x \in ToSet(parts[i]) \cup {l}
      BY <1>4, <1>10
    <3>5. i = n + 1 /\ k = n + 2 => x \in ToSet(parts[i])
      BY <1>10
    <3>6. i = n + 2 => i = k /\ x = l
      BY <1>10
    <3> QED BY <1>10, <3>1, <3>2, <3>3, <3>4, <3>5, <3>6
  <2> QED BY <1>10, <2>1, <2>7, <2>8 DEF InOrder
<1>11. CASE Cost(Append(last, l)) > MaxTokens /\ last # <<>>
  <2> DEFINE one == <<l>>
  <2>1. new = Append(parts, one)
    BY <1>2, <1>11 DEF CutLine
  <2>2. one \in LineSeqs /\ Len(one) = 1 /\ ToSet(one) = {l}
    BY <1>7
  <2> HIDE DEF one
  <2>3. PICK k \in Nat, j \in Nat : k = n + 1 /\ j = k + 1 /\ j = n + 2
    OBVIOUS
  <2>4. parts \in Seq(LineSeqs) /\ Len(parts) = k
    BY <1>4, <2>3
  <2>5. /\ new \in Seq(LineSeqs) /\ Len(new) = k + 1 /\ new # <<>> /\ DOMAIN new = 1..k + 1
        /\ new[k + 1] = one /\ \A i \in 1..k : new[i] = parts[i]
    <3>1. /\ Append(parts, one) \in Seq(LineSeqs) /\ Len(Append(parts, one)) = k + 1 /\ Append(parts, one) # <<>>
          /\ DOMAIN Append(parts, one) = 1..k + 1
          /\ Append(parts, one)[k + 1] = one /\ \A i \in 1..k : Append(parts, one)[i] = parts[i]
      BY <2>2, <2>4, AppendOf
    <3> QED BY <2>1, <3>1, Zenon
  <2> HIDE DEF new
  <2>6. Len(new) = j /\ DOMAIN new = 1..j /\ new[j] = one
    BY <2>3, <2>5
  <2>7. ToSet(t) \subseteq Shown(new, Len(new)) /\ InOrder(t, new)
    <3>1. \A i \in 1..n : new[i] = parts[i]
      BY <2>3, <2>5
    <3>2. j \in {n + 1, n + 2} /\ j # n + 1 /\ ToSet(new[j]) = {l}
      BY <2>2, <2>3, <2>6
    <3>3. new[n + 1] = parts[n + 1]
      BY <2>3, <2>5
    <3> QED BY <1>10, <2>5, <2>6, <3>1, <3>2, <3>3
  <2>8. ASSUME NEW i \in 1..j  PROVE Len(new[i]) = 1 \/ Cost(new[i]) <= MaxTokens
    <3>1. CASE i = j
      BY <2>2, <2>6, <3>1, Zenon
    <3>2. CASE i # j
      <4>1. i \in 1..k /\ i \in 1..n + 1
        BY <2>3, <3>2
      <4> QED BY <1>9, <2>5, <4>1
    <3> QED BY <3>1, <3>2
  <2> QED BY <2>5, <2>6, <2>7, <2>8 DEF CutsHold, t, new
<1>12. CASE ~ (Cost(Append(last, l)) > MaxTokens /\ last # <<>>)
  <2> DEFINE more == Append(last, l)
  <2>1. new = Append(front, more)
    BY <1>2, <1>12 DEF CutLine
  <2>2. more \in LineSeqs /\ ToSet(more) = ToSet(last) \cup {l} /\ (last = <<>> => Len(more) = 1)
    BY <1>8
  <2>3. ~ (Cost(more) > MaxTokens /\ last # <<>>)
    BY <1>12
  <2> HIDE DEF more
  <2>4. PICK k \in Nat : k = n + 1
    OBVIOUS
  <2>5. /\ new \in Seq(LineSeqs) /\ Len(new) = n + 1 /\ new # <<>> /\ DOMAIN new = 1..n + 1
        /\ new[n + 1] = more /\ \A i \in 1..n : new[i] = front[i]
    <3>1. /\ Append(front, more) \in Seq(LineSeqs) /\ Len(Append(front, more)) = n + 1
          /\ Append(front, more) # <<>> /\ DOMAIN Append(front, more) = 1..n + 1
          /\ Append(front, more)[n + 1] = more /\ \A i \in 1..n : Append(front, more)[i] = front[i]
      <4> HIDE DEF new
      <4>1. front \in Seq(LineSeqs) /\ n = Len(front) /\ more \in LineSeqs
        BY <1>3, <2>2
      <4> QED BY <4>1, AppendOf
    <3> QED BY <2>1, <3>1, Zenon
  <2> HIDE DEF new
  <2>6. /\ new \in Seq(LineSeqs) /\ Len(new) = k /\ DOMAIN new = 1..k /\ new[k] = more
        /\ \A i \in 1..n : new[i] = parts[i]
    BY <1>4, <2>4, <2>5
  <2>7. ToSet(t) \subseteq Shown(new, Len(new)) /\ InOrder(t, new)
    <3>1. k \in {n + 1, n + 2} /\ k # n + 2 /\ ToSet(new[k]) = ToSet(last) \cup {l}
      BY <2>2, <2>4, <2>6
    <3> QED BY <1>10, <2>6, <3>1
  <2>8. Len(more) = 1 \/ Cost(more) <= MaxTokens
    <3>1. Cost(more) \in Nat /\ MaxTokens \in Nat
      BY <2>2, CostOf, ChunkingAssumption DEF LineSeqs
    <3> QED BY <2>2, <2>3, <3>1
  <2>9. ASSUME NEW i \in 1..k  PROVE Len(new[i]) = 1 \/ Cost(new[i]) <= MaxTokens
    <3>1. CASE i = k
      BY <2>6, <2>8, <3>1
    <3>2. CASE i # k
      <4>1. i \in 1..n /\ i \in 1..n + 1
        BY <2>4, <3>2
      <4> QED BY <1>9, <2>6, <4>1
    <3> QED BY <3>1, <3>2
  <2> QED BY <2>5, <2>6, <2>7, <2>9 DEF CutsHold, t, new
<1> QED BY <1>11, <1>12

\* the parts of a block too large fit or are a line, show every line and keep the order
LEMMA CutsOf ==
  ASSUME NEW lines \in Seq(Lines)
  PROVE  CutsHold(lines, CutLines(lines))
<1> DEFINE T == {s \in Seq(Lines) : CutsHold(s, CutLines(s))}
<1>1. <<>> \in T
  <2>1. <<>> \in Seq(Lines) /\ << <<>> >> \in Seq(LineSeqs) /\ << <<>> >> # <<>> /\ ToSet(<<>>) = {}
    BY EmptySeq, NoMembers DEF LineSeqs
  <2>2. \A i \in DOMAIN << <<>> >> : << <<>> >>[i] = <<>>
    OBVIOUS
  <2>5. Cost(<<>>) <= MaxTokens
    BY <2>1, CostFold, ChunkingAssumption
  <2>3. CutsHold(<<>>, << <<>> >>)
    BY <2>1, <2>2, <2>5 DEF CutsHold, InOrder
  <2>4. CutLines(<<>>) = << <<>> >>
    BY CutsFold
  <2> QED BY <2>1, <2>3, <2>4
<1>2. ASSUME NEW s \in Seq(Lines), NEW l \in Lines, s \in T  PROVE Append(s, l) \in T
  <2>1. CutLines(Append(s, l)) = CutLine({}, CutLines(s), l)
    BY CutsFold
  <2>2. CutsHold(s, CutLines(s)) /\ Append(s, l) \in Seq(Lines)
    BY <1>2
  <2>3. CutsHold(Append(s, l), CutLine({}, CutLines(s), l))
    BY <2>2, CutsAppend
  <2> QED BY <2>1, <2>2, <2>3
<1> HIDE DEF T
<1> QED BY <1>1, <1>2, SeqInduction DEF T

-----------------------------------------------------------------------------
(* The chunks and the buffer *)

\* more lines after s leave the order of the parts
LEMMA InOrderGrows ==
  ASSUME NEW s \in Seq(Lines), NEW t \in Seq(Lines), NEW parts, InOrder(s, parts)
  PROVE  InOrder(s \o t, parts)
<1> DEFINE u == s \o t
<1>1. PICK n \in Nat, m \in Nat : n = Len(s) /\ m = Len(t)
  OBVIOUS
<1>2. DOMAIN s = 1..n /\ DOMAIN u = 1..n + m /\ \A i \in 1..n : u[i] = s[i]
  BY <1>1, ConcatOf
<1> HIDE DEF u
<1>3. ASSUME NEW i \in DOMAIN parts, NEW x \in ToSet(parts[i])
      PROVE  \E k \in DOMAIN u : u[k] = x /\ \A h \in 1..k : u[h] \in Shown(parts, i)
  <2>1. PICK k \in DOMAIN s : s[k] = x /\ \A h \in 1..k : s[h] \in Shown(parts, i)
    BY DEF InOrder
  <2>2. k \in 1..n /\ k \in DOMAIN u /\ \A h \in 1..k : h \in 1..n
    BY <1>2
  <2> QED BY <1>2, <2>1, <2>2
<1> QED BY <1>3 DEF InOrder, u

\* a part more, of lines of s, that shows what was missing
LEMMA InOrderAppend ==
  ASSUME NEW s \in Seq(Lines), NEW S, NEW parts \in Seq(S), NEW p \in S, InOrder(s, parts),
         ToSet(s) \subseteq Shown(parts, Len(parts)) \cup ToSet(p), ToSet(p) \subseteq ToSet(s)
  PROVE  /\ ToSet(s) \subseteq Shown(Append(parts, p), Len(parts) + 1)
         /\ InOrder(s, Append(parts, p))
<1> DEFINE v == Append(parts, p)
<1>1. PICK n \in Nat, m \in Nat : n = Len(parts) /\ m = Len(s)
  OBVIOUS
<1>2. DOMAIN parts = 1..n /\ DOMAIN v = 1..n + 1 /\ v[n + 1] = p /\ \A i \in 1..n : v[i] = parts[i]
  BY <1>1, AppendOf
<1>3. DOMAIN s = 1..m
  BY <1>1
<1> HIDE DEF v
<1>4. \A i \in 0..n : Shown(v, i) = Shown(parts, i)
  BY <1>2 DEF Shown
<1>5. Shown(v, n + 1) = Shown(parts, n) \cup ToSet(p)
  <2>1. 1..n + 1 = (1..n) \cup {n + 1}
    OBVIOUS
  <2> QED BY <1>2, <2>1 DEF Shown
<1>6. ToSet(s) \subseteq Shown(v, n + 1)
  BY <1>1, <1>5
<1>7. ASSUME NEW i \in DOMAIN v, NEW x \in ToSet(v[i])
      PROVE  \E k \in DOMAIN s : s[k] = x /\ \A h \in 1..k : s[h] \in Shown(v, i)
  <2>1. CASE i = n + 1
    <3>1. x \in ToSet(s)
      BY <1>2, <2>1
    <3>2. PICK k \in 1..m : s[k] = x
      BY <1>3, <3>1 DEF ToSet
    <3>3. \A h \in 1..k : s[h] \in ToSet(s)
      BY <1>3 DEF ToSet
    <3> QED BY <1>3, <1>6, <2>1, <3>2, <3>3
  <2>2. CASE i # n + 1
    <3>1. i \in 1..n /\ i \in 0..n /\ v[i] = parts[i]
      BY <1>2, <2>2
    <3> QED BY <1>2, <1>4, <3>1 DEF InOrder
  <2> QED BY <2>1, <2>2
<1> QED BY <1>1, <1>6, <1>7 DEF InOrder, v

\* the parts of two runs of lines, one after the other
LEMMA InOrderConcat ==
  ASSUME NEW s \in Seq(Lines), NEW t \in Seq(Lines), NEW S, NEW p \in Seq(S), NEW q \in Seq(S),
         InOrder(s, p), InOrder(t, q),
         ToSet(s) \subseteq Shown(p, Len(p)), ToSet(t) \subseteq Shown(q, Len(q))
  PROVE  /\ InOrder(s \o t, p \o q)
         /\ ToSet(s \o t) \subseteq Shown(p \o q, Len(p \o q))
<1> DEFINE u == s \o t
           v == p \o q
<1>1. PICK n \in Nat, m \in Nat, a \in Nat, c \in Nat : n = Len(p) /\ m = Len(q) /\ a = Len(s) /\ c = Len(t)
  OBVIOUS
<1>2. /\ DOMAIN s = 1..a /\ DOMAIN t = 1..c /\ DOMAIN u = 1..a + c
      /\ \A i \in 1..a : u[i] = s[i]
      /\ \A i \in 1..c : u[a + i] = t[i]
  BY <1>1, ConcatOf
<1>3. /\ DOMAIN p = 1..n /\ DOMAIN q = 1..m /\ DOMAIN v = 1..n + m /\ Len(v) = n + m
      /\ \A i \in 1..n : v[i] = p[i]
      /\ \A i \in 1..m : v[n + i] = q[i]
  BY <1>1, ConcatOf
<1>4. /\ \A i \in 0..n : Shown(v, i) = Shown(p, i)
      /\ \A i \in 0..m : Shown(v, n + i) = Shown(p, n) \cup Shown(q, i)
  BY <1>1, ShownGrows
<1>5. ToSet(u) = ToSet(s) \cup ToSet(t)
  BY MembersConcat
<1> HIDE DEF u, v
<1>6. ToSet(u) \subseteq Shown(v, n + m)
  <2>1. m \in 0..m
    OBVIOUS
  <2> QED BY <1>1, <1>4, <1>5, <2>1
<1>7. ASSUME NEW i \in 1..n, NEW x \in ToSet(v[i])
      PROVE  \E k \in DOMAIN u : u[k] = x /\ \A h \in 1..k : u[h] \in Shown(v, i)
  <2>1. i \in DOMAIN p /\ i \in 0..n /\ x \in ToSet(p[i])
    BY <1>3
  <2>2. PICK k \in DOMAIN s : s[k] = x /\ \A h \in 1..k : s[h] \in Shown(p, i)
    BY <2>1 DEF InOrder
  <2>3. k \in 1..a /\ k \in DOMAIN u /\ \A h \in 1..k : h \in 1..a
    BY <1>2
  <2> QED BY <1>2, <1>4, <2>1, <2>2, <2>3
<1>8. ASSUME NEW e \in 1..m, NEW x \in ToSet(v[n + e])
      PROVE  \E k \in DOMAIN u : u[k] = x /\ \A h \in 1..k : u[h] \in Shown(v, n + e)
  <2>1. e \in DOMAIN q /\ e \in 0..m /\ x \in ToSet(q[e])
    BY <1>3, <1>8
  <2>2. PICK k \in 1..c : t[k] = x /\ \A h \in 1..k : t[h] \in Shown(q, e)
    BY <1>2, <2>1 DEF InOrder
  <2>3. Shown(v, n + e) = Shown(p, n) \cup Shown(q, e)
    BY <1>4, <2>1
  <2>4. ASSUME NEW h \in 1..a + k  PROVE u[h] \in Shown(v, n + e)
    <3>1. CASE h <= a
      <4>1. h \in 1..a /\ u[h] = s[h] /\ s[h] \in ToSet(s)
        BY <1>2, <3>1 DEF ToSet
      <4> QED BY <1>1, <2>3, <4>1
    <3>2. CASE ~ (h <= a)
      <4>1. PICK g \in Nat : g = h - a
        BY <3>2
      <4>2. g \in 1..k /\ g \in 1..c /\ h = a + g
        BY <3>2, <4>1
      <4> QED BY <1>2, <2>2, <2>3, <4>2
    <3> QED BY <3>1, <3>2
  <2>5. a + k \in DOMAIN u /\ u[a + k] = x
    BY <1>2, <2>2
  <2> QED BY <2>4, <2>5
<1>9. ASSUME NEW i \in DOMAIN v, NEW x \in ToSet(v[i])
      PROVE  \E k \in DOMAIN u : u[k] = x /\ \A h \in 1..k : u[h] \in Shown(v, i)
  <2>1. CASE i \in 1..n
    BY <1>7, <2>1
  <2>2. CASE i \notin 1..n
    <3>1. PICK e \in Nat : e = i - n
      BY <1>3, <2>2
    <3>2. e \in 1..m /\ i = n + e
      BY <1>3, <2>2, <3>1
    <3> QED BY <1>8, <3>2
  <2> QED BY <2>1, <2>2
<1> QED BY <1>3, <1>6, <1>9 DEF InOrder, u, v

-----------------------------------------------------------------------------

\* the chunks of blocks bs, with lines parts
ClosedOver(bs, parts) ==
  /\ parts \in Seq(LineSeqs)
  /\ \A i \in DOMAIN bs : Tokens(bs[i].lines) <= MaxTokens => \E d \in DOMAIN parts : Inside(bs[i].lines, parts[d])
  /\ ToSet(LinesOf(bs)) \subseteq Shown(parts, Len(parts))
  /\ InOrder(LinesOf(bs), parts)

\* the same with a buffer
OpenOver(bs, parts, buf) ==
  /\ parts \in Seq(LineSeqs) /\ buf \in Seq(BlockSet)
  /\ \A i \in DOMAIN bs : Tokens(bs[i].lines) <= MaxTokens =>
       \/ \E d \in DOMAIN parts : Inside(bs[i].lines, parts[d])
       \/ \E k \in DOMAIN buf : buf[k] = bs[i]
  /\ ToSet(LinesOf(bs)) \subseteq Shown(parts, Len(parts)) \cup ToSet(LinesOf(buf))
  /\ ToSet(LinesOf(buf)) \subseteq ToSet(LinesOf(bs))
  /\ InOrder(LinesOf(bs), parts)

\* the chunk of a buffer closes it
LEMMA BufferCloses ==
  ASSUME NEW bs \in Seq(BlockSet), NEW parts, NEW buf, OpenOver(bs, parts, buf)
  PROVE  /\ buf = <<>> => ClosedOver(bs, parts)
         /\ ClosedOver(bs, Append(parts, LinesOf(buf)))
<1>1. ASSUME buf = <<>>  PROVE ClosedOver(bs, parts)
  <2>1. ToSet(LinesOf(buf)) = {} /\ DOMAIN buf = {}
    BY <1>1, NoLines, NoMembers
  <2> QED BY <2>1 DEF OpenOver, ClosedOver
<1>2. ClosedOver(bs, Append(parts, LinesOf(buf)))
  <2> DEFINE p == LinesOf(buf)
             v == Append(parts, p)
  <2>1. parts \in Seq(LineSeqs) /\ buf \in Seq(BlockSet)
    BY DEF OpenOver
  <2>2. p \in LineSeqs /\ LinesOf(bs) \in Seq(Lines)
    <3>1. \A s \in Seq(BlockSet) : LinesOf(s) \in Seq(Lines)
      BY LinesOfTyped
    <3> QED BY <2>1, <3>1 DEF LineSeqs
  <2>3. PICK n \in Nat : n = Len(parts)
    BY <2>1
  <2>5. \A k \in DOMAIN buf : Inside(buf[k].lines, p)
    BY <2>1, BlockInside
  <2>6. /\ ToSet(LinesOf(bs)) \subseteq Shown(parts, Len(parts)) \cup ToSet(p)
        /\ ToSet(p) \subseteq ToSet(LinesOf(bs))
        /\ InOrder(LinesOf(bs), parts)
    BY DEF OpenOver
  <2> HIDE DEF p
  <2>7. /\ v \in Seq(LineSeqs) /\ DOMAIN v = 1..n + 1 /\ Len(v) = n + 1 /\ DOMAIN parts = 1..n
        /\ v[n + 1] = p /\ \A i \in 1..n : v[i] = parts[i]
    BY <2>1, <2>2, <2>3, AppendOf
  <2>8. ToSet(LinesOf(bs)) \subseteq Shown(v, n + 1) /\ InOrder(LinesOf(bs), v)
    BY <2>1, <2>2, <2>3, <2>6, InOrderAppend
  <2> HIDE DEF v
  <2>9. ASSUME NEW i \in DOMAIN bs, Tokens(bs[i].lines) <= MaxTokens
        PROVE  \E d \in DOMAIN v : Inside(bs[i].lines, v[d])
    <3>1. CASE \E d \in DOMAIN parts : Inside(bs[i].lines, parts[d])
      <4>1. PICK d \in 1..n : Inside(bs[i].lines, parts[d])
        BY <2>7, <3>1
      <4>2. d \in 1..n + 1 /\ v[d] = parts[d]
        BY <2>7
      <4> QED BY <2>7, <4>1, <4>2
    <3>2. CASE \E k \in DOMAIN buf : buf[k] = bs[i]
      <4>1. Inside(bs[i].lines, p)
        BY <2>5, <3>2
      <4>2. n + 1 \in 1..n + 1
        OBVIOUS
      <4> QED BY <2>7, <4>1, <4>2
    <3> QED BY <2>9, <3>1, <3>2 DEF OpenOver
  <2>10. ClosedOver(bs, v)
    BY <2>7, <2>8, <2>9 DEF ClosedOver
  <2> QED BY <2>10 DEF v, p
<1> QED BY <1>1, <1>2

\* a buffer opens with an overlap
LEMMA BufferOpens ==
  ASSUME NEW bs \in Seq(BlockSet), NEW parts, NEW buf \in Seq(BlockSet), ClosedOver(bs, parts),
         ToSet(LinesOf(buf)) \subseteq ToSet(LinesOf(bs))
  PROVE  OpenOver(bs, parts, buf)
BY DEF ClosedOver, OpenOver

\* a block more in the buffer
LEMMA BufferGrows ==
  ASSUME NEW bs \in Seq(BlockSet), NEW parts, NEW buf, OpenOver(bs, parts, buf), NEW b \in BlockSet
  PROVE  OpenOver(Append(bs, b), parts, Append(buf, b))
<1> DEFINE cs == Append(bs, b)
           new == Append(buf, b)
<1>1. buf \in Seq(BlockSet) /\ new \in Seq(BlockSet)
  BY DEF OpenOver
<1>2. PICK n \in Nat, m \in Nat : n = Len(bs) /\ m = Len(buf)
  BY <1>1
<1>3. /\ DOMAIN cs = 1..n + 1 /\ DOMAIN bs = 1..n /\ cs[n + 1] = b /\ \A i \in 1..n : cs[i] = bs[i]
      /\ DOMAIN new = 1..m + 1 /\ DOMAIN buf = 1..m /\ new[m + 1] = b /\ \A i \in 1..m : new[i] = buf[i]
  BY <1>1, <1>2, AppendOf
<1>4. LinesOf(cs) = LinesOf(bs) \o b.lines /\ LinesOf(new) = LinesOf(buf) \o b.lines
  BY <1>1, LinesOfBlocks
<1>5. LinesOf(bs) \in Seq(Lines) /\ LinesOf(buf) \in Seq(Lines) /\ b.lines \in Seq(Lines)
  BY <1>1, LinesOfTyped DEF BlockSet
<1> HIDE DEF cs, new
<1>7. ToSet(LinesOf(cs)) = ToSet(LinesOf(bs)) \cup ToSet(b.lines) /\ ToSet(LinesOf(new)) = ToSet(LinesOf(buf)) \cup ToSet(b.lines)
  BY <1>4, <1>5, MembersConcat
<1>8. InOrder(LinesOf(cs), parts)
  BY <1>4, <1>5, InOrderGrows DEF OpenOver
<1>9. ASSUME NEW i \in DOMAIN cs, Tokens(cs[i].lines) <= MaxTokens
      PROVE  \/ \E d \in DOMAIN parts : Inside(cs[i].lines, parts[d])
             \/ \E k \in DOMAIN new : new[k] = cs[i]
  <2>1. CASE i = n + 1
    <3>1. m + 1 \in DOMAIN new /\ new[m + 1] = cs[i]
      BY <1>3, <2>1
    <3> QED BY <3>1
  <2>2. CASE i # n + 1
    <3>1. i \in DOMAIN bs /\ cs[i] = bs[i]
      BY <1>3, <2>2
    <3>2. CASE \E k \in DOMAIN buf : buf[k] = bs[i]
      <4>1. PICK k \in 1..m : buf[k] = bs[i]
        BY <1>3, <3>2
      <4>2. k \in 1..m + 1 /\ new[k] = buf[k]
        BY <1>3
      <4> QED BY <1>3, <3>1, <4>1, <4>2
    <3> QED BY <1>9, <3>1, <3>2 DEF OpenOver
  <2> QED BY <2>1, <2>2
<1>10. OpenOver(cs, parts, new)
  BY <1>1, <1>7, <1>8, <1>9 DEF OpenOver
<1> QED BY <1>10 DEF cs, new

\* a block too large is cut into chunks of its own
LEMMA BlockIsCut ==
  ASSUME NEW bs \in Seq(BlockSet), NEW parts, ClosedOver(bs, parts), NEW b \in BlockSet, Tokens(b.lines) > MaxTokens,
         NEW cuts, CutsHold(b.lines, cuts)
  PROVE  ClosedOver(Append(bs, b), parts \o cuts)
<1> DEFINE cs == Append(bs, b)
           v == parts \o cuts
<1>1. parts \in Seq(LineSeqs) /\ cuts \in Seq(LineSeqs)
  BY DEF ClosedOver, CutsHold
<1>2. PICK n \in Nat, m \in Nat, k \in Nat : n = Len(bs) /\ m = Len(parts) /\ k = Len(cuts)
  BY <1>1
<1>3. /\ DOMAIN cs = 1..n + 1 /\ DOMAIN bs = 1..n /\ cs[n + 1] = b /\ \A i \in 1..n : cs[i] = bs[i]
  BY <1>2, AppendOf
<1>4. /\ v \in Seq(LineSeqs) /\ DOMAIN parts = 1..m /\ DOMAIN cuts = 1..k /\ DOMAIN v = 1..m + k
      /\ \A i \in 1..m : v[i] = parts[i]
      /\ \A i \in 1..k : v[m + i] = cuts[i]
  BY <1>1, <1>2, ConcatOf
<1>5. LinesOf(cs) = LinesOf(bs) \o b.lines
  BY LinesOfBlocks
<1>6. LinesOf(bs) \in Seq(Lines) /\ b.lines \in Seq(Lines)
  BY LinesOfTyped DEF BlockSet
<1>7. InOrder(LinesOf(bs) \o b.lines, v) /\ ToSet(LinesOf(bs) \o b.lines) \subseteq Shown(v, Len(v))
  BY <1>1, <1>6, InOrderConcat DEF ClosedOver, CutsHold
<1>8. ~ (Tokens(b.lines) <= MaxTokens)
  <2>1. Tokens(b.lines) \in Nat /\ MaxTokens \in Nat
    BY TotalOf, ChunkingAssumption
  <2> QED BY <2>1
<1> HIDE DEF cs, v
<1>9. ASSUME NEW i \in DOMAIN cs, Tokens(cs[i].lines) <= MaxTokens
      PROVE  \E d \in DOMAIN v : Inside(cs[i].lines, v[d])
  <2>1. i # n + 1
    BY <1>3, <1>8, <1>9
  <2>2. i \in DOMAIN bs /\ cs[i] = bs[i]
    BY <1>3, <2>1
  <2>3. PICK d \in 1..m : Inside(bs[i].lines, parts[d])
    BY <1>4, <1>9, <2>2 DEF ClosedOver
  <2>4. d \in 1..m + k /\ v[d] = parts[d]
    BY <1>4
  <2> QED BY <1>4, <2>2, <2>3, <2>4
<1>10. ClosedOver(cs, v)
  BY <1>4, <1>5, <1>7, <1>9 DEF ClosedOver
<1> QED BY <1>10 DEF cs, v

-----------------------------------------------------------------------------
(* From blocks to chunks *)

ChunkSet == {Chunk(bs) : bs \in Seq(BlockSet)}
LinesAt(chunks) == [c \in DOMAIN chunks |-> chunks[c].lines]

\* a chunk of blocks has their lines
LEMMA ChunkOf ==
  ASSUME NEW bs \in Seq(BlockSet)
  PROVE  Chunk(bs) \in ChunkSet /\ Chunk(bs).lines = LinesOf(bs)
BY DEF Chunk, ChunkSet

\* the lines of a chunk are lines
LEMMA ChunkLines ==
  ASSUME NEW c \in ChunkSet
  PROVE  c.lines \in LineSeqs
<1>1. PICK bs \in Seq(BlockSet) : c = Chunk(bs)
  BY DEF ChunkSet
<1> QED BY <1>1, ChunkOf, LinesOfTyped DEF LineSeqs

\* the lines of chunks, chunk by chunk
LEMMA LinesAtOf ==
  ASSUME NEW p \in Seq(ChunkSet)
  PROVE  LinesAt(p) \in Seq(LineSeqs) /\ Len(LinesAt(p)) = Len(p)
<1>1. PICK n \in Nat : n = Len(p)
  OBVIOUS
<1>2. DOMAIN p = 1..n /\ \A i \in 1..n : p[i] \in ChunkSet
  BY <1>1
<1>3. \A x \in ChunkSet : x.lines \in LineSeqs
  BY ChunkLines
<1> DEFINE v == LinesAt(p)
<1>4. v \in [1..n -> LineSeqs] /\ DOMAIN v = 1..n
  BY <1>2, <1>3 DEF LinesAt
<1> HIDE DEF v
<1>5. v \in Seq(LineSeqs)
  BY <1>4, SeqDef
<1>6. PICK m \in Nat : m = Len(v) /\ DOMAIN v = 1..m
  BY <1>5, LenProperties
<1>7. 1..n = 1..m
  BY <1>4, <1>6
<1>8. n = m
  BY <1>7
<1> QED BY <1>1, <1>5, <1>6, <1>8 DEF v

\* and with one chunk more
LEMMA LinesAtAppend ==
  ASSUME NEW p \in Seq(ChunkSet), NEW c \in ChunkSet
  PROVE  LinesAt(Append(p, c)) = Append(LinesAt(p), c.lines)
<1> DEFINE q == Append(p, c)
           v == LinesAt(q)
           w == LinesAt(p)
           u == Append(w, c.lines)
<1>1. PICK n \in Nat : n = Len(p)
  OBVIOUS
<1>2. q \in Seq(ChunkSet) /\ DOMAIN p = 1..n /\ Len(q) = n + 1 /\ DOMAIN q = 1..n + 1 /\ q[n + 1] = c /\ \A i \in 1..n : q[i] = p[i]
  BY <1>1, AppendOf
<1> HIDE DEF q
<1>3. v \in Seq(LineSeqs) /\ Len(v) = n + 1 /\ \A i \in 1..n + 1 : v[i] = q[i].lines
  BY <1>2, LinesAtOf DEF LinesAt
<1>4. w \in Seq(LineSeqs) /\ Len(w) = n /\ \A i \in 1..n : w[i] = p[i].lines
  BY <1>1, <1>2, LinesAtOf DEF LinesAt
<1>5. c.lines \in LineSeqs
  BY ChunkLines
<1> HIDE DEF v, w
<1>6. u \in Seq(LineSeqs) /\ Len(u) = n + 1 /\ u[n + 1] = c.lines /\ \A i \in 1..n : u[i] = w[i]
  BY <1>4, <1>5, AppendOf
<1> HIDE DEF u
<1>7. ASSUME NEW i \in 1..n + 1  PROVE v[i] = u[i]
  <2>1. CASE i = n + 1
    BY <1>2, <1>3, <1>6, <2>1
  <2>2. CASE i # n + 1
    <3>1. i \in 1..n
      BY <2>2
    <3> QED BY <1>2, <1>3, <1>4, <1>6, <3>1
  <2> QED BY <2>1, <2>2
<1>8. PICK m \in Nat : m = n + 1
  OBVIOUS
<1>9. Len(v) = m /\ Len(u) = m /\ \A i \in 1..m : v[i] = u[i]
  BY <1>3, <1>6, <1>7, <1>8
<1>10. v = u
  BY <1>3, <1>6, <1>9, SeqEqual
<1> QED BY <1>10 DEF q, v, w, u

\* and with more chunks
LEMMA LinesAtConcat ==
  ASSUME NEW p \in Seq(ChunkSet), NEW q \in Seq(ChunkSet)
  PROVE  LinesAt(p \o q) = LinesAt(p) \o LinesAt(q)
<1> DEFINE r == p \o q
           v == LinesAt(r)
           w == LinesAt(p)
           z == LinesAt(q)
           u == w \o z
<1>1. PICK n \in Nat, m \in Nat : n = Len(p) /\ m = Len(q)
  OBVIOUS
<1>2. /\ r \in Seq(ChunkSet) /\ DOMAIN p = 1..n /\ DOMAIN q = 1..m /\ DOMAIN r = 1..n + m /\ Len(r) = n + m
      /\ \A i \in 1..n : r[i] = p[i]
      /\ \A i \in 1..m : r[n + i] = q[i]
  BY <1>1, ConcatOf
<1> HIDE DEF r
<1>3. v \in Seq(LineSeqs) /\ Len(v) = n + m /\ \A i \in 1..n + m : v[i] = r[i].lines
  BY <1>2, LinesAtOf DEF LinesAt
<1>4. w \in Seq(LineSeqs) /\ Len(w) = n /\ \A i \in 1..n : w[i] = p[i].lines
  BY <1>1, <1>2, LinesAtOf DEF LinesAt
<1>5. z \in Seq(LineSeqs) /\ Len(z) = m /\ \A i \in 1..m : z[i] = q[i].lines
  BY <1>1, <1>2, LinesAtOf DEF LinesAt
<1> HIDE DEF v, w, z
<1>6. u \in Seq(LineSeqs) /\ Len(u) = n + m /\ (\A i \in 1..n : u[i] = w[i]) /\ \A i \in 1..m : u[n + i] = z[i]
  <2>1. /\ w \o z \in Seq(LineSeqs) /\ Len(w \o z) = n + m
        /\ (\A i \in 1..n : (w \o z)[i] = w[i]) /\ \A i \in 1..m : (w \o z)[n + i] = z[i]
    <3>1. w \in Seq(LineSeqs) /\ n = Len(w) /\ z \in Seq(LineSeqs) /\ m = Len(z)
      BY <1>4, <1>5
    <3> QED BY <3>1, ConcatOf
  <2> QED BY <2>1, Zenon
<1> HIDE DEF u
<1>7. ASSUME NEW i \in 1..n + m  PROVE v[i] = u[i]
  <2>1. CASE i \in 1..n
    <3>1. v[i] = r[i].lines
      BY <1>3
    <3>2. r[i] = p[i] /\ w[i] = p[i].lines /\ u[i] = w[i]
      BY <1>2, <1>4, <1>6, <2>1
    <3> QED BY <3>1, <3>2, Zenon
  <2>2. CASE i \notin 1..n
    <3>1. PICK e \in Nat : e = i - n
      BY <2>2
    <3>2. e \in 1..m /\ i = n + e
      BY <2>2, <3>1
    <3>3. v[i] = r[i].lines
      BY <1>3
    <3>4. r[n + e] = q[e] /\ z[e] = q[e].lines /\ u[n + e] = z[e]
      BY <1>2, <1>5, <1>6, <3>2
    <3> QED BY <3>2, <3>3, <3>4, Zenon
  <2> QED BY <2>1, <2>2
<1>8. PICK k \in Nat : k = n + m
  OBVIOUS
<1>9. Len(v) = k /\ Len(u) = k /\ \A i \in 1..k : v[i] = u[i]
  BY <1>3, <1>6, <1>7, <1>8
<1>10. v = u
  BY <1>3, <1>6, <1>9, SeqEqual
<1> QED BY <1>10 DEF r, v, w, z, u

\* the chunks of a block too large have the lines of its parts
LEMMA SplitOf ==
  ASSUME NEW b \in BlockSet
  PROVE  Split(b) \in Seq(ChunkSet) /\ LinesAt(Split(b)) = CutLines(b.lines)
<1> DEFINE parts == CutLines(b.lines)
           With(p) == [b EXCEPT !.lines = p]
           v == [i \in DOMAIN parts |-> Chunk(<<With(parts[i])>>)]
<1>1. Split(b) = v
  BY DEF Split, CutLines, CutLine, Cost
<1>2. b.lines \in Seq(Lines)
  BY DEF BlockSet
<1>3. parts \in Seq(LineSeqs)
  BY <1>2, CutsOf DEF CutsHold
<1>4. PICK n \in Nat : n = Len(parts)
  BY <1>3
<1> HIDE DEF parts
<1>5. DOMAIN parts = 1..n /\ \A i \in 1..n : parts[i] \in LineSeqs
  BY <1>3, <1>4
<1>6. ASSUME NEW p \in LineSeqs  PROVE Chunk(<<With(p)>>) \in ChunkSet /\ Chunk(<<With(p)>>).lines = p
  <2>1. With(p) \in BlockSet /\ With(p).lines = p
    BY DEF BlockSet, LineSeqs
  <2> HIDE DEF With
  <2>2. <<With(p)>> \in Seq(BlockSet)
    BY <2>1
  <2>3. LinesOf(<<With(p)>>) = p
    BY <2>1, LinesOfBlocks, EmptySeq
  <2> QED BY <2>2, <2>3, ChunkOf
<1> HIDE DEF With
<1>7. v \in [1..n -> ChunkSet] /\ DOMAIN v = 1..n /\ \A i \in 1..n : v[i].lines = parts[i]
  BY <1>5, <1>6
<1> HIDE DEF v
<1>8. v \in Seq(ChunkSet)
  BY <1>7, SeqDef
<1>9. LinesAt(v) = parts
  <2>1. LinesAt(v) \in Seq(LineSeqs) /\ Len(LinesAt(v)) = Len(v)
    BY <1>8, LinesAtOf
  <2>2. PICK m \in Nat : m = Len(v) /\ DOMAIN v = 1..m
    BY <1>8, LenProperties
  <2>3. 1..n = 1..m
    BY <1>7, <2>2
  <2>4. n = m
    BY <2>3
  <2>5. \A i \in 1..n : LinesAt(v)[i] = parts[i]
    BY <1>7 DEF LinesAt
  <2> QED BY <1>3, <1>4, <2>1, <2>2, <2>4, <2>5, SeqEqual
<1> QED BY <1>1, <1>8, <1>9 DEF parts

-----------------------------------------------------------------------------

GatherHolds(bs, acc) ==
  /\ acc = [chunks |-> acc.chunks, buf |-> acc.buf] /\ acc.chunks \in Seq(ChunkSet)
  /\ OpenOver(bs, LinesAt(acc.chunks), acc.buf)

\* closing the buffer
LEMMA FlushedOf ==
  ASSUME NEW bs \in Seq(BlockSet), NEW acc, GatherHolds(bs, acc)
  PROVE  Flushed(acc) \in Seq(ChunkSet) /\ ClosedOver(bs, LinesAt(Flushed(acc)))
<1>0. acc.chunks \in Seq(ChunkSet) /\ OpenOver(bs, LinesAt(acc.chunks), acc.buf) /\ acc.buf \in Seq(BlockSet)
  BY DEF GatherHolds, OpenOver
<1>1. CASE acc.buf = <<>>
  BY <1>0, <1>1, BufferCloses DEF Flushed
<1>2. CASE acc.buf # <<>>
  <2>1. Flushed(acc) = Append(acc.chunks, Chunk(acc.buf))
    BY <1>2 DEF Flushed
  <2>2. Chunk(acc.buf) \in ChunkSet /\ Chunk(acc.buf).lines = LinesOf(acc.buf)
    BY <1>0, ChunkOf
  <2>3. LinesAt(Flushed(acc)) = Append(LinesAt(acc.chunks), LinesOf(acc.buf))
    BY <1>0, <2>1, <2>2, LinesAtAppend
  <2>4. Flushed(acc) \in Seq(ChunkSet)
    BY <1>0, <2>1, <2>2, AppendProperties
  <2> QED BY <1>0, <2>3, <2>4, BufferCloses
<1> QED BY <1>1, <1>2

\* every block is added as it should be: its own chunks, a new buffer, or the buffer
LEMMA BlockAdded ==
  ASSUME NEW bs \in Seq(BlockSet), NEW acc, GatherHolds(bs, acc), NEW b \in BlockSet
  PROVE  GatherHolds(Append(bs, b), AddBlock(acc, b))
<1> DEFINE cs == Append(bs, b)
           new == AddBlock(acc, b)
           size == Tokens(b.lines)
           closed == Flushed(acc)
           lap == Overlap(acc.buf)
<1>0. cs \in Seq(BlockSet) /\ closed \in Seq(ChunkSet) /\ ClosedOver(bs, LinesAt(closed))
  BY FlushedOf
<1>1. /\ acc = [chunks |-> acc.chunks, buf |-> acc.buf] /\ acc.chunks \in Seq(ChunkSet)
      /\ OpenOver(bs, LinesAt(acc.chunks), acc.buf) /\ acc.buf \in Seq(BlockSet)
  BY DEF GatherHolds, OpenOver
<1>3. lap \in Seq(BlockSet) /\ ToSet(LinesOf(lap)) \subseteq ToSet(LinesOf(acc.buf))
  BY <1>1, OverlapOf
<1>4. ToSet(LinesOf(acc.buf)) \subseteq ToSet(LinesOf(bs))
  BY <1>1 DEF OpenOver
<1> HIDE DEF cs, closed, lap
<1>5. ASSUME size > MaxTokens  PROVE GatherHolds(cs, new)
  <2>1. new = [chunks |-> closed \o Split(b), buf |-> <<>>]
    BY <1>5 DEF AddBlock, closed
  <2>2. Split(b) \in Seq(ChunkSet) /\ LinesAt(Split(b)) = CutLines(b.lines)
    BY SplitOf
  <2>3. CutsHold(b.lines, CutLines(b.lines))
    BY CutsOf DEF BlockSet
  <2>4. closed \o Split(b) \in Seq(ChunkSet) /\ LinesAt(closed \o Split(b)) = LinesAt(closed) \o CutLines(b.lines)
    BY <1>0, <2>2, LinesAtConcat, ConcatProperties
  <2>5. ClosedOver(cs, LinesAt(closed \o Split(b)))
    BY <1>0, <1>5, <2>3, <2>4, BlockIsCut DEF cs
  <2>6. <<>> \in Seq(BlockSet) /\ ToSet(LinesOf(<<>>)) \subseteq ToSet(LinesOf(cs))
    BY EmptySeq, NoLines, NoMembers
  <2>7. OpenOver(cs, LinesAt(closed \o Split(b)), <<>>)
    BY <1>0, <2>5, <2>6, BufferOpens
  <2>8. GatherHolds(cs, [chunks |-> closed \o Split(b), buf |-> <<>>])
    BY <2>4, <2>7 DEF GatherHolds
  <2> HIDE DEF new
  <2> QED BY <2>1, <2>8
<1>6. ASSUME new = [chunks |-> closed, buf |-> Append(lap, b)]  PROVE GatherHolds(cs, new)
  <2>1. OpenOver(bs, LinesAt(closed), lap)
    BY <1>0, <1>3, <1>4, BufferOpens
  <2>2. OpenOver(cs, LinesAt(closed), Append(lap, b))
    BY <2>1, BufferGrows DEF cs
  <2>3. GatherHolds(cs, [chunks |-> closed, buf |-> Append(lap, b)])
    BY <1>0, <2>2 DEF GatherHolds
  <2> HIDE DEF new
  <2> QED BY <1>6, <2>3
<1>7. ASSUME new = [acc EXCEPT !.buf = Append(@, b)]  PROVE GatherHolds(cs, new)
  <2>1. new = [chunks |-> acc.chunks, buf |-> Append(acc.buf, b)]
    BY <1>1, <1>7
  <2>2. OpenOver(cs, LinesAt(acc.chunks), Append(acc.buf, b))
    BY <1>1, BufferGrows DEF cs
  <2>3. GatherHolds(cs, [chunks |-> acc.chunks, buf |-> Append(acc.buf, b)])
    BY <1>1, <2>2 DEF GatherHolds
  <2> HIDE DEF new
  <2> QED BY <2>1, <2>3
<1>8. ASSUME ~ (size > MaxTokens)
      PROVE  \/ new = [chunks |-> closed, buf |-> Append(lap, b)]
             \/ new = [acc EXCEPT !.buf = Append(@, b)]
  BY <1>8, Zenon DEF AddBlock, closed, lap
<1> HIDE DEF new, size
<1>9. GatherHolds(cs, new)
  BY <1>5, <1>6, <1>7, <1>8
<1> QED BY <1>9 DEF cs, new

\* so the chunks and the buffer hold the blocks, whatever they are
LEMMA GatheredHolds ==
  ASSUME NEW bs \in Seq(BlockSet)
  PROVE  GatherHolds(bs, Gathered(bs))
<1> DEFINE T == {s \in Seq(BlockSet) : GatherHolds(s, Gathered(s))}
<1>1. <<>> \in T
  <2> DEFINE base == [chunks |-> <<>>, buf |-> <<>>]
  <2>1. LinesAt(<<>>) = <<>>
    BY DEF LinesAt
  <2>2. <<>> \in Seq(BlockSet) /\ <<>> \in Seq(LineSeqs) /\ <<>> \in Seq(ChunkSet)
    BY EmptySeq
  <2>3. OpenOver(<<>>, <<>>, <<>>)
    BY <2>2, NoLines, NoMembers DEF OpenOver, InOrder
  <2>4. GatherHolds(<<>>, base)
    BY <2>1, <2>2, <2>3 DEF GatherHolds
  <2> QED BY <2>2, <2>4, GatheredFold
<1>2. ASSUME NEW s \in Seq(BlockSet), NEW b \in BlockSet, s \in T  PROVE Append(s, b) \in T
  <2>1. Gathered(Append(s, b)) = AddBlock(Gathered(s), b)
    BY GatheredFold
  <2>2. GatherHolds(Append(s, b), AddBlock(Gathered(s), b))
    BY <1>2, BlockAdded
  <2>3. Append(s, b) \in Seq(BlockSet)
    OBVIOUS
  <2> QED BY <2>1, <2>2, <2>3
<1> HIDE DEF T
<1> QED BY <1>1, <1>2, SeqInduction DEF T

\* and the chunks of a document hold its blocks
LEMMA ChunksHold ==
  ASSUME NEW pages, Blocks(pages) \in Seq(BlockSet)
  PROVE  Chunks(pages) \in Seq(ChunkSet) /\ ClosedOver(Blocks(pages), LinesAt(Chunks(pages)))
BY GatheredHolds, FlushedOf DEF Chunks, Gathered

-----------------------------------------------------------------------------
(* From lines to blocks *)

Opens == {"none", "code", "table", "math", "text"}

\* the lines that blocks have of lines s: all that are not blank, each after those before it
Keeps(s, b) ==
  /\ s \in Seq(Lines) /\ b \in Seq(Lines)
  /\ \A x \in ToSet(s) : IsBlank(x) \/ x \in ToSet(b)
  /\ \A q \in DOMAIN b : \E j \in DOMAIN s :
       s[j] = b[q] /\ \A i \in 1..j : IsBlank(s[i]) \/ \E p \in 1..q : b[p] = s[i]

\* a line more, kept or blank
LEMMA KeepsMore ==
  ASSUME NEW s, NEW b, Keeps(s, b), NEW l \in Lines
  PROVE  /\ Keeps(Append(s, l), Append(b, l))
         /\ IsBlank(l) => Keeps(Append(s, l), b)
<1> DEFINE t == Append(s, l)
           c == Append(b, l)
<1>1. s \in Seq(Lines) /\ b \in Seq(Lines)
  BY DEF Keeps
<1>2. PICK n \in Nat, m \in Nat : n = Len(s) /\ m = Len(b)
  BY <1>1
<1>3. /\ t \in Seq(Lines) /\ DOMAIN t = 1..n + 1 /\ DOMAIN s = 1..n /\ t[n + 1] = l /\ \A i \in 1..n : t[i] = s[i]
  BY <1>1, <1>2, AppendOf
<1>4. /\ c \in Seq(Lines) /\ DOMAIN c = 1..m + 1 /\ DOMAIN b = 1..m /\ c[m + 1] = l /\ \A i \in 1..m : c[i] = b[i]
  BY <1>1, <1>2, AppendOf
<1>5. ToSet(t) = ToSet(s) \cup {l} /\ ToSet(c) = ToSet(b) \cup {l}
  BY <1>1, MembersAppend
<1> HIDE DEF t, c
<1>6. ASSUME NEW q \in 1..m
      PROVE  \E j \in DOMAIN t : t[j] = b[q] /\ \A i \in 1..j : IsBlank(t[i]) \/ \E p \in 1..q : b[p] = t[i]
  <2>1. PICK j \in 1..n : s[j] = b[q] /\ \A i \in 1..j : IsBlank(s[i]) \/ \E p \in 1..q : b[p] = s[i]
    <3>1. DOMAIN s = 1..n /\ q \in DOMAIN b
      BY <1>3, <1>4
    <3>2. \E j \in DOMAIN s : s[j] = b[q] /\ \A i \in 1..j : IsBlank(s[i]) \/ \E p \in 1..q : b[p] = s[i]
      BY <3>1, Zenon DEF Keeps
    <3> QED BY <3>1, <3>2, Zenon
  <2>2. j \in 1..n + 1 /\ \A i \in 1..j : i \in 1..n
    OBVIOUS
  <2> QED BY <1>3, <2>1, <2>2
<1>7. ASSUME IsBlank(l)  PROVE Keeps(t, b)
  BY <1>1, <1>3, <1>4, <1>5, <1>6, <1>7 DEF Keeps
<1>8. Keeps(t, c)
  <2>1. \A x \in ToSet(t) : IsBlank(x) \/ x \in ToSet(c)
    BY <1>5 DEF Keeps
  <2>2. ASSUME NEW q \in 1..m + 1
        PROVE  \E j \in DOMAIN t : t[j] = c[q] /\ \A i \in 1..j : IsBlank(t[i]) \/ \E p \in 1..q : c[p] = t[i]
    <3>1. CASE q = m + 1
      <4>1. n + 1 \in DOMAIN t /\ t[n + 1] = c[q]
        BY <1>3, <1>4, <3>1
      <4>2. ASSUME NEW i \in 1..n + 1  PROVE IsBlank(t[i]) \/ \E p \in 1..q : c[p] = t[i]
        <5>1. t[i] \in ToSet(t)
          BY <1>3 DEF ToSet
        <5>2. IsBlank(t[i]) \/ t[i] \in ToSet(c)
          BY <2>1, <5>1
        <5> QED BY <1>4, <3>1, <5>2 DEF ToSet
      <4> QED BY <4>1, <4>2
    <3>2. CASE q # m + 1
      <4>1. q \in 1..m
        BY <3>2
      <4>2. PICK j \in DOMAIN t : t[j] = b[q] /\ \A i \in 1..j : IsBlank(t[i]) \/ \E p \in 1..q : b[p] = t[i]
        BY <1>6, <4>1
      <4>3. \A p \in 1..q : p \in 1..m /\ c[p] = b[p]
        BY <1>4, <4>1
      <4>4. q \in 1..q
        BY <4>1
      <4> QED BY <4>2, <4>3, <4>4
    <3> QED BY <3>1, <3>2
  <2> QED BY <1>3, <1>4, <2>1, <2>2 DEF Keeps
<1> QED BY <1>7, <1>8 DEF t, c

BlocksHold(s, acc) ==
  /\ acc \in [blocks : Seq(Solid), section : Seq(Nat), open : Opens]
  /\ acc.open # "none" => acc.blocks # <<>>
  /\ Keeps(s, LinesOf(acc.blocks))

\* a line that is not blank has a word
LEMMA WordsOfLine ==
  ASSUME NEW l \in Lines, ~ IsBlank(l)
  PROVE  Words(<<l>>) >= 1
<1>1. l.text \in Seq(Nat) /\ l.text # <<>>
  BY DEF Lines
<1>2. PICK n \in Nat : n = Len(l.text) /\ n # 0
  BY <1>1, EmptySeq
<1>3. <<>> \in Seq(Lines) /\ <<l>> = Append(<<>>, l)
  BY EmptySeq
<1>4. Words(<<l>>) = 0 + n
  BY <1>2, <1>3, WordsFold
<1> QED BY <1>2, <1>4

\* a line goes to the open block, to a new one, or is blank
LEMMA LineAdded ==
  ASSUME NEW s, NEW acc, BlocksHold(s, acc), NEW l \in Lines, NEW page \in Nat
  PROVE  BlocksHold(Append(s, l), AddLine(acc, l, page))
<1> DEFINE t == Append(s, l)
           new == AddLine(acc, l, page)
<1>1. /\ acc \in [blocks : Seq(Solid), section : Seq(Nat), open : Opens]
      /\ acc.blocks \in Seq(Solid) /\ acc.section \in Seq(Nat) /\ acc.open \in Opens
      /\ acc = [blocks |-> acc.blocks, section |-> acc.section, open |-> acc.open]
      /\ acc.open # "none" => acc.blocks # <<>>
      /\ Keeps(s, LinesOf(acc.blocks)) /\ acc.blocks \in Seq(BlockSet)
  BY SolidBlocks DEF BlocksHold
<1>2. /\ Keeps(t, Append(LinesOf(acc.blocks), l))
      /\ IsBlank(l) => Keeps(t, LinesOf(acc.blocks))
  BY <1>1, KeepsMore
<1>3. /\ l.kind \in {"blank", "number", "h1", "h3", "fence", "row", "math", "text"} /\ l.text \in Seq(Nat)
      /\ <<l>> \in Seq(Lines)
  BY DEF Lines
<1> HIDE DEF t
\* a new block for the line
<1>4. ASSUME NEW kind \in {"heading", "code", "table", "math", "text"}, NEW level \in Nat, NEW section \in Seq(Nat),
             NEW open \in Opens, NEW b, b = Block(kind, level, section, page, l), ~ IsBlank(l)
      PROVE  BlocksHold(t, [blocks |-> Append(acc.blocks, b), section |-> section, open |-> open])
  <2>1. b \in Solid /\ b \in BlockSet /\ b.lines = <<l>>
    <3>1. b \in BlockSet /\ b.lines = <<l>>
      BY <1>3, <1>4 DEF Block, BlockSet
    <3>2. Words(<<l>>) >= 1
      BY <1>4, WordsOfLine
    <3> QED BY <3>1, <3>2 DEF Solid
  <2>2. Append(acc.blocks, b) \in Seq(Solid) /\ Append(acc.blocks, b) # <<>>
    BY <1>1, <2>1, AppendProperties
  <2>3. LinesOf(Append(acc.blocks, b)) = Append(LinesOf(acc.blocks), l)
    <3>1. LinesOf(Append(acc.blocks, b)) = LinesOf(acc.blocks) \o <<l>>
      BY <1>1, <2>1, LinesOfBlocks
    <3>2. LinesOf(acc.blocks) \in Seq(Lines)
      BY <1>1, LinesOfTyped
    <3> QED BY <3>1, <3>2, AppendIsConcat
  <2> QED BY <1>2, <2>2, <2>3 DEF BlocksHold
<1>5. CASE Continues(acc.open, l)
  <2>1. acc.blocks # <<>>
    BY <1>1, <1>5 DEF Continues
  <2>2. PICK front \in Seq(Solid), last \in Solid : acc.blocks = Append(front, last)
    BY <1>1, <2>1, SequenceEmptyOrAppend
  <2>0. front \in Seq(BlockSet) /\ last \in BlockSet
    BY SolidBlocks
  <2>3. Front(acc.blocks) = front /\ Last(acc.blocks) = last
    BY <2>2, EndsOf
  <2> DEFINE more == Extended(last, l)
             open == IF Closes(acc.open, l) THEN "none" ELSE acc.open
  <2>4. new = [blocks |-> Append(front, more), section |-> acc.section, open |-> open]
    <3>1. new = [acc EXCEPT !.blocks = Append(front, more), !.open = open]
      BY <1>5, <2>3 DEF AddLine
    <3> HIDE DEF more, open, new
    <3> QED BY <1>1, <3>1
  <2>5. last.lines \in Seq(Lines)
    BY <2>0 DEF BlockSet
  <2>6. more \in BlockSet /\ more.lines = Append(last.lines, l)
    <3>0. Append(last.lines, l) \in Seq(Lines)
      BY <2>5, AppendProperties
    <3>1. PICK x \in Seq(Lines) : x = Append(last.lines, l)
      BY <3>0, Zenon
    <3>2. more = [last EXCEPT !.lines = x]
      BY <3>1 DEF Extended
    <3>3. [last EXCEPT !.lines = x] \in BlockSet /\ [last EXCEPT !.lines = x].lines = x
      BY <2>0 DEF BlockSet
    <3> QED BY <3>1, <3>2, <3>3, Zenon
  <2>7. LinesOf(Append(front, more)) = LinesOf(front) \o Append(last.lines, l)
    <3> HIDE DEF more
    <3> QED BY <2>0, <2>6, LinesOfBlocks
  <2>8. LinesOf(acc.blocks) = LinesOf(front) \o last.lines
    BY <2>0, <2>2, LinesOfBlocks
  <2>9. LinesOf(Append(front, more)) = Append(LinesOf(acc.blocks), l)
    <3>1. LinesOf(front) \in Seq(Lines)
      BY <2>0, LinesOfTyped
    <3>2. LinesOf(front) \o Append(last.lines, l) = Append(LinesOf(front) \o last.lines, l)
      BY <2>5, <3>1, ConcatAppend
    <3> QED BY <2>7, <2>8, <3>2, Zenon
  <2>10. Append(front, more) \in Seq(Solid) /\ Append(front, more) # <<>>
    <3> HIDE DEF more
    <3>1. Words(last.lines) >= 1 /\ Words(Append(last.lines, l)) = Words(last.lines) + Len(l.text)
      BY <2>5, WordsFold DEF Solid
    <3>2. Words(last.lines) \in Nat /\ Len(l.text) \in Nat
      BY <2>5, CountsOf, WidthOf
    <3>3. Words(Append(last.lines, l)) >= 1
      BY <3>1, <3>2
    <3>4. more \in Solid
      BY <2>6, <3>3 DEF Solid
    <3> QED BY <3>4, AppendProperties
  <2>11. open \in Opens
    BY <1>1 DEF Opens
  <2> HIDE DEF more, open
  <2>12. BlocksHold(t, [blocks |-> Append(front, more), section |-> acc.section, open |-> open])
    BY <1>1, <1>2, <2>9, <2>10, <2>11 DEF BlocksHold
  <2> HIDE DEF new
  <2> QED BY <2>4, <2>12 DEF t, new
<1>6. CASE ~ Continues(acc.open, l) /\ IsBlank(l)
  <2>1. new = [blocks |-> acc.blocks, section |-> acc.section, open |-> "none"]
    BY <1>1, <1>6 DEF AddLine
  <2>2. BlocksHold(t, [blocks |-> acc.blocks, section |-> acc.section, open |-> "none"])
    BY <1>1, <1>2, <1>6 DEF BlocksHold, Opens
  <2> HIDE DEF new
  <2> QED BY <2>1, <2>2 DEF t, new
<1>7. CASE ~ Continues(acc.open, l) /\ ~ IsBlank(l) /\ IsHeading(l)
  <2> DEFINE section == IF l.kind = "h1" THEN l.text ELSE acc.section
             level == IF l.kind = "h1" THEN 1 ELSE 3
             b == Block("heading", level, section, page, l)
  <2>1. new = [open |-> "none", section |-> section, blocks |-> Append(acc.blocks, b)]
    BY <1>7 DEF AddLine
  <2>2. section \in Seq(Nat) /\ level \in Nat /\ "none" \in Opens
    BY <1>1, <1>3 DEF Opens
  <2> HIDE DEF section, level, new
  <2>3. BlocksHold(t, [blocks |-> Append(acc.blocks, b), section |-> section, open |-> "none"])
    BY <1>4, <1>7, <2>2
  <2>4. new = [blocks |-> Append(acc.blocks, b), section |-> section, open |-> "none"]
    <3> HIDE DEF b
    <3> QED BY <2>1
  <2> QED BY <2>3, <2>4 DEF t, new
<1>8. CASE ~ Continues(acc.open, l) /\ ~ IsBlank(l) /\ ~ IsHeading(l)
  <2> DEFINE b == Block(BlockOf(l), 0, acc.section, page, l)
  <2>1. new = [acc EXCEPT !.open = BlockOf(l), !.blocks = Append(@, b)]
    BY <1>8 DEF AddLine
  <2>2. BlockOf(l) \in {"code", "table", "math", "text"}
    BY <1>3, <1>8 DEF IsBlank, IsHeading, BlockOf
  <2>3. BlocksHold(t, [blocks |-> Append(acc.blocks, b), section |-> acc.section, open |-> BlockOf(l)])
    BY <1>1, <1>4, <1>8, <2>2 DEF Opens
  <2> HIDE DEF new, b
  <2>4. new = [blocks |-> Append(acc.blocks, b), section |-> acc.section, open |-> BlockOf(l)]
    BY <1>1, <2>1
  <2> QED BY <2>3, <2>4 DEF t, new
<1> QED BY <1>5, <1>6, <1>7, <1>8 DEF t

\* the lines of a page are added one by one
LEMMA PageAdded ==
  ASSUME NEW s, NEW acc, BlocksHold(s, acc), NEW p \in PageSet
  PROVE  BlocksHold(s \o p.lines, AddLines(acc, p))
<1> DEFINE base == [acc EXCEPT !.open = "none"]
           T == {r \in Seq(Lines) : BlocksHold(s \o r, LineState(base, p.page, r))}
<1>1. s \in Seq(Lines) /\ p.page \in Nat /\ p.lines \in Seq(Lines)
  BY DEF BlocksHold, Keeps, PageSet
<1>2. BlocksHold(s, base)
  <2>1. base \in [blocks : Seq(Solid), section : Seq(Nat), open : Opens] /\ base.open = "none" /\ base.blocks = acc.blocks
    BY DEF BlocksHold, Opens
  <2> HIDE DEF base
  <2> QED BY <2>1 DEF BlocksHold
<1> HIDE DEF base
<1>3. <<>> \in T
  <2>1. s \o <<>> = s /\ <<>> \in Seq(Lines)
    BY <1>1, ConcatEmptySeq, EmptySeq
  <2>2. LineState(base, p.page, <<>>) = base
    BY NoLinesFold
  <2> QED BY <1>2, <2>1, <2>2
<1>4. ASSUME NEW r \in Seq(Lines), NEW l \in Lines, r \in T  PROVE Append(r, l) \in T
  <2>1. s \o Append(r, l) = Append(s \o r, l)
    BY <1>1, ConcatAppend
  <2>2. LineState(base, p.page, Append(r, l)) = AddLine(LineState(base, p.page, r), l, p.page)
    BY LinesFold
  <2>3. BlocksHold(Append(s \o r, l), AddLine(LineState(base, p.page, r), l, p.page))
    BY <1>1, <1>4, LineAdded
  <2>4. Append(r, l) \in Seq(Lines)
    OBVIOUS
  <2> QED BY <2>1, <2>2, <2>3, <2>4
<1>5. p.lines \in T
  <2> HIDE DEF T
  <2> QED BY <1>1, <1>3, <1>4, SeqInduction
<1>6. AddLines(acc, p) = LineState(base, p.page, p.lines)
  BY DEF AddLines, LineState, base
<1> QED BY <1>5, <1>6

\* the lines of a document, page by page
LEMMA AllLinesFold ==
  /\ AllLines(<<>>) = <<>>
  /\ \A ps \in Seq(PageSet), p \in PageSet : AllLines(Append(ps, p)) = AllLines(ps) \o p.lines
  /\ \A ps \in Seq(PageSet) : [i \in DOMAIN ps |-> ps[i].lines] \in Seq(LineSeqs)
<1> DEFINE of(s) == [i \in DOMAIN s |-> s[i].lines]
<1>1. \A x \in PageSet : x.lines \in LineSeqs
  BY DEF PageSet, LineSeqs
<1>2. ASSUME NEW s \in Seq(PageSet)  PROVE of(s) \in Seq(LineSeqs) /\ Len(of(s)) = Len(s)
  <2>1. PICK n \in Nat : n = Len(s)
    OBVIOUS
  <2>2. DOMAIN s = 1..n /\ \A i \in 1..n : s[i] \in PageSet
    BY <2>1
  <2> DEFINE v == of(s)
  <2>3. v \in [1..n -> LineSeqs] /\ DOMAIN v = 1..n
    BY <1>1, <2>2
  <2> HIDE DEF v
  <2>4. v \in Seq(LineSeqs)
    BY <2>3, SeqDef
  <2>5. PICK m \in Nat : m = Len(v) /\ DOMAIN v = 1..m
    BY <2>4, LenProperties
  <2>6. 1..n = 1..m
    BY <2>3, <2>5
  <2>7. n = m
    BY <2>6
  <2>8. v \in Seq(LineSeqs) /\ Len(v) = Len(s)
    BY <2>1, <2>4, <2>5, <2>7
  <2> QED BY <2>8 DEF v
<1>3. ASSUME NEW s \in Seq(PageSet), NEW p \in PageSet  PROVE of(Append(s, p)) = Append(of(s), p.lines)
  <2>1. PICK n \in Nat : n = Len(s)
    OBVIOUS
  <2> DEFINE u == Append(s, p)
             v == of(u)
             w == of(s)
             z == Append(w, p.lines)
  <2>2. /\ u \in Seq(PageSet) /\ Len(u) = n + 1 /\ DOMAIN u = 1..n + 1 /\ DOMAIN s = 1..n
        /\ u[n + 1] = p /\ \A i \in 1..n : u[i] = s[i]
    BY <2>1, AppendOf
  <2> HIDE DEF u
  <2>3. v \in Seq(LineSeqs) /\ Len(v) = n + 1
    <3> HIDE DEF of
    <3> QED BY <1>2, <2>2
  <2>4. \A i \in 1..n + 1 : v[i] = u[i].lines
    BY <2>2
  <2>5. w \in Seq(LineSeqs) /\ n = Len(w)
    <3> HIDE DEF of
    <3> QED BY <1>2, <2>1
  <2>6. \A i \in 1..n : w[i] = s[i].lines
    BY <2>2
  <2> HIDE DEF v, w
  <2>7. p.lines \in LineSeqs
    BY <1>1
  <2>8. z \in Seq(LineSeqs) /\ Len(z) = n + 1 /\ z[n + 1] = p.lines /\ \A i \in 1..n : z[i] = w[i]
    BY <2>5, <2>7, AppendOf
  <2> HIDE DEF z
  <2>9. ASSUME NEW i \in 1..n + 1  PROVE v[i] = z[i]
    <3>1. CASE i = n + 1
      BY <2>2, <2>4, <2>8, <3>1
    <3>2. CASE i # n + 1
      <4>1. i \in 1..n
        BY <3>2
      <4> QED BY <2>2, <2>4, <2>6, <2>8, <4>1
    <3> QED BY <3>1, <3>2
  <2>10. PICK m \in Nat : m = n + 1
    OBVIOUS
  <2>11. Len(v) = m /\ Len(z) = m /\ \A i \in 1..m : v[i] = z[i]
    BY <2>3, <2>8, <2>9, <2>10
  <2>12. v = z
    BY <2>3, <2>8, <2>11, SeqEqual
  <2> QED BY <2>12 DEF u, v, w, z
<1>4. AllLines(<<>>) = <<>>
  <2>1. of(<<>>) = <<>>
    OBVIOUS
  <2>2. AllLines(<<>>) = FlattenSeq(<<>>)
    BY <2>1 DEF AllLines
  <2> QED BY <2>2, FlattenFold
<1>5. \A s : AllLines(s) = FlattenSeq(of(s))
  BY DEF AllLines
<1>6. ASSUME NEW s \in Seq(PageSet), NEW p \in PageSet  PROVE AllLines(Append(s, p)) = AllLines(s) \o p.lines
  <2> HIDE DEF of
  <2>1. AllLines(Append(s, p)) = FlattenSeq(Append(of(s), p.lines)) /\ AllLines(s) = FlattenSeq(of(s))
    BY <1>3, <1>5
  <2>2. of(s) \in Seq(Seq(Lines)) /\ p.lines \in Seq(Lines)
    BY <1>1, <1>2 DEF LineSeqs
  <2>3. FlattenSeq(Append(of(s), p.lines)) = FlattenSeq(of(s)) \o p.lines
    BY <2>2, FlattenFold
  <2> QED BY <2>1, <2>3
<1>7. \A s \in Seq(PageSet) : of(s) \in Seq(LineSeqs)
  <2> HIDE DEF of
  <2> QED BY <1>2
<1> QED BY <1>4, <1>6, <1>7

\* the blocks of a document have all its lines but the blank ones, in their order
LEMMA BlocksOf ==
  ASSUME NEW pages \in Seq(PageSet)
  PROVE  Blocks(pages) \in Seq(Solid) /\ Blocks(pages) \in Seq(BlockSet) /\ Keeps(AllLines(pages), LinesOf(Blocks(pages)))
<1> DEFINE T == {ps \in Seq(PageSet) : BlocksHold(AllLines(ps), PageState(ps))}
<1>1. <<>> \in T
  <2> DEFINE base == [blocks |-> <<>>, section |-> <<>>, open |-> "none"]
  <2>1. <<>> \in Seq(PageSet) /\ <<>> \in Seq(Solid) /\ <<>> \in Seq(Nat) /\ <<>> \in Seq(Lines)
    BY EmptySeq
  <2>2. Keeps(<<>>, <<>>)
    BY <2>1, NoMembers DEF Keeps
  <2>3. BlocksHold(<<>>, base)
    BY <2>1, <2>2, NoLines DEF BlocksHold, Opens
  <2> QED BY <2>1, <2>3, AllLinesFold, PagesFold
<1>2. ASSUME NEW ps \in Seq(PageSet), NEW p \in PageSet, ps \in T  PROVE Append(ps, p) \in T
  <2>1. AllLines(Append(ps, p)) = AllLines(ps) \o p.lines
    BY AllLinesFold
  <2>2. PageState(Append(ps, p)) = AddLines(PageState(ps), p)
    BY PagesFold
  <2>3. BlocksHold(AllLines(ps) \o p.lines, AddLines(PageState(ps), p))
    BY <1>2, PageAdded
  <2>4. Append(ps, p) \in Seq(PageSet)
    OBVIOUS
  <2> QED BY <2>1, <2>2, <2>3, <2>4
<1>3. BlocksHold(AllLines(pages), PageState(pages))
  <2>1. pages \in T
    <3> HIDE DEF T
    <3> QED BY <1>1, <1>2, SeqInduction
  <2> QED BY <2>1
<1>4. Blocks(pages) = PageState(pages).blocks
  BY DEF Blocks, PageState, AddLines
<1> QED BY <1>3, <1>4, SolidBlocks DEF BlocksHold

-----------------------------------------------------------------------------
(* The size of chunks: what the chunker counts is an estimate for each block, or line, and the estimate of  *)
(* what they are joined to may be more: at most 47 tokens for 19                                             *)

Limit == MaxTokens + OverlapTokens
Sized == {c \in ChunkSet : Len(c.lines) = 1 \/ 19 * c.tokens <= 47 * Limit}

\* blocks joined: their words and their characters are bounded by what the chunker counts
LEMMA JoinedSize ==
  ASSUME NEW bs \in Seq(Solid)
  PROVE  /\ Words(LinesOf(bs)) <= Total(bs)
         /\ 5 * (Characters(LinesOf(bs)) + Len(bs)) <= 47 * Total(bs)
<1> DEFINE T == {s \in Seq(Solid) : /\ Words(LinesOf(s)) <= Total(s)
                                    /\ 5 * (Characters(LinesOf(s)) + Len(s)) <= 47 * Total(s)}
<1>1. <<>> \in T
  <2>1. <<>> \in Seq(Solid) /\ Len(<<>>) = 0
    BY EmptySeq
  <2>2. Words(LinesOf(<<>>)) = 0 /\ Characters(LinesOf(<<>>)) = 0 /\ Total(<<>>) = 0
    BY NoLines, WordsFold, CharactersFold
  <2> QED BY <2>1, <2>2
<1>2. ASSUME NEW s \in Seq(Solid), NEW b \in Solid, s \in T  PROVE Append(s, b) \in T
  <2>1. s \in Seq(BlockSet) /\ b \in BlockSet /\ b.lines \in Seq(Lines) /\ LinesOf(s) \in Seq(Lines)
    BY SolidBlocks, LinesOfTyped DEF BlockSet
  <2>2. LinesOf(Append(s, b)) = LinesOf(s) \o b.lines
    BY <2>1, LinesOfBlocks
  <2>3. PICK w \in Nat, c \in Nat, n \in Nat : w = Words(b.lines) /\ c = Characters(b.lines) /\ n = Tokens(b.lines)
    BY <2>1, CountsOf, TokensOf
  <2>4. w <= n /\ 5 * c <= 19 * n + 23 /\ n >= 1
    BY <2>1, <2>3, TokensOf, SolidBlocks
  <2>5. PICK x \in Nat, y \in Nat, k \in Nat, t \in Nat :
          x = Words(LinesOf(s)) /\ y = Characters(LinesOf(s)) /\ k = Len(s) /\ t = Total(s)
    BY <2>1, CountsOf, TotalOf
  <2>6. x <= t /\ 5 * (y + k) <= 47 * t
    BY <1>2, <2>5
  <2>7. /\ Words(LinesOf(Append(s, b))) = x + w /\ Characters(LinesOf(Append(s, b))) = y + c
        /\ Total(Append(s, b)) = t + n
    BY <2>1, <2>2, <2>3, <2>5, CountsOf, TotalOf
  <2>8. Append(s, b) \in Seq(Solid) /\ Len(Append(s, b)) = k + 1
    BY <2>5, AppendProperties
  <2>9. x + w <= t + n /\ 5 * (y + c + (k + 1)) <= 47 * (t + n)
    BY <2>4, <2>6
  <2> QED BY <2>7, <2>8, <2>9
<1>3. Seq(Solid) \subseteq T
  <2> HIDE DEF T
  <2> QED BY <1>1, <1>2, SeqInduction
<1> QED BY <1>3

\* so the chunk of a buffer that fits is no larger than this
LEMMA BufferSized ==
  ASSUME NEW bs \in Seq(Solid), Total(bs) <= Limit
  PROVE  Chunk(bs) \in Sized
<1>1. bs \in Seq(BlockSet) /\ LinesOf(bs) \in Seq(Lines)
  BY SolidBlocks, LinesOfTyped
<1>2. PICK w \in Nat, c \in Nat, k \in Nat, t \in Nat :
        w = Words(LinesOf(bs)) /\ c = Characters(LinesOf(bs)) /\ k = Len(bs) /\ t = Total(bs)
  BY <1>1, CountsOf, TotalOf
<1>3. w <= t /\ 5 * (c + k) <= 47 * t /\ t <= Limit /\ Limit \in Nat
  BY <1>2, JoinedSize, ChunkingAssumption DEF Limit
<1>4. Chunk(bs).tokens = Estimate(w, c + k - 2)
  BY <1>2 DEF Chunk
<1>5. PICK x \in Int : x = c + k - 2
  BY <1>2
<1>6. PICK e \in Nat : e = Estimate(w, x) /\ (e = w \/ 19 * e <= 5 * x)
  BY EstimateOf
<1>7. 19 * e <= 47 * Limit
  BY <1>3, <1>5, <1>6
<1>8. Chunk(bs) \in ChunkSet
  BY <1>1, ChunkOf
<1> QED BY <1>4, <1>5, <1>6, <1>7, <1>8 DEF Sized

\* the parts that a block too large is cut into are single lines, or no larger than this
LEMMA SplitSized ==
  ASSUME NEW b \in BlockSet
  PROVE  Split(b) \in Seq(Sized)
<1> DEFINE parts == CutLines(b.lines)
           With(p) == [b EXCEPT !.lines = p]
           v == [i \in DOMAIN parts |-> Chunk(<<With(parts[i])>>)]
<1>1. Split(b) = v
  BY DEF Split, CutLines, CutLine, Cost
<1>2. b.lines \in Seq(Lines)
  BY DEF BlockSet
<1>3. parts \in Seq(LineSeqs) /\ \A i \in DOMAIN parts : Len(parts[i]) = 1 \/ Cost(parts[i]) <= MaxTokens
  BY <1>2, CutsOf DEF CutsHold
<1>4. PICK n \in Nat : n = Len(parts) /\ DOMAIN parts = 1..n
  BY <1>3, LenProperties
<1> HIDE DEF parts
<1>5. ASSUME NEW i \in 1..n  PROVE Chunk(<<With(parts[i])>>) \in Sized
  <2>1. PICK p \in Seq(Lines) : p = parts[i] /\ (Len(p) = 1 \/ Cost(p) <= MaxTokens)
    BY <1>3, <1>4 DEF LineSeqs
  <2> DEFINE one == <<With(p)>>
  <2>2. With(p) \in BlockSet /\ With(p).lines = p
    BY DEF BlockSet
  <2> HIDE DEF With
  <2>3. one \in Seq(BlockSet) /\ Len(one) = 1
    BY <2>2
  <2>4. LinesOf(one) = p
    BY <2>2, <2>3, LinesOfBlocks
  <2> HIDE DEF one
  <2>5. Chunk(one) \in ChunkSet /\ Chunk(one).lines = p
    BY <2>3, <2>4, ChunkOf
  <2>6. ASSUME Cost(p) <= MaxTokens  PROVE 19 * Chunk(one).tokens <= 47 * Limit
    <3>1. PICK w \in Nat, c \in Nat, k \in Nat : w = Words(p) /\ c = Characters(p) /\ k = Cost(p)
      BY CountsOf, CostOf
    <3>2. w <= k /\ 5 * c <= 23 * k /\ k <= Limit /\ Limit \in Nat
      BY <2>6, <3>1, CostOf, ChunkingAssumption DEF Limit
    <3>3. Chunk(one).tokens = Estimate(w, c + 1 - 2)
      BY <2>3, <2>4, <3>1 DEF Chunk
    <3>4. PICK x \in Int : x = c + 1 - 2
      BY <3>1
    <3>5. PICK e \in Nat : e = Estimate(w, x) /\ (e = w \/ 19 * e <= 5 * x)
      BY EstimateOf
    <3>6. 19 * e <= 47 * Limit
      BY <3>2, <3>4, <3>5
    <3> QED BY <3>3, <3>4, <3>5, <3>6
  <2>7. Chunk(one) \in Sized
    BY <2>1, <2>5, <2>6 DEF Sized
  <2> QED BY <2>1, <2>7 DEF one
<1>6. v \in [1..n -> Sized]
  BY <1>4, <1>5
<1> HIDE DEF v
<1> QED BY <1>1, <1>6, SeqDef

\* the chunks are sized, and what the buffer holds will be
GatherFits(acc) ==
  /\ acc = [chunks |-> acc.chunks, buf |-> acc.buf] /\ acc.chunks \in Seq(Sized)
  /\ acc.buf \in Seq(Solid) /\ Total(acc.buf) <= Limit

\* closing the buffer leaves them so
LEMMA FlushedFits ==
  ASSUME NEW acc, GatherFits(acc)
  PROVE  Flushed(acc) \in Seq(Sized)
<1>1. acc.chunks \in Seq(Sized) /\ Chunk(acc.buf) \in Sized
  BY BufferSized DEF GatherFits
<1> QED BY <1>1, AppendProperties DEF Flushed

\* and so does every block
LEMMA BlockFits ==
  ASSUME NEW acc, GatherFits(acc), NEW b \in Solid
  PROVE  GatherFits(AddBlock(acc, b))
<1> DEFINE new == AddBlock(acc, b)
           closed == Flushed(acc)
           lap == Overlap(acc.buf)
<1>1. /\ acc = [chunks |-> acc.chunks, buf |-> acc.buf] /\ acc.chunks \in Seq(Sized)
      /\ acc.buf \in Seq(Solid) /\ acc.buf \in Seq(BlockSet) /\ b \in BlockSet
  BY SolidBlocks DEF GatherFits
<1>2. closed \in Seq(Sized)
  BY FlushedFits
<1>3. PICK size \in Nat, held \in Nat : size = Tokens(b.lines) /\ held = Total(acc.buf) /\ held <= Limit
  BY <1>1, TotalOf DEF GatherFits
<1>4. MaxTokens \in Nat /\ OverlapTokens \in Nat /\ Limit = MaxTokens + OverlapTokens
  BY ChunkingAssumption DEF Limit
<1>5. lap \in Seq(Solid) /\ lap \in Seq(BlockSet) /\ Total(lap) <= OverlapTokens
  <2>1. lap \in Seq(BlockSet) /\ Total(lap) <= OverlapTokens /\ ToSet(lap) \subseteq ToSet(acc.buf)
    BY <1>1, OverlapOf
  <2>2. ToSet(lap) \subseteq Solid
    BY <1>1, <2>1, MembersIn
  <2> HIDE DEF lap
  <2>3. PICK n \in Nat : n = Len(lap) /\ DOMAIN lap = 1..n
    BY <2>1, LenProperties
  <2>4. lap \in [1..n -> Solid]
    <3>1. \A i \in 1..n : lap[i] \in Solid
      BY <2>2, <2>3 DEF ToSet
    <3>2. lap = [i \in 1..n |-> lap[i]]
      BY <2>1, <2>3
    <3> QED BY <3>1, <3>2
  <2>5. lap \in Seq(Solid)
    BY <2>4, SeqDef
  <2> QED BY <2>1, <2>5
<1> HIDE DEF closed, lap
<1>6. CASE new = [chunks |-> closed \o Split(b), buf |-> <<>>]
  <2>1. closed \o Split(b) \in Seq(Sized)
    BY <1>1, <1>2, SplitSized, ConcatProperties
  <2>2. <<>> \in Seq(Solid) /\ Total(<<>>) <= Limit
    BY <1>4, EmptySeq, TotalOf
  <2>3. GatherFits([chunks |-> closed \o Split(b), buf |-> <<>>])
    BY <2>1, <2>2 DEF GatherFits
  <2> HIDE DEF new
  <2>4. GatherFits(new)
    BY <1>6, <2>3
  <2> QED BY <2>4 DEF new
<1>7. CASE ~ (size > MaxTokens) /\ new = [chunks |-> closed, buf |-> Append(lap, b)]
  <2>1. PICK t \in Nat : t = Total(lap) /\ t <= OverlapTokens
    BY <1>5, TotalOf
  <2>2. Append(lap, b) \in Seq(Solid) /\ Total(Append(lap, b)) = t + size
    BY <1>1, <1>3, <1>5, <2>1, TotalOf, AppendProperties
  <2>3. t + size <= Limit
    BY <1>4, <1>7, <2>1
  <2>4. GatherFits([chunks |-> closed, buf |-> Append(lap, b)])
    BY <1>2, <2>2, <2>3 DEF GatherFits
  <2> HIDE DEF new
  <2>5. GatherFits(new)
    BY <1>7, <2>4
  <2> QED BY <2>5 DEF new
<1>8. CASE /\ ~ (size > MaxTokens) /\ new = [acc EXCEPT !.buf = Append(@, b)]
           /\ acc.buf = <<>> \/ ~ (held + size > MaxTokens)
  <2>1. new = [chunks |-> acc.chunks, buf |-> Append(acc.buf, b)]
    BY <1>1, <1>8
  <2>2. Append(acc.buf, b) \in Seq(Solid) /\ Total(Append(acc.buf, b)) = held + size
    BY <1>1, <1>3, TotalOf, AppendProperties
  <2>3. held + size <= Limit
    <3>1. acc.buf = <<>> => held = 0
      BY <1>3, TotalOf
    <3> QED BY <1>4, <1>8, <3>1
  <2>4. GatherFits([chunks |-> acc.chunks, buf |-> Append(acc.buf, b)])
    BY <1>1, <2>2, <2>3 DEF GatherFits
  <2> HIDE DEF new
  <2>5. GatherFits(new)
    BY <2>1, <2>4
  <2> QED BY <2>5 DEF new
<1>9. \/ new = [chunks |-> closed \o Split(b), buf |-> <<>>]
      \/ ~ (size > MaxTokens) /\ new = [chunks |-> closed, buf |-> Append(lap, b)]
      \/ /\ ~ (size > MaxTokens) /\ new = [acc EXCEPT !.buf = Append(@, b)]
         /\ acc.buf = <<>> \/ ~ (held + size > MaxTokens)
  BY <1>3, Zenon DEF AddBlock, closed, lap
<1> HIDE DEF new
<1> QED BY <1>6, <1>7, <1>8, <1>9 DEF new

\* so every chunk of a document is a line, or no larger than this
LEMMA ChunksSized ==
  ASSUME NEW pages \in Seq(PageSet)
  PROVE  \A c \in DOMAIN Chunks(pages) : \/ Len(Chunks(pages)[c].lines) = 1
                                         \/ 19 * Chunks(pages)[c].tokens <= 47 * (MaxTokens + OverlapTokens)
<1> DEFINE T == {s \in Seq(Solid) : GatherFits(Gathered(s))}
<1>1. <<>> \in T
  <2>1. <<>> \in Seq(Solid) /\ <<>> \in Seq(Sized) /\ Total(<<>>) <= Limit
    BY EmptySeq, TotalOf, ChunkingAssumption DEF Limit
  <2>2. GatherFits([chunks |-> <<>>, buf |-> <<>>])
    BY <2>1 DEF GatherFits
  <2> QED BY <2>1, <2>2, GatheredFold
<1>2. ASSUME NEW s \in Seq(Solid), NEW b \in Solid, s \in T  PROVE Append(s, b) \in T
  <2>1. Gathered(Append(s, b)) = AddBlock(Gathered(s), b)
    BY GatheredFold
  <2>2. Append(s, b) \in Seq(Solid) /\ GatherFits(AddBlock(Gathered(s), b))
    BY <1>2, BlockFits
  <2> QED BY <2>1, <2>2
<1>3. Seq(Solid) \subseteq T
  <2> HIDE DEF T
  <2> QED BY <1>1, <1>2, SeqInduction
<1>4. GatherFits(Gathered(Blocks(pages)))
  BY <1>3, BlocksOf
<1>5. Chunks(pages) \in Seq(Sized)
  BY <1>4, FlushedFits DEF Chunks, Gathered
<1>6. \A c \in DOMAIN Chunks(pages) : Chunks(pages)[c] \in Sized
  BY <1>5
<1> QED BY <1>6 DEF Sized, Limit

-----------------------------------------------------------------------------
(* What chunking promises *)

\* a block that fits is whole in a chunk
LEMMA BlocksWhole ==
  ASSUME NEW pages \in Seq(PageSet)
  PROVE  \A b \in DOMAIN Blocks(pages) : Tokens(Blocks(pages)[b].lines) <= MaxTokens =>
           \E c \in DOMAIN Chunks(pages) : Inside(Blocks(pages)[b].lines, Chunks(pages)[c].lines)
<1> DEFINE chunks == Chunks(pages)
           parts == LinesAt(chunks)
<1>1. ClosedOver(Blocks(pages), parts)
  BY BlocksOf, ChunksHold
<1>2. DOMAIN parts = DOMAIN chunks /\ \A c \in DOMAIN chunks : parts[c] = chunks[c].lines
  BY DEF LinesAt
<1> HIDE DEF chunks, parts
<1>3. \A b \in DOMAIN Blocks(pages) : Tokens(Blocks(pages)[b].lines) <= MaxTokens =>
        \E c \in DOMAIN chunks : Inside(Blocks(pages)[b].lines, chunks[c].lines)
  BY <1>1, <1>2 DEF ClosedOver
<1> QED BY <1>3 DEF chunks

\* every line is in a chunk, and the lines before a line that occurs once come in no later chunk
LEMMA ChunksInOrder ==
  ASSUME NEW pages \in Seq(PageSet)
  PROVE  LET lines == AllLines(pages)
             chunks == Chunks(pages)
         IN  /\ lines \in Seq(Lines) /\ chunks \in Seq(ChunkSet)
             /\ \A i \in DOMAIN lines : ~ IsBlank(lines[i]) => \E c \in DOMAIN chunks : lines[i] \in ToSet(chunks[c].lines)
             /\ \A i, j \in DOMAIN lines, c \in DOMAIN chunks :
                  /\ i < j /\ ~ IsBlank(lines[i]) /\ \A k \in DOMAIN lines : lines[k] = lines[j] => k = j
                  /\ lines[j] \in ToSet(chunks[c].lines)
                  => \E b \in 1..c : lines[i] \in ToSet(chunks[b].lines)
<1> DEFINE lines == AllLines(pages)
           chunks == Chunks(pages)
           parts == LinesAt(chunks)
           body == LinesOf(Blocks(pages))
<1>1. chunks \in Seq(ChunkSet) /\ ClosedOver(Blocks(pages), parts)
  BY BlocksOf, ChunksHold
<1>2. Keeps(lines, body)
  BY BlocksOf
<1>3. DOMAIN parts = DOMAIN chunks /\ \A c \in DOMAIN chunks : parts[c] = chunks[c].lines
  BY DEF LinesAt
<1>4. PICK n \in Nat : n = Len(chunks) /\ DOMAIN chunks = 1..n
  BY <1>1
<1>5. ToSet(body) \subseteq Shown(parts, n) /\ InOrder(body, parts)
  <2>1. Len(parts) = n
    BY <1>1, <1>4, LinesAtOf
  <2> QED BY <1>1, <2>1 DEF ClosedOver
<1> HIDE DEF lines, chunks, parts, body
<1>6. ASSUME NEW c \in 1..n
      PROVE  \A x : x \in Shown(parts, c) => \E b \in 1..c : x \in ToSet(chunks[b].lines)
  <2>1. \A b \in 1..c : b \in DOMAIN chunks
    BY <1>4
  <2> QED BY <1>3, <2>1 DEF Shown
<1>7. ASSUME NEW i \in DOMAIN lines, ~ IsBlank(lines[i])
      PROVE  \E c \in DOMAIN chunks : lines[i] \in ToSet(chunks[c].lines)
  <2>1. lines[i] \in ToSet(lines)
    BY DEF ToSet
  <2>2. lines[i] \in Shown(parts, n)
    BY <1>2, <1>5, <1>7, <2>1 DEF Keeps
  <2> QED BY <1>3, <1>4, <2>2 DEF Shown
<1>8. ASSUME NEW i \in DOMAIN lines, NEW j \in DOMAIN lines, NEW c \in DOMAIN chunks,
             i < j, ~ IsBlank(lines[i]), \A k \in DOMAIN lines : lines[k] = lines[j] => k = j,
             lines[j] \in ToSet(chunks[c].lines)
      PROVE  \E b \in 1..c : lines[i] \in ToSet(chunks[b].lines)
  <2>1. PICK q \in DOMAIN body : body[q] = lines[j] /\ \A h \in 1..q : body[h] \in Shown(parts, c)
    BY <1>3, <1>5, <1>8 DEF InOrder
  <2>2. PICK k \in DOMAIN lines : lines[k] = body[q] /\ \A h \in 1..k : IsBlank(lines[h]) \/ \E p \in 1..q : body[p] = lines[h]
    BY <1>2, <2>1 DEF Keeps
  <2>3. k = j
    BY <1>8, <2>1, <2>2
  <2>4. i \in 1..k
    <3>1. lines \in Seq(Lines)
      BY <1>2 DEF Keeps
    <3> QED BY <1>8, <2>3, <3>1
  <2>5. lines[i] \in Shown(parts, c)
    BY <1>8, <2>1, <2>2, <2>4
  <2> QED BY <1>4, <1>6, <2>5
<1>9. lines \in Seq(Lines)
  BY <1>2 DEF Keeps
<1> QED BY <1>1, <1>7, <1>8, <1>9 DEF lines, chunks

-----------------------------------------------------------------------------
(* What cleaning keeps of a page *)

\* k is drawn from s, in the order of s
Drawn(k, s) == \A q \in DOMAIN k : \E j \in DOMAIN s :
                 s[j] = k[q] /\ \A r \in 1..q - 1 : \E i \in 1..j - 1 : s[i] = k[r]

KeptHolds(s, recurring, acc) ==
  /\ acc = [code |-> acc.code, out |-> acc.out] /\ acc.code \in BOOLEAN /\ acc.out \in Seq(Lines)
  /\ Drawn(acc.out, s)
  /\ \A l \in ToSet(s) : l \in recurring \/ l.kind = "number" \/ l \in ToSet(acc.out)

\* a line more, kept or dropped
LEMMA DrawnMore ==
  ASSUME NEW s \in Seq(Lines), NEW k \in Seq(Lines), NEW l \in Lines, Drawn(k, s)
  PROVE  Drawn(k, Append(s, l)) /\ Drawn(Append(k, l), Append(s, l))
<1> DEFINE t == Append(s, l)
           c == Append(k, l)
<1>1. PICK n \in Nat, m \in Nat : n = Len(s) /\ m = Len(k)
  OBVIOUS
<1>2. DOMAIN t = 1..n + 1 /\ DOMAIN s = 1..n /\ t[n + 1] = l /\ \A i \in 1..n : t[i] = s[i]
  BY <1>1, AppendOf
<1>3. DOMAIN c = 1..m + 1 /\ DOMAIN k = 1..m /\ c[m + 1] = l /\ \A i \in 1..m : c[i] = k[i]
  BY <1>1, AppendOf
<1> HIDE DEF t, c
<1>4. ASSUME NEW q \in 1..m
      PROVE  \E j \in 1..n : t[j] = k[q] /\ \A r \in 1..q - 1 : \E i \in 1..j - 1 : t[i] = k[r]
  <2>1. PICK j \in 1..n : s[j] = k[q] /\ \A r \in 1..q - 1 : \E i \in 1..j - 1 : s[i] = k[r]
    BY <1>2, <1>3 DEF Drawn
  <2>2. \A i \in 1..j - 1 : i \in 1..n
    OBVIOUS
  <2> QED BY <1>2, <2>1, <2>2
<1>5. \A j \in 1..n : j \in 1..n + 1
  OBVIOUS
<1>6. Drawn(k, t)
  <2>1. ASSUME NEW q \in DOMAIN k
        PROVE  \E j \in DOMAIN t : t[j] = k[q] /\ \A r \in 1..q - 1 : \E i \in 1..j - 1 : t[i] = k[r]
    <3>1. PICK j \in 1..n : t[j] = k[q] /\ \A r \in 1..q - 1 : \E i \in 1..j - 1 : t[i] = k[r]
      BY <1>3, <1>4
    <3>2. j \in DOMAIN t
      BY <1>2, <1>5
    <3> QED BY <3>1, <3>2
  <2> QED BY <2>1 DEF Drawn
<1>7. ASSUME NEW q \in 1..m + 1
      PROVE  \E j \in 1..n + 1 : t[j] = c[q] /\ \A r \in 1..q - 1 : \E i \in 1..j - 1 : t[i] = c[r]
  <2>1. CASE q = m + 1
    <3>1. ASSUME NEW r \in 1..q - 1  PROVE \E i \in 1..(n + 1) - 1 : t[i] = c[r]
      <4>1. r \in 1..m
        BY <2>1
      <4>2. PICK j \in 1..n : t[j] = k[r]
        BY <1>4, <4>1
      <4>3. j \in 1..(n + 1) - 1
        OBVIOUS
      <4> QED BY <1>3, <4>1, <4>2, <4>3
    <3>2. n + 1 \in 1..n + 1 /\ t[n + 1] = c[q]
      BY <1>2, <1>3, <2>1
    <3> QED BY <3>1, <3>2
  <2>2. CASE q # m + 1
    <3>1. q \in 1..m
      BY <2>2
    <3>2. PICK j \in 1..n : t[j] = k[q] /\ \A r \in 1..q - 1 : \E i \in 1..j - 1 : t[i] = k[r]
      BY <1>4, <3>1
    <3>3. \A r \in 1..q - 1 : c[r] = k[r]
      BY <1>3, <3>1
    <3> QED BY <1>3, <1>5, <3>1, <3>2, <3>3
  <2> QED BY <2>1, <2>2
<1>8. Drawn(c, t)
  <2>1. ASSUME NEW q \in DOMAIN c
        PROVE  \E j \in DOMAIN t : t[j] = c[q] /\ \A r \in 1..q - 1 : \E i \in 1..j - 1 : t[i] = c[r]
    <3>1. PICK j \in 1..n + 1 : t[j] = c[q] /\ \A r \in 1..q - 1 : \E i \in 1..j - 1 : t[i] = c[r]
      BY <1>3, <1>7
    <3>2. j \in DOMAIN t
      BY <1>2
    <3> QED BY <3>1, <3>2
  <2> QED BY <2>1 DEF Drawn
<1> QED BY <1>6, <1>8 DEF t, c

\* a line is kept, or recurs, or is a page number
LEMMA KeptLine ==
  ASSUME NEW s \in Seq(Lines), NEW recurring, NEW acc, KeptHolds(s, recurring, acc), NEW l \in Lines
  PROVE  KeptHolds(Append(s, l), recurring, KeepLine(recurring, acc, l))
<1> DEFINE new == KeepLine(recurring, acc, l)
           t == Append(s, l)
<1>1. /\ acc = [code |-> acc.code, out |-> acc.out] /\ acc.code \in BOOLEAN /\ acc.out \in Seq(Lines)
      /\ Drawn(acc.out, s)
      /\ \A x \in ToSet(s) : x \in recurring \/ x.kind = "number" \/ x \in ToSet(acc.out)
  BY DEF KeptHolds
<1>2. Drawn(acc.out, t) /\ Drawn(Append(acc.out, l), t) /\ Append(acc.out, l) \in Seq(Lines)
  BY <1>1, DrawnMore, AppendProperties
<1>3. ToSet(t) = ToSet(s) \cup {l} /\ ToSet(Append(acc.out, l)) = ToSet(acc.out) \cup {l}
  BY <1>1, MembersAppend
<1>4. \/ new = [code |-> ~ acc.code, out |-> Append(acc.out, l)]
      \/ new = [code |-> acc.code, out |-> Append(acc.out, l)]
      \/ new = [code |-> acc.code, out |-> acc.out] /\ (l \in recurring \/ l.kind = "number")
  <2>1. CASE l.kind = "fence"
    BY <2>1 DEF KeepLine
  <2>2. CASE l.kind # "fence" /\ (acc.code \/ (l \notin recurring /\ l.kind # "number"))
    <3>1. PICK x : x = Append(acc.out, l)
      OBVIOUS
    <3>2. new = [acc EXCEPT !.out = x]
      BY <2>2, <3>1 DEF KeepLine
    <3>3. new = [code |-> acc.code, out |-> x]
      <4> HIDE DEF new
      <4> QED BY <1>1, <3>2
    <3> QED BY <3>1, <3>3
  <2>3. CASE l.kind # "fence" /\ ~ (acc.code \/ (l \notin recurring /\ l.kind # "number"))
    BY <1>1, <2>3 DEF KeepLine
  <2> QED BY <2>1, <2>2, <2>3
<1> HIDE DEF new, t
<1>5. ASSUME NEW code \in BOOLEAN  PROVE KeptHolds(t, recurring, [code |-> code, out |-> Append(acc.out, l)])
  BY <1>1, <1>2, <1>3 DEF KeptHolds
<1>6. l \in recurring \/ l.kind = "number" => KeptHolds(t, recurring, [code |-> acc.code, out |-> acc.out])
  BY <1>1, <1>2, <1>3 DEF KeptHolds
<1>7. KeptHolds(t, recurring, new)
  BY <1>1, <1>4, <1>5, <1>6
<1> QED BY <1>7 DEF new, t

\* what is kept of a page is drawn from it, and misses recurring lines and page numbers only
LEMMA KeptOf ==
  ASSUME NEW s \in Seq(Lines), NEW recurring
  PROVE  /\ Kept(s, recurring) \in Seq(Lines) /\ Drawn(Kept(s, recurring), s)
         /\ \A l \in ToSet(s) : l \in recurring \/ l.kind = "number" \/ l \in ToSet(Kept(s, recurring))
<1> DEFINE T == {r \in Seq(Lines) : KeptHolds(r, recurring, KeptState(r, recurring))}
<1>1. <<>> \in T
  <2> DEFINE base == [code |-> FALSE, out |-> <<>>]
  <2>1. <<>> \in Seq(Lines)
    BY EmptySeq
  <2>2. Drawn(<<>>, <<>>) /\ ToSet(<<>>) = {}
    BY NoMembers DEF Drawn
  <2>3. KeptHolds(<<>>, recurring, base)
    BY <2>1, <2>2 DEF KeptHolds
  <2>4. KeptState(<<>>, recurring) = base
    BY KeptFold
  <2> HIDE DEF base
  <2> QED BY <2>1, <2>3, <2>4
<1>2. ASSUME NEW r \in Seq(Lines), NEW l \in Lines, r \in T  PROVE Append(r, l) \in T
  <2>1. KeptState(Append(r, l), recurring) = KeepLine(recurring, KeptState(r, recurring), l)
    BY KeptFold
  <2>2. KeptHolds(Append(r, l), recurring, KeepLine(recurring, KeptState(r, recurring), l))
    BY <1>2, KeptLine
  <2>3. Append(r, l) \in Seq(Lines)
    OBVIOUS
  <2> QED BY <2>1, <2>2, <2>3
<1>3. KeptHolds(s, recurring, KeptState(s, recurring))
  <2>1. s \in T
    <3> HIDE DEF T
    <3> QED BY <1>1, <1>2, SeqInduction
  <2> QED BY <2>1
<1>4. Kept(s, recurring) = KeptState(s, recurring).out
  BY KeptFold
<1> QED BY <1>3, <1>4 DEF KeptHolds

-----------------------------------------------------------------------------
(* Joining broken words, and blank lines *)

HasWord(lines, w) == \E x \in ToSet(lines) : w \in ToSet(x.text)

\* what joining the broken words of k keeps
JoinedWell(k, out) ==
  /\ out \in Seq(Lines)
  /\ \A q \in DOMAIN k :
       \/ k[q] \in ToSet(out)
       \/ /\ k[q].wrap \/ \E r \in 1..q - 1 : k[r].wrap
          /\ \A w \in ToSet(Tail(k[q].text)) : HasWord(out, w)
  /\ \A x \in ToSet(out) : x.wrap => \E r \in DOMAIN k : k[r].wrap

\* the words after the first are words
LEMMA TailWords ==
  ASSUME NEW text \in Seq(Nat), text # <<>>
  PROVE  Tail(text) \in Seq(Nat) /\ ToSet(Tail(text)) \subseteq ToSet(text)
<1>1. Tail(text) \in Seq(Nat) /\ Len(text) >= 1 /\ Len(Tail(text)) = Len(text) - 1
      /\ \A i \in 1..Len(text) - 1 : Tail(text)[i] = text[i + 1]
  OBVIOUS
<1>2. DOMAIN Tail(text) = 1..Len(text) - 1 /\ DOMAIN text = 1..Len(text)
  BY <1>1
<1> QED BY <1>1, <1>2 DEF ToSet

\* a line joined with the next has the words of both but the broken one's second half
LEMMA JoinOf ==
  ASSUME NEW x \in Lines, NEW l \in Lines, x.wrap, l.kind \in {"text", "number"}
  PROVE  /\ JoinedWith(x, l) \in Lines
         /\ JoinedWith(x, l).wrap => l.wrap
         /\ \A w \in ToSet(Tail(x.text)) : w \in ToSet(JoinedWith(x, l).text)
         /\ \A w \in ToSet(x.text) : w \in ToSet(JoinedWith(x, l).text)
         /\ \A w \in ToSet(Tail(l.text)) : w \in ToSet(JoinedWith(x, l).text)
<1> DEFINE joined == JoinedWith(x, l)
<1>1. /\ x.text \in Seq(Nat) /\ x.text # <<>> /\ ~ IsBlank(x) /\ l.text \in Seq(Nat) /\ l.text # <<>>
      /\ x = [kind |-> x.kind, text |-> x.text, wrap |-> x.wrap] /\ l.wrap \in BOOLEAN
      /\ x.kind \in {"blank", "number", "h1", "h3", "fence", "row", "math", "text"}
  <2>1. x # Blank
    BY DEF Blank, Line
  <2>2. ~ IsBlank(x) /\ ~ IsBlank(l)
    BY <2>1 DEF Lines, IsBlank
  <2> QED BY <2>2 DEF Lines
<1>2. Tail(l.text) \in Seq(Nat)
  BY <1>1, TailWords
<1>3. PICK text \in Seq(Nat), wrap \in BOOLEAN : text = x.text \o Tail(l.text) /\ wrap = (l.wrap /\ Len(l.text) > 1)
  BY <1>1, <1>2, ConcatProperties
<1>4. joined = [kind |-> x.kind, text |-> text, wrap |-> wrap]
  <2>1. joined = [x EXCEPT !.text = x.text \o Tail(l.text), !.wrap = l.wrap /\ Len(l.text) > 1]
    BY DEF JoinedWith
  <2>2. joined = [x EXCEPT !.text = text, !.wrap = wrap]
    <3> HIDE DEF joined
    <3> QED BY <1>3, <2>1
  <2> HIDE DEF joined
  <2> QED BY <1>1, <2>2
<1> HIDE DEF joined
<1>5. ToSet(text) = ToSet(x.text) \cup ToSet(Tail(l.text))
  <2>1. PICK a \in Seq(Nat), b \in Seq(Nat) : a = x.text /\ b = Tail(l.text)
    BY <1>1, <1>2
  <2>2. ToSet(a \o b) = ToSet(a) \cup ToSet(b)
    BY MembersConcat
  <2> QED BY <1>3, <2>1, <2>2, Zenon
<1>6. text # <<>>
  <2>1. ToSet(x.text) # {}
    <3>1. PICK a \in Seq(Nat) : a = x.text /\ a # <<>>
      BY <1>1
    <3>2. a[1] \in ToSet(a)
      BY <3>1 DEF ToSet
    <3> QED BY <3>1, <3>2
  <2> QED BY <1>5, <2>1, NoMembers
<1>7. joined \in Lines
  BY <1>1, <1>4, <1>6 DEF Lines, IsBlank
<1>8. ToSet(Tail(x.text)) \subseteq ToSet(x.text)
  BY <1>1, TailWords
<1>9. joined.text = text /\ joined.wrap = wrap
  BY <1>4
<1>10. joined.wrap => l.wrap
  BY <1>3, <1>9
<1>11. \A w : w \in ToSet(x.text) \/ w \in ToSet(Tail(x.text)) \/ w \in ToSet(Tail(l.text)) => w \in ToSet(joined.text)
  BY <1>5, <1>8, <1>9
<1> QED BY <1>7, <1>10, <1>11, Zenon DEF joined

\* a line is left as it is, or joined, with its words but the first
LEMMA LineJoined ==
  ASSUME NEW k \in Seq(Lines), NEW out, JoinedWell(k, out), NEW l \in Lines
  PROVE  JoinedWell(Append(k, l), UnwrapLine({}, out, l))
<1> DEFINE c == Append(k, l)
           new == UnwrapLine({}, out, l)
<1>1. PICK m \in Nat : m = Len(k)
  OBVIOUS
<1>2. DOMAIN c = 1..m + 1 /\ DOMAIN k = 1..m /\ c[m + 1] = l /\ \A i \in 1..m : c[i] = k[i]
  BY <1>1, AppendOf
<1>3. out \in Seq(Lines)
  BY DEF JoinedWell
<1> HIDE DEF c
<1>4. CASE out # <<>> /\ Last(out).wrap /\ l.kind \in {"text", "number"}
  <2>1. PICK front \in Seq(Lines), last \in Lines : out = Append(front, last)
    BY <1>3, <1>4, SequenceEmptyOrAppend
  <2>2. Front(out) = front /\ Last(out) = last
    BY <2>1, EndsOf
  <2>3. PICK joined : joined = JoinedWith(last, l)
    OBVIOUS
  <2>4. new = Append(front, joined)
    BY <1>4, <2>2, <2>3 DEF UnwrapLine
  <2>5. /\ joined \in Lines
        /\ joined.wrap => l.wrap
        /\ \A w \in ToSet(Tail(last.text)) : w \in ToSet(joined.text)
        /\ \A w \in ToSet(last.text) : w \in ToSet(joined.text)
        /\ \A w \in ToSet(Tail(l.text)) : w \in ToSet(joined.text)
    BY <1>4, <2>2, <2>3, JoinOf
  <2>6. new \in Seq(Lines) /\ ToSet(new) = ToSet(front) \cup {joined} /\ ToSet(out) = ToSet(front) \cup {last}
    <3>1. Append(front, joined) \in Seq(Lines) /\ ToSet(Append(front, joined)) = ToSet(front) \cup {joined}
      BY <2>5, AppendProperties, MembersAppend
    <3>2. ToSet(Append(front, last)) = ToSet(front) \cup {last}
      BY MembersAppend
    <3> QED BY <2>1, <2>4, <3>1, <3>2, Zenon
  <2> HIDE DEF new
  <2>7. \A w : HasWord(out, w) => HasWord(new, w)
    BY <2>5, <2>6 DEF HasWord
  <2>8. \A w \in ToSet(Tail(l.text)) \cup ToSet(Tail(last.text)) : HasWord(new, w)
    BY <2>5, <2>6 DEF HasWord
  <2>9. PICK r \in 1..m : k[r].wrap
    BY <1>2, <1>4, <2>2, <2>6 DEF JoinedWell
  <2>10. ASSUME NEW q \in 1..m + 1
         PROVE  \/ c[q] \in ToSet(new)
                \/ /\ c[q].wrap \/ \E i \in 1..q - 1 : c[i].wrap
                   /\ \A w \in ToSet(Tail(c[q].text)) : HasWord(new, w)
    <3>1. CASE q = m + 1
      <4>1. r \in 1..q - 1
        BY <3>1
      <4> QED BY <1>2, <2>8, <2>9, <3>1, <4>1
    <3>2. CASE q # m + 1
      <4>1. q \in 1..m /\ \A i \in 1..q - 1 : i \in 1..m
        BY <3>2
      <4>2. CASE k[q] = last
        BY <1>2, <1>4, <2>2, <2>8, <4>1, <4>2
      <4>3. CASE k[q] # last
        <5>1. \/ k[q] \in ToSet(out)
              \/ /\ k[q].wrap \/ \E i \in 1..q - 1 : k[i].wrap
                 /\ \A w \in ToSet(Tail(k[q].text)) : HasWord(out, w)
          BY <1>2, <4>1 DEF JoinedWell
        <5> QED BY <1>2, <2>6, <2>7, <4>1, <4>3, <5>1
      <4> QED BY <4>2, <4>3
    <3> QED BY <3>1, <3>2
  <2>11. ASSUME NEW x \in ToSet(new), x.wrap  PROVE \E i \in DOMAIN c : c[i].wrap
    <3>1. r \in DOMAIN c /\ c[r].wrap
      BY <1>2, <2>9
    <3> QED BY <3>1
  <2>12. JoinedWell(c, new)
    BY <1>2, <2>6, <2>10, <2>11 DEF JoinedWell
  <2> QED BY <2>12 DEF c, new
<1>5. CASE ~ (out # <<>> /\ Last(out).wrap /\ l.kind \in {"text", "number"})
  <2>1. new = Append(out, l)
    BY <1>5 DEF UnwrapLine
  <2>2. new \in Seq(Lines) /\ ToSet(new) = ToSet(out) \cup {l}
    <3>1. Append(out, l) \in Seq(Lines) /\ ToSet(Append(out, l)) = ToSet(out) \cup {l}
      BY <1>3, AppendProperties, MembersAppend
    <3> QED BY <2>1, <3>1, Zenon
  <2> HIDE DEF new
  <2>3. \A w : HasWord(out, w) => HasWord(new, w)
    BY <2>2 DEF HasWord
  <2>4. ASSUME NEW q \in 1..m + 1
        PROVE  \/ c[q] \in ToSet(new)
               \/ /\ c[q].wrap \/ \E i \in 1..q - 1 : c[i].wrap
                  /\ \A w \in ToSet(Tail(c[q].text)) : HasWord(new, w)
    <3>1. CASE q = m + 1
      BY <1>2, <2>2, <3>1
    <3>2. CASE q # m + 1
      <4>1. q \in 1..m /\ \A i \in 1..q - 1 : i \in 1..m
        BY <3>2
      <4>2. \/ k[q] \in ToSet(out)
            \/ /\ k[q].wrap \/ \E i \in 1..q - 1 : k[i].wrap
               /\ \A w \in ToSet(Tail(k[q].text)) : HasWord(out, w)
        BY <1>2, <4>1 DEF JoinedWell
      <4> QED BY <1>2, <2>2, <2>3, <4>1, <4>2
    <3> QED BY <3>1, <3>2
  <2>5. ASSUME NEW x \in ToSet(new), x.wrap  PROVE \E i \in DOMAIN c : c[i].wrap
    <3>1. m + 1 \in DOMAIN c /\ \A i \in DOMAIN k : i \in DOMAIN c /\ c[i] = k[i]
      BY <1>2
    <3>2. CASE x = l
      BY <1>2, <2>5, <3>1, <3>2
    <3>3. CASE x \in ToSet(out)
      BY <2>5, <3>1, <3>3 DEF JoinedWell
    <3> QED BY <2>2, <3>2, <3>3
  <2>6. JoinedWell(c, new)
    BY <1>2, <2>2, <2>4, <2>5 DEF JoinedWell
  <2> QED BY <2>6 DEF c, new
<1> QED BY <1>4, <1>5

\* so for all lines of a page
LEMMA UnwrappedOf ==
  ASSUME NEW k \in Seq(Lines)
  PROVE  JoinedWell(k, Unwrapped(k))
<1> DEFINE T == {r \in Seq(Lines) : JoinedWell(r, Unwrapped(r))}
<1>1. <<>> \in T
  <2>1. <<>> \in Seq(Lines) /\ DOMAIN <<>> = {}
    BY EmptySeq
  <2>2. JoinedWell(<<>>, <<>>)
    BY <2>1, NoMembers DEF JoinedWell
  <2> QED BY <2>1, <2>2, UnwrappedFold
<1>2. ASSUME NEW r \in Seq(Lines), NEW l \in Lines, r \in T  PROVE Append(r, l) \in T
  <2>1. Unwrapped(Append(r, l)) = UnwrapLine({}, Unwrapped(r), l)
    BY UnwrappedFold
  <2>2. JoinedWell(Append(r, l), UnwrapLine({}, Unwrapped(r), l))
    BY <1>2, LineJoined
  <2>3. Append(r, l) \in Seq(Lines)
    OBVIOUS
  <2> QED BY <2>1, <2>2, <2>3
<1>3. k \in T
  <2> HIDE DEF T
  <2> QED BY <1>1, <1>2, SeqInduction
<1> QED BY <1>3

\* tidying drops blank lines only
TidyHolds(s, out) == out \in Seq(Lines) /\ \A x \in ToSet(s) : IsBlank(x) \/ x \in ToSet(out)

\* a line is left or blank
LEMMA LineSqueezed ==
  ASSUME NEW s \in Seq(Lines), NEW out, TidyHolds(s, out), NEW l \in Lines
  PROVE  TidyHolds(Append(s, l), SqueezeLine({}, out, l))
<1>1. ToSet(Append(s, l)) = ToSet(s) \cup {l}
  BY MembersAppend
<1>2. Append(out, l) \in Seq(Lines) /\ ToSet(Append(out, l)) = ToSet(out) \cup {l}
  BY AppendProperties, MembersAppend DEF TidyHolds
<1>3. \/ SqueezeLine({}, out, l) = out /\ IsBlank(l)
      \/ SqueezeLine({}, out, l) = Append(out, l)
  BY DEF SqueezeLine
<1> QED BY <1>1, <1>2, <1>3 DEF TidyHolds

\* so for all lines of a page, the last one included
LEMMA TidiedOf ==
  ASSUME NEW s \in Seq(Lines)
  PROVE  TidyHolds(s, Tidied(s))
<1> DEFINE T == {r \in Seq(Lines) : TidyHolds(r, Squeezed(r))}
<1>1. <<>> \in T
  <2>1. <<>> \in Seq(Lines)
    BY EmptySeq
  <2>2. TidyHolds(<<>>, <<>>)
    BY <2>1, NoMembers DEF TidyHolds
  <2> QED BY <2>1, <2>2, SqueezedFold
<1>2. ASSUME NEW r \in Seq(Lines), NEW l \in Lines, r \in T  PROVE Append(r, l) \in T
  <2>1. Squeezed(Append(r, l)) = SqueezeLine({}, Squeezed(r), l)
    BY SqueezedFold
  <2>2. TidyHolds(Append(r, l), SqueezeLine({}, Squeezed(r), l))
    BY <1>2, LineSqueezed
  <2>3. Append(r, l) \in Seq(Lines)
    OBVIOUS
  <2> QED BY <2>1, <2>2, <2>3
<1>3. TidyHolds(s, Squeezed(s))
  <2>1. s \in T
    <3> HIDE DEF T
    <3> QED BY <1>1, <1>2, SeqInduction
  <2> QED BY <2>1
<1>4. Tidied(s) = IF Squeezed(s) # <<>> /\ IsBlank(Last(Squeezed(s))) THEN Front(Squeezed(s)) ELSE Squeezed(s)
  BY DEF Tidied, Squeezed
<1>5. CASE Squeezed(s) # <<>> /\ IsBlank(Last(Squeezed(s)))
  <2>1. PICK front \in Seq(Lines), last \in Lines : Squeezed(s) = Append(front, last)
    BY <1>3, <1>5, SequenceEmptyOrAppend DEF TidyHolds
  <2>2. Front(Squeezed(s)) = front /\ Last(Squeezed(s)) = last
    BY <2>1, EndsOf
  <2>3. ToSet(Squeezed(s)) = ToSet(front) \cup {last}
    BY <2>1, MembersAppend
  <2> QED BY <1>3, <1>4, <1>5, <2>2, <2>3 DEF TidyHolds
<1> QED BY <1>3, <1>4, <1>5

-----------------------------------------------------------------------------
(* Places in a flattened sequence *)

\* flat holds the sequences of ss one after the other, at the offsets at
Places(ss, flat, at) ==
  \A p \in DOMAIN ss : \A i \in DOMAIN ss[p] :
    /\ at[p] \in Nat /\ at[p] + i \in DOMAIN flat /\ flat[at[p] + i] = ss[p][i]
    /\ \A q \in 1..p - 1 : \A j \in DOMAIN ss[q] : at[q] + j < at[p] + i

\* a sequence more comes after all others
LEMMA PlacesMore ==
  ASSUME NEW S, NEW LL, LL = Seq(S), NEW ss \in Seq(LL), NEW flat \in Seq(S), NEW at, Places(ss, flat, at), NEW s \in LL
  PROVE  \E a : Places(Append(ss, s), flat \o s, a)
<1>1. PICK n \in Nat, m \in Nat, k \in Nat : n = Len(ss) /\ m = Len(flat) /\ k = Len(s)
  <2>1. s \in Seq(S)
    OBVIOUS
  <2> QED BY <2>1
<1> DEFINE tt == Append(ss, s)
           long == flat \o s
           a == [p \in 1..n + 1 |-> IF p = n + 1 THEN m ELSE at[p]]
<1>2. DOMAIN tt = 1..n + 1 /\ DOMAIN ss = 1..n /\ tt[n + 1] = s /\ \A p \in 1..n : tt[p] = ss[p]
  <2>1. \A SS : ss \in Seq(SS) /\ s \in SS => /\ DOMAIN tt = 1..n + 1 /\ DOMAIN ss = 1..n
                                              /\ tt[n + 1] = s /\ \A p \in 1..n : tt[p] = ss[p]
    BY <1>1, AppendOf
  <2> QED BY <2>1, Zenon
<1>3. /\ DOMAIN long = 1..m + k /\ DOMAIN flat = 1..m /\ DOMAIN s = 1..k
      /\ \A i \in 1..m : long[i] = flat[i]
      /\ \A i \in 1..k : long[m + i] = s[i]
  BY <1>1, ConcatOf
<1> HIDE DEF tt, long
<1>4. a[n + 1] = m /\ \A p \in 1..n : a[p] = at[p]
  OBVIOUS
<1> HIDE DEF a
<1>5. ASSUME NEW p \in 1..n, NEW i \in DOMAIN ss[p]
      PROVE  /\ at[p] \in Nat /\ at[p] + i \in 1..m /\ flat[at[p] + i] = ss[p][i]
             /\ \A q \in 1..p - 1 : \A j \in DOMAIN ss[q] : at[q] + j < at[p] + i
  BY <1>2, <1>3 DEF Places
<1>6. ASSUME NEW p \in 1..n + 1, NEW i \in DOMAIN tt[p]
      PROVE  /\ a[p] \in Nat /\ a[p] + i \in DOMAIN long /\ long[a[p] + i] = tt[p][i]
             /\ \A q \in 1..p - 1 : \A j \in DOMAIN tt[q] : a[q] + j < a[p] + i
  <2>1. CASE p = n + 1
    <3>1. i \in 1..k /\ a[p] = m /\ tt[p][i] = s[i]
      BY <1>2, <1>3, <1>4, <2>1
    <3>2. ASSUME NEW q \in 1..p - 1, NEW j \in DOMAIN tt[q]  PROVE a[q] + j < a[p] + i
      <4>1. q \in 1..n
        BY <2>1
      <4>2. a[q] + j \in 1..m
        BY <1>2, <1>4, <1>5, <4>1
      <4> QED BY <3>1, <4>2
    <3>3. m + i \in 1..m + k
      BY <3>1
    <3> QED BY <1>3, <3>1, <3>2, <3>3
  <2>2. CASE p # n + 1
    <3>1. p \in 1..n
      BY <2>2
    <3>2. tt[p] = ss[p] /\ a[p] = at[p]
      BY <1>2, <1>4, <3>1
    <3>3. /\ at[p] \in Nat /\ at[p] + i \in 1..m /\ flat[at[p] + i] = ss[p][i]
          /\ \A q \in 1..p - 1 : \A j \in DOMAIN ss[q] : at[q] + j < at[p] + i
      BY <1>5, <3>1, <3>2
    <3>4. \A q \in 1..p - 1 : tt[q] = ss[q] /\ a[q] = at[q]
      BY <1>2, <1>4, <3>1
    <3>5. at[p] + i \in 1..m + k
      BY <3>3
    <3> QED BY <1>3, <3>2, <3>3, <3>4, <3>5
  <2> QED BY <2>1, <2>2
<1>7. Places(tt, long, a)
  BY <1>2, <1>6 DEF Places
<1> QED BY <1>7 DEF tt, long

\* a flattened sequence has every element at its place
LEMMA FlattenPlaces ==
  ASSUME NEW S, NEW ss \in Seq(Seq(S))
  PROVE  FlattenSeq(ss) \in Seq(S) /\ \E at : Places(ss, FlattenSeq(ss), at)
<1>1. PICK LL : LL = Seq(S)
  OBVIOUS
<1> DEFINE T == {r \in Seq(LL) : FlattenSeq(r) \in Seq(S) /\ \E at : Places(r, FlattenSeq(r), at)}
<1>2. <<>> \in T
  <2>1. <<>> \in Seq(LL) /\ <<>> \in Seq(S) /\ DOMAIN <<>> = {}
    BY EmptySeq
  <2>2. FlattenSeq(<<>>) = <<>>
    BY FlattenFold
  <2>3. Places(<<>>, <<>>, <<>>)
    BY <2>1 DEF Places
  <2> QED BY <2>1, <2>2, <2>3
<1>3. ASSUME NEW r \in Seq(LL), NEW s \in LL, r \in T  PROVE Append(r, s) \in T
  <2>1. FlattenSeq(Append(r, s)) = FlattenSeq(r) \o s
    BY <1>1, FlattenFold
  <2>2. FlattenSeq(r) \o s \in Seq(S)
    BY <1>1, <1>3, ConcatProperties
  <2>3. \E a : Places(Append(r, s), FlattenSeq(r) \o s, a)
    BY <1>1, <1>3, PlacesMore
  <2>4. Append(r, s) \in Seq(LL)
    BY AppendProperties
  <2> QED BY <2>1, <2>2, <2>3, <2>4
<1>4. ss \in T
  <2> HIDE DEF T
  <2>1. ss \in Seq(LL)
    BY <1>1
  <2> QED BY <1>2, <1>3, <2>1, SeqInduction
<1> QED BY <1>4

-----------------------------------------------------------------------------
(* Recurring lines *)

\* the lines of pages, one page after the other
PagePlaces(pages, at) ==
  \A p \in DOMAIN pages : \A i \in DOMAIN pages[p].lines :
    /\ at[p] \in Nat /\ at[p] + i \in DOMAIN AllLines(pages) /\ AllLines(pages)[at[p] + i] = pages[p].lines[i]
    /\ \A q \in 1..p - 1 : \A j \in DOMAIN pages[q].lines : at[q] + j < at[p] + i

\* a page of pages and its lines
LEMMA PageOf ==
  ASSUME NEW pages \in Seq(PageSet), NEW p \in DOMAIN pages
  PROVE  /\ pages[p] \in PageSet /\ pages[p].page \in Nat /\ pages[p].lines \in Seq(Lines)
         /\ DOMAIN pages[p].lines \subseteq Nat
<1>1. pages[p] \in PageSet
  OBVIOUS
<1>2. pages[p].page \in Nat /\ pages[p].lines \in Seq(Lines)
  BY <1>1 DEF PageSet
<1>3. PICK s \in Seq(Lines) : s = pages[p].lines
  BY <1>2
<1>4. DOMAIN s \subseteq Nat
  OBVIOUS
<1> QED BY <1>1, <1>2, <1>3, <1>4

\* every line of a page is a line of the document, and pages come in their order
LEMMA PagesArePlaced ==
  ASSUME NEW pages \in Seq(PageSet)
  PROVE  AllLines(pages) \in Seq(Lines) /\ \E at : PagePlaces(pages, at)
<1> DEFINE ss == [p \in DOMAIN pages |-> pages[p].lines]
<1>1. DOMAIN ss = DOMAIN pages /\ \A p \in DOMAIN pages : ss[p] = pages[p].lines
  OBVIOUS
<1>2. ss \in Seq(Seq(Lines))
  BY AllLinesFold DEF LineSeqs
<1>3. AllLines(pages) = FlattenSeq(ss)
  BY DEF AllLines
<1> HIDE DEF ss
<1>4. FlattenSeq(ss) \in Seq(Lines) /\ \E at : Places(ss, FlattenSeq(ss), at)
  BY <1>2, FlattenPlaces
<1>5. PICK at : Places(ss, AllLines(pages), at)
  BY <1>3, <1>4
<1>6. PICK n \in Nat : DOMAIN pages = 1..n
  OBVIOUS
<1>7. ASSUME NEW p \in DOMAIN pages, NEW i \in DOMAIN pages[p].lines
      PROVE  /\ at[p] \in Nat /\ at[p] + i \in DOMAIN AllLines(pages) /\ AllLines(pages)[at[p] + i] = pages[p].lines[i]
             /\ \A q \in 1..p - 1 : \A j \in DOMAIN pages[q].lines : at[q] + j < at[p] + i
  <2>1. \A q \in 1..p - 1 : q \in DOMAIN pages
    BY <1>6
  <2>2. \A q \in 1..p - 1 : ss[q] = pages[q].lines
    BY <1>1, <2>1
  <2>3. p \in DOMAIN ss /\ i \in DOMAIN ss[p] /\ ss[p] = pages[p].lines
    BY <1>1
  <2>4. /\ at[p] \in Nat /\ at[p] + i \in DOMAIN AllLines(pages) /\ AllLines(pages)[at[p] + i] = ss[p][i]
        /\ \A q \in 1..p - 1 : \A j \in DOMAIN ss[q] : at[q] + j < at[p] + i
    BY <1>5, <2>3, Zenon DEF Places
  <2> QED BY <2>2, <2>3, <2>4
<1>8. PagePlaces(pages, at)
  BY <1>7 DEF PagePlaces
<1> QED BY <1>3, <1>4, <1>8

\* every line of the document is a line of a page
LEMMA LineHasPage ==
  ASSUME NEW pages \in Seq(PageSet), NEW l \in ToSet(AllLines(pages))
  PROVE  \E p \in DOMAIN pages : l \in ToSet(pages[p].lines)
<1> DEFINE T == {ps \in Seq(PageSet) : /\ AllLines(ps) \in Seq(Lines)
                                       /\ \A x \in ToSet(AllLines(ps)) : \E p \in DOMAIN ps : x \in ToSet(ps[p].lines)}
<1>1. <<>> \in T
  <2>1. <<>> \in Seq(PageSet) /\ <<>> \in Seq(Lines)
    BY EmptySeq
  <2> QED BY <2>1, AllLinesFold, NoMembers
<1>2. ASSUME NEW ps \in Seq(PageSet), NEW q \in PageSet, ps \in T  PROVE Append(ps, q) \in T
  <2>1. AllLines(Append(ps, q)) = AllLines(ps) \o q.lines
    BY AllLinesFold
  <2>2. q.lines \in Seq(Lines)
    BY DEF PageSet
  <2>3. ToSet(AllLines(ps) \o q.lines) = ToSet(AllLines(ps)) \cup ToSet(q.lines)
    BY <1>2, <2>2, MembersConcat
  <2>4. PICK n \in Nat : n = Len(ps)
    OBVIOUS
  <2>5. /\ Append(ps, q) \in Seq(PageSet) /\ DOMAIN ps = 1..n /\ DOMAIN Append(ps, q) = 1..n + 1
        /\ Append(ps, q)[n + 1] = q /\ \A i \in 1..n : Append(ps, q)[i] = ps[i]
    BY <2>4, AppendOf
  <2>6. AllLines(ps) \o q.lines \in Seq(Lines)
    BY <1>2, <2>2, ConcatProperties
  <2>7. ASSUME NEW x \in ToSet(AllLines(ps)) \cup ToSet(q.lines)
        PROVE  \E p \in DOMAIN Append(ps, q) : x \in ToSet(Append(ps, q)[p].lines)
    <3>1. CASE x \in ToSet(q.lines)
      <4>1. n + 1 \in DOMAIN Append(ps, q)
        BY <2>5
      <4> QED BY <2>5, <3>1, <4>1
    <3>2. CASE x \in ToSet(AllLines(ps))
      <4>1. PICK p \in DOMAIN ps : x \in ToSet(ps[p].lines)
        BY <1>2, <3>2
      <4>2. p \in DOMAIN Append(ps, q)
        BY <2>5
      <4> QED BY <2>5, <4>1, <4>2
    <3> QED BY <3>1, <3>2
  <2> QED BY <2>1, <2>3, <2>5, <2>6, <2>7
<1>3. pages \in T
  <2> HIDE DEF T
  <2> QED BY <1>1, <1>2, SeqInduction
<1> QED BY <1>3

Unique(l, lines) == \A i, j \in DOMAIN lines : lines[i] = l /\ lines[j] = l => i = j

\* a line that occurs once has one vote at most, and MinOccurrences asks for two
LEMMA OnceDoesNotRecur ==
  ASSUME NEW pages \in Seq(PageSet), NEW edges, NEW l, Unique(l, AllLines(pages)),
         \A p \in DOMAIN pages : edges[p] \subseteq DOMAIN pages[p].lines
  PROVE  l \notin Recurring(pages, edges)
<1>1. PICK at : PagePlaces(pages, at)
  BY PagesArePlaced
<1>2. PICK n \in Nat : n = Len(pages) /\ DOMAIN pages = 1..n
  OBVIOUS
<1> DEFINE votes == UNION {{p} \X edges[p] : p \in DOMAIN pages}
           V == {v \in votes : pages[v[1]].lines[v[2]] = l}
<1>3. ASSUME NEW v \in V, NEW w \in V  PROVE v = w
  <2>1. PICK p, i : p \in DOMAIN pages /\ i \in edges[p] /\ v = <<p, i>>
    OBVIOUS
  <2>2. PICK q, j : q \in DOMAIN pages /\ j \in edges[q] /\ w = <<q, j>>
    OBVIOUS
  <2>3. /\ p \in 1..n /\ i \in DOMAIN pages[p].lines /\ pages[p].lines[i] = l
        /\ q \in 1..n /\ j \in DOMAIN pages[q].lines /\ pages[q].lines[j] = l
    BY <1>2, <2>1, <2>2
  <2>4. /\ at[p] \in Nat /\ at[p] + i \in DOMAIN AllLines(pages) /\ AllLines(pages)[at[p] + i] = l
        /\ at[q] \in Nat /\ at[q] + j \in DOMAIN AllLines(pages) /\ AllLines(pages)[at[q] + j] = l
        /\ p < q => at[p] + i < at[q] + j
        /\ q < p => at[q] + j < at[p] + i
    <3>1. p < q => p \in 1..q - 1
      BY <2>3
    <3>2. q < p => q \in 1..p - 1
      BY <2>3
    <3> QED BY <1>1, <1>2, <2>3, <3>1, <3>2 DEF PagePlaces
  <2>5. at[p] + i = at[q] + j
    BY <2>4 DEF Unique
  <2>6. i \in Nat /\ j \in Nat
    <3>1. p \in DOMAIN pages /\ q \in DOMAIN pages
      BY <1>2, <2>3
    <3>2. DOMAIN pages[p].lines \subseteq Nat /\ DOMAIN pages[q].lines \subseteq Nat
      BY <3>1, PageOf
    <3> QED BY <2>3, <3>2
  <2>7. p = q /\ i = j
    BY <2>3, <2>4, <2>5, <2>6
  <2> QED BY <2>1, <2>2, <2>7
<1>4. Cardinality(V) \in {0, 1}
  <2> HIDE DEF V
  <2>1. CASE V = {}
    BY <2>1, FS_EmptySet
  <2>2. CASE V # {}
    <3>1. PICK v : v \in V
      BY <2>2
    <3>2. V = {v}
      BY <1>3, <3>1
    <3>3. Cardinality({v}) = 1
      BY FS_Singleton
    <3> QED BY <3>2, <3>3
  <2> QED BY <2>1, <2>2
<1>5. MinOccurrences(pages) >= 2 /\ MinOccurrences(pages) \in Int
  BY <1>2 DEF MinOccurrences
<1>6. l \in Recurring(pages, edges) => Cardinality(V) >= MinOccurrences(pages)
  BY DEF Recurring
<1> HIDE DEF V
<1> QED BY <1>4, <1>5, <1>6

-----------------------------------------------------------------------------
(* What cleaning promises *)

\* the lines of a page, cleaned
CleanLines(lines, recurring) == Tidied(Unwrapped(Kept(lines, recurring)))

\* a cleaned page keeps a line, or its words but the first if it takes part in a broken word
LEMMA CleanLinesOf ==
  ASSUME NEW s \in Seq(Lines), NEW recurring
  PROVE  /\ CleanLines(s, recurring) \in Seq(Lines)
         /\ \A l \in ToSet(s) :
              \/ l \in recurring \/ l.kind = "number" \/ IsBlank(l) \/ l \in ToSet(CleanLines(s, recurring))
              \/ /\ l.wrap \/ \E i, j \in DOMAIN s : i < j /\ s[i].wrap /\ s[j] = l
                 /\ \A w \in ToSet(Tail(l.text)) : HasWord(CleanLines(s, recurring), w)
<1> DEFINE k == Kept(s, recurring)
           u == Unwrapped(k)
           t == CleanLines(s, recurring)
<1>1. /\ k \in Seq(Lines) /\ Drawn(k, s)
      /\ \A l \in ToSet(s) : l \in recurring \/ l.kind = "number" \/ l \in ToSet(k)
  BY KeptOf
<1>2. JoinedWell(k, u)
  BY <1>1, UnwrappedOf
<1>3. TidyHolds(u, t)
  BY <1>2, TidiedOf DEF JoinedWell, CleanLines
<1> HIDE DEF k, u, t
<1>4. \A w : HasWord(u, w) => HasWord(t, w)
  <2>1. \A x \in Lines : IsBlank(x) => ToSet(x.text) = {}
    BY NoMembers DEF Lines, Blank, Line
  <2>2. \A x \in ToSet(u) : x \in Lines
    BY <1>2, MembersIn DEF JoinedWell
  <2> QED BY <1>3, <2>1, <2>2 DEF HasWord, TidyHolds
<1>5. ASSUME NEW l \in ToSet(s), l \notin recurring, l.kind # "number", ~ IsBlank(l), l \notin ToSet(t)
      PROVE  /\ l.wrap \/ \E i, j \in DOMAIN s : i < j /\ s[i].wrap /\ s[j] = l
             /\ \A w \in ToSet(Tail(l.text)) : HasWord(t, w)
  <2>1. l \notin ToSet(u)
    BY <1>3, <1>5 DEF TidyHolds
  <2>2. PICK q \in DOMAIN k : k[q] = l
    BY <1>1, <1>5 DEF ToSet
  <2>3. /\ k[q].wrap \/ \E r \in 1..q - 1 : k[r].wrap
        /\ \A w \in ToSet(Tail(k[q].text)) : HasWord(u, w)
    BY <1>2, <2>1, <2>2 DEF JoinedWell
  <2>4. \A w \in ToSet(Tail(l.text)) : HasWord(t, w)
    BY <1>4, <2>2, <2>3
  <2>5. ASSUME NEW r \in 1..q - 1, k[r].wrap  PROVE \E i, j \in DOMAIN s : i < j /\ s[i].wrap /\ s[j] = l
    <3>1. PICK j \in DOMAIN s : s[j] = l /\ \E i \in 1..j - 1 : s[i] = k[r]
      BY <1>1, <2>2 DEF Drawn
    <3>2. PICK i \in 1..j - 1 : s[i] = k[r]
      BY <3>1
    <3>3. i \in DOMAIN s /\ i < j
      <4>1. PICK n \in Nat : DOMAIN s = 1..n
        OBVIOUS
      <4> QED BY <3>1, <4>1
    <3> QED BY <2>5, <3>1, <3>2, <3>3
  <2> QED BY <2>2, <2>3, <2>4, <2>5
<1>6. t \in Seq(Lines)
  BY <1>3 DEF TidyHolds
<1> QED BY <1>5, <1>6 DEF t

Dropped(pages) == Recurring(pages, [p \in DOMAIN pages |-> TopLines(pages[p].lines)])
                  \cup Recurring(pages, [p \in DOMAIN pages |-> BottomLines(pages[p].lines)])

\* cleaning keeps the pages and cleans the lines of each
LEMMA CleanedOf ==
  ASSUME NEW pages \in Seq(PageSet)
  PROVE  /\ Cleaned(pages) \in Seq(PageSet) /\ DOMAIN Cleaned(pages) = DOMAIN pages
         /\ \A p \in DOMAIN pages : Cleaned(pages)[p].lines = CleanLines(pages[p].lines, Dropped(pages))
<1>1. PICK n \in Nat : n = Len(pages) /\ DOMAIN pages = 1..n
  OBVIOUS
<1>2. PICK R : R = Dropped(pages)
  OBVIOUS
<1> DEFINE v == Cleaned(pages)
<1>3. v = [p \in DOMAIN pages |-> [pages[p] EXCEPT !.lines = CleanLines(pages[p].lines, R)]]
  BY <1>2 DEF Cleaned, CleanLines, Dropped
<1> HIDE DEF v
<1>4. ASSUME NEW p \in DOMAIN pages  PROVE v[p] \in PageSet /\ v[p].lines = CleanLines(pages[p].lines, R)
  <2>1. PICK x \in Seq(Lines) : x = CleanLines(pages[p].lines, R)
    BY PageOf, CleanLinesOf
  <2>2. v[p] = [pages[p] EXCEPT !.lines = x]
    BY <1>3, <2>1
  <2>3. pages[p] \in PageSet
    OBVIOUS
  <2>4. [pages[p] EXCEPT !.lines = x] \in PageSet /\ [pages[p] EXCEPT !.lines = x].lines = x
    BY <2>3 DEF PageSet
  <2> QED BY <2>1, <2>2, <2>4
<1>5. v \in [1..n -> PageSet]
  BY <1>1, <1>3, <1>4
<1>6. v \in Seq(PageSet)
  BY <1>5, SeqDef
<1>7. DOMAIN v = DOMAIN pages
  BY <1>3
<1> QED BY <1>2, <1>4, <1>6, <1>7 DEF v

\* a line that occurs once in the document outlives cleaning
LEMMA CleaningKeeps ==
  ASSUME NEW pages \in Seq(PageSet), NEW l \in ToSet(AllLines(pages)), Unique(l, AllLines(pages)),
         ~ IsBlank(l), l.kind # "number"
  PROVE  \/ l \in ToSet(AllLines(Cleaned(pages)))
         \/ /\ l.wrap \/ \E i, k \in DOMAIN AllLines(pages) : k < i /\ AllLines(pages)[k].wrap /\ AllLines(pages)[i] = l
            /\ \A w \in ToSet(Tail(l.text)) : HasWord(AllLines(Cleaned(pages)), w)
<1>1. PICK p \in DOMAIN pages : l \in ToSet(pages[p].lines)
  BY LineHasPage
<1>2. l \notin Dropped(pages)
  <2>1. ASSUME NEW q \in DOMAIN pages
        PROVE  TopLines(pages[q].lines) \subseteq DOMAIN pages[q].lines /\ BottomLines(pages[q].lines) \subseteq DOMAIN pages[q].lines
    BY DEF TopLines, BottomLines, Filled
  <2>2. l \notin Recurring(pages, [q \in DOMAIN pages |-> TopLines(pages[q].lines)])
    BY <2>1, OnceDoesNotRecur
  <2>3. l \notin Recurring(pages, [q \in DOMAIN pages |-> BottomLines(pages[q].lines)])
    BY <2>1, OnceDoesNotRecur
  <2> QED BY <2>2, <2>3 DEF Dropped
<1>3. PICK s \in Seq(Lines), t \in Seq(Lines) : s = pages[p].lines /\ t = CleanLines(s, Dropped(pages))
  BY PageOf, CleanLinesOf
<1>4. \/ l \in ToSet(t)
      \/ /\ l.wrap \/ \E i, j \in DOMAIN s : i < j /\ s[i].wrap /\ s[j] = l
         /\ \A w \in ToSet(Tail(l.text)) : HasWord(t, w)
  BY <1>1, <1>2, <1>3, CleanLinesOf
<1>5. ToSet(t) \subseteq ToSet(AllLines(Cleaned(pages)))
  <2>1. PICK at : PagePlaces(Cleaned(pages), at)
    BY CleanedOf, PagesArePlaced
  <2>2. p \in DOMAIN Cleaned(pages) /\ Cleaned(pages)[p].lines = t
    BY <1>3, CleanedOf
  <2>3. \A i \in DOMAIN t : at[p] + i \in DOMAIN AllLines(Cleaned(pages)) /\ AllLines(Cleaned(pages))[at[p] + i] = t[i]
    BY <2>1, <2>2 DEF PagePlaces
  <2> QED BY <2>3 DEF ToSet
<1>6. ASSUME NEW i \in DOMAIN s, NEW j \in DOMAIN s, i < j, s[i].wrap, s[j] = l
      PROVE  \E a, b \in DOMAIN AllLines(pages) : b < a /\ AllLines(pages)[b].wrap /\ AllLines(pages)[a] = l
  <2>1. PICK at : PagePlaces(pages, at)
    BY PagesArePlaced
  <2>2. /\ at[p] \in Nat /\ at[p] + i \in DOMAIN AllLines(pages) /\ at[p] + j \in DOMAIN AllLines(pages)
        /\ AllLines(pages)[at[p] + i] = s[i] /\ AllLines(pages)[at[p] + j] = s[j]
    BY <1>3, <2>1 DEF PagePlaces
  <2>3. at[p] + i < at[p] + j
    BY <1>6, <2>2
  <2> QED BY <1>6, <2>2, <2>3
<1>7. \A w : HasWord(t, w) => HasWord(AllLines(Cleaned(pages)), w)
  BY <1>5 DEF HasWord
<1> QED BY <1>4, <1>5, <1>6, <1>7
=============================================================================
