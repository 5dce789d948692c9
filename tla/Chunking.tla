------------------------------ MODULE Chunking ------------------------------
(***************************************************************************)
(* From parsed pages to chunks: the cleaner (ai/rag/ingestion/cleaner.py)  *)
(* and the structure-aware chunker (ai/rag/chunking/structure_chunker.py). *)
(* A line is what they can tell of it: its kind, its words, and whether it *)
(* ends in the hyphen of a broken word.  A word is a number that tells it  *)
(* from others and how many letters it has; the marks of a heading, a row, *)
(* a fence or a formula are words of its line.                             *)
(*   kinds: blank, number (a page number), h1 (levels 1 and 2), h3, fence  *)
(*   (```), row (of a table), math ($$...$$ on one line), text             *)
(***************************************************************************)
EXTENDS Integers, SequencesExt

CONSTANTS MinTokens, MaxTokens, OverlapTokens,
          LongestWord   \* letters of the longest word

ASSUME ChunkingAssumption == {MinTokens, MaxTokens, OverlapTokens} \subseteq Nat /\ LongestWord \in Nat \ {0}

Line(kind, text) == [kind |-> kind, text |-> text, wrap |-> FALSE]
Blank == Line("blank", <<>>)
IsBlank(l) == l.kind = "blank"
IsHeading(l) == l.kind \in {"h1", "h3"}
Page(n, lines) == [page |-> n, lines |-> lines]

Lines == {l \in [kind : {"blank", "number", "h1", "h3", "fence", "row", "math", "text"},
                 text : Seq(Nat), wrap : BOOLEAN] :
            /\ IsBlank(l) => l = Blank
            /\ ~ IsBlank(l) => l.text # <<>>}
PageSet == [page : Nat, lines : Seq(Lines)]

\* part is in lines, whole and without a gap
Inside(part, lines) == \E i \in 0..Len(lines) - Len(part) : \A k \in DOMAIN part : lines[i + k] = part[k]

Letters(word) == 1 + (word % LongestWord)
\* the characters of a line, the space after each word or the end of the line included
Width(l) == IF l.text = <<>> THEN 1 ELSE FoldLeft(LAMBDA sum, w : sum + Letters(w) + 1, 0, l.text)
Words(lines) == FoldLeft(LAMBDA sum, l : sum + Len(l.text), 0, lines)
Characters(lines) == FoldLeft(LAMBDA sum, l : sum + Width(l), 0, lines)

\* a token for every word, or for every 3.8 characters when these are more; it is not additive
Estimate(words, characters) == LET rate == (5 * characters) \div 19 IN IF words > rate THEN words ELSE rate
\* the tokens of a text; its last line has no end
Tokens(lines) == Estimate(Words(lines), Characters(lines) - 1)

AllLines(pages) == FlattenSeq([p \in DOMAIN pages |-> pages[p].lines])

-----------------------------------------------------------------------------
(* The cleaner *)

\* mutant: half of the pages, also of a single one
HalfOfPages(pages) == Len(pages) \div 2

MinOccurrences(pages) == IF Len(pages) \div 2 > 2 THEN Len(pages) \div 2 ELSE 2

\* the lines with text, and the first and the last two of them; a page with less than three has no edges
Filled(lines) == {i \in DOMAIN lines : ~ IsBlank(lines[i])}
TopLines(lines) ==
  {i \in Filled(lines) : Cardinality(Filled(lines)) >= 3 /\ Cardinality({k \in Filled(lines) : k < i}) < 2}
BottomLines(lines) ==
  {i \in Filled(lines) : Cardinality(Filled(lines)) >= 3 /\ Cardinality({k \in Filled(lines) : k > i}) < 2}

\* the lines that recur at the top (or the bottom) of pages: edges has the positions that vote, page by page
Recurring(pages, edges) ==
  LET votes == UNION {{p} \X edges[p] : p \in DOMAIN pages}
      Voted(v) == pages[v[1]].lines[v[2]]
      Votes(l) == Cardinality({v \in votes : Voted(v) = l})
  IN  {l \in {Voted(v) : v \in votes} : ~ IsHeading(l) /\ l.kind # "fence" /\ Votes(l) >= MinOccurrences(pages)}

\* fences and what they enclose are kept; recurring lines and page numbers are dropped elsewhere
Kept(lines, recurring) ==
  LET Step(acc, l) ==
        IF l.kind = "fence" THEN [code |-> ~ acc.code, out |-> Append(acc.out, l)]
        ELSE IF acc.code \/ (l \notin recurring /\ l.kind # "number")
             THEN [acc EXCEPT !.out = Append(@, l)] ELSE acc
  IN  FoldLeft(Step, [code |-> FALSE, out |-> <<>>], lines).out

\* a word broken by a hyphen is joined with the start of the next line, inside code as well; a match
\* consumes that word, so it cannot end in a joined hyphen itself.  The joined word counts as its first half
Unwrapped(lines) ==
  LET Step(out, l) ==
        IF out # <<>> /\ Last(out).wrap /\ l.kind \in {"text", "number"}
        THEN Append(Front(out), [Last(out) EXCEPT !.text = @ \o Tail(l.text),
                                                  !.wrap = l.wrap /\ Len(l.text) > 1])
        ELSE Append(out, l)
  IN  FoldLeft(Step, <<>>, lines)

\* runs of blank lines become one; none is left at either end
Tidied(lines) ==
  LET squeezed == FoldLeft(LAMBDA out, l : IF IsBlank(l) /\ (out = <<>> \/ IsBlank(Last(out)))
                                           THEN out ELSE Append(out, l), <<>>, lines)
  IN  IF squeezed # <<>> /\ IsBlank(Last(squeezed)) THEN Front(squeezed) ELSE squeezed

Cleaned(pages) ==
  LET recurring == Recurring(pages, [p \in DOMAIN pages |-> TopLines(pages[p].lines)])
                   \cup Recurring(pages, [p \in DOMAIN pages |-> BottomLines(pages[p].lines)])
  IN  [p \in DOMAIN pages |->
         [pages[p] EXCEPT !.lines = Tidied(Unwrapped(Kept(@, recurring)))]]

-----------------------------------------------------------------------------
(* The blocks of a page *)

BlockOf(l) == CASE l.kind = "fence" -> "code"  [] l.kind = "row" -> "table"
                [] l.kind = "math" -> "math"   [] l.kind \in {"text", "number"} -> "text"

\* code and math run to the line that closes them, blank lines and headings included
Continues(open, l) == \/ open \in {"code", "math"}
                      \/ open = "table" /\ l.kind = "row"
                      \/ open = "text" /\ l.kind \in {"text", "number"}
Closes(open, l) == \/ open = "code" /\ l.kind = "fence"
                   \/ open = "math" /\ l.kind = "math"

Block(kind, level, section, page, l) ==
  [kind |-> kind, level |-> level, section |-> section, page |-> page, lines |-> <<l>>]

Extended(block, l) == [block EXCEPT !.lines = Append(@, l)]

\* acc.open: the kind of the block that the next line may continue
AddLine(acc, l, page) ==
  IF Continues(acc.open, l)
  THEN [acc EXCEPT !.blocks = Append(Front(@), Extended(Last(@), l)),
                   !.open = IF Closes(@, l) THEN "none" ELSE @]
  ELSE IF IsBlank(l) THEN [acc EXCEPT !.open = "none"]
  ELSE IF IsHeading(l)
  THEN LET section == IF l.kind = "h1" THEN l.text ELSE acc.section
       IN  [open |-> "none", section |-> section,
            blocks |-> Append(acc.blocks, Block("heading", IF l.kind = "h1" THEN 1 ELSE 3, section, page, l))]
  ELSE [acc EXCEPT !.open = BlockOf(l),
                   !.blocks = Append(@, Block(BlockOf(l), 0, acc.section, page, l))]

Blocks(pages) ==
  LET OfPage(acc, p) == FoldLeft(LAMBDA a, l : AddLine(a, l, p.page), [acc EXCEPT !.open = "none"], p.lines)
  IN  FoldLeft(OfPage, [blocks |-> <<>>, section |-> <<>>, open |-> "none"], pages).blocks

-----------------------------------------------------------------------------
(* The chunks *)

LinesOf(blocks) == FlattenSeq([b \in DOMAIN blocks |-> blocks[b].lines])
\* what the chunker counts of blocks: each for itself
Total(blocks) == FoldLeft(LAMBDA sum, b : sum + Tokens(b.lines), 0, blocks)

\* the blocks are joined by blank lines, which the tokens of the chunk count
Chunk(blocks) ==
  LET named == SelectSeq(blocks, LAMBDA b : b.section # <<>>)
      lines == LinesOf(blocks)
  IN  [lines |-> lines, page |-> Head(blocks).page,
       tokens |-> Estimate(Words(lines), Characters(lines) + Len(blocks) - 2),
       section |-> IF named = <<>> THEN <<>> ELSE Head(named).section]

\* mutant: the tokens of the overlap are not added up
OverlapNotAdded(blocks) ==
  LET body == SelectSeq(blocks, LAMBDA b : b.level = 0)
      TooLarge == {n \in DOMAIN body : Tokens(body[n].lines) > OverlapTokens}
  IN  SubSeq(body, IF TooLarge = {} THEN 1 ELSE 1 + Max(TooLarge), Len(body))

\* the longest run of closing blocks, headings left out, within the overlap
Overlap(blocks) ==
  LET body == FoldLeft(LAMBDA out, b : IF b.level = 0 THEN Append(out, b) ELSE out, <<>>, blocks)
      Fits(n) == Total(SubSeq(body, n, Len(body))) <= OverlapTokens
  IN  SubSeq(body, CHOOSE n \in 1..Len(body) + 1 : Fits(n) /\ \A k \in 1..n - 1 : ~ Fits(k), Len(body))

\* a block over the maximum is cut between lines; each line counts for itself, and one token for its end
Split(block) ==
  LET Cost(lines) == FoldLeft(LAMBDA sum, l : sum + Tokens(<<l>>) + 1, 0, lines)
      Step(parts, l) ==
        IF Cost(Append(Last(parts), l)) > MaxTokens /\ Last(parts) # <<>>
        THEN Append(parts, <<l>>) ELSE Append(Front(parts), Append(Last(parts), l))
      parts == FoldLeft(Step, << <<>> >>, block.lines)
  IN  [i \in DOMAIN parts |-> Chunk(<<[block EXCEPT !.lines = parts[i]]>>)]

Flushed(acc) == IF acc.buf = <<>> THEN acc.chunks ELSE Append(acc.chunks, Chunk(acc.buf))

\* mutant: a block too large takes the place of the buffer
BufferLost(acc, b) ==
  IF Tokens(b.lines) > MaxTokens THEN [chunks |-> acc.chunks \o Split(b), buf |-> <<>>]
  ELSE IF acc.buf # <<>> /\ Total(acc.buf) + Tokens(b.lines) > MaxTokens
  THEN [chunks |-> Flushed(acc), buf |-> Append(Overlap(acc.buf), b)]
  ELSE [acc EXCEPT !.buf = Append(@, b)]

AddBlock(acc, b) ==
  LET size == Tokens(b.lines)
      full == Total(acc.buf) + size > MaxTokens
      section == b.level = 1 /\ Total(acc.buf) >= MinTokens
  IN  IF size > MaxTokens THEN [chunks |-> Flushed(acc) \o Split(b), buf |-> <<>>]
      ELSE IF acc.buf # <<>> /\ (full \/ section)
      THEN [chunks |-> Flushed(acc), buf |-> Append(Overlap(acc.buf), b)]
      ELSE [acc EXCEPT !.buf = Append(@, b)]

Chunks(pages) == Flushed(FoldLeft(AddBlock, [chunks |-> <<>>, buf |-> <<>>], Blocks(pages)))
=============================================================================
