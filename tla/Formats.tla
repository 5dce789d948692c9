------------------------------- MODULE Formats -------------------------------
(***************************************************************************)
(* What an uploaded file goes through before it is text: the registry of   *)
(* formats (backend/app/files/registry.py), the validation of an upload    *)
(* (validation.py), and the extractors that turn it into pages of lines    *)
(* (extractors.py, textutil.py, ocr.py, legacy_office.py).                 *)
(* A file is a record: its extension, whether the declared MIME type fits  *)
(* it (labelled), its size class, what its bytes are (content), what is    *)
(* unusual in them (flags), its body, in the shape of its format, and      *)
(* whether the OCR engine is installed where it arrives (ocr): an engine   *)
(* whose module is found (registry.py) is assumed to import (ocr.py).      *)
(*   flags: damaged (found on opening), broken (found only when read),     *)
(*   locked, macros, launch, unsafe (archive paths, bombs), many (parts,   *)
(*   pages or pixels), huge (slides, cells, rows or characters)            *)
(***************************************************************************)
EXTENDS Chunking

CONSTANT BlockRows   \* data rows of a Markdown table block (40)

FormatSpec(validator, reader) == [validator |-> validator, reader |-> reader]
Registry == [pdf |-> FormatSpec("pdf", "pdf"),        docx |-> FormatSpec("zip", "docx"),
             doc |-> FormatSpec("ole", "doc"),        pptx |-> FormatSpec("zip", "pptx"),
             ppt |-> FormatSpec("ole", "ppt"),        xlsx |-> FormatSpec("zip", "sheets"),
             xls |-> FormatSpec("ole", "sheets"),     csv |-> FormatSpec("text", "csv"),
             md |-> FormatSpec("text", "text"),       png |-> FormatSpec("image", "image_ocr"),
             ipynb |-> FormatSpec("ipynb", "ipynb"),  py |-> FormatSpec("text", "code")]

ModeFor(file, purpose) ==
  IF Registry[file.ext].reader = "image_ocr" /\ ~ file.ocr THEN "STORAGE_ONLY"
  ELSE IF purpose \in {"MATERIAL", "RESOURCE"} THEN "RAG"
  ELSE "EXTRACT_ONLY"          \* the prompt of an assignment, a submission

-----------------------------------------------------------------------------
(* Validation: the first check that applies gives the refusal *)

First(checks) == LET hits == {i \in DOMAIN checks : checks[i][1]}
                 IN  IF hits = {} THEN "ok" ELSE checks[CHOOSE i \in hits : \A j \in hits : i <= j][2]

Has(file, flag) == flag \in file.flags

PdfRefusal(file) ==
  First(<< <<file.content # "pdf", "content_mismatch">>, <<Has(file, "launch"), "active_content">>,
           <<Has(file, "damaged"), "corrupt">>, <<Has(file, "locked"), "encrypted">>,
           <<file.body = <<>>, "empty">>, <<Has(file, "many"), "too_many_pages">> >>)

\* a document locked by Office is an OLE file: it is no archive at all
ZipSafety(file) ==
  First(<< <<file.content \notin {"docx", "pptx", "xlsx"}, "content_mismatch">>,
           <<Has(file, "damaged"), "corrupt">>, <<Has(file, "many"), "archive_too_complex">>,
           <<Has(file, "unsafe"), "unsafe_archive">>, <<Has(file, "locked"), "encrypted">>,
           <<Has(file, "macros"), "macros">>, <<file.content # file.ext, "content_mismatch">> >>)

\* mutant: an OLE file is not asked whether it is encrypted
OleNotAsked(file) ==
  First(<< <<file.content \notin {"doc", "ppt", "xls"}, "content_mismatch">>,
           <<Has(file, "damaged"), "corrupt">>, <<file.content # file.ext, "content_mismatch">>,
           <<Has(file, "macros"), "macros">> >>)

OleRefusal(file) ==
  First(<< <<file.content \notin {"doc", "ppt", "xls"}, "content_mismatch">>,
           <<Has(file, "damaged"), "corrupt">>, <<file.content # file.ext, "content_mismatch">>,
           <<Has(file, "macros"), "macros">>, <<Has(file, "locked"), "encrypted">> >>)

ImageRefusal(file) == First(<< <<Has(file, "damaged") \/ file.content # file.ext, "content_mismatch">>,
                               <<Has(file, "many"), "image_too_large">> >>)

IsText(file) == file.content = "text"
ContentRefusal(file) ==
  LET validator == Registry[file.ext].validator
  IN  CASE validator = "pdf" -> PdfRefusal(file)  [] validator = "zip" -> ZipSafety(file)
        [] validator = "ole" -> OleRefusal(file)  [] validator = "image" -> ImageRefusal(file)
        [] OTHER -> First(<< <<~ IsText(file), "not_text">>,
                             <<validator = "ipynb" /\ Has(file, "damaged"), "content_mismatch">> >>)

ValidateUpload(file) ==
  IF file.ext \notin DOMAIN Registry THEN "unsupported_type"
  ELSE First(<< <<file.size = "none", "empty">>, <<file.size = "large", "too_large">>,
                <<~ file.labelled, "mime_mismatch">>, <<TRUE, ContentRefusal(file)>> >>)

-----------------------------------------------------------------------------
(* Extraction *)

\* the parts of a page are joined by a blank line
Joined(parts) == FoldLeft(LAMBDA out, part : IF out = <<>> THEN part ELSE Append(out, Blank) \o part, <<>>, parts)
\* pages are normalised, and those without text dropped
Finish(pages) == SelectSeq([p \in DOMAIN pages |-> [pages[p] EXCEPT !.lines = Tidied(@)]],
                           LAMBDA p : p.lines # <<>>)

Fence == Line("fence", <<0>>)
Rule == Line("row", <<0>>)
ColumnName(i) == 90 + i

\* a cell is a word, 0 an empty one; the header is repeated in every block of BlockRows rows
MdTable(rows) ==
  LET kept == SelectSeq(rows, LAMBDA r : ToSet(r) # {0} /\ r # <<>>)
      width == FoldLeft(LAMBDA w, r : IF Len(r) > w THEN Len(r) ELSE w, 0, kept)
      Row(r) == Line("row", [i \in 1..width |-> IF i <= Len(r) THEN r[i] ELSE 0])
      Header == Line("row", [i \in 1..width |-> IF Row(Head(kept)).text[i] = 0 THEN ColumnName(i)
                                                ELSE Row(Head(kept)).text[i]])
      body == Tail(kept)
      BlockAt(b) == LET from == (b - 1) * BlockRows + 1
                        rest == SubSeq(body, from, Len(body))
                        mine == SubSeq(rest, 1, IF Len(rest) < BlockRows THEN Len(rest) ELSE BlockRows)
                    IN  <<Header, Rule>> \o [r \in DOMAIN mine |-> Row(mine[r])]
  IN  IF kept = <<>> THEN <<>>
      ELSE IF body = <<>> THEN << <<Header, Rule>> >>
      ELSE [b \in 1..(Len(body) + BlockRows - 1) \div BlockRows |-> BlockAt(b)]

Paragraphs(texts) == LET full == SelectSeq(texts, LAMBDA t : t # <<>>)
                     IN  [i \in DOMAIN full |-> Line("text", full[i])]
\* the parts of all elements of a document
Parts(elements) == Joined(FlattenSeq(elements))
OnePart(lines) == IF lines = <<>> THEN <<>> ELSE <<lines>>

\* an element of a Word document or a shape of a slide: style, texts, rows
ElementParts(e) ==
  CASE e.style = "table" -> MdTable(e.rows)
    [] e.style \in {"h1", "h3"} -> OnePart([i \in DOMAIN Paragraphs(e.texts) |-> Line(e.style, Paragraphs(e.texts)[i].text)])
    [] OTHER -> OnePart(Paragraphs(e.texts))

SlideLines(s) == Joined(<< <<Line("h1", s.title)>> >> \o OnePart(Parts([i \in DOMAIN s.shapes |-> ElementParts(s.shapes[i])]))
                        \o OnePart(Paragraphs(<<s.notes>>)))
SheetLines(sheet) == IF MdTable(sheet.rows) = <<>> THEN <<>>
                     ELSE Joined(<< <<Line("h1", sheet.name)>> >> \o MdTable(sheet.rows))

\* hidden sheets are skipped; the others keep their number
SheetPages(sheets) == [i \in DOMAIN sheets |-> Page(i, IF sheets[i].shown THEN SheetLines(sheets[i]) ELSE <<>>)]

\* raw cells are skipped
Fenced(lines) == <<Fence>> \o Tidied(lines) \o <<Fence>>
CellParts(cell) ==
  IF Tidied(cell.lines) = <<>> \/ cell.kind = "raw" THEN <<>>
  ELSE IF cell.kind = "markdown" THEN <<Tidied(cell.lines)>>
  ELSE <<Fenced(cell.lines)>> \o (IF cell.output = <<>> THEN <<>> ELSE << <<Line("text", <<0>>)>> \o Fenced(cell.output) >>)

CodeLines(code) == Joined(OnePart(Paragraphs(code.outline)) \o <<Fenced(code.lines)>>)

\* text of the boxes OCR is sure of
OcrLines(boxes) == Paragraphs([b \in DOMAIN boxes |-> IF boxes[b].sure THEN boxes[b].text ELSE <<>>])

\* .doc: an instruction is dropped until its result mark, and the end mark of a field is ignored: a field
\* without a result drops the rest.  Cell marks make rows; two in a row end the row
VisibleMarks(marks) ==
  LET Step(acc, c) ==
        CASE c.mark = "field" -> [acc EXCEPT !.deep = @ + 1]
          [] c.mark = "result" -> [acc EXCEPT !.deep = IF @ = 0 THEN 0 ELSE @ - 1]
          [] c.mark = "end" -> acc
          [] OTHER -> IF acc.deep > 0 THEN acc ELSE [acc EXCEPT !.out = Append(@, c)]
  IN  FoldLeft(Step, [deep |-> 0, out |-> <<>>], marks).out

WordLines(marks) ==
  LET New == [words |-> <<>>, cells |-> 0, ended |-> FALSE]
      Step(lines, c) ==
        LET l == Last(lines)
        IN  CASE c.mark = "word" -> Append(Front(lines), [l EXCEPT !.words = Append(@, c.word), !.ended = FALSE])
              [] c.mark = "cell" /\ ~ l.ended -> Append(Front(lines), [l EXCEPT !.cells = @ + 1, !.ended = TRUE])
              [] OTHER -> Append(lines, New)
      raw == FoldLeft(Step, <<New>>, VisibleMarks(marks))
      Render(i) == IF raw[i].cells = 0
                   THEN <<IF raw[i].words = <<>> THEN Blank ELSE Line("text", raw[i].words)>>
                   ELSE <<Line("row", IF raw[i].words = <<>> THEN <<0>> ELSE raw[i].words)>> \o (IF i > 1 /\ raw[i - 1].cells > 0 THEN <<>> ELSE <<Rule>>)
  IN  FlattenSeq([i \in DOMAIN raw |-> Render(i)])

\* a slide without text is left out, the others keep their number
PptPages(slides) ==
  LET numbered == [i \in DOMAIN slides |-> Page(i, Paragraphs(slides[i]))]
      full == SelectSeq(numbered, LAMBDA p : p.lines # <<>>)
  IN  [i \in DOMAIN full |-> Page(full[i].page, Joined(<< <<Line("h1", <<0>>)>>, full[i].lines>>))]

ReadPages(file) ==
  LET reader == Registry[file.ext].reader
      One(lines) == <<Page(1, lines)>>
  IN  CASE reader = "pdf" -> file.body
        [] reader = "docx" -> One(Parts([i \in DOMAIN file.body |-> ElementParts(file.body[i])]))
        [] reader = "doc" -> One(WordLines(file.body))
        [] reader = "pptx" -> [i \in DOMAIN file.body |-> Page(i, SlideLines(file.body[i]))]
        [] reader = "ppt" -> PptPages(file.body)
        [] reader = "sheets" -> SheetPages(file.body)
        [] reader = "csv" -> One(Joined(MdTable(file.body)))
        [] reader = "text" -> One(file.body)
        [] reader = "code" -> One(CodeLines(file.body))
        [] reader = "ipynb" -> One(Parts([i \in DOMAIN file.body |-> CellParts(file.body[i])]))
        [] reader = "image_ocr" -> One(OcrLines(file.body))

\* what the readers ask for themselves
ReaderOf(file) == Registry[file.ext].reader
NotDecoded(file) == ReaderOf(file) \in {"csv", "text", "code", "ipynb"} /\ ~ IsText(file)
LegacyLocked(file) == ReaderOf(file) \in {"doc", "ppt"} /\ Has(file, "locked")
NoEngine(file) == ReaderOf(file) = "image_ocr" /\ ~ file.ocr
NoSlideText(file) == ReaderOf(file) = "ppt" /\ PptPages(file.body) = <<>>

ReadError(file) ==
  First(<< <<NotDecoded(file), "not_text">>, <<LegacyLocked(file), "encrypted">>, <<NoEngine(file), "unavailable">>,
           <<Has(file, "broken") \/ Has(file, "locked"), "extraction_failed">>, <<Has(file, "huge"), "too_large">>,
           <<NoSlideText(file), "no_text">> >>)

Extract(file) == [error |-> ReadError(file),
                  pages |-> IF ReadError(file) = "ok" THEN Finish(ReadPages(file)) ELSE <<>>]
=============================================================================
