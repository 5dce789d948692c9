----------------------------- MODULE MCKnowledge -----------------------------
(***************************************************************************)
(* Instance of Knowledge for TLC: every Markdown file of up to three lines *)
(* of the kinds the chunker tells apart, of four lines of fewer kinds, and *)
(* one file or more for each format, refusal and reading error.            *)
(***************************************************************************)
EXTENDS Knowledge

a == "a"
n == "n"
f == "f"
AllDocs == {a, n, f}
ListedDocs == {n, f}
ScopeDocs == {a, n}
StoredAtFirst == {<<a, 1>>, <<f, 1>>}

File(ext, body) == [ext |-> ext, labelled |-> TRUE, size |-> "fits", flags |-> {}, body |-> body, ocr |-> TRUE,
                    content |-> IF Registry[ext].validator \in {"text", "ipynb"} THEN "text" ELSE ext,
                    scan |-> [parts |-> <<>>, total |-> 0]]
Upload(u, why) == [file |-> u, purpose |-> why]
Material(u) == Upload(u, "MATERIAL")

-----------------------------------------------------------------------------
(* Generated text: the words of line i are 10 * i + 1, 10 * i + 2, ..., of two, three, ... letters *)

Phrase(i, k) == [w \in 1..k |-> 10 * i + w]
Text(i) == Line("text", Phrase(i, 2))
Wrapped(i) == [Text(i) EXCEPT !.wrap = TRUE]
Row(i) == Line("row", Phrase(i, 2))
Number(i) == Line("number", Phrase(i, 1))

LineOf(kind, i) ==
  CASE kind = "wrap" -> Wrapped(i)    [] kind = "long" -> Line("text", Phrase(i, 5))
    [] kind = "blank" -> Blank        [] kind = "fence" -> Fence
    [] OTHER -> Line(kind, Phrase(i, IF kind \in {"text", "row"} THEN 2 ELSE 1))

Bodies(kinds, k) == {[i \in DOMAIN s |-> LineOf(s[i], i)] : s \in [1..k -> kinds]}
Generated == UNION {Bodies({"blank", "number", "h1", "h3", "fence", "row", "math", "text", "wrap", "long"}, k) : k \in 0..3}
             \cup Bodies({"blank", "h1", "fence", "row", "text"}, 4)

-----------------------------------------------------------------------------
(* One file for each thing that can happen to a format *)

Pages(bodies) == [p \in DOMAIN bodies |-> Page(p, bodies[p])]
Header == Line("text", <<1, 2>>)

Pdfs == {Pages(<< <<Text(1), Text(2), Text(3)>> >>),
         \* a running header and page numbers
         Pages(<< <<Header, Text(1), Number(1)>>, <<Header, Text(2), Number(2)>>, <<Header, Text(3), Number(3)>> >>),
         \* six pages, a line that two of them start with, two equal last lines on one
         Pages(<< <<Text(1), Text(2), Text(3)>>, <<Header, Wrapped(4), Text(5)>>, <<Header, Row(6), Text(7)>>,
                  <<Text(8), Text(9), Header>>, <<Fence, Number(4), Fence>>, <<Text(10), Row(11), Row(11)>> >>),
         Pages(<< <<Line("h1", <<7>>), Text(1), Number(1)>>, <<Line("h1", <<7>>), Text(2), Number(2)>> >>)}

Scanned(total) == [File("pdf", Pages(<< <<Line("text", <<5>>)>>, <<>>, <<>> >>))
                   EXCEPT !.scan = [parts |-> << <<Text(1)>>, <<Text(2)>> >>, total |-> total]]

Paragraph(i) == [style |-> "text", texts |-> <<Phrase(i, 2), <<>>, Phrase(i + 1, 1)>>, rows |-> <<>>]
Heading(i) == [style |-> "h1", texts |-> <<Phrase(i, 1)>>, rows |-> <<>>]
Table(cells) == [style |-> "table", texts |-> <<>>, rows |-> cells]
Grid == << <<11, 0, 12>>, <<0, 0>>, <<21, 22>>, <<31>>, <<41, 42, 43>> >>

Slide(i) == [title |-> Phrase(i, 1), shapes |-> <<Paragraph(i + 1), Table(Grid)>>, notes |-> <<99>>]
Sheet(i, shown) == [shown |-> shown, name |-> <<70 + i>>, rows |-> IF i = 3 THEN <<>> ELSE Grid]
Mark(m) == [mark |-> m, word |-> 0]
Word(w) == [mark |-> "word", word |-> w]
Letter == <<Word(1), Word(2), Mark("para"), Mark("field"), Word(3), Mark("result"), Word(4), Mark("end"), Mark("para"),
            Word(5), Mark("cell"), Word(6), Mark("cell"), Mark("cell"), Word(7), Mark("cell"), Word(8)>>
Lost == <<Word(1), Mark("field"), Word(2), Mark("end"), Word(3)>>
Cell(kind, i) == [kind |-> kind, lines |-> <<Blank, Text(i)>>, output |-> <<Text(i + 1), Blank>>]
Script == [outline |-> <<Phrase(8, 2)>>, lines |-> <<Text(1), Blank, Text(2)>>]
Boxes(sure) == <<[text |-> Phrase(1, 2), sure |-> TRUE], [text |-> Phrase(2, 2), sure |-> sure]>>

Sample == [pdf |-> Pages(<< <<Text(1), Text(2)>> >>), docx |-> <<Heading(1), Paragraph(2), Table(Grid), Table(<<>>)>>,
           doc |-> Letter, pptx |-> <<Slide(1), Slide(5)>>, ppt |-> << <<Phrase(1, 2)>>, << <<>> >>, <<Phrase(2, 1)>> >>,
           xlsx |-> <<Sheet(1, TRUE), Sheet(2, FALSE), Sheet(3, TRUE), Sheet(4, TRUE)>>, xls |-> <<Sheet(1, TRUE)>>,
           csv |-> Grid, md |-> <<Text(1)>>, png |-> Boxes(FALSE),
           ipynb |-> <<Cell("markdown", 1), Cell("code", 3), Cell("raw", 7), [Cell("code", 5) EXCEPT !.lines = <<>>]>>, py |-> Script]
Samples == {File(ext, Sample[ext]) : ext \in DOMAIN Registry}

Flags == {"damaged", "broken", "locked", "macros", "launch", "unsafe", "many", "huge"}
Odd == {[s EXCEPT !.flags = {flag}] : s \in Samples, flag \in Flags}
       \cup {[s EXCEPT !.content = c] : s \in Samples, c \in {"pdf", "docx", "doc", "text", "other"}}
       \cup {[s EXCEPT !.size = z] : s \in Samples, z \in {"none", "tiny", "large"}}
       \cup {[s EXCEPT !.labelled = FALSE] : s \in Samples}
       \cup {[File("md", <<Text(1)>>) EXCEPT !.ext = "exe"]}
\* short paragraphs, of one word of seven letters each
Aside(i) == Line("text", <<10 * i + 6>>)
Asides == [k \in 1..17 |-> IF k % 2 = 1 THEN Aside(k) ELSE Blank]
Bare == {File("md", Asides), File("doc", Lost), File("ppt", << << <<>> >> >>), File("pdf", <<>>), File("pdf", Pages(<< <<Blank>> >>)),
         File("docx", <<>>), File("csv", << <<11, 12>> >>), File("png", Boxes(TRUE))}

Uploads == {Material(File("md", body)) : body \in Generated}
           \cup {Material(File("pdf", body)) : body \in Pdfs} \cup {Material(Scanned(t)) : t \in {0, 3}}
           \cup {Material(u) : u \in Bare \cup Odd}
           \cup {Upload(s, why) : s \in Samples \cup Bare, why \in {"RESOURCE", "PROMPT", "SUBMISSION"}}
           \cup {Material(s) : s \in Samples} \cup {Material([File("png", Boxes(TRUE)) EXCEPT !.ocr = FALSE])}
=============================================================================
