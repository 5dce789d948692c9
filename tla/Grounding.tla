----------------------------- MODULE Grounding -----------------------------
(***************************************************************************)
(* What the Coach answers from its records instead of coaching: which      *)
(* messages ask for no more than that (context_questions.py, routing.py),  *)
(* and which answers of the model count as grounded in the assignment      *)
(* (context.py).                                                           *)
(***************************************************************************)
EXTENDS Naturals, FiniteSets

MaxResidualWords == 2

(* The student's message: the topics its phrases ask about, the words that *)
(* are left beside these phrases and fillers, whether words for doing the  *)
(* work occur inside the phrases only or also beside them, whether it asks *)
(* where to find course material, and its size, at most 240 characters,    *)
(* 480, or more (or with a code fence).                                    *)
Topics == {"identity", "assignment", "assignment_topics", "materials"}
Messages ==
    {m \in [topics : SUBSET Topics, others : 0 .. MaxResidualWords + 1,
            work : {"none", "inside", "beside"}, locates : BOOLEAN,
            size : {"short", "medium", "long"}] :
        m.work = "beside" => m.others > 0}

(* Mutant: a message that also asks for the work counts as a question. *)
ClassifyAnyWork(m) ==
    IF m.size = "short" /\ m.others <= MaxResidualWords THEN m.topics ELSE {}

ClassifyContextTopics(m) ==
    IF m.size = "short" /\ m.work # "beside" /\ m.others <= MaxResidualWords
    THEN m.topics ELSE {}

(* A question about materials alone is coached like any other message. *)
DetectRequestIntent(m) ==
    LET topics == ClassifyContextTopics(m)
    IN  IF "identity" \in topics THEN "name"
        ELSE IF "assignment_topics" \in topics THEN "topics"
        ELSE IF "assignment" \in topics THEN "about"
        ELSE "none"

(* The text that is searched is the draft with the message: a draft that   *)
(* is long, or holds words for doing the work, is enough to refuse.        *)
IsExplicitCourseMaterialRequest(m, draft) ==
    /\ m.locates /\ m.work = "none" /\ m.size # "long"
    /\ draft = "plain"
Drafts == {"plain", "long or working"}

-----------------------------------------------------------------------------
(* What is wrong with an answer: kinds of tokens of which it has one that  *)
(* the title and the instructions do not have, or its length; and what it  *)
(* takes from them: nothing, a word, or the title or start of a line.      *)
Kinds == {"number", "time", "file", "link", "quotation", "code"}
Answers == [empty : BOOLEAN, invents : SUBSET Kinds, long : BOOLEAN,
            takes : {"nothing", "a word", "a line"}]
NoAnswer == [empty |-> TRUE, invents |-> {}, long |-> FALSE, takes |-> "nothing"]

HasAnchor(answer) == answer.takes = "a line"

(* verify_context_answer, as it is called for the assignment alone: an     *)
(* answer on the assignment has a line of it.                              *)
ContextViolations(answer, intent) ==
    IF answer.empty THEN {"empty"}
    ELSE answer.invents \cup {v \in {"long", "anchor"} :
             \/ v = "long" /\ answer.long
             \/ v = "anchor" /\ intent = "about" /\ ~HasAnchor(answer)}

(* verify_assignment_response: the topics to study share a word with the   *)
(* assignment, if that has words of four Latin letters.                    *)
AssignmentViolations(answer, intent, hasWords) ==
    LET violations == ContextViolations(answer, intent)
    IN  IF intent = "topics" /\ violations = {} /\ hasWords /\ answer.takes = "nothing"
        THEN {"topic"} ELSE violations
=============================================================================
