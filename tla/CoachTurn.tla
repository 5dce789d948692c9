----------------------------- MODULE CoachTurn -----------------------------
(***************************************************************************)
(* One turn of the Coach: the graph of nodes that Coach.invoke runs, with  *)
(* the language model answering anything, or nothing, at every node that   *)
(* asks it.                                                                *)
(*                                                                         *)
(* A text stands for all texts the guardrails treat alike.  Prompts and    *)
(* the retrieved passages have no part in where the graph goes and are     *)
(* left out.  The message that is classified, and the answers about the    *)
(* assignment, are those of Grounding; the evidence is that of Evidence.   *)
(***************************************************************************)
EXTENDS Naturals, Grounding, Evidence

(* The most validations that may fail before the turn is given up. *)
MaxValidationRetries == 1

Policies == {"GUIDED", "ASSISTED", "OPEN"}
Intents == {"none", "name", "about", "topics"}
Interventions == {"QUESTION", "HINT", "EXPLANATION", "GUIDED_DEBUGGING",
                  "FEEDBACK", "CLARIFICATION", "ENCOURAGEMENT"}

(* No words; a phrase that reveals the answer; one that only the pattern   *)
(* of the last check knows; one forbidden under GUIDED; the code of one    *)
(* function or of several that solves the task.                            *)
Texts == {"fine", "empty", "reveals", "equates", "hints", "function", "functions"}

NoText == "no text"
NoIntervention == "no intervention"
NoDiagnosis == [category |-> "none", confidence |-> "unsure", turn |-> "before"]
NotDiagnosed == [category |-> "UNCERTAIN", confidence |-> "unsure", turn |-> "this"]

VARIABLES
    turn,          \* policy, programming task, number in the session, and what the message is
    node,          \* the node that runs next
    diagnosis,
    intervention,
    undecided,     \* choose_intervention is among the errors of the turn
    response,
    answer,        \* what the response has of the assignment, when it was asked about it
    passed,        \* validation_passed
    retries,       \* retry_count
    evidence       \* evidence_candidates of the result

vars == <<turn, node, diagnosis, intervention, undecided, response, answer, passed,
          retries, evidence>>

Nodes == {"understand_context", "context_response", "analyze_code", "diagnose",
          "choose_intervention", "retrieve_context", "generate_response",
          "validate", "safe_fallback", "emit_interaction", "result", "end", "error"}

Turns == [policy : Policies, programming : BOOLEAN, index : {1, 2}, intent : Intents,
          asksForWork : BOOLEAN, locates : BOOLEAN]

(* Coach.invoke: on a later turn the state starts with the diagnosis and   *)
(* the intervention of the turn before, if they can be read.               *)
Init ==
    /\ \E policy \in Policies, programming \in BOOLEAN, index \in {1, 2},
          m \in Messages, draft \in Drafts :
         turn = [policy |-> policy, programming |-> programming, index |-> index,
                 intent |-> DetectRequestIntent(m), asksForWork |-> m.work = "beside",
                 locates |-> IsExplicitCourseMaterialRequest(m, draft)]
    /\ node = "understand_context"
    /\ diagnosis \in {NoDiagnosis} \cup {d \in Diagnoses : turn.index > 1 /\ d.turn = "before"}
    /\ intervention \in {NoIntervention} \cup {i \in Interventions : diagnosis # NoDiagnosis}
    /\ undecided = FALSE
    /\ response = NoText
    /\ answer = NoAnswer
    /\ passed = FALSE
    /\ retries = 0
    /\ evidence = {}

judgement == <<diagnosis, intervention, undecided>>
outcome == <<response, answer, passed, retries, evidence>>

-----------------------------------------------------------------------------
(* The guardrails. *)

(* structural_code_leak_check: OPEN allows one function. *)
Leaks(text) ==
    /\ turn.programming
    /\ text = "functions" \/ (text = "function" /\ turn.policy # "OPEN")

(* rule_based_check *)
Flagged(text) ==
    \/ text \in {"empty", "reveals"}
    \/ text = "hints" /\ turn.policy = "GUIDED"
    \/ Leaks(text)

(* final_answer_enforcement: an unsafe text is replaced by a fixed one. *)
Unsafe(text) == text \in {"empty", "reveals", "equates"} \/ Leaks(text)
Enforced(text) == IF Unsafe(text) THEN "fine" ELSE text

(* Mutant: the model's rewrite is taken as it is. *)
AnyRewrites == {NoText} \cup Texts

(* The rewrites validate_response lets through: none, or one that passes   *)
(* the same rules as the draft.                                            *)
Rewrites == {NoText} \cup {text \in Texts : ~Flagged(text)}

-----------------------------------------------------------------------------
(* The nodes and, with each, the edge that leaves it. *)

(* is_code_attempt: the draft with the message has a code fence, a keyword *)
(* of Python (also an English one), an assignment, is a program, or looks  *)
(* like a broken one.                                                      *)
Attempts == {"blank", "fence", "keyword", "assignment", "program", "broken program", "prose"}
IsCodeAttempt(attempt) == attempt \notin {"blank", "prose"}

UnderstandContext ==
    /\ node = "understand_context"
    /\ \E attempt \in Attempts :
         node' = IF turn.intent # "none" THEN "context_response"
                 ELSE IF turn.programming /\ IsCodeAttempt(attempt) THEN "analyze_code"
                 ELSE "diagnose"
    /\ UNCHANGED <<turn, judgement, outcome>>

(* Mutant: the diagnosis of the turn before stays. *)
ContextResponseOnOldDiagnosis ==
    /\ node = "context_response"
    /\ intervention' = "EXPLANATION"
    /\ node' = IF turn.intent = "name" THEN "emit_interaction" ELSE "generate_response"
    /\ IF turn.intent = "name" THEN response' = "fine" /\ passed' = TRUE
       ELSE UNCHANGED <<response, passed>>
    /\ UNCHANGED <<turn, diagnosis, undecided, answer, retries, evidence>>

(* prepare_context_response: a name is answered as it is, and an           *)
(* assignment needs one answer of the model; neither is diagnosed.         *)
ContextResponse ==
    /\ node = "context_response"
    /\ diagnosis' = NotDiagnosed
    /\ intervention' = "EXPLANATION"
    /\ \/ /\ turn.intent = "name"
          /\ \E name \in Texts \ {"empty"} : response' = name
          /\ passed' = TRUE
          /\ node' = "emit_interaction"
       \/ /\ turn.intent \in {"about", "topics"}
          /\ node' = "generate_response"
          /\ UNCHANGED <<response, passed>>
    /\ UNCHANGED <<turn, undecided, answer, retries, evidence>>

AnalyzeCode ==
    /\ node = "analyze_code"
    /\ node' = "diagnose"
    /\ UNCHANGED <<turn, judgement, outcome>>

(* A failing model leaves the turn UNCERTAIN. *)
Diagnose ==
    /\ node = "diagnose"
    /\ diagnosis' \in {d \in Diagnoses : d.turn = "this"}
    /\ node' = "choose_intervention"
    /\ UNCHANGED <<turn, intervention, undecided, outcome>>

Uncertain == IsUncertain(diagnosis)

(* Under GUIDED nothing is explained on a first attempt, unless it is      *)
(* correct.                                                                *)
TooEarly(type) ==
    /\ turn.policy = "GUIDED" /\ turn.index <= 1
    /\ type = "EXPLANATION" /\ diagnosis.category # "CORRECT_REASONING"

(* Mutant: a clarification is forced for the category UNCERTAIN only.      *)
ForcedByCategory(type) == diagnosis.category = "UNCERTAIN"

(* On an uncertain diagnosis the model may only decide to ask.             *)
ForcedToClarify(type) ==
    \/ diagnosis.category = "UNCERTAIN"
    \/ Uncertain /\ type \notin {"CLARIFICATION", "QUESTION"}

(* choose_intervention: what the model decides is overruled when the       *)
(* diagnosis is uncertain or it is too early for an explanation; without a *)
(* decision there is a fixed choice, which is not overruled, and an error  *)
(* is noted.                                                               *)
ChooseIntervention ==
    /\ node = "choose_intervention"
    /\ \/ /\ \E type \in Interventions :
                intervention' = IF ForcedToClarify(type) THEN "CLARIFICATION"
                                ELSE IF TooEarly(type) THEN "QUESTION" ELSE type
          /\ UNCHANGED undecided
       \/ /\ intervention' = IF diagnosis.category = "CORRECT_REASONING"
                             THEN "ENCOURAGEMENT" ELSE "QUESTION"
          /\ undecided' = TRUE
    /\ node' \in {"retrieve_context"} \cup {n \in {"generate_response"} : ~turn.locates}
    /\ UNCHANGED <<turn, diagnosis, outcome>>

(* Failing tools are skipped. *)
RetrieveContext ==
    /\ node = "retrieve_context"
    /\ node' = "generate_response"
    /\ UNCHANGED <<turn, judgement, outcome>>

(* The draft is the model's, or a fixed apology when it fails. *)
GenerateDraft ==
    /\ node = "generate_response" /\ turn.intent = "none"
    /\ response' \in Texts
    /\ node' = "validate"
    /\ UNCHANGED <<turn, judgement, answer, passed, retries, evidence>>

(* route_after_response_generation names the nodes to go to after an       *)
(* answer that is not grounded in the assignment.                          *)
AfterUngrounded == IF retries' > MaxValidationRetries
                   THEN "safe_fallback" ELSE "generate_response"

(* An answer about the assignment is checked against the assignment only;  *)
(* when the model fails, an apology is the response and nothing is         *)
(* checked.  The edges that leave the node in the graph do not lead to the *)
(* nodes above, and the graph raises.                                      *)
GenerateAnswer ==
    /\ node = "generate_response" /\ turn.intent \in {"about", "topics"}
    /\ \/ /\ response' = "fine"
          /\ node' = "emit_interaction"
          /\ UNCHANGED <<answer, passed, retries>>
       \/ \E hasWords \in BOOLEAN :
            /\ response' \in Texts
            /\ answer' \in {a \in Answers : a.empty <=> response' = "empty"}
            /\ passed' = (AssignmentViolations(answer', turn.intent, hasWords) = {})
            /\ retries' = IF passed' THEN retries ELSE retries + 1
            /\ node' = IF passed' \/ AfterUngrounded = "emit_interaction"
                       THEN "emit_interaction" ELSE "error"
    /\ UNCHANGED <<turn, judgement, evidence>>

(* Mutant: failed validations are not limited. *)
AfterValidationForever(ok, n) == IF ok THEN "emit_interaction" ELSE "generate_response"

(* route_after_validation *)
AfterValidation(ok, n) ==
    IF ok THEN "emit_interaction"
    ELSE IF n > MaxValidationRetries THEN "safe_fallback" ELSE "generate_response"

(* Mutant: an unsafe rewrite is no failed validation. *)
CountUnsafeRewrite(rewrite) == rewrite = NoText

(* A validation that accepts neither the draft nor a rewrite is counted. *)
CountsAsFailed(rewrite) == rewrite = NoText \/ Unsafe(rewrite)

(* validate: the draft passes when neither the rules nor the model find    *)
(* fault with it; otherwise the model's rewrite may replace it.            *)
Validate ==
    /\ node = "validate"
    /\ \E passes \in IF Flagged(response) THEN {FALSE} ELSE BOOLEAN :
       \E rewrite \in IF passes THEN {NoText} ELSE Rewrites :
         LET accepted == rewrite # NoText /\ ~Unsafe(rewrite) IN
         /\ passed' = (passes \/ accepted)
         /\ response' = IF passes THEN Enforced(response)
                        ELSE IF accepted THEN rewrite ELSE response
         /\ retries' = IF ~passes /\ CountsAsFailed(rewrite) THEN retries + 1 ELSE retries
         /\ node' = AfterValidation(passed', retries')
    /\ UNCHANGED <<turn, judgement, answer, evidence>>

SafeFallback ==
    /\ node = "safe_fallback"
    /\ response' = "fine"
    /\ passed' = TRUE
    /\ intervention' = "CLARIFICATION"
    /\ node' = "emit_interaction"
    /\ UNCHANGED <<turn, diagnosis, undecided, answer, retries, evidence>>

EmitInteraction ==
    /\ node = "emit_interaction"
    /\ response' = Enforced(response)
    /\ node' = "result"
    /\ UNCHANGED <<turn, judgement, answer, passed, retries, evidence>>

(* Coach._to_result *)
ToResult ==
    /\ node = "result"
    /\ \E explains \in BOOLEAN :
         evidence' = ExtractEvidenceCandidates(diagnosis, turn.index, explains)
    /\ node' = "end"
    /\ UNCHANGED <<turn, judgement, response, answer, passed, retries>>

Next ==
    \/ UnderstandContext \/ ContextResponse \/ AnalyzeCode
    \/ Diagnose \/ ChooseIntervention \/ RetrieveContext
    \/ GenerateDraft \/ GenerateAnswer \/ Validate \/ SafeFallback
    \/ EmitInteraction \/ ToResult

(* The graph runs on: every call of the model ends, by its timeout if not  *)
(* by an answer.                                                           *)
Spec == Init /\ [][Next]_vars /\ WF_vars(Next)
-----------------------------------------------------------------------------
(* Properties. *)

(* The fields of the state; no more than two validations fail. *)
TypeOK ==
    /\ turn \in Turns
    /\ node \in Nodes
    /\ diagnosis \in Diagnoses \cup {NoDiagnosis}
    /\ intervention \in Interventions \cup {NoIntervention}
    /\ undecided \in BOOLEAN
    /\ response \in Texts \cup {NoText}
    /\ answer \in Answers
    /\ passed \in BOOLEAN
    /\ retries \in 0 .. MaxValidationRetries + 1
    /\ evidence \subseteq [type : {"UNDERSTANDING", "INDEPENDENCE", "MISCONCEPTION", "REVISION", "EXPLANATION"},
                           strength : {"WEAK", "MODERATE", "STRONG"}]

(* What the student gets never gives the answer away, and a coaching       *)
(* response also obeys the rules of the policy, whoever wrote it: the      *)
(* model, its reviewer, or the fallbacks.                                  *)
NeverTheAnswer ==
    node = "end" =>
        /\ response \in Texts /\ ~Unsafe(response)
        /\ turn.intent = "none" => ~Flagged(response)

(* The intervention that is recorded fits the diagnosis and the policy: on *)
(* an uncertain diagnosis of an attempt the Coach only asks, whatever the  *)
(* model decided (nodes.py:47-49), and GUIDED explains no first attempt    *)
(* that is not correct.  The rule of nodes.py:47-49 has an exception its   *)
(* comment does not name: when the model did not decide, which the turn's  *)
(* errors then say, correct reasoning is encouraged however uncertain the  *)
(* diagnosis is.                                                           *)
InterventionFits ==
    node = "end" =>
        /\ diagnosis \in Diagnoses /\ intervention \in Interventions
        /\ turn.intent = "none" =>
            /\ Uncertain =>
                 \/ intervention \in {"CLARIFICATION", "QUESTION"}
                 \/ /\ undecided /\ intervention = "ENCOURAGEMENT"
                    /\ diagnosis.category = "CORRECT_REASONING"
            /\ (turn.policy = "GUIDED" /\ intervention = "EXPLANATION")
                 => (turn.index > 1 \/ diagnosis.category = "CORRECT_REASONING")

(* Evidence on what the student understands is of this turn, never of the  *)
(* diagnosis the turn started with or of a question about the records; it  *)
(* does not contradict itself, and independence is never claimed after an  *)
(* earlier turn of the session (evidence.py:4-7).                          *)
EvidenceFits ==
    node = "end" =>
        LET Types == {e.type : e \in evidence} IN
        /\ Types \cap {"UNDERSTANDING", "MISCONCEPTION", "INDEPENDENCE"} # {} =>
             turn.intent = "none" /\ diagnosis.turn = "this" /\ ~Uncertain
        /\ ~{"UNDERSTANDING", "MISCONCEPTION"} \subseteq Types
        /\ "INDEPENDENCE" \in Types => "UNDERSTANDING" \in Types /\ "REVISION" \notin Types

(* Only facts skip the review: what reaches the student without it answers *)
(* a message that asks for no work, and is the name on file, an apology,   *)
(* or an answer that has no number, time, file, link, quotation or code    *)
(* the assignment does not have, and, about the assignment, a line of it   *)
(* (MERGED_ARCHITECTURE.md "Coach routing", context.py:266).               *)
OnlyFactsSkipReview ==
    node = "end" /\ turn.intent # "none" =>
        /\ ~turn.asksForWork
        /\ answer # NoAnswer =>
             /\ answer.invents = {}
             /\ turn.intent = "about" => answer.takes = "a line"

(* Every turn ends, whatever the model answers. *)
TurnEnds == <>(node \in {"end", "error"})

(* A response that fails its check repeatedly is replaced by a safe one:   *)
(* no turn breaks off.                                                     *)
NoTurnBreaksOff == node # "error"
=============================================================================
