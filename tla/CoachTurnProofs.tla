-------------------------- MODULE CoachTurnProofs ---------------------------
(***************************************************************************)
(* Proofs about CoachTurn: what holds of a turn whatever the message, the  *)
(* draft, the diagnosis it starts with and the answers of the model are.   *)
(* Each part of the invariant says what the nodes a turn has come past     *)
(* have established.                                                       *)
(***************************************************************************)
EXTENDS CoachTurn, TLAPS

(* The nodes at which the turn may still have to draft a response.         *)
Drafting == {"understand_context", "context_response", "analyze_code", "diagnose",
             "choose_intervention", "retrieve_context", "generate_response", "validate"}
Emitting == {"emit_interaction", "result", "end"}
Chosen   == {"retrieve_context", "generate_response", "validate", "safe_fallback"}
            \cup Emitting

(* Only a message that is coached comes to the nodes that coach, and a     *)
(* message that asks for work is coached.                                  *)
OnItsWay ==
    /\ turn.intent # "none" => ~turn.asksForWork
    /\ node = "context_response" => turn.intent # "none"
    /\ node \in {"analyze_code", "diagnose", "choose_intervention",
                 "retrieve_context", "validate", "safe_fallback"} => turn.intent = "none"

RetriesLeft == node \in Drafting => retries <= MaxValidationRetries

(* The rules have been applied to what is emitted, and the last check to   *)
(* what has been emitted.                                                  *)
ResponseChecked ==
    /\ node \in {"validate"} \cup Emitting => response \in Texts
    /\ node \in Emitting /\ turn.intent = "none" => ~Flagged(response)
    /\ node \in {"result", "end"} => ~Unsafe(response)

(* The diagnosis is of this turn once there is an intervention to choose,  *)
(* and what is chosen fits it.                                             *)
ChoiceFits ==
    /\ Uncertain =>
         \/ intervention \in {"CLARIFICATION", "QUESTION"}
         \/ /\ undecided /\ intervention = "ENCOURAGEMENT"
            /\ diagnosis.category = "CORRECT_REASONING"
    /\ ~TooEarly(intervention)

Judged ==
    /\ node \in {"choose_intervention"} \cup Chosen =>
         diagnosis \in Diagnoses /\ diagnosis.turn = "this"
    /\ node \in Chosen =>
         /\ intervention \in Interventions
         /\ turn.intent = "none" => ChoiceFits
         /\ turn.intent # "none" => diagnosis = NotDiagnosed

(* An answer is kept only when it was found grounded in the assignment.    *)
Grounded ==
    /\ turn.intent = "none" \/ node \in Drafting => answer = NoAnswer
    /\ node \in Emitting =>
         \/ answer = NoAnswer
         \/ \E hasWords \in BOOLEAN :
               AssignmentViolations(answer, turn.intent, hasWords) = {}

EvidenceOfTurn ==
    /\ node # "end" => evidence = {}
    /\ node = "end" => \E explains \in BOOLEAN :
          evidence = ExtractEvidenceCandidates(diagnosis, turn.index, explains)

TurnInv ==
    /\ TypeOK /\ OnItsWay /\ RetriesLeft /\ ResponseChecked
    /\ Judged /\ Grounded /\ EvidenceOfTurn

-----------------------------------------------------------------------------
(* The guardrails. *)

(* The text the last check puts in the place of an unsafe one passes it,   *)
(* and the rules as well.                                                  *)
LEMMA EnforcedIsSafe ==
  ASSUME NEW text \in Texts
  PROVE  /\ Enforced(text) \in Texts /\ ~Unsafe(Enforced(text))
         /\ ~Flagged(text) => ~Flagged(Enforced(text))
  BY DEF Enforced, Unsafe, Flagged, Leaks, Texts

LEMMA FineIsFine == "fine" \in Texts /\ ~Unsafe("fine") /\ ~Flagged("fine")
  BY DEF Unsafe, Flagged, Leaks, Texts

(* A message that asks for work is never taken for a question of records.  *)
LEMMA WorkIsCoached ==
  ASSUME NEW m \in Messages
  PROVE  /\ DetectRequestIntent(m) \in Intents
         /\ DetectRequestIntent(m) # "none" => m.work # "beside"
  BY DEF DetectRequestIntent, ClassifyContextTopics, Intents

(* An answer without violations has words, invents nothing, and, on the    *)
(* assignment, has a line of it.                                           *)
LEMMA NoViolations ==
  ASSUME NEW a \in Answers, NEW intent \in Intents, NEW hasWords \in BOOLEAN,
         AssignmentViolations(a, intent, hasWords) = {}
  PROVE  /\ ~a.empty /\ a.invents = {}
         /\ intent = "about" => a.takes = "a line"
  <1>1. ContextViolations(a, intent) = {}
    BY DEF AssignmentViolations
  <1> QED BY <1>1 DEF ContextViolations, HasAnchor

EvidenceTypes == {"UNDERSTANDING", "INDEPENDENCE", "MISCONCEPTION", "REVISION", "EXPLANATION"}
Strengths == {"WEAK", "MODERATE", "STRONG"}

LEMMA CandidateType ==
  ASSUME NEW type \in EvidenceTypes, NEW strength \in Strengths
  PROVE  Candidate(type, strength) \in [type : EvidenceTypes, strength : Strengths]
  BY DEF Candidate

LEMMA EvidenceType ==
  ASSUME NEW d, NEW n, NEW explains \in BOOLEAN
  PROVE  ExtractEvidenceCandidates(d, n, explains)
           \subseteq [type : EvidenceTypes, strength : Strengths]
  <1>1. Calibrated(d) \in Strengths
    BY DEF Calibrated, Strengths
  <1>2. OfDiagnosis(d, n) \subseteq [type : EvidenceTypes, strength : Strengths]
    BY <1>1, CandidateType DEF OfDiagnosis, EvidenceTypes, Strengths
  <1>3. OfRevision(d, n) \subseteq [type : EvidenceTypes, strength : Strengths]
    BY CandidateType DEF OfRevision, EvidenceTypes, Strengths
  <1>4. Candidate("EXPLANATION", "MODERATE") \in [type : EvidenceTypes, strength : Strengths]
    BY CandidateType DEF EvidenceTypes, Strengths
  <1> QED BY <1>2, <1>3, <1>4 DEF ExtractEvidenceCandidates

-----------------------------------------------------------------------------
(* The invariant. *)

LEMMA InitTurn == Init => TurnInv
  <1> SUFFICES ASSUME Init PROVE TurnInv
    OBVIOUS
  <1>1. PICK policy \in Policies, programming \in BOOLEAN, index \in {1, 2},
             m \in Messages, draft \in Drafts :
          turn = [policy |-> policy, programming |-> programming, index |-> index,
                  intent |-> DetectRequestIntent(m), asksForWork |-> m.work = "beside",
                  locates |-> IsExplicitCourseMaterialRequest(m, draft)]
    BY DEF Init
  <1>2. IsExplicitCourseMaterialRequest(m, draft) \in BOOLEAN
    BY DEF IsExplicitCourseMaterialRequest, Messages
  <1>3. turn \in Turns /\ (turn.intent # "none" => ~turn.asksForWork)
    BY <1>1, <1>2, WorkIsCoached DEF Turns
  <1>4. NoAnswer \in Answers
    BY DEF NoAnswer, Answers, Kinds
  <1>5. TypeOK
    <2>1. /\ node \in Nodes /\ response \in Texts \cup {NoText} /\ passed \in BOOLEAN
          /\ retries \in 0 .. MaxValidationRetries + 1 /\ undecided \in BOOLEAN
      <3>1. node = "understand_context" /\ response = NoText /\ passed = FALSE /\ retries = 0
            /\ undecided = FALSE
        BY DEF Init
      <3>2. passed \in BOOLEAN /\ undecided \in BOOLEAN
        BY <3>1
      <3>3. retries \in 0 .. MaxValidationRetries + 1
        BY <3>1 DEF MaxValidationRetries
      <3>4. node \in Nodes /\ response \in Texts \cup {NoText}
        BY <3>1 DEF Nodes
      <3> QED BY <3>2, <3>3, <3>4
    <2>2. /\ diagnosis \in Diagnoses \cup {NoDiagnosis}
          /\ intervention \in Interventions \cup {NoIntervention}
      BY DEF Init
    <2>3. evidence = {} /\ answer \in Answers
      BY <1>4 DEF Init
    <2> QED BY <1>3, <2>1, <2>2, <2>3 DEF TypeOK
  <1>6. OnItsWay /\ RetriesLeft /\ ResponseChecked
    BY <1>3 DEF Init, OnItsWay, RetriesLeft, ResponseChecked, Emitting, MaxValidationRetries
  <1>7. Judged /\ Grounded /\ EvidenceOfTurn
    BY DEF Init, Judged, Grounded, EvidenceOfTurn, Chosen, Drafting, Emitting
  <1> QED BY <1>5, <1>6, <1>7 DEF TurnInv

LEMMA TypeStep ==
  ASSUME TypeOK, RetriesLeft, [Next]_vars
  PROVE  TypeOK'
  <1> USE DEF TypeOK, judgement, outcome
  <1>1. CASE UnderstandContext \/ AnalyzeCode \/ RetrieveContext
    BY <1>1 DEF UnderstandContext, AnalyzeCode, RetrieveContext, Nodes
  <1>2. CASE ContextResponse
    <2>1. NotDiagnosed \in Diagnoses
      BY DEF NotDiagnosed, Diagnoses, Categories, Confidences
    <2> QED BY <1>2, <2>1 DEF ContextResponse, Nodes, Interventions, Texts
  <1>3. CASE Diagnose
    BY <1>3 DEF Diagnose, Nodes
  <1>4. CASE ChooseIntervention
    <2>1. intervention' \in Interventions
      BY <1>4 DEF ChooseIntervention, Interventions
    <2> QED BY <1>4, <2>1 DEF ChooseIntervention, Nodes
  <1>5. CASE GenerateDraft
    BY <1>5 DEF GenerateDraft, Nodes
  <1>6. CASE GenerateAnswer
    <2>1. retries <= MaxValidationRetries
      BY <1>6 DEF GenerateAnswer, RetriesLeft, Drafting
    <2>2. retries' \in 0 .. MaxValidationRetries + 1
      BY <1>6, <2>1 DEF GenerateAnswer, MaxValidationRetries
    <2>3. response' \in Texts \cup {NoText} /\ answer' \in Answers /\ node' \in Nodes
      BY <1>6 DEF GenerateAnswer, Nodes, Texts
    <2>4. passed' \in BOOLEAN
      BY <1>6 DEF GenerateAnswer
    <2> QED BY <1>6, <2>2, <2>3, <2>4 DEF GenerateAnswer
  <1>7. CASE Validate
    <2>1. retries <= MaxValidationRetries
      BY <1>7 DEF Validate, RetriesLeft, Drafting
    <2>2. retries' \in 0 .. MaxValidationRetries + 1
      BY <1>7, <2>1 DEF Validate, MaxValidationRetries
    <2>3. response' \in Texts \cup {NoText}
      BY <1>7 DEF Validate, Rewrites, Enforced, Texts
    <2>4. node' \in Nodes /\ passed' \in BOOLEAN
      BY <1>7 DEF Validate, AfterValidation, Nodes
    <2> QED BY <1>7, <2>2, <2>3, <2>4 DEF Validate
  <1>8. CASE SafeFallback
    BY <1>8 DEF SafeFallback, Nodes, Texts, Interventions
  <1>9. CASE EmitInteraction
    BY <1>9 DEF EmitInteraction, Nodes, Enforced, Texts
  <1>10. CASE ToResult
    BY <1>10, EvidenceType DEF ToResult, Nodes, EvidenceTypes, Strengths
  <1>11. CASE UNCHANGED vars
    BY <1>11 DEF vars
  <1> QED
    BY <1>1, <1>2, <1>3, <1>4, <1>5, <1>6, <1>7, <1>8, <1>9, <1>10, <1>11 DEF Next

(* Every action keeps the parts beside the types.                          *)
LEMMA TurnStep ==
  ASSUME TurnInv, [Next]_vars
  PROVE  OnItsWay' /\ RetriesLeft' /\ ResponseChecked' /\ Judged' /\ Grounded' /\ EvidenceOfTurn'
  <1> USE DEF TurnInv, OnItsWay, RetriesLeft, judgement, outcome, Drafting, Emitting, Chosen
  <1>0. TypeOK
    OBVIOUS
  <1>1. CASE UnderstandContext
    BY <1>1 DEF UnderstandContext, ResponseChecked, Judged, Grounded, EvidenceOfTurn
  <1>2. CASE ContextResponse
    <2>1. NotDiagnosed \in Diagnoses /\ NotDiagnosed.turn = "this"
      BY DEF NotDiagnosed, Diagnoses, Categories, Confidences
    <2>2. "EXPLANATION" \in Interventions
      BY DEF Interventions
    <2>3. /\ node' \in {"emit_interaction", "generate_response"}
          /\ node' = "emit_interaction" => response' \in Texts
          /\ diagnosis' = NotDiagnosed /\ intervention' = "EXPLANATION"
          /\ UNCHANGED <<turn, answer, retries, evidence>>
          /\ node = "context_response"
      BY <1>2 DEF ContextResponse
    <2>4. ResponseChecked'
      BY <2>3 DEF ResponseChecked
    <2>5. Judged'
      BY <2>1, <2>2, <2>3 DEF Judged
    <2>6. Grounded' /\ EvidenceOfTurn'
      BY <2>3 DEF Grounded, EvidenceOfTurn
    <2> QED BY <2>3, <2>4, <2>5, <2>6
  <1>3. CASE AnalyzeCode
    BY <1>3 DEF AnalyzeCode, ResponseChecked, Judged, Grounded, EvidenceOfTurn
  <1>4. CASE Diagnose
    BY <1>4 DEF Diagnose, ResponseChecked, Judged, Grounded, EvidenceOfTurn
  <1>5. CASE ChooseIntervention
    <2>1. /\ node' \in {"retrieve_context", "generate_response"}
          /\ UNCHANGED <<turn, diagnosis, response, answer, passed, retries, evidence>>
          /\ node = "choose_intervention"
      BY <1>5 DEF ChooseIntervention
    <2>2. intervention' \in Interventions
      BY <1>5 DEF ChooseIntervention, Interventions
    <2>3. diagnosis \in Diagnoses /\ diagnosis.turn = "this"
      BY <2>1 DEF Judged
    <2>4. ChoiceFits'
      <3>1. CASE \E type \in Interventions :
                   intervention' = IF ForcedToClarify(type) THEN "CLARIFICATION"
                                   ELSE IF TooEarly(type) THEN "QUESTION" ELSE type
        BY <2>1, <3>1 DEF ChoiceFits, ForcedToClarify, Uncertain, IsUncertain, TooEarly
      <3>2. CASE /\ intervention' = IF diagnosis.category = "CORRECT_REASONING"
                                    THEN "ENCOURAGEMENT" ELSE "QUESTION"
                 /\ undecided' = TRUE
        BY <2>1, <3>2 DEF ChoiceFits, Uncertain, IsUncertain, TooEarly
      <3> QED BY <1>5, <3>1, <3>2 DEF ChooseIntervention
    <2>5. Judged'
      BY <2>1, <2>2, <2>3, <2>4 DEF Judged
    <2> QED BY <2>1, <2>5 DEF ResponseChecked, Grounded, EvidenceOfTurn
  <1>6. CASE RetrieveContext
    <2>1. /\ node = "retrieve_context" /\ node' = "generate_response"
          /\ UNCHANGED <<turn, diagnosis, intervention, undecided, response, answer, passed, retries, evidence>>
      BY <1>6 DEF RetrieveContext
    <2>2. Judged'
      BY <2>1 DEF Judged, ChoiceFits, Uncertain, TooEarly
    <2> QED BY <2>1, <2>2 DEF ResponseChecked, Grounded, EvidenceOfTurn
  <1>7. CASE GenerateDraft
    <2>1. /\ node = "generate_response" /\ node' = "validate" /\ turn.intent = "none"
          /\ response' \in Texts
          /\ UNCHANGED <<turn, diagnosis, intervention, undecided, answer, passed, retries, evidence>>
      BY <1>7 DEF GenerateDraft
    <2>2. Judged'
      BY <2>1 DEF Judged, ChoiceFits, Uncertain, TooEarly
    <2> QED BY <2>1, <2>2 DEF ResponseChecked, Grounded, EvidenceOfTurn
  <1>8. CASE GenerateAnswer
    <2>1. /\ node = "generate_response" /\ node' \in {"emit_interaction", "error"}
          /\ turn.intent \in {"about", "topics"}
          /\ UNCHANGED <<turn, diagnosis, intervention, undecided, evidence>>
          /\ response' \in Texts
      BY <1>8, FineIsFine DEF GenerateAnswer
    <2>2. node' = "emit_interaction" =>
            \/ answer' = NoAnswer
            \/ \E hasWords \in BOOLEAN :
                  AssignmentViolations(answer', turn.intent, hasWords) = {}
      BY <1>8, <2>1 DEF GenerateAnswer, AfterUngrounded, Grounded
    <2>3. Judged'
      BY <2>1 DEF Judged
    <2>4. Grounded'
      BY <2>1, <2>2 DEF Grounded
    <2> QED BY <2>1, <2>3, <2>4 DEF ResponseChecked, EvidenceOfTurn
  <1>9. CASE Validate
    <2>1. PICK passes \in IF Flagged(response) THEN {FALSE} ELSE BOOLEAN :
          \E rewrite \in IF passes THEN {NoText} ELSE Rewrites :
            LET accepted == rewrite # NoText /\ ~Unsafe(rewrite) IN
            /\ passed' = (passes \/ accepted)
            /\ response' = IF passes THEN Enforced(response)
                           ELSE IF accepted THEN rewrite ELSE response
            /\ retries' = IF ~passes /\ CountsAsFailed(rewrite) THEN retries + 1 ELSE retries
            /\ node' = AfterValidation(passed', retries')
      BY <1>9 DEF Validate
    <2>2. PICK rewrite \in IF passes THEN {NoText} ELSE Rewrites :
            LET accepted == rewrite # NoText /\ ~Unsafe(rewrite) IN
            /\ passed' = (passes \/ accepted)
            /\ response' = IF passes THEN Enforced(response)
                           ELSE IF accepted THEN rewrite ELSE response
            /\ retries' = IF ~passes /\ CountsAsFailed(rewrite) THEN retries + 1 ELSE retries
            /\ node' = AfterValidation(passed', retries')
      BY <2>1
    <2>3. /\ node = "validate" /\ turn.intent = "none" /\ response \in Texts
          /\ UNCHANGED <<turn, diagnosis, intervention, undecided, answer, evidence>>
      BY <1>9 DEF Validate, ResponseChecked
    <2>4. /\ node' \in {"emit_interaction", "safe_fallback", "generate_response"}
          /\ node' = "emit_interaction" => passed'
          /\ node' = "generate_response" => retries' <= MaxValidationRetries
      <3>1. retries' \in Nat
        BY <1>0, <2>2 DEF TypeOK
      <3> QED BY <2>2, <3>1 DEF AfterValidation, MaxValidationRetries
    <2>5. passed' => response' \in Texts /\ ~Flagged(response')
      <3>1. CASE passes
        BY <2>1, <2>2, <2>3, <3>1, EnforcedIsSafe
      <3>2. CASE ~passes /\ rewrite # NoText /\ ~Unsafe(rewrite)
        BY <2>2, <3>2 DEF Rewrites
      <3> QED BY <2>2, <3>1, <3>2
    <2>6. ResponseChecked'
      <3>1. \A text : Flagged(text)' <=> Flagged(text)
        BY <2>3 DEF Flagged, Leaks
      <3> QED BY <2>3, <2>4, <2>5, <3>1 DEF ResponseChecked, Flagged, Leaks
    <2>7. Judged'
      BY <2>3, <2>4 DEF Judged, ChoiceFits, Uncertain, TooEarly
    <2> QED BY <2>3, <2>4, <2>6, <2>7 DEF Grounded, EvidenceOfTurn
  <1>10. CASE SafeFallback
    <2>1. /\ node = "safe_fallback" /\ node' = "emit_interaction"
          /\ response' = "fine" /\ intervention' = "CLARIFICATION"
          /\ UNCHANGED <<turn, diagnosis, undecided, answer, retries, evidence>>
      BY <1>10 DEF SafeFallback
    <2>2. ResponseChecked'
      BY <2>1 DEF ResponseChecked, Flagged, Leaks, Texts
    <2>3. Judged'
      BY <2>1 DEF Judged, ChoiceFits, Uncertain, TooEarly, Interventions
    <2> QED BY <2>1, <2>2, <2>3 DEF Grounded, EvidenceOfTurn
  <1>11. CASE EmitInteraction
    <2>1. /\ node = "emit_interaction" /\ node' = "result"
          /\ response' = Enforced(response)
          /\ UNCHANGED <<turn, diagnosis, intervention, undecided, answer, passed, retries, evidence>>
      BY <1>11 DEF EmitInteraction
    <2>2. ResponseChecked'
      <3>1. response \in Texts /\ (turn.intent = "none" => ~Flagged(response))
        BY <2>1 DEF ResponseChecked
      <3>2. /\ response' \in Texts /\ ~Unsafe(response')
            /\ turn.intent = "none" => ~Flagged(response')
        BY <2>1, <3>1, EnforcedIsSafe
      <3> QED BY <2>1, <3>2 DEF ResponseChecked, Flagged, Unsafe, Leaks
    <2>3. Judged'
      BY <2>1 DEF Judged, ChoiceFits, Uncertain, TooEarly
    <2> QED BY <2>1, <2>2, <2>3 DEF Grounded, EvidenceOfTurn
  <1>12. CASE ToResult
    <2>1. /\ node = "result" /\ node' = "end"
          /\ \E explains \in BOOLEAN :
                evidence' = ExtractEvidenceCandidates(diagnosis, turn.index, explains)
          /\ UNCHANGED <<turn, diagnosis, intervention, undecided, response, answer, passed, retries>>
      BY <1>12 DEF ToResult
    <2>2. ResponseChecked'
      BY <2>1 DEF ResponseChecked, Flagged, Unsafe, Leaks
    <2>3. Judged'
      BY <2>1 DEF Judged, ChoiceFits, Uncertain, TooEarly
    <2>4. EvidenceOfTurn'
      BY <2>1 DEF EvidenceOfTurn
    <2> QED BY <2>1, <2>2, <2>3, <2>4 DEF Grounded
  <1>13. CASE UNCHANGED vars
    BY <1>13 DEF vars, ResponseChecked, Flagged, Unsafe, Leaks, Judged, ChoiceFits,
                 Uncertain, TooEarly, Grounded, EvidenceOfTurn
  <1> QED
    BY <1>1, <1>2, <1>3, <1>4, <1>5, <1>6, <1>7, <1>8, <1>9, <1>10, <1>11, <1>12, <1>13
       DEF Next

(* Whatever the model answers, a turn keeps the invariant.                 *)
THEOREM TurnCorrect == Spec => []TurnInv
  <1>1. TurnInv /\ [Next]_vars => TurnInv'
    BY TypeStep, TurnStep DEF TurnInv
  <1> QED BY <1>1, InitTurn, PTL DEF Spec

(* The types are right; in particular at most two validations fail.        *)
THEOREM TurnTypes == Spec => []TypeOK
  <1>1. TurnInv => TypeOK
    BY DEF TurnInv
  <1> QED BY <1>1, TurnCorrect, PTL

(* What the student gets does not give the answer away, whether the model, *)
(* its reviewer or a fallback wrote it, and obeys the policy if it coaches.*)
THEOREM AnswerIsNeverGiven == Spec => []NeverTheAnswer
  <1>1. TurnInv => NeverTheAnswer
    BY DEF TurnInv, ResponseChecked, NeverTheAnswer, Emitting
  <1> QED BY <1>1, TurnCorrect, PTL

(* What evidence a diagnosis and the number of a turn can lead to: never   *)
(* both an understanding and a misconception, and no independence when the *)
(* turn is a revision.                                                     *)
LEMMA EvidenceFacts ==
  ASSUME NEW d, NEW n \in {1, 2}, NEW explains \in BOOLEAN
  PROVE  LET Types == {e.type : e \in ExtractEvidenceCandidates(d, n, explains)} IN
         /\ Types \cap {"UNDERSTANDING", "MISCONCEPTION", "INDEPENDENCE"} # {} =>
              ~IsUncertain(d)
         /\ ~{"UNDERSTANDING", "MISCONCEPTION"} \subseteq Types
         /\ "INDEPENDENCE" \in Types => "UNDERSTANDING" \in Types /\ "REVISION" \notin Types
  BY DEF ExtractEvidenceCandidates, OfDiagnosis, OfRevision, Candidate

(* The intervention the backend stores fits the diagnosis of the turn and  *)
(* the policy, with the one exception of a model that did not decide.      *)
THEOREM InterventionAlwaysFits == Spec => []InterventionFits
  <1>1. TurnInv => InterventionFits
    BY DEF TurnInv, TypeOK, Turns, Judged, ChoiceFits, TooEarly, InterventionFits,
           Chosen, Emitting, Uncertain, NotDiagnosed
  <1> QED BY <1>1, TurnCorrect, PTL

(* The evidence the backend stores is of this turn and consistent.         *)
THEOREM EvidenceAlwaysFits == Spec => []EvidenceFits
  <1>1. TurnInv => EvidenceFits
    <2> SUFFICES ASSUME TurnInv, node = "end" PROVE EvidenceFits
      BY DEF EvidenceFits
    <2>1. PICK explains \in BOOLEAN :
            evidence = ExtractEvidenceCandidates(diagnosis, turn.index, explains)
      BY DEF TurnInv, EvidenceOfTurn
    <2>2. turn.index \in {1, 2} /\ diagnosis.turn = "this"
          /\ (turn.intent # "none" => IsUncertain(diagnosis))
      BY DEF TurnInv, TypeOK, Turns, Judged, Chosen, Emitting, NotDiagnosed, IsUncertain
    <2> QED BY <2>1, <2>2, EvidenceFacts DEF EvidenceFits, Uncertain
  <1> QED BY <1>1, TurnCorrect, PTL

(* What skips the review answers no request for work and, as an answer on  *)
(* the assignment, has nothing that the assignment does not have.          *)
THEOREM OnlyFactsGoUnreviewed == Spec => []OnlyFactsSkipReview
  <1>1. TurnInv => OnlyFactsSkipReview
    <2> SUFFICES ASSUME TurnInv, node = "end", turn.intent # "none"
                 PROVE  /\ ~turn.asksForWork
                        /\ answer # NoAnswer =>
                             /\ answer.invents = {}
                             /\ turn.intent = "about" => answer.takes = "a line"
      BY DEF OnlyFactsSkipReview
    <2>1. answer \in Answers /\ turn.intent \in Intents
      BY DEF TurnInv, TypeOK, Turns
    <2> QED BY <2>1, NoViolations DEF TurnInv, OnItsWay, Grounded, Emitting
  <1> QED BY <1>1, TurnCorrect, PTL
=============================================================================
