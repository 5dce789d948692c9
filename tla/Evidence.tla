------------------------------ MODULE Evidence ------------------------------
(***************************************************************************)
(* The learning evidence a Coach turn emits (evidence.py), made of the     *)
(* diagnosis at its end, the number of the turn in its session, and the    *)
(* student's words.                                                        *)
(***************************************************************************)
EXTENDS Naturals

(* Categories the evidence tells apart; "other" are the six errors.        *)
(* Confidence is below 0.4, below 0.5, below 0.8, or above.  A diagnosis   *)
(* is of this turn or of the one before.                                   *)
Categories == {"CORRECT_REASONING", "UNCERTAIN", "other"}
Confidences == {"unsure", "low", "medium", "high"}
Diagnoses == [category : Categories, confidence : Confidences, turn : {"this", "before"}]

IsUncertain(d) == d.category = "UNCERTAIN" \/ d.confidence = "unsure"

Candidate(type, strength) == [type |-> type, strength |-> strength]

Calibrated(d) == CASE d.confidence = "high"   -> "STRONG"
                   [] d.confidence = "medium" -> "MODERATE"
                   [] OTHER                   -> "WEAK"

OfDiagnosis(d, turnIndex) ==
    IF IsUncertain(d) THEN {}
    ELSE IF d.category = "other" THEN {Candidate("MISCONCEPTION", Calibrated(d))}
    ELSE {Candidate("UNDERSTANDING", Calibrated(d))}
         \cup {Candidate("INDEPENDENCE", IF d.confidence = "high" THEN "STRONG" ELSE "MODERATE") :
                 i \in {turnIndex} \cap {0, 1}}

(* Every later turn counts as a revision, also when the diagnosis is       *)
(* uncertain.                                                              *)
OfRevision(d, turnIndex) ==
    IF turnIndex <= 1 THEN {}
    ELSE {Candidate("REVISION", IF d.category = "CORRECT_REASONING" THEN "STRONG" ELSE "MODERATE")}

(* explains: the draft or the message has words such as "because". *)
ExtractEvidenceCandidates(d, turnIndex, explains) ==
    OfDiagnosis(d, turnIndex) \cup OfRevision(d, turnIndex)
    \cup (IF explains THEN {Candidate("EXPLANATION", "MODERATE")} ELSE {})
=============================================================================
