\* A turn ends: its last states have no successor.
SPECIFICATION Spec
INVARIANTS TypeOK NeverTheAnswer InterventionFits EvidenceFits OnlyFactsSkipReview
PROPERTIES TurnEnds
CHECK_DEADLOCK FALSE
