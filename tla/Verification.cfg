\* Two requests in flight, runs of two attempts.
SPECIFICATION Spec
CONSTANTS
    q1 = q1 q2 = q2 v1 = v1 v2 = v2 v3 = v3
    Request <- TwoRequests
    Run <- ThreeRuns
    MaxAttempts = 2
    NoRun = NoRun
SYMMETRY Ids
INVARIANTS TypeOK QuestionsInOrder CompletedByAnswers ConceptStateFresh
CHECK_DEADLOCK FALSE
