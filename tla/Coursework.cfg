SPECIFICATION Spec
CONSTANTS
    tab1 = tab1
    tab2 = tab2
    s1 = s1
    s2 = s2
    s3 = s3
    f1 = f1
    f2 = f2
    t1 = t1
    Request <- Tabs
    Session <- ThreeSessions
    Work <- TwoWorks
    Text <- OneText
    Asks <- StudentAsks
    Moves <- InstructorMoves
    MaxAttempts = 2
    MaxTurns = 1
    NoWork = NoWork
    NoText = NoText
    NoSession = NoSession
SYMMETRY Ids
INVARIANTS
    SessionsFollowAttempts
    WorkKept
    TypeOK
    AttemptsInOrder
PROPERTIES
    SubmittedIsFrozen
CHECK_DEADLOCK FALSE
