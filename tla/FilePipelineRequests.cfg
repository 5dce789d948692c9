\* Every request, two handlers, slow workers whose claims are requeued under them.
SPECIFICATION Spec
CONSTANTS
    f1 = f1 f2 = f2 c1 = c1 c2 = c2 s1 = s1 s2 = s2
    w1 = w1 w2 = w2 h1 = h1 h2 = h2 p1 = p1 p2 = p2
    File = {f1, f2}
    Content = {c1}
    Scope = {s1, s2}
    Proc = {p1}
    Worker = {w1, w2}
    Handler = {h1, h2}
    ContentOf <- PairContentOf
    ScopeOf <- PairScopeOf
    ChunksOf <- ChunksOfShort
    ProcOf <- OneProc
    Asks = {"upload", "retry", "delete", "link"}
    Mishaps = {"slow"}
    MaxAttempts = 2
    MaxTrouble = 1
    NoFile = NoFile
    NoScope = NoScope
INVARIANTS TypeOK NoOrphanObject ReferencesResolve ObjectBehindRow
PROPERTIES ImplementsShelf
CHECK_DEADLOCK FALSE
SYMMETRY ThreadSymmetry
