\* Three requests of one student on a pool of one connection and one thread.
SPECIFICATION Spec
CONSTANTS
    Request = {1, 2, 3}
    Limit = 2
    Window = 1
    MaxDelay = 1
    Horizon = 3
    Connections = 1
    Workers = 1
INVARIANTS TypeOK AdmissionsSpaced
PROPERTIES RefusedWhenBusy EveryRequestEnds PoolsDrain
CHECK_DEADLOCK FALSE
