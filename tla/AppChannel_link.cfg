CONSTANTS
    Data = {d1, d2}
    Queue = 2
    LastSeq = 4
    MaxSession = 2
    MaxNonce = 2
    Apps = {a, b}
    Wanted = a
    None = None
SPECIFICATION Spec
INVARIANTS TypeOK PeerAgrees
PROPERTIES ImplementsPromise CallsResolve
CHECK_DEADLOCK FALSE
