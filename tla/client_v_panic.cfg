SPECIFICATION Spec
CONSTANTS
    Users = {u1}
    Closers = {}
    Conns = {c1, c2}
    NoConn = NoConn
    NoProc = NoProc
    ServerKinds = {}
    NeedAuth = FALSE
    Resubscribe = FALSE
    Ticks = TRUE
    MaxReconnect = 0
    CountBound = 1
    ReadQueueSize = 1
    MaxReq = 1
SYMMETRY Symmetry
INVARIANT RequestsDontPanic
CHECK_DEADLOCK FALSE
