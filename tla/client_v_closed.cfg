SPECIFICATION Spec
CONSTANTS
    Users = {u1}
    Closers = {u1}
    Conns = {c1, c2}
    NoConn = NoConn
    NoProc = NoProc
    ServerKinds = {}
    NeedAuth = FALSE
    Resubscribe = FALSE
    Ticks = FALSE
    MaxReconnect = 1
    CountBound = 1
    ReadQueueSize = 1
    MaxReq = 1
SYMMETRY Symmetry
INVARIANT ClosedMeansDisconnected
CHECK_DEADLOCK FALSE
