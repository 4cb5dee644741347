SPECIFICATION Spec
CONSTANTS
    Users = {}
    Closers = {}
    Conns = {c1, c2}
    NoConn = NoConn
    NoProc = NoProc
    ServerKinds = {}
    NeedAuth = TRUE
    Resubscribe = TRUE
    Ticks = FALSE
    MaxReconnect = 1
    CountBound = 1
    ReadQueueSize = 1
    MaxReq = 1
SYMMETRY Symmetry
 
INVARIANT OneOpenConn
CHECK_DEADLOCK FALSE
