SPECIFICATION WeakSpec
CONSTANTS
    Users = {}
    Closers = {}
    Conns = {c1, c2}
    NoConn = NoConn
    NoProc = NoProc
    ServerKinds = {}
    NeedAuth = FALSE
    Resubscribe = FALSE
    Ticks = TRUE
    MaxReconnect = 1
    CountBound = 1
    ReadQueueSize = 1
    MaxReq = 0
PROPERTY LostConnRecovers
CHECK_DEADLOCK FALSE
