SPECIFICATION FairSpec
CONSTANTS
    Users = {u1}
    Closers = {}
    Conns = {c1}
    NoConn = NoConn
    NoProc = NoProc
    ServerKinds = {"close"}
    NeedAuth = FALSE
    Resubscribe = FALSE
    Ticks = FALSE
    MaxReconnect = 1
    CountBound = 1
    ReadQueueSize = 1
    MaxReq = 1
PROPERTY DoReturns
CHECK_DEADLOCK FALSE
