SPECIFICATION FairSpec
CONSTANTS
    Users = {u1}
    Closers = {u1}
    Conns = {c1}
    NoConn = NoConn
    NoProc = NoProc
    ServerKinds = {"ping"}
    NeedAuth = FALSE
    Resubscribe = FALSE
    Ticks = FALSE
    MaxReconnect = 1
    CountBound = 1
    ReadQueueSize = 1
    MaxReq = 1
INVARIANT NoReaderWaits
PROPERTY DoReturns
PROPERTY CloseReturns
PROPERTY ReconnectEnds
 
CHECK_DEADLOCK FALSE
