SPECIFICATION Spec
CONSTANTS
    Users = {u1, u2}
    Closers = {u1}
    Conns = {c1}
    NoConn = NoConn
    NoProc = NoProc
    ServerKinds = {"close"}
    NeedAuth = FALSE
    Resubscribe = FALSE
    Ticks = FALSE
    MaxReconnect = 1
    CountBound = 1
    ReadQueueSize = 1
    MaxReq = 2
SYMMETRY Symmetry
INVARIANT InFlightOnCurrent
INVARIANT RecvsExact
INVARIANT SingleReconnect
INVARIANT ClientInvariant
 
PROPERTY ImplementsConnView
CHECK_DEADLOCK FALSE
