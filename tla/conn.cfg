SPECIFICATION FairSpec
CONSTANTS
    Transports = {"tcp", "ws"}
    Users = {u1}
    Closers = {u1}
    WriteQueueSize = 1
    ReadQueueSize = 1
    HandshakeLen = 2
    MaxLen = 1
    MaxBytes = 3
    MaxChunk = 1
    MaxPackets = 2
INVARIANT ConnInvariant
INVARIANT PacketsAccounted
INVARIANT ClosesOnce
INVARIANT LeavesOnlyLastRead
PROPERTY ImplementsByteStream
PROPERTY ImplementsConnView
 
 
PROPERTY AcceptedIsSent
CHECK_DEADLOCK FALSE
