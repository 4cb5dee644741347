SPECIFICATION Spec
CONSTANTS
    Schemes = {"tcp", "ws", "http"}
    Handshakes <- AllHandshakes
    OptionLists <- SomeOptions
    Requests <- SomeRequests
    SubCmds = {10}
    PushCmds = {10, 11}
    Statuses = {0, 5}
    Messages = {0, 2}
    MaxActs = 2
    MaxSubs = 2
    MaxCut = 9
INVARIANT SidesAgree
INVARIANT OptionsTaken
INVARIANT RequestUnderstood
 
 
INVARIANT PongsKeepIds
 
 
INVARIANT CutsCleanly
CHECK_DEADLOCK FALSE
