SPECIFICATION FairSpec
CONSTANTS
    HalfRange = 4
    WindowSize = 3
    NumMessages = 3
    MaxRetrans = 1
    MaxDups = 0
    MaxErrors = 0
    Refusals = {"PoolFull"}
    AppCloses = {"Abort", "Close"}
    AppReplies = {"now", "later", "ignore"}
    Releasing = {}
    Timeouts = {{"I", "R"}, {}}
INVARIANT FlagsTellTheTruth
PROPERTY ImplementsConversation
PROPERTY ExchangeFreed
CHECK_DEADLOCK FALSE
