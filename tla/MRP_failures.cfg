SPECIFICATION Spec
CONSTANTS
    HalfRange = 3
    WindowSize = 2
    NumMessages = 2
    MaxRetrans = 1
    MaxDups = 1
    MaxErrors = 1
    Refusals = {"HandlerError", "PoolFull"}
    AppCloses = {"Abort"}
    AppReplies = {"now", "later", "ignore"}
    Releasing = {"I", "R"}
    Timeouts = {{"I", "R"}, {}}
INVARIANTS AckMeansArrived ExchangeInv InOrderOnce
PROPERTY ExpiredIsReported
CHECK_DEADLOCK FALSE
