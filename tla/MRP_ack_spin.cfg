SPECIFICATION Spec
CONSTANTS
    HalfRange = 4
    WindowSize = 3
    NumMessages = 2
    MaxRetrans = 1
    MaxDups = 0
    MaxErrors = 0
    Refusals = {}
    AppCloses = {}
    AppReplies = {"now", "later", "ignore"}
    Releasing = {"I", "R"}
    Timeouts = {{"I", "R"}, {}}
INVARIANT PendingAckHasSession
CHECK_DEADLOCK FALSE
