SPECIFICATION Spec
CONSTANTS
    HalfRange = 4
    WindowSize = 3
    NumMessages = 2
    MaxRetrans = 1
    MaxDups = 0
    MaxErrors = 0
    Refusals = {}
    AppCloses = {"Close"}
    AppReplies = {"now", "later", "ignore"}
    Releasing = {}
    Timeouts = {{"I", "R"}, {}}
PROPERTY ExpiredIsReported
CHECK_DEADLOCK FALSE
