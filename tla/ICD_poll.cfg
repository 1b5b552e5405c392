SPECIFICATION Spec
CONSTANTS
    Durations = {0, 2}
    Threshold = 2
    Jitter = 1
    IdleDuration = 3
    StayActive = {3}
    MaxExchanges = 2
    MaxCheckIns = 2
    MaxUses = 6
    MaxLate = 2
INVARIANT PollsAsSIT
CHECK_DEADLOCK FALSE
