SPECIFICATION Spec
CONSTANTS
    Admins = {"f1"}
    MaxAttempts = 3
    MaxOpens = 2
    MaxPASE = 2
    MaxQueue = 1
    MaxFaults = 0
INVARIANTS PASEHasFailSafe
CHECK_DEADLOCK FALSE
