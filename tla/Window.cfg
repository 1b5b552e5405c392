SPECIFICATION Spec
CONSTANTS
    Admins = {"f1"}
    MaxAttempts = 3
    MaxOpens = 3
    MaxPASE = 3
    MaxQueue = 2
    MaxFaults = 1
INVARIANTS WindowInv ListensOnlyInWindow NeverDeaf HeldHasFailSafe
PROPERTIES ListensAgainOrCloses
CHECK_DEADLOCK FALSE
