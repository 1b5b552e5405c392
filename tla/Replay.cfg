CONSTANTS
    HalfRange = 4
    WindowSize = 2
    MaxPos = 14
SPECIFICATION Spec
INVARIANT ReplayInv
INVARIANT NoReplay
INVARIANT NoFalseDuplicate
PROPERTY ReuseNeedsHalfRange
