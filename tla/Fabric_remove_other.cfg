SPECIFICATION Spec
CONSTANTS
  None = None
  Unsure = Unsure
  Fabrics = {f1, f2}
  Labels = {""}
  MaxIndex = 2
  MaxFabrics = 2
  MaxKeys = 3
  MaxCrashes = 0
  MaxFaults = 0
  Faults = {}
  RemoveWhilePending = TRUE
  EarlyComplete = FALSE
SYMMETRY FabricSymmetry
INVARIANT CommittedIsDurable
CHECK_DEADLOCK FALSE
