SPECIFICATION Spec
CONSTANTS
  None = None
  Unsure = Unsure
  Fabrics = {f1, f2}
  Labels = {""}
  MaxIndex = 2
  MaxFabrics = 2
  MaxKeys = 3
  MaxCrashes = 0
  MaxFaults = 0
  Faults = {}
  RemoveWhilePending = FALSE
  EarlyComplete = TRUE
SYMMETRY FabricSymmetry
INVARIANT PendingIsCoherent
CHECK_DEADLOCK FALSE
