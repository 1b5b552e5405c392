SPECIFICATION Spec
CONSTANTS
  None = None
  Unsure = Unsure
  Fabrics = {f1, f2}
  Labels = {"", "a"}
  MaxIndex = 2
  MaxFabrics = 2
  MaxKeys = 3
  MaxCrashes = 2
  MaxFaults = 1
  Faults = { {"meta"}, {"key"}, {"noc"}, {"icac"}, {"rcac"}, {"index"}, {"marker"}, {"acl"} }
  RemoveWhilePending = FALSE
  EarlyComplete = FALSE
SYMMETRY FabricSymmetry
INVARIANTS CommittedIsWhole CommittedIsDurable IndexBookkeeping PendingIsCoherent
CHECK_DEADLOCK FALSE
