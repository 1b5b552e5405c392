SPECIFICATION FairSpec
CONSTANTS
  None = None
  Unsure = Unsure
  Fabrics = {f1, f2}
  Labels = {"", "a"}
  MaxIndex = 2
  MaxFabrics = 2
  MaxKeys = 3
  MaxCrashes = 2
  MaxFaults = 1
  Faults = { {"meta"}, {"noc"}, {"index"}, {"marker"} }
  RemoveWhilePending = FALSE
  EarlyComplete = FALSE
INVARIANTS CommittedIsWhole CommittedIsDurable IndexBookkeeping PendingIsCoherent
PROPERTIES FailSafeEnds
CHECK_DEADLOCK FALSE
