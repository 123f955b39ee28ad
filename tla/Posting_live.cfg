SPECIFICATION FairSpec
CONSTANTS
  Batches = {b1, b2}
  NoBatch = NoBatch
  Faults = {"kill", "io"}
  MaxFaults = 2
  MaxManual = 1
INVARIANT LeavesWithRecord
PROPERTIES DueBatchResolves GuardComesFree StaleRunIsFlagged
