SPECIFICATION Spec
CONSTANTS
  Batches = {b1, b2}
  NoBatch = NoBatch
  Faults = {"kill", "damage"}
  MaxFaults = 3
  MaxManual = 0
INVARIANTS MaybePostedMediaKept
