SPECIFICATION Spec
CONSTANTS
  Batches = {b1, b2, b3}
  NoBatch = NoBatch
  Faults = {"kill", "damage"}
  MaxFaults = 2
  MaxManual = 0
PROPERTIES CancelledNeverPosted
