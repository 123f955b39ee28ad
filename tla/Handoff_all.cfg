SPECIFICATION FairSpec
CONSTANTS
  A = A
  B = B
  C = C
  Batches <- TwoBatches
  Accounts <- ThreeAccounts
  Rosters <- FourRosters
  Clips <- OneThenTwo
  Faults = {"kill", "io", "drop", "alter", "switch"}
  MaxFaults = 3
INVARIANTS TypeOK SourceSafe OneOutstanding ReplyReady
PROPERTIES ImplementsContract DeliveredIsApplied
