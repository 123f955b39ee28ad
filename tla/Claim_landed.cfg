SPECIFICATION Spec
CONSTANTS
  a1 = a1
  a2 = a2
  Accounts = {a1, a2}
  Orders <- TwoAccounts
  Paced = FALSE
  LookFails = TRUE
  RecordFails = FALSE
INVARIANT LandedIsRecorded
CHECK_DEADLOCK FALSE
