SPECIFICATION Spec
CONSTANTS
  a1 = a1
  a2 = a2
  Accounts = {a1, a2}
  Orders <- TwoAccounts
  Paced = TRUE
  LookFails = TRUE
  RecordFails = TRUE
INVARIANTS RunKeepsMedia PageAgrees PhoneAgrees LeftOutStaysOut MediaOutlastTrouble EveryAccountAnswered
PROPERTIES PostedOnce RunEnds
CHECK_DEADLOCK FALSE
