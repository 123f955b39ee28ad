SPECIFICATION Spec
CONSTANTS
  lineA = lineA
  lineB = lineB
  b1 = b1
  Lines = {lineA, lineB}
  Batches = {b1}
  Threshold = 2
  MaxStreak = 4
INVARIANTS AlertFollowsStreak ReportedOnce NoReportLost
