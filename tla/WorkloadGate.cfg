SPECIFICATION GateSpec
CONSTANTS
  Op = {p1, p2, p3}
  MaxReconfig = 1
  Msg = {a, b, c}
  Char = {x, y}
  Task = {t1, t2}
  Rows = 2
  MaxDeferrals = 2
  Swaps = TRUE
  MaxRev = 4
INVARIANTS OneKindAtATime ParkedMeansBlocked ImageWorkHasTheGpu NothingSkipped ReplyNotForgotten
PROPERTIES  ReplyIsExtracted
CHECK_DEADLOCK FALSE
