CONSTANTS
  r = r
  w = w
  a = a
  b = b
  Nodes = {r, w, a, b}
  Trees <- SequenceOrPlan
  Configs <- RequireAlone
  Tools <- TwoTools
  Calls = {c1}
  Writes = {}
SPECIFICATION Spec
CHECK_DEADLOCK FALSE
PROPERTIES RequireApprovalHonoured
