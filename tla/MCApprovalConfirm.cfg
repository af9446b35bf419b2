CONSTANTS
  r = r
  w = w
  a = a
  b = b
  Nodes = {r, w, a, b}
  Trees <- SequenceOnly
  Configs <- PolicyAlone
  Tools <- TwoTools
  Calls = {c1}
  Writes = {}
SPECIFICATION Spec
CHECK_DEADLOCK FALSE
PROPERTIES ConfirmedProceeds
