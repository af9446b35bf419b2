CONSTANTS
  r = r
  w = w
  a = a
  b = b
  Nodes = {r, w, a, b}
  Trees <- AllTrees
  Configs <- AllConfigs
  Tools <- AllTools
  Calls = {c1, c2}
  Writes = {TRUE, FALSE}
SPECIFICATION Spec
SYMMETRY Symmetry
CHECK_DEADLOCK FALSE
INVARIANTS TypeOK MutatingCallsConfirmed ChainsComplete
PROPERTIES GatedRunsApproved ConfirmationFlowOpen
