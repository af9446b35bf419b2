\* A loop served to a session that sends more than one message.
SPECIFICATION Spec
CONSTANTS
  Sources <- LoopSources
  Replies <- AllReplies
  LoopSize = 3
  Steps = 1
  MaxRuns = 2
  MaxWaits = 0
  MaxTimes = 5
INVARIANTS
  LoopSpendsBudget
CHECK_DEADLOCK FALSE
