\* Three messages to each workflow, two waits for the user in each run.
SPECIFICATION FairSpec
CONSTANTS
  Sources <- AllSources
  Replies <- AllReplies
  LoopSize = 3
  Steps = 3
  MaxRuns = 3
  MaxWaits = 2
  MaxTimes = 5
INVARIANTS
  TypeOK
  FreshLoopExact
  AggregatesAll
  PlanOutputsInOrder
  RoutedAsReplied
PROPERTIES
  ImplementsStages
  RunSettles
CHECK_DEADLOCK FALSE
