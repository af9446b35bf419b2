\* Two sockets, two subjects; one message spends a budget for one instant.
CONSTANTS
  Conns = {c1, c2}
  Subjects = {alice, bob}
  MaxSessions = 2
  None = None
  Limit = 1
  Window = 1
  MaxTime = 1
SPECIFICATION FairSpec
INVARIANTS TypeOK BudgetHolds OwnSessionsOnly
PROPERTIES HandlerCleansUp WindowsSwept RefusedOnlyWhenSpent HandlerReturns
