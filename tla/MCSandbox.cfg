\* Two calls, both kinds of client, a daemon that may fail at anything.
CONSTANTS
  c1 = c1
  c2 = c2
  c3 = c3
  k1 = k1
  k2 = k2
  k3 = k3
  k4 = k4
  NoOne = NoOne
  Cleaner = Cleaner
  Calls <- TwoCalls
  Containers <- ThreeContainers
  Clients <- AnyClient
  Faults <- AllFaults
  MaxOutput = 2
  ChunkSizes <- Sizes
SPECIFICATION FairSpec
CONSTRAINT InOrder
INVARIANTS
  TypeOK
  IdleContainerUsable
  NoOrphanContainer
  OverrunIsStopped
  NoSilentTruncation
PROPERTIES
  NoForeignKill
  ImplementsService
  EveryCallReturns
