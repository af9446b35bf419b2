\* A streaming client and code that never ends.
CONSTANTS
  c1 = c1
  c2 = c2
  c3 = c3
  k1 = k1
  k2 = k2
  k3 = k3
  k4 = k4
  NoOne = NoOne
  Cleaner = Cleaner
  Calls <- TwoCalls
  Containers <- ThreeContainers
  Clients <- StreamingClient
  Faults <- NoFaults
  MaxOutput = 1
  ChunkSizes <- OneByte
SPECIFICATION FairSpec
PROPERTY WallClockTimeout
