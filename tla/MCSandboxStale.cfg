\* A healthy daemon; a call waits for the lock while another times out.
CONSTANTS
  c1 = c1
  c2 = c2
  c3 = c3
  k1 = k1
  k2 = k2
  k3 = k3
  k4 = k4
  NoOne = NoOne
  Cleaner = Cleaner
  Calls <- TwoCalls
  Containers <- ThreeContainers
  Clients <- AnyClient
  Faults <- NoFaults
  MaxOutput = 1
  ChunkSizes <- OneByte
SPECIFICATION Spec
INVARIANT UsableAfterTimeout
