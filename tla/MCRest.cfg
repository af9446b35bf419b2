\* Anonymous and authenticated clients, their cookies and their sessions.
CONSTANTS
  Unset = Unset
  Empty = Empty
  Absent = Absent
  NoGraph = NoGraph
  Assistant = Assistant
  ProviderPrefixed = {}
  Gemini2 = {}
  c1 = c1
  c2 = c2
  Clients = {c1, c2}
  Requests <- ThreeRequests
  Subjects = {alice, bob}
  Tokens = {t1, t2, t3}
  Shared = Shared
  Servers <- AllServers
  NoCookie = NoCookie
  Malformed = Malformed
  NoToken = NoToken
  BadToken = BadToken
  Blank = Blank
  NoObject = NoObject
  NoOne = NoOne
  Free = Free
SYMMETRY Symmetry
SPECIFICATION RestSpec
INVARIANTS RestTypeOK SessionsStayApart SessionsStayReachable ProductionAuthenticates
