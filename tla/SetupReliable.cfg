SPECIFICATION FairSpec
CONSTANTS
  s1 = s1
  s2 = s2
  r1 = r1
  Sessions = {s1, s2}
  Flags = {f1, f2}
  DefaultPort = p0
  Ports <- MCPorts
  Data = data
  None = None
  FreshFlags = FALSE
  Prompt = {s1}
  Faults = {}
  MaxFlight = 2
  MaxQueue = 2
INVARIANTS
  RelayConnected
  OnlyOwnTraffic
PROPERTIES
  Establishes
CHECK_DEADLOCK FALSE
