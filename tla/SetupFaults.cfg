SPECIFICATION Spec
CONSTANTS
  s1 = s1
  s2 = s2
  r1 = r1
  Sessions = {s1, s2}
  Flags = {f1, f2}
  DefaultPort = p0
  Ports <- MCPorts
  Data = data
  None = None
  FreshFlags = TRUE
  Prompt = {}
  Faults = {"loss", "reorder", "dup", "crash", "net", "route", "accept"}
  MaxFlight = 2
  MaxQueue = 1
SYMMETRY MCSymmetry
INVARIANTS
  HandshakeAgreement
  PeerMatch
  DownlinkIsolated
  AppExitCause
PROPERTIES
  SetupIsRendezvous
CHECK_DEADLOCK FALSE
