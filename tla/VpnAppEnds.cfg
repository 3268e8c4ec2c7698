SPECIFICATION Spec
CONSTANTS
  t1 = t1
  t2 = t2
  Tunnels <- MCOneTunnel
  None = None
  Fd = {1, 2, 3}
  Kinds = {"ipref", "sock"}
  MaxConsents = 2
PROPERTIES
  EndIsShown
CHECK_DEADLOCK FALSE
