SPECIFICATION SafetySpec
CONSTANTS
  t1 = t1
  t2 = t2
  Tunnels <- MCTunnels
  None = None
  Fd = {1, 2, 3, 4, 5, 6}
  Kinds = {"ipref", "sock"}
  MaxConsents = 1
SYMMETRY MCSymmetry
CONSTRAINT NoRaceYet
INVARIANTS
  StatusAgrees
  NoPhantom
  NoHidden
  DescriptorsIntact
CHECK_DEADLOCK FALSE
