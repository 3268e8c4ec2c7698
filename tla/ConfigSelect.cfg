SPECIFICATION Spec
CONSTANTS
  g1 = g1
  g2 = g2
  g3 = g3
  c1 = c1
  c2 = c2
  Guid <- MCGuid
  Config <- MCConfig
  None = None
  MaxDialogs = 2
INVARIANTS
  SelectedStarts
