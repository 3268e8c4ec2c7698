SPECIFICATION FairSpec
CONSTANTS
  p1 = p1
  p2 = p2
  p3 = p3
  h1 = h1
  h2 = h2
  Proc <- MCProc
  Phone <- MCPhone
  None = None
  MaxFds = 2
  Backlog = 1
  MaxTun = 1
INVARIANTS
  OnlyMainAccepts
  AloneIsWell
PROPERTIES
  StartsAlone
  Served
