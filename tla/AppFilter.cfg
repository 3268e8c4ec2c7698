SPECIFICATION MCSpec
CONSTANTS
  own = own
  a = a
  b = b
  own1 = own1
  a1 = a1
  b1 = b1
  b2 = b2
  Pkg <- MCPkg
  Own = own
  Blank = blank
  Row <- MCRow
  PkgOf <- MCPkgOf
  MaxEditors = 2
  Entered <- MCEntered
INVARIANTS
  PrefixMeansNetmask
  OwnOutside
  FilterAsChosen
  SwitchesTruthful
PROPERTIES
  OkKeepsOthers
