SPECIFICATION Spec
CONSTANTS
  Byte = {1, 2, 3}
  Packet <- MCPacket
  WriteMax = 2
  MaxBytes = 3
INVARIANTS
  Conserved
  NoStranded
PROPERTIES
  UplinkIsPipe
  DownlinkIsPipe
  Drains
CHECK_DEADLOCK FALSE
