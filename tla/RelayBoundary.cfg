SPECIFICATION Spec
CONSTANTS
  Byte = {1, 2, 3}
  Packet <- MCPacket
  WriteMax = 3
  MaxBytes = 3
PROPERTIES
  PacketBoundary
CHECK_DEADLOCK FALSE
