SPECIFICATION Spec
CONSTANTS
  Endpoint <- MCEndpoint
  Local <- MCLocal
  Answer <- MCAnswer
  Reply <- MCReply
  Data <- MCData
  Noise <- MCNoise
  Size = {3, 11, 64}
  MaxBytes = 2
  MaxPackets = 1
INVARIANTS
  TypeOK
  OpensInStep
  RequestNamesTarget
  DatagramsWhole
PROPERTIES
  StreamIsPipe
  DialReturns
CHECK_DEADLOCK FALSE
