CONSTANTS
  SeqModulus = 16
  AbsModulus = 64
  MAX_PAYLOAD_SIZE = 2
  StreamLen = 4
  SendCapacity = 3
  Isn = 13
  InitialRTO = 1
  MaxRetx = 1
  Windows = {0, 1, 3}
SPECIFICATION Spec
PROPERTY WindowRespected
