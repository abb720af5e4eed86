CONSTANTS
  SeqModulus = 16
  AbsModulus = 64
  MAX_PAYLOAD_SIZE = 2
  MAX_RETX_ATTEMPTS = 2
  LingerFactor = 2
  MaxWin = 8
  Bytes <- MCBytes
  Openers = {"client", "server"}
  RecvCapacity = 2
  SendCapacity = 2
  RtTimeout = 1
  Isn <- MCIsn
  Faults = {"lose", "delay", "duplicate"}
  MaxFaults = 1
SPECIFICATION LateSpec
INVARIANTS
  AcksAreEarned
  StreamsArriveInOrder
PROPERTIES
  ClosedIsQuiet
  MovesAreOfficial
