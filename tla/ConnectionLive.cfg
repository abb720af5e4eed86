CONSTANTS
  SeqModulus = 16
  AbsModulus = 64
  MAX_PAYLOAD_SIZE = 2
  MAX_RETX_ATTEMPTS = 3
  LingerFactor = 10
  MaxWin = 8
  Bytes <- MCBytes
  Openers = {"client", "server"}
  RecvCapacity = 1
  SendCapacity = 2
  RtTimeout = 1
  Isn <- MCIsn
  Faults = {"lose", "delay"}
  MaxFaults = 1
SPECIFICATION FairSpec
INVARIANTS
  OneLingers
PROPERTY StreamsDelivered
