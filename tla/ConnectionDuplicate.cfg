CONSTANTS
  SeqModulus = 32
  AbsModulus = 64
  MAX_PAYLOAD_SIZE = 2
  MAX_RETX_ATTEMPTS = 2
  LingerFactor = 2
  MaxWin = 8
  Bytes <- MCBytes5
  Openers = {"client"}
  RecvCapacity = 3
  SendCapacity = 5
  RtTimeout = 1
  Isn <- MCIsn
  Faults = {"duplicate"}
  MaxFaults = 1
SPECIFICATION FairSpec
PROPERTY StreamsDelivered
