CONSTANTS
  SeqModulus = 16
  AbsModulus = 64
  MAX_PAYLOAD_SIZE = 2
  MAX_RETX_ATTEMPTS = 2
  LingerFactor = 2
  MaxWin = 8
  PipeCap = 1
  Connects = TRUE
  Bytes <- MCInbound
  RecvCapacity = 2
  SendCapacity = 2
  RtTimeout = 1
  Isn <- MCIsn
  MayReset = TRUE
  MayDestroy = FALSE
SPECIFICATION MCSpec
INVARIANTS
  ThrowsOnlyWhenReset
  OwnerReadsStream
  ThreadLeavesNothing
PROPERTY WaitReturns
