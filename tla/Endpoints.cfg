CONSTANTS
  SeqModulus = 24
  AbsModulus = 72
  MAX_PAYLOAD_SIZE = 2
  StreamLen = 4
  SendCapacity = 3
  Isn = 21
  InboundLen = 9
  Capacity = 7
  PeerIsn = 20
  InitialRTO = 1
  MaxRetx = 1
  Windows = {0, 1, 2, 3, 4}
SPECIFICATION MCSpec
INVARIANTS
  NumbersMatchStream
  OutstandingComplete
  TimerRunsWhileOutstanding
  BackoffMatchesRetries
  EndOfStream
  NextByteAccepted
  LoopsAgree
  UnwrapIsClosest
PROPERTIES
  PromiseRespected
  WindowNeverShrinks
  RefinesReassembler
