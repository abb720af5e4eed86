CONSTANTS
  TTL = 1
  ARPTTL = 0
  NoMac = NoMac
  Broadcast = Broadcast
  Neighbours = {n1, n2}
  MyMac = MyMac
  MyIp = MyIp
  MaxDatagrams = 2
  MaxTime = 3
  MaxLosses = 1
  MaxStray = 1
  Octets = {64, 192}
  Lengths = {0, 1, 17, 24, 32}
  MaxRoutes = 2
  MaxRounds = 8
  MaxSent = 3
  MaxSegments = 3
  LinkTTL = 2
  LinkARPTTL = 1
  LinkTime = 3
SPECIFICATION MCSpec
INVARIANTS
  InOrderOnce
  WaitsOnlyForAnswer
  FreshAddress
  
  NetworkDelivers
  SegmentsArrive
PROPERTY RequestsSpaced
SYMMETRY NeighbourSymmetry
CHECK_DEADLOCK FALSE
