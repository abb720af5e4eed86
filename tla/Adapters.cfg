CONSTANTS
  Kind = "ip"
  Clients <- ThreeClients
  Addresses = {"a1", "a2"}
  ServerPort = 80
  NoAddress = "0"
  MaxNet = 2
  Lossy = FALSE
SPECIFICATION MCSpec
INVARIANTS
  OneClient
  OthersServeOne
  ListensAsConnection
PROPERTY SomebodyIsServed
