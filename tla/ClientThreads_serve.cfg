\* Three connections for two places on the list; reloads and the exit.
SPECIFICATION FairSpec
CONSTANTS
  Clients = {k1, k2, k3}
  NoClient = NoClient
  maxNodes = 2
INVARIANTS
  TypeOK
  ListBound
  ListedWhileAlive
  SocketsAccounted
  NoLostSignal
  QuitIsQuiet
PROPERTIES
  ServedToTheEnd
  GateOpens
  AbortClientsEnds
