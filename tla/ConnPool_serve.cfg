\* Two clients, two connections, three names for them; reloads and the exit.
SPECIFICATION Spec
CONSTANTS
  Clients = {t1, t2}
  Conns = {c1, c2, c3}
  NoConn = NoConn
  maxConn = 2
  maxSendPerConn = 2
  maxNoop = 2
  Requests = {"reload", "quit"}
SYMMETRY Symmetry
INVARIANTS
  TypeOK
  PoolBound
  OneDialogue
  ListsMatchStatus
  WaitingIsExact
  NoLostWakeup
PROPERTY ImplementsLeasedPool
