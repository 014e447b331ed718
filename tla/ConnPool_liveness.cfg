\* Two clients, one connection, no symmetry: progress of mails and connections.
SPECIFICATION FairSpec
CONSTANTS
  Clients = {t1, t2}
  Conns = {c1, c2}
  NoConn = NoConn
  maxConn = 1
  maxSendPerConn = 2
  maxNoop = 2
  Requests = {"reload", "quit"}
PROPERTIES
  EveryMailAnswered
  NoopConnLeaves
  AbortEnds

