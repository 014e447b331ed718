\* A reload while clients wait.
SPECIFICATION FairSpec
CONSTANTS
  Clients = {t1, t2}
  Conns = {c1, c2}
  NoConn = NoConn
  maxConn = 1
  maxSendPerConn = 2
  maxNoop = 2
  Requests = {"reload"}
PROPERTIES
  DrainEnds

