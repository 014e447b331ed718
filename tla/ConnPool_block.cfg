\* A reload against a client between the block check and tp->mtx.
SPECIFICATION Spec
CONSTANTS
  Clients = {t1, t2}
  Conns = {c1, c2}
  NoConn = NoConn
  maxConn = 1
  maxSendPerConn = 2
  maxNoop = 2
  Requests = {"reload"}
INVARIANT NoNewMailAfterBlock
