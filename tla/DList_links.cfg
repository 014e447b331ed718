CONSTANTS
  Lists = {busy, idle, noop}
  Nodes = {n1, n2, n3, n4}
  Data = {c1, c2, c3, c4}
  NULL = NULL
SPECIFICATION Spec
INVARIANTS
  WellLinked
  NoDangling
