---------------------------- MODULE MCTransports ----------------------------
(* Files with one section or two, whole, mixed up and wrong, for TLC. *)
EXTENDS Transports

Entry(s, i, v) == [section |-> s, item |-> i, value |-> v]
Whole(s, n) == <<Entry(s, "host", "good"), Entry(s, "ssl", "good"), Entry(s, "maxConn", n)>>

MCFiles == {
  Whole("a", 1),
  \* b comes between the items of a, and an item comes twice
  <<Entry("a", "host", "good"), Entry("b", "ssl", "bad")>> \o Whole("b", 1)
    \o <<Entry("a", "maxConn", 1), Entry("a", "ssl", "good"), Entry("a", "number", 0)>>,
  Whole("b", 0),
  <<Entry("a", "ssl", "good"), Entry("a", "maxConn", 1)>>,
  <<Entry("a", "ssl", "bad"), Entry("a", "host", "good"), Entry("a", "maxConn", 1)>>,
  <<Entry("a", "unknown", "good")>> \o Whole("a", 1) }

MCItemLen == [s \in {"a", "b"} |-> IF s = "a" THEN 1 ELSE 3]

=============================================================================
