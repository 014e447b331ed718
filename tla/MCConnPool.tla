----------------------------- MODULE MCConnPool -----------------------------
(* The connection pool on small instances. *)
EXTENDS ConnPool, TLC

Symmetry == Permutations(Clients) \cup Permutations(Conns)

=============================================================================
