-------------------------- MODULE MCClientThreads --------------------------
(* The client threads on small instances. *)
EXTENDS ClientThreads, TLC

Symmetry == Permutations(Clients)

=============================================================================
