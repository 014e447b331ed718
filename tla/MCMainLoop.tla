---------------------------- MODULE MCMainLoop ----------------------------
(* The accept loop on small instances. *)
EXTENDS MainLoop, TLC

Symmetry == Permutations(Peers)

=============================================================================
