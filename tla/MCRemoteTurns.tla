--------------------------- MODULE MCRemoteTurns ---------------------------
(* Small instances of RemoteTurns for TLC. *)
EXTENDS RemoteTurns, TLC

Symmetry == Permutations(Replicas) \cup Permutations(Turns)
=============================================================================
