---------------------------- MODULE MCScheduler ----------------------------
(***************************************************************************)
(* Scheduler on a few replicas; which is which does not matter.            *)
(***************************************************************************)
EXTENDS Scheduler, TLC

Symmetry == Permutations(Replicas)
=============================================================================
