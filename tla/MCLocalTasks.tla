---------------------------- MODULE MCLocalTasks ----------------------------
(***************************************************************************)
(* LocalTasks for TLC: two or three instructions, one or two calls.        *)
(***************************************************************************)
EXTENDS LocalTasks, TLC

CONSTANTS i1, i2, i3, c1, c2

MCSymmetry == Permutations(Items) \cup Permutations(Callers)
=============================================================================
