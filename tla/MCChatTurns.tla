---------------------------- MODULE MCChatTurns ----------------------------
(***************************************************************************)
(* ChatTurns for a few requests; which is which does not matter.           *)
(***************************************************************************)
EXTENDS ChatTurns

Symmetry == Permutations(Turns)
=============================================================================
