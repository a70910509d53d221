------------------------- MODULE MCRuntimeCommands -------------------------
(***************************************************************************)
(* RuntimeCommands on small instances.  Two epochs let one worker be fenced *)
(* while another serves; three commands let a worker hold one, defer one   *)
(* and be sent a third.                                                    *)
(***************************************************************************)
EXTENDS RuntimeCommands
=============================================================================
