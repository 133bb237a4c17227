---------------------------- MODULE MCTempBlocks ----------------------------
(***************************************************************************)
(* Instances for TLC: two users who may share an address, two processes.   *)
(***************************************************************************)
EXTENDS TempBlocks

CONSTANTS u1, u2, a1, a2, w1, w2
=============================================================================
