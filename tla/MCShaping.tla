----------------------------- MODULE MCShaping -----------------------------
(***************************************************************************)
(* Instances for TLC.  .1 goes down in class 1:81, in which .80 goes up,   *)
(* and with mark 0x81, which is the mark of .129 for both ways; .8 goes up *)
(* with mark 0x8 and down with 0x88, and shares no number.                 *)
(***************************************************************************)
EXTENDS Shaping

CONSTANTS u1, u2, r1, r2, p1
=============================================================================
