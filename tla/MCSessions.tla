----------------------------- MODULE MCSessions -----------------------------
(***************************************************************************)
(* Instances for TLC: one customer's session and one operator's.           *)
(***************************************************************************)
EXTENDS Sessions

CONSTANTS p1, o1, t1, t2
=============================================================================
