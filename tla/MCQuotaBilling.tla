--------------------------- MODULE MCQuotaBilling ---------------------------
(***************************************************************************)
(* Instance for TLC: a regular customer and an operator who may be handed  *)
(* the same VIP one after the other.                                       *)
(***************************************************************************)
EXTENDS QuotaBilling

CONSTANTS alice, op, v1
=============================================================================
