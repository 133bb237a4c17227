---------------------------- MODULE MCRwEapConf ----------------------------
(***************************************************************************)
(* Instances for TLC: two identities, none a prefix of the other, and the  *)
(* writers that the .cfg names.                                            *)
(***************************************************************************)
EXTENDS RwEapConf

CONSTANTS i1, i2, p1, p2, l1, l2

Apart == [i \in {i1, i2} |-> {i}]
=============================================================================
