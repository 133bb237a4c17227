------------------------- MODULE MCCustomerLifecycle -------------------------
(***************************************************************************)
(* Instances for TLC: one or two customers, two request threads, which may *)
(* change places where no liveness is checked.                             *)
(***************************************************************************)
EXTENDS CustomerLifecycle, TLC

CONSTANTS c1, c2, r1, r2

Threads == Permutations({r1, r2})
=============================================================================
