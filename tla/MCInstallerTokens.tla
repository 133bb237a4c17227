-------------------------- MODULE MCInstallerTokens --------------------------
(***************************************************************************)
(* Instances for TLC: two links and two threads.                           *)
(***************************************************************************)
EXTENDS InstallerTokens, TLC

CONSTANTS k1, k2, t1, t2

Symmetry == Permutations({k1, k2}) \cup Permutations({t1, t2})
=============================================================================
