-------------------------------- MODULE MCQuota --------------------------------
(***************************************************************************)
(* Small instances of Quota for TLC.                                       *)
(***************************************************************************)
EXTENDS Quota, TLC

Symmetry == Permutations(Session)
================================================================================
