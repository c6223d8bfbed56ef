---------------------------- MODULE MCChangeControl ----------------------------
(***************************************************************************)
(* Small instances of ChangeControl for TLC.                               *)
(***************************************************************************)
EXTENDS ChangeControl, TLC

Symmetry == Permutations(Caller)
===============================================================================
