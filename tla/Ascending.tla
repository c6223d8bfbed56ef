-------------------------------- MODULE Ascending ------------------------------
(***************************************************************************)
(* A finite set of numbers as a sequence.                                  *)
(***************************************************************************)
EXTENDS Naturals, FiniteSets

Increasing(s) == \A i, j \in DOMAIN s : i < j => s[i] < s[j]

\* The elements of S in ascending order.
Ascending(S) == CHOOSE s \in [1 .. Cardinality(S) -> S] : Increasing(s)
================================================================================
