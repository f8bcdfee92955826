------------------------------- MODULE MCNames -------------------------------
(***************************************************************************)
(* Names for TLC: the identifiers may be permuted.                         *)
(***************************************************************************)
EXTENDS Names, TLC

Symmetry == Permutations(Name)
=============================================================================
