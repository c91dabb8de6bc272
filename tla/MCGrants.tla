------------------------------ MODULE MCGrants ------------------------------
(***************************************************************************)
(* Small instances of Grants for TLC.                                      *)
(***************************************************************************)
EXTENDS Grants, TLC

\* The requests are interchangeable in the safety run.
TagSymmetry == Permutations(Tags)
=============================================================================
