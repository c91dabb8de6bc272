---------------------------- MODULE MCAppliance ----------------------------
(***************************************************************************)
(* Small instances of Appliance for TLC.                                   *)
(***************************************************************************)
EXTENDS Appliance, TLC

OperatorSymmetry == Permutations(Operators)
=============================================================================
