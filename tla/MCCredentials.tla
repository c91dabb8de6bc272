--------------------------- MODULE MCCredentials ---------------------------
(***************************************************************************)
(* A small instance of Credentials for TLC.                                *)
(***************************************************************************)
EXTENDS Credentials, TLC

BakeSymmetry == Permutations(Bakes) \cup Permutations(Hosts)
=============================================================================
