---------------------------- MODULE MCRegistryGC ----------------------------
(***************************************************************************)
(* Small instances of RegistryGC for TLC.                                  *)
(***************************************************************************)
EXTENDS RegistryGC
=============================================================================
