--------------------------- MODULE MCAuthLimiter ---------------------------
(***************************************************************************)
(* Small instances of AuthLimiter for TLC.                                 *)
(***************************************************************************)
EXTENDS AuthLimiter, TLC

\* Clients and handlers are interchangeable in the safety run.
LimiterSymmetry == Permutations(Clients) \cup Permutations(Handlers)
=============================================================================
