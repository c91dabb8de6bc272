--------------------------- MODULE MCAdminConsole ---------------------------
(***************************************************************************)
(* Small instances of AdminConsole for TLC.                                *)
(***************************************************************************)
EXTENDS AdminConsole, TLC

\* Tokens and requests are interchangeable.
ConsoleSymmetry == Permutations(Cookies) \cup Permutations(Handlers)
=============================================================================
