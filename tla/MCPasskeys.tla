----------------------------- MODULE MCPasskeys -----------------------------
(***************************************************************************)
(* Small instances of Passkeys for TLC.                                    *)
(***************************************************************************)
EXTENDS Passkeys, TLC

\* Ceremonies and finish requests are interchangeable.
PasskeySymmetry == Permutations(Ceremonies) \cup Permutations(Handlers)
=============================================================================
