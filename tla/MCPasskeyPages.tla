--------------------------- MODULE MCPasskeyPages ---------------------------
(***************************************************************************)
(* A small instance of PasskeyPages for TLC.  The byte strings have the    *)
(* digits that base64 and base64url write differently, and all lengths     *)
(* modulo three.                                                           *)
(***************************************************************************)
EXTENDS PasskeyPages, TLC

MCCeremonies == {<<251>>, <<3, 239, 255>>}
MCFirst == {<<62, 191>>}

PageSymmetry ==
    Permutations(Browsers) \cup Permutations(Devices) \cup Permutations(Handlers)
=============================================================================
