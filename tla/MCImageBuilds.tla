--------------------------- MODULE MCImageBuilds ---------------------------
(***************************************************************************)
(* Small instances of ImageBuilds for TLC: the default variant and one     *)
(* after it, and, as in the list of the script, one before it as well.     *)
(***************************************************************************)
EXTENDS ImageBuilds, TLC

ThreeVariants == <<"core", "min", "gemini">>
TwoVariants == <<"min", "gemini">>
JobSymmetry == Permutations(Jobs)
=============================================================================
