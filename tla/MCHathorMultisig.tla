--------------------------- MODULE MCHathorMultisig ---------------------------
(* Two federators who must both sign, and a crossing each way.  Which input  *)
(* the wallet takes makes no difference.                                     *)
EXTENDS HathorMultisig, TLC
Symmetry == Permutations(Inputs)
=============================================================================
