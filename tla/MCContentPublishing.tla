------------------------ MODULE MCContentPublishing ------------------------
(* Constants for model-checking ContentPublishing. *)
EXTENDS ContentPublishing, TLC
MCSymmetry == Permutations(Editors)
=============================================================================
