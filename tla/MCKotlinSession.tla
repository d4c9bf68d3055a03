--------------------------- MODULE MCKotlinSession ---------------------------
(* Instances of KotlinSession for TLC.                                     *)
EXTENDS KotlinSession, TLC

CONSTANTS ann, bob
MCUsers == {ann, bob}
Symmetry == Permutations(MCUsers)
=============================================================================
