------------------------- MODULE MCKotlinFavorites -------------------------
(* Instances of KotlinFavorites for TLC.                                   *)
EXTENDS KotlinFavorites, TLC

CONSTANTS phone, tablet, minsk, brest, NULL
MCDevices == {phone, tablet}
MCCities == {minsk, brest}
MCLists == {<<NULL, brest>>}
Symmetry == Permutations(MCDevices)
=============================================================================
