------------------------- MODULE MCFlutterFavorites -------------------------
(* Instances of FlutterFavorites for TLC.                                  *)
EXTENDS FlutterFavorites, TLC

CONSTANTS tablet, phone, minsk, brest
OneDevice == {phone}
TwoDevices == {phone, tablet}
OneCity == {brest}
TwoCities == {minsk, brest}
Symmetry == Permutations(TwoDevices)
=============================================================================
