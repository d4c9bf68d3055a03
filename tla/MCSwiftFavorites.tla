-------------------------- MODULE MCSwiftFavorites --------------------------
(* Instances of SwiftFavorites for TLC. *)
EXTENDS SwiftFavorites, TLC

CONSTANTS minsk, brest, null

\* An account with the list of a new one, with a favourite, without "null".
MCInitialLists == {<<null>>, <<null, brest>>, <<brest>>}

Symmetry == Permutations(Devices)
=============================================================================
