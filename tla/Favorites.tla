------------------------------ MODULE Favorites ------------------------------
(***************************************************************************)
(* What the favourites of an account promise: a set of cities to which     *)
(* users add cities, and from which they delete them, one at a time, no    *)
(* step touching any city but the one asked for.  This is the requirement  *)
(* "Users should be able to add objects to favorites and delete them from  *)
(* there" of the repository's README, for what the database holds.         *)
(***************************************************************************)
CONSTANT Cities
VARIABLE fav

Init == fav \in SUBSET Cities

AddCity(c) == fav' = fav \cup {c}

RemoveCity(c) == fav' = fav \ {c}

Next == \E c \in Cities : AddCity(c) \/ RemoveCity(c)

Spec == Init /\ [][Next]_fav
=============================================================================
