------------------------------- MODULE Cursor -------------------------------
(* What leveldb promises of an iterator (include/leveldb/iterator.h): it    *)
(* stands on one of the pairs it shows or nowhere, and each call moves it   *)
(* over them in the order of their keys.                                    *)
EXTENDS Naturals

CONSTANTS Targets,   \* keys that are looked for
          Nowhere    \* not a pair
VARIABLES shown,     \* the pairs <<key, value>>, one of each key
          at,        \* the pair it stands on, or Nowhere
          call       \* the call under way, <<"none", 0>> when there is none

Lowest(S) == IF S = {} THEN Nowhere ELSE CHOOSE p \in S : \A q \in S : p[1] <= q[1]
Highest(S) == IF S = {} THEN Nowhere ELSE CHOOSE p \in S : \A q \in S : q[1] <= p[1]

Init == at = Nowhere /\ call = <<"none", 0>>

Ask(c) ==
  /\ call = <<"none", 0>>
  /\ c[1] \in {"next", "prev"} => at # Nowhere
  /\ call' = c /\ UNCHANGED <<shown, at>>
Answer ==
  /\ call # <<"none", 0>>
  /\ at' = CASE call[1] = "first" -> Lowest(shown)
             [] call[1] = "last" -> Highest(shown)
             [] call[1] = "seek" -> Lowest({p \in shown : p[1] >= call[2]})
             [] call[1] = "next" -> Lowest({p \in shown : p[1] > at[1]})
             [] call[1] = "prev" -> Highest({p \in shown : p[1] < at[1]})
  /\ call' = <<"none", 0>> /\ UNCHANGED shown

Calls == ({"first", "last", "next", "prev"} \X {0}) \cup ({"seek"} \X Targets)
Spec == Init /\ [][Answer \/ \E c \in Calls : Ask(c)]_<<shown, at, call>>
=============================================================================
