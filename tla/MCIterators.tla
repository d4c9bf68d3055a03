---------------------------- MODULE MCIterators ----------------------------
(* Entries of two of three users, values and deletions, the newest of them  *)
(* in the memtable and the rest in a table of one or two blocks, and        *)
(* snapshots that cover all of them or not the last.                        *)
EXTENDS Iterators

Entry(u, q, t) == [user |-> u, seq |-> q, type |-> t]
Types == {"value", "deletion"}
Contents ==
  {{Entry(1, 1, "value"), Entry(a, 2, t), Entry(b, 3, o)} : a, b \in {1, 3}, t, o \in Types}
\* The index key of a block is its last entry, or a shorter key that is less
\* than the next one's user (Comparator::FindShortestSeparator).
Block(S, limit) ==
  {[last |-> k, entries |-> S] :
     k \in {Last(S)} \cup {Entry(u, MaxSequence, "value") : u \in (Last(S).user + 1)..(limit - 1)}}
Tables(S) ==
  IF S = {} THEN {<<>>}
  ELSE {<<b>> : b \in Block(S, 5)} \cup
       UNION {LET front == {e \in S : ~Less(x, e)}
                  rest == {e \in S : Less(x, e)}
              IN  {<<b, c>> : b \in Block(front, First(rest).user), c \in Block(rest, 5)} :
              x \in S \ {Last(S)}}
AllDatabases ==
  UNION {UNION {{[mem |-> M, blocks |-> T, sequence |-> q] : T \in Tables(S \ M), q \in {2, 3}} :
                M \in {{e \in S : e.seq > n} : n \in 0..3}} : S \in Contents}
============================================================================
