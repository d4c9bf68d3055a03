----------------------------- MODULE MCStorage ------------------------------
(* Bounds of the run of Storage. *)
EXTENDS Storage

MCUsers == {<<1>>, <<1, 1>>, <<1, 3, 2>>, <<3, 1>>, <<3, 3>>}
MCValueSize == [t \in {1, 2} |-> IF t = 1 THEN 1 ELSE 20]
MCHash == [u \in MCUsers |-> (u[1] * 37 + u[Len(u)] * 91 + Len(u) * 13) % 256]

\* Two shards; keys 2 and 3 have the same hash, and 1 and 4 share a bucket until
\* there are eight.
MCTableHash == [key \in 1..6 |-> <<0, 2, 2, 4, 7, 10>>[key]]

MCNumbers == {Absent, 9, 10, 499}
MCStrings == {<<>>, <<1>>, <<12, 0, 1>>}

\* Two tables, of which one or both are damaged, and a log or none; or one that
\* is whole and two logs, one of them empty.
MCFile(k, n, e, s) ==
  [kind |-> k, number |-> n, entries |-> e, sound |-> s]
MCDirectories ==
  {{MCFile("table", 1, {1, 2}, FALSE), MCFile("table", 2, {3}, TRUE), MCFile("log", 3, {4}, TRUE)},
   {MCFile("table", 1, {1, 2}, FALSE), MCFile("table", 2, {3}, FALSE)},
   {MCFile("table", 1, {1, 2}, TRUE), MCFile("log", 2, {3}, TRUE), MCFile("log", 3, {}, TRUE)}}
\* Two entries fill level 1, three level 2.
MCMaxBytesForLevel == [l \in 1..(NumLevels - 2) |-> l + 1]

\* All keys (null, null), or one key.
AllOrOne == {<<0, MaxKey + 1>>, <<1, 1>>}

Budget(w, d, s, k, m) ==
  [writes |-> w, deletions |-> d, snapshots |-> s, seeks |-> k, manuals |-> m]
\* Three writes with all but one kind of the other steps, four and five with less.
ShortAndLong == {Budget(3, 1, 1, 1, 0), Budget(3, 1, 1, 0, 1), Budget(3, 1, 0, 1, 1),
                 Budget(4, 1, 1, 0, 0), Budget(4, 0, 0, 0, 1), Budget(5, 0, 0, 0, 0)}
=============================================================================
