---- MODULE MCVersionSet ----
(* An instance of VersionSet for TLC, with the constants of db/dbformat.h and *)
(* the ratios of sizes of version_set.cc; a file is full with two entries.  *)
EXTENDS VersionSet, Integers, TLC

\* MaxBytesForLevel: level 1 holds five full files, each level ten times more.
TenTimesMore == [l \in 1..(NumLevels - 2) |-> 10 ^ l]

Budget(w, d, s, k, m) ==
  [writes |-> w, deletions |-> d, snapshots |-> s, seeks |-> k, manuals |-> m]
FourAndADeletion == {Budget(4, 1, 1, 0, 2)}
All == {<<0, MaxKey + 1>>}
=============================================================================
