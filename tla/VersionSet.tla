----------------------------- MODULE VersionSet -----------------------------
(* The levels of a leveldb database (leveldb-library/db/version_set.cc) and *)
(* the compactions that rewrite them (db/db_impl.cc): which files a         *)
(* compaction takes, which entries it keeps, where a flushed memtable goes, *)
(* and where a read looks.  A level is the set of its files, in the order   *)
(* of BySmallestKey where the code depends on an order.  A file is the set  *)
(* of its entries; its size is their number.  Logs, errors and crashes are  *)
(* in DBImpl.                                                               *)
EXTENDS Naturals, FiniteSets, SequencesExt

CONSTANTS MaxKey,                  \* user keys are 1..MaxKey
          Clients,                 \* holders of snapshots, one each
          NumLevels,               \* config::kNumLevels
          L0_CompactionTrigger,    \* config::kL0_CompactionTrigger
          MaxMemCompactLevel,      \* config::kMaxMemCompactLevel
          TargetFileSize,          \* Options::max_file_size
          MaxGrandParentOverlap,   \* 10 * TargetFileSize in the code
          ExpandedCompactionLimit, \* 25 * TargetFileSize in the code
          MaxBytesForLevel,        \* [1..NumLevels-2 -> size], 10 MB * 10^i there
          MaxWrites,               \* bound on the writes
          Ranges,                  \* the <<begin, end>> CompactRange is called with
          Budgets,                 \* bounds: how often a run may write, delete, ...
          BusyManual               \* may a memtable fill during a manual compaction

\* What the constants must be; Storage assumes it.
VersionSetConstants ==
  /\ {MaxKey, NumLevels, L0_CompactionTrigger, TargetFileSize} \subseteq Nat \ {0}
  /\ NumLevels > 2 /\ MaxMemCompactLevel \in 0..(NumLevels - 2)
  /\ MaxBytesForLevel \in [1..(NumLevels - 2) -> Nat \ {0}]
  /\ {MaxWrites, MaxGrandParentOverlap, ExpandedCompactionLimit} \subseteq Nat
  /\ Ranges \subseteq {r \in (0..(MaxKey + 1)) \X (0..(MaxKey + 1)) : r[1] <= r[2]}
  /\ Budgets \subseteq [writes : 0..MaxWrites, deletions : Nat, snapshots : Nat,
                         seeks : Nat, manuals : Nat]
  /\ BusyManual \in BOOLEAN

VARIABLES written,         \* all writes so far: <<key, type>>, for the properties
          mem, imm,        \* entries of mem_; <<entries of imm_>>, or <<>>
          files,           \* current_->files_[level]
          fileToCompact,   \* current_->file_to_compact_ as <<level, file>>, or <<>>
          compactPointer,  \* compact_pointer_[level] as <<key>>, or <<>>
          nextFileNumber,
          snapshot,        \* the sequence number each client's snapshot holds
          compaction,      \* the compaction whose merge is running, or None
          manual,          \* the call of CompactRange under way, or None
          budget,          \* what is left of the bounds
          parted           \* history: a merge took a file of the level it writes
                           \* to, and not the file that goes on with its last key

vars == <<written, mem, imm, files, fileToCompact, compactPointer,
          nextFileNumber, snapshot, compaction, manual, budget, parted>>

Levels == 0..(NumLevels - 1)
UserKeys == 1..MaxKey
None == [level |-> NumLevels, phase |-> "none"]
NoSnapshot == MaxWrites + 1
lastSequence == Len(written)  \* versions_->last_sequence_
kMaxSequenceNumber == MaxWrites + 1

----------------------------------------------------------------------------
\* Keys, files, levels.

\* The order of internal keys: by user key, newest first.
Less(a, b) == a.user < b.user \/ (a.user = b.user /\ a.seq > b.seq)
AtMost(a, b) == ~Less(b, a)

\* A set of keys or of files in increasing order.
InOrder(S, Before(_, _)) ==
  [i \in 1..Cardinality(S) |->
     CHOOSE x \in S : Cardinality({y \in S : Before(y, x)}) = i - 1]
Smallest(f) == CHOOSE e \in f.entries : \A o \in f.entries : AtMost(e, o)
Largest(f) == CHOOSE e \in f.entries : \A o \in f.entries : AtMost(o, e)
BySmallestKey(f, g) ==
  \/ Less(Smallest(f), Smallest(g))
  \/ Smallest(f) = Smallest(g) /\ f.number < g.number
NewestFirst(f, g) == f.number > g.number

\* No entry is in two files.
TotalFileSize(F) == Cardinality(UNION {f.entries : f \in F})

\* The file whose range may hold the key: the first one that ends at or
\* after it.  (The binary search finds it when the files do not overlap.)
FindFile(F, key) ==
  LET at == {f \in F : AtMost(key, Largest(f))}
  IN  {f \in at : \A g \in at : AtMost(Largest(f), Largest(g))}

\* User key ranges; 0 and MaxKey + 1 stand for the null ends.
AfterFile(key, f) == key > Largest(f).user
BeforeFile(key, f) == key < Smallest(f).user
Overlaps(f, lo, hi) == ~AfterFile(lo, f) /\ ~BeforeFile(hi, f)
SomeFileOverlapsRange(disjoint, F, lo, hi) ==
  IF disjoint
  THEN \E f \in FindFile(F, [user |-> lo, seq |-> kMaxSequenceNumber]) :
         ~BeforeFile(hi, f)
  ELSE \E f \in F : Overlaps(f, lo, hi)
OverlapInLevel(v, level, lo, hi) == SomeFileOverlapsRange(level > 0, v[level], lo, hi)

\* Files of the level that overlap the range.  A file of level 0 that sticks
\* out widens the range, and the search starts again.
InRange(F, r) == {f \in F : Overlaps(f, r[1], r[2])}
Widened(F, r) == <<Min({r[1]} \cup {Smallest(f).user : f \in F}),
                   Max({r[2]} \cup {Largest(f).user : f \in F})>>
GetOverlappingInputs(v, level, lo, hi) ==
  LET range[i \in 0..Cardinality(v[level])] ==
        IF i = 0 \/ level > 0 THEN <<lo, hi>>
        ELSE Widened(InRange(v[level], range[i - 1]), range[i - 1])
  IN  InRange(v[level], range[Cardinality(v[level])])

\* The smallest and the largest key of a set of files (GetRange, GetRange2).
GetRange(F) ==
  LET all == [number |-> 0, entries |-> UNION {f.entries : f \in F}]
  IN  <<Smallest(all), Largest(all)>>

\* Applying an edit to a version: VersionSet::Builder's Apply and SaveTo.
Apply(v, deleted, added) ==
  [l \in Levels |->
     LET new == {x[2] : x \in {y \in added : y[1] = l}}
         gone == {x[2] : x \in {y \in deleted : y[1] = l}} \ {f.number : f \in new}
     IN  {f \in v[l] : f.number \notin gone} \cup new]
----------------------------------------------------------------------------
\* Reading.

\* The newest entry of the key that the snapshot covers, in one table.
Visible(entries, k, snap) ==
  LET E == {e \in entries : e.user = k /\ e.seq <= snap}
  IN  {e \in E : \A o \in E : o.seq <= e.seq}

\* The files a read of the key looks at, in order: level 0 from the newest
\* file to the oldest, then at most one file of each level.
ForEachOverlapping(v, k, snap) ==
  LET level0 == InOrder({f \in v[0] : Overlaps(f, k, k)}, NewestFirst)
      At(l) == {f \in FindFile(v[l], [user |-> k, seq |-> snap]) : ~BeforeFile(k, f)}
      below == InOrder({l \in Levels \ {0} : At(l) # {}}, <)
  IN  [i \in DOMAIN level0 |-> <<0, level0[i]>>]
        \o [i \in DOMAIN below |-> <<below[i], CHOOSE f \in At(below[i]) : TRUE>>]

\* Version::Get: the answer of the first of these files that has one.
GetFromFiles(v, k, snap) ==
  LET probes == ForEachOverlapping(v, k, snap)
      Answer(i) == Visible(probes[i][2].entries, k, snap)
      hits == {i \in DOMAIN probes : Answer(i) # {}}
  IN  IF hits = {} THEN {} ELSE Answer(Min(hits))

\* DBImpl::Get: memtable, immutable memtable, files.
Get(k, snap) ==
  LET inMem == Visible(mem, k, snap)
      inImm == IF imm = <<>> THEN {} ELSE Visible(imm[1], k, snap)
      found == IF inMem # {} THEN inMem
               ELSE IF inImm # {} THEN inImm
               ELSE GetFromFiles(files, k, snap)
  IN  IF \E e \in found : e.type = "value" THEN (CHOOSE e \in found : TRUE).seq ELSE 0

\* What the tables hold before the key (table.cc finds the offset in a table).
\* Above level 0 the search leaves a level at the first file after the key.
BeforeKey(f, key) == IF AtMost(Largest(f), key) THEN f.entries ELSE {e \in f.entries : Less(e, key)}
ApproximateOffsetOf(v, key) ==
  LET Left(l) == {f \in v[l] : l > 0 /\ \E g \in v[l] \ {f} : /\ Less(key, Smallest(g))
                                                             /\ BySmallestKey(g, f)}
  IN  Cardinality(UNION {UNION {BeforeKey(f, key) : f \in v[l] \ Left(l)} : l \in Levels})
GetApproximateSizes(lo, hi) ==
  LET Offset(k) == ApproximateOffsetOf(files, [user |-> k, seq |-> kMaxSequenceNumber])
      start == Offset(lo)
      limit == Offset(hi)
  IN  IF limit >= start THEN limit - start ELSE 0
----------------------------------------------------------------------------
\* Choosing what to compact.

Score(v, level) == IF level = 0 THEN <<Cardinality(v[0]), L0_CompactionTrigger>>
                   ELSE <<TotalFileSize(v[level]), MaxBytesForLevel[level]>>
Higher(a, b) == a[1] * b[2] > b[1] * a[2]

\* Finalize: the lowest of the levels with the highest score.
CompactionLevel(v) ==
  CHOOSE l \in 0..(NumLevels - 2) :
    /\ \A m \in 0..(NumLevels - 2) : ~Higher(Score(v, m), Score(v, l))
    /\ \A m \in 0..(l - 1) : Higher(Score(v, l), Score(v, m))
CompactionScoreAtLeast1(v) ==
  \E l \in 0..(NumLevels - 2) : Score(v, l)[1] >= Score(v, l)[2]
NeedsCompaction == CompactionScoreAtLeast1(files) \/ fileToCompact # <<>>

\* Where a flushed memtable goes.
PickLevelForMemTableOutput(v, lo, hi) ==
  LET Allowed(l) == \* one more step, from l to l + 1
        /\ ~OverlapInLevel(v, l + 1, lo, hi)
        /\ l + 2 < NumLevels =>
             TotalFileSize(GetOverlappingInputs(v, l + 2, lo, hi)) <= MaxGrandParentOverlap
  IN  IF OverlapInLevel(v, 0, lo, hi) THEN 0
      ELSE Max({l \in 0..MaxMemCompactLevel : \A m \in 0..(l - 1) : Allowed(m)})

\* Files of the level that go on with the user key at which the others end.
FindSmallestBoundaryFile(F, key) ==
  LET after == {f \in F : Less(key, Smallest(f)) /\ Smallest(f).user = key.user}
  IN  {f \in after : \A g \in after : AtMost(Smallest(f), Smallest(g))}

\* Mutant: a user key may be split between levels.
NoBoundaryInputs(F, inputs) == inputs

FindLargestKey(F) == GetRange(F)[2]
AddBoundaryInputs(F, inputs) ==
  LET more[i \in 0..Cardinality(F)] ==
        IF i = 0 \/ inputs = {} THEN inputs
        ELSE LET so == more[i - 1]
             IN  so \cup FindSmallestBoundaryFile(F, FindLargestKey(so))
  IN  more[Cardinality(F)]

\* The files of a compaction of inputs at the level, and its new pointer:
\* more files of the level are taken when that takes none of the next one.
Within(v, level, r) == GetOverlappingInputs(v, level, r[1].user, r[2].user)
NextInputs(v, level, in0) == Within(v, level + 1, GetRange(in0))
MayGrow(in0, in1, wide0, wide1) ==
  /\ in1 # {}
  /\ Cardinality(wide0) > Cardinality(in0)
  /\ TotalFileSize(in1) + TotalFileSize(wide0) < ExpandedCompactionLimit
  /\ Cardinality(wide1) = Cardinality(in1)
Grown(v, level, in0, in1, wide0) ==
  IF MayGrow(in0, in1, wide0, NextInputs(v, level, wide0)) THEN wide0 ELSE in0
GrownOver(v, level, in0, in1) ==
  Grown(v, level, in0, in1,
        AddBoundaryInputs(v[level], Within(v, level, GetRange(in0 \cup in1))))
CompactionOf(v, level, in0, in1) ==
  [level |-> level, inputs0 |-> in0, inputs1 |-> in1,
   grandparents |-> IF level + 2 < NumLevels
                    THEN Within(v, level + 2, GetRange(in0 \cup in1)) ELSE {},
   pointer |-> GetRange(in0)[2]]
SetupFrom(v, level, in0) == CompactionOf(v, level, in0, NextInputs(v, level, in0))
SetupWithBoundary(v, level, in0) ==
  SetupFrom(v, level, GrownOver(v, level, in0, NextInputs(v, level, in0)))
SetupOtherInputs(v, level, inputs) ==
  SetupWithBoundary(v, level, AddBoundaryInputs(v[level], inputs))

\* PickCompaction: by size before by seeks; in a level, the first file after
\* the pointer of the last compaction, or the first one.
PickCompaction ==
  LET bySize == CompactionScoreAtLeast1(files)
      level == IF bySize THEN CompactionLevel(files) ELSE fileToCompact[1]
      order == InOrder(files[level], BySmallestKey)
      next == {i \in DOMAIN order : compactPointer[level] = <<>>
                                    \/ Less(compactPointer[level][1], Largest(order[i]))}
      first == IF ~bySize THEN fileToCompact[2]
               ELSE IF next = {} THEN order[1] ELSE order[Min(next)]
      range == GetRange({first})
  IN  SetupOtherInputs(files, level,
        IF level = 0 THEN GetOverlappingInputs(files, 0, range[1].user, range[2].user)
        ELSE {first})

\* CompactRange: the files of the range, above level 0 no more of them than
\* needed to reach the size of one file.
CompactRangeInputs(v, level, lo, hi) ==
  LET order == InOrder(GetOverlappingInputs(v, level, lo, hi), BySmallestKey)
      Upto(n) == {order[i] : i \in 1..n}
      enough == {n \in DOMAIN order : TotalFileSize(Upto(n)) >= TargetFileSize}
  IN  IF level > 0 /\ enough # {} THEN Upto(Min(enough)) ELSE Upto(Len(order))

IsTrivialMove(c) ==
  /\ Cardinality(c.inputs0) = 1 /\ c.inputs1 = {}
  /\ TotalFileSize(c.grandparents) <= MaxGrandParentOverlap
----------------------------------------------------------------------------
\* The merge.

\* No file below the level of the output can hold the key.
IsBaseLevelForKey(v, c, k) ==
  \A l \in Levels : l >= c.level + 2 => ~\E f \in v[l] : Overlaps(f, k, k)

\* ShouldStopBefore: the bytes of grandparents the current output has passed.
PassedGrandparents(c, st, key) ==
  {g \in c.grandparents : Less(Largest(g), key)} \ st.passed
OverlappedBytes(c, st, key) ==
  st.overlapped + (IF st.seen THEN TotalFileSize(PassedGrandparents(c, st, key)) ELSE 0)

\* Mutant: a compaction forgets snapshots.
NewestOnly == lastSequence

\* One turn of the loop of DoCompactionWork: close the output before this
\* key if it must be, drop the entry or add it, close a full output.
SmallestSnapshot ==
  Min({lastSequence} \cup {snapshot[x] : x \in {y \in Clients : snapshot[y] # NoSnapshot}})
Drop(v, c, st, e) ==
  LET last == IF e.user = st.user THEN st.last ELSE kMaxSequenceNumber
  IN  \/ last <= SmallestSnapshot
      \/ e.type = "deletion" /\ e.seq <= SmallestSnapshot /\ IsBaseLevelForKey(v, c, e.user)
Turn(v, c, st, e) ==
  LET bytes == OverlappedBytes(c, st, e)
      stop == bytes > MaxGrandParentOverlap
      closed == IF stop /\ st.out # {} THEN Append(st.closed, st.out) ELSE st.closed
      open == IF stop THEN {} ELSE st.out
      out == IF Drop(v, c, st, e) THEN open ELSE open \cup {e}
      full == Cardinality(out) >= TargetFileSize
  IN  [user |-> e.user, last |-> e.seq, seen |-> TRUE,
       passed |-> st.passed \cup PassedGrandparents(c, st, e),
       overlapped |-> IF stop THEN 0 ELSE bytes,
       closed |-> IF full THEN Append(closed, out) ELSE closed,
       out |-> IF full THEN {} ELSE out]
\* The files of a level above 0 do not overlap, so one after the other and
\* merged with the others they give all entries in order.
MakeInputIterator(c) == InOrder(UNION {f.entries : f \in c.inputs0 \cup c.inputs1}, Less)
AtFirst == [user |-> 0, last |-> kMaxSequenceNumber, seen |-> FALSE, passed |-> {},
            overlapped |-> 0, closed |-> <<>>, out |-> {}]
DoCompactionWork(v, c) ==
  LET end == FoldLeft(LAMBDA st, e : Turn(v, c, st, e), AtFirst, MakeInputIterator(c))
  IN  IF end.out = {} THEN end.closed ELSE Append(end.closed, end.out)
----------------------------------------------------------------------------
\* Actions.

Init ==
  /\ written = <<>> /\ mem = {} /\ imm = <<>>
  /\ files = [l \in Levels |-> {}]
  /\ fileToCompact = <<>> /\ compactPointer = [l \in Levels |-> <<>>]
  /\ nextFileNumber = 1
  /\ snapshot = [c \in Clients |-> NoSnapshot]
  /\ compaction = None /\ manual = None
  /\ budget \in Budgets /\ parted = FALSE

\* The current version becomes v; file_to_compact_ starts unset in it.
Install(v) == files' = v /\ fileToCompact' = <<>>

\* A write that found room.
Write(k, type) ==
  /\ budget.writes > 0
  /\ type = "deletion" => budget.deletions > 0
  /\ budget' = [budget EXCEPT !.writes = @ - 1,
                              !.deletions = IF type = "deletion" THEN @ - 1 ELSE @]
  /\ written' = Append(written, <<k, type>>)
  /\ mem' = mem \cup {[user |-> k, seq |-> lastSequence + 1, type |-> type]}
  /\ UNCHANGED <<imm, files, fileToCompact, compactPointer, nextFileNumber,
                 snapshot, compaction, manual, parted>>

\* A write that found the memtable full (MakeRoomForWrite), or forced it.
SwitchMemTable ==
  /\ imm = <<>>
  /\ \/ mem # {} /\ (BusyManual \/ manual = None) /\ UNCHANGED manual
     \/ manual.phase = "force"
        /\ manual' = [manual EXCEPT !.phase = "wait"]
  /\ imm' = <<mem>> /\ mem' = {}
  /\ UNCHANGED <<written, files, fileToCompact, compactPointer, nextFileNumber,
                 snapshot, compaction, budget, parted>>

GetSnapshot(c) ==
  /\ snapshot[c] = NoSnapshot
  /\ budget.snapshots > 0
  /\ budget' = [budget EXCEPT !.snapshots = @ - 1]
  /\ snapshot' = [snapshot EXCEPT ![c] = lastSequence]
  /\ UNCHANGED <<written, mem, imm, files, fileToCompact, compactPointer,
                 nextFileNumber, compaction, manual, parted>>

ReleaseSnapshot(c) ==
  /\ snapshot[c] # NoSnapshot
  /\ snapshot' = [snapshot EXCEPT ![c] = NoSnapshot]
  /\ UNCHANGED <<written, mem, imm, files, fileToCompact, compactPointer,
                 nextFileNumber, compaction, manual, budget, parted>>

\* Background thread, before any other work and in between the turns of a
\* merge: the immutable memtable becomes a table, unless it is empty.
CompactMemTable ==
  /\ imm # <<>>
  /\ imm' = <<>>
  /\ IF imm[1] = {} THEN Install(files) /\ UNCHANGED nextFileNumber
     ELSE LET f == [number |-> nextFileNumber, entries |-> imm[1]]
              level == PickLevelForMemTableOutput(files, Smallest(f).user, Largest(f).user)
          IN  /\ Install(Apply(files, {}, {<<level, f>>}))
              /\ nextFileNumber' = nextFileNumber + 1
  /\ UNCHANGED <<written, mem, compactPointer, snapshot, compaction, manual,
                 budget, parted>>

\* The inputs of c are read, what is kept of them is to be installed.  All
\* the merge depends on is fixed when it starts.
StartMerge(c) ==
  /\ parted' = (parted \/ AddBoundaryInputs(files[c.level + 1], c.inputs1) # c.inputs1)
  /\ compaction' = [level |-> c.level, outputs |-> DoCompactionWork(files, c),
                    deleted |-> {<<c.level, f.number>> : f \in c.inputs0}
                                  \cup {<<c.level + 1, f.number>> : f \in c.inputs1}]

\* BackgroundCompaction with no memtable to flush and no manual compaction.
MoveOrMerge(c) ==
  /\ compactPointer' = [compactPointer EXCEPT ![c.level] = <<c.pointer>>]
  /\ IF IsTrivialMove(c)
     THEN /\ \E f \in c.inputs0 :
               Install(Apply(files, {<<c.level, f.number>>}, {<<c.level + 1, f>>}))
          /\ UNCHANGED <<compaction, parted>>
     ELSE StartMerge(c) /\ UNCHANGED <<files, fileToCompact>>
AutomaticCompaction ==
  /\ imm = <<>> /\ compaction = None
  /\ manual.phase # "registered"
  /\ NeedsCompaction
  /\ MoveOrMerge(PickCompaction)
  /\ UNCHANGED <<written, mem, imm, nextFileNumber, snapshot, manual, budget>>

\* The end of DoCompactionWork: InstallCompactionResults.
FinishCompaction ==
  /\ compaction # None
  /\ LET n == Len(compaction.outputs) IN
       /\ Install(Apply(files, compaction.deleted,
            {<<compaction.level + 1, [number |-> nextFileNumber + i - 1,
                                      entries |-> compaction.outputs[i]]>> : i \in 1..n}))
       /\ nextFileNumber' = nextFileNumber + n
  /\ compaction' = None
  /\ manual' = IF manual.phase = "running"
               THEN [manual EXCEPT !.phase = "idle"] ELSE manual
  /\ UNCHANGED <<written, mem, imm, compactPointer, snapshot, budget, parted>>

\* A read of the key that had to look into a second file charges the first
\* one (Get), a sample of an iterator does when two files overlap the key
\* (RecordReadSample).  Whether it was the last seek the file was allowed is
\* left open.
ChargeSeek(k) ==
  /\ budget.seeks > 0
  /\ LET probes == ForEachOverlapping(files, k, lastSequence) IN
       /\ Len(probes) >= 2
       /\ fileToCompact = <<>>
       /\ fileToCompact' = probes[1]
  /\ budget' = [budget EXCEPT !.seeks = @ - 1]
  /\ UNCHANGED <<written, mem, imm, files, compactPointer, nextFileNumber,
                 snapshot, compaction, manual, parted>>

\* CompactRange(lo, hi): how deep to go is looked up first, then the
\* memtable is flushed, then each level is compacted into the next one.
CompactRange(lo, hi) ==
  /\ manual = None /\ budget.manuals > 0
  /\ budget' = [budget EXCEPT !.manuals = @ - 1]
  /\ manual' = [level |-> 0, phase |-> "force", begin |-> lo, lo |-> lo, hi |-> hi,
                top |-> Max({1} \cup {l \in Levels \ {0} : OverlapInLevel(files, l, lo, hi)})]
  /\ UNCHANGED <<written, mem, imm, files, fileToCompact, compactPointer,
                 nextFileNumber, snapshot, compaction, parted>>

\* TEST_CompactMemTable has waited for the memtable; TEST_CompactRange
\* registers its request, once more after each part of it that was done.
RegisterManual ==
  /\ manual.phase = "idle" \/ (manual.phase = "wait" /\ imm = <<>>)
  /\ manual' = [manual EXCEPT !.phase = "registered"]
  /\ UNCHANGED <<written, mem, imm, files, fileToCompact, compactPointer,
                 nextFileNumber, snapshot, compaction, budget, parted>>

\* BackgroundCompaction with a manual compaction: the next part of the
\* range, or the end of this level.
LevelDone ==
  /\ manual' = IF manual.level + 1 = manual.top THEN None
               ELSE [manual EXCEPT !.level = @ + 1, !.phase = "idle", !.begin = manual.lo]
  /\ UNCHANGED <<compaction, compactPointer, parted>>
LastFile(F) == CHOOSE f \in F : \A g \in F : f = g \/ BySmallestKey(g, f)
MergePart(c) ==
  /\ manual' = [manual EXCEPT !.phase = "running", !.begin = Largest(LastFile(c.inputs0)).user]
  /\ compactPointer' = [compactPointer EXCEPT ![c.level] = <<c.pointer>>]
  /\ StartMerge(c)
CompactPart(in0) ==
  IF in0 = {} THEN LevelDone ELSE MergePart(SetupOtherInputs(files, manual.level, in0))
ManualCompaction ==
  /\ imm = <<>> /\ compaction = None
  /\ manual.phase = "registered"
  /\ CompactPart(CompactRangeInputs(files, manual.level, manual.begin, manual.hi))
  /\ UNCHANGED <<written, mem, imm, files, fileToCompact, nextFileNumber,
                 snapshot, budget>>

Background == CompactMemTable \/ AutomaticCompaction \/ FinishCompaction \/ ManualCompaction
Next ==
  \/ \E k \in UserKeys, type \in {"value", "deletion"} : Write(k, type)
  \/ \E k \in UserKeys : ChargeSeek(k)
  \/ SwitchMemTable
  \/ \E c \in Clients : GetSnapshot(c) \/ ReleaseSnapshot(c)
  \/ Background
  \/ \E r \in Ranges : CompactRange(r[1], r[2])
  \/ RegisterManual

Spec == Init /\ [][Next]_vars
----------------------------------------------------------------------------
Entry == [user : UserKeys, seq : 1..MaxWrites, type : {"value", "deletion"}]
FilesOf(v) == UNION {v[l] : l \in Levels}

\* Types; no file is empty, and numbers are given out once.
TypeOK ==
  /\ lastSequence <= MaxWrites /\ mem \subseteq Entry
  /\ imm = <<>> \/ imm[1] \subseteq Entry
  /\ \A f \in FilesOf(files) : f.number \in 1..(nextFileNumber - 1)
                               /\ f.entries # {} /\ f.entries \subseteq Entry
  /\ \A f, g \in FilesOf(files) : f.number = g.number => f = g
  /\ \A l, m \in Levels : l # m => files[l] \cap files[m] = {}
  /\ snapshot \in [Clients -> 0..MaxWrites \cup {NoSnapshot}]

\* Files of a level above 0 do not overlap: the assertion of SaveTo and
\* MaybeAddFile ("Must not overlap"), which binary search relies on.
LevelsDisjoint ==
  \A l \in Levels \ {0} : \A f, g \in files[l] :
    f # g => Less(Largest(f), Smallest(g)) \/ Less(Largest(g), Smallest(f))

\* Of one user key the entries get older from place to place in the order a
\* read visits them: memtables, level 0 by number, deeper levels.
NewerAbove ==
  LET Older(S, T) == \A e \in S, o \in T : e.user = o.user => e.seq < o.seq
      tables == IF imm = <<>> THEN {} ELSE imm[1]
  IN  /\ Older(tables, mem)
      /\ \A f \in FilesOf(files) : Older(f.entries, mem \cup tables)
      /\ \A f, g \in files[0] : f.number < g.number => Older(f.entries, g.entries)
      /\ \A l, m \in Levels : l < m =>
           \A f \in files[l], g \in files[m] : Older(g.entries, f.entries)

\* The size of a range, of one key, is that of its entries in the tables:
\* leaving a level early misses none.
SizesAddUp ==
  \A k \in UserKeys :
    GetApproximateSizes(k, k + 1) =
      Cardinality({e \in UNION {f.entries : f \in FilesOf(files)} : e.user = k})

\* A read finds the last write of its key, with a snapshot the last one
\* before it: no flush, move, merge or drop changes what readers see.  The
\* comment of AddBoundaryInputs tells how it may go wrong; SetupOtherInputs
\* calls that for the files of the level only, not for those of the next one,
\* and after a merge that took one of two such files there (parted) it fails.
Expected(k, snap) ==
  LET w == {i \in 1..snap : written[i][1] = k}
  IN  IF w = {} \/ written[Max(w)][2] = "deletion" THEN 0 ELSE Max(w)
ReadsFindLastWrite ==
  \A snap \in {lastSequence} \cup ({snapshot[c] : c \in Clients} \ {NoSnapshot}) :
    \A k \in UserKeys : Get(k, snap) = Expected(k, snap)
=============================================================================
