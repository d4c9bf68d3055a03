------------------------------ MODULE Iterators ------------------------------
(* A leveldb iterator: DBIter (db/db_iter.cc), which shows the newest value *)
(* of each key that its snapshot covers, over a MergingIterator             *)
(* (table/merger.cc) of the memtable, whose writers go on inserting, and of *)
(* a table, read through a TwoLevelIterator (table/two_level_iterator.cc).  *)
(* A step of an inner iterator is atomic, a call of DBIter is not.          *)
EXTENDS Naturals, Sequences

CONSTANTS Users,         \* user keys, numbers from 1
          MaxSequence,   \* kMaxSequenceNumber
          Databases,     \* [mem, blocks, sequence] iterators are tried on
          MaxInserts     \* bound on the entries inserted meanwhile

VARIABLES mem,        \* entries of the memtable
          blocks,     \* the table: <<[last |-> index key, entries |-> set], ...>>
          sequence,   \* DBIter::sequence_
          child,      \* where the children are: 1 the memtable, 2 the table
          current,    \* MergingIterator::current_, 0 for nullptr
          forward,    \* MergingIterator::direction_ = kForward
          direction,  \* DBIter::direction_
          valid,      \* DBIter::valid_
          savedKey,   \* DBIter::saved_key_, 0 when empty
          saved,      \* the entry DBIter::saved_value_ comes from
          call,       \* the call under way, <<"none", 0>> when there is none
          pc,         \* where it is
          returned    \* what key() and value() say after the last call

data == <<blocks, sequence>>
merging == <<child, current, forward>>
vars == <<mem, data, merging, direction, valid, savedKey, saved, call, pc, returned>>

End == [user |-> 0, seq |-> 0, type |-> "end"]
Nowhere == <<0, 0>>
Less(a, b) == a.user < b.user \/ (a.user = b.user /\ a.seq > b.seq)
First(S) == IF S = {} THEN End ELSE CHOOSE e \in S : \A o \in S : ~Less(o, e)
Last(S) == IF S = {} THEN End ELSE CHOOSE e \in S : \A o \in S : ~Less(e, o)
AtLeast(S, key) == First({e \in S : ~Less(e, key)})
After(S, e) == First({o \in S : Less(e, o)})
Before(S, e) == Last({o \in S : Less(o, e)})
----------------------------------------------------------------------------
\* The table: a block, then an entry of it; or the files of a level, each a
\* block, with its largest key as the index key (Version::LevelFileNumIterator).
\* An empty data iterator makes it go on to the next block that has an entry,
\* in the direction of the move.

SkipEmptyDataBlocksForward(b, e) ==
  LET later == {c \in (b + 1)..Len(blocks) : blocks[c].entries # {}}
  IN  IF e # End THEN [block |-> b, at |-> e]
      ELSE IF b = 0 \/ later = {} THEN [block |-> 0, at |-> End]
      ELSE LET c == CHOOSE x \in later : \A y \in later : x <= y
           IN  [block |-> c, at |-> First(blocks[c].entries)]
SkipEmptyDataBlocksBackward(b, e) ==
  LET earlier == {c \in 1..(b - 1) : blocks[c].entries # {}}
  IN  IF e # End THEN [block |-> b, at |-> e]
      ELSE IF b = 0 \/ earlier = {} THEN [block |-> 0, at |-> End]
      ELSE LET c == CHOOSE x \in earlier : \A y \in earlier : y <= x
           IN  [block |-> c, at |-> Last(blocks[c].entries)]

EntriesAt(b) == IF b = 0 THEN {} ELSE blocks[b].entries
IndexSeek(key) ==
  LET at == {b \in DOMAIN blocks : ~Less(blocks[b].last, key)}
  IN  IF at = {} THEN 0 ELSE CHOOSE b \in at : \A c \in at : b <= c
TableSeek(key) ==
  LET b == IndexSeek(key) IN SkipEmptyDataBlocksForward(b, AtLeast(EntriesAt(b), key))
TableFirst == LET b == IF blocks = <<>> THEN 0 ELSE 1
              IN  SkipEmptyDataBlocksForward(b, First(EntriesAt(b)))
TableLast == LET b == Len(blocks) IN SkipEmptyDataBlocksBackward(b, Last(EntriesAt(b)))
TableNext(p) == SkipEmptyDataBlocksForward(p.block, After(EntriesAt(p.block), p.at))
TablePrev(p) == SkipEmptyDataBlocksBackward(p.block, Before(EntriesAt(p.block), p.at))
----------------------------------------------------------------------------
\* The children: the memtable's iterator holds a node of the skip list and
\* finds the neighbours of its key when it moves (SkipList::Iterator).

Children == {1, 2}
InMem(e) == [block |-> 0, at |-> e]
SeekChild(i, key) == IF i = 1 THEN InMem(AtLeast(mem, key)) ELSE TableSeek(key)
FirstOf(i) == IF i = 1 THEN InMem(First(mem)) ELSE TableFirst
LastOf(i) == IF i = 1 THEN InMem(Last(mem)) ELSE TableLast
NextOf(i, p) == IF i = 1 THEN InMem(After(mem, p.at)) ELSE TableNext(p)
PrevOf(i, p) == IF i = 1 THEN InMem(Before(mem, p.at)) ELSE TablePrev(p)

\* MergingIterator.  Of equal keys FindSmallest takes the first child and
\* FindLargest the last one.
FindSmallest(c) ==
  LET at == {i \in Children : c[i].at # End}
      least == {i \in at : \A j \in at : ~Less(c[j].at, c[i].at)}
  IN  IF at = {} THEN 0 ELSE CHOOSE i \in least : \A j \in least : i <= j
FindLargest(c) ==
  LET at == {i \in Children : c[i].at # End}
      greatest == {i \in at : \A j \in at : ~Less(c[i].at, c[j].at)}
  IN  IF at = {} THEN 0 ELSE CHOOSE i \in greatest : \A j \in greatest : j <= i
Valid == current # 0
Key == child[current].at

Ahead(c) == child' = c /\ current' = FindSmallest(c) /\ forward' = TRUE
Behind(c) == child' = c /\ current' = FindLargest(c) /\ forward' = FALSE

MergeSeek(key) == Ahead([i \in Children |-> SeekChild(i, key)])
MergeFirst == Ahead([i \in Children |-> FirstOf(i)])
MergeLast == Behind([i \in Children |-> LastOf(i)])

\* Mutant: children stay where they are when the direction turns.
LeftAlone(i) == child[i]

\* When the direction changes the other children are put after the key, or
\* before it.
PastKey(i) == LET p == SeekChild(i, Key) IN IF p.at = Key THEN NextOf(i, p) ELSE p
ShortOfKey(i) ==
  LET p == SeekChild(i, Key) IN IF p.at # End THEN PrevOf(i, p) ELSE LastOf(i)
MergeNext ==
  Ahead([i \in Children |-> IF i = current THEN NextOf(i, child[i])
                            ELSE IF forward THEN child[i] ELSE PastKey(i)])
MergePrev ==
  Behind([i \in Children |-> IF i = current THEN PrevOf(i, child[i])
                             ELSE IF forward THEN ShortOfKey(i) ELSE child[i]])
----------------------------------------------------------------------------
\* DBIter.  Each call moves the merging iterator, then loops; pc says what is
\* checked next: "skip" and "take" are FindNextUserEntry with skipping TRUE
\* and FALSE, "scan" is the loop of Prev, and "back" and "backValue" are
\* FindPrevUserEntry with value_type a deletion or a value.

Return(key, e) ==
  pc' = "idle" /\ call' = <<"none", 0>> /\ returned' = IF valid' THEN <<key, e.seq>> ELSE Nowhere
ReturnNothing == valid' = FALSE /\ savedKey' = 0 /\ Return(0, End)

Seek(u) ==
  /\ pc = "idle" /\ call' = <<"seek", u>>
  /\ MergeSeek([user |-> u, seq |-> sequence])
  /\ direction' = "forward" /\ savedKey' = u /\ saved' = End /\ pc' = "take"
  /\ UNCHANGED <<mem, data, valid, returned>>
SeekToFirst ==
  /\ pc = "idle" /\ call' = <<"first", 0>>
  /\ MergeFirst
  /\ direction' = "forward" /\ saved' = End /\ pc' = "take"
  /\ UNCHANGED <<mem, data, valid, savedKey, returned>>
SeekToLast ==
  /\ pc = "idle" /\ call' = <<"last", 0>>
  /\ MergeLast
  /\ direction' = "reverse" /\ saved' = End /\ pc' = "back"
  /\ UNCHANGED <<mem, data, valid, savedKey, returned>>

Next ==
  /\ pc = "idle" /\ valid /\ call' = <<"next", 0>>
  /\ direction' = "forward" /\ pc' = "skip"
  /\ IF direction = "forward" THEN savedKey' = Key.user /\ MergeNext
     ELSE savedKey' = savedKey /\ IF Valid THEN MergeNext ELSE MergeFirst
  /\ UNCHANGED <<mem, data, valid, saved, returned>>

\* One turn of the loop of FindNextUserEntry; its end, also the early returns
\* of the calls above (of which Seek's leaves saved_key_, that nobody reads).
Visible == Valid /\ Key.seq <= sequence
FindNextUserEntry ==
  /\ pc \in {"skip", "take"} /\ Valid
  /\ IF Visible /\ Key.type = "value" /\ ~(pc = "skip" /\ Key.user <= savedKey)
     THEN /\ valid' = TRUE /\ savedKey' = 0 /\ Return(Key.user, Key)
          /\ UNCHANGED merging
     ELSE /\ IF Visible /\ Key.type = "deletion" THEN savedKey' = Key.user /\ pc' = "skip"
             ELSE UNCHANGED <<savedKey, pc>>
          /\ MergeNext
          /\ UNCHANGED <<valid, call, returned>>
  /\ UNCHANGED <<mem, data, direction, saved>>
NoNextUserEntry ==
  /\ pc \in {"skip", "take"} /\ ~Valid
  /\ ReturnNothing
  /\ UNCHANGED <<mem, data, merging, direction, saved>>

\* Prev in forward direction first leaves the entries of the current key.
Prev ==
  /\ pc = "idle" /\ valid /\ call' = <<"prev", 0>>
  /\ IF direction = "forward"
     THEN pc' = "scan" /\ savedKey' = Key.user /\ MergePrev
     ELSE pc' = "back" /\ UNCHANGED <<savedKey, merging>>
  /\ UNCHANGED <<mem, data, direction, valid, saved, returned>>
TurningBack == direction' = "reverse"
ScanBack ==
  /\ pc = "scan"
  /\ IF ~Valid THEN ReturnNothing /\ saved' = End /\ UNCHANGED <<merging, direction>>
     ELSE /\ IF Key.user < savedKey
             THEN TurningBack /\ pc' = "back" /\ UNCHANGED merging
             ELSE MergePrev /\ UNCHANGED <<direction, pc>>
          /\ UNCHANGED <<valid, savedKey, saved, call, returned>>
  /\ UNCHANGED <<mem, data>>

\* One turn of the loop of FindPrevUserEntry, and its end.
FindPrevUserEntry ==
  /\ pc \in {"back", "backValue"}
  /\ Valid /\ ~(Visible /\ pc = "backValue" /\ Key.user < savedKey)
  /\ IF ~Visible THEN UNCHANGED <<pc, savedKey, saved>>
     ELSE IF Key.type = "deletion" THEN pc' = "back" /\ savedKey' = 0 /\ saved' = End
     ELSE pc' = "backValue" /\ savedKey' = Key.user /\ saved' = Key
  /\ MergePrev
  /\ UNCHANGED <<mem, data, direction, valid, call, returned>>
PrevUserEntryFound ==
  /\ \/ pc \in {"back", "backValue"} /\ ~Valid
     \/ pc = "backValue" /\ Visible /\ Key.user < savedKey
  /\ IF pc = "back" THEN ReturnNothing /\ direction' = "forward" /\ saved' = End
     ELSE valid' = TRUE /\ Return(savedKey, saved) /\ UNCHANGED <<direction, savedKey, saved>>
  /\ UNCHANGED <<mem, data, merging>>

\* A writer inserts an entry that is newer than the iterator.
Insert(u, type) ==
  LET newest == IF mem = {} THEN 0 ELSE (CHOOSE e \in mem : \A o \in mem : o.seq <= e.seq).seq
      seq == IF newest < sequence THEN sequence + 1 ELSE newest + 1
  IN  /\ seq <= sequence + MaxInserts /\ seq < MaxSequence
      /\ mem' = mem \cup {[user |-> u, seq |-> seq, type |-> type]}
      /\ UNCHANGED <<data, merging, direction, valid, savedKey, saved, call, pc,
                     returned>>

Init ==
  /\ \E d \in Databases : mem = d.mem /\ blocks = d.blocks /\ sequence = d.sequence
  /\ child = [i \in Children |-> InMem(End)] /\ current = 0 /\ forward = TRUE
  /\ direction = "forward" /\ valid = FALSE /\ savedKey = 0 /\ saved = End
  /\ call = <<"none", 0>> /\ pc = "idle" /\ returned = Nowhere

Step == \/ SeekToFirst \/ SeekToLast \/ Next \/ Prev
        \/ \E u \in Users : Seek(u)
        \/ FindNextUserEntry \/ NoNextUserEntry \/ ScanBack
        \/ FindPrevUserEntry \/ PrevUserEntryFound
        \/ \E u \in Users, type \in {"value", "deletion"} : Insert(u, type)

Spec == Init /\ [][Step]_vars
\* A call that has begun goes on.
InCall == FindNextUserEntry \/ NoNextUserEntry \/ ScanBack \/ FindPrevUserEntry
            \/ PrevUserEntryFound
FairSpec == Spec /\ WF_vars(InCall)
----------------------------------------------------------------------------
\* The pairs the snapshot shows.
Entries == mem \cup UNION {blocks[b].entries : b \in DOMAIN blocks}
Newest(u) == First({e \in Entries : e.user = u /\ e.seq <= sequence})
Shown == {<<u, Newest(u).seq>> : u \in {x \in Users : Newest(x).type = "value"}}

\* The iterator is a cursor over these pairs, whatever is inserted meanwhile
\* and however often it turns round.
C == INSTANCE Cursor WITH Targets <- Users, shown <- Shown, at <- returned,
                       call <- call
IsCursor == C!Spec

\* A call returns although entries are inserted in its way.
CallsReturn == pc # "idle" ~> pc = "idle"
=============================================================================
