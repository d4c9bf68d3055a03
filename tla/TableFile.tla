----------------------------- MODULE TableFile -----------------------------
(* The format of sorted tables: TableBuilder and BlockBuilder (table/       *)
(* table_builder.cc, block_builder.cc), filters (filter_block.cc, util/     *)
(* bloom.cc) and their readers Table and Block::Iter (table.cc, block.cc).  *)
(* A key is a sequence of bytes of which the last stands for the eight      *)
(* bytes of sequence number and type.                                       *)
EXTENDS Integers, Sequences, FiniteSets

CONSTANTS Users,            \* user keys, sequences of bytes
          Tags,             \* what follows them
          ValueSize,        \* the size of the value of each tag
          MaxByte, MaxTag,  \* 0xff; kMaxSequenceNumber with kValueTypeForSeek
          TableBlockSize,        \* Options::block_size
          RestartInterval,  \* Options::block_restart_interval
          FilterBase,       \* kFilterBase
          BitsPerKey,       \* of the Bloom filter
          Hash              \* BloomHash of each user key, 8 bits

VARIABLES table,   \* TableBuilder::Rep
          added,   \* the keys given to Add, in their order
          block,   \* the block that is read, 0 the index block; -1 while building
          iter,    \* Block::Iter
          place    \* the entry the iterator should be on, 0 for none

vars == <<table, added, block, iter, place>>

\* Comparators (util/comparator.cc, db/dbformat.cc).
Least(a, b) == IF a < b THEN a ELSE b
Common(a, b) ==
  CHOOSE n \in 0..Least(Len(a), Len(b)) :
    /\ \A i \in 1..n : a[i] = b[i]
    /\ n = Least(Len(a), Len(b)) \/ a[n + 1] # b[n + 1]
Before(a, b) ==
  LET n == Common(a, b) IN n < Len(b) /\ (n < Len(a) => a[n + 1] < b[n + 1])
User(key) == SubSeq(key, 1, Len(key) - 1)
Tag(key) == key[Len(key)]
Less(a, b) == Before(User(a), User(b)) \/ (User(a) = User(b) /\ Tag(a) > Tag(b))

BytewiseSeparator(start, limit) ==
  LET n == Common(start, limit)
  IN  IF n < Least(Len(start), Len(limit)) /\ start[n + 1] < MaxByte
           /\ start[n + 1] + 1 < limit[n + 1]
      THEN Append(SubSeq(start, 1, n), start[n + 1] + 1) ELSE start
BytewiseSuccessor(key) ==
  LET can == {i \in DOMAIN key : key[i] # MaxByte}
  IN  IF can = {} THEN key
      ELSE LET i == CHOOSE x \in can : \A y \in can : x <= y
           IN  Append(SubSeq(key, 1, i - 1), key[i] + 1)
Shorter(key, user) ==
  IF Len(user) < Len(User(key)) /\ Before(User(key), user) THEN Append(user, MaxTag) ELSE key

\* Mutant: the index key of a block ignores the next block.
SuccessorForSeparator(start, limit) == Shorter(start, BytewiseSuccessor(User(start)))

FindShortestSeparator(start, limit) == Shorter(start, BytewiseSeparator(User(start), User(limit)))
FindShortSuccessor(key) == Shorter(key, BytewiseSuccessor(User(key)))
----------------------------------------------------------------------------
\* BlockBuilder.  An entry holds what of its key its predecessor does not have.

EmptyBlock == [entries |-> <<>>, restarts |-> <<0>>, counter |-> 0, lastKey |-> <<>>]
BufferSize(b) == IF b.entries = <<>> THEN 0 ELSE b.entries[Len(b.entries)].end
CurrentSizeEstimate(b) == BufferSize(b) + 4 * Len(b.restarts) + 4
Shared(b, interval, key) == IF b.counter < interval THEN Common(b.lastKey, key) ELSE 0
AddToBlock(b, interval, key, value, size) ==
  LET restart == b.counter >= interval
      shared == Shared(b, interval, key)
      at == BufferSize(b)
  IN  [entries |-> Append(b.entries, [at |-> at, shared |-> shared,
                     rest |-> SubSeq(key, shared + 1, Len(key)), value |-> value,
                     end |-> at + 3 + Len(key) - shared + size]),
       restarts |-> IF restart THEN Append(b.restarts, at) ELSE b.restarts,
       counter |-> 1 + IF restart THEN 0 ELSE b.counter,
       lastKey |-> key]

\* The Bloom filter of some user keys (n of them, with repetitions).
Probes == LET k == (BitsPerKey * 69) \div 100 IN IF k < 1 THEN 1 ELSE Least(k, 30)
Positions(user, bits) ==
  LET h == Hash[user]
      delta == (h \div 16) + ((h * 16) % 256)
  IN  {((h + j * delta) % 256) % bits : j \in 0..(Probes - 1)}
NoFilter == [bits |-> 0, set |-> {}]
CreateFilter(users, count) ==
  LET n == IF count * BitsPerKey < 64 THEN 64 ELSE count * BitsPerKey
      bits == ((n + 7) \div 8) * 8
  IN  [bits |-> bits, set |-> UNION {Positions(user, bits) : user \in users}]
\* InternalFilterPolicy: of internal keys, several of which may be of one user.
PolicyCreateFilter(keys) == CreateFilter({User(k) : k \in keys}, Cardinality(keys))
PolicyMayMatch(user, f) == f.bits > 0 /\ Positions(user, f.bits) \subseteq f.set

\* FilterBlockBuilder: one filter for every FilterBase bytes of the file, of
\* the keys of the blocks that begin there.
GenerateFilter(keys) == IF keys = {} THEN NoFilter ELSE PolicyCreateFilter(keys)
StartBlock(t, offset) ==
  LET missing == (offset \div FilterBase) - Len(t.filters)
  IN  IF missing <= 0 THEN t
      ELSE [t EXCEPT !.keys = {},
              !.filters = @ \o [i \in 1..missing |-> GenerateFilter(IF i = 1 THEN t.keys ELSE {})]]
FinishFilter(t) ==
  IF t.keys = {} THEN t
  ELSE [t EXCEPT !.filters = Append(@, GenerateFilter(t.keys)), !.keys = {}]
KeyMayMatch(offset, key) ==
  LET i == offset \div FilterBase
  IN  i < Len(table.filters) => PolicyMayMatch(User(key), table.filters[i + 1])
----------------------------------------------------------------------------
\* TableBuilder.

TrailerSize == 5
EmptyTable == [offset |-> 0, data |-> EmptyBlock, index |-> EmptyBlock, lastKey |-> <<>>,
               pending |-> 0, blocks |-> <<>>, filters |-> <<>>, keys |-> {}]
AddIndexEntry(t, key) ==
  IF t.pending = 0 THEN t
  ELSE [t EXCEPT !.index = AddToBlock(@, 1, key, t.pending, 2), !.pending = 0]
WriteBlock(t) ==
  [t EXCEPT !.blocks = Append(@, [at |-> t.offset, block |-> t.data]), !.data = EmptyBlock,
            !.offset = @ + CurrentSizeEstimate(t.data) + TrailerSize,
            !.pending = Len(t.blocks) + 1]
Flush(t) ==
  IF t.data.entries = <<>> THEN t ELSE LET w == WriteBlock(t) IN StartBlock(w, w.offset)

Add(key) ==
  /\ block = -1 /\ (added # <<>> => Less(added[Len(added)], key))
  /\ LET i == AddIndexEntry(table, FindShortestSeparator(table.lastKey, key))
         t == [i EXCEPT !.keys = @ \cup {key}, !.lastKey = key,
                        !.data = AddToBlock(@, RestartInterval, key, key, ValueSize[Tag(key)])]
     IN  table' = IF CurrentSizeEstimate(t.data) >= TableBlockSize THEN Flush(t) ELSE t
  /\ added' = Append(added, key)
  /\ UNCHANGED <<block, iter, place>>

Nothing == [current |-> 0, restart |-> 0, key |-> <<>>, value |-> 0, end |-> 0]
Finish ==
  /\ block = -1
  /\ LET f == Flush(table)
     IN  table' = AddIndexEntry(FinishFilter(f), FindShortSuccessor(f.lastKey))
  /\ block' \in 0..Len(table'.blocks)
  /\ UNCHANGED <<added, iter, place>>
----------------------------------------------------------------------------
\* Block::Iter.  Restart points count from 0; current and end are offsets.

Contents(n) == IF n = 0 THEN table.index ELSE table.blocks[n].block
NumRestarts(b) == Len(b.restarts)
GetRestartPoint(b, i) == b.restarts[i + 1]
EntryAt(b, offset) == CHOOSE e \in {b.entries[i] : i \in DOMAIN b.entries} : e.at = offset
Invalid(b, it) == [it EXCEPT !.current = BufferSize(b), !.restart = NumRestarts(b)]
Valid(b, it) == it.current < BufferSize(b)

LastRestartBefore(b, it, offset) ==
  LET passed == {i \in 0..(NumRestarts(b) - 1) : i > it.restart /\ GetRestartPoint(b, i) < offset}
  IN  CHOOSE i \in passed \cup {it.restart} : \A j \in passed : j <= i
ParseNextKey(b, it) ==
  IF it.end >= BufferSize(b) THEN Invalid(b, it)
  ELSE LET e == EntryAt(b, it.end)
       IN  IF Len(it.key) < e.shared THEN [Invalid(b, it) EXCEPT !.key = <<>>, !.value = 0]
           ELSE [current |-> it.end, restart |-> LastRestartBefore(b, it, it.end),
                 key |-> SubSeq(it.key, 1, e.shared) \o e.rest, value |-> e.value, end |-> e.end]
SeekToRestartPoint(b, i) == [Nothing EXCEPT !.restart = i, !.end = GetRestartPoint(b, i)]
\* ParseNextKey once, and then until Stop.
Scan(b, from, Stop(_)) ==
  LET after[n \in 0..Len(b.entries)] ==
        IF n = 0 THEN ParseNextKey(b, from)
        ELSE LET it == after[n - 1] IN IF ~Valid(b, it) \/ Stop(it) THEN it ELSE ParseNextKey(b, it)
  IN  after[Len(b.entries)]

SeekToFirst(b) == ParseNextKey(b, SeekToRestartPoint(b, 0))
SeekToLast(b) ==
  LET AtEnd(it) == it.end >= BufferSize(b)
  IN  Scan(b, SeekToRestartPoint(b, NumRestarts(b) - 1), AtEnd)
RestartBefore(b, i, offset) == GetRestartPoint(b, i) < offset
Previous(b, it) ==
  LET earlier == {i \in 0..it.restart : RestartBefore(b, i, it.current)}
      Reached(p) == p.end >= it.current
  IN  IF earlier = {} THEN Invalid(b, it)
      ELSE Scan(b, SeekToRestartPoint(b, CHOOSE i \in earlier : \A j \in earlier : j <= i), Reached)
\* The key at a restart point is whole.
MidKey(b, i) == EntryAt(b, GetRestartPoint(b, i)).rest
Corrupt(b, i) == EntryAt(b, GetRestartPoint(b, i)).shared # 0
Seek(b, target) ==
  LET search[p \in (0..NumRestarts(b)) \X (-1..NumRestarts(b))] ==
        LET mid == (p[1] + p[2] + 1) \div 2
        IN  IF p[1] >= p[2] THEN p[1]
            ELSE IF Corrupt(b, mid) THEN -1
            ELSE IF Less(MidKey(b, mid), target) THEN search[<<mid, p[2]>>]
            ELSE search[<<p[1], mid - 1>>]
      left == search[<<0, NumRestarts(b) - 1>>]
      NotLess(it) == ~Less(it.key, target)
  IN  IF left = -1 THEN Invalid(b, Nothing) ELSE Scan(b, SeekToRestartPoint(b, left), NotLess)

\* Table::InternalGet: the entry handed to the caller, or <<>>.
InternalGet(key) ==
  LET i == Seek(table.index, key)
      b == table.blocks[i.value]
      found == Seek(b.block, key)
  IN  IF ~Valid(table.index, i) \/ ~KeyMayMatch(b.at, key) \/ ~Valid(b.block, found) THEN <<>>
      ELSE <<found.key, found.value>>
ApproximateOffsetOf(key) ==
  LET i == Seek(table.index, key)
  IN  IF Valid(table.index, i) THEN table.blocks[i.value].at ELSE table.offset
----------------------------------------------------------------------------
InternalKeys == {Append(u, t) : u \in Users, t \in Tags}
Entries(n) ==
  LET e == Contents(n).entries IN [i \in DOMAIN e |-> IF n = 0 THEN i ELSE e[i].value]
\* The calls of the iterator, and beside them where they should lead.
Read(it, p) ==
  /\ block >= 0 /\ iter' = it /\ place' = p
  /\ UNCHANGED <<table, added, block>>
ReadFirst == block >= 0 /\ Read(SeekToFirst(Contents(block)), Least(1, Len(Contents(block).entries)))
ReadLast == block >= 0 /\ Read(SeekToLast(Contents(block)), Len(Contents(block).entries))
ReadNext ==
  /\ block >= 0 /\ place > 0
  /\ Read(ParseNextKey(Contents(block), iter),
          IF place = Len(Contents(block).entries) THEN 0 ELSE place + 1)
ReadPrev == block >= 0 /\ place > 0 /\ Read(Previous(Contents(block), iter), place - 1)
ReadSeek(key) ==
  /\ block > 0
  /\ LET values == Entries(block)
         at == {i \in DOMAIN values : ~Less(values[i], key)}
     IN  Read(Seek(Contents(block), key),
              IF at = {} THEN 0 ELSE CHOOSE i \in at : \A j \in at : i <= j)

Init == table = EmptyTable /\ added = <<>> /\ block = -1 /\ iter = Nothing /\ place = 0
Next == \/ \E key \in InternalKeys : Add(key) \/ ReadSeek(key)
        \/ Finish \/ ReadFirst \/ ReadLast \/ ReadNext \/ ReadPrev
Spec == Init /\ [][Next]_vars
----------------------------------------------------------------------------
\* Types; the index lags by the one block whose successor is not known yet,
\* and the data block is empty then.
TypeOK ==
  /\ table.pending # 0 => table.pending = Len(table.blocks) /\ table.data.entries = <<>>
  /\ Len(table.index.entries) = Len(table.blocks) - IF table.pending = 0 THEN 0 ELSE 1
  /\ table.data.counter <= RestartInterval

\* The iterator of a block stands where its calls lead, with the key that was
\* put together there from prefixes, and its restart point is not past it.
IteratorRight ==
  block >= 0 =>
    LET b == Contents(block)
    IN  IF place = 0 THEN iter = Nothing \/ ~Valid(b, iter)
        ELSE /\ Valid(b, iter) /\ iter.current = b.entries[place].at
             /\ iter.value = b.entries[place].value
             /\ block > 0 => iter.key = iter.value
             /\ GetRestartPoint(b, iter.restart) <= iter.current

\* A finished table is asked for a key: an entry of its user is never missed, neither
\* by the index nor by the filter, and nothing but the next entry is handed on.
Finished == block = 0 /\ iter = Nothing
GetFindsEntry ==
  Finished =>
    \A key \in InternalKeys :
      LET at == {i \in DOMAIN added : ~Less(added[i], key)}
          next == added[CHOOSE i \in at : \A j \in at : i <= j]
      IN  IF at # {} /\ User(next) = User(key) THEN InternalGet(key) = <<next, next>>
          ELSE InternalGet(key) \in {<<>>} \cup {<<added[i], added[i]>> : i \in at}

\* The key of a block in the index is at least all the block's keys and less
\* than those of the blocks after it, and offsets grow with the keys.
IndexSeparates ==
  Finished =>
    /\ \A b \in DOMAIN table.blocks :
         LET bound == Seek(table.index, Entries(b)[Len(Entries(b))])
         IN  /\ Valid(table.index, bound) /\ bound.value = b
             /\ ~Less(bound.key, Entries(b)[Len(Entries(b))])
             /\ b < Len(table.blocks) => Less(bound.key, Entries(b + 1)[1])
    /\ \A j \in InternalKeys, k \in InternalKeys : Less(j, k) => ApproximateOffsetOf(j) <= ApproximateOffsetOf(k)
=============================================================================
