------------------------------- MODULE Coding -------------------------------
(* What is written in MANIFESTs, logs and tables: VersionEdit               *)
(* (db/version_edit.cc), WriteBatch (db/write_batch.cc) and the Footer and  *)
(* trailers of blocks (table/format.cc), of varints and strings with their  *)
(* lengths (util/coding.cc); and the entries of a memtable (db/memtable.cc).*)
(* A byte carries Base payloads, 128 in the code, and the mark that more    *)
(* bytes follow.                                                            *)
EXTENDS Naturals, Sequences

CONSTANTS Base,        \* 128
          Width,       \* numbers are below it
          Groups,      \* bytes of the longest varint
          NumLevels,   \* kNumLevels
          FileNumbers, \* values of the fields, Absent for one not set
          Absent,
          Strings,     \* strings of bytes
          EditLevels   \* levels in the edits

VARIABLES source,  \* the edit, batch, table or memtable that was written
          input,   \* its bytes, perhaps cut off or damaged
          whole,   \* they were neither
          result   \* what was read, or Unread

vars == <<source, input, whole, result>>

Unread == [ok |-> FALSE, read |-> <<>>, end |-> 0]
More == Base
----------------------------------------------------------------------------
\* Varints and slices.

Power(n) == Base ^ n
VarintLength(v) == CHOOSE n \in 1..Groups : v < Power(n) /\ (n > 1 => v >= Power(n - 1))
PutVarint(v) ==
  [i \in 1..VarintLength(v) |->
     ((v \div Power(i - 1)) % Base) + IF i < VarintLength(v) THEN More ELSE 0]
PutLengthPrefixedSlice(s) == PutVarint(Len(s)) \o s

\* The value at p and where the next one is, 0 when there is none.
ValueOf(p, n) ==
  LET sum[i \in 0..n] ==
        IF i = 0 THEN 0 ELSE sum[i - 1] + (input[p + i - 1] % Base) * Power(i - 1)
  IN  sum[n] % Width
NotFound == [value |-> 0, next |-> 0]

\* Mutant: the last byte of the longest varint is not read.
GetVarintShort(p) ==
  LET ends == {n \in 1..(Groups - 1) : p + n - 1 <= Len(input) /\ input[p + n - 1] < More}
  IN  IF ends = {} THEN NotFound
      ELSE LET n == CHOOSE x \in ends : \A y \in ends : x <= y
           IN  [value |-> ValueOf(p, n), next |-> p + n]

GetVarint(p) ==
  LET ends == {n \in 1..Groups : p + n - 1 <= Len(input) /\ input[p + n - 1] < More}
  IN  IF p = 0 \/ ends = {} THEN NotFound
      ELSE LET n == CHOOSE x \in ends : \A y \in ends : x <= y
           IN  [value |-> ValueOf(p, n), next |-> p + n]
SliceFits(p, length) == p # 0 /\ p + length - 1 <= Len(input)
GetLengthPrefixedSlice(p) ==
  LET length == GetVarint(p)
  IN  IF SliceFits(length.next, length.value)
      THEN [value |-> SubSeq(input, length.next, length.next + length.value - 1),
            next |-> length.next + length.value]
      ELSE [value |-> <<>>, next |-> 0]
----------------------------------------------------------------------------
\* VersionEdit, as the list of its entries: the comparator's name and the
\* numbers that are set, the compaction pointers, the deleted and new files.

Entry(tag, numbers, keys) == [tag |-> tag, numbers |-> numbers, keys |-> keys]
NumberTags == <<2, 9, 3, 4>>   \* kLogNumber, kPrevLogNumber, kNextFileNumber, kLastSequence
Set(edit) == SelectSeq(<<1, 2, 3, 4>>, LAMBDA i : edit.numbers[i] # Absent)
Entries(edit) ==
  LET comparator == IF edit.comparator = Absent THEN <<>>
                    ELSE <<Entry(1, <<>>, <<edit.comparator>>)>>
      set == Set(edit)
      numbers == [i \in DOMAIN set |-> Entry(NumberTags[set[i]], <<edit.numbers[set[i]]>>, <<>>)]
      pointers == [i \in DOMAIN edit.pointers |->
                     Entry(5, <<edit.pointers[i].level>>, <<edit.pointers[i].key>>)]
      deleted == [i \in DOMAIN edit.deleted |->
                    Entry(6, <<edit.deleted[i].level, edit.deleted[i].number>>, <<>>)]
      new == [i \in DOMAIN edit.new |->
                Entry(7, <<edit.new[i].level, edit.new[i].number, edit.new[i].size>>,
                      <<edit.new[i].smallest, edit.new[i].largest>>)]
  IN  comparator \o numbers \o pointers \o deleted \o new

Concatenated(parts) ==
  LET all[i \in 0..Len(parts)] == IF i = 0 THEN <<>> ELSE all[i - 1] \o parts[i]
  IN  all[Len(parts)]
\* Numbers come before keys in every entry.
EncodeTo(entries) ==
  Concatenated([i \in DOMAIN entries |->
    PutVarint(entries[i].tag)
      \o Concatenated([j \in DOMAIN entries[i].numbers |-> PutVarint(entries[i].numbers[j])])
      \o Concatenated([j \in DOMAIN entries[i].keys |-> PutLengthPrefixedSlice(entries[i].keys[j])])])

\* How many numbers and keys follow a tag, whether the first number is a level
\* (GetLevel) and whether a key may not be empty (GetInternalKey).
Shape(tag) ==
  CASE tag = 1 -> [numbers |-> 0, keys |-> 1, level |-> FALSE]
    [] tag \in {2, 3, 4, 9} -> [numbers |-> 1, keys |-> 0, level |-> FALSE]
    [] tag = 5 -> [numbers |-> 1, keys |-> 1, level |-> TRUE]
    [] tag = 6 -> [numbers |-> 2, keys |-> 0, level |-> TRUE]
    [] tag = 7 -> [numbers |-> 3, keys |-> 2, level |-> TRUE]
KnownTags == {1, 2, 3, 4, 5, 6, 7, 9}

\* One entry at p: what was read of it, with next = 0 when it is refused.
ReadEntry(p) ==
  LET tag == GetVarint(p)
      shape == Shape(tag.value)
      numbers[i \in 0..shape.numbers] ==
        IF i = 0 THEN [got |-> <<>>, next |-> tag.next]
        ELSE LET before == numbers[i - 1]
                 it == GetVarint(before.next)
             IN  IF shape.level /\ i = 1 /\ it.value >= NumLevels THEN [got |-> <<>>, next |-> 0]
                 ELSE [got |-> Append(before.got, it.value), next |-> it.next]
      keys[i \in 0..shape.keys] ==
        IF i = 0 THEN [got |-> <<>>, next |-> numbers[shape.numbers].next]
        ELSE LET before == keys[i - 1]
                 it == GetLengthPrefixedSlice(before.next)
             IN  IF shape.level /\ it.value = <<>> THEN [got |-> <<>>, next |-> 0]
                 ELSE [got |-> Append(before.got, it.value), next |-> it.next]
  IN  IF tag.next = 0 \/ tag.value \notin KnownTags THEN [entry |-> Entry(0, <<>>, <<>>), next |-> 0]
      ELSE [entry |-> Entry(tag.value, numbers[shape.numbers].got, keys[shape.keys].got),
            next |-> keys[shape.keys].next]
DecodeFrom ==
  LET at[p \in 1..(Len(input) + 1)] ==
        IF p = Len(input) + 1 THEN [ok |-> TRUE, read |-> <<>>, end |-> p]
        ELSE LET it == ReadEntry(p)
             IN  IF it.next = 0 THEN [ok |-> FALSE, read |-> <<>>, end |-> p]
                 ELSE LET rest == at[it.next] IN [rest EXCEPT !.read = <<it.entry>> \o @]
  IN  at[1]
----------------------------------------------------------------------------
\* WriteBatch: the count, in the header, and Put (1) or Delete (0) of each key.

BatchContents(entries) ==
  <<Len(entries)>> \o Concatenated([i \in DOMAIN entries |->
    <<entries[i].tag>>
      \o Concatenated([j \in DOMAIN entries[i].keys |-> PutLengthPrefixedSlice(entries[i].keys[j])])])
\* Iterate hands over each entry before it looks at the next.
Refused(p) == [ok |-> FALSE, read |-> <<>>, end |-> p]
RightCount(found) == found = input[1]
EndOfBatch(found) == IF RightCount(found) THEN [Unread EXCEPT !.ok = TRUE] ELSE Refused(0)
Iterate ==
  LET at[p \in 2..(Len(input) + 1), found \in 0..Len(input)] ==
        IF p = Len(input) + 1 THEN EndOfBatch(found)
        ELSE LET tag == input[p]
                 key == GetLengthPrefixedSlice(p + 1)
                 value == IF tag = 1 THEN GetLengthPrefixedSlice(key.next)
                          ELSE [value |-> <<>>, next |-> key.next]
                 entry == Entry(tag, <<>>, IF tag = 1 THEN <<key.value, value.value>> ELSE <<key.value>>)
             IN  IF tag \notin {0, 1} \/ value.next = 0 THEN Refused(p)
                 ELSE LET rest == at[value.next, found + 1]
                      IN  [rest EXCEPT !.read = <<entry>> \o @]
  IN  IF input = <<>> THEN Refused(0) ELSE at[2, 0]
----------------------------------------------------------------------------
\* A table of one block: its contents, their trailer and, at the end of the
\* file, the handles of two blocks, padded to the longest there are.

Magic == 2 * Base
HandleLength == 2 * Groups
FooterLength == 2 * HandleLength + 1
NoCompression == 0
\* CRC32C notices any byte that is not what it was.
Crc(bytes) == LET sum[i \in 0..Len(bytes)] == IF i = 0 THEN 0 ELSE sum[i - 1] + bytes[i]
              IN  sum[Len(bytes)]
WithTrailer(contents) == contents \o <<NoCompression, Crc(contents) + NoCompression>>
EncodeFooter(metaindex, index) ==
  LET handles == Concatenated(<<PutVarint(metaindex[1]), PutVarint(metaindex[2]),
                                PutVarint(index[1]), PutVarint(index[2])>>)
  IN  [i \in 1..(2 * HandleLength) |-> IF i <= Len(handles) THEN handles[i] ELSE 0] \o <<Magic>>

\* A handle at p and where the next one is.
DecodeHandle(p) ==
  LET offset == GetVarint(p)
      size == GetVarint(offset.next)
  IN  [value |-> <<offset.value, size.value>>, next |-> size.next]
\* Without snappy a block of any other type is refused.
ReadBlock(handle) ==
  LET n == handle[2]
      data == SubSeq(input, handle[1] + 1, handle[1] + n + 2)
  IN  IF \/ Len(data) # n + 2
         \/ source.verify /\ data[n + 2] # Crc(SubSeq(data, 1, n + 1))
         \/ data[n + 1] # NoCompression
      THEN Unread ELSE [ok |-> TRUE, read |-> SubSeq(data, 1, n), end |-> 0]
OpenTable ==
  LET metaindex == DecodeHandle(Len(input) - FooterLength + 1)
      index == DecodeHandle(metaindex.next)
      block == ReadBlock(index.value)
  IN  IF \/ Len(input) < FooterLength \/ input[Len(input)] # Magic
         \/ index.next = 0 \/ ~block.ok
      THEN Refused(0)
      ELSE [ok |-> TRUE, read |-> <<metaindex.value, block.read>>, end |-> 0]
----------------------------------------------------------------------------
\* A memtable: its entries in their order, each an internal key and a value.
\* The tag at the end of the key is one byte here, eight in the code.

TypeValue == 1  \* also kValueTypeForSeek
PackSequenceAndType(seq, type) == seq * (2 * Base) + type
AppendInternalKey(user, seq, type) == Append(user, PackSequenceAndType(seq, type))
LookupKey(lookup) == AppendInternalKey(lookup.user, lookup.seq, TypeValue)
ParseInternalKey(key) ==
  [user |-> SubSeq(key, 1, Len(key) - 1), seq |-> key[Len(key)] \div (2 * Base),
   type |-> key[Len(key)] % (2 * Base)]

BytewiseLess(a, b) ==
  \E i \in DOMAIN b : /\ i <= Len(a) + 1 /\ SubSeq(a, 1, i - 1) = SubSeq(b, 1, i - 1)
                      /\ i <= Len(a) => a[i] < b[i]
\* InternalKeyComparator::Compare: of one user the newest first.
KeyBefore(a, b) ==
  LET x == ParseInternalKey(a)  y == ParseInternalKey(b)
  IN  \/ BytewiseLess(x.user, y.user)
      \/ x.user = y.user /\ a[Len(a)] > b[Len(b)]

MemTableAdd(e) ==
  PutLengthPrefixedSlice(AppendInternalKey(e.user, e.seq, e.type)) \o PutLengthPrefixedSlice(e.value)
\* What MemTableIterator shows: the entries from p on.
MemTableEntries ==
  LET at[p \in 1..(Len(input) + 1)] ==
        IF p = Len(input) + 1 THEN <<>>
        ELSE LET key == GetLengthPrefixedSlice(p)
                 value == GetLengthPrefixedSlice(key.next)
             IN  <<[key |-> key.value, value |-> value.value]>> \o at[value.next]
  IN  at[1]
\* Seek, then a look whether it is an entry of that user: its place, or 0.
MemTableGet(all, lookup) ==
  LET from == {i \in DOMAIN all : ~KeyBefore(all[i].key, LookupKey(lookup))}
      i == CHOOSE x \in from : \A y \in from : x <= y
  IN  IF from # {} /\ ParseInternalKey(all[i].key).user = lookup.user THEN i ELSE 0
ReadMemTable ==
  LET all == MemTableEntries
  IN  [ok |-> TRUE, end |-> MemTableGet(all, source.lookup),
       read |-> [i \in DOMAIN all |->
                   LET key == ParseInternalKey(all[i].key)
                   IN  [user |-> key.user, seq |-> key.seq, type |-> key.type,
                        value |-> all[i].value]]]
----------------------------------------------------------------------------
Few(S) == {<<>>} \cup {<<x>> : x \in S} \cup {<<x, y>> : x \in S, y \in S}
SomeNumber == CHOOSE n \in FileNumbers : n # Absent
NewFiles == [level : EditLevels, number : FileNumbers \ {Absent}]
NotAfter(d, f) == d.level < f.level \/ (d.level = f.level /\ d.number <= f.number)
Edits ==
  {[comparator |-> c, numbers |-> n, pointers |-> <<>>, deleted |-> <<>>, new |-> <<>>] :
     c \in Strings \cup {Absent}, n \in [1..4 -> FileNumbers]}
  \cup
  {[comparator |-> Absent, numbers |-> <<Absent, Absent, SomeNumber, Absent>>, pointers |-> p,
    deleted |-> IF pair[1] = pair[2] THEN <<pair[1]>> ELSE pair,
    new |-> <<[level |-> pair[2].level, number |-> pair[2].number, size |-> pair[1].number,
               smallest |-> k, largest |-> k]>>] :
     p \in Few([level : EditLevels, key : Strings \ {<<>>}]), k \in Strings \ {<<>>},
     pair \in {q \in NewFiles \X NewFiles : NotAfter(q[1], q[2])}}
Batches ==
  Few({Entry(1, <<>>, <<k, v>>) : k \in Strings, v \in Strings} \cup {Entry(0, <<>>, <<k>>) : k \in Strings})

MemTables ==
  LET Entered(seq) == {[user |-> u, seq |-> seq, type |-> TypeValue, value |-> v] :
                         u \in Strings, v \in Strings}
                      \cup {[user |-> u, seq |-> seq, type |-> 0, value |-> <<>>] : u \in Strings}
      InOrder(a, b) == IF BytewiseLess(a.user, b.user) THEN <<a, b>> ELSE <<b, a>>
  IN  {InOrder(a, b) : a \in Entered(1), b \in Entered(2)}

Init == source = [kind |-> "none"] /\ input = <<>> /\ whole = TRUE /\ result = Unread
WriteEdit ==
  /\ source.kind = "none"
  /\ \E edit \in Edits : /\ source' = [kind |-> "edit", entries |-> Entries(edit)]
                         /\ input' = EncodeTo(Entries(edit))
  /\ UNCHANGED <<whole, result>>
WriteBatch ==
  /\ source.kind = "none"
  /\ \E batch \in Batches : /\ source' = [kind |-> "batch", entries |-> batch]
                            /\ input' = BatchContents(batch)
  /\ UNCHANGED <<whole, result>>
FinishTable ==
  /\ source.kind = "none"
  /\ \E contents \in Strings, verify \in BOOLEAN,
       metaindex \in (FileNumbers \ {Absent}) \X (FileNumbers \ {Absent}) :
       /\ source' = [kind |-> "table", entries |-> <<metaindex, contents>>, verify |-> verify]
       /\ input' = WithTrailer(contents) \o EncodeFooter(metaindex, <<0, Len(contents)>>)
  /\ UNCHANGED <<whole, result>>
\* The entries inserted first and second, and what is looked up among them.
FillMemTable ==
  /\ source.kind = "none"
  /\ \E entries \in MemTables, u \in Strings, s \in 0..2 :
       /\ source' = [kind |-> "memtable", entries |-> entries, lookup |-> [user |-> u, seq |-> s]]
       /\ input' = MemTableAdd(entries[1]) \o MemTableAdd(entries[2])
  /\ UNCHANGED <<whole, result>>
CutOff ==
  /\ source.kind \notin {"none", "memtable"} /\ whole /\ result = Unread
  /\ \E n \in 0..(Len(input) - 1) : input' = SubSeq(input, 1, n)
  /\ whole' = FALSE /\ UNCHANGED <<source, result>>
\* A byte of a block whose checksum will be looked at.
Damage ==
  /\ source.kind = "table" /\ whole /\ result = Unread /\ source.verify
  /\ \E i \in 1..(Len(source.entries[2]) + 2) : input' = [input EXCEPT ![i] = @ + 1]
  /\ whole' = FALSE /\ UNCHANGED <<source, result>>
Read ==
  /\ source.kind # "none" /\ result = Unread
  /\ result' = CASE source.kind = "edit" -> DecodeFrom
                 [] source.kind = "batch" -> Iterate
                 [] source.kind = "table" -> OpenTable
                 [] source.kind = "memtable" -> ReadMemTable
  /\ UNCHANGED <<source, input, whole>>
Next == WriteEdit \/ WriteBatch \/ FinishTable \/ FillMemTable \/ CutOff \/ Damage \/ Read
Spec == Init /\ [][Next]_vars
----------------------------------------------------------------------------
IsRead == result # Unread

\* What was written is read again: every field at the bounds of its varint.
\* Get of a memtable finds the newest entry of the user the lookup covers.
RoundTrip ==
  IsRead /\ whole =>
    /\ result.ok /\ result.read = source.entries
    /\ source.kind = "memtable" =>
         LET covered == {i \in DOMAIN source.entries :
                           /\ source.entries[i].user = source.lookup.user
                           /\ source.entries[i].seq <= source.lookup.seq}
         IN  IF covered = {} THEN result.end = 0
             ELSE /\ result.end \in covered
                  /\ \A i \in covered : source.entries[i].seq <= source.entries[result.end].seq

\* What was cut off is noticed: nothing but whole entries is ever handed over,
\* and a batch or a table is then refused; only an edit cut between two entries
\* is not.  So is a damaged block, when checksums are verified.
CutIsNoticed ==
  IsRead /\ ~whole =>
    /\ \E n \in 0..Len(source.entries) :
         /\ result.read = SubSeq(source.entries, 1, n)
         /\ result.ok => n < Len(source.entries)
    /\ result.ok => source.kind = "edit"
=============================================================================
