----------------------------- MODULE HandleTable -----------------------------
(* The hash tables of a cache (HandleTable, util/cache.cc): one for each    *)
(* shard of a ShardedLRUCache, its methods called with the mutex of the     *)
(* shard held.  Buckets are lists of handles; there are more of them as the *)
(* number of handles grows.                                                 *)
EXTENDS Naturals, FiniteSets, SequencesExt

CONSTANTS TableKeys,
          TableHash,  \* [TableKeys -> hash]
          ShardSize,  \* hashes of a shard: 2^28 in the code, for 16 shards
          MinLength   \* buckets at first, 4 in the code

VARIABLES list,      \* shard -> the buckets of its table, list_
          elems,     \* shard -> elems_
          inserted   \* key -> the handle inserted last and not removed, or 0

vars == <<list, elems, inserted>>

\* A key may be inserted again while its older handle is in the table.
Handles == {1, 2}
\* The upper bits of the hash say in which shard, the lower in which bucket.
Shard(key) == TableHash[key] \div ShardSize
Shards == {Shard(key) : key \in TableKeys}
Bucket(length, key) == (TableHash[key] % length) + 1

\* The place of the key in its bucket, after the last one when it is not there.
FindPointer(bucket, key) ==
  LET at == SelectInSeq(bucket, LAMBDA h : h.key = key)
  IN  IF at = 0 THEN Len(bucket) + 1 ELSE at
HandleAt(bucket, i) == IF i <= Len(bucket) THEN bucket[i].handle ELSE 0
Lookup(key) ==
  LET table == list[Shard(key)]
      bucket == table[Bucket(Len(table), key)]
  IN  HandleAt(bucket, FindPointer(bucket, key))

\* Handles are taken out of the old buckets in order and put in front of what
\* is in the new ones.
Resized(buckets, n) ==
  LET lengths == {MinLength * 2^i : i \in 0..n}
      length == CHOOSE l \in lengths : l >= n /\ \A m \in lengths : m >= n => l <= m
      all == FlattenSeq(buckets)
  IN  [b \in 1..length |-> Reverse(SelectSeq(all, LAMBDA h : Bucket(length, h.key) = b))]

Insert(key) ==
  LET s == Shard(key)
      table == list[s]
      b == Bucket(Len(table), key)
      i == FindPointer(table[b], key)
      h == [key |-> key, handle |-> CHOOSE x \in Handles : x # inserted[key]]
      isNew == i > Len(table[b])
      more == [table EXCEPT ![b] = IF isNew THEN Append(@, h) ELSE [@ EXCEPT ![i] = h]]
      n == IF isNew THEN elems[s] + 1 ELSE elems[s]
  IN  /\ elems' = [elems EXCEPT ![s] = n]
      /\ list' = [list EXCEPT ![s] = IF isNew /\ n > Len(table) THEN Resized(more, n) ELSE more]
      /\ inserted' = [inserted EXCEPT ![key] = h.handle]

RemoveKey(key) ==
  LET s == Shard(key)
      b == Bucket(Len(list[s]), key)
      i == FindPointer(list[s][b], key)
  IN  /\ IF i <= Len(list[s][b])
         THEN /\ list' = [list EXCEPT ![s][b] = RemoveAt(@, i)]
              /\ elems' = [elems EXCEPT ![s] = @ - 1]
         ELSE UNCHANGED <<list, elems>>
      /\ inserted' = [inserted EXCEPT ![key] = 0]

Init ==
  /\ list = [s \in Shards |-> [b \in 1..MinLength |-> <<>>]] /\ elems = [s \in Shards |-> 0]
  /\ inserted = [key \in TableKeys |-> 0]
Next == \E key \in TableKeys : Insert(key) \/ RemoveKey(key)
Spec == Init /\ [][Next]_vars
----------------------------------------------------------------------------
\* Each key is found with the handle inserted last, and no other is left over,
\* however the table has grown.
FindsInserted ==
  /\ \A key \in TableKeys : Lookup(key) = inserted[key]
  /\ \A s \in Shards :
       LET held == {key \in TableKeys : Shard(key) = s /\ inserted[key] # 0}
       IN  elems[s] = Cardinality(held) /\ Len(FlattenSeq(list[s])) = Cardinality(held)
=============================================================================
