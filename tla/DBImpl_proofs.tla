---------------------------- MODULE DBImpl_proofs ---------------------------
(***************************************************************************)
(* Proofs about the storage engine's writers, background thread, readers,  *)
(* crashes and recovery (DBImpl), for every number of threads and readers  *)
(* and every value of the options and of the bounds: types, writers and    *)
(* logs first, then which table files there are, what the MANIFEST and the *)
(* readers need of them, that what was reported written stays, and that    *)
(* batches stay whole.                                                     *)
(***************************************************************************)
EXTENDS DBImpl, SequenceFacts

Entry == [seq : Nat, batch : Nat]
LogFile == [records : Seq(Seq(Entry)), synced : Nat]
Version == [level0 : SUBSET Nat, deeper : SUBSET Nat]
Manifest == [level0 : SUBSET Nat, deeper : SUBSET Nat, log : Nat, next : Nat, last : Nat]
Edit == [added0 : SUBSET Nat, addedDeeper : SUBSET Nat, deleted : SUBSET Nat,
         log : Nat, next : Nat, last : Nat]
Garbage == [logs : SUBSET Nat, tables : SUBSET Nat]
Nothing == {<<>>}
Callers == {"idle", "queued", "room", "wait", "log", "sync", "insert", "finish"}
Works == {"off", "scheduled", "build", "built", "failed", "merge", "commit", "delete", "end"}

(* What the variables hold.                                                *)
LogsTyped ==
  /\ logs \in [DOMAIN logs -> LogFile] /\ DOMAIN logs \subseteq Nat
  /\ \A n \in DOMAIN logs : logs[n].synced <= Len(logs[n].records)
  /\ DOMAIN tables \subseteq Nat
MemoryTyped ==
  /\ memtables \in [DOMAIN memtables -> SUBSET Entry] /\ DOMAIN memtables \subseteq Nat
  /\ imm \in Nat /\ logNumber \in Nat /\ minLog \in Nat /\ nextFile \in Nat
  /\ lastSequence \in Nat /\ version \in Version /\ pendingOutputs \subseteq Nat
  /\ bgError \in BOOLEAN
OpeningTyped ==
  /\ db \in {"open", "closing", "closed", "replaying", "recovering"}
  /\ db = "replaying" => replay \in [from : Manifest, logs : SUBSET Nat, read : Nat,
                                     mem : SUBSET Entry, added : SUBSET Nat]
  /\ db # "replaying" => replay = NoReplay
  /\ manifests \subseteq Manifest /\ manifests # {}
BgTyped ==
  /\ bg \in [pc : Works, what : {"flush", "merge"}, number : Nat, edit : Edit \cup Nothing,
             before : SUBSET Manifest, garbage : Garbage \cup Nothing, merging : BOOLEAN,
             inputs : SUBSET Nat, output : Nat]
  /\ bg.pc = "commit" => bg.edit \in Edit /\ bg.before # {}
  /\ bg.pc = "delete" => bg.garbage \in Garbage
QueueTyped ==
  /\ writers \in Seq(Threads)
  /\ thread \in [Threads -> [pc : Callers, batch : Nat, sync : BOOLEAN]]
  /\ lead \in [force : BOOLEAN, delay : BOOLEAN, size : Nat,
               todo : Seq(Entry), failed : BOOLEAN, syncError : BOOLEAN]
Read(x) ==
  /\ x = [on |-> x.on, seq |-> x.seq, mems |-> x.mems, files |-> x.files, expect |-> x.expect]
  /\ x.on \in BOOLEAN /\ x.seq \in Nat /\ x.mems \subseteq Nat /\ x.files \subseteq Nat
ReaderTyped == DOMAIN reader = Readers /\ \A r \in Readers : Read(reader[r])
HistoryTyped == promised \subseteq Nat \X BOOLEAN /\ lastBatch \in Nat

(* The queue of writers, and who may be where.                             *)
\* t writes a group.
Leading(t) == thread[t].pc \in {"log", "sync", "insert", "finish"}
\* Nobody waits twice in writers_.
OnceInQueue ==
  \A i, j \in 1..Len(writers) : writers[i] = writers[j] => i = j
\* Who is in no call is not in the queue, all others are.
IdleOutside ==
  \A t \in Threads : thread[t].pc = "idle" <=> ~\E i \in 1..Len(writers) : writers[i] = t
\* Only the head of the queue does anything.
HeadActs ==
  \A t \in Threads : thread[t].pc \notin {"idle", "queued"} => writers # <<>> /\ writers[1] = t
\* Writers and readers are there while the database is open, and the background
\* thread until it is closed.
OnlyWhenOpen ==
  /\ db # "open" => writers = <<>> /\ \A r \in Readers : ~reader[r].on
  /\ db \notin {"open", "closing"} => bg = BgOff /\ bgError = FALSE /\ imm = 0
  /\ db = "replaying" => replay.logs \subseteq DOMAIN logs /\ 0 < nextFile

(* Memtables, and the group the leader writes.                             *)
Running == db \in {"open", "closing", "recovering"}
\* mem_ and imm_ exist; the log of mem_ is the newest.
Numbered ==
  Running =>
    /\ logNumber \in DOMAIN memtables /\ 0 < logNumber /\ logNumber < nextFile
    /\ imm # 0 => imm \in DOMAIN memtables /\ imm < logNumber
    /\ \A n \in DOMAIN memtables : n <= logNumber
\* Entries in mem_ that do not count yet, because the leader is inserting them.
Fresh == {e \in memtables[logNumber] : e.seq > lastSequence}
Inserting == \E t \in Threads : thread[t].pc \in {"insert", "finish"}
\* All others count.
Sequenced ==
  Running =>
    /\ \A n \in DOMAIN memtables \ {logNumber} : \A e \in memtables[n] : e.seq <= lastSequence
    /\ ~Inserting => Fresh = {}
\* What the leader has inserted after k turns.
FirstEntries(k) == {lead.todo[i] : i \in 1..k}
\* The leader's group: its numbers follow last_sequence_, every batch of the group is
\* in it, a sync write has a leader that syncs, and what is inserted is a front of it.
GroupInv(t) ==
  /\ lead.size \in 1..Len(writers)
  /\ 0 < Len(lead.todo)
  /\ \A j \in 1..Len(lead.todo) : lead.todo[j].seq = lastSequence + j
  /\ \A i \in 1..lead.size : thread[writers[i]].batch # 0 =>
       \E j \in 1..Len(lead.todo) : lead.todo[j].batch = thread[writers[i]].batch
  /\ \A i \in 1..lead.size : thread[writers[i]].sync => thread[t].sync
  /\ thread[t].pc = "insert" => \E k \in 0..(Len(lead.todo) - 1) : Fresh = FirstEntries(k)
  /\ thread[t].pc = "finish" => Fresh = IF lead.failed THEN {} ELSE FirstEntries(Len(lead.todo))
\* That holds of whoever leads; only a failed write is remembered.
LeadInv ==
  /\ \A t \in Threads : Leading(t) => GroupInv(t)
  /\ lead.failed => \E t \in Threads : thread[t].pc = "finish"

----------------------------------------------------------------------------
(* What the leader's group holds.                                          *)
LEMMA GroupSize ==
  ASSUME QueueTyped, writers # <<>>
  PROVE  /\ BuildBatchGroup \in 1..Len(writers)
         /\ \A i \in 2..BuildBatchGroup : thread[writers[i]].sync => thread[writers[1]].sync
<1>. DEFINE S == {n \in 1..Len(writers) :
                    /\ \A i \in 2..n : thread[writers[i]].sync => thread[writers[1]].sync
                    /\ Cardinality(Batches(n)) <= MaxGroup}
<1>1. Len(writers) \in Nat /\ 1 \in 1..Len(writers) /\ MaxGroup \in Nat /\ 1 <= MaxGroup
  <2>1. writers \in Seq(Threads) /\ writers # <<>>
    BY DEF QueueTyped
  <2>2. Len(writers) \in Nat /\ Len(writers) # 0
    BY <2>1, EmptySeq, LenProperties
  <2>. QED
    BY <2>2, DBImplAssumption
<1>2. Cardinality(Batches(1)) <= MaxGroup
  <2>1. Batches(1) \in SUBSET {1}
    BY DEF Batches
  <2>2. IsFiniteSet({1}) /\ Cardinality({1}) = 1
    BY FS_Singleton
  <2>3. IsFiniteSet(Batches(1)) /\ Cardinality(Batches(1)) <= 1
    BY <2>1, <2>2, FS_Subset
  <2>4. Cardinality(Batches(1)) \in Nat
    BY <2>3, FS_CardinalityType
  <2>. QED
    BY <1>1, <2>3, <2>4
<1>3. 1 \in S
  BY <1>1, <1>2
<1>4. S \in SUBSET Nat /\ S # {} /\ IsFiniteSet(S)
  <2>1. IsFiniteSet(1..Len(writers))
    BY <1>1, FS_Interval
  <2>2. S \in SUBSET (1..Len(writers))
    OBVIOUS
  <2>3. IsFiniteSet(S)
    BY <2>1, <2>2, FS_Subset
  <2>. QED
    BY <1>1, <1>3, <2>2, <2>3
<1>5. BuildBatchGroup = Max(S)
  BY DEF BuildBatchGroup
<1>. HIDE DEF S
<1>6. BuildBatchGroup \in S
  BY <1>4, <1>5, MaxProperties
<1>. QED
  BY <1>6 DEF S

LEMMA Quotient ==
  ASSUME NEW b \in Nat, 0 < b, NEW q \in Nat, NEW x \in Nat
  PROVE  x \div b = q <=> q * b <= x /\ x < q * b + b
BY SMT

LEMMA Multiples ==
  ASSUME NEW b \in Nat, 0 < b, NEW c \in Nat, NEW r \in Nat, r < c
  PROVE  r * b \in Nat /\ r * b + b <= c * b
<1>1. PICK d \in Nat : c = r + 1 + d
  OBVIOUS
<1>. QED
  BY <1>1, SMT

LEMMA GroupWriters ==
  ASSUME QueueTyped, lastSequence \in Nat, NEW n \in 1..Len(writers),
         thread[writers[1]].batch # 0
  PROVE  /\ GroupEntries(n) \in Seq(Entry) /\ 0 < Len(GroupEntries(n))
         /\ \A j \in 1..Len(GroupEntries(n)) : GroupEntries(n)[j].seq = lastSequence + j
         /\ \E w \in [1..Len(GroupEntries(n)) -> Batches(n)] :
              /\ \A j \in 1..Len(GroupEntries(n)) :
                   GroupEntries(n)[j].batch = thread[writers[w[j]]].batch
              /\ \A i \in Batches(n) : \E q \in Nat :
                   /\ q + BatchSize <= Len(GroupEntries(n))
                   /\ \A j \in 1..Len(GroupEntries(n)) : w[j] = i <=> j \in (q + 1)..(q + BatchSize)
<1>. DEFINE P == Batches(n)
            c == Cardinality(P)
            b == BatchSize
            rank == [i \in 1..n |-> Cardinality(P \cap (1..i))]
            Writer(j) == CHOOSE i \in P : Cardinality(Batches(i)) = ((j - 1) \div b) + 1
            G == GroupEntries(n)
<1>1. /\ writers \in Seq(Threads) /\ Len(writers) \in Nat /\ n \in Nat /\ 1 \in 1..n
      /\ \A i \in 1..n : writers[i] \in Threads /\ thread[writers[i]].batch \in Nat
  BY DEF QueueTyped
<1>2. P \in SUBSET (1..n) /\ 1 \in P
  BY <1>1 DEF Batches
<1>3. b \in Nat /\ 0 < b
  BY DBImplAssumption
<1>4. c \in Nat /\ 0 < c
  <2>1. IsFiniteSet(P) /\ c \in Nat
    BY <1>1, <1>2, RankProperties
  <2>2. c # 0
    BY <1>2, <2>1, FS_EmptySet
  <2>. QED
    BY <2>1, <2>2
<1>5. \A i \in P : Batches(i) = P \cap (1..i)
  BY <1>1 DEF Batches
<1>6. \A i \in P : rank[i] \in 1..c
  <2>1. TAKE i \in P
  <2>2. i \in 1..n /\ i - 1 \in 0..n /\ i \in 0..n
    BY <1>1, <1>2
  <2>3. /\ Cardinality(P \cap (1..i)) \in 0..c
        /\ Cardinality(P \cap (1..(i - 1))) \in 0..c
        /\ Cardinality(P \cap (1..i)) = Cardinality(P \cap (1..(i - 1))) + 1
    BY <1>1, <1>2, <2>2, RankProperties
  <2>. QED
    BY <1>4, <2>2, <2>3
<1>7. \A i, k \in P : rank[i] = rank[k] => i = k
  <2>1. TAKE i, k \in P
  <2>2. rank[i] = Cardinality(P \cap (1..i)) /\ rank[k] = Cardinality(P \cap (1..k))
    BY <1>2
  <2>. QED
    BY <1>1, <1>2, <2>2, RankInjective
<1>8. \A r \in 1..c : \E i \in P : rank[i] = r
  <2>1. TAKE r \in 1..c
  <2>2. PICK i \in P : Cardinality(P \cap (1..i)) = r
    BY <1>1, <1>2, RankReached
  <2>. QED
    BY <1>2, <2>2
<1>9. \A i \in P : Cardinality(Batches(i)) = rank[i]
  BY <1>2, <1>5
<1>10. c * b \in Nat /\ \A j \in 1..(c * b) : ((j - 1) \div b) + 1 \in 1..c
  <2>1. c * b \in Nat
    BY <1>3, <1>4, SMT
  <2>2. ASSUME NEW j \in 1..(c * b) PROVE (j - 1) \div b \in 0..(c - 1)
    <3>1. j \in Nat /\ 1 <= j /\ j <= c * b
      BY <2>1
    <3>. HIDE DEF c, b
    <3>. QED
      BY <1>3, <1>4, <3>1, SMT
  <2>. QED
    BY <1>4, <2>1, <2>2
<1>11. G = [j \in 1..(c * b) |-> [seq |-> lastSequence + j,
                                  batch |-> thread[writers[Writer(j)]].batch]]
  BY DEF GroupEntries
<1>. HIDE DEF P, c, b, rank, G
<1>12. ASSUME NEW j \in 1..(c * b)
       PROVE  Writer(j) \in P /\ rank[Writer(j)] = ((j - 1) \div b) + 1
  <2>1. \E i \in P : Cardinality(Batches(i)) = ((j - 1) \div b) + 1
    BY <1>8, <1>9, <1>10
  <2>2. Writer(j) \in P /\ Cardinality(Batches(Writer(j))) = ((j - 1) \div b) + 1
    BY <2>1
  <2>. HIDE DEF Writer
  <2>. QED
    BY <1>9, <2>2
<1>. HIDE DEF Writer
<1>13. G \in Seq(Entry) /\ Len(G) = c * b
  <2>1. \A j \in 1..(c * b) : Writer(j) \in 1..n
    BY <1>2, <1>12
  <2>2. \A j \in 1..(c * b) : [seq |-> lastSequence + j,
                               batch |-> thread[writers[Writer(j)]].batch] \in Entry
    BY <1>1, <2>1 DEF Entry
  <2>. QED
    BY <1>10, <1>11, <2>2
<1>14. 0 < c * b
  BY <1>3, <1>4, SMT
<1>15. \A j \in 1..(c * b) : G[j].seq = lastSequence + j /\ G[j].batch = thread[writers[Writer(j)]].batch
  BY <1>11
<1>. DEFINE w == [j \in 1..(c * b) |-> Writer(j)]
<1>16. w \in [1..(c * b) -> P] /\ \A j \in 1..(c * b) : G[j].batch = thread[writers[w[j]]].batch
  BY <1>12, <1>15
<1>17. ASSUME NEW i \in P
       PROVE  \E q \in Nat : /\ q + b <= c * b
                             /\ \A j \in 1..(c * b) : w[j] = i <=> j \in (q + 1)..(q + b)
  <2>1. PICK r \in Nat : r = rank[i] - 1 /\ r < c
    BY <1>4, <1>6
  <2>2. r * b \in Nat /\ r * b + b <= c * b
    BY <1>3, <1>4, <2>1, Multiples
  <2>3. ASSUME NEW j \in 1..(c * b) PROVE w[j] = i <=> j \in (r * b + 1)..(r * b + b)
    <3>1. j \in Nat /\ j - 1 \in Nat
      BY <1>10
    <3>2. w[j] = i <=> rank[w[j]] = rank[i]
      BY <1>7, <1>16
    <3>3. rank[w[j]] = ((j - 1) \div b) + 1 /\ (j - 1) \div b \in Nat /\ rank[i] \in Nat
      BY <1>6, <1>12, <3>1, <1>3
    <3>4. w[j] = i <=> (j - 1) \div b = r
      BY <2>1, <3>2, <3>3
    <3>5. PICK x \in Nat : x = j - 1
      BY <3>1
    <3>6. x \div b = r <=> r * b <= x /\ x < r * b + b
      BY <1>3, <2>1, Quotient
    <3>. QED
      BY <1>3, <2>2, <3>1, <3>4, <3>5, <3>6
  <2>. QED
    BY <2>2, <2>3
<1>18. \A i \in P : \E q \in Nat :
         q + b <= c * b /\ \A j \in 1..(c * b) : w[j] = i <=> j \in (q + 1)..(q + b)
  BY <1>17
<1>. HIDE DEF w
<1>19. \E v \in [1..Len(G) -> P] :
         /\ \A j \in 1..Len(G) : G[j].batch = thread[writers[v[j]]].batch
         /\ \A i \in P : \E q \in Nat :
              q + b <= Len(G) /\ \A j \in 1..Len(G) : v[j] = i <=> j \in (q + 1)..(q + b)
  BY <1>13, <1>16, <1>18
<1>20. G \in Seq(Entry) /\ 0 < Len(G) /\ \A j \in 1..Len(G) : G[j].seq = lastSequence + j
  BY <1>13, <1>14, <1>15
<1>. QED
  BY <1>19, <1>20 DEF G, P, b


LEMMA GroupHolds ==
  ASSUME QueueTyped, lastSequence \in Nat, NEW n \in 1..Len(writers),
         thread[writers[1]].batch # 0
  PROVE  /\ GroupEntries(n) \in Seq(Entry) /\ 0 < Len(GroupEntries(n))
         /\ \A j \in 1..Len(GroupEntries(n)) : GroupEntries(n)[j].seq = lastSequence + j
         /\ \A i \in 1..n : thread[writers[i]].batch # 0 =>
              \E j \in 1..Len(GroupEntries(n)) :
                GroupEntries(n)[j].batch = thread[writers[i]].batch
<1>. DEFINE G == GroupEntries(n)
<1>1. /\ G \in Seq(Entry) /\ 0 < Len(G)
      /\ \A j \in 1..Len(G) : G[j].seq = lastSequence + j
  BY GroupWriters
<1>2. PICK w \in [1..Len(G) -> Batches(n)] :
        /\ \A j \in 1..Len(G) : G[j].batch = thread[writers[w[j]]].batch
        /\ \A i \in Batches(n) : \E q \in Nat :
             /\ q + BatchSize <= Len(G)
             /\ \A j \in 1..Len(G) : w[j] = i <=> j \in (q + 1)..(q + BatchSize)
  BY GroupWriters
<1>. HIDE DEF G
<1>3. ASSUME NEW i \in 1..n, thread[writers[i]].batch # 0
      PROVE  \E j \in 1..Len(G) : G[j].batch = thread[writers[i]].batch
  <2>1. i \in Batches(n)
    BY <1>3 DEF Batches
  <2>2. PICK q \in Nat : /\ q + BatchSize <= Len(G)
                         /\ \A j \in 1..Len(G) : w[j] = i <=> j \in (q + 1)..(q + BatchSize)
    BY <1>2, <2>1
  <2>3. BatchSize \in Nat /\ 0 < BatchSize /\ Len(G) \in Nat
    BY <1>1, DBImplAssumption
  <2>4. q + 1 \in 1..Len(G) /\ q + 1 \in (q + 1)..(q + BatchSize)
    BY <2>2, <2>3
  <2>. QED
    BY <1>2, <2>2, <2>4
<1>. QED
  BY <1>1, <1>3 DEF G
----------------------------------------------------------------------------
(* The queue.                                                              *)
LEMMA WritersAre ==
  ASSUME QueueTyped
  PROVE  /\ writers \in Seq(Threads) /\ Len(writers) \in Nat
         /\ \A i \in 1..Len(writers) : writers[i] \in Threads
         /\ writers # <<>> => Len(writers) >= 1 /\ writers[1] \in Threads /\ Head(writers) = writers[1]
         /\ writers = <<>> => Len(writers) = 0
<1>1. writers \in Seq(Threads) /\ Len(writers) \in Nat
  BY DEF QueueTyped
<1>2. \A i \in 1..Len(writers) : writers[i] \in Threads
  BY <1>1
<1>3. writers # <<>> => Len(writers) >= 1
  BY <1>1, EmptySeq, LenProperties
<1>. QED
  BY <1>1, <1>2, <1>3

\* Each batch of the group is there with all its entries.
LEMMA GroupWhole ==
  ASSUME QueueTyped, OnceInQueue, lastSequence \in Nat, NEW n \in 1..Len(writers),
         thread[writers[1]].batch # 0,
         \A t, u \in Threads : thread[t].batch # 0 /\ thread[t].batch = thread[u].batch => t = u
  PROVE  /\ \A j \in 1..Len(GroupEntries(n)) : \E i \in 1..n :
              thread[writers[i]].batch # 0 /\ GroupEntries(n)[j].batch = thread[writers[i]].batch
         /\ \A e \in RecordEntries(GroupEntries(n)) :
              Cardinality({f \in RecordEntries(GroupEntries(n)) : f.batch = e.batch}) = BatchSize
<1>. DEFINE G == GroupEntries(n)
<1>1. /\ G \in Seq(Entry) /\ 0 < Len(G)
      /\ \A j \in 1..Len(G) : G[j].seq = lastSequence + j
  BY GroupWriters
<1>2. PICK w \in [1..Len(G) -> Batches(n)] :
        /\ \A j \in 1..Len(G) : G[j].batch = thread[writers[w[j]]].batch
        /\ \A i \in Batches(n) : \E q \in Nat :
             /\ q + BatchSize <= Len(G)
             /\ \A j \in 1..Len(G) : w[j] = i <=> j \in (q + 1)..(q + BatchSize)
  BY GroupWriters
<1>. HIDE DEF G
<1>3. \A i \in Batches(n) : i \in 1..n /\ i \in 1..Len(writers) /\ thread[writers[i]].batch # 0
                              /\ writers[i] \in Threads
  BY WritersAre DEF Batches
<1>4. RecordEntries(G) = {G[j] : j \in 1..Len(G)} /\ Len(G) \in Nat
  <2>1. DOMAIN G = 1..Len(G) /\ Len(G) \in Nat
    BY <1>1
  <2>. QED
    BY <2>1 DEF RecordEntries
<1>5. ASSUME NEW k \in 1..Len(G)
      PROVE  Cardinality({f \in RecordEntries(G) : f.batch = G[k].batch}) = BatchSize
  <2>. DEFINE i == w[k]
              S == {f \in RecordEntries(G) : f.batch = G[k].batch}
  <2>1. i \in Batches(n)
    BY <1>2
  <2>2. PICK q \in Nat : /\ q + BatchSize <= Len(G)
                         /\ \A j \in 1..Len(G) : w[j] = i <=> j \in (q + 1)..(q + BatchSize)
    BY <1>2, <2>1
  <2>3. ASSUME NEW j \in 1..Len(G) PROVE G[j].batch = G[k].batch <=> w[j] = i
    <3>1. w[j] \in Batches(n) /\ G[j].batch = thread[writers[w[j]]].batch
          /\ G[k].batch = thread[writers[i]].batch
      BY <1>2
    <3>2. writers[w[j]] = writers[i] => w[j] = i
      BY <1>3, <2>1, <3>1 DEF OnceInQueue
    <3>. QED
      BY <1>3, <2>1, <3>1, <3>2
  <2>4. BatchSize \in Nat
    BY DBImplAssumption
  <2>. HIDE DEF i
  <2>5. S = {G[j] : j \in (q + 1)..(q + BatchSize)}
    <3>1. \A j \in (q + 1)..(q + BatchSize) : j \in 1..Len(G)
      BY <1>4, <2>2, <2>4
    <3>. QED
      BY <1>4, <2>2, <2>3, <3>1
  <2>. DEFINE D == (q + 1)..(q + BatchSize)
              f == [j \in D |-> G[j]]
  <2>6. \A j \in D : j \in 1..Len(G) /\ j \in Nat
    BY <1>4, <2>2, <2>4
  <2>7. IsFiniteSet(D) /\ Cardinality(D) = BatchSize
    <3>1. q + 1 \in Int /\ q + BatchSize \in Int
      BY <2>4
    <3>2. IsFiniteSet(D) /\ Cardinality(D) = IF q + 1 > q + BatchSize THEN 0 ELSE (q + BatchSize) - (q + 1) + 1
      BY <3>1, FS_Interval
    <3>. HIDE DEF D
    <3>. QED
      BY <2>4, <3>2
  <2>8. f \in Surjection(D, S)
    BY <2>5 DEF Surjection
  <2>9. f \in Injection(D, S)
    <3>1. f \in [D -> S]
      BY <2>5
    <3>2. ASSUME NEW x \in D, NEW y \in D, f[x] = f[y] PROVE x = y
      <4>1. G[x].seq = lastSequence + x /\ G[y].seq = lastSequence + y /\ G[x] = G[y]
        BY <1>1, <2>6, <3>2
      <4>. QED
        BY <2>6, <4>1
    <3>. HIDE DEF f, D, S
    <3>. QED
      BY <3>1, <3>2 DEF Injection, IsInjective
  <2>. HIDE DEF f, D, S
  <2>10. Cardinality(S) = Cardinality(D)
    BY <2>7, <2>8, <2>9, FS_Surjection
  <2>. QED
    BY <2>7, <2>10 DEF S
<1>6. ASSUME NEW j \in 1..Len(G)
      PROVE  \E i \in 1..n : thread[writers[i]].batch # 0 /\ G[j].batch = thread[writers[i]].batch
  <2>1. w[j] \in Batches(n) /\ G[j].batch = thread[writers[w[j]]].batch
    BY <1>2
  <2>. QED
    BY <1>3, <2>1
<1>. QED
  BY <1>4, <1>5, <1>6 DEF G

QueueKept == QueueTyped /\ OnceInQueue /\ IdleOutside /\ HeadActs
LeadAway == (\A t \in Threads : thread[t].pc \in {"idle", "queued", "room"}) /\ lead.failed = FALSE

LEMMA Popped ==
  ASSUME QueueKept, NEW n \in 1..Len(writers), PopWriters(n)
  PROVE  QueueKept' /\ LeadAway' /\ Len(writers') = Len(writers) - n
<1>. DEFINE gone == {writers[i] : i \in 1..n}
            head == IF Len(writers) > n THEN writers[n + 1] ELSE None
<1>1. /\ writers \in Seq(Threads) /\ Len(writers) \in Nat /\ n \in Nat /\ 1 <= n /\ n <= Len(writers)
      /\ \A i \in 1..Len(writers) : writers[i] \in Threads
  BY WritersAre DEF QueueKept
<1>2. /\ writers' \in Seq(Threads) /\ Len(writers') = Len(writers) - n
      /\ \A i \in 1..Len(writers') : writers'[i] = writers[n + i] /\ n + i \in 1..Len(writers)
  <2>1. writers' = SubSeq(writers, n + 1, Len(writers))
    BY DEF PopWriters
  <2>2. n + 1 \in 1..(Len(writers) + 1) /\ Len(writers) \in n..Len(writers)
    BY <1>1
  <2>. QED
    BY <1>1, <2>1, <2>2
<1>3. /\ thread' = [t \in Threads |-> IF t \in gone THEN Idle
                                     ELSE IF t = head THEN [thread[t] EXCEPT !.pc = "room"]
                                     ELSE thread[t]]
      /\ lead' = IF head = None THEN NoLead
                 ELSE [NoLead EXCEPT !.force = thread[head].batch = 0,
                                     !.delay = thread[head].batch # 0]
  BY DEF PopWriters
<1>4. thread \in [Threads -> [pc : Callers, batch : Nat, sync : BOOLEAN]]
  BY DEF QueueKept, QueueTyped
<1>5. QueueTyped'
  <2>1. thread' \in [Threads -> [pc : Callers, batch : Nat, sync : BOOLEAN]]
    BY <1>3, <1>4 DEF Idle, Callers
  <2>2. lead' \in [force : BOOLEAN, delay : BOOLEAN, size : Nat,
                   todo : Seq(Entry), failed : BOOLEAN, syncError : BOOLEAN]
        /\ lead'.failed = FALSE
    <3>1. <<>> \in Seq(Entry)
      OBVIOUS
    <3>. QED
      BY <1>3, <3>1 DEF NoLead
  <2>. QED
    BY <1>2, <2>1, <2>2 DEF QueueTyped
<1>6. OnceInQueue'
  BY <1>1, <1>2 DEF QueueKept, OnceInQueue
<1>7. head = None \/ head \in Threads
  BY <1>1
<1>8. None \notin Threads
  BY DBImplAssumption DEF None
<1>9. \A t \in Threads : t \in gone <=> \E i \in 1..n : writers[i] = t
  OBVIOUS
<1>10. \A t \in Threads : t = head <=> Len(writers) > n /\ writers[n + 1] = t
  BY <1>8
<1>. HIDE DEF gone, head
<1>11. ASSUME NEW t \in Threads
       PROVE  /\ thread'[t].pc = "idle" <=> ~\E i \in 1..Len(writers') : writers'[i] = t
              /\ thread'[t].pc \in {"idle", "queued", "room"}
              /\ thread'[t].pc = "room" => writers' # <<>> /\ writers'[1] = t
  <2>1. thread[t].pc = "idle" <=> ~\E i \in 1..Len(writers) : writers[i] = t
    BY DEF QueueKept, IdleOutside
  <2>2. thread[t].pc \notin {"idle", "queued"} => writers[1] = t
    BY DEF QueueKept, HeadActs
  <2>3. CASE t \in gone
    <3>1. PICK i \in 1..n : writers[i] = t
      BY <1>9, <2>3
    <3>2. thread'[t].pc = "idle"
      BY <1>3, <2>3 DEF Idle
    <3>3. ASSUME NEW k \in 1..Len(writers') PROVE writers'[k] # t
      <4>1. writers'[k] = writers[n + k] /\ n + k \in 1..Len(writers)
        BY <1>2
      <4>2. i \in 1..Len(writers) /\ i # n + k
        BY <1>1, <1>2
      <4>. QED
        BY <3>1, <4>1, <4>2 DEF QueueKept, OnceInQueue
    <3>. QED
      BY <3>2, <3>3
  <2>4. CASE t \notin gone /\ t = head
    <3>1. thread'[t].pc = "room"
      BY <1>3, <1>4, <2>4
    <3>2. Len(writers) > n /\ writers[n + 1] = t
      BY <1>10, <2>4
    <3>3. 1 \in 1..Len(writers') /\ writers'[1] = t
      BY <1>1, <1>2, <3>2
    <3>4. writers' # <<>>
      BY <3>3
    <3>. QED
      BY <3>1, <3>3, <3>4
  <2>5. CASE t \notin gone /\ t # head
    <3>1. thread'[t] = thread[t]
      BY <1>3, <2>5
    <3>2. writers[1] # t
      BY <1>1, <1>9, <2>5
    <3>3. thread[t].pc \in {"idle", "queued"}
      BY <2>2, <3>2
    <3>4. (\E i \in 1..Len(writers) : writers[i] = t) => \E i \in 1..Len(writers') : writers'[i] = t
      <4>1. ASSUME NEW i \in 1..Len(writers), writers[i] = t
            PROVE  \E k \in 1..Len(writers') : writers'[k] = t
        <5>1. ~(i \in 1..n)
          BY <1>9, <2>5, <4>1
        <5>2. i - n \in 1..Len(writers') /\ n + (i - n) = i
          BY <1>1, <1>2, <5>1
        <5>. QED
          BY <1>2, <4>1, <5>2
      <4>. QED
        BY <4>1
    <3>5. (\E i \in 1..Len(writers') : writers'[i] = t) => \E i \in 1..Len(writers) : writers[i] = t
      BY <1>2
    <3>. QED
      BY <2>1, <3>1, <3>3, <3>4, <3>5
  <2>. QED
    BY <2>3, <2>4, <2>5
<1>12. IdleOutside'
  BY <1>11 DEF IdleOutside
<1>13. HeadActs'
  BY <1>11 DEF HeadActs
<1>14. LeadAway'
  <2>1. lead'.failed = FALSE
    BY <1>3 DEF NoLead
  <2>. QED
    BY <1>11, <2>1 DEF LeadAway
<1>. QED
  BY <1>2, <1>5, <1>6, <1>12, <1>13, <1>14 DEF QueueKept

LEMMA AwakenedKeeps ==
  ASSUME QueueKept, thread' = Awakened(thread), UNCHANGED <<writers, lead>>
  PROVE  /\ QueueKept'
         /\ \A t \in Threads :
              /\ thread'[t].batch = thread[t].batch /\ thread'[t].sync = thread[t].sync
              /\ Leading(t) => thread'[t] = thread[t]
              /\ Leading(t)' => thread'[t] = thread[t]
<1>1. thread \in [Threads -> [pc : Callers, batch : Nat, sync : BOOLEAN]]
  BY DEF QueueKept, QueueTyped
<1>2. ASSUME NEW t \in Threads
      PROVE  /\ thread'[t] = IF thread[t].pc = "wait" THEN [thread[t] EXCEPT !.pc = "room"] ELSE thread[t]
             /\ thread'[t] \in [pc : Callers, batch : Nat, sync : BOOLEAN]
  BY <1>1 DEF Awakened, Callers
<1>3. thread' = [t \in Threads |-> thread'[t]]
  BY DEF Awakened
<1>4. QueueTyped'
  BY <1>2, <1>3 DEF QueueKept, QueueTyped
<1>5. OnceInQueue'
  BY DEF QueueKept, OnceInQueue
<1>6. IdleOutside'
  <2>1. \A t \in Threads : thread'[t].pc = "idle" <=> thread[t].pc = "idle"
    BY <1>1, <1>2
  <2>. QED
    BY <2>1 DEF QueueKept, IdleOutside
<1>7. HeadActs'
  BY <1>1, <1>2 DEF QueueKept, HeadActs
<1>8. \A t \in Threads :
        /\ thread'[t].batch = thread[t].batch /\ thread'[t].sync = thread[t].sync
        /\ Leading(t) => thread'[t] = thread[t]
        /\ Leading(t)' => thread'[t] = thread[t]
  BY <1>1, <1>2 DEF Leading
<1>. QED
  BY <1>4, <1>5, <1>6, <1>7, <1>8 DEF QueueKept
----------------------------------------------------------------------------
(* The invariant of types, queue, memtables and group, step by step.       *)
Inv1 == /\ LogsTyped /\ MemoryTyped /\ OpeningTyped /\ BgTyped /\ ReaderTyped /\ HistoryTyped
        /\ QueueKept /\ OnlyWhenOpen /\ Numbered /\ Sequenced /\ LeadInv

\* A part of it that speaks of variables that do not change.
LEMMA Frames ==
  /\ LogsTyped /\ UNCHANGED <<logs, tables>> => LogsTyped'
  /\ MemoryTyped /\ UNCHANGED memory => MemoryTyped'
  /\ OpeningTyped /\ UNCHANGED <<opening, manifests>> => OpeningTyped'
  /\ BgTyped /\ UNCHANGED bg => BgTyped'
  /\ ReaderTyped /\ UNCHANGED reader => ReaderTyped'
  /\ HistoryTyped /\ UNCHANGED history => HistoryTyped'
  /\ QueueKept /\ UNCHANGED <<writers, thread, lead>> => QueueKept'
  /\ OnlyWhenOpen /\ UNCHANGED <<db, writers, reader, bg, bgError>>
       /\ (UNCHANGED <<replay, logs, imm, nextFile>> \/ db = "open") => OnlyWhenOpen'
  /\ Numbered /\ UNCHANGED <<db, logNumber, memtables, nextFile, imm>> => Numbered'
  /\ Sequenced /\ UNCHANGED <<db, memtables, logNumber, lastSequence, thread>> => Sequenced'
  /\ LeadInv /\ UNCHANGED <<lead, thread, writers, lastSequence, memtables, logNumber>> => LeadInv'
<1>1. LogsTyped /\ UNCHANGED <<logs, tables>> => LogsTyped'
  BY DEF LogsTyped
<1>2. MemoryTyped /\ UNCHANGED memory => MemoryTyped'
  BY DEF MemoryTyped, memory
<1>3. OpeningTyped /\ UNCHANGED <<opening, manifests>> => OpeningTyped'
  BY DEF OpeningTyped, opening
<1>4. BgTyped /\ UNCHANGED bg => BgTyped'
  BY DEF BgTyped
<1>5. ReaderTyped /\ UNCHANGED reader => ReaderTyped'
  BY DEF ReaderTyped
<1>6. HistoryTyped /\ UNCHANGED history => HistoryTyped'
  BY DEF HistoryTyped, history
<1>7. QueueKept /\ UNCHANGED <<writers, thread, lead>> => QueueKept'
  BY DEF QueueKept, QueueTyped, OnceInQueue, IdleOutside, HeadActs
<1>8. OnlyWhenOpen /\ UNCHANGED <<db, writers, reader, bg, bgError>>
        /\ (UNCHANGED <<replay, logs, imm, nextFile>> \/ db = "open") => OnlyWhenOpen'
  BY DEF OnlyWhenOpen
<1>9. Numbered /\ UNCHANGED <<db, logNumber, memtables, nextFile, imm>> => Numbered'
  BY DEF Numbered, Running
<1>10. Sequenced /\ UNCHANGED <<db, memtables, logNumber, lastSequence, thread>> => Sequenced'
  BY DEF Sequenced, Running, Inserting, Fresh
<1>11. LeadInv /\ UNCHANGED <<lead, thread, writers, lastSequence, memtables, logNumber>> => LeadInv'
  <2>. SUFFICES ASSUME LeadInv, lead' = lead, thread' = thread, writers' = writers,
                       lastSequence' = lastSequence, memtables' = memtables, logNumber' = logNumber
                PROVE  LeadInv'
    OBVIOUS
  <2>1. Fresh' = Fresh
    BY DEF Fresh
  <2>2. \A k : FirstEntries(k)' = FirstEntries(k)
    BY DEF FirstEntries
  <2>3. ASSUME NEW t \in Threads, GroupInv(t)
        PROVE  GroupInv(t)'
    BY <2>1, <2>2, <2>3 DEF GroupInv
  <2>. QED
    BY <2>3 DEF LeadInv, Leading
<1>. QED
  BY <1>1, <1>2, <1>3, <1>4, <1>5, <1>6, <1>7, <1>8, <1>9, <1>10, <1>11

\* Who leads holds the head of the queue, and the database is open.
LEMMA LeaderIsHead ==
  ASSUME Inv1, NEW t \in Threads, thread[t].pc \notin {"idle", "queued"}
  PROVE  /\ db = "open" /\ writers # <<>> /\ writers[1] = t /\ Len(writers) \in Nat /\ 1 <= Len(writers)
         /\ \A u \in Threads : u # t => thread[u].pc \in {"idle", "queued"}
<1>1. writers # <<>> /\ writers[1] = t
  BY DEF Inv1, QueueKept, HeadActs
<1>2. db = "open"
  BY <1>1 DEF Inv1, OnlyWhenOpen
<1>3. Len(writers) \in Nat /\ 1 <= Len(writers)
  BY <1>1, WritersAre DEF Inv1, QueueKept
<1>4. \A u \in Threads : u # t => thread[u].pc \in {"idle", "queued"}
  BY <1>1 DEF Inv1, QueueKept, HeadActs
<1>. QED
  BY <1>1, <1>2, <1>3, <1>4

\* Memtables that nobody refers to go.
LEMMA FewerMemtables ==
  ASSUME Sequenced, db' = db, UNCHANGED <<logNumber, lastSequence>>,
         DOMAIN memtables' \subseteq DOMAIN memtables,
         \A n \in DOMAIN memtables' : memtables'[n] = memtables[n],
         logNumber \in DOMAIN memtables', Inserting => Inserting'
  PROVE  Sequenced'
<1>1. Fresh' = Fresh
  BY DEF Fresh
<1>. QED
  BY <1>1 DEF Sequenced, Running

\* The leader's group is what it was.
LEMMA SameGroup ==
  ASSUME LeadInv, UNCHANGED <<lead, lastSequence, logNumber>>,
         memtables'[logNumber] = memtables[logNumber],
         Len(writers) \in Nat, Len(writers') \in Nat, Len(writers) <= Len(writers'),
         \A i \in 1..Len(writers) :
           /\ writers'[i] = writers[i]
           /\ thread'[writers[i]].batch = thread[writers[i]].batch
           /\ thread'[writers[i]].sync = thread[writers[i]].sync,
         \A t \in Threads : Leading(t) \/ Leading(t)' => thread'[t] = thread[t]
  PROVE  LeadInv'
<1>1. Fresh' = Fresh
  BY DEF Fresh
<1>2. ASSUME NEW t \in Threads, Leading(t)' PROVE GroupInv(t)'
  <2>1. thread'[t] = thread[t] /\ Leading(t)
    BY <1>2 DEF Leading
  <2>2. GroupInv(t)
    BY <2>1 DEF LeadInv
  <2>3. lead.size \in 1..Len(writers) /\ 1..lead.size \subseteq 1..Len(writers)
    BY <2>2 DEF GroupInv
  <2>4. \A i \in 1..lead.size :
           /\ writers'[i] = writers[i]
           /\ thread'[writers[i]].batch = thread[writers[i]].batch
           /\ thread'[writers[i]].sync = thread[writers[i]].sync
    BY <2>3
  <2>5. lead.size \in 1..Len(writers')
    BY <2>3
  <2>6. /\ 0 < Len(lead'.todo)
        /\ \A j \in 1..Len(lead'.todo) : lead'.todo[j].seq = lastSequence' + j
    BY <2>2 DEF GroupInv
  <2>7. \A i \in 1..lead'.size : thread'[writers'[i]].batch # 0 =>
          \E j \in 1..Len(lead'.todo) : lead'.todo[j].batch = thread'[writers'[i]].batch
    BY <2>2, <2>4 DEF GroupInv
  <2>8. \A i \in 1..lead'.size : thread'[writers'[i]].sync => thread'[t].sync
    BY <2>1, <2>2, <2>4 DEF GroupInv
  <2>9. thread'[t].pc = "insert" =>
          \E k \in 0..(Len(lead'.todo) - 1) : Fresh' = {lead'.todo[i] : i \in 1..k}
    BY <1>1, <2>1, <2>2 DEF GroupInv, FirstEntries
  <2>10. thread'[t].pc = "finish" =>
           Fresh' = IF lead'.failed THEN {} ELSE {lead'.todo[i] : i \in 1..Len(lead'.todo)}
    BY <1>1, <2>1, <2>2 DEF GroupInv, FirstEntries
  <2>. QED
    BY <2>5, <2>6, <2>7, <2>8, <2>9, <2>10 DEF GroupInv, FirstEntries
<1>3. lead'.failed => \E t \in Threads : thread'[t].pc = "finish"
  BY DEF LeadInv, Leading
<1>. QED
  BY <1>2, <1>3 DEF LeadInv

LEMMA NobodyLeads ==
  ASSUME LeadAway PROVE LeadInv /\ ~Inserting /\ \A t \in Threads : ~Leading(t)
BY DEF LeadAway, LeadInv, Leading, Inserting

LEMMA ScheduledTyped ==
  ASSUME BgTyped, NEW i, NEW v, NEW e, bg' = MaybeScheduleCompaction(bg, i, v, e)
  PROVE  BgTyped' /\ (bg' = bg \/ (bg.pc = "off" /\ bg'.pc = "scheduled"))
BY DEF BgTyped, MaybeScheduleCompaction, Works

LEMMA WriteStep ==
  ASSUME Inv1, NEW t \in Threads, NEW isNull \in BOOLEAN, NEW sync \in BOOLEAN,
         Write(t, isNull, sync)
  PROVE  Inv1'
<1>1. db = "open" /\ thread[t] = Idle /\ thread[t].pc = "idle"
  BY DEF Write, Idle
<1>2. /\ LogsTyped' /\ MemoryTyped' /\ OpeningTyped' /\ BgTyped' /\ ReaderTyped' /\ Numbered'
      /\ db' = db /\ UNCHANGED <<memory, memtables, logNumber, lastSequence>>
  BY Frames DEF Inv1, Write, disk, opening, memory
<1>3. HistoryTyped'
  BY DEF Inv1, HistoryTyped, Write
<1>4. OnlyWhenOpen'
  BY <1>1, <1>2 DEF Inv1, OnlyWhenOpen
<1>5. /\ writers \in Seq(Threads) /\ Len(writers) \in Nat
      /\ \A i \in 1..Len(writers) : writers[i] \in Threads
  BY WritersAre DEF Inv1, QueueKept
<1>6. /\ writers' \in Seq(Threads) /\ Len(writers') = Len(writers) + 1
      /\ \A i \in 1..Len(writers) : writers'[i] = writers[i]
      /\ writers'[Len(writers) + 1] = t
  BY <1>5 DEF Write
<1>7. \A i \in 1..Len(writers) : writers[i] # t
  BY <1>1 DEF Inv1, QueueKept, IdleOutside
<1>8. thread \in [Threads -> [pc : Callers, batch : Nat, sync : BOOLEAN]]
  BY DEF Inv1, QueueKept, QueueTyped
<1>9. /\ thread' \in [Threads -> [pc : Callers, batch : Nat, sync : BOOLEAN]]
      /\ \A u \in Threads : u # t => thread'[u] = thread[u]
      /\ thread'[t].pc = IF writers = <<>> THEN "room" ELSE "queued"
  <2>1. [pc |-> IF writers = <<>> THEN "room" ELSE "queued",
         batch |-> IF isNull THEN 0 ELSE lastBatch + 1, sync |-> sync]
          \in [pc : Callers, batch : Nat, sync : BOOLEAN]
    BY DEF Inv1, HistoryTyped, Callers
  <2>. QED
    BY <1>8, <2>1 DEF Write
<1>10. /\ writers # <<>> => lead' = lead
       /\ writers = <<>> => lead' = [NoLead EXCEPT !.force = isNull, !.delay = ~isNull]
  BY DEF Write
<1>11. QueueKept'
  <2>1. QueueTyped'
    <3>1. <<>> \in Seq(Entry)
      OBVIOUS
    <3>2. (~isNull) \in BOOLEAN
      OBVIOUS
    <3>3. NoLead \in [force : BOOLEAN, delay : BOOLEAN, size : Nat,
                      todo : Seq(Entry), failed : BOOLEAN, syncError : BOOLEAN]
      BY <3>1 DEF NoLead
    <3>. DEFINE notNull == ~isNull
    <3>. HIDE DEF notNull
    <3>4. notNull \in BOOLEAN
      BY <3>2 DEF notNull
    <3>5. writers = <<>> => lead' = [NoLead EXCEPT !.force = isNull, !.delay = notNull]
      BY <1>10 DEF notNull
    <3>6. lead' \in [force : BOOLEAN, delay : BOOLEAN, size : Nat,
                     todo : Seq(Entry), failed : BOOLEAN, syncError : BOOLEAN]
      BY <1>10, <3>3, <3>4, <3>5 DEF Inv1, QueueKept, QueueTyped
    <3>. QED
      BY <1>6, <1>9, <3>6 DEF QueueTyped
  <2>2. OnceInQueue'
    BY <1>5, <1>6, <1>7 DEF Inv1, QueueKept, OnceInQueue
  <2>3. IdleOutside'
    <3>1. ASSUME NEW u \in Threads
          PROVE  thread'[u].pc = "idle" <=> ~\E i \in 1..Len(writers') : writers'[i] = u
      <4>1. CASE u = t
        BY <1>5, <1>6, <1>9, <4>1
      <4>2. CASE u # t
        <5>1. (\E i \in 1..Len(writers') : writers'[i] = u) <=> \E i \in 1..Len(writers) : writers[i] = u
          BY <1>5, <1>6, <4>2
        <5>. QED
          BY <1>9, <4>2, <5>1 DEF Inv1, QueueKept, IdleOutside
      <4>. QED
        BY <4>1, <4>2
    <3>. QED
      BY <3>1 DEF IdleOutside
  <2>4. HeadActs'
    <3>1. ASSUME NEW u \in Threads, thread'[u].pc \notin {"idle", "queued"}
          PROVE  writers' # <<>> /\ writers'[1] = u
      <4>1. CASE u = t
        <5>1. writers = <<>>
          BY <1>9, <3>1, <4>1
        <5>2. Len(writers') = 1 /\ writers'[1] = t
          BY <1>6, <5>1
        <5>. QED
          BY <4>1, <5>2
      <4>2. CASE u # t
        <5>1. writers # <<>> /\ writers[1] = u
          BY <1>9, <3>1, <4>2 DEF Inv1, QueueKept, HeadActs
        <5>2. 1 \in 1..Len(writers)
          BY <1>5, <5>1, WritersAre DEF Inv1, QueueKept
        <5>. QED
          BY <1>5, <1>6, <5>1, <5>2
      <4>. QED
        BY <4>1, <4>2
    <3>. QED
      BY <3>1 DEF HeadActs
  <2>. QED
    BY <2>1, <2>2, <2>3, <2>4 DEF QueueKept
<1>12. Inserting => Inserting'
  BY <1>1, <1>9 DEF Inserting
<1>13. Sequenced'
  <2>1. logNumber \in DOMAIN memtables
    BY <1>1 DEF Inv1, Numbered, Running
  <2>. QED
    BY <1>2, <1>12, <2>1, FewerMemtables DEF Inv1
<1>14. LeadInv'
  <2>1. CASE writers = <<>>
    <3>1. \A u \in Threads : thread[u].pc = "idle"
      BY <1>5, <2>1 DEF Inv1, QueueKept, IdleOutside
    <3>2. LeadAway'
      BY <1>9, <1>10, <2>1, <3>1 DEF LeadAway, NoLead
    <3>3. LeadAway' => LeadInv'
      BY NobodyLeads, PTL
    <3>. QED
      BY <3>2, <3>3
  <2>2. CASE writers # <<>>
    <3>1. \A u \in Threads : Leading(u) \/ Leading(u)' => thread'[u] = thread[u]
      BY <1>1, <1>9, <2>2 DEF Leading
    <3>2. \A i \in 1..Len(writers) : writers'[i] = writers[i] /\ thread'[writers[i]] = thread[writers[i]]
      BY <1>5, <1>6, <1>7, <1>9
    <3>3. Len(writers') \in Nat /\ Len(writers) <= Len(writers')
      BY <1>5, <1>6
    <3>. QED
      BY <1>2, <1>5, <1>10, <2>2, <3>1, <3>2, <3>3, SameGroup DEF Inv1
  <2>. QED
    BY <2>1, <2>2
<1>. QED
  BY <1>2, <1>3, <1>4, <1>11, <1>13, <1>14 DEF Inv1

\* Writers leave the queue, and nothing else changes.
LEMMA PopStep ==
  ASSUME Inv1, NEW n \in 1..Len(writers), PopWriters(n), ~Inserting, db = "open",
         UNCHANGED <<disk, opening, memory, bg, reader, history>>
  PROVE  Inv1'
<1>1. /\ LogsTyped' /\ MemoryTyped' /\ OpeningTyped' /\ BgTyped' /\ ReaderTyped' /\ Numbered'
      /\ HistoryTyped' /\ db' = db /\ UNCHANGED <<memtables, logNumber, lastSequence>>
  BY Frames DEF Inv1, disk, opening, memory
<1>2. QueueKept' /\ LeadAway'
  BY Popped DEF Inv1
<1>3. LeadInv'
  <2>1. LeadAway' => LeadInv'
    BY NobodyLeads, PTL
  <2>. QED
    BY <1>2, <2>1
<1>4. OnlyWhenOpen'
  BY <1>1 DEF Inv1, OnlyWhenOpen
<1>5. Sequenced'
  <2>1. logNumber \in DOMAIN memtables
    BY DEF Inv1, Numbered, Running
  <2>. QED
    BY <1>1, <2>1, FewerMemtables DEF Inv1
<1>. QED
  BY <1>1, <1>2, <1>3, <1>4, <1>5 DEF Inv1

LEMMA InRoomFacts ==
  ASSUME Inv1, NEW t \in Threads, InRoom(t)
  PROVE  ~Inserting /\ LeadAway /\ db = "open" /\ 1 \in 1..Len(writers) /\ writers[1] = t
<1>1. thread[t].pc = "room" /\ db = "open" /\ writers # <<>>
  BY DEF InRoom
<1>2. /\ writers[1] = t /\ Len(writers) \in Nat /\ 1 <= Len(writers)
      /\ \A u \in Threads : u # t => thread[u].pc \in {"idle", "queued"}
  BY <1>1, LeaderIsHead
<1>3. ~Inserting
  BY <1>1, <1>2 DEF Inserting
<1>4. lead.failed = FALSE
  <2>1. ~lead.failed
    BY <1>1, <1>2 DEF Inv1, LeadInv
  <2>2. lead.failed \in BOOLEAN
    BY DEF Inv1, QueueKept, QueueTyped
  <2>. QED
    BY <2>1, <2>2
<1>. QED
  BY <1>1, <1>2, <1>3, <1>4 DEF LeadAway

LEMMA YieldErrorStep == ASSUME Inv1, NEW t \in Threads, YieldError(t) PROVE Inv1'
<1>1. InRoom(t) /\ PopWriters(1) /\ UNCHANGED <<disk, opening, memory, bg, reader, history>>
  BY DEF YieldError
<1>. QED
  BY <1>1, InRoomFacts, PopStep

LEMMA NewLogFailsStep == ASSUME Inv1, NEW t \in Threads, NewLogFails(t) PROVE Inv1'
<1>1. InRoom(t) /\ PopWriters(1) /\ UNCHANGED <<disk, opening, memory, bg, reader, history>>
  BY DEF NewLogFails
<1>. QED
  BY <1>1, InRoomFacts, PopStep

\* The thread at the head goes on or waits; only its place and what is in
\* `lead' for the loop of MakeRoomForWrite change.
LEMMA RoomStep ==
  ASSUME Inv1, NEW t \in Threads, InRoom(t), QueueTyped', writers' = writers,
         thread'[t].pc \in {"room", "wait"}, \A u \in Threads : u # t => thread'[u] = thread[u],
         lead'.failed = FALSE
  PROVE  QueueKept' /\ LeadInv' /\ ~Inserting'
<1>1. db = "open" /\ writers[1] = t /\ writers # <<>> /\ LeadAway
  BY InRoomFacts DEF InRoom
<1>2. thread[t].pc = "room"
  BY DEF InRoom
<1>3. OnceInQueue'
  BY DEF Inv1, QueueKept, OnceInQueue
<1>4. IdleOutside'
  <2>1. \A u \in Threads : thread'[u].pc = "idle" <=> thread[u].pc = "idle"
    BY <1>2
  <2>. QED
    BY <2>1 DEF Inv1, QueueKept, IdleOutside
<1>5. HeadActs'
  BY <1>1 DEF Inv1, QueueKept, HeadActs
<1>6. LeadInv' /\ ~Inserting'
  <2>1. \A u \in Threads : ~Leading(u)' /\ thread'[u].pc \notin {"insert", "finish"}
    BY <1>1 DEF LeadAway, Leading
  <2>. QED
    BY <2>1 DEF LeadInv, Inserting
<1>. QED
  BY <1>3, <1>4, <1>5, <1>6 DEF QueueKept

LEMMA DelayStep == ASSUME Inv1, NEW t \in Threads, Delay(t) PROVE Inv1'
<1>1. InRoom(t) /\ ~Inserting /\ LeadAway /\ db = "open" /\ thread[t].pc = "room"
  BY InRoomFacts DEF Delay, InRoom
<1>2. /\ LogsTyped' /\ MemoryTyped' /\ OpeningTyped' /\ BgTyped' /\ ReaderTyped' /\ Numbered'
      /\ HistoryTyped' /\ OnlyWhenOpen' /\ Sequenced' /\ writers' = writers /\ thread' = thread
  BY Frames DEF Inv1, Delay, disk, opening, memory
<1>3. QueueTyped' /\ lead'.failed = FALSE
  BY <1>1 DEF Inv1, QueueKept, QueueTyped, Delay, LeadAway
<1>4. QueueKept' /\ LeadInv'
  BY <1>1, <1>2, <1>3, RoomStep
<1>. QED
  BY <1>2, <1>4 DEF Inv1

LEMMA WaitStep == ASSUME Inv1, NEW t \in Threads, WaitForBackground(t) PROVE Inv1'
<1>1. InRoom(t) /\ ~Inserting /\ LeadAway /\ db = "open" /\ thread[t].pc = "room"
  BY InRoomFacts DEF WaitForBackground, InRoom
<1>2. /\ LogsTyped' /\ MemoryTyped' /\ OpeningTyped' /\ BgTyped' /\ ReaderTyped' /\ Numbered'
      /\ HistoryTyped' /\ OnlyWhenOpen' /\ writers' = writers /\ lead' = lead
  BY Frames DEF Inv1, WaitForBackground, disk, opening, memory
<1>3. /\ QueueTyped' /\ lead'.failed = FALSE /\ thread'[t].pc = "wait"
      /\ \A u \in Threads : u # t => thread'[u] = thread[u]
  BY <1>1, <1>2 DEF Inv1, QueueKept, QueueTyped, WaitForBackground, LeadAway, Callers
<1>4. QueueKept' /\ LeadInv' /\ ~Inserting'
  BY <1>1, <1>2, <1>3, RoomStep
<1>5. Sequenced'
  BY <1>1 DEF Inv1, WaitForBackground, opening, memory, Sequenced, Running, Fresh
<1>. QED
  BY <1>2, <1>4, <1>5 DEF Inv1

LEMMA SwitchMemTableStep == ASSUME Inv1, NEW t \in Threads, SwitchMemTable(t) PROVE Inv1'
<1>1. InRoom(t) /\ ~Inserting /\ LeadAway /\ db = "open" /\ thread[t].pc = "room"
  BY InRoomFacts DEF SwitchMemTable, InRoom
<1>2. /\ OpeningTyped' /\ ReaderTyped' /\ HistoryTyped' /\ writers' = writers /\ thread' = thread
      /\ db' = db /\ reader' = reader /\ bgError' = bgError /\ lastSequence' = lastSequence
  BY Frames DEF Inv1, SwitchMemTable, opening
<1>3. LogsTyped'
  <2>1. [records |-> <<>>, synced |-> 0] \in LogFile /\ Len(<<>>) = 0
    BY DEF LogFile
  <2>2. nextFile \in Nat
    BY DEF Inv1, MemoryTyped
  <2>3. logs' = With(logs, nextFile, [records |-> <<>>, synced |-> 0])
    BY DEF SwitchMemTable
  <2>. QED
    BY <2>1, <2>2, <2>3 DEF Inv1, LogsTyped, With, SwitchMemTable
<1>4. /\ logNumber \in DOMAIN memtables /\ logNumber \in Nat /\ logNumber < nextFile /\ nextFile \in Nat
      /\ 0 < logNumber
      /\ \A n \in DOMAIN memtables : n <= logNumber /\ n \in Nat
  BY <1>1 DEF Inv1, Numbered, Running, MemoryTyped
<1>5. /\ memtables' = With(memtables, nextFile, {}) /\ imm' = logNumber /\ logNumber' = nextFile
      /\ nextFile' = nextFile + 1
  BY DEF SwitchMemTable
<1>6. MemoryTyped'
  BY <1>2, <1>4, <1>5 DEF Inv1, MemoryTyped, SwitchMemTable, With
<1>7. Numbered'
  BY <1>4, <1>5 DEF Numbered, With
<1>8. Sequenced'
  <2>1. \A e \in memtables[logNumber] : e.seq <= lastSequence
    <3>1. \A e \in memtables[logNumber] : e.seq \in Nat /\ lastSequence \in Nat
      BY <1>4 DEF Inv1, MemoryTyped, Entry
    <3>2. Fresh = {}
      BY <1>1 DEF Inv1, Sequenced, Running
    <3>. QED
      BY <3>1, <3>2 DEF Fresh
  <2>2. \A n \in DOMAIN memtables : \A e \in memtables[n] : e.seq <= lastSequence
    BY <1>1, <2>1 DEF Inv1, Sequenced, Running
  <2>3. memtables'[logNumber'] = {}
    BY <1>5 DEF With
  <2>4. \A n \in DOMAIN memtables' \ {logNumber'} : n \in DOMAIN memtables /\ memtables'[n] = memtables[n]
    BY <1>5 DEF With
  <2>. QED
    BY <1>2, <2>2, <2>3, <2>4 DEF Sequenced, Fresh
<1>9. BgTyped' /\ OnlyWhenOpen'
  <2>1. BgTyped'
    BY ScheduledTyped DEF Inv1, SwitchMemTable
  <2>. QED
    BY <1>1, <1>2, <2>1 DEF Inv1, OnlyWhenOpen
<1>10. QueueTyped' /\ lead'.failed = FALSE
  BY <1>1, <1>2 DEF Inv1, QueueKept, QueueTyped, SwitchMemTable, LeadAway
<1>11. QueueKept' /\ LeadInv'
  BY <1>1, <1>2, <1>10, RoomStep
<1>. QED
  BY <1>2, <1>3, <1>6, <1>7, <1>8, <1>9, <1>11 DEF Inv1

\* The leader goes on.
LEMMA LeaderMoves ==
  ASSUME Inv1, NEW t \in Threads, thread[t].pc \in {"room", "log", "sync", "insert"},
         NEW p \in {"log", "sync", "insert", "finish"},
         thread' = [thread EXCEPT ![t].pc = p], writers' = writers,
         lead' \in [force : BOOLEAN, delay : BOOLEAN, size : Nat,
                    todo : Seq(Entry), failed : BOOLEAN, syncError : BOOLEAN]
  PROVE  /\ QueueKept' /\ thread'[t].pc = p
         /\ \A u \in Threads : u # t => ~Leading(u)'
         /\ \A u \in Threads : thread'[u].batch = thread[u].batch /\ thread'[u].sync = thread[u].sync
<1>1. /\ db = "open" /\ writers # <<>> /\ writers[1] = t
      /\ \A u \in Threads : u # t => thread[u].pc \in {"idle", "queued"}
  BY LeaderIsHead
<1>2. thread \in [Threads -> [pc : Callers, batch : Nat, sync : BOOLEAN]]
  BY DEF Inv1, QueueKept, QueueTyped
<1>3. /\ thread' \in [Threads -> [pc : Callers, batch : Nat, sync : BOOLEAN]]
      /\ thread'[t].pc = p /\ \A u \in Threads : u # t => thread'[u] = thread[u]
      /\ \A u \in Threads : thread'[u].batch = thread[u].batch /\ thread'[u].sync = thread[u].sync
  BY <1>2 DEF Callers
<1>4. QueueTyped'
  BY <1>3 DEF Inv1, QueueKept, QueueTyped
<1>5. OnceInQueue'
  BY DEF Inv1, QueueKept, OnceInQueue
<1>6. IdleOutside'
  <2>1. \A u \in Threads : thread'[u].pc = "idle" <=> thread[u].pc = "idle"
    BY <1>3
  <2>. QED
    BY <2>1 DEF Inv1, QueueKept, IdleOutside
<1>7. HeadActs'
  BY <1>1, <1>3 DEF HeadActs
<1>8. \A u \in Threads : u # t => ~Leading(u)'
  BY <1>1, <1>3 DEF Leading
<1>. QED
  BY <1>3, <1>4, <1>5, <1>6, <1>7, <1>8 DEF QueueKept

LEMMA FoundRoomStep == ASSUME Inv1, NEW t \in Threads, FoundRoom(t) PROVE Inv1'
<1>1. InRoom(t) /\ ~Inserting /\ LeadAway /\ db = "open" /\ thread[t].pc = "room"
      /\ 1 \in 1..Len(writers) /\ writers[1] = t
  BY InRoomFacts DEF FoundRoom, InRoom
<1>2. UNCHANGED <<disk, opening, memory, bg, reader, history>>
  BY DEF FoundRoom
<1>3. CASE thread[t].batch = 0
  <2>1. PopWriters(1)
    BY <1>3 DEF FoundRoom
  <2>. QED
    BY <1>1, <1>2, <2>1, PopStep
<1>4. CASE thread[t].batch # 0
  <2>. DEFINE size == BuildBatchGroup
              todo == GroupEntries(BuildBatchGroup)
  <2>1. /\ lead' = [lead EXCEPT !.size = size, !.todo = todo]
        /\ thread' = [thread EXCEPT ![t].pc = "log"] /\ writers' = writers
    BY <1>4 DEF FoundRoom
  <2>2. QueueTyped /\ lastSequence \in Nat /\ writers # <<>> /\ thread[writers[1]].batch # 0
        /\ lead.failed = FALSE
        /\ lead \in [force : BOOLEAN, delay : BOOLEAN, size : Nat,
                     todo : Seq(Entry), failed : BOOLEAN, syncError : BOOLEAN]
    BY <1>1, <1>4 DEF Inv1, QueueKept, QueueTyped, MemoryTyped, InRoom, LeadAway
  <2>3. /\ size \in 1..Len(writers)
        /\ \A i \in 2..size : thread[writers[i]].sync => thread[writers[1]].sync
    BY <2>2, GroupSize
  <2>4. /\ todo \in Seq(Entry) /\ 0 < Len(todo)
        /\ \A j \in 1..Len(todo) : todo[j].seq = lastSequence + j
        /\ \A i \in 1..size : thread[writers[i]].batch # 0 =>
             \E j \in 1..Len(todo) : todo[j].batch = thread[writers[i]].batch
    BY <2>2, <2>3, GroupHolds
  <2>. HIDE DEF size, todo
  <2>5. Len(writers) \in Nat /\ \A i \in 1..Len(writers) : writers[i] \in Threads
    BY <2>2, WritersAre
  <2>6. /\ lead' \in [force : BOOLEAN, delay : BOOLEAN, size : Nat,
                      todo : Seq(Entry), failed : BOOLEAN, syncError : BOOLEAN]
        /\ lead'.size = size /\ lead'.todo = todo /\ lead'.failed = FALSE
    <3>1. size \in Nat /\ todo \in Seq(Entry)
      BY <2>3, <2>4, <2>5
    <3>2. lead' = [lead EXCEPT !.size = size, !.todo = todo]
      BY <2>1
    <3>. QED
      BY <2>2, <3>1, <3>2
  <2>7. /\ QueueKept' /\ thread'[t].pc = "log"
        /\ \A u \in Threads : u # t => ~Leading(u)'
        /\ \A u \in Threads : thread'[u].batch = thread[u].batch /\ thread'[u].sync = thread[u].sync
    BY <1>1, <2>1, <2>6, LeaderMoves
  <2>8. GroupInv(t)'
    <3>1. \A i \in 1..size : /\ writers'[i] = writers[i]
                             /\ thread'[writers[i]].batch = thread[writers[i]].batch
                             /\ thread'[writers[i]].sync = thread[writers[i]].sync
      BY <2>1, <2>3, <2>5, <2>7
    <3>2. \A i \in 1..size : thread[writers[i]].sync => thread[t].sync
      BY <1>1, <2>3, <2>5
    <3>3. size \in 1..Len(writers')
      BY <2>1, <2>3
    <3>4. lastSequence' = lastSequence
      BY <1>2 DEF memory
    <3>5. \A i \in 1..lead'.size : thread'[writers'[i]].batch # 0 =>
            \E j \in 1..Len(lead'.todo) : lead'.todo[j].batch = thread'[writers'[i]].batch
      BY <2>4, <2>6, <3>1
    <3>6. \A i \in 1..lead'.size : thread'[writers'[i]].sync => thread'[t].sync
      BY <2>6, <2>7, <3>1, <3>2
    <3>. QED
      BY <2>4, <2>6, <2>7, <3>3, <3>4, <3>5, <3>6 DEF GroupInv
  <2>9. LeadInv'
    BY <2>6, <2>7, <2>8 DEF LeadInv
  <2>10. Sequenced'
    BY <1>1, <1>2 DEF Inv1, Sequenced, Running, Fresh, memory, opening
  <2>11. /\ LogsTyped' /\ MemoryTyped' /\ OpeningTyped' /\ BgTyped' /\ ReaderTyped' /\ Numbered'
         /\ HistoryTyped' /\ OnlyWhenOpen'
    BY <1>2, <2>1, Frames DEF Inv1, disk, opening, memory
  <2>. QED
    BY <2>7, <2>9, <2>10, <2>11 DEF Inv1
<1>. QED
  BY <1>3, <1>4

\* The leader goes on with the group it has.
LEMMA GroupGoesOn ==
  ASSUME Inv1, NEW t \in Threads, thread[t].pc \in {"log", "sync", "insert"},
         NEW p \in {"log", "sync", "insert", "finish"},
         thread' = [thread EXCEPT ![t].pc = p], writers' = writers,
         \/ lead' = lead
         \/ p = "finish" /\ \/ lead' = [lead EXCEPT !.failed = TRUE]
                            \/ lead' = [lead EXCEPT !.failed = TRUE, !.syncError = TRUE],
         lastSequence' = lastSequence,
         p = "insert" => \E k \in 0..(Len(lead'.todo) - 1) : Fresh' = {lead'.todo[i] : i \in 1..k},
         p = "finish" => Fresh' = IF lead'.failed THEN {} ELSE {lead'.todo[i] : i \in 1..Len(lead'.todo)}
  PROVE  QueueKept' /\ LeadInv' /\ lead'.todo = lead.todo
<1>1. lead \in [force : BOOLEAN, delay : BOOLEAN, size : Nat,
                todo : Seq(Entry), failed : BOOLEAN, syncError : BOOLEAN]
  BY DEF Inv1, QueueKept, QueueTyped
<1>2. /\ lead' \in [force : BOOLEAN, delay : BOOLEAN, size : Nat,
                    todo : Seq(Entry), failed : BOOLEAN, syncError : BOOLEAN]
      /\ lead'.size = lead.size /\ lead'.todo = lead.todo
      /\ lead'.failed => p = "finish"
  <2>1. \A u \in Threads : thread[u].pc # "finish"
    BY LeaderIsHead
  <2>2. lead.failed = FALSE
    BY <1>1, <2>1 DEF Inv1, LeadInv
  <2>. QED
    BY <1>1, <2>2
<1>3. /\ QueueKept' /\ thread'[t].pc = p
      /\ \A u \in Threads : u # t => ~Leading(u)'
      /\ \A u \in Threads : thread'[u].batch = thread[u].batch /\ thread'[u].sync = thread[u].sync
  BY <1>2, LeaderMoves
<1>4. GroupInv(t)
  BY DEF Inv1, LeadInv, Leading
<1>5. /\ lead.size \in 1..Len(writers) /\ Len(writers) \in Nat
      /\ \A i \in 1..lead.size : writers[i] \in Threads
  <2>1. Len(writers) \in Nat /\ \A i \in 1..Len(writers) : writers[i] \in Threads
    BY WritersAre DEF Inv1, QueueKept
  <2>. QED
    BY <1>4, <2>1 DEF GroupInv
<1>6. GroupInv(t)'
  <2>1. \A i \in 1..lead'.size : thread'[writers'[i]].batch # 0 =>
          \E j \in 1..Len(lead'.todo) : lead'.todo[j].batch = thread'[writers'[i]].batch
    BY <1>2, <1>3, <1>4, <1>5 DEF GroupInv
  <2>2. \A i \in 1..lead'.size : thread'[writers'[i]].sync => thread'[t].sync
    BY <1>2, <1>3, <1>4, <1>5 DEF GroupInv
  <2>3. lead'.size \in 1..Len(writers')
    BY <1>2, <1>5
  <2>4. 0 < Len(lead'.todo) /\ \A j \in 1..Len(lead'.todo) : lead'.todo[j].seq = lastSequence' + j
    BY <1>2, <1>4 DEF GroupInv
  <2>. QED
    BY <1>3, <2>1, <2>2, <2>3, <2>4 DEF GroupInv, FirstEntries
<1>. QED
  BY <1>2, <1>3, <1>6 DEF LeadInv

\* A record more in the log.
LEMMA LogGetsRecord ==
  ASSUME LogsTyped, tables' = tables, NEW record \in Seq(Entry),
         logs' = [logs EXCEPT ![logNumber].records = @ \o <<record>>]
  PROVE  LogsTyped'
<1>1. CASE logNumber \in DOMAIN logs
  <2>. DEFINE r == logs[logNumber].records
              s == r \o <<record>>
  <2>1. logs \in [DOMAIN logs -> LogFile] /\ r \in Seq(Seq(Entry)) /\ Len(r) \in Nat
        /\ logs[logNumber].synced \in Nat /\ logs[logNumber].synced <= Len(r)
    BY <1>1 DEF LogsTyped, LogFile
  <2>2. s \in Seq(Seq(Entry)) /\ Len(s) = Len(r) + 1
    BY <2>1
  <2>. HIDE DEF r, s
  <2>3. logs' = [logs EXCEPT ![logNumber].records = s]
    BY DEF s, r
  <2>4. logs' \in [DOMAIN logs -> LogFile] /\ DOMAIN logs' = DOMAIN logs
    BY <1>1, <2>1, <2>2, <2>3 DEF LogFile
  <2>5. \A n \in DOMAIN logs : n # logNumber => logs'[n] = logs[n]
    BY <2>1, <2>3
  <2>6. logs'[logNumber].records = s /\ logs'[logNumber].synced = logs[logNumber].synced
    BY <1>1, <2>1, <2>3 DEF LogFile
  <2>7. logs'[logNumber].synced <= Len(logs'[logNumber].records)
    BY <2>1, <2>2, <2>6
  <2>8. \A n \in DOMAIN logs' : logs'[n].synced <= Len(logs'[n].records)
    BY <2>4, <2>5, <2>7 DEF LogsTyped
  <2>. QED
    BY <2>4, <2>8 DEF LogsTyped
<1>2. CASE logNumber \notin DOMAIN logs
  <2>1. logs' = logs
    BY <1>2 DEF LogsTyped
  <2>. QED
    BY <2>1 DEF LogsTyped
<1>. QED
  BY <1>1, <1>2

LEMMA AddRecordStep == ASSUME Inv1, NEW t \in Threads, AddRecord(t) PROVE Inv1'
<1>1. thread[t].pc = "log" /\ db = "open" /\ \A u \in Threads : u # t => thread[u].pc \in {"idle", "queued"}
  BY LeaderIsHead DEF AddRecord
<1>2. ~Inserting /\ Fresh = {}
  <2>1. ~Inserting
    BY <1>1 DEF Inserting
  <2>. QED
    BY <1>1, <2>1 DEF Inv1, Sequenced, Running
<1>3. /\ MemoryTyped' /\ OpeningTyped' /\ BgTyped' /\ ReaderTyped' /\ Numbered' /\ HistoryTyped'
      /\ OnlyWhenOpen' /\ UNCHANGED <<writers, lead, db, memtables, logNumber, lastSequence>>
  BY <1>1, Frames DEF Inv1, AddRecord, opening, memory
<1>4. Fresh' = {}
  BY <1>2, <1>3 DEF Fresh
<1>5. Sequenced'
  BY <1>3, <1>4 DEF Inv1, Sequenced, Running
<1>6. QueueKept' /\ LeadInv'
  <2>1. PICK p \in {"sync", "insert"} : thread' = [thread EXCEPT ![t].pc = p]
    BY DEF AddRecord
  <2>2. 0 \in 0..(Len(lead'.todo) - 1) /\ Fresh' = {lead'.todo[i] : i \in 1..0}
    <3>1. 0 < Len(lead.todo)
      BY <1>1 DEF Inv1, LeadInv, Leading, GroupInv
    <3>2. Len(lead.todo) \in Nat
      BY DEF Inv1, QueueKept, QueueTyped
    <3>. QED
      BY <1>3, <1>4, <3>1, <3>2
  <2>. QED
    BY <1>1, <1>3, <2>1, <2>2, GroupGoesOn
<1>7. LogsTyped'
  <2>1. lead.todo \in Seq(Entry)
    BY DEF Inv1, QueueKept, QueueTyped
  <2>2. tables' = tables /\ logs' = [logs EXCEPT ![logNumber].records = @ \o <<lead.todo>>]
    BY DEF AddRecord, Contents
  <2>. QED
    BY <2>1, <2>2, LogGetsRecord DEF Inv1
<1>. QED
  BY <1>3, <1>5, <1>6, <1>7 DEF Inv1

LEMMA AppendFailsStep == ASSUME Inv1, NEW t \in Threads, AppendFails(t) PROVE Inv1'
<1>1. thread[t].pc = "log" /\ db = "open" /\ \A u \in Threads : u # t => thread[u].pc \in {"idle", "queued"}
  BY LeaderIsHead DEF AppendFails
<1>2. Fresh = {}
  <2>1. ~Inserting
    BY <1>1 DEF Inserting
  <2>. QED
    BY <1>1, <2>1 DEF Inv1, Sequenced, Running
<1>3. /\ MemoryTyped' /\ OpeningTyped' /\ BgTyped' /\ ReaderTyped' /\ Numbered'
      /\ HistoryTyped' /\ OnlyWhenOpen' /\ UNCHANGED <<writers, db, memtables, logNumber, lastSequence>>
  BY <1>1, Frames DEF Inv1, AppendFails, opening, memory
<1>4. Fresh' = {}
  BY <1>2, <1>3 DEF Fresh
<1>5. Sequenced'
  BY <1>3, <1>4 DEF Inv1, Sequenced, Running
<1>6. QueueKept' /\ LeadInv'
  <2>1. thread' = [thread EXCEPT ![t].pc = "finish"] /\ lead' = [lead EXCEPT !.failed = TRUE]
    BY DEF AppendFails
  <2>2. lead'.failed = TRUE
    BY <2>1 DEF Inv1, QueueKept, QueueTyped
  <2>. QED
    BY <1>1, <1>3, <1>4, <2>1, <2>2, GroupGoesOn
<1>7. LogsTyped'
  <2>1. Hole \in Seq(Entry)
    BY DEF Hole
  <2>2. tables' = tables /\ logs' = [logs EXCEPT ![logNumber].records = @ \o <<Hole>>]
    BY DEF AppendFails
  <2>. QED
    BY <2>1, <2>2, LogGetsRecord DEF Inv1
<1>. QED
  BY <1>3, <1>5, <1>6, <1>7 DEF Inv1

LEMMA SyncStep == ASSUME Inv1, NEW t \in Threads, Sync(t) PROVE Inv1'
<1>1. thread[t].pc = "sync" /\ db = "open" /\ \A u \in Threads : u # t => thread[u].pc \in {"idle", "queued"}
  BY LeaderIsHead DEF Sync
<1>2. ~Inserting /\ Fresh = {}
  <2>1. ~Inserting
    BY <1>1 DEF Inserting
  <2>. QED
    BY <1>1, <2>1 DEF Inv1, Sequenced, Running
<1>3. /\ MemoryTyped' /\ OpeningTyped' /\ BgTyped' /\ ReaderTyped' /\ Numbered' /\ HistoryTyped'
      /\ OnlyWhenOpen' /\ UNCHANGED <<writers, lead, db, memtables, logNumber, lastSequence>>
  BY <1>1, Frames DEF Inv1, Sync, opening, memory
<1>4. Fresh' = {}
  BY <1>2, <1>3 DEF Fresh
<1>5. Sequenced'
  BY <1>3, <1>4 DEF Inv1, Sequenced, Running
<1>6. QueueKept' /\ LeadInv'
  <2>1. thread' = [thread EXCEPT ![t].pc = "insert"]
    BY DEF Sync
  <2>2. 0 \in 0..(Len(lead'.todo) - 1) /\ Fresh' = {lead'.todo[i] : i \in 1..0}
    <3>1. 0 < Len(lead.todo)
      BY <1>1 DEF Inv1, LeadInv, Leading, GroupInv
    <3>2. Len(lead.todo) \in Nat
      BY DEF Inv1, QueueKept, QueueTyped
    <3>. QED
      BY <1>3, <1>4, <3>1, <3>2
  <2>. QED
    BY <1>1, <1>3, <2>1, <2>2, GroupGoesOn
<1>7. LogsTyped'
  <2>1. logs \in [DOMAIN logs -> LogFile]
    BY DEF Inv1, LogsTyped
  <2>2. logs' = [logs EXCEPT ![logNumber].synced = Len(logs[logNumber].records)]
    BY DEF Sync
  <2>3. DOMAIN logs' = DOMAIN logs /\ \A n \in DOMAIN logs : n # logNumber => logs'[n] = logs[n]
    BY <2>1, <2>2
  <2>4. logNumber \in DOMAIN logs =>
          /\ logs'[logNumber].records = logs[logNumber].records
          /\ logs'[logNumber].synced = Len(logs[logNumber].records)
          /\ Len(logs[logNumber].records) \in Nat /\ logs'[logNumber] \in LogFile
    BY <2>1, <2>2 DEF LogFile
  <2>5. logs' \in [DOMAIN logs -> LogFile]
    BY <2>1, <2>2, <2>3, <2>4
  <2>. QED
    BY <2>3, <2>4, <2>5 DEF Inv1, LogsTyped, Sync
<1>. QED
  BY <1>3, <1>5, <1>6, <1>7 DEF Inv1

LEMMA SyncFailsStep == ASSUME Inv1, NEW t \in Threads, SyncFails(t) PROVE Inv1'
<1>1. thread[t].pc = "sync" /\ db = "open" /\ \A u \in Threads : u # t => thread[u].pc \in {"idle", "queued"}
  BY LeaderIsHead DEF SyncFails
<1>2. Fresh = {}
  <2>1. ~Inserting
    BY <1>1 DEF Inserting
  <2>. QED
    BY <1>1, <2>1 DEF Inv1, Sequenced, Running
<1>3. /\ LogsTyped' /\ MemoryTyped' /\ OpeningTyped' /\ BgTyped' /\ ReaderTyped' /\ Numbered'
      /\ HistoryTyped' /\ OnlyWhenOpen' /\ UNCHANGED <<writers, db, memtables, logNumber, lastSequence>>
  BY Frames DEF Inv1, SyncFails, disk, opening, memory
<1>4. Fresh' = {}
  BY <1>2, <1>3 DEF Fresh
<1>5. Sequenced'
  BY <1>3, <1>4 DEF Inv1, Sequenced, Running
<1>6. QueueKept' /\ LeadInv'
  <2>1. /\ thread' = [thread EXCEPT ![t].pc = "finish"]
        /\ lead' = [lead EXCEPT !.failed = TRUE, !.syncError = TRUE]
    BY DEF SyncFails
  <2>2. lead'.failed = TRUE
    BY <2>1 DEF Inv1, QueueKept, QueueTyped
  <2>. QED
    BY <1>1, <1>3, <1>4, <2>1, <2>2, GroupGoesOn
<1>. QED
  BY <1>3, <1>5, <1>6 DEF Inv1

\* How many entries of the group are in the memtable.
LEMMA CountFirst ==
  ASSUME NEW s \in Seq(Entry), NEW k \in 0..Len(s), NEW q \in Nat,
         \A j \in 1..Len(s) : s[j].seq = q + j
  PROVE  Cardinality({s[i] : i \in 1..k}) = k
<1>. DEFINE T == {s[i] : i \in 1..k}
            f == [i \in 1..k |-> s[i]]
<1>1. Len(s) \in Nat /\ k \in Nat /\ \A i \in 1..k : i \in 1..Len(s)
  OBVIOUS
<1>2. f \in Surjection(1..k, T)
  BY DEF Surjection
<1>3. f \in Injection(1..k, T)
  <2>1. f \in [1..k -> T]
    OBVIOUS
  <2>2. ASSUME NEW i \in 1..k, NEW j \in 1..k, f[i] = f[j] PROVE i = j
    <3>1. s[i].seq = q + i /\ s[j].seq = q + j /\ s[i] = s[j]
      BY <1>1, <2>2
    <3>. QED
      BY <3>1
  <2>. HIDE DEF f, T
  <2>. QED
    BY <2>1, <2>2 DEF Injection, IsInjective
<1>4. IsFiniteSet(1..k) /\ Cardinality(1..k) = k
  BY <1>1, FS_Interval
<1>. HIDE DEF f, T
<1>5. Cardinality(T) = Cardinality(1..k)
  BY <1>2, <1>3, <1>4, FS_Surjection
<1>. QED
  BY <1>4, <1>5 DEF T

LEMMA InsertFacts ==
  ASSUME Inv1, NEW t \in Threads, InsertInto(t)
  PROVE  /\ thread[t].pc = "insert" /\ db = "open" /\ lead.failed = FALSE
         /\ \A u \in Threads : u # t => thread[u].pc \in {"idle", "queued"}
         /\ logNumber \in DOMAIN memtables /\ Len(lead.todo) \in Nat
         /\ \E k \in 0..(Len(lead.todo) - 1) :
              /\ Fresh = FirstEntries(k) /\ Inserted(t) = k
              /\ lead.todo[k + 1] \in Entry /\ lead.todo[k + 1].seq = lastSequence + (k + 1)
<1>1. /\ thread[t].pc = "insert" /\ db = "open"
      /\ \A u \in Threads : u # t => thread[u].pc \in {"idle", "queued"}
  BY LeaderIsHead DEF InsertInto
<1>2. lead.failed = FALSE /\ lead.todo \in Seq(Entry)
  <2>1. lead.failed \in BOOLEAN /\ lead.todo \in Seq(Entry)
    BY DEF Inv1, QueueKept, QueueTyped
  <2>2. ~lead.failed
    BY <1>1 DEF Inv1, LeadInv
  <2>. QED
    BY <2>1, <2>2
<1>3. logNumber \in DOMAIN memtables
  BY <1>1 DEF Inv1, Numbered, Running
<1>4. GroupInv(t)
  BY <1>1 DEF Inv1, LeadInv, Leading
<1>5. PICK k \in 0..(Len(lead.todo) - 1) : Fresh = FirstEntries(k)
  BY <1>1, <1>4 DEF GroupInv
<1>6. /\ Len(lead.todo) \in Nat /\ k \in Nat /\ k \in 0..Len(lead.todo) /\ k + 1 \in 1..Len(lead.todo)
      /\ lastSequence \in Nat /\ \A j \in 1..Len(lead.todo) : lead.todo[j].seq = lastSequence + j
  <2>1. Len(lead.todo) \in Nat /\ 0 < Len(lead.todo)
    BY <1>2, <1>4 DEF GroupInv
  <2>2. k \in Nat /\ k \in 0..Len(lead.todo) /\ k + 1 \in 1..Len(lead.todo)
    BY <1>5, <2>1
  <2>3. lastSequence \in Nat
    BY DEF Inv1, MemoryTyped
  <2>. QED
    BY <1>4, <2>1, <2>2, <2>3 DEF GroupInv
<1>7. Cardinality({lead.todo[i] : i \in 1..k}) = k
  BY <1>2, <1>6, CountFirst
<1>8. Inserted(t) = k
  BY <1>5, <1>7 DEF Inserted, Fresh, FirstEntries
<1>9. lead.todo[k + 1] \in Entry /\ lead.todo[k + 1].seq = lastSequence + (k + 1)
  BY <1>2, <1>6
<1>. QED
  BY <1>1, <1>2, <1>3, <1>5, <1>6, <1>8, <1>9

LEMMA InsertIntoStep == ASSUME Inv1, NEW t \in Threads, InsertInto(t) PROVE Inv1'
<1>1. /\ thread[t].pc = "insert" /\ db = "open" /\ lead.failed = FALSE
      /\ logNumber \in DOMAIN memtables /\ Len(lead.todo) \in Nat
      /\ lastSequence \in Nat
  BY InsertFacts DEF Inv1, MemoryTyped
<1>2. PICK k \in 0..(Len(lead.todo) - 1) :
        /\ Fresh = FirstEntries(k) /\ Inserted(t) = k
        /\ lead.todo[k + 1] \in Entry /\ lead.todo[k + 1].seq = lastSequence + (k + 1)
  BY InsertFacts
<1>. DEFINE e == lead.todo[k + 1]
<1>3. /\ memtables' = [memtables EXCEPT ![logNumber] = @ \cup {e}]
      /\ thread' = [thread EXCEPT ![t].pc = IF k + 1 = Len(lead.todo) THEN "finish" ELSE "insert"]
  BY <1>2 DEF InsertInto
<1>4. /\ LogsTyped' /\ OpeningTyped' /\ BgTyped' /\ ReaderTyped' /\ HistoryTyped' /\ OnlyWhenOpen'
      /\ UNCHANGED <<writers, lead, db, logNumber, lastSequence, nextFile, imm>>
  BY Frames DEF Inv1, InsertInto, disk, opening
<1>5. /\ DOMAIN memtables' = DOMAIN memtables /\ memtables'[logNumber] = memtables[logNumber] \cup {e}
      /\ \A n \in DOMAIN memtables : n # logNumber => memtables'[n] = memtables[n]
      /\ memtables' \in [DOMAIN memtables -> SUBSET Entry]
  <2>1. memtables \in [DOMAIN memtables -> SUBSET Entry] /\ e \in Entry
    BY <1>2 DEF Inv1, MemoryTyped
  <2>. HIDE DEF e
  <2>. QED
    BY <1>1, <1>3, <2>1
<1>6. MemoryTyped'
  BY <1>4, <1>5 DEF Inv1, MemoryTyped, InsertInto
<1>7. Numbered'
  BY <1>4, <1>5 DEF Inv1, Numbered, Running
<1>8. Fresh' = {lead.todo[i] : i \in 1..(k + 1)}
  <2>1. e.seq > lastSequence
    BY <1>1, <1>2
  <2>2. Fresh' = Fresh \cup {e}
    BY <1>4, <1>5, <2>1 DEF Fresh
  <2>3. 1..(k + 1) = (1..k) \cup {k + 1}
    BY <1>2
  <2>. QED
    BY <1>2, <2>2, <2>3 DEF FirstEntries
<1>. HIDE DEF e
<1>9. CASE k + 1 = Len(lead.todo)
  <2>1. thread' = [thread EXCEPT ![t].pc = "finish"]
    BY <1>3, <1>9
  <2>2. Fresh' = IF lead'.failed THEN {} ELSE {lead'.todo[i] : i \in 1..Len(lead'.todo)}
    BY <1>1, <1>4, <1>8, <1>9
  <2>3. QueueKept' /\ LeadInv'
    BY <1>1, <1>4, <2>1, <2>2, GroupGoesOn
  <2>4. Inserting'
    BY <2>1 DEF Inserting, Inv1, QueueKept, QueueTyped
  <2>5. Sequenced'
    BY <1>4, <1>5, <2>4 DEF Inv1, Sequenced, Running
  <2>. QED
    BY <1>4, <1>6, <1>7, <2>3, <2>5 DEF Inv1
<1>10. CASE k + 1 # Len(lead.todo)
  <2>1. thread' = [thread EXCEPT ![t].pc = "insert"]
    BY <1>3, <1>10
  <2>2. k + 1 \in 0..(Len(lead'.todo) - 1) /\ Fresh' = {lead'.todo[i] : i \in 1..(k + 1)}
    BY <1>1, <1>2, <1>4, <1>8, <1>10
  <2>3. QueueKept' /\ LeadInv'
    BY <1>1, <1>4, <2>1, <2>2, GroupGoesOn
  <2>4. Inserting'
    BY <2>1 DEF Inserting, Inv1, QueueKept, QueueTyped
  <2>5. Sequenced'
    BY <1>4, <1>5, <2>4 DEF Inv1, Sequenced, Running
  <2>. QED
    BY <1>4, <1>6, <1>7, <2>3, <2>5 DEF Inv1
<1>. QED
  BY <1>9, <1>10

LEMMA FinishFacts ==
  ASSUME Inv1, NEW t \in Threads, FinishWrite(t)
  PROVE  /\ db = "open" /\ thread[t].pc = "finish" /\ GroupInv(t) /\ writers[1] = t
         /\ lead.size \in 1..Len(writers) /\ Len(writers) \in Nat /\ Len(lead.todo) \in Nat
         /\ lastSequence \in Nat /\ lastSequence' = lastSequence + Len(lead.todo)
         /\ \A i \in 1..lead.size : writers[i] \in Threads
         /\ \A e \in memtables[logNumber] : e.seq <= lastSequence'
         /\ QueueKept' /\ LeadAway'
<1>1. thread[t].pc = "finish" /\ db = "open" /\ GroupInv(t) /\ writers[1] = t
  <2>1. thread[t].pc = "finish"
    BY DEF FinishWrite
  <2>2. GroupInv(t)
    BY <2>1 DEF Inv1, LeadInv, Leading
  <2>. QED
    BY <2>1, <2>2, LeaderIsHead
<1>2. /\ lead.size \in 1..Len(writers) /\ Len(writers) \in Nat /\ lead.todo \in Seq(Entry)
      /\ Len(lead.todo) \in Nat /\ lastSequence \in Nat
      /\ \A i \in 1..lead.size : writers[i] \in Threads
  <2>1. Len(writers) \in Nat /\ \A i \in 1..Len(writers) : writers[i] \in Threads
    BY WritersAre DEF Inv1, QueueKept
  <2>2. lead.size \in 1..Len(writers)
    BY <1>1 DEF GroupInv
  <2>. QED
    BY <2>1, <2>2 DEF Inv1, QueueKept, QueueTyped, MemoryTyped
<1>3. PopWriters(lead.size) /\ lastSequence' = lastSequence + Len(lead.todo)
  BY DEF FinishWrite
<1>4. QueueKept' /\ LeadAway'
  BY <1>2, <1>3, Popped DEF Inv1
<1>5. \A e \in memtables[logNumber] : e.seq <= lastSequence'
  <2>1. TAKE e \in memtables[logNumber]
  <2>2. e.seq \in Nat
    <3>1. logNumber \in DOMAIN memtables
      BY <1>1 DEF Inv1, Numbered, Running
    <3>. QED
      BY <3>1 DEF Inv1, MemoryTyped, Entry
  <2>3. CASE e.seq > lastSequence
    <3>1. e \in Fresh
      BY <2>3 DEF Fresh
    <3>2. PICK i \in 1..Len(lead.todo) : e = lead.todo[i]
      BY <1>1, <3>1 DEF GroupInv, FirstEntries
    <3>3. e.seq = lastSequence + i
      BY <1>1, <3>2 DEF GroupInv
    <3>. QED
      BY <1>2, <1>3, <3>3
  <2>4. CASE ~(e.seq > lastSequence)
    BY <1>2, <1>3, <2>2, <2>4
  <2>. QED
    BY <2>3, <2>4
<1>. QED
  BY <1>1, <1>2, <1>3, <1>4, <1>5

LEMMA FinishWriteStep == ASSUME Inv1, NEW t \in Threads, FinishWrite(t) PROVE Inv1'
<1>1. /\ db = "open" /\ thread[t].pc = "finish" /\ lead.size \in 1..Len(writers) /\ Len(writers) \in Nat
      /\ Len(lead.todo) \in Nat /\ lastSequence \in Nat /\ lastSequence' = lastSequence + Len(lead.todo)
      /\ \A i \in 1..lead.size : writers[i] \in Threads
      /\ \A e \in memtables[logNumber] : e.seq <= lastSequence'
      /\ QueueKept' /\ LeadAway'
  BY FinishFacts
<1>2. /\ LogsTyped' /\ OpeningTyped' /\ BgTyped' /\ ReaderTyped' /\ Numbered' /\ db' = db
      /\ UNCHANGED <<memtables, logNumber>>
  BY Frames DEF Inv1, FinishWrite, disk, opening
<1>3. LeadInv'
  <2>1. LeadAway' => LeadInv'
    BY NobodyLeads, PTL
  <2>. QED
    BY <1>1, <2>1
<1>4. OnlyWhenOpen'
  BY <1>1, <1>2 DEF OnlyWhenOpen
<1>5. MemoryTyped'
  <2>1. lead.syncError \in BOOLEAN /\ bgError \in BOOLEAN
    BY DEF Inv1, QueueKept, QueueTyped, MemoryTyped
  <2>2. bgError' \in BOOLEAN
    BY <2>1 DEF FinishWrite
  <2>3. lastSequence' \in Nat
    BY <1>1
  <2>. QED
    BY <2>2, <2>3 DEF Inv1, MemoryTyped, FinishWrite
<1>6. Sequenced'
  <2>1. \A n \in DOMAIN memtables \ {logNumber} : \A e \in memtables[n] : e.seq <= lastSequence'
    <3>1. \A n \in DOMAIN memtables \ {logNumber} : \A e \in memtables[n] : e.seq <= lastSequence /\ e.seq \in Nat
      BY <1>1 DEF Inv1, Sequenced, Running, MemoryTyped, Entry
    <3>. QED
      BY <1>1, <3>1
  <2>2. Fresh' = {}
    <3>1. \A e \in memtables[logNumber] : e.seq \in Nat /\ lastSequence' \in Nat
      BY <1>1 DEF Inv1, Numbered, Running, MemoryTyped, Entry
    <3>. QED
      BY <1>1, <1>2, <3>1 DEF Fresh
  <2>. QED
    BY <1>2, <2>1, <2>2 DEF Sequenced
<1>7. HistoryTyped'
  <2>1. \A i \in 1..lead.size : <<thread[writers[i]].batch, thread[writers[i]].sync>> \in Nat \X BOOLEAN
    BY <1>1 DEF Inv1, QueueKept, QueueTyped
  <2>2. promised' \subseteq Nat \X BOOLEAN
    BY <2>1 DEF Inv1, HistoryTyped, FinishWrite
  <2>. QED
    BY <2>2 DEF Inv1, HistoryTyped, FinishWrite
<1>. QED
  BY <1>1, <1>2, <1>3, <1>4, <1>5, <1>6, <1>7 DEF Inv1
----------------------------------------------------------------------------
(* The background thread.                                                  *)
LEMMA AppliedTyped ==
  ASSUME NEW m \in Manifest, NEW e \in Edit PROVE Applied(m, e) \in Manifest
BY DEF Applied, Manifest, Edit

LEMMA BackgroundRuns ==
  ASSUME Inv1, bg.pc # "off" PROVE db \in {"open", "closing"} /\ Running
BY DEF Inv1, OnlyWhenOpen, BgOff, Running

LEMMA AwakenedStep ==
  ASSUME Inv1, thread' = Awakened(thread),
         UNCHANGED <<writers, lead, db, memtables, logNumber, lastSequence>>
  PROVE  QueueKept' /\ LeadInv' /\ Sequenced'
<1>1. /\ QueueKept'
      /\ \A t \in Threads :
           /\ thread'[t].batch = thread[t].batch /\ thread'[t].sync = thread[t].sync
           /\ Leading(t) => thread'[t] = thread[t]
           /\ Leading(t)' => thread'[t] = thread[t]
  BY AwakenedKeeps DEF Inv1
<1>2. Len(writers) \in Nat /\ \A i \in 1..Len(writers) : writers[i] \in Threads
  BY WritersAre DEF Inv1, QueueKept
<1>3. \A i \in 1..Len(writers) : /\ writers'[i] = writers[i]
                                 /\ thread'[writers[i]].batch = thread[writers[i]].batch
                                 /\ thread'[writers[i]].sync = thread[writers[i]].sync
  BY <1>1, <1>2
<1>4. \A t \in Threads : Leading(t) \/ Leading(t)' => thread'[t] = thread[t]
  BY <1>1
<1>5. Len(writers') \in Nat /\ Len(writers) <= Len(writers')
  BY <1>2
<1>6. LeadInv'
  BY <1>2, <1>3, <1>4, <1>5, SameGroup DEF Inv1
<1>7. Inserting => Inserting'
  BY <1>1 DEF Inserting, Leading
<1>8. Sequenced'
  BY <1>7 DEF Inv1, Sequenced, Running, Fresh
<1>. QED
  BY <1>1, <1>6, <1>8

\* Only the work itself, file numbers and the numbers of outputs change.
LEMMA WorkStep ==
  ASSUME Inv1, bg.pc # "off", BgTyped', MemoryTyped', nextFile' \in {nextFile, nextFile + 1},
         UNCHANGED <<disk, opening, memtables, imm, logNumber, lastSequence, writers, thread, lead,
                     reader, history>>
  PROVE  Inv1'
<1>1. db \in {"open", "closing"}
  BY BackgroundRuns
<1>2. /\ LogsTyped' /\ OpeningTyped' /\ ReaderTyped' /\ HistoryTyped' /\ QueueKept' /\ Sequenced' /\ LeadInv'
  BY Frames DEF Inv1, disk, opening
<1>3. OnlyWhenOpen'
  BY <1>1 DEF Inv1, OnlyWhenOpen, opening
<1>4. Numbered'
  BY DEF Inv1, Numbered, MemoryTyped, Running, opening
<1>. QED
  BY <1>2, <1>3, <1>4 DEF Inv1

LEMMA StartFlushTyped ==
  ASSUME Inv1, StartFlush PROVE BgTyped' /\ MemoryTyped' /\ nextFile' = nextFile + 1
<1>1. BgTyped'
  BY DEF Inv1, BgTyped, MemoryTyped, StartFlush, Works
<1>2. MemoryTyped' /\ nextFile' = nextFile + 1
  BY DEF Inv1, MemoryTyped, StartFlush
<1>. QED
  BY <1>1, <1>2

LEMMA BackgroundCallStep == ASSUME Inv1, BackgroundCall PROVE Inv1'
<1>1. bg.pc = "scheduled"
  BY DEF BackgroundCall
<1>2. CASE bg' = [bg EXCEPT !.pc = "end"] /\ UNCHANGED memory
  <2>1. BgTyped' /\ MemoryTyped'
    BY <1>2, Frames DEF Inv1, BgTyped, Works
  <2>. QED
    BY <1>1, <1>2, <2>1, WorkStep DEF BackgroundCall, memory
<1>3. CASE StartFlush
  BY <1>1, <1>3, StartFlushTyped, WorkStep DEF BackgroundCall, StartFlush
<1>4. CASE bg' = [bg EXCEPT !.pc = "merge", !.merging = TRUE, !.inputs = version.level0]
           /\ UNCHANGED memory
  <2>1. BgTyped' /\ MemoryTyped'
    BY <1>4, Frames DEF Inv1, BgTyped, Works, MemoryTyped, Version
  <2>. QED
    BY <1>1, <1>4, <2>1, WorkStep DEF BackgroundCall, memory
<1>. QED
  BY <1>2, <1>3, <1>4 DEF BackgroundCall

\* Steps that only write tables.
LEMMA BuildStep ==
  ASSUME Inv1, bg.pc # "off", BgTyped',
         DOMAIN tables' \subseteq Nat,
         UNCHANGED <<logs, manifests, opening, memory, queue, reader, history>>
  PROVE  Inv1'
<1>1. db \in {"open", "closing"}
  BY BackgroundRuns
<1>2. /\ MemoryTyped' /\ OpeningTyped' /\ ReaderTyped' /\ HistoryTyped' /\ QueueKept'
      /\ Numbered' /\ Sequenced' /\ LeadInv'
  BY Frames DEF Inv1, opening, memory, queue
<1>3. OnlyWhenOpen'
  BY <1>1 DEF Inv1, OnlyWhenOpen, opening, queue
<1>4. LogsTyped'
  BY DEF Inv1, LogsTyped
<1>. QED
  BY <1>2, <1>3, <1>4 DEF Inv1

LEMMA BuildTableStep == ASSUME Inv1, BuildTable PROVE Inv1'
<1>1. BgTyped' /\ bg.pc # "off"
  BY DEF Inv1, BgTyped, BuildTable, Works
<1>2. DOMAIN tables' \subseteq Nat
  BY DEF Inv1, LogsTyped, BgTyped, BuildTable, With
<1>. QED
  BY <1>1, <1>2, BuildStep DEF BuildTable

LEMMA BuildTableFailsStep == ASSUME Inv1, BuildTableFails PROVE Inv1'
<1>1. BgTyped' /\ bg.pc # "off"
  BY DEF Inv1, BgTyped, BuildTableFails, Works
<1>. QED
  BY <1>1, BuildStep DEF BuildTableFails, disk, Inv1, LogsTyped

LEMMA FinishOutputStep == ASSUME Inv1, FinishCompactionOutputFile PROVE Inv1'
<1>1. BgTyped' /\ bg.pc # "off"
  BY DEF Inv1, BgTyped, FinishCompactionOutputFile
<1>2. DOMAIN tables' \subseteq Nat
  BY DEF Inv1, LogsTyped, BgTyped, FinishCompactionOutputFile, With
<1>. QED
  BY <1>1, <1>2, BuildStep DEF FinishCompactionOutputFile

LEMMA FlushDuringMergeStep == ASSUME Inv1, FlushDuringMerge PROVE Inv1'
<1>1. bg.pc # "off" /\ StartFlush
  BY DEF FlushDuringMerge
<1>. QED
  BY <1>1, StartFlushTyped, WorkStep DEF FlushDuringMerge, StartFlush

LEMMA OpenOutputStep == ASSUME Inv1, OpenCompactionOutputFile PROVE Inv1'
<1>1. BgTyped' /\ MemoryTyped' /\ bg.pc # "off"
  <2>1. BgTyped' /\ bg.pc # "off"
    BY DEF Inv1, BgTyped, OpenCompactionOutputFile, MemoryTyped, Works
  <2>2. MemoryTyped'
    BY DEF Inv1, OpenCompactionOutputFile, MemoryTyped
  <2>. QED
    BY <2>1, <2>2
<1>. QED
  BY <1>1, WorkStep DEF OpenCompactionOutputFile, queue

\* LogAndApply begins, or an error is recorded.
LEMMA CommitStarts ==
  ASSUME Inv1, NEW what \in {"flush", "merge"}, NEW edit \in Edit, StartCommit(what, edit),
         bg.pc # "off", UNCHANGED db, UNCHANGED replay
  PROVE  BgTyped' /\ OpeningTyped'
<1>1. manifests \subseteq Manifest /\ manifests # {}
  BY DEF Inv1, OpeningTyped
<1>2. manifests' \subseteq Manifest /\ manifests' # {}
  BY <1>1, AppliedTyped DEF StartCommit
<1>3. BgTyped'
  BY <1>1 DEF Inv1, BgTyped, StartCommit, Works
<1>. QED
  BY <1>2, <1>3 DEF Inv1, OpeningTyped

LEMMA ErrorStep ==
  ASSUME Inv1, bg.pc # "off", BgTyped', thread' = Awakened(thread), bgError' = TRUE,
         pendingOutputs' \subseteq Nat,
         UNCHANGED <<disk, opening, memtables, imm, logNumber, version, minLog, nextFile,
                     lastSequence, writers, lead, reader, history>>
  PROVE  Inv1'
<1>1. db \in {"open", "closing"}
  BY BackgroundRuns
<1>2. LogsTyped' /\ OpeningTyped' /\ ReaderTyped' /\ HistoryTyped' /\ Numbered'
  BY Frames DEF Inv1, disk, opening
<1>3. QueueKept' /\ LeadInv' /\ Sequenced'
  BY AwakenedStep DEF opening
<1>4. OnlyWhenOpen'
  BY <1>1 DEF Inv1, OnlyWhenOpen, opening
<1>5. MemoryTyped'
  BY DEF Inv1, MemoryTyped
<1>. QED
  BY <1>2, <1>3, <1>4, <1>5 DEF Inv1

LEMMA FlushBuiltStep == ASSUME Inv1, FlushBuilt PROVE Inv1'
<1>1. bg.pc # "off" /\ pendingOutputs' \subseteq Nat
  BY DEF FlushBuilt, Inv1, MemoryTyped
<1>2. db \in {"open", "closing"}
  BY <1>1, BackgroundRuns
<1>3. CASE bg.pc = "built" /\ db # "closing"
  <2>. DEFINE edit == [added0 |-> {bg.number} \cap DOMAIN tables, addedDeeper |-> {}, deleted |-> {},
                       log |-> logNumber, next |-> nextFile, last |-> lastSequence]
  <2>1. edit \in Edit
    BY DEF Inv1, BgTyped, MemoryTyped, Edit
  <2>2. StartCommit("flush", edit) /\ UNCHANGED <<bgError, thread>>
    BY <1>3 DEF FlushBuilt
  <2>. HIDE DEF edit
  <2>3. UNCHANGED <<logs, tables, opening, memtables, imm, logNumber, version, minLog, nextFile,
                    lastSequence, writers, lead, reader, history>>
    BY DEF FlushBuilt
  <2>4. BgTyped' /\ OpeningTyped'
    BY <1>1, <2>1, <2>2, <2>3, CommitStarts DEF opening
  <2>5. /\ LogsTyped' /\ ReaderTyped' /\ HistoryTyped' /\ QueueKept' /\ Numbered' /\ Sequenced' /\ LeadInv'
    BY <2>2, <2>3, Frames DEF Inv1, opening
  <2>6. OnlyWhenOpen'
    BY <1>2, <2>3 DEF Inv1, OnlyWhenOpen, opening
  <2>7. MemoryTyped'
    BY <1>1, <2>2, <2>3 DEF Inv1, MemoryTyped
  <2>. QED
    BY <2>4, <2>5, <2>6, <2>7 DEF Inv1
<1>4. CASE ~(bg.pc = "built" /\ db # "closing")
  <2>1. RecordBackgroundError /\ UNCHANGED manifests
    BY <1>4 DEF FlushBuilt
  <2>2. BgTyped'
    BY <2>1 DEF Inv1, BgTyped, RecordBackgroundError, Works
  <2>. QED
    BY <1>1, <2>1, <2>2, ErrorStep DEF FlushBuilt, RecordBackgroundError, disk
<1>. QED
  BY <1>3, <1>4

LEMMA CleanupStep ==
  ASSUME Inv1, bg.pc # "off", CleanupCompaction,
         UNCHANGED <<disk, opening, memtables, imm, logNumber, version, minLog, nextFile,
                     lastSequence, writers, lead, reader, history>>
  PROVE  Inv1'
<1>1. BgTyped'
  BY DEF Inv1, BgTyped, CleanupCompaction, Works
<1>2. pendingOutputs' \subseteq Nat
  BY DEF Inv1, MemoryTyped, CleanupCompaction
<1>. QED
  BY <1>1, <1>2, ErrorStep DEF CleanupCompaction

LEMMA InstallResultsStep == ASSUME Inv1, InstallCompactionResults PROVE Inv1'
<1>1. bg.pc # "off"
  BY DEF InstallCompactionResults
<1>2. db \in {"open", "closing"}
  BY <1>1, BackgroundRuns
<1>3. CASE db # "closing"
  <2>. DEFINE edit == [added0 |-> {}, addedDeeper |-> {bg.output}, deleted |-> bg.inputs,
                       log |-> minLog, next |-> nextFile, last |-> lastSequence]
  <2>1. edit \in Edit
    BY DEF Inv1, BgTyped, MemoryTyped, Edit
  <2>2. StartCommit("merge", edit) /\ UNCHANGED <<pendingOutputs, bgError, thread>>
    BY <1>3 DEF InstallCompactionResults
  <2>. HIDE DEF edit
  <2>3. UNCHANGED <<logs, tables, opening, memtables, imm, logNumber, version, minLog, nextFile,
                    lastSequence, writers, lead, reader, history>>
    BY DEF InstallCompactionResults
  <2>4. BgTyped' /\ OpeningTyped'
    BY <1>1, <2>1, <2>2, <2>3, CommitStarts DEF opening
  <2>5. /\ LogsTyped' /\ MemoryTyped' /\ ReaderTyped' /\ HistoryTyped' /\ QueueKept' /\ Numbered'
        /\ Sequenced' /\ LeadInv'
    BY <2>2, <2>3, Frames DEF Inv1, opening, memory
  <2>6. OnlyWhenOpen'
    BY <1>2, <2>3 DEF Inv1, OnlyWhenOpen, opening
  <2>. QED
    BY <2>4, <2>5, <2>6 DEF Inv1
<1>4. CASE db = "closing"
  <2>1. CleanupCompaction /\ UNCHANGED manifests
    BY <1>4 DEF InstallCompactionResults
  <2>. QED
    BY <1>1, <2>1, CleanupStep DEF InstallCompactionResults, disk
<1>. QED
  BY <1>3, <1>4

LEMMA MergeFailsStep == ASSUME Inv1, MergeFails PROVE Inv1'
<1>1. bg.pc # "off" /\ CleanupCompaction
  BY DEF MergeFails
<1>. QED
  BY <1>1, CleanupStep DEF MergeFails

LEMMA CommitFailsStep == ASSUME Inv1, CommitFails PROVE Inv1'
<1>1. bg.pc # "off"
  BY DEF CommitFails
<1>2. CASE RecordBackgroundError /\ UNCHANGED pendingOutputs
  <2>1. BgTyped'
    BY <1>2 DEF Inv1, BgTyped, RecordBackgroundError, Works
  <2>2. pendingOutputs' \subseteq Nat
    BY <1>2 DEF Inv1, MemoryTyped
  <2>. QED
    BY <1>1, <1>2, <2>1, <2>2, ErrorStep DEF CommitFails, RecordBackgroundError
<1>3. CASE CleanupCompaction
  BY <1>1, <1>3, CleanupStep DEF CommitFails
<1>. QED
  BY <1>2, <1>3 DEF CommitFails

LEMMA DeleteFilesStep == ASSUME Inv1, DeleteFiles PROVE Inv1'
<1>1. BgTyped' /\ bg.pc # "off"
  BY DEF Inv1, BgTyped, DeleteFiles, Works
<1>2. db \in {"open", "closing"}
  BY <1>1, BackgroundRuns
<1>3. /\ MemoryTyped' /\ OpeningTyped' /\ ReaderTyped' /\ HistoryTyped' /\ QueueKept' /\ Numbered'
      /\ Sequenced' /\ LeadInv'
  BY Frames DEF Inv1, DeleteFiles, opening, memory, queue
<1>4. OnlyWhenOpen'
  BY <1>2 DEF Inv1, OnlyWhenOpen, DeleteFiles, opening, queue
<1>5. LogsTyped'
  BY DEF Inv1, LogsTyped, DeleteFiles, Without
<1>. QED
  BY <1>1, <1>3, <1>4, <1>5 DEF Inv1

LEMMA EndOfCallStep == ASSUME Inv1, EndOfBackgroundCall PROVE Inv1'
<1>1. bg.pc # "off"
  BY DEF EndOfBackgroundCall
<1>2. db \in {"open", "closing"}
  BY <1>1, BackgroundRuns
<1>3. BgTyped'
  <2>1. BgOff \in [pc : Works, what : {"flush", "merge"}, number : Nat, edit : Edit \cup Nothing,
             before : SUBSET Manifest, garbage : Garbage \cup Nothing, merging : BOOLEAN,
             inputs : SUBSET Nat, output : Nat]
    BY DEF BgOff, Works, Nothing
  <2>2. CASE bg' = [bg EXCEPT !.pc = "merge"]
    BY <2>2 DEF Inv1, BgTyped, Works
  <2>3. CASE bg' = MaybeScheduleCompaction(BgOff, imm, version, bgError)
    <3>1. bg' = BgOff \/ bg' = [BgOff EXCEPT !.pc = "scheduled"]
      BY <2>3 DEF MaybeScheduleCompaction
    <3>2. BgOff.pc = "off"
      BY DEF BgOff
    <3>3. bg' \in [pc : Works, what : {"flush", "merge"}, number : Nat, edit : Edit \cup Nothing,
                   before : SUBSET Manifest, garbage : Garbage \cup Nothing, merging : BOOLEAN,
                   inputs : SUBSET Nat, output : Nat]
          /\ bg'.pc \in {"off", "scheduled"}
      BY <2>1, <3>1, <3>2 DEF Works
    <3>. QED
      BY <3>3 DEF BgTyped
  <2>. QED
    BY <2>2, <2>3 DEF EndOfBackgroundCall
<1>4. /\ LogsTyped' /\ MemoryTyped' /\ OpeningTyped' /\ ReaderTyped' /\ HistoryTyped' /\ Numbered'
  BY Frames DEF Inv1, EndOfBackgroundCall, disk, opening, memory
<1>5. QueueKept' /\ LeadInv' /\ Sequenced'
  BY AwakenedStep DEF EndOfBackgroundCall, opening, memory
<1>6. OnlyWhenOpen'
  BY <1>2 DEF Inv1, OnlyWhenOpen, EndOfBackgroundCall, opening
<1>. QED
  BY <1>3, <1>4, <1>5, <1>6 DEF Inv1

LEMMA CommitStep == ASSUME Inv1, Commit PROVE Inv1'
<1>1. bg.pc = "commit" /\ bg.edit \in Edit /\ bg.before # {} /\ bg.before \subseteq Manifest
  BY DEF Inv1, BgTyped, Commit
<1>2. db \in {"open", "closing"} /\ Running
  BY <1>1, BackgroundRuns
<1>3. LogsTyped' /\ ReaderTyped' /\ HistoryTyped' /\ QueueKept'
  BY Frames DEF Inv1, Commit, queue
<1>4. OpeningTyped'
  <2>1. manifests' \subseteq Manifest /\ manifests' # {}
    BY <1>1, AppliedTyped DEF Commit
  <2>. QED
    BY <2>1 DEF Inv1, OpeningTyped, Commit, opening
<1>5. OnlyWhenOpen'
  BY <1>2 DEF Inv1, OnlyWhenOpen, Commit, opening, queue
<1>6. /\ imm' \in {0, imm} /\ memtables' = Referenced(memtables, logNumber, imm')
      /\ UNCHANGED <<db, logNumber, lastSequence, nextFile, writers, thread, lead>>
  BY DEF Commit, None, opening, queue
<1>7. /\ DOMAIN memtables' \subseteq DOMAIN memtables
      /\ \A n \in DOMAIN memtables' : memtables'[n] = memtables[n]
      /\ \A n \in {logNumber, imm'} \cap DOMAIN memtables : n \in DOMAIN memtables'
  BY <1>6 DEF Referenced
<1>8. MemoryTyped'
  <2>1. memtables' \in [DOMAIN memtables' -> SUBSET Entry]
    BY <1>6, <1>7 DEF Inv1, MemoryTyped, Referenced
  <2>2. version' \in Version /\ minLog' \in Nat
    BY <1>1 DEF Inv1, MemoryTyped, Commit, Version, Edit
  <2>3. pendingOutputs' \subseteq Nat
    BY DEF Inv1, MemoryTyped, Commit
  <2>4. imm' \in Nat /\ bgError' = bgError
    BY <1>6 DEF Inv1, MemoryTyped, Commit
  <2>. QED
    BY <1>6, <1>7, <2>1, <2>2, <2>3, <2>4 DEF Inv1, MemoryTyped
<1>9. Numbered'
  BY <1>2, <1>6, <1>7 DEF Inv1, Numbered, Running
<1>10. logNumber \in DOMAIN memtables'
  BY <1>2, <1>6, <1>7 DEF Inv1, Numbered
<1>11. Sequenced'
  <2>1. Inserting => Inserting'
    BY <1>6 DEF Inserting
  <2>. QED
    BY <1>6, <1>7, <1>10, <2>1, FewerMemtables DEF Inv1
<1>12. LeadInv'
  <2>1. Len(writers) \in Nat /\ Len(writers') \in Nat /\ Len(writers) <= Len(writers')
    BY <1>6, WritersAre DEF Inv1, QueueKept
  <2>2. memtables'[logNumber] = memtables[logNumber]
    BY <1>7, <1>10
  <2>. QED
    BY <1>6, <2>1, <2>2, SameGroup DEF Inv1
<1>13. BgTyped'
  <2>1. PICK inputs, live, oldest : /\ inputs \in {{}, bg.inputs} /\ oldest = bg.edit.log
          /\ bg' = [bg EXCEPT !.pc = "delete", !.inputs = inputs,
                              !.garbage = ObsoleteFiles(live, oldest, bgError)]
    BY DEF Commit
  <2>2. ObsoleteFiles(live, oldest, bgError) \in Garbage
    BY DEF ObsoleteFiles, Garbage, Inv1, LogsTyped
  <2>3. {} \in SUBSET Nat /\ bg.inputs \in SUBSET Nat
    BY DEF Inv1, BgTyped
  <2>. QED
    BY <2>1, <2>2, <2>3 DEF Inv1, BgTyped, Works
<1>. QED
  BY <1>3, <1>4, <1>5, <1>8, <1>9, <1>11, <1>12, <1>13 DEF Inv1
----------------------------------------------------------------------------
(* Readers, the end of the process, and DB::Open.                          *)
LEMMA StartReadStep == ASSUME Inv1, NEW r \in Readers, StartRead(r) PROVE Inv1'
<1>1. db = "open"
  BY DEF StartRead
<1>2. /\ LogsTyped' /\ MemoryTyped' /\ OpeningTyped' /\ BgTyped' /\ HistoryTyped' /\ QueueKept'
      /\ Numbered' /\ Sequenced' /\ LeadInv'
  BY Frames DEF Inv1, StartRead, disk, opening, memory, queue
<1>3. OnlyWhenOpen'
  BY <1>1 DEF OnlyWhenOpen, StartRead, opening
<1>4. ReaderTyped'
  <2>1. InMemory \in SUBSET Nat /\ FilesOf(version) \in SUBSET Nat /\ lastSequence \in Nat
    BY DEF Inv1, MemoryTyped, Version, InMemory, FilesOf
  <2>2. reader' = [reader EXCEPT ![r] =
          [on |-> TRUE, seq |-> lastSequence, mems |-> InMemory, files |-> FilesOf(version),
           expect |-> Stored(lastSequence)]]
    BY DEF StartRead
  <2>3. /\ DOMAIN reader' = Readers /\ \A x \in Readers \ {r} : reader'[x] = reader[x]
        /\ reader'[r] = [on |-> TRUE, seq |-> lastSequence, mems |-> InMemory,
                         files |-> FilesOf(version), expect |-> Stored(lastSequence)]
    BY <2>2 DEF Inv1, ReaderTyped
  <2>4. Read([on |-> TRUE, seq |-> lastSequence, mems |-> InMemory,
              files |-> FilesOf(version), expect |-> Stored(lastSequence)])
    BY <2>1 DEF Read
  <2>. QED
    BY <2>3, <2>4 DEF Inv1, ReaderTyped
<1>. QED
  BY <1>2, <1>3, <1>4 DEF Inv1

LEMMA OffTyped ==
  /\ BgOff \in [pc : Works, what : {"flush", "merge"}, number : Nat, edit : Edit \cup Nothing,
             before : SUBSET Manifest, garbage : Garbage \cup Nothing, merging : BOOLEAN,
             inputs : SUBSET Nat, output : Nat]
  /\ BgOff.pc = "off"
  /\ EmptyVersion \in Version
  /\ Read(NoRead)
BY DEF BgOff, Works, Nothing, EmptyVersion, Version, Read, NoRead

LEMMA EndReadStep == ASSUME Inv1, NEW r \in Readers, EndRead(r) PROVE Inv1'
<1>1. db = "open" /\ Running
  BY DEF EndRead, Inv1, OnlyWhenOpen, Running
<1>2. LogsTyped' /\ OpeningTyped' /\ BgTyped' /\ HistoryTyped' /\ QueueKept'
  BY Frames DEF Inv1, EndRead, disk, opening, queue
<1>3. OnlyWhenOpen'
  BY <1>1 DEF OnlyWhenOpen, EndRead, opening
<1>4. ReaderTyped'
  <2>1. /\ DOMAIN reader' = Readers /\ \A x \in Readers \ {r} : reader'[x] = reader[x]
        /\ reader'[r] = NoRead
    BY DEF Inv1, ReaderTyped, EndRead
  <2>. QED
    BY <2>1, OffTyped DEF Inv1, ReaderTyped
<1>5. /\ DOMAIN memtables' \subseteq DOMAIN memtables
      /\ \A n \in DOMAIN memtables' : memtables'[n] = memtables[n]
      /\ \A n \in InMemory \cap DOMAIN memtables : n \in DOMAIN memtables'
      /\ memtables' = [n \in DOMAIN memtables' |-> memtables[n]]
      /\ UNCHANGED <<db, imm, logNumber, version, minLog, nextFile, lastSequence, pendingOutputs,
                     bgError, writers, thread, lead>>
  BY DEF EndRead, opening, queue
<1>6. MemoryTyped'
  BY <1>5 DEF Inv1, MemoryTyped
<1>7. Numbered'
  BY <1>1, <1>5 DEF Inv1, Numbered, Running, InMemory, None
<1>8. logNumber \in DOMAIN memtables'
  BY <1>1, <1>5 DEF Inv1, Numbered, InMemory, None
<1>9. Sequenced'
  <2>1. Inserting => Inserting'
    BY <1>5 DEF Inserting
  <2>. QED
    BY <1>5, <1>8, <2>1, FewerMemtables DEF Inv1
<1>10. LeadInv'
  <2>1. Len(writers) \in Nat /\ Len(writers') \in Nat /\ Len(writers) <= Len(writers')
    BY <1>5, WritersAre DEF Inv1, QueueKept
  <2>2. memtables'[logNumber] = memtables[logNumber]
    BY <1>5, <1>8
  <2>. QED
    BY <1>5, <2>1, <2>2, SameGroup DEF Inv1
<1>. QED
  BY <1>2, <1>3, <1>4, <1>6, <1>7, <1>9, <1>10 DEF Inv1

LEMMA CloseStep == ASSUME Inv1, Close PROVE Inv1'
<1>1. db = "open" /\ db' = "closing" /\ writers = <<>> /\ \A r \in Readers : ~reader[r].on
  BY DEF Close
<1>2. UNCHANGED <<disk, replay, memory, bg, queue, reader, history>>
  BY DEF Close
<1>3. /\ LogsTyped' /\ MemoryTyped' /\ BgTyped' /\ ReaderTyped' /\ HistoryTyped' /\ QueueKept' /\ LeadInv'
  BY <1>2, Frames DEF Inv1, disk, memory, queue
<1>4. OpeningTyped'
  BY <1>1, <1>2 DEF Inv1, OpeningTyped, disk
<1>5. OnlyWhenOpen'
  BY <1>1, <1>2 DEF OnlyWhenOpen, queue
<1>6. Numbered' /\ Sequenced'
  BY <1>1, <1>2 DEF Inv1, Numbered, Sequenced, Running, Inserting, Fresh, memory, queue
<1>. QED
  BY <1>3, <1>4, <1>5, <1>6 DEF Inv1

LEMMA IdleQueue ==
  ASSUME writers = <<>>, thread = [t \in Threads |-> Idle], lead = NoLead
  PROVE  QueueKept /\ LeadInv
<1>1. \A t \in Threads : thread[t].pc = "idle"
  BY DEF Idle
<1>2. <<>> \in Seq(Threads) /\ <<>> \in Seq(Entry) /\ Len(<<>>) = 0
  OBVIOUS
<1>3. QueueTyped
  BY <1>2 DEF QueueTyped, Idle, NoLead, Callers
<1>4. OnceInQueue /\ IdleOutside /\ HeadActs
  BY <1>1, <1>2 DEF OnceInQueue, IdleOutside, HeadActs
<1>5. LeadInv
  BY <1>1 DEF LeadInv, Leading, NoLead
<1>. QED
  BY <1>3, <1>4, <1>5 DEF QueueKept

LEMMA DownStep ==
  ASSUME OpeningTyped, Down, LogsTyped', HistoryTyped', manifests' = manifests
  PROVE  Inv1'
<1>1. QueueKept' /\ LeadInv'
  <2>1. writers' = <<>> /\ thread' = [t \in Threads |-> Idle] /\ lead' = NoLead
    BY DEF Down
  <2>2. (writers = <<>> /\ thread = [t \in Threads |-> Idle] /\ lead = NoLead => QueueKept /\ LeadInv)'
    BY IdleQueue, PTL
  <2>. QED
    BY <2>1, <2>2
<1>2. OpeningTyped'
  BY DEF OpeningTyped, Down
<1>3. BgTyped' /\ ReaderTyped'
  BY OffTyped DEF BgTyped, ReaderTyped, Down
<1>4. MemoryTyped'
  <2>1. /\ memtables' = <<>> /\ imm' = 0 /\ logNumber' = 0 /\ version' = EmptyVersion /\ minLog' = 0
        /\ nextFile' = 0 /\ lastSequence' = 0 /\ pendingOutputs' = {} /\ bgError' = FALSE
    BY DEF Down, None
  <2>2. memtables' \in [DOMAIN memtables' -> SUBSET Entry] /\ DOMAIN memtables' \subseteq Nat
    BY <2>1
  <2>. QED
    BY <2>1, <2>2, OffTyped DEF MemoryTyped
<1>5. OnlyWhenOpen'
  <2>1. /\ db' = "closed" /\ writers' = <<>> /\ bg' = BgOff /\ bgError' = FALSE /\ imm' = 0
        /\ reader' = [r \in Readers |-> NoRead]
    BY DEF Down, None
  <2>2. \A r \in Readers : ~reader'[r].on
    BY <2>1 DEF NoRead
  <2>. QED
    BY <2>1, <2>2 DEF OnlyWhenOpen
<1>6. Numbered' /\ Sequenced'
  BY DEF Numbered, Sequenced, Running, Down
<1>. QED
  BY <1>1, <1>2, <1>3, <1>4, <1>5, <1>6 DEF Inv1

\* What lasts of the promises was promised.
LEMMA PromisesLast ==
  /\ Lasting(promised) \subseteq promised
  /\ \A p \in Lasting(promised) : ~Exposed(p[1])
BY DEF Lasting

LEMMA FewerPromises ==
  ASSUME HistoryTyped, promised' \subseteq promised, lastBatch' = lastBatch
  PROVE  HistoryTyped'
BY DEF HistoryTyped

LEMMA ClosedStep == ASSUME Inv1, Closed PROVE Inv1'
<1>1. LogsTyped' /\ HistoryTyped' /\ manifests' = manifests
  BY Frames, PromisesLast, FewerPromises DEF Inv1, Closed, disk
<1>. QED
  BY <1>1, DownStep DEF Inv1, Closed

LEMMA KillStep == ASSUME Inv1, Kill PROVE Inv1'
<1>1. LogsTyped' /\ HistoryTyped' /\ manifests' = manifests
  BY Frames, PromisesLast, FewerPromises DEF Inv1, Kill, disk
<1>. QED
  BY <1>1, DownStep DEF Inv1, Kill

\* What is left of the logs.
LEMMA OutageLogs ==
  ASSUME LogsTyped, Outage
  PROVE  /\ DOMAIN logs' = DOMAIN logs /\ LogsTyped'
         /\ \A n \in DOMAIN logs :
              /\ Len(logs'[n].records) \in Nat /\ logs'[n].synced = Len(logs'[n].records)
              /\ logs[n].synced <= Len(logs'[n].records)
              /\ Len(logs'[n].records) <= Len(logs[n].records)
              /\ \A i \in 1..Len(logs'[n].records) : logs'[n].records[i] = logs[n].records[i]
<1>1. PICK keep \in [DOMAIN logs -> 0..lastBatch] :
        /\ \A n \in DOMAIN logs : keep[n] \in logs[n].synced..Len(logs[n].records)
        /\ logs' = [n \in DOMAIN logs |-> [records |-> SubSeq(logs[n].records, 1, keep[n]),
                                           synced |-> keep[n]]]
  BY DEF Outage
<1>2. ASSUME NEW n \in DOMAIN logs
      PROVE  /\ logs'[n] \in LogFile
             /\ Len(logs'[n].records) \in Nat /\ logs'[n].synced = Len(logs'[n].records)
             /\ logs[n].synced <= Len(logs'[n].records)
             /\ Len(logs'[n].records) <= Len(logs[n].records)
             /\ \A i \in 1..Len(logs'[n].records) : logs'[n].records[i] = logs[n].records[i]
  <2>. DEFINE r == logs[n].records
              k == keep[n]
              s == SubSeq(r, 1, k)
  <2>1. /\ r \in Seq(Seq(Entry)) /\ Len(r) \in Nat /\ logs[n].synced \in Nat
        /\ k \in logs[n].synced..Len(r) /\ k \in Nat /\ k <= Len(r)
    BY <1>1 DEF LogsTyped, LogFile
  <2>2. logs'[n] = [records |-> s, synced |-> k]
    BY <1>1
  <2>. HIDE DEF r, k
  <2>3. s \in Seq(Seq(Entry)) /\ Len(s) = k /\ \A i \in 1..k : s[i] = r[i]
    <3>1. \A i \in 1..k : r[i] \in Seq(Entry)
      BY <2>1
    <3>2. /\ s \in Seq(Seq(Entry)) /\ Len(s) = (IF 1 <= k THEN k - 1 + 1 ELSE 0)
          /\ \A i \in 1..(k - 1 + 1) : s[i] = r[1 + i - 1]
      BY <2>1, <3>1, SubSeqProperties
    <3>. QED
      BY <2>1, <3>2
  <2>. HIDE DEF s
  <2>4. logs'[n].records = s /\ logs'[n].synced = k /\ logs'[n] \in LogFile
    BY <2>1, <2>2, <2>3 DEF LogFile
  <2>. QED
    BY <2>1, <2>3, <2>4 DEF r
<1>3. DOMAIN logs' = DOMAIN logs /\ logs' = [n \in DOMAIN logs |-> logs'[n]] /\ tables' = tables
  BY <1>1 DEF Outage
<1>4. \A n \in DOMAIN logs' : logs'[n].synced <= Len(logs'[n].records)
  BY <1>2, <1>3
<1>5. LogsTyped'
  BY <1>2, <1>3, <1>4 DEF LogsTyped
<1>. QED
  BY <1>2, <1>3, <1>5

LEMMA OutageStep == ASSUME Inv1, Outage PROVE Inv1'
<1>1. LogsTyped'
  BY OutageLogs DEF Inv1
<1>2. HistoryTyped' /\ manifests' = manifests
  <2>1. promised' \subseteq promised /\ lastBatch' = lastBatch /\ manifests' = manifests
    BY PromisesLast DEF Outage
  <2>. QED
    BY <2>1, FewerPromises DEF Inv1
<1>. QED
  BY <1>1, <1>2, DownStep DEF Inv1, Outage

LEMMA RecoverStep == ASSUME Inv1, NEW m \in manifests, Recover(m) PROVE Inv1'
<1>1. /\ db = "closed" /\ db' = "replaying" /\ m \in Manifest
      /\ UNCHANGED <<logs, tables, memtables, imm, logNumber, pendingOutputs, bgError, bg, queue,
                     reader, history>>
  BY DEF Recover, Inv1, OpeningTyped
<1>2. LogsTyped' /\ BgTyped' /\ ReaderTyped' /\ HistoryTyped' /\ QueueKept'
  BY <1>1, Frames DEF Inv1, queue
<1>3. MemoryTyped'
  BY <1>1 DEF Inv1, MemoryTyped, Recover, Manifest, Version
<1>4. OpeningTyped'
  <2>1. manifests' = {o \in manifests : o.next <= m.next}
    BY DEF Recover
  <2>2. m.next <= m.next /\ m.log \in Nat
    BY <1>1 DEF Manifest
  <2>3. m \in manifests'
    BY <2>1, <2>2
  <2>4. {n \in DOMAIN logs : n >= m.log} \subseteq Nat
    BY DEF Inv1, LogsTyped
  <2>5. replay' = [from |-> m, logs |-> {n \in DOMAIN logs : n >= m.log}, read |-> 0, mem |-> {}, added |-> {}]
    BY DEF Recover, NoReplay
  <2>6. replay' \in [from : Manifest, logs : SUBSET Nat, read : Nat, mem : SUBSET Entry, added : SUBSET Nat]
    BY <1>1, <2>4, <2>5
  <2>. QED
    BY <1>1, <2>1, <2>3, <2>6 DEF Inv1, OpeningTyped
<1>5. OnlyWhenOpen'
  BY <1>1 DEF Inv1, OnlyWhenOpen, Recover, NoReplay, queue, Manifest
<1>6. Numbered' /\ Sequenced'
  BY <1>1 DEF Numbered, Sequenced, Running
<1>7. LeadInv'
  <2>1. \A t \in Threads : thread[t].pc = "idle"
    <3>1. writers = <<>> /\ Len(writers) = 0
      BY <1>1, WritersAre DEF Inv1, OnlyWhenOpen, QueueKept
    <3>. QED
      BY <3>1 DEF Inv1, QueueKept, IdleOutside
  <2>. QED
    BY <1>1, <2>1 DEF Inv1, LeadInv, Leading, queue
<1>. QED
  BY <1>2, <1>3, <1>4, <1>5, <1>6, <1>7 DEF Inv1

\* While nobody is in the queue, what the leader would do says nothing.
LEMMA NobodyInQueue ==
  ASSUME Inv1, db # "open"
  PROVE  writers = <<>> /\ (\A t \in Threads : thread[t].pc = "idle") /\ lead.failed = FALSE
<1>1. writers = <<>> /\ Len(writers) = 0
  BY WritersAre DEF Inv1, OnlyWhenOpen, QueueKept
<1>2. \A t \in Threads : thread[t].pc = "idle"
  BY <1>1 DEF Inv1, QueueKept, IdleOutside
<1>3. lead.failed \in BOOLEAN /\ ~lead.failed
  BY <1>2 DEF Inv1, LeadInv, QueueKept, QueueTyped
<1>. QED
  BY <1>1, <1>2, <1>3

LEMMA RecoveredSequenceIs ==
  ASSUME lastSequence \in Nat, NEW r \in Seq(Entry)
  PROVE  /\ RecoveredSequence(RecordEntries(r)) \in Nat
         /\ lastSequence <= RecoveredSequence(RecordEntries(r))
         /\ \A e \in RecordEntries(r) : e.seq <= RecoveredSequence(RecordEntries(r))
         /\ RecordEntries(r) \subseteq Entry
<1>. DEFINE E == RecordEntries(r)
            f == [i \in 1..Len(r) |-> r[i].seq]
            S == {f[i] : i \in 1..Len(r)}
            T == {lastSequence} \cup {e.seq : e \in E}
<1>1. Len(r) \in Nat /\ \A i \in 1..Len(r) : r[i] \in Entry /\ r[i].seq \in Nat
  <2>1. Len(r) \in Nat /\ \A i \in 1..Len(r) : r[i] \in Entry
    OBVIOUS
  <2>2. \A e \in Entry : e.seq \in Nat
    BY DEF Entry
  <2>. QED
    BY <2>1, <2>2
<1>2. E = {r[i] : i \in 1..Len(r)}
  BY DEF RecordEntries
<1>3. IsFiniteSet(S)
  <2>1. IsFiniteSet(1..Len(r))
    BY <1>1, FS_Interval
  <2>. HIDE DEF f
  <2>. QED
    BY <2>1, FiniteImage
<1>4. {e.seq : e \in E} = S
  BY <1>2
<1>5. T \in SUBSET Nat /\ T # {} /\ IsFiniteSet(T)
  <2>1. S \in SUBSET Nat
    BY <1>1
  <2>2. IsFiniteSet({lastSequence})
    BY FS_Singleton
  <2>3. IsFiniteSet({lastSequence} \cup S)
    <3>. HIDE DEF S
    <3>. QED
      BY <1>3, <2>2, FS_Union
  <2>4. T = {lastSequence} \cup S
    BY <1>4
  <2>. HIDE DEF S, T
  <2>. QED
    BY <2>1, <2>3, <2>4
<1>6. RecoveredSequence(E) = Max(T)
  BY DEF RecoveredSequence
<1>7. lastSequence \in T /\ \A e \in E : e.seq \in T
  OBVIOUS
<1>8. E \subseteq Entry
  BY <1>1, <1>2
<1>. HIDE DEF E, T, S
<1>9. Max(T) \in T /\ \A y \in T : y <= Max(T)
  BY <1>5, MaxProperties
<1>. QED
  BY <1>5, <1>6, <1>7, <1>8, <1>9 DEF E

\* The steps of the recovery of a log.
LEMMA RecoveryGoesOn ==
  ASSUME Inv1, db = "replaying", HistoryTyped', DOMAIN tables' \subseteq Nat,
         UNCHANGED <<db, logs, manifests, memtables, imm, logNumber, version, minLog, pendingOutputs,
                     bgError, bg, queue, reader>>,
         lastSequence' \in Nat, nextFile' \in Nat, nextFile <= nextFile',
         replay' \in [from : Manifest, logs : SUBSET Nat, read : Nat, mem : SUBSET Entry,
                      added : SUBSET Nat],
         replay'.logs \subseteq replay.logs
  PROVE  Inv1'
<1>1. UNCHANGED <<db, logs, manifests, memtables, imm, logNumber, version, minLog, pendingOutputs,
                  bgError, bg, queue, reader>>
  OBVIOUS
<1>2. BgTyped' /\ ReaderTyped' /\ HistoryTyped' /\ QueueKept'
  BY <1>1, Frames DEF Inv1, queue
<1>3. LogsTyped' /\ MemoryTyped' /\ OpeningTyped'
  <2>1. LogsTyped'
    BY <1>1 DEF Inv1, LogsTyped
  <2>2. MemoryTyped'
    BY <1>1 DEF Inv1, MemoryTyped
  <2>3. OpeningTyped'
    BY <1>1 DEF Inv1, OpeningTyped
  <2>. QED
    BY <2>1, <2>2, <2>3
<1>4. OnlyWhenOpen'
  BY <1>1 DEF Inv1, OnlyWhenOpen, queue, MemoryTyped
<1>5. Numbered' /\ Sequenced'
  BY <1>1 DEF Numbered, Sequenced, Running
<1>6. LeadInv'
  BY <1>1, NobodyInQueue DEF LeadInv, Leading, queue
<1>. QED
  BY <1>2, <1>3, <1>4, <1>5, <1>6 DEF Inv1

LEMMA RecoveryStep ==
  ASSUME Inv1, db = "replaying", UnchangedInRecovery, DOMAIN tables' \subseteq Nat,
         lastSequence' \in Nat, nextFile' \in Nat, nextFile <= nextFile',
         replay' \in [from : Manifest, logs : SUBSET Nat, read : Nat, mem : SUBSET Entry,
                      added : SUBSET Nat],
         replay'.logs \subseteq replay.logs
  PROVE  Inv1'
<1>1. /\ UNCHANGED <<db, logs, manifests, memtables, imm, logNumber, version, minLog, pendingOutputs,
                     bgError, bg, queue, reader>>
      /\ UNCHANGED history
  BY DEF UnchangedInRecovery
<1>2. HistoryTyped'
  BY <1>1, Frames DEF Inv1
<1>. QED
  BY <1>1, <1>2, RecoveryGoesOn

LEMMA ReplayFacts ==
  ASSUME Inv1, NEW n, Replaying(n)
  PROVE  /\ db = "replaying" /\ n \in DOMAIN logs /\ n \in Nat /\ n \in replay.logs
         /\ replay \in [from : Manifest, logs : SUBSET Nat, read : Nat, mem : SUBSET Entry,
                        added : SUBSET Nat]
         /\ logs[n].records \in Seq(Seq(Entry)) /\ Len(logs[n].records) \in Nat
         /\ nextFile \in Nat /\ lastSequence \in Nat
<1>1. db = "replaying" /\ n \in replay.logs /\ n \in DOMAIN logs
  BY DEF Replaying, Inv1, OnlyWhenOpen
<1>2. logs[n] \in LogFile /\ n \in Nat
  BY <1>1 DEF Inv1, LogsTyped
<1>3. logs[n].records \in Seq(Seq(Entry))
  BY <1>2 DEF LogFile
<1>. QED
  BY <1>1, <1>2, <1>3 DEF Inv1, OpeningTyped, MemoryTyped

LEMMA WriteTableTyped ==
  ASSUME nextFile \in Nat, DOMAIN tables \subseteq Nat, NEW mem,
         NEW read \in [from : Manifest, logs : SUBSET Nat, read : Nat, mem : SUBSET Entry,
                       added : SUBSET Nat],
         WriteLevel0Table(mem, read)
  PROVE  /\ replay' \in [from : Manifest, logs : SUBSET Nat, read : Nat, mem : SUBSET Entry,
                         added : SUBSET Nat]
         /\ replay'.logs = read.logs /\ DOMAIN tables' \subseteq Nat
BY DEF WriteLevel0Table, With

LEMMA RecoverRecordStep == ASSUME Inv1, NEW n, RecoverRecord(n) PROVE Inv1'
<1>1. /\ db = "replaying" /\ n \in DOMAIN logs
      /\ replay \in [from : Manifest, logs : SUBSET Nat, read : Nat, mem : SUBSET Entry,
                     added : SUBSET Nat]
      /\ logs[n].records \in Seq(Seq(Entry)) /\ Len(logs[n].records) \in Nat
      /\ nextFile \in Nat /\ lastSequence \in Nat
  BY ReplayFacts DEF RecoverRecord
<1>. DEFINE entries == RecordEntries(logs[n].records[replay.read + 1])
            mem == replay.mem \cup entries
            read == [replay EXCEPT !.read = @ + 1, !.mem = mem]
<1>2. /\ UnchangedInRecovery /\ lastSequence' = RecoveredSequence(entries)
      /\ \/ WriteLevel0Table(mem, read) /\ nextFile' = nextFile + 1
         \/ replay' = read /\ UNCHANGED <<tables, nextFile>>
  BY DEF RecoverRecord
<1>3. logs[n].records[replay.read + 1] \in Seq(Entry)
  <2>1. replay.read + 1 \in 1..Len(logs[n].records)
    BY <1>1 DEF RecoverRecord
  <2>. QED
    BY <1>1, <2>1
<1>4. lastSequence' \in Nat /\ entries \subseteq Entry
  BY <1>1, <1>2, <1>3, RecoveredSequenceIs
<1>5. DOMAIN tables \subseteq Nat
  BY DEF Inv1, LogsTyped
<1>. HIDE DEF entries
<1>9. mem \in SUBSET Entry
  BY <1>1, <1>4
<1>. HIDE DEF mem
<1>6. /\ read \in [from : Manifest, logs : SUBSET Nat, read : Nat, mem : SUBSET Entry,
                   added : SUBSET Nat]
      /\ read.logs = replay.logs
  <2>1. PICK k \in Nat : k = replay.read + 1
    BY <1>1
  <2>2. read = [replay EXCEPT !.read = k, !.mem = mem]
    BY <2>1
  <2>. QED
    BY <1>1, <1>9, <2>2
<1>. HIDE DEF read
<1>7. CASE WriteLevel0Table(mem, read) /\ nextFile' = nextFile + 1
  <2>1. /\ replay' \in [from : Manifest, logs : SUBSET Nat, read : Nat, mem : SUBSET Entry,
                        added : SUBSET Nat]
        /\ replay'.logs = read.logs /\ DOMAIN tables' \subseteq Nat
    BY <1>1, <1>5, <1>6, <1>7, WriteTableTyped
  <2>2. nextFile' \in Nat /\ nextFile <= nextFile'
    BY <1>1, <1>7
  <2>. QED
    BY <1>1, <1>2, <1>4, <1>6, <2>1, <2>2, RecoveryStep
<1>8. CASE replay' = read /\ UNCHANGED <<tables, nextFile>>
  <2>1. nextFile' \in Nat /\ nextFile <= nextFile'
    BY <1>1, <1>8
  <2>. QED
    BY <1>1, <1>2, <1>4, <1>5, <1>6, <1>8, <2>1, RecoveryStep
<1>. QED
  BY <1>2, <1>7, <1>8

LEMMA SkipRecordStep == ASSUME Inv1, NEW n, SkipRecord(n) PROVE Inv1'
<1>1. /\ db = "replaying" /\ nextFile \in Nat /\ lastSequence \in Nat
      /\ replay \in [from : Manifest, logs : SUBSET Nat, read : Nat, mem : SUBSET Entry,
                     added : SUBSET Nat]
  BY ReplayFacts DEF SkipRecord
<1>2. /\ UnchangedInRecovery /\ UNCHANGED <<lastSequence, tables, nextFile>>
      /\ replay' = [replay EXCEPT !.read = @ + 1]
  BY DEF SkipRecord
<1>3. /\ replay' \in [from : Manifest, logs : SUBSET Nat, read : Nat, mem : SUBSET Entry,
                      added : SUBSET Nat]
      /\ replay'.logs = replay.logs
  BY <1>1, <1>2
<1>4. DOMAIN tables' \subseteq Nat /\ lastSequence' \in Nat /\ nextFile' \in Nat /\ nextFile <= nextFile'
  BY <1>1, <1>2 DEF Inv1, LogsTyped
<1>. QED
  BY <1>1, <1>2, <1>3, <1>4, RecoveryStep

LEMMA SkipFacts ==
  ASSUME Inv1, NEW n, SkipRecord(n)
  PROVE  /\ db = "replaying" /\ db' = "replaying" /\ Replaying(n) /\ n \in replay.logs /\ n \in DOMAIN logs
         /\ UNCHANGED <<disk, memory, bg, queue, reader, history>>
         /\ nextFile \in Nat /\ lastSequence \in Nat
         /\ replay.read \in Nat /\ replay.read + 1 \in 1..Len(logs[n].records)
         /\ Len(logs[n].records) \in Nat /\ BehindHole(n, replay.read + 1)
         /\ replay'.from = replay.from /\ replay'.logs = replay.logs /\ replay'.mem = replay.mem
         /\ replay'.added = replay.added /\ replay'.read = replay.read + 1
<1>1. /\ db = "replaying" /\ nextFile \in Nat /\ lastSequence \in Nat
      /\ n \in replay.logs /\ n \in DOMAIN logs /\ Len(logs[n].records) \in Nat
      /\ replay \in [from : Manifest, logs : SUBSET Nat, read : Nat, mem : SUBSET Entry,
                     added : SUBSET Nat]
  BY ReplayFacts DEF SkipRecord
<1>2. /\ UnchangedInRecovery /\ UNCHANGED <<lastSequence, tables, nextFile>>
      /\ replay' = [replay EXCEPT !.read = @ + 1] /\ replay.read < Len(logs[n].records)
      /\ BehindHole(n, replay.read + 1) /\ Replaying(n)
  BY DEF SkipRecord
<1>3. UNCHANGED <<disk, memory, bg, queue, reader, history>> /\ db' = db
  BY <1>2 DEF UnchangedInRecovery, disk, memory, history, queue
<1>4. /\ replay'.from = replay.from /\ replay'.logs = replay.logs /\ replay'.mem = replay.mem
      /\ replay'.added = replay.added /\ replay'.read = replay.read + 1 /\ replay.read \in Nat
  BY <1>1, <1>2
<1>5. replay.read + 1 \in 1..Len(logs[n].records)
  BY <1>1, <1>2, <1>4
<1>. QED
  BY <1>1, <1>2, <1>3, <1>4, <1>5

\* What a failed read does.
LEMMA FailedFacts ==
  ASSUME Inv1, NEW n, ReadFails(n)
  PROVE  /\ db = "replaying" /\ db' = "replaying" /\ n \in replay.logs /\ n \in DOMAIN logs
         /\ \A o \in replay.logs : n <= o
         /\ UNCHANGED <<disk, memory, bg, queue, reader, lastBatch>>
         /\ nextFile \in Nat /\ lastSequence \in Nat /\ replay.read \in Nat
         /\ Len(logs[n].records) \in Nat /\ replay.read < Len(logs[n].records)
         /\ replay'.from = replay.from /\ replay'.logs = replay.logs /\ replay'.mem = replay.mem
         /\ replay'.added = replay.added /\ replay'.read = Len(logs[n].records)
         /\ promised' = {p \in promised : ~Unread(n, p[1])}
         /\ replay' \in [from : Manifest, logs : SUBSET Nat, read : Nat, mem : SUBSET Entry,
                          added : SUBSET Nat]
<1>1. /\ db = "replaying" /\ nextFile \in Nat /\ lastSequence \in Nat
      /\ n \in replay.logs /\ n \in DOMAIN logs /\ Len(logs[n].records) \in Nat
      /\ replay \in [from : Manifest, logs : SUBSET Nat, read : Nat, mem : SUBSET Entry,
                     added : SUBSET Nat]
  BY ReplayFacts DEF ReadFails
<1>2. /\ UNCHANGED <<disk, db, memory, bg, queue, reader, lastBatch>>
      /\ replay' = [replay EXCEPT !.read = Len(logs[n].records)]
      /\ replay.read < Len(logs[n].records) /\ \A o \in replay.logs : n <= o
      /\ promised' = {p \in promised : ~Unread(n, p[1])}
  BY DEF ReadFails, Replaying
<1>3. PICK k \in Nat : k = Len(logs[n].records)
  BY <1>1
<1>4. replay' = [replay EXCEPT !.read = k]
  BY <1>2, <1>3
<1>5. /\ replay'.from = replay.from /\ replay'.logs = replay.logs /\ replay'.mem = replay.mem
      /\ replay'.added = replay.added /\ replay'.read = k /\ replay.read \in Nat
      /\ replay' \in [from : Manifest, logs : SUBSET Nat, read : Nat, mem : SUBSET Entry,
                      added : SUBSET Nat]
  BY <1>1, <1>4
<1>. QED
  BY <1>1, <1>2, <1>3, <1>5

LEMMA ReadFailsStep == ASSUME Inv1, NEW n, ReadFails(n) PROVE Inv1'
<1>1. /\ db = "replaying" /\ db' = db /\ nextFile \in Nat /\ lastSequence \in Nat
      /\ UNCHANGED <<disk, memory, bg, queue, reader, lastBatch>>
      /\ replay'.logs = replay.logs /\ promised' \subseteq promised
      /\ replay' \in [from : Manifest, logs : SUBSET Nat, read : Nat, mem : SUBSET Entry,
                      added : SUBSET Nat]
  BY FailedFacts
<1>2. HistoryTyped'
  BY <1>1 DEF Inv1, HistoryTyped
<1>3. UNCHANGED <<logs, tables, manifests, memtables, imm, logNumber, version, minLog, pendingOutputs,
                  bgError, nextFile, lastSequence>>
  BY <1>1 DEF disk, memory
<1>4. DOMAIN tables' \subseteq Nat /\ lastSequence' \in Nat /\ nextFile' \in Nat /\ nextFile <= nextFile'
  BY <1>1, <1>3 DEF Inv1, LogsTyped
<1>. QED
  BY <1>1, <1>2, <1>3, <1>4, RecoveryGoesOn

LEMMA NumberUsed ==
  ASSUME NEW next \in Nat, NEW n \in Nat, MarkFileNumberUsed(next, n)
  PROVE  nextFile' \in Nat /\ next <= nextFile' /\ n < nextFile'
<1>1. {next, n + 1} \in SUBSET Nat /\ {next, n + 1} # {} /\ IsFiniteSet({next, n + 1})
  <2>1. IsFiniteSet({next}) /\ IsFiniteSet({n + 1})
    BY FS_Singleton
  <2>2. IsFiniteSet({next} \cup {n + 1})
    BY <2>1, FS_Union
  <2>3. {next, n + 1} = {next} \cup {n + 1}
    OBVIOUS
  <2>. QED
    BY <2>2, <2>3
<1>2. Max({next, n + 1}) \in {next, n + 1} /\ \A y \in {next, n + 1} : y <= Max({next, n + 1})
  BY <1>1, MaxProperties
<1>. QED
  BY <1>2 DEF MarkFileNumberUsed

LEMMA RecoverLogFileStep == ASSUME Inv1, NEW n, RecoverLogFile(n) PROVE Inv1'
<1>1. /\ db = "replaying" /\ n \in DOMAIN logs /\ n \in Nat
      /\ replay \in [from : Manifest, logs : SUBSET Nat, read : Nat, mem : SUBSET Entry,
                     added : SUBSET Nat]
      /\ nextFile \in Nat /\ nextFile + 1 \in Nat /\ lastSequence \in Nat
  BY ReplayFacts DEF RecoverLogFile
<1>. DEFINE read == [replay EXCEPT !.logs = @ \ {n}, !.read = 0]
<1>2. /\ UnchangedInRecovery /\ lastSequence' = lastSequence
      /\ \/ WriteLevel0Table(replay.mem, read) /\ MarkFileNumberUsed(nextFile + 1, n)
         \/ replay' = read /\ tables' = tables /\ MarkFileNumberUsed(nextFile, n)
  BY DEF RecoverLogFile
<1>3. DOMAIN tables \subseteq Nat
  BY DEF Inv1, LogsTyped
<1>4. /\ read \in [from : Manifest, logs : SUBSET Nat, read : Nat, mem : SUBSET Entry,
                   added : SUBSET Nat]
      /\ read.logs \subseteq replay.logs
  BY <1>1
<1>. HIDE DEF read
<1>5. CASE WriteLevel0Table(replay.mem, read) /\ MarkFileNumberUsed(nextFile + 1, n)
  <2>1. /\ replay' \in [from : Manifest, logs : SUBSET Nat, read : Nat, mem : SUBSET Entry,
                        added : SUBSET Nat]
        /\ replay'.logs = read.logs /\ DOMAIN tables' \subseteq Nat
    BY <1>1, <1>3, <1>4, <1>5, WriteTableTyped
  <2>2. nextFile' \in Nat /\ nextFile <= nextFile'
    <3>1. nextFile' \in Nat /\ nextFile + 1 <= nextFile'
      BY <1>1, <1>5, NumberUsed
    <3>. QED
      BY <1>1, <3>1
  <2>. QED
    BY <1>1, <1>2, <1>4, <2>1, <2>2, RecoveryStep
<1>6. CASE replay' = read /\ tables' = tables /\ MarkFileNumberUsed(nextFile, n)
  <2>1. nextFile' \in Nat /\ nextFile <= nextFile'
    BY <1>1, <1>6, NumberUsed
  <2>. QED
    BY <1>1, <1>2, <1>3, <1>4, <1>6, <2>1, RecoveryStep
<1>. QED
  BY <1>2, <1>5, <1>6

LEMMA OpenStep == ASSUME Inv1, Open PROVE Inv1'
<1>1. /\ db = "replaying" /\ db' = "recovering" /\ replay' = NoReplay
      /\ UNCHANGED <<tables, imm, minLog, lastSequence, pendingOutputs, bgError, bg, queue, reader,
                     history>>
  BY DEF Open
<1>2. /\ replay \in [from : Manifest, logs : SUBSET Nat, read : Nat, mem : SUBSET Entry,
                     added : SUBSET Nat]
      /\ nextFile \in Nat /\ lastSequence \in Nat
  BY <1>1 DEF Inv1, OpeningTyped, MemoryTyped
<1>3. BgTyped' /\ ReaderTyped' /\ HistoryTyped' /\ QueueKept'
  BY <1>1, Frames DEF Inv1, queue
<1>4. LogsTyped'
  <2>1. [records |-> <<>>, synced |-> 0] \in LogFile /\ Len(<<>>) = 0
    BY DEF LogFile
  <2>2. logs' = With(logs, nextFile, [records |-> <<>>, synced |-> 0])
    BY DEF Open
  <2>. QED
    BY <1>1, <1>2, <2>1, <2>2 DEF Inv1, LogsTyped, With
<1>5. OpeningTyped'
  <2>. DEFINE edit == [added0 |-> replay.added, addedDeeper |-> {}, deleted |-> {},
                       log |-> nextFile, next |-> nextFile + 1, last |-> lastSequence]
  <2>1. edit \in Edit
    BY <1>2 DEF Edit
  <2>2. manifests' = manifests \cup {Applied(replay.from, edit)}
    BY DEF Open
  <2>3. replay.from \in Manifest
    BY <1>2
  <2>. HIDE DEF edit
  <2>4. Applied(replay.from, edit) \in Manifest
    BY <2>1, <2>3, AppliedTyped
  <2>. QED
    BY <1>1, <2>2, <2>4 DEF Inv1, OpeningTyped
<1>6. /\ memtables' = [n \in {nextFile} |-> {}] /\ logNumber' = nextFile /\ nextFile' = nextFile + 1
      /\ imm' = imm /\ version' = [version EXCEPT !.level0 = @ \cup replay.added]
  BY DEF Open
<1>7. MemoryTyped'
  <2>1. version' \in Version
    BY <1>2, <1>6 DEF Inv1, MemoryTyped, Version
  <2>. QED
    BY <1>1, <1>2, <1>6, <2>1 DEF Inv1, MemoryTyped
<1>8. OnlyWhenOpen'
  BY <1>1 DEF Inv1, OnlyWhenOpen, queue
<1>9. imm = 0 /\ 0 < nextFile
  BY <1>1 DEF Inv1, OnlyWhenOpen
<1>10. Numbered'
  BY <1>1, <1>2, <1>6, <1>9 DEF Numbered
<1>11. Sequenced'
  BY <1>6 DEF Sequenced, Fresh
<1>12. LeadInv'
  BY <1>1, NobodyInQueue DEF LeadInv, Leading, queue
<1>. QED
  BY <1>3, <1>4, <1>5, <1>7, <1>8, <1>10, <1>11, <1>12 DEF Inv1

LEMMA FinishOpenStep == ASSUME Inv1, FinishOpen PROVE Inv1'
<1>1. db = "recovering" /\ db' = "open" /\ replay' = replay /\ Running
  BY DEF FinishOpen, Running
<1>2. UNCHANGED <<memtables, imm, logNumber, version, nextFile, lastSequence, pendingOutputs, bgError,
                  queue, reader, history>>
  BY DEF FinishOpen
<1>3. ReaderTyped' /\ HistoryTyped' /\ QueueKept' /\ LeadInv'
  BY <1>2, Frames DEF Inv1, queue
<1>4. LogsTyped'
  BY DEF Inv1, LogsTyped, FinishOpen, Without
<1>5. OpeningTyped'
  <2>1. WriteSnapshot \in Manifest
    BY DEF WriteSnapshot, Manifest, Inv1, MemoryTyped, Version
  <2>2. manifests' = {WriteSnapshot}
    BY DEF FinishOpen
  <2>. QED
    BY <1>1, <2>1, <2>2 DEF Inv1, OpeningTyped
<1>6. MemoryTyped'
  BY <1>2 DEF Inv1, MemoryTyped, FinishOpen
<1>7. BgTyped'
  <2>1. bg' = MaybeScheduleCompaction(bg, None, version, FALSE)
    BY DEF FinishOpen
  <2>. QED
    BY <2>1, ScheduledTyped DEF Inv1
<1>8. OnlyWhenOpen'
  BY <1>1, <1>2 DEF Inv1, OnlyWhenOpen, queue
<1>9. Numbered' /\ Sequenced'
  BY <1>1, <1>2 DEF Inv1, Numbered, Sequenced, Running, Inserting, Fresh, queue
<1>. QED
  BY <1>3, <1>4, <1>5, <1>6, <1>7, <1>8, <1>9 DEF Inv1

LEMMA FirstState == Init => Inv1
<1>. SUFFICES ASSUME Init PROVE Inv1
  OBVIOUS
<1>1. QueueKept /\ LeadInv
  BY IdleQueue DEF Init
<1>2. LogsTyped
  <2>1. logs = <<>> /\ tables = <<>>
    BY DEF Init
  <2>. QED
    BY <2>1 DEF LogsTyped
<1>3. MemoryTyped
  <2>1. /\ memtables = <<>> /\ imm = 0 /\ logNumber = 0 /\ version = EmptyVersion /\ minLog = 0
        /\ nextFile = 0 /\ lastSequence = 0 /\ pendingOutputs = {} /\ bgError = FALSE
    BY DEF Init, None
  <2>2. memtables \in [DOMAIN memtables -> SUBSET Entry] /\ DOMAIN memtables \subseteq Nat
    BY <2>1
  <2>. QED
    BY <2>1, <2>2, OffTyped DEF MemoryTyped
<1>4. OpeningTyped
  BY DEF Init, OpeningTyped, NewDB, Manifest
<1>5. BgTyped /\ ReaderTyped
  BY OffTyped DEF Init, BgTyped, ReaderTyped
<1>6. HistoryTyped
  BY DEF Init, HistoryTyped
<1>7. OnlyWhenOpen
  <2>1. \A r \in Readers : ~reader[r].on
    BY DEF Init, NoRead
  <2>. QED
    BY <2>1 DEF Init, OnlyWhenOpen, None
<1>8. Numbered /\ Sequenced
  BY DEF Init, Numbered, Sequenced, Running
<1>. QED
  BY <1>1, <1>2, <1>3, <1>4, <1>5, <1>6, <1>7, <1>8 DEF Inv1

LEMMA WriterSteps == ASSUME Inv1, NEW t \in Threads, InWrite(t) PROVE Inv1'
BY YieldErrorStep, DelayStep, WaitStep, SwitchMemTableStep, NewLogFailsStep, FoundRoomStep,
   AddRecordStep, AppendFailsStep, SyncStep, SyncFailsStep, InsertIntoStep, FinishWriteStep
   DEF InWrite

LEMMA BackgroundSteps == ASSUME Inv1, Background PROVE Inv1'
BY BackgroundCallStep, BuildTableStep, BuildTableFailsStep, FlushBuiltStep, FlushDuringMergeStep,
   OpenOutputStep, FinishOutputStep, InstallResultsStep, MergeFailsStep, CommitStep, CommitFailsStep,
   DeleteFilesStep, EndOfCallStep DEF Background

LEMMA NextStep == Inv1 /\ [Next]_vars => Inv1'
<1>. SUFFICES ASSUME Inv1, [Next]_vars PROVE Inv1'
  OBVIOUS
<1>1. ASSUME NEW t \in Threads, NEW sync \in BOOLEAN, Write(t, FALSE, sync) PROVE Inv1'
  BY <1>1, WriteStep
<1>2. ASSUME NEW t \in Threads, Write(t, TRUE, FALSE) PROVE Inv1'
  BY <1>2, WriteStep
<1>3. CASE UNCHANGED vars
  <2>1. UNCHANGED <<disk, opening, memory, bg, writers, thread, lead, reader, history>>
    BY <1>3 DEF vars, queue
  <2>. QED
    BY <2>1, Frames DEF Inv1, disk, opening, memory
<1>4. ASSUME NEW m \in manifests, Recover(m) PROVE Inv1'
  BY <1>4, RecoverStep
<1>5. ASSUME NEW n \in replay.logs,
             RecoverRecord(n) \/ SkipRecord(n) \/ ReadFails(n) \/ RecoverLogFile(n) PROVE Inv1'
  BY <1>5, RecoverRecordStep, SkipRecordStep, ReadFailsStep, RecoverLogFileStep
<1>6. ASSUME NEW r \in Readers, StartRead(r) \/ EndRead(r) PROVE Inv1'
  BY <1>6, StartReadStep, EndReadStep
<1>. QED
  BY <1>1, <1>2, <1>3, <1>4, <1>5, <1>6, WriterSteps, BackgroundSteps, CloseStep, ClosedStep, KillStep,
     OutageStep, OpenStep, FinishOpenStep DEF Next

LEMMA Inv1Holds == Spec => []Inv1
BY FirstState, NextStep, PTL DEF Spec

(* Whatever is called, fails or goes down: one thread at most is at work   *)
(* in Write, it is the head of the queue, who is not in the queue is idle, *)
(* and the memtables that mem_ and imm_ name exist.                        *)
THEOREM TypeCorrect == Spec => []TypeOK
<1>1. Inv1 => TypeOK
  <2>. SUFFICES ASSUME Inv1 PROVE TypeOK
    OBVIOUS
  <2>1. \A n \in DOMAIN logs : logs[n].synced \in 0..Len(logs[n].records)
    <3>1. \A n \in DOMAIN logs : /\ logs[n].synced \in Nat /\ Len(logs[n].records) \in Nat
                                 /\ logs[n].synced <= Len(logs[n].records)
      BY DEF Inv1, LogsTyped, LogFile
    <3>. QED
      BY <3>1
  <2>2. /\ db \in {"open", "closing", "closed", "replaying", "recovering"} /\ manifests # {}
        /\ bgError \in BOOLEAN
    BY DEF Inv1, OpeningTyped, MemoryTyped
  <2>3. ASSUME NEW t \in Threads
        PROVE  /\ thread[t].pc \in {"idle", "queued", "room", "wait", "log", "sync", "insert", "finish"}
               /\ thread[t].pc = "idle" <=> t \notin {writers[i] : i \in DOMAIN writers}
               /\ thread[t].pc \notin {"idle", "queued"} => writers[1] = t
    <3>1. thread[t].pc \in Callers
      BY DEF Inv1, QueueKept, QueueTyped
    <3>2. DOMAIN writers = 1..Len(writers)
      BY WritersAre DEF Inv1, QueueKept
    <3>3. thread[t].pc = "idle" <=> ~\E i \in 1..Len(writers) : writers[i] = t
      BY DEF Inv1, QueueKept, IdleOutside
    <3>. QED
      BY <3>1, <3>2, <3>3 DEF Inv1, QueueKept, HeadActs, Callers
  <2>4. db = "open" => InMemory \subseteq DOMAIN memtables
    BY DEF Inv1, Numbered, Running, InMemory, None
  <2>. QED
    BY <2>1, <2>2, <2>3, <2>4 DEF TypeOK
<1>. QED
  BY <1>1, Inv1Holds, PTL
----------------------------------------------------------------------------
(* Tables: which ones are there, and which ones may be deleted.            *)
\* The database is open, or is being closed.
Alive == db \in {"open", "closing"}
TablesTyped == tables \in [DOMAIN tables -> SUBSET Entry]
\* A MANIFEST names numbers below its own next one, and the process is beyond all.
ManifestsNumbered ==
  /\ \A m \in manifests : m.log < m.next /\ \A f \in FilesOf(m) : f < m.next
  /\ db # "closed" => \A m \in manifests : m.next <= nextFile
\* During the replay: the tables of the version and those written so far.
ReplayInv ==
  db = "replaying" =>
    /\ FilesOf(version) \cup replay.added \subseteq DOMAIN tables
    /\ \A f \in FilesOf(version) \cup replay.added : f < nextFile
    /\ replay.from.level0 = version.level0 /\ replay.from.deeper = version.deeper
    /\ minLog < nextFile
\* The current version's tables exist.
VersionThere ==
  Running => /\ FilesOf(version) \subseteq DOMAIN tables
             /\ \A f \in FilesOf(version) : f < nextFile
             /\ minLog <= logNumber
\* Without an error the MANIFEST says what the current version is, also when it may
\* or may not have the edit that is being written.
SameFiles ==
  Alive /\ ~bgError =>
    \A m \in (IF bg.pc = "commit" THEN bg.before ELSE manifests) :
      m.level0 = version.level0 /\ m.deeper = version.deeper
\* A new number is the number of no table.
TablesOld == Alive => \A f \in DOMAIN tables : f < nextFile
\* The background thread's own tables.
WorkInv ==
  /\ bg.pc = "build" => bg.number \notin DOMAIN tables
  /\ bg.pc \in {"build", "built", "failed"} => imm # 0 /\ bg.number < nextFile
  /\ bg.pc = "commit" /\ bg.what = "flush" => imm # 0
  /\ bg.output < nextFile \/ bg.output = 0
  /\ bg.inputs \subseteq DOMAIN tables
\* While an edit is written, both what the MANIFEST said and what it will say count.
CommitInv ==
  bg.pc = "commit" =>
    /\ \A m \in bg.before : m \in manifests /\ Applied(m, bg.edit) \in manifests
    /\ bg.edit.added0 \cup bg.edit.addedDeeper \subseteq DOMAIN tables
    /\ bg.edit.log <= logNumber /\ bg.edit.log < bg.edit.next /\ bg.edit.next <= nextFile
\* What is about to be deleted is needed by nobody: not by the version, a compaction,
\* a MANIFEST or a reader.
DeleteInv ==
  bg.pc = "delete" =>
    \A f \in bg.garbage.tables :
      /\ f \notin FilesOf(version) /\ f \notin bg.inputs
      /\ \A m \in manifests : f \notin FilesOf(m)
      /\ \A r \in Readers : f \notin reader[r].files
\* What readers hold exists.
ReadersThere ==
  \A r \in Readers :
    /\ ~reader[r].on => reader[r].files = {}
    /\ reader[r].on =>
         /\ reader[r].mems \subseteq DOMAIN memtables /\ reader[r].files \subseteq DOMAIN tables
         /\ reader[r].seq <= lastSequence
FilesInv == /\ TablesTyped /\ ManifestsNumbered /\ ReplayInv /\ VersionThere /\ SameFiles
            /\ TablesOld /\ WorkInv /\ CommitInv /\ DeleteInv /\ ReadersThere /\ DatabaseOpens


\* What a step keeps that neither writes nor deletes tables.
LEMMA Grow ==
  ASSUME Inv1, Inv1', FilesInv,
         UNCHANGED <<tables, manifests, replay, version, minLog, reader>>,
         db' = db \/ (db = "open" /\ db' = "closing"),
         nextFile <= nextFile', logNumber <= logNumber', lastSequence <= lastSequence',
         Alive => DOMAIN memtables \subseteq DOMAIN memtables'
  PROVE  /\ TablesTyped' /\ ManifestsNumbered' /\ ReplayInv' /\ VersionThere' /\ TablesOld'
         /\ ReadersThere' /\ DatabaseOpens'
<1>1. /\ nextFile \in Nat /\ nextFile' \in Nat /\ logNumber \in Nat /\ logNumber' \in Nat
      /\ lastSequence \in Nat /\ lastSequence' \in Nat /\ minLog \in Nat
      /\ manifests \subseteq Manifest
      /\ FilesOf(version) \subseteq Nat /\ DOMAIN tables \subseteq Nat
  BY DEF Inv1, MemoryTyped, OpeningTyped, LogsTyped, Version, FilesOf
<1>2. TablesTyped' /\ DatabaseOpens'
  BY DEF FilesInv, TablesTyped, DatabaseOpens
<1>3. ManifestsNumbered'
  <2>1. \A m \in manifests : m.next \in Nat
    BY <1>1 DEF Manifest
  <2>. QED
    BY <1>1, <2>1 DEF FilesInv, ManifestsNumbered
<1>4. ReplayInv'
  <2>. SUFFICES ASSUME db = "replaying" PROVE ReplayInv'
    BY DEF ReplayInv
  <2>1. FilesOf(version) \cup replay.added \subseteq Nat
    BY <1>1 DEF Inv1, OpeningTyped
  <2>. QED
    BY <1>1, <2>1 DEF FilesInv, ReplayInv
<1>5. VersionThere'
  BY <1>1 DEF FilesInv, VersionThere, Running
<1>6. TablesOld'
  BY <1>1 DEF FilesInv, TablesOld, Alive
<1>7. ReadersThere'
  <2>1. \A r \in Readers : reader[r].on => Alive
    BY DEF Inv1, OnlyWhenOpen, Alive
  <2>2. \A r \in Readers : reader[r].seq \in Nat
    BY DEF Inv1, ReaderTyped, Read
  <2>. QED
    BY <1>1, <2>1, <2>2 DEF FilesInv, ReadersThere
<1>. QED
  BY <1>2, <1>3, <1>4, <1>5, <1>6, <1>7

\* The background thread does not move.
LEMMA BgStays ==
  ASSUME Inv1, Inv1', FilesInv,
         UNCHANGED <<tables, manifests, version, reader, bg>>,
         db' = db \/ (db = "open" /\ db' = "closing"), bgError => bgError',
         nextFile <= nextFile', logNumber <= logNumber', imm # 0 => imm' # 0
  PROVE  SameFiles' /\ WorkInv' /\ CommitInv' /\ DeleteInv'
<1>1. /\ nextFile \in Nat /\ nextFile' \in Nat /\ logNumber \in Nat /\ logNumber' \in Nat
      /\ bg.number \in Nat /\ bg.output \in Nat
  BY DEF Inv1, MemoryTyped, BgTyped
<1>2. SameFiles'
  BY DEF FilesInv, SameFiles, Alive
<1>3. WorkInv'
  BY <1>1 DEF FilesInv, WorkInv
<1>4. CommitInv'
  <2>. SUFFICES ASSUME bg.pc = "commit" PROVE CommitInv'
    BY DEF CommitInv
  <2>1. bg.edit.log \in Nat /\ bg.edit.next \in Nat
    BY DEF Inv1, BgTyped, Edit
  <2>. QED
    BY <1>1, <2>1 DEF FilesInv, CommitInv
<1>5. DeleteInv'
  BY DEF FilesInv, DeleteInv
<1>. QED
  BY <1>2, <1>3, <1>4, <1>5

\* It is not between two parts of a flush or of a commit.
LEMMA BgQuiet ==
  ASSUME Inv1, FilesInv, bg.pc # "commit", bg'.pc \in {"off", "scheduled", "merge", "end"},
         bg'.inputs \subseteq DOMAIN tables', bg'.output < nextFile' \/ bg'.output = 0,
         UNCHANGED <<manifests, version>> \/ bgError' \/ ~Alive',
         db' = db \/ (db = "open" /\ db' = "closing") \/ ~Alive',
         bgError => bgError' \/ ~Alive'
  PROVE  SameFiles' /\ WorkInv' /\ CommitInv' /\ DeleteInv'
<1>1. SameFiles'
  BY DEF FilesInv, SameFiles, Alive
<1>2. WorkInv' /\ CommitInv' /\ DeleteInv'
  BY DEF WorkInv, CommitInv, DeleteInv
<1>. QED
  BY <1>1, <1>2

\* A step of a writer, or none.
LEMMA QuietFiles ==
  ASSUME Inv1, Inv1', FilesInv,
         UNCHANGED <<tables, manifests, replay, version, minLog, reader, bg>>,
         db' = db \/ (db = "open" /\ db' = "closing"), bgError => bgError',
         nextFile <= nextFile', logNumber <= logNumber', lastSequence <= lastSequence',
         Alive => DOMAIN memtables \subseteq DOMAIN memtables', imm # 0 => imm' # 0
  PROVE  FilesInv'
BY Grow, BgStays DEF FilesInv

LEMMA WriterFiles ==
  ASSUME Inv1, Inv1', FilesInv, NEW t \in Threads, InWrite(t)
  PROVE  FilesInv'
<1>1. /\ nextFile \in Nat /\ logNumber \in Nat /\ lastSequence \in Nat
      /\ nextFile <= nextFile /\ logNumber <= logNumber /\ lastSequence <= lastSequence
  BY DEF Inv1, MemoryTyped
<1>2. CASE YieldError(t) \/ Delay(t) \/ WaitForBackground(t) \/ NewLogFails(t) \/ FoundRoom(t)
           \/ SyncFails(t)
  BY <1>1, <1>2, QuietFiles DEF YieldError, Delay, WaitForBackground, NewLogFails, FoundRoom, SyncFails,
     disk, opening, memory
<1>3. CASE AddRecord(t) \/ AppendFails(t) \/ Sync(t)
  <2>1. UNCHANGED <<tables, manifests, opening, memory, bg, reader>>
    BY <1>3 DEF AddRecord, AppendFails, Sync
  <2>. QED
    BY <1>1, <2>1, QuietFiles DEF opening, memory
<1>4. CASE InsertInto(t)
  <2>1. DOMAIN memtables' = DOMAIN memtables
    BY <1>4 DEF InsertInto
  <2>. QED
    BY <1>1, <1>4, <2>1, QuietFiles DEF InsertInto, disk, opening
<1>5. CASE FinishWrite(t)
  <2>1. lastSequence <= lastSequence'
    <3>1. lastSequence' = lastSequence + Len(lead.todo) /\ Len(lead.todo) \in Nat
      BY <1>5, FinishFacts
    <3>. QED
      BY <1>1, <3>1
  <2>. QED
    BY <1>1, <1>5, <2>1, QuietFiles DEF FinishWrite, disk, opening
<1>6. CASE SwitchMemTable(t)
  <2>1. /\ UNCHANGED <<tables, manifests, db, replay, version, minLog, reader, bgError>>
        /\ nextFile' = nextFile + 1 /\ logNumber' = nextFile /\ lastSequence' = lastSequence
        /\ imm' = logNumber /\ memtables' = With(memtables, nextFile, {})
        /\ bg' = MaybeScheduleCompaction(bg, logNumber, version, bgError)
    BY <1>6 DEF SwitchMemTable, opening
  <2>2. logNumber < nextFile /\ 0 < logNumber
    BY <1>6 DEF SwitchMemTable, InRoom, Inv1, Numbered, Running
  <2>3. DOMAIN memtables \subseteq DOMAIN memtables'
    BY <2>1 DEF With
  <2>4. nextFile <= nextFile' /\ logNumber <= logNumber'
    BY <1>1, <2>1, <2>2
  <2>5. bg' = bg \/ (bg.pc = "off" /\ bg' = [bg EXCEPT !.pc = "scheduled"])
    BY <2>1 DEF MaybeScheduleCompaction
  <2>6. CASE bg' = bg
    BY <1>1, <2>1, <2>2, <2>3, <2>4, <2>6, QuietFiles
  <2>7. CASE bg.pc = "off" /\ bg' = [bg EXCEPT !.pc = "scheduled"]
    <3>1. bg'.pc = "scheduled" /\ bg'.inputs = bg.inputs /\ bg'.output = bg.output
      BY <2>7 DEF Inv1, BgTyped
    <3>2. bg.inputs \subseteq DOMAIN tables /\ (bg.output < nextFile \/ bg.output = 0) /\ bg.output \in Nat
      BY DEF FilesInv, WorkInv, Inv1, BgTyped
    <3>3. bg'.output < nextFile' \/ bg'.output = 0
      BY <1>1, <2>1, <3>1, <3>2
    <3>4. SameFiles' /\ WorkInv' /\ CommitInv' /\ DeleteInv'
      BY <2>1, <2>7, <3>1, <3>2, <3>3, BgQuiet
    <3>. QED
      BY <1>1, <2>1, <2>3, <2>4, <3>4, Grow DEF FilesInv
  <2>. QED
    BY <2>5, <2>6, <2>7
<1>. QED
  BY <1>2, <1>3, <1>4, <1>5, <1>6 DEF InWrite

\* A step of the background thread that leaves the tables and the manifests.
LEMMA WorkFiles ==
  ASSUME Inv1, Inv1', FilesInv, SameFiles', WorkInv', CommitInv', DeleteInv', bg.pc # "off",
         UNCHANGED <<tables, manifests, opening, version, minLog, reader, memtables, logNumber,
                     lastSequence>>,
         nextFile' \in {nextFile, nextFile + 1}
  PROVE  FilesInv'
<1>1. nextFile \in Nat /\ logNumber \in Nat /\ lastSequence \in Nat
  BY DEF Inv1, MemoryTyped
<1>2. nextFile <= nextFile' /\ logNumber <= logNumber' /\ lastSequence <= lastSequence'
  BY <1>1
<1>. QED
  BY <1>2, Grow DEF FilesInv, opening

LEMMA WorkFacts ==
  ASSUME Inv1, FilesInv, bg.pc # "off"
  PROVE  /\ Alive /\ Running /\ nextFile \in Nat /\ bg.number \in Nat /\ bg.output \in Nat
         /\ bg.inputs \subseteq DOMAIN tables /\ (bg.output < nextFile \/ bg.output = 0)
         /\ DOMAIN tables \subseteq Nat /\ FilesOf(version) \subseteq DOMAIN tables
         /\ \A f \in DOMAIN tables : f < nextFile
         /\ minLog <= logNumber /\ logNumber < nextFile /\ minLog \in Nat /\ logNumber \in Nat
         /\ TablesTyped
<1>1. db \in {"open", "closing"} /\ Running
  BY BackgroundRuns
<1>. QED
  BY <1>1 DEF Inv1, MemoryTyped, BgTyped, LogsTyped, Numbered, Alive, FilesInv, WorkInv, VersionThere,
     TablesOld

LEMMA StartFlushFiles ==
  ASSUME Inv1, Inv1', FilesInv, StartFlush, imm # 0, bg.pc \in {"scheduled", "merge"},
         UNCHANGED <<disk, opening, reader>>
  PROVE  FilesInv'
<1>1. /\ nextFile \in Nat /\ \A f \in DOMAIN tables : f < nextFile /\ f \in Nat
      /\ bg.output \in Nat /\ (bg.output < nextFile \/ bg.output = 0)
      /\ bg.inputs \subseteq DOMAIN tables
  BY WorkFacts
<1>2. /\ bg'.pc = "build" /\ bg'.number = nextFile /\ bg'.inputs = bg.inputs /\ bg'.output = bg.output
      /\ nextFile' = nextFile + 1
      /\ UNCHANGED <<tables, manifests, db, replay, memtables, imm, logNumber, version, minLog,
                     lastSequence, bgError>>
  BY DEF StartFlush, disk, opening, Inv1, BgTyped
<1>3. WorkInv'
  BY <1>1, <1>2 DEF WorkInv
<1>4. SameFiles' /\ CommitInv' /\ DeleteInv'
  BY <1>2 DEF FilesInv, SameFiles, CommitInv, DeleteInv, Alive
<1>. QED
  BY <1>2, <1>3, <1>4, WorkFiles DEF opening

LEMMA BackgroundCallFiles == ASSUME Inv1, Inv1', FilesInv, BackgroundCall PROVE FilesInv'
<1>1. bg.pc = "scheduled" /\ UNCHANGED <<disk, opening, reader>>
  BY DEF BackgroundCall
<1>2. /\ bg.inputs \subseteq DOMAIN tables /\ bg.output \in Nat /\ nextFile \in Nat
      /\ (bg.output < nextFile \/ bg.output = 0) /\ FilesOf(version) \subseteq DOMAIN tables
  BY <1>1, WorkFacts
<1>3. CASE StartFlush /\ imm # None
  BY <1>1, <1>3, StartFlushFiles DEF None
<1>4. CASE bg' = [bg EXCEPT !.pc = "end"] /\ UNCHANGED memory
  <2>1. /\ bg'.pc = "end" /\ bg'.inputs = bg.inputs /\ bg'.output = bg.output
        /\ UNCHANGED <<tables, manifests, db, version, nextFile, bgError, minLog, memtables, logNumber,
                       lastSequence>>
    BY <1>1, <1>4 DEF Inv1, BgTyped, disk, memory, opening
  <2>. QED
    BY <1>1, <1>2, <2>1, BgQuiet, WorkFiles
<1>5. CASE bg' = [bg EXCEPT !.pc = "merge", !.merging = TRUE, !.inputs = version.level0]
           /\ UNCHANGED memory
  <2>1. /\ bg'.pc = "merge" /\ bg'.inputs = version.level0 /\ bg'.output = bg.output
        /\ UNCHANGED <<tables, manifests, db, version, nextFile, bgError, minLog, memtables, logNumber,
                       lastSequence>>
    BY <1>1, <1>5 DEF Inv1, BgTyped, disk, memory, opening
  <2>2. version.level0 \subseteq DOMAIN tables
    BY <1>2 DEF FilesOf
  <2>. QED
    BY <1>1, <1>2, <2>1, <2>2, BgQuiet, WorkFiles
<1>. QED
  BY <1>3, <1>4, <1>5 DEF BackgroundCall

\* A table is written, under a number that no table has.
LEMMA NewTable ==
  ASSUME Inv1, Inv1', FilesInv, bg.pc # "off", NEW f, NEW content \in SUBSET Entry,
         f \notin DOMAIN tables, f < nextFile, tables' = With(tables, f, content),
         UNCHANGED <<manifests, opening, memory, reader>>, WorkInv',
         bg' = bg \/ (bg.pc = "build" /\ bg'.pc = "built"), bg.pc \notin {"commit", "delete"}
  PROVE  FilesInv'
<1>1. /\ DOMAIN tables' = DOMAIN tables \cup {f}
      /\ \A x \in DOMAIN tables : tables'[x] = tables[x]
  BY DEF With
<1>2. /\ Alive /\ UNCHANGED <<db, replay, version, nextFile, minLog, logNumber, lastSequence, memtables,
                              bgError>>
  BY WorkFacts DEF opening, memory
<1>3. TablesTyped'
  BY DEF FilesInv, TablesTyped, With
<1>4. ManifestsNumbered' /\ DatabaseOpens'
  BY <1>1, <1>2 DEF FilesInv, ManifestsNumbered, DatabaseOpens
<1>5. ReplayInv' /\ VersionThere' /\ TablesOld'
  BY <1>1, <1>2 DEF FilesInv, ReplayInv, VersionThere, TablesOld, Running, Alive
<1>6. SameFiles' /\ CommitInv' /\ DeleteInv'
  BY <1>2 DEF FilesInv, SameFiles, CommitInv, DeleteInv, Alive
<1>7. ReadersThere'
  BY <1>1, <1>2 DEF FilesInv, ReadersThere
<1>. QED
  BY <1>3, <1>4, <1>5, <1>6, <1>7 DEF FilesInv

LEMMA BuildTableFiles == ASSUME Inv1, Inv1', FilesInv, BuildTable PROVE FilesInv'
<1>1. /\ bg.pc = "build" /\ bg'.pc = "built" /\ bg'.inputs = bg.inputs /\ bg'.output = bg.output
      /\ bg'.number = bg.number
      /\ UNCHANGED <<manifests, opening, memory, reader>>
  BY DEF BuildTable, Inv1, BgTyped
<1>2. bg.number \notin DOMAIN tables /\ bg.number < nextFile /\ imm # 0
  BY <1>1 DEF FilesInv, WorkInv
<1>3. CASE tables' = tables
  <2>1. WorkInv'
    BY <1>1, <1>2, <1>3 DEF FilesInv, WorkInv, memory
  <2>2. SameFiles' /\ CommitInv' /\ DeleteInv'
    BY <1>1, <1>3 DEF FilesInv, SameFiles, CommitInv, DeleteInv, Alive, memory, opening
  <2>. QED
    BY <1>1, <1>3, <2>1, <2>2, WorkFiles DEF memory
<1>4. CASE tables' = With(tables, bg.number, memtables[imm])
  <2>1. memtables[imm] \in SUBSET Entry
    <3>1. imm \in DOMAIN memtables
      BY <1>1, <1>2, WorkFacts DEF Inv1, Numbered
    <3>. QED
      BY <3>1 DEF Inv1, MemoryTyped
  <2>2. WorkInv'
    <3>1. DOMAIN tables \subseteq DOMAIN tables'
      BY <1>4 DEF With
    <3>. QED
      BY <1>1, <1>2, <3>1 DEF FilesInv, WorkInv, memory
  <2>. QED
    BY <1>1, <1>2, <1>4, <2>1, <2>2, NewTable
<1>. QED
  BY <1>3, <1>4 DEF BuildTable

LEMMA BuildTableFailsFiles == ASSUME Inv1, Inv1', FilesInv, BuildTableFails PROVE FilesInv'
<1>1. /\ bg.pc = "build" /\ bg'.pc = "failed" /\ bg'.inputs = bg.inputs /\ bg'.output = bg.output
      /\ bg'.number = bg.number
      /\ UNCHANGED <<tables, manifests, db, replay, memtables, imm, logNumber, version, minLog,
                     lastSequence, bgError, nextFile, reader>>
  BY DEF BuildTableFails, Inv1, BgTyped, disk, memory, opening
<1>2. WorkInv' /\ SameFiles' /\ CommitInv' /\ DeleteInv'
  BY <1>1 DEF FilesInv, SameFiles, CommitInv, DeleteInv, Alive, WorkInv
<1>. QED
  BY <1>1, <1>2, WorkFiles DEF opening

LEMMA FinishOutputFiles == ASSUME Inv1, Inv1', FilesInv, FinishCompactionOutputFile PROVE FilesInv'
<1>1. /\ bg.pc = "merge" /\ bg.output # 0 /\ bg.output \notin DOMAIN tables /\ bg' = bg
      /\ tables' = With(tables, bg.output, UNION {tables[n] : n \in bg.inputs})
      /\ UNCHANGED <<manifests, opening, memory, reader>>
  BY DEF FinishCompactionOutputFile
<1>2. bg.inputs \subseteq DOMAIN tables /\ bg.output < nextFile /\ TablesTyped
  BY <1>1, WorkFacts
<1>3. UNION {tables[n] : n \in bg.inputs} \in SUBSET Entry
  BY <1>2 DEF TablesTyped
<1>4. WorkInv'
  <2>1. DOMAIN tables \subseteq DOMAIN tables'
    BY <1>1 DEF With
  <2>. QED
    BY <1>1, <2>1 DEF FilesInv, WorkInv, memory
<1>. QED
  BY <1>1, <1>2, <1>3, <1>4, NewTable

LEMMA OpenOutputFiles == ASSUME Inv1, Inv1', FilesInv, OpenCompactionOutputFile PROVE FilesInv'
<1>1. /\ bg.pc = "merge" /\ bg'.pc = "merge" /\ bg'.inputs = bg.inputs /\ bg'.output = nextFile
      /\ nextFile' = nextFile + 1
      /\ UNCHANGED <<tables, manifests, db, replay, memtables, imm, logNumber, version, minLog,
                     lastSequence, bgError, reader>>
  BY DEF OpenCompactionOutputFile, Inv1, BgTyped, disk, opening
<1>2. nextFile \in Nat /\ bg.inputs \subseteq DOMAIN tables
  BY <1>1, WorkFacts
<1>3. bg'.output < nextFile'
  BY <1>1, <1>2
<1>. QED
  BY <1>1, <1>2, <1>3, BgQuiet, WorkFiles DEF opening

\* An error ends the work; the manifests may have its edit or not.
LEMMA ErrorFiles ==
  ASSUME Inv1, Inv1', FilesInv, bg.pc # "off", bg'.pc = "end", bgError' = TRUE,
         bg'.inputs \subseteq bg.inputs, bg'.output = bg.output,
         UNCHANGED <<disk, opening, memtables, imm, logNumber, version, minLog, nextFile,
                     lastSequence, reader>>
  PROVE  FilesInv'
<1>1. bg.inputs \subseteq DOMAIN tables /\ (bg.output < nextFile \/ bg.output = 0) /\ nextFile \in Nat
  BY WorkFacts
<1>2. SameFiles' /\ WorkInv' /\ CommitInv' /\ DeleteInv'
  BY <1>1 DEF SameFiles, WorkInv, CommitInv, DeleteInv, disk
<1>. QED
  BY <1>1, <1>2, WorkFiles DEF disk

LEMMA CommitStartFiles ==
  ASSUME Inv1, Inv1', FilesInv, NEW what \in {"flush", "merge"}, NEW edit \in Edit,
         StartCommit(what, edit), bg.pc \in {"built", "merge"}, bg.pc = "built" \/ what = "merge",
         edit.added0 \cup edit.addedDeeper \subseteq DOMAIN tables,
         edit.log <= logNumber, edit.next = nextFile,
         UNCHANGED <<tables, opening, memtables, imm, logNumber, version, minLog, nextFile,
                     lastSequence, bgError, reader>>
  PROVE  FilesInv'
<1>1. /\ bg'.pc = "commit" /\ bg'.what = what /\ bg'.edit = edit /\ bg'.before = manifests
      /\ bg'.inputs = bg.inputs /\ bg'.output = bg.output
      /\ manifests' = manifests \cup {Applied(m, edit) : m \in manifests}
  BY DEF StartCommit, Inv1, BgTyped
<1>2. /\ Alive /\ nextFile \in Nat /\ bg.inputs \subseteq DOMAIN tables
      /\ (bg.output < nextFile \/ bg.output = 0)
      /\ \A f \in DOMAIN tables : f < nextFile /\ f \in Nat
      /\ logNumber < nextFile /\ logNumber \in Nat
  BY WorkFacts
<1>3. edit.log \in Nat /\ edit.log < edit.next
  BY <1>2 DEF Edit
<1>4. \A m \in manifests : m.next \in Nat /\ m.next <= nextFile /\ \A f \in FilesOf(m) : f < m.next /\ f \in Nat
  BY <1>2 DEF Inv1, OpeningTyped, Manifest, FilesInv, ManifestsNumbered, FilesOf, Alive
<1>5. \A m \in manifests :
        /\ FilesOf(Applied(m, edit)) \subseteq FilesOf(m) \cup edit.added0 \cup edit.addedDeeper
        /\ Applied(m, edit).log = edit.log /\ Applied(m, edit).next = nextFile
  BY DEF Applied, FilesOf
<1>6. TablesTyped' /\ ReplayInv' /\ VersionThere' /\ TablesOld' /\ ReadersThere'
  BY DEF FilesInv, TablesTyped, ReplayInv, VersionThere, TablesOld, ReadersThere, opening, Running, Alive
<1>7. ManifestsNumbered'
  <2>1. \A m \in manifests : \A f \in FilesOf(Applied(m, edit)) : f < nextFile
    <3>. SUFFICES ASSUME NEW m \in manifests, NEW f \in FilesOf(Applied(m, edit)) PROVE f < nextFile
      OBVIOUS
    <3>1. CASE f \in FilesOf(m)
      BY <1>2, <1>4, <3>1
    <3>2. CASE f \in edit.added0 \cup edit.addedDeeper
      BY <1>2, <3>2
    <3>. QED
      BY <1>5, <3>1, <3>2
  <2>2. \A m \in manifests : Applied(m, edit).log < Applied(m, edit).next /\ Applied(m, edit).next <= nextFile
    BY <1>2, <1>3, <1>5
  <2>3. \A m \in manifests : \A f \in FilesOf(Applied(m, edit)) : f < Applied(m, edit).next
    BY <1>5, <2>1
  <2>. QED
    BY <1>1, <2>2, <2>3 DEF FilesInv, ManifestsNumbered, opening
<1>8. DatabaseOpens'
  BY <1>1, <1>5 DEF FilesInv, DatabaseOpens
<1>9. SameFiles'
  BY <1>1 DEF FilesInv, SameFiles, Alive, opening
<1>10. CommitInv'
  BY <1>1, <1>2, <1>3 DEF CommitInv
<1>11. DeleteInv'
  BY <1>1 DEF DeleteInv
<1>12. WorkInv'
  <2>1. bg.pc = "built" => imm # 0
    BY DEF FilesInv, WorkInv
  <2>. QED
    BY <1>1, <1>2, <2>1 DEF WorkInv
<1>. QED
  BY <1>6, <1>7, <1>8, <1>9, <1>10, <1>11, <1>12 DEF FilesInv

LEMMA FlushBuiltFiles == ASSUME Inv1, Inv1', FilesInv, FlushBuilt PROVE FilesInv'
<1>1. /\ bg.pc \in {"built", "failed"}
      /\ UNCHANGED <<logs, tables, opening, memtables, imm, logNumber, version, minLog, nextFile,
                     lastSequence, reader>>
  BY DEF FlushBuilt
<1>2. CASE bg.pc = "built" /\ db # "closing"
  <2>. DEFINE edit == [added0 |-> {bg.number} \cap DOMAIN tables, addedDeeper |-> {}, deleted |-> {},
                       log |-> logNumber, next |-> nextFile, last |-> lastSequence]
  <2>1. edit \in Edit
    BY DEF Inv1, BgTyped, MemoryTyped, Edit
  <2>2. StartCommit("flush", edit) /\ UNCHANGED <<bgError, thread>>
    BY <1>2 DEF FlushBuilt
  <2>3. /\ edit.added0 \cup edit.addedDeeper \subseteq DOMAIN tables /\ edit.log <= logNumber
        /\ edit.next = nextFile
    BY DEF Inv1, MemoryTyped
  <2>. HIDE DEF edit
  <2>. QED
    BY <1>1, <1>2, <2>1, <2>2, <2>3, CommitStartFiles
<1>3. CASE RecordBackgroundError /\ UNCHANGED manifests
  <2>1. bg'.pc = "end" /\ bg'.inputs = bg.inputs /\ bg'.output = bg.output /\ bgError' = TRUE
    BY <1>3 DEF RecordBackgroundError, Inv1, BgTyped
  <2>. QED
    BY <1>1, <1>3, <2>1, ErrorFiles DEF disk
<1>. QED
  BY <1>2, <1>3 DEF FlushBuilt

LEMMA CleanupFiles ==
  ASSUME Inv1, Inv1', FilesInv, bg.pc # "off", CleanupCompaction,
         UNCHANGED <<disk, opening, memtables, imm, logNumber, version, minLog, nextFile,
                     lastSequence, reader>>
  PROVE  FilesInv'
<1>1. bg'.pc = "end" /\ bg'.inputs = {} /\ bg'.output = bg.output /\ bgError' = TRUE
  BY DEF CleanupCompaction, Inv1, BgTyped
<1>. QED
  BY <1>1, ErrorFiles

LEMMA InstallResultsFiles == ASSUME Inv1, Inv1', FilesInv, InstallCompactionResults PROVE FilesInv'
<1>1. /\ bg.pc = "merge"
      /\ UNCHANGED <<logs, tables, opening, memtables, imm, logNumber, version, minLog, nextFile,
                     lastSequence, reader>>
  BY DEF InstallCompactionResults
<1>2. CASE db # "closing"
  <2>. DEFINE edit == [added0 |-> {}, addedDeeper |-> {bg.output}, deleted |-> bg.inputs,
                       log |-> minLog, next |-> nextFile, last |-> lastSequence]
  <2>1. edit \in Edit
    BY DEF Inv1, BgTyped, MemoryTyped, Edit
  <2>2. StartCommit("merge", edit) /\ UNCHANGED <<bgError, thread>>
    BY <1>2 DEF InstallCompactionResults
  <2>3. bg.output \in DOMAIN tables /\ minLog <= logNumber
    BY <1>1, <1>2, WorkFacts DEF InstallCompactionResults
  <2>4. /\ edit.added0 \cup edit.addedDeeper \subseteq DOMAIN tables /\ edit.log <= logNumber
        /\ edit.next = nextFile
    BY <2>3
  <2>. HIDE DEF edit
  <2>. QED
    BY <1>1, <1>2, <2>1, <2>2, <2>4, CommitStartFiles
<1>3. CASE CleanupCompaction /\ UNCHANGED manifests
  BY <1>1, <1>3, CleanupFiles DEF disk
<1>. QED
  BY <1>2, <1>3 DEF InstallCompactionResults

LEMMA FailureFiles == ASSUME Inv1, Inv1', FilesInv, MergeFails \/ CommitFails PROVE FilesInv'
<1>1. /\ bg.pc # "off"
      /\ UNCHANGED <<disk, opening, memtables, imm, logNumber, version, minLog, nextFile,
                     lastSequence, reader>>
  BY DEF MergeFails, CommitFails
<1>2. CASE CleanupCompaction
  BY <1>1, <1>2, CleanupFiles
<1>3. CASE RecordBackgroundError
  <2>1. bg'.pc = "end" /\ bg'.inputs = bg.inputs /\ bg'.output = bg.output /\ bgError' = TRUE
    BY <1>3 DEF RecordBackgroundError, Inv1, BgTyped
  <2>. QED
    BY <1>1, <2>1, ErrorFiles
<1>. QED
  BY <1>2, <1>3 DEF MergeFails, CommitFails

\* What a version becomes.
Installed(edit) ==
  [level0 |-> (version.level0 \ edit.deleted) \cup edit.added0,
   deeper |-> (version.deeper \ edit.deleted) \cup edit.addedDeeper]

LEMMA CommitFiles == ASSUME Inv1, Inv1', FilesInv, Commit PROVE FilesInv'
<1>. DEFINE flush == bg.what = "flush"
            pending == IF flush THEN pendingOutputs ELSE pendingOutputs \ {bg.output}
            inputs == IF flush THEN bg.inputs ELSE {}
            live == pending \cup AddLiveFiles(version', inputs)
            garbage == ObsoleteFiles(live, bg.edit.log, bgError)
<1>1. /\ bg.pc = "commit" /\ manifests' = {Applied(m, bg.edit) : m \in bg.before}
      /\ version' = Installed(bg.edit) /\ minLog' = bg.edit.log
      /\ memtables' = Referenced(memtables, logNumber, imm')
      /\ UNCHANGED <<tables, opening, logNumber, nextFile, lastSequence, bgError, reader>>
  BY DEF Commit, Installed
<1>2. /\ bg'.pc = "delete" /\ bg'.inputs = inputs /\ bg'.output = bg.output
      /\ bg'.garbage = garbage
  BY DEF Commit, Inv1, BgTyped
<1>3. /\ Alive /\ Running /\ nextFile \in Nat /\ bg.inputs \subseteq DOMAIN tables
      /\ (bg.output < nextFile \/ bg.output = 0)
      /\ \A f \in DOMAIN tables : f < nextFile
      /\ FilesOf(version) \subseteq DOMAIN tables
  BY <1>1, WorkFacts
<1>4. /\ \A m \in bg.before : m \in manifests /\ Applied(m, bg.edit) \in manifests
      /\ bg.edit.added0 \cup bg.edit.addedDeeper \subseteq DOMAIN tables
      /\ bg.edit.log <= logNumber
  BY <1>1 DEF FilesInv, CommitInv
<1>5. manifests' \subseteq manifests
  BY <1>1, <1>4
<1>6. FilesOf(version') \subseteq FilesOf(version) \cup bg.edit.added0 \cup bg.edit.addedDeeper
  BY <1>1 DEF FilesOf, Installed
<1>7. TablesTyped' /\ ManifestsNumbered' /\ DatabaseOpens'
  BY <1>1, <1>5 DEF FilesInv, TablesTyped, ManifestsNumbered, DatabaseOpens, opening
<1>8. ReplayInv' /\ TablesOld'
  BY <1>1, <1>3 DEF FilesInv, ReplayInv, TablesOld, opening, Alive
<1>9. VersionThere'
  BY <1>1, <1>3, <1>4, <1>6 DEF VersionThere
<1>10. SameFiles'
  BY <1>1, <1>2 DEF FilesInv, SameFiles, Alive, opening, Applied, Installed
<1>11. WorkInv' /\ CommitInv'
  BY <1>1, <1>2, <1>3 DEF WorkInv, CommitInv
<1>12. DeleteInv'
  <2>. SUFFICES ASSUME NEW f \in bg'.garbage.tables
                PROVE  /\ f \notin FilesOf(version') /\ f \notin bg'.inputs
                       /\ \A m \in manifests' : f \notin FilesOf(m)
                       /\ \A r \in Readers : f \notin reader'[r].files
    BY DEF DeleteInv
  <2>1. f \in DOMAIN tables /\ bgError = FALSE /\ f \notin live
    BY <1>2 DEF ObsoleteFiles, Inv1, MemoryTyped
  <2>2. f \notin FilesOf(version') /\ f \notin inputs /\ \A r \in Readers : f \notin reader[r].files
    BY <2>1 DEF AddLiveFiles
  <2>3. \A m \in manifests' : FilesOf(m) = FilesOf(version')
    BY <1>1, <1>2, <1>3, <1>10, <2>1 DEF SameFiles, FilesOf, Alive, opening
  <2>. QED
    BY <1>1, <1>2, <2>2, <2>3
<1>13. ReadersThere'
  <2>1. \A r \in Readers : \A n \in reader[r].mems : n \in DOMAIN memtables => n \in DOMAIN memtables'
    BY <1>1 DEF Referenced
  <2>. QED
    BY <1>1, <2>1 DEF FilesInv, ReadersThere
<1>. QED
  BY <1>7, <1>8, <1>9, <1>10, <1>11, <1>12, <1>13 DEF FilesInv

LEMMA DeleteFilesFiles == ASSUME Inv1, Inv1', FilesInv, DeleteFiles PROVE FilesInv'
<1>1. /\ bg.pc = "delete" /\ bg'.pc = "end" /\ bg'.inputs = bg.inputs /\ bg'.output = bg.output
      /\ tables' = Without(tables, bg.garbage.tables)
      /\ UNCHANGED <<manifests, opening, memory, reader>>
  BY DEF DeleteFiles, Inv1, BgTyped
<1>2. \A f \in bg.garbage.tables :
        /\ f \notin FilesOf(version) /\ f \notin bg.inputs
        /\ \A m \in manifests : f \notin FilesOf(m)
        /\ \A r \in Readers : f \notin reader[r].files
  BY <1>1 DEF FilesInv, DeleteInv
<1>3. /\ Alive /\ bg.inputs \subseteq DOMAIN tables /\ (bg.output < nextFile \/ bg.output = 0)
  BY <1>1, WorkFacts
<1>4. /\ DOMAIN tables' = DOMAIN tables \ bg.garbage.tables
      /\ \A f \in DOMAIN tables' : tables'[f] = tables[f]
  BY <1>1 DEF Without
<1>5. TablesTyped' /\ TablesOld' /\ ManifestsNumbered'
  BY <1>1, <1>4 DEF FilesInv, TablesTyped, TablesOld, ManifestsNumbered, memory, opening, Alive, Without
<1>6. DatabaseOpens' /\ VersionThere'
  BY <1>1, <1>2, <1>4 DEF FilesInv, DatabaseOpens, VersionThere, memory, opening, Running
<1>7. ReplayInv'
  BY <1>1, <1>3 DEF ReplayInv, opening, Alive
<1>8. ReadersThere'
  BY <1>1, <1>2, <1>4 DEF FilesInv, ReadersThere, memory
<1>9. SameFiles' /\ WorkInv' /\ CommitInv' /\ DeleteInv'
  <2>1. bg'.inputs \subseteq DOMAIN tables'
    BY <1>1, <1>2, <1>3, <1>4
  <2>. QED
    BY <1>1, <1>3, <2>1, BgQuiet DEF memory, opening
<1>. QED
  BY <1>5, <1>6, <1>7, <1>8, <1>9 DEF FilesInv

LEMMA EndOfCallFiles == ASSUME Inv1, Inv1', FilesInv, EndOfBackgroundCall PROVE FilesInv'
<1>1. bg.pc = "end" /\ UNCHANGED <<disk, opening, memory, reader>>
  BY DEF EndOfBackgroundCall
<1>2. bg.inputs \subseteq DOMAIN tables /\ (bg.output < nextFile \/ bg.output = 0) /\ nextFile \in Nat
  BY <1>1, WorkFacts
<1>3. /\ bg'.pc \in {"off", "scheduled", "merge", "end"} /\ bg'.inputs \subseteq DOMAIN tables'
      /\ (bg'.output < nextFile' \/ bg'.output = 0)
  <2>1. CASE bg' = [bg EXCEPT !.pc = "merge"]
    BY <1>1, <1>2, <2>1 DEF Inv1, BgTyped, disk, memory
  <2>2. CASE bg' = MaybeScheduleCompaction(BgOff, imm, version, bgError)
    <3>1. bg'.pc \in {"off", "scheduled"} /\ bg'.inputs = {} /\ bg'.output = 0
      BY <2>2 DEF MaybeScheduleCompaction, BgOff
    <3>. QED
      BY <3>1
  <2>. QED
    BY <2>1, <2>2 DEF EndOfBackgroundCall
<1>4. SameFiles' /\ WorkInv' /\ CommitInv' /\ DeleteInv'
  BY <1>1, <1>3, BgQuiet DEF disk, memory, opening
<1>. QED
  BY <1>1, <1>4, WorkFiles DEF disk, memory

LEMMA BackgroundFiles == ASSUME Inv1, Inv1', FilesInv, Background PROVE FilesInv'
<1>1. ASSUME FlushDuringMerge PROVE FilesInv'
  BY <1>1, StartFlushFiles DEF FlushDuringMerge, None
<1>. QED
  BY <1>1, BackgroundCallFiles, BuildTableFiles, BuildTableFailsFiles, FlushBuiltFiles, OpenOutputFiles,
     FinishOutputFiles, InstallResultsFiles, FailureFiles, CommitFiles, DeleteFilesFiles, EndOfCallFiles
     DEF Background

LEMMA StartReadFiles ==
  ASSUME Inv1, Inv1', FilesInv, NEW r \in Readers, StartRead(r) PROVE FilesInv'
<1>1. /\ db = "open" /\ UNCHANGED <<disk, opening, memory, bg>>
      /\ reader' = [reader EXCEPT ![r] =
           [on |-> TRUE, seq |-> lastSequence, mems |-> InMemory, files |-> FilesOf(version),
            expect |-> Stored(lastSequence)]]
  BY DEF StartRead
<1>2. DOMAIN reader = Readers
  BY DEF Inv1, ReaderTyped
<1>3. /\ reader'[r].on = TRUE /\ reader'[r].seq = lastSequence /\ reader'[r].mems = InMemory
      /\ reader'[r].files = FilesOf(version)
      /\ \A x \in Readers : x # r => reader'[x] = reader[x]
  BY <1>1, <1>2
<1>4. /\ TablesTyped' /\ ManifestsNumbered' /\ ReplayInv' /\ VersionThere' /\ SameFiles' /\ TablesOld'
      /\ WorkInv' /\ CommitInv' /\ DatabaseOpens'
  BY <1>1 DEF FilesInv, TablesTyped, ManifestsNumbered, ReplayInv, VersionThere, SameFiles, TablesOld,
     WorkInv, CommitInv, DatabaseOpens, Alive, Running, disk, opening, memory
<1>5. DeleteInv'
  BY <1>1, <1>3 DEF FilesInv, DeleteInv, disk, memory
<1>6. ReadersThere'
  <2>1. FilesOf(version) \subseteq DOMAIN tables /\ InMemory \subseteq DOMAIN memtables
    BY <1>1 DEF FilesInv, VersionThere, Running, Inv1, Numbered, InMemory, None
  <2>2. lastSequence <= lastSequence
    BY DEF Inv1, MemoryTyped
  <2>. QED
    BY <1>1, <1>3, <2>1, <2>2 DEF FilesInv, ReadersThere, disk, memory
<1>. QED
  BY <1>4, <1>5, <1>6 DEF FilesInv

LEMMA EndReadFiles ==
  ASSUME Inv1, Inv1', FilesInv, NEW r \in Readers, EndRead(r) PROVE FilesInv'
<1>1. /\ reader' = [reader EXCEPT ![r] = NoRead]
      /\ memtables' = [n \in DOMAIN memtables \cap
           (InMemory \cup UNION {reader[x].mems : x \in Readers \ {r}}) |-> memtables[n]]
      /\ UNCHANGED <<disk, opening, imm, logNumber, version, minLog, nextFile, lastSequence,
                     bgError, bg>>
  BY DEF EndRead
<1>2. DOMAIN reader = Readers
  BY DEF Inv1, ReaderTyped
<1>3. /\ reader'[r].on = FALSE /\ reader'[r].files = {}
      /\ \A x \in Readers : x # r => reader'[x] = reader[x]
  BY <1>1, <1>2 DEF NoRead
<1>4. /\ TablesTyped' /\ ManifestsNumbered' /\ ReplayInv' /\ VersionThere' /\ SameFiles' /\ TablesOld'
      /\ WorkInv' /\ CommitInv' /\ DatabaseOpens'
  BY <1>1 DEF FilesInv, TablesTyped, ManifestsNumbered, ReplayInv, VersionThere, SameFiles, TablesOld,
     WorkInv, CommitInv, DatabaseOpens, Alive, Running, disk, opening
<1>5. DeleteInv'
  BY <1>1, <1>3 DEF FilesInv, DeleteInv, disk
<1>6. ReadersThere'
  <2>1. \A x \in Readers : x # r => \A n \in reader[x].mems : n \in DOMAIN memtables => n \in DOMAIN memtables'
    BY <1>1
  <2>. QED
    BY <1>1, <1>3, <2>1 DEF FilesInv, ReadersThere, disk
<1>. QED
  BY <1>4, <1>5, <1>6 DEF FilesInv

\* The process is no more.
LEMMA DownFiles ==
  ASSUME FilesInv, Down, UNCHANGED <<tables, manifests>> PROVE FilesInv'
<1>1. /\ db' = "closed" /\ bg' = BgOff /\ reader' = [r \in Readers |-> NoRead]
  BY DEF Down
<1>2. TablesTyped' /\ ManifestsNumbered' /\ DatabaseOpens'
  BY <1>1 DEF FilesInv, TablesTyped, ManifestsNumbered, DatabaseOpens
<1>3. ReplayInv' /\ VersionThere' /\ SameFiles' /\ TablesOld'
  BY <1>1 DEF ReplayInv, VersionThere, SameFiles, TablesOld, Running, Alive
<1>4. WorkInv' /\ CommitInv' /\ DeleteInv'
  BY <1>1 DEF WorkInv, CommitInv, DeleteInv, BgOff
<1>5. ReadersThere'
  BY <1>1 DEF ReadersThere, NoRead
<1>. QED
  BY <1>2, <1>3, <1>4, <1>5 DEF FilesInv

\* While the database is not open nobody reads and nothing is done.
LEMMA NobodyActs ==
  ASSUME Inv1, FilesInv, ~Alive, ~Alive', UNCHANGED <<bg, reader>>
  PROVE  SameFiles' /\ TablesOld' /\ WorkInv' /\ CommitInv' /\ DeleteInv' /\ ReadersThere'
<1>1. bg = BgOff /\ \A r \in Readers : ~reader[r].on
  BY DEF Inv1, OnlyWhenOpen, Alive, OpeningTyped
<1>2. SameFiles' /\ TablesOld'
  BY DEF SameFiles, TablesOld
<1>3. WorkInv' /\ CommitInv' /\ DeleteInv'
  BY <1>1 DEF WorkInv, CommitInv, DeleteInv, BgOff
<1>4. ReadersThere'
  BY <1>1 DEF FilesInv, ReadersThere
<1>. QED
  BY <1>2, <1>3, <1>4

LEMMA RecoverFiles ==
  ASSUME Inv1, Inv1', FilesInv, NEW m \in manifests, Recover(m) PROVE FilesInv'
<1>1. /\ db = "closed" /\ db' = "replaying" /\ FilesOf(m) \subseteq DOMAIN tables
      /\ manifests' = {o \in manifests : o.next <= m.next}
      /\ version' = [level0 |-> m.level0, deeper |-> m.deeper]
      /\ minLog' = m.log /\ nextFile' = m.next + 1
      /\ replay'.from = m /\ replay'.added = {}
      /\ UNCHANGED <<tables, bg, reader>>
  BY DEF Recover, NoReplay
<1>2. m.next \in Nat /\ m.log \in Nat /\ \A o \in manifests : o.next \in Nat
  BY DEF Inv1, OpeningTyped, Manifest
<1>3. m.log < m.next /\ \A f \in FilesOf(m) : f < m.next /\ f \in Nat
  BY DEF FilesInv, ManifestsNumbered, Inv1, OpeningTyped, Manifest, FilesOf
<1>4. FilesOf(version') = FilesOf(m)
  BY <1>1 DEF FilesOf
<1>5. TablesTyped' /\ ManifestsNumbered' /\ DatabaseOpens'
  BY <1>1, <1>2 DEF FilesInv, TablesTyped, ManifestsNumbered, DatabaseOpens
<1>6. ReplayInv' /\ VersionThere'
  BY <1>1, <1>2, <1>3, <1>4 DEF ReplayInv, VersionThere, Running
<1>7. SameFiles' /\ TablesOld' /\ WorkInv' /\ CommitInv' /\ DeleteInv' /\ ReadersThere'
  BY <1>1, NobodyActs DEF Alive
<1>. QED
  BY <1>5, <1>6, <1>7 DEF FilesInv

\* A step of the replay: perhaps a table of level 0 is written.
LEMMA ReplayFiles ==
  ASSUME Inv1, Inv1', FilesInv, db = "replaying", db' = "replaying",
         UNCHANGED <<manifests, version, minLog, bg, reader>>, replay'.from = replay.from,
         nextFile <= nextFile',
         \/ tables' = tables /\ replay'.added = replay.added
         \/ /\ \E mem \in SUBSET Entry : tables' = With(tables, nextFile, mem)
            /\ replay'.added = replay.added \cup {nextFile} /\ nextFile < nextFile'
  PROVE  FilesInv'
<1>1. /\ nextFile \in Nat /\ nextFile' \in Nat /\ minLog \in Nat
      /\ \A m \in manifests : m.next \in Nat
      /\ FilesOf(version) \cup replay.added \subseteq Nat
  BY DEF Inv1, MemoryTyped, OpeningTyped, Manifest, Version, FilesOf
<1>2. TablesTyped' /\ DOMAIN tables \subseteq DOMAIN tables'
  BY DEF FilesInv, TablesTyped, With
<1>3. ManifestsNumbered' /\ DatabaseOpens'
  BY <1>1, <1>2 DEF FilesInv, ManifestsNumbered, DatabaseOpens
<1>4. /\ FilesOf(version) \cup replay.added \subseteq DOMAIN tables
      /\ \A f \in FilesOf(version) \cup replay.added : f < nextFile
      /\ replay.from.level0 = version.level0 /\ replay.from.deeper = version.deeper
      /\ minLog < nextFile
  BY DEF FilesInv, ReplayInv
<1>5. FilesOf(version') \cup replay'.added \subseteq DOMAIN tables'
  BY <1>2, <1>4 DEF With
<1>6. \A f \in FilesOf(version') \cup replay'.added : f < nextFile'
  BY <1>1, <1>4
<1>7. minLog' < nextFile'
  BY <1>1, <1>4
<1>8. ReplayInv'
  BY <1>4, <1>5, <1>6, <1>7 DEF ReplayInv
<1>9. VersionThere'
  BY DEF VersionThere, Running
<1>10. SameFiles' /\ TablesOld' /\ WorkInv' /\ CommitInv' /\ DeleteInv' /\ ReadersThere'
  BY NobodyActs DEF Alive
<1>. QED
  BY <1>2, <1>3, <1>8, <1>9, <1>10 DEF FilesInv

LEMMA RecoverRecordFiles ==
  ASSUME Inv1, Inv1', FilesInv, NEW n, RecoverRecord(n) PROVE FilesInv'
<1>. DEFINE entries == RecordEntries(logs[n].records[replay.read + 1])
            mem == replay.mem \cup entries
            read == [replay EXCEPT !.read = @ + 1, !.mem = mem]
<1>1. /\ db = "replaying" /\ nextFile \in Nat /\ lastSequence \in Nat
      /\ replay \in [from : Manifest, logs : SUBSET Nat, read : Nat, mem : SUBSET Entry, added : SUBSET Nat]
      /\ logs[n].records \in Seq(Seq(Entry)) /\ Len(logs[n].records) \in Nat
      /\ replay.read < Len(logs[n].records)
  BY ReplayFacts DEF RecoverRecord
<1>2. UNCHANGED <<db, manifests, version, minLog, bg, reader>>
  BY DEF RecoverRecord, UnchangedInRecovery
<1>3. mem \in SUBSET Entry
  <2>1. replay.read + 1 \in 1..Len(logs[n].records)
    BY <1>1
  <2>2. logs[n].records[replay.read + 1] \in Seq(Entry)
    BY <1>1, <2>1
  <2>3. entries \subseteq Entry
    BY <1>1, <2>2, RecoveredSequenceIs
  <2>. QED
    BY <1>1, <2>3
<1>4. \/ WriteLevel0Table(mem, read) /\ nextFile' = nextFile + 1
      \/ replay' = read /\ UNCHANGED <<tables, nextFile>>
  BY DEF RecoverRecord
<1>5. read.from = replay.from /\ read.added = replay.added
      /\ read \in [from : Manifest, logs : SUBSET Nat, read : Nat, mem : SUBSET Entry, added : SUBSET Nat]
  <2>. HIDE DEF mem
  <2>1. replay.read + 1 \in Nat
    BY <1>1
  <2>. QED
    BY <1>1, <1>3, <2>1
<1>. HIDE DEF mem, read
<1>6. CASE WriteLevel0Table(mem, read) /\ nextFile' = nextFile + 1
  <2>1. /\ tables' = With(tables, nextFile, mem) /\ replay'.from = replay.from
        /\ replay'.added = replay.added \cup {nextFile} /\ nextFile < nextFile' /\ nextFile <= nextFile'
    BY <1>1, <1>5, <1>6 DEF WriteLevel0Table
  <2>. QED
    BY <1>1, <1>2, <1>3, <2>1, ReplayFiles
<1>7. CASE replay' = read /\ UNCHANGED <<tables, nextFile>>
  BY <1>1, <1>2, <1>5, <1>7, ReplayFiles
<1>. QED
  BY <1>4, <1>6, <1>7

LEMMA SkipRecordFiles ==
  ASSUME Inv1, Inv1', FilesInv, NEW n, SkipRecord(n) PROVE FilesInv'
<1>1. /\ db = "replaying" /\ db' = "replaying" /\ replay'.from = replay.from
      /\ replay'.added = replay.added /\ nextFile \in Nat
      /\ UNCHANGED <<disk, memory, bg, reader>>
  BY SkipFacts
<1>2. UNCHANGED <<tables, manifests, version, minLog, nextFile>> /\ nextFile <= nextFile'
  BY <1>1 DEF disk, memory
<1>. QED
  BY <1>1, <1>2, ReplayFiles

LEMMA ReadFailsFiles ==
  ASSUME Inv1, Inv1', FilesInv, NEW n, ReadFails(n) PROVE FilesInv'
<1>1. /\ db = "replaying" /\ db' = "replaying" /\ replay'.from = replay.from
      /\ replay'.added = replay.added /\ nextFile \in Nat
      /\ UNCHANGED <<disk, memory, bg, reader>>
  BY FailedFacts
<1>2. UNCHANGED <<tables, manifests, version, minLog, nextFile>> /\ nextFile <= nextFile'
  BY <1>1 DEF disk, memory
<1>. QED
  BY <1>1, <1>2, ReplayFiles

LEMMA RecoverLogFileFiles ==
  ASSUME Inv1, Inv1', FilesInv, NEW n, RecoverLogFile(n) PROVE FilesInv'
<1>. DEFINE read == [replay EXCEPT !.logs = @ \ {n}, !.read = 0]
<1>1. /\ db = "replaying" /\ nextFile \in Nat /\ n \in Nat /\ nextFile + 1 \in Nat
      /\ replay \in [from : Manifest, logs : SUBSET Nat, read : Nat, mem : SUBSET Entry, added : SUBSET Nat]
  BY ReplayFacts DEF RecoverLogFile
<1>2. UNCHANGED <<db, manifests, version, minLog, bg, reader>>
  BY DEF RecoverLogFile, UnchangedInRecovery
<1>4. \/ WriteLevel0Table(replay.mem, read) /\ MarkFileNumberUsed(nextFile + 1, n)
      \/ replay' = read /\ UNCHANGED tables /\ MarkFileNumberUsed(nextFile, n)
  BY DEF RecoverLogFile
<1>5. read.from = replay.from /\ read.added = replay.added
      /\ read \in [from : Manifest, logs : SUBSET Nat, read : Nat, mem : SUBSET Entry, added : SUBSET Nat]
  BY <1>1
<1>. HIDE DEF read
<1>6. CASE WriteLevel0Table(replay.mem, read) /\ MarkFileNumberUsed(nextFile + 1, n)
  <2>1. nextFile + 1 <= nextFile' /\ nextFile' \in Nat
    BY <1>1, <1>6, NumberUsed
  <2>2. nextFile < nextFile' /\ nextFile <= nextFile'
    BY <1>1, <2>1
  <2>3. /\ tables' = With(tables, nextFile, replay.mem) /\ replay'.from = replay.from
        /\ replay'.added = replay.added \cup {nextFile} /\ replay.mem \in SUBSET Entry
    BY <1>1, <1>5, <1>6 DEF WriteLevel0Table
  <2>. QED
    BY <1>1, <1>2, <2>2, <2>3, ReplayFiles
<1>7. CASE replay' = read /\ UNCHANGED tables /\ MarkFileNumberUsed(nextFile, n)
  <2>1. nextFile <= nextFile'
    BY <1>1, <1>7, NumberUsed
  <2>. QED
    BY <1>1, <1>2, <1>5, <1>7, <2>1, ReplayFiles
<1>. QED
  BY <1>4, <1>6, <1>7

LEMMA OpenFiles == ASSUME Inv1, Inv1', FilesInv, Open PROVE FilesInv'
<1>. DEFINE edit == [added0 |-> replay.added, addedDeeper |-> {}, deleted |-> {},
                     log |-> nextFile, next |-> nextFile + 1, last |-> lastSequence]
            new == Applied(replay.from, edit)
<1>1. /\ db = "replaying" /\ db' = "recovering" /\ manifests' = manifests \cup {new}
      /\ version' = [version EXCEPT !.level0 = @ \cup replay.added]
      /\ logNumber' = nextFile /\ nextFile' = nextFile + 1
      /\ UNCHANGED <<tables, minLog, bg, reader>>
  BY DEF Open
<1>2. /\ nextFile \in Nat /\ minLog \in Nat /\ version \in Version
      /\ \A m \in manifests : m.next \in Nat
      /\ FilesOf(version) \cup replay.added \subseteq Nat
  BY <1>1 DEF Inv1, MemoryTyped, OpeningTyped, Manifest, Version, FilesOf
<1>3. /\ FilesOf(version) \cup replay.added \subseteq DOMAIN tables
      /\ \A f \in FilesOf(version) \cup replay.added : f < nextFile
      /\ replay.from.level0 = version.level0 /\ replay.from.deeper = version.deeper
      /\ minLog < nextFile
  BY <1>1 DEF FilesInv, ReplayInv
<1>4. /\ FilesOf(new) = FilesOf(version) \cup replay.added /\ new.log = nextFile
      /\ new.next = nextFile + 1
  BY <1>3 DEF Applied, FilesOf
<1>. HIDE DEF new
<1>5. FilesOf(version') = FilesOf(version) \cup replay.added
  BY <1>1, <1>2 DEF FilesOf, Version
<1>6. TablesTyped' /\ DatabaseOpens'
  BY <1>1, <1>3, <1>4 DEF FilesInv, TablesTyped, DatabaseOpens
<1>7. ManifestsNumbered'
  <2>1. \A m \in manifests : m.log < m.next /\ m.next <= nextFile /\ \A f \in FilesOf(m) : f < m.next
    BY <1>1 DEF FilesInv, ManifestsNumbered
  <2>2. \A f \in FilesOf(new) : f < new.next
    BY <1>2, <1>3, <1>4
  <2>. QED
    BY <1>1, <1>2, <1>4, <2>1, <2>2 DEF ManifestsNumbered
<1>8. ReplayInv' /\ VersionThere'
  <2>1. \A f \in FilesOf(version) \cup replay.added : f < nextFile + 1
    BY <1>2, <1>3
  <2>2. minLog <= nextFile
    BY <1>2, <1>3
  <2>. HIDE DEF edit
  <2>. QED
    BY <1>1, <1>3, <1>5, <2>1, <2>2 DEF ReplayInv, VersionThere
<1>9. SameFiles' /\ TablesOld' /\ WorkInv' /\ CommitInv' /\ DeleteInv' /\ ReadersThere'
  BY <1>1, NobodyActs DEF Alive
<1>. QED
  BY <1>6, <1>7, <1>8, <1>9 DEF FilesInv

LEMMA FinishOpenFiles == ASSUME Inv1, Inv1', FilesInv, FinishOpen PROVE FilesInv'
<1>. DEFINE garbage == ObsoleteFiles(AddLiveFiles(version, {}), logNumber, FALSE)
<1>1. /\ db = "recovering" /\ db' = "open" /\ manifests' = {WriteSnapshot} /\ minLog' = logNumber
      /\ tables' = Without(tables, garbage.tables)
      /\ bg' = MaybeScheduleCompaction(bg, None, version, FALSE)
      /\ UNCHANGED <<memtables, imm, logNumber, version, nextFile, lastSequence, bgError, reader>>
  BY DEF FinishOpen
<1>2. bg = BgOff /\ \A r \in Readers : ~reader[r].on /\ reader[r].files = {}
  BY <1>1 DEF Inv1, OnlyWhenOpen, FilesInv, ReadersThere
<1>3. bg'.pc \in {"off", "scheduled"} /\ bg'.inputs = {} /\ bg'.output = 0
  BY <1>1, <1>2 DEF MaybeScheduleCompaction, BgOff
<1>4. /\ FilesOf(version) \subseteq DOMAIN tables /\ \A f \in FilesOf(version) : f < nextFile
      /\ logNumber \in Nat /\ nextFile \in Nat /\ logNumber < nextFile
  BY <1>1 DEF FilesInv, VersionThere, Running, Inv1, MemoryTyped, Numbered
<1>5. garbage.tables = DOMAIN tables \ FilesOf(version)
  BY <1>2 DEF ObsoleteFiles, AddLiveFiles
<1>. HIDE DEF garbage
<1>6. /\ DOMAIN tables' = FilesOf(version)
      /\ \A f \in DOMAIN tables' : tables'[f] = tables[f]
  BY <1>1, <1>4, <1>5 DEF Without
<1>7. /\ FilesOf(WriteSnapshot) = FilesOf(version) /\ WriteSnapshot.log = logNumber
      /\ WriteSnapshot.next = nextFile
      /\ WriteSnapshot.level0 = version.level0 /\ WriteSnapshot.deeper = version.deeper
  BY DEF WriteSnapshot, FilesOf
<1>8. TablesTyped'
  BY <1>1, <1>4, <1>6 DEF FilesInv, TablesTyped, Without
<1>9. ManifestsNumbered' /\ DatabaseOpens'
  BY <1>1, <1>4, <1>6, <1>7 DEF ManifestsNumbered, DatabaseOpens
<1>10. ReplayInv' /\ VersionThere' /\ TablesOld'
  BY <1>1, <1>4, <1>6 DEF ReplayInv, VersionThere, TablesOld
<1>11. SameFiles' /\ WorkInv' /\ CommitInv' /\ DeleteInv'
  BY <1>1, <1>3, <1>7 DEF SameFiles, WorkInv, CommitInv, DeleteInv
<1>12. ReadersThere'
  BY <1>1, <1>2 DEF ReadersThere
<1>. QED
  BY <1>8, <1>9, <1>10, <1>11, <1>12 DEF FilesInv

LEMMA FirstFiles == Init => FilesInv
<1>. SUFFICES ASSUME Init PROVE FilesInv
  OBVIOUS
<1>1. /\ tables = <<>> /\ manifests = {NewDB} /\ db = "closed" /\ bg = BgOff
      /\ reader = [r \in Readers |-> NoRead]
  BY DEF Init
<1>2. TablesTyped
  BY <1>1 DEF TablesTyped
<1>3. ManifestsNumbered /\ DatabaseOpens
  BY <1>1 DEF ManifestsNumbered, DatabaseOpens, NewDB, FilesOf
<1>4. ReplayInv /\ VersionThere /\ SameFiles /\ TablesOld
  BY <1>1 DEF ReplayInv, VersionThere, SameFiles, TablesOld, Running, Alive
<1>5. WorkInv /\ CommitInv /\ DeleteInv /\ ReadersThere
  BY <1>1 DEF WorkInv, CommitInv, DeleteInv, ReadersThere, BgOff, NoRead
<1>. QED
  BY <1>2, <1>3, <1>4, <1>5 DEF FilesInv

LEMMA NextFiles == Inv1 /\ Inv1' /\ FilesInv /\ [Next]_vars => FilesInv'
<1>. SUFFICES ASSUME Inv1, Inv1', FilesInv, [Next]_vars PROVE FilesInv'
  OBVIOUS
<1>1. /\ nextFile \in Nat /\ logNumber \in Nat /\ lastSequence \in Nat
      /\ nextFile <= nextFile /\ logNumber <= logNumber /\ lastSequence <= lastSequence
  BY DEF Inv1, MemoryTyped
<1>2. ASSUME NEW t \in Threads, NEW null \in BOOLEAN, NEW sync \in BOOLEAN, Write(t, null, sync)
      PROVE  FilesInv'
  BY <1>1, <1>2, QuietFiles DEF Write, disk, opening, memory
<1>3. CASE UNCHANGED vars
  BY <1>1, <1>3, QuietFiles DEF vars, disk, opening, memory
<1>4. CASE Close
  BY <1>1, <1>4, QuietFiles DEF Close, disk, memory
<1>5. CASE Closed \/ Kill \/ Outage
  BY <1>5, DownFiles DEF Closed, Kill, Outage, disk
<1>6. ASSUME NEW r \in Readers, StartRead(r) \/ EndRead(r) PROVE FilesInv'
  BY <1>6, StartReadFiles, EndReadFiles
<1>7. ASSUME NEW m \in manifests, Recover(m) PROVE FilesInv'
  BY <1>7, RecoverFiles
<1>8. ASSUME NEW n \in replay.logs,
             RecoverRecord(n) \/ SkipRecord(n) \/ ReadFails(n) \/ RecoverLogFile(n) PROVE FilesInv'
  BY <1>8, RecoverRecordFiles, SkipRecordFiles, ReadFailsFiles, RecoverLogFileFiles
<1>. QED
  BY <1>2, <1>3, <1>4, <1>5, <1>6, <1>7, <1>8, WriterFiles, BackgroundFiles, OpenFiles, FinishOpenFiles
     DEF Next

LEMMA FilesInvHolds == Spec => []FilesInv
BY FirstFiles, NextFiles, Inv1Holds, PTL DEF Spec

(* Whatever the end of the process or of the machine leaves of CURRENT and *)
(* the MANIFEST, every table named there is on the disk: no file is        *)
(* deleted that a version needs which recovery may find.                   *)
THEOREM DatabaseOpensHolds == Spec => []DatabaseOpens
<1>1. FilesInv => DatabaseOpens
  BY DEF FilesInv
<1>. QED
  BY <1>1, FilesInvHolds, PTL

\* What a reader finds stays, if its tables do and if nothing it may see is
\* inserted into its memtables.
LEMMA FoundStays ==
  ASSUME NEW r \in Readers, UNCHANGED reader[r],
         reader[r].files \subseteq DOMAIN tables, reader[r].files \subseteq DOMAIN tables',
         \A f \in reader[r].files : tables'[f] = tables[f],
         \A n \in reader[r].mems : \A e : e.seq <= reader[r].seq =>
           (e \in memtables'[n] <=> e \in memtables[n])
  PROVE  Found(r)' = Found(r)
<1>1. UNCHANGED <<reader[r].mems, reader[r].files, reader[r].seq>>
  OBVIOUS
<1>2. \A e : e.seq <= reader[r].seq =>
         (e \in (UNION {memtables'[n] : n \in reader[r].mems}) <=>
          e \in (UNION {memtables[n] : n \in reader[r].mems}))
  OBVIOUS
<1>3. UNION {tables'[n] : n \in reader[r].files \cap DOMAIN tables'} =
      UNION {tables[n] : n \in reader[r].files \cap DOMAIN tables}
  OBVIOUS
<1>4. Found(r)' = {e \in (UNION {memtables'[n] : n \in reader[r].mems})
                     \cup (UNION {tables'[n] : n \in reader[r].files \cap DOMAIN tables'}) :
                   e.seq <= reader[r].seq}
  BY <1>1 DEF Found, Content
<1>5. Found(r) = {e \in (UNION {memtables[n] : n \in reader[r].mems})
                     \cup (UNION {tables[n] : n \in reader[r].files \cap DOMAIN tables}) :
                  e.seq <= reader[r].seq}
  BY DEF Found, Content
<1>. QED
  BY <1>2, <1>3, <1>4, <1>5

\* A memtable changes only by entries that are newer than all that count.
OnlyNewer ==
  \A n \in DOMAIN memtables :
    (\E r \in Readers : reader'[r].on /\ n \in reader'[r].mems) =>
       /\ n \in DOMAIN memtables'
       /\ memtables[n] \subseteq memtables'[n]
       /\ \A e \in memtables'[n] \ memtables[n] : e.seq \in Nat /\ lastSequence < e.seq

LEMMA SnapshotStays ==
  ASSUME Inv1, FilesInv, ReadersSeeTheirSnapshot, NEW r \in Readers, UNCHANGED reader[r], reader[r].on,
         reader[r].files \subseteq DOMAIN tables',
         \A f \in DOMAIN tables \cap DOMAIN tables' : tables'[f] = tables[f],
         OnlyNewer
  PROVE  Found(r)' = reader'[r].expect
<1>1. /\ reader[r].files \subseteq DOMAIN tables /\ reader[r].mems \subseteq DOMAIN memtables
      /\ reader[r].seq <= lastSequence
  BY DEF FilesInv, ReadersThere
<1>2. reader[r].seq \in Nat /\ lastSequence \in Nat
  BY DEF Inv1, MemoryTyped, ReaderTyped, Read
<1>3. ASSUME NEW n \in reader[r].mems, NEW e, e.seq <= reader[r].seq
      PROVE  e \in memtables'[n] <=> e \in memtables[n]
  <2>1. /\ memtables[n] \subseteq memtables'[n]
        /\ \A x \in memtables'[n] \ memtables[n] : x.seq \in Nat /\ lastSequence < x.seq
    BY <1>1 DEF OnlyNewer
  <2>2. e \notin memtables'[n] \ memtables[n]
    BY <1>1, <1>2, <1>3, <2>1
  <2>. QED
    BY <2>1, <2>2
<1>4. Found(r)' = Found(r)
  BY <1>1, <1>3, FoundStays
<1>. QED
  BY <1>4 DEF ReadersSeeTheirSnapshot

LEMMA SnapshotsStay ==
  ASSUME Inv1, FilesInv, ReadersSeeTheirSnapshot, UNCHANGED reader,
         \A r \in Readers : reader[r].on => reader[r].files \subseteq DOMAIN tables',
         \A f \in DOMAIN tables \cap DOMAIN tables' : tables'[f] = tables[f],
         OnlyNewer
  PROVE  ReadersSeeTheirSnapshot'
BY SnapshotStays DEF ReadersSeeTheirSnapshot

LEMMA NothingNew == UNCHANGED memtables => OnlyNewer
BY DEF OnlyNewer

\* Neither tables nor memtables nor readers change.
LEMMA SnapshotsSame ==
  ASSUME Inv1, FilesInv, ReadersSeeTheirSnapshot, UNCHANGED <<reader, tables, memtables>>
  PROVE  ReadersSeeTheirSnapshot'
BY SnapshotsStay, NothingNew DEF FilesInv, ReadersThere

LEMMA WriterSnapshots ==
  ASSUME Inv1, FilesInv, ReadersSeeTheirSnapshot, NEW t \in Threads, InWrite(t)
  PROVE  ReadersSeeTheirSnapshot'
<1>1. CASE YieldError(t) \/ Delay(t) \/ WaitForBackground(t) \/ NewLogFails(t) \/ FoundRoom(t)
           \/ SyncFails(t)
  BY <1>1, SnapshotsSame DEF YieldError, Delay, WaitForBackground, NewLogFails, FoundRoom, SyncFails,
     disk, memory
<1>2. CASE AddRecord(t) \/ AppendFails(t) \/ Sync(t) \/ FinishWrite(t)
  <2>1. UNCHANGED <<reader, tables, memtables>>
    BY <1>2 DEF AddRecord, AppendFails, Sync, FinishWrite, disk, memory
  <2>. QED
    BY <2>1, SnapshotsSame
<1>3. CASE InsertInto(t)
  <2>1. logNumber \in DOMAIN memtables /\ lastSequence \in Nat
    BY <1>3, InsertFacts DEF Inv1, MemoryTyped
  <2>2. PICK k \in 0..(Len(lead.todo) - 1) :
          /\ Inserted(t) = k
          /\ lead.todo[k + 1] \in Entry /\ lead.todo[k + 1].seq = lastSequence + (k + 1)
    BY <1>3, InsertFacts
  <2>. DEFINE e == lead.todo[k + 1]
  <2>3. memtables' = [memtables EXCEPT ![logNumber] = @ \cup {e}]
    BY <1>3, <2>2 DEF InsertInto
  <2>4. Len(lead.todo) \in Nat
    BY <1>3, InsertFacts
  <2>5. e.seq \in Nat /\ lastSequence < e.seq
    BY <2>1, <2>2, <2>4
  <2>. HIDE DEF e
  <2>6. OnlyNewer
    BY <2>1, <2>3, <2>5 DEF OnlyNewer
  <2>7. UNCHANGED <<reader, tables>>
    BY <1>3 DEF InsertInto, disk
  <2>. QED
    BY <2>6, <2>7, SnapshotsStay DEF FilesInv, ReadersThere
<1>4. CASE SwitchMemTable(t)
  <2>1. memtables' = With(memtables, nextFile, {}) /\ UNCHANGED <<reader, tables>>
    BY <1>4 DEF SwitchMemTable
  <2>2. nextFile \notin DOMAIN memtables
    BY <1>4 DEF SwitchMemTable, InRoom, Inv1, Numbered, Running, MemoryTyped
  <2>3. OnlyNewer
    BY <2>1, <2>2 DEF OnlyNewer, With
  <2>. QED
    BY <2>1, <2>3, SnapshotsStay DEF FilesInv, ReadersThere
<1>. QED
  BY <1>1, <1>2, <1>3, <1>4 DEF InWrite

LEMMA BackgroundSnapshots ==
  ASSUME Inv1, FilesInv, ReadersSeeTheirSnapshot, Background
  PROVE  ReadersSeeTheirSnapshot'
<1>1. CASE UNCHANGED <<reader, tables, memtables>>
  BY <1>1, SnapshotsSame
<1>2. ASSUME NEW f, NEW content, f \notin DOMAIN tables, tables' = With(tables, f, content),
             UNCHANGED <<reader, memtables>>
      PROVE  ReadersSeeTheirSnapshot'
  <2>1. DOMAIN tables \subseteq DOMAIN tables' /\ \A x \in DOMAIN tables : tables'[x] = tables[x]
    BY <1>2 DEF With
  <2>. QED
    BY <1>2, <2>1, SnapshotsStay, NothingNew DEF FilesInv, ReadersThere
<1>3. CASE BuildTable
  <2>1. bg.number \notin DOMAIN tables /\ UNCHANGED <<reader, memtables>>
    BY <1>3 DEF BuildTable, FilesInv, WorkInv, memory
  <2>. QED
    BY <1>1, <1>2, <1>3, <2>1 DEF BuildTable
<1>4. CASE FinishCompactionOutputFile
  BY <1>2, <1>4 DEF FinishCompactionOutputFile, memory
<1>5. CASE Commit
  <2>1. UNCHANGED <<reader, tables>> /\ memtables' = Referenced(memtables, logNumber, imm')
    BY <1>5 DEF Commit
  <2>2. OnlyNewer
    BY <2>1 DEF OnlyNewer, Referenced
  <2>. QED
    BY <2>1, <2>2, SnapshotsStay DEF FilesInv, ReadersThere
<1>6. CASE DeleteFiles
  <2>1. UNCHANGED <<reader, memtables>> /\ tables' = Without(tables, bg.garbage.tables) /\ bg.pc = "delete"
    BY <1>6 DEF DeleteFiles, memory
  <2>2. \A r \in Readers : \A f \in bg.garbage.tables : f \notin reader[r].files
    BY <2>1 DEF FilesInv, DeleteInv
  <2>3. \A r \in Readers : reader[r].on => reader[r].files \subseteq DOMAIN tables'
    BY <2>1, <2>2 DEF FilesInv, ReadersThere, Without
  <2>4. \A f \in DOMAIN tables \cap DOMAIN tables' : tables'[f] = tables[f]
    BY <2>1 DEF Without
  <2>. QED
    BY <2>1, <2>3, <2>4, SnapshotsStay, NothingNew
<1>7. CASE BackgroundCall \/ FlushDuringMerge
  <2>1. UNCHANGED <<reader, tables, memtables>>
    BY <1>7 DEF BackgroundCall, FlushDuringMerge, StartFlush, disk, memory
  <2>. QED
    BY <1>1, <2>1
<1>8. CASE BuildTableFails \/ FlushBuilt \/ OpenCompactionOutputFile \/ InstallCompactionResults
           \/ MergeFails \/ CommitFails \/ EndOfBackgroundCall
  <2>1. UNCHANGED <<reader, tables, memtables>>
    BY <1>8 DEF BuildTableFails, FlushBuilt, OpenCompactionOutputFile, InstallCompactionResults,
       MergeFails, CommitFails, EndOfBackgroundCall, disk, memory
  <2>. QED
    BY <1>1, <2>1
<1>. QED
  BY <1>3, <1>4, <1>5, <1>6, <1>7, <1>8 DEF Background

LEMMA NextSnapshots ==
  Inv1 /\ FilesInv /\ FilesInv' /\ ReadersSeeTheirSnapshot /\ [Next]_vars => ReadersSeeTheirSnapshot'
<1>. SUFFICES ASSUME Inv1, FilesInv, FilesInv', ReadersSeeTheirSnapshot, [Next]_vars
              PROVE  ReadersSeeTheirSnapshot'
  OBVIOUS
<1>1. DOMAIN reader = Readers
  BY DEF Inv1, ReaderTyped
<1>2. ASSUME NEW t \in Threads, NEW null \in BOOLEAN, NEW sync \in BOOLEAN, Write(t, null, sync)
      PROVE  ReadersSeeTheirSnapshot'
  BY <1>2, SnapshotsSame DEF Write, disk, memory
<1>3. CASE UNCHANGED vars \/ Close
  <2>1. UNCHANGED <<reader, tables, memtables>>
    BY <1>3 DEF vars, Close, disk, memory
  <2>. QED
    BY <2>1, SnapshotsSame
<1>4. CASE Closed \/ Kill \/ Outage
  <2>1. \A r \in Readers : reader'[r].on = FALSE
    BY <1>4 DEF Closed, Kill, Outage, Down, NoRead
  <2>. QED
    BY <2>1 DEF ReadersSeeTheirSnapshot
<1>5. ASSUME NEW r \in Readers, StartRead(r) PROVE ReadersSeeTheirSnapshot'
  <2>1. /\ UNCHANGED <<tables, memtables, logNumber, imm, version, lastSequence>>
        /\ reader' = [reader EXCEPT ![r] =
             [on |-> TRUE, seq |-> lastSequence, mems |-> InMemory, files |-> FilesOf(version),
              expect |-> Stored(lastSequence)]]
    BY <1>5 DEF StartRead, disk, memory
  <2>2. /\ reader'[r].seq = lastSequence /\ reader'[r].mems = InMemory
        /\ reader'[r].files = FilesOf(version) /\ reader'[r].expect = Stored(lastSequence)
        /\ \A x \in Readers : x # r => reader'[x] = reader[x]
    BY <1>1, <2>1
  <2>3. Found(r)' = reader'[r].expect
    BY <2>1, <2>2 DEF Found, Stored, Content
  <2>4. ASSUME NEW x \in Readers, x # r, reader'[x].on PROVE Found(x)' = reader'[x].expect
    <3>1. UNCHANGED reader[x] /\ reader[x].on
      BY <2>2, <2>4
    <3>2. reader[x].files \subseteq DOMAIN tables'
      BY <2>1, <3>1 DEF FilesInv, ReadersThere
    <3>. QED
      BY <2>1, <3>1, <3>2, SnapshotStays, NothingNew
  <2>. QED
    BY <2>3, <2>4 DEF ReadersSeeTheirSnapshot
<1>6. ASSUME NEW r \in Readers, EndRead(r) PROVE ReadersSeeTheirSnapshot'
  <2>1. /\ UNCHANGED tables /\ reader' = [reader EXCEPT ![r] = NoRead]
        /\ memtables' = [n \in DOMAIN memtables \cap
             (InMemory \cup UNION {reader[x].mems : x \in Readers \ {r}}) |-> memtables[n]]
    BY <1>6 DEF EndRead, disk
  <2>2. reader'[r].on = FALSE /\ \A x \in Readers : x # r => reader'[x] = reader[x]
    BY <1>1, <2>1 DEF NoRead
  <2>3. OnlyNewer
    BY <2>1, <2>2 DEF OnlyNewer
  <2>4. ASSUME NEW x \in Readers, x # r, reader'[x].on PROVE Found(x)' = reader'[x].expect
    <3>1. UNCHANGED reader[x] /\ reader[x].on
      BY <2>2, <2>4
    <3>2. reader[x].files \subseteq DOMAIN tables'
      BY <2>1, <3>1 DEF FilesInv, ReadersThere
    <3>. QED
      BY <2>1, <2>3, <3>1, <3>2, SnapshotStays
  <2>. QED
    BY <2>2, <2>4 DEF ReadersSeeTheirSnapshot
<1>7. CASE db # "open" /\ UNCHANGED reader
  <2>1. \A r \in Readers : ~reader'[r].on
    BY <1>7 DEF Inv1, OnlyWhenOpen
  <2>. QED
    BY <2>1 DEF ReadersSeeTheirSnapshot
<1>8. ASSUME NEW m \in manifests, Recover(m) PROVE ReadersSeeTheirSnapshot'
  BY <1>7, <1>8 DEF Recover
<1>9. ASSUME NEW n \in replay.logs,
             RecoverRecord(n) \/ SkipRecord(n) \/ ReadFails(n) \/ RecoverLogFile(n)
      PROVE  ReadersSeeTheirSnapshot'
  BY <1>7, <1>9 DEF RecoverRecord, SkipRecord, ReadFails, RecoverLogFile, Replaying, UnchangedInRecovery
<1>10. CASE Open \/ FinishOpen
  BY <1>7, <1>10 DEF Open, FinishOpen
<1>. QED
  BY <1>2, <1>3, <1>4, <1>5, <1>6, <1>8, <1>9, <1>10, WriterSnapshots, BackgroundSnapshots DEF Next

(* What a reader has captured goes on holding what was stored when it      *)
(* began: later entries have later sequence numbers, memtables it refers   *)
(* to are kept, tables are written under new numbers and none of its files *)
(* is deleted.                                                             *)
THEOREM ReadersSeeTheirSnapshotHolds == Spec => []ReadersSeeTheirSnapshot
<1>1. Init => ReadersSeeTheirSnapshot
  BY DEF Init, NoRead, ReadersSeeTheirSnapshot
<1>. QED
  BY <1>1, NextSnapshots, Inv1Holds, FilesInvHolds, PTL DEF Spec

----------------------------------------------------------------------------
(* What was promised is stored.                                            *)
\* The batch b is in S, in some of the files, in the log n (its synced part for sync).
Has(S, b) == \E e \in S : e.batch = b
InFiles(files, b) == \E f \in files \cap DOMAIN tables : Has(tables[f], b)
InLog(n, b, sync) ==
  /\ n \in DOMAIN logs
  /\ \E i \in 1..(IF sync THEN logs[n].synced ELSE Len(logs[n].records)) :
       Has(RecordEntries(logs[n].records[i]), b)
\* The same where recovery reads it: not behind a record that could not be appended.
Readable(n, b, sync) ==
  /\ n \in DOMAIN logs
  /\ \E i \in 1..(IF sync THEN logs[n].synced ELSE Len(logs[n].records)) :
       Has(RecordEntries(logs[n].records[i]), b) /\ ~BehindHole(n, i)
\* on the disk, for what a MANIFEST says
Safe(m, b, sync) ==
  InFiles(FilesOf(m), b) \/ \E n \in DOMAIN logs : m.log <= n /\ Readable(n, b, sync)
\* the same while the process runs: also in memory
LiveLog(n, b, sync) == InLog(n, b, sync) /\ Has(memtables[n], b)
Kept(m, b, sync) ==
  \/ InFiles(FilesOf(m), b) \/ LiveLog(logNumber, b, sync)
  \/ imm # 0 /\ m.log <= imm /\ LiveLog(imm, b, sync)
Live(b) ==
  \/ InFiles(FilesOf(version), b) \/ Has(memtables[logNumber] \ Fresh, b)
  \/ imm # 0 /\ Has(memtables[imm], b)
\* Entries in tables are not newer than what the MANIFEST says and the process counts.
TablesSequenced ==
  /\ \A m \in manifests : \A f \in FilesOf(m) : \A e \in tables[f] : e.seq <= m.last
  /\ Alive => \A f \in DOMAIN tables : \A e \in tables[f] : e.seq <= lastSequence
  /\ db = "recovering" => \A f \in FilesOf(version) : \A e \in tables[f] : e.seq <= lastSequence
  /\ db = "replaying" => /\ \A f \in FilesOf(version) \cup replay.added :
                              \A e \in tables[f] : e.seq <= lastSequence
                         /\ \A e \in replay.mem : e.seq <= lastSequence
\* The log of mem_ is the newest; a MANIFEST that was read names no newer one; logs
\* that will be deleted are older than the memtables'.
LogsThere ==
  /\ Running => logNumber \in DOMAIN logs /\ \A n \in DOMAIN logs : n <= logNumber
  /\ db = "replaying" =>
       /\ \A n \in DOMAIN logs : n < nextFile \/ n \in replay.logs
       /\ replay.read = 0 => replay.mem = {}
       /\ replay.logs = {} => replay.read = 0
       /\ replay.from \in manifests
  /\ Alive => /\ \A m \in manifests : m.log <= logNumber
              /\ imm # 0 => minLog <= imm
  /\ bg.pc = "delete" => \A n \in bg.garbage.logs : n < minLog
\* what the background thread has written
Flushed ==
  /\ 0 \notin DOMAIN tables
  /\ bg.pc \in {"off", "scheduled"} => bg.output = 0
  /\ bg.pc = "build" => bg.number \notin {0, bg.output}
  /\ bg.output \in DOMAIN tables => \A n \in bg.inputs : tables[n] \subseteq tables[bg.output]
  /\ bg.pc = "built" /\ memtables[imm] # {} =>
       bg.number \in DOMAIN tables /\ tables[bg.number] = memtables[imm]
  /\ bg.pc = "commit" /\ bg.what = "flush" =>
       /\ bg.edit.log = logNumber /\ bg.edit.deleted = {}
       /\ \A e \in memtables[imm] : \E f \in bg.edit.added0 : e \in tables[f]
  /\ bg.pc = "commit" /\ bg.what = "merge" =>
       /\ bg.edit.log = minLog /\ bg.edit.deleted = bg.inputs
       /\ \A n \in bg.inputs : \A e \in tables[n] : \E f \in bg.edit.addedDeeper : e \in tables[f]
\* The replay has found b, or will find it in a log that is not read yet.
Replayed(b) ==
  \/ InFiles(FilesOf(version) \cup replay.added, b) \/ Has(replay.mem, b)
  \/ \E n \in replay.logs : \E i \in 1..Len(logs[n].records) :
       /\ Has(RecordEntries(logs[n].records[i]), b) /\ ~BehindHole(n, i)
       /\ replay.read < i \/ \E o \in replay.logs : o < n
\* The group's record is the last one of the log, and synced if the leader asked for it;
\* or it could not be appended.
Written(t) ==
  /\ 0 < Len(logs[logNumber].records)
  /\ \/ logs[logNumber].records[Len(logs[logNumber].records)] = lead.todo
     \/ lead.failed /\ logs[logNumber].records[Len(logs[logNumber].records)] = Hole
  /\ thread[t].pc # "sync" /\ thread[t].sync /\ ~lead.failed =>
       logs[logNumber].synced = Len(logs[logNumber].records)
WrittenInv == \A t \in Threads : thread[t].pc \in {"sync", "insert", "finish"} => Written(t)
\* where the batch b is, reported written with or without sync
Promise(b, sync) ==
  /\ Alive => Live(b) /\ \A m \in manifests : Kept(m, b, sync)
  /\ ~Alive => \A m \in manifests : Safe(m, b, sync)
  /\ db = "replaying" => Replayed(b)
  /\ db = "recovering" => InFiles(FilesOf(version), b)
PromisedInv == \A p \in promised : Promise(p[1], p[2])
DataInv == TablesSequenced /\ LogsThere /\ Flushed

\* The files a MANIFEST or the version names have entries, all of them typed.
LEMMA NamedTables ==
  ASSUME Inv1, FilesInv
  PROVE  /\ \A f \in DOMAIN tables : \A e \in tables[f] : e.seq \in Nat
         /\ \A m \in manifests : \A f \in FilesOf(m) : f \in DOMAIN tables /\ f \in Nat /\ f < m.next
         /\ \A m \in manifests : m.next \in Nat /\ m.last \in Nat /\ m.log \in Nat
         /\ \A n \in DOMAIN memtables : n \in Nat /\ memtables[n] \subseteq Entry
                                        /\ \A e \in memtables[n] : e.seq \in Nat
         /\ lastSequence \in Nat /\ nextFile \in Nat /\ logNumber \in Nat /\ imm \in Nat /\ minLog \in Nat
<1>1. \A f \in DOMAIN tables : \A e \in tables[f] : e.seq \in Nat
  BY DEF FilesInv, TablesTyped, Entry
<1>2. \A m \in manifests : \A f \in FilesOf(m) : f \in DOMAIN tables /\ f \in Nat /\ f < m.next
  BY DEF FilesInv, DatabaseOpens, ManifestsNumbered, Inv1, LogsTyped
<1>3. \A m \in manifests : m.next \in Nat /\ m.last \in Nat /\ m.log \in Nat
  BY DEF Inv1, OpeningTyped, Manifest
<1>4. \A n \in DOMAIN memtables : n \in Nat /\ memtables[n] \subseteq Entry
                                  /\ \A e \in memtables[n] : e.seq \in Nat
  BY DEF Inv1, MemoryTyped, Entry
<1>. QED
  BY <1>1, <1>2, <1>3, <1>4 DEF Inv1, MemoryTyped

\* A step that neither writes files of tables nor moves the background thread.
LEMMA DataQuiet ==
  ASSUME Inv1, Inv1', FilesInv, DataInv,
         UNCHANGED <<tables, manifests, replay, version, minLog, imm, logNumber, nextFile, bg>>,
         db' = db \/ (db = "open" /\ db' = "closing"), DOMAIN logs' = DOMAIN logs,
         db = "replaying" => UNCHANGED lastSequence, lastSequence <= lastSequence',
         Alive /\ imm # 0 => memtables'[imm] = memtables[imm]
  PROVE  DataInv'
<1>1. /\ \A f \in DOMAIN tables : \A e \in tables[f] : e.seq \in Nat
      /\ lastSequence \in Nat
      /\ \A m \in manifests : \A f \in FilesOf(m) : f \in DOMAIN tables
  BY NamedTables
<1>2. lastSequence' \in Nat
  BY DEF Inv1, MemoryTyped
<1>3. TablesSequenced'
  <2>1. Alive' => \A f \in DOMAIN tables : \A e \in tables[f] : e.seq <= lastSequence'
    BY <1>1, <1>2 DEF DataInv, TablesSequenced, Alive
  <2>2. db = "recovering" => FilesOf(version) \subseteq DOMAIN tables
    BY DEF FilesInv, VersionThere, Running
  <2>3. db = "recovering" => \A f \in FilesOf(version) : \A e \in tables[f] : e.seq <= lastSequence'
    BY <1>1, <1>2, <2>2 DEF DataInv, TablesSequenced
  <2>. QED
    BY <2>1, <2>3 DEF DataInv, TablesSequenced
<1>4. LogsThere'
  BY DEF DataInv, LogsThere, Running, Alive
<1>5. Flushed'
  <2>1. bg.pc \in {"built", "commit"} => Alive
    BY WorkFacts
  <2>2. bg.pc = "built" \/ (bg.pc = "commit" /\ bg.what = "flush") => imm # 0
    BY DEF FilesInv, WorkInv
  <2>. QED
    BY <2>1, <2>2 DEF DataInv, Flushed
<1>. QED
  BY <1>3, <1>4, <1>5 DEF DataInv

LEMMA SwitchMemTableData ==
  ASSUME Inv1, Inv1', FilesInv, DataInv, NEW t \in Threads, SwitchMemTable(t) PROVE DataInv'
<1>1. /\ UNCHANGED <<tables, manifests, db, replay, version, minLog, lastSequence>>
      /\ logNumber' = nextFile /\ imm' = logNumber /\ nextFile' = nextFile + 1
      /\ logs' = With(logs, nextFile, [records |-> <<>>, synced |-> 0])
      /\ bg' = MaybeScheduleCompaction(bg, logNumber, version, bgError)
      /\ imm = 0 /\ db = "open"
  BY DEF SwitchMemTable, opening, InRoom, None
<1>2. /\ logNumber < nextFile /\ logNumber \in Nat /\ nextFile \in Nat /\ minLog \in Nat /\ minLog <= logNumber
  BY <1>1 DEF Inv1, Numbered, Running, MemoryTyped, FilesInv, VersionThere
<1>3. bg' = bg \/ (bg.pc = "off" /\ bg' = [bg EXCEPT !.pc = "scheduled"])
  BY <1>1 DEF MaybeScheduleCompaction
<1>4. /\ bg'.pc = bg.pc \/ (bg.pc = "off" /\ bg'.pc = "scheduled")
      /\ bg'.inputs = bg.inputs /\ bg'.output = bg.output /\ bg'.number = bg.number /\ bg'.edit = bg.edit
      /\ bg'.what = bg.what /\ bg'.garbage = bg.garbage
  BY <1>3 DEF Inv1, BgTyped
<1>5. bg.pc # "built" /\ ~(bg.pc = "commit" /\ bg.what = "flush")
  BY <1>1 DEF FilesInv, WorkInv
<1>6. TablesSequenced'
  BY <1>1 DEF DataInv, TablesSequenced, Alive
<1>7. LogsThere'
  <2>1. DOMAIN logs' = DOMAIN logs \cup {nextFile}
    BY <1>1 DEF With
  <2>2. \A n \in DOMAIN logs : n <= logNumber /\ n \in Nat
    BY <1>1 DEF DataInv, LogsThere, Running, Inv1, LogsTyped
  <2>3. \A m \in manifests : m.log <= logNumber /\ m.log \in Nat
    BY <1>1, NamedTables DEF DataInv, LogsThere, Alive
  <2>4. logNumber' \in DOMAIN logs' /\ \A n \in DOMAIN logs' : n <= logNumber'
    BY <1>1, <1>2, <2>1, <2>2
  <2>5. \A m \in manifests' : m.log <= logNumber'
    BY <1>1, <1>2, <2>3
  <2>6. bg'.pc = "delete" => \A n \in bg'.garbage.logs : n < minLog'
    BY <1>1, <1>4 DEF DataInv, LogsThere
  <2>. QED
    BY <1>1, <1>2, <2>4, <2>5, <2>6 DEF LogsThere
<1>8. Flushed'
  BY <1>1, <1>4, <1>5 DEF DataInv, Flushed
<1>. QED
  BY <1>6, <1>7, <1>8 DEF DataInv

LEMMA WriterData ==
  ASSUME Inv1, Inv1', FilesInv, DataInv, NEW t \in Threads, InWrite(t) PROVE DataInv'
<1>1. lastSequence \in Nat /\ lastSequence <= lastSequence
  BY DEF Inv1, MemoryTyped
<1>2. CASE YieldError(t) \/ Delay(t) \/ WaitForBackground(t) \/ NewLogFails(t) \/ FoundRoom(t)
           \/ SyncFails(t)
  BY <1>1, <1>2, DataQuiet DEF YieldError, Delay, WaitForBackground, NewLogFails, FoundRoom, SyncFails,
     disk, opening, memory
<1>3. CASE AddRecord(t) \/ AppendFails(t) \/ Sync(t)
  <2>1. UNCHANGED <<tables, manifests, opening, memory, bg>> /\ DOMAIN logs' = DOMAIN logs
    BY <1>3 DEF AddRecord, AppendFails, Sync
  <2>. QED
    BY <1>1, <2>1, DataQuiet DEF opening, memory
<1>4. CASE InsertInto(t)
  <2>1. /\ UNCHANGED <<disk, opening, imm, logNumber, version, minLog, nextFile, lastSequence, bg>>
        /\ \A n : n # logNumber /\ n \in DOMAIN memtables => memtables'[n] = memtables[n]
    BY <1>4 DEF InsertInto
  <2>2. imm # 0 /\ Alive => imm # logNumber /\ imm \in DOMAIN memtables
    BY DEF Inv1, Numbered, Running, MemoryTyped, Alive
  <2>. QED
    BY <1>1, <2>1, <2>2, DataQuiet DEF disk, opening
<1>5. CASE FinishWrite(t)
  <2>1. lastSequence <= lastSequence' /\ db = "open"
    <3>1. lastSequence' = lastSequence + Len(lead.todo) /\ Len(lead.todo) \in Nat /\ db = "open"
      BY <1>5, FinishFacts
    <3>. QED
      BY <1>1, <3>1
  <2>2. UNCHANGED <<disk, opening, memtables, imm, logNumber, version, minLog, nextFile, bg>>
    BY <1>5 DEF FinishWrite
  <2>. QED
    BY <2>1, <2>2, DataQuiet DEF disk, opening
<1>. QED
  BY <1>2, <1>3, <1>4, <1>5, SwitchMemTableData DEF InWrite

\* The background thread decides or gives up; no file is written.
LEMMA DataWork ==
  ASSUME Inv1, Inv1', FilesInv, DataInv, bg.pc # "off",
         UNCHANGED <<disk, opening, memtables, imm, logNumber, version, minLog, lastSequence>>,
         bg'.pc \notin {"built", "commit", "delete"},
         bg'.pc \in {"off", "scheduled"} => bg'.output = 0,
         bg'.pc = "build" => bg'.number \notin {0, bg'.output},
         bg'.output \in DOMAIN tables => \A n \in bg'.inputs : tables[n] \subseteq tables[bg'.output]
  PROVE  DataInv'
<1>1. Alive /\ Alive'
  BY WorkFacts DEF Alive, opening
<1>2. TablesSequenced'
  BY <1>1 DEF DataInv, TablesSequenced, Alive, disk, opening
<1>3. LogsThere'
  BY <1>1 DEF DataInv, LogsThere, Alive, Running, disk, opening
<1>4. Flushed'
  BY DEF DataInv, Flushed, disk
<1>. QED
  BY <1>2, <1>3, <1>4 DEF DataInv

\* No table has a number that is not used yet.
LEMMA FreshNumber ==
  ASSUME Inv1, FilesInv, bg.pc # "off"
  PROVE  nextFile \notin DOMAIN tables /\ bg.output # nextFile /\ nextFile # 0 /\ bg.number \in Nat
<1>1. /\ nextFile \in Nat /\ \A f \in DOMAIN tables : f < nextFile
      /\ logNumber \in Nat /\ logNumber < nextFile /\ (bg.output < nextFile \/ bg.output = 0)
      /\ bg.number \in Nat /\ bg.output \in Nat
  BY WorkFacts
<1>2. nextFile # 0
  BY <1>1
<1>3. nextFile \notin DOMAIN tables
  BY <1>1
<1>. QED
  BY <1>1, <1>2, <1>3

LEMMA StartFlushData ==
  ASSUME Inv1, Inv1', FilesInv, DataInv, StartFlush, bg.pc # "off", UNCHANGED <<disk, opening>>
  PROVE  DataInv'
<1>1. /\ bg'.pc = "build" /\ bg'.number = nextFile /\ bg'.inputs = bg.inputs /\ bg'.output = bg.output
  BY DEF StartFlush, Inv1, BgTyped
<1>2. bg.output # nextFile /\ nextFile # 0
  BY FreshNumber
<1>3. bg.output \in DOMAIN tables => \A n \in bg.inputs : tables[n] \subseteq tables[bg.output]
  BY DEF DataInv, Flushed
<1>. QED
  BY <1>1, <1>2, <1>3, DataWork DEF StartFlush

LEMMA DecisionData ==
  ASSUME Inv1, Inv1', FilesInv, DataInv,
         BackgroundCall \/ FlushDuringMerge \/ OpenCompactionOutputFile \/ BuildTableFails
           \/ EndOfBackgroundCall
  PROVE  DataInv'
<1>1. bg.output \in DOMAIN tables => \A n \in bg.inputs : tables[n] \subseteq tables[bg.output]
  BY DEF DataInv, Flushed
<1>2. CASE BackgroundCall
  <2>1. bg.pc = "scheduled" /\ UNCHANGED <<disk, opening>> /\ bg.output = 0 /\ 0 \notin DOMAIN tables
    BY <1>2 DEF BackgroundCall, DataInv, Flushed
  <2>2. CASE StartFlush
    BY <2>1, <2>2, StartFlushData
  <2>3. CASE bg' = [bg EXCEPT !.pc = "end"] /\ UNCHANGED memory
    <3>1. bg'.pc = "end" /\ bg'.output = 0
      BY <2>1, <2>3 DEF Inv1, BgTyped
    <3>. QED
      BY <2>1, <2>3, <3>1, DataWork DEF memory
  <2>4. CASE bg' = [bg EXCEPT !.pc = "merge", !.merging = TRUE, !.inputs = version.level0]
             /\ UNCHANGED memory
    <3>1. bg'.pc = "merge" /\ bg'.output = 0
      BY <2>1, <2>4 DEF Inv1, BgTyped
    <3>. QED
      BY <2>1, <2>4, <3>1, DataWork DEF memory
  <2>. QED
    BY <1>2, <2>2, <2>3, <2>4 DEF BackgroundCall
<1>3. CASE FlushDuringMerge
  BY <1>3, StartFlushData DEF FlushDuringMerge
<1>4. CASE OpenCompactionOutputFile
  <2>1. /\ bg.pc = "merge" /\ bg'.pc = "merge" /\ bg'.output = nextFile
        /\ UNCHANGED <<disk, opening, memtables, imm, logNumber, version, minLog, lastSequence>>
    BY <1>4 DEF OpenCompactionOutputFile, Inv1, BgTyped
  <2>2. nextFile \notin DOMAIN tables
    BY <2>1, FreshNumber
  <2>. QED
    BY <2>1, <2>2, DataWork
<1>5. CASE BuildTableFails
  <2>1. /\ bg.pc = "build" /\ bg'.pc = "failed" /\ bg'.output = bg.output /\ bg'.inputs = bg.inputs
        /\ UNCHANGED <<disk, opening, memory>>
    BY <1>5 DEF BuildTableFails, Inv1, BgTyped
  <2>. QED
    BY <1>1, <2>1, DataWork DEF memory
<1>6. CASE EndOfBackgroundCall
  <2>1. bg.pc = "end" /\ UNCHANGED <<disk, opening, memory>>
    BY <1>6 DEF EndOfBackgroundCall
  <2>2. CASE bg' = [bg EXCEPT !.pc = "merge"]
    <3>1. bg'.pc = "merge" /\ bg'.output = bg.output /\ bg'.inputs = bg.inputs
      BY <2>2 DEF Inv1, BgTyped
    <3>. QED
      BY <1>1, <2>1, <3>1, DataWork DEF memory
  <2>3. CASE bg' = MaybeScheduleCompaction(BgOff, imm, version, bgError)
    <3>1. bg'.pc \in {"off", "scheduled"} /\ bg'.output = 0 /\ bg'.inputs = {}
      BY <2>3 DEF MaybeScheduleCompaction, BgOff
    <3>. QED
      BY <2>1, <3>1, DataWork DEF memory
  <2>. QED
    BY <1>6, <2>2, <2>3 DEF EndOfBackgroundCall
<1>. QED
  BY <1>2, <1>3, <1>4, <1>5, <1>6

\* A table is written.
LEMMA NewTableData ==
  ASSUME Inv1, Inv1', FilesInv, DataInv, bg.pc \in {"build", "merge"}, NEW f, NEW content,
         f \notin DOMAIN tables, f # 0, tables' = With(tables, f, content),
         \A e \in content : e.seq <= lastSequence,
         UNCHANGED <<logs, manifests, opening, memory>>,
         f = bg.output => \A n \in bg.inputs : tables[n] \subseteq content,
         \/ bg' = bg
         \/ bg' = [bg EXCEPT !.pc = "built"] /\ f = bg.number /\ content = memtables[imm]
  PROVE  DataInv'
<1>1. /\ DOMAIN tables' = DOMAIN tables \cup {f} /\ tables'[f] = content
      /\ \A x \in DOMAIN tables : tables'[x] = tables[x]
  BY DEF With
<1>2. /\ bg'.pc \in {bg.pc, "built"} /\ bg'.output = bg.output /\ bg'.inputs = bg.inputs
      /\ bg'.number = bg.number /\ (bg'.pc = "built" => f = bg.number /\ content = memtables[imm])
  BY DEF Inv1, BgTyped
<1>3. /\ Alive /\ bg.inputs \subseteq DOMAIN tables
      /\ \A m \in manifests : \A x \in FilesOf(m) : x \in DOMAIN tables
  BY WorkFacts, NamedTables
<1>4. TablesSequenced'
  BY <1>1, <1>3 DEF DataInv, TablesSequenced, Alive, opening, memory
<1>5. LogsThere'
  BY <1>2, <1>3 DEF DataInv, LogsThere, Alive, Running, opening, memory
<1>6. Flushed'
  <2>1. bg'.output \in DOMAIN tables' => \A n \in bg'.inputs : tables'[n] \subseteq tables'[bg'.output]
    <3>1. CASE bg.output = f
      BY <1>1, <1>2, <1>3, <3>1
    <3>2. CASE bg.output # f
      BY <1>1, <1>2, <1>3, <3>2 DEF DataInv, Flushed
    <3>. QED
      BY <3>1, <3>2
  <2>2. bg'.pc = "build" => bg'.number \notin {0, bg'.output}
    BY <1>2 DEF DataInv, Flushed
  <2>. QED
    BY <1>1, <1>2, <2>1, <2>2 DEF DataInv, Flushed, memory
<1>. QED
  BY <1>4, <1>5, <1>6 DEF DataInv

LEMMA TablesData ==
  ASSUME Inv1, Inv1', FilesInv, DataInv, BuildTable \/ FinishCompactionOutputFile PROVE DataInv'
<1>1. CASE BuildTable
  <2>1. /\ bg.pc = "build" /\ bg' = [bg EXCEPT !.pc = "built"]
        /\ UNCHANGED <<logs, manifests, opening, memory>>
    BY <1>1 DEF BuildTable
  <2>2. /\ bg.number \notin DOMAIN tables /\ bg.number < nextFile /\ imm # 0 /\ bg.number \notin {0, bg.output}
        /\ Alive /\ Running
    BY <2>1, WorkFacts DEF FilesInv, WorkInv, DataInv, Flushed
  <2>3. CASE memtables[imm] = {}
    <3>1. tables' = tables
      BY <1>1, <2>3 DEF BuildTable
    <3>2. /\ bg'.pc = "built" /\ bg'.output = bg.output /\ bg'.inputs = bg.inputs
      BY <2>1 DEF Inv1, BgTyped
    <3>3. TablesSequenced' /\ LogsThere'
      BY <2>1, <2>2, <3>1, <3>2 DEF DataInv, TablesSequenced, LogsThere, Alive, Running, opening, memory
    <3>4. Flushed'
      BY <2>1, <2>3, <3>1, <3>2 DEF DataInv, Flushed, memory
    <3>. QED
      BY <3>3, <3>4 DEF DataInv
  <2>4. CASE memtables[imm] # {}
    <3>1. tables' = With(tables, bg.number, memtables[imm])
      BY <1>1, <2>4 DEF BuildTable
    <3>2. imm \in DOMAIN memtables \ {logNumber}
      BY <2>2 DEF Inv1, Numbered, MemoryTyped
    <3>3. \A e \in memtables[imm] : e.seq <= lastSequence
      BY <2>2, <3>2 DEF Inv1, Sequenced
    <3>. QED
      BY <2>1, <2>2, <3>1, <3>3, NewTableData
  <2>. QED
    BY <2>3, <2>4
<1>2. CASE FinishCompactionOutputFile
  <2>. DEFINE content == UNION {tables[n] : n \in bg.inputs}
  <2>1. /\ bg.pc = "merge" /\ bg.output # 0 /\ bg.output \notin DOMAIN tables /\ bg' = bg
        /\ tables' = With(tables, bg.output, content)
        /\ UNCHANGED <<logs, manifests, opening, memory>>
    BY <1>2 DEF FinishCompactionOutputFile
  <2>2. bg.inputs \subseteq DOMAIN tables /\ Alive
    BY <2>1, WorkFacts
  <2>3. \A e \in content : e.seq <= lastSequence
    BY <2>2 DEF DataInv, TablesSequenced
  <2>4. \A n \in bg.inputs : tables[n] \subseteq content
    OBVIOUS
  <2>. HIDE DEF content
  <2>. QED
    BY <2>1, <2>3, <2>4, NewTableData
<1>. QED
  BY <1>1, <1>2

\* An error ends the work.
LEMMA ErrorData ==
  ASSUME Inv1, Inv1', FilesInv, DataInv,
         MergeFails \/ CommitFails \/ (FlushBuilt /\ bg'.pc # "commit")
           \/ (InstallCompactionResults /\ bg'.pc # "commit")
  PROVE  DataInv'
<1>1. /\ bg.pc # "off" /\ UNCHANGED <<logs, tables, opening, memtables, imm, logNumber, version, minLog,
                                      lastSequence>>
  BY DEF MergeFails, CommitFails, FlushBuilt, InstallCompactionResults, disk
<1>2. (RecordBackgroundError \/ CleanupCompaction) /\ UNCHANGED manifests
  BY DEF MergeFails, CommitFails, FlushBuilt, InstallCompactionResults, disk, StartCommit, Inv1, BgTyped
<1>3. /\ bg'.pc = "end" /\ bg'.output = bg.output /\ bg'.inputs \subseteq bg.inputs
  BY <1>2 DEF RecordBackgroundError, CleanupCompaction, Inv1, BgTyped
<1>4. bg.output \in DOMAIN tables => \A n \in bg.inputs : tables[n] \subseteq tables[bg.output]
  BY DEF DataInv, Flushed
<1>. QED
  BY <1>1, <1>2, <1>3, <1>4, DataWork DEF disk

\* What the table of a flush or of a merge holds when its edit is written.
Covers(what, edit) ==
  /\ what = "flush" => /\ edit.log = logNumber /\ edit.deleted = {}
                       /\ \A e \in memtables[imm] : \E f \in edit.added0 : e \in tables[f]
  /\ what = "merge" => /\ edit.log = minLog /\ edit.deleted = bg.inputs
                       /\ \A n \in bg.inputs : \A e \in tables[n] :
                            \E f \in edit.addedDeeper : e \in tables[f]

\* The edit of a flush or of a merge.
LEMMA EditFacts ==
  ASSUME Inv1, FilesInv, DataInv, NEW what, NEW edit,
         \/ /\ FlushBuilt /\ what = "flush"
            /\ edit = [added0 |-> {bg.number} \cap DOMAIN tables, addedDeeper |-> {}, deleted |-> {},
                       log |-> logNumber, next |-> nextFile, last |-> lastSequence]
            /\ bg.pc = "built"
         \/ /\ InstallCompactionResults /\ what = "merge" /\ db # "closing"
            /\ edit = [added0 |-> {}, addedDeeper |-> {bg.output}, deleted |-> bg.inputs,
                       log |-> minLog, next |-> nextFile, last |-> lastSequence]
  PROVE  /\ edit \in Edit /\ Covers(what, edit) /\ edit.last = lastSequence
         /\ edit.added0 \cup edit.addedDeeper \subseteq DOMAIN tables
         /\ what \in {"flush", "merge"} /\ edit.log <= logNumber
<1>1. CASE /\ FlushBuilt /\ what = "flush" /\ bg.pc = "built"
           /\ edit = [added0 |-> {bg.number} \cap DOMAIN tables, addedDeeper |-> {}, deleted |-> {},
                       log |-> logNumber, next |-> nextFile, last |-> lastSequence]
  <2>1. edit \in Edit /\ edit.log <= logNumber
    BY <1>1 DEF Inv1, BgTyped, MemoryTyped, Edit
  <2>2. \A e \in memtables[imm] : \E f \in edit.added0 : e \in tables[f]
    BY <1>1 DEF DataInv, Flushed
  <2>. QED
    BY <1>1, <2>1, <2>2 DEF Covers
<1>2. CASE /\ InstallCompactionResults /\ what = "merge" /\ db # "closing"
           /\ edit = [added0 |-> {}, addedDeeper |-> {bg.output}, deleted |-> bg.inputs,
                       log |-> minLog, next |-> nextFile, last |-> lastSequence]
  <2>1. edit \in Edit
    BY <1>2 DEF Inv1, BgTyped, MemoryTyped, Edit
  <2>2. bg.output \in DOMAIN tables /\ bg.pc = "merge"
    BY <1>2 DEF InstallCompactionResults
  <2>3. minLog <= logNumber
    BY <2>2, WorkFacts
  <2>4. \A n \in bg.inputs : tables[n] \subseteq tables[bg.output]
    BY <2>2 DEF DataInv, Flushed
  <2>5. \A n \in bg.inputs : \A e \in tables[n] : \E f \in edit.addedDeeper : e \in tables[f]
    BY <1>2, <2>4
  <2>. QED
    BY <1>2, <2>1, <2>2, <2>3, <2>5 DEF Covers
<1>. QED
  BY <1>1, <1>2

\* The two steps that begin to write an edit, in one.
Committing(what, edit) ==
  /\ StartCommit(what, edit) /\ edit \in Edit /\ Covers(what, edit) /\ edit.last = lastSequence
  /\ edit.added0 \cup edit.addedDeeper \subseteq DOMAIN tables
  /\ what \in {"flush", "merge"} /\ edit.log <= logNumber /\ bg.pc \in {"built", "merge"}
  /\ bg.pc = "built" \/ what = "merge"
  /\ UNCHANGED <<logs, tables, opening, memtables, imm, logNumber, version, minLog, nextFile,
                 lastSequence, promised>>

LEMMA CommittingStep ==
  ASSUME Inv1, FilesInv, DataInv, FlushBuilt \/ InstallCompactionResults, bg'.pc = "commit"
  PROVE  \E what, edit : Committing(what, edit)
<1>1. CASE FlushBuilt
  <2>1. bg.pc = "built" /\ db # "closing"
    BY <1>1 DEF FlushBuilt, RecordBackgroundError, Inv1, BgTyped
  <2>. DEFINE edit == [added0 |-> {bg.number} \cap DOMAIN tables, addedDeeper |-> {}, deleted |-> {},
                       log |-> logNumber, next |-> nextFile, last |-> lastSequence]
  <2>2. /\ StartCommit("flush", edit)
        /\ UNCHANGED <<logs, tables, opening, memtables, imm, logNumber, version, minLog, nextFile,
                 lastSequence, promised>>
    BY <1>1, <2>1 DEF FlushBuilt, history
  <2>3. /\ edit \in Edit /\ Covers("flush", edit) /\ edit.last = lastSequence
        /\ edit.added0 \cup edit.addedDeeper \subseteq DOMAIN tables /\ edit.log <= logNumber
    BY <1>1, <2>1, EditFacts
  <2>. HIDE DEF edit
  <2>4. Committing("flush", edit)
    BY <2>1, <2>2, <2>3 DEF Committing
  <2>. QED
    BY <2>4
<1>2. CASE InstallCompactionResults
  <2>1. bg.pc = "merge" /\ db # "closing"
    BY <1>2 DEF InstallCompactionResults, CleanupCompaction, Inv1, BgTyped
  <2>. DEFINE edit == [added0 |-> {}, addedDeeper |-> {bg.output}, deleted |-> bg.inputs,
                       log |-> minLog, next |-> nextFile, last |-> lastSequence]
  <2>2. /\ StartCommit("merge", edit)
        /\ UNCHANGED <<logs, tables, opening, memtables, imm, logNumber, version, minLog, nextFile,
                 lastSequence, promised>>
    BY <1>2, <2>1 DEF InstallCompactionResults, history
  <2>3. /\ edit \in Edit /\ Covers("merge", edit) /\ edit.last = lastSequence
        /\ edit.added0 \cup edit.addedDeeper \subseteq DOMAIN tables /\ edit.log <= logNumber
    BY <1>2, <2>1, EditFacts
  <2>. HIDE DEF edit
  <2>4. Committing("merge", edit)
    BY <2>1, <2>2, <2>3 DEF Committing
  <2>. QED
    BY <2>4
<1>. QED
  BY <1>1, <1>2

LEMMA CommitStartData ==
  ASSUME Inv1, Inv1', FilesInv, DataInv, NEW what, NEW edit, Committing(what, edit)
  PROVE  DataInv'
<1>1. /\ bg'.pc = "commit" /\ bg'.what = what /\ bg'.edit = edit /\ bg'.before = manifests
      /\ bg'.inputs = bg.inputs /\ bg'.output = bg.output
      /\ manifests' = manifests \cup {Applied(m, edit) : m \in manifests}
      /\ UNCHANGED <<logs, tables, db, replay, memtables, imm, logNumber, version, minLog, lastSequence>>
  BY DEF Committing, StartCommit, Inv1, BgTyped, opening
<1>2. Alive /\ \A m \in manifests : \A f \in FilesOf(m) : f \in DOMAIN tables
  BY WorkFacts, NamedTables DEF Committing
<1>3. \A m \in manifests :
        /\ FilesOf(Applied(m, edit)) \subseteq DOMAIN tables
        /\ Applied(m, edit).log = edit.log /\ Applied(m, edit).last = lastSequence
  BY <1>2 DEF Applied, FilesOf, Committing
<1>4. TablesSequenced'
  <2>1. \A f \in DOMAIN tables : \A e \in tables[f] : e.seq <= lastSequence
    BY <1>2 DEF DataInv, TablesSequenced
  <2>2. \A m \in manifests' : \A f \in FilesOf(m) : \A e \in tables[f] : e.seq <= m.last
    BY <1>1, <1>3, <2>1 DEF DataInv, TablesSequenced
  <2>. QED
    BY <1>1, <1>2, <2>1, <2>2 DEF TablesSequenced, Alive
<1>5. LogsThere'
  <2>1. \A m \in manifests' : m.log <= logNumber
    BY <1>1, <1>2, <1>3 DEF DataInv, LogsThere, Committing
  <2>. QED
    BY <1>1, <1>2, <2>1 DEF DataInv, LogsThere, Alive, Running
<1>6. Flushed'
  BY <1>1 DEF DataInv, Flushed, Committing, Covers
<1>. QED
  BY <1>4, <1>5, <1>6 DEF DataInv

LEMMA CommitData == ASSUME Inv1, Inv1', FilesInv, DataInv, Commit PROVE DataInv'
<1>1. /\ bg.pc = "commit" /\ manifests' = {Applied(m, bg.edit) : m \in bg.before}
      /\ version' = Installed(bg.edit) /\ minLog' = bg.edit.log
      /\ imm' = IF bg.what = "flush" THEN 0 ELSE imm
      /\ UNCHANGED <<logs, tables, db, replay, logNumber, lastSequence>>
  BY DEF Commit, Installed, None, opening
<1>2. /\ bg'.pc = "delete" /\ bg'.inputs \subseteq bg.inputs /\ bg'.output = bg.output
      /\ \A n \in bg'.garbage.logs : n < bg.edit.log
  <2>1. bg'.pc = "delete" /\ bg'.inputs \subseteq bg.inputs /\ bg'.output = bg.output
    BY DEF Commit, Inv1, BgTyped
  <2>2. PICK live : bg'.garbage = ObsoleteFiles(live, bg.edit.log, bgError)
    BY DEF Commit, Inv1, BgTyped
  <2>. QED
    BY <2>1, <2>2 DEF ObsoleteFiles
<1>3. manifests' \subseteq manifests /\ Alive
  BY <1>1, WorkFacts DEF FilesInv, CommitInv
<1>4. TablesSequenced'
  BY <1>1, <1>3 DEF DataInv, TablesSequenced, Alive
<1>5. LogsThere'
  <2>1. bg.what = "merge" => bg.edit.log = minLog
    BY <1>1 DEF DataInv, Flushed
  <2>2. bg.what \in {"flush", "merge"}
    BY DEF Inv1, BgTyped
  <2>3. imm' # 0 => minLog' <= imm'
    BY <1>1, <1>3, <2>1, <2>2 DEF DataInv, LogsThere
  <2>. QED
    BY <1>1, <1>2, <1>3, <2>3 DEF DataInv, LogsThere, Alive, Running
<1>6. Flushed'
  BY <1>1, <1>2 DEF DataInv, Flushed
<1>. QED
  BY <1>4, <1>5, <1>6 DEF DataInv

LEMMA DeleteFilesData == ASSUME Inv1, Inv1', FilesInv, FilesInv', DataInv, DeleteFiles PROVE DataInv'
<1>1. /\ bg.pc = "delete" /\ bg'.pc = "end" /\ bg'.inputs = bg.inputs /\ bg'.output = bg.output
      /\ tables' = Without(tables, bg.garbage.tables) /\ logs' = Without(logs, bg.garbage.logs)
      /\ UNCHANGED <<manifests, opening, memory>>
  BY DEF DeleteFiles, Inv1, BgTyped
<1>2. /\ DOMAIN tables' \subseteq DOMAIN tables /\ \A f \in DOMAIN tables' : tables'[f] = tables[f]
      /\ DOMAIN logs' = DOMAIN logs \ bg.garbage.logs
  BY <1>1 DEF Without
<1>3. /\ \A m \in manifests : \A f \in FilesOf(m) : f \in DOMAIN tables'
      /\ bg.inputs \subseteq DOMAIN tables'
  BY <1>1 DEF FilesInv, DatabaseOpens, WorkInv
<1>4. Alive /\ Running /\ minLog <= logNumber /\ minLog \in Nat /\ logNumber \in Nat
  BY <1>1, WorkFacts
<1>5. TablesSequenced'
  BY <1>1, <1>2, <1>3, <1>4 DEF DataInv, TablesSequenced, Alive, memory, opening
<1>6. LogsThere'
  <2>1. \A n \in bg.garbage.logs : n < minLog /\ n \in Nat
    BY <1>1 DEF DataInv, LogsThere, Inv1, BgTyped, Garbage
  <2>2. logNumber \notin bg.garbage.logs
    BY <1>4, <2>1
  <2>. QED
    BY <1>1, <1>2, <1>4, <2>2 DEF DataInv, LogsThere, Alive, Running, memory, opening
<1>7. Flushed'
  BY <1>1, <1>2, <1>3 DEF DataInv, Flushed
<1>. QED
  BY <1>5, <1>6, <1>7 DEF DataInv

LEMMA BackgroundData ==
  ASSUME Inv1, Inv1', FilesInv, FilesInv', DataInv, Background PROVE DataInv'
<1>1. CASE (FlushBuilt \/ InstallCompactionResults) /\ bg'.pc = "commit"
  BY <1>1, CommittingStep, CommitStartData
<1>2. CASE (FlushBuilt \/ InstallCompactionResults) /\ bg'.pc # "commit"
  BY <1>2, ErrorData
<1>. QED
  BY <1>1, <1>2, DecisionData, TablesData, ErrorData, CommitData, DeleteFilesData DEF Background

LEMMA DownData ==
  ASSUME DataInv, Down, UNCHANGED <<tables, manifests>> PROVE DataInv'
<1>1. db' = "closed" /\ bg' = BgOff
  BY DEF Down
<1>. QED
  BY <1>1 DEF DataInv, TablesSequenced, LogsThere, Flushed, Running, Alive, BgOff

LEMMA RecoverData ==
  ASSUME Inv1, Inv1', FilesInv, DataInv, NEW m \in manifests, Recover(m) PROVE DataInv'
<1>1. /\ db = "closed" /\ db' = "replaying"
      /\ manifests' = {o \in manifests : o.next <= m.next}
      /\ version' = [level0 |-> m.level0, deeper |-> m.deeper]
      /\ nextFile' = m.next + 1 /\ lastSequence' = m.last
      /\ replay' = [NoReplay EXCEPT !.from = m, !.logs = {n \in DOMAIN logs : n >= m.log}]
      /\ UNCHANGED <<logs, tables, bg>>
  BY DEF Recover
<1>2. /\ replay'.from = m /\ replay'.added = {} /\ replay'.mem = {} /\ replay'.read = 0
      /\ replay'.logs = {n \in DOMAIN logs : n >= m.log}
  BY <1>1 DEF NoReplay
<1>3. m.next \in Nat /\ m.log \in Nat /\ m.log < m.next
  BY NamedTables DEF FilesInv, ManifestsNumbered
<1>4. FilesOf(version') = FilesOf(m)
  BY <1>1 DEF FilesOf
<1>5. bg = BgOff
  BY <1>1 DEF Inv1, OnlyWhenOpen
<1>6. TablesSequenced'
  <2>1. \A f \in FilesOf(version') \cup replay'.added : \A e \in tables'[f] : e.seq <= lastSequence'
    BY <1>1, <1>2, <1>4 DEF DataInv, TablesSequenced
  <2>2. \A o \in manifests' : \A f \in FilesOf(o) : \A e \in tables'[f] : e.seq <= o.last
    BY <1>1 DEF DataInv, TablesSequenced
  <2>. QED
    BY <1>1, <1>2, <2>1, <2>2 DEF TablesSequenced, Alive
<1>7. LogsThere'
  <2>1. \A n \in DOMAIN logs : n < nextFile' \/ n \in replay'.logs
    BY <1>1, <1>2, <1>3 DEF Inv1, LogsTyped
  <2>2. m \in manifests'
    BY <1>1, <1>3
  <2>. QED
    BY <1>1, <1>2, <1>5, <2>1, <2>2 DEF LogsThere, Running, Alive, BgOff
<1>8. Flushed'
  BY <1>1, <1>5 DEF DataInv, Flushed, BgOff
<1>. QED
  BY <1>6, <1>7, <1>8 DEF DataInv

\* A step of the replay: the tables that are named stay, perhaps one is added.
LEMMA ReplayTables ==
  ASSUME Inv1, FilesInv, db = "replaying", NEW mem, tables' = With(tables, nextFile, mem)
  PROVE  /\ \A f \in FilesOf(version) \cup replay.added : f \in DOMAIN tables' /\ tables'[f] = tables[f]
         /\ \A m \in manifests : \A f \in FilesOf(m) : f \in DOMAIN tables' /\ tables'[f] = tables[f]
         /\ nextFile \in DOMAIN tables' /\ tables'[nextFile] = mem
         /\ DOMAIN tables' = DOMAIN tables \cup {nextFile}
<1>1. /\ FilesOf(version) \cup replay.added \subseteq DOMAIN tables
      /\ \A f \in FilesOf(version) \cup replay.added : f < nextFile
      /\ nextFile \in Nat /\ DOMAIN tables \subseteq Nat
  BY DEF FilesInv, ReplayInv, Inv1, MemoryTyped, LogsTyped
<1>2. \A f \in FilesOf(version) \cup replay.added : f # nextFile
  BY <1>1
<1>3. \A m \in manifests : \A f \in FilesOf(m) : f \in DOMAIN tables /\ f # nextFile
  <2>1. \A m \in manifests : m.next <= nextFile
    BY DEF FilesInv, ManifestsNumbered
  <2>2. /\ \A m \in manifests : \A f \in FilesOf(m) : f \in DOMAIN tables /\ f \in Nat /\ f < m.next
        /\ \A m \in manifests : m.next \in Nat
    BY NamedTables
  <2>. QED
    BY <1>1, <2>1, <2>2
<1>. QED
  BY <1>1, <1>2, <1>3 DEF With

LEMMA ReplayData ==
  ASSUME Inv1, Inv1', FilesInv, DataInv, db = "replaying", db' = "replaying",
         UNCHANGED <<logs, manifests, version, bg>>, replay'.from = replay.from,
         nextFile <= nextFile', 0 < nextFile,
         \A n \in replay.logs \ replay'.logs : n < nextFile',
         lastSequence <= lastSequence', \A e \in replay'.mem : e.seq <= lastSequence',
         replay'.read = 0 => replay'.mem = {}, replay'.logs = {} => replay'.read = 0,
         \/ tables' = tables /\ replay'.added = replay.added
         \/ \E mem : /\ tables' = With(tables, nextFile, mem) /\ \A e \in mem : e.seq <= lastSequence'
                     /\ replay'.added = replay.added \cup {nextFile}
  PROVE  DataInv'
<1>1. bg = BgOff
  BY DEF Inv1, OnlyWhenOpen
<1>2. /\ nextFile \in Nat /\ nextFile' \in Nat /\ lastSequence \in Nat /\ lastSequence' \in Nat
      /\ \A f \in DOMAIN tables : \A e \in tables[f] : e.seq \in Nat
      /\ DOMAIN logs \subseteq Nat
  BY NamedTables DEF Inv1, MemoryTyped, LogsTyped
<1>3. /\ FilesOf(version) \cup replay.added \subseteq DOMAIN tables
      /\ \A m \in manifests : \A f \in FilesOf(m) : f \in DOMAIN tables
  BY NamedTables DEF FilesInv, ReplayInv
<1>4. \A f \in FilesOf(version) \cup replay.added : \A e \in tables[f] : e.seq <= lastSequence'
  BY <1>2, <1>3 DEF DataInv, TablesSequenced
<1>5. /\ \A f \in FilesOf(version) \cup replay.added : tables'[f] = tables[f]
      /\ \A m \in manifests : \A f \in FilesOf(m) : tables'[f] = tables[f]
  BY ReplayTables
<1>6. \A f \in FilesOf(version') \cup replay'.added : \A e \in tables'[f] : e.seq <= lastSequence'
  <2>1. CASE tables' = tables /\ replay'.added = replay.added
    BY <1>4, <2>1
  <2>2. ASSUME NEW mem, tables' = With(tables, nextFile, mem), \A e \in mem : e.seq <= lastSequence',
               replay'.added = replay.added \cup {nextFile}
        PROVE  \A f \in FilesOf(version') \cup replay'.added : \A e \in tables'[f] : e.seq <= lastSequence'
    <3>1. tables'[nextFile] = mem
      BY <2>2, ReplayTables
    <3>. QED
      BY <1>4, <1>5, <2>2, <3>1
  <2>. QED
    BY <2>1, <2>2
<1>7. TablesSequenced'
  BY <1>5, <1>6 DEF DataInv, TablesSequenced, Alive
<1>8. LogsThere'
  <2>1. \A n \in DOMAIN logs : n < nextFile' \/ n \in replay'.logs
    BY <1>2 DEF DataInv, LogsThere
  <2>. QED
    BY <1>1, <2>1 DEF DataInv, LogsThere, Running, Alive, BgOff
<1>9. Flushed'
  <2>1. 0 \notin DOMAIN tables'
    BY <1>2, ReplayTables DEF DataInv, Flushed
  <2>. QED
    BY <1>1, <2>1 DEF Flushed, BgOff
<1>. QED
  BY <1>7, <1>8, <1>9 DEF DataInv

\* What the replay of a record does.
LEMMA RecordFacts ==
  ASSUME Inv1, FilesInv, NEW n, RecoverRecord(n)
  PROVE  \E entries, mem :
           /\ entries = RecordEntries(logs[n].records[replay.read + 1]) /\ mem = replay.mem \cup entries
           /\ replay.read + 1 \in 1..Len(logs[n].records) /\ replay.read \in Nat
           /\ lastSequence <= lastSequence' /\ lastSequence \in Nat /\ lastSequence' \in Nat
           /\ \A e \in entries : e.seq <= lastSequence'
           /\ replay'.from = replay.from /\ replay'.logs = replay.logs /\ replay'.read = replay.read + 1
           /\ nextFile \in Nat /\ nextFile <= nextFile' /\ nextFile' \in Nat
           /\ \/ /\ tables' = With(tables, nextFile, mem) /\ replay'.mem = {}
                 /\ replay'.added = replay.added \cup {nextFile}
              \/ tables' = tables /\ replay'.mem = mem /\ replay'.added = replay.added
<1>. DEFINE entries == RecordEntries(logs[n].records[replay.read + 1])
            mem == replay.mem \cup entries
            read == [replay EXCEPT !.read = @ + 1, !.mem = mem]
<1>1. /\ db = "replaying" /\ nextFile \in Nat /\ lastSequence \in Nat
      /\ replay \in [from : Manifest, logs : SUBSET Nat, read : Nat, mem : SUBSET Entry, added : SUBSET Nat]
      /\ logs[n].records \in Seq(Seq(Entry)) /\ Len(logs[n].records) \in Nat
      /\ replay.read < Len(logs[n].records) /\ replay.read \in Nat
  BY ReplayFacts DEF RecoverRecord
<1>2. replay.read + 1 \in 1..Len(logs[n].records)
  BY <1>1
<1>3. logs[n].records[replay.read + 1] \in Seq(Entry)
  BY <1>1, <1>2
<1>4. lastSequence' = RecoveredSequence(entries)
  BY DEF RecoverRecord
<1>5. /\ lastSequence <= lastSequence' /\ lastSequence' \in Nat
      /\ \A e \in entries : e.seq <= lastSequence'
  BY <1>1, <1>3, <1>4, RecoveredSequenceIs
<1>6. \/ WriteLevel0Table(mem, read) /\ nextFile' = nextFile + 1
      \/ replay' = read /\ UNCHANGED <<tables, nextFile>>
  BY DEF RecoverRecord
<1>8. mem \in SUBSET Entry /\ replay.read + 1 \in Nat
  <2>1. entries \subseteq Entry
    BY <1>1, <1>3, RecoveredSequenceIs
  <2>. QED
    BY <1>1, <2>1
<1>. HIDE DEF mem
<1>7. /\ read.from = replay.from /\ read.logs = replay.logs /\ read.read = replay.read + 1
      /\ read.added = replay.added /\ read.mem = mem
      /\ read \in [from : Manifest, logs : SUBSET Nat, read : Nat, mem : SUBSET Entry, added : SUBSET Nat]
  BY <1>1, <1>8
<1>. HIDE DEF read
<1>10. /\ replay'.from = replay.from /\ replay'.logs = replay.logs /\ replay'.read = replay.read + 1
      /\ nextFile <= nextFile' /\ nextFile' \in Nat
      /\ \/ /\ tables' = With(tables, nextFile, mem) /\ replay'.mem = {}
            /\ replay'.added = replay.added \cup {nextFile}
         \/ tables' = tables /\ replay'.mem = mem /\ replay'.added = replay.added
  <2>1. CASE WriteLevel0Table(mem, read) /\ nextFile' = nextFile + 1
    <3>1. /\ tables' = With(tables, nextFile, mem)
          /\ replay' = [read EXCEPT !.mem = {}, !.added = @ \cup {nextFile}]
      BY <2>1 DEF WriteLevel0Table
    <3>2. /\ replay'.from = read.from /\ replay'.logs = read.logs /\ replay'.read = read.read
          /\ replay'.mem = {} /\ replay'.added = read.added \cup {nextFile}
      BY <1>7, <3>1
    <3>3. nextFile <= nextFile' /\ nextFile' \in Nat
      BY <1>1, <2>1
    <3>. QED
      BY <1>7, <3>1, <3>2, <3>3
  <2>2. CASE replay' = read /\ UNCHANGED <<tables, nextFile>>
    BY <1>1, <1>7, <2>2
  <2>. QED
    BY <1>6, <2>1, <2>2
<1>. HIDE DEF entries
<1>9. mem = replay.mem \cup entries /\ entries = RecordEntries(logs[n].records[replay.read + 1])
  BY DEF mem, entries
<1>. QED
  BY <1>1, <1>2, <1>5, <1>9, <1>10

LEMMA RecoverRecordData ==
  ASSUME Inv1, Inv1', FilesInv, DataInv, NEW n, RecoverRecord(n) PROVE DataInv'
<1>1. PICK entries, mem :
           /\ entries = RecordEntries(logs[n].records[replay.read + 1]) /\ mem = replay.mem \cup entries
           /\ replay.read + 1 \in 1..Len(logs[n].records) /\ replay.read \in Nat
           /\ lastSequence <= lastSequence' /\ lastSequence \in Nat /\ lastSequence' \in Nat
           /\ \A e \in entries : e.seq <= lastSequence'
           /\ replay'.from = replay.from /\ replay'.logs = replay.logs /\ replay'.read = replay.read + 1
           /\ nextFile \in Nat /\ nextFile <= nextFile' /\ nextFile' \in Nat
           /\ \/ /\ tables' = With(tables, nextFile, mem) /\ replay'.mem = {}
                 /\ replay'.added = replay.added \cup {nextFile}
              \/ tables' = tables /\ replay'.mem = mem /\ replay'.added = replay.added
  BY RecordFacts
<1>2. /\ db = "replaying" /\ db' = "replaying" /\ n \in replay.logs
      /\ UNCHANGED <<logs, manifests, version, bg>>
  BY DEF RecoverRecord, Replaying, UnchangedInRecovery
<1>3. 0 < nextFile
  BY <1>2 DEF Inv1, OnlyWhenOpen
<1>4. \A e \in mem : e.seq <= lastSequence'
  <2>1. \A e \in replay.mem : e.seq <= lastSequence /\ e.seq \in Nat
    BY <1>2 DEF DataInv, TablesSequenced, Inv1, OpeningTyped, Entry
  <2>2. \A e \in replay.mem : e.seq <= lastSequence'
    BY <1>1, <2>1
  <2>. QED
    BY <1>1, <2>2
<1>5. replay'.read # 0 /\ replay'.logs # {}
  BY <1>1, <1>2
<1>. QED
  BY <1>1, <1>2, <1>3, <1>4, <1>5, ReplayData

LEMMA SkipRecordData ==
  ASSUME Inv1, Inv1', FilesInv, DataInv, NEW n, SkipRecord(n) PROVE DataInv'
<1>1. /\ db = "replaying" /\ db' = "replaying" /\ n \in replay.logs
      /\ UNCHANGED <<disk, memory, bg>> /\ nextFile \in Nat /\ lastSequence \in Nat
      /\ replay'.from = replay.from /\ replay'.logs = replay.logs /\ replay'.mem = replay.mem
      /\ replay'.added = replay.added /\ replay'.read = replay.read + 1 /\ replay.read \in Nat
  BY SkipFacts
<1>2. UNCHANGED <<logs, tables, manifests, version, nextFile, lastSequence>>
  BY <1>1 DEF disk, memory
<1>3. 0 < nextFile /\ nextFile <= nextFile' /\ lastSequence <= lastSequence'
  BY <1>1, <1>2 DEF Inv1, OnlyWhenOpen
<1>4. \A e \in replay'.mem : e.seq <= lastSequence'
  BY <1>1, <1>2 DEF DataInv, TablesSequenced
<1>5. replay'.read # 0 /\ replay'.logs # {} /\ \A k \in replay.logs \ replay'.logs : k < nextFile'
  BY <1>1
<1>. QED
  BY <1>1, <1>2, <1>3, <1>4, <1>5, ReplayData

LEMMA ReadFailsData ==
  ASSUME Inv1, Inv1', FilesInv, DataInv, NEW n, ReadFails(n) PROVE DataInv'
<1>1. /\ db = "replaying" /\ db' = "replaying" /\ n \in replay.logs
      /\ UNCHANGED <<disk, memory, bg>> /\ nextFile \in Nat /\ lastSequence \in Nat
      /\ replay'.from = replay.from /\ replay'.logs = replay.logs /\ replay'.mem = replay.mem
      /\ replay'.added = replay.added /\ replay.read \in Nat
      /\ replay'.read = Len(logs[n].records) /\ replay.read < replay'.read /\ replay'.read \in Nat
  BY FailedFacts
<1>2. UNCHANGED <<logs, tables, manifests, version, nextFile, lastSequence>>
  BY <1>1 DEF disk, memory
<1>3. 0 < nextFile /\ nextFile <= nextFile' /\ lastSequence <= lastSequence'
  BY <1>1, <1>2 DEF Inv1, OnlyWhenOpen
<1>4. \A e \in replay'.mem : e.seq <= lastSequence'
  BY <1>1, <1>2 DEF DataInv, TablesSequenced
<1>5. replay'.read # 0 /\ replay'.logs # {} /\ \A k \in replay.logs \ replay'.logs : k < nextFile'
  BY <1>1
<1>. QED
  BY <1>1, <1>2, <1>3, <1>4, <1>5, ReplayData

\* What the end of a log does.
LEMMA LogFileFacts ==
  ASSUME Inv1, FilesInv, NEW n, RecoverLogFile(n)
  PROVE  /\ replay.read = Len(logs[n].records) /\ lastSequence' = lastSequence
         /\ replay'.from = replay.from /\ replay'.logs = replay.logs \ {n} /\ replay'.read = 0
         /\ replay'.mem = {}
         /\ nextFile \in Nat /\ nextFile <= nextFile' /\ nextFile' \in Nat /\ n < nextFile'
         /\ \/ /\ tables' = With(tables, nextFile, replay.mem)
               /\ replay'.added = replay.added \cup {nextFile}
            \/ tables' = tables /\ replay.mem = {} /\ replay'.added = replay.added
<1>. DEFINE read == [replay EXCEPT !.logs = @ \ {n}, !.read = 0]
<1>1. /\ db = "replaying" /\ nextFile \in Nat /\ n \in Nat /\ nextFile + 1 \in Nat
      /\ replay \in [from : Manifest, logs : SUBSET Nat, read : Nat, mem : SUBSET Entry, added : SUBSET Nat]
  BY ReplayFacts DEF RecoverLogFile
<1>2. \/ WriteLevel0Table(replay.mem, read) /\ MarkFileNumberUsed(nextFile + 1, n)
      \/ /\ replay' = read /\ UNCHANGED tables /\ MarkFileNumberUsed(nextFile, n)
         /\ replay.mem = {}
  BY DEF RecoverLogFile
<1>3. /\ read.from = replay.from /\ read.logs = replay.logs \ {n} /\ read.read = 0
      /\ read.added = replay.added /\ read.mem = replay.mem
      /\ read \in [from : Manifest, logs : SUBSET Nat, read : Nat, mem : SUBSET Entry, added : SUBSET Nat]
  BY <1>1
<1>. HIDE DEF read
<1>4. CASE WriteLevel0Table(replay.mem, read) /\ MarkFileNumberUsed(nextFile + 1, n)
  <2>1. nextFile' \in Nat /\ nextFile + 1 <= nextFile' /\ n < nextFile'
    BY <1>1, <1>4, NumberUsed
  <2>2. nextFile <= nextFile'
    BY <1>1, <2>1
  <2>3. /\ tables' = With(tables, nextFile, replay.mem)
        /\ replay' = [read EXCEPT !.mem = {}, !.added = @ \cup {nextFile}]
    BY <1>4 DEF WriteLevel0Table
  <2>4. /\ replay'.from = read.from /\ replay'.logs = read.logs /\ replay'.read = read.read
        /\ replay'.mem = {} /\ replay'.added = read.added \cup {nextFile}
    BY <1>3, <2>3
  <2>. QED
    BY <1>1, <1>3, <2>1, <2>2, <2>3, <2>4 DEF RecoverLogFile
<1>5. CASE /\ replay' = read /\ UNCHANGED tables /\ MarkFileNumberUsed(nextFile, n)
           /\ replay.mem = {}
  <2>1. nextFile' \in Nat /\ nextFile <= nextFile' /\ n < nextFile'
    BY <1>1, <1>5, NumberUsed
  <2>. QED
    BY <1>1, <1>3, <1>5, <2>1 DEF RecoverLogFile
<1>. QED
  BY <1>2, <1>4, <1>5

LEMMA RecoverLogFileData ==
  ASSUME Inv1, Inv1', FilesInv, DataInv, NEW n, RecoverLogFile(n) PROVE DataInv'
<1>1. /\ db = "replaying" /\ db' = "replaying" /\ UNCHANGED <<logs, manifests, version, bg>>
  BY DEF RecoverLogFile, Replaying, UnchangedInRecovery
<1>2. 0 < nextFile /\ lastSequence \in Nat /\ lastSequence <= lastSequence
  BY <1>1 DEF Inv1, OnlyWhenOpen, MemoryTyped
<1>3. \A e \in replay.mem : e.seq <= lastSequence
  BY <1>1 DEF DataInv, TablesSequenced
<1>. QED
  BY <1>1, <1>2, <1>3, LogFileFacts, ReplayData

LEMMA OpenData == ASSUME Inv1, Inv1', FilesInv, FilesInv', DataInv, Open PROVE DataInv'
<1>. DEFINE edit == [added0 |-> replay.added, addedDeeper |-> {}, deleted |-> {},
                     log |-> nextFile, next |-> nextFile + 1, last |-> lastSequence]
            new == Applied(replay.from, edit)
<1>1. /\ db = "replaying" /\ db' = "recovering" /\ replay.logs = {}
      /\ manifests' = manifests \cup {new}
      /\ version' = [version EXCEPT !.level0 = @ \cup replay.added]
      /\ logs' = With(logs, nextFile, [records |-> <<>>, synced |-> 0])
      /\ logNumber' = nextFile
      /\ UNCHANGED <<tables, lastSequence, bg>>
  BY DEF Open
<1>2. /\ FilesOf(new) = FilesOf(version) \cup replay.added /\ new.last = lastSequence
  BY <1>1 DEF Applied, FilesOf, FilesInv, ReplayInv
<1>. HIDE DEF new
<1>3. FilesOf(version') = FilesOf(version) \cup replay.added
  BY <1>1 DEF FilesOf, Inv1, MemoryTyped, Version
<1>4. bg = BgOff
  BY <1>1 DEF Inv1, OnlyWhenOpen
<1>5. TablesSequenced'
  BY <1>1, <1>2, <1>3 DEF DataInv, TablesSequenced, Alive
<1>6. LogsThere'
  <2>1. \A n \in DOMAIN logs : n < nextFile /\ n \in Nat
    BY <1>1 DEF DataInv, LogsThere, Inv1, LogsTyped
  <2>2. DOMAIN logs' = DOMAIN logs \cup {nextFile} /\ nextFile \in Nat
    BY <1>1 DEF With, Inv1, MemoryTyped
  <2>3. \A n \in DOMAIN logs' : n <= nextFile
    BY <2>1, <2>2
  <2>. QED
    BY <1>1, <1>4, <2>2, <2>3 DEF LogsThere, Alive, BgOff
<1>7. Flushed'
  BY <1>1, <1>4 DEF DataInv, Flushed, BgOff
<1>. QED
  BY <1>5, <1>6, <1>7 DEF DataInv

\* Once the database is open, only the version's tables are left.
LEMMA OpenedTables ==
  ASSUME Inv1, FilesInv, FinishOpen
  PROVE  /\ DOMAIN tables' = FilesOf(version) /\ \A f \in DOMAIN tables' : tables'[f] = tables[f]
         /\ db = "recovering" /\ bg = BgOff /\ imm = 0 /\ bg'.pc \in {"off", "scheduled"}
         /\ bg'.output = 0 /\ bg'.inputs = {}
<1>. DEFINE garbage == ObsoleteFiles(AddLiveFiles(version, {}), logNumber, FALSE)
<1>1. /\ db = "recovering" /\ tables' = Without(tables, garbage.tables)
      /\ bg' = MaybeScheduleCompaction(bg, None, version, FALSE)
  BY DEF FinishOpen
<1>2. bg = BgOff /\ imm = 0 /\ \A r \in Readers : reader[r].files = {}
  BY <1>1 DEF Inv1, OnlyWhenOpen, FilesInv, ReadersThere
<1>3. bg'.pc \in {"off", "scheduled"} /\ bg'.output = 0 /\ bg'.inputs = {}
  BY <1>1, <1>2 DEF MaybeScheduleCompaction, BgOff
<1>4. FilesOf(version) \subseteq DOMAIN tables
  BY <1>1 DEF FilesInv, VersionThere, Running
<1>5. garbage.tables = DOMAIN tables \ FilesOf(version)
  BY <1>2 DEF ObsoleteFiles, AddLiveFiles
<1>. HIDE DEF garbage
<1>. QED
  BY <1>1, <1>2, <1>3, <1>4, <1>5 DEF Without

LEMMA FinishOpenData == ASSUME Inv1, Inv1', FilesInv, FilesInv', DataInv, FinishOpen PROVE DataInv'
<1>1. /\ DOMAIN tables' = FilesOf(version) /\ \A f \in DOMAIN tables' : tables'[f] = tables[f]
      /\ db = "recovering" /\ bg = BgOff /\ imm = 0 /\ bg'.pc \in {"off", "scheduled"}
      /\ bg'.output = 0 /\ bg'.inputs = {}
  BY OpenedTables
<1>2. /\ db' = "open" /\ manifests' = {WriteSnapshot} /\ minLog' = logNumber
      /\ UNCHANGED <<imm, logNumber, version, lastSequence>>
  BY DEF FinishOpen
<1>3. /\ FilesOf(WriteSnapshot) = FilesOf(version) /\ WriteSnapshot.log = logNumber
      /\ WriteSnapshot.last = lastSequence
  BY DEF WriteSnapshot, FilesOf
<1>4. logNumber <= logNumber
  BY DEF Inv1, MemoryTyped
<1>5. TablesSequenced'
  BY <1>1, <1>2, <1>3 DEF DataInv, TablesSequenced
<1>6. LogsThere'
  <2>1. PICK S : logs' = Without(logs, {n \in DOMAIN logs : n < logNumber}) /\ S = {}
    BY DEF FinishOpen, ObsoleteFiles
  <2>2. DOMAIN logs' \subseteq DOMAIN logs /\ (logNumber \in DOMAIN logs => logNumber \in DOMAIN logs')
    BY <2>1 DEF Without, Inv1, MemoryTyped
  <2>. QED
    BY <1>1, <1>2, <1>3, <1>4, <2>2 DEF DataInv, LogsThere, Running
<1>7. Flushed'
  <2>1. 0 \notin DOMAIN tables'
    BY <1>1 DEF DataInv, Flushed, FilesInv, VersionThere, Running
  <2>. QED
    BY <1>1, <2>1 DEF Flushed
<1>. QED
  BY <1>5, <1>6, <1>7 DEF DataInv

LEMMA FirstData == Init => DataInv
<1>. SUFFICES ASSUME Init PROVE DataInv
  OBVIOUS
<1>1. tables = <<>> /\ manifests = {NewDB} /\ db = "closed" /\ bg = BgOff
  BY DEF Init
<1>2. TablesSequenced
  BY <1>1 DEF TablesSequenced, NewDB, FilesOf, Alive
<1>3. LogsThere
  BY <1>1 DEF LogsThere, Running, Alive, BgOff
<1>4. Flushed
  <2>1. 0 \notin DOMAIN tables
    BY <1>1
  <2>. QED
    BY <1>1, <2>1 DEF Flushed, BgOff
<1>. QED
  BY <1>2, <1>3, <1>4 DEF DataInv

LEMMA NextData == Inv1 /\ Inv1' /\ FilesInv /\ FilesInv' /\ DataInv /\ [Next]_vars => DataInv'
<1>. SUFFICES ASSUME Inv1, Inv1', FilesInv, FilesInv', DataInv, [Next]_vars PROVE DataInv'
  OBVIOUS
<1>1. lastSequence \in Nat /\ lastSequence <= lastSequence
  BY DEF Inv1, MemoryTyped
<1>2. ASSUME NEW t \in Threads, NEW null \in BOOLEAN, NEW sync \in BOOLEAN, Write(t, null, sync)
      PROVE  DataInv'
  BY <1>1, <1>2, DataQuiet DEF Write, disk, opening, memory
<1>3. CASE UNCHANGED vars
  BY <1>1, <1>3, DataQuiet DEF vars, disk, opening, memory
<1>4. CASE Close
  BY <1>1, <1>4, DataQuiet DEF Close, disk, memory
<1>5. CASE Closed \/ Kill \/ Outage
  BY <1>5, DownData DEF Closed, Kill, Outage, disk
<1>6. ASSUME NEW r \in Readers, StartRead(r) PROVE DataInv'
  BY <1>1, <1>6, DataQuiet DEF StartRead, disk, opening, memory
<1>7. ASSUME NEW r \in Readers, EndRead(r) PROVE DataInv'
  <2>1. /\ UNCHANGED <<disk, opening, imm, logNumber, version, minLog, nextFile, lastSequence, bg>>
        /\ memtables' = [n \in DOMAIN memtables \cap
             (InMemory \cup UNION {reader[x].mems : x \in Readers \ {r}}) |-> memtables[n]]
    BY <1>7 DEF EndRead
  <2>2. Alive /\ imm # 0 => memtables'[imm] = memtables[imm]
    <3>1. Alive /\ imm # 0 => imm \in DOMAIN memtables /\ imm \in InMemory
      BY DEF Inv1, Numbered, Running, Alive, InMemory, None
    <3>. QED
      BY <2>1, <3>1
  <2>. QED
    BY <1>1, <2>1, <2>2, DataQuiet DEF disk, opening
<1>8. ASSUME NEW m \in manifests, Recover(m) PROVE DataInv'
  BY <1>8, RecoverData
<1>9. ASSUME NEW n \in replay.logs,
             RecoverRecord(n) \/ SkipRecord(n) \/ ReadFails(n) \/ RecoverLogFile(n) PROVE DataInv'
  BY <1>9, RecoverRecordData, SkipRecordData, ReadFailsData, RecoverLogFileData
<1>. QED
  BY <1>2, <1>3, <1>4, <1>5, <1>6, <1>7, <1>8, <1>9, WriterData, BackgroundData, OpenData, FinishOpenData
     DEF Next

LEMMA DataInvHolds == Spec => []DataInv
BY FirstData, NextData, Inv1Holds, FilesInvHolds, PTL DEF Spec

\* The record the leader has written is the last one of the log.
LEMMA WrittenStays ==
  ASSUME WrittenInv, UNCHANGED <<lead, logNumber>>, logs'[logNumber] = logs[logNumber],
         \A t \in Threads : thread'[t].pc \in {"sync", "insert", "finish"} =>
           /\ thread[t].pc \in {"sync", "insert", "finish"} /\ thread'[t].sync = thread[t].sync
           /\ thread[t].pc = "sync" => thread'[t].pc = "sync"
  PROVE  WrittenInv'
BY DEF WrittenInv, Written

LEMMA NobodyWrites ==
  ASSUME \A t \in Threads : thread'[t].pc \notin {"sync", "insert", "finish"} PROVE WrittenInv'
BY DEF WrittenInv

\* Nobody has written who is not at the head of the queue of an open database.
LEMMA OthersWait ==
  ASSUME Inv1, NEW t \in Threads, thread[t].pc \notin {"idle", "queued"}
  PROVE  \A u \in Threads : u # t => thread[u].pc \in {"idle", "queued"}
BY LeaderIsHead

LEMMA LogAfter ==
  ASSUME Inv1, DataInv, db = "open", NEW record \in Seq(Entry),
         logs' = [logs EXCEPT ![logNumber].records = @ \o <<record>>]
  PROVE  /\ logNumber \in DOMAIN logs /\ DOMAIN logs' = DOMAIN logs
         /\ \A n \in DOMAIN logs : n # logNumber => logs'[n] = logs[n]
         /\ logs'[logNumber].synced = logs[logNumber].synced
         /\ Len(logs[logNumber].records) \in Nat
         /\ Len(logs'[logNumber].records) = Len(logs[logNumber].records) + 1
         /\ \A i \in 1..Len(logs[logNumber].records) :
              logs'[logNumber].records[i] = logs[logNumber].records[i]
         /\ logs'[logNumber].records[Len(logs[logNumber].records) + 1] = record
<1>1. logNumber \in DOMAIN logs
  BY DEF DataInv, LogsThere, Running
<1>2. logs[logNumber] \in LogFile
  BY <1>1 DEF Inv1, LogsTyped
<1>. DEFINE r == logs[logNumber].records
<1>3. r \in Seq(Seq(Entry)) /\ Len(r) \in Nat
  BY <1>2 DEF LogFile
<1>4. /\ DOMAIN logs' = DOMAIN logs /\ \A n \in DOMAIN logs : n # logNumber => logs'[n] = logs[n]
      /\ logs'[logNumber].synced = logs[logNumber].synced
      /\ logs'[logNumber].records = r \o <<record>>
  BY <1>1, <1>2 DEF LogFile
<1>. HIDE DEF r
<1>5. /\ Len(r \o <<record>>) = Len(r) + 1
      /\ \A i \in 1..Len(r) : (r \o <<record>>)[i] = r[i]
      /\ (r \o <<record>>)[Len(r) + 1] = record
  BY <1>3
<1>. QED
  BY <1>1, <1>3, <1>4, <1>5 DEF r

LEMMA AddRecordLog ==
  ASSUME Inv1, DataInv, NEW t \in Threads, AddRecord(t)
  PROVE  /\ logNumber \in DOMAIN logs /\ DOMAIN logs' = DOMAIN logs
         /\ \A n \in DOMAIN logs : n # logNumber => logs'[n] = logs[n]
         /\ logs'[logNumber].synced = logs[logNumber].synced
         /\ Len(logs[logNumber].records) \in Nat
         /\ Len(logs'[logNumber].records) = Len(logs[logNumber].records) + 1
         /\ \A i \in 1..Len(logs[logNumber].records) :
              logs'[logNumber].records[i] = logs[logNumber].records[i]
         /\ logs'[logNumber].records[Len(logs[logNumber].records) + 1] = lead.todo
<1>1. /\ db = "open" /\ lead.todo \in Seq(Entry)
      /\ logs' = [logs EXCEPT ![logNumber].records = @ \o <<lead.todo>>]
  BY LeaderIsHead DEF AddRecord, Contents, Inv1, QueueKept, QueueTyped
<1>. QED
  BY <1>1, LogAfter

LEMMA AppendFailsLog ==
  ASSUME Inv1, DataInv, NEW t \in Threads, AppendFails(t)
  PROVE  /\ logNumber \in DOMAIN logs /\ DOMAIN logs' = DOMAIN logs
         /\ \A n \in DOMAIN logs : n # logNumber => logs'[n] = logs[n]
         /\ logs'[logNumber].synced = logs[logNumber].synced
         /\ Len(logs[logNumber].records) \in Nat
         /\ Len(logs'[logNumber].records) = Len(logs[logNumber].records) + 1
         /\ \A i \in 1..Len(logs[logNumber].records) :
              logs'[logNumber].records[i] = logs[logNumber].records[i]
         /\ logs'[logNumber].records[Len(logs[logNumber].records) + 1] = Hole
<1>1. /\ db = "open" /\ Hole \in Seq(Entry)
      /\ logs' = [logs EXCEPT ![logNumber].records = @ \o <<Hole>>]
  BY LeaderIsHead DEF AppendFails, Hole
<1>. QED
  BY <1>1, LogAfter

LEMMA SyncLog ==
  ASSUME Inv1, DataInv, NEW t \in Threads, Sync(t)
  PROVE  /\ logNumber \in DOMAIN logs /\ DOMAIN logs' = DOMAIN logs
         /\ \A n \in DOMAIN logs : n # logNumber => logs'[n] = logs[n]
         /\ logs'[logNumber].synced = Len(logs[logNumber].records)
         /\ logs'[logNumber].records = logs[logNumber].records
<1>1. db = "open"
  BY LeaderIsHead DEF Sync
<1>2. logNumber \in DOMAIN logs
  BY <1>1 DEF DataInv, LogsThere, Running
<1>3. logs[logNumber] \in LogFile
  BY <1>2 DEF Inv1, LogsTyped
<1>. QED
  BY <1>2, <1>3 DEF Sync, LogFile

LEMMA WriterWritten ==
  ASSUME Inv1, Inv1', DataInv, WrittenInv, NEW t \in Threads, InWrite(t) PROVE WrittenInv'
<1>1. thread \in [Threads -> [pc : Callers, batch : Nat, sync : BOOLEAN]]
  BY DEF Inv1, QueueKept, QueueTyped
<1>2. thread[t].pc \notin {"idle", "queued"} => \A u \in Threads : u # t => thread[u].pc \in {"idle", "queued"}
  BY OthersWait
<1>3. ASSUME InRoom(t), PopWriters(1) PROVE WrittenInv'
  <2>1. LeadAway'
    BY <1>3, InRoomFacts, Popped DEF Inv1
  <2>. QED
    BY <2>1, NobodyWrites DEF LeadAway
<1>4. CASE YieldError(t) \/ NewLogFails(t)
  BY <1>3, <1>4 DEF YieldError, NewLogFails
<1>5. CASE Delay(t) \/ WaitForBackground(t) \/ SwitchMemTable(t)
  <2>1. thread[t].pc = "room"
    BY <1>5 DEF Delay, WaitForBackground, SwitchMemTable, InRoom
  <2>2. \A u \in Threads : thread'[u] = thread[u] \/ (u = t /\ thread'[u].pc = "wait")
    BY <1>1, <1>5 DEF Delay, WaitForBackground, SwitchMemTable
  <2>. QED
    BY <1>2, <2>1, <2>2, NobodyWrites
<1>6. CASE FoundRoom(t)
  <2>1. InRoom(t) /\ thread[t].pc = "room"
    BY <1>6 DEF FoundRoom, InRoom
  <2>2. CASE PopWriters(1)
    BY <1>3, <2>1, <2>2
  <2>3. CASE thread' = [thread EXCEPT ![t].pc = "log"]
    <3>1. thread'[t].pc = "log" /\ \A u \in Threads : u # t => thread'[u] = thread[u]
      BY <1>1, <2>3
    <3>. QED
      BY <1>2, <2>1, <3>1, NobodyWrites
  <2>. QED
    BY <1>6, <2>2, <2>3 DEF FoundRoom
<1>7. CASE AddRecord(t)
  <2>1. thread[t].pc = "log" /\ UNCHANGED <<lead, logNumber>>
    BY <1>7 DEF AddRecord, memory
  <2>2. /\ thread'[t].pc = IF thread[t].sync THEN "sync" ELSE "insert"
        /\ thread'[t].sync = thread[t].sync
        /\ \A u \in Threads : u # t => thread'[u] = thread[u]
    BY <1>1, <1>7 DEF AddRecord
  <2>3. Written(t)'
    <3>. DEFINE k == Len(logs[logNumber].records)
    <3>1. /\ k \in Nat /\ Len(logs'[logNumber].records) = k + 1
          /\ logs'[logNumber].records[k + 1] = lead.todo
      BY <1>7, AddRecordLog
    <3>. HIDE DEF k
    <3>2. 0 < k + 1
      BY <3>1
    <3>. QED
      BY <2>1, <2>2, <3>1, <3>2 DEF Written
  <2>4. \A u \in Threads : u # t => thread'[u].pc \in {"idle", "queued"}
    BY <1>2, <2>1, <2>2
  <2>. QED
    BY <2>3, <2>4 DEF WrittenInv
<1>12. CASE AppendFails(t)
  <2>1. thread[t].pc = "log" /\ logNumber' = logNumber
    BY <1>12 DEF AppendFails, memory
  <2>2. \A u \in Threads : u # t => thread'[u] = thread[u]
    BY <1>1, <1>12 DEF AppendFails
  <2>3. lead'.failed = TRUE
    BY <1>12 DEF AppendFails, Inv1, QueueKept, QueueTyped
  <2>4. Written(t)'
    <3>. DEFINE k == Len(logs[logNumber].records)
    <3>1. /\ k \in Nat /\ Len(logs'[logNumber].records) = k + 1
          /\ logs'[logNumber].records[k + 1] = Hole
      BY <1>12, AppendFailsLog
    <3>. HIDE DEF k
    <3>2. 0 < k + 1
      BY <3>1
    <3>3. Hole' = Hole
      BY DEF Hole
    <3>. QED
      BY <2>1, <2>3, <3>1, <3>2, <3>3 DEF Written
  <2>5. \A u \in Threads : u # t => thread'[u].pc \in {"idle", "queued"}
    BY <1>2, <2>1, <2>2
  <2>. QED
    BY <2>4, <2>5 DEF WrittenInv
<1>8. CASE Sync(t)
  <2>1. thread[t].pc = "sync" /\ UNCHANGED <<lead, logNumber>>
    BY <1>8 DEF Sync, memory
  <2>2. \A u \in Threads : u # t => thread'[u] = thread[u]
    BY <1>1, <1>8 DEF Sync
  <2>3. Written(t)'
    BY <1>8, <2>1, SyncLog DEF WrittenInv, Written
  <2>4. \A u \in Threads : u # t => thread'[u].pc \in {"idle", "queued"}
    BY <1>2, <2>1, <2>2
  <2>. QED
    BY <2>3, <2>4 DEF WrittenInv
<1>9. CASE SyncFails(t)
  <2>1. thread[t].pc = "sync" /\ UNCHANGED <<logs, logNumber>>
    BY <1>9 DEF SyncFails, disk, memory
  <2>2. \A u \in Threads : u # t => thread'[u] = thread[u]
    BY <1>1, <1>9 DEF SyncFails
  <2>3. lead'.failed = TRUE /\ lead'.todo = lead.todo
    BY <1>9 DEF SyncFails, Inv1, QueueKept, QueueTyped
  <2>4. Written(t)'
    BY <2>1, <2>3 DEF WrittenInv, Written
  <2>5. \A u \in Threads : u # t => thread'[u].pc \in {"idle", "queued"}
    BY <1>2, <2>1, <2>2
  <2>. QED
    BY <2>4, <2>5 DEF WrittenInv
<1>10. CASE InsertInto(t)
  <2>1. thread[t].pc = "insert" /\ UNCHANGED <<lead, logNumber, logs>>
    BY <1>10 DEF InsertInto, disk
  <2>2. /\ thread'[t].pc \in {"insert", "finish"} /\ thread'[t].sync = thread[t].sync
        /\ \A u \in Threads : u # t => thread'[u] = thread[u]
    BY <1>1, <1>10 DEF InsertInto
  <2>3. \A u \in Threads : thread'[u].pc \in {"sync", "insert", "finish"} =>
          /\ thread[u].pc \in {"sync", "insert", "finish"} /\ thread'[u].sync = thread[u].sync
          /\ thread[u].pc = "sync" => thread'[u].pc = "sync"
    BY <2>1, <2>2
  <2>. QED
    BY <2>1, <2>3, WrittenStays
<1>11. CASE FinishWrite(t)
  BY <1>11, FinishFacts, NobodyWrites DEF LeadAway
<1>. QED
  BY <1>4, <1>5, <1>6, <1>7, <1>8, <1>9, <1>10, <1>11, <1>12 DEF InWrite

\* Threads are at most woken.
LEMMA WokenWritten ==
  ASSUME Inv1, WrittenInv, UNCHANGED <<lead, logNumber>>, logs'[logNumber] = logs[logNumber],
         UNCHANGED thread \/ thread' = Awakened(thread)
  PROVE  WrittenInv'
<1>1. thread \in [Threads -> [pc : Callers, batch : Nat, sync : BOOLEAN]]
  BY DEF Inv1, QueueKept, QueueTyped
<1>2. \A t \in Threads : thread'[t].pc \in {"sync", "insert", "finish"} => thread'[t] = thread[t]
  <2>1. CASE UNCHANGED thread
    BY <2>1
  <2>2. CASE thread' = Awakened(thread)
    BY <1>1, <2>2 DEF Awakened
  <2>. QED
    BY <2>1, <2>2
<1>. QED
  BY <1>2, WrittenStays

\* Deleting obsolete logs leaves those of the memtables.
LEMMA LiveLogsStay ==
  ASSUME Inv1, FilesInv, DataInv, DeleteFiles
  PROVE  /\ logNumber \in DOMAIN logs' /\ logs'[logNumber] = logs[logNumber]
         /\ imm # 0 /\ imm \in DOMAIN logs => imm \in DOMAIN logs' /\ logs'[imm] = logs[imm]
<1>1. bg.pc = "delete" /\ logs' = Without(logs, bg.garbage.logs)
  BY DEF DeleteFiles
<1>2. Alive /\ Running /\ minLog <= logNumber /\ minLog \in Nat /\ logNumber \in Nat
  BY <1>1, WorkFacts
<1>3. \A n \in bg.garbage.logs : n < minLog /\ n \in Nat
  BY <1>1 DEF DataInv, LogsThere, Inv1, BgTyped, Garbage
<1>4. imm # 0 => minLog <= imm /\ imm \in Nat
  BY <1>2 DEF DataInv, LogsThere, Inv1, MemoryTyped
<1>5. logNumber \notin bg.garbage.logs /\ (imm # 0 => imm \notin bg.garbage.logs)
  BY <1>2, <1>3, <1>4
<1>6. logNumber \in DOMAIN logs
  BY <1>2 DEF DataInv, LogsThere
<1>. QED
  BY <1>1, <1>5, <1>6 DEF Without

LEMMA BackgroundWritten ==
  ASSUME Inv1, FilesInv, DataInv, WrittenInv, Background PROVE WrittenInv'
<1>1. UNCHANGED <<lead, logNumber>>
  BY DEF Background, BackgroundCall, BuildTable, BuildTableFails, FlushBuilt, FlushDuringMerge,
     OpenCompactionOutputFile, FinishCompactionOutputFile, InstallCompactionResults, MergeFails, Commit,
     CommitFails, DeleteFiles, EndOfBackgroundCall, StartFlush, memory, queue
<1>2. UNCHANGED thread \/ thread' = Awakened(thread)
  BY DEF Background, BackgroundCall, BuildTable, BuildTableFails, FlushBuilt, FlushDuringMerge,
     OpenCompactionOutputFile, FinishCompactionOutputFile, InstallCompactionResults, MergeFails, Commit,
     CommitFails, DeleteFiles, EndOfBackgroundCall, queue, RecordBackgroundError, CleanupCompaction
<1>3. CASE DeleteFiles
  BY <1>1, <1>2, <1>3, LiveLogsStay, WokenWritten
<1>4. CASE ~DeleteFiles
  <2>1. UNCHANGED logs
    BY <1>4 DEF Background, BackgroundCall, BuildTable, BuildTableFails, FlushBuilt, FlushDuringMerge,
     OpenCompactionOutputFile, FinishCompactionOutputFile, InstallCompactionResults, MergeFails, Commit,
     CommitFails, EndOfBackgroundCall, disk
  <2>. QED
    BY <1>1, <1>2, <2>1, WokenWritten
<1>. QED
  BY <1>3, <1>4

LEMMA NextWritten ==
  Inv1 /\ Inv1' /\ FilesInv /\ DataInv /\ WrittenInv /\ [Next]_vars => WrittenInv'
<1>. SUFFICES ASSUME Inv1, Inv1', FilesInv, DataInv, WrittenInv, [Next]_vars PROVE WrittenInv'
  OBVIOUS
<1>1. thread \in [Threads -> [pc : Callers, batch : Nat, sync : BOOLEAN]]
  BY DEF Inv1, QueueKept, QueueTyped
<1>2. ASSUME NEW t \in Threads, NEW null \in BOOLEAN, NEW sync \in BOOLEAN, Write(t, null, sync)
      PROVE  WrittenInv'
  <2>1. /\ thread'[t].pc \in {"room", "queued"} /\ \A u \in Threads : u # t => thread'[u] = thread[u]
        /\ UNCHANGED <<logs, logNumber>>
    BY <1>1, <1>2 DEF Write, disk, memory
  <2>2. CASE writers = <<>>
    <3>1. \A u \in Threads : thread[u].pc \in {"idle", "queued"}
      BY <2>2 DEF Inv1, QueueKept, HeadActs
    <3>. QED
      BY <2>1, <3>1, NobodyWrites
  <2>3. CASE writers # <<>>
    <3>1. UNCHANGED lead
      BY <1>2, <2>3 DEF Write
    <3>2. \A u \in Threads : thread'[u].pc \in {"sync", "insert", "finish"} => thread'[u] = thread[u]
      BY <2>1
    <3>. QED
      BY <2>1, <3>1, <3>2, WrittenStays
  <2>. QED
    BY <2>2, <2>3
<1>3. CASE UNCHANGED <<lead, thread, logNumber, logs>>
  BY <1>3, WokenWritten
<1>4. CASE UNCHANGED vars \/ Close
  BY <1>3, <1>4 DEF vars, Close, queue, memory, disk
<1>5. ASSUME NEW r \in Readers, StartRead(r) \/ EndRead(r) PROVE WrittenInv'
  BY <1>3, <1>5 DEF StartRead, EndRead, queue, memory, disk
<1>6. CASE Closed \/ Kill \/ Outage
  <2>1. \A t \in Threads : thread'[t].pc = "idle"
    BY <1>6 DEF Closed, Kill, Outage, Down, Idle
  <2>. QED
    BY <2>1, NobodyWrites
<1>7. CASE db # "open" /\ UNCHANGED thread
  <2>1. \A t \in Threads : thread[t].pc \in {"idle", "queued"}
    BY <1>7, LeaderIsHead
  <2>. QED
    BY <1>7, <2>1, NobodyWrites
<1>8. ASSUME NEW m \in manifests, Recover(m) PROVE WrittenInv'
  BY <1>7, <1>8 DEF Recover, queue
<1>9. ASSUME NEW n \in replay.logs,
             RecoverRecord(n) \/ SkipRecord(n) \/ ReadFails(n) \/ RecoverLogFile(n) PROVE WrittenInv'
  BY <1>7, <1>9 DEF RecoverRecord, SkipRecord, ReadFails, RecoverLogFile, Replaying,
     UnchangedInRecovery, queue
<1>10. CASE Open \/ FinishOpen
  BY <1>7, <1>10 DEF Open, FinishOpen, queue
<1>. QED
  BY <1>2, <1>4, <1>5, <1>6, <1>8, <1>9, <1>10, WriterWritten, BackgroundWritten DEF Next

LEMMA WrittenHolds == Spec => []WrittenInv
<1>1. Init => WrittenInv
  BY DEF Init, Idle, WrittenInv
<1>. QED
  BY <1>1, NextWritten, Inv1Holds, FilesInvHolds, DataInvHolds, PTL DEF Spec

\* Every promise that is made was made before and goes on being kept.
LEMMA PromisesGoOn ==
  ASSUME Inv1, PromisedInv, promised' \subseteq promised,
         \A b \in Nat : \A sync \in BOOLEAN : Promise(b, sync) => Promise(b, sync)'
  PROVE  PromisedInv'
<1>1. \A p \in promised : p[1] \in Nat /\ p[2] \in BOOLEAN /\ Promise(p[1], p[2])
  BY DEF Inv1, HistoryTyped, PromisedInv
<1>2. \A p \in promised : Promise(p[1], p[2])'
  BY <1>1
<1>. QED
  BY <1>2 DEF PromisedInv

\* The log n keeps what it has.
LogGrows(n) ==
  n \in DOMAIN logs =>
    /\ n \in DOMAIN logs'
    /\ logs[n].synced <= logs'[n].synced /\ Len(logs[n].records) <= Len(logs'[n].records)
    /\ \A i \in 1..Len(logs[n].records) : logs'[n].records[i] = logs[n].records[i]

LEMMA LogTyped ==
  ASSUME Inv1, NEW n \in DOMAIN logs
  PROVE  logs[n].synced \in Nat /\ Len(logs[n].records) \in Nat /\ logs[n].synced <= Len(logs[n].records)
<1>1. logs[n] \in LogFile /\ logs[n].synced <= Len(logs[n].records)
  BY DEF Inv1, LogsTyped
<1>2. logs[n].synced \in Nat /\ logs[n].records \in Seq(Seq(Entry))
  BY <1>1 DEF LogFile
<1>3. Len(logs[n].records) \in Nat
  BY <1>2
<1>. QED
  BY <1>1, <1>2, <1>3

LEMMA SameLogGrows ==
  ASSUME Inv1, NEW n, n \in DOMAIN logs => n \in DOMAIN logs' /\ logs'[n] = logs[n] PROVE LogGrows(n)
<1>1. n \in DOMAIN logs => logs[n].synced <= logs[n].synced /\ Len(logs[n].records) <= Len(logs[n].records)
  BY LogTyped
<1>. QED
  BY <1>1 DEF LogGrows

LEMMA LogPrefix ==
  ASSUME Inv1, Inv1', NEW n \in DOMAIN logs, NEW sync \in BOOLEAN, LogGrows(n),
         NEW i \in 1..(IF sync THEN logs[n].synced ELSE Len(logs[n].records))
  PROVE  /\ n \in DOMAIN logs' /\ i \in 1..(IF sync THEN logs'[n].synced ELSE Len(logs'[n].records))
         /\ logs'[n].records[i] = logs[n].records[i]
         /\ BehindHole(n, i)' => BehindHole(n, i)
<1>2. /\ n \in DOMAIN logs'
      /\ logs[n].synced <= logs'[n].synced /\ Len(logs[n].records) <= Len(logs'[n].records)
      /\ \A j \in 1..Len(logs[n].records) : logs'[n].records[j] = logs[n].records[j]
  BY DEF LogGrows
<1>3. /\ logs[n].synced \in Nat /\ Len(logs[n].records) \in Nat
      /\ logs[n].synced <= Len(logs[n].records)
  BY LogTyped
<1>4. logs'[n].synced \in Nat /\ Len(logs'[n].records) \in Nat
  <2>1. logs'[n] \in LogFile
    BY <1>2 DEF Inv1, LogsTyped
  <2>2. logs'[n].synced \in Nat /\ logs'[n].records \in Seq(Seq(Entry))
    BY <2>1 DEF LogFile
  <2>3. Len(logs'[n].records) \in Nat
    BY <2>2
  <2>. QED
    BY <2>2, <2>3
<1>5. i \in 1..(IF sync THEN logs'[n].synced ELSE Len(logs'[n].records)) /\ i \in 1..Len(logs[n].records)
  BY <1>2, <1>3, <1>4
<1>6. \A j \in 1..i : j \in 1..Len(logs[n].records)
  BY <1>3, <1>5
<1>7. BehindHole(n, i)' => BehindHole(n, i)
  BY <1>2, <1>6 DEF BehindHole, Hole
<1>. QED
  BY <1>2, <1>5, <1>7

LEMMA LogKeeps ==
  ASSUME Inv1, Inv1', NEW n, NEW b, NEW sync \in BOOLEAN, LogGrows(n)
  PROVE  (InLog(n, b, sync) => InLog(n, b, sync)') /\ (Readable(n, b, sync) => Readable(n, b, sync)')
<1>1. ASSUME n \in DOMAIN logs
      PROVE  /\ n \in DOMAIN logs'
             /\ \A i \in 1..(IF sync THEN logs[n].synced ELSE Len(logs[n].records)) :
                  /\ i \in 1..(IF sync THEN logs'[n].synced ELSE Len(logs'[n].records))
                  /\ logs'[n].records[i] = logs[n].records[i]
                  /\ BehindHole(n, i)' => BehindHole(n, i)
  BY <1>1, LogPrefix DEF LogGrows
<1>2. ASSUME NEW i, logs'[n].records[i] = logs[n].records[i], Has(RecordEntries(logs[n].records[i]), b)
      PROVE  Has(RecordEntries(logs'[n].records[i]), b)
  BY <1>2
<1>. QED
  BY <1>1, <1>2 DEF InLog, Readable

LEMMA MoreHas == ASSUME NEW S, NEW T, NEW b, S \subseteq T, Has(S, b) PROVE Has(T, b)
BY DEF Has

\* Files that stay keep what is in them.
FilesStay(files) == \A f \in files \cap DOMAIN tables : f \in DOMAIN tables' /\ tables'[f] = tables[f]

LEMMA SafeStays ==
  ASSUME Inv1, Inv1', NEW m, NEW b, NEW sync \in BOOLEAN, FilesStay(FilesOf(m)),
         \A n \in DOMAIN logs : LogGrows(n), Safe(m, b, sync)
  PROVE  Safe(m, b, sync)'
<1>1. CASE InFiles(FilesOf(m), b)
  BY <1>1 DEF Safe, InFiles, FilesStay
<1>2. ASSUME NEW n \in DOMAIN logs, m.log <= n, Readable(n, b, sync) PROVE Safe(m, b, sync)'
  <2>1. Readable(n, b, sync)'
    BY <1>2, LogKeeps
  <2>. QED
    BY <1>2, <2>1 DEF Safe, Readable
<1>. QED
  BY <1>1, <1>2 DEF Safe

\* While the process runs: files, logs and memtables keep what they have.
LEMMA PromiseQuiet ==
  ASSUME Inv1, Inv1', Alive, Alive', UNCHANGED <<manifests, version, imm, logNumber>>,
         FilesStay(FilesOf(version)), \A m \in manifests : FilesStay(FilesOf(m)),
         LogGrows(logNumber), imm # 0 => LogGrows(imm),
         memtables[logNumber] \subseteq memtables'[logNumber], lastSequence <= lastSequence',
         imm # 0 => memtables[imm] \subseteq memtables'[imm],
         NEW b, NEW sync \in BOOLEAN, Promise(b, sync)
  PROVE  Promise(b, sync)'
<1>1. Live(b) /\ \A m \in manifests : Kept(m, b, sync)
  BY DEF Promise
<1>2. /\ lastSequence \in Nat /\ lastSequence' \in Nat
      /\ \A e \in memtables[logNumber] : e.seq \in Nat
  <2>1. logNumber \in DOMAIN memtables /\ lastSequence \in Nat /\ lastSequence' \in Nat
    BY DEF Inv1, Numbered, Running, Alive, MemoryTyped
  <2>2. memtables[logNumber] \subseteq Entry
    BY <2>1 DEF Inv1, MemoryTyped
  <2>. QED
    BY <2>1, <2>2 DEF Entry
<1>3. Live(b)'
  <2>1. CASE InFiles(FilesOf(version), b)
    BY <2>1 DEF Live, InFiles, FilesStay
  <2>2. CASE Has(memtables[logNumber] \ Fresh, b)
    <3>1. PICK e \in memtables[logNumber] : e.batch = b /\ ~(e.seq > lastSequence)
      BY <2>2 DEF Has, Fresh
    <3>2. e \in memtables'[logNumber] /\ ~(e.seq > lastSequence')
      BY <1>2, <3>1
    <3>. QED
      BY <3>1, <3>2 DEF Live, Has, Fresh
  <2>3. CASE imm # 0 /\ Has(memtables[imm], b)
    BY <2>3, MoreHas DEF Live
  <2>. QED
    BY <1>1, <2>1, <2>2, <2>3 DEF Live
<1>4. ASSUME NEW m \in manifests PROVE Kept(m, b, sync)'
  <2>1. CASE InFiles(FilesOf(m), b)
    BY <2>1 DEF Kept, InFiles, FilesStay
  <2>2. CASE LiveLog(logNumber, b, sync)
    <3>1. InLog(logNumber, b, sync)'
      <4>1. \A n : n = logNumber => InLog(n, b, sync)'
        BY <2>2, LogKeeps DEF LiveLog
      <4>2. PICK n : n = logNumber
        OBVIOUS
      <4>3. InLog(n, b, sync)' /\ logNumber' = n
        BY <4>1, <4>2
      <4>. QED
        BY <4>3 DEF InLog
    <3>2. Has(memtables'[logNumber], b)
      BY <2>2, MoreHas DEF LiveLog
    <3>. QED
      BY <3>1, <3>2 DEF Kept, LiveLog
  <2>3. CASE imm # 0 /\ m.log <= imm /\ LiveLog(imm, b, sync)
    <3>1. InLog(imm, b, sync)'
      <4>1. \A n : n = imm => InLog(n, b, sync)'
        BY <2>3, LogKeeps DEF LiveLog
      <4>2. PICK n : n = imm
        OBVIOUS
      <4>3. InLog(n, b, sync)' /\ imm' = n
        BY <4>1, <4>2
      <4>. QED
        BY <4>3 DEF InLog
    <3>2. Has(memtables'[imm], b)
      BY <2>3, MoreHas DEF LiveLog
    <3>. QED
      BY <2>3, <3>1, <3>2 DEF Kept, LiveLog
  <2>. QED
    BY <1>1, <2>1, <2>2, <2>3 DEF Kept
<1>. QED
  BY <1>3, <1>4 DEF Promise, Alive

\* Nothing a promise is about changes, or only grows.
LEMMA PromisesQuiet ==
  ASSUME Inv1, Inv1', PromisedInv, Alive, Alive',
         UNCHANGED <<manifests, version, imm, logNumber, promised>>,
         FilesStay(FilesOf(version)), \A m \in manifests : FilesStay(FilesOf(m)),
         LogGrows(logNumber), imm # 0 => LogGrows(imm),
         memtables[logNumber] \subseteq memtables'[logNumber], lastSequence <= lastSequence',
         imm # 0 => memtables[imm] \subseteq memtables'[imm]
  PROVE  PromisedInv'
<1>1. \A b \in Nat : \A sync \in BOOLEAN : Promise(b, sync) => Promise(b, sync)'
  BY PromiseQuiet
<1>. QED
  BY <1>1, PromisesGoOn

LEMMA PromisesSame ==
  ASSUME Inv1, Inv1', PromisedInv, Alive, Alive',
         UNCHANGED <<manifests, version, imm, logNumber, promised, lastSequence>>,
         \A f \in DOMAIN tables : f \in DOMAIN tables' /\ tables'[f] = tables[f],
         logs' = logs, memtables'[logNumber] = memtables[logNumber],
         imm # 0 => memtables'[imm] = memtables[imm]
  PROVE  PromisedInv'
<1>1. LogGrows(logNumber) /\ LogGrows(imm)
  BY SameLogGrows
<1>2. lastSequence <= lastSequence
  BY DEF Inv1, MemoryTyped
<1>. QED
  BY <1>1, <1>2, PromisesQuiet DEF FilesStay

LEMMA SwitchMemTablePromises ==
  ASSUME Inv1, Inv1', FilesInv, DataInv, PromisedInv, NEW t \in Threads, SwitchMemTable(t)
  PROVE  PromisedInv'
<1>1. /\ UNCHANGED <<tables, manifests, db, version, promised>>
      /\ logNumber' = nextFile /\ imm' = logNumber /\ imm = 0 /\ db = "open"
      /\ logs' = With(logs, nextFile, [records |-> <<>>, synced |-> 0])
      /\ memtables' = With(memtables, nextFile, {})
  BY DEF SwitchMemTable, opening, InRoom, None, history
<1>2. /\ logNumber < nextFile /\ 0 < logNumber /\ logNumber \in Nat /\ nextFile \in Nat
      /\ logNumber \in DOMAIN memtables /\ logNumber \in DOMAIN logs
      /\ \A m \in manifests : m.log <= logNumber
  BY <1>1 DEF Inv1, Numbered, Running, MemoryTyped, DataInv, LogsThere, Alive
<1>3. /\ logNumber \in DOMAIN logs' /\ logs'[logNumber] = logs[logNumber]
      /\ memtables'[logNumber] = memtables[logNumber]
  BY <1>1, <1>2 DEF With
<1>4. SUFFICES ASSUME NEW b \in Nat, NEW sync \in BOOLEAN, Promise(b, sync) PROVE Promise(b, sync)'
  BY <1>1, PromisesGoOn
<1>5. Live(b) /\ \A m \in manifests : Kept(m, b, sync)
  BY <1>1, <1>4 DEF Promise, Alive
<1>6. Live(b)'
  <2>1. CASE Has(memtables[logNumber] \ Fresh, b)
    <3>1. Has(memtables'[imm'], b) /\ imm' # 0
      BY <1>1, <1>2, <1>3, <2>1, MoreHas
    <3>. QED
      BY <3>1 DEF Live
  <2>. QED
    BY <1>1, <1>5, <2>1 DEF Live, InFiles
<1>7. ASSUME NEW m \in manifests PROVE Kept(m, b, sync)'
  <2>1. CASE LiveLog(logNumber, b, sync)
    <3>1. InLog(logNumber, b, sync) /\ Has(memtables'[imm'], b) /\ m.log <= imm' /\ imm' # 0
      BY <1>1, <1>2, <1>3, <2>1 DEF LiveLog
    <3>2. InLog(imm, b, sync)'
      BY <1>1, <1>3, <3>1 DEF InLog
    <3>. QED
      BY <3>1, <3>2 DEF Kept, LiveLog
  <2>. QED
    BY <1>1, <1>5, <2>1 DEF Kept, InFiles
<1>. QED
  BY <1>1, <1>6, <1>7 DEF Promise, Alive

\* What the leader promises when it finishes: the group's record is the last
\* one of the log, and its entries are in the memtable.
LEMMA NewPromise ==
  ASSUME Inv1, Inv1', FilesInv, DataInv, WrittenInv, NEW t \in Threads, FinishWrite(t), ~lead.failed,
         NEW i \in 1..lead.size, NEW b, NEW sync, b = thread[writers[i]].batch, b # 0,
         sync = thread[writers[i]].sync
  PROVE  Promise(b, sync)'
<1>. DEFINE r == logs[logNumber].records
            k == Len(r)
<1>1. /\ db = "open" /\ thread[t].pc = "finish" /\ GroupInv(t)
      /\ \A e \in memtables[logNumber] : e.seq <= lastSequence' /\ lastSequence' \in Nat
      /\ \A j \in 1..lead.size : writers[j] \in Threads
  BY FinishFacts DEF Inv1, MemoryTyped
<1>2. UNCHANGED <<logs, tables, manifests, db, memtables, imm, logNumber, version>>
  BY DEF FinishWrite, disk, opening
<1>4. PICK j \in 1..Len(lead.todo) : lead.todo[j].batch = b
  BY <1>1 DEF GroupInv
<1>5. lead.todo \in Seq(Entry) /\ j \in DOMAIN lead.todo /\ logNumber \in DOMAIN logs /\ k \in Nat
  <2>1. lead.todo \in Seq(Entry) /\ logNumber \in DOMAIN logs
    BY <1>1 DEF Inv1, QueueKept, QueueTyped, DataInv, LogsThere, Running
  <2>2. k \in Nat
    BY <2>1, LogTyped
  <2>3. j \in DOMAIN lead.todo
    BY <2>1, <1>4
  <2>. QED
    BY <2>1, <2>2, <2>3
<1>6. Has(memtables[logNumber] \ Fresh', b) /\ Has(memtables[logNumber], b)
  <2>1. Fresh = FirstEntries(Len(lead.todo))
    BY <1>1 DEF GroupInv
  <2>2. lead.todo[j] \in memtables[logNumber]
    BY <1>4, <2>1 DEF Fresh, FirstEntries
  <2>3. lead.todo[j].seq \in Nat
    <3>1. Len(lead.todo) \in Nat /\ lastSequence \in Nat
      BY FinishFacts
    <3>2. lead.todo[j].seq = lastSequence + j /\ j \in Nat
      BY <1>1, <1>4, <3>1 DEF GroupInv
    <3>. QED
      BY <3>1, <3>2
  <2>4. lead.todo[j] \notin Fresh'
    BY <1>1, <1>2, <2>2, <2>3 DEF Fresh
  <2>. QED
    BY <1>4, <2>2, <2>4 DEF Has
<1>7. InLog(logNumber, b, sync)
  <2>1. /\ 0 < k /\ r[k] = lead.todo /\ (thread[t].sync => logs[logNumber].synced = k)
    BY <1>1 DEF WrittenInv, Written
  <2>2. Has(RecordEntries(r[k]), b)
    BY <1>4, <1>5, <2>1 DEF Has, RecordEntries
  <2>3. sync => thread[t].sync
    BY <1>1 DEF GroupInv
  <2>4. k \in 1..(IF sync THEN logs[logNumber].synced ELSE Len(logs[logNumber].records))
    BY <1>5, <2>1, <2>3
  <2>. QED
    BY <1>5, <2>2, <2>4 DEF InLog
<1>8. Live(b)'
  BY <1>2, <1>6 DEF Live
<1>9. \A m \in manifests : Kept(m, b, sync)'
  <2>1. LiveLog(logNumber, b, sync)'
    BY <1>2, <1>6, <1>7 DEF LiveLog, InLog
  <2>. QED
    BY <2>1 DEF Kept
<1>. QED
  BY <1>1, <1>2, <1>8, <1>9 DEF Promise, Alive

\* Nothing a promise is about changes at all.
LEMMA PromisesFrame ==
  ASSUME PromisedInv, UNCHANGED <<disk, opening, memory, history>> PROVE PromisedInv'
<1>1. UNCHANGED <<logs, tables, manifests, db, replay, memtables, imm, logNumber, version, lastSequence,
                  promised>>
  BY DEF disk, opening, memory, history
<1>2. Fresh' = Fresh
  BY <1>1 DEF Fresh
<1>3. \A p \in promised : Promise(p[1], p[2])' <=> Promise(p[1], p[2])
  BY <1>1, <1>2 DEF Promise, Alive, Live, Kept, Safe, LiveLog, InLog, Readable, BehindHole, Hole, InFiles,
     Replayed
<1>. QED
  BY <1>1, <1>3 DEF PromisedInv

LEMMA FinishWritePromises ==
  ASSUME Inv1, Inv1', FilesInv, DataInv, WrittenInv, PromisedInv, NEW t \in Threads, FinishWrite(t)
  PROVE  PromisedInv'
<1>1. /\ db = "open" /\ lastSequence \in Nat /\ Len(lead.todo) \in Nat
      /\ lastSequence' = lastSequence + Len(lead.todo)
  BY FinishFacts
<1>2. UNCHANGED <<logs, tables, manifests, db, memtables, imm, logNumber, version>>
  BY DEF FinishWrite, disk, opening
<1>3. /\ Alive /\ Alive' /\ lastSequence <= lastSequence'
      /\ FilesStay(FilesOf(version)) /\ \A m \in manifests : FilesStay(FilesOf(m))
  BY <1>1, <1>2 DEF Alive, FilesStay
<1>4. LogGrows(logNumber) /\ LogGrows(imm)
  BY <1>2, SameLogGrows
<1>5. \A b \in Nat : \A sync \in BOOLEAN : Promise(b, sync) => Promise(b, sync)'
  BY <1>2, <1>3, <1>4, PromiseQuiet
<1>6. ASSUME NEW p \in promised PROVE Promise(p[1], p[2])'
  BY <1>5 DEF PromisedInv, Inv1, HistoryTyped
<1>7. ASSUME ~lead.failed, NEW i \in 1..lead.size, thread[writers[i]].batch # 0, NEW p,
             p = <<thread[writers[i]].batch, thread[writers[i]].sync>>
      PROVE  Promise(p[1], p[2])'
  BY <1>7, NewPromise
<1>8. promised' = IF lead.failed THEN promised
                  ELSE promised \cup {<<thread[writers[i]].batch, thread[writers[i]].sync>> :
                                     i \in {j \in 1..lead.size : thread[writers[j]].batch # 0}}
  BY DEF FinishWrite
<1>9. \A p \in promised' : p \in promised \/
        (~lead.failed /\ \E i \in 1..lead.size : /\ thread[writers[i]].batch # 0
                                                /\ p = <<thread[writers[i]].batch, thread[writers[i]].sync>>)
  BY <1>8
<1>10. \A p \in promised' : Promise(p[1], p[2])'
  BY <1>6, <1>7, <1>9
<1>. QED
  BY <1>10 DEF PromisedInv

LEMMA WriterPromises ==
  ASSUME Inv1, Inv1', FilesInv, DataInv, WrittenInv, PromisedInv, NEW t \in Threads, InWrite(t)
  PROVE  PromisedInv'
<1>1. CASE UNCHANGED <<disk, opening, memory, history>>
  BY <1>1, PromisesFrame
<1>2. CASE YieldError(t) \/ Delay(t) \/ WaitForBackground(t) \/ NewLogFails(t) \/ FoundRoom(t)
           \/ SyncFails(t)
  BY <1>1, <1>2 DEF YieldError, Delay, WaitForBackground, NewLogFails, FoundRoom, SyncFails
<1>3. ASSUME thread[t].pc \notin {"idle", "queued"}, UNCHANGED <<opening, manifests, tables>>
      PROVE  /\ Alive /\ Alive' /\ lastSequence <= lastSequence /\ (imm # logNumber \/ imm = 0)
             /\ FilesStay(FilesOf(version)) /\ \A m \in manifests : FilesStay(FilesOf(m))
             /\ logNumber \in DOMAIN memtables
  <2>1. db = "open" /\ db' = "open"
    BY <1>3, LeaderIsHead DEF opening
  <2>. QED
    BY <1>3, <2>1 DEF Alive, FilesStay, Inv1, MemoryTyped, Numbered, Running
<1>4. CASE AddRecord(t) \/ AppendFails(t)
  <2>1. /\ thread[t].pc = "log" /\ UNCHANGED <<opening, memory, tables, manifests, promised>>
    BY <1>4 DEF AddRecord, AppendFails, history
  <2>2. LogGrows(logNumber) /\ (imm # 0 => LogGrows(imm))
    <3>1. LogGrows(logNumber)
      <4>1. /\ logNumber \in DOMAIN logs /\ DOMAIN logs' = DOMAIN logs
            /\ logs'[logNumber].synced = logs[logNumber].synced
            /\ Len(logs[logNumber].records) \in Nat /\ logs[logNumber].synced \in Nat
            /\ Len(logs'[logNumber].records) = Len(logs[logNumber].records) + 1
            /\ \A i \in 1..Len(logs[logNumber].records) :
                 logs'[logNumber].records[i] = logs[logNumber].records[i]
        BY <1>4, AddRecordLog, AppendFailsLog, LogTyped
      <4>2. /\ Len(logs[logNumber].records) <= Len(logs'[logNumber].records)
            /\ logs[logNumber].synced <= logs'[logNumber].synced
        BY <4>1
      <4>. QED
        BY <4>1, <4>2 DEF LogGrows
    <3>2. ASSUME imm # logNumber PROVE LogGrows(imm)
      <4>1. imm \in DOMAIN logs => imm \in DOMAIN logs' /\ logs'[imm] = logs[imm]
        BY <1>4, <3>2, AddRecordLog, AppendFailsLog
      <4>. QED
        BY <4>1, SameLogGrows
    <3>. QED
      BY <3>1, <3>2
  <2>3. /\ UNCHANGED <<manifests, version, imm, logNumber, promised>> /\ lastSequence <= lastSequence'
        /\ memtables[logNumber] \subseteq memtables'[logNumber]
        /\ imm # 0 => memtables[imm] \subseteq memtables'[imm]
    BY <1>3, <2>1 DEF memory
  <2>. QED
    BY <1>3, <2>1, <2>2, <2>3, PromisesQuiet
<1>5. CASE Sync(t)
  <2>1. /\ thread[t].pc = "sync" /\ UNCHANGED <<opening, memory, tables, manifests, promised>>
    BY <1>5 DEF Sync, history
  <2>2. LogGrows(logNumber) /\ (imm # 0 => LogGrows(imm))
    <3>1. LogGrows(logNumber)
      <4>1. /\ logNumber \in DOMAIN logs /\ DOMAIN logs' = DOMAIN logs
            /\ logs'[logNumber].synced = Len(logs[logNumber].records)
            /\ logs'[logNumber].records = logs[logNumber].records
            /\ Len(logs[logNumber].records) \in Nat
            /\ logs[logNumber].synced <= Len(logs[logNumber].records)
        BY <1>5, SyncLog, LogTyped
      <4>2. Len(logs[logNumber].records) <= Len(logs[logNumber].records)
        BY <4>1
      <4>. QED
        BY <4>1, <4>2 DEF LogGrows
    <3>2. ASSUME imm # logNumber PROVE LogGrows(imm)
      <4>1. imm \in DOMAIN logs => imm \in DOMAIN logs' /\ logs'[imm] = logs[imm]
        BY <1>5, <3>2, SyncLog
      <4>. QED
        BY <4>1, SameLogGrows
    <3>. QED
      BY <3>1, <3>2
  <2>3. /\ UNCHANGED <<manifests, version, imm, logNumber, promised>> /\ lastSequence <= lastSequence'
        /\ memtables[logNumber] \subseteq memtables'[logNumber]
        /\ imm # 0 => memtables[imm] \subseteq memtables'[imm]
    BY <1>3, <2>1 DEF memory
  <2>. QED
    BY <1>3, <2>1, <2>2, <2>3, PromisesQuiet
<1>6. CASE InsertInto(t)
  <2>1. /\ thread[t].pc = "insert"
        /\ UNCHANGED <<opening, logs, tables, manifests, imm, logNumber, version, lastSequence, promised>>
        /\ \E next : memtables' = [memtables EXCEPT ![logNumber] = @ \cup {next}]
    BY <1>6 DEF InsertInto, history, disk
  <2>2. /\ memtables[logNumber] \subseteq memtables'[logNumber]
        /\ imm # 0 => memtables[imm] \subseteq memtables'[imm]
    <3>1. logNumber \in DOMAIN memtables /\ (imm # 0 => imm \in DOMAIN memtables)
      BY <1>3, <2>1 DEF Inv1, Numbered, Running, Alive
    <3>. QED
      BY <2>1, <3>1
  <2>3. LogGrows(logNumber) /\ LogGrows(imm)
    BY <2>1, SameLogGrows
  <2>4. lastSequence <= lastSequence'
    BY <1>3, <2>1
  <2>. QED
    BY <1>3, <2>1, <2>2, <2>3, <2>4, PromisesQuiet
<1>. QED
  BY <1>2, <1>4, <1>5, <1>6, SwitchMemTablePromises, FinishWritePromises DEF InWrite

\* What tables held is in the tables of an edit, too.
LEMMA EditKeeps ==
  ASSUME NEW what, NEW edit, Covers(what, edit), what \in {"flush", "merge"},
         edit.added0 \cup edit.addedDeeper \subseteq DOMAIN tables, NEW files, NEW b, InFiles(files, b)
  PROVE  InFiles((files \ edit.deleted) \cup edit.added0 \cup edit.addedDeeper, b)
<1>1. PICK f \in files \cap DOMAIN tables : \E e \in tables[f] : e.batch = b
  BY DEF InFiles, Has
<1>2. PICK e \in tables[f] : e.batch = b
  BY <1>1
<1>3. CASE f \notin edit.deleted
  BY <1>1, <1>2, <1>3 DEF InFiles, Has
<1>4. CASE f \in edit.deleted
  <2>1. what = "merge" /\ f \in bg.inputs
    BY <1>4 DEF Covers
  <2>2. PICK g \in edit.addedDeeper : e \in tables[g]
    BY <1>2, <2>1 DEF Covers
  <2>. QED
    BY <1>2, <2>2 DEF InFiles, Has
<1>. QED
  BY <1>3, <1>4

LEMMA FlushKeeps ==
  ASSUME NEW edit, Covers("flush", edit), edit.added0 \subseteq DOMAIN tables, NEW b, Has(memtables[imm], b)
  PROVE  InFiles(edit.added0, b)
<1>1. PICK e \in memtables[imm] : e.batch = b
  BY DEF Has
<1>2. PICK f \in edit.added0 : e \in tables[f]
  BY <1>1 DEF Covers
<1>. QED
  BY <1>1, <1>2 DEF InFiles, Has

LEMMA AppliedFiles ==
  ASSUME NEW m, NEW edit
  PROVE  /\ FilesOf(Applied(m, edit)) = (FilesOf(m) \ edit.deleted) \cup edit.added0 \cup edit.addedDeeper
         /\ Applied(m, edit).log = edit.log
BY DEF FilesOf, Applied

LEMMA MoreFiles == ASSUME NEW S, NEW T, NEW b, S \subseteq T, InFiles(S, b) PROVE InFiles(T, b)
BY DEF InFiles

\* Both what the MANIFEST says with the edit and without it names the entries.
LEMMA CommitStartPromises ==
  ASSUME Inv1, Inv1', FilesInv, DataInv, PromisedInv, NEW what, NEW edit, Committing(what, edit)
  PROVE  PromisedInv'
<1>1. /\ manifests' = manifests \cup {Applied(m, edit) : m \in manifests}
      /\ UNCHANGED <<logs, tables, db, memtables, imm, logNumber, version, lastSequence, promised>>
      /\ Covers(what, edit) /\ what \in {"flush", "merge"}
      /\ edit.added0 \cup edit.addedDeeper \subseteq DOMAIN tables
  BY DEF Committing, StartCommit, opening
<1>2. Alive /\ Alive'
  BY <1>1, WorkFacts DEF Committing, Alive
<1>3. SUFFICES ASSUME NEW b \in Nat, NEW sync \in BOOLEAN, Promise(b, sync) PROVE Promise(b, sync)'
  BY <1>1, PromisesGoOn
<1>4. Live(b) /\ \A m \in manifests : Kept(m, b, sync)
  BY <1>2, <1>3 DEF Promise
<1>5. Live(b)'
  BY <1>1, <1>4 DEF Live, InFiles, Fresh
<1>6. ASSUME NEW m \in manifests PROVE Kept(Applied(m, edit), b, sync)
  <2>. DEFINE new == Applied(m, edit)
  <2>1. /\ FilesOf(new) = (FilesOf(m) \ edit.deleted) \cup edit.added0 \cup edit.addedDeeper
        /\ new.log = edit.log
    BY AppliedFiles
  <2>. SUFFICES Kept(new, b, sync)
    OBVIOUS
  <2>. HIDE DEF new
  <2>2. CASE InFiles(FilesOf(m), b)
    BY <1>1, <2>1, <2>2, EditKeeps DEF Kept
  <2>3. CASE LiveLog(logNumber, b, sync)
    BY <2>3 DEF Kept
  <2>4. CASE imm # 0 /\ m.log <= imm /\ LiveLog(imm, b, sync) /\ what = "flush"
    <3>1. Has(memtables[imm], b)
      BY <2>4 DEF LiveLog
    <3>2. InFiles(edit.added0, b)
      BY <1>1, <2>4, <3>1, FlushKeeps
    <3>. QED
      BY <2>1, <3>2, MoreFiles DEF Kept
  <2>5. CASE imm # 0 /\ m.log <= imm /\ LiveLog(imm, b, sync) /\ what = "merge"
    <3>1. new.log = minLog /\ minLog <= imm
      BY <1>1, <1>2, <2>1, <2>5 DEF Covers, DataInv, LogsThere
    <3>. QED
      BY <2>5, <3>1 DEF Kept
  <2>. QED
    BY <1>1, <1>4, <2>2, <2>3, <2>4, <2>5 DEF Kept
<1>7. \A m \in manifests' : Kept(m, b, sync)
  BY <1>1, <1>4, <1>6
<1>8. \A m : Kept(m, b, sync)' <=> Kept(m, b, sync)
  BY <1>1 DEF Kept, InFiles, LiveLog, InLog
<1>. QED
  BY <1>2, <1>5, <1>7, <1>8 DEF Promise, Alive

LEMMA CommitPromises ==
  ASSUME Inv1, Inv1', FilesInv, DataInv, PromisedInv, Commit PROVE PromisedInv'
<1>1. /\ bg.pc = "commit" /\ manifests' = {Applied(m, bg.edit) : m \in bg.before}
      /\ version' = Installed(bg.edit)
      /\ imm' = IF bg.what = "flush" THEN 0 ELSE imm
      /\ memtables' = Referenced(memtables, logNumber, imm')
      /\ UNCHANGED <<logs, tables, db, logNumber, lastSequence, promised>>
  BY DEF Commit, Installed, None, opening, history
<1>2. /\ Alive /\ Alive' /\ manifests' \subseteq manifests
      /\ \A m \in manifests' : m.log = bg.edit.log
  BY <1>1, WorkFacts, AppliedFiles DEF FilesInv, CommitInv, Alive
<1>3. /\ Covers(bg.what, bg.edit) /\ bg.what \in {"flush", "merge"}
      /\ bg.edit.added0 \cup bg.edit.addedDeeper \subseteq DOMAIN tables
      /\ bg.edit.added0 \subseteq DOMAIN tables
  BY <1>1 DEF DataInv, Flushed, Covers, FilesInv, CommitInv, Inv1, BgTyped
<1>4. /\ logNumber \in DOMAIN memtables /\ logNumber \in Nat
      /\ imm # 0 => imm \in DOMAIN memtables /\ imm \in Nat /\ imm < logNumber
  BY <1>2 DEF Inv1, Numbered, Running, Alive, MemoryTyped
<1>5. /\ memtables'[logNumber] = memtables[logNumber]
      /\ imm' # 0 => memtables'[imm'] = memtables[imm]
  BY <1>1, <1>4 DEF Referenced
<1>6. SUFFICES ASSUME NEW b \in Nat, NEW sync \in BOOLEAN, Promise(b, sync) PROVE Promise(b, sync)'
  BY <1>1, PromisesGoOn
<1>7. Live(b) /\ \A m \in manifests : Kept(m, b, sync)
  BY <1>2, <1>6 DEF Promise
<1>8. Live(b)'
  <2>1. FilesOf(version') = (FilesOf(version) \ bg.edit.deleted) \cup bg.edit.added0 \cup bg.edit.addedDeeper
    BY <1>1 DEF Installed, FilesOf
  <2>2. CASE InFiles(FilesOf(version), b)
    <3>1. InFiles(FilesOf(version'), b)
      BY <1>3, <2>1, <2>2, EditKeeps
    <3>. QED
      BY <1>1, <3>1 DEF Live, InFiles
  <2>3. CASE Has(memtables[logNumber] \ Fresh, b)
    BY <1>1, <1>5, <2>3 DEF Live, Fresh
  <2>4. CASE imm # 0 /\ Has(memtables[imm], b) /\ bg.what = "flush"
    <3>1. InFiles(bg.edit.added0, b)
      BY <1>3, <2>4, FlushKeeps
    <3>2. InFiles(FilesOf(version'), b)
      BY <2>1, <3>1, MoreFiles
    <3>. QED
      BY <1>1, <3>2 DEF Live, InFiles
  <2>5. CASE imm # 0 /\ Has(memtables[imm], b) /\ bg.what = "merge"
    BY <1>1, <1>5, <2>5 DEF Live
  <2>. QED
    BY <1>3, <1>7, <2>2, <2>3, <2>4, <2>5 DEF Live
<1>9. ASSUME NEW m \in manifests' PROVE Kept(m, b, sync)'
  <2>1. Kept(m, b, sync) /\ m.log = bg.edit.log
    BY <1>2, <1>7
  <2>2. CASE InFiles(FilesOf(m), b)
    BY <1>1, <2>2 DEF Kept, InFiles
  <2>3. CASE LiveLog(logNumber, b, sync)
    BY <1>1, <1>5, <2>3 DEF Kept, LiveLog, InLog
  <2>4. CASE imm # 0 /\ m.log <= imm /\ LiveLog(imm, b, sync) /\ bg.what = "flush"
    <3>1. m.log = logNumber
      BY <1>3, <2>1, <2>4 DEF Covers
    <3>2. FALSE
      BY <1>4, <2>4, <3>1
    <3>. QED
      BY <3>2
  <2>5. CASE imm # 0 /\ m.log <= imm /\ LiveLog(imm, b, sync) /\ bg.what = "merge"
    BY <1>1, <1>5, <2>5 DEF Kept, LiveLog, InLog
  <2>. QED
    BY <1>3, <2>1, <2>2, <2>3, <2>4, <2>5 DEF Kept
<1>. QED
  BY <1>2, <1>8, <1>9 DEF Promise, Alive

LEMMA DeleteFilesPromises ==
  ASSUME Inv1, Inv1', FilesInv, FilesInv', DataInv, PromisedInv, DeleteFiles PROVE PromisedInv'
<1>1. /\ bg.pc = "delete" /\ tables' = Without(tables, bg.garbage.tables)
      /\ logs' = Without(logs, bg.garbage.logs)
      /\ UNCHANGED <<manifests, db, memtables, imm, logNumber, version, lastSequence, promised>>
  BY DEF DeleteFiles, memory, opening, history
<1>2. Alive /\ Alive' /\ lastSequence <= lastSequence'
  BY <1>1, WorkFacts DEF Alive, Inv1, MemoryTyped
<1>3. \A f \in DOMAIN tables' : tables'[f] = tables[f]
  BY <1>1 DEF Without
<1>4. FilesStay(FilesOf(version)) /\ \A m \in manifests : FilesStay(FilesOf(m))
  BY <1>1, <1>2, <1>3 DEF FilesStay, FilesInv, VersionThere, Running, Alive, DatabaseOpens
<1>5. LogGrows(logNumber) /\ (imm # 0 => LogGrows(imm))
  BY LiveLogsStay, SameLogGrows
<1>. QED
  BY <1>1, <1>2, <1>4, <1>5, PromisesQuiet

LEMMA BackgroundPromises ==
  ASSUME Inv1, Inv1', FilesInv, FilesInv', DataInv, PromisedInv, Background PROVE PromisedInv'
<1>1. CASE (FlushBuilt \/ InstallCompactionResults) /\ bg'.pc = "commit"
  BY <1>1, CommittingStep, CommitStartPromises
<1>2. CASE Commit
  BY <1>2, CommitPromises
<1>3. CASE DeleteFiles
  BY <1>3, DeleteFilesPromises
<1>4. CASE ~DeleteFiles /\ ~Commit /\ ~((FlushBuilt \/ InstallCompactionResults) /\ bg'.pc = "commit")
  <2>1. /\ UNCHANGED <<logs, manifests, opening, memtables, imm, logNumber, version, lastSequence, promised>>
        /\ bg.pc # "off"
    <3>1. CASE (FlushBuilt \/ InstallCompactionResults) /\ bg'.pc # "commit"
      BY <3>1 DEF FlushBuilt, InstallCompactionResults, StartCommit, Inv1, BgTyped, history
    <3>. QED
      BY <1>4, <3>1 DEF Background, BackgroundCall, BuildTable, BuildTableFails, FlushDuringMerge,
         OpenCompactionOutputFile, FinishCompactionOutputFile, MergeFails, CommitFails,
         EndOfBackgroundCall, StartFlush, memory, disk, history
  <2>2. \A f \in DOMAIN tables : f \in DOMAIN tables' /\ tables'[f] = tables[f]
    <3>1. CASE UNCHANGED tables
      BY <3>1
    <3>2. CASE BuildTable
      <4>1. bg.number \notin DOMAIN tables
        BY <3>2 DEF BuildTable, FilesInv, WorkInv
      <4>. QED
        BY <3>2, <4>1 DEF BuildTable, With
    <3>3. CASE FinishCompactionOutputFile
      BY <3>3 DEF FinishCompactionOutputFile, With
    <3>. QED
      BY <1>4, <3>1, <3>2, <3>3 DEF Background, BackgroundCall, BuildTableFails, FlushBuilt,
         FlushDuringMerge, OpenCompactionOutputFile, InstallCompactionResults, MergeFails, CommitFails,
         EndOfBackgroundCall, disk
  <2>3. Alive /\ Alive'
    BY <2>1, WorkFacts DEF Alive, opening
  <2>. QED
    BY <2>1, <2>2, <2>3, PromisesSame
<1>. QED
  BY <1>1, <1>2, <1>3, <1>4

\* When the process ends the files hold what was kept.
LEMMA KeptIsSafe ==
  ASSUME Inv1, FilesInv, DataInv, NEW b, NEW sync \in BOOLEAN, Promise(b, sync), ~Exposed(b),
         NEW m \in manifests
  PROVE  Safe(m, b, sync)
<1>1. CASE Alive
  <2>1. Kept(m, b, sync) /\ m.log <= logNumber
    BY <1>1 DEF Promise, DataInv, LogsThere
  <2>2. ASSUME NEW n, InLog(n, b, sync), m.log <= n PROVE Safe(m, b, sync)
    <3>1. n \in DOMAIN logs
      BY <2>2 DEF InLog
    <3>2. PICK i \in 1..(IF sync THEN logs[n].synced ELSE Len(logs[n].records)) :
            Has(RecordEntries(logs[n].records[i]), b)
      BY <2>2 DEF InLog
    <3>3. i \in DOMAIN logs[n].records
      <4>1. logs[n].records \in Seq(Seq(Entry))
        BY <3>1 DEF Inv1, LogsTyped, LogFile
      <4>2. logs[n].synced \in Nat /\ Len(logs[n].records) \in Nat /\ logs[n].synced <= Len(logs[n].records)
        BY <3>1, LogTyped
      <4>. QED
        BY <3>2, <4>1, <4>2
    <3>4. ~BehindHole(n, i)
      BY <2>2, <3>1, <3>2, <3>3 DEF Exposed, Has
    <3>. QED
      BY <2>2, <3>1, <3>2, <3>4 DEF Safe, Readable
  <2>. QED
    BY <2>1, <2>2 DEF Kept, LiveLog, Safe
<1>. QED
  BY <1>1 DEF Promise

LEMMA DownPromises ==
  ASSUME Inv1, Inv1', FilesInv, DataInv, PromisedInv, Closed \/ Kill \/ Outage PROVE PromisedInv'
<1>1. db' = "closed" /\ ~Alive' /\ UNCHANGED <<tables, manifests>>
  BY DEF Closed, Kill, Outage, Down, disk, Alive
<1>2. \A m : FilesStay(FilesOf(m))
  BY <1>1 DEF FilesStay
<1>3. CASE Closed \/ Kill
  <2>1. logs' = logs /\ promised' = Lasting(promised)
    BY <1>3 DEF Closed, Kill, disk
  <2>2. \A n \in DOMAIN logs : LogGrows(n)
    BY <2>1, SameLogGrows
  <2>3. ASSUME NEW b \in Nat, NEW sync \in BOOLEAN, Promise(b, sync), ~Exposed(b) PROVE Promise(b, sync)'
    <3>1. \A m \in manifests : Safe(m, b, sync)'
      BY <1>2, <2>2, <2>3, KeptIsSafe, SafeStays
    <3>. QED
      BY <1>1, <3>1 DEF Promise, Alive
  <2>4. ASSUME NEW p \in promised' PROVE Promise(p[1], p[2])'
    <3>1. p \in promised /\ ~Exposed(p[1])
      BY <2>1, <2>4, PromisesLast
    <3>2. p[1] \in Nat /\ p[2] \in BOOLEAN /\ Promise(p[1], p[2])
      BY <3>1 DEF Inv1, HistoryTyped, PromisedInv
    <3>. QED
      BY <2>3, <3>1, <3>2
  <2>. QED
    BY <2>4 DEF PromisedInv
<1>4. CASE Outage
  <2>1. promised' = {p \in Lasting(promised) : p[2]}
    BY <1>4 DEF Outage
  <2>2. /\ DOMAIN logs' = DOMAIN logs
        /\ \A n \in DOMAIN logs :
              /\ Len(logs'[n].records) \in Nat /\ logs'[n].synced = Len(logs'[n].records)
              /\ logs[n].synced <= Len(logs'[n].records)
              /\ \A i \in 1..Len(logs'[n].records) : logs'[n].records[i] = logs[n].records[i]
    BY <1>4, OutageLogs DEF Inv1
  <2>3. ASSUME NEW n, NEW b, Readable(n, b, TRUE) PROVE Readable(n, b, TRUE)'
    <3>1. n \in DOMAIN logs /\ logs[n].synced \in Nat
      BY <2>3, LogTyped DEF Readable
    <3>2. PICK i \in 1..logs[n].synced : Has(RecordEntries(logs[n].records[i]), b) /\ ~BehindHole(n, i)
      BY <2>3 DEF Readable
    <3>3. i \in 1..Len(logs'[n].records) /\ i \in 1..logs'[n].synced
      BY <2>2, <3>1, <3>2
    <3>4. Has(RecordEntries(logs'[n].records[i]), b)
      BY <2>2, <3>1, <3>2, <3>3
    <3>5. \A j \in 1..i : j \in 1..Len(logs'[n].records)
      BY <2>2, <3>1, <3>3
    <3>6. ~BehindHole(n, i)'
      BY <2>2, <3>1, <3>2, <3>5 DEF BehindHole, Hole
    <3>. QED
      BY <2>2, <3>1, <3>3, <3>4, <3>6 DEF Readable
  <2>4. ASSUME NEW p \in promised' PROVE Promise(p[1], p[2])'
    <3>1. p \in promised /\ p[2] = TRUE /\ Promise(p[1], TRUE) /\ ~Exposed(p[1])
      <4>1. p \in promised /\ p[2] /\ p[2] \in BOOLEAN /\ ~Exposed(p[1])
        BY <2>1, <2>4, PromisesLast DEF Inv1, HistoryTyped
      <4>2. p[2] = TRUE
        BY <4>1
      <4>3. Promise(p[1], p[2])
        BY <4>1 DEF PromisedInv
      <4>. QED
        BY <4>1, <4>2, <4>3
    <3>2. PICK b : b = p[1]
      OBVIOUS
    <3>3. ASSUME NEW m \in manifests PROVE Safe(m, b, TRUE)'
      <4>1. Safe(m, b, TRUE)
        BY <3>1, <3>2, KeptIsSafe
      <4>2. CASE InFiles(FilesOf(m), b)
        BY <1>1, <4>2 DEF Safe, InFiles
      <4>3. ASSUME NEW n \in DOMAIN logs, m.log <= n, Readable(n, b, TRUE) PROVE Safe(m, b, TRUE)'
        BY <2>2, <2>3, <4>3 DEF Safe
      <4>. QED
        BY <4>1, <4>2, <4>3 DEF Safe
    <3>4. Promise(b, TRUE)'
      BY <1>1, <3>3 DEF Promise, Alive
    <3>. QED
      BY <3>1, <3>2, <3>4
  <2>. QED
    BY <2>4 DEF PromisedInv
<1>. QED
  BY <1>3, <1>4

\* Recovery finds in the tables or in the logs what is on the disk, ...
LEMMA RecoverPromises ==
  ASSUME Inv1, Inv1', FilesInv, DataInv, PromisedInv, NEW m \in manifests, Recover(m) PROVE PromisedInv'
<1>1. /\ db = "closed" /\ db' = "replaying"
      /\ manifests' = {o \in manifests : o.next <= m.next}
      /\ version' = [level0 |-> m.level0, deeper |-> m.deeper]
      /\ replay' = [NoReplay EXCEPT !.from = m, !.logs = {n \in DOMAIN logs : n >= m.log}]
      /\ UNCHANGED <<logs, tables, promised>>
  BY DEF Recover, history
<1>2. /\ replay'.added = {} /\ replay'.read = 0 /\ replay'.logs = {n \in DOMAIN logs : n >= m.log}
  BY <1>1 DEF NoReplay
<1>3. FilesOf(version') \cup replay'.added = FilesOf(m)
  BY <1>1, <1>2 DEF FilesOf
<1>4. SUFFICES ASSUME NEW b \in Nat, NEW sync \in BOOLEAN, Promise(b, sync) PROVE Promise(b, sync)'
  BY <1>1, PromisesGoOn
<1>5. \A o \in manifests : Safe(o, b, sync)
  BY <1>1, <1>4 DEF Promise, Alive
<1>6. \A o \in manifests' : Safe(o, b, sync)'
  BY <1>1, <1>5 DEF Safe, InFiles, Readable, BehindHole, Hole
<1>7. Replayed(b)'
  <2>1. CASE InFiles(FilesOf(m), b)
    <3>1. InFiles(FilesOf(m), b)'
      BY <1>1, <2>1 DEF InFiles, FilesOf
    <3>. QED
      BY <1>1, <1>3, <2>1 DEF Replayed, InFiles
  <2>2. ASSUME NEW n \in DOMAIN logs, m.log <= n, Readable(n, b, sync) PROVE Replayed(b)'
    <3>1. PICK i \in 1..(IF sync THEN logs[n].synced ELSE Len(logs[n].records)) :
            Has(RecordEntries(logs[n].records[i]), b) /\ ~BehindHole(n, i)
      BY <2>2 DEF Readable
    <3>2. i \in 1..Len(logs[n].records) /\ 0 < i
      BY <3>1, LogTyped
    <3>3. n \in replay'.logs
      BY <1>2, <2>2 DEF Inv1, LogsTyped, OpeningTyped, Manifest
    <3>4. ~BehindHole(n, i)'
      BY <1>1, <3>1 DEF BehindHole, Hole
    <3>. QED
      BY <1>1, <1>2, <3>1, <3>2, <3>3, <3>4 DEF Replayed
  <2>. QED
    BY <1>5, <2>1, <2>2 DEF Safe
<1>. QED
  BY <1>1, <1>6, <1>7 DEF Promise, Alive

\* A step of the replay keeps the files and the logs.
LEMMA ReplaySafe ==
  ASSUME Inv1, Inv1', FilesInv, db = "replaying", UNCHANGED <<logs, manifests>>,
         tables' = tables \/ \E mem : tables' = With(tables, nextFile, mem)
  PROVE  /\ \A f \in FilesOf(version) \cup replay.added : f \in DOMAIN tables' /\ tables'[f] = tables[f]
         /\ \A m \in manifests : \A b : \A sync \in BOOLEAN : Safe(m, b, sync) => Safe(m, b, sync)'
<1>1. /\ \A f \in FilesOf(version) \cup replay.added : f \in DOMAIN tables' /\ tables'[f] = tables[f]
      /\ \A m \in manifests : \A f \in FilesOf(m) : f \in DOMAIN tables' /\ tables'[f] = tables[f]
  <2>1. CASE tables' = tables
    BY <2>1 DEF FilesInv, ReplayInv, DatabaseOpens
  <2>2. ASSUME NEW mem, tables' = With(tables, nextFile, mem)
        PROVE  /\ \A f \in FilesOf(version) \cup replay.added : f \in DOMAIN tables' /\ tables'[f] = tables[f]
               /\ \A m \in manifests : \A f \in FilesOf(m) : f \in DOMAIN tables' /\ tables'[f] = tables[f]
    BY <2>2, ReplayTables
  <2>. QED
    BY <2>1, <2>2
<1>2. \A m \in manifests : FilesStay(FilesOf(m))
  BY <1>1 DEF FilesStay
<1>3. \A n \in DOMAIN logs : LogGrows(n)
  BY SameLogGrows
<1>. QED
  BY <1>1, <1>2, <1>3, SafeStays

\* ... and reading the logs in the order of their numbers, it loses nothing.
LEMMA RecoverRecordPromises ==
  ASSUME Inv1, Inv1', FilesInv, DataInv, PromisedInv, NEW n, RecoverRecord(n) PROVE PromisedInv'
<1>1. PICK entries, mem :
           /\ entries = RecordEntries(logs[n].records[replay.read + 1]) /\ mem = replay.mem \cup entries
           /\ replay.read + 1 \in 1..Len(logs[n].records) /\ replay.read \in Nat
           /\ replay'.logs = replay.logs /\ replay'.read = replay.read + 1
           /\ \/ /\ tables' = With(tables, nextFile, mem) /\ replay'.mem = {}
                 /\ replay'.added = replay.added \cup {nextFile}
              \/ tables' = tables /\ replay'.mem = mem /\ replay'.added = replay.added
  BY RecordFacts
<1>2. /\ db = "replaying" /\ db' = "replaying" /\ n \in replay.logs /\ \A o \in replay.logs : n <= o
      /\ UNCHANGED <<logs, manifests, version, promised>>
  BY DEF RecoverRecord, Replaying, UnchangedInRecovery, history
<1>3. /\ \A f \in FilesOf(version) \cup replay.added : f \in DOMAIN tables' /\ tables'[f] = tables[f]
      /\ \A m \in manifests : \A b : \A sync \in BOOLEAN : Safe(m, b, sync) => Safe(m, b, sync)'
  BY <1>1, <1>2, ReplaySafe
<1>4. SUFFICES ASSUME NEW b \in Nat, NEW sync \in BOOLEAN, Promise(b, sync) PROVE Promise(b, sync)'
  BY <1>2, PromisesGoOn
<1>5. Replayed(b) /\ \A m \in manifests : Safe(m, b, sync)
  BY <1>2, <1>4 DEF Promise, Alive
<1>6. FilesOf(version') = FilesOf(version)
  BY <1>2
<1>7. CASE InFiles(FilesOf(version) \cup replay.added, b)
  <2>1. PICK f \in FilesOf(version) \cup replay.added : Has(tables[f], b)
    BY <1>7 DEF InFiles
  <2>2. f \in FilesOf(version') \cup replay'.added /\ f \in DOMAIN tables' /\ Has(tables'[f], b)
    BY <1>1, <1>3, <1>6, <2>1
  <2>3. Replayed(b)'
    BY <2>2 DEF Replayed, InFiles
  <2>. QED
    BY <1>2, <1>3, <1>5, <2>3 DEF Promise, Alive
<1>8. CASE Has(mem, b)
  <2>1. CASE /\ tables' = With(tables, nextFile, mem)
             /\ replay'.added = replay.added \cup {nextFile}
    <3>1. nextFile \in DOMAIN tables' /\ Has(tables'[nextFile], b) /\ nextFile \in replay'.added
      BY <1>8, <2>1 DEF With
    <3>2. Replayed(b)'
      BY <3>1 DEF Replayed, InFiles
    <3>. QED
      BY <1>2, <1>3, <1>5, <3>2 DEF Promise, Alive
  <2>2. CASE replay'.mem = mem
    <3>1. Replayed(b)'
      BY <1>8, <2>2 DEF Replayed
    <3>. QED
      BY <1>2, <1>3, <1>5, <3>1 DEF Promise, Alive
  <2>. QED
    BY <1>1, <2>1, <2>2
<1>9. ASSUME NEW k \in replay.logs, NEW i \in 1..Len(logs[k].records),
             Has(RecordEntries(logs[k].records[i]), b), ~BehindHole(k, i),
             replay.read < i \/ \E o \in replay.logs : o < k, ~Has(mem, b)
      PROVE  Promise(b, sync)'
  <2>1. k \in Nat /\ n \in Nat /\ Len(logs[k].records) \in Nat
    <3>1. replay.logs \subseteq DOMAIN logs /\ replay.logs \subseteq Nat
      BY <1>2 DEF Inv1, OnlyWhenOpen, OpeningTyped
    <3>. QED
      BY <1>2, <3>1, <1>9, LogTyped
  <2>2. ~(k = n /\ i = replay.read + 1)
    <3>1. \A e \in entries : e \in mem
      BY <1>1
    <3>. QED
      BY <1>1, <1>9, <3>1 DEF Has
  <2>3. i \in Nat /\ (replay'.read < i \/ \E o \in replay'.logs : o < k)
    <3>1. CASE \E o \in replay.logs : o < k
      BY <1>1, <1>9, <2>1, <3>1
    <3>2. CASE k = n /\ replay.read < i
      BY <1>1, <1>9, <2>1, <2>2, <3>2
    <3>3. CASE k # n
      <4>1. n < k
        BY <1>2, <1>9, <2>1, <3>3
      <4>. QED
        BY <1>1, <1>2, <1>9, <2>1, <4>1
    <3>. QED
      BY <1>9, <3>1, <3>2, <3>3
  <2>4. ~BehindHole(k, i)'
    BY <1>2, <1>9 DEF BehindHole, Hole
  <2>5. Replayed(b)'
    BY <1>1, <1>2, <1>9, <2>3, <2>4 DEF Replayed
  <2>. QED
    BY <1>2, <1>3, <1>5, <2>5 DEF Promise, Alive
<1>10. Has(replay.mem, b) => Has(mem, b)
  BY <1>1 DEF Has
<1>. QED
  BY <1>5, <1>7, <1>8, <1>9, <1>10 DEF Replayed

\* What is skipped is behind a hole; nothing that is promised is.
LEMMA SkipRecordPromises ==
  ASSUME Inv1, Inv1', FilesInv, DataInv, PromisedInv, NEW n, SkipRecord(n) PROVE PromisedInv'
<1>1. /\ db = "replaying" /\ db' = "replaying" /\ n \in replay.logs /\ Replaying(n)
      /\ UNCHANGED <<disk, memory, history>> /\ BehindHole(n, replay.read + 1) /\ replay.read \in Nat
      /\ replay'.logs = replay.logs /\ replay'.mem = replay.mem
      /\ replay'.added = replay.added /\ replay'.read = replay.read + 1
  BY SkipFacts
<1>2. UNCHANGED <<logs, tables, manifests, version, promised>> /\ \A o \in replay.logs : n <= o
  BY <1>1 DEF disk, memory, history, Replaying
<1>3. SUFFICES ASSUME NEW b \in Nat, NEW sync \in BOOLEAN, Promise(b, sync) PROVE Promise(b, sync)'
  BY <1>2, PromisesGoOn
<1>4. Replayed(b) /\ \A m \in manifests : Safe(m, b, sync)
  BY <1>1, <1>3 DEF Promise, Alive
<1>5. \A m \in manifests : Safe(m, b, sync)'
  BY <1>1, <1>2, <1>4, ReplaySafe
<1>6. SUFFICES Replayed(b)'
  BY <1>1, <1>2, <1>5 DEF Promise, Alive
<1>7. CASE InFiles(FilesOf(version) \cup replay.added, b) \/ Has(replay.mem, b)
  BY <1>1, <1>2, <1>7 DEF Replayed, InFiles, FilesOf
<1>8. ASSUME NEW k \in replay.logs, NEW i \in 1..Len(logs[k].records),
             Has(RecordEntries(logs[k].records[i]), b), ~BehindHole(k, i),
             replay.read < i \/ \E o \in replay.logs : o < k
      PROVE  Replayed(b)'
  <2>1. k \in Nat /\ n \in Nat /\ Len(logs[k].records) \in Nat
    <3>1. replay.logs \subseteq DOMAIN logs /\ replay.logs \subseteq Nat
      BY <1>1 DEF Inv1, OnlyWhenOpen, OpeningTyped
    <3>. QED
      BY <1>1, <3>1, <1>8, LogTyped
  <2>2. ~(k = n /\ i = replay.read + 1)
    BY <1>1, <1>8
  <2>3. i \in Nat /\ (replay'.read < i \/ \E o \in replay'.logs : o < k)
    <3>1. CASE \E o \in replay.logs : o < k
      BY <1>1, <1>8, <2>1, <3>1
    <3>2. CASE k = n /\ replay.read < i
      BY <1>1, <1>8, <2>1, <2>2, <3>2
    <3>3. CASE k # n
      <4>1. n < k
        BY <1>2, <1>8, <2>1, <3>3
      <4>. QED
        BY <1>1, <1>8, <2>1, <4>1
    <3>. QED
      BY <1>8, <3>1, <3>2, <3>3
  <2>4. ~BehindHole(k, i)'
    BY <1>2, <1>8 DEF BehindHole, Hole
  <2>. QED
    BY <1>1, <1>2, <1>8, <2>3, <2>4 DEF Replayed
<1>. QED
  BY <1>4, <1>7, <1>8 DEF Replayed

\* What a failed read loses is promised no longer.
LEMMA ReadFailsPromises ==
  ASSUME Inv1, Inv1', FilesInv, DataInv, PromisedInv, NEW n, ReadFails(n) PROVE PromisedInv'
<1>1. /\ db = "replaying" /\ db' = "replaying" /\ n \in replay.logs /\ \A o \in replay.logs : n <= o
      /\ UNCHANGED <<disk, memory>> /\ replay.read \in Nat
      /\ replay'.logs = replay.logs /\ replay'.mem = replay.mem /\ replay'.added = replay.added
      /\ replay'.read = Len(logs[n].records) /\ promised' = {p \in promised : ~Unread(n, p[1])}
  BY FailedFacts
<1>2. UNCHANGED <<logs, tables, manifests, version>>
  BY <1>1 DEF disk, memory
<1>3. SUFFICES ASSUME NEW p \in promised, ~Unread(n, p[1]) PROVE Promise(p[1], p[2])'
  BY <1>1 DEF PromisedInv
<1>4. PICK b \in Nat, sync \in BOOLEAN : b = p[1] /\ sync = p[2]
  BY DEF Inv1, HistoryTyped
<1>5. Promise(b, sync) /\ ~Unread(n, b)
  BY <1>3, <1>4 DEF PromisedInv
<1>6. Replayed(b) /\ \A m \in manifests : Safe(m, b, sync)
  BY <1>1, <1>5 DEF Promise, Alive
<1>7. \A m \in manifests : Safe(m, b, sync)'
  BY <1>1, <1>2, <1>6, ReplaySafe
<1>8. SUFFICES Replayed(b)'
  BY <1>1, <1>2, <1>4, <1>7 DEF Promise, Alive
<1>9. CASE InFiles(FilesOf(version) \cup replay.added, b) \/ Has(replay.mem, b)
  BY <1>1, <1>2, <1>9 DEF Replayed, InFiles, FilesOf
<1>10. ASSUME NEW k \in replay.logs, NEW i \in 1..Len(logs[k].records),
              Has(RecordEntries(logs[k].records[i]), b), ~BehindHole(k, i),
              replay.read < i \/ \E o \in replay.logs : o < k,
              ~InFiles(FilesOf(version) \cup replay.added, b), ~Has(replay.mem, b)
       PROVE  Replayed(b)'
  <2>1. k \in Nat /\ n \in Nat /\ Len(logs[k].records) \in Nat
    <3>1. replay.logs \subseteq DOMAIN logs /\ replay.logs \subseteq Nat
      BY <1>1 DEF Inv1, OnlyWhenOpen, OpeningTyped
    <3>. QED
      BY <1>1, <3>1, <1>10, LogTyped
  <2>2. k # n
    <3>1. SUFFICES ASSUME k = n PROVE FALSE
      OBVIOUS
    <3>2. ~(\E o \in replay.logs : o < k)
      BY <1>1, <2>1, <3>1 DEF Inv1, OpeningTyped
    <3>3. i \in replay.read + 1..Len(logs[n].records)
      BY <1>1, <1>10, <2>1, <3>1, <3>2
    <3>4. \E e \in RecordEntries(logs[n].records[i]) : e.batch = b
      BY <1>10, <3>1 DEF Has
    <3>5. /\ \A e \in replay.mem : e.batch # b
          /\ \A f \in FilesOf(version) \cup replay.added : \A e \in tables[f] : e.batch # b
      <4>1. \A f \in FilesOf(version) \cup replay.added : f \in DOMAIN tables
        BY <1>1 DEF FilesInv, ReplayInv, DatabaseOpens
      <4>. QED
        BY <1>10, <4>1 DEF Has, InFiles
    <3>. QED
      BY <1>5, <3>3, <3>4, <3>5 DEF Unread
  <2>3. \E o \in replay'.logs : o < k
    BY <1>1, <1>10, <2>1, <2>2
  <2>4. ~BehindHole(k, i)'
    BY <1>2, <1>10 DEF BehindHole, Hole
  <2>. QED
    BY <1>1, <1>2, <1>10, <2>3, <2>4 DEF Replayed
<1>. QED
  BY <1>6, <1>9, <1>10 DEF Replayed

LEMMA RecoverLogFilePromises ==
  ASSUME Inv1, Inv1', FilesInv, DataInv, PromisedInv, NEW n, RecoverLogFile(n) PROVE PromisedInv'
<1>1. /\ replay.read = Len(logs[n].records)
      /\ replay'.logs = replay.logs \ {n} /\ replay'.read = 0
      /\ \/ /\ tables' = With(tables, nextFile, replay.mem)
            /\ replay'.added = replay.added \cup {nextFile}
         \/ tables' = tables /\ replay.mem = {} /\ replay'.added = replay.added
  BY LogFileFacts
<1>2. /\ db = "replaying" /\ db' = "replaying" /\ n \in replay.logs /\ \A o \in replay.logs : n <= o
      /\ UNCHANGED <<logs, manifests, version, promised>>
  BY DEF RecoverLogFile, Replaying, UnchangedInRecovery, history
<1>3. /\ \A f \in FilesOf(version) \cup replay.added : f \in DOMAIN tables' /\ tables'[f] = tables[f]
      /\ \A m \in manifests : \A b : \A sync \in BOOLEAN : Safe(m, b, sync) => Safe(m, b, sync)'
  BY <1>1, <1>2, ReplaySafe
<1>4. SUFFICES ASSUME NEW b \in Nat, NEW sync \in BOOLEAN, Promise(b, sync) PROVE Promise(b, sync)'
  BY <1>2, PromisesGoOn
<1>5. Replayed(b) /\ \A m \in manifests : Safe(m, b, sync)
  BY <1>2, <1>4 DEF Promise, Alive
<1>6. SUFFICES Replayed(b)'
  BY <1>2, <1>3, <1>5 DEF Promise, Alive
<1>7. CASE InFiles(FilesOf(version) \cup replay.added, b)
  <2>1. PICK f \in FilesOf(version) \cup replay.added : Has(tables[f], b)
    BY <1>7 DEF InFiles
  <2>2. f \in FilesOf(version') \cup replay'.added /\ f \in DOMAIN tables' /\ Has(tables'[f], b)
    BY <1>1, <1>2, <1>3, <2>1
  <2>. QED
    BY <2>2 DEF Replayed, InFiles
<1>8. CASE Has(replay.mem, b)
  <2>1. tables' = With(tables, nextFile, replay.mem) /\ replay'.added = replay.added \cup {nextFile}
    BY <1>1, <1>8 DEF Has
  <2>2. nextFile \in DOMAIN tables' /\ Has(tables'[nextFile], b) /\ nextFile \in replay'.added
    BY <1>8, <2>1 DEF With
  <2>. QED
    BY <2>2 DEF Replayed, InFiles
<1>9. ASSUME NEW k \in replay.logs, NEW i \in 1..Len(logs[k].records),
             Has(RecordEntries(logs[k].records[i]), b), ~BehindHole(k, i),
             replay.read < i \/ \E o \in replay.logs : o < k
      PROVE  Replayed(b)'
  <2>1. k \in Nat /\ n \in Nat /\ Len(logs[k].records) \in Nat /\ replay.logs \subseteq Nat
    <3>1. replay.logs \subseteq DOMAIN logs /\ replay.logs \subseteq Nat
      BY <1>2 DEF Inv1, OnlyWhenOpen, OpeningTyped
    <3>. QED
      BY <1>2, <3>1, <1>9, LogTyped
  <2>2. k # n
    BY <1>1, <1>2, <1>9, <2>1
  <2>3. 0 < i
    BY <1>9, <2>1
  <2>4. ~BehindHole(k, i)'
    BY <1>2, <1>9 DEF BehindHole, Hole
  <2>. QED
    BY <1>1, <1>2, <1>9, <2>2, <2>3, <2>4 DEF Replayed
<1>. QED
  BY <1>5, <1>7, <1>8, <1>9 DEF Replayed

\* The edit that recovery writes names all it has found, ...
LEMMA OpenPromises ==
  ASSUME Inv1, Inv1', FilesInv, DataInv, PromisedInv, Open PROVE PromisedInv'
<1>. DEFINE edit == [added0 |-> replay.added, addedDeeper |-> {}, deleted |-> {},
                     log |-> nextFile, next |-> nextFile + 1, last |-> lastSequence]
            new == Applied(replay.from, edit)
<1>1. /\ db = "replaying" /\ db' = "recovering" /\ replay.logs = {}
      /\ manifests' = manifests \cup {new}
      /\ version' = [version EXCEPT !.level0 = @ \cup replay.added]
      /\ logs' = With(logs, nextFile, [records |-> <<>>, synced |-> 0])
      /\ UNCHANGED <<tables, promised>>
  BY DEF Open, history
<1>2. FilesOf(new) = FilesOf(version) \cup replay.added
  BY <1>1 DEF Applied, FilesOf, FilesInv, ReplayInv
<1>. HIDE DEF new
<1>3. FilesOf(version') = FilesOf(version) \cup replay.added
  BY <1>1 DEF FilesOf, Inv1, MemoryTyped, Version
<1>4. replay.mem = {}
  BY <1>1 DEF DataInv, LogsThere
<1>5. \A n \in DOMAIN logs : n \in DOMAIN logs' /\ logs'[n] = logs[n]
  <2>1. \A n \in DOMAIN logs : n < nextFile /\ n \in Nat /\ nextFile \in Nat
    BY <1>1 DEF DataInv, LogsThere, Inv1, LogsTyped, MemoryTyped
  <2>2. nextFile \notin DOMAIN logs
    BY <2>1
  <2>. QED
    BY <1>1, <2>2 DEF With
<1>6. SUFFICES ASSUME NEW b \in Nat, NEW sync \in BOOLEAN, Promise(b, sync) PROVE Promise(b, sync)'
  BY <1>1, PromisesGoOn
<1>7. Replayed(b) /\ \A m \in manifests : Safe(m, b, sync)
  BY <1>1, <1>6 DEF Promise, Alive
<1>8. InFiles(FilesOf(version) \cup replay.added, b)
  BY <1>1, <1>4, <1>7 DEF Replayed, Has
<1>9. InFiles(FilesOf(version), b)'
  BY <1>1, <1>3, <1>8 DEF InFiles
<1>10. \A m \in manifests : Safe(m, b, sync)'
  <2>1. \A n \in DOMAIN logs : LogGrows(n)
    BY <1>5, SameLogGrows
  <2>2. \A m \in manifests : FilesStay(FilesOf(m))
    BY <1>1 DEF FilesStay
  <2>. QED
    BY <1>7, <2>1, <2>2, SafeStays
<1>11. ASSUME NEW m, m = new PROVE Safe(m, b, sync)'
  <2>1. InFiles(FilesOf(m), b)'
    BY <1>1, <1>2, <1>8, <1>11 DEF InFiles, FilesOf
  <2>. QED
    BY <2>1 DEF Safe
<1>12. \A m \in manifests' : Safe(m, b, sync)'
  BY <1>1, <1>10, <1>11
<1>. QED
  BY <1>1, <1>9, <1>12 DEF Promise, Alive

\* ... and the MANIFEST that begins with the version does so, too.
LEMMA FinishOpenPromises ==
  ASSUME Inv1, Inv1', FilesInv, DataInv, PromisedInv, FinishOpen PROVE PromisedInv'
<1>1. /\ DOMAIN tables' = FilesOf(version) /\ \A f \in DOMAIN tables' : tables'[f] = tables[f]
      /\ db = "recovering"
  BY OpenedTables
<1>2. /\ db' = "open" /\ manifests' = {WriteSnapshot} /\ UNCHANGED <<version, promised>>
  BY DEF FinishOpen, history
<1>3. FilesOf(WriteSnapshot) = FilesOf(version)
  BY DEF WriteSnapshot, FilesOf
<1>4. SUFFICES ASSUME NEW b \in Nat, NEW sync \in BOOLEAN, Promise(b, sync) PROVE Promise(b, sync)'
  BY <1>2, PromisesGoOn
<1>5. InFiles(FilesOf(version), b)
  BY <1>1, <1>4 DEF Promise
<1>6. InFiles(FilesOf(version), b)'
  BY <1>1, <1>2, <1>5 DEF InFiles
<1>7. Live(b)'
  BY <1>6 DEF Live
<1>8. ASSUME NEW m \in manifests' PROVE Kept(m, b, sync)'
  <2>1. FilesOf(m) = FilesOf(version)
    BY <1>2, <1>3
  <2>2. InFiles(FilesOf(m), b)'
    BY <1>2, <1>6, <2>1 DEF InFiles, FilesOf
  <2>. QED
    BY <2>2 DEF Kept
<1>. QED
  BY <1>2, <1>7, <1>8 DEF Promise, Alive

LEMMA NextPromises ==
  Inv1 /\ Inv1' /\ FilesInv /\ FilesInv' /\ DataInv /\ WrittenInv /\ PromisedInv /\ [Next]_vars
    => PromisedInv'
<1>. SUFFICES ASSUME Inv1, Inv1', FilesInv, FilesInv', DataInv, WrittenInv, PromisedInv, [Next]_vars
              PROVE PromisedInv'
  OBVIOUS
<1>1. ASSUME NEW t \in Threads, NEW null \in BOOLEAN, NEW sync \in BOOLEAN, Write(t, null, sync)
      PROVE  PromisedInv'
  <2>1. /\ UNCHANGED <<disk, opening, memory, promised>> /\ db = "open"
    BY <1>1 DEF Write
  <2>. QED
    BY <2>1, PromisesSame DEF disk, opening, memory, Alive
<1>2. CASE UNCHANGED vars
  BY <1>2, PromisesFrame DEF vars
<1>3. CASE Close
  <2>1. /\ UNCHANGED <<disk, memory, promised>> /\ Alive /\ Alive'
    BY <1>3 DEF Close, Alive, history
  <2>. QED
    BY <2>1, PromisesSame DEF disk, memory
<1>4. ASSUME NEW r \in Readers, StartRead(r) PROVE PromisedInv'
  BY <1>4, PromisesFrame DEF StartRead
<1>5. ASSUME NEW r \in Readers, EndRead(r) PROVE PromisedInv'
  <2>1. /\ UNCHANGED <<disk, opening, imm, logNumber, version, lastSequence, promised>>
        /\ memtables' = [n \in DOMAIN memtables \cap
             (InMemory \cup UNION {reader[x].mems : x \in Readers \ {r}}) |-> memtables[n]]
    BY <1>5 DEF EndRead, history
  <2>2. db = "open"
    BY <1>5 DEF EndRead, Inv1, OnlyWhenOpen
  <2>3. /\ memtables'[logNumber] = memtables[logNumber]
        /\ imm # 0 => memtables'[imm] = memtables[imm]
    <3>1. /\ logNumber \in DOMAIN memtables /\ logNumber \in InMemory
          /\ imm # 0 => imm \in DOMAIN memtables /\ imm \in InMemory
      BY <2>2 DEF Inv1, Numbered, Running, InMemory, None
    <3>. QED
      BY <2>1, <3>1
  <2>. QED
    BY <2>1, <2>2, <2>3, PromisesSame DEF disk, opening, Alive
<1>6. ASSUME NEW m \in manifests, Recover(m) PROVE PromisedInv'
  BY <1>6, RecoverPromises
<1>7. ASSUME NEW n \in replay.logs,
             RecoverRecord(n) \/ SkipRecord(n) \/ ReadFails(n) \/ RecoverLogFile(n)
      PROVE  PromisedInv'
  BY <1>7, RecoverRecordPromises, SkipRecordPromises, ReadFailsPromises, RecoverLogFilePromises
<1>. QED
  BY <1>1, <1>2, <1>3, <1>4, <1>5, <1>6, <1>7, WriterPromises, BackgroundPromises, DownPromises,
     OpenPromises, FinishOpenPromises DEF Next

(* A write that was reported done is found as long as the process lives and *)
(* after any number of kills and reopenings; one that was synced also after *)
(* outages of the machine.  What is promised no longer once the process has *)
(* ended is a write whose record lies, in a log that would be read, behind  *)
(* one that could not be appended; and, once a recovery could not read a    *)
(* log on, a write that is in the rest of that log and nowhere else.        *)
THEOREM PromisedIsStoredHolds == Spec => []PromisedIsStored
<1>1. Init => PromisedInv
  BY DEF Init, PromisedInv
<1>2. ASSUME Inv1, FilesInv, DataInv, PromisedInv PROVE PromisedIsStored
  <2>1. SUFFICES ASSUME db = "open", NEW p \in promised
                 PROVE \E e \in Stored(lastSequence) : e.batch = p[1]
    BY DEF PromisedIsStored
  <2>2. Alive /\ Running /\ Live(p[1])
    BY <1>2, <2>1 DEF PromisedInv, Promise, Alive, Running
  <2>3. /\ logNumber \in DOMAIN memtables /\ 0 < logNumber /\ logNumber \in Nat /\ lastSequence \in Nat
        /\ imm # 0 => imm \in DOMAIN memtables /\ imm # logNumber
        /\ \A e \in memtables[logNumber] : e.seq \in Nat
    <3>1. /\ logNumber \in DOMAIN memtables /\ 0 < logNumber /\ logNumber \in Nat /\ lastSequence \in Nat
          /\ imm # 0 => imm \in DOMAIN memtables /\ imm # logNumber
      BY <1>2, <2>2 DEF Inv1, Numbered, MemoryTyped
    <3>2. memtables[logNumber] \subseteq Entry
      BY <1>2, <3>1 DEF Inv1, MemoryTyped
    <3>. QED
      BY <3>1, <3>2 DEF Entry
  <2>4. CASE InFiles(FilesOf(version), p[1])
    <3>1. PICK f \in FilesOf(version) \cap DOMAIN tables : \E e \in tables[f] : e.batch = p[1]
      BY <2>4 DEF InFiles, Has
    <3>2. PICK e \in tables[f] : e.batch = p[1]
      BY <3>1
    <3>3. \A g \in DOMAIN tables : \A x \in tables[g] : x.seq <= lastSequence
      BY <1>2, <2>2 DEF DataInv, TablesSequenced
    <3>4. e.seq <= lastSequence /\ f \in DOMAIN tables
      BY <3>1, <3>2, <3>3
    <3>. QED
      BY <3>1, <3>2, <3>4 DEF Stored, Content
  <2>5. CASE Has(memtables[logNumber] \ Fresh, p[1])
    <3>1. PICK e \in memtables[logNumber] \ Fresh : e.batch = p[1]
      BY <2>5 DEF Has
    <3>2. e.seq <= lastSequence
      BY <2>3, <3>1 DEF Fresh
    <3>3. logNumber \in InMemory
      BY <2>3 DEF InMemory, None
    <3>. QED
      BY <3>1, <3>2, <3>3 DEF Stored, Content
  <2>6. CASE imm # 0 /\ Has(memtables[imm], p[1])
    <3>1. PICK e \in memtables[imm] : e.batch = p[1]
      BY <2>6 DEF Has
    <3>2. e.seq <= lastSequence
      BY <1>2, <2>2, <2>3, <2>6, <3>1 DEF Inv1, Sequenced
    <3>3. imm \in InMemory
      BY <2>6 DEF InMemory, None
    <3>. QED
      BY <3>1, <3>2, <3>3 DEF Stored, Content
  <2>. QED
    BY <2>2, <2>4, <2>5, <2>6 DEF Live
<1>. QED
  BY <1>1, <1>2, NextPromises, Inv1Holds, FilesInvHolds, DataInvHolds, WrittenHolds, PTL DEF Spec
----------------------------------------------------------------------------
(* Batches: all of a batch is there or nothing of it.                      *)
\* A record of a log, a table that is needed, what counts of a memtable, and what a
\* replay has collected: the sets of entries that make up the database.
Logging == \E t \in Threads : thread[t].pc \in {"sync", "insert", "finish"}
NeededTables ==
  IF Alive THEN DOMAIN tables
  ELSE (IF db = "recovering" THEN FilesOf(version) ELSE {})
         \cup replay.added \cup UNION {FilesOf(m) : m \in manifests}
Record(n, i) == RecordEntries(logs[n].records[i])
Counted(n) == {e \in memtables[n] : e.seq <= lastSequence}
Parts ==
  (UNION {{Record(n, i) : i \in 1..Len(logs[n].records)} : n \in DOMAIN logs})
    \cup {tables[f] : f \in NeededTables} \cup {Counted(n) : n \in DOMAIN memtables}
    \cup {replay.mem}
\* A batch that is in one of them is there with all its entries, a batch that is in
\* two is in both the same, and a sequence number means one entry.
OfBatch(S, b) == {e \in S : e.batch = b}
Coherent(C) ==
  /\ \A S \in C : \A e \in S : Cardinality(OfBatch(S, e.batch)) = BatchSize
  /\ \A S, T \in C : \A e \in S, f \in T :
       (e.seq = f.seq => e = f) /\ (e.batch = f.batch => f \in S)
CoherentInv == Coherent(Parts)
\* Numbers of batches are not used twice.
KnownInv ==
  /\ \A S \in Parts : \A e \in S : e.batch <= lastBatch
  /\ \A t \in Threads : thread[t].batch <= lastBatch
Own(t) == thread[t].batch # 0
\* The leader has written the batch of t to the log.
Logged(t) == Logging /\ \E i \in 1..lead.size : i <= Len(writers) /\ writers[i] = t
NewInv ==
  /\ \A t, u \in Threads : Own(t) /\ thread[t].batch = thread[u].batch => t = u
  /\ \A t \in Threads : Own(t) /\ ~Logged(t) =>
       \A S \in Parts : \A e \in S : e.batch # thread[t].batch
\* What the leader is about to write are the batches of its group, each complete.
TodoInv ==
  \A t \in Threads : thread[t].pc = "log" =>
    /\ \A j \in 1..Len(lead.todo) : \E i \in 1..lead.size :
         Own(writers[i]) /\ lead.todo[j].batch = thread[writers[i]].batch
    /\ \A e \in RecordEntries(lead.todo) :
         Cardinality(OfBatch(RecordEntries(lead.todo), e.batch)) = BatchSize
\* Only the record that is being written is ahead of last_sequence_.
LogsCounted ==
  /\ Alive => \A n \in DOMAIN logs : \A i \in 1..Len(logs[n].records) :
       \/ \A e \in Record(n, i) : e.seq <= lastSequence
       \/ Logging /\ n = logNumber /\ i = Len(logs[n].records)
  /\ db = "recovering" => logs[logNumber].records = <<>>
  /\ db \in {"closed", "replaying"} => DOMAIN memtables = {}
BatchInv == CoherentInv /\ KnownInv /\ NewInv /\ TodoInv /\ LogsCounted

\* U is put together from some of the sets in C.
MadeOf(U, C) == \A e \in U : \E S \in C : e \in S /\ S \subseteq U

LEMMA MadeOfCoherent ==
  ASSUME NEW C, Coherent(C), NEW D, \A U \in D : MadeOf(U, C)
  PROVE  Coherent(D)
<1>1. ASSUME NEW U \in D, NEW e \in U PROVE Cardinality(OfBatch(U, e.batch)) = BatchSize
  <2>1. PICK S \in C : e \in S /\ S \subseteq U
    BY DEF MadeOf
  <2>2. ASSUME NEW f \in U, f.batch = e.batch PROVE f \in S
    <3>1. PICK T \in C : f \in T
      BY DEF MadeOf
    <3>. QED
      BY <2>1, <2>2, <3>1 DEF Coherent
  <2>3. OfBatch(U, e.batch) = OfBatch(S, e.batch)
    BY <2>1, <2>2 DEF OfBatch
  <2>. QED
    BY <2>1, <2>3 DEF Coherent
<1>2. ASSUME NEW U \in D, NEW V \in D, NEW e \in U, NEW f \in V
      PROVE  (e.seq = f.seq => e = f) /\ (e.batch = f.batch => f \in U)
  <2>1. PICK S \in C : e \in S /\ S \subseteq U
    BY DEF MadeOf
  <2>2. PICK T \in C : f \in T
    BY DEF MadeOf
  <2>. QED
    BY <2>1, <2>2 DEF Coherent
<1>. QED
  BY <1>1, <1>2 DEF Coherent

LEMMA NewPartCoherent ==
  ASSUME NEW C, Coherent(C), NEW G,
         \A e \in G : Cardinality(OfBatch(G, e.batch)) = BatchSize,
         \A e \in G, f \in G : e.seq = f.seq => e = f,
         \A S \in C : \A e \in S, f \in G : e.seq # f.seq /\ e.batch # f.batch
  PROVE  Coherent(C \cup {G})
<1>1. \A S \in C \cup {G} : \A e \in S : Cardinality(OfBatch(S, e.batch)) = BatchSize
  BY DEF Coherent
<1>2. ASSUME NEW S \in C \cup {G}, NEW T \in C \cup {G}, NEW e \in S, NEW f \in T
      PROVE  (e.seq = f.seq => e = f) /\ (e.batch = f.batch => f \in S)
  <2>1. CASE S \in C /\ T \in C
    BY <2>1 DEF Coherent
  <2>2. CASE S = G /\ T = G
    BY <2>2
  <2>3. CASE S \in C /\ T = G
    BY <2>3
  <2>4. CASE S = G /\ T \in C
    BY <2>4
  <2>. QED
    BY <2>1, <2>2, <2>3, <2>4
<1>. QED
  BY <1>1, <1>2 DEF Coherent

\* What a step makes is made of what was there.
Steady == \A U \in Parts' : MadeOf(U, Parts)

LEMMA PartOf ==
  /\ \A n \in DOMAIN logs : \A i \in 1..Len(logs[n].records) : Record(n, i) \in Parts
  /\ \A f \in NeededTables : tables[f] \in Parts
  /\ \A n \in DOMAIN memtables : Counted(n) \in Parts
  /\ replay.mem \in Parts
BY DEF Parts

LEMMA PartMadeOf == ASSUME NEW S \in Parts PROVE MadeOf(S, Parts)
BY DEF MadeOf

LEMMA NoneMadeOf == \A C : MadeOf({}, C)
BY DEF MadeOf

\* A step that writes at most tables.
LogsLeft ==
  \A n \in DOMAIN logs' : \A i \in 1..Len(logs'[n].records) :
    n \in DOMAIN logs /\ i \in 1..Len(logs[n].records) /\ logs'[n].records[i] = logs[n].records[i]
MemtablesLeft ==
  \A n \in DOMAIN memtables' :
    memtables'[n] = {} \/ (n \in DOMAIN memtables /\ Counted(n)' = Counted(n))

LEMMA SteadyStep ==
  ASSUME LogsLeft, \A n \in DOMAIN memtables' : MadeOf(Counted(n)', Parts),
         \A f \in NeededTables' : MadeOf(tables'[f], Parts), MadeOf(replay'.mem, Parts)
  PROVE  Steady
<1>1. ASSUME NEW n \in DOMAIN logs', NEW i \in 1..Len(logs'[n].records)
      PROVE  MadeOf(Record(n, i)', Parts)
  <2>1. n \in DOMAIN logs /\ i \in 1..Len(logs[n].records) /\ Record(n, i)' = Record(n, i)
    BY DEF LogsLeft, Record
  <2>. QED
    BY <2>1, PartOf, PartMadeOf
<1>2. ASSUME NEW U \in Parts' PROVE MadeOf(U, Parts)
  <2>1. \/ \E n \in DOMAIN logs' : \E i \in 1..Len(logs'[n].records) : U = Record(n, i)'
        \/ \E f \in NeededTables' : U = tables'[f]
        \/ \E n \in DOMAIN memtables' : U = Counted(n)'
        \/ U = replay'.mem
    BY DEF Parts
  <2>. QED
    BY <1>1, <2>1
<1>. QED
  BY <1>2 DEF Steady

LEMMA LeftMadeOf == ASSUME MemtablesLeft PROVE \A n \in DOMAIN memtables' : MadeOf(Counted(n)', Parts)
<1>1. ASSUME NEW n \in DOMAIN memtables' PROVE MadeOf(Counted(n)', Parts)
  <2>1. CASE memtables'[n] = {}
    BY <2>1, NoneMadeOf DEF Counted
  <2>2. CASE n \in DOMAIN memtables /\ Counted(n)' = Counted(n)
    BY <2>2, PartOf, PartMadeOf
  <2>. QED
    BY <2>1, <2>2 DEF MemtablesLeft
<1>. QED
  BY <1>1

\* Nothing of it is new.
LEMMA QuietParts ==
  ASSUME LogsLeft, MemtablesLeft,
         \A f \in NeededTables' : f \in NeededTables /\ tables'[f] = tables[f],
         replay'.mem \in {{}, replay.mem}
  PROVE  Steady
<1>1. \A f \in NeededTables' : MadeOf(tables'[f], Parts)
  BY PartOf, PartMadeOf
<1>2. MadeOf(replay'.mem, Parts)
  BY PartOf, PartMadeOf, NoneMadeOf
<1>. QED
  BY <1>1, <1>2, LeftMadeOf, SteadyStep

LEMMA SteadyCoherent == ASSUME CoherentInv, Steady PROVE CoherentInv'
BY MadeOfCoherent DEF CoherentInv, Steady

LEMMA SteadyEntries ==
  ASSUME Steady PROVE \A U \in Parts' : \A e \in U : \E S \in Parts : e \in S
BY DEF Steady, MadeOf

\* Batches that are waiting are still new.
LEMMA QueueGoesOn ==
  ASSUME KnownInv, NewInv, Steady, UNCHANGED lastBatch,
         \A u \in Threads : thread'[u].batch \in {0, thread[u].batch}, lastBatch \in Nat,
         \A u \in Threads : Own(u)' /\ ~Logged(u)' => ~Logged(u)
  PROVE  KnownInv' /\ NewInv'
<1>1. \A U \in Parts' : \A e \in U : \E S \in Parts : e \in S
  BY SteadyEntries
<1>2. KnownInv'
  BY <1>1 DEF KnownInv
<1>3. \A t, u \in Threads : Own(t)' /\ thread'[t].batch = thread'[u].batch => t = u
  BY DEF NewInv, Own
<1>4. ASSUME NEW t \in Threads, Own(t)', ~Logged(t)', NEW U \in Parts', NEW e \in U
      PROVE  e.batch # thread'[t].batch
  <2>1. thread'[t].batch = thread[t].batch /\ Own(t) /\ ~Logged(t)
    BY <1>4 DEF Own
  <2>. QED
    BY <1>1, <2>1 DEF NewInv
<1>. QED
  BY <1>2, <1>3, <1>4 DEF NewInv

\* Parts, when nothing of what they are taken from changes.
LEMMA SameParts ==
  ASSUME UNCHANGED <<logs, tables, manifests, db, replay, version, memtables, lastSequence>>
  PROVE  Steady
<1>1. LogsLeft
  BY DEF LogsLeft
<1>2. MemtablesLeft
  BY DEF MemtablesLeft, Counted
<1>3. \A f \in NeededTables' : f \in NeededTables /\ tables'[f] = tables[f]
  BY DEF NeededTables, Alive
<1>. QED
  BY <1>1, <1>2, <1>3, QuietParts

\* Logs are no further ahead than they were.
LEMMA LogsStayCounted ==
  ASSUME LogsCounted, Alive, Alive', LogsLeft, UNCHANGED lastSequence,
         \/ ~Logging
         \/ Logging' /\ UNCHANGED logNumber /\ Len(logs'[logNumber].records) = Len(logs[logNumber].records)
  PROVE  LogsCounted'
<1>1. ASSUME NEW n \in DOMAIN logs', NEW i \in 1..Len(logs'[n].records)
      PROVE  \/ \A e \in Record(n, i)' : e.seq <= lastSequence'
             \/ Logging' /\ n = logNumber' /\ i = Len(logs'[n].records)
  <2>1. n \in DOMAIN logs /\ i \in 1..Len(logs[n].records) /\ Record(n, i)' = Record(n, i)
    BY DEF LogsLeft, Record
  <2>. QED
    BY <2>1 DEF LogsCounted
<1>. QED
  BY <1>1 DEF LogsCounted, Alive

\* Who has left the queue has no batch any more.
LEMMA PoppedBatches ==
  ASSUME QueueKept, NEW n \in 1..Len(writers), PopWriters(n), NEW u \in Threads
  PROVE  \/ thread'[u].batch = 0
         \/ thread'[u].batch = thread[u].batch /\ ~\E i \in 1..n : writers[i] = u
<1>. DEFINE gone == {writers[i] : i \in 1..n}
            head == IF Len(writers) > n THEN writers[n + 1] ELSE None
<1>1. thread' = [t \in Threads |-> IF t \in gone THEN Idle
                                  ELSE IF t = head THEN [thread[t] EXCEPT !.pc = "room"]
                                  ELSE thread[t]]
  BY DEF PopWriters
<1>2. thread \in [Threads -> [pc : Callers, batch : Nat, sync : BOOLEAN]]
  BY DEF QueueKept, QueueTyped
<1>3. u \in gone <=> \E i \in 1..n : writers[i] = u
  OBVIOUS
<1>. HIDE DEF gone, head
<1>. QED
  BY <1>1, <1>2, <1>3 DEF Idle

\* In MakeRoomForWrite nobody has written or is about to.
LEMMA RoomBatches ==
  ASSUME Inv1, BatchInv, NEW t \in Threads, InRoom(t), Steady, UNCHANGED lastBatch,
         \A u \in Threads : thread'[u].batch \in {0, thread[u].batch},
         \A u \in Threads : thread'[u].pc \in {"idle", "queued", "room", "wait"},
         LogsLeft, UNCHANGED <<lastSequence, db>>
  PROVE  BatchInv'
<1>1. ~Logging /\ db = "open" /\ Alive /\ Alive'
  BY InRoomFacts DEF LeadAway, Logging, Alive
<1>2. \A u \in Threads : ~Logged(u)
  BY <1>1 DEF Logged
<1>3. KnownInv' /\ NewInv'
  BY <1>2, QueueGoesOn DEF BatchInv, Inv1, HistoryTyped
<1>4. TodoInv'
  BY DEF TodoInv
<1>5. LogsCounted'
  BY <1>1, LogsStayCounted DEF BatchInv
<1>. QED
  BY <1>3, <1>4, <1>5, SteadyCoherent DEF BatchInv

LEMMA PopRoomBatches ==
  ASSUME Inv1, BatchInv, NEW t \in Threads, InRoom(t), PopWriters(1),
         UNCHANGED <<disk, opening, memory, lastBatch>>
  PROVE  BatchInv'
<1>1. 1 \in 1..Len(writers) /\ QueueKept
  BY InRoomFacts DEF Inv1
<1>2. LeadAway'
  BY <1>1, Popped
<1>3. \A u \in Threads : thread'[u].batch \in {0, thread[u].batch}
  BY <1>1, PoppedBatches
<1>4. Steady
  BY SameParts DEF disk, opening, memory
<1>5. LogsLeft /\ UNCHANGED <<lastSequence, db>>
  BY DEF LogsLeft, disk, opening, memory
<1>6. \A u \in Threads : thread'[u].pc \in {"idle", "queued", "room", "wait"}
  BY <1>2 DEF LeadAway
<1>. QED
  BY <1>3, <1>4, <1>5, <1>6, RoomBatches

LEMMA RoomStepsBatches ==
  ASSUME Inv1, BatchInv, NEW t \in Threads,
         Delay(t) \/ WaitForBackground(t) \/ SwitchMemTable(t)
  PROVE  BatchInv'
<1>1. InRoom(t) /\ UNCHANGED <<tables, manifests, opening, lastSequence, version, lastBatch>>
  BY DEF Delay, WaitForBackground, SwitchMemTable, disk, memory, history
<1>2. /\ thread \in [Threads -> [pc : Callers, batch : Nat, sync : BOOLEAN]]
      /\ db = "open" /\ \A u \in Threads : thread[u].pc \in {"idle", "queued", "room"}
  BY <1>1, InRoomFacts DEF LeadAway, Inv1, QueueKept, QueueTyped
<1>3. \A u \in Threads : /\ thread'[u].batch = thread[u].batch
                         /\ thread'[u].pc \in {"idle", "queued", "room", "wait"}
  BY <1>2 DEF Delay, WaitForBackground, SwitchMemTable
<1>4. LogsLeft
  <2>1. CASE UNCHANGED logs
    BY <2>1 DEF LogsLeft
  <2>2. CASE SwitchMemTable(t)
    <3>1. logs' = With(logs, nextFile, [records |-> <<>>, synced |-> 0])
      BY <2>2 DEF SwitchMemTable
    <3>2. ASSUME NEW n \in DOMAIN logs', NEW i \in 1..Len(logs'[n].records)
          PROVE  n \in DOMAIN logs /\ logs'[n] = logs[n]
      <4>1. n # nextFile
        BY <3>1, <3>2 DEF With
      <4>. QED
        BY <3>1, <4>1 DEF With
    <3>. QED
      BY <3>2 DEF LogsLeft
  <2>. QED
    BY <2>1, <2>2 DEF Delay, WaitForBackground, disk
<1>5. MemtablesLeft
  <2>1. CASE UNCHANGED memtables
    BY <1>1, <2>1 DEF MemtablesLeft, Counted
  <2>2. CASE SwitchMemTable(t)
    BY <1>1, <2>2 DEF SwitchMemTable, MemtablesLeft, Counted, With
  <2>. QED
    BY <2>1, <2>2 DEF Delay, WaitForBackground, memory
<1>6. \A f \in NeededTables' : f \in NeededTables /\ tables'[f] = tables[f]
  BY <1>1 DEF NeededTables, Alive, opening
<1>7. Steady
  BY <1>1, <1>4, <1>5, <1>6, QuietParts DEF opening
<1>. QED
  BY <1>1, <1>3, <1>4, <1>7, RoomBatches DEF opening

LEMMA FoundRoomBatches == ASSUME Inv1, BatchInv, NEW t \in Threads, FoundRoom(t) PROVE BatchInv'
<1>1. InRoom(t) /\ UNCHANGED <<disk, opening, memory, lastBatch>>
  BY DEF FoundRoom, history
<1>2. CASE PopWriters(1)
  BY <1>1, <1>2, PopRoomBatches
<1>3. CASE thread[t].batch # 0
  <2>1. /\ lead' = [lead EXCEPT !.size = BuildBatchGroup, !.todo = GroupEntries(BuildBatchGroup)]
        /\ thread' = [thread EXCEPT ![t].pc = "log"] /\ UNCHANGED writers
    BY <1>3 DEF FoundRoom
  <2>2. /\ LeadAway /\ db = "open" /\ 1 \in 1..Len(writers) /\ writers[1] = t
        /\ writers # <<>> /\ QueueTyped /\ OnceInQueue
    BY <1>1, InRoomFacts DEF Inv1, QueueKept, InRoom
  <2>3. thread \in [Threads -> [pc : Callers, batch : Nat, sync : BOOLEAN]]
    BY <2>2 DEF QueueTyped
  <2>4. /\ \A u \in Threads : thread'[u].batch = thread[u].batch
        /\ \A u \in Threads : thread'[u].pc \notin {"sync", "insert", "finish"}
    BY <2>1, <2>2, <2>3 DEF LeadAway
  <2>5. ~Logging /\ ~Logging'
    BY <2>2, <2>4 DEF Logging, LeadAway
  <2>6. Steady
    BY <1>1, SameParts DEF disk, opening, memory
  <2>7. KnownInv' /\ NewInv'
    BY <1>1, <2>4, <2>5, <2>6, QueueGoesOn DEF Logged, BatchInv, Inv1, HistoryTyped
  <2>8. BuildBatchGroup \in 1..Len(writers) /\ lastSequence \in Nat
    BY <2>2, GroupSize DEF Inv1, MemoryTyped
  <2>. DEFINE n == BuildBatchGroup
              G == GroupEntries(n)
  <2>9. /\ \A j \in 1..Len(G) : \E i \in 1..n :
             thread[writers[i]].batch # 0 /\ G[j].batch = thread[writers[i]].batch
        /\ \A e \in RecordEntries(G) :
             Cardinality({f \in RecordEntries(G) : f.batch = e.batch}) = BatchSize
    <3>1. \A u, v \in Threads : thread[u].batch # 0 /\ thread[u].batch = thread[v].batch => u = v
      BY DEF BatchInv, NewInv, Own
    <3>. QED
      BY <1>3, <2>2, <2>8, <3>1, GroupWhole
  <2>10. lead'.size = n /\ lead'.todo = G
    BY <2>1, <2>2 DEF QueueTyped
  <2>11. \A i \in 1..n : thread'[writers[i]].batch = thread[writers[i]].batch
    <3>1. \A i \in 1..n : writers[i] \in Threads
      BY <2>2, <2>8, WritersAre
    <3>. QED
      BY <2>4, <3>1
  <2>. HIDE DEF n, G
  <2>12. TodoInv'
    <3>1. \A j \in 1..Len(lead'.todo) : \E i \in 1..lead'.size :
            thread'[writers'[i]].batch # 0 /\ lead'.todo[j].batch = thread'[writers'[i]].batch
      BY <2>1, <2>9, <2>10, <2>11
    <3>2. \A e \in RecordEntries(lead'.todo) :
            Cardinality({f \in RecordEntries(lead'.todo) : f.batch = e.batch}) = BatchSize
      BY <2>9, <2>10
    <3>3. (RecordEntries(lead.todo))' = RecordEntries(lead'.todo)
      BY DEF RecordEntries
    <3>. QED
      BY <3>1, <3>2, <3>3 DEF TodoInv, Own, OfBatch
  <2>13. LogsCounted'
    <3>1. LogsLeft /\ UNCHANGED <<lastSequence, db>>
      BY <1>1 DEF LogsLeft, disk, opening, memory
    <3>. QED
      BY <2>2, <2>5, <3>1, LogsStayCounted DEF BatchInv, Alive
  <2>. QED
    BY <2>6, <2>7, <2>12, <2>13, SteadyCoherent DEF BatchInv
<1>. QED
  BY <1>2, <1>3 DEF FoundRoom

\* Parts are sets of entries.
LEMMA EntriesTyped ==
  ASSUME Inv1, FilesInv, NEW S \in Parts, NEW e \in S PROVE e \in Entry
<1>1. ASSUME NEW n \in DOMAIN logs, NEW i \in 1..Len(logs[n].records), e \in Record(n, i)
      PROVE  e \in Entry
  <2>1. logs[n].records \in Seq(Seq(Entry))
    BY DEF Inv1, LogsTyped, LogFile
  <2>2. logs[n].records[i] \in Seq(Entry)
    BY <2>1
  <2>. QED
    BY <1>1, <2>2 DEF Record, RecordEntries
<1>2. NeededTables \subseteq DOMAIN tables
  BY DEF NeededTables, Alive, FilesInv, DatabaseOpens, VersionThere, ReplayInv, Running, Inv1,
     OpeningTyped, NoReplay
<1>3. ASSUME NEW f \in NeededTables, e \in tables[f] PROVE e \in Entry
  BY <1>2, <1>3 DEF FilesInv, TablesTyped
<1>4. ASSUME NEW n \in DOMAIN memtables, e \in Counted(n) PROVE e \in Entry
  BY <1>4 DEF Counted, Inv1, MemoryTyped
<1>5. e \in replay.mem => e \in Entry
  BY DEF Inv1, OpeningTyped, NoReplay
<1>6. \/ \E n \in DOMAIN logs : \E i \in 1..Len(logs[n].records) : S = Record(n, i)
      \/ \E f \in NeededTables : S = tables[f]
      \/ \E n \in DOMAIN memtables : S = Counted(n)
      \/ S = replay.mem
  BY DEF Parts
<1>. QED
  BY <1>1, <1>3, <1>4, <1>5, <1>6

\* While nobody is writing, all entries count.
LEMMA AllCounted ==
  ASSUME Inv1, FilesInv, DataInv, BatchInv, Alive, ~Logging, NEW S \in Parts, NEW e \in S
  PROVE  e.seq \in Nat /\ e.seq <= lastSequence
<1>1. e.seq \in Nat
  BY EntriesTyped DEF Entry
<1>2. replay.mem = {} /\ NeededTables = DOMAIN tables
  BY DEF Inv1, OpeningTyped, NoReplay, Alive, NeededTables
<1>3. \/ \E n \in DOMAIN logs : \E i \in 1..Len(logs[n].records) : S = Record(n, i)
      \/ \E f \in DOMAIN tables : S = tables[f]
      \/ \E n \in DOMAIN memtables : S = Counted(n)
      \/ S = {}
  BY <1>2 DEF Parts
<1>. QED
  BY <1>1, <1>3 DEF BatchInv, LogsCounted, DataInv, TablesSequenced, Counted

LEMMA AddRecordBatches ==
  ASSUME Inv1, FilesInv, DataInv, BatchInv, NEW t \in Threads, AddRecord(t) PROVE BatchInv'
<1>. DEFINE G == RecordEntries(lead.todo)
            last == Len(logs[logNumber].records) + 1
<1>1. /\ thread[t].pc = "log" /\ thread' = [thread EXCEPT ![t].pc = IF thread[t].sync THEN "sync" ELSE "insert"]
      /\ UNCHANGED <<tables, manifests, db, replay, version, memtables, lastSequence, logNumber,
                     writers, lead, lastBatch>>
  BY DEF AddRecord, opening, memory, history
<1>2. /\ db = "open" /\ writers[1] = t /\ Len(writers) \in Nat
      /\ \A u \in Threads : u # t => thread[u].pc \in {"idle", "queued"}
  BY <1>1, LeaderIsHead
<1>3. thread \in [Threads -> [pc : Callers, batch : Nat, sync : BOOLEAN]]
  BY DEF Inv1, QueueKept, QueueTyped
<1>4. /\ \A u \in Threads : thread'[u].batch = thread[u].batch /\ thread'[u].pc # "log"
      /\ thread'[t].pc \in {"sync", "insert"}
  BY <1>1, <1>2, <1>3
<1>5. ~Logging /\ Logging' /\ Alive /\ Alive'
  BY <1>1, <1>2, <1>4 DEF Logging, Alive
<1>6. GroupInv(t) /\ lead.size \in 1..Len(writers) /\ \A i \in 1..lead.size : writers[i] \in Threads
  <2>1. GroupInv(t)
    BY <1>1 DEF Inv1, LeadInv, Leading
  <2>. QED
    BY <2>1, WritersAre DEF GroupInv, Inv1, QueueKept
<1>7. /\ lead.todo \in Seq(Entry) /\ Len(lead.todo) \in Nat /\ DOMAIN lead.todo = 1..Len(lead.todo)
      /\ lastSequence \in Nat /\ lastBatch \in Nat
  <2>1. lead.todo \in Seq(Entry)
    BY DEF Inv1, QueueKept, QueueTyped
  <2>. QED
    BY <2>1 DEF Inv1, MemoryTyped, HistoryTyped
<1>8. ASSUME NEW e \in G
      PROVE  /\ \E j \in 1..Len(lead.todo) : e = lead.todo[j] /\ e.seq = lastSequence + j
             /\ \E i \in 1..lead.size : Own(writers[i]) /\ e.batch = thread[writers[i]].batch
  <2>1. PICK j \in 1..Len(lead.todo) : e = lead.todo[j]
    BY <1>7 DEF RecordEntries
  <2>. QED
    BY <1>1, <1>6, <2>1 DEF GroupInv, BatchInv, TodoInv
<1>9. Parts' \subseteq Parts \cup {G}
  <2>1. /\ logNumber \in DOMAIN logs /\ DOMAIN logs' = DOMAIN logs
        /\ \A n \in DOMAIN logs : n # logNumber => logs'[n] = logs[n]
        /\ Len(logs[logNumber].records) \in Nat /\ Len(logs'[logNumber].records) = last
        /\ \A i \in 1..Len(logs[logNumber].records) :
             logs'[logNumber].records[i] = logs[logNumber].records[i]
        /\ logs'[logNumber].records[last] = lead.todo
    BY AddRecordLog
  <2>2. ASSUME NEW n \in DOMAIN logs', NEW i \in 1..Len(logs'[n].records)
        PROVE  Record(n, i)' \in Parts \cup {G}
    <3>1. CASE n = logNumber /\ i = last
      BY <2>1, <3>1 DEF Record, RecordEntries
    <3>2. CASE ~(n = logNumber /\ i = last)
      <4>1. n \in DOMAIN logs /\ i \in 1..Len(logs[n].records) /\ logs'[n].records[i] = logs[n].records[i]
        BY <2>1, <3>2
      <4>2. Record(n, i)' = Record(n, i)
        BY <4>1 DEF Record
      <4>. QED
        BY <4>1, <4>2, PartOf
    <3>. QED
      BY <3>1, <3>2
  <2>3. NeededTables' = NeededTables /\ tables' = tables /\ replay' = replay
    BY <1>1 DEF NeededTables, Alive
  <2>4. \A n \in DOMAIN memtables' : n \in DOMAIN memtables /\ Counted(n)' = Counted(n)
    BY <1>1 DEF Counted
  <2>5. ASSUME NEW U \in Parts' PROVE U \in Parts \cup {G}
    <3>1. \/ \E n \in DOMAIN logs' : \E i \in 1..Len(logs'[n].records) : U = Record(n, i)'
          \/ \E f \in NeededTables' : U = tables'[f]
          \/ \E n \in DOMAIN memtables' : U = Counted(n)'
          \/ U = replay'.mem
      BY DEF Parts
    <3>. HIDE DEF G
    <3>. QED
      BY <2>2, <2>3, <2>4, <3>1, PartOf
  <2>. QED
    BY <2>5
<1>10. ASSUME NEW S \in Parts, NEW e \in S, NEW f \in G PROVE e.seq # f.seq /\ e.batch # f.batch
  <2>1. e.seq \in Nat /\ e.seq <= lastSequence
    BY <1>5, AllCounted
  <2>2. e.seq # f.seq
    BY <1>7, <1>8, <2>1
  <2>3. PICK i \in 1..lead.size : Own(writers[i]) /\ f.batch = thread[writers[i]].batch
    BY <1>8
  <2>4. ~Logged(writers[i]) /\ writers[i] \in Threads
    BY <1>5, <1>6 DEF Logged
  <2>. QED
    BY <2>2, <2>3, <2>4 DEF BatchInv, NewInv
<1>11. Coherent(Parts \cup {G})
  <2>1. \A e \in G : Cardinality(OfBatch(G, e.batch)) = BatchSize
    BY <1>1 DEF BatchInv, TodoInv
  <2>2. \A e \in G, f \in G : e.seq = f.seq => e = f
    <3>1. TAKE e \in G, f \in G
    <3>2. PICK j \in 1..Len(lead.todo) : e = lead.todo[j] /\ e.seq = lastSequence + j
      BY <1>8
    <3>3. PICK k \in 1..Len(lead.todo) : f = lead.todo[k] /\ f.seq = lastSequence + k
      BY <1>8
    <3>. QED
      BY <1>7, <3>2, <3>3
  <2>. HIDE DEF G
  <2>. QED
    BY <1>10, <2>1, <2>2, NewPartCoherent DEF BatchInv, CoherentInv
<1>. HIDE DEF G
<1>12. CoherentInv'
  <2>1. \A U \in Parts' : MadeOf(U, Parts \cup {G})
    BY <1>9 DEF MadeOf
  <2>. QED
    BY <1>11, <2>1, MadeOfCoherent DEF CoherentInv
<1>13. KnownInv'
  <2>1. \A e \in G : e.batch <= lastBatch
    BY <1>6, <1>8 DEF BatchInv, KnownInv
  <2>. QED
    BY <1>1, <1>4, <1>9, <2>1 DEF BatchInv, KnownInv
<1>14. NewInv'
  <2>1. \A u, v \in Threads : Own(u)' /\ thread'[u].batch = thread'[v].batch => u = v
    BY <1>4 DEF BatchInv, NewInv, Own
  <2>2. ASSUME NEW u \in Threads, Own(u)', ~Logged(u)', NEW U \in Parts', NEW e \in U
        PROVE  e.batch # thread'[u].batch
    <3>1. Own(u) /\ ~Logged(u) /\ thread'[u].batch = thread[u].batch
      BY <1>4, <1>5, <2>2 DEF Own, Logged
    <3>2. CASE U \in Parts
      BY <3>1, <3>2 DEF BatchInv, NewInv
    <3>3. CASE U = G
      <4>1. PICK i \in 1..lead.size : Own(writers[i]) /\ e.batch = thread[writers[i]].batch
        BY <1>8, <3>3
      <4>2. writers[i] # u
        <5>1. i <= Len(writers) /\ i \in 1..lead'.size /\ writers' = writers
          BY <1>1, <1>2, <1>6
        <5>. QED
          BY <1>5, <2>2, <5>1 DEF Logged
      <4>. QED
        BY <1>6, <3>1, <4>1, <4>2 DEF BatchInv, NewInv
    <3>. QED
      BY <1>9, <3>2, <3>3
  <2>. QED
    BY <2>1, <2>2 DEF NewInv
<1>15. TodoInv'
  BY <1>4 DEF TodoInv
<1>16. LogsCounted'
  <2>1. /\ logNumber \in DOMAIN logs /\ DOMAIN logs' = DOMAIN logs
        /\ \A n \in DOMAIN logs : n # logNumber => logs'[n] = logs[n]
        /\ Len(logs[logNumber].records) \in Nat /\ Len(logs'[logNumber].records) = last
        /\ \A i \in 1..Len(logs[logNumber].records) :
             logs'[logNumber].records[i] = logs[logNumber].records[i]
    BY AddRecordLog
  <2>2. ASSUME NEW n \in DOMAIN logs', NEW i \in 1..Len(logs'[n].records)
        PROVE  \/ \A e \in Record(n, i)' : e.seq <= lastSequence'
               \/ Logging' /\ n = logNumber' /\ i = Len(logs'[n].records)
    <3>1. CASE n = logNumber /\ i = last
      BY <1>1, <1>5, <2>1, <3>1
    <3>2. CASE ~(n = logNumber /\ i = last)
      <4>1. n \in DOMAIN logs /\ i \in 1..Len(logs[n].records) /\ logs'[n].records[i] = logs[n].records[i]
        BY <2>1, <3>2
      <4>2. Record(n, i)' = Record(n, i)
        BY <4>1 DEF Record
      <4>. QED
        BY <1>1, <1>5, <4>1, <4>2 DEF BatchInv, LogsCounted
    <3>. QED
      BY <3>1, <3>2
  <2>. QED
    BY <1>1, <1>2, <2>2 DEF LogsCounted
<1>. QED
  BY <1>12, <1>13, <1>14, <1>15, <1>16 DEF BatchInv

\* A record that could not be appended leaves a hole, in which there is no batch.
LEMMA AppendFailsBatches ==
  ASSUME Inv1, DataInv, BatchInv, NEW t \in Threads, AppendFails(t) PROVE BatchInv'
<1>. DEFINE last == Len(logs[logNumber].records) + 1
<1>1. /\ thread[t].pc = "log" /\ thread' = [thread EXCEPT ![t].pc = "finish"]
      /\ UNCHANGED <<tables, manifests, db, replay, version, memtables, lastSequence, logNumber,
                     writers, lastBatch>>
  BY DEF AppendFails, opening, memory, history
<1>2. db = "open" /\ \A u \in Threads : u # t => thread[u].pc \in {"idle", "queued"}
  BY <1>1, LeaderIsHead
<1>3. thread \in [Threads -> [pc : Callers, batch : Nat, sync : BOOLEAN]] /\ lastBatch \in Nat
  BY DEF Inv1, QueueKept, QueueTyped, HistoryTyped
<1>4. /\ \A u \in Threads : thread'[u].batch = thread[u].batch /\ thread'[u].pc # "log"
      /\ thread'[t].pc = "finish"
  BY <1>1, <1>2, <1>3
<1>5. ~Logging /\ Logging' /\ Alive /\ Alive'
  BY <1>1, <1>2, <1>4 DEF Logging, Alive
<1>6. /\ logNumber \in DOMAIN logs /\ DOMAIN logs' = DOMAIN logs
      /\ \A n \in DOMAIN logs : n # logNumber => logs'[n] = logs[n]
      /\ Len(logs[logNumber].records) \in Nat /\ Len(logs'[logNumber].records) = last
      /\ \A i \in 1..Len(logs[logNumber].records) :
           logs'[logNumber].records[i] = logs[logNumber].records[i]
      /\ logs'[logNumber].records[last] = Hole
  BY AppendFailsLog
<1>7. ASSUME NEW n \in DOMAIN logs', NEW i \in 1..Len(logs'[n].records)
      PROVE  \/ n = logNumber /\ i = last /\ Record(n, i)' = {}
             \/ n \in DOMAIN logs /\ i \in 1..Len(logs[n].records) /\ Record(n, i)' = Record(n, i)
  <2>1. CASE n = logNumber /\ i = last
    <3>1. logs'[n].records[i] = <<>>
      BY <1>6, <2>1 DEF Hole
    <3>. QED
      BY <2>1, <3>1 DEF Record, RecordEntries
  <2>2. CASE ~(n = logNumber /\ i = last)
    <3>1. n \in DOMAIN logs /\ i \in 1..Len(logs[n].records) /\ logs'[n].records[i] = logs[n].records[i]
      BY <1>6, <2>2
    <3>. QED
      BY <3>1 DEF Record
  <2>. QED
    BY <2>1, <2>2
<1>. HIDE DEF last
<1>8. NeededTables' = NeededTables /\ tables' = tables /\ replay' = replay
  BY <1>1 DEF NeededTables, Alive
<1>9. \A n \in DOMAIN memtables' : n \in DOMAIN memtables /\ Counted(n)' = Counted(n)
  BY <1>1 DEF Counted
<1>10. Steady
  <2>1. ASSUME NEW U \in Parts' PROVE MadeOf(U, Parts)
    <3>1. \/ \E n \in DOMAIN logs' : \E i \in 1..Len(logs'[n].records) : U = Record(n, i)'
          \/ \E f \in NeededTables' : U = tables'[f]
          \/ \E n \in DOMAIN memtables' : U = Counted(n)'
          \/ U = replay'.mem
      BY DEF Parts
    <3>2. U = {} \/ U \in Parts
      BY <1>7, <1>8, <1>9, <3>1, PartOf
    <3>. QED
      BY <3>2, NoneMadeOf, PartMadeOf
  <2>. QED
    BY <2>1 DEF Steady
<1>11. KnownInv' /\ NewInv'
  <2>1. \A u \in Threads : ~Logged(u)
    BY <1>5 DEF Logged
  <2>. QED
    BY <1>1, <1>3, <1>4, <1>10, <2>1, QueueGoesOn DEF BatchInv
<1>12. TodoInv'
  BY <1>4 DEF TodoInv
<1>13. LogsCounted'
  <2>1. ASSUME NEW n \in DOMAIN logs', NEW i \in 1..Len(logs'[n].records), NEW e \in Record(n, i)'
        PROVE  e.seq <= lastSequence'
    <3>1. n \in DOMAIN logs /\ i \in 1..Len(logs[n].records) /\ e \in Record(n, i)
      BY <1>7, <2>1
    <3>. QED
      BY <1>1, <1>5, <3>1 DEF BatchInv, LogsCounted
  <2>. QED
    BY <1>1, <1>2, <2>1 DEF LogsCounted
<1>. QED
  BY <1>10, <1>11, <1>12, <1>13, SteadyCoherent DEF BatchInv

\* The leader syncs, and inserts what does not count yet.
LEMMA LeaderBatches ==
  ASSUME Inv1, DataInv, BatchInv, NEW t \in Threads, Sync(t) \/ SyncFails(t) \/ InsertInto(t)
  PROVE  BatchInv'
<1>1. /\ thread[t].pc \in {"sync", "insert"}
      /\ UNCHANGED <<tables, manifests, db, replay, version, lastSequence, logNumber, writers, lastBatch>>
  BY DEF Sync, SyncFails, InsertInto, disk, opening, memory, history
<1>2. /\ db = "open" /\ \A u \in Threads : u # t => thread[u].pc \in {"idle", "queued"}
  BY <1>1, LeaderIsHead
<1>3. thread \in [Threads -> [pc : Callers, batch : Nat, sync : BOOLEAN]]
  BY DEF Inv1, QueueKept, QueueTyped
<1>4. /\ \A u \in Threads : thread'[u].batch = thread[u].batch /\ thread'[u].pc # "log"
      /\ thread'[t].pc \in {"insert", "finish"}
  BY <1>1, <1>2, <1>3 DEF Sync, SyncFails, InsertInto
<1>5. Logging /\ Logging' /\ Alive /\ Alive'
  BY <1>1, <1>2, <1>4 DEF Logging, Alive
<1>6. lead'.size = lead.size
  BY DEF Sync, SyncFails, InsertInto, Inv1, QueueKept, QueueTyped
<1>7. LogsLeft /\ Len(logs'[logNumber].records) = Len(logs[logNumber].records)
  <2>1. CASE Sync(t)
    <3>1. \A n \in DOMAIN logs' : n \in DOMAIN logs /\ logs'[n].records = logs[n].records
      BY <2>1, SyncLog
    <3>. QED
      BY <2>1, <3>1, SyncLog DEF LogsLeft
  <2>2. CASE UNCHANGED logs
    BY <2>2 DEF LogsLeft
  <2>. QED
    BY <2>1, <2>2 DEF SyncFails, InsertInto, disk
<1>8. MemtablesLeft
  <2>1. CASE UNCHANGED memtables
    BY <1>1, <2>1 DEF MemtablesLeft, Counted
  <2>2. CASE InsertInto(t)
    <3>1. PICK k \in 0..(Len(lead.todo) - 1) :
            /\ Fresh = FirstEntries(k) /\ Inserted(t) = k
            /\ lead.todo[k + 1] \in Entry /\ lead.todo[k + 1].seq = lastSequence + (k + 1)
      BY <2>2, InsertFacts
    <3>2. lastSequence \in Nat /\ k \in Nat /\ Len(lead.todo) \in Nat
      BY <2>2, InsertFacts DEF Inv1, MemoryTyped
    <3>. DEFINE e == lead.todo[k + 1]
    <3>3. ~(e.seq <= lastSequence)
      BY <3>1, <3>2
    <3>4. memtables' = [memtables EXCEPT ![logNumber] = @ \cup {e}]
      BY <2>2, <3>1 DEF InsertInto
    <3>. HIDE DEF e
    <3>5. DOMAIN memtables' = DOMAIN memtables
      BY <3>4
    <3>6. ASSUME NEW n \in DOMAIN memtables
          PROVE  {x \in memtables'[n] : x.seq <= lastSequence} = {x \in memtables[n] : x.seq <= lastSequence}
      BY <3>3, <3>4
    <3>. QED
      BY <1>1, <3>5, <3>6 DEF MemtablesLeft, Counted
  <2>. QED
    BY <2>1, <2>2 DEF Sync, SyncFails, memory
<1>9. \A f \in NeededTables' : f \in NeededTables /\ tables'[f] = tables[f]
  BY <1>1 DEF NeededTables, Alive
<1>10. Steady
  BY <1>1, <1>7, <1>8, <1>9, QuietParts
<1>11. \A u \in Threads : Logged(u)' <=> Logged(u)
  BY <1>1, <1>5, <1>6 DEF Logged
<1>12. KnownInv' /\ NewInv'
  BY <1>1, <1>4, <1>10, <1>11, QueueGoesOn DEF BatchInv, Inv1, HistoryTyped
<1>13. TodoInv'
  BY <1>4 DEF TodoInv
<1>14. LogsCounted'
  BY <1>1, <1>5, <1>7, LogsStayCounted DEF BatchInv
<1>. QED
  BY <1>10, <1>12, <1>13, <1>14, SteadyCoherent DEF BatchInv

\* The group counts: what is in the memtable now is what was there and the log's last
\* record, or none of it when it could not be appended or synced.
LEMMA FinishWriteBatches ==
  ASSUME Inv1, FilesInv, DataInv, WrittenInv, BatchInv, NEW t \in Threads, FinishWrite(t) PROVE BatchInv'
<1>1. /\ db = "open" /\ thread[t].pc = "finish" /\ GroupInv(t) /\ writers[1] = t
      /\ lead.size \in 1..Len(writers) /\ Len(writers) \in Nat /\ Len(lead.todo) \in Nat
      /\ lastSequence \in Nat /\ lastSequence' = lastSequence + Len(lead.todo)
      /\ \A e \in memtables[logNumber] : e.seq <= lastSequence'
      /\ QueueKept' /\ LeadAway'
  BY FinishFacts
<1>2. /\ UNCHANGED <<logs, tables, manifests, db, replay, version, memtables, logNumber, lastBatch>>
      /\ PopWriters(lead.size)
  BY DEF FinishWrite, disk, opening
<1>3. Logging /\ ~Logging' /\ Alive /\ Alive'
  BY <1>1, <1>2 DEF Logging, LeadAway, Alive
<1>4. logNumber \in DOMAIN memtables /\ logNumber \in DOMAIN logs
  BY <1>1 DEF Inv1, Numbered, Running, DataInv, LogsThere
<1>. DEFINE last == Len(logs[logNumber].records)
<1>5. /\ last \in 1..Len(logs[logNumber].records)
      /\ \/ Record(logNumber, last) = FirstEntries(Len(lead.todo))
         \/ lead.failed /\ Record(logNumber, last) = {}
  <2>1. Written(t) /\ logs[logNumber].records \in Seq(Seq(Entry)) /\ lead.todo \in Seq(Entry)
    BY <1>1, <1>4 DEF WrittenInv, Inv1, LogsTyped, LogFile, QueueKept, QueueTyped
  <2>2. /\ last \in 1..Len(logs[logNumber].records)
        /\ \/ logs[logNumber].records[last] = lead.todo
           \/ lead.failed /\ logs[logNumber].records[last] = <<>>
    BY <2>1 DEF Written, Hole
  <2>3. DOMAIN lead.todo = 1..Len(lead.todo)
    BY <2>1
  <2>4. CASE logs[logNumber].records[last] = lead.todo
    BY <2>2, <2>3, <2>4 DEF Record, RecordEntries, FirstEntries
  <2>5. CASE lead.failed /\ logs[logNumber].records[last] = <<>>
    BY <2>2, <2>5 DEF Record, RecordEntries
  <2>. QED
    BY <2>2, <2>4, <2>5
<1>. HIDE DEF last
<1>6. Record(logNumber, last) \in Parts /\ Counted(logNumber) \in Parts
  BY <1>4, <1>5, PartOf
<1>7. ASSUME NEW n \in DOMAIN memtables' PROVE MadeOf(Counted(n)', Parts)
  <2>1. CASE n = logNumber
    <3>1. Counted(n)' = memtables[logNumber]
      BY <1>1, <1>2, <2>1 DEF Counted
    <3>2. memtables[logNumber] = Counted(logNumber) \cup Fresh
      <4>1. \A e \in memtables[logNumber] : e.seq \in Nat
        BY <1>4 DEF Inv1, MemoryTyped, Entry
      <4>. QED
        BY <1>1, <4>1 DEF Counted, Fresh
    <3>3. Fresh = {} \/ Fresh = Record(logNumber, last)
      BY <1>1, <1>5 DEF GroupInv
    <3>. QED
      BY <1>6, <3>1, <3>2, <3>3 DEF MadeOf
  <2>2. CASE n # logNumber
    <3>1. n \in DOMAIN memtables /\ \A e \in memtables[n] : e.seq <= lastSequence /\ e.seq \in Nat
      BY <1>1, <1>2, <2>2 DEF Inv1, Sequenced, Running, MemoryTyped, Entry
    <3>2. \A e \in memtables[n] : e.seq <= lastSequence'
      BY <1>1, <3>1
    <3>3. Counted(n)' = Counted(n)
      BY <1>2, <3>1, <3>2 DEF Counted
    <3>. QED
      BY <3>1, <3>3, PartOf, PartMadeOf
  <2>. QED
    BY <2>1, <2>2
<1>8. Steady
  <2>1. LogsLeft
    BY <1>2 DEF LogsLeft
  <2>2. \A f \in NeededTables' : MadeOf(tables'[f], Parts)
    <3>1. NeededTables' = NeededTables
      BY <1>2 DEF NeededTables, Alive
    <3>. QED
      BY <1>2, <3>1, PartOf, PartMadeOf
  <2>3. MadeOf(replay'.mem, Parts)
    BY <1>2, PartOf, PartMadeOf
  <2>. QED
    BY <1>7, <2>1, <2>2, <2>3, SteadyStep
<1>9. KnownInv' /\ NewInv'
  <2>1. \A u \in Threads : \/ thread'[u].batch = 0
                           \/ thread'[u].batch = thread[u].batch /\ ~\E i \in 1..lead.size : writers[i] = u
    BY <1>1, <1>2, PoppedBatches DEF Inv1
  <2>2. \A u \in Threads : Own(u)' => ~Logged(u)
    BY <2>1 DEF Own, Logged
  <2>. QED
    BY <1>2, <1>8, <2>1, <2>2, QueueGoesOn DEF BatchInv, Inv1, HistoryTyped
<1>10. TodoInv'
  BY <1>1 DEF TodoInv, LeadAway
<1>11. LogsCounted'
  <2>1. ASSUME NEW n \in DOMAIN logs, NEW i \in 1..Len(logs[n].records), NEW e \in Record(n, i)
        PROVE  e.seq <= lastSequence'
    <3>1. CASE n = logNumber /\ i = last
      <4>1. PICK j \in 1..Len(lead.todo) : e = lead.todo[j]
        BY <1>5, <3>1 DEF FirstEntries
      <4>2. e.seq = lastSequence + j
        BY <1>1, <4>1 DEF GroupInv
      <4>. QED
        BY <1>1, <4>2
    <3>2. CASE ~(n = logNumber /\ i = last)
      <4>1. e.seq <= lastSequence
        <5>1. ~(n = logNumber /\ i = Len(logs[n].records))
          BY <3>2 DEF last
        <5>. QED
          BY <1>3, <5>1 DEF BatchInv, LogsCounted
      <4>2. e.seq \in Nat
        <5>1. e \in Entry
          BY PartOf, EntriesTyped
        <5>. QED
          BY <5>1 DEF Entry
      <4>. QED
        BY <1>1, <4>1, <4>2
    <3>. QED
      BY <3>1, <3>2
  <2>2. ASSUME NEW n \in DOMAIN logs', NEW i \in 1..Len(logs'[n].records)
        PROVE  \A e \in Record(n, i)' : e.seq <= lastSequence'
    <3>1. Record(n, i)' = Record(n, i) /\ n \in DOMAIN logs /\ i \in 1..Len(logs[n].records)
      BY <1>2 DEF Record
    <3>. QED
      BY <2>1, <3>1
  <2>. QED
    BY <1>1, <1>2, <2>2 DEF LogsCounted
<1>. QED
  BY <1>8, <1>9, <1>10, <1>11, SteadyCoherent DEF BatchInv

LEMMA WriteBatches ==
  ASSUME Inv1, FilesInv, BatchInv, NEW t \in Threads, NEW null \in BOOLEAN, NEW sync \in BOOLEAN,
         Write(t, null, sync)
  PROVE  BatchInv'
<1>1. /\ db = "open" /\ thread[t].pc = "idle" /\ writers' = Append(writers, t)
      /\ lastBatch' = IF null THEN lastBatch ELSE lastBatch + 1
      /\ thread' = [thread EXCEPT ![t] = [pc |-> IF writers = <<>> THEN "room" ELSE "queued",
                                          batch |-> IF null THEN 0 ELSE lastBatch + 1, sync |-> sync]]
      /\ writers # <<>> => UNCHANGED lead
      /\ UNCHANGED <<logs, tables, manifests, db, replay, version, memtables, lastSequence, logNumber>>
  BY DEF Write, Idle, disk, opening, memory
<1>2. /\ thread \in [Threads -> [pc : Callers, batch : Nat, sync : BOOLEAN]]
      /\ lastBatch \in Nat /\ writers \in Seq(Threads)
  BY DEF Inv1, QueueKept, QueueTyped, HistoryTyped
<1>3. /\ Len(writers) \in Nat /\ Len(writers') = Len(writers) + 1 /\ writers'[Len(writers) + 1] = t
      /\ \A i \in 1..Len(writers) : writers'[i] = writers[i]
  BY <1>1, <1>2, AppendProperties, LenProperties
<1>4. /\ thread'[t].pc \in {"room", "queued"} /\ \A u \in Threads : u # t => thread'[u] = thread[u]
      /\ thread'[t].batch = IF null THEN 0 ELSE lastBatch + 1
  BY <1>1, <1>2
<1>5. \A i \in 1..Len(writers) : writers[i] \in Threads /\ writers[i] # t
  BY <1>1, WritersAre DEF Inv1, QueueKept, IdleOutside
<1>6. Logging => Logging' /\ UNCHANGED lead
  <2>. SUFFICES ASSUME Logging PROVE Logging' /\ UNCHANGED lead
    OBVIOUS
  <2>1. PICK u \in Threads : thread[u].pc \in {"sync", "insert", "finish"}
    BY DEF Logging
  <2>2. u # t /\ writers # <<>>
    BY <1>1, <2>1, LeaderIsHead
  <2>. QED
    BY <1>1, <1>4, <2>1, <2>2 DEF Logging
<1>7. \A u \in Threads : Logged(u) => Logged(u)'
  <2>1. ASSUME NEW u \in Threads, Logged(u) PROVE Logged(u)'
    <3>1. PICK i \in 1..lead.size : i <= Len(writers) /\ writers[i] = u
      BY <2>1 DEF Logged
    <3>2. i \in 1..lead'.size /\ i <= Len(writers') /\ writers'[i] = u
      <4>1. i \in Nat /\ 1 <= i
        <5>1. lead.size \in Nat
          BY DEF Inv1, QueueKept, QueueTyped
        <5>. QED
          BY <5>1
      <4>. QED
        BY <1>3, <1>6, <2>1, <3>1, <4>1 DEF Logged
    <3>. QED
      BY <1>6, <2>1, <3>2 DEF Logged
  <2>. QED
    BY <2>1
<1>8. Steady
  BY <1>1, SameParts
<1>9. \A U \in Parts' : \A e \in U : \E S \in Parts : e \in S
  BY <1>8, SteadyEntries
<1>10. \A S \in Parts : \A e \in S : e.batch # lastBatch + 1
  <2>1. \A S \in Parts : \A e \in S : e.batch <= lastBatch
    BY DEF BatchInv, KnownInv
  <2>. QED
    BY <1>2, <2>1
<1>11. \A u \in Threads : thread[u].batch \in Nat /\ thread[u].batch <= lastBatch
  BY <1>2 DEF BatchInv, KnownInv
<1>12. KnownInv'
  <2>1. \A U \in Parts' : \A e \in U : e.batch <= lastBatch
    BY <1>9 DEF BatchInv, KnownInv
  <2>2. ASSUME NEW U \in Parts', NEW e \in U PROVE e.batch <= lastBatch'
    <3>1. PICK S \in Parts : e \in S
      BY <1>9
    <3>2. e.batch \in Nat
      <4>1. e \in Entry
        BY <3>1, EntriesTyped
      <4>. QED
        BY <4>1 DEF Entry
    <3>. QED
      BY <1>1, <1>2, <2>1, <3>2
  <2>3. \A u \in Threads : thread'[u].batch <= lastBatch'
    BY <1>1, <1>2, <1>4, <1>11
  <2>. QED
    BY <2>2, <2>3 DEF KnownInv
<1>13. NewInv'
  <2>1. ASSUME NEW u \in Threads, NEW v \in Threads, Own(u)', thread'[u].batch = thread'[v].batch
        PROVE  u = v
    <3>1. thread[u].batch # lastBatch + 1 /\ thread[v].batch # lastBatch + 1
      BY <1>2, <1>11
    <3>2. u # t /\ v # t => u = v
      BY <1>4, <2>1 DEF BatchInv, NewInv, Own
    <3>. QED
      BY <1>4, <2>1, <3>1, <3>2 DEF Own
  <2>2. ASSUME NEW u \in Threads, Own(u)', ~Logged(u)', NEW U \in Parts', NEW e \in U
        PROVE  e.batch # thread'[u].batch
    <3>1. CASE u = t
      BY <1>4, <1>9, <1>10, <2>2, <3>1 DEF Own
    <3>2. CASE u # t
      BY <1>4, <1>7, <1>9, <2>2, <3>2 DEF BatchInv, NewInv, Own
    <3>. QED
      BY <3>1, <3>2
  <2>. QED
    BY <2>1, <2>2 DEF NewInv
<1>14. TodoInv'
  <2>1. ASSUME NEW u \in Threads, thread'[u].pc = "log"
        PROVE  /\ \A j \in 1..Len(lead'.todo) : \E i \in 1..lead'.size :
                    thread'[writers'[i]].batch # 0 /\ lead'.todo[j].batch = thread'[writers'[i]].batch
               /\ \A e \in RecordEntries(lead'.todo) :
                    Cardinality({f \in RecordEntries(lead'.todo) : f.batch = e.batch}) = BatchSize
    <3>1. u # t /\ thread[u].pc = "log"
      BY <1>4, <2>1
    <3>2. lead' = lead
      BY <1>1, <3>1, LeaderIsHead
    <3>3. lead.size \in 1..Len(writers)
      BY <3>1 DEF Inv1, LeadInv, Leading, GroupInv
    <3>4. \A i \in 1..lead.size : writers'[i] = writers[i] /\ thread'[writers'[i]] = thread[writers[i]]
      BY <1>3, <1>4, <1>5, <3>3
    <3>. QED
      BY <3>1, <3>2, <3>4 DEF BatchInv, TodoInv, Own, OfBatch
  <2>2. (RecordEntries(lead.todo))' = RecordEntries(lead'.todo)
    BY DEF RecordEntries
  <2>. QED
    BY <2>1, <2>2 DEF TodoInv, Own, OfBatch
<1>15. LogsCounted'
  <2>1. LogsLeft
    BY <1>1 DEF LogsLeft
  <2>. QED
    BY <1>1, <1>6, <2>1, LogsStayCounted DEF BatchInv, Alive
<1>. QED
  BY <1>8, <1>12, <1>13, <1>14, <1>15, SteadyCoherent DEF BatchInv

\* A step of somebody who does not write, while the database is open.
LEMMA QuietBatches ==
  ASSUME Inv1, BatchInv, Alive, Alive', Steady, LogsLeft,
         Len(logs'[logNumber].records) = Len(logs[logNumber].records),
         UNCHANGED <<writers, lead, lastBatch, lastSequence, logNumber>>,
         \A u \in Threads : thread'[u].batch = thread[u].batch,
         \A u \in Threads : Leading(u) \/ Leading(u)' => thread'[u] = thread[u]
  PROVE  BatchInv'
<1>1. Logging' <=> Logging
  BY DEF Logging, Leading
<1>2. \A u \in Threads : Logged(u)' <=> Logged(u)
  BY <1>1 DEF Logged
<1>3. KnownInv' /\ NewInv'
  BY <1>2, QueueGoesOn DEF BatchInv, Inv1, HistoryTyped
<1>4. TodoInv'
  <2>1. ASSUME NEW u \in Threads, thread'[u].pc = "log"
        PROVE  /\ \A j \in 1..Len(lead'.todo) : \E i \in 1..lead'.size :
                    thread'[writers'[i]].batch # 0 /\ lead'.todo[j].batch = thread'[writers'[i]].batch
               /\ \A e \in RecordEntries(lead'.todo) :
                    Cardinality({f \in RecordEntries(lead'.todo) : f.batch = e.batch}) = BatchSize
    <3>1. thread[u].pc = "log" /\ Leading(u)
      BY <2>1 DEF Leading
    <3>2. lead.size \in 1..Len(writers)
      BY <3>1 DEF Inv1, LeadInv, GroupInv
    <3>3. \A i \in 1..lead.size : writers[i] \in Threads
      BY <3>2, WritersAre DEF Inv1, QueueKept
    <3>4. \A i \in 1..lead.size : thread'[writers'[i]].batch = thread[writers[i]].batch
      BY <3>3
    <3>5. \A j \in 1..Len(lead.todo) : \E i \in 1..lead.size :
             thread[writers[i]].batch # 0 /\ lead.todo[j].batch = thread[writers[i]].batch
      BY <3>1 DEF BatchInv, TodoInv, Own
    <3>6. \A e \in RecordEntries(lead.todo) :
             Cardinality({f \in RecordEntries(lead.todo) : f.batch = e.batch}) = BatchSize
      BY <3>1 DEF BatchInv, TodoInv, OfBatch
    <3>7. lead' = lead
      OBVIOUS
    <3>8. ASSUME NEW j \in 1..Len(lead'.todo)
          PROVE  \E i \in 1..lead'.size :
                    thread'[writers'[i]].batch # 0 /\ lead'.todo[j].batch = thread'[writers'[i]].batch
      <4>1. PICK i \in 1..lead.size :
               thread[writers[i]].batch # 0 /\ lead.todo[j].batch = thread[writers[i]].batch
        BY <3>5, <3>7
      <4>. QED
        BY <3>4, <3>7, <4>1
    <3>9. \A e \in RecordEntries(lead'.todo) :
             Cardinality({f \in RecordEntries(lead'.todo) : f.batch = e.batch}) = BatchSize
      BY <3>6, <3>7
    <3>. QED
      BY <3>8, <3>9
  <2>2. (RecordEntries(lead.todo))' = RecordEntries(lead'.todo)
    BY DEF RecordEntries
  <2>. QED
    BY <2>1, <2>2 DEF TodoInv, Own, OfBatch
<1>5. LogsCounted'
  BY <1>1, LogsStayCounted DEF BatchInv
<1>. QED
  BY <1>3, <1>4, <1>5, SteadyCoherent DEF BatchInv

\* A step while nobody is in a call, or that ends all calls.
LEMMA AwayBatches ==
  ASSUME Inv1, BatchInv, Steady, UNCHANGED lastBatch, LogsCounted',
         \A u \in Threads : thread'[u].pc = "idle",
         \/ \A u \in Threads : thread'[u].batch = 0
         \/ db # "open" /\ UNCHANGED thread
  PROVE  BatchInv'
<1>1. \A u \in Threads : thread'[u].batch \in {0, thread[u].batch}
  OBVIOUS
<1>2. \A u \in Threads : Own(u)' /\ ~Logged(u)' => ~Logged(u)
  <2>1. CASE \A u \in Threads : thread'[u].batch = 0
    BY <2>1 DEF Own
  <2>2. CASE db # "open"
    BY <2>2, NobodyInQueue DEF Logged, Logging
  <2>. QED
    BY <2>1, <2>2
<1>3. KnownInv' /\ NewInv'
  BY <1>1, <1>2, QueueGoesOn DEF BatchInv, Inv1, HistoryTyped
<1>4. TodoInv'
  BY DEF TodoInv
<1>. QED
  BY <1>3, <1>4, SteadyCoherent DEF BatchInv

\* The background thread writes what is in a memtable or in tables.
LEMMA BackgroundParts ==
  ASSUME Inv1, FilesInv, DataInv, Background PROVE Steady /\ LogsLeft /\ Alive /\ Alive'
<1>1. Alive /\ db' = db /\ replay' = replay /\ lastSequence' = lastSequence /\ logNumber' = logNumber
  <2>1. bg.pc # "off"
    BY DEF Background, BackgroundCall, BuildTable, BuildTableFails, FlushBuilt,
           FlushDuringMerge, OpenCompactionOutputFile, FinishCompactionOutputFile,
           InstallCompactionResults, MergeFails, Commit, CommitFails, DeleteFiles, EndOfBackgroundCall
  <2>. QED
    BY <2>1, WorkFacts
       DEF Background, BackgroundCall, BuildTable, BuildTableFails, FlushBuilt, StartFlush,
           FlushDuringMerge, OpenCompactionOutputFile, FinishCompactionOutputFile,
           InstallCompactionResults, MergeFails, Commit, CommitFails, DeleteFiles,
           EndOfBackgroundCall, opening, memory
<1>2. Alive'
  BY <1>1 DEF Alive
<1>3. NeededTables = DOMAIN tables /\ NeededTables' = DOMAIN tables'
  BY <1>1, <1>2 DEF NeededTables
<1>4. LogsLeft
  <2>1. CASE UNCHANGED logs
    BY <2>1 DEF LogsLeft
  <2>2. CASE DeleteFiles
    BY <2>2 DEF DeleteFiles, Without, LogsLeft
  <2>. QED
    BY <2>1, <2>2
       DEF Background, BackgroundCall, BuildTable, BuildTableFails, FlushBuilt,
           FlushDuringMerge, OpenCompactionOutputFile, FinishCompactionOutputFile,
           InstallCompactionResults, MergeFails, Commit, CommitFails, EndOfBackgroundCall, disk
<1>5. \A n \in DOMAIN memtables' : n \in DOMAIN memtables /\ memtables'[n] = memtables[n]
  <2>1. CASE UNCHANGED memtables
    BY <2>1
  <2>2. CASE Commit
    BY <2>2 DEF Commit, Referenced
  <2>. QED
    BY <2>1, <2>2
       DEF Background, BackgroundCall, BuildTable, BuildTableFails, FlushBuilt, StartFlush,
           FlushDuringMerge, OpenCompactionOutputFile, FinishCompactionOutputFile,
           InstallCompactionResults, MergeFails, CommitFails, DeleteFiles, EndOfBackgroundCall,
           memory
<1>6. \A n \in DOMAIN memtables' : MadeOf(Counted(n)', Parts)
  <2>1. MemtablesLeft
    BY <1>1, <1>5 DEF MemtablesLeft, Counted
  <2>. QED
    BY <2>1, LeftMadeOf
<1>7. \A f \in DOMAIN tables' : MadeOf(tables'[f], Parts)
  <2>1. ASSUME NEW f \in DOMAIN tables', f \in DOMAIN tables, tables'[f] = tables[f]
        PROVE  MadeOf(tables'[f], Parts)
    BY <1>3, <2>1, PartOf, PartMadeOf
  <2>2. CASE UNCHANGED tables
    BY <2>1, <2>2
  <2>3. CASE DeleteFiles
    BY <2>1, <2>3 DEF DeleteFiles, Without
  <2>4. CASE BuildTable
    <3>1. /\ tables' = tables \/ tables' = With(tables, bg.number, memtables[imm])
          /\ bg.pc = "build"
      BY <2>4 DEF BuildTable
    <3>2. imm \in DOMAIN memtables /\ imm # logNumber /\ imm \in Nat
      BY <1>1, <3>1 DEF FilesInv, WorkInv, Inv1, Numbered, Running, Alive, MemoryTyped
    <3>3. Counted(imm) = memtables[imm]
      BY <1>1, <3>2 DEF Counted, Inv1, Sequenced, Running, Alive
    <3>4. MadeOf(memtables[imm], Parts)
      BY <3>2, <3>3, PartOf, PartMadeOf
    <3>. QED
      BY <2>1, <3>1, <3>4 DEF With
  <2>5. CASE FinishCompactionOutputFile
    <3>. DEFINE merged == UNION {tables[n] : n \in bg.inputs}
    <3>1. tables' = With(tables, bg.output, merged)
      BY <2>5 DEF FinishCompactionOutputFile
    <3>2. bg.inputs \subseteq DOMAIN tables
      BY DEF FilesInv, WorkInv
    <3>3. MadeOf(merged, Parts)
      <4>1. ASSUME NEW e \in merged PROVE \E S \in Parts : e \in S /\ S \subseteq merged
        <5>1. PICK n \in bg.inputs : e \in tables[n]
          OBVIOUS
        <5>2. tables[n] \in Parts
          BY <1>3, <3>2, PartOf
        <5>. QED
          BY <5>1, <5>2
      <4>. HIDE DEF merged
      <4>. QED
        BY <4>1 DEF MadeOf
    <3>. HIDE DEF merged
    <3>. QED
      BY <2>1, <3>1, <3>3 DEF With
  <2>. QED
    BY <2>2, <2>3, <2>4, <2>5
       DEF Background, BackgroundCall, BuildTableFails, FlushBuilt,
           FlushDuringMerge, OpenCompactionOutputFile,
           InstallCompactionResults, MergeFails, Commit, CommitFails, EndOfBackgroundCall, disk
<1>8. MadeOf(replay'.mem, Parts)
  BY <1>1, PartOf, PartMadeOf
<1>. QED
  BY <1>1, <1>2, <1>3, <1>4, <1>6, <1>7, <1>8, SteadyStep

LEMMA BackgroundBatches ==
  ASSUME Inv1, FilesInv, DataInv, BatchInv, Background PROVE BatchInv'
<1>1. /\ UNCHANGED <<writers, lead, lastBatch, lastSequence, logNumber>>
      /\ UNCHANGED thread \/ thread' = Awakened(thread)
  BY DEF Background, BackgroundCall, BuildTable, BuildTableFails, FlushBuilt, StartFlush,
         FlushDuringMerge, OpenCompactionOutputFile, FinishCompactionOutputFile,
         InstallCompactionResults, CleanupCompaction, RecordBackgroundError, MergeFails, Commit,
         CommitFails, DeleteFiles, EndOfBackgroundCall, opening, memory, queue, history
<1>2. \A u \in Threads : /\ thread'[u].batch = thread[u].batch
                         /\ Leading(u) \/ Leading(u)' => thread'[u] = thread[u]
  <2>1. CASE UNCHANGED thread
    BY <2>1
  <2>2. CASE thread' = Awakened(thread)
    BY <1>1, <2>2, AwakenedKeeps DEF Inv1
  <2>. QED
    BY <1>1, <2>1, <2>2
<1>3. Len(logs'[logNumber].records) = Len(logs[logNumber].records)
  <2>1. CASE UNCHANGED logs
    BY <2>1
  <2>2. CASE DeleteFiles
    BY <2>2, LiveLogsStay
  <2>. QED
    BY <2>1, <2>2
       DEF Background, BackgroundCall, BuildTable, BuildTableFails, FlushBuilt,
           FlushDuringMerge, OpenCompactionOutputFile, FinishCompactionOutputFile,
           InstallCompactionResults, MergeFails, Commit, CommitFails, EndOfBackgroundCall, disk
<1>. QED
  BY <1>1, <1>2, <1>3, BackgroundParts, QuietBatches

LEMMA ReadBatches ==
  ASSUME Inv1, BatchInv, (\E r \in Readers : StartRead(r) \/ EndRead(r)) \/ Close PROVE BatchInv'
<1>1. /\ UNCHANGED <<logs, tables, manifests, replay, version, lastSequence, logNumber,
                     writers, lead, thread, lastBatch>>
      /\ db' = db \/ (db = "open" /\ db' = "closing")
      /\ \A n \in DOMAIN memtables' : n \in DOMAIN memtables /\ memtables'[n] = memtables[n]
  BY DEF StartRead, EndRead, Close, disk, opening, memory, queue, history
<1>2. db = "open" /\ Alive /\ Alive'
  <2>1. (\E r \in Readers : reader[r].on) => db = "open"
    BY DEF Inv1, OnlyWhenOpen
  <2>2. db = "open"
    BY <2>1 DEF StartRead, EndRead, Close
  <2>. QED
    BY <1>1, <2>2 DEF Alive
<1>3. LogsLeft /\ MemtablesLeft
  BY <1>1 DEF LogsLeft, MemtablesLeft, Counted
<1>4. NeededTables' = NeededTables
  BY <1>1, <1>2 DEF NeededTables
<1>5. Steady
  BY <1>1, <1>3, <1>4, QuietParts
<1>. QED
  BY <1>1, <1>2, <1>3, <1>5, QuietBatches

\* The end of the process, and of the machine.
LEMMA DownBatches ==
  ASSUME Inv1, FilesInv, BatchInv, Down, LogsLeft, UNCHANGED <<tables, manifests, lastBatch>>
  PROVE  BatchInv'
<1>1. /\ db' = "closed" /\ replay' = NoReplay /\ memtables' = <<>>
      /\ \A u \in Threads : thread'[u].pc = "idle" /\ thread'[u].batch = 0
  BY DEF Down, Idle
<1>2. DOMAIN memtables' = {}
  BY <1>1
<1>3. MemtablesLeft
  BY <1>2 DEF MemtablesLeft
<1>4. replay'.mem = {} /\ replay'.added = {}
  BY <1>1 DEF NoReplay
<1>5. NeededTables' = UNION {FilesOf(m) : m \in manifests}
  BY <1>1, <1>4 DEF NeededTables, Alive, FilesOf
<1>6. NeededTables' \subseteq NeededTables
  <2>1. CASE Alive
    BY <1>5, <2>1 DEF NeededTables, FilesInv, DatabaseOpens
  <2>2. CASE ~Alive
    BY <1>5, <2>2 DEF NeededTables
  <2>. QED
    BY <2>1, <2>2
<1>7. Steady
  BY <1>3, <1>4, <1>6, QuietParts
<1>8. LogsCounted'
  BY <1>1, <1>2 DEF LogsCounted, Alive
<1>. QED
  BY <1>1, <1>7, <1>8, AwayBatches

LEMMA EndBatches ==
  ASSUME Inv1, FilesInv, BatchInv, Closed \/ Kill \/ Outage PROVE BatchInv'
<1>1. Down /\ UNCHANGED <<tables, manifests, lastBatch>>
  BY DEF Closed, Kill, Outage, disk
<1>2. LogsLeft
  <2>1. CASE UNCHANGED logs
    BY <2>1 DEF LogsLeft
  <2>2. CASE Outage
    <3>1. /\ DOMAIN logs' = DOMAIN logs
          /\ \A n \in DOMAIN logs :
               /\ Len(logs'[n].records) \in Nat /\ Len(logs'[n].records) <= Len(logs[n].records)
               /\ \A i \in 1..Len(logs'[n].records) : logs'[n].records[i] = logs[n].records[i]
      BY <2>2, OutageLogs DEF Inv1
    <3>2. \A n \in DOMAIN logs : Len(logs[n].records) \in Nat
      <4>1. \A n \in DOMAIN logs : logs[n].records \in Seq(Seq(Entry))
        BY DEF Inv1, LogsTyped, LogFile
      <4>. QED
        BY <4>1
    <3>. QED
      BY <3>1, <3>2 DEF LogsLeft
  <2>. QED
    BY <2>1, <2>2 DEF Closed, Kill, disk
<1>. QED
  BY <1>1, <1>2, DownBatches

\* A step of DB::Open: nobody is in a call.
LEMMA OpeningBatches ==
  ASSUME Inv1, BatchInv, db # "open", Steady, LogsCounted', UNCHANGED <<thread, lastBatch>>
  PROVE  BatchInv'
BY NobodyInQueue, AwayBatches

LEMMA RecoverBatches ==
  ASSUME Inv1, BatchInv, NEW m \in manifests, Recover(m) PROVE BatchInv'
<1>1. /\ db = "closed" /\ db' = "replaying" /\ manifests' \subseteq manifests
      /\ replay'.mem = {} /\ replay'.added = {}
      /\ UNCHANGED <<logs, tables, memtables, thread, lastBatch>>
  BY DEF Recover, NoReplay, queue, history
<1>2. DOMAIN memtables = {}
  BY <1>1 DEF BatchInv, LogsCounted
<1>3. LogsLeft /\ MemtablesLeft
  BY <1>1, <1>2 DEF LogsLeft, MemtablesLeft
<1>4. NeededTables' = UNION {FilesOf(o) : o \in manifests'}
  BY <1>1 DEF NeededTables, Alive, FilesOf
<1>5. NeededTables' \subseteq NeededTables
  BY <1>1, <1>4 DEF NeededTables, Alive
<1>6. Steady
  BY <1>1, <1>3, <1>5, QuietParts
<1>7. LogsCounted'
  BY <1>1, <1>2 DEF LogsCounted, Alive
<1>. QED
  BY <1>1, <1>6, <1>7, OpeningBatches

\* A step of the replay makes one set, of records that were read.
LEMMA ReplayBatches ==
  ASSUME Inv1, FilesInv, BatchInv, db = "replaying", UNCHANGED <<db, logs, manifests, memtables, thread, lastBatch>>,
         NEW mem, MadeOf(mem, Parts),
         \/ /\ tables' = With(tables, nextFile, mem) /\ replay'.mem = {}
            /\ replay'.added = replay.added \cup {nextFile}
         \/ tables' = tables /\ replay'.mem \in {{}, mem} /\ replay'.added = replay.added
  PROVE  BatchInv'
<1>1. DOMAIN memtables = {}
  BY DEF BatchInv, LogsCounted
<1>2. LogsLeft /\ \A n \in DOMAIN memtables' : MadeOf(Counted(n)', Parts)
  BY <1>1 DEF LogsLeft
<1>3. /\ NeededTables = replay.added \cup (UNION {FilesOf(o) : o \in manifests})
      /\ NeededTables' = replay'.added \cup (UNION {FilesOf(o) : o \in manifests})
  BY DEF NeededTables, Alive, FilesOf
<1>4. \A f \in NeededTables' : MadeOf(tables'[f], Parts)
  <2>1. ASSUME NEW f \in NeededTables, tables'[f] = tables[f] PROVE MadeOf(tables'[f], Parts)
    BY <2>1, PartOf, PartMadeOf
  <2>2. CASE tables' = With(tables, nextFile, mem) /\ replay'.added = replay.added \cup {nextFile}
    <3>1. \A f \in NeededTables : tables'[f] = tables[f]
      BY <1>3, <2>2, ReplayTables
    <3>2. tables'[nextFile] = mem
      BY <2>2, ReplayTables
    <3>3. \A f \in NeededTables' : f \in NeededTables \/ f = nextFile
      BY <1>3, <2>2
    <3>. QED
      BY <2>1, <3>1, <3>2, <3>3
  <2>3. CASE tables' = tables /\ replay'.added = replay.added
    BY <1>3, <2>1, <2>3
  <2>. QED
    BY <2>2, <2>3
<1>5. MadeOf(replay'.mem, Parts)
  BY NoneMadeOf
<1>6. Steady
  BY <1>2, <1>4, <1>5, SteadyStep
<1>7. LogsCounted'
  BY <1>1 DEF LogsCounted, Alive
<1>. QED
  BY <1>6, <1>7, OpeningBatches

LEMMA RecoverRecordBatches ==
  ASSUME Inv1, FilesInv, BatchInv, NEW n, RecoverRecord(n) PROVE BatchInv'
<1>1. /\ db = "replaying" /\ n \in DOMAIN logs
      /\ UNCHANGED <<db, logs, manifests, memtables, thread, lastBatch>>
  BY ReplayFacts DEF RecoverRecord, UnchangedInRecovery, queue, history
<1>2. PICK entries, mem :
        /\ entries = RecordEntries(logs[n].records[replay.read + 1]) /\ mem = replay.mem \cup entries
        /\ replay.read + 1 \in 1..Len(logs[n].records)
        /\ \/ /\ tables' = With(tables, nextFile, mem) /\ replay'.mem = {}
              /\ replay'.added = replay.added \cup {nextFile}
           \/ tables' = tables /\ replay'.mem = mem /\ replay'.added = replay.added
  BY RecordFacts
<1>3. entries \in Parts /\ replay.mem \in Parts
  <2>1. Record(n, replay.read + 1) \in Parts
    BY <1>1, <1>2, PartOf
  <2>. QED
    BY <1>2, <2>1, PartOf DEF Record
<1>4. MadeOf(mem, Parts)
  BY <1>2, <1>3 DEF MadeOf
<1>. QED
  BY <1>1, <1>2, <1>4, ReplayBatches

LEMMA SkipRecordBatches ==
  ASSUME Inv1, FilesInv, BatchInv, NEW n, SkipRecord(n) PROVE BatchInv'
<1>1. /\ db = "replaying" /\ db' = "replaying"
      /\ UNCHANGED <<disk, memory, queue, history>>
      /\ replay'.mem = replay.mem /\ replay'.added = replay.added
  BY SkipFacts
<1>2. UNCHANGED <<db, logs, tables, manifests, memtables, thread, lastBatch>>
  BY <1>1 DEF disk, memory, queue, history
<1>3. MadeOf(replay.mem, Parts)
  BY PartOf, PartMadeOf
<1>. QED
  BY <1>1, <1>2, <1>3, ReplayBatches

LEMMA ReadFailsBatches ==
  ASSUME Inv1, FilesInv, BatchInv, NEW n, ReadFails(n) PROVE BatchInv'
<1>1. /\ db = "replaying" /\ db' = "replaying"
      /\ UNCHANGED <<disk, memory, queue, lastBatch>>
      /\ replay'.mem = replay.mem /\ replay'.added = replay.added
  BY FailedFacts
<1>2. UNCHANGED <<db, logs, tables, manifests, memtables, thread, lastBatch>>
  BY <1>1 DEF disk, memory, queue
<1>3. MadeOf(replay.mem, Parts)
  BY PartOf, PartMadeOf
<1>. QED
  BY <1>1, <1>2, <1>3, ReplayBatches

LEMMA RecoverLogFileBatches ==
  ASSUME Inv1, FilesInv, BatchInv, NEW n, RecoverLogFile(n) PROVE BatchInv'
<1>1. db = "replaying" /\ UNCHANGED <<db, logs, manifests, memtables, thread, lastBatch>>
  BY DEF RecoverLogFile, Replaying, UnchangedInRecovery, queue, history
<1>2. /\ replay'.mem = {}
      /\ \/ /\ tables' = With(tables, nextFile, replay.mem)
            /\ replay'.added = replay.added \cup {nextFile}
         \/ tables' = tables /\ replay'.added = replay.added
  BY LogFileFacts
<1>3. MadeOf(replay.mem, Parts)
  BY PartOf, PartMadeOf
<1>. QED
  BY <1>1, <1>2, <1>3, ReplayBatches

LEMMA OpenBatches ==
  ASSUME Inv1, FilesInv, DataInv, BatchInv, Open PROVE BatchInv'
<1>. DEFINE edit == [added0 |-> replay.added, addedDeeper |-> {}, deleted |-> {},
                     log |-> nextFile, next |-> nextFile + 1, last |-> lastSequence]
            new == Applied(replay.from, edit)
<1>1. /\ db = "replaying" /\ db' = "recovering" /\ manifests' = manifests \cup {new}
      /\ version' = [version EXCEPT !.level0 = @ \cup replay.added]
      /\ logs' = With(logs, nextFile, [records |-> <<>>, synced |-> 0])
      /\ logNumber' = nextFile /\ memtables' = [n \in {nextFile} |-> {}]
      /\ replay'.mem = {} /\ replay'.added = {}
      /\ UNCHANGED <<tables, thread, lastBatch>>
  BY DEF Open, NoReplay, queue, history
<1>2. /\ version \in Version /\ replay.from \in manifests
      /\ replay.from.level0 = version.level0 /\ replay.from.deeper = version.deeper
  BY <1>1 DEF Inv1, MemoryTyped, DataInv, LogsThere, FilesInv, ReplayInv
<1>3. FilesOf(new) = FilesOf(version) \cup replay.added /\ FilesOf(replay.from) = FilesOf(version)
  BY <1>2 DEF Applied, FilesOf
<1>. HIDE DEF new
<1>4. FilesOf(version') = FilesOf(version) \cup replay.added
  BY <1>1, <1>2 DEF FilesOf, Version
<1>5. NeededTables = replay.added \cup (UNION {FilesOf(o) : o \in manifests})
  BY <1>1 DEF NeededTables, Alive
<1>6. NeededTables' = FilesOf(version') \cup (UNION {FilesOf(o) : o \in manifests'})
  BY <1>1 DEF NeededTables, Alive, FilesOf
<1>7. NeededTables' \subseteq NeededTables
  <2>1. ASSUME NEW f \in NeededTables' PROVE f \in NeededTables
    <3>1. f \in FilesOf(version) \cup replay.added \/ \E o \in manifests : f \in FilesOf(o)
      BY <1>1, <1>3, <1>4, <1>6
    <3>. QED
      BY <1>2, <1>3, <1>5, <3>1
  <2>. QED
    BY <2>1
<1>8. LogsLeft
  <2>1. ASSUME NEW n \in DOMAIN logs', NEW i \in 1..Len(logs'[n].records)
        PROVE  n \in DOMAIN logs /\ logs'[n] = logs[n]
    <3>1. n # nextFile
      BY <1>1, <2>1 DEF With
    <3>. QED
      BY <1>1, <3>1 DEF With
  <2>. QED
    BY <2>1 DEF LogsLeft
<1>9. MemtablesLeft
  BY <1>1 DEF MemtablesLeft
<1>10. Steady
  BY <1>1, <1>7, <1>8, <1>9, QuietParts
<1>11. LogsCounted'
  <2>1. logs'[logNumber'].records = <<>>
    BY <1>1 DEF With
  <2>. QED
    BY <1>1, <2>1 DEF LogsCounted, Alive
<1>. QED
  BY <1>1, <1>10, <1>11, OpeningBatches

LEMMA FinishOpenBatches ==
  ASSUME Inv1, FilesInv, DataInv, BatchInv, FinishOpen PROVE BatchInv'
<1>1. /\ db = "recovering" /\ DOMAIN tables' = FilesOf(version)
      /\ \A f \in DOMAIN tables' : tables'[f] = tables[f]
  BY OpenedTables
<1>2. /\ db' = "open" /\ UNCHANGED <<replay, memtables, logNumber, lastSequence, thread, lastBatch>>
  BY DEF FinishOpen, queue, history
<1>3. PICK old : logs' = Without(logs, old) /\ old = {n \in DOMAIN logs : n < logNumber}
  BY DEF FinishOpen, ObsoleteFiles
<1>4. \A n \in DOMAIN logs' : n = logNumber /\ n \in DOMAIN logs /\ logs'[n] = logs[n]
  <2>1. /\ \A n \in DOMAIN logs : n <= logNumber /\ n \in Nat
        /\ logNumber \in Nat
    BY <1>1 DEF DataInv, LogsThere, Running, Inv1, LogsTyped, MemoryTyped
  <2>. QED
    BY <1>3, <2>1 DEF Without
<1>5. NeededTables' \subseteq NeededTables
  BY <1>1, <1>2 DEF NeededTables, Alive
<1>6. LogsLeft /\ MemtablesLeft
  BY <1>2, <1>4 DEF LogsLeft, MemtablesLeft, Counted
<1>7. Steady
  <2>1. \A f \in NeededTables' : f \in NeededTables /\ tables'[f] = tables[f]
    BY <1>1, <1>2, <1>5 DEF NeededTables, Alive
  <2>. QED
    BY <1>2, <1>6, <2>1, QuietParts
<1>8. LogsCounted'
  <2>1. logs[logNumber].records = <<>>
    BY <1>1 DEF BatchInv, LogsCounted
  <2>2. \A n \in DOMAIN logs' : logs'[n].records = <<>>
    BY <1>4, <2>1
  <2>3. \A n \in DOMAIN logs' : ~\E i : i \in 1..Len(logs'[n].records)
    BY <2>2
  <2>. QED
    BY <1>2, <2>3 DEF LogsCounted
<1>. QED
  BY <1>1, <1>2, <1>7, <1>8, OpeningBatches

LEMMA FirstBatches == Init => BatchInv
<1>. SUFFICES ASSUME Init PROVE BatchInv
  OBVIOUS
<1>1. /\ logs = <<>> /\ memtables = <<>> /\ manifests = {NewDB} /\ db = "closed" /\ replay = NoReplay
      /\ lastBatch = 0 /\ thread = [t \in Threads |-> Idle]
  BY DEF Init
<1>2. DOMAIN logs = {} /\ DOMAIN memtables = {} /\ replay.mem = {} /\ replay.added = {}
  BY <1>1 DEF NoReplay
<1>3. NeededTables = {}
  <2>1. FilesOf(NewDB) = {}
    BY DEF FilesOf, NewDB
  <2>. QED
    BY <1>1, <1>2, <2>1 DEF NeededTables, Alive
<1>4. \A S \in Parts : S = {}
  BY <1>2, <1>3 DEF Parts
<1>5. \A t \in Threads : thread[t].pc = "idle" /\ thread[t].batch = 0
  BY <1>1 DEF Idle
<1>6. CoherentInv
  BY <1>4 DEF CoherentInv, Coherent
<1>7. KnownInv /\ NewInv /\ TodoInv
  BY <1>1, <1>4, <1>5 DEF KnownInv, NewInv, TodoInv, Own
<1>8. LogsCounted
  BY <1>1, <1>2 DEF LogsCounted, Alive
<1>. QED
  BY <1>6, <1>7, <1>8 DEF BatchInv

LEMMA WriterBatches ==
  ASSUME Inv1, FilesInv, DataInv, WrittenInv, BatchInv, NEW t \in Threads, InWrite(t)
  PROVE  BatchInv'
<1>1. CASE YieldError(t) \/ NewLogFails(t)
  BY <1>1, PopRoomBatches DEF YieldError, NewLogFails, history
<1>2. CASE Delay(t) \/ WaitForBackground(t) \/ SwitchMemTable(t)
  BY <1>2, RoomStepsBatches
<1>3. CASE FoundRoom(t)
  BY <1>3, FoundRoomBatches
<1>4. CASE AddRecord(t)
  BY <1>4, AddRecordBatches
<1>5. CASE AppendFails(t)
  BY <1>5, AppendFailsBatches
<1>6. CASE Sync(t) \/ SyncFails(t) \/ InsertInto(t)
  BY <1>6, LeaderBatches
<1>7. CASE FinishWrite(t)
  BY <1>7, FinishWriteBatches
<1>. QED
  BY <1>1, <1>2, <1>3, <1>4, <1>5, <1>6, <1>7 DEF InWrite

LEMMA NextBatches ==
  Inv1 /\ FilesInv /\ DataInv /\ WrittenInv /\ BatchInv /\ [Next]_vars => BatchInv'
<1>. SUFFICES ASSUME Inv1, FilesInv, DataInv, WrittenInv, BatchInv, [Next]_vars PROVE BatchInv'
  OBVIOUS
<1>1. CASE UNCHANGED vars
  <2>1. UNCHANGED <<logs, tables, manifests, db, replay, version, memtables, lastSequence, logNumber,
                    writers, thread, lead, lastBatch>>
    BY <1>1 DEF vars, disk, opening, memory, queue, history
  <2>2. Steady
    BY <2>1, SameParts
  <2>3. KnownInv' /\ NewInv'
    <3>1. \A u \in Threads : Logged(u)' <=> Logged(u)
      BY <2>1 DEF Logged, Logging
    <3>. QED
      BY <2>1, <2>2, <3>1, QueueGoesOn DEF BatchInv, Inv1, HistoryTyped
  <2>4. TodoInv'
    BY <2>1 DEF BatchInv, TodoInv, Own, OfBatch, RecordEntries
  <2>5. LogsCounted'
    BY <2>1 DEF BatchInv, LogsCounted, Alive, Record, Logging
  <2>. QED
    BY <2>2, <2>3, <2>4, <2>5, SteadyCoherent DEF BatchInv
<1>2. CASE \E t \in Threads, sync \in BOOLEAN : Write(t, FALSE, sync)
  BY <1>2, WriteBatches
<1>3. ASSUME NEW t \in Threads, Write(t, TRUE, FALSE) \/ InWrite(t) PROVE BatchInv'
  BY <1>3, WriteBatches, WriterBatches
<1>4. CASE Background
  BY <1>4, BackgroundBatches
<1>5. CASE (\E r \in Readers : StartRead(r) \/ EndRead(r)) \/ Close
  BY <1>5, ReadBatches
<1>6. CASE Closed \/ Kill \/ Outage
  BY <1>6, EndBatches
<1>7. CASE \E m \in manifests : Recover(m)
  BY <1>7, RecoverBatches
<1>8. CASE \E n \in replay.logs :
        RecoverRecord(n) \/ SkipRecord(n) \/ ReadFails(n) \/ RecoverLogFile(n)
  BY <1>8, RecoverRecordBatches, SkipRecordBatches, ReadFailsBatches, RecoverLogFileBatches
<1>9. CASE Open
  BY <1>9, OpenBatches
<1>10. CASE FinishOpen
  BY <1>10, FinishOpenBatches
<1>. QED
  BY <1>1, <1>2, <1>3, <1>4, <1>5, <1>6, <1>7, <1>8, <1>9, <1>10 DEF Next

\* What is stored of an open database is made of parts, so BatchInv says of it what
\* BatchesWhole does.
LEMMA StoredMadeOf ==
  ASSUME Inv1, FilesInv, DataInv, db = "open" PROVE MadeOf(Stored(lastSequence), Parts)
<1>. DEFINE S == Stored(lastSequence)
<1>1. Alive /\ Running /\ NeededTables = DOMAIN tables
  BY DEF Alive, Running, NeededTables
<1>2. InMemory \subseteq DOMAIN memtables
  BY <1>1 DEF InMemory, Inv1, Numbered, None
<1>3. S = {e \in (UNION {memtables[n] : n \in InMemory})
                   \cup (UNION {tables[f] : f \in FilesOf(version) \cap DOMAIN tables}) :
             e.seq <= lastSequence}
  BY DEF Stored, Content
<1>4. ASSUME NEW e \in S PROVE \E P \in Parts : e \in P /\ P \subseteq S
  <2>1. \/ \E n \in InMemory : e \in memtables[n] /\ e.seq <= lastSequence
        \/ \E f \in FilesOf(version) \cap DOMAIN tables : e \in tables[f]
    BY <1>3
  <2>2. ASSUME NEW n \in InMemory, e \in memtables[n], e.seq <= lastSequence
        PROVE  \E P \in Parts : e \in P /\ P \subseteq S
    <3>1. Counted(n) \in Parts
      BY <1>2, PartOf
    <3>2. e \in Counted(n) /\ Counted(n) \subseteq S
      BY <1>3, <2>2 DEF Counted
    <3>. QED
      BY <3>1, <3>2
  <2>3. ASSUME NEW f \in FilesOf(version) \cap DOMAIN tables, e \in tables[f]
        PROVE  \E P \in Parts : e \in P /\ P \subseteq S
    <3>1. tables[f] \in Parts
      BY <1>1, PartOf
    <3>2. \A x \in tables[f] : x.seq <= lastSequence
      BY <1>1 DEF DataInv, TablesSequenced
    <3>3. tables[f] \subseteq S
      BY <1>3, <3>2
    <3>. QED
      BY <2>3, <3>1, <3>3
  <2>. QED
    BY <2>1, <2>2, <2>3
<1>. HIDE DEF S
<1>. QED
  BY <1>4 DEF MadeOf, S

LEMMA WholeBatches ==
  ASSUME Inv1, FilesInv, DataInv, BatchInv PROVE BatchesWhole
<1>. DEFINE S == Stored(lastSequence)
<1>. SUFFICES ASSUME db = "open"
              PROVE  /\ \A b \in 1..lastBatch : Cardinality({e \in S : e.batch = b}) \in {0, BatchSize}
                     /\ \A n \in InMemory : \A e \in memtables[n], f \in S : e.seq = f.seq => e = f
  BY DEF BatchesWhole
<1>1. MadeOf(S, Parts)
  BY StoredMadeOf
<1>2. Coherent(Parts)
  BY DEF BatchInv, CoherentInv
<1>3. Coherent(Parts \cup {S})
  <2>1. \A U \in Parts \cup {S} : MadeOf(U, Parts)
    BY <1>1, PartMadeOf
  <2>. QED
    BY <1>2, <2>1, MadeOfCoherent
<1>4. \A f \in S : f.seq <= lastSequence
  BY DEF Stored, Content
<1>. HIDE DEF S
<1>5. ASSUME NEW b \in 1..lastBatch PROVE Cardinality({e \in S : e.batch = b}) \in {0, BatchSize}
  <2>1. CASE {e \in S : e.batch = b} = {}
    BY <2>1, FS_EmptySet
  <2>2. CASE {e \in S : e.batch = b} # {}
    <3>1. PICK e \in S : e.batch = b
      BY <2>2
    <3>2. Cardinality(OfBatch(S, e.batch)) = BatchSize
      BY <1>3 DEF Coherent
    <3>. QED
      BY <3>1, <3>2 DEF OfBatch
  <2>. QED
    BY <2>1, <2>2
<1>6. ASSUME NEW n \in InMemory, NEW e \in memtables[n], NEW f \in S, e.seq = f.seq PROVE e = f
  <2>1. n \in DOMAIN memtables
    BY DEF InMemory, Inv1, Numbered, Running, None
  <2>2. Counted(n) \in Parts /\ e \in Counted(n)
    BY <1>4, <1>6, <2>1, PartOf DEF Counted
  <2>. QED
    BY <1>3, <1>6, <2>2 DEF Coherent
<1>. QED
  BY <1>5, <1>6

LEMMA BatchInvHolds == Spec => []BatchInv
<1>1. Init => BatchInv
  BY FirstBatches
<1>2. Inv1 /\ FilesInv /\ DataInv /\ WrittenInv /\ BatchInv /\ [Next]_vars => BatchInv'
  BY NextBatches
<1>. QED
  BY <1>1, <1>2, Inv1Holds, FilesInvHolds, DataInvHolds, WrittenHolds, PTL DEF Spec

\* A batch is stored with all its entries or with none, whatever is inserted, flushed,
\* merged, lost in an outage and replayed, and no two entries share a sequence number:
\* the record of a group in the log is the unit in which entries are lost and found.
THEOREM BatchesWholeHolds == Spec => []BatchesWhole
<1>1. Inv1 /\ FilesInv /\ DataInv /\ BatchInv => BatchesWhole
  BY WholeBatches
<1>. QED
  BY <1>1, Inv1Holds, FilesInvHolds, DataInvHolds, BatchInvHolds, PTL

=============================================================================
