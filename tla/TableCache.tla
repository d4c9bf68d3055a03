----------------------------- MODULE TableCache -----------------------------
(* The open tables: TableCache (db/table_cache.cc) on LRUCache              *)
(* (util/cache.cc), and the files they are read through, which are mapped,  *)
(* or kept open, or opened for every read, as two Limiters allow            *)
(* (util/env_posix.cc).  A mutex makes each call of the cache one step, but *)
(* a table missing from it is opened between two of them.                   *)
EXTENDS Integers, Sequences, FiniteSets

CONSTANTS Threads, Files,
          Capacities,  \* max_open_files less those of other uses; 0 caches nothing
          MaxMmaps, MaxOpenFiles

VARIABLES cache,     \* LRUCache: [entries, table, lru, usage]
          capacity,  \* LRUCache::capacity_
          mmaps,     \* mmap_limiter_'s acquires_allowed_
          fds,       \* fd_limiter_'s
          calls      \* each thread: [pc, file, kind, handle]

vars == <<cache, capacity, mmaps, fds, calls>>

\* As many entries as may be in use and in the cache at a time.
Entries == 1..(Cardinality(Threads) + CHOOSE c \in Capacities : \A d \in Capacities : d <= c)
None == 0
Freed == [file |-> None, kind |-> "none", refs |-> 0, inCache |-> FALSE]
Idle == [pc |-> "idle", file |-> None, kind |-> "none", handle |-> None]
EmptyCache == [entries |-> [e \in Entries |-> Freed], table |-> [f \in Files |-> None],
               lru |-> <<>>, usage |-> 0]
At(pc, kind) == {t \in Threads : calls[t].pc = pc /\ calls[t].kind = kind}
Open(c, kind) == {e \in Entries : c.entries[e].refs > 0 /\ c.entries[e].kind = kind}
----------------------------------------------------------------------------
\* LRUCache.  An entry that nobody but the cache refers to is on the list
\* lru_, the oldest first; one that is also in use is on in_use_.
LRURemove(c, e) == [c EXCEPT !.lru = SelectSeq(@, LAMBDA x : x # e)]
Ref(c, e) == LRURemove([c EXCEPT !.entries[e].refs = @ + 1], e)
Unref(c, e) ==
  IF c.entries[e].refs = 1 THEN [c EXCEPT !.entries[e] = Freed]
  ELSE LET less == [c EXCEPT !.entries[e].refs = @ - 1]
       IN  IF c.entries[e].inCache /\ c.entries[e].refs = 2
           THEN [less EXCEPT !.lru = Append(@, e)] ELSE less

\* FinishErase with the removal from the table; not if another is there by now.
FinishErase(c, e) ==
  IF e = None THEN c
  ELSE Unref([LRURemove(c, e) EXCEPT !.usage = @ - 1, !.entries[e].inCache = FALSE], e)
Remove(c, file) == FinishErase([c EXCEPT !.table[file] = None], c.table[file])

\* The loop of Insert: the oldest go until the rest fit.
EvictedAfter(c, n) ==
  LET after[i \in 0..n] ==
        IF i = 0 THEN c
        ELSE LET before == after[i - 1]
             IN  Remove(before, before.entries[before.lru[1]].file)
  IN  after[n]
MadeRoom(c) ==
  LET over == c.usage - capacity
  IN  EvictedAfter(c, IF over <= 0 THEN 0 ELSE IF over < Len(c.lru) THEN over ELSE Len(c.lru))
FreeEntry == CHOOSE e \in Entries : cache.entries[e].refs = 0
Inserted(file, kind) ==
  LET e == FreeEntry
      old == cache.table[file]
      entry(refs) == [file |-> file, kind |-> kind, refs |-> refs, inCache |-> refs = 2]
  IN  IF capacity = 0 THEN MadeRoom([cache EXCEPT !.entries[e] = entry(1)])
      ELSE MadeRoom(FinishErase([cache EXCEPT !.entries[e] = entry(2), !.usage = @ + 1,
                                              !.table[file] = e], old))

\* The cache becomes c; DeleteEntry closes the files of the entries freed,
\* and their destructors release what the Limiters allowed.
Becomes(c) ==
  /\ cache' = c
  /\ mmaps' = mmaps + Cardinality(Open(cache, "mmap") \ Open(c, "mmap"))
  /\ fds' = fds + Cardinality(Open(cache, "fd") \ Open(c, "fd"))
----------------------------------------------------------------------------
\* FindTable: a hit, or a miss and the file opened, which may fail.
Lookup(t, file) ==
  /\ calls[t] = Idle
  /\ LET e == cache.table[file]
     IN  IF e # None
         THEN /\ Becomes(Ref(cache, e))
              /\ calls' = [calls EXCEPT ![t] = [Idle EXCEPT !.pc = "using", !.file = file, !.handle = e]]
         ELSE /\ calls' = [calls EXCEPT ![t] = [Idle EXCEPT !.pc = "open", !.file = file]]
              /\ UNCHANGED <<cache, mmaps, fds>>
  /\ UNCHANGED capacity
OpenFails(t) ==
  /\ calls[t].pc = "open"
  /\ calls' = [calls EXCEPT ![t] = Idle] /\ UNCHANGED <<cache, capacity, mmaps, fds>>

\* NewRandomAccessFile.  Limiter::Acquire subtracts first and adds again when
\* there was nothing to take.
Goes(t, pc, kind) == calls' = [calls EXCEPT ![t].pc = pc, ![t].kind = kind]
AcquireMmap(t) ==
  /\ calls[t].pc = "open"
  /\ mmaps' = mmaps - 1
  /\ IF mmaps > 0 THEN Goes(t, "map", "mmap") ELSE Goes(t, "giveBack", "mmap")
  /\ UNCHANGED <<cache, capacity, fds>>
GiveBackMmap(t) ==
  /\ calls[t].pc = "giveBack" /\ calls[t].kind = "mmap"
  /\ mmaps' = mmaps + 1 /\ Goes(t, "keep", "none") /\ UNCHANGED <<cache, capacity, fds>>
Mapped(t) ==
  /\ calls[t].pc = "map" /\ Goes(t, "table", "mmap") /\ UNCHANGED <<cache, capacity, mmaps, fds>>

\* Mutant: a permit is kept when mmap fails.
MapFailsUnreleased(t) ==
  /\ calls[t].pc = "map"
  /\ calls' = [calls EXCEPT ![t] = Idle] /\ UNCHANGED <<cache, capacity, fds, mmaps>>

MapFails(t) ==
  /\ calls[t].pc = "map"
  /\ mmaps' = mmaps + 1 /\ calls' = [calls EXCEPT ![t] = Idle] /\ UNCHANGED <<cache, capacity, fds>>
AcquireFd(t) ==
  /\ calls[t].pc = "keep"
  /\ fds' = fds - 1
  /\ IF fds > 0 THEN Goes(t, "table", "fd") ELSE Goes(t, "giveBack", "fd")
  /\ UNCHANGED <<cache, capacity, mmaps>>
GiveBackFd(t) ==
  /\ calls[t].pc = "giveBack" /\ calls[t].kind = "fd"
  /\ fds' = fds + 1 /\ Goes(t, "table", "none") /\ UNCHANGED <<cache, capacity, mmaps>>

\* Table::Open fails and the file is deleted, or the table goes into the cache.
TableFails(t) ==
  /\ calls[t].pc = "table"
  /\ mmaps' = mmaps + IF calls[t].kind = "mmap" THEN 1 ELSE 0
  /\ fds' = fds + IF calls[t].kind = "fd" THEN 1 ELSE 0
  /\ calls' = [calls EXCEPT ![t] = Idle] /\ UNCHANGED <<cache, capacity>>
Insert(t) ==
  /\ calls[t].pc = "table"
  /\ Becomes(Inserted(calls[t].file, calls[t].kind))
  /\ calls' = [calls EXCEPT ![t] = [Idle EXCEPT !.pc = "using", !.file = calls[t].file,
                                                !.handle = FreeEntry]]
  /\ UNCHANGED capacity

\* The end of Get, or the iterator's cleanup UnrefEntry.
Release(t) ==
  /\ calls[t].pc = "using"
  /\ Becomes(Unref(cache, calls[t].handle))
  /\ calls' = [calls EXCEPT ![t] = Idle] /\ UNCHANGED capacity

\* Evict and Cache::Prune; the destructor, when the database is opened anew.
Evict(file) == Becomes(Remove(cache, file)) /\ UNCHANGED <<capacity, calls>>
Prune == Becomes(EvictedAfter(cache, Len(cache.lru))) /\ UNCHANGED <<capacity, calls>>
Reopen ==
  /\ \A t \in Threads : calls[t] = Idle
  /\ Becomes(EmptyCache) /\ capacity' \in Capacities /\ UNCHANGED calls

Init ==
  /\ cache = EmptyCache /\ capacity \in Capacities
  /\ mmaps = MaxMmaps /\ fds = MaxOpenFiles /\ calls = [t \in Threads |-> Idle]
Next ==
  \/ \E t \in Threads :
       \/ \E file \in Files : Lookup(t, file)
       \/ OpenFails(t) \/ AcquireMmap(t) \/ GiveBackMmap(t) \/ Mapped(t) \/ MapFails(t)
       \/ AcquireFd(t) \/ GiveBackFd(t) \/ TableFails(t) \/ Insert(t) \/ Release(t)
  \/ \E file \in Files : Evict(file)
  \/ Prune \/ Reopen
Spec == Init /\ [][Next]_vars
----------------------------------------------------------------------------
\* The cache hangs together: the table finds what is in the cache, lru_ has
\* what only the cache refers to, and the usage and the references add up.
Holders(e) == {t \in Threads : calls[t].handle = e}
TypeOK ==
  /\ \A e \in Entries :
       LET entry == cache.entries[e]
       IN  /\ entry.refs = Cardinality(Holders(e)) + IF entry.inCache THEN 1 ELSE 0
           /\ entry.inCache <=> \E f \in Files : cache.table[f] = e /\ entry.file = f
           /\ (\E i \in DOMAIN cache.lru : cache.lru[i] = e) <=> entry.inCache /\ entry.refs = 1
  /\ cache.usage = Cardinality({e \in Entries : cache.entries[e].inCache})

\* A thread reads from the table it asked for, open until the thread is done
\* with it, also when the cache has given the table up or has it anew.
UsedTablesAreOpen ==
  \A t \in Threads : calls[t].pc = "using" =>
    cache.entries[calls[t].handle].refs > 0 /\ cache.entries[calls[t].handle].file = calls[t].file

\* No more files are mapped or kept open than the limits say, and no permit is
\* lost: once no thread is between taking and giving back, what is not in use
\* may be acquired.
Taken(kind) == Cardinality(Open(cache, kind)) + Cardinality(At("table", kind) \cup At("map", kind))
LimitsKept ==
  /\ Taken("mmap") <= MaxMmaps /\ Taken("fd") <= MaxOpenFiles
  /\ At("giveBack", "mmap") = {} => mmaps = MaxMmaps - Taken("mmap")
  /\ At("giveBack", "fd") = {} => fds = MaxOpenFiles - Taken("fd")
=============================================================================
