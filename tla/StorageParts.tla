---------------------------- MODULE StorageParts ----------------------------
(* The parts of the storage engine that go on side by side with calls that  *)
(* fail, threads and crashes, each in its module: the files it writes and   *)
(* CURRENT, the lock of a database, the background queue, the repair, the   *)
(* open tables, the skip list and its arena.  (Storage adds the others.)    *)
EXTENDS Integers, Sequences, FiniteSets

CONSTANTS
  Keys, MaxHeight, MaxMoves,                                \* SkipList
  Threads, Files, Capacities, MaxMmaps, MaxOpenFiles,       \* TableCache
  Works,                                                    \* WorkQueue
  WritableFileBufferSize, Sizes, MaxBytes,                  \* WritableFile
  Processes, PerProcess, Free,                              \* FileLock
  MaxRuns, MaxErrors, Directories,                          \* Repair
  MaxOpens, MaxOutages,                                     \* CurrentFile
  ArenaBlockSize, Align, PointerSize, Requests, MaxPieces   \* Arena

VARIABLES
  stores, writing, published, seen, search, node, start, moves,
  cache, capacity, mmaps, fds, calls,
  queue, worker, asked, ran,
  manifest, buf, written, appended, durable, listed, refused, promise,
  locks, holder, pc,
  dir, lost, had, descriptor, run, runs, errors, killed, givenUp,
  journal, data, step, target, opens, outages,
  arena, pieces

listVars == <<stores, writing, published, seen, search, node, start, moves>>
cacheVars == <<cache, capacity, mmaps, fds, calls>>
workVars == <<queue, worker, asked, ran>>
outputVars == <<manifest, buf, written, appended, durable, listed, refused, promise>>
lockVars == <<locks, holder, pc>>
fixVars == <<dir, lost, had, descriptor, run, runs, errors, killed, givenUp>>
currentVars == <<journal, data, step, target, opens, outages>>
arenaVars == <<arena, pieces>>

List == INSTANCE SkipList
Cache == INSTANCE TableCache
Work == INSTANCE WorkQueue
Output == INSTANCE WritableFile
Lock == INSTANCE FileLock
Fix == INSTANCE Repair
Current == INSTANCE CurrentFile
Memory == INSTANCE Arena

\* Sizes are numbers of bytes.
ASSUME OutputAssumption == WritableFileBufferSize \in Nat /\ Sizes \subseteq Nat

\* What is found are finitely many files, each of a name of its own, in which
\* finitely many entries can be read.
ASSUME DirectoriesAssumption ==
  \A files \in Directories :
    /\ IsFiniteSet(files)
    /\ \A f \in files :
         /\ f \in [kind : {"log", "table"}, number : Nat, entries : SUBSET Nat, sound : BOOLEAN]
         /\ IsFiniteSet(f.entries)
         /\ \A g \in files : f.kind = g.kind /\ f.number = g.number => f = g
=============================================================================
