------------------------------ MODULE FileLock ------------------------------
(* The lock of a database's directory: PosixEnv::LockFile and UnlockFile    *)
(* (util/env_posix.cc), by threads of several processes.  fcntl locks are   *)
(* of a process, and the system drops them when the process closes any      *)
(* descriptor of the file.                                                  *)
EXTENDS Naturals, FiniteSets

CONSTANTS Processes,
          PerProcess,  \* the threads of each
          Free         \* no process

VARIABLES locks,   \* PosixLockTable: the processes whose table has the file
          holder,  \* the process that has the fcntl lock, or Free
          pc       \* where each thread is

vars == <<locks, holder, pc>>

AllThreads == Processes \X PerProcess
Of(t) == t[1]
Goes(t, from, to) == pc[t] = from /\ pc' = [pc EXCEPT ![t] = to]
\* close(fd)
Closed(p) == IF holder = p THEN Free ELSE holder
----------------------------------------------------------------------------
\* LockFile: open, the table, and fcntl.
Opened(t) == Goes(t, "idle", "opened") /\ UNCHANGED <<locks, holder>>

\* Mutant: the table of locks lets everybody in.
InsertUnchecked(t) ==
  Goes(t, "opened", "inserted") /\ locks' = locks \cup {Of(t)} /\ UNCHANGED holder

Insert(t) ==
  IF Of(t) \in locks
  THEN Goes(t, "opened", "refused") /\ UNCHANGED <<locks, holder>>
  ELSE Goes(t, "opened", "inserted") /\ locks' = locks \cup {Of(t)} /\ UNCHANGED holder
CloseRefused(t) == Goes(t, "refused", "idle") /\ holder' = Closed(Of(t)) /\ UNCHANGED locks
Lock(t) ==
  /\ IF holder \in {Free, Of(t)}
     THEN Goes(t, "inserted", "holding") /\ holder' = Of(t)
     ELSE Goes(t, "inserted", "busy") /\ UNCHANGED holder
  /\ UNCHANGED locks
CloseBusy(t) == Goes(t, "busy", "closed") /\ holder' = Closed(Of(t)) /\ UNCHANGED locks
RemoveBusy(t) == Goes(t, "closed", "idle") /\ locks' = locks \ {Of(t)} /\ UNCHANGED holder

\* UnlockFile: fcntl, the table, and close.
Unlock(t) == Goes(t, "holding", "unlocked") /\ holder' = Closed(Of(t)) /\ UNCHANGED locks
UnlockFails(t) == Goes(t, "holding", "leaked") /\ UNCHANGED <<locks, holder>>
Remove(t) == Goes(t, "unlocked", "removed") /\ locks' = locks \ {Of(t)} /\ UNCHANGED holder
Close(t) == Goes(t, "removed", "idle") /\ holder' = Closed(Of(t)) /\ UNCHANGED locks

\* A process ends, and another takes its place.
Exit(p) ==
  /\ pc' = [t \in AllThreads |-> IF Of(t) = p THEN "idle" ELSE pc[t]]
  /\ locks' = locks \ {p} /\ holder' = Closed(p)

Init == locks = {} /\ holder = Free /\ pc = [t \in AllThreads |-> "idle"]
Next ==
  \/ \E t \in AllThreads :
       \/ Opened(t) \/ Insert(t) \/ CloseRefused(t) \/ Lock(t) \/ CloseBusy(t) \/ RemoveBusy(t)
       \/ Unlock(t) \/ UnlockFails(t) \/ Remove(t) \/ Close(t)
  \/ \E p \in Processes : Exit(p)
Spec == Init /\ [][Next]_vars
----------------------------------------------------------------------------
Holding == {t \in AllThreads : pc[t] = "holding"}

\* Of one process no two threads hold the lock.
OneInProcess == \A t, u \in Holding : Of(t) = Of(u) => t = u

\* No two hold it at all: LockFile fails if somebody else already does
\* (include/leveldb/env.h).
OneHolder == Cardinality(Holding) <= 1
=============================================================================
