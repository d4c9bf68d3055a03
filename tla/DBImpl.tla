------------------------------- MODULE DBImpl -------------------------------
(* The writers' queue, the background thread, readers, crashes and recovery *)
(* of a leveldb database (leveldb-library/db/db_impl.cc).  A batch is known *)
(* by its number and holds BatchSize entries; keys, levels below 0 and what *)
(* a compaction drops are in VersionSet.  A section of code that holds      *)
(* mutex_ is one step.                                                      *)
EXTENDS Naturals, FiniteSets, SequencesExt

CONSTANTS Threads,              \* that call Write
          Readers,              \* that call Get or hold an iterator
          BatchSize,            \* entries of a batch
          MaxGroup,             \* batches of a group (its byte limit in the code)
          WriteBufferSize,      \* Options::write_buffer_size, in entries
          CompactionTrigger,    \* config::kL0_CompactionTrigger
          SlowdownTrigger,      \* config::kL0_SlowdownWritesTrigger
          StopTrigger,          \* config::kL0_StopWritesTrigger
          Budgets               \* bounds: how often a run may write, read, fail, ...

ASSUME DBImplAssumption ==
  /\ {BatchSize, MaxGroup, WriteBufferSize, CompactionTrigger} \subseteq Nat \ {0}
  /\ CompactionTrigger <= SlowdownTrigger /\ SlowdownTrigger <= StopTrigger
  /\ StopTrigger \in Nat /\ {0, 1} \cap Threads = {}       \* None, BackgroundThread
  /\ Budgets \subseteq [writes : Nat, flushes : Nat, reads : Nat, kills : Nat,
                        outages : Nat, closes : Nat, faults : Nat]

VARIABLES
  logs,          \* log files: number -> [records, synced (how many of them)]
  tables,        \* table files: number -> entries
  manifests,     \* what CURRENT and its MANIFEST may say after a crash
  db,            \* "open", "closing", "closed"; "replaying", "recovering" (in DB::Open)
  replay,        \* locals of DBImpl::Recover and RecoverLogFile
  memtables,     \* memtables that are referenced, by the number of their log
  imm,           \* imm_, 0 if none
  logNumber,     \* logfile_number_, and with it mem_ and log_
  version,       \* versions_->current(): its files of level 0, and deeper ones
  minLog,        \* versions_->log_number_
  nextFile, lastSequence, pendingOutputs, bgError,
  bg,            \* the background thread
  writers,       \* writers_
  thread,        \* each thread's Writer
  mutex,         \* the thread that goes on holding mutex_ after its step, or None
  lead,          \* locals of Write and MakeRoomForWrite at the head of the queue
  reader,        \* what each reader has captured, or NoRead
  promised,      \* batches reported written: <<batch, sync>>
  lastBatch, budget

disk == <<logs, tables, manifests>>
memory == <<memtables, imm, logNumber, version, minLog, nextFile, lastSequence,
            pendingOutputs, bgError>>
queue == <<writers, thread, mutex, lead>>
history == <<promised, lastBatch>>
opening == <<db, replay>>
vars == <<disk, opening, memory, bg, queue, reader, history, budget>>

None == 0
BackgroundThread == 1
Idle == [pc |-> "idle", batch |-> 0, sync |-> FALSE]
NoLead == [force |-> FALSE, delay |-> FALSE, size |-> 0, todo |-> <<>>, failed |-> FALSE,
           syncError |-> FALSE]
NoRead == [on |-> FALSE, seq |-> 0, mems |-> {}, files |-> {}, expect |-> {}]
BgOff == [pc |-> "off", what |-> "flush", number |-> 0, edit |-> <<>>, before |-> {},
          garbage |-> <<>>, merging |-> FALSE, inputs |-> {}, output |-> 0]
NoReplay == [from |-> 0, logs |-> {}, read |-> 0, mem |-> {}, added |-> {}]
Spend(what) == budget[what] > 0 /\ budget' = [budget EXCEPT ![what] = @ - 1]

Without(f, S) == [n \in DOMAIN f \ S |-> f[n]]
With(f, n, value) == [x \in DOMAIN f \cup {n} |-> IF x = n THEN value ELSE f[x]]
FilesOf(v) == v.level0 \cup v.deeper
RecordEntries(record) == {record[i] : i \in DOMAIN record}
----------------------------------------------------------------------------
\* Versions, the MANIFEST and what may be deleted.

\* An edit applied to what a MANIFEST says (VersionSet::Recover reads the
\* edits one after the other; LogAndApply writes one).
Applied(m, edit) ==
  [level0 |-> (m.level0 \ edit.deleted) \cup edit.added0,
   deeper |-> (m.deeper \ edit.deleted) \cup edit.addedDeeper,
   log |-> edit.log, next |-> edit.next, last |-> edit.last]

\* Mutant: versions that readers hold are forgotten.
LiveWithoutReaders(current, inputs) == FilesOf(current) \cup inputs

\* Tables some version in use needs: the current one, those of readers and
\* of the compaction under way.
AddLiveFiles(current, inputs) ==
  FilesOf(current) \cup inputs \cup UNION {reader[r].files : r \in Readers}

\* Mutant: files are deleted after an error.
ObsoleteInSpiteOfErrors(live, oldestLog, error) ==
  [logs |-> {n \in DOMAIN logs : n < oldestLog}, tables |-> DOMAIN tables \ live]

\* RemoveObsoleteFiles: what to delete once mutex_ is released.
ObsoleteFiles(live, oldestLog, error) ==
  [logs |-> {n \in DOMAIN logs : ~error /\ n < oldestLog},
   tables |-> {n \in DOMAIN tables : ~error /\ n \notin live}]

\* Mutant: a full memtable does not schedule work.
ScheduleCompactionOnly(b, i, v, error) ==
  IF /\ b.pc = "off" /\ db # "closing" /\ ~error
     /\ Cardinality(v.level0) >= CompactionTrigger
  THEN [b EXCEPT !.pc = "scheduled"] ELSE b

\* MaybeScheduleCompaction, for the new values of its conditions.
MaybeScheduleCompaction(b, i, v, error) ==
  IF /\ b.pc = "off" /\ db # "closing" /\ ~error
     /\ i # None \/ Cardinality(v.level0) >= CompactionTrigger
  THEN [b EXCEPT !.pc = "scheduled"] ELSE b

\* Mutant: a finished work wakes writers in the queue too.
AllAwakened(th) == [t \in Threads |-> IF th[t].pc \in {"wait", "queued"}
                                      THEN [th[t] EXCEPT !.pc = "room"] ELSE th[t]]

\* background_work_finished_signal_.SignalAll().
Awakened(th) == [t \in Threads |-> IF th[t].pc = "wait" THEN [th[t] EXCEPT !.pc = "room"]
                                   ELSE th[t]]
\* Memtables that are still referenced.
Referenced(tabs, m, i) ==
  LET refs == {m, i} \cup UNION {reader[r].mems : r \in Readers}
  IN  [n \in DOMAIN tabs \cap refs |-> tabs[n]]
----------------------------------------------------------------------------
\* Writing: DBImpl::Write, MakeRoomForWrite, BuildBatchGroup.

Free(t) == mutex \in {None, t}

\* The call joins the queue; at its head it goes on without releasing mutex_.
Write(t, isNull, sync) ==
  /\ db = "open" /\ mutex = None /\ thread[t] = Idle
  /\ Spend(IF isNull THEN "flushes" ELSE "writes")
  /\ lastBatch' = IF isNull THEN lastBatch ELSE lastBatch + 1
  /\ writers' = Append(writers, t)
  /\ thread' = [thread EXCEPT ![t] =
       [pc |-> IF writers = <<>> THEN "room" ELSE "queued",
        batch |-> IF isNull THEN 0 ELSE lastBatch + 1, sync |-> sync]]
  /\ IF writers = <<>>
     THEN mutex' = t /\ lead' = [NoLead EXCEPT !.force = isNull, !.delay = ~isNull]
     ELSE UNCHANGED <<mutex, lead>>
  /\ UNCHANGED <<disk, opening, memory, bg, reader, promised>>

\* The first n writers leave the queue, and the next one is woken.
PopWriters(n) ==
  LET gone == {writers[i] : i \in 1..n}
      head == IF Len(writers) > n THEN writers[n + 1] ELSE None
  IN  /\ writers' = SubSeq(writers, n + 1, Len(writers))
      /\ thread' = [t \in Threads |-> IF t \in gone THEN Idle
                                      ELSE IF t = head THEN [thread[t] EXCEPT !.pc = "room"]
                                      ELSE thread[t]]
      /\ lead' = IF head = None THEN NoLead
                 ELSE [NoLead EXCEPT !.force = thread[head].batch = 0,
                                     !.delay = thread[head].batch # 0]
      /\ mutex' = None

\* Mutant: a sync write follows a leader that does not sync.
GroupSizeIgnoringSync ==
  Max({n \in 1..Len(writers) :
         Cardinality({i \in 1..n : thread[writers[i]].batch # 0}) <= MaxGroup})

\* The writers among the first n that have a batch.
Batches(n) == {i \in 1..n : thread[writers[i]].batch # 0}

\* How many writers the leader takes along: no sync write behind a leader
\* that does not sync, and not too many batches.
BuildBatchGroup ==
  Max({n \in 1..Len(writers) :
         /\ \A i \in 2..n : thread[writers[i]].sync => thread[writers[1]].sync
         /\ Cardinality(Batches(n)) <= MaxGroup})

\* Their entries, numbered from lastSequence + 1.
GroupEntries(n) ==
  LET Writer(j) == CHOOSE i \in Batches(n) :
                     Cardinality(Batches(i)) = ((j - 1) \div BatchSize) + 1
  IN  [j \in 1..(Cardinality(Batches(n)) * BatchSize) |->
         [seq |-> lastSequence + j, batch |-> thread[writers[Writer(j)]].batch]]

\* MakeRoomForWrite, one turn of its loop per action.
InRoom(t) == db = "open" /\ writers # <<>> /\ Head(writers) = t
             /\ thread[t].pc = "room" /\ Free(t)
MemFull == Cardinality(memtables[logNumber]) > WriteBufferSize
Level0 == Cardinality(version.level0)
Delaying == lead.delay /\ Level0 >= SlowdownTrigger
NeedsSwitch == ~bgError /\ ~Delaying /\ (lead.force \/ MemFull)

YieldError(t) ==
  /\ InRoom(t) /\ bgError
  /\ PopWriters(1)
  /\ UNCHANGED <<disk, opening, memory, bg, reader, history, budget>>

Delay(t) ==
  /\ InRoom(t) /\ ~bgError /\ Delaying
  /\ lead' = [lead EXCEPT !.delay = FALSE]
  /\ mutex' = None
  /\ UNCHANGED <<disk, opening, memory, bg, writers, thread, reader, history, budget>>

WaitForBackground(t) ==
  /\ InRoom(t) /\ NeedsSwitch
  /\ imm # None \/ Level0 >= StopTrigger
  /\ thread' = [thread EXCEPT ![t].pc = "wait"]
  /\ mutex' = None
  /\ UNCHANGED <<disk, opening, memory, bg, writers, lead, reader, history, budget>>

SwitchMemTable(t) ==
  /\ InRoom(t) /\ NeedsSwitch /\ imm = None /\ Level0 < StopTrigger
  /\ nextFile' = nextFile + 1
  /\ logs' = With(logs, nextFile, [records |-> <<>>, synced |-> 0])
  /\ logNumber' = nextFile
  /\ imm' = logNumber
  /\ memtables' = With(memtables, nextFile, {})
  /\ lead' = [lead EXCEPT !.force = FALSE]
  /\ mutex' = t
  /\ bg' = MaybeScheduleCompaction(bg, logNumber, version, bgError)
  /\ UNCHANGED <<tables, manifests, opening, version, minLog, lastSequence, pendingOutputs,
                 bgError, writers, thread, reader, history, budget>>

\* The file of the new log cannot be created; its number is given back.
NewLogFails(t) ==
  /\ InRoom(t) /\ NeedsSwitch /\ imm = None /\ Level0 < StopTrigger
  /\ Spend("faults")
  /\ PopWriters(1)
  /\ UNCHANGED <<disk, opening, memory, bg, reader, history>>

\* There is room: a null batch is done, another one takes a group along.
FoundRoom(t) ==
  /\ InRoom(t) /\ ~bgError /\ ~Delaying /\ ~lead.force /\ ~MemFull
  /\ IF thread[t].batch = 0 THEN PopWriters(1)
     ELSE /\ lead' = [lead EXCEPT !.size = BuildBatchGroup, !.todo = GroupEntries(BuildBatchGroup)]
          /\ thread' = [thread EXCEPT ![t].pc = "log"]
          /\ mutex' = None
          /\ UNCHANGED writers
  /\ UNCHANGED <<disk, opening, memory, bg, reader, history, budget>>

\* Mutant: a group is several records.
RecordPerEntry(group) == [i \in DOMAIN group |-> <<group[i]>>]

\* Without mutex_: the group goes to the log as one record, ...
Contents(group) == <<group>>
AddRecord(t) ==
  /\ thread[t].pc = "log"
  /\ logs' = [logs EXCEPT ![logNumber].records = @ \o Contents(lead.todo)]
  /\ thread' = [thread EXCEPT ![t].pc = IF thread[t].sync THEN "sync" ELSE "insert"]
  /\ UNCHANGED <<tables, manifests, opening, memory, bg, writers, mutex, lead, reader, history, budget>>

\* A part of the record was written, or none of it, and the writer of the log
\* counts on as if it were there.  The log stays in use, with a hole in it.
Hole == <<>>
AppendFails(t) ==
  /\ thread[t].pc = "log"
  /\ Spend("faults")
  /\ logs' = [logs EXCEPT ![logNumber].records = @ \o <<Hole>>]
  /\ lead' = [lead EXCEPT !.failed = TRUE]
  /\ thread' = [thread EXCEPT ![t].pc = "finish"]
  /\ UNCHANGED <<tables, manifests, opening, memory, bg, writers, mutex, reader, history>>

\* ... is synced if the leader asked for it, ...
Sync(t) ==
  /\ thread[t].pc = "sync"
  /\ logs' = [logs EXCEPT ![logNumber].synced = Len(logs[logNumber].records)]
  /\ thread' = [thread EXCEPT ![t].pc = "insert"]
  /\ UNCHANGED <<tables, manifests, opening, memory, bg, writers, mutex, lead, reader, history, budget>>

SyncFails(t) ==
  /\ thread[t].pc = "sync"
  /\ Spend("faults")
  /\ lead' = [lead EXCEPT !.failed = TRUE, !.syncError = TRUE]
  /\ thread' = [thread EXCEPT ![t].pc = "finish"]
  /\ UNCHANGED <<disk, opening, memory, bg, writers, mutex, reader, history>>

\* ... and is inserted into the memtable entry by entry.
Inserted(t) == Cardinality({e \in memtables[logNumber] : e.seq > lastSequence})
InsertInto(t) ==
  /\ thread[t].pc = "insert"
  /\ LET next == lead.todo[Inserted(t) + 1] IN
       memtables' = [memtables EXCEPT ![logNumber] = @ \cup {next}]
  /\ thread' = [thread EXCEPT ![t].pc = IF Inserted(t) + 1 = Len(lead.todo) THEN "finish" ELSE "insert"]
  /\ UNCHANGED <<disk, opening, imm, logNumber, version, minLog, nextFile, lastSequence,
                 pendingOutputs, bgError, bg, writers, mutex, lead, reader, history, budget>>

\* With mutex_ again: the sequence numbers count, the group is told.
FinishWrite(t) ==
  /\ thread[t].pc = "finish" /\ mutex = None
  /\ lastSequence' = lastSequence + Len(lead.todo)
  /\ bgError' = (bgError \/ lead.syncError)
  /\ promised' = IF lead.failed THEN promised
                 ELSE promised \cup {<<thread[writers[i]].batch, thread[writers[i]].sync>> :
                                     i \in {j \in 1..lead.size : thread[writers[j]].batch # 0}}
  /\ PopWriters(lead.size)
  /\ UNCHANGED <<disk, opening, memtables, imm, logNumber, version, minLog, nextFile,
                 pendingOutputs, bg, reader, lastBatch, budget>>
----------------------------------------------------------------------------
\* The background thread: BackgroundCall, CompactMemTable, compactions.

MayLock == mutex \in {None, BackgroundThread}

\* CompactMemTable and the first part of WriteLevel0Table.
StartFlush ==
  /\ bg' = [bg EXCEPT !.pc = "build", !.what = "flush", !.number = nextFile]
  /\ nextFile' = nextFile + 1
  /\ pendingOutputs' = pendingOutputs \cup {nextFile}
  /\ UNCHANGED <<memtables, imm, logNumber, version, minLog, lastSequence, bgError, mutex>>

BackgroundCall ==
  /\ bg.pc = "scheduled" /\ MayLock
  /\ \/ /\ bgError \/ db = "closing"
        /\ bg' = [bg EXCEPT !.pc = "end"] /\ mutex' = BackgroundThread
        /\ UNCHANGED memory
     \/ ~bgError /\ db # "closing" /\ imm # None /\ StartFlush
     \/ /\ ~bgError /\ db # "closing" /\ imm = None
        /\ bg' = [bg EXCEPT !.pc = "merge", !.merging = TRUE, !.inputs = version.level0]
        /\ UNCHANGED <<memory, mutex>>
  /\ UNCHANGED <<disk, opening, writers, thread, lead, reader, history, budget>>

\* BuildTable, without mutex_.  Nothing is written for an empty memtable.
BuildTable ==
  /\ bg.pc = "build"
  /\ tables' = IF memtables[imm] = {} THEN tables ELSE With(tables, bg.number, memtables[imm])
  /\ bg' = [bg EXCEPT !.pc = "built"]
  /\ UNCHANGED <<logs, manifests, opening, memory, queue, reader, history, budget>>

BuildTableFails ==
  /\ bg.pc = "build"
  /\ Spend("faults")
  /\ bg' = [bg EXCEPT !.pc = "failed"]
  /\ UNCHANGED <<disk, opening, memory, queue, reader, history>>

\* LogAndApply up to the point where it releases mutex_ to write the MANIFEST.
StartCommit(what, edit) ==
  /\ bg' = [bg EXCEPT !.pc = "commit", !.what = what, !.edit = edit, !.before = manifests]
  /\ manifests' = manifests \cup {Applied(m, edit) : m \in manifests}

\* RecordBackgroundError.
RecordBackgroundError ==
  /\ bgError' = TRUE
  /\ thread' = Awakened(thread)
  /\ mutex' = BackgroundThread
  /\ bg' = [bg EXCEPT !.pc = "end"]

\* The rest of WriteLevel0Table; CompactMemTable commits the table.
FlushBuilt ==
  /\ bg.pc \in {"built", "failed"} /\ MayLock
  /\ pendingOutputs' = pendingOutputs \ {bg.number}
  /\ IF bg.pc = "built" /\ db # "closing"
     THEN /\ StartCommit("flush",
               [added0 |-> {bg.number} \cap DOMAIN tables, addedDeeper |-> {}, deleted |-> {},
                log |-> logNumber, next |-> nextFile, last |-> lastSequence])
          /\ mutex' = None
          /\ UNCHANGED <<bgError, thread>>
     ELSE RecordBackgroundError /\ UNCHANGED manifests
  /\ UNCHANGED <<logs, tables, opening, memtables, imm, logNumber, version, minLog, nextFile,
                 lastSequence, writers, lead, reader, history, budget>>

\* DoCompactionWork, without mutex_: a memtable that is waiting goes first,
\* the output gets its number (with mutex_), is written and committed.
FlushDuringMerge ==
  /\ bg.pc = "merge" /\ bg.output \notin DOMAIN tables /\ db # "closing"
  /\ imm # None /\ MayLock
  /\ StartFlush
  /\ UNCHANGED <<disk, opening, writers, thread, lead, reader, history, budget>>

OpenCompactionOutputFile ==
  /\ bg.pc = "merge" /\ bg.output = 0 /\ MayLock
  /\ bg' = [bg EXCEPT !.output = nextFile]
  /\ nextFile' = nextFile + 1
  /\ pendingOutputs' = pendingOutputs \cup {nextFile}
  /\ UNCHANGED <<disk, opening, memtables, imm, logNumber, version, minLog, lastSequence, bgError,
                 queue, reader, history, budget>>

FinishCompactionOutputFile ==
  /\ bg.pc = "merge" /\ bg.output # 0 /\ bg.output \notin DOMAIN tables
  /\ tables' = With(tables, bg.output, UNION {tables[n] : n \in bg.inputs})
  /\ UNCHANGED <<logs, manifests, opening, memory, bg, queue, reader, history, budget>>

\* The end of DoCompactionWork: InstallCompactionResults, or the cleanup
\* after an error or when the database is being closed.
CleanupCompaction ==
  /\ pendingOutputs' = pendingOutputs \ {bg.output}
  /\ bgError' = TRUE
  /\ thread' = Awakened(thread)
  /\ mutex' = BackgroundThread
  /\ bg' = [bg EXCEPT !.pc = "end", !.what = "merge", !.inputs = {}]

InstallCompactionResults ==
  /\ bg.pc = "merge" /\ (bg.output \in DOMAIN tables \/ db = "closing") /\ MayLock
  /\ IF db # "closing"
     THEN /\ StartCommit("merge",
               [added0 |-> {}, addedDeeper |-> {bg.output}, deleted |-> bg.inputs,
                log |-> minLog, next |-> nextFile, last |-> lastSequence])
          /\ mutex' = None
          /\ UNCHANGED <<pendingOutputs, bgError, thread>>
     ELSE CleanupCompaction /\ UNCHANGED manifests
  /\ UNCHANGED <<logs, tables, opening, memtables, imm, logNumber, version, minLog, nextFile,
                 lastSequence, writers, lead, reader, history, budget>>

MergeFails ==
  /\ bg.pc = "merge" /\ bg.output # 0 /\ bg.output \notin DOMAIN tables /\ MayLock
  /\ Spend("faults")
  /\ CleanupCompaction
  /\ UNCHANGED <<disk, opening, memtables, imm, logNumber, version, minLog, nextFile,
                 lastSequence, writers, lead, reader, history>>

\* LogAndApply has written and synced the record: the version is installed,
\* and RemoveObsoleteFiles decides what to delete.
Commit ==
  /\ bg.pc = "commit" /\ MayLock
  /\ manifests' = {Applied(m, bg.edit) : m \in bg.before}
  /\ LET v == [level0 |-> (version.level0 \ bg.edit.deleted) \cup bg.edit.added0,
               deeper |-> (version.deeper \ bg.edit.deleted) \cup bg.edit.addedDeeper]
         flush == bg.what = "flush"
         pending == IF flush THEN pendingOutputs ELSE pendingOutputs \ {bg.output}
         inputs == IF flush THEN bg.inputs ELSE {}
     IN  /\ version' = v
         /\ minLog' = bg.edit.log
         /\ imm' = IF flush THEN None ELSE imm
         /\ memtables' = Referenced(memtables, logNumber, imm')
         /\ pendingOutputs' = pending
         /\ bg' = [bg EXCEPT !.pc = "delete", !.inputs = inputs,
                     !.garbage = ObsoleteFiles(pending \cup AddLiveFiles(v, inputs),
                                               bg.edit.log, bgError)]
  /\ UNCHANGED <<logs, tables, opening, logNumber, nextFile, lastSequence, bgError, queue, reader,
                 history, budget>>

\* It failed, and nobody knows whether the record is in the MANIFEST.
CommitFails ==
  /\ bg.pc = "commit" /\ MayLock
  /\ Spend("faults")
  /\ IF bg.what = "flush" THEN RecordBackgroundError /\ UNCHANGED pendingOutputs
     ELSE CleanupCompaction
  /\ UNCHANGED <<disk, opening, memtables, imm, logNumber, version, minLog, nextFile,
                 lastSequence, writers, lead, reader, history>>

\* The rest of RemoveObsoleteFiles, without mutex_.
DeleteFiles ==
  /\ bg.pc = "delete"
  /\ logs' = Without(logs, bg.garbage.logs)
  /\ tables' = Without(tables, bg.garbage.tables)
  /\ bg' = [bg EXCEPT !.pc = "end"]
  /\ UNCHANGED <<manifests, opening, memory, queue, reader, history, budget>>

\* Back in DoCompactionWork after a flush, or the end of BackgroundCall.
EndOfBackgroundCall ==
  /\ bg.pc = "end" /\ MayLock
  /\ thread' = Awakened(thread)
  /\ mutex' = None
  /\ bg' = IF bg.merging /\ bg.what = "flush" THEN [bg EXCEPT !.pc = "merge"]
           ELSE MaybeScheduleCompaction(BgOff, imm, version, bgError)
  /\ UNCHANGED <<disk, opening, memory, writers, lead, reader, history, budget>>
----------------------------------------------------------------------------
\* Readers: Get, and iterators for as long as they are open.

Content(mems, files, seq) ==
  {e \in (UNION {memtables[n] : n \in mems})
           \cup (UNION {tables[n] : n \in files \cap DOMAIN tables}) : e.seq <= seq}
InMemory == {logNumber, imm} \ {None}
Stored(seq) == Content(InMemory, FilesOf(version), seq)

StartRead(r) ==
  /\ db = "open" /\ mutex = None /\ ~reader[r].on
  /\ Spend("reads")
  /\ reader' = [reader EXCEPT ![r] =
       [on |-> TRUE, seq |-> lastSequence, mems |-> InMemory, files |-> FilesOf(version),
        expect |-> Stored(lastSequence)]]
  /\ UNCHANGED <<disk, opening, memory, bg, queue, history>>

\* What the reader finds now, in the memtables and files it has captured.
Found(r) == Content(reader[r].mems, reader[r].files, reader[r].seq)

EndRead(r) ==
  /\ reader[r].on /\ mutex = None
  /\ reader' = [reader EXCEPT ![r] = NoRead]
  /\ memtables' = [n \in DOMAIN memtables \cap
       (InMemory \cup UNION {reader[x].mems : x \in Readers \ {r}}) |-> memtables[n]]
  /\ UNCHANGED <<disk, opening, imm, logNumber, version, minLog, nextFile, lastSequence,
                 pendingOutputs, bgError, bg, queue, history, budget>>
----------------------------------------------------------------------------
\* The end of the process, and DB::Open.

EmptyVersion == [level0 |-> {}, deeper |-> {}]
Down ==
  /\ db' = "closed" /\ replay' = NoReplay
  /\ memtables' = <<>> /\ imm' = None /\ logNumber' = 0 /\ version' = EmptyVersion
  /\ minLog' = 0 /\ nextFile' = 0 /\ lastSequence' = 0 /\ pendingOutputs' = {} /\ bgError' = FALSE
  /\ bg' = BgOff /\ writers' = <<>> /\ thread' = [t \in Threads |-> Idle]
  /\ mutex' = None /\ lead' = NoLead /\ reader' = [r \in Readers |-> NoRead]

\* The record is one that could not be appended, or lies behind one.
BehindHole(n, i) == \E j \in 1..i : logs[n].records[j] = Hole

\* The batch is behind a hole of a log that would be read.
Exposed(batch) ==
  \E n \in DOMAIN logs :
    /\ \E m \in manifests : m.log <= n
    /\ \E i \in DOMAIN logs[n].records :
         /\ BehindHole(n, i)
         /\ \E e \in RecordEntries(logs[n].records[i]) : e.batch = batch

\* What of the promises is left when the process ends.
Lasting(promises) == {p \in promises : ~Exposed(p[1])}

\* ~DBImpl, when no call is under way: background work is waited for.
Close ==
  /\ db = "open" /\ mutex = None
  /\ writers = <<>> /\ \A r \in Readers : ~reader[r].on
  /\ Spend("closes")
  /\ db' = "closing"
  /\ UNCHANGED <<disk, replay, memory, bg, queue, reader, history>>
Closed ==
  /\ db = "closing" /\ bg.pc = "off" /\ mutex = None
  /\ Down
  /\ promised' = Lasting(promised)
  /\ UNCHANGED <<disk, lastBatch, budget>>

\* The process ends: all that was written is in the files.  A call that fails
\* in DB::Open leaves no more.
Kill ==
  /\ db # "closed"
  /\ Spend("kills")
  /\ Down
  /\ promised' = Lasting(promised)
  /\ UNCHANGED <<disk, lastBatch>>

\* The machine goes down: a log keeps its synced records and some more.
Outage ==
  /\ Spend("outages")
  /\ Down
  /\ \E keep \in [DOMAIN logs -> 0..lastBatch] :
       /\ \A n \in DOMAIN logs : keep[n] \in logs[n].synced..Len(logs[n].records)
       /\ logs' = [n \in DOMAIN logs |-> [records |-> SubSeq(logs[n].records, 1, keep[n]),
                                          synced |-> keep[n]]]
  /\ promised' = {p \in Lasting(promised) : p[2]}
  /\ UNCHANGED <<tables, manifests, lastBatch>>

\* DB::Open and DBImpl::Recover: the MANIFEST is read, and logs that are not
\* older than it says are found.  What CURRENT and the MANIFEST said before
\* they may still say after an outage, what was not in them never.
Recover(m) ==
  /\ db = "closed" /\ FilesOf(m) \subseteq DOMAIN tables
  /\ db' = "replaying"
  /\ manifests' = {o \in manifests : o.next <= m.next}
  /\ version' = [level0 |-> m.level0, deeper |-> m.deeper]
  /\ minLog' = m.log /\ nextFile' = m.next + 1 /\ lastSequence' = m.last
  /\ replay' = [NoReplay EXCEPT !.from = m, !.logs = {n \in DOMAIN logs : n >= m.log}]
  /\ UNCHANGED <<logs, tables, memtables, imm, logNumber, pendingOutputs, bgError, bg, queue,
                 reader, history, budget>>

\* A memtable becomes a table of level 0 whenever it is full and at the end of
\* a log.
WriteLevel0Table(mem, read) ==
  /\ tables' = With(tables, nextFile, mem)
  /\ replay' = [read EXCEPT !.mem = {}, !.added = @ \cup {nextFile}]
Replaying(n) == db = "replaying" /\ n \in replay.logs /\ \A o \in replay.logs : n <= o
UnchangedInRecovery ==
  UNCHANGED <<db, logs, manifests, memtables, imm, logNumber, version, minLog, pendingOutputs,
              bgError, bg, queue, reader, history, budget>>

\* RecoverLogFile, a record: its entries go to the memtable.
RecoveredSequence(entries) == Max({lastSequence} \cup {e.seq : e \in entries})
RecoverRecord(n) ==
  /\ Replaying(n) /\ replay.read < Len(logs[n].records)
  /\ logs[n].records[replay.read + 1] # Hole
  /\ LET entries == RecordEntries(logs[n].records[replay.read + 1])
         mem == replay.mem \cup entries
         read == [replay EXCEPT !.read = @ + 1, !.mem = mem]
     IN  /\ lastSequence' = RecoveredSequence(entries)
         /\ IF Cardinality(mem) > WriteBufferSize
            THEN WriteLevel0Table(mem, read) /\ nextFile' = nextFile + 1
            ELSE replay' = read /\ UNCHANGED <<tables, nextFile>>
  /\ UnchangedInRecovery

\* The reader finds no record at a hole, and may drop others behind it: the
\* rest of the block, and the blocks that do not begin with a record.
SkipRecord(n) ==
  /\ Replaying(n) /\ replay.read < Len(logs[n].records)
  /\ BehindHole(n, replay.read + 1)
  /\ replay' = [replay EXCEPT !.read = @ + 1]
  /\ UNCHANGED <<lastSequence, tables, nextFile>>
  /\ UnchangedInRecovery

\* The batch is in a record of the log that has not been read, and in none of
\* the tables and records that have been.
Unread(n, batch) ==
  /\ \E i \in replay.read + 1..Len(logs[n].records) :
       \E e \in RecordEntries(logs[n].records[i]) : e.batch = batch
  /\ \A e \in replay.mem : e.batch # batch
  /\ \A f \in FilesOf(version) \cup replay.added : \A e \in tables[f] : e.batch # batch

\* The file cannot be opened or read on: without paranoid_checks that is taken
\* for the end of the log (MaybeIgnoreError, LogReporter).
ReadFails(n) ==
  /\ Replaying(n) /\ replay.read < Len(logs[n].records)
  /\ Spend("faults")
  /\ replay' = [replay EXCEPT !.read = Len(logs[n].records)]
  /\ promised' = {p \in promised : ~Unread(n, p[1])}
  /\ UNCHANGED <<disk, db, memory, bg, queue, reader, lastBatch>>

\* The end of a log.  Only now its number counts as used.
MarkFileNumberUsed(next, n) == nextFile' = Max({next, n + 1})
RecoverLogFile(n) ==
  /\ Replaying(n) /\ replay.read = Len(logs[n].records)
  /\ LET read == [replay EXCEPT !.logs = @ \ {n}, !.read = 0]
     IN  IF replay.mem # {}
         THEN WriteLevel0Table(replay.mem, read) /\ MarkFileNumberUsed(nextFile + 1, n)
         ELSE replay' = read /\ UNCHANGED tables /\ MarkFileNumberUsed(nextFile, n)
  /\ UNCHANGED lastSequence /\ UnchangedInRecovery

\* A new log, and the edit goes to a new MANIFEST.
Open ==
  /\ db = "replaying" /\ replay.logs = {}
  /\ LET edit == [added0 |-> replay.added, addedDeeper |-> {}, deleted |-> {},
                  log |-> nextFile, next |-> nextFile + 1, last |-> lastSequence]
     IN  /\ version' = [version EXCEPT !.level0 = @ \cup replay.added]
         /\ manifests' = manifests \cup {Applied(replay.from, edit)}
  /\ logs' = With(logs, nextFile, [records |-> <<>>, synced |-> 0])
  /\ logNumber' = nextFile /\ nextFile' = nextFile + 1
  /\ memtables' = [n \in {nextFile} |-> {}]
  /\ db' = "recovering" /\ replay' = NoReplay
  /\ UNCHANGED <<tables, imm, minLog, lastSequence, pendingOutputs, bgError, bg, queue, reader,
                 history, budget>>

\* All of the version, and the numbers of the edit behind it.
WriteSnapshot ==
  [level0 |-> version.level0, deeper |-> version.deeper, log |-> logNumber,
   next |-> nextFile, last |-> lastSequence]
\* The new MANIFEST is synced and CURRENT names it.
FinishOpen ==
  /\ db = "recovering"
  /\ db' = "open" /\ UNCHANGED replay
  /\ manifests' = {WriteSnapshot}
  /\ minLog' = logNumber
  /\ LET garbage == ObsoleteFiles(AddLiveFiles(version, {}), logNumber, FALSE)
     IN  logs' = Without(logs, garbage.logs) /\ tables' = Without(tables, garbage.tables)
  /\ bg' = MaybeScheduleCompaction(bg, None, version, FALSE)
  /\ UNCHANGED <<memtables, imm, logNumber, version, nextFile, lastSequence, pendingOutputs,
                 bgError, queue, reader, history, budget>>
----------------------------------------------------------------------------
NewDB == [level0 |-> {}, deeper |-> {}, log |-> 0, next |-> 2, last |-> 0]
\* Made, and ready to be opened.
Init ==
  /\ logs = <<>> /\ tables = <<>>
  /\ manifests = {NewDB}
  /\ db = "closed" /\ replay = NoReplay
  /\ memtables = <<>> /\ imm = None /\ logNumber = 0 /\ version = EmptyVersion
  /\ minLog = 0 /\ nextFile = 0 /\ lastSequence = 0 /\ pendingOutputs = {} /\ bgError = FALSE
  /\ bg = BgOff /\ writers = <<>> /\ thread = [t \in Threads |-> Idle]
  /\ mutex = None /\ lead = NoLead /\ reader = [r \in Readers |-> NoRead]
  /\ promised = {} /\ lastBatch = 0 /\ budget \in Budgets

InWrite(t) == \/ YieldError(t) \/ Delay(t) \/ WaitForBackground(t) \/ SwitchMemTable(t)
              \/ NewLogFails(t) \/ FoundRoom(t) \/ AddRecord(t) \/ AppendFails(t)
              \/ Sync(t) \/ SyncFails(t) \/ InsertInto(t) \/ FinishWrite(t)
Background == \/ BackgroundCall \/ BuildTable \/ BuildTableFails \/ FlushBuilt
              \/ FlushDuringMerge \/ OpenCompactionOutputFile \/ FinishCompactionOutputFile
              \/ InstallCompactionResults \/ MergeFails \/ Commit \/ CommitFails
              \/ DeleteFiles \/ EndOfBackgroundCall
Next == \/ \E t \in Threads, sync \in BOOLEAN : Write(t, FALSE, sync)
        \/ \E t \in Threads : Write(t, TRUE, FALSE) \/ InWrite(t)
        \/ Background
        \/ \E r \in Readers : StartRead(r) \/ EndRead(r)
        \/ Close \/ Closed \/ Kill \/ Outage
        \/ \E m \in manifests : Recover(m)
        \/ \E n \in replay.logs : \/ RecoverRecord(n) \/ SkipRecord(n)
                                 \/ ReadFails(n) \/ RecoverLogFile(n)
        \/ Open \/ FinishOpen

Spec == Init /\ [][Next]_vars

\* Every thread runs on, and so does the background thread.
FairSpec == Spec /\ WF_vars(Background) /\ \A t \in Threads : WF_vars(InWrite(t))
----------------------------------------------------------------------------
\* Types, and who may be where: one leader at the head of the queue.
TypeOK ==
  /\ db \in {"open", "closing", "closed", "replaying", "recovering"}
  /\ \A n \in DOMAIN logs : logs[n].synced \in 0..Len(logs[n].records)
  /\ manifests # {} /\ bgError \in BOOLEAN
  /\ \A t \in Threads :
       /\ thread[t].pc \in {"idle", "queued", "room", "wait", "log", "sync", "insert", "finish"}
       /\ thread[t].pc = "idle" <=> t \notin {writers[i] : i \in DOMAIN writers}
       /\ thread[t].pc \notin {"idle", "queued"} => writers[1] = t
  /\ db = "open" => InMemory \subseteq DOMAIN memtables

\* What a reader finds in the memtables and files it has captured stays what
\* was stored when it began, whatever is inserted, flushed, merged and deleted.
ReadersSeeTheirSnapshot == \A r \in Readers : reader[r].on => Found(r) = reader[r].expect

\* A write that was reported done is there as long as the process lives, and
\* after it was ended; one that was synced is there also after an outage.  Not
\* so, once the process has ended, the writes whose record came to lie behind
\* one that could not be appended: the log is used on after such an error
\* (Write), and recovery may drop what follows.  Nor those whose record is in
\* the rest of a log that recovery could not read.  Sync does not help them.
PromisedIsStored ==
  db = "open" => \A p \in promised : \E e \in Stored(lastSequence) : e.batch = p[1]

\* A batch is there with all its entries or with none, also after recovery,
\* and no two batches ever share a sequence number.
BatchesWhole ==
  db = "open" =>
    /\ \A b \in 1..lastBatch :
         Cardinality({e \in Stored(lastSequence) : e.batch = b}) \in {0, BatchSize}
    /\ \A n \in InMemory : \A e \in memtables[n], f \in Stored(lastSequence) :
         e.seq = f.seq => e = f

\* Whatever an end of the process leaves of the MANIFEST, the files it names
\* are there, so the database can be opened again.
DatabaseOpens == \A m \in manifests : FilesOf(m) \subseteq DOMAIN tables

\* A call of Write returns.
WritersReturn ==
  \A t \in Threads : thread[t].pc # "idle" ~> thread[t].pc = "idle"
=============================================================================
