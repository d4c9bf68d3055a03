------------------------------- MODULE Repair -------------------------------
(* RepairDB (db/repair.cc): a new descriptor from the tables and logs that  *)
(* are found; calls fail, the process is killed, and it is run again.       *)
(* An entry of the database is its sequence number.                         *)
EXTENDS Naturals, Sequences, FiniteSets

CONSTANTS MaxRuns, MaxErrors,  \* bounds
          Directories          \* what may be found

VARIABLES dir,         \* files: [kind, number, entries that can be read, sound]
          lost,        \* the same of dir/lost
          had,         \* all that could be read at first
          descriptor,  \* what the last run installed: [files, last, next]; None
                       \* when it has not ended well
          run,         \* the Repairer
          runs, errors, killed,
          givenUp      \* a run after the first had no size of a table

vars == <<dir, lost, had, descriptor, run, runs, errors, killed, givenUp>>

None == [files |-> {}, last |-> 0, next |-> 0]
File(kind, number, entries, sound) ==
  [kind |-> kind, number |-> number, entries |-> entries, sound |-> sound]
Idle == [pc |-> "idle", logs |-> <<>>, tables |-> <<>>, scanned |-> {}, next |-> 0,
         copy |-> File("table", 0, {}, FALSE)]
Highest(S) == IF S = {} THEN 0 ELSE CHOOSE x \in S : \A y \in S : y <= x
Is(file, kind, number) == file.kind = kind /\ file.number = number
Named(kind, number) == CHOOSE file \in dir : Is(file, kind, number)
Without(files, kind, number) == {file \in files : ~Is(file, kind, number)}
Orders(S) ==
  {s \in [1..Cardinality(S) -> S] : \A i, j \in DOMAIN s : s[i] = s[j] => i = j}

Goes(pc) == run' = [run EXCEPT !.pc = pc]
NoError == UNCHANGED errors
Error == errors < MaxErrors /\ errors' = errors + 1
----------------------------------------------------------------------------
Numbers(kind) == {file.number : file \in {f \in dir : f.kind = kind}}
FindFiles ==
  /\ run.pc = "idle" /\ runs < MaxRuns /\ runs' = runs + 1
  /\ \E logs \in Orders(Numbers("log")), tables \in Orders(Numbers("table")) :
       run' = [Idle EXCEPT !.pc = "convert", !.logs = logs, !.tables = tables,
                           !.next = Highest(Numbers("log") \cup Numbers("table")) + 1]
  /\ descriptor' = None /\ UNCHANGED <<dir, lost, had, errors, killed, givenUp>>

\* Mutant: files are deleted instead of archived.
RemoveFile(kind, number) == dir' = Without(dir, kind, number) /\ UNCHANGED lost /\ NoError

\* ArchiveFile: the file moves to lost/, over one of its name, or stays.
Moved(kind, number) ==
  /\ dir' = Without(dir, kind, number)
  /\ lost' = Without(lost, kind, number) \cup {Named(kind, number)}
ArchiveFile(kind, number) ==
  \/ Moved(kind, number) /\ NoError
  \/ UNCHANGED <<dir, lost>> /\ Error

\* ConvertLogToTable, and then its log is archived, converted or not.
Converted(log) ==
  IF Named("log", log).entries = {} THEN {}
  ELSE {File("table", run.next, Named("log", log).entries, TRUE)}
ConvertLogToTable ==
  /\ run.pc = "convert" /\ run.logs # <<>>
  /\ \/ /\ dir' = dir \cup Converted(Head(run.logs)) /\ NoError
        /\ run' = [run EXCEPT !.pc = "archiveLog", !.next = @ + 1,
                     !.tables = IF dir' = dir THEN @ ELSE Append(@, run.next)]
     \/ Error /\ UNCHANGED dir /\ run' = [run EXCEPT !.pc = "archiveLog", !.next = @ + 1]
  /\ UNCHANGED <<lost, had, descriptor, runs, killed, givenUp>>
ArchiveLog ==
  /\ run.pc = "archiveLog"
  /\ ArchiveFile("log", Head(run.logs))
  /\ run' = [run EXCEPT !.pc = "convert", !.logs = Tail(@)]
  /\ UNCHANGED <<had, descriptor, runs, killed, givenUp>>

\* ScanTable: its bounds and its highest sequence number.
TableInfo(file) == [number |-> file.number, max |-> Highest(file.entries)]
Table == Named("table", Head(run.tables))
Scanning == run.pc = "convert" /\ run.logs = <<>> /\ run.tables # <<>>
Kept == [run EXCEPT !.scanned = @ \cup {TableInfo(Table)}, !.tables = Tail(@)]
ScanTable ==
  /\ Scanning
  /\ run' = IF Table.sound THEN Kept ELSE [run EXCEPT !.pc = "repair"]
  /\ UNCHANGED <<dir, lost, had, descriptor, runs, errors, killed, givenUp>>

\* GetFileSize fails: the table is archived, if that does not fail too.
GiveUpTable ==
  /\ Scanning /\ Error
  /\ Moved("table", Head(run.tables)) \/ UNCHANGED <<dir, lost>>
  /\ run' = [run EXCEPT !.tables = Tail(@)] /\ givenUp' = (givenUp \/ runs > 1)
  /\ UNCHANGED <<had, descriptor, runs, killed>>

\* RepairTable: what can be read is copied, the table archived, the copy
\* finished, and renamed.  The copy is of no use before it is finished.
Dropped == [run EXCEPT !.pc = "convert", !.tables = Tail(@)]
CreateCopy ==
  /\ run.pc = "repair"
  /\ \/ /\ dir' = dir \cup {File("table", run.next, {}, FALSE)} /\ NoError
        /\ run' = [run EXCEPT !.pc = "archiveTable", !.next = @ + 1,
                     !.copy = File("table", run.next, Table.entries, TRUE)]
     \/ Error /\ UNCHANGED dir /\ run' = [Dropped EXCEPT !.next = @ + 1]
  /\ UNCHANGED <<lost, had, descriptor, runs, killed, givenUp>>
ArchiveTable ==
  /\ run.pc = "archiveTable"
  /\ ArchiveFile("table", Head(run.tables))
  /\ Goes("finish") /\ UNCHANGED <<had, descriptor, runs, killed, givenUp>>
FinishCopy ==
  /\ run.pc = "finish"
  /\ \/ /\ run.copy.entries = {} /\ run' = Dropped /\ UNCHANGED dir /\ NoError
     \/ /\ run.copy.entries # {} /\ Goes("rename") /\ NoError
        /\ dir' = Without(dir, "table", run.copy.number) \cup {run.copy}
     \/ /\ run.copy.entries # {} /\ run' = Dropped /\ Error
        /\ dir' = Without(dir, "table", run.copy.number)
  /\ UNCHANGED <<lost, had, descriptor, runs, killed, givenUp>>
RenameCopy ==
  /\ run.pc = "rename"
  /\ LET table == [run.copy EXCEPT !.number = Head(run.tables)]
         left == Without(dir, "table", run.copy.number)
     IN  \/ /\ dir' = Without(left, "table", table.number) \cup {table} /\ NoError
            /\ run' = [Dropped EXCEPT !.scanned = @ \cup {TableInfo(table)}]
         \/ dir' = left /\ run' = Dropped /\ Error
  /\ UNCHANGED <<lost, had, descriptor, runs, killed, givenUp>>

\* WriteDescriptor: a new MANIFEST under another name, the old ones archived,
\* and then renamed.  In between, CURRENT leads to nothing.
DiscardManifests ==
  /\ run.pc = "convert" /\ run.logs = <<>> /\ run.tables = <<>>
  /\ \/ Goes("install") /\ NoError
     \/ run' = Idle /\ Error
  /\ UNCHANGED <<dir, lost, had, descriptor, runs, killed, givenUp>>
LastSequence == Highest({t.max : t \in run.scanned})
Install ==
  /\ run.pc = "install" /\ run' = Idle
  /\ \/ NoError /\ descriptor' = [files |-> {t.number : t \in run.scanned},
                                   last |-> LastSequence, next |-> run.next]
     \/ Error /\ UNCHANGED descriptor
  /\ UNCHANGED <<dir, lost, had, runs, killed, givenUp>>

\* The process ends, perhaps while a log is converted, and leaves a table that
\* cannot be read; RepairDB is called again.
HalfBuilt == File("table", run.next, {}, FALSE)
Crash ==
  /\ run.pc # "idle" /\ run' = Idle /\ killed' = killed + 1
  /\ \/ UNCHANGED dir
     \/ run.pc = "convert" /\ run.logs # <<>> /\ Converted(Head(run.logs)) # {}
        /\ dir' = dir \cup {HalfBuilt}
  /\ UNCHANGED <<lost, had, descriptor, runs, errors, givenUp>>

Init ==
  /\ dir \in Directories /\ had = UNION {file.entries : file \in dir} /\ lost = {}
  /\ descriptor = None /\ run = Idle /\ runs = 0 /\ errors = 0 /\ killed = 0
  /\ givenUp = FALSE
Next ==
  \/ FindFiles \/ ConvertLogToTable \/ ArchiveLog \/ ScanTable \/ GiveUpTable \/ CreateCopy
  \/ ArchiveTable \/ FinishCopy \/ RenameCopy \/ DiscardManifests \/ Install \/ Crash
Spec == Init /\ [][Next]_vars
----------------------------------------------------------------------------
Found(files) == UNION {file.entries : file \in files}

\* What could be read when the repair began can be read ever after, in the
\* directory or in lost/, whenever it is ended; and without an I/O error a
\* run that is not ended leaves all of it in tables that the descriptor names.
\* (After an error a later run may use the number of a table in lost/ anew,
\* and archive the new one over it: the third run a table that is not whole,
\* already the second one of which it cannot get the size.)
KeepsReadable ==
  /\ errors = 0 \/ (runs <= 2 /\ ~givenUp) => had \subseteq Found(dir \cup lost)
  /\ errors = 0 /\ killed = 0 /\ descriptor # None =>
       had \subseteq Found({f \in dir : f.kind = "table" /\ f.number \in descriptor.files})

\* The descriptor names tables that are there and whole; no sequence number
\* of theirs is given out again, nor the number of a file that is there.
DescriptorSound ==
  run = Idle /\ descriptor # None =>
    /\ \A n \in descriptor.files : \E f \in dir :
         Is(f, "table", n) /\ f.sound /\ \A e \in f.entries : e <= descriptor.last
    /\ \A f \in dir : f.number < descriptor.next
=============================================================================
