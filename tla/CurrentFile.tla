----------------------------- MODULE CurrentFile -----------------------------
(* How CURRENT comes to name another MANIFEST when a database is made and   *)
(* opened: NewDB, LogAndApply and SetCurrentFile (leveldb-library/db),      *)
(* WriteStringToFileSync (util/env.cc).  Calls fail, the process is killed, *)
(* and an outage takes what is not durable: of every file any of the bytes  *)
(* not synced, of the directory the last changes since it was synced.       *)
EXTENDS Naturals, SequencesExt

CONSTANTS MaxOpens, MaxOutages  \* bounds

VARIABLES journal,  \* directories, from the durable one to the one that is seen
          data,     \* files: [holds, seen, safe]
          step,     \* where the call that opens the database is
          target,   \* the number of the MANIFEST it is making
          opens, outages

vars == <<journal, data, step, target, opens, outages>>

\* A directory has files by name.  A MANIFEST holds the next file number, the
\* others the number of a MANIFEST; it is empty, there in part, or whole.
Empty == 0
Part == 1
Whole == 2
Current == <<"CURRENT", 0>>
Manifest(n) == <<"MANIFEST", n>>
Temp(n) == <<"dbtmp", n>>
dir == Last(journal)
Has(name) == name \in DOMAIN dir
ReadFile(name) == data[dir[name]]
Without(d, name) == [x \in DOMAIN d \ {name} |-> d[x]]
Named(d) == {d[name] : name \in DOMAIN d}
With(d, name, f) == [x \in DOMAIN d \cup {name} |-> IF x = name THEN f ELSE d[x]]
----------------------------------------------------------------------------
Goes(to) == step' = to
Opening == UNCHANGED <<target, opens, outages>>

\* A file that is there is truncated.
NewWritableFile(name, holds) ==
  /\ journal' = Append(journal, With(dir, name, Len(data) + 1))
  /\ data' = Append(data, [holds |-> holds, seen |-> Empty, safe |-> Empty])
RemoveFile(name) ==
  journal' = IF Has(name) THEN Append(journal, Without(dir, name)) ELSE journal
Writes(name, how) == data' = [data EXCEPT ![dir[name]].seen = how] /\ UNCHANGED journal
SyncFile(name) == data' = [data EXCEPT ![dir[name]].safe = data[dir[name]].seen]
\* What the failed one leaves to do is done in the same step.
Fails(name) == RemoveFile(name) /\ Goes("closed") /\ UNCHANGED data /\ Opening

\* Recover: CURRENT must end with a newline and name a MANIFEST that has all
\* the numbers in it.
Readable ==
  /\ Has(Current) /\ ReadFile(Current).seen = Whole
  /\ Has(Manifest(ReadFile(Current).holds))
  /\ ReadFile(Manifest(ReadFile(Current).holds)).seen = Whole
NextFile == ReadFile(Manifest(ReadFile(Current).holds)).holds
Recover ==
  /\ \/ step = "closed" /\ opens < MaxOpens /\ opens' = opens + 1
     \/ step = "made" /\ UNCHANGED opens
  /\ Readable /\ target' = NextFile
  /\ Goes("recovered") /\ UNCHANGED <<journal, data, outages>>

\* NewDB does not sync the MANIFEST.
NewDB ==
  /\ step = "closed" /\ opens < MaxOpens /\ ~Has(Current)
  /\ target' = 1 /\ opens' = opens + 1
  /\ NewWritableFile(Manifest(1), 2)
  /\ Goes("new") /\ UNCHANGED outages
NewDBWrites == step = "new" /\ Writes(Manifest(1), Whole) /\ Goes("install new") /\ Opening
NewDBFails == step = "new" /\ Fails(Manifest(1))

\* LogAndApply: a snapshot of the version, the edit, the Sync of both and of
\* the directory.
NewManifest ==
  /\ step = "recovered"
  /\ NewWritableFile(Manifest(target), target + 1) /\ Goes("snapshot") /\ Opening
WriteSnapshot == step = "snapshot" /\ Writes(Manifest(target), Part) /\ Goes("edit") /\ Opening
WriteEdit == step = "edit" /\ Writes(Manifest(target), Whole) /\ Goes("sync") /\ Opening
SyncManifest ==
  /\ step = "sync"
  /\ journal' = <<dir>> /\ SyncFile(Manifest(target)) /\ Goes("install") /\ Opening
ManifestFails == step \in {"snapshot", "edit", "sync"} /\ Fails(Manifest(target))

\* SetCurrentFile: the temporary file is written, synced and renamed.
Installing == step \in {"install new", "install"}
MakeTemp ==
  /\ Installing /\ NewWritableFile(Temp(target), target)
  /\ Goes(IF step = "install" THEN "temp" ELSE "new temp") /\ Opening
WriteTemp ==
  /\ step \in {"temp", "new temp"} /\ Writes(Temp(target), Whole)
  /\ Goes(IF step = "temp" THEN "written" ELSE "new written") /\ Opening
SyncTemp ==
  /\ step \in {"written", "new written"}
  /\ SyncFile(Temp(target)) /\ UNCHANGED journal
  /\ Goes(IF step = "written" THEN "synced" ELSE "new synced") /\ Opening
RenameFile ==
  /\ step \in {"synced", "new synced"}
  /\ journal' = Append(journal, Without(With(dir, Current, dir[Temp(target)]), Temp(target)))
  /\ Goes(IF step = "synced" THEN "obsolete" ELSE "made") /\ UNCHANGED data /\ Opening
\* LogAndApply removes its MANIFEST too, NewDB does not.
SetCurrentFails ==
  /\ step \in {"install new", "new temp", "new written", "new synced",
               "install", "temp", "written", "synced"}
  /\ LET left == Without(dir, Temp(target))
     IN  journal' = Append(Append(journal, left),
                      IF step \in {"install", "temp", "written", "synced"}
                      THEN Without(left, Manifest(target)) ELSE left)
  /\ Goes("closed") /\ UNCHANGED data /\ Opening

\* RemoveObsoleteFiles: older MANIFESTs and temporary files, in any order.
Obsolete == {name \in DOMAIN dir : name[1] = "dbtmp" \/ (name[1] = "MANIFEST" /\ name[2] < target)}
RemoveObsolete ==
  /\ step = "obsolete"
  /\ \E name \in Obsolete : RemoveFile(name)
  /\ UNCHANGED <<data, step>> /\ Opening
\* A flush or a compaction, or the database is closed.
LaterEdit ==
  /\ step = "obsolete" /\ Obsolete = {}
  /\ journal' = <<dir>> /\ UNCHANGED <<data, step>> /\ Opening

Kill == step # "closed" /\ Goes("closed") /\ UNCHANGED <<journal, data>> /\ Opening
Outage ==
  /\ outages < MaxOutages /\ outages' = outages + 1
  /\ \E d \in ToSet(journal) : \E left \in [Named(d) -> Empty..Whole] :
       /\ \A f \in Named(d) : left[f] \in data[f].safe..data[f].seen
       /\ journal' = <<d>>
       /\ data' = [f \in DOMAIN data |->
                    LET kept == IF f \in Named(d) THEN left[f] ELSE Empty
                    IN  [holds |-> data[f].holds, seen |-> kept, safe |-> kept]]
  /\ Goes("closed") /\ UNCHANGED <<target, opens>>

Init ==
  /\ journal = <<<<>>>> /\ data = <<>> /\ step = "closed" /\ target = 0
  /\ opens = 0 /\ outages = 0
Next ==
  \/ Recover \/ NewDB \/ NewDBWrites \/ NewDBFails
  \/ NewManifest \/ WriteSnapshot \/ WriteEdit \/ SyncManifest \/ ManifestFails
  \/ MakeTemp \/ WriteTemp \/ SyncTemp \/ RenameFile \/ SetCurrentFails
  \/ RemoveObsolete \/ LaterEdit \/ Kill \/ Outage
----------------------------------------------------------------------------
\* Once a database was made, CURRENT names a whole MANIFEST, whatever failed
\* and whenever the process or the machine stopped; only the first MANIFEST,
\* which NewDB does not sync, may be gone after an outage.
OpensAgain ==
  /\ Has(Current) =>
       Readable \/ (outages > 0 /\ ReadFile(Current).seen = Whole /\ ReadFile(Current).holds = 1)
  /\ step \in {"recovered", "obsolete"} => Has(Current)
=============================================================================
