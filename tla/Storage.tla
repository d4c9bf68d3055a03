------------------------------ MODULE Storage -------------------------------
(* The parts of the storage engine that are modelled on their own, each in  *)
(* its module, put side by side (those of StorageParts and the others): a   *)
(* behaviour is one of one part.                                            *)
EXTENDS StorageParts

CONSTANTS
  BlockSize, HeaderSize, Lengths, InitialOffsets, Reuse,
  MaxParts, MaxFailures, MaxCrashes, MaxZeros,              \* LogFile
  Users, Tags, ValueSize, MaxByte, MaxTag, TableBlockSize,
  RestartInterval, FilterBase, BitsPerKey, Hash,            \* TableFile
  Base, Width, Groups, NumLevels, FileNumbers, Absent, Strings, EditLevels,  \* Coding
  MaxKey, Clients, L0_CompactionTrigger, MaxMemCompactLevel, TargetFileSize,
  MaxGrandParentOverlap, ExpandedCompactionLimit, MaxBytesForLevel,
  MaxWrites, Ranges, Budgets, BusyManual,                   \* VersionSet
  MaxNumber, MinDigits, Digits, MaxDigits, Others,          \* FileNames
  Octets, MaxOctets, Characters, MaxText,                   \* Base64
  TableKeys, TableHash, ShardSize, MinLength                \* HandleTable

VARIABLES
  part,  \* which part it is
  file, emitted, records, blockOffset, adding, synced, clean, failures, crashes, reader,
  table, added, block, iter, place,
  source, input, whole, result,
  entries, mem, imm, files, fileToCompact, compactPointer, nextFileNumber, snapshot,
  compaction, manual, budget, parted,
  name, number, type, made,
  way, octets, text, room, done,
  list, elems, inserted

logVars == <<file, emitted, records, blockOffset, adding, synced, clean, failures, crashes, reader>>
tableVars == <<table, added, block, iter, place>>
codeVars == <<source, input, whole, result>>
versionVars == <<entries, mem, imm, files, fileToCompact, compactPointer, nextFileNumber,
                 snapshot, compaction, manual, budget, parted>>
nameVars == <<name, number, type, made>>
base64Vars == <<way, octets, text, room, done>>
hashVars == <<list, elems, inserted>>

Log == INSTANCE LogFile
Table == INSTANCE TableFile
Code == INSTANCE Coding
Versions == INSTANCE VersionSet WITH written <- entries
Names == INSTANCE FileNames
Text == INSTANCE Base64
Hashed == INSTANCE HandleTable

ASSUME VersionSetAssumption == Versions!VersionSetConstants

Parts == {"log", "table", "code", "list", "cache", "work", "output", "lock", "fix", "versions",
          "current", "names", "text", "memory", "hashed"}

\* A part that is not the one keeps one of its initial states.
Init ==
  /\ part \in Parts
  /\ Log!Init /\ Table!Init /\ Code!Init /\ List!Init /\ Work!Init /\ Lock!Init
  /\ Current!Init /\ Names!Init /\ Text!Init /\ Memory!Init /\ Hashed!Init
  /\ Cache!Init /\ (part # "cache" => capacity = 0)
  /\ Output!Init /\ (part # "output" => ~manifest)
  /\ Fix!Init /\ (part # "fix" => dir = CHOOSE d \in Directories : TRUE)
  /\ Versions!Init /\ (part # "versions" => budget = CHOOSE b \in Budgets : TRUE)
Next ==
  /\ UNCHANGED part
  /\ IF part = "log" THEN Log!Next ELSE UNCHANGED logVars
  /\ IF part = "table" THEN Table!Next ELSE UNCHANGED tableVars
  /\ IF part = "code" THEN Code!Next ELSE UNCHANGED codeVars
  /\ IF part = "list" THEN List!Step ELSE UNCHANGED listVars
  /\ IF part = "cache" THEN Cache!Next ELSE UNCHANGED cacheVars
  /\ IF part = "work" THEN Work!Next ELSE UNCHANGED workVars
  /\ IF part = "output" THEN Output!Next ELSE UNCHANGED outputVars
  /\ IF part = "lock" THEN Lock!Next ELSE UNCHANGED lockVars
  /\ IF part = "fix" THEN Fix!Next ELSE UNCHANGED fixVars
  /\ IF part = "versions" THEN Versions!Next ELSE UNCHANGED versionVars
  /\ IF part = "current" THEN Current!Next ELSE UNCHANGED currentVars
  /\ IF part = "names" THEN Names!Next ELSE UNCHANGED nameVars
  /\ IF part = "text" THEN Text!Next ELSE UNCHANGED base64Vars
  /\ IF part = "memory" THEN Memory!Next ELSE UNCHANGED arenaVars
  /\ IF part = "hashed" THEN Hashed!Next ELSE UNCHANGED hashVars
vars == <<part, logVars, tableVars, codeVars, listVars, cacheVars,
          workVars, outputVars, lockVars, fixVars, versionVars,
          currentVars, nameVars, base64Vars, arenaVars, hashVars>>
Spec == Init /\ [][Next]_vars
----------------------------------------------------------------------------
(* The properties, each of the part whose module states it in full.  (A     *)
(* part that is not the one stays as it began: asking it again is left out.) *)

\* A log read after any crash or failure (log_reader.cc): no record is put
\* together from parts of several or returned twice or out of order, one that
\* was synced before anything failed is returned, and a log that was only cut
\* off is not reported as corrupt.
LogIsRead ==
  part = "log" => Log!NothingInvented /\ Log!SyncedIsRead /\ Log!NoFalseAlarm

\* A table holds what was added to it (table.cc, block.cc): iterators of blocks
\* stand where their calls lead, the shortened keys of the index separate the
\* blocks, and neither the index nor the filter hides an entry.
TableIsRead ==
  part = "table" => Table!IteratorRight /\ Table!IndexSeparates /\ Table!GetFindsEntry

\* Edits, batches and footers are decoded to what was encoded, and one that was
\* cut short yields whole entries only (version_edit.cc, write_batch.cc,
\* format.cc); so are file names (filename.cc) and base64 (fbase64.c), of which
\* nothing else is taken for one.
CodeIsRead ==
  /\ part = "code" => Code!RoundTrip /\ Code!CutIsNoticed
  /\ part = "names" => Names!NamesAreParsed /\ Names!ReadNumbersAreRight
  /\ part = "text" => Text!EncodedIsDecoded /\ Text!DecodedIsCanonical

\* A reader of the skip list, which takes no lock, passes over no entry that
\* was inserted before it began (skiplist.h), and what the arena gave for the
\* nodes is not given for anything else (arena.cc).
MissesNothing == List!MissesNothing /\ [](part = "memory" => Memory!PiecesApart)

\* A table a thread reads from is open and the one it asked for, no more files
\* are mapped or open than allowed, and no permit is lost (cache.cc,
\* table_cache.cc, the Limiter of env_posix.cc).  The hash table of the cache
\* finds what was inserted last, however it has grown.
TablesStayOpen ==
  /\ part = "cache" => Cache!UsedTablesAreOpen /\ Cache!LimitsKept
  /\ part = "hashed" => Hashed!FindsInserted

\* Background works run once each, in the order they were scheduled in, and
\* the thread never sleeps while there is one (env_posix.cc).
WorksRun ==
  part = "work" => Work!RunInOrder /\ Work!NoSignalMissed

\* Bytes reach a file in their order and once, whatever failed, and what a
\* Sync reported is durable, with the directory when the file is a MANIFEST
\* (PosixWritableFile of env_posix.cc), so that CURRENT always names a whole one
\* (SetCurrentFile of filename.cc, LogAndApply of version_set.cc).
FileKeepsWord ==
  [](Output!InOrder /\ (part = "current" => Current!OpensAgain)) /\ Output!SyncKeepsWord

\* Of one process no two threads hold the lock of a database (env_posix.cc).
OneInProcess == part = "lock" => Lock!OneInProcess

\* A repair loses nothing that could be read when it began, and the MANIFEST
\* it writes names whole tables and gives out no number in use (repair.cc).
RepairKeepsData ==
  part = "fix" => Fix!KeepsReadable /\ Fix!DescriptorSound

\* Files of a level above 0 do not overlap, and the entries of a key get older
\* in the order a read visits their places, and what is told of the size of a
\* range is right (version_set.cc).
LevelsInOrder ==
  part = "versions" => Versions!LevelsDisjoint /\ Versions!NewerAbove /\ Versions!SizesAddUp

\* No flush, move or merge changes what a reader finds, with a snapshot or
\* without (db_impl.cc, version_set.cc), as long as no merge left a key parted
\* in the level it writes to; MCVersionSet shows what happens after one that did.
ReadsFindLastWrite == part = "versions" /\ ~parted => Versions!ReadsFindLastWrite

\* Types, and that each part hangs together.
TypeOK ==
  /\ part \in Parts
  /\ part = "log" => Log!TypeOK
  /\ part = "table" => Table!TypeOK
  /\ part = "list" => List!TypeOK
  /\ part = "cache" => Cache!TypeOK
  /\ part = "versions" => Versions!TypeOK
=============================================================================
