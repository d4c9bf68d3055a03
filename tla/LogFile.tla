------------------------------ MODULE LogFile ------------------------------
(* The format of logs and MANIFESTs: log::Writer (db/log_writer.cc), which  *)
(* cuts records into physical records that never cross a block, and         *)
(* log::Reader (db/log_reader.cc), which puts them together again after a   *)
(* crash.  A byte of the file says which physical record it is of, and      *)
(* where in it; a checksum is right when the bytes belong together.         *)
EXTENDS Integers, Sequences, FiniteSets

CONSTANTS BlockSize,       \* kBlockSize
          HeaderSize,      \* kHeaderSize
          Lengths,         \* lengths of records
          InitialOffsets,  \* initial_offset_ of readers; 0 in the database
          Reuse,           \* reuse_logs: go on in the file just read
          MaxParts, MaxFailures, MaxCrashes, MaxZeros  \* bounds

VARIABLES file,         \* its bytes: <<physical record, position>>, or Zero
          emitted,      \* the physical records: [type, length]
          records,      \* the records appended: [at, end, parts, sound]
          blockOffset,  \* Writer::block_offset_
          adding,       \* AddRecord: [left, begin, at, parts], or Idle
          synced,       \* bytes that survive a crash
          clean,        \* nothing has gone wrong with the file so far
          failures, crashes,
          reader        \* the Reader, or NoReader

writer == <<emitted, records, blockOffset, adding, synced, clean, failures, crashes>>
vars == <<file, writer, reader>>

Zero == <<0, 0>>
Idle == [left |-> 0, begin |-> FALSE, at |-> -1, parts |-> <<>>]
NoReader == [state |-> "none"]
Least(a, b) == IF a < b THEN a ELSE b
Writing == reader.state = "none"
----------------------------------------------------------------------------
AddRecord(length) ==
  /\ Writing /\ adding = Idle /\ Len(emitted) < MaxParts
  /\ adding' = [left |-> length, begin |-> TRUE, at |-> -1, parts |-> <<>>]
  /\ UNCHANGED <<file, emitted, records, blockOffset, synced, clean, failures, crashes, reader>>

\* One turn of the loop of AddRecord.
Leftover == BlockSize - blockOffset
Trailer == IF Leftover < HeaderSize THEN [k \in 1..Leftover |-> Zero] ELSE <<>>
Start == IF Leftover < HeaderSize THEN 0 ELSE blockOffset
FragmentLength == Least(adding.left, BlockSize - Start - HeaderSize)
Type == LET end == adding.left = FragmentLength
        IN  CASE adding.begin /\ end -> "full" [] adding.begin /\ ~end -> "first"
              [] ~adding.begin /\ end -> "last" [] OTHER -> "middle"
Bytes(n, length) == [k \in 1..(HeaderSize + length) |-> <<n, k>>]
Fragment == Trailer \o Bytes(Len(emitted) + 1, FragmentLength)

EmitPhysicalRecord ==
  /\ Writing /\ adding # Idle
  /\ file' = file \o Fragment
  /\ emitted' = Append(emitted, [type |-> Type, length |-> FragmentLength])
  /\ blockOffset' = Start + HeaderSize + FragmentLength
  /\ LET at == IF adding.begin THEN Len(file) + Len(Trailer) ELSE adding.at
         parts == Append(adding.parts, Len(emitted) + 1)
     IN  IF adding.left = FragmentLength
         THEN /\ records' = Append(records, [at |-> at, end |-> Len(file'), parts |-> parts,
                                             sound |-> clean])
              /\ adding' = Idle
         ELSE /\ adding' = [left |-> adding.left - FragmentLength, begin |-> FALSE,
                            at |-> at, parts |-> parts]
              /\ UNCHANGED records
  /\ UNCHANGED <<synced, clean, failures, crashes, reader>>

\* An Append or the Flush fails after some of the bytes; the record is given
\* up, and block_offset_ counts all of them.
EmitFails ==
  /\ Writing /\ adding # Idle /\ failures < MaxFailures
  /\ \E n \in 0..(Len(Fragment) - 1) : file' = file \o SubSeq(Fragment, 1, n)
  /\ emitted' = Append(emitted, [type |-> Type, length |-> FragmentLength])
  /\ blockOffset' = Start + HeaderSize + FragmentLength
  /\ adding' = Idle /\ clean' = FALSE /\ failures' = failures + 1
  /\ UNCHANGED <<records, synced, crashes, reader>>

\* WritableFile::Sync, called between records.
Sync ==
  /\ Writing /\ adding = Idle /\ synced < Len(file)
  /\ synced' = Len(file)
  /\ UNCHANGED <<file, emitted, records, blockOffset, adding, clean, failures, crashes, reader>>

\* The machine stops.  The file is cut off anywhere after what was synced, also
\* in the middle of a record; zeros may follow, of data not written yet.
SkipToInitialBlock(initial) ==
  LET offset == initial % BlockSize
  IN  initial - offset + IF offset > BlockSize - (HeaderSize - 1) THEN BlockSize ELSE 0
NewReader(initial) ==
  [state |-> "reading", initial |-> initial, pos |-> SkipToInitialBlock(initial),
   end |-> SkipToInitialBlock(initial), eof |-> FALSE, resyncing |-> initial > 0,
   fragmented |-> FALSE, scratch |-> <<>>, out |-> <<>>, reported |-> FALSE, torn |-> FALSE,
   unread |-> FALSE]
CrashAndRead ==
  /\ Writing /\ adding = Idle /\ crashes < MaxCrashes /\ records # <<>>
  /\ \E n \in synced..Len(file), z \in 0..MaxZeros, initial \in InitialOffsets :
       /\ n + z <= Len(file)
       /\ file' = SubSeq(file, 1, n) \o [k \in 1..z |-> Zero]
       /\ clean' = (clean /\ z = 0)
       /\ reader' = NewReader(initial)
  /\ crashes' = crashes + 1
  /\ UNCHANGED <<emitted, records, adding, blockOffset, synced, failures>>
----------------------------------------------------------------------------
\* The reader.  pos is where buffer_ begins and end is end_of_buffer_offset_.

Left == reader.end - reader.pos
Byte(k) == file[reader.pos + k]
Payload(n) == {k \in (HeaderSize + 1)..(HeaderSize + emitted[n].length) : Byte(k) # <<n, k>>}
\* What the header and the checksum may turn out to be; of a header put
\* together from several writes any of it, but not that it is right.
Parsed ==
  LET n == Byte(1)[1]
  IN  IF \A k \in 1..HeaderSize : Byte(k) = Zero THEN {"zero"}
      ELSE IF \E k \in 1..HeaderSize : Byte(k) # <<n, k>> THEN {"long", "zero", "mismatch"}
      ELSE IF HeaderSize + emitted[n].length > Left THEN {"long"}
      ELSE IF Payload(n) # {} THEN {"mismatch"} ELSE {"right"}

\* ReportDrop: offsets are unsigned.
Reported(pos, bytes) == reader.reported \/ pos < bytes \/ pos - bytes >= reader.initial
Size(scratch) ==
  LET sum[i \in 0..Len(scratch)] ==
        IF i = 0 THEN 0 ELSE sum[i - 1] + emitted[scratch[i]].length
  IN  sum[Len(scratch)]

Reading == reader.state = "reading"
NeedsBlock == Reading /\ Left < HeaderSize /\ ~reader.eof
LoadBlock ==
  /\ NeedsBlock
  /\ LET end == IF Len(file) < reader.end THEN reader.end
                ELSE Least(reader.end + BlockSize, Len(file))
     IN  reader' = [reader EXCEPT !.pos = reader.end, !.end = end,
                                  !.eof = end < reader.end + BlockSize]
  /\ UNCHANGED <<file, writer>>

\* The read of a block fails: a whole block is reported, and the log taken to end.
ReadFails ==
  /\ NeedsBlock /\ failures < MaxFailures /\ failures' = failures + 1
  /\ reader' = [reader EXCEPT !.state = "done", !.pos = reader.end, !.eof = TRUE,
                  !.fragmented = FALSE, !.scratch = <<>>, !.torn = TRUE, !.unread = TRUE,
                  !.reported = Reported(reader.end, BlockSize)]
  /\ UNCHANGED <<file, emitted, records, blockOffset, adding, synced, clean, crashes>>

\* A record that the writer did not finish is no corruption.
CutOff(p) == p = "long" /\ reader.eof

\* kEof: a record cut off is passed over in silence.
EndOfFile ==
  /\ Reading /\ reader.eof
  /\ \/ Left < HeaderSize
     \/ Left >= HeaderSize /\ \E p \in Parsed : CutOff(p)
  /\ reader' = [reader EXCEPT !.state = "done", !.torn = reader.fragmented \/ Left > 0,
                              !.fragmented = FALSE, !.scratch = <<>>]
  /\ UNCHANGED <<file, writer>>

\* Mutant: the pieces read so far survive a bad block.
NotForgotten == reader

\* kBadRecord with the rest of the block dropped; "bytes" are reported then,
\* and again those of the record begun before.
Forgotten == [fragmented |-> FALSE, scratch |-> <<>>]
BadBlock ==
  /\ Reading /\ Left >= HeaderSize
  /\ \E p \in Parsed \ {"right"} :
       /\ ~CutOff(p)
       /\ reader' = [reader EXCEPT
            !.pos = reader.end, !.resyncing = FALSE,
            !.fragmented = Forgotten.fragmented, !.scratch = Forgotten.scratch,
            !.reported = IF p # "zero" THEN Reported(reader.end, Left)
                         ELSE IF reader.fragmented THEN Reported(reader.end, Size(reader.scratch))
                         ELSE reader.reported]
  /\ UNCHANGED <<file, writer>>

\* A physical record that is right, of each type.
RightRecord ==
  /\ Reading /\ Left >= HeaderSize /\ Parsed = {"right"}
  /\ LET n == Byte(1)[1]
         type == emitted[n].type
         pos == reader.pos + HeaderSize + emitted[n].length
         missed == reader.fragmented /\ Size(reader.scratch) > 0
         Next(resyncing, fragmented, scratch, out, reported) ==
           reader' = [reader EXCEPT !.pos = pos, !.resyncing = resyncing,
                        !.fragmented = fragmented, !.scratch = scratch, !.out = out,
                        !.reported = reported]
     IN  IF reader.pos < reader.initial
         THEN Next(FALSE, FALSE, <<>>, reader.out,
                   IF reader.fragmented THEN Reported(pos, Size(reader.scratch)) ELSE reader.reported)
         ELSE IF reader.resyncing /\ type \in {"middle", "last"}
         THEN Next(type = "middle", FALSE, <<>>, reader.out, reader.reported)
         ELSE CASE type = "full" ->
                     Next(FALSE, FALSE, <<>>, Append(reader.out, <<n>>),
                          IF missed THEN Reported(pos, Size(reader.scratch)) ELSE reader.reported)
                [] type = "first" ->
                     Next(FALSE, TRUE, <<n>>, reader.out,
                          IF missed THEN Reported(pos, Size(reader.scratch)) ELSE reader.reported)
                [] type \in {"middle", "last"} /\ ~reader.fragmented ->
                     Next(FALSE, FALSE, <<>>, reader.out, Reported(pos, emitted[n].length))
                [] type = "middle" /\ reader.fragmented ->
                     Next(FALSE, TRUE, Append(reader.scratch, n), reader.out, reader.reported)
                [] type = "last" /\ reader.fragmented ->
                     Next(FALSE, FALSE, <<>>, Append(reader.out, Append(reader.scratch, n)),
                          reader.reported)
  /\ UNCHANGED <<file, writer>>

Out == {reader.out[i] : i \in DOMAIN reader.out}

\* Mutant: a log that is written on is taken to end at a block.
AtBlockStart == 0

\* The next log is written after the reader is done: a new file, or the same
\* one when reuse_logs says so (RecoverLogFile, ReuseManifest).  What could not
\* be read stays in it, but nothing is promised of it.
Kept == IF reader.unread
        THEN [i \in DOMAIN records |->
                [records[i] EXCEPT !.sound = @ /\ records[i].parts \in Out]]
        ELSE SelectSeq(records, LAMBDA r : r.parts \in Out)
WhereItEnds == Len(file) % BlockSize
WriteOn ==
  /\ reader.state = "done" /\ reader.initial = 0 /\ Reuse
  /\ blockOffset' = WhereItEnds
  /\ clean' = (clean /\ ~reader.torn)
  /\ records' = Kept
  /\ synced' = Len(file)
  /\ reader' = NoReader
  /\ UNCHANGED <<file, emitted, adding, failures, crashes>>

Init ==
  /\ file = <<>> /\ emitted = <<>> /\ records = <<>> /\ blockOffset = 0 /\ adding = Idle
  /\ synced = 0 /\ clean = TRUE /\ failures = 0 /\ crashes = 0 /\ reader = NoReader
Next ==
  \/ \E length \in Lengths : AddRecord(length)
  \/ EmitPhysicalRecord \/ EmitFails \/ Sync \/ CrashAndRead
  \/ LoadBlock \/ ReadFails \/ EndOfFile \/ BadBlock \/ RightRecord \/ WriteOn
Spec == Init /\ [][Next]_vars
----------------------------------------------------------------------------
TypeOK ==
  /\ synced \in 0..Len(file) /\ blockOffset \in 0..BlockSize
  /\ \A i \in DOMAIN records : records[i].end - records[i].at >= HeaderSize
  /\ Writing /\ clean => blockOffset % BlockSize = Len(file) % BlockSize

\* Every record synced before anything went wrong is read, or those of the blocks
\* before the one that cannot be read; and of a file that was only cut off the
\* reader makes the first records, in their order.
SyncedIsRead ==
  reader.state = "done" =>
    /\ \A i \in DOMAIN records :
         records[i].sound /\ records[i].end <= synced /\ records[i].at >= reader.initial
         /\ (reader.unread => records[i].end <= reader.end)
           => records[i].parts \in Out
    /\ clean /\ reader.initial = 0 =>
         \A i \in DOMAIN reader.out : i <= Len(records) /\ reader.out[i] = records[i].parts

\* No record is put together from parts of several, or returned twice or out
\* of order, whatever failed, was cut off or written over.
NothingInvented ==
  ~Writing =>
    \A i \in DOMAIN reader.out :
      /\ \E j \in DOMAIN records : reader.out[i] = records[j].parts
      /\ i > 1 => reader.out[i - 1][1] < reader.out[i][1]

\* A file that was only cut off, and could be read, is not called corrupt.
NoFalseAlarm == ~Writing /\ clean /\ ~reader.unread /\ reader.initial = 0 => ~reader.reported

=============================================================================
