---------------------------- MODULE WritableFile ----------------------------
(* PosixWritableFile (util/env_posix.cc): the buffer in front of a log, a   *)
(* table or a MANIFEST, with writes and syncs that fail.                    *)
EXTENDS Naturals, Sequences

CONSTANTS WritableFileBufferSize,  \* kWritableFileBufferSize
          Sizes,       \* sizes of what is appended
          MaxBytes     \* bound on the bytes appended

VARIABLES manifest,  \* is_manifest_
          buf,       \* buf_[0, pos_ - 1]: the bytes, by number
          written,   \* what write() has taken
          appended,  \* how many bytes were given to Append
          durable,   \* how many of the written ones a sync has made durable
          listed,    \* the directory is durable with the files made so far
          refused,   \* the bytes appended before the last call that returned an error
          promise    \* the bytes appended before the last Sync that returned OK

vars == <<manifest, buf, written, appended, durable, listed, refused, promise>>

Bytes(from, n) == [i \in 1..n |-> from + i]
Least(a, b) == IF a < b THEN a ELSE b
----------------------------------------------------------------------------
\* WriteUnbuffered: all of it, or an error after a part.
Outcomes(data) ==
  {[ok |-> TRUE, done |-> data]} \cup
  {[ok |-> FALSE, done |-> SubSeq(data, 1, n)] : n \in 0..(Len(data) - 1)}
\* Mutant: after a failed write the buffer is left to be written again.
LeftToRetry(outcome) == IF outcome.ok THEN <<>> ELSE buf

\* FlushBuffer drops what was in the buffer even when it fails.
LeftInBuffer(outcome) == <<>>

\* Whether the call returned OK.
Refused(ok) == refused' = IF ok THEN refused ELSE appended'

AppendData(n) ==
  LET copied == Least(n, WritableFileBufferSize - Len(buf))
      full == buf \o Bytes(appended, copied)
      rest == Bytes(appended + copied, n - copied)
  IN  /\ appended + n <= MaxBytes /\ appended' = appended + n
      /\ UNCHANGED <<manifest, durable, listed, promise>>
      /\ IF rest = <<>> THEN buf' = full /\ UNCHANGED <<written, refused>>
         ELSE \E flush \in Outcomes(full) :
           \/ /\ ~flush.ok
              /\ written' = written \o flush.done /\ buf' = LeftInBuffer(flush)
              /\ Refused(FALSE)
           \/ /\ flush.ok /\ Len(rest) < WritableFileBufferSize
              /\ written' = written \o flush.done /\ buf' = rest /\ Refused(TRUE)
           \/ /\ flush.ok /\ Len(rest) >= WritableFileBufferSize
              /\ \E direct \in Outcomes(rest) :
                   /\ written' = written \o flush.done \o direct.done
                   /\ buf' = <<>> /\ Refused(direct.ok)

Flush ==
  /\ UNCHANGED <<manifest, appended, durable, listed, promise>>
  /\ \E flush \in Outcomes(buf) :
       /\ written' = written \o flush.done /\ buf' = LeftInBuffer(flush)
       /\ Refused(flush.ok)

\* Mutant: Sync leaves the buffer alone.
Unflushed(flush) == UNCHANGED <<written, buf>>

\* Sync: the directory first, if the file is a MANIFEST, then the buffer.
Flushed(flush) == written' = written \o flush.done /\ buf' = LeftInBuffer(flush)
SyncDirFails ==
  /\ manifest
  /\ UNCHANGED <<manifest, buf, written, appended, durable, listed, promise>>
  /\ Refused(FALSE)
Sync ==
  /\ UNCHANGED <<manifest, appended>>
  /\ \E flush \in Outcomes(buf), synced \in BOOLEAN :
       /\ listed' = (listed \/ manifest)
       /\ Flushed(flush)
       /\ IF flush.ok /\ synced
          THEN durable' = Len(written') /\ promise' = appended /\ Refused(TRUE)
          ELSE Refused(FALSE) /\ UNCHANGED <<durable, promise>>
\* Another file, a table, is made in the directory.
NewFile == listed' = FALSE /\ UNCHANGED <<manifest, buf, written, appended, durable, refused, promise>>

Init ==
  /\ manifest \in BOOLEAN
  /\ buf = <<>> /\ written = <<>> /\ appended = 0 /\ durable = 0
  /\ listed = FALSE /\ refused = 0 /\ promise = 0
Next == (\E n \in Sizes : AppendData(n)) \/ Flush \/ SyncDirFails \/ Sync \/ NewFile
----------------------------------------------------------------------------
\* Every byte that was appended after the last call that failed.
HoldsSinceError(bytes) ==
  \A b \in (refused + 1)..appended : \E i \in DOMAIN bytes : bytes[i] = b

\* Bytes reach the file in their order and once, whatever failed, and those of
\* after the last failure are all on their way.
InOrder ==
  LET all == written \o buf
  IN  (\A i \in 2..Len(all) : all[i - 1] < all[i]) /\ HoldsSinceError(all)

\* What a Sync has promised is durable, also after a call that failed whatever
\* was appended since; and when it was of a MANIFEST so is the directory with
\* the tables that it names.
SyncKeepsWord ==
  [][promise' # promise =>
       /\ manifest => listed'
       /\ \A b \in (refused + 1)..appended : \E i \in 1..durable' : written'[i] = b]_vars
=============================================================================
