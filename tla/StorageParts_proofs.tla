------------------------ MODULE StorageParts_proofs -------------------------
(***************************************************************************)
(* Proofs about the parts of the storage engine that go on side by side    *)
(* with failures and threads (StorageParts), for each its inductive        *)
(* invariant: it holds at first, every step keeps it, and the property     *)
(* follows.  Storage_proofs makes theorems of Storage of them.             *)
(***************************************************************************)
EXTENDS StorageParts, SequenceFacts

----------------------------------------------------------------------------
(* FileLock. *)

\* A thread that is anywhere between its insertion into the table and its
\* removal has its process in the table, and is alone there.
Entered == {"inserted", "holding", "busy", "closed", "unlocked", "leaked"}
LockInv ==
  /\ DOMAIN pc = Lock!AllThreads
  /\ \A t \in Lock!AllThreads : pc[t] \in Entered => Lock!Of(t) \in locks
  /\ \A t, u \in Lock!AllThreads :
       pc[t] \in Entered /\ pc[u] \in Entered /\ Lock!Of(t) = Lock!Of(u) => t = u

LEMMA LockInit == Lock!Init => LockInv
  BY Zenon DEF Lock!Init, LockInv, Entered

LEMMA LockStep == LockInv /\ Lock!Next => LockInv'
<1> SUFFICES ASSUME LockInv, Lock!Next PROVE LockInv'
  OBVIOUS
<1>1. ASSUME NEW t \in Lock!AllThreads,
             Lock!Opened(t) \/ Lock!Insert(t) \/ Lock!CloseRefused(t) \/ Lock!Lock(t) \/ Lock!CloseBusy(t)
      PROVE LockInv'
  BY <1>1 DEF LockInv, Entered, Lock!Opened, Lock!Insert, Lock!CloseRefused, Lock!Lock, Lock!CloseBusy, Lock!Goes
<1>2. ASSUME NEW t \in Lock!AllThreads,
             Lock!RemoveBusy(t) \/ Lock!Unlock(t) \/ Lock!UnlockFails(t) \/ Lock!Remove(t) \/ Lock!Close(t)
      PROVE LockInv'
  BY <1>2 DEF LockInv, Entered, Lock!RemoveBusy, Lock!Unlock, Lock!UnlockFails, Lock!Remove, Lock!Close, Lock!Goes
<1>3. ASSUME NEW p \in Processes, Lock!Exit(p) PROVE LockInv'
  BY <1>3 DEF LockInv, Entered, Lock!Exit
<1> QED
  BY <1>1, <1>2, <1>3 DEF Lock!Next

----------------------------------------------------------------------------
(* WorkQueue. *)

\* The works of the queue, and what the thread may be at.
CanBe == {Work!NoWorker, Work!Looking, Work!Waiting} \cup
         {[at |-> "running", work |-> w] : w \in Works}
WorkInv ==
  /\ queue \in Seq(Works) /\ ran \in Seq(Works)
  /\ worker \in CanBe
  /\ Work!RunInOrder /\ Work!NoSignalMissed
  /\ worker = Work!NoWorker => queue = <<>>

LEMMA WorkInit == Work!Init => WorkInv
<1>1. Work!Init => Work!RunInOrder
  BY EmptySeq, ConcatEmptySeq DEF Work!Init, Work!RunInOrder, Work!NoWorker
<1>. QED
  BY <1>1, EmptySeq DEF Work!Init, WorkInv, CanBe, Work!NoSignalMissed, Work!NoWorker, Work!Waiting

LEMMA WorkStep == WorkInv /\ Work!Next => WorkInv'
<1> SUFFICES ASSUME WorkInv, Work!Next PROVE WorkInv'
  OBVIOUS
<1>. USE DEF Work!NoWorker, Work!Looking, Work!Waiting
<1>. DEFINE now == IF worker.at = "running" THEN <<worker.work>> ELSE <<>>
<1>0. /\ queue \in Seq(Works) /\ ran \in Seq(Works) /\ now \in Seq(Works)
      /\ (ran \o now) \o queue = asked
  BY EmptySeq DEF WorkInv, CanBe, Work!RunInOrder
<1>1. ASSUME NEW w \in Works, Work!Schedule(w) PROVE WorkInv'
  <2>1. now' = now /\ (worker' = worker \/ worker' = Work!Looking) /\ ran' = ran
    BY <1>1 DEF Work!Schedule, Work!Signalled, WorkInv, CanBe
  <2>a. ran \o now \in Seq(Works)
    BY <1>0, ConcatProperties
  <2>2. (ran \o now) \o Append(queue, w) = Append((ran \o now) \o queue, w)
    <3>1. \A r \in Seq(Works) : r \o Append(queue, w) = Append(r \o queue, w)
      BY <1>0, AppendAfter
    <3>. HIDE DEF now
    <3>. QED
      BY <2>a, <3>1
  <2>b. queue' = Append(queue, w) /\ asked' = Append(asked, w)
    BY <1>1 DEF Work!Schedule
  <2>c. (ran' \o now') \o queue' = asked'
    <3>. HIDE DEF now
    <3>. QED
      BY <1>0, <2>1, <2>2, <2>b
  <2>3. Work!RunInOrder'
    BY <2>c DEF Work!RunInOrder
  <2>4. Append(queue, w) \in Seq(Works) /\ Append(queue, w) # <<>>
    BY <1>0, AppendProperties
  <2>. QED
    BY <1>0, <1>1, <2>3, <2>4, <2>1 DEF Work!Schedule, Work!Signalled, WorkInv, CanBe, Work!NoSignalMissed
<1>2. CASE Work!Look
  <2>1. CASE queue = <<>>
    BY <1>0, <1>2, <2>1 DEF Work!Look, WorkInv, CanBe, Work!RunInOrder, Work!NoSignalMissed
  <2>2. CASE queue # <<>>
    <3>1. /\ worker = Work!Looking /\ worker' = [at |-> "running", work |-> Work!Front]
          /\ queue' = Tail(queue) /\ asked' = asked /\ ran' = ran
      BY <1>2, <2>2 DEF Work!Look
    <3>2. Work!Front = Head(queue) /\ Head(queue) \in Works /\ Tail(queue) \in Seq(Works)
      BY <1>0, <2>2, TailProperties, HeadTailIn DEF Work!Front
    <3>3. queue = <<Head(queue)>> \o Tail(queue)
      BY <1>0, <2>2, HeadTailConcat
    <3>4. (ran \o <<Head(queue)>>) \o Tail(queue) = ran \o queue
      BY <1>0, <3>2, <3>3, ConcatAssociative, <<Head(queue)>> \in Seq(Works)
    <3>5. ran \o queue = asked
      BY <1>0, <3>1, ConcatEmptySeq
    <3>6. Work!RunInOrder'
      BY <3>1, <3>2, <3>4, <3>5 DEF Work!RunInOrder
    <3>. QED
      BY <1>0, <3>1, <3>2, <3>6 DEF WorkInv, CanBe, Work!NoSignalMissed
  <2>. QED
    BY <2>1, <2>2
<1>3. CASE Work!Wake
  BY <1>0, <1>3 DEF Work!Wake, WorkInv, CanBe, Work!RunInOrder, Work!NoSignalMissed
<1>4. CASE Work!Finish
  <2>1. PICK w \in Works : worker = [at |-> "running", work |-> w]
    BY <1>4 DEF Work!Finish, WorkInv, CanBe
  <2>2. /\ ran' = Append(ran, w) /\ worker' = Work!Looking
        /\ queue' = queue /\ asked' = asked
    BY <1>4, <2>1 DEF Work!Finish
  <2>3. Append(ran, w) \in Seq(Works) /\ Append(ran, w) = ran \o <<w>>
    BY <1>0, AppendIsConcat
  <2>4. Append(ran, w) \o <<>> = ran \o <<w>>
    BY <2>3, ConcatEmptySeq
  <2>5. Work!RunInOrder'
    BY <1>0, <2>1, <2>2, <2>4 DEF Work!RunInOrder
  <2>. QED
    BY <1>0, <2>2, <2>3, <2>5 DEF WorkInv, CanBe, Work!NoSignalMissed
<1>. QED
  BY <1>1, <1>2, <1>3, <1>4 DEF Work!Next
----------------------------------------------------------------------------
(* WritableFile. *)

\* Bytes in their order and once, the last of them no later than n.
Rising(s, n) ==
  /\ s \in Seq(Nat)
  /\ \A i, j \in 1..Len(s) : i < j => s[i] < s[j]
  /\ \A i \in 1..Len(s) : s[i] <= n

LEMMA BytesAre ==
  ASSUME NEW a \in Nat, NEW n \in Nat
  PROVE  /\ Output!Bytes(a, n) \in Seq(Nat) /\ Len(Output!Bytes(a, n)) = n
         /\ \A i \in 1..n : Output!Bytes(a, n)[i] = a + i
BY DEF Output!Bytes

\* The bytes after r, up to a, are in s.
Held(s, r, a) == \A b \in (r + 1)..a : \E i \in 1..Len(s) : s[i] = b

LEMMA NoneHeld == ASSUME NEW s, NEW a \in Nat PROVE Held(s, a, a)
BY DEF Held

LEMMA RisingMore ==
  ASSUME NEW s, NEW a \in Nat, NEW n \in Nat, Rising(s, a)
  PROVE  /\ Rising(s \o Output!Bytes(a, n), a + n)
         /\ \A r \in Nat : Held(s, r, a) => Held(s \o Output!Bytes(a, n), r, a + n)
<1>. DEFINE b == Output!Bytes(a, n)
            t == s \o b
<1>1. /\ s \in Seq(Nat) /\ b \in Seq(Nat) /\ Len(b) = n /\ \A i \in 1..n : b[i] = a + i
  BY BytesAre DEF Rising
<1>. HIDE DEF b
<1>2. /\ t \in Seq(Nat) /\ Len(t) = Len(s) + n
      /\ \A i \in 1..Len(t) : t[i] = IF i <= Len(s) THEN s[i] ELSE b[i - Len(s)]
  <2>1. /\ s \o b \in Seq(Nat) /\ Len(s \o b) = Len(s) + Len(b)
        /\ \A i \in 1..(Len(s) + Len(b)) :
             (s \o b)[i] = IF i <= Len(s) THEN s[i] ELSE b[i - Len(s)]
    BY <1>1, ConcatProperties
  <2>. QED
    BY <1>1, <2>1
<1>3. Len(s) \in Nat
  BY <1>1, LenProperties
<1>. HIDE DEF t
<1>4. \A i \in 1..Len(t) :
        (i <= Len(s) => t[i] = s[i]) /\ (i > Len(s) => t[i] = a + (i - Len(s)))
  <2>1. TAKE i \in 1..Len(t)
  <2>2. CASE i <= Len(s)
    BY <1>2, <1>3, <2>2
  <2>3. CASE i > Len(s)
    <3>1. i - Len(s) \in 1..n
      BY <1>1, <1>2, <1>3, <2>3
    <3>. QED
      BY <1>1, <1>2, <1>3, <2>3, <3>1
  <2>. QED
    BY <1>3, <2>2, <2>3
<1>5. Rising(t, a + n)
  <2>1. ASSUME NEW i \in 1..Len(t), NEW j \in 1..Len(t), i < j PROVE t[i] < t[j]
    <3>1. CASE j <= Len(s)
      BY <1>3, <1>4, <2>1, <3>1 DEF Rising
    <3>2. CASE i <= Len(s) /\ j > Len(s)
      <4>1. t[i] = s[i] /\ s[i] <= a /\ s[i] \in Nat
        BY <1>1, <1>3, <1>4, <2>1, <3>2 DEF Rising
      <4>. QED
        BY <1>3, <1>4, <2>1, <3>2, <4>1
    <3>3. CASE i > Len(s)
      BY <1>3, <1>4, <2>1, <3>3
    <3>. QED
      BY <1>3, <3>1, <3>2, <3>3
  <2>2. ASSUME NEW i \in 1..Len(t) PROVE t[i] <= a + n
    <3>1. CASE i <= Len(s)
      <4>1. t[i] = s[i] /\ s[i] <= a /\ s[i] \in Nat
        BY <1>1, <1>3, <1>4, <2>2, <3>1 DEF Rising
      <4>. QED
        BY <4>1
    <3>2. CASE i > Len(s)
      BY <1>2, <1>3, <1>4, <3>2
    <3>. QED
      BY <1>3, <3>1, <3>2
  <2>. QED
    BY <1>2, <2>1, <2>2 DEF Rising
<1>6. ASSUME NEW r \in Nat, Held(s, r, a) PROVE Held(t, r, a + n)
  <2>1. SUFFICES ASSUME NEW k \in (r + 1)..(a + n) PROVE \E i \in 1..Len(t) : t[i] = k
    BY DEF Held
  <2>2. CASE k <= a
    <3>1. k \in (r + 1)..a
      BY <2>1, <2>2
    <3>2. PICK i \in 1..Len(s) : s[i] = k
      BY <1>6, <3>1 DEF Held
    <3>3. i \in 1..Len(t) /\ i <= Len(s)
      BY <1>2, <1>3
    <3>. QED
      BY <1>4, <3>2, <3>3
  <2>3. CASE k > a
    <3>1. Len(s) + (k - a) \in 1..Len(t) /\ Len(s) + (k - a) > Len(s)
          /\ a + ((Len(s) + (k - a)) - Len(s)) = k
      BY <1>2, <1>3, <2>1, <2>3
    <3>. QED
      BY <1>4, <3>1
  <2>. QED
    BY <2>1, <2>2, <2>3
<1>. QED
  BY <1>5, <1>6 DEF t, b

LEMMA RisingPart ==
  ASSUME NEW s \in Seq(Nat), NEW t \in Seq(Nat), NEW n \in Nat, Rising(s \o t, n),
         NEW k \in 0..Len(t)
  PROVE  Rising(s \o SubSeq(t, 1, k), n)
<1>. DEFINE p == SubSeq(t, 1, k)
            u == s \o p
            w == s \o t
<1>1. Len(s) \in Nat /\ Len(t) \in Nat /\ k \in Nat /\ k <= Len(t)
  BY LenProperties
<1>2. \A i \in 1..k : t[i] \in Nat
  BY <1>1, LenProperties
<1>3. p \in Seq(Nat) /\ Len(p) = k /\ \A i \in 1..k : p[i] = t[i]
  BY <1>1, <1>2, SubSeqProperties
<1>4. /\ w \in Seq(Nat) /\ Len(w) = Len(s) + Len(t)
      /\ \A i \in 1..Len(w) : w[i] = IF i <= Len(s) THEN s[i] ELSE t[i - Len(s)]
  BY ConcatProperties
<1>. HIDE DEF p
<1>5. /\ u \in Seq(Nat) /\ Len(u) = Len(s) + k
      /\ \A i \in 1..Len(u) : u[i] = IF i <= Len(s) THEN s[i] ELSE p[i - Len(s)]
  <2>1. /\ s \o p \in Seq(Nat) /\ Len(s \o p) = Len(s) + Len(p)
        /\ \A i \in 1..(Len(s) + Len(p)) :
             (s \o p)[i] = IF i <= Len(s) THEN s[i] ELSE p[i - Len(s)]
    BY <1>3, ConcatProperties
  <2>. QED
    BY <1>3, <2>1
<1>6. Rising(w, n)
  OBVIOUS
<1>. HIDE DEF u, w
<1>7. 1..Len(u) \subseteq 1..Len(w)
  BY <1>1, <1>4, <1>5
<1>8. \A i \in 1..Len(u) : u[i] = w[i]
  <2>1. TAKE i \in 1..Len(u)
  <2>2. i \in 1..Len(w)
    BY <1>7
  <2>3. CASE i <= Len(s)
    BY <1>4, <1>5, <2>2, <2>3
  <2>4. CASE ~(i <= Len(s))
    <3>1. i - Len(s) \in 1..k
      BY <1>1, <1>5, <2>4
    <3>. QED
      BY <1>3, <1>4, <1>5, <2>2, <2>4, <3>1
  <2>. QED
    BY <2>3, <2>4
<1>. QED
  BY <1>5, <1>6, <1>7, <1>8 DEF Rising, u, p

OutputInv ==
  /\ manifest \in BOOLEAN /\ refused \in Nat /\ appended \in Nat
  /\ buf \in Seq(Nat) /\ written \in Seq(Nat)
  /\ Len(buf) <= WritableFileBufferSize
  /\ Rising(written \o buf, appended)
  /\ Held(written \o buf, refused, appended)

LEMMA OutputInit == Output!Init => OutputInv
<1> SUFFICES ASSUME Output!Init PROVE OutputInv
  OBVIOUS
<1>1. buf = <<>> /\ written = <<>> /\ appended = 0 /\ <<>> \in Seq(Nat) /\ Len(<<>>) = 0
  BY EmptySeq DEF Output!Init
<1>2. <<>> \o <<>> = <<>>
  BY <1>1, ConcatEmptySeq
<1>3. Held(written \o buf, refused, appended)
  BY DEF Held, Output!Init
<1>4. Rising(<<>>, 0)
  BY <1>1 DEF Rising
<1>5. Rising(written \o buf, appended)
  BY <1>1, <1>2, <1>4
<1>6. Len(buf) <= WritableFileBufferSize
  BY <1>1, OutputAssumption
<1>7. manifest \in BOOLEAN /\ refused \in Nat /\ appended \in Nat
  BY DEF Output!Init
<1>. QED
  BY <1>1, <1>3, <1>5, <1>6, <1>7 DEF OutputInv

\* What write() may take of some bytes.
LEMMA OutcomeIs ==
  ASSUME NEW t \in Seq(Nat), NEW o \in Output!Outcomes(t), NEW s \in Seq(Nat), NEW n \in Nat,
         Rising(s \o t, n)
  PROVE  /\ o.ok \in BOOLEAN /\ (o.ok => o.done = t)
         /\ s \o o.done \in Seq(Nat) /\ Rising(s \o o.done, n)
         /\ (s \o o.done) \o <<>> = s \o o.done
<1>1. Len(t) \in Nat
  BY LenProperties
<1>2. ASSUME o = [ok |-> TRUE, done |-> t]
      PROVE  o.ok \in BOOLEAN /\ (o.ok => o.done = t) /\ Rising(s \o o.done, n)
  BY <1>2
<1>3. ASSUME o \in {[ok |-> FALSE, done |-> SubSeq(t, 1, k)] : k \in 0..(Len(t) - 1)}
      PROVE  o.ok \in BOOLEAN /\ (o.ok => o.done = t) /\ Rising(s \o o.done, n)
  <2>1. PICK k \in 0..(Len(t) - 1) : o = [ok |-> FALSE, done |-> SubSeq(t, 1, k)]
    BY <1>3
  <2>2. k \in 0..Len(t)
    BY <1>1
  <2>. QED
    <3>1. Rising(s \o SubSeq(t, 1, k), n)
      BY <2>2, RisingPart
    <3>. QED
      BY <2>1, <3>1
<1>4. o.ok \in BOOLEAN /\ (o.ok => o.done = t) /\ Rising(s \o o.done, n)
  BY <1>2, <1>3 DEF Output!Outcomes
<1>5. s \o o.done \in Seq(Nat)
  BY <1>4 DEF Rising
<1>. QED
  BY <1>4, <1>5, ConcatEmptySeq

\* FlushBuffer, whoever calls it.
LEMMA FlushKeeps ==
  ASSUME OutputInv, NEW o \in Output!Outcomes(buf),
         written' = written \o o.done, buf' = <<>>,
         refused' = appended \/ (o.ok /\ refused' = refused),
         UNCHANGED <<manifest, appended>>
  PROVE  OutputInv'
<1>1. /\ o.ok => o.done = buf
      /\ written' \in Seq(Nat) /\ Rising(written' \o buf', appended) /\ written' \o buf' = written \o o.done
  BY OutcomeIs DEF OutputInv
<1>2. buf' \in Seq(Nat) /\ Len(buf') <= WritableFileBufferSize
  BY EmptySeq, OutputAssumption
<1>3. Rising(written' \o buf', appended') /\ appended' \in Nat /\ manifest' \in BOOLEAN
  BY <1>1 DEF OutputInv
<1>4. refused' \in Nat /\ Held(written' \o buf', refused', appended')
  <2>1. CASE refused' = appended
    BY <2>1 DEF OutputInv, Held
  <2>2. CASE o.ok /\ refused' = refused
    BY <1>1, <2>2 DEF OutputInv
  <2>. QED
    BY <2>1, <2>2
<1>. QED
  BY <1>1, <1>2, <1>3, <1>4 DEF OutputInv

LEMMA AppendKeeps ==
  ASSUME OutputInv, NEW n \in Sizes, Output!AppendData(n)
  PROVE  OutputInv'
<1>. DEFINE c == Output!Least(n, WritableFileBufferSize - Len(buf))
            full == buf \o Output!Bytes(appended, c)
            rest == Output!Bytes(appended + c, n - c)
<1>1. /\ n \in Nat /\ appended \in Nat /\ c \in 0..n /\ Len(buf) \in Nat
      /\ Len(buf) + c <= WritableFileBufferSize
      /\ c \in Nat /\ n - c \in Nat /\ appended + c \in Nat /\ (appended + c) + (n - c) = appended + n
  <2>1. n \in Nat /\ appended \in Nat /\ Len(buf) \in Nat
        /\ WritableFileBufferSize \in Nat /\ Len(buf) <= WritableFileBufferSize
    BY OutputAssumption, LenProperties DEF OutputInv
  <2>2. c = IF n < WritableFileBufferSize - Len(buf) THEN n ELSE WritableFileBufferSize - Len(buf)
    BY DEF Output!Least
  <2>. HIDE DEF c
  <2>3. c \in Nat /\ c <= n /\ Len(buf) + c <= WritableFileBufferSize
    BY <2>1, <2>2
  <2>4. c \in 0..n /\ n - c \in Nat /\ (appended + c) + (n - c) = appended + n
    BY <2>1, <2>3
  <2>. QED
    BY <2>1, <2>3, <2>4
<1>2. /\ appended' = appended + n /\ manifest' = manifest
      /\ IF rest = <<>> THEN buf' = full /\ UNCHANGED <<written, refused>>
         ELSE \E flush \in Output!Outcomes(full) :
           \/ /\ ~flush.ok
              /\ written' = written \o flush.done /\ buf' = <<>> /\ refused' = appended'
           \/ /\ flush.ok /\ Len(rest) < WritableFileBufferSize
              /\ written' = written \o flush.done /\ buf' = rest /\ refused' = refused
           \/ /\ flush.ok /\ Len(rest) >= WritableFileBufferSize
              /\ \E direct \in Output!Outcomes(rest) :
                   /\ written' = (written \o flush.done) \o direct.done
                   /\ buf' = <<>> /\ refused' = IF direct.ok THEN refused ELSE appended'
  BY DEF Output!AppendData, Output!LeftInBuffer, Output!Refused
<1>. HIDE DEF c
<1>3. /\ Output!Bytes(appended, c) \in Seq(Nat) /\ Len(Output!Bytes(appended, c)) = c
      /\ rest \in Seq(Nat) /\ Len(rest) = n - c
  BY <1>1, BytesAre
<1>4. full \in Seq(Nat) /\ Len(full) = Len(buf) + c
  BY <1>3, ConcatProperties DEF OutputInv
<1>5. written \o full = (written \o buf) \o Output!Bytes(appended, c)
  <2>1. written \in Seq(Nat) /\ buf \in Seq(Nat)
    BY DEF OutputInv
  <2>. DEFINE b == Output!Bytes(appended, c)
  <2>2. b \in Seq(Nat)
    BY <1>3
  <2>. HIDE DEF b
  <2>3. \A x, y, z \in Seq(Nat) : (x \o y) \o z = x \o (y \o z)
    BY ConcatAssociative, SMTT(30)
  <2>4. (written \o buf) \o b = written \o (buf \o b)
    BY <2>1, <2>2, <2>3
  <2>. QED
    BY <2>4 DEF full, b
<1>6. /\ Rising(written \o full, appended + c)
      /\ Held(written \o full, refused, appended + c)
  <2>1. Rising(written \o buf, appended) /\ Held(written \o buf, refused, appended) /\ refused \in Nat
    BY DEF OutputInv
  <2>2. appended \in Nat /\ c \in Nat
    BY <1>1
  <2>3. /\ Rising((written \o buf) \o Output!Bytes(appended, c), appended + c)
        /\ Held((written \o buf) \o Output!Bytes(appended, c), refused, appended + c)
    BY <2>1, <2>2, RisingMore
  <2>. QED
    BY <1>5, <2>1, <2>3
<1>7. /\ Rising((written \o full) \o rest, appended + n)
      /\ Held((written \o full) \o rest, refused, appended + n)
  <2>. DEFINE s == written \o full
              a == appended + c
              m == n - c
  <2>1. a \in Nat /\ m \in Nat /\ a + m = appended + n
    BY <1>1
  <2>2. Rising(s, a) /\ Held(s, refused, a) /\ refused \in Nat
    BY <1>6 DEF OutputInv
  <2>. HIDE DEF s, a, m, full
  <2>3. Rising(s \o Output!Bytes(a, m), a + m)
        /\ Held(s \o Output!Bytes(a, m), refused, a + m)
    BY <2>1, <2>2, RisingMore
  <2>. QED
    BY <2>1, <2>2, <2>3 DEF s, a, m
<1>8. Rising(written \o full, appended + n)
  <2>. DEFINE s == written \o full
  <2>. HIDE DEF full, rest
  <2>1. Rising(s, appended + c)
    BY <1>6
  <2>. HIDE DEF s
  <2>2. \A i \in 1..Len(s) : s[i] \in Nat
    BY <2>1, LenProperties DEF Rising
  <2>3. Rising(s, appended + n)
    BY <1>1, <2>1, <2>2 DEF Rising
  <2>. QED
    BY <2>3 DEF s
<1>9. <<>> \in Seq(Nat) /\ Len(<<>>) = 0 /\ written \in Seq(Nat) /\ written \o full \in Seq(Nat)
  BY <1>6, EmptySeq DEF OutputInv, Rising
<1>. HIDE DEF full, rest
<1>10. CASE rest = <<>>
  <2>1. n = c
    BY <1>1, <1>3, <1>9, <1>10
  <2>. QED
    BY <1>1, <1>2, <1>4, <1>6, <1>9, <1>10, <2>1 DEF OutputInv
<1>11. CASE rest # <<>>
  <2>1. PICK flush \in Output!Outcomes(full) :
           \/ /\ ~flush.ok
              /\ written' = written \o flush.done /\ buf' = <<>> /\ refused' = appended'
           \/ /\ flush.ok /\ Len(rest) < WritableFileBufferSize
              /\ written' = written \o flush.done /\ buf' = rest /\ refused' = refused
           \/ /\ flush.ok /\ Len(rest) >= WritableFileBufferSize
              /\ \E direct \in Output!Outcomes(rest) :
                   /\ written' = (written \o flush.done) \o direct.done
                   /\ buf' = <<>> /\ refused' = IF direct.ok THEN refused ELSE appended'
    BY <1>2, <1>11
  <2>2. /\ flush.ok => flush.done = full
        /\ written \o flush.done \in Seq(Nat) /\ Rising(written \o flush.done, appended + n)
        /\ (written \o flush.done) \o <<>> = written \o flush.done
    BY <1>1, <1>4, <1>8, <1>9, OutcomeIs
  <2>3. CASE ~flush.ok
    <3>1. written' = written \o flush.done /\ buf' = <<>> /\ refused' = appended'
      BY <2>1, <2>3
    <3>2. Rising(written' \o buf', appended')
      BY <1>2, <2>2, <3>1
    <3>3. Len(buf') <= WritableFileBufferSize /\ appended' \in Nat /\ manifest' \in BOOLEAN
      BY <1>1, <1>2, <1>9, <3>1, OutputAssumption DEF OutputInv
    <3>4. refused' \in Nat /\ Held(written' \o buf', refused', appended')
      BY <3>1, <3>3, NoneHeld
    <3>. QED
      BY <1>9, <2>2, <3>1, <3>2, <3>3, <3>4 DEF OutputInv
  <2>4. CASE flush.ok /\ buf' = rest /\ written' = written \o flush.done
                /\ refused' = refused /\ Len(rest) < WritableFileBufferSize
    <3>1. written' \o buf' = (written \o full) \o rest /\ appended' = appended + n
      BY <1>2, <2>2, <2>4
    <3>2. Rising(written' \o buf', appended')
          /\ Held(written' \o buf', refused', appended')
      BY <1>7, <2>4, <3>1
    <3>3. Len(buf') <= WritableFileBufferSize /\ appended' \in Nat /\ manifest' \in BOOLEAN
          /\ refused' \in Nat
      BY <1>1, <1>2, <1>3, <2>4, OutputAssumption DEF OutputInv
    <3>. QED
      BY <1>3, <2>2, <2>4, <3>2, <3>3 DEF OutputInv
  <2>5. ASSUME flush.ok, NEW direct \in Output!Outcomes(rest),
               written' = (written \o flush.done) \o direct.done, buf' = <<>>,
               refused' = IF direct.ok THEN refused ELSE appended'
        PROVE OutputInv'
    <3>1. /\ direct.ok \in BOOLEAN /\ (direct.ok => direct.done = rest)
          /\ (written \o full) \o direct.done \in Seq(Nat)
          /\ Rising((written \o full) \o direct.done, appended + n)
          /\ ((written \o full) \o direct.done) \o <<>> = (written \o full) \o direct.done
      <4>1. Rising((written \o full) \o rest, appended + n) /\ appended + n \in Nat
        BY <1>1, <1>7
      <4>. QED
        BY <1>3, <1>9, <2>5, <4>1, OutcomeIs
    <3>2. written' = (written \o full) \o direct.done /\ written' \o buf' = written'
      BY <2>2, <2>5, <3>1
    <3>3. refused' = appended' \/ (refused' = refused /\ direct.done = rest)
      BY <2>5, <3>1
    <3>. QED
      <4>1. Rising(written' \o buf', appended')
            /\ Held(written' \o buf', refused', appended')
        <5>1. CASE refused' = appended'
          <6>1. appended' \in Nat /\ Rising(written' \o buf', appended')
            BY <1>1, <1>2, <3>1, <3>2
          <6>. QED
            BY <5>1, <6>1, NoneHeld
        <5>2. CASE refused' = refused /\ direct.done = rest
          BY <1>2, <1>7, <3>1, <3>2, <5>2
        <5>. QED
          BY <3>3, <5>1, <5>2
      <4>2. Len(buf') <= WritableFileBufferSize /\ appended' \in Nat /\ manifest' \in BOOLEAN
            /\ refused' \in Nat /\ written' \in Seq(Nat) /\ buf' \in Seq(Nat)
        BY <1>1, <1>2, <1>9, <2>5, <3>1, <3>2, OutputAssumption DEF OutputInv
      <4>. QED
        BY <4>1, <4>2 DEF OutputInv
  <2>. QED
    BY <2>1, <2>3, <2>4, <2>5
<1>. QED
  BY <1>10, <1>11

LEMMA OutputStep ==
  ASSUME OutputInv, Output!Next
  PROVE  /\ OutputInv'
         /\ promise' # promise =>
              /\ manifest => listed'
              /\ \A b \in (refused + 1)..appended : \E i \in 1..durable' : written'[i] = b
<1>1. ASSUME NEW n \in Sizes, Output!AppendData(n)
      PROVE  OutputInv' /\ promise' = promise
  BY <1>1, AppendKeeps DEF Output!AppendData
<1>2. CASE Output!Flush
  BY <1>2, FlushKeeps, OutcomeIs DEF Output!Flush, Output!LeftInBuffer, Output!Refused, OutputInv
<1>3. CASE Output!SyncDirFails
  BY <1>3 DEF Output!SyncDirFails, Output!Refused, OutputInv, Held
<1>4. CASE Output!Sync
  <2>1. PICK flush \in Output!Outcomes(buf), synced \in BOOLEAN :
          /\ listed' = (listed \/ manifest)
          /\ written' = written \o flush.done /\ buf' = <<>>
          /\ IF flush.ok /\ synced
             THEN durable' = Len(written') /\ promise' = appended /\ refused' = refused
             ELSE refused' = appended /\ UNCHANGED <<durable, promise>>
    BY <1>4 DEF Output!Sync, Output!Flushed, Output!LeftInBuffer, Output!Refused
  <2>2. manifest' = manifest /\ appended' = appended
    BY <1>4 DEF Output!Sync
  <2>3. flush.ok \in BOOLEAN /\ (flush.ok => flush.done = buf)
    BY OutcomeIs DEF OutputInv
  <2>4. refused' = appended \/ (flush.ok /\ refused' = refused)
    BY <2>1, <2>3
  <2>5. OutputInv'
    BY <2>1, <2>2, <2>4, FlushKeeps
  <2>6. promise' # promise => written' = written \o buf /\ durable' = Len(written')
    BY <2>1, <2>3
  <2>7. Held(written \o buf, refused, appended)
    BY DEF OutputInv
  <2>8. promise' # promise => \A b \in (refused + 1)..appended : \E i \in 1..durable' : written'[i] = b
    BY <2>6, <2>7 DEF Held
  <2>. QED
    BY <2>1, <2>5, <2>8
<1>5. CASE Output!NewFile
  BY <1>5 DEF Output!NewFile, OutputInv
<1>. QED
  BY <1>1, <1>2, <1>3, <1>4, <1>5 DEF Output!Next

LEMMA OutputInOrder == OutputInv => Output!InOrder
<1> SUFFICES ASSUME OutputInv PROVE Output!InOrder
  OBVIOUS
<1>. DEFINE all == written \o buf
<1>1. Len(all) \in Nat /\ Rising(all, appended)
  BY LenProperties DEF OutputInv, Rising
<1>2. \A i \in 2..Len(all) : all[i - 1] < all[i]
  <2>1. TAKE i \in 2..Len(all)
  <2>2. i \in 1..Len(all) /\ i - 1 \in 1..Len(all) /\ i - 1 < i
    BY <1>1
  <2>. HIDE DEF all
  <2>. QED
    BY <1>1, <2>2 DEF Rising
<1>3. all \in Seq(Nat) /\ Held(all, refused, appended)
  BY <1>1 DEF OutputInv, Rising
<1>4. Output!HoldsSinceError(all)
  <2>. HIDE DEF all
  <2>1. DOMAIN all = 1..Len(all)
    BY <1>3, LenProperties
  <2>. QED
    BY <1>3, <2>1 DEF Held, Output!HoldsSinceError
<1>. QED
  BY <1>2, <1>4 DEF Output!InOrder

----------------------------------------------------------------------------
(* CurrentFile. *)

AllNames == {"CURRENT", "MANIFEST", "dbtmp"} \X Nat
Dirs == UNION {[N -> Nat] : N \in SUBSET AllNames}
AllFiles == [holds : Nat, seen : 0..2, safe : 0..2]
FileOf(d, entry, fs) == fs[d[entry]]

LEMMA NamesDiffer ==
  /\ Current!Current \in AllNames
  /\ \A n \in Nat : Current!Manifest(n) \in AllNames /\ Current!Temp(n) \in AllNames
  /\ \A n \in Nat : /\ Current!Manifest(n) # Current!Current
                    /\ Current!Temp(n) # Current!Current
  /\ \A n, m \in Nat : Current!Manifest(n) # Current!Temp(m)
  /\ \A n, m \in Nat : Current!Manifest(n) = Current!Manifest(m) => n = m
BY DEF AllNames, Current!Current, Current!Manifest, Current!Temp

\* The MANIFEST of a number is whole in a directory d of files fs, and durable
\* but for the first, which NewDB does not sync.
Whole(d, n, fs) ==
  /\ Current!Manifest(n) \in DOMAIN d
  /\ FileOf(d, Current!Manifest(n), fs).seen = 2
  /\ n # 1 => FileOf(d, Current!Manifest(n), fs).safe = 2

\* A directory that is durable, or seen, or may be what an outage leaves,
\* after o outages.
Sound(d, fs, o) ==
  /\ \A x \in DOMAIN d : d[x] \in DOMAIN fs
  /\ \A n \in Nat : Current!Manifest(n) \in DOMAIN d =>
       FileOf(d, Current!Manifest(n), fs).holds = n + 1
  /\ Current!Current \in DOMAIN d =>
       LET c == FileOf(d, Current!Current, fs)
       IN  c.safe = 2 /\ (Whole(d, c.holds, fs) \/ (c.holds = 1 /\ o > 0))

NewSteps == {"new", "install new", "new temp", "new written", "new synced"}
OldSteps == {"recovered", "snapshot", "edit", "sync", "install", "temp", "written", "synced"}
TempSteps == {"temp", "new temp", "written", "new written", "synced", "new synced"}

\* What the call that opens the database, and is at a step, knows of the
\* directory d it sees.
NewKnown(d, fs, at, n) ==
  at \in NewSteps =>
    /\ n = 1 /\ Current!Current \notin DOMAIN d /\ Current!Manifest(1) \in DOMAIN d
    /\ at # "new" => FileOf(d, Current!Manifest(1), fs).seen = 2
OldKnown(d, fs, at, n) ==
  at \in OldSteps =>
    /\ Current!Current \in DOMAIN d /\ n = FileOf(d, Current!Current, fs).holds + 1
    /\ at # "recovered" => Current!Manifest(n) \in DOMAIN d
    /\ at = "snapshot" => FileOf(d, Current!Manifest(n), fs).seen = 0
    /\ at = "sync" => FileOf(d, Current!Manifest(n), fs).seen = 2
    /\ at \in {"install", "temp", "written", "synced"} => Whole(d, n, fs)
TempKnown(d, fs, at, n) ==
  at \in TempSteps =>
    /\ Current!Temp(n) \in DOMAIN d /\ FileOf(d, Current!Temp(n), fs).holds = n
    /\ at \in {"written", "new written"} => FileOf(d, Current!Temp(n), fs).seen = 2
    /\ at \in {"synced", "new synced"} => FileOf(d, Current!Temp(n), fs).safe = 2
EndKnown(d, fs, at, n) ==
  at = "obsolete" => Current!Current \in DOMAIN d /\ n = FileOf(d, Current!Current, fs).holds
Known(d, fs, at, n) ==
  NewKnown(d, fs, at, n) /\ OldKnown(d, fs, at, n) /\ TempKnown(d, fs, at, n) /\ EndKnown(d, fs, at, n)

CurrentTyped ==
  /\ target \in Nat /\ outages \in Nat
  /\ data \in Seq(AllFiles) /\ \A f \in DOMAIN data : data[f].safe <= data[f].seen
  /\ journal \in Seq(Dirs) /\ journal # <<>>
AllSound == \A i \in 1..Len(journal) : Sound(journal[i], data, outages)
Seen == journal[Len(journal)]
CurrentInv == CurrentTyped /\ AllSound /\ Known(Seen, data, step, target)

LEMMA CurrentInit == Current!Init => CurrentInv
<1> SUFFICES ASSUME Current!Init PROVE CurrentInv
  OBVIOUS
<1>1. /\ journal = <<<<>>>> /\ data = <<>> /\ step = "closed" /\ target = 0 /\ outages = 0
  BY DEF Current!Init
<1>2. <<>> \in Dirs /\ DOMAIN <<>> = {}
  BY DEF Dirs
<1>3. /\ journal \in Seq(Dirs) /\ Len(journal) = 1 /\ journal[1] = <<>> /\ journal # <<>>
  BY <1>1, <1>2
<1>4. CurrentTyped
  BY <1>1, <1>3, EmptySeq DEF CurrentTyped
<1>5. AllSound
  BY <1>2, <1>3 DEF AllSound, Sound
<1>6. Known(Seen, data, step, target)
  BY <1>1 DEF Known, NewKnown, OldKnown, TempKnown, EndKnown, NewSteps, OldSteps, TempSteps
<1>. QED
  BY <1>4, <1>5, <1>6 DEF CurrentInv

\* What is seen.
LEMMA DirIs ==
  ASSUME CurrentInv
  PROVE  /\ Len(journal) \in Nat /\ Len(journal) >= 1 /\ Current!dir = Seen
         /\ Seen \in Dirs /\ Sound(Seen, data, outages)
<1>1. Len(journal) \in Nat /\ Len(journal) >= 1 /\ Seen \in Dirs
  BY EmptySeq, LenProperties DEF CurrentInv, CurrentTyped, Seen
<1>. QED
  BY <1>1 DEF CurrentInv, AllSound, Seen, Current!dir, Current!Last

\* CURRENT holds a number.
LEMMA HoldsNumber ==
  ASSUME CurrentInv
  PROVE  \A x \in DOMAIN Seen : /\ Seen[x] \in DOMAIN data /\ FileOf(Seen, x, data) \in AllFiles
                                /\ FileOf(Seen, x, data).holds \in Nat
                                /\ FileOf(Seen, x, data).safe <= FileOf(Seen, x, data).seen
<1>1. data \in [1..Len(data) -> AllFiles] /\ \A f \in DOMAIN data : data[f].safe <= data[f].seen
  BY LenProperties DEF CurrentInv, CurrentTyped
<1>2. \A x \in DOMAIN Seen : Seen[x] \in DOMAIN data
  BY DirIs DEF Sound
<1>3. \A x \in DOMAIN Seen : FileOf(Seen, x, data) \in AllFiles
  BY <1>1, <1>2 DEF FileOf
<1>4. \A f \in AllFiles : f.holds \in Nat
  BY DEF AllFiles
<1>. QED
  BY <1>1, <1>2, <1>3, <1>4 DEF FileOf

LEMMA DirChanges ==
  ASSUME NEW d \in Dirs, NEW entry \in AllNames, NEW f \in Nat
  PROVE  /\ Current!With(d, entry, f) \in Dirs /\ Current!Without(d, entry) \in Dirs
         /\ DOMAIN Current!With(d, entry, f) = DOMAIN d \cup {entry}
         /\ Current!With(d, entry, f)[entry] = f
         /\ \A x \in DOMAIN d \ {entry} : Current!With(d, entry, f)[x] = d[x]
         /\ DOMAIN Current!Without(d, entry) = DOMAIN d \ {entry}
         /\ \A x \in DOMAIN d \ {entry} : Current!Without(d, entry)[x] = d[x]
<1>1. PICK N \in SUBSET AllNames : d \in [N -> Nat]
  BY DEF Dirs
<1>2. Current!With(d, entry, f) \in [N \cup {entry} -> Nat]
  BY <1>1 DEF Current!With
<1>3. Current!Without(d, entry) \in [N \ {entry} -> Nat]
  BY <1>1 DEF Current!Without
<1>4. N \cup {entry} \in SUBSET AllNames /\ N \ {entry} \in SUBSET AllNames
  BY <1>1
<1>5. Current!With(d, entry, f) \in Dirs /\ Current!Without(d, entry) \in Dirs
  BY <1>2, <1>3, <1>4 DEF Dirs
<1>. QED
  BY <1>1, <1>5 DEF Current!With, Current!Without

\* Files keep what they hold; what was whole, or durable, stays so.
Grows(fs, more) ==
  \A f \in DOMAIN fs :
    /\ f \in DOMAIN more /\ more[f].holds = fs[f].holds
    /\ fs[f].seen = 2 => more[f].seen = 2
    /\ fs[f].safe = 2 => more[f].safe = 2

LEMMA SoundStays ==
  ASSUME NEW d, NEW fs, NEW more, NEW o \in Nat, NEW p \in Nat,
         Sound(d, fs, o), Grows(fs, more), p >= o
  PROVE  Sound(d, more, p)
BY DEF Sound, Whole, Grows, FileOf

LEMMA WholeStays ==
  ASSUME NEW d, NEW fs, NEW more, NEW o, Sound(d, fs, o), Grows(fs, more), NEW n, Whole(d, n, fs)
  PROVE  Whole(d, n, more)
BY DEF Sound, Whole, Grows, FileOf

\* A file is made, one grows, or none changes.
LEMMA FilesGrow ==
  ASSUME CurrentTyped
  PROVE  /\ Grows(data, data)
         /\ \A f \in AllFiles : /\ Append(data, f) \in Seq(AllFiles) /\ Grows(data, Append(data, f))
                                /\ Len(data) + 1 \in DOMAIN Append(data, f)
                                /\ Append(data, f)[Len(data) + 1] = f
                                /\ DOMAIN Append(data, f) = DOMAIN data \cup {Len(data) + 1}
                                /\ \A g \in DOMAIN data : Append(data, f)[g] = data[g]
                                /\ Len(data) + 1 \in Nat /\ Len(data) + 1 \notin DOMAIN data
<1>1. data \in Seq(AllFiles) /\ Len(data) \in Nat /\ DOMAIN data = 1..Len(data)
  BY LenProperties DEF CurrentTyped
<1>2. Grows(data, data)
  BY DEF Grows
<1>3. ASSUME NEW f \in AllFiles
      PROVE  /\ Append(data, f) \in Seq(AllFiles) /\ Len(Append(data, f)) = Len(data) + 1
             /\ \A g \in 1..Len(data) : Append(data, f)[g] = data[g]
             /\ Append(data, f)[Len(data) + 1] = f
             /\ DOMAIN Append(data, f) = 1..(Len(data) + 1)
  BY <1>1, AppendProperties, LenProperties
<1>4. 1..(Len(data) + 1) = (1..Len(data)) \cup {Len(data) + 1} /\ Len(data) + 1 \notin 1..Len(data)
  BY <1>1
<1>. QED
  BY <1>1, <1>2, <1>3, <1>4 DEF Grows

\* The journal with one more directory.
LEMMA JournalGrows ==
  ASSUME CurrentInv, NEW d \in Dirs, journal' = Append(journal, d), Grows(data, data'),
         outages' = outages, Sound(d, data', outages')
  PROVE  journal' \in Seq(Dirs) /\ journal' # <<>> /\ AllSound' /\ Seen' = d
<1>1. journal \in Seq(Dirs) /\ Len(journal) \in Nat /\ outages \in Nat
  BY LenProperties DEF CurrentInv, CurrentTyped
<1>2. /\ journal' \in Seq(Dirs) /\ Len(journal') = Len(journal) + 1 /\ journal' # <<>>
      /\ \A i \in 1..Len(journal) : journal'[i] = journal[i]
      /\ journal'[Len(journal) + 1] = d
  BY <1>1, AppendProperties
<1>3. ASSUME NEW i \in 1..Len(journal') PROVE Sound(journal'[i], data', outages')
  <2>1. CASE i = Len(journal) + 1
    BY <1>2, <2>1
  <2>2. CASE i \in 1..Len(journal)
    <3>1. Sound(journal[i], data, outages)
      BY <2>2 DEF CurrentInv, AllSound
    <3>2. Sound(journal[i], data', outages')
      BY <1>1, <3>1, SoundStays
    <3>. QED
      BY <1>2, <2>2, <3>2
  <2>. QED
    BY <1>1, <1>2, <2>1, <2>2
<1>. QED
  BY <1>2, <1>3 DEF AllSound, Seen

LEMMA JournalStays ==
  ASSUME CurrentInv, journal' = journal, Grows(data, data'), outages' = outages
  PROVE  journal' \in Seq(Dirs) /\ journal' # <<>> /\ AllSound' /\ Seen' = Seen
<1>1. \A i \in 1..Len(journal) : Sound(journal[i], data', outages')
  BY SoundStays DEF CurrentInv, CurrentTyped, AllSound
<1>. QED
  BY <1>1 DEF CurrentInv, CurrentTyped, AllSound, Seen

\* The directory is made durable as it is seen.
LEMMA JournalEnds ==
  ASSUME CurrentInv, NEW d \in Dirs, journal' = <<d>>, Sound(d, data', outages')
  PROVE  journal' \in Seq(Dirs) /\ journal' # <<>> /\ AllSound' /\ Seen' = d
<1>1. journal' \in Seq(Dirs) /\ Len(journal') = 1 /\ journal'[1] = d /\ journal' # <<>>
  OBVIOUS
<1>. QED
  BY <1>1 DEF AllSound, Seen

\* A directory in which a file was made, or one was removed that CURRENT does
\* not lead to.
LEMMA SoundWith ==
  ASSUME NEW d \in Dirs, NEW fs, NEW o, Sound(d, fs, o), NEW entry \in AllNames, NEW f \in Nat,
         f \in DOMAIN fs, entry # Current!Current,
         \A n \in Nat : entry = Current!Manifest(n) => fs[f].holds = n + 1,
         Current!Current \in DOMAIN d =>
           entry # Current!Manifest(FileOf(d, Current!Current, fs).holds)
  PROVE  Sound(Current!With(d, entry, f), fs, o)
<1>. DEFINE e == Current!With(d, entry, f)
<1>1. /\ DOMAIN e = DOMAIN d \cup {entry} /\ e[entry] = f
      /\ \A x \in DOMAIN d \ {entry} : e[x] = d[x]
  <2>1. d \in Dirs /\ entry \in AllNames /\ f \in Nat
    OBVIOUS
  <2>. QED
    BY <2>1 DEF e, Current!With
<1>. HIDE DEF e
<1>2. \A x \in DOMAIN e : e[x] \in DOMAIN fs
  BY <1>1 DEF Sound
<1>3. ASSUME NEW n \in Nat, Current!Manifest(n) \in DOMAIN e
      PROVE  FileOf(e, Current!Manifest(n), fs).holds = n + 1
  BY <1>1, <1>3 DEF Sound, FileOf
<1>4. ASSUME Current!Current \in DOMAIN e
      PROVE  LET c == FileOf(e, Current!Current, fs)
             IN  c.safe = 2 /\ (Whole(e, c.holds, fs) \/ (c.holds = 1 /\ o > 0))
  <2>1. Current!Current \in DOMAIN d /\ FileOf(e, Current!Current, fs) = FileOf(d, Current!Current, fs)
    BY <1>1, <1>4 DEF FileOf
  <2>2. ASSUME NEW n, entry # Current!Manifest(n), Whole(d, n, fs) PROVE Whole(e, n, fs)
    BY <1>1, <2>2 DEF Whole, FileOf
  <2>. QED
    BY <2>1, <2>2 DEF Sound
<1>. QED
  BY <1>2, <1>3, <1>4 DEF Sound, e

LEMMA SoundWithout ==
  ASSUME NEW d \in Dirs, NEW fs, NEW o, Sound(d, fs, o), NEW entry \in AllNames,
         entry # Current!Current,
         Current!Current \in DOMAIN d =>
           entry # Current!Manifest(FileOf(d, Current!Current, fs).holds)
  PROVE  Sound(Current!Without(d, entry), fs, o)
<1>. DEFINE e == Current!Without(d, entry)
<1>1. /\ DOMAIN e = DOMAIN d \ {entry}
      /\ \A x \in DOMAIN d \ {entry} : e[x] = d[x]
  BY DirChanges, 0 \in Nat
<1>. HIDE DEF e
<1>2. \A x \in DOMAIN e : e[x] \in DOMAIN fs
  BY <1>1 DEF Sound
<1>3. ASSUME NEW n \in Nat, Current!Manifest(n) \in DOMAIN e
      PROVE  FileOf(e, Current!Manifest(n), fs).holds = n + 1
  BY <1>1, <1>3 DEF Sound, FileOf
<1>4. ASSUME Current!Current \in DOMAIN e
      PROVE  LET c == FileOf(e, Current!Current, fs)
             IN  c.safe = 2 /\ (Whole(e, c.holds, fs) \/ (c.holds = 1 /\ o > 0))
  <2>1. Current!Current \in DOMAIN d /\ FileOf(e, Current!Current, fs) = FileOf(d, Current!Current, fs)
    BY <1>1, <1>4 DEF FileOf
  <2>2. ASSUME NEW n, entry # Current!Manifest(n), Whole(d, n, fs) PROVE Whole(e, n, fs)
    BY <1>1, <2>2 DEF Whole, FileOf
  <2>. QED
    BY <2>1, <2>2 DEF Sound
<1>. QED
  BY <1>2, <1>3, <1>4 DEF Sound, e

\* Bytes are written, or made durable.
LEMMA WriteGrows ==
  ASSUME CurrentTyped, NEW x \in DOMAIN data, NEW how \in {1, 2}, how = 2 \/ data[x].seen = 0,
         data' = [data EXCEPT ![x].seen = how]
  PROVE  /\ data' \in Seq(AllFiles) /\ DOMAIN data' = DOMAIN data /\ Grows(data, data')
         /\ \A f \in DOMAIN data' : data'[f].safe <= data'[f].seen
         /\ \A f \in DOMAIN data : data'[f].holds = data[f].holds /\ data'[f].safe = data[f].safe
         /\ data'[x].seen = how
<1>1. data \in Seq(AllFiles) /\ data \in [1..Len(data) -> AllFiles] /\ Len(data) \in Nat
  BY LenProperties DEF CurrentTyped
<1>2. data[x] \in AllFiles /\ data[x].safe <= data[x].seen
  BY <1>1 DEF CurrentTyped
<1>3. [data[x] EXCEPT !.seen = how] \in AllFiles
  BY <1>2 DEF AllFiles
<1>4. data' \in [1..Len(data) -> AllFiles] /\ DOMAIN data' = DOMAIN data
  BY <1>1, <1>3
<1>5. /\ data'[x] = [data[x] EXCEPT !.seen = how]
      /\ \A f \in DOMAIN data \ {x} : data'[f] = data[f]
  BY <1>1
<1>6. data'[x].holds = data[x].holds /\ data'[x].safe = data[x].safe /\ data'[x].seen = how
  BY <1>2, <1>5 DEF AllFiles
<1>7. data'[x].safe <= data'[x].seen
  BY <1>2, <1>6 DEF AllFiles
<1>8. \A f \in DOMAIN data' : data'[f].safe <= data'[f].seen
  BY <1>4, <1>5, <1>7 DEF CurrentTyped
<1>9. Grows(data, data')
  BY <1>4, <1>5, <1>6 DEF Grows
<1>. QED
  BY <1>1, <1>4, <1>5, <1>6, <1>8, <1>9

LEMMA SyncGrows ==
  ASSUME CurrentTyped, NEW x \in DOMAIN data, data' = [data EXCEPT ![x].safe = data[x].seen]
  PROVE  /\ data' \in Seq(AllFiles) /\ DOMAIN data' = DOMAIN data /\ Grows(data, data')
         /\ \A f \in DOMAIN data' : data'[f].safe <= data'[f].seen
         /\ \A f \in DOMAIN data : data'[f].holds = data[f].holds /\ data'[f].seen = data[f].seen
         /\ data'[x].safe = data[x].seen
<1>1. data \in Seq(AllFiles) /\ data \in [1..Len(data) -> AllFiles] /\ Len(data) \in Nat
  BY LenProperties DEF CurrentTyped
<1>2. data[x] \in AllFiles /\ data[x].safe <= data[x].seen
  BY <1>1 DEF CurrentTyped
<1>3. [data[x] EXCEPT !.safe = data[x].seen] \in AllFiles
  BY <1>2 DEF AllFiles
<1>4. data' \in [1..Len(data) -> AllFiles] /\ DOMAIN data' = DOMAIN data
  BY <1>1, <1>3
<1>5. /\ data'[x] = [data[x] EXCEPT !.safe = data[x].seen]
      /\ \A f \in DOMAIN data \ {x} : data'[f] = data[f]
  BY <1>1
<1>6. data'[x].holds = data[x].holds /\ data'[x].seen = data[x].seen /\ data'[x].safe = data[x].seen
  BY <1>2, <1>5 DEF AllFiles
<1>7. data'[x].safe <= data'[x].seen /\ (data[x].safe = 2 => data'[x].safe = 2)
  BY <1>2, <1>6 DEF AllFiles
<1>8. \A f \in DOMAIN data' : data'[f].safe <= data'[f].seen
  BY <1>4, <1>5, <1>7 DEF CurrentTyped
<1>9. Grows(data, data')
  BY <1>4, <1>5, <1>6, <1>7 DEF Grows
<1>. QED
  BY <1>1, <1>4, <1>5, <1>6, <1>8, <1>9

\* A file is made in the directory, under a name that CURRENT does not lead to.
LEMMA NewFileKeeps ==
  ASSUME CurrentInv, NEW entry \in AllNames, NEW holds \in Nat, outages' = outages,
         Current!NewWritableFile(entry, holds), entry # Current!Current,
         \A n \in Nat : entry = Current!Manifest(n) => holds = n + 1,
         Current!Current \in DOMAIN Seen =>
           entry # Current!Manifest(FileOf(Seen, Current!Current, data).holds)
  PROVE  /\ journal' \in Seq(Dirs) /\ journal' # <<>> /\ AllSound'
         /\ data' \in Seq(AllFiles) /\ \A f \in DOMAIN data' : data'[f].safe <= data'[f].seen
         /\ DOMAIN Seen' = DOMAIN Seen \cup {entry}
         /\ FileOf(Seen', entry, data') = [holds |-> holds, seen |-> 0, safe |-> 0]
         /\ \A x \in DOMAIN Seen \ {entry} : FileOf(Seen', x, data') = FileOf(Seen, x, data)
<1>. DEFINE f == Len(data) + 1
            new == [holds |-> holds, seen |-> 0, safe |-> 0]
            e == Current!With(Seen, entry, f)
<1>1. journal' = Append(journal, e) /\ data' = Append(data, new)
  BY DirIs DEF Current!NewWritableFile, Current!Empty
<1>2. new \in AllFiles
  BY DEF AllFiles
<1>3. /\ data' \in Seq(AllFiles) /\ Grows(data, data')
      /\ DOMAIN data' = DOMAIN data \cup {f} /\ data'[f] = new /\ f \in Nat
      /\ \A g \in DOMAIN data : data'[g] = data[g]
  BY <1>1, <1>2, FilesGrow DEF CurrentInv
<1>. HIDE DEF new, f
<1>4. Seen \in Dirs /\ Sound(Seen, data, outages) /\ outages \in Nat
  BY DirIs DEF CurrentInv, CurrentTyped
<1>5. Sound(Seen, data', outages)
  BY <1>3, <1>4, SoundStays
<1>6. Current!Current \in DOMAIN Seen =>
        FileOf(Seen, Current!Current, data') = FileOf(Seen, Current!Current, data)
  BY <1>3, <1>4 DEF FileOf, Sound
<1>7. data'[f].holds = holds
  BY <1>3 DEF new
<1>8. e \in Dirs
  <2>1. \A d \in Dirs, m \in Nat : Current!With(d, entry, m) \in Dirs
    BY DirChanges
  <2>. QED
    BY <1>3, <1>4, <2>1
<1>9. Sound(e, data', outages')
  BY <1>3, <1>4, <1>5, <1>6, <1>7, SoundWith
<1>10. /\ journal' \in Seq(Dirs) /\ journal' # <<>> /\ AllSound' /\ Seen' = e
  BY <1>1, <1>3, <1>8, <1>9, JournalGrows
<1>11. /\ DOMAIN e = DOMAIN Seen \cup {entry} /\ e[entry] = f
       /\ \A x \in DOMAIN Seen \ {entry} : e[x] = Seen[x]
  BY <1>4 DEF Current!With
<1>12. \A g \in DOMAIN data' : data'[g].safe <= data'[g].seen
  BY <1>3 DEF CurrentInv, CurrentTyped, new
<1>. HIDE DEF e
<1>13. FileOf(Seen', entry, data') = new
  BY <1>3, <1>10, <1>11 DEF FileOf
<1>14. \A x \in DOMAIN Seen \ {entry} : FileOf(Seen', x, data') = FileOf(Seen, x, data)
  BY <1>3, <1>4, <1>10, <1>11 DEF FileOf, Sound
<1>. QED
  BY <1>3, <1>10, <1>11, <1>12, <1>13, <1>14 DEF new

\* One is removed.
LEMMA RemoveKeeps ==
  ASSUME CurrentInv, NEW entry \in AllNames, outages' = outages, data' = data,
         Current!RemoveFile(entry), entry # Current!Current,
         Current!Current \in DOMAIN Seen =>
           entry # Current!Manifest(FileOf(Seen, Current!Current, data).holds)
  PROVE  /\ journal' \in Seq(Dirs) /\ journal' # <<>> /\ AllSound'
         /\ DOMAIN Seen' = DOMAIN Seen \ {entry}
         /\ \A x \in DOMAIN Seen \ {entry} : FileOf(Seen', x, data') = FileOf(Seen, x, data)
<1>1. Seen \in Dirs /\ Sound(Seen, data, outages) /\ outages \in Nat /\ Grows(data, data')
  BY DirIs, FilesGrow DEF CurrentInv, CurrentTyped
<1>2. CASE entry \in DOMAIN Seen
  <2>. DEFINE e == Current!Without(Seen, entry)
  <2>1. journal' = Append(journal, e)
    BY <1>2, DirIs DEF Current!RemoveFile, Current!Has
  <2>2. e \in Dirs /\ DOMAIN e = DOMAIN Seen \ {entry} /\ \A x \in DOMAIN Seen \ {entry} : e[x] = Seen[x]
    <3>1. \A d \in Dirs : Current!Without(d, entry) \in Dirs
      BY DirChanges, 0 \in Nat
    <3>. QED
      BY <1>1, <3>1 DEF Current!Without
  <2>3. Sound(e, data', outages')
    BY <1>1, SoundWithout
  <2>4. journal' \in Seq(Dirs) /\ journal' # <<>> /\ AllSound' /\ Seen' = e
    BY <1>1, <2>1, <2>2, <2>3, JournalGrows
  <2>. QED
    BY <2>2, <2>4 DEF FileOf
<1>3. CASE entry \notin DOMAIN Seen
  <2>1. journal' = journal
    BY <1>3, DirIs DEF Current!RemoveFile, Current!Has
  <2>. QED
    BY <1>1, <1>3, <2>1, JournalStays DEF FileOf
<1>. QED
  BY <1>2, <1>3

\* Nothing but the step changes, and what is known at the new one was known.
LEMMA StepKeeps ==
  ASSUME CurrentInv, UNCHANGED <<journal, data, outages>>, target' \in Nat,
         Known(Seen, data, step', target')
  PROVE  CurrentInv'
<1>1. Grows(data, data')
  BY FilesGrow DEF CurrentInv
<1>2. journal' \in Seq(Dirs) /\ journal' # <<>> /\ AllSound' /\ Seen' = Seen
  BY <1>1, JournalStays
<1>3. CurrentTyped'
  BY <1>2 DEF CurrentInv, CurrentTyped
<1>. QED
  BY <1>2, <1>3 DEF CurrentInv

LEMMA KnownClosed == \A d, fs, n : Known(d, fs, "closed", n) /\ Known(d, fs, "made", n)
BY DEF Known, NewKnown, OldKnown, TempKnown, EndKnown, NewSteps, OldSteps, TempSteps

LEMMA RecoverKeeps == CurrentInv /\ Current!Recover => CurrentInv'
<1> SUFFICES ASSUME CurrentInv, Current!Recover PROVE CurrentInv'
  OBVIOUS
<1>. DEFINE n == FileOf(Seen, Current!Current, data).holds
<1>1. /\ Current!Current \in DOMAIN Seen /\ Current!Manifest(n) \in DOMAIN Seen
      /\ target' = FileOf(Seen, Current!Manifest(n), data).holds
      /\ step' = "recovered" /\ UNCHANGED <<journal, data, outages>>
  BY DirIs, Zenon DEF Current!Recover, Current!Readable, Current!NextFile, Current!Has, Current!ReadFile, Current!Goes,
                FileOf
<1>2. n \in Nat
  BY <1>1, HoldsNumber
<1>3. target' = n + 1
  BY <1>1, <1>2, DirIs DEF Sound
<1>4. Known(Seen, data, step', target')
  BY <1>1, <1>3 DEF Known, NewKnown, OldKnown, TempKnown, EndKnown, NewSteps, OldSteps, TempSteps
<1>. QED
  BY <1>1, <1>2, <1>3, <1>4, StepKeeps

LEMMA KillKeeps == CurrentInv /\ Current!Kill => CurrentInv'
BY KnownClosed, StepKeeps DEF Current!Kill, Current!Goes, Current!Opening, CurrentInv, CurrentTyped

LEMMA NewDBKeeps == CurrentInv /\ Current!NewDB => CurrentInv'
<1> SUFFICES ASSUME CurrentInv, Current!NewDB PROVE CurrentInv'
  OBVIOUS
<1>1. /\ Current!Current \notin DOMAIN Seen /\ target' = 1 /\ step' = "new" /\ outages' = outages
      /\ Current!NewWritableFile(Current!Manifest(1), 2)
  BY DirIs DEF Current!NewDB, Current!Goes, Current!Has
<1>2. /\ Current!Manifest(1) \in AllNames /\ Current!Manifest(1) # Current!Current
      /\ \A n \in Nat : Current!Manifest(1) = Current!Manifest(n) => 2 = n + 1
  BY NamesDiffer
<1>3. /\ journal' \in Seq(Dirs) /\ journal' # <<>> /\ AllSound'
      /\ data' \in Seq(AllFiles) /\ \A f \in DOMAIN data' : data'[f].safe <= data'[f].seen
      /\ DOMAIN Seen' = DOMAIN Seen \cup {Current!Manifest(1)}
  BY <1>1, <1>2, NewFileKeeps
<1>4. CurrentTyped'
  BY <1>1, <1>3 DEF CurrentInv, CurrentTyped
<1>5. Known(Seen', data', step', target')
  BY <1>1, <1>2, <1>3 DEF Known, NewKnown, OldKnown, TempKnown, EndKnown, NewSteps, OldSteps, TempSteps
<1>. QED
  BY <1>3, <1>4, <1>5 DEF CurrentInv

LEMMA NewManifestKeeps == CurrentInv /\ Current!NewManifest => CurrentInv'
<1> SUFFICES ASSUME CurrentInv, Current!NewManifest PROVE CurrentInv'
  OBVIOUS
<1>. DEFINE m == Current!Manifest(target)
<1>1. /\ step = "recovered" /\ target' = target /\ step' = "snapshot" /\ outages' = outages
      /\ Current!NewWritableFile(m, target + 1)
  BY DEF Current!NewManifest, Current!Goes, Current!Opening
<1>2. /\ m \in AllNames /\ m # Current!Current /\ target \in Nat
      /\ \A n \in Nat : m = Current!Manifest(n) => target + 1 = n + 1
  BY NamesDiffer DEF CurrentInv, CurrentTyped
<1>3. Current!Current \in DOMAIN Seen /\ target = FileOf(Seen, Current!Current, data).holds + 1
  BY <1>1 DEF CurrentInv, Known, OldKnown, OldSteps
<1>4. FileOf(Seen, Current!Current, data).holds \in Nat
  BY <1>3, HoldsNumber
<1>5. m # Current!Manifest(FileOf(Seen, Current!Current, data).holds)
  BY <1>2, <1>3, <1>4, NamesDiffer
<1>. HIDE DEF m
<1>6. /\ journal' \in Seq(Dirs) /\ journal' # <<>> /\ AllSound'
      /\ data' \in Seq(AllFiles) /\ \A f \in DOMAIN data' : data'[f].safe <= data'[f].seen
      /\ DOMAIN Seen' = DOMAIN Seen \cup {m}
      /\ FileOf(Seen', m, data') = [holds |-> target + 1, seen |-> 0, safe |-> 0]
      /\ \A x \in DOMAIN Seen \ {m} : FileOf(Seen', x, data') = FileOf(Seen, x, data)
  BY <1>1, <1>2, <1>5, NewFileKeeps, target + 1 \in Nat
<1>7. CurrentTyped'
  BY <1>1, <1>6 DEF CurrentInv, CurrentTyped
<1>8. FileOf(Seen', m, data').seen = 0
  BY <1>6
<1>9. FileOf(Seen', Current!Current, data') = FileOf(Seen, Current!Current, data)
  BY <1>2, <1>3, <1>6
<1>10. Known(Seen', data', step', target')
  BY <1>1, <1>3, <1>6, <1>8, <1>9
     DEF m, Known, NewKnown, OldKnown, TempKnown, EndKnown, NewSteps, OldSteps, TempSteps
<1>. QED
  BY <1>6, <1>7, <1>10 DEF CurrentInv

\* SetCurrentFile makes its temporary file.
LEMMA MakeTempKeeps == CurrentInv /\ Current!MakeTemp => CurrentInv'
<1> SUFFICES ASSUME CurrentInv, Current!MakeTemp PROVE CurrentInv'
  OBVIOUS
<1>. DEFINE t == Current!Temp(target)
            m == Current!Manifest(target)
<1>1. /\ \/ step = "install" /\ step' = "temp"
         \/ step = "install new" /\ step' = "new temp"
      /\ target' = target /\ outages' = outages
      /\ Current!NewWritableFile(t, target)
  BY DEF Current!MakeTemp, Current!Installing, Current!Goes, Current!Opening
<1>2. /\ t \in AllNames /\ t # Current!Current /\ target \in Nat /\ m # t /\ 1 \in Nat
      /\ Current!Manifest(1) # t
      /\ \A n \in Nat : t # Current!Manifest(n)
  BY NamesDiffer DEF CurrentInv, CurrentTyped
<1>3. Current!Current \in DOMAIN Seen => t # Current!Manifest(FileOf(Seen, Current!Current, data).holds)
  <2>1. Current!Current \in DOMAIN Seen => FileOf(Seen, Current!Current, data).holds \in Nat
    BY HoldsNumber
  <2>. QED
    BY <1>2, <2>1
<1>. HIDE DEF t, m
<1>4. /\ journal' \in Seq(Dirs) /\ journal' # <<>> /\ AllSound'
      /\ data' \in Seq(AllFiles) /\ \A f \in DOMAIN data' : data'[f].safe <= data'[f].seen
      /\ DOMAIN Seen' = DOMAIN Seen \cup {t}
      /\ FileOf(Seen', t, data') = [holds |-> target, seen |-> 0, safe |-> 0]
      /\ \A x \in DOMAIN Seen \ {t} : FileOf(Seen', x, data') = FileOf(Seen, x, data)
  BY <1>1, <1>2, <1>3, NewFileKeeps
<1>5. CurrentTyped'
  BY <1>1, <1>4 DEF CurrentInv, CurrentTyped
<1>6. TempKnown(Seen', data', step', target')
  <2>1. FileOf(Seen', t, data').holds = target
    BY <1>4
  <2>. QED
    BY <1>1, <1>4, <2>1 DEF t, TempKnown
<1>7. CASE step = "install"
  <2>1. /\ Current!Current \in DOMAIN Seen /\ target = FileOf(Seen, Current!Current, data).holds + 1
        /\ m \in DOMAIN Seen /\ Whole(Seen, target, data)
    BY <1>7 DEF CurrentInv, Known, OldKnown, OldSteps, m
  <2>2. FileOf(Seen', Current!Current, data') = FileOf(Seen, Current!Current, data)
    BY <1>2, <1>4, <2>1
  <2>3. FileOf(Seen', m, data') = FileOf(Seen, m, data)
    BY <1>2, <1>4, <2>1
  <2>4. Whole(Seen', target, data') /\ m \in DOMAIN Seen' /\ Current!Current \in DOMAIN Seen'
    BY <1>4, <2>1, <2>3 DEF Whole, m
  <2>5. OldKnown(Seen', data', step', target')
    BY <1>1, <1>7, <2>1, <2>2, <2>4 DEF OldKnown, m
  <2>6. NewKnown(Seen', data', step', target') /\ EndKnown(Seen', data', step', target')
    BY <1>1, <1>7 DEF NewKnown, EndKnown, NewSteps
  <2>. QED
    BY <1>4, <1>5, <1>6, <2>5, <2>6 DEF CurrentInv, Known
<1>8. CASE step = "install new"
  <2>. DEFINE m1 == Current!Manifest(1)
  <2>1. /\ Current!Current \notin DOMAIN Seen /\ target = 1
        /\ m1 \in DOMAIN Seen /\ FileOf(Seen, m1, data).seen = 2
    BY <1>8 DEF CurrentInv, Known, NewKnown, NewSteps
  <2>2. FileOf(Seen', m1, data') = FileOf(Seen, m1, data)
    BY <1>2, <1>4, <2>1
  <2>3. m1 \in DOMAIN Seen' /\ Current!Current \notin DOMAIN Seen'
    BY <1>2, <1>4, <2>1
  <2>. HIDE DEF m1
  <2>5. NewKnown(Seen', data', step', target')
    BY <1>1, <1>8, <2>1, <2>2, <2>3 DEF NewKnown, m1
  <2>6. OldKnown(Seen', data', step', target') /\ EndKnown(Seen', data', step', target')
    BY <1>1, <1>8 DEF OldKnown, EndKnown, OldSteps
  <2>. QED
    BY <1>4, <1>5, <1>6, <2>5, <2>6 DEF CurrentInv, Known
<1>. QED
  BY <1>1, <1>7, <1>8

\* Bytes are written to a file that is seen.
LEMMA WritesKeep ==
  ASSUME CurrentInv, NEW entry \in DOMAIN Seen, NEW how \in {1, 2}, Current!Writes(entry, how),
         how = 2 \/ FileOf(Seen, entry, data).seen = 0, UNCHANGED <<target, outages>>
  PROVE  /\ CurrentTyped' /\ AllSound' /\ Seen' = Seen /\ Grows(data, data')
         /\ FileOf(Seen, entry, data').seen = how
         /\ \A x \in DOMAIN Seen : /\ FileOf(Seen, x, data').holds = FileOf(Seen, x, data).holds
                                   /\ FileOf(Seen, x, data').safe = FileOf(Seen, x, data).safe
                                   /\ FileOf(Seen, x, data).seen = 2 => FileOf(Seen, x, data').seen = 2
<1>1. journal' = journal /\ data' = [data EXCEPT ![Seen[entry]].seen = how]
  BY DirIs DEF Current!Writes
<1>2. \A x \in DOMAIN Seen : Seen[x] \in DOMAIN data
  BY HoldsNumber
<1>3. /\ data' \in Seq(AllFiles) /\ Grows(data, data')
      /\ \A f \in DOMAIN data' : data'[f].safe <= data'[f].seen
      /\ \A f \in DOMAIN data : data'[f].holds = data[f].holds /\ data'[f].safe = data[f].safe
      /\ data'[Seen[entry]].seen = how
  <2>1. Seen[entry] \in DOMAIN data /\ (how = 2 \/ data[Seen[entry]].seen = 0) /\ CurrentTyped
    BY <1>2 DEF CurrentInv, FileOf
  <2>. QED
    BY <1>1, <2>1, WriteGrows
<1>4. journal' \in Seq(Dirs) /\ journal' # <<>> /\ AllSound' /\ Seen' = Seen
  BY <1>1, <1>3, JournalStays
<1>5. CurrentTyped'
  BY <1>3, <1>4 DEF CurrentInv, CurrentTyped
<1>. QED
  BY <1>2, <1>3, <1>4, <1>5 DEF FileOf, Grows

\* They are made durable, alone or with the directory.
LEMMA SyncsKeep ==
  ASSUME CurrentInv, NEW entry \in DOMAIN Seen, Current!SyncFile(entry),
         journal' = journal \/ journal' = <<Current!dir>>, UNCHANGED <<target, outages>>
  PROVE  /\ CurrentTyped' /\ AllSound' /\ Seen' = Seen /\ Grows(data, data')
         /\ FileOf(Seen, entry, data').safe = FileOf(Seen, entry, data).seen
         /\ \A x \in DOMAIN Seen : /\ FileOf(Seen, x, data').holds = FileOf(Seen, x, data).holds
                                   /\ FileOf(Seen, x, data').seen = FileOf(Seen, x, data).seen
<1>1. data' = [data EXCEPT ![Seen[entry]].safe = data[Seen[entry]].seen]
  BY DirIs DEF Current!SyncFile
<1>2. \A x \in DOMAIN Seen : Seen[x] \in DOMAIN data
  BY HoldsNumber
<1>3. /\ data' \in Seq(AllFiles) /\ Grows(data, data')
      /\ \A f \in DOMAIN data' : data'[f].safe <= data'[f].seen
      /\ \A f \in DOMAIN data : data'[f].holds = data[f].holds /\ data'[f].seen = data[f].seen
      /\ data'[Seen[entry]].safe = data[Seen[entry]].seen
  <2>1. Seen[entry] \in DOMAIN data /\ CurrentTyped
    BY <1>2 DEF CurrentInv
  <2>. QED
    BY <1>1, <2>1, SyncGrows
<1>4. journal' \in Seq(Dirs) /\ journal' # <<>> /\ AllSound' /\ Seen' = Seen
  <2>1. CASE journal' = journal
    BY <1>3, <2>1, JournalStays
  <2>2. CASE journal' = <<Current!dir>>
    <3>1. Sound(Seen, data', outages')
      BY <1>3, DirIs, SoundStays DEF CurrentInv, CurrentTyped
    <3>. QED
      BY <2>2, <3>1, DirIs, JournalEnds
  <2>. QED
    BY <2>1, <2>2
<1>5. CurrentTyped'
  BY <1>3, <1>4 DEF CurrentInv, CurrentTyped
<1>. QED
  BY <1>2, <1>3, <1>4, <1>5 DEF FileOf

LEMMA NewDBWritesKeeps == CurrentInv /\ Current!NewDBWrites => CurrentInv'
<1> SUFFICES ASSUME CurrentInv, Current!NewDBWrites PROVE CurrentInv'
  OBVIOUS
<1>. DEFINE m1 == Current!Manifest(1)
<1>1. /\ step = "new" /\ step' = "install new" /\ UNCHANGED <<target, outages>>
      /\ Current!Writes(m1, 2)
  BY DEF Current!NewDBWrites, Current!Goes, Current!Opening, Current!Whole
<1>2. target = 1 /\ Current!Current \notin DOMAIN Seen /\ m1 \in DOMAIN Seen
  BY <1>1 DEF CurrentInv, Known, NewKnown, NewSteps
<1>. HIDE DEF m1
<1>3. CurrentTyped' /\ AllSound' /\ Seen' = Seen /\ FileOf(Seen, m1, data').seen = 2
  BY <1>1, <1>2, WritesKeep
<1>4. Known(Seen', data', step', target')
  BY <1>1, <1>2, <1>3
     DEF m1, Known, NewKnown, OldKnown, TempKnown, EndKnown, NewSteps, OldSteps, TempSteps
<1>. QED
  BY <1>3, <1>4 DEF CurrentInv

LEMMA WriteSnapshotKeeps == CurrentInv /\ Current!WriteSnapshot => CurrentInv'
<1> SUFFICES ASSUME CurrentInv, Current!WriteSnapshot PROVE CurrentInv'
  OBVIOUS
<1>. DEFINE m == Current!Manifest(target)
<1>1. /\ step = "snapshot" /\ step' = "edit" /\ UNCHANGED <<target, outages>>
      /\ Current!Writes(m, 1)
  BY DEF Current!WriteSnapshot, Current!Goes, Current!Opening, Current!Part
<1>2. /\ Current!Current \in DOMAIN Seen /\ target = FileOf(Seen, Current!Current, data).holds + 1
      /\ m \in DOMAIN Seen /\ FileOf(Seen, m, data).seen = 0
  BY <1>1 DEF CurrentInv, Known, OldKnown, OldSteps
<1>. HIDE DEF m
<1>3. /\ CurrentTyped' /\ AllSound' /\ Seen' = Seen
      /\ \A x \in DOMAIN Seen : FileOf(Seen, x, data').holds = FileOf(Seen, x, data).holds
  BY <1>1, <1>2, WritesKeep, 1 \in {1, 2}
<1>4. Known(Seen', data', step', target')
  BY <1>1, <1>2, <1>3
     DEF m, Known, NewKnown, OldKnown, TempKnown, EndKnown, NewSteps, OldSteps, TempSteps
<1>. QED
  BY <1>3, <1>4 DEF CurrentInv

LEMMA WriteEditKeeps == CurrentInv /\ Current!WriteEdit => CurrentInv'
<1> SUFFICES ASSUME CurrentInv, Current!WriteEdit PROVE CurrentInv'
  OBVIOUS
<1>. DEFINE m == Current!Manifest(target)
<1>1. /\ step = "edit" /\ step' = "sync" /\ UNCHANGED <<target, outages>>
      /\ Current!Writes(m, 2)
  BY DEF Current!WriteEdit, Current!Goes, Current!Opening, Current!Whole
<1>2. /\ Current!Current \in DOMAIN Seen /\ target = FileOf(Seen, Current!Current, data).holds + 1
      /\ m \in DOMAIN Seen
  BY <1>1 DEF CurrentInv, Known, OldKnown, OldSteps
<1>. HIDE DEF m
<1>3. /\ CurrentTyped' /\ AllSound' /\ Seen' = Seen /\ FileOf(Seen, m, data').seen = 2
      /\ \A x \in DOMAIN Seen : FileOf(Seen, x, data').holds = FileOf(Seen, x, data).holds
  BY <1>1, <1>2, WritesKeep, 2 \in {1, 2}
<1>4. Known(Seen', data', step', target')
  BY <1>1, <1>2, <1>3
     DEF m, Known, NewKnown, OldKnown, TempKnown, EndKnown, NewSteps, OldSteps, TempSteps
<1>. QED
  BY <1>3, <1>4 DEF CurrentInv

LEMMA SyncManifestKeeps == CurrentInv /\ Current!SyncManifest => CurrentInv'
<1> SUFFICES ASSUME CurrentInv, Current!SyncManifest PROVE CurrentInv'
  OBVIOUS
<1>. DEFINE m == Current!Manifest(target)
<1>1. /\ step = "sync" /\ step' = "install" /\ UNCHANGED <<target, outages>>
      /\ journal' = <<Current!dir>> /\ Current!SyncFile(m)
  BY DEF Current!SyncManifest, Current!Goes, Current!Opening
<1>2. /\ Current!Current \in DOMAIN Seen /\ target = FileOf(Seen, Current!Current, data).holds + 1
      /\ m \in DOMAIN Seen /\ FileOf(Seen, m, data).seen = 2
  BY <1>1 DEF CurrentInv, Known, OldKnown, OldSteps
<1>. HIDE DEF m
<1>3. /\ CurrentTyped' /\ AllSound' /\ Seen' = Seen
      /\ FileOf(Seen, m, data').safe = 2 /\ FileOf(Seen, m, data').seen = 2
      /\ FileOf(Seen, Current!Current, data').holds = FileOf(Seen, Current!Current, data).holds
  BY <1>1, <1>2, SyncsKeep
<1>4. Whole(Seen', target', data')
  BY <1>1, <1>2, <1>3 DEF Whole, m
<1>5. Known(Seen', data', step', target')
  BY <1>1, <1>2, <1>3, <1>4
     DEF m, Known, NewKnown, OldKnown, TempKnown, EndKnown, NewSteps, OldSteps, TempSteps
<1>. QED
  BY <1>3, <1>5 DEF CurrentInv

\* The MANIFEST is left as it was when the temporary file is written or synced.
LEMMA InstallsKeep ==
  ASSUME CurrentInv, step \in TempSteps, step' \in TempSteps, step' \in NewSteps <=> step \in NewSteps,
         CurrentTyped', AllSound', Seen' = Seen, Grows(data, data'), target' = target,
         \A x \in DOMAIN Seen : /\ FileOf(Seen, x, data').holds = FileOf(Seen, x, data).holds
                                /\ FileOf(Seen, x, data).seen = 2 => FileOf(Seen, x, data').seen = 2,
         step' \in {"written", "new written"} => FileOf(Seen, Current!Temp(target), data').seen = 2,
         step' \in {"synced", "new synced"} => FileOf(Seen, Current!Temp(target), data').safe = 2
  PROVE  CurrentInv'
<1>1. Sound(Seen, data, outages)
  BY DirIs
<1>2. TempKnown(Seen', data', step', target')
  <2>1. Current!Temp(target) \in DOMAIN Seen /\ FileOf(Seen, Current!Temp(target), data).holds = target
    BY DEF CurrentInv, Known, TempKnown
  <2>. QED
    BY <2>1 DEF TempKnown
<1>3. CASE step \in OldSteps
  <2>1. /\ Current!Current \in DOMAIN Seen /\ target = FileOf(Seen, Current!Current, data).holds + 1
        /\ Current!Manifest(target) \in DOMAIN Seen /\ Whole(Seen, target, data)
    BY <1>3 DEF CurrentInv, Known, OldKnown, OldSteps, TempSteps
  <2>2. Whole(Seen, target, data')
    BY <1>1, <2>1, WholeStays
  <2>3. step' \in {"temp", "written", "synced"}
    BY <1>3 DEF OldSteps, NewSteps, TempSteps
  <2>. QED
    BY <1>2, <2>1, <2>2, <2>3 DEF CurrentInv, Known, NewKnown, OldKnown, EndKnown, OldSteps, NewSteps
<1>4. CASE step \in NewSteps
  <2>1. /\ Current!Current \notin DOMAIN Seen /\ target = 1
        /\ Current!Manifest(1) \in DOMAIN Seen /\ FileOf(Seen, Current!Manifest(1), data).seen = 2
    BY <1>4 DEF CurrentInv, Known, NewKnown, NewSteps, TempSteps
  <2>2. step' \in {"new temp", "new written", "new synced"}
    BY <1>4 DEF NewSteps, TempSteps
  <2>. QED
    BY <1>2, <2>1, <2>2 DEF CurrentInv, Known, NewKnown, OldKnown, EndKnown, OldSteps, NewSteps
<1>. QED
  BY <1>3, <1>4 DEF TempSteps, OldSteps, NewSteps

LEMMA WriteTempKeeps == CurrentInv /\ Current!WriteTemp => CurrentInv'
<1> SUFFICES ASSUME CurrentInv, Current!WriteTemp PROVE CurrentInv'
  OBVIOUS
<1>. DEFINE t == Current!Temp(target)
<1>1. /\ step \in {"temp", "new temp"} /\ UNCHANGED <<target, outages>> /\ Current!Writes(t, 2)
      /\ step' = IF step = "temp" THEN "written" ELSE "new written"
  BY DEF Current!WriteTemp, Current!Goes, Current!Opening, Current!Whole
<1>2. t \in DOMAIN Seen
  BY <1>1 DEF CurrentInv, Known, TempKnown, TempSteps
<1>3. /\ step \in TempSteps /\ step' \in TempSteps /\ (step' \in NewSteps <=> step \in NewSteps)
      /\ step' \notin {"synced", "new synced"}
  BY <1>1 DEF TempSteps, NewSteps
<1>. HIDE DEF t
<1>4. /\ CurrentTyped' /\ AllSound' /\ Seen' = Seen /\ Grows(data, data') /\ FileOf(Seen, t, data').seen = 2
      /\ \A x \in DOMAIN Seen : /\ FileOf(Seen, x, data').holds = FileOf(Seen, x, data).holds
                                /\ FileOf(Seen, x, data).seen = 2 => FileOf(Seen, x, data').seen = 2
  BY <1>1, <1>2, WritesKeep, 2 \in {1, 2}
<1>5. step' \in {"written", "new written"} => FileOf(Seen, Current!Temp(target), data').seen = 2
  BY <1>4 DEF t
<1>. QED
  BY <1>1, <1>3, <1>4, <1>5, InstallsKeep

LEMMA SyncTempKeeps == CurrentInv /\ Current!SyncTemp => CurrentInv'
<1> SUFFICES ASSUME CurrentInv, Current!SyncTemp PROVE CurrentInv'
  OBVIOUS
<1>. DEFINE t == Current!Temp(target)
<1>1. /\ step \in {"written", "new written"} /\ UNCHANGED <<target, outages>>
      /\ Current!SyncFile(t) /\ journal' = journal
      /\ step' = IF step = "written" THEN "synced" ELSE "new synced"
  BY DEF Current!SyncTemp, Current!Goes, Current!Opening
<1>2. t \in DOMAIN Seen /\ FileOf(Seen, t, data).seen = 2
  BY <1>1 DEF CurrentInv, Known, TempKnown, TempSteps
<1>3. /\ step \in TempSteps /\ step' \in TempSteps /\ (step' \in NewSteps <=> step \in NewSteps)
      /\ step' \notin {"written", "new written"}
  BY <1>1 DEF TempSteps, NewSteps
<1>. HIDE DEF t
<1>4. /\ CurrentTyped' /\ AllSound' /\ Seen' = Seen /\ Grows(data, data') /\ FileOf(Seen, t, data').safe = 2
      /\ \A x \in DOMAIN Seen : /\ FileOf(Seen, x, data').holds = FileOf(Seen, x, data).holds
                                /\ FileOf(Seen, x, data').seen = FileOf(Seen, x, data).seen
  BY <1>1, <1>2, SyncsKeep
<1>. QED
  BY <1>1, <1>3, <1>4, InstallsKeep DEF t

\* A name that is not CURRENT, nor what CURRENT leads to, is removed when the
\* call ends.
LEMMA FailsKeeps ==
  ASSUME CurrentInv, NEW entry \in AllNames, Current!Fails(entry), entry # Current!Current,
         Current!Current \in DOMAIN Seen =>
           entry # Current!Manifest(FileOf(Seen, Current!Current, data).holds)
  PROVE  CurrentInv'
<1>1. /\ data' = data /\ target' = target /\ outages' = outages /\ step' = "closed"
      /\ Current!RemoveFile(entry)
  BY DEF Current!Fails, Current!Goes, Current!Opening
<1>2. journal' \in Seq(Dirs) /\ journal' # <<>> /\ AllSound'
  BY <1>1, RemoveKeeps
<1>3. CurrentTyped'
  BY <1>1, <1>2 DEF CurrentInv, CurrentTyped
<1>. QED
  BY <1>1, <1>2, <1>3, KnownClosed DEF CurrentInv

LEMMA NewDBFailsKeeps == CurrentInv /\ Current!NewDBFails => CurrentInv'
<1> SUFFICES ASSUME CurrentInv, Current!NewDBFails PROVE CurrentInv'
  OBVIOUS
<1>1. step = "new" /\ Current!Fails(Current!Manifest(1))
  BY DEF Current!NewDBFails
<1>2. Current!Current \notin DOMAIN Seen
  BY <1>1 DEF CurrentInv, Known, NewKnown, NewSteps
<1>3. Current!Manifest(1) \in AllNames /\ Current!Manifest(1) # Current!Current
  BY NamesDiffer
<1>. QED
  BY <1>1, <1>2, <1>3, FailsKeeps

\* The MANIFEST that is being made is not the one CURRENT names.
LEMMA TargetIsNew ==
  ASSUME CurrentInv, step \in OldSteps
  PROVE  /\ Current!Manifest(target) \in AllNames /\ Current!Manifest(target) # Current!Current
         /\ target \in Nat /\ Current!Current \in DOMAIN Seen
         /\ Current!Manifest(target) # Current!Manifest(FileOf(Seen, Current!Current, data).holds)
<1>1. Current!Current \in DOMAIN Seen /\ target = FileOf(Seen, Current!Current, data).holds + 1
  BY DEF CurrentInv, Known, OldKnown
<1>2. FileOf(Seen, Current!Current, data).holds \in Nat /\ target \in Nat
  BY <1>1, HoldsNumber DEF CurrentInv, CurrentTyped
<1>3. target # FileOf(Seen, Current!Current, data).holds
  BY <1>1, <1>2
<1>. QED
  BY <1>1, <1>2, <1>3, NamesDiffer

LEMMA ManifestFailsKeeps == CurrentInv /\ Current!ManifestFails => CurrentInv'
<1> SUFFICES ASSUME CurrentInv, Current!ManifestFails PROVE CurrentInv'
  OBVIOUS
<1>1. step \in OldSteps /\ Current!Fails(Current!Manifest(target))
  BY DEF Current!ManifestFails, OldSteps
<1>. QED
  BY <1>1, TargetIsNew, FailsKeeps

LEMMA RemoveObsoleteKeeps == CurrentInv /\ Current!RemoveObsolete => CurrentInv'
<1> SUFFICES ASSUME CurrentInv, Current!RemoveObsolete PROVE CurrentInv'
  OBVIOUS
<1>1. /\ step = "obsolete" /\ data' = data /\ step' = step /\ target' = target /\ outages' = outages
  BY DEF Current!RemoveObsolete, Current!Opening
<1>2. PICK entry \in Current!Obsolete : Current!RemoveFile(entry)
  BY DEF Current!RemoveObsolete
<1>3. Current!Current \in DOMAIN Seen /\ target = FileOf(Seen, Current!Current, data).holds
  BY <1>1 DEF CurrentInv, Known, EndKnown
<1>4. DOMAIN Seen \subseteq AllNames
  BY DirIs DEF Dirs
<1>5. /\ entry \in DOMAIN Seen /\ entry \in AllNames
      /\ entry[1] = "dbtmp" \/ (entry[1] = "MANIFEST" /\ entry[2] < target)
  BY <1>4, DirIs DEF Current!Obsolete
<1>6. entry # Current!Current /\ entry # Current!Manifest(target)
  BY <1>5 DEF Current!Current, Current!Manifest, AllNames
<1>7. /\ journal' \in Seq(Dirs) /\ journal' # <<>> /\ AllSound'
      /\ DOMAIN Seen' = DOMAIN Seen \ {entry}
      /\ \A x \in DOMAIN Seen \ {entry} : FileOf(Seen', x, data') = FileOf(Seen, x, data)
  BY <1>1, <1>2, <1>3, <1>5, <1>6, RemoveKeeps
<1>8. CurrentTyped'
  BY <1>1, <1>7 DEF CurrentInv, CurrentTyped
<1>9. Known(Seen', data', step', target')
  BY <1>1, <1>3, <1>6, <1>7
     DEF Known, NewKnown, OldKnown, TempKnown, EndKnown, NewSteps, OldSteps, TempSteps
<1>. QED
  BY <1>7, <1>8, <1>9 DEF CurrentInv

LEMMA LaterEditKeeps == CurrentInv /\ Current!LaterEdit => CurrentInv'
<1> SUFFICES ASSUME CurrentInv, Current!LaterEdit PROVE CurrentInv'
  OBVIOUS
<1>1. UNCHANGED <<data, step, target, outages>> /\ journal' = <<Seen>>
  BY DirIs DEF Current!LaterEdit, Current!Opening
<1>2. Sound(Seen, data', outages') /\ Seen \in Dirs
  BY <1>1, DirIs
<1>3. journal' \in Seq(Dirs) /\ journal' # <<>> /\ AllSound' /\ Seen' = Seen
  BY <1>1, <1>2, JournalEnds
<1>4. CurrentTyped'
  BY <1>1, <1>3 DEF CurrentInv, CurrentTyped
<1>. QED
  BY <1>1, <1>3, <1>4 DEF CurrentInv

\* CURRENT becomes the temporary file, and names a MANIFEST that is whole.
LEMMA RenameFileKeeps == CurrentInv /\ Current!RenameFile => CurrentInv'
<1> SUFFICES ASSUME CurrentInv, Current!RenameFile PROVE CurrentInv'
  OBVIOUS
<1>. DEFINE t == Current!Temp(target)
            c == Current!Current
            with == Current!With(Seen, c, Seen[t])
            e == Current!Without(with, t)
<1>1. /\ step \in {"synced", "new synced"} /\ UNCHANGED <<data, target, outages>>
      /\ journal' = Append(journal, e)
      /\ step' = IF step = "synced" THEN "obsolete" ELSE "made"
  BY DirIs DEF Current!RenameFile, Current!Goes, Current!Opening
<1>2. /\ t \in AllNames /\ c \in AllNames /\ t # c /\ target \in Nat
      /\ \A n \in Nat : Current!Manifest(n) # t /\ Current!Manifest(n) # c
  BY NamesDiffer DEF CurrentInv, CurrentTyped
<1>3. /\ t \in DOMAIN Seen /\ FileOf(Seen, t, data).holds = target /\ FileOf(Seen, t, data).safe = 2
  BY <1>1 DEF CurrentInv, Known, TempKnown, TempSteps
<1>4. Whole(Seen, target, data)
  <2>1. CASE step = "synced"
    BY <2>1 DEF CurrentInv, Known, OldKnown, OldSteps
  <2>2. CASE step = "new synced"
    BY <2>2 DEF CurrentInv, Known, NewKnown, NewSteps, Whole
  <2>. QED
    BY <1>1, <2>1, <2>2
<1>5. Seen[t] \in DOMAIN data /\ Seen[t] \in Nat /\ Seen \in Dirs /\ Sound(Seen, data, outages)
  BY <1>3, HoldsNumber, DirIs, LenProperties DEF CurrentInv, CurrentTyped
<1>. HIDE DEF t, c
<1>6. /\ with \in Dirs /\ DOMAIN with = DOMAIN Seen \cup {c} /\ with[c] = Seen[t]
      /\ \A x \in DOMAIN Seen \ {c} : with[x] = Seen[x]
  <2>1. \A d \in Dirs : Current!With(d, c, Seen[t]) \in Dirs
    BY <1>2, <1>5, DirChanges
  <2>. QED
    BY <1>5, <2>1 DEF Current!With
<1>. HIDE DEF with
<1>7. e \in Dirs /\ DOMAIN e = DOMAIN with \ {t} /\ \A x \in DOMAIN with \ {t} : e[x] = with[x]
  BY <1>2, <1>6, DirChanges, 0 \in Nat
<1>. HIDE DEF e
<1>8. /\ c \in DOMAIN e /\ FileOf(e, c, data) = FileOf(Seen, t, data)
      /\ \A n \in Nat : /\ Current!Manifest(n) \in DOMAIN e <=> Current!Manifest(n) \in DOMAIN Seen
                        /\ Current!Manifest(n) \in DOMAIN Seen =>
                             FileOf(e, Current!Manifest(n), data) = FileOf(Seen, Current!Manifest(n), data)
  BY <1>2, <1>6, <1>7 DEF FileOf
<1>9. Whole(e, target, data)
  BY <1>2, <1>4, <1>8 DEF Whole
<1>10. Sound(e, data, outages)
  <2>1. \A x \in DOMAIN e : e[x] \in DOMAIN data
    BY <1>5, <1>6, <1>7 DEF Sound
  <2>2. \A n \in Nat : Current!Manifest(n) \in DOMAIN e => FileOf(e, Current!Manifest(n), data).holds = n + 1
    BY <1>5, <1>8 DEF Sound
  <2>3. FileOf(e, c, data).safe = 2 /\ FileOf(e, c, data).holds = target
    BY <1>3, <1>8
  <2>. QED
    BY <1>9, <2>1, <2>2, <2>3 DEF Sound, c
<1>11. journal' \in Seq(Dirs) /\ journal' # <<>> /\ AllSound' /\ Seen' = e
  BY <1>1, <1>7, <1>10, FilesGrow, JournalGrows DEF CurrentInv
<1>12. CurrentTyped'
  BY <1>1, <1>11 DEF CurrentInv, CurrentTyped
<1>13. Known(Seen', data', step', target')
  <2>1. CASE step = "synced"
    <3>1. FileOf(e, c, data).holds = target
      BY <1>3, <1>8
    <3>. QED
      BY <1>1, <1>8, <1>11, <2>1, <3>1
         DEF c, Known, NewKnown, OldKnown, TempKnown, EndKnown, NewSteps, OldSteps, TempSteps
  <2>2. CASE step = "new synced"
    BY <1>1, <2>2, KnownClosed
  <2>. QED
    BY <1>1, <2>1, <2>2
<1>. QED
  BY <1>11, <1>12, <1>13 DEF CurrentInv

\* The temporary file and the MANIFEST are removed one after the other.
LEMMA SetCurrentFailsKeeps == CurrentInv /\ Current!SetCurrentFails => CurrentInv'
<1> SUFFICES ASSUME CurrentInv, Current!SetCurrentFails PROVE CurrentInv'
  OBVIOUS
<1>. DEFINE t == Current!Temp(target)
            m == Current!Manifest(target)
            left == Current!Without(Seen, t)
            e == IF step \in {"install", "temp", "written", "synced"}
                 THEN Current!Without(left, m) ELSE left
<1>1. /\ UNCHANGED <<data, target, outages>> /\ step' = "closed"
      /\ journal' = Append(Append(journal, left), e)
  BY DirIs DEF Current!SetCurrentFails, Current!Goes, Current!Opening
<1>2. /\ t \in AllNames /\ t # Current!Current
      /\ \A n \in Nat : t # Current!Manifest(n)
  BY NamesDiffer DEF CurrentInv, CurrentTyped
<1>3. Seen \in Dirs /\ Sound(Seen, data, outages)
  BY DirIs
<1>4. Current!Current \in DOMAIN Seen => t # Current!Manifest(FileOf(Seen, Current!Current, data).holds)
  BY <1>2, HoldsNumber
<1>. HIDE DEF t
<1>5. left \in Dirs /\ DOMAIN left = DOMAIN Seen \ {t} /\ \A x \in DOMAIN Seen \ {t} : left[x] = Seen[x]
  BY <1>2, <1>3, DirChanges, 0 \in Nat
<1>6. Sound(left, data, outages)
  BY <1>2, <1>3, <1>4, SoundWithout
<1>. HIDE DEF left
<1>7. e \in Dirs /\ Sound(e, data, outages)
  <2>1. CASE step \in {"install", "temp", "written", "synced"}
    <3>1. /\ m \in AllNames /\ m # Current!Current
          /\ m # Current!Manifest(FileOf(Seen, Current!Current, data).holds)
      BY <2>1, TargetIsNew DEF OldSteps
    <3>2. Current!Current \in DOMAIN left => FileOf(left, Current!Current, data) = FileOf(Seen, Current!Current, data)
      BY <1>5 DEF FileOf
    <3>. HIDE DEF m
    <3>3. Sound(Current!Without(left, m), data, outages)
      BY <1>5, <1>6, <3>1, <3>2, SoundWithout
    <3>4. Current!Without(left, m) \in Dirs
      BY <1>5, <3>1, DirChanges, 0 \in Nat
    <3>. QED
      BY <2>1, <3>3, <3>4
  <2>2. CASE step \notin {"install", "temp", "written", "synced"}
    BY <1>5, <1>6, <2>2
  <2>. QED
    BY <2>1, <2>2
<1>. HIDE DEF e
<1>8. /\ journal' \in Seq(Dirs) /\ Len(journal') = Len(journal) + 2 /\ journal' # <<>>
      /\ \A i \in 1..Len(journal) : journal'[i] = journal[i]
      /\ journal'[Len(journal) + 1] = left /\ journal'[Len(journal) + 2] = e
      /\ Len(journal) \in Nat
  <2>1. journal \in Seq(Dirs) /\ Len(journal) \in Nat
    BY LenProperties DEF CurrentInv, CurrentTyped
  <2>. DEFINE j == Append(journal, left)
  <2>2. /\ j \in Seq(Dirs) /\ Len(j) = Len(journal) + 1 /\ j[Len(journal) + 1] = left
        /\ \A i \in 1..Len(journal) : j[i] = journal[i]
    BY <1>5, <2>1, AppendProperties
  <2>. HIDE DEF j
  <2>3. /\ journal' \in Seq(Dirs) /\ Len(journal') = Len(j) + 1 /\ journal'[Len(j) + 1] = e
        /\ \A i \in 1..Len(j) : journal'[i] = j[i] /\ journal' # <<>>
    BY <1>1, <1>7, <2>2, AppendProperties DEF j
  <2>4. journal' # <<>>
    BY <2>1, <2>2, <2>3
  <2>5. Len(j) + 1 = Len(journal) + 2 /\ \A i \in 1..Len(journal) : i \in 1..Len(j)
    BY <2>1, <2>2
  <2>6. Len(journal) + 1 \in 1..Len(j)
    BY <2>1, <2>2
  <2>. QED
    BY <2>1, <2>2, <2>3, <2>4, <2>5, <2>6
<1>9. AllSound'
  <2>1. ASSUME NEW i \in 1..Len(journal') PROVE Sound(journal'[i], data', outages')
    <3>1. i \in 1..Len(journal) \/ i = Len(journal) + 1 \/ i = Len(journal) + 2
      BY <1>8
    <3>2. CASE i \in 1..Len(journal)
      BY <1>1, <1>8, <3>2 DEF CurrentInv, AllSound
    <3>. QED
      BY <1>1, <1>6, <1>7, <1>8, <3>1, <3>2
  <2>. QED
    BY <2>1 DEF AllSound
<1>10. CurrentTyped'
  BY <1>1, <1>8 DEF CurrentInv, CurrentTyped
<1>. QED
  BY <1>1, <1>9, <1>10, KnownClosed DEF CurrentInv

\* An outage leaves one of the directories, and of its files what was durable.
LEMMA OutageKeeps == CurrentInv /\ Current!Outage => CurrentInv'
<1> SUFFICES ASSUME CurrentInv, Current!Outage PROVE CurrentInv'
  OBVIOUS
<1>1. outages' = outages + 1 /\ step' = "closed" /\ target' = target
  BY DEF Current!Outage, Current!Goes
<1>2. PICK d \in Current!ToSet(journal) : \E left \in [Current!Named(d) -> 0..2] :
        /\ \A f \in Current!Named(d) : left[f] \in data[f].safe..data[f].seen
        /\ journal' = <<d>>
        /\ data' = [f \in DOMAIN data |->
                      LET kept == IF f \in Current!Named(d) THEN left[f] ELSE 0
                      IN  [holds |-> data[f].holds, seen |-> kept, safe |-> kept]]
  BY DEF Current!Outage, Current!Empty, Current!Whole
<1>3. PICK left \in [Current!Named(d) -> 0..2] :
        /\ \A f \in Current!Named(d) : left[f] \in data[f].safe..data[f].seen
        /\ journal' = <<d>>
        /\ data' = [f \in DOMAIN data |->
                      LET kept == IF f \in Current!Named(d) THEN left[f] ELSE 0
                      IN  [holds |-> data[f].holds, seen |-> kept, safe |-> kept]]
  BY <1>2
<1>4. PICK i \in 1..Len(journal) : d = journal[i]
  BY LenProperties DEF CurrentInv, CurrentTyped, Current!ToSet
<1>5. d \in Dirs /\ Sound(d, data, outages)
  BY <1>4, LenProperties DEF CurrentInv, CurrentTyped, AllSound
<1>6. data \in [1..Len(data) -> AllFiles] /\ Len(data) \in Nat
  BY LenProperties DEF CurrentInv, CurrentTyped
<1>7. ASSUME NEW f \in DOMAIN data
      PROVE  /\ data'[f] \in AllFiles /\ data'[f].safe <= data'[f].seen
             /\ data'[f].holds = data[f].holds
             /\ f \in Current!Named(d) => data'[f].seen = left[f] /\ data'[f].safe = left[f]
  <2>1. data[f] \in AllFiles
    BY <1>6
  <2>. DEFINE kept == IF f \in Current!Named(d) THEN left[f] ELSE 0
  <2>2. data'[f] = [holds |-> data[f].holds, seen |-> kept, safe |-> kept] /\ kept \in 0..2
    BY <1>3
  <2>. QED
    BY <2>1, <2>2 DEF AllFiles
<1>8. DOMAIN data' = DOMAIN data /\ data' \in [1..Len(data) -> AllFiles]
  <2>1. DOMAIN data' = DOMAIN data
    BY <1>3
  <2>2. data' = [f \in DOMAIN data |-> data'[f]]
    BY <1>3
  <2>. QED
    BY <1>6, <1>7, <2>1, <2>2
<1>9. data' \in Seq(AllFiles)
  BY <1>6, <1>8
<1>10. ASSUME NEW x \in DOMAIN d
      PROVE  /\ d[x] \in DOMAIN data /\ FileOf(d, x, data').holds = FileOf(d, x, data).holds
             /\ FileOf(d, x, data).safe = 2 => FileOf(d, x, data').seen = 2 /\ FileOf(d, x, data').safe = 2
  <2>1. d[x] \in DOMAIN data /\ d[x] \in Current!Named(d)
    BY <1>5 DEF Sound, Current!Named
  <2>2. left[d[x]] \in data[d[x]].safe..data[d[x]].seen /\ data[d[x]] \in AllFiles
    BY <1>3, <1>6, <2>1
  <2>3. data[d[x]].safe = 2 => left[d[x]] = 2
    BY <2>2 DEF AllFiles
  <2>. QED
    BY <1>7, <2>1, <2>3 DEF FileOf
<1>11. Sound(d, data', outages')
  <2>1. \A x \in DOMAIN d : d[x] \in DOMAIN data'
    BY <1>8, <1>10
  <2>2. \A n \in Nat : Current!Manifest(n) \in DOMAIN d => FileOf(d, Current!Manifest(n), data').holds = n + 1
    BY <1>5, <1>10 DEF Sound
  <2>3. ASSUME NEW n, n # 1, Whole(d, n, data) PROVE Whole(d, n, data')
    BY <1>10, <2>3 DEF Whole
  <2>4. outages' > 0
    BY <1>1 DEF CurrentInv, CurrentTyped
  <2>5. ASSUME Current!Current \in DOMAIN d
        PROVE  /\ FileOf(d, Current!Current, data').safe = 2
               /\ \/ Whole(d, FileOf(d, Current!Current, data').holds, data')
                  \/ FileOf(d, Current!Current, data').holds = 1
    BY <1>5, <1>10, <2>3, <2>5 DEF Sound
  <2>. QED
    BY <2>1, <2>2, <2>4, <2>5 DEF Sound
<1>12. journal' \in Seq(Dirs) /\ journal' # <<>> /\ AllSound'
  BY <1>3, <1>5, <1>11, JournalEnds
<1>13. \A f \in DOMAIN data' : data'[f].safe <= data'[f].seen
  BY <1>7, <1>8
<1>14. CurrentTyped'
  BY <1>1, <1>9, <1>12, <1>13 DEF CurrentInv, CurrentTyped
<1>. QED
  BY <1>1, <1>12, <1>14, KnownClosed DEF CurrentInv

LEMMA CurrentStep == CurrentInv /\ (Current!Next \/ UNCHANGED currentVars) => CurrentInv'
<1> SUFFICES ASSUME CurrentInv, Current!Next \/ UNCHANGED currentVars PROVE CurrentInv'
  OBVIOUS
<1>1. CASE UNCHANGED currentVars
  BY <1>1, StepKeeps DEF currentVars, CurrentInv, CurrentTyped
<1>2. CASE Current!Next
  BY <1>2, RecoverKeeps, NewDBKeeps, NewDBWritesKeeps, NewDBFailsKeeps, NewManifestKeeps,
     WriteSnapshotKeeps, WriteEditKeeps, SyncManifestKeeps, ManifestFailsKeeps, MakeTempKeeps,
     WriteTempKeeps, SyncTempKeeps, RenameFileKeeps, SetCurrentFailsKeeps, RemoveObsoleteKeeps,
     LaterEditKeeps, KillKeeps, OutageKeeps DEF Current!Next
<1>. QED
  BY <1>1, <1>2

LEMMA CurrentOpens == CurrentInv => Current!OpensAgain
<1> SUFFICES ASSUME CurrentInv PROVE Current!OpensAgain
  OBVIOUS
<1>. DEFINE c == FileOf(Seen, Current!Current, data)
<1>1. ASSUME Current!Current \in DOMAIN Seen
      PROVE  /\ c.seen = 2
             /\ \/ Whole(Seen, c.holds, data)
                \/ c.holds = 1 /\ outages > 0
  <2>1. c.safe = 2 /\ (Whole(Seen, c.holds, data) \/ (c.holds = 1 /\ outages > 0))
    BY <1>1, DirIs DEF Sound
  <2>2. c \in AllFiles /\ c.safe <= c.seen
    BY <1>1, HoldsNumber
  <2>. QED
    BY <2>1, <2>2 DEF AllFiles
<1>2. step \in {"recovered", "obsolete"} => Current!Current \in DOMAIN Seen
  BY DEF CurrentInv, Known, OldKnown, EndKnown, OldSteps
<1>. QED
  BY <1>1, <1>2, DirIs DEF Current!OpensAgain, Current!Has, Current!Readable, Current!ReadFile,
     Current!Whole, Whole, FileOf

----------------------------------------------------------------------------
(* Repair. *)

Reading == {entries \in SUBSET Nat : IsFiniteSet(entries)}
AnyFile == [kind : {"log", "table"}, number : Nat, entries : Reading, sound : BOOLEAN]
RepairSteps ==
  {"idle", "convert", "archiveLog", "repair", "archiveTable", "finish", "rename", "install"}
Repairers ==
  [pc : RepairSteps, logs : Seq(Nat), tables : Seq(Nat),
   scanned : SUBSET [number : Nat, max : Nat], next : Nat, copy : AnyFile]
RepairTyped ==
  /\ dir \in SUBSET AnyFile /\ IsFiniteSet(dir) /\ lost \in SUBSET AnyFile
  /\ run \in Repairers /\ IsFiniteSet(run.scanned)
  /\ runs \in Nat /\ errors \in Nat /\ killed \in Nat /\ givenUp \in BOOLEAN

\* Where the run is: it repairs a table, has made a copy of it, has archived it.
Running == run.pc # "idle"
Copying == run.pc \in {"archiveTable", "finish", "rename"}
Archived == run.pc \in {"finish", "rename"}
Repairing == run.pc = "repair" \/ Copying

\* The tables and the logs whose files it has still to find.
Tables == ToSet(run.tables)
Scanned == {t.number : t \in run.scanned}
TablesAhead == IF Archived THEN ToSet(Tail(run.tables)) ELSE Tables
LogsAhead == IF run.pc = "archiveLog" THEN ToSet(Tail(run.logs)) ELSE ToSet(run.logs)
HasDistinct(s) == \A i, j \in 1..Len(s) : s[i] = s[j] => i = j
IsTable(f, n) == f.kind = "table" /\ f.number = n
IsLog(f, n) == f.kind = "log" /\ f.number = n
InHand(f) == IsTable(f, Head(run.tables))

\* Files have names of their own, new ones get numbers above all others, and
\* what the run has still to do is there.
OwnNames == \A f, g \in dir : f.kind = g.kind /\ f.number = g.number => f = g
RunInv ==
  /\ ~Running => run = Fix!Idle
  /\ Running => /\ descriptor = Fix!None /\ runs # 0
                /\ HasDistinct(run.logs) /\ HasDistinct(run.tables)
NextIsNew ==
  Running => (\A f \in dir : f.number < run.next) /\ \A n \in Tables \cup Scanned : n < run.next
LogsThere == Running => \A n \in ToSet(run.logs) : \E f \in dir : IsLog(f, n)
TablesThere == Running => \A n \in TablesAhead : \E f \in dir : IsTable(f, n)
ScannedThere ==
  Running => \A t \in run.scanned : t.number \notin Tables /\
    \E f \in dir : IsTable(f, t.number) /\ f.sound /\ \A e \in f.entries : e <= t.max
NamesInv ==
  OwnNames /\ RunInv /\ NextIsNew /\ LogsThere /\ TablesThere /\ ScannedThere
PlaceInv ==
  /\ run.pc = "archiveLog" => run.logs # <<>>
  /\ Repairing => run.tables # <<>> /\ run.logs = <<>>
  /\ run.pc = "install" => run.tables = <<>> /\ run.logs = <<>>
  /\ run.pc \in {"repair", "archiveTable"} => \A f \in dir : InHand(f) => ~f.sound

\* The copy has the entries of the table, which is there or in lost/.
CopyInv ==
  Copying =>
    /\ run.copy.kind = "table" /\ run.copy.sound
    /\ \A n \in Tables \cup Scanned : n < run.copy.number
    /\ run.pc # "rename" => \E f \in dir : IsTable(f, run.copy.number) /\ f.entries = {}
    /\ run.pc = "rename" => run.copy \in dir
    /\ \A f \in dir : InHand(f) => f.entries = run.copy.entries
    /\ \E f \in dir \cup lost : InHand(f) /\ f.entries = run.copy.entries

\* A table t in lost/ is not above all tables.
Below(t) ==
  \/ \E f \in dir : f.kind = "table" /\ t.number <= f.number
                    /\ (Copying => f.number # run.copy.number)
  \/ Archived /\ t.number <= Head(run.tables)
\* What is in lost/ is not archived over: a table that is not sound has another
\* number, always if no call has failed, else in the first two runs; in the first
\* run so has every table that is still to be looked at.
LogsApart == \A f \in dir, g \in lost : f.kind = "log" /\ g.kind = "log" => f.number # g.number
SafeWithoutError ==
  errors = 0 => \A t \in lost : t.kind = "table" /\ t.entries # {} =>
    Below(t) /\ \A f \in dir : IsTable(f, t.number) => f.sound
NextIsNotLost ==
  /\ runs = 0 => lost = {}
  /\ runs <= 1 /\ Running => \A t \in lost : t.number < run.next
SafeInFirst ==
  runs <= 1 => \A f \in dir, t \in lost :
    f.kind = "table" /\ (~f.sound \/ (Running /\ f.number \in TablesAhead)) => ~IsTable(t, f.number)
SafeInSecond ==
  runs <= 2 /\ Running =>
    \A f \in dir, t \in lost : f.kind = "table" /\ ~f.sound /\ f.number \in TablesAhead =>
      ~IsTable(t, f.number)
LostInv == LogsApart /\ SafeWithoutError /\ NextIsNotLost /\ SafeInFirst /\ SafeInSecond

\* An entry that the run will find, or has found.
Ahead(f) ==
  \/ f.kind = "log" /\ f.number \in LogsAhead
  \/ f.kind = "table" /\ f.number \in TablesAhead \cup Scanned
Reached(e) ==
  (Archived /\ e \in run.copy.entries) \/ \E f \in dir : e \in f.entries /\ Ahead(f)
KeptSomewhere ==
  errors = 0 \/ (runs <= 2 /\ ~givenUp) => \A e \in had : \E f \in dir \cup lost : e \in f.entries
KeptAhead ==
  errors = 0 /\ killed = 0 =>
    \A e \in had : /\ ~Running => \E f \in dir : e \in f.entries
                   /\ Running => Reached(e)
KeptInv == KeptSomewhere /\ KeptAhead
EndInv ==
  descriptor # Fix!None =>
    /\ errors = 0 /\ killed = 0 =>
         \A e \in had : \E f \in dir :
           f.kind = "table" /\ f.number \in descriptor.files /\ e \in f.entries
    /\ \A n \in descriptor.files : \E f \in dir :
         IsTable(f, n) /\ f.sound /\ \A e \in f.entries : e <= descriptor.last
    /\ \A f \in dir : f.number < descriptor.next

RepairInv ==
  RepairTyped /\ NamesInv /\ PlaceInv /\ CopyInv /\ LostInv /\ KeptInv /\ EndInv

LEMMA HighestIs ==
  ASSUME NEW S \in SUBSET Nat, IsFiniteSet(S)
  PROVE  Fix!Highest(S) \in Nat /\ \A y \in S : y <= Fix!Highest(S)
<1>1. CASE S = {}
  BY <1>1 DEF Fix!Highest
<1>2. CASE S # {}
  <2>1. \E x \in S : \A y \in S : y <= x
    BY <1>2, HasGreatest
  <2>. DEFINE h == CHOOSE x \in S : \A y \in S : y <= x
  <2>2. h \in S /\ \A y \in S : y <= h
    BY <2>1
  <2>3. Fix!Highest(S) = h
    BY <1>2 DEF Fix!Highest
  <2>. HIDE DEF h
  <2>. QED
    BY <2>2, <2>3
<1>. QED
  BY <1>1, <1>2

LEMMA NamedIs ==
  ASSUME NamesInv, NEW f \in dir
  PROVE  Fix!Named(f.kind, f.number) = f
BY DEF NamesInv, OwnNames, Fix!Named, Fix!Is

LEMMA ToSetIs ==
  ASSUME NEW s \in Seq(Nat)
  PROVE  ToSet(s) = {s[i] : i \in 1..Len(s)}
BY DEF ToSet

LEMMA ListIs ==
  ASSUME NEW s \in Seq(Nat)
  PROVE  /\ s = <<>> => ToSet(s) = {}
         /\ s # <<>> => Head(s) \in ToSet(s)
         /\ s # <<>> => Head(s) \in Nat /\ Tail(s) \in Seq(Nat) /\ ToSet(Tail(s)) \subseteq ToSet(s)
         /\ s # <<>> /\ HasDistinct(s) =>
              HasDistinct(Tail(s)) /\ ToSet(Tail(s)) = ToSet(s) \ {Head(s)}
         /\ ToSet(s) \subseteq Nat
<1>1. ToSet(s) = {s[i] : i \in 1..Len(s)} /\ Len(s) \in Nat /\ \A i \in 1..Len(s) : s[i] \in Nat
  BY DEF ToSet
<1>2. CASE s = <<>>
  BY <1>1, <1>2
<1>3. CASE s # <<>>
  <2>1. /\ Len(s) \in Nat \ {0} /\ Head(s) = s[1]
        /\ Tail(s) \in Seq(Nat) /\ Len(Tail(s)) = Len(s) - 1
        /\ \A i \in 1..Len(s) - 1 : Tail(s)[i] = s[i + 1]
    BY <1>3, TailProperties
  <2>2. ToSet(Tail(s)) = {Tail(s)[i] : i \in 1..Len(s) - 1}
    <3>1. ToSet(Tail(s)) = {Tail(s)[i] : i \in 1..Len(Tail(s))}
      BY <2>1, ToSetIs
    <3>2. Len(Tail(s)) = Len(s) - 1
      BY <2>1
    <3>. QED
      BY <3>1, <3>2, Zenon
  <2>. DEFINE t == Tail(s)
              h == Head(s)
  <2>3. t \in Seq(Nat) /\ Len(t) = Len(s) - 1 /\ h = s[1] /\ ToSet(t) = {t[i] : i \in 1..Len(s) - 1}
        /\ \A i \in 1..Len(s) - 1 : t[i] = s[i + 1]
    BY <2>1, <2>2
  <2>. HIDE DEF t, h
  <2>4. h \in ToSet(s) /\ h \in Nat
    BY <1>1, <2>1, <2>3
  <2>5. \A x \in ToSet(t) : x \in ToSet(s)
    <3> TAKE x \in ToSet(t)
    <3>1. PICK i \in 1..Len(s) - 1 : x = t[i]
      BY <2>3
    <3>2. i + 1 \in 1..Len(s) /\ x = s[i + 1]
      BY <1>1, <2>3, <3>1
    <3>. QED
      BY <1>1, <3>2
  <2>6. ASSUME HasDistinct(s) PROVE HasDistinct(t) /\ ToSet(t) = ToSet(s) \ {h}
    <3>1. HasDistinct(t)
      <4>1. \A i, j \in 1..Len(s) - 1 : t[i] = t[j] => i = j
        <5> SUFFICES ASSUME NEW i \in 1..Len(s) - 1, NEW j \in 1..Len(s) - 1, t[i] = t[j] PROVE i = j
          OBVIOUS
        <5>1. i + 1 \in 1..Len(s) /\ j + 1 \in 1..Len(s)
          BY <1>1
        <5>3. t[i] = s[i + 1] /\ t[j] = s[j + 1]
          BY <2>3
        <5>2. i + 1 = j + 1
          BY <2>6, <5>1, <5>3 DEF HasDistinct
        <5>. QED
          BY <5>2
      <4>. QED
        BY <2>3, <4>1 DEF HasDistinct
    <3>2. h \notin ToSet(t)
      <4>1. SUFFICES ASSUME NEW i \in 1..Len(s) - 1, t[i] = h PROVE FALSE
        BY <2>3
      <4>2. i + 1 \in 1..Len(s) /\ 1 \in 1..Len(s) /\ s[i + 1] = s[1]
        BY <1>1, <2>1, <2>3, <4>1
      <4>3. i + 1 = 1
        BY <2>6, <4>2 DEF HasDistinct
      <4>. QED
        BY <4>3
    <3>3. \A x \in ToSet(s) \ {h} : x \in ToSet(t)
      <4> TAKE x \in ToSet(s) \ {h}
      <4>1. PICK i \in 1..Len(s) : x = s[i]
        BY <1>1
      <4>2. i # 1
        BY <2>3, <4>1
      <4>3. PICK k \in 1..Len(s) - 1 : k + 1 = i
        <5>1. i - 1 \in 1..Len(s) - 1 /\ (i - 1) + 1 = i
          BY <1>1, <4>2
        <5>. QED
          BY <5>1
      <4>4. t[k] = x
        BY <2>3, <4>1, <4>3
      <4>. QED
        BY <2>3, <4>4
    <3>. QED
      BY <2>5, <3>1, <3>2, <3>3
  <2>. QED
    BY <1>1, <1>3, <2>3, <2>4, <2>5, <2>6 DEF t, h
<1>. QED
  BY <1>2, <1>3

LEMMA ListAppend ==
  ASSUME NEW s \in Seq(Nat), NEW n \in Nat
  PROVE  /\ Append(s, n) \in Seq(Nat) /\ Append(s, n) # <<>>
         /\ ToSet(Append(s, n)) = ToSet(s) \cup {n}
         /\ HasDistinct(s) /\ n \notin ToSet(s) => HasDistinct(Append(s, n))
<1>. DEFINE t == Append(s, n)
<1>1. /\ t \in Seq(Nat) /\ Len(t) = Len(s) + 1 /\ t # <<>>
      /\ \A i \in 1..Len(s) : t[i] = s[i]
      /\ t[Len(s) + 1] = n
  BY AppendProperties, EmptySeq
<1>2. Len(s) \in Nat /\ ToSet(s) = {s[i] : i \in 1..Len(s)}
  BY DEF ToSet
<1>3. ToSet(t) = {t[i] : i \in 1..Len(s) + 1}
  BY <1>1 DEF ToSet
<1>. HIDE DEF t
<1>4. ToSet(t) = ToSet(s) \cup {n}
  <2>1. 1..Len(s) + 1 = (1..Len(s)) \cup {Len(s) + 1}
    BY <1>2
  <2>2. {t[i] : i \in 1..Len(s) + 1} = {t[i] : i \in 1..Len(s)} \cup {t[Len(s) + 1]}
    BY <2>1
  <2>3. {t[i] : i \in 1..Len(s)} = {s[i] : i \in 1..Len(s)}
    BY <1>1
  <2>. QED
    BY <1>1, <1>2, <1>3, <2>2, <2>3
<1>5. ASSUME HasDistinct(s), n \notin ToSet(s) PROVE HasDistinct(t)
  <2>1. SUFFICES ASSUME NEW i \in 1..Len(s) + 1, NEW j \in 1..Len(s) + 1, t[i] = t[j] PROVE i = j
    BY <1>1 DEF HasDistinct
  <2>2. \A k \in 1..Len(s) : s[k] # n
    BY <1>2, <1>5
  <2>3. CASE i \in 1..Len(s) /\ j \in 1..Len(s)
    BY <1>1, <1>5, <2>1, <2>3 DEF HasDistinct
  <2>4. i \in 1..Len(s) \/ i = Len(s) + 1
    BY <1>2
  <2>5. j \in 1..Len(s) \/ j = Len(s) + 1
    BY <1>2
  <2>. QED
    BY <1>1, <2>1, <2>2, <2>3, <2>4, <2>5
<1>. QED
  BY <1>1, <1>4, <1>5 DEF t
\* What a step changes of the run, in its words.
LEMMA RunIs ==
  ASSUME RepairTyped
  PROVE  /\ run.logs \in Seq(Nat) /\ run.tables \in Seq(Nat) /\ run.next \in Nat
         /\ run.scanned \in SUBSET [number : Nat, max : Nat] /\ run.copy \in AnyFile
         /\ run.pc \in RepairSteps
         /\ Tables \subseteq Nat /\ Scanned \subseteq Nat
         /\ \A f \in dir : f \in AnyFile
         /\ \A f \in lost : f \in AnyFile
<1>1. run \in Repairers
  BY DEF RepairTyped
<1>2. /\ run.logs \in Seq(Nat) /\ run.tables \in Seq(Nat) /\ run.next \in Nat
      /\ run.scanned \in SUBSET [number : Nat, max : Nat] /\ run.copy \in AnyFile
      /\ run.pc \in RepairSteps
  BY <1>1 DEF Repairers
<1>3. Tables \subseteq Nat
  BY <1>2, ListIs DEF Tables
<1>. QED
  BY <1>2, <1>3 DEF Scanned, RepairTyped

LEMMA RunTyped ==
  ASSUME NEW p \in RepairSteps, NEW l \in Seq(Nat), NEW t \in Seq(Nat),
         NEW s \in SUBSET [number : Nat, max : Nat], NEW n \in Nat, NEW c \in AnyFile
  PROVE  [pc |-> p, logs |-> l, tables |-> t, scanned |-> s, next |-> n, copy |-> c] \in Repairers
BY DEF Repairers

LEMMA DirFinite ==
  ASSUME RepairTyped, NEW x, dir' \subseteq dir \cup {x}
  PROVE  IsFiniteSet(dir')
<1>1. IsFiniteSet(dir \cup {x})
  BY FS_AddElement DEF RepairTyped
<1>. QED
  BY <1>1, FS_Subset

LEMMA NextIs ==
  ASSUME RepairTyped, NamesInv, Running
  PROVE  /\ run.next \in Nat /\ run.next + 1 \in Nat
         /\ \A f \in dir : /\ f.number \in Nat /\ f.number < run.next /\ f.number # run.next
                           /\ f.number < run.next + 1
         /\ \A n \in Tables \cup Scanned : /\ n \in Nat /\ n < run.next /\ n # run.next
                                           /\ n < run.next + 1
<1>1. run.next \in Nat /\ Tables \cup Scanned \subseteq Nat /\ \A f \in dir : f.number \in Nat
  BY RunIs DEF AnyFile
<1>. QED
  BY <1>1 DEF NamesInv, NextIsNew

\* Of a file that is there, by its name.
LEMMA FileIs ==
  ASSUME NamesInv, NEW kind, NEW n, \E f \in dir : f.kind = kind /\ f.number = n
  PROVE  /\ Fix!Named(kind, n) \in dir
         /\ Fix!Named(kind, n).kind = kind /\ Fix!Named(kind, n).number = n
         /\ Fix!Without(dir, kind, n) = dir \ {Fix!Named(kind, n)}
         /\ \A f \in dir : f.kind = kind /\ f.number = n => f = Fix!Named(kind, n)
<1>1. PICK f \in dir : f.kind = kind /\ f.number = n
  OBVIOUS
<1>2. Fix!Named(kind, n) = f
  BY <1>1, NamedIs
<1>3. \A g \in dir : g.kind = kind /\ g.number = n => g = f
  BY <1>1 DEF NamesInv, OwnNames
<1>4. Fix!Without(dir, kind, n) = dir \ {f}
  BY <1>1, <1>3 DEF Fix!Without, Fix!Is
<1>. QED
  BY <1>1, <1>2, <1>3, <1>4

LEMMA HeadIs ==
  ASSUME RepairInv, Running
  PROVE  /\ run.logs # <<>> =>
              /\ Head(run.logs) \in ToSet(run.logs)
              /\ ToSet(Tail(run.logs)) = ToSet(run.logs) \ {Head(run.logs)}
              /\ HasDistinct(Tail(run.logs)) /\ Tail(run.logs) \in Seq(Nat)
              /\ \E f \in dir : f.kind = "log" /\ f.number = Head(run.logs)
         /\ run.tables # <<>> =>
              /\ Head(run.tables) \in Tables
              /\ ToSet(Tail(run.tables)) = Tables \ {Head(run.tables)}
              /\ HasDistinct(Tail(run.tables)) /\ Tail(run.tables) \in Seq(Nat)
              /\ ~Archived => \E f \in dir : f.kind = "table" /\ f.number = Head(run.tables)
<1>. USE DEF RepairInv, NamesInv
<1>1. /\ run.logs \in Seq(Nat) /\ run.tables \in Seq(Nat)
      /\ HasDistinct(run.logs) /\ HasDistinct(run.tables)
  BY RunIs DEF RunInv
<1>2. ASSUME run.logs # <<>>
      PROVE  /\ Head(run.logs) \in ToSet(run.logs)
             /\ ToSet(Tail(run.logs)) = ToSet(run.logs) \ {Head(run.logs)}
             /\ HasDistinct(Tail(run.logs)) /\ Tail(run.logs) \in Seq(Nat)
  BY <1>1, <1>2, ListIs
<1>3. ASSUME run.tables # <<>>
      PROVE  /\ Head(run.tables) \in Tables
             /\ ToSet(Tail(run.tables)) = Tables \ {Head(run.tables)}
             /\ HasDistinct(Tail(run.tables)) /\ Tail(run.tables) \in Seq(Nat)
  BY <1>1, <1>3, ListIs DEF Tables
<1>4. run.logs # <<>> => \E f \in dir : f.kind = "log" /\ f.number = Head(run.logs)
  BY <1>2 DEF LogsThere, IsLog
<1>5. run.tables # <<>> /\ ~Archived =>
        \E f \in dir : f.kind = "table" /\ f.number = Head(run.tables)
  BY <1>3 DEF TablesThere, TablesAhead, IsTable
<1>. QED
  BY <1>2, <1>3, <1>4, <1>5

\* A log or a table goes to lost/, over one of its name.
LEMMA ArchiveIs ==
  ASSUME RepairTyped, NamesInv, NEW kind, NEW n, \E f \in dir : f.kind = kind /\ f.number = n,
         Fix!ArchiveFile(kind, n)
  PROVE  \/ /\ dir' = dir \ {Fix!Named(kind, n)} /\ errors' = errors
            /\ lost' = {t \in lost : ~(t.kind = kind /\ t.number = n)} \cup {Fix!Named(kind, n)}
         \/ dir' = dir /\ lost' = lost /\ errors' = errors + 1
BY FileIs DEF Fix!ArchiveFile, Fix!Moved, Fix!Without, Fix!Is, Fix!NoError, Fix!Error

LEMMA ConvertKeeps == RepairInv /\ Fix!ConvertLogToTable => RepairInv'
<1>. SUFFICES ASSUME RepairInv, Fix!ConvertLogToTable PROVE RepairInv'
  OBVIOUS
<1>. USE DEF RepairInv
<1>1. /\ run.logs \in Seq(Nat) /\ run.tables \in Seq(Nat) /\ run.next \in Nat
      /\ run.scanned \in SUBSET [number : Nat, max : Nat] /\ run.copy \in AnyFile
      /\ Tables \subseteq Nat /\ Scanned \subseteq Nat
      /\ \A f \in dir : f \in AnyFile
      /\ \A f \in lost : f \in AnyFile
  BY RunIs
<1>2. run.pc = "convert" /\ run.logs # <<>>
  BY DEF Fix!ConvertLogToTable
<1>. DEFINE h == Head(run.logs)
            log == Fix!Named("log", h)
            new == Fix!File("table", run.next, log.entries, TRUE)
<1>3. h \in ToSet(run.logs) /\ h \in Nat
  BY <1>1, <1>2, ListIs
<1>4. log \in dir /\ log.kind = "log" /\ log.number = h
  <2>1. PICK f \in dir : IsLog(f, h)
    BY <1>2, <1>3 DEF NamesInv, LogsThere, Running
  <2>2. f.kind = "log" /\ f.number = h
    BY <2>1 DEF IsLog
  <2>3. Fix!Named(f.kind, f.number) = f
    BY <2>1, NamedIs
  <2>. QED
    BY <2>1, <2>2, <2>3
<1>. HIDE DEF h, log
<1>5. new \in AnyFile /\ new.kind = "table" /\ new.number = run.next /\ new.entries = log.entries
      /\ new.sound = TRUE
  BY <1>1, <1>4 DEF Fix!File, AnyFile
<1>. HIDE DEF new
<1>6. \/ dir' = dir \cup {new} /\ run'.tables = Append(run.tables, run.next)
      \/ dir' = dir /\ run'.tables = run.tables /\ (errors' = errors => log.entries = {})
  <2>1. run' = [run EXCEPT !.pc = "archiveLog", !.next = @ + 1,
                     !.tables = IF dir' = dir THEN @ ELSE Append(@, run.next)]
        \/ run' = [run EXCEPT !.pc = "archiveLog", !.next = @ + 1]
    BY DEF Fix!ConvertLogToTable
  <2>2. run'.tables \in {run.tables, IF dir' = dir THEN run.tables ELSE Append(run.tables, run.next)}
    BY <2>1 DEF RepairTyped, Repairers
  <2>3. CASE log.entries = {}
    <3>1. dir' = dir
      BY <2>3 DEF Fix!ConvertLogToTable, Fix!Converted, log, h
    <3>. QED
      BY <2>2, <2>3, <3>1
  <2>4. CASE log.entries # {}
    <3>1. \/ dir' = dir \cup {new}
             /\ run' = [run EXCEPT !.pc = "archiveLog", !.next = @ + 1,
                     !.tables = IF dir' = dir THEN @ ELSE Append(@, run.next)]
          \/ dir' = dir /\ Fix!Error /\ run' = [run EXCEPT !.pc = "archiveLog", !.next = @ + 1]
      BY <2>4 DEF Fix!ConvertLogToTable, Fix!Converted, log, h, new
    <3>2. new \notin dir
      BY <1>1, <1>2, <1>5 DEF NamesInv, NextIsNew, Running
    <3>3. CASE dir' = dir \cup {new} /\ run' = [run EXCEPT !.pc = "archiveLog", !.next = @ + 1,
                     !.tables = IF dir' = dir THEN @ ELSE Append(@, run.next)]
      <4>1. dir' # dir
        BY <3>2, <3>3
      <4>. QED
        BY <3>3, <4>1 DEF RepairTyped, Repairers
    <3>4. CASE dir' = dir /\ Fix!Error /\ run' = [run EXCEPT !.pc = "archiveLog", !.next = @ + 1]
      BY <3>4 DEF RepairTyped, Repairers, Fix!Error
    <3>. QED
      BY <3>1, <3>3, <3>4
  <2>. QED
    BY <2>3, <2>4
<1>7. /\ run'.pc = "archiveLog" /\ run'.logs = run.logs /\ run'.next = run.next + 1
      /\ run'.scanned = run.scanned /\ run'.copy = run.copy
      /\ DOMAIN run' = DOMAIN run
  BY DEF RepairTyped, Repairers, Fix!ConvertLogToTable
<1>8. /\ UNCHANGED <<lost, had, descriptor, runs, killed, givenUp>>
      /\ errors' \in Nat /\ (errors' = 0 => errors = 0 /\ errors' = errors)
  BY DEF Fix!ConvertLogToTable, Fix!Error, Fix!NoError, RepairTyped
<1>9. run'.tables \in Seq(Nat)
  BY <1>1, <1>6, ListAppend
<1>10. RepairTyped'
  <2>1. run' \in Repairers
    <3>1. run' = [pc |-> "archiveLog", logs |-> run.logs, tables |-> run'.tables,
                  scanned |-> run.scanned, next |-> run.next + 1, copy |-> run.copy]
      BY DEF RepairTyped, Repairers, Fix!ConvertLogToTable
    <3>. QED
      BY <1>1, <1>9, <3>1 DEF Repairers, RepairSteps
  <2>2. IsFiniteSet(dir')
    BY <1>6, DirFinite
  <2>3. dir' \in SUBSET AnyFile
    BY <1>1, <1>5, <1>6
  <2>. QED
    BY <1>7, <1>8, <2>1, <2>2, <2>3 DEF RepairTyped
<1>11. /\ LogsAhead = ToSet(run.logs) /\ LogsAhead' = ToSet(run.logs) \ {h}
       /\ TablesAhead = Tables /\ TablesAhead' = Tables' /\ Scanned' = Scanned
       /\ Running /\ Running' /\ ~Archived /\ ~Archived' /\ ~Copying /\ ~Copying' /\ ~Repairing'
  <2>1. HasDistinct(run.logs)
    BY <1>2 DEF NamesInv, RunInv, Running
  <2>2. ToSet(Tail(run.logs)) = ToSet(run.logs) \ {h}
    BY <1>1, <1>2, <2>1, ListIs DEF h
  <2>. QED
    BY <1>2, <1>7, <2>2
       DEF LogsAhead, TablesAhead, Tables, Scanned, Running, Archived, Copying, Repairing
<1>12. /\ run.next \notin Tables /\ run.next \notin Scanned
       /\ \/ dir' = dir \cup {new} /\ Tables' = Tables \cup {run.next}
          \/ dir' = dir /\ Tables' = Tables /\ (errors' = errors => log.entries = {})
       /\ HasDistinct(run'.tables)
  <2>1. HasDistinct(run.tables) /\ run.next \notin Tables /\ run.next \notin Scanned
    BY <1>1, <1>11 DEF NamesInv, RunInv, NextIsNew
  <2>2. run'.tables = Append(run.tables, run.next) =>
          Tables' = Tables \cup {run.next} /\ HasDistinct(run'.tables)
    BY <1>1, <2>1, ListAppend DEF Tables
  <2>3. run'.tables = run.tables => Tables' = Tables /\ HasDistinct(run'.tables)
    BY <2>1 DEF Tables
  <2>. QED
    BY <1>6, <2>1, <2>2, <2>3
<1>13. NamesInv'
  <2>1. OwnNames'
    BY <1>5, <1>11, <1>12, NextIs DEF NamesInv, OwnNames
  <2>2. RunInv'
    BY <1>7, <1>8, <1>11, <1>12 DEF NamesInv, RunInv
  <2>3. NextIsNew'
    BY <1>5, <1>7, <1>11, <1>12, NextIs DEF NextIsNew
  <2>4. LogsThere'
    BY <1>7, <1>11, <1>12 DEF NamesInv, LogsThere, IsLog
  <2>5. TablesThere'
    BY <1>5, <1>11, <1>12 DEF NamesInv, TablesThere, IsTable
  <2>6. ScannedThere'
    BY <1>7, <1>11, <1>12 DEF NamesInv, ScannedThere, IsTable, Scanned
  <2>. QED
    BY <2>1, <2>2, <2>3, <2>4, <2>5, <2>6 DEF NamesInv
<1>14. PlaceInv' /\ CopyInv'
  BY <1>2, <1>7, <1>11 DEF PlaceInv, CopyInv
<1>15. LostInv'
  <2>1. LogsApart'
    BY <1>5, <1>8, <1>12 DEF LostInv, LogsApart
  <2>2. SafeWithoutError'
    BY <1>5, <1>8, <1>11, <1>12 DEF LostInv, SafeWithoutError, Below, IsTable
  <2>3. NextIsNotLost'
    BY <1>1, <1>7, <1>8, <1>11 DEF LostInv, NextIsNotLost, AnyFile
  <2>4. SafeInFirst'
    <3>1. runs <= 1 => \A t \in lost : t.number # run.next
      BY <1>1, <1>11 DEF LostInv, NextIsNotLost, AnyFile
    <3>. QED
      BY <1>5, <1>8, <1>11, <1>12, <3>1 DEF LostInv, SafeInFirst, IsTable
  <2>5. SafeInSecond'
    BY <1>5, <1>8, <1>11, <1>12, NextIs DEF LostInv, SafeInSecond, IsTable
  <2>. QED
    BY <2>1, <2>2, <2>3, <2>4, <2>5 DEF LostInv
<1>16. KeptInv'
  <2>1. KeptSomewhere'
    BY <1>8, <1>12 DEF KeptInv, KeptSomewhere
  <2>2. KeptAhead'
    <3> SUFFICES ASSUME errors' = 0, killed' = 0, NEW e \in had PROVE Reached(e)'
      BY <1>8, <1>11 DEF KeptAhead
    <3>1. PICK f \in dir : e \in f.entries /\ Ahead(f)
      BY <1>8, <1>11 DEF KeptInv, KeptAhead, Reached
    <3>2. CASE f = log
      <4>1. dir' = dir \cup {new} /\ Tables' = Tables \cup {run.next}
        BY <1>8, <1>12, <3>1, <3>2
      <4>. QED
        BY <1>5, <1>11, <3>1, <3>2, <4>1 DEF Reached, Ahead
    <3>3. CASE f # log
      <4>1. ~(f.kind = "log" /\ f.number = h)
        BY <1>4, <3>3 DEF NamesInv, OwnNames
      <4>2. Ahead(f)'
        BY <1>11, <1>12, <3>1, <4>1 DEF Ahead
      <4>. QED
        BY <1>12, <3>1, <4>2 DEF Reached
    <3>. QED
      BY <3>2, <3>3
  <2>. QED
    BY <2>1, <2>2 DEF KeptInv
<1>17. EndInv'
  BY <1>8, <1>11 DEF EndInv, NamesInv, RunInv
<1>. QED
  BY <1>10, <1>13, <1>14, <1>15, <1>16, <1>17

LEMMA ArchiveLogKeeps == RepairInv /\ Fix!ArchiveLog => RepairInv'
<1>. SUFFICES ASSUME RepairInv, Fix!ArchiveLog PROVE RepairInv'
  OBVIOUS
<1>. USE DEF RepairInv
<1>1. run.pc = "archiveLog" /\ run.logs # <<>> /\ Running
  BY DEF Fix!ArchiveLog, PlaceInv, Running
<1>. DEFINE h == Head(run.logs)
            log == Fix!Named("log", h)
<1>2. /\ h \in ToSet(run.logs) /\ ToSet(Tail(run.logs)) = ToSet(run.logs) \ {h}
      /\ HasDistinct(Tail(run.logs)) /\ Tail(run.logs) \in Seq(Nat)
      /\ \E f \in dir : f.kind = "log" /\ f.number = h
  BY <1>1, HeadIs
<1>3. /\ log \in dir /\ log.kind = "log" /\ log.number = h
      /\ \A f \in dir : f.kind = "log" /\ f.number = h => f = log
  BY <1>2, FileIs
<1>4. \/ dir' = dir \ {log} /\ lost' = lost \cup {log} /\ errors' = errors
      \/ dir' = dir /\ lost' = lost /\ errors' = errors + 1
  <2>1. \/ /\ dir' = dir \ {log} /\ errors' = errors
           /\ lost' = {t \in lost : ~(t.kind = "log" /\ t.number = h)} \cup {log}
        \/ dir' = dir /\ lost' = lost /\ errors' = errors + 1
    BY <1>2, ArchiveIs DEF Fix!ArchiveLog
  <2>2. {t \in lost : ~(t.kind = "log" /\ t.number = h)} = lost
    BY <1>3 DEF LostInv, LogsApart
  <2>. QED
    BY <2>1, <2>2
<1>. HIDE DEF h, log
<1>5. run' = [run EXCEPT !.pc = "convert", !.logs = Tail(@)]
  BY DEF Fix!ArchiveLog
<1>6. /\ run'.pc = "convert" /\ run'.logs = Tail(run.logs) /\ run'.tables = run.tables
      /\ run'.scanned = run.scanned /\ run'.next = run.next
      /\ UNCHANGED <<had, descriptor, runs, killed, givenUp>>
  BY <1>5 DEF RepairTyped, Repairers, Fix!ArchiveLog
<1>7. errors \in Nat /\ errors' \in Nat /\ (errors' = 0 => errors = 0 /\ errors' # errors + 1)
  BY <1>4 DEF RepairTyped
<1>8. RepairTyped'
  <2>1. run' \in Repairers
    BY <1>2, <1>5 DEF RepairTyped, Repairers, RepairSteps
  <2>2. IsFiniteSet(dir')
    BY <1>4, DirFinite
  <2>. QED
    BY <1>3, <1>4, <1>6, <1>7, <2>1, <2>2 DEF RepairTyped
<1>9. /\ LogsAhead' = LogsAhead /\ ToSet(run'.logs) = ToSet(run.logs) \ {h}
      /\ LogsAhead = ToSet(run.logs) \ {h}
      /\ TablesAhead = Tables /\ TablesAhead' = Tables /\ Tables' = Tables /\ Scanned' = Scanned
      /\ Running' /\ ~Archived /\ ~Archived' /\ ~Copying /\ ~Copying' /\ ~Repairing'
  BY <1>1, <1>2, <1>6
     DEF LogsAhead, TablesAhead, Tables, Scanned, Running, Archived, Copying, Repairing
<1>10. NamesInv'
  <2>1. OwnNames' /\ NextIsNew'
    BY <1>1, <1>4, <1>6, <1>9 DEF NamesInv, OwnNames, NextIsNew
  <2>2. RunInv'
    BY <1>1, <1>2, <1>6, <1>9 DEF NamesInv, RunInv
  <2>3. LogsThere'
    BY <1>1, <1>3, <1>4, <1>9 DEF NamesInv, LogsThere, IsLog
  <2>4. TablesThere' /\ ScannedThere'
    BY <1>1, <1>3, <1>4, <1>6, <1>9 DEF NamesInv, TablesThere, ScannedThere, IsTable
  <2>. QED
    BY <2>1, <2>2, <2>3, <2>4 DEF NamesInv
<1>11. PlaceInv' /\ CopyInv'
  BY <1>6, <1>9 DEF PlaceInv, CopyInv
<1>12. LostInv'
  <2>1. LogsApart'
    BY <1>3, <1>4 DEF LostInv, LogsApart
  <2>2. SafeWithoutError'
    BY <1>3, <1>4, <1>7, <1>9 DEF LostInv, SafeWithoutError, Below, IsTable
  <2>3. NextIsNotLost'
    BY <1>1, <1>3, <1>4, <1>6, NextIs DEF LostInv, NextIsNotLost, NamesInv, RunInv
  <2>4. SafeInFirst' /\ SafeInSecond'
    BY <1>1, <1>3, <1>4, <1>6, <1>9 DEF LostInv, SafeInFirst, SafeInSecond, IsTable
  <2>. QED
    BY <2>1, <2>2, <2>3, <2>4 DEF LostInv
<1>13. KeptInv'
  <2>1. KeptSomewhere'
    BY <1>4, <1>6, <1>7 DEF KeptInv, KeptSomewhere
  <2>2. KeptAhead'
    BY <1>1, <1>3, <1>4, <1>6, <1>7, <1>9 DEF KeptInv, KeptAhead, Reached, Ahead
  <2>. QED
    BY <2>1, <2>2 DEF KeptInv
<1>14. EndInv'
  BY <1>1, <1>6 DEF EndInv, NamesInv, RunInv
<1>. QED
  BY <1>8, <1>10, <1>11, <1>12, <1>13, <1>14

LEMMA ScanTableKeeps == RepairInv /\ Fix!ScanTable => RepairInv'
<1>. SUFFICES ASSUME RepairInv, Fix!ScanTable PROVE RepairInv'
  OBVIOUS
<1>. USE DEF RepairInv
<1>1. run.pc = "convert" /\ run.logs = <<>> /\ run.tables # <<>> /\ Running /\ ~Archived
  BY DEF Fix!ScanTable, Fix!Scanning, Running, Archived
<1>. DEFINE h == Head(run.tables)
            table == Fix!Named("table", h)
            info == Fix!TableInfo(table)
<1>2. /\ h \in Tables /\ ToSet(Tail(run.tables)) = Tables \ {h}
      /\ HasDistinct(Tail(run.tables)) /\ Tail(run.tables) \in Seq(Nat)
      /\ \E f \in dir : f.kind = "table" /\ f.number = h
  BY <1>1, HeadIs
<1>3. /\ table \in dir /\ table.kind = "table" /\ table.number = h
      /\ \A f \in dir : f.kind = "table" /\ f.number = h => f = table
  BY <1>2, FileIs
<1>4. info.number = h /\ info.max \in Nat /\ info \in [number : Nat, max : Nat]
      /\ \A e \in table.entries : e <= info.max
  <2>1. table.entries \in SUBSET Nat /\ IsFiniteSet(table.entries) /\ table.number \in Nat
    BY <1>3, RunIs DEF AnyFile, Reading
  <2>. QED
    BY <1>3, <2>1, HighestIs DEF Fix!TableInfo
<1>5. UNCHANGED <<dir, lost, had, descriptor, runs, errors, killed, givenUp>>
  BY DEF Fix!ScanTable
<1>6. CASE table.sound
  <2>1. run' = [run EXCEPT !.scanned = @ \cup {info}, !.tables = Tail(@)]
    BY <1>6 DEF Fix!ScanTable, Fix!Kept, Fix!Table, h, table, info
  <2>. HIDE DEF h, table, info
  <2>2. /\ run'.pc = "convert" /\ run'.logs = run.logs /\ run'.tables = Tail(run.tables)
        /\ run'.scanned = run.scanned \cup {info} /\ run'.next = run.next
    BY <1>1, <2>1 DEF RepairTyped, Repairers
  <2>3. RepairTyped'
    <3>1. run' \in Repairers
      <4>1. run.scanned \cup {info} \in SUBSET [number : Nat, max : Nat]
        BY <1>4, RunIs
      <4>. QED
        BY <1>2, <2>1, <4>1 DEF RepairTyped, Repairers
    <3>2. IsFiniteSet(run'.scanned)
      <4>1. IsFiniteSet(run.scanned \cup {info})
        <5>1. IsFiniteSet(run.scanned)
          BY DEF RepairTyped
        <5>. QED
          BY <5>1, FS_AddElement, Zenon
      <4>. QED
        BY <2>2, <4>1
    <3>. QED
      BY <1>5, <3>1, <3>2 DEF RepairTyped
  <2>4. /\ LogsAhead' = LogsAhead /\ Tables' = Tables \ {h} /\ Scanned' = Scanned \cup {h}
        /\ TablesAhead = Tables /\ TablesAhead' = Tables' 
        /\ Running' /\ ~Archived' /\ ~Copying /\ ~Copying' /\ ~Repairing'
    BY <1>1, <1>2, <1>4, <2>2
       DEF LogsAhead, TablesAhead, Tables, Scanned, Running, Archived, Copying, Repairing
  <2>5. NamesInv'
    <3>1. OwnNames' /\ NextIsNew'
      BY <1>1, <1>2, <1>5, <2>2, <2>4 DEF NamesInv, OwnNames, NextIsNew
    <3>2. RunInv'
      BY <1>1, <1>2, <1>5, <2>2, <2>4 DEF NamesInv, RunInv
    <3>3. LogsThere' /\ TablesThere'
      BY <1>1, <1>5, <2>2, <2>4 DEF NamesInv, LogsThere, TablesThere
    <3>4. ScannedThere'
      BY <1>1, <1>2, <1>3, <1>4, <1>5, <1>6, <2>2, <2>4 DEF NamesInv, ScannedThere, IsTable
    <3>. QED
      BY <3>1, <3>2, <3>3, <3>4 DEF NamesInv
  <2>6. PlaceInv' /\ CopyInv'
    BY <2>2, <2>4 DEF PlaceInv, CopyInv
  <2>7. LostInv'
    BY <1>1, <1>5, <2>2, <2>4
       DEF LostInv, LogsApart, SafeWithoutError, Below, NextIsNotLost, SafeInFirst, SafeInSecond
  <2>8. KeptInv'
    BY <1>1, <1>5, <2>2, <2>4 DEF KeptInv, KeptSomewhere, KeptAhead, Reached, Ahead
  <2>9. EndInv'
    BY <1>1, <1>5 DEF EndInv, NamesInv, RunInv
  <2>. QED
    BY <2>3, <2>5, <2>6, <2>7, <2>8, <2>9
<1>7. CASE ~table.sound
  <2>1. run' = [run EXCEPT !.pc = "repair"]
    BY <1>7 DEF Fix!ScanTable, Fix!Table, h, table
  <2>. HIDE DEF h, table, info
  <2>2. /\ run'.pc = "repair" /\ run'.logs = run.logs /\ run'.tables = run.tables
        /\ run'.scanned = run.scanned /\ run'.next = run.next
    BY <1>1, <2>1 DEF RepairTyped, Repairers
  <2>3. RepairTyped'
    BY <1>5, <2>1 DEF RepairTyped, Repairers, RepairSteps
  <2>4. /\ LogsAhead' = LogsAhead /\ Tables' = Tables /\ Scanned' = Scanned
        /\ TablesAhead = Tables /\ TablesAhead' = Tables
        /\ Running' /\ ~Archived' /\ ~Copying /\ ~Copying'
    BY <1>1, <2>2 DEF LogsAhead, TablesAhead, Tables, Scanned, Running, Archived, Copying
  <2>5. NamesInv'
    BY <1>1, <1>5, <2>2, <2>4
       DEF NamesInv, OwnNames, RunInv, NextIsNew, LogsThere, TablesThere, ScannedThere
  <2>6. PlaceInv' /\ CopyInv'
    BY <1>1, <1>3, <1>5, <1>7, <2>2, <2>4 DEF PlaceInv, CopyInv, InHand, IsTable, h
  <2>7. LostInv'
    BY <1>1, <1>5, <2>2, <2>4
       DEF LostInv, LogsApart, SafeWithoutError, Below, NextIsNotLost, SafeInFirst, SafeInSecond
  <2>8. KeptInv'
    BY <1>1, <1>5, <2>2, <2>4 DEF KeptInv, KeptSomewhere, KeptAhead, Reached, Ahead
  <2>9. EndInv'
    BY <1>1, <1>5 DEF EndInv, NamesInv, RunInv
  <2>. QED
    BY <2>3, <2>5, <2>6, <2>7, <2>8, <2>9
<1>. QED
  BY <1>6, <1>7

LEMMA GiveUpTableKeeps == RepairInv /\ Fix!GiveUpTable => RepairInv'
<1>. SUFFICES ASSUME RepairInv, Fix!GiveUpTable PROVE RepairInv'
  OBVIOUS
<1>. USE DEF RepairInv
<1>1. run.pc = "convert" /\ run.logs = <<>> /\ run.tables # <<>> /\ Running /\ ~Archived
  BY DEF Fix!GiveUpTable, Fix!Scanning, Running, Archived
<1>. DEFINE h == Head(run.tables)
<1>2. /\ h \in Tables /\ ToSet(Tail(run.tables)) = Tables \ {h}
      /\ HasDistinct(Tail(run.tables)) /\ Tail(run.tables) \in Seq(Nat)
      /\ \E f \in dir : f.kind = "table" /\ f.number = h
  BY <1>1, HeadIs
<1>3. PICK table \in dir :
        /\ table = Fix!Named("table", h) /\ table.kind = "table" /\ table.number = h
        /\ Fix!Without(dir, "table", h) = dir \ {table}
        /\ \A f \in dir : f.kind = "table" /\ f.number = h => f = table
  BY <1>2, FileIs
<1>4. \/ /\ dir' = dir \ {table}
         /\ lost' = {t \in lost : ~(t.kind = "table" /\ t.number = h)} \cup {table}
      \/ dir' = dir /\ lost' = lost
  BY <1>3 DEF Fix!GiveUpTable, Fix!Moved, Fix!Without, Fix!Is, h
<1>5. /\ run' = [run EXCEPT !.tables = Tail(@)] /\ givenUp' = (givenUp \/ runs > 1)
      /\ errors' = errors + 1 /\ UNCHANGED <<had, descriptor, runs, killed>>
  BY DEF Fix!GiveUpTable, Fix!Error
<1>. HIDE DEF h
<1>6. /\ run'.pc = "convert" /\ run'.logs = run.logs /\ run'.tables = Tail(run.tables)
      /\ run'.scanned = run.scanned /\ run'.next = run.next
  BY <1>1, <1>5 DEF RepairTyped, Repairers
<1>7. errors' \in Nat /\ errors' # 0
  BY <1>5 DEF RepairTyped
<1>8. RepairTyped'
  <2>1. run' \in Repairers
    BY <1>2, <1>5 DEF RepairTyped, Repairers
  <2>2. IsFiniteSet(dir')
    BY <1>4, DirFinite
  <2>3. lost' \in SUBSET AnyFile /\ dir' \in SUBSET AnyFile
    BY <1>3, <1>4 DEF RepairTyped
  <2>4. givenUp' \in BOOLEAN
    BY <1>5 DEF RepairTyped
  <2>. QED
    BY <1>5, <1>6, <1>7, <2>1, <2>2, <2>3, <2>4 DEF RepairTyped
<1>9. /\ LogsAhead' = LogsAhead /\ Tables' = Tables \ {h} /\ Scanned' = Scanned
      /\ TablesAhead = Tables /\ TablesAhead' = Tables \ {h}
      /\ Running' /\ ~Archived' /\ ~Copying /\ ~Copying' /\ ~Repairing'
  BY <1>1, <1>2, <1>6
     DEF LogsAhead, TablesAhead, Tables, Scanned, Running, Archived, Copying, Repairing
<1>10. dir' \subseteq dir /\ \A f \in dir : f \in dir' \/ f = table
  BY <1>4
<1>11. NamesInv'
  <2>1. OwnNames' /\ NextIsNew' /\ LogsThere'
    BY <1>1, <1>3, <1>6, <1>9, <1>10 DEF NamesInv, OwnNames, NextIsNew, LogsThere, IsLog
  <2>2. RunInv'
    BY <1>1, <1>2, <1>5, <1>6, <1>9 DEF NamesInv, RunInv
  <2>3. TablesThere'
    BY <1>1, <1>3, <1>9, <1>10 DEF NamesInv, TablesThere, IsTable
  <2>4. ScannedThere'
    BY <1>1, <1>2, <1>3, <1>6, <1>9, <1>10 DEF NamesInv, ScannedThere, IsTable
  <2>. QED
    BY <2>1, <2>2, <2>3, <2>4 DEF NamesInv
<1>12. PlaceInv' /\ CopyInv'
  BY <1>6, <1>9 DEF PlaceInv, CopyInv
<1>13. LostInv'
  <2>1. LogsApart'
    BY <1>3, <1>4 DEF LostInv, LogsApart
  <2>2. SafeWithoutError'
    BY <1>7 DEF SafeWithoutError
  <2>3. NextIsNotLost'
    BY <1>1, <1>2, <1>3, <1>4, <1>5, <1>6, <1>9
       DEF LostInv, NextIsNotLost, NamesInv, NextIsNew, RunInv
  <2>4. SafeInFirst'
    BY <1>1, <1>2, <1>3, <1>4, <1>5, <1>9 DEF LostInv, SafeInFirst, IsTable
  <2>5. SafeInSecond'
    BY <1>1, <1>2, <1>3, <1>4, <1>5, <1>9 DEF LostInv, SafeInSecond, IsTable
  <2>. QED
    BY <2>1, <2>2, <2>3, <2>4, <2>5 DEF LostInv
<1>14. KeptInv'
  <2>1. KeptSomewhere'
    <3>. SUFFICES ASSUME runs' <= 2, ~givenUp', NEW e \in had'
                  PROVE  \E f \in dir' \cup lost' : e \in f.entries
      BY <1>7 DEF KeptSomewhere
    <3>1. runs <= 1 /\ runs <= 2 /\ ~givenUp /\ e \in had
      <4>1. ~givenUp /\ ~(runs > 1)
        BY <1>5, Zenon
      <4>2. runs \in Nat /\ e \in had
        BY <1>5 DEF RepairTyped
      <4>. QED
        BY <4>1, <4>2
    <3>2. PICK f \in dir \cup lost : e \in f.entries
      BY <3>1 DEF KeptInv, KeptSomewhere
    <3>3. \A t \in lost : ~(t.kind = "table" /\ t.number = h)
      BY <1>1, <1>2, <1>3, <1>9, <3>1 DEF LostInv, SafeInFirst, IsTable
    <3>4. f \in dir' \cup lost'
      BY <1>4, <3>2, <3>3
    <3>. QED
      BY <3>2, <3>4
  <2>2. KeptAhead'
    BY <1>7 DEF KeptAhead
  <2>. QED
    BY <2>1, <2>2 DEF KeptInv
<1>15. EndInv'
  BY <1>1, <1>5 DEF EndInv, NamesInv, RunInv
<1>. QED
  BY <1>8, <1>11, <1>12, <1>13, <1>14, <1>15

LEMMA CreateCopyKeeps == RepairInv /\ Fix!CreateCopy => RepairInv'
<1>. SUFFICES ASSUME RepairInv, Fix!CreateCopy PROVE RepairInv'
  OBVIOUS
<1>. USE DEF RepairInv
<1>1. run.pc = "repair" /\ run.logs = <<>> /\ run.tables # <<>> /\ Running /\ ~Archived
  BY DEF Fix!CreateCopy, PlaceInv, Repairing, Running, Archived
<1>. DEFINE h == Head(run.tables)
<1>2. /\ h \in Tables /\ ToSet(Tail(run.tables)) = Tables \ {h}
      /\ HasDistinct(Tail(run.tables)) /\ Tail(run.tables) \in Seq(Nat)
      /\ \E f \in dir : f.kind = "table" /\ f.number = h
  BY <1>1, HeadIs
<1>3. PICK table \in dir :
        /\ table = Fix!Table /\ table.kind = "table" /\ table.number = h
        /\ \A f \in dir : f.kind = "table" /\ f.number = h => f = table
  BY <1>2, FileIs DEF Fix!Table
<1>. DEFINE part == Fix!File("table", run.next, {}, FALSE)
            copy == Fix!File("table", run.next, table.entries, TRUE)
<1>4. /\ part \in AnyFile /\ part.kind = "table" /\ part.number = run.next /\ part.sound = FALSE
      /\ part.entries = {}
      /\ copy \in AnyFile /\ copy.kind = "table" /\ copy.number = run.next /\ copy.sound = TRUE
      /\ copy.entries = table.entries
  <2>1. table.entries \in Reading /\ {} \in Reading /\ run.next \in Nat
    BY <1>3, RunIs, FS_EmptySet DEF AnyFile, Reading
  <2>. QED
    BY <2>1 DEF Fix!File, AnyFile
<1>5. UNCHANGED <<lost, had, descriptor, runs, killed, givenUp>>
  BY DEF Fix!CreateCopy
<1>6. CASE /\ dir' = dir \cup {part} /\ errors' = errors
           /\ run' = [run EXCEPT !.pc = "archiveTable", !.next = @ + 1, !.copy = copy]
  <2>. HIDE DEF h, part, copy
  <2>2. /\ run'.pc = "archiveTable" /\ run'.logs = run.logs /\ run'.tables = run.tables
        /\ run'.scanned = run.scanned /\ run'.next = run.next + 1 /\ run'.copy = copy
    BY <1>1, <1>6 DEF RepairTyped, Repairers
  <2>3. RepairTyped'
    <3>1. run' \in Repairers
      <4>1. run' = [pc |-> "archiveTable", logs |-> run.logs, tables |-> run.tables,
                    scanned |-> run.scanned, next |-> run.next + 1, copy |-> copy]
        BY <1>6 DEF RepairTyped, Repairers
      <4>2. "archiveTable" \in RepairSteps
        BY DEF RepairSteps
      <4>. QED
        BY <1>1, <1>4, <4>1, <4>2, RunIs, NextIs, RunTyped
    <3>2. IsFiniteSet(dir')
      BY <1>6, DirFinite
    <3>. QED
      BY <1>4, <1>5, <1>6, <2>2, <3>1, <3>2 DEF RepairTyped
  <2>4. /\ LogsAhead' = LogsAhead /\ Tables' = Tables /\ Scanned' = Scanned
        /\ TablesAhead = Tables /\ TablesAhead' = Tables
        /\ Running' /\ ~Archived' /\ ~Copying /\ Copying'
    BY <1>1, <2>2 DEF LogsAhead, TablesAhead, Tables, Scanned, Running, Archived, Copying
  <2>5. NamesInv'
    <3>1. OwnNames'
      BY <1>1, <1>4, <1>6, NextIs DEF NamesInv, OwnNames
    <3>2. RunInv' /\ LogsThere'
      BY <1>1, <1>2, <1>5, <1>6, <2>2, <2>4 DEF NamesInv, RunInv, LogsThere
    <3>3. NextIsNew'
      BY <1>1, <1>4, <1>6, <2>2, <2>4, NextIs DEF NextIsNew
    <3>4. TablesThere' /\ ScannedThere'
      BY <1>1, <1>6, <2>2, <2>4 DEF NamesInv, TablesThere, ScannedThere
    <3>. QED
      BY <3>1, <3>2, <3>3, <3>4 DEF NamesInv
  <2>6. \A f \in dir' : InHand(f)' => f = table
    BY <1>1, <1>2, <1>3, <1>4, <1>6, <2>2, NextIs DEF InHand, IsTable, h
  <2>7. PlaceInv'
    BY <1>1, <1>3, <1>6, <2>2, <2>6 DEF PlaceInv, InHand, IsTable, h
  <2>8. CopyInv'
    <3>1. IsTable(table, Head(run'.tables)) /\ table \in dir' /\ table.entries = run'.copy.entries
      BY <1>3, <1>4, <1>6, <2>2 DEF IsTable, h
    <3>2. \E f \in dir' \cup lost' : InHand(f)' /\ f.entries = run'.copy.entries
      BY <3>1 DEF InHand
    <3>3. \A f \in dir' : InHand(f)' => f.entries = run'.copy.entries
      BY <2>6, <3>1
    <3>4. \A n \in Tables' \cup Scanned' : n < run'.copy.number
      BY <1>1, <1>4, <2>2, <2>4, NextIs
    <3>5. IsTable(part, run'.copy.number) /\ part.entries = {} /\ part \in dir'
      BY <1>4, <1>6, <2>2 DEF IsTable
    <3>. QED
      BY <1>4, <2>2, <3>2, <3>3, <3>4, <3>5 DEF CopyInv
  <2>9. LostInv'
    <3>1. LogsApart'
      BY <1>4, <1>5, <1>6 DEF LostInv, LogsApart
    <3>2. NextIsNotLost'
      BY <1>1, <1>5, <2>2, <2>3, RunIs, NextIs
         DEF LostInv, NextIsNotLost, NamesInv, RunInv, AnyFile
    <3>3. SafeWithoutError'
      <4> SUFFICES ASSUME errors = 0, NEW t \in lost, t.kind = "table" /\ t.entries # {}
                   PROVE  Below(t)' /\ \A f \in dir' : IsTable(f, t.number) => f.sound
        BY <1>5, <1>6 DEF SafeWithoutError
      <4>1. Below(t) /\ \A f \in dir : IsTable(f, t.number) => f.sound
        BY DEF LostInv, SafeWithoutError
      <4>2. PICK f \in dir : f.kind = "table" /\ t.number <= f.number
        BY <1>1, <4>1 DEF Below
      <4>3. f.number < run.next /\ f.number \in Nat /\ t.number \in Nat /\ run.next \in Nat
        BY <1>1, NextIs, RunIs DEF AnyFile
      <4>4. t.number # run.next /\ f.number # run.next
        BY <4>2, <4>3
      <4>. QED
        BY <1>4, <1>6, <2>2, <4>1, <4>2, <4>4 DEF Below, IsTable
    <3>4. SafeInFirst' /\ SafeInSecond'
      <4>1. runs <= 1 => \A t \in lost : t.number # run.next
        BY <1>1, RunIs DEF LostInv, NextIsNotLost, AnyFile
      <4>2. run.next \notin Tables
        BY <1>1, NextIs
      <4>. QED
        BY <1>1, <1>4, <1>5, <1>6, <2>4, <4>1, <4>2
           DEF LostInv, SafeInFirst, SafeInSecond, IsTable
    <3>. QED
      BY <3>1, <3>2, <3>3, <3>4 DEF LostInv
  <2>10. KeptInv'
    BY <1>1, <1>5, <1>6, <2>2, <2>4 DEF KeptInv, KeptSomewhere, KeptAhead, Reached, Ahead
  <2>11. EndInv'
    BY <1>1, <1>5 DEF EndInv, NamesInv, RunInv
  <2>. QED
    BY <2>3, <2>5, <2>7, <2>8, <2>9, <2>10, <2>11
<1>7. CASE dir' = dir /\ errors' = errors + 1 /\ run' = [Fix!Dropped EXCEPT !.next = @ + 1]
  <2>. HIDE DEF h, part, copy
  <2>1. run' = [pc |-> "convert", logs |-> run.logs, tables |-> Tail(run.tables),
                scanned |-> run.scanned, next |-> run.next + 1, copy |-> run.copy]
    BY <1>7 DEF RepairTyped, Repairers, Fix!Dropped
  <2>2. errors' \in Nat /\ errors' # 0
    BY <1>7 DEF RepairTyped
  <2>3. RepairTyped'
    <3>1. "convert" \in RepairSteps
      BY DEF RepairSteps
    <3>2. run' \in Repairers
      BY <1>1, <1>2, <2>1, <3>1, RunIs, NextIs, RunTyped
    <3>. QED
      BY <1>5, <1>7, <2>1, <2>2, <3>2 DEF RepairTyped
  <2>4. /\ LogsAhead' = LogsAhead /\ Tables' = Tables \ {h} /\ Scanned' = Scanned
        /\ TablesAhead = Tables /\ TablesAhead' = Tables'
        /\ Running' /\ ~Archived' /\ ~Copying' /\ ~Repairing'
    BY <1>1, <1>2, <2>1
       DEF LogsAhead, TablesAhead, Tables, Scanned, Running, Archived, Copying, Repairing
  <2>5. NamesInv'
    <3>1. OwnNames' /\ LogsThere'
      BY <1>1, <1>7, <2>1 DEF NamesInv, OwnNames, LogsThere
    <3>4. RunInv'
      BY <1>1, <1>2, <1>5, <2>1, <2>4 DEF NamesInv, RunInv
    <3>2. NextIsNew'
      BY <1>1, <1>7, <2>1, <2>4, NextIs DEF NextIsNew
    <3>3. TablesThere' /\ ScannedThere'
      BY <1>1, <1>7, <2>1, <2>4 DEF NamesInv, TablesThere, ScannedThere
    <3>. QED
      BY <3>1, <3>2, <3>3, <3>4 DEF NamesInv
  <2>6. PlaceInv' /\ CopyInv'
    BY <2>1, <2>4 DEF PlaceInv, CopyInv
  <2>7. LostInv'
    <3>1. NextIsNotLost'
      BY <1>1, <1>5, <2>1, <2>3, RunIs, NextIs
         DEF LostInv, NextIsNotLost, NamesInv, RunInv, AnyFile
    <3>. QED
      BY <1>1, <1>5, <1>7, <2>2, <2>4, <3>1
         DEF LostInv, LogsApart, SafeWithoutError, SafeInFirst, SafeInSecond
  <2>8. KeptInv'
    BY <1>1, <1>5, <1>7, <2>2 DEF KeptInv, KeptSomewhere, KeptAhead
  <2>9. EndInv'
    BY <1>1, <1>5 DEF EndInv, NamesInv, RunInv
  <2>. QED
    BY <2>3, <2>5, <2>6, <2>7, <2>8, <2>9
<1>. QED
  BY <1>3, <1>6, <1>7 DEF Fix!CreateCopy, Fix!NoError, Fix!Error, part, copy

LEMMA ArchiveTableKeeps == RepairInv /\ Fix!ArchiveTable => RepairInv'
<1>. SUFFICES ASSUME RepairInv, Fix!ArchiveTable PROVE RepairInv'
  OBVIOUS
<1>. USE DEF RepairInv
<1>1. /\ run.pc = "archiveTable" /\ run.logs = <<>> /\ run.tables # <<>>
      /\ Running /\ Copying /\ ~Archived
  BY DEF Fix!ArchiveTable, PlaceInv, Repairing, Copying, Running, Archived
<1>. DEFINE h == Head(run.tables)
<1>2. /\ h \in Tables /\ ToSet(Tail(run.tables)) = Tables \ {h}
      /\ \E f \in dir : f.kind = "table" /\ f.number = h
  BY <1>1, HeadIs
<1>3. PICK table \in dir :
        /\ table = Fix!Table /\ table.kind = "table" /\ table.number = h
        /\ \A f \in dir : f.kind = "table" /\ f.number = h => f = table
  BY <1>2, FileIs DEF Fix!Table
<1>4. ~table.sound /\ table.entries = run.copy.entries
  BY <1>1, <1>3 DEF PlaceInv, CopyInv, InHand, IsTable, h
<1>5. \/ /\ dir' = dir \ {table} /\ errors' = errors
         /\ lost' = {t \in lost : ~(t.kind = "table" /\ t.number = h)} \cup {table}
      \/ dir' = dir /\ lost' = lost /\ errors' = errors + 1
  BY <1>2, <1>3, ArchiveIs DEF Fix!ArchiveTable, Fix!Table
<1>. HIDE DEF h
<1>6. run' = [run EXCEPT !.pc = "finish"] /\ UNCHANGED <<had, descriptor, runs, killed, givenUp>>
  BY DEF Fix!ArchiveTable, Fix!Goes
<1>7. /\ run'.pc = "finish" /\ run'.logs = run.logs /\ run'.tables = run.tables
      /\ run'.scanned = run.scanned /\ run'.next = run.next /\ run'.copy = run.copy
  BY <1>6 DEF RepairTyped, Repairers
<1>8. errors \in Nat /\ errors' \in Nat /\ (errors' = 0 => errors = 0 /\ errors' # errors + 1)
  BY <1>5 DEF RepairTyped
<1>9. RepairTyped'
  <2>1. run' \in Repairers
    BY <1>6 DEF RepairTyped, Repairers, RepairSteps
  <2>2. IsFiniteSet(dir')
    BY <1>5, DirFinite
  <2>. QED
    BY <1>3, <1>5, <1>6, <1>7, <1>8, <2>1, <2>2 DEF RepairTyped
<1>10. /\ LogsAhead' = LogsAhead /\ Tables' = Tables /\ Scanned' = Scanned
       /\ TablesAhead = Tables /\ TablesAhead' = Tables \ {h}
       /\ Running' /\ Archived' /\ Copying'
  BY <1>1, <1>2, <1>7 DEF LogsAhead, TablesAhead, Tables, Scanned, Running, Archived, Copying
<1>11. NamesInv'
  <2>1. OwnNames' /\ NextIsNew' /\ LogsThere'
    BY <1>1, <1>3, <1>5, <1>7, <1>10 DEF NamesInv, OwnNames, NextIsNew, LogsThere, IsLog
  <2>2. RunInv'
    BY <1>1, <1>6, <1>7, <1>10 DEF NamesInv, RunInv
  <2>3. TablesThere'
    BY <1>1, <1>3, <1>5, <1>10 DEF NamesInv, TablesThere, IsTable
  <2>4. ScannedThere'
    BY <1>1, <1>2, <1>3, <1>5, <1>7, <1>10 DEF NamesInv, ScannedThere, IsTable
  <2>. QED
    BY <2>1, <2>2, <2>3, <2>4 DEF NamesInv
<1>12. PlaceInv'
  BY <1>1, <1>7 DEF PlaceInv, Repairing, Copying
<1>13. h < run.copy.number /\ h # run.copy.number
  <2>1. h \in Nat /\ run.copy.number \in Nat
    BY <1>2, RunIs DEF AnyFile
  <2>2. h < run.copy.number
    BY <1>1, <1>2 DEF CopyInv
  <2>. QED
    BY <2>1, <2>2
<1>14. CopyInv'
  <2>1. table \in dir' \cup lost' /\ InHand(table) 
    BY <1>3, <1>5 DEF InHand, IsTable, h
  <2>2. \E f \in dir' : IsTable(f, run.copy.number) /\ f.entries = {}
    BY <1>1, <1>3, <1>5, <1>13 DEF CopyInv, IsTable
  <2>3. \A f : InHand(f)' <=> InHand(f)
    BY <1>7 DEF InHand, IsTable
  <2>4. dir' \subseteq dir
    BY <1>5
  <2>. QED
    BY <1>1, <1>4, <1>7, <1>10, <2>1, <2>2, <2>3, <2>4 DEF CopyInv
<1>15. LostInv'
  <2>1. LogsApart'
    BY <1>3, <1>5 DEF LostInv, LogsApart
  <2>2. SafeWithoutError'
    <3> SUFFICES ASSUME errors' = 0, NEW t \in lost', t.kind = "table" /\ t.entries # {}
                 PROVE  Below(t)' /\ \A f \in dir' : IsTable(f, t.number) => f.sound
      BY DEF SafeWithoutError
    <3>1. errors = 0 /\ dir' = dir \ {table}
          /\ lost' = {u \in lost : ~(u.kind = "table" /\ u.number = h)} \cup {table}
      BY <1>5, <1>8
    <3>2. CASE t = table
      <4>1. t.number = h /\ h \in Nat /\ h <= h
        BY <1>2, <1>3, <3>2, RunIs
      <4>2. Below(t)'
        BY <1>7, <1>10, <4>1 DEF Below, h
      <4>. QED
        BY <1>3, <3>1, <4>1, <4>2 DEF IsTable
    <3>3. CASE t # table
      <4>1. Below(t) /\ \A f \in dir : IsTable(f, t.number) => f.sound
        BY <3>1, <3>3 DEF LostInv, SafeWithoutError
      <4>2. PICK f \in dir : f.kind = "table" /\ t.number <= f.number /\ f.number # run.copy.number
        BY <1>1, <4>1 DEF Below
      <4>3. Below(t)'
        BY <1>3, <1>7, <1>10, <3>1, <4>2 DEF Below, h
      <4>. QED
        BY <3>1, <4>1, <4>3
    <3>. QED
      BY <3>2, <3>3
  <2>3. NextIsNotLost'
    BY <1>1, <1>2, <1>3, <1>5, <1>6, <1>7, NextIs DEF LostInv, NextIsNotLost, NamesInv, RunInv
  <2>4. SafeInFirst'
    BY <1>1, <1>3, <1>5, <1>6, <1>10 DEF LostInv, SafeInFirst, IsTable
  <2>5. SafeInSecond'
    BY <1>1, <1>3, <1>5, <1>6, <1>10 DEF LostInv, SafeInSecond, IsTable
  <2>. QED
    BY <2>1, <2>2, <2>3, <2>4, <2>5 DEF LostInv
<1>16. KeptInv'
  <2>1. KeptSomewhere'
    <3> SUFFICES ASSUME errors' = 0 \/ (runs <= 2 /\ ~givenUp), NEW e \in had
                 PROVE  \E f \in dir' \cup lost' : e \in f.entries
      BY <1>6 DEF KeptSomewhere
    <3>1. PICK f \in dir \cup lost : e \in f.entries
      BY <1>8 DEF KeptInv, KeptSomewhere
    <3>2. CASE dir' = dir /\ lost' = lost
      BY <3>1, <3>2
    <3>3. CASE /\ dir' = dir \ {table} /\ errors' = errors
               /\ lost' = {t \in lost : ~(t.kind = "table" /\ t.number = h)} \cup {table}
      <4>1. SUFFICES ASSUME f \in lost, f.kind = "table", f.number = h PROVE FALSE
        BY <3>1, <3>3
      <4>2. CASE errors = 0
        BY <1>3, <1>4, <3>1, <4>1, <4>2 DEF LostInv, SafeWithoutError, IsTable
      <4>3. CASE runs <= 2
        BY <1>1, <1>2, <1>3, <1>4, <1>10, <4>1, <4>3 DEF LostInv, SafeInSecond, IsTable
      <4>. QED
        BY <3>3, <4>2, <4>3
    <3>. QED
      BY <1>5, <3>2, <3>3
  <2>2. KeptAhead'
    <3> SUFFICES ASSUME errors' = 0, killed = 0, NEW e \in had PROVE Reached(e)'
      BY <1>6, <1>10 DEF KeptAhead
    <3>1. PICK f \in dir : e \in f.entries /\ Ahead(f)
      BY <1>1, <1>8 DEF KeptInv, KeptAhead, Reached
    <3>2. CASE f = table
      BY <1>4, <1>7, <1>10, <3>1, <3>2 DEF Reached
    <3>3. CASE f # table
      <4>1. Ahead(f)'
        BY <1>3, <1>10, <3>1, <3>3 DEF Ahead
      <4>. QED
        BY <1>5, <3>1, <3>3, <4>1 DEF Reached
    <3>. QED
      BY <3>2, <3>3
  <2>. QED
    BY <2>1, <2>2 DEF KeptInv
<1>17. EndInv'
  BY <1>1, <1>6 DEF EndInv, NamesInv, RunInv
<1>. QED
  BY <1>9, <1>11, <1>12, <1>14, <1>15, <1>16, <1>17

\* What is known of the copy once its table is archived.
LEMMA CopyIs ==
  ASSUME RepairInv, Archived
  PROVE  /\ Running /\ Copying /\ run.logs = <<>> /\ run.tables # <<>>
         /\ run.copy \in AnyFile /\ run.copy.kind = "table" /\ run.copy.sound
         /\ Head(run.tables) \in Nat /\ Head(run.tables) \in Tables
         /\ ToSet(Tail(run.tables)) = Tables \ {Head(run.tables)}
         /\ HasDistinct(Tail(run.tables)) /\ Tail(run.tables) \in Seq(Nat)
         /\ TablesAhead = Tables \ {Head(run.tables)}
         /\ run.copy.number \in Nat /\ run.copy.number # Head(run.tables)
         /\ Head(run.tables) <= run.copy.number
         /\ run.copy.number \notin Tables \cup Scanned
         /\ Head(run.tables) \notin Scanned
<1>. USE DEF RepairInv
<1>1. Running /\ Copying /\ Repairing
  BY DEF Archived, Copying, Running, Repairing
<1>2. run.logs = <<>> /\ run.tables # <<>>
  BY <1>1 DEF PlaceInv
<1>3. /\ Head(run.tables) \in Tables /\ ToSet(Tail(run.tables)) = Tables \ {Head(run.tables)}
      /\ HasDistinct(Tail(run.tables)) /\ Tail(run.tables) \in Seq(Nat)
  BY <1>1, <1>2, HeadIs
<1>4. Tables \cup Scanned \subseteq Nat /\ run.copy \in AnyFile
  BY RunIs
<1>5. run.copy.number \in Nat
  BY <1>4 DEF AnyFile
<1>6. \A n \in Tables \cup Scanned : n \in Nat /\ n <= run.copy.number /\ n # run.copy.number
  <2>1. \A n \in Tables \cup Scanned : n < run.copy.number
    BY <1>1 DEF CopyInv
  <2>. QED
    BY <1>4, <1>5, <2>1
<1>7. Head(run.tables) \notin Scanned
  BY <1>1, <1>3 DEF NamesInv, ScannedThere, Scanned
<1>8. run.copy.kind = "table" /\ run.copy.sound
  BY <1>1 DEF CopyInv
<1>9. TablesAhead = Tables \ {Head(run.tables)}
  BY <1>3 DEF TablesAhead
<1>. QED
  BY <1>1, <1>2, <1>3, <1>4, <1>5, <1>6, <1>7, <1>8, <1>9
LEMMA FinishCopyKeeps == RepairInv /\ Fix!FinishCopy => RepairInv'
<1>. SUFFICES ASSUME RepairInv, Fix!FinishCopy PROVE RepairInv'
  OBVIOUS
<1>. USE DEF RepairInv
<1>. DEFINE h == Head(run.tables)
            n == run.copy.number
<1>1. run.pc = "finish" /\ Archived /\ Running /\ Copying /\ run.logs = <<>> /\ run.tables # <<>>
  <2>1. run.pc = "finish"
    BY DEF Fix!FinishCopy
  <2>2. Archived
    BY <2>1 DEF Archived
  <2>. QED
    BY <2>1, <2>2, CopyIs
<1>2. /\ run.copy \in AnyFile /\ run.copy.kind = "table" /\ run.copy.sound
      /\ h \in Nat /\ h \in Tables /\ TablesAhead = Tables \ {h}
      /\ ToSet(Tail(run.tables)) = Tables \ {h}
      /\ HasDistinct(Tail(run.tables)) /\ Tail(run.tables) \in Seq(Nat)
      /\ n \in Nat /\ n # h /\ h <= n /\ n \notin Tables \cup Scanned /\ h \notin Scanned
  BY <1>1, CopyIs
<1>3. PICK part \in dir :
        /\ part.kind = "table" /\ part.number = n /\ part.entries = {}
        /\ Fix!Without(dir, "table", n) = dir \ {part}
        /\ \A f \in dir : f.kind = "table" /\ f.number = n => f = part
  <2>1. PICK f \in dir : f.kind = "table" /\ f.number = n /\ f.entries = {}
    BY <1>1 DEF CopyInv, IsTable
  <2>2. f = Fix!Named("table", n) /\ Fix!Without(dir, "table", n) = dir \ {Fix!Named("table", n)}
        /\ \A g \in dir : g.kind = "table" /\ g.number = n => g = Fix!Named("table", n)
    BY <2>1, FileIs
  <2>. QED
    BY <2>1, <2>2
<1>. HIDE DEF h, n
<1>4. UNCHANGED <<lost, had, descriptor, runs, killed, givenUp>>
  BY DEF Fix!FinishCopy
<1>5. CASE run.copy.entries # {} /\ errors' = errors
           /\ run' = [run EXCEPT !.pc = "rename"] /\ dir' = (dir \ {part}) \cup {run.copy}
  <2>1. /\ run'.pc = "rename" /\ run'.logs = run.logs /\ run'.tables = run.tables
        /\ run'.scanned = run.scanned /\ run'.next = run.next /\ run'.copy = run.copy
    BY <1>5 DEF RepairTyped, Repairers
  <2>2. RepairTyped'
    <3>1. run' \in Repairers
      BY <1>5 DEF RepairTyped, Repairers, RepairSteps
    <3>2. IsFiniteSet(dir')
      BY <1>5, DirFinite
    <3>. QED
      BY <1>2, <1>4, <1>5, <2>1, <3>1, <3>2 DEF RepairTyped
  <2>3. /\ LogsAhead' = LogsAhead /\ Tables' = Tables /\ Scanned' = Scanned
        /\ TablesAhead' = TablesAhead /\ Running' /\ Archived' /\ Copying'
    BY <1>1, <2>1 DEF LogsAhead, TablesAhead, Tables, Scanned, Running, Archived, Copying
  <2>4. NamesInv'
    <3>1. OwnNames'
      BY <1>2, <1>3, <1>5 DEF NamesInv, OwnNames, n
    <3>2. NextIsNew'
      BY <1>1, <1>3, <1>5, <2>1, <2>3 DEF NamesInv, NextIsNew, n
    <3>3. RunInv' /\ LogsThere'
      BY <1>1, <1>3, <1>4, <1>5, <2>1, <2>3 DEF NamesInv, RunInv, LogsThere, IsLog
    <3>4. TablesThere' /\ ScannedThere'
      BY <1>1, <1>2, <1>3, <1>5, <2>1, <2>3 DEF NamesInv, TablesThere, ScannedThere, Scanned, IsTable
    <3>. QED
      BY <3>1, <3>2, <3>3, <3>4 DEF NamesInv
  <2>5. PlaceInv'
    BY <1>1, <2>1 DEF PlaceInv
  <2>6. CopyInv'
    <3>1. \A f : InHand(f)' <=> InHand(f)
      BY <2>1 DEF InHand, IsTable
    <3>2. PICK f \in dir \cup lost : InHand(f) /\ f.entries = run.copy.entries
      BY <1>1 DEF CopyInv
    <3>3. f # part /\ run.copy \in dir' /\ ~InHand(run.copy)
      BY <1>2, <1>3, <1>5, <3>2 DEF InHand, IsTable, h, n
    <3>4. f \in dir' \cup lost'
      BY <1>4, <1>5, <3>2, <3>3
    <3>. QED
      BY <1>1, <1>5, <2>1, <2>3, <3>1, <3>2, <3>3, <3>4 DEF CopyInv
  <2>7. LostInv'
    <3>1. LogsApart' /\ NextIsNotLost'
      BY <1>1, <1>2, <1>4, <1>5, <2>1, <2>3 DEF LostInv, LogsApart, NextIsNotLost
    <3>2. SafeWithoutError'
      BY <1>1, <1>2, <1>3, <1>4, <1>5, <2>1, <2>3
         DEF LostInv, SafeWithoutError, Below, IsTable, n
    <3>3. SafeInFirst' /\ SafeInSecond'
      <4>1. \A f \in dir' : f.kind = "table" /\ (~f.sound \/ f.number \in TablesAhead) => f \in dir
        BY <1>2, <1>5 DEF n
      <4>. QED
        BY <1>1, <1>4, <2>3, <4>1 DEF LostInv, SafeInFirst, SafeInSecond, IsTable
    <3>. QED
      BY <3>1, <3>2, <3>3 DEF LostInv
  <2>8. KeptInv'
    BY <1>1, <1>3, <1>4, <1>5, <2>1, <2>3 DEF KeptInv, KeptSomewhere, KeptAhead, Reached, Ahead
  <2>9. EndInv'
    BY <1>1, <1>4 DEF EndInv, NamesInv, RunInv
  <2>. QED
    BY <2>2, <2>4, <2>5, <2>6, <2>7, <2>8, <2>9
<1>6. CASE \/ run.copy.entries = {} /\ dir' = dir /\ errors' = errors /\ run' = Fix!Dropped
           \/ dir' = dir \ {part} /\ errors' = errors + 1 /\ run' = Fix!Dropped
  <2>1. run' = [pc |-> "convert", logs |-> run.logs, tables |-> Tail(run.tables),
                scanned |-> run.scanned, next |-> run.next, copy |-> run.copy]
    BY <1>6 DEF RepairTyped, Repairers, Fix!Dropped
  <2>2. errors' \in Nat /\ (errors' = 0 => errors = 0 /\ dir' = dir /\ run.copy.entries = {})
    BY <1>6 DEF RepairTyped
  <2>3. RepairTyped'
    <3>1. "convert" \in RepairSteps
      BY DEF RepairSteps
    <3>2. run' \in Repairers
      BY <1>1, <1>2, <2>1, <3>1, RunIs, NextIs, RunTyped
    <3>3. IsFiniteSet(dir')
      BY <1>6, DirFinite
    <3>. QED
      BY <1>4, <1>6, <2>1, <2>2, <3>2, <3>3 DEF RepairTyped
  <2>4. /\ LogsAhead' = LogsAhead /\ Tables' = Tables \ {h} /\ Scanned' = Scanned
        /\ TablesAhead' = TablesAhead
        /\ Running' /\ ~Archived' /\ ~Copying' /\ ~Repairing'
    BY <1>1, <1>2, <2>1
       DEF LogsAhead, TablesAhead, Tables, Scanned, Running, Archived, Copying, Repairing
  <2>5. dir \ {part} \subseteq dir' /\ dir' \subseteq dir
    BY <1>6
  <2>6. NamesInv'
    <3>1. OwnNames' /\ LogsThere'
      BY <1>1, <1>3, <2>1, <2>5 DEF NamesInv, OwnNames, LogsThere, IsLog
    <3>2. RunInv'
      BY <1>1, <1>2, <1>4, <2>1, <2>4 DEF NamesInv, RunInv
    <3>3. NextIsNew'
      BY <1>1, <2>1, <2>4, <2>5 DEF NamesInv, NextIsNew
    <3>4. TablesThere'
      BY <1>1, <1>2, <1>3, <2>4, <2>5 DEF NamesInv, TablesThere, IsTable
    <3>5. ScannedThere'
      <4>1. \A t \in run.scanned : t.number \in Scanned
        BY DEF Scanned
      <4>2. \A t \in run.scanned : t.number # part.number
        BY <1>2, <1>3, <4>1
      <4>. QED
        BY <1>1, <2>1, <2>4, <2>5, <4>2 DEF NamesInv, ScannedThere, IsTable
    <3>. QED
      BY <3>1, <3>2, <3>3, <3>4, <3>5 DEF NamesInv
  <2>7. PlaceInv' /\ CopyInv'
    BY <2>1, <2>4 DEF PlaceInv, CopyInv
  <2>8. LostInv'
    <3>1. LogsApart' /\ NextIsNotLost'
      BY <1>1, <1>4, <2>1, <2>5 DEF LostInv, LogsApart, NextIsNotLost
    <3>2. SafeWithoutError'
      <4> SUFFICES ASSUME errors' = 0, NEW t \in lost, t.kind = "table" /\ t.entries # {}
                   PROVE  Below(t)' /\ \A f \in dir' : IsTable(f, t.number) => f.sound
        BY <1>4 DEF SafeWithoutError
      <4>1. Below(t) /\ \A f \in dir : IsTable(f, t.number) => f.sound
        BY <2>2 DEF LostInv, SafeWithoutError
      <4>2. t.number \in Nat
        BY RunIs DEF AnyFile
      <4>3. CASE t.number <= h
        <5>1. t.number <= part.number
          BY <1>2, <1>3, <4>2, <4>3
        <5>. QED
          BY <1>3, <2>2, <2>4, <4>1, <5>1 DEF Below
      <4>4. CASE ~(t.number <= h)
        BY <2>2, <2>4, <4>1, <4>4 DEF Below, h
      <4>. QED
        BY <4>3, <4>4
    <3>3. SafeInFirst' /\ SafeInSecond'
      BY <1>1, <1>4, <2>4, <2>5 DEF LostInv, SafeInFirst, SafeInSecond
    <3>. QED
      BY <3>1, <3>2, <3>3 DEF LostInv
  <2>9. KeptInv'
    <3>1. KeptSomewhere'
      BY <1>3, <1>4, <2>2, <2>5 DEF KeptInv, KeptSomewhere
    <3>2. KeptAhead'
      BY <1>1, <1>4, <2>2, <2>4 DEF KeptInv, KeptAhead, Reached, Ahead
    <3>. QED
      BY <3>1, <3>2 DEF KeptInv
  <2>10. EndInv'
    BY <1>1, <1>4 DEF EndInv, NamesInv, RunInv
  <2>. QED
    BY <2>3, <2>6, <2>7, <2>8, <2>9, <2>10
<1>. QED
  BY <1>3, <1>5, <1>6 DEF Fix!FinishCopy, Fix!NoError, Fix!Error, Fix!Goes, n

LEMMA RenameCopyKeeps == RepairInv /\ Fix!RenameCopy => RepairInv'
<1>. SUFFICES ASSUME RepairInv, Fix!RenameCopy PROVE RepairInv'
  OBVIOUS
<1>. USE DEF RepairInv
<1>a. PICK h, n, copy : h = Head(run.tables) /\ n = run.copy.number /\ copy = run.copy
  OBVIOUS
<1>b. PICK table, info : table = [copy EXCEPT !.number = h] /\ info = Fix!TableInfo(table)
  OBVIOUS
<1>1. run.pc = "rename" /\ Archived /\ Running /\ Copying /\ run.logs = <<>> /\ run.tables # <<>>
  <2>1. run.pc = "rename"
    BY DEF Fix!RenameCopy
  <2>2. Archived
    BY <2>1 DEF Archived
  <2>. QED
    BY <2>1, <2>2, CopyIs
<1>2. /\ copy \in AnyFile /\ copy.kind = "table" /\ copy.sound
      /\ h \in Nat /\ h \in Tables /\ TablesAhead = Tables \ {h}
      /\ ToSet(Tail(run.tables)) = Tables \ {h}
      /\ HasDistinct(Tail(run.tables)) /\ Tail(run.tables) \in Seq(Nat)
      /\ n \in Nat /\ n # h /\ h <= n /\ n \notin Tables \cup Scanned /\ h \notin Scanned
  BY <1>a, <1>1, CopyIs
<1>3. /\ copy \in dir /\ copy.number = n /\ \A f \in dir : f.kind = "table" /\ f.number = n => f = copy
      /\ \A f \in dir : f.kind = "table" /\ f.number = h => f.entries = copy.entries
      /\ \E f \in dir \cup lost : f.kind = "table" /\ f.number = h /\ f.entries = copy.entries
  <2>1. copy \in dir
    BY <1>a, <1>1 DEF CopyInv
  <2>2. \A f \in dir : f.kind = "table" /\ f.number = n => f = copy
    BY <1>a, <1>2, <2>1 DEF NamesInv, OwnNames
  <2>. QED
    BY <1>a, <1>1, <2>1, <2>2 DEF CopyInv, InHand, IsTable
<1>4. /\ table \in AnyFile /\ table.kind = "table" /\ table.number = h /\ table.sound
      /\ table.entries = copy.entries
  BY <1>b, <1>2 DEF AnyFile
<1>5. info.number = h /\ info.max \in Nat /\ info \in [number : Nat, max : Nat]
      /\ \A e \in table.entries : e <= info.max
  <2>1. table.entries \in SUBSET Nat /\ IsFiniteSet(table.entries)
    BY <1>4 DEF AnyFile, Reading
  <2>. QED
    BY <1>b, <1>2, <1>4, <2>1, HighestIs DEF Fix!TableInfo
<1>6. UNCHANGED <<lost, had, descriptor, runs, killed, givenUp>>
  BY DEF Fix!RenameCopy
<1>7. \/ /\ dir' = {f \in dir : f # copy /\ ~(f.kind = "table" /\ f.number = h)} \cup {table}
         /\ errors' = errors /\ run' = [Fix!Dropped EXCEPT !.scanned = @ \cup {info}]
      \/ dir' = dir \ {copy} /\ errors' = errors + 1 /\ run' = Fix!Dropped
  <2>1. Fix!Without(dir, "table", n) = dir \ {copy}
    BY <1>2, <1>3 DEF Fix!Without, Fix!Is
  <2>2. Fix!Without(dir \ {copy}, "table", table.number)
          = {f \in dir : f # copy /\ ~(f.kind = "table" /\ f.number = h)}
    BY <1>4 DEF Fix!Without, Fix!Is
  <2>. QED
    BY <1>a, <1>b, <2>1, <2>2 DEF Fix!RenameCopy, Fix!NoError, Fix!Error
<1>8. CASE /\ dir' = {f \in dir : f # copy /\ ~(f.kind = "table" /\ f.number = h)} \cup {table}
           /\ errors' = errors /\ run' = [Fix!Dropped EXCEPT !.scanned = @ \cup {info}]
  <2>1. run' = [pc |-> "convert", logs |-> run.logs, tables |-> Tail(run.tables),
                scanned |-> run.scanned \cup {info}, next |-> run.next, copy |-> run.copy]
    BY <1>8 DEF RepairTyped, Repairers, Fix!Dropped
  <2>3. RepairTyped'
    <3>1. "convert" \in RepairSteps /\ run.scanned \cup {info} \in SUBSET [number : Nat, max : Nat]
      BY <1>5, RunIs DEF RepairSteps
    <3>2. run' \in Repairers
      BY <1>1, <1>2, <2>1, <3>1, RunIs, NextIs, RunTyped
    <3>3. dir' \subseteq dir \cup {table}
      BY <1>8
    <3>4. IsFiniteSet(dir') /\ IsFiniteSet(run'.scanned)
      BY <2>1, <3>3, DirFinite, FS_AddElement DEF RepairTyped
    <3>5. dir' \in SUBSET AnyFile
      BY <1>4, <3>3 DEF RepairTyped
    <3>. QED
      BY <1>6, <1>8, <3>2, <3>4, <3>5 DEF RepairTyped
  <2>4. /\ LogsAhead' = LogsAhead /\ Tables' = Tables \ {h} /\ Scanned' = Scanned \cup {h}
        /\ TablesAhead' = TablesAhead
        /\ Running' /\ ~Archived' /\ ~Copying' /\ ~Repairing'
    BY <1>1, <1>2, <1>5, <2>1
       DEF LogsAhead, TablesAhead, Tables, Scanned, Running, Archived, Copying, Repairing
  <2>5. /\ table \in dir'
        /\ \A f \in dir' : f = table \/ (f \in dir /\ ~(f.kind = "table" /\ f.number = h))
        /\ \A f \in dir : f \in dir' \/ f = copy \/ (f.kind = "table" /\ f.number = h)
    BY <1>8
  <2>6. NamesInv'
    <3>1. OwnNames'
      BY <1>4, <2>5 DEF NamesInv, OwnNames
    <3>2. RunInv'
      BY <1>1, <1>2, <1>6, <2>1, <2>4 DEF NamesInv, RunInv
    <3>6. LogsThere'
      BY <1>1, <1>2, <2>1, <2>5 DEF NamesInv, LogsThere, IsLog
    <3>3. NextIsNew'
      BY <1>1, <1>2, <1>4, <2>1, <2>4, <2>5 DEF NamesInv, NextIsNew
    <3>4. TablesThere'
      BY <1>1, <1>2, <1>3, <2>4, <2>5 DEF NamesInv, TablesThere, IsTable
    <3>5. ScannedThere'
      <4> SUFFICES ASSUME NEW t \in run'.scanned
                   PROVE  /\ t.number \notin Tables'
                          /\ \E f \in dir' : IsTable(f, t.number) /\ f.sound /\ \A e \in f.entries : e <= t.max
        BY DEF ScannedThere
      <4>1. CASE t = info
        BY <1>2, <1>4, <1>5, <2>4, <2>5, <4>1 DEF IsTable
      <4>2. CASE t # info
        <5>1. t \in run.scanned /\ t.number \in Scanned
          BY <2>1, <4>2 DEF Scanned
        <5>2. t.number # h /\ t.number # copy.number
          BY <1>2, <1>3, <5>1
        <5>. QED
          BY <1>1, <2>4, <2>5, <5>1, <5>2 DEF NamesInv, ScannedThere, IsTable
      <4>. QED
        BY <4>1, <4>2
    <3>. QED
      BY <3>1, <3>2, <3>3, <3>4, <3>5, <3>6 DEF NamesInv
  <2>7. PlaceInv' /\ CopyInv'
    BY <2>1, <2>4 DEF PlaceInv, CopyInv
  <2>8. LostInv'
    <3>1. LogsApart' /\ NextIsNotLost'
      BY <1>1, <1>4, <1>6, <2>1, <2>5 DEF LostInv, LogsApart, NextIsNotLost
    <3>2. SafeWithoutError'
      <4> SUFFICES ASSUME errors = 0, NEW t \in lost, t.kind = "table" /\ t.entries # {}
                   PROVE  Below(t)' /\ \A f \in dir' : IsTable(f, t.number) => f.sound
        BY <1>6, <1>8 DEF SafeWithoutError
      <4>1. Below(t) /\ \A f \in dir : IsTable(f, t.number) => f.sound
        BY DEF LostInv, SafeWithoutError
      <4>2. \A f \in dir' : IsTable(f, t.number) => f.sound
        BY <1>4, <2>5, <4>1
      <4>3. CASE t.number <= h
        BY <1>4, <2>4, <2>5, <4>2, <4>3 DEF Below
      <4>4. CASE ~(t.number <= h)
        <5>1. PICK f \in dir : f.kind = "table" /\ t.number <= f.number /\ f.number # n
          BY <1>a, <1>1, <4>1, <4>4 DEF Below
        <5>2. f \in dir'
          BY <1>3, <2>5, <4>4, <5>1
        <5>. QED
          BY <2>4, <4>2, <5>1, <5>2 DEF Below
      <4>. QED
        BY <4>3, <4>4
    <3>3. SafeInFirst' /\ SafeInSecond'
      <4>1. \A f \in dir' : f.kind = "table" /\ (~f.sound \/ f.number \in TablesAhead) => f \in dir
        BY <1>2, <1>4, <2>5
      <4>. QED
        BY <1>1, <1>6, <2>4, <4>1 DEF LostInv, SafeInFirst, SafeInSecond
    <3>. QED
      BY <3>1, <3>2, <3>3 DEF LostInv
  <2>9. KeptInv'
    <3>1. KeptSomewhere'
      BY <1>3, <1>4, <1>6, <1>8, <2>5 DEF KeptInv, KeptSomewhere
    <3>2. KeptAhead'
      <4> SUFFICES ASSUME errors = 0, killed = 0, NEW e \in had PROVE Reached(e)'
        BY <1>6, <1>8, <2>4 DEF KeptAhead
      <4>1. Ahead(table)'
        BY <1>4, <2>4 DEF Ahead
      <4>2. CASE e \in copy.entries
        BY <1>4, <2>5, <4>1, <4>2 DEF Reached
      <4>3. CASE e \notin copy.entries
        <5>1. PICK f \in dir : e \in f.entries /\ Ahead(f)
          BY <1>a, <1>1, <4>3 DEF KeptInv, KeptAhead, Reached
        <5>2. f \in dir' /\ Ahead(f)'
          BY <1>3, <2>4, <2>5, <4>3, <5>1 DEF Ahead
        <5>. QED
          BY <5>1, <5>2 DEF Reached
      <4>. QED
        BY <4>2, <4>3
    <3>. QED
      BY <3>1, <3>2 DEF KeptInv
  <2>10. EndInv'
    BY <1>1, <1>6 DEF EndInv, NamesInv, RunInv
  <2>. QED
    BY <2>3, <2>6, <2>7, <2>8, <2>9, <2>10
<1>9. CASE dir' = dir \ {copy} /\ errors' = errors + 1 /\ run' = Fix!Dropped
  <2>1. run' = [pc |-> "convert", logs |-> run.logs, tables |-> Tail(run.tables),
                scanned |-> run.scanned, next |-> run.next, copy |-> run.copy]
    BY <1>9 DEF RepairTyped, Repairers, Fix!Dropped
  <2>2. errors' \in Nat /\ errors' # 0
    BY <1>9 DEF RepairTyped
  <2>3. RepairTyped'
    <3>1. "convert" \in RepairSteps
      BY DEF RepairSteps
    <3>2. run' \in Repairers
      BY <1>1, <1>2, <2>1, <3>1, RunIs, NextIs, RunTyped
    <3>3. IsFiniteSet(dir')
      BY <1>9, DirFinite
    <3>. QED
      BY <1>6, <1>9, <2>1, <2>2, <3>2, <3>3 DEF RepairTyped
  <2>4. /\ LogsAhead' = LogsAhead /\ Tables' = Tables \ {h} /\ Scanned' = Scanned
        /\ TablesAhead' = TablesAhead
        /\ Running' /\ ~Archived' /\ ~Copying' /\ ~Repairing'
    BY <1>1, <1>2, <2>1
       DEF LogsAhead, TablesAhead, Tables, Scanned, Running, Archived, Copying, Repairing
  <2>5. NamesInv'
    <3>1. OwnNames' /\ LogsThere'
      BY <1>1, <1>2, <1>9, <2>1 DEF NamesInv, OwnNames, LogsThere, IsLog
    <3>2. RunInv'
      BY <1>1, <1>2, <1>6, <2>1, <2>4 DEF NamesInv, RunInv
    <3>3. NextIsNew'
      BY <1>1, <1>9, <2>1, <2>4 DEF NamesInv, NextIsNew
    <3>4. TablesThere'
      BY <1>1, <1>2, <1>3, <1>9, <2>4 DEF NamesInv, TablesThere, IsTable
    <3>5. ScannedThere'
      <4>1. \A t \in run.scanned : t.number \in Scanned
        BY DEF Scanned
      <4>2. \A t \in run.scanned : t.number # copy.number
        BY <1>2, <1>3, <4>1
      <4>. QED
        BY <1>1, <1>9, <2>1, <2>4, <4>2 DEF NamesInv, ScannedThere, IsTable
    <3>. QED
      BY <3>1, <3>2, <3>3, <3>4, <3>5 DEF NamesInv
  <2>6. PlaceInv' /\ CopyInv'
    BY <2>1, <2>4 DEF PlaceInv, CopyInv
  <2>7. LostInv'
    <3>1. LogsApart' /\ NextIsNotLost' /\ SafeWithoutError'
      BY <1>1, <1>6, <1>9, <2>1, <2>2 DEF LostInv, LogsApart, NextIsNotLost, SafeWithoutError
    <3>2. SafeInFirst' /\ SafeInSecond'
      BY <1>1, <1>6, <1>9, <2>4 DEF LostInv, SafeInFirst, SafeInSecond
    <3>. QED
      BY <3>1, <3>2 DEF LostInv
  <2>8. KeptInv'
    <3>1. PICK f \in dir \cup lost : f.kind = "table" /\ f.number = h /\ f.entries = copy.entries
      BY <1>3
    <3>2. f \in dir' \cup lost'
      BY <1>2, <1>3, <1>6, <1>9, <3>1
    <3>. QED
      BY <1>6, <1>9, <2>2, <3>1, <3>2 DEF KeptInv, KeptSomewhere, KeptAhead
  <2>9. EndInv'
    BY <1>1, <1>6 DEF EndInv, NamesInv, RunInv
  <2>. QED
    BY <2>3, <2>5, <2>6, <2>7, <2>8, <2>9
<1>. QED
  BY <1>7, <1>8, <1>9
\* A run that ends, at any step: the directories stay as they are, but for a table
\* that is half built.
LEMMA EndKeeps ==
  ASSUME RepairInv, Running, run' = Fix!Idle, errors' \in Nat, killed' \in Nat,
         errors' = 0 => errors = 0,
         UNCHANGED <<lost, had, runs, givenUp>>,
         dir' = dir \/ dir' = dir \cup {Fix!HalfBuilt}
  PROVE  RepairTyped' /\ NamesInv' /\ PlaceInv' /\ CopyInv' /\ LostInv' /\ KeptSomewhere'
<1>. USE DEF RepairInv
<1>1. run' = [pc |-> "idle", logs |-> <<>>, tables |-> <<>>, scanned |-> {}, next |-> 0,
              copy |-> Fix!File("table", 0, {}, FALSE)]
  BY DEF Fix!Idle
<1>2. ~Running' /\ ~Copying' /\ ~Archived' /\ ~Repairing'
  BY <1>1 DEF Running, Copying, Archived, Repairing
<1>. DEFINE half == Fix!HalfBuilt
<1>8. /\ half \in AnyFile /\ half.kind = "table" /\ half.number = run.next /\ half.sound = FALSE
      /\ run.next \in Nat
  BY RunIs, FS_EmptySet DEF Fix!HalfBuilt, Fix!File, AnyFile, Reading
<1>. HIDE DEF half
<1>9. dir' = dir \/ dir' = dir \cup {half}
  BY DEF half
<1>3. RepairTyped'
  <2>1. run' \in Repairers
    <3>1. Fix!File("table", 0, {}, FALSE) \in AnyFile
      BY FS_EmptySet DEF Fix!File, AnyFile, Reading
    <3>2. "idle" \in RepairSteps /\ <<>> \in Seq(Nat)
      BY EmptySeq DEF RepairSteps
    <3>. HIDE DEF Fix!File
    <3>. QED
      BY <1>1, <3>1, <3>2, RunTyped
  <2>2. IsFiniteSet(dir') /\ dir' \in SUBSET AnyFile
    BY <1>8, <1>9, DirFinite DEF RepairTyped
  <2>. QED
    BY <1>1, <2>1, <2>2, FS_EmptySet DEF RepairTyped
<1>4. NamesInv'
  <2>1. OwnNames'
    BY <1>8, <1>9, NextIs DEF NamesInv, OwnNames
  <2>. QED
    BY <1>2, <2>1 DEF NamesInv, RunInv, NextIsNew, LogsThere, TablesThere, ScannedThere
<1>5. PlaceInv' /\ CopyInv'
  <2>1. run'.pc = "idle"
    BY <1>1
  <2>2. PlaceInv'
    BY <1>2, <2>1 DEF PlaceInv
  <2>3. CopyInv'
    BY <1>2 DEF CopyInv
  <2>. QED
    BY <2>2, <2>3
<1>6. LostInv'
  <2>1. LogsApart' /\ NextIsNotLost' /\ SafeInSecond'
    BY <1>2, <1>8, <1>9 DEF LostInv, LogsApart, NextIsNotLost, SafeInSecond
  <2>3. SafeInFirst'
    <3>1. runs <= 1 => \A t \in lost : t.number # run.next
      BY <1>8, RunIs DEF LostInv, NextIsNotLost, AnyFile
    <3>. QED
      BY <1>2, <1>8, <1>9, <3>1 DEF LostInv, SafeInFirst, IsTable
  <2>2. SafeWithoutError'
    <3> SUFFICES ASSUME errors = 0, NEW t \in lost, t.kind = "table" /\ t.entries # {}
                 PROVE  Below(t)' /\ \A f \in dir' : IsTable(f, t.number) => f.sound
      BY DEF SafeWithoutError
    <3>1. Below(t) /\ \A f \in dir : IsTable(f, t.number) => f.sound
      BY DEF LostInv, SafeWithoutError
    <3>4. t.number # run.next
      <4>1. CASE \E f \in dir : t.number <= f.number
        <5>1. PICK f \in dir : t.number <= f.number
          BY <4>1
        <5>2. f.number < run.next /\ f.number \in Nat /\ t.number \in Nat
          BY NextIs, RunIs DEF AnyFile
        <5>. QED
          BY <1>8, <5>1, <5>2
      <4>2. CASE Archived /\ t.number <= Head(run.tables)
        <5>1. t.number \in Nat /\ Head(run.tables) \in Nat /\ Head(run.tables) < run.next
          BY <4>2, CopyIs, RunIs, HeadIs, NextIs DEF AnyFile
        <5>. QED
          BY <1>8, <4>2, <5>1
      <4>. QED
        BY <3>1, <4>1, <4>2 DEF Below
    <3>5. \A f \in dir' : IsTable(f, t.number) => f.sound
      BY <1>8, <1>9, <3>1, <3>4 DEF IsTable
    <3>2. CASE Archived /\ t.number <= Head(run.tables)
      <4>1. \E f \in dir : f.kind = "table" /\ f.number = run.copy.number
        BY <3>2, CopyIs DEF CopyInv, IsTable
      <4>2. t.number <= run.copy.number
        <5>1. /\ t.number \in Nat /\ run.copy.number \in Nat /\ Head(run.tables) \in Nat
              /\ Head(run.tables) <= run.copy.number
          BY <3>2, CopyIs, RunIs DEF AnyFile
        <5>. QED
          BY <3>2, <5>1
      <4>. QED
        <5>1. PICK f \in dir : f.kind = "table" /\ t.number <= f.number
          BY <4>1, <4>2
        <5>2. Below(t)'
          BY <1>2, <1>9, <5>1 DEF Below
        <5>. QED
          BY <3>5, <5>2
    <3>3. CASE ~(Archived /\ t.number <= Head(run.tables))
      <4>1. PICK f \in dir : f.kind = "table" /\ t.number <= f.number
        BY <3>1, <3>3 DEF Below
      <4>2. Below(t)'
        BY <1>2, <1>9, <4>1 DEF Below
      <4>. QED
        BY <3>5, <4>2
    <3>. QED
      BY <3>2, <3>3, <3>5
  <2>. QED
    BY <2>1, <2>2, <2>3 DEF LostInv
<1>7. KeptSomewhere'
  BY <1>9 DEF KeptInv, KeptSomewhere
<1>. QED
  BY <1>3, <1>4, <1>5, <1>6, <1>7

LEMMA CrashKeeps == RepairInv /\ Fix!Crash => RepairInv'
<1>. SUFFICES ASSUME RepairInv, Fix!Crash PROVE RepairInv'
  OBVIOUS
<1>1. /\ Running /\ run' = Fix!Idle /\ killed' = killed + 1
      /\ UNCHANGED <<lost, had, descriptor, runs, errors, givenUp>>
      /\ dir' = dir \/ dir' = dir \cup {Fix!HalfBuilt}
  BY DEF Fix!Crash, Running
<1>2. errors \in Nat /\ killed' \in Nat /\ killed' # 0
  BY <1>1 DEF RepairInv, RepairTyped
<1>3. RepairTyped' /\ NamesInv' /\ PlaceInv' /\ CopyInv' /\ LostInv' /\ KeptSomewhere'
  BY <1>1, <1>2, EndKeeps
<1>4. KeptAhead'
  BY <1>2 DEF KeptAhead
<1>5. EndInv'
  BY <1>1 DEF RepairInv, EndInv, NamesInv, RunInv
<1>. QED
  BY <1>3, <1>4, <1>5 DEF RepairInv, KeptInv

LEMMA DiscardManifestsKeeps == RepairInv /\ Fix!DiscardManifests => RepairInv'
<1>. SUFFICES ASSUME RepairInv, Fix!DiscardManifests PROVE RepairInv'
  OBVIOUS
<1>1. /\ run.pc = "convert" /\ run.logs = <<>> /\ run.tables = <<>>
      /\ Running /\ ~Archived /\ ~Copying
      /\ UNCHANGED <<dir, lost, had, descriptor, runs, killed, givenUp>>
  BY DEF Fix!DiscardManifests, Running, Archived, Copying
<1>2. errors \in Nat /\ killed \in Nat
  BY DEF RepairInv, RepairTyped
<1>3. CASE run' = [run EXCEPT !.pc = "install"] /\ errors' = errors
  <2>. USE DEF RepairInv
  <2>1. /\ run'.pc = "install" /\ run'.logs = run.logs /\ run'.tables = run.tables
        /\ run'.scanned = run.scanned /\ run'.next = run.next
    BY <1>3 DEF RepairTyped, Repairers
  <2>2. RepairTyped'
    BY <1>1, <1>3 DEF RepairTyped, Repairers, RepairSteps
  <2>3. /\ LogsAhead' = LogsAhead /\ Tables' = Tables /\ Scanned' = Scanned
        /\ TablesAhead = Tables /\ TablesAhead' = Tables
        /\ Running' /\ ~Archived' /\ ~Copying' /\ ~Repairing'
    BY <1>1, <2>1
       DEF LogsAhead, TablesAhead, Tables, Scanned, Running, Archived, Copying, Repairing
  <2>4. NamesInv'
    BY <1>1, <2>1, <2>3
       DEF NamesInv, OwnNames, RunInv, NextIsNew, LogsThere, TablesThere, ScannedThere
  <2>5. PlaceInv' /\ CopyInv'
    BY <1>1, <2>1, <2>3 DEF PlaceInv, CopyInv
  <2>6. LostInv'
    BY <1>1, <1>3, <2>1, <2>3
       DEF LostInv, LogsApart, SafeWithoutError, Below, NextIsNotLost, SafeInFirst, SafeInSecond
  <2>7. KeptInv'
    BY <1>1, <1>3, <2>3 DEF KeptInv, KeptSomewhere, KeptAhead, Reached, Ahead
  <2>8. EndInv'
    BY <1>1 DEF EndInv, NamesInv, RunInv
  <2>. QED
    BY <2>2, <2>4, <2>5, <2>6, <2>7, <2>8
<1>4. CASE run' = Fix!Idle /\ errors' = errors + 1
  <2>1. errors' \in Nat /\ errors' # 0
    BY <1>2, <1>4
  <2>2. RepairTyped' /\ NamesInv' /\ PlaceInv' /\ CopyInv' /\ LostInv' /\ KeptSomewhere'
    BY <1>1, <1>2, <1>4, <2>1, EndKeeps
  <2>3. KeptAhead'
    BY <2>1 DEF KeptAhead
  <2>4. EndInv'
    BY <1>1 DEF RepairInv, EndInv, NamesInv, RunInv
  <2>. QED
    BY <2>2, <2>3, <2>4 DEF RepairInv, KeptInv
<1>. QED
  BY <1>3, <1>4 DEF Fix!DiscardManifests, Fix!Goes, Fix!NoError, Fix!Error

LEMMA InstallKeeps == RepairInv /\ Fix!Install => RepairInv'
<1>. SUFFICES ASSUME RepairInv, Fix!Install PROVE RepairInv'
  OBVIOUS
<1>1. /\ run.pc = "install" /\ run.logs = <<>> /\ run.tables = <<>>
      /\ Running /\ ~Archived /\ run' = Fix!Idle
      /\ UNCHANGED <<dir, lost, had, runs, killed, givenUp>>
  BY DEF Fix!Install, Running, Archived, RepairInv, PlaceInv
<1>2. \/ errors' = errors /\ descriptor' = [files |-> Scanned, last |-> Fix!LastSequence, next |-> run.next]
      \/ errors' = errors + 1 /\ descriptor' = descriptor
  BY DEF Fix!Install, Fix!NoError, Fix!Error, Scanned
<1>3. /\ errors' \in Nat /\ killed' \in Nat /\ (errors' = 0 => errors = 0)
      /\ (errors' = errors + 1 => errors' # 0)
  BY <1>1, <1>2 DEF RepairInv, RepairTyped
<1>4. RepairTyped' /\ NamesInv' /\ PlaceInv' /\ CopyInv' /\ LostInv' /\ KeptSomewhere'
  BY <1>1, <1>3, EndKeeps
<1>5. ~Running'
  BY <1>1 DEF Running, Fix!Idle
<1>6. Tables = {} /\ TablesAhead = {} /\ LogsAhead = {}
  BY <1>1, ListIs, EmptySeq DEF Tables, TablesAhead, LogsAhead, Archived
<1>7. errors = 0 /\ killed = 0 =>
        \A e \in had : \E f \in dir : f.kind = "table" /\ f.number \in Scanned /\ e \in f.entries
  BY <1>1, <1>6 DEF RepairInv, KeptInv, KeptAhead, Reached, Ahead
<1>8. KeptAhead'
  BY <1>1, <1>3, <1>5, <1>7 DEF KeptAhead
<1>9. EndInv'
  <2>1. CASE errors' = errors /\ descriptor' = [files |-> Scanned, last |-> Fix!LastSequence, next |-> run.next]
    <3>1. /\ Fix!LastSequence \in Nat
          /\ \A t \in run.scanned : t.max \in Nat /\ t.max <= Fix!LastSequence
      <4>. DEFINE S == {t.max : t \in run.scanned}
      <4>1. \A t \in run.scanned : t.max \in Nat
        BY RunIs DEF RepairInv
      <4>2. S \in SUBSET Nat /\ \A t \in run.scanned : t.max \in S
        BY <4>1
      <4>3. IsFiniteSet(S)
        <5>. DEFINE g == [t \in run.scanned |-> t.max]
        <5>1. IsFiniteSet(run.scanned)
          BY DEF RepairInv, RepairTyped
        <5>2. S = {g[t] : t \in run.scanned}
          OBVIOUS
        <5>. HIDE DEF g, S
        <5>. QED
          BY <5>1, <5>2, FiniteImage
      <4>4. Fix!LastSequence = Fix!Highest(S)
        BY DEF Fix!LastSequence
      <4>. HIDE DEF S
      <4>. QED
        BY <4>1, <4>2, <4>3, <4>4, HighestIs
    <3>2. \A t \in run.scanned : \E f \in dir :
            IsTable(f, t.number) /\ f.sound /\ \A e \in f.entries : e <= Fix!LastSequence
      <4> TAKE t \in run.scanned
      <4>1. PICK f \in dir : IsTable(f, t.number) /\ f.sound /\ \A e \in f.entries : e <= t.max
        BY <1>1 DEF RepairInv, NamesInv, ScannedThere
      <4>2. f.entries \subseteq Nat
        BY RunIs DEF RepairInv, AnyFile, Reading
      <4>3. \A e \in f.entries : e <= Fix!LastSequence
        <5> TAKE e \in f.entries
        <5>1. e \in Nat /\ t.max \in Nat /\ e <= t.max /\ t.max <= Fix!LastSequence
          BY <3>1, <4>1, <4>2
        <5>. QED
          BY <3>1, <5>1
      <4>. QED
        BY <4>1, <4>3
    <3>3. \A n \in Scanned : \E f \in dir :
            IsTable(f, n) /\ f.sound /\ \A e \in f.entries : e <= Fix!LastSequence
      BY <3>2 DEF Scanned
    <3>4. \A f \in dir : f.number < run.next
      BY <1>1 DEF RepairInv, NamesInv, NextIsNew
    <3>5. /\ descriptor'.files = Scanned /\ descriptor'.last = Fix!LastSequence
          /\ descriptor'.next = run.next /\ errors' = errors
      BY <2>1
    <3>. QED
      BY <1>1, <1>7, <3>3, <3>4, <3>5 DEF EndInv
  <2>2. CASE errors' = errors + 1 /\ descriptor' = descriptor
    BY <1>1, <2>2 DEF RepairInv, EndInv, NamesInv, RunInv
  <2>. QED
    BY <1>2, <2>1, <2>2
<1>. QED
  BY <1>4, <1>8, <1>9 DEF RepairInv, KeptInv

\* A list of all elements of a finite set, each once.
LEMMA OrderIs ==
  ASSUME NEW S \in SUBSET Nat, IsFiniteSet(S), NEW s \in Fix!Orders(S)
  PROVE  s \in Seq(Nat) /\ ToSet(s) = S /\ HasDistinct(s)
<1>. DEFINE n == Cardinality(S)
<1>1. n \in Nat
  BY FS_CardinalityType
<1>2. s \in [1..n -> S] /\ \A i, j \in 1..n : s[i] = s[j] => i = j
  <2>1. Fix!Cardinality(S) = n
    BY Zenon DEF Fix!Cardinality, Cardinality
  <2>2. s \in [1..Fix!Cardinality(S) -> S] /\ \A i, j \in DOMAIN s : s[i] = s[j] => i = j
    BY DEF Fix!Orders
  <2>. HIDE DEF n
  <2>3. s \in [1..n -> S] /\ \A i, j \in DOMAIN s : s[i] = s[j] => i = j
    BY <2>1, <2>2, Zenon
  <2>. QED
    BY <2>3
<1>3. IsFiniteSet(1..n) /\ Cardinality(1..n) = n
  BY <1>1, FS_Interval
<1>4. s \in Injection(1..n, S)
  BY <1>2 DEF Injection, IsInjective
<1>5. s \in Surjection(1..n, S)
  BY <1>3, <1>4, FS_Injection
<1>. HIDE DEF n
<1>6. s \in Seq(Nat) /\ Len(s) = n
  <2>1. s \in [1..n -> Nat]
    BY <1>2
  <2>. QED
    BY <1>1, <2>1
<1>7. ToSet(s) = {s[i] : i \in 1..n}
  BY <1>6, ToSetIs
<1>8. \A x \in S : \E i \in 1..n : s[i] = x
  BY <1>5 DEF Surjection
<1>9. \A x \in ToSet(s) : x \in S
  BY <1>2, <1>7
<1>10. \A x \in S : x \in ToSet(s)
  BY <1>7, <1>8
<1>11. HasDistinct(s)
  BY <1>2, <1>6 DEF HasDistinct
<1>. QED
  BY <1>6, <1>9, <1>10, <1>11

LEMMA NumbersIs ==
  ASSUME RepairTyped, NEW kind
  PROVE  /\ Fix!Numbers(kind) \in SUBSET Nat /\ IsFiniteSet(Fix!Numbers(kind))
         /\ \A f \in dir : f.kind = kind => f.number \in Fix!Numbers(kind)
         /\ \A k \in Fix!Numbers(kind) : \E f \in dir : f.kind = kind /\ f.number = k
<1>1. Fix!Numbers(kind) = {f.number : f \in {g \in dir : g.kind = kind}}
  BY DEF Fix!Numbers
<1>2. \A f \in dir : f.number \in Nat
  BY RunIs DEF AnyFile
<1>3. IsFiniteSet(Fix!Numbers(kind))
  <2>. DEFINE T == {g \in dir : g.kind = kind}
              g == [f \in T |-> f.number]
  <2>1. IsFiniteSet(T)
    BY FS_Subset DEF RepairTyped
  <2>2. Fix!Numbers(kind) = {g[f] : f \in T}
    BY <1>1
  <2>. HIDE DEF g, T
  <2>. QED
    BY <2>1, <2>2, FiniteImage
<1>. QED
  BY <1>1, <1>2, <1>3

LEMMA FindFilesKeeps == RepairInv /\ Fix!FindFiles => RepairInv'
<1>. SUFFICES ASSUME RepairInv, Fix!FindFiles PROVE RepairInv'
  OBVIOUS
<1>. USE DEF RepairInv
<1>. DEFINE all == Fix!Numbers("log") \cup Fix!Numbers("table")
<1>1. PICK next : next = Fix!Highest(all) + 1
  OBVIOUS
<1>0. PICK logs \in Fix!Orders(Fix!Numbers("log")), tables \in Fix!Orders(Fix!Numbers("table")) :
       run' = [Fix!Idle EXCEPT !.pc = "convert", !.logs = logs, !.tables = tables, !.next = next]
  BY <1>1 DEF Fix!FindFiles
<1>2. /\ ~Running /\ runs' = runs + 1 /\ descriptor' = Fix!None
      /\ UNCHANGED <<dir, lost, had, errors, killed, givenUp>>
  BY DEF Fix!FindFiles, Running
<1>3. PICK L, T :
        /\ L = Fix!Numbers("log") /\ T = Fix!Numbers("table") /\ L \subseteq Nat /\ T \subseteq Nat
        /\ \A f \in dir : (f.kind = "log" => f.number \in L) /\ (f.kind = "table" => f.number \in T)
        /\ \A k \in L : \E f \in dir : IsLog(f, k)
        /\ \A k \in T : \E f \in dir : IsTable(f, k)
  BY NumbersIs DEF IsLog, IsTable
<1>4. next \in Nat /\ \A k \in L \cup T : k < next
  <2>1. IsFiniteSet(all) /\ all \in SUBSET Nat /\ all = L \cup T
    BY <1>3, NumbersIs, FS_Union
  <2>. HIDE DEF all
  <2>2. Fix!Highest(all) \in Nat /\ \A k \in all : k \in Nat /\ k <= Fix!Highest(all)
    BY <2>1, HighestIs
  <2>. QED
    BY <1>1, <2>1, <2>2
<1>5. /\ logs \in Seq(Nat) /\ ToSet(logs) = L /\ HasDistinct(logs)
      /\ tables \in Seq(Nat) /\ ToSet(tables) = T /\ HasDistinct(tables)
  BY <1>1, <1>3, NumbersIs, OrderIs
<1>6. /\ run' = [pc |-> "convert", logs |-> logs, tables |-> tables, scanned |-> {}, next |-> next,
                 copy |-> Fix!File("table", 0, {}, FALSE)]
      /\ run'.pc = "convert" /\ run'.logs = logs /\ run'.tables = tables /\ run'.scanned = {}
      /\ run'.next = next
  BY <1>0 DEF Fix!Idle
<1>7. RepairTyped'
  <2>1. Fix!File("table", 0, {}, FALSE) \in AnyFile
    BY FS_EmptySet DEF Fix!File, AnyFile, Reading
  <2>2. "convert" \in RepairSteps
    BY DEF RepairSteps
  <2>. HIDE DEF Fix!File
  <2>3. run' \in Repairers
    <3>1. run' = [pc |-> "convert", logs |-> logs, tables |-> tables, scanned |-> {}, next |-> next,
                  copy |-> Fix!File("table", 0, {}, FALSE)]
      BY <1>6
    <3>2. {} \in SUBSET [number : Nat, max : Nat]
      OBVIOUS
    <3>3. [pc |-> "convert", logs |-> logs, tables |-> tables, scanned |-> {}, next |-> next,
           copy |-> Fix!File("table", 0, {}, FALSE)] \in Repairers
      BY <1>4, <1>5, <2>1, <2>2, <3>2, RunTyped, Zenon
    <3>. QED
      BY <3>1, <3>3
  <2>4. runs' \in Nat
    BY <1>2 DEF RepairTyped
  <2>. QED
    BY <1>2, <1>6, <2>3, <2>4, FS_EmptySet DEF RepairTyped
<1>8. /\ LogsAhead' = L /\ Tables' = T /\ Scanned' = {} /\ TablesAhead' = T
      /\ Running' /\ ~Archived' /\ ~Copying' /\ ~Repairing'
  BY <1>5, <1>6 DEF LogsAhead, Tables, Scanned, TablesAhead, Running, Archived, Copying, Repairing
<1>9. \A f \in dir : f.kind \in {"log", "table"} /\ f.number \in L \cup T /\ f.number < next
  BY <1>3, <1>4, RunIs DEF AnyFile
<1>10. NamesInv'
  <2>1. OwnNames'
    BY <1>2 DEF NamesInv, OwnNames
  <2>2. RunInv'
    <3>1. runs' # 0
      BY <1>2 DEF RepairTyped
    <3>. QED
      BY <1>2, <1>5, <1>6, <1>8, <3>1 DEF RunInv
  <2>3. NextIsNew'
    BY <1>2, <1>4, <1>6, <1>8, <1>9 DEF NextIsNew
  <2>4. LogsThere' /\ TablesThere' /\ ScannedThere'
    BY <1>2, <1>3, <1>5, <1>6, <1>8 DEF LogsThere, TablesThere, ScannedThere
  <2>. QED
    BY <2>1, <2>2, <2>3, <2>4 DEF NamesInv
<1>11. PlaceInv' /\ CopyInv'
  <2>1. PlaceInv'
    BY <1>6, <1>8 DEF PlaceInv
  <2>2. CopyInv'
    BY <1>8 DEF CopyInv
  <2>. QED
    BY <2>1, <2>2
<1>12. LostInv'
  <2>1. runs \in Nat
    BY DEF RepairTyped
  <2>2. LogsApart'
    BY <1>2 DEF LostInv, LogsApart
  <2>3. SafeWithoutError'
    <3>1. ~Copying /\ ~Archived
      BY <1>2 DEF Running, Copying, Archived
    <3>. QED
      BY <1>2, <1>8, <3>1 DEF LostInv, SafeWithoutError, Below
  <2>4. NextIsNotLost'
    <3>1. runs' # 0 /\ (runs' <= 1 => runs = 0)
      BY <1>2, <2>1
    <3>. QED
      BY <1>2, <3>1 DEF LostInv, NextIsNotLost
  <2>5. SafeInFirst' /\ SafeInSecond'
    <3>1. (runs' <= 1 => runs = 0) /\ (runs' <= 2 => runs <= 1)
      BY <1>2, <2>1
    <3>2. runs' <= 1 => lost' = {}
      BY <1>2, <3>1 DEF LostInv, NextIsNotLost
    <3>3. SafeInFirst'
      BY <3>2 DEF SafeInFirst
    <3>4. SafeInSecond'
      BY <1>2, <3>1 DEF LostInv, SafeInFirst, SafeInSecond
    <3>. QED
      BY <3>3, <3>4
  <2>. QED
    BY <2>2, <2>3, <2>4, <2>5 DEF LostInv
<1>13. KeptInv'
  <2>1. KeptSomewhere'
    <3>1. runs' <= 2 => runs <= 2
      BY <1>2 DEF RepairTyped
    <3>. QED
      BY <1>2, <3>1 DEF KeptInv, KeptSomewhere
  <2>2. KeptAhead'
    <3>1. \A f \in dir : Ahead(f)'
      BY <1>3, <1>8, <1>9 DEF Ahead
    <3>. QED
      BY <1>2, <1>8, <3>1 DEF KeptInv, KeptAhead, Reached
  <2>. QED
    BY <2>1, <2>2 DEF KeptInv
<1>14. EndInv'
  BY <1>2 DEF EndInv
<1>. QED
  BY <1>7, <1>10, <1>11, <1>12, <1>13, <1>14

LEMMA RepairInit == Fix!Init => RepairInv
<1>. SUFFICES ASSUME Fix!Init PROVE RepairInv
  OBVIOUS
<1>1. /\ dir \in Directories /\ had = UNION {f.entries : f \in dir} /\ lost = {}
      /\ descriptor = Fix!None /\ run = Fix!Idle /\ runs = 0 /\ errors = 0 /\ killed = 0
      /\ givenUp = FALSE
  BY DEF Fix!Init
<1>2. run = [pc |-> "idle", logs |-> <<>>, tables |-> <<>>, scanned |-> {}, next |-> 0,
             copy |-> Fix!File("table", 0, {}, FALSE)] /\ run.pc = "idle"
  BY <1>1 DEF Fix!Idle
<1>3. ~Running /\ ~Copying /\ ~Archived /\ ~Repairing
  BY <1>2 DEF Running, Copying, Archived, Repairing
<1>4. IsFiniteSet(dir) /\ OwnNames /\ \A f \in dir : f \in AnyFile
  BY <1>1, DirectoriesAssumption DEF OwnNames, AnyFile, Reading
<1>5. RepairTyped
  <2>1. Fix!File("table", 0, {}, FALSE) \in AnyFile
    BY FS_EmptySet DEF Fix!File, AnyFile, Reading
  <2>2. "idle" \in RepairSteps /\ <<>> \in Seq(Nat)
    BY EmptySeq DEF RepairSteps
  <2>. HIDE DEF Fix!File
  <2>3. run \in Repairers
    BY <1>2, <2>1, <2>2, RunTyped
  <2>4. givenUp \in BOOLEAN
    BY <1>1, Zenon
  <2>. QED
    BY <1>1, <1>2, <1>4, <2>3, <2>4, FS_EmptySet DEF RepairTyped
<1>6. NamesInv
  BY <1>1, <1>3, <1>4 DEF NamesInv, RunInv, NextIsNew, LogsThere, TablesThere, ScannedThere
<1>7. PlaceInv
  BY <1>2, <1>3 DEF PlaceInv
<1>8. CopyInv
  BY <1>3 DEF CopyInv
<1>9. LostInv
  BY <1>1, <1>3
     DEF LostInv, LogsApart, SafeWithoutError, NextIsNotLost, SafeInFirst, SafeInSecond
<1>10. KeptInv
  <2>1. \A e \in had : \E f \in dir : e \in f.entries
    BY <1>1
  <2>. QED
    BY <1>3, <2>1 DEF KeptInv, KeptSomewhere, KeptAhead
<1>11. EndInv
  BY <1>1 DEF EndInv
<1>. QED
  BY <1>5, <1>6, <1>7, <1>8, <1>9, <1>10, <1>11 DEF RepairInv

LEMMA RepairStep == RepairInv /\ (Fix!Next \/ UNCHANGED fixVars) => RepairInv'
<1>. SUFFICES ASSUME RepairInv, Fix!Next \/ UNCHANGED fixVars PROVE RepairInv'
  OBVIOUS
<1>1. CASE UNCHANGED fixVars
  <2>1. UNCHANGED <<dir, lost, had, descriptor, run, runs, errors, killed, givenUp>>
    BY <1>1 DEF fixVars
  <2>2. /\ Running' = Running /\ Copying' = Copying /\ Archived' = Archived
        /\ Repairing' = Repairing /\ Tables' = Tables /\ Scanned' = Scanned
        /\ TablesAhead' = TablesAhead /\ LogsAhead' = LogsAhead
    BY <2>1 DEF Running, Copying, Archived, Repairing, Tables, Scanned, TablesAhead, LogsAhead
  <2>3. RepairTyped' /\ NamesInv' /\ PlaceInv' /\ CopyInv'
    BY <2>1, <2>2
       DEF RepairInv, RepairTyped, NamesInv, OwnNames, RunInv, NextIsNew, LogsThere, TablesThere,
           ScannedThere, PlaceInv, InHand, CopyInv
  <2>4. LostInv'
    BY <2>1, <2>2
       DEF RepairInv, LostInv, LogsApart, SafeWithoutError, Below, NextIsNotLost, SafeInFirst,
           SafeInSecond
  <2>5. KeptInv' /\ EndInv'
    BY <2>1, <2>2 DEF RepairInv, KeptInv, KeptSomewhere, KeptAhead, Reached, Ahead, EndInv
  <2>. QED
    BY <2>3, <2>4, <2>5 DEF RepairInv
<1>2. CASE Fix!Next
  BY <1>2, FindFilesKeeps, ConvertKeeps, ArchiveLogKeeps, ScanTableKeeps, GiveUpTableKeeps,
     CreateCopyKeeps,
     ArchiveTableKeeps, FinishCopyKeeps, RenameCopyKeeps, DiscardManifestsKeeps, InstallKeeps,
     CrashKeeps DEF Fix!Next
<1>. QED
  BY <1>1, <1>2

LEMMA RepairKeeps == RepairInv => Fix!KeepsReadable /\ Fix!DescriptorSound
<1>. SUFFICES ASSUME RepairInv PROVE Fix!KeepsReadable /\ Fix!DescriptorSound
  OBVIOUS
<1>1. Fix!KeepsReadable
  BY DEF Fix!KeepsReadable, Fix!Found, RepairInv, KeptInv, KeptSomewhere, EndInv
<1>2. Fix!DescriptorSound
  BY DEF Fix!DescriptorSound, Fix!Is, RepairInv, EndInv, IsTable
<1>. QED
  BY <1>1, <1>2
=============================================================================
