----------------------------- MODULE WorkQueue -----------------------------
(* PosixEnv::Schedule and its background thread (util/env_posix.cc), which  *)
(* runs the compactions of every open database, one at a time.              *)
EXTENDS Naturals, Sequences, FiniteSets

CONSTANT Works   \* what is scheduled, each once

VARIABLES queue,   \* background_work_queue_
          worker,  \* "none", "looking", "waiting" on the condition, or the work it runs
          asked,   \* the works scheduled, in order
          ran      \* those that are done, in order

vars == <<queue, worker, asked, ran>>

NoWorker == [at |-> "none", work |-> 0]
Looking == [at |-> "looking", work |-> 0]
Waiting == [at |-> "waiting", work |-> 0]
In(seq) == {seq[i] : i \in DOMAIN seq}
----------------------------------------------------------------------------
\* Mutant: the signal is sent for a queue that had work.
SignalledWhenFull == IF worker = Waiting /\ queue # <<>> THEN Looking ELSE worker

\* The thread is started, or signalled when the queue was empty.
Signalled == IF worker = Waiting /\ queue = <<>> THEN Looking ELSE worker
Schedule(work) ==
  /\ work \notin In(asked)
  /\ worker' = IF worker = NoWorker THEN Looking ELSE Signalled
  /\ queue' = Append(queue, work) /\ asked' = Append(asked, work)
  /\ UNCHANGED ran

\* BackgroundThreadMain, up to Wait or the call of the work.
Front == queue[1]
Look ==
  /\ worker = Looking
  /\ IF queue = <<>> THEN worker' = Waiting /\ UNCHANGED queue
     ELSE /\ worker' = [at |-> "running", work |-> Front]
          /\ queue' = Tail(queue)
  /\ UNCHANGED <<asked, ran>>
\* A wait may end without a signal.
Wake == worker = Waiting /\ worker' = Looking /\ UNCHANGED <<queue, asked, ran>>
Finish ==
  /\ worker.at = "running"
  /\ ran' = Append(ran, worker.work) /\ worker' = Looking
  /\ UNCHANGED <<queue, asked>>

Init == queue = <<>> /\ worker = NoWorker /\ asked = <<>> /\ ran = <<>>
Next == (\E work \in Works : Schedule(work)) \/ Look \/ Wake \/ Finish
----------------------------------------------------------------------------
\* Works run in the order they were scheduled in, each once.
RunInOrder ==
  ran \o (IF worker.at = "running" THEN <<worker.work>> ELSE <<>>) \o queue = asked

\* The thread never waits while there is work: no signal is missed, although
\* there is none for a queue that is not empty.
NoSignalMissed == worker = Waiting => queue = <<>>
=============================================================================
