--------------------------- MODULE Storage_proofs ---------------------------
(***************************************************************************)
(* Theorems about the storage engine's parts, put side by side (Storage):  *)
(* each part takes its own steps or none, so what StorageParts_proofs has  *)
(* of one lasts.                                                           *)
(***************************************************************************)
EXTENDS Storage, StorageParts_proofs

----------------------------------------------------------------------------
LEMMA LockLasts == Spec => []LockInv
<1>1. Init => LockInv
  BY LockInit DEF Init
<1>2. LockInv /\ [Next]_vars => LockInv'
  <2> SUFFICES ASSUME LockInv, [Next]_vars PROVE LockInv'
    OBVIOUS
  <2>1. Lock!Next \/ UNCHANGED lockVars
    BY DEF Next, vars
  <2>. QED
    BY <2>1, LockStep DEF LockInv, lockVars
<1>. QED
  BY <1>1, <1>2, PTL DEF Spec

LEMMA WorkLasts == Spec => []WorkInv
<1>1. Init => WorkInv
  BY WorkInit DEF Init
<1>2. WorkInv /\ [Next]_vars => WorkInv'
  <2> SUFFICES ASSUME WorkInv, [Next]_vars PROVE WorkInv'
    OBVIOUS
  <2>1. Work!Next \/ UNCHANGED workVars
    BY DEF Next, vars
  <2>. QED
    BY <2>1, WorkStep DEF WorkInv, workVars, Work!RunInOrder, Work!NoSignalMissed
<1>. QED
  BY <1>1, <1>2, PTL DEF Spec

\* Of one process no two threads hold the lock of a database.
THEOREM OneInProcessHolds == Spec => []OneInProcess
<1>1. LockInv => OneInProcess
  BY DEF LockInv, Entered, OneInProcess, Lock!OneInProcess, Lock!Holding
<1>. QED
  BY <1>1, LockLasts, PTL

\* Background works run once each and in order, and the thread does not sleep
\* while there is one.
THEOREM WorksRunHolds == Spec => []WorksRun
<1>1. WorkInv => WorksRun
  BY DEF WorkInv, WorksRun
<1>. QED
  BY <1>1, WorkLasts, PTL

LEMMA OutputLasts == Spec => []OutputInv
<1>1. Init => OutputInv
  BY OutputInit DEF Init
<1>2. OutputInv /\ [Next]_vars => OutputInv'
  <2> SUFFICES ASSUME OutputInv, [Next]_vars PROVE OutputInv'
    OBVIOUS
  <2>1. CASE Output!Next
    BY <2>1, OutputStep
  <2>2. CASE UNCHANGED outputVars
    BY <2>2 DEF OutputInv, Rising, Held, outputVars
  <2>. QED
    BY <2>1, <2>2 DEF Next, vars
<1>. QED
  BY <1>1, <1>2, PTL DEF Spec

LEMMA CurrentLasts == Spec => []CurrentInv
<1>1. Init => CurrentInv
  BY CurrentInit DEF Init
<1>2. CurrentInv /\ [Next]_vars => CurrentInv'
  <2> SUFFICES ASSUME CurrentInv, [Next]_vars PROVE CurrentInv'
    OBVIOUS
  <2>1. Current!Next \/ UNCHANGED currentVars
    BY DEF Next, vars
  <2>. QED
    BY <2>1, CurrentStep
<1>. QED
  BY <1>1, <1>2, PTL DEF Spec

\* Bytes reach a file in their order and once, what a Sync reported is durable,
\* and CURRENT names a whole MANIFEST, whatever fails and wherever it stops.
THEOREM FileKeepsWordHolds == Spec => FileKeepsWord
<1>. DEFINE Kept == Output!InOrder /\ (part = "current" => Current!OpensAgain)
            Told == promise' # promise =>
                      /\ manifest => listed'
                      /\ \A b \in (refused + 1)..appended : \E i \in 1..durable' : written'[i] = b
<1>1. OutputInv /\ CurrentInv => Kept
  BY OutputInOrder, CurrentOpens
<1>2. OutputInv /\ [Next]_vars => [Told]_(Output!vars)
  <2> SUFFICES ASSUME OutputInv, [Next]_vars PROVE [Told]_(Output!vars)
    OBVIOUS
  <2>1. CASE Output!Next
    BY <2>1, OutputStep
  <2>2. CASE UNCHANGED outputVars
    BY <2>2 DEF outputVars, Output!vars
  <2>. QED
    BY <2>1, <2>2 DEF Next, vars
<1>3. Spec => []Kept
  <2>. HIDE DEF Kept
  <2>. QED
    BY <1>1, OutputLasts, CurrentLasts, PTL
<1>4. Spec => [][Told]_(Output!vars)
  <2>. HIDE DEF Told
  <2>. QED
    BY <1>2, OutputLasts, PTL DEF Spec
<1>. QED
  BY <1>3, <1>4 DEF FileKeepsWord, Output!SyncKeepsWord

LEMMA RepairLasts == Spec => []RepairInv
<1>1. Init => RepairInv
  BY RepairInit DEF Init
<1>2. RepairInv /\ [Next]_vars => RepairInv'
  <2> SUFFICES ASSUME RepairInv, [Next]_vars PROVE RepairInv'
    OBVIOUS
  <2>1. Fix!Next \/ UNCHANGED fixVars
    BY DEF Next, vars
  <2>. QED
    BY <2>1, RepairStep
<1>. QED
  BY <1>1, <1>2, PTL DEF Spec

\* What could be read when a repair began can be read ever after, and the
\* descriptor a run ends with names whole tables and no number in use: calls
\* may fail, and the process may be killed and the repair run again.
THEOREM RepairKeepsDataHolds == Spec => []RepairKeepsData
<1>1. RepairInv => RepairKeepsData
  BY RepairKeeps DEF RepairKeepsData
<1>. QED
  BY <1>1, RepairLasts, PTL
=============================================================================
