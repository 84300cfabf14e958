-------------------------- MODULE TaskQueueProofs --------------------------
(***************************************************************************)
(* Theorems about TaskQueue, for any finite set of tasks, any size of the  *)
(* pool, any number of retries, steps, crashes, cancellations and faults.  *)
(***************************************************************************)
EXTENDS TaskQueue, FiniteSetTheorems, TLAPS

\* abbreviations of the checkpoint store, transparent in every proof
USE DEF files, PreflightMark

\* The number of tasks in any set of tasks is a natural number.
LEMMA CountType == \A S \in SUBSET Tasks : Cardinality(S) \in Nat
  BY ConstantsAssumption, FS_CardinalityType, FS_Subset

\* The idle job and the shutdown that has not begun are well-typed records.
LEMMA EmptyRecords == NoJob \in Job /\ NoShut \in Shut
  BY ConstantsAssumption DEF ConstantsAssumption, NoJob, Job, WorkerPc, Status,
     Terminal, Active, NoShut, Shut, ShutPc

\* A freshly constructed queue is well typed.
LEMMA InitType == Init => TypeOK
<1> SUFFICES ASSUME Init PROVE TypeOK
  OBVIOUS
<1>1. DiskOK
  BY ConstantsAssumption DEF ConstantsAssumption, Init, DiskOK
<1>5. RegistryOK
  BY DEF Init, RegistryOK
<1>6. PoolOK
  BY DEF Init, PoolOK
<1>2. ClientsOK /\ ControlOK /\ JobOK
  BY EmptyRecords DEF Init, ClientsOK, ControlOK, JobOK, NoJob
<1>3. HistoryOK
  BY ConstantsAssumption DEF ConstantsAssumption, Init, HistoryOK
<1>4. QED
  BY <1>1, <1>2, <1>3, <1>5, <1>6 DEF TypeOK

-----------------------------------------------------------------------------
\* Type correctness, group of actions by group of actions

\* The steps of start() and of recover() keep the types.
LEMMA StartNextType == ASSUME TypeOK, StartNext PROVE TypeOK'
<1>1. CASE Start
  <2>1. DiskOK' /\ ClientsOK' /\ HistoryOK' /\ JobOK'
    BY <1>1 DEF Start, StartWith, Interrupted, TypeOK, DiskOK, ClientsOK,
       HistoryOK, JobOK, disk, clients, history
  <2>2. RegistryOK'
    BY <1>1, CountType DEF Start, StartWith, Interrupted, TypeOK, RegistryOK,
       registry
  <2>3. PoolOK'
    BY <1>1 DEF Start, StartWith, Interrupted, TypeOK, PoolOK, pool
  <2>4. ControlOK'
    BY <1>1, EmptyRecords DEF Start, StartWith, Interrupted, TypeOK, ControlOK,
       control, Shut, ShutPc
  <2> QED
    BY <2>1, <2>2, <2>3, <2>4 DEF TypeOK
<1>2. CASE StartDone
  <2>1. DiskOK' /\ RegistryOK' /\ PoolOK' /\ ClientsOK' /\ HistoryOK' /\ JobOK'
    BY <1>2 DEF StartDone, TypeOK, DiskOK, RegistryOK, PoolOK, ClientsOK,
       HistoryOK, JobOK, disk, registry, pool, clients, history
  <2>2. ControlOK'
    BY <1>2, EmptyRecords DEF StartDone, TypeOK, ControlOK, control, Shut,
       ShutPc
  <2> QED
    BY <2>1, <2>2 DEF TypeOK
<1>3. ASSUME NEW t \in Tasks, RecoverResume(t) PROVE TypeOK'
  <2>1. DiskOK' /\ PoolOK' /\ HistoryOK' /\ JobOK'
    BY <1>3 DEF RecoverResume, Requeue, NextOrphan, Register, TypeOK, DiskOK,
       PoolOK, HistoryOK, JobOK, disk, pool, history
  <2>2. RegistryOK'
    BY <1>3 DEF RecoverResume, Requeue, NextOrphan, Register, TypeOK,
       RegistryOK, registry
  <2>3. ClientsOK'
    BY <1>3 DEF RecoverResume, Requeue, NextOrphan, Register, TypeOK,
       ClientsOK, clients
  <2>4. ControlOK'
    BY <1>3, EmptyRecords DEF RecoverResume, Requeue, NextOrphan, Register,
       TypeOK, ControlOK, control, Shut, ShutPc
  <2> QED
    BY <2>1, <2>2, <2>3, <2>4 DEF TypeOK
<1>4. ASSUME NEW t \in Tasks, RecoverFail(t) PROVE TypeOK'
  <2>1. PoolOK' /\ ClientsOK' /\ HistoryOK' /\ JobOK'
    BY <1>4 DEF RecoverFail, GiveUpOrphan, NextOrphan, Save, DecrementActive,
       TypeOK, PoolOK, ClientsOK, HistoryOK, JobOK, pool, clients, history
  <2>2. DiskOK'
    BY <1>4, ConstantsAssumption DEF RecoverFail, GiveUpOrphan, NextOrphan,
       Save, DecrementActive, TypeOK, DiskOK, disk, Status, Terminal, Active,
       ConstantsAssumption, JobOK, Job
  <2>3. RegistryOK'
    BY <1>4 DEF RecoverFail, GiveUpOrphan, NextOrphan, Save, DecrementActive,
       TypeOK, RegistryOK, registry
  <2>4. ControlOK'
    BY <1>4, EmptyRecords DEF RecoverFail, GiveUpOrphan, NextOrphan, Save,
       DecrementActive, TypeOK, ControlOK, control, Shut, ShutPc
  <2> QED
    BY <2>1, <2>2, <2>3, <2>4 DEF TypeOK
<1> QED
  BY <1>1, <1>2, <1>3, <1>4 DEF StartNext

\* The steps of submit() and of enqueue() keep the types.
LEMMA SubmitNextType == ASSUME TypeOK, NEW t \in Tasks, SubmitNext(t) PROVE TypeOK'
<1>1. CASE SubmitRegister(t)
  <2>1. DiskOK' /\ PoolOK' /\ ControlOK' /\ HistoryOK' /\ JobOK'
    BY <1>1 DEF SubmitRegister, Register, TypeOK, DiskOK, PoolOK, ControlOK,
       HistoryOK, JobOK, disk, pool, control, history
  <2>2. RegistryOK'
    BY <1>1 DEF SubmitRegister, Register, TypeOK, RegistryOK, registry
  <2>3. ClientsOK'
    BY <1>1 DEF SubmitRegister, Register, TypeOK, ClientsOK, clients
  <2> QED
    BY <2>1, <2>2, <2>3 DEF TypeOK
<1>2. CASE EnqueueSchedule(t)
  <2>1. DiskOK' /\ RegistryOK' /\ ControlOK' /\ HistoryOK' /\ JobOK'
    BY <1>2 DEF EnqueueSchedule, TypeOK, DiskOK, RegistryOK, ControlOK,
       HistoryOK, JobOK, disk, registry, control, history
  <2>2. PoolOK'
    BY <1>2 DEF EnqueueSchedule, TypeOK, PoolOK, pool
  <2>3. ClientsOK'
    BY <1>2 DEF EnqueueSchedule, TypeOK, ClientsOK, clients
  <2> QED
    BY <2>1, <2>2, <2>3 DEF TypeOK
<1>3. CASE EnqueueRaises(t)
  <2>1. DiskOK' /\ RegistryOK' /\ PoolOK' /\ ControlOK' /\ HistoryOK' /\ JobOK'
    BY <1>3 DEF EnqueueRaises, TypeOK, DiskOK, RegistryOK, PoolOK, ControlOK,
       HistoryOK, JobOK, disk, registry, pool, control, history
  <2>2. ClientsOK'
    BY <1>3 DEF EnqueueRaises, TypeOK, ClientsOK, clients
  <2> QED
    BY <2>1, <2>2 DEF TypeOK
<1>4. CASE EnqueuePublish(t)
  <2>1. DiskOK' /\ PoolOK' /\ ControlOK' /\ HistoryOK' /\ JobOK'
    BY <1>4 DEF EnqueuePublish, TypeOK, DiskOK, PoolOK, ControlOK, HistoryOK,
       JobOK, disk, pool, control, history
  <2>2. RegistryOK'
    BY <1>4 DEF EnqueuePublish, TypeOK, RegistryOK, registry
  <2>3. ClientsOK'
    BY <1>4 DEF EnqueuePublish, TypeOK, ClientsOK, clients
  <2> QED
    BY <2>1, <2>2, <2>3 DEF TypeOK
<1> QED
  BY <1>1, <1>2, <1>3, <1>4 DEF SubmitNext

\* The steps of cancel() keep the types.
LEMMA CancelNextType == ASSUME TypeOK, NEW t \in Tasks, CancelNext(t) PROVE TypeOK'
<1>1. CASE CancelSignal(t)
  <2>1. DiskOK' /\ PoolOK' /\ ControlOK' /\ JobOK'
    BY <1>1 DEF CancelSignal, CancelMoment, TypeOK, DiskOK, PoolOK, ControlOK,
       JobOK, disk, pool, control
  <2>2. RegistryOK'
    BY <1>1 DEF CancelSignal, CancelMoment, TypeOK, RegistryOK, registry
  <2>3. ClientsOK'
    BY <1>1 DEF CancelSignal, CancelMoment, TypeOK, ClientsOK, clients
  <2>4. HistoryOK'
    BY <1>1, ConstantsAssumption DEF CancelSignal, CancelMoment, TypeOK,
       HistoryOK, history, Terminal, ConstantsAssumption
  <2> QED
    BY <2>1, <2>2, <2>3, <2>4 DEF TypeOK
<1>2. CASE CancelNoController(t)
  <2>1. DiskOK' /\ RegistryOK' /\ PoolOK' /\ ControlOK' /\ HistoryOK' /\ JobOK'
    BY <1>2 DEF CancelNoController, TypeOK, DiskOK, RegistryOK, PoolOK,
       ControlOK, HistoryOK, JobOK, disk, registry, pool, control, history
  <2>2. ClientsOK'
    BY <1>2 DEF CancelNoController, TypeOK, ClientsOK, clients
  <2> QED
    BY <2>1, <2>2 DEF TypeOK
<1>3. CASE CancelWrite(t)
  <2>1. RegistryOK' /\ PoolOK' /\ ControlOK' /\ HistoryOK' /\ JobOK'
    BY <1>3 DEF CancelWrite, Save, TypeOK, RegistryOK, PoolOK, ControlOK,
       HistoryOK, JobOK, registry, pool, control, history
  <2>2. DiskOK'
    BY <1>3, ConstantsAssumption DEF CancelWrite, Save, TypeOK, DiskOK, disk,
       Status, Terminal, Active, ConstantsAssumption, JobOK, Job
  <2>3. ClientsOK'
    BY <1>3 DEF CancelWrite, Save, TypeOK, ClientsOK, clients
  <2> QED
    BY <2>1, <2>2, <2>3 DEF TypeOK
<1>4. CASE CancelSettle(t)
  <2>1. DiskOK' /\ PoolOK' /\ ControlOK' /\ JobOK'
    BY <1>4 DEF CancelSettle, DecrementActive, PopAndSet, Emit, TypeOK, DiskOK,
       PoolOK, ControlOK, JobOK, disk, pool, control
  <2>2. RegistryOK'
    BY <1>4 DEF CancelSettle, DecrementActive, PopAndSet, Emit, TypeOK,
       RegistryOK, registry
  <2>3. ClientsOK'
    BY <1>4 DEF CancelSettle, DecrementActive, PopAndSet, Emit, TypeOK,
       ClientsOK, clients
  <2>4. HistoryOK'
    BY <1>4, ConstantsAssumption DEF CancelSettle, DecrementActive, PopAndSet,
       Emit, TypeOK, HistoryOK, history, Terminal, ConstantsAssumption
  <2> QED
    BY <2>1, <2>2, <2>3, <2>4 DEF TypeOK
<1> QED
  BY <1>1, <1>2, <1>3, <1>4 DEF CancelNext

\* The steps of the pipeline a worker runs keep the types.
LEMMA PipelineNextType == ASSUME TypeOK, NEW t \in Tasks, PipelineNext(t) PROVE TypeOK'
<1>1. CASE RunStep(t)
  <2>1. RegistryOK' /\ PoolOK' /\ ClientsOK' /\ ControlOK'
    BY <1>1 DEF RunStep, Checkpoint, Fault, TypeOK, RegistryOK, PoolOK,
       ClientsOK, ControlOK, registry, pool, clients, control
  <2> DEFINE k == job[t].step + 1
             m == IF k > job[t].made THEN k ELSE job[t].made
  <2>2. k \in 1..Steps /\ m \in 0..Steps
    BY <1>1, ConstantsAssumption DEF RunStep, TypeOK, JobOK, Job,
       ConstantsAssumption
  <2>3. DiskOK'
    BY <1>1, <2>2, ConstantsAssumption DEF RunStep, Checkpoint, Fault, TypeOK,
       DiskOK, ConstantsAssumption
  <2>4. JobOK'
    <3>1. \A a, b \in 0..Steps : [job[t] EXCEPT !.step = a, !.made = b] \in Job
      BY DEF TypeOK, JobOK, Job
    <3>2. [job[t] EXCEPT !.step = k, !.made = m] \in Job
      <4>1. k \in 0..Steps
        BY <2>2, ConstantsAssumption DEF ConstantsAssumption
      <4> HIDE DEF k, m
      <4> QED
        BY <2>2, <3>1, <4>1
    <3> QED
      BY <1>1, <3>2 DEF RunStep, TypeOK, JobOK
  <2>5. HistoryOK'
    BY <1>1, ConstantsAssumption DEF RunStep, Checkpoint, Fault, TypeOK,
       HistoryOK, Terminal, ConstantsAssumption
  <2> QED
    BY <2>1, <2>3, <2>4, <2>5 DEF TypeOK
<1>2. CASE StepCancelled(t)
  <2>1. DiskOK' /\ RegistryOK' /\ PoolOK' /\ ClientsOK' /\ ControlOK' /\ HistoryOK'
    BY <1>2 DEF StepCancelled, Outcome, TypeOK, DiskOK, RegistryOK, PoolOK,
       ClientsOK, ControlOK, HistoryOK, disk, registry, pool, clients, control,
       history
  <2>2. JobOK'
    BY <1>2, EmptyRecords, ConstantsAssumption, ZenonT(20) DEF StepCancelled, Outcome,
       TypeOK, JobOK, Job, WorkerPc, Status, Terminal, Active,
       ConstantsAssumption, DiskOK
  <2> QED
    BY <2>1, <2>2 DEF TypeOK
<1>3. CASE PipelineDone(t)
  <2>1. DiskOK' /\ RegistryOK' /\ PoolOK' /\ ClientsOK' /\ ControlOK' /\ HistoryOK'
    BY <1>3 DEF PipelineDone, Outcome, TypeOK, DiskOK, RegistryOK, PoolOK,
       ClientsOK, ControlOK, HistoryOK, disk, registry, pool, clients, control,
       history
  <2>2. JobOK'
    BY <1>3, EmptyRecords, ConstantsAssumption, ZenonT(20) DEF PipelineDone, Outcome,
       TypeOK, JobOK, Job, WorkerPc, Status, Terminal, Active,
       ConstantsAssumption, DiskOK
  <2> QED
    BY <2>1, <2>2 DEF TypeOK
<1>4. ASSUME NEW k \in {"retryable", "fatal"}, StepRaises(t, k)
      PROVE  TypeOK'
  <2>1. DiskOK' /\ RegistryOK' /\ PoolOK' /\ ClientsOK' /\ ControlOK' /\ HistoryOK'
    BY <1>4 DEF StepRaises, Outcome, TypeOK, DiskOK, RegistryOK, PoolOK,
       ClientsOK, ControlOK, HistoryOK, disk, registry, pool, clients, control,
       history
  <2>2. JobOK'
    BY <1>4, EmptyRecords, ConstantsAssumption, ZenonT(20) DEF StepRaises, Outcome, TypeOK,
       JobOK, Job, WorkerPc, Status, Terminal, Active, ConstantsAssumption,
       DiskOK
  <2> QED
    BY <2>1, <2>2 DEF TypeOK
<1>5. CASE Preflight(t)
  <2>1. RegistryOK' /\ PoolOK' /\ ClientsOK' /\ ControlOK'
    BY <1>5 DEF Preflight, Checkpoint, Goto, Fault, TypeOK, RegistryOK, PoolOK,
       ClientsOK, ControlOK, registry, pool, clients, control
  <2>2. DiskOK'
    BY <1>5, ConstantsAssumption DEF Preflight, Checkpoint, Fault, TypeOK,
       DiskOK, JobOK, Job, ConstantsAssumption
  <2>3. JobOK'
    BY <1>5 DEF Preflight, Goto, TypeOK, JobOK, Job, WorkerPc
  <2>4. HistoryOK'
    BY <1>5, ConstantsAssumption DEF Preflight, Checkpoint, Fault, TypeOK,
       HistoryOK, Terminal, ConstantsAssumption
  <2> QED
    BY <2>1, <2>2, <2>3, <2>4 DEF TypeOK
<1>6. CASE PreflightRaises(t)
  <2>1. DiskOK' /\ RegistryOK' /\ PoolOK' /\ ClientsOK' /\ ControlOK' /\ HistoryOK'
    BY <1>6 DEF PreflightRaises, Outcome, TypeOK, DiskOK, RegistryOK, PoolOK,
       ClientsOK, ControlOK, HistoryOK, disk, registry, pool, clients, control,
       history
  <2>2. JobOK'
    BY <1>6 DEF PreflightRaises, Outcome, TypeOK, JobOK, Job, WorkerPc, Status,
       Terminal
  <2> QED
    BY <2>1, <2>2 DEF TypeOK
<1>7. CASE ResumeDone(t)
  <2>1. DiskOK' /\ RegistryOK' /\ PoolOK' /\ ClientsOK' /\ ControlOK' /\ HistoryOK'
    BY <1>7 DEF ResumeDone, Goto, TypeOK, DiskOK, RegistryOK, PoolOK,
       ClientsOK, ControlOK, HistoryOK, disk, registry, pool, clients, control,
       history
  <2>2. JobOK'
    BY <1>7 DEF ResumeDone, Goto, TypeOK, JobOK, Job, WorkerPc
  <2> QED
    BY <2>1, <2>2 DEF TypeOK
<1> QED
  BY <1>1, <1>2, <1>3, <1>4, <1>5, <1>6, <1>7 DEF PipelineNext

\* The steps of the worker thread keep the types.
LEMMA WorkerNextType == ASSUME TypeOK, NEW t \in Tasks, WorkerNext(t) PROVE TypeOK'
<1>1. CASE PipelineNext(t)
  BY <1>1, PipelineNextType
<1>2. CASE WorkerPick(t)
  <2>1. DiskOK' /\ RegistryOK' /\ ClientsOK' /\ ControlOK' /\ HistoryOK'
    BY <1>2 DEF WorkerPick, TypeOK, DiskOK, RegistryOK, ClientsOK, ControlOK,
       HistoryOK, disk, registry, clients, control, history
  <2>2. PoolOK'
    BY <1>2 DEF WorkerPick, TypeOK, PoolOK, pool
  <2>3. JobOK'
    BY <1>2, EmptyRecords, ConstantsAssumption, ZenonT(20) DEF WorkerPick, TypeOK, JobOK,
       Job, WorkerPc, Status, Terminal, Active, NoJob, ConstantsAssumption,
       DiskOK
  <2> QED
    BY <2>1, <2>2, <2>3 DEF TypeOK
<1>3. CASE BeginAttempt(t)
  <2>1. PoolOK' /\ ClientsOK' /\ ControlOK' /\ HistoryOK'
    BY <1>3 DEF BeginAttempt, AttemptFrom, Save, TypeOK, PoolOK, ClientsOK,
       ControlOK, HistoryOK, pool, clients, control, history
  <2>2. DiskOK'
    BY <1>3, ConstantsAssumption DEF BeginAttempt, AttemptFrom, Save, TypeOK,
       DiskOK, disk, Status, Terminal, Active, ConstantsAssumption, JobOK, Job
  <2>3. RegistryOK'
    BY <1>3 DEF BeginAttempt, AttemptFrom, Save, TypeOK, RegistryOK, registry
  <2>4. JobOK'
    <3>1. \A a, b \in 0..Steps, v \in {"RUNNING", "RETRYING"} :
            [job[t] EXCEPT !.pc = "build", !.stat = v, !.step = a, !.made = b,
                           !.kind = "none"] \in Job
      BY DEF TypeOK, JobOK, Job, WorkerPc, Status, Active
    <3> DEFINE a == IF ckpt[t] > 0 THEN ckpt[t] ELSE 0
               v == IF job[t].att = 0 THEN "RUNNING" ELSE "RETRYING"
    <3>2. a \in 0..Steps /\ dump[t] \in 0..Steps /\ v \in {"RUNNING", "RETRYING"}
      BY ConstantsAssumption DEF ConstantsAssumption, TypeOK, DiskOK
    <3>3. job' = [job EXCEPT ![t] = [@ EXCEPT !.pc = "build", !.stat = v,
                                       !.step = a, !.made = dump[t],
                                       !.kind = "none"]]
      BY <1>3 DEF BeginAttempt, AttemptFrom
    <3> HIDE DEF a, v
    <3> DEFINE j == [job[t] EXCEPT !.pc = "build", !.stat = v, !.step = a,
                                   !.made = dump[t], !.kind = "none"]
    <3>4. j \in Job
      BY <3>1, <3>2
    <3>5. j.pc = "build"
      BY DEF TypeOK, JobOK, Job
    <3>6. job' = [job EXCEPT ![t] = j]
      BY <3>3
    <3> HIDE DEF j
    <3> QED
      BY <3>4, <3>5, <3>6 DEF TypeOK, JobOK
  <2> QED
    BY <2>1, <2>2, <2>3, <2>4 DEF TypeOK
<1>4. CASE ReportOutcome(t)
  <2>1. RegistryOK' /\ PoolOK' /\ ClientsOK' /\ ControlOK' /\ HistoryOK'
    BY <1>4 DEF ReportOutcome, Report, Save, Goto, AfterReport, Retryable,
       Exhausted, TypeOK, RegistryOK, PoolOK, ClientsOK, ControlOK, HistoryOK,
       registry, pool, clients, control, history
  <2>2. DiskOK'
    BY <1>4, ConstantsAssumption DEF ReportOutcome, Report, Save, Goto,
       AfterReport, Retryable, Exhausted, TypeOK, DiskOK, disk, Status,
       Terminal, Active, ConstantsAssumption, JobOK, Job
  <2>3. JobOK'
    BY <1>4, EmptyRecords, ConstantsAssumption DEF ReportOutcome, Report, Save,
       Goto, AfterReport, Retryable, Exhausted, TypeOK, JobOK, Job, WorkerPc,
       Status, Terminal, Active, ConstantsAssumption, DiskOK
  <2> QED
    BY <2>1, <2>2, <2>3 DEF TypeOK
<1>5. CASE DeleteCheckpoint(t)
  <2>1. RegistryOK' /\ PoolOK' /\ ClientsOK' /\ ControlOK'
    BY <1>5 DEF DeleteCheckpoint, Goto, Fault, TypeOK, RegistryOK, PoolOK,
       ClientsOK, ControlOK, registry, pool, clients, control
  <2>2. DiskOK'
    BY <1>5, ConstantsAssumption DEF DeleteCheckpoint, Goto, Fault, TypeOK,
       DiskOK, disk, Status, Terminal, Active, ConstantsAssumption, JobOK, Job
  <2>3. JobOK'
    BY <1>5, EmptyRecords, ConstantsAssumption DEF DeleteCheckpoint, Goto,
       Fault, TypeOK, JobOK, Job, WorkerPc, Status, Terminal, Active,
       ConstantsAssumption, DiskOK
  <2>4. HistoryOK'
    BY <1>5, ConstantsAssumption DEF DeleteCheckpoint, Goto, Fault, TypeOK,
       HistoryOK, history, Terminal, ConstantsAssumption
  <2> QED
    BY <2>1, <2>2, <2>3, <2>4 DEF TypeOK
<1>6. CASE RouteToDeadLetter(t)
  <2>1. RegistryOK' /\ PoolOK' /\ ClientsOK' /\ ControlOK'
    BY <1>6 DEF RouteToDeadLetter, Goto, Fault, TypeOK, RegistryOK, PoolOK,
       ClientsOK, ControlOK, registry, pool, clients, control
  <2>2. DiskOK'
    BY <1>6, ConstantsAssumption DEF RouteToDeadLetter, Goto, Fault, TypeOK,
       DiskOK, disk, Status, Terminal, Active, ConstantsAssumption, JobOK, Job
  <2>3. JobOK'
    <3>1. CASE job' = [job EXCEPT ![t] = [@ EXCEPT !.pc = "conclude",
                                            !.stat = "DEAD"]]
      <4>1. [job[t] EXCEPT !.pc = "conclude", !.stat = "DEAD"] \in Job
        BY DEF TypeOK, JobOK, Job, WorkerPc, Status, Terminal
      <4> QED
        BY <3>1, <4>1 DEF TypeOK, JobOK, Terminal
    <3>2. CASE Goto(t, "conclude")
      BY <1>6, <3>2 DEF RouteToDeadLetter, Goto, TypeOK, JobOK, Job, WorkerPc
    <3> QED
      BY <1>6, <3>1, <3>2 DEF RouteToDeadLetter
  <2>4. HistoryOK'
    BY <1>6, ConstantsAssumption DEF RouteToDeadLetter, Goto, Fault, TypeOK,
       HistoryOK, history, Terminal, ConstantsAssumption
  <2> QED
    BY <2>1, <2>2, <2>3, <2>4 DEF TypeOK
<1>7. CASE BackoffCancelled(t)
  <2>1. DiskOK' /\ RegistryOK' /\ PoolOK' /\ ClientsOK' /\ ControlOK' /\ HistoryOK'
    BY <1>7 DEF BackoffCancelled, TypeOK, DiskOK, RegistryOK, PoolOK,
       ClientsOK, ControlOK, HistoryOK, disk, registry, pool, clients, control,
       history
  <2>2. JobOK'
    BY <1>7, EmptyRecords, ConstantsAssumption, ZenonT(20) DEF BackoffCancelled, TypeOK,
       JobOK, Job, WorkerPc, Status, Terminal, Active, ConstantsAssumption
  <2> QED
    BY <2>1, <2>2 DEF TypeOK
<1>8. CASE BackoffElapsed(t)
  <2>1. DiskOK' /\ RegistryOK' /\ PoolOK' /\ ClientsOK' /\ ControlOK' /\ HistoryOK'
    BY <1>8 DEF BackoffElapsed, RetryAs, TypeOK, DiskOK, RegistryOK, PoolOK,
       ClientsOK, ControlOK, HistoryOK, disk, registry, pool, clients, control,
       history
  <2>2. JobOK'
    <3>1. job[t].att + 1 \in 0..MaxRetries
      BY <1>8, ConstantsAssumption DEF BackoffElapsed, RetryAs, TypeOK, JobOK,
         Job, ConstantsAssumption
    <3>2. [job[t] EXCEPT !.pc = "attempt", !.att = job[t].att + 1] \in Job
      BY <3>1 DEF TypeOK, JobOK, Job, WorkerPc
    <3> QED
      BY <1>8, <3>2 DEF BackoffElapsed, RetryAs, TypeOK, JobOK
  <2> QED
    BY <2>1, <2>2 DEF TypeOK
<1>9. CASE Conclude(t)
  <2>1. RegistryOK' /\ PoolOK' /\ ClientsOK' /\ ControlOK' /\ HistoryOK'
    BY <1>9 DEF Conclude, Save, Goto, TypeOK, RegistryOK, PoolOK, ClientsOK,
       ControlOK, HistoryOK, registry, pool, clients, control, history
  <2>2. DiskOK'
    BY <1>9, ConstantsAssumption DEF Conclude, Save, Goto, TypeOK, DiskOK,
       disk, Status, Terminal, Active, ConstantsAssumption, JobOK, Job
  <2>3. JobOK'
    BY <1>9, EmptyRecords, ConstantsAssumption DEF Conclude, Save, Goto,
       TypeOK, JobOK, Job, WorkerPc, Status, Terminal, Active,
       ConstantsAssumption
  <2> QED
    BY <2>1, <2>2, <2>3 DEF TypeOK
<1>10. CASE Notify(t)
  <2>1. RegistryOK' /\ PoolOK' /\ ClientsOK' /\ ControlOK'
    BY <1>10 DEF Notify, Save, Emit, Goto, TypeOK, RegistryOK, PoolOK,
       ClientsOK, ControlOK, registry, pool, clients, control
  <2>2. DiskOK'
    BY <1>10, ConstantsAssumption DEF Notify, Save, Emit, Goto, TypeOK, DiskOK,
       disk, Status, Terminal, Active, ConstantsAssumption, JobOK, Job
  <2>3. JobOK'
    BY <1>10, EmptyRecords, ConstantsAssumption DEF Notify, Save, Emit, Goto,
       TypeOK, JobOK, Job, WorkerPc, Status, Terminal, Active,
       ConstantsAssumption
  <2>4. HistoryOK'
    BY <1>10, ConstantsAssumption DEF Notify, Save, Emit, Goto, TypeOK,
       HistoryOK, history, Terminal, ConstantsAssumption, JobOK, Job, DiskOK,
       Status, Absent, Active
  <2> QED
    BY <2>1, <2>2, <2>3, <2>4 DEF TypeOK
<1>11. CASE HandleError(t)
  <2>1. RegistryOK' /\ PoolOK' /\ ClientsOK' /\ ControlOK'
    BY <1>11 DEF HandleError, Save, Emit, Goto, Fault, TypeOK, RegistryOK,
       PoolOK, ClientsOK, ControlOK, registry, pool, clients, control
  <2>2. DiskOK'
    BY <1>11, ConstantsAssumption DEF HandleError, Save, Emit, Goto, Fault,
       TypeOK, DiskOK, disk, Status, Terminal, Active, ConstantsAssumption,
       JobOK, Job
  <2>3. JobOK'
    BY <1>11, EmptyRecords, ConstantsAssumption DEF HandleError, Save, Emit,
       Goto, Fault, TypeOK, JobOK, Job, WorkerPc, Status, Terminal, Active,
       ConstantsAssumption
  <2>4. HistoryOK'
    <3>1. emitted' \in [Tasks -> SUBSET Terminal]
      BY <1>11 DEF HandleError, Emit, TypeOK, HistoryOK, DiskOK, Status,
         Terminal, Active, Absent
    <3>2. budget' \in [crash : 0..MaxCrashes, cancel : 0..MaxCancels,
                       fault : 0..MaxFaults, cleanup : 0..MaxCleanups]
      BY <1>11, ConstantsAssumption DEF HandleError, Fault, TypeOK, HistoryOK,
         ConstantsAssumption
    <3> QED
      BY <1>11, <3>1, <3>2 DEF HandleError, TypeOK, HistoryOK
  <2> QED
    BY <2>1, <2>2, <2>3, <2>4 DEF TypeOK
<1>12. CASE Finalize(t)
  <2>1. DiskOK' /\ ClientsOK' /\ ControlOK' /\ HistoryOK'
    BY <1>12 DEF Finalize, Unregister, DecrementActive, PopAndSet, TypeOK,
       DiskOK, ClientsOK, ControlOK, HistoryOK, disk, clients, control, history
  <2>2. RegistryOK'
    BY <1>12 DEF Finalize, Unregister, DecrementActive, PopAndSet, TypeOK,
       RegistryOK, registry
  <2>3. PoolOK'
    BY <1>12 DEF Finalize, Unregister, DecrementActive, PopAndSet, TypeOK,
       PoolOK, pool
  <2>4. JobOK'
    BY <1>12, EmptyRecords, ConstantsAssumption DEF Finalize, Unregister,
       DecrementActive, PopAndSet, TypeOK, JobOK, Job, WorkerPc, Status,
       Terminal, Active, NoJob, ConstantsAssumption
  <2> QED
    BY <2>1, <2>2, <2>3, <2>4 DEF TypeOK
<1> QED
  BY <1>1, <1>2, <1>3, <1>4, <1>5, <1>6, <1>7, <1>8, <1>9, <1>10, <1>11, <1>12
     DEF WorkerNext

\* The steps of a caller of wait() keep the types.
LEMMA WaitNextType == ASSUME TypeOK, NEW t \in Tasks, WaitNext(t) PROVE TypeOK'
<1>1. CASE WaitWake(t)
  <2>1. DiskOK' /\ RegistryOK' /\ PoolOK' /\ ControlOK' /\ HistoryOK' /\ JobOK'
    BY <1>1 DEF WaitWake, TypeOK, DiskOK, RegistryOK, PoolOK, ControlOK,
       HistoryOK, JobOK, disk, registry, pool, control, history
  <2>2. ClientsOK'
    BY <1>1 DEF WaitWake, TypeOK, ClientsOK, clients
  <2> QED
    BY <2>1, <2>2 DEF TypeOK
<1>2. CASE WaitPoll(t)
  <2>1. DiskOK' /\ RegistryOK' /\ PoolOK' /\ ControlOK' /\ HistoryOK' /\ JobOK'
    BY <1>2 DEF WaitPoll, TypeOK, DiskOK, RegistryOK, PoolOK, ControlOK,
       HistoryOK, JobOK, disk, registry, pool, control, history
  <2>2. ClientsOK'
    BY <1>2 DEF WaitPoll, TypeOK, ClientsOK, clients
  <2> QED
    BY <2>1, <2>2 DEF TypeOK
<1> QED
  BY <1>1, <1>2 DEF WaitNext

\* The steps of shutdown() keep the types.
LEMMA ShutdownNextType == ASSUME TypeOK, ShutdownNext PROVE TypeOK'
<1>1. CASE ShutdownAbandon
  <2>1. DiskOK' /\ RegistryOK' /\ ClientsOK' /\ HistoryOK' /\ JobOK'
    BY <1>1 DEF ShutdownAbandon, TypeOK, DiskOK, RegistryOK, ClientsOK,
       HistoryOK, JobOK, disk, registry, clients, history
  <2>2. PoolOK'
    BY <1>1 DEF ShutdownAbandon, TypeOK, PoolOK, pool
  <2>3. ControlOK'
    BY <1>1, EmptyRecords DEF ShutdownAbandon, TypeOK, ControlOK, control,
       Shut, ShutPc
  <2> QED
    BY <2>1, <2>2, <2>3 DEF TypeOK
<1>2. CASE ShutdownDrain
  <2>1. DiskOK' /\ RegistryOK' /\ ClientsOK' /\ HistoryOK' /\ JobOK'
    BY <1>2 DEF ShutdownDrain, TypeOK, DiskOK, RegistryOK, ClientsOK,
       HistoryOK, JobOK, disk, registry, clients, history
  <2>2. PoolOK'
    BY <1>2 DEF ShutdownDrain, TypeOK, PoolOK, pool
  <2>3. ControlOK'
    BY <1>2, EmptyRecords DEF ShutdownDrain, TypeOK, ControlOK, control, Shut,
       ShutPc, RegistryOK
  <2> QED
    BY <2>1, <2>2, <2>3 DEF TypeOK
<1>3. CASE DrainJoined
  <2>1. DiskOK' /\ RegistryOK' /\ PoolOK' /\ ClientsOK' /\ HistoryOK' /\ JobOK'
    BY <1>3 DEF DrainJoined, TypeOK, DiskOK, RegistryOK, PoolOK, ClientsOK,
       HistoryOK, JobOK, disk, registry, pool, clients, history
  <2>2. ControlOK'
    BY <1>3, EmptyRecords DEF DrainJoined, TypeOK, ControlOK, control, Shut,
       ShutPc
  <2> QED
    BY <2>1, <2>2 DEF TypeOK
<1>4. CASE InflightSnapshot
  <2>1. DiskOK' /\ RegistryOK' /\ PoolOK' /\ ClientsOK' /\ HistoryOK' /\ JobOK'
    BY <1>4 DEF InflightSnapshot, TypeOK, DiskOK, RegistryOK, PoolOK,
       ClientsOK, HistoryOK, JobOK, disk, registry, pool, clients, history
  <2>2. ControlOK'
    BY <1>4, EmptyRecords DEF InflightSnapshot, TypeOK, ControlOK, control,
       Shut, ShutPc, RegistryOK
  <2> QED
    BY <2>1, <2>2 DEF TypeOK
<1>5. CASE ShutdownDone
  <2>1. DiskOK' /\ RegistryOK' /\ PoolOK' /\ ClientsOK' /\ HistoryOK' /\ JobOK'
    BY <1>5 DEF ShutdownDone, TypeOK, DiskOK, RegistryOK, PoolOK, ClientsOK,
       HistoryOK, JobOK, disk, registry, pool, clients, history
  <2>2. ControlOK'
    BY <1>5, EmptyRecords DEF ShutdownDone, TypeOK, ControlOK, control, Shut,
       ShutPc
  <2> QED
    BY <2>1, <2>2 DEF TypeOK
<1>6. ASSUME NEW t \in Tasks, InflightSkip(t) PROVE TypeOK'
  <2>1. DiskOK' /\ RegistryOK' /\ PoolOK' /\ ClientsOK' /\ HistoryOK' /\ JobOK'
    BY <1>6 DEF InflightSkip, TypeOK, DiskOK, RegistryOK, PoolOK, ClientsOK,
       HistoryOK, JobOK, disk, registry, pool, clients, history
  <2>2. ControlOK'
    BY <1>6, EmptyRecords DEF InflightSkip, TypeOK, ControlOK, control, Shut,
       ShutPc
  <2> QED
    BY <2>1, <2>2 DEF TypeOK
<1>7. ASSUME NEW t \in Tasks, InflightSignal(t) PROVE TypeOK'
  <2>1. DiskOK' /\ PoolOK' /\ ClientsOK' /\ HistoryOK' /\ JobOK'
    BY <1>7 DEF InflightSignal, TypeOK, DiskOK, PoolOK, ClientsOK, HistoryOK,
       JobOK, disk, pool, clients, history
  <2>2. RegistryOK'
    BY <1>7 DEF InflightSignal, TypeOK, RegistryOK, registry
  <2>3. ControlOK'
    BY <1>7, EmptyRecords DEF InflightSignal, TypeOK, ControlOK, control, Shut,
       ShutPc
  <2> QED
    BY <2>1, <2>2, <2>3 DEF TypeOK
<1>8. ASSUME NEW t \in Tasks, InflightWrite(t) PROVE TypeOK'
  <2>1. RegistryOK' /\ PoolOK' /\ ClientsOK' /\ HistoryOK' /\ JobOK'
    BY <1>8 DEF InflightWrite, Save, TypeOK, RegistryOK, PoolOK, ClientsOK,
       HistoryOK, JobOK, registry, pool, clients, history
  <2>2. DiskOK'
    BY <1>8, ConstantsAssumption DEF InflightWrite, Save, TypeOK, DiskOK, disk,
       Status, Terminal, Active, ConstantsAssumption, JobOK, Job
  <2>3. ControlOK'
    BY <1>8, EmptyRecords DEF InflightWrite, Save, TypeOK, ControlOK, control,
       Shut, ShutPc
  <2> QED
    BY <2>1, <2>2, <2>3 DEF TypeOK
<1>9. ASSUME NEW t \in Tasks, InflightSettle(t) PROVE TypeOK'
  <2>1. DiskOK' /\ PoolOK' /\ ClientsOK' /\ JobOK'
    BY <1>9 DEF InflightSettle, DecrementActive, PopAndSet, Emit, TypeOK,
       DiskOK, PoolOK, ClientsOK, JobOK, disk, pool, clients
  <2>2. RegistryOK'
    BY <1>9 DEF InflightSettle, DecrementActive, PopAndSet, Emit, TypeOK,
       RegistryOK, registry
  <2>3. ControlOK'
    BY <1>9, EmptyRecords DEF InflightSettle, DecrementActive, PopAndSet, Emit,
       TypeOK, ControlOK, control, Shut, ShutPc
  <2>4. HistoryOK'
    BY <1>9, ConstantsAssumption DEF InflightSettle, DecrementActive,
       PopAndSet, Emit, TypeOK, HistoryOK, history, Terminal,
       ConstantsAssumption
  <2> QED
    BY <2>1, <2>2, <2>3, <2>4 DEF TypeOK
<1> QED
  BY <1>1, <1>2, <1>3, <1>4, <1>5, <1>6, <1>7, <1>8, <1>9 DEF ShutdownNext

\* A crash, a cleanup and the calls that clients choose to make keep the types.
LEMMA EnvironmentType == ASSUME TypeOK, Environment PROVE TypeOK'
<1>1. CASE Crash
  <2>1. DiskOK'
    BY <1>1 DEF Crash, TypeOK, DiskOK, disk
  <2>2. RegistryOK'
    BY <1>1 DEF Crash, TypeOK, RegistryOK, registry
  <2>3. PoolOK'
    BY <1>1 DEF Crash, TypeOK, PoolOK, pool
  <2>4. ClientsOK'
    BY <1>1 DEF Crash, TypeOK, ClientsOK, clients
  <2>5. ControlOK'
    BY <1>1, EmptyRecords DEF Crash, TypeOK, ControlOK, control, Shut, ShutPc
  <2>6. HistoryOK'
    BY <1>1, ConstantsAssumption DEF Crash, TypeOK, HistoryOK, history,
       Terminal, ConstantsAssumption
  <2>7. JobOK'
    BY <1>1, EmptyRecords, ConstantsAssumption DEF Crash, TypeOK, JobOK, Job,
       WorkerPc, Status, Terminal, Active, NoJob, ConstantsAssumption
  <2> QED
    BY <2>1, <2>2, <2>3, <2>4, <2>5, <2>6, <2>7 DEF TypeOK
<1>2. CASE CleanupTerminal
  <2>1. RegistryOK' /\ PoolOK' /\ ClientsOK' /\ ControlOK' /\ JobOK'
    BY <1>2 DEF CleanupTerminal, Cleanup, TypeOK, RegistryOK, PoolOK,
       ClientsOK, ControlOK, JobOK, registry, pool, clients, control
  <2>2. DiskOK'
    BY <1>2, ConstantsAssumption DEF CleanupTerminal, Cleanup, TypeOK, DiskOK,
       disk, Status, Terminal, Active, ConstantsAssumption, JobOK, Job
  <2>3. HistoryOK'
    BY <1>2, ConstantsAssumption DEF CleanupTerminal, Cleanup, TypeOK,
       HistoryOK, history, Terminal, ConstantsAssumption
  <2> QED
    BY <2>1, <2>2, <2>3 DEF TypeOK
<1>3. CASE CleanupAll
  <2>1. RegistryOK' /\ PoolOK' /\ ClientsOK' /\ ControlOK' /\ JobOK'
    BY <1>3 DEF CleanupAll, Cleanup, TypeOK, RegistryOK, PoolOK, ClientsOK,
       ControlOK, JobOK, registry, pool, clients, control
  <2>2. DiskOK'
    BY <1>3, ConstantsAssumption DEF CleanupAll, Cleanup, TypeOK, DiskOK, disk,
       Status, Terminal, Active, ConstantsAssumption, JobOK, Job
  <2>3. HistoryOK'
    BY <1>3, ConstantsAssumption DEF CleanupAll, Cleanup, TypeOK, HistoryOK,
       history, Terminal, ConstantsAssumption
  <2> QED
    BY <2>1, <2>2, <2>3 DEF TypeOK
<1>4. CASE DrainTimedOut
  <2>1. DiskOK' /\ RegistryOK' /\ PoolOK' /\ ClientsOK' /\ HistoryOK' /\ JobOK'
    BY <1>4 DEF DrainTimedOut, TypeOK, DiskOK, RegistryOK, PoolOK, ClientsOK,
       HistoryOK, JobOK, disk, registry, pool, clients, history
  <2>2. ControlOK'
    BY <1>4, EmptyRecords DEF DrainTimedOut, TypeOK, ControlOK, control, Shut,
       ShutPc
  <2> QED
    BY <2>1, <2>2 DEF TypeOK
<1>5. ASSUME NEW m \in ShutdownModes, ShutdownBegin(m) PROVE TypeOK'
  <2>1. DiskOK' /\ RegistryOK' /\ PoolOK' /\ ClientsOK' /\ HistoryOK' /\ JobOK'
    BY <1>5 DEF ShutdownBegin, TypeOK, DiskOK, RegistryOK, PoolOK, ClientsOK,
       HistoryOK, JobOK, disk, registry, pool, clients, history
  <2>2. ControlOK'
    BY <1>5, EmptyRecords, ConstantsAssumption DEF ShutdownBegin, TypeOK,
       ControlOK, control, Shut, ShutPc, ConstantsAssumption, NoShut
  <2> QED
    BY <2>1, <2>2 DEF TypeOK
<1>6. ASSUME NEW t \in Tasks, SubmitSave(t) PROVE TypeOK'
  <2>1. RegistryOK' /\ PoolOK' /\ ControlOK' /\ HistoryOK' /\ JobOK'
    BY <1>6 DEF SubmitSave, Save, TypeOK, RegistryOK, PoolOK, ControlOK,
       HistoryOK, JobOK, registry, pool, control, history
  <2>2. DiskOK'
    BY <1>6, ConstantsAssumption DEF SubmitSave, Save, TypeOK, DiskOK, disk,
       Status, Terminal, Active, ConstantsAssumption, JobOK, Job
  <2>3. ClientsOK'
    BY <1>6 DEF SubmitSave, Save, TypeOK, ClientsOK, clients
  <2> QED
    BY <2>1, <2>2, <2>3 DEF TypeOK
<1>7. ASSUME NEW t \in Tasks, CancelLoad(t) PROVE TypeOK'
  <2>1. DiskOK' /\ RegistryOK' /\ PoolOK' /\ ControlOK' /\ JobOK'
    BY <1>7 DEF CancelLoad, TypeOK, DiskOK, RegistryOK, PoolOK, ControlOK,
       JobOK, disk, registry, pool, control
  <2>2. ClientsOK'
    BY <1>7 DEF CancelLoad, TypeOK, ClientsOK, clients
  <2>3. HistoryOK'
    BY <1>7, ConstantsAssumption DEF CancelLoad, TypeOK, HistoryOK, history,
       Terminal, ConstantsAssumption
  <2> QED
    BY <2>1, <2>2, <2>3 DEF TypeOK
<1>8. ASSUME NEW t \in Tasks, WaitBegin(t) PROVE TypeOK'
  <2>1. DiskOK' /\ RegistryOK' /\ PoolOK' /\ ControlOK' /\ HistoryOK' /\ JobOK'
    BY <1>8 DEF WaitBegin, TypeOK, DiskOK, RegistryOK, PoolOK, ControlOK,
       HistoryOK, JobOK, disk, registry, pool, control, history
  <2>2. ClientsOK'
    BY <1>8 DEF WaitBegin, TypeOK, ClientsOK, clients
  <2> QED
    BY <2>1, <2>2 DEF TypeOK
<1>9. ASSUME NEW t \in Tasks, WorkerRaises(t) PROVE TypeOK'
  <2>1. DiskOK' /\ RegistryOK' /\ PoolOK' /\ ClientsOK' /\ ControlOK'
    BY <1>9 DEF WorkerRaises, Goto, Fault, TypeOK, DiskOK, RegistryOK, PoolOK,
       ClientsOK, ControlOK, disk, registry, pool, clients, control
  <2>2. JobOK'
    BY <1>9, EmptyRecords, ConstantsAssumption DEF WorkerRaises, Goto, Fault,
       TypeOK, JobOK, Job, WorkerPc, Status, Terminal, Active,
       ConstantsAssumption
  <2>3. HistoryOK'
    BY <1>9, ConstantsAssumption DEF WorkerRaises, Goto, Fault, TypeOK,
       HistoryOK, history, Terminal, ConstantsAssumption
  <2> QED
    BY <2>1, <2>2, <2>3 DEF TypeOK
<1> QED
  BY <1>1, <1>2, <1>3, <1>4, <1>5, <1>6, <1>7, <1>8, <1>9 DEF Environment
-----------------------------------------------------------------------------
\* The inductive step, for one task u

\* The steps of start() and of recover() keep every part of TaskInv.
LEMMA StartNextInv ==
  ASSUME IInv, StartNext, NEW u \in Tasks
  PROVE  TaskInv(u)'
<1> USE DEF IInv, TypeOK, Live, Terminal, Active, TaskInv, OutOfHands,
      RecordFirst, ProcessBound, Scheduled, OwnVerdict, FromCheckpoint,
      Contained, CancelPending, DiskOK, JobOK, ControlOK, PoolOK, ClientsOK, RegistryOK,
      HistoryOK, Job, Shut, disk, registry, pool, clients, control, history
<1>1. CASE Start
  BY <1>1 DEF Start, StartWith, Interrupted
<1>2. CASE StartDone
  BY <1>2 DEF StartDone
<1>3. ASSUME NEW t \in Tasks, RecoverResume(t) PROVE TaskInv(u)'
  BY <1>3 DEF RecoverResume, Requeue, NextOrphan, Register
<1>4. ASSUME NEW t \in Tasks, RecoverFail(t) PROVE TaskInv(u)'
  BY <1>4 DEF RecoverFail, GiveUpOrphan, NextOrphan, Save, DecrementActive
<1> QED
  BY <1>1, <1>2, <1>3, <1>4 DEF StartNext

\* The steps of submit() and of enqueue() keep every part of TaskInv.
LEMMA SubmitNextInv ==
  ASSUME IInv, NEW t \in Tasks, SubmitNext(t), NEW u \in Tasks
  PROVE  TaskInv(u)'
<1> USE DEF IInv, TypeOK, Live, Terminal, Active, TaskInv, OutOfHands,
      RecordFirst, ProcessBound, Scheduled, OwnVerdict, FromCheckpoint,
      Contained, CancelPending, DiskOK, JobOK, ControlOK, PoolOK, ClientsOK, RegistryOK,
      HistoryOK, Job, Shut, disk, registry, pool, clients, control, history
<1>1. CASE SubmitRegister(t)
  BY <1>1 DEF SubmitRegister, Register
<1>2. CASE EnqueueSchedule(t)
  BY <1>2 DEF EnqueueSchedule
<1>3. CASE EnqueueRaises(t)
  BY <1>3 DEF EnqueueRaises
<1>4. CASE EnqueuePublish(t)
  BY <1>4 DEF EnqueuePublish
<1> QED
  BY <1>1, <1>2, <1>3, <1>4 DEF SubmitNext

\* The steps of cancel() keep every part of TaskInv.
LEMMA CancelNextInv ==
  ASSUME IInv, NEW t \in Tasks, CancelNext(t), NEW u \in Tasks
  PROVE  TaskInv(u)'
<1> USE DEF IInv, TypeOK, Live, Terminal, Active, TaskInv, OutOfHands,
      RecordFirst, ProcessBound, Scheduled, OwnVerdict, FromCheckpoint,
      Contained, CancelPending, DiskOK, JobOK, ControlOK, PoolOK, ClientsOK, RegistryOK,
      HistoryOK, Job, Shut, disk, registry, pool, clients, control, history
<1>1. CASE CancelSignal(t)
  BY <1>1 DEF CancelSignal, CancelMoment
<1>2. CASE CancelNoController(t)
  BY <1>2 DEF CancelNoController
<1>3. CASE CancelWrite(t)
  BY <1>3 DEF CancelWrite, Save
<1>4. CASE CancelSettle(t)
  BY <1>4 DEF CancelSettle, DecrementActive, PopAndSet, Emit
<1> QED
  BY <1>1, <1>2, <1>3, <1>4 DEF CancelNext

\* The steps of the pipeline a worker runs keep every part of TaskInv.
LEMMA PipelineNextInv ==
  ASSUME IInv, NEW t \in Tasks, PipelineNext(t), NEW u \in Tasks
  PROVE  TaskInv(u)'
<1> USE DEF IInv, TypeOK, Live, Terminal, Active, TaskInv, OutOfHands,
      RecordFirst, ProcessBound, Scheduled, OwnVerdict, FromCheckpoint,
      Contained, CancelPending, DiskOK, JobOK, ControlOK, PoolOK, ClientsOK, RegistryOK,
      HistoryOK, Job, Shut, disk, registry, pool, clients, control, history
<1>1. CASE RunStep(t)
  BY <1>1, ConstantsAssumption DEF RunStep, Checkpoint, Fault,
     ConstantsAssumption
<1>2. CASE StepCancelled(t)
  BY <1>2 DEF StepCancelled, Outcome
<1>3. CASE PipelineDone(t)
  <2>1. job[t].made = Steps
    BY <1>3, ConstantsAssumption DEF PipelineDone, ConstantsAssumption
  <2> QED
    BY <1>3, <2>1 DEF PipelineDone, Outcome
<1>4. ASSUME NEW k \in {"retryable", "fatal"}, StepRaises(t, k) PROVE TaskInv(u)'
  BY <1>4 DEF StepRaises, Outcome
<1>5. CASE Preflight(t)
  BY <1>5 DEF Preflight, Checkpoint, Goto, Fault
<1>6. CASE PreflightRaises(t)
  BY <1>6 DEF PreflightRaises, Outcome
<1>7. CASE ResumeDone(t)
  BY <1>7 DEF ResumeDone, Goto
<1> QED
  BY <1>1, <1>2, <1>3, <1>4, <1>5, <1>6, <1>7 DEF PipelineNext

\* The steps of the worker thread keep every part of TaskInv.
LEMMA WorkerNextInv ==
  ASSUME IInv, NEW t \in Tasks, WorkerNext(t), NEW u \in Tasks
  PROVE  TaskInv(u)'
<1> USE DEF IInv, TypeOK, Live, Terminal, Active, TaskInv, OutOfHands,
      RecordFirst, ProcessBound, Scheduled, OwnVerdict, FromCheckpoint,
      Contained, CancelPending, DiskOK, JobOK, ControlOK, PoolOK, ClientsOK, RegistryOK,
      HistoryOK, Job, Shut, disk, registry, pool, clients, control, history
<1>1. CASE PipelineNext(t)
  BY <1>1, PipelineNextInv
<1>2. CASE WorkerPick(t)
  BY <1>2 DEF WorkerPick, NoJob
<1>3. CASE BeginAttempt(t)
  BY <1>3 DEF BeginAttempt, AttemptFrom, Save
<1>4. CASE ReportOutcome(t)
  <2> DEFINE next == AfterReport(t)
  <2>1. /\ next \in {"complete", "deadletter", "backoff", "conclude"}
        /\ next \in {"deadletter", "backoff"} =>
             job[t].stat \notin {"COMPLETED", "CANCELLED"}
        /\ job[t].stat \in {"COMPLETED", "CANCELLED", "FAILED"}
    <3>1. job[t].stat \in {"COMPLETED", "CANCELLED", "FAILED"}
      BY <1>4 DEF ReportOutcome, Report
    <3>2. CASE job[t].stat = "COMPLETED"
      BY <3>2 DEF AfterReport, Retryable, Exhausted
    <3>3. CASE job[t].stat = "CANCELLED"
      BY <3>3 DEF AfterReport, Retryable, Exhausted
    <3>4. CASE job[t].stat = "FAILED"
      BY <3>4 DEF AfterReport, Retryable, Exhausted
    <3> QED
      BY <3>1, <3>2, <3>3, <3>4
  <2>2. /\ job[t].pc = "report"
        /\ store' = [store EXCEPT ![t] = job[t].stat]
        /\ job' = [job EXCEPT ![t].pc = next]
        /\ UNCHANGED <<files, dlq, registry, pool, clients, control, history>>
    BY <1>4 DEF ReportOutcome, Report, Save, Goto
  <2> HIDE DEF next
  <2> QED
    BY <2>1, <2>2
<1>5. CASE DeleteCheckpoint(t)
  BY <1>5 DEF DeleteCheckpoint, Goto, Fault
<1>6. CASE RouteToDeadLetter(t)
  <2>1. CASE /\ dlq' = dlq \cup {t}
             /\ job' = [job EXCEPT ![t] = [@ EXCEPT !.pc = "conclude",
                                             !.stat = "DEAD"]]
    BY <1>6, <2>1 DEF RouteToDeadLetter
  <2>2. CASE Goto(t, "conclude") /\ UNCHANGED dlq
    BY <1>6, <2>2 DEF RouteToDeadLetter, Goto
  <2> QED
    BY <1>6, <2>1, <2>2 DEF RouteToDeadLetter
<1>7. CASE BackoffCancelled(t)
  BY <1>7 DEF BackoffCancelled
<1>8. CASE BackoffElapsed(t)
  BY <1>8 DEF BackoffElapsed, RetryAs
<1>9. CASE Conclude(t)
  BY <1>9 DEF Conclude, Save, Goto
<1>10. CASE Notify(t)
  BY <1>10 DEF Notify, Save, Emit, Goto
<1>11. CASE HandleError(t)
  BY <1>11 DEF HandleError, Save, Emit, Goto, Fault
<1>12. CASE Finalize(t)
  BY <1>12 DEF Finalize, Unregister, DecrementActive, PopAndSet, NoJob
<1> QED
  BY <1>1, <1>2, <1>3, <1>4, <1>5, <1>6, <1>7, <1>8, <1>9, <1>10, <1>11, <1>12
     DEF WorkerNext

\* The steps of a caller of wait() keep every part of TaskInv.
LEMMA WaitNextInv ==
  ASSUME IInv, NEW t \in Tasks, WaitNext(t), NEW u \in Tasks
  PROVE  TaskInv(u)'
<1> USE DEF IInv, TypeOK, Live, Terminal, Active, TaskInv, OutOfHands,
      RecordFirst, ProcessBound, Scheduled, OwnVerdict, FromCheckpoint,
      Contained, CancelPending, DiskOK, JobOK, ControlOK, PoolOK, ClientsOK, RegistryOK,
      HistoryOK, Job, Shut, disk, registry, pool, clients, control, history
<1>1. CASE WaitWake(t)
  BY <1>1 DEF WaitWake
<1>2. CASE WaitPoll(t)
  BY <1>2 DEF WaitPoll
<1> QED
  BY <1>1, <1>2 DEF WaitNext

\* The steps of shutdown() keep every part of TaskInv.
LEMMA ShutdownNextInv ==
  ASSUME IInv, ShutdownNext, NEW u \in Tasks
  PROVE  TaskInv(u)'
<1> USE DEF IInv, TypeOK, Live, Terminal, Active, TaskInv, OutOfHands,
      RecordFirst, ProcessBound, Scheduled, OwnVerdict, FromCheckpoint,
      Contained, CancelPending, DiskOK, JobOK, ControlOK, PoolOK, ClientsOK, RegistryOK,
      HistoryOK, Job, Shut, disk, registry, pool, clients, control, history
<1>1. CASE ShutdownAbandon
  BY <1>1 DEF ShutdownAbandon
<1>2. CASE ShutdownDrain
  BY <1>2 DEF ShutdownDrain
<1>3. CASE DrainJoined
  BY <1>3 DEF DrainJoined
<1>4. CASE InflightSnapshot
  BY <1>4 DEF InflightSnapshot
<1>5. CASE ShutdownDone
  BY <1>5 DEF ShutdownDone
<1>6. ASSUME NEW t \in Tasks, InflightSkip(t) PROVE TaskInv(u)'
  BY <1>6 DEF InflightSkip
<1>7. ASSUME NEW t \in Tasks, InflightSignal(t) PROVE TaskInv(u)'
  BY <1>7 DEF InflightSignal
<1>8. ASSUME NEW t \in Tasks, InflightWrite(t) PROVE TaskInv(u)'
  BY <1>8 DEF InflightWrite, Save
<1>9. ASSUME NEW t \in Tasks, InflightSettle(t) PROVE TaskInv(u)'
  BY <1>9 DEF InflightSettle, DecrementActive, PopAndSet, Emit
<1> QED
  BY <1>1, <1>2, <1>3, <1>4, <1>5, <1>6, <1>7, <1>8, <1>9 DEF ShutdownNext

\* A crash, a cleanup and the calls that clients choose to make keep every part of TaskInv.
LEMMA EnvironmentInv ==
  ASSUME IInv, Environment, NEW u \in Tasks
  PROVE  TaskInv(u)'
<1> USE DEF IInv, TypeOK, Live, Terminal, Active, TaskInv, OutOfHands,
      RecordFirst, ProcessBound, Scheduled, OwnVerdict, FromCheckpoint,
      Contained, CancelPending, DiskOK, JobOK, ControlOK, PoolOK, ClientsOK, RegistryOK,
      HistoryOK, Job, Shut, disk, registry, pool, clients, control, history
<1>1. CASE Crash
  BY <1>1 DEF Crash, NoJob, NoShut, Begun
<1>2. CASE CleanupTerminal
  BY <1>2 DEF CleanupTerminal, Cleanup, Absent
<1>3. CASE CleanupAll
  BY <1>3 DEF CleanupAll, Cleanup, Absent
<1>4. CASE DrainTimedOut
  BY <1>4 DEF DrainTimedOut
<1>5. ASSUME NEW m \in ShutdownModes, ShutdownBegin(m) PROVE TaskInv(u)'
  BY <1>5 DEF ShutdownBegin, NoShut
<1>6. ASSUME NEW t \in Tasks, SubmitSave(t) PROVE TaskInv(u)'
  BY <1>6 DEF SubmitSave, Save
<1>7. ASSUME NEW t \in Tasks, CancelLoad(t) PROVE TaskInv(u)'
  BY <1>7 DEF CancelLoad
<1>8. ASSUME NEW t \in Tasks, WaitBegin(t) PROVE TaskInv(u)'
  BY <1>8 DEF WaitBegin
<1>9. ASSUME NEW t \in Tasks, WorkerRaises(t) PROVE TaskInv(u)'
  BY <1>9 DEF WorkerRaises, Goto, Fault
<1> QED
  BY <1>1, <1>2, <1>3, <1>4, <1>5, <1>6, <1>7, <1>8, <1>9 DEF Environment
-----------------------------------------------------------------------------
\* The invariant holds

\* Type correctness: every action of the queue, its workers and its clients
\* leaves every variable in its type.
THEOREM TypeCorrect == Spec => []TypeOK
<1>1. TypeOK /\ [Next]_vars => TypeOK'
  <2> SUFFICES ASSUME TypeOK, [Next]_vars PROVE TypeOK'
    OBVIOUS
  <2>1. CASE Next
    BY <2>1, StartNextType, SubmitNextType, CancelNextType, WorkerNextType,
       WaitNextType, ShutdownNextType, EnvironmentType DEF Next
  <2>2. CASE UNCHANGED vars
    <3>1. DiskOK' /\ RegistryOK' /\ PoolOK'
      BY <2>2 DEF vars, disk, registry, pool, TypeOK, DiskOK, RegistryOK,
         PoolOK
    <3>2. ClientsOK' /\ ControlOK' /\ HistoryOK' /\ JobOK'
      BY <2>2 DEF vars, clients, control, history, TypeOK, ClientsOK,
         ControlOK, HistoryOK, JobOK
    <3> QED
      BY <3>1, <3>2 DEF TypeOK
  <2> QED
    BY <2>1, <2>2
<1> QED
  BY <1>1, InitType, PTL DEF Spec

\* A freshly constructed queue satisfies the inductive invariant.
LEMMA InitInv == Init => IInv
<1> SUFFICES ASSUME Init, NEW u \in Tasks PROVE TaskInv(u)
  BY InitType DEF IInv
<1> QED
  BY DEF Init, NoJob, NoShut, Absent, TaskInv, OutOfHands, RecordFirst, ProcessBound,
     Scheduled, OwnVerdict, FromCheckpoint, Contained, CancelPending

\* The strengthening behind the five safety theorems below is inductive.
THEOREM Inductive == Spec => []IInv
<1>1. ASSUME IInv, [Next]_vars, TypeOK' PROVE IInv'
  <2> SUFFICES ASSUME NEW u \in Tasks PROVE TaskInv(u)'
    BY <1>1 DEF IInv
  <2>1. CASE Next
    BY <1>1, <2>1, StartNextInv, SubmitNextInv, CancelNextInv, WorkerNextInv,
       WaitNextInv, ShutdownNextInv, EnvironmentInv DEF Next
  <2>2. CASE UNCHANGED vars
    BY <1>1, <2>2 DEF vars, disk, registry, pool, clients, control, history,
       IInv, TaskInv, OutOfHands, RecordFirst, ProcessBound, Scheduled, Live,
       OwnVerdict, FromCheckpoint, Contained, CancelPending
  <2> QED
    BY <1>1, <2>1, <2>2
<1> QED
  BY <1>1, TypeCorrect, InitInv, PTL DEF Spec

\* A DEAD task has its dead-letter record, so that replay finds it.
THEOREM DeadRecorded == Spec => []DeadHasRecord
<1>1. IInv => DeadHasRecord
  BY DEF IInv, TaskInv, RecordFirst, DeadHasRecord
<1> QED
  BY <1>1, Inductive, PTL

\* However often a run is interrupted and resumed, it skips no step.
THEOREM NothingSkipped == Spec => []NoStepSkipped
<1>1. IInv => NoStepSkipped
  BY DEF IInv, TaskInv, Contained, NoStepSkipped
<1> QED
  BY <1>1, Inductive, PTL

\* What an earlier process began is run again only from a checkpoint.
THEOREM RecoveredFromCheckpoint == Spec => []RecoveredHasCheckpoint
<1>1. IInv => RecoveredHasCheckpoint
  BY DEF IInv, TypeOK, HistoryOK, TaskInv, FromCheckpoint,
     RecoveredHasCheckpoint
<1> QED
  BY <1>1, Inductive, PTL

\* A completed or dead task is never given to a worker again.
THEOREM SettledOutOfHands == Spec => []SettledNeverRerun
<1>1. IInv => SettledNeverRerun
  BY DEF IInv, TaskInv, SettledNeverRerun
<1> QED
  BY <1>1, Inductive, PTL

\* Both: what is settled stays settled, and a dead task can be replayed.
THEOREM SettledStays == Spec => []SettledForGood
BY DeadRecorded, SettledOutOfHands, PTL DEF SettledForGood

\* A cancellation accepted during an attempt is not followed by another one.
THEOREM LiveCancelObeyed == Spec => []LiveCancelSticks
<1>1. IInv => LiveCancelSticks
  BY DEF IInv, TaskInv, CancelPending, LiveCancelSticks
<1> QED
  BY <1>1, Inductive, PTL
=============================================================================
