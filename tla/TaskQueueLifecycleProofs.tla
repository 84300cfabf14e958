---------------------- MODULE TaskQueueLifecycleProofs ----------------------
(***************************************************************************)
(* More theorems about TaskQueue: the counter that admission reads never   *)
(* exceeds the work there is; and, when nobody cancels, shuts down, cleans *)
(* up or makes a save fail, it is exact, waiters and webhook consumers see *)
(* the final outcome, and every task goes through the stages that          *)
(* TaskLifecycle promises.                                                 *)
(***************************************************************************)
EXTENDS TaskQueueProofs

-----------------------------------------------------------------------------
\* The invariants

\* a cancel() that still has to take one task off the counter; the task of a
\* submit() that is not counted yet takes nothing off
Cancelling == {t \in Tasks : canceller[t] = "written" /\ sub[t] # "saved"}

Counted == ctl \cup Leftover \cup orphans \cup Cancelling

\* A task is registered only after it was saved, nobody loads it before, and
\* shutdown() sees only futures that were published.
Enrolled(t) ==
  /\ sub[t] = "idle" => store[t] = Absent /\ canceller[t] = "idle"
  /\ sub[t] \in {"idle", "saved"} => t \notin ctl
  /\ t \in futures \cup shut.todo \cup shut.cur => sub[t] = "done"
  /\ t \in orphans => sub[t] = "lost"

\* what one step may do to the counter and to the tasks there are to count
CountStep ==
  \/ active' = active /\ Counted \subseteq Counted'
  \/ DecrementActive /\ \E t \in Tasks : Counted \ {t} \subseteq Counted'
  \/ active' = active + 1 /\ \E t \in Tasks \ Counted : Counted \cup {t} \subseteq Counted'
  \/ active' = 0
  \/ active' = Cardinality({t \in Tasks : store[t] \in Active})
       /\ {t \in Tasks : store[t] \in Active} \subseteq Counted'

CountBound == active <= Cardinality(Counted)

CountInv == CountBound /\ \A t \in Tasks : Enrolled(t)

\* nobody cancels, shuts down or cleans up, and no save fails
Quiet == /\ MaxCancels = 0 /\ MaxFaults = 0 /\ MaxCleanups = 0
         /\ ShutdownModes = {}

\* no cancellation and no shutdown ever leaves a trace
Undisturbed(t) ==
  /\ phase # "stopping"
  /\ canceller[t] = "idle" /\ t \notin flag
  /\ sub[t] # "raised" /\ job[t].pc # "error"

\* who keeps a row of the store and a controller
Kept(t) ==
  /\ sub[t] = "idle" <=> store[t] = Absent
  /\ sub[t] = "saved" => store[t] = "PENDING"
  /\ t \in orphans => store[t] \in {"RUNNING", "RETRYING"}
  /\ sub[t] \in {"idle", "saved", "lost"} => t \notin ctl
  /\ \/ sub[t] = "registered" \/ fut[t] = "queued"
     \/ job[t].pc \notin {"none", "ended"}
     => t \in ctl

\* what the store says at each point of the worker's life
Position(t) ==
  /\ job[t].pc = "none" /\ sub[t] \in {"registered", "scheduled", "done"}
       => store[t] \in Active
  /\ job[t].pc = "attempt"
       => IF job[t].att = 0 THEN store[t] \in Active ELSE store[t] = "FAILED"
  /\ job[t].pc \in {"build", "run", "report"} => store[t] \in {"RUNNING", "RETRYING"}
  /\ job[t].pc \in {"backoff", "deadletter"} => store[t] = "FAILED"
  /\ job[t].pc = "conclude" =>
       \/ store[t] = job[t].stat
       \/ store[t] = "FAILED" /\ job[t].stat = "DEAD"
  /\ job[t].pc \in {"complete", "notify"} => store[t] = job[t].stat
  /\ job[t].pc \in {"final", "ended"} => store[t] \in Terminal

\* an outcome is told once, and signalled last
Told(t) ==
  /\ event[t] = "set" => job[t].pc = "ended"
  /\ IF job[t].pc \in {"final", "ended"}
     THEN emitted[t] = {store[t]}
     ELSE emitted[t] = {} \/ (sub[t] = "lost" /\ store[t] \in Terminal)

QuietTask(t) == Undisturbed(t) /\ Kept(t) /\ Position(t) /\ Told(t)

\* the work that a live process counts
Work == ctl \cup Leftover \cup orphans

CountExact == phase # "dead" => active = Cardinality(Work)

\* what one step may do to the counter and to the work
ExactStep ==
  \/ phase' = "dead"
  \/ phase # "dead" /\ active' = active /\ Work' = Work
  \/ phase # "dead" /\ DecrementActive /\ \E t \in Work : Work' = Work \ {t}
  \/ /\ phase # "dead" /\ active' = active + 1
     /\ \E t \in Tasks \ Work : Work' = Work \cup {t}
  \/ /\ active' = Cardinality({t \in Tasks : store[t] \in Active})
     /\ Work' = {t \in Tasks : store[t] \in Active}

QuietInv == CountExact /\ \A t \in Tasks : QuietTask(t)

\* what one step may do to the stages of the tasks
Settles(t) == Stage(t) = "working" /\ Stage(t)' \in Terminal

Advances(t) ==
  \/ Stage(t) = "unknown" /\ Stage(t)' = "waiting"
  \/ Stage(t) = "waiting" /\ Stage(t)' = "working"

StageStep ==
  \/ \A t \in Tasks : Stage(t)' = Stage(t) \/ Settles(t)
  \/ \E t \in Tasks : /\ Advances(t)
                      /\ \A u \in Tasks \ {t} : Stage(u)' = Stage(u)

-----------------------------------------------------------------------------
\* The counter, whatever the environment does

\* The number of tasks in a set of tasks grows with the set.
LEMMA CountGrows ==
  ASSUME NEW T \in SUBSET Tasks, NEW S \in SUBSET T
  PROVE  Cardinality(S) <= Cardinality(T)
<1>1. IsFiniteSet(T)
  BY ConstantsAssumption, FS_Subset DEF ConstantsAssumption
<1> QED
  BY <1>1, FS_Subset

\* One task less is at most one less to count.
LEMMA CountLosesOne ==
  ASSUME NEW S \in SUBSET Tasks, NEW T \in SUBSET Tasks, NEW t, S \ {t} \subseteq T,
         active \in Nat, active <= Cardinality(S), DecrementActive
  PROVE  active' <= Cardinality(T)
<1>1. IsFiniteSet(S) /\ Cardinality(S) \in Nat /\ Cardinality(T) \in Nat
  BY ConstantsAssumption, FS_Subset, CountType DEF ConstantsAssumption
<1>2. Cardinality(S \ {t}) >= Cardinality(S) - 1 /\ Cardinality(S \ {t}) \in Nat
  BY <1>1, FS_RemoveElement, CountType
<1>3. Cardinality(S \ {t}) <= Cardinality(T)
  BY CountGrows
<1> QED
  BY <1>1, <1>2, <1>3 DEF DecrementActive

\* The bound survives every step that changes the counter as CountStep says.
LEMMA CountStepBounded ==
  ASSUME TypeOK, TypeOK', CountBound, CountStep
  PROVE  CountBound'
<1> DEFINE found == {t \in Tasks : store[t] \in Active}
<1>1. /\ Counted \in SUBSET Tasks /\ Counted' \in SUBSET Tasks
      /\ found \in SUBSET Tasks /\ active \in Nat
  BY DEF TypeOK, RegistryOK, ControlOK, Counted, Leftover, Cancelling
<1>2. /\ Cardinality(Counted) \in Nat /\ Cardinality(Counted') \in Nat
      /\ Cardinality(found) \in Nat
  BY <1>1, CountType
<1>3. active <= Cardinality(Counted)
  BY DEF CountBound
<1> SUFFICES active' <= Cardinality(Counted')
  BY DEF CountBound
<1>4. CASE active' = active /\ Counted \subseteq Counted'
  BY <1>1, <1>2, <1>3, <1>4, CountGrows
<1>5. ASSUME DecrementActive, NEW t \in Tasks, Counted \ {t} \subseteq Counted'
      PROVE  active' <= Cardinality(Counted')
  BY <1>1, <1>3, <1>5, CountLosesOne
<1>6. ASSUME active' = active + 1, NEW t \in Tasks \ Counted,
             Counted \cup {t} \subseteq Counted'
      PROVE  active' <= Cardinality(Counted')
  <2>1. IsFiniteSet(Counted)
    BY <1>1, ConstantsAssumption, FS_Subset DEF ConstantsAssumption
  <2>2. Cardinality(Counted \cup {t}) = Cardinality(Counted) + 1
    BY <1>6, <2>1, FS_AddElement
  <2>3. Cardinality(Counted \cup {t}) <= Cardinality(Counted')
    BY <1>1, <1>6, CountGrows
  <2> QED
    BY <1>1, <1>2, <1>3, <1>6, <2>2, <2>3
<1>7. CASE active' = 0
  BY <1>2, <1>7
<1>8. CASE active' = Cardinality(found) /\ found \subseteq Counted'
  BY <1>1, <1>2, <1>8, CountGrows
<1> QED
  BY <1>4, <1>5, <1>6, <1>7, <1>8 DEF CountStep

\* The steps of start() keep a task enrolled.
LEMMA StartNextEnrolled ==
  ASSUME IInv, CountInv, StartNext, NEW u \in Tasks
  PROVE  Enrolled(u)'
<1> USE DEF CountInv, IInv, TypeOK, Live, Terminal, Active, TaskInv, ProcessBound,
      Scheduled, OwnVerdict, Enrolled, DiskOK, JobOK, ControlOK, PoolOK,
      ClientsOK, RegistryOK, Job, Shut, disk, registry, pool, clients, control,
      history, Absent
<1>1. CASE Start
  BY <1>1 DEF Start, StartWith, Interrupted
<1>2. CASE StartDone
  BY <1>2 DEF StartDone
<1>3. ASSUME NEW t \in Tasks, RecoverResume(t) PROVE Enrolled(u)'
  BY <1>3 DEF RecoverResume, Requeue, NextOrphan, Register
<1>4. ASSUME NEW t \in Tasks, RecoverFail(t) PROVE Enrolled(u)'
  BY <1>4 DEF RecoverFail, GiveUpOrphan, NextOrphan, Save, DecrementActive
<1> QED
  BY <1>1, <1>2, <1>3, <1>4 DEF StartNext

\* The steps of submit() keep a task enrolled.
LEMMA SubmitNextEnrolled ==
  ASSUME IInv, CountInv, NEW t \in Tasks, SubmitNext(t), NEW u \in Tasks
  PROVE  Enrolled(u)'
<1> USE DEF CountInv, IInv, TypeOK, Live, Terminal, Active, TaskInv, ProcessBound,
      Scheduled, OwnVerdict, Enrolled, DiskOK, JobOK, ControlOK, PoolOK,
      ClientsOK, RegistryOK, Job, Shut, disk, registry, pool, clients, control,
      history, Absent
<1>1. CASE SubmitRegister(t)
  BY <1>1 DEF SubmitRegister, Register
<1>2. CASE EnqueueSchedule(t)
  BY <1>2 DEF EnqueueSchedule
<1>3. CASE EnqueueRaises(t)
  BY <1>3 DEF EnqueueRaises
<1>4. CASE EnqueuePublish(t)
  BY <1>4 DEF EnqueuePublish
<1> QED
  BY <1>1, <1>2, <1>3, <1>4 DEF SubmitNext

\* The steps of cancel() keep a task enrolled.
LEMMA CancelNextEnrolled ==
  ASSUME IInv, CountInv, NEW t \in Tasks, CancelNext(t), NEW u \in Tasks
  PROVE  Enrolled(u)'
<1> USE DEF CountInv, IInv, TypeOK, Live, Terminal, Active, TaskInv, ProcessBound,
      Scheduled, OwnVerdict, Enrolled, DiskOK, JobOK, ControlOK, PoolOK,
      ClientsOK, RegistryOK, Job, Shut, disk, registry, pool, clients, control,
      history, Absent
<1>1. CASE CancelSignal(t)
  BY <1>1 DEF CancelSignal
<1>2. CASE CancelNoController(t)
  BY <1>2 DEF CancelNoController
<1>3. CASE CancelWrite(t)
  BY <1>3 DEF CancelWrite, Save
<1>4. CASE CancelSettle(t)
  BY <1>4 DEF CancelSettle, DecrementActive, PopAndSet, Emit
<1> QED
  BY <1>1, <1>2, <1>3, <1>4 DEF CancelNext

\* The steps of the pipeline a worker runs keep a task enrolled.
LEMMA PipelineNextEnrolled ==
  ASSUME IInv, CountInv, NEW t \in Tasks, PipelineNext(t), NEW u \in Tasks
  PROVE  Enrolled(u)'
<1> USE DEF CountInv, IInv, TypeOK, Live, Terminal, Active, TaskInv, ProcessBound,
      Scheduled, OwnVerdict, Enrolled, DiskOK, JobOK, ControlOK, PoolOK,
      ClientsOK, RegistryOK, Job, Shut, disk, registry, pool, clients, control,
      history, Absent
<1>1. CASE RunStep(t)
  BY <1>1 DEF RunStep, Checkpoint, Fault
<1>2. CASE StepCancelled(t)
  BY <1>2 DEF StepCancelled, Outcome
<1>3. CASE PipelineDone(t)
  BY <1>3 DEF PipelineDone, Outcome
<1>4. ASSUME NEW k \in {"retryable", "fatal"}, StepRaises(t, k) PROVE Enrolled(u)'
  BY <1>4 DEF StepRaises, Outcome
<1>5. CASE Preflight(t)
  BY <1>5 DEF Preflight, Checkpoint, Goto, Fault
<1>6. CASE PreflightRaises(t)
  BY <1>6 DEF PreflightRaises, Outcome
<1>7. CASE ResumeDone(t)
  BY <1>7 DEF ResumeDone, Goto
<1> QED
  BY <1>1, <1>2, <1>3, <1>4, <1>5, <1>6, <1>7 DEF PipelineNext

\* The steps of the worker thread keep a task enrolled.
LEMMA WorkerNextEnrolled ==
  ASSUME IInv, CountInv, NEW t \in Tasks, WorkerNext(t), NEW u \in Tasks
  PROVE  Enrolled(u)'
<1> USE DEF CountInv, IInv, TypeOK, Live, Terminal, Active, TaskInv, ProcessBound,
      Scheduled, OwnVerdict, Enrolled, DiskOK, JobOK, ControlOK, PoolOK,
      ClientsOK, RegistryOK, Job, Shut, disk, registry, pool, clients, control,
      history, Absent
<1>1. CASE PipelineNext(t)
  BY <1>1, PipelineNextEnrolled
<1>2. CASE WorkerPick(t)
  BY <1>2 DEF WorkerPick, NoJob
<1>3. CASE BeginAttempt(t)
  BY <1>3 DEF BeginAttempt, AttemptFrom, Save
<1>4. CASE ReportOutcome(t)
  BY <1>4 DEF ReportOutcome, Report, Save, Goto
<1>5. CASE DeleteCheckpoint(t)
  BY <1>5 DEF DeleteCheckpoint, Goto, Fault
<1>6. CASE RouteToDeadLetter(t)
  BY <1>6 DEF RouteToDeadLetter, Goto, Fault
<1>7. CASE BackoffCancelled(t)
  BY <1>7 DEF BackoffCancelled
<1>8. CASE BackoffElapsed(t)
  BY <1>8 DEF BackoffElapsed, RetryAs
<1>9. CASE Conclude(t)
  BY <1>9 DEF Conclude, Save, Goto
<1>10. CASE Notify(t)
  BY <1>10 DEF Notify, Save, Emit, Goto
<1>11. CASE HandleError(t)
  BY <1>11 DEF HandleError, Save, Emit, Goto, Fault
<1>12. CASE Finalize(t)
  BY <1>12 DEF Finalize, Unregister, DecrementActive, PopAndSet, NoJob
<1> QED
  BY <1>1, <1>2, <1>3, <1>4, <1>5, <1>6, <1>7, <1>8, <1>9, <1>10, <1>11, <1>12 DEF WorkerNext

\* The steps of a caller of wait() keep a task enrolled.
LEMMA WaitNextEnrolled ==
  ASSUME IInv, CountInv, NEW t \in Tasks, WaitNext(t), NEW u \in Tasks
  PROVE  Enrolled(u)'
<1> USE DEF CountInv, IInv, TypeOK, Live, Terminal, Active, TaskInv, ProcessBound,
      Scheduled, OwnVerdict, Enrolled, DiskOK, JobOK, ControlOK, PoolOK,
      ClientsOK, RegistryOK, Job, Shut, disk, registry, pool, clients, control,
      history, Absent
<1>1. CASE WaitWake(t)
  BY <1>1 DEF WaitWake
<1>2. CASE WaitPoll(t)
  BY <1>2 DEF WaitPoll
<1> QED
  BY <1>1, <1>2 DEF WaitNext

\* The steps of shutdown() keep a task enrolled.
LEMMA ShutdownNextEnrolled ==
  ASSUME IInv, CountInv, ShutdownNext, NEW u \in Tasks
  PROVE  Enrolled(u)'
<1> USE DEF CountInv, IInv, TypeOK, Live, Terminal, Active, TaskInv, ProcessBound,
      Scheduled, OwnVerdict, Enrolled, DiskOK, JobOK, ControlOK, PoolOK,
      ClientsOK, RegistryOK, Job, Shut, disk, registry, pool, clients, control,
      history, Absent
<1>1. CASE ShutdownAbandon
  BY <1>1 DEF ShutdownAbandon
<1>2. CASE ShutdownDrain
  BY <1>2 DEF ShutdownDrain
<1>3. CASE DrainJoined
  BY <1>3 DEF DrainJoined
<1>4. CASE InflightSnapshot
  BY <1>4 DEF InflightSnapshot
<1>5. CASE ShutdownDone
  BY <1>5 DEF ShutdownDone
<1>6. ASSUME NEW t \in Tasks, InflightSkip(t) PROVE Enrolled(u)'
  BY <1>6 DEF InflightSkip
<1>7. ASSUME NEW t \in Tasks, InflightSignal(t) PROVE Enrolled(u)'
  BY <1>7 DEF InflightSignal
<1>8. ASSUME NEW t \in Tasks, InflightWrite(t) PROVE Enrolled(u)'
  BY <1>8 DEF InflightWrite, Save
<1>9. ASSUME NEW t \in Tasks, InflightSettle(t) PROVE Enrolled(u)'
  BY <1>9 DEF InflightSettle, DecrementActive, PopAndSet, Emit
<1> QED
  BY <1>1, <1>2, <1>3, <1>4, <1>5, <1>6, <1>7, <1>8, <1>9 DEF ShutdownNext

\* A crash, a cleanup and the calls that clients choose to make keep a task enrolled.
LEMMA EnvironmentEnrolled ==
  ASSUME IInv, CountInv, Environment, NEW u \in Tasks
  PROVE  Enrolled(u)'
<1> USE DEF CountInv, IInv, TypeOK, Live, Terminal, Active, TaskInv, ProcessBound,
      Scheduled, OwnVerdict, Enrolled, DiskOK, JobOK, ControlOK, PoolOK,
      ClientsOK, RegistryOK, Job, Shut, disk, registry, pool, clients, control,
      history, Absent
<1>1. CASE Crash
  BY <1>1 DEF Crash, NoShut, NoJob
<1>2. CASE CleanupTerminal
  BY <1>2 DEF CleanupTerminal, Cleanup
<1>3. CASE CleanupAll
  BY <1>3 DEF CleanupAll, Cleanup
<1>4. CASE DrainTimedOut
  BY <1>4 DEF DrainTimedOut
<1>5. ASSUME NEW m \in ShutdownModes, ShutdownBegin(m) PROVE Enrolled(u)'
  BY <1>5 DEF ShutdownBegin, NoShut
<1>6. ASSUME NEW t \in Tasks, SubmitSave(t) PROVE Enrolled(u)'
  BY <1>6 DEF SubmitSave, Save
<1>7. ASSUME NEW t \in Tasks, CancelLoad(t) PROVE Enrolled(u)'
  BY <1>7 DEF CancelLoad
<1>8. ASSUME NEW t \in Tasks, WaitBegin(t) PROVE Enrolled(u)'
  BY <1>8 DEF WaitBegin
<1>9. ASSUME NEW t \in Tasks, WorkerRaises(t) PROVE Enrolled(u)'
  BY <1>9 DEF WorkerRaises, Goto, Fault
<1> QED
  BY <1>1, <1>2, <1>3, <1>4, <1>5, <1>6, <1>7, <1>8, <1>9 DEF Environment

\* The steps of start() count no task that is not there.
LEMMA StartNextCount ==
  ASSUME IInv, CountInv, StartNext
  PROVE  CountStep
<1> USE DEF CountInv, IInv, TypeOK, Live, Terminal, Active, TaskInv, ProcessBound,
      Scheduled, OwnVerdict, Enrolled, DiskOK, JobOK, ControlOK, PoolOK,
      ClientsOK, RegistryOK, Job, Shut, disk, registry, pool, clients, control,
      history, Absent, CountStep, Counted, Leftover, Cancelling
<1>1. CASE Start
  BY <1>1 DEF Start, StartWith, Interrupted
<1>2. CASE StartDone
  BY <1>2 DEF StartDone
<1>3. ASSUME NEW t \in Tasks, RecoverResume(t) PROVE CountStep
  BY <1>3 DEF RecoverResume, Requeue, NextOrphan, Register
<1>4. ASSUME NEW t \in Tasks, RecoverFail(t) PROVE CountStep
  BY <1>4 DEF RecoverFail, GiveUpOrphan, NextOrphan, Save, DecrementActive
<1> QED
  BY <1>1, <1>2, <1>3, <1>4 DEF StartNext

\* The steps of submit() count no task that is not there.
LEMMA SubmitNextCount ==
  ASSUME IInv, CountInv, NEW t \in Tasks, SubmitNext(t)
  PROVE  CountStep
<1> USE DEF CountInv, IInv, TypeOK, Live, Terminal, Active, TaskInv, ProcessBound,
      Scheduled, OwnVerdict, Enrolled, DiskOK, JobOK, ControlOK, PoolOK,
      ClientsOK, RegistryOK, Job, Shut, disk, registry, pool, clients, control,
      history, Absent, CountStep, Counted, Leftover, Cancelling
<1>1. CASE SubmitRegister(t)
  BY <1>1 DEF SubmitRegister, Register
<1>2. CASE EnqueueSchedule(t)
  BY <1>2 DEF EnqueueSchedule
<1>3. CASE EnqueueRaises(t)
  BY <1>3 DEF EnqueueRaises
<1>4. CASE EnqueuePublish(t)
  BY <1>4 DEF EnqueuePublish
<1> QED
  BY <1>1, <1>2, <1>3, <1>4 DEF SubmitNext

\* The steps of cancel() count no task that is not there.
LEMMA CancelNextCount ==
  ASSUME IInv, CountInv, NEW t \in Tasks, CancelNext(t)
  PROVE  CountStep
<1> USE DEF CountInv, IInv, TypeOK, Live, Terminal, Active, TaskInv, ProcessBound,
      Scheduled, OwnVerdict, Enrolled, DiskOK, JobOK, ControlOK, PoolOK,
      ClientsOK, RegistryOK, Job, Shut, disk, registry, pool, clients, control,
      history, Absent, CountStep, Counted, Leftover, Cancelling
<1>1. CASE CancelSignal(t)
  BY <1>1 DEF CancelSignal
<1>2. CASE CancelNoController(t)
  BY <1>2 DEF CancelNoController
<1>3. CASE CancelWrite(t)
  BY <1>3 DEF CancelWrite, Save
<1>4. CASE CancelSettle(t)
  BY <1>4 DEF CancelSettle, DecrementActive, PopAndSet, Emit
<1> QED
  BY <1>1, <1>2, <1>3, <1>4 DEF CancelNext

\* The steps of the pipeline a worker runs count no task that is not there.
LEMMA PipelineNextCount ==
  ASSUME IInv, CountInv, NEW t \in Tasks, PipelineNext(t)
  PROVE  CountStep
<1> USE DEF CountInv, IInv, TypeOK, Live, Terminal, Active, TaskInv, ProcessBound,
      Scheduled, OwnVerdict, Enrolled, DiskOK, JobOK, ControlOK, PoolOK,
      ClientsOK, RegistryOK, Job, Shut, disk, registry, pool, clients, control,
      history, Absent, CountStep, Counted, Leftover, Cancelling
<1>1. CASE RunStep(t)
  BY <1>1 DEF RunStep, Checkpoint, Fault
<1>2. CASE StepCancelled(t)
  BY <1>2 DEF StepCancelled, Outcome
<1>3. CASE PipelineDone(t)
  BY <1>3 DEF PipelineDone, Outcome
<1>4. ASSUME NEW k \in {"retryable", "fatal"}, StepRaises(t, k) PROVE CountStep
  BY <1>4 DEF StepRaises, Outcome
<1>5. CASE Preflight(t)
  BY <1>5 DEF Preflight, Checkpoint, Goto, Fault
<1>6. CASE PreflightRaises(t)
  BY <1>6 DEF PreflightRaises, Outcome
<1>7. CASE ResumeDone(t)
  BY <1>7 DEF ResumeDone, Goto
<1> QED
  BY <1>1, <1>2, <1>3, <1>4, <1>5, <1>6, <1>7 DEF PipelineNext

\* The steps of the worker thread count no task that is not there.
LEMMA WorkerNextCount ==
  ASSUME IInv, CountInv, NEW t \in Tasks, WorkerNext(t)
  PROVE  CountStep
<1> USE DEF CountInv, IInv, TypeOK, Live, Terminal, Active, TaskInv, ProcessBound,
      Scheduled, OwnVerdict, Enrolled, DiskOK, JobOK, ControlOK, PoolOK,
      ClientsOK, RegistryOK, Job, Shut, disk, registry, pool, clients, control,
      history, Absent, CountStep, Counted, Leftover, Cancelling
<1>1. CASE PipelineNext(t)
  BY <1>1, PipelineNextCount
<1>2. CASE WorkerPick(t)
  BY <1>2 DEF WorkerPick, NoJob
<1>3. CASE BeginAttempt(t)
  BY <1>3 DEF BeginAttempt, AttemptFrom, Save
<1>4. CASE ReportOutcome(t)
  BY <1>4, SMTT(20) DEF ReportOutcome, Report, Save, Goto
<1>5. CASE DeleteCheckpoint(t)
  BY <1>5 DEF DeleteCheckpoint, Goto, Fault
<1>6. CASE RouteToDeadLetter(t)
  BY <1>6 DEF RouteToDeadLetter, Goto, Fault
<1>7. CASE BackoffCancelled(t)
  BY <1>7 DEF BackoffCancelled
<1>8. CASE BackoffElapsed(t)
  BY <1>8 DEF BackoffElapsed, RetryAs
<1>9. CASE Conclude(t)
  BY <1>9, SMTT(20) DEF Conclude, Save, Goto
<1>10. CASE Notify(t)
  BY <1>10 DEF Notify, Save, Emit, Goto
<1>11. CASE HandleError(t)
  BY <1>11, SMTT(20) DEF HandleError, Save, Emit, Goto, Fault
<1>12. CASE Finalize(t)
  BY <1>12 DEF Finalize, Unregister, DecrementActive, PopAndSet, NoJob
<1> QED
  BY <1>1, <1>2, <1>3, <1>4, <1>5, <1>6, <1>7, <1>8, <1>9, <1>10, <1>11, <1>12 DEF WorkerNext

\* The steps of a caller of wait() count no task that is not there.
LEMMA WaitNextCount ==
  ASSUME IInv, CountInv, NEW t \in Tasks, WaitNext(t)
  PROVE  CountStep
<1> USE DEF CountInv, IInv, TypeOK, Live, Terminal, Active, TaskInv, ProcessBound,
      Scheduled, OwnVerdict, Enrolled, DiskOK, JobOK, ControlOK, PoolOK,
      ClientsOK, RegistryOK, Job, Shut, disk, registry, pool, clients, control,
      history, Absent, CountStep, Counted, Leftover, Cancelling
<1>1. CASE WaitWake(t)
  BY <1>1 DEF WaitWake
<1>2. CASE WaitPoll(t)
  BY <1>2 DEF WaitPoll
<1> QED
  BY <1>1, <1>2 DEF WaitNext

\* The steps of shutdown() count no task that is not there.
LEMMA ShutdownNextCount ==
  ASSUME IInv, CountInv, ShutdownNext
  PROVE  CountStep
<1> USE DEF CountInv, IInv, TypeOK, Live, Terminal, Active, TaskInv, ProcessBound,
      Scheduled, OwnVerdict, Enrolled, DiskOK, JobOK, ControlOK, PoolOK,
      ClientsOK, RegistryOK, Job, Shut, disk, registry, pool, clients, control,
      history, Absent, CountStep, Counted, Leftover, Cancelling
<1>1. CASE ShutdownAbandon
  BY <1>1 DEF ShutdownAbandon
<1>2. CASE ShutdownDrain
  BY <1>2 DEF ShutdownDrain
<1>3. CASE DrainJoined
  BY <1>3 DEF DrainJoined
<1>4. CASE InflightSnapshot
  BY <1>4 DEF InflightSnapshot
<1>5. CASE ShutdownDone
  BY <1>5 DEF ShutdownDone
<1>6. ASSUME NEW t \in Tasks, InflightSkip(t) PROVE CountStep
  BY <1>6 DEF InflightSkip
<1>7. ASSUME NEW t \in Tasks, InflightSignal(t) PROVE CountStep
  BY <1>7 DEF InflightSignal
<1>8. ASSUME NEW t \in Tasks, InflightWrite(t) PROVE CountStep
  BY <1>8 DEF InflightWrite, Save
<1>9. ASSUME NEW t \in Tasks, InflightSettle(t) PROVE CountStep
  BY <1>9 DEF InflightSettle, DecrementActive, PopAndSet, Emit
<1> QED
  BY <1>1, <1>2, <1>3, <1>4, <1>5, <1>6, <1>7, <1>8, <1>9 DEF ShutdownNext

\* A crash, a cleanup and the calls that clients choose to make count no task that is not there.
LEMMA EnvironmentCount ==
  ASSUME IInv, CountInv, Environment
  PROVE  CountStep
<1> USE DEF CountInv, IInv, TypeOK, Live, Terminal, Active, TaskInv, ProcessBound,
      Scheduled, OwnVerdict, Enrolled, DiskOK, JobOK, ControlOK, PoolOK,
      ClientsOK, RegistryOK, Job, Shut, disk, registry, pool, clients, control,
      history, Absent, CountStep, Counted, Leftover, Cancelling
<1>1. CASE Crash
  BY <1>1 DEF Crash, NoShut, NoJob
<1>2. CASE CleanupTerminal
  BY <1>2 DEF CleanupTerminal, Cleanup
<1>3. CASE CleanupAll
  BY <1>3 DEF CleanupAll, Cleanup
<1>4. CASE DrainTimedOut
  BY <1>4 DEF DrainTimedOut
<1>5. ASSUME NEW m \in ShutdownModes, ShutdownBegin(m) PROVE CountStep
  BY <1>5 DEF ShutdownBegin, NoShut
<1>6. ASSUME NEW t \in Tasks, SubmitSave(t) PROVE CountStep
  BY <1>6 DEF SubmitSave, Save
<1>7. ASSUME NEW t \in Tasks, CancelLoad(t) PROVE CountStep
  BY <1>7 DEF CancelLoad
<1>8. ASSUME NEW t \in Tasks, WaitBegin(t) PROVE CountStep
  BY <1>8 DEF WaitBegin
<1>9. ASSUME NEW t \in Tasks, WorkerRaises(t) PROVE CountStep
  BY <1>9 DEF WorkerRaises, Goto, Fault
<1> QED
  BY <1>1, <1>2, <1>3, <1>4, <1>5, <1>6, <1>7, <1>8, <1>9 DEF Environment

-----------------------------------------------------------------------------
\* The counter never exceeds the registered, leftover and orphaned tasks and the
\* ones a cancellation is about to take off.
THEOREM CountInductive == Spec => []CountInv
<1>1. Init => CountInv
  <2> SUFFICES ASSUME Init PROVE CountInv
    OBVIOUS
  <2>1. active = 0 /\ Counted \in SUBSET Tasks
    BY DEF Init, Counted, Leftover, Cancelling
  <2>2. Cardinality(Counted) \in Nat
    BY <2>1, CountType
  <2>3. CountBound
    BY <2>1, <2>2 DEF CountBound
  <2> QED
    BY <2>3 DEF CountInv, Init, Enrolled, NoShut
<1>2. ASSUME IInv, IInv', CountInv, [Next]_vars PROVE CountInv'
  <2>1. CASE Next
    <3>1. CountStep
      BY <1>2, <2>1, StartNextCount, SubmitNextCount, CancelNextCount, WorkerNextCount,
         WaitNextCount, ShutdownNextCount, EnvironmentCount DEF Next
    <3>2. ASSUME NEW u \in Tasks PROVE Enrolled(u)'
      BY <1>2, <2>1, StartNextEnrolled, SubmitNextEnrolled, CancelNextEnrolled,
         WorkerNextEnrolled, WaitNextEnrolled, ShutdownNextEnrolled,
         EnvironmentEnrolled DEF Next
    <3> QED
      BY <1>2, <3>1, <3>2, CountStepBounded DEF CountInv, IInv
  <2>2. CASE UNCHANGED vars
    BY <1>2, <2>2 DEF CountInv, CountBound, Counted, Leftover, Cancelling, Enrolled,
       vars, disk, registry, pool, clients, control
  <2> QED
    BY <1>2, <2>1, <2>2
<1> QED
  BY <1>1, <1>2, Inductive, PTL DEF Spec

\* The counter that the admission limit reads never counts work that does not
\* exist, however cancellation, shutdown, completion and crashes interleave.
THEOREM NoPhantoms == Spec => []NoPhantomActive
<1>1. ASSUME IInv, CountInv PROVE NoPhantomActive
  <2> DEFINE all == ctl \cup Leftover \cup orphans \cup {t \in Tasks : canceller[t] = "written"}
  <2>1. all \in SUBSET Tasks /\ Counted \in SUBSET all /\ active \in Nat
    BY <1>1 DEF IInv, TypeOK, RegistryOK, ControlOK, Counted, Leftover, Cancelling
  <2>2. Cardinality(Counted) <= Cardinality(all)
    BY <2>1, CountGrows
  <2>3. Cardinality(Counted) \in Nat /\ Cardinality(all) \in Nat
    BY <2>1, CountType
  <2> QED
    BY <1>1, <2>1, <2>2, <2>3 DEF CountInv, CountBound, NoPhantomActive
<1> QED
  BY <1>1, Inductive, CountInductive, PTL

-----------------------------------------------------------------------------
\* Who has a task in hand, whatever the environment does

\* what the registry and the future of a task say of each other
Enqueued(t) ==
  /\ sub[t] \in {"scheduled", "done"} => fut[t] # "none"
  /\ sub[t] \in {"registered", "scheduled", "done"} => event[t] # "none"
  /\ waiter[t] \in {"blocked", "polling"} => sub[t] = "done"
  /\ phase = "starting" => accepting
  /\ fut[t] = "cancelled" => shut.mode = "abandon"
  /\ shut.pc \in {"idle", "joining"} => shut.mode # "abandon"

\* a running future has a worker, one that is done has released its waiters
Taken(t) ==
  /\ fut[t] = "running" => job[t].pc \notin {"none", "ended"}
  /\ fut[t] = "done" => job[t].pc = "ended" /\ event[t] # "armed"

\* somebody will write the row of the task once more
Owed(t) ==
  \/ phase = "dead" \/ t \in orphans \/ (sub[t] = "registered" /\ phase = "starting")
  \/ InHand(t) \/ Dropped(t)

\* a worker that no save fails leaves the row of its task at rest
Reported(t) ==
  budget.fault = 0 =>
    /\ job[t].pc # "error"
    /\ job[t].pc \in {"final", "ended"} => AtRest(t)
    /\ store[t] \in {"RUNNING", "RETRYING"} => Owed(t)

HeldTask(t) == Enqueued(t) /\ Taken(t) /\ Reported(t)

Held == \A t \in Tasks : HeldTask(t)

\* The steps of start() leave nothing forgotten.
LEMMA StartNextHeld ==
  ASSUME IInv, CountInv, Held, StartNext, NEW u \in Tasks
  PROVE  HeldTask(u)'
<1> USE DEF IInv, TypeOK, Live, Terminal, Active, TaskInv, ProcessBound, Scheduled,
      DiskOK, JobOK, ControlOK, PoolOK, ClientsOK, RegistryOK, HistoryOK, Job, Shut, disk,
      registry, pool, clients, control, history, Absent, CountInv, Enrolled, Held, HeldTask,
      Enqueued, Taken, Owed, Reported, InHand, Dropped, AtRest, Status, WorkerPc
<1>1. CASE Start
  BY <1>1 DEF Start, StartWith, Interrupted
<1>2. CASE StartDone
  BY <1>2 DEF StartDone, Enqueuing
<1>3. ASSUME NEW t \in Tasks, RecoverResume(t) PROVE HeldTask(u)'
  BY <1>3 DEF RecoverResume, Requeue, NextOrphan, Register
<1>4. ASSUME NEW t \in Tasks, RecoverFail(t) PROVE HeldTask(u)'
  BY <1>4 DEF RecoverFail, GiveUpOrphan, NextOrphan, Save, DecrementActive
<1> HIDE DEF HeldTask
<1> QED
  BY <1>1, <1>2, <1>3, <1>4 DEF StartNext

\* The steps of submit() leave nothing forgotten.
LEMMA SubmitNextHeld ==
  ASSUME IInv, CountInv, Held, NEW t \in Tasks, SubmitNext(t), NEW u \in Tasks
  PROVE  HeldTask(u)'
<1> USE DEF IInv, TypeOK, Live, Terminal, Active, TaskInv, ProcessBound, Scheduled,
      DiskOK, JobOK, ControlOK, PoolOK, ClientsOK, RegistryOK, HistoryOK, Job, Shut, disk,
      registry, pool, clients, control, history, Absent, CountInv, Enrolled, Held, HeldTask,
      Enqueued, Taken, Owed, Reported, InHand, Dropped, AtRest, Status, WorkerPc
<1>1. CASE SubmitRegister(t)
  BY <1>1 DEF SubmitRegister, Register
<1>2. CASE EnqueueSchedule(t)
  BY <1>2 DEF EnqueueSchedule
<1>3. CASE EnqueueRaises(t)
  BY <1>3 DEF EnqueueRaises
<1>4. CASE EnqueuePublish(t)
  BY <1>4 DEF EnqueuePublish
<1> HIDE DEF HeldTask
<1> QED
  BY <1>1, <1>2, <1>3, <1>4 DEF SubmitNext

\* The steps of cancel() leave nothing forgotten.
LEMMA CancelNextHeld ==
  ASSUME IInv, CountInv, Held, NEW t \in Tasks, CancelNext(t), NEW u \in Tasks
  PROVE  HeldTask(u)'
<1> USE DEF IInv, TypeOK, Live, Terminal, Active, TaskInv, ProcessBound, Scheduled,
      DiskOK, JobOK, ControlOK, PoolOK, ClientsOK, RegistryOK, HistoryOK, Job, Shut, disk,
      registry, pool, clients, control, history, Absent, CountInv, Enrolled, Held, HeldTask,
      Enqueued, Taken, Owed, Reported, InHand, Dropped, AtRest, Status, WorkerPc
<1>1. CASE CancelSignal(t)
  BY <1>1 DEF CancelSignal
<1>2. CASE CancelNoController(t)
  BY <1>2 DEF CancelNoController
<1>3. CASE CancelWrite(t)
  BY <1>3 DEF CancelWrite, Save
<1>4. CASE CancelSettle(t)
  BY <1>4 DEF CancelSettle, DecrementActive, PopAndSet, Emit
<1> HIDE DEF HeldTask
<1> QED
  BY <1>1, <1>2, <1>3, <1>4 DEF CancelNext

\* The steps of the pipeline a worker runs leave nothing forgotten.
LEMMA PipelineNextHeld ==
  ASSUME IInv, CountInv, Held, NEW t \in Tasks, PipelineNext(t), NEW u \in Tasks
  PROVE  HeldTask(u)'
<1> USE DEF IInv, TypeOK, Live, Terminal, Active, TaskInv, ProcessBound, Scheduled,
      DiskOK, JobOK, ControlOK, PoolOK, ClientsOK, RegistryOK, HistoryOK, Job, Shut, disk,
      registry, pool, clients, control, history, Absent, CountInv, Enrolled, Held, HeldTask,
      Enqueued, Taken, Owed, Reported, InHand, Dropped, AtRest, Status, WorkerPc
<1>1. CASE RunStep(t)
  BY <1>1 DEF RunStep, Checkpoint, Fault
<1>2. CASE StepCancelled(t)
  BY <1>2 DEF StepCancelled, Outcome
<1>3. CASE PipelineDone(t)
  BY <1>3 DEF PipelineDone, Outcome
<1>4. ASSUME NEW k \in {"retryable", "fatal"}, StepRaises(t, k) PROVE HeldTask(u)'
  BY <1>4 DEF StepRaises, Outcome
<1>5. CASE Preflight(t)
  BY <1>5 DEF Preflight, Checkpoint, Goto, Fault
<1>6. CASE PreflightRaises(t)
  BY <1>6 DEF PreflightRaises, Outcome
<1>7. CASE ResumeDone(t)
  BY <1>7 DEF ResumeDone, Goto
<1> HIDE DEF HeldTask
<1> QED
  BY <1>1, <1>2, <1>3, <1>4, <1>5, <1>6, <1>7 DEF PipelineNext

\* A step inside an attempt keeps the task in the hands of its worker.
LEMMA KeepsHold ==
  ASSUME Held, NEW t \in Tasks, NEW u \in Tasks, fut[t] = "running",
         job'[t].pc \notin {"none", "error", "final", "ended"},
         u # t => job'[u] = job[u] /\ store'[u] = store[u],
         budget' = budget \/ budget'.fault # 0,
         UNCHANGED <<fut, sub, event, waiter, phase, accepting, shut, orphans>>
  PROVE  HeldTask(u)'
<1>1. Enqueued(u)' /\ Taken(u)
  BY DEF Held, HeldTask, Enqueued
<1>2. CASE u = t
  <2>1. Taken(t)' /\ InHand(t)'
    BY DEF Taken, InHand
  <2> QED
    BY <1>1, <1>2, <2>1 DEF HeldTask, Reported, Owed
<1>3. CASE u # t
  <2>1. Taken(u)' /\ (Owed(u)' <=> Owed(u)) /\ (AtRest(u)' <=> AtRest(u))
    BY <1>1, <1>3 DEF Taken, Owed, InHand, Dropped, AtRest
  <2>2. Reported(u)
    BY DEF Held, HeldTask
  <2> QED
    BY <1>1, <1>3, <2>1, <2>2 DEF HeldTask, Reported
<1> QED
  BY <1>2, <1>3

\* The steps of the worker thread leave nothing forgotten.
LEMMA WorkerNextHeld ==
  ASSUME IInv, CountInv, Held, NEW t \in Tasks, WorkerNext(t), NEW u \in Tasks
  PROVE  HeldTask(u)'
<1> USE DEF IInv, TypeOK, Live, Terminal, Active, TaskInv, ProcessBound, Scheduled,
      DiskOK, JobOK, ControlOK, PoolOK, ClientsOK, RegistryOK, HistoryOK, Job, Shut, disk,
      registry, pool, clients, control, history, Absent, CountInv, Enrolled, Held, HeldTask,
      Enqueued, Taken, Owed, Reported, InHand, Dropped, AtRest, Status, WorkerPc
<1>1. CASE PipelineNext(t)
  BY <1>1, PipelineNextHeld
<1>2. CASE WorkerPick(t)
  BY <1>2 DEF WorkerPick, NoJob
<1>3. CASE BeginAttempt(t)
  BY <1>3 DEF BeginAttempt, AttemptFrom, Save
<1>4. CASE ReportOutcome(t)
  <2>1. AfterReport(t) \in {"complete", "backoff", "deadletter", "conclude"}
    BY DEF AfterReport
  <2>2. /\ fut[t] = "running" /\ job'[t].pc = AfterReport(t)
        /\ u # t => job'[u] = job[u] /\ store'[u] = store[u]
        /\ UNCHANGED <<fut, sub, event, waiter, phase, accepting, shut, orphans, budget>>
    BY <1>4 DEF ReportOutcome, Report, Save, Goto
  <2> QED
    BY <2>1, <2>2, KeepsHold
<1>5. CASE DeleteCheckpoint(t)
  <2>1. /\ fut[t] = "running" /\ job'[t].pc = "conclude"
        /\ u # t => job'[u] = job[u] /\ store'[u] = store[u]
        /\ budget' = budget \/ budget'.fault # 0
        /\ UNCHANGED <<fut, sub, event, waiter, phase, accepting, shut, orphans>>
    BY <1>5 DEF DeleteCheckpoint, Goto, Fault
  <2> QED
    BY <2>1, KeepsHold
<1>6. CASE RouteToDeadLetter(t)
  <2>1. job[t].pc = "deadletter" /\ fut[t] = "running"
    BY <1>6 DEF RouteToDeadLetter
  <2>2. job'[t].pc = "conclude" /\ (u # t => job'[u] = job[u])
    <3> HIDE DEF CountInv, Held
    <3>1. CASE job' = [job EXCEPT ![t] = [@ EXCEPT !.pc = "conclude", !.stat = "DEAD"]]
      BY <3>1
    <3>2. CASE Goto(t, "conclude")
      BY <3>2 DEF Goto
    <3> QED
      BY <1>6, <3>1, <3>2 DEF RouteToDeadLetter
  <2>3. /\ store' = store /\ (budget' = budget \/ budget'.fault # 0)
        /\ UNCHANGED <<fut, sub, event, waiter, phase, accepting, shut, orphans>>
    BY <1>6 DEF RouteToDeadLetter, Fault
  <2> QED
    BY <2>1, <2>2, <2>3, KeepsHold
<1>7. CASE BackoffCancelled(t)
  BY <1>7 DEF BackoffCancelled
<1>8. CASE BackoffElapsed(t)
  BY <1>8 DEF BackoffElapsed, RetryAs
<1>9. CASE Conclude(t)
  BY <1>9 DEF Conclude, Save, Goto
<1>10. CASE Notify(t)
  BY <1>10 DEF Notify, Save, Emit, Goto
<1>11. CASE HandleError(t)
  BY <1>11 DEF HandleError, Save, Emit, Goto, Fault
<1>12. CASE Finalize(t)
  BY <1>12 DEF Finalize, Unregister, DecrementActive, PopAndSet, NoJob
<1> HIDE DEF HeldTask
<1> QED
  BY <1>1, <1>2, <1>3, <1>4, <1>5, <1>6, <1>7, <1>8, <1>9, <1>10, <1>11, <1>12 DEF WorkerNext

\* The steps of a caller of wait() leave nothing forgotten.
LEMMA WaitNextHeld ==
  ASSUME IInv, CountInv, Held, NEW t \in Tasks, WaitNext(t), NEW u \in Tasks
  PROVE  HeldTask(u)'
<1> USE DEF IInv, TypeOK, Live, Terminal, Active, TaskInv, ProcessBound, Scheduled,
      DiskOK, JobOK, ControlOK, PoolOK, ClientsOK, RegistryOK, HistoryOK, Job, Shut, disk,
      registry, pool, clients, control, history, Absent, CountInv, Enrolled, Held, HeldTask,
      Enqueued, Taken, Owed, Reported, InHand, Dropped, AtRest, Status, WorkerPc
<1>1. CASE WaitWake(t)
  BY <1>1 DEF WaitWake
<1>2. CASE WaitPoll(t)
  BY <1>2 DEF WaitPoll
<1> HIDE DEF HeldTask
<1> QED
  BY <1>1, <1>2 DEF WaitNext

\* The steps of shutdown() leave nothing forgotten.
LEMMA ShutdownNextHeld ==
  ASSUME IInv, CountInv, Held, ShutdownNext, NEW u \in Tasks
  PROVE  HeldTask(u)'
<1> USE DEF IInv, TypeOK, Live, Terminal, Active, TaskInv, ProcessBound, Scheduled,
      DiskOK, JobOK, ControlOK, PoolOK, ClientsOK, RegistryOK, HistoryOK, Job, Shut, disk,
      registry, pool, clients, control, history, Absent, CountInv, Enrolled, Held, HeldTask,
      Enqueued, Taken, Owed, Reported, InHand, Dropped, AtRest, Status, WorkerPc
<1>1. CASE ShutdownAbandon
  BY <1>1 DEF ShutdownAbandon
<1>2. CASE ShutdownDrain
  BY <1>2 DEF ShutdownDrain
<1>3. CASE DrainJoined
  BY <1>3 DEF DrainJoined
<1>4. CASE InflightSnapshot
  BY <1>4 DEF InflightSnapshot
<1>5. CASE ShutdownDone
  BY <1>5 DEF ShutdownDone
<1>6. ASSUME NEW t \in Tasks, InflightSkip(t) PROVE HeldTask(u)'
  BY <1>6 DEF InflightSkip
<1>7. ASSUME NEW t \in Tasks, InflightSignal(t) PROVE HeldTask(u)'
  BY <1>7 DEF InflightSignal
<1>8. ASSUME NEW t \in Tasks, InflightWrite(t) PROVE HeldTask(u)'
  BY <1>8 DEF InflightWrite, Save
<1>9. ASSUME NEW t \in Tasks, InflightSettle(t) PROVE HeldTask(u)'
  BY <1>9 DEF InflightSettle, DecrementActive, PopAndSet, Emit
<1> HIDE DEF HeldTask
<1> QED
  BY <1>1, <1>2, <1>3, <1>4, <1>5, <1>6, <1>7, <1>8, <1>9 DEF ShutdownNext

\* A crash, a cleanup and the calls that clients choose to make leave nothing forgotten.
LEMMA EnvironmentHeld ==
  ASSUME IInv, CountInv, Held, Environment, NEW u \in Tasks
  PROVE  HeldTask(u)'
<1> USE DEF IInv, TypeOK, Live, Terminal, Active, TaskInv, ProcessBound, Scheduled,
      DiskOK, JobOK, ControlOK, PoolOK, ClientsOK, RegistryOK, HistoryOK, Job, Shut, disk,
      registry, pool, clients, control, history, Absent, CountInv, Enrolled, Held, HeldTask,
      Enqueued, Taken, Owed, Reported, InHand, Dropped, AtRest, Status, WorkerPc
<1>1. CASE Crash
  BY <1>1 DEF Crash, NoShut, NoJob
<1>2. CASE CleanupTerminal
  BY <1>2 DEF CleanupTerminal, Cleanup
<1>3. CASE CleanupAll
  BY <1>3 DEF CleanupAll, Cleanup
<1>4. CASE DrainTimedOut
  BY <1>4 DEF DrainTimedOut
<1>5. ASSUME NEW m \in ShutdownModes, ShutdownBegin(m) PROVE HeldTask(u)'
  BY <1>5 DEF ShutdownBegin, NoShut
<1>6. ASSUME NEW t \in Tasks, SubmitSave(t) PROVE HeldTask(u)'
  BY <1>6 DEF SubmitSave, Save
<1>7. ASSUME NEW t \in Tasks, CancelLoad(t) PROVE HeldTask(u)'
  BY <1>7 DEF CancelLoad
<1>8. ASSUME NEW t \in Tasks, WaitBegin(t) PROVE HeldTask(u)'
  BY <1>8 DEF WaitBegin
<1>9. ASSUME NEW t \in Tasks, WorkerRaises(t) PROVE HeldTask(u)'
  BY <1>9 DEF WorkerRaises, Goto, Fault
<1> HIDE DEF HeldTask
<1> QED
  BY <1>1, <1>2, <1>3, <1>4, <1>5, <1>6, <1>7, <1>8, <1>9 DEF Environment

-----------------------------------------------------------------------------
\* What the hands of the pool have to do with the rows of the store is inductive.
THEOREM HeldInductive == Spec => []Held
<1>1. Init => Held
  BY DEF Init, Held, HeldTask, Enqueued, Taken, Reported, Owed, InHand, Dropped, AtRest,
     Absent, NoShut, NoJob
<1>2. ASSUME IInv, CountInv, Held, [Next]_vars PROVE Held'
  <2> SUFFICES ASSUME NEW u \in Tasks PROVE HeldTask(u)'
    BY DEF Held
  <2>1. CASE Next
    BY <1>2, <2>1, StartNextHeld, SubmitNextHeld, CancelNextHeld, WorkerNextHeld,
       WaitNextHeld, ShutdownNextHeld, EnvironmentHeld DEF Next
  <2>2. CASE UNCHANGED vars
    BY <1>2, <2>2 DEF Held, HeldTask, Enqueued, Taken, Reported, Owed, InHand, Dropped,
       AtRest, vars, disk, registry, pool, clients, control, history
  <2> QED
    BY <1>2, <2>1, <2>2
<1> QED
  BY <1>1, <1>2, Inductive, CountInductive, PTL DEF Spec

\* Whoever waits, in wait(), in shutdown() or for the store, waits for a thread that has the
\* task or will take it, whatever is cancelled, restarted, cleaned up or shut down; but for
\* futures that a shutdown cancelled, and for saves that failed.
THEOREM NothingIsForgotten == Spec => []NothingForgotten
<1>1. ASSUME IInv, CountInv, Held PROVE NothingForgotten
  <2> SUFFICES ASSUME NEW t \in Tasks
               PROVE  /\ waiter[t] = "blocked" => event[t] = "set" \/ InHand(t) \/ Dropped(t)
                      /\ shut.pc = "joining" /\ t \in shut.todo => fut[t] = "done" \/ InHand(t)
                      /\ budget.fault = 0 =>
                           /\ waiter[t] = "polling" => AtRest(t) \/ InHand(t) \/ Dropped(t)
                           /\ store[t] \in {"RUNNING", "RETRYING"} => Owed(t)
    BY DEF NothingForgotten, Owed
  <2>1. HeldTask(t) /\ Enrolled(t) /\ Scheduled(t)
    BY <1>1 DEF Held, CountInv, IInv, TaskInv
  <2>2. /\ fut[t] \in {"none", "queued", "running", "done", "cancelled"}
        /\ event[t] \in {"none", "armed", "set"}
    BY <1>1 DEF IInv, TypeOK, PoolOK, RegistryOK
  <2>3. sub[t] = "done" => InHand(t) \/ Dropped(t) \/ fut[t] = "done"
    BY <2>1, <2>2 DEF HeldTask, Enqueued, Taken, InHand, Dropped
  <2>4. waiter[t] = "blocked" => event[t] = "set" \/ InHand(t) \/ Dropped(t)
    BY <2>1, <2>2, <2>3 DEF HeldTask, Enqueued, Taken
  <2>5. shut.pc = "joining" /\ t \in shut.todo => fut[t] = "done" \/ InHand(t)
    BY <2>1, <2>3 DEF HeldTask, Enqueued, Enrolled, Dropped
  <2>6. budget.fault = 0 /\ waiter[t] = "polling" => AtRest(t) \/ InHand(t) \/ Dropped(t)
    BY <2>1, <2>3 DEF HeldTask, Enqueued, Taken, Reported
  <2> QED
    BY <2>1, <2>4, <2>5, <2>6 DEF HeldTask, Reported
<1> QED
  BY <1>1, Inductive, CountInductive, HeldInductive, PTL

-----------------------------------------------------------------------------
\* A worker's work on a task ends, however its attempts fail

\* the steps that the attempts after the a-th can take
Later(a) == (MaxRetries - a) * (Steps + 5)

\* how many steps, at most, a worker in state j has before its end
StepsLeft(j) ==
  CASE j.pc \in {"none", "ended"}           -> 0
    [] j.pc = "final"                       -> 1
    [] j.pc = "error"                       -> 2
    [] j.pc = "notify"                      -> 3
    [] j.pc = "conclude"                    -> 4
    [] j.pc \in {"complete", "deadletter"}  -> 5
    [] j.pc = "backoff"                     -> Later(j.att) + 5
    [] j.pc = "report"                      -> Later(j.att) + 6
    [] j.pc = "run"                         -> Later(j.att) + 7 + (Steps - j.step)
    [] j.pc = "build"                       -> Later(j.att) + 8 + Steps
    [] j.pc = "attempt"                     -> Later(j.att) + 9 + Steps

Shorter(t) == StepsLeft(job'[t]) \in Nat /\ StepsLeft(job'[t]) < StepsLeft(job[t])

\* Each step of a worker brings it nearer its end, and nobody else changes where it is: a
\* retry only ever spends what is left of the budget, and no signal restarts an attempt.
WorkEnds ==
  [][\A t \in Tasks :
       /\ job'[t] # job[t] => job[t].pc = "none" \/ phase' = "dead" \/ Shorter(t)
       /\ WorkerNext(t) => job[t].pc = "none" \/ Shorter(t)]_vars

\* One more attempt is paid for by the budget of retries.
LEMMA LaterSpent ==
  ASSUME NEW a \in 0..MaxRetries
  PROVE  /\ Later(a) \in Nat
         /\ a < MaxRetries => Later(a) = Later(a + 1) + Steps + 5
<1>1. MaxRetries \in Nat /\ Steps \in Nat
  BY ConstantsAssumption DEF ConstantsAssumption
<1> DEFINE n == MaxRetries - a
           c == Steps + 5
<1>2. n \in Nat /\ c \in Nat
  BY <1>1
<1>3. n * c \in Nat
  BY <1>2
<1>4. a < MaxRetries => n * c = (n - 1) * c + c
  BY <1>2
<1>5. n - 1 = MaxRetries - (a + 1)
  BY <1>1
<1> QED
  BY <1>1, <1>3, <1>4, <1>5 DEF Later

\* What is left is a number.
LEMMA StepsLeftNat == ASSUME NEW j \in Job PROVE StepsLeft(j) \in Nat
<1>1. j.att \in 0..MaxRetries /\ j.step \in 0..Steps /\ j.pc \in WorkerPc /\ Steps \in Nat
  BY ConstantsAssumption DEF ConstantsAssumption, Job
<1>2. Later(j.att) \in Nat
  BY <1>1, LaterSpent
<1> QED
  BY <1>1, <1>2 DEF StepsLeft, WorkerPc

\* The steps of the pipeline bring a worker nearer its end.
LEMMA PipelineShorter ==
  ASSUME IInv, NEW t \in Tasks, PipelineNext(t)
  PROVE  /\ StepsLeft(job'[t]) < StepsLeft(job[t])
         /\ \A u \in Tasks \ {t} : job'[u] = job[u]
<1>1. job \in [Tasks -> Job] /\ job[t] \in Job
  BY DEF IInv, TypeOK, JobOK
<1>2. /\ job[t].att \in 0..MaxRetries /\ job[t].step \in 0..Steps /\ Steps \in Nat
      /\ Later(job[t].att) \in Nat
  BY <1>1, LaterSpent, ConstantsAssumption DEF ConstantsAssumption, Job
<1> DEFINE Along == /\ job'[t].att = job[t].att
                    /\ \/ job[t].pc = "build" /\ job'[t].pc \in {"run", "report"}
                                              /\ job'[t].step = job[t].step
                       \/ job[t].pc = "run" /\ job'[t].pc = "report"
                       \/ job[t].pc = "run" /\ job'[t].pc = "run"
                                            /\ job'[t].step = job[t].step + 1
                    /\ \A u \in Tasks \ {t} : job'[u] = job[u]
<1>3. ASSUME NEW s, NEW k, Outcome(t, s, k), job[t].pc \in {"build", "run"} PROVE Along
  BY <1>1, <1>3 DEF Outcome, Job
<1>4. ASSUME RunStep(t) PROVE Along
  BY <1>1, <1>4 DEF RunStep, Job
<1>5. ASSUME Preflight(t) \/ ResumeDone(t) PROVE Along
  BY <1>1, <1>5 DEF Preflight, ResumeDone, Goto, Job
<1>6. ASSUME StepCancelled(t) \/ PipelineDone(t) \/ PreflightRaises(t) PROVE Along
  BY <1>3, <1>6 DEF StepCancelled, PipelineDone, PreflightRaises
<1>7. ASSUME NEW k \in {"retryable", "fatal"}, StepRaises(t, k) PROVE Along
  BY <1>3, <1>7 DEF StepRaises
<1> HIDE DEF Along
<1>8. Along
  BY <1>4, <1>5, <1>6, <1>7 DEF PipelineNext
<1> QED
  BY <1>2, <1>8 DEF Along, StepsLeft

\* Every step of a worker that has its task brings it nearer its end.
LEMMA WorkerShorter ==
  ASSUME IInv, NEW t \in Tasks, WorkerNext(t), job[t].pc # "none"
  PROVE  /\ StepsLeft(job'[t]) < StepsLeft(job[t])
         /\ \A u \in Tasks \ {t} : job'[u] = job[u]
<1>1. job \in [Tasks -> Job] /\ job[t] \in Job
  BY DEF IInv, TypeOK, JobOK
<1>2. /\ job[t].att \in 0..MaxRetries /\ job[t].step \in 0..Steps /\ Steps \in Nat
      /\ Later(job[t].att) \in Nat /\ MaxRetries \in Nat
  BY <1>1, LaterSpent, ConstantsAssumption DEF ConstantsAssumption, Job
<1>3. ~WorkerPick(t)
  BY DEF WorkerPick, IInv, TaskInv, Scheduled
<1>4. CASE PipelineNext(t)
  BY <1>4, PipelineShorter
<1>5. CASE BeginAttempt(t)
  <2>1. /\ job[t].pc = "attempt" /\ job'[t].pc = "build" /\ job'[t].att = job[t].att
        /\ \A u \in Tasks \ {t} : job'[u] = job[u]
    BY <1>1, <1>5 DEF BeginAttempt, AttemptFrom, Job
  <2> QED
    BY <1>2, <2>1 DEF StepsLeft
<1>6. CASE ReportOutcome(t)
  <2>1. AfterReport(t) \in {"complete", "backoff", "deadletter", "conclude"}
    BY DEF AfterReport
  <2>2. /\ job[t].pc = "report" /\ job'[t].pc = AfterReport(t) /\ job'[t].att = job[t].att
        /\ \A u \in Tasks \ {t} : job'[u] = job[u]
    BY <1>1, <1>6 DEF ReportOutcome, Report, Goto, Job
  <2> QED
    BY <1>2, <2>1, <2>2 DEF StepsLeft
<1>7. CASE DeleteCheckpoint(t) \/ RouteToDeadLetter(t) \/ BackoffCancelled(t)
  <2>1. job[t].pc \in {"complete", "deadletter", "backoff"}
    BY <1>7 DEF DeleteCheckpoint, RouteToDeadLetter, BackoffCancelled
  <2>2. job'[t].pc = "conclude" /\ \A u \in Tasks \ {t} : job'[u] = job[u]
    <3>1. CASE Goto(t, "conclude")
      BY <1>1, <3>1 DEF Goto, Job
    <3>2. ASSUME NEW s, job' = [job EXCEPT ![t] = [@ EXCEPT !.pc = "conclude", !.stat = s]]
          PROVE  job'[t].pc = "conclude" /\ \A u \in Tasks \ {t} : job'[u] = job[u]
      BY <1>1, <3>2 DEF Job
    <3> QED
      BY <1>7, <3>1, <3>2 DEF DeleteCheckpoint, RouteToDeadLetter, BackoffCancelled
  <2> QED
    BY <1>2, <2>1, <2>2 DEF StepsLeft
<1>8. CASE BackoffElapsed(t)
  <2>1. /\ job[t].pc = "backoff" /\ job'[t].pc = "attempt" /\ job'[t].att = job[t].att + 1
        /\ \A u \in Tasks \ {t} : job'[u] = job[u]
    BY <1>1, <1>8 DEF BackoffElapsed, RetryAs, Job
  <2>2. job[t].att < MaxRetries
    BY <2>1 DEF IInv, TypeOK, JobOK
  <2>3. /\ Later(job[t].att + 1) \in Nat
        /\ Later(job[t].att) = Later(job[t].att + 1) + Steps + 5
    BY <1>2, <2>2, LaterSpent
  <2> QED
    BY <1>2, <2>1, <2>3 DEF StepsLeft
<1>9. CASE Conclude(t) \/ Notify(t) \/ HandleError(t) \/ Finalize(t)
  <2>1. /\ \/ job[t].pc = "conclude" /\ job'[t].pc = "notify"
           \/ job[t].pc \in {"notify", "error"} /\ job'[t].pc = "final"
           \/ job[t].pc = "final" /\ job'[t].pc = "ended"
        /\ \A u \in Tasks \ {t} : job'[u] = job[u]
    BY <1>1, <1>9 DEF Conclude, Notify, HandleError, Finalize, Unregister, Goto, NoJob, Job
  <2> QED
    BY <2>1 DEF StepsLeft
<1> QED
  BY <1>3, <1>4, <1>5, <1>6, <1>7, <1>8, <1>9 DEF WorkerNext

\* Nobody but its worker, a failing save and the end of the process change where a worker is.
LEMMA OthersLeaveWork ==
  ASSUME IInv, NEW t \in Tasks, [Next]_vars, job'[t] # job[t]
  PROVE  WorkerNext(t) \/ WorkerRaises(t) \/ phase' = "dead"
<1>0. job \in [Tasks -> Job]
  BY DEF IInv, TypeOK, JobOK
<1>1. CASE StartNext
  BY <1>1 DEF StartNext, Start, StartWith, StartDone, RecoverResume, Requeue, RecoverFail,
     GiveUpOrphan
<1>2. CASE ShutdownNext
  BY <1>2 DEF ShutdownNext, ShutdownAbandon, ShutdownDrain, DrainJoined, InflightSnapshot,
     ShutdownDone, InflightSkip, InflightSignal, InflightWrite, InflightSettle
<1>3. CASE Environment
  <2>1. ASSUME NEW u \in Tasks, WorkerRaises(u) PROVE WorkerRaises(t)
    BY <1>0, <2>1 DEF WorkerRaises, Goto
  <2> QED
    BY <1>3, <2>1 DEF Environment, Crash, CleanupTerminal, CleanupAll, Cleanup, DrainTimedOut,
       ShutdownBegin, SubmitSave, CancelLoad, WaitBegin
<1>4. ASSUME NEW u \in Tasks, SubmitNext(u) \/ CancelNext(u) \/ WaitNext(u) PROVE FALSE
  BY <1>4 DEF SubmitNext, SubmitRegister, EnqueueSchedule, EnqueueRaises, EnqueuePublish,
     CancelNext, CancelSignal, CancelNoController, CancelWrite, CancelSettle, WaitNext,
     WaitWake, WaitPoll
<1>5. ASSUME NEW u \in Tasks, WorkerNext(u) PROVE u = t
  <2>1. CASE job[u].pc # "none"
    BY <1>5, <2>1, WorkerShorter
  <2>2. CASE job[u].pc = "none"
    BY <1>0, <1>5, <2>2 DEF WorkerNext, WorkerPick, BeginAttempt, AttemptFrom, PipelineNext,
       Preflight, PreflightRaises, ResumeDone, RunStep, StepCancelled, PipelineDone, StepRaises,
       ReportOutcome, Report, DeleteCheckpoint, RouteToDeadLetter, BackoffCancelled,
       BackoffElapsed, RetryAs, Conclude, Notify, HandleError, Finalize, Unregister
  <2> QED
    BY <2>1, <2>2
<1>6. CASE UNCHANGED vars
  BY <1>6 DEF vars
<1> QED
  BY <1>1, <1>2, <1>3, <1>4, <1>5, <1>6 DEF Next

\* However its attempts fail, are cancelled or interrupted, a worker that has a task is
\* through with it after as many steps as StepsLeft says, for any number of retries and steps.
THEOREM EveryWorkEnds == Spec => WorkEnds
<1>1. ASSUME IInv, IInv', [Next]_vars, NEW t \in Tasks
      PROVE  /\ job'[t] # job[t] => job[t].pc = "none" \/ phase' = "dead" \/ Shorter(t)
             /\ WorkerNext(t) => job[t].pc = "none" \/ Shorter(t)
  <2>1. job[t] \in Job /\ job'[t] \in Job /\ job \in [Tasks -> Job]
    BY <1>1 DEF IInv, TypeOK, JobOK
  <2>2. StepsLeft(job'[t]) \in Nat
    BY <2>1, StepsLeftNat
  <2>3. WorkerNext(t) /\ job[t].pc # "none" => Shorter(t)
    BY <1>1, <2>2, WorkerShorter DEF Shorter
  <2>4. ASSUME WorkerRaises(t) PROVE Shorter(t)
    <3>1. /\ job[t].pc \in {"attempt", "build", "report", "conclude", "notify"}
          /\ job'[t].pc = "error"
      BY <2>1, <2>4 DEF WorkerRaises, Goto, Job
    <3>2. Later(job[t].att) \in Nat /\ Steps \in Nat
      BY <2>1, LaterSpent, ConstantsAssumption DEF ConstantsAssumption, Job
    <3> QED
      BY <2>2, <3>1, <3>2 DEF Shorter, StepsLeft
  <2> QED
    BY <1>1, <2>3, <2>4, OthersLeaveWork
<1>2. ASSUME IInv, IInv', [Next]_vars
      PROVE  \A t \in Tasks :
               /\ job'[t] # job[t] => job[t].pc = "none" \/ phase' = "dead" \/ Shorter(t)
               /\ WorkerNext(t) => job[t].pc = "none" \/ Shorter(t)
  BY <1>1, <1>2
<1> QED
  BY <1>2, Inductive, PTL DEF Spec, WorkEnds

-----------------------------------------------------------------------------
\* A queue that nobody disturbs, task by task

\* The steps of start() leave a quiet queue quiet.
LEMMA StartNextQuiet ==
  ASSUME Quiet, IInv, QuietInv, StartNext, NEW u \in Tasks
  PROVE  QuietTask(u)'
<1> USE DEF IInv, TypeOK, Live, Terminal, Active, TaskInv, ProcessBound,
      Scheduled, OwnVerdict, DiskOK, JobOK, ControlOK, PoolOK,
      ClientsOK, RegistryOK, Job, Shut, disk, registry, pool, clients, control,
      history, Absent, Quiet, QuietInv, QuietTask, Undisturbed,
      Kept, Position, Told, HistoryOK, Status, WorkerPc
<1>1. CASE Start
  BY <1>1 DEF Start, StartWith, Interrupted
<1>2. CASE StartDone
  BY <1>2 DEF StartDone
<1>3. ASSUME NEW t \in Tasks, RecoverResume(t) PROVE QuietTask(u)'
  BY <1>3 DEF RecoverResume, Requeue, NextOrphan, Register
<1>4. ASSUME NEW t \in Tasks, RecoverFail(t) PROVE QuietTask(u)'
  BY <1>4 DEF RecoverFail, GiveUpOrphan, NextOrphan, Save, DecrementActive
<1> QED
  BY <1>1, <1>2, <1>3, <1>4 DEF StartNext

\* The steps of submit() leave a quiet queue quiet.
LEMMA SubmitNextQuiet ==
  ASSUME Quiet, IInv, QuietInv, NEW t \in Tasks, SubmitNext(t), NEW u \in Tasks
  PROVE  QuietTask(u)'
<1> USE DEF IInv, TypeOK, Live, Terminal, Active, TaskInv, ProcessBound,
      Scheduled, OwnVerdict, DiskOK, JobOK, ControlOK, PoolOK,
      ClientsOK, RegistryOK, Job, Shut, disk, registry, pool, clients, control,
      history, Absent, Quiet, QuietInv, QuietTask, Undisturbed,
      Kept, Position, Told, HistoryOK, Status, WorkerPc
<1>1. CASE SubmitRegister(t)
  BY <1>1 DEF SubmitRegister, Register
<1>2. CASE EnqueueSchedule(t)
  BY <1>2 DEF EnqueueSchedule
<1>3. CASE EnqueueRaises(t)
  BY <1>3 DEF EnqueueRaises
<1>4. CASE EnqueuePublish(t)
  BY <1>4 DEF EnqueuePublish
<1> QED
  BY <1>1, <1>2, <1>3, <1>4 DEF SubmitNext

\* The steps of cancel() leave a quiet queue quiet.
LEMMA CancelNextQuiet ==
  ASSUME Quiet, IInv, QuietInv, NEW t \in Tasks, CancelNext(t), NEW u \in Tasks
  PROVE  QuietTask(u)'
<1> USE DEF IInv, TypeOK, Live, Terminal, Active, TaskInv, ProcessBound,
      Scheduled, OwnVerdict, DiskOK, JobOK, ControlOK, PoolOK,
      ClientsOK, RegistryOK, Job, Shut, disk, registry, pool, clients, control,
      history, Absent, Quiet, QuietInv, QuietTask, Undisturbed,
      Kept, Position, Told, HistoryOK, Status, WorkerPc
<1>1. CASE CancelSignal(t)
  BY <1>1 DEF CancelSignal
<1>2. CASE CancelNoController(t)
  BY <1>2 DEF CancelNoController
<1>3. CASE CancelWrite(t)
  BY <1>3 DEF CancelWrite, Save
<1>4. CASE CancelSettle(t)
  BY <1>4 DEF CancelSettle, DecrementActive, PopAndSet, Emit
<1> QED
  BY <1>1, <1>2, <1>3, <1>4 DEF CancelNext

\* The steps of the pipeline a worker runs leave a quiet queue quiet.
LEMMA PipelineNextQuiet ==
  ASSUME Quiet, IInv, QuietInv, NEW t \in Tasks, PipelineNext(t), NEW u \in Tasks
  PROVE  QuietTask(u)'
<1> USE DEF IInv, TypeOK, Live, Terminal, Active, TaskInv, ProcessBound,
      Scheduled, OwnVerdict, DiskOK, JobOK, ControlOK, PoolOK,
      ClientsOK, RegistryOK, Job, Shut, disk, registry, pool, clients, control,
      history, Absent, Quiet, QuietInv, QuietTask, Undisturbed,
      Kept, Position, Told, HistoryOK, Status, WorkerPc
<1>1. CASE RunStep(t)
  BY <1>1 DEF RunStep, Checkpoint, Fault
<1>2. CASE StepCancelled(t)
  BY <1>2 DEF StepCancelled, Outcome
<1>3. CASE PipelineDone(t)
  BY <1>3 DEF PipelineDone, Outcome
<1>4. ASSUME NEW k \in {"retryable", "fatal"}, StepRaises(t, k) PROVE QuietTask(u)'
  BY <1>4 DEF StepRaises, Outcome
<1>5. CASE Preflight(t)
  BY <1>5 DEF Preflight, Checkpoint, Goto, Fault
<1>6. CASE PreflightRaises(t)
  BY <1>6 DEF PreflightRaises, Outcome
<1>7. CASE ResumeDone(t)
  BY <1>7 DEF ResumeDone, Goto
<1> QED
  BY <1>1, <1>2, <1>3, <1>4, <1>5, <1>6, <1>7 DEF PipelineNext

\* The steps of the worker thread leave a quiet queue quiet.
LEMMA WorkerNextQuiet ==
  ASSUME Quiet, IInv, QuietInv, NEW t \in Tasks, WorkerNext(t), NEW u \in Tasks
  PROVE  QuietTask(u)'
<1> USE DEF IInv, TypeOK, Live, Terminal, Active, TaskInv, ProcessBound,
      Scheduled, OwnVerdict, DiskOK, JobOK, ControlOK, PoolOK,
      ClientsOK, RegistryOK, Job, Shut, disk, registry, pool, clients, control,
      history, Absent, Quiet, QuietInv, QuietTask, Undisturbed,
      Kept, Position, Told, HistoryOK, Status, WorkerPc
<1>1. CASE PipelineNext(t)
  BY <1>1, PipelineNextQuiet
<1>2. CASE WorkerPick(t)
  BY <1>2 DEF WorkerPick, NoJob
<1>3. CASE BeginAttempt(t)
  BY <1>3 DEF BeginAttempt, AttemptFrom, Save
<1>4. CASE ReportOutcome(t)
  <2> DEFINE next == AfterReport(t)
  <2>1. /\ job[t].pc = "report"
        /\ store' = [store EXCEPT ![t] = job[t].stat]
        /\ job' = [job EXCEPT ![t].pc = next]
        /\ UNCHANGED <<files, dlq, registry, pool, clients, control, history>>
    BY <1>4 DEF ReportOutcome, Report, Save, Goto
  <2>2. CASE job[t].stat = "COMPLETED"
    <3>1. next = "complete"
      BY <2>2 DEF AfterReport, Retryable
    <3> HIDE DEF next
    <3> QED
      BY <2>1, <2>2, <3>1
  <2>3. CASE job[t].stat = "CANCELLED"
    <3>1. next = "conclude"
      BY <2>3 DEF AfterReport, Retryable
    <3> HIDE DEF next
    <3> QED
      BY <2>1, <2>3, <3>1
  <2>4. CASE job[t].stat = "FAILED"
    <3>1. next \in {"backoff", "deadletter", "conclude"}
      BY <2>4 DEF AfterReport, Retryable, Exhausted
    <3> HIDE DEF next
    <3> QED
      BY <2>1, <2>4, <3>1
  <2> QED
    BY <2>1, <2>2, <2>3, <2>4
<1>5. CASE DeleteCheckpoint(t)
  BY <1>5 DEF DeleteCheckpoint, Goto, Fault
<1>6. CASE RouteToDeadLetter(t)
  <2>1. CASE /\ dlq' = dlq \cup {t}
             /\ job' = [job EXCEPT ![t] = [@ EXCEPT !.pc = "conclude",
                                             !.stat = "DEAD"]]
    BY <1>6, <2>1 DEF RouteToDeadLetter
  <2> QED
    BY <1>6, <2>1 DEF RouteToDeadLetter, Fault
<1>7. CASE BackoffCancelled(t)
  BY <1>7 DEF BackoffCancelled
<1>8. CASE BackoffElapsed(t)
  BY <1>8 DEF BackoffElapsed, RetryAs
<1>9. CASE Conclude(t)
  BY <1>9 DEF Conclude, Save, Goto
<1>10. CASE Notify(t)
  BY <1>10 DEF Notify, Save, Emit, Goto
<1>11. CASE HandleError(t)
  BY <1>11 DEF HandleError, Save, Emit, Goto, Fault
<1>12. CASE Finalize(t)
  <2>1. /\ job[t].pc = "final" /\ job'[t].pc = "ended"
        /\ \A v \in Tasks \ {t} : job'[v] = job[v] /\ fut'[v] = fut[v]
        /\ fut'[t] = "done" /\ ctl' = ctl \ {t}
        /\ event' = [event EXCEPT ![t] = IF @ = "armed" THEN "set" ELSE @]
        /\ UNCHANGED <<disk, flag, clients, control, history>>
    BY <1>12 DEF Finalize, Unregister, PopAndSet, NoJob
  <2>2. CASE u = t
    BY <2>1, <2>2
  <2>3. CASE u # t
    BY <2>1, <2>3
  <2> QED
    BY <2>2, <2>3
<1> QED
  BY <1>1, <1>2, <1>3, <1>4, <1>5, <1>6, <1>7, <1>8, <1>9, <1>10, <1>11, <1>12 DEF WorkerNext

\* The steps of a caller of wait() leave a quiet queue quiet.
LEMMA WaitNextQuiet ==
  ASSUME Quiet, IInv, QuietInv, NEW t \in Tasks, WaitNext(t), NEW u \in Tasks
  PROVE  QuietTask(u)'
<1> USE DEF IInv, TypeOK, Live, Terminal, Active, TaskInv, ProcessBound,
      Scheduled, OwnVerdict, DiskOK, JobOK, ControlOK, PoolOK,
      ClientsOK, RegistryOK, Job, Shut, disk, registry, pool, clients, control,
      history, Absent, Quiet, QuietInv, QuietTask, Undisturbed,
      Kept, Position, Told, HistoryOK, Status, WorkerPc
<1>1. CASE WaitWake(t)
  BY <1>1 DEF WaitWake
<1>2. CASE WaitPoll(t)
  BY <1>2 DEF WaitPoll
<1> QED
  BY <1>1, <1>2 DEF WaitNext

\* The steps of shutdown() leave a quiet queue quiet.
LEMMA ShutdownNextQuiet ==
  ASSUME Quiet, IInv, QuietInv, ShutdownNext, NEW u \in Tasks
  PROVE  QuietTask(u)'
<1> USE DEF IInv, TypeOK, Live, Terminal, Active, TaskInv, ProcessBound,
      Scheduled, OwnVerdict, DiskOK, JobOK, ControlOK, PoolOK,
      ClientsOK, RegistryOK, Job, Shut, disk, registry, pool, clients, control,
      history, Absent, Quiet, QuietInv, QuietTask, Undisturbed,
      Kept, Position, Told, HistoryOK, Status, WorkerPc
<1>1. CASE ShutdownAbandon
  BY <1>1 DEF ShutdownAbandon
<1>2. CASE ShutdownDrain
  BY <1>2 DEF ShutdownDrain
<1>3. CASE DrainJoined
  BY <1>3 DEF DrainJoined
<1>4. CASE InflightSnapshot
  BY <1>4 DEF InflightSnapshot
<1>5. CASE ShutdownDone
  BY <1>5 DEF ShutdownDone
<1>6. ASSUME NEW t \in Tasks, InflightSkip(t) PROVE QuietTask(u)'
  BY <1>6 DEF InflightSkip
<1>7. ASSUME NEW t \in Tasks, InflightSignal(t) PROVE QuietTask(u)'
  BY <1>7 DEF InflightSignal
<1>8. ASSUME NEW t \in Tasks, InflightWrite(t) PROVE QuietTask(u)'
  BY <1>8 DEF InflightWrite, Save
<1>9. ASSUME NEW t \in Tasks, InflightSettle(t) PROVE QuietTask(u)'
  BY <1>9 DEF InflightSettle, DecrementActive, PopAndSet, Emit
<1> QED
  BY <1>1, <1>2, <1>3, <1>4, <1>5, <1>6, <1>7, <1>8, <1>9 DEF ShutdownNext

\* A crash, a cleanup and the calls that clients choose to make leave a quiet queue quiet.
LEMMA EnvironmentQuiet ==
  ASSUME Quiet, IInv, QuietInv, Environment, NEW u \in Tasks
  PROVE  QuietTask(u)'
<1> USE DEF IInv, TypeOK, Live, Terminal, Active, TaskInv, ProcessBound,
      Scheduled, OwnVerdict, DiskOK, JobOK, ControlOK, PoolOK,
      ClientsOK, RegistryOK, Job, Shut, disk, registry, pool, clients, control,
      history, Absent, Quiet, QuietInv, QuietTask, Undisturbed,
      Kept, Position, Told, HistoryOK, Status, WorkerPc
<1>1. CASE Crash
  BY <1>1 DEF Crash, NoShut, NoJob
<1>2. CASE CleanupTerminal
  BY <1>2 DEF CleanupTerminal, Cleanup
<1>3. CASE CleanupAll
  BY <1>3 DEF CleanupAll, Cleanup
<1>4. CASE DrainTimedOut
  BY <1>4 DEF DrainTimedOut
<1>5. ASSUME NEW m \in ShutdownModes, ShutdownBegin(m) PROVE QuietTask(u)'
  BY <1>5 DEF ShutdownBegin, NoShut
<1>6. ASSUME NEW t \in Tasks, SubmitSave(t) PROVE QuietTask(u)'
  BY <1>6 DEF SubmitSave, Save
<1>7. ASSUME NEW t \in Tasks, CancelLoad(t) PROVE QuietTask(u)'
  BY <1>7 DEF CancelLoad
<1>8. ASSUME NEW t \in Tasks, WaitBegin(t) PROVE QuietTask(u)'
  BY <1>8 DEF WaitBegin
<1>9. ASSUME NEW t \in Tasks, WorkerRaises(t) PROVE QuietTask(u)'
  BY <1>9 DEF WorkerRaises, Goto, Fault
<1> QED
  BY <1>1, <1>2, <1>3, <1>4, <1>5, <1>6, <1>7, <1>8, <1>9 DEF Environment

\* The steps of start() count exactly the work there is.
LEMMA StartNextExact ==
  ASSUME Quiet, IInv, QuietInv, StartNext
  PROVE  ExactStep
<1> USE DEF IInv, TypeOK, Live, Terminal, Active, TaskInv, ProcessBound,
      Scheduled, OwnVerdict, DiskOK, JobOK, ControlOK, PoolOK,
      ClientsOK, RegistryOK, Job, Shut, disk, registry, pool, clients, control,
      history, Absent, Quiet, QuietInv, QuietTask, Undisturbed,
      Kept, HistoryOK, Status, WorkerPc, ExactStep, Work, Leftover
<1>1. CASE Start
  BY <1>1 DEF Start, StartWith, Interrupted
<1>2. CASE StartDone
  BY <1>2 DEF StartDone
<1>3. ASSUME NEW t \in Tasks, RecoverResume(t) PROVE ExactStep
  BY <1>3 DEF RecoverResume, Requeue, NextOrphan, Register
<1>4. ASSUME NEW t \in Tasks, RecoverFail(t) PROVE ExactStep
  BY <1>4, SMTT(20) DEF RecoverFail, GiveUpOrphan, NextOrphan, Save, DecrementActive
<1> HIDE DEF ExactStep
<1> QED
  BY <1>1, <1>2, <1>3, <1>4 DEF StartNext

\* The steps of submit() count exactly the work there is.
LEMMA SubmitNextExact ==
  ASSUME Quiet, IInv, QuietInv, NEW t \in Tasks, SubmitNext(t)
  PROVE  ExactStep
<1> USE DEF IInv, TypeOK, Live, Terminal, Active, TaskInv, ProcessBound,
      Scheduled, OwnVerdict, DiskOK, JobOK, ControlOK, PoolOK,
      ClientsOK, RegistryOK, Job, Shut, disk, registry, pool, clients, control,
      history, Absent, Quiet, QuietInv, QuietTask, Undisturbed,
      Kept, HistoryOK, Status, WorkerPc, ExactStep, Work, Leftover
<1>1. CASE SubmitRegister(t)
  BY <1>1 DEF SubmitRegister, Register
<1>2. CASE EnqueueSchedule(t)
  BY <1>2 DEF EnqueueSchedule
<1>3. CASE EnqueueRaises(t)
  BY <1>3 DEF EnqueueRaises
<1>4. CASE EnqueuePublish(t)
  BY <1>4 DEF EnqueuePublish
<1> HIDE DEF ExactStep
<1> QED
  BY <1>1, <1>2, <1>3, <1>4 DEF SubmitNext

\* The steps of cancel() count exactly the work there is.
LEMMA CancelNextExact ==
  ASSUME Quiet, IInv, QuietInv, NEW t \in Tasks, CancelNext(t)
  PROVE  ExactStep
<1> USE DEF IInv, TypeOK, Live, Terminal, Active, TaskInv, ProcessBound,
      Scheduled, OwnVerdict, DiskOK, JobOK, ControlOK, PoolOK,
      ClientsOK, RegistryOK, Job, Shut, disk, registry, pool, clients, control,
      history, Absent, Quiet, QuietInv, QuietTask, Undisturbed,
      Kept, HistoryOK, Status, WorkerPc, ExactStep, Work, Leftover
<1>1. CASE CancelSignal(t)
  BY <1>1 DEF CancelSignal
<1>2. CASE CancelNoController(t)
  BY <1>2 DEF CancelNoController
<1>3. CASE CancelWrite(t)
  BY <1>3 DEF CancelWrite, Save
<1>4. CASE CancelSettle(t)
  BY <1>4 DEF CancelSettle, DecrementActive, PopAndSet, Emit
<1> HIDE DEF ExactStep
<1> QED
  BY <1>1, <1>2, <1>3, <1>4 DEF CancelNext

\* The steps of the pipeline a worker runs count exactly the work there is.
LEMMA PipelineNextExact ==
  ASSUME Quiet, IInv, QuietInv, NEW t \in Tasks, PipelineNext(t)
  PROVE  ExactStep
<1> USE DEF IInv, TypeOK, Live, Terminal, Active, TaskInv, ProcessBound,
      Scheduled, OwnVerdict, DiskOK, JobOK, ControlOK, PoolOK,
      ClientsOK, RegistryOK, Job, Shut, disk, registry, pool, clients, control,
      history, Absent, Quiet, QuietInv, QuietTask, Undisturbed,
      Kept, HistoryOK, Status, WorkerPc, ExactStep, Work, Leftover
<1>1. CASE RunStep(t)
  BY <1>1 DEF RunStep, Checkpoint, Fault
<1>2. CASE StepCancelled(t)
  BY <1>2 DEF StepCancelled, Outcome
<1>3. CASE PipelineDone(t)
  BY <1>3 DEF PipelineDone, Outcome
<1>4. ASSUME NEW k \in {"retryable", "fatal"}, StepRaises(t, k) PROVE ExactStep
  BY <1>4 DEF StepRaises, Outcome
<1>5. CASE Preflight(t)
  BY <1>5 DEF Preflight, Checkpoint, Goto, Fault
<1>6. CASE PreflightRaises(t)
  BY <1>6 DEF PreflightRaises, Outcome
<1>7. CASE ResumeDone(t)
  BY <1>7 DEF ResumeDone, Goto
<1> HIDE DEF ExactStep
<1> QED
  BY <1>1, <1>2, <1>3, <1>4, <1>5, <1>6, <1>7 DEF PipelineNext

\* The steps of the worker thread count exactly the work there is.
LEMMA WorkerNextExact ==
  ASSUME Quiet, IInv, QuietInv, NEW t \in Tasks, WorkerNext(t)
  PROVE  ExactStep
<1> USE DEF IInv, TypeOK, Live, Terminal, Active, TaskInv, ProcessBound,
      Scheduled, OwnVerdict, DiskOK, JobOK, ControlOK, PoolOK,
      ClientsOK, RegistryOK, Job, Shut, disk, registry, pool, clients, control,
      history, Absent, Quiet, QuietInv, QuietTask, Undisturbed,
      Kept, HistoryOK, Status, WorkerPc, ExactStep, Work, Leftover
<1>1. CASE PipelineNext(t)
  BY <1>1, PipelineNextExact
<1>2. CASE WorkerPick(t)
  BY <1>2 DEF WorkerPick, NoJob
<1>3. CASE BeginAttempt(t)
  BY <1>3 DEF BeginAttempt, AttemptFrom, Save
<1>4. CASE ReportOutcome(t)
  BY <1>4 DEF ReportOutcome, Report, Save, Goto
<1>5. CASE DeleteCheckpoint(t)
  BY <1>5 DEF DeleteCheckpoint, Goto, Fault
<1>6. CASE RouteToDeadLetter(t)
  BY <1>6 DEF RouteToDeadLetter, Goto, Fault
<1>7. CASE BackoffCancelled(t)
  BY <1>7 DEF BackoffCancelled
<1>8. CASE BackoffElapsed(t)
  BY <1>8 DEF BackoffElapsed, RetryAs
<1>9. CASE Conclude(t)
  BY <1>9, SMTT(20) DEF Conclude, Save, Goto
<1>10. CASE Notify(t)
  BY <1>10, SMTT(20) DEF Notify, Save, Emit, Goto
<1>11. CASE HandleError(t)
  BY <1>11 DEF HandleError, Save, Emit, Goto, Fault
<1>12. CASE Finalize(t)
  BY <1>12 DEF Finalize, Unregister, DecrementActive, PopAndSet, NoJob
<1> HIDE DEF ExactStep
<1> QED
  BY <1>1, <1>2, <1>3, <1>4, <1>5, <1>6, <1>7, <1>8, <1>9, <1>10, <1>11, <1>12 DEF WorkerNext

\* The steps of a caller of wait() count exactly the work there is.
LEMMA WaitNextExact ==
  ASSUME Quiet, IInv, QuietInv, NEW t \in Tasks, WaitNext(t)
  PROVE  ExactStep
<1> USE DEF IInv, TypeOK, Live, Terminal, Active, TaskInv, ProcessBound,
      Scheduled, OwnVerdict, DiskOK, JobOK, ControlOK, PoolOK,
      ClientsOK, RegistryOK, Job, Shut, disk, registry, pool, clients, control,
      history, Absent, Quiet, QuietInv, QuietTask, Undisturbed,
      Kept, HistoryOK, Status, WorkerPc, ExactStep, Work, Leftover
<1>1. CASE WaitWake(t)
  BY <1>1 DEF WaitWake
<1>2. CASE WaitPoll(t)
  BY <1>2 DEF WaitPoll
<1> HIDE DEF ExactStep
<1> QED
  BY <1>1, <1>2 DEF WaitNext

\* The steps of shutdown() count exactly the work there is.
LEMMA ShutdownNextExact ==
  ASSUME Quiet, IInv, QuietInv, ShutdownNext
  PROVE  ExactStep
<1> USE DEF IInv, TypeOK, Live, Terminal, Active, TaskInv, ProcessBound,
      Scheduled, OwnVerdict, DiskOK, JobOK, ControlOK, PoolOK,
      ClientsOK, RegistryOK, Job, Shut, disk, registry, pool, clients, control,
      history, Absent, Quiet, QuietInv, QuietTask, Undisturbed,
      Kept, HistoryOK, Status, WorkerPc, ExactStep, Work, Leftover
<1>1. CASE ShutdownAbandon
  BY <1>1 DEF ShutdownAbandon
<1>2. CASE ShutdownDrain
  BY <1>2 DEF ShutdownDrain
<1>3. CASE DrainJoined
  BY <1>3 DEF DrainJoined
<1>4. CASE InflightSnapshot
  BY <1>4 DEF InflightSnapshot
<1>5. CASE ShutdownDone
  BY <1>5 DEF ShutdownDone
<1>6. ASSUME NEW t \in Tasks, InflightSkip(t) PROVE ExactStep
  BY <1>6 DEF InflightSkip
<1>7. ASSUME NEW t \in Tasks, InflightSignal(t) PROVE ExactStep
  BY <1>7 DEF InflightSignal
<1>8. ASSUME NEW t \in Tasks, InflightWrite(t) PROVE ExactStep
  BY <1>8 DEF InflightWrite, Save
<1>9. ASSUME NEW t \in Tasks, InflightSettle(t) PROVE ExactStep
  BY <1>9 DEF InflightSettle, DecrementActive, PopAndSet, Emit
<1> HIDE DEF ExactStep
<1> QED
  BY <1>1, <1>2, <1>3, <1>4, <1>5, <1>6, <1>7, <1>8, <1>9 DEF ShutdownNext

\* A crash, a cleanup and the calls that clients choose to make count exactly the work there is.
LEMMA EnvironmentExact ==
  ASSUME Quiet, IInv, QuietInv, Environment
  PROVE  ExactStep
<1> USE DEF IInv, TypeOK, Live, Terminal, Active, TaskInv, ProcessBound,
      Scheduled, OwnVerdict, DiskOK, JobOK, ControlOK, PoolOK,
      ClientsOK, RegistryOK, Job, Shut, disk, registry, pool, clients, control,
      history, Absent, Quiet, QuietInv, QuietTask, Undisturbed,
      Kept, HistoryOK, Status, WorkerPc, ExactStep, Work, Leftover
<1>1. CASE Crash
  BY <1>1 DEF Crash, NoShut, NoJob
<1>2. CASE CleanupTerminal
  BY <1>2 DEF CleanupTerminal, Cleanup
<1>3. CASE CleanupAll
  BY <1>3 DEF CleanupAll, Cleanup
<1>4. CASE DrainTimedOut
  BY <1>4 DEF DrainTimedOut
<1>5. ASSUME NEW m \in ShutdownModes, ShutdownBegin(m) PROVE ExactStep
  BY <1>5 DEF ShutdownBegin, NoShut
<1>6. ASSUME NEW t \in Tasks, SubmitSave(t) PROVE ExactStep
  BY <1>6 DEF SubmitSave, Save
<1>7. ASSUME NEW t \in Tasks, CancelLoad(t) PROVE ExactStep
  BY <1>7 DEF CancelLoad
<1>8. ASSUME NEW t \in Tasks, WaitBegin(t) PROVE ExactStep
  BY <1>8 DEF WaitBegin
<1>9. ASSUME NEW t \in Tasks, WorkerRaises(t) PROVE ExactStep
  BY <1>9 DEF WorkerRaises, Goto, Fault
<1> HIDE DEF ExactStep
<1> QED
  BY <1>1, <1>2, <1>3, <1>4, <1>5, <1>6, <1>7, <1>8, <1>9 DEF Environment

\* The steps of start() move every task along its life.
LEMMA StartNextStages ==
  ASSUME Quiet, IInv, QuietInv, StartNext
  PROVE  StageStep
<1> USE DEF IInv, TypeOK, Live, Terminal, Active, TaskInv, ProcessBound,
      Scheduled, OwnVerdict, DiskOK, JobOK, ControlOK, PoolOK,
      ClientsOK, RegistryOK, Job, Shut, disk, registry, pool, clients, control,
      history, Absent, Quiet, QuietInv, QuietTask, Undisturbed,
      Kept, Position, HistoryOK, Status, WorkerPc,
      StageStep, Stage, Settles, Advances, Undecided
<1>1. CASE Start
  BY <1>1 DEF Start, StartWith, Interrupted
<1>2. CASE StartDone
  BY <1>2 DEF StartDone
<1>3. ASSUME NEW t \in Tasks, RecoverResume(t) PROVE StageStep
  BY <1>3 DEF RecoverResume, Requeue, NextOrphan, Register
<1>4. ASSUME NEW t \in Tasks, RecoverFail(t) PROVE StageStep
  BY <1>4, SMTT(20) DEF RecoverFail, GiveUpOrphan, NextOrphan, Save, DecrementActive
<1> HIDE DEF StageStep
<1> QED
  BY <1>1, <1>2, <1>3, <1>4 DEF StartNext

\* The steps of submit() move every task along its life.
LEMMA SubmitNextStages ==
  ASSUME Quiet, IInv, QuietInv, NEW t \in Tasks, SubmitNext(t)
  PROVE  StageStep
<1> USE DEF IInv, TypeOK, Live, Terminal, Active, TaskInv, ProcessBound,
      Scheduled, OwnVerdict, DiskOK, JobOK, ControlOK, PoolOK,
      ClientsOK, RegistryOK, Job, Shut, disk, registry, pool, clients, control,
      history, Absent, Quiet, QuietInv, QuietTask, Undisturbed,
      Kept, Position, HistoryOK, Status, WorkerPc,
      StageStep, Stage, Settles, Advances, Undecided
<1>1. CASE SubmitRegister(t)
  BY <1>1 DEF SubmitRegister, Register
<1>2. CASE EnqueueSchedule(t)
  BY <1>2 DEF EnqueueSchedule
<1>3. CASE EnqueueRaises(t)
  BY <1>3 DEF EnqueueRaises
<1>4. CASE EnqueuePublish(t)
  BY <1>4 DEF EnqueuePublish
<1> HIDE DEF StageStep
<1> QED
  BY <1>1, <1>2, <1>3, <1>4 DEF SubmitNext

\* The steps of cancel() move every task along its life.
LEMMA CancelNextStages ==
  ASSUME Quiet, IInv, QuietInv, NEW t \in Tasks, CancelNext(t)
  PROVE  StageStep
<1> USE DEF IInv, TypeOK, Live, Terminal, Active, TaskInv, ProcessBound,
      Scheduled, OwnVerdict, DiskOK, JobOK, ControlOK, PoolOK,
      ClientsOK, RegistryOK, Job, Shut, disk, registry, pool, clients, control,
      history, Absent, Quiet, QuietInv, QuietTask, Undisturbed,
      Kept, Position, HistoryOK, Status, WorkerPc,
      StageStep, Stage, Settles, Advances, Undecided
<1>1. CASE CancelSignal(t)
  BY <1>1 DEF CancelSignal
<1>2. CASE CancelNoController(t)
  BY <1>2 DEF CancelNoController
<1>3. CASE CancelWrite(t)
  BY <1>3 DEF CancelWrite, Save
<1>4. CASE CancelSettle(t)
  BY <1>4 DEF CancelSettle, DecrementActive, PopAndSet, Emit
<1> HIDE DEF StageStep
<1> QED
  BY <1>1, <1>2, <1>3, <1>4 DEF CancelNext

\* A step that touches one task moves that task, or none.
LEMMA OneTaskMoves ==
  ASSUME NEW t \in Tasks, \A u \in Tasks \ {t} : Stage(u)' = Stage(u),
         Stage(t)' = Stage(t) \/ Settles(t) \/ Advances(t)
  PROVE  StageStep
<1>1. CASE Advances(t)
  BY <1>1 DEF StageStep
<1>2. CASE Stage(t)' = Stage(t) \/ Settles(t)
  <2>1. \A u \in Tasks : Stage(u)' = Stage(u) \/ Settles(u)
    BY <1>2
  <2> QED
    BY <2>1 DEF StageStep
<1> QED
  BY <1>1, <1>2

\* The types of the rows and of the workers, and what one task's say of each other.
LEMMA RowsAndWorkers ==
  ASSUME IInv, QuietInv, NEW t \in Tasks
  PROVE  /\ job \in [Tasks -> Job] /\ store \in [Tasks -> Status \cup {Absent}]
         /\ job[t].pc = "notify" => store[t] = job[t].stat
         /\ job[t].pc = "conclude" =>
              store[t] = job[t].stat \/ (store[t] = "FAILED" /\ job[t].stat = "DEAD")
         /\ job[t].pc = "deadletter" => store[t] = "FAILED"
BY DEF IInv, TypeOK, JobOK, DiskOK, QuietInv, QuietTask, Position

\* Where a task stands is what its row says, unless its worker is at one of these points.
Deciding == {"attempt", "backoff", "deadletter", "conclude"}

\* A step of one worker that keeps the row, between two other points, leaves the stages alone.
LEMMA RowDecides ==
  ASSUME NEW t \in Tasks, store' = store, \A u \in Tasks \ {t} : job'[u] = job[u],
         job[t].pc \notin Deciding, job'[t].pc \notin Deciding
  PROVE  StageStep
<1>1. \A u \in Tasks \ {t} : Stage(u)' = Stage(u)
  BY DEF Stage, Undecided
<1>2. Stage(t)' = Stage(t)
  BY DEF Stage, Undecided, Deciding
<1> QED
  BY <1>1, <1>2, OneTaskMoves

\* The steps of the pipeline a worker runs leave the stages alone.
LEMMA PipelineNextStages ==
  ASSUME IInv, QuietInv, NEW t \in Tasks, PipelineNext(t)
  PROVE  StageStep
<1>1. job \in [Tasks -> Job] /\ job[t] \in Job
  BY RowsAndWorkers
<1> DEFINE Along == /\ store' = store /\ job[t].pc \in {"build", "run"}
                    /\ job'[t].pc \in {"run", "report"}
                    /\ \A u \in Tasks \ {t} : job'[u] = job[u]
<1>2. ASSUME NEW s, NEW k, Outcome(t, s, k), job[t].pc \in {"build", "run"} PROVE Along
  <2>1. store' = store /\ \A u \in Tasks \ {t} : job'[u] = job[u]
    BY <1>1, <1>2 DEF Outcome, disk
  <2>2. job'[t].pc = "report"
    BY <1>1, <1>2 DEF Outcome, Job
  <2> QED
    BY <1>2, <2>1, <2>2
<1>3. ASSUME RunStep(t) PROVE Along
  <2>1. store' = store /\ job[t].pc = "run" /\ \A u \in Tasks \ {t} : job'[u] = job[u]
    BY <1>1, <1>3 DEF RunStep
  <2>2. job'[t].pc = "run"
    BY <1>1, <1>3, <2>1 DEF RunStep, Job
  <2> QED
    BY <2>1, <2>2
<1>4. ASSUME Preflight(t) \/ ResumeDone(t) PROVE Along
  <2>1. store' = store /\ job[t].pc = "build" /\ \A u \in Tasks \ {t} : job'[u] = job[u]
    BY <1>1, <1>4 DEF Preflight, ResumeDone, Goto, disk
  <2>2. job'[t].pc \in {"run", "report"}
    BY <1>1, <1>4 DEF Preflight, ResumeDone, Goto, Job
  <2> QED
    BY <2>1, <2>2
<1>5. ASSUME StepCancelled(t) \/ PipelineDone(t) \/ PreflightRaises(t) PROVE Along
  <2>1. CASE StepCancelled(t)
    BY <1>2, <2>1 DEF StepCancelled
  <2>2. CASE PipelineDone(t)
    BY <1>2, <2>2 DEF PipelineDone
  <2>3. CASE PreflightRaises(t)
    BY <1>2, <2>3 DEF PreflightRaises
  <2> QED
    BY <1>5, <2>1, <2>2, <2>3
<1>6. ASSUME NEW k \in {"retryable", "fatal"}, StepRaises(t, k) PROVE Along
  BY <1>2, <1>6 DEF StepRaises
<1> HIDE DEF Along
<1>7. Along
  BY <1>3, <1>4, <1>5, <1>6 DEF PipelineNext
<1> QED
  BY <1>7, RowDecides DEF Deciding, Along

\* A worker that takes a task changes nothing: its row still says waiting or working.
LEMMA WorkerPickStages ==
  ASSUME IInv, QuietInv, NEW t \in Tasks, WorkerPick(t)
  PROVE  StageStep
<1>1. /\ job \in [Tasks -> Job] /\ fut[t] = "queued"
      /\ \A u \in Tasks \ {t} : job'[u] = job[u]
  BY RowsAndWorkers DEF WorkerPick
<1>2. job[t].pc = "none" /\ store[t] \in Active
  BY <1>1 DEF IInv, TaskInv, Scheduled, QuietInv, QuietTask, Position
<1>3. store' = store /\ job'[t].pc = "attempt" /\ job'[t].att = 0
  BY <1>1, <1>2 DEF WorkerPick, NoJob, disk, Active, Absent
<1>4. \A u \in Tasks \ {t} : Stage(u)' = Stage(u)
  BY <1>1, <1>3 DEF Stage, Undecided
<1>5. Stage(t)' = Stage(t)
  BY <1>2, <1>3 DEF Stage, Undecided
<1> QED
  BY <1>4, <1>5, OneTaskMoves

\* The first attempt takes a task from waiting to working, if a crash has not done so before.
LEMMA BeginAttemptStages ==
  ASSUME IInv, QuietInv, NEW t \in Tasks, BeginAttempt(t)
  PROVE  StageStep
<1>1. /\ job \in [Tasks -> Job] /\ job[t] \in Job /\ store \in [Tasks -> Status \cup {Absent}]
      /\ job[t].pc = "attempt"
      /\ IF job[t].att = 0 THEN store[t] \in Active ELSE store[t] = "FAILED"
  BY RowsAndWorkers DEF BeginAttempt, AttemptFrom, QuietInv, QuietTask, Position
<1>2. /\ store'[t] \in {"RUNNING", "RETRYING"} /\ job'[t].pc = "build"
      /\ \A u \in Tasks \ {t} : job'[u] = job[u] /\ store'[u] = store[u]
  BY <1>1 DEF BeginAttempt, AttemptFrom, Save, Job
<1>3. \A u \in Tasks \ {t} : Stage(u)' = Stage(u)
  BY <1>2 DEF Stage, Undecided
<1>4. Stage(t)' = "working"
  BY <1>2 DEF Stage, Undecided, Absent
<1>5. job[t].att \in Nat
  BY <1>1, ConstantsAssumption DEF Job, ConstantsAssumption
<1>6. Stage(t) \in {"waiting", "working"}
  BY <1>1, <1>5 DEF Stage, Undecided, Active, Absent
<1> QED
  BY <1>3, <1>4, <1>6, OneTaskMoves DEF Advances

\* A report settles the task or leaves it with the worker, who owes it more.
LEMMA ReportStages ==
  ASSUME IInv, QuietInv, NEW t \in Tasks, ReportOutcome(t)
  PROVE  StageStep
<1>1. /\ job \in [Tasks -> Job] /\ job[t] \in Job /\ store \in [Tasks -> Status \cup {Absent}]
      /\ job[t].pc = "report" /\ job[t].stat \in Terminal
      /\ store[t] \in {"RUNNING", "RETRYING"}
  BY RowsAndWorkers DEF ReportOutcome, Report, QuietInv, QuietTask, Position, IInv, TypeOK, JobOK
<1>2. /\ store'[t] = job[t].stat
      /\ \A u \in Tasks \ {t} : job'[u] = job[u] /\ store'[u] = store[u]
  BY <1>1 DEF ReportOutcome, Report, Save, Goto
<1>3. \A u \in Tasks \ {t} : Stage(u)' = Stage(u)
  BY <1>2 DEF Stage, Undecided
<1>4. Stage(t) = "working"
  BY <1>1 DEF Stage, Undecided, Absent
<1>5. Stage(t)' \in Terminal \cup {"working"}
  BY <1>1, <1>2 DEF Stage, Terminal, Absent
<1> QED
  BY <1>3, <1>4, <1>5, OneTaskMoves DEF Settles

\* The checkpoint of a completed task is deleted when its verdict stands.
LEMMA DeleteCheckpointStages ==
  ASSUME IInv, QuietInv, NEW t \in Tasks, DeleteCheckpoint(t)
  PROVE  StageStep
<1>1. /\ job \in [Tasks -> Job] /\ job[t] \in Job
      /\ job[t].pc = "complete" /\ store[t] = job[t].stat
  BY RowsAndWorkers DEF DeleteCheckpoint, QuietInv, QuietTask, Position
<1>2. /\ store' = store /\ job'[t].pc = "conclude" /\ job'[t].stat = job[t].stat
      /\ \A u \in Tasks \ {t} : job'[u] = job[u]
  BY <1>1 DEF DeleteCheckpoint, Goto, Job
<1>3. \A u \in Tasks \ {t} : Stage(u)' = Stage(u)
  BY <1>2 DEF Stage, Undecided
<1>4. Stage(t)' = Stage(t)
  BY <1>1, <1>2 DEF Stage, Undecided
<1> QED
  BY <1>3, <1>4, OneTaskMoves

\* A task on its way to the dead letters stays decided as failed, or is still worked on.
LEMMA RouteStages ==
  ASSUME IInv, QuietInv, NEW t \in Tasks, RouteToDeadLetter(t)
  PROVE  StageStep
<1>1. job \in [Tasks -> Job] /\ job[t] \in Job /\ job[t].pc = "deadletter" /\ store[t] = "FAILED"
  BY RowsAndWorkers DEF RouteToDeadLetter
<1>2. store' = store /\ \E j : job' = [job EXCEPT ![t] = j]
  <2>1. CASE job' = [job EXCEPT ![t] = [@ EXCEPT !.pc = "conclude", !.stat = "DEAD"]]
    BY <2>1 DEF RouteToDeadLetter
  <2>2. CASE Goto(t, "conclude")
    BY <2>2 DEF RouteToDeadLetter, Goto
  <2> QED
    BY <2>1, <2>2 DEF RouteToDeadLetter
<1>3. \A u \in Tasks \ {t} : job'[u] = job[u]
  BY <1>1, <1>2
<1>4. \A u \in Tasks \ {t} : Stage(u)' = Stage(u)
  BY <1>2, <1>3 DEF Stage, Undecided
<1>5. Stage(t) = "working" /\ Stage(t)' \in {"working", "FAILED"}
  BY <1>1, <1>2 DEF Stage, Undecided, Absent
<1> QED
  BY <1>4, <1>5, OneTaskMoves DEF Settles, Terminal

\* The next attempt goes on with the work.
LEMMA BackoffStages ==
  ASSUME IInv, QuietInv, NEW t \in Tasks, BackoffElapsed(t)
  PROVE  StageStep
<1>1. job \in [Tasks -> Job] /\ job[t] \in Job /\ job[t].pc = "backoff"
  BY RowsAndWorkers DEF BackoffElapsed, RetryAs
<1>2. job[t].att \in Nat
  BY <1>1, ConstantsAssumption DEF Job, ConstantsAssumption
<1>3. /\ store' = store /\ job'[t].pc = "attempt" /\ job'[t].att = job[t].att + 1
      /\ \A u \in Tasks \ {t} : job'[u] = job[u]
  BY <1>1 DEF BackoffElapsed, RetryAs, disk, Job
<1>4. \A u \in Tasks \ {t} : Stage(u)' = Stage(u)
  BY <1>3 DEF Stage, Undecided
<1>5. Stage(t) = "working" /\ Stage(t)' = "working"
  BY <1>1, <1>2, <1>3 DEF Stage, Undecided
<1> QED
  BY <1>4, <1>5, OneTaskMoves

\* The last save settles what was still worked on.
LEMMA ConcludeStages ==
  ASSUME IInv, QuietInv, NEW t \in Tasks, Conclude(t)
  PROVE  StageStep
<1>1. /\ job \in [Tasks -> Job] /\ store \in [Tasks -> Status \cup {Absent}]
      /\ job[t].pc = "conclude" /\ job[t].stat \in Terminal
      /\ store[t] = job[t].stat \/ (store[t] = "FAILED" /\ job[t].stat = "DEAD")
  BY RowsAndWorkers DEF Conclude, IInv, TypeOK, JobOK
<1>2. /\ job'[t].pc = "notify" /\ store'[t] = job[t].stat
      /\ \A u \in Tasks \ {t} : job'[u] = job[u] /\ store'[u] = store[u]
  BY <1>1 DEF Conclude, Goto, Save, Job
<1>3. \A u \in Tasks \ {t} : Stage(u)' = Stage(u)
  BY <1>2 DEF Stage, Undecided
<1>4. Stage(t)' = job[t].stat
  BY <1>1, <1>2 DEF Stage, Undecided, Terminal, Absent
<1>5. CASE store[t] = job[t].stat
  <2>1. Stage(t) = job[t].stat
    BY <1>1, <1>5 DEF Stage, Undecided, Terminal, Absent
  <2> QED
    BY <2>1, <1>3, <1>4, OneTaskMoves
<1>6. CASE store[t] # job[t].stat
  <2>1. Stage(t) = "working"
    BY <1>1, <1>6 DEF Stage, Undecided
  <2> QED
    BY <2>1, <1>1, <1>3, <1>4, OneTaskMoves DEF Settles
<1> QED
  BY <1>5, <1>6

\* An announcement and the end of the worker thread move nothing.
LEMMA NotifyStages ==
  ASSUME IInv, QuietInv, NEW t \in Tasks, Notify(t) \/ Finalize(t)
  PROVE  StageStep
<1>1. job \in [Tasks -> Job] /\ job[t] \in Job /\ store \in [Tasks -> Status \cup {Absent}]
  BY RowsAndWorkers
<1>2. CASE Notify(t)
  <2>1. job[t].pc = "notify" /\ store' = [store EXCEPT ![t] = store[t]]
        /\ job' = [job EXCEPT ![t].pc = "final"]
    BY <1>2, RowsAndWorkers DEF Notify, Goto, Save
  <2>2. store' = store /\ job'[t].pc = "final" /\ \A u \in Tasks \ {t} : job'[u] = job[u]
    BY <1>1, <2>1 DEF Job
  <2> QED
    BY <2>1, <2>2, RowDecides DEF Deciding
<1>3. CASE Finalize(t)
  <2>1. /\ job[t].pc = "final" /\ store' = store /\ job'[t].pc = "ended"
        /\ \A u \in Tasks \ {t} : job'[u] = job[u]
    BY <1>1, <1>3 DEF Finalize, Unregister, NoJob, disk
  <2> QED
    BY <2>1, RowDecides DEF Deciding
<1> QED
  BY <1>2, <1>3

\* The steps of the worker thread move every task along its life.
LEMMA WorkerNextStages ==
  ASSUME Quiet, IInv, QuietInv, NEW t \in Tasks, WorkerNext(t)
  PROVE  StageStep
<1>1. t \notin flag /\ job[t].pc # "error"
  BY DEF QuietInv, QuietTask, Undisturbed
<1>2. ~BackoffCancelled(t) /\ ~HandleError(t)
  BY <1>1 DEF BackoffCancelled, HandleError
<1> QED
  BY <1>2, PipelineNextStages, WorkerPickStages, BeginAttemptStages, ReportStages,
     DeleteCheckpointStages, RouteStages, BackoffStages, ConcludeStages, NotifyStages
     DEF WorkerNext

\* The steps of a caller of wait() move every task along its life.
LEMMA WaitNextStages ==
  ASSUME Quiet, IInv, QuietInv, NEW t \in Tasks, WaitNext(t)
  PROVE  StageStep
<1> USE DEF IInv, TypeOK, Live, Terminal, Active, TaskInv, ProcessBound,
      Scheduled, OwnVerdict, DiskOK, JobOK, ControlOK, PoolOK,
      ClientsOK, RegistryOK, Job, Shut, disk, registry, pool, clients, control,
      history, Absent, Quiet, QuietInv, QuietTask, Undisturbed,
      Kept, Position, HistoryOK, Status, WorkerPc,
      StageStep, Stage, Settles, Advances, Undecided
<1>1. CASE WaitWake(t)
  BY <1>1 DEF WaitWake
<1>2. CASE WaitPoll(t)
  BY <1>2 DEF WaitPoll
<1> HIDE DEF StageStep
<1> QED
  BY <1>1, <1>2 DEF WaitNext

\* The steps of shutdown() move every task along its life.
LEMMA ShutdownNextStages ==
  ASSUME Quiet, IInv, QuietInv, ShutdownNext
  PROVE  StageStep
<1> USE DEF IInv, TypeOK, Live, Terminal, Active, TaskInv, ProcessBound,
      Scheduled, OwnVerdict, DiskOK, JobOK, ControlOK, PoolOK,
      ClientsOK, RegistryOK, Job, Shut, disk, registry, pool, clients, control,
      history, Absent, Quiet, QuietInv, QuietTask, Undisturbed,
      Kept, Position, HistoryOK, Status, WorkerPc,
      StageStep, Stage, Settles, Advances, Undecided
<1>1. CASE ShutdownAbandon
  BY <1>1 DEF ShutdownAbandon
<1>2. CASE ShutdownDrain
  BY <1>2 DEF ShutdownDrain
<1>3. CASE DrainJoined
  BY <1>3 DEF DrainJoined
<1>4. CASE InflightSnapshot
  BY <1>4 DEF InflightSnapshot
<1>5. CASE ShutdownDone
  BY <1>5 DEF ShutdownDone
<1>6. ASSUME NEW t \in Tasks, InflightSkip(t) PROVE StageStep
  BY <1>6 DEF InflightSkip
<1>7. ASSUME NEW t \in Tasks, InflightSignal(t) PROVE StageStep
  BY <1>7 DEF InflightSignal
<1>8. ASSUME NEW t \in Tasks, InflightWrite(t) PROVE StageStep
  BY <1>8 DEF InflightWrite, Save
<1>9. ASSUME NEW t \in Tasks, InflightSettle(t) PROVE StageStep
  BY <1>9 DEF InflightSettle, DecrementActive, PopAndSet, Emit
<1> HIDE DEF StageStep
<1> QED
  BY <1>1, <1>2, <1>3, <1>4, <1>5, <1>6, <1>7, <1>8, <1>9 DEF ShutdownNext

\* Nothing fails and nobody cleans up.
LEMMA NothingFails ==
  ASSUME Quiet, IInv PROVE ~Fault /\ \A S : ~Cleanup(S)
BY DEF Quiet, IInv, TypeOK, HistoryOK, Fault, Cleanup

\* A submission takes an unknown task to waiting.
LEMMA SubmitSaveStages ==
  ASSUME IInv, QuietInv, NEW t \in Tasks, SubmitSave(t)
  PROVE  StageStep
<1>1. /\ job \in [Tasks -> Job] /\ store \in [Tasks -> Status \cup {Absent}]
      /\ store[t] = Absent /\ fut[t] = "none"
  BY RowsAndWorkers DEF SubmitSave, QuietInv, QuietTask, Kept, IInv, TaskInv, Scheduled, TypeOK,
     PoolOK
<1>2. job[t].pc = "none"
  BY <1>1 DEF IInv, TaskInv, Scheduled
<1>3. job' = job /\ store'[t] = "PENDING" /\ \A u \in Tasks \ {t} : store'[u] = store[u]
  BY <1>1 DEF SubmitSave, Save
<1>4. \A u \in Tasks \ {t} : Stage(u)' = Stage(u)
  BY <1>3 DEF Stage, Undecided
<1>5. Stage(t) = "unknown" /\ Stage(t)' = "waiting"
  BY <1>1, <1>2, <1>3 DEF Stage, Undecided, Absent
<1> QED
  BY <1>4, <1>5, OneTaskMoves DEF Advances

\* A crash, a cleanup and the calls that clients choose to make move every task along its life.
LEMMA EnvironmentStages ==
  ASSUME Quiet, IInv, QuietInv, Environment
  PROVE  StageStep
<1> USE DEF IInv, TypeOK, Live, Terminal, Active, TaskInv, ProcessBound,
      Scheduled, OwnVerdict, DiskOK, JobOK, ControlOK, PoolOK,
      ClientsOK, RegistryOK, Job, Shut, disk, registry, pool, clients, control,
      history, Absent, Quiet, QuietInv, QuietTask, Undisturbed,
      Kept, Position, HistoryOK, Status, WorkerPc,
      StageStep, Stage, Settles, Advances, Undecided
<1>1. CASE Crash
  BY <1>1 DEF Crash, NoShut, NoJob
<1>2. CASE CleanupTerminal
  BY <1>2, NothingFails DEF CleanupTerminal
<1>3. CASE CleanupAll
  BY <1>3, NothingFails DEF CleanupAll
<1>4. CASE DrainTimedOut
  BY <1>4 DEF DrainTimedOut
<1>5. ASSUME NEW m \in ShutdownModes, ShutdownBegin(m) PROVE StageStep
  BY <1>5 DEF ShutdownBegin, NoShut
<1>6. ASSUME NEW t \in Tasks, SubmitSave(t) PROVE StageStep
  BY <1>6, SubmitSaveStages
<1>7. ASSUME NEW t \in Tasks, CancelLoad(t) PROVE StageStep
  BY <1>7 DEF CancelLoad
<1>8. ASSUME NEW t \in Tasks, WaitBegin(t) PROVE StageStep
  BY <1>8 DEF WaitBegin
<1>9. ASSUME NEW t \in Tasks, WorkerRaises(t) PROVE StageStep
  BY <1>9, NothingFails DEF WorkerRaises
<1> HIDE DEF StageStep
<1> QED
  BY <1>1, <1>2, <1>3, <1>4, <1>5, <1>6, <1>7, <1>8, <1>9 DEF Environment

-----------------------------------------------------------------------------
\* What holds of a queue that nobody disturbs

\* The count stays exact through every step that ExactStep describes.
LEMMA ExactStepCounts ==
  ASSUME TypeOK, CountExact, ExactStep
  PROVE  CountExact'
<1> DEFINE found == {t \in Tasks : store[t] \in Active}
<1>1. Work \in SUBSET Tasks /\ active \in Nat
  BY DEF TypeOK, RegistryOK, ControlOK, Work, Leftover
<1>2. IsFiniteSet(Work) /\ Cardinality(Work) \in Nat
  BY <1>1, CountType, ConstantsAssumption, FS_Subset DEF ConstantsAssumption
<1> SUFFICES ASSUME phase' # "dead" PROVE active' = Cardinality(Work')
  BY DEF CountExact
<1>3. CASE phase # "dead" /\ active' = active /\ Work' = Work
  BY <1>3 DEF CountExact
<1>4. ASSUME phase # "dead", DecrementActive, NEW t \in Work, Work' = Work \ {t}
      PROVE  active' = Cardinality(Work')
  <2>1. Cardinality(Work') = Cardinality(Work) - 1
    BY <1>2, <1>4, FS_RemoveElement
  <2>2. Cardinality(Work') \in Nat
    BY <1>1, <1>4, CountType
  <2> QED
    BY <1>2, <1>4, <2>1, <2>2 DEF CountExact, DecrementActive
<1>5. ASSUME phase # "dead", active' = active + 1, NEW t \in Tasks \ Work,
             Work' = Work \cup {t}
      PROVE  active' = Cardinality(Work')
  BY <1>2, <1>5, FS_AddElement DEF CountExact
<1>6. CASE active' = Cardinality(found) /\ Work' = found
  BY <1>6
<1> QED
  BY <1>3, <1>4, <1>5, <1>6 DEF ExactStep

\* Nothing disturbs a queue that is left alone.
THEOREM QuietInductive == ASSUME Quiet PROVE Spec => []QuietInv
<1>1. Init => QuietInv
  BY DEF Init, NoJob, NoShut, Absent, QuietInv, CountExact, QuietTask, Undisturbed, Kept,
     Position, Told
<1>2. ASSUME IInv, QuietInv, [Next]_vars PROVE QuietInv'
  <2>1. CASE Next
    <3>1. ExactStep
      BY <1>2, <2>1, StartNextExact, SubmitNextExact, CancelNextExact, WorkerNextExact,
         WaitNextExact, ShutdownNextExact, EnvironmentExact DEF Next
    <3>2. ASSUME NEW u \in Tasks PROVE QuietTask(u)'
      BY <1>2, <2>1, StartNextQuiet, SubmitNextQuiet, CancelNextQuiet, WorkerNextQuiet,
         WaitNextQuiet, ShutdownNextQuiet, EnvironmentQuiet DEF Next
    <3> QED
      BY <1>2, <3>1, <3>2, ExactStepCounts DEF QuietInv, IInv
  <2>2. CASE UNCHANGED vars
    <3>1. CountExact'
      BY <1>2, <2>2 DEF QuietInv, CountExact, Work, Leftover, vars, disk, registry,
         clients, control
    <3>2. ASSUME NEW u \in Tasks PROVE QuietTask(u)'
      BY <1>2, <2>2 DEF QuietInv, QuietTask, Undisturbed, Kept, Position, Told, vars,
         disk, registry, pool, clients, control, history
    <3> QED
      BY <3>1, <3>2 DEF QuietInv
  <2> QED
    BY <1>2, <2>1, <2>2
<1> QED
  BY <1>1, <1>2, Inductive, PTL DEF Spec

\* active_count is the number of registered and leftover tasks, after any number
\* of crashes and restarts.
THEOREM CountIsExact == ASSUME Quiet PROVE Spec => []ActiveCountExact
<1>1. ASSUME IInv, QuietInv PROVE ActiveCountExact
  <2> SUFFICES ASSUME phase = "up" PROVE active = Cardinality(ctl \cup Leftover)
    BY DEF ActiveCountExact
  <2>1. orphans = {}
    BY <1>1 DEF IInv, TypeOK, ControlOK, TaskInv, ProcessBound
  <2>2. Work = ctl \cup Leftover
    BY <2>1 DEF Work
  <2> QED
    BY <1>1, <2>2 DEF QuietInv, CountExact
<1> QED
  BY <1>1, Inductive, QuietInductive, PTL

\* The event that wait() blocks on is set when the outcome is on disk for good.
THEOREM SignalsAreFinal == ASSUME Quiet PROVE Spec => []SignalledIsFinal
<1>1. QuietInv => SignalledIsFinal
  BY DEF QuietInv, QuietTask, Told, Position, SignalledIsFinal
<1> QED
  BY <1>1, QuietInductive, PTL

\* A webhook consumer hears of one outcome of a task, the one the store keeps.
THEOREM NotificationsMatch == ASSUME Quiet PROVE Spec => []NotifiedOutcome
<1>1. QuietInv => NotifiedOutcome
  BY DEF QuietInv, QuietTask, Told, NotifiedOutcome
<1> QED
  BY <1>1, QuietInductive, PTL

\* Waiters and webhook consumers are told the end the store keeps.
THEOREM OutcomesAreTold == ASSUME Quiet PROVE Spec => []OutcomesTold
BY SignalsAreFinal, NotificationsMatch, PTL DEF OutcomesTold

-----------------------------------------------------------------------------
\* The refinement

\* A step of the queue is a step of the life cycle or leaves it alone.
LEMMA StageStepRefines ==
  ASSUME StageStep
  PROVE  [Lifecycle!Next]_([t \in Tasks |-> Stage(t)])
<1> DEFINE life == [t \in Tasks |-> Stage(t)]
<1>1. life' = [t \in Tasks |-> Stage(t)']
  OBVIOUS
<1>2. ASSUME \A t \in Tasks : Stage(t)' = Stage(t) \/ Settles(t)
      PROVE  Lifecycle!SettleMany
  <2> DEFINE S == {t \in Tasks : Settles(t)}
             o == [t \in S |-> Stage(t)']
  <2>1. S \in SUBSET Tasks /\ o \in [S -> Terminal]
    BY DEF Settles
  <2>2. \A t \in S : life[t] = "working"
    BY DEF Settles
  <2>3. life' = [t \in Tasks |-> IF t \in S THEN o[t] ELSE life[t]]
    BY <1>1, <1>2
  <2> QED
    BY <2>1, <2>2, <2>3 DEF Lifecycle!SettleMany
<1>3. ASSUME NEW t \in Tasks, Advances(t),
             \A u \in Tasks \ {t} : Stage(u)' = Stage(u)
      PROVE  Lifecycle!Accept(t) \/ Lifecycle!Begin(t)
  <2>1. life' = [life EXCEPT ![t] = Stage(t)']
    BY <1>1, <1>3
  <2> QED
    BY <1>3, <2>1 DEF Advances, Lifecycle!Accept, Lifecycle!Begin, Lifecycle!Move
<1> QED
  BY <1>2, <1>3 DEF StageStep, Lifecycle!Next

\* The queue implements the life cycle: a task waits, is worked on once, and
\* settles into one outcome for good, over crashes, restarts, retries and dead
\* letters (what the life cycle asks to happen eventually is left to the runs).
THEOREM LifecycleRefined == ASSUME Quiet PROVE Spec => Lifecycle!Spec
<1>1. Init => Lifecycle!Init
  BY DEF Init, NoJob, Absent, Active, Lifecycle!Init, Stage, Undecided
<1>2. ASSUME IInv, QuietInv, [Next]_vars
      PROVE  [Lifecycle!Next]_([t \in Tasks |-> Stage(t)])
  <2>1. CASE Next
    <3>1. StageStep
      BY <1>2, <2>1, StartNextStages, SubmitNextStages, CancelNextStages,
         WorkerNextStages, WaitNextStages, ShutdownNextStages, EnvironmentStages DEF Next
    <3> QED
      BY <3>1, StageStepRefines
  <2>2. CASE UNCHANGED vars
    BY <2>2 DEF vars, disk, Stage, Undecided
  <2> QED
    BY <1>2, <2>1, <2>2
<1> QED
  BY <1>1, <1>2, Inductive, QuietInductive, PTL DEF Spec, Lifecycle!Spec
=============================================================================
