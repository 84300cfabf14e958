----------------------------- MODULE TaskQueue -----------------------------
(***************************************************************************)
(* LocalTaskQueue (cloud/queue.py) with the worker retry loop it runs in   *)
(* its thread pool (cloud/worker.py) and the per-task checkpoint that lets *)
(* an interrupted run resume (cloud/checkpoint.py).                        *)
(*                                                                         *)
(* One action is one critical section or one access to the SQLite task     *)
(* store: the code holds self._lock only around its dictionaries, so a     *)
(* submitter, a canceller, a waiter, the shutdown thread and one worker    *)
(* thread per task interleave between any two of these actions.            *)
(***************************************************************************)
EXTENDS Integers, FiniteSets

CONSTANTS
  Tasks,          \* the task ids that submit() may create
  MaxWorkers,     \* size of the thread pool
  MaxRetries,     \* request.max_retries
  Steps,          \* number of pipeline steps that write a checkpoint
  DlqTasks,       \* the tasks whose request sets enable_dlq
  Waited,         \* the tasks some thread calls wait() on
  ShutdownModes,  \* how shutdown() may be called: to "drain", with or without a
                  \* timeout ("timed"), or to "abandon" (wait=False)
  MaxCrashes, MaxCancels, MaxFaults, MaxCleanups  \* bounds on the environment

ASSUME ConstantsAssumption ==
  /\ IsFiniteSet(Tasks)
  /\ MaxWorkers \in Nat \ {0}
  /\ MaxRetries \in Nat
  /\ Steps \in Nat \ {0}
  /\ DlqTasks \subseteq Tasks
  /\ Waited \subseteq Tasks
  /\ ShutdownModes \subseteq {"drain", "timed", "abandon"}
  /\ MaxCrashes \in Nat /\ MaxCancels \in Nat
  /\ MaxFaults \in Nat /\ MaxCleanups \in Nat

Terminal == {"COMPLETED", "FAILED", "CANCELLED", "DEAD"}
Active   == {"PENDING", "RUNNING", "RETRYING"}
Status   == Terminal \cup Active
Absent   == "ABSENT"
PreflightMark == -1

VARIABLES
  \* what survives the process
  store,      \* TaskStorage: persisted status of every task
  ckpt,       \* CheckpointStore: last checkpointed step; 0 when there is no
              \* file, PreflightMark when it names the preflight, not a step
  dump,       \* the steps whose results the checkpointed context holds: 1..dump
  dlq,        \* DeadLetterStore: the tasks that have a record
  \* the queue object
  phase,      \* life of the queue: dead, starting, up, stopping
  accepting,  \* does the ThreadPoolExecutor take submissions?
  ctl,        \* _controllers: tasks with a registered CancelController
  flag,       \* tasks whose CancelController event is set
  event,      \* _completion_events: none, armed (registered) or set (popped)
  fut,        \* the Future of each task
  futures,    \* _futures: tasks whose Future is registered
  active,     \* _active_count
  \* threads
  job,        \* the worker thread of each task
  sub,        \* the submit() call, or the recovery, that enqueues each task
  canceller,  \* the cancel() call in progress on each task
  waiter,     \* the wait() call on each task
  shut,       \* the shutdown() call
  orphans,    \* tasks start() still has to recover
  \* observation and environment
  emitted,    \* statuses announced to webhook consumers, per task
  accepted,   \* when a cancel() that found a controller returned True
  charged,    \* tasks an earlier process had begun to execute
  budget      \* how much of each environment bound is used up

files    == <<ckpt, dump>>
disk     == <<store, files, dlq>>
registry == <<ctl, flag, event, futures, active>>
pool     == <<accepting, fut>>
clients  == <<sub, canceller, waiter>>
control  == <<phase, shut, orphans>>
history  == <<emitted, accepted, charged, budget>>
vars     == <<disk, registry, pool, clients, control, history, job>>

-----------------------------------------------------------------------------
\* Types

WorkerPc == {"none", "attempt", "build", "run", "report", "complete", "deadletter",
             "backoff", "conclude", "notify", "error", "final", "ended"}
Job      == [pc : WorkerPc, stat : Status, att : 0..MaxRetries,
             step : 0..Steps, made : 0..Steps, kind : {"none", "retryable", "fatal"}]
NoJob    == [pc |-> "none", stat |-> "PENDING", att |-> 0, step |-> 0,
             made |-> 0, kind |-> "none"]
ShutPc   == {"idle", "flagged", "joining", "snapshot", "sweep", "write",
             "settle", "done"}
Shut     == [pc : ShutPc, mode : {"none", "drain", "timed", "abandon"},
             todo : SUBSET Tasks, cur : SUBSET Tasks]
NoShut   == [pc |-> "idle", mode |-> "none", todo |-> {}, cur |-> {}]

DiskOK ==
  /\ store \in [Tasks -> Status \cup {Absent}]
  /\ ckpt \in [Tasks -> PreflightMark..Steps]
  /\ dump \in [Tasks -> 0..Steps]
  /\ dlq \subseteq Tasks

RegistryOK ==
  /\ ctl \subseteq Tasks /\ flag \subseteq Tasks /\ futures \subseteq Tasks
  /\ event \in [Tasks -> {"none", "armed", "set"}]
  /\ active \in Nat

PoolOK ==
  /\ accepting \in BOOLEAN
  /\ fut \in [Tasks -> {"none", "queued", "running", "done", "cancelled"}]

ClientsOK ==
  /\ sub \in [Tasks -> {"idle", "saved", "registered", "scheduled", "done",
                        "raised", "lost"}]
  /\ canceller \in [Tasks -> {"idle", "loaded", "stale", "written"}]
  /\ waiter \in [Tasks -> {"idle", "blocked", "polling", "returned"}]

ControlOK ==
  /\ phase \in {"dead", "starting", "up", "stopping"}
  /\ shut \in Shut
  /\ orphans \subseteq Tasks

HistoryOK ==
  /\ emitted \in [Tasks -> SUBSET Terminal]
  /\ accepted \in [Tasks -> {"none", "queued", "gap", "live", "late"}]
  /\ charged \subseteq Tasks
  /\ budget \in [crash : 0..MaxCrashes, cancel : 0..MaxCancels,
                 fault : 0..MaxFaults, cleanup : 0..MaxCleanups]

\* a worker that sleeps has a retry left, one that reports has an outcome
JobOK ==
  /\ job \in [Tasks -> Job]
  /\ \A t \in Tasks :
       /\ job[t].pc = "backoff" => job[t].att < MaxRetries
       /\ job[t].pc \in {"report", "complete", "deadletter", "conclude", "notify"}
            => job[t].stat \in Terminal

TypeOK ==
  /\ DiskOK /\ RegistryOK /\ PoolOK /\ ClientsOK /\ ControlOK /\ HistoryOK
  /\ JobOK

Init ==
  /\ store = [t \in Tasks |-> Absent]
  /\ ckpt = [t \in Tasks |-> 0]
  /\ dump = [t \in Tasks |-> 0]
  /\ dlq = {}
  /\ phase = "dead"
  /\ accepting = FALSE
  /\ ctl = {} /\ flag = {} /\ futures = {} /\ active = 0
  /\ event = [t \in Tasks |-> "none"]
  /\ fut = [t \in Tasks |-> "none"]
  /\ job = [t \in Tasks |-> NoJob]
  /\ sub = [t \in Tasks |-> "idle"]
  /\ canceller = [t \in Tasks |-> "idle"]
  /\ waiter = [t \in Tasks |-> "idle"]
  /\ shut = NoShut
  /\ orphans = {}
  /\ emitted = [t \in Tasks |-> {}]
  /\ accepted = [t \in Tasks |-> "none"]
  /\ charged = {}
  /\ budget = [crash |-> 0, cancel |-> 0, fault |-> 0, cleanup |-> 0]

-----------------------------------------------------------------------------
\* Idioms of the code

\* (mutant: the counter is not clamped)
DecrementUnclamped == active' = active - 1

\* self._active_count = max(0, self._active_count - 1)
DecrementActive == active' = IF active > 0 THEN active - 1 ELSE 0

\* event = self._completion_events.pop(id, None); if event: event.set()
PopAndSet(t) ==
  event' = [event EXCEPT ![t] = IF @ = "armed" THEN "set" ELSE @]

Save(t, s)  == store' = [store EXCEPT ![t] = s]
Emit(t, s)  == emitted' = [emitted EXCEPT ![t] = @ \cup {s}]
Goto(t, pc) == job' = [job EXCEPT ![t].pc = pc]

\* an operation that may fail once in a while, until MaxFaults is used up
Fault == /\ budget.fault < MaxFaults
         /\ budget' = [budget EXCEPT !.fault = @ + 1]

Live == phase \in {"up", "stopping"}

-----------------------------------------------------------------------------
\* start() and crash recovery

\* _init_active_count(), and the tasks _recover_orphaned_tasks() will look at
StartWith(found) ==
  /\ phase = "dead"
  /\ phase' = "starting"
  /\ accepting' = TRUE
  /\ active' = Cardinality({t \in Tasks : store[t] \in Active})
  /\ orphans' = found
  /\ UNCHANGED <<disk, ctl, flag, event, futures, fut, clients, shut, history,
                 job>>

Interrupted == {t \in Tasks : store[t] \in {"RUNNING", "RETRYING"}}

\* (mutants: an orphan is a task that has a checkpoint, whatever its status;
\* the scan forgets the tasks that were RETRYING)
StartScansCheckpoints == StartWith(Interrupted \cup {t \in Tasks : ckpt[t] # 0})
StartForgetsRetrying  == StartWith({t \in Interrupted : store[t] = "RUNNING"})

Start == StartWith(Interrupted)

\* the first critical section of _enqueue_task, without the counter
Register(t) ==
  /\ ctl' = ctl \cup {t}
  /\ flag' = flag \ {t}
  /\ event' = [event EXCEPT ![t] = "armed"]
  /\ sub' = [sub EXCEPT ![t] = "registered"]

Enqueuing == {t \in Tasks : sub[t] \in {"registered", "scheduled"}}

\* start() enqueues one orphan after the other
NextOrphan(t) ==
  /\ phase = "starting" /\ Enqueuing = {}
  /\ t \in orphans
  /\ orphans' = orphans \ {t}

Requeue(t) ==
  /\ NextOrphan(t)
  /\ Register(t)
  /\ UNCHANGED <<disk, futures, pool, canceller, waiter, phase, shut, history,
                 job>>

\* (mutant: a resumed orphan is counted once more)
RecoverRecounts(t) == Requeue(t) /\ ckpt[t] # 0 /\ active' = active + 1

RecoverResume(t) == Requeue(t) /\ ckpt[t] # 0 /\ UNCHANGED active

GiveUpOrphan(t) ==
  /\ NextOrphan(t)
  /\ ckpt[t] = 0
  /\ Save(t, "FAILED")
  /\ UNCHANGED <<files, dlq, ctl, flag, event, futures, pool, clients, phase,
                 shut, history, job>>

\* (mutant: the failed orphan stays counted)
RecoverFailKeepsCount(t) == GiveUpOrphan(t) /\ UNCHANGED active

RecoverFail(t) == GiveUpOrphan(t) /\ DecrementActive

StartDone ==
  /\ phase = "starting" /\ orphans = {} /\ Enqueuing = {}
  /\ phase' = "up"
  /\ UNCHANGED <<disk, registry, pool, clients, shut, orphans, history, job>>

\* has the worker of t executed part of the pipeline?
Begun(t) == job[t].pc # "none" /\ (job[t].pc = "attempt" => job[t].att > 0)

\* The process ends, killed or exiting: everything in memory is gone.
Crash ==
  /\ phase # "dead" /\ budget.crash < MaxCrashes
  /\ phase' = "dead"
  /\ accepting' = FALSE
  /\ ctl' = {} /\ flag' = {} /\ futures' = {} /\ active' = 0
  /\ event' = [t \in Tasks |-> "none"]
  /\ fut' = [t \in Tasks |-> "none"]
  /\ job' = [t \in Tasks |-> NoJob]
  /\ sub' = [t \in Tasks |-> IF sub[t] = "idle" THEN "idle" ELSE "lost"]
  /\ canceller' = [t \in Tasks |-> "idle"]
  /\ waiter' = [t \in Tasks |-> "idle"]
  /\ shut' = NoShut
  /\ orphans' = {}
  /\ accepted' = [t \in Tasks |-> "none"]
  /\ charged' = charged \cup {t \in Tasks : Begun(t)}
  /\ budget' = [budget EXCEPT !.crash = @ + 1]
  /\ UNCHANGED <<disk, emitted>>

-----------------------------------------------------------------------------
\* submit() and _enqueue_task()

SubmitSave(t) ==
  /\ phase = "up" /\ sub[t] = "idle"
  /\ Save(t, "PENDING")
  /\ sub' = [sub EXCEPT ![t] = "saved"]
  /\ UNCHANGED <<files, dlq, registry, pool, canceller, waiter, control,
                 history, job>>

SubmitRegister(t) ==
  /\ sub[t] = "saved"
  /\ Register(t)
  /\ active' = active + 1
  /\ UNCHANGED <<disk, futures, pool, canceller, waiter, control, history, job>>

EnqueueSchedule(t) ==
  /\ sub[t] = "registered" /\ accepting
  /\ fut' = [fut EXCEPT ![t] = "queued"]
  /\ sub' = [sub EXCEPT ![t] = "scheduled"]
  /\ UNCHANGED <<disk, registry, accepting, canceller, waiter, control,
                 history, job>>

\* _select_executor's assertion, or executor.submit() after executor.shutdown()
EnqueueRaises(t) ==
  /\ sub[t] = "registered" /\ phase = "stopping"
  /\ sub' = [sub EXCEPT ![t] = "raised"]
  /\ UNCHANGED <<disk, registry, pool, canceller, waiter, control, history,
                 job>>

EnqueuePublish(t) ==
  /\ sub[t] = "scheduled"
  /\ futures' = futures \cup {t}
  /\ sub' = [sub EXCEPT ![t] = "done"]
  /\ UNCHANGED <<disk, ctl, flag, event, active, pool, canceller, waiter,
                 control, history, job>>

-----------------------------------------------------------------------------
\* cancel()

CancelLoad(t) ==
  /\ Live /\ canceller[t] = "idle" /\ budget.cancel < MaxCancels
  /\ store[t] \in Active
  /\ canceller' = [canceller EXCEPT ![t] = "loaded"]
  /\ budget' = [budget EXCEPT !.cancel = @ + 1]
  /\ UNCHANGED <<disk, registry, pool, sub, waiter, control, emitted, accepted,
                 charged, job>>

\* when, in the worker's life, a cancellation is accepted
CancelMoment(t) ==
  CASE job[t].pc = "none"                            -> "queued"
    [] job[t].pc = "attempt" /\ job[t].att = 0       -> "queued"
    [] job[t].pc = "attempt" /\ job[t].att > 0       -> "gap"
    [] job[t].pc \in {"build", "run", "report",
                           "backoff"}                -> "live"
    [] OTHER                                         -> "late"

CancelSignal(t) ==
  /\ canceller[t] = "loaded" /\ t \in ctl
  /\ flag' = flag \cup {t}
  /\ canceller' = [canceller EXCEPT ![t] = "idle"]
  /\ accepted' = [accepted EXCEPT ![t] = IF @ = "none" THEN CancelMoment(t)
                                                       ELSE @]
  /\ UNCHANGED <<disk, ctl, event, futures, active, pool, sub, waiter, control,
                 emitted, charged, budget, job>>

CancelNoController(t) ==
  /\ canceller[t] = "loaded" /\ t \notin ctl
  /\ canceller' = [canceller EXCEPT ![t] = "stale"]
  /\ UNCHANGED <<disk, registry, pool, sub, waiter, control, history, job>>

\* the copy loaded earlier is written back as CANCELLED, whatever happened since
CancelWrite(t) ==
  /\ canceller[t] = "stale"
  /\ Save(t, "CANCELLED")
  /\ canceller' = [canceller EXCEPT ![t] = "written"]
  /\ UNCHANGED <<files, dlq, registry, pool, sub, waiter, control, history, job>>

CancelSettle(t) ==
  /\ canceller[t] = "written"
  /\ DecrementActive
  /\ PopAndSet(t)
  /\ Emit(t, "CANCELLED")
  /\ canceller' = [canceller EXCEPT ![t] = "idle"]
  /\ UNCHANGED <<disk, ctl, flag, futures, pool, sub, waiter, control,
                 accepted, charged, budget, job>>

-----------------------------------------------------------------------------
\* The worker thread: _run_task_threadsafe() around _run_task_with_retry()

Running == {t \in Tasks : fut[t] = "running"}

\* an idle pool thread takes the task and loads it
WorkerPick(t) ==
  /\ fut[t] = "queued" /\ Cardinality(Running) < MaxWorkers
  /\ fut' = [fut EXCEPT ![t] = "running"]
  /\ job' = [job EXCEPT ![t] =
               IF store[t] = Absent
               THEN [NoJob EXCEPT !.pc = "final"]
               ELSE [NoJob EXCEPT !.pc = "attempt", !.stat = store[t]]]
  /\ UNCHANGED <<disk, registry, accepting, clients, control, history>>

\* controller.reset(), the RUNNING or RETRYING save, and the resume plan: the
\* position to go on from and the context that was checkpointed
AttemptFrom(t, first) ==
  /\ job[t].pc = "attempt"
  /\ LET s == IF job[t].att = 0 THEN "RUNNING" ELSE "RETRYING"
     IN  /\ Save(t, s)
         /\ job' = [job EXCEPT ![t] = [@ EXCEPT !.pc = "build", !.stat = s,
                                         !.step = first, !.made = dump[t],
                                         !.kind = "none"]]
  /\ flag' = flag \ {t}
  /\ UNCHANGED <<files, dlq, ctl, event, futures, active, pool, clients,
                 control, history>>

\* (mutant: the plan names the step after the next one)
BeginAttemptOneTooFar(t) ==
  AttemptFrom(t, IF ckpt[t] \in 1..(Steps - 1) THEN ckpt[t] + 1 ELSE 0)

\* resolve_resume() continues after the checkpointed step; "preflight" has no
\* step after it in STEPS, so start_step is None and the whole pipeline runs
BeginAttempt(t) == AttemptFrom(t, IF ckpt[t] > 0 THEN ckpt[t] ELSE 0)

\* a checkpoint that cannot be written is logged and the run goes on
Checkpoint(t, mark, made) ==
  \/ /\ ckpt' = [ckpt EXCEPT ![t] = mark]
     /\ dump' = [dump EXCEPT ![t] = made]
     /\ UNCHANGED budget
  \/ Fault /\ UNCHANGED files

\* run_preflight() passes: its step_ok() is checkpointed like that of a step
Preflight(t) ==
  /\ job[t].pc = "build" /\ job[t].step < Steps
  /\ Goto(t, "run")
  /\ Checkpoint(t, PreflightMark, job[t].made)
  /\ UNCHANGED <<store, dlq, registry, pool, clients, control, emitted,
                 accepted, charged>>

\* resume.done: the pipeline is not entered, its result is extracted
ResumeDone(t) ==
  /\ job[t].pc = "build" /\ job[t].step = Steps
  /\ Goto(t, "run")
  /\ UNCHANGED <<disk, registry, pool, clients, control, history>>

\* check_cancelled() passes, the next step runs, and its checkpoint is written
RunStep(t) ==
  /\ job[t].pc = "run" /\ job[t].step < Steps /\ t \notin flag
  /\ LET k == job[t].step + 1
         m == IF k > job[t].made THEN k ELSE job[t].made
     IN  /\ job' = [job EXCEPT ![t] = [@ EXCEPT !.step = k, !.made = m]]
         /\ Checkpoint(t, k, m)
  /\ UNCHANGED <<store, dlq, registry, pool, clients, control, emitted,
                 accepted, charged>>

Outcome(t, s, k) ==
  /\ job' = [job EXCEPT ![t] = [@ EXCEPT !.pc = "report", !.stat = s,
                                  !.kind = k]]
  /\ UNCHANGED <<disk, registry, pool, clients, control, history>>

\* PipelineCancelled from check_cancelled() before a step
StepCancelled(t) ==
  /\ job[t].pc = "run" /\ job[t].step < Steps /\ t \in flag
  /\ Outcome(t, "CANCELLED", "none")

\* a step, or the extraction of the result, raises
StepRaises(t, k) ==
  /\ job[t].pc = "run"
  /\ Outcome(t, "FAILED", k)

\* PreflightError, which is not one of the retryable types
PreflightRaises(t) ==
  /\ job[t].pc = "build" /\ job[t].step < Steps
  /\ Outcome(t, "FAILED", "fatal")

PipelineDone(t) ==
  /\ job[t].pc = "run" /\ job[t].step = Steps
  /\ Outcome(t, "COMPLETED", "none")

\* what _run_task_with_retry does with the outcome of an attempt
Retryable(t) == job[t].stat = "FAILED" /\ job[t].kind = "retryable"
Exhausted(t) == job[t].att >= MaxRetries

AfterReport(t) ==
  CASE job[t].stat = "COMPLETED"                             -> "complete"
    [] Retryable(t) /\ ~Exhausted(t)                         -> "backoff"
    [] Retryable(t) /\ Exhausted(t) /\ t \in DlqTasks        -> "deadletter"
    [] OTHER                                                 -> "conclude"

Report(t) ==
  /\ job[t].pc = "report"
  /\ Save(t, job[t].stat)
  /\ Goto(t, AfterReport(t))
  /\ UNCHANGED <<files, dlq, ctl, flag, futures, active, pool, clients, control,
                 accepted, charged, budget>>

\* (mutants: whoever waits is woken up as soon as an outcome is on disk; the
\* outcome of every attempt is announced)
ReportSignals(t) == Report(t) /\ PopAndSet(t) /\ UNCHANGED emitted
ReportEmits(t)   == Report(t) /\ Emit(t, job[t].stat) /\ UNCHANGED event

\* _execute_task's finally clause persists the outcome through on_progress
ReportOutcome(t) == Report(t) /\ UNCHANGED <<event, emitted>>

DeleteCheckpoint(t) ==
  /\ job[t].pc = "complete"
  /\ Goto(t, "conclude")
  /\ \/ /\ ckpt' = [ckpt EXCEPT ![t] = 0]
        /\ dump' = [dump EXCEPT ![t] = 0]
        /\ UNCHANGED budget
     \/ Fault /\ UNCHANGED files
  /\ UNCHANGED <<store, dlq, registry, pool, clients, control, emitted,
                 accepted, charged>>

\* (mutant: DEAD even when the record could not be written)
DeadWithoutRecord(t) ==
  /\ job[t].pc = "deadletter"
  /\ job' = [job EXCEPT ![t] = [@ EXCEPT !.pc = "conclude", !.stat = "DEAD"]]
  /\ \/ dlq' = dlq \cup {t} /\ UNCHANGED budget
     \/ Fault /\ UNCHANGED dlq
  /\ UNCHANGED <<store, files, registry, pool, clients, control, emitted,
                 accepted, charged>>

\* the record first, then the status; without a record the task stays FAILED
RouteToDeadLetter(t) ==
  /\ job[t].pc = "deadletter"
  /\ \/ /\ dlq' = dlq \cup {t}
        /\ job' = [job EXCEPT ![t] = [@ EXCEPT !.pc = "conclude",
                                        !.stat = "DEAD"]]
        /\ UNCHANGED budget
     \/ Fault /\ Goto(t, "conclude") /\ UNCHANGED dlq
  /\ UNCHANGED <<store, files, registry, pool, clients, control, emitted,
                 accepted, charged>>

\* controller._event.wait(timeout=delay) returns True ...
BackoffCancelled(t) ==
  /\ job[t].pc = "backoff" /\ t \in flag
  /\ job' = [job EXCEPT ![t] = [@ EXCEPT !.pc = "conclude",
                                  !.stat = "CANCELLED"]]
  /\ UNCHANGED <<disk, registry, pool, clients, control, history>>

RetryAs(t, attempt) ==
  /\ job[t].pc = "backoff"
  /\ job' = [job EXCEPT ![t] = [@ EXCEPT !.pc = "attempt", !.att = attempt]]
  /\ UNCHANGED <<disk, registry, pool, clients, control, history>>

\* (mutants: a plain sleep between attempts; the attempt is not counted)
BackoffSleeps(t)  == RetryAs(t, job[t].att + 1)
BackoffForever(t) == t \notin flag /\ RetryAs(t, job[t].att)

\* ... or False once the delay is over
BackoffElapsed(t) == t \notin flag /\ RetryAs(t, job[t].att + 1)

Conclude(t) ==
  /\ job[t].pc = "conclude"
  /\ Save(t, job[t].stat)
  /\ Goto(t, "notify")
  /\ UNCHANGED <<files, dlq, registry, pool, clients, control, history>>

\* the queue saves the returned task once more and announces it
Notify(t) ==
  /\ job[t].pc = "notify"
  /\ Save(t, job[t].stat)
  /\ Emit(t, job[t].stat)
  /\ Goto(t, "final")
  /\ UNCHANGED <<files, dlq, registry, pool, clients, control, accepted,
                 charged, budget>>

\* a save fails, or the context cannot be built: no clause of the worker
\* catches it before _run_task_threadsafe does
WorkerRaises(t) ==
  /\ job[t].pc \in {"attempt", "build", "report", "conclude", "notify"}
  /\ Fault
  /\ Goto(t, "error")
  /\ UNCHANGED <<disk, registry, pool, clients, control, emitted, accepted,
                 charged>>

HandleError(t) ==
  /\ job[t].pc = "error"
  /\ Goto(t, "final")
  /\ \/ /\ store[t] \in Active
        /\ Save(t, "FAILED") /\ Emit(t, "FAILED") /\ UNCHANGED budget
     \/ /\ store[t] \in Terminal
        /\ Emit(t, store[t]) /\ UNCHANGED <<store, budget>>
     \/ store[t] = Absent /\ UNCHANGED <<store, emitted, budget>>
     \/ Fault /\ UNCHANGED <<store, emitted>>
  /\ UNCHANGED <<files, dlq, registry, pool, clients, control, accepted, charged>>

Unregister(t) ==
  /\ job[t].pc = "final"
  /\ job' = [job EXCEPT ![t] = [NoJob EXCEPT !.pc = "ended"]]
  /\ fut' = [fut EXCEPT ![t] = "done"]
  /\ futures' = futures \ {t}
  /\ ctl' = ctl \ {t}
  /\ DecrementActive
  /\ UNCHANGED <<disk, flag, accepting, clients, control, history>>

\* (mutant: the event is dropped without being set)
FinalizeDropsEvent(t) == Unregister(t) /\ UNCHANGED event

\* the finally clause of _run_task_threadsafe
Finalize(t) == Unregister(t) /\ PopAndSet(t)

-----------------------------------------------------------------------------
\* wait() without a timeout, by a caller that submit() returned the id to

WaitBegin(t) ==
  /\ Live /\ t \in Waited /\ waiter[t] = "idle" /\ sub[t] = "done"
  /\ waiter' = [waiter EXCEPT ![t] =
                  CASE store[t] = Absent -> "returned"
                    [] event[t] = "armed" /\ store[t] # Absent -> "blocked"
                    [] OTHER -> "polling"]
  /\ UNCHANGED <<disk, registry, pool, sub, canceller, control, history, job>>

WaitWake(t) ==
  /\ waiter[t] = "blocked" /\ event[t] = "set"
  /\ waiter' = [waiter EXCEPT ![t] = "returned"]
  /\ UNCHANGED <<disk, registry, pool, sub, canceller, control, history, job>>

WaitPoll(t) ==
  /\ waiter[t] = "polling" /\ store[t] \in Terminal \cup {Absent}
  /\ waiter' = [waiter EXCEPT ![t] = "returned"]
  /\ UNCHANGED <<disk, registry, pool, sub, canceller, control, history, job>>

-----------------------------------------------------------------------------
\* shutdown() and _cancel_inflight()

ShutdownBegin(m) ==
  /\ phase = "up" /\ shut.pc = "idle"
  /\ phase' = "stopping"
  /\ shut' = [NoShut EXCEPT !.pc = "flagged", !.mode = m]
  /\ UNCHANGED <<disk, registry, pool, clients, orphans, history, job>>

\* executor.shutdown(cancel_futures=True): queued futures are cancelled
ShutdownAbandon ==
  /\ shut.pc = "flagged" /\ shut.mode = "abandon"
  /\ accepting' = FALSE
  /\ fut' = [t \in Tasks |-> IF fut[t] = "queued" THEN "cancelled" ELSE fut[t]]
  /\ shut' = [shut EXCEPT !.pc = "snapshot"]
  /\ UNCHANGED <<disk, registry, clients, phase, orphans, history, job>>

\* executor.shutdown(cancel_futures=False), then the futures to join
ShutdownDrain ==
  /\ shut.pc = "flagged" /\ shut.mode \in {"drain", "timed"}
  /\ accepting' = FALSE
  /\ shut' = [shut EXCEPT !.pc = "joining", !.todo = futures]
  /\ UNCHANGED <<disk, registry, fut, clients, phase, orphans, history, job>>

DrainJoined ==
  /\ shut.pc = "joining" /\ \A t \in shut.todo : fut[t] = "done"
  /\ shut' = [shut EXCEPT !.pc = "snapshot"]
  /\ UNCHANGED <<disk, registry, pool, clients, phase, orphans, history, job>>

DrainTimedOut ==
  /\ shut.pc = "joining" /\ shut.mode = "timed"
  /\ \E t \in shut.todo : fut[t] # "done"
  /\ shut' = [shut EXCEPT !.pc = "snapshot"]
  /\ UNCHANGED <<disk, registry, pool, clients, phase, orphans, history, job>>

InflightSnapshot ==
  /\ shut.pc = "snapshot"
  /\ shut' = [shut EXCEPT !.pc = "sweep", !.todo = futures]
  /\ UNCHANGED <<disk, registry, pool, clients, phase, orphans, history, job>>

\* a future that is done, which a cancelled one is, is passed over
InflightSkip(t) ==
  /\ shut.pc = "sweep" /\ t \in shut.todo
  /\ fut[t] \in {"done", "cancelled"}
  /\ shut' = [shut EXCEPT !.todo = @ \ {t}]
  /\ UNCHANGED <<disk, registry, pool, clients, phase, orphans, history, job>>

InflightSignal(t) ==
  /\ shut.pc = "sweep" /\ t \in shut.todo
  /\ fut[t] \notin {"done", "cancelled"}
  /\ flag' = flag \cup {t}
  /\ shut' = IF store[t] \in Active
             THEN [shut EXCEPT !.todo = @ \ {t}, !.pc = "write", !.cur = {t}]
             ELSE [shut EXCEPT !.todo = @ \ {t}]
  /\ UNCHANGED <<disk, ctl, event, futures, active, pool, clients, phase,
                 orphans, history, job>>

InflightWrite(t) ==
  /\ shut.pc = "write" /\ t \in shut.cur
  /\ Save(t, "CANCELLED")
  /\ shut' = [shut EXCEPT !.pc = "settle"]
  /\ UNCHANGED <<files, dlq, registry, pool, clients, phase, orphans, history,
                 job>>

InflightSettle(t) ==
  /\ shut.pc = "settle" /\ t \in shut.cur
  /\ DecrementActive
  /\ PopAndSet(t)
  /\ Emit(t, "CANCELLED")
  /\ shut' = [shut EXCEPT !.pc = "sweep", !.cur = {}]
  /\ UNCHANGED <<disk, ctl, flag, futures, pool, clients, phase, orphans,
                 accepted, charged, budget, job>>

ShutdownDone ==
  /\ shut.pc = "sweep" /\ shut.todo = {}
  /\ shut' = [shut EXCEPT !.pc = "done"]
  /\ UNCHANGED <<disk, registry, pool, clients, phase, orphans, history, job>>

-----------------------------------------------------------------------------
\* cleanup_terminal() and cleanup_all() delete rows of the task store

Cleanup(S) ==
  /\ budget.cleanup < MaxCleanups
  /\ budget' = [budget EXCEPT !.cleanup = @ + 1]
  /\ store' = [t \in Tasks |-> IF t \in S THEN Absent ELSE store[t]]
  /\ UNCHANGED <<files, dlq, registry, pool, clients, control, emitted,
                 accepted, charged, job>>

CleanupTerminal == Cleanup({t \in Tasks : store[t] \in Terminal})
CleanupAll      == Cleanup(Tasks)

-----------------------------------------------------------------------------
\* The whole system

StartNext == Start \/ StartDone \/ \E t \in Tasks : RecoverResume(t) \/ RecoverFail(t)

SubmitNext(t) ==
  \/ SubmitRegister(t) \/ EnqueueSchedule(t) \/ EnqueuePublish(t)
  \/ EnqueueRaises(t)

CancelNext(t) ==
  \/ CancelSignal(t) \/ CancelNoController(t)
  \/ CancelWrite(t) \/ CancelSettle(t)

PipelineNext(t) ==
  \/ Preflight(t) \/ PreflightRaises(t) \/ ResumeDone(t)
  \/ RunStep(t) \/ StepCancelled(t) \/ PipelineDone(t)
  \/ \E k \in {"retryable", "fatal"} : StepRaises(t, k)

WorkerNext(t) ==
  \/ WorkerPick(t) \/ BeginAttempt(t) \/ PipelineNext(t)
  \/ ReportOutcome(t) \/ DeleteCheckpoint(t) \/ RouteToDeadLetter(t)
  \/ BackoffCancelled(t) \/ BackoffElapsed(t)
  \/ Conclude(t) \/ Notify(t) \/ HandleError(t) \/ Finalize(t)

WaitNext(t) == WaitWake(t) \/ WaitPoll(t)

ShutdownNext ==
  \/ ShutdownAbandon \/ ShutdownDrain \/ DrainJoined
  \/ InflightSnapshot \/ ShutdownDone
  \/ \E t \in Tasks : InflightSkip(t) \/ InflightSignal(t)
                        \/ InflightWrite(t) \/ InflightSettle(t)

\* what nobody is obliged to do
Environment ==
  \/ Crash \/ CleanupTerminal \/ CleanupAll \/ DrainTimedOut
  \/ \E m \in ShutdownModes : ShutdownBegin(m)
  \/ \E t \in Tasks : SubmitSave(t) \/ CancelLoad(t) \/ WaitBegin(t)
                        \/ WorkerRaises(t)

Next ==
  \/ StartNext \/ ShutdownNext \/ Environment
  \/ \E t \in Tasks : SubmitNext(t) \/ CancelNext(t) \/ WorkerNext(t)
                        \/ WaitNext(t)

Spec == Init /\ [][Next]_vars

(***************************************************************************)
(* Threads that can run do run.  Nothing forces a client to call, a        *)
(* process to die or a drain to time out, and a step may fail as often as  *)
(* the retry budget allows.                                                *)
(***************************************************************************)
Fairness ==
  /\ WF_vars(StartNext) /\ WF_vars(ShutdownNext)
  /\ \A t \in Tasks : /\ WF_vars(SubmitNext(t)) /\ WF_vars(CancelNext(t))
                      /\ WF_vars(WorkerNext(t)) /\ WF_vars(WaitNext(t))

FairSpec == Spec /\ Fairness

-----------------------------------------------------------------------------
\* Properties that hold whatever the environment does

\* A task in the DEAD state can be replayed: the record that replay needs was
\* written before the status, and survives every crash in between.
DeadHasRecord == \A t \in Tasks : store[t] = "DEAD" => t \in dlq

\* Whatever crashes, fails or is resumed, no step is skipped: an attempt works
\* on a context that holds the results of every step before its position, and a
\* completed task those of all steps.
NoStepSkipped ==
  \A t \in Tasks :
    /\ job[t].pc = "run" => job[t].step <= job[t].made
    /\ job[t].stat = "COMPLETED" => job[t].made = Steps

\* Work an earlier process has begun goes on only if that process left a
\* checkpoint; without one the task is given up, not silently run again.
RecoveredHasCheckpoint ==
  \A t \in charged : job[t].pc \in {"build", "run"} => ckpt[t] # 0

\* nobody holds the task, or is about to hand it to a worker
OutOfHands(t) ==
  /\ job[t].pc \notin {"attempt", "build", "run", "backoff", "deadletter"}
  /\ sub[t] \notin {"saved", "registered"}
  /\ fut[t] # "queued"
  /\ t \notin orphans

\* A task persisted as COMPLETED or DEAD is never executed, retried, enqueued
\* or recovered again.
SettledNeverRerun ==
  \A t \in Tasks : store[t] \in {"COMPLETED", "DEAD"} => OutOfHands(t)

\* What is settled stays settled, and what its replay needs is there.
SettledForGood == DeadHasRecord /\ SettledNeverRerun

\* A cancellation accepted while an attempt executes or waits for its retry
\* is never forgotten: no further attempt begins.
LiveCancelSticks ==
  \A t \in Tasks : accepted[t] = "live" => job[t].pc # "attempt"

\* a task that was PENDING when an earlier process ended stays counted, even when
\* cleanup() removes it
Leftover == {t \in Tasks : store[t] \in {"PENDING", "ABSENT"} /\ sub[t] = "lost"}

\* The admission limit reads active_count: it never counts work that does not
\* exist, whatever races between cancellation, shutdown and completion.
NoPhantomActive ==
  active <= Cardinality(ctl \cup Leftover \cup orphans
                          \cup {t \in Tasks : canceller[t] = "written"})

\* a thread of the pool holds the task, or will take it from the queue
InHand(t) ==
  fut[t] = "queued" \/ (fut[t] = "running" /\ job[t].pc \notin {"none", "ended"})

\* shutdown(wait=False) has cancelled its future: no thread will take it
Dropped(t) == fut[t] = "cancelled"

\* the store knows nothing, or an end, of the task
AtRest(t) == store[t] \in Terminal \cup {Absent}

\* Whoever waits, waits for somebody: while wait() blocks on an event or polls the store,
\* while shutdown() joins a future, and while the store says that a task is being worked on,
\* a thread of the pool has the task or will take it, or start() is about to enqueue it.
\* Two things can take a task out of everybody's hands: a future cancelled by a shutdown
\* that does not wait, which even the sweep after it passes over, and a failing save.
NothingForgotten ==
  \A t \in Tasks :
    /\ waiter[t] = "blocked" => event[t] = "set" \/ InHand(t) \/ Dropped(t)
    /\ shut.pc = "joining" /\ t \in shut.todo => fut[t] = "done" \/ InHand(t)
    /\ budget.fault = 0 =>
         /\ waiter[t] = "polling" => AtRest(t) \/ InHand(t) \/ Dropped(t)
         /\ store[t] \in {"RUNNING", "RETRYING"} =>
              \/ phase = "dead" \/ t \in orphans \/ (sub[t] = "registered" /\ phase = "starting")
              \/ InHand(t) \/ Dropped(t)

-----------------------------------------------------------------------------
\* The inductive invariant behind the properties above, part by part

\* a DEAD verdict, in the worker or on disk, has its record
RecordFirst(t) == (store[t] = "DEAD" \/ job[t].stat = "DEAD") => t \in dlq

\* nothing of a process is left when it is dead, and clients need a live one
ProcessBound(t) ==
  /\ phase = "dead" => sub[t] \in {"idle", "lost"}
  /\ t \in orphans => phase = "starting" /\ sub[t] \in {"idle", "lost"}
  /\ canceller[t] # "idle" => Live
  /\ shut.pc # "idle" => phase = "stopping"

\* a task is queued, and then executed, only after it was scheduled
Scheduled(t) ==
  /\ fut[t] # "none" => sub[t] \in {"scheduled", "done"}
  /\ job[t].pc # "none" => fut[t] \in {"running", "done"}

\* nobody but its own worker writes to the row of an orphan or settles a task
OwnVerdict(t) ==
  /\ t \in orphans => store[t] \in {"RUNNING", "RETRYING", Absent}
  /\ job[t].pc = "report" => job[t].stat \in {"COMPLETED", "CANCELLED", "FAILED"}

\* work begun before a crash goes on only from a checkpoint
FromCheckpoint(t) ==
  t \in charged =>
    /\ sub[t] \notin {"idle", "saved"}
    /\ (\/ sub[t] = "registered" \/ fut[t] = "queued"
        \/ job[t].pc \in {"attempt", "build", "run", "report", "backoff"})
       => ckpt[t] # 0

\* a checkpoint names a step whose results its context holds, and so does the
\* position of an attempt
Contained(t) ==
  /\ ckpt[t] <= dump[t]
  /\ job[t].pc \in {"build", "run"} => job[t].step <= job[t].made
  /\ job[t].stat = "COMPLETED" => job[t].made = Steps

\* an accepted cancellation is pending in the flag until it takes effect
CancelPending(t) ==
  accepted[t] = "live" =>
    /\ job[t].pc \notin {"none", "attempt"}
    /\ job[t].pc \in {"build", "run", "report", "backoff"} => t \in flag

TaskInv(t) ==
  /\ store[t] \in {"COMPLETED", "DEAD"} => OutOfHands(t)
  /\ RecordFirst(t) /\ ProcessBound(t) /\ Scheduled(t)
  /\ OwnVerdict(t) /\ FromCheckpoint(t) /\ Contained(t) /\ CancelPending(t)

IInv ==
  /\ TypeOK
  /\ \A t \in Tasks : TaskInv(t)

-----------------------------------------------------------------------------
\* Properties of a queue nobody cancels in or shuts down

\* active_count is exact: the registered tasks and the leftover ones.
ActiveCountExact ==
  phase = "up" => active = Cardinality(ctl \cup Leftover)

\* wait() returns only when the outcome is final: the event of a task is set
\* after its last save, when no worker holds it.
SignalledIsFinal ==
  \A t \in Tasks : event[t] = "set" =>
    store[t] \in Terminal /\ job[t].pc = "ended"

\* Webhook consumers are told the outcome the store keeps, and no other one.
NotifiedOutcome ==
  \A t \in Tasks : job[t].pc \in {"final", "ended"} => emitted[t] = {store[t]}

\* Those who wait for a task and those who are called back hear the same end of it, the
\* one the store keeps.
OutcomesTold == SignalledIsFinal /\ NotifiedOutcome

-----------------------------------------------------------------------------
\* Liveness, under FairSpec

\* A task that was started reaches a terminal state, across crashes and
\* restarts: recovery resumes it or gives it up.
StartedTaskSettles ==
  \A t \in Tasks :
    store[t] \in {"RUNNING", "RETRYING"} ~> store[t] \in Terminal

\* wait() returns: the event it blocks on is set by whoever settles the task.
WaiterWakes ==
  \A t \in Tasks : waiter[t] = "blocked" ~> waiter[t] # "blocked"

\* A drain without a timeout ends, even while tasks sleep between retries.
DrainEnds == shut.pc = "joining" ~> shut.pc \in {"done", "idle"}

-----------------------------------------------------------------------------
\* The queue implements the life cycle it promises (without cancellations,
\* shutdowns and failing saves)

\* A worker that still owes the task a retry, or a better verdict, keeps it in
\* the working stage although the store already says FAILED.
Undecided(t) ==
  \/ job[t].pc \in {"backoff", "deadletter"}
  \/ job[t].pc = "attempt" /\ job[t].att > 0
  \/ job[t].pc = "conclude" /\ job[t].stat # store[t]

Stage(t) ==
  CASE Undecided(t)                               -> "working"
    [] ~Undecided(t) /\ store[t] = Absent         -> "unknown"
    [] ~Undecided(t) /\ store[t] = "PENDING"      -> "waiting"
    [] ~Undecided(t) /\ store[t] \in {"RUNNING", "RETRYING"} -> "working"
    [] OTHER                                      -> store[t]

Lifecycle == INSTANCE TaskLifecycle
               WITH Outcomes <- Terminal, life <- [t \in Tasks |-> Stage(t)]

\* Every task of the queue goes through the stages of TaskLifecycle: it is
\* worked on once, its outcome is decided once and is never taken back, and
\* it settles if a worker ever began it.
ImplementsLifecycle == Lifecycle!FairSpec

-----------------------------------------------------------------------------
\* What the repository says of the queue and the code does not do

\* "a crash or a retryable failure does not redo already-completed pipeline
\* steps": an attempt never stands before a step whose result it already has.
CompletedStepsNotRedone ==
  \A t \in Tasks : job[t].pc = "run" => job[t].made <= job[t].step

\* "Task is pending but not yet running -- mark as cancelled": a task whose
\* cancellation was accepted before it ran does not run.
QueuedCancelPreventsRun ==
  \A t \in Tasks : accepted[t] = "queued" => job[t].pc # "run"

\* cancel() "returns False if the task was [...] already terminal": it never
\* replaces a recorded success.
CancelKeepsOutcome ==
  [][\A t \in Tasks : store[t] = "COMPLETED" => store'[t] = "COMPLETED"]_vars
=============================================================================
