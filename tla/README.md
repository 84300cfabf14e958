# Movie Narrator: a TLA+ development

Movie Narrator turns the name of a film into a narrated video: a pipeline of
steps (research, script, speech, matching, music, rendering, ...) that runs for
minutes and calls paid services. A run is started from the command line or
submitted as a *task* to a queue that survives crashes, retries what fails, and
serves HTTP clients. This directory models that code in TLA+, checks it with TLC
and proves its main safety properties with TLAPS.

Paths below are relative to `src/src/movie_narrator/` unless they say otherwise.

## 1. The system

| Component | State it keeps | Operations | Talks to | What makes it correct |
|---|---|---|---|---|
| Local task queue (`cloud/queue.py`) | controllers, completion events and futures per task, active counter, started/shutting-down flags | `start`, `submit`, `cancel`, `wait`, `shutdown`, `cleanup_*`, worker entry point | store, checkpoints, worker, webhooks | no task is lost, rerun or forgotten; the counter is right; waiters wake up |
| Worker retry loop (`cloud/worker.py`) | attempt number, the task object of its thread | `run_task`, one attempt, backoff, dead-letter routing | pipeline, checkpoints, dead letters; status callbacks into the queue | a retry resumes, a cancellation is obeyed, `DEAD` has a record |
| Checkpoints (`cloud/checkpoint.py`) | one file per task | `save`, `load`, `delete`, `resolve_resume` | worker, recovery, runner | never ahead of the work, never stale |
| Task store (`cloud/storage.py`) | one row per task | `save`, `load`, scans, bulk deletion | everybody | the only truth after a crash |
| Dead letters (`cloud/dlq.py`) | one file per record, replay count | `save`, `replay`, `remove` | worker, API | a record for every `DEAD` task; replays are counted |
| Circuit breaker (`reliability/circuit_breaker.py`) | state, failure count, probe slots, opening time | `guard`, `record_*`, `reset`, `force_*` | every provider call | no slot leaked, no stale count, it closes again |
| Batches (`cloud/queue.py`, `models.py`) | member ids, counts, status | submit, cancel, refresh | queue, store | completed only when the runs of its members were |
| Scheduler (`cloud/scheduler.py`) | schedules, next run times | register, cancel, check due, trigger | queue | a due job fires, and fires once |
| Distributed rendering, remote queue (`cloud/distributed.py`, `remote_queue.py`, `remote_provider.py`) | nodes, subtasks, downloads | choose a node, submit, poll, download | worker, remote API | a whole video or the local run |
| Webhooks (`cloud/webhooks.py`) | bounded queue, posting threads | dispatch, post, retry, close | queue | what was taken gets its attempts |
| HTTP API, daemon (`cloud/api/`, `cloud/daemon.py`) | drain flag, server and queue objects | requests, drain, signals, restart | queue, dead letters | what it says of itself is so |
| Admission (`cloud/ratelimit.py`, `entitlements.py`) | token buckets, active tasks | acquire, evict, check a submission | API | rate and burst kept; overshoot bounded |
| Race executor (`race_executor.py`, `race.py`) | candidates, pool, results | run, cancel, collect, score, promote | pipeline | cancelled in time means no work; one winner |
| Artifact lifecycle (`cloud/lifecycle.py`) | files and ages | sweep by age and size | store of artifacts, queue | live artifacts survive |
| Media cache (`utils/media_cache.py`) | blobs and sidecars | look up, fetch, deduplicate, evict | steps | a URL gets its own content; cap kept |
| Pipeline runner (`pipeline/runner.py`) | shared mutable context | run from a step, soft and hard failures, strict, pause, resume, rerun | steps, console (checkpoint hook) | every step has its turn, failures are told |
| Step registry and analysis (`pipeline/registry.py`, `dag_analysis.py`, `builtin_contracts.py`, `e2_harness.py`) | steps, dependencies, contracts | register, order, waves, groups, compare | runner | the tables agree; groups commute |
| Script (`pipeline/research.py`, `script.py`, `utils/prompt_cache.py`) | beats, draft, cached answers | phases, attempts, judge | language model | script and judgement belong together |
| Speech to subtitles (`pipeline/tts.py`, `align.py`, `translate.py`, `subtitle.py`) | timeline, cached clips | synthesize, align, translate, write | speech services | cues audible, paired and ordered |
| Matching (`pipeline/scenes.py`, `scene_filter.py`, `match/`) | scenes, clips | detect, filter, assign, diversify, rate | render | playable, varied, rated fairly |
| Music, render, export (`pipeline/bgm.py`, `render.py`, ...) | media files | mix, render, publish, export | ffmpeg | whole video, text once, encoder told |
| Quality checks (`pipeline/qa_gate.py`, `utils/*_qa.py`) | figures of the run | measure, gate, dashboard | runner | about this run, and stop what they should |
| Settings (`workflow/merge.py`, `presets/`) | job, presets, registry file | merge, install, remove | runner, worker | what was asked is done; names have files |

**How the parts interact.** A client thread calls `submit`, which saves the task
`PENDING`, registers a `CancelController` and a completion event, and hands the
task to a thread pool. The pool thread enters the retry loop, whose callbacks
save the task through the queue; `run_pipeline` calls the steps in order on one
context, and the console hook writes a checkpoint after each. Meanwhile other
threads call `cancel` and `wait`, a signal handler starts a drain, the scheduler
and batches submit more, webhooks announce outcomes, and the process may die.
Locks cover dictionaries and counters; every store access, file operation and
pair of critical sections is a point where threads interleave.

**Hard behaviours** are listed with their lines under `hazards` in
`PROJECT.json`, each with the properties that would catch it going wrong.

## 2. Modules

Each module keeps one part; its header says what is abstracted. Operators with
"(mutant: ...)" above them are not part of the specifications: each is a
plausible bug in the definition that follows it, and `PROJECT.json` pairs it
with the property that notices it.

| Module | Code | State and actions |
|---|---|---|
| `TaskQueue` | `cloud/queue.py`, `worker.py`, `checkpoint.py`, `storage.py`, `dlq.py` | see 2.1 |
| `TaskLifecycle` | what the queue promises of a task | an abstract specification that `TaskQueue` implements |
| `Pipeline` | `pipeline/runner.py`, `preflight.py`, `cloud/worker.py` (hook), `cli/commands/` | see 2.2 |
| `StepGraph`, `BuiltinSteps` | `pipeline/registry.py`, `dag.py`, `dag_analysis.py`, `builtin_contracts.py`, `canonical.py` | Kahn's order, the waves and the groups, one choice per step, over a registry that plugins may extend; the built-in registry as it is |
| `StepMerge` | `pipeline/e2_harness.py`, `dag.py` | two steps run in order, side by side from the same context, and merged |
| `QualityGate` | `pipeline/qa_gate.py`, `qa.py`, `utils/*_qa.py`, `utils/quality_dashboard.py` | `figures`, written by each check, over a rerun; the gate, the probe of the film, the dashboard |
| `CircuitBreaker` | `reliability/circuit_breaker.py` | one action is one critical section; `call[c]` is what a thread holds between admission and outcome; `cooling` says whether `recovery_timeout` is still running |
| `BatchTracker` | `cloud/queue.py`, `submit_batch` to `_refresh_batch` | the record on disk, the copies of the maker and of each reader; each member's row and controller, and (history) how its run ended. `cancel_batch` goes from member to member, loading, deciding and saving |
| `JobScheduler` | `cloud/scheduler.py` | cron fields as sets of values, the next instant as a search over a calendar; the loop lists, submits and saves, each a step |
| `RemoteRender` | `cloud/distributed.py`, `remote_queue.py`, `remote_provider.py` | the tasks of each host, where each worker stands in the remote leg and the pipeline, where its checkpoint would resume (before or after the render, after everything), the video in each directory; any host may die, in the middle of a download too |
| `WebhookDispatcher` | `cloud/webhooks.py` | callers, a pool of posters, the bounded queue, `close()` and its sentinels |
| `Admission` | `cloud/ratelimit.py`, `entitlements.py`, `api/routes/` | the thread of a request, the ordered table of buckets with their levels and clocks |
| `RaceExecutor` | `race_executor.py`, `race.py` | candidates, their futures, the bounded pool whose threads enter a future before they look at the candidate, `cancel()` from another thread; scores in hundredths |
| `ArtifactSweeper` | `cloud/lifecycle.py` | which tasks the server takes for running, the sweep's list, and the files, while tasks write and wait for retries |
| `MediaCache` | `utils/media_cache.py` | blobs, sidecars, and for each fetcher where it stands between two file operations; an eviction lists, looks at sizes, looks at times and deletes, and gives up when a blob is gone |
| `ScriptWriter` | `pipeline/research.py`, `script.py`, `utils/prompt_cache.py` | phase and attempt, the cache as a sequence, the draft as line lengths |
| `Narration`, `VoiceCache` | `pipeline/tts.py`, `align.py`, `translate.py`, `subtitle.py`, `tts/cache.py` | a timeline in ticks of 50 ms handed through four steps; the concurrent synthesis batch over shared files |
| `ClipMatch` | `pipeline/scenes.py`, `scene_filter.py`, `match/`, `utils/match_quality.py` | scenes as intervals; likenesses are chosen of three degrees, the assignment is computed; windows are clamped to the bounds of the job, those of swapped scenes to fixed ones |
| `Ranks` | | members of a set by rank, members of a sequence at some positions: what `_trim_segments` and the scene filters keep |
| `FinalCut` | `pipeline/bgm.py`, `subtitle.py`, `render.py`, `deliverable.py`, `export_clips.py` | media files carry the number of the narration they were made from; the emotions of the beats are spread over the lines, the lines over zones, the zones over the samples of the music |
| `JobSettings` | `workflow/merge.py`, `presets/community.py`, `cloud/worker.py` (plan) | one representative of each way a key is treated; installers with a thread each |
| `Daemon` | `cloud/daemon.py`, `cloud/api/server.py`, `cloud/health.py`, `cloud/dlq.py` | frames of the signal handlers, the flags of server and queue, request threads |
| `TaskQueueProofs`, `TaskQueueLifecycleProofs`, `PipelineProofs`, `StepProofs`, `ServiceProofs`, `PartProofs`, `FileProofs`, `NaturalFacts` | | section 4 |
| `MC_TaskQueue`, `MC_Pipeline`, `MC_Services`, `MC_Parts` | | instances for TLC, section 3 |

### 2.1 TaskQueue

One action is one critical section of `self._lock`, or one access to the store.
Two kinds of neighbours are merged: `controller.reset()` with the save of
RUNNING/RETRYING and the resolution of the checkpoint (`AttemptFrom`), and the
pop of a completion event with the `set()` that follows it (`PopAndSet`): nobody
can observe the state between them in a way that changes a later step.

| Variables | Code |
|---|---|
| `store` | `TaskStorage`: status of each row, `ABSENT` without one |
| `ckpt` | `CheckpointStore`: the last checkpointed step, the steps whose results its context holds |
| `dlq` | `DeadLetterStore` |
| `ctl`, `flag` | `_controllers`; the event inside each `CancelController` |
| `event` | `_completion_events`: `armed` while registered, `set` once popped and set |
| `fut`, `futures` | state of each `Future`; `_futures` |
| `active` | `_active_count` |
| `phase`, `accepting`, `shut` | `_started`/`_shutting_down`, the executor's own flag, where `shutdown()` is |
| `job` | the worker thread of each task: program counter, in-memory status, attempt, step, results held, kind of error |
| `sub`, `canceller`, `waiter`, `orphans` | where `submit`/recovery, `cancel`, `wait` and the recovery loop are |
| `emitted`, `accepted`, `charged` | history only: announced outcomes, when a cancellation was accepted, work begun by an earlier process |
| `budget` | what is used up of `MaxCrashes`, `MaxCancels`, `MaxFaults`, `MaxCleanups` |

| Code | Actions |
|---|---|
| `start`, `_init_active_count`, `_recover_orphaned_tasks`, `_recover_orphan` | `Start`, `RecoverResume`, `RecoverFail`, `StartDone` |
| `submit`, `_enqueue_task` | `SubmitSave`, `SubmitRegister`, `EnqueueSchedule`, `EnqueuePublish`, `EnqueueRaises` |
| `cancel` | `CancelLoad`, `CancelSignal`, `CancelNoController`, `CancelWrite`, `CancelSettle` |
| `_run_task_threadsafe` | `WorkerPick`, `Notify`, `HandleError`, `Finalize` (and `WorkerRaises`: what it catches) |
| `_run_task_with_retry` | `BeginAttempt`, `DeleteCheckpoint`, `BackoffCancelled`, `BackoffElapsed`, `RouteToDeadLetter`, `Conclude` |
| `_execute_task`, `run_pipeline` | `RunStep`, `StepCancelled`, `StepRaises`, `PipelineDone`, `ReportOutcome` |
| `wait` | `WaitBegin`, `WaitWake`, `WaitPoll` |
| `shutdown`, `_cancel_inflight` | `ShutdownBegin`, `ShutdownAbandon`, `ShutdownDrain`, `DrainJoined`, `DrainTimedOut`, `Inflight*`, `ShutdownDone` |
| `cleanup_terminal`, `cleanup_all` | `CleanupTerminal`, `CleanupAll` |
| the process ends | `Crash` |

Abstracted: a task is its id, a pipeline a number of steps, an error retryable or
not; any queued task may be picked next, which includes first-in-first-out; the
request of a task never changes, so a checkpoint's fingerprint always matches;
the backoff may end at any time; every orphan is found; `start` runs only in a new
process; `wait` has no timeout and is called by somebody `submit` returned the id
to. The preflight that each attempt repeats writes a checkpoint of its own, over
the one of a later step (the finding `viol_redo`).

### 2.2 Pipeline

| Variables | Code |
|---|---|
| `setup` | the run's host (`cloud`, `cli`, `interactive`), `--strict`, preview mode, the steps switched off, `--pause-at` |
| `pc`, `pos` | where `run_pipeline` is, and the step of its loop |
| `ctx` | the shared context: the steps that had their turn, those a rerun jumped over, the status of each soft step, the list of degraded ones |
| `result` | `ctx.step_state.result` |
| `attempt`, `cancel` | attempt of the cloud task or of a hard step; the controller's event |
| `ckpt`, `saved` | the worker's checkpoint and `pipeline_state.json`, each a step and a context |
| `outcome`, `budget` | how the last run ended; what is used up of the bounds |

The hosts are `BeginFresh`, `BeginRestored`, `BeginAgain`, `GiveUp`, `Retry`,
`BackoffCancelled`, `RequestCancel`, `Resume`, `Rerun` and `Crash`; the loop is
`Preflight`, the `Step*` actions, the degradation of a soft step, the check of
strict mode, the pause and the extraction of the result. A soft step that raises
is reported to the console *before* it enters the list of degraded steps and
again after, so it is checkpointed twice; both saves are actions.

`TaskQueue` sees of a run only its position and the results it holds, `Pipeline`
sees of the queue only retries, recovery and cancellation. Both translate the
checkpoint hook and `resolve_resume`.

### 2.3 Two things all modules share

Threads that the code locks against each other are one action per critical
section; file operations and store accesses outside a lock are actions of their
own, and a step that fails half-way leaves what was done. Media, texts and
network answers are members of small sets: what is chosen freely is what the
outside world decides (an answer, a similarity, a call that fails), never what
the code computes from it.

## 3. Model checking

### 3.1 Runs

| Run | Bounds | Distinct states | Question |
|---|---|---|---|
| `queue_one` | 1 task, 2 steps, 1 retry, 1 each of crash, cancellation, fault, cleanup; a drain with a timeout or an abandoning shutdown | 4.3 M | do the persisted verdict, checkpoint and dead-letter record stay consistent with what is executed, is anybody left waiting for a task that no thread has, and does the counter count only work that exists? |
| `queue_live` | 2 tasks, 1 worker, 1 retry, 1 crash, both waited for, one with a dead-letter queue | 67 k | nobody cancelling: is the counter exact, are waiters signalled last, are announcements true? Do started tasks settle and waiters wake up? Is the queue an implementation of `TaskLifecycle`? |
| `queue_drain` | 2 tasks, 1 worker, 1 retry, drain without a timeout | small | does a drain end? |
| `pipeline` | 4 steps (soft, hard, soft, soft; first and last skippable), every host, strict or not, preview, steps off, pauses; 2 crashes, 2 retries, 2 reruns, 1 lost checkpoint; registries of up to 2 built-in and 2 plugin steps with any of 38 declarations, also two for one callable; all pairs of 6 programs; 3 scripts, 2 recordings, 3 cue lists, 5 films, 1 rerun | 1.3 M | is every step given its turn, is a failure told, does strict mode hold, is the order sound, do grouped steps commute, are the checks honest? |
| `services` | breaker: 3 threads, threshold 2, 2 slots, 3 failures; batch: 2 members, a reader, a crash; scheduler: 3 expressions, 4 days of 2 minutes, a crash; remote: 2 nodes (one way, both ways), 3 tasks, a crash of any host, checkpoints before and after the render | 634 k | do the services that owe somebody an answer give it, and a true one? |
| `parts` | as in `parts.cfg`, see below | 3.1 M | twelve parts with threads, files or long computations: does each keep its promise? |
| `viol_*` | section 5 | | what a comment says and the code does not |

The parts of a run that share no variable are disjoint initial choices (`part`),
and a behaviour is one of them, so such a run is several models checked one
after the other.

**What the properties say.** Of a task: a settled one is in nobody's hands, and a
`DEAD` one has its record (`SettledForGood`); an attempt stands on the results of
every earlier step (`NoStepSkipped`); a cancellation during an attempt or its backoff
is obeyed (`LiveCancelSticks`); a started task settles (`StartedTaskSettles`). Of the
queue: whoever waits for a task, or reads that it is being worked on, waits for a
thread that has it or will take it (`NothingForgotten`); `NoPhantomActive`,
`ActiveCountExact`, `OutcomesTold` (waiters and webhook consumers), `WaiterWakes`,
`DrainEnds`. Of a run: `NoStepLost`, `StrictNeverCompletes`, `DegradationListed`,
`RunEnds`. Of the registry: `GraphSound`, `CanonicalSound`, `GroupedStepsMerge`. A property named
`...Sound` of a smaller part is the conjunction of the few things that part
promises, each with its comment in the module.

**Why the bounds are enough.** The properties of `queue_one` relate the disk, the
worker and the clients of a single task, and the theorems of section 4 extend
them to any number. The counter and the worker pool are all that tasks share, so
the runs about them use two tasks and one worker: a queued task while another
runs. One retry separates first and later attempts, two steps a partial
checkpoint from a complete one. In `pipeline` the two crashes matter: strict mode
can be got round only by as many crashes as steps run after the failure, which
one crash and a last step that always runs would hide. Threads come in twos where
they race for one resource (files, buckets, registry, letters) and in threes where
two stale ones meet a fresh one (breaker, voice batch). Tables have one entry more
than their limit: two buckets' tenants for a table of one, three cached clips for
one file, two cache entries over the byte limit, three schedules for a listing of
two, three scenes where two may be reused. Numbers sit on both sides of every
threshold: durations over and under the target, drafts too long and too short,
films of each kind.

**Deadlock.** All configurations say `CHECK_DEADLOCK FALSE`: a queue whose tasks
are settled, a run that has ended, a batch that is read no more has nothing to
do. The liveness properties say where stopping is not allowed.

### 3.2 Fairness

`TaskQueue!Fairness` is weak fairness of each thread: the starting thread, each
submitter, canceller, worker and waiter, and the thread in `shutdown`. The code
runs each on an operating-system thread that blocks only where the model's guard
blocks: the lock is held for a few dictionary operations, never across I/O or
another wait. No fairness is assumed of clients, crashes, faults or the drain's
timeout. Weak fairness of a worker does not force its steps to succeed: a step may
fail at each attempt, and the retry budget ends the loop. `Pipeline!Running` is
the thread of the run in the same sense.

The circuit breaker assumes that time passes, that a call which the service does
not fail returns (clients call with timeouts) and that threads keep calling; the
number of failures is finite but arbitrary. A batch assumes that its members run
and that somebody keeps polling, which is what refreshes it; the scheduler that
its loop steps (it sleeps with a timeout); remote rendering that the host of the
clients is started again after a crash (`docker-compose.yml` says `restart:
unless-stopped`) and that the worker of each task steps, whose polls have a deadline, and so it is the deadline that
resolves two nodes whose workers wait for each other.

### 3.3 Refinement

In `TaskLifecycle` a task is unknown, waiting, working, or settled in one outcome
for good, and a task being worked on settles. The mapping `Stage` keeps a task
*working* while its worker owes it a retry or a better verdict, although the
store says `FAILED` at that time; a crash in that window settles the task as
`FAILED`, which is why the abstract specification has `SettleMany`. It is checked
(with fairness) without cancellations, shutdowns and faults, because with them it
is false: see section 5. Its safety half, that every step of the queue is a step
or a stutter of the abstract life, is a theorem (`LifecycleRefined`) for any number
of tasks, workers, retries and crashes; that a task being worked on settles stays
with TLC.

The pure algorithms are compared with declarative definitions in their modules:
Kahn's order with "no step before its dependencies", the waves with the pairs
that conflict, the e2 comparison with running the steps in order, the cron search
with the instants that match, the merge of short scenes with the intervals it
covers, the merge of settings with who asked last.

## 4. Proofs

All theorems hold for every value of the constants that satisfies the named
assumption of the module. The assumptions ask for finitely many tasks, threads,
files and owners, for natural numbers as sizes and bounds, and for what the code
fixes: the defaults of the options and the flag of `--strict` in `JobSettings`,
that the orders of a film are orders in `FinalCut` and its music files have a score, channels
and a length, that a clamp in `ClipMatch` contains the original speed (as in the defaults and every
preset), that likeness of beats (the share of
common bigrams) does not depend on which comes first in `ScriptWriter`. The bounds on the environment
are arbitrary, so the theorems hold for any number of crashes, cancellations,
faults, retries and reruns.

**`TaskQueueProofs`**: `TypeCorrect`; `Inductive`, `Spec => []IInv`, where `IInv`
is `TypeOK` and, for each task, `TaskInv`; and from it `SettledStays` (by
`DeadRecorded` and `SettledOutOfHands`), `NothingSkipped`,
`RecoveredFromCheckpoint` and `LiveCancelObeyed`. None of those properties is inductive. What they need in
addition is why they hold: the record is written before the verdict leaves the
worker (`RecordFirst`); nothing in memory outlives the process (`ProcessBound`); a
task is executed only after it was scheduled (`Scheduled`); nobody else writes to
the row of an orphan or decides a worker's report (`OwnVerdict`); work begun before
a crash is enqueued only with a checkpoint, and keeps it until it reports
(`FromCheckpoint`); an accepted cancellation stays in the flag until the attempt
ends (`CancelPending`). Recovery from a checkpoint rests on two facts far apart in
the code: recovery enqueues only a task with a checkpoint (queue.py), and the
checkpoint is deleted only after the attempt has been reported (worker.py).

**`TaskQueueLifecycleProofs`**: what the queue says of all its tasks together.
`NoPhantoms` is a counting argument: the counter is at most the number of tasks that
are registered, left over, orphaned, or being cancelled while their submission is
still under way (`CountBound`), because each step that raises the counter adds a
task to that set and each step that takes a task out of it lowers the counter
(`CountStep`); the second decrement of a cancellation that races its worker only
makes the bound looser. `NothingIsForgotten` is about the four places in which a
task is held, which no lock keeps together: the registry, the future, the worker's
thread and the row. The invariant `Held` says what each implies of the others:
whoever got an id has a future (`Enqueued`), a running future has a worker and one
that is done has released its waiters (`Taken`), and unless a save failed, a row that
says work is going on is *owed* by a thread, by recovery or by the pool's queue
(`Reported`). It holds with every cancellation, crash, cleanup and shutdown. Two
exceptions are part of it: a failing save, and a future that an abandoning shutdown
cancelled, whose waiters nobody wakes (section 5). `EveryWorkEnds` gives
each worker the number of steps it has left, over all attempts (`StepsLeft`): its
own steps lower it, nobody else changes it but the end of the process. Where nobody cancels, cleans up or shuts down and no save fails (`Quiet`)
the bound is an equality: `QuietInv` follows each task through submission,
recovery and its worker, and gives `CountIsExact`, `OutcomesAreTold`
(`SignalsAreFinal` and `NotificationsMatch`) and, action by action through `StageStep`, the refinement
`LifecycleRefined`.

**`PipelineProofs`**: `PipelineTyped` and `NoStepEverLost`. The invariant `IInv`
adds `Frontier`: the position of the loop and the step of each file on disk say
which steps had their turn. `FailuresAreListed` follows the one moment at which a
failed step is not yet in the list, and shows that no retry, pause or resume sees
it. `StrictModeHolds` is an accounting argument: let a failed step *owe* one crash
for every later step that has run. `Paid` says that this debt is covered by the
crashes so far, `Owed` that the step in hand will be either stopped by the check or
paid for by one more crash; `Escapes` says which of the two holds at each program
counter and in each file. The cardinality of the steps that ran after a failure
grows by one at each step, and the proof matches that with the crash that every
such step needs. `EveryRunEnds` compares attempts left, steps left and what is left to
do about the step in hand, in this order: each step of the program lowers the first of
them that changes, and only crashes and reruns, which are bounded, raise them. A run
restored from the checkpoint of an earlier step has more steps left than the one that
failed, but one attempt fewer.

**`StepProofs`**, the graph: `GroupedStepsCommute` (two steps in one group, side by side,
leave what they leave in order: contracts that do not touch make their functions
commute), `TopologicalOrderSound` (Kahn's algorithm emits no step twice and none before its
dependencies, whatever plugins ask for) and `GraphHolds`, all of `GraphSound` for any
catalog of declarations, with unknown names, shared callables and cycles among them. Its
invariant `GraphInv` has one part for each stage. `Arranged`: the linear order is computed by
concatenations inside recursive functions, so its proof gives each step one number, its *spot*
(`Spots`): the built-in steps stand on the even ones, what goes before or after them on the
odd ones between, and what is left over behind all. Each concatenation keeps that everything
in front has a smaller spot (`Follows`), so the finished list is sorted by spot, and its
places answer every question about sides. `TopoInv`, `Ascending` and `LowerSet`: what Kahn's
loop has emitted is closed downwards in the linear order as long as dependencies point
backwards, so what it emits next is the next of that order. `Layers`: a wave holds exactly
the steps whose dependencies lie in earlier waves, the last of them in the wave before;
the code decides that by in-degrees, which a bijection between emissions and dependencies
turns into it (`DegreeIs`). `Parted`: first fit keeps groups disjoint and compatible. A
left-over set in which everybody waits for another is the cycle that an error reports, and
if dependencies point backwards the first of such a set would wait for nobody. The waves
need that no callable has two names (`NoAlias`; without it they fail, section 5); that
all names are listed implies it, so that complete waves and groups are sound without the
hypothesis.

**`StepProofs`**, the steps: `NarrationHolds`, for any script, pauses, voices and answers
of the backends. The sums of durations are recursive functions, so that the estimated lines are
laid out without overlap (`RunningSums`, `LaidOut`); every cue an alignment writes
lasts at least the shortest time, by cases of what the recogniser heard (`MovedCue`,
`WithinAudible`, `RemapAudible`, `WordsAudible`); packing texts into requests is a
recursive function whose chunks, laid end to end, are the lines from the first to the
last (`PackKeeps`, `AllPacked`, `ChunksCover`). `ScriptHolds`: the lines a script keeps
are those of the lowest ranks in an order; in a linear order of n positions exactly k have
fewer than k before them (`RanksFill`), so a trimmed script has the size asked for
(`KeptIs`), and the beats left by the recursive `Dedup` are unlike each other whatever was
left out (`DedupUnlike`). Its invariant says, attempt by attempt, which of the beats, the
draft and the cached answer the judgement in hand is about. `QualityHolds`: each figure in
the metadata is the one of the script, recording and captions next to it until the step
that replaces them has run again (`FiguresTrue`), so that a rerun from any station judges
what it uses; a mean with positive weights lies between its terms (`MeanBetween`,
`DashboardFits`), and a film that passes was heard and seen (`Playable`). `ClipsHolds`: scenes tile the video, and
merging keeps them so: what is merged so far and what waits always reach the scene in hand
(`MergeTiles`). Filters leave footage (`PoolIs`), the greedy assignment and the heuristic
pick a scene of it for every line (`GreedyIs`, `HeuristicIs`), and the clamp fits it to the
line, which needs its rounding and holds for any clamp (`ClampFits`), that of the job or the
fixed one of a swap (`SwappedIs`). The pass that exchanges scenes makes
the line in hand various and touches no earlier one, whose window lies behind it
(`VariedIs`, `SameSoFar`, `DiversifyIs`). A line is rated down only if an earlier line of
the rating's window already had its scene too often in the *other* window, which contains
all the uses that count (`RatedDown`); there no scene was free. How lines are spread over weighted
acts does not matter to any of this, so no fact about that fold is used.

**`ServiceProofs`**: `BreakerTyped`, `SlotsNeverLeak`, `ClosedIsHealthy` and their
conjunction `BreakerIsSound`: that no probe slot leaks is inductive given the types, since the
counter and the set of running probes go down together, and the counter alone may be
reset. `BatchesAreHonest`: every copy of the record, the one on disk
and those in the hands of the maker and the readers, counts as completed only members
whose run ended in success. How a run ended never changes, and that is why a stale copy
stays honest; the row of a member is no such witness, because a cancellation that loaded
it earlier may save `CANCELLED` over `COMPLETED`. `RowsFollow` says what the row can be then.
`SchedulesFireOnce`: an instant is served twice only if it is *torn* by a crash;
what a loop has listed but not saved is accounted for by the set of served
instants, and the next one lies behind all of them. `RemoteVideosWhole`: a task
that says completed has a whole video, unless it is one of those that section 5 names
(`cut`: its own download ended early, and a checkpoint past the render made it go on).
The invariant says which worker is alone on which directory (`OneWorks`, `OneWrites`):
two remote legs never download to one path, and a local render begins only when the
remote leg has given up; and what a checkpoint past the render implies of the file that
lies there.

**`PartProofs`**: `DaemonTells` (a request that found the queue open was admitted
before the flag; a dead letter counts a replay only after the queue has taken
it). `PendingServed`: a delivery is in exactly one place, the queue or the hands of
one poster, `unfinished` counts both (`Tallied`), and whatever was put before
`close()` lies before the sentinels (`EarlyServed`). `NarrationHonest` (the owner of
a line decides how it is billed; a line that no other repeats has a file of its
own). `RaceKeepsResults` (the state of a future and of its candidate agree, with
what the canceller looked at in between, and a cancelled one that was called all the
same has its flag set before it takes a step; the promoted one is the best of the
successes). `AdmissionHolds`: between two instants a bucket gives no more than its
level then, plus a refill per tick and per thread that may hold an older clock:
the sum of what was granted and what is left grows only by refills, and each
thread between its clock and the lock is charged one of them.

**`FileProofs`**: `SettingsHold`: a preset's name has a file as long as nobody
disturbs it, since only the thread in the lock writes (`Undisturbed`); the merged
value is computed by cases from the way the key is treated. `CacheHolds`: a blob
comes from the link its sidecar names (`CacheInv`), and the cap is owed by the last
thread that listed the directory: whoever lists later sees every entry stored
before, so when nobody is evicting the debt is paid, or was given up since the last listing. Sums over finite sets are
cardinalities of sets of pairs, so that they can be reasoned about at all.
`SweepsAreSafe`: what the sweep deleted was old or over the cap when it was listed
and not of a task the server saw as in flight; the newest of each owner are spared because the
list is ordered and the entries after the one in hand inject into the newer ones.
`FilmsAreSound`: `FinalInv` says at each stage which of the context, the saved
context and the files on disk belong to the same narration, what is left of an
aborted render, and what the context tells of the encoder. The music: whatever
emotions the lines get from the beats, merging neighbours of one emotion gives zones that cover
every line and have its emotion (`ZonesRight`), and the gain of the samples at a line is that of its zone if the
music is mono and lasts (`MoodTuned`).

**Induction (`NaturalFacts`).** The library's induction theorems take an operator as a parameter,
which the installed provers cannot instantiate. `EveryNatural` is
the same principle for a *set* of naturals, proved from the well-foundedness of
the subset ordering; `Folded` shows that a function defined by recursion over an
interval exists, so that its equation may be used, and `FoldedTyped` that it stays
in a set each step keeps. With them the proofs reach the loops of the code that are
written as recursive functions. Folds of the community modules take an operator and stay
out of reach: what a proof needs of such a sum is stated with a cardinality instead.

**Only model-checked**: every liveness property (`StartedTaskSettles`,
`WaiterWakes`, `DrainEnds`, `RunEnds` and those of the services) and the fairness
half of `ImplementsLifecycle`, because fairness and ENABLED are out of the prover's
reach. What of them is safety is proved: nobody waits for nobody
(`NothingIsForgotten`), and the worker and the runner come nearer to their end with
every step (`EveryWorkEnds`, `EveryRunEnds`); that they do step is fairness. And
`CanonicalSound`, which is about one fixed registry, that of the built-in
steps: the run evaluates it there, and no larger instance exists.

## 5. Where the code does not do what it says

Each of these is a run that TLC ends with a counterexample; the quotation and the
line are under `findings` in `PROJECT.json`.

| Run | What happens |
|---|---|
| `viol_queued_cancel` | the cancellation of a queued task returns True and is erased by `controller.reset()`: the task runs |
| `viol_cancel_outcome` | `cancel` writes back a copy loaded before the worker finished: `COMPLETED` becomes `CANCELLED` |
| `viol_redo` | the preflight of a second attempt overwrites the checkpoint with one that names no step: the third attempt redoes everything |
| `viol_audio` | a rerun from the speech step that mixes no music, or fails to, delivers the narration of the run before (normalized, or in the old mix) under new subtitles |
| `viol_subtitles` | the gate reads names the subtitle check never writes, so it never fires |
| `viol_remote` | a connection that breaks during a download fails the task instead of falling back |

The models have these behaviours too, and the properties exclude them where they
would fail, saying so in their comments:

- **Queue.** During a backoff the store says `FAILED`, so `cancel` refuses
  (worker.py:786). `shutdown(wait=False)` cancels queued futures and then passes
  over them as done: their tasks stay `PENDING`, counted at every restart, and
  whoever waits for one is not woken (queue.py:871; `Dropped` in `NothingForgotten`). `cancel` and the worker both decrement the counter for one task
  (queue.py:519).
- **Breaker.** A new HALF_OPEN phase forgets the probes still running, so more than
  `half_open_max_calls` run (circuit_breaker.py:258); a probe of an earlier phase
  closes a circuit that has just re-opened (circuit_breaker.py:279).
- **Strict mode.** A failure is checkpointed before strict mode looks at it: a task
  whose process dies in between, at each later step that runs, completes
  (`StrictNeverCompletes`). A preview run skips the last step without the check, so
  one crash is enough there. The list of degraded steps is never cleared by a rerun.
- **Batch.** `cancel_batch` looks at each member, decides, and saves the row it loaded
  before: a member that completed in between becomes `CANCELLED` in the store
  (queue.py:500-515; `viol_cancel_outcome` shows it of a single task), and the next refresh
  of the batch counts one success less. `CompletedIsHonest` therefore speaks of how the
  runs of the members ended, and of their rows except those that were cleaned up or
  overwritten in this way. A batch with a `DEAD` member is never finished.
- **Scheduler.** A cancelled
  schedule is brought back by the save of a stale copy (scheduler.py:485); one whose
  next instant is beyond the scan is disabled after it fired; `1,*` in a cron field
  is a wildcard and `*/n` is none.
- **Remote.** An early close of a connection looks like the end of the file, and a
  truncated download counts as whole. A process that dies while it downloads leaves the
  part it had in `final.mp4`; if the task's checkpoint lies past the render (an earlier
  attempt got there, and a retry asked a node again), the restarted task goes on after
  the render, takes the file for the video and completes (worker.py:734-756).
  `RemoteSound` exempts the tasks whose own download ended early in one of these two
  ways and was never replaced (`cut`). Also, a subtask nobody waits for any more goes on and
  may write over a finished video; a subtask that timed out is never cancelled. The
  path of the subtitles is taken over though the file is never downloaded. A node
  that has nodes of its own may fall back to them and pass a download on, so
  `RemoteSound` speaks of nodes without.
- **Race.** `cancel` looks at the phase of a candidate and at its future
  (race_executor.py:261-267). If a pool thread has entered the future and not yet looked
  at the phase, `cancel` returns and the candidate is called all the same. Its pipeline
  then sees the flag before its first step, but not before the preflight, which runs and
  may fail: such a candidate ends cancelled or failed and takes no step
  (`CancelBeforeStart`).
- **Sweeper.** lifecycle.py:16-18 says that artifacts of a pending or running task are never
  touched, and lifecycle.py:242 counts the retrying ones among them. The server passes the
  tasks that are stored as pending or running among the newest 1000 (api/server.py:229-231).
  A task that waits between two attempts is stored as `FAILED` (worker.py:771-786), and an
  old task may be beyond the thousand: their files can be swept. `SweepOutcome` leaves
  these out (`missed`).
- **Cache.** `_evict_over_cap` gives up when a blob it has listed is gone before its size or
  time is read (media_cache.py:429-447). If another thread removed that blob and nobody
  stores after that, the cache stays over its cap; `CacheSound` leaves out the time from
  such an eviction to the next listing (`abandoned`).
- **Music.** The docstring of `_apply_emotion_transitions` (bgm.py:306-315) speaks of an
  envelope over the samples with a gain for each zone. The zones are turned into positions
  with the frame rate and applied to an array in which the samples of all channels
  alternate (bgm.py:323-344), so in stereo music each mood comes at half its time. Music
  shorter than the narration is repeated with the moods of its first pass. `MoodFollows`
  is stated for mono music that lasts. The ramps of 500 ms are shorter than a line and left
  out; where all lines have one emotion there is one zone and no gain.
- **Film.** The comment at render.py:1064 says that the encoder and the reason in the
  context are truthful. A context saved after a render keeps them when `mn resume`
  takes it up after `mn rerun` has made another video with another encoder
  (`EncoderTold` leaves that case out).
- **Daemon.** While `mn serve` drains, its probes are not answered, because the
  handler runs on the accepting thread; a signal that interrupts a lock's holder
  deadlocks on that lock, and a second one may cut the first drain short. Single
  submissions are refused while draining, batches and replays are not. Replays use
  the process-wide store of dead letters although the server may have been given its
  own; two replays at once count as one; a replay that races a deletion brings the
  record back. After `stop()` and `start()` the server accepts while its queue is shut.
- **Admission.** The limit on active tasks is checked before the submission, so
  concurrent requests exceed it by what they carry (`OvershootBounded`); the clock is
  read before the lock, so the same interval may refill a bucket once more per thread
  (`RateBounded`).
- **Settings.** `params.target_platform` and `params.lang` of job.yaml are not copied;
  a value equal to the default counts as not given, and loses to a preset; a preset
  replaced between two look-ups in one run is seen half old and half new, so a plan's
  watermark can be lost. The registry of presets is locked against threads, not
  against other processes.
- **Quality.** An unknown duration passes the check of the length; figures of steps
  that a rerun skips stay in the report; a translation that fails altogether stores no
  figure, so the gate passes; a clip's composite score always has a part, so its
  rating is never unknown.
- **Registry.** With one callable under two names the wave analysis reports a cycle where
  there is none (`CycleIsReal` asks for `NoAlias` there): the list meant to cover every step
  (dag_analysis.py:107) is built after the names it should add have entered the table it
  looks in, so the name the linear order leaves out is never layered, and the one listed
  twice lowers the in-degrees of its dependents twice. A step whose name the linear order leaves out, because another one has its
  callable, is placed behind as many steps as there are *different* names in that order
  (dag.py:196), which is before the end of it if a name is listed twice; what plugins ask
  for is kept only if no callable has two names (`PluginsBesideTargets`).
- **Script, speech, matching.** An expansion prompt is served from the cache although
  the judge asked for another draft. When one chunk of a translation fails, every line
  keeps its own text: translate.py:163-164 says that the failed chunk falls back and
  "Other successful chunks are kept", but the exception that reports the failure
  discards them. `NarrationSound` asserts neither: it says only that each cue has the
  text of its own line, translated or not. The alignment may move a cue before the one it
  follows; the windows of clips may be clamped into a skipped intro. The pass that swaps
  scenes for variety clamps to 0.85 and 1.25 (fallback.py:175-176) whatever
  `match_speed_clamp_min` and `_max` are, so a swapped clip may leave the job's clamp, of
  which match/__init__.py:523 says "factor stays in [clamp_min, clamp_max]"; `ClipsSound`
  allows a swapped clip the fixed clamp. The floor of half a second (score.py:158) raises
  a smaller minimum for merged scenes when the beats have a zone. A line may be heard cut
  short if another with the same text writes the file they share (`OwnTextHeardWhole` is
  about the others).

## 6. Not modelled

- **Video resolution and assets**: look-ups by name without state; their downloads
  go through `MediaCache`.
- **Providers**: network clients. Their calls are the guarded bodies of
  `CircuitBreaker` and the answers in `ScriptWriter`, `VoiceCache`, `Narration`.
- **Observability, cost ledger, child processes**: counters, log records and an
  append-only bill that nothing reads back; an external program that fails or times
  out is a failing step.
- **Content-quality benchmark** (`content_quality/`): an offline comparison of reports.
- **Command line, API description, client SDK**: sequential front ends and a constant
  document.
- **Parts of modelled components**: a second `start` of a queue object after its own
  shutdown and the split CPU/GPU pools; the migration of a legacy `tasks.json`;
  pagination and presigned links of the S3 store; the backoff formula of `with_retry`;
  read-only routes, authentication headers and the encoding of responses; environment
  variables and the validation of single fields; signatures of webhooks; the dashboard's score
  of the matching (it is a mean with one term more).

What could still be added: the split pools.
