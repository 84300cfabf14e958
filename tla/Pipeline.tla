------------------------------ MODULE Pipeline ------------------------------
(***************************************************************************)
(* run_pipeline() (pipeline/runner.py) and its three hosts: a cloud worker *)
(* that checkpoints the context whenever the console reports the end of a  *)
(* step, retries and recovers; the command line with pause, resume and     *)
(* rerun; and the command line with the interactive retry/skip/abort       *)
(* controller.  TaskQueue sees of a run only its position; here the        *)
(* context that the steps share is what the properties are about.          *)
(***************************************************************************)
EXTENDS Integers, FiniteSets

CONSTANTS
  N,             \* number of registered steps, numbered in execution order
  SoftSteps,     \* the steps registered with soft=True
  PreviewSkips,  \* _PREVIEW_SKIPPABLE_STEPS
  Setups,        \* the run configurations to explore, see Setup
  MaxCrashes,    \* times the process may die
  MaxRetries,    \* retries of a cloud task, answers "retry" of a user
  MaxReruns,     \* uses of mn resume and mn rerun
  MaxFaults      \* checkpoints that cannot be written

Steps == 1..N
StepStatus == {"fresh", "success", "skipped", "failed", "disabled"}

(***************************************************************************)
(* A configuration: who hosts the run, --strict, preview mode, the steps   *)
(* the workflow disables and the step --pause-at names (0: none).          *)
(***************************************************************************)
Setup == [host : {"cloud", "cli", "interactive"}, strict : BOOLEAN,
          preview : BOOLEAN, off : SUBSET Steps, pause : 0..N]

ASSUME PipelineAssumption ==
  /\ N \in Nat \ {0}
  /\ SoftSteps \subseteq Steps /\ PreviewSkips \subseteq SoftSteps
  /\ Setups \subseteq Setup
  /\ MaxCrashes \in Nat /\ MaxRetries \in Nat
  /\ MaxReruns \in Nat /\ MaxFaults \in Nat

VARIABLES
  setup,   \* the configuration of the run
  pc,      \* where run_pipeline() is
  pos,     \* the step of the loop
  ctx,     \* the shared Context
  result,  \* ctx.step_state.result
  attempt, \* attempt of the cloud task, or of a hard step
  cancel,  \* the controller's event
  ckpt,    \* the worker's checkpoint file
  saved,   \* pipeline_state.json
  outcome, \* how the last run ended
  budget   \* how much of each bound is used up

vars == <<setup, pc, pos, ctx, result, attempt, cancel, ckpt, saved, outcome,
          budget>>
host == <<setup, cancel, saved, outcome>>

-----------------------------------------------------------------------------
(***************************************************************************)
(* The context: which steps have had their turn (run, skipped, disabled or *)
(* degraded), which ones the user told rerun to jump over, the status      *)
(* field of each soft step and metadata["_degraded_steps"].                *)
(***************************************************************************)
Context == [handled : SUBSET Steps, waived : SUBSET Steps,
            status : [SoftSteps -> StepStatus], degraded : SUBSET SoftSteps]
NewContext == [handled |-> {}, waived |-> {},
               status |-> [s \in SoftSteps |-> "fresh"], degraded |-> {}]

\* a context on disk, with the step that was complete: 0 is the preflight
Dump   == [mark : 0..N, ctx : Context]
NoFile == [mark |-> -1, ctx |-> NewContext]

\* the points of the loop at which a step is in hand
InStep == {"exec", "asked", "degrade", "settle", "strict", "pause"}
Pcs    == {"idle", "preflight", "boundary", "extract", "backoff", "ended"}
            \cup InStep
Budget == [crash : 0..MaxCrashes, rerun : 0..MaxReruns, fault : 0..MaxFaults]

TypeOK ==
  /\ setup \in Setups
  /\ pc \in Pcs
  /\ pos \in 1..(N + 1)
  /\ ctx \in Context
  /\ result \in {"none", "success", "skipped", "warning", "disabled"}
  /\ attempt \in 0..MaxRetries
  /\ cancel \in BOOLEAN
  /\ ckpt \in Dump \cup {NoFile} /\ saved \in Dump \cup {NoFile}
  /\ outcome \in {"none", "completed", "cancelled", "failed", "strict",
                  "paused", "lost"}
  /\ budget \in Budget
  /\ pc \in InStep => pos \in Steps
  /\ pc = "degrade" => pos \in SoftSteps
  /\ pc = "backoff" => attempt < MaxRetries

Init ==
  /\ setup \in Setups
  /\ pc = "idle" /\ pos = 1 /\ ctx = NewContext /\ result = "none"
  /\ attempt = 0 /\ cancel = FALSE
  /\ ckpt = NoFile /\ saved = NoFile
  /\ outcome = "none"
  /\ budget = [crash |-> 0, rerun |-> 0, fault |-> 0]

Cloud  == setup.host = "cloud"
Strict == setup.strict

\* the failed steps of a context, and those it does not list as degraded
FailedIn(c) == {s \in SoftSteps : c.status[s] = "failed"}
Unlisted(c) == FailedIn(c) \ c.degraded
Failed == FailedIn(ctx)

\* (mutant: strict mode only looks at the step that has just ended)
StrictTripsOwn == Strict /\ pos \in Failed

\* _check_strict() looks at every status field
StrictTrips == Strict /\ Failed # {}

\* the context with a status for step s, if s is soft, and its turn done
Verdict(s, v) ==
  [ctx EXCEPT !.handled = @ \cup {s},
              !.status = [q \in SoftSteps |-> IF q = s THEN v ELSE @[q]]]

\* ProgressConsole calls the checkpoint hook with the context as it is now; a
\* hook that fails is logged
Notify(mark, c) ==
  \/ /\ ckpt' = IF Cloud THEN [mark |-> mark, ctx |-> c] ELSE ckpt
     /\ UNCHANGED budget
  \/ /\ Cloud /\ budget.fault < MaxFaults
     /\ budget' = [budget EXCEPT !.fault = @ + 1]
     /\ UNCHANGED ckpt

\* run_pipeline() returns or raises
End(how) ==
  /\ pc' = "ended" /\ outcome' = how
  /\ UNCHANGED <<setup, pos, ctx, result, attempt, cancel, ckpt, saved, budget>>

-----------------------------------------------------------------------------
\* The hosts

\* a fresh run of the command line, or the first attempt of a cloud task
BeginFresh ==
  /\ pc = "idle" /\ ckpt = NoFile /\ attempt = 0 /\ budget.crash = 0
  /\ pc' = "preflight" /\ pos' = 1
  /\ UNCHANGED <<ctx, result, attempt, ckpt, budget, host>>

(***************************************************************************)
(* An attempt that follows a retry or a recovery restores the checkpointed *)
(* context.  A checkpoint that names the last step only lacks the result;  *)
(* one that names the preflight has no next step, so all steps run again.  *)
(***************************************************************************)
RestoreAt(next) ==
  /\ pc = "idle" /\ Cloud /\ attempt + budget.crash > 0
  /\ ckpt # NoFile
  /\ ctx' = ckpt.ctx
  /\ pos' = next
  /\ pc' = IF ckpt.mark = N THEN "extract" ELSE "preflight"
  /\ cancel' = FALSE
  /\ UNCHANGED <<setup, result, attempt, ckpt, saved, outcome, budget>>

\* (mutant: the step after the next one)
BeginRestoredTooFar ==
  RestoreAt(IF ckpt.mark \in 1..(N - 1) THEN ckpt.mark + 2 ELSE ckpt.mark + 1)

BeginRestored == RestoreAt(ckpt.mark + 1)

\* a retry without a checkpoint builds the context anew
BeginAgain ==
  /\ pc = "idle" /\ Cloud /\ attempt > 0 /\ ckpt = NoFile
  /\ ctx' = NewContext /\ pos' = 1 /\ pc' = "preflight" /\ cancel' = FALSE
  /\ UNCHANGED <<setup, result, attempt, ckpt, saved, outcome, budget>>

\* recovery gives up a task without a checkpoint
GiveUp ==
  /\ pc = "idle" /\ Cloud /\ attempt = 0 /\ budget.crash > 0 /\ ckpt = NoFile
  /\ End("failed")

\* the sleep between two attempts of a cloud task, cut short by cancel()
Retry ==
  /\ pc = "backoff" /\ ~cancel
  /\ pc' = "idle" /\ attempt' = attempt + 1
  /\ UNCHANGED <<pos, ctx, result, ckpt, budget, host>>

BackoffCancelled == pc = "backoff" /\ cancel /\ End("cancelled")

RequestCancel ==
  /\ Cloud /\ ~cancel /\ pc \notin {"idle", "ended"}
  /\ cancel' = TRUE
  /\ UNCHANGED <<setup, pc, pos, ctx, result, attempt, ckpt, saved, outcome,
                 budget>>

\* the process dies; what is on disk stays
Crash ==
  /\ pc \notin {"idle", "ended"} /\ budget.crash < MaxCrashes
  /\ pc' = IF Cloud THEN "idle" ELSE "ended"
  /\ outcome' = IF Cloud THEN outcome ELSE "lost"
  /\ ctx' = NewContext /\ pos' = 1 /\ result' = "none" /\ attempt' = 0
  /\ cancel' = FALSE
  /\ budget' = [budget EXCEPT !.crash = @ + 1]
  /\ UNCHANGED <<setup, ckpt, saved>>

\* the user goes on from the saved state, whatever became of the run
FromState(c, next) ==
  /\ pc = "ended" /\ ~Cloud /\ saved # NoFile /\ budget.rerun < MaxReruns
  /\ ctx' = c /\ pos' = next /\ pc' = "preflight" /\ result' = "none"
  /\ attempt' = 0 /\ outcome' = "none"
  /\ budget' = [budget EXCEPT !.rerun = @ + 1]
  /\ UNCHANGED <<setup, cancel, ckpt, saved>>

\* mn resume; after the last step there is "nothing to resume"
Resume == saved.mark < N /\ FromState(saved.ctx, saved.mark + 1)

\* prepare_rerun(): the status of the invalidated soft steps is reset, the list
\* of degraded steps is not; the steps between the completed one and from are
\* those the user jumps over
Invalidated(c, from) ==
  [c EXCEPT !.status = [s \in SoftSteps |-> IF s >= from THEN "fresh" ELSE @[s]],
            !.waived = @ \cup ((saved.mark + 1)..(from - 1))]

Rerun(from) == FromState(Invalidated(saved.ctx, from), from)

-----------------------------------------------------------------------------
\* The loop of run_pipeline()

Preflight ==
  /\ pc = "preflight"
  /\ pc' = "boundary"
  /\ Notify(0, ctx)
  /\ UNCHANGED <<pos, ctx, result, attempt, host>>

PreflightFails == pc = "preflight" /\ End("failed")

AtStep == pc = "boundary" /\ pos <= N

\* check_cancelled(), before and after the look at the workflow's switches
StepCancelled == AtStep /\ Cloud /\ cancel /\ End("cancelled")

\* the workflow disables the step
StepDisabled ==
  /\ AtStep /\ ~(Cloud /\ cancel) /\ pos \in setup.off
  /\ LET c == Verdict(pos, "disabled")
     IN  ctx' = c /\ Notify(pos, c)
  /\ result' = "disabled" /\ pc' = "strict"
  /\ UNCHANGED <<pos, attempt, host>>

\* preview mode passes over the step without a word to the console
StepPreviewSkipped ==
  /\ AtStep /\ ~(Cloud /\ cancel) /\ pos \notin setup.off
  /\ setup.preview /\ pos \in PreviewSkips
  /\ ctx' = [ctx EXCEPT !.handled = @ \cup {pos}]
  /\ pos' = pos + 1
  /\ UNCHANGED <<pc, result, attempt, ckpt, budget, host>>

StepStart ==
  /\ AtStep /\ ~(Cloud /\ cancel) /\ pos \notin setup.off
  /\ ~(setup.preview /\ pos \in PreviewSkips)
  /\ pc' = "exec" /\ result' = "success"
  /\ attempt' = IF Cloud THEN attempt ELSE 0
  /\ UNCHANGED <<pos, ctx, ckpt, budget, host>>

\* a hard step returns
HardReturns ==
  /\ pc = "exec" /\ pos \notin SoftSteps
  /\ ctx' = [ctx EXCEPT !.handled = @ \cup {pos}]
  /\ pc' = "settle"
  /\ UNCHANGED <<pos, result, attempt, ckpt, budget, host>>

\* a soft step returns, with a result and a status field of its own choice
SoftReturns(r, v) ==
  /\ pc = "exec" /\ pos \in SoftSteps
  /\ ctx' = Verdict(pos, v)
  /\ result' = r
  /\ pc' = "settle"
  /\ UNCHANGED <<pos, attempt, ckpt, budget, host>>

\* a soft step raises: its status is failed and the console warns, which writes
\* a checkpoint, before the step is listed as degraded
SoftRaises ==
  /\ pc = "exec" /\ pos \in SoftSteps
  /\ LET c == Verdict(pos, "failed")
     IN  ctx' = c /\ Notify(pos, c)
  /\ result' = "warning" /\ pc' = "degrade"
  /\ UNCHANGED <<pos, attempt, host>>

Degrade ==
  /\ pc = "degrade" /\ ~StrictTrips
  /\ ctx' = [ctx EXCEPT !.degraded = @ \cup {pos}]
  /\ pc' = "settle"
  /\ UNCHANGED <<pos, result, attempt, ckpt, budget, host>>

\* it is listed before strict mode stops the run
DegradeStrict ==
  /\ pc = "degrade" /\ StrictTrips
  /\ ctx' = [ctx EXCEPT !.degraded = @ \cup {pos}]
  /\ pc' = "ended" /\ outcome' = "strict"
  /\ UNCHANGED <<setup, pos, result, attempt, cancel, ckpt, saved, budget>>

\* the retry loop of the worker knows the transient errors by their type
MayRetry(retryable) == Cloud /\ retryable /\ attempt < MaxRetries

\* a hard step raises and the run with it; a cloud task may retry
HardRaises(retryable) ==
  /\ pc = "exec" /\ pos \notin SoftSteps /\ setup.host # "interactive"
  /\ \/ /\ MayRetry(retryable)
        /\ pc' = "backoff"
        /\ UNCHANGED <<pos, ctx, result, attempt, ckpt, budget, host>>
     \/ ~MayRetry(retryable) /\ End("failed")

\* on_step_error() asks the user
Ask ==
  /\ pc = "exec" /\ pos \notin SoftSteps /\ setup.host = "interactive"
  /\ pc' = "asked"
  /\ UNCHANGED <<pos, ctx, result, attempt, ckpt, budget, host>>

AnswerRetry ==
  /\ pc = "asked" /\ attempt < MaxRetries
  /\ pc' = "exec" /\ attempt' = attempt + 1 /\ result' = "success"
  /\ UNCHANGED <<pos, ctx, ckpt, budget, host>>

AnswerSkip ==
  /\ pc = "asked"
  /\ ctx' = [ctx EXCEPT !.handled = @ \cup {pos}]
  /\ result' = "warning" /\ pc' = "settle"
  /\ UNCHANGED <<pos, attempt, ckpt, budget, host>>

AnswerAbort == pc = "asked" /\ End("failed")

\* the result is rendered, with the context the console then checkpoints
SettleWith(c) ==
  /\ pc = "settle"
  /\ ctx' = c /\ Notify(pos, c)
  /\ pc' = "strict"
  /\ UNCHANGED <<pos, result, attempt, host>>

\* (mutant: only a step that raises is listed)
SettleUnlisted == SettleWith(ctx)

\* a soft step that warned without raising is listed as degraded too
Settle ==
  SettleWith(IF /\ pos \in SoftSteps /\ result = "warning"
                /\ ctx.status[pos] \in {"failed", "skipped"}
             THEN [ctx EXCEPT !.degraded = @ \cup {pos}] ELSE ctx)

StrictRaises == pc = "strict" /\ StrictTrips /\ End("strict")

\* the loop goes on; a disabled step does not reach the pause check
StrictPasses ==
  /\ pc = "strict" /\ ~StrictTrips
  /\ IF setup.pause = pos /\ result # "disabled"
     THEN pc' = "pause" /\ UNCHANGED pos
     ELSE pc' = "boundary" /\ pos' = pos + 1
  /\ UNCHANGED <<ctx, result, attempt, ckpt, budget, host>>

Pause ==
  /\ pc = "pause"
  /\ saved' = [mark |-> pos, ctx |-> ctx]
  /\ pc' = "ended" /\ outcome' = "paused"
  /\ UNCHANGED <<setup, pos, ctx, result, attempt, cancel, ckpt, budget>>

\* (mutant: the loop waits for a step that is not there)
FinishNever == pc = "boundary" /\ pos > N + 1 /\ End("completed")

\* all steps are through: the summary, the metadata and the manifests
Finish == pc = "boundary" /\ pos > N /\ End("completed")

\* _extract_result() of a task whose checkpoint was complete
Extract == pc = "extract" /\ End("completed")

-----------------------------------------------------------------------------
Running ==
  \/ BeginRestored \/ BeginAgain \/ GiveUp \/ Retry \/ BackoffCancelled
  \/ Preflight \/ StepCancelled \/ StepDisabled \/ StepPreviewSkipped
  \/ StepStart \/ HardReturns \/ SoftRaises \/ Degrade \/ DegradeStrict
  \/ \E o \in {<<"success", "success">>, <<"skipped", "skipped">>,
               <<"warning", "failed">>, <<"warning", "skipped">>,
               <<"warning", "success">>} : SoftReturns(o[1], o[2])
  \/ \E r \in BOOLEAN : HardRaises(r)
  \/ Ask \/ AnswerRetry \/ AnswerSkip \/ AnswerAbort
  \/ Settle \/ StrictRaises \/ StrictPasses \/ Pause \/ Finish \/ Extract

\* what nobody is obliged to do
Environment ==
  \/ BeginFresh \/ PreflightFails \/ RequestCancel \/ Crash \/ Resume
  \/ \E from \in Steps : Rerun(from)

Next == Running \/ Environment

Spec == Init /\ [][Next]_vars

\* a run that has begun goes on: every step returns or raises, a sleep ends and
\* the user answers
FairSpec == Spec /\ WF_vars(Running)

-----------------------------------------------------------------------------
\* Safety

\* A run that completes has given every step its turn, across crashes, retries,
\* pauses and resumes; only a user who reruns from beyond the saved position
\* leaves steps out.
NoStepLost == outcome = "completed" => ctx.handled \cup ctx.waived = Steps

\* the steps after s, up to step k, that are not passed over in preview mode
RanAfter(preview, s, k) == {q \in (s + 1)..k : ~(preview /\ q \in PreviewSkips)}

\* --strict: no run with a failed soft step completes.  There is one way round
\* it: the process dies after a checkpoint that holds the failure and before the
\* check that follows it, and so again at every later step that runs.
StrictNeverCompletes ==
  Strict /\ outcome = "completed" =>
    \A s \in Failed :
      Cloud /\ Cardinality(RanAfter(setup.preview, s, N)) < budget.crash

\* no process has died and no checkpoint has failed to be written
Quiet == budget.crash = 0 /\ budget.fault = 0

\* The summary of a completed run names every soft step that failed in it.
\* A step that raises is checkpointed twice, before and after it is listed: its
\* name is lost by a crash between the two, or when the second cannot be written.
DegradationListed ==
  outcome = "completed" /\ Quiet =>
    Unlisted(ctx) = {}

\* what is on disk holds the turns of all steps up to its mark
Covers(d) == 1..d.mark \subseteq d.ctx.handled \cup d.ctx.waived

\* the loop has given every step before pos its turn, and pos too once settled
Frontier ==
  /\ pc \in {"preflight", "boundary"} \cup InStep =>
       1..(pos - 1) \subseteq ctx.handled \cup ctx.waived
  /\ pc \in {"degrade", "settle", "strict", "pause"} => pos \in ctx.handled
  /\ pc = "extract" => Steps \subseteq ctx.handled \cup ctx.waived
  /\ pc # "ended" => outcome = "none"

IInv == TypeOK /\ Frontier /\ Covers(ckpt) /\ Covers(saved) /\ NoStepLost

\* only a cloud worker writes checkpoints
Owner == Cloud \/ ckpt = NoFile

\* Without crashes and faults, only the step in hand is failed and not yet
\* listed, and only until its result is rendered.
Listing ==
  Quiet =>
    /\ Unlisted(saved.ctx) = {}
    /\ pc \notin {"degrade", "settle", "ended"} =>
         Unlisted(ctx) = {} /\ Unlisted(ckpt.ctx) = {}
    /\ pc \in {"degrade", "settle"} => Unlisted(ctx) \subseteq {pos}
    /\ pc = "settle" /\ Unlisted(ctx) # {} => result = "warning"

\* Each failed step up to k, and each that has run since, had its check cut off
\* by a crash of its own; or all of them but the one in hand.
Paid(c, k) ==
  \A s \in FailedIn(c) :
    /\ budget.crash > 0
    /\ s <= k => Cardinality(RanAfter(setup.preview, s, k)) < budget.crash
Owed(c, k) ==
  \A s \in FailedIn(c) :
    s <= k => Cardinality(RanAfter(setup.preview, s, k)) <= budget.crash

Checking == {"degrade", "settle", "strict"}

Escapes ==
  Strict =>
    /\ FailedIn(saved.ctx) = {}
    /\ pc = "idle" /\ attempt = 0 => ctx = NewContext
    /\ pc \in {"preflight", "boundary", "exec", "asked"} =>
         (Cloud \/ Failed = {}) /\ Paid(ctx, pos - 1)
    /\ pc = "extract" => (Cloud \/ Failed = {}) /\ Paid(ctx, N)
    /\ pc \in Checking => Owed(ctx, pos)
    /\ pc = "pause" => Failed = {}
    /\ pc \in Checking =>
         \/ Paid(ckpt.ctx, ckpt.mark)
         \/ FailedIn(ckpt.ctx) = Failed /\ Owed(ckpt.ctx, ckpt.mark)
    /\ pc \notin Checking \cup {"ended"} => Paid(ckpt.ctx, ckpt.mark)

-----------------------------------------------------------------------------
\* Liveness, under FairSpec

\* A run that has begun ends: it completes, pauses, fails or is cancelled,
\* whatever crashes and retries come in between.
RunEnds == pc = "preflight" ~> pc = "ended"
=============================================================================
