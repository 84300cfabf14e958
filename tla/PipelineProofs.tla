--------------------------- MODULE PipelineProofs ---------------------------
(***************************************************************************)
(* Theorems about Pipeline, for any number of steps, any choice of soft    *)
(* and preview-skipped steps, any configuration and any number of crashes, *)
(* retries, reruns and faults.                                             *)
(***************************************************************************)
EXTENDS Pipeline, FiniteSetTheorems, TLAPS

\* A context that was just built is well typed.
LEMMA NewContextType == NewContext \in Context
  BY DEF NewContext, Context, StepStatus

\* The context keeps its type when a step's verdict is recorded in it.
LEMMA VerdictType ==
  ASSUME ctx \in Context, NEW s \in Steps, NEW v \in StepStatus
  PROVE  Verdict(s, v) \in Context
  BY DEF Verdict, Context

\* ... when steps are marked as handled, or listed as degraded ...
LEMMA MarkType ==
  ASSUME ctx \in Context, NEW s \in Steps
  PROVE  /\ [ctx EXCEPT !.handled = @ \cup {s}] \in Context
         /\ s \in SoftSteps => [ctx EXCEPT !.degraded = @ \cup {s}] \in Context
  BY DEF Context

\* ... and when prepare_rerun() invalidates the steps from some step on.
LEMMA InvalidatedType ==
  ASSUME NEW c \in Context, NEW from \in Steps, saved.mark \in 0..N
  PROVE  Invalidated(c, from) \in Context
<1> DEFINE st == [s \in SoftSteps |-> IF s >= from THEN "fresh" ELSE c.status[s]]
           wa == c.waived \cup ((saved.mark + 1)..(from - 1))
<1>1. st \in [SoftSteps -> StepStatus]
  BY DEF Context, StepStatus
<1>2. wa \in SUBSET Steps
  BY PipelineAssumption DEF PipelineAssumption, Context, Steps
<1>3. Invalidated(c, from) = [c EXCEPT !.status = st, !.waived = wa]
  BY DEF Invalidated
<1> HIDE DEF st, wa
<1> QED
  BY <1>1, <1>2, <1>3 DEF Context

\* A count below its bound can be raised.
LEMMA BudgetType ==
  ASSUME budget \in Budget
  PROVE  /\ budget.crash < MaxCrashes => [budget EXCEPT !.crash = @ + 1] \in Budget
         /\ budget.rerun < MaxReruns => [budget EXCEPT !.rerun = @ + 1] \in Budget
         /\ budget.fault < MaxFaults => [budget EXCEPT !.fault = @ + 1] \in Budget
  BY PipelineAssumption DEF PipelineAssumption, Budget

\* A checkpoint that is written, or not, leaves the file and the bounds typed.
LEMMA NotifyType ==
  ASSUME TypeOK, NEW mark \in 0..N, NEW c \in Context, Notify(mark, c)
  PROVE  ckpt' \in Dump \cup {NoFile} /\ budget' \in Budget
<1>1. [mark |-> mark, ctx |-> c] \in Dump
  BY DEF Dump
<1> QED
  BY <1>1, BudgetType DEF Notify, TypeOK

\* A freshly started host is well typed.
LEMMA InitType == Init => TypeOK
<1> SUFFICES ASSUME Init PROVE TypeOK
  OBVIOUS
<1>1. budget \in Budget
  BY PipelineAssumption DEF PipelineAssumption, Init, Budget
<1>2. pos \in 1..(N + 1) /\ attempt \in 0..MaxRetries
  BY PipelineAssumption DEF PipelineAssumption, Init
<1> QED
  BY <1>1, <1>2, NewContextType DEF Init, TypeOK, Pcs, InStep

\* Ending a run keeps the types.
LEMMA EndType ==
  ASSUME TypeOK, NEW how \in {"completed", "cancelled", "failed", "strict"},
         End(how)
  PROVE  TypeOK'
  BY DEF End, TypeOK, Pcs, InStep

-----------------------------------------------------------------------------
HostStep ==
  \/ BeginFresh \/ BeginRestored \/ BeginAgain \/ GiveUp \/ Retry
  \/ BackoffCancelled \/ RequestCancel \/ Crash \/ Resume
  \/ \E from \in Steps : Rerun(from)

LoopStep ==
  \/ Preflight \/ PreflightFails \/ StepCancelled \/ StepDisabled
  \/ StepPreviewSkipped \/ StepStart \/ HardReturns \/ SoftRaises
  \/ Degrade \/ DegradeStrict
  \/ \E o \in {<<"success", "success">>, <<"skipped", "skipped">>,
               <<"warning", "failed">>, <<"warning", "skipped">>,
               <<"warning", "success">>} : SoftReturns(o[1], o[2])
  \/ \E r \in BOOLEAN : HardRaises(r)
  \/ Ask \/ AnswerRetry \/ AnswerSkip \/ AnswerAbort
  \/ Settle \/ StrictRaises \/ StrictPasses \/ Pause \/ Finish \/ Extract

\* The steps of the hosts keep the types.
LEMMA HostType == ASSUME TypeOK, HostStep PROVE TypeOK'
<1> USE PipelineAssumption DEF PipelineAssumption, host, Pcs, InStep
<1>1. CASE BeginFresh
  BY <1>1 DEF BeginFresh, TypeOK
<1>2. CASE BeginRestored
  <2>1. ckpt \in Dump
    BY <1>2 DEF BeginRestored, RestoreAt, TypeOK
  <2>2. ckpt.ctx \in Context /\ ckpt.mark + 1 \in 1..(N + 1)
    BY <2>1 DEF Dump
  <2> QED
    BY <1>2, <2>2 DEF BeginRestored, RestoreAt, TypeOK
<1>3. CASE BeginAgain
  <2>1. pos' \in 1..(N + 1)
    BY <1>3 DEF BeginAgain
  <2> QED
    BY <1>3, <2>1, NewContextType DEF BeginAgain, TypeOK
<1>4. CASE GiveUp
  BY <1>4, EndType DEF GiveUp
<1>5. CASE Retry
  BY <1>5 DEF Retry, TypeOK
<1>6. CASE BackoffCancelled
  BY <1>6, EndType DEF BackoffCancelled
<1>7. CASE RequestCancel
  BY <1>7 DEF RequestCancel, TypeOK
<1>8. CASE Crash
  <2>1. budget' \in Budget
    BY <1>8, BudgetType DEF Crash, TypeOK
  <2>2. pos' \in 1..(N + 1) /\ attempt' \in 0..MaxRetries
    BY <1>8 DEF Crash
  <2> QED
    BY <1>8, <2>1, <2>2, NewContextType DEF Crash, TypeOK
<1>9. CASE Resume
  <2>1. saved \in Dump
    BY <1>9 DEF Resume, FromState, TypeOK
  <2>2. saved.ctx \in Context /\ saved.mark + 1 \in 1..(N + 1)
    BY <2>1 DEF Dump
  <2>3. budget' \in Budget
    BY <1>9, BudgetType DEF Resume, FromState, TypeOK
  <2> QED
    BY <1>9, <2>2, <2>3 DEF Resume, FromState, TypeOK
<1>10. ASSUME NEW from \in Steps, Rerun(from) PROVE TypeOK'
  <2>1. saved \in Dump
    BY <1>10 DEF Rerun, FromState, TypeOK
  <2>2. Invalidated(saved.ctx, from) \in Context
    BY <2>1, InvalidatedType DEF Dump
  <2>3. from \in 1..(N + 1)
    BY DEF Steps
  <2>4. budget' \in Budget
    BY <1>10, BudgetType DEF Rerun, FromState, TypeOK
  <2> QED
    BY <1>10, <2>2, <2>3, <2>4 DEF Rerun, FromState, TypeOK
<1> QED
  BY <1>1, <1>2, <1>3, <1>4, <1>5, <1>6, <1>7, <1>8, <1>9, <1>10 DEF HostStep

\* The loop of run_pipeline() keeps the types.
LEMMA LoopType ==
  ASSUME TypeOK, LoopStep PROVE TypeOK'
<1> USE PipelineAssumption DEF PipelineAssumption, host, Pcs, InStep
<1>a. ASSUME NEW s \in Steps PROVE s \in 0..N /\ s + 1 \in 1..(N + 1)
  BY <1>a DEF Steps
<1>b. AtStep => pos \in Steps
  BY DEF AtStep, TypeOK, Steps
<1>1. CASE Preflight
  <2>1. ckpt' \in Dump \cup {NoFile} /\ budget' \in Budget
    BY <1>1, NotifyType DEF Preflight, TypeOK
  <2> QED
    BY <1>1, <2>1 DEF Preflight, TypeOK
<1>2. CASE StepDisabled
  <2>1. pos \in Steps
    BY <1>2, <1>b DEF StepDisabled
  <2>2. Verdict(pos, "disabled") \in Context
    BY <2>1, VerdictType DEF TypeOK, StepStatus
  <2>3. ckpt' \in Dump \cup {NoFile} /\ budget' \in Budget
    BY <1>2, <1>a, <2>1, <2>2, NotifyType DEF StepDisabled
  <2> QED
    BY <1>2, <2>1, <2>2, <2>3 DEF StepDisabled, TypeOK
<1>3. CASE StepPreviewSkipped
  <2>1. pos \in Steps /\ pos + 1 \in 1..(N + 1)
    BY <1>3, <1>a, <1>b DEF StepPreviewSkipped
  <2>2. [ctx EXCEPT !.handled = @ \cup {pos}] \in Context
    BY <2>1, MarkType DEF TypeOK
  <2> QED
    BY <1>3, <2>1, <2>2 DEF StepPreviewSkipped, AtStep, TypeOK
<1>4. CASE StepStart
  BY <1>4, <1>b DEF StepStart, TypeOK
<1>5. CASE HardReturns
  BY <1>5, MarkType DEF HardReturns, TypeOK
<1>6. ASSUME NEW r \in {"success", "skipped", "warning"}, NEW v \in StepStatus,
             SoftReturns(r, v)
      PROVE  TypeOK'
  <2>1. Verdict(pos, v) \in Context
    BY <1>6, VerdictType DEF SoftReturns, TypeOK
  <2> QED
    BY <1>6, <2>1 DEF SoftReturns, TypeOK
<1>7. CASE SoftRaises
  <2>1. Verdict(pos, "failed") \in Context
    BY <1>7, VerdictType DEF SoftRaises, TypeOK, StepStatus
  <2>2. ckpt' \in Dump \cup {NoFile} /\ budget' \in Budget
    BY <1>7, <1>a, <2>1, NotifyType DEF SoftRaises, TypeOK
  <2> QED
    BY <1>7, <2>1, <2>2 DEF SoftRaises, TypeOK
<1>8. CASE Degrade \/ DegradeStrict
  <2>1. [ctx EXCEPT !.degraded = @ \cup {pos}] \in Context
    BY <1>8, MarkType DEF Degrade, DegradeStrict, TypeOK
  <2> QED
    BY <1>8, <2>1 DEF Degrade, DegradeStrict, TypeOK, InStep, Pcs
<1>9. CASE StrictRaises \/ PreflightFails \/ StepCancelled
             \/ AnswerAbort \/ Finish \/ Extract
  BY <1>9, EndType DEF StrictRaises, PreflightFails,
     StepCancelled, AnswerAbort, Finish, Extract
<1>10. ASSUME NEW r \in BOOLEAN, HardRaises(r) PROVE TypeOK'
  <2>1. CASE End("failed")
    BY <2>1, EndType
  <2>2. CASE ~End("failed")
    BY <1>10, <2>2 DEF HardRaises, MayRetry, TypeOK
  <2> QED
    BY <2>1, <2>2
<1>11. CASE Ask
  BY <1>11 DEF Ask, TypeOK
<1>12. CASE AnswerRetry
  BY <1>12 DEF AnswerRetry, TypeOK
<1>13. CASE AnswerSkip
  BY <1>13, MarkType DEF AnswerSkip, TypeOK
<1>14. CASE Settle
  <2> DEFINE c == IF /\ pos \in SoftSteps /\ result = "warning"
                     /\ ctx.status[pos] \in {"failed", "skipped"}
                  THEN [ctx EXCEPT !.degraded = @ \cup {pos}] ELSE ctx
  <2>1. c \in Context /\ pos \in Steps
    BY <1>14, MarkType DEF Settle, SettleWith, TypeOK
  <2>2. SettleWith(c)
    BY <1>14 DEF Settle
  <2> HIDE DEF c
  <2>3. ckpt' \in Dump \cup {NoFile} /\ budget' \in Budget
    BY <1>a, <2>1, <2>2, NotifyType DEF SettleWith
  <2> QED
    BY <2>1, <2>2, <2>3 DEF SettleWith, TypeOK
<1>15. CASE StrictPasses
  BY <1>15, <1>a DEF StrictPasses, TypeOK
<1>16. CASE Pause
  <2>1. saved' \in Dump
    BY <1>16, <1>a DEF Pause, TypeOK, Dump
  <2> QED
    BY <1>16, <2>1 DEF Pause, TypeOK
<1> QED
  BY <1>1, <1>2, <1>3, <1>4, <1>5, <1>6, <1>7, <1>8, <1>9, <1>10, <1>11, <1>12,
     <1>13, <1>14, <1>15, <1>16 DEF LoopStep, StepStatus

\* Type correctness: whatever a host and the loop do, every variable keeps its
\* type; a worker never exceeds its retries.
THEOREM PipelineTyped == Spec => []TypeOK
<1>1. TypeOK /\ [Next]_vars => TypeOK'
  <2>1. TypeOK /\ Next => TypeOK'
    BY HostType, LoopType DEF Next, Running, Environment, HostStep, LoopStep
  <2>2. TypeOK /\ UNCHANGED vars => TypeOK'
    BY DEF TypeOK, vars
  <2> QED
    BY <2>1, <2>2
<1> QED
  BY <1>1, InitType, PTL DEF Spec

-----------------------------------------------------------------------------
\* A checkpoint written with the turns of all steps up to its mark covers them.
LEMMA NotifyCovers ==
  ASSUME Covers(ckpt), NEW mark \in 0..N, NEW c \in Context, Notify(mark, c),
         1..mark \subseteq c.handled \cup c.waived
  PROVE  Covers(ckpt')
  BY DEF Notify, Covers

\* What a run restores has had the turns the file's mark promises.
LEMMA RestoredTurns ==
  ASSUME NEW d \in Dump, Covers(d)
  PROVE  /\ d.mark \in 0..N /\ d.ctx \in Context
         /\ 1..((d.mark + 1) - 1) \subseteq d.ctx.handled \cup d.ctx.waived
         /\ d.mark = N => Steps \subseteq d.ctx.handled \cup d.ctx.waived
<1>1. (d.mark + 1) - 1 = d.mark
  BY DEF Dump
<1> QED
  BY <1>1 DEF Dump, Covers, Steps

\* Ending a run, after all steps if it is said to be completed, keeps IInv.
LEMMA EndInductive ==
  ASSUME IInv, NEW how \in {"completed", "cancelled", "failed", "strict"},
         End(how), how = "completed" => Steps \subseteq ctx.handled \cup ctx.waived
  PROVE  IInv'
<1>1. TypeOK'
  BY EndType DEF IInv
<1>2. Frontier'
  BY DEF End, Frontier, InStep
<1>3. NoStepLost'
  BY DEF End, NoStepLost, IInv, TypeOK, Context
<1> QED
  BY <1>1, <1>2, <1>3 DEF IInv, End, Covers

\* The steps of the hosts keep the turns.
LEMMA HostInductive == ASSUME IInv, HostStep PROVE IInv'
<1> USE DEF host, InStep
<1>t. TypeOK'
  BY HostType DEF IInv
<1>e. (1..(1 - 1)) = {}
  OBVIOUS
<1>1. CASE BeginFresh
  BY <1>1, <1>t, <1>e DEF BeginFresh, IInv, Frontier, Covers, NoStepLost
<1>2. CASE BeginRestored
  <2>1. ckpt \in Dump /\ Covers(ckpt)
    BY <1>2 DEF BeginRestored, RestoreAt, IInv, TypeOK
  <2>2. Frontier'
    BY <1>2, <2>1, RestoredTurns DEF BeginRestored, RestoreAt, IInv, Frontier
  <2>3. NoStepLost'
    BY <1>2 DEF BeginRestored, RestoreAt, NoStepLost, IInv, Frontier
  <2> QED
    BY <1>2, <1>t, <2>2, <2>3 DEF BeginRestored, RestoreAt, IInv, Covers
<1>3. CASE BeginAgain
  BY <1>3, <1>t, <1>e DEF BeginAgain, IInv, Frontier, Covers, NoStepLost
<1>4. CASE GiveUp
  BY <1>4, EndInductive DEF GiveUp
<1>5. CASE Retry
  BY <1>5, <1>t DEF Retry, IInv, Frontier, Covers, NoStepLost
<1>6. CASE BackoffCancelled
  BY <1>6, EndInductive DEF BackoffCancelled
<1>7. CASE RequestCancel
  BY <1>7, <1>t DEF RequestCancel, IInv, Frontier, Covers, NoStepLost
<1>8. CASE Crash
  BY <1>8, <1>t DEF Crash, IInv, Frontier, Covers, NoStepLost
<1>9. CASE Resume
  <2>1. saved \in Dump /\ Covers(saved)
    BY <1>9 DEF Resume, FromState, IInv, TypeOK
  <2>2. Frontier'
    BY <1>9, <2>1, RestoredTurns DEF Resume, FromState, Frontier
  <2> QED
    BY <1>9, <1>t, <2>2 DEF Resume, FromState, IInv, Covers, NoStepLost
<1>10. ASSUME NEW from \in Steps, Rerun(from) PROVE IInv'
  <2> DEFINE c == Invalidated(saved.ctx, from)
  <2>1. saved \in Dump /\ Covers(saved)
    BY <1>10 DEF Rerun, FromState, IInv, TypeOK
  <2>2. /\ c.handled = saved.ctx.handled
        /\ c.waived = saved.ctx.waived \cup ((saved.mark + 1)..(from - 1))
    BY <2>1 DEF Invalidated, Dump, Context
  <2>3. 1..(from - 1) \subseteq (1..saved.mark) \cup ((saved.mark + 1)..(from - 1))
    BY <2>1 DEF Dump, Steps
  <2>4. 1..(from - 1) \subseteq c.handled \cup c.waived
    BY <2>1, <2>2, <2>3 DEF Covers
  <2>5. ctx' = c /\ pos' = from /\ pc' = "preflight" /\ outcome' = "none"
    BY <1>10 DEF Rerun, FromState
  <2> HIDE DEF c
  <2>6. Frontier' /\ NoStepLost'
    BY <2>4, <2>5 DEF Frontier, NoStepLost
  <2> QED
    BY <1>10, <1>t, <2>6 DEF Rerun, FromState, IInv, Covers
<1> QED
  BY <1>1, <1>2, <1>3, <1>4, <1>5, <1>6, <1>7, <1>8, <1>9, <1>10 DEF HostStep

\* Giving one more step its turn only adds to the turns.
LEMMA TurnsGrow ==
  ASSUME ctx \in Context, NEW s \in Steps, NEW v \in StepStatus
  PROVE  /\ Verdict(s, v).handled = ctx.handled \cup {s}
         /\ Verdict(s, v).waived = ctx.waived
  BY DEF Verdict, Context

\* The steps before pos and pos itself are the steps up to pos.
LEMMA UpTo ==
  ASSUME NEW s \in Steps
  PROVE  /\ 1..s = (1..(s - 1)) \cup {s}
         /\ (s + 1) - 1 = s /\ s \in 0..N
  BY DEF Steps

\* The loop of run_pipeline() keeps the turns.
LEMMA LoopInductive == ASSUME IInv, LoopStep PROVE IInv'
<1> USE DEF host, InStep
<1>t. TypeOK'
  BY LoopType DEF IInv
<1>a. AtStep => pos \in Steps
  BY PipelineAssumption DEF AtStep, IInv, TypeOK, Steps, PipelineAssumption
<1>1. CASE Preflight
  <2>1. Covers(ckpt')
    BY <1>1, NotifyCovers, PipelineAssumption
       DEF Preflight, IInv, TypeOK, PipelineAssumption
  <2> QED
    BY <1>1, <1>t, <2>1 DEF Preflight, IInv, Frontier, Covers, NoStepLost
<1>2. CASE StepDisabled
  <2> DEFINE c == Verdict(pos, "disabled")
  <2>1. pos \in Steps /\ ctx \in Context /\ "disabled" \in StepStatus
    BY <1>2, <1>a DEF StepDisabled, IInv, TypeOK, StepStatus
  <2>2. c \in Context
    BY <2>1, VerdictType
  <2>3. 1..pos \subseteq c.handled \cup c.waived /\ pos \in c.handled
    BY <1>2, <2>1, TurnsGrow, UpTo DEF StepDisabled, AtStep, IInv, Frontier
  <2>4. Covers(ckpt')
    BY <1>2, <2>1, <2>2, <2>3, UpTo, NotifyCovers DEF StepDisabled, IInv
  <2>5. Frontier' /\ NoStepLost'
    BY <1>2, <2>1, <2>3, UpTo
       DEF StepDisabled, AtStep, IInv, Frontier, NoStepLost
  <2> QED
    BY <1>2, <1>t, <2>4, <2>5 DEF StepDisabled, IInv, Covers
<1>3. CASE StepPreviewSkipped
  <2>1. pos \in Steps /\ ctx \in Context /\ pc = "boundary"
    BY <1>3, <1>a DEF StepPreviewSkipped, AtStep, IInv, TypeOK
  <2>2. ctx'.handled = ctx.handled \cup {pos} /\ ctx'.waived = ctx.waived
    BY <1>3, <2>1 DEF StepPreviewSkipped, Context
  <2>3. Frontier' /\ NoStepLost'
    BY <1>3, <2>1, <2>2, UpTo
       DEF StepPreviewSkipped, IInv, Frontier, NoStepLost
  <2> QED
    BY <1>3, <1>t, <2>3 DEF StepPreviewSkipped, IInv, Covers
<1>4. CASE StepStart
  BY <1>4, <1>t DEF StepStart, AtStep, IInv, Frontier, Covers, NoStepLost
<1>5. CASE HardReturns \/ AnswerSkip
  <2>1. /\ ctx'.handled = ctx.handled \cup {pos} /\ ctx'.waived = ctx.waived
        /\ pc \in {"exec", "asked"} /\ pc' = "settle"
        /\ UNCHANGED <<pos, ckpt, saved, outcome>>
    BY <1>5 DEF HardReturns, AnswerSkip, IInv, TypeOK, Context
  <2>2. Frontier' /\ NoStepLost'
    BY <2>1 DEF IInv, Frontier, NoStepLost
  <2> QED
    BY <2>1, <1>t, <2>2 DEF IInv, Covers
<1>6. ASSUME NEW r \in {"success", "skipped", "warning"}, NEW v \in StepStatus,
             SoftReturns(r, v)
      PROVE  IInv'
  <2>1. pos \in Steps /\ ctx \in Context
    BY <1>6 DEF SoftReturns, IInv, TypeOK
  <2>2. ctx'.handled = ctx.handled \cup {pos} /\ ctx'.waived = ctx.waived
    BY <1>6, <2>1, TurnsGrow DEF SoftReturns
  <2>3. Frontier' /\ NoStepLost'
    BY <1>6, <2>2 DEF SoftReturns, IInv, Frontier, NoStepLost
  <2> QED
    BY <1>6, <1>t, <2>3 DEF SoftReturns, IInv, Covers
<1>7. CASE SoftRaises
  <2> DEFINE c == Verdict(pos, "failed")
  <2>1. pos \in Steps /\ ctx \in Context /\ "failed" \in StepStatus
    BY <1>7 DEF SoftRaises, IInv, TypeOK, StepStatus
  <2>2. c \in Context
    BY <2>1, VerdictType
  <2>3. 1..pos \subseteq c.handled \cup c.waived /\ pos \in c.handled
    BY <1>7, <2>1, TurnsGrow, UpTo DEF SoftRaises, IInv, Frontier
  <2>4. Covers(ckpt')
    BY <1>7, <2>1, <2>2, <2>3, UpTo, NotifyCovers DEF SoftRaises, IInv
  <2>5. Frontier' /\ NoStepLost'
    BY <1>7, <2>1, <2>3, UpTo DEF SoftRaises, IInv, Frontier, NoStepLost
  <2> QED
    BY <1>7, <1>t, <2>4, <2>5 DEF SoftRaises, IInv, Covers
<1>8. CASE Degrade \/ DegradeStrict
  <2>1. /\ ctx'.handled = ctx.handled /\ ctx'.waived = ctx.waived
        /\ UNCHANGED <<pos, ckpt, saved>>
    BY <1>8 DEF Degrade, DegradeStrict, IInv, TypeOK, Context
  <2>2. CASE Degrade
    BY <2>2, <1>t, <2>1 DEF Degrade, IInv, Frontier, Covers, NoStepLost, InStep
  <2>3. CASE DegradeStrict
    <3>1. pc' = "ended" /\ outcome' = "strict"
      BY <2>3 DEF DegradeStrict
    <3> QED
      BY <3>1, <1>t, <2>1 DEF IInv, Frontier, Covers, NoStepLost, InStep
  <2> QED
    BY <1>8, <2>2, <2>3
<1>9. CASE StrictRaises \/ PreflightFails \/ StepCancelled
             \/ AnswerAbort
  BY <1>9, EndInductive DEF StrictRaises, PreflightFails,
     StepCancelled, AnswerAbort
<1>10. ASSUME NEW r \in BOOLEAN, HardRaises(r) PROVE IInv'
  <2>1. CASE End("failed")
    BY <2>1, EndInductive
  <2>2. CASE ~End("failed")
    BY <1>10, <1>t, <2>2 DEF HardRaises, IInv, Frontier, Covers, NoStepLost
  <2> QED
    BY <2>1, <2>2
<1>11. CASE Ask \/ AnswerRetry
  BY <1>11, <1>t DEF Ask, AnswerRetry, IInv, Frontier, Covers, NoStepLost
<1>12. CASE Settle
  <2> DEFINE c == IF /\ pos \in SoftSteps /\ result = "warning"
                     /\ ctx.status[pos] \in {"failed", "skipped"}
                  THEN [ctx EXCEPT !.degraded = @ \cup {pos}] ELSE ctx
  <2>1. SettleWith(c)
    BY <1>12 DEF Settle
  <2>2. ctx \in Context /\ pos \in Steps /\ pc = "settle"
    BY <1>12 DEF Settle, SettleWith, IInv, TypeOK
  <2>3. c \in Context /\ c.handled = ctx.handled /\ c.waived = ctx.waived
    BY <2>2, MarkType DEF Context
  <2> HIDE DEF c
  <2>4. 1..pos \subseteq c.handled \cup c.waived /\ pos \in c.handled
    BY <2>2, <2>3, UpTo DEF IInv, Frontier
  <2>5. Covers(ckpt')
    BY <2>1, <2>2, <2>3, <2>4, UpTo, NotifyCovers DEF SettleWith, IInv
  <2>6. Frontier' /\ NoStepLost'
    BY <2>1, <2>2, <2>4, UpTo DEF SettleWith, IInv, Frontier, NoStepLost
  <2> QED
    BY <2>1, <1>t, <2>5, <2>6 DEF SettleWith, IInv, Covers
<1>13. CASE StrictPasses
  <2>1. pos \in Steps
    BY <1>13 DEF StrictPasses, IInv, TypeOK
  <2> QED
    BY <1>13, <1>t, <2>1, UpTo
       DEF StrictPasses, IInv, Frontier, Covers, NoStepLost
<1>14. CASE Pause
  <2>1. pos \in Steps
    BY <1>14 DEF Pause, IInv, TypeOK
  <2>2. Covers(saved')
    BY <1>14, <2>1, UpTo DEF Pause, IInv, Frontier, Covers
  <2> QED
    BY <1>14, <1>t, <2>2 DEF Pause, IInv, Frontier, Covers, NoStepLost
<1>15. CASE Finish
  <2>1. pos - 1 >= N
    BY <1>15, PipelineAssumption
       DEF Finish, IInv, TypeOK, PipelineAssumption
  <2>2. Steps \subseteq 1..(pos - 1)
    BY <2>1, PipelineAssumption DEF Steps, IInv, TypeOK, PipelineAssumption
  <2> QED
    BY <1>15, <2>2, EndInductive DEF Finish, IInv, Frontier
<1>16. CASE Extract
  BY <1>16, EndInductive DEF Extract, IInv, Frontier
<1> QED
  BY <1>1, <1>2, <1>3, <1>4, <1>5, <1>6, <1>7, <1>8, <1>9, <1>10, <1>11, <1>12,
     <1>13, <1>14, <1>15, <1>16 DEF LoopStep, StepStatus

LEMMA InitInductive == Init => IInv
  BY InitType DEF Init, IInv, Frontier, Covers, NoStepLost, NoFile, NewContext,
     InStep

\* Every step of the specification keeps IInv, and so it always holds.
LEMMA StepInductive == IInv /\ [Next]_vars => IInv'
<1>1. IInv /\ Next => IInv'
  BY HostInductive, LoopInductive
     DEF Next, Running, Environment, HostStep, LoopStep
<1>2. IInv /\ UNCHANGED vars => IInv'
  BY DEF vars, host, IInv, TypeOK, Frontier, Covers, NoStepLost, Cloud
<1> QED
  BY <1>1, <1>2

LEMMA Invariant == Spec => []IInv
  BY InitInductive, StepInductive, PTL DEF Spec

\* A run that completes has given every step its turn: across crashes between
\* any two writes, checkpoints that could not be written, retries, pauses and
\* resumes, a completed run lacks only steps a user's rerun jumped over.
THEOREM NoStepEverLost == Spec => []NoStepLost
<1>1. IInv => NoStepLost
  BY DEF IInv
<1> QED
  BY <1>1, Invariant, PTL

-----------------------------------------------------------------------------
\* What Pipeline says of the soft steps that fail: the summary of a completed run lists
\* them all, and --strict lets one through only at the price of a crash for every step
\* that runs after it.  Both rest on the types and turns above.

\* Recording a verdict can only make the step in hand fail ...
LEMMA VerdictFailed ==
  ASSUME ctx \in Context, NEW s \in Steps, NEW v \in StepStatus
  PROVE  /\ FailedIn(Verdict(s, v)) \subseteq Failed \cup {s}
         /\ v # "failed" => FailedIn(Verdict(s, v)) \subseteq Failed \ {s}
         /\ Unlisted(Verdict(s, v)) \subseteq Unlisted(ctx) \cup {s}
         /\ v # "failed" => Unlisted(Verdict(s, v)) \subseteq Unlisted(ctx)
  BY DEF Verdict, Context, FailedIn, Failed, Unlisted

\* ... marking it as handled or degraded makes none fail ...
LEMMA MarkFailed ==
  ASSUME ctx \in Context, NEW s \in Steps
  PROVE  /\ FailedIn([ctx EXCEPT !.handled = @ \cup {s}]) = Failed
         /\ Unlisted([ctx EXCEPT !.handled = @ \cup {s}]) = Unlisted(ctx)
         /\ FailedIn([ctx EXCEPT !.degraded = @ \cup {s}]) = Failed
         /\ Unlisted([ctx EXCEPT !.degraded = @ \cup {s}]) = Unlisted(ctx) \ {s}
  BY DEF Context, FailedIn, Failed, Unlisted

\* ... nor does prepare_rerun(), and in a new context none has failed.
LEMMA InvalidatedFailed ==
  ASSUME NEW c \in Context, NEW from \in Steps, saved.mark \in 0..N
  PROVE  /\ FailedIn(Invalidated(c, from)) \subseteq FailedIn(c)
         /\ Unlisted(Invalidated(c, from)) \subseteq Unlisted(c)
<1> DEFINE st == [s \in SoftSteps |-> IF s >= from THEN "fresh" ELSE c.status[s]]
           i  == Invalidated(c, from)
<1>1. i.status = st /\ i.degraded = c.degraded
  BY DEF Invalidated, Context
<1>2. \A s \in SoftSteps : st[s] = "failed" => c.status[s] = "failed"
  OBVIOUS
<1> HIDE DEF st, i
<1>3. FailedIn(i) \subseteq FailedIn(c)
  BY <1>1, <1>2 DEF FailedIn
<1>4. Unlisted(i) \subseteq Unlisted(c)
  BY <1>1, <1>3 DEF Unlisted
<1> QED
  BY <1>3, <1>4 DEF i

LEMMA NewContextFailed ==
  FailedIn(NewContext) = {} /\ Unlisted(NewContext) = {}
  BY DEF NewContext, FailedIn, Unlisted

\* A file that does not exist names no failed step.
LEMMA NoFileFailed ==
  FailedIn(NoFile.ctx) = {} /\ Unlisted(NoFile.ctx) = {}
  BY NewContextFailed DEF NoFile

\* Only a cloud worker writes checkpoints.
LEMMA OwnerStep == Owner /\ Next => Owner'
<1> SUFFICES ASSUME Owner, Next PROVE Owner'
  OBVIOUS
<1>1. setup' = setup
  BY DEF Next, Running, Environment, BeginRestored, RestoreAt, BeginAgain,
     GiveUp, End, Retry, host, BackoffCancelled, Preflight, StepCancelled,
     StepDisabled, StepPreviewSkipped, StepStart, HardReturns, SoftRaises,
     Degrade, DegradeStrict, SoftReturns, HardRaises, Ask, AnswerRetry,
     AnswerSkip, AnswerAbort, Settle, SettleWith, StrictRaises, StrictPasses,
     Pause, Finish, Extract, BeginFresh, PreflightFails, RequestCancel, Crash,
     Resume, Rerun, FromState
<1>2. ~Cloud => ckpt' = ckpt
  BY DEF Next, Running, Environment, BeginRestored, RestoreAt, BeginAgain,
     GiveUp, End, Retry, host, BackoffCancelled, Preflight, StepCancelled,
     StepDisabled, StepPreviewSkipped, StepStart, HardReturns, SoftRaises,
     Degrade, DegradeStrict, SoftReturns, HardRaises, Ask, AnswerRetry,
     AnswerSkip, AnswerAbort, Settle, SettleWith, StrictRaises, StrictPasses,
     Pause, Finish, Extract, BeginFresh, PreflightFails, RequestCancel, Crash,
     Resume, Rerun, FromState, Notify, MayRetry
<1> QED
  BY <1>1, <1>2 DEF Owner, Cloud

-----------------------------------------------------------------------------
(* The list of degraded steps.                                             *)

ListInv == IInv /\ Owner /\ Listing /\ DegradationListed

\* While all is quiet, a checkpoint that is due is written.
LEMMA NotifyQuiet ==
  ASSUME TypeOK, NEW mark, NEW c, Notify(mark, c), Quiet'
  PROVE  Quiet /\ ckpt' = IF Cloud THEN [mark |-> mark, ctx |-> c] ELSE ckpt
  BY PipelineAssumption DEF PipelineAssumption, TypeOK, Budget, Notify, Quiet

\* Ending a run, completed only if no failed step is unlisted, keeps ListInv.
LEMMA EndListed ==
  ASSUME ListInv, NEW how, End(how), pc # "ended",
         Quiet /\ how = "completed" => Unlisted(ctx) = {}
  PROVE  Listing' /\ DegradationListed'
  BY DEF End, ListInv, Listing, DegradationListed, Quiet, Unlisted, FailedIn

\* The steps of the hosts keep the list.
LEMMA HostListed ==
  ASSUME ListInv, HostStep PROVE Listing' /\ DegradationListed'
<1> USE DEF host
<1>o. pc # "ended" => outcome = "none"
  BY DEF ListInv, IInv, Frontier
<1>1. CASE BeginFresh
  BY <1>1, <1>o DEF BeginFresh, ListInv, Listing, DegradationListed, Quiet
<1>2. CASE BeginRestored
  BY <1>2, <1>o
     DEF BeginRestored, RestoreAt, ListInv, Listing, DegradationListed, Quiet
<1>3. CASE BeginAgain
  BY <1>3, <1>o, NewContextFailed
     DEF BeginAgain, ListInv, Listing, DegradationListed, Quiet
<1>4. CASE GiveUp
  BY <1>4, EndListed DEF GiveUp
<1>5. CASE Retry
  BY <1>5, <1>o DEF Retry, ListInv, Listing, DegradationListed, Quiet
<1>6. CASE BackoffCancelled
  BY <1>6, EndListed DEF BackoffCancelled
<1>7. CASE RequestCancel
  BY <1>7, <1>o DEF RequestCancel, ListInv, Listing, DegradationListed, Quiet
<1>8. CASE Crash
  <2>1. ~Quiet'
    BY <1>8, PipelineAssumption
       DEF Crash, Quiet, ListInv, IInv, TypeOK, Budget, PipelineAssumption
  <2> QED
    BY <2>1 DEF Listing, DegradationListed
<1>9. CASE Resume
  <2>1. ckpt = NoFile /\ ckpt' = ckpt /\ saved' = saved /\ ctx' = saved.ctx
    BY <1>9 DEF Resume, FromState, ListInv, Owner
  <2>2. Quiet' => Quiet /\ Unlisted(saved.ctx) = {}
    BY <1>9 DEF Resume, FromState, ListInv, IInv, TypeOK, Budget, Quiet, Listing
  <2> QED
    BY <1>9, <2>1, <2>2, NoFileFailed
       DEF Resume, FromState, Listing, DegradationListed
<1>10. ASSUME NEW from \in Steps, Rerun(from)
       PROVE  Listing' /\ DegradationListed'
  <2>1. ckpt = NoFile /\ ckpt' = ckpt /\ saved' = saved /\ saved \in Dump
    BY <1>10 DEF Rerun, FromState, ListInv, Owner, IInv, TypeOK
  <2>2. Quiet' => Quiet /\ Unlisted(saved.ctx) = {}
    BY <1>10 DEF Rerun, FromState, ListInv, IInv, TypeOK, Budget, Quiet, Listing
  <2>3. Quiet' => Unlisted(ctx') = {}
    BY <1>10, <2>1, <2>2, InvalidatedFailed DEF Rerun, FromState, Dump
  <2> QED
    BY <1>10, <2>1, <2>2, <2>3, NoFileFailed
       DEF Rerun, FromState, Listing, DegradationListed
<1> QED
  BY <1>1, <1>2, <1>3, <1>4, <1>5, <1>6, <1>7, <1>8, <1>9, <1>10 DEF HostStep

\* The loop of run_pipeline() keeps the list.
LEMMA LoopListed ==
  ASSUME ListInv, LoopStep PROVE Listing' /\ DegradationListed'
<1> USE DEF host
<1>o. pc # "ended" => outcome = "none"
  BY DEF ListInv, IInv, Frontier
<1>t. TypeOK /\ ctx \in Context
  BY DEF ListInv, IInv, TypeOK
<1>a. AtStep => pos \in Steps
  BY PipelineAssumption DEF AtStep, ListInv, IInv, TypeOK, Steps, PipelineAssumption
<1>w. ~Cloud => ckpt = NoFile /\ Unlisted(ckpt.ctx) = {}
  BY NoFileFailed DEF ListInv, Owner
<1>1. CASE Preflight
  <2>1. Quiet' => Quiet /\ ckpt' = IF Cloud THEN [mark |-> 0, ctx |-> ctx] ELSE ckpt
    BY <1>1, <1>t, NotifyQuiet DEF Preflight
  <2> QED
    BY <1>1, <1>o, <2>1 DEF Preflight, ListInv, Listing, DegradationListed
<1>2. CASE StepDisabled
  <2> DEFINE c == Verdict(pos, "disabled")
  <2>1. pos \in Steps /\ pc = "boundary"
    BY <1>2, <1>a DEF StepDisabled, AtStep
  <2>2. Unlisted(c) \subseteq Unlisted(ctx)
    BY <1>t, <2>1, VerdictFailed DEF StepStatus
  <2>3. Quiet' => Quiet /\ ckpt' = IF Cloud THEN [mark |-> pos, ctx |-> c] ELSE ckpt
    BY <1>2, <1>t, NotifyQuiet DEF StepDisabled
  <2>4. ctx' = c /\ pc' = "strict" /\ saved' = saved /\ outcome' = outcome
    BY <1>2 DEF StepDisabled
  <2> HIDE DEF c
  <2> QED
    BY <1>o, <2>1, <2>2, <2>3, <2>4 DEF ListInv, Listing, DegradationListed
<1>3. CASE StepPreviewSkipped
  <2>1. pos \in Steps /\ pc = "boundary"
    BY <1>3, <1>a DEF StepPreviewSkipped, AtStep
  <2>2. Unlisted(ctx') = Unlisted(ctx)
    BY <1>3, <1>t, <2>1, MarkFailed DEF StepPreviewSkipped
  <2> QED
    BY <1>3, <1>o, <2>1, <2>2
       DEF StepPreviewSkipped, ListInv, Listing, DegradationListed, Quiet
<1>4. CASE StepStart \/ Ask \/ AnswerRetry
  BY <1>4, <1>o DEF StepStart, AtStep, Ask, AnswerRetry, ListInv, Listing,
     DegradationListed, Quiet
<1>5. CASE HardReturns \/ AnswerSkip
  <2>1. pos \in Steps /\ pc \in {"exec", "asked"} /\ pc' = "settle"
    BY <1>5 DEF HardReturns, AnswerSkip, ListInv, IInv, TypeOK, InStep
  <2>2. Unlisted(ctx') = Unlisted(ctx)
    BY <1>5, <1>t, <2>1, MarkFailed DEF HardReturns, AnswerSkip
  <2>3. UNCHANGED <<ckpt, budget, saved, outcome>>
    BY <1>5 DEF HardReturns, AnswerSkip
  <2> QED
    BY <1>o, <2>1, <2>2, <2>3 DEF ListInv, Listing, DegradationListed, Quiet
<1>6. ASSUME NEW r, NEW v \in StepStatus, v = "failed" => r = "warning",
             SoftReturns(r, v)
      PROVE  Listing' /\ DegradationListed'
  <2>1. pos \in Steps /\ pc = "exec" /\ pc' = "settle" /\ result' = r
    BY <1>6 DEF SoftReturns, ListInv, IInv, TypeOK, InStep
  <2>2. /\ Unlisted(ctx') \subseteq Unlisted(ctx) \cup {pos}
        /\ v # "failed" => Unlisted(ctx') \subseteq Unlisted(ctx)
    BY <1>6, <1>t, <2>1, VerdictFailed DEF SoftReturns
  <2>3. UNCHANGED <<pos, ckpt, budget, saved, outcome>>
    BY <1>6 DEF SoftReturns
  <2> QED
    BY <1>6, <1>o, <2>1, <2>2, <2>3 DEF ListInv, Listing, DegradationListed, Quiet
<1>7. CASE SoftRaises
  <2>1. pos \in Steps /\ pc = "exec" /\ pc' = "degrade" /\ pos' = pos
    BY <1>7 DEF SoftRaises, ListInv, IInv, TypeOK, InStep
  <2>2. Unlisted(ctx') \subseteq Unlisted(ctx) \cup {pos}
    BY <1>7, <1>t, <2>1, VerdictFailed DEF SoftRaises, StepStatus
  <2>3. Quiet' => Quiet
    BY <1>7, <1>t, NotifyQuiet DEF SoftRaises
  <2> QED
    BY <1>7, <1>o, <2>1, <2>2, <2>3
       DEF SoftRaises, ListInv, Listing, DegradationListed
<1>8. CASE Degrade \/ DegradeStrict
  <2>1. pos \in Steps /\ pc = "degrade"
    BY <1>8 DEF Degrade, DegradeStrict, ListInv, IInv, TypeOK, InStep
  <2>2. Unlisted(ctx') = Unlisted(ctx) \ {pos}
    BY <1>8, <1>t, <2>1, MarkFailed DEF Degrade, DegradeStrict
  <2>3. UNCHANGED <<budget, saved>> /\ outcome' # "completed"
    BY <1>8, <1>o, <2>1 DEF Degrade, DegradeStrict
  <2>4. pc' \in {"settle", "ended"}
    BY <1>8 DEF Degrade, DegradeStrict
  <2> QED
    BY <2>1, <2>2, <2>3, <2>4 DEF ListInv, Listing, DegradationListed, Quiet
<1>9. CASE StrictRaises \/ PreflightFails \/ StepCancelled \/ AnswerAbort
  BY <1>9, EndListed DEF StrictRaises, PreflightFails, StepCancelled, AtStep,
     AnswerAbort
<1>10. ASSUME NEW r \in BOOLEAN, HardRaises(r) PROVE Listing' /\ DegradationListed'
  <2>1. CASE End("failed")
    BY <1>10, <2>1, EndListed DEF HardRaises
  <2>2. CASE ~End("failed")
    BY <1>10, <1>o, <2>2
       DEF HardRaises, ListInv, Listing, DegradationListed, Quiet
  <2> QED
    BY <2>1, <2>2
<1>11. CASE Settle
  <2> DEFINE late == /\ pos \in SoftSteps /\ result = "warning"
                     /\ ctx.status[pos] \in {"failed", "skipped"}
             c == IF late THEN [ctx EXCEPT !.degraded = @ \cup {pos}] ELSE ctx
  <2>1. pos \in Steps /\ pc = "settle" /\ SettleWith(c)
    BY <1>11 DEF Settle, SettleWith, ListInv, IInv, TypeOK, InStep
  <2>2. late => Unlisted(c) = Unlisted(ctx) \ {pos}
    BY <1>t, <2>1, MarkFailed
  <2>3. Quiet => Unlisted(c) = {}
    <3>1. CASE late
      BY <2>1, <2>2, <3>1 DEF ListInv, Listing
    <3>2. CASE ~late
      BY <2>1, <3>2 DEF ListInv, Listing, Unlisted, FailedIn
    <3> QED
      BY <3>1, <3>2
  <2> HIDE DEF c
  <2>4. Quiet' => Quiet /\ ckpt' = IF Cloud THEN [mark |-> pos, ctx |-> c] ELSE ckpt
    BY <1>t, <2>1, NotifyQuiet DEF SettleWith
  <2>5. ctx' = c /\ pc' = "strict" /\ saved' = saved /\ outcome' = outcome
    BY <2>1 DEF SettleWith
  <2> QED
    BY <1>o, <1>w, <2>1, <2>3, <2>4, <2>5 DEF ListInv, Listing, DegradationListed
<1>12. CASE StrictPasses
  BY <1>12, <1>o DEF StrictPasses, ListInv, Listing, DegradationListed, Quiet
<1>13. CASE Pause
  BY <1>13 DEF Pause, ListInv, Listing, DegradationListed, Quiet
<1>14. CASE Finish \/ Extract
  BY <1>14, EndListed DEF Finish, Extract, ListInv, Listing
<1> QED
  BY <1>1, <1>2, <1>3, <1>4, <1>5, <1>6, <1>7, <1>8, <1>9, <1>10, <1>11, <1>12,
     <1>13, <1>14 DEF LoopStep, StepStatus

\* The summary of a completed run lists every soft step that failed in it, as
\* long as no process died and every checkpoint could be written: over retries
\* of the task, pauses, resumes and reruns.
THEOREM FailuresAreListed == Spec => []DegradationListed
<1>1. Init => ListInv
  <2>1. ASSUME Init PROVE Owner /\ Listing /\ DegradationListed
    BY <2>1, NewContextFailed, NoFileFailed
       DEF Init, Owner, Listing, DegradationListed
  <2> QED
    BY <2>1, InitInductive DEF ListInv
<1>2. ListInv /\ [Next]_vars => ListInv'
  <2>1. ListInv /\ Next => ListInv'
    <3>1. IInv /\ Next => IInv'
      BY StepInductive
    <3>2. Next => HostStep \/ LoopStep
      BY DEF Next, Running, Environment, HostStep, LoopStep
    <3> QED
      BY <3>1, <3>2, OwnerStep, HostListed, LoopListed DEF ListInv
  <2>2. ListInv /\ UNCHANGED vars => ListInv'
    <3>1. IInv /\ UNCHANGED vars => IInv'
      BY StepInductive
    <3> QED
      BY <3>1 DEF vars, host, ListInv, Owner, Cloud, Listing, DegradationListed,
         Quiet, Unlisted, FailedIn
  <2> QED
    BY <2>1, <2>2
<1>3. ListInv => DegradationListed
  BY DEF ListInv
<1> QED
  BY <1>1, <1>2, <1>3, PTL DEF Spec

-----------------------------------------------------------------------------
(* Strict mode.                                                            *)

EscapeInv == IInv /\ Owner /\ Escapes /\ StrictNeverCompletes

\* A failed step is a step, and the steps after it can be counted.
LEMMA FailedSteps == ASSUME NEW c PROVE FailedIn(c) \subseteq Steps
  BY PipelineAssumption DEF PipelineAssumption, FailedIn

LEMMA RanAfterFinite ==
  ASSUME NEW p, NEW s \in Steps, NEW k \in Int
  PROVE  IsFiniteSet(RanAfter(p, s, k)) /\ Cardinality(RanAfter(p, s, k)) \in Nat
<1>1. IsFiniteSet((s + 1)..k)
  BY FS_Interval DEF Steps
<1>2. RanAfter(p, s, k) \subseteq (s + 1)..k
  BY DEF RanAfter
<1> QED
  BY <1>1, <1>2, FS_Subset, FS_CardinalityType

\* One more step that runs raises the count of the steps after s by one at most,
\* and by none if preview mode passes over it.
LEMMA RanAfterGrows ==
  ASSUME NEW p \in BOOLEAN, NEW s \in Steps, NEW k \in Steps
  PROVE  /\ Cardinality(RanAfter(p, s, k)) \in Nat
         /\ s = k => Cardinality(RanAfter(p, s, k)) = 0
         /\ Cardinality(RanAfter(p, s, k)) <= Cardinality(RanAfter(p, s, k - 1)) + 1
         /\ p /\ k \in PreviewSkips => RanAfter(p, s, k) = RanAfter(p, s, k - 1)
<1> DEFINE R(j) == RanAfter(p, s, j)
<1>i. s \in Int /\ k \in Int /\ k - 1 \in Int
  BY DEF Steps
<1>1. \A j \in Int : IsFiniteSet(R(j)) /\ Cardinality(R(j)) \in Nat
  BY RanAfterFinite
<1>2. R(k) \subseteq R(k - 1) \cup {k}
  BY <1>i DEF RanAfter
<1>3. IsFiniteSet(R(k - 1) \cup {k})
      /\ Cardinality(R(k - 1) \cup {k}) <= Cardinality(R(k - 1)) + 1
  <2>1. IsFiniteSet(R(k - 1)) /\ Cardinality(R(k - 1)) \in Nat
    BY <1>i, <1>1
  <2> HIDE DEF R
  <2> QED
    BY <2>1, FS_AddElement
<1>4. Cardinality(R(k)) <= Cardinality(R(k - 1) \cup {k})
  BY <1>2, <1>3, FS_Subset
<1>5. Cardinality(R(k)) <= Cardinality(R(k - 1)) + 1
  <2>1. /\ Cardinality(R(k)) \in Nat /\ Cardinality(R(k - 1)) \in Nat
        /\ Cardinality(R(k - 1) \cup {k}) \in Nat
    BY <1>i, <1>1, <1>3, FS_CardinalityType
  <2> HIDE DEF R
  <2> QED
    BY <1>3, <1>4, <2>1
<1>6. s = k => R(k) = {}
  BY <1>i DEF RanAfter
<1>7. p /\ k \in PreviewSkips => R(k) = R(k - 1)
  BY <1>i DEF RanAfter
<1> QED
  BY <1>i, <1>1, <1>5, <1>6, <1>7, FS_EmptySet

\* When the step in hand settles, what was paid for before it is owed at most.
LEMMA OwedNow ==
  ASSUME TypeOK, Paid(ctx, pos - 1), pos \in Steps,
         NEW c, FailedIn(c) \subseteq Failed \cup {pos}
  PROVE  Owed(c, pos)
<1> DEFINE R(s, k) == Cardinality(RanAfter(setup.preview, s, k))
<1>1. setup.preview \in BOOLEAN /\ budget.crash \in Nat /\ pos \in Nat
  BY PipelineAssumption DEF PipelineAssumption, TypeOK, Setup, Budget, Steps
<1> SUFFICES ASSUME NEW s \in FailedIn(c), s <= pos
             PROVE  R(s, pos) <= budget.crash
  BY DEF Owed
<1>2. s \in Steps
  BY FailedSteps
<1>3. R(s, pos) \in Nat /\ (s = pos => R(s, pos) = 0)
      /\ R(s, pos) <= R(s, pos - 1) + 1
  BY <1>1, <1>2, RanAfterGrows
<1>4. CASE s = pos
  BY <1>1, <1>3, <1>4
<1>5. CASE s # pos
  <2>1. s \in Failed /\ s <= pos - 1
    BY <1>1, <1>2, <1>5 DEF Steps
  <2>2. R(s, pos - 1) < budget.crash
    BY <2>1 DEF Paid, Failed
  <2>3. R(s, pos - 1) \in Nat
    BY <1>1, <1>2, RanAfterFinite
  <2> HIDE DEF R
  <2> QED
    BY <1>1, <1>3, <2>2, <2>3
<1> QED
  BY <1>4, <1>5

\* Whoever has paid owes nothing more.
LEMMA PaidOwed ==
  ASSUME TypeOK, NEW c, NEW k \in Int, Paid(c, k)
  PROVE  Owed(c, k)
<1>1. \A s \in FailedIn(c) : Cardinality(RanAfter(setup.preview, s, k)) \in Nat
  BY FailedSteps, RanAfterFinite
<1>2. budget.crash \in Nat
  BY PipelineAssumption DEF PipelineAssumption, TypeOK, Budget
<1> QED
  BY <1>1, <1>2 DEF Paid, Owed

\* Ending a run, completed only if strict mode let it through, keeps Escapes.
LEMMA EndEscapes ==
  ASSUME EscapeInv, NEW how, End(how), pc # "ended",
         Strict /\ how = "completed" =>
           (Cloud \/ Failed = {}) /\ Paid(ctx, N)
  PROVE  Escapes' /\ StrictNeverCompletes'
<1>1. Escapes'
  BY DEF End, EscapeInv, Escapes, Strict, FailedIn, Checking
<1>2. StrictNeverCompletes'
  <2>1. \A s \in SoftSteps : s <= N
    BY PipelineAssumption DEF PipelineAssumption, Steps
  <2> QED
    BY <2>1 DEF End, StrictNeverCompletes, Strict, Cloud, Failed, FailedIn, Paid
<1> QED
  BY <1>1, <1>2

\* The steps of the hosts keep Escapes.
LEMMA HostEscapes ==
  ASSUME EscapeInv, HostStep PROVE Escapes' /\ StrictNeverCompletes'
<1> USE DEF host, Checking
<1>o. pc # "ended" => outcome = "none"
  BY DEF EscapeInv, IInv, Frontier
<1>c. budget.crash \in Nat /\ attempt \in Nat
  BY PipelineAssumption
     DEF PipelineAssumption, EscapeInv, IInv, TypeOK, Budget
<1>m. ckpt.mark \in Int /\ (ckpt # NoFile => ckpt.mark \in 0..N)
  BY PipelineAssumption
     DEF PipelineAssumption, EscapeInv, IInv, TypeOK, Dump, NoFile
<1>1. CASE BeginFresh
  <2>1. Strict => ctx = NewContext
    BY <1>1 DEF BeginFresh, EscapeInv, Escapes
  <2> QED
    BY <1>1, <1>o, <2>1, NewContextFailed
       DEF BeginFresh, EscapeInv, Escapes, StrictNeverCompletes, Strict, Failed,
       Cloud, FailedIn, Paid
<1>2. CASE BeginRestored
  <2>1. (ckpt.mark + 1) - 1 = ckpt.mark /\ Cloud
    BY <1>2, <1>m DEF BeginRestored, RestoreAt
  <2>2. Strict => Paid(ckpt.ctx, ckpt.mark)
    BY <1>2 DEF BeginRestored, RestoreAt, EscapeInv, Escapes
  <2>3. /\ ctx' = ckpt.ctx /\ pos' = ckpt.mark + 1
        /\ pc' = IF ckpt.mark = N THEN "extract" ELSE "preflight"
        /\ UNCHANGED <<setup, budget, ckpt, saved, outcome>>
    BY <1>2 DEF BeginRestored, RestoreAt
  <2>4. Strict => Paid(ctx, pos - 1)' /\ Paid(ckpt.ctx, ckpt.mark)'
    BY <2>1, <2>2, <2>3 DEF Paid, FailedIn
  <2>5. Strict /\ pc' = "extract" => Paid(ctx, N)'
    BY <2>2, <2>3 DEF Paid, FailedIn
  <2>6. (Strict' <=> Strict) /\ Cloud' /\ FailedIn(saved.ctx)' = FailedIn(saved.ctx)
    BY <2>1, <2>3 DEF Strict, Cloud, FailedIn
  <2>7. pc' \in {"extract", "preflight"} /\ outcome' = "none"
    BY <1>2, <1>o, <2>3 DEF BeginRestored, RestoreAt
  <2> QED
    BY <2>4, <2>5, <2>6, <2>7 DEF EscapeInv, Escapes, StrictNeverCompletes
<1>3. CASE BeginAgain
  BY <1>3, <1>o, NewContextFailed
     DEF BeginAgain, EscapeInv, Escapes, StrictNeverCompletes, Strict, Failed,
     Cloud, FailedIn, Paid
<1>4. CASE GiveUp
  BY <1>4, EndEscapes DEF GiveUp
<1>5. CASE Retry
  BY <1>5, <1>o, <1>c
     DEF Retry, EscapeInv, Escapes, StrictNeverCompletes, Strict, FailedIn, Paid
<1>6. CASE BackoffCancelled
  BY <1>6, EndEscapes DEF BackoffCancelled
<1>7. CASE RequestCancel
  BY <1>7, <1>o
     DEF RequestCancel, EscapeInv, Escapes, StrictNeverCompletes, Strict,
     Cloud, Failed, FailedIn, Paid, Owed
<1>8. CASE Crash
  <2>1. Strict => Owed(ckpt.ctx, ckpt.mark)
    BY <1>8, <1>m, PaidOwed DEF Crash, EscapeInv, IInv, Escapes
  <2>2. budget'.crash = budget.crash + 1
    BY <1>8 DEF Crash, EscapeInv, IInv, TypeOK, Budget
  <2>3. Strict => Paid(ckpt.ctx, ckpt.mark)'
    <3>1. ASSUME NEW s \in FailedIn(ckpt.ctx), s <= ckpt.mark, Strict
          PROVE  Cardinality(RanAfter(setup.preview, s, ckpt.mark))
                   < budget.crash + 1
      <4>1. Cardinality(RanAfter(setup.preview, s, ckpt.mark)) <= budget.crash
        BY <2>1, <3>1 DEF Owed
      <4>2. Cardinality(RanAfter(setup.preview, s, ckpt.mark)) \in Nat
        BY <1>m, FailedSteps, RanAfterFinite
      <4> QED
        BY <1>c, <4>1, <4>2
    <3> QED
      BY <1>8, <1>c, <2>2, <3>1 DEF Crash, Paid, FailedIn
  <2>4. /\ pc' \in {"idle", "ended"} /\ ctx' = NewContext
        /\ UNCHANGED <<setup, saved>> /\ outcome' # "completed"
    BY <1>8, <1>o DEF Crash
  <2> QED
    BY <2>3, <2>4
       DEF EscapeInv, Escapes, StrictNeverCompletes, Strict, FailedIn
<1>9. ASSUME NEW c, NEW next, FromState(c, next),
             FailedIn(c) \subseteq FailedIn(saved.ctx)
      PROVE  Escapes' /\ StrictNeverCompletes'
  <2>1. /\ ckpt' = NoFile /\ ctx' = c /\ pc' = "preflight"
        /\ UNCHANGED <<setup, saved>> /\ outcome' = "none"
    BY <1>9 DEF FromState, EscapeInv, Owner
  <2>2. Strict => FailedIn(c) = {}
    BY <1>9 DEF EscapeInv, Escapes
  <2>3. Strict => Paid(ctx, pos - 1)' /\ Failed' = {} /\ FailedIn(saved.ctx)' = {}
    BY <2>1, <2>2 DEF Paid, Failed, FailedIn, EscapeInv, Escapes
  <2>4. Paid(ckpt.ctx, ckpt.mark)'
    BY <2>1, NoFileFailed DEF Paid, FailedIn
  <2> QED
    BY <2>1, <2>3, <2>4 DEF Escapes, StrictNeverCompletes, Strict
<1>10. CASE Resume
  BY <1>9, <1>10 DEF Resume
<1>11. ASSUME NEW from \in Steps, Rerun(from)
       PROVE  Escapes' /\ StrictNeverCompletes'
  <2>1. saved \in Dump
    BY <1>11 DEF Rerun, FromState, EscapeInv, IInv, TypeOK
  <2>2. FailedIn(Invalidated(saved.ctx, from)) \subseteq FailedIn(saved.ctx)
    BY <2>1, InvalidatedFailed DEF Dump
  <2> QED
    BY <1>9, <1>11, <2>2 DEF Rerun
<1> QED
  BY <1>1, <1>2, <1>3, <1>4, <1>5, <1>6, <1>7, <1>8, <1>10, <1>11 DEF HostStep

\* What Notify does to the file, as far as strict mode is concerned: it is as it
\* was, or it holds what the caller passes.
LEMMA NotifyFile ==
  ASSUME TypeOK, NEW mark, NEW c, Notify(mark, c)
  PROVE  /\ budget'.crash = budget.crash
         /\ ckpt' \in {ckpt, [mark |-> mark, ctx |-> c]}
  BY DEF TypeOK, Budget, Notify

\* The loop of run_pipeline() keeps Escapes.
LEMMA LoopEscapes ==
  ASSUME EscapeInv, LoopStep PROVE Escapes' /\ StrictNeverCompletes'
<1> USE DEF host, Checking
<1>o. pc # "ended" => outcome = "none"
  BY DEF EscapeInv, IInv, Frontier
<1>t. TypeOK /\ ctx \in Context /\ pos \in Int
  BY PipelineAssumption DEF PipelineAssumption, EscapeInv, IInv, TypeOK
<1>a. AtStep => pos \in Steps
  BY PipelineAssumption
     DEF AtStep, EscapeInv, IInv, TypeOK, Steps, PipelineAssumption
<1>m. ckpt.mark \in Int
  BY PipelineAssumption
     DEF PipelineAssumption, EscapeInv, IInv, TypeOK, Dump, NoFile
\* a step that goes on to be checked, its checkpoint not written yet
<1>s. ASSUME NEW c, FailedIn(c) \subseteq Failed \cup {pos},
             pc \in {"boundary", "exec", "asked"}, pos \in Steps,
             ctx' = c, pc' \in Checking, outcome' = outcome,
             UNCHANGED <<setup, pos, saved>>,
             budget'.crash = budget.crash,
             ckpt' \in {ckpt, [mark |-> pos, ctx |-> c]}
      PROVE  Escapes' /\ StrictNeverCompletes'
  <2>1. Strict => Owed(c, pos) /\ Paid(ckpt.ctx, ckpt.mark)
    BY <1>s, <1>t, OwedNow DEF EscapeInv, Escapes
  <2>2. Strict => Owed(ctx, pos)'
    BY <1>s, <2>1 DEF Owed, FailedIn
  <2>3. CASE ckpt' = ckpt
    <3>1. Strict => Paid(ckpt.ctx, ckpt.mark)'
      BY <1>s, <2>1, <2>3 DEF Paid, FailedIn
    <3> QED
      BY <1>s, <1>o, <2>2, <3>1
         DEF EscapeInv, Escapes, StrictNeverCompletes, Strict, FailedIn
  <2>4. CASE ckpt' = [mark |-> pos, ctx |-> c]
    <3>1. Strict => Owed(ckpt.ctx, ckpt.mark)'
      BY <1>s, <2>1, <2>4 DEF Owed, FailedIn
    <3>2. FailedIn(ckpt.ctx)' = Failed'
      BY <1>s, <2>4 DEF Failed, FailedIn
    <3> QED
      BY <1>s, <1>o, <2>2, <3>1, <3>2
         DEF EscapeInv, Escapes, StrictNeverCompletes, Strict, FailedIn
  <2> QED
    BY <1>s, <2>3, <2>4
\* a step that changes none of what Escapes speaks of
<1>u. ASSUME pc \in {"boundary", "exec", "asked"},
             pc' \in {"boundary", "exec", "asked", "backoff"},
             UNCHANGED <<setup, pos, ctx, ckpt, saved, outcome, budget>>
      PROVE  Escapes' /\ StrictNeverCompletes'
  BY <1>u, <1>o DEF EscapeInv, Escapes, StrictNeverCompletes, Strict, Cloud,
     Failed, FailedIn, Paid
<1>1. CASE Preflight
  <2>1. budget'.crash = budget.crash /\ ckpt' \in {ckpt, [mark |-> 0, ctx |-> ctx]}
    BY <1>1, <1>t, NotifyFile DEF Preflight
  <2>2. Strict => Paid(ckpt.ctx, ckpt.mark)'
    <3>1. Strict => Paid(ctx, pos - 1) /\ Paid(ckpt.ctx, ckpt.mark)
      BY <1>1 DEF Preflight, EscapeInv, Escapes
    <3>2. \A s \in FailedIn(ctx) : ~(s <= 0)
      BY FailedSteps DEF Steps
    <3> QED
      BY <1>1, <2>1, <3>1, <3>2 DEF Preflight, Paid, FailedIn
  <2>3. Strict => Paid(ctx, pos - 1)'
    BY <1>1, <2>1 DEF Preflight, EscapeInv, Escapes, Paid, FailedIn
  <2> QED
    BY <1>1, <1>o, <2>2, <2>3 DEF Preflight, EscapeInv, Escapes,
       StrictNeverCompletes, Strict, Cloud, Failed, FailedIn
<1>2. CASE StepDisabled
  <2> DEFINE c == Verdict(pos, "disabled")
  <2>1. pos \in Steps /\ pc = "boundary"
    BY <1>2, <1>a DEF StepDisabled, AtStep
  <2>2. FailedIn(c) \subseteq Failed \cup {pos}
    BY <1>t, <2>1, VerdictFailed DEF StepStatus
  <2>3. budget'.crash = budget.crash /\ ckpt' \in {ckpt, [mark |-> pos, ctx |-> c]}
    BY <1>2, <1>t, NotifyFile DEF StepDisabled
  <2>4. ctx' = c /\ pc' = "strict" /\ UNCHANGED <<setup, pos, saved, outcome>>
    BY <1>2 DEF StepDisabled
  <2> HIDE DEF c
  <2> QED
    BY <1>s, <2>1, <2>2, <2>3, <2>4
<1>3. CASE StepPreviewSkipped
  <2>1. /\ pos \in Steps /\ pc = "boundary" /\ pc' = "boundary" /\ pos' = pos + 1
        /\ setup.preview /\ pos \in PreviewSkips
        /\ UNCHANGED <<setup, ckpt, saved, budget, outcome>>
    BY <1>3, <1>a DEF StepPreviewSkipped, AtStep
  <2>2. FailedIn(ctx') = Failed
    BY <1>3, <1>t, <2>1, MarkFailed DEF StepPreviewSkipped
  <2>3. Strict => Paid(ctx, pos - 1)
    BY <2>1 DEF EscapeInv, Escapes
  <2>4. ASSUME Strict, NEW s \in Failed, s <= pos
        PROVE  Cardinality(RanAfter(setup.preview, s, pos)) < budget.crash
    <3>1. s \in Steps /\ setup.preview \in BOOLEAN
      BY <1>t, FailedSteps, PipelineAssumption
         DEF PipelineAssumption, Failed, TypeOK, Setup
    <3>2. CASE s = pos
      <4>1. Cardinality(RanAfter(setup.preview, s, pos)) = 0
        BY <2>1, <3>1, <3>2, RanAfterGrows
      <4>2. budget.crash > 0
        BY <2>3, <2>4 DEF Paid, Failed
      <4> QED
        BY <4>1, <4>2
    <3>3. CASE s # pos
      <4>1. RanAfter(setup.preview, s, pos) = RanAfter(setup.preview, s, pos - 1)
        BY <2>1, <3>1, RanAfterGrows
      <4>2. s <= pos - 1
        BY <2>1, <2>4, <3>1, <3>3 DEF Steps
      <4>3. Cardinality(RanAfter(setup.preview, s, pos - 1)) < budget.crash
        BY <2>3, <2>4, <4>2 DEF Paid, Failed
      <4> QED
        BY <4>1, <4>3
    <3> QED
      BY <3>2, <3>3
  <2>5. pos' - 1 = pos
    BY <1>t, <2>1
  <2>6. Strict => Paid(ctx, pos - 1)'
    <3>1. Strict => \A s \in Failed : budget.crash > 0
      BY <2>3 DEF Paid, Failed
    <3> QED
      BY <2>1, <2>2, <2>4, <2>5, <3>1 DEF Paid
  <2>7. Strict => Paid(ckpt.ctx, ckpt.mark)' /\ (Cloud' \/ Failed' = {})
    BY <2>1, <2>2 DEF EscapeInv, Escapes, Paid, FailedIn, Failed, Cloud
  <2> QED
    BY <1>o, <2>1, <2>6, <2>7
       DEF EscapeInv, Escapes, StrictNeverCompletes, Strict, FailedIn
<1>4. CASE StepStart \/ Ask \/ AnswerRetry
  BY <1>4, <1>u DEF StepStart, AtStep, Ask, AnswerRetry
<1>5. CASE HardReturns \/ AnswerSkip
  <2>1. pos \in Steps /\ pc \in {"exec", "asked"} /\ pc' = "settle"
    BY <1>5 DEF HardReturns, AnswerSkip, EscapeInv, IInv, TypeOK, InStep
  <2>2. FailedIn(ctx') = Failed
    BY <1>5, <1>t, <2>1, MarkFailed DEF HardReturns, AnswerSkip
  <2>3. UNCHANGED <<setup, pos, ckpt, budget, saved, outcome>>
    BY <1>5 DEF HardReturns, AnswerSkip
  <2> QED
    BY <1>s, <2>1, <2>2, <2>3
<1>6. ASSUME NEW r, NEW v \in StepStatus, SoftReturns(r, v)
      PROVE  Escapes' /\ StrictNeverCompletes'
  <2>1. pos \in Steps /\ pc = "exec" /\ pc' = "settle"
    BY <1>6 DEF SoftReturns, EscapeInv, IInv, TypeOK, InStep
  <2>2. FailedIn(ctx') \subseteq Failed \cup {pos}
    BY <1>6, <1>t, <2>1, VerdictFailed DEF SoftReturns
  <2>3. UNCHANGED <<setup, pos, ckpt, budget, saved, outcome>>
    BY <1>6 DEF SoftReturns
  <2> QED
    BY <1>s, <2>1, <2>2, <2>3
<1>7. CASE SoftRaises
  <2> DEFINE c == Verdict(pos, "failed")
  <2>1. pos \in Steps /\ pc = "exec"
    BY <1>7 DEF SoftRaises, EscapeInv, IInv, TypeOK, InStep
  <2>2. FailedIn(c) \subseteq Failed \cup {pos}
    BY <1>t, <2>1, VerdictFailed DEF StepStatus
  <2>3. budget'.crash = budget.crash /\ ckpt' \in {ckpt, [mark |-> pos, ctx |-> c]}
    BY <1>7, <1>t, NotifyFile DEF SoftRaises
  <2>4. ctx' = c /\ pc' = "degrade" /\ UNCHANGED <<setup, pos, saved, outcome>>
    BY <1>7 DEF SoftRaises
  <2> HIDE DEF c
  <2> QED
    BY <1>s, <2>1, <2>2, <2>3, <2>4
<1>8. CASE Degrade \/ DegradeStrict
  <2>1. pos \in Steps /\ pc = "degrade"
    BY <1>8 DEF Degrade, DegradeStrict, EscapeInv, IInv, TypeOK, InStep
  <2>2. FailedIn(ctx') = Failed
    BY <1>8, <1>t, <2>1, MarkFailed DEF Degrade, DegradeStrict
  <2>3. UNCHANGED <<setup, pos, ckpt, budget, saved>> /\ outcome' # "completed"
    BY <1>8, <1>o, <2>1 DEF Degrade, DegradeStrict
  <2>4. pc' \in {"settle", "ended"}
    BY <1>8 DEF Degrade, DegradeStrict
  <2> QED
    BY <2>1, <2>2, <2>3, <2>4 DEF EscapeInv, Escapes, StrictNeverCompletes,
       Strict, Failed, FailedIn, Paid, Owed
<1>9. CASE StrictRaises \/ PreflightFails \/ StepCancelled \/ AnswerAbort
  BY <1>9, EndEscapes DEF StrictRaises, PreflightFails, StepCancelled, AtStep,
     AnswerAbort
<1>10. ASSUME NEW r \in BOOLEAN, HardRaises(r)
       PROVE  Escapes' /\ StrictNeverCompletes'
  <2>1. CASE End("failed")
    BY <1>10, <2>1, EndEscapes DEF HardRaises
  <2>2. CASE ~End("failed")
    BY <1>10, <1>u, <2>2 DEF HardRaises
  <2> QED
    BY <2>1, <2>2
<1>11. CASE Settle
  <2> DEFINE late == /\ pos \in SoftSteps /\ result = "warning"
                     /\ ctx.status[pos] \in {"failed", "skipped"}
             c == IF late THEN [ctx EXCEPT !.degraded = @ \cup {pos}] ELSE ctx
  <2>1. pos \in Steps /\ pc = "settle" /\ SettleWith(c)
    BY <1>11 DEF Settle, SettleWith, EscapeInv, IInv, TypeOK, InStep
  <2>2. FailedIn(c) = Failed
    BY <1>t, <2>1, MarkFailed DEF Failed
  <2> HIDE DEF c
  <2>3. budget'.crash = budget.crash /\ ckpt' \in {ckpt, [mark |-> pos, ctx |-> c]}
    BY <1>t, <2>1, NotifyFile DEF SettleWith
  <2>4. ctx' = c /\ pc' = "strict" /\ UNCHANGED <<setup, pos, saved, outcome>>
    BY <2>1 DEF SettleWith
  <2>5. Failed' = Failed
    BY <2>2, <2>4 DEF Failed, FailedIn
  <2>6. Strict => Owed(ctx, pos) /\ Owed(ctx, pos)'
    BY <2>1, <2>2, <2>3, <2>4 DEF EscapeInv, Escapes, Owed, Failed
  <2>7. Strict => \/ Paid(ckpt.ctx, ckpt.mark)'
                  \/ FailedIn(ckpt.ctx)' = Failed' /\ Owed(ckpt.ctx, ckpt.mark)'
    <3>1. CASE ckpt' = ckpt
      BY <2>1, <2>3, <2>4, <2>5, <3>1
         DEF EscapeInv, Escapes, Paid, Owed, FailedIn
    <3>2. CASE ckpt' = [mark |-> pos, ctx |-> c]
      BY <2>2, <2>3, <2>4, <2>5, <2>6, <3>2 DEF Owed, Failed, FailedIn
    <3> QED
      BY <2>3, <3>1, <3>2
  <2> QED
    BY <1>o, <2>1, <2>4, <2>6, <2>7
       DEF EscapeInv, Escapes, StrictNeverCompletes, Strict, FailedIn
<1>12. CASE StrictPasses
  <2>1. Strict => Failed = {} /\ Paid(ckpt.ctx, ckpt.mark)
    BY <1>12
       DEF StrictPasses, StrictTrips, EscapeInv, Escapes, Paid
  <2>2. /\ pc' \in {"pause", "boundary"} /\ UNCHANGED <<ctx, ckpt, budget>>
        /\ UNCHANGED <<setup, saved, outcome>> /\ pc = "strict"
    BY <1>12 DEF StrictPasses
  <2>3. Strict => /\ Failed' = {} /\ Paid(ckpt.ctx, ckpt.mark)'
                  /\ Paid(ctx, pos - 1)'
    BY <2>1, <2>2 DEF Paid, Failed, FailedIn
  <2> QED
    BY <1>o, <2>2, <2>3
       DEF EscapeInv, Escapes, StrictNeverCompletes, Strict, FailedIn
<1>13. CASE Pause
  BY <1>13 DEF Pause, EscapeInv, Escapes, StrictNeverCompletes, Strict,
     Failed, FailedIn
<1>14. CASE Finish
  <2>1. pos - 1 = N
    BY <1>14, PipelineAssumption
       DEF PipelineAssumption, Finish, EscapeInv, IInv, TypeOK
  <2> QED
    BY <1>14, <2>1, EndEscapes DEF Finish, EscapeInv, Escapes
<1>15. CASE Extract
  BY <1>15, EndEscapes DEF Extract, EscapeInv, Escapes
<1> QED
  BY <1>1, <1>2, <1>3, <1>4, <1>5, <1>6, <1>7, <1>8, <1>9, <1>10, <1>11, <1>12,
     <1>13, <1>14, <1>15 DEF LoopStep, StepStatus

\* --strict: a run that completes with a failed soft step belongs to a cloud
\* task whose process died once for that step and once for every later one that
\* ran; no retry, pause, resume, rerun or lost checkpoint lets one through.
THEOREM StrictModeHolds == Spec => []StrictNeverCompletes
<1>1. Init => EscapeInv
  <2>1. ASSUME Init PROVE Owner /\ Escapes /\ StrictNeverCompletes
    BY <2>1, NewContextFailed, NoFileFailed
       DEF Init, Owner, Escapes, StrictNeverCompletes, Paid, Checking, NoFile
  <2> QED
    BY <2>1, InitInductive DEF EscapeInv
<1>2. EscapeInv /\ [Next]_vars => EscapeInv'
  <2>1. EscapeInv /\ Next => EscapeInv'
    <3>1. IInv /\ Next => IInv'
      BY StepInductive
    <3>2. Next => HostStep \/ LoopStep
      BY DEF Next, Running, Environment, HostStep, LoopStep
    <3> QED
      BY <3>1, <3>2, OwnerStep, HostEscapes, LoopEscapes DEF EscapeInv
  <2>2. EscapeInv /\ UNCHANGED vars => EscapeInv'
    <3>1. IInv /\ UNCHANGED vars => IInv'
      BY StepInductive
    <3>2. UNCHANGED vars => /\ Escapes <=> Escapes'
                            /\ Owner <=> Owner'
                            /\ StrictNeverCompletes <=> StrictNeverCompletes'
      BY DEF vars, host, Owner, Cloud, Strict, Escapes, StrictNeverCompletes,
         Failed, FailedIn, Paid, Owed
    <3> QED
      BY <3>1, <3>2 DEF EscapeInv
  <2> QED
    BY <2>1, <2>2
<1>3. EscapeInv => StrictNeverCompletes
  BY DEF EscapeInv
<1> QED
  BY <1>1, <1>2, <1>3, PTL DEF Spec

-----------------------------------------------------------------------------
(***************************************************************************)
(* Why a run ends.  RunEnds needs fairness and stays with TLC; what it     *)
(* rests on does not.  Four counts, compared from the first to the last,   *)
(* fall with every step but a crash and a rerun of the user's, and those   *)
(* two are bounded.                                                        *)
(***************************************************************************)

\* attempts that the worker has left
RetriesLeft == IF Cloud THEN MaxRetries - attempt ELSE 0

\* steps that the loop has left; a host that has not begun may begin anywhere
StepsLeft == IF pc = "idle" THEN N + 2
             ELSE IF pc \in {"extract", "backoff", "ended"} THEN 0
             ELSE N + 1 - pos

\* what is left to do about the step in hand, with the answers "retry" that the
\* user may still give
AnswersLeft == IF Cloud THEN 0 ELSE 2 * (MaxRetries - attempt)
StageLeft ==
  CASE pc = "preflight" -> 8 + 2 * MaxRetries
    [] pc = "boundary"  -> 7 + 2 * MaxRetries
    [] pc = "exec"      -> 6 + AnswersLeft
    [] pc = "asked"     -> 5 + AnswersLeft
    [] pc = "degrade"   -> 4
    [] pc = "settle"    -> 3
    [] pc = "strict"    -> 2
    [] pc = "ended"     -> 0
    [] OTHER            -> 1

\* the first of the counts to change has fallen; a cancellation counts last
Lowers(now, then, others) == now < then \/ (now = then /\ others)
Nearer ==
  Lowers(RetriesLeft', RetriesLeft,
    Lowers(StepsLeft', StepsLeft,
      Lowers(StageLeft', StageLeft, cancel' /\ ~cancel)))

CountsLeft == RetriesLeft \in Nat /\ StepsLeft \in Nat /\ StageLeft \in Nat

RunNearsEnd ==
  [][Nearer \/ budget'.crash > budget.crash \/ budget'.rerun > budget.rerun]_vars


\* only a cloud task sleeps before an attempt
Counted == TypeOK /\ (pc = "backoff" => Cloud)

\* What the comparison of the counts comes to, by the first one that falls.
LEMMA NearerCases ==
  \/ RetriesLeft' < RetriesLeft
  \/ RetriesLeft' = RetriesLeft /\ StepsLeft' < StepsLeft
  \/ /\ RetriesLeft' = RetriesLeft /\ StepsLeft' = StepsLeft
     /\ StageLeft' < StageLeft
  \/ /\ RetriesLeft' = RetriesLeft /\ StepsLeft' = StepsLeft
     /\ StageLeft' = StageLeft /\ cancel' /\ ~cancel
  => Nearer
  BY DEF Nearer, Lowers

\* The attempts left change only with the attempt of a cloud task.
LEMMA RetriesKept ==
  ASSUME setup' = setup, Cloud => attempt' = attempt
  PROVE  RetriesLeft' = RetriesLeft /\ (Cloud <=> Cloud')
  BY DEF RetriesLeft, Cloud

\* The counts are counts.
LEMMA CountsAreNatural == ASSUME TypeOK PROVE CountsLeft
<1> USE PipelineAssumption DEF PipelineAssumption
<1>1. N \in Nat /\ MaxRetries \in Nat /\ attempt \in 0..MaxRetries
      /\ pos \in 1..(N + 1)
  BY DEF TypeOK
<1>2. RetriesLeft \in Nat
  BY <1>1 DEF RetriesLeft
<1>3. StepsLeft \in Nat
  BY <1>1 DEF StepsLeft
<1>4. AnswersLeft \in Nat
  BY <1>1 DEF AnswersLeft
<1>5. StageLeft \in Nat
  BY <1>1, <1>4 DEF StageLeft
<1> QED
  BY <1>2, <1>3, <1>5 DEF CountsLeft

\* A run that ends gives up the steps that are left.
LEMMA EndNearer ==
  ASSUME TypeOK, pc # "ended", NEW how, End(how) PROVE Nearer
<1> USE PipelineAssumption DEF PipelineAssumption
<1>1. RetriesLeft' = RetriesLeft
  BY RetriesKept DEF End
<1>2. StepsLeft' = 0 /\ StageLeft' = 0
  BY DEF End, StepsLeft, StageLeft
<1>3. StepsLeft \in Nat /\ StageLeft \in Nat
  BY CountsAreNatural DEF CountsLeft
<1>4. AnswersLeft \in Nat
  BY DEF TypeOK, AnswersLeft
<1>5. StageLeft # 0
  BY <1>4 DEF StageLeft
<1> QED
  BY <1>1, <1>2, <1>3, <1>5, NearerCases

\* A step of the loop that keeps its place moves on to what is left to do there.
LEMMA StageNearer ==
  ASSUME setup' = setup, pos' = pos, Cloud => attempt' = attempt,
         pc \notin {"idle", "extract", "backoff", "ended"},
         pc' \notin {"idle", "extract", "backoff", "ended"},
         StageLeft' < StageLeft
  PROVE  Nearer
<1>1. RetriesLeft' = RetriesLeft
  BY RetriesKept
<1>2. StepsLeft' = StepsLeft
  BY DEF StepsLeft
<1> QED
  BY <1>1, <1>2, NearerCases

\* The hosts: a run that begins has fewer steps before it than before.
LEMMA HostNearer ==
  ASSUME Counted, HostStep
  PROVE  Nearer \/ budget'.crash > budget.crash \/ budget'.rerun > budget.rerun
<1> USE PipelineAssumption DEF PipelineAssumption
<1> TypeOK
  BY DEF Counted
<1>1. CASE BeginFresh
  <2>1. StepsLeft' < StepsLeft
    BY <1>1 DEF BeginFresh, StepsLeft
  <2> QED
    BY <1>1, <2>1, RetriesKept, NearerCases DEF BeginFresh, host
<1>2. CASE BeginRestored
  <2>1. ckpt \in Dump
    BY <1>2 DEF BeginRestored, RestoreAt, TypeOK
  <2>2. ckpt.mark \in 0..N
    BY <2>1 DEF Dump
  <2>3. StepsLeft' < StepsLeft
    BY <1>2, <2>2 DEF BeginRestored, RestoreAt, StepsLeft
  <2> QED
    BY <1>2, <2>3, RetriesKept, NearerCases DEF BeginRestored, RestoreAt
<1>3. CASE BeginAgain
  <2>1. StepsLeft' < StepsLeft
    BY <1>3 DEF BeginAgain, StepsLeft
  <2> QED
    BY <1>3, <2>1, RetriesKept, NearerCases DEF BeginAgain
<1>4. CASE GiveUp
  BY <1>4, EndNearer DEF GiveUp
<1>5. CASE Retry
  <2>1. RetriesLeft' < RetriesLeft
    BY <1>5 DEF Retry, Counted, TypeOK, RetriesLeft, Cloud, host
  <2> QED
    BY <2>1, NearerCases
<1>6. CASE BackoffCancelled
  BY <1>6, EndNearer DEF BackoffCancelled
<1>7. CASE RequestCancel
  <2>1. StepsLeft' = StepsLeft /\ StageLeft' = StageLeft
    BY <1>7 DEF RequestCancel, StepsLeft, StageLeft, AnswersLeft, Cloud
  <2>2. cancel' /\ ~cancel
    BY <1>7 DEF RequestCancel, TypeOK
  <2> QED
    BY <1>7, <2>1, <2>2, RetriesKept, NearerCases DEF RequestCancel
<1>8. CASE Crash
  BY <1>8 DEF Crash, TypeOK, Budget
<1>9. CASE Resume
  BY <1>9 DEF Resume, FromState, TypeOK, Budget
<1>10. CASE \E from \in Steps : Rerun(from)
  BY <1>10 DEF Rerun, FromState, TypeOK, Budget
<1> QED
  BY <1>1, <1>2, <1>3, <1>4, <1>5, <1>6, <1>7, <1>8, <1>9, <1>10 DEF HostStep

\* The loop: every step is given its turn once, and its turn ends.
LEMMA LoopNearer == ASSUME Counted, LoopStep PROVE Nearer
<1> USE PipelineAssumption DEF PipelineAssumption
<1> TypeOK
  BY DEF Counted
<1>1. CASE Preflight
  <2>1. StageLeft' < StageLeft
    BY <1>1 DEF Preflight, StageLeft
  <2> QED
    BY <1>1, <2>1, StageNearer DEF Preflight, host
<1>2. CASE PreflightFails \/ StepCancelled \/ AnswerAbort \/ StrictRaises
           \/ Finish \/ Extract
  BY <1>2, EndNearer
     DEF PreflightFails, StepCancelled, AtStep, AnswerAbort, StrictRaises, Finish,
     Extract
<1>3. CASE StepDisabled
  <2>1. StageLeft' < StageLeft
    BY <1>3 DEF StepDisabled, AtStep, StageLeft
  <2> QED
    BY <1>3, <2>1, StageNearer DEF StepDisabled, AtStep, host
<1>4. CASE StepPreviewSkipped
  <2>1. StepsLeft' < StepsLeft
    BY <1>4 DEF StepPreviewSkipped, AtStep, StepsLeft, TypeOK
  <2> QED
    BY <1>4, <2>1, RetriesKept, NearerCases DEF StepPreviewSkipped, host
<1>5. CASE StepStart
  <2>1. AnswersLeft' \in 0..(2 * MaxRetries)
    BY <1>5 DEF StepStart, AnswersLeft, Cloud, host
  <2>2. StageLeft' < StageLeft
    BY <1>5, <2>1 DEF StepStart, AtStep, StageLeft
  <2> QED
    BY <1>5, <2>2, StageNearer DEF StepStart, AtStep, host
<1>6. ASSUME pc = "exec", pos' = pos, attempt' = attempt, setup' = setup,
             pc' \in {"settle", "degrade", "asked"}
      PROVE  Nearer
  <2>1. AnswersLeft \in Nat /\ AnswersLeft' = AnswersLeft
    BY <1>6 DEF TypeOK, AnswersLeft, Cloud
  <2>2. StageLeft' < StageLeft
    BY <1>6, <2>1 DEF StageLeft
  <2> QED
    BY <1>6, <2>2, StageNearer
<1>7. CASE HardReturns \/ SoftRaises \/ Ask
  BY <1>6, <1>7 DEF HardReturns, SoftRaises, Ask, host
<1>8. CASE \E o \in {<<"success", "success">>, <<"skipped", "skipped">>,
                     <<"warning", "failed">>, <<"warning", "skipped">>,
                     <<"warning", "success">>} : SoftReturns(o[1], o[2])
  BY <1>6, <1>8 DEF SoftReturns, host
<1>9. CASE \E r \in BOOLEAN : HardRaises(r)
  <2> PICK r \in BOOLEAN : HardRaises(r)
    BY <1>9
  <2>1. CASE pc' = "backoff" /\ MayRetry(r)
    <3>1. StepsLeft' < StepsLeft
      BY <2>1 DEF HardRaises, StepsLeft, TypeOK, InStep, Steps
    <3> QED
      BY <2>1, <3>1, RetriesKept, NearerCases DEF HardRaises, End, host
  <2>2. CASE End("failed")
    BY <2>2, EndNearer DEF HardRaises
  <2> QED
    BY <2>1, <2>2 DEF HardRaises
<1>10. CASE AnswerRetry
  <2>1. CASE Cloud
    <3>1. RetriesLeft' < RetriesLeft
      BY <1>10, <2>1 DEF AnswerRetry, RetriesLeft, Cloud, TypeOK, host
    <3> QED
      BY <3>1, NearerCases
  <2>2. CASE ~Cloud
    <3>1. AnswersLeft' = AnswersLeft - 2 /\ AnswersLeft \in Nat
      BY <1>10, <2>2 DEF AnswerRetry, AnswersLeft, Cloud, TypeOK, host
    <3>2. StageLeft' < StageLeft
      BY <1>10, <3>1 DEF AnswerRetry, StageLeft
    <3> QED
      BY <1>10, <2>2, <3>2, StageNearer DEF AnswerRetry, host
  <2> QED
    BY <2>1, <2>2
<1>11. CASE AnswerSkip
  <2>1. AnswersLeft \in Nat
    BY DEF TypeOK, AnswersLeft
  <2>2. StageLeft' < StageLeft
    BY <1>11, <2>1 DEF AnswerSkip, StageLeft
  <2> QED
    BY <1>11, <2>2, StageNearer DEF AnswerSkip, host
<1>12. CASE Degrade \/ Settle
  <2>1. StageLeft' < StageLeft
    BY <1>12 DEF Degrade, Settle, SettleWith, StageLeft
  <2> QED
    BY <1>12, <2>1, StageNearer DEF Degrade, Settle, SettleWith, host
<1>13. CASE DegradeStrict \/ Pause
  <2>1. StepsLeft' < StepsLeft
    BY <1>13 DEF DegradeStrict, Pause, StepsLeft, TypeOK, InStep, Steps
  <2> QED
    BY <1>13, <2>1, RetriesKept, NearerCases DEF DegradeStrict, Pause
<1>14. CASE StrictPasses
  <2>1. CASE pc' = "pause" /\ pos' = pos
    <3>1. StageLeft' < StageLeft
      BY <1>14, <2>1 DEF StrictPasses, StageLeft
    <3> QED
      BY <1>14, <2>1, <3>1, StageNearer DEF StrictPasses, host
  <2>2. CASE pc' = "boundary" /\ pos' = pos + 1
    <3>1. StepsLeft' < StepsLeft
      BY <1>14, <2>2 DEF StrictPasses, StepsLeft, TypeOK
    <3> QED
      BY <1>14, <3>1, RetriesKept, NearerCases DEF StrictPasses, host
  <2> QED
    BY <1>14, <2>1, <2>2 DEF StrictPasses
<1> QED
  BY <1>1, <1>2, <1>3, <1>4, <1>5, <1>7, <1>8, <1>9, <1>10, <1>11, <1>12, <1>13,
     <1>14 DEF LoopStep

\* Only the worker's retry loop goes to sleep.
LEMMA CountedInductive == Counted /\ [Next]_vars => Counted'
<1> SUFFICES ASSUME Counted, [Next]_vars PROVE Counted'
  OBVIOUS
<1>1. TypeOK'
  <2>1. CASE Next
    BY <2>1, HostType, LoopType
       DEF Counted, Next, Running, Environment, HostStep, LoopStep
  <2>2. CASE UNCHANGED vars
    BY <2>2 DEF Counted, TypeOK, vars
  <2> QED
    BY <2>1, <2>2
<1>2. pc' = "backoff" => Cloud'
  <2>1. CASE HostStep
    BY <2>1 DEF HostStep, BeginFresh, BeginRestored, RestoreAt, BeginAgain, GiveUp,
       End, Retry, BackoffCancelled, RequestCancel, Crash, Resume, Rerun,
       FromState, Counted, Cloud, host
  <2>2. CASE LoopStep
    <3>1. CASE \E r \in BOOLEAN : HardRaises(r)
      BY <3>1 DEF HardRaises, MayRetry, End, Cloud, host
    <3>2. CASE ~ \E r \in BOOLEAN : HardRaises(r)
      BY <2>2, <3>2 DEF LoopStep, Preflight, PreflightFails, StepCancelled, AtStep,
         StepDisabled, StepPreviewSkipped, StepStart, HardReturns, SoftReturns,
         SoftRaises, Degrade, DegradeStrict, Ask, AnswerRetry, AnswerSkip,
         AnswerAbort, Settle, SettleWith, StrictRaises, StrictPasses, Pause,
         Finish, Extract, End
    <3> QED
      BY <3>1, <3>2
  <2>3. CASE UNCHANGED vars
    BY <2>3 DEF Counted, vars, Cloud
  <2> QED
    BY <2>1, <2>2, <2>3 DEF Next, Running, Environment, HostStep, LoopStep
<1> QED
  BY <1>1, <1>2 DEF Counted

\* Every step of a run that is not a crash or a rerun brings its end nearer: no
\* retry, restored checkpoint, question or degraded step makes it go round.
THEOREM EveryRunEnds == Spec => []CountsLeft /\ RunNearsEnd
<1>1. Init => Counted
  BY InitType DEF Init, Counted
<1>2. Counted => CountsLeft
  BY CountsAreNatural DEF Counted
<1>3. Counted /\ [Next]_vars =>
        [\/ Nearer
         \/ budget'.crash > budget.crash \/ budget'.rerun > budget.rerun]_vars
  BY HostNearer, LoopNearer
     DEF Next, Running, Environment, HostStep, LoopStep
<1> QED
  BY <1>1, <1>2, <1>3, CountedInductive, PTL DEF Spec, RunNearsEnd
=============================================================================
