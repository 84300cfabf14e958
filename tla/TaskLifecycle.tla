--------------------------- MODULE TaskLifecycle ---------------------------
(***************************************************************************)
(* What the queue promises of a task, seen from outside: once submitted it *)
(* waits, then one worker works on it, then it settles into one outcome    *)
(* for good.  A task being worked on settles eventually.  A waiting task   *)
(* may be left behind: a restart does not pick up PENDING tasks.           *)
(***************************************************************************)
CONSTANTS Tasks, Outcomes

VARIABLE life

Stages == {"unknown", "waiting", "working"}

LifeOK == life \in [Tasks -> Stages \cup Outcomes]

Init == life = [t \in Tasks |-> "unknown"]

Move(t, from, to) ==
  /\ life[t] = from
  /\ life' = [life EXCEPT ![t] = to]

Accept(t) == Move(t, "unknown", "waiting")
Begin(t)  == Move(t, "waiting", "working")
Settle(t) == \E o \in Outcomes : Move(t, "working", o)

\* the end of a process settles every task it was working on for the last time
\* and that it had already recorded as failed
SettleMany == \E S \in SUBSET Tasks :
  /\ \A t \in S : life[t] = "working"
  /\ \E o \in [S -> Outcomes] :
       life' = [t \in Tasks |-> IF t \in S THEN o[t] ELSE life[t]]

Next == \/ \E t \in Tasks : Accept(t) \/ Begin(t) \/ Settle(t)
        \/ SettleMany

Spec == Init /\ [][Next]_life

FairSpec == Spec /\ \A t \in Tasks : WF_life(Settle(t))
=============================================================================
