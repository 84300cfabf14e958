---------------------------- MODULE MC_Services ----------------------------
(* Instances of the services of the cloud package that owe somebody an      *)
(* answer in the end.  They share no state: a behaviour is one of them, and *)
(* leaves the variables of the others as they are.                          *)
EXTENDS CircuitBreaker, BatchTracker, JobScheduler, RemoteRender

VARIABLE part

CONSTANTS c1, c2, c3 \* threads

OneThread    == {c1}
ThreeThreads == {c1, c2, c3}

-----------------------------------------------------------------------------
\* Days of two minutes; a schedule for every midnight, one for a day of the month or
\* every third day of the week, and one that no minute can match
Segment(k, a, b, n) == [kind |-> k, from |-> a, to |-> b, step |-> n]
Star == <<Segment("any", 0, 0, 0)>>
ThreeCrons ==
  <<[minute |-> <<Segment("step", 0, 0, 2)>>, dom |-> Star, dow |-> Star],
    [minute |-> <<Segment("one", 0, 0, 0), Segment("any", 0, 0, 0)>>,
     dom |-> <<Segment("one", 2, 2, 0)>>, dow |-> <<Segment("range", 3, 6, 3)>>],
    [minute |-> <<Segment("range", 1, 2, 1)>>, dom |-> Star, dow |-> Star]>>
FourDays == [d \in 0..3 |-> [dom |-> d + 1, dow |-> d]]

-----------------------------------------------------------------------------
\* A node, and two that are nodes of each other
OneWay  == [h \in {"a", "b"} |-> IF h = "a" THEN {"b"} ELSE {}]
BothWays == [h \in {"a", "b"} |-> IF h = "a" THEN {"b"} ELSE {"a"}]
TwoTopologies == {OneWay, BothWays}
OneLong == [m \in {"m"} |-> 2]

-----------------------------------------------------------------------------
allvars == <<vars, bvars, svars, rvars, part>>

ServicesInit ==
  /\ part \in {"breaker", "batch", "scheduler", "remote"}
  /\ Init /\ BatchInit /\ SchedulerInit
  /\ RemoteInit /\ (part # "remote" => nodes = OneWay)

Only(p) ==
  /\ part = p /\ UNCHANGED part
  /\ p # "breaker"   => UNCHANGED vars
  /\ p # "batch"     => UNCHANGED bvars
  /\ p # "scheduler" => UNCHANGED svars
  /\ p # "remote"    => UNCHANGED rvars

ServicesNext ==
  \/ Only("breaker")   /\ Next
  \/ Only("batch")     /\ BatchNext
  \/ Only("scheduler") /\ SchedulerNext
  \/ Only("remote")    /\ RemoteNext

\* the fairness of each service
ServicesSpec ==
  /\ ServicesInit /\ [][ServicesNext]_allvars
  /\ WF_vars(part = "breaker" /\ TimeoutElapses)
  /\ \A c \in Callers : /\ WF_vars(part = "breaker" /\ Acquire(c))
                        /\ WF_vars(part = "breaker" /\ Success(c))
  /\ WF_bvars(part = "batch" /\ BatchRuns)
  /\ \A r \in Readers : WF_bvars(part = "batch" /\ Reading(r))
  /\ WF_svars(part = "scheduler" /\ LoopSteps)
  /\ \A i \in Ids : WF_rvars(part = "remote" /\ Working(i))
  /\ WF_rvars(part = "remote" /\ RestartHost(Home))
=============================================================================
