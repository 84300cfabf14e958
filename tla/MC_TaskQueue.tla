---------------------------- MODULE MC_TaskQueue ----------------------------
(* Instances of TaskQueue for TLC: two interchangeable tasks, or one.       *)
EXTENDS TaskQueue, TLC

CONSTANTS t1, t2

TwoTasks == {t1, t2}
OneTask  == {t1}
NoTask   == {}
NoModes  == {}
Drain    == {"drain"}
Sweeping == {"timed", "abandon"}
=============================================================================
