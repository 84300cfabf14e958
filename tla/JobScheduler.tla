---------------------------- MODULE JobScheduler ----------------------------
(***************************************************************************)
(* The cron scheduler of the daemon (cloud/scheduler.py): a loop that lists *)
(* the stored schedules, submits a task for each that is due, and saves the *)
(* copy it listed with its next run time, while clients add and remove     *)
(* schedules and the process may die between any two steps.                *)
(***************************************************************************)
EXTENDS Integers, Sequences, FiniteSets

CONSTANTS
  Expressions, \* cron expression of each schedule, numbered in order of creation: a
               \* sequence of segments for the minute, dom and dow fields
  Calendar,   \* day of the month and day of the week, for each day
  DayLength,  \* minutes in a day
  LastMinute, \* when the model's clock stops
  ScanDays,   \* _MAX_SCAN_DAYS
  ListLimit,  \* JsonModelStore.list() returns no more records
  SchedulerCrashes

ASSUME SchedulerAssumption ==
  /\ {DayLength, ScanDays, ListLimit} \subseteq Nat \ {0}
  /\ {LastMinute, SchedulerCrashes} \subseteq Nat
  /\ IsFiniteSet(DOMAIN Calendar) /\ IsFiniteSet(DOMAIN Expressions)
  /\ DOMAIN Expressions = 1..Cardinality(DOMAIN Expressions)

VARIABLES
  clock,     \* datetime.now()
  made,      \* how many schedules have been registered
  schedules, \* schedules.json: the record of each schedule
  loop,      \* the scheduler's thread
  fired,     \* the schedules and the instants tasks were submitted for
  twice,     \* those submitted again though no crash came in between
  torn,      \* those whose submission a crash cut off from its save
  scrashes

svars == <<clock, made, schedules, loop, fired, twice, torn, scrashes>>

Schedules == DOMAIN Expressions
Minute(t) == t % DayLength
Day(t) == t \div DayLength
AllTime == {t \in 0..(DayLength * Cardinality(DOMAIN Calendar)) :
              Day(t) \in DOMAIN Calendar}

-----------------------------------------------------------------------------
\* What a segment of a field adds to its values: a-b/n, of which */n and a single
\* number are the cases that name no range; "*" adds none
SegmentValues(g, lo, hi) ==
  CASE g.kind = "any"   -> {}
    [] g.kind = "step"  -> {v \in lo..hi : (v - lo) % g.step = 0}
    [] g.kind = "one"   -> {g.from}
    [] g.kind = "range" -> {v \in g.from..g.to : (v - g.from) % g.step = 0}

\* _check_bounds(), and the tests for a step of 0 and a range that is reversed
SegmentValid(g, lo, hi) ==
  /\ g.kind \in {"step", "range"} => g.step > 0
  /\ g.kind \in {"one", "range"} => lo <= g.from /\ g.from <= hi
  /\ g.kind = "range" => g.from <= g.to /\ g.to <= hi

\* _parse_cron_field(): only a "*" of its own makes a wildcard, and it makes the whole
\* list of segments one
ParseField(f, lo, hi) ==
  [valid |-> f # <<>> /\ \A i \in DOMAIN f : SegmentValid(f[i], lo, hi),
   any |-> \E i \in DOMAIN f : f[i].kind = "any",
   values |-> UNION {SegmentValues(f[i], lo, hi) : i \in DOMAIN f}]

\* CronExpression.parse(); hours and months are fields like the others, and left out
ParseCron(e) ==
  [minute |-> ParseField(e.minute, 0, DayLength - 1),
   dom |-> ParseField(e.dom, 1, 31), dow |-> ParseField(e.dow, 0, 6)]
ValidCron(c) == c.minute.valid /\ c.dom.valid /\ c.dow.valid

CronOf == [s \in Schedules |-> ParseCron(Expressions[s])]

\* CronField.matches(): a wildcard, or a set of values
FieldMatches(f, v) == f.any \/ v \in f.values

\* CronExpression._day_matches(): two restricted fields match if either does
DayMatches(c, d) ==
  CASE ~c.dom.any /\ ~c.dow.any -> FieldMatches(c.dom, Calendar[d].dom)
                                     \/ FieldMatches(c.dow, Calendar[d].dow)
    [] OTHER -> FieldMatches(c.dom, Calendar[d].dom)
                  /\ FieldMatches(c.dow, Calendar[d].dow)

Matches(c, t) == FieldMatches(c.minute, Minute(t)) /\ DayMatches(c, Day(t))

\* (mutant: the minute that is being served counts as a next one)
CandidatesFromNow(c, t) ==
  {u \in AllTime : u >= t /\ Day(u) < Day(t) + ScanDays /\ Matches(c, u)}

\* the instants next_after() scans: the rest of today and the days that follow
NextInstants(c, t) ==
  {u \in AllTime : u > t /\ Day(u) < Day(t) + ScanDays /\ Matches(c, u)}

Earliest(S) == CHOOSE t \in S : \A u \in S : t <= u

\* _trigger(): the next run time, or the schedule is disabled
Advanced(s, rec, t) ==
  LET next == NextInstants(CronOf[s], t)
  IN  IF next = {} THEN [rec EXCEPT !.enabled = FALSE]
                   ELSE [rec EXCEPT !.next = Earliest(next)]

-----------------------------------------------------------------------------
Record == [enabled : BOOLEAN, next : AllTime]
Stored == DOMAIN schedules

SchedulerTypeOK ==
  /\ clock \in 0..LastMinute
  /\ made \in 0..Cardinality(Schedules)
  /\ Stored \subseteq 1..made /\ schedules \in [Stored -> Record]
  /\ loop.pc \in {"off", "wait", "run", "save"}
  /\ loop.at \in 0..clock /\ loop.todo \in [DOMAIN loop.todo -> Record]
  /\ DOMAIN loop.todo \subseteq 1..made
  /\ (loop.pc = "save" => DOMAIN loop.todo # {})
  /\ fired \subseteq Schedules \X AllTime
  /\ twice \subseteq Schedules /\ torn \subseteq fired
  /\ scrashes \in 0..SchedulerCrashes

None == [s \in {} |-> s]
Idle(pc) == [pc |-> pc, at |-> 0, todo |-> None]

SchedulerInit ==
  /\ clock = 0 /\ made = 0 /\ schedules = None /\ loop = Idle("off")
  /\ fired = {} /\ twice = {} /\ torn = {} /\ scrashes = 0

Without(f, s) == [x \in DOMAIN f \ {s} |-> f[x]]
With(f, s, v) == [x \in DOMAIN f \cup {s} |-> IF x = s THEN v ELSE f[x]]

\* register_schedule(): an invalid expression, or one without a next run, is refused
RegisterSchedule(on) ==
  LET s == made + 1
      next == IF ValidCron(CronOf[s]) THEN NextInstants(CronOf[s], clock) ELSE {}
  IN  /\ s \in Schedules
      /\ made' = s
      /\ schedules' = IF next = {} THEN schedules
                      ELSE With(schedules, s, [enabled |-> on, next |-> Earliest(next)])
      /\ UNCHANGED <<clock, loop, fired, twice, torn, scrashes>>

\* cancel_schedule()
CancelSchedule(s) ==
  /\ s \in Stored
  /\ schedules' = Without(schedules, s)
  /\ UNCHANGED <<clock, made, loop, fired, twice, torn, scrashes>>

\* start() and, between two cycles, stop(), which joins the thread
StartLoop ==
  /\ loop.pc = "off"
  /\ loop' = Idle("wait")
  /\ UNCHANGED <<clock, made, schedules, fired, twice, torn, scrashes>>

StopLoop ==
  /\ loop.pc = "wait"
  /\ loop' = Idle("off")
  /\ UNCHANGED <<clock, made, schedules, fired, twice, torn, scrashes>>

\* (mutant: the oldest schedule is left out)
ListedButOldest == {s \in Stored : \E u \in Stored : u < s}

\* JsonModelStore.list(): the newest records
Listed == {s \in Stored : Cardinality({u \in Stored : u > s}) < ListLimit}

Due(s) == s \in Stored /\ schedules[s].enabled /\ schedules[s].next <= clock

\* check_due(): the copies to be triggered in this cycle
CheckDue ==
  /\ loop.pc = "wait"
  /\ \E s \in Listed : Due(s)
  /\ loop' = [pc |-> "run", at |-> clock,
              todo |-> [s \in {x \in Listed : Due(x)} |-> schedules[s]]]
  /\ UNCHANGED <<clock, made, schedules, fired, twice, torn, scrashes>>

\* the newest copy that is left
Current == CHOOSE s \in DOMAIN loop.todo : \A u \in DOMAIN loop.todo : u <= s

\* _trigger(): the task is submitted, unless the queue raises
SubmitJob(ok) ==
  LET job == <<Current, loop.todo[Current].next>>
  IN  /\ loop.pc = "run" /\ DOMAIN loop.todo # {}
      /\ fired' = IF ok THEN fired \cup {job} ELSE fired
      /\ twice' = IF ok /\ job \in fired \ torn THEN twice \cup {Current} ELSE twice
      /\ torn' = torn \ {job}
      /\ loop' = [loop EXCEPT !.pc = "save"]
      /\ UNCHANGED <<clock, made, schedules, scrashes>>

\* ... and the copy is saved with its next run, wanted or not
SaveSchedule ==
  /\ loop.pc = "save"
  /\ schedules' = With(schedules, Current,
                       Advanced(Current, loop.todo[Current], loop.at))
  /\ loop' = [loop EXCEPT !.pc = "run", !.todo = Without(@, Current)]
  /\ UNCHANGED <<clock, made, fired, twice, torn, scrashes>>

EndCycle ==
  /\ loop.pc = "run" /\ DOMAIN loop.todo = {}
  /\ loop' = Idle("wait")
  /\ UNCHANGED <<clock, made, schedules, fired, twice, torn, scrashes>>

\* the process dies; the files are as they were
SchedulerCrash ==
  /\ scrashes < SchedulerCrashes /\ loop.pc # "off"
  /\ scrashes' = scrashes + 1
  /\ torn' = IF loop.pc # "save" THEN torn
             ELSE torn \cup ({<<Current, loop.todo[Current].next>>} \cap fired)
  /\ loop' = Idle("off")
  /\ UNCHANGED <<clock, made, schedules, fired, twice>>

MinutePasses ==
  /\ clock < LastMinute
  /\ clock' = clock + 1
  /\ UNCHANGED <<made, schedules, loop, fired, twice, torn, scrashes>>

LoopSteps == CheckDue \/ (\E ok \in BOOLEAN : SubmitJob(ok)) \/ SaveSchedule \/ EndCycle

SchedulerNext ==
  \/ LoopSteps \/ StartLoop \/ StopLoop \/ SchedulerCrash \/ MinutePasses
  \/ \E on \in BOOLEAN : RegisterSchedule(on)
  \/ \E s \in Schedules : CancelSchedule(s)

SchedulerSpec == SchedulerInit /\ [][SchedulerNext]_svars
SchedulerFairness == WF_svars(LoopSteps)

-----------------------------------------------------------------------------
\* One instant of a schedule gives one task: however late the loop comes round,
\* and whatever is added or removed meanwhile, check_due() serves an instant
\* again only if the process died between the submission and the save.
OncePerInstant == twice = {}

\* The records of the schedules are sane, and none of them fires twice.
SchedulesSound == SchedulerTypeOK /\ OncePerInstant

\* The loop comes to every schedule that is due, as long as it is not stopped
\* and the schedules are no more than one listing returns.
DueFires ==
  \A s \in Schedules : (Due(s) /\ loop.pc # "off") ~> (~Due(s) \/ loop.pc = "off")
=============================================================================
