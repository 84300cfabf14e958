-------------------------------- MODULE Daemon --------------------------------
(***************************************************************************)
(* The daemon around the task queue (cloud/daemon.py, cloud/api/server.py) *)
(* and what its request threads do while it goes down: submissions,        *)
(* replays and removals of dead letters (cloud/dlq.py), and the probes     *)
(* (cloud/health.py).  `mn serve` takes signals on the thread that accepts *)
(* connections; an embedded WorkerDaemon is stopped from another thread.   *)
(* What the queue does with a task is TaskQueue's; here it is open or shut.*)
(***************************************************************************)
EXTENDS Naturals, Sequences, FiniteSets

CONSTANTS
  Letters,    \* tasks that were given up, each with a dead-letter record
  Clients,    \* request threads
  Routes,     \* what each of them is asked for
  Injected,   \* whether the server was given a dead-letter store of its own
  MaxSignals, MaxStarts, MaxReplays, MaxWorking
  \* bounds: signals to a process, processes, replays of a letter, tasks under way

ASSUME DaemonAssumption ==
  /\ Injected \in BOOLEAN /\ IsFiniteSet(Clients)
  /\ Routes \in [Clients -> SUBSET {"task", "batch", "replay", "delete", "ready", "health"}]
  /\ {MaxSignals, MaxStarts, MaxReplays, MaxWorking} \subseteq Nat \ {0}

VARIABLES
  host,     \* "serve", "embedded"
  frames,   \* where each activation of the shutdown code is, outermost first
  process,  \* "up", "down" (embedded, stopped) or "exited"
  shutting_down, \* server._shutting_down
  open,     \* the queue takes submissions
  working,  \* tasks under way
  files,     \* "ok", "full": whether files can be written
  letter,   \* replay_count of each record, by store; Gone without a record
  client,   \* the request of each thread
  replays, cut, removed, raced, \* ghosts: submissions by replays of a letter;
            \* letters whose count may be short, were deleted, and in a replay then
  starts    \* processes so far

life == <<host, frames, process, shutting_down, open, starts>>
letters == <<letter, replays, cut, removed, raced>>
outside == <<working, files>>
dvars == <<life, letters, client, outside>>

Gone == MaxReplays + 1
Stores == IF Injected THEN {"default", "own"} ELSE {"default"}
\* the store of GET and DELETE /deadletters; replays always use the default one
dead_letter_store == IF Injected THEN "own" ELSE "default"

\* a thread without a request, and the answers it gives before it is free again
Replies == {"idle", "created", "unavailable", "error", "not_found", "removed",
            "ok", "degraded"}
NoRequest == [op |-> "none", id |-> "none", pc |-> "idle", count |-> 0,
              checks |-> 0, passed |-> FALSE]

Letter(s, l) == letter[s][l]
SetLetter(s, l, n) == letter' = [letter EXCEPT ![s][l] = n]

\* replays of a letter between reading its record and saving it
InReplay(l) == {c \in Clients : client[c].op = "replay" /\ client[c].id = l
                                 /\ client[c].pc \in {"submit", "save"}}

-----------------------------------------------------------------------------
\* Shutdown: run by a signal handler, on top of whatever that interrupted, or
\* by stop().  A lock held by an interrupted frame is never released to it.

Top == frames[Len(frames)]
Below(pc) == \E i \in 1..(Len(frames) - 1) : frames[i] = pc
MoveTo(pc) == frames' = [frames EXCEPT ![Len(frames)] = pc]
Reached(pc) == process = "up" /\ frames # <<>> /\ Top = pc

Signal ==
  /\ process = "up" /\ Len(frames) < (IF host = "serve" THEN MaxSignals ELSE 1)
  /\ frames' = Append(frames, "flag")
  /\ UNCHANGED <<host, process, shutting_down, open, starts, letters, client, outside>>

\* begin_drain: the Event is set under its lock, then the sweeper is stopped
FlagDrain ==
  /\ \/ Reached("flag") /\ ~Below("flagging") /\ MoveTo("flagging") /\ UNCHANGED shutting_down
     \/ Reached("flagging") /\ MoveTo("lock") /\ shutting_down' = TRUE
  /\ UNCHANGED <<host, process, open, starts, letters, client, outside>>

\* queue.shutdown: shut under the queue's lock; one that finds it shut returns
ShutQueue ==
  /\ \/ Reached("lock") /\ ~Below("locked") /\ MoveTo("locked") /\ UNCHANGED open
     \/ Reached("locked") /\ MoveTo(IF open THEN "joining" ELSE "closing") /\ open' = FALSE
  /\ UNCHANGED <<host, process, shutting_down, starts, letters, client, outside>>

\* the tasks under way end, or the time for it is over and they are cancelled
Join ==
  /\ Reached("joining") /\ MoveTo("closing")
  /\ working' = 0
  /\ UNCHANGED <<host, process, shutting_down, open, starts, letters, client, files>>

\* the process exits at once; its request threads with it
Exit ==
  /\ Reached("closing") /\ host = "serve"
  /\ process' = "exited" /\ frames' = <<>>
  /\ cut' = cut \cup {l \in Letters : \E c \in InReplay(l) : client[c].pc = "save"}
  /\ client' = [c \in Clients |-> NoRequest]
  /\ UNCHANGED <<host, shutting_down, open, starts, letter, replays, removed, raced,
                 outside>>

\* an embedded server stops accepting; requests being served go on
Down ==
  /\ Reached("closing") /\ host = "embedded"
  /\ process' = "down" /\ frames' = <<>>
  /\ UNCHANGED <<host, shutting_down, open, starts, letters, client, outside>>

\* run_daemon, WorkerDaemon.start: a new server with a new queue
Start ==
  /\ process # "up" /\ starts < MaxStarts
  /\ \A c \in Clients : client[c].pc \in Replies
  /\ process' = "up" /\ frames' = <<>> /\ shutting_down' = FALSE /\ open' = TRUE
  /\ working' = 0 /\ starts' = starts + 1
  /\ UNCHANGED <<host, letters, client, files>>

-----------------------------------------------------------------------------
\* Requests.  Connections are accepted by the thread the handler runs on.
Accepts == process = "up" /\ (host = "serve" => frames = <<>>)

Request(c, op, id) ==
  /\ Accepts /\ client[c].pc \in Replies
  /\ client' = [client EXCEPT ![c] =
       [NoRequest EXCEPT !.op = op, !.id = id, !.pc = op,
                         !.passed = op \in {"ready", "health"} /\ ~shutting_down]]
  /\ UNCHANGED <<life, letters, outside>>

Answer(c, answer) == client' = [client EXCEPT ![c] = [NoRequest EXCEPT !.pc = answer]]
Serving(c, pc) == process # "exited" /\ client[c].pc = pc

\* queue.submit: a record is written, and a worker will take it
Submits == open /\ files = "ok"

\* a draining server takes no tasks; nobody asks that of a batch
SubmitTask(c) ==
  /\ client[c].op \in {"task", "batch"} /\ Serving(c, client[c].op)
  /\ LET refused == client[c].op = "task" /\ shutting_down IN
     \/ refused /\ Answer(c, "unavailable") /\ UNCHANGED working
     \/ ~refused /\ ~Submits /\ Answer(c, "error") /\ UNCHANGED working
     \/ /\ ~refused /\ Submits /\ working < MaxWorking
        /\ working' = working + 1 /\ Answer(c, "created")
  /\ UNCHANGED <<life, letters, files>>

\* replay_dead_letter: read the record,
LoadLetter(c) ==
  /\ Serving(c, "replay")
  /\ LET n == Letter("default", client[c].id) IN
     IF n = Gone THEN Answer(c, "not_found")
     ELSE client' = [client EXCEPT ![c].pc = "submit", ![c].count = n]
  /\ UNCHANGED <<life, letters, outside>>

\* (mutant: the replay is counted whether or not the queue took it)
CountThenSubmit(c) ==
  /\ Serving(c, "submit") /\ replays[client[c].id] < MaxReplays
  /\ client' = [client EXCEPT ![c].pc = "save"]
  /\ replays' = [replays EXCEPT ![client[c].id] = IF Submits THEN @ + 1 ELSE @]
  /\ UNCHANGED <<life, letter, cut, removed, raced, outside>>

\* submit its request again,
SubmitReplay(c) ==
  /\ Serving(c, "submit") /\ replays[client[c].id] < MaxReplays
  /\ IF ~Submits THEN Answer(c, "error") /\ UNCHANGED replays
     ELSE /\ client' = [client EXCEPT ![c].pc = "save"]
          /\ replays' = [replays EXCEPT ![client[c].id] = @ + 1]
  /\ UNCHANGED <<life, letter, cut, removed, raced, outside>>

\* and save it with a higher count: the record as it was read, whatever became
\* of it since
SaveLetter(c) ==
  /\ Serving(c, "save")
  /\ LET l == client[c].id IN
     IF files = "ok"
     THEN /\ SetLetter("default", l, client[c].count + 1) /\ Answer(c, "created")
          /\ cut' = IF Letter("default", l) = client[c].count THEN cut ELSE cut \cup {l}
     ELSE UNCHANGED letter /\ Answer(c, "error") /\ cut' = cut \cup {l}
  /\ UNCHANGED <<life, replays, removed, raced, outside>>

RemoveLetter(c) ==
  /\ Serving(c, "delete")
  /\ LET l == client[c].id  s == dead_letter_store IN
     IF Letter(s, l) = Gone THEN Answer(c, "not_found") /\ UNCHANGED <<letter, removed, raced>>
     ELSE /\ SetLetter(s, l, Gone) /\ Answer(c, "removed")
          /\ removed' = removed \cup {l}
          /\ raced' = IF InReplay(l) = {} THEN raced ELSE raced \cup {l}
  /\ UNCHANGED <<life, replays, cut, outside>>

-----------------------------------------------------------------------------
\* Probes: the flag was read when the request came; then the other core checks,
\* one after the other
core_checks == <<"queue", "storage", "workers">>
Passes(check) ==
  CASE check = "storage" -> files = "ok"
    [] OTHER -> open \* _started and _executor fall together

RunCheck(c) ==
  /\ \E op \in {"ready", "health"} : Serving(c, op)
  /\ client[c].checks < Len(core_checks)
  /\ client' = [client EXCEPT ![c].checks = @ + 1,
                   ![c].passed = @ /\ Passes(core_checks[client[c].checks + 1])]
  /\ UNCHANGED <<life, letters, outside>>

\* build_health_payload; the dependencies are skipped, answer in time or fail
HealthStatus(core, deps) ==
  IF ~core THEN "error" ELSE IF deps = "fail" THEN "degraded" ELSE "ok"

AnswerProbe(c) ==
  /\ client[c].checks = Len(core_checks)
  /\ \/ /\ Serving(c, "ready")
        /\ Answer(c, IF client[c].passed THEN "ok" ELSE "unavailable")
     \/ /\ Serving(c, "health")
        /\ \E deps \in {"skipped", "pass", "fail"} :
             Answer(c, HealthStatus(client[c].passed, deps))
  /\ UNCHANGED <<life, letters, outside>>

\* the queue's workers, and the files
Environment ==
  /\ \/ working > 0 /\ working' = working - 1 /\ UNCHANGED files
     \/ files' \in {"ok", "full"} /\ UNCHANGED working
  /\ process # "exited"
  /\ UNCHANGED <<life, letters, client>>

DaemonInit ==
  /\ host \in {"serve", "embedded"} /\ frames = <<>> /\ process = "up" /\ starts = 1
  /\ shutting_down = FALSE /\ open = TRUE /\ working = 0 /\ files = "ok"
  /\ letter = [s \in Stores |-> [l \in Letters |-> 0]]
  /\ client = [c \in Clients |-> NoRequest]
  /\ replays = [l \in Letters |-> 0] /\ cut = {} /\ removed = {} /\ raced = {}

Requesting ==
  \E c \in Clients :
    \/ \E op \in Routes[c] \ {"replay", "delete"} : Request(c, op, "none")
    \/ \E op \in Routes[c] \cap {"replay", "delete"}, l \in Letters : Request(c, op, l)

DaemonNext ==
  \/ Signal \/ FlagDrain \/ ShutQueue \/ Join \/ Exit \/ Down \/ Start
  \/ Requesting \/ Environment
  \/ \E c \in Clients : \/ SubmitTask(c) \/ LoadLetter(c) \/ SubmitReplay(c)
                        \/ SaveLetter(c) \/ RemoveLetter(c) \/ RunCheck(c) \/ AnswerProbe(c)

DaemonSpec == DaemonInit /\ [][DaemonNext]_dvars

-----------------------------------------------------------------------------
\* Whoever is not told that the server drains finds the queue open, however
\* often it is told to stop, and at whatever point.
FlagFirst == ~open => shutting_down

\* A record never counts a replay the queue did not take; it counts fewer only
\* if it changed between a replay's read and its save, or one was cut short then.
ReplaysCounted ==
  \A l \in Letters :
    LET n == Letter("default", l) IN
    n # Gone => /\ n <= replays[l]
                /\ l \notin cut /\ InReplay(l) = {} => n = replays[l]

\* A letter that was deleted stays deleted, unless it was being replayed then.
DeletedStaysGone == \A l \in removed \ raced : Letter(dead_letter_store, l) = Gone

\* What the daemon tells, of itself and of its dead letters, is so while it is
\* stopped, killed or short of files.
DaemonSound == FlagFirst /\ ReplaysCounted /\ DeletedStaysGone
=============================================================================
