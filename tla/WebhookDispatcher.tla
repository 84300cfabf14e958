-------------------------- MODULE WebhookDispatcher --------------------------
(***************************************************************************)
(* Delivery of task events to webhook URLs (cloud/webhooks.py): callers    *)
(* put one job per URL on an unbounded queue, a pool of threads posts them *)
(* with retries, and close() may run beside all of them.                   *)
(***************************************************************************)
EXTENDS Integers, Sequences, FiniteSets

CONSTANTS
  Urls,      \* number of target URLs
  Events,    \* events dispatched, one caller each
  Posters,   \* threads of the delivery pool
  Attempts   \* max_retries + 1

ASSUME WebhookAssumption ==
  /\ {Urls, Attempts} \subseteq Nat \ {0}
  /\ IsFiniteSet(Posters)

VARIABLES
  caller,   \* each dispatch()
  jobs,     \* the queue: <<event, url>>, or Sentinel
  unfinished, \* unfinished_tasks of the queue
  poster,   \* each delivery thread
  posted,   \* attempts recorded for each job, and whether one succeeded
  closer,   \* close()
  early     \* jobs that were on the queue before close() was called

wvars == <<caller, jobs, unfinished, poster, posted, closer, early>>

Sentinel == <<>>
Jobs == Events \X (1..Urls)
Closed == closer.pc # "open"

WebhookTypeOK ==
  /\ caller \in [Events -> [pc : {"idle", "put", "done", "dropped"}, next : 1..(Urls + 1)]]
  /\ jobs \in Seq(Jobs \cup {Sentinel}) /\ unfinished \in Nat
  /\ poster \in [Posters -> [pc : {"none", "get", "post", "gone"},
                             job : Jobs \cup {Sentinel}, tried : 0..Attempts]]
  /\ posted \in [Jobs -> [n : 0..Attempts, ok : BOOLEAN]]
  /\ closer \in [pc : {"open", "flush", "stop", "join", "closed"}, late : BOOLEAN]
  /\ early \subseteq Jobs

WebhookInit ==
  /\ caller = [e \in Events |-> [pc |-> "idle", next |-> 1]]
  /\ jobs = <<>> /\ unfinished = 0
  /\ poster = [w \in Posters |-> [pc |-> "none", job |-> Sentinel, tried |-> 0]]
  /\ posted = [j \in Jobs |-> [n |-> 0, ok |-> FALSE]]
  /\ closer = [pc |-> "open", late |-> FALSE]
  /\ early = {}

-----------------------------------------------------------------------------
Statuses == {"completed", "failed", "dead", "cancelled", "running"}

\* event_for_task(): a status nobody is told of has no event
EventFor(status) ==
  CASE status = "completed" -> "task.completed"
    [] status \in {"failed", "dead"} -> "task.failed"
    [] status = "cancelled" -> "task.cancelled"
    [] OTHER -> "none"

\* dispatch(), redeliver(): nothing is accepted any more once closed, and a
\* status without an event is told to nobody
Dispatch(e, status) ==
  /\ caller[e].pc = "idle"
  /\ caller' = [caller EXCEPT ![e].pc =
                  IF Closed \/ EventFor(status) = "none" THEN "dropped" ELSE "put"]
  /\ UNCHANGED <<jobs, unfinished, poster, posted, closer, early>>

\* _ensure_threads() starts the pool; then one job is put for each URL
EnsureThreads ==
  IF \E w \in Posters : poster[w].pc # "none" THEN poster
  ELSE [w \in Posters |-> [poster[w] EXCEPT !.pc = "get"]]

PutJob(e) ==
  /\ caller[e].pc = "put"
  /\ poster' = EnsureThreads
  /\ jobs' = Append(jobs, <<e, caller[e].next>>) /\ unfinished' = unfinished + 1
  /\ caller' = [caller EXCEPT ![e] =
                  [pc |-> IF @.next = Urls THEN "done" ELSE "put", next |-> @.next + 1]]
  /\ early' = IF Closed THEN early ELSE early \cup {<<e, caller[e].next>>}
  /\ UNCHANGED <<posted, closer>>

\* _worker_loop(): the next job, or the sentinel that ends the thread
GetJob(w) ==
  /\ poster[w].pc = "get" /\ jobs # <<>>
  /\ jobs' = Tail(jobs)
  /\ IF Head(jobs) = Sentinel
     THEN /\ poster' = [poster EXCEPT ![w].pc = "gone"]
          /\ unfinished' = unfinished - 1
     ELSE /\ poster' = [poster EXCEPT ![w] =
                          [pc |-> "post", job |-> Head(jobs), tried |-> 0]]
          /\ UNCHANGED unfinished
  /\ UNCHANGED <<caller, posted, closer, early>>

JobDone(w) ==
  /\ poster' = [poster EXCEPT ![w].pc = "get"]
  /\ unfinished' = unfinished - 1

\* (mutant: nothing is retried once the dispatcher closes)
PostOnce(w, ok) ==
  LET job == poster[w].job
      n == poster[w].tried + 1
  IN  /\ poster[w].pc = "post" /\ closer.pc # "closed"
      /\ posted' = [posted EXCEPT ![job] = [n |-> n, ok |-> ok]]
      /\ IF ok \/ n = Attempts \/ Closed THEN JobDone(w)
         ELSE poster' = [poster EXCEPT ![w].tried = n] /\ UNCHANGED unfinished
      /\ UNCHANGED <<caller, jobs, closer, early>>

\* _deliver_once(): an attempt and its record; with_retry() repeats a failed one
Post(w, ok) ==
  LET job == poster[w].job
      n == poster[w].tried + 1
  IN  /\ poster[w].pc = "post" /\ closer.pc # "closed"
      /\ posted' = [posted EXCEPT ![job] = [n |-> n, ok |-> ok]]
      /\ IF ok \/ n = Attempts THEN JobDone(w)
         ELSE poster' = [poster EXCEPT ![w].tried = n] /\ UNCHANGED unfinished
      /\ UNCHANGED <<caller, jobs, closer, early>>

\* ... a closed client raises something that is neither retried nor recorded
PostOnClosedClient(w) ==
  /\ poster[w].pc = "post" /\ closer.pc = "closed"
  /\ JobDone(w)
  /\ UNCHANGED <<caller, jobs, posted, closer, early>>

-----------------------------------------------------------------------------
\* close(): no new events, then flush() until all is done or time is up
Close ==
  /\ closer.pc = "open"
  /\ closer' = [closer EXCEPT !.pc = "flush"]
  /\ UNCHANGED <<caller, jobs, unfinished, poster, posted, early>>

Flush(late) ==
  /\ closer.pc = "flush"
  /\ late \/ unfinished = 0
  /\ closer' = [pc |-> "stop", late |-> late]
  /\ UNCHANGED <<caller, jobs, unfinished, poster, posted, early>>

\* one sentinel for each thread
StopThreads ==
  /\ closer.pc = "stop"
  /\ LET started == Cardinality({w \in Posters : poster[w].pc # "none"})
     IN  /\ jobs' = jobs \o [i \in 1..started |-> Sentinel]
         /\ unfinished' = unfinished + started
  /\ closer' = [closer EXCEPT !.pc = "join"]
  /\ UNCHANGED <<caller, poster, posted, early>>

\* the threads are joined, or have not ended in time; the client is closed
CloseClient(late) ==
  /\ closer.pc = "join"
  /\ late \/ \A w \in Posters : poster[w].pc \in {"none", "gone"}
  /\ closer' = [pc |-> "closed", late |-> closer.late \/ late]
  /\ UNCHANGED <<caller, jobs, unfinished, poster, posted, early>>

Delivering(w) == GetJob(w) \/ (\E ok \in BOOLEAN : Post(w, ok)) \/ PostOnClosedClient(w)

Closing ==
  \/ StopThreads
  \/ \E late \in BOOLEAN : Flush(late) \/ CloseClient(late)

WebhookNext ==
  \/ \E e \in Events, status \in Statuses : Dispatch(e, status)
  \/ \E e \in Events : PutJob(e)
  \/ \E w \in Posters : Delivering(w)
  \/ Close \/ Closing

WebhookSpec == WebhookInit /\ [][WebhookNext]_wvars
-----------------------------------------------------------------------------
Served(j) == posted[j].ok \/ posted[j].n = Attempts

\* Pending deliveries get the budget: when close() comes to its end in time, a
\* job that was on the queue before it has been delivered or tried as often as
\* the policy allows, however many threads share the queue.
PendingAreServed ==
  closer.pc = "closed" /\ ~closer.late => \A j \in early : Served(j)

\* Every job that the dispatcher took while it was open gets its chance.
WebhooksSound == WebhookTypeOK /\ PendingAreServed
=============================================================================
