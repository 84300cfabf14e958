--------------------------- MODULE ArtifactSweeper ---------------------------
(***************************************************************************)
(* Retention of artifacts (cloud/lifecycle.py over cloud/artifact_store.py)*)
(* A sweep resolves which tasks are in flight, lists the store and deletes *)
(* what is too old or too much, one key at a time, while tasks go on       *)
(* writing.  The server knows a task in flight by its stored status, which *)
(* is FAILED while the task waits for a retry, and looks at the newest     *)
(* tasks only.  A key is <<head, file>>; tasks of the remote layout write  *)
(* under their own id, those of the local layout under the movie's name.   *)
(***************************************************************************)
EXTENDS Integers, Sequences, FiniteSets, FiniteSetsExt

CONSTANTS
  Owners,      \* task ids
  Artifacts,       \* names of artifacts
  CreatedAt,   \* when a task was made, created_at
  HeadOf,      \* the directory an owner writes to
  Begins,      \* Begins[p]: the heads whose text begins with p
  Size,        \* size of any artifact of a head
  PlanTtl,     \* artifact TTL of the owner's plan, 0 for none
  PolicyTtl,   \* ttl_seconds, 0 keeps for ever
  MaxTotal,    \* max_total_bytes, 0 for no cap
  KeepLast,    \* keep_last_n
  TaskPage,    \* how many tasks the server looks at (1000)
  LastHour,    \* (bound) the clock stops here
  LastSweep    \* (bound) number of sweeps

Heads == {HeadOf[t] : t \in Owners}
Keys == Heads \X Artifacts

ASSUME SweeperAssumption ==
  /\ IsFiniteSet(Owners) /\ IsFiniteSet(Artifacts)
  /\ {PolicyTtl, MaxTotal, KeepLast, TaskPage} \subseteq Nat
  /\ CreatedAt \in [Owners -> Nat]
  /\ PlanTtl \in [Owners -> Nat] /\ Size \in [Heads -> Nat \ {0}]
  /\ \A p \in Heads : p \in Begins[p] /\ Begins[p] \subseteq Heads

VARIABLES
  hour,     \* time.time()
  owner,    \* each task: "new", "active", "masked" (in flight, stored as ended) or "over"
  backend,  \* "local" or "s3"
  store,    \* when each artifact was modified, 0 if it does not exist
  sweep     \* cleanup_artifacts()

svars == <<hour, owner, backend, store, sweep>>

Idle == [pc |-> "idle", n |-> 0, prefix |-> "all", ids |-> {}, busy |-> {},
         missed |-> {}, list |-> <<>>,
         seen |-> [k \in Keys |-> 0], recent |-> {}, at |-> 0, left |-> {},
         deleted |-> {}, failed |-> {}, next |-> 1]

\* list_tasks(limit): the newest of the stored tasks
Stored == {t \in Owners : owner[t] # "new"}
Newest == {t \in Stored : Cardinality({u \in Stored : CreatedAt[u] > CreatedAt[t]}) < TaskPage}

\* _active_task_ids(): of these, the ones stored as pending or running
ActiveTasks == {t \in Newest : owner[t] = "active"}
InFlight == {t \in Owners : owner[t] \in {"active", "masked"}}

SweeperInit ==
  /\ hour = 1 /\ owner = [t \in Owners |-> "new"] /\ backend \in {"local", "s3"}
  /\ store = [k \in Keys |-> 0]
  /\ sweep = Idle
-----------------------------------------------------------------------------
\* a task is submitted, runs and ends; the attempt that failed saves it as FAILED and
\* it waits for the next one, which saves it as RETRYING; a stale copy that is saved
\* (cancel()) hides a running task the same way
Task(t) ==
  /\ \E from, to \in {"new", "active", "masked", "over"} :
       /\ <<from, to>> \in {<<"new", "active">>, <<"active", "masked">>, <<"masked", "active">>,
                            <<"active", "over">>, <<"masked", "over">>}
       /\ owner[t] = from /\ owner' = [owner EXCEPT ![t] = to]
  /\ UNCHANGED <<hour, backend, store, sweep>>

\* put(), or the pipeline's own write to the local root
Put(t, f) ==
  /\ t \in InFlight
  /\ store' = [store EXCEPT ![<<HeadOf[t], f>>] = hour]
  /\ UNCHANGED <<hour, owner, backend, sweep>>

PassTime ==
  /\ hour < LastHour
  /\ hour' = hour + 1
  /\ UNCHANGED <<owner, backend, store, sweep>>

\* list(): a prefix is a directory of the local store, but only the first
\* characters of a key of the S3 one
Lists(k, prefix) ==
  prefix = "all" \/ IF backend = "local" THEN k[1] = prefix ELSE k[1] \in Begins[prefix]

\* sweep_once(): the tasks in flight; a sweep by hand protects none and may be
\* restricted to a prefix ("all" is the empty one)
Resolve(prefix) ==
  /\ sweep.pc = "idle" /\ sweep.n < LastSweep
  /\ sweep' = [sweep EXCEPT !.pc = "list", !.n = @ + 1, !.prefix = prefix,
                 !.ids = IF prefix = "all" THEN ActiveTasks ELSE {},
                 !.busy = IF prefix = "all" THEN InFlight ELSE {},
                 !.missed = IF prefix = "all"
                            THEN {t \in InFlight : owner[t] = "masked" \/ t \notin Newest} ELSE {}]
  /\ UNCHANGED <<hour, owner, backend, store>>

\* by age; equals are in the order of their names, which may be any
OldestFirst(S) ==
  {q \in [1..Cardinality(S) -> S] : \A i, j \in DOMAIN q :
     i < j => q[i] # q[j] /\ store[q[i]] <= store[q[j]]}

ListStore ==
  LET found == {k \in Keys : store[k] > 0 /\ Lists(k, sweep.prefix)}
  IN  /\ sweep.pc = "list"
      /\ \E q \in OldestFirst(found) :
           sweep' = [sweep EXCEPT !.pc = "ttl", !.at = hour, !.list = q, !.seen = store,
                       !.recent = {q[i] : i \in {j \in DOMAIN q : j > Len(q) - KeepLast}}]
      /\ UNCHANGED <<hour, owner, backend, store>>

\* protected by its task, or among the newest of the list
ExemptByName(k) == k[1] \in sweep.ids /\ k \in sweep.recent \* (mutant: both are asked for)
Exempt(k) == k[1] \in sweep.ids \/ k \in sweep.recent

\* effective_ttl_seconds(): the shorter of the limits that are set
EffectiveTtl(plan) ==
  IF plan = 0 THEN PolicyTtl ELSE IF PolicyTtl = 0 THEN plan ELSE Min({plan, PolicyTtl})

\* a sweep by hand asks the policy, the server's the plan of the owning task; a
\* key that names no task does not expire
TtlOf(k) ==
  IF sweep.prefix # "all" THEN PolicyTtl
  ELSE IF k[1] \in Owners THEN EffectiveTtl(PlanTtl[k[1]]) ELSE 0

Expired(k) == TtlOf(k) > 0 /\ sweep.at - sweep.seen[k] >= TtlOf(k)

Delete(k) ==
  /\ store' = [store EXCEPT ![k] = 0]
  /\ sweep' = [sweep EXCEPT !.next = @ + 1, !.deleted = @ \cup {k},
                 !.left = @ \ {k}]

DeleteFails(k) ==
  /\ sweep' = [sweep EXCEPT !.next = @ + 1, !.failed = @ \cup {k},
                 !.left = IF sweep.pc = "ttl" THEN @ \cup {k} ELSE @]
  /\ UNCHANGED store

Pass(pc, list) == sweep.pc = pc /\ sweep.next <= Len(list)

\* the first pass: what has expired and is not exempt is deleted
TtlPass ==
  LET k == sweep.list[sweep.next]
  IN  /\ Pass("ttl", sweep.list)
      /\ IF Expired(k) /\ ~Exempt(k) THEN Delete(k) \/ DeleteFails(k)
         ELSE /\ sweep' = [sweep EXCEPT !.next = @ + 1, !.left = @ \cup {k}]
              /\ UNCHANGED store
      /\ UNCHANGED <<hour, owner, backend>>

\* what is left, as it was listed
AsListed(S) ==
  {q \in [1..Cardinality(S) -> S] : \A i, j \in DOMAIN q : i < j =>
     /\ q[i] # q[j]
     /\ \E a, b \in DOMAIN sweep.list : a < b /\ q[i] = sweep.list[a] /\ q[j] = sweep.list[b]}

StartCap ==
  /\ sweep.pc = "ttl" /\ sweep.next > Len(sweep.list)
  /\ \E q \in AsListed(sweep.left) :
       sweep' = [sweep EXCEPT !.pc = IF MaxTotal > 0 THEN "cap" ELSE "end", !.next = 1,
                              !.list = q]
  /\ UNCHANGED <<hour, owner, backend, store>>

\* each byte of an artifact counts
BytesLeft == Cardinality(UNION {{k} \X (1..Size[k[1]]) : k \in sweep.left})

\* the second pass: the oldest go until the rest fits
CapPass ==
  LET k == sweep.list[sweep.next]
  IN  /\ Pass("cap", sweep.list) /\ BytesLeft > MaxTotal
      /\ IF Exempt(k) THEN sweep' = [sweep EXCEPT !.next = @ + 1] /\ UNCHANGED store
         ELSE Delete(k) \/ DeleteFails(k)
      /\ UNCHANGED <<hour, owner, backend>>

EndCap ==
  /\ sweep.pc = "cap"
  /\ sweep.next > Len(sweep.list) \/ BytesLeft <= MaxTotal
  /\ sweep' = [sweep EXCEPT !.pc = "end"]
  /\ UNCHANGED <<hour, owner, backend, store>>

\* the report is kept, and the loop waits for its interval
EndSweep ==
  /\ sweep.pc = "end"
  /\ sweep' = [Idle EXCEPT !.n = sweep.n]
  /\ UNCHANGED <<hour, owner, backend, store>>

Sweep ==
  \/ \E p \in {"all"} \cup Heads : Resolve(p)
  \/ ListStore \/ TtlPass \/ StartCap \/ CapPass \/ EndCap \/ EndSweep

SweeperNext ==
  \/ \E t \in Owners : Task(t) \/ \E f \in Artifacts : Put(t, f)
  \/ PassTime \/ Sweep

SweeperSpec == SweeperInit /\ [][SweeperNext]_svars

-----------------------------------------------------------------------------
\* What a sweep does to the tasks beside it: it takes no file of a task that was
\* in flight when the server's sweep began and that writes under its own id, unless
\* the task was stored as ended then (between two attempts) or older than the tasks the
\* server looks at;
\* it leaves as many files at least as new as the one it takes as it promises; and
\* what is left fits, or is exempt, or could not be deleted.
SweepOutcome ==
  sweep.pc = "end" =>
    /\ \A t \in sweep.busy \ sweep.missed, k \in sweep.deleted : HeadOf[t] = t => k[1] # t
    /\ \A k \in sweep.deleted :
         Cardinality({j \in Keys \ {k} : sweep.seen[j] >= sweep.seen[k]}) >= KeepLast
    /\ MaxTotal = 0 \/ BytesLeft <= MaxTotal
         \/ \A k \in sweep.left : Exempt(k) \/ k \in sweep.failed
=============================================================================
