---------------------------- MODULE Admission -----------------------------
(***************************************************************************)
(* Admission of submissions by the HTTP server (cloud/api, ratelimit.py,   *)
(* entitlements.py).  Each request has a thread of its own, which asks the *)
(* token bucket of its tenant, the plan of the request and the number of   *)
(* active tasks, one after the other, before it submits.                   *)
(***************************************************************************)
EXTENDS Integers, Sequences, FiniteSets

CONSTANTS
  Handlers,   \* threads of the HTTP server
  Requests,   \* requests clients may send: see RequestFields
  Plans,      \* limits of each plan, as <<seconds, <<width, height>>, bytes>>
  DefaultPlan, \* MN_DEFAULT_PLAN
  ApiKey,     \* "none", or the key the server is configured with
  Loopback,   \* whether the server is bound to the loopback interface
  TaskLimit,  \* MN_MAX_CONCURRENT_TASKS
  Capacity, Refill, \* of a bucket, in parts of a token, and the parts per tick
  Cost,       \* parts of a token that make a whole one
  MaxBuckets, \* buckets kept by the limiter
  MaxMade,    \* bound of the model: buckets ever made
  LastTick    \* bound of the model: ticks of the monotonic clock

Sizes == {r.size : r \in Requests}
ASSUME AdmissionAssumption ==
  /\ {TaskLimit, Capacity, Refill, Cost, MaxBuckets, MaxMade} \subseteq Nat \ {0}
  /\ LastTick \in Nat
  /\ IsFiniteSet(Handlers) /\ Sizes \subseteq Nat \ {0}
  /\ \E n \in Sizes : \A m \in Sizes : m <= n

VARIABLES
  tick,     \* time.monotonic()
  buckets,  \* every TokenBucket made, the evicted ones included
  lru,      \* the tracked ones, least recently used first
  handler,  \* what each thread is doing, for which request
  active,   \* queue.active_count
  draining  \* begin_drain() has been called

avars == <<tick, buckets, lru, handler, active, draining>>

-----------------------------------------------------------------------------
\* _check_auth(): without a key only the loopback interface is served
Authorized(r) == IF ApiKey = "none" THEN Loopback ELSE r.key = ApiKey

\* _current_identity(): the tenant header counts for callers with a key
TenantOf(r) == IF ApiKey = "none" THEN "default" ELSE r.tenant

\* _resolve_plan_name(): the header, or the server's default
PlanOf(r) ==
  CASE ApiKey = "none" -> "default"
    [] ApiKey # "none" /\ r.plan # "" -> r.plan
    [] OTHER -> IF DefaultPlan \in DOMAIN Plans THEN DefaultPlan ELSE "default"

Wide(s) == IF s[1] >= s[2] THEN s ELSE <<s[2], s[1]>>
Unlimited == -1

\* check_submission(): duration, resolution whichever way up, estimated bytes
Entitled(plan, r) ==
  LET p == Plans[plan]
  IN  /\ p.seconds # Unlimited => r.seconds <= p.seconds
      /\ p.frame # <<>> => /\ Wide(r.frame)[1] <= Wide(p.frame)[1]
                           /\ Wide(r.frame)[2] <= Wide(p.frame)[2]
      /\ p.bytes # Unlimited => r.bytes <= p.bytes

-----------------------------------------------------------------------------
Tracked(t) == {i \in 1..Len(lru) : buckets[lru[i]].tenant = t}
Dropped(s, i) == SubSeq(s, 1, i - 1) \o SubSeq(s, i + 1, Len(s))

NewBucket(t) ==
  [tenant |-> t, tokens |-> Capacity, last |-> tick, born |-> tick, granted |-> 0]

\* RateLimiter._bucket_for(): the bucket of a tenant becomes the last used one,
\* or a new one takes the place of the least recently used
BucketFor(h, t) ==
  IF Tracked(t) # {}
  THEN LET i == CHOOSE i \in Tracked(t) : TRUE
       IN  /\ lru' = Append(Dropped(lru, i), lru[i])
           /\ handler' = [handler EXCEPT ![h].pc = "clock", ![h].bucket = lru[i]]
           /\ UNCHANGED buckets
  ELSE LET b == Len(buckets) + 1
           kept == IF Len(lru) >= MaxBuckets THEN Tail(lru) ELSE lru
       IN  /\ b <= MaxMade
           /\ buckets' = Append(buckets, NewBucket(t))
           /\ lru' = Append(kept, b)
           /\ handler' = [handler EXCEPT ![h].pc = "clock", ![h].bucket = b]

Least(a, b) == IF a <= b THEN a ELSE b
Positive(n) == IF n > 0 THEN n ELSE 0

\* the refill since the last acquisition, up to the capacity
Refilled(b, now) == Least(Capacity, b.tokens + Positive(now - b.last) * Refill)

\* TokenBucket.try_acquire(): one token, or the time to wait for it
RefusedAt(b, now) == [b EXCEPT !.tokens = Refilled(b, now), !.last = now]
GrantedAt(b, now) ==
  [b EXCEPT !.tokens = Refilled(b, now) - Cost, !.last = now, !.granted = @ + 1]

-----------------------------------------------------------------------------
RequestFields == {"tenant", "key", "plan", "size", "batch", "valid", "seconds",
                  "frame", "bytes"}

AdmissionTypeOK ==
  /\ tick \in 0..LastTick /\ active \in Nat /\ draining \in BOOLEAN
  /\ \A i \in 1..Len(buckets) :
       /\ buckets[i].tokens \in 0..Capacity /\ buckets[i].granted \in Nat
       /\ {buckets[i].last, buckets[i].born} \subseteq 0..tick
  /\ \A i \in 1..Len(lru) : lru[i] \in 1..Len(buckets)
  /\ Len(lru) <= MaxBuckets
  /\ \A h \in Handlers :
       /\ handler[h].pc \in {"idle", "limit", "clock", "lock", "admit", "submit"}
       /\ handler[h].req \in Requests
       /\ handler[h].pc \in {"clock", "lock"} => handler[h].bucket \in 1..Len(buckets)
       /\ handler[h].pc = "lock" => handler[h].now \in 0..tick

Waiting == [pc |-> "idle", req |-> CHOOSE r \in Requests : TRUE,
            bucket |-> 0, now |-> 0]

AdmissionInit ==
  /\ tick = 0 /\ buckets = <<>> /\ lru = <<>> /\ active = 0
  /\ handler = [h \in Handlers |-> Waiting]
  /\ draining = FALSE

HandlerDone(h) == [handler EXCEPT ![h] = Waiting]

\* _handle_post_tasks(), _handle_post_tasks_batch(): a draining server refuses a
\* single task; a body must parse
Arrive(h, r) ==
  /\ handler[h].pc = "idle"
  /\ Authorized(r) /\ r.valid
  /\ r.batch \/ ~draining
  /\ handler' = [handler EXCEPT ![h].pc = "limit", ![h].req = r]
  /\ UNCHANGED <<tick, buckets, lru, active, draining>>

\* _rate_limit_rejection(): find the bucket, read the clock, take its lock
FindBucket(h) ==
  /\ handler[h].pc = "limit"
  /\ BucketFor(h, TenantOf(handler[h].req))
  /\ UNCHANGED <<tick, active, draining>>

ReadClock(h) ==
  /\ handler[h].pc = "clock"
  /\ handler' = [handler EXCEPT ![h].pc = "lock", ![h].now = tick]
  /\ UNCHANGED <<tick, buckets, lru, active, draining>>

TryAcquire(h) ==
  LET now == handler[h].now
      b == buckets[handler[h].bucket]
      enough == Refilled(b, now) >= Cost
  IN  /\ handler[h].pc = "lock"
      /\ buckets' = [buckets EXCEPT ![handler[h].bucket] =
                       IF enough THEN GrantedAt(b, now) ELSE RefusedAt(b, now)]
      /\ handler' = IF enough THEN [handler EXCEPT ![h].pc = "admit", ![h].now = 0,
                                                   ![h].bucket = 0]
                    ELSE HandlerDone(h)
      /\ UNCHANGED <<tick, lru, active, draining>>

\* (mutant: only the tasks that are there already are counted)
FitsAlone(n) == active <= TaskLimit

\* _admission_rejection(): active_count is read, nothing is reserved
Fits(n) == active + n <= TaskLimit

\* an unknown plan, a request it does not allow and a full queue are refused
Admit(h) ==
  /\ handler[h].pc = "admit"
  /\ LET r == handler[h].req
         plan == PlanOf(r)
         fine == plan \in DOMAIN Plans /\ Entitled(plan, r) /\ Fits(r.size)
     IN  handler' = IF fine THEN [handler EXCEPT ![h].pc = "submit"] ELSE HandlerDone(h)
  /\ UNCHANGED <<tick, buckets, lru, active, draining>>

Submit(h) ==
  /\ handler[h].pc = "submit"
  /\ active' = active + handler[h].req.size
  /\ handler' = HandlerDone(h)
  /\ UNCHANGED <<tick, buckets, lru, draining>>

TaskEnds ==
  /\ active > 0
  /\ active' = active - 1
  /\ UNCHANGED <<tick, buckets, lru, handler, draining>>

BeginDrain ==
  /\ ~draining
  /\ draining' = TRUE
  /\ UNCHANGED <<tick, buckets, lru, handler, active>>

Tick ==
  /\ tick < LastTick
  /\ tick' = tick + 1
  /\ UNCHANGED <<buckets, lru, handler, active, draining>>

Handle(h) ==
  \/ \E r \in Requests : Arrive(h, r)
  \/ FindBucket(h) \/ ReadClock(h) \/ TryAcquire(h) \/ Admit(h)
  \/ Submit(h)

AdmissionNext == (\E h \in Handlers : Handle(h)) \/ TaskEnds \/ BeginDrain \/ Tick
AdmissionSpec == AdmissionInit /\ [][AdmissionNext]_avars

-----------------------------------------------------------------------------
\* A thread looks at the clock before it takes the lock of the bucket, so an
\* older look may be used after a newer one and the time between them refills
\* the bucket again: but for each thread no more than once.
RateBounded ==
  \A i \in 1..Len(buckets) :
    buckets[i].granted * Cost
      <= Capacity + Refill * (tick - buckets[i].born) * Cardinality(Handlers)

\* The tasks checked against MN_MAX_CONCURRENT_TASKS are submitted later: the
\* threads that passed the check meanwhile can exceed it, but by no more than
\* one largest request each.
Submitting == {h \in Handlers : handler[h].pc = "submit"}
Largest == CHOOSE n \in Sizes : \A m \in Sizes : m <= n
OvershootBounded ==
  active + Cardinality(Submitting) * Largest < TaskLimit + Cardinality(Handlers) * Largest

\* What admission control keeps however the threads that serve requests overlap:
\* a tenant's rate and the number of tasks at a time.
AdmissionSound == AdmissionTypeOK /\ RateBounded /\ OvershootBounded
=============================================================================
