---------------------------- MODULE BatchTracker ----------------------------
(***************************************************************************)
(* A batch of the local queue (cloud/queue.py, submit_batch() to           *)
(* _refresh_batch()): the record in batches.json is written by the thread  *)
(* that submits the members and by every request that looks at the batch,  *)
(* each from its own copy and without a lock around load and save.         *)
(***************************************************************************)
EXTENDS Integers, FiniteSets

CONSTANTS
  Size,    \* number of requests in the batch
  Readers, \* threads that serve GET and DELETE /batches/<id>
  BatchCrashes \* times the process may die

ASSUME BatchAssumption == Size \in Nat \ {0} /\ BatchCrashes \in Nat

VARIABLES
  member,  \* stored status of each member task, "none" before it is submitted
  verdict, \* history: how the run of each member ended, "none" before that
  held,    \* members with a registered CancelController
  batch,   \* the stored record
  maker,   \* submit_batch()
  reader,  \* get_batch() and cancel_batch() in each thread
  bcrashes

tvars == <<member, verdict, held>>
bvars == <<tvars, batch, maker, reader, bcrashes>>

Members == 1..Size
Active == {"pending", "running"}
Ended  == {"completed", "failed", "cancelled", "dead"}
MemberStatus == {"none", "rejected", "gone"} \cup Active \cup Ended

BatchRecord ==
  [ids : SUBSET Members,
   status : {"pending", "running", "completed", "partial_failed", "failed"},
   done : BOOLEAN]           \* completed_at is set

NewBatch == [ids |-> {}, status |-> "pending", done |-> FALSE]
NoBatch == [NewBatch EXCEPT !.done = TRUE]
IdleReader == [pc |-> "idle", at |-> 1, copy |-> NewBatch]

BatchTypeOK ==
  /\ member \in [Members -> MemberStatus]
  /\ verdict \in [Members -> {"none"} \cup Ended] /\ held \in SUBSET Members
  /\ batch \in BatchRecord
  /\ maker \in [pc : {"idle", "members", "assign", "load", "save", "returned",
                      "lost"},
                next : 1..(Size + 1), copy : BatchRecord]
  /\ reader \in [Readers -> [pc : {"idle", "cancel", "decide", "load", "save"},
                             at : 1..(Size + 1), copy : BatchRecord]]
  /\ bcrashes \in 0..BatchCrashes

BatchInit ==
  /\ member = [m \in Members |-> "none"] /\ verdict = member /\ held = {}
  /\ batch = NoBatch
  /\ maker = [pc |-> "idle", next |-> 1, copy |-> NewBatch]
  /\ reader = [r \in Readers |-> IdleReader]
  /\ bcrashes = 0

-----------------------------------------------------------------------------
\* _refresh_batch(): the record recomputed from the members found in storage

Present(b) == {m \in b.ids : member[m] \in Active \cup Ended}
Counted(b, S) == Cardinality({m \in Present(b) : member[m] \in S})
Missing(b) == Size - Cardinality(Present(b))

\* (mutant: a cancelled member does not end the batch)
AccountedButCancelled(b) ==
  Counted(b, {"completed", "failed"}) + Missing(b)

\* terminal_or_missing
Accounted(b) == Counted(b, {"completed", "failed", "cancelled"}) + Missing(b)

\* (mutant: no failure is enough)
OutcomeNoFailure(b) ==
  IF Counted(b, {"failed"}) = 0 THEN "completed" ELSE "partial_failed"

\* the status of a batch all of whose members are accounted for
Outcome(b) ==
  CASE Counted(b, {"completed"}) = Size -> "completed"
    [] Counted(b, {"completed"}) = 0 /\ Counted(b, {"failed"}) > 0 -> "failed"
    [] OTHER -> "partial_failed"

Status(b) ==
  CASE Missing(b) = Size     -> "failed"
    [] Missing(b) \in 1..(Size - 1) -> "partial_failed"
    [] Missing(b) = 0 /\ Accounted(b) = Size -> Outcome(b)
    [] Missing(b) = 0 /\ Accounted(b) # Size ->
         IF Counted(b, Active) > 0 THEN "running" ELSE b.status

Finished(b) ==
  \/ Missing(b) = Size
  \/ Missing(b) > 0 /\ Counted(b, Active) = 0
  \/ Missing(b) = 0 /\ Accounted(b) = Size

\* (the summary of counts saved along with it is read by nobody here)
Refreshed(b) == [b EXCEPT !.status = Status(b), !.done = @ \/ Finished(b)]

-----------------------------------------------------------------------------
\* submit_batch(): the record is saved before any member is submitted
SubmitBatch ==
  /\ maker.pc = "idle"
  /\ maker' = [maker EXCEPT !.pc = "members"]
  /\ batch' = NewBatch
  /\ UNCHANGED <<tvars, reader, bcrashes>>

\* submit() of the next member, which may raise
SubmitMember(s) ==
  /\ maker.pc = "members" /\ maker.next <= Size
  /\ member' = [member EXCEPT ![maker.next] = s]
  /\ held' = IF s = "pending" THEN held \cup {maker.next} ELSE held
  /\ maker' = [maker EXCEPT !.next = @ + 1]
  /\ UNCHANGED <<verdict, batch, reader, bcrashes>>

\* the ids are saved, with a status if some submission failed
AssignIds ==
  /\ maker.pc = "members" /\ maker.next > Size
  /\ LET ids == {m \in Members : member[m] # "rejected"}
         b == [maker.copy EXCEPT !.ids = ids,
                 !.status = IF ids = Members THEN @
                            ELSE IF ids = {} THEN "failed" ELSE "partial_failed"]
     IN  batch' = b /\ maker' = [maker EXCEPT !.pc = "load", !.copy = b]
  /\ UNCHANGED <<tvars, reader, bcrashes>>

\* ... and the batch refreshed: the members are loaded, then the record is saved
MakerRefresh ==
  /\ maker.pc = "load"
  /\ maker' = [maker EXCEPT !.pc = "save", !.copy = Refreshed(@)]
  /\ UNCHANGED <<tvars, batch, reader, bcrashes>>

MakerSave ==
  /\ maker.pc = "save"
  /\ batch' = maker.copy
  /\ maker' = [maker EXCEPT !.pc = "returned", !.copy = NewBatch]
  /\ UNCHANGED <<tvars, reader, bcrashes>>

\* get_batch() or list_batches(), and cancel_batch(): the record is loaded
LoadBatch(r) ==
  /\ reader[r].pc = "idle" /\ batch # NoBatch
  /\ \E next \in {"load", "cancel"} :
       reader' = [reader EXCEPT ![r] = [pc |-> next, at |-> 1, copy |-> batch]]
  /\ UNCHANGED <<tvars, batch, maker, bcrashes>>

\* cancel() of the members in turn: each row is loaded, and one that has ended left
CancelLook(r) ==
  LET m == reader[r].at
  IN  /\ reader[r].pc = "cancel"
      /\ \/ m > Size /\ reader' = [reader EXCEPT ![r].pc = "load", ![r].at = 1]
         \/ /\ m <= Size /\ m \in reader[r].copy.ids /\ member[m] \in Active
            /\ reader' = [reader EXCEPT ![r].pc = "decide"]
         \/ /\ m <= Size /\ ~(m \in reader[r].copy.ids /\ member[m] \in Active)
            /\ reader' = [reader EXCEPT ![r].at = @ + 1]
      /\ UNCHANGED <<tvars, batch, maker, bcrashes>>

\* a member with a controller is asked to stop; over any other the row loaded before
\* is saved as CANCELLED, whatever became of it meanwhile
CancelDecide(r) ==
  LET m == reader[r].at
  IN  /\ reader[r].pc = "decide"
      /\ member' = IF m \in held THEN member ELSE [member EXCEPT ![m] = "cancelled"]
      /\ reader' = [reader EXCEPT ![r].pc = "cancel", ![r].at = @ + 1]
      /\ UNCHANGED <<verdict, held, batch, maker, bcrashes>>

RefreshBatch(r) ==
  /\ reader[r].pc = "load"
  /\ reader' = [reader EXCEPT ![r] =
                                [pc |-> "save", at |-> 1, copy |-> Refreshed(@.copy)]]
  /\ UNCHANGED <<tvars, batch, maker, bcrashes>>

SaveBatch(r) ==
  /\ reader[r].pc = "save"
  /\ batch' = reader[r].copy
  /\ reader' = [reader EXCEPT ![r] = IdleReader]
  /\ UNCHANGED <<tvars, maker, bcrashes>>

\* the workers; a task that is cancelled while it runs may still end otherwise
MemberStarts(m) ==
  /\ member[m] = "pending" /\ m \in held
  /\ member' = [member EXCEPT ![m] = "running"]
  /\ UNCHANGED <<verdict, held, batch, maker, reader, bcrashes>>

\* a failed attempt is stored as FAILED while the worker sleeps before the next one
MemberBacksOff(m) ==
  /\ member[m] = "running" /\ m \in held
  /\ member' = [member EXCEPT ![m] = "failed"]
  /\ UNCHANGED <<verdict, held, batch, maker, reader, bcrashes>>

MemberRetries(m) ==
  /\ m \in held /\ verdict[m] = "none" /\ member[m] \in {"failed", "gone"}
  /\ member' = [member EXCEPT ![m] = "running"]
  /\ UNCHANGED <<verdict, held, batch, maker, reader, bcrashes>>

MemberEnds(m, s) ==
  /\ member[m] = "running" /\ m \in held
  /\ member' = [member EXCEPT ![m] = s]
  /\ verdict' = [verdict EXCEPT ![m] = s]
  /\ UNCHANGED <<held, batch, maker, reader, bcrashes>>

\* the worker thread saves the outcome once more and unregisters the controller
MemberFinal(m) ==
  /\ m \in held /\ verdict[m] # "none"
  /\ member' = [member EXCEPT ![m] = verdict[m]]
  /\ held' = held \ {m}
  /\ UNCHANGED <<verdict, batch, maker, reader, bcrashes>>

\* cleanup_terminal() forgets the tasks that have ended
CleanupTasks ==
  /\ \E m \in Members : member[m] \in Ended
  /\ member' = [m \in Members |-> IF member[m] \in Ended THEN "gone" ELSE member[m]]
  /\ UNCHANGED <<verdict, held, batch, maker, reader, bcrashes>>

\* the process dies; of the tasks that were running some are taken up again, some
\* fail for want of a checkpoint, and some stay as they are when recovery fails.
\* A pending one stays pending, and no thread takes it.
BatchCrash ==
  LET running == {m \in Members : member[m] = "running"}
  IN  /\ bcrashes < BatchCrashes /\ maker.pc # "idle"
      /\ bcrashes' = bcrashes + 1
      /\ maker' = [maker EXCEPT !.pc = IF @ = "returned" THEN @ ELSE "lost",
                                !.copy = NewBatch]
      /\ reader' = [r \in Readers |-> IdleReader]
      /\ held' \in SUBSET running
      /\ \E failed \in SUBSET (running \ held') :
           member' = [m \in Members |-> IF m \in failed THEN "failed" ELSE member[m]]
      /\ UNCHANGED <<verdict, batch>>

BatchRuns ==
  \/ \E s \in {"pending", "rejected"} : SubmitMember(s)
  \/ AssignIds \/ MakerRefresh \/ MakerSave
  \/ \E m \in Members :
       \/ MemberStarts(m) \/ MemberBacksOff(m) \/ MemberRetries(m) \/ MemberFinal(m)
       \/ \E s \in Ended : MemberEnds(m, s)

Reading(r) ==
  LoadBatch(r) \/ CancelLook(r) \/ CancelDecide(r) \/ RefreshBatch(r) \/ SaveBatch(r)

BatchNext ==
  BatchRuns \/ SubmitBatch \/ (\E r \in Readers : Reading(r)) \/ CleanupTasks
    \/ BatchCrash

\* members run, and clients keep polling the batch
BatchFairness == WF_bvars(BatchRuns) /\ \A r \in Readers : WF_bvars(Reading(r))

-----------------------------------------------------------------------------
\* A batch is reported completed only when the run of each of its members ended in
\* success: whatever stale copies are saved over newer ones, and whatever a crash cut
\* short.  The row of such a member says so too, unless it was cleaned up or a
\* cancellation that had loaded it before saved CANCELLED over it.
CompletedIsHonest ==
  batch # NoBatch /\ batch.status = "completed" =>
    /\ batch.ids = Members
    /\ \A m \in Members : /\ verdict[m] = "completed"
                          /\ member[m] \in {"completed", "gone", "cancelled"}

\* A batch is told honestly, whatever is read, recomputed and saved at the same time.
BatchSound == BatchTypeOK /\ CompletedIsHonest

\* Once every member has completed, failed or been cancelled for good, somebody who
\* keeps polling sees the batch finished.  (A DEAD member is counted nowhere, and the
\* batch that has one is never finished.)
BatchFinishes ==
  (/\ maker.pc = "returned" /\ held = {}
   /\ \A m \in Members : member[m] \in {"completed", "failed", "cancelled", "rejected"})
    ~> batch.done
=============================================================================
