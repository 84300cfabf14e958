---------------------------- MODULE RemoteRender ----------------------------
(***************************************************************************)
(* The remote leg of a task (cloud/distributed.py, cloud/remote_queue.py,  *)
(* cloud/remote_provider.py and the hook of cloud/worker.py).  Before its  *)
(* pipeline starts, a worker may submit a render-only copy of its request  *)
(* to the first node that says it is ready, poll it, and download what it  *)
(* made.  A node runs the same worker, so that it may have nodes of its    *)
(* own: a subtask occupies a worker while it waits for a subtask.          *)
(*                                                                         *)
(* A worker holds its task until it settles.  A crash takes the tasks of a *)
(* host that never had a worker (TaskQueue says what becomes of them), and *)
(* fails those that had one or takes them up again at their checkpoint,    *)
(* which may lie past the render.  A file is the video of one movie on one *)
(* host: the tasks of one movie write to one directory.                    *)
(***************************************************************************)
EXTENDS Integers, FiniteSets

CONSTANTS
  Hosts, Home,   \* the machines, and the one that clients submit to
  Topologies,    \* what MN_DISTRIBUTED_NODES may say: hosts to sets of hosts
  Workers,       \* workers of a host
  Movies,        \* one task of each is submitted
  Seconds,       \* the estimate of a movie
  MinSeconds,    \* MN_DISTRIBUTED_MIN_RENDER_SECONDS
  MaxRetries,
  MaxTasks, MaxCrashes  \* bounds: a node refuses more subtasks

ASSUME RemoteAssumption ==
  /\ Home \in Hosts /\ Topologies \subseteq [Hosts -> SUBSET Hosts]
  /\ Workers \in Nat \ {0} /\ Seconds \in [Movies -> Nat] /\ MinSeconds \in Nat
  /\ IsFiniteSet(Movies) /\ MaxRetries \in Nat /\ MaxCrashes \in Nat
  /\ MaxTasks \in Nat /\ MaxTasks >= Cardinality(Movies)

VARIABLES
  nodes,   \* the nodes each host may dispatch to
  up,      \* is the host running?
  task,    \* the tasks of all hosts, in the order of their submission
  video,   \* final.mp4 of a movie on a host: "none", "partial", "short" or "whole"
  rcrashes \* crashes so far

rvars == <<nodes, up, task, video, rcrashes>>

Ids == 1..MaxTasks
Final == {"completed", "failed", "cancelled"}

\* past: where the checkpoint resumes, before the render ("start"), after it or after
\* the last step; cut: the video of this task is a download that ended early
Unused == [host |-> Home, movie |-> "none", stat |-> "none", pc |-> "none", at |-> Home,
           child |-> 0, flag |-> FALSE, attempt |-> 0, past |-> "start", cut |-> FALSE,
           why |-> "none"]

\* a task that waits for a worker of its host
Pending(h, m) == [Unused EXCEPT !.host = h, !.movie = m, !.stat = "pending"]

RemoteInit ==
  /\ nodes \in Topologies /\ up = [h \in Hosts |-> TRUE] /\ rcrashes = 0
  /\ \E first \in [Movies -> 1..Cardinality(Movies)] :
       /\ \A m, n \in Movies : m # n => first[m] # first[n]
       /\ task = [i \in Ids |-> IF \E m \in Movies : first[m] = i
                                THEN Pending(Home, CHOOSE m \in Movies : first[m] = i)
                                ELSE Unused]
  /\ video = [h \in Hosts |-> [m \in Movies |-> "none"]]

\* a worker goes on and forgets the node and the subtask it dealt with
Goto(i, p) == task' = [task EXCEPT ![i].pc = p, ![i].at = Home, ![i].child = 0]

\* of a task that is over, its row and its video are left
Over(t, s, w) == [Unused EXCEPT !.host = t.host, !.movie = t.movie, !.stat = s,
                                !.cut = t.cut, !.why = w]
Ends(i, s, w) == task' = [task EXCEPT ![i] = Over(@, s, w)]
Set(h, m, v) == video' = [video EXCEPT ![h][m] = v]
Running(h) == {i \in Ids : task[i].host = h /\ task[i].stat = "running"}
At(i, p) == task[i].stat = "running" /\ task[i].pc = p /\ up[task[i].host]

-----------------------------------------------------------------------------
\* a worker that is free takes the oldest task; reset() forgets a cancellation
Begin(i) ==
  LET h == task[i].host IN
  /\ task[i].stat = "pending" /\ up[h] /\ Cardinality(Running(h)) < Workers
  /\ \A j \in Ids : task[j].host = h /\ task[j].stat = "pending" => i <= j
  /\ task' = [task EXCEPT ![i].stat = "running", ![i].pc = "plan", ![i].flag = FALSE]
  /\ UNCHANGED <<nodes, up, video, rcrashes>>

Cancel(i) ==
  /\ task[i].stat = "running" /\ ~task[i].flag /\ up[task[i].host]
  /\ task' = [task EXCEPT ![i].flag = TRUE]
  /\ UNCHANGED <<nodes, up, video, rcrashes>>

\* should_distribute()
Distributable(i) ==
  nodes[task[i].host] # {} /\ Seconds[task[i].movie] >= MinSeconds

\* the probe of a node that runs may fail, and then it is not one
Ready(n) == up[n]

\* a checkpoint past the last step leaves nothing to do; otherwise the first node that
\* is ready is asked, even when the checkpoint is past the render
Plan(i) ==
  /\ At(i, "plan")
  /\ \/ task[i].past = "done" /\ Goto(i, "ended")
     \/ task[i].past # "done" /\ Goto(i, "local")
     \/ /\ task[i].past # "done" /\ Distributable(i)
        /\ \E n \in nodes[task[i].host] :
             Ready(n) /\ task' = [task EXCEPT ![i].pc = "submit", ![i].at = n]
  /\ UNCHANGED <<nodes, up, video, rcrashes>>

Free == {i \in Ids : task[i].stat = "none"}
NextId == CHOOSE i \in Free : \A j \in Free : i <= j

\* submit(): the answer may be lost, and then nobody knows of the subtask
Submit(i) ==
  /\ At(i, "submit")
  /\ \/ Goto(i, "local")
     \/ /\ up[task[i].at] /\ Free # {}
        /\ \E known \in BOOLEAN :
             task' = [task EXCEPT
               ![NextId] = Pending(task[i].at, task[i].movie),
               ![i] = IF known THEN [@ EXCEPT !.pc = "wait", !.child = NextId]
                               ELSE [@ EXCEPT !.pc = "local", !.at = Home]]
  /\ UNCHANGED <<nodes, up, video, rcrashes>>

\* result.succeeded needs a video
Succeeded(i) ==
  task[i].stat = "completed" /\ video[task[i].host][task[i].movie] # "none"

\* wait(): a request that fails, or a task that is not there any more, ends it
Poll(i) ==
  /\ At(i, "wait")
  /\ \/ Goto(i, "local")
     \/ /\ up[task[i].at] /\ task[task[i].child].stat \in Final
        /\ IF Succeeded(task[i].child)
           THEN task' = [task EXCEPT ![i].pc = "fetch", ![i].child = 0]
           ELSE Goto(i, "local")
  /\ UNCHANGED <<nodes, up, video, rcrashes>>

\* (mutant: wait() without a timeout)
TimeOutNever(i) == At(i, "wait") /\ FALSE /\ UNCHANGED rvars

\* the subtask is not told that nobody waits for it
TimeOut(i) ==
  /\ At(i, "wait") /\ Goto(i, "local")
  /\ UNCHANGED <<nodes, up, video, rcrashes>>

\* download_artifact() writes to the file in place, once the node has answered
Fetch(i) ==
  /\ At(i, "fetch")
  /\ \/ Goto(i, "local") /\ UNCHANGED video
     \/ /\ up[task[i].at] /\ task' = [task EXCEPT ![i].pc = "receive"]
        /\ Set(task[i].host, task[i].movie, "partial")
  /\ UNCHANGED <<nodes, up, rcrashes>>

\* (mutant: what read() raises is taken for the end of the file)
ReceiveSwallowed(i) ==
  /\ At(i, "receive")
  /\ \/ /\ up[task[i].at] /\ Goto(i, "apply")
        /\ Set(task[i].host, task[i].movie, video[task[i].at][task[i].movie])
     \/ Goto(i, "apply") /\ UNCHANGED video
  /\ UNCHANGED <<nodes, up, rcrashes>>

\* read() raises what is neither an HTTPError nor a URLError when the connection
\* breaks, and returns nothing more when the node closes it early
Receive(i) ==
  LET h == task[i].host  m == task[i].movie IN
  /\ At(i, "receive")
  /\ \/ /\ up[task[i].at] /\ Set(h, m, video[task[i].at][m])
        /\ task' = [task EXCEPT ![i].pc = "sound", ![i].at = Home, ![i].cut = FALSE]
     \/ Ends(i, "failed", "connection") /\ UNCHANGED video
     \/ /\ task' = [task EXCEPT ![i].pc = "sound", ![i].at = Home, ![i].cut = TRUE]
        /\ Set(h, m, "short")
  /\ UNCHANGED <<nodes, up, rcrashes>>

\* the narration is downloaded the same way, into a file of its own
FetchSound(i) ==
  /\ At(i, "sound")
  /\ \/ \E p \in {"apply", "local"} : Goto(i, p)
     \/ Ends(i, "failed", "connection")
  /\ UNCHANGED <<nodes, up, video, rcrashes>>

\* the pipeline fails or notices a cancellation; a failure may be tried again from
\* the checkpoint, remote leg included
Fails(i) ==
  \/ task[i].flag /\ Ends(i, "cancelled", "none")
  \/ Ends(i, "failed", "pipeline")
  \/ /\ ~task[i].flag /\ task[i].attempt < MaxRetries
     /\ task' = [task EXCEPT ![i].pc = "plan", ![i].attempt = @ + 1]

\* a checkpoint that cannot be written leaves the one before
Saved(i, p) == {p, task[i].past}

\* what a node made is applied: the render counts as done
Apply(i) ==
  /\ At(i, "apply")
  /\ \E p \in Saved(i, "after") :
       task' = [task EXCEPT ![i].pc = "remote", ![i].past = p]
  /\ UNCHANGED <<nodes, up, video, rcrashes>>

\* the pipeline starts, after the render or where the checkpoint says; its preflight
\* saves a checkpoint of its own over any later one
Preflight(i) ==
  /\ At(i, "local") \/ At(i, "remote")
  /\ \/ Fails(i)
     \/ \E p \in Saved(i, "start") :
          task' = [task EXCEPT ![i].past = p,
                     ![i].pc = IF At(i, "local") /\ task[i].past = "start"
                               THEN "render" ELSE "after"]
  /\ UNCHANGED <<nodes, up, video, rcrashes>>

\* the steps to the render, which replaces the file by a whole one
Publish(i) ==
  /\ At(i, "render")
  /\ \/ Fails(i) /\ UNCHANGED video
     \/ /\ \E p \in Saved(i, "after") :
             task' = [task EXCEPT ![i].pc = "after", ![i].past = p, ![i].cut = FALSE]
        /\ Set(task[i].host, task[i].movie, "whole")
  /\ UNCHANGED <<nodes, up, rcrashes>>

\* the steps after the render, the last one at the end
RunAfter(i) ==
  /\ At(i, "after")
  /\ \/ Fails(i)
     \/ ~task[i].flag /\ task[i].past = "start" /\ task' = [task EXCEPT ![i].past = "after"]
     \/ /\ ~task[i].flag
        /\ \E p \in Saved(i, "done") : task' = [task EXCEPT ![i].pc = "ended", ![i].past = p]
  /\ UNCHANGED <<nodes, up, video, rcrashes>>

\* the result is taken from the context, and the checkpoint deleted
Complete(i) ==
  /\ At(i, "ended") /\ Ends(i, "completed", "none")
  /\ UNCHANGED <<nodes, up, video, rcrashes>>

-----------------------------------------------------------------------------
\* a task that had a worker is RUNNING in the store, one recovered before included
InFlight(h) ==
  {i \in Ids : /\ task[i].host = h
               /\ \/ task[i].stat = "running"
                  \/ task[i].stat = "pending" /\ task[i].pc = "again"}

\* the process dies, in the middle of a download perhaps
CrashHost(h) ==
  /\ up[h] /\ rcrashes < MaxCrashes
  /\ up' = [up EXCEPT ![h] = FALSE] /\ rcrashes' = rcrashes + 1
  /\ task' = [i \in Ids |->
       IF task[i].host = h /\ task[i].stat = "pending" /\ task[i].pc = "none"
       THEN [task[i] EXCEPT !.stat = "lost"]
       ELSE IF task[i].host = h /\ task[i].stat = "running" /\ task[i].pc = "receive"
       THEN [task[i] EXCEPT !.cut = TRUE] ELSE task[i]]
  /\ UNCHANGED <<nodes, video>>

\* a task whose checkpoint is found runs again from there, any other has failed
Recovered(t) == [t EXCEPT !.stat = "pending", !.pc = "again", !.flag = FALSE,
                          !.attempt = 0, !.at = Home, !.child = 0]

RestartHost(h) ==
  /\ ~up[h] /\ up' = [up EXCEPT ![h] = TRUE]
  /\ \E back \in SUBSET InFlight(h) :
       task' = [i \in Ids |-> IF i \in back THEN Recovered(task[i])
                              ELSE IF i \in InFlight(h)
                              THEN Over(task[i], "failed", "none") ELSE task[i]]
  /\ UNCHANGED <<nodes, video, rcrashes>>

-----------------------------------------------------------------------------
Working(i) ==
  \/ Begin(i) \/ Plan(i) \/ Submit(i) \/ TimeOut(i) \/ Fetch(i)
  \/ Receive(i) \/ FetchSound(i) \/ Apply(i) \/ Preflight(i) \/ Publish(i)
  \/ RunAfter(i) \/ Complete(i)

RemoteNext ==
  \/ \E i \in Ids : Working(i) \/ Poll(i) \/ Cancel(i)
  \/ \E h \in Hosts : CrashHost(h) \/ RestartHost(h)

\* a worker that can go on does, the time of a wait runs out, and the host of the
\* clients is started again (docker-compose.yml: "restart: unless-stopped")
RemoteSpec ==
  /\ RemoteInit /\ [][RemoteNext]_rvars
  /\ \A i \in Ids : WF_rvars(Working(i))
  /\ WF_rvars(RestartHost(Home))

-----------------------------------------------------------------------------
Submitted == 1..Cardinality(Movies)

\* What a worker of the clients' host took up settles, whatever nodes do and whoever
\* crashes, even when two nodes are nodes of each other and their workers wait for
\* tasks that wait for workers.
RemoteSettles ==
  \A i \in Submitted : task[i].stat = "running" ~> task[i].stat \in Final

\* A task that completed has a whole video, its own or its subtask's, whatever was
\* left of earlier downloads, attempts and crashes.  Exempt is a task whose own download
\* ended early and was never replaced: the node closed the connection, or the process
\* died while it wrote, and the checkpoint it resumed from lay past the render.  A node
\* with nodes of its own is left out: a subtask that nobody waits for any more may then
\* be downloading into the file that is being sent.
RemoteSound ==
  (\A n \in nodes[Home] : nodes[n] = {}) =>
     \A i \in Submitted :
       task[i].stat = "completed" /\ ~task[i].cut => video[Home][task[i].movie] = "whole"

\* distributed.py: "Any failure in the distributed path falls back to local
\* rendering", and worker.py: "the distributed feature never turns a would-be
\* successful task into a failed one".
FallsBackToLocal == \A i \in Submitted : task[i].why # "connection"
=============================================================================
