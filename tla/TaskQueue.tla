------------------------------ MODULE TaskQueue ------------------------------
(***************************************************************************)
(* The cluster task queue (table task_queue) and the two loops that work   *)
(* on it in every node with clustering on: the drone and the queen worker. *)
(*                                                                         *)
(* agent/services/cluster/work_unit.py, agent/services/cluster/drone_worker.py, *)
(* agent/routers/cluster.py, agent/layla/scheduler/registry.py.            *)
(*                                                                         *)
(* One action is one SQL statement with its commit, or one critical        *)
(* section of a worker's _active_lock.  Units are numbered by created_at.  *)
(***************************************************************************)
EXTENDS Naturals, FiniteSets

CONSTANTS
  MaxUnits,       \* bound on the units submitted
  Priority,       \* priority of each unit, lower first
  Workers,        \* the polling loops on the queue
  Threads,        \* identities of the task threads
  MaxConcurrent,  \* drone_max_concurrent, queen_max_concurrent
  MaxSlow,        \* bound on the units that outlive their timeout while a thread works on them
  MaxCrashes,     \* bound on the crashes of the node
  MaxFaults,      \* bound on the statements that raise
  StartMayFail    \* whether Thread.start may raise

Units == 1 .. MaxUnits

ASSUME QueueAssumption ==
  /\ MaxUnits \in Nat /\ MaxSlow \in Nat /\ MaxCrashes \in Nat /\ MaxFaults \in Nat
  /\ MaxConcurrent \in Nat \ {0}
  /\ Priority \in [Units -> Nat]
  /\ IsFiniteSet(Threads)
  /\ StartMayFail \in BOOLEAN

Settled == {"done", "failed", "cancelled"}
Status  == {"new", "pending", "running", "deleted"} \cup Settled

VARIABLES
  status,   \* column status ("new": not submitted yet, "deleted": cleaned up)
  overdue,  \* running for longer than timeout_s
  loop,     \* control point of each worker's _work_loop
  pick,     \* the unit the loop has selected or claimed
  active,   \* _active_tasks
  thread,   \* the task threads: control point, unit, worker
  slow, crashes, faults,
  leases,   \* history: how often each unit was claimed
  resets    \* history: how often reset_stuck put it back

vars == <<status, overdue, loop, pick, active, thread, slow, crashes, faults, leases, resets>>
table == <<status, overdue, leases, resets>>
env == <<slow, crashes, faults>>

Free == [at |-> "free", unit |-> 0, worker |-> "none"]

TypeOK ==
  /\ status \in [Units -> Status]
  /\ overdue \in [Units -> BOOLEAN]
  /\ loop \in [Workers -> {"poll", "capped", "gate", "select", "claim", "count", "start"}]
  /\ pick \in [Workers -> Units \cup {0}]
  /\ active \in [Workers -> Nat]
  /\ thread \in [Threads -> [at : {"free", "handle", "complete", "fail", "release"},
                             unit : Units \cup {0}, worker : Workers \cup {"none"}]]
  /\ slow \in 0 .. MaxSlow /\ crashes \in 0 .. MaxCrashes /\ faults \in 0 .. MaxFaults
  /\ leases \in [Units -> Nat] /\ resets \in [Units -> Nat]

Init ==
  /\ status = [u \in Units |-> "new"]
  /\ overdue = [u \in Units |-> FALSE]
  /\ loop = [w \in Workers |-> "poll"]
  /\ pick = [w \in Workers |-> 0]
  /\ active = [w \in Workers |-> 0]
  /\ thread = [t \in Threads |-> Free]
  /\ slow = 0 /\ crashes = 0 /\ faults = 0
  /\ leases = [u \in Units |-> 0] /\ resets = [u \in Units |-> 0]

\* Threads at work on a unit: its handler or the report of its result.
WorkingOn(u) == {t \in Threads : thread[t].unit = u /\ thread[t].at \in {"handle", "complete", "fail"}}

\* Threads of a worker whose finally clause has not run.
BusyOf(w) == {t \in Threads : thread[t].at # "free" /\ thread[t].worker = w}

Goto(w, point) == loop' = [loop EXCEPT ![w] = point]
Step(t, point) == thread' = [thread EXCEPT ![t].at = point]

\* A statement raises.
Fault == faults < MaxFaults /\ faults' = faults + 1 /\ UNCHANGED <<slow, crashes>>

-----------------------------------------------------------------------------
(* TaskQueue: the statements other than the workers' own *)

\* POST /cluster/task/submit from a paired peer; units arrive in the order of created_at.
Submit(u) ==
  /\ status[u] = "new" /\ \A v \in Units : v < u => status[v] # "new"
  /\ status' = [status EXCEPT ![u] = "pending"]
  /\ UNCHANGED <<overdue, loop, pick, active, thread, env, leases, resets>>

\* POST /cluster/task/{id}/cancel answers ok only when this row changed.
Cancel(u) ==
  /\ status[u] \in {"pending", "running"}
  /\ status' = [status EXCEPT ![u] = "cancelled"]
  /\ UNCHANGED <<overdue, loop, pick, active, thread, env, leases, resets>>

\* julianday(now) - julianday(started_at) passes timeout_s.
TimeLapse(u) ==
  /\ status[u] = "running" /\ ~overdue[u]
  /\ \/ WorkingOn(u) = {} /\ slow' = slow
     \/ WorkingOn(u) # {} /\ slow < MaxSlow /\ slow' = slow + 1
  /\ overdue' = [overdue EXCEPT ![u] = TRUE]
  /\ UNCHANGED <<status, loop, pick, active, thread, crashes, faults, leases, resets>>

\* Fault: reset_stuck without status='running'.
ResetStuck_AnyStatus ==
  LET stuck == {u \in Units : overdue[u]}
  IN  /\ stuck # {}
      /\ status' = [u \in Units |-> IF u \in stuck THEN "pending" ELSE status[u]]
      /\ overdue' = [u \in Units |-> IF u \in stuck THEN FALSE ELSE overdue[u]]
      /\ resets' = [u \in Units |-> IF u \in stuck THEN resets[u] + 1 ELSE resets[u]]
      /\ UNCHANGED <<loop, pick, active, thread, env, leases>>

\* The drone loop (every tenth iteration) and the hourly maintenance job.
ResetStuck ==
  LET stuck == {u \in Units : status[u] = "running" /\ overdue[u]}
  IN  /\ stuck # {}
      /\ status' = [u \in Units |-> IF u \in stuck THEN "pending" ELSE status[u]]
      /\ overdue' = [u \in Units |-> IF u \in stuck THEN FALSE ELSE overdue[u]]
      /\ resets' = [u \in Units |-> IF u \in stuck THEN resets[u] + 1 ELSE resets[u]]
      /\ UNCHANGED <<loop, pick, active, thread, env, leases>>

\* cleanup_stale, 72 hours after the row was settled.
CleanupStale(u) ==
  /\ status[u] \in Settled
  /\ status' = [status EXCEPT ![u] = "deleted"]
  /\ UNCHANGED <<overdue, loop, pick, active, thread, env, leases, resets>>

-----------------------------------------------------------------------------
(* _work_loop of a worker *)

\* Fault: the limit compared with > instead of >=.
CheckCapacity_Over(w) ==
  /\ loop[w] = "poll"
  /\ Goto(w, IF active[w] > MaxConcurrent THEN "capped" ELSE "gate")
  /\ UNCHANGED <<table, pick, active, thread, env>>

\* At capacity the loop waits for its poll interval with _active_lock held.
CheckCapacity(w) ==
  /\ loop[w] = "poll"
  /\ Goto(w, IF active[w] >= MaxConcurrent THEN "capped" ELSE "gate")
  /\ UNCHANGED <<table, pick, active, thread, env>>

CappedWaitEnds(w) ==
  /\ loop[w] = "capped"
  /\ Goto(w, "poll")
  /\ UNCHANGED <<table, pick, active, thread, env>>

\* _should_work: the resource governor.
GovernorAllows(w) ==
  /\ loop[w] = "gate" /\ Goto(w, "select")
  /\ UNCHANGED <<table, pick, active, thread, env>>

GovernorForbids(w) ==
  /\ loop[w] = "gate" /\ Goto(w, "poll")
  /\ UNCHANGED <<table, pick, active, thread, env>>

MoreUrgent(u, v) == Priority[u] < Priority[v] \/ (Priority[u] = Priority[v] /\ u < v)

\* claim: SELECT the best pending row ...
Select(w) ==
  LET pending == {u \in Units : status[u] = "pending"}
  IN  /\ loop[w] = "select"
      /\ \/ pending = {} /\ Goto(w, "poll") /\ pick' = pick
         \/ /\ \E u \in pending : /\ \A v \in pending \ {u} : MoreUrgent(u, v)
                                  /\ pick' = [pick EXCEPT ![w] = u]
            /\ Goto(w, "claim")
      /\ UNCHANGED <<table, active, thread, env>>

\* Fault: UPDATE ... WHERE id=? without AND status='pending'.
Claim_Unchecked(w) ==
  /\ loop[w] = "claim"
  /\ status' = [status EXCEPT ![pick[w]] = "running"]
  /\ overdue' = [overdue EXCEPT ![pick[w]] = FALSE]
  /\ leases' = [leases EXCEPT ![pick[w]] = @ + 1]
  /\ resets' = resets
  /\ (Goto(w, "count") /\ UNCHANGED env) \/ (Fault /\ Goto(w, "poll"))
  /\ UNCHANGED <<pick, active, thread>>

\* ... then UPDATE ... WHERE status='pending'.  The row may be gone by now; the
\* read-back of a row just claimed may raise, which drops it on the floor.
Claim(w) ==
  /\ loop[w] = "claim"
  /\ \/ status[pick[w]] # "pending" /\ Goto(w, "poll") /\ UNCHANGED <<table, env>>
     \/ /\ status[pick[w]] = "pending"
        /\ status' = [status EXCEPT ![pick[w]] = "running"]
        /\ overdue' = [overdue EXCEPT ![pick[w]] = FALSE]
        /\ leases' = [leases EXCEPT ![pick[w]] = @ + 1]
        /\ resets' = resets
        /\ (Goto(w, "count") /\ UNCHANGED env) \/ (Fault /\ Goto(w, "poll"))
  /\ UNCHANGED <<pick, active, thread>>

CountTask(w) ==
  /\ loop[w] = "count"
  /\ active' = [active EXCEPT ![w] = @ + 1]
  /\ Goto(w, "start")
  /\ UNCHANGED <<table, pick, thread, env>>

\* Thread.start; when it raises the loop goes on and the count stays.
StartTask(w) ==
  /\ loop[w] = "start"
  /\ Goto(w, "poll")
  /\ \/ \E t \in Threads : /\ thread[t] = Free
                           /\ thread' = [thread EXCEPT ![t] = [at |-> "handle", unit |-> pick[w], worker |-> w]]
     \/ StartMayFail /\ thread' = thread
  /\ UNCHANGED <<table, pick, active, env>>

-----------------------------------------------------------------------------
(* _execute_task in its own thread *)

\* The handler returns (also when it caught an error) or raises.
Handle(t) ==
  /\ thread[t].at = "handle"
  /\ Step(t, "complete") \/ Step(t, "fail")
  /\ UNCHANGED <<table, loop, pick, active, env>>

\* UPDATE ... SET status=? WHERE id=?: whatever the status, unless the row is gone.
Overwrite(u, s) ==
  status' = IF status[u] = "deleted" THEN status ELSE [status EXCEPT ![u] = s]

Complete(t) ==
  /\ thread[t].at = "complete"
  /\ \/ Overwrite(thread[t].unit, "done") /\ Step(t, "release") /\ UNCHANGED env
     \/ Fault /\ status' = status /\ Step(t, "fail")
  /\ UNCHANGED <<overdue, loop, pick, active, leases, resets>>

FailTask(t) ==
  /\ thread[t].at = "fail"
  /\ \/ Overwrite(thread[t].unit, "failed") /\ UNCHANGED env
     \/ Fault /\ status' = status
  /\ Step(t, "release")
  /\ UNCHANGED <<overdue, loop, pick, active, leases, resets>>

\* Fault: the finally clause forgets the counter.
Release_Leaks(t) ==
  /\ thread[t].at = "release" /\ loop[thread[t].worker] # "capped"
  /\ thread' = [thread EXCEPT ![t] = Free]
  /\ UNCHANGED <<table, loop, pick, active, env>>

\* Fault: one release gives back two slots.
Release_Twice(t) ==
  /\ thread[t].at = "release" /\ loop[thread[t].worker] # "capped"
  /\ active' = [active EXCEPT ![thread[t].worker] = @ - 2]
  /\ thread' = [thread EXCEPT ![t] = Free]
  /\ UNCHANGED <<table, loop, pick, env>>

\* The finally clause needs _active_lock.
Release(t) ==
  /\ thread[t].at = "release" /\ loop[thread[t].worker] # "capped"
  /\ active' = [active EXCEPT ![thread[t].worker] = IF @ = 0 THEN 0 ELSE @ - 1]
  /\ thread' = [thread EXCEPT ![t] = Free]
  /\ UNCHANGED <<table, loop, pick, env>>

\* The node dies and starts again; no start-up code touches task_queue.
Crash ==
  /\ crashes < MaxCrashes /\ crashes' = crashes + 1
  /\ loop' = [w \in Workers |-> "poll"]
  /\ pick' = [w \in Workers |-> 0]
  /\ active' = [w \in Workers |-> 0]
  /\ thread' = [t \in Threads |-> Free]
  /\ UNCHANGED <<table, slow, faults>>

-----------------------------------------------------------------------------
LoopStep(w) ==
  CheckCapacity(w) \/ CappedWaitEnds(w) \/ GovernorForbids(w) \/ Select(w) \/ Claim(w)
  \/ CountTask(w) \/ StartTask(w)

TaskStep(t) == Handle(t) \/ Complete(t) \/ FailTask(t)

Next ==
  \/ \E u \in Units : Submit(u) \/ Cancel(u) \/ TimeLapse(u) \/ CleanupStale(u)
  \/ ResetStuck
  \/ \E w \in Workers : LoopStep(w) \/ GovernorAllows(w)
  \/ \E t \in Threads : TaskStep(t) \/ Release(t)
  \/ Crash

Spec == Init /\ [][Next]_vars

\* Loops and threads are scheduled, time passes and maintenance runs; handlers end;
\* the governor lets work through again and again; and a thread that keeps asking
\* for _active_lock gets it in one of the moments the loop does not hold it.
FairSpec ==
  /\ Spec
  /\ \A w \in Workers : WF_vars(LoopStep(w)) /\ SF_vars(GovernorAllows(w))
  /\ \A t \in Threads : WF_vars(TaskStep(t)) /\ SF_vars(Release(t))
  /\ \A u \in Units : WF_vars(TimeLapse(u))
  /\ WF_vars(ResetStuck)

-----------------------------------------------------------------------------
(* Properties *)

\* A unit is handed out again only after reset_stuck took it back: two loops that
\* selected the same row never both claim it (claim: "prevent races between nodes").
ClaimedOncePerOffer == \A u \in Units : leases[u] <= resets[u] + 1

\* A worker never has more task threads than its limit, although it counts them in
\* one critical section, starts them after it and uncounts them in a third.
WithinCapacity == \A w \in Workers : Cardinality(BusyOf(w)) <= MaxConcurrent

\* No unit is lost: one that is pending is in the end settled, through slow
\* handlers, resets, crashes and two workers at their capacity.
EverySettled == \A u \in Units : status[u] = "pending" ~> status[u] \in Settled \cup {"deleted"}

\* The queue keeps the promise of LeaseQueue: whatever late reports do, a settled
\* unit is never offered or handed out again.
LQState(s) ==
  CASE s = "new" -> "absent" [] s = "pending" -> "offered" [] s = "running" -> "leased"
    [] s = "deleted" -> "dropped" [] OTHER -> "closed"

LQ == INSTANCE LeaseQueue WITH unit <- [u \in Units |-> LQState(status[u])]
KeepsLeasePromise == LQ!LQSpec

\* What the documentation says of the program and the code does not do (the
\* README names the instance in which TLC finds it false).

\* "a node claims a pending task, then completes or fails it. This avoids
\* double-processing": no unit is being worked on by two threads.
NoDoubleProcessing == \A u \in Units : Cardinality(WorkingOn(u)) <= 1

=============================================================================
