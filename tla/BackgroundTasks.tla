--------------------------- MODULE BackgroundTasks ---------------------------
(***************************************************************************)
(* Background agent tasks: the in-memory registry _TASKS, the durable      *)
(* background_tasks table, the runner thread of every task (in-thread,     *)
(* continuous, child-process and inline modes), the cancel endpoint, the   *)
(* eviction of finished rows, shutdown, crash and the start-up reaper.     *)
(*                                                                         *)
(* agent/services/infrastructure/agent_task_runner.py,                     *)
(* agent/services/infrastructure/background_subprocess.py,                 *)
(* agent/layla/memory/missions_db.py, agent/main.py.                       *)
(*                                                                         *)
(* One action is one critical section of _TASKS_LOCK or one SQLite write:  *)
(* between any two of them every other thread may run.                     *)
(*                                                                         *)
(* Tasks are numbered in the order of their created_at stamps.             *)
(***************************************************************************)
EXTENDS Naturals, FiniteSets

CONSTANTS
  MaxTasks,          \* bound on the tasks ever created
  Cancels,           \* concurrent cancel requests
  Modes,             \* worker modes the configuration and the clients use
  MaxFinished,       \* _MAX_FINISHED_TASKS
  MaxRounds,         \* max_iterations of a continuous run
  MaxRestarts,       \* bound on crashes and clean shutdowns
  WorkerScriptFound, \* whether WORKER_SCRIPT names an existing file
  LossyStore         \* whether a SQLite write may fail (it is logged and ignored)

AllModes == {"thread", "continuous", "subprocess", "inline"}

ASSUME BoundsAssumption ==
  /\ MaxTasks \in Nat /\ MaxFinished \in Nat /\ MaxRestarts \in Nat
  /\ MaxRounds \in Nat \ {0}
ASSUME ModesAssumption == Modes \subseteq AllModes
ASSUME SwitchAssumption == WorkerScriptFound \in BOOLEAN /\ LossyStore \in BOOLEAN

Tasks    == 1 .. MaxTasks
Terminal == {"done", "failed", "cancelled"}
Status   == {"none", "queued", "running", "interrupted"} \cup Terminal

VARIABLES
  up,        \* the server process
  restarts,  \* how often it went down
  registry,  \* keys of _TASKS
  status,    \* "status" of a task's row object (kept by its holders after eviction)
  mode,      \* "worker_mode"
  event,     \* cancel_event of the in-thread modes
  handle,    \* whether the row's worker_proc is set
  child,     \* the worker's OS process
  rounds,    \* iterations a continuous run has completed
  pc,        \* control point of the request that enqueues, then of the runner
  snap,      \* status that save_background_task has read from the row
  verdict,   \* how the spawn and wait_worker_result ended
  db,        \* status column of background_tasks
  cancel,    \* cancel requests in flight
  doomed,    \* worker processes cancel_all_workers has yet to terminate
  accepted   \* history: when a cancel request was first answered "cancelled"

rowVars  == <<registry, status, mode, event, handle>>
runVars  == <<child, rounds, pc, snap, verdict>>
procVars == <<up, restarts, doomed>>
vars     == <<rowVars, runVars, procVars, db, cancel, accepted>>

Idle == [at |-> "idle", task |-> 0]

Points == {"new", "save", "insert", "start", "persistRunning", "loop", "once", "bottom",
           "check", "spawn", "register", "recheck", "wait", "clear", "judge",
           "settle", "fail", "persistDone", "persistFailed", "inline", "exit", "lost"}

\* Control points at which a task's code is still going to run.
Active(t) == pc[t] \notin {"new", "exit", "lost"}

\* Points before the runner's own first write of the row.
BeforeStart == {"save", "insert", "start"}

TypeOK ==
  /\ up \in {"serving", "stopping", "exited", "crashed"}
  /\ restarts \in 0 .. MaxRestarts
  /\ registry \subseteq Tasks
  /\ doomed \subseteq Tasks
  /\ status \in [Tasks -> Status]
  /\ mode \in [Tasks -> AllModes]
  /\ event \in [Tasks -> BOOLEAN]
  /\ handle \in [Tasks -> BOOLEAN]
  /\ child \in [Tasks -> {"none", "live", "dead"}]
  /\ rounds \in [Tasks -> 0 .. MaxRounds]
  /\ pc \in [Tasks -> Points]
  /\ snap \in [Tasks -> Status]
  /\ verdict \in [Tasks -> {"none", "ok", "bad", "cancelled", "raised", "orphan"}]
  /\ db \in [Tasks -> Status]
  /\ cancel \in [Cancels -> [at : {"idle", "kill", "persist"}, task : Tasks \cup {0}]]
  /\ accepted \in [Tasks -> {"never", "early", "late"}]

Init ==
  /\ up = "serving" /\ restarts = 0 /\ doomed = {}
  /\ registry = {}
  /\ status = [t \in Tasks |-> "none"]
  /\ mode \in [Tasks -> Modes]
  /\ event = [t \in Tasks |-> FALSE]
  /\ handle = [t \in Tasks |-> FALSE]
  /\ child = [t \in Tasks |-> "none"]
  /\ rounds = [t \in Tasks |-> 0]
  /\ pc = [t \in Tasks |-> "new"]
  /\ snap = [t \in Tasks |-> "none"]
  /\ verdict = [t \in Tasks |-> "none"]
  /\ db = [t \in Tasks |-> "none"]
  /\ cancel = [c \in Cancels |-> Idle]
  /\ accepted = [t \in Tasks |-> "never"]

-----------------------------------------------------------------------------
(* Helpers *)

Running == up \in {"serving", "stopping"}

\* The row is found in _TASKS with this status.
Found(t, s) == t \in registry /\ status[t] = s

Goto(t, point) == pc' = [pc EXCEPT ![t] = point]

\* `if t: t["status"] = s` under the lock.
Mark(t, s) == status' = IF t \in registry THEN [status EXCEPT ![t] = s] ELSE status

\* UPDATE ... WHERE id=?: nothing to update when the row was never inserted.
Persist(t, s) ==
  \/ db' = IF db[t] = "none" THEN db ELSE [db EXCEPT ![t] = s]
  \/ LossyStore /\ db' = db

\* Finished rows that are not among the MaxFinished most recent ones.
Evictable(rows, st) ==
  LET finished == {t \in rows : st[t] \in Terminal}
  IN  {t \in finished : Cardinality({u \in finished : u >= t}) > MaxFinished}

-----------------------------------------------------------------------------
(* Enqueue: enqueue_threaded_autonomous, register_inline_progress_task *)

NextTask(t) == pc[t] = "new" /\ \A u \in Tasks : u < t => pc[u] # "new"

Enqueue(t) ==
  /\ up = "serving" /\ NextTask(t) /\ mode[t] # "inline"
  /\ status' = [status EXCEPT ![t] = "queued"]
  /\ registry' = (registry \cup {t}) \ Evictable(registry \cup {t}, status')
  /\ Goto(t, "save")
  /\ UNCHANGED <<mode, event, handle, child, rounds, snap, verdict, procVars, db, cancel, accepted>>

RegisterInline(t) ==
  /\ up = "serving" /\ NextTask(t) /\ mode[t] = "inline"
  /\ status' = [status EXCEPT ![t] = "running"]
  /\ registry' = registry \cup {t}
  /\ Goto(t, "save")
  /\ UNCHANGED <<mode, event, handle, child, rounds, snap, verdict, procVars, db, cancel, accepted>>

\* save_background_task evaluates task.get("status") first ...
SaveRead(t) ==
  /\ Running /\ pc[t] = "save"
  /\ snap' = [snap EXCEPT ![t] = status[t]]
  /\ Goto(t, "insert")
  /\ UNCHANGED <<rowVars, child, rounds, verdict, procVars, db, cancel, accepted>>

\* ... and then inserts; afterwards the enqueuing thread starts the runner.
SaveWrite(t) ==
  /\ Running /\ pc[t] = "insert"
  /\ \/ db' = [db EXCEPT ![t] = snap[t]]
     \/ LossyStore /\ db' = db
  /\ Goto(t, IF mode[t] = "inline" THEN "inline" ELSE "start")
  /\ UNCHANGED <<rowVars, child, rounds, snap, verdict, procVars, cancel, accepted>>

-----------------------------------------------------------------------------
(* The runner: first steps shared by thread and subprocess modes *)

MarkRunning(t) ==
  /\ Running /\ pc[t] = "start"
  /\ Mark(t, "running")
  /\ Goto(t, IF t \in registry THEN "persistRunning" ELSE "exit")
  /\ UNCHANGED <<registry, mode, event, handle, child, rounds, snap, verdict,
                 procVars, db, cancel, accepted>>

PersistRunning(t) ==
  /\ Running /\ pc[t] = "persistRunning"
  /\ Persist(t, "running")
  /\ Goto(t, CASE mode[t] = "subprocess" -> "check"
               [] mode[t] = "continuous" -> "loop"
               [] OTHER -> "once")
  /\ UNCHANGED <<rowVars, child, rounds, snap, verdict, procVars, cancel, accepted>>

-----------------------------------------------------------------------------
(* _run_background_task: the in-thread run *)

\* Both checks of the continuous loop: the row's status, then the event.
AbortSeen(t) == Found(t, "cancelled") \/ event[t]

LoopTop(t) ==
  /\ Running /\ pc[t] = "loop"
  /\ Goto(t, IF AbortSeen(t) THEN "settle" ELSE "once")
  /\ UNCHANGED <<rowVars, child, rounds, snap, verdict, procVars, db, cancel, accepted>>

\* _run_once returns (a continuous run stops early on client_abort or on a
\* finished plan), or it raises.
RunOnce(t) ==
  /\ Running /\ pc[t] = "once"
  /\ \/ /\ \/ Goto(t, "settle")
           \/ mode[t] = "continuous" /\ Goto(t, "bottom")
        /\ rounds' = [rounds EXCEPT ![t] = IF mode[t] = "continuous" THEN @ + 1 ELSE @]
     \/ Goto(t, "fail") /\ rounds' = rounds
  /\ UNCHANGED <<rowVars, child, snap, verdict, procVars, db, cancel, accepted>>

\* Fault: the iteration cap is not applied.
LoopBottom_NoCap(t) ==
  /\ Running /\ pc[t] = "bottom"
  /\ Goto(t, IF AbortSeen(t) THEN "settle" ELSE "loop")
  /\ UNCHANGED <<rowVars, child, rounds, snap, verdict, procVars, db, cancel, accepted>>

LoopBottom(t) ==
  /\ Running /\ pc[t] = "bottom"
  /\ Goto(t, IF AbortSeen(t) \/ rounds[t] = MaxRounds THEN "settle" ELSE "loop")
  /\ UNCHANGED <<rowVars, child, rounds, snap, verdict, procVars, db, cancel, accepted>>

\* Fault: the final section does not look for a cancel.
Settle_NoCheck(t) ==
  /\ Running /\ pc[t] = "settle"
  /\ Mark(t, "done")
  /\ Goto(t, "persistDone")
  /\ UNCHANGED <<registry, mode, event, handle, child, rounds, snap, verdict,
                 procVars, db, cancel, accepted>>

\* The last critical section of both runners: a cancelled row is persisted as
\* cancelled inside it; otherwise the row, if it is still there, is done.
Settle(t) ==
  /\ Running /\ pc[t] = "settle"
  /\ \/ /\ Found(t, "cancelled")
        /\ Persist(t, "cancelled")
        /\ Goto(t, "exit") /\ status' = status
     \/ /\ ~Found(t, "cancelled")
        /\ Mark(t, "done")
        /\ Goto(t, "persistDone") /\ db' = db
  /\ UNCHANGED <<registry, mode, event, handle, child, rounds, snap, verdict,
                 procVars, cancel, accepted>>

PersistDone(t) ==
  /\ Running /\ pc[t] = "persistDone"
  /\ Persist(t, "done")
  /\ Goto(t, "exit")
  /\ UNCHANGED <<rowVars, child, rounds, snap, verdict, procVars, cancel, accepted>>

\* The except clauses and the unparsable-result branch mark the row without
\* looking at its status.
Fail(t) ==
  /\ Running /\ pc[t] = "fail"
  /\ Mark(t, "failed")
  /\ handle' = [handle EXCEPT ![t] = FALSE]
  /\ Goto(t, "persistFailed")
  /\ UNCHANGED <<registry, mode, event, child, rounds, snap, verdict,
                 procVars, db, cancel, accepted>>

PersistFailed(t) ==
  /\ Running /\ pc[t] = "persistFailed"
  /\ Persist(t, "failed")
  /\ Goto(t, "exit")
  /\ UNCHANGED <<rowVars, child, rounds, snap, verdict, procVars, cancel, accepted>>

-----------------------------------------------------------------------------
(* _run_background_subprocess_task: the run in a child process *)

CheckBeforeSpawn(t) ==
  /\ Running /\ pc[t] = "check"
  /\ \/ Found(t, "cancelled") /\ Persist(t, "cancelled") /\ Goto(t, "exit")
     \/ ~Found(t, "cancelled") /\ Goto(t, "spawn") /\ db' = db
  /\ UNCHANGED <<rowVars, child, rounds, snap, verdict, procVars, cancel, accepted>>

\* spawn_background_worker: no process is made; or it is made and handed over; or it
\* is made and an exception after Popen (the configuration, the write of the job to
\* its stdin) loses the only reference to it.
Spawn(t) ==
  /\ Running /\ pc[t] = "spawn"
  /\ \/ Goto(t, "fail") /\ UNCHANGED <<child, verdict>>
     \/ /\ WorkerScriptFound
        /\ child' = [child EXCEPT ![t] = "live"]
        /\ \/ Goto(t, "register") /\ verdict' = verdict
           \/ Goto(t, "fail") /\ verdict' = [verdict EXCEPT ![t] = "orphan"]
  /\ UNCHANGED <<rowVars, rounds, snap, procVars, db, cancel, accepted>>

RegisterWorker(t) ==
  /\ Running /\ pc[t] = "register"
  /\ handle' = [handle EXCEPT ![t] = t \in registry]
  /\ Goto(t, "recheck")
  /\ UNCHANGED <<registry, status, mode, event, child, rounds, snap, verdict,
                 procVars, db, cancel, accepted>>

\* Fault: a cancel seen after the spawn returns without killing the child.
RecheckAfterSpawn_NoKill(t) ==
  /\ Running /\ pc[t] = "recheck"
  /\ \/ /\ Found(t, "cancelled")
        /\ Persist(t, "cancelled")
        /\ verdict' = [verdict EXCEPT ![t] = "cancelled"]
        /\ Goto(t, "clear")
     \/ ~Found(t, "cancelled") /\ Goto(t, "wait") /\ UNCHANGED <<verdict, db>>
  /\ UNCHANGED <<rowVars, child, rounds, snap, procVars, cancel, accepted>>

\* Fault: no second look at the status after the spawn.
RecheckAfterSpawn_Skipped(t) ==
  /\ Running /\ pc[t] = "recheck"
  /\ Goto(t, "wait")
  /\ UNCHANGED <<rowVars, child, rounds, snap, verdict, procVars, db, cancel, accepted>>

RecheckAfterSpawn(t) ==
  /\ Running /\ pc[t] = "recheck"
  /\ \/ /\ Found(t, "cancelled")
        /\ child' = [child EXCEPT ![t] = "dead"]
        /\ Persist(t, "cancelled")
        /\ verdict' = [verdict EXCEPT ![t] = "cancelled"]
        /\ Goto(t, "clear")
     \/ ~Found(t, "cancelled") /\ Goto(t, "wait") /\ UNCHANGED <<child, verdict, db>>
  /\ UNCHANGED <<rowVars, rounds, snap, procVars, cancel, accepted>>

\* wait_worker_result: the child ended; or the parent kills it for exceeding the
\* stdout cap or the wait; or reading or waiting raises, and the except clause of
\* the runner takes over without a look at the child.
WaitResult(t) ==
  /\ Running /\ pc[t] = "wait"
  /\ \/ /\ child[t] = "dead" /\ child' = child
        /\ verdict' \in {[verdict EXCEPT ![t] = v] : v \in {"ok", "bad"}}
        /\ Goto(t, "clear")
     \/ /\ child' = [child EXCEPT ![t] = "dead"]
        /\ verdict' = [verdict EXCEPT ![t] = "bad"]
        /\ Goto(t, "clear")
     \/ /\ child' = child
        /\ verdict' = [verdict EXCEPT ![t] = "raised"]
        /\ Goto(t, "fail")
  /\ UNCHANGED <<rowVars, rounds, snap, procVars, db, cancel, accepted>>

\* The finally clause drops the handle; a run cancelled right after the spawn
\* returns there.
ClearWorker(t) ==
  /\ Running /\ pc[t] = "clear"
  /\ handle' = [handle EXCEPT ![t] = FALSE]
  /\ Goto(t, IF verdict[t] = "cancelled" THEN "exit" ELSE "judge")
  /\ UNCHANGED <<registry, status, mode, event, child, rounds, snap, verdict,
                 procVars, db, cancel, accepted>>

Judge(t) ==
  /\ Running /\ pc[t] = "judge"
  /\ \/ Found(t, "cancelled") /\ Persist(t, "cancelled") /\ Goto(t, "exit")
     \/ ~Found(t, "cancelled") /\ db' = db /\ Goto(t, IF verdict[t] = "ok" THEN "settle" ELSE "fail")
  /\ UNCHANGED <<rowVars, child, rounds, snap, verdict, procVars, cancel, accepted>>

\* The child process ends by itself, whether or not its parent still exists.
ChildEnds(t) ==
  /\ child[t] = "live"
  /\ child' = [child EXCEPT ![t] = "dead"]
  /\ UNCHANGED <<rowVars, rounds, pc, snap, verdict, procVars, db, cancel, accepted>>

-----------------------------------------------------------------------------
(* finalize_inline_progress_task *)

FinalizeInline(t) ==
  /\ Running /\ pc[t] = "inline"
  /\ \/ Mark(t, "done") /\ Goto(t, "persistDone")
     \/ Mark(t, "failed") /\ Goto(t, "persistFailed")
  /\ UNCHANGED <<registry, mode, event, handle, child, rounds, snap, verdict,
                 procVars, db, cancel, accepted>>

-----------------------------------------------------------------------------
(* _cancel_background_task_impl *)

CancelRequest(c, t) ==
  /\ up = "serving" /\ cancel[c].at = "idle"
  /\ t \in registry /\ status[t] \notin Terminal
  /\ status' = [status EXCEPT ![t] = "cancelled"]
  /\ event' = [event EXCEPT ![t] = mode[t] \in {"thread", "continuous"}]
  /\ cancel' = [cancel EXCEPT ![c] = [at |-> IF handle[t] THEN "kill" ELSE "persist", task |-> t]]
  /\ accepted' = [accepted EXCEPT ![t] =
                    IF @ # "never" THEN @ ELSE IF pc[t] \in BeforeStart THEN "early" ELSE "late"]
  /\ UNCHANGED <<registry, mode, handle, runVars, procVars, db>>

CancelKill(c) ==
  /\ Running /\ cancel[c].at = "kill"
  /\ child' = [child EXCEPT ![cancel[c].task] = "dead"]
  /\ cancel' = [cancel EXCEPT ![c].at = "persist"]
  /\ UNCHANGED <<rowVars, rounds, pc, snap, verdict, procVars, db, accepted>>

CancelPersist(c) ==
  /\ Running /\ cancel[c].at = "persist"
  /\ Persist(cancel[c].task, "cancelled")
  /\ cancel' = [cancel EXCEPT ![c] = Idle]
  /\ UNCHANGED <<rowVars, runVars, procVars, accepted>>

-----------------------------------------------------------------------------
(* Shutdown, crash and restart *)

\* The server stops once its requests have ended; cancel_all_workers then takes
\* the handles registered at that moment.
BeginShutdown ==
  /\ up = "serving" /\ restarts < MaxRestarts
  /\ \A c \in Cancels : cancel[c].at = "idle"
  /\ \A t \in Tasks : /\ pc[t] \notin {"save", "insert"}
                      /\ mode[t] = "inline" => ~Active(t)
  /\ up' = "stopping"
  /\ doomed' = {t \in registry : handle[t]}
  /\ UNCHANGED <<restarts, rowVars, runVars, db, cancel, accepted>>

TerminateWorker(t) ==
  /\ up = "stopping" /\ t \in doomed
  /\ child' = [child EXCEPT ![t] = "dead"]
  /\ doomed' = doomed \ {t}
  /\ UNCHANGED <<up, restarts, rowVars, rounds, pc, snap, verdict, db, cancel, accepted>>

\* The process is gone: its threads, the registry and the requests with it.
GoDown(how) ==
  /\ restarts < MaxRestarts
  /\ up' = how /\ restarts' = restarts + 1 /\ doomed' = {}
  /\ registry' = {}
  /\ event' = [t \in Tasks |-> FALSE]
  /\ handle' = [t \in Tasks |-> FALSE]
  /\ pc' = [t \in Tasks |-> IF Active(t) THEN "lost" ELSE pc[t]]
  /\ cancel' = [c \in Cancels |-> Idle]
  /\ UNCHANGED <<status, mode, child, rounds, snap, verdict, db, accepted>>

Exit  == up = "stopping" /\ doomed = {} /\ GoDown("exited")
Crash == Running /\ GoDown("crashed")

\* Fault: tasks that were still queued are not reaped.
Restart_KeepsQueued ==
  /\ up \in {"exited", "crashed"}
  /\ up' = "serving"
  /\ db' = [t \in Tasks |-> IF db[t] = "running" THEN "interrupted" ELSE db[t]]
  /\ UNCHANGED <<restarts, doomed, rowVars, runVars, cancel, accepted>>

\* reap_orphaned_tasks in the start-up sequence, before any request is served.
Restart ==
  /\ up \in {"exited", "crashed"}
  /\ up' = "serving"
  /\ \/ db' = [t \in Tasks |-> IF db[t] \in {"queued", "running"} THEN "interrupted" ELSE db[t]]
     \/ LossyStore /\ db' = db
  /\ UNCHANGED <<restarts, doomed, rowVars, runVars, cancel, accepted>>

-----------------------------------------------------------------------------
RunnerStep(t) ==
  \/ SaveRead(t) \/ SaveWrite(t) \/ MarkRunning(t) \/ PersistRunning(t)
  \/ LoopTop(t) \/ LoopBottom(t) \/ Settle(t) \/ PersistDone(t) \/ Fail(t) \/ PersistFailed(t)
  \/ CheckBeforeSpawn(t) \/ Spawn(t) \/ RegisterWorker(t) \/ RecheckAfterSpawn(t)
  \/ ClearWorker(t) \/ Judge(t)

Next ==
  \/ \E t \in Tasks : \/ Enqueue(t) \/ RegisterInline(t) \/ RunnerStep(t) \/ RunOnce(t)
                      \/ WaitResult(t) \/ FinalizeInline(t) \/ ChildEnds(t) \/ TerminateWorker(t)
  \/ \E c \in Cancels : CancelKill(c) \/ CancelPersist(c) \/ \E t \in Tasks : CancelRequest(c, t)
  \/ BeginShutdown \/ Exit \/ Crash \/ Restart

Spec == Init /\ [][Next]_vars

\* Threads are scheduled by the OS and a cancel request runs to its end; how long
\* a run or a child takes is not bounded by the code, so neither is fair.
FairSpec ==
  /\ Spec
  /\ \A t \in Tasks : WF_vars(RunnerStep(t))
  /\ \A c \in Cancels : WF_vars(CancelKill(c) \/ CancelPersist(c))

-----------------------------------------------------------------------------
(* Properties *)

\* A durable row says queued or running only while some thread of this process is
\* still going to write it (reap_orphaned_tasks: no row "shows 'running forever'").
\* The exception is a task cancelled and evicted before its runner looked it up:
\* the runner returns without a write.
NoStuckRow ==
  (up = "serving" /\ ~LossyStore) =>
    \A t \in Tasks : db[t] \in {"queued", "running"} =>
      Active(t) \/ (accepted[t] = "early" /\ t \notin registry)

\* A runner that gave up on its live worker process because spawning it or waiting for
\* it raised: it says "failed" of the task, never "done" or "cancelled".
LeftByException(t) ==
  /\ verdict[t] \in {"raised", "orphan"}
  /\ pc[t] \in {"fail", "persistFailed", "exit"}
  /\ (pc[t] # "fail" /\ t \in registry) => status[t] = "failed"

\* Every live worker process has a runner that is going to wait for it, or was orphaned
\* by the death of the server, or was left by an exception of its runner, whose task
\* then reads failed: a run that ends done or cancelled leaves no process behind.
ChildAccounted ==
  \A t \in Tasks : child[t] = "live" =>
    pc[t] \in {"register", "recheck", "wait", "lost"} \/ LeftByException(t)

\* A cancel accepted once the runner has marked the row running is never undone by
\* the run's own success, in the registry or, when the runner has returned, in the
\* table; only a failure of the run overwrites it.
CancelHonoured ==
  \A t \in registry : (accepted[t] = "late" /\ mode[t] # "inline") =>
    /\ status[t] \in {"cancelled", "failed"}
    /\ (pc[t] = "exit" /\ ~LossyStore) => db[t] \in {"cancelled", "failed"}

\* The outcome of a task nobody cancelled is in the table when its runner returns,
\* evicted from the registry or not (_evict_finished_tasks_locked: "recoverable
\* from the SQLite copy").
OutcomeRecoverable ==
  ~LossyStore => \A t \in Tasks : (accepted[t] = "never" /\ pc[t] = "exit") =>
    status[t] \in {"done", "failed"} /\ db[t] = status[t]

\* A worker process whose task is cancelled is eventually dead, however long its
\* job would take and even if waiting for it raises, as long as the row stays in the
\* registry. A process whose spawn raised is nobody's: no cancel can find it.
HardCancel ==
  \A t \in Tasks : (child[t] = "live" /\ Found(t, "cancelled") /\ verdict[t] # "orphan") ~>
                    (child[t] = "dead" \/ t \notin registry)

\* What the documentation says of the program and the code does not do.

\* test_post_cancel_sets_cooperative_abort: a task run in a thread whose cancel was
\* answered "cancelled" is cancelled from then on; it does not turn out done.
CancelledStaysCancelled ==
  \A t \in Tasks : (accepted[t] # "never" /\ mode[t] \in {"thread", "continuous"}) => status[t] # "done"

=============================================================================
