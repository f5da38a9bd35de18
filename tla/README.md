# Layla: TLA+ models, TLC checks and TLAPS proofs

Layla is a local AI agent: one Python process (FastAPI, `agent/main.py`) that answers chat
turns, runs tools behind approvals, works on background tasks and missions, shares work with
paired nodes, and keeps what must survive a restart in SQLite (`layla.db`) and a few JSON
files. Its language model is slow, its threads are many, and most of its state is written by
more than one of them. The models here are about that: threads, requests, scheduler jobs and
child processes that meet in a registry, a table, a file or a deque, with crashes, restarts
and failing writes.

All paths below are relative to `agent/` unless they say otherwise.

## 1. Inventory

| Component | State it keeps | Operations | Meets | Hard parts |
|---|---|---|---|---|
| **Background tasks** `services/infrastructure/agent_task_runner.py`, `background_subprocess.py`, `layla/memory/missions_db.py` | registry `_TASKS` under `_TASKS_LOCK`, table `background_tasks`, a cancel event or a child process for each task | enqueue, inline register and finalize, run in a thread (once or continuous) or in a child process, cancel, evict, shut down, reap at start | HTTP requests, the OS process of the worker, SQLite | cancel against start, end and spawn; eviction of rows whose runner still reports; crash; lost writes |
| **Task queue and workers** `services/cluster/work_unit.py`, `drone_worker.py` | table `task_queue`, one loop for each worker, `_active_tasks`, task threads | submit, claim, complete, fail, cancel, reset_stuck, cleanup_stale; capacity check, count, start, release | peers over HTTP, the governor, the maintenance job | claim races, late reports, timeouts, the wait with the lock held, crash |
| **Missions** `services/planning/mission_manager.py`, `routers/missions.py`, `layla/scheduler/jobs.py` | table `missions` | create and run, pause, resume, cancel; one step per run of a scheduler job | the agent loop (minutes for each step) | requests during a step, runtime limit, crash in a step, one oldest mission at a time |
| **Approvals** `routers/approvals.py`, `services/agent/approval_helpers.py`, `main.py` | `.governance/pending.json`, two locks | queue, list, approve (runs the tool), deny, clear, expire, prune | the agent loop, the operator, any guarded tool | two locks that do not nest, a list held over a tool run, writes cut short |
| **Conversation history** `shared_state.py`, `services/context/context_manager.py`, `layla/memory/conversations.py` | a deque and a revision for each conversation, table `conversation_messages` | get (and rehydrate), append, compact in a daemon thread, prune, commit a turn | turns, the model, SQLite | summaries computed without the lock, a ring that drops its oldest message, restart |
| **Admission gate** `services/infrastructure/resource_manager.py` | heap of waiters, count of running jobs | schedule_slot: refuse, enter, admit, give up, release | every agent run | deadline, priority, entries that are equal, holders that hang |
| **Agent runs** `agent_loop.py`, `services/agent/run_setup.py`, `services/planning/planner.py`, `task_graph.py`, `engineering_pipeline.py` | a slot, the generation lock, the plan in hand | run, plan, execute the steps as further runs, on a pool or on its own thread | the gate, the one lock of the model, a thread pool | a run waits for runs that need what it holds; the lock is reentrant |
| **Plans** `layla/memory/plans_db.py`, `routers/plans.py`, `services/planning/plan_step_governance.py` | table `layla_plans`, plan files | create, patch, approve, execute, save progress | the event loop, threads, agent runs | whole-row writes of what was read earlier, checks before long executions, a mark a crash leaves |
| **Tool loop** `services/agent/decision_loop.py`, `tool_guards.py`, `reasoning_handler.py`, `services/tools/tool_dispatch.py` | the state of one run | decide, guard, execute, answer, retry, stop | approvals, tools, model | rounds that move no counter, budgets that move |
| Resource governor `services/infrastructure/resource_governor.py` | mode | update, mark_user_active | scheduler, workers | a measurement of seconds between read and write |
| Pairing, node sync | tokens, peers, sync marks | pair, push, pull | peers | expiry, retries |
| Verification queue, checkpoints, provider health, shell sessions, MCP client, WebSocket hub, coordinator tasks | small registries | create, use, expire | see PROJECT.json | limits and life cycles |
| Memory, retrieval, prompts, personality, policies, tools, fabrication, skills, UI, transports, installers | text, numbers, files | transformations and I/O | all of the above | data rather than protocol |

How they interact: a chat turn reads its history, passes the admission gate, takes the
generation lock, may make a plan and execute its steps as further runs, runs the tool loop, may queue an approval and stop, and ends with `commit_turn` and two appends. Background
tasks, missions and units of the task queue all end up in the same `autonomous_run`. At start
`main.py` migrates the database, reaps background tasks and missions, and starts the
scheduler; at shutdown it terminates the worker processes registered at that moment.

What makes each modelled component correct:

* *Background tasks.* A row of the table never claims activity nobody carries out; a worker
  process outlives its runner only if the server died or the runner failed; a cancel that was
  accepted stays one; an outcome can be recovered from the table after eviction.
* *Task queue.* A unit is claimed once for each time it is offered; the limit of a worker
  holds; what is settled is never offered again; what is pending is settled in the end.
* *Missions.* Completed means every step was attempted; no step is executed twice (except one
  that a crash cut off or a failing statement kept from being recorded); recorded progress only
  grows; what is over stays over; running missions end.
* *Approvals.* A tool runs at most once for an approval and never after a denial, whatever
  fails; what is decided or expired is not offered for a decision.
* *Gate and runs.* The counter of running jobs is the number of holders; a free slot goes to
  a waiter nobody precedes; everybody who waits is let in or turned away; a run whose plan
  needs further runs comes to an end.
* *Plans.* What the status claims is true: executing means that an execution works, done that
  one passed all its steps; one execution at a time.
* *Tool loop.* No round overspends a budget, and the budgets end the run.
* *History.* Compaction saves before it drops, never undoes a turn, and comes in time.

## 2. Modules

| Module | Role |
|---|---|
| `BackgroundTasks` | runners, cancel requests, shutdown, crash, restart; one action per critical section of `_TASKS_LOCK` or SQLite write |
| `BackgroundTasks_proofs` | its theorems |
| `LeaseQueue` | abstract specification: a unit is absent, offered, leased, closed or dropped |
| `TaskQueue` | SQL statements, both work loops, task threads; implements `LeaseQueue` (`KeepsLeasePromise`) |
| `MCTaskQueue` | priorities for TLC (the later unit is the more urgent), symmetry of threads |
| `TaskQueue_proofs` | its theorems, the refinement among them |
| `Missions`, `Missions_proofs` | requests as a read and a write, the worker job step by step |
| `Approvals`, `MCApprovals`, `Approvals_proofs` | the file, the two locks, requests, faults; symmetry of operators |
| `ConversationHistory`, `ConversationHistory_proofs` | turns, the deque, the compaction threads |
| `PrioritySlots` | abstract specification of the gate: slots granted in the order of priority and stamp, no heap |
| `AdmissionGate` | `schedule_slot` with its heap; implements `PrioritySlots` (`ImplementsSlots`) |
| `AgentRuns`, `MCAgentRuns` | composition: runs, and the runs their plans make, at the gate and at the lock; extends `AdmissionGate`, whose actions are conjuncts of its own |
| `AgentRuns_proofs` | theorems of the gate, then of the runs that pass it |
| `StoredPlans`, `StoredPlans_proofs` | one durable plan under executions, approvals and edits |
| `ToolLoop`, `ToolLoop_proofs` | the rounds of one run and its budgets |

An operator whose comment starts with "Fault:" is a plausible bug in the definition that
follows it. It is no part of the specification; it shows that the property meant for that
place can fail.

### BackgroundTasks

A task `t` (numbered by `created_at`) has its row (`registry`, `status`, `mode`, `event`,
`handle`), its durable row `db`, its process `child` and a control point `pc[t]` that walks
through `enqueue_threaded_autonomous` and then `_run_background_task` or
`_run_background_subprocess_task`. An evicted row is still held by its runner (`t["status"]`
keeps its value), so `status[t]` survives eviction, and lookups ask `t \in registry`.
`SaveRead`/`SaveWrite` split `save_background_task`, which reads the status before the
INSERT. `Persist` is the UPDATE and, with `LossyStore`, its swallowed failure. `Spawn` and
`WaitResult` may raise after the process exists (`background_subprocess.py:67`, `83`, `212`,
`223`, `238`): the `except` clause of the runner (`Fail`) drops the handle, marks the task failed
and does not look at the child, which the history `verdict` remembers. `GoDown` is
the death of the process: threads, registry and requests go, children and the table stay,
and `Restart` is `reap_orphaned_tasks`.

### TaskQueue

`Select` and `Claim` are the two statements of `claim`; `CountTask`, `StartTask` and
`Release` the three places where a slot is counted, used and given back. At capacity the loop
waits *with `_active_lock` held* (`drone_worker.py:118-121`), so `Release` is enabled only
when its worker is not `capped`. `Complete` and `FailTask` overwrite whatever status they
find. `TimeLapse` is the passing of `timeout_s`. The mapping to `LeaseQueue` reads the status
column: done, failed and cancelled are all closed, which is why a late report is a stutter.

### Missions

Requests read the mission in one transaction (`Ask`, `RunCheck`) and write it in another
((`Write`). The worker job is `Tick` (the oldest mission running or pending), `ReadMission`
and one of `Expire`, `Complete`, `StepReturns`, `StepRaises`, with what the last two lead to. Ages count hours since
`created_at`; `UtcOffset` is the difference `time.mktime` adds. Every SQLite statement may raise
(`Fault`, at most `MaxFaults` times), and where it does decides what follows: `Record` and
`ReadBack` are inside the `try` of `execute_next_step` and lead to its `except` clause
(`RecordFailure`), which fails the mission and reports the step, a second time if its result was
in the list; whatever else raises, the write of that clause included, is `Swallowed` by the job
(`jobs.py:118-125`) and leaves the row as it was, so that the step is executed again.

### Approvals

`file` is the list by entry, `torn` a file that does not parse. `Begin` is the read under
`_approve_lock`, `Heal` the write-back of `_read_pending`, `Check`, `Mark`, `RunTool` and
`Finish` follow approve, `DenyWrite` deny. `Queue` is `_write_pending` with its rename,
`Save` the write that truncates first and may be cut short. Ages are abstracted to fresh,
past `expires_at`, and past the seven days of the prune.

### ConversationHistory

A message is the number of its turn and speaker, a summary is 0. A turn gets the deque at its
start and again for each append (`Get`, or `GetNew`, `Select`, `Fill`), commits both messages
and appends to the deque it has in hand, which a prune may have dropped meanwhile: both messages
when it is answered, only the user's when it is a multi-agent turn whose client went away
(`AppendAborted`, `routers/agent.py:1036-1045`), none when it fails or is stopped elsewhere. The
answer, and only the answer, starts a compaction thread: `Snapshot`, `Compact` (the outcomes of
`summarize_history`: nothing to do, a model summary, a truncation, nothing to say) and
`Swap`, guarded by revision and length. The maximum length is a constant, at least 6 (the code has 20; with less, the floor of 4
in `ForceAt` leaves no room for the two messages of a turn); the literals 4 of `_compact_bg`
are kept.

### AdmissionGate and AgentRuns

A call of `schedule_slot` is in one `phase`; `stamp` and `limit` are the `created_at` of its
entry and the `max_active_runs` it read, which a configuration change may make different for
different calls. The heap is the set of its entries and the one at index 0; what heapq does
below index 0 is left open, so every entry it may bring up is tried. `_QueuedJob` compares
priority and stamp only: `Removable` is what `_queue.remove(entry)` can hit, the entry on top
when it is equal and any equal one otherwise. Every step is one critical section of `_cv`.

In `AgentRuns` a call goes `call`, `slot`, `lock`, `think` and from there to `plan`, `pipe`,
`hung` or `leave`. There are two ways to execute a plan inside a run. `Plan` is the planning block:
it hands up to `PlanCalls` calls to a pool of `Workers` threads (`StepCall`), each of them an
`autonomous_run` of its own, and `PlanOver` waits for all of them. `Pipeline` is the engineering
pipeline (off by default, `engineering_pipeline_enabled`, and for requests that ask for it): it
makes the calls one after the other on the run's own thread (`PipelineCall`). The lock is an RLock,
so its holder is a *thread* (`Thread`): it lets a step of the pipeline in and keeps a step of the
pool out. A step of the pipeline may come to the planning block in its turn; its
`skip_engineering_pipeline` keeps it out of the pipeline.

### StoredPlans

The handlers of PATCH and execute are coroutines that touch the table without awaiting:
`loop` is the request that occupies the event loop. An approval is a plain function, run on a
thread of the server's pool. `update_layla_plan` is `ReadToEdit`/`WriteEdit` and
`ReadToSave`/`SaveProgress`: it reads every column in one transaction and writes every column
in another. Writers that set the status need no read of their own. `FailExecution` is the
`except` clause, reached from the executor, from the write of the outcome, and from the code
after it; `EndFails` is that clause failing too. `passed` and `forced` are history.

### ToolLoop

`at` is the place of a round: `top` (the stop conditions), `decide` (the model's answer and
all that can become of it), `reason` (the answer), `wrap` (the answer forced when a budget is
spent), `fallback` (after an unreadable call). The while condition bounds `depth`, which never
moves: every branch of the body continues, breaks or returns before line 521. What remains are
the three counters `calls`, `blocked`, `noops`, and the retries of the completion gate. Which
outcome a round has is a choice; `FreeRefusal` and `Redirect` are the outcomes that count
nothing (a binary file, a batch of writes without files; a research answer that asks the
user), and `free` remembers them. `Recap` is the policy's cap of the round, between 1 and the
configured maximum.

## 3. Runs

| Run | Shows |
|---|---|
| `tasks_modes` | two tasks in every combination of the four modes, one cancel, eviction of all finished rows, one crash or shutdown: `TypeOK`, `NoStuckRow`, `ChildAccounted`, `CancelHonoured` |
| `tasks_hard_cancel` | one subprocess task, two cancels, every write and the wait may fail: `HardCancel`, the worker process of a cancelled task dies although its job never ends by itself |
| `tasks_lost_cancel` | disagreement: `CancelledStaysCancelled` |
| `queue_safety` | drone and queen on two units with inverted priorities, an overrun, a raising statement, threads that fail to start: `TypeOK`, `ClaimedOncePerOffer`, `WithinCapacity`, `KeepsLeasePromise` |
| `queue_live` | one loop, an overrun, a fault, a crash: `EverySettled` |
| `missions_worker` | two missions with plans of 1 and 3 steps, a cap of 2, one request at a time against the worker, the runtime limit, a crash, two failing statements, fairness: `TypeOK`, `CompletedMeansAttempted`, `StepsCapped`, `StepsInOrder`, `RunningEnds` |
| `approvals_decisions` | four entries, two operators, both caps of 2, failing and torn writes, a crash: `TypeOK`, `AtMostOnce`, `DenialIsFinal`, `DecidedStaysDecided`, `FileBounded`, `ExpiryIsFinal` |
| `approvals_lost` | disagreement: `OthersSurvive` |
| `history_compaction` | four turns, answered, aborted or unsaid, two threads at a time, the third turn may overlap the second, a deque of 6, one fault: `TypeOK`, `NewestKept`, `SummaryFirst`, `SwapLosesNothing`, `SavedBeforeRolloff` |
| `agents_gate` | a chat call, a background call and two nested calls, made by the planning block or the pipeline, limits 1 and 2, two stamps, hanging generations: `RunsTypeOK`, `SlotsAccounted`, `EntriesMatchWaiters`, `LockUnderSlot`, `StepsNeverGenerate`, `ImplementsSlots`, `NobodyWaitsForever`, `RunsEndWithOneSlot` |
| `plans_row` | two executions, two approvals, one edit of a plan of two steps, one crash or double failure: `TypeOK`, `ExecutingMeansWorking`, `DoneMeansPassed`, `OneExecution` |
| `tool_loop` | a fresh or resumed run with a budget of four calls and two gate retries: `BudgetsKept`, `BoundedLoop` |

### Bounds

Every counter that the code leaves open is capped by a named constant in a guard.

* *Two tasks, units, missions.* The interactions are pairwise: one evicts, blocks or outranks
  the other. `MaxFinished = 0` evicts every finished row at once, the hardest case for a
  runner that reports late.
* *One or two requests or loops.* Two suffice for a read of one between the read and the
  write of the other. The second cancel of `tasks_hard_cancel` meets the first one's kill.
* *Caps of 2 and four entries* make `_read_pending` and `_write_pending` both prune, with
  entries of all ages.
* *A deque of 6 and four turns.* Eight messages overflow it, so its length stops changing
  while its content moves (the case the revision counter exists for), and forced compaction
  starts at 4, two messages before the end; in the code it starts at 16 of 20. Full overlap
  of all turns and compaction threads is beyond TLC here, so `MaxThreads` and `Overlap`
  bound it.
* *Faults.* Two failing statements are what one step of a mission needs to be lost without a crash
  (its write and that of the `except` clause), and what it needs to be recorded twice is one.
  One request at a time meets the worker at each of its statements; what two of them do to each other
  is left to the theorems, which hold for any number.
* *Four calls at the gate, two stamps.* Equal entries need two calls of one priority (the
  steps of the plan) and one stamp; a third and fourth call of other priorities change what is
  on top meanwhile. Two nested calls are also the two steps of a pipeline, one after the other, or
  a step of a pipeline and the step of a plan it makes. Two limits make a call wait that another would not have waited. A second
  round of a plan (`MaxRounds`) repeats the first with fewer calls left, so one is enough; the
  theorems hold for every number of both.
* *A budget of four calls* has room for batches of two and three tools beside single calls,
  and the policy's caps below it, while the caps for rejected calls (8) and for rounds without
  effect (8) are those of the code.
* *Two executions, two approvals, one edit* is the least in which an approval written over
  "executing" lets a second execution in and a second edit of the status follows.
* *One crash, one fault elsewhere.* The code keeps no count of failures; a second crash starts from a
  state the first one already left.

`CHECK_DEADLOCK FALSE` where the bounded system really comes to rest (all tasks, missions,
turns used up). `TaskQueue` and `approvals_decisions` never rest and are checked for deadlock.

### Fairness

* `BackgroundTasks!FairSpec`: weak fairness of the runner's own steps and of cancel requests,
  which are ordinary code on OS threads. Not of `RunOnce`, `WaitResult` or `ChildEnds`: the
  code does not bound how long a job takes, and `HardCancel` must not need it.
* `TaskQueue!FairSpec`: weak fairness of loops, threads, time and maintenance. Strong for
  `GovernorAllows` (the user is idle again and again) and for `Release`: a thread that wants
  `_active_lock` finds it free only between two waits of the loop. Python's lock does not
  promise that such a thread gets it; the strong fairness says that it does in the long run,
  and `EverySettled` depends on it.
* `AgentRuns!Fairness`: weak fairness of polling, of the clock, of taking a lock that is free
  or one's own, of returning, of the pool and of the pipeline's next call. Not of `Call`, `Plan`, `Pipeline` or `Hang`, and none of leaving `hung`: a
  native call may never return. Because a waiter that can run is admitted and one that cannot
  is turned away after its deadline, `NobodyWaitsForever` needs nothing of the holders.
  `RunsEndWithOneSlot` assumes in its own text that nothing hangs and that the limit is 1; the
  steps of a pipeline then end `system_busy` as those of a pool do, at their deadline.
* `ToolLoop!FairSpec`: weak fairness of the loop's own steps; none of the client or the clock.
* `Missions!FairSpec`: weak fairness of the worker job (the scheduler runs it at an interval,
  the agent loop has limits of its own) and of requests already under way.

### Disagreements between documents and code

Two runs are expected to end in a violation.

| Run | The document | The code |
|---|---|---|
| `tasks_lost_cancel` | `tests/test_background_task_cancel.py:54-64`: a cancel answered `"cancelled"` right after the start is followed by the status `cancelled` | the runner writes `status="running"` without looking (`agent_task_runner.py:658`): a cancel accepted while the task was queued is lost, the run is told to abort and the task ends `done`. (The subprocess runner has the same write at line 462, but at this commit no worker can be spawned, see below.) |
| `approvals_lost` | `approval_helpers.py:219-223`, the lost update is closed | approve and deny hold their list over a tool run without the file lock; an entry queued meanwhile is erased |

The others need no run of their own. The first four are formulas kept in the modules, false
of the code in the instances named; the last is proved.

| Formula | The document | The code |
|---|---|---|
| `TaskQueue!NoDoubleProcessing`, false with `MaxUnits = 1`, two threads, `MaxSlow = 1` | `work_unit.py:125-126`, "This avoids double-processing" | `reset_stuck` offers a unit again while its thread still works on it |
| `Missions!RuntimeLimitKept`, false with `MaxRuntime = 1`, `UtcOffset = 2`, `MaxFaults = 0` | `docs/missions.md:28`, the runtime counts from `created_at` | `time.mktime` reads the UTC stamp as local time (`mission_manager.py:119`) |
| `ConversationHistory!RolloffIsASave`, false with `MaxLen = 6`, `Keep = 0`, `MaxTurns = 6`, `Overlap = {}`, no fault | `shared_state.py:160-161`, firing early "is what makes it a save rather than a wake" | an aborted multi-agent turn appends without starting a compaction (`routers/agent.py:1044`, `shared_state.py:133`); a few of them fill the last slots, and the next message destroys the oldest one, which no summary of the deque covers. (The durable summaries of `layla/memory/conversations.py`, one for every 16 rows, are long-term memory and do not go back into the deque.) |
| `ConversationHistory!Continuity`, false with `MaxLen = 6`, `Keep = 0`, `MaxTurns = 5`, `Overlap = {}`, one fault | `CHANGELOG.md:438`, conversation continuity after a restart | `get_conversation_messages` returns the *oldest* 20 rows, which become the history |
| `AgentRuns!StepsNeverGenerate`, theorem `RunsSteps` | `CHANGELOG.md:443` and `ARCHITECTURE.md:109` describe plans executed inside a run | the steps that the planning block hands to the task graph call `autonomous_run`, on other threads, while their run holds a slot and the lock. With the default `max_active_runs` of 1 every step waits for its whole deadline (300 s) and comes back `system_busy`; with 2 or more it gets a slot and then waits for the lock of the run that waits for it, for ever. The steps of the engineering pipeline run on the run's own thread: with 1 they end `system_busy` as well, with 2 or more they enter the lock again and do generate |

Seen while modelling and visible in the models, without a run of their own:

* A task cancelled and evicted while its runner works ends `done` in the table; a shutdown
  between spawn and registration leaves the child running.
* `background_subprocess.py:20` looks for the worker script in `agent/services`, but it is in
  `agent` and in `agent/services/infrastructure`, so at this commit every spawn raises (line 60) and
  every subprocess task ends `failed`. `WorkerScriptFound` stands for it; what the runs and theorems
  say of worker processes is about the code around them once the path is right.
* An exception out of the spawn or of the wait leaves the worker process behind, unregistered
  (`agent_task_runner.py:529-555`); its task reads `failed`, which is what `ChildAccounted` says.
  `HardCancel` leaves out the one whose spawn raised: no row ever had its handle.
* A step of a mission is executed again, without a crash, when the write of its progress and that
  of the `except` clause both fail (`mission_manager.py:172-182`, `jobs.py:122-123`), and reported
  twice when only the read-back fails. `StepsCapped` allows one repetition for each failing
  statement, `StepsInOrder` a second report only together with the mission failing.
* `create_mission` accepts plans of up to 100 steps; the worker stops at 10 and calls the mission
  completed. `Cap` has that stop, so no property contradicts it.
* A unit cancelled while running ends `done` when its thread reports (`work_unit.py:249`).
* A mission left pending by a crash blocks every later one (`jobs.py:117`): `RunningEnds`
  carries that exception. The reaper pauses running missions at start-up, so they wait for a
  resume (`docs/missions.md:21` says the worker picks running ones up again and continues).
* A clear is undone by the last write of an approve under way (`approvals.py:124`, `176-180`).
  The branches of approve for executed and expired entries are all but unreachable, because
  `_read_pending` has dropped both (`docs/CORE_LOOP.md:121-124`).
* Of two waiters of one priority and clock tick, one that gives up may take the other's entry
  along; its own then stands on top with nobody behind it, and everybody waits until the other
  twin's deadline removes it. `EntriesMatchWaiters` says that it is removed then. No promise
  of the code bounds that wait, so no property forbids it.
* `approve_layla_plan` says "draft -> approved" (`plans_db.py:210`) and accepts `executing` and
  `paused` as well; written over `executing` it lets a second execution start, hence the
  exception in `OneExecution`. It validates the row it read before (`routers/plans.py:206-212`).
* A crash, or a failure of the `except` clause of an execution, leaves a plan `executing`, and
  no start-up code looks at it; PATCH turns it down, only an approval helps. An exception after
  the outcome is written makes a `done` plan `approved`, that is, executable again.
* PATCH accepts any status, `done` and `executing` included (`forced`).
* The forced wrap-up "must still END WITH AN ANSWER" (`decision_loop.py:127`), but when the
  reasoning handler asks for another round (a redirect, the completion gate) or raises, the run
  ends `tool_limit` without one.
* `depth` never moves, so the pause under high load and the loop's own bound (`decision_loop.py:70`,
  `510-550`) are never reached. Batches bypass the guard against exact repeats. A missing
  decision for a goal whose intent is a concurrency-safe tool raises at line 412.
* `mark_user_active` during a measurement of the governor is overwritten by the mode computed
  before it (`resource_governor.py:371`). A thread that fails to start keeps its slot of a
  worker (`drone_worker.py:143`).
* The revision of a conversation is neither pruned with its deque nor bumped by the refill, so
  a prune and a refill during a summary let the swap replace a deque it did not read. Hence
  `NewestKept` and `SwapLosesNothing` speak of deques that were appended to since they were
  made. An append between the insertion of a deque and its fill keeps the older messages out.
  A refused swap has already stored its summary, and the next one covers the same messages.
* `context_sliding_keep_messages` is read without an upper limit (`context_manager.py:157`). From
  15 on, a forced compaction of the deque of 20 makes it no shorter, and `SwapLosesNothing` and
  `SavedBeforeRolloff` fail (TLC finds both with `MaxLen = 6`, `Keep = 3`): two compactions of
  one deque can swap in turn, and a full deque drops what no summary covers. The hypothesis
  `KeepIsShort` of the two theorems is exactly this; the shipped values, 0 and 10, satisfy it.

## 4. Proofs

Each theorem holds for all values of the constants under the named ASSUMEs, which TLC
evaluates in the runs.

**BackgroundTasks_proofs** (`BoundsAssumption`, `ModesAssumption`, `SwitchAssumption`):
`TypeCorrect`, `ChildrenAccounted`, `CancelsHonoured`, `OutcomesRecoverable`, `NoStuckRows`,
`KillsUnderWay`. `ChildAccounted` is inductive with the type invariant and says how a live process
can be without a waiting runner: its server died, or an exception took its runner out of the spawn
or the wait, and then the row reads failed. The next three speak of
what registry and table hold *when the runner is at some point*, so the invariant `IInv` says
it for every point: `RowInv` (the status the row can have, and that only accepted cancels make
it cancelled), `StoreInv` (the same for the table, when no write is lost) and
`NothingRunsWhenDown`, which is what makes `Restart` safe. `KillUnderWay` is what `HardCancel`
needs of the order of the steps: as long as the worker process of a cancelled task lives and
its row is there, either its runner has yet to look at the row after the spawn or a request is
about to kill it. Its strengthening `HandleInv` is the reason: a runner past the registration
has put the handle where a cancel finds it, and it stays there until an exception of the wait has
marked the row failed. What is left to TLC is that the two take their step.

**TaskQueue_proofs** (`QueueAssumption`): `TypeCorrect`, `ClaimsAreExclusive`,
`CapacityKept`, `LeasePromiseKept`, `NoSlotLost`. `LeaseInv` counts leases against resets by status;
`SlotInv` adds to the threads at work the slot counted but not yet used, and to the counter
the room the loop found when it checked; its steps are cardinality lemmas (`OneMore`,
`OneLess`, `BusySame`). The refinement needs `OfferedInv` (whatever a loop or a thread holds
has been submitted), so that a late report closes a unit that exists. `NoSlotLost` makes the
inequality of `SlotInv` an equality where `StartMayFail` is false: a thread that fails to start
after it was counted (`drone_worker.py:143`) is the only way a worker loses capacity.

**Missions_proofs** (`MissionsAssumption`): `TypeCorrect`, `CompletedAttempted`,
`NoExtraSteps`, `OverStaysOver`, `RecordsSteps`. `StepInv` ties progress, results and status together,
`WorkInv` says that the step in hand is the next one until it is recorded, and how many results the
worker's own list has at each point; `AttemptInv` bounds attempts by recorded
steps, the one that runs or waits for its record, crashes and failing statements. It holds because
the job has a single instance
(`max_instances=1`); with two, `WorkInv` fails. `RecordsSteps` (`StepsInOrder`) says of each step
what these invariants say of states: the worker writes progress from what it read minutes before,
and yet the recorded progress grows by one attempted step at a time; the results grow with it,
except that the `except` clause, which fails the mission, may report a step that is reported.

**Approvals_proofs** (`ApprovalsAssumption`): `TypeCorrect`, `RunsAtMostOnce`,
`DeniedForGood`, `DecidedForGood`, `ExpiredForGood`. `LockInv` is mutual exclusion, `ListInv`
says what the list in hand and the file say at each point of a request (from the write of
"approved" until the tool has run the entry is pending in neither), `FutureInv` that what was
never queued has no history. Only together with the three properties themselves is it
inductive: a list in hand may be written over the file at any time, so it must not offer
anything decided either. `FileStaysBounded` has an invariant of its own, `ShortInv`: the file,
whether it parses or not, and every list in hand hold at most `QueueCap + 1` entries, because a
request reads no more than the file has and only changes the status of an entry it found there. It rests on a lemma about the prune (`NewestShort`: `Newest(S, n)`
has at most `n` elements).

**ConversationHistory_proofs** (`ConversationAssumption`): `HistoryTyped`, `HistoryNewest`,
`HistorySummary`, and, under `KeepIsShort`, `HistorySwaps` and `HistoryRolloff`. The first three
are one induction, `Inv`. `PlaceInv` says which turn has a deque and rows in hand, `MemoryInv`
relates the deque to the messages appended to it, `SnapInv` and `OutInv` say what a compaction
read and what it is about to put back (what it read, or a summary and a suffix of that, with
the rest saved when it was forced). The point is `RevInv`: the revision counts appends, so a
compaction that still finds the revision it read has in its snapshot the message appended last,
and what it puts back ends with that message. Lemmas say what the operators on
the deque compute (`RecentOf`, `OldestOf`, `PushedOn`, `KeptOf`, `CompressedOf`, `OutcomeOf`).

The other two need more. Two compactions may have read the same deque, and a swap does not
move the revision; the length is the guard that remains. `SameInv` says that it is enough: with
no append in between, others only make the deque shorter, so equal length means equal contents.
That is true only if a forced compaction does make it shorter, hence `KeepIsShort`
(`Keep + 1 < ForceAt`): a summary and the messages kept are fewer than the messages that force a
compaction. `RoomInv` says for turns that come one at a time, and after no aborted turn that took
the last room (`skipped`), that the deque has room for what
the turn under way may still append, or a compaction has yet to look at it or to make room. The
code has `Keep` 0 or 10 and `ForceAt` 16; see section 3 for larger settings.

**AgentRuns_proofs**, first part (`JobAssumption`, `PrioAssumption`, `LimitAssumption`,
`StampAssumption`): `GateSlots`, `GateEntries`, `GateRefinement`. `EntriesMatchWaiters` counts
entries and waiters by key; it is inductive because removing any entry equal to the caller's
takes one from the same count (cardinality lemmas on `EqualIn`). `HeapOrdered` alone does not
give the refinement: an admitted call stands on top of the *entries*, and only the agreement of
entries and waiters makes it a least one among the *waiters*. So the invariant is both, with
the slots.

Second part (`RunAssumption` and those of the gate): `RunsTyped`, `RunsSlots`, `RunsEntries`,
`RunsLock`, `RunsSteps`, `RunsRefineSlots`, `RunsSecondSlot`. Every step of a run is a step of
the gate or leaves it alone, so the gate's invariant and refinement carry over. `LockUnderSlot`
ties the work of a call to its slot and to the lock: the thread of every call under the lock holds
it, and it is free when the outermost one has returned, although steps of a pipeline enter and
leave it in between. It is inductive with `StepsOwned`, which says of every step under way that the
call it works for waits for it, and that a run in its pipeline has one such step, on its own thread.
`StepsNeverGenerate`, which speaks of the steps handed to the task graph, follows: the call that
made their plan is under the lock, so its thread, which is not theirs, holds it.
`StepsNeedSecondSlot` adds that this call holds a slot as well, so a step, of the pool or of the
pipeline, is admitted only where some call has read a limit of 2 or more. It is the part of
`RunsEndWithOneSlot` that needs no fairness.

**StoredPlans_proofs** (`PlanAssumption`): `PlanTyped`, `PlanMarked`, `PlanDone`,
`PlanOneExecution`. The three properties are proved together with what requests under way
may write back: an execution between its read and its write has seen either `executing` or what
an override put there, an edit holds the event loop and has read a status that no execution was
working under, and an execution that took the loop to mark the plan found it approved.

**ToolLoop_proofs** (`LoopAssumption`): `LoopBudgets`, `LoopSpends`, `LoopStopsLate`. In the places where a counter can grow
the stop conditions have just been found false for this round's cap (`LoopInvariant`); the
rest is the arithmetic of a batch. The other two are the variants behind `BoundedLoop`. `Fuel`
is what the budgets have left, weighted against the place in the round: every step lowers this
natural number or is a round that counts nothing. `Late` does the same, for every step, once
the time limit has passed or the client has gone. What remains for TLC is that the loop goes on
taking steps.

Left to TLC: liveness (`HardCancel`, `EverySettled`, `RunningEnds`, `NobodyWaitsForever`,
`RunsEndWithOneSlot`, `BoundedLoop`), because it needs ENABLED and fairness, and the
disagreements, which are false. Every invariant and every action property of a passing run is a
theorem. `OutcomesRecoverable` and `OverStaysOver` are proved only; no run repeats them.

## 5. Not modelled

* Failures that the models do not have, beside those named in section 2: a thread that fails to
  start (`agent_task_runner.py:396`; the row then stays queued until the next start reaps it) and a
  configured number that does not parse (`agent_task_runner.py:470-473`; the runner dies after
  marking the row running); a failing read of a mission or approval by a request, which changes
  nothing. Failing writes are in `BackgroundTasks` (`LossyStore`), `TaskQueue` (`MaxFaults` of
  them), `Missions`, `Approvals`, `ConversationHistory` and `StoredPlans`.
* Within modelled components: progress events; validation of requests; reuse of an inline
  task id; a child that survives SIGKILL; `stop()`/`start()` of a worker (two loops after a
  join that timed out); the string comparison in `cleanup_stale`; payload handlers; planner
  calls and step contents; mission chains; approval grants, previews and the audit line;
  `llm_serialize_per_workspace` (one lock for each workspace); the dependencies between the
  steps of a graph; plan files and the mirror of plans; rows the engineering pipeline creates
  and executes without the mark (`engineering_pipeline.py:460-562`), its critics and its validator,
  which generate under the lock of its run; the prompts, steps and
  results of the tool loop, and how repeats are detected (`tool_loop_detection.py`: a repeat
  it stops is a `Refuse`);
  deleting and truncating a conversation (the deque in memory stays stale,
  `routers/conversations.py:145-208`); the stored copies of summaries: "saved" means that a
  model summary covers the message, and a failure to store that summary (`context_manager.py:142`)
  is outside the models.
* Whole components, with reasons, in PROJECT.json.

## 6. Plan

Done: `BackgroundTasks`, `LeaseQueue`/`TaskQueue`, `Missions`, `Approvals`,
`ConversationHistory`, `PrioritySlots`/`AdmissionGate`, `AgentRuns`, `StoredPlans`, `ToolLoop`,
each with the theorems of section 4. What would come next, the most important first:

1. An abstract specification of one approval (offered, decided, run at most once) that
   `Approvals` implements, and the same for the life of a mission; the step invariants
   that the proofs already have are what the simulations need.
2. `TaskQueue`: what is left of `EverySettled` once fairness is set aside (`NoSlotLost` has the
   slots): a leased unit is with a loop or a thread, or `reset_stuck` will offer it again.
3. `ConversationHistory`: truncate and delete of a conversation.
4. `ResourceGovernor`: `update` as read, measure and write, `mark_user_active` in between.
5. `LoopDetection`: the detector of repeats and ping-pong against a reference definition.
6. `Pairing`, `VerificationQueue`, `FileCheckpoints`: small registries with limits.
