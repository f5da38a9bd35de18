------------------------------- MODULE Missions -------------------------------
(***************************************************************************)
(* Missions: plans that a scheduler job executes one step per run, the     *)
(* requests that create, pause, resume and cancel them, the runtime limit, *)
(* failing SQLite statements, crash and the start-up reaper.               *)
(*                                                                         *)
(* agent/services/planning/mission_manager.py, agent/routers/missions.py,  *)
(* agent/layla/scheduler/jobs.py, agent/layla/memory/missions_db.py.       *)
(*                                                                         *)
(* One action is one SQL transaction together with the computation that    *)
(* follows it; a request reads the mission in one and writes it in the     *)
(* next.  Missions are numbered by created_at.                             *)
(***************************************************************************)
EXTENDS Integers, FiniteSets

CONSTANTS
  MaxMissions,  \* bound on the missions created
  Plans,        \* lengths of the plans the planner returns
  MaxSteps,     \* MAX_MISSION_STEPS
  Requests,     \* concurrent HTTP requests
  MaxRuntime,   \* max_mission_runtime_seconds, in hours
  MaxAge,       \* bound on the hours that pass
  UtcOffset,    \* hours the server's local time is ahead of UTC
  MaxCrashes,   \* bound on the crashes
  MaxFaults     \* bound on the SQLite statements that raise

ASSUME MissionsAssumption ==
  /\ MaxMissions \in Nat /\ MaxCrashes \in Nat /\ MaxFaults \in Nat
  /\ MaxRuntime \in Nat /\ MaxAge \in Nat
  /\ MaxSteps \in Nat \ {0}
  /\ Plans \subseteq Nat \ {0}
  /\ UtcOffset \in Int

M        == 1 .. MaxMissions
Terminal == {"completed", "failed"}
Status   == {"none", "pending", "running", "paused"} \cup Terminal
Ops      == {"run", "pause", "resume", "cancel"}

VARIABLES
  status,   \* column status ("none": no row)
  plan,     \* length of the mission's plan
  step,     \* current_step
  results,  \* entries of results_json that report a step (not the runtime limit)
  age,      \* hours since created_at
  worker,   \* _mission_worker_job: control point, its mission, the current_step it read,
            \* the length of its own list of results
  req,      \* the requests: control point, operation, mission
  crashes, faults,
  attempts, \* history: calls of autonomous_run for a mission
  tooOld    \* history: missions failed for their runtime while within it

vars == <<status, plan, step, results, age, worker, req, crashes, faults, attempts, tooOld>>
row  == <<status, plan, step, results>>
env  == <<crashes, faults>>
hist == <<attempts, tooOld>>

IdleWorker == [at |-> "idle", mission |-> 0, seen |-> 0, list |-> 0]
IdleReq    == [at |-> "idle", op |-> "run", mission |-> 0]

TypeOK ==
  /\ status \in [M -> Status]
  /\ plan \in [M -> Plans \cup {0}]
  /\ step \in [M -> Nat] /\ results \in [M -> Nat]
  /\ age \in [M -> 0 .. MaxAge]
  /\ worker \in [at : {"idle", "picked", "expire", "complete", "run", "record", "readback", "failed"},
                 mission : M \cup {0}, seen : Nat, list : Nat]
  /\ req \in [Requests -> [at : {"idle", "check", "write"}, op : Ops, mission : M \cup {0}]]
  /\ crashes \in 0 .. MaxCrashes /\ faults \in 0 .. MaxFaults
  /\ attempts \in [M -> Nat] /\ tooOld \subseteq M

Init ==
  /\ status = [m \in M |-> "none"] /\ plan = [m \in M |-> 0]
  /\ step = [m \in M |-> 0] /\ results = [m \in M |-> 0]
  /\ age = [m \in M |-> 0]
  /\ worker = IdleWorker
  /\ req = [r \in Requests |-> IdleReq]
  /\ crashes = 0 /\ faults = 0 /\ attempts = [m \in M |-> 0] /\ tooOld = {}

\* Steps of a mission that are ever executed.
Cap(m) == IF plan[m] < MaxSteps THEN plan[m] ELSE MaxSteps

\* A SQLite statement raises (a locked or full database); it changes nothing.
Fault == faults < MaxFaults /\ faults' = faults + 1 /\ UNCHANGED crashes

-----------------------------------------------------------------------------
(* Requests *)

\* POST /mission: create_mission saves the mission, pending ...
Create(r, m) ==
  /\ req[r].at = "idle" /\ status[m] = "none" /\ \A n \in M : n < m => status[n] # "none"
  /\ status' = [status EXCEPT ![m] = "pending"]
  /\ \E n \in Plans : plan' = [plan EXCEPT ![m] = n]
  /\ req' = [req EXCEPT ![r] = [at |-> "check", op |-> "run", mission |-> m]]
  /\ UNCHANGED <<step, results, age, worker, env, hist>>

\* Statuses in which each operation is accepted, and the status it writes.
Accepts(op) ==
  CASE op = "pause"  -> {"running"}
    [] op = "cancel" -> {"pending", "running", "paused"}
    [] OTHER         -> {"pending", "paused"}

\* Fault: cancel writes the word its answer uses, which no reader of the table knows.
Writes_Cancelled(op) ==
  CASE op = "pause" -> "paused" [] op = "cancel" -> "cancelled" [] OTHER -> "running"

Writes(op) ==
  CASE op = "pause" -> "paused" [] op = "cancel" -> "failed" [] OTHER -> "running"

\* ... and run_mission looks at it again before it writes.
RunCheck(r) ==
  /\ req[r].at = "check"
  /\ \/ /\ status[req[r].mission] \in Accepts("run")
        /\ req' = [req EXCEPT ![r].at = "write"] /\ UNCHANGED env
     \/ /\ Fault \/ (status[req[r].mission] \notin Accepts("run") /\ UNCHANGED env)
        /\ req' = [req EXCEPT ![r] = IdleReq]
  /\ UNCHANGED <<row, age, worker, hist>>

\* POST /mission/{id}/pause, resume, cancel: read the mission and look at its status; a
\* refused request changes nothing.
Ask(r, op, m) ==
  /\ req[r].at = "idle" /\ op # "run"
  /\ status[m] \in Accepts(op)
  /\ req' = [req EXCEPT ![r] = [at |-> "write", op |-> op, mission |-> m]]
  /\ UNCHANGED <<row, age, worker, env, hist>>

\* The second half of a request writes the status without looking at it again, or raises
\* and the client gets an error.
Write(r) ==
  /\ req[r].at = "write"
  /\ \/ status' = [status EXCEPT ![req[r].mission] = Writes(req[r].op)] /\ UNCHANGED env
     \/ Fault /\ UNCHANGED status
  /\ req' = [req EXCEPT ![r] = IdleReq]
  /\ UNCHANGED <<plan, step, results, age, worker, hist>>

-----------------------------------------------------------------------------
(* _mission_worker_job: at most one instance runs *)

\* Fault: paused missions count as active.
Tick_Paused ==
  LET active == {m \in M : status[m] \in {"running", "pending", "paused"}}
  IN  /\ worker.at = "idle"
      /\ \E m \in active : /\ \A n \in active : m <= n
                           /\ worker' = [IdleWorker EXCEPT !.at = "picked", !.mission = m]
      /\ UNCHANGED <<row, age, req, env, hist>>

\* get_active_missions(limit=1): the oldest mission that is running or pending.
Tick ==
  LET active == {m \in M : status[m] \in {"running", "pending"}}
  IN  /\ worker.at = "idle"
      /\ \E m \in active : /\ \A n \in active : m <= n
                           /\ worker' = [IdleWorker EXCEPT !.at = "picked", !.mission = m]
      /\ UNCHANGED <<row, age, req, env, hist>>

\* created_at is UTC; time.mktime takes it for local time.
SeenAge(m) == age[m] + UtcOffset

\* Fault: the worker goes on from the step it counted, not from the one in the row.
ReadMission_Stale ==
  LET m == worker.mission
  IN  /\ worker.at = "picked" /\ status[m] = "running" /\ step[m] < Cap(m)
      /\ worker' = [worker EXCEPT !.at = "run", !.list = results[m]]
      /\ attempts' = [attempts EXCEPT ![m] = @ + 1]
      /\ UNCHANGED <<row, age, req, env, tooOld>>

\* execute_next_step reads the mission; only a running one is worked on.
ReadMission ==
  LET m == worker.mission
  IN  /\ worker.at = "picked"
      /\ \/ status[m] # "running" /\ worker' = IdleWorker /\ attempts' = attempts
         \/ /\ status[m] = "running" /\ SeenAge(m) > MaxRuntime
            /\ worker' = [worker EXCEPT !.at = "expire"] /\ attempts' = attempts
         \/ /\ status[m] = "running" /\ SeenAge(m) <= MaxRuntime /\ step[m] >= Cap(m)
            /\ worker' = [worker EXCEPT !.at = "complete"] /\ attempts' = attempts
         \/ /\ status[m] = "running" /\ SeenAge(m) <= MaxRuntime /\ step[m] < Cap(m)
            /\ worker' = [worker EXCEPT !.at = "run", !.seen = step[m], !.list = results[m]]
            /\ attempts' = [attempts EXCEPT ![m] = @ + 1]
      /\ UNCHANGED <<row, age, req, env, tooOld>>

Expire ==
  LET m == worker.mission
  IN  /\ worker.at = "expire"
      /\ status' = [status EXCEPT ![m] = "failed"]
      /\ tooOld' = IF age[m] <= MaxRuntime THEN tooOld \cup {m} ELSE tooOld
      /\ worker' = IdleWorker
      /\ UNCHANGED <<plan, step, results, age, req, env, attempts>>

\* A mission found with all its steps behind it.
Complete ==
  /\ worker.at = "complete"
  /\ status' = [status EXCEPT ![worker.mission] = "completed"]
  /\ worker' = IdleWorker
  /\ UNCHANGED <<plan, step, results, age, req, env, hist>>

\* autonomous_run returns: its outcome is appended to the worker's list.
StepReturns ==
  /\ worker.at = "run"
  /\ worker' = [worker EXCEPT !.at = "record", !.list = @ + 1]
  /\ UNCHANGED <<row, age, req, env, hist>>

\* autonomous_run raises.
StepRaises ==
  /\ worker.at = "run"
  /\ worker' = [worker EXCEPT !.at = "failed"]
  /\ UNCHANGED <<row, age, req, env, hist>>

\* Fault: the last step but one completes the mission.
Record_Early ==
  LET m    == worker.mission
      next == worker.seen + 1
  IN  /\ worker.at = "record"
      /\ status' = IF next + 1 >= Cap(m) THEN [status EXCEPT ![m] = "completed"] ELSE status
      /\ step' = [step EXCEPT ![m] = next]
      /\ results' = [results EXCEPT ![m] = worker.list]
      /\ worker' = [worker EXCEPT !.at = "readback"]
      /\ UNCHANGED <<plan, age, req, env, hist>>

\* Fault: the progress of a mission that was paused meanwhile is dropped.
Record_IfRunning ==
  LET m    == worker.mission
      next == worker.seen + 1
  IN  /\ worker.at = "record"
      /\ status' = IF next >= Cap(m) THEN [status EXCEPT ![m] = "completed"] ELSE status
      /\ step' = IF status[m] = "running" THEN [step EXCEPT ![m] = next] ELSE step
      /\ results' = [results EXCEPT ![m] = worker.list]
      /\ worker' = [worker EXCEPT !.at = "readback"]
      /\ UNCHANGED <<plan, age, req, env, hist>>

\* The progress is written from what the worker read before the run, the status only
\* with the last step; the write is inside the try.
Record ==
  LET m    == worker.mission
      next == worker.seen + 1
  IN  /\ worker.at = "record"
      /\ \/ /\ status' = IF next >= Cap(m) THEN [status EXCEPT ![m] = "completed"] ELSE status
            /\ step' = [step EXCEPT ![m] = next]
            /\ results' = [results EXCEPT ![m] = worker.list]
            /\ worker' = [worker EXCEPT !.at = "readback"] /\ UNCHANGED env
         \/ Fault /\ worker' = [worker EXCEPT !.at = "failed"] /\ UNCHANGED <<status, step, results>>
      /\ UNCHANGED <<plan, age, req, hist>>

\* So is the read of the mission it returns.
ReadBack ==
  /\ worker.at = "readback"
  /\ \/ worker' = IdleWorker /\ UNCHANGED env
     \/ Fault /\ worker' = [worker EXCEPT !.at = "failed"]
  /\ UNCHANGED <<row, age, req, hist>>

\* The except clause: the step counts as done and is reported as an error, on top of
\* its result when that was in the list already.
RecordFailure ==
  LET m == worker.mission
  IN  /\ worker.at = "failed"
      /\ status' = [status EXCEPT ![m] = "failed"]
      /\ step' = [step EXCEPT ![m] = worker.seen + 1]
      /\ results' = [results EXCEPT ![m] = worker.list + 1]
      /\ worker' = IdleWorker
      /\ UNCHANGED <<plan, age, req, env, hist>>

\* A statement outside that try raises, the write of the except clause among them: the
\* job logs it and leaves the row as it is.
Swallowed ==
  /\ worker.at \in {"picked", "expire", "complete", "failed"}
  /\ Fault
  /\ worker' = IdleWorker
  /\ UNCHANGED <<row, age, req, hist>>

-----------------------------------------------------------------------------
(* Time, crash and restart *)

Hour ==
  /\ \A m \in M : age[m] < MaxAge
  /\ age' = [m \in M |-> IF status[m] = "none" THEN 0 ELSE age[m] + 1]
  /\ age' # age
  /\ UNCHANGED <<row, worker, req, env, hist>>

\* The server dies; the next one reaps before it serves: running missions are paused,
\* unless the reaper's statement fails.
CrashAndReap ==
  /\ crashes < MaxCrashes /\ crashes' = crashes + 1
  /\ \/ /\ status' = [m \in M |-> IF status[m] = "running" THEN "paused" ELSE status[m]]
        /\ faults' = faults
     \/ faults < MaxFaults /\ faults' = faults + 1 /\ UNCHANGED status
  /\ worker' = IdleWorker
  /\ req' = [r \in Requests |-> IdleReq]
  /\ UNCHANGED <<plan, step, results, age, hist>>

-----------------------------------------------------------------------------
WorkerStep ==
  \/ Tick \/ ReadMission \/ Expire \/ Complete \/ StepReturns \/ StepRaises
  \/ Record \/ ReadBack \/ RecordFailure \/ Swallowed
Finish(r)  == RunCheck(r) \/ Write(r)

Next ==
  \/ \E r \in Requests : \/ \E m \in M : Create(r, m) \/ \E op \in Ops : Ask(r, op, m)
                         \/ Finish(r)
  \/ WorkerStep \/ Hour \/ CrashAndReap

Spec == Init /\ [][Next]_vars

\* The scheduler runs the job again and again, steps end (autonomous_run has its own
\* limits), requests run to their end.
FairSpec == Spec /\ WF_vars(WorkerStep) /\ \A r \in Requests : WF_vars(Finish(r))

-----------------------------------------------------------------------------
(* Properties *)

\* A mission that is completed has attempted every step of its plan up to the cap and
\* reports a result for each, whatever pauses, cancels, restarts and failing statements
\* came in between; it reports more only for statements that failed.
CompletedMeansAttempted ==
  \A m \in M : status[m] = "completed" =>
    results[m] \in Cap(m) .. Cap(m) + faults /\ attempts[m] >= Cap(m)

\* "Hard cap of 10 steps per mission" and "missions are step-idempotent": a mission
\* executes no step twice, except once for each crash that cut one off and for each
\* failing statement that kept it from being recorded, and none beyond the cap, even
\* when it is paused and resumed while the worker is at work on it.
StepsCapped ==
  \A m \in M : attempts[m] <= (IF plan[m] < MaxSteps THEN plan[m] ELSE MaxSteps) + crashes + faults

\* The recorded progress only grows: by one step at a time, each attempted, within the cap
\* and with a result, although the worker writes from what it read before a run during
\* which requests write the same row, statements fail and the process restarts. Results
\* that outrun the steps (a step recorded twice) come only with the mission failing.
StepsInOrder ==
  [][\A m \in M :
       /\ step'[m] # step[m] =>
            /\ step'[m] = step[m] + 1 /\ step[m] < Cap(m)
            /\ attempts[m] > step[m] /\ results'[m] > results[m]
       /\ results'[m] # results[m] =>
            /\ results'[m] \in {results[m] + 1, results[m] + 2}
            /\ status'[m] # "failed" => results'[m] - results[m] = step'[m] - step[m]]_vars

\* Nothing is at work on the mission.
Quiet(m) ==
  /\ worker.at # "idle" => worker.mission # m
  /\ \A r \in Requests : req[r].at # "idle" => req[r].mission # m

\* A mission that is over and that nothing is at work on is never touched again.
OverForGood == [][\A m \in M : (status[m] \in Terminal /\ Quiet(m)) => (status[m]' = status[m] /\ Quiet(m)')]_vars

\* Once the requests stop, a running mission ends, unless an older mission is still
\* pending: the worker only ever looks at the oldest mission, and one that is pending
\* (its creator died between save_mission and run_mission) is never worked on.
RunningEnds ==
  <>[](\A r \in Requests : req[r].at = "idle") =>
    \A m \in M : status[m] = "running" ~> (status[m] # "running" \/ \E n \in M : n < m /\ status[n] = "pending")

\* What the documentation says of the program and the code does not do (the
\* README names the instance in which TLC finds it false).

\* "If a mission exceeds this since created_at, it is aborted and marked failed":
\* no mission is failed for its runtime while it is within the limit.
RuntimeLimitKept == tooOld = {}

=============================================================================
