----------------------------- MODULE AgentRuns -----------------------------
(***************************************************************************)
(* Agent runs at the admission gate (autonomous_run of agent_loop.py).  A  *)
(* run takes a slot, then the one lock that serialises generation, and     *)
(* keeps both until it returns.  A run executes the steps of a plan as     *)
(* further calls of autonomous_run, so that these calls pass the same gate *)
(* and want the same lock while the run that waits for them holds a slot   *)
(* and the lock.  The planning block makes the calls on the threads of a   *)
(* pool; the engineering pipeline makes them one by one on the thread of   *)
(* the run, and the lock, an RLock, lets that thread in again.             *)
(***************************************************************************)
EXTENDS AdmissionGate

CONSTANTS Runs,      \* the calls made for a request
          Nested,    \* the calls made for a plan's steps, in the order of their job_ids
          PlanCalls, \* bound on the calls a plan makes: its steps and their second tries
          Workers,   \* threads of the pool that executes a wave of steps
          MaxRounds  \* plans a run may try (structured_retry_max_levels)

ASSUME RunAssumption ==
  /\ Job = Runs \cup Nested /\ Runs \cap Nested = {}
  /\ PlanCalls \in Nat /\ Workers \in Nat \ {0} /\ MaxRounds \in Nat

VARIABLES work,   \* what each call is doing, beside its place at the gate
          lock,   \* the thread that holds llm_serialize_lock, by the call it was made for
          owner,  \* the call whose plan a nested call executes
          left,   \* the calls a call's plan has still to make
          round,  \* the plans the planning block of a call has made
          piped   \* the runs that took the engineering pipeline

runVars == <<work, lock, owner, left, round, piped>>
vars == <<gateVars, runVars>>

Works == {"call", "slot", "lock", "think", "plan", "pipe", "hung", "leave", "over"}

RunsTypeOK ==
  /\ TypeOK
  /\ work \in [Job -> Works]
  /\ lock \in Job \cup {None}
  /\ owner \in [Nested -> Job \cup {None}]
  /\ left \in [Job -> 0 .. PlanCalls]
  /\ round \in [Job -> 0 .. MaxRounds]
  /\ piped \subseteq Runs

Init ==
  /\ GateInit
  /\ work = [j \in Job |-> "call"]
  /\ lock = None
  /\ owner = [j \in Nested |-> None]
  /\ left = [j \in Job |-> 0]
  /\ round = [j \in Job |-> 0]
  /\ piped = {}

Now(j, from, to) == work[j] = from /\ work' = [work EXCEPT ![j] = to]

(* The outcome of asking for a slot: in the queue, or refused outright.    *)
AskSlot(j) ==
  \/ Enter(j) /\ Now(j, "call", "slot")
  \/ RefuseBackground(j) /\ Now(j, "call", "over")

Children(r) == {j \in Nested : owner[j] = r /\ work[j] # "over"}

(* The thread a call runs on: a step of the pipeline runs on its run's.    *)
Thread(j) ==
  IF j \in Nested /\ owner[j] # None /\ work[owner[j]] = "pipe" THEN owner[j] ELSE j

(* The model has only so many nested calls to give out.                    *)
Room(r, n) ==
  Cardinality({j \in Nested : work[j] = "call"})
    >= n + IF r \in Nested THEN left[owner[r]] ELSE 0

(* A memory command is answered before the gate and without the lock.      *)
MemoryCommand(r) ==
  /\ Now(r, "call", "over")
  /\ UNCHANGED <<gateVars, lock, owner, left, round, piped>>

Call(r) == AskSlot(r) /\ UNCHANGED <<lock, owner, left, round, piped>>

(* The next call of a plan.                                                *)
NestedCall(r, j) ==
  /\ left[r] > 0
  /\ work[j] = "call"
  /\ \A k \in Nested : work[k] = "call" => j <= k
  /\ AskSlot(j)
  /\ owner' = [owner EXCEPT ![j] = r]
  /\ left' = [left EXCEPT ![r] = @ - 1]
  /\ UNCHANGED <<lock, round, piped>>

(* A worker of the pool makes it ...                                       *)
StepCall(r, j) ==
  /\ work[r] = "plan" /\ Cardinality(Children(r)) < Workers
  /\ NestedCall(r, j)

(* ... or the pipeline, when the call before it has returned.              *)
PipelineCall(r, j) ==
  /\ work[r] = "pipe" /\ Children(r) = {}
  /\ NestedCall(r, j)

GetSlot(j) ==
  /\ Admit(j) /\ Now(j, "slot", "lock")
  /\ UNCHANGED <<lock, owner, left, round, piped>>

DeadlinePasses(j) == Expire(j) /\ UNCHANGED runVars

(* RuntimeError("system_busy") becomes a result with that status.          *)
Busy(j) ==
  /\ GiveUp(j) /\ Now(j, "slot", "over")
  /\ UNCHANGED <<lock, owner, left, round, piped>>

\* Fault: the calls of a plan may enter the lock their planner holds.
GetLock_Shared(j) ==
  /\ lock \in {None, Thread(j)} \/ (j \in Nested /\ lock = Thread(owner[j]))
  /\ lock' = IF lock = None THEN Thread(j) ELSE lock
  /\ Now(j, "lock", "think")
  /\ UNCHANGED <<gateVars, owner, left, round, piped>>

GetLock(j) ==
  /\ lock \in {None, Thread(j)} /\ lock' = Thread(j)
  /\ Now(j, "lock", "think")
  /\ UNCHANGED <<gateVars, owner, left, round, piped>>

(* A native call of the model never returns.                               *)
Hang(j) ==
  /\ Now(j, "think", "hung")
  /\ UNCHANGED <<gateVars, lock, owner, left, round, piped>>

(* The engineering pipeline makes a plan before the planning block is      *)
(* reached; its steps have skip_engineering_pipeline set.                  *)
Pipeline(r) ==
  /\ r \notin piped /\ round[r] = 0
  /\ Now(r, "think", "pipe")
  /\ \E n \in 1 .. PlanCalls : Room(r, n) /\ left' = [left EXCEPT ![r] = n]
  /\ piped' = piped \cup {r}
  /\ UNCHANGED <<gateVars, lock, owner, round>>

(* The planning block makes a plan and hands it to the task graph; it      *)
(* comes here again when the steps of the last plan were not all good.     *)
Plan(r) ==
  /\ round[r] < MaxRounds
  /\ Now(r, "think", "plan")
  /\ \E n \in 1 .. PlanCalls : Room(r, n) /\ left' = [left EXCEPT ![r] = n]
  /\ round' = [round EXCEPT ![r] = @ + 1]
  /\ UNCHANGED <<gateVars, lock, owner, piped>>

(* Every call of the plan has returned.                                    *)
PlanOver(r) ==
  /\ left[r] = 0 /\ Children(r) = {}
  /\ Now(r, "plan", "think") \/ Now(r, "pipe", "think")
  /\ UNCHANGED <<gateVars, lock, owner, left, round, piped>>

\* Fault: the lock is released outright when a nested call returns.
Return_Drops(j) ==
  /\ Now(j, "think", "leave")
  /\ lock' = None
  /\ UNCHANGED <<gateVars, owner, left, round, piped>>

Return(j) ==
  /\ Now(j, "think", "leave")
  /\ lock' = IF Thread(j) = j THEN None ELSE lock
  /\ UNCHANGED <<gateVars, owner, left, round, piped>>

FreeSlot(j) ==
  /\ Leave(j) /\ Now(j, "leave", "over")
  /\ UNCHANGED <<lock, owner, left, round, piped>>

Next ==
  \/ \E r \in Runs : MemoryCommand(r) \/ Call(r) \/ Pipeline(r)
  \/ \E r \in Runs, j \in Nested : PipelineCall(r, j)
  \/ \E r \in Job, j \in Nested : StepCall(r, j)
  \/ \E j \in Job : \/ GetSlot(j) \/ DeadlinePasses(j) \/ Busy(j) \/ GetLock(j)
                    \/ Plan(j) \/ PlanOver(j)
                    \/ Hang(j) \/ Return(j) \/ FreeSlot(j)

(* Threads run.  Nothing obliges a request to be made, a run to plan, or a *)
(* generation to hang.                                                     *)
Fairness ==
  /\ \A j \in Job : /\ WF_vars(GetSlot(j)) /\ WF_vars(DeadlinePasses(j))
                    /\ WF_vars(Busy(j)) /\ WF_vars(GetLock(j)) /\ WF_vars(PlanOver(j))
                    /\ WF_vars(Return(j)) /\ WF_vars(FreeSlot(j))
                    /\ WF_vars(\E k \in Nested : StepCall(j, k))
  /\ \A r \in Runs : WF_vars(\E j \in Nested : PipelineCall(r, j))

Spec == Init /\ [][Next]_vars /\ Fairness

-----------------------------------------------------------------------------
(* The calls that are under the lock.                                      *)
UnderLock == {j \in Job : work[j] \in {"think", "plan", "pipe", "hung"}}

(* However steps re-enter the lock of their run and leave it again, the    *)
(* thread of every call under the lock holds it, it is not left held when  *)
(* the outermost call returns, and one call at a time is at the model; a   *)
(* call holds a slot from its admission to its end, so none takes the lock *)
(* into the queue (autonomous_run's two context managers).                 *)
LockUnderSlot ==
  /\ \A j \in UnderLock : lock = Thread(j)
  /\ lock # None => lock \in UnderLock
  /\ \A j, k \in Job : work[j] \in {"think", "hung"} /\ work[k] \in {"think", "hung"} => j = k
  /\ \A j \in Job : work[j] \in {"lock", "think", "plan", "pipe", "hung", "leave"}
                      <=> phase[j] = "running"

(* No step that the planning block hands to the task graph ever reaches    *)
(* the model, whatever max_active_runs is: its thread can get a slot, but  *)
(* the lock belongs to the thread that waits for it.  That is not so of    *)
(* the steps of the engineering pipeline, which run on that thread.        *)
StepsNeverGenerate ==
  \A j \in Nested :
    owner[j] # None /\ work[owner[j]] = "plan" => work[j] \in {"slot", "lock", "over"}

(* When every call reads max_active_runs = 1 and no generation hangs, a    *)
(* run comes to an end, one with a plan too: its steps cannot get a slot,  *)
(* and the deadline of each of them is what ends the wait.                 *)
RunsEndWithOneSlot ==
  [](\A j \in Job : limit[j] <= 1 /\ work[j] # "hung")
     => \A r \in Runs : phase[r] = "running" ~> work[r] = "over"
=============================================================================
