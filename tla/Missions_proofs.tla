-------------------------- MODULE Missions_proofs --------------------------
(***************************************************************************)
(* Proofs about Missions, for every number of missions, requests, steps,   *)
(* hours, crashes and failing statements.                                  *)
(***************************************************************************)
EXTENDS Missions, TLAPS

\* Whatever the worker or a request holds is a mission that exists.
HoldInv ==
  /\ worker.at # "idle" => worker.mission \in M /\ status[worker.mission] # "none"
  /\ \A r \in Requests : req[r].at # "idle" => req[r].mission \in M /\ status[req[r].mission] # "none"

\* A mission with a row has a plan; its progress stays within the cap and has a result
\* for each step, and more only for statements that failed; a completed one reached it.
StepInv ==
  \A m \in M :
    /\ status[m] # "none" => plan[m] \in Plans
    /\ status[m] = "none" => step[m] = 0
    /\ step[m] <= results[m] /\ results[m] <= step[m] + faults
    /\ step[m] <= Cap(m)
    /\ status[m] = "completed" => step[m] = Cap(m)

\* The worker's step has not been recorded (it runs, or it ended and is still to be written).
Unrecorded(m) ==
  /\ worker.mission = m
  /\ worker.at \in {"run", "record"} \/ (worker.at = "failed" /\ step[m] = worker.seen)

\* The worker's step is the next one of its mission until it is recorded, its list is the
\* row's, with its own result when it has one.
WorkInv ==
  LET m == worker.mission
  IN  /\ worker.at \in {"run", "record"} => worker.seen = step[m] /\ step[m] < Cap(m)
      /\ worker.at = "run" => worker.list = results[m]
      /\ worker.at = "record" => worker.list = results[m] + 1
      /\ worker.at = "readback" => step[m] = worker.seen + 1 /\ worker.list = results[m]
      /\ worker.at = "failed" =>
           /\ worker.list <= worker.seen + faults
           /\ \/ worker.seen = step[m] /\ step[m] < Cap(m) /\ worker.list \in {results[m], results[m] + 1}
              \/ step[m] = worker.seen + 1 /\ worker.list = results[m]
      /\ worker.at = "complete" => step[m] = Cap(m)

Busy(m) == IF Unrecorded(m) THEN 1 ELSE 0

\* Every attempt but the unrecorded one is a recorded step, or was cut off by a crash or
\* lost to a failing statement.
AttemptInv ==
  \A m \in M :
    /\ step[m] + Busy(m) <= attempts[m]
    /\ attempts[m] <= step[m] + Busy(m) + crashes + faults

LEMMA TypeStep ==
  ASSUME TypeOK, HoldInv, [Next]_vars
  PROVE  TypeOK' /\ HoldInv'
<1> USE MissionsAssumption
    DEF TypeOK, HoldInv, Status, Terminal, Ops, IdleWorker, IdleReq, Fault, row, env, hist
<1>1. ASSUME NEW r \in Requests, NEW m \in M, Create(r, m)
      PROVE  TypeOK' /\ HoldInv'
  BY <1>1 DEF Create
<1>2. ASSUME NEW r \in Requests, NEW m \in M, NEW op \in Ops, Ask(r, op, m)
      PROVE  TypeOK' /\ HoldInv'
  BY <1>2 DEF Ask, Accepts
<1>3. ASSUME NEW r \in Requests, RunCheck(r)
      PROVE  TypeOK' /\ HoldInv'
  BY <1>3 DEF RunCheck
<1>4. ASSUME NEW r \in Requests, Write(r)
      PROVE  TypeOK' /\ HoldInv'
  BY <1>4 DEF Write, Writes
<1>5. CASE Tick
  <2>1. PICK m \in M : /\ status[m] \in {"running", "pending"}
                       /\ worker' = [IdleWorker EXCEPT !.at = "picked", !.mission = m]
    BY <1>5 DEF Tick
  <2>2. worker' = [at |-> "picked", mission |-> m, seen |-> 0, list |-> 0]
    BY <2>1
  <2>3. UNCHANGED <<row, age, req, env, hist>>
    BY <1>5 DEF Tick
  <2>4. QED BY <2>1, <2>2, <2>3
<1>6. CASE ReadMission
  <2>1. PICK m \in M : m = worker.mission /\ status[m] # "none" /\ worker.at = "picked"
    BY <1>6 DEF ReadMission
  <2>2. UNCHANGED <<row, age, req, env, tooOld>>
    BY <1>6 DEF ReadMission
  <2>3. CASE worker' = IdleWorker /\ attempts' = attempts
    BY <2>1, <2>2, <2>3
  <2>4. CASE worker' = [worker EXCEPT !.at = "expire"] /\ attempts' = attempts
    <3>1. worker' = [at |-> "expire", mission |-> m, seen |-> worker.seen, list |-> worker.list]
      BY <2>1, <2>4
    <3>2. QED BY <2>1, <2>2, <2>4, <3>1
  <2>5. CASE step[m] >= Cap(m) /\ worker' = [worker EXCEPT !.at = "complete"] /\ attempts' = attempts
    <3>1. worker' = [at |-> "complete", mission |-> m, seen |-> worker.seen, list |-> worker.list]
      BY <2>1, <2>5
    <3>2. QED BY <2>1, <2>2, <2>5, <3>1
  <2>6. CASE /\ step[m] < Cap(m) /\ worker' = [worker EXCEPT !.at = "run", !.seen = step[m], !.list = results[m]]
             /\ attempts' = [attempts EXCEPT ![m] = attempts[m] + 1]
    <3>1. worker' = [at |-> "run", mission |-> m, seen |-> step[m], list |-> results[m]]
      BY <2>1, <2>6
    <3>2. QED BY <2>1, <2>2, <2>6, <3>1
  <2>7. QED
    BY ONLY <1>6, <2>1, <2>3, <2>4, <2>5, <2>6 DEF ReadMission
<1>7. CASE Expire
  BY <1>7 DEF Expire
<1>8. CASE Complete
  BY <1>8 DEF Complete
<1>9. CASE StepReturns
  <2>1. worker' = [at |-> "record", mission |-> worker.mission, seen |-> worker.seen, list |-> worker.list + 1]
    BY <1>9 DEF StepReturns
  <2>2. worker.list + 1 \in Nat /\ worker.mission \in M /\ worker.seen \in Nat /\ status[worker.mission] # "none"
    BY <1>9 DEF StepReturns
  <2>3. UNCHANGED <<row, age, req, env, hist>>
    BY <1>9 DEF StepReturns
  <2>4. QED BY <2>1, <2>2, <2>3
<1>10. CASE StepRaises
  BY <1>10 DEF StepRaises
<1>11. CASE Record
  BY <1>11 DEF Record, Cap
<1>12. CASE ReadBack
  BY <1>12 DEF ReadBack
<1>13. CASE RecordFailure
  BY <1>13 DEF RecordFailure
<1>14. CASE Swallowed
  BY <1>14 DEF Swallowed
<1>15. CASE Hour
  BY <1>15 DEF Hour
<1>16. CASE CrashAndReap
  BY <1>16 DEF CrashAndReap
<1>17. CASE UNCHANGED vars
  BY <1>17 DEF vars
<1>18. QED
  BY <1>1, <1>2, <1>3, <1>4, <1>5, <1>6, <1>7, <1>8, <1>9, <1>10, <1>11, <1>12, <1>13,
     <1>14, <1>15, <1>16, <1>17 DEF Next,
     WorkerStep, Finish

\* Every variable keeps its type.
THEOREM TypeCorrect == Spec => [](TypeOK /\ HoldInv)
<1>1. Init => TypeOK /\ HoldInv
  BY MissionsAssumption DEF Init, TypeOK, HoldInv, Status, Terminal, Ops, IdleWorker, IdleReq
<1>2. QED BY <1>1, TypeStep, PTL DEF Spec

LEMMA CapType == TypeOK => \A m \in M : plan[m] \in Nat /\ Cap(m) \in Nat
<1> SUFFICES ASSUME TypeOK, NEW m \in M PROVE plan[m] \in Nat /\ Cap(m) \in Nat
  OBVIOUS
<1>1. plan[m] \in Plans \cup {0}
  BY DEF TypeOK
<1>2. \A n \in Plans : n \in Nat
  BY MissionsAssumption
<1>3. CASE plan[m] \in Plans
  BY <1>2, <1>3, MissionsAssumption DEF Cap
<1>4. CASE plan[m] = 0
  BY <1>4, MissionsAssumption DEF Cap
<1>5. QED BY <1>1, <1>3, <1>4

LEMMA ProgressStep ==
  ASSUME TypeOK, HoldInv, StepInv, WorkInv, AttemptInv, [Next]_vars
  PROVE  StepInv' /\ WorkInv' /\ AttemptInv'
<1> USE MissionsAssumption, CapType
    DEF TypeOK, HoldInv, StepInv, WorkInv, AttemptInv, Unrecorded, Busy, Cap, IdleWorker, IdleReq, Fault, row, env, hist
<1>1. ASSUME NEW r \in Requests, NEW m \in M, Create(r, m)
      PROVE  StepInv' /\ WorkInv' /\ AttemptInv'
  BY <1>1 DEF Create
<1>2. ASSUME NEW r \in Requests, NEW m \in M, NEW op \in Ops, Ask(r, op, m)
      PROVE  StepInv' /\ WorkInv' /\ AttemptInv'
  BY <1>2 DEF Ask, Accepts
<1>3. ASSUME NEW r \in Requests, RunCheck(r)
      PROVE  StepInv' /\ WorkInv' /\ AttemptInv'
  BY <1>3 DEF RunCheck
<1>4. ASSUME NEW r \in Requests, Write(r)
      PROVE  StepInv' /\ WorkInv' /\ AttemptInv'
  BY <1>4 DEF Write, Writes
<1>5. CASE Tick
  BY <1>5 DEF Tick
<1>6. CASE ReadMission
  <2>1. PICK m \in M : m = worker.mission /\ status[m] # "none" /\ worker.at = "picked"
    BY <1>6 DEF ReadMission
  <2>2. UNCHANGED <<row, age, req, env, tooOld>>
    BY <1>6 DEF ReadMission
  <2>3. CASE worker' = IdleWorker /\ attempts' = attempts
    BY <2>1, <2>2, <2>3
  <2>4. CASE worker' = [worker EXCEPT !.at = "expire"] /\ attempts' = attempts
    <3>1. worker' = [at |-> "expire", mission |-> m, seen |-> worker.seen, list |-> worker.list]
      BY <2>1, <2>4
    <3>2. QED BY <2>1, <2>2, <2>4, <3>1
  <2>5. CASE step[m] >= Cap(m) /\ worker' = [worker EXCEPT !.at = "complete"] /\ attempts' = attempts
    <3>1. worker' = [at |-> "complete", mission |-> m, seen |-> worker.seen, list |-> worker.list]
      BY <2>1, <2>5
    <3>2. Cap(m) \in Nat /\ step[m] \in Nat /\ step[m] = Cap(m)
      <4>1. Cap(m) \in Nat /\ step[m] \in Nat /\ step[m] <= Cap(m)
        OBVIOUS
      <4>2. QED BY ONLY <2>5, <4>1
    <3>3. StepInv' /\ AttemptInv'
      BY <2>1, <2>2, <2>5, <3>1
    <3>4. WorkInv'
      BY <2>1, <2>2, <3>1, <3>2
    <3>5. QED BY <3>3, <3>4
  <2>6. CASE /\ step[m] < Cap(m) /\ worker' = [worker EXCEPT !.at = "run", !.seen = step[m], !.list = results[m]]
             /\ attempts' = [attempts EXCEPT ![m] = attempts[m] + 1]
    <3>1. worker' = [at |-> "run", mission |-> m, seen |-> step[m], list |-> results[m]]
      BY <2>1, <2>6
    <3>2. QED BY <2>1, <2>2, <2>6, <3>1
  <2>7. QED
    BY ONLY <1>6, <2>1, <2>3, <2>4, <2>5, <2>6 DEF ReadMission
<1>7. CASE Expire
  BY <1>7 DEF Expire
<1>8. CASE Complete
  BY <1>8 DEF Complete
<1>9. CASE StepReturns
  BY <1>9 DEF StepReturns
<1>10. CASE StepRaises
  BY <1>10 DEF StepRaises
<1>11. CASE Record
  <2>1. PICK m \in M : m = worker.mission /\ worker.at = "record"
    BY <1>11 DEF Record
  <2>2. /\ worker.seen = step[m] /\ step[m] < Cap(m) /\ worker.list = results[m] + 1
        /\ Cap(m) \in Nat /\ step[m] \in Nat /\ results[m] \in Nat /\ faults \in Nat
        /\ status[m] # "none"
    BY <2>1
  <2>3. CASE /\ status' = IF step[m] + 1 >= Cap(m) THEN [status EXCEPT ![m] = "completed"] ELSE status
             /\ step' = [step EXCEPT ![m] = step[m] + 1]
             /\ results' = [results EXCEPT ![m] = results[m] + 1]
             /\ worker' = [worker EXCEPT !.at = "readback"] /\ UNCHANGED <<env, plan, attempts>>
    <3>1. worker' = [at |-> "readback", mission |-> m, seen |-> step[m], list |-> results[m] + 1]
      BY <2>1, <2>2, <2>3
    <3>2. /\ step'[m] = step[m] + 1 /\ results'[m] = results[m] + 1
          /\ \A n \in M : n # m => step'[n] = step[n] /\ results'[n] = results[n]
      BY <2>3
    <3>3. \/ status' = status
          \/ step[m] + 1 >= Cap(m) /\ status' = [status EXCEPT ![m] = "completed"]
      BY <2>3
    <3>4. StepInv'
      BY <2>2, <2>3, <3>2, <3>3
    <3>5. WorkInv' /\ AttemptInv'
      BY <2>1, <2>2, <2>3, <3>1, <3>2
    <3>6. QED BY <3>4, <3>5
  <2>4. CASE Fault /\ worker' = [worker EXCEPT !.at = "failed"] /\ UNCHANGED <<status, step, results, plan, attempts>>
    <3>1. worker' = [at |-> "failed", mission |-> m, seen |-> step[m], list |-> results[m] + 1]
      BY <2>1, <2>2, <2>4
    <3>2. QED BY <2>1, <2>2, <2>4, <3>1
  <2>5. QED BY <1>11, <2>1, <2>2, <2>3, <2>4 DEF Record
<1>12. CASE ReadBack
  BY <1>12 DEF ReadBack
<1>13. CASE RecordFailure
  BY <1>13 DEF RecordFailure
<1>14. CASE Swallowed
  BY <1>14 DEF Swallowed
<1>15. CASE Hour
  BY <1>15 DEF Hour
<1>16. CASE CrashAndReap
  BY <1>16 DEF CrashAndReap
<1>17. CASE UNCHANGED vars
  BY <1>17 DEF vars
<1>18. QED
  BY <1>1, <1>2, <1>3, <1>4, <1>5, <1>6, <1>7, <1>8, <1>9, <1>10, <1>11, <1>12, <1>13,
     <1>14, <1>15, <1>16, <1>17 DEF Next,
     WorkerStep, Finish

\* The inductive invariant: existence, progress, the worker's step, the attempts.
IInv == TypeOK /\ HoldInv /\ StepInv /\ WorkInv /\ AttemptInv

LEMMA Inductive == Spec => []IInv
<1>1. Init => StepInv /\ WorkInv /\ AttemptInv
  BY MissionsAssumption DEF Init, StepInv, WorkInv, AttemptInv, Unrecorded, Busy, Cap, IdleWorker
<1>2. QED BY <1>1, TypeCorrect, ProgressStep, PTL DEF Spec, IInv

\* A completed mission has attempted and reported every step of its plan up to the cap.
THEOREM CompletedAttempted == Spec => []CompletedMeansAttempted
<1>1. IInv => CompletedMeansAttempted
  BY CapType DEF IInv, TypeOK, StepInv, AttemptInv, Busy, CompletedMeansAttempted
<1>2. QED BY <1>1, Inductive, PTL

\* No mission executes a step twice or beyond the cap, except for the crashes that cut a
\* step off and the failing statements that kept it from being recorded.
THEOREM NoExtraSteps == Spec => []StepsCapped
<1>1. IInv => StepsCapped
  BY CapType, MissionsAssumption DEF IInv, TypeOK, StepInv, WorkInv, AttemptInv, Unrecorded, Busy, Cap, StepsCapped
<1>2. QED BY <1>1, Inductive, PTL

\* A mission that is over and at rest is never touched again.
LEMMA RestStep ==
  ASSUME TypeOK, HoldInv, [Next]_vars
  PROVE  \A m \in M : (status[m] \in Terminal /\ Quiet(m)) => (status[m]' = status[m] /\ Quiet(m)')
<1> SUFFICES ASSUME NEW k \in M, status[k] \in Terminal, Quiet(k)
             PROVE  status[k]' = status[k] /\ Quiet(k)'
  OBVIOUS
<1> USE DEF TypeOK, HoldInv, Terminal, Quiet, IdleWorker, IdleReq, Fault, row, env, hist
<1>1. ASSUME NEW r \in Requests, NEW m \in M, Create(r, m)
      PROVE  status[k]' = status[k] /\ Quiet(k)'
  BY <1>1 DEF Create
<1>2. ASSUME NEW r \in Requests, NEW m \in M, NEW op \in Ops, Ask(r, op, m)
      PROVE  status[k]' = status[k] /\ Quiet(k)'
  BY <1>2 DEF Ask, Accepts, Ops
<1>3. ASSUME NEW r \in Requests, RunCheck(r)
      PROVE  status[k]' = status[k] /\ Quiet(k)'
  BY <1>3 DEF RunCheck
<1>4. ASSUME NEW r \in Requests, Write(r)
      PROVE  status[k]' = status[k] /\ Quiet(k)'
  BY <1>4 DEF Write, Writes
<1>5. CASE Tick
  BY <1>5 DEF Tick
<1>6. CASE ReadMission
  <2>1. PICK m \in M : m = worker.mission /\ status[m] # "none" /\ worker.at = "picked"
    BY <1>6 DEF ReadMission
  <2>2. UNCHANGED <<row, age, req, env, tooOld>>
    BY <1>6 DEF ReadMission
  <2>3. CASE worker' = IdleWorker /\ attempts' = attempts
    BY <2>1, <2>2, <2>3
  <2>4. CASE worker' = [worker EXCEPT !.at = "expire"] /\ attempts' = attempts
    <3>1. worker' = [at |-> "expire", mission |-> m, seen |-> worker.seen, list |-> worker.list]
      BY <2>1, <2>4
    <3>2. QED BY <2>1, <2>2, <2>4, <3>1
  <2>5. CASE step[m] >= Cap(m) /\ worker' = [worker EXCEPT !.at = "complete"] /\ attempts' = attempts
    <3>1. worker' = [at |-> "complete", mission |-> m, seen |-> worker.seen, list |-> worker.list]
      BY <2>1, <2>5
    <3>2. QED BY <2>1, <2>2, <2>5, <3>1
  <2>6. CASE /\ step[m] < Cap(m) /\ worker' = [worker EXCEPT !.at = "run", !.seen = step[m], !.list = results[m]]
             /\ attempts' = [attempts EXCEPT ![m] = attempts[m] + 1]
    <3>1. worker' = [at |-> "run", mission |-> m, seen |-> step[m], list |-> results[m]]
      BY <2>1, <2>6
    <3>2. QED BY <2>1, <2>2, <2>6, <3>1
  <2>7. QED
    BY ONLY <1>6, <2>1, <2>3, <2>4, <2>5, <2>6 DEF ReadMission
<1>7. CASE Expire
  BY <1>7 DEF Expire
<1>8. CASE Complete
  BY <1>8 DEF Complete
<1>9. CASE StepReturns
  BY <1>9 DEF StepReturns
<1>10. CASE StepRaises
  BY <1>10 DEF StepRaises
<1>11. CASE Record
  BY <1>11 DEF Record
<1>12. CASE ReadBack
  BY <1>12 DEF ReadBack
<1>13. CASE RecordFailure
  BY <1>13 DEF RecordFailure
<1>14. CASE Swallowed
  BY <1>14 DEF Swallowed
<1>15. CASE Hour
  BY <1>15 DEF Hour
<1>16. CASE CrashAndReap
  BY <1>16 DEF CrashAndReap
<1>17. CASE UNCHANGED vars
  BY <1>17 DEF vars
<1>18. QED
  BY <1>1, <1>2, <1>3, <1>4, <1>5, <1>6, <1>7, <1>8, <1>9, <1>10, <1>11, <1>12, <1>13,
     <1>14, <1>15, <1>16, <1>17 DEF Next,
     WorkerStep, Finish

THEOREM OverStaysOver == Spec => OverForGood
<1>1. TypeOK /\ HoldInv /\ [Next]_vars =>
        [\A m \in M : (status[m] \in Terminal /\ Quiet(m)) => (status[m]' = status[m] /\ Quiet(m)')]_vars
  BY RestStep
<1>2. QED BY <1>1, TypeCorrect, PTL DEF Spec, OverForGood

\* A step that changes the progress of a mission is a record of the worker's own step.
LEMMA OrderStep ==
  ASSUME IInv, [Next]_vars, NEW m \in M
  PROVE  /\ step'[m] # step[m] =>
              /\ step'[m] = step[m] + 1 /\ step[m] < Cap(m)
              /\ attempts[m] > step[m] /\ results'[m] > results[m]
         /\ results'[m] # results[m] =>
              /\ results'[m] \in {results[m] + 1, results[m] + 2}
              /\ status'[m] # "failed" => results'[m] - results[m] = step'[m] - step[m]
<1> USE DEF IInv, TypeOK, HoldInv, WorkInv
<1>1. CASE step'[m] = step[m] /\ results'[m] = results[m]
  BY <1>1
<1>2. CASE ~(step'[m] = step[m] /\ results'[m] = results[m])
  <2>1. Record \/ RecordFailure
    BY <1>2 DEF Next, WorkerStep, Finish, Create, Ask, RunCheck, Write, Tick, ReadMission, Expire,
           Complete, StepReturns, StepRaises, ReadBack, Swallowed, Hour, CrashAndReap, vars, row
  <2>2. /\ worker.at \in {"record", "failed"} /\ worker.mission = m
        /\ step' = [step EXCEPT ![m] = worker.seen + 1]
    BY <1>2, <2>1 DEF Record, RecordFailure
  <2>3. step[m] + Busy(m) <= attempts[m] /\ step[m] \in Nat /\ attempts[m] \in Nat /\ results[m] \in Nat
    BY DEF AttemptInv, Busy
  <2>4. CASE Record
    <3>1. results' = [results EXCEPT ![m] = worker.list] /\ worker.at = "record"
      BY <1>2, <2>2, <2>4 DEF Record
    <3>2. worker.seen = step[m] /\ step[m] < Cap(m) /\ worker.list = results[m] + 1
      BY <2>2, <3>1
    <3>3. Busy(m) = 1
      BY <2>2, <3>1 DEF Busy, Unrecorded
    <3>4. step'[m] = step[m] + 1 /\ results'[m] = results[m] + 1 /\ attempts[m] > step[m]
      BY <2>2, <2>3, <3>1, <3>2, <3>3
    <3>5. QED BY <2>3, <3>2, <3>4
  <2>5. CASE RecordFailure
    <3>1. /\ results' = [results EXCEPT ![m] = worker.list + 1] /\ worker.at = "failed"
          /\ status'[m] = "failed"
      BY <2>2, <2>5 DEF RecordFailure
    <3>2. step'[m] = worker.seen + 1 /\ results'[m] = worker.list + 1
      BY <2>2, <3>1
    <3>3. CASE worker.seen = step[m] /\ step[m] < Cap(m) /\ worker.list \in {results[m], results[m] + 1}
      <4>1. Busy(m) = 1
        BY <2>2, <3>1, <3>3 DEF Busy, Unrecorded
      <4>2. QED BY <2>3, <3>1, <3>2, <3>3, <4>1
    <3>4. CASE step[m] = worker.seen + 1 /\ worker.list = results[m]
      BY <2>3, <3>1, <3>2, <3>4
    <3>5. QED BY <2>2, <3>1, <3>3, <3>4
  <2>6. QED BY <2>1, <2>4, <2>5
<1>3. QED BY <1>1, <1>2

\* The recorded progress grows by one attempted step at a time, within the cap and with a
\* result; results outrun the steps only together with the mission failing.
THEOREM RecordsSteps == Spec => StepsInOrder
<1>1. IInv /\ [Next]_vars =>
        [\A m \in M :
           /\ step'[m] # step[m] =>
                /\ step'[m] = step[m] + 1 /\ step[m] < Cap(m)
                /\ attempts[m] > step[m] /\ results'[m] > results[m]
           /\ results'[m] # results[m] =>
                /\ results'[m] \in {results[m] + 1, results[m] + 2}
                /\ status'[m] # "failed" => results'[m] - results[m] = step'[m] - step[m]]_vars
  BY OrderStep
<1>2. QED BY <1>1, Inductive, PTL DEF Spec, StepsInOrder
=============================================================================
