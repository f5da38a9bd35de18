-------------------------- MODULE StoredPlans_proofs --------------------------
(***************************************************************************)
(* The status of a stored plan under any number of requests, steps and     *)
(* faults: what "executing" and "done" say of the executions, and how many *)
(* of them there can be.                                                   *)
(***************************************************************************)
EXTENDS StoredPlans, TLAPS

(* The event loop belongs to the handlers of PATCH and execute between     *)
(* their check and their write.                                            *)
LoopHeld ==
  \A q \in Edits \cup Executions : loop = q <=> pc[q] \in {"read", "write", "mark", "after"}

(* An execution has run all its steps when it ends, and not before.        *)
StepsCounted ==
  \A e \in Executions :
    /\ pc[e] \in {"idle", "mark"} => ran[e] = 0
    /\ pc[e] = "run" => ran[e] < Steps
    /\ pc[e] = "end" => ran[e] = Steps

TypeInv == TypeOK /\ LoopHeld /\ StepsCounted

(* An edit that is going to put back "executing" does so while an          *)
(* execution works: the execution needs the event loop to end.             *)
EditsSeeWork ==
  \A q \in Edits :
    pc[q] = "write" /\ seen[q] = "executing"
      => faults > 0 \/ "edit" \in forced \/ \E e \in Executions : Working(e)

(* A status of "done" that somebody is going to put back was reached.      *)
SeenDoneMeansPassed ==
  \A q \in Requests : seen[q] = "done" => passed \/ "edit" \in forced

(* Until an approval is written over "executing", the row of a working     *)
(* execution says so, which keeps every other request away from the loop   *)
(* and from starting.                                                      *)
Alone ==
  "approval" \notin forced
    => \A e \in Executions :
         Working(e) => /\ status = "executing"
                       /\ loop = None
                       /\ pc[e] = "saving" => seen[e] = "executing"
                       /\ \A d \in Executions : Working(d) => d = e

PlanInv ==
  /\ TypeInv
  /\ ExecutingMeansWorking /\ EditsSeeWork
  /\ DoneMeansPassed /\ SeenDoneMeansPassed
  /\ Alone

USE PlanAssumption

LEMMA PlanInit == Init => PlanInv
<1> SUFFICES ASSUME Init PROVE PlanInv
  OBVIOUS
<1> USE DEF Init
<1>1. TypeOK
  <2>1. pc \in [Requests -> ApprovalPlaces \cup EditPlaces \cup ExecutionPlaces]
    BY DEF ApprovalPlaces, EditPlaces, ExecutionPlaces
  <2>2. \A a \in Approvals : pc[a] \in ApprovalPlaces
    BY DEF ApprovalPlaces, Requests
  <2>3. /\ \A q \in Edits : pc[q] \in EditPlaces
        /\ \A e \in Executions : pc[e] \in ExecutionPlaces
    BY DEF EditPlaces, ExecutionPlaces, Requests
  <2>4. status \in Statuses /\ seen \in [Requests -> Statuses]
    BY DEF Statuses
  <2>5. ran \in [Executions -> 0 .. Steps] /\ faults \in 0 .. MaxFaults
    OBVIOUS
  <2> QED
    BY <2>1, <2>2, <2>3, <2>4, <2>5 DEF TypeOK
<1>2. LoopHeld
  BY DEF LoopHeld, Requests
<1>3. StepsCounted
  BY DEF StepsCounted, Requests
<1>4. ExecutingMeansWorking /\ EditsSeeWork /\ DoneMeansPassed /\ SeenDoneMeansPassed
  BY DEF ExecutingMeansWorking, EditsSeeWork, DoneMeansPassed, SeenDoneMeansPassed, Requests
<1>5. Alone
  BY DEF Alone, Working, Requests
<1> QED
  BY <1>1, <1>2, <1>3, <1>4, <1>5 DEF PlanInv, TypeInv

(* Each request keeps to its places, and the loop to its holder.           *)
LEMMA TypeStep == TypeInv /\ [Next]_vars => TypeInv'
<1> SUFFICES ASSUME TypeInv, [Next]_vars PROVE TypeInv'
  OBVIOUS
<1> USE DEF TypeInv, TypeOK, LoopHeld, StepsCounted, Statuses, ApprovalPlaces, EditPlaces,
           ExecutionPlaces, Requests
<1>1. CASE UNCHANGED vars
  BY <1>1 DEF vars
<1>2. ASSUME NEW a \in Approvals, Validate(a) PROVE TypeInv'
  BY <1>2 DEF Go, Validate
<1>3. ASSUME NEW a \in Approvals, CheckApprovable(a) PROVE TypeInv'
  BY <1>3 DEF Go, CheckApprovable
<1>4. ASSUME NEW a \in Approvals, Approve(a) PROVE TypeInv'
  BY <1>4 DEF Go, Approve
<1>5. ASSUME NEW q \in Edits, BeginEdit(q) PROVE TypeInv'
  BY <1>5 DEF Go, BeginEdit, TakeLoop
<1>6. ASSUME NEW q \in Edits, ReadToEdit(q) PROVE TypeInv'
  BY <1>6 DEF Go, ReadToEdit
<1>7. ASSUME NEW q \in Edits, WriteEdit(q) PROVE TypeInv'
  BY <1>7 DEF Go, WriteEdit, GiveLoop
<1>8. ASSUME NEW e \in Executions, BeginExecution(e) PROVE TypeInv'
  BY <1>8 DEF Go, BeginExecution, TakeLoop
<1>9. ASSUME NEW e \in Executions, MarkExecuting(e) PROVE TypeInv'
  BY <1>9 DEF Go, MarkExecuting, GiveLoop, Fault
<1>10. ASSUME NEW e \in Executions, RunStep(e) PROVE TypeInv'
  BY <1>10 DEF Go, RunStep
<1>11. ASSUME NEW e \in Executions, ReadToSave(e) PROVE TypeInv'
  BY <1>11 DEF Go, ReadToSave
<1>12. ASSUME NEW e \in Executions, SaveProgress(e) PROVE TypeInv'
  BY <1>12 DEF Go, SaveProgress, AfterSave
<1>13. ASSUME NEW e \in Executions, SaveFails(e) PROVE TypeInv'
  BY <1>13 DEF Go, SaveFails, AfterSave
<1>14. ASSUME NEW e \in Executions, EndExecution(e) PROVE TypeInv'
  BY <1>14 DEF Go, EndExecution, TakeLoop
<1>15. ASSUME NEW e \in Executions, Respond(e) PROVE TypeInv'
  BY <1>15 DEF Go, Respond, GiveLoop
<1>16. ASSUME NEW e \in Executions, FailExecution(e) PROVE TypeInv'
  BY <1>16 DEF Go, FailExecution, GiveLoop
<1>17. ASSUME NEW e \in Executions, EndFails(e) PROVE TypeInv'
  BY <1>17 DEF Go, EndFails, Fault
<1>18. CASE Crash
  BY <1>18 DEF Crash, Fault
<1> QED
  BY <1>1, <1>2, <1>3, <1>4, <1>5, <1>6, <1>7, <1>8, <1>9, <1>10, <1>11, <1>12, <1>13, <1>14, <1>15, <1>16, <1>17, <1>18
     DEF Next, ApprovalStep, EditStep, ExecutionStep

(* Who puts "executing" back works, or waits for one that does.            *)
LEMMA MarkStep == TypeInv /\ ExecutingMeansWorking /\ EditsSeeWork /\ [Next]_vars => (ExecutingMeansWorking /\ EditsSeeWork)'
<1> SUFFICES ASSUME TypeInv /\ ExecutingMeansWorking /\ EditsSeeWork, [Next]_vars PROVE (ExecutingMeansWorking /\ EditsSeeWork)'
  OBVIOUS
<1> USE DEF TypeInv, TypeOK, LoopHeld, ExecutingMeansWorking, EditsSeeWork, Working, Statuses,
           ApprovalPlaces, EditPlaces, ExecutionPlaces, Requests
<1>1. CASE UNCHANGED vars
  BY <1>1 DEF vars
<1>2. ASSUME NEW a \in Approvals, Validate(a) PROVE (ExecutingMeansWorking /\ EditsSeeWork)'
  BY <1>2 DEF Go, Validate
<1>3. ASSUME NEW a \in Approvals, CheckApprovable(a) PROVE (ExecutingMeansWorking /\ EditsSeeWork)'
  BY <1>3 DEF Go, CheckApprovable
<1>4. ASSUME NEW a \in Approvals, Approve(a) PROVE (ExecutingMeansWorking /\ EditsSeeWork)'
  BY <1>4 DEF Go, Approve
<1>5. ASSUME NEW q \in Edits, BeginEdit(q) PROVE (ExecutingMeansWorking /\ EditsSeeWork)'
  BY <1>5 DEF Go, BeginEdit, TakeLoop
<1>6. ASSUME NEW q \in Edits, ReadToEdit(q) PROVE (ExecutingMeansWorking /\ EditsSeeWork)'
  BY <1>6 DEF Go, ReadToEdit
<1>7. ASSUME NEW q \in Edits, WriteEdit(q) PROVE (ExecutingMeansWorking /\ EditsSeeWork)'
  BY <1>7 DEF Go, WriteEdit, GiveLoop
<1>8. ASSUME NEW e \in Executions, BeginExecution(e) PROVE (ExecutingMeansWorking /\ EditsSeeWork)'
  BY <1>8 DEF Go, BeginExecution, TakeLoop
<1>9. ASSUME NEW e \in Executions, MarkExecuting(e) PROVE (ExecutingMeansWorking /\ EditsSeeWork)'
  BY <1>9 DEF Go, MarkExecuting, GiveLoop, Fault
<1>10. ASSUME NEW e \in Executions, RunStep(e) PROVE (ExecutingMeansWorking /\ EditsSeeWork)'
  BY <1>10 DEF Go, RunStep
<1>11. ASSUME NEW e \in Executions, ReadToSave(e) PROVE (ExecutingMeansWorking /\ EditsSeeWork)'
  BY <1>11 DEF Go, ReadToSave
<1>12. ASSUME NEW e \in Executions, SaveProgress(e) PROVE (ExecutingMeansWorking /\ EditsSeeWork)'
  BY <1>12 DEF Go, SaveProgress, AfterSave
<1>13. ASSUME NEW e \in Executions, SaveFails(e) PROVE (ExecutingMeansWorking /\ EditsSeeWork)'
  BY <1>13 DEF Go, SaveFails, AfterSave
<1>14. ASSUME NEW e \in Executions, EndExecution(e) PROVE (ExecutingMeansWorking /\ EditsSeeWork)'
  BY <1>14 DEF Go, EndExecution, TakeLoop
<1>15. ASSUME NEW e \in Executions, Respond(e) PROVE (ExecutingMeansWorking /\ EditsSeeWork)'
  BY <1>15 DEF Go, Respond, GiveLoop
<1>16. ASSUME NEW e \in Executions, FailExecution(e) PROVE (ExecutingMeansWorking /\ EditsSeeWork)'
  BY <1>16 DEF Go, FailExecution, GiveLoop
<1>17. ASSUME NEW e \in Executions, EndFails(e) PROVE (ExecutingMeansWorking /\ EditsSeeWork)'
  BY <1>17 DEF Go, EndFails, Fault
<1>18. CASE Crash
  BY <1>18 DEF Crash, Fault
<1> QED
  BY <1>1, <1>2, <1>3, <1>4, <1>5, <1>6, <1>7, <1>8, <1>9, <1>10, <1>11, <1>12, <1>13, <1>14, <1>15, <1>16, <1>17, <1>18
     DEF Next, ApprovalStep, EditStep, ExecutionStep

(* "done" is written by an execution that passed, or put back.             *)
LEMMA DoneStep == TypeInv /\ DoneMeansPassed /\ SeenDoneMeansPassed /\ [Next]_vars => (DoneMeansPassed /\ SeenDoneMeansPassed)'
<1> SUFFICES ASSUME TypeInv /\ DoneMeansPassed /\ SeenDoneMeansPassed, [Next]_vars PROVE (DoneMeansPassed /\ SeenDoneMeansPassed)'
  OBVIOUS
<1> USE DEF TypeInv, TypeOK, DoneMeansPassed, SeenDoneMeansPassed, Statuses, Requests
<1>1. CASE UNCHANGED vars
  BY <1>1 DEF vars
<1>2. ASSUME NEW a \in Approvals, Validate(a) PROVE (DoneMeansPassed /\ SeenDoneMeansPassed)'
  BY <1>2 DEF Go, Validate
<1>3. ASSUME NEW a \in Approvals, CheckApprovable(a) PROVE (DoneMeansPassed /\ SeenDoneMeansPassed)'
  BY <1>3 DEF Go, CheckApprovable
<1>4. ASSUME NEW a \in Approvals, Approve(a) PROVE (DoneMeansPassed /\ SeenDoneMeansPassed)'
  BY <1>4 DEF Go, Approve
<1>5. ASSUME NEW q \in Edits, BeginEdit(q) PROVE (DoneMeansPassed /\ SeenDoneMeansPassed)'
  BY <1>5 DEF Go, BeginEdit, TakeLoop
<1>6. ASSUME NEW q \in Edits, ReadToEdit(q) PROVE (DoneMeansPassed /\ SeenDoneMeansPassed)'
  BY <1>6 DEF Go, ReadToEdit
<1>7. ASSUME NEW q \in Edits, WriteEdit(q) PROVE (DoneMeansPassed /\ SeenDoneMeansPassed)'
  BY <1>7 DEF Go, WriteEdit, GiveLoop
<1>8. ASSUME NEW e \in Executions, BeginExecution(e) PROVE (DoneMeansPassed /\ SeenDoneMeansPassed)'
  BY <1>8 DEF Go, BeginExecution, TakeLoop
<1>9. ASSUME NEW e \in Executions, MarkExecuting(e) PROVE (DoneMeansPassed /\ SeenDoneMeansPassed)'
  BY <1>9 DEF Go, MarkExecuting, GiveLoop, Fault
<1>10. ASSUME NEW e \in Executions, RunStep(e) PROVE (DoneMeansPassed /\ SeenDoneMeansPassed)'
  BY <1>10 DEF Go, RunStep
<1>11. ASSUME NEW e \in Executions, ReadToSave(e) PROVE (DoneMeansPassed /\ SeenDoneMeansPassed)'
  BY <1>11 DEF Go, ReadToSave
<1>12. ASSUME NEW e \in Executions, SaveProgress(e) PROVE (DoneMeansPassed /\ SeenDoneMeansPassed)'
  BY <1>12 DEF Go, SaveProgress, AfterSave
<1>13. ASSUME NEW e \in Executions, SaveFails(e) PROVE (DoneMeansPassed /\ SeenDoneMeansPassed)'
  BY <1>13 DEF Go, SaveFails, AfterSave
<1>14. ASSUME NEW e \in Executions, EndExecution(e) PROVE (DoneMeansPassed /\ SeenDoneMeansPassed)'
  BY <1>14 DEF Go, EndExecution, TakeLoop
<1>15. ASSUME NEW e \in Executions, Respond(e) PROVE (DoneMeansPassed /\ SeenDoneMeansPassed)'
  BY <1>15 DEF Go, Respond, GiveLoop
<1>16. ASSUME NEW e \in Executions, FailExecution(e) PROVE (DoneMeansPassed /\ SeenDoneMeansPassed)'
  BY <1>16 DEF Go, FailExecution, GiveLoop
<1>17. ASSUME NEW e \in Executions, EndFails(e) PROVE (DoneMeansPassed /\ SeenDoneMeansPassed)'
  BY <1>17 DEF Go, EndFails, Fault
<1>18. CASE Crash
  BY <1>18 DEF Crash, Fault
<1> QED
  BY <1>1, <1>2, <1>3, <1>4, <1>5, <1>6, <1>7, <1>8, <1>9, <1>10, <1>11, <1>12, <1>13, <1>14, <1>15, <1>16, <1>17, <1>18
     DEF Next, ApprovalStep, EditStep, ExecutionStep

(* A working execution keeps all others out until an approval lets them in.*)
LEMMA AloneStep == TypeInv /\ Alone /\ [Next]_vars => Alone'
<1> SUFFICES ASSUME TypeInv /\ Alone, [Next]_vars PROVE Alone'
  OBVIOUS
<1> USE DEF TypeInv, TypeOK, LoopHeld, Alone, Working, Statuses, ApprovalPlaces, EditPlaces,
           ExecutionPlaces, Requests
<1>1. CASE UNCHANGED vars
  BY <1>1 DEF vars
<1>2. ASSUME NEW a \in Approvals, Validate(a) PROVE Alone'
  BY <1>2 DEF Go, Validate
<1>3. ASSUME NEW a \in Approvals, CheckApprovable(a) PROVE Alone'
  BY <1>3 DEF Go, CheckApprovable
<1>4. ASSUME NEW a \in Approvals, Approve(a) PROVE Alone'
  BY <1>4 DEF Go, Approve
<1>5. ASSUME NEW q \in Edits, BeginEdit(q) PROVE Alone'
  BY <1>5 DEF Go, BeginEdit, TakeLoop
<1>6. ASSUME NEW q \in Edits, ReadToEdit(q) PROVE Alone'
  BY <1>6 DEF Go, ReadToEdit
<1>7. ASSUME NEW q \in Edits, WriteEdit(q) PROVE Alone'
  BY <1>7 DEF Go, WriteEdit, GiveLoop
<1>8. ASSUME NEW e \in Executions, BeginExecution(e) PROVE Alone'
  BY <1>8 DEF Go, BeginExecution, TakeLoop
<1>9. ASSUME NEW e \in Executions, MarkExecuting(e) PROVE Alone'
  BY <1>9 DEF Go, MarkExecuting, GiveLoop, Fault
<1>10. ASSUME NEW e \in Executions, RunStep(e) PROVE Alone'
  BY <1>10 DEF Go, RunStep
<1>11. ASSUME NEW e \in Executions, ReadToSave(e) PROVE Alone'
  BY <1>11 DEF Go, ReadToSave
<1>12. ASSUME NEW e \in Executions, SaveProgress(e) PROVE Alone'
  BY <1>12 DEF Go, SaveProgress, AfterSave
<1>13. ASSUME NEW e \in Executions, SaveFails(e) PROVE Alone'
  BY <1>13 DEF Go, SaveFails, AfterSave
<1>14. ASSUME NEW e \in Executions, EndExecution(e) PROVE Alone'
  BY <1>14 DEF Go, EndExecution, TakeLoop
<1>15. ASSUME NEW e \in Executions, Respond(e) PROVE Alone'
  BY <1>15 DEF Go, Respond, GiveLoop
<1>16. ASSUME NEW e \in Executions, FailExecution(e) PROVE Alone'
  BY <1>16 DEF Go, FailExecution, GiveLoop
<1>17. ASSUME NEW e \in Executions, EndFails(e) PROVE Alone'
  BY <1>17 DEF Go, EndFails, Fault
<1>18. CASE Crash
  BY <1>18 DEF Crash, Fault
<1> QED
  BY <1>1, <1>2, <1>3, <1>4, <1>5, <1>6, <1>7, <1>8, <1>9, <1>10, <1>11, <1>12, <1>13, <1>14, <1>15, <1>16, <1>17, <1>18
     DEF Next, ApprovalStep, EditStep, ExecutionStep

(* The inductive invariant.                                                *)
THEOREM PlanInvariant == Spec => []PlanInv
<1>1. PlanInv /\ [Next]_vars => PlanInv'
  BY TypeStep, MarkStep, DoneStep, AloneStep DEF PlanInv
<1> QED
  BY <1>1, PlanInit, PTL DEF Spec

(* Type correctness, the place of every request included.                  *)
THEOREM PlanTyped == Spec => []TypeOK
<1>1. PlanInv => TypeOK
  BY DEF PlanInv, TypeInv
<1> QED
  BY <1>1, PlanInvariant, PTL

(* No write that puts back a status read earlier leaves an ended plan      *)
(* marked as executing.                                                    *)
THEOREM PlanMarked == Spec => []ExecutingMeansWorking
<1>1. PlanInv => ExecutingMeansWorking
  BY DEF PlanInv
<1> QED
  BY <1>1, PlanInvariant, PTL

(* A plan is done only when an execution passed all its steps or a client  *)
(* asked for the status.                                                   *)
THEOREM PlanDone == Spec => []DoneMeansPassed
<1>1. PlanInv => DoneMeansPassed
  BY DEF PlanInv
<1> QED
  BY <1>1, PlanInvariant, PTL

(* Two executions work at a time only after an approval over "executing".  *)
THEOREM PlanOneExecution == Spec => []OneExecution
<1>1. PlanInv => OneExecution
  BY DEF PlanInv, Alone, OneExecution
<1> QED
  BY <1>1, PlanInvariant, PTL
=============================================================================
