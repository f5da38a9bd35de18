----------------------------- MODULE StoredPlans -----------------------------
(***************************************************************************)
(* The life of one durable plan: the status of its row in layla_plans      *)
(* (layla/memory/plans_db.py) under the requests of routers/plans.py.  The *)
(* handlers of PATCH and execute run on the event loop and keep it from    *)
(* their check to their write; an approval runs on a thread of its own,    *)
(* and an execution runs its steps on another and saves progress after     *)
(* each.  Every change of the row is update_layla_plan, which reads all    *)
(* columns and, in a second transaction, writes all of them: whoever does  *)
(* not set the status puts back the one it read.                           *)
(***************************************************************************)
EXTENDS Naturals

CONSTANTS Executions,  \* requests POST /plans/{id}/execute
          Approvals,   \* requests POST /plans/{id}/approve
          Edits,       \* requests PATCH /plans/{id}
          Steps,       \* steps of the plan
          MaxFaults,   \* bound on crashes and on failures nobody repairs
          None

Requests == Executions \cup Approvals \cup Edits

Statuses == {"draft", "approved", "executing", "paused", "done", "blocked"}

ASSUME PlanAssumption ==
  /\ Steps \in Nat \ {0} /\ MaxFaults \in Nat
  /\ Executions \cap Edits = {} /\ Executions \cap Approvals = {}
  /\ Approvals \cap Edits = {}
  /\ None \notin Requests \cup Statuses

VARIABLES status,  \* of the row
          pc,      \* where each request is
          seen,    \* the status a request read
          asked,   \* the status an edit asks for, or None
          ran,     \* the steps an execution has run
          ok,      \* whether all of them passed governance
          loop,    \* the request that occupies the event loop
          passed,  \* history: an execution passed all its steps
          forced,  \* history: how a client overrode the life of the plan
          faults

vars == <<status, pc, seen, asked, ran, ok, loop, passed, forced, faults>>

ApprovalPlaces == {"idle", "check", "approve", "over"}
EditPlaces == {"idle", "read", "write", "over"}
ExecutionPlaces == {"idle", "mark", "run", "save", "saving", "end", "after", "over"}

TypeOK ==
  /\ status \in Statuses
  /\ pc \in [Requests -> ApprovalPlaces \cup EditPlaces \cup ExecutionPlaces]
  /\ \A a \in Approvals : pc[a] \in ApprovalPlaces
  /\ \A q \in Edits : pc[q] \in EditPlaces
  /\ \A e \in Executions : pc[e] \in ExecutionPlaces
  /\ seen \in [Requests -> Statuses]
  /\ asked \in [Edits -> Statuses \cup {None}]
  /\ ran \in [Executions -> 0 .. Steps]
  /\ ok \in [Executions -> BOOLEAN]
  /\ loop \in Requests \cup {None}
  /\ passed \in BOOLEAN
  /\ forced \subseteq {"approval", "edit"}
  /\ faults \in 0 .. MaxFaults

Init ==
  /\ status = "draft"
  /\ pc = [q \in Requests |-> "idle"]
  /\ seen = [q \in Requests |-> "draft"]
  /\ asked = [q \in Edits |-> None]
  /\ ran = [e \in Executions |-> 0]
  /\ ok = [e \in Executions |-> TRUE]
  /\ loop = None
  /\ passed = FALSE /\ forced = {}
  /\ faults = 0

Go(q, from, to) == pc[q] = from /\ pc' = [pc EXCEPT ![q] = to]
TakeLoop(q) == loop = None /\ loop' = q
GiveLoop(q) == loop = q /\ loop' = None
Fault == faults < MaxFaults /\ faults' = faults + 1

-----------------------------------------------------------------------------
(* The thread of an approval: the steps are validated, the status is       *)
(* checked, and the row is written.                                        *)
Validate(a) ==
  /\ \E next \in {"check", "over"} : Go(a, "idle", next)
  /\ UNCHANGED <<status, seen, asked, ran, ok, loop, passed, forced, faults>>

CheckApprovable(a) ==
  /\ Go(a, "check", IF status \in {"done", "blocked", "approved"} THEN "over" ELSE "approve")
  /\ UNCHANGED <<status, seen, asked, ran, ok, loop, passed, forced, faults>>

Approve(a) ==
  /\ Go(a, "approve", "over")
  /\ status' = "approved"
  /\ forced' = IF status = "executing" THEN forced \cup {"approval"} ELSE forced
  /\ UNCHANGED <<seen, asked, ran, ok, loop, passed, faults>>

-----------------------------------------------------------------------------
(* An edit is refused while the plan executes and once it is done.  It may *)
(* ask for any status, and leaves the status alone when it asks for none.  *)
BeginEdit(q) ==
  /\ status \notin {"executing", "done"}
  /\ Go(q, "idle", "read") /\ TakeLoop(q)
  /\ \E s \in Statuses \cup {None} : asked' = [asked EXCEPT ![q] = s]
  /\ UNCHANGED <<status, seen, ran, ok, passed, forced, faults>>

ReadToEdit(q) ==
  /\ Go(q, "read", "write")
  /\ seen' = [seen EXCEPT ![q] = status]
  /\ UNCHANGED <<status, asked, ran, ok, loop, passed, forced, faults>>

WriteEdit(q) ==
  /\ Go(q, "write", "over") /\ GiveLoop(q)
  /\ status' = IF asked[q] = None THEN seen[q] ELSE asked[q]
  /\ forced' = IF asked[q] \in {"executing", "done"} THEN forced \cup {"edit"} ELSE forced
  /\ UNCHANGED <<seen, asked, ran, ok, passed, faults>>

-----------------------------------------------------------------------------
\* Fault: a plan that executes may be executed again.
BeginExecution_Running(e) ==
  /\ status \in {"approved", "executing"}
  /\ Go(e, "idle", "mark") /\ TakeLoop(e)
  /\ UNCHANGED <<status, seen, asked, ran, ok, passed, forced, faults>>

(* An execution takes an approved plan and marks it executing.  When the   *)
(* mark cannot be written, or not be read back, the client gets an error   *)
(* and nothing more happens.                                               *)
BeginExecution(e) ==
  /\ status = "approved"
  /\ Go(e, "idle", "mark") /\ TakeLoop(e)
  /\ UNCHANGED <<status, seen, asked, ran, ok, passed, forced, faults>>

MarkExecuting(e) ==
  /\ GiveLoop(e)
  /\ \/ Go(e, "mark", "run") /\ status' = "executing" /\ UNCHANGED faults
     \/ Go(e, "mark", "over") /\ UNCHANGED <<status, faults>>
     \/ Go(e, "mark", "over") /\ status' = "executing" /\ Fault
  /\ UNCHANGED <<seen, asked, ran, ok, passed, forced>>

RunStep(e) ==
  /\ Go(e, "run", "save")
  /\ ran' = [ran EXCEPT ![e] = @ + 1]
  /\ \E good \in BOOLEAN : ok' = [ok EXCEPT ![e] = @ /\ good]
  /\ UNCHANGED <<status, seen, asked, loop, passed, forced, faults>>

\* Fault: one step too many.
AfterSave_OneMore(e) == IF ran[e] > Steps THEN "end" ELSE "run"

AfterSave(e) == IF ran[e] = Steps THEN "end" ELSE "run"

(* _persist_step_progress; a failure is swallowed.                         *)
ReadToSave(e) ==
  /\ Go(e, "save", "saving")
  /\ seen' = [seen EXCEPT ![e] = status]
  /\ UNCHANGED <<status, asked, ran, ok, loop, passed, forced, faults>>

SaveProgress(e) ==
  /\ Go(e, "saving", AfterSave(e))
  /\ status' = seen[e]
  /\ UNCHANGED <<seen, asked, ran, ok, loop, passed, forced, faults>>

SaveFails(e) ==
  /\ Go(e, "save", AfterSave(e)) \/ Go(e, "saving", AfterSave(e))
  /\ UNCHANGED <<status, seen, asked, ran, ok, loop, passed, forced, faults>>

\* Fault: done whatever governance said.
EndExecution_Done(e) ==
  /\ Go(e, "end", "after") /\ TakeLoop(e)
  /\ status' = "done"
  /\ passed' = (passed \/ ok[e])
  /\ UNCHANGED <<seen, asked, ran, ok, forced, faults>>

(* Back on the event loop, to the outcome and to the answer.               *)
EndExecution(e) ==
  /\ Go(e, "end", "after") /\ TakeLoop(e)
  /\ status' = IF ok[e] THEN "done" ELSE "blocked"
  /\ passed' = (passed \/ ok[e])
  /\ UNCHANGED <<seen, asked, ran, ok, forced, faults>>

Respond(e) ==
  /\ Go(e, "after", "over") /\ GiveLoop(e)
  /\ UNCHANGED <<status, seen, asked, ran, ok, passed, forced, faults>>

\* Fault: the status is not reset after an exception.
FailExecution_KeepsMark(e) ==
  /\ \/ Go(e, "run", "over") /\ loop = None /\ UNCHANGED loop
     \/ Go(e, "end", "over") /\ loop = None /\ UNCHANGED loop
     \/ Go(e, "after", "over") /\ GiveLoop(e)
  /\ UNCHANGED <<status, seen, asked, ran, ok, passed, forced, faults>>

(* An exception in the executor, in the write of the outcome or after it   *)
(* makes the plan executable again.                                        *)
FailExecution(e) ==
  /\ \/ Go(e, "run", "over") /\ loop = None /\ UNCHANGED loop
     \/ Go(e, "end", "over") /\ loop = None /\ UNCHANGED loop
     \/ Go(e, "after", "over") /\ GiveLoop(e)
  /\ status' = "approved"
  /\ UNCHANGED <<seen, asked, ran, ok, passed, forced, faults>>

(* The table cannot be written: the error handler's write fails as well.   *)
EndFails(e) ==
  /\ Go(e, "end", "over") /\ loop = None /\ Fault
  /\ UNCHANGED <<status, seen, asked, ran, ok, loop, passed, forced>>

(* The process dies with all its requests; the row stays, and no start-up  *)
(* code looks at it.                                                       *)
Crash ==
  /\ Fault
  /\ pc' = [q \in Requests |-> IF pc[q] = "idle" THEN "idle" ELSE "over"]
  /\ loop' = None
  /\ UNCHANGED <<status, seen, asked, ran, ok, passed, forced>>

ApprovalStep(a) == Validate(a) \/ CheckApprovable(a) \/ Approve(a)
EditStep(q) == BeginEdit(q) \/ ReadToEdit(q) \/ WriteEdit(q)
ExecutionStep(e) ==
  \/ BeginExecution(e) \/ MarkExecuting(e) \/ RunStep(e)
  \/ ReadToSave(e) \/ SaveProgress(e) \/ SaveFails(e)
  \/ EndExecution(e) \/ Respond(e) \/ FailExecution(e) \/ EndFails(e)

Next ==
  \/ \E a \in Approvals : ApprovalStep(a)
  \/ \E q \in Edits : EditStep(q)
  \/ \E e \in Executions : ExecutionStep(e)
  \/ Crash

Spec == Init /\ [][Next]_vars

-----------------------------------------------------------------------------
Working(e) == pc[e] \in {"run", "save", "saving", "end"}

(* Unless the process died, a write failed twice or a client asked for it, *)
(* the row says "executing" only while an execution works: no write that   *)
(* puts back a status read earlier leaves an ended plan marked, where it   *)
(* could be neither edited nor executed.                                   *)
ExecutingMeansWorking ==
  status = "executing"
    => faults > 0 \/ "edit" \in forced \/ \E e \in Executions : Working(e)

(* A plan is "done" only when some execution passed all its steps: an      *)
(* execution that fails, a late write of progress or an approval never     *)
(* makes it so (only a client that asks for that status does).             *)
DoneMeansPassed == status = "done" => passed \/ "edit" \in forced

(* Two executions of a plan work at the same time only after an approval   *)
(* was written over "executing": approve_layla_plan turns down done and    *)
(* blocked plans and not that one.                                         *)
OneExecution ==
  \A d, e \in Executions :
    Working(d) /\ Working(e) => d = e \/ "approval" \in forced
=============================================================================
