--------------------------- MODULE AdmissionGate ---------------------------
(***************************************************************************)
(* The admission gate of agent runs: schedule_slot of                      *)
(* services/infrastructure/resource_manager.py.  A request enters a heap   *)
(* ordered by (priority, created_at), polls until its own entry is on top  *)
(* and a slot is free, and gives up with "system_busy" at its deadline.    *)
(* Every step below is one critical section under the condition _cv.       *)
(*                                                                         *)
(* A heap is kept as the set of its entries and the entry at index 0; the  *)
(* layout below index 0 is left open, so that where heapq may bring any of *)
(* several least entries to the top, every one of them is tried.           *)
(***************************************************************************)
EXTENDS Integers, FiniteSets

CONSTANTS Job,        \* calls of schedule_slot, each with its own job_id
          Prio,       \* the priority each call passes
          Background, \* PRIORITY_BACKGROUND
          Limits,     \* the values of max_active_runs a call may read
          Stamps,     \* the values time.time() may return
          None

ASSUME JobAssumption == IsFiniteSet(Job) /\ None \notin Job
ASSUME PrioAssumption == Prio \in [Job -> Int] /\ Background \in Int
ASSUME LimitAssumption == Limits \subseteq Nat \ {0}
ASSUME StampAssumption == Stamps \subseteq Int

VARIABLES phase,    \* where each call is
          stamp,    \* created_at of its entry
          limit,    \* the max_active_runs it read on entry
          overdue,  \* the calls whose _deadline has passed
          heap,     \* _queue
          top,      \* _queue[0]
          active    \* _active_jobs

gateVars == <<phase, stamp, limit, overdue, heap, top, active>>

Phases == {"idle", "waiting", "running", "refused", "done"}

TypeOK ==
  /\ phase \in [Job -> Phases]
  /\ stamp \in [Job -> Int]
  /\ limit \in [Job -> Int]
  /\ overdue \subseteq Job
  /\ heap \subseteq Job
  /\ top \in Job \cup {None}
  /\ active \in Nat

GateInit ==
  /\ phase = [j \in Job |-> "idle"]
  /\ stamp = [j \in Job |-> 0]
  /\ limit = [j \in Job |-> 0]
  /\ overdue = {}
  /\ heap = {}
  /\ top = None
  /\ active = 0

In(p) == {j \in Job : phase[j] = p}
Waiting == In("waiting")
Running == In("running")

(* The order and the equality the dataclass _QueuedJob derives: job_id is  *)
(* declared with compare=False, so two entries may be equal.               *)
Before(j, k) ==
  Prio[j] < Prio[k] \/ (Prio[j] = Prio[k] /\ stamp[j] < stamp[k])
Equal(j, k) == Prio[j] = Prio[k] /\ stamp[j] = stamp[k]
EqualIn(S, j) == {k \in S : Equal(k, j)}
Least(S) == {j \in S : \A k \in S : ~Before(k, j)}

Top(t, h) == IF h = {} THEN t = None ELSE t \in Least(h)

(* A background call on an overloaded host is refused before it queues.    *)
RefuseBackground(j) ==
  /\ phase[j] = "idle" /\ Prio[j] >= Background
  /\ phase' = [phase EXCEPT ![j] = "refused"]
  /\ UNCHANGED <<stamp, limit, overdue, heap, top, active>>

(* heappush: the new entry reaches index 0 only when it is strictly        *)
(* smaller than the entry there.                                           *)
Enter(j) ==
  /\ phase[j] = "idle"
  /\ \E s \in Stamps, n \in Limits :
       /\ stamp' = [stamp EXCEPT ![j] = s]
       /\ limit' = [limit EXCEPT ![j] = n]
       /\ top' = IF \/ top = None
                    \/ Prio[j] < Prio[top]
                    \/ Prio[j] = Prio[top] /\ s < stamp[top]
                 THEN j ELSE top
  /\ phase' = [phase EXCEPT ![j] = "waiting"]
  /\ heap' = heap \cup {j}
  /\ UNCHANGED <<overdue, active>>

CanRun(j) == top = j /\ active < limit[j]

Admit(j) ==
  /\ phase[j] = "waiting" /\ CanRun(j)
  /\ phase' = [phase EXCEPT ![j] = "running"]
  /\ heap' = heap \ {j}
  /\ top' \in Job \cup {None} /\ Top(top', heap')
  /\ active' = active + 1
  /\ UNCHANGED <<stamp, limit, overdue>>

(* time.monotonic() passes admission_max_wait_seconds after the entry.     *)
Expire(j) ==
  /\ phase[j] = "waiting" /\ j \notin overdue
  /\ overdue' = overdue \cup {j}
  /\ UNCHANGED <<phase, stamp, limit, heap, top, active>>

(* _queue.remove(entry) takes the first entry EQUAL to the caller's, which *)
(* is the one on top when that is equal, and need not be the caller's own. *)
(* A missing entry (ValueError) is ignored.                                *)
Removable(j) ==
  IF top # None /\ Equal(top, j) THEN {top} ELSE EqualIn(heap, j)

\* Fault: every entry equal to the caller's is removed.
GiveUp_AllEqual(j) ==
  /\ phase[j] = "waiting" /\ j \in overdue /\ ~CanRun(j)
  /\ phase' = [phase EXCEPT ![j] = "refused"]
  /\ heap' = heap \ EqualIn(heap, j)
  /\ top' \in Job \cup {None} /\ Top(top', heap')
  /\ UNCHANGED <<stamp, limit, overdue, active>>

\* Fault: the entry is removed and the heap not restored.
GiveUp_NoHeapify(j) ==
  /\ phase[j] = "waiting" /\ j \in overdue /\ ~CanRun(j)
  /\ phase' = [phase EXCEPT ![j] = "refused"]
  /\ \E e \in Removable(j) :
       /\ heap' = heap \ {e}
       /\ top' \in IF e # top THEN {top} ELSE IF heap' = {} THEN {None} ELSE heap'
  /\ UNCHANGED <<stamp, limit, overdue, active>>

\* Fault: a call gives up only when its entry is not on top.
GiveUp_NotOnTop(j) ==
  /\ phase[j] = "waiting" /\ j \in overdue /\ top # j
  /\ phase' = [phase EXCEPT ![j] = "refused"]
  /\ \E e \in Removable(j) :
       /\ heap' = heap \ {e}
       /\ top' \in Job \cup {None} /\ Top(top', heap')
  /\ UNCHANGED <<stamp, limit, overdue, active>>

GiveUp(j) ==
  /\ phase[j] = "waiting" /\ j \in overdue /\ ~CanRun(j)
  /\ phase' = [phase EXCEPT ![j] = "refused"]
  /\ \/ /\ Removable(j) = {}
        /\ UNCHANGED <<heap, top>>
     \/ \E e \in Removable(j) :
          /\ heap' = heap \ {e}
          /\ top' \in Job \cup {None} /\ Top(top', heap')
  /\ UNCHANGED <<stamp, limit, overdue, active>>

\* Fault: the slot is given back twice, with no floor at zero.
Leave_Twice(j) ==
  /\ phase[j] = "running"
  /\ phase' = [phase EXCEPT ![j] = "done"]
  /\ active' = active - 2
  /\ UNCHANGED <<stamp, limit, overdue, heap, top>>

\* Fault: the slot is not given back.
Leave_Leaks(j) ==
  /\ phase[j] = "running"
  /\ phase' = [phase EXCEPT ![j] = "done"]
  /\ UNCHANGED <<stamp, limit, overdue, heap, top, active>>

Leave(j) ==
  /\ phase[j] = "running"
  /\ phase' = [phase EXCEPT ![j] = "done"]
  /\ active' = IF active > 0 THEN active - 1 ELSE 0
  /\ UNCHANGED <<stamp, limit, overdue, heap, top>>

GateNext ==
  \E j \in Job : \/ RefuseBackground(j) \/ Enter(j) \/ Admit(j)
                 \/ Expire(j) \/ GiveUp(j) \/ Leave(j)

(* A waiting call polls every 50 ms and the clock runs; that a holder ever *)
(* leaves is NOT assumed: a native call may hang.                          *)
GateFairness ==
  \A j \in Job : /\ WF_gateVars(Admit(j))
                 /\ WF_gateVars(Expire(j))
                 /\ WF_gateVars(GiveUp(j))

GateSpec == GateInit /\ [][GateNext]_gateVars /\ GateFairness

-----------------------------------------------------------------------------
(* The counter is the number of slot holders: no path through the gate     *)
(* leaks a slot or gives one back twice, and no holder was admitted beyond *)
(* the largest limit in use.                                               *)
SlotsAccounted ==
  /\ active = Cardinality(Running)
  /\ \A j \in Job : phase[j] = "running" => \E n \in Limits : active <= n

(* Although a call that gives up may remove another call's entry, the heap *)
(* holds, for every key, as many entries as calls wait with that key: no   *)
(* waiter's turn is lost, and no entry outlives its waiters and blocks the *)
(* top for good.                                                           *)
EntriesMatchWaiters ==
  \A j \in Job : Cardinality(EqualIn(heap, j)) = Cardinality(EqualIn(Waiting, j))

(* The index 0 of the heap is a least entry after every operation.         *)
HeapOrdered == Top(top, heap)

(* What the gate promises, with no heap: a slot goes to a waiting call     *)
(* that no waiting call precedes, and a call that is refused was waiting   *)
(* or is a background call.                                                *)
Slots == INSTANCE PrioritySlots

(* The heap with its equal entries implements those slots.                 *)
ImplementsSlots == Slots!Spec

(* A call that waits is admitted or refused, whatever the holders do.      *)
NobodyWaitsForever ==
  \A j \in Job : phase[j] = "waiting" ~> phase[j] # "waiting"
=============================================================================
