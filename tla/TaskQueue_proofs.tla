------------------------- MODULE TaskQueue_proofs -------------------------
(***************************************************************************)
(* Proofs about TaskQueue, for every number of units, workers and threads. *)
(***************************************************************************)
EXTENDS TaskQueue, FiniteSetTheorems, TLAPS

\* A loop past the selection holds a unit; a thread that is not free works on a unit
\* for a worker.
Holding == {"claim", "count", "start"}

HoldInv ==
  /\ \A w \in Workers : loop[w] \in Holding => pick[w] \in Units
  /\ \A t \in Threads : thread[t].at # "free" => thread[t].unit \in Units /\ thread[t].worker \in Workers

\* Leases and resets by status: a unit on offer was taken back as often as it was claimed.
LeaseInv ==
  \A u \in Units : leases[u] <= IF status[u] \in {"new", "pending"} THEN resets[u] ELSE resets[u] + 1

\* A slot is counted before its thread starts and uncounted with its end; between the
\* capacity check and the count the worker has a slot to spare.
SlotInv ==
  \A w \in Workers :
    /\ Cardinality(BusyOf(w)) + (IF loop[w] = "start" THEN 1 ELSE 0) <= active[w]
    /\ active[w] + (IF loop[w] \in {"gate", "select", "claim", "count"} THEN 1 ELSE 0) <= MaxConcurrent

-----------------------------------------------------------------------------
(* Type correctness *)

LEMMA TypeStep ==
  ASSUME TypeOK, HoldInv, [Next]_vars
  PROVE  TypeOK' /\ HoldInv'
<1> USE QueueAssumption DEF TypeOK, HoldInv, Holding, Status, Settled, Free, Goto, Step, table, env
<1>1. ASSUME NEW u \in Units, Submit(u) PROVE TypeOK' /\ HoldInv'
  BY <1>1 DEF Submit
<1>2. ASSUME NEW u \in Units, Cancel(u) PROVE TypeOK' /\ HoldInv'
  BY <1>2 DEF Cancel
<1>3. ASSUME NEW u \in Units, TimeLapse(u) PROVE TypeOK' /\ HoldInv'
  BY <1>3 DEF TimeLapse
<1>4. ASSUME NEW u \in Units, CleanupStale(u) PROVE TypeOK' /\ HoldInv'
  BY <1>4 DEF CleanupStale
<1>5. CASE ResetStuck
  <2> DEFINE S == {u \in Units : status[u] = "running" /\ overdue[u]}
  <2>1. S \subseteq Units /\ status' = [u \in Units |-> IF u \in S THEN "pending" ELSE status[u]]
    BY <1>5 DEF ResetStuck
  <2>2. overdue' = [u \in Units |-> IF u \in S THEN FALSE ELSE overdue[u]]
    BY <1>5 DEF ResetStuck
  <2>3. resets' = [u \in Units |-> IF u \in S THEN resets[u] + 1 ELSE resets[u]]
    BY <1>5 DEF ResetStuck
  <2> HIDE DEF S
  <2>4. status' \in [Units -> Status] /\ resets' \in [Units -> Nat]
    BY <2>1, <2>3
  <2>5. overdue' \in [Units -> BOOLEAN]
    BY <2>2
  <2>6. QED BY <1>5, <2>4, <2>5 DEF ResetStuck
<1>6. ASSUME NEW w \in Workers, CheckCapacity(w) PROVE TypeOK' /\ HoldInv'
  BY <1>6 DEF CheckCapacity
<1>7. ASSUME NEW w \in Workers, CappedWaitEnds(w) PROVE TypeOK' /\ HoldInv'
  BY <1>7 DEF CappedWaitEnds
<1>8. ASSUME NEW w \in Workers, GovernorForbids(w) PROVE TypeOK' /\ HoldInv'
  BY <1>8 DEF GovernorForbids
<1>9. ASSUME NEW w \in Workers, Select(w) PROVE TypeOK' /\ HoldInv'
  BY <1>9 DEF Select
<1>10. ASSUME NEW w \in Workers, Claim(w) PROVE TypeOK' /\ HoldInv'
  <2>1. PICK u \in Units : u = pick[w]
    BY <1>10 DEF Claim
  <2>2. \/ UNCHANGED <<status, overdue, leases, resets>>
        \/ /\ status' = [status EXCEPT ![u] = "running"] /\ overdue' = [overdue EXCEPT ![u] = FALSE]
           /\ leases' = [leases EXCEPT ![u] = leases[u] + 1] /\ resets' = resets
    BY ONLY <1>10, <2>1 DEF Claim, table
  <2>3. /\ status' \in [Units -> Status] /\ overdue' \in [Units -> BOOLEAN]
        /\ leases' \in [Units -> Nat] /\ resets' \in [Units -> Nat]
    <3>1. CASE UNCHANGED <<status, overdue, leases, resets>>
      BY <3>1
    <3>2. ASSUME status' = [status EXCEPT ![u] = "running"], overdue' = [overdue EXCEPT ![u] = FALSE],
                 leases' = [leases EXCEPT ![u] = leases[u] + 1], resets' = resets
          PROVE  /\ status' \in [Units -> Status] /\ overdue' \in [Units -> BOOLEAN]
                 /\ leases' \in [Units -> Nat] /\ resets' \in [Units -> Nat]
      <4>1. overdue' \in [Units -> BOOLEAN]
        BY <3>2
      <4>2. status' \in [Units -> Status]
        BY <3>2
      <4>3. leases' \in [Units -> Nat]
        BY <3>2
      <4>4. QED BY <3>2, <4>1, <4>2, <4>3
    <3>3. QED BY <2>2, <3>1, <3>2
  <2>4. /\ slow' \in 0 .. MaxSlow /\ crashes' \in 0 .. MaxCrashes /\ faults' \in 0 .. MaxFaults
    BY <1>10 DEF Claim, Fault
  <2>5. loop' = [loop EXCEPT ![w] = "poll"] \/ loop' = [loop EXCEPT ![w] = "count"]
    BY ONLY <1>10 DEF Claim, Goto
  <2>6. UNCHANGED <<pick, active, thread>>
    BY <1>10 DEF Claim
  <2>7. QED BY <2>1, <2>3, <2>4, <2>5, <2>6
<1>11. ASSUME NEW w \in Workers, CountTask(w) PROVE TypeOK' /\ HoldInv'
  BY <1>11 DEF CountTask
<1>12. ASSUME NEW w \in Workers, StartTask(w) PROVE TypeOK' /\ HoldInv'
  BY <1>12 DEF StartTask
<1>13. ASSUME NEW w \in Workers, GovernorAllows(w) PROVE TypeOK' /\ HoldInv'
  BY <1>13 DEF GovernorAllows
<1>14. ASSUME NEW t \in Threads, Handle(t) PROVE TypeOK' /\ HoldInv'
  BY <1>14 DEF Handle
<1>15. ASSUME NEW t \in Threads, Complete(t) PROVE TypeOK' /\ HoldInv'
  BY <1>15 DEF Complete, Overwrite, Fault
<1>16. ASSUME NEW t \in Threads, FailTask(t) PROVE TypeOK' /\ HoldInv'
  BY <1>16 DEF FailTask, Overwrite, Fault
<1>17. ASSUME NEW t \in Threads, Release(t) PROVE TypeOK' /\ HoldInv'
  BY <1>17 DEF Release
<1>18. CASE Crash
  BY <1>18 DEF Crash
<1>19. CASE UNCHANGED vars
  BY <1>19 DEF vars
<1>20. QED
  BY <1>1, <1>2, <1>3, <1>4, <1>5, <1>6, <1>7, <1>8, <1>9, <1>10, <1>11, <1>12, <1>13, <1>14,
     <1>15, <1>16, <1>17, <1>18, <1>19 DEF Next, LoopStep, TaskStep

\* Every variable keeps its type; loops and threads always know their unit.
THEOREM TypeCorrect == Spec => [](TypeOK /\ HoldInv)
<1>1. Init => TypeOK /\ HoldInv
  BY QueueAssumption DEF Init, TypeOK, HoldInv, Holding, Status, Settled, Free
<1>2. QED BY <1>1, TypeStep, PTL DEF Spec

-----------------------------------------------------------------------------
(* Claims *)

LEMMA LeaseStep ==
  ASSUME TypeOK, HoldInv, LeaseInv, [Next]_vars
  PROVE  LeaseInv'
<1> USE DEF TypeOK, HoldInv, Holding, LeaseInv, Settled, Step, table
<1>1. ASSUME NEW u \in Units, Submit(u) PROVE LeaseInv'
  BY <1>1 DEF Submit
<1>2. ASSUME NEW u \in Units, Cancel(u) PROVE LeaseInv'
  BY <1>2 DEF Cancel
<1>3. ASSUME NEW u \in Units, TimeLapse(u) PROVE LeaseInv'
  BY <1>3 DEF TimeLapse
<1>4. ASSUME NEW u \in Units, CleanupStale(u) PROVE LeaseInv'
  BY <1>4 DEF CleanupStale
<1>5. CASE ResetStuck
  BY <1>5 DEF ResetStuck
<1>6. ASSUME NEW w \in Workers, CheckCapacity(w) PROVE LeaseInv'
  BY <1>6 DEF CheckCapacity
<1>7. ASSUME NEW w \in Workers, CappedWaitEnds(w) PROVE LeaseInv'
  BY <1>7 DEF CappedWaitEnds
<1>8. ASSUME NEW w \in Workers, GovernorForbids(w) PROVE LeaseInv'
  BY <1>8 DEF GovernorForbids
<1>9. ASSUME NEW w \in Workers, Select(w) PROVE LeaseInv'
  BY <1>9 DEF Select
<1>10. ASSUME NEW w \in Workers, Claim(w) PROVE LeaseInv'
  BY <1>10 DEF Claim, Goto
<1>11. ASSUME NEW w \in Workers, CountTask(w) PROVE LeaseInv'
  BY <1>11 DEF CountTask
<1>12. ASSUME NEW w \in Workers, StartTask(w) PROVE LeaseInv'
  BY <1>12 DEF StartTask
<1>13. ASSUME NEW w \in Workers, GovernorAllows(w) PROVE LeaseInv'
  BY <1>13 DEF GovernorAllows
<1>14. ASSUME NEW t \in Threads, Handle(t) PROVE LeaseInv'
  BY <1>14 DEF Handle
<1>15. ASSUME NEW t \in Threads, Complete(t) PROVE LeaseInv'
  BY <1>15 DEF Complete, Overwrite, Fault
<1>16. ASSUME NEW t \in Threads, FailTask(t) PROVE LeaseInv'
  BY <1>16 DEF FailTask, Overwrite, Fault
<1>17. ASSUME NEW t \in Threads, Release(t) PROVE LeaseInv'
  <2>1. UNCHANGED <<status, leases, resets>>
    BY <1>17 DEF Release
  <2>2. QED BY <2>1
<1>18. CASE Crash
  BY <1>18 DEF Crash
<1>19. CASE UNCHANGED vars
  BY <1>19 DEF vars
<1>20. QED
  BY <1>1, <1>2, <1>3, <1>4, <1>5, <1>6, <1>7, <1>8, <1>9, <1>10, <1>11, <1>12, <1>13, <1>14,
     <1>15, <1>16, <1>17, <1>18, <1>19 DEF Next, LoopStep, TaskStep

\* Two loops that selected the same row never both claim it.
THEOREM ClaimsAreExclusive == Spec => []ClaimedOncePerOffer
<1>1. Init => LeaseInv
  BY DEF Init, LeaseInv
<1>2. TypeOK /\ LeaseInv => ClaimedOncePerOffer
  BY DEF TypeOK, LeaseInv, ClaimedOncePerOffer
<1>3. QED BY <1>1, <1>2, LeaseStep, TypeCorrect, PTL DEF Spec

-----------------------------------------------------------------------------
(* Capacity *)

LEMMA BusyFinite == \A w \in Workers : IsFiniteSet(BusyOf(w)) /\ Cardinality(BusyOf(w)) \in Nat
  BY QueueAssumption, FS_Subset, FS_CardinalityType DEF BusyOf

LEMMA OneMore ==
  ASSUME NEW S, IsFiniteSet(S), NEW x, x \notin S
  PROVE  Cardinality(S \cup {x}) = Cardinality(S) + 1
  BY FS_AddElement

LEMMA OneLess ==
  ASSUME NEW S, IsFiniteSet(S), NEW x \in S
  PROVE  Cardinality(S \ {x}) = Cardinality(S) - 1 /\ Cardinality(S) \in Nat \ {0}
  BY FS_RemoveElement, FS_EmptySet, FS_CardinalityType

\* A step that frees no thread and starts none leaves the busy threads alone.
LEMMA BusySame ==
  ASSUME TypeOK, HoldInv,
         \A t \in Threads : thread'[t].worker = thread[t].worker
                            /\ (thread'[t].at = "free") = (thread[t].at = "free")
  PROVE  \A w \in Workers : BusyOf(w)' = BusyOf(w)
  BY DEF BusyOf

LEMMA SlotStep ==
  ASSUME TypeOK, HoldInv, SlotInv, [Next]_vars
  PROVE  SlotInv'
<1> USE QueueAssumption, BusyFinite DEF TypeOK, HoldInv, Holding, SlotInv, Goto, table
<1>1. ASSUME NEW u \in Units, Submit(u) PROVE SlotInv'
  <2>1. \A v \in Workers : BusyOf(v)' = BusyOf(v)
    BY <1>1, BusySame DEF Submit
  <2>2. QED BY <1>1, <2>1 DEF Submit
<1>2. ASSUME NEW u \in Units, Cancel(u) PROVE SlotInv'
  <2>1. \A v \in Workers : BusyOf(v)' = BusyOf(v)
    BY <1>2, BusySame DEF Cancel
  <2>2. QED BY <1>2, <2>1 DEF Cancel
<1>3. ASSUME NEW u \in Units, TimeLapse(u) PROVE SlotInv'
  <2>1. \A v \in Workers : BusyOf(v)' = BusyOf(v)
    BY <1>3, BusySame DEF TimeLapse
  <2>2. QED BY <1>3, <2>1 DEF TimeLapse
<1>4. ASSUME NEW u \in Units, CleanupStale(u) PROVE SlotInv'
  <2>1. \A v \in Workers : BusyOf(v)' = BusyOf(v)
    BY <1>4, BusySame DEF CleanupStale
  <2>2. QED BY <1>4, <2>1 DEF CleanupStale
<1>5. CASE ResetStuck
  <2>1. \A v \in Workers : BusyOf(v)' = BusyOf(v)
    BY <1>5, BusySame DEF ResetStuck
  <2>2. QED BY <1>5, <2>1 DEF ResetStuck
<1>6. ASSUME NEW w \in Workers, CheckCapacity(w) PROVE SlotInv'
  <2>1. \A v \in Workers : BusyOf(v)' = BusyOf(v)
    BY <1>6, BusySame DEF CheckCapacity
  <2>2. QED BY <1>6, <2>1 DEF CheckCapacity
<1>7. ASSUME NEW w \in Workers, CappedWaitEnds(w) PROVE SlotInv'
  <2>1. \A v \in Workers : BusyOf(v)' = BusyOf(v)
    BY <1>7, BusySame DEF CappedWaitEnds
  <2>2. QED BY <1>7, <2>1 DEF CappedWaitEnds
<1>8. ASSUME NEW w \in Workers, GovernorForbids(w) PROVE SlotInv'
  <2>1. \A v \in Workers : BusyOf(v)' = BusyOf(v)
    BY <1>8, BusySame DEF GovernorForbids
  <2>2. QED BY <1>8, <2>1 DEF GovernorForbids
<1>9. ASSUME NEW w \in Workers, Select(w) PROVE SlotInv'
  <2>1. \A v \in Workers : BusyOf(v)' = BusyOf(v)
    BY <1>9, BusySame DEF Select
  <2>2. QED BY <1>9, <2>1 DEF Select
<1>10. ASSUME NEW w \in Workers, Claim(w) PROVE SlotInv'
  <2>1. \A v \in Workers : BusyOf(v)' = BusyOf(v)
    BY <1>10, BusySame DEF Claim
  <2>2. QED BY <1>10, <2>1 DEF Claim
<1>11. ASSUME NEW w \in Workers, CountTask(w) PROVE SlotInv'
  <2>1. \A v \in Workers : BusyOf(v)' = BusyOf(v)
    BY <1>11, BusySame DEF CountTask
  <2>2. QED BY <1>11, <2>1 DEF CountTask
<1>12. ASSUME NEW w \in Workers, StartTask(w) PROVE SlotInv'
  <2>1. \A v \in Workers \ {w} : BusyOf(v)' = BusyOf(v)
    BY <1>12 DEF StartTask, BusyOf, Free
  <2>2. Cardinality(BusyOf(w)') <= Cardinality(BusyOf(w)) + 1
    <3>1. CASE thread' = thread
      <4>1. BusyOf(w)' = BusyOf(w)
        BY <3>1 DEF BusyOf
      <4>2. QED BY <4>1
    <3>2. ASSUME NEW t \in Threads, thread[t] = Free,
                 thread' = [thread EXCEPT ![t] = [at |-> "handle", unit |-> pick[w], worker |-> w]]
          PROVE  Cardinality(BusyOf(w)') <= Cardinality(BusyOf(w)) + 1
      <4>1. BusyOf(w)' = BusyOf(w) \cup {t}
        BY <3>2 DEF BusyOf, Free
      <4>2. t \notin BusyOf(w)
        BY <3>2 DEF BusyOf, Free
      <4>3. Cardinality(BusyOf(w) \cup {t}) = Cardinality(BusyOf(w)) + 1
        BY <4>2, BusyFinite, OneMore
      <4>4. QED BY <4>1, <4>3
    <3>3. QED BY <1>12, <3>1, <3>2 DEF StartTask
  <2>3. Cardinality(BusyOf(w)') \in Nat
    BY QueueAssumption, FS_Subset, FS_CardinalityType DEF BusyOf
  <2>4. QED BY <1>12, <2>1, <2>2, <2>3 DEF StartTask
<1>13. ASSUME NEW w \in Workers, GovernorAllows(w) PROVE SlotInv'
  <2>1. \A v \in Workers : BusyOf(v)' = BusyOf(v)
    BY <1>13, BusySame DEF GovernorAllows
  <2>2. QED BY <1>13, <2>1 DEF GovernorAllows
<1>14. ASSUME NEW t \in Threads, Handle(t) PROVE SlotInv'
  <2>1. \A w \in Workers : BusyOf(w)' = BusyOf(w)
    BY <1>14, BusySame DEF Handle, Step
  <2>2. QED BY <1>14, <2>1 DEF Handle
<1>15. ASSUME NEW t \in Threads, Complete(t) PROVE SlotInv'
  <2>1. \A w \in Workers : BusyOf(w)' = BusyOf(w)
    BY <1>15, BusySame DEF Complete, Step
  <2>2. QED BY <1>15, <2>1 DEF Complete
<1>16. ASSUME NEW t \in Threads, FailTask(t) PROVE SlotInv'
  <2>1. \A w \in Workers : BusyOf(w)' = BusyOf(w)
    BY <1>16, BusySame DEF FailTask, Step
  <2>2. QED BY <1>16, <2>1 DEF FailTask
<1>17. ASSUME NEW t \in Threads, Release(t) PROVE SlotInv'
  <2>1. PICK w \in Workers : w = thread[t].worker
    BY <1>17 DEF Release
  <2>2. \A v \in Workers \ {w} : BusyOf(v)' = BusyOf(v)
    BY <1>17, <2>1 DEF Release, BusyOf, Free
  <2>3. t \in BusyOf(w)
    BY <1>17, <2>1 DEF Release, BusyOf
  <2>4. BusyOf(w)' = BusyOf(w) \ {t}
    BY <1>17, <2>1 DEF Release, BusyOf, Free
  <2>5. Cardinality(BusyOf(w)') = Cardinality(BusyOf(w)) - 1 /\ Cardinality(BusyOf(w)) >= 1
    <3>1. Cardinality(BusyOf(w) \ {t}) = Cardinality(BusyOf(w)) - 1 /\ Cardinality(BusyOf(w)) \in Nat \ {0}
      BY <2>3, BusyFinite, OneLess
    <3>2. QED BY <2>4, <3>1
  <2>6. active[w] >= 1
    BY <2>5
  <2>7. active' = [active EXCEPT ![w] = IF active[w] = 0 THEN 0 ELSE active[w] - 1] /\ loop' = loop
    BY <1>17, <2>1 DEF Release
  <2>8. active'[w] = active[w] - 1 /\ \A v \in Workers \ {w} : active'[v] = active[v]
    BY <2>6, <2>7
  <2>9. QED BY <2>2, <2>5, <2>7, <2>8
<1>18. CASE Crash
  <2>1. \A w \in Workers : BusyOf(w)' = {}
    BY <1>18 DEF Crash, BusyOf, Free
  <2>2. \A w \in Workers : Cardinality(BusyOf(w)') = 0
    BY <2>1, FS_EmptySet
  <2>3. \A w \in Workers : active'[w] = 0 /\ loop'[w] = "poll"
    BY <1>18 DEF Crash
  <2>4. QED BY <2>2, <2>3
<1>19. CASE UNCHANGED vars
  <2>1. \A v \in Workers : BusyOf(v)' = BusyOf(v)
    BY <1>19, BusySame DEF vars
  <2>2. QED BY <1>19, <2>1 DEF vars
<1>20. QED
  BY <1>1, <1>2, <1>3, <1>4, <1>5, <1>6, <1>7, <1>8, <1>9, <1>10, <1>11, <1>12, <1>13, <1>14,
     <1>15, <1>16, <1>17, <1>18, <1>19 DEF Next, LoopStep, TaskStep

\* No worker ever has more task threads than its limit.
THEOREM CapacityKept == Spec => []WithinCapacity
<1>1. Init => SlotInv
  <2> SUFFICES ASSUME Init PROVE SlotInv
    OBVIOUS
  <2>1. \A w \in Workers : BusyOf(w) = {}
    BY DEF Init, BusyOf, Free
  <2>2. \A w \in Workers : Cardinality(BusyOf(w)) = 0
    BY <2>1, FS_EmptySet
  <2>3. QED BY <2>2, QueueAssumption DEF Init, SlotInv
<1>2. TypeOK /\ SlotInv => WithinCapacity
  BY QueueAssumption, BusyFinite DEF TypeOK, SlotInv, WithinCapacity
<1>3. QED BY <1>1, <1>2, SlotStep, TypeCorrect, PTL DEF Spec

\* Where every thread starts, the counter is exact: no slot is lost to a raising statement,
\* a late report or a unit that was cancelled or deleted under its thread.
EvenInv ==
  \A w \in Workers : active[w] = Cardinality(BusyOf(w)) + (IF loop[w] = "start" THEN 1 ELSE 0)

LEMMA EvenStep ==
  ASSUME TypeOK, HoldInv, EvenInv, ~StartMayFail, [Next]_vars
  PROVE  EvenInv'
<1> USE QueueAssumption, BusyFinite DEF TypeOK, HoldInv, Holding, EvenInv, Goto, table
<1>1. ASSUME NEW u \in Units, Submit(u) PROVE EvenInv'
  <2>1. \A v \in Workers : BusyOf(v)' = BusyOf(v)
    BY <1>1, BusySame DEF Submit
  <2>2. QED BY <1>1, <2>1 DEF Submit
<1>2. ASSUME NEW u \in Units, Cancel(u) PROVE EvenInv'
  <2>1. \A v \in Workers : BusyOf(v)' = BusyOf(v)
    BY <1>2, BusySame DEF Cancel
  <2>2. QED BY <1>2, <2>1 DEF Cancel
<1>3. ASSUME NEW u \in Units, TimeLapse(u) PROVE EvenInv'
  <2>1. \A v \in Workers : BusyOf(v)' = BusyOf(v)
    BY <1>3, BusySame DEF TimeLapse
  <2>2. QED BY <1>3, <2>1 DEF TimeLapse
<1>4. ASSUME NEW u \in Units, CleanupStale(u) PROVE EvenInv'
  <2>1. \A v \in Workers : BusyOf(v)' = BusyOf(v)
    BY <1>4, BusySame DEF CleanupStale
  <2>2. QED BY <1>4, <2>1 DEF CleanupStale
<1>5. CASE ResetStuck
  <2>1. \A v \in Workers : BusyOf(v)' = BusyOf(v)
    BY <1>5, BusySame DEF ResetStuck
  <2>2. QED BY <1>5, <2>1 DEF ResetStuck
<1>6. ASSUME NEW w \in Workers, CheckCapacity(w) PROVE EvenInv'
  <2>1. \A v \in Workers : BusyOf(v)' = BusyOf(v)
    BY <1>6, BusySame DEF CheckCapacity
  <2>2. QED BY <1>6, <2>1 DEF CheckCapacity
<1>7. ASSUME NEW w \in Workers, CappedWaitEnds(w) PROVE EvenInv'
  <2>1. \A v \in Workers : BusyOf(v)' = BusyOf(v)
    BY <1>7, BusySame DEF CappedWaitEnds
  <2>2. QED BY <1>7, <2>1 DEF CappedWaitEnds
<1>8. ASSUME NEW w \in Workers, GovernorForbids(w) PROVE EvenInv'
  <2>1. \A v \in Workers : BusyOf(v)' = BusyOf(v)
    BY <1>8, BusySame DEF GovernorForbids
  <2>2. QED BY <1>8, <2>1 DEF GovernorForbids
<1>9. ASSUME NEW w \in Workers, Select(w) PROVE EvenInv'
  <2>1. \A v \in Workers : BusyOf(v)' = BusyOf(v)
    BY <1>9, BusySame DEF Select
  <2>2. QED BY <1>9, <2>1 DEF Select
<1>10. ASSUME NEW w \in Workers, Claim(w) PROVE EvenInv'
  <2>1. \A v \in Workers : BusyOf(v)' = BusyOf(v)
    BY <1>10, BusySame DEF Claim
  <2>2. QED BY <1>10, <2>1 DEF Claim
<1>11. ASSUME NEW w \in Workers, CountTask(w) PROVE EvenInv'
  <2>1. \A v \in Workers : BusyOf(v)' = BusyOf(v)
    BY <1>11, BusySame DEF CountTask
  <2>2. QED BY <1>11, <2>1 DEF CountTask
<1>12. ASSUME NEW w \in Workers, StartTask(w) PROVE EvenInv'
  <2>1. \A v \in Workers \ {w} : BusyOf(v)' = BusyOf(v)
    BY <1>12 DEF StartTask, BusyOf, Free
  <2>2. PICK t \in Threads :
          /\ thread[t] = Free
          /\ thread' = [thread EXCEPT ![t] = [at |-> "handle", unit |-> pick[w], worker |-> w]]
    BY <1>12 DEF StartTask
  <2>3. BusyOf(w)' = BusyOf(w) \cup {t} /\ t \notin BusyOf(w)
    BY <2>2 DEF BusyOf, Free
  <2>4. Cardinality(BusyOf(w) \cup {t}) = Cardinality(BusyOf(w)) + 1
    BY <2>3, BusyFinite, OneMore
  <2>5. loop[w] = "start" /\ loop' = [loop EXCEPT ![w] = "poll"] /\ UNCHANGED active
    BY <1>12 DEF StartTask
  <2>6. Cardinality(BusyOf(w)') = Cardinality(BusyOf(w)) + 1
    BY <2>3, <2>4
  <2>7. QED BY <2>1, <2>5, <2>6
<1>13. ASSUME NEW w \in Workers, GovernorAllows(w) PROVE EvenInv'
  <2>1. \A v \in Workers : BusyOf(v)' = BusyOf(v)
    BY <1>13, BusySame DEF GovernorAllows
  <2>2. QED BY <1>13, <2>1 DEF GovernorAllows
<1>14. ASSUME NEW t \in Threads, Handle(t) PROVE EvenInv'
  <2>1. \A w \in Workers : BusyOf(w)' = BusyOf(w)
    BY <1>14, BusySame DEF Handle, Step
  <2>2. QED BY <1>14, <2>1 DEF Handle
<1>15. ASSUME NEW t \in Threads, Complete(t) PROVE EvenInv'
  <2>1. \A w \in Workers : BusyOf(w)' = BusyOf(w)
    BY <1>15, BusySame DEF Complete, Step
  <2>2. QED BY <1>15, <2>1 DEF Complete
<1>16. ASSUME NEW t \in Threads, FailTask(t) PROVE EvenInv'
  <2>1. \A w \in Workers : BusyOf(w)' = BusyOf(w)
    BY <1>16, BusySame DEF FailTask, Step
  <2>2. QED BY <1>16, <2>1 DEF FailTask
<1>17. ASSUME NEW t \in Threads, Release(t) PROVE EvenInv'
  <2>1. PICK w \in Workers : w = thread[t].worker
    BY <1>17 DEF Release
  <2>2. \A v \in Workers \ {w} : BusyOf(v)' = BusyOf(v)
    BY <1>17, <2>1 DEF Release, BusyOf, Free
  <2>3. t \in BusyOf(w)
    BY <1>17, <2>1 DEF Release, BusyOf
  <2>4. BusyOf(w)' = BusyOf(w) \ {t}
    BY <1>17, <2>1 DEF Release, BusyOf, Free
  <2>5. Cardinality(BusyOf(w)') = Cardinality(BusyOf(w)) - 1 /\ Cardinality(BusyOf(w)) >= 1
    <3>1. Cardinality(BusyOf(w) \ {t}) = Cardinality(BusyOf(w)) - 1 /\ Cardinality(BusyOf(w)) \in Nat \ {0}
      BY <2>3, BusyFinite, OneLess
    <3>2. QED BY <2>4, <3>1
  <2>6. active[w] >= 1
    BY <2>5
  <2>7. active' = [active EXCEPT ![w] = IF active[w] = 0 THEN 0 ELSE active[w] - 1] /\ loop' = loop
    BY <1>17, <2>1 DEF Release
  <2>8. active'[w] = active[w] - 1 /\ \A v \in Workers \ {w} : active'[v] = active[v]
    BY <2>6, <2>7
  <2>9. QED BY <2>2, <2>5, <2>7, <2>8
<1>18. CASE Crash
  <2>1. \A w \in Workers : BusyOf(w)' = {}
    BY <1>18 DEF Crash, BusyOf, Free
  <2>2. \A w \in Workers : Cardinality(BusyOf(w)') = 0
    BY <2>1, FS_EmptySet
  <2>3. \A w \in Workers : active'[w] = 0 /\ loop'[w] = "poll"
    BY <1>18 DEF Crash
  <2>4. QED BY <2>2, <2>3
<1>19. CASE UNCHANGED vars
  <2>1. \A v \in Workers : BusyOf(v)' = BusyOf(v)
    BY <1>19, BusySame DEF vars
  <2>2. QED BY <1>19, <2>1 DEF vars
<1>20. QED
  BY <1>1, <1>2, <1>3, <1>4, <1>5, <1>6, <1>7, <1>8, <1>9, <1>10, <1>11, <1>12, <1>13, <1>14,
     <1>15, <1>16, <1>17, <1>18, <1>19 DEF Next, LoopStep, TaskStep

\* A worker loses no capacity but to threads that fail to start (drone_worker.py:143): the
\* part of EverySettled that concerns the slots and needs no fairness.
THEOREM NoSlotLost == ASSUME ~StartMayFail PROVE Spec => []EvenInv
<1>1. Init => EvenInv
  <2> SUFFICES ASSUME Init PROVE EvenInv
    OBVIOUS
  <2>1. \A w \in Workers : BusyOf(w) = {}
    BY DEF Init, BusyOf, Free
  <2>2. \A w \in Workers : Cardinality(BusyOf(w)) = 0
    BY <2>1, FS_EmptySet
  <2>3. QED BY <2>2 DEF Init, EvenInv
<1>2. TypeOK /\ HoldInv /\ EvenInv /\ [Next]_vars => EvenInv'
  BY EvenStep
<1>3. QED BY <1>1, <1>2, TypeCorrect, PTL DEF Spec

-----------------------------------------------------------------------------
(* Refinement *)

\* Whatever a loop or a thread holds has been submitted.
OfferedInv ==
  /\ \A w \in Workers : loop[w] \in Holding => status[pick[w]] # "new"
  /\ \A t \in Threads : thread[t].at # "free" => status[thread[t].unit] # "new"

LEMMA OfferedStep ==
  ASSUME TypeOK, HoldInv, OfferedInv, [Next]_vars
  PROVE  OfferedInv'
<1> USE DEF TypeOK, HoldInv, Holding, OfferedInv, Settled, Free, Goto, Step, table
<1>1. ASSUME NEW u \in Units, Submit(u) PROVE OfferedInv'
  BY <1>1 DEF Submit
<1>2. ASSUME NEW u \in Units, Cancel(u) PROVE OfferedInv'
  BY <1>2 DEF Cancel
<1>3. ASSUME NEW u \in Units, TimeLapse(u) PROVE OfferedInv'
  BY <1>3 DEF TimeLapse
<1>4. ASSUME NEW u \in Units, CleanupStale(u) PROVE OfferedInv'
  BY <1>4 DEF CleanupStale
<1>5. CASE ResetStuck
  BY <1>5 DEF ResetStuck
<1>6. ASSUME NEW w \in Workers, CheckCapacity(w) PROVE OfferedInv'
  BY <1>6 DEF CheckCapacity
<1>7. ASSUME NEW w \in Workers, CappedWaitEnds(w) PROVE OfferedInv'
  BY <1>7 DEF CappedWaitEnds
<1>8. ASSUME NEW w \in Workers, GovernorForbids(w) PROVE OfferedInv'
  BY <1>8 DEF GovernorForbids
<1>9. ASSUME NEW w \in Workers, Select(w) PROVE OfferedInv'
  BY <1>9 DEF Select
<1>10. ASSUME NEW w \in Workers, Claim(w) PROVE OfferedInv'
  BY <1>10 DEF Claim
<1>11. ASSUME NEW w \in Workers, CountTask(w) PROVE OfferedInv'
  BY <1>11 DEF CountTask
<1>12. ASSUME NEW w \in Workers, StartTask(w) PROVE OfferedInv'
  <2>1. /\ status' = status /\ pick' = pick
        /\ loop[w] = "start" /\ loop' = [loop EXCEPT ![w] = "poll"]
    BY <1>12 DEF StartTask
  <2>2. \A v \in Workers : loop'[v] \in Holding => loop[v] \in Holding
    BY <2>1
  <2>3. ASSUME NEW t \in Threads, thread'[t].at # "free"
        PROVE  status[thread'[t].unit] # "new"
    <3>1. CASE thread'[t] = thread[t]
      BY <2>3, <3>1
    <3>2. CASE thread'[t].unit = pick[w]
      BY <2>1, <3>2
    <3>3. QED
      BY <1>12, <3>1, <3>2 DEF StartTask
  <2>4. QED
    BY <2>1, <2>2, <2>3
<1>13. ASSUME NEW w \in Workers, GovernorAllows(w) PROVE OfferedInv'
  BY <1>13 DEF GovernorAllows
<1>14. ASSUME NEW t \in Threads, Handle(t) PROVE OfferedInv'
  BY <1>14 DEF Handle
<1>15. ASSUME NEW t \in Threads, Complete(t) PROVE OfferedInv'
  BY <1>15 DEF Complete, Overwrite
<1>16. ASSUME NEW t \in Threads, FailTask(t) PROVE OfferedInv'
  BY <1>16 DEF FailTask, Overwrite
<1>17. ASSUME NEW t \in Threads, Release(t) PROVE OfferedInv'
  BY <1>17 DEF Release
<1>18. CASE Crash
  BY <1>18 DEF Crash
<1>19. CASE UNCHANGED vars
  BY <1>19 DEF vars
<1>20. QED
  BY <1>1, <1>2, <1>3, <1>4, <1>5, <1>6, <1>7, <1>8, <1>9, <1>10, <1>11, <1>12, <1>13, <1>14,
     <1>15, <1>16, <1>17, <1>18, <1>19 DEF Next, LoopStep, TaskStep

LEMMA OfferedHolds == Spec => []OfferedInv
<1>1. Init => OfferedInv
  BY DEF Init, OfferedInv, Holding, Free
<1>2. QED BY <1>1, OfferedStep, TypeCorrect, PTL DEF Spec

\* The unit of LeaseQueue, as a name of this module.
Mapped == [u \in Units |-> LQState(status[u])]

\* A report closes the unit it finds, unless it was closed before.  A unit that is still
\* absent has no thread.
LEMMA ReportRefines ==
  ASSUME TypeOK, NEW u \in Units, status[u] # "new", NEW s \in Settled,
         status' = status \/ (status[u] # "deleted" /\ status' = [status EXCEPT ![u] = s])
  PROVE  [LQ!LQNext]_Mapped
<1> USE DEF TypeOK, Status, Settled, Mapped, LQState
<1>1. CASE status' = status \/ status[u] \in Settled
  BY <1>1
<1>2. CASE status[u] \in {"pending", "running"} /\ status' = [status EXCEPT ![u] = s]
  <2>1. LQ!Close(u)
    BY <1>2 DEF LQ!Close, LQ!Moves
  <2>2. QED BY <2>1 DEF LQ!LQNext
<1>3. QED BY <1>1, <1>2

LEMMA RefineStep ==
  ASSUME TypeOK, HoldInv, OfferedInv, [Next]_vars
  PROVE  [LQ!LQNext]_Mapped
<1> USE DEF TypeOK, HoldInv, Holding, OfferedInv, Status, Settled, Mapped, LQState
<1>1. ASSUME NEW u \in Units, Submit(u) PROVE [LQ!LQNext]_Mapped
  <2>1. LQ!Offer(u)
    BY <1>1 DEF Submit, LQ!Offer, LQ!Moves
  <2>2. QED BY <1>1, <2>1 DEF Submit, LQ!LQNext
<1>2. ASSUME NEW u \in Units, Cancel(u) PROVE [LQ!LQNext]_Mapped
  <2>1. LQ!Close(u)
    BY <1>2 DEF Cancel, LQ!Close, LQ!Moves
  <2>2. QED BY <1>2, <2>1 DEF Cancel, LQ!LQNext
<1>3. ASSUME NEW u \in Units, TimeLapse(u) PROVE [LQ!LQNext]_Mapped
  BY <1>3 DEF TimeLapse, table
<1>4. ASSUME NEW u \in Units, CleanupStale(u) PROVE [LQ!LQNext]_Mapped
  <2>1. LQ!Drop(u)
    BY <1>4 DEF CleanupStale, LQ!Drop, LQ!Moves
  <2>2. QED BY <1>4, <2>1 DEF CleanupStale, LQ!LQNext
<1>5. CASE ResetStuck
  <2>1. PICK S \in SUBSET Units : S = {u \in Units : status[u] = "running" /\ overdue[u]}
    OBVIOUS
  <2>2. LQ!Expire(S)
    BY <1>5, <2>1 DEF ResetStuck, LQ!Expire, LQ!Moves
  <2>3. QED BY <2>2 DEF LQ!LQNext
<1>6. ASSUME NEW w \in Workers, CheckCapacity(w) PROVE [LQ!LQNext]_Mapped
  BY <1>6 DEF CheckCapacity, table
<1>7. ASSUME NEW w \in Workers, CappedWaitEnds(w) PROVE [LQ!LQNext]_Mapped
  BY <1>7 DEF CappedWaitEnds, table
<1>8. ASSUME NEW w \in Workers, GovernorForbids(w) PROVE [LQ!LQNext]_Mapped
  BY <1>8 DEF GovernorForbids, table
<1>9. ASSUME NEW w \in Workers, Select(w) PROVE [LQ!LQNext]_Mapped
  BY <1>9 DEF Select, table
<1>10. ASSUME NEW w \in Workers, Claim(w) PROVE [LQ!LQNext]_Mapped
  <2>1. PICK u \in Units : u = pick[w]
    BY <1>10 DEF Claim
  <2>2. CASE status' = status
    BY <2>2
  <2>3. CASE status[u] = "pending" /\ status' = [status EXCEPT ![u] = "running"]
    <3>1. LQ!Lease(u)
      BY <2>3 DEF LQ!Lease, LQ!Moves
    <3>2. QED BY <3>1 DEF LQ!LQNext
  <2>4. QED BY <1>10, <2>1, <2>2, <2>3 DEF Claim, table
<1>11. ASSUME NEW w \in Workers, CountTask(w) PROVE [LQ!LQNext]_Mapped
  BY <1>11 DEF CountTask, table
<1>12. ASSUME NEW w \in Workers, StartTask(w) PROVE [LQ!LQNext]_Mapped
  BY <1>12 DEF StartTask, table
<1>13. ASSUME NEW w \in Workers, GovernorAllows(w) PROVE [LQ!LQNext]_Mapped
  BY <1>13 DEF GovernorAllows, table
<1>14. ASSUME NEW t \in Threads, Handle(t) PROVE [LQ!LQNext]_Mapped
  BY <1>14 DEF Handle, table
<1>15. ASSUME NEW t \in Threads, Complete(t) PROVE [LQ!LQNext]_Mapped
  <2>1. PICK u \in Units : u = thread[t].unit /\ status[u] # "new"
    BY <1>15 DEF Complete
  <2>2. status' = status \/ (status[u] # "deleted" /\ status' = [status EXCEPT ![u] = "done"])
    BY <1>15, <2>1 DEF Complete, Overwrite
  <2>3. "done" \in Settled
    OBVIOUS
  <2>4. QED BY <2>1, <2>2, <2>3, ReportRefines
<1>16. ASSUME NEW t \in Threads, FailTask(t) PROVE [LQ!LQNext]_Mapped
  <2>1. PICK u \in Units : u = thread[t].unit /\ status[u] # "new"
    BY <1>16 DEF FailTask
  <2>2. status' = status \/ (status[u] # "deleted" /\ status' = [status EXCEPT ![u] = "failed"])
    BY <1>16, <2>1 DEF FailTask, Overwrite
  <2>3. "failed" \in Settled
    OBVIOUS
  <2>4. QED BY <2>1, <2>2, <2>3, ReportRefines
<1>17. ASSUME NEW t \in Threads, Release(t) PROVE [LQ!LQNext]_Mapped
  BY <1>17 DEF Release, table
<1>18. CASE Crash
  BY <1>18 DEF Crash, table
<1>19. CASE UNCHANGED vars
  BY <1>19 DEF vars, table
<1>20. QED
  BY <1>1, <1>2, <1>3, <1>4, <1>5, <1>6, <1>7, <1>8, <1>9, <1>10, <1>11, <1>12, <1>13, <1>14,
     <1>15, <1>16, <1>17, <1>18, <1>19 DEF Next, LoopStep, TaskStep

\* The queue implements LeaseQueue: a settled unit is never offered or leased again.
THEOREM LeasePromiseKept == Spec => KeepsLeasePromise
<1>1. Init => LQ!LQInit
  BY DEF Init, LQ!LQInit, LQState
<1>2. QED BY <1>1, RefineStep, TypeCorrect, OfferedHolds, PTL DEF Spec, KeepsLeasePromise, LQ!LQSpec, Mapped

=============================================================================
