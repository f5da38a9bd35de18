------------------------ MODULE BackgroundTasks_proofs ------------------------
(***************************************************************************)
(* Proofs about BackgroundTasks for every number of tasks, cancel requests *)
(* and rounds, every eviction bound, and a store that may or may not fail. *)
(***************************************************************************)
EXTENDS BackgroundTasks, TLAPS

\* Iterations stay below the cap where another one may start.
RoundsBelowCap ==
  \A t \in Tasks :
    /\ pc[t] \in BeforeStart \cup {"new", "persistRunning"} => rounds[t] = 0
    /\ (mode[t] = "continuous" /\ pc[t] \in {"loop", "once"}) => rounds[t] < MaxRounds

\* A down server has no rows, no running code and no requests.
NothingRunsWhenDown ==
  up \in {"exited", "crashed"} =>
    /\ registry = {}
    /\ \A t \in Tasks : ~Active(t)
    /\ \A c \in Cancels : cancel[c].at = "idle"

\* A request past its critical section has been accepted.
RequestsAccepted ==
  \A c \in Cancels : cancel[c].at # "idle" =>
    cancel[c].task \in Tasks /\ accepted[cancel[c].task] # "never"

\* What the row says at each control point of its task.
RowOf(t) ==
  /\ pc[t] \in BeforeStart \cup {"new"} => accepted[t] # "late"
  /\ pc[t] = "new" => t \notin registry /\ accepted[t] = "never"
  /\ pc[t] # "new" => status[t] # "none"
  /\ pc[t] = "insert" => snap[t] # "none"
  /\ pc[t] = "inline" => mode[t] = "inline"
  /\ status[t] = "failed" => pc[t] \in {"persistFailed", "exit", "lost"}
  /\ status[t] = "done" => pc[t] \in {"persistDone", "exit", "lost"}
  /\ status[t] = "cancelled" => accepted[t] # "never"
  /\ (pc[t] = "persistDone" /\ (t \in registry \/ accepted[t] = "never")) => status[t] = "done"
  /\ (pc[t] = "persistFailed" /\ (t \in registry \/ accepted[t] = "never")) => status[t] = "failed"
  /\ (pc[t] = "exit" /\ t \in registry) => status[t] \in Terminal
  /\ (Active(t) /\ t \notin registry) => status[t] \in Terminal
  /\ (accepted[t] = "late" /\ t \in registry /\ mode[t] # "inline") => status[t] \in {"cancelled", "failed"}
  /\ (pc[t] = "clear" /\ verdict[t] = "cancelled") =>
        accepted[t] # "never" /\ (t \in registry => status[t] = "cancelled")

\* What the table says at each control point of its task, when no write is lost.
StoreOf(t) ==
  /\ pc[t] = "new" => db[t] = "none"
  /\ pc[t] \notin {"new", "save", "insert", "lost"} => db[t] # "none"
  /\ (pc[t] = "clear" /\ verdict[t] = "cancelled") => db[t] = "cancelled"
  /\ (pc[t] = "exit" /\ accepted[t] = "late" /\ t \in registry /\ mode[t] # "inline") =>
        db[t] \in {"cancelled", "failed"}
  /\ (pc[t] = "exit" /\ accepted[t] = "never") => status[t] \in {"done", "failed"} /\ db[t] = status[t]
  /\ (pc[t] = "exit" /\ db[t] \in {"queued", "running"}) => accepted[t] = "early" /\ t \notin registry
  /\ (pc[t] = "lost" /\ Running) => db[t] \notin {"queued", "running"}

RowInv   == \A t \in Tasks : RowOf(t)
StoreInv == ~LossyStore => \A t \in Tasks : StoreOf(t)


-----------------------------------------------------------------------------
(* Type correctness *)

LEMMA TypeInit == Init => TypeOK /\ RoundsBelowCap
  BY BoundsAssumption, ModesAssumption
  DEF Init, TypeOK, RoundsBelowCap, Status, Terminal, Points, BeforeStart, Idle

LEMMA TypeStep ==
  ASSUME TypeOK, RoundsBelowCap, [Next]_vars
  PROVE  TypeOK' /\ RoundsBelowCap'
<1> USE BoundsAssumption, ModesAssumption
    DEF TypeOK, RoundsBelowCap, Status, Terminal, Points, BeforeStart, Idle,
        rowVars, runVars, procVars, Goto, Running, Active
<1>1. ASSUME NEW u \in Tasks, Enqueue(u) PROVE TypeOK' /\ RoundsBelowCap'
  BY <1>1 DEF Enqueue, NextTask
<1>2. ASSUME NEW u \in Tasks, RegisterInline(u) PROVE TypeOK' /\ RoundsBelowCap'
  BY <1>2 DEF RegisterInline, NextTask
<1>3. ASSUME NEW u \in Tasks, SaveRead(u) PROVE TypeOK' /\ RoundsBelowCap'
  BY <1>3 DEF SaveRead
<1>4. ASSUME NEW u \in Tasks, SaveWrite(u) PROVE TypeOK' /\ RoundsBelowCap'
  BY <1>4 DEF SaveWrite
<1>5. ASSUME NEW u \in Tasks, MarkRunning(u) PROVE TypeOK' /\ RoundsBelowCap'
  BY <1>5 DEF MarkRunning, Mark
<1>6. ASSUME NEW u \in Tasks, PersistRunning(u) PROVE TypeOK' /\ RoundsBelowCap'
  BY <1>6 DEF PersistRunning, Persist
<1>7. ASSUME NEW u \in Tasks, LoopTop(u) PROVE TypeOK' /\ RoundsBelowCap'
  BY <1>7 DEF LoopTop, AbortSeen, Found
<1>8. ASSUME NEW u \in Tasks, RunOnce(u) PROVE TypeOK' /\ RoundsBelowCap'
  BY <1>8 DEF RunOnce
<1>9. ASSUME NEW u \in Tasks, LoopBottom(u) PROVE TypeOK' /\ RoundsBelowCap'
  <2> HIDE DEF RoundsBelowCap, Active, Running
  <2>1. rounds[u] # MaxRounds => rounds[u] < MaxRounds
    <3>1. rounds[u] \in Nat /\ rounds[u] <= MaxRounds /\ MaxRounds \in Nat
      BY BoundsAssumption DEF TypeOK
    <3>2. QED BY ONLY <3>1
  <2>2. pc' = [pc EXCEPT ![u] = "settle"] \/ (pc' = [pc EXCEPT ![u] = "loop"] /\ rounds[u] # MaxRounds)
    BY <1>9 DEF LoopBottom
  <2>3. QED BY <1>9, <2>1, <2>2 DEF LoopBottom, RoundsBelowCap
<1>10. ASSUME NEW u \in Tasks, Settle(u) PROVE TypeOK' /\ RoundsBelowCap'
  BY <1>10 DEF Settle, Mark, Persist
<1>11. ASSUME NEW u \in Tasks, PersistDone(u) PROVE TypeOK' /\ RoundsBelowCap'
  BY <1>11 DEF PersistDone, Persist
<1>12. ASSUME NEW u \in Tasks, Fail(u) PROVE TypeOK' /\ RoundsBelowCap'
  BY <1>12 DEF Fail, Mark
<1>13. ASSUME NEW u \in Tasks, PersistFailed(u) PROVE TypeOK' /\ RoundsBelowCap'
  BY <1>13 DEF PersistFailed, Persist
<1>14. ASSUME NEW u \in Tasks, CheckBeforeSpawn(u) PROVE TypeOK' /\ RoundsBelowCap'
  BY <1>14 DEF CheckBeforeSpawn, Persist
<1>15. ASSUME NEW u \in Tasks, Spawn(u) PROVE TypeOK' /\ RoundsBelowCap'
  BY <1>15 DEF Spawn
<1>16. ASSUME NEW u \in Tasks, RegisterWorker(u) PROVE TypeOK' /\ RoundsBelowCap'
  BY <1>16 DEF RegisterWorker
<1>17. ASSUME NEW u \in Tasks, RecheckAfterSpawn(u) PROVE TypeOK' /\ RoundsBelowCap'
  BY <1>17 DEF RecheckAfterSpawn, Persist
<1>18. ASSUME NEW u \in Tasks, WaitResult(u) PROVE TypeOK' /\ RoundsBelowCap'
  BY <1>18 DEF WaitResult
<1>19. ASSUME NEW u \in Tasks, ClearWorker(u) PROVE TypeOK' /\ RoundsBelowCap'
  BY <1>19 DEF ClearWorker
<1>20. ASSUME NEW u \in Tasks, Judge(u) PROVE TypeOK' /\ RoundsBelowCap'
  BY <1>20 DEF Judge, Persist
<1>21. ASSUME NEW u \in Tasks, ChildEnds(u) PROVE TypeOK' /\ RoundsBelowCap'
  BY <1>21 DEF ChildEnds
<1>22. ASSUME NEW u \in Tasks, FinalizeInline(u) PROVE TypeOK' /\ RoundsBelowCap'
  BY <1>22 DEF FinalizeInline, Mark
<1>23. ASSUME NEW u \in Tasks, TerminateWorker(u) PROVE TypeOK' /\ RoundsBelowCap'
  BY <1>23 DEF TerminateWorker
<1>24. ASSUME NEW c \in Cancels, CancelKill(c) PROVE TypeOK' /\ RoundsBelowCap'
  BY <1>24 DEF CancelKill
<1>25. ASSUME NEW c \in Cancels, CancelPersist(c) PROVE TypeOK' /\ RoundsBelowCap'
  BY <1>25 DEF CancelPersist, Persist
<1>26. ASSUME NEW c \in Cancels, NEW u \in Tasks, CancelRequest(c, u) PROVE TypeOK' /\ RoundsBelowCap'
  BY <1>26 DEF CancelRequest
<1>27. CASE BeginShutdown
  BY <1>27 DEF BeginShutdown
<1>28. CASE Exit
  BY <1>28 DEF Exit, GoDown
<1>29. CASE Crash
  BY <1>29 DEF Crash, GoDown
<1>30. CASE Restart
  BY <1>30 DEF Restart
<1>31. CASE UNCHANGED vars
  BY <1>31 DEF vars
<1>32. QED
  BY <1>1, <1>2, <1>3, <1>4, <1>5, <1>6, <1>7, <1>8, <1>9, <1>10, <1>11, <1>12, <1>13, <1>14,
     <1>15, <1>16, <1>17, <1>18, <1>19, <1>20, <1>21, <1>22, <1>23, <1>24, <1>25, <1>26, <1>27,
     <1>28, <1>29, <1>30, <1>31 DEF Next, RunnerStep

\* Every variable keeps its type; a continuous run never exceeds its iteration cap.
THEOREM TypeCorrect == Spec => [](TypeOK /\ RoundsBelowCap)
<1>1. QED BY TypeInit, TypeStep, PTL DEF Spec

-----------------------------------------------------------------------------
(* Worker processes *)

\* Every live worker process is going to be waited for by its runner, or its server
\* died, or an exception of its runner left it and its task reads failed.
LEMMA ChildStep ==
  ASSUME TypeOK, ChildAccounted, [Next]_vars
  PROVE  ChildAccounted'
<1> USE DEF TypeOK, ChildAccounted, LeftByException, Terminal, rowVars, runVars, procVars,
            Goto, Mark, Running, Active
<1>1. ASSUME NEW u \in Tasks, Enqueue(u) PROVE ChildAccounted'
  BY <1>1 DEF Enqueue, NextTask
<1>2. ASSUME NEW u \in Tasks, RegisterInline(u) PROVE ChildAccounted'
  BY <1>2 DEF RegisterInline, NextTask
<1>3. ASSUME NEW u \in Tasks, SaveRead(u) PROVE ChildAccounted'
  BY <1>3 DEF SaveRead
<1>4. ASSUME NEW u \in Tasks, SaveWrite(u) PROVE ChildAccounted'
  BY <1>4 DEF SaveWrite
<1>5. ASSUME NEW u \in Tasks, MarkRunning(u) PROVE ChildAccounted'
  BY <1>5 DEF MarkRunning
<1>6. ASSUME NEW u \in Tasks, PersistRunning(u) PROVE ChildAccounted'
  BY <1>6 DEF PersistRunning
<1>7. ASSUME NEW u \in Tasks, LoopTop(u) PROVE ChildAccounted'
  BY <1>7 DEF LoopTop
<1>8. ASSUME NEW u \in Tasks, RunOnce(u) PROVE ChildAccounted'
  BY <1>8 DEF RunOnce
<1>9. ASSUME NEW u \in Tasks, LoopBottom(u) PROVE ChildAccounted'
  BY <1>9 DEF LoopBottom
<1>10. ASSUME NEW u \in Tasks, Settle(u) PROVE ChildAccounted'
  BY <1>10 DEF Settle
<1>11. ASSUME NEW u \in Tasks, PersistDone(u) PROVE ChildAccounted'
  BY <1>11 DEF PersistDone
<1>12. ASSUME NEW u \in Tasks, Fail(u) PROVE ChildAccounted'
  BY <1>12 DEF Fail
<1>13. ASSUME NEW u \in Tasks, PersistFailed(u) PROVE ChildAccounted'
  BY <1>13 DEF PersistFailed
<1>14. ASSUME NEW u \in Tasks, CheckBeforeSpawn(u) PROVE ChildAccounted'
  BY <1>14 DEF CheckBeforeSpawn
<1>15. ASSUME NEW u \in Tasks, Spawn(u) PROVE ChildAccounted'
  BY <1>15 DEF Spawn
<1>16. ASSUME NEW u \in Tasks, RegisterWorker(u) PROVE ChildAccounted'
  BY <1>16 DEF RegisterWorker
<1>17. ASSUME NEW u \in Tasks, RecheckAfterSpawn(u) PROVE ChildAccounted'
  BY <1>17 DEF RecheckAfterSpawn
<1>18. ASSUME NEW u \in Tasks, WaitResult(u) PROVE ChildAccounted'
  BY <1>18 DEF WaitResult
<1>19. ASSUME NEW u \in Tasks, ClearWorker(u) PROVE ChildAccounted'
  BY <1>19 DEF ClearWorker
<1>20. ASSUME NEW u \in Tasks, Judge(u) PROVE ChildAccounted'
  BY <1>20 DEF Judge
<1>21. ASSUME NEW u \in Tasks, ChildEnds(u) PROVE ChildAccounted'
  BY <1>21 DEF ChildEnds
<1>22. ASSUME NEW u \in Tasks, FinalizeInline(u) PROVE ChildAccounted'
  BY <1>22 DEF FinalizeInline
<1>23. ASSUME NEW u \in Tasks, TerminateWorker(u) PROVE ChildAccounted'
  BY <1>23 DEF TerminateWorker
<1>24. ASSUME NEW c \in Cancels, CancelKill(c) PROVE ChildAccounted'
  BY <1>24 DEF CancelKill
<1>25. ASSUME NEW c \in Cancels, CancelPersist(c) PROVE ChildAccounted'
  BY <1>25 DEF CancelPersist
<1>26. ASSUME NEW c \in Cancels, NEW u \in Tasks, CancelRequest(c, u) PROVE ChildAccounted'
  BY <1>26 DEF CancelRequest
<1>27. CASE BeginShutdown
  BY <1>27 DEF BeginShutdown
<1>28. CASE Exit
  BY <1>28 DEF Exit, GoDown
<1>29. CASE Crash
  BY <1>29 DEF Crash, GoDown
<1>30. CASE Restart
  BY <1>30 DEF Restart
<1>31. CASE UNCHANGED vars
  BY <1>31 DEF vars
<1>32. QED
  BY <1>1, <1>2, <1>3, <1>4, <1>5, <1>6, <1>7, <1>8, <1>9, <1>10, <1>11, <1>12, <1>13, <1>14,
     <1>15, <1>16, <1>17, <1>18, <1>19, <1>20, <1>21, <1>22, <1>23, <1>24, <1>25, <1>26, <1>27,
     <1>28, <1>29, <1>30, <1>31 DEF Next, RunnerStep

\* A live worker process has a runner that is going to wait for it, or lost its server, or
\* was left by an exception out of its spawn or its wait: the task of such a process reads
\* failed once the runner's except clause has run, and stays failed.
THEOREM ChildrenAccounted == Spec => []ChildAccounted
<1>1. Init => ChildAccounted
  BY DEF Init, ChildAccounted
<1>2. QED BY <1>1, ChildStep, TypeCorrect, PTL DEF Spec

-----------------------------------------------------------------------------
(* Rows *)

LEMMA DownStep ==
  ASSUME TypeOK, NothingRunsWhenDown, RequestsAccepted, [Next]_vars
  PROVE  NothingRunsWhenDown' /\ RequestsAccepted'
<1> USE DEF TypeOK, NothingRunsWhenDown, RequestsAccepted, Idle, rowVars, runVars, procVars, Goto, Running, Active
<1>1. ASSUME NEW u \in Tasks, Enqueue(u) PROVE NothingRunsWhenDown' /\ RequestsAccepted'
  BY <1>1 DEF Enqueue, NextTask
<1>2. ASSUME NEW u \in Tasks, RegisterInline(u) PROVE NothingRunsWhenDown' /\ RequestsAccepted'
  BY <1>2 DEF RegisterInline, NextTask
<1>3. ASSUME NEW u \in Tasks, SaveRead(u) PROVE NothingRunsWhenDown' /\ RequestsAccepted'
  BY <1>3 DEF SaveRead
<1>4. ASSUME NEW u \in Tasks, SaveWrite(u) PROVE NothingRunsWhenDown' /\ RequestsAccepted'
  BY <1>4 DEF SaveWrite
<1>5. ASSUME NEW u \in Tasks, MarkRunning(u) PROVE NothingRunsWhenDown' /\ RequestsAccepted'
  BY <1>5 DEF MarkRunning
<1>6. ASSUME NEW u \in Tasks, PersistRunning(u) PROVE NothingRunsWhenDown' /\ RequestsAccepted'
  BY <1>6 DEF PersistRunning
<1>7. ASSUME NEW u \in Tasks, LoopTop(u) PROVE NothingRunsWhenDown' /\ RequestsAccepted'
  BY <1>7 DEF LoopTop
<1>8. ASSUME NEW u \in Tasks, RunOnce(u) PROVE NothingRunsWhenDown' /\ RequestsAccepted'
  BY <1>8 DEF RunOnce
<1>9. ASSUME NEW u \in Tasks, LoopBottom(u) PROVE NothingRunsWhenDown' /\ RequestsAccepted'
  BY <1>9 DEF LoopBottom
<1>10. ASSUME NEW u \in Tasks, Settle(u) PROVE NothingRunsWhenDown' /\ RequestsAccepted'
  BY <1>10 DEF Settle
<1>11. ASSUME NEW u \in Tasks, PersistDone(u) PROVE NothingRunsWhenDown' /\ RequestsAccepted'
  BY <1>11 DEF PersistDone
<1>12. ASSUME NEW u \in Tasks, Fail(u) PROVE NothingRunsWhenDown' /\ RequestsAccepted'
  BY <1>12 DEF Fail
<1>13. ASSUME NEW u \in Tasks, PersistFailed(u) PROVE NothingRunsWhenDown' /\ RequestsAccepted'
  BY <1>13 DEF PersistFailed
<1>14. ASSUME NEW u \in Tasks, CheckBeforeSpawn(u) PROVE NothingRunsWhenDown' /\ RequestsAccepted'
  BY <1>14 DEF CheckBeforeSpawn
<1>15. ASSUME NEW u \in Tasks, Spawn(u) PROVE NothingRunsWhenDown' /\ RequestsAccepted'
  BY <1>15 DEF Spawn
<1>16. ASSUME NEW u \in Tasks, RegisterWorker(u) PROVE NothingRunsWhenDown' /\ RequestsAccepted'
  BY <1>16 DEF RegisterWorker
<1>17. ASSUME NEW u \in Tasks, RecheckAfterSpawn(u) PROVE NothingRunsWhenDown' /\ RequestsAccepted'
  BY <1>17 DEF RecheckAfterSpawn
<1>18. ASSUME NEW u \in Tasks, WaitResult(u) PROVE NothingRunsWhenDown' /\ RequestsAccepted'
  BY <1>18 DEF WaitResult
<1>19. ASSUME NEW u \in Tasks, ClearWorker(u) PROVE NothingRunsWhenDown' /\ RequestsAccepted'
  BY <1>19 DEF ClearWorker
<1>20. ASSUME NEW u \in Tasks, Judge(u) PROVE NothingRunsWhenDown' /\ RequestsAccepted'
  BY <1>20 DEF Judge
<1>21. ASSUME NEW u \in Tasks, ChildEnds(u) PROVE NothingRunsWhenDown' /\ RequestsAccepted'
  BY <1>21 DEF ChildEnds
<1>22. ASSUME NEW u \in Tasks, FinalizeInline(u) PROVE NothingRunsWhenDown' /\ RequestsAccepted'
  BY <1>22 DEF FinalizeInline
<1>23. ASSUME NEW u \in Tasks, TerminateWorker(u) PROVE NothingRunsWhenDown' /\ RequestsAccepted'
  BY <1>23 DEF TerminateWorker
<1>24. ASSUME NEW c \in Cancels, CancelKill(c) PROVE NothingRunsWhenDown' /\ RequestsAccepted'
  BY <1>24 DEF CancelKill
<1>25. ASSUME NEW c \in Cancels, CancelPersist(c) PROVE NothingRunsWhenDown' /\ RequestsAccepted'
  BY <1>25 DEF CancelPersist
<1>26. ASSUME NEW c \in Cancels, NEW u \in Tasks, CancelRequest(c, u) PROVE NothingRunsWhenDown' /\ RequestsAccepted'
  BY <1>26 DEF CancelRequest
<1>27. CASE BeginShutdown
  BY <1>27 DEF BeginShutdown
<1>28. CASE Exit
  BY <1>28 DEF Exit, GoDown
<1>29. CASE Crash
  BY <1>29 DEF Crash, GoDown
<1>30. CASE Restart
  BY <1>30 DEF Restart
<1>31. CASE UNCHANGED vars
  BY <1>31 DEF vars
<1>32. QED
  BY <1>1, <1>2, <1>3, <1>4, <1>5, <1>6, <1>7, <1>8, <1>9, <1>10, <1>11, <1>12, <1>13, <1>14,
     <1>15, <1>16, <1>17, <1>18, <1>19, <1>20, <1>21, <1>22, <1>23, <1>24, <1>25, <1>26, <1>27,
     <1>28, <1>29, <1>30, <1>31 DEF Next, RunnerStep

LEMMA RowStep ==
  ASSUME TypeOK, NothingRunsWhenDown, RowInv, [Next]_vars
  PROVE  RowInv'
<1> USE DEF TypeOK, NothingRunsWhenDown, RowInv, RowOf, BeforeStart, Terminal, rowVars, runVars, procVars, Goto, Running, Active
<1>1. ASSUME NEW u \in Tasks, Enqueue(u) PROVE RowInv'
  BY <1>1 DEF Enqueue, NextTask, Evictable
<1>2. ASSUME NEW u \in Tasks, RegisterInline(u) PROVE RowInv'
  BY <1>2 DEF RegisterInline, NextTask
<1>3. ASSUME NEW u \in Tasks, SaveRead(u) PROVE RowInv'
  BY <1>3 DEF SaveRead
<1>4. ASSUME NEW u \in Tasks, SaveWrite(u) PROVE RowInv'
  BY <1>4 DEF SaveWrite
<1>5. ASSUME NEW u \in Tasks, MarkRunning(u) PROVE RowInv'
  BY <1>5 DEF MarkRunning, Mark
<1>6. ASSUME NEW u \in Tasks, PersistRunning(u) PROVE RowInv'
  BY <1>6 DEF PersistRunning
<1>7. ASSUME NEW u \in Tasks, LoopTop(u) PROVE RowInv'
  BY <1>7 DEF LoopTop, AbortSeen, Found
<1>8. ASSUME NEW u \in Tasks, RunOnce(u) PROVE RowInv'
  BY <1>8 DEF RunOnce
<1>9. ASSUME NEW u \in Tasks, LoopBottom(u) PROVE RowInv'
  BY <1>9 DEF LoopBottom, AbortSeen, Found
<1>10. ASSUME NEW u \in Tasks, Settle(u) PROVE RowInv'
  BY <1>10 DEF Settle, Mark, Found
<1>11. ASSUME NEW u \in Tasks, PersistDone(u) PROVE RowInv'
  BY <1>11 DEF PersistDone
<1>12. ASSUME NEW u \in Tasks, Fail(u) PROVE RowInv'
  BY <1>12 DEF Fail, Mark
<1>13. ASSUME NEW u \in Tasks, PersistFailed(u) PROVE RowInv'
  BY <1>13 DEF PersistFailed
<1>14. ASSUME NEW u \in Tasks, CheckBeforeSpawn(u) PROVE RowInv'
  BY <1>14 DEF CheckBeforeSpawn, Found
<1>15. ASSUME NEW u \in Tasks, Spawn(u) PROVE RowInv'
  BY <1>15 DEF Spawn
<1>16. ASSUME NEW u \in Tasks, RegisterWorker(u) PROVE RowInv'
  BY <1>16 DEF RegisterWorker
<1>17. ASSUME NEW u \in Tasks, RecheckAfterSpawn(u) PROVE RowInv'
  BY <1>17 DEF RecheckAfterSpawn, Found
<1>18. ASSUME NEW u \in Tasks, WaitResult(u) PROVE RowInv'
  BY <1>18 DEF WaitResult
<1>19. ASSUME NEW u \in Tasks, ClearWorker(u) PROVE RowInv'
  BY <1>19 DEF ClearWorker
<1>20. ASSUME NEW u \in Tasks, Judge(u) PROVE RowInv'
  BY <1>20 DEF Judge, Found
<1>21. ASSUME NEW u \in Tasks, ChildEnds(u) PROVE RowInv'
  BY <1>21 DEF ChildEnds
<1>22. ASSUME NEW u \in Tasks, FinalizeInline(u) PROVE RowInv'
  BY <1>22 DEF FinalizeInline, Mark
<1>23. ASSUME NEW u \in Tasks, TerminateWorker(u) PROVE RowInv'
  BY <1>23 DEF TerminateWorker
<1>24. ASSUME NEW c \in Cancels, CancelKill(c) PROVE RowInv'
  BY <1>24 DEF CancelKill
<1>25. ASSUME NEW c \in Cancels, CancelPersist(c) PROVE RowInv'
  BY <1>25 DEF CancelPersist
<1>26. ASSUME NEW c \in Cancels, NEW u \in Tasks, CancelRequest(c, u) PROVE RowInv'
  BY <1>26 DEF CancelRequest
<1>27. CASE BeginShutdown
  BY <1>27 DEF BeginShutdown
<1>28. CASE Exit
  BY <1>28 DEF Exit, GoDown
<1>29. CASE Crash
  BY <1>29 DEF Crash, GoDown
<1>30. CASE Restart
  BY <1>30 DEF Restart
<1>31. CASE UNCHANGED vars
  BY <1>31 DEF vars
<1>32. QED
  BY <1>1, <1>2, <1>3, <1>4, <1>5, <1>6, <1>7, <1>8, <1>9, <1>10, <1>11, <1>12, <1>13, <1>14,
     <1>15, <1>16, <1>17, <1>18, <1>19, <1>20, <1>21, <1>22, <1>23, <1>24, <1>25, <1>26, <1>27,
     <1>28, <1>29, <1>30, <1>31 DEF Next, RunnerStep

-----------------------------------------------------------------------------
(* The table *)

LEMMA StoreStep ==
  ASSUME TypeOK, NothingRunsWhenDown, RequestsAccepted, RowInv, StoreInv, [Next]_vars
  PROVE  StoreInv'
<1> USE DEF TypeOK, NothingRunsWhenDown, RequestsAccepted, RowInv, RowOf, StoreInv, StoreOf,
        BeforeStart, Terminal, rowVars, runVars, procVars, Goto, Running, Active
<1>1. ASSUME NEW u \in Tasks, Enqueue(u) PROVE StoreInv'
  BY <1>1 DEF Enqueue, NextTask, Evictable
<1>2. ASSUME NEW u \in Tasks, RegisterInline(u) PROVE StoreInv'
  BY <1>2 DEF RegisterInline, NextTask
<1>3. ASSUME NEW u \in Tasks, SaveRead(u) PROVE StoreInv'
  BY <1>3 DEF SaveRead
<1>4. ASSUME NEW u \in Tasks, SaveWrite(u) PROVE StoreInv'
  BY <1>4 DEF SaveWrite
<1>5. ASSUME NEW u \in Tasks, MarkRunning(u) PROVE StoreInv'
  BY <1>5 DEF MarkRunning, Mark
<1>6. ASSUME NEW u \in Tasks, PersistRunning(u) PROVE StoreInv'
  BY <1>6 DEF PersistRunning, Persist
<1>7. ASSUME NEW u \in Tasks, LoopTop(u) PROVE StoreInv'
  BY <1>7 DEF LoopTop, AbortSeen, Found
<1>8. ASSUME NEW u \in Tasks, RunOnce(u) PROVE StoreInv'
  BY <1>8 DEF RunOnce
<1>9. ASSUME NEW u \in Tasks, LoopBottom(u) PROVE StoreInv'
  BY <1>9 DEF LoopBottom, AbortSeen, Found
<1>10. ASSUME NEW u \in Tasks, Settle(u) PROVE StoreInv'
  BY <1>10 DEF Settle, Mark, Persist, Found
<1>11. ASSUME NEW u \in Tasks, PersistDone(u) PROVE StoreInv'
  BY <1>11 DEF PersistDone, Persist
<1>12. ASSUME NEW u \in Tasks, Fail(u) PROVE StoreInv'
  BY <1>12 DEF Fail, Mark
<1>13. ASSUME NEW u \in Tasks, PersistFailed(u) PROVE StoreInv'
  BY <1>13 DEF PersistFailed, Persist
<1>14. ASSUME NEW u \in Tasks, CheckBeforeSpawn(u) PROVE StoreInv'
  BY <1>14 DEF CheckBeforeSpawn, Persist, Found
<1>15. ASSUME NEW u \in Tasks, Spawn(u) PROVE StoreInv'
  BY <1>15 DEF Spawn
<1>16. ASSUME NEW u \in Tasks, RegisterWorker(u) PROVE StoreInv'
  BY <1>16 DEF RegisterWorker
<1>17. ASSUME NEW u \in Tasks, RecheckAfterSpawn(u) PROVE StoreInv'
  BY <1>17 DEF RecheckAfterSpawn, Persist, Found
<1>18. ASSUME NEW u \in Tasks, WaitResult(u) PROVE StoreInv'
  BY <1>18 DEF WaitResult
<1>19. ASSUME NEW u \in Tasks, ClearWorker(u) PROVE StoreInv'
  BY <1>19 DEF ClearWorker
<1>20. ASSUME NEW u \in Tasks, Judge(u) PROVE StoreInv'
  BY <1>20 DEF Judge, Persist, Found
<1>21. ASSUME NEW u \in Tasks, ChildEnds(u) PROVE StoreInv'
  BY <1>21 DEF ChildEnds
<1>22. ASSUME NEW u \in Tasks, FinalizeInline(u) PROVE StoreInv'
  BY <1>22 DEF FinalizeInline, Mark
<1>23. ASSUME NEW u \in Tasks, TerminateWorker(u) PROVE StoreInv'
  BY <1>23 DEF TerminateWorker
<1>24. ASSUME NEW c \in Cancels, CancelKill(c) PROVE StoreInv'
  BY <1>24 DEF CancelKill
<1>25. ASSUME NEW c \in Cancels, CancelPersist(c) PROVE StoreInv'
  BY <1>25 DEF CancelPersist, Persist
<1>26. ASSUME NEW c \in Cancels, NEW u \in Tasks, CancelRequest(c, u) PROVE StoreInv'
  BY <1>26 DEF CancelRequest
<1>27. CASE BeginShutdown
  BY <1>27 DEF BeginShutdown
<1>28. CASE Exit
  BY <1>28 DEF Exit, GoDown
<1>29. CASE Crash
  BY <1>29 DEF Crash, GoDown
<1>30. CASE Restart
  BY <1>30 DEF Restart
<1>31. CASE UNCHANGED vars
  BY <1>31 DEF vars
<1>32. QED
  BY <1>1, <1>2, <1>3, <1>4, <1>5, <1>6, <1>7, <1>8, <1>9, <1>10, <1>11, <1>12, <1>13, <1>14,
     <1>15, <1>16, <1>17, <1>18, <1>19, <1>20, <1>21, <1>22, <1>23, <1>24, <1>25, <1>26, <1>27,
     <1>28, <1>29, <1>30, <1>31 DEF Next, RunnerStep

\* The strengthening that makes the properties of rows and table inductive.
IInv == TypeOK /\ RoundsBelowCap /\ NothingRunsWhenDown /\ RequestsAccepted /\ RowInv /\ StoreInv

THEOREM Inductive == Spec => []IInv
<1>1. Init => IInv
  BY TypeInit DEF Init, IInv, NothingRunsWhenDown, RequestsAccepted, RowInv, RowOf, StoreInv, StoreOf,
     Idle, Active, Running, BeforeStart
<1>2. IInv /\ [Next]_vars => IInv'
  BY TypeStep, DownStep, RowStep, StoreStep DEF IInv
<1>3. QED BY <1>1, <1>2, PTL DEF Spec

\* A cancel accepted after the runner's start is undone by nothing but a failure.
THEOREM CancelsHonoured == Spec => []CancelHonoured
<1>1. IInv => CancelHonoured
  BY DEF IInv, TypeOK, RowInv, RowOf, StoreInv, StoreOf, CancelHonoured
<1>2. QED BY <1>1, Inductive, PTL

\* The outcome of a task nobody cancelled is in the table once its runner returned.
THEOREM OutcomesRecoverable == Spec => []OutcomeRecoverable
<1>1. IInv => OutcomeRecoverable
  BY DEF IInv, StoreInv, StoreOf, OutcomeRecoverable
<1>2. QED BY <1>1, Inductive, PTL

\* No row of the table is left queued or running without code that will write it.
THEOREM NoStuckRows == Spec => []NoStuckRow
<1>1. IInv => NoStuckRow
  <2> SUFFICES ASSUME IInv, up = "serving", ~LossyStore,
                      NEW t \in Tasks, db[t] \in {"queued", "running"}
               PROVE  Active(t) \/ (accepted[t] = "early" /\ t \notin registry)
    BY DEF NoStuckRow
  <2>1. CASE pc[t] \in {"new", "exit", "lost"}
    BY <2>1 DEF IInv, StoreInv, StoreOf, Running
  <2>2. QED BY <2>1 DEF Active
<1>2. QED BY <1>1, Inductive, PTL

-----------------------------------------------------------------------------
(* Killing the worker process of a cancelled task *)

\* A runner past the registration of its worker has put the handle into the row,
\* where a cancel finds it, unless the row was evicted, and an exception of the wait leaves
\* it there until the except clause runs; no row outlives its server.
HandleInv ==
  /\ \A t \in Tasks : verdict[t] \in {"raised", "orphan"} => pc[t] \in {"fail", "persistFailed", "exit", "lost"}
  /\ \A t \in registry : /\ pc[t] # "lost"
                         /\ pc[t] \in {"recheck", "wait"} => handle[t] = TRUE
                         /\ (pc[t] = "fail" /\ verdict[t] = "raised") => handle[t] = TRUE

\* While the row of a cancelled task is there and its worker process lives, somebody is
\* about to kill it: the runner, which looks at the row once more after the spawn, or the
\* request that found the handle. A process whose spawn raised is in nobody's hands.
KillUnderWay ==
  \A t \in Tasks : child[t] = "live" /\ Found(t, "cancelled") /\ verdict[t] # "orphan" =>
    \/ pc[t] \in {"register", "recheck"}
    \/ \E c \in Cancels : cancel[c].at = "kill" /\ cancel[c].task = t

LEMMA KillStep ==
  ASSUME TypeOK, ChildAccounted, HandleInv, KillUnderWay, [Next]_vars
  PROVE  HandleInv' /\ KillUnderWay'
<1> USE DEF TypeOK, ChildAccounted, LeftByException, HandleInv, KillUnderWay, Found, Terminal, Idle,
            rowVars, runVars, procVars, Goto, Mark, Running, Active
<1>1. ASSUME NEW u \in Tasks, Enqueue(u) PROVE HandleInv' /\ KillUnderWay'
  BY <1>1 DEF Enqueue, NextTask
<1>2. ASSUME NEW u \in Tasks, RegisterInline(u) PROVE HandleInv' /\ KillUnderWay'
  BY <1>2 DEF RegisterInline, NextTask
<1>3. ASSUME NEW u \in Tasks, SaveRead(u) PROVE HandleInv' /\ KillUnderWay'
  BY <1>3 DEF SaveRead
<1>4. ASSUME NEW u \in Tasks, SaveWrite(u) PROVE HandleInv' /\ KillUnderWay'
  BY <1>4 DEF SaveWrite
<1>5. ASSUME NEW u \in Tasks, MarkRunning(u) PROVE HandleInv' /\ KillUnderWay'
  BY <1>5 DEF MarkRunning
<1>6. ASSUME NEW u \in Tasks, PersistRunning(u) PROVE HandleInv' /\ KillUnderWay'
  BY <1>6 DEF PersistRunning
<1>7. ASSUME NEW u \in Tasks, LoopTop(u) PROVE HandleInv' /\ KillUnderWay'
  BY <1>7 DEF LoopTop
<1>8. ASSUME NEW u \in Tasks, RunOnce(u) PROVE HandleInv' /\ KillUnderWay'
  BY <1>8 DEF RunOnce
<1>9. ASSUME NEW u \in Tasks, LoopBottom(u) PROVE HandleInv' /\ KillUnderWay'
  BY <1>9 DEF LoopBottom
<1>10. ASSUME NEW u \in Tasks, Settle(u) PROVE HandleInv' /\ KillUnderWay'
  BY <1>10 DEF Settle
<1>11. ASSUME NEW u \in Tasks, PersistDone(u) PROVE HandleInv' /\ KillUnderWay'
  BY <1>11 DEF PersistDone
<1>12. ASSUME NEW u \in Tasks, Fail(u) PROVE HandleInv' /\ KillUnderWay'
  BY <1>12 DEF Fail
<1>13. ASSUME NEW u \in Tasks, PersistFailed(u) PROVE HandleInv' /\ KillUnderWay'
  BY <1>13 DEF PersistFailed
<1>14. ASSUME NEW u \in Tasks, CheckBeforeSpawn(u) PROVE HandleInv' /\ KillUnderWay'
  BY <1>14 DEF CheckBeforeSpawn
<1>15. ASSUME NEW u \in Tasks, Spawn(u) PROVE HandleInv' /\ KillUnderWay'
  BY <1>15 DEF Spawn
<1>16. ASSUME NEW u \in Tasks, RegisterWorker(u) PROVE HandleInv' /\ KillUnderWay'
  <2>1. \A t \in Tasks : pc'[t] # "lost" \/ pc[t] = "lost"
    BY <1>16 DEF RegisterWorker
  <2>2. \A t \in Tasks : t # u => pc'[t] = pc[t] /\ handle'[t] = handle[t]
    BY <1>16 DEF RegisterWorker
  <2>3. handle'[u] = (u \in registry)
    BY <1>16 DEF RegisterWorker
  <2>4. UNCHANGED <<registry, status, verdict, child, cancel>> /\ pc'[u] = "recheck"
    BY <1>16 DEF RegisterWorker
  <2>5. HandleInv'
    <3>1. u \in registry => handle'[u] = TRUE
      BY <2>3, Zenon
    <3>2. pc[u] = "register"
      BY <1>16 DEF RegisterWorker
    <3>3. QED BY <2>1, <2>2, <2>4, <3>1, <3>2
  <2>6. KillUnderWay'
    BY <2>2, <2>4
  <2>7. QED BY <2>5, <2>6
<1>17. ASSUME NEW u \in Tasks, RecheckAfterSpawn(u) PROVE HandleInv' /\ KillUnderWay'
  BY <1>17 DEF RecheckAfterSpawn
<1>18. ASSUME NEW u \in Tasks, WaitResult(u) PROVE HandleInv' /\ KillUnderWay'
  BY <1>18 DEF WaitResult
<1>19. ASSUME NEW u \in Tasks, ClearWorker(u) PROVE HandleInv' /\ KillUnderWay'
  BY <1>19 DEF ClearWorker
<1>20. ASSUME NEW u \in Tasks, Judge(u) PROVE HandleInv' /\ KillUnderWay'
  BY <1>20 DEF Judge
<1>21. ASSUME NEW u \in Tasks, ChildEnds(u) PROVE HandleInv' /\ KillUnderWay'
  BY <1>21 DEF ChildEnds
<1>22. ASSUME NEW u \in Tasks, FinalizeInline(u) PROVE HandleInv' /\ KillUnderWay'
  BY <1>22 DEF FinalizeInline
<1>23. ASSUME NEW u \in Tasks, TerminateWorker(u) PROVE HandleInv' /\ KillUnderWay'
  BY <1>23 DEF TerminateWorker
<1>24. ASSUME NEW c \in Cancels, CancelKill(c) PROVE HandleInv' /\ KillUnderWay'
  BY <1>24 DEF CancelKill
<1>25. ASSUME NEW c \in Cancels, CancelPersist(c) PROVE HandleInv' /\ KillUnderWay'
  BY <1>25 DEF CancelPersist
<1>26. ASSUME NEW c \in Cancels, NEW u \in Tasks, CancelRequest(c, u) PROVE HandleInv' /\ KillUnderWay'
  BY <1>26 DEF CancelRequest
<1>27. CASE BeginShutdown
  BY <1>27 DEF BeginShutdown
<1>28. CASE Exit
  BY <1>28 DEF Exit, GoDown
<1>29. CASE Crash
  BY <1>29 DEF Crash, GoDown
<1>30. CASE Restart
  BY <1>30 DEF Restart
<1>31. CASE UNCHANGED vars
  BY <1>31 DEF vars
<1>32. QED
  BY <1>1, <1>2, <1>3, <1>4, <1>5, <1>6, <1>7, <1>8, <1>9, <1>10, <1>11, <1>12, <1>13, <1>14,
     <1>15, <1>16, <1>17, <1>18, <1>19, <1>20, <1>21, <1>22, <1>23, <1>24, <1>25, <1>26, <1>27,
     <1>28, <1>29, <1>30, <1>31 DEF Next, RunnerStep

\* A cancel never falls between the runner's second look and the registration of the
\* worker: it is what HardCancel needs of the order of the steps, the rest is fairness.
THEOREM KillsUnderWay == Spec => []KillUnderWay
<1>1. Init => HandleInv /\ KillUnderWay
  BY DEF Init, HandleInv, KillUnderWay, Found
<1>2. QED BY <1>1, KillStep, TypeCorrect, ChildrenAccounted, PTL DEF Spec
=============================================================================
