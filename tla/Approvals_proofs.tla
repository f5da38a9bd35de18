------------------------- MODULE Approvals_proofs -------------------------
(***************************************************************************)
(* Proofs about Approvals, for every number of entries, requests and       *)
(* crashes, every cap, and whether or not a write may fail.                *)
(***************************************************************************)
EXTENDS Approvals, FiniteSetTheorems, TLAPS

\* Only the holder of _approve_lock is busy, there is one, and it holds a queued entry.
LockInv ==
  /\ \A t \in Operators : op[t].at # "idle" => t \in held /\ op[t].entry \in 1 .. queued
  /\ \A t, u \in held : t = u

\* An idle request holds no list; from the moment the list has
\* the decision the entry is no longer pending in it, and from the write of "approved"
\* until the tool has run neither in the file.
ListInv ==
  \A t \in Operators :
    /\ op[t].at = "idle" => op[t].list = Nothing
    /\ op[t].at \in {"expire", "mark", "run", "finish", "deny"} => op[t].list[op[t].entry] # "pending"
    /\ op[t].at \in {"check", "mark", "run", "expire", "deny"} => ~Decided(op[t].entry)
    /\ op[t].at = "finish" => op[t].entry \notin refused
    /\ op[t].at \in {"run", "finish"} => file[op[t].entry] # "pending"

\* What has not been queued has no history and is in no list.
FutureInv ==
  \A e \in E : e > queued =>
    ~Decided(e) /\ file[e] # "pending" /\ \A t \in Operators : op[t].list[e] # "pending"

Inv ==
  /\ TypeOK /\ LockInv /\ ListInv /\ FutureInv
  /\ AtMostOnce /\ DenialIsFinal /\ DecidedStaysDecided

-----------------------------------------------------------------------------
\* Reading returns entries that are pending in the file.
LEMMA LiveIsPending ==
  ASSUME NEW e \in Live
  PROVE  e \in E /\ file[e] = "pending" /\ age[e] = "fresh"
BY DEF Live, Newest, Actionable, Data, Nothing

\* A list of entries is a list.
LEMMA ListedType ==
  ASSUME NEW S
  PROVE  /\ Listed(S) \in [E -> Status]
         /\ \A e \in E : Listed(S)[e] = "pending" <=> e \in S
BY DEF Listed, Status

\* Self-healing makes nothing pending that was not.
LEMMA HealAddsNothing ==
  ASSUME TypeOK, Heal
  PROVE  /\ file' \in [E -> Status] /\ torn' = torn
         /\ \A e \in E : file'[e] = "pending" => file[e] = "pending"
BY LiveIsPending, ListedType DEF Heal, TypeOK

\* Queueing keeps pending entries and adds the new one.
LEMMA QueueAddsOne ==
  ASSUME TypeOK, Queue
  PROVE  /\ file' \in [E -> Status]
         /\ \A e \in E : file'[e] = "pending" => file[e] = "pending" \/ e = queued + 1
<1> DEFINE kept == Newest({e \in E : Data[e] = "pending" /\ age[e] # "ancient"}, QueueCap)
<1>1. file' = Listed(kept \cup {queued + 1})
  BY DEF Queue
<1>2. \A e \in kept : file[e] = "pending"
  BY DEF Newest, Data, Nothing
<1> HIDE DEF kept
<1>3. QED
  BY <1>1, <1>2, ListedType

\* A request at rest, and one step of a request's record.
LEMMA IdleOpType == IdleOp \in Op /\ Nothing \in [E -> Status]
<1>1. 0 \in 0 .. MaxEntries
  BY ApprovalsAssumption
<1>2. QED
  BY <1>1 DEF IdleOp, Op, Nothing, Status

LEMMA OpFields ==
  ASSUME NEW x \in Op
  PROVE  x.entry \in 0 .. MaxEntries /\ x.list \in [E -> Status]
BY DEF Op

LEMMA OpMade ==
  ASSUME NEW at \in {"idle", "check", "expire", "mark", "run", "finish", "deny"},
         NEW e \in 0 .. MaxEntries, NEW list \in [E -> Status], NEW s \in Status
  PROVE  /\ [at |-> at, entry |-> e, list |-> list] \in Op
         /\ [at |-> at, entry |-> e, list |-> [list EXCEPT ![e] = s]] \in Op
BY DEF Op

LEMMA OpMoved ==
  ASSUME NEW x \in Op, NEW at \in {"idle", "check", "expire", "mark", "run", "finish", "deny"}
  PROVE  [x EXCEPT !.at = at] = [at |-> at, entry |-> x.entry, list |-> x.list]
BY DEF Op

-----------------------------------------------------------------------------
\* TypeOK is inductive.
LEMMA TypeStep == ASSUME TypeOK, LockInv, [Next]_vars PROVE TypeOK'
<1> USE IdleOpType DEF TypeOK, vars
<1>1. CASE Queue
  <2>1. queued + 1 \in 0 .. MaxEntries
    BY <1>1, ApprovalsAssumption DEF Queue
  <2>2. QED
    BY <1>1, <2>1, QueueAddsOne DEF Queue
<1>2. CASE ListPending
  BY <1>2, HealAddsNothing DEF ListPending, Heal
<1>3. CASE Clear
  BY <1>3 DEF Clear, Save, SaveFails
<1>4. CASE Crash
  <2>1. crashes' \in Nat
    BY <1>4 DEF Crash
  <2>2. torn' \in BOOLEAN
    BY <1>4, Zenon DEF Crash
  <2>3. op' \in [Operators -> Op] /\ held' \subseteq Operators
    BY <1>4 DEF Crash
  <2>4. QED
    BY <1>4, <2>1, <2>3, <2>2 DEF Crash
<1>5. ASSUME NEW e \in E, Older(e)
      PROVE  TypeOK'
  BY <1>5 DEF Older, Ages
<1>6. ASSUME NEW t \in Operators, NEW e \in E, NEW what \in {"approve", "deny"}, Begin(t, e, what)
      PROVE  TypeOK'
  <2>1. e \in 0 .. MaxEntries
    BY DEF E
  <2>2. Listed(Live) \in [E -> Status] /\ "denied" \in Status
    BY ListedType DEF Status
  <2>3. op' \in [Operators -> Op]
    <3>1. [at |-> "check", entry |-> e, list |-> Listed(Live)] \in Op
      BY <2>1, <2>2, OpMade
    <3>2. [at |-> "deny", entry |-> e, list |-> [Listed(Live) EXCEPT ![e] = "denied"]] \in Op
      BY <2>1, <2>2, OpMade
    <3>3. QED
      BY <1>6, <3>1, <3>2 DEF Begin
  <2>4. QED
    BY <1>6, <2>3, HealAddsNothing DEF Begin
<1>7. ASSUME NEW t \in Operators, Check(t)
      PROVE  TypeOK'
  <2>1. op[t].entry \in 0 .. MaxEntries /\ op[t].list \in [E -> Status]
    BY OpFields
  <2>2. op' \in [Operators -> Op]
    BY <1>7, <2>1, OpMade DEF Check, Status
  <2>3. QED
    BY <1>7, <2>2 DEF Check
<1>8. ASSUME NEW t \in Operators, Mark(t)
      PROVE  TypeOK'
  <2>1. op[t].entry \in 0 .. MaxEntries /\ op[t].list \in [E -> Status]
    BY OpFields
  <2>2. op' = [op EXCEPT ![t] = [at |-> "run", entry |-> op[t].entry, list |-> op[t].list]]
    BY <1>8, OpMoved DEF Mark
  <2>3. op' \in [Operators -> Op]
    BY <2>1, <2>2, OpMade DEF Status
  <2>4. QED
    BY <1>8, <2>1, <2>3 DEF Mark, Save
<1>9. ASSUME NEW t \in Operators, RunTool(t)
      PROVE  TypeOK'
  <2>1. op[t].entry \in 0 .. MaxEntries /\ op[t].list \in [E -> Status]
    BY OpFields
  <2>2. [at |-> "finish", entry |-> op[t].entry,
         list |-> [op[t].list EXCEPT ![op[t].entry] = "executed"]] \in Op
    BY <2>1, OpMade DEF Status
  <2>3. op' \in [Operators -> Op]
    BY <1>9, <2>2 DEF RunTool
  <2>4. runs' \in [E -> Nat]
    <3>1. PICK n \in {0, 1} : runs' = [runs EXCEPT ![op[t].entry] = runs[op[t].entry] + n]
      BY <1>9 DEF RunTool
    <3>2. op[t].entry \in E
      BY <1>9, ApprovalsAssumption DEF LockInv, E, RunTool
    <3>3. QED
      BY <3>1, <3>2
  <2>5. QED
    BY <1>9, <2>3, <2>4 DEF RunTool
<1>10. ASSUME NEW t \in Operators, Finish(t)
      PROVE  TypeOK'
  <2>1. op[t].entry \in 0 .. MaxEntries /\ op[t].list \in [E -> Status]
    BY OpFields
  <2>2. op' \in [Operators -> Op]
    BY <1>10 DEF Finish, Release
  <2>3. QED
    BY <1>10, <2>1, <2>2 DEF Finish, Release, Save, SaveFails
<1>11. ASSUME NEW t \in Operators, DenyWrite(t)
      PROVE  TypeOK'
  <2>1. op[t].entry \in 0 .. MaxEntries /\ op[t].list \in [E -> Status]
    BY OpFields
  <2>2. op' \in [Operators -> Op]
    BY <1>11 DEF DenyWrite, Release
  <2>3. op[t].entry \in E
    BY ApprovalsAssumption, <1>11 DEF DenyWrite, LockInv, E
  <2>4. QED
    BY <1>11, <2>1, <2>2, <2>3 DEF DenyWrite, Release, Save, SaveFails
<1>12. ASSUME NEW t \in Operators, WriteFails(t)
      PROVE  TypeOK'
  <2>1. op[t].entry \in 0 .. MaxEntries /\ op[t].list \in [E -> Status]
    BY OpFields
  <2>2. op' \in [Operators -> Op]
    BY <1>12 DEF WriteFails, Release
  <2>3. QED
    BY <1>12, <2>1, <2>2 DEF WriteFails, Release, Save, SaveFails
<1>13. CASE UNCHANGED vars
  BY <1>13 DEF vars
<1>14. QED
  BY <1>1, <1>2, <1>3, <1>4, <1>5, <1>6, <1>7, <1>8, <1>9, <1>10, <1>11, <1>12, <1>13 DEF Next,
     Operate

\* The lock is exclusive.
LEMMA LockStep == ASSUME TypeOK, LockInv, FutureInv, [Next]_vars PROVE LockInv'
<1> USE DEF TypeOK, LockInv, vars, IdleOp
<1>1. CASE Queue
  BY <1>1 DEF Queue
<1>2. CASE ListPending
  BY <1>2 DEF ListPending, Heal
<1>3. CASE Clear
  BY <1>3 DEF Clear, Save, SaveFails
<1>4. CASE Crash
  BY <1>4 DEF Crash
<1>5. ASSUME NEW e \in E, Older(e)
      PROVE  LockInv'
  BY <1>5 DEF Older
<1>6. ASSUME NEW t \in Operators, NEW e \in E, NEW what \in {"approve", "deny"}, Begin(t, e, what)
      PROVE  LockInv'
  <2>1. file[e] = "pending" /\ e \in E
    BY <1>6, LiveIsPending DEF Begin
  <2>2. e \in 1 .. queued
    BY <2>1, ApprovalsAssumption DEF FutureInv, E
  <2>3. held = {} /\ held' = {t} /\ queued' = queued
    BY <1>6 DEF Begin
  <2>4. op'[t].entry = e /\ \A u \in Operators : u # t => op'[u] = op[u]
    BY <1>6 DEF Begin
  <2>5. QED
    BY <2>2, <2>3, <2>4
<1>7. ASSUME NEW t \in Operators, Check(t)
      PROVE  LockInv'
  BY <1>7 DEF Check
<1>8. ASSUME NEW t \in Operators, Mark(t)
      PROVE  LockInv'
  BY <1>8 DEF Mark, Save
<1>9. ASSUME NEW t \in Operators, RunTool(t)
      PROVE  LockInv'
  BY <1>9 DEF RunTool
<1>10. ASSUME NEW t \in Operators, Finish(t)
      PROVE  LockInv'
  BY <1>10 DEF Finish, Save, Release
<1>11. ASSUME NEW t \in Operators, DenyWrite(t)
      PROVE  LockInv'
  BY <1>11 DEF DenyWrite, Save, Release
<1>12. ASSUME NEW t \in Operators, WriteFails(t)
      PROVE  LockInv'
  BY <1>12 DEF WriteFails, SaveFails, Release
<1>13. CASE UNCHANGED vars
  BY <1>13 DEF vars
<1>14. QED
  BY <1>1, <1>2, <1>3, <1>4, <1>5, <1>6, <1>7, <1>8, <1>9, <1>10, <1>11, <1>12, <1>13 DEF Next,
     Operate

\* The other parts of the invariant.
LEMMA InvStep ==
  ASSUME Inv, [Next]_vars
  PROVE  ListInv' /\ FutureInv' /\ AtMostOnce' /\ DenialIsFinal' /\ DecidedStaysDecided'
<1> USE DEF Inv, TypeOK, ListInv, FutureInv, AtMostOnce, DenialIsFinal, DecidedStaysDecided, Decided, vars
<1>1. \A t \in Operators : op[t].at # "idle" => op[t].entry \in E
  BY ApprovalsAssumption DEF LockInv, E
<1>2. CASE Queue
  <2>1. \A e \in E : file'[e] = "pending" => file[e] = "pending" \/ e = queued + 1
    BY <1>2, QueueAddsOne
  <2>2. queued' = queued + 1 /\ UNCHANGED <<op, runs, refused>>
    BY <1>2 DEF Queue
  <2>3. \A e \in E : e > queued =>
          ~Decided(e) /\ file[e] # "pending" /\ \A t \in Operators : op[t].list[e] # "pending"
    BY DEF FutureInv
  <2>4. \A t \in Operators : op[t].at # "idle" => op[t].entry \in 1 .. queued
    BY DEF LockInv
  <2>5. queued \in Nat /\ E \subseteq Nat
    BY DEF E
  <2>6. ListInv'
    BY <1>1, <2>1, <2>2, <2>4, <2>5
  <2>7. FutureInv'
    BY <2>1, <2>2, <2>3, <2>5
  <2>8. DecidedStaysDecided'
    BY <2>1, <2>2, <2>3, <2>5
  <2>9. QED
    BY <2>2, <2>6, <2>7, <2>8
<1>3. CASE ListPending
  <2>1. (\A e \in E : file'[e] = "pending" => file[e] = "pending") /\ UNCHANGED <<queued, op, runs, refused>>
    BY <1>3, HealAddsNothing DEF ListPending
  <2>2. QED
    BY <1>1, <2>1
<1>4. CASE Clear
  <2>1. (\A e \in E : file'[e] = "pending" => file[e] = "pending") /\ UNCHANGED <<queued, op, runs, refused>>
    BY <1>4 DEF Clear, Save, SaveFails, Nothing
  <2>2. QED
    BY <1>1, <2>1
<1>5. CASE Crash
  BY <1>5 DEF Crash, IdleOp, Nothing
<1>6. ASSUME NEW e \in E, Older(e)
      PROVE  ListInv' /\ FutureInv' /\ AtMostOnce' /\ DenialIsFinal' /\ DecidedStaysDecided'
  BY <1>6 DEF Older
<1>7. ASSUME NEW t \in Operators, NEW e \in E, NEW what \in {"approve", "deny"}, Begin(t, e, what)
      PROVE  ListInv' /\ FutureInv' /\ AtMostOnce' /\ DenialIsFinal' /\ DecidedStaysDecided'
  <2>1. \A x \in E : file'[x] = "pending" => file[x] = "pending"
    BY <1>7, HealAddsNothing DEF Begin
  <2>2. UNCHANGED <<queued, runs, refused>> /\ e \in E /\ file[e] = "pending"
    BY <1>7, LiveIsPending DEF Begin
  <2>3. \A u \in Operators : u # t => op[u].at = "idle" /\ op'[u] = op[u]
    BY <1>7 DEF LockInv, Begin
  <2>4. op'[t].entry = e /\ op'[t].at \in {"check", "deny"}
    BY <1>7 DEF Begin
  <2>5. \A x \in E : op'[t].list[x] = "pending" => file[x] = "pending"
    BY <1>7, ListedType, LiveIsPending DEF Begin
  <2>6. op'[t].at = "deny" => op'[t].list[e] # "pending"
    BY <1>7, ListedType DEF Begin
  <2>7. ListInv'
    BY <2>1, <2>2, <2>3, <2>4, <2>6
  <2>8. FutureInv'
    BY <2>1, <2>2, <2>3, <2>5
  <2>9. DecidedStaysDecided'
    BY <2>1, <2>2, <2>3, <2>5
  <2>10. QED
    BY <2>2, <2>7, <2>8, <2>9
<1>8. ASSUME NEW t \in Operators, Check(t)
      PROVE  ListInv' /\ FutureInv' /\ AtMostOnce' /\ DenialIsFinal' /\ DecidedStaysDecided'
  <2>1. op[t] \in Op /\ op[t].entry \in E /\ op[t].list \in [E -> Status]
    BY <1>8, OpFields, ApprovalsAssumption DEF LockInv, E, Check
  <2>2. \A u \in Operators : u # t => op[u].at = "idle" /\ op[u].list = Nothing /\ op'[u] = op[u]
    BY <1>8 DEF LockInv, Check
  <2>3. PICK a \in {"expire", "mark"}, s \in {"expired", "approved"} : 
         op'[t] = [at |-> a, entry |-> op[t].entry, list |-> [op[t].list EXCEPT ![op[t].entry] = s]]
    BY <1>8 DEF Check
  <2>4. UNCHANGED <<file, queued, runs, refused>> /\ ~Decided(op[t].entry)
    BY <1>8 DEF Check
  <2>5. QED
    <3>1. ListInv'
      BY <2>1, <2>2, <2>3, <2>4 DEF Nothing
    <3>2. FutureInv'
      BY <2>1, <2>2, <2>3, <2>4 DEF Nothing
    <3>3. AtMostOnce' /\ DenialIsFinal'
      BY <2>1, <2>2, <2>3, <2>4 DEF Nothing
    <3>4. DecidedStaysDecided'
      BY <2>1, <2>2, <2>3, <2>4 DEF Nothing
    <3>5. QED
      BY <3>1, <3>2, <3>3, <3>4
<1>9. ASSUME NEW t \in Operators, Mark(t)
      PROVE  ListInv' /\ FutureInv' /\ AtMostOnce' /\ DenialIsFinal' /\ DecidedStaysDecided'
  <2>1. op[t] \in Op /\ op[t].entry \in E /\ op[t].list \in [E -> Status]
    BY <1>9, OpFields, ApprovalsAssumption DEF LockInv, E, Mark
  <2>2. \A u \in Operators : u # t => op[u].at = "idle" /\ op[u].list = Nothing /\ op'[u] = op[u]
    BY <1>9 DEF LockInv, Mark
  <2>3. op'[t] = [at |-> "run", entry |-> op[t].entry, list |-> op[t].list]
    BY <1>9, <2>1, OpMoved DEF Mark
  <2>4. file' = op[t].list /\ UNCHANGED <<queued, runs, refused>>
    BY <1>9 DEF Mark, Save
  <2>5. ~Decided(op[t].entry) /\ op[t].list[op[t].entry] # "pending"
    BY <1>9 DEF Mark
  <2>6. QED
    <3>1. ListInv'
      BY <2>1, <2>2, <2>3, <2>4, <2>5 DEF Nothing
    <3>2. FutureInv'
      BY <2>1, <2>2, <2>3, <2>4, <2>5 DEF Nothing
    <3>3. AtMostOnce' /\ DenialIsFinal'
      BY <2>1, <2>2, <2>3, <2>4, <2>5 DEF Nothing
    <3>4. DecidedStaysDecided'
      BY <2>1, <2>2, <2>3, <2>4, <2>5 DEF Nothing
    <3>5. QED
      BY <3>1, <3>2, <3>3, <3>4
<1>10. ASSUME NEW t \in Operators, RunTool(t)
      PROVE  ListInv' /\ FutureInv' /\ AtMostOnce' /\ DenialIsFinal' /\ DecidedStaysDecided'
  <2>1. op[t] \in Op /\ op[t].entry \in E /\ op[t].list \in [E -> Status]
    BY <1>10, OpFields, ApprovalsAssumption DEF LockInv, E, RunTool
  <2>2. \A u \in Operators : u # t => op[u].at = "idle" /\ op[u].list = Nothing /\ op'[u] = op[u]
    BY <1>10 DEF LockInv, RunTool
  <2>3. op'[t] = [at |-> "finish", entry |-> op[t].entry,
                  list |-> [op[t].list EXCEPT ![op[t].entry] = "executed"]]
    BY <1>10 DEF RunTool
  <2>4. PICK n \in {0, 1} : runs' = [runs EXCEPT ![op[t].entry] = runs[op[t].entry] + n]
    BY <1>10 DEF RunTool
  <2>5. /\ UNCHANGED <<file, queued, refused>>
        /\ runs[op[t].entry] = 0 /\ op[t].entry \notin refused
        /\ file[op[t].entry] # "pending" /\ op[t].list[op[t].entry] # "pending"
    BY <1>10, <2>1 DEF RunTool
  <2>6. op[t].entry \in 1 .. queued /\ queued \in Nat
    BY <1>10 DEF LockInv, RunTool
  <2>7. QED
    <3>1. ListInv'
      BY <2>1, <2>2, <2>3, <2>4, <2>5 DEF Nothing
    <3>2. FutureInv'
      BY <2>1, <2>2, <2>3, <2>4, <2>5, <2>6 DEF Nothing
    <3>3. AtMostOnce' /\ DenialIsFinal'
      BY <2>1, <2>2, <2>3, <2>4, <2>5 DEF Nothing
    <3>4. DecidedStaysDecided'
      BY <2>1, <2>2, <2>3, <2>4, <2>5 DEF Nothing
    <3>5. QED
      BY <3>1, <3>2, <3>3, <3>4
<1>11. ASSUME NEW t \in Operators, Finish(t)
      PROVE  ListInv' /\ FutureInv' /\ AtMostOnce' /\ DenialIsFinal' /\ DecidedStaysDecided'
  <2>1. op[t] \in Op /\ op[t].entry \in E /\ op[t].list \in [E -> Status]
    BY <1>11, OpFields, ApprovalsAssumption DEF LockInv, E, Finish
  <2>2. \A u \in Operators : u # t => op[u].at = "idle" /\ op[u].list = Nothing /\ op'[u] = op[u]
    BY <1>11 DEF LockInv, Finish, Release
  <2>3. op'[t] = IdleOp /\ file' = op[t].list /\ UNCHANGED <<queued, runs>>
    BY <1>11 DEF Finish, Release, Save
  <2>4. refused' = refused
    BY <1>11 DEF Finish
  <2>5. QED
    <3>1. ListInv'
      BY <2>1, <2>2, <2>3, <2>4 DEF IdleOp, Nothing
    <3>2. FutureInv'
      BY <2>1, <2>2, <2>3, <2>4 DEF IdleOp, Nothing
    <3>3. AtMostOnce' /\ DenialIsFinal'
      BY <2>1, <2>2, <2>3, <2>4 DEF IdleOp, Nothing
    <3>4. DecidedStaysDecided'
      BY <2>1, <2>2, <2>3, <2>4 DEF IdleOp, Nothing
    <3>5. QED
      BY <3>1, <3>2, <3>3, <3>4
<1>12. ASSUME NEW t \in Operators, DenyWrite(t)
      PROVE  ListInv' /\ FutureInv' /\ AtMostOnce' /\ DenialIsFinal' /\ DecidedStaysDecided'
  <2>1. op[t] \in Op /\ op[t].entry \in E /\ op[t].list \in [E -> Status]
    BY <1>12, OpFields, ApprovalsAssumption DEF LockInv, E, DenyWrite
  <2>2. \A u \in Operators : u # t => op[u].at = "idle" /\ op[u].list = Nothing /\ op'[u] = op[u]
    BY <1>12 DEF LockInv, DenyWrite, Release
  <2>3. op'[t] = IdleOp /\ file' = op[t].list /\ UNCHANGED <<queued, runs>>
    BY <1>12 DEF DenyWrite, Release, Save
  <2>4. /\ refused' = refused \cup {op[t].entry}
        /\ runs[op[t].entry] = 0 /\ op[t].list[op[t].entry] # "pending"
    BY <1>12, <2>1 DEF DenyWrite
  <2>5. op[t].entry \in 1 .. queued /\ queued \in Nat
    BY <1>12 DEF LockInv, DenyWrite
  <2>6. QED
    <3>1. ListInv'
      BY <2>1, <2>2, <2>3, <2>4 DEF IdleOp, Nothing
    <3>2. FutureInv'
      BY <2>1, <2>2, <2>3, <2>4, <2>5 DEF IdleOp, Nothing
    <3>3. AtMostOnce' /\ DenialIsFinal'
      BY <2>1, <2>2, <2>3, <2>4 DEF IdleOp, Nothing
    <3>4. DecidedStaysDecided'
      BY <2>1, <2>2, <2>3, <2>4 DEF IdleOp, Nothing
    <3>5. QED
      BY <3>1, <3>2, <3>3, <3>4
<1>13. ASSUME NEW t \in Operators, WriteFails(t)
      PROVE  ListInv' /\ FutureInv' /\ AtMostOnce' /\ DenialIsFinal' /\ DecidedStaysDecided'
  BY <1>13 DEF WriteFails, SaveFails, Release, IdleOp, Nothing
<1>14. CASE UNCHANGED vars
  BY <1>14 DEF vars
<1>15. QED
  BY <1>2, <1>3, <1>4, <1>5, <1>6, <1>7, <1>8, <1>9, <1>10, <1>11, <1>12, <1>13, <1>14 DEF Next,
     Operate

LEMMA InvHolds == Spec => []Inv
<1>1. Init => Inv
  <2> SUFFICES ASSUME Init PROVE Inv
    OBVIOUS
  <2>1. TypeOK
    <3>1. 0 \in 0 .. MaxEntries
      BY ApprovalsAssumption
    <3>2. age \in [E -> Ages]
      BY DEF Init, Ages
    <3>3. QED
      BY <3>1, <3>2, IdleOpType DEF Init, TypeOK
  <2>2. QED
    BY <2>1 DEF Init, Inv, LockInv, ListInv, FutureInv, AtMostOnce, DenialIsFinal,
       DecidedStaysDecided, Decided, Nothing, IdleOp
<1>2. Inv /\ [Next]_vars => Inv'
  BY TypeStep, LockStep, InvStep DEF Inv
<1>3. QED
  BY <1>1, <1>2, PTL DEF Spec

LEMMA ExpiryStep ==
  ASSUME Inv, [Next]_vars, NEW x \in E, age[x] # "fresh", ~Passed(x)
  PROVE  ~Passed(x)' /\ runs'[x] = runs[x]
<1> USE DEF Inv, TypeOK, ListInv, Passed, vars
<1>1. CASE Queue
  BY <1>1 DEF Queue
<1>2. CASE ListPending
  BY <1>2 DEF ListPending, Heal
<1>3. CASE Clear
  BY <1>3 DEF Clear, Save, SaveFails
<1>4. CASE Crash
  BY <1>4 DEF Crash, IdleOp
<1>5. ASSUME NEW e \in E, Older(e)
      PROVE  ~Passed(x)' /\ runs'[x] = runs[x]
  BY <1>5 DEF Older
<1>6. ASSUME NEW t \in Operators, NEW e \in E, NEW what \in {"approve", "deny"}, Begin(t, e, what)
      PROVE  ~Passed(x)' /\ runs'[x] = runs[x]
  BY <1>6 DEF Begin, Heal
<1>7. ASSUME NEW t \in Operators, Check(t)
      PROVE  ~Passed(x)' /\ runs'[x] = runs[x]
  BY <1>7 DEF Check
<1>8. ASSUME NEW t \in Operators, Mark(t)
      PROVE  ~Passed(x)' /\ runs'[x] = runs[x]
  BY <1>8 DEF Mark, Save
<1>9. ASSUME NEW t \in Operators, RunTool(t)
      PROVE  ~Passed(x)' /\ runs'[x] = runs[x]
  BY <1>9 DEF RunTool
<1>10. ASSUME NEW t \in Operators, Finish(t)
      PROVE  ~Passed(x)' /\ runs'[x] = runs[x]
  <2>1. op' = [op EXCEPT ![t] = IdleOp] /\ runs' = runs
    BY <1>10 DEF Finish, Release
  <2>2. QED
    BY <2>1 DEF IdleOp
<1>11. ASSUME NEW t \in Operators, DenyWrite(t)
      PROVE  ~Passed(x)' /\ runs'[x] = runs[x]
  <2>1. op' = [op EXCEPT ![t] = IdleOp] /\ runs' = runs
    BY <1>11 DEF DenyWrite, Release
  <2>2. QED
    BY <2>1 DEF IdleOp
<1>12. ASSUME NEW t \in Operators, WriteFails(t)
      PROVE  ~Passed(x)' /\ runs'[x] = runs[x]
  <2>1. op' = [op EXCEPT ![t] = IdleOp] /\ runs' = runs
    BY <1>12 DEF WriteFails, Release
  <2>2. QED
    BY <2>1 DEF IdleOp
<1>13. CASE UNCHANGED vars
  BY <1>13 DEF vars
<1>14. QED
  BY <1>1, <1>2, <1>3, <1>4, <1>5, <1>6, <1>7, <1>8, <1>9, <1>10, <1>11, <1>12, <1>13 DEF Next,
     Operate

\* Every variable keeps its type.
THEOREM TypeCorrect == Spec => []TypeOK
BY InvHolds, PTL DEF Inv

\* The tool of an entry is invoked at most once.
THEOREM RunsAtMostOnce == Spec => []AtMostOnce
BY InvHolds, PTL DEF Inv

\* A denied entry is never run.
THEOREM DeniedForGood == Spec => []DenialIsFinal
BY InvHolds, PTL DEF Inv

\* A decided entry is never offered for a decision again.
THEOREM DecidedForGood == Spec => []DecidedStaysDecided
BY InvHolds, PTL DEF Inv

\* Past its expiry an entry gets no approval through.
THEOREM ExpiredForGood == Spec => ExpiryIsFinal
<1>1. Inv /\ [Next]_vars =>
        [\A e \in E : age[e] # "fresh" /\ ~Passed(e) => ~Passed(e)' /\ runs'[e] = runs[e]]_vars
  BY ExpiryStep
<1>2. QED
  BY <1>1, InvHolds, PTL DEF Spec, ExpiryIsFinal

-----------------------------------------------------------------------------
\* The entries of a list, and the most there may be: as many as Queue keeps and the new one.
Present(list) == {e \in E : list[e] # "absent"}

Short(list) == Cardinality(Present(list)) <= QueueCap + 1

\* The file, readable or not, is short, and so is every list about to be written over it;
\* a request changes the status of an entry that is in its list.
ShortInv ==
  /\ Short(file)
  /\ \A t \in Operators :
       Short(op[t].list) /\ (op[t].at # "idle" => op[t].list[op[t].entry] # "absent")

LEMMA EntriesFinite == IsFiniteSet(E) /\ \A S \in SUBSET E : IsFiniteSet(S) /\ Cardinality(S) \in Nat
<1>1. IsFiniteSet(E)
  BY ApprovalsAssumption, FS_Interval DEF E
<1>2. \A S \in SUBSET E : IsFiniteSet(S)
  BY <1>1, FS_Subset
<1> QED
  BY <1>1, <1>2, FS_CardinalityType

\* The last n of a set are at most n: the number of later ones tells them apart.
LEMMA NewestShort ==
  ASSUME NEW S \in SUBSET E, NEW n \in Nat
  PROVE  Newest(S, n) \in SUBSET E /\ Cardinality(Newest(S, n)) <= n
<1> DEFINE Later(e) == {f \in S : f > e}
           after == [e \in Newest(S, n) |-> Cardinality(Later(e))]
<1>1. Newest(S, n) \in SUBSET E
  BY DEF Newest
<1>2. \A e \in Newest(S, n) : Cardinality(Later(e)) \in 0 .. n - 1
  <2> SUFFICES ASSUME NEW e \in Newest(S, n) PROVE Cardinality(Later(e)) \in 0 .. n - 1
    OBVIOUS
  <2>1. Cardinality(Later(e)) \in Nat
    BY EntriesFinite
  <2>2. Cardinality(Later(e)) < n
    BY DEF Newest
  <2> QED
    BY <2>1, <2>2
<1>3. ASSUME NEW e \in Newest(S, n), NEW g \in Newest(S, n), e < g
      PROVE  after[e] # after[g]
  <2>1. e \in Int /\ g \in Int /\ g \in S /\ \A f \in S : f \in Int
    BY DEF Newest, E
  <2>2. Later(g) \in SUBSET Later(e) /\ g \in Later(e) /\ g \notin Later(g)
    <3>1. \A f \in S : f > g => f > e
      BY <1>3, <2>1
    <3>2. g > e /\ ~(g > g)
      BY <1>3, <2>1
    <3> QED
      BY <2>1, <3>1, <3>2
  <2>3. IsFiniteSet(Later(e))
    BY EntriesFinite
  <2> HIDE DEF Later
  <2>4. Cardinality(Later(e)) # Cardinality(Later(g))
    BY <2>2, <2>3, FS_Subset
  <2> QED
    BY <2>4
<1>4. after \in Injection(Newest(S, n), 0 .. n - 1)
  <2>1. after \in [Newest(S, n) -> 0 .. n - 1]
    BY <1>2
  <2> HIDE DEF after
  <2>2. ASSUME NEW e \in Newest(S, n), NEW g \in Newest(S, n), after[e] = after[g]
        PROVE  e = g
    <3>1. e \in Int /\ g \in Int
      BY DEF Newest, E
    <3>2. ~(e < g) /\ ~(g < e)
      BY <1>3, <2>2
    <3> QED
      BY <3>1, <3>2
  <2> QED
    BY <2>1, <2>2 DEF Injection, IsInjective
<1>5. IsFiniteSet(0 .. n - 1) /\ Cardinality(0 .. n - 1) = n
  <2>1. n - 1 \in Int /\ 0 \in Int
    OBVIOUS
  <2> QED
    BY <2>1, FS_Interval
<1> HIDE DEF after
<1> QED
  BY <1>1, <1>4, <1>5, FS_Injection

LEMMA ShortOnes ==
  ASSUME NEW list, NEW other, Short(other), Present(list) \subseteq Present(other)
  PROVE  Short(list)
<1>1. Present(other) \in SUBSET E /\ Present(list) \in SUBSET Present(other)
  BY DEF Present
<1>2. Cardinality(Present(list)) <= Cardinality(Present(other))
  BY <1>1, EntriesFinite, FS_Subset
<1> QED
  BY <1>1, <1>2, EntriesFinite, ApprovalsAssumption DEF Short, Present

LEMMA NothingShort == Short(Nothing)
<1>1. Present(Nothing) = {}
  BY DEF Present, Nothing
<1> QED
  BY <1>1, FS_EmptySet, ApprovalsAssumption DEF Short

LEMMA ListedPresent ==
  ASSUME NEW S \in SUBSET E
  PROVE  Present(Listed(S)) = S
BY DEF Present, Listed

\* What _read_pending returns is in the file.
LEMMA LiveShort ==
  ASSUME Short(file)
  PROVE  Live \in SUBSET E /\ Short(Listed(Live))
<1>1. Live \in SUBSET E /\ Live \subseteq Present(file)
  BY DEF Live, Newest, Actionable, Data, Nothing, Present
<1> QED
  BY <1>1, ListedPresent, ShortOnes

LEMMA ShortStep == ASSUME Inv, ShortInv, [Next]_vars PROVE ShortInv'
<1> USE DEF ShortInv
<1>0. /\ file \in [E -> Status] /\ op \in [Operators -> Op]
      /\ \A t \in Operators : op[t].list \in [E -> Status] /\ op[t] \in Op
      /\ \A t \in Operators : op[t].at # "idle" => op[t].entry \in E
  <2>1. file \in [E -> Status] /\ op \in [Operators -> Op]
    BY DEF Inv, TypeOK
  <2> QED
    BY <2>1, OpFields, ApprovalsAssumption DEF Inv, LockInv, E
<1>1. ASSUME UNCHANGED op, Short(file')
      PROVE  ShortInv'
  BY <1>1 DEF Short, Present
<1>2. CASE Queue
  <2> DEFINE S == {e \in E : Data[e] = "pending" /\ age[e] # "ancient"}
             kept == Newest(S, QueueCap)
  <2>1. S \in SUBSET E
    OBVIOUS
  <2> HIDE DEF S
  <2>2. kept \in SUBSET E /\ Cardinality(kept) <= QueueCap
    BY <2>1, NewestShort, ApprovalsAssumption
  <2>3. queued + 1 \in E /\ file' = Listed(kept \cup {queued + 1})
    BY <1>2, ApprovalsAssumption DEF Queue, Inv, TypeOK, E, S
  <2> HIDE DEF kept
  <2>4. Cardinality(kept \cup {queued + 1}) <= QueueCap + 1
    BY <2>2, EntriesFinite, FS_AddElement, ApprovalsAssumption
  <2>5. Present(file') = kept \cup {queued + 1}
    BY <2>2, <2>3, ListedPresent
  <2>6. Short(file')
    BY <2>4, <2>5 DEF Short
  <2> QED
    BY <1>1, <1>2, <2>6 DEF Queue
<1>3. ASSUME Heal
      PROVE  Short(file')
  BY <1>3, LiveShort DEF Heal
<1>4. CASE ListPending
  BY <1>1, <1>3, <1>4 DEF ListPending
<1>5. CASE Clear
  BY <1>1, <1>5, NothingShort DEF Clear, Save, SaveFails
<1>6. CASE Crash
  <2>1. file' = file /\ \A t \in Operators : op'[t] = IdleOp
    BY <1>6 DEF Crash
  <2>2. IdleOp.list = Nothing /\ IdleOp.at = "idle" /\ Short(file') /\ Short(Nothing)
    BY <2>1, NothingShort DEF IdleOp
  <2>3. \A t \in Operators : Short(op'[t].list) /\ op'[t].at = "idle"
    BY <2>1, <2>2
  <2> QED
    BY <2>2, <2>3 DEF Short, Present
<1>7. ASSUME NEW e \in E, Older(e)
      PROVE  ShortInv'
  BY <1>1, <1>7 DEF Older
<1>8. ASSUME NEW t \in Operators, Short(file'), op' \in [Operators -> Op],
             \A u \in Operators : u # t => op'[u] = op[u], Short(op'[t].list),
             op'[t].at # "idle" => op'[t].list[op'[t].entry] # "absent"
      PROVE  ShortInv'
  BY <1>8 DEF Short, Present
<1>9. ASSUME NEW t \in Operators, NEW e \in E, NEW what \in {"approve", "deny"}, Begin(t, e, what)
      PROVE  ShortInv'
  <2>1. Live \in SUBSET E /\ Short(Listed(Live)) /\ e \in Live
    BY <1>9, LiveShort DEF Begin
  <2>2. Listed(Live) \in [E -> Status] /\ Listed(Live)[e] = "pending"
    BY <2>1, ListedType
  <2>3. op'[t].entry = e /\ op'[t].list \in {Listed(Live), [Listed(Live) EXCEPT ![e] = "denied"]}
    BY <1>0, <1>9 DEF Begin
  <2>4. op'[t].list[e] # "absent" /\ Present(op'[t].list) \subseteq Present(Listed(Live))
    BY <2>2, <2>3 DEF Present
  <2>5. Short(op'[t].list)
    BY <2>1, <2>4, ShortOnes
  <2>6. \A u \in Operators : u # t => op'[u] = op[u]
    BY <1>0, <1>9 DEF Begin
  <2> QED
    BY <1>3, <1>8, <1>9, <2>3, <2>4, <2>5, <2>6, TypeStep DEF Begin, Inv, TypeOK
<1>10. ASSUME NEW t \in Operators, Check(t) \/ Mark(t) \/ RunTool(t)
       PROVE  ShortInv'
  <2>1. op[t].at # "idle" /\ op[t].entry \in E /\ op[t].list[op[t].entry] # "absent"
    BY <1>0, <1>10 DEF Check, Mark, RunTool
  <2>2. PICK s \in {"expired", "approved", "executed"} :
          /\ op'[t].entry = op[t].entry
          /\ op'[t].list \in {op[t].list, [op[t].list EXCEPT ![op[t].entry] = s]}
    BY <1>0, <1>10 DEF Check, Mark, RunTool, Op
  <2>3. op'[t].list[op'[t].entry] # "absent" /\ Present(op'[t].list) \subseteq Present(op[t].list)
    BY <1>0, <2>1, <2>2 DEF Present
  <2>4. Short(op'[t].list)
    BY <2>3, ShortOnes
  <2>5. (\A u \in Operators : u # t => op'[u] = op[u]) /\ file' \in {file, op[t].list}
    BY <1>0, <1>10 DEF Check, Mark, RunTool, Save
  <2> QED
    BY <1>8, <2>3, <2>4, <2>5, TypeStep DEF Inv, TypeOK
<1>11. ASSUME NEW t \in Operators, Finish(t) \/ DenyWrite(t) \/ WriteFails(t)
       PROVE  ShortInv'
  <2>1. file' \in {file, op[t].list} /\ op' = [op EXCEPT ![t] = IdleOp]
    BY <1>11 DEF Finish, DenyWrite, WriteFails, Save, SaveFails, Release
  <2>2. op'[t].at = "idle" /\ op'[t].list = Nothing /\ \A u \in Operators : u # t => op'[u] = op[u]
    BY <1>0, <2>1 DEF IdleOp
  <2> QED
    BY <1>8, <2>1, <2>2, NothingShort, TypeStep DEF Inv, TypeOK
<1>12. CASE UNCHANGED vars
  BY <1>1, <1>12 DEF vars
<1> QED
  BY <1>2, <1>4, <1>5, <1>6, <1>7, <1>9, <1>10, <1>11, <1>12 DEF Next, Operate

\* pending.json never holds more than _write_pending leaves in it, whatever is written over
\* it while an approval runs and whichever write is cut short (approval_helpers.py).
THEOREM FileStaysBounded == Spec => []FileBounded
<1>1. Init => ShortInv
  BY NothingShort DEF Init, ShortInv, IdleOp
<1>2. Inv /\ ShortInv /\ [Next]_vars => ShortInv'
  BY ShortStep
<1>3. ShortInv => FileBounded
  <2>1. Short(Nothing) => (ShortInv => Short(Data))
    BY DEF ShortInv, Data
  <2>2. Short(Data) => FileBounded
    BY DEF Short, Present, FileBounded
  <2> QED
    BY <2>1, <2>2, NothingShort
<1> QED
  BY <1>1, <1>2, <1>3, InvHolds, PTL DEF Spec
=============================================================================
