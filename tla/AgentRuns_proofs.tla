-------------------------- MODULE AgentRuns_proofs --------------------------
(***************************************************************************)
(* What holds of the admission gate for every set of calls, every priority *)
(* and every clock: the inductive invariant GateInv, the invariants it     *)
(* gives, and that the gate with its heap implements PrioritySlots.  Then  *)
(* of the agent runs that pass it: they keep these invariants, the lock    *)
(* stays with the thread of a holder of a slot, and no step that a run     *)
(* hands to the task graph ever reaches the model.                         *)
(***************************************************************************)
EXTENDS AgentRuns, FiniteSetTheorems, TLAPS

GateStep == [GateNext]_gateVars

WithKey(S, p, s) == {k \in S : Prio[k] = p /\ stamp[k] = s}

(* EntriesMatchWaiters for every key, those included that no call has yet. *)
KeysMatch ==
  \A p \in Int, s \in Int :
    Cardinality(WithKey(heap, p, s)) = Cardinality(WithKey(Waiting, p, s))

Entered ==
  /\ \A j \in heap : phase[j] \in {"waiting", "refused"}
  /\ \A j \in Waiting : limit[j] \in Limits

GateInv == TypeOK /\ Entered /\ HeapOrdered /\ SlotsAccounted /\ KeysMatch

-----------------------------------------------------------------------------
LEMMA FiniteParts ==
  ASSUME NEW S \in SUBSET Job
  PROVE  IsFiniteSet(S) /\ Cardinality(S) \in Nat
BY JobAssumption, FS_Subset, FS_CardinalityType

(* Each step is one of the six operations of one call.                     *)
LEMMA Steps ==
  ASSUME GateNext
  PROVE  \E j \in Job : \/ RefuseBackground(j) \/ Enter(j) \/ Admit(j)
                        \/ Expire(j) \/ GiveUp(j) \/ Leave(j)
BY DEF GateNext

(* An operation that gives every waiting call an entry of its key, and     *)
(* conversely, leaves none of the two without the other.                   *)
LEMMA WaiterHasEntry ==
  ASSUME TypeOK, KeysMatch, NEW j \in Waiting
  PROVE  \E e \in heap : Equal(e, j)
<1> DEFINE p == Prio[j]
           s == stamp[j]
<1>1. p \in Int /\ s \in Int /\ j \in Job
  BY PrioAssumption DEF TypeOK, Waiting, In
<1>2. WithKey(Waiting, p, s) \in SUBSET Job /\ WithKey(heap, p, s) \in SUBSET Job
  BY DEF TypeOK, WithKey, Waiting, In
<1>3. j \in WithKey(Waiting, p, s)
  BY DEF WithKey
<1>4. Cardinality(WithKey(Waiting, p, s)) # 0
  BY <1>2, <1>3, FiniteParts, FS_EmptySet
<1>5. Cardinality(WithKey(heap, p, s)) # 0
  BY <1>1, <1>4 DEF KeysMatch
<1>6. WithKey(heap, p, s) # {}
  BY <1>5, FS_EmptySet
<1> QED
  BY <1>6 DEF WithKey, Equal

-----------------------------------------------------------------------------
LEMMA TypeStep ==
  ASSUME TypeOK, GateNext
  PROVE  TypeOK'
<1> PICK j \in Job : \/ RefuseBackground(j) \/ Enter(j) \/ Admit(j)
                     \/ Expire(j) \/ GiveUp(j) \/ Leave(j)
  BY Steps
<1>1. CASE RefuseBackground(j)
  BY <1>1 DEF TypeOK, RefuseBackground, Phases
<1>2. CASE Enter(j)
  BY <1>2, LimitAssumption, StampAssumption DEF TypeOK, Enter, Phases
<1>3. CASE Admit(j)
  BY <1>3 DEF TypeOK, Admit, Phases
<1>4. CASE Expire(j)
  BY <1>4 DEF TypeOK, Expire, Phases
<1>5. CASE GiveUp(j)
  BY <1>5 DEF TypeOK, GiveUp, Phases
<1>6. CASE Leave(j)
  BY <1>6 DEF TypeOK, Leave, Phases
<1> QED
  BY <1>1, <1>2, <1>3, <1>4, <1>5, <1>6

LEMMA EnteredStep ==
  ASSUME TypeOK, Entered, HeapOrdered, GateNext
  PROVE  Entered'
<1> PICK j \in Job : \/ RefuseBackground(j) \/ Enter(j) \/ Admit(j)
                     \/ Expire(j) \/ GiveUp(j) \/ Leave(j)
  BY Steps
<1>1. CASE RefuseBackground(j)
  BY <1>1 DEF TypeOK, Entered, RefuseBackground, Waiting, In
<1>2. CASE Enter(j)
  BY <1>2 DEF TypeOK, Entered, Enter, Waiting, In
<1>3. CASE Admit(j)
  BY <1>3 DEF TypeOK, Entered, Admit, Waiting, In
<1>4. CASE Expire(j)
  BY <1>4 DEF TypeOK, Entered, Expire, Waiting, In
<1>5. CASE GiveUp(j)
  BY <1>5 DEF TypeOK, Entered, GiveUp, Waiting, In
<1>6. CASE Leave(j)
  BY <1>6 DEF TypeOK, Entered, Leave, Waiting, In
<1> QED
  BY <1>1, <1>2, <1>3, <1>4, <1>5, <1>6

LEMMA OrderStep ==
  ASSUME TypeOK, Entered, HeapOrdered, GateNext
  PROVE  HeapOrdered'
<1> PICK j \in Job : \/ RefuseBackground(j) \/ Enter(j) \/ Admit(j)
                     \/ Expire(j) \/ GiveUp(j) \/ Leave(j)
  BY Steps
<1>1. CASE RefuseBackground(j)
  BY <1>1 DEF HeapOrdered, RefuseBackground, Top, Least, Before
<1>2. CASE Enter(j)
  <2>1. PICK s \in Stamps, n \in Limits :
          /\ stamp' = [stamp EXCEPT ![j] = s]
          /\ top' = IF \/ top = None
                       \/ Prio[j] < Prio[top]
                       \/ Prio[j] = Prio[top] /\ s < stamp[top]
                    THEN j ELSE top
    BY <1>2 DEF Enter
  <2>2. heap' = heap \cup {j} /\ j \notin heap /\ s \in Int
    BY <1>2, StampAssumption DEF Enter, Entered
  <2>3. \A k \in heap : k \in Job /\ stamp'[k] = stamp[k] /\ stamp[k] \in Int
                        /\ Prio[k] \in Int
    BY <2>1, <2>2, PrioAssumption DEF TypeOK
  <2>4. stamp'[j] = s /\ Prio[j] \in Int
    BY <2>1, PrioAssumption DEF TypeOK
  <2>5. CASE heap = {}
    <3>1. top = None
      BY <2>5 DEF HeapOrdered, Top
    <3>2. top' = j
      BY <2>1, <3>1
    <3> QED
      BY <2>2, <2>4, <2>5, <3>2 DEF HeapOrdered, Top, Least, Before
  <2>6. CASE heap # {}
    <3>1. top \in heap /\ top # None /\ \A k \in heap : ~Before(k, top)
      BY <2>6, JobAssumption DEF HeapOrdered, Top, Least, TypeOK
    <3>2. CASE top' = top
      <4>1. ~(Prio[j] < Prio[top] \/ (Prio[j] = Prio[top] /\ s < stamp[top]))
        BY <2>1, <2>2, <3>1, <3>2
      <4>2. \A k \in heap \cup {j} : ~Before(k, top)'
        BY <2>2, <2>3, <2>4, <3>1, <3>2, <4>1 DEF Before
      <4> QED
        BY <2>2, <3>1, <3>2, <4>2 DEF HeapOrdered, Top, Least, Before
    <3>3. CASE top' # top
      <4>1. /\ top' = j
            /\ Prio[j] < Prio[top] \/ (Prio[j] = Prio[top] /\ s < stamp[top])
        BY <2>1, <3>1, <3>3
      <4>2. \A k \in heap \cup {j} : ~Before(k, j)'
        BY <2>2, <2>3, <2>4, <3>1, <4>1 DEF Before
      <4> QED
        BY <2>2, <4>1, <4>2 DEF HeapOrdered, Top, Least, Before
    <3> QED
      BY <3>2, <3>3
  <2> QED
    BY <2>5, <2>6
<1>3. CASE Admit(j)
  BY <1>3 DEF HeapOrdered, Admit, Top, Least, Before
<1>4. CASE Expire(j)
  BY <1>4 DEF HeapOrdered, Expire, Top, Least, Before
<1>5. CASE GiveUp(j)
  BY <1>5 DEF HeapOrdered, GiveUp, Top, Least, Before
<1>6. CASE Leave(j)
  BY <1>6 DEF HeapOrdered, Leave, Top, Least, Before
<1> QED
  BY <1>1, <1>2, <1>3, <1>4, <1>5, <1>6

LEMMA SlotsStep ==
  ASSUME TypeOK, Entered, SlotsAccounted, GateNext
  PROVE  SlotsAccounted'
<1> PICK j \in Job : \/ RefuseBackground(j) \/ Enter(j) \/ Admit(j)
                     \/ Expire(j) \/ GiveUp(j) \/ Leave(j)
  BY Steps
<1>1. Running \in SUBSET Job /\ IsFiniteSet(Running) /\ Cardinality(Running) = active
  BY FiniteParts DEF Running, In, SlotsAccounted
<1>2. CASE RefuseBackground(j) \/ Enter(j) \/ Expire(j) \/ GiveUp(j)
  <2>1. Running' = Running /\ active' = active
    BY <1>2 DEF TypeOK, RefuseBackground, Enter, Expire, GiveUp, Running, In
  <2>2. \A k \in Job : phase'[k] = "running" => phase[k] = "running"
    BY <1>2 DEF TypeOK, RefuseBackground, Enter, Expire, GiveUp
  <2> QED
    BY <1>1, <2>1, <2>2 DEF SlotsAccounted
<1>3. CASE Admit(j)
  <2>1. Running' = Running \cup {j} /\ j \notin Running /\ active' = active + 1
    BY <1>3 DEF TypeOK, Admit, Running, In
  <2>2. Cardinality(Running') = active'
    BY <1>1, <2>1, FS_AddElement
  <2>3. limit[j] \in Limits /\ active < limit[j] /\ limit[j] \in Nat
    BY <1>3, LimitAssumption DEF Admit, CanRun, Entered, Waiting, In
  <2>4. active' <= limit[j]
    BY <2>1, <2>3 DEF TypeOK
  <2> QED
    BY <2>2, <2>3, <2>4 DEF SlotsAccounted
<1>4. CASE Leave(j)
  <2>1. Running' = Running \ {j} /\ j \in Running
    BY <1>4 DEF TypeOK, Leave, Running, In
  <2>2. Cardinality(Running') = Cardinality(Running) - 1
    BY <1>1, <2>1, FS_RemoveElement
  <2>3. active > 0
    BY <1>1, <2>1, FS_EmptySet DEF TypeOK
  <2>4. active' = active - 1
    BY <1>4, <2>3 DEF Leave
  <2>5. \A k \in Job : phase'[k] = "running" => phase[k] = "running"
    BY <1>4 DEF TypeOK, Leave
  <2>6. \A n \in Limits : active <= n => active' <= n
    BY <2>4, LimitAssumption DEF TypeOK
  <2> QED
    BY <1>1, <2>2, <2>4, <2>5, <2>6 DEF SlotsAccounted
<1> QED
  BY <1>2, <1>3, <1>4

(* Taking one element of a key out of the heap and one out of the waiters  *)
(* keeps the two counts of every key equal.                                *)
LEMMA OneOfEach ==
  ASSUME TypeOK, KeysMatch,
         NEW j \in Waiting, NEW e \in heap, Equal(e, j),
         UNCHANGED stamp, heap' = heap \ {e}, Waiting' = Waiting \ {j}
  PROVE  KeysMatch'
<1> SUFFICES ASSUME NEW p \in Int, NEW s \in Int
             PROVE  Cardinality(WithKey(heap, p, s)') = Cardinality(WithKey(Waiting, p, s)')
  BY DEF KeysMatch
<1> DEFINE H == WithKey(heap, p, s)
           W == WithKey(Waiting, p, s)
<1>1. H' = H \ {e} /\ W' = W \ {j}
  BY DEF WithKey
<1>2. IsFiniteSet(H) /\ IsFiniteSet(W) /\ Cardinality(H) \in Nat /\ Cardinality(W) \in Nat
  BY FiniteParts DEF TypeOK, WithKey, Waiting, In
<1>3. Cardinality(H) = Cardinality(W)
  BY DEF KeysMatch
<1>4. e \in H <=> j \in W
  BY DEF Equal, WithKey
<1>5. CASE e \in H
  <2>1. Cardinality(H \ {e}) = Cardinality(H) - 1 /\ Cardinality(W \ {j}) = Cardinality(W) - 1
    BY <1>2, <1>4, <1>5, FS_RemoveElement
  <2> QED
    BY <1>1, <1>3, <2>1
<1>6. CASE e \notin H
  BY <1>1, <1>3, <1>4, <1>6
<1> QED
  BY <1>5, <1>6

LEMMA KeysStep ==
  ASSUME TypeOK, Entered, HeapOrdered, KeysMatch, GateNext
  PROVE  KeysMatch'
<1> PICK j \in Job : \/ RefuseBackground(j) \/ Enter(j) \/ Admit(j)
                     \/ Expire(j) \/ GiveUp(j) \/ Leave(j)
  BY Steps
<1>1. CASE RefuseBackground(j) \/ Expire(j) \/ Leave(j)
  <2>1. Waiting' = Waiting /\ heap' = heap /\ stamp' = stamp
    BY <1>1 DEF TypeOK, RefuseBackground, Expire, Leave, Waiting, In
  <2> QED
    BY <2>1 DEF KeysMatch, WithKey
<1>2. CASE Enter(j)
  <2>1. /\ heap' = heap \cup {j} /\ j \notin heap
        /\ Waiting' = Waiting \cup {j} /\ j \notin Waiting
    BY <1>2 DEF TypeOK, Enter, Entered, Waiting, In
  <2>2. /\ \A k \in heap : stamp'[k] = stamp[k]
        /\ \A k \in Waiting : stamp'[k] = stamp[k]
    BY <1>2, <2>1 DEF TypeOK, Enter, Waiting, In
  <2> SUFFICES ASSUME NEW p \in Int, NEW s \in Int
               PROVE  Cardinality(WithKey(heap, p, s)') = Cardinality(WithKey(Waiting, p, s)')
    BY DEF KeysMatch
  <2> DEFINE H == WithKey(heap, p, s)
             W == WithKey(Waiting, p, s)
  <2>3. IsFiniteSet(H) /\ IsFiniteSet(W) /\ Cardinality(H) = Cardinality(W)
    BY FiniteParts DEF TypeOK, WithKey, Waiting, In, KeysMatch
  <2>4. j \notin H /\ j \notin W
    BY <2>1 DEF WithKey
  <2>5. CASE Prio[j] = p /\ stamp'[j] = s
    <3>1. H' = H \cup {j} /\ W' = W \cup {j}
      BY <2>1, <2>2, <2>5 DEF WithKey
    <3>2. Cardinality(H \cup {j}) = Cardinality(W \cup {j})
      <4> HIDE DEF H, W
      <4> QED BY <2>3, <2>4, FS_AddElement
    <3> QED
      BY <3>1, <3>2
  <2>6. CASE ~(Prio[j] = p /\ stamp'[j] = s)
    <3>1. H' = H /\ W' = W
      BY <2>1, <2>2, <2>6 DEF WithKey
    <3> QED
      BY <2>3, <3>1
  <2> QED
    BY <2>5, <2>6
<1>3. CASE Admit(j)
  <2>1. j \in heap
    BY <1>3, JobAssumption DEF Admit, CanRun, HeapOrdered, Top, Least
  <2>2. j \in Waiting /\ Waiting' = Waiting \ {j} /\ heap' = heap \ {j} /\ UNCHANGED stamp
    BY <1>3 DEF TypeOK, Admit, Waiting, In
  <2>3. Equal(j, j)
    BY DEF Equal
  <2> QED
    BY <2>1, <2>2, <2>3, OneOfEach
<1>4. CASE GiveUp(j)
  <2>1. j \in Waiting /\ Waiting' = Waiting \ {j} /\ UNCHANGED stamp
    BY <1>4 DEF TypeOK, GiveUp, Waiting, In
  <2>2. Removable(j) # {}
    BY <2>1, WaiterHasEntry DEF Removable, EqualIn
  <2>3. PICK e \in Removable(j) : heap' = heap \ {e}
    BY <1>4, <2>2 DEF GiveUp
  <2>4. e \in heap /\ Equal(e, j)
    BY <2>3, JobAssumption DEF Removable, EqualIn, HeapOrdered, Top, Least
  <2> QED
    BY <2>1, <2>3, <2>4, OneOfEach
<1> QED
  BY <1>1, <1>2, <1>3, <1>4

LEMMA InvInit == GateInit => GateInv
<1> SUFFICES ASSUME GateInit PROVE GateInv
  OBVIOUS
<1>1. TypeOK /\ Entered /\ HeapOrdered
  BY DEF GateInit, TypeOK, Phases, Entered, HeapOrdered, Top, Waiting, In
<1>2. Running = {} /\ Waiting = {}
  BY DEF GateInit, Running, Waiting, In
<1>3. SlotsAccounted
  BY <1>2, FS_EmptySet DEF GateInit, SlotsAccounted
<1>4. KeysMatch
  <2>1. \A p, s : WithKey(heap, p, s) = {} /\ WithKey(Waiting, p, s) = {}
    BY <1>2 DEF GateInit, WithKey
  <2> QED
    BY <2>1 DEF KeysMatch
<1> QED
  BY <1>1, <1>3, <1>4 DEF GateInv

LEMMA InvStep == GateInv /\ GateStep => GateInv'
<1> SUFFICES ASSUME GateInv, GateStep PROVE GateInv'
  OBVIOUS
<1>1. CASE GateNext
  BY <1>1, TypeStep, EnteredStep, OrderStep, SlotsStep, KeysStep DEF GateInv
<1>2. CASE UNCHANGED gateVars
  BY <1>2 DEF GateInv, gateVars, TypeOK, Entered, HeapOrdered, Top, Least, Before,
              SlotsAccounted, Running, KeysMatch, WithKey, Waiting, In
<1> QED
  BY <1>1, <1>2 DEF GateStep

(* Every reachable state of the gate satisfies the inductive invariant.    *)
THEOREM GateInvariant == GateSpec => []GateInv
BY InvInit, InvStep, PTL DEF GateSpec, GateStep

(* Each variable of the gate keeps its type, however many calls there are. *)
THEOREM GateTyped == GateSpec => []TypeOK
<1>1. GateInv => TypeOK
  BY DEF GateInv
<1> QED
  BY <1>1, GateInvariant, PTL

(* No slot is leaked or given back twice, and the limit is never exceeded. *)
THEOREM GateSlots == GateSpec => []SlotsAccounted
<1>1. GateInv => SlotsAccounted
  BY DEF GateInv
<1> QED
  BY <1>1, GateInvariant, PTL

LEMMA EntriesFollow == GateInv => EntriesMatchWaiters
<1> SUFFICES ASSUME GateInv, NEW j \in Job
             PROVE  Cardinality(EqualIn(heap, j)) = Cardinality(EqualIn(Waiting, j))
  BY DEF EntriesMatchWaiters
<1>1. Prio[j] \in Int /\ stamp[j] \in Int
  BY PrioAssumption DEF GateInv, TypeOK
<1>2. /\ EqualIn(heap, j) = WithKey(heap, Prio[j], stamp[j])
      /\ EqualIn(Waiting, j) = WithKey(Waiting, Prio[j], stamp[j])
  BY DEF EqualIn, Equal, WithKey
<1> QED
  BY <1>1, <1>2 DEF GateInv, KeysMatch

(* However calls that share a key remove one another's entries, every key  *)
(* has as many entries as waiters.                                         *)
THEOREM GateEntries == GateSpec => []EntriesMatchWaiters
BY EntriesFollow, GateInvariant, PTL

-----------------------------------------------------------------------------
LEMMA SlotsInit == GateInit => Slots!Init
BY DEF GateInit, Slots!Init

(* A step of the gate is a step of the slots or leaves them alone: when a  *)
(* call is admitted, the least entry is its own, and by the matching of    *)
(* keys no waiting call can come before it.                                *)
LEMMA SlotsSimulated == GateInv /\ GateStep => [Slots!Next]_(Slots!slotVars)
<1> SUFFICES ASSUME GateInv, GateStep PROVE [Slots!Next]_(Slots!slotVars)
  OBVIOUS
<1> USE DEF GateInv
<1>1. CASE UNCHANGED gateVars
  BY <1>1 DEF gateVars, Slots!slotVars
<1>2. CASE GateNext
  <2> PICK j \in Job : \/ RefuseBackground(j) \/ Enter(j) \/ Admit(j)
                       \/ Expire(j) \/ GiveUp(j) \/ Leave(j)
    BY <1>2, Steps
  <2>1. CASE RefuseBackground(j)
    <3>1. Slots!Refuse(j)
      BY <2>1 DEF RefuseBackground, Slots!Refuse, Slots!Move
    <3> QED
      BY <3>1 DEF Slots!Next
  <2>2. CASE Enter(j)
    <3>1. Slots!Ask(j)
      BY <2>2 DEF Enter, Slots!Ask, Slots!Move
    <3> QED
      BY <3>1 DEF Slots!Next
  <2>3. CASE Admit(j)
    <3>1. j \in heap /\ \A e \in heap : ~Before(e, j)
      BY <2>3, JobAssumption DEF Admit, CanRun, HeapOrdered, Top, Least
    <3>2. ASSUME NEW k \in Job, phase[k] = "waiting"
          PROVE  ~Slots!Precedes(k, j)
      <4>1. k \in Waiting
        BY <3>2 DEF Waiting, In
      <4>2. PICK e \in heap : Equal(e, k)
        BY <4>1, WaiterHasEntry
      <4>3. ~Before(e, j)
        BY <3>1
      <4> QED
        BY <4>2, <4>3 DEF Equal, Before, Slots!Precedes
    <3>3. Slots!Grant(j)
      BY <2>3, <3>2 DEF Admit, CanRun, Slots!Grant, Slots!Move
    <3> QED
      BY <3>3 DEF Slots!Next
  <2>4. CASE Expire(j)
    BY <2>4 DEF Expire, Slots!slotVars
  <2>5. CASE GiveUp(j)
    <3>1. Slots!Refuse(j)
      BY <2>5 DEF GiveUp, Slots!Refuse, Slots!Move
    <3> QED
      BY <3>1 DEF Slots!Next
  <2>6. CASE Leave(j)
    <3>1. j \in Running /\ Running \in SUBSET Job
      BY <2>6 DEF Leave, Running, In
    <3>2. Cardinality(Running) # 0
      BY <3>1, FiniteParts, FS_EmptySet
    <3>3. active > 0
      BY <3>2 DEF SlotsAccounted, TypeOK
    <3>4. Slots!Free(j)
      BY <2>6, <3>3 DEF Leave, Slots!Free, Slots!Move
    <3> QED
      BY <3>4 DEF Slots!Next
  <2> QED
    BY <2>1, <2>2, <2>3, <2>4, <2>5, <2>6
<1> QED
  BY <1>1, <1>2 DEF GateStep

(* The gate with its heap implements the priority slots.                   *)
THEOREM GateRefinement == GateSpec => ImplementsSlots
<1>1. GateInit => Slots!Init
  BY SlotsInit
<1>2. GateInv /\ GateStep => [Slots!Next]_(Slots!slotVars)
  BY SlotsSimulated
<1> QED
  BY <1>1, <1>2, GateInvariant, PTL DEF GateSpec, GateStep, ImplementsSlots, Slots!Spec

-----------------------------------------------------------------------------
(* Agent runs.                                                             *)

(* What each call does fits its place at the gate.                         *)
Placed ==
  \A j \in Job :
    /\ work[j] = "call" => phase[j] = "idle"
    /\ work[j] = "slot" <=> phase[j] = "waiting"

UnderWay(j) == work[j] \notin {"call", "over"}

(* A step that is under way has a call that waits for it.  A call whose    *)
(* plan went to the task graph holds the lock its steps would need; a run  *)
(* in its pipeline has one step under way, and that on its own thread.     *)
StepsOwned ==
  \A j \in Nested :
    /\ work[j] # "pipe"
    /\ work[j] = "call" => owner[j] = None
    /\ UnderWay(j) => owner[j] \in Job /\ work[owner[j]] \in {"plan", "pipe"}
    /\ UnderWay(j) /\ work[owner[j]] = "plan" => work[j] \in {"slot", "lock"}
    /\ UnderWay(j) /\ work[owner[j]] = "pipe"
         => \A k \in Nested : UnderWay(k) /\ owner[k] = owner[j] => k = j

RunsInv == RunsTypeOK /\ Placed /\ StepsOwned /\ LockUnderSlot

USE RunAssumption

LEMMA CallSteps ==
  ASSUME Next
  PROVE  \/ \E r \in Runs : MemoryCommand(r) \/ Call(r) \/ Pipeline(r)
         \/ \E r \in Runs, j \in Nested : PipelineCall(r, j)
         \/ \E r \in Job, j \in Nested : StepCall(r, j)
         \/ \E j \in Job : \/ GetSlot(j) \/ DeadlinePasses(j) \/ Busy(j) \/ GetLock(j)
                           \/ Plan(j) \/ PlanOver(j)
                           \/ Hang(j) \/ Return(j) \/ FreeSlot(j)
BY DEF Next

(* Every step of the runs is a step of the gate or leaves it alone.        *)
LEMMA GateFollows == [Next]_vars => GateStep
<1> SUFFICES ASSUME [Next]_vars PROVE GateStep
  OBVIOUS
<1>1. CASE UNCHANGED vars
  BY <1>1 DEF vars, GateStep
<1>2. ASSUME NEW r \in Runs, MemoryCommand(r) \/ Call(r) \/ Pipeline(r)
      PROVE  GateStep
  BY <1>2 DEF MemoryCommand, Call, Pipeline, AskSlot, GateStep, GateNext
<1>3. ASSUME NEW r \in Job, NEW j \in Nested, StepCall(r, j) \/ PipelineCall(r, j)
      PROVE  GateStep
  BY <1>3 DEF StepCall, PipelineCall, NestedCall, AskSlot, GateStep, GateNext
<1>4. ASSUME NEW j \in Job, \/ GetSlot(j) \/ DeadlinePasses(j) \/ Busy(j) \/ GetLock(j)
                            \/ Plan(j) \/ PlanOver(j)
                            \/ Hang(j) \/ Return(j) \/ FreeSlot(j)
      PROVE  GateStep
  BY <1>4 DEF GetSlot, DeadlinePasses, Busy, GetLock, Plan, PlanOver, Hang, Return,
              FreeSlot, GateStep, GateNext
<1>5. CASE Next
  BY <1>2, <1>3, <1>4, <1>5, CallSteps
<1> QED
  BY <1>1, <1>5

LEMMA RunsInit == Init => GateInit /\ RunsInv
<1> SUFFICES ASSUME Init PROVE GateInit /\ RunsInv
  OBVIOUS
<1>1. GateInit
  BY DEF Init
<1>2. TypeOK
  BY <1>1, InvInit DEF GateInv
<1>3. RunsTypeOK
  BY <1>2 DEF Init, RunsTypeOK, Works
<1>4. Placed /\ StepsOwned
  BY DEF Init, GateInit, Placed, StepsOwned, UnderWay
<1>5. LockUnderSlot
  BY DEF Init, GateInit, LockUnderSlot, UnderLock
<1> QED
  BY <1>1, <1>3, <1>4, <1>5 DEF RunsInv

-----------------------------------------------------------------------------
(* What a step does to the calls, operation by operation.                  *)

(* A step that moves one call from one occupation to the next.             *)
Moves(j, from, to) ==
  /\ work[j] = from /\ work'[j] = to
  /\ \A k \in Job \ {j} : work'[k] = work[k]

LEMMA NowMoves ==
  ASSUME RunsTypeOK, NEW j \in Job, NEW from, NEW to, Now(j, from, to)
  PROVE  Moves(j, from, to)
BY DEF RunsTypeOK, Now, Moves

LEMMA PlacedStep ==
  ASSUME RunsTypeOK, Placed, Next
  PROVE  Placed'
<1> USE DEF RunsTypeOK, TypeOK, Placed, Now
<1>1. ASSUME NEW r \in Runs, MemoryCommand(r) \/ Call(r) \/ Pipeline(r)
      PROVE  Placed'
  <2>1. CASE MemoryCommand(r) \/ Pipeline(r)
    BY <1>1, <2>1 DEF MemoryCommand, Pipeline, gateVars
  <2>2. CASE Call(r)
    BY <2>2 DEF Call, AskSlot, Enter, RefuseBackground
  <2> QED
    BY <1>1, <2>1, <2>2
<1>2. ASSUME NEW r \in Job, NEW j \in Nested, StepCall(r, j) \/ PipelineCall(r, j)
      PROVE  Placed'
  <2>1. AskSlot(j)
    BY <1>2 DEF StepCall, PipelineCall, NestedCall
  <2> QED
    BY <2>1 DEF AskSlot, Enter, RefuseBackground
<1>3. ASSUME NEW j \in Job, GetSlot(j) \/ DeadlinePasses(j) \/ Busy(j) \/ FreeSlot(j)
      PROVE  Placed'
  BY <1>3 DEF GetSlot, DeadlinePasses, Busy, FreeSlot, Admit, Expire, GiveUp, Leave, runVars
<1>4. ASSUME NEW j \in Job, GetLock(j) \/ Plan(j) \/ PlanOver(j) \/ Hang(j) \/ Return(j)
      PROVE  Placed'
  BY <1>4 DEF GetLock, Plan, PlanOver, Hang, Return, gateVars
<1> QED
  BY <1>1, <1>2, <1>3, <1>4, CallSteps

LEMMA TypedStep ==
  ASSUME RunsTypeOK, Next
  PROVE  RunsTypeOK'
<1>0. TypeOK'
  <2>1. CASE GateNext
    BY <2>1, TypeStep DEF RunsTypeOK
  <2>2. CASE UNCHANGED gateVars
    BY <2>2 DEF RunsTypeOK, TypeOK, gateVars
  <2> QED
    BY <2>1, <2>2, GateFollows DEF GateStep
<1> USE DEF RunsTypeOK, Works, Now
<1>1. ASSUME NEW r \in Runs, MemoryCommand(r) \/ Call(r) \/ Pipeline(r)
      PROVE  RunsTypeOK'
  BY <1>0, <1>1 DEF MemoryCommand, Call, AskSlot, Pipeline
<1>2. ASSUME NEW r \in Job, NEW j \in Nested, StepCall(r, j) \/ PipelineCall(r, j)
      PROVE  RunsTypeOK'
  BY <1>0, <1>2 DEF StepCall, PipelineCall, NestedCall, AskSlot
<1>3. ASSUME NEW j \in Job, GetSlot(j) \/ DeadlinePasses(j) \/ Busy(j) \/ FreeSlot(j)
      PROVE  RunsTypeOK'
  BY <1>0, <1>3 DEF GetSlot, DeadlinePasses, Busy, FreeSlot, runVars
<1>4. ASSUME NEW j \in Job, GetLock(j) \/ Return(j)
      PROVE  RunsTypeOK'
  <2>1. Thread(j) \in Job
    BY DEF Thread
  <2> QED
    BY <1>0, <1>4, <2>1 DEF GetLock, Return
<1>5. ASSUME NEW j \in Job, Plan(j) \/ PlanOver(j) \/ Hang(j)
      PROVE  RunsTypeOK'
  BY <1>0, <1>5 DEF Plan, PlanOver, Hang
<1> QED
  BY <1>1, <1>2, <1>3, <1>4, <1>5, CallSteps

(* A thread under the lock is somebody's, and a call that waits for the    *)
(* lock on its own thread waits for a free lock.                           *)
LEMMA ThreadOf ==
  ASSUME RunsTypeOK, StepsOwned, NEW j \in Job
  PROVE  /\ Thread(j) \in Job /\ Thread(j) # None
         /\ j \in Runs => Thread(j) = j
         /\ Thread(j) # j => /\ j \in Nested /\ Thread(j) = owner[j]
                             /\ work[owner[j]] = "pipe" /\ owner[j] \in Runs
BY JobAssumption DEF Thread, RunsTypeOK, StepsOwned

(* Only a call under no lock, or a step on the thread of its run, can take *)
(* the lock, and then nobody else is at the model.                         *)
LEMMA LockTaken ==
  ASSUME RunsInv, NEW j \in Job, GetLock(j)
  PROVE  /\ \A k \in Job : work[k] \notin {"think", "hung"}
         /\ Thread(j) = j => UnderLock = {} /\ lock = None
         /\ j \in Nested => work[owner[j]] = "pipe"
<1> USE DEF RunsInv
<1>1. work[j] = "lock" /\ lock \in {None, Thread(j)}
  BY DEF GetLock, Now
<1>2. CASE Thread(j) = j
  <2>1. lock = None
    BY <1>1, <1>2 DEF LockUnderSlot, UnderLock
  <2>2. UnderLock = {}
    BY <2>1, ThreadOf DEF LockUnderSlot, UnderLock
  <2>3. j \notin Nested
    <3>1. SUFFICES ASSUME j \in Nested PROVE FALSE
      OBVIOUS
    <3>2. owner[j] \in Job /\ work[owner[j]] \in {"plan", "pipe"}
      BY <1>1, <3>1 DEF StepsOwned, UnderWay
    <3> QED
      BY <2>2, <3>2 DEF UnderLock
  <2> QED
    BY <1>2, <2>1, <2>2, <2>3 DEF UnderLock
<1>3. CASE Thread(j) # j
  <2>1. /\ j \in Nested /\ Thread(j) = owner[j] /\ work[owner[j]] = "pipe"
        /\ owner[j] \in Runs /\ UnderWay(j)
    BY <1>1, <1>3, ThreadOf DEF UnderWay
  <2>2. lock = owner[j]
    BY <2>1, ThreadOf DEF LockUnderSlot, UnderLock
  <2>3. ASSUME NEW k \in Job, work[k] \in {"think", "hung"}
        PROVE  FALSE
    <3>1. Thread(k) = owner[j] /\ k # owner[j] /\ k # j /\ UnderWay(k)
      BY <1>1, <2>1, <2>2, <2>3 DEF LockUnderSlot, UnderLock, UnderWay
    <3>2. k \in Nested /\ owner[k] = owner[j]
      BY <3>1, ThreadOf
    <3> QED
      BY <2>1, <3>1, <3>2 DEF StepsOwned
  <2> QED
    BY <1>3, <2>1, <2>3
<1> QED
  BY <1>2, <1>3

LEMMA OwnedStep ==
  ASSUME RunsInv, Next
  PROVE  StepsOwned'
<1> USE DEF RunsInv
<1>1. ASSUME NEW r \in Runs, MemoryCommand(r) \/ Call(r) \/ Pipeline(r)
      PROVE  StepsOwned'
  <2>1. /\ owner' = owner /\ \E to \in Works \ {"call"} :
             \/ Moves(r, "call", to) /\ to # "pipe"
             \/ Moves(r, "think", to)
    BY <1>1, NowMoves DEF MemoryCommand, Call, AskSlot, Pipeline, Works
  <2> QED
    BY <2>1 DEF StepsOwned, Moves, UnderWay
<1>2. ASSUME NEW r \in Job, NEW j \in Nested, StepCall(r, j) \/ PipelineCall(r, j)
      PROVE  StepsOwned'
  <2>1. /\ owner'[j] = r /\ \A k \in Nested \ {j} : owner'[k] = owner[k]
        /\ work[r] \in {"plan", "pipe"}
        /\ work[r] = "pipe" => \A k \in Nested : UnderWay(k) => owner[k] # r
        /\ r # j
    BY <1>2 DEF StepCall, PipelineCall, NestedCall, Children, RunsTypeOK, UnderWay
  <2>2. \E to \in {"slot", "over"} : Moves(j, "call", to)
    BY <1>2, NowMoves DEF StepCall, PipelineCall, NestedCall, AskSlot
  <2> QED
    BY <2>1, <2>2 DEF StepsOwned, Moves, UnderWay
<1>3. ASSUME NEW j \in Job, \/ GetSlot(j) \/ DeadlinePasses(j) \/ Busy(j) \/ Hang(j)
                            \/ Return(j) \/ FreeSlot(j)
      PROVE  StepsOwned'
  <2>1. CASE GetSlot(j) \/ Busy(j)
    <3>1. owner' = owner /\ \E to \in {"lock", "over"} : Moves(j, "slot", to)
      BY <2>1, NowMoves DEF GetSlot, Busy
    <3> QED
      BY <3>1 DEF StepsOwned, Moves, UnderWay
  <2>2. CASE DeadlinePasses(j)
    BY <2>2 DEF DeadlinePasses, runVars, StepsOwned, UnderWay
  <2>3. CASE Hang(j) \/ Return(j) \/ FreeSlot(j)
    <3>1. /\ owner' = owner
          /\ \/ \E to \in {"hung", "leave"} : Moves(j, "think", to)
             \/ Moves(j, "leave", "over")
      BY <2>3, NowMoves DEF Hang, Return, FreeSlot
    <3> QED
      BY <3>1 DEF StepsOwned, Moves, UnderWay
  <2> QED
    BY <1>3, <2>1, <2>2, <2>3
<1>4. ASSUME NEW j \in Job, GetLock(j)
      PROVE  StepsOwned'
  <2>1. owner' = owner /\ Moves(j, "lock", "think")
    BY <1>4, NowMoves DEF GetLock
  <2>2. j \in Nested => work[owner[j]] = "pipe"
    BY <1>4, LockTaken
  <2> QED
    BY <2>1, <2>2 DEF StepsOwned, Moves, UnderWay
<1>5. ASSUME NEW j \in Job, Plan(j)
      PROVE  StepsOwned'
  <2>1. owner' = owner /\ Moves(j, "think", "plan")
    BY <1>5, NowMoves DEF Plan
  <2> QED
    BY <2>1 DEF StepsOwned, Moves, UnderWay
<1>6. ASSUME NEW j \in Job, PlanOver(j)
      PROVE  StepsOwned'
  <2>1. /\ owner' = owner
        /\ Moves(j, "plan", "think") \/ Moves(j, "pipe", "think")
        /\ \A k \in Nested : UnderWay(k) => owner[k] # j
    BY <1>6, NowMoves DEF PlanOver, Children, UnderWay
  <2> QED
    BY <2>1 DEF StepsOwned, Moves, UnderWay
<1> QED
  BY <1>1, <1>2, <1>3, <1>4, <1>5, <1>6, CallSteps

(* The two halves of LockUnderSlot: the lock, and the slots.               *)
LockHeld ==
  /\ \A j \in UnderLock : lock = Thread(j)
  /\ lock # None => lock \in UnderLock
  /\ \A j, k \in Job : work[j] \in {"think", "hung"} /\ work[k] \in {"think", "hung"} => j = k

SlotHeld ==
  \A j \in Job : work[j] \in {"lock", "think", "plan", "pipe", "hung", "leave"}
                   <=> phase[j] = "running"

LEMMA SlotHeldStep ==
  ASSUME RunsTypeOK, Placed, SlotHeld, Next
  PROVE  SlotHeld'
<1> USE DEF RunsTypeOK, TypeOK, SlotHeld, Now
<1>1. ASSUME NEW r \in Runs, MemoryCommand(r) \/ Call(r) \/ Pipeline(r)
      PROVE  SlotHeld'
  <2>1. CASE MemoryCommand(r) \/ Pipeline(r)
    BY <1>1, <2>1 DEF MemoryCommand, Pipeline, gateVars
  <2>2. CASE Call(r)
    BY <2>2 DEF Call, AskSlot, Enter, RefuseBackground
  <2> QED
    BY <1>1, <2>1, <2>2
<1>2. ASSUME NEW r \in Job, NEW j \in Nested, StepCall(r, j) \/ PipelineCall(r, j)
      PROVE  SlotHeld'
  <2>1. AskSlot(j)
    BY <1>2 DEF StepCall, PipelineCall, NestedCall
  <2> QED
    BY <2>1 DEF AskSlot, Enter, RefuseBackground
<1>3. ASSUME NEW j \in Job, GetSlot(j) \/ DeadlinePasses(j) \/ Busy(j) \/ FreeSlot(j)
      PROVE  SlotHeld'
  BY <1>3 DEF GetSlot, DeadlinePasses, Busy, FreeSlot, Admit, Expire, GiveUp, Leave,
              runVars, Waiting, In
<1>4. ASSUME NEW j \in Job, GetLock(j) \/ Plan(j) \/ PlanOver(j) \/ Hang(j) \/ Return(j)
      PROVE  SlotHeld'
  BY <1>4 DEF GetLock, Plan, PlanOver, Hang, Return, gateVars
<1> QED
  BY <1>1, <1>2, <1>3, <1>4, CallSteps

(* A step outside the lock: nobody comes under it or leaves it.            *)
LEMMA OutsideLock ==
  ASSUME RunsInv, NEW j \in Job, NEW from, NEW to, Moves(j, from, to),
         from \in {"call", "slot", "leave"}, to \in {"slot", "lock", "over"},
         lock' = lock, \A k \in Nested \ {j} : owner'[k] = owner[k]
  PROVE  LockHeld'
<1> USE DEF RunsInv
<1>1. UnderLock' = UnderLock
  BY DEF UnderLock, Moves
<1>2. \A k \in UnderLock : Thread(k)' = Thread(k)
  BY DEF UnderLock, Thread, Moves, StepsOwned, UnderWay, RunsTypeOK
<1> QED
  BY <1>1, <1>2 DEF LockHeld, LockUnderSlot, UnderLock, Moves

(* A step under the lock, of the only call at the model.                   *)
LEMMA InsideLock ==
  ASSUME RunsInv, NEW j \in Job, NEW to, Moves(j, "think", to),
         to \in {"plan", "pipe", "hung"}, lock' = lock, owner' = owner
  PROVE  LockHeld'
<1> USE DEF RunsInv
<1>1. UnderLock' = UnderLock
  BY DEF UnderLock, Moves
<1>2. \A k \in UnderLock : Thread(k)' = Thread(k)
  BY DEF UnderLock, Thread, Moves, StepsOwned, UnderWay, RunsTypeOK
<1> QED
  BY <1>1, <1>2 DEF LockHeld, LockUnderSlot, UnderLock, Moves

LEMMA LockHeldStep ==
  ASSUME RunsInv, Next
  PROVE  LockHeld'
<1> USE DEF RunsInv
<1>1. ASSUME NEW r \in Runs, MemoryCommand(r) \/ Call(r) \/ Pipeline(r)
      PROVE  LockHeld'
  <2>1. CASE MemoryCommand(r) \/ Call(r)
    <3>1. /\ owner' = owner /\ lock' = lock
          /\ \E to \in {"slot", "over"} : Moves(r, "call", to)
      BY <2>1, NowMoves DEF MemoryCommand, Call, AskSlot
    <3> QED
      BY <3>1, OutsideLock
  <2>2. CASE Pipeline(r)
    <3>1. owner' = owner /\ lock' = lock /\ Moves(r, "think", "pipe")
      BY <2>2, NowMoves DEF Pipeline
    <3> QED
      BY <3>1, InsideLock
  <2> QED
    BY <1>1, <2>1, <2>2
<1>2. ASSUME NEW r \in Job, NEW j \in Nested, StepCall(r, j) \/ PipelineCall(r, j)
      PROVE  LockHeld'
  <2>1. /\ \A k \in Nested \ {j} : owner'[k] = owner[k]
        /\ lock' = lock /\ \E to \in {"slot", "over"} : Moves(j, "call", to)
    BY <1>2, NowMoves DEF StepCall, PipelineCall, NestedCall, AskSlot, RunsTypeOK
  <2> QED
    BY <2>1, OutsideLock
<1>3. ASSUME NEW j \in Job, GetSlot(j) \/ Busy(j) \/ FreeSlot(j)
      PROVE  LockHeld'
  <2>1. /\ owner' = owner /\ lock' = lock
        /\ \E from \in {"slot", "leave"}, to \in {"lock", "over"} : Moves(j, from, to)
    BY <1>3, NowMoves DEF GetSlot, Busy, FreeSlot
  <2> QED
    BY <2>1, OutsideLock
<1>4. ASSUME NEW j \in Job, DeadlinePasses(j)
      PROVE  LockHeld'
  BY <1>4 DEF DeadlinePasses, runVars, LockHeld, LockUnderSlot, UnderLock, Thread
<1>5. ASSUME NEW j \in Job, Plan(j) \/ Hang(j)
      PROVE  LockHeld'
  <2>1. /\ owner' = owner /\ lock' = lock
        /\ \E to \in {"plan", "hung"} : Moves(j, "think", to)
    BY <1>5, NowMoves DEF Plan, Hang
  <2> QED
    BY <2>1, InsideLock
<1>6. ASSUME NEW j \in Job, GetLock(j)
      PROVE  LockHeld'
  <2>1. owner' = owner /\ lock' = Thread(j) /\ Moves(j, "lock", "think")
    BY <1>6, NowMoves DEF GetLock
  <2>2. UnderLock' = UnderLock \cup {j}
    BY <2>1 DEF UnderLock, Moves
  <2>3. \A k \in Job : Thread(k)' = Thread(k)
    BY <2>1 DEF Thread, Moves, RunsTypeOK
  <2>4. lock \in {None, Thread(j)}
    BY <1>6 DEF GetLock
  <2>5. \A k \in UnderLock : Thread(k) = Thread(j)
    BY <1>6, <2>4, LockTaken, ThreadOf DEF LockUnderSlot, UnderLock
  <2>6. Thread(j) \in UnderLock \cup {j}
    BY ThreadOf DEF UnderLock
  <2>7. \A k \in Job : work[k] \notin {"think", "hung"}
    BY <1>6, LockTaken
  <2> QED
    BY <2>1, <2>2, <2>3, <2>5, <2>6, <2>7 DEF LockHeld, Moves, UnderLock
<1>7. ASSUME NEW j \in Job, PlanOver(j)
      PROVE  LockHeld'
  <2>1. /\ owner' = owner /\ lock' = lock
        /\ Moves(j, "plan", "think") \/ Moves(j, "pipe", "think")
        /\ \A k \in Nested : UnderWay(k) => owner[k] # j
    BY <1>7, NowMoves DEF PlanOver, Children, UnderWay
  <2>2. UnderLock' = UnderLock
    BY <2>1 DEF UnderLock, Moves
  <2>3. \A k \in UnderLock : Thread(k)' = Thread(k)
    BY <2>1 DEF UnderLock, Thread, Moves, UnderWay, RunsTypeOK
  <2>4. ASSUME NEW k \in Job, work[k] \in {"think", "hung"}
        PROVE  FALSE
    <3>1. Thread(k) = Thread(j) /\ UnderWay(k) /\ UnderWay(j) /\ k # j
      BY <2>1, <2>4 DEF LockUnderSlot, UnderLock, UnderWay, Moves
    <3>2. CASE Thread(j) = j
      BY <2>1, <3>1, <3>2, ThreadOf
    <3>3. CASE Thread(j) # j
      <4>1. j \in Nested /\ Thread(j) = owner[j] /\ work[owner[j]] = "pipe"
        BY <3>3, ThreadOf
      <4>2. k # owner[j]
        BY <2>4, <4>1
      <4>3. k \in Nested /\ owner[k] = owner[j]
        BY <3>1, <4>1, <4>2, ThreadOf
      <4> QED
        BY <3>1, <4>1, <4>3 DEF StepsOwned
    <3> QED
      BY <3>2, <3>3
  <2> QED
    BY <2>1, <2>2, <2>3, <2>4 DEF LockHeld, LockUnderSlot, UnderLock, Moves
<1>8. ASSUME NEW j \in Job, Return(j)
      PROVE  LockHeld'
  <2>1. /\ owner' = owner /\ Moves(j, "think", "leave")
        /\ lock' = IF Thread(j) = j THEN None ELSE lock
    BY <1>8, NowMoves DEF Return
  <2>2. UnderLock' = UnderLock \ {j} /\ j \in UnderLock
    BY <2>1 DEF UnderLock, Moves
  <2>3. lock = Thread(j)
    BY <2>2 DEF LockUnderSlot
  <2>4. \A k \in Job : work[k] = "pipe" <=> work'[k] = "pipe"
    BY <2>1 DEF Moves
  <2>5. \A k \in Job : Thread(k)' = Thread(k)
    BY <2>1, <2>4 DEF Thread, RunsTypeOK
  <2>6. \A k \in Job : work'[k] \in {"think", "hung"} => work[k] \in {"think", "hung"}
    BY <2>1 DEF Moves
  <2>7. CASE Thread(j) = j
    <3>1. ASSUME NEW k \in UnderLock, k # j
          PROVE  FALSE
      <4>1. Thread(k) = j /\ k \in Job
        BY <2>3, <2>7, <3>1 DEF LockUnderSlot, UnderLock
      <4>2. work[j] = "pipe"
        BY <3>1, <4>1, ThreadOf
      <4> QED
        BY <2>1, <4>2 DEF Moves
    <3>2. UnderLock' = {}
      BY <2>2, <3>1
    <3> QED
      BY <2>1, <2>6, <2>7, <3>2 DEF LockHeld, LockUnderSlot
  <2>8. CASE Thread(j) # j
    <3>1. lock' = lock /\ lock # j
      BY <2>1, <2>3, <2>8
    <3>2. UnderLock' \subseteq UnderLock /\ UnderLock \subseteq Job /\ lock' \in UnderLock'
      BY <2>2, <2>3, <3>1, ThreadOf DEF LockUnderSlot, UnderLock
    <3> QED
      BY <2>5, <2>6, <3>1, <3>2 DEF LockHeld, LockUnderSlot
  <2> QED
    BY <2>7, <2>8
<1> QED
  BY <1>1, <1>2, <1>3, <1>4, <1>5, <1>6, <1>7, <1>8, CallSteps

LEMMA RunsStep == RunsInv /\ [Next]_vars => RunsInv'
<1> SUFFICES ASSUME RunsInv, [Next]_vars PROVE RunsInv'
  OBVIOUS
<1>1. CASE UNCHANGED vars
  BY <1>1 DEF vars, runVars, gateVars, RunsInv, RunsTypeOK, TypeOK, Placed, StepsOwned,
              UnderWay, LockUnderSlot, UnderLock, Thread
<1>2. CASE Next
  <2>1. RunsTypeOK' /\ Placed'
    BY <1>2, TypedStep, PlacedStep DEF RunsInv
  <2>2. StepsOwned'
    BY <1>2, OwnedStep
  <2>3. SlotHeld'
    BY <1>2, SlotHeldStep DEF RunsInv, LockUnderSlot, SlotHeld
  <2>4. LockHeld'
    BY <1>2, LockHeldStep
  <2> QED
    BY <2>1, <2>2, <2>3, <2>4 DEF RunsInv, LockUnderSlot, LockHeld, SlotHeld
<1> QED
  BY <1>1, <1>2

-----------------------------------------------------------------------------
(* Agent runs keep the inductive invariant of the gate.                    *)
THEOREM RunsKeepGate == Spec => []GateInv
<1>1. Init => GateInv
  BY RunsInit, InvInit
<1>2. GateInv /\ [Next]_vars => GateInv'
  BY GateFollows, InvStep
<1> QED
  BY <1>1, <1>2, PTL DEF Spec

(* Agent runs keep their invariant.                                        *)
THEOREM RunsInvariant == Spec => []RunsInv
<1>1. Init => RunsInv
  BY RunsInit
<1> QED
  BY <1>1, RunsStep, PTL DEF Spec

(* Each variable keeps its type.                                           *)
THEOREM RunsTyped == Spec => []RunsTypeOK
<1>1. RunsInv => RunsTypeOK
  BY DEF RunsInv
<1> QED
  BY <1>1, RunsInvariant, PTL

(* The slots of agent runs are accounted for.                              *)
THEOREM RunsSlots == Spec => []SlotsAccounted
<1>1. GateInv => SlotsAccounted
  BY DEF GateInv
<1> QED
  BY <1>1, RunsKeepGate, PTL

(* Every key has as many entries in the heap as calls that wait with it.   *)
THEOREM RunsEntries == Spec => []EntriesMatchWaiters
BY EntriesFollow, RunsKeepGate, PTL

(* However steps of a pipeline re-enter the lock of their run, it is held  *)
(* by the thread of every call under it and let go by the outermost one,   *)
(* one call at a time is at the model, and none waits for a slot with it.  *)
THEOREM RunsLock == Spec => []LockUnderSlot
<1>1. RunsInv => LockUnderSlot
  BY DEF RunsInv
<1> QED
  BY <1>1, RunsInvariant, PTL

(* Whatever the limit, the pool and the number of runs, no step that the   *)
(* planning block hands to the task graph ever reaches the model.          *)
THEOREM RunsSteps == Spec => []StepsNeverGenerate
<1>1. RunsInv => StepsNeverGenerate
  BY DEF RunsInv, StepsOwned, StepsNeverGenerate, UnderWay, RunsTypeOK
<1> QED
  BY <1>1, RunsInvariant, PTL

(* Through the gate, agent runs get their slots as PrioritySlots promises. *)
THEOREM RunsRefineSlots == Spec => ImplementsSlots
<1>1. Init => Slots!Init
  BY RunsInit, SlotsInit
<1>2. GateInv /\ [Next]_vars => [Slots!Next]_(Slots!slotVars)
  BY GateFollows, SlotsSimulated
<1> QED
  BY <1>1, <1>2, RunsKeepGate, PTL DEF Spec, ImplementsSlots, Slots!Spec

(* Two calls that hold slots need two of them.                             *)
LEMMA TwoHolders ==
  ASSUME NEW S \in SUBSET Job, NEW a \in S, NEW b \in S, a # b
  PROVE  Cardinality(S) >= 2
<1>1. IsFiniteSet(S) /\ IsFiniteSet(S \ {a}) /\ Cardinality(S \ {a}) \in Nat
  BY FiniteParts
<1>2. Cardinality(S \ {a}) = Cardinality(S) - 1 /\ Cardinality(S) \in Nat
  BY <1>1, FS_RemoveElement, FiniteParts
<1>3. Cardinality(S \ {a}) # 0
  BY <1>1, FS_EmptySet
<1> QED
  BY <1>1, <1>2, <1>3

(* A step of a plan holds a slot only beside the run that waits for it, so *)
(* some call has read a max_active_runs above 1: with the default of one   *)
(* slot schedule_slot admits no step, and every step ends "system_busy".   *)
StepsNeedSecondSlot ==
  \A j \in Nested : phase[j] = "running" => \E n \in Limits : n >= 2

THEOREM RunsSecondSlot == Spec => []StepsNeedSecondSlot
<1>1. ASSUME GateInv, RunsInv, NEW j \in Nested, phase[j] = "running"
      PROVE  \E n \in Limits : n >= 2
  <2>1. UnderWay(j)
    BY <1>1 DEF RunsInv, LockUnderSlot, UnderWay
  <2>2. /\ owner[j] \in Job /\ work[owner[j]] \in {"plan", "pipe"}
        /\ work[j] \notin {"plan", "pipe"} \/ owner[j] \in Runs
    BY <1>1, <2>1 DEF RunsInv, StepsOwned
  <2>3. owner[j] # j /\ phase[owner[j]] = "running"
    BY <1>1, <2>2 DEF RunsInv, LockUnderSlot
  <2>4. j \in Running /\ owner[j] \in Running /\ Running \in SUBSET Job
    BY <1>1, <2>2, <2>3 DEF Running, In
  <2>5. Cardinality(Running) >= 2
    BY <2>3, <2>4, TwoHolders
  <2>6. active >= 2 /\ \E n \in Limits : active <= n
    BY <1>1, <2>4, <2>5 DEF GateInv, SlotsAccounted
  <2> QED
    BY <1>1, <2>6, LimitAssumption DEF GateInv, TypeOK
<1>2. GateInv /\ RunsInv => StepsNeedSecondSlot
  BY <1>1 DEF StepsNeedSecondSlot
<1> QED
  BY <1>2, RunsKeepGate, RunsInvariant, PTL
=============================================================================
