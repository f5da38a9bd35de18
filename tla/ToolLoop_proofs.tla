--------------------------- MODULE ToolLoop_proofs ---------------------------
(***************************************************************************)
(* The budgets of the decision loop, for every limit and every course of   *)
(* the policy caps: the test at the top of a round is what makes the step  *)
(* that follows it safe, so the invariant ties the two together.           *)
(***************************************************************************)
EXTENDS ToolLoop, TLAPS

LoopTyped ==
  /\ at \in Places
  /\ cap \in 1 .. MaxCalls
  /\ calls \in Nat /\ blocked \in Nat /\ noops \in Nat
  /\ retries \in 0 .. MaxRetries

(* A round that consults the model has room for one more of everything.    *)
RoomLeft == at = "decide" => ~Spent(cap)

LoopInv == LoopTyped /\ RoomLeft

USE LoopAssumption

LEMMA LoopInit == Init => LoopInv
BY SMT DEF Init, LoopInv, LoopTyped, RoomLeft, Places, NoOpCap, BlockedCap

(* What a step does to the counters: the rounds that count are those that  *)
(* were let in, and only the top of a round changes the limit in force.    *)
LEMMA LoopStepKeeps ==
  ASSUME LoopInv, [Next]_vars
  PROVE  LoopInv'
<1> USE DEF LoopInv, LoopTyped, RoomLeft, Places, counters, outside, config, Go, End
<1>1. CASE Disconnect \/ Lapse
  BY <1>1, SMT DEF Disconnect, Lapse, Spent
<1>2. CASE StopAborted \/ StopTimeout \/ Exhaust
  BY <1>2, SMT DEF StopAborted, StopTimeout, Exhaust, Recap
<1>3. CASE Consult
  <2>1. LoopTyped'
    BY <1>3, SMT DEF Consult, Recap
  <2>2. ~Spent(cap')
    BY <1>3 DEF Consult
  <2>3. ~Spent(cap)'
    BY <1>3, <2>2 DEF Consult, Spent
  <2> QED
    BY <2>1, <2>3
<1>4. CASE NoOp \/ Refuse \/ FreeRefusal \/ Execute
  BY <1>4, SMT DEF NoOp, Refuse, FreeRefusal, Execute, Again
<1>5. ASSUME NEW n \in 2 .. MaxCalls, Batch(n) PROVE LoopInv'
  BY <1>5, SMT DEF Batch, Again
<1>6. CASE StopForApproval \/ ParseFail \/ Raise \/ Answer
  BY <1>6, SMT DEF StopForApproval, ParseFail, Raise, Answer
<1>7. CASE HandOff \/ Redirect \/ Finish \/ ReplyRaises \/ Fallback
  BY <1>7, SMT DEF HandOff, Redirect, Finish, ReplyRaises, Fallback, Leave, BackToTop
<1>8. CASE RetryAnswer
  BY <1>8, SMT DEF RetryAnswer, BackToTop
<1>9. CASE UNCHANGED vars
  BY <1>9, SMT DEF vars, Spent
<1> QED
  BY <1>1, <1>2, <1>3, <1>4, <1>5, <1>6, <1>7, <1>8, <1>9 DEF Next, LoopStep

(* Between the test at the top of a round and what the round does, neither *)
(* the counters nor the limit move; a batch asks again for the tools it    *)
(* adds.                                                                   *)
LEMMA BudgetStep ==
  ASSUME LoopInv, [Next]_vars
  PROVE  /\ calls' > calls => calls' <= cap
         /\ blocked' > blocked => blocked' <= BlockedCap(cap)
         /\ noops' > noops => noops' <= NoOpCap
<1> USE DEF LoopInv, LoopTyped, RoomLeft, counters, outside, config, Go, End
<1>1. CASE \/ Disconnect \/ Lapse \/ StopAborted \/ StopTimeout \/ Exhaust \/ Consult
           \/ StopForApproval \/ ParseFail \/ Raise \/ Answer
           \/ HandOff \/ Redirect \/ RetryAnswer \/ Finish \/ ReplyRaises \/ Fallback
  <2>1. calls' = calls /\ blocked' = blocked /\ noops' = noops
    BY <1>1 DEF Disconnect, Lapse, StopAborted, StopTimeout, Exhaust, Consult,
                StopForApproval, ParseFail, Raise, Answer,
                HandOff, Redirect, RetryAnswer, Finish, ReplyRaises, Fallback
  <2> QED
    BY <2>1, SMT
<1>2. CASE NoOp \/ Refuse \/ FreeRefusal \/ Execute
  BY <1>2, SMT DEF NoOp, Refuse, FreeRefusal, Execute, Again, Spent, NoOpCap, BlockedCap
<1>3. ASSUME NEW n \in 2 .. MaxCalls, Batch(n)
      PROVE  /\ calls' > calls => calls' <= cap
             /\ blocked' > blocked => blocked' <= BlockedCap(cap)
             /\ noops' > noops => noops' <= NoOpCap
  BY <1>3, SMT DEF Batch, Again
<1>4. CASE UNCHANGED vars
  BY <1>4, SMT DEF vars
<1> QED
  BY <1>1, <1>2, <1>3, <1>4 DEF Next, LoopStep

(* The inductive invariant of run_decision_loop: its counters are typed,   *)
(* and a round in which the model is consulted has room in every budget.   *)
THEOREM LoopInvariant == Spec => []LoopInv
<1>1. LoopInv /\ [Next]_vars => LoopInv'
  BY LoopStepKeeps
<1> QED
  BY LoopInit, <1>1, PTL DEF Spec

(* No round of run_decision_loop takes tool_calls, blocked_calls or        *)
(* no_op_steps over the limit in force in it.                              *)
THEOREM LoopBudgets == Spec => BudgetsKept
<1>1. LoopInv /\ [Next]_vars
        => [ /\ calls' > calls => calls' <= cap
             /\ blocked' > blocked => blocked' <= BlockedCap(cap)
             /\ noops' > noops => noops' <= NoOpCap ]_vars
  BY BudgetStep
<1> QED
  BY <1>1, LoopInvariant, PTL DEF Spec, BudgetsKept

(* What is left of the budgets, and how far the round is from its end: the *)
(* steps the loop can still take without a round that no budget counts.    *)
Left(x, limit) == IF limit > x THEN limit - x ELSE 0

Rank == CASE at = "top" -> 3
          [] at = "decide" -> 2
          [] at \in {"reason", "wrap", "fallback"} -> 1
          [] at = "over" -> 0

Budget ==
  Left(calls, MaxCalls) + Left(blocked, BlockedCap(MaxCalls)) + Left(noops, NoOpCap)
    + (MaxRetries - retries)

Fuel == 4 * Budget + Rank

LEMMA LeftType ==
  ASSUME NEW c \in Nat, NEW b \in Nat, NEW n \in Nat, NEW r \in 0 .. MaxRetries
  PROVE  Left(c, MaxCalls) + Left(b, BlockedCap(MaxCalls)) + Left(n, NoOpCap) + (MaxRetries - r)
           \in Nat
BY SMT DEF Left, BlockedCap, NoOpCap

(* A turn of the history variable can be seen.                             *)
FreeTyped == free \in BOOLEAN

LEMMA FreeStep == ASSUME FreeTyped, [Next]_vars PROVE FreeTyped'
<1>1. CASE UNCHANGED free
  BY <1>1 DEF FreeTyped
<1>2. CASE FreeRefusal \/ Redirect
  BY <1>2, Zenon DEF FreeTyped, FreeRefusal, Redirect
<1> QED
  BY <1>1, <1>2
     DEF Next, vars, Disconnect, Lapse, LoopStep, StopAborted, StopTimeout, Exhaust, Consult,
         NoOp, Refuse, Execute, Batch, StopForApproval, ParseFail, Raise, Answer, HandOff,
         RetryAnswer, Finish, ReplyRaises, Fallback

LEMMA FuelType == ASSUME LoopInv PROVE Budget \in Nat /\ Rank \in 0 .. 3 /\ Fuel \in Nat
<1>1. Budget \in Nat
  BY SMT DEF LoopInv, LoopTyped, Budget, Left, BlockedCap, NoOpCap
<1>2. Rank \in 0 .. 3
  BY SMT DEF LoopInv, LoopTyped, Places, Rank
<1> QED
  BY <1>1, <1>2, SMT DEF Fuel

LEMMA FuelLess ==
  ASSUME NEW b \in Nat, NEW c \in Nat, NEW r \in 0 .. 3, NEW s \in 0 .. 3,
         c < b \/ (c = b /\ s < r)
  PROVE  4 * c + s < 4 * b + r
OBVIOUS

(* A step of the loop either ends the round, or spends of a budget that    *)
(* has something left, or is a round that counts nothing.                  *)
LEMMA FuelStep ==
  ASSUME LoopInv, FreeTyped, LoopStep
  PROVE  free' # free \/ Fuel' < Fuel
<1>0. /\ Budget \in Nat /\ Rank \in 0 .. 3
      /\ Budget' \in Nat /\ Rank' \in 0 .. 3
  <2>1. LoopInv'
    BY LoopStepKeeps DEF Next
  <2>2. Budget' \in Nat
    BY <2>1, LeftType, Zenon DEF LoopInv, LoopTyped, Budget
  <2>3. Rank' \in 0 .. 3
    BY <2>1, SMT DEF LoopInv, LoopTyped, Places, Rank
  <2> QED
    BY <2>2, <2>3, FuelType
<1>1. ASSUME Budget' = Budget, Rank' < Rank
      PROVE  Fuel' < Fuel
  BY <1>0, <1>1, FuelLess, Zenon DEF Fuel
<1>2. ASSUME Budget' < Budget
      PROVE  Fuel' < Fuel
  BY <1>0, <1>2, FuelLess, Zenon DEF Fuel
<1>3. ASSUME UNCHANGED counters
      PROVE  Budget' = Budget
  BY <1>3, SMT DEF counters, Budget, Left
<1> USE DEF counters, Go, End
<1>4. CASE StopAborted \/ StopTimeout \/ Exhaust \/ Consult
  <2>1. UNCHANGED counters /\ at = "top" /\ at' \in {"over", "wrap", "decide"}
    BY <1>4 DEF StopAborted, StopTimeout, Exhaust, Consult
  <2>2. Rank' < Rank
    BY <2>1, SMT DEF Rank
  <2> QED
    BY <1>1, <1>3, <2>1, <2>2
<1>5. CASE StopForApproval \/ ParseFail \/ Raise \/ Answer
  <2>1. UNCHANGED counters /\ at = "decide" /\ at' \in {"over", "fallback", "reason"}
    BY <1>5 DEF StopForApproval, ParseFail, Raise, Answer
  <2>2. Rank' < Rank
    BY <2>1, SMT DEF Rank
  <2> QED
    BY <1>1, <1>3, <2>1, <2>2
<1>6. CASE HandOff \/ Finish \/ ReplyRaises \/ Fallback
  <2>1. UNCHANGED counters /\ at \in {"reason", "wrap", "fallback"} /\ at' = "over"
    BY <1>6 DEF HandOff, Finish, ReplyRaises, Fallback, Leave
  <2>2. Rank' < Rank
    BY <2>1, SMT DEF Rank
  <2> QED
    BY <1>1, <1>3, <2>1, <2>2
<1>7. CASE FreeRefusal \/ Redirect
  <2>1. free' = ~free
    BY <1>7 DEF FreeRefusal, Redirect
  <2>2. CASE free = TRUE
    BY <2>1, <2>2, Zenon
  <2>3. CASE free = FALSE
    BY <2>1, <2>3, Zenon
  <2> QED
    BY <2>2, <2>3, Zenon DEF FreeTyped
<1>8. CASE NoOp \/ Refuse \/ Execute \/ \E n \in 2 .. MaxCalls : Batch(n)
  <2>1. /\ cap \in 1 .. MaxCalls /\ calls < cap /\ blocked < BlockedCap(cap) /\ noops < NoOpCap
        /\ calls \in Nat /\ blocked \in Nat /\ noops \in Nat
    BY <1>8, SMT DEF LoopInv, LoopTyped, RoomLeft, Spent, NoOp, Refuse, Execute, Batch, Again,
                     BlockedCap, NoOpCap
  <2>2. \/ noops' = noops + 1 /\ UNCHANGED <<calls, blocked, retries>>
        \/ blocked' = blocked + 1 /\ UNCHANGED <<calls, noops, retries>>
        \/ \E n \in 1 .. MaxCalls : calls' = calls + n /\ UNCHANGED <<blocked, noops, retries>>
    BY <1>8, SMT DEF NoOp, Refuse, Execute, Batch, Again
  <2>3. Budget' < Budget
    BY <2>1, <2>2, SMT DEF LoopInv, LoopTyped, Budget, Left, BlockedCap, NoOpCap
  <2> QED
    BY <1>2, <2>3
<1>9. CASE RetryAnswer
  <2>1. retries' = retries + 1 /\ UNCHANGED <<calls, blocked, noops>>
    BY <1>9 DEF RetryAnswer
  <2>2. Budget' < Budget
    BY <2>1, SMT DEF LoopInv, LoopTyped, Budget, Left, BlockedCap, NoOpCap
  <2> QED
    BY <1>2, <2>2
<1> QED
  BY <1>4, <1>5, <1>6, <1>7, <1>8, <1>9 DEF LoopStep

(* Every step of run_decision_loop uses up something there is only so much *)
(* of, except a round that no budget counts; the client and the clock give *)
(* nothing back.  So without such rounds the loop ends.                    *)
THEOREM LoopSpends ==
  Spec => /\ [](Fuel \in Nat)
          /\ [][ /\ LoopStep => free' # free \/ Fuel' < Fuel
                 /\ Disconnect \/ Lapse => Fuel' = Fuel ]_vars
<1>1. LoopInv => Fuel \in Nat
  BY FuelType
<1>2. Disconnect \/ Lapse => Fuel' = Fuel
  <2> SUFFICES ASSUME Disconnect \/ Lapse PROVE Fuel' = Fuel
    OBVIOUS
  <2>1. UNCHANGED <<at, calls, blocked, noops, retries>>
    BY DEF Disconnect, Lapse, counters
  <2>2. Rank' = Rank /\ Budget' = Budget
    BY <2>1 DEF Rank, Budget, Left
  <2> QED
    BY <2>2 DEF Fuel
<1>3. Spec => []FreeTyped
  <2>1. Init => FreeTyped
    BY DEF Init, FreeTyped
  <2> QED
    BY <2>1, FreeStep, PTL DEF Spec
<1>4. LoopInv /\ FreeTyped /\ [Next]_vars
        => [ /\ LoopStep => free' # free \/ Fuel' < Fuel
             /\ Disconnect \/ Lapse => Fuel' = Fuel ]_vars
  BY <1>2, FuelStep
<1> QED
  BY <1>1, <1>3, <1>4, LoopInvariant, PTL DEF Spec

(* How many steps a run has left once its time is up or its client gone.   *)
Late == CASE at = "decide" -> 3
          [] at = "reason" -> 2
          [] at \in {"top", "wrap", "fallback"} -> 1
          [] at = "over" -> 0

(* The time limit and the departure of the client stay, and the next test  *)
(* at the top of a round ends the loop: after either, the loop consults    *)
(* the model no more than in the round it is in, whatever its rounds count.*)
THEOREM LoopStopsLate ==
  Spec => [][ aborted \/ expired => /\ (aborted \/ expired)'
                                    /\ LoopStep => Late' < Late /\ at' # "decide" ]_vars
<1>1. ASSUME LoopInv, LoopStep, aborted \/ expired
      PROVE  Late' < Late /\ at' # "decide"
  <2>1. \/ at = "top" /\ at' = "over"
        \/ at = "decide" /\ at' \in {"top", "over", "fallback", "reason"}
        \/ at = "reason" /\ at' \in {"top", "over"}
        \/ at \in {"wrap", "fallback"} /\ at' = "over"
    BY <1>1 DEF LoopStep, StopAborted, StopTimeout, Exhaust, Consult, NoOp, Refuse, FreeRefusal,
                Execute, Batch, StopForApproval, ParseFail, Raise, Answer, HandOff, Redirect,
                RetryAnswer, Finish, ReplyRaises, Fallback, Again, Leave, BackToTop, Go, End
  <2> QED
    BY <2>1, SMT DEF Late
<1>2. ASSUME [Next]_vars, aborted \/ expired
      PROVE  (aborted \/ expired)'
  <2>1. CASE Disconnect \/ Lapse \/ UNCHANGED vars
    BY <1>2, <2>1 DEF Disconnect, Lapse, vars, outside
  <2>2. CASE LoopStep
    <3>1. UNCHANGED outside
      BY <2>2 DEF LoopStep, StopAborted, StopTimeout, Exhaust, Consult, NoOp, Refuse, FreeRefusal,
                  Execute, Batch, StopForApproval, ParseFail, Raise, Answer, HandOff, Redirect,
                  RetryAnswer, Finish, ReplyRaises, Fallback, Again
    <3> QED
      BY <1>2, <3>1 DEF outside
  <2> QED
    BY <1>2, <2>1, <2>2 DEF Next
<1>3. LoopInv /\ [Next]_vars
        => [ aborted \/ expired => /\ (aborted \/ expired)'
                                   /\ LoopStep => Late' < Late /\ at' # "decide" ]_vars
  BY <1>1, <1>2
<1> QED
  BY <1>3, LoopInvariant, PTL DEF Spec
=============================================================================
