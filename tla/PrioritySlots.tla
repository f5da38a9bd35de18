--------------------------- MODULE PrioritySlots ---------------------------
(***************************************************************************)
(* What the admission gate promises its callers: at most so many holders,  *)
(* a free slot goes to a waiting call that no waiting call precedes, and   *)
(* nobody is turned away without having waited, save background calls.     *)
(***************************************************************************)
EXTENDS Integers

CONSTANTS Job, Prio, Background, Limits, Stamps
VARIABLES phase, stamp, limit, active

slotVars == <<phase, stamp, limit, active>>

Precedes(k, j) ==
  Prio[k] < Prio[j] \/ (Prio[k] = Prio[j] /\ stamp[k] < stamp[j])

Init ==
  /\ phase = [j \in Job |-> "idle"]
  /\ stamp = [j \in Job |-> 0]
  /\ limit = [j \in Job |-> 0]
  /\ active = 0

Move(j, from, to) == phase[j] = from /\ phase' = [phase EXCEPT ![j] = to]

Ask(j) ==
  /\ Move(j, "idle", "waiting")
  /\ \E s \in Stamps : stamp' = [stamp EXCEPT ![j] = s]
  /\ \E n \in Limits : limit' = [limit EXCEPT ![j] = n]
  /\ UNCHANGED active

Grant(j) ==
  /\ Move(j, "waiting", "running")
  /\ active < limit[j] /\ active' = active + 1
  /\ \A k \in Job : phase[k] = "waiting" => ~Precedes(k, j)
  /\ UNCHANGED <<stamp, limit>>

Refuse(j) ==
  /\ \/ Move(j, "waiting", "refused")
     \/ Prio[j] >= Background /\ Move(j, "idle", "refused")
  /\ UNCHANGED <<stamp, limit, active>>

Free(j) ==
  /\ Move(j, "running", "done")
  /\ active' = active - 1
  /\ UNCHANGED <<stamp, limit>>

Next == \E j \in Job : Ask(j) \/ Grant(j) \/ Refuse(j) \/ Free(j)

Spec == Init /\ [][Next]_slotVars
=============================================================================
