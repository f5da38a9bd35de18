------------------------------ MODULE LeaseQueue ------------------------------
(***************************************************************************)
(* What the durable task queue promises its submitters, whoever works on   *)
(* it: a unit is offered once, may be leased and handed back any number of *)
(* times, and once it is closed it is never offered or leased again.       *)
(***************************************************************************)
CONSTANT Units
VARIABLE unit

States == {"absent", "offered", "leased", "closed", "dropped"}

LQTypeOK == unit \in [Units -> States]

LQInit == unit = [u \in Units |-> "absent"]

Moves(S, from, to) ==
  /\ \A u \in S : unit[u] \in from
  /\ unit' = [u \in Units |-> IF u \in S THEN to ELSE unit[u]]

Offer(u)  == Moves({u}, {"absent"}, "offered")
Lease(u)  == Moves({u}, {"offered"}, "leased")
Expire(S) == Moves(S, {"leased"}, "offered")
Close(u)  == Moves({u}, {"offered", "leased"}, "closed")
Drop(u)   == Moves({u}, {"closed"}, "dropped")

LQNext ==
  \/ \E u \in Units : Offer(u) \/ Lease(u) \/ Close(u) \/ Drop(u)
  \/ \E S \in SUBSET Units : Expire(S)

LQSpec == LQInit /\ [][LQNext]_unit

=============================================================================
