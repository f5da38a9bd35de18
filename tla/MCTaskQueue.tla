------------------------------ MODULE MCTaskQueue ------------------------------
(* Instances of TaskQueue for TLC: the later unit is the more urgent one. *)
EXTENDS TaskQueue, TLC

MCPriority == [u \in Units |-> MaxUnits - u]
Symmetry == Permutations(Threads)
=============================================================================
