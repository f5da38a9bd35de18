---- MODULE MCApprovals ----
EXTENDS Approvals, TLC

\* The requests are interchangeable.
Perms == Permutations(Operators)
====
