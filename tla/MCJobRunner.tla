----------------------------- MODULE MCJobRunner -----------------------------
(* Instances of JobRunner for TLC: a notification with two attempts, a one-shot
   cleanup, and a type nobody registered a handler for.                       *)
EXTENDS JobRunner, TLC

CONSTANTS t1, t2, e1, e2

MCWorks == {"notify", "cleanup", "unknown"}
MCHandled == {"notify", "cleanup"}
MCMaxAttempts == [w \in MCWorks |-> IF w = "notify" THEN 2 ELSE 1]

TwoWorks == {"notify", "cleanup"}
TwoMaxAttempts == [w \in TwoWorks |-> MCMaxAttempts[w]]

Symmetry == Permutations({t1, t2}) \cup Permutations({e1, e2})
=============================================================================
