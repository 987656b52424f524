----------------------------- MODULE JobOutcome ------------------------------
(* What the background job table promises about a job: it waits, however many
   attempts that takes, until its handler has succeeded or the queue gives up on
   it, and then never changes again.                                          *)
CONSTANT Jobs

VARIABLE fate

Init == fate = [j \in Jobs |-> "absent"]

Move(j, from, to) ==
    /\ fate[j] = from
    /\ fate' = [fate EXCEPT ![j] = to]

Next == \E j \in Jobs :
            \/ Move(j, "absent", "waiting")
            \/ Move(j, "waiting", "done")
            \/ Move(j, "waiting", "failed")

Spec == Init /\ [][Next]_fate
=============================================================================
