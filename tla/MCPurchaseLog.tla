---------------------------- MODULE MCPurchaseLog ----------------------------
(* Instances of PurchaseLog for TLC: two device requests, one purchase over the
   threshold, and a sync; either job has two attempts.                        *)
EXTENDS PurchaseLog

CONSTANTS t1, t2, e1

MCWorks == {"purchase", "sync"}
MCMaxAttempts == [w \in MCWorks |-> 2]
=============================================================================
