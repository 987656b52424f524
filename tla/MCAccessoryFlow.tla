---------------------------- MODULE MCAccessoryFlow ---------------------------
(* Instances of AccessoryFlow for TLC.                                       *)
EXTENDS AccessoryFlow, TLC

CONSTANTS r1, r2, c1, c2, a1, a2

MCRequests == {r1, r2}
MCCalls == {c1, c2}

\* A call may fail anywhere but between a checkout that landed and the write
\* that completes the request, and but for a crash, or an answer that is lost,
\* between making an accessory and linking or deleting it.
NotAfterCheckout ==
    AccessorySteps \
        {"idle", "completeStandard", "completeLinked",
         "linkReviewed", "closeProcurement", "completeReviewed",
         "placeAccessory", "linkNew", "placeReviewed", "checkoutReviewed",
         "discardAccessory"}

(***************************************************************************)
(* Two requests from scratch are out of reach.  The instance starts either *)
(* with one to be filed, the other having been rejected before, or with    *)
(* two on their way: one to be sourced, or to be approved as a standard    *)
(* one, the other waiting for stock of a1.                                 *)
(***************************************************************************)
Over == [Unfiled EXCEPT !.kind = "ACCESSORY", !.type = "STANDARD", !.status = "REJECTED"]

AtSourcing == [kind |-> "ACCESSORY", type |-> "NON_STANDARD", status |-> "APPROVED",
               approved |-> TRUE, signedOff |-> TRUE,
               quote |-> "NONE", quoteSkipped |-> TRUE]

AtStandardSignOff == [Unfiled EXCEPT !.kind = "ACCESSORY", !.type = "STANDARD",
                                     !.status = "APPROVED", !.approved = TRUE]

SignedOff == [NoModelRequest EXCEPT !.id = 1, !.status = "APPROVED"]
WaitingForStock == [SignedOff EXCEPT !.status = "COMPLETED", !.accessory = a1]

MCInit ==
    /\ InventoryInit
    /\ \/ /\ row = [r \in Requests |-> IF r = r1 THEN Unfiled ELSE Over]
          /\ mr = [r \in Requests |-> NoModelRequest]
       \/ \E first \in {AtSourcing, AtStandardSignOff} :
             /\ row = [r \in Requests |-> IF r = r1 THEN first ELSE AtSourcing]
             /\ mr = [r \in Requests |-> IF r # r1 THEN WaitingForStock
                                         ELSE IF first = AtSourcing THEN SignedOff
                                         ELSE NoModelRequest]
    /\ call = [c \in Calls |-> Idle]
    /\ queued = {}

MCSpec == MCInit /\ [][Next]_vars

Symmetry == Permutations(MCRequests) \cup Permutations(MCCalls)
=============================================================================
