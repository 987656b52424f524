---------------------------- MODULE RequestStatus ----------------------------
(* What the portal promises about the OUTER state of a request: it is filed, a
   manager approves it, fulfilment completes it, and until then anyone entitled
   to may reject it.  COMPLETED and REJECTED are terminal.  The detailed modules
   are shown to implement this one when the calls about one request come one
   after the other.                                                          *)
CONSTANT Requests

VARIABLE status

Statuses == {"NONE", "PENDING", "APPROVED", "COMPLETED", "REJECTED"}
Terminal == {"COMPLETED", "REJECTED"}

Init == status = [r \in Requests |-> "NONE"]

Move(r, from, to) ==
    /\ status[r] \in from
    /\ status' = [status EXCEPT ![r] = to]

File(r)    == Move(r, {"NONE"}, "PENDING")
Approve(r) == Move(r, {"PENDING"}, "APPROVED")
Fulfil(r)  == Move(r, {"APPROVED"}, "COMPLETED")
Reject(r)  == Move(r, {"PENDING", "APPROVED"}, "REJECTED")

Next == \E r \in Requests : File(r) \/ Approve(r) \/ Fulfil(r) \/ Reject(r)

Spec == Init /\ [][Next]_status
=============================================================================
