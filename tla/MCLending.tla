------------------------------ MODULE MCLending ------------------------------
(* Instances of Lending for TLC.                                             *)
EXTENDS Lending, TLC

CONSTANTS r1, r2, u1, u2, c1, c2, a1, x1, x2, s1

MCQty == a1 :> 2

\* A call may fail anywhere but between a checkout that landed and the write that
\* records it.
NotAfterCheckout == LendingSteps \ {"idle", "saveAssigned", "complete"}

(***************************************************************************)
(* One request is yet to be filed.  The other is u1's: a loan, out with    *)
(* u1, or the report of a serial or of an asset that is not recorded; with *)
(* the latter the assignments are used up, so that accessories stand still. *)
(***************************************************************************)
Borrowed == [Unfiled EXCEPT !.kind = "LOAN", !.user = u1, !.status = "COMPLETED",
                            !.signedOff = TRUE, !.accessory = a1]
Reported == [Unfiled EXCEPT !.kind = "CORRECTION", !.user = u1, !.status = "APPROVED"]
WrongSerial == [what |-> "SERIAL", record |-> x1, serial |-> s1]
Unlogged == [what |-> "UNLOGGED_ASSET", record |-> None, serial |-> None]

MCInit ==
    /\ SnipeInit
    /\ \A x \in Assets : asset[x].holder = None
    /\ \/ /\ row = [r \in Requests |-> IF r = r2 THEN Borrowed ELSE Unfiled]
          /\ report = [r \in Requests |-> NoReport]
          /\ slot = [Empty EXCEPT ![1] = [state |-> "out", acc |-> a1, user |-> u1]]
          /\ \A x \in Assets : asset[x].serial = None
       \/ \E filed \in {WrongSerial, Unlogged} :
             /\ row = [r \in Requests |-> IF r = r2 THEN Reported ELSE Unfiled]
             /\ report = [r \in Requests |-> IF r = r2 THEN filed ELSE NoReport]
             /\ slot = [i \in Slots |-> [state |-> "in", acc |-> a1, user |-> u1]]

MCSpec == MCInit /\ [][Next]_vars

Symmetry == Permutations({c1, c2})
=============================================================================
