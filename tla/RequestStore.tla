---------------------------- MODULE RequestStore -----------------------------
(* The Request and ModelRequest tables of the portal and the handlers both
   fulfilment flows share: filing, editing, the approvals and rejection
   (src/backend/src/services/request.ts).

   Every handler of the service has one shape: read the row, check the guards,
   await the calls to Snipe-IT, write the row back.  Nothing ties the write to
   what was read, so a handler here is a call in flight that advances one await
   at a time: its first action reads and checks, each later one is what runs
   between two awaits, and the last writes.  `call` holds what the handler keeps
   in its local variables meanwhile.                                         *)
EXTENDS Naturals, FiniteSets

CONSTANTS
    Requests,     \* requests that may be filed
    Calls,        \* handler invocations that may be in flight at once
    Models,       \* Snipe-IT models
    Assets,       \* Snipe-IT hardware assets
    Accessories,  \* Snipe-IT accessory records
    None,         \* null, in an id column or a local variable
    Kinds,        \* the request kinds of the instance: "ASSET", "ACCESSORY"
    Overlap,      \* may two calls about one request be in flight together?
    FailAt,       \* the steps at which a call may throw, time out or crash
    Watched       \* the kinds of notification the instance keeps track of

ASSUME StoreAssumption ==
    /\ None \notin Requests \cup Models \cup Assets \cup Accessories
    /\ Kinds \subseteq {"ASSET", "ACCESSORY"}
    /\ Overlap \in BOOLEAN
    /\ Watched \subseteq
          {"MANAGER_APPROVAL_NEEDED", "ADMIN_APPROVAL_NEEDED", "REQUEST_EDITED",
           "REQUEST_REJECTED", "DEVICE_ASSIGNED", "QUOTE_APPROVAL_NEEDED",
           "SELF_PROCUREMENT_NEEDED", "SELF_PROCUREMENT_SUBMITTED"}

VARIABLES
    row,     \* the Request table, with the outcome of the request's quote
    mr,      \* the ModelRequest table
    call,    \* the handler invocations
    queued   \* the Watched SEND_REQUEST_NOTIFICATION jobs inserted so far

storeVars == <<row, mr, call, queued>>

Types == {"STANDARD", "NON_STANDARD"}
Statuses == {"NONE", "PENDING", "APPROVED", "COMPLETED", "REJECTED"}
Terminal == {"COMPLETED", "REJECTED"}
QuoteStatuses == {"NONE", "SENT", "ACCEPTED", "REJECTED"}
Unfiled == [kind |-> "NONE", type |-> "NONE", status |-> "NONE",
            approved |-> FALSE, signedOff |-> FALSE,
            quote |-> "NONE", quoteSkipped |-> FALSE]

\* id is the primary key of the last row the request had; the row exists unless
\* its status is NONE.
NoModelRequest == [id |-> 0, status |-> "NONE", model |-> None, asset |-> None,
                   accessory |-> None, ready |-> FALSE]

Idle == [at |-> "idle", req |-> None, mr |-> 0, kind |-> "NONE", type |-> "NONE",
         flag |-> FALSE, model |-> None, asset |-> None, accessory |-> None]

StoreInit ==
    /\ row = [r \in Requests |-> Unfiled]
    /\ mr = [r \in Requests |-> NoModelRequest]
    /\ call = [c \in Calls |-> Idle]
    /\ queued = {}

HasModelRequest(r) == mr[r].status # "NONE"

\* The id a handler reads with the request: 0 when there is no row.
ModelRequestId(r) == IF HasModelRequest(r) THEN mr[r].id ELSE 0

\* Is the ModelRequest row the call read still there to be updated by its id?
StillThere(c) == HasModelRequest(call[c].req) /\ mr[call[c].req].id = call[c].mr

Free(c, r) ==
    /\ call[c].at = "idle"
    /\ Overlap \/ \A d \in Calls : call[d].req # r

\* The call as it leaves the read: where it stands and the row it read.
Loaded(step, r) == [Idle EXCEPT !.at = step, !.req = r, !.mr = ModelRequestId(r)]

Begin(c, r, loaded) ==
    /\ Free(c, r)
    /\ call' = [call EXCEPT ![c] = loaded]

At(c, step) == call[c].at = step
Goto(c, step) == call' = [call EXCEPT ![c].at = step]

\* The call goes on with these local variables.
Continue(c, locals) == call' = [call EXCEPT ![c] = locals]
Return(c) == call' = [call EXCEPT ![c] = Idle]

SetStatus(r, s) == row' = [row EXCEPT ![r].status = s]

\* The jobs are fire-and-forget; a lost insert only makes `queued` smaller, and
\* nothing below reads it.
NotifyAll(r, kinds) == queued' = queued \cup ({r} \X (kinds \cap Watched))
Notify(r, kind) == NotifyAll(r, {kind})

(***************************************************************************)
(* The rows of the workflow.                                               *)
(***************************************************************************)
AwaitsManager(r) == row[r].status = "PENDING"

\* Mutants: signing off whatever the stage, whatever the type, or on the
\* approval stamp alone.
AwaitsStandardSignOffAnyStage(r) ==
    row[r].status \notin {"NONE"} \cup Terminal /\ row[r].type = "STANDARD" /\ ~row[r].signedOff
AwaitsStandardSignOffAnyType(r) == row[r].status = "APPROVED" /\ ~row[r].signedOff
AwaitsStandardSignOffByStamp(r) ==
    row[r].approved /\ row[r].type = "STANDARD" /\ row[r].status # "REJECTED"

AwaitsStandardSignOff(r) ==
    /\ row[r].status = "APPROVED"
    /\ row[r].type = "STANDARD"
    /\ ~row[r].signedOff

AwaitsReview(r) ==
    /\ row[r].status = "APPROVED"
    /\ ~AwaitsStandardSignOff(r)
    /\ mr[r].status = "PENDING"

\* Has anything downstream been built from what the request asks for?
IsShapeCommitted(r) ==
    \/ /\ HasModelRequest(r)
       /\ \/ mr[r].status # "PENDING"
          \/ mr[r].model # None
          \/ mr[r].asset # None
          \/ mr[r].accessory # None
    \/ row[r].quote # "NONE"
    \/ row[r].quoteSkipped

(***************************************************************************)
(* Filing.  An auto-approved request is inserted PENDING and then approved *)
(* by the same call.                                                       *)
(***************************************************************************)
ApprovalStep(type) ==
    IF type = "STANDARD" THEN "approveStandard" ELSE "approveNonStandard"

CreateRequest(c, r, kind, type, autoApproved) ==
    /\ row[r].status = "NONE"
    /\ row' = [row EXCEPT ![r] = [Unfiled EXCEPT !.kind = kind, !.type = type,
                                                 !.status = "PENDING"]]
    /\ IF autoApproved
       THEN /\ Begin(c, r, Loaded(ApprovalStep(type), r))
            /\ UNCHANGED queued
       ELSE /\ Free(c, r)
            /\ Notify(r, "MANAGER_APPROVAL_NEEDED")
            /\ UNCHANGED call
    /\ UNCHANGED mr

(***************************************************************************)
(* The manager's approval, and the administrator's review of a             *)
(* non-standard request.                                                   *)
(***************************************************************************)
ApproveRequest(c, r) ==
    /\ AwaitsManager(r)
    /\ row[r].type = "NON_STANDARD" => ~HasModelRequest(r)
    /\ Begin(c, r, Loaded(ApprovalStep(row[r].type), r))
    /\ UNCHANGED <<row, mr, queued>>

RecordApproval(r) == row' = [row EXCEPT ![r].status = "APPROVED", ![r].approved = TRUE]

HandleStandardApproval(c) ==
    LET r == call[c].req IN
    /\ At(c, "approveStandard")
    /\ RecordApproval(r)
    /\ Notify(r, "ADMIN_APPROVAL_NEEDED")
    /\ Return(c)
    /\ UNCHANGED mr

\* One transaction: a second row for the request violates the unique key and
\* takes the status update down with it.
HandleNonStandardApproval(c) ==
    LET r == call[c].req IN
    /\ At(c, "approveNonStandard")
    /\ ~HasModelRequest(r)
    /\ RecordApproval(r)
    /\ mr' = [mr EXCEPT ![r] = [NoModelRequest EXCEPT !.id = mr[r].id + 1,
                                                      !.status = "PENDING"]]
    /\ Notify(r, "ADMIN_APPROVAL_NEEDED")
    /\ Return(c)

ReviewRequest(c, r) ==
    /\ AwaitsReview(r)
    /\ Begin(c, r, Loaded("approveReview", r))
    /\ UNCHANGED <<row, mr, queued>>

HandleAdminNonStandardApproval(c) ==
    LET r == call[c].req IN
    /\ At(c, "approveReview")
    /\ StillThere(c)
    /\ row' = [row EXCEPT ![r].signedOff = TRUE]
    /\ mr' = [mr EXCEPT ![r].status = "APPROVED"]
    /\ Return(c)
    /\ UNCHANGED queued

(***************************************************************************)
(* Editing.  kind and type are the shape the row is to have; `newApprover` *)
(* is whether the approver moves with it.                                  *)
(***************************************************************************)
EditRequest(c, r, kind, type, newApprover) ==
    /\ row[r].status \in {"PENDING", "APPROVED"}
    /\ (kind # row[r].kind \/ type # row[r].type) => ~IsShapeCommitted(r)
    /\ Begin(c, r, [Loaded("saveEdit", r) EXCEPT !.kind = kind, !.type = type,
                                                 !.flag = newApprover])
    /\ UNCHANGED <<row, mr, queued>>

\* One transaction: the delete of a row that is gone aborts the edit.
SaveEdit(c) ==
    LET r == call[c].req
        dropsModelRequest == call[c].type = "STANDARD" /\ call[c].mr # 0
    IN  /\ At(c, "saveEdit")
        /\ dropsModelRequest => HasModelRequest(r)
        /\ row' = [row EXCEPT ![r].kind = call[c].kind, ![r].type = call[c].type]
        /\ mr' = IF dropsModelRequest
                 THEN [mr EXCEPT ![r] = [NoModelRequest EXCEPT !.id = mr[r].id]]
                 ELSE mr
        /\ NotifyAll(r, IF call[c].flag /\ row[r].status = "PENDING"
                        THEN {"REQUEST_EDITED", "MANAGER_APPROVAL_NEEDED"}
                        ELSE {"REQUEST_EDITED"})
        /\ Return(c)

(***************************************************************************)
(* Rejecting, by a person or by the stale-request cleanup.                 *)
(***************************************************************************)
\* Mutant: a completed request may still be rejected.
RejectRequestEvenDone(c, r) ==
    /\ row[r].status \notin {"NONE", "REJECTED"}
    /\ Begin(c, r, Loaded("saveRejection", r))
    /\ UNCHANGED <<row, mr, queued>>

RejectRequest(c, r) ==
    /\ row[r].status \notin {"NONE"} \cup Terminal
    /\ Begin(c, r, Loaded("saveRejection", r))
    /\ UNCHANGED <<row, mr, queued>>

SaveRejection(c) ==
    /\ At(c, "saveRejection")
    /\ SetStatus(call[c].req, "REJECTED")
    /\ Notify(call[c].req, "REQUEST_REJECTED")
    /\ Return(c)
    /\ UNCHANGED mr

\* A step throws, its await times out, or the process dies: the call is over and
\* what it had written, here or in Snipe-IT, stays.
Fail(c) ==
    /\ call[c].at \in FailAt
    /\ Return(c)
    /\ UNCHANGED <<row, mr, queued>>

StoreStep(c) ==
    \/ \E r \in Requests, kind \in Kinds, type \in Types :
          \/ \E autoApproved \in BOOLEAN : CreateRequest(c, r, kind, type, autoApproved)
          \/ \E newApprover \in BOOLEAN : EditRequest(c, r, kind, type, newApprover)
    \/ \E r \in Requests : ApproveRequest(c, r) \/ ReviewRequest(c, r) \/ RejectRequest(c, r)
    \/ HandleStandardApproval(c)
    \/ HandleNonStandardApproval(c)
    \/ HandleAdminNonStandardApproval(c)
    \/ SaveEdit(c)
    \/ SaveRejection(c)
    \/ Fail(c)

(***************************************************************************)
(* Types.                                                                  *)
(***************************************************************************)
Rows == [kind : {"ASSET", "ACCESSORY", "NONE"}, type : Types \cup {"NONE"},
         status : Statuses, approved : BOOLEAN, signedOff : BOOLEAN,
         quote : QuoteStatuses, quoteSkipped : BOOLEAN]

ModelRequests ==
    [id : Nat, status : {"NONE", "PENDING", "APPROVED", "COMPLETED"},
     model : Models \cup {None}, asset : Assets \cup {None},
     accessory : Accessories \cup {None}, ready : BOOLEAN]

CallStates(steps) ==
    [at : steps, req : Requests \cup {None}, mr : Nat,
     kind : {"ASSET", "ACCESSORY", "NONE"}, type : Types \cup {"NONE"},
     flag : BOOLEAN, model : Models \cup {None}, asset : Assets \cup {None},
     accessory : Accessories \cup {None}]

StoreSteps == {"idle", "approveStandard", "approveNonStandard", "approveReview",
               "saveEdit", "saveRejection"}

StoreTypeOK(steps) ==
    /\ row \in [Requests -> Rows]
    /\ mr \in [Requests -> ModelRequests]
    /\ call \in [Calls -> CallStates(steps)]
    /\ queued \subseteq Requests \X Watched
=============================================================================
