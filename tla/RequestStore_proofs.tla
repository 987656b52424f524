------------------------- MODULE RequestStore_proofs -------------------------
(* Lemmas about the tables and the shared handlers.  `steps` is the set of steps
   the calls of the flow that extends RequestStore go through.               *)
EXTENDS RequestStore, TLAPS

(***************************************************************************)
(* Types.  The invariant is TypeOK and that a call in flight is about a    *)
(* request; each table is taken on its own.                                *)
(***************************************************************************)
CallsNamed == \A c \in Calls : call[c].at # "idle" => call[c].req \in Requests
CallsTyped(steps) == call \in [Calls -> CallStates(steps)] /\ CallsNamed
RowsTyped == row \in [Requests -> Rows]
WorkflowsTyped == mr \in [Requests -> ModelRequests]
QueueTyped == queued \subseteq Requests \X Watched
StoreTyped(steps) == CallsTyped(steps) /\ RowsTyped /\ WorkflowsTyped /\ QueueTyped

LEMMA IdleTyped ==
    ASSUME NEW steps, StoreSteps \subseteq steps
    PROVE  Idle \in CallStates(steps)
BY DEF CallStates, Idle, StoreSteps

LEMMA IdTyped ==
    ASSUME WorkflowsTyped, NEW r \in Requests
    PROVE  mr[r].id \in Nat
BY DEF WorkflowsTyped, ModelRequests

LEMMA NewModelRequestTyped ==
    ASSUME NEW n \in Nat
    PROVE  [NoModelRequest EXCEPT !.id = n, !.status = "PENDING"] \in ModelRequests
BY DEF NoModelRequest, ModelRequests

LEMMA LoadedTyped ==
    ASSUME NEW steps, WorkflowsTyped, NEW r \in Requests, NEW step \in steps
    PROVE  /\ Loaded(step, r) \in CallStates(steps)
           /\ Loaded(step, r).req = r
           /\ Loaded(step, r).at = step
<1>1. ModelRequestId(r) \in Nat
  BY IdTyped DEF ModelRequestId
<1> QED
  BY <1>1 DEF Loaded, Idle, CallStates

LEMMA BeginTyped ==
    ASSUME NEW steps, CallsTyped(steps), NEW c \in Calls, NEW r \in Requests,
           NEW loaded \in CallStates(steps), loaded.req = r, Begin(c, r, loaded)
    PROVE  CallsTyped(steps)'
BY DEF CallsTyped, CallsNamed, Begin

LEMMA ReturnTyped ==
    ASSUME NEW steps, StoreSteps \subseteq steps, CallsTyped(steps),
           NEW c \in Calls, Return(c)
    PROVE  CallsTyped(steps)'
BY IdleTyped DEF CallsTyped, CallsNamed, Return, Idle

LEMMA GotoTyped ==
    ASSUME NEW steps, CallsTyped(steps), NEW c \in Calls, call[c].at # "idle",
           NEW step \in steps, Goto(c, step)
    PROVE  CallsTyped(steps)'
BY DEF CallsTyped, CallsNamed, Goto, CallStates

LEMMA ContinueTyped ==
    ASSUME NEW steps, CallsTyped(steps), NEW c \in Calls,
           NEW locals \in CallStates(steps), locals.req \in Requests, Continue(c, locals)
    PROVE  CallsTyped(steps)'
BY DEF CallsTyped, CallsNamed, Continue

LEMMA NotifyTyped ==
    ASSUME QueueTyped, NEW r \in Requests, NEW kinds, NotifyAll(r, kinds)
    PROVE  QueueTyped'
BY DEF QueueTyped, NotifyAll

LEMMA StoreStepTyped ==
    ASSUME NEW steps, StoreSteps \subseteq steps, StoreTyped(steps),
           NEW c \in Calls, StoreStep(c)
    PROVE  StoreTyped(steps)'
<1>1. ASSUME NEW r \in Requests, NEW kind \in Kinds, NEW type \in Types,
             NEW autoApproved \in BOOLEAN, CreateRequest(c, r, kind, type, autoApproved)
      PROVE  StoreTyped(steps)'
  <2>1. RowsTyped'
    BY <1>1, StoreAssumption
    DEF StoreTyped, RowsTyped, Rows, CreateRequest, Unfiled, Statuses, QuoteStatuses
  <2>2. ApprovalStep(type) \in steps
    BY DEF ApprovalStep, StoreSteps
  <2>3. CallsTyped(steps)' /\ QueueTyped'
    <3>1. CASE autoApproved
      BY <1>1, <2>2, <3>1, LoadedTyped, BeginTyped DEF CreateRequest, StoreTyped, QueueTyped
    <3>2. CASE ~autoApproved
      BY <1>1, <3>2, NotifyTyped DEF CreateRequest, Notify, StoreTyped, CallsTyped, CallsNamed
    <3> QED BY <3>1, <3>2
  <2> QED
    BY <1>1, <2>1, <2>3 DEF CreateRequest, StoreTyped, WorkflowsTyped
<1>2. ASSUME NEW r \in Requests, NEW kind \in Kinds, NEW type \in Types,
             NEW newApprover \in BOOLEAN, EditRequest(c, r, kind, type, newApprover)
      PROVE  StoreTyped(steps)'
  <2> DEFINE loaded == [Loaded("saveEdit", r) EXCEPT !.kind = kind, !.type = type,
                                                     !.flag = newApprover]
  <2>1. loaded \in CallStates(steps) /\ loaded.req = r
    <3>1. Loaded("saveEdit", r) \in CallStates(steps) /\ Loaded("saveEdit", r).req = r
      BY LoadedTyped DEF StoreTyped, StoreSteps
    <3> QED BY <3>1, StoreAssumption DEF CallStates, Types
  <2>2. CallsTyped(steps)'
    <3> HIDE DEF loaded
    <3>1. Begin(c, r, loaded)
      BY <1>2 DEF EditRequest, loaded
    <3> QED BY <2>1, <3>1, BeginTyped DEF StoreTyped
  <2> QED
    BY <1>2, <2>2 DEF EditRequest, StoreTyped, RowsTyped, WorkflowsTyped, QueueTyped
<1>3. ASSUME NEW r \in Requests, ApproveRequest(c, r) \/ ReviewRequest(c, r) \/ RejectRequest(c, r)
      PROVE  StoreTyped(steps)'
  <2>1. PICK step \in steps : Begin(c, r, Loaded(step, r))
    BY <1>3 DEF ApproveRequest, ReviewRequest, RejectRequest, ApprovalStep, StoreSteps
  <2>2. CallsTyped(steps)'
    BY <2>1, LoadedTyped, BeginTyped DEF StoreTyped
  <2> QED
    BY <1>3, <2>2
    DEF ApproveRequest, ReviewRequest, RejectRequest, StoreTyped, RowsTyped, WorkflowsTyped, QueueTyped
<1>4. ASSUME HandleStandardApproval(c) \/ HandleNonStandardApproval(c)
      PROVE  StoreTyped(steps)'
  <2> DEFINE r == call[c].req
  <2>1. r \in Requests
    BY <1>4 DEF StoreTyped, CallsTyped, CallsNamed, At, HandleStandardApproval, HandleNonStandardApproval
  <2>2. CallsTyped(steps)' /\ QueueTyped'
    BY <1>4, <2>1, ReturnTyped, NotifyTyped
    DEF HandleStandardApproval, HandleNonStandardApproval, Notify, StoreTyped
  <2>3. RowsTyped'
    BY <1>4, <2>1
    DEF HandleStandardApproval, HandleNonStandardApproval, RecordApproval, StoreTyped, RowsTyped,
        Rows, Statuses
  <2>4. WorkflowsTyped'
    <3> DEFINE new == [NoModelRequest EXCEPT !.id = mr[r].id + 1, !.status = "PENDING"]
    <3>1. mr[r].id \in Nat
      BY <2>1, IdTyped DEF StoreTyped
    <3>2. new \in ModelRequests
      <4>1. mr[r].id + 1 \in Nat
        BY <3>1
      <4> QED BY <4>1, NewModelRequestTyped
    <3>3. mr' = mr \/ mr' = [mr EXCEPT ![r] = new]
      BY <1>4 DEF HandleStandardApproval, HandleNonStandardApproval
    <3> HIDE DEF new
    <3> QED BY <2>1, <3>2, <3>3 DEF StoreTyped, WorkflowsTyped
  <2> QED BY <2>2, <2>3, <2>4 DEF StoreTyped
<1>5. ASSUME HandleAdminNonStandardApproval(c)
      PROVE  StoreTyped(steps)'
  <2>1. CallsTyped(steps)'
    BY <1>5, ReturnTyped DEF HandleAdminNonStandardApproval, StoreTyped
  <2>2. RowsTyped'
    BY <1>5 DEF HandleAdminNonStandardApproval, StoreTyped, RowsTyped, Rows
  <2>3. WorkflowsTyped'
    BY <1>5 DEF HandleAdminNonStandardApproval, StoreTyped, WorkflowsTyped, ModelRequests
  <2> QED BY <1>5, <2>1, <2>2, <2>3 DEF HandleAdminNonStandardApproval, StoreTyped, QueueTyped
<1>6. ASSUME SaveEdit(c)
      PROVE  StoreTyped(steps)'
  <2> DEFINE r == call[c].req
  <2>1. r \in Requests
    BY <1>6 DEF StoreTyped, CallsTyped, CallsNamed, At, SaveEdit
  <2>2. CallsTyped(steps)'
    BY <1>6, ReturnTyped DEF SaveEdit, StoreTyped
  <2>3. QueueTyped'
    BY <1>6, <2>1, NotifyTyped DEF SaveEdit, StoreTyped
  <2>4. RowsTyped'
    <3>1. /\ call[c].kind \in {"ASSET", "ACCESSORY", "NONE"}
          /\ call[c].type \in Types \cup {"NONE"}
      BY DEF StoreTyped, CallsTyped, CallStates
    <3> QED BY <1>6, <2>1, <3>1 DEF SaveEdit, StoreTyped, RowsTyped, Rows
  <2>5. WorkflowsTyped'
    BY <1>6, <2>1 DEF SaveEdit, StoreTyped, WorkflowsTyped, ModelRequests, NoModelRequest
  <2> QED BY <2>2, <2>3, <2>4, <2>5 DEF StoreTyped
<1>7. ASSUME SaveRejection(c)
      PROVE  StoreTyped(steps)'
  <2>1. call[c].req \in Requests
    BY <1>7 DEF StoreTyped, CallsTyped, CallsNamed, At, SaveRejection
  <2>2. CallsTyped(steps)' /\ QueueTyped'
    BY <1>7, <2>1, ReturnTyped, NotifyTyped DEF SaveRejection, Notify, StoreTyped
  <2>3. RowsTyped'
    BY <1>7, <2>1 DEF SaveRejection, SetStatus, StoreTyped, RowsTyped, Rows, Statuses
  <2> QED BY <1>7, <2>2, <2>3 DEF SaveRejection, StoreTyped, WorkflowsTyped
<1>8. ASSUME Fail(c)
      PROVE  StoreTyped(steps)'
  BY <1>8, ReturnTyped DEF Fail, StoreTyped, RowsTyped, WorkflowsTyped, QueueTyped
<1> QED
  BY <1>1, <1>2, <1>3, <1>4, <1>5, <1>6, <1>7, <1>8 DEF StoreStep

(***************************************************************************)
(* Turns.  What a shared handler that stands at this step takes the status *)
(* of its request to be, and how it moves its own call.                    *)
(***************************************************************************)
StoreExpects(step, s) ==
    /\ step \in {"approveStandard", "approveNonStandard"} => s = "PENDING"
    /\ step = "saveRejection" => s \in {"PENDING", "APPROVED"}

LEMMA BeginLoads ==
    ASSUME NEW steps, StoreTyped(steps), NEW c \in Calls, NEW r \in Requests, NEW loaded,
           Begin(c, r, loaded)
    PROVE  call'[c] = loaded /\ Free(c, r)
BY DEF Begin, StoreTyped, CallsTyped

LEMMA StoreTurns ==
    ASSUME NEW steps, StoreTyped(steps), NEW c \in Calls, StoreStep(c)
    PROVE  \/ /\ call'[c] = Idle
              /\ \A q \in Requests : \/ row'[q].status = row[q].status
                                     \/ /\ call[c].req = q
                                        /\ \/ /\ call[c].at \in {"approveStandard", "approveNonStandard"}
                                              /\ row'[q].status = "APPROVED"
                                           \/ /\ call[c].at = "saveRejection"
                                              /\ row'[q].status = "REJECTED"
           \/ \E r \in Requests :
                 /\ Free(c, r)
                 /\ \A q \in Requests \ {r} : row'[q].status = row[q].status
                 /\ \/ row'[r].status = row[r].status
                    \/ row[r].status = "NONE" /\ row'[r].status = "PENDING"
                 /\ \/ call'[c] = call[c]
                    \/ /\ call'[c].req = r
                       /\ call'[c].at \in StoreSteps \ {"idle"}
                       /\ StoreExpects(call'[c].at, row'[r].status)
<1> DEFINE Ended == /\ call'[c] = Idle
                    /\ \A q \in Requests :
                          \/ row'[q].status = row[q].status
                          \/ /\ call[c].req = q
                             /\ \/ /\ call[c].at \in {"approveStandard", "approveNonStandard"}
                                   /\ row'[q].status = "APPROVED"
                                \/ /\ call[c].at = "saveRejection"
                                   /\ row'[q].status = "REJECTED"
           Began(r) == /\ Free(c, r)
                       /\ \A q \in Requests \ {r} : row'[q].status = row[q].status
                       /\ \/ row'[r].status = row[r].status
                          \/ row[r].status = "NONE" /\ row'[r].status = "PENDING"
                       /\ \/ call'[c] = call[c]
                          \/ /\ call'[c].req = r
                             /\ call'[c].at \in StoreSteps \ {"idle"}
                             /\ StoreExpects(call'[c].at, row'[r].status)
<1>1. row \in [Requests -> Rows] /\ call \in [Calls -> CallStates(steps)]
  BY DEF StoreTyped, RowsTyped, CallsTyped
<1>2. Return(c) => call'[c] = Idle
  BY <1>1 DEF Return
<1>3. \A step, r : Loaded(step, r).at = step /\ Loaded(step, r).req = r
  BY DEF Loaded, Idle
<1>4. SUFFICES Ended \/ \E r \in Requests : Began(r)
  OBVIOUS
<1>5. ASSUME NEW r \in Requests, NEW kind \in Kinds, NEW type \in Types, NEW auto \in BOOLEAN,
             CreateRequest(c, r, kind, type, auto)
      PROVE  Began(r)
  <2>1. /\ row[r].status = "NONE" /\ row'[r].status = "PENDING"
        /\ \A q \in Requests \ {r} : row'[q].status = row[q].status
    BY <1>1, <1>5 DEF CreateRequest, Unfiled
  <2>2. CASE auto
    <3>1. call'[c] = Loaded(ApprovalStep(type), r) /\ Free(c, r)
      BY <1>5, <2>2, BeginLoads DEF CreateRequest
    <3>2. call'[c].at = ApprovalStep(type) /\ call'[c].req = r
      BY <1>3, <3>1
    <3>3. ApprovalStep(type) \in {"approveStandard", "approveNonStandard"}
      BY DEF ApprovalStep
    <3> QED BY <2>1, <3>1, <3>2, <3>3 DEF StoreExpects, StoreSteps
  <2>3. CASE ~auto
    BY <1>5, <2>1, <2>3 DEF CreateRequest
  <2> QED BY <2>2, <2>3
<1>6. ASSUME NEW r \in Requests, ApproveRequest(c, r)
      PROVE  Began(r)
  <2>1. /\ call'[c] = Loaded(ApprovalStep(row[r].type), r) /\ Free(c, r)
        /\ row' = row /\ row[r].status = "PENDING"
    BY <1>6, BeginLoads DEF ApproveRequest, AwaitsManager
  <2>2. call'[c].at = ApprovalStep(row[r].type) /\ call'[c].req = r
    BY <1>3, <2>1
  <2>3. ApprovalStep(row[r].type) \in {"approveStandard", "approveNonStandard"}
    BY DEF ApprovalStep
  <2> QED BY <2>1, <2>2, <2>3 DEF StoreExpects, StoreSteps
<1>7. ASSUME NEW r \in Requests, ReviewRequest(c, r)
      PROVE  Began(r)
  <2>1. call'[c] = Loaded("approveReview", r) /\ Free(c, r) /\ row' = row
    BY <1>7, BeginLoads DEF ReviewRequest
  <2>2. call'[c].at = "approveReview" /\ call'[c].req = r
    BY <1>3, <2>1
  <2> QED BY <2>1, <2>2 DEF StoreExpects, StoreSteps
<1>8. ASSUME NEW r \in Requests, RejectRequest(c, r)
      PROVE  Began(r)
  <2>1. /\ call'[c] = Loaded("saveRejection", r) /\ Free(c, r) /\ row' = row
        /\ row[r].status \in {"PENDING", "APPROVED"}
    BY <1>1, <1>8, BeginLoads DEF RejectRequest, Terminal, Rows, Statuses
  <2>2. call'[c].at = "saveRejection" /\ call'[c].req = r
    BY <1>3, <2>1
  <2> QED BY <2>1, <2>2 DEF StoreExpects, StoreSteps
<1>9. ASSUME NEW r \in Requests, NEW kind \in Kinds, NEW type \in Types, NEW flag \in BOOLEAN,
             EditRequest(c, r, kind, type, flag)
      PROVE  Began(r)
  <2>1. /\ call'[c] = [Loaded("saveEdit", r) EXCEPT !.kind = kind, !.type = type, !.flag = flag]
        /\ Free(c, r) /\ row' = row
    BY <1>9, BeginLoads DEF EditRequest
  <2>2. call'[c].at = "saveEdit" /\ call'[c].req = r
    BY <2>1 DEF Loaded, Idle
  <2> QED BY <2>1, <2>2 DEF StoreExpects, StoreSteps
<1>10. CASE HandleStandardApproval(c) \/ HandleNonStandardApproval(c)
  <2>1. row' = [row EXCEPT ![call[c].req].status = "APPROVED", ![call[c].req].approved = TRUE]
    BY <1>10 DEF HandleStandardApproval, HandleNonStandardApproval, RecordApproval
  <2>2. call[c].at \in {"approveStandard", "approveNonStandard"} /\ call'[c] = Idle
    BY <1>2, <1>10 DEF HandleStandardApproval, HandleNonStandardApproval, At
  <2> QED BY <1>1, <2>1, <2>2 DEF Rows
<1>11. CASE HandleAdminNonStandardApproval(c)
  BY <1>1, <1>2, <1>11 DEF HandleAdminNonStandardApproval, Rows
<1>12. CASE SaveEdit(c)
  <2>1. row' = [row EXCEPT ![call[c].req].kind = call[c].kind, ![call[c].req].type = call[c].type]
    BY <1>12 DEF SaveEdit
  <2> QED BY <1>1, <1>2, <1>12, <2>1 DEF SaveEdit, Rows
<1>13. CASE SaveRejection(c)
  BY <1>1, <1>2, <1>13 DEF SaveRejection, SetStatus, At, Rows
<1>14. CASE Fail(c)
  BY <1>2, <1>14 DEF Fail
<1> HIDE DEF Ended, Began
<1> QED BY <1>5, <1>6, <1>7, <1>8, <1>9, <1>10, <1>11, <1>12, <1>13, <1>14 DEF StoreStep
=============================================================================
