------------------------------- MODULE Lending -------------------------------
(* The two flows that move units which are on somebody's Snipe-IT record already:
   loans, lent and checked back in (src/backend/src/services/loan.ts), and record
   corrections, which write what a user reports (correction.ts, and their filing
   and approval in request.ts).  They meet in the assignments of an accessory.

   A report of kind WRONG_MODEL goes by the field it says is wrong.  What may be
   borrowed when is left out: the window is checked when a loan is filed, and the
   bookings it clashes with are shown to IT and bind nobody.                 *)
EXTENDS Integers, FiniteSets

CONSTANTS
    Requests, Users, Calls,
    Accessories,  \* the accessory records, all of them loanable
    Assets,       \* the asset records, all of them deployable
    Serials,
    AtDesk,       \* the records that are checked out and in by hand, too
    Slots,        \* bound: the assignments Snipe-IT ever makes
    Qty,          \* units of each accessory
    Overlap,      \* may two calls work on one request at a time?
    FailAt,       \* the steps of a call at which it may throw, or the process die
    None

ASSUME LendingAssumption ==
    /\ None \notin Requests \cup Users \cup Accessories \cup Assets \cup Serials \cup Slots
    /\ Accessories \cap Assets = {} /\ AtDesk \subseteq Accessories \cup Assets
    /\ Qty \in [Accessories -> Nat] /\ Overlap \in BOOLEAN
    /\ IsFiniteSet(Requests) /\ IsFiniteSet(Calls) /\ IsFiniteSet(Slots)

VARIABLES
    row,      \* the requests, with their Loan
    report,   \* their CorrectionDetail
    call,     \* the service calls in flight
    slot,     \* the assignments of accessories (accessories_users)
    asset,    \* holder and serial of each asset
    other,    \* units of an accessory a user has that no loan is behind
    lost,     \* check-ins of a user's unit that were never stamped on the loan
    outcome,  \* what became of the write a correction stands for
    raced     \* serials that two corrections were writing at once

ghosts == <<other, lost, outcome, raced>>
vars == <<row, report, call, slot, asset, other, lost, outcome, raced>>

Unfiled == [kind |-> "NONE", user |-> None, status |-> "NONE", signedOff |-> FALSE,
            received |-> FALSE, returned |-> FALSE, accessory |-> None, blocked |-> FALSE]
NoReport == [what |-> "NONE", record |-> None, serial |-> None]
Idle == [at |-> "idle", req |-> None, target |-> None, slot |-> None]
Unused == [state |-> "unused", acc |-> None, user |-> None]

Terminal == {"COMPLETED", "REJECTED"}

Empty == [i \in Slots |-> Unused]

SnipeInit ==
    /\ call = [c \in Calls |-> Idle]
    /\ asset \in [Assets -> [holder : Users \cup {None}, serial : Serials \cup {None}]]
    /\ \A x, y \in Assets : x # y /\ asset[x].serial = asset[y].serial => asset[x].serial = None
    /\ other = [a \in Accessories |-> [u \in Users |-> 0]]
    /\ lost = [a \in Accessories |-> [u \in Users |-> 0]]
    /\ outcome = [r \in Requests |-> "none"]
    /\ raced = {}

Init ==
    /\ SnipeInit
    /\ row = [r \in Requests |-> Unfiled]
    /\ report = [r \in Requests |-> NoReport]
    /\ slot = Empty

(***************************************************************************)
(* Calls.                                                                  *)
(***************************************************************************)
At(c, step) == call[c].at = step

Begin(c, r, step) ==
    /\ At(c, "idle")
    /\ Overlap \/ \A d \in Calls : call[d].req # r
    /\ call' = [call EXCEPT ![c] = [Idle EXCEPT !.at = step, !.req = r]]

BeginWith(c, r, step, target) ==
    /\ At(c, "idle")
    /\ Overlap \/ \A d \in Calls : call[d].req # r
    /\ call' = [call EXCEPT ![c] = [at |-> step, req |-> r, target |-> target, slot |-> None]]

Goto(c, step) == call' = [call EXCEPT ![c].at = step]
Return(c) == call' = [call EXCEPT ![c] = Idle]

UserOf(c) == row[call[c].req].user

(***************************************************************************)
(* Snipe-IT.  An assignment has an id of its own, never used again.        *)
(***************************************************************************)
IsOut(i, a, u) == slot[i] = [state |-> "out", acc |-> a, user |-> u]
UnitsOut(a) == Cardinality({i \in Slots : slot[i].state = "out" /\ slot[i].acc = a})
HasStock(a) == UnitsOut(a) < Qty[a]

\* A unit of a leaves for u.
Assigned(a, u) ==
    /\ HasStock(a)
    /\ \E i \in Slots :
          /\ slot[i] = Unused
          /\ \A j \in Slots : j < i => slot[j] # Unused
          /\ slot' = [slot EXCEPT ![i] = [state |-> "out", acc |-> a, user |-> u]]

CheckedIn(i) == slot' = [slot EXCEPT ![i].state = "in"]

Count(ghost, a, u, n) == ghost' = [ghost EXCEPT ![a][u] = @ + n]

\* The desk hands a unit over, or takes one back, and so for an asset.
AtTheDesk ==
    /\ \/ \E a \in Accessories \cap AtDesk, u \in Users :
             Assigned(a, u) /\ Count(other, a, u, 1) /\ UNCHANGED asset
       \/ \E i \in Slots :
             /\ slot[i].state = "out" /\ slot[i].acc \in AtDesk
             /\ CheckedIn(i)
             /\ Count(other, slot[i].acc, slot[i].user, -1)
             /\ UNCHANGED asset
       \/ \E x \in Assets \cap AtDesk, u \in Users \cup {None} :
             /\ (asset[x].holder = None) # (u = None)
             /\ asset' = [asset EXCEPT ![x].holder = u]
             /\ UNCHANGED <<slot, other>>
    /\ UNCHANGED <<row, report, call, lost, outcome, raced>>

(***************************************************************************)
(* Filing.                                                                 *)
(***************************************************************************)
CreateLoanRequest(r, u) ==
    /\ row[r] = Unfiled /\ \A c \in Calls : call[c].req # r
    /\ row' = [row EXCEPT ![r] = [Unfiled EXCEPT !.kind = "LOAN", !.user = u,
                                                 !.status = "APPROVED"]]
    /\ UNCHANGED <<report, call, slot, asset, ghosts>>

\* What may be reported.  An unlogged item has no record to name, only a serial
\* the administrator is free to ignore.
Reports ==
    [what : {"NO_LONGER_HELD"}, record : Accessories \cup Assets, serial : {None}]
    \cup [what : {"SERIAL"}, record : Assets, serial : Serials]
    \cup [what : {"MODEL"}, record : Assets, serial : {None}]
    \cup [what : {"OTHER"}, record : Accessories \cup Assets, serial : {None}]
    \cup [what : {"UNLOGGED_ASSET", "UNLOGGED_ACCESSORY"}, record : {None}, serial : {None}]

\* The search for an open report of the same record comes before the insert, and
\* two filings at once both pass it: any report may be filed.
CreateCorrectionRequest(r, u, filed) ==
    /\ row[r] = Unfiled /\ \A c \in Calls : call[c].req # r
    /\ row' = [row EXCEPT ![r] = [Unfiled EXCEPT !.kind = "CORRECTION", !.user = u,
                                                 !.status = "APPROVED"]]
    /\ report' = [report EXCEPT ![r] = filed]
    /\ UNCHANGED <<call, slot, asset, ghosts>>

RejectRequest(c, r) ==
    /\ row[r].kind # "NONE" /\ row[r].status \notin Terminal
    /\ Begin(c, r, "saveRejection")
    /\ UNCHANGED <<row, report, slot, asset, ghosts>>

SaveRejection(c) ==
    /\ At(c, "saveRejection")
    /\ row' = [row EXCEPT ![call[c].req].status = "REJECTED"]
    /\ Return(c)
    /\ UNCHANGED <<report, slot, asset, ghosts>>

(***************************************************************************)
(* Lending.  IT's sign-off is the choice of the unit.                      *)
(***************************************************************************)
IsLoan(r) == row[r].kind = "LOAN"

AwaitsAssignment(r) == IsLoan(r) /\ row[r].status # "REJECTED" /\ ~row[r].signedOff

AssignLoan(c, r, a) ==
    /\ AwaitsAssignment(r)
    /\ BeginWith(c, r, "readUnit", a)
    /\ UNCHANGED <<row, report, slot, asset, ghosts>>

ReadUnit(c) ==
    /\ At(c, "readUnit")
    /\ IF HasStock(call[c].target) THEN Goto(c, "checkoutLoan") ELSE Return(c)
    /\ UNCHANGED <<row, report, slot, asset, ghosts>>

CheckoutLoan(c) ==
    /\ At(c, "checkoutLoan")
    /\ Assigned(call[c].target, UserOf(c))
    /\ Goto(c, "saveAssigned")
    /\ UNCHANGED <<row, report, asset, ghosts>>

SaveAssigned(c) ==
    LET r == call[c].req IN
    /\ At(c, "saveAssigned")
    /\ row' = [row EXCEPT ![r].status = "COMPLETED", ![r].signedOff = TRUE,
                          ![r].accessory = call[c].target]
    /\ Return(c)
    /\ UNCHANGED <<report, slot, asset, ghosts>>

\* The middle is that of every request: the keeper marks the device ready and the
\* requester collects it (Handover).
Collect(r) ==
    /\ row[r].status = "COMPLETED" /\ IsLoan(r) /\ ~row[r].received
    /\ row' = [row EXCEPT ![r].received = TRUE]
    /\ UNCHANGED <<report, call, slot, asset, ghosts>>

(***************************************************************************)
(* Giving it back.  The keeper waits for the due date and an administrator *)
(* need not, so it may be any day.                                         *)
(***************************************************************************)
AwaitsReturn(r) ==
    IsLoan(r) /\ ~row[r].returned /\ row[r].accessory # None /\ row[r].received

MarkLoanReturned(c, r) ==
    /\ AwaitsReturn(r)
    /\ BeginWith(c, r, "readAssignments", row[r].accessory)
    /\ UNCHANGED <<row, report, slot, asset, ghosts>>

Mine(c) == {i \in Slots : IsOut(i, call[c].target, UserOf(c))}

\* What follows a search for the user's unit of the accessory.
AfterRead == [readAssignments |-> [found |-> "checkinLoan", none |-> "saveCheckinError"],
              readReported |-> [found |-> "checkinReported", none |-> "saveApplyError"]]

\* The first assignment to the user in the order of Snipe-IT's answer.
FindAssignment(c) ==
    /\ call[c].at \in DOMAIN AfterRead
    /\ IF Mine(c) = {} THEN Goto(c, AfterRead[call[c].at].none)
       ELSE \E i \in Mine(c) :
               call' = [call EXCEPT ![c].at = AfterRead[@].found, ![c].slot = i]
    /\ UNCHANGED <<row, report, slot, asset, ghosts>>

\* Mutant: a refusal of the check-in is not looked at.
CheckinLoanUnchecked(c) ==
    LET i == call[c].slot IN
    /\ At(c, "checkinLoan")
    /\ IF slot[i].state = "out" THEN CheckedIn(i) ELSE UNCHANGED slot
    /\ Goto(c, "saveReturned")
    /\ UNCHANGED <<row, report, asset, ghosts>>

\* Refused once the unit is back.  The answer to a check-in that was made may be
\* lost, too, and is then a failure like any other.
CheckinLoan(c) ==
    LET i == call[c].slot IN
    /\ At(c, "checkinLoan")
    /\ \/ slot[i].state = "out" /\ CheckedIn(i) /\ Goto(c, "saveReturned")
          /\ UNCHANGED lost
       \/ slot[i].state = "out" /\ CheckedIn(i) /\ Goto(c, "saveCheckinError")
          /\ Count(lost, call[c].target, UserOf(c), 1)
       \/ slot[i].state # "out" /\ Goto(c, "saveCheckinError")
          /\ UNCHANGED <<slot, lost>>
    /\ UNCHANGED <<row, report, asset, other, outcome, raced>>

SaveReturned(c) ==
    /\ At(c, "saveReturned")
    /\ row' = [row EXCEPT ![call[c].req].returned = TRUE, ![call[c].req].blocked = FALSE]
    /\ Return(c)
    /\ UNCHANGED <<report, slot, asset, ghosts>>

\* Mutant: a blocked correction leaves the queue like an applied one.
SaveErrorAsDone(c) ==
    LET r == call[c].req IN
    /\ call[c].at \in {"saveCheckinError", "saveApplyError"}
    /\ row' = [row EXCEPT ![r].blocked = TRUE, ![r].status = "COMPLETED"]
    /\ Return(c)
    /\ UNCHANGED <<report, slot, asset, ghosts>>

\* checkinError on the loan, applyError on the correction.
SaveError(c) ==
    /\ call[c].at \in {"saveCheckinError", "saveApplyError"}
    /\ row' = [row EXCEPT ![call[c].req].blocked = TRUE]
    /\ Return(c)
    /\ UNCHANGED <<report, slot, asset, ghosts>>

(***************************************************************************)
(* Approving a correction.  The administrator names the record a report    *)
(* does not, or says it was fixed by hand; `target` is None where neither  *)
(* is needed or given.                                                     *)
(***************************************************************************)
AwaitsCorrection(r) == row[r].kind = "CORRECTION" /\ row[r].status \notin Terminal

\* applyCorrectionToSnipe: where to go from the report.
ApplyStep(filed, target) ==
    CASE filed.what = "NO_LONGER_HELD" /\ filed.record \in Assets -> "checkinAsset"
      [] filed.what = "NO_LONGER_HELD" /\ filed.record \in Accessories -> "readReported"
      [] filed.what = "SERIAL" -> "searchSerial"
      [] filed.what = "MODEL" /\ target # None -> "patchModel"
      [] filed.what = "UNLOGGED_ASSET" /\ target \in Assets -> "readAsset"
      [] filed.what = "UNLOGGED_ACCESSORY" /\ target \in Accessories -> "readStock"
      [] OTHER -> "saveApplyError"

ApproveCorrection(c, r, target) ==
    /\ AwaitsCorrection(r)
    /\ BeginWith(c, r, ApplyStep(report[r], target),
                 IF report[r].record # None THEN report[r].record ELSE target)
    /\ UNCHANGED <<row, report, slot, asset, ghosts>>

ResolvedManually(c, r) ==
    /\ AwaitsCorrection(r)
    /\ Begin(c, r, "complete")
    /\ outcome' = [outcome EXCEPT ![r] = "byHand"]
    /\ UNCHANGED <<row, report, slot, asset, other, lost, raced>>

Written(c) == outcome' = [outcome EXCEPT ![call[c].req] = "written"]

\* Whoever the asset is checked out to by now.
CheckinAsset(c) ==
    LET x == call[c].target IN
    /\ At(c, "checkinAsset")
    /\ asset[x].holder # None
    /\ asset' = [asset EXCEPT ![x].holder = None]
    /\ Written(c)
    /\ Goto(c, "complete")
    /\ UNCHANGED <<row, report, slot, other, lost, raced>>

CheckinReported(c) ==
    LET i == call[c].slot IN
    /\ At(c, "checkinReported")
    /\ slot[i].state = "out"
    /\ CheckedIn(i)
    /\ Count(other, call[c].target, UserOf(c), -1)
    /\ Written(c)
    /\ Goto(c, "complete")
    /\ UNCHANGED <<row, report, asset, lost, raced>>

Clashes(serial, x) == {y \in Assets \ {x} : asset[y].serial = serial}

\* Mutant: a clash is a warning.
SearchSerialAnyway(c) ==
    /\ At(c, "searchSerial")
    /\ Goto(c, "patchSerial")
    /\ UNCHANGED <<row, report, slot, asset, ghosts>>

\* The whole estate is searched for another asset with the serial.
SearchSerial(c) ==
    LET serial == report[call[c].req].serial IN
    /\ At(c, "searchSerial")
    /\ Goto(c, IF Clashes(serial, call[c].target) = {} THEN "patchSerial" ELSE "saveApplyError")
    /\ UNCHANGED <<row, report, slot, asset, ghosts>>

Writing(serial) ==
    {c \in Calls : At(c, "patchSerial") /\ report[call[c].req].serial = serial}

PatchSerial(c) ==
    LET serial == report[call[c].req].serial IN
    /\ At(c, "patchSerial")
    /\ asset' = [asset EXCEPT ![call[c].target].serial = serial]
    /\ raced' = IF Writing(serial) = {c} THEN raced ELSE raced \cup {serial}
    /\ Written(c)
    /\ Goto(c, "complete")
    /\ UNCHANGED <<row, report, slot, other, lost>>

\* To the model the administrator chose, which nothing here depends on.
PatchModel(c) ==
    /\ At(c, "patchModel")
    /\ Written(c)
    /\ Goto(c, "complete")
    /\ UNCHANGED <<row, report, slot, asset, other, lost, raced>>

ReadAsset(c) ==
    /\ At(c, "readAsset")
    /\ Goto(c, IF asset[call[c].target].holder = None THEN "checkoutAsset" ELSE "saveApplyError")
    /\ UNCHANGED <<row, report, slot, asset, ghosts>>

\* Taken since it was read, it is refused: in an error status, which throws, or in
\* the body of a 200, which nobody looks at.
CheckoutAsset(c) ==
    LET x == call[c].target
        free == asset[x].holder = None
    IN  /\ At(c, "checkoutAsset")
        /\ asset' = IF free THEN [asset EXCEPT ![x].holder = UserOf(c)] ELSE asset
        /\ outcome' = [outcome EXCEPT ![call[c].req] = IF free THEN "written" ELSE "refused"]
        /\ Goto(c, "complete")
        /\ UNCHANGED <<row, report, slot, other, lost, raced>>

ReadStock(c) ==
    /\ At(c, "readStock")
    /\ Goto(c, IF HasStock(call[c].target) THEN "checkoutReported" ELSE "saveApplyError")
    /\ UNCHANGED <<row, report, slot, asset, ghosts>>

CheckoutReported(c) ==
    /\ At(c, "checkoutReported")
    /\ Assigned(call[c].target, UserOf(c))
    /\ Count(other, call[c].target, UserOf(c), 1)
    /\ Written(c)
    /\ Goto(c, "complete")
    /\ UNCHANGED <<row, report, asset, lost, raced>>

CompleteCorrection(c) ==
    LET r == call[c].req IN
    /\ At(c, "complete")
    /\ row' = [row EXCEPT ![r].status = "COMPLETED", ![r].signedOff = TRUE, ![r].blocked = FALSE]
    /\ Return(c)
    /\ UNCHANGED <<report, slot, asset, ghosts>>

(***************************************************************************)
(* A call throws, or its process dies; a loan's return records what threw. *)
(***************************************************************************)
Fail(c) ==
    /\ call[c].at \in FailAt
    /\ IF At(c, "saveReturned") THEN Count(lost, call[c].target, UserOf(c), 1)
       ELSE UNCHANGED lost
    /\ \/ Return(c)
       \/ call[c].at \in {"readAssignments", "checkinLoan"} /\ Goto(c, "saveCheckinError")
    /\ UNCHANGED <<row, report, slot, asset, other, outcome, raced>>

Step(c) ==
    \/ \E r \in Requests :
          \/ RejectRequest(c, r)
          \/ \E a \in Accessories : AssignLoan(c, r, a)
          \/ MarkLoanReturned(c, r)
          \/ \E target \in {None} \cup Accessories \cup Assets : ApproveCorrection(c, r, target)
          \/ ResolvedManually(c, r)
    \/ SaveRejection(c)
    \/ ReadUnit(c)
    \/ CheckoutLoan(c)
    \/ SaveAssigned(c)
    \/ FindAssignment(c)
    \/ CheckinLoan(c)
    \/ SaveReturned(c)
    \/ SaveError(c)
    \/ CheckinAsset(c)
    \/ CheckinReported(c)
    \/ SearchSerial(c)
    \/ PatchSerial(c)
    \/ PatchModel(c)
    \/ ReadAsset(c)
    \/ CheckoutAsset(c)
    \/ ReadStock(c)
    \/ CheckoutReported(c)
    \/ CompleteCorrection(c)
    \/ Fail(c)

Filing ==
    \E r \in Requests, u \in Users :
        \/ CreateLoanRequest(r, u)
        \/ \E filed \in Reports : CreateCorrectionRequest(r, u, filed)

Next ==
    \/ Filing
    \/ \E r \in Requests : Collect(r)
    \/ \E c \in Calls : Step(c)
    \/ AtTheDesk

Spec == Init /\ [][Next]_vars

LendingSteps ==
    {"idle", "saveRejection", "readUnit", "checkoutLoan", "saveAssigned",
     "readAssignments", "checkinLoan", "saveReturned", "saveCheckinError",
     "checkinAsset", "readReported", "checkinReported", "searchSerial", "patchSerial", "patchModel",
     "readAsset", "checkoutAsset", "readStock", "checkoutReported", "saveApplyError",
     "complete"}

TypeOK ==
    /\ row \in [Requests -> [kind : {"NONE", "LOAN", "CORRECTION"},
                             user : Users \cup {None},
                             status : Terminal \cup {"NONE", "APPROVED"},
                             signedOff : BOOLEAN, received : BOOLEAN, returned : BOOLEAN,
                             accessory : Accessories \cup {None}, blocked : BOOLEAN]]
    /\ report \in [Requests -> Reports \cup {NoReport}]
    /\ call \in [Calls -> [at : LendingSteps, req : Requests \cup {None},
                           target : Accessories \cup Assets \cup {None},
                           slot : Slots \cup {None}]]
    /\ slot \in [Slots -> [state : {"unused", "out", "in"},
                           acc : Accessories \cup {None}, user : Users \cup {None}]]
    /\ asset \in [Assets -> [holder : Users \cup {None}, serial : Serials \cup {None}]]
    /\ other \in [Accessories -> [Users -> Int]]
    /\ lost \in [Accessories -> [Users -> Nat]]
    /\ outcome \in [Requests -> {"none", "written", "byHand", "refused"}]
    /\ raced \subseteq Serials

(***************************************************************************)
(* Properties.                                                             *)
(***************************************************************************)
Lent(a, u) ==
    {r \in Requests : IsLoan(r) /\ row[r].user = u /\ row[r].accessory = a /\ ~row[r].returned}

Between(step, a, u) ==
    {c \in Calls : At(c, step) /\ call[c].target = a /\ UserOf(c) = u}

Held(a, u) == {i \in Slots : IsOut(i, a, u)}

\* "RETURNED MEANS SNIPE AGREES", and so does lent: the units of an accessory that
\* Snipe-IT has a user down for are those of the user's open loans and those that
\* no loan is behind, but for a loan between its two writes, and for a check-in
\* that its loan never got to hear of.
SnipeAgreesWithLoans ==
    \A a \in Accessories, u \in Users :
        Cardinality(Held(a, u)) + Cardinality(Between("saveReturned", a, u)) + lost[a][u] =
        Cardinality(Lent(a, u)) + Cardinality(Between("saveAssigned", a, u)) + other[a][u]

\* "An approved-but-unapplied correction that reported COMPLETED would claim Snipe
\* was fixed when it wasn't": what is completed was written, or fixed by hand; all
\* but the asset that was taken between the look at it and the checkout.
CompletedCorrectionIsApplied ==
    \A r \in Requests :
        row[r].kind = "CORRECTION" /\ row[r].status = "COMPLETED" =>
            outcome[r] \in {"written", "byHand"}
            \/ (outcome[r] = "refused" /\ report[r].what = "UNLOGGED_ASSET")

\* "Two assets can't share a serial": none come to, unless two corrections were
\* between the search and the write of the same one together.
SerialsStayUnique ==
    \A x, y \in Assets :
        x # y /\ asset[x].serial = asset[y].serial => asset[x].serial \in raced \cup {None}
=============================================================================
