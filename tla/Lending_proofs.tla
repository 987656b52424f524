---------------------------- MODULE Lending_proofs ---------------------------
(* Proofs about Lending: for any number of requests, calls and records, with calls
   about one request at a time or not, and with failures anywhere, a completed
   correction is applied and no two assets come to share a serial unseen; and with
   one call about a request at a time, Snipe-IT's assignments are the loans'.  *)
EXTENDS Lending, FiniteSetTheorems, TLAPS

RowStates == [kind : {"NONE", "LOAN", "CORRECTION"}, user : Users \cup {None},
              status : Terminal \cup {"NONE", "APPROVED"},
              signedOff : BOOLEAN, received : BOOLEAN, returned : BOOLEAN,
              accessory : Accessories \cup {None}, blocked : BOOLEAN]
CallStates == [at : LendingSteps, req : Requests \cup {None},
               target : Accessories \cup Assets \cup {None}, slot : Slots \cup {None}]
SlotStates == [state : {"unused", "out", "in"}, acc : Accessories \cup {None},
               user : Users \cup {None}]
AssetStates == [holder : Users \cup {None}, serial : Serials \cup {None}]

Applied(r) ==
    \/ outcome[r] \in {"written", "byHand"}
    \/ outcome[r] = "refused" /\ report[r].what = "UNLOGGED_ASSET"

Filed ==
    \A r \in Requests : row[r].kind # "NONE" =>
        /\ row[r].user \in Users
        /\ row[r].kind = "CORRECTION" => report[r] \in Reports

\* A serial that may be written to x.
Clear(serial, x) == Clashes(serial, x) = {} \/ serial \in raced

LoanSteps == {"readUnit", "checkoutLoan", "saveAssigned", "readAssignments", "checkinLoan",
              "saveReturned"}
UnitSteps == LoanSteps \cup {"readReported", "checkinReported", "readStock", "checkoutReported"}
AssetSteps == {"checkinAsset", "searchSerial", "patchSerial", "readAsset", "checkoutAsset"}

\* What a call that stands at a step knows.
Knows(c) ==
    LET r == call[c].req
        x == call[c].target
    IN  call[c].at # "idle" =>
            /\ r \in Requests /\ row[r].kind # "NONE"
            /\ call[c].at \in LoanSteps => row[r].kind = "LOAN"
            /\ call[c].at \in UnitSteps => x \in Accessories
            /\ call[c].at \in AssetSteps => x \in Assets
            /\ call[c].at \in {"checkinLoan", "checkinReported"} => call[c].slot \in Slots
            /\ call[c].at \in {"searchSerial", "patchSerial"} => report[r].serial \in Serials
            /\ call[c].at \in {"readAsset", "checkoutAsset"} => report[r].what = "UNLOGGED_ASSET"
            /\ call[c].at = "patchSerial" => Clear(report[r].serial, x)
            /\ call[c].at = "complete" => Applied(r)

LendingInv ==
    /\ TypeOK
    /\ Filed
    /\ \A c \in Calls : Knows(c)
    /\ \A r \in Requests :
          row[r].kind = "CORRECTION" /\ row[r].status = "COMPLETED" => Applied(r)
    /\ SerialsStayUnique

LEMMA Typing ==
    ASSUME TypeOK
    PROVE  /\ row \in [Requests -> RowStates] /\ call \in [Calls -> CallStates]
           /\ slot \in [Slots -> SlotStates] /\ asset \in [Assets -> AssetStates]
           /\ other \in [Accessories -> [Users -> Int]]
           /\ lost \in [Accessories -> [Users -> Nat]]
BY DEF TypeOK, RowStates, CallStates, SlotStates, AssetStates

LEMMA LendingInit == Init => LendingInv
<1> SUFFICES ASSUME Init PROVE LendingInv
  OBVIOUS
<1>1. /\ \A r \in Requests : row[r] = Unfiled
      /\ \A c \in Calls : call[c] = Idle
  BY DEF Init, SnipeInit
<1>2. Unfiled \in RowStates /\ Idle \in CallStates /\ Unused \in SlotStates
  BY DEF Unfiled, RowStates, Terminal, Idle, CallStates, LendingSteps, Unused, SlotStates
<1>3. TypeOK
  BY <1>2 DEF Init, SnipeInit, TypeOK, Empty, RowStates, CallStates, SlotStates
<1>4. SerialsStayUnique
  BY DEF Init, SnipeInit, SerialsStayUnique
<1> QED BY <1>1, <1>3, <1>4 DEF LendingInv, Filed, Knows, Unfiled, Idle

\* A step of a call that leaves the serials alone, and whose call knows what it has
\* to at the step it comes to.
LEMMA MoveKeeps ==
    ASSUME LendingInv, TypeOK', NEW c \in Calls, Knows(c)',
           \A d \in Calls : d # c => call'[d] = call[d],
           \A r \in Requests : /\ row'[r].kind = row[r].kind /\ row'[r].user = row[r].user
                               /\ report'[r] = report[r]
                               /\ Applied(r) => Applied(r)'
                               /\ row[r].kind = "CORRECTION" /\ row'[r].status = "COMPLETED" =>
                                     row[r].status = "COMPLETED" \/ Applied(r),
           \A x \in Assets : asset'[x].serial = asset[x].serial,
           raced' = raced
    PROVE  LendingInv'
<1>1. \A serial \in Serials, x \in Assets : Clear(serial, x) => Clear(serial, x)'
  BY DEF Clear, Clashes
<1>2. ASSUME NEW d \in Calls, d # c PROVE Knows(d)'
  BY <1>1, <1>2 DEF LendingInv, Knows, LoanSteps, UnitSteps, AssetSteps
<1>3. Filed' /\ SerialsStayUnique'
  BY DEF LendingInv, Filed, SerialsStayUnique
<1> QED BY <1>2, <1>3 DEF LendingInv

LEMMA GotoMoves ==
    ASSUME TypeOK, NEW c \in Calls, NEW step \in LendingSteps, Goto(c, step)
    PROVE  /\ call' \in [Calls -> CallStates]
           /\ \A d \in Calls : d # c => call'[d] = call[d]
           /\ call'[c].at = step /\ call'[c].req = call[c].req
           /\ call'[c].target = call[c].target /\ call'[c].slot = call[c].slot
BY Typing DEF Goto, CallStates

LEMMA ReturnMoves ==
    ASSUME TypeOK, NEW c \in Calls, Return(c)
    PROVE  /\ call' \in [Calls -> CallStates]
           /\ \A d \in Calls : d # c => call'[d] = call[d]
           /\ call'[c].at = "idle"
<1>1. Idle \in CallStates /\ Idle.at = "idle"
  BY DEF Idle, CallStates, LendingSteps
<1> QED BY <1>1, Typing DEF Return

LEMMA BeginMoves ==
    ASSUME TypeOK, NEW c \in Calls, NEW r \in Requests, NEW step \in LendingSteps,
           NEW target \in Accessories \cup Assets \cup {None},
           BeginWith(c, r, step, target) \/ Begin(c, r, step)
    PROVE  /\ call' \in [Calls -> CallStates]
           /\ \A d \in Calls : d # c => call'[d] = call[d]
           /\ call'[c].at = step /\ call'[c].req = r
           /\ BeginWith(c, r, step, target) => call'[c].target = target
<1>1. CASE BeginWith(c, r, step, target)
  <2>1. [at |-> step, req |-> r, target |-> target, slot |-> None] \in CallStates
    BY DEF CallStates
  <2> QED BY <1>1, <2>1, Typing DEF BeginWith
<1>2. CASE Begin(c, r, step)
  <2> DEFINE new == [Idle EXCEPT !.at = step, !.req = r]
  <2>1. Idle \in CallStates
    BY DEF Idle, CallStates, LendingSteps
  <2>2. new \in CallStates /\ new.at = step /\ new.req = r
    BY <2>1 DEF CallStates
  <2>3. CASE BeginWith(c, r, step, target)
    BY <1>1, <2>3
  <2> QED BY <1>2, <2>2, <2>3, Typing DEF Begin
<1> QED BY <1>1, <1>2

\* A step that moves nothing but the call.
LEMMA QuietKeeps ==
    ASSUME LendingInv, NEW c \in Calls, Knows(c)', call' \in [Calls -> CallStates],
           \A d \in Calls : d # c => call'[d] = call[d],
           UNCHANGED <<row, report, slot, asset, ghosts>>
    PROVE  LendingInv'
<1>1. TypeOK'
  BY DEF LendingInv, TypeOK, CallStates, ghosts
<1>2. \A r \in Requests : Applied(r) => Applied(r)'
  BY DEF Applied, ghosts
<1> QED BY <1>1, <1>2, MoveKeeps DEF ghosts

\* Where the approval of a correction goes, and with what.
LEMMA ApplyStepFits ==
    ASSUME NEW filed \in Reports, NEW target \in {None} \cup Accessories \cup Assets
    PROVE  LET step == ApplyStep(filed, target)
               x == IF filed.record # None THEN filed.record ELSE target
           IN  /\ step \in LendingSteps /\ x \in Accessories \cup Assets \cup {None}
               /\ step \notin LoanSteps \cup {"idle", "patchSerial", "complete", "checkinReported"}
               /\ step \in UnitSteps => x \in Accessories
               /\ step \in AssetSteps => x \in Assets
               /\ step = "searchSerial" => filed.serial \in Serials
               /\ step \in {"readAsset", "checkoutAsset"} => filed.what = "UNLOGGED_ASSET"
<1>1. /\ filed.record \in Accessories \cup Assets \cup {None}
      /\ filed.what = "SERIAL" => filed.record \in Assets /\ filed.serial \in Serials
      /\ filed.what \in {"UNLOGGED_ASSET", "UNLOGGED_ACCESSORY"} => filed.record = None
      /\ filed.what = "NO_LONGER_HELD" => filed.record \in Accessories \cup Assets
  BY DEF Reports
<1>2. None \notin Accessories \cup Assets
  BY LendingAssumption
<1>3. CASE filed.what = "NO_LONGER_HELD"
  BY <1>1, <1>2, <1>3, LendingAssumption
  DEF ApplyStep, LendingSteps, LoanSteps, UnitSteps, AssetSteps
<1>4. CASE filed.what = "SERIAL"
  BY <1>1, <1>2, <1>4 DEF ApplyStep, LendingSteps, LoanSteps, UnitSteps, AssetSteps
<1>5. CASE filed.what \in {"UNLOGGED_ASSET", "UNLOGGED_ACCESSORY"}
  BY <1>1, <1>2, <1>5 DEF ApplyStep, LendingSteps, LoanSteps, UnitSteps, AssetSteps
<1>6. CASE filed.what \notin {"NO_LONGER_HELD", "SERIAL", "UNLOGGED_ASSET", "UNLOGGED_ACCESSORY"}
  BY <1>1, <1>6 DEF ApplyStep, LendingSteps, LoanSteps, UnitSteps, AssetSteps
<1> QED BY <1>3, <1>4, <1>5, <1>6

LEMMA BeginningKeeps ==
    ASSUME LendingInv, NEW c \in Calls, NEW r \in Requests,
           \/ RejectRequest(c, r)
           \/ \E a \in Accessories : AssignLoan(c, r, a)
           \/ MarkLoanReturned(c, r)
           \/ \E target \in {None} \cup Accessories \cup Assets : ApproveCorrection(c, r, target)
           \/ ResolvedManually(c, r)
    PROVE  LendingInv'
<1>1. TypeOK /\ Filed /\ row \in [Requests -> RowStates]
  BY Typing DEF LendingInv
<1>2. CASE RejectRequest(c, r)
  <2>1. /\ call' \in [Calls -> CallStates] /\ \A d \in Calls : d # c => call'[d] = call[d]
        /\ call'[c].at = "saveRejection" /\ call'[c].req = r
    BY <1>1, <1>2, BeginMoves DEF RejectRequest, LendingSteps
  <2>2. Knows(c)'
    BY <1>2, <2>1 DEF Knows, RejectRequest, LoanSteps, UnitSteps, AssetSteps
  <2> QED BY <1>2, <2>1, <2>2, QuietKeeps DEF RejectRequest
<1>3. CASE \E a \in Accessories : AssignLoan(c, r, a)
  <2>0. PICK a \in Accessories : AssignLoan(c, r, a)
    BY <1>3
  <2>1. /\ call' \in [Calls -> CallStates] /\ \A d \in Calls : d # c => call'[d] = call[d]
        /\ call'[c].at = "readUnit" /\ call'[c].req = r /\ call'[c].target = a
    BY <1>1, <2>0, BeginMoves DEF AssignLoan, LendingSteps
  <2>2. Knows(c)'
    BY <2>0, <2>1 DEF Knows, AssignLoan, AwaitsAssignment, IsLoan, LoanSteps, UnitSteps, AssetSteps
  <2> QED BY <2>0, <2>1, <2>2, QuietKeeps DEF AssignLoan
<1>4. CASE MarkLoanReturned(c, r)
  <2>0. row[r].accessory \in Accessories /\ row[r].kind = "LOAN"
    BY <1>1, <1>4 DEF MarkLoanReturned, AwaitsReturn, IsLoan, RowStates
  <2>1. /\ call' \in [Calls -> CallStates] /\ \A d \in Calls : d # c => call'[d] = call[d]
        /\ call'[c].at = "readAssignments" /\ call'[c].req = r
        /\ call'[c].target = row[r].accessory
    BY <1>1, <1>4, <2>0, BeginMoves DEF MarkLoanReturned, LendingSteps
  <2>2. Knows(c)'
    BY <1>4, <2>0, <2>1 DEF Knows, MarkLoanReturned, LoanSteps, UnitSteps, AssetSteps
  <2> QED BY <1>4, <2>1, <2>2, QuietKeeps DEF MarkLoanReturned
<1>5. CASE \E target \in {None} \cup Accessories \cup Assets : ApproveCorrection(c, r, target)
  <2>0. PICK target \in {None} \cup Accessories \cup Assets : ApproveCorrection(c, r, target)
    BY <1>5
  <2> DEFINE step == ApplyStep(report[r], target)
             x == IF report[r].record # None THEN report[r].record ELSE target
  <2>1. row[r].kind = "CORRECTION" /\ report[r] \in Reports
    BY <1>1, <2>0 DEF Filed, ApproveCorrection, AwaitsCorrection
  <2>2. /\ step \in LendingSteps /\ x \in Accessories \cup Assets \cup {None}
        /\ step \notin LoanSteps \cup {"idle", "patchSerial", "complete", "checkinReported"}
        /\ step \in UnitSteps => x \in Accessories
        /\ step \in AssetSteps => x \in Assets
        /\ step = "searchSerial" => report[r].serial \in Serials
        /\ step \in {"readAsset", "checkoutAsset"} => report[r].what = "UNLOGGED_ASSET"
    BY <2>1, ApplyStepFits
  <2>3. BeginWith(c, r, step, x) /\ UNCHANGED <<row, report, slot, asset, ghosts>>
    BY <2>0 DEF ApproveCorrection
  <2> HIDE DEF step, x
  <2>4. /\ call' \in [Calls -> CallStates] /\ \A d \in Calls : d # c => call'[d] = call[d]
        /\ call'[c].at = step /\ call'[c].req = r /\ call'[c].target = x
    BY <1>1, <2>2, <2>3, BeginMoves
  <2>5. Knows(c)'
    BY <2>1, <2>2, <2>3, <2>4 DEF Knows, LoanSteps
  <2> QED BY <2>3, <2>4, <2>5, QuietKeeps
<1>6. CASE ResolvedManually(c, r)
  <2>1. /\ call' \in [Calls -> CallStates] /\ \A d \in Calls : d # c => call'[d] = call[d]
        /\ call'[c].at = "complete" /\ call'[c].req = r
    BY <1>1, <1>6, BeginMoves DEF ResolvedManually, LendingSteps
  <2>2. TypeOK' /\ Applied(r)' /\ \A s \in Requests : Applied(s) => Applied(s)'
    BY <1>1, <1>6, <2>1 DEF ResolvedManually, TypeOK, CallStates, Applied
  <2>3. Knows(c)'
    BY <1>6, <2>1, <2>2
    DEF Knows, ResolvedManually, AwaitsCorrection, LoanSteps, UnitSteps, AssetSteps
  <2> QED BY <1>6, <2>1, <2>2, <2>3, MoveKeeps DEF ResolvedManually
<1> QED BY <1>2, <1>3, <1>4, <1>5, <1>6

\* The reads.
LEMMA ReadingKeeps ==
    ASSUME LendingInv, NEW c \in Calls,
           ReadUnit(c) \/ FindAssignment(c) \/ SearchSerial(c) \/ ReadAsset(c) \/ ReadStock(c)
    PROVE  LendingInv'
<1>1. TypeOK /\ Knows(c)
  BY DEF LendingInv
<1>2. UNCHANGED <<row, report, slot, asset, ghosts>>
  BY DEF ReadUnit, FindAssignment, SearchSerial, ReadAsset, ReadStock
<1>3. ASSUME NEW step \in LendingSteps, Goto(c, step), call[c].at # "idle",
             step \in LoanSteps => call[c].at \in LoanSteps,
             step \in UnitSteps => call[c].at \in UnitSteps,
             step \in AssetSteps => call[c].at \in AssetSteps,
             step \notin {"checkinLoan", "checkinReported", "searchSerial", "complete"},
             step \in {"readAsset", "checkoutAsset"} => call[c].at = "readAsset",
             step = "patchSerial" =>
                call[c].at = "searchSerial" /\ Clear(report[call[c].req].serial, call[c].target)
      PROVE  LendingInv'
  <2>1. /\ call' \in [Calls -> CallStates] /\ \A d \in Calls : d # c => call'[d] = call[d]
        /\ call'[c].at = step /\ call'[c].req = call[c].req /\ call'[c].target = call[c].target
    BY <1>1, <1>3, GotoMoves
  <2>2. Clear(report[call[c].req].serial, call[c].target)'
           = Clear(report[call[c].req].serial, call[c].target)
    BY <1>2, <2>1 DEF Clear, Clashes, ghosts
  <2>3. Knows(c)'
    BY <1>1, <1>2, <1>3, <2>1, <2>2 DEF Knows
  <2> QED BY <1>2, <2>1, <2>3, QuietKeeps
<1>4. ASSUME Return(c) PROVE LendingInv'
  <2>1. Knows(c)'
    BY <1>1, <1>4, ReturnMoves DEF Knows
  <2> QED BY <1>1, <1>2, <1>4, <2>1, ReturnMoves, QuietKeeps
<1>5. CASE ReadUnit(c)
  BY <1>3, <1>4, <1>5 DEF ReadUnit, At, LendingSteps, LoanSteps, UnitSteps, AssetSteps
<1>6. CASE FindAssignment(c)
  <2>1. call[c].at \in {"readAssignments", "readReported"}
    BY <1>6 DEF FindAssignment, AfterRead
  <2>2. CASE Mine(c) = {}
    BY <1>3, <1>6, <2>1, <2>2
    DEF FindAssignment, AfterRead, LendingSteps, LoanSteps, UnitSteps, AssetSteps
  <2>3. CASE Mine(c) # {}
    <3> DEFINE step == AfterRead[call[c].at].found
    <3>1. PICK i \in Slots : call' = [call EXCEPT ![c].at = AfterRead[@].found, ![c].slot = i]
      BY <1>6, <2>3 DEF FindAssignment, Mine
    <3>2. /\ step = IF call[c].at = "readAssignments" THEN "checkinLoan" ELSE "checkinReported"
          /\ step \in LendingSteps
      BY <2>1 DEF AfterRead, LendingSteps
    <3> DEFINE new == [call[c] EXCEPT !.at = step, !.slot = i]
    <3>3. call \in [Calls -> CallStates]
      BY <1>1, Typing
    <3>4. /\ new \in CallStates /\ new.at = step /\ new.slot = i
          /\ new.req = call[c].req /\ new.target = call[c].target
      BY <3>2, <3>3 DEF CallStates
    <3>5. call' = [call EXCEPT ![c] = new]
      BY <3>1, <3>3 DEF AfterRead
    <3> HIDE DEF step, new
    <3>6. /\ call' \in [Calls -> CallStates] /\ \A d \in Calls : d # c => call'[d] = call[d]
          /\ call'[c] = new
      BY <3>3, <3>4, <3>5
    <3>7. Knows(c)'
      BY <1>1, <1>2, <2>1, <3>2, <3>4, <3>6 DEF Knows, LoanSteps, UnitSteps, AssetSteps
    <3> QED BY <1>2, <3>6, <3>7, QuietKeeps
  <2> QED BY <2>2, <2>3
<1>7. CASE SearchSerial(c)
  BY <1>3, <1>7 DEF SearchSerial, At, Clear, LendingSteps, LoanSteps, UnitSteps, AssetSteps
<1>8. CASE ReadAsset(c)
  BY <1>3, <1>8 DEF ReadAsset, At, LendingSteps, LoanSteps, UnitSteps, AssetSteps
<1>9. CASE ReadStock(c)
  BY <1>3, <1>9 DEF ReadStock, At, LendingSteps, LoanSteps, UnitSteps, AssetSteps
<1> QED BY <1>5, <1>6, <1>7, <1>8, <1>9

\* The writes to the request's own rows, each the end of its call.
LEMMA SavingKeeps ==
    ASSUME LendingInv, NEW c \in Calls,
           SaveRejection(c) \/ SaveAssigned(c) \/ SaveReturned(c) \/ SaveError(c)
           \/ CompleteCorrection(c)
    PROVE  LendingInv'
<1> DEFINE r == call[c].req
<1>1. /\ TypeOK /\ Knows(c) /\ row \in [Requests -> RowStates] /\ call \in [Calls -> CallStates]
  BY Typing DEF LendingInv
<1>2. Return(c) /\ UNCHANGED <<report, slot, asset, ghosts>> /\ r \in Requests
  BY <1>1 DEF SaveRejection, SaveAssigned, SaveReturned, SaveError, CompleteCorrection, At, Knows
<1>3. /\ row' \in [Requests -> RowStates]
      /\ \A s \in Requests : s # r => row'[s] = row[s]
      /\ row'[r].kind = row[r].kind /\ row'[r].user = row[r].user
  <2>1. CASE SaveRejection(c)
    BY <1>1, <1>2, <2>1 DEF SaveRejection, RowStates, Terminal
  <2>2. CASE SaveAssigned(c)
    <3>1. call[c].target \in Accessories
      BY <1>1, <2>2 DEF SaveAssigned, At, Knows, LoanSteps, UnitSteps
    <3> QED BY <1>1, <1>2, <2>2, <3>1 DEF SaveAssigned, RowStates, Terminal
  <2>3. CASE SaveReturned(c)
    <3> DEFINE new == [row[r] EXCEPT !.returned = TRUE, !.blocked = FALSE]
    <3>1. row' = [row EXCEPT ![r] = new]
      BY <1>1, <1>2, <2>3 DEF SaveReturned
    <3>2. row[r] \in RowStates
      BY <1>1, <1>2
    <3>3. new \in RowStates
      BY <3>2 DEF RowStates
    <3>4. new.kind = row[r].kind /\ new.user = row[r].user
      BY <3>2 DEF RowStates
    <3> QED BY <1>1, <1>2, <3>1, <3>3, <3>4
  <2>4. CASE SaveError(c)
    <3> DEFINE new == [row[r] EXCEPT !.blocked = TRUE]
    <3>1. row' = [row EXCEPT ![r] = new]
      BY <1>1, <1>2, <2>4 DEF SaveError
    <3>2. row[r] \in RowStates
      BY <1>1, <1>2
    <3>3. new \in RowStates
      BY <3>2 DEF RowStates
    <3>4. new.kind = row[r].kind /\ new.user = row[r].user
      BY <3>2 DEF RowStates
    <3> QED BY <1>1, <1>2, <3>1, <3>3, <3>4
  <2>5. CASE CompleteCorrection(c)
    BY <1>1, <1>2, <2>5 DEF CompleteCorrection, RowStates, Terminal
  <2> QED BY <2>1, <2>2, <2>3, <2>4, <2>5
<1>4. row'[r].status = "COMPLETED" =>
         row[r].status = "COMPLETED" \/ row[r].kind = "LOAN" \/ Applied(r)
  <2>1. CASE SaveRejection(c)
    BY <1>1, <1>2, <2>1 DEF SaveRejection, RowStates
  <2>2. CASE SaveAssigned(c)
    BY <1>1, <2>2 DEF SaveAssigned, At, Knows, LoanSteps
  <2>3. CASE SaveReturned(c) \/ SaveError(c)
    BY <1>1, <1>2, <2>3 DEF SaveReturned, SaveError, RowStates
  <2>4. CASE CompleteCorrection(c)
    BY <1>1, <2>4 DEF CompleteCorrection, At, Knows
  <2> QED BY <2>1, <2>2, <2>3, <2>4
<1>5. TypeOK'
  BY <1>1, <1>2, <1>3, ReturnMoves DEF TypeOK, RowStates, CallStates, ghosts
<1>6. Knows(c)' /\ \A s \in Requests : Applied(s)' = Applied(s)
  BY <1>1, <1>2, ReturnMoves DEF Knows, Applied, ghosts
<1> QED BY <1>1, <1>2, <1>3, <1>4, <1>5, <1>6, ReturnMoves, MoveKeeps DEF ghosts

LEMMA Counting ==
    ASSUME TypeOK, NEW a \in Accessories, NEW u
    PROVE  /\ Count(other, a, u, 1) => other' \in [Accessories -> [Users -> Int]]
           /\ Count(other, a, u, -1) => other' \in [Accessories -> [Users -> Int]]
           /\ Count(lost, a, u, 1) => lost' \in [Accessories -> [Users -> Nat]]
<1>1. /\ other \in [Accessories -> [Users -> Int]]
      /\ lost \in [Accessories -> [Users -> Nat]]
  BY Typing
<1>2. ASSUME NEW S, NEW f \in [Users -> S], NEW e, u \in Users => e \in S
      PROVE  [f EXCEPT ![u] = e] \in [Users -> S]
  BY <1>2
<1>3. ASSUME Count(other, a, u, 1) PROVE other' \in [Accessories -> [Users -> Int]]
  <2>1. other[a] \in [Users -> Int]
    BY <1>1
  <2>2. u \in Users => other[a][u] + 1 \in Int
    BY <2>1
  <2>3. [other[a] EXCEPT ![u] = other[a][u] + 1] \in [Users -> Int]
    BY <1>2, <2>1, <2>2
  <2>4. other' = [other EXCEPT ![a] = [other[a] EXCEPT ![u] = other[a][u] + 1]]
    BY <1>1, <1>3 DEF Count
  <2> QED BY <1>1, <2>3, <2>4
<1>4. ASSUME Count(other, a, u, -1) PROVE other' \in [Accessories -> [Users -> Int]]
  <2>1. other[a] \in [Users -> Int]
    BY <1>1
  <2>2. u \in Users => other[a][u] + (-1) \in Int
    BY <2>1
  <2>3. [other[a] EXCEPT ![u] = other[a][u] + (-1)] \in [Users -> Int]
    BY <1>2, <2>1, <2>2
  <2>4. other' = [other EXCEPT ![a] = [other[a] EXCEPT ![u] = other[a][u] + (-1)]]
    BY <1>1, <1>4 DEF Count
  <2> QED BY <1>1, <2>3, <2>4
<1>5. ASSUME Count(lost, a, u, 1) PROVE lost' \in [Accessories -> [Users -> Nat]]
  <2>1. lost[a] \in [Users -> Nat]
    BY <1>1
  <2>2. u \in Users => lost[a][u] + 1 \in Nat
    BY <2>1
  <2>3. [lost[a] EXCEPT ![u] = lost[a][u] + 1] \in [Users -> Nat]
    BY <1>2, <2>1, <2>2
  <2>4. lost' = [lost EXCEPT ![a] = [lost[a] EXCEPT ![u] = lost[a][u] + 1]]
    BY <1>1, <1>5 DEF Count
  <2> QED BY <1>1, <2>3, <2>4
<1> QED BY <1>3, <1>4, <1>5

LEMMA Assigning ==
    ASSUME TypeOK, NEW a \in Accessories, NEW u \in Users, NEW i \in Slots,
           Assigned(a, u) \/ CheckedIn(i)
    PROVE  slot' \in [Slots -> SlotStates]
<1>1. slot \in [Slots -> SlotStates]
  BY Typing
<1>2. CASE Assigned(a, u)
  BY <1>1, <1>2 DEF Assigned, SlotStates
<1>3. CASE CheckedIn(i)
  BY <1>1, <1>3 DEF CheckedIn, SlotStates
<1> QED BY <1>2, <1>3

\* The writes to Snipe-IT that no serial is part of.
LEMMA WritingKeeps ==
    ASSUME LendingInv, NEW c \in Calls,
           CheckoutLoan(c) \/ CheckinLoan(c) \/ CheckinAsset(c) \/ CheckinReported(c)
           \/ PatchModel(c) \/ CheckoutAsset(c) \/ CheckoutReported(c)
    PROVE  LendingInv'
<1> DEFINE r == call[c].req
           x == call[c].target
<1>1. /\ TypeOK /\ Knows(c) /\ row \in [Requests -> RowStates]
      /\ slot \in [Slots -> SlotStates] /\ asset \in [Assets -> AssetStates]
      /\ outcome \in [Requests -> {"none", "written", "byHand", "refused"}]
  BY Typing DEF LendingInv, TypeOK
<1>2. UNCHANGED <<row, report, raced>>
  BY DEF CheckoutLoan, CheckinLoan, CheckinAsset, CheckinReported, PatchModel, CheckoutAsset,
         CheckoutReported, ghosts
<1>3. call[c].at # "idle" /\ r \in Requests /\ UserOf(c) \in Users
  <2>1. call[c].at # "idle"
    BY DEF CheckoutLoan, CheckinLoan, CheckinAsset, CheckinReported, PatchModel, CheckoutAsset,
           CheckoutReported, At
  <2> QED BY <1>1, <2>1 DEF Knows, LendingInv, Filed, UserOf
<1>4. ASSUME NEW step \in {"saveAssigned", "saveReturned", "saveCheckinError", "complete"},
             Goto(c, step), step \in {"saveAssigned", "saveReturned"} => call[c].at \in LoanSteps,
             slot' \in [Slots -> SlotStates], asset' \in [Assets -> AssetStates],
             other' \in [Accessories -> [Users -> Int]],
             lost' \in [Accessories -> [Users -> Nat]],
             outcome' \in [Requests -> {"none", "written", "byHand", "refused"}],
             \A s \in Requests : Applied(s) => Applied(s)',
             \A y \in Assets : asset'[y].serial = asset[y].serial,
             step = "complete" => \A s \in Requests : s = r => Applied(s)'
      PROVE  LendingInv'
  <2>1. /\ call' \in [Calls -> CallStates] /\ \A d \in Calls : d # c => call'[d] = call[d]
        /\ call'[c].at = step /\ call'[c].req = r /\ call'[c].target = x
    BY <1>1, <1>4, GotoMoves DEF LendingSteps
  <2>2. TypeOK'
    BY <1>1, <1>2, <1>4, <2>1 DEF TypeOK, CallStates, SlotStates, AssetStates
  <2>3. Knows(c)'
    BY <1>1, <1>2, <1>3, <1>4, <2>1 DEF Knows, LoanSteps, UnitSteps, AssetSteps
  <2> QED BY <1>2, <1>4, <2>1, <2>2, <2>3, MoveKeeps
<1>5. /\ other \in [Accessories -> [Users -> Int]]
      /\ lost \in [Accessories -> [Users -> Nat]]
  BY <1>1, Typing
<1>6. Written(c) => /\ outcome' \in [Requests -> {"none", "written", "byHand", "refused"}]
                    /\ \A s \in Requests : Applied(s) \/ s = r => Applied(s)'
  BY <1>1, <1>2, <1>3 DEF Written, Applied
<1>7. UNCHANGED outcome => \A s \in Requests : Applied(s) => Applied(s)'
  BY <1>2 DEF Applied
<1>8. CASE CheckoutLoan(c)
  <2>1. x \in Accessories /\ call[c].at \in LoanSteps
    BY <1>1, <1>8 DEF CheckoutLoan, At, Knows, LoanSteps, UnitSteps
  <2>2. slot' \in [Slots -> SlotStates]
    BY <1>1, <1>3, <1>8, <2>1 DEF CheckoutLoan, Assigned, SlotStates
  <2> QED BY <1>1, <1>4, <1>5, <1>7, <1>8, <2>1, <2>2 DEF CheckoutLoan, ghosts
<1>9. CASE CheckinLoan(c)
  <2>1. x \in Accessories /\ call[c].at \in LoanSteps /\ call[c].slot \in Slots
    BY <1>1, <1>9 DEF CheckinLoan, At, Knows, LoanSteps, UnitSteps
  <2>2. slot' \in [Slots -> SlotStates] /\ lost' \in [Accessories -> [Users -> Nat]]
    BY <1>1, <1>3, <1>5, <1>9, <2>1, Assigning, Counting DEF CheckinLoan
  <2> QED BY <1>1, <1>4, <1>5, <1>7, <1>9, <2>1, <2>2 DEF CheckinLoan
<1>10. CASE CheckinAsset(c)
  <2>1. x \in Assets
    BY <1>1, <1>10 DEF CheckinAsset, At, Knows, AssetSteps
  <2>2. /\ asset' \in [Assets -> AssetStates]
        /\ \A y \in Assets : asset'[y].serial = asset[y].serial
    BY <1>1, <1>10, <2>1 DEF CheckinAsset, AssetStates
  <2> QED BY <1>1, <1>4, <1>5, <1>6, <1>10, <2>2 DEF CheckinAsset
<1>11. CASE CheckinReported(c)
  <2>1. x \in Accessories /\ call[c].slot \in Slots
    BY <1>1, <1>11 DEF CheckinReported, At, Knows, UnitSteps
  <2>2. slot' \in [Slots -> SlotStates] /\ other' \in [Accessories -> [Users -> Int]]
    BY <1>1, <1>3, <1>11, <2>1, Assigning, Counting DEF CheckinReported
  <2> QED BY <1>1, <1>4, <1>5, <1>6, <1>11, <2>2 DEF CheckinReported
<1>12. CASE PatchModel(c)
  BY <1>1, <1>4, <1>5, <1>6, <1>12 DEF PatchModel
<1>13. CASE CheckoutAsset(c)
  <2>1. x \in Assets /\ report[r].what = "UNLOGGED_ASSET"
    BY <1>1, <1>13 DEF CheckoutAsset, At, Knows, AssetSteps
  <2>2. /\ asset' \in [Assets -> AssetStates]
        /\ \A y \in Assets : asset'[y].serial = asset[y].serial
    BY <1>1, <1>3, <1>13, <2>1 DEF CheckoutAsset, AssetStates
  <2>3. /\ outcome' \in [Requests -> {"none", "written", "byHand", "refused"}]
        /\ outcome'[r] \in {"written", "refused"}
        /\ \A s \in Requests : s # r => outcome'[s] = outcome[s]
    BY <1>1, <1>3, <1>13 DEF CheckoutAsset
  <2>4. \A s \in Requests : Applied(s) \/ s = r => Applied(s)'
    BY <1>2, <2>1, <2>3 DEF Applied
  <2> QED BY <1>1, <1>4, <1>5, <1>13, <2>2, <2>3, <2>4 DEF CheckoutAsset
<1>14. CASE CheckoutReported(c)
  <2>1. x \in Accessories
    BY <1>1, <1>14 DEF CheckoutReported, At, Knows, UnitSteps
  <2>2. slot' \in [Slots -> SlotStates] /\ other' \in [Accessories -> [Users -> Int]]
    BY <1>1, <1>3, <1>14, <2>1, Counting DEF CheckoutReported, Assigned, SlotStates
  <2> QED BY <1>1, <1>4, <1>5, <1>6, <1>14, <2>2 DEF CheckoutReported
<1> QED BY <1>8, <1>9, <1>10, <1>11, <1>12, <1>13, <1>14

\* The write of a serial: a call that is about to write the same one makes it raced.
LEMMA PatchSerialKeeps ==
    ASSUME LendingInv, NEW c \in Calls, PatchSerial(c)
    PROVE  LendingInv'
<1> DEFINE r == call[c].req
           x == call[c].target
           serial == report[r].serial
<1>1. /\ TypeOK /\ Knows(c) /\ asset \in [Assets -> AssetStates]
      /\ outcome \in [Requests -> {"none", "written", "byHand", "refused"}]
      /\ raced \subseteq Serials
  BY Typing DEF LendingInv, TypeOK
<1>2. /\ r \in Requests /\ row[r].kind # "NONE" /\ x \in Assets /\ serial \in Serials
      /\ Clear(serial, x) /\ call[c].at = "patchSerial"
  BY <1>1 DEF PatchSerial, At, Knows, AssetSteps
<1>3. /\ call' \in [Calls -> CallStates] /\ \A d \in Calls : d # c => call'[d] = call[d]
      /\ call'[c].at = "complete" /\ call'[c].req = r
  BY <1>1, GotoMoves DEF PatchSerial, LendingSteps
<1>4. /\ asset' \in [Assets -> AssetStates] /\ asset'[x].serial = serial
      /\ \A y \in Assets : y # x => asset'[y] = asset[y]
      /\ raced \subseteq raced' /\ raced' \subseteq Serials
      /\ UNCHANGED <<row, report, slot, other, lost>>
  BY <1>1, <1>2 DEF PatchSerial, AssetStates
<1>5. /\ outcome' \in [Requests -> {"none", "written", "byHand", "refused"}]
      /\ \A s \in Requests : Applied(s) \/ s = r => Applied(s)'
  BY <1>1, <1>2, <1>4 DEF PatchSerial, Written, Applied
<1>6. TypeOK'
  BY <1>1, <1>3, <1>4, <1>5 DEF TypeOK, CallStates, AssetStates
<1>7. Knows(c)'
  BY <1>2, <1>3, <1>4, <1>5 DEF Knows, LoanSteps, UnitSteps, AssetSteps
<1>8. ASSUME NEW d \in Calls, d # c PROVE Knows(d)'
  <2> DEFINE other_s == report[call[d].req].serial
             other_x == call[d].target
  <2>1. Knows(d) /\ call'[d] = call[d]
    BY <1>3, <1>8 DEF LendingInv
  <2>2. CASE call[d].at = "patchSerial"
    <3>1. other_x \in Assets /\ Clear(other_s, other_x)
      BY <2>1, <2>2 DEF Knows, AssetSteps
    <3>2. other_s = serial => serial \in raced'
      <4>1. other_s = serial => d \in Writing(serial)
        BY <2>2 DEF Writing, At
      <4>2. d \in Writing(serial) => Writing(serial) # {c}
        BY <1>8
      <4> QED BY <4>1, <4>2 DEF PatchSerial
    <3>3. other_s # serial => \A y \in Assets : asset'[y].serial = other_s => asset[y].serial = other_s
      BY <1>4
    <3>4. Clear(other_s, other_x)'
      BY <1>4, <2>1, <3>1, <3>2, <3>3 DEF Clear, Clashes
    <3> QED BY <1>4, <1>5, <2>1, <2>2, <3>4 DEF Knows, LoanSteps, UnitSteps, AssetSteps
  <2>3. CASE call[d].at # "patchSerial"
    BY <1>4, <1>5, <2>1, <2>3 DEF Knows
  <2> QED BY <2>2, <2>3
<1>9. SerialsStayUnique'
  <2> SUFFICES ASSUME NEW p \in Assets, NEW q \in Assets, p # q,
                      asset'[p].serial = asset'[q].serial
               PROVE  asset'[p].serial \in raced' \cup {None}
    BY DEF SerialsStayUnique
  <2>1. CASE p # x /\ q # x
    BY <1>4, <2>1 DEF LendingInv, SerialsStayUnique
  <2>2. CASE p = x \/ q = x
    <3>1. Clashes(serial, x) # {}
      BY <1>4, <2>2 DEF Clashes
    <3> QED BY <1>2, <1>4, <2>2, <3>1 DEF Clear
  <2> QED BY <2>1, <2>2
<1>10. Filed'
  BY <1>4 DEF LendingInv, Filed
<1> QED BY <1>4, <1>5, <1>6, <1>7, <1>8, <1>9, <1>10 DEF LendingInv

LEMMA FailKeeps ==
    ASSUME LendingInv, NEW c \in Calls, Fail(c)
    PROVE  LendingInv'
<1>1. /\ TypeOK /\ Knows(c) /\ lost \in [Accessories -> [Users -> Nat]]
      /\ UNCHANGED <<row, report, slot, asset, other, outcome, raced>>
  BY Typing DEF LendingInv, Fail
<1>2. lost' \in [Accessories -> [Users -> Nat]]
  <2>1. CASE At(c, "saveReturned")
    <3>1. call[c].target \in Accessories
      BY <1>1, <2>1 DEF At, Knows, LoanSteps, UnitSteps
    <3> QED BY <1>1, <2>1, <3>1, Counting DEF Fail
  <2> QED BY <1>1, <2>1 DEF Fail
<1>3. /\ call' \in [Calls -> CallStates] /\ \A d \in Calls : d # c => call'[d] = call[d]
      /\ Knows(c)'
  <2>1. CASE Return(c)
    BY <1>1, <2>1, ReturnMoves DEF Knows
  <2>2. CASE call[c].at \in {"readAssignments", "checkinLoan"} /\ Goto(c, "saveCheckinError")
    <3>1. /\ call' \in [Calls -> CallStates] /\ \A d \in Calls : d # c => call'[d] = call[d]
          /\ call'[c].at = "saveCheckinError" /\ call'[c].req = call[c].req
      BY <1>1, <2>2, GotoMoves DEF LendingSteps
    <3> QED BY <1>1, <2>2, <3>1 DEF Knows, LoanSteps, UnitSteps, AssetSteps
  <2> QED BY <2>1, <2>2 DEF Fail
<1>4. TypeOK'
  BY <1>1, <1>2, <1>3 DEF TypeOK, CallStates
<1>5. \A r \in Requests : Applied(r) => Applied(r)'
  BY <1>1 DEF Applied
<1> QED BY <1>1, <1>3, <1>4, <1>5, MoveKeeps

\* Filing, collection and the desk.
LEMMA PeopleKeep ==
    ASSUME LendingInv, Filing \/ (\E r \in Requests : Collect(r)) \/ AtTheDesk
    PROVE  LendingInv'
<1>1. /\ TypeOK /\ row \in [Requests -> RowStates] /\ slot \in [Slots -> SlotStates]
      /\ asset \in [Assets -> AssetStates] /\ other \in [Accessories -> [Users -> Int]]
      /\ report \in [Requests -> Reports \cup {NoReport}]
  BY Typing DEF LendingInv, TypeOK
<1>2. CASE Filing
  <2>1. PICK r \in Requests, u \in Users :
           \/ CreateLoanRequest(r, u)
           \/ \E filed \in Reports : CreateCorrectionRequest(r, u, filed)
    BY <1>2 DEF Filing
  <2>2. /\ row[r] = Unfiled /\ \A c \in Calls : call[c].req # r
        /\ UNCHANGED <<call, slot, asset, ghosts>>
    BY <2>1 DEF CreateLoanRequest, CreateCorrectionRequest
  <2> DEFINE new(kind) == [Unfiled EXCEPT !.kind = kind, !.user = u, !.status = "APPROVED"]
  <2>3. \A kind \in {"LOAN", "CORRECTION"} :
           /\ new(kind) \in RowStates /\ new(kind).user = u /\ new(kind).status = "APPROVED"
           /\ new(kind).kind = kind
    <3>1. Unfiled \in RowStates
      BY DEF Unfiled, RowStates, Terminal
    <3> QED BY <3>1 DEF RowStates
  <2>4. /\ row' \in [Requests -> RowStates] /\ report' \in [Requests -> Reports \cup {NoReport}]
        /\ row'[r].user = u /\ row'[r].status = "APPROVED"
        /\ row'[r].kind = "CORRECTION" => report'[r] \in Reports
        /\ \A s \in Requests : s # r => row'[s] = row[s] /\ report'[s] = report[s]
    <3>1. CASE CreateLoanRequest(r, u)
      <4>1. row' = [row EXCEPT ![r] = new("LOAN")] /\ report' = report
        BY <3>1 DEF CreateLoanRequest
      <4> HIDE DEF new
      <4> QED BY <1>1, <2>3, <4>1
    <3>2. CASE \E filed \in Reports : CreateCorrectionRequest(r, u, filed)
      <4>1. PICK filed \in Reports : CreateCorrectionRequest(r, u, filed)
        BY <3>2
      <4>2. row' = [row EXCEPT ![r] = new("CORRECTION")]
            /\ report' = [report EXCEPT ![r] = filed]
        BY <4>1 DEF CreateCorrectionRequest
      <4> HIDE DEF new
      <4> QED BY <1>1, <2>3, <4>2
    <3> QED BY <2>1, <3>1, <3>2
  <2>5. TypeOK'
    BY <1>1, <2>2, <2>4 DEF TypeOK, RowStates, ghosts
  <2>6. \A s \in Requests : s # r /\ Applied(s) => Applied(s)'
    BY <2>2, <2>4 DEF Applied, ghosts
  <2>7. ASSUME NEW c \in Calls PROVE Knows(c)'
    <3>1. Knows(c) /\ call'[c] = call[c] /\ call[c].req # r
      BY <2>2 DEF LendingInv
    <3>2. \A serial, x : Clear(serial, x)' = Clear(serial, x)
      BY <2>2 DEF Clear, Clashes, ghosts
    <3> QED BY <2>4, <2>6, <3>1, <3>2 DEF Knows
  <2>8. Filed' /\ SerialsStayUnique'
    BY <2>2, <2>4 DEF LendingInv, Filed, SerialsStayUnique, ghosts
  <2> QED BY <2>4, <2>5, <2>6, <2>7, <2>8 DEF LendingInv
<1>3. ASSUME TypeOK', UNCHANGED <<report, call, outcome, raced>>,
             \A r \in Requests : /\ row'[r].kind = row[r].kind /\ row'[r].user = row[r].user
                                 /\ row'[r].status = row[r].status,
             \A x \in Assets : asset'[x].serial = asset[x].serial
      PROVE  LendingInv'
  <2>1. \A serial, x : Clear(serial, x) => Clear(serial, x)'
    BY <1>3 DEF Clear, Clashes
  <2>2. \A r \in Requests : Applied(r) => Applied(r)'
    BY <1>3 DEF Applied
  <2>3. ASSUME NEW c \in Calls PROVE Knows(c)'
    BY <1>3, <2>1, <2>2 DEF LendingInv, Knows, LoanSteps, UnitSteps, AssetSteps
  <2> QED BY <1>3, <2>2, <2>3 DEF LendingInv, Filed, SerialsStayUnique
<1>4. CASE \E r \in Requests : Collect(r)
  <2>1. PICK r \in Requests : Collect(r)
    BY <1>4
  <2>2. /\ row' \in [Requests -> RowStates]
        /\ \A s \in Requests : /\ row'[s].kind = row[s].kind /\ row'[s].user = row[s].user
                               /\ row'[s].status = row[s].status
    BY <1>1, <2>1 DEF Collect, RowStates
  <2>3. TypeOK'
    BY <1>1, <2>1, <2>2 DEF Collect, TypeOK, RowStates, ghosts
  <2> QED BY <1>3, <2>1, <2>2, <2>3 DEF Collect, ghosts
<1>5. CASE AtTheDesk
  <2>1. /\ slot' \in [Slots -> SlotStates] /\ asset' \in [Assets -> AssetStates]
        /\ other' \in [Accessories -> [Users -> Int]]
        /\ \A x \in Assets : asset'[x].serial = asset[x].serial
    <3>1. CASE \E a \in Accessories \cap AtDesk, u \in Users :
                  Assigned(a, u) /\ Count(other, a, u, 1) /\ UNCHANGED asset
      BY <1>1, <3>1, Counting DEF Assigned, SlotStates
    <3>2. CASE \E i \in Slots :
                  /\ slot[i].state = "out" /\ slot[i].acc \in AtDesk /\ CheckedIn(i)
                  /\ Count(other, slot[i].acc, slot[i].user, -1) /\ UNCHANGED asset
      <4>1. PICK i \in Slots :
                  /\ slot[i].acc \in AtDesk /\ CheckedIn(i)
                  /\ Count(other, slot[i].acc, slot[i].user, -1) /\ UNCHANGED asset
        BY <3>2
      <4>2. slot[i].acc \in Accessories
        BY <1>1, <4>1, LendingAssumption DEF SlotStates
      <4>3. slot' \in [Slots -> SlotStates]
        BY <1>1, <4>1 DEF CheckedIn, SlotStates
      <4> QED BY <1>1, <4>1, <4>2, <4>3, Counting
    <3>3. CASE \E x \in Assets \cap AtDesk, u \in Users \cup {None} :
                  /\ asset' = [asset EXCEPT ![x].holder = u]
                  /\ UNCHANGED <<slot, other>>
      BY <1>1, <3>3 DEF AssetStates
    <3> QED BY <1>5, <3>1, <3>2, <3>3 DEF AtTheDesk
  <2>2. TypeOK'
    BY <1>1, <1>5, <2>1 DEF AtTheDesk, TypeOK, SlotStates, AssetStates
  <2> QED BY <1>3, <1>5, <2>1, <2>2 DEF AtTheDesk
<1> QED BY <1>2, <1>4, <1>5

LEMMA LendingStep == LendingInv /\ [Next]_vars => LendingInv'
<1>1. LendingInv /\ UNCHANGED vars => LendingInv'
  BY DEF vars, LendingInv, TypeOK, Filed, Knows, Clear, Clashes, Applied, SerialsStayUnique
<1>2. ASSUME LendingInv, NEW c \in Calls, Step(c) PROVE LendingInv'
  BY <1>2, BeginningKeeps, ReadingKeeps, SavingKeeps, WritingKeeps, PatchSerialKeeps, FailKeeps
  DEF Step
<1> QED BY <1>1, <1>2, PeopleKeep DEF Next

LEMMA LendingInvariant == Spec => []LendingInv
BY LendingInit, LendingStep, PTL DEF Spec

\* The rows, the calls and Snipe-IT's records keep their types.
THEOREM LendingTypeCorrect == Spec => []TypeOK
<1>1. LendingInv => TypeOK
  BY DEF LendingInv
<1> QED BY <1>1, LendingInvariant, PTL

\* A correction that says COMPLETED was written or fixed by hand, the asset that
\* was taken meanwhile excepted, however many calls work on it and wherever they fail.
THEOREM CorrectionsAreApplied == Spec => []CompletedCorrectionIsApplied
<1>1. LendingInv => CompletedCorrectionIsApplied
  BY DEF LendingInv, Applied, CompletedCorrectionIsApplied
<1> QED BY <1>1, LendingInvariant, PTL

\* Corrections never give two assets one serial, but where two of them were
\* writing it at once.
THEOREM NoSerialTwice == Spec => []SerialsStayUnique
<1>1. LendingInv => SerialsStayUnique
  BY DEF LendingInv
<1> QED BY <1>1, LendingInvariant, PTL

(***************************************************************************)
(* The books: Snipe-IT's assignments against the loans.  A step moves at   *)
(* most one assignment, one call and one loan, so it is enough to compare  *)
(* what each of them counts for before and after.                          *)
(***************************************************************************)
One(x, S) == IF x \in S THEN 1 ELSE 0

LEMMA CountsOne ==
    ASSUME NEW U, IsFiniteSet(U), NEW S \in SUBSET U, NEW T \in SUBSET U, NEW x,
           \A y \in U : y # x => (y \in S <=> y \in T)
    PROVE  /\ Cardinality(S) \in Nat /\ Cardinality(T) \in Nat
           /\ Cardinality(T) - Cardinality(S) = One(x, T) - One(x, S)
<1>1. IsFiniteSet(S) /\ IsFiniteSet(T)
  BY FS_Subset
<1>2. Cardinality(S) \in Nat /\ Cardinality(T) \in Nat
  BY <1>1, FS_CardinalityType
<1>3. CASE x \in S <=> x \in T
  <2>1. S = T
    BY <1>3
  <2>2. One(x, T) \in Int /\ One(x, T) = One(x, S)
    BY <2>1 DEF One
  <2> QED BY <1>2, <2>1, <2>2
<1>4. CASE x \in T /\ x \notin S
  <2>1. T = S \cup {x}
    BY <1>4
  <2>2. Cardinality(T) = Cardinality(S) + 1
    BY <1>1, <1>4, <2>1, FS_AddElement
  <2> QED BY <1>2, <1>4, <2>2 DEF One
<1>5. CASE x \in S /\ x \notin T
  <2>1. T = S \ {x}
    BY <1>5
  <2>2. Cardinality(T) = Cardinality(S) - 1
    BY <1>1, <1>5, <2>1, FS_RemoveElement
  <2> QED BY <1>2, <1>5, <2>2 DEF One
<1> QED BY <1>3, <1>4, <1>5

\* What the books need of a request stays as it is.
Stands(s) ==
    /\ row'[s].kind = row[s].kind /\ row'[s].user = row[s].user
    /\ row'[s].signedOff = row[s].signedOff /\ row'[s].returned = row[s].returned
    /\ row'[s].accessory = row[s].accessory

\* The books move alike on both sides, for one assignment, one call and one request.
Even(i, c, r) ==
    \A a \in Accessories, u \in Users :
        One(i, Held(a, u)') - One(i, Held(a, u))
        + (One(c, Between("saveReturned", a, u)') - One(c, Between("saveReturned", a, u)))
        + (lost'[a][u] - lost[a][u])
        = One(r, Lent(a, u)') - One(r, Lent(a, u))
          + (One(c, Between("saveAssigned", a, u)') - One(c, Between("saveAssigned", a, u)))
          + (other'[a][u] - other[a][u])

LEMMA EvenKeepsTheBooks ==
    ASSUME TypeOK, TypeOK', SnipeAgreesWithLoans, NEW i, NEW c, NEW r, Even(i, c, r),
           \A j \in Slots : j # i => slot'[j] = slot[j],
           \A d \in Calls : d # c =>
              /\ call'[d] = call[d]
              /\ call[d].at # "idle" => row'[call[d].req].user = row[call[d].req].user,
           \A s \in Requests : s # r => Stands(s)
    PROVE  SnipeAgreesWithLoans'
<1> SUFFICES ASSUME NEW a \in Accessories, NEW u \in Users
             PROVE  Cardinality(Held(a, u)') + Cardinality(Between("saveReturned", a, u)')
                    + lost'[a][u] =
                    Cardinality(Lent(a, u)') + Cardinality(Between("saveAssigned", a, u)')
                    + other'[a][u]
  BY DEF SnipeAgreesWithLoans
<1> DEFINE H == Held(a, u)
           R == Between("saveReturned", a, u)
           L == Lent(a, u)
           A == Between("saveAssigned", a, u)
<1>1. IsFiniteSet(Slots) /\ IsFiniteSet(Calls) /\ IsFiniteSet(Requests)
  BY LendingAssumption
<1>2. /\ Cardinality(H) \in Nat /\ Cardinality(H') \in Nat
      /\ Cardinality(H') - Cardinality(H) = One(i, H') - One(i, H)
  <2>1. H \in SUBSET Slots /\ H' \in SUBSET Slots
    BY DEF Held
  <2>2. \A j \in Slots : j # i => (j \in H <=> j \in H')
    BY DEF Held, IsOut
  <2> HIDE DEF H
  <2> QED BY <1>1, <2>1, <2>2, CountsOne
<1>3. ASSUME NEW step \in {"saveReturned", "saveAssigned"}
      PROVE  LET B == Between(step, a, u) IN
             /\ Cardinality(B) \in Nat /\ Cardinality(B') \in Nat
             /\ Cardinality(B') - Cardinality(B) = One(c, B') - One(c, B)
  <2> DEFINE B == Between(step, a, u)
  <2>1. B \in SUBSET Calls /\ B' \in SUBSET Calls
    BY DEF Between
  <2>2. \A d \in Calls : d # c => (d \in B <=> d \in B')
    BY <1>3 DEF Between, At, UserOf
  <2>3. /\ Cardinality(B) \in Nat /\ Cardinality(B') \in Nat
        /\ Cardinality(B') - Cardinality(B) = One(c, B') - One(c, B)
    <3> HIDE DEF B
    <3> QED BY <1>1, <2>1, <2>2, CountsOne
  <2> QED BY <2>3
<1>4. /\ Cardinality(L) \in Nat /\ Cardinality(L') \in Nat
      /\ Cardinality(L') - Cardinality(L) = One(r, L') - One(r, L)
  <2>1. L \in SUBSET Requests /\ L' \in SUBSET Requests
    BY DEF Lent
  <2>2. \A s \in Requests : s # r => (s \in L <=> s \in L')
    BY DEF Lent, IsLoan, Stands
  <2>3. ASSUME NEW S \in SUBSET Requests, NEW T \in SUBSET Requests,
               \A s \in Requests : s # r => (s \in S <=> s \in T)
        PROVE  /\ Cardinality(S) \in Nat /\ Cardinality(T) \in Nat
               /\ Cardinality(T) - Cardinality(S) = One(r, T) - One(r, S)
    BY <1>1, <2>3, CountsOne
  <2> HIDE DEF L
  <2> QED BY <2>1, <2>2, <2>3
<1>5. /\ Cardinality(R) \in Nat /\ Cardinality(R') \in Nat
      /\ Cardinality(R') - Cardinality(R) = One(c, R') - One(c, R)
      /\ Cardinality(A) \in Nat /\ Cardinality(A') \in Nat
      /\ Cardinality(A') - Cardinality(A) = One(c, A') - One(c, A)
  BY <1>3
<1>6. /\ lost[a][u] \in Int /\ lost'[a][u] \in Int
      /\ other[a][u] \in Int /\ other'[a][u] \in Int
  BY DEF TypeOK
<1>7. Cardinality(H) + Cardinality(R) + lost[a][u] = Cardinality(L) + Cardinality(A) + other[a][u]
  BY DEF SnipeAgreesWithLoans
<1>8. One(i, H') - One(i, H) + (One(c, R') - One(c, R)) + (lost'[a][u] - lost[a][u])
      = One(r, L') - One(r, L) + (One(c, A') - One(c, A)) + (other'[a][u] - other[a][u])
  BY DEF Even
<1>9. /\ One(i, H) \in Int /\ One(i, H') \in Int /\ One(r, L) \in Int /\ One(r, L') \in Int
      /\ One(c, R) \in Int /\ One(c, R') \in Int /\ One(c, A) \in Int /\ One(c, A') \in Int
  <2> HIDE DEF H, R, L, A
  <2> QED BY DEF One
<1>10. Cardinality(H') + Cardinality(R') + lost'[a][u]
       = Cardinality(L') + Cardinality(A') + other'[a][u]
  <2> HIDE DEF H, R, L, A
  <2> QED BY <1>2, <1>4, <1>5, <1>6, <1>7, <1>8, <1>9
<1> QED BY <1>10

\* What a call relies on of its loan and of the assignment it found.
Minds(c) ==
    LET r == call[c].req
        i == call[c].slot
    IN  /\ call[c].at \in {"readUnit", "checkoutLoan", "saveAssigned"} => ~row[r].signedOff
        /\ call[c].at \in {"readAssignments", "checkinLoan", "saveReturned"} =>
              row[r].accessory = call[c].target /\ ~row[r].returned
        /\ call[c].at \in {"checkinLoan", "checkinReported"} =>
              /\ slot[i].state # "unused" /\ slot[i].acc = call[c].target
              /\ slot[i].user = row[r].user

Unlent(r) ==
    row[r].kind = "LOAN" /\ ~row[r].signedOff => row[r].accessory = None /\ ~row[r].returned

OneCallEach ==
    \A c, d \in Calls : call[c].req \in Requests /\ call[c].req = call[d].req => c = d

Ledger ==
    /\ LendingInv
    /\ OneCallEach
    /\ \A r \in Requests : Unlent(r)
    /\ \A c \in Calls : Minds(c)
    /\ SnipeAgreesWithLoans

\* An assignment that was made is never made anew.
SlotsLast ==
    \A j \in Slots : slot[j].state # "unused" =>
        slot'[j].state # "unused" /\ slot'[j].acc = slot[j].acc /\ slot'[j].user = slot[j].user

LEMMA LedgerInit == Init => Ledger
<1> SUFFICES ASSUME Init PROVE Ledger
  OBVIOUS
<1>1. LendingInv
  BY LendingInit
<1>2. /\ \A r \in Requests : row[r] = Unfiled
      /\ \A c \in Calls : call[c] = Idle
      /\ \A i \in Slots : slot[i] = Unused
      /\ \A a \in Accessories, u \in Users : other[a][u] = 0 /\ lost[a][u] = 0
  BY DEF Init, SnipeInit, Empty
<1>3. OneCallEach /\ (\A r \in Requests : Unlent(r)) /\ \A c \in Calls : Minds(c)
  BY <1>2, LendingAssumption DEF OneCallEach, Unlent, Minds, Unfiled, Idle
<1>4. SnipeAgreesWithLoans
  <2> SUFFICES ASSUME NEW a \in Accessories, NEW u \in Users
               PROVE  /\ Held(a, u) = {} /\ Lent(a, u) = {}
                      /\ Between("saveReturned", a, u) = {} /\ Between("saveAssigned", a, u) = {}
    BY <1>2, FS_EmptySet DEF SnipeAgreesWithLoans
  <2> QED BY <1>2 DEF Held, IsOut, Unused, Lent, IsLoan, Unfiled, Between, At, Idle
<1> QED BY <1>1, <1>3, <1>4 DEF Ledger

\* A step of one call.
LEMMA CallKeepsLedger ==
    ASSUME Ledger, LendingInv', NEW c \in Calls, NEW i,
           \A d \in Calls : d # c => call'[d] = call[d],
           \/ call'[c].req = call[c].req
           \/ call'[c].req = None
           \/ \A d \in Calls : call[d].req # call'[c].req,
           \A s \in Requests : s # call[c].req => Stands(s),
           \A s \in Requests : s = call[c].req => Unlent(s)',
           SlotsLast, \A j \in Slots : j # i => slot'[j] = slot[j],
           Minds(c)',
           \A r : r = call[c].req => Even(i, c, r)
    PROVE  Ledger'
<1>1. None \notin Requests
  BY LendingAssumption
<1>2. OneCallEach'
  BY <1>1 DEF Ledger, OneCallEach
<1>3. \A s \in Requests : Unlent(s)'
  BY DEF Ledger, Unlent, Stands
<1>4. ASSUME NEW d \in Calls, d # c
      PROVE  /\ call[d].at # "idle" => Stands(call[d].req) /\ call[d].req \in Requests
             /\ Minds(d)'
  <2>1. Knows(d) /\ Minds(d) /\ call'[d] = call[d]
    BY <1>4 DEF Ledger, LendingInv
  <2>2. call[d].at # "idle" => Stands(call[d].req) /\ call[d].req \in Requests
    BY <1>4, <2>1 DEF Ledger, OneCallEach, Knows
  <2>3. call[d].at \in {"checkinLoan", "checkinReported"} => call[d].slot \in Slots
    BY <2>1 DEF Knows
  <2> QED BY <2>1, <2>2, <2>3 DEF Minds, Stands, SlotsLast
<1>5. SnipeAgreesWithLoans'
  <2>1. TypeOK /\ TypeOK' /\ SnipeAgreesWithLoans
    BY DEF Ledger, LendingInv
  <2>2. PICK r : r = call[c].req
    OBVIOUS
  <2>3. /\ \A d \in Calls : d # c =>
              /\ call'[d] = call[d]
              /\ call[d].at # "idle" => row'[call[d].req].user = row[call[d].req].user
        /\ \A s \in Requests : s # r => Stands(s)
    BY <1>4, <2>2 DEF Stands
  <2> QED BY <2>1, <2>2, <2>3, EvenKeepsTheBooks
<1> QED BY <1>2, <1>3, <1>4, <1>5 DEF Ledger

\* A step of a call that the books do not hear of.
LEMMA QuietKeepsLedger ==
    ASSUME Ledger, LendingInv', NEW c \in Calls,
           \A d \in Calls : d # c => call'[d] = call[d],
           \/ call'[c].req = call[c].req
           \/ call'[c].req = None
           \/ \A d \in Calls : call[d].req # call'[c].req,
           call[c].at \notin {"saveAssigned", "saveReturned"},
           call'[c].at \notin {"saveAssigned", "saveReturned"},
           \A s \in Requests :
              Stands(s) \/ (s = call[c].req /\ Unlent(s)'
                            /\ \A a, u : s \in Lent(a, u)' <=> s \in Lent(a, u)),
           UNCHANGED <<slot, lost, other>>,
           Minds(c)'
    PROVE  Ledger'
<1>1. SlotsLast
  BY DEF SlotsLast
<1>2. \A s \in Requests : s = call[c].req => Unlent(s)'
  BY DEF Ledger, Unlent, Stands
<1>3. ASSUME NEW r, r = call[c].req
      PROVE  Even(None, c, r)
  <2>1. ASSUME NEW a \in Accessories, NEW u \in Users
        PROVE  /\ None \notin Held(a, u) /\ None \notin Held(a, u)'
               /\ r \in Lent(a, u) <=> r \in Lent(a, u)'
               /\ \A step \in {"saveReturned", "saveAssigned"} :
                     c \notin Between(step, a, u) /\ c \notin Between(step, a, u)'
               /\ lost[a][u] \in Int /\ other[a][u] \in Int
               /\ lost'[a][u] = lost[a][u] /\ other'[a][u] = other[a][u]
    <3>1. r \in Lent(a, u) <=> r \in Lent(a, u)'
      BY <1>3 DEF Lent, IsLoan, Stands
    <3>2. None \notin Held(a, u) /\ None \notin Held(a, u)'
      BY LendingAssumption DEF Held
    <3>3. \A step \in {"saveReturned", "saveAssigned"} :
             c \notin Between(step, a, u) /\ c \notin Between(step, a, u)'
      BY DEF Between, At
    <3>4. lost[a][u] \in Int /\ other[a][u] \in Int
      BY DEF Ledger, LendingInv, TypeOK
    <3> QED BY <3>1, <3>2, <3>3, <3>4
  <2> QED BY <2>1 DEF Even, One
<1> QED BY <1>1, <1>2, <1>3, CallKeepsLedger

LEMMA BeginningKeepsLedger ==
    ASSUME ~Overlap, Ledger, LendingInv', NEW c \in Calls, NEW r \in Requests,
           \/ RejectRequest(c, r)
           \/ \E a \in Accessories : AssignLoan(c, r, a)
           \/ MarkLoanReturned(c, r)
           \/ \E target \in {None} \cup Accessories \cup Assets : ApproveCorrection(c, r, target)
           \/ ResolvedManually(c, r)
    PROVE  Ledger'
<1>1. TypeOK /\ Filed /\ row \in [Requests -> RowStates] /\ call \in [Calls -> CallStates]
  BY Typing DEF Ledger, LendingInv
<1>2. /\ UNCHANGED <<row, slot, other, lost>> /\ call[c].at = "idle"
      /\ \A d \in Calls : call[d].req # r
  BY DEF RejectRequest, AssignLoan, MarkLoanReturned, ApproveCorrection, ResolvedManually,
         Begin, BeginWith, At, ghosts
<1>3. \A s \in Requests : Stands(s)
  BY <1>2 DEF Stands
<1>4. ASSUME NEW step \in LendingSteps, step \notin {"saveAssigned", "saveReturned"},
             \A d \in Calls : d # c => call'[d] = call[d],
             call'[c].at = step, call'[c].req = r, Minds(c)'
      PROVE  Ledger'
  BY <1>2, <1>3, <1>4, QuietKeepsLedger
<1>5. CASE RejectRequest(c, r)
  <2>1. /\ call'[c].at = "saveRejection" /\ call'[c].req = r
        /\ \A d \in Calls : d # c => call'[d] = call[d]
    BY <1>1, <1>5, BeginMoves DEF RejectRequest, LendingSteps
  <2> QED BY <1>4, <2>1 DEF Minds, LendingSteps
<1>6. CASE \E a \in Accessories : AssignLoan(c, r, a)
  <2>0. PICK a \in Accessories : AssignLoan(c, r, a)
    BY <1>6
  <2>1. /\ call'[c].at = "readUnit" /\ call'[c].req = r
        /\ \A d \in Calls : d # c => call'[d] = call[d]
    BY <1>1, <2>0, BeginMoves DEF AssignLoan, LendingSteps
  <2>2. Minds(c)'
    BY <1>2, <2>0, <2>1 DEF Minds, AssignLoan, AwaitsAssignment
  <2> QED BY <1>4, <2>1, <2>2 DEF LendingSteps
<1>7. CASE MarkLoanReturned(c, r)
  <2>0. row[r].accessory \in Accessories /\ ~row[r].returned
    BY <1>1, <1>7 DEF MarkLoanReturned, AwaitsReturn, RowStates
  <2>1. /\ call'[c].at = "readAssignments" /\ call'[c].req = r
        /\ call'[c].target = row[r].accessory
        /\ \A d \in Calls : d # c => call'[d] = call[d]
    BY <1>1, <1>7, <2>0, BeginMoves DEF MarkLoanReturned, LendingSteps
  <2>2. Minds(c)'
    BY <1>2, <2>0, <2>1 DEF Minds
  <2> QED BY <1>4, <2>1, <2>2 DEF LendingSteps
<1>8. CASE \E target \in {None} \cup Accessories \cup Assets : ApproveCorrection(c, r, target)
  <2>0. PICK target \in {None} \cup Accessories \cup Assets : ApproveCorrection(c, r, target)
    BY <1>8
  <2> DEFINE step == ApplyStep(report[r], target)
             x == IF report[r].record # None THEN report[r].record ELSE target
  <2>1. report[r] \in Reports
    BY <1>1, <2>0 DEF Filed, ApproveCorrection, AwaitsCorrection
  <2>2. /\ step \in LendingSteps /\ x \in Accessories \cup Assets \cup {None}
        /\ step \notin LoanSteps \cup {"idle", "patchSerial", "complete", "checkinReported"}
    BY <2>1, ApplyStepFits
  <2>3. BeginWith(c, r, step, x)
    BY <2>0 DEF ApproveCorrection
  <2> HIDE DEF step, x
  <2>4. /\ call'[c].at = step /\ call'[c].req = r
        /\ \A d \in Calls : d # c => call'[d] = call[d]
    BY <1>1, <2>2, <2>3, BeginMoves
  <2> QED BY <1>4, <2>2, <2>4 DEF Minds, LoanSteps
<1>9. CASE ResolvedManually(c, r)
  <2>1. /\ call'[c].at = "complete" /\ call'[c].req = r
        /\ \A d \in Calls : d # c => call'[d] = call[d]
    BY <1>1, <1>9, BeginMoves DEF ResolvedManually, LendingSteps
  <2> QED BY <1>4, <2>1 DEF Minds, LendingSteps
<1> QED BY <1>5, <1>6, <1>7, <1>8, <1>9

\* A call that goes from step to step without a write the books hear of.
LEMMA PassingKeepsLedger ==
    ASSUME Ledger, LendingInv', NEW c \in Calls,
           \/ ReadUnit(c) \/ FindAssignment(c) \/ SearchSerial(c) \/ ReadAsset(c) \/ ReadStock(c)
           \/ CheckinAsset(c) \/ PatchSerial(c) \/ PatchModel(c) \/ CheckoutAsset(c)
    PROVE  Ledger'
<1>1. /\ TypeOK /\ Minds(c) /\ Knows(c) /\ call \in [Calls -> CallStates]
      /\ UNCHANGED <<row, slot, other, lost>>
  BY Typing DEF Ledger, LendingInv, ReadUnit, FindAssignment, SearchSerial, ReadAsset, ReadStock,
                CheckinAsset, PatchSerial, PatchModel, CheckoutAsset, ghosts
<1>2. \A s \in Requests : Stands(s)
  BY <1>1 DEF Stands
<1>3. ASSUME NEW step \in {"checkoutLoan", "saveCheckinError", "saveApplyError", "patchSerial",
                           "checkoutAsset", "checkoutReported", "complete"},
             Goto(c, step), call[c].at \notin {"saveAssigned", "saveReturned"},
             step = "checkoutLoan" => call[c].at = "readUnit"
      PROVE  Ledger'
  <2>1. /\ \A d \in Calls : d # c => call'[d] = call[d]
        /\ call'[c].at = step /\ call'[c].req = call[c].req
    BY <1>1, <1>3, GotoMoves DEF LendingSteps
  <2>2. Minds(c)'
    BY <1>1, <1>3, <2>1 DEF Minds
  <2> QED BY <1>1, <1>2, <1>3, <2>1, <2>2, QuietKeepsLedger
<1>4. CASE ReadUnit(c)
  <2>1. CASE Return(c)
    <3>1. /\ \A d \in Calls : d # c => call'[d] = call[d]
          /\ call'[c].at = "idle" /\ call'[c].req = None
      BY <1>1, <2>1 DEF Return, Idle
    <3> QED BY <1>1, <1>2, <1>4, <3>1, QuietKeepsLedger DEF ReadUnit, At, Minds
  <2> QED BY <1>3, <1>4, <2>1 DEF ReadUnit, At
<1>5. CASE FindAssignment(c)
  <2>1. call[c].at \in {"readAssignments", "readReported"}
    BY <1>5 DEF FindAssignment, AfterRead
  <2>2. CASE Mine(c) = {}
    BY <1>3, <1>5, <2>1, <2>2 DEF FindAssignment, AfterRead
  <2>3. CASE Mine(c) # {}
    <3>1. PICK i \in Mine(c) : call' = [call EXCEPT ![c].at = AfterRead[@].found, ![c].slot = i]
      BY <1>5, <2>3 DEF FindAssignment
    <3>2. i \in Slots /\ slot[i] = [state |-> "out", acc |-> call[c].target, user |-> UserOf(c)]
      BY DEF Mine, IsOut
    <3> DEFINE step == AfterRead[call[c].at].found
               new == [call[c] EXCEPT !.at = step, !.slot = i]
    <3>3. step = IF call[c].at = "readAssignments" THEN "checkinLoan" ELSE "checkinReported"
      BY <2>1 DEF AfterRead
    <3>4. /\ new.at = step /\ new.slot = i /\ new.req = call[c].req
          /\ new.target = call[c].target
      BY <1>1 DEF CallStates
    <3>5. call' = [call EXCEPT ![c] = new]
      BY <1>1, <3>1 DEF AfterRead
    <3> HIDE DEF step, new
    <3>6. call'[c] = new /\ \A d \in Calls : d # c => call'[d] = call[d]
      BY <1>1, <3>5
    <3>7. Minds(c)'
      BY <1>1, <2>1, <3>2, <3>3, <3>4, <3>6 DEF Minds, UserOf
    <3> QED BY <1>1, <1>2, <2>1, <3>3, <3>4, <3>6, <3>7, QuietKeepsLedger
  <2> QED BY <2>2, <2>3
<1>6. CASE SearchSerial(c) \/ ReadAsset(c) \/ ReadStock(c)
  BY <1>3, <1>6 DEF SearchSerial, ReadAsset, ReadStock, At
<1>7. CASE CheckinAsset(c) \/ PatchSerial(c) \/ PatchModel(c) \/ CheckoutAsset(c)
  BY <1>3, <1>7 DEF CheckinAsset, PatchSerial, PatchModel, CheckoutAsset, At
<1> QED BY <1>4, <1>5, <1>6, <1>7

\* A unit that leaves counts for one user of one accessory, and so one that comes back.
LEMMA UnitLeaves ==
    ASSUME TypeOK, NEW a \in Accessories, NEW u \in Users, Assigned(a, u)
    PROVE  \E i \in Slots :
              /\ SlotsLast /\ \A j \in Slots : j # i => slot'[j] = slot[j]
              /\ \A p, q : i \notin Held(p, q) /\ (i \in Held(p, q)' <=> p = a /\ q = u)
<1> DEFINE new == [state |-> "out", acc |-> a, user |-> u]
<1>1. slot \in [Slots -> SlotStates]
  BY Typing
<1>2. PICK i \in Slots : slot[i] = Unused /\ slot' = [slot EXCEPT ![i] = new]
  BY DEF Assigned
<1>3. slot'[i] = new /\ \A j \in Slots : j # i => slot'[j] = slot[j]
  BY <1>1, <1>2
<1>4. \A p, q : (new = [state |-> "out", acc |-> p, user |-> q]) <=> (p = a /\ q = u)
  OBVIOUS
<1>5. ASSUME NEW p, NEW q
      PROVE  i \notin Held(p, q) /\ (i \in Held(p, q)' <=> p = a /\ q = u)
  <2>1. i \notin Held(p, q)
    BY <1>2 DEF Held, IsOut, Unused
  <2>2. i \in Held(p, q)' <=> slot'[i] = [state |-> "out", acc |-> p, user |-> q]
    BY DEF Held, IsOut
  <2> QED BY <1>3, <1>4, <2>1, <2>2
<1>6. SlotsLast
  BY <1>2, <1>3 DEF SlotsLast, Unused
<1> QED BY <1>3, <1>5, <1>6

LEMMA UnitComesBack ==
    ASSUME TypeOK, NEW i \in Slots, slot[i].state = "out", CheckedIn(i)
    PROVE  /\ SlotsLast /\ \A j \in Slots : j # i => slot'[j] = slot[j]
           /\ \A p, q : /\ i \in Held(p, q) <=> p = slot[i].acc /\ q = slot[i].user
                        /\ i \notin Held(p, q)'
<1>1. slot \in [Slots -> SlotStates]
  BY Typing
<1>2. /\ slot'[i].state = "in" /\ slot'[i].acc = slot[i].acc /\ slot'[i].user = slot[i].user
      /\ \A j \in Slots : j # i => slot'[j] = slot[j]
  BY <1>1 DEF CheckedIn, SlotStates
<1>3. slot[i] = [state |-> "out", acc |-> slot[i].acc, user |-> slot[i].user]
  BY <1>1 DEF SlotStates
<1>4. \A p, q : /\ i \in Held(p, q) <=> p = slot[i].acc /\ q = slot[i].user
                /\ i \notin Held(p, q)'
  BY <1>2, <1>3 DEF Held, IsOut
<1>5. SlotsLast
  BY <1>2 DEF SlotsLast
<1> QED BY <1>2, <1>4, <1>5

\* What a count adds to each of its cells.
Cell(p, q, a, u, n) == IF p = a /\ q = u THEN n ELSE 0

LEMMA CountsUp ==
    ASSUME TypeOK, NEW a \in Accessories, NEW u \in Users \cup {None}, NEW n \in Int
    PROVE  \A p \in Accessories, q \in Users :
              /\ Count(other, a, u, n) => other'[p][q] = other[p][q] + Cell(p, q, a, u, n)
              /\ Count(lost, a, u, n) => lost'[p][q] = lost[p][q] + Cell(p, q, a, u, n)
              /\ other[p][q] \in Int /\ lost[p][q] \in Int
<1>1. /\ other \in [Accessories -> [Users -> Int]]
      /\ lost \in [Accessories -> [Users -> Nat]]
  BY Typing
<1>2. \A p \in Accessories, q \in Users : other[p][q] \in Int /\ lost[p][q] \in Int
  BY <1>1
<1>3. ASSUME Count(other, a, u, n), NEW p \in Accessories, NEW q \in Users
      PROVE  other'[p][q] = other[p][q] + Cell(p, q, a, u, n)
  <2>1. other' = [other EXCEPT ![a] = [other[a] EXCEPT ![u] = other[a][u] + n]]
    BY <1>1, <1>3 DEF Count
  <2>2. other[a] \in [Users -> Int] /\ other[p] \in [Users -> Int]
    BY <1>1
  <2>3. other'[p][q] = IF p = a /\ q = u THEN other[p][q] + n ELSE other[p][q]
    BY <1>1, <2>1, <2>2
  <2> QED BY <1>2, <2>3 DEF Cell
<1>4. ASSUME Count(lost, a, u, n), NEW p \in Accessories, NEW q \in Users
      PROVE  lost'[p][q] = lost[p][q] + Cell(p, q, a, u, n)
  <2>1. lost' = [lost EXCEPT ![a] = [lost[a] EXCEPT ![u] = lost[a][u] + n]]
    BY <1>1, <1>4 DEF Count
  <2>2. lost[a] \in [Users -> Nat] /\ lost[p] \in [Users -> Nat]
    BY <1>1
  <2>3. lost'[p][q] = IF p = a /\ q = u THEN lost[p][q] + n ELSE lost[p][q]
    BY <1>1, <2>1, <2>2
  <2> QED BY <1>2, <2>3 DEF Cell
<1> QED BY <1>2, <1>3, <1>4

\* The writes to the request.
LEMMA SavingKeepsLedger ==
    ASSUME Ledger, LendingInv', NEW c \in Calls,
           SaveRejection(c) \/ SaveAssigned(c) \/ SaveReturned(c) \/ SaveError(c)
           \/ CompleteCorrection(c)
    PROVE  Ledger'
<1> DEFINE r == call[c].req
           x == call[c].target
<1>1. /\ TypeOK /\ Minds(c) /\ Knows(c) /\ row \in [Requests -> RowStates]
      /\ call \in [Calls -> CallStates]
  BY Typing DEF Ledger, LendingInv
<1>2. /\ Return(c) /\ UNCHANGED <<slot, other, lost>> /\ r \in Requests
      /\ call[c].at # "idle"
  BY <1>1 DEF SaveRejection, SaveAssigned, SaveReturned, SaveError, CompleteCorrection, At, Knows,
              ghosts
<1>3. /\ \A d \in Calls : d # c => call'[d] = call[d]
      /\ call'[c].at = "idle" /\ call'[c].req = None
  BY <1>1, <1>2 DEF Return, Idle
<1>4. Minds(c)'
  BY <1>3 DEF Minds
<1>5. row[r] \in RowStates /\ Unlent(r)
  BY <1>1, <1>2 DEF Ledger
<1>6. CASE SaveRejection(c) \/ SaveError(c) \/ CompleteCorrection(c)
  <2>1. \A s \in Requests : s # r => Stands(s)
    BY <1>1, <1>2, <1>6 DEF SaveRejection, SaveError, CompleteCorrection, Stands
  <2>2. /\ row'[r].kind = row[r].kind /\ row'[r].user = row[r].user
        /\ row'[r].returned = row[r].returned /\ row'[r].accessory = row[r].accessory
        /\ ~row'[r].signedOff => ~row[r].signedOff
    <3>1. CASE SaveRejection(c)
      BY <1>1, <1>2, <1>5, <3>1 DEF SaveRejection, RowStates
    <3>2. CASE SaveError(c)
      BY <1>1, <1>2, <1>5, <3>2 DEF SaveError, RowStates
    <3>3. CASE CompleteCorrection(c)
      BY <1>1, <1>2, <1>5, <3>3 DEF CompleteCorrection, RowStates
    <3> QED BY <1>6, <3>1, <3>2, <3>3
  <2>3. \A s \in Requests :
           s = r => Unlent(s)' /\ \A a, u : s \in Lent(a, u)' <=> s \in Lent(a, u)
    BY <1>5, <2>2 DEF Unlent, Lent, IsLoan
  <2>4. call[c].at \notin {"saveAssigned", "saveReturned"}
    BY <1>6 DEF SaveRejection, SaveError, CompleteCorrection, At
  <2> QED BY <1>2, <1>3, <1>4, <2>1, <2>3, <2>4, QuietKeepsLedger
<1>7. SlotsLast /\ \A a, u : None \notin Held(a, u) /\ None \notin Held(a, u)'
  BY <1>2, LendingAssumption DEF SlotsLast, Held
<1>8. \A a \in Accessories, u \in Users : lost[a][u] \in Int /\ other[a][u] \in Int
  BY <1>1 DEF TypeOK
<1>9. CASE SaveAssigned(c)
  <2>1. row[r].kind = "LOAN" /\ x \in Accessories /\ row[r].accessory = None /\ ~row[r].returned
    BY <1>1, <1>5, <1>9 DEF SaveAssigned, At, Knows, Minds, LoanSteps, UnitSteps, Unlent
  <2>2. /\ row'[r].kind = "LOAN" /\ row'[r].user = row[r].user /\ row'[r].accessory = x
        /\ ~row'[r].returned /\ row'[r].signedOff
        /\ \A s \in Requests : s # r => row'[s] = row[s]
    BY <1>1, <1>2, <1>5, <1>9, <2>1 DEF SaveAssigned, RowStates
  <2>3. ASSUME NEW a \in Accessories, NEW u \in Users
        PROVE  /\ r \notin Lent(a, u) /\ (r \in Lent(a, u)' <=> a = x /\ u = row[r].user)
               /\ c \notin Between("saveReturned", a, u) /\ c \notin Between("saveReturned", a, u)'
               /\ c \in Between("saveAssigned", a, u) <=> a = x /\ u = row[r].user
               /\ c \notin Between("saveAssigned", a, u)'
    <3>1. a # None
      BY LendingAssumption
    <3> QED BY <1>2, <1>3, <1>9, <2>1, <2>2, <3>1 DEF SaveAssigned, Lent, IsLoan, Between, At, UserOf
  <2>4. Even(None, c, r)
    BY <1>2, <1>7, <1>8, <2>3 DEF Even, One
  <2>5. \A s \in Requests : IF s = r THEN Unlent(s)' ELSE Stands(s)
    BY <2>2 DEF Unlent, Stands
  <2> QED BY <1>2, <1>3, <1>4, <1>7, <2>4, <2>5, CallKeepsLedger
<1>10. CASE SaveReturned(c)
  <2>1. row[r].kind = "LOAN" /\ x \in Accessories /\ row[r].accessory = x /\ ~row[r].returned
    BY <1>1, <1>10 DEF SaveReturned, At, Knows, Minds, LoanSteps, UnitSteps
  <2>2. /\ row'[r].kind = "LOAN" /\ row'[r].returned /\ row'[r].signedOff = row[r].signedOff
        /\ \A s \in Requests : s # r => row'[s] = row[s]
    BY <1>1, <1>2, <1>5, <1>10, <2>1 DEF SaveReturned, RowStates
  <2>3. ASSUME NEW a \in Accessories, NEW u \in Users
        PROVE  /\ r \in Lent(a, u) <=> a = x /\ u = row[r].user
               /\ r \notin Lent(a, u)'
               /\ c \in Between("saveReturned", a, u) <=> a = x /\ u = row[r].user
               /\ c \notin Between("saveReturned", a, u)'
               /\ c \notin Between("saveAssigned", a, u) /\ c \notin Between("saveAssigned", a, u)'
    BY <1>2, <1>3, <1>10, <2>1, <2>2 DEF SaveReturned, Lent, IsLoan, Between, At, UserOf
  <2>4. Even(None, c, r)
    BY <1>2, <1>7, <1>8, <2>3 DEF Even, One
  <2>5. \A s \in Requests : IF s = r THEN Unlent(s)' ELSE Stands(s)
    <3>1. row[r].signedOff
      BY <1>5, <2>1, LendingAssumption DEF Unlent
    <3> QED BY <2>2, <3>1 DEF Unlent, Stands
  <2> QED BY <1>2, <1>3, <1>4, <1>7, <2>4, <2>5, CallKeepsLedger
<1> QED BY <1>6, <1>9, <1>10

\* The writes to Snipe-IT's accessories.
LEMMA WritingKeepsLedger ==
    ASSUME Ledger, LendingInv', NEW c \in Calls,
           CheckoutLoan(c) \/ CheckinLoan(c) \/ CheckinReported(c) \/ CheckoutReported(c)
    PROVE  Ledger'
<1> DEFINE r == call[c].req
           x == call[c].target
           v == row[r].user
<1>1. /\ TypeOK /\ Minds(c) /\ Knows(c) /\ call \in [Calls -> CallStates] /\ Filed
  BY Typing DEF Ledger, LendingInv
<1>2. UNCHANGED row /\ call[c].at # "idle" /\ r \in Requests /\ v \in Users /\ x \in Accessories
  <2>1. call[c].at \in UnitSteps \ {"idle"} /\ UNCHANGED row
    BY DEF CheckoutLoan, CheckinLoan, CheckinReported, CheckoutReported, At, LoanSteps, UnitSteps
  <2> QED BY <1>1, <2>1 DEF Knows, Filed
<1>3. /\ \A s \in Requests : Stands(s) /\ Unlent(s)'
      /\ \A a, u : \A s : s \in Lent(a, u)' <=> s \in Lent(a, u)
  BY <1>2 DEF Stands, Ledger, Unlent, Lent, IsLoan
<1>4. ASSUME NEW step \in {"saveAssigned", "saveReturned", "saveCheckinError", "complete"},
             Goto(c, step)
      PROVE  /\ \A d \in Calls : d # c => call'[d] = call[d]
             /\ call'[c].at = step /\ call'[c].req = r /\ call'[c].target = x
  BY <1>1, <1>4, GotoMoves DEF LendingSteps
\* What the call counts for, before and after.
<1>5. ASSUME NEW step \in {"saveAssigned", "saveReturned", "saveCheckinError", "complete"},
             Goto(c, step), call[c].at \notin {"saveAssigned", "saveReturned"}
      PROVE  \A a, u : \A s \in {"saveAssigned", "saveReturned"} :
                /\ c \notin Between(s, a, u)
                /\ c \in Between(s, a, u)' <=> step = s /\ a = x /\ u = v
  <2>1. call'[c].at = step /\ call'[c].req = r /\ call'[c].target = x
    BY <1>4, <1>5
  <2> QED BY <1>2, <1>5, <2>1 DEF Between, At, UserOf
<1>6. ASSUME NEW step \in {"saveAssigned", "saveReturned", "saveCheckinError", "complete"},
             Goto(c, step), Minds(c)', SlotsLast,
             NEW i, \A j \in Slots : j # i => slot'[j] = slot[j], Even(i, c, r)
      PROVE  Ledger'
  BY <1>3, <1>4, <1>6, CallKeepsLedger
<1>7. \A a \in Accessories, u \in Users : lost[a][u] \in Int /\ other[a][u] \in Int
  BY <1>1 DEF TypeOK
<1>8. CASE CheckoutLoan(c)
  <2>1. Assigned(x, v) /\ Goto(c, "saveAssigned") /\ UNCHANGED <<lost, other>>
        /\ call[c].at = "checkoutLoan"
    BY <1>8 DEF CheckoutLoan, UserOf, At, ghosts
  <2>2. PICK i \in Slots :
              /\ SlotsLast /\ \A j \in Slots : j # i => slot'[j] = slot[j]
              /\ \A p, q : i \notin Held(p, q) /\ (i \in Held(p, q)' <=> p = x /\ q = v)
    BY <1>1, <1>2, <2>1, UnitLeaves
  <2>3. Even(i, c, r)
    <3>1. ASSUME NEW a \in Accessories, NEW u \in Users
          PROVE  /\ \A s \in {"saveAssigned", "saveReturned"} : c \notin Between(s, a, u)
                 /\ c \in Between("saveAssigned", a, u)' <=> a = x /\ u = v
                 /\ c \notin Between("saveReturned", a, u)'
                 /\ lost'[a][u] = lost[a][u] /\ other'[a][u] = other[a][u]
      BY <1>5, <2>1
    <3> QED BY <1>3, <1>7, <2>2, <3>1 DEF Even, One
  <2>4. Minds(c)'
    BY <1>1, <1>2, <1>4, <2>1 DEF Minds
  <2> QED BY <1>6, <2>1, <2>2, <2>3, <2>4
<1>9. CASE CheckinLoan(c)
  <2> DEFINE i == call[c].slot
  <2>1. /\ call[c].at = "checkinLoan" /\ i \in Slots /\ slot[i].acc = x /\ slot[i].user = v
        /\ row[r].accessory = x /\ ~row[r].returned /\ UNCHANGED other
    BY <1>1, <1>9 DEF CheckinLoan, At, Knows, Minds
  <2>2. CASE slot[i].state = "out" /\ CheckedIn(i) /\ Goto(c, "saveReturned") /\ UNCHANGED lost
    <3>1. /\ SlotsLast /\ \A j \in Slots : j # i => slot'[j] = slot[j]
          /\ \A p, q : (i \in Held(p, q) <=> p = x /\ q = v) /\ i \notin Held(p, q)'
      BY <1>1, <2>1, <2>2, UnitComesBack
    <3>2. Even(i, c, r)
      <4>1. ASSUME NEW a \in Accessories, NEW u \in Users
            PROVE  /\ \A s \in {"saveAssigned", "saveReturned"} : c \notin Between(s, a, u)
                   /\ c \in Between("saveReturned", a, u)' <=> a = x /\ u = v
                   /\ c \notin Between("saveAssigned", a, u)'
                   /\ lost'[a][u] = lost[a][u] /\ other'[a][u] = other[a][u]
        BY <1>5, <2>1, <2>2
      <4> QED BY <1>3, <1>7, <3>1, <4>1 DEF Even, One
    <3>3. Minds(c)'
      BY <1>2, <1>4, <2>1, <2>2 DEF Minds
    <3> QED BY <1>6, <2>2, <3>1, <3>2, <3>3
  <2>3. CASE /\ slot[i].state = "out" /\ CheckedIn(i) /\ Goto(c, "saveCheckinError")
             /\ Count(lost, x, v, 1)
    <3>1. /\ SlotsLast /\ \A j \in Slots : j # i => slot'[j] = slot[j]
          /\ \A p, q : (i \in Held(p, q) <=> p = x /\ q = v) /\ i \notin Held(p, q)'
      BY <1>1, <2>1, <2>3, UnitComesBack
    <3>2. \A a \in Accessories, u \in Users : lost'[a][u] = lost[a][u] + Cell(a, u, x, v, 1)
      BY <1>1, <1>2, <2>3, CountsUp
    <3>3. Even(i, c, r)
      BY <1>3, <1>5, <1>7, <2>1, <2>3, <3>1, <3>2 DEF Even, One, Cell
    <3>4. Minds(c)'
      BY <1>4, <2>3 DEF Minds
    <3> QED BY <1>6, <2>3, <3>1, <3>3, <3>4
  <2>4. CASE Goto(c, "saveCheckinError") /\ UNCHANGED <<slot, lost>>
    <3>1. SlotsLast /\ \A a, u : None \notin Held(a, u) /\ None \notin Held(a, u)'
      BY <2>4, LendingAssumption DEF SlotsLast, Held
    <3>2. Even(None, c, r)
      <4>1. ASSUME NEW a \in Accessories, NEW u \in Users
            PROVE  /\ \A s \in {"saveAssigned", "saveReturned"} :
                         c \notin Between(s, a, u) /\ c \notin Between(s, a, u)'
                   /\ lost'[a][u] = lost[a][u] /\ other'[a][u] = other[a][u]
        BY <1>5, <2>1, <2>4
      <4> QED BY <1>3, <1>7, <3>1, <4>1 DEF Even, One
    <3>3. Minds(c)'
      BY <1>4, <2>4 DEF Minds
    <3> QED BY <1>6, <2>4, <3>1, <3>2, <3>3
  <2> QED BY <1>9, <2>2, <2>3, <2>4 DEF CheckinLoan, UserOf
<1>10. CASE CheckinReported(c)
  <2> DEFINE i == call[c].slot
  <2>1. /\ call[c].at = "checkinReported" /\ i \in Slots /\ slot[i].acc = x /\ slot[i].user = v
        /\ slot[i].state = "out" /\ CheckedIn(i) /\ Goto(c, "complete")
        /\ UNCHANGED lost /\ Count(other, x, v, -1)
    BY <1>1, <1>10 DEF CheckinReported, At, Knows, Minds, UserOf
  <2>2. /\ SlotsLast /\ \A j \in Slots : j # i => slot'[j] = slot[j]
        /\ \A p, q : (i \in Held(p, q) <=> p = x /\ q = v) /\ i \notin Held(p, q)'
    BY <1>1, <2>1, UnitComesBack
  <2>3. \A a \in Accessories, u \in Users : other'[a][u] = other[a][u] + Cell(a, u, x, v, -1)
    BY <1>1, <1>2, <2>1, CountsUp
  <2>4. Even(i, c, r)
    BY <1>3, <1>5, <1>7, <2>1, <2>2, <2>3 DEF Even, One, Cell
  <2>5. Minds(c)'
    BY <1>4, <2>1 DEF Minds
  <2> QED BY <1>6, <2>1, <2>2, <2>4, <2>5
<1>11. CASE CheckoutReported(c)
  <2>1. Assigned(x, v) /\ Goto(c, "complete") /\ UNCHANGED lost /\ Count(other, x, v, 1)
        /\ call[c].at = "checkoutReported"
    BY <1>11 DEF CheckoutReported, UserOf, At
  <2>2. PICK i \in Slots :
              /\ SlotsLast /\ \A j \in Slots : j # i => slot'[j] = slot[j]
              /\ \A p, q : i \notin Held(p, q) /\ (i \in Held(p, q)' <=> p = x /\ q = v)
    BY <1>1, <1>2, <2>1, UnitLeaves
  <2>3. \A a \in Accessories, u \in Users : other'[a][u] = other[a][u] + Cell(a, u, x, v, 1)
    BY <1>1, <1>2, <2>1, CountsUp
  <2>4. Even(i, c, r)
    BY <1>3, <1>5, <1>7, <2>1, <2>2, <2>3 DEF Even, One, Cell
  <2>5. Minds(c)'
    BY <1>4, <2>1 DEF Minds
  <2> QED BY <1>6, <2>1, <2>2, <2>4, <2>5
<1> QED BY <1>8, <1>9, <1>10, <1>11

\* A call that throws before it stamps the return leaves a check-in its loan does
\* not know of.
LEMMA FailKeepsLedger ==
    ASSUME "saveAssigned" \notin FailAt, Ledger, LendingInv', NEW c \in Calls, Fail(c)
    PROVE  Ledger'
<1> DEFINE r == call[c].req
           x == call[c].target
           v == row[r].user
<1>1. /\ TypeOK /\ Minds(c) /\ Knows(c) /\ call \in [Calls -> CallStates] /\ Filed
      /\ UNCHANGED <<row, slot, other>> /\ call[c].at # "saveAssigned"
  BY Typing DEF Ledger, LendingInv, Fail
<1>2. \A s \in Requests : Stands(s) /\ Unlent(s)'
  BY <1>1 DEF Stands, Ledger, Unlent
<1>3. /\ \A d \in Calls : d # c => call'[d] = call[d]
      /\ call'[c].at \in {"idle", "saveCheckinError"}
      /\ call'[c].req = r \/ call'[c].req = None
  <2>1. CASE Return(c)
    BY <1>1, <2>1 DEF Return, Idle
  <2>2. CASE Goto(c, "saveCheckinError")
    BY <1>1, <2>2, GotoMoves DEF LendingSteps
  <2> QED BY <2>1, <2>2 DEF Fail
<1>4. Minds(c)'
  BY <1>3 DEF Minds
<1>5. CASE At(c, "saveReturned")
  <2>1. /\ r \in Requests /\ v \in Users /\ x \in Accessories /\ Count(lost, x, v, 1)
        /\ call[c].at = "saveReturned"
    BY <1>1, <1>5 DEF Fail, At, Knows, Filed, LoanSteps, UnitSteps, UserOf
  <2>2. SlotsLast /\ \A a, u : None \notin Held(a, u) /\ None \notin Held(a, u)'
    BY <1>1, LendingAssumption DEF SlotsLast, Held
  <2>3. \A a \in Accessories, u \in Users :
           /\ lost'[a][u] = lost[a][u] + Cell(a, u, x, v, 1)
           /\ lost[a][u] \in Int /\ other[a][u] \in Int
    BY <1>1, <2>1, CountsUp
  <2>4. \A a, u : /\ r \in Lent(a, u)' <=> r \in Lent(a, u)
                  /\ c \in Between("saveReturned", a, u) <=> a = x /\ u = v
                  /\ c \notin Between("saveReturned", a, u)'
                  /\ c \notin Between("saveAssigned", a, u)
                  /\ c \notin Between("saveAssigned", a, u)'
    BY <1>1, <1>3, <2>1 DEF Lent, IsLoan, Between, At, UserOf
  <2>5. Even(None, c, r)
    BY <1>1, <2>2, <2>3, <2>4 DEF Even, One, Cell
  <2> QED BY <1>1, <1>2, <1>3, <1>4, <2>2, <2>5, CallKeepsLedger
<1>6. CASE ~At(c, "saveReturned")
  <2>1. UNCHANGED lost /\ call[c].at \notin {"saveAssigned", "saveReturned"}
    BY <1>1, <1>6 DEF Fail, At
  <2> QED BY <1>1, <1>2, <1>3, <1>4, <2>1, QuietKeepsLedger
<1> QED BY <1>5, <1>6

\* Filing, collection and the desk.
LEMMA PeopleKeepLedger ==
    ASSUME Ledger, LendingInv', Filing \/ (\E r \in Requests : Collect(r)) \/ AtTheDesk
    PROVE  Ledger'
<1>1. /\ TypeOK /\ TypeOK' /\ row \in [Requests -> RowStates] /\ slot \in [Slots -> SlotStates]
      /\ UNCHANGED <<call, lost>>
  BY Typing DEF Ledger, LendingInv, Filing, CreateLoanRequest, CreateCorrectionRequest, Collect,
                AtTheDesk, ghosts
<1>2. OneCallEach'
  BY <1>1 DEF Ledger, OneCallEach
<1>3. \A a \in Accessories, u \in Users : lost[a][u] \in Int /\ other[a][u] \in Int
  BY <1>1 DEF TypeOK
<1>4. ASSUME NEW r, \A s \in Requests : s # r => Stands(s),
             \A s \in Requests : s = r => Unlent(s)',
             \A c \in Calls : call[c].at # "idle" => Stands(call[c].req),
             SlotsLast, NEW i, \A j \in Slots : j # i => slot'[j] = slot[j], Even(i, None, r)
      PROVE  Ledger'
  <2>1. \A s \in Requests : Unlent(s)'
    BY <1>4 DEF Ledger, Unlent, Stands
  <2>2. ASSUME NEW c \in Calls PROVE Minds(c)'
    <3>1. Minds(c) /\ Knows(c)
      BY DEF Ledger, LendingInv
    <3> QED BY <1>1, <1>4, <3>1 DEF Minds, Knows, Stands, SlotsLast
  <2>3. SnipeAgreesWithLoans'
    <3>1. \A d \in Calls : d # None =>
             /\ call'[d] = call[d]
             /\ call[d].at # "idle" => row'[call[d].req].user = row[call[d].req].user
      BY <1>1, <1>4 DEF Stands
    <3> QED BY <1>1, <1>4, <3>1, EvenKeepsTheBooks DEF Ledger
  <2> QED BY <1>2, <2>1, <2>2, <2>3 DEF Ledger
\* What the calls count for stays the same.
<1>5. ASSUME \A c \in Calls : call[c].at # "idle" => Stands(call[c].req)
      PROVE  \A a, u : \A step \in {"saveReturned", "saveAssigned"} :
                None \in Between(step, a, u)' <=> None \in Between(step, a, u)
  BY <1>1, <1>5 DEF Between, At, UserOf, Stands
<1>6. CASE Filing \/ \E r \in Requests : Collect(r)
  <2>1. UNCHANGED <<slot, other>>
    BY <1>6 DEF Filing, CreateLoanRequest, CreateCorrectionRequest, Collect, ghosts
  <2>2. \E r \in Requests :
           /\ \A s \in Requests : s # r => Stands(s)
           /\ \A c \in Calls : call[c].at # "idle" => Stands(call[c].req)
           /\ Unlent(r)'
           /\ \A a \in Accessories, u \in Users : r \in Lent(a, u)' <=> r \in Lent(a, u)
    <3>1. ASSUME NEW r \in Requests, Collect(r)
          PROVE  (\A s \in Requests : Stands(s))
      BY <1>1, <3>1 DEF Collect, Stands, RowStates
    <3>2. ASSUME NEW r \in Requests, NEW u \in Users, NEW kind \in {"LOAN", "CORRECTION"},
                 row[r] = Unfiled, \A c \in Calls : call[c].req # r,
                 row' = [row EXCEPT ![r] = [Unfiled EXCEPT !.kind = kind, !.user = u,
                                                           !.status = "APPROVED"]]
          PROVE  /\ \A s \in Requests : s # r => Stands(s)
                 /\ \A c \in Calls : call[c].at # "idle" => Stands(call[c].req)
                 /\ Unlent(r)'
                 /\ \A a \in Accessories, v \in Users : r \in Lent(a, v)' <=> r \in Lent(a, v)
      <4>1. \A s \in Requests : s # r => Stands(s)
        BY <1>1, <3>2 DEF Stands
      <4>2. \A c \in Calls : call[c].at # "idle" => Stands(call[c].req)
        BY <3>2, <4>1 DEF Ledger, LendingInv, Knows
      <4>3. row'[r].accessory = None /\ ~row'[r].returned /\ row[r].accessory = None
        BY <1>1, <3>2 DEF Unfiled
      <4> QED BY <4>1, <4>2, <4>3, LendingAssumption DEF Unlent, Lent
    <3>3. CASE Filing
      <4>1. PICK r \in Requests, u \in Users :
               \/ CreateLoanRequest(r, u)
               \/ \E filed \in Reports : CreateCorrectionRequest(r, u, filed)
        BY <3>3 DEF Filing
      <4> QED BY <3>2, <4>1 DEF CreateLoanRequest, CreateCorrectionRequest
    <3>4. CASE \E r \in Requests : Collect(r)
      <4>1. PICK r \in Requests : Collect(r)
        BY <3>4
      <4>2. \A s \in Requests : Stands(s)
        BY <3>1, <4>1
      <4>3. Unlent(r) /\ \A c \in Calls : call[c].at # "idle" => call[c].req \in Requests
        BY DEF Ledger, LendingInv, Knows
      <4>4. Unlent(r)' /\ \A a, u : r \in Lent(a, u)' <=> r \in Lent(a, u)
        BY <4>2, <4>3 DEF Unlent, Lent, IsLoan, Stands
      <4> QED BY <4>2, <4>3, <4>4
    <3> QED BY <1>6, <3>3, <3>4
  <2>3. PICK r \in Requests :
           /\ \A s \in Requests : s # r => Stands(s)
           /\ \A c \in Calls : call[c].at # "idle" => Stands(call[c].req)
           /\ Unlent(r)'
           /\ \A a \in Accessories, u \in Users : r \in Lent(a, u)' <=> r \in Lent(a, u)
    BY <2>2
  <2>4. SlotsLast /\ \A a, u : None \notin Held(a, u) /\ None \notin Held(a, u)'
    BY <2>1, LendingAssumption DEF SlotsLast, Held
  <2>5. Even(None, None, r)
    <3>1. ASSUME NEW a \in Accessories, NEW u \in Users
          PROVE  lost'[a][u] = lost[a][u] /\ other'[a][u] = other[a][u]
      BY <1>1, <2>1
    <3> QED BY <1>3, <1>5, <2>3, <2>4, <3>1 DEF Even, One
  <2> QED BY <1>4, <2>1, <2>3, <2>4, <2>5
<1>7. CASE AtTheDesk
  <2>1. UNCHANGED row
    BY <1>7 DEF AtTheDesk
  <2>2. /\ \A s : Stands(s)
        /\ \A a, u : None \in Lent(a, u)' <=> None \in Lent(a, u)
    BY <2>1 DEF Stands, Lent, IsLoan
  <2>3. ASSUME SlotsLast, NEW i, \A j \in Slots : j # i => slot'[j] = slot[j], Even(i, None, None)
        PROVE  Ledger'
    <3>1. \A s \in Requests : s # None
      BY LendingAssumption
    <3> QED BY <1>4, <2>2, <2>3, <3>1
  <2>4. CASE \E a \in Accessories \cap AtDesk, u \in Users :
                Assigned(a, u) /\ Count(other, a, u, 1) /\ UNCHANGED asset
    <3>1. PICK b \in Accessories, v \in Users : Assigned(b, v) /\ Count(other, b, v, 1)
      BY <2>4
    <3>2. PICK i \in Slots :
              /\ SlotsLast /\ \A j \in Slots : j # i => slot'[j] = slot[j]
              /\ \A p, q : i \notin Held(p, q) /\ (i \in Held(p, q)' <=> p = b /\ q = v)
      BY <1>1, <3>1, UnitLeaves
    <3>3. \A a \in Accessories, u \in Users :
             /\ other'[a][u] = other[a][u] + Cell(a, u, b, v, 1)
             /\ lost'[a][u] = lost[a][u]
      BY <1>1, <3>1, CountsUp
    <3>4. Even(i, None, None)
      BY <1>3, <1>5, <2>2, <3>2, <3>3 DEF Even, One, Cell
    <3> QED BY <2>3, <3>2, <3>4
  <2>5. CASE \E i \in Slots :
                /\ slot[i].state = "out" /\ slot[i].acc \in AtDesk /\ CheckedIn(i)
                /\ Count(other, slot[i].acc, slot[i].user, -1) /\ UNCHANGED asset
    <3>1. PICK i \in Slots :
                /\ slot[i].state = "out" /\ slot[i].acc \in AtDesk /\ CheckedIn(i)
                /\ Count(other, slot[i].acc, slot[i].user, -1)
      BY <2>5
    <3>2. slot[i].acc \in Accessories /\ slot[i].user \in Users \cup {None}
      BY <1>1, <3>1, LendingAssumption DEF SlotStates
    <3>3. /\ SlotsLast /\ \A j \in Slots : j # i => slot'[j] = slot[j]
          /\ \A p, q : (i \in Held(p, q) <=> p = slot[i].acc /\ q = slot[i].user)
                       /\ i \notin Held(p, q)'
      BY <1>1, <3>1, UnitComesBack
    <3>4. \A a \in Accessories, u \in Users :
             /\ other'[a][u] = other[a][u] + Cell(a, u, slot[i].acc, slot[i].user, -1)
             /\ lost'[a][u] = lost[a][u]
      BY <1>1, <3>1, <3>2, CountsUp
    <3>5. Even(i, None, None)
      BY <1>3, <1>5, <2>2, <3>3, <3>4 DEF Even, One, Cell
    <3> QED BY <2>3, <3>3, <3>5
  <2>6. CASE UNCHANGED <<slot, other>>
    <3>1. SlotsLast /\ \A a, u : None \notin Held(a, u) /\ None \notin Held(a, u)'
      BY <2>6, LendingAssumption DEF SlotsLast, Held
    <3>2. \A a \in Accessories, u \in Users :
             lost'[a][u] = lost[a][u] /\ other'[a][u] = other[a][u]
      BY <1>1, <2>6
    <3>3. Even(None, None, None)
      BY <1>3, <1>5, <2>2, <3>1, <3>2 DEF Even, One
    <3> QED BY <2>3, <2>6, <3>1, <3>3
  <2> QED BY <1>7, <2>4, <2>5, <2>6 DEF AtTheDesk
<1> QED BY <1>6, <1>7

LEMMA LedgerStep ==
    ASSUME ~Overlap, "saveAssigned" \notin FailAt, Ledger, [Next]_vars
    PROVE  Ledger'
<1>1. LendingInv'
  BY LendingStep DEF Ledger
<1>2. CASE UNCHANGED vars
  <2>1. UNCHANGED <<row, call, slot, other, lost>>
    BY <1>2 DEF vars, ghosts
  <2>2. /\ OneCallEach' /\ (\A r \in Requests : Unlent(r)') /\ \A c \in Calls : Minds(c)'
    BY <2>1 DEF Ledger, OneCallEach, Unlent, Minds
  <2>3. SnipeAgreesWithLoans'
    BY <2>1 DEF Ledger, SnipeAgreesWithLoans, Held, IsOut, Lent, IsLoan, Between, At, UserOf
  <2> QED BY <1>1, <2>2, <2>3 DEF Ledger
<1>3. ASSUME NEW c \in Calls, Step(c) PROVE Ledger'
  BY <1>1, <1>3, BeginningKeepsLedger, PassingKeepsLedger, SavingKeepsLedger, WritingKeepsLedger,
     FailKeepsLedger
  DEF Step
<1> QED BY <1>1, <1>2, <1>3, PeopleKeepLedger DEF Next

\* "RETURNED MEANS SNIPE AGREES", and so does lent, for any number of users, units,
\* loans and calls: as long as the calls about one request come one at a time and
\* none fails between a checkout that landed and the write that records it.
THEOREM SnipeAgrees ==
    ASSUME ~Overlap, "saveAssigned" \notin FailAt
    PROVE  Spec => []SnipeAgreesWithLoans
<1>1. Init => Ledger
  BY LedgerInit
<1>2. Ledger /\ [Next]_vars => Ledger'
  BY LedgerStep
<1>3. Ledger => SnipeAgreesWithLoans
  BY DEF Ledger
<1> QED BY <1>1, <1>2, <1>3, PTL DEF Spec
=============================================================================
