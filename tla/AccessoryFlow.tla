---------------------------- MODULE AccessoryFlow ----------------------------
(* Fulfilment of an accessory request: the administrator's standard approval;
   for a non-standard one the quote, selecting or creating the accessory record,
   topping up its stock, or handing the purchase to the requester and reviewing
   it (src/backend/src/services/request.ts, quote.ts, selfProcurement.ts), over
   the stock counters of Snipe-IT (snipeitaccessories.ts).                   *)
EXTENDS RequestStore, Route

CONSTANTS
    Stocked,   \* the accessory records Snipe-IT has before the portal makes any
    MaxQty     \* bound: units of one accessory

ASSUME AccessoryAssumption ==
    /\ Stocked \subseteq Accessories
    /\ MaxQty \in Nat \ {0}

VARIABLES
    acc,      \* the Snipe-IT accessories: their state, quantity, units checked out
    units,    \* how many units of an accessory are checked out for a request
    proc,     \* the status of the request's SelfProcuredDetail
    patch,    \* what a top-up read and is to add, locals of the call
    arrived,  \* how many units of an accessory were counted in, while known
    raced,    \* has a quantity been written between a top-up's read and its write?
    replaced  \* accessories whose link the review of a purchase has overwritten

snipe == <<acc, units, arrived, raced, replaced>>
vars == <<row, mr, call, queued, proc, patch, snipe>>

Procurements == {"NONE", "AWAITING_DETAILS", "AWAITING_REVIEW", "COMPLETED"}
Unborn == [state |-> "unborn", qty |-> 0, out |-> 0]
NoPatch == [before |-> 0, more |-> 0]

InventoryInit ==
    /\ \E qty \in [Stocked -> 0..1] :
          /\ acc = [a \in Accessories |->
                      IF a \in Stocked THEN [state |-> "live", qty |-> qty[a], out |-> 0]
                      ELSE Unborn]
          /\ arrived = [a \in Accessories |-> IF a \in Stocked THEN qty[a] ELSE 0]
    /\ units = [r \in Requests |-> [a \in Accessories |-> 0]]
    /\ proc = [r \in Requests |-> "NONE"]
    /\ patch = [c \in Calls |-> NoPatch]
    /\ raced = [a \in Accessories |-> FALSE]
    /\ replaced = {}

Init == StoreInit /\ InventoryInit

\* Some units are counted in; once two counts have raced, none is known.
CountIn(a, more, races) ==
    /\ raced' = [raced EXCEPT ![a] = @ \/ races]
    /\ arrived' = [arrived EXCEPT ![a] = IF raced'[a] THEN 0 ELSE @ + more]

IsLive(a) == acc[a].state = "live"
HasStock(a) == IsLive(a) /\ acc[a].out < acc[a].qty

(***************************************************************************)
(* Checking one unit out.  Snipe-IT refuses without stock, and unlike the  *)
(* hardware checkout every refusal makes the call throw.                   *)
(***************************************************************************)
AfterCheckout ==
    [checkoutStandard |-> "completeStandard", checkoutLinked |-> "completeLinked",
     checkoutReviewed |-> "linkReviewed"]

\* Mutant: a refusal in the body of a 200 passes for a receipt.
CheckoutAccessoryUnchecked(c) ==
    LET a == call[c].accessory IN
    /\ call[c].at \in DOMAIN AfterCheckout
    /\ IF HasStock(a)
       THEN /\ acc' = [acc EXCEPT ![a].out = @ + 1]
            /\ units' = [units EXCEPT ![call[c].req][a] = @ + 1]
       ELSE UNCHANGED <<acc, units>>
    /\ Goto(c, AfterCheckout[call[c].at])
    /\ UNCHANGED <<row, mr, queued, proc, patch, arrived, raced, replaced>>

CheckoutAccessory(c) ==
    LET a == call[c].accessory IN
    /\ call[c].at \in DOMAIN AfterCheckout
    /\ HasStock(a)
    /\ acc' = [acc EXCEPT ![a].out = @ + 1]
    /\ units' = [units EXCEPT ![call[c].req][a] = @ + 1]
    /\ Goto(c, AfterCheckout[call[c].at])
    /\ UNCHANGED <<row, mr, queued, proc, patch, arrived, raced, replaced>>

(***************************************************************************)
(* The administrator's approval of a standard request.  The record is      *)
(* resolved from a catalogue up to ten minutes old: any record it may have *)
(* listed, in stock now or not.                                            *)
(***************************************************************************)
ApproveStandard(c, r) ==
    /\ AwaitsStandardSignOff(r)
    /\ row[r].kind = "ACCESSORY"
    /\ Begin(c, r, Loaded("resolve", r))
    /\ UNCHANGED <<row, mr, queued, snipe, proc, patch>>

ResolveAccessory(c, a) ==
    /\ At(c, "resolve")
    /\ acc[a].state # "unborn"
    /\ Continue(c, [call[c] EXCEPT !.at = "checkoutStandard", !.accessory = a])
    /\ UNCHANGED <<row, mr, queued, snipe, proc, patch>>

CompleteStandard(c) ==
    LET r == call[c].req IN
    /\ At(c, "completeStandard")
    /\ row' = [row EXCEPT ![r].status = "COMPLETED", ![r].signedOff = TRUE]
    /\ Notify(r, "DEVICE_ASSIGNED")
    /\ Return(c)
    /\ UNCHANGED <<mr, snipe, proc, patch>>

(***************************************************************************)
(* The quote.                                                              *)
(***************************************************************************)
AwaitsQuote(r) ==
    /\ row[r].kind = "ACCESSORY" /\ row[r].type = "NON_STANDARD"
    /\ row[r].status = "APPROVED"
    /\ mr[r].status = "APPROVED" /\ mr[r].accessory = None
    /\ row[r].quote = "NONE" /\ ~row[r].quoteSkipped

CreateQuote(c, r) ==
    /\ AwaitsQuote(r)
    /\ Begin(c, r, Loaded("saveQuote", r))
    /\ UNCHANGED <<row, mr, queued, snipe, proc, patch>>

\* The quote of a request is unique: a second insert throws.
SaveQuote(c) ==
    LET r == call[c].req IN
    /\ At(c, "saveQuote")
    /\ row[r].quote = "NONE"
    /\ row' = [row EXCEPT ![r].quote = "SENT"]
    /\ Notify(r, "QUOTE_APPROVAL_NEEDED")
    /\ Return(c)
    /\ UNCHANGED <<mr, snipe, proc, patch>>

SkipQuote(c, r) ==
    /\ AwaitsQuote(r)
    /\ Begin(c, r, Loaded("saveSkip", r))
    /\ UNCHANGED <<row, mr, queued, snipe, proc, patch>>

SaveSkip(c) ==
    /\ At(c, "saveSkip")
    /\ row' = [row EXCEPT ![call[c].req].quoteSkipped = TRUE]
    /\ Return(c)
    /\ UNCHANGED <<mr, queued, snipe, proc, patch>>

AwaitsAnswer(r) == row[r].quote = "SENT" /\ row[r].status \notin Terminal

AnswerQuote(c, r, accepted) ==
    /\ AwaitsAnswer(r)
    /\ Begin(c, r, Loaded(IF accepted THEN "saveAccept" ELSE "saveQuoteRejection", r))
    /\ UNCHANGED <<row, mr, queued, snipe, proc, patch>>

SaveAccept(c) ==
    /\ At(c, "saveAccept")
    /\ row' = [row EXCEPT ![call[c].req].quote = "ACCEPTED"]
    /\ Return(c)
    /\ UNCHANGED <<mr, queued, snipe, proc, patch>>

SaveQuoteRejection(c) ==
    /\ At(c, "saveQuoteRejection")
    /\ row' = [row EXCEPT ![call[c].req].quote = "REJECTED"]
    /\ Goto(c, "rejectForQuote")
    /\ UNCHANGED <<mr, queued, snipe, proc, patch>>

\* rejectRequest reads the row afresh and throws when it is terminal.
RejectForQuote(c) ==
    /\ At(c, "rejectForQuote")
    /\ IF row[call[c].req].status \in Terminal THEN Return(c) ELSE Goto(c, "saveRejection")
    /\ UNCHANGED <<row, mr, queued, snipe, proc, patch>>

QuoteSettled(r) == row[r].quoteSkipped \/ row[r].quote = "ACCEPTED"

(***************************************************************************)
(* Selecting an accessory, or creating one.  The guard looks at the quote  *)
(* and at the link, not at whether the purchase was handed off.            *)
(***************************************************************************)
\* Mutant: a quote that was only sent is enough.
AwaitsSelectionOnceQuoted(r) ==
    /\ row[r].kind = "ACCESSORY" /\ row[r].status = "APPROVED"
    /\ mr[r].status = "APPROVED" /\ mr[r].accessory = None
    /\ row[r].type = "NON_STANDARD" => row[r].quoteSkipped \/ row[r].quote # "NONE"

AwaitsSelection(r) ==
    /\ row[r].kind = "ACCESSORY" /\ row[r].status = "APPROVED"
    /\ mr[r].status = "APPROVED" /\ mr[r].accessory = None
    /\ row[r].type = "NON_STANDARD" => QuoteSettled(r)

UseExistingAccessory(c, r, a) ==
    /\ AwaitsSelection(r)
    /\ Begin(c, r, [Loaded("readChosen", r) EXCEPT !.accessory = a])
    /\ UNCHANGED <<row, mr, queued, snipe, proc, patch>>

ReadChosen(c) ==
    /\ At(c, "readChosen")
    /\ IsLive(call[c].accessory)
    /\ Continue(c, [call[c] EXCEPT !.at = "linkChosen",
                                   !.flag = HasStock(call[c].accessory)])
    /\ UNCHANGED <<row, mr, queued, snipe, proc, patch>>

LinkAccessory(c) ==
    /\ StillThere(c)
    /\ mr' = [mr EXCEPT ![call[c].req].status = "COMPLETED",
                        ![call[c].req].accessory = call[c].accessory,
                        ![call[c].req].ready = call[c].flag]

LinkChosen(c) ==
    /\ At(c, "linkChosen")
    /\ LinkAccessory(c)
    /\ IF call[c].flag THEN Goto(c, "checkoutLinked") ELSE Return(c)
    /\ UNCHANGED <<row, queued, snipe, proc, patch>>

CompleteLinked(c) ==
    /\ At(c, "completeLinked")
    /\ SetStatus(call[c].req, "COMPLETED")
    /\ Notify(call[c].req, "DEVICE_ASSIGNED")
    /\ Return(c)
    /\ UNCHANGED <<mr, snipe, proc, patch>>

CreateNewAccessory(c, r) ==
    /\ AwaitsSelection(r)
    /\ Begin(c, r, Loaded("makeAccessory", r))
    /\ UNCHANGED <<row, mr, queued, snipe, proc, patch>>

AfterMake == [makeAccessory |-> "placeAccessory", makeReviewed |-> "placeReviewed"]
AfterPlace == [placeAccessory |-> "linkNew", placeReviewed |-> "checkoutReviewed"]

\* A record made at selection starts without units; one made for what a
\* requester bought holds that unit.
MakeAccessory(c, a) ==
    LET qty == IF At(c, "makeReviewed") THEN 1 ELSE 0 IN
    /\ call[c].at \in DOMAIN AfterMake
    /\ acc[a] = Unborn
    /\ acc' = [acc EXCEPT ![a] = [state |-> "live", qty |-> qty, out |-> 0]]
    /\ arrived' = [arrived EXCEPT ![a] = qty]
    /\ Continue(c, [call[c] EXCEPT !.at = AfterMake[call[c].at], !.accessory = a])
    /\ UNCHANGED <<row, mr, queued, units, proc, patch, raced, replaced>>

\* Snipe-IT drops the location on create: it is written by a PATCH that repeats
\* the quantity the record was made with.
PlaceAccessory(c) ==
    LET a == call[c].accessory
        qty == IF At(c, "placeReviewed") THEN 1 ELSE 0
    IN  /\ call[c].at \in DOMAIN AfterPlace
        /\ IsLive(a)
        /\ acc' = [acc EXCEPT ![a].qty = qty]
        /\ CountIn(a, 0, acc[a].qty # qty)
        /\ Goto(c, AfterPlace[call[c].at])
        /\ UNCHANGED <<row, mr, queued, units, proc, patch, replaced>>

LinkNew(c) ==
    /\ At(c, "linkNew")
    /\ LinkAccessory(c)
    /\ Return(c)
    /\ UNCHANGED <<row, queued, snipe, proc, patch>>

\* Mutant: only the PATCH of a new record is inside the try.
SetupFailsUncaught(c) ==
    /\ call[c].at \in {"placeAccessory", "linkNew", "placeReviewed", "checkoutReviewed"}
    /\ IF call[c].at \in DOMAIN AfterPlace THEN Goto(c, "discardAccessory") ELSE Return(c)
    /\ UNCHANGED <<row, mr, queued, snipe, proc, patch>>

\* Whatever throws after the record was made, short of the process dying.
SetupFails(c) ==
    /\ call[c].at \in {"placeAccessory", "linkNew", "placeReviewed", "checkoutReviewed"}
    /\ Goto(c, "discardAccessory")
    /\ UNCHANGED <<row, mr, queued, snipe, proc, patch>>

\* Snipe-IT refuses to delete a record with units checked out, and the refusal
\* is only logged.
DiscardAccessory(c) ==
    LET a == call[c].accessory IN
    /\ At(c, "discardAccessory")
    /\ acc' = IF acc[a].out = 0 THEN [acc EXCEPT ![a] = [@ EXCEPT !.state = "gone"]] ELSE acc
    /\ Return(c)
    /\ UNCHANGED <<row, mr, queued, units, arrived, raced, replaced, proc, patch>>

(***************************************************************************)
(* Adding the quantity that arrived, and fulfilment once there is stock.   *)
(***************************************************************************)
AwaitsStock(r) ==
    /\ row[r].kind = "ACCESSORY" /\ row[r].status = "APPROVED"
    /\ mr[r].status = "COMPLETED" /\ mr[r].accessory # None

AddStock(c, r) ==
    /\ AwaitsStock(r)
    /\ Begin(c, r, [Loaded("readStock", r) EXCEPT !.accessory = mr[r].accessory])
    /\ UNCHANGED <<row, mr, queued, snipe, proc, patch>>

\* Mutant: the quantity submitted is taken for the new total.
ReadStockAsTotal(c, more) ==
    /\ At(c, "readStock")
    /\ IsLive(call[c].accessory)
    /\ acc[call[c].accessory].qty + more <= MaxQty
    /\ IF more > 0
       THEN /\ patch' = [patch EXCEPT ![c] = [before |-> 0, more |-> more]]
            /\ Goto(c, "patchStock")
       ELSE Goto(c, "rereadStock") /\ UNCHANGED patch
    /\ UNCHANGED <<row, mr, queued, snipe, proc>>

\* `more` is what the administrator says has arrived; with 0 nothing is written.
ReadStock(c, more) ==
    LET before == acc[call[c].accessory].qty IN
    /\ At(c, "readStock")
    /\ IsLive(call[c].accessory)
    /\ before + more <= MaxQty
    /\ IF more > 0
       THEN /\ patch' = [patch EXCEPT ![c] = [before |-> before, more |-> more]]
            /\ Goto(c, "patchStock")
       ELSE Goto(c, "rereadStock") /\ UNCHANGED patch
    /\ UNCHANGED <<row, mr, queued, snipe, proc>>

\* Top-ups of the accessory that have read its quantity and not yet written it.
ToppingUp(a) == {c \in Calls : At(c, "patchStock") /\ call[c].accessory = a}

PatchStock(c) ==
    LET a == call[c].accessory IN
    /\ At(c, "patchStock")
    /\ IsLive(a)
    /\ acc' = [acc EXCEPT ![a].qty = patch[c].before + patch[c].more]
    /\ CountIn(a, patch[c].more, ToppingUp(a) # {c})
    /\ patch' = [patch EXCEPT ![c] = NoPatch]
    /\ Goto(c, "rereadStock")
    /\ UNCHANGED <<row, mr, queued, units, proc, replaced>>

RereadStock(c) ==
    /\ At(c, "rereadStock")
    /\ Continue(c, [call[c] EXCEPT !.at = "saveStock", !.flag = HasStock(call[c].accessory)])
    /\ UNCHANGED <<row, mr, queued, snipe, proc, patch>>

\* The row as the update returns it names the accessory that is checked out.
SaveStock(c) ==
    LET r == call[c].req IN
    /\ At(c, "saveStock")
    /\ StillThere(c)
    /\ mr' = [mr EXCEPT ![r].ready = call[c].flag]
    /\ IF call[c].flag
       THEN Continue(c, [call[c] EXCEPT !.at = "checkoutLinked", !.accessory = mr[r].accessory])
       ELSE Return(c)
    /\ UNCHANGED <<row, queued, snipe, proc, patch>>

(***************************************************************************)
(* Handing the purchase to the requester.                                  *)
(***************************************************************************)
AwaitsSourcing(r) ==
    /\ AwaitsSelection(r)
    /\ row[r].type = "NON_STANDARD"
    /\ proc[r] = "NONE"

MarkUserProcured(c, r) ==
    /\ AwaitsSourcing(r)
    /\ Begin(c, r, Loaded("saveMark", r))
    /\ UNCHANGED <<row, mr, queued, snipe, proc, patch>>

SaveMark(c) ==
    LET r == call[c].req IN
    /\ At(c, "saveMark")
    /\ proc[r] = "NONE"
    /\ proc' = [proc EXCEPT ![r] = "AWAITING_DETAILS"]
    /\ Notify(r, "SELF_PROCUREMENT_NEEDED")
    /\ Return(c)
    /\ UNCHANGED <<row, mr, snipe, patch>>

AwaitsDetails(r) == proc[r] = "AWAITING_DETAILS"

SubmitSelfProcuredDetails(c, r) ==
    /\ AwaitsDetails(r)
    /\ Begin(c, r, Loaded("saveSubmitted", r))
    /\ UNCHANGED <<row, mr, queued, snipe, proc, patch>>

SaveSubmitted(c) ==
    LET r == call[c].req IN
    /\ At(c, "saveSubmitted")
    /\ proc' = [proc EXCEPT ![r] = "AWAITING_REVIEW"]
    /\ Notify(r, "SELF_PROCUREMENT_SUBMITTED")
    /\ Return(c)
    /\ UNCHANGED <<row, mr, snipe, patch>>

\* The status of the request is not looked at.
AwaitsProcurementReview(r) == proc[r] = "AWAITING_REVIEW" /\ HasModelRequest(r)

ReviewSelfProcuredDetails(c, r, recordInSnipe) ==
    /\ AwaitsProcurementReview(r)
    /\ Begin(c, r, Loaded(IF recordInSnipe THEN "makeReviewed" ELSE "closeProcurement", r))
    /\ UNCHANGED <<row, mr, queued, snipe, proc, patch>>

LinkReviewed(c) ==
    LET r == call[c].req IN
    /\ At(c, "linkReviewed")
    /\ HasModelRequest(r)
    /\ mr' = [mr EXCEPT ![r].status = "COMPLETED", ![r].accessory = call[c].accessory,
                        ![r].ready = TRUE]
    /\ replaced' = replaced \cup ({mr[r].accessory} \ {None})
    /\ Goto(c, "closeProcurement")
    /\ UNCHANGED <<row, queued, acc, units, arrived, raced, proc, patch>>

\* Mutant: the request itself is not written.
CloseProcurementOnly(c) ==
    /\ At(c, "closeProcurement")
    /\ proc' = [proc EXCEPT ![call[c].req] = "COMPLETED"]
    /\ Return(c)
    /\ UNCHANGED <<row, mr, queued, snipe, patch>>

CloseProcurement(c) ==
    /\ At(c, "closeProcurement")
    /\ proc' = [proc EXCEPT ![call[c].req] = "COMPLETED"]
    /\ Goto(c, "completeReviewed")
    /\ UNCHANGED <<row, mr, queued, snipe, patch>>

CompleteReviewed(c) ==
    /\ At(c, "completeReviewed")
    /\ row' = [row EXCEPT ![call[c].req].status = "COMPLETED",
                          ![call[c].req].signedOff = TRUE]
    /\ Return(c)
    /\ UNCHANGED <<mr, queued, snipe, proc, patch>>

(***************************************************************************)
(* What people do in Snipe-IT itself: type in stock, hand a unit out.      *)
(***************************************************************************)
Restock(a) ==
    /\ IsLive(a) /\ acc[a].qty < MaxQty
    /\ acc' = [acc EXCEPT ![a].qty = @ + 1]
    /\ CountIn(a, 1, ToppingUp(a) # {})
    /\ UNCHANGED <<storeVars, units, proc, patch, replaced>>

HandOutUnit(a) ==
    /\ HasStock(a)
    /\ acc' = [acc EXCEPT ![a].out = @ + 1]
    /\ UNCHANGED <<storeVars, units, arrived, raced, replaced, proc, patch>>

AccessoryStep(c) ==
    \/ \E r \in Requests :
          \/ ApproveStandard(c, r)
          \/ CreateQuote(c, r)
          \/ SkipQuote(c, r)
          \/ \E accepted \in BOOLEAN : AnswerQuote(c, r, accepted)
          \/ \E a \in Accessories : UseExistingAccessory(c, r, a)
          \/ CreateNewAccessory(c, r)
          \/ AddStock(c, r)
          \/ MarkUserProcured(c, r)
          \/ SubmitSelfProcuredDetails(c, r)
          \/ \E recordInSnipe \in BOOLEAN : ReviewSelfProcuredDetails(c, r, recordInSnipe)
    \/ \E a \in Accessories : ResolveAccessory(c, a) \/ MakeAccessory(c, a)
    \/ \E more \in 0..MaxQty : ReadStock(c, more)
    \/ CheckoutAccessory(c)
    \/ CompleteStandard(c)
    \/ SaveQuote(c)
    \/ SaveSkip(c)
    \/ SaveAccept(c)
    \/ SaveQuoteRejection(c)
    \/ RejectForQuote(c)
    \/ ReadChosen(c)
    \/ LinkChosen(c)
    \/ CompleteLinked(c)
    \/ PlaceAccessory(c)
    \/ LinkNew(c)
    \/ SetupFails(c)
    \/ DiscardAccessory(c)
    \/ PatchStock(c)
    \/ RereadStock(c)
    \/ SaveStock(c)
    \/ SaveMark(c)
    \/ SaveSubmitted(c)
    \/ LinkReviewed(c)
    \/ CloseProcurement(c)
    \/ CompleteReviewed(c)

SharedStep(c) ==
    /\ StoreStep(c)
    /\ patch' = [patch EXCEPT ![c] = NoPatch]
    /\ UNCHANGED <<snipe, proc>>

SnipeStep == \E a \in Accessories : Restock(a) \/ HandOutUnit(a)

Next ==
    \/ \E c \in Calls : SharedStep(c) \/ AccessoryStep(c)
    \/ SnipeStep

Spec == Init /\ [][Next]_vars

AccessorySteps ==
    StoreSteps \cup
    {"resolve", "checkoutStandard", "completeStandard",
     "saveQuote", "saveSkip", "saveAccept", "saveQuoteRejection", "rejectForQuote",
     "readChosen", "linkChosen", "checkoutLinked", "completeLinked",
     "makeAccessory", "placeAccessory", "linkNew", "discardAccessory",
     "readStock", "patchStock", "rereadStock", "saveStock",
     "saveMark", "saveSubmitted", "makeReviewed", "placeReviewed",
     "checkoutReviewed", "linkReviewed", "closeProcurement", "completeReviewed"}

TypeOK ==
    /\ StoreTypeOK(AccessorySteps)
    /\ acc \in [Accessories -> [state : {"unborn", "live", "gone"}, qty : Nat, out : Nat]]
    /\ units \in [Requests -> [Accessories -> Nat]]
    /\ proc \in [Requests -> Procurements]
    /\ patch \in [Calls -> [before : Nat, more : Nat]]
    /\ arrived \in [Accessories -> Nat]
    /\ raced \in [Accessories -> BOOLEAN]
    /\ replaced \subseteq Accessories

(***************************************************************************)
(* Properties.                                                             *)
(***************************************************************************)
HasUnit(r) == \E a \in Accessories : units[r][a] > 0

Reviewing(r) ==
    \E c \in Calls : /\ call[c].req = r
                     /\ call[c].at \in {"makeReviewed", "placeReviewed", "checkoutReviewed",
                                       "discardAccessory", "linkReviewed",
                                       "closeProcurement", "completeReviewed"}

\* "nothing gets ordered before the manager has accepted the quoted price -
\* unless IT decided the cost was too trivial": no unit and no record stands
\* behind a non-standard request whose price nobody settled.
NoOrderBeforeQuote ==
    \A r \in Requests :
        row[r].type = "NON_STANDARD" /\ (HasUnit(r) \/ mr[r].accessory # None)
            => QuoteSettled(r)

\* "COMPLETED - an asset has been checked out to the user": behind a completed
\* request is a unit of an accessory, or a purchase IT has reviewed.
CompletedHasItem ==
    \A r \in Requests :
        row[r].status = "COMPLETED" => HasUnit(r) \/ proc[r] = "COMPLETED"

\* A request never takes a second unit out of stock, unless it was handed off
\* to be bought and IT selected an accessory all the same.
AtMostOneUnit ==
    \A r \in Requests : proc[r] = "NONE" =>
        \A a, b \in Accessories :
            /\ units[r][a] <= 1
            /\ units[r][a] > 0 /\ units[r][b] > 0 => a = b

\* A rejected request has no unit checked out to its user, but for the moment
\* in which the review of a purchase is about to complete it after all.
RejectedKeepsNothing ==
    \A r \in Requests :
        row[r].status = "REJECTED" => ~HasUnit(r) \/ Reviewing(r)

\* A reviewed purchase has completed its request: the three writes of the review
\* (link, purchase, request) never stop in between for good.
ReviewCompletesRequest ==
    \A r \in Requests :
        proc[r] = "COMPLETED" => row[r].status = "COMPLETED" \/ Reviewing(r)

\* A record the portal made and gave up on is deleted again: a live one is linked
\* to a request, has a unit out, or is in the hands of a call.  Only the review of
\* a purchase leaves one behind: it links its own record over the one IT selected
\* meanwhile, and nobody looks at that one again.
NoOrphanAccessories ==
    \A a \in Accessories \ Stocked : IsLive(a) =>
        \/ \E r \in Requests : mr[r].accessory = a
        \/ acc[a].out > 0
        \/ \E c \in Calls : call[c].accessory = a
        \/ a \in replaced

\* "PATCH current + arrived. Setting qty directly would wrongly lower the total
\* below what's already checked out": the quantity is what was counted in and
\* covers what is out, as long as no two writes of it raced.
StockIsWhatArrived ==
    \A a \in Accessories : ~raced[a] =>
        acc[a].qty = arrived[a] /\ acc[a].out <= acc[a].qty

\* COMPLETED and REJECTED are final, except that reviewing the purchase of a
\* request that was rejected meanwhile completes it.
OnlyReviewReopens ==
    [][\A r \in Requests :
          row[r].status \in Terminal /\ row'[r].status # row[r].status =>
             row[r].status = "REJECTED" /\ row'[r].status = "COMPLETED"
             /\ proc[r] = "COMPLETED"]_vars

(***************************************************************************)
(* What the web client makes of a row, with no call about it in flight.    *)
(***************************************************************************)
View(r) ==
    [FreshView EXCEPT
        !.kind = row[r].kind, !.type = row[r].type, !.status = row[r].status,
        !.approved = row[r].approved, !.signedOff = row[r].signedOff,
        !.quote = row[r].quote, !.quoteSkipped = row[r].quoteSkipped,
        !.proc = proc[r], !.mrStatus = mr[r].status,
        !.linked = mr[r].accessory # None]

\* Does the service accept the action of the step?
Accepts(r, step) ==
    CASE step = "mgr"      -> AwaitsManager(r) /\ (row[r].type = "NON_STANDARD" => ~HasModelRequest(r))
      [] step = "it"       -> AwaitsStandardSignOff(r) \/ AwaitsReview(r)
      [] step = "quote"    -> AwaitsQuote(r)
      [] step = "review"   -> AwaitsAnswer(r)
      [] step = "select"   -> AwaitsSelection(r)
      [] step = "stock"    -> AwaitsStock(r)
      [] step = "purchase" -> AwaitsDetails(r)
      [] step = "procrev"  -> AwaitsProcurementReview(r)
      [] OTHER -> FALSE

\* Edited into a non-standard request after its approval, so nothing drives it;
\* or its quote was rejected and the rejection of the request itself failed.
Stuck(r) ==
    \/ row[r].type = "NON_STANDARD" /\ ~HasModelRequest(r)
    \/ row[r].quote = "REJECTED"

Settled(r) == \A c \in Calls : call[c].req # r

InProgress(r) == row[r].status \in {"PENDING", "APPROVED"} /\ Settled(r)

\* "so the UI never offers what the API would refuse": the step the route names
\* is one the service takes, from whomever it is offered to, in every state the
\* operations can reach together.
OfferedStepIsAccepted ==
    \A r \in Requests :
        InProgress(r) /\ ~(row[r].status = "APPROVED" /\ Stuck(r))
            => /\ Accepts(r, CurrentStep(View(r)))
               /\ OnlyOfferedWhereAdmitted(View(r))

\* Stage and route are derived apart "so they cannot disagree": the badge of a
\* request in progress is that of the step the route says is next; and that route
\* lets anybody the request counts as waiting for act, being "wider than
\* needsMyAction on purpose".
BadgeMatchesStep ==
    \A r \in Requests :
        InProgress(r) /\ ~(row[r].status = "APPROVED" /\ Stuck(r)) => Agree(View(r))

\* What the client shows of a request in progress is true of the service.
ClientAgrees == OfferedStepIsAccepted /\ BadgeMatchesStep
=============================================================================
