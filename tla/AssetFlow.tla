------------------------------ MODULE AssetFlow ------------------------------
(* Fulfilment of a hardware request: the administrator's standard approval,
   choosing or creating a model for a non-standard one, filling in the asset's
   details, and the clean-up of models whose asset was deleted
   (src/backend/src/services/request.ts and snipeitassets.ts,
   jobs/handlers/cleanupOrphanSnipeModels.ts), over the Snipe-IT inventory they
   read and write.                                                           *)
EXTENDS RequestStore

CONSTANTS
    Catalogue,   \* the models Snipe-IT has before the portal creates any
    Stock,       \* the assets Snipe-IT has at first
    BodyErrors   \* does Snipe-IT answer a refused checkout with 200 and an error body?

ASSUME AssetAssumption ==
    /\ Catalogue \subseteq Models
    /\ Stock \subseteq Assets
    /\ {"nobody", "someone"} \cap Requests = {}
    /\ BodyErrors \in BOOLEAN

VARIABLES
    model,   \* where each Snipe-IT model comes from
    asset    \* the Snipe-IT hardware: condition, model, and who has it

inventory == <<model, asset>>
vars == <<row, mr, call, queued, model, asset>>

\* bare: not deployable.  partial: Ready to Deploy with a tier, other details
\* missing.  ready: everything isSnipeAssetComplete asks for.
Live == {"bare", "partial", "ready"}
Unborn == [cond |-> "unborn", model |-> None, holder |-> "nobody"]

Init ==
    /\ StoreInit
    /\ model = [m \in Models |-> IF m \in Catalogue THEN "catalogue" ELSE "unborn"]
    /\ \E home \in [Stock -> Catalogue], cond \in [Stock -> {"partial", "ready"}] :
          asset = [a \in Assets |->
                     IF a \in Stock
                     THEN [cond |-> cond[a], model |-> home[a], holder |-> "nobody"]
                     ELSE Unborn]

ModelExists(m) == model[m] \in {"catalogue", "ours"}
HasAssets(m) == \E a \in Assets : asset[a].cond \in Live /\ asset[a].model = m
Available(a) == asset[a].cond \in {"partial", "ready"} /\ asset[a].holder = "nobody"
IsSnipeAssetComplete(a) == asset[a].cond = "ready"

(***************************************************************************)
(* Checking out, shared by both fulfilments.  A refusal is an error answer,*)
(* and the call throws, or a 200 with an error body, which checkoutAsset   *)
(* returns as if it were a receipt.                                        *)
(***************************************************************************)
AfterCheckout ==
    [step \in {"checkoutStandard", "checkoutLinked"} |->
        IF step = "checkoutStandard" THEN "completeStandard" ELSE "completeLinked"]

\* Mutant: the answer is not looked at.
CheckoutAssetUnchecked(c) ==
    LET a == call[c].asset IN
    /\ call[c].at \in DOMAIN AfterCheckout
    /\ a \in Assets
    /\ asset' = IF Available(a) THEN [asset EXCEPT ![a].holder = call[c].req] ELSE asset
    /\ Goto(c, AfterCheckout[call[c].at])
    /\ UNCHANGED <<row, mr, queued, model>>

CheckoutAsset(c) ==
    LET a == call[c].asset IN
    /\ call[c].at \in DOMAIN AfterCheckout
    /\ a \in Assets
    /\ \/ /\ Available(a)
          /\ asset' = [asset EXCEPT ![a].holder = call[c].req]
       \/ /\ ~Available(a) /\ BodyErrors
          /\ UNCHANGED asset
    /\ Goto(c, AfterCheckout[call[c].at])
    /\ UNCHANGED <<row, mr, queued, model>>

(***************************************************************************)
(* The administrator's approval of a standard request picks, checks out    *)
(* and completes.  Which of the configured models is tried first is left   *)
(* open.                                                                   *)
(***************************************************************************)
ApproveStandard(c, r) ==
    /\ AwaitsStandardSignOff(r)
    /\ row[r].kind # "ACCESSORY"
    /\ Begin(c, r, Loaded("pickStandard", r))
    /\ UNCHANGED <<row, mr, queued, inventory>>

PickStandard(c, a) ==
    /\ At(c, "pickStandard")
    /\ Available(a)
    /\ Continue(c, [call[c] EXCEPT !.at = "checkoutStandard", !.asset = a])
    /\ UNCHANGED <<row, mr, queued, inventory>>

CompleteStandard(c) ==
    LET r == call[c].req IN
    /\ At(c, "completeStandard")
    /\ row' = [row EXCEPT ![r].status = "COMPLETED", ![r].signedOff = TRUE]
    /\ Notify(r, "DEVICE_ASSIGNED")
    /\ Return(c)
    /\ UNCHANGED <<mr, inventory>>

(***************************************************************************)
(* Row 3: choosing or creating the model.                                  *)
(***************************************************************************)
AwaitsModel(r) ==
    /\ row[r].status = "APPROVED"
    /\ mr[r].status = "APPROVED"
    /\ mr[r].asset = None

UseExistingModel(c, r, m) ==
    /\ AwaitsModel(r)
    /\ ModelExists(m)
    /\ Begin(c, r, [Loaded("findStock", r) EXCEPT !.model = m])
    /\ UNCHANGED <<row, mr, queued, inventory>>

\* Nothing in Snipe-IT records that the asset found is spoken for.
FindStock(c) ==
    LET stock == {a \in Assets : Available(a) /\ asset[a].model = call[c].model} IN
    /\ At(c, "findStock")
    /\ \/ \E a \in stock :
             Continue(c, [call[c] EXCEPT !.at = "probeStock", !.asset = a])
       \/ /\ stock = {}
          /\ Goto(c, "makeSkeleton")
    /\ UNCHANGED <<row, mr, queued, inventory>>

CreateNewModel(c, r) ==
    /\ AwaitsModel(r)
    /\ Begin(c, r, Loaded("makeModel", r))
    /\ UNCHANGED <<row, mr, queued, inventory>>

MakeModel(c, m) ==
    /\ At(c, "makeModel")
    /\ model[m] = "unborn"
    /\ model' = [model EXCEPT ![m] = "ours"]
    /\ Continue(c, [call[c] EXCEPT !.at = "makeFirstSkeleton", !.model = m])
    /\ UNCHANGED <<row, mr, queued, asset>>

AfterSkeleton ==
    [step \in {"makeSkeleton", "makeFirstSkeleton"} |->
        IF step = "makeSkeleton" THEN "linkSkeleton" ELSE "linkNewModel"]

PlaceSkeleton(a, m) ==
    /\ ModelExists(m)
    /\ asset[a] = Unborn
    /\ asset' = [asset EXCEPT ![a] = [cond |-> "bare", model |-> m, holder |-> "nobody"]]

MakeSkeleton(c, a) ==
    /\ call[c].at \in DOMAIN AfterSkeleton
    /\ PlaceSkeleton(a, call[c].model)
    /\ Continue(c, [call[c] EXCEPT !.at = AfterSkeleton[call[c].at], !.asset = a])
    /\ UNCHANGED <<row, mr, queued, model>>

\* The skeleton of a new model fails, or lands and the answer is lost: either
\* way the model is to be deleted again.
SkeletonFails(c) ==
    /\ At(c, "makeFirstSkeleton")
    /\ UNCHANGED asset \/ \E a \in Assets : PlaceSkeleton(a, call[c].model)
    /\ Goto(c, "rollbackModel")
    /\ UNCHANGED <<row, mr, queued, model>>

\* Snipe-IT refuses to delete a model that has assets.
DeleteModel(m) ==
    model' = IF ModelExists(m) /\ ~HasAssets(m) THEN [model EXCEPT ![m] = "gone"] ELSE model

\* Mutant: no compensation.
RollbackNothing(c) ==
    /\ At(c, "rollbackModel")
    /\ Return(c)
    /\ UNCHANGED <<row, mr, queued, inventory>>

RollbackModel(c) ==
    /\ At(c, "rollbackModel")
    /\ DeleteModel(call[c].model)
    /\ Return(c)
    /\ UNCHANGED <<row, mr, queued, asset>>

LinkModelRequest(c) ==
    LET r == call[c].req IN
    /\ call[c].at \in {"linkStock", "linkSkeleton", "linkNewModel"}
    /\ StillThere(c)
    /\ mr' = [mr EXCEPT ![r].status = "COMPLETED", ![r].model = call[c].model,
                        ![r].asset = call[c].asset,
                        ![r].ready = IF At(c, "linkNewModel") THEN @ ELSE call[c].flag]
    /\ Return(c)
    /\ UNCHANGED <<row, queued, inventory>>

(***************************************************************************)
(* Row 4: the asset's details, and fulfilment once they are complete.      *)
(***************************************************************************)
FillAssetDetails(c, r) ==
    /\ row[r].status = "APPROVED"
    /\ mr[r].status = "COMPLETED"
    /\ mr[r].asset # None
    /\ Begin(c, r, [Loaded("updateAsset", r) EXCEPT !.asset = mr[r].asset])
    /\ UNCHANGED <<row, mr, queued, inventory>>

UpdateSnipeAsset(c, cond) ==
    LET a == call[c].asset IN
    /\ At(c, "updateAsset")
    /\ asset[a].cond \in Live
    /\ asset' = [asset EXCEPT ![a].cond = cond]
    /\ Goto(c, "probeFilled")
    /\ UNCHANGED <<row, mr, queued, model>>

AfterProbe ==
    [step \in {"probeStock", "probeFilled"} |->
        IF step = "probeStock" THEN "linkStock" ELSE "saveReady"]

Probe(c) ==
    /\ call[c].at \in DOMAIN AfterProbe
    /\ Continue(c, [call[c] EXCEPT !.at = AfterProbe[call[c].at],
                                   !.flag = IsSnipeAssetComplete(call[c].asset)])
    /\ UNCHANGED <<row, mr, queued, inventory>>

\* Mutant: the user is told before the checkout.
SaveReadyTellingEarly(c) ==
    LET r == call[c].req IN
    /\ At(c, "saveReady")
    /\ StillThere(c)
    /\ mr' = [mr EXCEPT ![r].ready = call[c].flag]
    /\ IF call[c].flag
       THEN /\ Continue(c, [call[c] EXCEPT !.at = "checkoutLinked", !.asset = mr[r].asset])
            /\ Notify(r, "DEVICE_ASSIGNED")
       ELSE Return(c) /\ UNCHANGED queued
    /\ UNCHANGED <<row, inventory>>

\* The row as the update returns it names the asset the fulfilment checks out.
SaveReady(c) ==
    LET r == call[c].req IN
    /\ At(c, "saveReady")
    /\ StillThere(c)
    /\ mr' = [mr EXCEPT ![r].ready = call[c].flag]
    /\ IF call[c].flag
       THEN Continue(c, [call[c] EXCEPT !.at = "checkoutLinked", !.asset = mr[r].asset])
       ELSE Return(c)
    /\ UNCHANGED <<row, queued, inventory>>

CompleteLinked(c) ==
    LET r == call[c].req IN
    /\ At(c, "completeLinked")
    /\ SetStatus(r, "COMPLETED")
    /\ Notify(r, "DEVICE_ASSIGNED")
    /\ Return(c)
    /\ UNCHANGED <<mr, inventory>>

(***************************************************************************)
(* The orphan clean-up, one candidate at a time: asset gone, model empty,  *)
(* reject the request, delete the model.                                   *)
(***************************************************************************)
ConsiderOrphan(c, r) ==
    /\ row[r].status = "APPROVED"
    /\ mr[r].status = "COMPLETED" /\ mr[r].model # None /\ mr[r].asset # None
    /\ Begin(c, r, [Loaded("checkLive", r) EXCEPT !.model = mr[r].model,
                                                  !.asset = mr[r].asset])
    /\ UNCHANGED <<row, mr, queued, inventory>>

CheckLive(c) ==
    /\ At(c, "checkLive")
    /\ IF asset[call[c].asset].cond \in Live THEN Return(c) ELSE Goto(c, "checkModel")
    /\ UNCHANGED <<row, mr, queued, inventory>>

\* A dry run and the per-run cap also end here.
CheckModel(c) ==
    /\ At(c, "checkModel")
    /\ \/ ~HasAssets(call[c].model) /\ Goto(c, "rejectOrphan")
       \/ Return(c)
    /\ UNCHANGED <<row, mr, queued, inventory>>

\* rejectRequest reads the row afresh; a terminal one makes it throw.
RejectOrphan(c) ==
    /\ At(c, "rejectOrphan")
    /\ IF row[call[c].req].status \in Terminal
       THEN Return(c)
       ELSE Goto(c, "saveOrphanRejection")
    /\ UNCHANGED <<row, mr, queued, inventory>>

SaveOrphanRejection(c) ==
    /\ At(c, "saveOrphanRejection")
    /\ SetStatus(call[c].req, "REJECTED")
    /\ Notify(call[c].req, "REQUEST_REJECTED")
    /\ Goto(c, "deleteOrphanModel")
    /\ UNCHANGED <<mr, inventory>>

DeleteOrphanModel(c) ==
    /\ At(c, "deleteOrphanModel")
    /\ DeleteModel(call[c].model)
    /\ Return(c)
    /\ UNCHANGED <<row, mr, queued, asset>>

(***************************************************************************)
(* What people do in Snipe-IT itself: hand an asset out, delete one.       *)
(***************************************************************************)
HandOut(a) ==
    /\ Available(a)
    /\ asset' = [asset EXCEPT ![a].holder = "someone"]
    /\ UNCHANGED <<storeVars, model>>

DeleteAsset(a) ==
    /\ asset[a].cond \in Live /\ asset[a].holder = "nobody"
    /\ asset' = [asset EXCEPT ![a].cond = "gone"]
    /\ UNCHANGED <<storeVars, model>>

AssetStep(c) ==
    \/ \E r \in Requests :
          \/ ApproveStandard(c, r)
          \/ \E m \in Models : UseExistingModel(c, r, m)
          \/ CreateNewModel(c, r)
          \/ FillAssetDetails(c, r)
          \/ ConsiderOrphan(c, r)
    \/ \E a \in Assets : PickStandard(c, a) \/ MakeSkeleton(c, a)
    \/ \E m \in Models : MakeModel(c, m)
    \/ \E cond \in Live : UpdateSnipeAsset(c, cond)
    \/ CheckoutAsset(c)
    \/ CompleteStandard(c)
    \/ FindStock(c)
    \/ SkeletonFails(c)
    \/ RollbackModel(c)
    \/ LinkModelRequest(c)
    \/ Probe(c)
    \/ SaveReady(c)
    \/ CompleteLinked(c)
    \/ CheckLive(c)
    \/ CheckModel(c)
    \/ RejectOrphan(c)
    \/ SaveOrphanRejection(c)
    \/ DeleteOrphanModel(c)

SnipeStep == \E a \in Assets : HandOut(a) \/ DeleteAsset(a)

Next ==
    \/ \E c \in Calls : (StoreStep(c) /\ UNCHANGED inventory) \/ AssetStep(c)
    \/ SnipeStep

Spec == Init /\ [][Next]_vars

AssetSteps ==
    StoreSteps \cup
    {"pickStandard", "checkoutStandard", "completeStandard",
     "findStock", "probeStock", "linkStock", "makeSkeleton", "linkSkeleton",
     "makeModel", "makeFirstSkeleton", "rollbackModel", "linkNewModel",
     "updateAsset", "probeFilled", "saveReady", "checkoutLinked", "completeLinked",
     "checkLive", "checkModel", "rejectOrphan", "saveOrphanRejection",
     "deleteOrphanModel"}

TypeOK ==
    /\ StoreTypeOK(AssetSteps)
    /\ model \in [Models -> {"unborn", "catalogue", "ours", "gone"}]
    /\ asset \in [Assets -> [cond : Live \cup {"unborn", "gone"},
                             model : Models \cup {None},
                             holder : Requests \cup {"nobody", "someone"}]]

(***************************************************************************)
(* Properties.                                                             *)
(***************************************************************************)
HeldBy(r) == {a \in Assets : asset[a].holder = r}

\* No device leaves stock for a request its manager has not approved, whatever
\* calls overlap: checkouts happen at the administrator's approval and at the
\* completing asset-details submit only.
NoDeviceBeforeApproval == \A r \in Requests : HeldBy(r) # {} => row[r].approved

\* "COMPLETED - an asset has been checked out to the user": a completed request
\* holds a device, although the status is written several awaits after Snipe-IT
\* was asked.
CompletedHoldsDevice ==
    \A r \in Requests : row[r].status = "COMPLETED" => HeldBy(r) # {}

\* A request in the non-standard workflow holds no device but the one it is
\* linked to: edits between the two types never let both fulfilments act on it.
WorkflowHoldsOnlyItsLink ==
    \A r \in Requests : HasModelRequest(r) => HeldBy(r) \subseteq {mr[r].asset}

\* Edits and approvals in turn never leave a STANDARD request carrying the row
\* of a non-standard workflow (editRequest deletes it).
StandardCarriesNoWorkflow ==
    \A r \in Requests : row[r].type = "STANDARD" => ~HasModelRequest(r)

\* A request never takes a second device out of stock.
AtMostOneDevice ==
    \A r \in Requests : \A a, b \in HeldBy(r) : a = b

\* A rejected request has no device checked out to its user.
RejectedHoldsNothing ==
    \A r \in Requests : row[r].status = "REJECTED" => HeldBy(r) = {}

\* What the requester is told is how the request ended: the two outcome mails are
\* queued after the row is written and never contradict it or each other.
MailTellsOutcome ==
    \A r \in Requests :
        /\ <<r, "DEVICE_ASSIGNED">> \in queued => row[r].status = "COMPLETED"
        /\ <<r, "REQUEST_REJECTED">> \in queued => row[r].status = "REJECTED"

\* A model the portal created and gave up on is deleted again: one that has
\* never had an asset is still being built or rolled back by a call.
NoOrphanModels ==
    \A m \in Models : model[m] = "ours" =>
        \/ \E a \in Assets : asset[a].model = m
        \/ \E c \in Calls : /\ call[c].at \in {"makeFirstSkeleton", "rollbackModel"}
                            /\ call[c].model = m

\* The outer state of a request follows the promised life cycle, with COMPLETED
\* and REJECTED final, when the calls about one request do not overlap.
Outer == INSTANCE RequestStatus WITH status <- [r \in Requests |-> row[r].status]
FollowsRequestStatus == Outer!Spec

\* "a failed write can never leave an approved request with no ModelRequest to
\* drive the rest of the flow": editing an approved standard request into a
\* non-standard one does.
ApprovedHasDriver ==
    \A r \in Requests :
        row[r].status = "APPROVED" /\ row[r].type = "NON_STANDARD" => HasModelRequest(r)

\* The orphan clean-up "only ever considers models WE created": a model the
\* catalogue already had is never deleted.
CatalogueIsKept == \A m \in Catalogue : model[m] = "catalogue"
=============================================================================
