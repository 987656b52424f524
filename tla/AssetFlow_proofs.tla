--------------------------- MODULE AssetFlow_proofs --------------------------
(* Proofs about AssetFlow, for every set of requests, calls, models and assets:
   types, approval before any device, and the refinement of RequestStatus.   *)
EXTENDS AssetFlow, RequestStore_proofs

(***************************************************************************)
(* Types.  The inductive invariant is TypeOK and that a call in flight is  *)
(* about a request; each table is taken on its own.                        *)
(***************************************************************************)
ModelsTyped == model \in [Models -> {"unborn", "catalogue", "ours", "gone"}]
AssetsTyped ==
    asset \in [Assets -> [cond : Live \cup {"unborn", "gone"},
                          model : Models \cup {None},
                          holder : Requests \cup {"nobody", "someone"}]]

Typed == StoreTyped(AssetSteps) /\ ModelsTyped /\ AssetsTyped

LEMMA StepsNest == StoreSteps \subseteq AssetSteps
BY DEF AssetSteps

LEMMA CallTyped ==
    ASSUME Typed, NEW c \in Calls
    PROVE  /\ call[c].model \in Models \cup {None}
           /\ call[c].asset \in Assets \cup {None}
           /\ call[c].at # "idle" => call[c].req \in Requests
BY DEF Typed, StoreTyped, CallsTyped, CallsNamed, CallStates

\* A call that goes on with a new asset, model or flag among its local variables.
LEMMA LocalsTyped ==
    ASSUME Typed, NEW c \in Calls, call[c].at # "idle", NEW step \in AssetSteps,
           NEW m \in Models \cup {None}, NEW a \in Assets \cup {None}, NEW flag \in BOOLEAN
    PROVE  /\ Continue(c, [call[c] EXCEPT !.at = step, !.asset = a]) => CallsTyped(AssetSteps)'
           /\ Continue(c, [call[c] EXCEPT !.at = step, !.model = m]) => CallsTyped(AssetSteps)'
           /\ Continue(c, [call[c] EXCEPT !.at = step, !.flag = flag]) => CallsTyped(AssetSteps)'
<1>1. call[c] \in CallStates(AssetSteps) /\ call[c].req \in Requests
  BY DEF Typed, StoreTyped, CallsTyped, CallsNamed
<1>2. ASSUME NEW locals \in CallStates(AssetSteps), locals.req \in Requests, Continue(c, locals)
      PROVE  CallsTyped(AssetSteps)'
  BY <1>2, ContinueTyped DEF Typed, StoreTyped
<1>3. /\ [call[c] EXCEPT !.at = step, !.asset = a] \in CallStates(AssetSteps)
      /\ [call[c] EXCEPT !.at = step, !.model = m] \in CallStates(AssetSteps)
      /\ [call[c] EXCEPT !.at = step, !.flag = flag] \in CallStates(AssetSteps)
  BY <1>1 DEF CallStates
<1>4. /\ [call[c] EXCEPT !.at = step, !.asset = a].req \in Requests
      /\ [call[c] EXCEPT !.at = step, !.model = m].req \in Requests
      /\ [call[c] EXCEPT !.at = step, !.flag = flag].req \in Requests
  BY <1>1 DEF CallStates
<1> QED BY <1>2, <1>3, <1>4

LEMMA AssetStepTyped ==
    ASSUME Typed, NEW c \in Calls, AssetStep(c)
    PROVE  Typed'
<1> USE StepsNest, CallTyped
<1>1. ASSUME NEW r \in Requests,
             \/ ApproveStandard(c, r)
             \/ CreateNewModel(c, r)
      PROVE  Typed'
  <2>1. PICK step \in AssetSteps : Begin(c, r, Loaded(step, r))
    BY <1>1 DEF ApproveStandard, CreateNewModel, AssetSteps
  <2>2. CallsTyped(AssetSteps)'
    BY <2>1, LoadedTyped, BeginTyped DEF Typed, StoreTyped
  <2> QED
    BY <1>1, <2>2 DEF ApproveStandard, CreateNewModel, inventory, Typed, StoreTyped,
                      RowsTyped, WorkflowsTyped, QueueTyped, ModelsTyped, AssetsTyped
<1>2. ASSUME NEW r \in Requests, NEW m \in Models, UseExistingModel(c, r, m)
      PROVE  Typed'
  <2> DEFINE loaded == [Loaded("findStock", r) EXCEPT !.model = m]
  <2>1. loaded \in CallStates(AssetSteps) /\ loaded.req = r
    <3>1. /\ Loaded("findStock", r) \in CallStates(AssetSteps)
          /\ Loaded("findStock", r).req = r
      BY LoadedTyped DEF Typed, StoreTyped, AssetSteps
    <3> QED BY <3>1 DEF CallStates
  <2>2. Begin(c, r, loaded)
    BY <1>2 DEF UseExistingModel
  <2> HIDE DEF loaded
  <2>3. CallsTyped(AssetSteps)'
    BY <2>1, <2>2, BeginTyped DEF Typed, StoreTyped
  <2> QED
    BY <1>2, <2>3 DEF UseExistingModel, inventory, Typed, StoreTyped,
                      RowsTyped, WorkflowsTyped, QueueTyped, ModelsTyped, AssetsTyped
<1>3. ASSUME NEW r \in Requests, FillAssetDetails(c, r) \/ ConsiderOrphan(c, r)
      PROVE  Typed'
  <2>1. mr[r].model \in Models \cup {None} /\ mr[r].asset \in Assets \cup {None}
    BY DEF Typed, StoreTyped, WorkflowsTyped, ModelRequests
  <2>2. PICK loaded \in CallStates(AssetSteps) : loaded.req = r /\ Begin(c, r, loaded)
    <3>1. \A step \in AssetSteps : /\ Loaded(step, r) \in CallStates(AssetSteps)
                                  /\ Loaded(step, r).req = r
      BY LoadedTyped DEF Typed, StoreTyped
    <3>2. CASE FillAssetDetails(c, r)
      <4> DEFINE filled == [Loaded("updateAsset", r) EXCEPT !.asset = mr[r].asset]
      <4>1. filled \in CallStates(AssetSteps) /\ filled.req = r
        BY <2>1, <3>1 DEF CallStates, AssetSteps
      <4> QED BY <3>2, <4>1 DEF FillAssetDetails
    <3>3. CASE ConsiderOrphan(c, r)
      <4> DEFINE orphan == [Loaded("checkLive", r) EXCEPT !.model = mr[r].model,
                                                          !.asset = mr[r].asset]
      <4>1. orphan \in CallStates(AssetSteps) /\ orphan.req = r
        <5>1. /\ Loaded("checkLive", r) \in CallStates(AssetSteps)
              /\ Loaded("checkLive", r).req = r
          BY <3>1 DEF AssetSteps
        <5> QED BY <2>1, <5>1 DEF CallStates
      <4> QED BY <3>3, <4>1 DEF ConsiderOrphan
    <3> QED BY <1>3, <3>2, <3>3
  <2>4. CallsTyped(AssetSteps)'
    BY <2>2, BeginTyped DEF Typed, StoreTyped
  <2> QED
    BY <1>3, <2>4 DEF FillAssetDetails, ConsiderOrphan, inventory, Typed, StoreTyped,
                      RowsTyped, WorkflowsTyped, QueueTyped, ModelsTyped, AssetsTyped
<1>4. ASSUME NEW a \in Assets, PickStandard(c, a)
      PROVE  Typed'
  <2>1. CallsTyped(AssetSteps)'
    BY <1>4, LocalsTyped DEF PickStandard, At, AssetSteps
  <2> QED
    BY <1>4, <2>1 DEF PickStandard, inventory, Typed, StoreTyped,
                      RowsTyped, WorkflowsTyped, QueueTyped, ModelsTyped, AssetsTyped
<1>5. ASSUME NEW a \in Assets, MakeSkeleton(c, a)
      PROVE  Typed'
  <2>1. CallsTyped(AssetSteps)'
    <3>1. AfterSkeleton[call[c].at] \in AssetSteps /\ call[c].at # "idle"
      BY <1>5 DEF MakeSkeleton, AfterSkeleton, AssetSteps
    <3> QED BY <1>5, <3>1, LocalsTyped DEF MakeSkeleton
  <2>2. AssetsTyped'
    BY <1>5 DEF MakeSkeleton, PlaceSkeleton, Typed, AssetsTyped, Live
  <2> QED
    BY <1>5, <2>1, <2>2 DEF MakeSkeleton, Typed, StoreTyped,
                            RowsTyped, WorkflowsTyped, QueueTyped, ModelsTyped
<1>6. ASSUME NEW m \in Models, MakeModel(c, m)
      PROVE  Typed'
  <2>1. CallsTyped(AssetSteps)'
    BY <1>6, LocalsTyped DEF MakeModel, At, AssetSteps
  <2> QED
    BY <1>6, <2>1 DEF MakeModel, Typed, StoreTyped,
                      RowsTyped, WorkflowsTyped, QueueTyped, ModelsTyped, AssetsTyped
<1>7. ASSUME NEW cond \in Live, UpdateSnipeAsset(c, cond)
      PROVE  Typed'
  <2>1. CallsTyped(AssetSteps)'
    <3>1. "probeFilled" \in AssetSteps /\ call[c].at # "idle" /\ Goto(c, "probeFilled")
      BY <1>7 DEF UpdateSnipeAsset, At, AssetSteps
    <3> QED BY <3>1, GotoTyped DEF Typed, StoreTyped
  <2> QED
    BY <1>7, <2>1 DEF UpdateSnipeAsset, Typed, StoreTyped,
                      RowsTyped, WorkflowsTyped, QueueTyped, ModelsTyped, AssetsTyped
<1>8. ASSUME CheckoutAsset(c)
      PROVE  Typed'
  <2>1. CallsTyped(AssetSteps)'
    <3>1. /\ AfterCheckout[call[c].at] \in AssetSteps
          /\ call[c].at # "idle"
          /\ Goto(c, AfterCheckout[call[c].at])
      BY <1>8 DEF CheckoutAsset, AfterCheckout, AssetSteps
    <3> QED BY <3>1, GotoTyped DEF Typed, StoreTyped
  <2>2. AssetsTyped'
    BY <1>8 DEF CheckoutAsset, AfterCheckout, Typed, AssetsTyped
  <2> QED
    BY <1>8, <2>1, <2>2 DEF CheckoutAsset, Typed, StoreTyped,
                            RowsTyped, WorkflowsTyped, QueueTyped, ModelsTyped
<1>9. ASSUME CompleteStandard(c) \/ CompleteLinked(c)
      PROVE  Typed'
  <2> DEFINE r == call[c].req
  <2>1. r \in Requests
    BY <1>9 DEF CompleteStandard, CompleteLinked, At
  <2>2. CallsTyped(AssetSteps)' /\ QueueTyped'
    BY <1>9, <2>1, ReturnTyped, NotifyTyped
    DEF CompleteStandard, CompleteLinked, Notify, Typed, StoreTyped
  <2>3. RowsTyped'
    BY <1>9, <2>1
    DEF CompleteStandard, CompleteLinked, SetStatus, Typed, StoreTyped, RowsTyped, Rows, Statuses
  <2> QED
    BY <1>9, <2>2, <2>3 DEF CompleteStandard, CompleteLinked, inventory, Typed, StoreTyped,
                            WorkflowsTyped, ModelsTyped, AssetsTyped
<1>10. ASSUME FindStock(c)
       PROVE  Typed'
  <2>1. CallsTyped(AssetSteps)'
    <3>1. /\ call[c].at # "idle"
          /\ {"probeStock", "makeSkeleton"} \subseteq AssetSteps
          /\ \/ \E a \in Assets : Continue(c, [call[c] EXCEPT !.at = "probeStock", !.asset = a])
             \/ Goto(c, "makeSkeleton")
      BY <1>10 DEF FindStock, At, AssetSteps
    <3> QED BY <3>1, LocalsTyped, GotoTyped DEF Typed, StoreTyped
  <2> QED
    BY <1>10, <2>1 DEF FindStock, inventory, Typed, StoreTyped,
                       RowsTyped, WorkflowsTyped, QueueTyped, ModelsTyped, AssetsTyped
<1>11. ASSUME SkeletonFails(c)
       PROVE  Typed'
  <2>1. CallsTyped(AssetSteps)'
    <3>1. "rollbackModel" \in AssetSteps /\ call[c].at # "idle" /\ Goto(c, "rollbackModel")
      BY <1>11 DEF SkeletonFails, At, AssetSteps
    <3> QED BY <3>1, GotoTyped DEF Typed, StoreTyped
  <2>2. AssetsTyped'
    BY <1>11 DEF SkeletonFails, PlaceSkeleton, Typed, AssetsTyped, Live
  <2> QED
    BY <1>11, <2>1, <2>2 DEF SkeletonFails, Typed, StoreTyped,
                             RowsTyped, WorkflowsTyped, QueueTyped, ModelsTyped
<1>12. ASSUME RollbackModel(c) \/ DeleteOrphanModel(c)
       PROVE  Typed'
  <2>1. CallsTyped(AssetSteps)'
    BY <1>12, ReturnTyped DEF RollbackModel, DeleteOrphanModel, Typed, StoreTyped
  <2>2. ModelsTyped'
    BY <1>12 DEF RollbackModel, DeleteOrphanModel, DeleteModel, Typed, ModelsTyped
  <2> QED
    BY <1>12, <2>1, <2>2 DEF RollbackModel, DeleteOrphanModel, Typed, StoreTyped,
                             RowsTyped, WorkflowsTyped, QueueTyped, AssetsTyped
<1>13. ASSUME LinkModelRequest(c)
       PROVE  Typed'
  <2>1. CallsTyped(AssetSteps)'
    BY <1>13, ReturnTyped DEF LinkModelRequest, Typed, StoreTyped
  <2>2. call[c].flag \in BOOLEAN
    BY DEF Typed, StoreTyped, CallsTyped, CallStates
  <2>3. WorkflowsTyped'
    <3> DEFINE r == call[c].req
    <3>1. mr \in [Requests -> ModelRequests] /\ r \in Requests
      BY <1>13 DEF LinkModelRequest, Typed, StoreTyped, WorkflowsTyped
    <3>2. PICK ready \in BOOLEAN :
              mr' = [mr EXCEPT ![r].status = "COMPLETED", ![r].model = call[c].model,
                               ![r].asset = call[c].asset, ![r].ready = ready]
      <4>1. mr[r].ready \in BOOLEAN
        BY <3>1 DEF ModelRequests
      <4> QED BY <1>13, <2>2, <4>1 DEF LinkModelRequest
    <3>3. call[c].model \in Models \cup {None} /\ call[c].asset \in Assets \cup {None}
      OBVIOUS
    <3> HIDE DEF r
    <3> DEFINE linked == [mr[r] EXCEPT !.status = "COMPLETED", !.model = call[c].model,
                                       !.asset = call[c].asset, !.ready = ready]
    <3>4. linked \in ModelRequests
      BY <3>1, <3>3 DEF ModelRequests
    <3>5. mr' = [mr EXCEPT ![r] = linked]
      BY <3>1, <3>2
    <3> HIDE DEF linked
    <3> QED BY <3>1, <3>4, <3>5 DEF WorkflowsTyped
  <2> QED
    BY <1>13, <2>1, <2>3 DEF LinkModelRequest, inventory, Typed, StoreTyped,
                             RowsTyped, QueueTyped, ModelsTyped, AssetsTyped
<1>14. ASSUME Probe(c)
       PROVE  Typed'
  <2>1. CallsTyped(AssetSteps)'
    <3>1. AfterProbe[call[c].at] \in AssetSteps /\ call[c].at # "idle"
      BY <1>14 DEF Probe, AfterProbe, AssetSteps
    <3>2. IsSnipeAssetComplete(call[c].asset) \in BOOLEAN
      BY DEF IsSnipeAssetComplete
    <3> QED BY <1>14, <3>1, <3>2, LocalsTyped DEF Probe
  <2> QED
    BY <1>14, <2>1 DEF Probe, inventory, Typed, StoreTyped,
                       RowsTyped, WorkflowsTyped, QueueTyped, ModelsTyped, AssetsTyped
<1>15. ASSUME SaveReady(c)
       PROVE  Typed'
  <2>1. call[c].flag \in BOOLEAN /\ call[c].req \in Requests
    BY <1>15 DEF SaveReady, At, Typed, StoreTyped, CallsTyped, CallStates
  <2>2. mr[call[c].req].asset \in Assets \cup {None}
    BY <2>1 DEF Typed, StoreTyped, WorkflowsTyped, ModelRequests
  <2>3. CallsTyped(AssetSteps)'
    <3>1. CASE call[c].flag
      BY <1>15, <2>2, <3>1, LocalsTyped DEF SaveReady, At, AssetSteps
    <3>2. CASE ~call[c].flag
      BY <1>15, <3>2, ReturnTyped DEF SaveReady, Typed, StoreTyped
    <3> QED BY <3>1, <3>2
  <2>4. WorkflowsTyped'
    BY <1>15, <2>1 DEF SaveReady, Typed, StoreTyped, WorkflowsTyped, ModelRequests
  <2> QED
    BY <1>15, <2>3, <2>4 DEF SaveReady, inventory, Typed, StoreTyped,
                             RowsTyped, QueueTyped, ModelsTyped, AssetsTyped
<1>16. ASSUME CheckLive(c) \/ CheckModel(c) \/ RejectOrphan(c)
       PROVE  Typed'
  <2>1. \/ Return(c)
        \/ call[c].at # "idle" /\ \E step \in {"checkModel", "rejectOrphan", "saveOrphanRejection"} :
                                      Goto(c, step)
    BY <1>16 DEF CheckLive, CheckModel, RejectOrphan, At
  <2>2. CallsTyped(AssetSteps)'
    BY <2>1, ReturnTyped, GotoTyped DEF Typed, StoreTyped, AssetSteps
  <2> QED
    BY <1>16, <2>2 DEF CheckLive, CheckModel, RejectOrphan, inventory, Typed, StoreTyped,
                       RowsTyped, WorkflowsTyped, QueueTyped, ModelsTyped, AssetsTyped
<1>17. ASSUME SaveOrphanRejection(c)
       PROVE  Typed'
  <2>1. call[c].at # "idle" /\ call[c].req \in Requests /\ "deleteOrphanModel" \in AssetSteps
    BY <1>17 DEF SaveOrphanRejection, At, AssetSteps
  <2>2. CallsTyped(AssetSteps)' /\ QueueTyped'
    BY <1>17, <2>1, GotoTyped, NotifyTyped DEF SaveOrphanRejection, Notify, Typed, StoreTyped
  <2>3. RowsTyped'
    BY <1>17, <2>1 DEF SaveOrphanRejection, SetStatus, Typed, StoreTyped, RowsTyped, Rows, Statuses
  <2> QED
    BY <1>17, <2>2, <2>3 DEF SaveOrphanRejection, inventory, Typed, StoreTyped,
                             WorkflowsTyped, ModelsTyped, AssetsTyped
<1> QED
  BY <1>1, <1>2, <1>3, <1>4, <1>5, <1>6, <1>7, <1>8, <1>9, <1>10, <1>11, <1>12, <1>13,
     <1>14, <1>15, <1>16, <1>17
  DEF AssetStep

LEMMA InitTyped == Init => Typed
<1> SUFFICES ASSUME Init PROVE Typed
  OBVIOUS
<1>1. StoreTyped(AssetSteps)
  <2>1. Unfiled \in Rows
    BY DEF Unfiled, Rows, Statuses, QuoteStatuses
  <2>2. NoModelRequest \in ModelRequests
    BY DEF NoModelRequest, ModelRequests
  <2> QED
    BY <2>1, <2>2, IdleTyped, StepsNest
    DEF Init, StoreInit, StoreTyped, CallsTyped, CallsNamed, Idle, RowsTyped, WorkflowsTyped,
        QueueTyped
<1>2. ModelsTyped
  BY DEF Init, ModelsTyped
<1>3. AssetsTyped
  BY AssetAssumption DEF Init, Unborn, AssetsTyped, Live
<1> QED BY <1>1, <1>2, <1>3 DEF Typed

LEMMA NextTyped == Typed /\ [Next]_vars => Typed'
<1> SUFFICES ASSUME Typed, [Next]_vars PROVE Typed'
  OBVIOUS
<1>1. ASSUME NEW c \in Calls, StoreStep(c), UNCHANGED inventory
      PROVE  Typed'
  BY <1>1, StoreStepTyped, StepsNest DEF Typed, inventory, ModelsTyped, AssetsTyped
<1>2. ASSUME NEW c \in Calls, AssetStep(c)
      PROVE  Typed'
  BY <1>2, AssetStepTyped
<1>3. ASSUME NEW a \in Assets, HandOut(a) \/ DeleteAsset(a)
      PROVE  Typed'
  BY <1>3
  DEF HandOut, DeleteAsset, storeVars, Typed, StoreTyped, CallsTyped, CallsNamed, RowsTyped,
      WorkflowsTyped, QueueTyped, ModelsTyped, AssetsTyped
<1>4. CASE UNCHANGED vars
  BY <1>4
  DEF vars, Typed, StoreTyped, CallsTyped, CallsNamed, RowsTyped, WorkflowsTyped, QueueTyped,
      ModelsTyped, AssetsTyped
<1> QED BY <1>1, <1>2, <1>3, <1>4 DEF Next, SnipeStep

\* The tables keep their types in every instance: no interleaving of handlers
\* writes a row, a call or an asset the schema does not know.
THEOREM TypeCorrect == Spec => []TypeOK
<1>1. Typed => TypeOK
  BY DEF Typed, StoreTyped, CallsTyped, RowsTyped, WorkflowsTyped, QueueTyped, ModelsTyped,
         AssetsTyped, TypeOK, StoreTypeOK
<1>2. Spec => []Typed
  BY InitTyped, NextTyped, PTL DEF Spec
<1> QED BY <1>1, <1>2, PTL

(***************************************************************************)
(* No device before approval.  The approval stamp is never taken back, and *)
(* a call of the fulfilment flow is only begun for a request that has it.  *)
(***************************************************************************)
Approvals ==
    /\ \A r \in Requests : row[r].status = "APPROVED" => row[r].approved
    /\ \A r \in Requests : row[r].status = "NONE" => ~row[r].approved
    /\ \A c \in Calls : call[c].at \notin StoreSteps => row[call[c].req].approved

\* What a step of the fulfilment flow does to the calls.
LEMMA AssetCalls ==
    ASSUME Typed, NEW c \in Calls, AssetStep(c)
    PROVE  /\ \A d \in Calls : d # c => call'[d] = call[d]
           /\ \/ call'[c] = Idle
              \/ /\ call[c].at \notin StoreSteps
                 /\ call'[c].req = call[c].req
              \/ \E r \in Requests : row[r].status = "APPROVED" /\ call'[c].req = r
<1>1. call \in [Calls -> CallStates(AssetSteps)] /\ call[c] \in CallStates(AssetSteps)
  BY DEF Typed, StoreTyped, CallsTyped
<1>2. CASE \E r \in Requests :
               \/ ApproveStandard(c, r)
               \/ \E m \in Models : UseExistingModel(c, r, m)
               \/ CreateNewModel(c, r)
               \/ FillAssetDetails(c, r)
               \/ ConsiderOrphan(c, r)
  <2>1. PICK r \in Requests : \/ ApproveStandard(c, r)
                              \/ \E m \in Models : UseExistingModel(c, r, m)
                              \/ CreateNewModel(c, r)
                              \/ FillAssetDetails(c, r)
                              \/ ConsiderOrphan(c, r)
    BY <1>2
  <2>2. row[r].status = "APPROVED"
    BY <2>1
    DEF ApproveStandard, UseExistingModel, CreateNewModel, FillAssetDetails, ConsiderOrphan,
        AwaitsStandardSignOff, AwaitsModel
  <2>3. \A step : Loaded(step, r).req = r
    BY DEF Loaded, Idle
  <2>4. \A step, m, a :
          /\ [Loaded(step, r) EXCEPT !.model = m].req = r
          /\ [Loaded(step, r) EXCEPT !.asset = a].req = r
          /\ [Loaded(step, r) EXCEPT !.model = m, !.asset = a].req = r
    BY DEF Loaded, Idle
  <2> DEFINE Moved == /\ \A d \in Calls : d # c => call'[d] = call[d]
                      /\ call'[c].req = r
  <2>5. ApproveStandard(c, r) => Moved
    BY <1>1, <2>3 DEF ApproveStandard, Begin
  <2>6. CreateNewModel(c, r) => Moved
    BY <1>1, <2>3 DEF CreateNewModel, Begin
  <2>7. ASSUME NEW m \in Models, UseExistingModel(c, r, m) PROVE Moved
    BY <1>1, <2>4, <2>7 DEF UseExistingModel, Begin
  <2>8. FillAssetDetails(c, r) => Moved
    BY <1>1, <2>4 DEF FillAssetDetails, Begin
  <2>9. ConsiderOrphan(c, r) => Moved
    BY <1>1, <2>4 DEF ConsiderOrphan, Begin
  <2> QED BY <2>1, <2>2, <2>5, <2>6, <2>7, <2>8, <2>9
<1>3. CASE \/ \E a \in Assets : PickStandard(c, a) \/ MakeSkeleton(c, a)
           \/ \E m \in Models : MakeModel(c, m)
           \/ FindStock(c)
           \/ Probe(c)
           \/ SaveReady(c)
  <2>1. call[c].at \notin StoreSteps
    BY <1>3
    DEF PickStandard, MakeSkeleton, MakeModel, FindStock, Probe, SaveReady, At, AfterSkeleton,
        AfterProbe, StoreSteps
  <2>2. \/ Return(c)
        \/ \E step : Goto(c, step)
        \/ \E step, a : Continue(c, [call[c] EXCEPT !.at = step, !.asset = a])
        \/ \E step, m : Continue(c, [call[c] EXCEPT !.at = step, !.model = m])
        \/ \E step, flag : Continue(c, [call[c] EXCEPT !.at = step, !.flag = flag])
    BY <1>3 DEF PickStandard, MakeSkeleton, MakeModel, FindStock, Probe, SaveReady
  <2> QED
    BY <1>1, <2>1, <2>2 DEF Continue, Goto, Return, CallStates
<1>4. CASE \/ \E cond \in Live : UpdateSnipeAsset(c, cond)
           \/ CheckoutAsset(c)
           \/ SkeletonFails(c)
           \/ CheckLive(c) \/ CheckModel(c) \/ RejectOrphan(c) \/ SaveOrphanRejection(c)
  <2>1. call[c].at \notin StoreSteps
    BY <1>4
    DEF UpdateSnipeAsset, CheckoutAsset, SkeletonFails, CheckLive, CheckModel, RejectOrphan,
        SaveOrphanRejection, At, AfterCheckout, StoreSteps
  <2>2. Return(c) \/ \E step : Goto(c, step)
    BY <1>4
    DEF UpdateSnipeAsset, CheckoutAsset, SkeletonFails, CheckLive, CheckModel, RejectOrphan,
        SaveOrphanRejection
  <2> QED
    BY <1>1, <2>1, <2>2 DEF Goto, Return, CallStates
<1>5. CASE \/ CompleteStandard(c) \/ CompleteLinked(c) \/ LinkModelRequest(c)
           \/ RollbackModel(c) \/ DeleteOrphanModel(c)
  BY <1>1, <1>5
  DEF CompleteStandard, CompleteLinked, LinkModelRequest, RollbackModel, DeleteOrphanModel, Return
<1> QED BY <1>2, <1>3, <1>4, <1>5 DEF AssetStep

\* What a step of the fulfilment flow does to the row of a request.
LEMMA AssetRows ==
    ASSUME Typed, NEW c \in Calls, AssetStep(c), NEW r \in Requests
    PROVE  /\ row'[r].approved = row[r].approved
           /\ row'[r].type = row[r].type
           /\ \/ row'[r].status = row[r].status
              \/ /\ call[c].req = r
                 /\ \/ /\ call[c].at \in {"completeStandard", "completeLinked"}
                       /\ row'[r].status = "COMPLETED"
                    \/ /\ call[c].at = "saveOrphanRejection"
                       /\ row'[r].status = "REJECTED"
<1>1. row \in [Requests -> Rows] /\ row[r] \in Rows
  BY DEF Typed, StoreTyped, RowsTyped
<1>2. CASE CompleteStandard(c)
  <2>1. row' = [row EXCEPT ![call[c].req].status = "COMPLETED", ![call[c].req].signedOff = TRUE]
    BY <1>2 DEF CompleteStandard
  <2> QED BY <1>1, <1>2, <2>1 DEF CompleteStandard, At, Rows
<1>3. CASE CompleteLinked(c)
  BY <1>1, <1>3 DEF CompleteLinked, At, SetStatus, Rows
<1>4. CASE SaveOrphanRejection(c)
  BY <1>1, <1>4 DEF SaveOrphanRejection, At, SetStatus, Rows
<1>5. CASE ~(CompleteStandard(c) \/ CompleteLinked(c) \/ SaveOrphanRejection(c))
  <2>1. row' = row
    BY <1>5
    DEF AssetStep, ApproveStandard, UseExistingModel, CreateNewModel, FillAssetDetails,
        ConsiderOrphan, PickStandard, MakeSkeleton, MakeModel, UpdateSnipeAsset, CheckoutAsset,
        FindStock, SkeletonFails, RollbackModel, LinkModelRequest, Probe, SaveReady, CheckLive,
        CheckModel, RejectOrphan, DeleteOrphanModel
  <2> QED BY <2>1
<1> QED BY <1>2, <1>3, <1>4, <1>5

\* What a shared handler does to the calls.
LEMMA StoreCalls ==
    ASSUME Typed, NEW c \in Calls, StoreStep(c)
    PROVE  /\ \A d \in Calls : d # c => call'[d] = call[d]
           /\ call'[c] = call[c] \/ call'[c].at \in StoreSteps
<1>1. call \in [Calls -> CallStates(AssetSteps)]
  BY DEF Typed, StoreTyped, CallsTyped
<1>2. \A step, r, kind, type, flag :
        /\ Loaded(step, r).at = step
        /\ [Loaded(step, r) EXCEPT !.kind = kind, !.type = type, !.flag = flag].at = step
  BY DEF Loaded, Idle
<1>3. ASSUME NEW r \in Requests, NEW kind \in Kinds, NEW type \in Types, NEW auto \in BOOLEAN,
             CreateRequest(c, r, kind, type, auto)
      PROVE  /\ \A d \in Calls : d # c => call'[d] = call[d]
             /\ call'[c] = call[c] \/ call'[c].at \in StoreSteps
  <2>1. call' = call \/ Begin(c, r, Loaded(ApprovalStep(type), r))
    BY <1>3 DEF CreateRequest
  <2>2. ApprovalStep(type) \in StoreSteps
    BY DEF ApprovalStep, StoreSteps
  <2> QED BY <1>1, <1>2, <2>1, <2>2 DEF Begin
<1>6. ASSUME NEW r \in Requests, NEW kind \in Kinds, NEW type \in Types, NEW flag \in BOOLEAN,
             EditRequest(c, r, kind, type, flag)
      PROVE  /\ \A d \in Calls : d # c => call'[d] = call[d]
             /\ call'[c].at \in StoreSteps
  BY <1>1, <1>2, <1>6 DEF EditRequest, Begin, StoreSteps
<1>4. ASSUME NEW r \in Requests, ApproveRequest(c, r) \/ ReviewRequest(c, r) \/ RejectRequest(c, r)
      PROVE  /\ \A d \in Calls : d # c => call'[d] = call[d]
             /\ call'[c].at \in StoreSteps
  BY <1>1, <1>2, <1>4
  DEF ApproveRequest, ReviewRequest, RejectRequest, Begin, ApprovalStep, StoreSteps
<1>5. ASSUME \/ HandleStandardApproval(c) \/ HandleNonStandardApproval(c)
             \/ HandleAdminNonStandardApproval(c) \/ SaveEdit(c) \/ SaveRejection(c) \/ Fail(c)
      PROVE  /\ \A d \in Calls : d # c => call'[d] = call[d]
             /\ call'[c].at \in StoreSteps
  BY <1>1, <1>5
  DEF HandleStandardApproval, HandleNonStandardApproval, HandleAdminNonStandardApproval,
      SaveEdit, SaveRejection, Fail, Return, Idle, StoreSteps
<1> QED BY <1>3, <1>4, <1>5, <1>6 DEF StoreStep

\* What a shared handler does to the row of a request.
LEMMA StoreRows ==
    ASSUME Typed, NEW c \in Calls, StoreStep(c), NEW r \in Requests
    PROVE  \/ /\ row'[r].approved = row[r].approved
              /\ \/ row'[r].status = row[r].status
                 \/ row'[r].status = "REJECTED"
           \/ row'[r].approved /\ row'[r].status = "APPROVED"
           \/ row[r].status = "NONE" /\ row'[r].status = "PENDING" /\ ~row'[r].approved
<1>1. row \in [Requests -> Rows] /\ row[r] \in Rows
  BY DEF Typed, StoreTyped, RowsTyped
<1>2. ASSUME NEW q \in Requests, NEW kind \in Kinds, NEW type \in Types, NEW auto \in BOOLEAN,
             CreateRequest(c, q, kind, type, auto)
      PROVE  \/ row'[r] = row[r]
             \/ row[r].status = "NONE" /\ row'[r].status = "PENDING" /\ ~row'[r].approved
  BY <1>1, <1>2 DEF CreateRequest, Unfiled
<1>3. CASE HandleStandardApproval(c) \/ HandleNonStandardApproval(c)
  <2>1. row' = [row EXCEPT ![call[c].req].status = "APPROVED", ![call[c].req].approved = TRUE]
    BY <1>3 DEF HandleStandardApproval, HandleNonStandardApproval, RecordApproval
  <2> QED BY <1>1, <2>1 DEF Rows
<1>4. CASE HandleAdminNonStandardApproval(c)
  BY <1>1, <1>4 DEF HandleAdminNonStandardApproval, Rows
<1>5. CASE SaveEdit(c)
  <2>1. row' = [row EXCEPT ![call[c].req].kind = call[c].kind, ![call[c].req].type = call[c].type]
    BY <1>5 DEF SaveEdit
  <2> QED BY <1>1, <2>1 DEF Rows
<1>6. CASE SaveRejection(c)
  BY <1>1, <1>6 DEF SaveRejection, SetStatus, Rows
<1>7. ASSUME NEW q \in Requests, NEW kind \in Kinds, NEW type \in Types,
             \/ \E flag \in BOOLEAN : EditRequest(c, q, kind, type, flag)
             \/ ApproveRequest(c, q) \/ ReviewRequest(c, q) \/ RejectRequest(c, q)
             \/ Fail(c)
      PROVE  row' = row
  BY <1>7 DEF EditRequest, ApproveRequest, ReviewRequest, RejectRequest, Fail
<1>8. CASE Fail(c) \/ \E q \in Requests :
                          ApproveRequest(c, q) \/ ReviewRequest(c, q) \/ RejectRequest(c, q)
  BY <1>8 DEF ApproveRequest, ReviewRequest, RejectRequest, Fail
<1> QED BY <1>2, <1>3, <1>4, <1>5, <1>6, <1>7, <1>8 DEF StoreStep

\* Nothing in the model takes a device back: what a request holds it keeps, and it
\* comes to hold a device only when one of its calls checks it out.
LEMMA Holders ==
    ASSUME Typed, [Next]_vars, NEW a \in Assets, NEW r \in Requests
    PROVE  /\ asset[a].holder = r => asset'[a].holder = r
           /\ asset'[a].holder = r =>
                 \/ asset[a].holder = r
                 \/ \E c \in Calls : CheckoutAsset(c) /\ call[c].req = r
<1>1. /\ "nobody" \notin Requests /\ "someone" \notin Requests
      /\ asset \in [Assets -> [cond : Live \cup {"unborn", "gone"}, model : Models \cup {None},
                               holder : Requests \cup {"nobody", "someone"}]]
  BY AssetAssumption DEF Typed, AssetsTyped
<1>2. ASSUME NEW c \in Calls, CheckoutAsset(c)
      PROVE  /\ asset[a].holder = r => asset'[a].holder = r
             /\ asset'[a].holder = r => asset[a].holder = r \/ call[c].req = r
  BY <1>1, <1>2 DEF CheckoutAsset, Available
<1>3. ASSUME NEW c \in Calls, NEW b \in Assets, NEW m, PlaceSkeleton(b, m)
      PROVE  asset'[a].holder = r <=> asset[a].holder = r
  BY <1>1, <1>3 DEF PlaceSkeleton, Unborn
<1>4. ASSUME NEW c \in Calls, NEW cond \in Live, UpdateSnipeAsset(c, cond)
      PROVE  asset'[a].holder = r <=> asset[a].holder = r
  BY <1>1, <1>4 DEF UpdateSnipeAsset
<1>5. ASSUME NEW b \in Assets, HandOut(b) \/ DeleteAsset(b)
      PROVE  asset'[a].holder = r <=> asset[a].holder = r
  BY <1>1, <1>5 DEF HandOut, DeleteAsset, Available
<1>6. ASSUME NEW c \in Calls, AssetStep(c), ~CheckoutAsset(c)
      PROVE  asset'[a].holder = r <=> asset[a].holder = r
  <2>1. \/ UNCHANGED asset
        \/ \E b \in Assets : \E m : PlaceSkeleton(b, m)
        \/ \E cond \in Live : UpdateSnipeAsset(c, cond)
    BY <1>6
    DEF AssetStep, ApproveStandard, UseExistingModel, CreateNewModel, FillAssetDetails,
        ConsiderOrphan, PickStandard, MakeSkeleton, MakeModel, CompleteStandard,
        CompleteLinked, FindStock, SkeletonFails, RollbackModel, LinkModelRequest, Probe,
        SaveReady, CheckLive, CheckModel, RejectOrphan, SaveOrphanRejection, DeleteOrphanModel,
        inventory
  <2> QED BY <1>3, <1>4, <2>1
<1>7. ASSUME UNCHANGED vars \/ UNCHANGED inventory
      PROVE  asset'[a].holder = r <=> asset[a].holder = r
  BY <1>7 DEF vars, inventory
<1> QED BY <1>2, <1>5, <1>6, <1>7 DEF Next, SnipeStep

ApprovalInv == Typed /\ Approvals /\ NoDeviceBeforeApproval

LEMMA ApprovalNext == ApprovalInv /\ [Next]_vars => ApprovalInv'
<1> SUFFICES ASSUME ApprovalInv, [Next]_vars PROVE ApprovalInv'
  OBVIOUS
<1>0. Typed /\ Typed'
  BY NextTyped DEF ApprovalInv
<1>1. row \in [Requests -> Rows] /\ call \in [Calls -> CallStates(AssetSteps)]
  BY <1>0 DEF Typed, StoreTyped, RowsTyped, CallsTyped
<1>2. \A c \in Calls : call[c].at \notin StoreSteps => call[c].req \in Requests
  BY <1>0, CallTyped DEF StoreSteps
<1>3. \A r \in Requests : row[r].approved => row'[r].approved
  <2>1. ASSUME NEW c \in Calls, StoreStep(c), NEW r \in Requests, row[r].approved
        PROVE  row'[r].approved
    <3>1. row[r].status # "NONE"
      BY <2>1 DEF ApprovalInv, Approvals
    <3> QED BY <1>0, <2>1, <3>1, StoreRows
  <2>2. ASSUME NEW c \in Calls, AssetStep(c), NEW r \in Requests, row[r].approved
        PROVE  row'[r].approved
    BY <1>0, <2>2, AssetRows
  <2>3. UNCHANGED row \/ \E c \in Calls : StoreStep(c) \/ AssetStep(c)
    BY DEF ApprovalInv, Next, SnipeStep, HandOut, DeleteAsset, storeVars, vars
  <2> QED BY <2>1, <2>2, <2>3
<1>4. \A r \in Requests : /\ row'[r].status = "APPROVED" => row'[r].approved
                          /\ row'[r].status = "NONE" => ~row'[r].approved
  <2>1. ASSUME NEW c \in Calls, StoreStep(c), NEW r \in Requests
        PROVE  /\ row'[r].status = "APPROVED" => row'[r].approved
               /\ row'[r].status = "NONE" => ~row'[r].approved
    BY <1>0, <2>1, StoreRows DEF ApprovalInv, Approvals
  <2>2. ASSUME NEW c \in Calls, AssetStep(c), NEW r \in Requests
        PROVE  /\ row'[r].status = "APPROVED" => row'[r].approved
               /\ row'[r].status = "NONE" => ~row'[r].approved
    BY <1>0, <2>2, AssetRows DEF ApprovalInv, Approvals
  <2>3. UNCHANGED row \/ \E c \in Calls : StoreStep(c) \/ AssetStep(c)
    BY DEF ApprovalInv, Next, SnipeStep, HandOut, DeleteAsset, storeVars, vars
  <2> QED BY <2>1, <2>2, <2>3 DEF ApprovalInv, Approvals
<1>5. ASSUME NEW d \in Calls, call'[d].at \notin StoreSteps
      PROVE  row'[call'[d].req].approved
  <2>1. ASSUME NEW c \in Calls, StoreStep(c)
        PROVE  row'[call'[d].req].approved
    <3>1. call'[d] = call[d]
      BY <1>0, <1>5, <2>1, StoreCalls
    <3> QED BY <1>2, <1>3, <1>5, <3>1 DEF ApprovalInv, Approvals
  <2>2. ASSUME NEW c \in Calls, AssetStep(c)
        PROVE  row'[call'[d].req].approved
    <3>1. \/ call[d].at \notin StoreSteps /\ call'[d].req = call[d].req
          \/ \E r \in Requests : row[r].status = "APPROVED" /\ call'[d].req = r
      <4>1. call'[d] # Idle
        BY <1>5 DEF Idle, StoreSteps
      <4> QED BY <1>0, <1>5, <2>2, <4>1, AssetCalls
    <3> QED BY <1>2, <1>3, <3>1 DEF ApprovalInv, Approvals
  <2>3. CASE UNCHANGED <<row, call>>
    BY <1>5, <2>3 DEF ApprovalInv, Approvals
  <2>4. UNCHANGED <<row, call>> \/ \E c \in Calls : StoreStep(c) \/ AssetStep(c)
    BY DEF ApprovalInv, Next, SnipeStep, HandOut, DeleteAsset, storeVars, vars
  <2> QED BY <2>1, <2>2, <2>3, <2>4
<1>6. NoDeviceBeforeApproval'
  <2>1. SUFFICES ASSUME NEW r \in Requests, NEW a \in Assets, asset'[a].holder = r
                 PROVE  row'[r].approved
    BY DEF NoDeviceBeforeApproval, HeldBy
  <2>2. CASE asset[a].holder = r
    BY <1>3, <2>2 DEF ApprovalInv, NoDeviceBeforeApproval, HeldBy
  <2>3. ASSUME NEW c \in Calls, CheckoutAsset(c), call[c].req = r
        PROVE  row'[r].approved
    <3>1. call[c].at \notin StoreSteps
      BY <2>3 DEF CheckoutAsset, AfterCheckout, StoreSteps
    <3> QED BY <1>3, <2>3, <3>1 DEF ApprovalInv, Approvals
  <2>4. asset[a].holder = r \/ \E c \in Calls : CheckoutAsset(c) /\ call[c].req = r
    BY <1>0, <2>1, Holders
  <2> QED BY <2>2, <2>3, <2>4
<1>7. Approvals'
  BY <1>4, <1>5 DEF Approvals
<1> QED BY <1>0, <1>6, <1>7 DEF ApprovalInv

\* Whatever calls overlap, fail or crash, no device is checked out for a request
\* its manager has not approved.
THEOREM ApprovedFirst == Spec => []NoDeviceBeforeApproval
<1>1. Init => ApprovalInv
  <2> SUFFICES ASSUME Init PROVE ApprovalInv
    OBVIOUS
  <2>1. Approvals
    BY DEF Init, StoreInit, Approvals, Unfiled, Idle, StoreSteps
  <2>2. NoDeviceBeforeApproval
    BY AssetAssumption DEF Init, NoDeviceBeforeApproval, HeldBy, Unborn
  <2> QED BY InitTyped, <2>1, <2>2 DEF ApprovalInv
<1>2. ApprovalInv => NoDeviceBeforeApproval
  BY DEF ApprovalInv
<1> QED BY <1>1, <1>2, ApprovalNext, PTL DEF Spec

(***************************************************************************)
(* AssetFlow implements RequestStatus when the calls about one request     *)
(* come one after the other: what a call found out about the request's     *)
(* status when it read the row is still so when it writes.                 *)
(***************************************************************************)
\* What a call that stands at this step takes the status of its request to be.
Fulfilling == AssetSteps \ (StoreSteps \cup {"deleteOrphanModel"})

Expects(step, s) ==
    /\ step \in {"approveStandard", "approveNonStandard"} => s = "PENDING"
    /\ step = "saveRejection" => s \in {"PENDING", "APPROVED"}
    /\ step \in Fulfilling => s = "APPROVED"

Turns ==
    /\ \A c \in Calls : call[c].at = "idle" => call[c].req = None
    /\ \A c, d \in Calls : c # d /\ call[c].at # "idle" => call[d].req # call[c].req
    /\ \A c \in Calls : call[c].at # "idle" => Expects(call[c].at, row[call[c].req].status)

SerialInv == Typed /\ Turns

(***************************************************************************)
(* How a step moves its own call.                                          *)
(***************************************************************************)
LEMMA BeginAdvances ==
    ASSUME Typed, NEW c \in Calls, NEW r \in Requests, NEW loaded, Begin(c, r, loaded)
    PROVE  call'[c] = loaded /\ Free(c, r)
BY DEF Begin, Typed, StoreTyped, CallsTyped

LEMMA AssetAdvances ==
    ASSUME Typed, NEW c \in Calls, AssetStep(c)
    PROVE  \/ call'[c] = Idle
           \/ /\ call[c].at \in Fulfilling
              /\ call'[c].at \in Fulfilling \cup {"deleteOrphanModel"}
              /\ call'[c].req = call[c].req
              /\ call'[c].at \in Fulfilling => UNCHANGED row
           \/ \E r \in Requests : /\ Free(c, r)
                                  /\ row[r].status = "APPROVED"
                                  /\ call'[c].req = r
                                  /\ call'[c].at \in Fulfilling
                                  /\ UNCHANGED row
<1> DEFINE Entered == \E r \in Requests : /\ Free(c, r)
                                          /\ row[r].status = "APPROVED"
                                          /\ call'[c].req = r
                                          /\ call'[c].at \in Fulfilling
                                          /\ UNCHANGED row
           Stayed == /\ call[c].at \in Fulfilling
                     /\ call'[c].at \in Fulfilling \cup {"deleteOrphanModel"}
                     /\ call'[c].req = call[c].req
                     /\ call'[c].at \in Fulfilling => UNCHANGED row
<1>1. call \in [Calls -> CallStates(AssetSteps)] /\ call[c] \in CallStates(AssetSteps)
  BY DEF Typed, StoreTyped, CallsTyped
<1>2. /\ {"pickStandard", "checkoutStandard", "completeStandard", "findStock", "probeStock",
          "linkStock", "makeSkeleton", "linkSkeleton", "makeModel", "makeFirstSkeleton",
          "rollbackModel", "linkNewModel", "updateAsset", "probeFilled", "saveReady",
          "checkoutLinked", "completeLinked", "checkLive", "checkModel", "rejectOrphan",
          "saveOrphanRejection"} \subseteq Fulfilling
      /\ "deleteOrphanModel" \notin Fulfilling
  BY DEF Fulfilling, AssetSteps, StoreSteps
<1>3. \A step : Goto(c, step) => call'[c].at = step /\ call'[c].req = call[c].req
  BY <1>1 DEF Goto, CallStates
<1>4. Return(c) => call'[c] = Idle
  BY <1>1 DEF Return
<1>5. \A locals : Continue(c, locals) => call'[c] = locals
  BY <1>1 DEF Continue
<1>6. SUFFICES call'[c] = Idle \/ Stayed \/ Entered
  OBVIOUS
<1>7. ASSUME NEW r \in Requests,
             ApproveStandard(c, r) \/ CreateNewModel(c, r)
      PROVE  Entered
  <2>1. PICK step \in {"pickStandard", "makeModel"} : Begin(c, r, Loaded(step, r))
    BY <1>7 DEF ApproveStandard, CreateNewModel
  <2>2. call'[c] = Loaded(step, r) /\ Free(c, r)
    BY <2>1, BeginAdvances
  <2>3. Loaded(step, r).at = step /\ Loaded(step, r).req = r
    BY DEF Loaded, Idle
  <2> QED BY <1>2, <1>7, <2>2, <2>3
          DEF ApproveStandard, CreateNewModel, AwaitsStandardSignOff, AwaitsModel
<1>8. ASSUME NEW r \in Requests, NEW m \in Models, UseExistingModel(c, r, m)
      PROVE  Entered
  <2>1. call'[c] = [Loaded("findStock", r) EXCEPT !.model = m] /\ Free(c, r)
    BY <1>8, BeginAdvances DEF UseExistingModel
  <2>2. call'[c].at = "findStock" /\ call'[c].req = r
    BY <2>1 DEF Loaded, Idle
  <2> QED BY <1>2, <1>8, <2>1, <2>2 DEF UseExistingModel, AwaitsModel
<1>9. ASSUME NEW r \in Requests, FillAssetDetails(c, r)
      PROVE  Entered
  <2>1. call'[c] = [Loaded("updateAsset", r) EXCEPT !.asset = mr[r].asset] /\ Free(c, r)
    BY <1>9, BeginAdvances DEF FillAssetDetails
  <2>2. call'[c].at = "updateAsset" /\ call'[c].req = r
    BY <2>1 DEF Loaded, Idle
  <2> QED BY <1>2, <1>9, <2>1, <2>2 DEF FillAssetDetails
<1>10. ASSUME NEW r \in Requests, ConsiderOrphan(c, r)
       PROVE  Entered
  <2>1. /\ call'[c] = [Loaded("checkLive", r) EXCEPT !.model = mr[r].model, !.asset = mr[r].asset]
        /\ Free(c, r)
    BY <1>10, BeginAdvances DEF ConsiderOrphan
  <2>2. call'[c].at = "checkLive" /\ call'[c].req = r
    BY <2>1 DEF Loaded, Idle
  <2> QED BY <1>2, <1>10, <2>1, <2>2 DEF ConsiderOrphan
<1>11. ASSUME NEW a \in Assets, PickStandard(c, a)
       PROVE  Stayed
  <2>1. call'[c] = [call[c] EXCEPT !.at = "checkoutStandard", !.asset = a]
    BY <1>5, <1>11 DEF PickStandard
  <2>2. call'[c].at = "checkoutStandard" /\ call'[c].req = call[c].req
    BY <1>1, <2>1 DEF CallStates
  <2> QED BY <1>2, <1>11, <2>2 DEF PickStandard, At
<1>12. ASSUME NEW a \in Assets, MakeSkeleton(c, a)
       PROVE  Stayed
  <2>1. call'[c] = [call[c] EXCEPT !.at = AfterSkeleton[call[c].at], !.asset = a]
    BY <1>5, <1>12 DEF MakeSkeleton
  <2>2. call'[c].at = AfterSkeleton[call[c].at] /\ call'[c].req = call[c].req
    BY <1>1, <2>1 DEF CallStates
  <2> QED BY <1>2, <1>12, <2>2 DEF MakeSkeleton, AfterSkeleton
<1>13. ASSUME NEW m \in Models, MakeModel(c, m)
       PROVE  Stayed
  <2>1. call'[c] = [call[c] EXCEPT !.at = "makeFirstSkeleton", !.model = m]
    BY <1>5, <1>13 DEF MakeModel
  <2>2. call'[c].at = "makeFirstSkeleton" /\ call'[c].req = call[c].req
    BY <1>1, <2>1 DEF CallStates
  <2> QED BY <1>2, <1>13, <2>2 DEF MakeModel, At
<1>14. ASSUME NEW cond \in Live, UpdateSnipeAsset(c, cond)
       PROVE  Stayed
  BY <1>2, <1>3, <1>14 DEF UpdateSnipeAsset, At
<1>15. CASE CheckoutAsset(c)
  BY <1>2, <1>3, <1>15 DEF CheckoutAsset, AfterCheckout
<1>16. CASE FindStock(c)
  <2>1. CASE Goto(c, "makeSkeleton")
    BY <1>2, <1>3, <1>16, <2>1 DEF FindStock, At
  <2>2. ASSUME NEW a \in Assets,
               Continue(c, [call[c] EXCEPT !.at = "probeStock", !.asset = a])
        PROVE  Stayed
    <3>1. call'[c] = [call[c] EXCEPT !.at = "probeStock", !.asset = a]
      BY <1>5, <2>2
    <3>2. call'[c].at = "probeStock" /\ call'[c].req = call[c].req
      BY <1>1, <3>1 DEF CallStates
    <3> QED BY <1>2, <1>16, <3>2 DEF FindStock, At
  <2> QED BY <1>16, <2>1, <2>2 DEF FindStock
<1>17. ASSUME Probe(c)
       PROVE  Stayed
  <2>1. call'[c] = [call[c] EXCEPT !.at = AfterProbe[call[c].at],
                                   !.flag = IsSnipeAssetComplete(call[c].asset)]
    BY <1>5, <1>17 DEF Probe
  <2>2. call'[c].at = AfterProbe[call[c].at] /\ call'[c].req = call[c].req
    BY <1>1, <2>1 DEF CallStates
  <2> QED BY <1>2, <1>17, <2>2 DEF Probe, AfterProbe
<1>18. CASE SaveReady(c)
  <2>1. CASE Return(c)
    BY <1>4, <2>1
  <2>2. CASE Continue(c, [call[c] EXCEPT !.at = "checkoutLinked", !.asset = mr[call[c].req].asset])
    <3>1. call'[c] = [call[c] EXCEPT !.at = "checkoutLinked", !.asset = mr[call[c].req].asset]
      BY <1>5, <2>2
    <3>2. call'[c].at = "checkoutLinked" /\ call'[c].req = call[c].req
      BY <1>1, <3>1 DEF CallStates
    <3> QED BY <1>2, <1>18, <3>2 DEF SaveReady, At
  <2> QED BY <1>18, <2>1, <2>2 DEF SaveReady
<1>19. CASE SkeletonFails(c) \/ CheckLive(c) \/ CheckModel(c) \/ RejectOrphan(c)
  BY <1>2, <1>3, <1>4, <1>19 DEF SkeletonFails, CheckLive, CheckModel, RejectOrphan, At
<1>20. CASE SaveOrphanRejection(c)
  BY <1>2, <1>3, <1>20 DEF SaveOrphanRejection, At
<1>21. CASE CompleteStandard(c) \/ CompleteLinked(c) \/ RollbackModel(c) \/ LinkModelRequest(c)
            \/ DeleteOrphanModel(c)
  BY <1>4, <1>21
  DEF CompleteStandard, CompleteLinked, RollbackModel, LinkModelRequest, DeleteOrphanModel
<1> HIDE DEF Entered, Stayed
<1> QED
  BY <1>7, <1>8, <1>9, <1>10, <1>11, <1>12, <1>13, <1>14, <1>15, <1>16, <1>17, <1>18, <1>19,
     <1>20, <1>21 DEF AssetStep

LEMMA StoreAdvances ==
    ASSUME Typed, NEW c \in Calls, StoreStep(c)
    PROVE  \/ /\ call'[c] = Idle
              /\ \A q \in Requests : \/ row'[q].status = row[q].status
                                     \/ /\ call[c].req = q
                                        /\ \/ /\ call[c].at \in {"approveStandard", "approveNonStandard"}
                                              /\ row'[q].status = "APPROVED"
                                           \/ /\ call[c].at = "saveRejection"
                                              /\ row'[q].status = "REJECTED"
           \/ \E r \in Requests :
                 /\ Free(c, r)
                 /\ \A q \in Requests \ {r} : row'[q].status = row[q].status
                 /\ \/ row'[r].status = row[r].status
                    \/ row[r].status = "NONE" /\ row'[r].status = "PENDING"
                 /\ \/ call'[c] = call[c]
                    \/ /\ call'[c].req = r
                       /\ call'[c].at \in StoreSteps \ {"idle"}
                       /\ Expects(call'[c].at, row'[r].status)
<1>1. \A s : \A step \in StoreSteps : StoreExpects(step, s) => Expects(step, s)
  BY DEF StoreExpects, Expects, Fulfilling
<1>2. StoreTyped(AssetSteps)
  BY DEF Typed
<1> QED BY <1>1, <1>2, StoreTurns

(***************************************************************************)
(* The invariant: whose turn it is.                                        *)
(***************************************************************************)
\* A step by c keeps the turns if it leaves the status of every other call's
\* request alone, and c what it expects of its own.
LEMMA TurnsKept ==
    ASSUME Typed, Typed', Turns, NEW c \in Calls,
           \A d \in Calls : d # c => call'[d] = call[d],
           \A d \in Calls : d # c /\ call[d].at # "idle"
               => /\ row'[call[d].req].status = row[call[d].req].status
                  /\ call'[c].req # call[d].req,
           call'[c].at = "idle" => call'[c].req = None,
           call'[c].at # "idle" => Expects(call'[c].at, row'[call'[c].req].status)
    PROVE  Turns'
<1>1. None \notin Requests
  BY StoreAssumption
<1>2. \A d \in Calls : call'[d].at # "idle" => call'[d].req \in Requests
  BY DEF Typed, StoreTyped, CallsTyped, CallsNamed
<1>3. \A d \in Calls : call[d].at # "idle" => call[d].req \in Requests
  BY CallTyped
<1>4. \A d \in Calls : call'[d].at = "idle" => call'[d].req = None
  BY DEF Turns
<1>5. \A d, e \in Calls : d # e /\ call'[d].at # "idle" => call'[e].req # call'[d].req
  BY <1>1, <1>2, <1>3 DEF Turns
<1>6. \A d \in Calls : call'[d].at # "idle" => Expects(call'[d].at, row'[call'[d].req].status)
  BY DEF Turns
<1> QED BY <1>4, <1>5, <1>6 DEF Turns

LEMMA TurnsStore ==
    ASSUME ~Overlap, Typed, Typed', Turns, NEW c \in Calls, StoreStep(c)
    PROVE  Turns'
<1>1. \A d \in Calls : d # c => call'[d] = call[d]
  BY StoreCalls
<1>2. \A d \in Calls : call[d].at # "idle" => call[d].req \in Requests
  BY CallTyped
<1>3. CASE /\ call'[c] = Idle
           /\ \A q \in Requests : row'[q].status = row[q].status \/ (call[c].req = q /\ call[c].at # "idle")
  <2>1. Idle.at = "idle" /\ Idle.req = None /\ None \notin Requests
    BY StoreAssumption DEF Idle
  <2>2. \A d \in Calls : d # c /\ call[d].at # "idle"
            => /\ row'[call[d].req].status = row[call[d].req].status
               /\ call'[c].req # call[d].req
    BY <1>2, <1>3, <2>1 DEF Turns
  <2> QED BY <1>1, <1>3, <2>1, <2>2, TurnsKept
<1>4. ASSUME NEW r \in Requests, Free(c, r),
             \A q \in Requests \ {r} : row'[q].status = row[q].status,
             \/ call'[c] = call[c]
             \/ /\ call'[c].req = r
                /\ call'[c].at # "idle"
                /\ Expects(call'[c].at, row'[r].status)
      PROVE  Turns'
  <2>1. call[c].at = "idle" /\ \A d \in Calls : call[d].req # r
    BY <1>4 DEF Free
  <2>2. call[c].req = None
    BY <2>1 DEF Turns
  <2>3. \A d \in Calls : d # c /\ call[d].at # "idle"
            => /\ row'[call[d].req].status = row[call[d].req].status
               /\ call'[c].req # call[d].req
    BY <1>2, <1>4, <2>1, <2>2, StoreAssumption
  <2>4. /\ call'[c].at = "idle" => call'[c].req = None
        /\ call'[c].at # "idle" => Expects(call'[c].at, row'[call'[c].req].status)
    BY <1>4, <2>1, <2>2
  <2> QED BY <1>1, <2>3, <2>4, TurnsKept
<1> QED BY <1>3, <1>4, StoreAdvances

LEMMA TurnsAsset ==
    ASSUME ~Overlap, Typed, Typed', Turns, NEW c \in Calls, AssetStep(c)
    PROVE  Turns'
<1>1. \A d \in Calls : d # c => call'[d] = call[d]
  BY AssetCalls
<1>2. \A d \in Calls : call[d].at # "idle" => call[d].req \in Requests
  BY CallTyped
<1>3. \A q \in Requests : row'[q].status = row[q].status \/ (call[c].req = q /\ call[c].at # "idle")
  BY AssetRows
<1>4. \A d \in Calls : d # c /\ call[d].at # "idle"
          => row'[call[d].req].status = row[call[d].req].status
  BY <1>2, <1>3 DEF Turns
<1>5. CASE call'[c] = Idle
  <2>1. Idle.at = "idle" /\ Idle.req = None /\ None \notin Requests
    BY StoreAssumption DEF Idle
  <2> QED BY <1>1, <1>2, <1>4, <1>5, <2>1, TurnsKept
<1>6. CASE /\ call[c].at \in Fulfilling
           /\ call'[c].at \in Fulfilling \cup {"deleteOrphanModel"}
           /\ call'[c].req = call[c].req
           /\ call'[c].at \in Fulfilling => UNCHANGED row
  <2>1. "idle" \notin Fulfilling
    BY DEF Fulfilling, StoreSteps
  <2>2. \A d \in Calls : d # c /\ call[d].at # "idle" => call'[c].req # call[d].req
    BY <1>6, <2>1 DEF Turns
  <2>3. Expects(call'[c].at, row'[call'[c].req].status)
    <3>1. CASE call'[c].at \in Fulfilling
      <4>1. row[call[c].req].status = "APPROVED"
        BY <1>6, <2>1 DEF Turns, Expects
      <4> QED BY <1>6, <3>1, <4>1 DEF Expects, Fulfilling, StoreSteps
    <3>2. CASE call'[c].at = "deleteOrphanModel"
      BY <3>2 DEF Expects, Fulfilling
    <3> QED BY <1>6, <3>1, <3>2
  <2>4. call'[c].at # "idle"
    BY <1>6, <2>1
  <2> QED BY <1>1, <1>4, <2>2, <2>3, <2>4, TurnsKept
<1>7. ASSUME NEW r \in Requests, Free(c, r), row[r].status = "APPROVED", call'[c].req = r,
             call'[c].at \in Fulfilling, UNCHANGED row
      PROVE  Turns'
  <2>1. \A d \in Calls : call[d].req # r
    BY <1>7 DEF Free
  <2>2. call'[c].at # "idle" /\ Expects(call'[c].at, row'[call'[c].req].status)
    BY <1>7 DEF Expects, Fulfilling, StoreSteps
  <2> QED BY <1>1, <1>4, <1>7, <2>1, <2>2, TurnsKept
<1> QED BY <1>5, <1>6, <1>7, AssetAdvances

LEMMA SerialNext ==
    ASSUME ~Overlap
    PROVE  SerialInv /\ [Next]_vars => SerialInv'
<1> SUFFICES ASSUME SerialInv, [Next]_vars PROVE SerialInv'
  OBVIOUS
<1>1. Typed /\ Typed' /\ Turns
  BY NextTyped DEF SerialInv
<1>2. CASE UNCHANGED row /\ UNCHANGED call
  BY <1>1, <1>2 DEF Turns, SerialInv
<1>3. (UNCHANGED row /\ UNCHANGED call) \/ \E c \in Calls : StoreStep(c) \/ AssetStep(c)
  BY DEF Next, SnipeStep, HandOut, DeleteAsset, storeVars, vars
<1> QED BY <1>1, <1>2, <1>3, TurnsStore, TurnsAsset DEF SerialInv

(***************************************************************************)
(* Every step maps to a step of RequestStatus or leaves the statuses alone.*)
(***************************************************************************)
LEMMA MovesOuter ==
    ASSUME NEW q \in Requests, NEW from, NEW to,
           row[q].status \in from, row'[q].status = to,
           \A r \in Requests \ {q} : row'[r].status = row[r].status
    PROVE  Outer!Move(q, from, to)
BY DEF Outer!Move

LEMMA StoreMapped ==
    ASSUME Typed, Turns, NEW c \in Calls, StoreStep(c)
    PROVE  \/ Outer!Next
           \/ \A q \in Requests : row'[q].status = row[q].status
<1>1. ASSUME NEW r \in Requests, row[r].status = "NONE", row'[r].status = "PENDING",
             \A q \in Requests \ {r} : row'[q].status = row[q].status
      PROVE  Outer!Next
  BY <1>1, MovesOuter DEF Outer!Next, Outer!File
<1>2. ASSUME NEW q \in Requests, call[c].req = q,
             call[c].at \in {"approveStandard", "approveNonStandard"}, row'[q].status = "APPROVED",
             \A r \in Requests \ {q} : row'[r].status = row[r].status
      PROVE  Outer!Next
  <2>1. row[q].status \in {"PENDING"}
    BY <1>2 DEF Turns, Expects
  <2> QED BY <1>2, <2>1, MovesOuter DEF Outer!Next, Outer!Approve
<1>3. ASSUME NEW q \in Requests, call[c].req = q,
             call[c].at = "saveRejection", row'[q].status = "REJECTED",
             \A r \in Requests \ {q} : row'[r].status = row[r].status
      PROVE  Outer!Next
  <2>1. row[q].status \in {"PENDING", "APPROVED"}
    BY <1>3 DEF Turns, Expects
  <2> QED BY <1>3, <2>1, MovesOuter DEF Outer!Next, Outer!Reject
<1>4. CASE \A q \in Requests : row'[q].status = row[q].status
  BY <1>4
<1>5. ASSUME NEW q \in Requests, row'[q].status # row[q].status, call'[c] = Idle,
             \A r \in Requests :
                \/ row'[r].status = row[r].status
                \/ /\ call[c].req = r
                   /\ \/ /\ call[c].at \in {"approveStandard", "approveNonStandard"}
                         /\ row'[r].status = "APPROVED"
                      \/ /\ call[c].at = "saveRejection"
                         /\ row'[r].status = "REJECTED"
      PROVE  Outer!Next
  BY <1>2, <1>3, <1>5
<1>6. ASSUME NEW r \in Requests, \A q \in Requests \ {r} : row'[q].status = row[q].status,
             \/ row'[r].status = row[r].status
             \/ row[r].status = "NONE" /\ row'[r].status = "PENDING"
      PROVE  Outer!Next \/ \A q \in Requests : row'[q].status = row[q].status
  BY <1>1, <1>6
<1> QED BY <1>4, <1>5, <1>6, StoreAdvances

LEMMA AssetMapped ==
    ASSUME Typed, Turns, NEW c \in Calls, AssetStep(c)
    PROVE  \/ Outer!Next
           \/ \A q \in Requests : row'[q].status = row[q].status
<1>1. SUFFICES ASSUME NEW q \in Requests, row'[q].status # row[q].status
               PROVE  Outer!Next
  OBVIOUS
<1>2. /\ call[c].req = q
      /\ \/ call[c].at \in {"completeStandard", "completeLinked"} /\ row'[q].status = "COMPLETED"
         \/ call[c].at = "saveOrphanRejection" /\ row'[q].status = "REJECTED"
      /\ \A r \in Requests \ {q} : row'[r].status = row[r].status
  BY <1>1, AssetRows
<1>3. row[q].status = "APPROVED"
  <2>1. call[c].at \in Fulfilling /\ call[c].at # "idle"
    BY <1>2 DEF Fulfilling, AssetSteps, StoreSteps
  <2> QED BY <1>2, <2>1 DEF Turns, Expects
<1>4. CASE row'[q].status = "COMPLETED"
  BY <1>2, <1>3, <1>4, MovesOuter DEF Outer!Next, Outer!Fulfil
<1>5. CASE row'[q].status = "REJECTED"
  BY <1>2, <1>3, <1>5, MovesOuter DEF Outer!Next, Outer!Reject
<1> QED BY <1>2, <1>4, <1>5

\* The outer state of a request is filed, approved, completed or rejected as
\* RequestStatus has it, with COMPLETED and REJECTED final, for any number of
\* requests, calls, models and assets, as long as the calls about one request do
\* not overlap: the service itself has nothing that keeps them apart.
THEOREM OuterLifeCycle ==
    ASSUME ~Overlap
    PROVE  Spec => FollowsRequestStatus
<1>1. Init => SerialInv /\ Outer!Init
  <2> SUFFICES ASSUME Init PROVE SerialInv /\ Outer!Init
    OBVIOUS
  <2>1. Turns
    BY DEF Init, StoreInit, Turns, Idle
  <2>2. Outer!Init
    BY DEF Init, StoreInit, Outer!Init, Unfiled
  <2> QED BY InitTyped, <2>1, <2>2 DEF SerialInv
<1>2. SerialInv /\ [Next]_vars => [Outer!Next]_([r \in Requests |-> row[r].status])
  <2> SUFFICES ASSUME SerialInv, [Next]_vars
               PROVE  [Outer!Next]_([r \in Requests |-> row[r].status])
    OBVIOUS
  <2>1. UNCHANGED row \/ \E c \in Calls : StoreStep(c) \/ AssetStep(c)
    BY DEF Next, SnipeStep, HandOut, DeleteAsset, storeVars, vars
  <2>2. Outer!Next \/ \A q \in Requests : row'[q].status = row[q].status
    BY <2>1, StoreMapped, AssetMapped DEF SerialInv
  <2> QED BY <2>2
<1> QED BY <1>1, <1>2, SerialNext, PTL DEF Spec, FollowsRequestStatus, Outer!Spec

-----------------------------------------------------------------------------
(* How hardware requests end: a completed one holds a device, and when the calls
   about one request do not overlap it holds one at most, a rejected one holds
   none, and the mails sent agree with how the request ended.  And what the
   workflow keeps meanwhile: a row only where its type asks for one, only the
   device it links, and no model that nobody answers for.                    *)

(***************************************************************************)
(* A completed request holds a device, if Snipe-IT answers a refused       *)
(* checkout with an error.  A call that stands after its checkout has the  *)
(* receipt for a device of its request, and no later step takes it back.   *)
(***************************************************************************)
Receipts ==
    \A c \in Calls : call[c].at \in {"completeStandard", "completeLinked"} =>
        \E a \in Assets : asset[a].holder = call[c].req

HoldingInv == Typed /\ Receipts /\ CompletedHoldsDevice

\* A call comes to stand after a checkout by checking out.
LEMMA ReceiptsCome ==
    ASSUME Typed, [Next]_vars, NEW d \in Calls,
           call'[d].at \in {"completeStandard", "completeLinked"}
    PROVE  call'[d] = call[d] \/ CheckoutAsset(d)
<1>1. call \in [Calls -> CallStates(AssetSteps)] /\ call[d] \in CallStates(AssetSteps)
  BY DEF Typed, StoreTyped, CallsTyped
<1>2. ASSUME NEW c \in Calls, StoreStep(c)
      PROVE  call'[d] = call[d]
  BY <1>2, StoreCalls DEF StoreSteps
<1>3. ASSUME NEW c \in Calls, AssetStep(c), c # d
      PROVE  call'[d] = call[d]
  BY <1>3, AssetCalls
<1>4. ASSUME AssetStep(d)
      PROVE  CheckoutAsset(d)
  <2>2. \A r \in Requests :
            /\ ~ApproveStandard(d, r)
            /\ ~CreateNewModel(d, r)
            /\ ~FillAssetDetails(d, r)
            /\ ~ConsiderOrphan(d, r)
            /\ \A m \in Models : ~UseExistingModel(d, r, m)
    <3> SUFFICES ASSUME NEW r \in Requests
                 PROVE  /\ ~ApproveStandard(d, r)
                        /\ ~CreateNewModel(d, r)
                        /\ ~FillAssetDetails(d, r)
                        /\ ~ConsiderOrphan(d, r)
                        /\ \A m \in Models : ~UseExistingModel(d, r, m)
      OBVIOUS
    <3>1. ASSUME NEW loaded, Begin(d, r, loaded) PROVE call'[d] = loaded
      BY <1>1, <3>1 DEF Begin
    <3>2. ~ApproveStandard(d, r)
      BY <3>1 DEF ApproveStandard, Loaded, Idle
    <3>3. ~CreateNewModel(d, r)
      BY <3>1 DEF CreateNewModel, Loaded, Idle
    <3>4. ~FillAssetDetails(d, r)
      BY <1>1 DEF FillAssetDetails, Begin, Loaded, Idle
    <3>5. ~ConsiderOrphan(d, r)
      BY <1>1 DEF ConsiderOrphan, Begin, Loaded, Idle
    <3>6. ASSUME NEW m \in Models PROVE ~UseExistingModel(d, r, m)
      BY <1>1 DEF UseExistingModel, Begin, Loaded, Idle
    <3> QED BY <3>2, <3>3, <3>4, <3>5, <3>6
  <2>4. ~Return(d)
    BY <1>1 DEF Return, Idle
  <2>5. ASSUME NEW step, Goto(d, step)
        PROVE  step \in {"completeStandard", "completeLinked"}
    BY <1>1, <2>5 DEF Goto, CallStates
  \* Going on with changed locals, the call stands where they say.
  <2>6. ASSUME NEW step, NEW a, NEW m, NEW flag
        PROVE  /\ [call[d] EXCEPT !.at = step, !.asset = a].at = step
               /\ [call[d] EXCEPT !.at = step, !.model = m].at = step
               /\ [call[d] EXCEPT !.at = step, !.flag = flag].at = step
    BY <1>1 DEF CallStates
  <2>7. ASSUME NEW locals, Continue(d, locals)
        PROVE  locals.at \in {"completeStandard", "completeLinked"}
    BY <1>1, <2>7 DEF Continue
  <2>8. ~FindStock(d)
    <3>1. FindStock(d) => \/ Goto(d, "makeSkeleton")
                          \/ \E a \in Assets :
                                \E locals \in {[call[d] EXCEPT !.at = "probeStock", !.asset = a]} :
                                   Continue(d, locals)
      BY DEF FindStock
    <3>2. ASSUME NEW a \in Assets,
                 NEW locals \in {[call[d] EXCEPT !.at = "probeStock", !.asset = a]}
          PROVE  ~Continue(d, locals)
      <4>1. locals.at = "probeStock"
        BY <2>6
      <4> QED BY <2>7, <4>1
    <3>3. ~Goto(d, "makeSkeleton")
      BY <2>5
    <3> QED BY <3>1, <3>2, <3>3
  <2>9. ~SaveReady(d)
    <3> DEFINE locals == [call[d] EXCEPT !.at = "checkoutLinked", !.asset = mr[call[d].req].asset]
    <3>1. locals.at = "checkoutLinked"
      BY <2>6
    <3>2. SaveReady(d) => Continue(d, locals)
      BY <2>4 DEF SaveReady
    <3> HIDE DEF locals
    <3> QED BY <2>7, <3>1, <3>2
  <2>12. ASSUME NEW a \in Assets PROVE ~PickStandard(d, a)
    <3> DEFINE locals == [call[d] EXCEPT !.at = "checkoutStandard", !.asset = a]
    <3>1. locals.at = "checkoutStandard"
      BY <2>6
    <3>2. PickStandard(d, a) => Continue(d, locals)
      BY DEF PickStandard
    <3> HIDE DEF locals
    <3> QED BY <2>7, <3>1, <3>2
  <2>13. ~Probe(d)
    <3> DEFINE locals == [call[d] EXCEPT !.at = AfterProbe[call[d].at],
                                         !.flag = IsSnipeAssetComplete(call[d].asset)]
    <3>1. locals.at = AfterProbe[call[d].at]
      BY <2>6
    <3>2. Probe(d) => Continue(d, locals) /\ AfterProbe[call[d].at] \in {"linkStock", "saveReady"}
      BY DEF Probe, AfterProbe
    <3> HIDE DEF locals
    <3> QED BY <2>7, <3>1, <3>2
  <2>14. ASSUME NEW a \in Assets PROVE ~MakeSkeleton(d, a)
    <3> DEFINE locals == [call[d] EXCEPT !.at = AfterSkeleton[call[d].at], !.asset = a]
    <3>1. locals.at = AfterSkeleton[call[d].at]
      BY <2>6
    <3>2. MakeSkeleton(d, a) => /\ Continue(d, locals)
                                /\ AfterSkeleton[call[d].at] \in {"linkSkeleton", "linkNewModel"}
      BY DEF MakeSkeleton, AfterSkeleton
    <3> HIDE DEF locals
    <3> QED BY <2>7, <3>1, <3>2
  <2>15. ASSUME NEW m \in Models PROVE ~MakeModel(d, m)
    <3> DEFINE locals == [call[d] EXCEPT !.at = "makeFirstSkeleton", !.model = m]
    <3>1. locals.at = "makeFirstSkeleton"
      BY <2>6
    <3>2. MakeModel(d, m) => Continue(d, locals)
      BY DEF MakeModel
    <3> HIDE DEF locals
    <3> QED BY <2>7, <3>1, <3>2
  <2>10. /\ ~CompleteStandard(d) /\ ~CompleteLinked(d) /\ ~RollbackModel(d)
         /\ ~LinkModelRequest(d) /\ ~DeleteOrphanModel(d)
    BY <2>4 DEF CompleteStandard, CompleteLinked, RollbackModel, LinkModelRequest, DeleteOrphanModel
  <2>11. /\ ~SkeletonFails(d) /\ ~CheckLive(d) /\ ~CheckModel(d) /\ ~RejectOrphan(d)
         /\ ~SaveOrphanRejection(d) /\ \A cond \in Live : ~UpdateSnipeAsset(d, cond)
    BY <2>4, <2>5 DEF SkeletonFails, CheckLive, CheckModel, RejectOrphan, SaveOrphanRejection,
                      UpdateSnipeAsset
  <2> QED
    BY <1>4, <2>2, <2>8, <2>9, <2>10, <2>11, <2>12, <2>13, <2>14, <2>15 DEF AssetStep
<1>5. CASE UNCHANGED call
  BY <1>5
<1>6. UNCHANGED call \/ \E c \in Calls : StoreStep(c) \/ AssetStep(c)
  BY DEF Next, SnipeStep, HandOut, DeleteAsset, storeVars, vars
<1> QED BY <1>2, <1>3, <1>4, <1>5, <1>6

LEMMA HoldingNext ==
    ASSUME ~BodyErrors
    PROVE  HoldingInv /\ [Next]_vars => HoldingInv'
<1> SUFFICES ASSUME HoldingInv, [Next]_vars PROVE HoldingInv'
  OBVIOUS
<1>0. Typed /\ Typed'
  BY NextTyped DEF HoldingInv
<1>1. \A r \in Requests : (\E a \in Assets : asset[a].holder = r)
                          => \E a \in Assets : asset'[a].holder = r
  BY <1>0, Holders
<1>2. Receipts'
  <2>1. SUFFICES ASSUME NEW d \in Calls,
                        call'[d].at \in {"completeStandard", "completeLinked"}
                 PROVE  \E a \in Assets : asset'[a].holder = call'[d].req
    BY DEF Receipts
  <2>2. CASE call'[d] = call[d]
    <3>1. call[d].at \in {"completeStandard", "completeLinked"} /\ call[d].req \in Requests
      BY <1>0, <2>1, <2>2, CallTyped
    <3> QED BY <1>1, <2>2, <3>1 DEF HoldingInv, Receipts
  <2>3. CASE CheckoutAsset(d)
    <3>1. call'[d].req = call[d].req
      BY <1>0, <2>3 DEF CheckoutAsset, Goto, Typed, StoreTyped, CallsTyped, CallStates
    <3>2. call[d].asset \in Assets /\ asset' = [asset EXCEPT ![call[d].asset].holder = call[d].req]
      BY <2>3 DEF CheckoutAsset
    <3> QED BY <1>0, <3>1, <3>2 DEF Typed, AssetsTyped
  <2> QED BY <1>0, <2>1, <2>2, <2>3, ReceiptsCome
<1>3. CompletedHoldsDevice'
  <2>1. SUFFICES ASSUME NEW r \in Requests, row'[r].status = "COMPLETED"
                 PROVE  \E a \in Assets : asset'[a].holder = r
    BY DEF CompletedHoldsDevice, HeldBy
  <2>2. CASE row[r].status = "COMPLETED"
    BY <1>1, <2>2 DEF HoldingInv, CompletedHoldsDevice, HeldBy
  <2>3. ASSUME NEW c \in Calls, StoreStep(c)
        PROVE  row[r].status = "COMPLETED"
    BY <1>0, <2>1, <2>3, StoreRows
  <2>4. ASSUME NEW c \in Calls, AssetStep(c), row[r].status # "COMPLETED"
        PROVE  \E a \in Assets : asset[a].holder = r
    <3>1. call[c].req = r /\ call[c].at \in {"completeStandard", "completeLinked"}
      BY <1>0, <2>1, <2>4, AssetRows
    <3> QED BY <3>1 DEF HoldingInv, Receipts
  <2>5. UNCHANGED row \/ \E c \in Calls : StoreStep(c) \/ AssetStep(c)
    BY DEF Next, SnipeStep, HandOut, DeleteAsset, storeVars, vars
  <2> QED BY <1>1, <2>1, <2>2, <2>3, <2>4, <2>5
<1> QED BY <1>0, <1>2, <1>3 DEF HoldingInv

\* However calls overlap, fail or crash, a COMPLETED request holds a device, as
\* long as Snipe-IT never answers a refused checkout with a 200.
THEOREM CompletionIsReal ==
    ASSUME ~BodyErrors
    PROVE  Spec => []CompletedHoldsDevice
<1>1. Init => HoldingInv
  <2> SUFFICES ASSUME Init PROVE HoldingInv
    OBVIOUS
  <2>1. Receipts /\ CompletedHoldsDevice
    BY DEF Init, StoreInit, Receipts, CompletedHoldsDevice, Unfiled, Idle
  <2> QED BY InitTyped, <2>1 DEF HoldingInv
<1>2. HoldingInv => CompletedHoldsDevice
  BY DEF HoldingInv
<1> QED BY <1>1, <1>2, HoldingNext, PTL DEF Spec

(***************************************************************************)
(* When the calls about one request do not overlap: a device that is out   *)
(* belongs to a completed request, or to one whose call is about to        *)
(* complete it.                                                            *)
(***************************************************************************)
Receipted == {"completeStandard", "completeLinked"}

Owed ==
    \A r \in Requests : \A a \in HeldBy(r) :
        \/ row[r].status = "COMPLETED"
        \/ \E c \in Calls : call[c].req = r /\ call[c].at \in Receipted

\* Nobody writes the status of a request that is over.
LEMMA OverIsOver ==
    ASSUME Typed, Turns, [Next]_vars, NEW r \in Requests, row[r].status \in Terminal
    PROVE  row'[r].status = row[r].status
<1>1. UNCHANGED row \/ \E c \in Calls : StoreStep(c) \/ AssetStep(c)
  BY DEF Next, SnipeStep, HandOut, DeleteAsset, storeVars, vars
<1>2. Outer!Next \/ \A q \in Requests : row'[q].status = row[q].status
  BY <1>1, StoreMapped, AssetMapped
<1> QED
  BY <1>2 DEF Terminal, Outer!Next, Outer!File, Outer!Approve, Outer!Fulfil, Outer!Reject,
              Outer!Move

\* A call that stands after its checkout leaves by completing the request, unless
\* it fails there.
LEMMA ReceiptsGo ==
    ASSUME Typed, [Next]_vars, NEW d \in Calls, call[d].at \in Receipted
    PROVE  \/ call'[d] = call[d]
           \/ Fail(d)
           \/ row'[call[d].req].status = "COMPLETED"
<1>1. row \in [Requests -> Rows] /\ call[d].req \in Requests
  BY CallTyped DEF Typed, StoreTyped, RowsTyped, Receipted
<1>2. ASSUME NEW c \in Calls, StoreStep(c), c # d
      PROVE  call'[d] = call[d]
  BY <1>2, StoreCalls
<1>3. ASSUME NEW c \in Calls, AssetStep(c), c # d
      PROVE  call'[d] = call[d]
  BY <1>3, AssetCalls
<1>4. ASSUME StoreStep(d)
      PROVE  Fail(d)
  BY <1>4
  DEF StoreStep, CreateRequest, EditRequest, ApproveRequest, ReviewRequest, RejectRequest,
      HandleStandardApproval, HandleNonStandardApproval, HandleAdminNonStandardApproval,
      SaveEdit, SaveRejection, Begin, Free, At, Receipted
<1>5. ASSUME AssetStep(d)
      PROVE  CompleteStandard(d) \/ CompleteLinked(d)
  <2>1. \A loaded : \A r \in Requests : ~Begin(d, r, loaded)
    BY DEF Begin, Free, Receipted
  <2>2. \A r \in Requests :
            /\ ~ApproveStandard(d, r) /\ ~CreateNewModel(d, r) /\ ~FillAssetDetails(d, r)
            /\ ~ConsiderOrphan(d, r)
            /\ \A m \in Models : ~UseExistingModel(d, r, m)
    BY <2>1
    DEF ApproveStandard, CreateNewModel, FillAssetDetails, ConsiderOrphan, UseExistingModel
  <2>3. /\ \A a \in Assets : ~PickStandard(d, a) /\ ~MakeSkeleton(d, a)
        /\ \A m \in Models : ~MakeModel(d, m)
        /\ \A cond \in Live : ~UpdateSnipeAsset(d, cond)
        /\ ~CheckoutAsset(d) /\ ~FindStock(d) /\ ~SkeletonFails(d) /\ ~RollbackModel(d)
        /\ ~LinkModelRequest(d) /\ ~Probe(d) /\ ~SaveReady(d) /\ ~CheckLive(d)
        /\ ~CheckModel(d) /\ ~RejectOrphan(d) /\ ~SaveOrphanRejection(d)
        /\ ~DeleteOrphanModel(d)
    BY DEF PickStandard, MakeSkeleton, AfterSkeleton, MakeModel, UpdateSnipeAsset, CheckoutAsset,
           AfterCheckout, FindStock, SkeletonFails, RollbackModel, LinkModelRequest, Probe,
           AfterProbe, SaveReady, CheckLive, CheckModel, RejectOrphan, SaveOrphanRejection,
           DeleteOrphanModel, At, Receipted
  <2> QED BY <1>5, <2>2, <2>3 DEF AssetStep
<1>6. ASSUME CompleteStandard(d) \/ CompleteLinked(d)
      PROVE  row'[call[d].req].status = "COMPLETED"
  <2>1. \/ row' = [row EXCEPT ![call[d].req].status = "COMPLETED",
                             ![call[d].req].signedOff = TRUE]
        \/ row' = [row EXCEPT ![call[d].req].status = "COMPLETED"]
    BY <1>6 DEF CompleteStandard, CompleteLinked, SetStatus
  <2> QED BY <1>1, <2>1 DEF Rows
<1>7. UNCHANGED call \/ \E c \in Calls : StoreStep(c) \/ AssetStep(c)
  BY DEF Next, SnipeStep, HandOut, DeleteAsset, storeVars, vars
<1> QED BY <1>2, <1>3, <1>4, <1>5, <1>6, <1>7

\* The request of a call that is to check a device out, or to open or link the
\* workflow, holds none yet.
LEMMA NothingHeldYet ==
    ASSUME Typed, Turns, Owed, NEW c \in Calls,
           call[c].at \in {"checkoutStandard", "checkoutLinked", "approveNonStandard",
                           "linkStock", "linkSkeleton", "linkNewModel"}
    PROVE  HeldBy(call[c].req) = {}
<1>1. call[c].req \in Requests /\ call[c].at # "idle"
  BY CallTyped
<1>2. row[call[c].req].status \in {"APPROVED", "PENDING"}
  BY <1>1 DEF Turns, Expects, Fulfilling, AssetSteps, StoreSteps
<1>3. \A d \in Calls : call[d].req = call[c].req => d = c
  BY <1>1 DEF Turns
<1>4. ~\E d \in Calls : call[d].req = call[c].req /\ call[d].at \in Receipted
  BY <1>3 DEF Receipted
<1>5. \A a \in HeldBy(call[c].req) : FALSE
  BY <1>1, <1>2, <1>4 DEF Owed
<1> QED BY <1>5

OwedInv == SerialInv /\ Owed /\ AtMostOneDevice

LEMMA OwedNext ==
    ASSUME ~Overlap, FailAt \cap Receipted = {}
    PROVE  OwedInv /\ [Next]_vars => OwedInv'
<1> SUFFICES ASSUME OwedInv, [Next]_vars PROVE OwedInv'
  OBVIOUS
<1>1. Typed /\ Turns /\ SerialInv' /\ Typed'
  BY SerialNext DEF OwedInv, SerialInv
<1>2. ASSUME NEW c \in Calls, CheckoutAsset(c), call[c].req \in Requests
      PROVE  HeldBy(call[c].req) = {}
  BY <1>1, <1>2, NothingHeldYet DEF CheckoutAsset, AfterCheckout, OwedInv
<1>3. ASSUME NEW c \in Calls, CheckoutAsset(c)
      PROVE  call'[c].at \in Receipted /\ call'[c].req = call[c].req
  BY <1>1, <1>3
  DEF CheckoutAsset, AfterCheckout, Goto, Receipted, Typed, StoreTyped, CallsTyped, CallStates
<1>4. ASSUME NEW r \in Requests, NEW a \in Assets, asset'[a].holder = r
      PROVE  \/ row'[r].status = "COMPLETED"
             \/ \E c \in Calls : call'[c].req = r /\ call'[c].at \in Receipted
  <2>1. CASE asset[a].holder = r
    <3>1. CASE row[r].status = "COMPLETED"
      BY <1>1, <3>1, OverIsOver DEF Terminal
    <3>2. ASSUME NEW c \in Calls, call[c].req = r, call[c].at \in Receipted
          PROVE  row'[r].status = "COMPLETED" \/ (call'[c].req = r /\ call'[c].at \in Receipted)
      <4>1. ~Fail(c)
        BY <3>2 DEF Fail
      <4> QED BY <1>1, <3>2, <4>1, ReceiptsGo
    <3> QED BY <2>1, <3>1, <3>2 DEF OwedInv, Owed, HeldBy
  <2>2. ASSUME NEW c \in Calls, CheckoutAsset(c), call[c].req = r
        PROVE  call'[c].req = r /\ call'[c].at \in Receipted
    BY <1>3, <2>2
  <2> QED BY <1>1, <1>4, <2>1, <2>2, Holders
<1>5. Owed'
  BY <1>4 DEF Owed, HeldBy
<1>6. ASSUME NEW r \in Requests, NEW a \in Assets, NEW b \in Assets,
             asset'[a].holder = r, asset'[b].holder = r
      PROVE  a = b
  <2>1. CASE \E c \in Calls : CheckoutAsset(c) /\ call[c].req = r
    <3>1. PICK c \in Calls : CheckoutAsset(c) /\ call[c].req = r
      BY <2>1
    <3>2. asset[a].holder # r /\ asset[b].holder # r
      BY <1>2, <3>1 DEF HeldBy
    <3>3. asset' = [asset EXCEPT ![call[c].asset].holder = r] \/ UNCHANGED asset
      BY <3>1 DEF CheckoutAsset
    <3>4. asset'[a] # asset[a] /\ asset'[b] # asset[b]
      BY <1>6, <3>2
    <3> QED BY <1>1, <3>3, <3>4 DEF Typed, AssetsTyped
  <2>2. CASE ~\E c \in Calls : CheckoutAsset(c) /\ call[c].req = r
    <3>1. asset[a].holder = r /\ asset[b].holder = r
      BY <1>1, <1>6, <2>2, Holders
    <3> QED BY <3>1 DEF OwedInv, AtMostOneDevice, HeldBy
  <2> QED BY <2>1, <2>2
<1>7. AtMostOneDevice'
  BY <1>6 DEF AtMostOneDevice, HeldBy
<1> QED BY <1>1, <1>5, <1>7 DEF OwedInv

LEMMA OwedInvariant ==
    ASSUME ~Overlap, FailAt \cap Receipted = {}
    PROVE  Spec => []OwedInv
<1>1. Init => OwedInv
  <2> SUFFICES ASSUME Init PROVE OwedInv
    OBVIOUS
  <2>1. Turns
    BY DEF Init, StoreInit, Turns, Idle
  <2>2. \A r \in Requests : HeldBy(r) = {}
    BY AssetAssumption DEF Init, HeldBy, Unborn
  <2>3. Owed /\ AtMostOneDevice
    BY <2>2 DEF Owed, AtMostOneDevice
  <2> QED BY InitTyped, <2>1, <2>3 DEF OwedInv, SerialInv
<1> QED BY <1>1, OwedNext, PTL DEF Spec

\* A request never takes a second device out of stock, for any number of requests,
\* calls and assets, when the calls about one request do not overlap and none is
\* lost between a checkout and the write that completes the request.
THEOREM OneDeviceEach ==
    ASSUME ~Overlap, FailAt \cap {"completeStandard", "completeLinked"} = {}
    PROVE  Spec => []AtMostOneDevice
<1>1. OwedInv => AtMostOneDevice
  BY DEF OwedInv
<1> QED BY <1>1, OwedInvariant, PTL DEF Receipted

\* Under the same provisos a rejected request has no device out in its user's
\* name: neither a person's rejection nor the orphan clean-up comes in between.
THEOREM RejectionIsClean ==
    ASSUME ~Overlap, FailAt \cap {"completeStandard", "completeLinked"} = {}
    PROVE  Spec => []RejectedHoldsNothing
<1>1. OwedInv => RejectedHoldsNothing
  <2> SUFFICES ASSUME OwedInv, NEW r \in Requests, row[r].status = "REJECTED"
               PROVE  HeldBy(r) = {}
    BY DEF RejectedHoldsNothing
  <2>1. ASSUME NEW c \in Calls, call[c].req = r, call[c].at \in Receipted
        PROVE  FALSE
    <3>1. call[c].at # "idle" /\ call[c].at \in Fulfilling
      BY <2>1 DEF Receipted, Fulfilling, AssetSteps, StoreSteps
    <3> QED BY <2>1, <3>1 DEF OwedInv, SerialInv, Turns, Expects
  <2> QED BY <2>1 DEF OwedInv, Owed
<1> QED BY <1>1, OwedInvariant, PTL DEF Receipted

(***************************************************************************)
(* The outcome mails.                                                      *)
(***************************************************************************)
MailsRight(r) ==
    /\ <<r, "DEVICE_ASSIGNED">> \in queued => row[r].status = "COMPLETED"
    /\ <<r, "REQUEST_REJECTED">> \in queued => row[r].status = "REJECTED"

\* An outcome mail is queued by the step that writes the outcome.
LEMMA MailsCome ==
    ASSUME Typed, [Next]_vars, NEW r \in Requests
    PROVE  /\ <<r, "DEVICE_ASSIGNED">> \in queued' =>
                 <<r, "DEVICE_ASSIGNED">> \in queued \/ row'[r].status = "COMPLETED"
           /\ <<r, "REQUEST_REJECTED">> \in queued' =>
                 <<r, "REQUEST_REJECTED">> \in queued \/ row'[r].status = "REJECTED"
<1> DEFINE Right == /\ <<r, "DEVICE_ASSIGNED">> \in queued' =>
                          <<r, "DEVICE_ASSIGNED">> \in queued \/ row'[r].status = "COMPLETED"
                    /\ <<r, "REQUEST_REJECTED">> \in queued' =>
                          <<r, "REQUEST_REJECTED">> \in queued \/ row'[r].status = "REJECTED"
<1>1. row \in [Requests -> Rows]
  BY DEF Typed, StoreTyped, RowsTyped
<1>0. SUFFICES Right
  OBVIOUS
<1>2. CASE UNCHANGED queued
  BY <1>2
<1>3. ASSUME NEW q, NEW kinds, NotifyAll(q, kinds),
             "DEVICE_ASSIGNED" \notin kinds, "REQUEST_REJECTED" \notin kinds
      PROVE  Right
  BY <1>3 DEF NotifyAll
<1>4. ASSUME NEW c \in Calls, CompleteStandard(c) \/ CompleteLinked(c)
      PROVE  Right
  <2>1. \/ row' = [row EXCEPT ![call[c].req].status = "COMPLETED",
                             ![call[c].req].signedOff = TRUE]
        \/ row' = [row EXCEPT ![call[c].req].status = "COMPLETED"]
    BY <1>4 DEF CompleteStandard, CompleteLinked, SetStatus
  <2>2. queued' = queued \cup ({call[c].req} \X ({"DEVICE_ASSIGNED"} \cap Watched))
    BY <1>4 DEF CompleteStandard, CompleteLinked, Notify, NotifyAll
  <2>3. call[c].req = r => row'[r].status = "COMPLETED"
    BY <1>1, <2>1 DEF Rows
  <2> QED BY <2>2, <2>3
<1>5. ASSUME NEW c \in Calls, SaveRejection(c) \/ SaveOrphanRejection(c)
      PROVE  Right
  <2>1. row' = [row EXCEPT ![call[c].req].status = "REJECTED"]
    BY <1>5 DEF SaveRejection, SaveOrphanRejection, SetStatus
  <2>2. queued' = queued \cup ({call[c].req} \X ({"REQUEST_REJECTED"} \cap Watched))
    BY <1>5 DEF SaveRejection, SaveOrphanRejection, Notify, NotifyAll
  <2>3. call[c].req = r => row'[r].status = "REJECTED"
    BY <1>1, <2>1 DEF Rows
  <2> QED BY <2>2, <2>3
<1>6. ASSUME NEW c \in Calls, StoreStep(c), ~SaveRejection(c)
      PROVE  Right
  <2>1. ASSUME NEW q \in Requests, NEW kind \in Kinds, NEW type \in Types, NEW auto \in BOOLEAN,
               CreateRequest(c, q, kind, type, auto)
        PROVE  UNCHANGED queued \/ NotifyAll(q, {"MANAGER_APPROVAL_NEEDED"})
    BY <2>1 DEF CreateRequest, Notify
  <2>2. CASE HandleStandardApproval(c) \/ HandleNonStandardApproval(c)
    BY <1>3, <2>2 DEF HandleStandardApproval, HandleNonStandardApproval, Notify
  <2>3. CASE SaveEdit(c)
    <3> DEFINE kinds == IF call[c].flag /\ row[call[c].req].status = "PENDING"
                        THEN {"REQUEST_EDITED", "MANAGER_APPROVAL_NEEDED"}
                        ELSE {"REQUEST_EDITED"}
    <3>1. NotifyAll(call[c].req, kinds)
      BY <2>3 DEF SaveEdit
    <3>2. "DEVICE_ASSIGNED" \notin kinds /\ "REQUEST_REJECTED" \notin kinds
      OBVIOUS
    <3> HIDE DEF kinds
    <3> QED BY <1>3, <3>1, <3>2
  <2>4. ASSUME \/ Fail(c) \/ HandleAdminNonStandardApproval(c)
               \/ \E q \in Requests : \/ ApproveRequest(c, q) \/ ReviewRequest(c, q)
                                      \/ RejectRequest(c, q)
               \/ \E q \in Requests, kind \in Kinds, type \in Types, flag \in BOOLEAN :
                     EditRequest(c, q, kind, type, flag)
        PROVE  UNCHANGED queued
    BY <2>4 DEF Fail, HandleAdminNonStandardApproval, ApproveRequest, ReviewRequest,
                RejectRequest, EditRequest
  <2> HIDE DEF Right
  <2>5. ASSUME NEW q \in Requests, NEW kind \in Kinds, NEW type \in Types, NEW auto \in BOOLEAN,
               CreateRequest(c, q, kind, type, auto)
        PROVE  Right
    BY <1>2, <1>3, <2>1, <2>5
  <2> QED BY <1>2, <1>6, <2>2, <2>3, <2>4, <2>5 DEF StoreStep
<1>7. ASSUME NEW c \in Calls, AssetStep(c),
             ~CompleteStandard(c), ~CompleteLinked(c), ~SaveOrphanRejection(c)
      PROVE  UNCHANGED queued
  BY <1>7
  DEF AssetStep, ApproveStandard, UseExistingModel, CreateNewModel, FillAssetDetails,
      ConsiderOrphan, PickStandard, MakeSkeleton, MakeModel, UpdateSnipeAsset, CheckoutAsset,
      FindStock, SkeletonFails, RollbackModel, LinkModelRequest, Probe, SaveReady, CheckLive,
      CheckModel, RejectOrphan, DeleteOrphanModel
<1>8. UNCHANGED queued \/ \E c \in Calls : StoreStep(c) \/ AssetStep(c)
  BY DEF Next, SnipeStep, HandOut, DeleteAsset, storeVars, vars
<1> HIDE DEF Right
<1> QED BY <1>2, <1>4, <1>5, <1>6, <1>7, <1>8

\* What the requester is told is how the request ended: the outcome mails never
\* contradict the row or each other, wherever calls fail, when the calls about one
\* request do not overlap.
THEOREM MailsAgree ==
    ASSUME ~Overlap
    PROVE  Spec => []MailTellsOutcome
<1> DEFINE MailInv == SerialInv /\ MailTellsOutcome
<1>1. Init => MailInv
  <2> SUFFICES ASSUME Init PROVE MailInv
    OBVIOUS
  <2>1. Turns
    BY DEF Init, StoreInit, Turns, Idle
  <2>2. MailTellsOutcome
    BY DEF Init, StoreInit, MailTellsOutcome
  <2> QED BY InitTyped, <2>1, <2>2 DEF SerialInv
<1>2. MailInv /\ [Next]_vars => MailInv'
  <2> SUFFICES ASSUME MailInv, [Next]_vars PROVE MailInv'
    OBVIOUS
  <2>1. Typed /\ Turns /\ SerialInv'
    BY SerialNext DEF SerialInv
  <2>2. ASSUME NEW r \in Requests
        PROVE  MailsRight(r)'
    <3>1. row[r].status \in Terminal => row'[r].status = row[r].status
      BY <2>1, OverIsOver
    <3>2. MailsRight(r)
      BY DEF MailTellsOutcome, MailsRight
    <3> QED BY <2>1, <3>1, <3>2, MailsCome DEF MailsRight, Terminal
  <2> QED BY <2>1, <2>2 DEF MailTellsOutcome, MailsRight
<1>3. MailInv => MailTellsOutcome
  OBVIOUS
<1> QED BY <1>1, <1>2, <1>3, PTL DEF Spec

(***************************************************************************)
(* The models the portal creates, with calls overlapping or not.           *)
(***************************************************************************)
Building == {"makeFirstSkeleton", "rollbackModel"}

\* Assets keep their model for good, and a model of the portal's own is new only
\* when a call has just made it.
LEMMA ModelsMove ==
    ASSUME Typed, [Next]_vars, NEW m \in Models
    PROVE  /\ model'[m] = "ours" =>
                 model[m] = "ours" \/ \E c \in Calls : MakeModel(c, m)
           /\ \A a \in Assets : asset[a].model = m => asset'[a].model = m
<1>1. /\ asset \in [Assets -> [cond : Live \cup {"unborn", "gone"}, model : Models \cup {None},
                               holder : Requests \cup {"nobody", "someone"}]]
      /\ model \in [Models -> {"unborn", "catalogue", "ours", "gone"}]
  BY DEF Typed, AssetsTyped, ModelsTyped
<1>2. None \notin Models
  BY StoreAssumption
<1>3. ASSUME model'[m] = "ours", model[m] # "ours"
      PROVE  \E c \in Calls : MakeModel(c, m)
  <2>1. ASSUME NEW c \in Calls, AssetStep(c), ~\E n \in Models : MakeModel(c, n)
        PROVE  UNCHANGED model \/ \E n \in Models \cup {None} : DeleteModel(n)
    <3>1. call[c].model \in Models \cup {None}
      BY CallTyped
    <3>2. UNCHANGED model \/ DeleteModel(call[c].model)
      BY <2>1
      DEF AssetStep, ApproveStandard, UseExistingModel, CreateNewModel, FillAssetDetails,
          ConsiderOrphan, PickStandard, MakeSkeleton, UpdateSnipeAsset, CheckoutAsset,
          CompleteStandard, FindStock, SkeletonFails, RollbackModel, LinkModelRequest, Probe,
          SaveReady, CompleteLinked, CheckLive, CheckModel, RejectOrphan, SaveOrphanRejection,
          DeleteOrphanModel, inventory
    <3> QED BY <3>1, <3>2
  <2>2. ~UNCHANGED model /\ \A n \in Models \cup {None} : ~DeleteModel(n)
    BY <1>1, <1>3 DEF DeleteModel
  <2>3. PICK c \in Calls, n \in Models : MakeModel(c, n)
    BY <2>1, <2>2 DEF Next, SnipeStep, HandOut, DeleteAsset, inventory, vars
  <2>4. n = m
    BY <1>1, <1>3, <2>3 DEF MakeModel
  <2> QED BY <2>3, <2>4
<1>4. ASSUME NEW a \in Assets, asset[a].model = m
      PROVE  asset'[a].model = m
  <2>1. CASE UNCHANGED asset
    BY <1>4, <2>1
  <2>2. ASSUME NEW b \in Assets, NEW n, PlaceSkeleton(b, n)
        PROVE  asset'[a].model = m
    BY <1>1, <1>2, <1>4, <2>2 DEF PlaceSkeleton, Unborn
  <2>3. ASSUME NEW b \in Assets, HandOut(b) \/ DeleteAsset(b)
        PROVE  asset'[a].model = m
    BY <1>1, <1>4, <2>3 DEF HandOut, DeleteAsset
  <2>4. ASSUME NEW c \in Calls, CheckoutAsset(c) \/ \E cond \in Live : UpdateSnipeAsset(c, cond)
        PROVE  asset'[a].model = m
    <3>1. \/ UNCHANGED asset
          \/ asset' = [asset EXCEPT ![call[c].asset].holder = call[c].req]
          \/ \E cond \in Live : asset' = [asset EXCEPT ![call[c].asset].cond = cond]
      BY <2>4 DEF CheckoutAsset, UpdateSnipeAsset
    <3>2. /\ asset[a] \in [cond : Live \cup {"unborn", "gone"}, model : Models \cup {None},
                           holder : Requests \cup {"nobody", "someone"}]
          /\ a \in DOMAIN asset
      BY <1>1
    <3>3. ASSUME NEW b, NEW h, \/ asset' = [asset EXCEPT ![b].holder = h]
                               \/ asset' = [asset EXCEPT ![b].cond = h]
          PROVE  asset'[a].model = m
      BY <1>4, <3>2, <3>3
    <3> QED BY <1>4, <3>1, <3>3
  <2>5. ASSUME NEW c \in Calls, AssetStep(c)
        PROVE  \/ UNCHANGED asset
               \/ \E b \in Assets : \E n : PlaceSkeleton(b, n)
               \/ CheckoutAsset(c) \/ \E cond \in Live : UpdateSnipeAsset(c, cond)
    BY <2>5
    DEF AssetStep, ApproveStandard, UseExistingModel, CreateNewModel, FillAssetDetails,
        ConsiderOrphan, PickStandard, MakeSkeleton, MakeModel, CompleteStandard,
        CompleteLinked, FindStock, SkeletonFails, RollbackModel, LinkModelRequest, Probe,
        SaveReady, CheckLive, CheckModel, RejectOrphan, SaveOrphanRejection, DeleteOrphanModel,
        inventory
  <2> QED BY <2>1, <2>2, <2>3, <2>4, <2>5 DEF Next, SnipeStep, inventory, vars
<1> QED BY <1>3, <1>4

\* A call that is building or rolling back goes on with its model, gives it its
\* first asset, or deletes it, unless it crashes there.
LEMMA BuildersGo ==
    ASSUME Typed, [Next]_vars, FailAt \cap Building = {},
           NEW d \in Calls, call[d].at \in Building, call[d].model \in Models
    PROVE  \/ call'[d].at \in Building /\ call'[d].model = call[d].model
           \/ model'[call[d].model] # "ours"
           \/ \E a \in Assets : asset'[a].model = call[d].model
<1> DEFINE n == call[d].model
           Settled == \/ call'[d].at \in Building /\ call'[d].model = n
                      \/ model'[n] # "ours"
                      \/ \E a \in Assets : asset'[a].model = n
<1>0. SUFFICES Settled
  OBVIOUS
<1>1. /\ call \in [Calls -> CallStates(AssetSteps)] /\ call[d] \in CallStates(AssetSteps)
      /\ model \in [Models -> {"unborn", "catalogue", "ours", "gone"}]
      /\ asset \in [Assets -> [cond : Live \cup {"unborn", "gone"}, model : Models \cup {None},
                               holder : Requests \cup {"nobody", "someone"}]]
  BY DEF Typed, StoreTyped, CallsTyped, AssetsTyped, ModelsTyped
<1>2. CASE call'[d] = call[d]
  BY <1>2
<1>3. ASSUME NEW c \in Calls, StoreStep(c) \/ AssetStep(c), c # d
      PROVE  call'[d] = call[d]
  BY <1>3, StoreCalls, AssetCalls
<1>4. ~StoreStep(d)
  BY DEF StoreStep, CreateRequest, EditRequest, ApproveRequest, ReviewRequest, RejectRequest,
         HandleStandardApproval, HandleNonStandardApproval, HandleAdminNonStandardApproval,
         SaveEdit, SaveRejection, Fail, Begin, Free, At, Building
<1>5. AssetStep(d) => \/ SkeletonFails(d) \/ RollbackModel(d)
                      \/ \E a \in Assets : MakeSkeleton(d, a)
  <2>1. \A loaded : \A r \in Requests : ~Begin(d, r, loaded)
    BY DEF Begin, Free, Building
  <2>2. \A r \in Requests :
            /\ ~ApproveStandard(d, r) /\ ~CreateNewModel(d, r) /\ ~FillAssetDetails(d, r)
            /\ ~ConsiderOrphan(d, r)
            /\ \A m \in Models : ~UseExistingModel(d, r, m)
    BY <2>1
    DEF ApproveStandard, CreateNewModel, FillAssetDetails, ConsiderOrphan, UseExistingModel
  <2>3. /\ \A a \in Assets : ~PickStandard(d, a)
        /\ \A m \in Models : ~MakeModel(d, m)
        /\ \A cond \in Live : ~UpdateSnipeAsset(d, cond)
        /\ ~CheckoutAsset(d) /\ ~FindStock(d) /\ ~CompleteStandard(d) /\ ~CompleteLinked(d)
        /\ ~LinkModelRequest(d) /\ ~Probe(d) /\ ~SaveReady(d) /\ ~CheckLive(d)
        /\ ~CheckModel(d) /\ ~RejectOrphan(d) /\ ~SaveOrphanRejection(d)
        /\ ~DeleteOrphanModel(d)
    BY DEF PickStandard, MakeModel, UpdateSnipeAsset, CheckoutAsset, AfterCheckout, FindStock,
           CompleteStandard, CompleteLinked, LinkModelRequest, Probe, AfterProbe, SaveReady,
           CheckLive, CheckModel, RejectOrphan, SaveOrphanRejection, DeleteOrphanModel, At,
           Building
  <2> QED BY <2>2, <2>3 DEF AssetStep
<1>6. CASE SkeletonFails(d)
  <2>1. call' = [call EXCEPT ![d].at = "rollbackModel"]
    BY <1>6 DEF SkeletonFails, Goto
  <2> QED BY <1>1, <2>1 DEF CallStates, Building
<1>7. ASSUME NEW a \in Assets, MakeSkeleton(d, a)
      PROVE  asset'[a].model = n
  <2>1. asset' = [asset EXCEPT ![a] = [cond |-> "bare", model |-> n, holder |-> "nobody"]]
    BY <1>7 DEF MakeSkeleton, PlaceSkeleton
  <2> QED BY <1>1, <2>1
<1>8. CASE RollbackModel(d)
  <2>1. DeleteModel(n) /\ UNCHANGED asset
    BY <1>8 DEF RollbackModel
  <2>2. CASE HasAssets(n)
    BY <2>1, <2>2 DEF HasAssets
  <2>3. CASE ~HasAssets(n)
    BY <1>1, <2>1, <2>3 DEF DeleteModel, ModelExists
  <2> QED BY <2>2, <2>3
<1>9. UNCHANGED call \/ \E c \in Calls : StoreStep(c) \/ AssetStep(c)
  BY DEF Next, SnipeStep, HandOut, DeleteAsset, storeVars, vars
<1> HIDE DEF Settled
<1>10. call'[d] = call[d] => Settled
  BY <1>2
<1>11. SkeletonFails(d) \/ RollbackModel(d) => Settled
  BY <1>6, <1>8
<1>12. \A a \in Assets : MakeSkeleton(d, a) => Settled
  BY <1>7 DEF Settled
<1> QED BY <1>3, <1>4, <1>5, <1>9, <1>10, <1>11, <1>12

\* A model the portal created and never used is still being built or rolled back
\* by a call, for any number of calls overlapping or not, if the process does not
\* die between the model and its first asset: that is the compensation's one gap.
THEOREM ModelsAreCleanedUp ==
    ASSUME FailAt \cap {"makeFirstSkeleton", "rollbackModel"} = {}
    PROVE  Spec => []NoOrphanModels
<1> DEFINE OrphanInv == Typed /\ NoOrphanModels
<1>1. Init => OrphanInv
  <2> SUFFICES ASSUME Init PROVE NoOrphanModels
    BY InitTyped
  <2> QED BY DEF Init, NoOrphanModels
<1>2. OrphanInv /\ [Next]_vars => OrphanInv'
  <2> SUFFICES ASSUME OrphanInv, [Next]_vars PROVE OrphanInv'
    OBVIOUS
  <2>1. Typed /\ Typed'
    BY NextTyped
  <2>2. ASSUME NEW m \in Models, model'[m] = "ours"
        PROVE  \/ \E a \in Assets : asset'[a].model = m
               \/ \E c \in Calls : call'[c].at \in Building /\ call'[c].model = m
    <3>1. CASE \E a \in Assets : asset[a].model = m
      BY <2>1, <3>1, ModelsMove
    <3>2. ASSUME NEW c \in Calls, call[c].at \in Building, call[c].model = m
          PROVE  \/ \E a \in Assets : asset'[a].model = m
                 \/ call'[c].at \in Building /\ call'[c].model = m
      BY <2>1, <2>2, <3>2, BuildersGo DEF Building
    <3>3. ASSUME NEW c \in Calls, MakeModel(c, m)
          PROVE  call'[c].at \in Building /\ call'[c].model = m
      <4>1. call' = [call EXCEPT ![c] = [call[c] EXCEPT !.at = "makeFirstSkeleton", !.model = m]]
        BY <3>3 DEF MakeModel, Continue
      <4>2. call \in [Calls -> CallStates(AssetSteps)]
        BY <2>1 DEF Typed, StoreTyped, CallsTyped
      <4> QED BY <4>1, <4>2 DEF Building, CallStates
    <3>4. model[m] = "ours" \/ \E c \in Calls : MakeModel(c, m)
      BY <2>1, <2>2, ModelsMove
    <3> QED BY <3>1, <3>2, <3>3, <3>4 DEF NoOrphanModels, Building
  <2> QED BY <2>1, <2>2 DEF NoOrphanModels, Building
<1>3. OrphanInv => NoOrphanModels
  OBVIOUS
<1> QED BY <1>1, <1>2, <1>3, PTL DEF Spec

(***************************************************************************)
(* The two workflows.  A request with the row of the non-standard workflow *)
(* is not a standard one, and a call knows which of the two it is in.      *)
(***************************************************************************)
StandardSteps == {"pickStandard", "checkoutStandard", "completeStandard"}

RowShaped(r) ==
    HasModelRequest(r) => /\ row[r].status # "NONE"
                          /\ row[r].type # "STANDARD"
                          /\ mr[r].id # 0

CallShaped(c) ==
    /\ call[c].at = "approveNonStandard" => row[call[c].req].type # "STANDARD"
    /\ call[c].at \in StandardSteps => row[call[c].req].type = "STANDARD"
    /\ call[c].at = "saveEdit" /\ call[c].mr = 0 => ~HasModelRequest(call[c].req)

Shaped == (\A r \in Requests : RowShaped(r)) /\ (\A c \in Calls : CallShaped(c))

\* A step leaves the tables alone but for the request of its call.
LEMMA TouchesOwn ==
    ASSUME Typed, NEW c \in Calls, StoreStep(c) \/ AssetStep(c), NEW q \in Requests
    PROVE  \/ call[c].req = q /\ call[c].at # "idle"
           \/ row'[q].type = row[q].type /\ mr'[q] = mr[q]
           \/ /\ Free(c, q) /\ row[q].status = "NONE" /\ mr'[q] = mr[q]
              /\ call[c].at = "idle"
<1>1. row \in [Requests -> Rows] /\ mr \in [Requests -> ModelRequests]
  BY DEF Typed, StoreTyped, RowsTyped, WorkflowsTyped
<1>2. SUFFICES ASSUME ~(call[c].req = q /\ call[c].at # "idle")
               PROVE  \/ row'[q].type = row[q].type /\ mr'[q] = mr[q]
                      \/ /\ Free(c, q) /\ row[q].status = "NONE" /\ mr'[q] = mr[q]
                         /\ call[c].at = "idle"
  OBVIOUS
<1>3. ASSUME AssetStep(c)
      PROVE  row'[q].type = row[q].type /\ mr'[q] = mr[q]
  <2>1. row'[q].type = row[q].type
    BY <1>3, AssetRows
  <2>2. CASE LinkModelRequest(c) \/ SaveReady(c)
    BY <1>1, <1>2, <2>1, <2>2 DEF LinkModelRequest, SaveReady, At
  <2>3. CASE ~(LinkModelRequest(c) \/ SaveReady(c))
    <3>1. mr' = mr
      BY <1>3, <2>3
      DEF AssetStep, ApproveStandard, UseExistingModel, CreateNewModel, FillAssetDetails,
          ConsiderOrphan, PickStandard, MakeSkeleton, MakeModel, UpdateSnipeAsset,
          CheckoutAsset, CompleteStandard, FindStock, SkeletonFails, RollbackModel, Probe,
          CompleteLinked, CheckLive, CheckModel, RejectOrphan, SaveOrphanRejection,
          DeleteOrphanModel
    <3> QED BY <2>1, <3>1
  <2> QED BY <2>2, <2>3
<1>4. ASSUME NEW r \in Requests, NEW kind \in Kinds, NEW type \in Types, NEW auto \in BOOLEAN,
             CreateRequest(c, r, kind, type, auto)
      PROVE  \/ row'[q].type = row[q].type /\ mr'[q] = mr[q]
             \/ /\ Free(c, q) /\ row[q].status = "NONE" /\ mr'[q] = mr[q]
                /\ call[c].at = "idle"
  BY <1>1, <1>4 DEF CreateRequest, Begin, Free
<1>5. ASSUME \/ HandleStandardApproval(c) \/ HandleNonStandardApproval(c)
             \/ HandleAdminNonStandardApproval(c) \/ SaveEdit(c) \/ SaveRejection(c)
      PROVE  row'[q] = row[q] /\ mr'[q] = mr[q]
  BY <1>1, <1>2, <1>5
  DEF HandleStandardApproval, HandleNonStandardApproval, HandleAdminNonStandardApproval,
      SaveEdit, SaveRejection, RecordApproval, SetStatus, At
<1>6. ASSUME \/ Fail(c)
             \/ \E r \in Requests : \/ ApproveRequest(c, r) \/ ReviewRequest(c, r)
                                    \/ RejectRequest(c, r)
             \/ \E r \in Requests, kind \in Kinds, type \in Types, flag \in BOOLEAN :
                   EditRequest(c, r, kind, type, flag)
      PROVE  row' = row /\ mr' = mr
  BY <1>6 DEF Fail, ApproveRequest, ReviewRequest, RejectRequest, EditRequest
<1> QED BY <1>3, <1>4, <1>5, <1>6 DEF StoreStep

\* The fulfilment flow neither adds nor drops a row of the workflow.
LEMMA AssetKeepsRows ==
    ASSUME Typed, NEW c \in Calls, AssetStep(c), NEW q \in Requests
    PROVE  /\ mr'[q].status # "NONE" <=> mr[q].status # "NONE"
           /\ mr'[q].id = mr[q].id
           /\ \/ mr'[q].asset = mr[q].asset
              \/ /\ call[c].req = q
                 /\ call[c].at \in {"linkStock", "linkSkeleton", "linkNewModel"}
<1>1. mr \in [Requests -> ModelRequests] /\ mr[q] \in ModelRequests
  BY DEF Typed, StoreTyped, WorkflowsTyped
<1>2. CASE LinkModelRequest(c)
  <2>1. /\ mr' = [mr EXCEPT ![call[c].req].status = "COMPLETED",
                            ![call[c].req].model = call[c].model,
                            ![call[c].req].asset = call[c].asset,
                            ![call[c].req].ready =
                                IF At(c, "linkNewModel") THEN @ ELSE call[c].flag]
        /\ call[c].at \in {"linkStock", "linkSkeleton", "linkNewModel"}
        /\ mr[call[c].req].status # "NONE"
    BY <1>2 DEF LinkModelRequest, StillThere, HasModelRequest
  <2>2. CASE call[c].req = q
    BY <1>1, <2>1, <2>2 DEF ModelRequests
  <2>3. CASE call[c].req # q
    <3>1. mr'[q] = mr[q]
      BY <1>1, <2>1, <2>3
    <3> QED BY <3>1
  <2> QED BY <2>2, <2>3
<1>3. CASE SaveReady(c)
  <2>1. mr' = [mr EXCEPT ![call[c].req].ready = call[c].flag]
    BY <1>3 DEF SaveReady
  <2> QED BY <1>1, <2>1 DEF ModelRequests
<1>4. CASE ~(LinkModelRequest(c) \/ SaveReady(c))
  <2>1. mr' = mr
    BY <1>4
    DEF AssetStep, ApproveStandard, UseExistingModel, CreateNewModel, FillAssetDetails,
        ConsiderOrphan, PickStandard, MakeSkeleton, MakeModel, UpdateSnipeAsset,
        CheckoutAsset, CompleteStandard, FindStock, SkeletonFails, RollbackModel, Probe,
        CompleteLinked, CheckLive, CheckModel, RejectOrphan, SaveOrphanRejection,
        DeleteOrphanModel
  <2> QED BY <2>1
<1> QED BY <1>2, <1>3, <1>4

\* A shared handler keeps the shape of the tables and of its own call.
LEMMA StoreShapes ==
    ASSUME Typed, Shaped, NEW c \in Calls, StoreStep(c)
    PROVE  (\A q \in Requests : RowShaped(q)') /\ CallShaped(c)'
<1>1. /\ row \in [Requests -> Rows] /\ mr \in [Requests -> ModelRequests]
      /\ call \in [Calls -> CallStates(AssetSteps)]
      /\ call[c].at # "idle" => call[c].req \in Requests
  BY CallTyped DEF Typed, StoreTyped, RowsTyped, WorkflowsTyped, CallsTyped
<1>2. \A q \in Requests : mr[q].id \in Nat /\ mr[q].id + 1 # 0
  <2>1. \A q \in Requests : mr[q].id \in Nat
    BY <1>1 DEF ModelRequests
  <2> QED BY <2>1
<1>3. \A step, r : /\ Loaded(step, r).at = step /\ Loaded(step, r).req = r
                   /\ Loaded(step, r).mr = ModelRequestId(r)
  BY DEF Loaded, Idle
<1>4. Idle.at = "idle" /\ (call'[c] = Idle => CallShaped(c)')
  BY DEF Idle, CallShaped, StandardSteps
<1>5. Return(c) => call'[c] = Idle
  BY <1>1 DEF Return
<1>6. ASSUME NEW r \in Requests, NEW kind \in Kinds, NEW type \in Types, NEW auto \in BOOLEAN,
             CreateRequest(c, r, kind, type, auto)
      PROVE  (\A q \in Requests : RowShaped(q)') /\ CallShaped(c)'
  <2>1. /\ mr' = mr /\ row[r].status = "NONE" /\ row'[r].type = type
        /\ \A q \in Requests \ {r} : row'[q] = row[q]
    BY <1>1, <1>6 DEF CreateRequest, Unfiled
  <2>2. \A q \in Requests : RowShaped(q)'
    BY <2>1 DEF Shaped, RowShaped, HasModelRequest
  <2>3. CASE auto
    <3>1. call'[c] = Loaded(ApprovalStep(type), r)
      BY <1>6, <2>3, BeginAdvances DEF CreateRequest
    <3>2. call'[c].at = ApprovalStep(type) /\ call'[c].req = r
      BY <1>3, <3>1
    <3> QED BY <2>1, <2>2, <3>2 DEF ApprovalStep, CallShaped, StandardSteps
  <2>4. CASE ~auto
    <3>1. call' = call /\ call[c].at = "idle"
      BY <1>6, <2>4 DEF CreateRequest, Free
    <3> QED BY <2>2, <3>1 DEF CallShaped, StandardSteps
  <2> QED BY <2>3, <2>4
<1>7. ASSUME NEW r \in Requests,
             ApproveRequest(c, r) \/ ReviewRequest(c, r) \/ RejectRequest(c, r)
      PROVE  (\A q \in Requests : RowShaped(q)') /\ CallShaped(c)'
  <2>1. row' = row /\ mr' = mr
    BY <1>7 DEF ApproveRequest, ReviewRequest, RejectRequest
  <2>2. PICK step \in {ApprovalStep(row[r].type), "approveReview", "saveRejection"} :
           Begin(c, r, Loaded(step, r))
    BY <1>7 DEF ApproveRequest, ReviewRequest, RejectRequest
  <2>3. call'[c].at = step /\ call'[c].req = r
    BY <1>3, <2>2, BeginAdvances
  <2>4. CallShaped(c)'
    BY <2>1, <2>3 DEF ApprovalStep, CallShaped, StandardSteps
  <2> QED BY <2>1, <2>4 DEF Shaped, RowShaped, HasModelRequest
<1>8. ASSUME NEW r \in Requests, NEW kind \in Kinds, NEW type \in Types, NEW flag \in BOOLEAN,
             EditRequest(c, r, kind, type, flag)
      PROVE  (\A q \in Requests : RowShaped(q)') /\ CallShaped(c)'
  <2>1. row' = row /\ mr' = mr
    BY <1>8 DEF EditRequest
  <2>2. call'[c] = [Loaded("saveEdit", r) EXCEPT !.kind = kind, !.type = type, !.flag = flag]
    BY <1>8, BeginAdvances DEF EditRequest
  <2>3. call'[c].at = "saveEdit" /\ call'[c].req = r /\ call'[c].mr = ModelRequestId(r)
    BY <2>2 DEF Loaded, Idle
  <2>4. ModelRequestId(r) = 0 => ~HasModelRequest(r)
    BY DEF ModelRequestId, Shaped, RowShaped
  <2>5. CallShaped(c)'
    BY <2>1, <2>3, <2>4 DEF CallShaped, StandardSteps, HasModelRequest
  <2> QED BY <2>1, <2>5 DEF Shaped, RowShaped, HasModelRequest
<1>9. CASE HandleStandardApproval(c)
  <2>1. /\ row' = [row EXCEPT ![call[c].req].status = "APPROVED", ![call[c].req].approved = TRUE]
        /\ mr' = mr /\ call'[c] = Idle
    BY <1>5, <1>9 DEF HandleStandardApproval, RecordApproval
  <2>2. \A q \in Requests : /\ row'[q].type = row[q].type
                            /\ row'[q].status # "NONE" \/ row'[q].status = row[q].status
    BY <1>1, <2>1 DEF Rows
  <2> QED BY <1>4, <2>1, <2>2 DEF Shaped, RowShaped, HasModelRequest
<1>10. CASE HandleNonStandardApproval(c)
  <2> DEFINE r == call[c].req
  <2>1. /\ row' = [row EXCEPT ![r].status = "APPROVED", ![r].approved = TRUE]
        /\ mr' = [mr EXCEPT ![r] = [NoModelRequest EXCEPT !.id = mr[r].id + 1,
                                                          !.status = "PENDING"]]
        /\ call'[c] = Idle /\ call[c].at = "approveNonStandard" /\ r \in Requests
    BY <1>1, <1>5, <1>10 DEF HandleNonStandardApproval, RecordApproval, At
  <2>2. \A q \in Requests : /\ row'[q].type = row[q].type
                            /\ row'[q].status # "NONE" \/ row'[q].status = row[q].status
    BY <1>1, <2>1 DEF Rows
  <2>3. row[r].type # "STANDARD" /\ row'[r].status # "NONE"
    BY <1>1, <2>1 DEF Shaped, CallShaped, Rows
  <2>4. mr'[r].id = mr[r].id + 1
    BY <1>1, <2>1 DEF NoModelRequest
  <2>5. \A q \in Requests \ {r} : mr'[q] = mr[q]
    BY <1>1, <2>1
  <2> HIDE DEF r
  <2>6. ASSUME NEW q \in Requests, q = r
        PROVE  RowShaped(q)'
    <3>1. mr'[q].id # 0
      BY <1>2, <2>4, <2>6
    <3>2. row'[q].type # "STANDARD" /\ row'[q].status # "NONE"
      BY <2>2, <2>3, <2>6
    <3> QED BY <3>1, <3>2 DEF RowShaped
  <2>7. ASSUME NEW q \in Requests, q # r
        PROVE  RowShaped(q)'
    BY <2>2, <2>5, <2>7 DEF Shaped, RowShaped, HasModelRequest
  <2> QED BY <1>4, <2>1, <2>6, <2>7
<1>11. CASE HandleAdminNonStandardApproval(c)
  <2>1. /\ row' = [row EXCEPT ![call[c].req].signedOff = TRUE]
        /\ mr' = [mr EXCEPT ![call[c].req].status = "APPROVED"]
        /\ HasModelRequest(call[c].req)
        /\ call'[c] = Idle
    BY <1>5, <1>11 DEF HandleAdminNonStandardApproval, StillThere
  <2>2. \A q \in Requests : row'[q].type = row[q].type /\ row'[q].status = row[q].status
    BY <1>1, <2>1 DEF Rows
  <2>3. \A q \in Requests : /\ mr'[q].id = mr[q].id
                            /\ mr'[q].status = mr[q].status \/ q = call[c].req
    BY <1>1, <2>1 DEF ModelRequests
  <2> QED BY <1>4, <2>1, <2>2, <2>3 DEF Shaped, RowShaped, HasModelRequest
<1>12. CASE SaveEdit(c)
  <2> DEFINE r == call[c].req
             drops == call[c].type = "STANDARD" /\ call[c].mr # 0
  <2>1. /\ row' = [row EXCEPT ![r].kind = call[c].kind, ![r].type = call[c].type]
        /\ mr' = IF drops THEN [mr EXCEPT ![r] = [NoModelRequest EXCEPT !.id = mr[r].id]] ELSE mr
        /\ call'[c] = Idle /\ call[c].at = "saveEdit" /\ r \in Requests
    BY <1>1, <1>5, <1>12 DEF SaveEdit, At
  <2>2. \A q \in Requests : /\ row'[q].status = row[q].status
                            /\ q # r => row'[q].type = row[q].type /\ mr'[q] = mr[q]
    BY <1>1, <2>1 DEF Rows
  <2>3. row'[r].type = call[c].type
    BY <1>1, <2>1 DEF Rows
  <2>4. CASE drops
    <3>1. mr'[r].status = "NONE"
      BY <1>1, <2>1, <2>4 DEF NoModelRequest
    <3> HIDE DEF r, drops
    <3>2. ASSUME NEW q \in Requests
          PROVE  RowShaped(q)'
      <4>1. CASE q = r
        BY <3>1, <4>1 DEF RowShaped, HasModelRequest
      <4>2. CASE q # r
        BY <2>2, <4>2 DEF Shaped, RowShaped, HasModelRequest
      <4> QED BY <4>1, <4>2
    <3> QED BY <1>4, <2>1, <3>2
  <2>5. CASE ~drops
    <3>1. mr' = mr
      BY <2>1, <2>5
    <3>2. call[c].type = "STANDARD" => ~HasModelRequest(r)
      BY <2>1, <2>5 DEF Shaped, CallShaped
    <3> HIDE DEF r, drops
    <3> QED BY <1>4, <2>1, <2>2, <2>3, <3>1, <3>2 DEF Shaped, RowShaped, HasModelRequest
  <2> QED BY <2>4, <2>5
<1>13. CASE SaveRejection(c)
  <2>1. row' = [row EXCEPT ![call[c].req].status = "REJECTED"] /\ mr' = mr /\ call'[c] = Idle
    BY <1>5, <1>13 DEF SaveRejection, SetStatus
  <2>2. \A q \in Requests : /\ row'[q].type = row[q].type
                            /\ row'[q].status # "NONE" \/ row'[q].status = row[q].status
    BY <1>1, <2>1 DEF Rows
  <2> QED BY <1>4, <2>1, <2>2 DEF Shaped, RowShaped, HasModelRequest
<1>14. CASE Fail(c)
  BY <1>4, <1>5, <1>14 DEF Fail, Shaped, RowShaped, HasModelRequest
<1> QED BY <1>6, <1>7, <1>8, <1>9, <1>10, <1>11, <1>12, <1>13, <1>14 DEF StoreStep

\* A call comes to a step of the standard workflow from the one before it, or at
\* the sign-off of a standard request.
LEMMA StandardStepsCome ==
    ASSUME Typed, NEW c \in Calls, AssetStep(c), call'[c].at \in StandardSteps
    PROVE  \/ call[c].at \in StandardSteps /\ call'[c].req = call[c].req
           \/ \E r \in Requests : /\ Free(c, r) /\ row[r].type = "STANDARD"
                                  /\ call'[c].req = r
<1>1. call \in [Calls -> CallStates(AssetSteps)] /\ call[c] \in CallStates(AssetSteps)
  BY DEF Typed, StoreTyped, CallsTyped
<1>2. \A step, r : Loaded(step, r).at = step /\ Loaded(step, r).req = r
  BY DEF Loaded, Idle
<1>3. \A step : Goto(c, step) => call'[c].at = step /\ call'[c].req = call[c].req
  BY <1>1 DEF Goto, CallStates
<1>4. ~Return(c)
  BY <1>1 DEF Return, Idle, StandardSteps
<1>5. ASSUME NEW step, NEW a, NEW m, NEW flag, step \notin StandardSteps
      PROVE  /\ ~Continue(c, [call[c] EXCEPT !.at = step, !.asset = a])
             /\ ~Continue(c, [call[c] EXCEPT !.at = step, !.model = m])
             /\ ~Continue(c, [call[c] EXCEPT !.at = step, !.flag = flag])
  <2>1. /\ [call[c] EXCEPT !.at = step, !.asset = a].at = step
        /\ [call[c] EXCEPT !.at = step, !.model = m].at = step
        /\ [call[c] EXCEPT !.at = step, !.flag = flag].at = step
    BY <1>1 DEF CallStates
  <2>2. ASSUME NEW locals, Continue(c, locals) PROVE locals.at \in StandardSteps
    BY <1>1, <2>2 DEF Continue
  <2> QED BY <1>5, <2>1, <2>2
<1>6. ASSUME NEW r \in Requests, ApproveStandard(c, r)
      PROVE  Free(c, r) /\ row[r].type = "STANDARD" /\ call'[c].req = r
  BY <1>2, <1>6, BeginAdvances DEF ApproveStandard, AwaitsStandardSignOff
<1>7. ASSUME NEW a \in Assets, PickStandard(c, a)
      PROVE  call[c].at \in StandardSteps /\ call'[c].req = call[c].req
  BY <1>1, <1>7 DEF PickStandard, At, Continue, StandardSteps, CallStates
<1>8. ASSUME CheckoutAsset(c)
      PROVE  call[c].at \in StandardSteps /\ call'[c].req = call[c].req
  BY <1>3, <1>8 DEF CheckoutAsset, AfterCheckout, StandardSteps
<1>9. ASSUME NEW r \in Requests
      PROVE  /\ ~CreateNewModel(c, r) /\ ~FillAssetDetails(c, r) /\ ~ConsiderOrphan(c, r)
             /\ \A m \in Models : ~UseExistingModel(c, r, m)
  <2>1. ASSUME NEW loaded, Begin(c, r, loaded) PROVE loaded.at \in StandardSteps
    BY <1>1, <2>1 DEF Begin
  <2>2. ~CreateNewModel(c, r)
    BY <1>2, <2>1 DEF CreateNewModel, StandardSteps
  <2>3. ~FillAssetDetails(c, r)
    BY <1>1 DEF FillAssetDetails, Begin, Loaded, Idle, StandardSteps
  <2>4. ~ConsiderOrphan(c, r)
    BY <1>1 DEF ConsiderOrphan, Begin, Loaded, Idle, StandardSteps
  <2>5. ASSUME NEW m \in Models PROVE ~UseExistingModel(c, r, m)
    BY <1>1 DEF UseExistingModel, Begin, Loaded, Idle, StandardSteps
  <2> QED BY <2>2, <2>3, <2>4, <2>5
<1>10. /\ \A a \in Assets : ~MakeSkeleton(c, a)
       /\ \A m \in Models : ~MakeModel(c, m)
       /\ ~FindStock(c) /\ ~Probe(c) /\ ~SaveReady(c)
  <2>1. ASSUME NEW a \in Assets PROVE ~MakeSkeleton(c, a)
    <3>1. call[c].at \in DOMAIN AfterSkeleton => AfterSkeleton[call[c].at] \notin StandardSteps
      BY DEF AfterSkeleton, StandardSteps
    <3> QED BY <1>5, <3>1 DEF MakeSkeleton
  <2>2. ASSUME NEW m \in Models PROVE ~MakeModel(c, m)
    BY <1>5 DEF MakeModel, StandardSteps
  <2>3. ~Probe(c)
    <3>1. call[c].at \in DOMAIN AfterProbe => AfterProbe[call[c].at] \notin StandardSteps
      BY DEF AfterProbe, StandardSteps
    <3> QED BY <1>5, <3>1 DEF Probe
  <2>4. ~SaveReady(c)
    BY <1>4, <1>5 DEF SaveReady, StandardSteps
  <2>5. ~FindStock(c)
    <3>1. ~Goto(c, "makeSkeleton")
      BY <1>3 DEF StandardSteps
    <3>2. ASSUME NEW a \in Assets
          PROVE  ~Continue(c, [call[c] EXCEPT !.at = "probeStock", !.asset = a])
      BY <1>5 DEF StandardSteps
    <3> QED BY <3>1, <3>2 DEF FindStock
  <2> QED BY <2>1, <2>2, <2>3, <2>4, <2>5
<1>11. /\ ~CompleteStandard(c) /\ ~CompleteLinked(c) /\ ~RollbackModel(c)
       /\ ~LinkModelRequest(c) /\ ~DeleteOrphanModel(c) /\ ~SkeletonFails(c) /\ ~CheckLive(c)
       /\ ~CheckModel(c) /\ ~RejectOrphan(c) /\ ~SaveOrphanRejection(c)
       /\ \A cond \in Live : ~UpdateSnipeAsset(c, cond)
  BY <1>3, <1>4
  DEF CompleteStandard, CompleteLinked, RollbackModel, LinkModelRequest, DeleteOrphanModel,
      SkeletonFails, CheckLive, CheckModel, RejectOrphan, SaveOrphanRejection, UpdateSnipeAsset,
      StandardSteps
<1> QED BY <1>6, <1>7, <1>8, <1>9, <1>10, <1>11 DEF AssetStep

ShapeInv == SerialInv /\ Shaped

LEMMA ShapeNext ==
    ASSUME ~Overlap
    PROVE  ShapeInv /\ [Next]_vars => ShapeInv'
<1> SUFFICES ASSUME ShapeInv, [Next]_vars PROVE ShapeInv'
  OBVIOUS
<1>1. Typed /\ Turns /\ Shaped /\ SerialInv'
  BY SerialNext DEF ShapeInv, SerialInv
\* The calls that do not move find their request as they left it.
<1>2. ASSUME NEW c \in Calls, NEW d \in Calls, c # d, StoreStep(c) \/ AssetStep(c)
      PROVE  CallShaped(d)'
  <2>1. call'[d] = call[d]
    BY <1>1, <1>2, StoreCalls, AssetCalls
  <2>2. CASE call[d].at = "idle"
    BY <2>1, <2>2 DEF CallShaped, StandardSteps
  <2>3. CASE call[d].at # "idle"
    <3>1. call[d].req \in Requests /\ call[c].req # call[d].req
      BY <1>1, <1>2, <2>3, CallTyped DEF Turns
    <3>2. ~Free(c, call[d].req)
      BY <2>3 DEF Free
    <3>3. /\ row'[call[d].req].type = row[call[d].req].type
          /\ mr'[call[d].req] = mr[call[d].req]
      BY <1>1, <1>2, <3>1, <3>2, TouchesOwn
    <3> QED BY <1>1, <2>1, <3>3 DEF Shaped, CallShaped, HasModelRequest
  <2> QED BY <2>2, <2>3
<1>3. ASSUME NEW c \in Calls, AssetStep(c), NEW q \in Requests
      PROVE  RowShaped(q)'
  <2>1. row[q].status # "NONE" => row'[q].status # "NONE"
    BY <1>1, <1>3, AssetRows
  <2>2. /\ row'[q].type = row[q].type
        /\ mr'[q].id = mr[q].id
        /\ mr'[q].status # "NONE" <=> mr[q].status # "NONE"
    BY <1>1, <1>3, AssetRows, AssetKeepsRows
  <2> QED BY <1>1, <2>1, <2>2 DEF Shaped, RowShaped, HasModelRequest
<1>4. ASSUME NEW c \in Calls, AssetStep(c)
      PROVE  CallShaped(c)'
  <2>1. call'[c].at \notin {"approveNonStandard", "saveEdit"}
    BY <1>1, <1>4, AssetAdvances DEF Idle, Fulfilling, StoreSteps
  <2>2. ASSUME call'[c].at \in StandardSteps
        PROVE  row'[call'[c].req].type = "STANDARD"
    <3>1. CASE call[c].at \in StandardSteps /\ call'[c].req = call[c].req
      <4>1. call[c].req \in Requests
        BY <1>1, <3>1, CallTyped DEF StandardSteps
      <4> QED BY <1>1, <1>4, <3>1, <4>1, AssetRows DEF Shaped, CallShaped
    <3>2. ASSUME NEW r \in Requests, row[r].type = "STANDARD", call'[c].req = r
          PROVE  row'[call'[c].req].type = "STANDARD"
      BY <1>1, <1>4, <3>2, AssetRows
    <3> QED BY <1>1, <1>4, <2>2, <3>1, <3>2, StandardStepsCome
  <2> QED BY <2>1, <2>2 DEF CallShaped
<1>5. ASSUME NEW c \in Calls, StoreStep(c) \/ AssetStep(c)
      PROVE  Shaped'
  <2>1. (\A q \in Requests : RowShaped(q)') /\ CallShaped(c)'
    BY <1>1, <1>3, <1>4, <1>5, StoreShapes
  <2> QED BY <1>2, <1>5, <2>1 DEF Shaped
<1>6. CASE UNCHANGED <<row, mr, call>>
  <2>1. ASSUME NEW q \in Requests PROVE RowShaped(q)'
    BY <1>1, <1>6 DEF Shaped, RowShaped, HasModelRequest
  <2>2. ASSUME NEW d \in Calls PROVE CallShaped(d)'
    BY <1>1, <1>6 DEF Shaped, CallShaped, HasModelRequest
  <2> QED BY <1>1, <2>1, <2>2 DEF Shaped, ShapeInv
<1>7. UNCHANGED <<row, mr, call>> \/ \E c \in Calls : StoreStep(c) \/ AssetStep(c)
  BY DEF Next, SnipeStep, HandOut, DeleteAsset, storeVars, vars
<1> QED BY <1>1, <1>5, <1>6, <1>7 DEF ShapeInv

LEMMA ShapeInit == Init => ShapeInv
<1> SUFFICES ASSUME Init PROVE ShapeInv
  OBVIOUS
<1>1. Turns
  BY DEF Init, StoreInit, Turns, Idle
<1>2. Shaped
  BY DEF Init, StoreInit, Shaped, RowShaped, CallShaped, HasModelRequest, NoModelRequest, Idle,
         StandardSteps
<1> QED BY InitTyped, <1>1, <1>2 DEF ShapeInv, SerialInv

\* Edits and approvals in turn never leave a STANDARD request with the row of the
\* non-standard workflow, wherever calls fail.
THEOREM StandardStaysStandard ==
    ASSUME ~Overlap
    PROVE  Spec => []StandardCarriesNoWorkflow
<1>1. ShapeInv => StandardCarriesNoWorkflow
  BY DEF ShapeInv, Shaped, RowShaped, StandardCarriesNoWorkflow
<1> QED BY <1>1, ShapeInit, ShapeNext, PTL DEF Spec

(***************************************************************************)
(* What a request in the non-standard workflow holds is what it is linked  *)
(* to: the call that checks a device out has read the link, and while a    *)
(* device is held nobody changes it.                                       *)
(***************************************************************************)
Linked ==
    \A c \in Calls : call[c].at = "checkoutLinked" =>
        /\ HasModelRequest(call[c].req)
        /\ call[c].asset = mr[call[c].req].asset

LEMMA LinkedComes ==
    ASSUME Typed, NEW c \in Calls, AssetStep(c), call'[c].at = "checkoutLinked"
    PROVE  /\ SaveReady(c) /\ call'[c].req = call[c].req /\ call[c].req \in Requests
           /\ call'[c].asset = mr[call[c].req].asset
<1>1. /\ call \in [Calls -> CallStates(AssetSteps)] /\ call[c] \in CallStates(AssetSteps)
      /\ mr \in [Requests -> ModelRequests]
  BY DEF Typed, StoreTyped, CallsTyped, WorkflowsTyped
<1>2. \A step, r : Loaded(step, r).at = step
  BY DEF Loaded, Idle
<1>3. \A step : Goto(c, step) => step = "checkoutLinked"
  BY <1>1 DEF Goto, CallStates
<1>4. ~Return(c)
  BY <1>1 DEF Return, Idle
<1>5. ASSUME NEW step, NEW a, NEW m, NEW flag, step # "checkoutLinked"
      PROVE  /\ ~Continue(c, [call[c] EXCEPT !.at = step, !.asset = a])
             /\ ~Continue(c, [call[c] EXCEPT !.at = step, !.model = m])
             /\ ~Continue(c, [call[c] EXCEPT !.at = step, !.flag = flag])
  <2>1. /\ [call[c] EXCEPT !.at = step, !.asset = a].at = step
        /\ [call[c] EXCEPT !.at = step, !.model = m].at = step
        /\ [call[c] EXCEPT !.at = step, !.flag = flag].at = step
    BY <1>1 DEF CallStates
  <2>2. ASSUME NEW locals, Continue(c, locals) PROVE locals.at = "checkoutLinked"
    BY <1>1, <2>2 DEF Continue
  <2> QED BY <1>5, <2>1, <2>2
<1>6. ASSUME NEW r \in Requests
      PROVE  /\ ~ApproveStandard(c, r) /\ ~CreateNewModel(c, r) /\ ~FillAssetDetails(c, r)
             /\ ~ConsiderOrphan(c, r)
             /\ \A m \in Models : ~UseExistingModel(c, r, m)
  <2>1. ASSUME NEW loaded, Begin(c, r, loaded) PROVE loaded.at = "checkoutLinked"
    BY <1>1, <2>1 DEF Begin
  <2>2. ~CreateNewModel(c, r) /\ ~ApproveStandard(c, r)
    BY <1>2, <2>1 DEF CreateNewModel, ApproveStandard
  <2>3. ~FillAssetDetails(c, r)
    BY <1>1 DEF FillAssetDetails, Begin, Loaded, Idle
  <2>4. ~ConsiderOrphan(c, r)
    BY <1>1 DEF ConsiderOrphan, Begin, Loaded, Idle
  <2>5. ASSUME NEW m \in Models PROVE ~UseExistingModel(c, r, m)
    BY <1>1 DEF UseExistingModel, Begin, Loaded, Idle
  <2> QED BY <2>2, <2>3, <2>4, <2>5
<1>7. /\ \A a \in Assets : ~MakeSkeleton(c, a) /\ ~PickStandard(c, a)
      /\ \A m \in Models : ~MakeModel(c, m)
      /\ ~FindStock(c) /\ ~Probe(c)
  <2>1. ASSUME NEW a \in Assets PROVE ~MakeSkeleton(c, a)
    <3>1. call[c].at \in DOMAIN AfterSkeleton => AfterSkeleton[call[c].at] # "checkoutLinked"
      BY DEF AfterSkeleton
    <3> QED BY <1>5, <3>1 DEF MakeSkeleton
  <2>2. \A m \in Models : ~MakeModel(c, m)
    BY <1>5 DEF MakeModel
  <2>3. ~Probe(c)
    <3>1. call[c].at \in DOMAIN AfterProbe => AfterProbe[call[c].at] # "checkoutLinked"
      BY DEF AfterProbe
    <3> QED BY <1>5, <3>1 DEF Probe
  <2>4. ~FindStock(c)
    <3>1. ASSUME NEW a \in Assets
          PROVE  ~Continue(c, [call[c] EXCEPT !.at = "probeStock", !.asset = a])
      BY <1>5
    <3> QED BY <1>3, <3>1 DEF FindStock
  <2>5. \A a \in Assets : ~PickStandard(c, a)
    BY <1>5 DEF PickStandard
  <2> QED BY <2>1, <2>2, <2>3, <2>4, <2>5
<1>8. /\ ~CompleteStandard(c) /\ ~CompleteLinked(c) /\ ~RollbackModel(c)
      /\ ~LinkModelRequest(c) /\ ~DeleteOrphanModel(c) /\ ~SkeletonFails(c) /\ ~CheckLive(c)
      /\ ~CheckModel(c) /\ ~RejectOrphan(c) /\ ~SaveOrphanRejection(c)
      /\ \A cond \in Live : ~UpdateSnipeAsset(c, cond)
  BY <1>3, <1>4
  DEF CompleteStandard, CompleteLinked, RollbackModel, LinkModelRequest, DeleteOrphanModel,
      SkeletonFails, CheckLive, CheckModel, RejectOrphan, SaveOrphanRejection, UpdateSnipeAsset
<1>9. ~CheckoutAsset(c)
  BY <1>3 DEF CheckoutAsset, AfterCheckout
<1>10. SaveReady(c)
  BY <1>6, <1>7, <1>8, <1>9 DEF AssetStep
<1>11. call[c].req \in Requests
  BY <1>10, CallTyped DEF SaveReady, At
<1>12. call' = [call EXCEPT ![c] = [call[c] EXCEPT !.at = "checkoutLinked",
                                                   !.asset = mr[call[c].req].asset]]
  BY <1>4, <1>10 DEF SaveReady, Continue
<1> QED BY <1>1, <1>10, <1>11, <1>12 DEF CallStates

\* A step keeps the link of a request but for the calls that open or link it.
LEMMA LinkStays ==
    ASSUME Typed, NEW c \in Calls, StoreStep(c) \/ AssetStep(c), NEW q \in Requests,
           mr'[q].status # "NONE"
    PROVE  \/ HasModelRequest(q) /\ mr'[q].asset = mr[q].asset
           \/ /\ call[c].req = q
              /\ call[c].at \in {"approveNonStandard", "linkStock", "linkSkeleton", "linkNewModel"}
<1>1. mr \in [Requests -> ModelRequests]
  BY DEF Typed, StoreTyped, WorkflowsTyped
<1>2. CASE mr'[q] = mr[q]
  BY <1>2 DEF HasModelRequest
<1>3. CASE AssetStep(c)
  BY <1>3, AssetKeepsRows DEF HasModelRequest
<1>4. CASE HandleNonStandardApproval(c)
  <2>1. mr' = [mr EXCEPT ![call[c].req] = [NoModelRequest EXCEPT !.id = mr[call[c].req].id + 1,
                                                                 !.status = "PENDING"]]
    BY <1>4 DEF HandleNonStandardApproval
  <2>2. call[c].req = q \/ mr'[q] = mr[q]
    BY <1>1, <2>1
  <2> QED BY <1>2, <1>4, <2>2 DEF HandleNonStandardApproval, At
<1>5. CASE HandleAdminNonStandardApproval(c)
  <2>1. /\ mr' = [mr EXCEPT ![call[c].req].status = "APPROVED"]
        /\ HasModelRequest(call[c].req)
    BY <1>5 DEF HandleAdminNonStandardApproval, StillThere
  <2>2. mr'[q] = mr[q] \/ (call[c].req = q /\ mr'[q].asset = mr[q].asset)
    BY <1>1, <2>1 DEF ModelRequests
  <2> QED BY <1>2, <2>1, <2>2
<1>6. CASE SaveEdit(c)
  <2>1. \/ mr' = [mr EXCEPT ![call[c].req] = [NoModelRequest EXCEPT !.id = mr[call[c].req].id]]
        \/ mr' = mr
    BY <1>6 DEF SaveEdit
  <2>2. mr'[q] = mr[q] \/ mr'[q].status = "NONE"
    BY <1>1, <2>1 DEF NoModelRequest
  <2> QED BY <1>2, <2>2
<1>7. ASSUME \/ HandleStandardApproval(c) \/ SaveRejection(c) \/ Fail(c)
             \/ \E r \in Requests : \/ ApproveRequest(c, r) \/ ReviewRequest(c, r)
                                    \/ RejectRequest(c, r)
             \/ \E r \in Requests, kind \in Kinds, type \in Types, flag \in BOOLEAN :
                   EditRequest(c, r, kind, type, flag) \/ CreateRequest(c, r, kind, type, flag)
      PROVE  mr'[q] = mr[q]
  BY <1>7 DEF HandleStandardApproval, SaveRejection, Fail, ApproveRequest, ReviewRequest,
              RejectRequest, EditRequest, CreateRequest
<1> QED BY <1>2, <1>3, <1>4, <1>5, <1>6, <1>7 DEF StoreStep

LinkInv == OwedInv /\ Shaped /\ Linked /\ WorkflowHoldsOnlyItsLink

LEMMA LinkNext ==
    ASSUME ~Overlap, FailAt \cap Receipted = {}
    PROVE  LinkInv /\ [Next]_vars => LinkInv'
<1> SUFFICES ASSUME LinkInv, [Next]_vars PROVE LinkInv'
  OBVIOUS
<1>1. /\ Typed /\ Turns /\ Owed /\ Shaped /\ Linked /\ WorkflowHoldsOnlyItsLink
      /\ OwedInv' /\ Shaped'
  BY OwedNext, ShapeNext DEF LinkInv, OwedInv, SerialInv, ShapeInv
<1>2. UNCHANGED <<row, mr, call>> \/ \E c \in Calls : StoreStep(c) \/ AssetStep(c)
  BY DEF Next, SnipeStep, HandOut, DeleteAsset, storeVars, vars
<1>3. ASSUME NEW d \in Calls, call'[d].at = "checkoutLinked"
      PROVE  mr'[call'[d].req].status # "NONE" /\ call'[d].asset = mr'[call'[d].req].asset
  <2>1. CASE UNCHANGED <<row, mr, call>>
    BY <1>1, <1>3, <2>1 DEF Linked, HasModelRequest
  <2>2. ASSUME NEW c \in Calls, StoreStep(c) \/ AssetStep(c), c # d
        PROVE  mr'[call'[d].req].status # "NONE" /\ call'[d].asset = mr'[call'[d].req].asset
    <3>1. call'[d] = call[d]
      BY <1>1, <2>2, StoreCalls, AssetCalls
    <3>2. call[d].req \in Requests /\ call[c].req # call[d].req /\ ~Free(c, call[d].req)
      BY <1>1, <1>3, <2>2, <3>1, CallTyped DEF Turns, Free
    <3>3. mr'[call[d].req] = mr[call[d].req]
      BY <1>1, <2>2, <3>2, TouchesOwn
    <3> QED BY <1>1, <1>3, <3>1, <3>3 DEF Linked, HasModelRequest
  <2>3. ASSUME StoreStep(d)
        PROVE  mr'[call'[d].req].status # "NONE" /\ call'[d].asset = mr'[call'[d].req].asset
    <3>1. call[d].at = "checkoutLinked" /\ call'[d] = call[d]
      BY <1>1, <1>3, <2>3, StoreCalls DEF StoreSteps
    <3>2. Fail(d)
      BY <2>3, <3>1
      DEF StoreStep, CreateRequest, EditRequest, ApproveRequest, ReviewRequest, RejectRequest,
          HandleStandardApproval, HandleNonStandardApproval, HandleAdminNonStandardApproval,
          SaveEdit, SaveRejection, Begin, Free, At
    <3>3. mr' = mr
      BY <3>2 DEF Fail
    <3> QED BY <1>1, <3>1, <3>3 DEF Linked, HasModelRequest
  <2>4. ASSUME AssetStep(d)
        PROVE  mr'[call'[d].req].status # "NONE" /\ call'[d].asset = mr'[call'[d].req].asset
    <3>1. /\ SaveReady(d) /\ call'[d].req = call[d].req /\ call[d].req \in Requests
          /\ call'[d].asset = mr[call[d].req].asset
      BY <1>1, <1>3, <2>4, LinkedComes
    <3>2. HasModelRequest(call[d].req)
      BY <3>1 DEF SaveReady, StillThere
    <3>3. call[d].at = "saveReady"
      BY <3>1 DEF SaveReady, At
    <3> QED BY <1>1, <2>4, <3>1, <3>2, <3>3, AssetKeepsRows DEF HasModelRequest
  <2> QED BY <1>2, <2>1, <2>2, <2>3, <2>4
<1>4. ASSUME NEW q \in Requests, mr'[q].status # "NONE", NEW a \in Assets, asset'[a].holder = q
      PROVE  a = mr'[q].asset
  <2>1. ASSUME NEW c \in Calls, CheckoutAsset(c), call[c].req = q
        PROVE  a = mr'[q].asset
    <3>1. mr' = mr /\ HasModelRequest(q)
      BY <1>4, <2>1 DEF CheckoutAsset, HasModelRequest
    <3>2. call[c].at = "checkoutLinked"
      <4>1. row[q].type # "STANDARD"
        BY <1>1, <3>1 DEF Shaped, RowShaped
      <4> QED BY <1>1, <2>1, <4>1
              DEF Shaped, CallShaped, StandardSteps, CheckoutAsset, AfterCheckout
    <3>3. HeldBy(q) = {}
      BY <1>1, <2>1, <3>2, NothingHeldYet
    <3>4. asset[a].holder # q
      BY <3>3 DEF HeldBy
    <3>5. asset' = [asset EXCEPT ![call[c].asset].holder = call[c].req] \/ UNCHANGED asset
      BY <2>1 DEF CheckoutAsset
    <3>6. asset'[a] = asset[a] \/ a = call[c].asset
      BY <1>1, <3>5 DEF Typed, AssetsTyped
    <3>7. a = call[c].asset
      BY <1>4, <3>4, <3>6
    <3> QED BY <1>1, <2>1, <3>1, <3>2, <3>7 DEF Linked
  <2>2. ASSUME asset[a].holder = q
        PROVE  a = mr'[q].asset
    <3>1. CASE UNCHANGED <<row, mr, call>>
      BY <1>1, <1>4, <2>2, <3>1 DEF WorkflowHoldsOnlyItsLink, HeldBy, HasModelRequest
    <3>2. ASSUME NEW c \in Calls, StoreStep(c) \/ AssetStep(c)
          PROVE  HasModelRequest(q) /\ mr'[q].asset = mr[q].asset
      <4>1. ~(/\ call[c].req = q
              /\ call[c].at \in {"approveNonStandard", "linkStock", "linkSkeleton", "linkNewModel"})
        <5>1. HeldBy(q) # {}
          BY <2>2 DEF HeldBy
        <5> QED BY <1>1, <5>1, NothingHeldYet
      <4> QED BY <1>1, <1>4, <3>2, <4>1, LinkStays
    <3>3. ASSUME HasModelRequest(q), mr'[q].asset = mr[q].asset
          PROVE  a = mr'[q].asset
      BY <1>1, <2>2, <3>3 DEF WorkflowHoldsOnlyItsLink, HeldBy
    <3> QED BY <1>2, <3>1, <3>2, <3>3
  <2> QED BY <1>1, <1>4, <2>1, <2>2, Holders
<1>5. Linked'
  BY <1>3 DEF Linked, HasModelRequest
<1>6. WorkflowHoldsOnlyItsLink'
  BY <1>4 DEF WorkflowHoldsOnlyItsLink, HeldBy, HasModelRequest
<1> QED BY <1>1, <1>5, <1>6 DEF LinkInv

\* A request in the non-standard workflow holds no device but the one it is linked
\* to, whatever edits, approvals and fulfilments take turns on it and wherever they
\* fail but between a checkout and the write that completes the request.
THEOREM WorkflowHoldsItsLink ==
    ASSUME ~Overlap, FailAt \cap {"completeStandard", "completeLinked"} = {}
    PROVE  Spec => []WorkflowHoldsOnlyItsLink
<1>1. Init => LinkInv
  <2> SUFFICES ASSUME Init PROVE LinkInv
    OBVIOUS
  <2>1. Shaped /\ SerialInv
    BY ShapeInit DEF ShapeInv
  <2>2. Linked
    BY DEF Init, StoreInit, Linked, Idle
  <2>3. \A r \in Requests : HeldBy(r) = {}
    BY AssetAssumption DEF Init, HeldBy, Unborn
  <2> QED BY <2>1, <2>2, <2>3
          DEF LinkInv, OwedInv, Owed, AtMostOneDevice, WorkflowHoldsOnlyItsLink
<1>2. LinkInv => WorkflowHoldsOnlyItsLink
  BY DEF LinkInv
<1> QED BY <1>1, <1>2, LinkNext, PTL DEF Spec, Receipted
=============================================================================
