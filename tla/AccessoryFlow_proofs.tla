------------------------ MODULE AccessoryFlow_proofs ------------------------
(* Proofs about AccessoryFlow, for every set of requests, calls and accessories:
   the types, what the quantities of Snipe-IT are worth, what a finished request
   has behind it, and that the web client offers what the service accepts.    *)
EXTENDS AccessoryFlow, RequestStore_proofs

(***************************************************************************)
(* Types.  A call that adds stock knows the accessory it is about: that is *)
(* what makes the quantity it reads a number.                              *)
(***************************************************************************)
InventoryTyped ==
    /\ acc \in [Accessories -> [state : {"unborn", "live", "gone"}, qty : Nat, out : Nat]]
    /\ units \in [Requests -> [Accessories -> Nat]]
CountsTyped == arrived \in [Accessories -> Nat] /\ raced \in [Accessories -> BOOLEAN]
ProcTyped == proc \in [Requests -> Procurements]
PatchTyped == patch \in [Calls -> [before : Nat, more : Nat]]
ReplacedTyped == replaced \subseteq Accessories

Adding == {"readStock", "patchStock"}
Held == \A c \in Calls : call[c].at \in Adding => call[c].accessory \in Accessories

Typed == /\ StoreTyped(AccessorySteps) /\ Held
         /\ InventoryTyped /\ CountsTyped /\ ProcTyped /\ PatchTyped /\ ReplacedTyped

LEMMA StepsNest == StoreSteps \subseteq AccessorySteps
BY DEF AccessorySteps

LEMMA CallTyped ==
    ASSUME Typed, NEW c \in Calls
    PROVE  /\ call[c] \in CallStates(AccessorySteps)
           /\ call[c].accessory \in Accessories \cup {None}
           /\ call[c].flag \in BOOLEAN
           /\ call[c].at # "idle" => call[c].req \in Requests
BY DEF Typed, StoreTyped, CallsTyped, CallsNamed, CallStates

(***************************************************************************)
(* What a step of the flow does to the calls: one of them goes on with     *)
(* other local variables.                                                  *)
(***************************************************************************)
Sound(locals) ==
    /\ locals \in CallStates(AccessorySteps)
    /\ locals.at # "idle" => locals.req \in Requests
    /\ locals.at \in Adding => locals.accessory \in Accessories

Moves(c, locals) == Sound(locals) /\ call' = [call EXCEPT ![c] = locals]

LEMMA IdleSound == Sound(Idle)
BY IdleTyped, StepsNest DEF Sound, Idle, Adding

LEMMA LoadedSound ==
    ASSUME Typed, NEW r \in Requests, NEW step \in AccessorySteps,
           NEW a \in Accessories \cup {None}
    PROVE  /\ step \notin Adding => Sound(Loaded(step, r))
           /\ step \notin Adding \/ a # None => Sound([Loaded(step, r) EXCEPT !.accessory = a])
           /\ Loaded(step, r).at = step
           /\ [Loaded(step, r) EXCEPT !.accessory = a].at = step
<1>1. /\ Loaded(step, r) \in CallStates(AccessorySteps)
      /\ Loaded(step, r).req = r
      /\ Loaded(step, r).at = step
  BY LoadedTyped DEF Typed, StoreTyped
<1> DEFINE loaded == Loaded(step, r)
<1> HIDE DEF loaded
<1>2. /\ loaded \in CallStates(AccessorySteps) /\ loaded.req = r /\ loaded.at = step
  BY <1>1 DEF loaded
<1>3. /\ step \notin Adding => Sound(loaded)
      /\ step \notin Adding \/ a # None => Sound([loaded EXCEPT !.accessory = a])
      /\ [loaded EXCEPT !.accessory = a].at = step
  BY <1>2 DEF Sound, CallStates
<1> QED BY <1>2, <1>3 DEF loaded

LEMMA LocalsSound ==
    ASSUME Typed, NEW c \in Calls, call[c].at # "idle", NEW step \in AccessorySteps \ {"readStock"},
           call[c].at = "readStock" \/ step # "patchStock"
    PROVE  /\ Sound([call[c] EXCEPT !.at = step])
           /\ [call[c] EXCEPT !.at = step].at = step
           /\ [call[c] EXCEPT !.at = step].accessory = call[c].accessory
           /\ \A flag \in BOOLEAN :
                 /\ Sound([call[c] EXCEPT !.at = step, !.flag = flag])
                 /\ [call[c] EXCEPT !.at = step, !.flag = flag].at = step
<1>1. /\ call[c] \in CallStates(AccessorySteps)
      /\ call[c].req \in Requests
      /\ call[c].at = "readStock" => call[c].accessory \in Accessories
  BY CallTyped DEF Typed, Held, Adding
<1> QED BY <1>1 DEF Sound, CallStates, Adding

LEMMA AccessorySound ==
    ASSUME Typed, NEW c \in Calls, call[c].at # "idle", NEW step \in AccessorySteps \ Adding,
           NEW a \in Accessories \cup {None}
    PROVE  /\ Sound([call[c] EXCEPT !.at = step, !.accessory = a])
           /\ [call[c] EXCEPT !.at = step, !.accessory = a].at = step
<1>1. call[c] \in CallStates(AccessorySteps) /\ call[c].req \in Requests
  BY CallTyped
<1> QED BY <1>1 DEF Sound, CallStates

\* The steps that begin a call.
LEMMA BeginMoves ==
    ASSUME Typed, NEW c \in Calls, NEW r \in Requests,
           \/ ApproveStandard(c, r)
           \/ CreateQuote(c, r)
           \/ SkipQuote(c, r)
           \/ \E accepted \in BOOLEAN : AnswerQuote(c, r, accepted)
           \/ \E a \in Accessories : UseExistingAccessory(c, r, a)
           \/ CreateNewAccessory(c, r)
           \/ AddStock(c, r)
           \/ MarkUserProcured(c, r)
           \/ SubmitSelfProcuredDetails(c, r)
           \/ \E recordInSnipe \in BOOLEAN : ReviewSelfProcuredDetails(c, r, recordInSnipe)
    PROVE  \E locals : Moves(c, locals) /\ locals.at # "patchStock"
<1>1. CASE \E a \in Accessories : UseExistingAccessory(c, r, a)
  <2>1. PICK a \in Accessories : Begin(c, r, [Loaded("readChosen", r) EXCEPT !.accessory = a])
    BY <1>1 DEF UseExistingAccessory
  <2>2. "readChosen" \in AccessorySteps /\ "readChosen" \notin Adding
    BY DEF AccessorySteps, Adding
  <2>3. /\ Sound([Loaded("readChosen", r) EXCEPT !.accessory = a])
        /\ [Loaded("readChosen", r) EXCEPT !.accessory = a].at = "readChosen"
    BY <2>2, LoadedSound
  <2> QED BY <2>1, <2>3 DEF Moves, Begin
<1>2. CASE AddStock(c, r)
  <2>1. /\ mr[r].accessory \in Accessories \cup {None} /\ mr[r].accessory # None
        /\ Begin(c, r, [Loaded("readStock", r) EXCEPT !.accessory = mr[r].accessory])
    BY <1>2 DEF AddStock, AwaitsStock, Typed, StoreTyped, WorkflowsTyped, ModelRequests
  <2>2. "readStock" \in AccessorySteps
    BY DEF AccessorySteps
  <2>3. /\ Sound([Loaded("readStock", r) EXCEPT !.accessory = mr[r].accessory])
        /\ [Loaded("readStock", r) EXCEPT !.accessory = mr[r].accessory].at = "readStock"
    BY <2>1, <2>2, LoadedSound
  <2> QED BY <2>1, <2>3 DEF Moves, Begin
<1>3. CASE \/ ApproveStandard(c, r)
           \/ CreateQuote(c, r)
           \/ SkipQuote(c, r)
           \/ \E accepted \in BOOLEAN : AnswerQuote(c, r, accepted)
           \/ CreateNewAccessory(c, r)
           \/ MarkUserProcured(c, r)
           \/ SubmitSelfProcuredDetails(c, r)
           \/ \E recordInSnipe \in BOOLEAN : ReviewSelfProcuredDetails(c, r, recordInSnipe)
  <2>1. PICK step \in AccessorySteps \ Adding : Begin(c, r, Loaded(step, r))
    BY <1>3
    DEF ApproveStandard, CreateQuote, SkipQuote, AnswerQuote, CreateNewAccessory, MarkUserProcured,
        SubmitSelfProcuredDetails, ReviewSelfProcuredDetails, AccessorySteps, Adding
  <2>2. Sound(Loaded(step, r)) /\ Loaded(step, r).at # "patchStock"
    BY <2>1, LoadedSound DEF Adding
  <2> QED BY <2>1, <2>2 DEF Moves, Begin
<1> QED BY <1>1, <1>2, <1>3

LEMMA GotoMoves ==
    ASSUME Typed, NEW c \in Calls, call[c].at # "idle",
           NEW step \in AccessorySteps \ Adding, Goto(c, step)
    PROVE  \E locals : Moves(c, locals) /\ locals.at # "patchStock"
<1>1. /\ Sound([call[c] EXCEPT !.at = step])
      /\ [call[c] EXCEPT !.at = step].at = step
  BY LocalsSound DEF Adding
<1>2. call' = [call EXCEPT ![c] = [call[c] EXCEPT !.at = step]]
  BY DEF Goto
<1> QED BY <1>1, <1>2 DEF Moves, Adding

\* Only a top-up that has read the quantity comes to stand at its write.
LEMMA AccessoryMoves ==
    ASSUME Typed, NEW c \in Calls, AccessoryStep(c)
    PROVE  \E locals : /\ Moves(c, locals)
                       /\ \/ locals.at # "patchStock"
                          \/ /\ \E more \in 0..MaxQty : ReadStock(c, more) /\ more > 0
                             /\ locals.accessory = call[c].accessory
<1>1. ASSUME \/ CompleteStandard(c) \/ SaveQuote(c) \/ SaveSkip(c) \/ SaveAccept(c)
             \/ CompleteLinked(c) \/ LinkNew(c) \/ DiscardAccessory(c) \/ SaveMark(c)
             \/ SaveSubmitted(c) \/ CompleteReviewed(c)
             \/ (RejectForQuote(c) \/ LinkChosen(c) \/ SaveStock(c)) /\ Return(c)
      PROVE  \E locals : Moves(c, locals) /\ locals.at # "patchStock"
  <2>1. Return(c)
    BY <1>1 DEF CompleteStandard, SaveQuote, SaveSkip, SaveAccept, CompleteLinked, LinkNew,
                DiscardAccessory, SaveMark, SaveSubmitted, CompleteReviewed
  <2>2. Idle.at # "patchStock"
    BY DEF Idle
  <2> QED BY <2>1, <2>2, IdleSound DEF Return, Moves
<1>2. ASSUME \/ SaveQuoteRejection(c) \/ SetupFails(c) \/ CloseProcurement(c) \/ LinkReviewed(c)
             \/ PlaceAccessory(c) \/ CheckoutAccessory(c) \/ PatchStock(c)
             \/ RejectForQuote(c) /\ ~Return(c)
             \/ LinkChosen(c) /\ ~Return(c)
      PROVE  \E locals : Moves(c, locals) /\ locals.at # "patchStock"
  <2>1. call[c].at # "idle"
    BY <1>2 DEF SaveQuoteRejection, SetupFails, CloseProcurement, LinkReviewed, PlaceAccessory,
                CheckoutAccessory, PatchStock, RejectForQuote, LinkChosen, At, AfterPlace,
                AfterCheckout
  <2>2. \E step \in AccessorySteps \ Adding : Goto(c, step)
    <3> DEFINE After == {"rejectForQuote", "discardAccessory", "completeReviewed", "closeProcurement",
                        "linkNew", "checkoutReviewed", "completeStandard", "completeLinked",
                        "linkReviewed", "rereadStock", "saveRejection", "checkoutLinked"}
    <3>1. /\ CheckoutAccessory(c) => AfterCheckout[call[c].at] \in After
          /\ PlaceAccessory(c) => AfterPlace[call[c].at] \in After
      BY DEF CheckoutAccessory, PlaceAccessory, AfterCheckout, AfterPlace
    <3>2. \E step \in After : Goto(c, step)
      BY <1>2, <3>1 DEF SaveQuoteRejection, SetupFails, CloseProcurement, LinkReviewed,
                        PlaceAccessory, CheckoutAccessory, PatchStock, RejectForQuote, LinkChosen
    <3>3. After \subseteq AccessorySteps \ Adding
      BY DEF AccessorySteps, StoreSteps, Adding
    <3> HIDE DEF After
    <3> QED BY <3>2, <3>3
  <2> QED BY <2>1, <2>2, GotoMoves
<1>3. ASSUME \/ \E a \in Accessories : ResolveAccessory(c, a) \/ MakeAccessory(c, a)
             \/ SaveStock(c) /\ ~Return(c)
      PROVE  \E locals : Moves(c, locals) /\ locals.at # "patchStock"
  <2>1. call[c].at # "idle"
    BY <1>3 DEF ResolveAccessory, MakeAccessory, AfterMake, SaveStock, At
  <2>2. PICK a \in Accessories \cup {None}, step \in AccessorySteps \ Adding :
            Continue(c, [call[c] EXCEPT !.at = step, !.accessory = a])
    <3>1. mr[call[c].req].accessory \in Accessories \cup {None}
      BY <2>1, CallTyped DEF Typed, StoreTyped, WorkflowsTyped, ModelRequests
    <3>2. {"checkoutStandard", "checkoutLinked", "placeAccessory", "placeReviewed"}
             \subseteq AccessorySteps \ Adding
      BY DEF AccessorySteps, Adding
    <3>3. CASE \E a \in Accessories : ResolveAccessory(c, a)
      BY <3>2, <3>3 DEF ResolveAccessory
    <3>4. CASE \E a \in Accessories : MakeAccessory(c, a)
      <4>1. PICK a \in Accessories : MakeAccessory(c, a)
        BY <3>4
      <4>2. AfterMake[call[c].at] \in AccessorySteps \ Adding
        BY <3>2, <4>1 DEF MakeAccessory, AfterMake
      <4>3. Continue(c, [call[c] EXCEPT !.at = AfterMake[call[c].at], !.accessory = a])
        BY <4>1 DEF MakeAccessory
      <4> QED BY <4>2, <4>3
    <3>5. CASE SaveStock(c) /\ ~Return(c)
      BY <3>1, <3>2, <3>5 DEF SaveStock
    <3> QED BY <1>3, <3>3, <3>4, <3>5
  <2>3. /\ Sound([call[c] EXCEPT !.at = step, !.accessory = a])
        /\ [call[c] EXCEPT !.at = step, !.accessory = a].at # "patchStock"
    <3>1. /\ Sound([call[c] EXCEPT !.at = step, !.accessory = a])
          /\ [call[c] EXCEPT !.at = step, !.accessory = a].at = step
      BY <2>1, AccessorySound
    <3>2. step # "patchStock"
      BY DEF Adding
    <3> QED BY <3>1, <3>2
  <2> QED BY <2>2, <2>3 DEF Moves, Continue
<1>4. ASSUME ReadChosen(c) \/ RereadStock(c)
      PROVE  \E locals : Moves(c, locals) /\ locals.at # "patchStock"
  <2>1. call[c].at # "idle"
    BY <1>4 DEF ReadChosen, RereadStock, At
  <2>2. PICK flag \in BOOLEAN, step \in AccessorySteps \ Adding :
            Continue(c, [call[c] EXCEPT !.at = step, !.flag = flag])
    <3>1. HasStock(call[c].accessory) \in BOOLEAN
      BY DEF HasStock, IsLive
    <3>2. {"linkChosen", "saveStock"} \subseteq AccessorySteps \ Adding
      BY DEF AccessorySteps, Adding
    <3> QED BY <1>4, <3>1, <3>2 DEF ReadChosen, RereadStock
  <2>3. /\ Sound([call[c] EXCEPT !.at = step, !.flag = flag])
        /\ [call[c] EXCEPT !.at = step, !.flag = flag].at # "patchStock"
    <3>1. step \in AccessorySteps \ {"readStock"} /\ step # "patchStock"
      BY DEF Adding
    <3>2. \A b \in BOOLEAN :
             /\ Sound([call[c] EXCEPT !.at = step, !.flag = b])
             /\ [call[c] EXCEPT !.at = step, !.flag = b].at = step
      BY <2>1, <3>1, LocalsSound
    <3> QED BY <3>1, <3>2, Zenon
  <2> QED BY <2>2, <2>3 DEF Moves, Continue
<1>5. ASSUME NEW more \in 0..MaxQty, ReadStock(c, more)
      PROVE  \E locals : /\ Moves(c, locals)
                         /\ \/ locals.at # "patchStock"
                            \/ more > 0 /\ locals.accessory = call[c].accessory
  <2>1. call[c].at = "readStock" /\ {"patchStock", "rereadStock"} \subseteq AccessorySteps
    BY <1>5 DEF ReadStock, At, AccessorySteps
  <2>2. CASE more > 0
    <3>1. Goto(c, "patchStock")
      BY <1>5, <2>2 DEF ReadStock
    <3>2. /\ Sound([call[c] EXCEPT !.at = "patchStock"])
          /\ [call[c] EXCEPT !.at = "patchStock"].accessory = call[c].accessory
      BY <2>1, LocalsSound
    <3>3. call' = [call EXCEPT ![c] = [call[c] EXCEPT !.at = "patchStock"]]
      BY <3>1 DEF Goto
    <3> QED BY <2>2, <3>2, <3>3 DEF Moves
  <2>3. CASE ~(more > 0)
    <3>1. Goto(c, "rereadStock") /\ "rereadStock" \notin Adding
      BY <1>5, <2>3 DEF ReadStock, Adding
    <3> QED BY <2>1, <3>1, GotoMoves
  <2> QED BY <2>2, <2>3
<1>6. ASSUME NEW r \in Requests,
           \/ ApproveStandard(c, r)
           \/ CreateQuote(c, r)
           \/ SkipQuote(c, r)
           \/ \E accepted \in BOOLEAN : AnswerQuote(c, r, accepted)
           \/ \E a \in Accessories : UseExistingAccessory(c, r, a)
           \/ CreateNewAccessory(c, r)
           \/ AddStock(c, r)
           \/ MarkUserProcured(c, r)
           \/ SubmitSelfProcuredDetails(c, r)
           \/ \E recordInSnipe \in BOOLEAN : ReviewSelfProcuredDetails(c, r, recordInSnipe)
      PROVE  \E locals : Moves(c, locals) /\ locals.at # "patchStock"
  BY <1>6, BeginMoves
<1>7. CASE \E more \in 0..MaxQty : ReadStock(c, more)
  BY <1>5, <1>7
<1> QED BY <1>1, <1>2, <1>3, <1>4, <1>6, <1>7 DEF AccessoryStep

LEMMA MovesTyped ==
    ASSUME Typed, NEW c \in Calls, NEW locals, Moves(c, locals)
    PROVE  CallsTyped(AccessorySteps)' /\ Held'
BY DEF Typed, StoreTyped, CallsTyped, CallsNamed, Held, Moves, Sound

(***************************************************************************)
(* Which steps of the flow write which table.                              *)
(***************************************************************************)
LEMMA WritersOfRows ==
    ASSUME NEW c \in Calls, AccessoryStep(c)
    PROVE  /\ \/ row' = row
              \/ CompleteStandard(c) \/ SaveQuote(c) \/ SaveSkip(c) \/ SaveAccept(c)
              \/ SaveQuoteRejection(c) \/ CompleteLinked(c) \/ CompleteReviewed(c)
           /\ \/ queued' = queued
              \/ CompleteStandard(c) \/ SaveQuote(c) \/ CompleteLinked(c)
              \/ SaveMark(c) \/ SaveSubmitted(c)
           /\ \/ mr' = mr
              \/ LinkChosen(c) \/ LinkNew(c) \/ SaveStock(c) \/ LinkReviewed(c)
           /\ \/ proc' = proc
              \/ SaveMark(c) \/ SaveSubmitted(c) \/ CloseProcurement(c)
           /\ replaced' = replaced \/ LinkReviewed(c)
BY DEF AccessoryStep, snipe, ApproveStandard, CreateQuote, SkipQuote, AnswerQuote,
       UseExistingAccessory, CreateNewAccessory, AddStock, MarkUserProcured,
       SubmitSelfProcuredDetails, ReviewSelfProcuredDetails, ResolveAccessory, MakeAccessory,
       ReadStock, CheckoutAccessory, CompleteStandard, SaveQuote, SaveSkip, SaveAccept,
       SaveQuoteRejection, RejectForQuote, ReadChosen, LinkChosen, CompleteLinked, PlaceAccessory,
       LinkNew, SetupFails, DiscardAccessory, PatchStock, RereadStock, SaveStock, SaveMark,
       SaveSubmitted, LinkReviewed, CloseProcurement, CompleteReviewed

LEMMA WritersOfStock ==
    ASSUME NEW c \in Calls, AccessoryStep(c)
    PROVE  /\ \/ UNCHANGED <<acc, units, arrived, raced>>
              \/ \E a \in Accessories : MakeAccessory(c, a)
              \/ CheckoutAccessory(c) \/ PlaceAccessory(c) \/ DiscardAccessory(c) \/ PatchStock(c)
           /\ \/ patch' = patch
              \/ \E more \in 0..MaxQty : ReadStock(c, more)
              \/ PatchStock(c)
BY DEF AccessoryStep, snipe, ApproveStandard, CreateQuote, SkipQuote, AnswerQuote,
       UseExistingAccessory, CreateNewAccessory, AddStock, MarkUserProcured,
       SubmitSelfProcuredDetails, ReviewSelfProcuredDetails, ResolveAccessory, MakeAccessory,
       ReadStock, CheckoutAccessory, CompleteStandard, SaveQuote, SaveSkip, SaveAccept,
       SaveQuoteRejection, RejectForQuote, ReadChosen, LinkChosen, CompleteLinked, PlaceAccessory,
       LinkNew, SetupFails, DiscardAccessory, PatchStock, RereadStock, SaveStock, SaveMark,
       SaveSubmitted, LinkReviewed, CloseProcurement, CompleteReviewed

LEMMA StoreTablesTyped ==
    ASSUME Typed, NEW c \in Calls, AccessoryStep(c)
    PROVE  RowsTyped' /\ QueueTyped' /\ WorkflowsTyped' /\ ProcTyped' /\ ReplacedTyped'
<1> USE CallTyped
<1>1. RowsTyped'
  <2>1. CASE row' = row
    BY <2>1 DEF Typed, StoreTyped, RowsTyped
  <2>2. row \in [Requests -> Rows]
    BY DEF Typed, StoreTyped, RowsTyped
  <2>3. CASE CompleteStandard(c) \/ CompleteLinked(c) \/ CompleteReviewed(c)
    BY <2>2, <2>3 DEF CompleteStandard, CompleteLinked, CompleteReviewed, SetStatus, RowsTyped,
                      Rows, Statuses
  <2>4. CASE SaveQuote(c)
    <3>1. row' = [row EXCEPT ![call[c].req].quote = "SENT"]
      BY <2>4 DEF SaveQuote
    <3>2. "SENT" \in QuoteStatuses
      BY DEF QuoteStatuses
    <3> QED BY <2>2, <3>1, <3>2 DEF RowsTyped, Rows
  <2>5. CASE SaveSkip(c)
    BY <2>2, <2>5 DEF SaveSkip, RowsTyped, Rows
  <2>6. CASE SaveAccept(c) \/ SaveQuoteRejection(c)
    BY <2>2, <2>6 DEF SaveAccept, SaveQuoteRejection, RowsTyped, Rows, QuoteStatuses
  <2> QED BY <2>1, <2>3, <2>4, <2>5, <2>6, WritersOfRows
<1>2. QueueTyped'
  <2>1. CASE queued' = queued
    BY <2>1 DEF Typed, StoreTyped, QueueTyped
  <2>2. CASE \/ CompleteStandard(c) \/ SaveQuote(c) \/ CompleteLinked(c)
             \/ SaveMark(c) \/ SaveSubmitted(c)
    <3>1. call[c].req \in Requests
      BY <2>2 DEF CompleteStandard, SaveQuote, CompleteLinked, SaveMark, SaveSubmitted, At
    <3>2. \E kinds : NotifyAll(call[c].req, kinds)
      BY <2>2 DEF CompleteStandard, SaveQuote, CompleteLinked, SaveMark, SaveSubmitted, Notify
    <3> QED BY <3>1, <3>2, NotifyTyped DEF Typed, StoreTyped
  <2> QED BY <2>1, <2>2, WritersOfRows
<1>3. WorkflowsTyped'
  <2>1. CASE mr' = mr
    BY <2>1 DEF Typed, StoreTyped, WorkflowsTyped
  <2>2. CASE LinkChosen(c) \/ LinkNew(c) \/ SaveStock(c) \/ LinkReviewed(c)
    <3>1. mr \in [Requests -> ModelRequests]
      BY DEF Typed, StoreTyped, WorkflowsTyped
    <3>2. CASE LinkChosen(c) \/ LinkNew(c)
      BY <3>1, <3>2 DEF LinkChosen, LinkNew, LinkAccessory, WorkflowsTyped, ModelRequests
    <3>3. CASE SaveStock(c) \/ LinkReviewed(c)
      BY <3>1, <3>3 DEF SaveStock, LinkReviewed, WorkflowsTyped, ModelRequests
    <3> QED BY <2>2, <3>2, <3>3
  <2> QED BY <2>1, <2>2, WritersOfRows
<1>4. ProcTyped'
  <2>1. CASE proc' = proc
    BY <2>1 DEF Typed, ProcTyped
  <2>2. CASE SaveMark(c) \/ SaveSubmitted(c) \/ CloseProcurement(c)
    BY <2>2 DEF SaveMark, SaveSubmitted, CloseProcurement, Typed, ProcTyped, Procurements
  <2> QED BY <2>1, <2>2, WritersOfRows
<1>5. ReplacedTyped'
  <2>1. CASE replaced' = replaced
    BY <2>1 DEF Typed, ReplacedTyped
  <2>2. CASE LinkReviewed(c)
    <3>1. mr[call[c].req].accessory \in Accessories \cup {None}
      BY <2>2 DEF LinkReviewed, At, Typed, StoreTyped, WorkflowsTyped, ModelRequests
    <3> QED BY <2>2, <3>1 DEF LinkReviewed, Typed, ReplacedTyped
  <2> QED BY <2>1, <2>2, WritersOfRows
<1> QED BY <1>1, <1>2, <1>3, <1>4, <1>5

LEMMA CountInTyped ==
    ASSUME CountsTyped, NEW a, NEW more \in Nat, NEW races \in BOOLEAN, CountIn(a, more, races)
    PROVE  CountsTyped'
<1>1. CASE a \in Accessories
  <2>1. arrived[a] + more \in Nat
    BY <1>1 DEF CountsTyped
  <2> QED BY <1>1, <2>1 DEF CountsTyped, CountIn
<1>2. CASE a \notin Accessories
  BY <1>2 DEF CountsTyped, CountIn
<1> QED BY <1>1, <1>2

LEMMA StockTyped ==
    ASSUME Typed, NEW c \in Calls, AccessoryStep(c)
    PROVE  InventoryTyped' /\ CountsTyped' /\ PatchTyped'
<1> USE CallTyped
<1>1. patch[c].before \in Nat /\ patch[c].more \in Nat
  BY DEF Typed, PatchTyped
<1>2. InventoryTyped' /\ CountsTyped'
  <2>1. CASE UNCHANGED <<acc, units, arrived, raced>>
    BY <2>1 DEF Typed, InventoryTyped, CountsTyped
  <2>2. CASE \E a \in Accessories : MakeAccessory(c, a)
    BY <2>2 DEF MakeAccessory, Typed, InventoryTyped, CountsTyped
  <2>3. CASE CheckoutAccessory(c)
    <3> DEFINE a == call[c].accessory
               r == call[c].req
    <3>1. r \in Requests
      BY <2>3 DEF CheckoutAccessory, AfterCheckout
    <3>2. /\ acc' = [acc EXCEPT ![a].out = @ + 1]
          /\ units' = [units EXCEPT ![r][a] = @ + 1]
          /\ UNCHANGED <<arrived, raced>>
      BY <2>3 DEF CheckoutAccessory
    <3> HIDE DEF a, r
    <3>3. CASE a \in Accessories
      <4>1. acc[a].out + 1 \in Nat /\ units[r][a] + 1 \in Nat
        BY <3>1, <3>3 DEF Typed, InventoryTyped
      <4> QED BY <3>1, <3>2, <3>3, <4>1 DEF Typed, InventoryTyped, CountsTyped
    <3>4. CASE a \notin Accessories
      BY <3>1, <3>2, <3>4 DEF Typed, InventoryTyped, CountsTyped
    <3> QED BY <3>3, <3>4
  <2>4. CASE PlaceAccessory(c)
    <3>1. CountsTyped'
      BY <2>4, CountInTyped DEF PlaceAccessory, Typed
    <3>2. InventoryTyped'
      BY <2>4 DEF PlaceAccessory, Typed, InventoryTyped
    <3> QED BY <3>1, <3>2
  <2>5. CASE DiscardAccessory(c)
    BY <2>5 DEF DiscardAccessory, Typed, InventoryTyped, CountsTyped
  <2>6. CASE PatchStock(c)
    <3>1. CountsTyped'
      BY <1>1, <2>6, CountInTyped DEF PatchStock, Typed
    <3>2. InventoryTyped'
      <4>1. patch[c].before + patch[c].more \in Nat
        BY <1>1
      <4> QED BY <2>6, <4>1 DEF PatchStock, Typed, InventoryTyped
    <3> QED BY <3>1, <3>2
  <2> QED BY <2>1, <2>2, <2>3, <2>4, <2>5, <2>6, WritersOfStock
<1>3. PatchTyped'
  <2>1. CASE patch' = patch
    BY <2>1 DEF Typed, PatchTyped
  <2>2. ASSUME NEW more \in 0..MaxQty, ReadStock(c, more)
        PROVE  PatchTyped'
    <3>1. call[c].accessory \in Accessories
      BY <2>2 DEF ReadStock, At, Typed, Held, Adding
    <3>2. acc[call[c].accessory].qty \in Nat /\ more \in Nat
      BY <3>1, AccessoryAssumption DEF Typed, InventoryTyped
    <3> QED BY <2>2, <3>2 DEF ReadStock, Typed, PatchTyped
  <2>3. CASE PatchStock(c)
    BY <2>3 DEF PatchStock, NoPatch, Typed, PatchTyped
  <2> QED BY <2>1, <2>2, <2>3, WritersOfStock
<1> QED BY <1>2, <1>3

LEMMA InitTyped == Init => Typed
<1> SUFFICES ASSUME Init PROVE Typed
  OBVIOUS
<1>1. StoreTyped(AccessorySteps) /\ Held
  <2>1. Unfiled \in Rows
    BY DEF Unfiled, Rows, Statuses, QuoteStatuses
  <2>2. NoModelRequest \in ModelRequests
    BY DEF NoModelRequest, ModelRequests
  <2> QED
    BY <2>1, <2>2, IdleTyped, StepsNest
    DEF Init, StoreInit, StoreTyped, CallsTyped, CallsNamed, Idle, RowsTyped, WorkflowsTyped,
        QueueTyped, Held, Adding
<1>2. InventoryTyped /\ CountsTyped
  BY AccessoryAssumption DEF Init, InventoryInit, Unborn, InventoryTyped, CountsTyped
<1>3. ProcTyped /\ PatchTyped /\ ReplacedTyped
  BY DEF Init, InventoryInit, NoPatch, ProcTyped, PatchTyped, ReplacedTyped, Procurements
<1> QED BY <1>1, <1>2, <1>3 DEF Typed

\* The shared handlers do not come to stand where stock is added.
LEMMA SharedHeld ==
    ASSUME Typed, NEW c \in Calls, StoreStep(c)
    PROVE  /\ \A d \in Calls : d # c => call'[d] = call[d]
           /\ call'[c].at \notin Adding
<1>1. \/ UNCHANGED call /\ call[c].at = "idle"
      \/ Return(c)
      \/ \E r \in Requests, step \in StoreSteps : Begin(c, r, Loaded(step, r))
      \/ \E r \in Requests : \E kind, type, flag :
            Begin(c, r, [Loaded("saveEdit", r) EXCEPT !.kind = kind, !.type = type, !.flag = flag])
  BY DEF StoreStep, CreateRequest, Free, ApproveRequest, ReviewRequest, RejectRequest, EditRequest,
         HandleStandardApproval, HandleNonStandardApproval, HandleAdminNonStandardApproval,
         SaveEdit, SaveRejection, Fail, ApprovalStep, StoreSteps
<1>2. call \in [Calls -> CallStates(AccessorySteps)]
  BY DEF Typed, StoreTyped, CallsTyped
<1>3. CASE UNCHANGED call /\ call[c].at = "idle"
  BY <1>3 DEF Adding
<1>4. CASE Return(c)
  BY <1>2, <1>4 DEF Return, Idle, Adding
<1>5. ASSUME NEW r \in Requests, NEW step \in StoreSteps, Begin(c, r, Loaded(step, r))
      PROVE  call'[c].at \notin Adding /\ \A d \in Calls : d # c => call'[d] = call[d]
  BY <1>2, <1>5 DEF Begin, Loaded, Idle, Adding, StoreSteps
<1>6. ASSUME NEW r \in Requests, NEW kind, NEW type, NEW flag,
             Begin(c, r, [Loaded("saveEdit", r) EXCEPT !.kind = kind, !.type = type, !.flag = flag])
      PROVE  call'[c].at \notin Adding /\ \A d \in Calls : d # c => call'[d] = call[d]
  BY <1>2, <1>6 DEF Begin, Loaded, Idle, Adding
<1> QED BY <1>1, <1>3, <1>4, <1>5, <1>6

LEMMA NextTyped == Typed /\ [Next]_vars => Typed'
<1> SUFFICES ASSUME Typed, [Next]_vars PROVE Typed'
  OBVIOUS
<1>1. ASSUME NEW c \in Calls, SharedStep(c)
      PROVE  Typed'
  <2>1. StoreTyped(AccessorySteps)'
    BY <1>1, StoreStepTyped, StepsNest DEF SharedStep, Typed
  <2>2. Held'
    BY <1>1, SharedHeld DEF SharedStep, Typed, Held
  <2>3. PatchTyped'
    BY <1>1 DEF SharedStep, NoPatch, Typed, PatchTyped
  <2> QED
    BY <1>1, <2>1, <2>2, <2>3
    DEF SharedStep, snipe, Typed, InventoryTyped, CountsTyped, ProcTyped, ReplacedTyped
<1>2. ASSUME NEW c \in Calls, AccessoryStep(c)
      PROVE  Typed'
  <2>1. CallsTyped(AccessorySteps)' /\ Held'
    BY <1>2, AccessoryMoves, MovesTyped
  <2> QED BY <1>2, <2>1, StoreTablesTyped, StockTyped DEF Typed, StoreTyped
<1>3. ASSUME NEW a \in Accessories, Restock(a) \/ HandOutUnit(a)
      PROVE  Typed'
  <2>1. InventoryTyped'
    <3>1. acc[a].qty + 1 \in Nat /\ acc[a].out + 1 \in Nat
      BY DEF Typed, InventoryTyped
    <3> QED BY <1>3, <3>1 DEF Restock, HandOutUnit, Typed, InventoryTyped
  <2>2. CountsTyped'
    BY <1>3, CountInTyped DEF Restock, HandOutUnit, Typed, CountsTyped
  <2> QED
    BY <1>3, <2>1, <2>2
    DEF Restock, HandOutUnit, storeVars, Typed, StoreTyped, CallsTyped, CallsNamed, RowsTyped,
        WorkflowsTyped, QueueTyped, Held, ProcTyped, PatchTyped, ReplacedTyped
<1>4. CASE UNCHANGED vars
  BY <1>4
  DEF vars, snipe, Typed, StoreTyped, CallsTyped, CallsNamed, RowsTyped, WorkflowsTyped,
      QueueTyped, Held, InventoryTyped, CountsTyped, ProcTyped, PatchTyped, ReplacedTyped
<1> QED BY <1>1, <1>2, <1>3, <1>4 DEF Next, SnipeStep

\* The tables, the counters of Snipe-IT and what a top-up keeps in its local
\* variables keep their types: no handler adds to a quantity it has not read.
THEOREM AccessoryTypeCorrect == Spec => []TypeOK
<1>1. Typed => TypeOK
  BY DEF Typed, StoreTyped, CallsTyped, RowsTyped, WorkflowsTyped, QueueTyped, InventoryTyped,
         CountsTyped, ProcTyped, PatchTyped, ReplacedTyped, TypeOK, StoreTypeOK
<1>2. Spec => []Typed
  BY InitTyped, NextTyped, PTL DEF Spec
<1> QED BY <1>1, <1>2, PTL

(***************************************************************************)
(* Quantities.  While no two writes of a quantity have raced, a top-up     *)
(* that has read it still stands before the quantity it read, and so adds  *)
(* what arrived to what is there.                                          *)
(***************************************************************************)
CurrentPatches ==
    \A c \in Calls : At(c, "patchStock") =>
        LET a == call[c].accessory IN
        /\ acc[a].state # "unborn"
        /\ ~raced[a] => patch[c].before = acc[a].qty

StockInv == CurrentPatches /\ StockIsWhatArrived

LEMMA StockInitially == Init => StockInv
BY DEF Init, StoreInit, InventoryInit, Unborn, Idle, At, StockInv, CurrentPatches, StockIsWhatArrived

\* What a step of the flow does to the counters of one accessory.
LEMMA CountersKept ==
    ASSUME Typed, StockInv, NEW c \in Calls, AccessoryStep(c), NEW b \in Accessories, ~raced'[b]
    PROVE  /\ ~raced[b]
           /\ acc'[b].qty = arrived'[b] /\ acc'[b].out <= acc'[b].qty
<1> DEFINE a == call[c].accessory
<1>1. /\ acc \in [Accessories -> [state : {"unborn", "live", "gone"}, qty : Nat, out : Nat]]
      /\ arrived \in [Accessories -> Nat] /\ raced \in [Accessories -> BOOLEAN]
      /\ patch[c].before \in Nat /\ patch[c].more \in Nat
  BY DEF Typed, InventoryTyped, CountsTyped, PatchTyped
<1>2. ~raced[b] => acc[b].qty = arrived[b] /\ acc[b].out <= acc[b].qty
  BY DEF StockInv, StockIsWhatArrived
<1>3. CASE UNCHANGED <<acc, units, arrived, raced>>
  BY <1>2, <1>3
<1>4. CASE \E x \in Accessories : MakeAccessory(c, x)
  BY <1>1, <1>2, <1>4 DEF MakeAccessory
<1>5. CASE CheckoutAccessory(c)
  BY <1>1, <1>2, <1>5 DEF CheckoutAccessory, HasStock
<1>6. CASE PlaceAccessory(c)
  <2>1. \E qty \in {0, 1} : acc' = [acc EXCEPT ![a].qty = qty] /\ CountIn(a, 0, acc[a].qty # qty)
    BY <1>6 DEF PlaceAccessory
  <2>2. PICK qty \in {0, 1} : acc' = [acc EXCEPT ![a].qty = qty] /\ CountIn(a, 0, acc[a].qty # qty)
    BY <2>1
  <2>3. CASE a = b
    <3>1. raced'[b] = (raced[b] \/ acc[b].qty # qty)
      BY <1>1, <2>2, <2>3 DEF CountIn
    <3>2. ~raced[b] /\ acc[b].qty = qty
      BY <3>1
    <3>3. arrived'[b] = arrived[b] + 0
      BY <1>1, <2>2, <2>3 DEF CountIn
    <3>4. acc'[b].qty = qty /\ acc'[b].out = acc[b].out
      BY <1>1, <2>2, <2>3
    <3> QED BY <1>1, <1>2, <3>2, <3>3, <3>4
  <2>4. CASE a # b
    BY <1>1, <1>2, <2>2, <2>4 DEF CountIn
  <2> QED BY <2>3, <2>4
<1>7. CASE DiscardAccessory(c)
  BY <1>1, <1>2, <1>7 DEF DiscardAccessory
<1>8. CASE PatchStock(c)
  <2>1. ~raced[b]
    BY <1>1, <1>8 DEF PatchStock, CountIn
  <2>2. CASE a = b
    <3>1. patch[c].before = acc[b].qty
      BY <1>8, <2>1, <2>2 DEF PatchStock, StockInv, CurrentPatches
    <3>2. /\ acc'[b].qty = acc[b].qty + patch[c].more
          /\ acc'[b].out = acc[b].out
          /\ arrived'[b] = arrived[b] + patch[c].more
      BY <1>1, <1>8, <2>2, <3>1 DEF PatchStock, CountIn
    <3> QED BY <1>1, <1>2, <2>1, <3>2
  <2>3. CASE a # b
    BY <1>1, <1>2, <1>8, <2>1, <2>3 DEF PatchStock, CountIn
  <2> QED BY <2>2, <2>3
<1> QED BY <1>3, <1>4, <1>5, <1>6, <1>7, <1>8, WritersOfStock

\* Nobody else's reading goes stale without the accessory being marked raced.
LEMMA ReadingsKept ==
    ASSUME Typed, NEW c \in Calls, AccessoryStep(c), NEW d \in Calls, d # c,
           At(d, "patchStock"), acc[call[d].accessory].state # "unborn"
    PROVE  LET b == call[d].accessory IN
           /\ acc'[b].state # "unborn"
           /\ ~raced'[b] => ~raced[b] /\ acc'[b].qty = acc[b].qty
           /\ patch'[d] = patch[d]
<1> DEFINE a == call[c].accessory
           b == call[d].accessory
<1>1. /\ acc \in [Accessories -> [state : {"unborn", "live", "gone"}, qty : Nat, out : Nat]]
      /\ raced \in [Accessories -> BOOLEAN]
      /\ patch \in [Calls -> [before : Nat, more : Nat]]
  BY DEF Typed, InventoryTyped, CountsTyped, PatchTyped
<1>2. b \in Accessories
  BY DEF Typed, Held, Adding, At
<1>3. patch'[d] = patch[d]
  BY <1>1, WritersOfStock DEF ReadStock, PatchStock
<1>4. acc'[b].state # "unborn" /\ (~raced'[b] => ~raced[b] /\ acc'[b].qty = acc[b].qty)
  <2>1. CASE UNCHANGED <<acc, units, arrived, raced>>
    BY <2>1
  <2>2. CASE \E x \in Accessories : MakeAccessory(c, x)
    BY <1>1, <1>2, <2>2 DEF MakeAccessory, Unborn
  <2>3. CASE CheckoutAccessory(c)
    BY <1>1, <1>2, <2>3 DEF CheckoutAccessory
  <2>4. CASE PlaceAccessory(c)
    BY <1>1, <1>2, <2>4 DEF PlaceAccessory, CountIn
  <2>5. CASE DiscardAccessory(c)
    BY <1>1, <1>2, <2>5 DEF DiscardAccessory
  <2>6. CASE PatchStock(c)
    <3>1. CASE a = b
      <4>1. d \in ToppingUp(a)
        BY <3>1 DEF ToppingUp
      <4>2. raced'[b]
        BY <1>1, <1>2, <2>6, <3>1, <4>1 DEF PatchStock, CountIn
      <4> QED BY <1>1, <1>2, <2>6, <3>1, <4>2 DEF PatchStock
    <3>2. CASE a # b
      BY <1>1, <1>2, <2>6, <3>2 DEF PatchStock, CountIn
    <3> QED BY <3>1, <3>2
  <2> QED BY <2>1, <2>2, <2>3, <2>4, <2>5, <2>6, WritersOfStock
<1> QED BY <1>3, <1>4

LEMMA StockStep == Typed /\ StockInv /\ [Next]_vars => StockInv'
<1> SUFFICES ASSUME Typed, StockInv, [Next]_vars PROVE StockInv'
  OBVIOUS
<1> USE DEF StockInv
<1>1. ASSUME NEW c \in Calls, AccessoryStep(c)
      PROVE  StockInv'
  <2>1. StockIsWhatArrived'
    BY <1>1, CountersKept DEF StockIsWhatArrived
  <2>2. PICK locals : /\ Moves(c, locals)
                      /\ \/ locals.at # "patchStock"
                         \/ /\ \E more \in 0..MaxQty : ReadStock(c, more) /\ more > 0
                            /\ locals.accessory = call[c].accessory
    BY <1>1, AccessoryMoves
  <2>3. call' = [call EXCEPT ![c] = locals] /\ call \in [Calls -> CallStates(AccessorySteps)]
    BY <2>2 DEF Moves, Typed, StoreTyped, CallsTyped
  <2>4. ASSUME NEW d \in Calls, d # c, At(d, "patchStock")'
        PROVE  LET b == call'[d].accessory IN
               acc'[b].state # "unborn" /\ (~raced'[b] => patch'[d].before = acc'[b].qty)
    <3>1. call'[d] = call[d] /\ At(d, "patchStock")
      BY <2>3, <2>4 DEF At
    <3> QED BY <1>1, <2>4, <3>1, ReadingsKept DEF CurrentPatches
  <2>5. ASSUME At(c, "patchStock")'
        PROVE  LET b == call'[c].accessory IN
               acc'[b].state # "unborn" /\ (~raced'[b] => patch'[c].before = acc'[b].qty)
    <3>1. call'[c] = locals /\ locals.at = "patchStock"
      BY <2>3, <2>5 DEF At
    <3>2. PICK more \in 0..MaxQty : ReadStock(c, more) /\ more > 0
      BY <2>2, <3>1
    <3>3. /\ acc[call[c].accessory].state = "live" /\ acc' = acc
          /\ patch' = [patch EXCEPT ![c] = [before |-> acc[call[c].accessory].qty, more |-> more]]
      BY <3>2 DEF ReadStock, IsLive, snipe
    <3> QED BY <2>2, <3>1, <3>3 DEF Typed, PatchTyped
  <2>6. CurrentPatches'
    BY <2>4, <2>5 DEF CurrentPatches
  <2> QED BY <2>1, <2>6
<1>2. ASSUME NEW c \in Calls, SharedStep(c)
      PROVE  StockInv'
  <2>1. /\ \A d \in Calls : d # c => call'[d] = call[d] /\ patch'[d] = patch[d]
        /\ call'[c].at # "patchStock"
        /\ UNCHANGED <<acc, arrived, raced>>
    BY <1>2, SharedHeld DEF SharedStep, snipe, Adding, Typed, PatchTyped
  <2> QED BY <2>1 DEF CurrentPatches, StockIsWhatArrived, At
<1>3. ASSUME NEW a \in Accessories, Restock(a) \/ HandOutUnit(a)
      PROVE  StockInv'
  <2>1. /\ acc \in [Accessories -> [state : {"unborn", "live", "gone"}, qty : Nat, out : Nat]]
        /\ arrived \in [Accessories -> Nat] /\ raced \in [Accessories -> BOOLEAN]
    BY DEF Typed, InventoryTyped, CountsTyped
  <2>2. StockIsWhatArrived'
    BY <1>3, <2>1 DEF Restock, HandOutUnit, HasStock, CountIn, StockIsWhatArrived
  <2>3. UNCHANGED <<call, patch>>
    BY <1>3 DEF Restock, HandOutUnit, storeVars
  <2>4. ASSUME NEW d \in Calls, At(d, "patchStock")
        PROVE  LET b == call[d].accessory IN
               /\ acc'[b].state # "unborn"
               /\ ~raced'[b] => patch[d].before = acc'[b].qty
    <3> DEFINE b == call[d].accessory
    <3>1. b \in Accessories /\ d \in ToppingUp(b)
      BY <2>4 DEF Typed, Held, Adding, At, ToppingUp
    <3>2. acc'[b].state # "unborn"
      BY <1>3, <2>1, <2>4, <3>1 DEF Restock, HandOutUnit, CurrentPatches
    <3>3. ~raced'[b] => ~raced[b] /\ acc'[b].qty = acc[b].qty
      <4>1. CASE Restock(a)
        BY <2>1, <3>1, <4>1 DEF Restock, CountIn
      <4>2. CASE HandOutUnit(a)
        BY <2>1, <3>1, <4>2 DEF HandOutUnit
      <4> QED BY <1>3, <4>1, <4>2
    <3> QED BY <2>4, <3>2, <3>3 DEF CurrentPatches
  <2> QED BY <2>2, <2>3, <2>4 DEF CurrentPatches, At
<1>4. CASE UNCHANGED vars
  BY <1>4 DEF vars, snipe, CurrentPatches, StockIsWhatArrived, At
<1> QED BY <1>1, <1>2, <1>3, <1>4 DEF Next, SnipeStep

\* However calls interleave and fail, the quantity Snipe-IT holds is what was
\* counted in, and covers what is out, until two writes of it race.
THEOREM StockIsCountedIn == Spec => []StockIsWhatArrived
<1>1. Spec => [](Typed /\ StockInv)
  BY InitTyped, NextTyped, StockInitially, StockStep, PTL DEF Spec
<1>2. StockInv => StockIsWhatArrived
  BY DEF StockInv
<1> QED BY <1>1, <1>2, PTL

(***************************************************************************)
(* Turns.  When the calls about one request come one after the other, what *)
(* a call found out about the request and its purchase is still so when it *)
(* writes.                                                                 *)
(***************************************************************************)
Fulfilling == {"resolve", "checkoutStandard", "completeStandard", "readChosen", "linkChosen",
               "checkoutLinked", "completeLinked", "readStock", "patchStock", "rereadStock",
               "saveStock"}

\* What a call that stands at this step takes the status of its request, and of
\* its purchase, to be.
Expects(step, status, purchase) ==
    /\ step \in {"approveStandard", "approveNonStandard"} => status = "PENDING"
    /\ step = "saveRejection" => status \notin Terminal
    /\ step \in Fulfilling => status = "APPROVED"
    /\ step = "completeReviewed" => purchase = "COMPLETED"

Turns ==
    /\ \A c \in Calls : call[c].at = "idle" => call[c].req = None
    /\ \A c, d \in Calls : c # d /\ call[c].at # "idle" => call[d].req # call[c].req
    /\ \A c \in Calls : call[c].at # "idle" =>
           Expects(call[c].at, row[call[c].req].status, proc[call[c].req])

\* The steps that take nothing for granted.
Unassuming == {"saveQuote", "saveSkip", "saveAccept", "saveQuoteRejection", "rejectForQuote",
               "makeAccessory", "placeAccessory", "linkNew", "discardAccessory", "saveMark",
               "saveSubmitted", "makeReviewed", "placeReviewed", "checkoutReviewed",
               "linkReviewed", "closeProcurement"}

LEMMA UnassumingExpects ==
    ASSUME NEW step \in Unassuming, NEW status, NEW purchase
    PROVE  Expects(step, status, purchase) /\ step # "idle"
BY DEF Unassuming, Expects, Fulfilling

LEMMA FulfillingExpects ==
    ASSUME NEW step \in Fulfilling, NEW purchase
    PROVE  Expects(step, "APPROVED", purchase) /\ step # "idle"
BY DEF Expects, Fulfilling

\* The call goes on about the same request.
Onward(c, step) == call'[c].at = step /\ call'[c].req = call[c].req

LEMMA GoesOnward ==
    ASSUME Typed, NEW c \in Calls
    PROVE  /\ \A step : Goto(c, step) => Onward(c, step)
           /\ \A step, a : Continue(c, [call[c] EXCEPT !.at = step, !.accessory = a]) => Onward(c, step)
           /\ \A step, flag : Continue(c, [call[c] EXCEPT !.at = step, !.flag = flag]) => Onward(c, step)
<1>1. call \in [Calls -> CallStates(AccessorySteps)] /\ call[c] \in CallStates(AccessorySteps)
  BY DEF Typed, StoreTyped, CallsTyped
<1>2. \A step : Goto(c, step) => Onward(c, step)
  BY <1>1 DEF Goto, Onward, CallStates
<1>3. \A locals : Continue(c, locals) => call'[c] = locals
  BY <1>1 DEF Continue
<1>4. ASSUME NEW step, NEW a, Continue(c, [call[c] EXCEPT !.at = step, !.accessory = a])
      PROVE  Onward(c, step)
  <2>1. call'[c] = [call[c] EXCEPT !.at = step, !.accessory = a]
    BY <1>3, <1>4
  <2> QED BY <1>1, <2>1 DEF Onward, CallStates
<1>5. ASSUME NEW step, NEW flag, Continue(c, [call[c] EXCEPT !.at = step, !.flag = flag])
      PROVE  Onward(c, step)
  <2>1. call'[c] = [call[c] EXCEPT !.at = step, !.flag = flag]
    BY <1>3, <1>5
  <2> QED BY <1>1, <2>1 DEF Onward, CallStates
<1> QED BY <1>2, <1>4, <1>5

\* Which rows a step writes a status of: none but that of its own call.
LEMMA StatusWrites ==
    ASSUME Typed, NEW c \in Calls, AccessoryStep(c), NEW q \in Requests
    PROVE  /\ \/ row'[q].status = row[q].status
              \/ /\ q = call[c].req
                 /\ call[c].at \in {"completeStandard", "completeLinked", "completeReviewed"}
                 /\ row'[q].status = "COMPLETED"
           /\ proc'[q] = proc[q] \/ (q = call[c].req /\ call[c].at # "idle")
<1>1. row \in [Requests -> Rows] /\ proc \in [Requests -> Procurements]
  BY DEF Typed, StoreTyped, RowsTyped, ProcTyped
<1>2. \/ row'[q].status = row[q].status
      \/ /\ q = call[c].req
         /\ call[c].at \in {"completeStandard", "completeLinked", "completeReviewed"}
         /\ row'[q].status = "COMPLETED"
  <2>1. CASE row' = row
    BY <2>1
  <2>2. CASE CompleteStandard(c)
    BY <1>1, <2>2 DEF CompleteStandard, At, Rows
  <2>3. CASE CompleteLinked(c)
    BY <1>1, <2>3 DEF CompleteLinked, SetStatus, At, Rows
  <2>4. CASE CompleteReviewed(c)
    BY <1>1, <2>4 DEF CompleteReviewed, At, Rows
  <2>5. CASE SaveQuote(c)
    <3>1. row' = [row EXCEPT ![call[c].req].quote = "SENT"]
      BY <2>5 DEF SaveQuote
    <3> QED BY <1>1, <3>1 DEF Rows
  <2>6. CASE SaveSkip(c)
    BY <1>1, <2>6 DEF SaveSkip, Rows
  <2>7. CASE SaveAccept(c) \/ SaveQuoteRejection(c)
    BY <1>1, <2>7 DEF SaveAccept, SaveQuoteRejection, Rows
  <2> QED BY <2>1, <2>2, <2>3, <2>4, <2>5, <2>6, <2>7, WritersOfRows
<1>3. proc'[q] = proc[q] \/ (q = call[c].req /\ call[c].at # "idle")
  <2>1. CASE proc' = proc
    BY <2>1
  <2>2. CASE SaveMark(c) \/ SaveSubmitted(c) \/ CloseProcurement(c)
    BY <1>1, <2>2 DEF SaveMark, SaveSubmitted, CloseProcurement, At
  <2> QED BY <2>1, <2>2, WritersOfRows
<1> QED BY <1>2, <1>3

LEMMA AccessoryTurns ==
    ASSUME Typed, NEW c \in Calls, AccessoryStep(c)
    PROVE  \/ call'[c] = Idle
           \/ LET q == call[c].req IN
              \E step :
                 /\ call[c].at # "idle" /\ step # "idle" /\ Onward(c, step)
                 /\ Expects(call[c].at, row[q].status, proc[q])
                       => Expects(step, row'[q].status, proc'[q])
           \/ \E r \in Requests :
                 /\ Free(c, r) /\ UNCHANGED <<row, proc>>
                 /\ call'[c].req = r /\ call'[c].at # "idle"
                 /\ Expects(call'[c].at, row[r].status, proc[r])
<1> DEFINE q == call[c].req
           Goes == \E step :
                     /\ call[c].at # "idle" /\ step # "idle" /\ Onward(c, step)
                     /\ Expects(call[c].at, row[q].status, proc[q])
                           => Expects(step, row'[q].status, proc'[q])
           Enters == \E r \in Requests :
                       /\ Free(c, r) /\ UNCHANGED <<row, proc>>
                       /\ call'[c].req = r /\ call'[c].at # "idle"
                       /\ Expects(call'[c].at, row[r].status, proc[r])
<1>1. SUFFICES call'[c] = Idle \/ Goes \/ Enters
  OBVIOUS
<1>2. call \in [Calls -> CallStates(AccessorySteps)]
  BY DEF Typed, StoreTyped, CallsTyped
<1>3. Return(c) => call'[c] = Idle
  BY <1>2 DEF Return
<1>4. ASSUME NEW step \in Unassuming, Onward(c, step), call[c].at # "idle"
      PROVE  Goes
  BY <1>4, UnassumingExpects
<1>5. ASSUME NEW step \in Fulfilling, Onward(c, step), call[c].at \in Fulfilling, UNCHANGED row
      PROVE  Goes
  <2>1. call[c].at # "idle"
    BY <1>5 DEF Fulfilling
  <2>2. Expects(call[c].at, row[q].status, proc[q]) => row'[q].status = "APPROVED"
    BY <1>5 DEF Expects
  <2> QED BY <1>5, <2>1, <2>2, FulfillingExpects
<1>6. ASSUME NEW r \in Requests, NEW step \in Fulfilling \cup Unassuming, NEW loaded,
             loaded.at = step, loaded.req = r, Begin(c, r, loaded), UNCHANGED <<row, proc>>,
             step \in Fulfilling => row[r].status = "APPROVED"
      PROVE  Enters
  <2>1. call'[c] = loaded /\ Free(c, r)
    BY <1>6, BeginLoads DEF Typed
  <2>2. Expects(step, row[r].status, proc[r]) /\ step # "idle"
    BY <1>6, UnassumingExpects, FulfillingExpects
  <2> QED BY <1>6, <2>1, <2>2
<1> HIDE DEF Goes, Enters
<1>7. \A step, r, a :
         /\ Loaded(step, r).at = step /\ Loaded(step, r).req = r
         /\ [Loaded(step, r) EXCEPT !.accessory = a].at = step
         /\ [Loaded(step, r) EXCEPT !.accessory = a].req = r
  BY DEF Loaded, Idle
<1>8. ASSUME NEW r \in Requests,
             \/ CreateQuote(c, r) \/ SkipQuote(c, r) \/ CreateNewAccessory(c, r)
             \/ MarkUserProcured(c, r) \/ SubmitSelfProcuredDetails(c, r)
             \/ \E accepted \in BOOLEAN : AnswerQuote(c, r, accepted)
             \/ \E recordInSnipe \in BOOLEAN : ReviewSelfProcuredDetails(c, r, recordInSnipe)
      PROVE  Enters
  <2>1. PICK step \in Unassuming : Begin(c, r, Loaded(step, r)) /\ UNCHANGED <<row, proc>>
    BY <1>8 DEF CreateQuote, SkipQuote, CreateNewAccessory, MarkUserProcured,
                SubmitSelfProcuredDetails, AnswerQuote, ReviewSelfProcuredDetails, Unassuming
  <2>2. step \notin Fulfilling
    BY DEF Unassuming, Fulfilling
  <2> QED BY <1>6, <1>7, <2>1, <2>2
<1>9. ASSUME NEW r \in Requests, ApproveStandard(c, r)
      PROVE  Enters
  <2>1. /\ Begin(c, r, Loaded("resolve", r)) /\ UNCHANGED <<row, proc>>
        /\ row[r].status = "APPROVED" /\ "resolve" \in Fulfilling
    BY <1>9 DEF ApproveStandard, AwaitsStandardSignOff, Fulfilling
  <2> QED BY <1>6, <1>7, <2>1
<1>10. ASSUME NEW r \in Requests, NEW a \in Accessories, UseExistingAccessory(c, r, a)
       PROVE  Enters
  <2> DEFINE loaded == [Loaded("readChosen", r) EXCEPT !.accessory = a]
  <2>1. /\ Begin(c, r, loaded)
        /\ UNCHANGED <<row, proc>>
        /\ row[r].status = "APPROVED" /\ "readChosen" \in Fulfilling
    BY <1>10 DEF UseExistingAccessory, AwaitsSelection, Fulfilling
  <2>2. loaded.at = "readChosen" /\ loaded.req = r
    BY <1>7
  <2> HIDE DEF loaded
  <2> QED BY <1>6, <2>1, <2>2
<1>11. ASSUME NEW r \in Requests, AddStock(c, r)
       PROVE  Enters
  <2> DEFINE loaded == [Loaded("readStock", r) EXCEPT !.accessory = mr[r].accessory]
  <2>1. /\ Begin(c, r, loaded)
        /\ UNCHANGED <<row, proc>>
        /\ row[r].status = "APPROVED" /\ "readStock" \in Fulfilling
    BY <1>11 DEF AddStock, AwaitsStock, Fulfilling
  <2>2. loaded.at = "readStock" /\ loaded.req = r
    BY <1>7
  <2> HIDE DEF loaded
  <2> QED BY <1>6, <2>1, <2>2
<1>12. CASE \/ CompleteStandard(c) \/ SaveQuote(c) \/ SaveSkip(c) \/ SaveAccept(c)
            \/ CompleteLinked(c) \/ LinkNew(c) \/ DiscardAccessory(c) \/ SaveMark(c)
            \/ SaveSubmitted(c) \/ CompleteReviewed(c)
  BY <1>3, <1>12
  DEF CompleteStandard, SaveQuote, SaveSkip, SaveAccept, CompleteLinked, LinkNew,
      DiscardAccessory, SaveMark, SaveSubmitted, CompleteReviewed
<1>13. CASE SaveQuoteRejection(c) \/ SetupFails(c) \/ LinkReviewed(c) \/ PlaceAccessory(c)
  <2>1. PICK step \in Unassuming : Goto(c, step)
    <3>1. PlaceAccessory(c) => AfterPlace[call[c].at] \in Unassuming
      BY DEF PlaceAccessory, AfterPlace, Unassuming
    <3> QED BY <1>13, <3>1 DEF SaveQuoteRejection, SetupFails, LinkReviewed, PlaceAccessory, Unassuming
  <2>2. call[c].at # "idle"
    BY <1>13 DEF SaveQuoteRejection, SetupFails, LinkReviewed, PlaceAccessory, At, AfterPlace
  <2> QED BY <1>4, <2>1, <2>2, GoesOnward
<1>14. ASSUME NEW a \in Accessories, MakeAccessory(c, a)
       PROVE  Goes
  <2>1. /\ AfterMake[call[c].at] \in Unassuming /\ call[c].at # "idle"
        /\ Continue(c, [call[c] EXCEPT !.at = AfterMake[call[c].at], !.accessory = a])
    BY <1>14 DEF MakeAccessory, AfterMake, Unassuming
  <2> QED BY <1>4, <2>1, GoesOnward
<1>15. ASSUME NEW a \in Accessories, ResolveAccessory(c, a)
       PROVE  Goes
  <2>1. /\ Continue(c, [call[c] EXCEPT !.at = "checkoutStandard", !.accessory = a])
        /\ call[c].at \in Fulfilling /\ "checkoutStandard" \in Fulfilling /\ UNCHANGED row
    BY <1>15 DEF ResolveAccessory, At, Fulfilling
  <2> QED BY <1>5, <2>1, GoesOnward
<1>16. CASE CheckoutAccessory(c)
  <2>1. /\ call[c].at \in {"checkoutStandard", "checkoutLinked", "checkoutReviewed"}
        /\ Goto(c, AfterCheckout[call[c].at]) /\ UNCHANGED row
    BY <1>16 DEF CheckoutAccessory, AfterCheckout
  <2>2. Onward(c, AfterCheckout[call[c].at])
    BY <2>1, GoesOnward
  <2>3. CASE call[c].at = "checkoutReviewed"
    BY <1>4, <2>2, <2>3 DEF AfterCheckout, Unassuming
  <2>4. CASE call[c].at \in {"checkoutStandard", "checkoutLinked"}
    <3>1. call[c].at \in Fulfilling /\ AfterCheckout[call[c].at] \in Fulfilling
      BY <2>4 DEF AfterCheckout, Fulfilling
    <3> QED BY <1>5, <2>1, <2>2, <3>1
  <2> QED BY <2>1, <2>3, <2>4
<1>17. CASE ReadChosen(c) \/ RereadStock(c)
  <2>1. PICK step \in Fulfilling : \E flag : Continue(c, [call[c] EXCEPT !.at = step, !.flag = flag])
    <3>1. "linkChosen" \in Fulfilling /\ "saveStock" \in Fulfilling
      BY DEF Fulfilling
    <3> QED BY <1>17, <3>1 DEF ReadChosen, RereadStock
  <2>2. call[c].at \in Fulfilling /\ UNCHANGED row
    BY <1>17 DEF ReadChosen, RereadStock, At, Fulfilling
  <2> QED BY <1>5, <2>1, <2>2, GoesOnward
<1>18. CASE LinkChosen(c) \/ PatchStock(c) \/ \E more \in 0..MaxQty : ReadStock(c, more)
  <2>1. Return(c) \/ \E step \in Fulfilling : Goto(c, step)
    BY <1>18 DEF LinkChosen, PatchStock, ReadStock, Fulfilling
  <2>2. call[c].at \in Fulfilling /\ UNCHANGED row
    BY <1>18 DEF LinkChosen, PatchStock, ReadStock, At, Fulfilling
  <2> QED BY <1>3, <1>5, <2>1, <2>2, GoesOnward
<1>19. CASE SaveStock(c)
  <2>1. /\ \/ Return(c)
           \/ Continue(c, [call[c] EXCEPT !.at = "checkoutLinked", !.accessory = mr[q].accessory])
        /\ call[c].at \in Fulfilling /\ "checkoutLinked" \in Fulfilling /\ UNCHANGED row
    BY <1>19 DEF SaveStock, At, Fulfilling
  <2> QED BY <1>3, <1>5, <2>1, GoesOnward
<1>20. CASE RejectForQuote(c)
  <2>1. CASE Return(c)
    BY <1>3, <2>1
  <2>2. CASE ~Return(c)
    <3>1. /\ call[c].at = "rejectForQuote" /\ Goto(c, "saveRejection")
          /\ UNCHANGED row /\ row[q].status \notin Terminal
      BY <1>20, <2>2 DEF RejectForQuote, At
    <3>2. Onward(c, "saveRejection")
      BY <3>1, GoesOnward
    <3>3. Expects("saveRejection", row'[q].status, proc'[q])
      BY <3>1 DEF Expects, Fulfilling
    <3> QED BY <3>1, <3>2, <3>3 DEF Goes
  <2> QED BY <2>1, <2>2
<1>21. CASE CloseProcurement(c)
  <2>1. /\ call[c].at = "closeProcurement" /\ Onward(c, "completeReviewed")
        /\ proc' = [proc EXCEPT ![q] = "COMPLETED"]
    BY <1>21, GoesOnward DEF CloseProcurement, At
  <2>2. q \in Requests
    BY <2>1, CallTyped
  <2>3. proc'[q] = "COMPLETED"
    BY <2>1, <2>2 DEF Typed, ProcTyped
  <2>4. Expects("completeReviewed", row'[q].status, proc'[q])
    BY <2>3 DEF Expects, Fulfilling
  <2> QED BY <2>1, <2>4 DEF Goes
<1> QED
  BY <1>8, <1>9, <1>10, <1>11, <1>12, <1>13, <1>14, <1>15, <1>16, <1>17, <1>18, <1>19, <1>20,
     <1>21 DEF AccessoryStep

\* A step by c keeps the turns if it leaves the request of every other call
\* alone, and c what it expects of its own.
LEMMA TurnsKept ==
    ASSUME Typed, Typed', Turns, NEW c \in Calls,
           \A d \in Calls : d # c => call'[d] = call[d],
           \A d \in Calls : d # c /\ call[d].at # "idle"
               => /\ row'[call[d].req].status = row[call[d].req].status
                  /\ proc'[call[d].req] = proc[call[d].req]
                  /\ call'[c].req # call[d].req,
           call'[c].at = "idle" => call'[c].req = None,
           call'[c].at # "idle" =>
               Expects(call'[c].at, row'[call'[c].req].status, proc'[call'[c].req])
    PROVE  Turns'
<1>1. None \notin Requests
  BY StoreAssumption
<1>2. \A d \in Calls : call'[d].at # "idle" => call'[d].req \in Requests
  BY DEF Typed, StoreTyped, CallsTyped, CallsNamed
<1>3. \A d \in Calls : call[d].at # "idle" => call[d].req \in Requests
  BY CallTyped
<1>4. \A d \in Calls : call'[d].at = "idle" => call'[d].req = None
  BY DEF Turns
<1>5. \A d, e \in Calls : d # e /\ call'[d].at # "idle" => call'[e].req # call'[d].req
  BY <1>1, <1>2, <1>3 DEF Turns
<1>6. \A d \in Calls : call'[d].at # "idle" =>
         Expects(call'[d].at, row'[call'[d].req].status, proc'[call'[d].req])
  BY DEF Turns
<1> QED BY <1>4, <1>5, <1>6 DEF Turns

LEMMA TurnsShared ==
    ASSUME ~Overlap, Typed, Typed', Turns, NEW c \in Calls, SharedStep(c)
    PROVE  Turns'
<1>1. StoreStep(c) /\ proc' = proc /\ \A d \in Calls : d # c => call'[d] = call[d]
  BY SharedHeld DEF SharedStep
<1>2. \A d \in Calls : call[d].at # "idle" => call[d].req \in Requests
  BY CallTyped
<1>3. CASE /\ call'[c] = Idle
           /\ \A q \in Requests : row'[q].status = row[q].status \/ (call[c].req = q /\ call[c].at # "idle")
  <2>1. Idle.at = "idle" /\ Idle.req = None /\ None \notin Requests
    BY StoreAssumption DEF Idle
  <2>2. \A d \in Calls : d # c /\ call[d].at # "idle"
            => /\ row'[call[d].req].status = row[call[d].req].status
               /\ call'[c].req # call[d].req
    BY <1>2, <1>3, <2>1 DEF Turns
  <2> QED BY <1>1, <1>3, <2>1, <2>2, TurnsKept
<1>4. ASSUME NEW r \in Requests, Free(c, r),
             \A q \in Requests \ {r} : row'[q].status = row[q].status,
             \/ call'[c] = call[c]
             \/ /\ call'[c].req = r
                /\ call'[c].at \in StoreSteps \ {"idle"}
                /\ StoreExpects(call'[c].at, row'[r].status)
      PROVE  Turns'
  <2>1. call[c].at = "idle" /\ \A d \in Calls : call[d].req # r
    BY <1>4 DEF Free
  <2>2. call[c].req = None
    BY <2>1 DEF Turns
  <2>3. \A d \in Calls : d # c /\ call[d].at # "idle"
            => /\ row'[call[d].req].status = row[call[d].req].status
               /\ call'[c].req # call[d].req
    BY <1>2, <1>4, <2>1, <2>2, StoreAssumption
  <2>4. \A s, p : \A step \in StoreSteps : StoreExpects(step, s) => Expects(step, s, p)
    BY DEF StoreExpects, Expects, StoreSteps, Fulfilling, Terminal
  <2>5. /\ call'[c].at = "idle" => call'[c].req = None
        /\ call'[c].at # "idle" =>
             Expects(call'[c].at, row'[call'[c].req].status, proc'[call'[c].req])
    BY <1>4, <2>1, <2>2, <2>4
  <2> QED BY <1>1, <2>3, <2>5, TurnsKept
<1>5. StoreTyped(AccessorySteps)
  BY DEF Typed
<1> QED BY <1>1, <1>3, <1>4, <1>5, StoreTurns

LEMMA TurnsAccessory ==
    ASSUME ~Overlap, Typed, Typed', Turns, NEW c \in Calls, AccessoryStep(c)
    PROVE  Turns'
<1>1. \A d \in Calls : d # c => call'[d] = call[d]
  BY AccessoryMoves DEF Moves, Typed, StoreTyped, CallsTyped
<1>2. \A d \in Calls : call[d].at # "idle" => call[d].req \in Requests
  BY CallTyped
<1>3. \A q \in Requests :
         \/ row'[q].status = row[q].status /\ proc'[q] = proc[q]
         \/ q = call[c].req /\ call[c].at # "idle"
  <2> TAKE q \in Requests
  <2>1. \/ row'[q].status = row[q].status
        \/ /\ q = call[c].req
           /\ call[c].at \in {"completeStandard", "completeLinked", "completeReviewed"}
    BY StatusWrites
  <2>2. proc'[q] = proc[q] \/ (q = call[c].req /\ call[c].at # "idle")
    BY StatusWrites
  <2> QED BY <2>1, <2>2
<1>4. \A d \in Calls : d # c /\ call[d].at # "idle"
          => /\ row'[call[d].req].status = row[call[d].req].status
             /\ proc'[call[d].req] = proc[call[d].req]
  BY <1>2, <1>3 DEF Turns
<1>5. CASE call'[c] = Idle
  <2>1. Idle.at = "idle" /\ Idle.req = None /\ None \notin Requests
    BY StoreAssumption DEF Idle
  <2> QED BY <1>1, <1>2, <1>4, <1>5, <2>1, TurnsKept
<1>6. ASSUME NEW step, call[c].at # "idle", step # "idle", Onward(c, step),
             Expects(call[c].at, row[call[c].req].status, proc[call[c].req])
               => Expects(step, row'[call[c].req].status, proc'[call[c].req])
      PROVE  Turns'
  <2>1. \A d \in Calls : d # c /\ call[d].at # "idle" => call'[c].req # call[d].req
    BY <1>6 DEF Onward, Turns
  <2>2. call'[c].at # "idle" /\ Expects(call'[c].at, row'[call'[c].req].status, proc'[call'[c].req])
    BY <1>6 DEF Onward, Turns
  <2> QED BY <1>1, <1>4, <2>1, <2>2, TurnsKept
<1>7. ASSUME NEW r \in Requests, Free(c, r), UNCHANGED <<row, proc>>, call'[c].req = r,
             call'[c].at # "idle", Expects(call'[c].at, row[r].status, proc[r])
      PROVE  Turns'
  <2>1. \A d \in Calls : call[d].req # r
    BY <1>7 DEF Free
  <2> QED BY <1>1, <1>4, <1>7, <2>1, TurnsKept
<1> QED BY <1>5, <1>6, <1>7, AccessoryTurns

TurnsInv == Typed /\ Turns

LEMMA TurnsNext ==
    ASSUME ~Overlap
    PROVE  TurnsInv /\ [Next]_vars => TurnsInv'
<1> SUFFICES ASSUME TurnsInv, [Next]_vars PROVE TurnsInv'
  OBVIOUS
<1>1. Typed /\ Typed' /\ Turns
  BY NextTyped DEF TurnsInv
<1>2. CASE UNCHANGED <<row, call, proc>>
  BY <1>1, <1>2 DEF Turns, TurnsInv
<1>3. UNCHANGED <<row, call, proc>> \/ \E c \in Calls : SharedStep(c) \/ AccessoryStep(c)
  BY DEF Next, SnipeStep, Restock, HandOutUnit, storeVars, vars
<1> QED BY <1>1, <1>2, <1>3, TurnsShared, TurnsAccessory DEF TurnsInv

LEMMA TurnsInitially == Init => TurnsInv
BY InitTyped DEF TurnsInv, Turns, Init, StoreInit, Idle

\* Where calls about one request take turns, COMPLETED and REJECTED are final,
\* whatever fails, but for the review of a purchase that was rejected meanwhile.
THEOREM FinalUntilReviewed ==
    ASSUME ~Overlap
    PROVE  Spec => OnlyReviewReopens
<1> DEFINE Final == \A r \in Requests :
              row[r].status \in Terminal /\ row'[r].status # row[r].status =>
                 row[r].status = "REJECTED" /\ row'[r].status = "COMPLETED"
                 /\ proc[r] = "COMPLETED"
<1>1. TurnsInv /\ [Next]_vars => Final
  <2> SUFFICES ASSUME TurnsInv, [Next]_vars, NEW r \in Requests,
                      row[r].status \in Terminal, row'[r].status # row[r].status
               PROVE  /\ row[r].status = "REJECTED" /\ row'[r].status = "COMPLETED"
                      /\ proc[r] = "COMPLETED"
    OBVIOUS
  <2>1. Typed /\ Turns /\ StoreTyped(AccessorySteps)
    BY DEF TurnsInv, Typed
  <2>2. ASSUME NEW c \in Calls, SharedStep(c)
        PROVE  FALSE
    <3>1. StoreStep(c)
      BY <2>2 DEF SharedStep
    <3>2. \/ row[r].status = "NONE"
          \/ /\ call[c].req = r
             /\ call[c].at \in {"approveStandard", "approveNonStandard", "saveRejection"}
      BY <2>1, <3>1, StoreTurns
    <3> QED BY <2>1, <3>2 DEF Turns, Expects, Terminal
  <2>3. ASSUME NEW c \in Calls, AccessoryStep(c)
        PROVE  /\ row[r].status = "REJECTED" /\ row'[r].status = "COMPLETED"
               /\ proc[r] = "COMPLETED"
    <3>1. /\ r = call[c].req /\ row'[r].status = "COMPLETED"
          /\ call[c].at \in {"completeStandard", "completeLinked", "completeReviewed"}
      BY <2>1, <2>3, StatusWrites
    <3>2. Expects(call[c].at, row[r].status, proc[r])
      BY <2>1, <3>1 DEF Turns
    <3> QED BY <3>1, <3>2 DEF Expects, Fulfilling, Terminal
  <2>4. UNCHANGED row \/ \E c \in Calls : SharedStep(c) \/ AccessoryStep(c)
    BY DEF Next, SnipeStep, Restock, HandOutUnit, storeVars, vars
  <2> QED BY <2>2, <2>3, <2>4
<1>2. Spec => []TurnsInv
  BY TurnsInitially, TurnsNext, PTL DEF Spec
<1>3. Spec => [][Final]_vars
  <2> HIDE DEF Final
  <2> QED BY <1>1, <1>2, PTL DEF Spec
<1> QED BY <1>3 DEF OnlyReviewReopens

-----------------------------------------------------------------------------
(* How accessory requests end: what stands behind a completed one, and behind a
   price nobody settled, when the calls about one request take turns.        *)

(***************************************************************************)
(* Outcomes.  What is true of a request whatever call is about it, and     *)
(* what a call, at the step it has come to, may rely on.                   *)
(***************************************************************************)
StandardSteps == {"resolve", "checkoutStandard", "completeStandard"}
Choosing == {"readChosen", "linkChosen", "makeAccessory", "placeAccessory", "linkNew", "saveMark"}
Stocking == {"readStock", "patchStock", "rereadStock", "saveStock", "checkoutLinked",
             "completeLinked"}
Purchasing == {"makeReviewed", "placeReviewed", "checkoutReviewed",
               "linkReviewed", "closeProcurement"}
Carrying == {"readChosen", "linkChosen", "checkoutStandard", "checkoutLinked",
             "placeAccessory", "placeReviewed", "checkoutReviewed", "linkNew", "linkReviewed",
             "discardAccessory"}

Story(r) ==
    /\ row[r].status # "NONE" => row[r].type \in Types
    /\ row[r].type = "NON_STANDARD" \/ mr[r].status = "NONE"
    /\ mr[r].status = "COMPLETED" <=> mr[r].accessory # None
    /\ HasModelRequest(r) => mr[r].id > 0
    /\ mr[r].accessory # None \/ proc[r] # "NONE" => QuoteSettled(r)
    /\ row[r].status = "NONE" => /\ row[r].quote = "NONE" /\ ~HasModelRequest(r)
                                 /\ proc[r] = "NONE" /\ ~HasUnit(r)
    /\ row[r].status = "COMPLETED" => HasUnit(r) \/ proc[r] = "COMPLETED"

Knows(step, r) ==
    /\ row[r].status # "NONE"
    /\ step = "approveNonStandard" => row[r].type = "NON_STANDARD"
    /\ step = "approveReview" => mr[r].status = "PENDING"
    /\ step = "saveQuoteRejection" => row[r].quote = "SENT"
    /\ step \in Choosing => QuoteSettled(r) /\ mr[r].status = "APPROVED"
    /\ step \in Stocking => mr[r].accessory # None
    /\ step \in StandardSteps => row[r].type = "STANDARD"
    /\ step = "saveSubmitted" => proc[r] = "AWAITING_DETAILS"
    /\ step \in Purchasing => proc[r] # "NONE"
    /\ step \in {"completeStandard", "completeLinked"} => HasUnit(r)

Edits(c) == call[c].at = "saveEdit" =>
    LET r == call[c].req IN
    /\ row[r].status \in {"PENDING", "APPROVED"}
    /\ call[c].mr = ModelRequestId(r)
    /\ call[c].type \in Types
    /\ call[c].type # row[r].type => ~IsShapeCommitted(r)

Carries(c) == call[c].at \in Carrying => call[c].accessory \in Accessories

Told ==
    /\ \A r \in Requests : Story(r)
    /\ \A c \in Calls : call[c].at # "idle" => Knows(call[c].at, call[c].req)
    /\ \A c \in Calls : Edits(c) /\ Carries(c)

Receipted == {"completeStandard", "completeLinked", "linkReviewed", "closeProcurement",
              "completeReviewed"}

Paid(r, steps) == \E c \in Calls : call[c].req = r /\ call[c].at \in steps

Bought(r) ==
    /\ HasUnit(r) => row[r].status = "COMPLETED" \/ Paid(r, Receipted)
    /\ HasUnit(r) /\ row[r].type = "NON_STANDARD" => QuoteSettled(r)
    /\ proc[r] = "COMPLETED" => row[r].status = "COMPLETED" \/ Paid(r, {"completeReviewed"})
    /\ proc[r] = "NONE" => \A a, b \in Accessories :
          /\ units[r][a] <= 1
          /\ units[r][a] > 0 /\ units[r][b] > 0 => a = b
Owed == \A r \in Requests : Bought(r)

Reliable == FailAt \cap Receipted = {}

(***************************************************************************)
(* Where a step leaves the call it moves.                                  *)
(***************************************************************************)
Stands(c, step, r, a) ==
    /\ call'[c].at = step /\ call'[c].req = r /\ call'[c].accessory = a

LEMMA Locals ==
    ASSUME Typed, NEW c \in Calls
    PROVE  /\ \A step : Goto(c, step) => Stands(c, step, call[c].req, call[c].accessory)
           /\ \A step, a : Continue(c, [call[c] EXCEPT !.at = step, !.accessory = a])
                              => Stands(c, step, call[c].req, a)
           /\ \A step, flag : Continue(c, [call[c] EXCEPT !.at = step, !.flag = flag])
                              => Stands(c, step, call[c].req, call[c].accessory)
           /\ \A step, r : Begin(c, r, Loaded(step, r)) => Stands(c, step, r, None)
           /\ \A step, r, a : Begin(c, r, [Loaded(step, r) EXCEPT !.accessory = a])
                              => Stands(c, step, r, a)
           /\ Return(c) => call'[c] = Idle
<1>1. call \in [Calls -> CallStates(AccessorySteps)] /\ call[c] \in CallStates(AccessorySteps)
  BY DEF Typed, StoreTyped, CallsTyped
<1>2. \A locals : call' = [call EXCEPT ![c] = locals] => call'[c] = locals
  BY <1>1
<1>3. \A step, a, flag :
         /\ [call[c] EXCEPT !.at = step].at = step
         /\ [call[c] EXCEPT !.at = step].req = call[c].req
         /\ [call[c] EXCEPT !.at = step].accessory = call[c].accessory
         /\ [call[c] EXCEPT !.at = step, !.accessory = a].at = step
         /\ [call[c] EXCEPT !.at = step, !.accessory = a].req = call[c].req
         /\ [call[c] EXCEPT !.at = step, !.accessory = a].accessory = a
         /\ [call[c] EXCEPT !.at = step, !.flag = flag].at = step
         /\ [call[c] EXCEPT !.at = step, !.flag = flag].req = call[c].req
         /\ [call[c] EXCEPT !.at = step, !.flag = flag].accessory = call[c].accessory
  BY <1>1 DEF CallStates
<1>4. \A step, r, a :
         /\ Loaded(step, r).at = step /\ Loaded(step, r).req = r
         /\ Loaded(step, r).accessory = None
         /\ [Loaded(step, r) EXCEPT !.accessory = a].at = step
         /\ [Loaded(step, r) EXCEPT !.accessory = a].req = r
         /\ [Loaded(step, r) EXCEPT !.accessory = a].accessory = a
  BY DEF Loaded, Idle
<1>5. \A step : Goto(c, step) => call'[c] = [call[c] EXCEPT !.at = step]
  BY <1>1 DEF Goto
<1>6. ASSUME NEW step, Goto(c, step)
      PROVE  Stands(c, step, call[c].req, call[c].accessory)
  <2>1. call'[c] = [call[c] EXCEPT !.at = step]
    BY <1>5, <1>6
  <2> QED BY <1>3, <2>1 DEF Stands
<1>7. ASSUME NEW step, NEW a, Continue(c, [call[c] EXCEPT !.at = step, !.accessory = a])
      PROVE  Stands(c, step, call[c].req, a)
  <2>1. call'[c] = [call[c] EXCEPT !.at = step, !.accessory = a]
    BY <1>2, <1>7 DEF Continue
  <2> QED BY <1>3, <2>1 DEF Stands
<1>8. ASSUME NEW step, NEW flag, Continue(c, [call[c] EXCEPT !.at = step, !.flag = flag])
      PROVE  Stands(c, step, call[c].req, call[c].accessory)
  <2>1. call'[c] = [call[c] EXCEPT !.at = step, !.flag = flag]
    BY <1>2, <1>8 DEF Continue
  <2> QED BY <1>3, <2>1 DEF Stands
<1>9. ASSUME NEW step, NEW r, Begin(c, r, Loaded(step, r))
      PROVE  Stands(c, step, r, None)
  <2>1. call'[c] = Loaded(step, r)
    BY <1>2, <1>9 DEF Begin
  <2> QED BY <1>4, <2>1 DEF Stands
<1>10. ASSUME NEW step, NEW r, NEW a, Begin(c, r, [Loaded(step, r) EXCEPT !.accessory = a])
       PROVE  Stands(c, step, r, a)
  <2>1. call'[c] = [Loaded(step, r) EXCEPT !.accessory = a]
    BY <1>2, <1>10 DEF Begin
  <2> QED BY <1>4, <2>1 DEF Stands
<1>11. Return(c) => call'[c] = Idle
  BY <1>2 DEF Return
<1> QED BY <1>6, <1>7, <1>8, <1>9, <1>10, <1>11

(***************************************************************************)
(* What the steps of the flow do to the story of a request.                *)
(***************************************************************************)
LEMMA UnitsGrow ==
    ASSUME Typed, NEW c \in Calls, AccessoryStep(c), NEW q \in Requests
    PROVE  /\ HasUnit(q) => HasUnit(q)'
           /\ \/ UNCHANGED units
              \/ /\ CheckoutAccessory(c)
                 /\ UNCHANGED <<row, mr, proc>>
                 /\ q # call[c].req => units'[q] = units[q]
<1>1. CASE UNCHANGED units
  BY <1>1 DEF HasUnit
<1>2. CASE CheckoutAccessory(c)
  <2>1. /\ units' = [units EXCEPT ![call[c].req][call[c].accessory] = @ + 1]
        /\ UNCHANGED <<row, mr, proc>>
    BY <1>2 DEF CheckoutAccessory
  <2>2. units \in [Requests -> [Accessories -> Nat]]
    BY DEF Typed, InventoryTyped
  <2>3. \A a \in Accessories : units'[q][a] >= units[q][a]
    BY <2>1, <2>2
  <2>4. HasUnit(q) => HasUnit(q)'
    <3>1. \A a \in Accessories : units[q][a] \in Nat /\ units'[q][a] \in Nat
      BY <2>1, <2>2
    <3> QED BY <2>3, <3>1 DEF HasUnit
  <2> QED BY <1>2, <2>1, <2>2, <2>4
<1>3. UNCHANGED units \/ CheckoutAccessory(c)
  BY WritersOfStock DEF MakeAccessory, PlaceAccessory, DiscardAccessory, PatchStock
<1> QED BY <1>1, <1>2, <1>3

LEMMA CallTold ==
    ASSUME Typed, Turns, Told, NEW c \in Calls, call[c].at # "idle"
    PROVE  /\ call[c].req \in Requests
           /\ Story(call[c].req)
           /\ Knows(call[c].at, call[c].req)
           /\ Expects(call[c].at, row[call[c].req].status, proc[call[c].req])
           /\ call[c].at \in Carrying => call[c].accessory \in Accessories
BY CallTyped DEF Turns, Told, Carries

LEMMA StoryKept ==
    ASSUME NEW q \in Requests, Story(q), row'[q] = row[q], mr'[q] = mr[q], proc'[q] = proc[q],
           HasUnit(q) => HasUnit(q)', row[q].status # "NONE" \/ UNCHANGED units
    PROVE  Story(q)'
<1>1. row[q].status = "NONE" => (HasUnit(q)' <=> HasUnit(q))
  BY DEF HasUnit
<1> QED BY <1>1 DEF Story, HasModelRequest, QuoteSettled

\* What the row of the request has become once the step wrote it.
LEMMA AccessoryStories ==
    ASSUME Typed, Turns, Told, NEW c \in Calls, AccessoryStep(c), NEW q \in Requests
    PROVE  Story(q)'
<1> DEFINE r == call[c].req
<1>1. /\ row \in [Requests -> Rows] /\ mr \in [Requests -> ModelRequests]
      /\ proc \in [Requests -> Procurements]
  BY DEF Typed, StoreTyped, RowsTyped, WorkflowsTyped, ProcTyped
<1>2. Story(q)
  BY DEF Told
<1>3. HasUnit(q) => HasUnit(q)'
  BY UnitsGrow
<1>4. CASE UNCHANGED <<row, mr, proc, units>>
  BY <1>2, <1>3, <1>4, StoryKept
<1>5. ASSUME UNCHANGED units, call[c].at # "idle", r # q,
             row'[q] = row[q], mr'[q] = mr[q], proc'[q] = proc[q]
      PROVE  Story(q)'
  BY <1>2, <1>3, <1>5, StoryKept
<1>6. CASE CheckoutAccessory(c)
  <2>1. call[c].at # "idle" /\ UNCHANGED <<row, mr, proc>>
    BY <1>6 DEF CheckoutAccessory, AfterCheckout
  <2>2. r = q => row[q].status # "NONE"
    BY <2>1, CallTold DEF Knows
  <2>3. r # q => UNCHANGED units \/ units'[q] = units[q]
    BY UnitsGrow
  <2>4. CASE r = q
    BY <1>2, <1>3, <2>1, <2>2, <2>4, StoryKept
  <2>5. CASE r # q
    <3>1. HasUnit(q)' <=> HasUnit(q)
      BY <2>3, <2>5 DEF HasUnit
    <3> QED BY <1>2, <2>1, <3>1 DEF Story, HasModelRequest, QuoteSettled
  <2> QED BY <2>4, <2>5
<1>7. ASSUME \/ CompleteStandard(c) \/ CompleteLinked(c) \/ CompleteReviewed(c) \/ SaveQuote(c)
             \/ SaveSkip(c) \/ SaveAccept(c) \/ SaveQuoteRejection(c)
      PROVE  Story(q)'
  <2>1. /\ call[c].at # "idle" /\ UNCHANGED <<mr, proc, units>>
        /\ \A p \in Requests : p # r => row'[p] = row[p]
    BY <1>1, <1>7
    DEF CompleteStandard, CompleteLinked, CompleteReviewed, SaveQuote, SaveSkip, SaveAccept,
        SaveQuoteRejection, SetStatus, At, snipe
  <2> SUFFICES ASSUME r = q PROVE Story(q)'
    BY <1>5, <2>1
  <2>2. /\ Story(q) /\ Knows(call[c].at, q)
        /\ Expects(call[c].at, row[q].status, proc[q])
    BY <2>1, CallTold
  <2>3. row[q] \in Rows /\ (HasUnit(q)' <=> HasUnit(q))
    BY <1>1, <2>1, <2>2 DEF HasUnit
  <2>4. CASE CompleteStandard(c)
    <3>1. /\ row'[q] = [row[q] EXCEPT !.status = "COMPLETED", !.signedOff = TRUE] /\ HasUnit(q)
      BY <1>1, <2>2, <2>4 DEF CompleteStandard, At, Knows
    <3> QED BY <2>1, <2>2, <2>3, <3>1 DEF Story, HasModelRequest, QuoteSettled, Rows
  <2>5. CASE CompleteLinked(c)
    <3>1. /\ row'[q] = [row[q] EXCEPT !.status = "COMPLETED"] /\ HasUnit(q)
      BY <1>1, <2>2, <2>5 DEF CompleteLinked, SetStatus, At, Knows
    <3> QED BY <2>1, <2>2, <2>3, <3>1 DEF Story, HasModelRequest, QuoteSettled, Rows
  <2>6. CASE CompleteReviewed(c)
    <3>1. /\ row'[q] = [row[q] EXCEPT !.status = "COMPLETED", !.signedOff = TRUE]
          /\ proc[q] = "COMPLETED"
      BY <1>1, <2>2, <2>6 DEF CompleteReviewed, At, Expects
    <3> QED BY <2>1, <2>2, <2>3, <3>1 DEF Story, HasModelRequest, QuoteSettled, Rows
  <2>7. CASE SaveQuote(c)
    <3>1. /\ row'[q] = [row[q] EXCEPT !.quote = "SENT"] /\ row[q].quote = "NONE"
          /\ row[q].status # "NONE"
      BY <1>1, <2>2, <2>7 DEF SaveQuote, Knows
    <3> QED BY <2>1, <2>2, <2>3, <3>1 DEF Story, HasModelRequest, QuoteSettled, Rows
  <2>8. CASE SaveSkip(c)
    <3>1. row'[q] = [row[q] EXCEPT !.quoteSkipped = TRUE] /\ row[q].status # "NONE"
      BY <1>1, <2>2, <2>8 DEF SaveSkip, Knows
    <3> QED BY <2>1, <2>2, <2>3, <3>1 DEF Story, HasModelRequest, QuoteSettled, Rows
  <2>9. CASE SaveAccept(c)
    <3>1. row'[q] = [row[q] EXCEPT !.quote = "ACCEPTED"] /\ row[q].status # "NONE"
      BY <1>1, <2>2, <2>9 DEF SaveAccept, Knows
    <3> QED BY <2>1, <2>2, <2>3, <3>1 DEF Story, HasModelRequest, QuoteSettled, Rows
  <2>10. CASE SaveQuoteRejection(c)
    <3>1. /\ row'[q] = [row[q] EXCEPT !.quote = "REJECTED"] /\ row[q].quote = "SENT"
          /\ row[q].status # "NONE"
      BY <1>1, <2>2, <2>10 DEF SaveQuoteRejection, At, Knows
    <3> QED BY <2>1, <2>2, <2>3, <3>1 DEF Story, HasModelRequest, QuoteSettled, Rows
  <2> QED BY <1>7, <2>4, <2>5, <2>6, <2>7, <2>8, <2>9, <2>10
<1>8. ASSUME LinkChosen(c) \/ LinkNew(c) \/ SaveStock(c) \/ LinkReviewed(c)
      PROVE  Story(q)'
  <2>1. /\ call[c].at # "idle" /\ UNCHANGED <<row, proc, units>> /\ HasModelRequest(r)
        /\ \A p \in Requests : p # r => mr'[p] = mr[p]
    BY <1>1, <1>8
    DEF LinkChosen, LinkNew, LinkAccessory, SaveStock, LinkReviewed, StillThere, At, snipe
  <2> SUFFICES ASSUME r = q PROVE Story(q)'
    BY <1>5, <2>1
  <2>2. /\ Story(q) /\ Knows(call[c].at, q)
        /\ call[c].at \in Carrying => call[c].accessory \in Accessories
    BY <2>1, CallTold
  <2>3. mr[q] \in ModelRequests /\ (HasUnit(q)' <=> HasUnit(q)) /\ None \notin Accessories
    BY <1>1, <2>1, <2>2, StoreAssumption DEF HasUnit
  <2>4. CASE LinkChosen(c) \/ LinkNew(c) \/ LinkReviewed(c)
    <3>1. /\ mr'[q].status = "COMPLETED" /\ mr'[q].accessory = call[c].accessory
          /\ mr'[q].id = mr[q].id
          /\ call[c].at \in {"linkChosen", "linkNew", "linkReviewed"}
      BY <1>1, <2>2, <2>3, <2>4
      DEF LinkChosen, LinkNew, LinkAccessory, LinkReviewed, At, ModelRequests
    <3>2. call[c].accessory # None /\ QuoteSettled(q) /\ row[q].status # "NONE"
      BY <2>2, <2>3, <3>1 DEF Carrying, Knows, Choosing, Purchasing, Story
    <3> QED BY <2>1, <2>2, <2>3, <3>1, <3>2 DEF Story, HasModelRequest, QuoteSettled
  <2>5. CASE SaveStock(c)
    <3>1. /\ mr'[q].status = mr[q].status /\ mr'[q].accessory = mr[q].accessory
          /\ mr'[q].id = mr[q].id
      BY <1>1, <2>2, <2>3, <2>5 DEF SaveStock, ModelRequests
    <3> QED BY <2>1, <2>2, <2>3, <3>1 DEF Story, HasModelRequest, QuoteSettled
  <2> QED BY <1>8, <2>4, <2>5
<1>9. ASSUME SaveMark(c) \/ SaveSubmitted(c) \/ CloseProcurement(c)
      PROVE  Story(q)'
  <2>1. /\ call[c].at \in {"saveMark", "saveSubmitted", "closeProcurement"}
        /\ UNCHANGED <<row, mr, units>>
        /\ \A p \in Requests : p # r => proc'[p] = proc[p]
    BY <1>1, <1>9 DEF SaveMark, SaveSubmitted, CloseProcurement, At, snipe
  <2> SUFFICES ASSUME r = q PROVE Story(q)'
    BY <1>5, <2>1
  <2>2. Story(q) /\ Knows(call[c].at, q)
    BY <2>1, CallTold
  <2>3. QuoteSettled(q) /\ row[q].status # "NONE"
    BY <2>1, <2>2 DEF Knows, Choosing, Purchasing, Story
  <2>4. proc'[q] # "NONE" /\ (proc[q] = "COMPLETED" => proc'[q] = "COMPLETED")
    BY <1>1, <1>9, <2>2 DEF SaveMark, SaveSubmitted, CloseProcurement, At, Knows
  <2> QED BY <1>3, <2>1, <2>2, <2>3, <2>4 DEF Story, HasModelRequest, QuoteSettled
<1> QED BY <1>4, <1>6, <1>7, <1>8, <1>9, WritersOfRows, UnitsGrow

\* A call that goes on knows what the step it comes to relies on.
LEMMA AccessoryKnows ==
    ASSUME Typed, Turns, Told, NEW c \in Calls, AccessoryStep(c)
    PROVE  \/ call'[c] = Idle
           \/ \E step, a : \E r \in Requests :
                 /\ Stands(c, step, r, a) /\ Knows(step, r)'
                 /\ step # "saveEdit"
                 /\ step \in Carrying => a \in Accessories
<1> DEFINE Informed == \E step, a : \E r \in Requests :
                          /\ Stands(c, step, r, a) /\ Knows(step, r)'
                          /\ step # "saveEdit"
                          /\ step \in Carrying => a \in Accessories
<1>1. /\ row \in [Requests -> Rows] /\ mr \in [Requests -> ModelRequests]
      /\ proc \in [Requests -> Procurements]
  BY DEF Typed, StoreTyped, RowsTyped, WorkflowsTyped, ProcTyped
<1>2. ASSUME NEW step, NEW a, NEW r \in Requests, Stands(c, step, r, a), Knows(step, r)',
             step # "saveEdit", step \in Carrying => a \in Accessories
      PROVE  Informed
  BY <1>2
<1> HIDE DEF Informed
<1>3. SUFFICES call'[c] = Idle \/ Informed
  BY DEF Informed
<1>4. ASSUME NEW r \in Requests, NEW step, Begin(c, r, Loaded(step, r)),
             UNCHANGED <<row, mr, proc, units>>, Knows(step, r), step \notin Carrying,
             step # "saveEdit"
      PROVE  Informed
  <2>1. Stands(c, step, r, None)
    BY <1>4, Locals
  <2>2. Knows(step, r)'
    BY <1>4 DEF Knows, QuoteSettled, HasUnit
  <2> QED BY <1>2, <1>4, <2>1, <2>2
<1>5. ASSUME NEW r \in Requests,
             \/ CreateQuote(c, r) \/ SkipQuote(c, r) \/ CreateNewAccessory(c, r)
             \/ MarkUserProcured(c, r) \/ SubmitSelfProcuredDetails(c, r)
             \/ ApproveStandard(c, r)
             \/ \E accepted \in BOOLEAN : AnswerQuote(c, r, accepted)
             \/ \E recordInSnipe \in BOOLEAN : ReviewSelfProcuredDetails(c, r, recordInSnipe)
      PROVE  Informed
  <2>1. Story(r)
    BY DEF Told
  <2>2. CASE CreateQuote(c, r)
    <3>1. /\ Begin(c, r, Loaded("saveQuote", r)) /\ UNCHANGED <<row, mr, proc, units>>
          /\ row[r].status = "APPROVED"
      BY <2>2 DEF CreateQuote, AwaitsQuote, snipe
    <3>2. Knows("saveQuote", r) /\ "saveQuote" \notin Carrying
      BY <3>1 DEF Knows, Choosing, Stocking, StandardSteps, Purchasing, Carrying
    <3> QED BY <1>4, <3>1, <3>2
  <2>3. CASE SkipQuote(c, r)
    <3>1. /\ Begin(c, r, Loaded("saveSkip", r)) /\ UNCHANGED <<row, mr, proc, units>>
          /\ row[r].status = "APPROVED"
      BY <2>3 DEF SkipQuote, AwaitsQuote, snipe
    <3>2. Knows("saveSkip", r) /\ "saveSkip" \notin Carrying
      BY <3>1 DEF Knows, Choosing, Stocking, StandardSteps, Purchasing, Carrying
    <3> QED BY <1>4, <3>1, <3>2
  <2>4. CASE CreateNewAccessory(c, r)
    <3>1. /\ Begin(c, r, Loaded("makeAccessory", r)) /\ UNCHANGED <<row, mr, proc, units>>
          /\ row[r].status = "APPROVED" /\ mr[r].status = "APPROVED" /\ QuoteSettled(r)
      BY <2>1, <2>4 DEF CreateNewAccessory, AwaitsSelection, Story, snipe
    <3>2. Knows("makeAccessory", r) /\ "makeAccessory" \notin Carrying
      BY <3>1 DEF Knows, Choosing, Stocking, StandardSteps, Purchasing, Carrying
    <3> QED BY <1>4, <3>1, <3>2
  <2>5. CASE MarkUserProcured(c, r)
    <3>1. /\ Begin(c, r, Loaded("saveMark", r)) /\ UNCHANGED <<row, mr, proc, units>>
          /\ row[r].status = "APPROVED" /\ mr[r].status = "APPROVED" /\ QuoteSettled(r)
      BY <2>1, <2>5 DEF MarkUserProcured, AwaitsSourcing, AwaitsSelection, Story, snipe
    <3>2. Knows("saveMark", r) /\ "saveMark" \notin Carrying
      BY <3>1 DEF Knows, Choosing, Stocking, StandardSteps, Purchasing, Carrying
    <3> QED BY <1>4, <3>1, <3>2
  <2>6. CASE SubmitSelfProcuredDetails(c, r)
    <3>1. /\ Begin(c, r, Loaded("saveSubmitted", r)) /\ UNCHANGED <<row, mr, proc, units>>
          /\ row[r].status # "NONE" /\ proc[r] = "AWAITING_DETAILS"
      BY <2>1, <2>6 DEF SubmitSelfProcuredDetails, AwaitsDetails, Story, snipe
    <3>2. Knows("saveSubmitted", r) /\ "saveSubmitted" \notin Carrying
      BY <3>1 DEF Knows, Choosing, Stocking, StandardSteps, Purchasing, Carrying
    <3> QED BY <1>4, <3>1, <3>2
  <2>7. CASE ApproveStandard(c, r)
    <3>1. /\ Begin(c, r, Loaded("resolve", r)) /\ UNCHANGED <<row, mr, proc, units>>
          /\ row[r].status = "APPROVED" /\ row[r].type = "STANDARD"
      BY <2>7 DEF ApproveStandard, AwaitsStandardSignOff, snipe
    <3>2. Knows("resolve", r) /\ "resolve" \notin Carrying
      BY <3>1 DEF Knows, Choosing, Stocking, StandardSteps, Purchasing, Carrying
    <3> QED BY <1>4, <3>1, <3>2
  <2>8. CASE \E accepted \in BOOLEAN : AnswerQuote(c, r, accepted)
    <3>1. PICK step \in {"saveAccept", "saveQuoteRejection"} : Begin(c, r, Loaded(step, r))
      BY <2>8 DEF AnswerQuote
    <3>2. /\ UNCHANGED <<row, mr, proc, units>>
          /\ row[r].status # "NONE" /\ row[r].quote = "SENT"
      BY <2>1, <2>8 DEF AnswerQuote, AwaitsAnswer, Story, snipe
    <3>3. Knows(step, r) /\ step \notin Carrying /\ step # "saveEdit"
      BY <3>2 DEF Knows, Choosing, Stocking, StandardSteps, Purchasing, Carrying
    <3> QED BY <1>4, <3>1, <3>2, <3>3
  <2>9. CASE \E recordInSnipe \in BOOLEAN : ReviewSelfProcuredDetails(c, r, recordInSnipe)
    <3>1. PICK step \in {"makeReviewed", "closeProcurement"} : Begin(c, r, Loaded(step, r))
      BY <2>9 DEF ReviewSelfProcuredDetails
    <3>2. /\ UNCHANGED <<row, mr, proc, units>>
          /\ row[r].status # "NONE" /\ proc[r] # "NONE"
      BY <2>1, <2>9 DEF ReviewSelfProcuredDetails, AwaitsProcurementReview, Story, snipe
    <3>3. Knows(step, r) /\ step \notin Carrying /\ step # "saveEdit"
      BY <3>2 DEF Knows, Choosing, Stocking, StandardSteps, Purchasing, Carrying
    <3> QED BY <1>4, <3>1, <3>2, <3>3
  <2> QED BY <1>5, <2>2, <2>3, <2>4, <2>5, <2>6, <2>7, <2>8, <2>9
<1>6. ASSUME NEW r \in Requests, NEW a \in Accessories, UseExistingAccessory(c, r, a)
      PROVE  Informed
  <2>1. /\ Stands(c, "readChosen", r, a) /\ UNCHANGED <<row, mr, proc, units>>
        /\ row[r].status = "APPROVED" /\ mr[r].status = "APPROVED" /\ QuoteSettled(r)
    BY <1>6, Locals DEF UseExistingAccessory, AwaitsSelection, Told, Story, snipe
  <2>2. Knows("readChosen", r)'
    BY <2>1 DEF Knows, Choosing, Stocking, StandardSteps, Purchasing, QuoteSettled
  <2> QED BY <1>2, <2>1, <2>2
<1>7. ASSUME NEW r \in Requests, AddStock(c, r)
      PROVE  Informed
  <2>1. /\ Stands(c, "readStock", r, mr[r].accessory) /\ UNCHANGED <<row, mr, proc, units>>
        /\ row[r].status = "APPROVED" /\ mr[r].accessory # None
    BY <1>7, Locals DEF AddStock, AwaitsStock, snipe
  <2>2. Knows("readStock", r)' /\ "readStock" \notin Carrying
    BY <2>1 DEF Knows, Choosing, Stocking, StandardSteps, Purchasing, Carrying
  <2> QED BY <1>2, <2>1, <2>2
<1>8. PICK q : q = call[c].req
  OBVIOUS
<1>9. call[c].at # "idle" =>
         /\ q \in Requests /\ Knows(call[c].at, q)
         /\ call[c].at \in Carrying => call[c].accessory \in Accessories
  BY <1>8, CallTold
<1>10. ASSUME NEW step, call[c].at # "idle", step # "saveEdit",
              \/ Goto(c, step)
              \/ \E flag : Continue(c, [call[c] EXCEPT !.at = step, !.flag = flag]),
              step \in Carrying => call[c].at \in Carrying,
              Knows(step, q)'
       PROVE  Informed
  <2>1. Stands(c, step, q, call[c].accessory)
    BY <1>8, <1>10, Locals
  <2> QED BY <1>2, <1>9, <1>10, <2>1
<1>11. ASSUME NEW step, NEW a \in Accessories, call[c].at # "idle", step # "saveEdit",
              Continue(c, [call[c] EXCEPT !.at = step, !.accessory = a]),
              Knows(step, q)'
       PROVE  Informed
  <2>1. Stands(c, step, q, a)
    BY <1>8, <1>11, Locals
  <2> QED BY <1>2, <1>9, <1>11, <2>1
<1>12. ASSUME NEW step, Knows(step, q), UNCHANGED <<row, mr, proc>>, HasUnit(q) => HasUnit(q)'
       PROVE  Knows(step, q)'
  BY <1>12 DEF Knows, QuoteSettled
<1>13. call[c].at # "idle" => (HasUnit(q) => HasUnit(q)')
  BY <1>9, UnitsGrow
<1> DEFINE Same == UNCHANGED <<row, mr, proc>>
<1>14. CASE \E a \in Accessories : ResolveAccessory(c, a)
  <2>1. PICK a \in Accessories : ResolveAccessory(c, a)
    BY <1>14
  <2>2. /\ call[c].at = "resolve" /\ Same
        /\ Continue(c, [call[c] EXCEPT !.at = "checkoutStandard", !.accessory = a])
    BY <2>1 DEF ResolveAccessory, At
  <2>3. Knows("checkoutStandard", q)
    BY <1>9, <2>2 DEF Knows, Choosing, Stocking, StandardSteps, Purchasing
  <2>4. Knows("checkoutStandard", q)'
    BY <1>12, <1>13, <2>2, <2>3
  <2> QED BY <1>11, <2>2, <2>4
<1>15. CASE \E a \in Accessories : MakeAccessory(c, a)
  <2>1. PICK a \in Accessories : MakeAccessory(c, a)
    BY <1>15
  <2> DEFINE step == AfterMake[call[c].at]
  <2>2. /\ call[c].at \in {"makeAccessory", "makeReviewed"} /\ Same
        /\ Continue(c, [call[c] EXCEPT !.at = step, !.accessory = a])
    BY <2>1 DEF MakeAccessory, AfterMake
  <2>3. Knows(step, q) /\ step # "saveEdit"
    BY <1>9, <2>2 DEF AfterMake, Knows, Choosing, Stocking, StandardSteps, Purchasing
  <2> HIDE DEF step
  <2>4. PICK s : s = step
    OBVIOUS
  <2>5. Knows(s, q)'
    BY <1>12, <1>13, <2>2, <2>3, <2>4
  <2> QED BY <1>11, <2>2, <2>3, <2>4, <2>5
<1>16. CASE \E more \in 0..MaxQty : ReadStock(c, more)
  <2>1. PICK step \in {"patchStock", "rereadStock"} : Goto(c, step)
    BY <1>16 DEF ReadStock
  <2>2. call[c].at = "readStock" /\ Same
    BY <1>16 DEF ReadStock, At
  <2>3. Knows(step, q) /\ step # "saveEdit" /\ step \notin Carrying
    BY <1>9, <2>2 DEF Knows, Choosing, Stocking, StandardSteps, Purchasing, Carrying
  <2>4. Knows(step, q)'
    BY <1>12, <1>13, <2>2, <2>3
  <2> QED BY <1>10, <2>1, <2>2, <2>3, <2>4
<1>17. CASE CheckoutAccessory(c)
  <2> DEFINE step == AfterCheckout[call[c].at]
             a == call[c].accessory
  <2>1. /\ call[c].at \in {"checkoutStandard", "checkoutLinked", "checkoutReviewed"} /\ Same
        /\ Goto(c, step)
        /\ units' = [units EXCEPT ![q][a] = @ + 1]
    BY <1>8, <1>17 DEF CheckoutAccessory, AfterCheckout
  <2>2. a \in Accessories /\ q \in Requests
    BY <1>9, <2>1 DEF Carrying
  <2>3. units'[q][a] > 0
    BY <2>1, <2>2 DEF Typed, InventoryTyped
  <2>4. HasUnit(q)'
    BY <2>2, <2>3 DEF HasUnit
  <2>5. PICK s : s = step
    OBVIOUS
  <2>6. /\ s # "saveEdit"
        /\ s \in Carrying => call[c].at \in Carrying
    BY <2>1, <2>5 DEF AfterCheckout, Carrying
  <2>7. Knows(s, q)'
    BY <1>9, <2>1, <2>4, <2>5
    DEF AfterCheckout, Knows, Choosing, Stocking, StandardSteps, Purchasing, QuoteSettled
  <2> QED BY <1>10, <2>1, <2>5, <2>6, <2>7
<1>18. CASE SaveQuoteRejection(c)
  <2>1. /\ call[c].at = "saveQuoteRejection" /\ Goto(c, "rejectForQuote")
        /\ row' = [row EXCEPT ![q].quote = "REJECTED"]
    BY <1>8, <1>18 DEF SaveQuoteRejection, At
  <2>2. row'[q].status # "NONE"
    BY <1>1, <1>9, <2>1 DEF Knows, Rows
  <2>3. Knows("rejectForQuote", q)' /\ "rejectForQuote" \notin Carrying
    BY <2>2 DEF Knows, Choosing, Stocking, StandardSteps, Purchasing, Carrying
  <2> QED BY <1>10, <2>1, <2>3
<1>19. CASE RejectForQuote(c)
  <2>1. Return(c) \/ Goto(c, "saveRejection")
    BY <1>19 DEF RejectForQuote
  <2>2. call[c].at = "rejectForQuote" /\ Same
    BY <1>19 DEF RejectForQuote, At
  <2>3. Knows("saveRejection", q) /\ "saveRejection" \notin Carrying
    BY <1>9, <2>2 DEF Knows, Choosing, Stocking, StandardSteps, Purchasing, Carrying
  <2>4. Knows("saveRejection", q)'
    BY <1>12, <1>13, <2>2, <2>3
  <2> QED BY <1>10, <2>1, <2>2, <2>3, <2>4, Locals
<1>20. CASE ReadChosen(c)
  <2>1. /\ call[c].at = "readChosen" /\ Same
        /\ \E flag : Continue(c, [call[c] EXCEPT !.at = "linkChosen", !.flag = flag])
    BY <1>20 DEF ReadChosen, At
  <2>2. Knows("linkChosen", q)
    BY <1>9, <2>1 DEF Knows, Choosing, Stocking, StandardSteps, Purchasing
  <2>3. Knows("linkChosen", q)' /\ "readChosen" \in Carrying
    BY <1>12, <1>13, <2>1, <2>2 DEF Carrying
  <2> QED BY <1>10, <2>1, <2>3
<1>21. CASE LinkChosen(c)
  <2>1. /\ call[c].at = "linkChosen" /\ row' = row
        /\ Return(c) \/ Goto(c, "checkoutLinked")
        /\ mr' = [mr EXCEPT ![q].status = "COMPLETED", ![q].accessory = call[c].accessory,
                            ![q].ready = call[c].flag]
    BY <1>8, <1>21 DEF LinkChosen, LinkAccessory, At
  <2>2. call[c].accessory \in Accessories /\ "linkChosen" \in Carrying
    BY <1>9, <2>1 DEF Carrying
  <2>3. mr'[q].accessory # None
    BY <1>1, <1>9, <2>1, <2>2, StoreAssumption DEF ModelRequests
  <2>4. Knows("checkoutLinked", q)'
    BY <1>9, <2>1, <2>3 DEF Knows, Choosing, Stocking, StandardSteps, Purchasing
  <2> QED BY <1>10, <2>1, <2>2, <2>4, Locals
<1>22. CASE PlaceAccessory(c)
  <2> DEFINE step == AfterPlace[call[c].at]
  <2>1. /\ call[c].at \in {"placeAccessory", "placeReviewed"} /\ Same /\ Goto(c, step)
    BY <1>22 DEF PlaceAccessory, AfterPlace
  <2>2. PICK s : s = step
    OBVIOUS
  <2>3. Knows(s, q) /\ s # "saveEdit" /\ call[c].at \in Carrying
    BY <1>9, <2>1, <2>2
    DEF AfterPlace, Knows, Choosing, Stocking, StandardSteps, Purchasing, Carrying
  <2>4. Knows(s, q)'
    BY <1>12, <1>13, <2>1, <2>3
  <2> QED BY <1>10, <2>1, <2>2, <2>3, <2>4
<1>23. CASE SetupFails(c)
  <2>1. /\ call[c].at \in {"placeAccessory", "linkNew", "placeReviewed", "checkoutReviewed"}
        /\ Same /\ Goto(c, "discardAccessory")
    BY <1>23 DEF SetupFails
  <2>2. Knows("discardAccessory", q) /\ call[c].at \in Carrying
    BY <1>9, <2>1 DEF Knows, Choosing, Stocking, StandardSteps, Purchasing, Carrying
  <2>3. Knows("discardAccessory", q)'
    BY <1>12, <1>13, <2>1, <2>2
  <2> QED BY <1>10, <2>1, <2>2, <2>3
<1>24. CASE PatchStock(c) \/ RereadStock(c)
  <2>1. PICK step \in {"rereadStock", "saveStock"} :
           \/ Goto(c, step)
           \/ \E flag : Continue(c, [call[c] EXCEPT !.at = step, !.flag = flag])
    BY <1>24 DEF PatchStock, RereadStock
  <2>2. call[c].at \in {"patchStock", "rereadStock"} /\ Same
    BY <1>24 DEF PatchStock, RereadStock, At
  <2>3. Knows(step, q) /\ step # "saveEdit" /\ step \notin Carrying
    BY <1>9, <2>2 DEF Knows, Choosing, Stocking, StandardSteps, Purchasing, Carrying
  <2>4. Knows(step, q)'
    BY <1>12, <1>13, <2>2, <2>3
  <2> QED BY <1>10, <2>1, <2>2, <2>3, <2>4
<1>25. CASE SaveStock(c)
  <2> DEFINE a == mr[q].accessory
  <2>1. /\ call[c].at = "saveStock" /\ row' = row
        /\ Return(c) \/ Continue(c, [call[c] EXCEPT !.at = "checkoutLinked", !.accessory = a])
        /\ mr' = [mr EXCEPT ![q].ready = call[c].flag]
    BY <1>8, <1>25 DEF SaveStock, At
  <2>2. a \in Accessories /\ mr'[q].accessory # None
    BY <1>1, <1>9, <2>1 DEF Knows, Stocking, ModelRequests
  <2>3. Knows("checkoutLinked", q)'
    BY <1>9, <2>1, <2>2 DEF Knows, Choosing, Stocking, StandardSteps, Purchasing
  <2> QED BY <1>11, <2>1, <2>2, <2>3, Locals
<1>26. CASE LinkReviewed(c)
  <2>1. /\ call[c].at = "linkReviewed" /\ UNCHANGED <<row, proc>> /\ Goto(c, "closeProcurement")
    BY <1>26 DEF LinkReviewed, At
  <2>2. Knows("closeProcurement", q)' /\ "closeProcurement" \notin Carrying
    BY <1>9, <2>1 DEF Knows, Choosing, Stocking, StandardSteps, Purchasing, Carrying
  <2> QED BY <1>10, <2>1, <2>2
<1>27. CASE CloseProcurement(c)
  <2>1. call[c].at = "closeProcurement" /\ UNCHANGED row /\ Goto(c, "completeReviewed")
    BY <1>27 DEF CloseProcurement, At
  <2>2. Knows("completeReviewed", q)' /\ "completeReviewed" \notin Carrying
    BY <1>9, <2>1 DEF Knows, Choosing, Stocking, StandardSteps, Purchasing, Carrying
  <2> QED BY <1>10, <2>1, <2>2
<1>28. CASE \/ CompleteStandard(c) \/ SaveQuote(c) \/ SaveSkip(c) \/ SaveAccept(c)
            \/ CompleteLinked(c) \/ LinkNew(c) \/ DiscardAccessory(c) \/ SaveMark(c)
            \/ SaveSubmitted(c) \/ CompleteReviewed(c)
  BY <1>28, Locals
  DEF CompleteStandard, SaveQuote, SaveSkip, SaveAccept, CompleteLinked, LinkNew,
      DiscardAccessory, SaveMark, SaveSubmitted, CompleteReviewed
<1> HIDE DEF Same
<1> QED
  BY <1>5, <1>6, <1>7, <1>14, <1>15, <1>16, <1>17, <1>18, <1>19, <1>20, <1>21, <1>22, <1>23,
     <1>24, <1>25, <1>26, <1>27, <1>28 DEF AccessoryStep

(***************************************************************************)
(* What the shared handlers do to it.                                      *)
(***************************************************************************)
LEMMA SharedStories ==
    ASSUME ~Overlap, Typed, Turns, Told, NEW c \in Calls, SharedStep(c), NEW q \in Requests
    PROVE  Story(q)'
<1>1. /\ row \in [Requests -> Rows] /\ mr \in [Requests -> ModelRequests]
      /\ row[q] \in Rows /\ mr[q] \in ModelRequests
      /\ UNCHANGED <<proc, units>>
      /\ None \notin Accessories
  BY StoreAssumption DEF Typed, StoreTyped, RowsTyped, WorkflowsTyped, SharedStep, snipe
<1>2. Story(q) /\ (HasUnit(q)' <=> HasUnit(q))
  BY <1>1 DEF Told, HasUnit
<1>3. CASE row'[q] = row[q] /\ mr'[q] = mr[q]
  BY <1>1, <1>2, <1>3, StoryKept
<1>4. ASSUME NEW r \in Requests, NEW kind \in Kinds, NEW type \in Types, NEW auto \in BOOLEAN,
             CreateRequest(c, r, kind, type, auto)
      PROVE  Story(q)'
  <2>1. /\ row' = [row EXCEPT ![r] = [Unfiled EXCEPT !.kind = kind, !.type = type,
                                                     !.status = "PENDING"]]
        /\ mr' = mr /\ row[r].status = "NONE"
    BY <1>4 DEF CreateRequest
  <2>2. CASE r = q
    <3>1. row'[q].status = "PENDING" /\ row'[q].quote = "NONE"
      BY <1>1, <2>1, <2>2 DEF Unfiled
    <3>2. mr[q].status = "NONE" /\ mr[q].accessory = None /\ proc[q] = "NONE" /\ row[q].status = "NONE"
      BY <1>2, <2>1, <2>2 DEF Story, HasModelRequest
    <3> QED BY <1>1, <1>2, <2>1, <3>1, <3>2 DEF Story, HasModelRequest
  <2>3. CASE r # q
    BY <1>1, <1>3, <2>1, <2>3
  <2> QED BY <2>2, <2>3
<1>5. ASSUME \/ HandleStandardApproval(c) \/ HandleNonStandardApproval(c)
             \/ HandleAdminNonStandardApproval(c) \/ SaveEdit(c) \/ SaveRejection(c)
      PROVE  Story(q)'
  <2>1. /\ call[c].at # "idle"
        /\ \A p \in Requests : p # call[c].req => row'[p] = row[p] /\ mr'[p] = mr[p]
    <3>1. CASE HandleStandardApproval(c)
      BY <1>1, <3>1 DEF HandleStandardApproval, RecordApproval, At
    <3>2. CASE HandleNonStandardApproval(c)
      BY <1>1, <3>2 DEF HandleNonStandardApproval, RecordApproval, At
    <3>3. CASE HandleAdminNonStandardApproval(c)
      BY <1>1, <3>3 DEF HandleAdminNonStandardApproval, At
    <3>4. CASE SaveEdit(c)
      BY <1>1, <3>4 DEF SaveEdit, At
    <3>5. CASE SaveRejection(c)
      BY <1>1, <3>5 DEF SaveRejection, SetStatus, At
    <3> QED BY <1>5, <3>1, <3>2, <3>3, <3>4, <3>5
  <2> SUFFICES ASSUME call[c].req = q PROVE Story(q)'
    BY <1>3, <2>1
  <2>2. Knows(call[c].at, q) /\ Expects(call[c].at, row[q].status, proc[q])
    BY <2>1, CallTold
  <2>8. row[q].status # "NONE"
    BY <2>2 DEF Knows
  <2>3. CASE HandleStandardApproval(c)
    <3>1. /\ row'[q] = [row[q] EXCEPT !.status = "APPROVED", !.approved = TRUE] /\ mr' = mr
      BY <1>1, <2>3 DEF HandleStandardApproval, RecordApproval
    <3> QED BY <1>1, <1>2, <2>8, <3>1 DEF Story, HasModelRequest, QuoteSettled, Rows
  <2>4. CASE HandleNonStandardApproval(c)
    <3>1. /\ row'[q] = [row[q] EXCEPT !.status = "APPROVED", !.approved = TRUE]
          /\ mr'[q] = [NoModelRequest EXCEPT !.id = mr[q].id + 1, !.status = "PENDING"]
          /\ call[c].at = "approveNonStandard"
      BY <1>1, <2>4 DEF HandleNonStandardApproval, RecordApproval, At
    <3>2. /\ mr'[q].status = "PENDING" /\ mr'[q].accessory = None /\ mr'[q].id > 0
      BY <1>1, <3>1 DEF NoModelRequest, ModelRequests
    <3>3. row[q].type = "NON_STANDARD"
      BY <2>2, <3>1 DEF Knows
    <3> QED BY <1>1, <1>2, <3>1, <3>2, <3>3 DEF Story, HasModelRequest, QuoteSettled, Rows
  <2>5. CASE HandleAdminNonStandardApproval(c)
    <3>1. /\ row'[q] = [row[q] EXCEPT !.signedOff = TRUE]
          /\ mr'[q] = [mr[q] EXCEPT !.status = "APPROVED"]
          /\ call[c].at = "approveReview" /\ HasModelRequest(q)
      BY <1>1, <2>5 DEF HandleAdminNonStandardApproval, At, StillThere
    <3>2. mr[q].status = "PENDING"
      BY <2>2, <3>1 DEF Knows
    <3> QED BY <1>1, <1>2, <3>1, <3>2 DEF Story, HasModelRequest, QuoteSettled, Rows, ModelRequests
  <2>6. CASE SaveEdit(c)
    <3>1. /\ row'[q] = [row[q] EXCEPT !.kind = call[c].kind, !.type = call[c].type]
          /\ mr'[q] = IF call[c].type = "STANDARD" /\ call[c].mr # 0
                      THEN [NoModelRequest EXCEPT !.id = mr[q].id] ELSE mr[q]
          /\ call[c].at = "saveEdit"
      BY <1>1, <2>6 DEF SaveEdit, At
    <3>2. Edits(c)
      BY DEF Told
    <3>3. /\ row'[q].type = call[c].type /\ row'[q].status = row[q].status
          /\ row'[q].quote = row[q].quote /\ row'[q].quoteSkipped = row[q].quoteSkipped
      BY <1>1, <3>1 DEF Rows
    <3>4. mr'[q] = mr[q] \/ (mr'[q].status = "NONE" /\ mr'[q].accessory = None)
      BY <3>1 DEF NoModelRequest
    <3>5. row[q].status # "NONE" /\ row'[q].type \in Types
      BY <2>2, <3>1, <3>2, <3>3 DEF Knows, Edits
    <3>6. row'[q].type = "NON_STANDARD" \/ mr'[q].status = "NONE"
      <4>1. call[c].type \in Types /\ call[c].mr = ModelRequestId(q)
        BY <3>1, <3>2 DEF Edits
      <4>2. call[c].type = "STANDARD" /\ HasModelRequest(q) => call[c].mr # 0
        BY <1>1, <1>2, <4>1 DEF Story, ModelRequestId, ModelRequests
      <4> QED BY <1>2, <3>1, <3>3, <3>4, <4>1, <4>2 DEF Types, HasModelRequest, NoModelRequest
    <3> QED BY <1>1, <1>2, <3>3, <3>4, <3>5, <3>6 DEF Story, HasModelRequest, QuoteSettled
  <2>7. CASE SaveRejection(c)
    <3>1. /\ row'[q] = [row[q] EXCEPT !.status = "REJECTED"] /\ mr' = mr
      BY <1>1, <2>7 DEF SaveRejection, SetStatus
    <3> QED BY <1>1, <1>2, <2>8, <3>1 DEF Story, HasModelRequest, QuoteSettled, Rows
  <2> QED BY <1>5, <2>3, <2>4, <2>5, <2>6, <2>7
<1>6. ASSUME \/ Fail(c)
             \/ \E r \in Requests : \/ ApproveRequest(c, r) \/ ReviewRequest(c, r)
                                    \/ RejectRequest(c, r)
             \/ \E r \in Requests, kind \in Kinds, type \in Types, flag \in BOOLEAN :
                   EditRequest(c, r, kind, type, flag)
      PROVE  Story(q)'
  BY <1>3, <1>6 DEF Fail, ApproveRequest, ReviewRequest, RejectRequest, EditRequest
<1> QED BY <1>4, <1>5, <1>6 DEF SharedStep, StoreStep

LEMMA SharedKnows ==
    ASSUME Typed, Turns, Told, NEW c \in Calls, SharedStep(c)
    PROVE  \/ call'[c].at = "idle"
           \/ \E r \in Requests :
                 /\ call'[c].req = r /\ call'[c].at \notin Carrying /\ Edits(c)'
                 /\ \E step : step = call'[c].at /\ Knows(step, r)'
<1> DEFINE Informed == \E r \in Requests :
                          /\ call'[c].req = r /\ call'[c].at \notin Carrying /\ Edits(c)'
                          /\ \E step : step = call'[c].at /\ Knows(step, r)'
<1>1. /\ row \in [Requests -> Rows] /\ mr \in [Requests -> ModelRequests]
      /\ UNCHANGED <<proc, units>>
  BY DEF Typed, StoreTyped, RowsTyped, WorkflowsTyped, SharedStep, snipe
<1>2. ASSUME NEW r \in Requests, NEW step, Begin(c, r, Loaded(step, r)), Knows(step, r)',
             step \notin Carrying, step # "saveEdit"
      PROVE  Informed
  <2>1. Stands(c, step, r, None)
    BY <1>2, Locals
  <2> QED BY <1>2, <2>1 DEF Stands, Edits
<1> HIDE DEF Informed
<1>3. SUFFICES call'[c].at = "idle" \/ Informed
  BY DEF Informed
<1>4. ASSUME NEW r \in Requests, NEW kind \in Kinds, NEW type \in Types, NEW auto \in BOOLEAN,
             CreateRequest(c, r, kind, type, auto)
      PROVE  call'[c].at = "idle" \/ Informed
  <2>1. /\ row' = [row EXCEPT ![r] = [Unfiled EXCEPT !.kind = kind, !.type = type,
                                                     !.status = "PENDING"]]
    BY <1>4 DEF CreateRequest
  <2>2. row'[r].type = type /\ row'[r].status = "PENDING"
    BY <1>1, <2>1 DEF Unfiled
  <2>3. CASE auto
    <3>1. Begin(c, r, Loaded(ApprovalStep(type), r))
      BY <1>4, <2>3 DEF CreateRequest
    <3>2. /\ ApprovalStep(type) \in {"approveStandard", "approveNonStandard"}
          /\ ApprovalStep(type) = "approveNonStandard" => type = "NON_STANDARD"
      BY DEF ApprovalStep, Types
    <3>3. Knows(ApprovalStep(type), r)'
      BY <2>2, <3>2 DEF Knows, Choosing, Stocking, StandardSteps, Purchasing, ApprovalStep
    <3>4. ApprovalStep(type) \notin Carrying /\ ApprovalStep(type) # "saveEdit"
      BY <3>2 DEF Carrying
    <3> QED BY <1>2, <3>1, <3>3, <3>4
  <2>4. CASE ~auto
    BY <1>4, <2>4 DEF CreateRequest, Free
  <2> QED BY <2>3, <2>4
<1>5. ASSUME NEW r \in Requests, ApproveRequest(c, r) \/ ReviewRequest(c, r) \/ RejectRequest(c, r)
      PROVE  Informed
  <2>1. row' = row /\ mr' = mr /\ row[r].status # "NONE"
    BY <1>5 DEF ApproveRequest, ReviewRequest, RejectRequest, AwaitsManager, AwaitsReview
  <2>2. PICK step \in {"approveStandard", "approveNonStandard", "approveReview", "saveRejection"} :
           /\ Begin(c, r, Loaded(step, r))
           /\ step = "approveNonStandard" => row[r].type = "NON_STANDARD"
           /\ step = "approveReview" => mr[r].status = "PENDING"
    <3>1. CASE ApproveRequest(c, r)
      <4>1. row[r].status = "PENDING" /\ Begin(c, r, Loaded(ApprovalStep(row[r].type), r))
        BY <3>1 DEF ApproveRequest, AwaitsManager
      <4>2. row[r].type # "NONE"
        BY <4>1 DEF Told, Story, Types
      <4>3. CASE row[r].type = "STANDARD"
        BY <4>1, <4>3 DEF ApprovalStep
      <4>4. CASE row[r].type # "STANDARD"
        BY <1>1, <4>1, <4>2, <4>4 DEF ApprovalStep, Rows, Types
      <4> QED BY <4>3, <4>4
    <3>2. CASE ReviewRequest(c, r)
      BY <3>2 DEF ReviewRequest, AwaitsReview
    <3>3. CASE RejectRequest(c, r)
      BY <3>3 DEF RejectRequest
    <3> QED BY <1>5, <3>1, <3>2, <3>3
  <2>3. Knows(step, r)'
    BY <2>1, <2>2 DEF Knows, Choosing, Stocking, StandardSteps, Purchasing
  <2>4. step \notin Carrying /\ step # "saveEdit"
    BY DEF Carrying
  <2> QED BY <1>2, <2>2, <2>3, <2>4
<1>6. ASSUME NEW r \in Requests, NEW kind \in Kinds, NEW type \in Types, NEW flag \in BOOLEAN,
             EditRequest(c, r, kind, type, flag)
      PROVE  Informed
  <2>1. /\ call' = [call EXCEPT ![c] = [Loaded("saveEdit", r) EXCEPT !.kind = kind, !.type = type,
                                                                     !.flag = flag]]
        /\ row' = row /\ mr' = mr /\ row[r].status \in {"PENDING", "APPROVED"}
        /\ type # row[r].type => ~IsShapeCommitted(r)
    BY <1>6 DEF EditRequest, Begin
  <2>2. /\ call'[c].at = "saveEdit" /\ call'[c].req = r /\ call'[c].type = type
        /\ call'[c].mr = ModelRequestId(r)
    BY <2>1 DEF Typed, StoreTyped, CallsTyped, Loaded, Idle
  <2>3. Edits(c)'
    BY <2>1, <2>2 DEF Edits, IsShapeCommitted, ModelRequestId, HasModelRequest
  <2>4. Knows("saveEdit", r)' /\ "saveEdit" \notin Carrying
    BY <2>1 DEF Knows, Choosing, Stocking, StandardSteps, Purchasing, Carrying
  <2> QED BY <2>2, <2>3, <2>4 DEF Informed
<1>7. ASSUME Return(c) PROVE call'[c].at = "idle"
  <2>1. call'[c] = Idle
    BY <1>7, Locals
  <2> QED BY <2>1 DEF Idle
<1> QED
  BY <1>4, <1>5, <1>6, <1>7
  DEF SharedStep, StoreStep, HandleStandardApproval, HandleNonStandardApproval,
      HandleAdminNonStandardApproval, SaveEdit, SaveRejection, Fail

(***************************************************************************)
(* A step leaves the requests of the other calls alone, so what they were  *)
(* told stays true.                                                        *)
(***************************************************************************)
Untouched(q) == row'[q] = row[q] /\ mr'[q] = mr[q] /\ proc'[q] = proc[q] /\ units'[q] = units[q]

LEMMA TouchesOwn ==
    ASSUME Typed, NEW c \in Calls, SharedStep(c) \/ AccessoryStep(c), NEW q \in Requests
    PROVE  \/ Untouched(q)
           \/ Free(c, q) /\ row[q].status = "NONE" /\ UNCHANGED <<mr, proc, units>>
           \/ call[c].at # "idle" /\ call[c].req = q
<1>1. /\ row \in [Requests -> Rows] /\ mr \in [Requests -> ModelRequests]
      /\ proc \in [Requests -> Procurements]
  BY DEF Typed, StoreTyped, RowsTyped, WorkflowsTyped, ProcTyped
<1>2. CASE SharedStep(c)
  <2>1. UNCHANGED <<proc, units>> /\ StoreStep(c)
    BY <1>2 DEF SharedStep, snipe
  <2>2. ASSUME NEW r \in Requests, NEW kind \in Kinds, NEW type \in Types, NEW auto \in BOOLEAN,
               CreateRequest(c, r, kind, type, auto)
        PROVE  Untouched(q) \/ (/\ Free(c, q) /\ row[q].status = "NONE"
                                /\ UNCHANGED <<mr, proc, units>>)
    <3>1. /\ row' = [row EXCEPT ![r] = [Unfiled EXCEPT !.kind = kind, !.type = type,
                                                       !.status = "PENDING"]]
          /\ mr' = mr /\ Free(c, r) /\ row[r].status = "NONE"
      BY <2>2 DEF CreateRequest, Begin
    <3> QED BY <1>1, <2>1, <3>1 DEF Untouched
  <2>3. CASE HandleStandardApproval(c)
    BY <1>1, <2>1, <2>3 DEF HandleStandardApproval, RecordApproval, At, Untouched
  <2>4. CASE HandleNonStandardApproval(c)
    BY <1>1, <2>1, <2>4 DEF HandleNonStandardApproval, RecordApproval, At, Untouched
  <2>5. CASE HandleAdminNonStandardApproval(c)
    BY <1>1, <2>1, <2>5 DEF HandleAdminNonStandardApproval, At, Untouched
  <2>6. CASE SaveEdit(c)
    BY <1>1, <2>1, <2>6 DEF SaveEdit, At, Untouched
  <2>7. CASE SaveRejection(c)
    BY <1>1, <2>1, <2>7 DEF SaveRejection, SetStatus, At, Untouched
  <2>8. ASSUME \/ Fail(c)
               \/ \E r \in Requests : \/ ApproveRequest(c, r) \/ ReviewRequest(c, r)
                                      \/ RejectRequest(c, r)
               \/ \E r \in Requests, kind \in Kinds, type \in Types, flag \in BOOLEAN :
                     EditRequest(c, r, kind, type, flag)
        PROVE  Untouched(q)
    BY <2>1, <2>8 DEF Fail, ApproveRequest, ReviewRequest, RejectRequest, EditRequest, Untouched
  <2> QED BY <2>1, <2>2, <2>3, <2>4, <2>5, <2>6, <2>7, <2>8 DEF StoreStep
<1>3. CASE AccessoryStep(c)
  <2> SUFFICES ASSUME ~(call[c].at # "idle" /\ call[c].req = q) PROVE Untouched(q)
    OBVIOUS
  <2>1. row'[q] = row[q]
    <3>1. CASE CompleteStandard(c) \/ CompleteLinked(c) \/ CompleteReviewed(c)
      BY <1>1, <3>1 DEF CompleteStandard, CompleteLinked, CompleteReviewed, SetStatus, At
    <3>2. CASE SaveQuote(c) \/ SaveSkip(c) \/ SaveAccept(c) \/ SaveQuoteRejection(c)
      BY <1>1, <3>2 DEF SaveQuote, SaveSkip, SaveAccept, SaveQuoteRejection, At
    <3> QED BY <1>3, <3>1, <3>2, WritersOfRows
  <2>2. mr'[q] = mr[q]
    <3>1. CASE LinkChosen(c) \/ LinkNew(c)
      BY <1>1, <3>1 DEF LinkChosen, LinkNew, LinkAccessory, At
    <3>2. CASE SaveStock(c)
      BY <1>1, <3>2 DEF SaveStock, At
    <3>3. CASE LinkReviewed(c)
      BY <1>1, <3>3 DEF LinkReviewed, At
    <3> QED BY <1>3, <3>1, <3>2, <3>3, WritersOfRows
  <2>3. proc'[q] = proc[q]
    BY <1>3, StatusWrites
  <2>4. units'[q] = units[q]
    BY <1>3, UnitsGrow DEF CheckoutAccessory, AfterCheckout
  <2> QED BY <2>1, <2>2, <2>3, <2>4 DEF Untouched
<1> QED BY <1>2, <1>3

LEMMA OthersStay ==
    ASSUME Typed, NEW c \in Calls, SharedStep(c) \/ AccessoryStep(c), NEW d \in Calls, d # c
    PROVE  call'[d] = call[d]
<1>1. CASE SharedStep(c)
  <2>1. StoreStep(c)
    BY <1>1 DEF SharedStep
  <2> QED BY <2>1, SharedHeld
<1>2. CASE AccessoryStep(c)
  BY <1>2, AccessoryMoves DEF Moves, Typed, StoreTyped, CallsTyped
<1> QED BY <1>1, <1>2

LEMMA OthersUntouched ==
    ASSUME ~Overlap, Typed, Turns, NEW c \in Calls, SharedStep(c) \/ AccessoryStep(c),
           NEW d \in Calls, d # c, call[d].at # "idle"
    PROVE  call'[d] = call[d] /\ call[d].req \in Requests /\ Untouched(call[d].req)
<1>1. call[d].req \in Requests
  BY CallTyped
<1>2. ~Free(c, call[d].req) /\ call[c].req # call[d].req
  BY DEF Free, Turns
<1> QED BY <1>1, <1>2, OthersStay, TouchesOwn

ToldInv == TurnsInv /\ Told

LEMMA ToldNext ==
    ASSUME ~Overlap
    PROVE  ToldInv /\ [Next]_vars => ToldInv'
<1> SUFFICES ASSUME ToldInv, [Next]_vars PROVE ToldInv'
  OBVIOUS
<1>1. Typed /\ Turns /\ Told /\ Typed' /\ Turns' /\ TurnsInv'
  BY TurnsNext DEF ToldInv, TurnsInv
<1>2. CASE UNCHANGED <<row, mr, call, proc, units>>
  <2>1. ASSUME NEW q \in Requests PROVE Story(q)'
    BY <1>1, <1>2, StoryKept DEF Told, HasUnit
  <2>2. ASSUME NEW d \in Calls, call'[d].at # "idle"
        PROVE  \E step, q : step = call'[d].at /\ q = call'[d].req /\ Knows(step, q)'
    <3>1. PICK step, q : step = call[d].at /\ q = call[d].req /\ Knows(step, q)
      BY <1>1, <1>2, <2>2 DEF Told
    <3>2. Knows(step, q)'
      BY <1>2, <3>1 DEF Knows, QuoteSettled, HasUnit
    <3> QED BY <1>2, <3>1, <3>2
  <2>3. ASSUME NEW d \in Calls PROVE (Edits(d) /\ Carries(d))'
    BY <1>1, <1>2
    DEF Told, Edits, Carries, IsShapeCommitted, ModelRequestId, HasModelRequest
  <2>4. ASSUME NEW d \in Calls, call'[d].at # "idle" PROVE Knows(call[d].at, call[d].req)'
    BY <2>2, <2>4
  <2> QED BY <1>1, <2>1, <2>3, <2>4 DEF Told, ToldInv
<1>3. ASSUME NEW c \in Calls, SharedStep(c) \/ AccessoryStep(c)
      PROVE  ToldInv'
  <2>1. ASSUME NEW q \in Requests PROVE Story(q)'
    BY <1>1, <1>3, SharedStories, AccessoryStories
  <2>2. ASSUME NEW d \in Calls, d # c
        PROVE  /\ call'[d].at # "idle" => Knows(call[d].at, call[d].req)'
               /\ Edits(d)' /\ Carries(d)'
    <3>1. CASE call[d].at = "idle"
      <4>1. call'[d] = call[d]
        BY <1>1, <1>3, <2>2, OthersStay
      <4> QED BY <3>1, <4>1 DEF Edits, Carries, Carrying
    <3>2. CASE call[d].at # "idle"
      <4>1. PICK step, q : step = call[d].at /\ q = call[d].req
        OBVIOUS
      <4>2. /\ call'[d] = call[d] /\ q \in Requests /\ Untouched(q)
            /\ Knows(step, q) /\ Edits(d) /\ Carries(d)
        BY <1>1, <1>3, <2>2, <3>2, <4>1, OthersUntouched DEF Told
      <4>3. Knows(step, q)'
        BY <4>2 DEF Knows, QuoteSettled, HasUnit, Untouched
      <4>4. Edits(d)' /\ Carries(d)'
        BY <4>1, <4>2
        DEF Edits, Carries, IsShapeCommitted, ModelRequestId, HasModelRequest, Untouched
      <4> QED BY <4>1, <4>2, <4>3, <4>4
    <3> QED BY <3>1, <3>2
  <2>3. /\ call'[c].at # "idle" => Knows(call[c].at, call[c].req)'
        /\ Edits(c)' /\ Carries(c)'
    <3>1. CASE SharedStep(c)
      <4>1. CASE call'[c].at = "idle"
        BY <4>1 DEF Edits, Carries, Carrying
      <4>2. CASE call'[c].at # "idle"
        <5>1. PICK r \in Requests : /\ call'[c].req = r /\ call'[c].at \notin Carrying /\ Edits(c)'
                                   /\ \E step : step = call'[c].at /\ Knows(step, r)'
          BY <1>1, <3>1, <4>2, SharedKnows
        <5>2. PICK step : step = call'[c].at /\ Knows(step, r)'
          BY <5>1
        <5>3. Knows(call[c].at, call[c].req)'
          BY <5>1, <5>2
        <5> QED BY <5>1, <5>3 DEF Carries
      <4> QED BY <4>1, <4>2
    <3>2. CASE AccessoryStep(c)
      <4>1. CASE call'[c] = Idle
        BY <4>1 DEF Edits, Carries, Idle, Carrying
      <4>2. ASSUME NEW step, NEW a, NEW r \in Requests, Stands(c, step, r, a), Knows(step, r)',
                   step # "saveEdit", step \in Carrying => a \in Accessories
            PROVE  /\ Knows(call[c].at, call[c].req)'
                   /\ Edits(c)' /\ Carries(c)'
        BY <4>2 DEF Stands, Edits, Carries
      <4> QED BY <1>1, <3>2, <4>1, <4>2, AccessoryKnows
    <3> QED BY <1>3, <3>1, <3>2
  <2> QED BY <1>1, <2>1, <2>2, <2>3 DEF Told, ToldInv
<1>4. UNCHANGED <<row, mr, call, proc, units>> \/ \E c \in Calls : SharedStep(c) \/ AccessoryStep(c)
  BY DEF Next, SnipeStep, Restock, HandOutUnit, storeVars, vars, snipe
<1> QED BY <1>2, <1>3, <1>4

LEMMA ToldInitially == Init => ToldInv
<1> SUFFICES ASSUME Init PROVE ToldInv
  OBVIOUS
<1>1. TurnsInv
  BY TurnsInitially
<1>2. ASSUME NEW q \in Requests PROVE Story(q)
  BY DEF Init, StoreInit, InventoryInit, Story, HasModelRequest, HasUnit, NoModelRequest, Unfiled
<1>3. ASSUME NEW d \in Calls PROVE call[d].at = "idle" /\ Edits(d) /\ Carries(d)
  BY DEF Init, StoreInit, Idle, Edits, Carries, Carrying
<1> QED BY <1>1, <1>2, <1>3 DEF ToldInv, Told

\* Wherever calls fail, a completed request has a unit checked out or a reviewed
\* purchase behind it.
THEOREM CompletedRequestHasItem ==
    ASSUME ~Overlap
    PROVE  Spec => []CompletedHasItem
<1>1. ToldInv => CompletedHasItem
  BY DEF ToldInv, Told, Story, CompletedHasItem
<1> QED BY <1>1, ToldInitially, ToldNext, PTL DEF Spec

(***************************************************************************)
(* Receipts.  Between a checkout that landed and the write that completes  *)
(* the request stand only steps that never fail here: so a unit is checked *)
(* out for a request that is completed, or is about to be.                 *)
(***************************************************************************)
\* The call about a request is the only one, so what is still owed is owed by it.
LEMMA OwedByOwn ==
    ASSUME Typed, Turns, Owed, NEW c \in Calls, call[c].at # "idle",
           NEW q \in Requests, q = call[c].req
    PROVE  /\ HasUnit(q) => row[q].status = "COMPLETED" \/ call[c].at \in Receipted
           /\ proc[q] = "COMPLETED" => row[q].status = "COMPLETED" \/ call[c].at = "completeReviewed"
<1>1. ASSUME NEW steps, Paid(q, steps), "idle" \notin steps PROVE call[c].at \in steps
  BY <1>1 DEF Paid, Turns
<1>2. "idle" \notin Receipted /\ "idle" \notin {"completeReviewed"}
  BY DEF Receipted
<1> QED BY <1>1, <1>2 DEF Owed, Bought

\* A step that takes no receipt, and neither ends nor buys anything, keeps it so.
LEMMA OwedKept ==
    ASSUME Typed, Turns, Owed, NEW c \in Calls, call[c].at # "idle",
           NEW q \in Requests, q = call[c].req, call[c].at \notin Receipted,
           row'[q].status = row[q].status, row'[q].type = row[q].type,
           QuoteSettled(q) => QuoteSettled(q)', units'[q] = units[q],
           proc'[q] = "COMPLETED" => proc[q] = "COMPLETED",
           proc'[q] = "NONE" => proc[q] = "NONE"
    PROVE  Bought(q)'
<1>1. /\ HasUnit(q) => row[q].status = "COMPLETED"
      /\ proc[q] = "COMPLETED" => row[q].status = "COMPLETED"
  BY OwedByOwn DEF Receipted
<1>2. HasUnit(q)' <=> HasUnit(q)
  BY DEF HasUnit
<1> QED BY <1>1, <1>2 DEF Owed, Bought

LEMMA OwedShared ==
    ASSUME Reliable, Typed, Turns, Told, Owed, NEW c \in Calls, SharedStep(c),
           call[c].at # "idle", NEW q \in Requests, q = call[c].req
    PROVE  Bought(q)'
<1>1. /\ row \in [Requests -> Rows] /\ UNCHANGED <<proc, units>> /\ StoreStep(c)
      /\ (HasUnit(q)' <=> HasUnit(q))
  BY DEF Typed, StoreTyped, RowsTyped, SharedStep, snipe, HasUnit
<1>2. Expects(call[c].at, row[q].status, proc[q]) /\ Edits(c) /\ Bought(q)
  BY CallTold DEF Told, Owed
<1>3. CASE Fail(c)
  <2>1. call[c].at \notin Receipted /\ row' = row
    BY <1>3 DEF Fail, Reliable
  <2> QED BY <1>1, <2>1, OwedKept DEF QuoteSettled
<1>4. CASE HandleAdminNonStandardApproval(c)
  <2>1. row' = [row EXCEPT ![q].signedOff = TRUE] /\ call[c].at \notin Receipted
    BY <1>4 DEF HandleAdminNonStandardApproval, At, Receipted
  <2>2. /\ row'[q].status = row[q].status /\ row'[q].type = row[q].type
        /\ row'[q].quote = row[q].quote /\ row'[q].quoteSkipped = row[q].quoteSkipped
    BY <1>1, <2>1 DEF Rows
  <2> QED BY <1>1, <2>1, <2>2, OwedKept DEF QuoteSettled
<1>5. CASE \/ HandleStandardApproval(c) \/ HandleNonStandardApproval(c)
           \/ SaveEdit(c) \/ SaveRejection(c)
  <2>1. /\ call[c].at \in {"approveStandard", "approveNonStandard", "saveEdit", "saveRejection"}
    BY <1>5 DEF HandleStandardApproval, HandleNonStandardApproval, SaveEdit, SaveRejection, At
  <2>2. row[q].status # "COMPLETED" /\ call[c].at \notin Receipted
    BY <1>2, <2>1 DEF Expects, Edits, Terminal, Receipted
  <2>3. ~HasUnit(q) /\ proc[q] # "COMPLETED"
    BY <2>2, OwedByOwn DEF Receipted
  <2> QED BY <1>1, <1>2, <2>3 DEF Bought
<1>6. \/ Fail(c) \/ HandleAdminNonStandardApproval(c)
      \/ HandleStandardApproval(c) \/ HandleNonStandardApproval(c) \/ SaveEdit(c) \/ SaveRejection(c)
  BY <1>1
  DEF StoreStep, CreateRequest, EditRequest, ApproveRequest, ReviewRequest, RejectRequest, Begin, Free
<1> QED BY <1>3, <1>4, <1>5, <1>6

LEMMA OwedAccessory ==
    ASSUME Typed, Turns, Told, Owed, NEW c \in Calls, AccessoryStep(c), call[c].at # "idle",
           NEW q \in Requests, q = call[c].req
    PROVE  Bought(q)'
<1>1. /\ row \in [Requests -> Rows] /\ proc \in [Requests -> Procurements] /\ row[q] \in Rows
      /\ units \in [Requests -> [Accessories -> Nat]]
  BY DEF Typed, StoreTyped, RowsTyped, ProcTyped, InventoryTyped
<1>2. /\ Expects(call[c].at, row[q].status, proc[q]) /\ Bought(q) /\ Story(q)
      /\ Knows(call[c].at, q)
      /\ call[c].at \in Carrying => call[c].accessory \in Accessories
  BY CallTold DEF Owed
<1>3. CASE CompleteStandard(c) \/ CompleteLinked(c) \/ CompleteReviewed(c)
  <2>1. UNCHANGED <<proc, units>>
    BY <1>3 DEF CompleteStandard, CompleteLinked, CompleteReviewed, snipe
  <2>2. /\ row'[q].status = "COMPLETED" /\ row'[q].type = row[q].type
        /\ row'[q].quote = row[q].quote /\ row'[q].quoteSkipped = row[q].quoteSkipped
    BY <1>1, <1>3 DEF CompleteStandard, CompleteLinked, CompleteReviewed, SetStatus, Rows
  <2> QED BY <1>2, <2>1, <2>2 DEF Bought, QuoteSettled, HasUnit
<1>4. ASSUME LinkReviewed(c) \/ CloseProcurement(c)
      PROVE  Bought(q)'
  <2>1. /\ UNCHANGED <<row, units>>
        /\ call'[c].at \in Receipted /\ call'[c].req = q
        /\ call[c].at \in {"linkReviewed", "closeProcurement"}
    <3>1. PICK step \in {"closeProcurement", "completeReviewed"} : Goto(c, step)
      BY <1>4 DEF LinkReviewed, CloseProcurement
    <3>2. Stands(c, step, call[c].req, call[c].accessory)
      BY <3>1, Locals
    <3> QED BY <1>4, <3>2 DEF LinkReviewed, CloseProcurement, At, snipe, Stands, Receipted
  <2>2. Paid(q, Receipted)'
    BY <2>1 DEF Paid
  <2>3. proc[q] = "COMPLETED" => row[q].status = "COMPLETED"
    BY <2>1, OwedByOwn
  <2>4. CASE LinkReviewed(c)
    <3>1. proc' = proc
      BY <2>4 DEF LinkReviewed
    <3> QED BY <1>2, <2>1, <2>2, <2>3, <3>1 DEF Bought, QuoteSettled, HasUnit
  <2>5. CASE CloseProcurement(c)
    <3>1. call'[c].at = "completeReviewed" /\ proc' = [proc EXCEPT ![q] = "COMPLETED"]
      BY <2>5, Locals DEF CloseProcurement, Stands
    <3>2. Paid(q, {"completeReviewed"})'
      BY <2>1, <3>1 DEF Paid
    <3>3. proc'[q] # "NONE"
      BY <1>1, <3>1
    <3> QED BY <1>2, <2>1, <2>2, <3>2, <3>3 DEF Bought, QuoteSettled, HasUnit
  <2> QED BY <1>4, <2>4, <2>5
<1>5. CASE CheckoutAccessory(c)
  <2> DEFINE b == call[c].accessory
  <2>1. /\ UNCHANGED <<row, proc>> /\ Goto(c, AfterCheckout[call[c].at])
        /\ call[c].at \in {"checkoutStandard", "checkoutLinked", "checkoutReviewed"}
        /\ units' = [units EXCEPT ![q][b] = @ + 1]
    BY <1>5 DEF CheckoutAccessory, AfterCheckout
  <2>2. b \in Accessories
    BY <1>2, <2>1 DEF Carrying
  <2>3. call'[c].at \in Receipted /\ call'[c].req = q
    <3>1. Stands(c, AfterCheckout[call[c].at], q, b)
      BY <2>1, Locals
    <3>2. AfterCheckout[call[c].at] \in Receipted
      BY <2>1 DEF AfterCheckout, Receipted
    <3> QED BY <3>1, <3>2 DEF Stands
  <2>4. Paid(q, Receipted)'
    BY <2>3 DEF Paid
  <2>5. row[q].type = "NON_STANDARD" => QuoteSettled(q)
    BY <1>2, <2>1 DEF Knows, StandardSteps, Stocking, Purchasing, Story
  <2>6. proc[q] = "COMPLETED" => row[q].status = "COMPLETED"
    BY <2>1, OwedByOwn
  <2>7. ASSUME proc[q] = "NONE"
        PROVE  \A x, y \in Accessories :
                  /\ units'[q][x] <= 1
                  /\ units'[q][x] > 0 /\ units'[q][y] > 0 => x = y
    <3>1. call[c].at \in {"checkoutStandard", "checkoutLinked"}
      BY <1>2, <2>1, <2>7 DEF Knows, Purchasing
    <3>2. ~HasUnit(q)
      BY <1>2, <3>1, OwedByOwn DEF Expects, Fulfilling, Receipted
    <3>3. \A x \in Accessories : units[q][x] = 0
      BY <1>1, <3>2 DEF HasUnit
    <3>4. \A x \in Accessories : units'[q][x] = IF x = b THEN 1 ELSE 0
      BY <1>1, <2>1, <2>2, <3>3
    <3> QED BY <3>4
  <2> QED BY <2>1, <2>4, <2>5, <2>6, <2>7 DEF Bought, QuoteSettled
<1>6. ASSUME ~(CompleteStandard(c) \/ CompleteLinked(c) \/ CompleteReviewed(c)),
             ~(LinkReviewed(c) \/ CloseProcurement(c)), ~CheckoutAccessory(c)
      PROVE  Bought(q)'
  <2>1. units' = units
    BY <1>6, UnitsGrow
  <2>2. call[c].at \notin Receipted
    BY <1>6
    DEF AccessoryStep, ApproveStandard, CreateQuote, SkipQuote, AnswerQuote,
        UseExistingAccessory, CreateNewAccessory, AddStock, MarkUserProcured,
        SubmitSelfProcuredDetails, ReviewSelfProcuredDetails, ResolveAccessory, MakeAccessory,
        AfterMake, ReadStock, SaveQuote, SaveSkip, SaveAccept, SaveQuoteRejection,
        RejectForQuote, ReadChosen, LinkChosen, PlaceAccessory, AfterPlace, LinkNew, SetupFails,
        DiscardAccessory, PatchStock, RereadStock, SaveStock, SaveMark, SaveSubmitted, Begin, Free,
        At, Receipted
  <2>3. /\ row'[q].status = row[q].status /\ row'[q].type = row[q].type
        /\ QuoteSettled(q) => QuoteSettled(q)'
    <3>1. CASE row' = row
      BY <3>1 DEF QuoteSettled
    <3>2. CASE SaveQuote(c)
      <4>1. row'[q] = [row[q] EXCEPT !.quote = "SENT"] /\ row[q].quote = "NONE"
        BY <1>1, <3>2 DEF SaveQuote
      <4> QED BY <1>1, <4>1 DEF QuoteSettled, Rows
    <3>3. CASE SaveSkip(c)
      <4>1. row'[q] = [row[q] EXCEPT !.quoteSkipped = TRUE]
        BY <1>1, <3>3 DEF SaveSkip
      <4> QED BY <1>1, <4>1 DEF QuoteSettled, Rows
    <3>4. CASE SaveAccept(c)
      <4>1. row'[q] = [row[q] EXCEPT !.quote = "ACCEPTED"]
        BY <1>1, <3>4 DEF SaveAccept
      <4> QED BY <1>1, <4>1 DEF QuoteSettled, Rows
    <3>5. CASE SaveQuoteRejection(c)
      <4>1. row'[q] = [row[q] EXCEPT !.quote = "REJECTED"] /\ row[q].quote = "SENT"
        BY <1>1, <1>2, <3>5 DEF SaveQuoteRejection, At, Knows
      <4> QED BY <1>1, <4>1 DEF QuoteSettled, Rows
    <3> QED BY <1>6, <3>1, <3>2, <3>3, <3>4, <3>5, WritersOfRows
  <2>4. /\ proc'[q] = "COMPLETED" => proc[q] = "COMPLETED"
        /\ proc'[q] = "NONE" => proc[q] = "NONE"
    <3>1. CASE proc' = proc
      BY <3>1
    <3>2. CASE SaveMark(c) \/ SaveSubmitted(c)
      BY <1>1, <3>2 DEF SaveMark, SaveSubmitted
    <3> QED BY <1>6, <3>1, <3>2, WritersOfRows
  <2> QED BY <2>1, <2>2, <2>3, <2>4, OwedKept
<1> QED BY <1>3, <1>4, <1>5, <1>6

OwedInv == ToldInv /\ Owed

LEMMA OwedNext ==
    ASSUME ~Overlap, Reliable
    PROVE  OwedInv /\ [Next]_vars => OwedInv'
<1> SUFFICES ASSUME OwedInv, [Next]_vars PROVE OwedInv'
  OBVIOUS
<1>1. /\ Typed /\ Turns /\ Told /\ Owed /\ ToldInv'
  BY ToldNext DEF OwedInv, ToldInv, TurnsInv
<1>2. CASE UNCHANGED <<row, mr, call, proc, units>>
  <2>1. ASSUME NEW q \in Requests PROVE Bought(q)'
    BY <1>1, <1>2 DEF Owed, Bought, Paid, HasUnit, QuoteSettled
  <2> QED BY <1>1, <2>1 DEF OwedInv, Owed
<1>3. ASSUME NEW c \in Calls, SharedStep(c) \/ AccessoryStep(c), NEW q \in Requests
      PROVE  Bought(q)'
  <2>1. Bought(q) /\ Story(q)
    BY <1>1 DEF Owed, Told
  <2>2. CASE call[c].at # "idle" /\ call[c].req = q
    BY <1>1, <1>3, <2>2, OwedShared, OwedAccessory
  <2>3. CASE Untouched(q) /\ ~(call[c].at # "idle" /\ call[c].req = q)
    <3>1. ASSUME NEW steps, "idle" \notin steps, Paid(q, steps)
          PROVE  Paid(q, steps)'
      <4>1. PICK d \in Calls : call[d].req = q /\ call[d].at \in steps
        BY <3>1 DEF Paid
      <4>2. d # c
        BY <2>3, <3>1, <4>1
      <4>3. call'[d] = call[d]
        BY <1>1, <1>3, <4>2, OthersStay
      <4> QED BY <4>1, <4>3 DEF Paid
    <3>2. /\ Paid(q, Receipted) => Paid(q, Receipted)'
          /\ Paid(q, {"completeReviewed"}) => Paid(q, {"completeReviewed"})'
      BY <3>1 DEF Receipted
    <3> QED BY <2>1, <2>3, <3>2 DEF Bought, Untouched, HasUnit, QuoteSettled
  <2>4. CASE row[q].status = "NONE" /\ UNCHANGED <<mr, proc, units>>
    BY <2>1, <2>4 DEF Bought, Story, HasUnit
  <2> QED BY <1>1, <1>3, <2>2, <2>3, <2>4, TouchesOwn
<1>4. UNCHANGED <<row, mr, call, proc, units>> \/ \E c \in Calls : SharedStep(c) \/ AccessoryStep(c)
  BY DEF Next, SnipeStep, Restock, HandOutUnit, storeVars, vars, snipe
<1> QED BY <1>1, <1>2, <1>3, <1>4 DEF OwedInv, Owed

LEMMA OwedInitially == Init => OwedInv
<1> SUFFICES ASSUME Init PROVE OwedInv
  OBVIOUS
<1>1. ASSUME NEW q \in Requests PROVE Bought(q)
  BY DEF Init, StoreInit, InventoryInit, Bought, HasUnit
<1> QED BY <1>1, ToldInitially DEF OwedInv, Owed

LEMMA OwedAlways ==
    ASSUME ~Overlap, Reliable
    PROVE  Spec => []OwedInv
BY OwedInitially, OwedNext, PTL DEF Spec

\* Nothing is ordered for a non-standard request before its price is settled,
\* provided no call fails between a checkout and the write that completes.
THEOREM PriceBeforeOrder ==
    ASSUME ~Overlap, FailAt \cap Receipted = {}
    PROVE  Spec => []NoOrderBeforeQuote
<1>1. OwedInv => NoOrderBeforeQuote
  BY DEF OwedInv, ToldInv, Told, Owed, Bought, Story, NoOrderBeforeQuote
<1> QED BY <1>1, OwedAlways, PTL DEF Reliable

\* No request that was not handed off takes two units out of stock.
THEOREM OneUnitPerRequest ==
    ASSUME ~Overlap, FailAt \cap Receipted = {}
    PROVE  Spec => []AtMostOneUnit
<1>1. OwedInv => AtMostOneUnit
  BY DEF OwedInv, Owed, Bought, AtMostOneUnit
<1> QED BY <1>1, OwedAlways, PTL DEF Reliable

\* A rejected request keeps no unit, but while a review is completing it.
THEOREM RejectedHasNoUnit ==
    ASSUME ~Overlap, FailAt \cap Receipted = {}
    PROVE  Spec => []RejectedKeepsNothing
<1>1. OwedInv => RejectedKeepsNothing
  <2> SUFFICES ASSUME OwedInv, NEW r \in Requests, row[r].status = "REJECTED", HasUnit(r)
               PROVE  Reviewing(r)
    BY DEF RejectedKeepsNothing
  <2>1. PICK c \in Calls : call[c].req = r /\ call[c].at \in Receipted
    BY DEF OwedInv, Owed, Bought, Paid
  <2>2. call[c].at \notin {"completeStandard", "completeLinked"}
    BY <2>1 DEF OwedInv, ToldInv, TurnsInv, Turns, Expects, Fulfilling
  <2> QED BY <2>1, <2>2 DEF Reviewing, Receipted
<1> QED BY <1>1, OwedAlways, PTL DEF Reliable

\* A reviewed purchase has completed its request, or is about to.
THEOREM ReviewedIsCompleted ==
    ASSUME ~Overlap, FailAt \cap Receipted = {}
    PROVE  Spec => []ReviewCompletesRequest
<1>1. OwedInv => ReviewCompletesRequest
  BY DEF OwedInv, Owed, Bought, Paid, Reviewing, ReviewCompletesRequest
<1> QED BY <1>1, OwedAlways, PTL DEF Reliable

(***************************************************************************)
(* Records.  A live record the portal made is in the custody of the call   *)
(* that set it up until it is linked or has a unit out; from then on the   *)
(* link stays, or is the one a review has overwritten.                     *)
(***************************************************************************)
Custody == {"placeAccessory", "linkNew", "placeReviewed", "checkoutReviewed", "discardAccessory"}

Known(a) ==
    \/ \E r \in Requests : mr[r].accessory = a
    \/ acc[a].out > 0
    \/ \E c \in Calls : call[c].accessory = a /\ call[c].at \in Custody
    \/ a \in replaced

Tracked == \A a \in Accessories \ Stocked : IsLive(a) => Known(a)

LEMMA LinksStay ==
    ASSUME ~Overlap, Typed, Turns, Told, NEW c \in Calls, SharedStep(c) \/ AccessoryStep(c),
           NEW q \in Requests, mr[q].accessory # None
    PROVE  mr'[q].accessory = mr[q].accessory \/ mr[q].accessory \in replaced'
<1>1. mr \in [Requests -> ModelRequests] /\ mr[q] \in ModelRequests
  BY DEF Typed, StoreTyped, WorkflowsTyped
<1>2. Story(q)
  BY DEF Told
<1>3. CASE mr'[q] = mr[q]
  BY <1>3
<1>4. ASSUME call[c].at # "idle", call[c].req = q
      PROVE  mr'[q].accessory = mr[q].accessory \/ mr[q].accessory \in replaced'
  <2>1. Knows(call[c].at, q) /\ Edits(c)
    BY <1>4, CallTold DEF Told
  <2>2. CASE HandleNonStandardApproval(c)
    BY <1>2, <1>4, <2>2 DEF HandleNonStandardApproval, HasModelRequest, Story
  <2>3. CASE HandleAdminNonStandardApproval(c)
    <3>1. mr'[q] = [mr[q] EXCEPT !.status = "APPROVED"]
      BY <1>1, <1>4, <2>3 DEF HandleAdminNonStandardApproval
    <3> QED BY <1>1, <3>1 DEF ModelRequests
  <2>4. CASE SaveEdit(c)
    <3>1. CASE mr' = mr
      BY <3>1
    <3>2. CASE mr' # mr
      <4>1. call[c].type = "STANDARD" /\ call[c].at = "saveEdit" /\ HasModelRequest(q)
        BY <1>4, <2>4, <3>2 DEF SaveEdit, At
      <4>2. row[q].type = "NON_STANDARD"
        BY <1>2, <4>1 DEF Story, HasModelRequest
      <4>3. ~IsShapeCommitted(q)
        BY <1>4, <2>1, <4>1, <4>2 DEF Edits
      <4> QED BY <4>1, <4>3 DEF IsShapeCommitted
    <3> QED BY <3>1, <3>2
  <2>5. CASE LinkChosen(c) \/ LinkNew(c)
    <3>1. mr[q].status = "APPROVED"
      BY <1>4, <2>1, <2>5 DEF LinkChosen, LinkNew, At, Knows, Choosing
    <3> QED BY <1>2, <3>1 DEF Story
  <2>6. CASE SaveStock(c)
    <3>1. mr'[q] = [mr[q] EXCEPT !.ready = call[c].flag]
      BY <1>1, <1>4, <2>6 DEF SaveStock
    <3> QED BY <1>1, <3>1 DEF ModelRequests
  <2>7. CASE LinkReviewed(c)
    BY <1>4, <2>7 DEF LinkReviewed
  <2>8. CASE mr' = mr
    BY <2>8
  <2>9. mr' = mr \/ HandleNonStandardApproval(c) \/ HandleAdminNonStandardApproval(c) \/ SaveEdit(c)
        \/ LinkChosen(c) \/ LinkNew(c) \/ SaveStock(c) \/ LinkReviewed(c)
    <3>1. CASE AccessoryStep(c)
      BY <3>1, WritersOfRows
    <3>2. CASE SharedStep(c)
      BY <3>2 DEF SharedStep, StoreStep, CreateRequest, EditRequest, ApproveRequest, ReviewRequest,
                  RejectRequest, HandleStandardApproval, SaveRejection, Fail
    <3> QED BY <3>1, <3>2
  <2> QED BY <2>2, <2>3, <2>4, <2>5, <2>6, <2>7, <2>8, <2>9
<1> QED BY <1>3, <1>4, TouchesOwn DEF Untouched

\* What a step of the flow does to a record.
LEMMA RecordsStay ==
    ASSUME Typed, NEW c \in Calls, AccessoryStep(c), NEW a \in Accessories
    PROVE  /\ acc[a].out > 0 => acc'[a].out > 0
           /\ acc'[a].state = "live" => acc[a].state = "live" \/ MakeAccessory(c, a)
           /\ replaced \subseteq replaced'
<1>1. /\ acc \in [Accessories -> [state : {"unborn", "live", "gone"}, qty : Nat, out : Nat]]
      /\ acc[a].out \in Nat
  BY DEF Typed, InventoryTyped
<1>2. /\ acc[a].out > 0 => acc'[a].out > 0
      /\ acc'[a].state = "live" => acc[a].state = "live" \/ MakeAccessory(c, a)
  <2>1. CASE acc' = acc
    BY <2>1
  <2>2. ASSUME NEW b \in Accessories, MakeAccessory(c, b)
        PROVE  /\ acc[a].out > 0 => acc'[a].out > 0
               /\ acc'[a].state = "live" => acc[a].state = "live" \/ MakeAccessory(c, a)
    <3>1. CASE b = a
      BY <2>2, <3>1 DEF MakeAccessory, Unborn
    <3>2. CASE b # a
      <4>1. acc'[a] = acc[a]
        BY <1>1, <2>2, <3>2 DEF MakeAccessory
      <4> QED BY <4>1
    <3> QED BY <3>1, <3>2
  <2>3. CASE CheckoutAccessory(c)
    BY <1>1, <2>3 DEF CheckoutAccessory
  <2>4. CASE PlaceAccessory(c)
    BY <1>1, <2>4 DEF PlaceAccessory
  <2>5. CASE DiscardAccessory(c)
    BY <1>1, <2>5 DEF DiscardAccessory
  <2>6. CASE PatchStock(c)
    BY <1>1, <2>6 DEF PatchStock
  <2> QED BY <2>1, <2>2, <2>3, <2>4, <2>5, <2>6, WritersOfStock
<1>3. replaced \subseteq replaced'
  BY WritersOfRows DEF LinkReviewed
<1> QED BY <1>2, <1>3

\* A call gives up the custody of a record only when the record is known
\* otherwise, or gone.
LEMMA CustodyPasses ==
    ASSUME Typed, Turns, Told, NEW c \in Calls, AccessoryStep(c), NEW a \in Accessories,
           call[c].at \in Custody, call[c].accessory = a, acc'[a].state = "live"
    PROVE  Known(a)'
<1>1. /\ acc \in [Accessories -> [state : {"unborn", "live", "gone"}, qty : Nat, out : Nat]]
      /\ acc[a].out \in Nat /\ mr \in [Requests -> ModelRequests]
  BY DEF Typed, InventoryTyped, StoreTyped, WorkflowsTyped
<1>2. call[c].req \in Requests /\ call[c].at # "idle"
  BY CallTold DEF Custody
<1>3. CASE CheckoutAccessory(c)
  <2>1. acc' = [acc EXCEPT ![a].out = @ + 1]
    BY <1>3 DEF CheckoutAccessory
  <2>2. acc'[a].out > 0
    BY <1>1, <2>1
  <2> QED BY <2>2 DEF Known
<1>4. CASE LinkNew(c)
  <2>1. PICK q \in Requests : q = call[c].req
    BY <1>2
  <2>2. mr'[q].accessory = a
    BY <1>1, <1>4, <2>1 DEF LinkNew, LinkAccessory, ModelRequests
  <2> QED BY <2>2 DEF Known
<1>5. CASE DiscardAccessory(c)
  <2>1. acc[a].out # 0 /\ acc' = acc
    <3>1. acc[a].out = 0 => acc' = [acc EXCEPT ![a] = [@ EXCEPT !.state = "gone"]]
      BY <1>5 DEF DiscardAccessory
    <3>2. acc[a].out # 0
      BY <1>1, <3>1
    <3> QED BY <1>5, <3>2 DEF DiscardAccessory
  <2> QED BY <1>1, <2>1 DEF Known
<1>6. CASE PlaceAccessory(c) \/ SetupFails(c)
  <2>1. PICK step \in Custody : Goto(c, step)
    BY <1>6 DEF PlaceAccessory, AfterPlace, SetupFails, Custody
  <2>2. call'[c].at = step /\ call'[c].accessory = a
    BY <2>1, Locals DEF Stands
  <2> QED BY <2>2 DEF Known
<1>7. CheckoutAccessory(c) \/ LinkNew(c) \/ DiscardAccessory(c) \/ PlaceAccessory(c) \/ SetupFails(c)
  BY DEF AccessoryStep, ApproveStandard, CreateQuote, SkipQuote, AnswerQuote,
         UseExistingAccessory, CreateNewAccessory, AddStock, MarkUserProcured,
         SubmitSelfProcuredDetails, ReviewSelfProcuredDetails, ResolveAccessory, MakeAccessory,
         AfterMake, ReadStock, SaveQuote, SaveSkip, SaveAccept, SaveQuoteRejection,
         RejectForQuote, ReadChosen, LinkChosen, PatchStock, RereadStock, SaveStock, SaveMark,
         SaveSubmitted, CompleteStandard, CompleteLinked, LinkReviewed, CloseProcurement,
         CompleteReviewed, Begin, Free, At, Custody
<1> QED BY <1>3, <1>4, <1>5, <1>6, <1>7

TrackedInv == ToldInv /\ Tracked

LEMMA TrackedNext ==
    ASSUME ~Overlap, FailAt \cap Custody = {}
    PROVE  TrackedInv /\ [Next]_vars => TrackedInv'
<1> SUFFICES ASSUME TrackedInv, [Next]_vars PROVE TrackedInv'
  OBVIOUS
<1>1. /\ Typed /\ Turns /\ Told /\ Tracked /\ ToldInv'
      /\ acc \in [Accessories -> [state : {"unborn", "live", "gone"}, qty : Nat, out : Nat]]
  BY ToldNext DEF TrackedInv, ToldInv, TurnsInv, Typed, InventoryTyped
<1>2. ASSUME NEW a \in Accessories \ Stocked, acc'[a].state = "live"
      PROVE  Known(a)'
  <2>1. CASE UNCHANGED <<mr, call, acc, replaced>>
    BY <1>1, <1>2, <2>1 DEF Tracked, Known, IsLive
  <2>2. ASSUME NEW b \in Accessories, Restock(b) \/ HandOutUnit(b)
        PROVE  Known(a)'
    <3>1. UNCHANGED <<mr, call, replaced>>
      BY <2>2 DEF Restock, HandOutUnit, storeVars
    <3>2. acc'[a].state = acc[a].state /\ (acc[a].out > 0 => acc'[a].out > 0)
      BY <1>1, <2>2 DEF Restock, HandOutUnit
    <3> QED BY <1>1, <1>2, <3>1, <3>2 DEF Tracked, Known, IsLive
  <2>3. ASSUME NEW c \in Calls, SharedStep(c) \/ AccessoryStep(c)
        PROVE  Known(a)'
    <3>1. /\ acc[a].out > 0 => acc'[a].out > 0
          /\ acc[a].state = "live" \/ (AccessoryStep(c) /\ MakeAccessory(c, a))
          /\ replaced \subseteq replaced'
      <4>1. CASE SharedStep(c)
        BY <1>2, <4>1 DEF SharedStep, snipe
      <4>2. CASE AccessoryStep(c)
        BY <1>1, <1>2, <4>2, RecordsStay
      <4> QED BY <2>3, <4>1, <4>2
    <3>2. CASE MakeAccessory(c, a)
      <4>1. /\ AfterMake[call[c].at] \in Custody
            /\ Continue(c, [call[c] EXCEPT !.at = AfterMake[call[c].at], !.accessory = a])
        BY <3>2 DEF MakeAccessory, AfterMake, Custody
      <4>2. Stands(c, AfterMake[call[c].at], call[c].req, a)
        BY <1>1, <4>1, Locals
      <4>3. call'[c].accessory = a /\ call'[c].at \in Custody
        BY <4>1, <4>2 DEF Stands
      <4> QED BY <4>3 DEF Known
    <3>3. CASE acc[a].state = "live"
      <4>1. Known(a)
        BY <1>1, <3>3 DEF Tracked, IsLive
      <4>2. CASE acc[a].out > 0 \/ a \in replaced
        BY <3>1, <4>2 DEF Known
      <4>3. CASE \E r \in Requests : mr[r].accessory = a
        <5>1. PICK r \in Requests : mr[r].accessory = a
          BY <4>3
        <5>2. a # None
          BY StoreAssumption
        <5>3. mr'[r].accessory = a \/ a \in replaced'
          BY <1>1, <2>3, <5>1, <5>2, LinksStay
        <5> QED BY <5>3 DEF Known
      <4>4. ASSUME NEW d \in Calls, call[d].accessory = a, call[d].at \in Custody
            PROVE  Known(a)'
        <5>1. CASE d # c
          <6>1. call'[d] = call[d]
            BY <1>1, <2>3, <5>1, OthersStay
          <6> QED BY <4>4, <6>1 DEF Known
        <5>2. CASE d = c /\ AccessoryStep(c)
          BY <1>1, <1>2, <4>4, <5>2, CustodyPasses
        <5>3. CASE d = c /\ SharedStep(c)
          <6>1. call[c].at \in StoreSteps \/ Fail(c)
            BY <5>3
            DEF SharedStep, StoreStep, CreateRequest, EditRequest, ApproveRequest, ReviewRequest,
                RejectRequest, HandleStandardApproval, HandleNonStandardApproval,
                HandleAdminNonStandardApproval, SaveEdit, SaveRejection, Begin, Free, At, StoreSteps
          <6>2. call[c].at \notin StoreSteps
            BY <4>4, <5>3 DEF Custody, StoreSteps
          <6>3. ~Fail(c)
            BY <4>4, <5>3 DEF Fail
          <6> QED BY <6>1, <6>2, <6>3
        <5> QED BY <2>3, <5>1, <5>2, <5>3
      <4> QED BY <4>1, <4>2, <4>3, <4>4 DEF Known
    <3> QED BY <3>1, <3>2, <3>3
  <2>4. \/ UNCHANGED <<mr, call, acc, replaced>>
        \/ \E c \in Calls : SharedStep(c) \/ AccessoryStep(c)
        \/ \E b \in Accessories : Restock(b) \/ HandOutUnit(b)
    BY DEF Next, SnipeStep, vars, snipe
  <2> QED BY <2>1, <2>2, <2>3, <2>4
<1> QED BY <1>1, <1>2 DEF TrackedInv, Tracked, IsLive

\* However fulfilments of other requests interleave with it, a record the portal
\* made never drops out of sight, provided no call dies while it sets one up.
THEOREM RecordsStayInSight ==
    ASSUME ~Overlap, FailAt \cap Custody = {}
    PROVE  Spec => []NoOrphanAccessories
<1>1. TrackedInv => NoOrphanAccessories
  BY DEF TrackedInv, Tracked, Known, NoOrphanAccessories
<1>2. Init => Tracked
  <2> SUFFICES ASSUME Init, NEW a \in Accessories \ Stocked PROVE ~IsLive(a)
    BY DEF Tracked
  <2> QED BY DEF Init, InventoryInit, IsLive, Unborn
<1> QED BY <1>1, <1>2, ToldInitially, TrackedNext, PTL DEF Spec, TrackedInv

-----------------------------------------------------------------------------
(* The web client: what it shows of an accessory request is true of the      *)
(* service, while no call is about the request.                              *)

(***************************************************************************)
(* Course.  How far the columns of a request and its two other rows may be *)
(* from each other, and what the calls that write a quote or an edit have  *)
(* seen.                                                                   *)
(***************************************************************************)
Course(r) ==
    /\ row[r].status # "NONE" => row[r].kind = "ACCESSORY"
    /\ row[r].status \in {"NONE", "PENDING"} =>
          ~row[r].approved /\ ~row[r].signedOff /\ mr[r].status = "NONE"
    /\ mr[r].status \in {"NONE", "PENDING"} =>
          /\ row[r].quote = "NONE" /\ ~row[r].quoteSkipped /\ proc[r] = "NONE"
          /\ row[r].status # "COMPLETED" => ~row[r].signedOff
    /\ mr[r].status \in {"APPROVED", "COMPLETED"} => row[r].signedOff
    /\ row[r].quoteSkipped => row[r].quote = "NONE"

Heeds(step, kind, r) ==
    /\ step = "saveEdit" => kind = "ACCESSORY"
    /\ step \in {"saveQuote", "saveSkip"} =>
          mr[r].status = "APPROVED" /\ row[r].quote = "NONE" /\ ~row[r].quoteSkipped
    /\ step = "saveAccept" => row[r].quote = "SENT"

Placed ==
    /\ \A r \in Requests : Course(r)
    /\ \A c \in Calls : call[c].at # "idle" => Heeds(call[c].at, call[c].kind, call[c].req)

OnlyAccessories == Kinds \subseteq {"ACCESSORY"}

LEMMA CourseKept ==
    ASSUME NEW q \in Requests, Course(q), row'[q] = row[q], mr'[q] = mr[q], proc'[q] = proc[q]
    PROVE  Course(q)'
BY DEF Course

LEMMA CourseShared ==
    ASSUME OnlyAccessories, Typed, Turns, Told, Placed, NEW c \in Calls, SharedStep(c),
           NEW q \in Requests
    PROVE  Course(q)'
<1>1. /\ row \in [Requests -> Rows] /\ mr \in [Requests -> ModelRequests]
      /\ row[q] \in Rows /\ mr[q] \in ModelRequests
      /\ UNCHANGED proc
  BY DEF Typed, StoreTyped, RowsTyped, WorkflowsTyped, SharedStep
<1>2. Course(q) /\ Story(q)
  BY DEF Placed, Told
<1>3. CASE row'[q] = row[q] /\ mr'[q] = mr[q]
  BY <1>1, <1>2, <1>3, CourseKept
<1>4. ASSUME NEW r \in Requests, NEW kind \in Kinds, NEW type \in Types, NEW auto \in BOOLEAN,
             CreateRequest(c, r, kind, type, auto)
      PROVE  Course(q)'
  <2>1. /\ row' = [row EXCEPT ![r] = [Unfiled EXCEPT !.kind = kind, !.type = type,
                                                     !.status = "PENDING"]]
        /\ mr' = mr /\ row[r].status = "NONE"
    BY <1>4 DEF CreateRequest
  <2>2. CASE r = q
    <3>1. /\ row'[q].status = "PENDING" /\ row'[q].quote = "NONE" /\ ~row'[q].quoteSkipped
          /\ ~row'[q].approved /\ ~row'[q].signedOff /\ row'[q].kind = "ACCESSORY"
      BY <1>1, <2>1, <2>2 DEF Unfiled, OnlyAccessories
    <3>2. mr[q].status = "NONE" /\ proc[q] = "NONE"
      BY <1>2, <2>1, <2>2 DEF Story, HasModelRequest
    <3> QED BY <1>1, <2>1, <3>1, <3>2 DEF Course
  <2>3. CASE r # q
    BY <1>1, <1>3, <2>1, <2>3
  <2> QED BY <2>2, <2>3
<1>5. ASSUME \/ HandleStandardApproval(c) \/ HandleNonStandardApproval(c)
             \/ HandleAdminNonStandardApproval(c) \/ SaveEdit(c) \/ SaveRejection(c),
             call[c].req = q
      PROVE  Course(q)'
  <2>1. call[c].at # "idle"
    BY <1>5 DEF HandleStandardApproval, HandleNonStandardApproval,
                HandleAdminNonStandardApproval, SaveEdit, SaveRejection, At
  <2>2. /\ Knows(call[c].at, q) /\ Expects(call[c].at, row[q].status, proc[q])
        /\ Heeds(call[c].at, call[c].kind, q) /\ row[q].status # "NONE"
    BY <1>5, <2>1, CallTold DEF Placed, Knows
  <2>3. CASE HandleStandardApproval(c)
    <3>1. /\ row'[q] = [row[q] EXCEPT !.status = "APPROVED", !.approved = TRUE] /\ mr' = mr
          /\ row[q].status = "PENDING"
      BY <1>1, <1>5, <2>2, <2>3 DEF HandleStandardApproval, RecordApproval, At, Expects
    <3> QED BY <1>1, <1>2, <3>1 DEF Course, Rows
  <2>4. CASE HandleNonStandardApproval(c)
    <3>1. /\ row'[q] = [row[q] EXCEPT !.status = "APPROVED", !.approved = TRUE]
          /\ mr'[q] = [NoModelRequest EXCEPT !.id = mr[q].id + 1, !.status = "PENDING"]
          /\ row[q].status = "PENDING"
      BY <1>1, <1>5, <2>2, <2>4 DEF HandleNonStandardApproval, RecordApproval, At, Expects
    <3>2. mr'[q].status = "PENDING"
      BY <3>1 DEF NoModelRequest
    <3> QED BY <1>1, <1>2, <3>1, <3>2 DEF Course, Rows
  <2>5. CASE HandleAdminNonStandardApproval(c)
    <3>1. /\ row'[q] = [row[q] EXCEPT !.signedOff = TRUE]
          /\ mr'[q] = [mr[q] EXCEPT !.status = "APPROVED"]
          /\ mr[q].status = "PENDING"
      BY <1>1, <1>5, <2>2, <2>5 DEF HandleAdminNonStandardApproval, At, Knows
    <3> QED BY <1>1, <1>2, <3>1 DEF Course, Rows, ModelRequests
  <2>6. CASE SaveEdit(c)
    <3>1. /\ row'[q] = [row[q] EXCEPT !.kind = call[c].kind, !.type = call[c].type]
          /\ mr'[q] = IF call[c].type = "STANDARD" /\ call[c].mr # 0
                      THEN [NoModelRequest EXCEPT !.id = mr[q].id] ELSE mr[q]
          /\ call[c].at = "saveEdit"
      BY <1>1, <1>5, <2>6 DEF SaveEdit, At
    <3>2. Edits(c) /\ call[c].kind = "ACCESSORY"
      BY <2>2, <3>1 DEF Told, Heeds
    <3>3. /\ row'[q].kind = "ACCESSORY" /\ row'[q].status = row[q].status
          /\ row'[q].quote = row[q].quote /\ row'[q].quoteSkipped = row[q].quoteSkipped
          /\ row'[q].approved = row[q].approved /\ row'[q].signedOff = row[q].signedOff
      BY <1>1, <3>1, <3>2 DEF Rows
    <3>4. CASE mr'[q] = mr[q]
      BY <1>1, <1>2, <3>3, <3>4 DEF Course
    <3>5. CASE call[c].type = "STANDARD" /\ call[c].mr # 0
      <4>1. mr'[q].status = "NONE"
        BY <3>1, <3>5 DEF NoModelRequest
      <4>2. HasModelRequest(q) /\ row[q].type # call[c].type
        BY <1>2, <1>5, <3>1, <3>2, <3>5 DEF Edits, ModelRequestId, Story, HasModelRequest
      <4>3. mr[q].status = "PENDING"
        BY <1>5, <3>1, <3>2, <4>2 DEF Edits, IsShapeCommitted
      <4> QED BY <1>1, <1>2, <3>3, <4>1, <4>3 DEF Course
    <3> QED BY <3>1, <3>4, <3>5
  <2>7. CASE SaveRejection(c)
    <3>1. /\ row'[q] = [row[q] EXCEPT !.status = "REJECTED"] /\ mr' = mr
          /\ row[q].status # "COMPLETED"
      BY <1>1, <1>5, <2>2, <2>7 DEF SaveRejection, SetStatus, At, Expects, Terminal
    <3> QED BY <1>1, <1>2, <2>2, <3>1 DEF Course, Rows
  <2> QED BY <1>5, <2>3, <2>4, <2>5, <2>6, <2>7
<1>6. CASE call[c].req # q /\ ~(\E r \in Requests, kind \in Kinds, type \in Types :
                                  \E auto \in BOOLEAN : CreateRequest(c, r, kind, type, auto))
  <2>1. Untouched(q) \/ (Free(c, q) /\ row[q].status = "NONE" /\ UNCHANGED <<mr, proc, units>>)
    BY <1>6, TouchesOwn
  <2>2. row'[q] = row[q]
    BY <1>1, <1>6
    DEF SharedStep, StoreStep, HandleStandardApproval, HandleNonStandardApproval,
        HandleAdminNonStandardApproval, SaveEdit, SaveRejection, Fail, ApproveRequest,
        ReviewRequest, RejectRequest, EditRequest, RecordApproval, SetStatus
  <2> QED BY <1>3, <2>1, <2>2 DEF Untouched
<1>7. ASSUME \/ Fail(c)
             \/ \E r \in Requests : \/ ApproveRequest(c, r) \/ ReviewRequest(c, r)
                                    \/ RejectRequest(c, r)
             \/ \E r \in Requests, kind \in Kinds, type \in Types, flag \in BOOLEAN :
                   EditRequest(c, r, kind, type, flag)
      PROVE  Course(q)'
  BY <1>3, <1>7 DEF Fail, ApproveRequest, ReviewRequest, RejectRequest, EditRequest
<1> QED BY <1>4, <1>5, <1>6, <1>7 DEF SharedStep, StoreStep

LEMMA CourseAccessory ==
    ASSUME Typed, Turns, Told, Placed, NEW c \in Calls, AccessoryStep(c), NEW q \in Requests
    PROVE  Course(q)'
<1>1. /\ row \in [Requests -> Rows] /\ mr \in [Requests -> ModelRequests]
      /\ proc \in [Requests -> Procurements] /\ row[q] \in Rows /\ mr[q] \in ModelRequests
  BY DEF Typed, StoreTyped, RowsTyped, WorkflowsTyped, ProcTyped
<1>2. Course(q) /\ Story(q)
  BY DEF Placed, Told
<1>3. CASE row'[q] = row[q] /\ mr'[q] = mr[q] /\ proc'[q] = proc[q]
  BY <1>2, <1>3, CourseKept
<1>4. CASE ~(call[c].at # "idle" /\ call[c].req = q)
  <2>1. row'[q] = row[q]
    <3>1. CASE CompleteStandard(c) \/ CompleteLinked(c) \/ CompleteReviewed(c)
      BY <1>1, <1>4, <3>1 DEF CompleteStandard, CompleteLinked, CompleteReviewed, SetStatus, At
    <3>2. CASE SaveQuote(c) \/ SaveSkip(c) \/ SaveAccept(c) \/ SaveQuoteRejection(c)
      BY <1>1, <1>4, <3>2 DEF SaveQuote, SaveSkip, SaveAccept, SaveQuoteRejection, At
    <3> QED BY <3>1, <3>2, WritersOfRows
  <2>2. mr'[q] = mr[q] /\ proc'[q] = proc[q]
    <3>1. Untouched(q) \/ UNCHANGED <<mr, proc>>
      BY <1>4, TouchesOwn
    <3> QED BY <3>1 DEF Untouched
  <2> QED BY <1>3, <2>1, <2>2
<1>5. CASE call[c].at # "idle" /\ call[c].req = q
  <2>1. /\ Knows(call[c].at, q) /\ Expects(call[c].at, row[q].status, proc[q])
        /\ Heeds(call[c].at, call[c].kind, q) /\ row[q].status # "NONE"
    BY <1>5, CallTold DEF Placed, Knows
  <2>2. CASE UNCHANGED <<row, mr, proc>>
    BY <1>3, <2>2
  <2>3. CASE CompleteStandard(c)
    <3>1. /\ row'[q] = [row[q] EXCEPT !.status = "COMPLETED", !.signedOff = TRUE]
          /\ UNCHANGED <<mr, proc>>
      BY <1>1, <1>5, <2>3 DEF CompleteStandard
    <3> QED BY <1>1, <1>2, <2>1, <3>1 DEF Course, Rows
  <2>4. CASE CompleteLinked(c)
    <3>1. /\ row'[q] = [row[q] EXCEPT !.status = "COMPLETED"]
          /\ UNCHANGED <<mr, proc>>
      BY <1>1, <1>5, <2>4 DEF CompleteLinked, SetStatus
    <3> QED BY <1>1, <1>2, <2>1, <3>1 DEF Course, Rows
  <2>5. CASE CompleteReviewed(c)
    <3>1. /\ row'[q] = [row[q] EXCEPT !.status = "COMPLETED", !.signedOff = TRUE]
          /\ UNCHANGED <<mr, proc>>
      BY <1>1, <1>5, <2>5 DEF CompleteReviewed
    <3> QED BY <1>1, <1>2, <2>1, <3>1 DEF Course, Rows
  <2>6. CASE SaveQuote(c)
    <3>1. /\ row'[q] = [row[q] EXCEPT !.quote = "SENT"] /\ UNCHANGED <<mr, proc>>
          /\ mr[q].status = "APPROVED" /\ ~row[q].quoteSkipped
      BY <1>1, <1>5, <2>1, <2>6 DEF SaveQuote, At, Heeds
    <3> QED BY <1>1, <1>2, <3>1 DEF Course, Rows
  <2>7. CASE SaveSkip(c)
    <3>1. /\ row'[q] = [row[q] EXCEPT !.quoteSkipped = TRUE] /\ UNCHANGED <<mr, proc>>
          /\ mr[q].status = "APPROVED" /\ row[q].quote = "NONE"
      BY <1>1, <1>5, <2>1, <2>7 DEF SaveSkip, At, Heeds
    <3> QED BY <1>1, <1>2, <3>1 DEF Course, Rows
  <2>8. CASE SaveAccept(c)
    <3>1. /\ row'[q] = [row[q] EXCEPT !.quote = "ACCEPTED"] /\ UNCHANGED <<mr, proc>>
          /\ row[q].quote = "SENT"
      BY <1>1, <1>5, <2>1, <2>8 DEF SaveAccept, At, Heeds
    <3> QED BY <1>1, <1>2, <3>1 DEF Course, Rows
  <2>9. CASE SaveQuoteRejection(c)
    <3>1. /\ row'[q] = [row[q] EXCEPT !.quote = "REJECTED"] /\ UNCHANGED <<mr, proc>>
          /\ row[q].quote = "SENT"
      BY <1>1, <1>5, <2>1, <2>9 DEF SaveQuoteRejection, At, Knows
    <3> QED BY <1>1, <1>2, <3>1 DEF Course, Rows
  <2>10. CASE LinkChosen(c) \/ LinkNew(c) \/ LinkReviewed(c)
    <3>1. /\ UNCHANGED <<row, proc>> /\ mr'[q].status = "COMPLETED"
          /\ call[c].at \in {"linkChosen", "linkNew", "linkReviewed"}
      BY <1>1, <1>5, <2>10 DEF LinkChosen, LinkNew, LinkAccessory, LinkReviewed, At, ModelRequests
    <3>2. mr[q].status = "APPROVED" \/ proc[q] # "NONE"
      BY <2>1, <3>1 DEF Knows, Choosing, Purchasing
    <3>3. row[q].signedOff
      BY <1>1, <1>2, <3>2 DEF Course, ModelRequests
    <3>4. row[q].status \notin {"NONE", "PENDING"}
      BY <1>2, <3>3 DEF Course
    <3> QED BY <1>2, <3>1, <3>3, <3>4 DEF Course
  <2>11. CASE SaveStock(c)
    <3>1. /\ UNCHANGED <<row, proc>> /\ mr'[q].status = mr[q].status
      BY <1>1, <1>5, <2>11 DEF SaveStock, ModelRequests
    <3> QED BY <1>2, <3>1 DEF Course
  <2>12. CASE SaveMark(c) \/ SaveSubmitted(c) \/ CloseProcurement(c)
    <3>1. /\ UNCHANGED <<row, mr>>
          /\ call[c].at \in {"saveMark", "saveSubmitted", "closeProcurement"}
      BY <2>12 DEF SaveMark, SaveSubmitted, CloseProcurement, At
    <3>2. mr[q].status = "APPROVED" \/ proc[q] # "NONE"
      BY <2>1, <3>1 DEF Knows, Choosing, Purchasing
    <3>3. mr[q].status \notin {"NONE", "PENDING"}
      BY <1>2, <3>2 DEF Course
    <3> QED BY <1>2, <3>1, <3>3 DEF Course
  <2> QED BY <2>2, <2>3, <2>4, <2>5, <2>6, <2>7, <2>8, <2>9, <2>10, <2>11, <2>12, WritersOfRows
<1> QED BY <1>4, <1>5

\* Only what begins a quote, a skip or an answer brings a call to their writes.
Quoting == {"saveQuote", "saveSkip", "saveAccept"}

LEMMA QuotingBegins ==
    ASSUME Typed, NEW c \in Calls, AccessoryStep(c)
    PROVE  \/ call'[c].at \notin Quoting
           \/ \E r \in Requests :
                 \/ CreateQuote(c, r) \/ SkipQuote(c, r)
                 \/ \E accepted \in BOOLEAN : AnswerQuote(c, r, accepted)
<1>1. ASSUME NEW step, step \notin Quoting,
             \/ Goto(c, step)
             \/ \E a : Continue(c, [call[c] EXCEPT !.at = step, !.accessory = a])
             \/ \E flag : Continue(c, [call[c] EXCEPT !.at = step, !.flag = flag])
             \/ \E r : Begin(c, r, Loaded(step, r))
             \/ \E r, a : Begin(c, r, [Loaded(step, r) EXCEPT !.accessory = a])
      PROVE  call'[c].at \notin Quoting
  BY <1>1, Locals DEF Stands
<1>2. ASSUME Return(c) PROVE call'[c].at \notin Quoting
  <2>1. call'[c] = Idle
    BY <1>2, Locals
  <2> QED BY <2>1 DEF Idle, Quoting
<1>3. ASSUME NEW r \in Requests,
             \/ ApproveStandard(c, r) \/ CreateNewAccessory(c, r) \/ MarkUserProcured(c, r)
             \/ SubmitSelfProcuredDetails(c, r)
             \/ \E recordInSnipe \in BOOLEAN : ReviewSelfProcuredDetails(c, r, recordInSnipe)
      PROVE  call'[c].at \notin Quoting
  <2>1. PICK step \in {"resolve", "makeAccessory", "saveMark", "saveSubmitted", "makeReviewed",
                       "closeProcurement"} : Begin(c, r, Loaded(step, r))
    BY <1>3 DEF ApproveStandard, CreateNewAccessory, MarkUserProcured, SubmitSelfProcuredDetails,
                ReviewSelfProcuredDetails
  <2> QED BY <1>1, <2>1 DEF Quoting
<1>4. ASSUME NEW r \in Requests, AddStock(c, r) \/ \E a \in Accessories : UseExistingAccessory(c, r, a)
      PROVE  call'[c].at \notin Quoting
  <2>1. PICK step \in {"readStock", "readChosen"} :
           \E a : Begin(c, r, [Loaded(step, r) EXCEPT !.accessory = a])
    BY <1>4 DEF AddStock, UseExistingAccessory
  <2> QED BY <1>1, <2>1 DEF Quoting
<1>5. ASSUME NEW a \in Accessories, ResolveAccessory(c, a) \/ MakeAccessory(c, a)
      PROVE  call'[c].at \notin Quoting
  <2>1. CASE ResolveAccessory(c, a)
    <3>1. Continue(c, [call[c] EXCEPT !.at = "checkoutStandard", !.accessory = a])
      BY <2>1 DEF ResolveAccessory
    <3>2. "checkoutStandard" \notin Quoting
      BY DEF Quoting
    <3> QED BY <1>1, <3>1, <3>2
  <2>2. CASE MakeAccessory(c, a)
    <3>1. call[c].at \in {"makeAccessory", "makeReviewed"}
          /\ Continue(c, [call[c] EXCEPT !.at = AfterMake[call[c].at], !.accessory = a])
      BY <2>2 DEF MakeAccessory, AfterMake
    <3>2. AfterMake[call[c].at] \notin Quoting
      BY <3>1 DEF AfterMake, Quoting
    <3> QED BY <1>1, <3>1, <3>2
  <2> QED BY <1>5, <2>1, <2>2
<1>6. CASE SaveStock(c)
  <2>1. CASE Return(c)
    BY <1>2, <2>1
  <2>2. CASE \E a : Continue(c, [call[c] EXCEPT !.at = "checkoutLinked", !.accessory = a])
    <3>1. "checkoutLinked" \notin Quoting
      BY DEF Quoting
    <3> QED BY <1>1, <2>2, <3>1
  <2> QED BY <1>6, <2>1, <2>2 DEF SaveStock
<1>7. CASE ReadChosen(c) \/ RereadStock(c)
  <2>1. PICK step \in {"linkChosen", "saveStock"} :
           \E flag : Continue(c, [call[c] EXCEPT !.at = step, !.flag = flag])
    BY <1>7 DEF ReadChosen, RereadStock
  <2> QED BY <1>1, <2>1 DEF Quoting
<1>8. CASE \/ CheckoutAccessory(c) \/ SaveQuoteRejection(c) \/ RejectForQuote(c) \/ LinkChosen(c)
           \/ PlaceAccessory(c) \/ SetupFails(c) \/ PatchStock(c) \/ LinkReviewed(c)
           \/ CloseProcurement(c) \/ \E more \in 0..MaxQty : ReadStock(c, more)
  <2>1. CASE CheckoutAccessory(c)
    <3>1. call[c].at \in {"checkoutStandard", "checkoutLinked", "checkoutReviewed"}
          /\ Goto(c, AfterCheckout[call[c].at])
      BY <2>1 DEF CheckoutAccessory, AfterCheckout
    <3>2. AfterCheckout[call[c].at] \notin Quoting
      BY <3>1 DEF AfterCheckout, Quoting
    <3> QED BY <1>1, <3>1, <3>2
  <2>2. CASE PlaceAccessory(c)
    <3>1. call[c].at \in {"placeAccessory", "placeReviewed"} /\ Goto(c, AfterPlace[call[c].at])
      BY <2>2 DEF PlaceAccessory, AfterPlace
    <3>2. AfterPlace[call[c].at] \notin Quoting
      BY <3>1 DEF AfterPlace, Quoting
    <3> QED BY <1>1, <3>1, <3>2
  <2>3. CASE \E more \in 0..MaxQty : ReadStock(c, more)
    <3>1. Goto(c, "patchStock") \/ Goto(c, "rereadStock")
      BY <2>3 DEF ReadStock
    <3>2. "patchStock" \notin Quoting /\ "rereadStock" \notin Quoting
      BY DEF Quoting
    <3> QED BY <1>1, <3>1, <3>2
  <2>4. CASE \/ SaveQuoteRejection(c) \/ RejectForQuote(c) \/ LinkChosen(c) \/ SetupFails(c)
             \/ PatchStock(c) \/ LinkReviewed(c) \/ CloseProcurement(c)
    <3>1. \/ Return(c) \/ Goto(c, "rejectForQuote") \/ Goto(c, "saveRejection")
          \/ Goto(c, "checkoutLinked") \/ Goto(c, "discardAccessory") \/ Goto(c, "rereadStock")
          \/ Goto(c, "closeProcurement") \/ Goto(c, "completeReviewed")
      BY <2>4 DEF SaveQuoteRejection, RejectForQuote, LinkChosen, SetupFails, PatchStock,
                  LinkReviewed, CloseProcurement
    <3>2. \A step \in {"rejectForQuote", "saveRejection", "checkoutLinked", "discardAccessory",
                       "rereadStock", "closeProcurement", "completeReviewed"} : step \notin Quoting
      BY DEF Quoting
    <3> QED BY <1>1, <1>2, <3>1, <3>2
  <2> QED BY <1>8, <2>1, <2>2, <2>3, <2>4
<1>9. CASE \/ CompleteStandard(c) \/ SaveQuote(c) \/ SaveSkip(c) \/ SaveAccept(c)
           \/ CompleteLinked(c) \/ LinkNew(c) \/ DiscardAccessory(c) \/ SaveMark(c)
           \/ SaveSubmitted(c) \/ CompleteReviewed(c)
  BY <1>2, <1>9
  DEF CompleteStandard, SaveQuote, SaveSkip, SaveAccept, CompleteLinked, LinkNew,
      DiscardAccessory, SaveMark, SaveSubmitted, CompleteReviewed
<1> QED BY <1>3, <1>4, <1>5, <1>6, <1>7, <1>8, <1>9 DEF AccessoryStep

LEMMA MoverHeeds ==
    ASSUME OnlyAccessories, Typed, Turns, Told, Placed, NEW c \in Calls,
           SharedStep(c) \/ AccessoryStep(c), call'[c].at # "idle"
    PROVE  Heeds(call[c].at, call[c].kind, call[c].req)'
<1>1. ASSUME call'[c].at \notin Quoting \cup {"saveEdit"}
      PROVE  Heeds(call[c].at, call[c].kind, call[c].req)'
  BY <1>1 DEF Heeds, Quoting
<1>2. ASSUME NEW r \in Requests, NEW step \in Quoting, Begin(c, r, Loaded(step, r)),
             UNCHANGED <<row, mr>>,
             step \in {"saveQuote", "saveSkip"} => AwaitsQuote(r),
             step = "saveAccept" => AwaitsAnswer(r)
      PROVE  Heeds(call[c].at, call[c].kind, call[c].req)'
  <2>0. Stands(c, step, r, None)
    BY <1>2, Locals
  <2>1. call'[c].at = step /\ call'[c].req = r
    BY <2>0 DEF Stands
  <2> QED BY <1>2, <2>1 DEF Heeds, Quoting, AwaitsQuote, AwaitsAnswer
<1>3. CASE AccessoryStep(c)
  <2>1. call'[c].at # "saveEdit"
    BY <1>3, AccessoryKnows DEF Stands, Idle
  <2>2. ASSUME NEW r \in Requests,
               \/ CreateQuote(c, r) \/ SkipQuote(c, r)
               \/ \E accepted \in BOOLEAN : AnswerQuote(c, r, accepted),
               call'[c].at \in Quoting
        PROVE  Heeds(call[c].at, call[c].kind, call[c].req)'
    <3>1. CASE CreateQuote(c, r) \/ SkipQuote(c, r)
      BY <1>2, <3>1 DEF CreateQuote, SkipQuote, Quoting
    <3>2. CASE \E accepted \in BOOLEAN : AnswerQuote(c, r, accepted)
      <4>1. PICK step \in {"saveAccept", "saveQuoteRejection"} : Begin(c, r, Loaded(step, r))
        BY <3>2 DEF AnswerQuote
      <4>2. call'[c].at = step
        BY <4>1, Locals DEF Stands
      <4> QED BY <1>2, <2>2, <3>2, <4>1, <4>2 DEF AnswerQuote, Quoting
    <3> QED BY <2>2, <3>1, <3>2
  <2> QED BY <1>1, <1>3, <2>1, <2>2, QuotingBegins
<1>4. CASE SharedStep(c)
  <2>1. StoreStep(c)
    BY <1>4 DEF SharedStep
  <2>2. ASSUME NEW r \in Requests, NEW kind \in Kinds, NEW type \in Types, NEW flag \in BOOLEAN,
               EditRequest(c, r, kind, type, flag)
        PROVE  Heeds(call[c].at, call[c].kind, call[c].req)'
    <3>1. call' = [call EXCEPT ![c] = [Loaded("saveEdit", r) EXCEPT !.kind = kind, !.type = type,
                                                                    !.flag = flag]]
      BY <2>2 DEF EditRequest, Begin
    <3>2. call'[c].at = "saveEdit" /\ call'[c].kind = kind
      BY <3>1 DEF Typed, StoreTyped, CallsTyped, Loaded, Idle
    <3> QED BY <3>2 DEF Heeds, OnlyAccessories
  <2>3. ASSUME NEW r \in Requests, NEW kind \in Kinds, NEW type \in Types, NEW auto \in BOOLEAN,
               CreateRequest(c, r, kind, type, auto)
        PROVE  call'[c].at \notin Quoting \cup {"saveEdit"}
    <3>1. CASE auto
      <4>1. PICK step \in {"approveStandard", "approveNonStandard"} : Begin(c, r, Loaded(step, r))
        BY <2>3, <3>1 DEF CreateRequest, ApprovalStep
      <4> QED BY <4>1, Locals DEF Stands, Quoting
    <3>2. CASE ~auto
      BY <2>3, <3>2 DEF CreateRequest, Free, Quoting
    <3> QED BY <3>1, <3>2
  <2>4. ASSUME NEW r \in Requests, ApproveRequest(c, r) \/ ReviewRequest(c, r) \/ RejectRequest(c, r)
        PROVE  call'[c].at \notin Quoting \cup {"saveEdit"}
    <3>1. PICK step \in {"approveStandard", "approveNonStandard", "approveReview", "saveRejection"} :
             Begin(c, r, Loaded(step, r))
      BY <2>4 DEF ApproveRequest, ReviewRequest, RejectRequest, ApprovalStep
    <3> QED BY <3>1, Locals DEF Stands, Quoting
  <2>5. ASSUME Return(c) PROVE FALSE
    <3>1. call'[c] = Idle
      BY <2>5, Locals
    <3> QED BY <3>1 DEF Idle
  <2> QED BY <1>1, <2>1, <2>2, <2>3, <2>4, <2>5
          DEF StoreStep, HandleStandardApproval, HandleNonStandardApproval,
              HandleAdminNonStandardApproval, SaveEdit, SaveRejection, Fail
<1> QED BY <1>3, <1>4

PlacedInv == OwedInv /\ Placed

LEMMA PlacedNext ==
    ASSUME ~Overlap, Reliable, OnlyAccessories
    PROVE  PlacedInv /\ [Next]_vars => PlacedInv'
<1> SUFFICES ASSUME PlacedInv, [Next]_vars PROVE PlacedInv'
  OBVIOUS
<1>1. Typed /\ Turns /\ Told /\ Placed /\ OwedInv'
  BY OwedNext DEF PlacedInv, OwedInv, ToldInv, TurnsInv
<1>2. CASE UNCHANGED <<row, mr, call, proc, units>>
  <2>1. Placed'
    BY <1>1, <1>2 DEF Placed, Course, Heeds
  <2> QED BY <1>1, <2>1 DEF PlacedInv
<1>3. ASSUME NEW c \in Calls, SharedStep(c) \/ AccessoryStep(c)
      PROVE  Placed'
  <2>1. ASSUME NEW q \in Requests PROVE Course(q)'
    BY <1>1, <1>3, CourseShared, CourseAccessory
  <2>2. ASSUME NEW d \in Calls, d # c, call'[d].at # "idle"
        PROVE  Heeds(call[d].at, call[d].kind, call[d].req)'
    <3>1. call'[d] = call[d]
      BY <1>1, <1>3, <2>2, OthersStay
    <3>2. PICK step, kind, q : step = call[d].at /\ kind = call[d].kind /\ q = call[d].req
      OBVIOUS
    <3>3. Untouched(q) /\ Heeds(step, kind, q)
      BY <1>1, <1>3, <2>2, <3>1, <3>2, OthersUntouched DEF Placed
    <3>4. Heeds(step, kind, q)'
      BY <3>3 DEF Heeds, Untouched
    <3> QED BY <3>1, <3>2, <3>4
  <2>3. call'[c].at # "idle" => Heeds(call[c].at, call[c].kind, call[c].req)'
    BY <1>1, <1>3, MoverHeeds
  <2> QED BY <2>1, <2>2, <2>3 DEF Placed
<1>4. UNCHANGED <<row, mr, call, proc, units>> \/ \E c \in Calls : SharedStep(c) \/ AccessoryStep(c)
  BY DEF Next, SnipeStep, Restock, HandOutUnit, storeVars, vars, snipe
<1> QED BY <1>1, <1>2, <1>3, <1>4 DEF PlacedInv

LEMMA PlacedInitially == Init => PlacedInv
<1> SUFFICES ASSUME Init PROVE PlacedInv
  OBVIOUS
<1>1. ASSUME NEW q \in Requests PROVE Course(q)
  BY DEF Init, StoreInit, InventoryInit, Course, NoModelRequest, Unfiled
<1>2. ASSUME NEW d \in Calls PROVE call[d].at = "idle"
  BY DEF Init, StoreInit, Idle
<1> QED BY <1>1, <1>2, OwedInitially DEF PlacedInv, Placed

(***************************************************************************)
(* What a view of such a request looks like, and the step it is at.        *)
(***************************************************************************)
Plausible(v) ==
    /\ v.kind = "ACCESSORY" /\ v.type \in Types /\ v.status \in {"PENDING", "APPROVED"}
    /\ v.needsShipping = FALSE /\ v.ready = FALSE /\ v.received = FALSE
    /\ v.quote \in {"NONE", "SENT", "ACCEPTED"} /\ v.quoteSkipped \in BOOLEAN
    /\ v.linked \in BOOLEAN /\ v.proc \in {"NONE", "AWAITING_DETAILS", "AWAITING_REVIEW"}
    /\ v.mrStatus \in {"NONE", "PENDING", "APPROVED", "COMPLETED"}
    /\ v.status = "PENDING" => ~v.approved /\ ~v.signedOff /\ v.mrStatus = "NONE"
    /\ v.mrStatus \in {"NONE", "PENDING"} =>
          v.quote = "NONE" /\ ~v.quoteSkipped /\ v.proc = "NONE" /\ ~v.signedOff
    /\ v.mrStatus \in {"APPROVED", "COMPLETED"} => v.signedOff
    /\ v.mrStatus # "NONE" => v.type = "NON_STANDARD"
    /\ v.status = "APPROVED" /\ v.type = "NON_STANDARD" => v.mrStatus # "NONE"
    /\ v.linked <=> v.mrStatus = "COMPLETED"
    /\ v.quoteSkipped => v.quote = "NONE"
    /\ v.linked \/ v.proc # "NONE" => v.quoteSkipped \/ v.quote = "ACCEPTED"

StepAt(v) ==
    IF v.status = "PENDING" THEN "mgr"
    ELSE IF v.mrStatus \in {"NONE", "PENDING"} THEN "it"
    ELSE IF v.quote = "NONE" /\ ~v.quoteSkipped THEN "quote"
    ELSE IF v.quote = "SENT" THEN "review"
    ELSE IF v.proc = "NONE" THEN IF v.linked THEN "stock" ELSE "select"
    ELSE IF v.proc = "AWAITING_DETAILS" THEN "purchase" ELSE "procrev"

\* With no call about it, the row of a request that is not stuck gives such a view.
LEMMA ViewIsPlausible ==
    ASSUME PlacedInv, NEW r \in Requests, InProgress(r), ~(row[r].status = "APPROVED" /\ Stuck(r))
    PROVE  Plausible(View(r))
<1> DEFINE v == View(r)
<1>1. /\ Typed /\ Story(r) /\ Bought(r) /\ Course(r)
  BY DEF PlacedInv, OwedInv, ToldInv, TurnsInv, Told, Owed, Placed
<1>2. /\ row[r] \in Rows /\ mr[r] \in ModelRequests /\ proc[r] \in Procurements
  BY <1>1 DEF Typed, StoreTyped, RowsTyped, WorkflowsTyped, ProcTyped
<1>3. /\ v.kind = row[r].kind /\ v.type = row[r].type /\ v.status = row[r].status
      /\ v.approved = row[r].approved /\ v.signedOff = row[r].signedOff
      /\ v.quote = row[r].quote /\ v.quoteSkipped = row[r].quoteSkipped
      /\ v.proc = proc[r] /\ v.mrStatus = mr[r].status
      /\ v.linked = (mr[r].accessory # None)
      /\ v.needsShipping = FALSE /\ v.ready = FALSE /\ v.received = FALSE
  BY DEF View, FreshView
<1>4. row[r].status \in {"PENDING", "APPROVED"}
  BY DEF InProgress
<1>5. proc[r] # "COMPLETED"
  <2>1. ~Paid(r, {"completeReviewed"})
    BY DEF InProgress, Settled, Paid
  <2> QED BY <1>1, <1>4, <2>1 DEF Bought
<1>6. row[r].quote # "REJECTED"
  BY <1>1, <1>4 DEF Course, Stuck
<1>7. /\ row[r].kind = "ACCESSORY" /\ row[r].type \in Types
      /\ row[r].status = "PENDING" => ~row[r].approved /\ ~row[r].signedOff /\ mr[r].status = "NONE"
      /\ mr[r].status \in {"NONE", "PENDING"} =>
            row[r].quote = "NONE" /\ ~row[r].quoteSkipped /\ proc[r] = "NONE" /\ ~row[r].signedOff
      /\ mr[r].status \in {"APPROVED", "COMPLETED"} => row[r].signedOff
      /\ row[r].quoteSkipped => row[r].quote = "NONE"
  BY <1>1, <1>4 DEF Course, Story
<1>8. /\ mr[r].status # "NONE" => row[r].type = "NON_STANDARD"
      /\ mr[r].status = "COMPLETED" <=> mr[r].accessory # None
      /\ mr[r].accessory # None \/ proc[r] # "NONE" =>
            row[r].quoteSkipped \/ row[r].quote = "ACCEPTED"
      /\ row[r].status = "APPROVED" /\ row[r].type = "NON_STANDARD" => mr[r].status # "NONE"
  BY <1>1 DEF Story, QuoteSettled, Stuck, HasModelRequest
<1>9. /\ row[r].quote \in {"NONE", "SENT", "ACCEPTED"} /\ row[r].quoteSkipped \in BOOLEAN
      /\ proc[r] \in {"NONE", "AWAITING_DETAILS", "AWAITING_REVIEW"}
      /\ mr[r].status \in {"NONE", "PENDING", "APPROVED", "COMPLETED"}
  BY <1>2, <1>5, <1>6 DEF Rows, QuoteStatuses, Procurements, ModelRequests
<1> HIDE DEF v
<1>10. Plausible(v)
  BY <1>3, <1>4, <1>7, <1>8, <1>9 DEF Plausible
<1> QED BY <1>10 DEF v

\* The steps of its route.
LEMMA RouteOfAccessory ==
    ASSUME NEW v, Plausible(v)
    PROVE  \E n \in 4 .. 8 :
              /\ DOMAIN StepsFor(v) = 1 .. n
              /\ StepsFor(v)[1] = "mgr" /\ StepsFor(v)[2] = "it"
              /\ v.type = "NON_STANDARD" =>
                    /\ StepsFor(v)[3] = "quote"
                    /\ ~v.quoteSkipped =>
                          /\ n >= 7 /\ StepsFor(v)[4] = "review"
                          /\ v.proc = "NONE" => StepsFor(v)[5] = "select" /\ StepsFor(v)[6] = "stock"
                          /\ v.proc # "NONE" => /\ StepsFor(v)[5] = "handoff"
                                                /\ StepsFor(v)[6] = "purchase"
                                                /\ StepsFor(v)[7] = "procrev"
                    /\ v.quoteSkipped =>
                          /\ n >= 6
                          /\ v.proc = "NONE" => StepsFor(v)[4] = "select" /\ StepsFor(v)[5] = "stock"
                          /\ v.proc # "NONE" => /\ StepsFor(v)[4] = "handoff"
                                                /\ StepsFor(v)[5] = "purchase"
                                                /\ StepsFor(v)[6] = "procrev"
<1>1. /\ v.kind = "ACCESSORY" /\ v.type \in {"STANDARD", "NON_STANDARD"}
      /\ v.needsShipping = FALSE /\ v.quoteSkipped \in BOOLEAN
  BY DEF Plausible, Types
<1>2. OrdinaryHandover(v) = <<"prep", "collect">>
  BY <1>1 DEF OrdinaryHandover, Handover
<1>3. CASE v.type = "STANDARD"
  <2>1. StepsFor(v) = <<"mgr", "it">> \o <<"prep", "collect">>
    BY <1>1, <1>2, <1>3 DEF StepsFor
  <2>2. /\ DOMAIN StepsFor(v) = 1 .. 4
        /\ StepsFor(v)[1] = "mgr" /\ StepsFor(v)[2] = "it"
    BY <2>1
  <2> QED BY <1>3, <2>2
<1>4. CASE v.type = "NON_STANDARD" /\ ~v.quoteSkipped /\ v.proc = "NONE"
  <2>1. StepsFor(v) = <<"mgr", "it">> \o <<"quote", "review">>
                        \o (<<"select", "stock">> \o <<"prep", "collect">>)
    BY <1>1, <1>2, <1>4 DEF StepsFor, QuoteSteps, SourcingSteps
  <2>2. /\ DOMAIN StepsFor(v) = 1 .. 8
        /\ StepsFor(v)[1] = "mgr" /\ StepsFor(v)[2] = "it" /\ StepsFor(v)[3] = "quote"
        /\ StepsFor(v)[4] = "review" /\ StepsFor(v)[5] = "select" /\ StepsFor(v)[6] = "stock"
    BY <2>1
  <2> QED BY <1>4, <2>2
<1>5. CASE v.type = "NON_STANDARD" /\ ~v.quoteSkipped /\ v.proc # "NONE"
  <2>1. StepsFor(v) = <<"mgr", "it">> \o <<"quote", "review">>
                        \o <<"handoff", "purchase", "procrev">>
    BY <1>1, <1>5 DEF StepsFor, QuoteSteps, SourcingSteps
  <2>2. /\ DOMAIN StepsFor(v) = 1 .. 7
        /\ StepsFor(v)[1] = "mgr" /\ StepsFor(v)[2] = "it" /\ StepsFor(v)[3] = "quote"
        /\ StepsFor(v)[4] = "review" /\ StepsFor(v)[5] = "handoff"
        /\ StepsFor(v)[6] = "purchase" /\ StepsFor(v)[7] = "procrev"
    BY <2>1
  <2> QED BY <1>5, <2>2
<1>6. CASE v.type = "NON_STANDARD" /\ v.quoteSkipped /\ v.proc = "NONE"
  <2>1. StepsFor(v) = <<"mgr", "it">> \o <<"quote">>
                        \o (<<"select", "stock">> \o <<"prep", "collect">>)
    BY <1>1, <1>2, <1>6 DEF StepsFor, QuoteSteps, SourcingSteps
  <2>2. /\ DOMAIN StepsFor(v) = 1 .. 7
        /\ StepsFor(v)[1] = "mgr" /\ StepsFor(v)[2] = "it" /\ StepsFor(v)[3] = "quote"
        /\ StepsFor(v)[4] = "select" /\ StepsFor(v)[5] = "stock"
    BY <2>1
  <2> QED BY <1>6, <2>2
<1>7. CASE v.type = "NON_STANDARD" /\ v.quoteSkipped /\ v.proc # "NONE"
  <2>1. StepsFor(v) = <<"mgr", "it">> \o <<"quote">> \o <<"handoff", "purchase", "procrev">>
    BY <1>1, <1>7 DEF StepsFor, QuoteSteps, SourcingSteps
  <2>2. /\ DOMAIN StepsFor(v) = 1 .. 6
        /\ StepsFor(v)[1] = "mgr" /\ StepsFor(v)[2] = "it" /\ StepsFor(v)[3] = "quote"
        /\ StepsFor(v)[4] = "handoff" /\ StepsFor(v)[5] = "purchase" /\ StepsFor(v)[6] = "procrev"
    BY <2>1
  <2> QED BY <1>7, <2>2
<1> QED BY <1>1, <1>3, <1>4, <1>5, <1>6, <1>7
\* The step of a route before which all are done.
LEMMA FirstOpenStep ==
    ASSUME NEW v, NEW n \in Nat, DOMAIN StepsFor(v) = 1 .. n, v.status # "REJECTED",
           NEW k \in 1 .. n, ~IsDone(v, StepsFor(v)[k]),
           \A j \in 1 .. n : j < k => IsDone(v, StepsFor(v)[j])
    PROVE  CurrentStep(v) = StepsFor(v)[k]
<1> DEFINE open == {i \in DOMAIN StepsFor(v) : ~IsDone(v, StepsFor(v)[i])}
<1>1. k \in open /\ \A j \in open : k <= j
  OBVIOUS
<1>2. \A i \in open : (\A j \in open : i <= j) => i = k
  BY <1>1
<1>3. CurrentStep(v) = IF v.status = "REJECTED" \/ open = {} THEN "none"
                       ELSE StepsFor(v)[CHOOSE i \in open : \A j \in open : i <= j]
  BY DEF CurrentStep
<1> HIDE DEF open
<1>4. (CHOOSE i \in open : \A j \in open : i <= j) = k
  BY <1>1, <1>2
<1> QED BY <1>1, <1>3, <1>4

LEMMA CurrentStepOfAccessory ==
    ASSUME NEW v, Plausible(v)
    PROVE  CurrentStep(v) = StepAt(v)
<1> DEFINE steps == StepsFor(v)
           done(step) == IsDone(v, step)
<1>1. PICK n \in 4 .. 8 :
         /\ DOMAIN steps = 1 .. n
         /\ steps[1] = "mgr" /\ steps[2] = "it"
         /\ v.type = "NON_STANDARD" =>
               /\ steps[3] = "quote"
               /\ ~v.quoteSkipped =>
                     /\ n >= 7 /\ steps[4] = "review"
                     /\ v.proc = "NONE" => steps[5] = "select" /\ steps[6] = "stock"
                     /\ v.proc # "NONE" =>
                           steps[5] = "handoff" /\ steps[6] = "purchase" /\ steps[7] = "procrev"
               /\ v.quoteSkipped =>
                     /\ n >= 6
                     /\ v.proc = "NONE" => steps[4] = "select" /\ steps[5] = "stock"
                     /\ v.proc # "NONE" =>
                           steps[4] = "handoff" /\ steps[5] = "purchase" /\ steps[6] = "procrev"
  BY RouteOfAccessory
<1>2. \A k \in 1 .. n : ~done(steps[k]) /\ (\A j \in 1 .. n : j < k => done(steps[j]))
                           => CurrentStep(v) = steps[k]
  BY <1>1, FirstOpenStep DEF Plausible
<1>3. /\ done("mgr") <=> v.approved \/ v.status \notin {"PENDING", "REJECTED"}
      /\ done("it") <=> v.signedOff \/ v.status = "COMPLETED" \/ v.mrStatus \notin {"NONE", "PENDING"}
      /\ done("quote") <=> v.quote # "NONE" \/ v.quoteSkipped
      /\ done("review") <=> v.quote = "ACCEPTED"
      /\ done("select") <=> v.linked \/ v.status = "COMPLETED"
      /\ done("stock") <=> v.status = "COMPLETED"
      /\ done("handoff") <=> v.proc # "NONE"
      /\ done("purchase") <=> v.proc \in {"AWAITING_REVIEW", "COMPLETED"}
      /\ done("procrev") <=> v.proc = "COMPLETED"
  BY DEF IsDone
<1> HIDE DEF steps, done
<1>4. CASE StepAt(v) = "mgr"
  <2>1. v.status = "PENDING" /\ ~v.approved
    BY <1>4 DEF StepAt, Plausible
  <2>2. 1 \in 1 .. n /\ ~done(steps[1]) /\ \A j \in 1 .. n : j < 1 => done(steps[j])
    BY <1>1, <1>3, <2>1
  <2> QED BY <1>1, <1>2, <1>4, <2>2
<1>5. CASE StepAt(v) = "it"
  <2>1. v.status = "APPROVED" /\ v.mrStatus \in {"NONE", "PENDING"} /\ ~v.signedOff
    BY <1>5 DEF StepAt, Plausible
  <2>2. 2 \in 1 .. n /\ ~done(steps[2]) /\ \A j \in 1 .. n : j < 2 => j = 1
    BY <1>1, <1>3, <2>1
  <2> QED BY <1>1, <1>2, <1>3, <1>5, <2>1, <2>2
<1>6. CASE StepAt(v) \notin {"mgr", "it"}
  <2>1. /\ v.status = "APPROVED" /\ v.mrStatus \in {"APPROVED", "COMPLETED"}
        /\ v.type = "NON_STANDARD" /\ done("mgr") /\ done("it")
    BY <1>3, <1>6 DEF StepAt, Plausible
  <2>2. /\ v.quote \in {"NONE", "SENT", "ACCEPTED"} /\ v.quoteSkipped \in BOOLEAN
        /\ v.quoteSkipped => v.quote = "NONE"
        /\ v.linked \in BOOLEAN /\ v.proc \in {"NONE", "AWAITING_DETAILS", "AWAITING_REVIEW"}
        /\ v.linked \/ v.proc # "NONE" => v.quoteSkipped \/ v.quote = "ACCEPTED"
    BY DEF Plausible
  <2>3. StepAt(v) = IF v.quote = "NONE" /\ ~v.quoteSkipped THEN "quote"
                    ELSE IF v.quote = "SENT" THEN "review"
                    ELSE IF v.proc = "NONE" THEN IF v.linked THEN "stock" ELSE "select"
                    ELSE IF v.proc = "AWAITING_DETAILS" THEN "purchase" ELSE "procrev"
    BY <2>1 DEF StepAt
  <2>4. /\ \A j \in 1 .. n : j < 3 => j \in {1, 2}
        /\ \A j \in 1 .. n : j < 4 => j \in {1, 2, 3}
        /\ \A j \in 1 .. n : j < 5 => j \in {1, 2, 3, 4}
        /\ \A j \in 1 .. n : j < 6 => j \in {1, 2, 3, 4, 5}
        /\ \A j \in 1 .. n : j < 7 => j \in {1, 2, 3, 4, 5, 6}
        /\ n >= 6 /\ 3 \in 1 .. n /\ 4 \in 1 .. n /\ 5 \in 1 .. n /\ 6 \in 1 .. n
        /\ n >= 7 => 7 \in 1 .. n
    BY <1>1, <2>1, <2>2
  <2>5. steps[1] = "mgr" /\ steps[2] = "it" /\ steps[3] = "quote"
    BY <1>1, <2>1
  <2>6. CASE v.quote = "NONE" /\ ~v.quoteSkipped
    BY <1>2, <1>3, <2>1, <2>3, <2>4, <2>5, <2>6
  <2>7. CASE v.quote # "NONE"
    <3>1. /\ ~v.quoteSkipped /\ steps[4] = "review" /\ n >= 7 /\ done("quote")
          /\ v.proc = "NONE" => steps[5] = "select" /\ steps[6] = "stock"
          /\ v.proc # "NONE" => /\ steps[5] = "handoff" /\ steps[6] = "purchase"
                                /\ steps[7] = "procrev"
      BY <1>1, <1>3, <2>1, <2>2, <2>7
    <3>2. CASE v.quote = "SENT"
      BY <1>2, <1>3, <2>1, <2>3, <2>4, <2>5, <3>1, <3>2
    <3>3. CASE v.quote = "ACCEPTED" /\ v.proc = "NONE"
      BY <1>2, <1>3, <2>1, <2>3, <2>4, <2>5, <3>1, <3>3
    <3>4. CASE v.quote = "ACCEPTED" /\ v.proc # "NONE"
      BY <1>2, <1>3, <2>1, <2>2, <2>3, <2>4, <2>5, <3>1, <3>4
    <3> QED BY <2>2, <2>7, <3>2, <3>3, <3>4
  <2>8. CASE v.quoteSkipped
    <3>1. /\ v.quote = "NONE" /\ n >= 6 /\ done("quote")
          /\ v.proc = "NONE" => steps[4] = "select" /\ steps[5] = "stock"
          /\ v.proc # "NONE" => /\ steps[4] = "handoff" /\ steps[5] = "purchase"
                                /\ steps[6] = "procrev"
      BY <1>1, <1>3, <2>1, <2>2, <2>8
    <3>2. CASE v.proc = "NONE"
      BY <1>2, <1>3, <2>1, <2>3, <2>4, <2>5, <2>8, <3>1, <3>2
    <3>3. CASE v.proc # "NONE"
      BY <1>2, <1>3, <2>1, <2>2, <2>3, <2>4, <2>5, <2>8, <3>1, <3>3
    <3> QED BY <3>2, <3>3
  <2> QED BY <2>2, <2>6, <2>7, <2>8
<1> QED BY <1>4, <1>5, <1>6

OpenSteps == {"mgr", "it", "quote", "review", "select", "stock", "purchase", "procrev"}

LEMMA StepIsOpen == \A v : StepAt(v) \in OpenSteps
BY DEF StepAt, OpenSteps

\* The badge is that of the step, and the client offers the step to nobody the
\* route refuses.
LEMMA AccessoryBadge ==
    ASSUME NEW v, Plausible(v)
    PROVE  Agree(v) /\ OnlyOfferedWhereAdmitted(v)
<1> DEFINE step == StepAt(v)
<1>1. CurrentStep(v) = step /\ step \in OpenSteps
  BY CurrentStepOfAccessory, StepIsOpen
<1>2. Stage(v) \in StageOf[step]
  <2>1. /\ StageOf["mgr"] = {"PENDING"} /\ StageOf["it"] = {"AWAITING_IT"}
        /\ StageOf["quote"] = {"APPROVED"} /\ StageOf["review"] = {"AWAITING_QUOTE"}
        /\ StageOf["select"] = {"APPROVED"} /\ StageOf["stock"] = {"APPROVED"}
        /\ StageOf["purchase"] = {"AWAITING_SELF_PROCUREMENT"}
        /\ StageOf["procrev"] = {"AWAITING_PROCUREMENT_REVIEW"}
    BY DEF StageOf
  <2>2. v.kind = "ACCESSORY" /\ v.status \in {"PENDING", "APPROVED"}
    BY DEF Plausible
  <2>3. CASE v.status = "PENDING"
    BY <2>1, <2>3 DEF Stage, StepAt
  <2>4. CASE v.status = "APPROVED" /\ v.mrStatus \in {"NONE", "PENDING"}
    <3>1. /\ v.quote # "SENT" /\ ~v.signedOff
          /\ v.mrStatus = "NONE" => v.type = "STANDARD"
      BY <2>4 DEF Plausible, Types
    <3>2. Stage(v) = "AWAITING_IT"
      BY <2>2, <2>4, <3>1 DEF Stage
    <3> QED BY <2>1, <2>4, <3>2 DEF StepAt
  <2>5. CASE v.status = "APPROVED" /\ v.mrStatus \in {"APPROVED", "COMPLETED"}
    <3>1. /\ v.signedOff /\ v.quote \in {"NONE", "SENT", "ACCEPTED"}
          /\ v.proc \in {"NONE", "AWAITING_DETAILS", "AWAITING_REVIEW"}
          /\ v.proc # "NONE" => v.quote # "SENT" /\ (v.quoteSkipped \/ v.quote # "NONE")
      BY <2>5 DEF Plausible
    <3>2. Stage(v) = IF v.quote = "SENT" THEN "AWAITING_QUOTE"
                     ELSE IF v.proc = "AWAITING_DETAILS" THEN "AWAITING_SELF_PROCUREMENT"
                     ELSE IF v.proc = "AWAITING_REVIEW" THEN "AWAITING_PROCUREMENT_REVIEW"
                     ELSE "APPROVED"
      BY <2>2, <2>5, <3>1 DEF Stage
    <3>3. step = IF v.quote = "NONE" /\ ~v.quoteSkipped THEN "quote"
                 ELSE IF v.quote = "SENT" THEN "review"
                 ELSE IF v.proc = "NONE" THEN IF v.linked THEN "stock" ELSE "select"
                 ELSE IF v.proc = "AWAITING_DETAILS" THEN "purchase" ELSE "procrev"
      BY <2>5 DEF StepAt
    <3> HIDE DEF step
    <3> QED BY <2>1, <3>1, <3>2, <3>3
  <2> QED BY <2>2, <2>3, <2>4, <2>5 DEF Plausible
<1>3. ASSUME NEW viewer \in Viewers, NeedsMyAction(v, viewer)
      PROVE  CanAct(step, viewer)
  <2>1. CASE v.status = "PENDING" /\ "approver" \in viewer
    <3>1. step = "mgr"
      BY <2>1 DEF StepAt
    <3> HIDE DEF step
    <3> QED BY <2>1, <3>1 DEF CanAct, Holder
  <2>2. CASE v.status = "APPROVED" /\ ~v.signedOff /\ "admin" \in viewer
    <3>1. step = "it"
      BY <2>2 DEF StepAt, Plausible
    <3> HIDE DEF step
    <3> QED BY <2>2, <3>1 DEF CanAct, Holder
  <2> QED BY <1>3, <2>1, <2>2 DEF NeedsMyAction, Plausible
<1>4. ASSUME NEW viewer \in Viewers, CanAct(step, viewer)
      PROVE  Admits(step, viewer)
  <2> HIDE DEF step
  <2> QED BY <1>1, <1>4 DEF OpenSteps, CanAct, Holder, Admits, CanActAsStockKeeper, IsAny,
                            MayAnswerQuote, MayReportPurchase, Viewers, Roles
<1> QED BY <1>1, <1>2, <1>3, <1>4 DEF Agree, OnlyOfferedWhereAdmitted

\* The service takes the step.
LEMMA AccessoryStepAccepted ==
    ASSUME PlacedInv, NEW r \in Requests, InProgress(r), Plausible(View(r))
    PROVE  Accepts(r, StepAt(View(r)))
<1> DEFINE v == View(r)
<1>1. /\ v.kind = row[r].kind /\ v.type = row[r].type /\ v.status = row[r].status
      /\ v.approved = row[r].approved /\ v.signedOff = row[r].signedOff
      /\ v.quote = row[r].quote /\ v.quoteSkipped = row[r].quoteSkipped
      /\ v.proc = proc[r] /\ v.mrStatus = mr[r].status
      /\ v.linked = (mr[r].accessory # None)
  BY DEF View, FreshView
<1> HIDE DEF v
<1>2. Plausible(v)
  BY DEF v
<1>3. CASE row[r].status = "PENDING"
  <2>1. StepAt(v) = "mgr" /\ ~HasModelRequest(r)
    BY <1>1, <1>2, <1>3 DEF StepAt, Plausible, HasModelRequest
  <2> QED BY <1>3, <2>1 DEF Accepts, AwaitsManager, v
<1>4. CASE row[r].status = "APPROVED" /\ mr[r].status \in {"NONE", "PENDING"}
  <2>1. StepAt(v) = "it" /\ ~row[r].signedOff
        /\ (mr[r].status = "NONE" => row[r].type = "STANDARD")
    BY <1>1, <1>2, <1>4 DEF StepAt, Plausible, Types
  <2> QED BY <1>4, <2>1 DEF Accepts, AwaitsStandardSignOff, AwaitsReview, v
<1>5. CASE row[r].status = "APPROVED" /\ mr[r].status \notin {"NONE", "PENDING"}
  <2>1. /\ row[r].kind = "ACCESSORY" /\ row[r].type = "NON_STANDARD"
        /\ mr[r].status \in {"APPROVED", "COMPLETED"}
        /\ mr[r].accessory # None <=> mr[r].status = "COMPLETED"
        /\ row[r].quote \in {"NONE", "SENT", "ACCEPTED"}
        /\ proc[r] \in {"NONE", "AWAITING_DETAILS", "AWAITING_REVIEW"}
        /\ mr[r].accessory # None => row[r].quoteSkipped \/ row[r].quote = "ACCEPTED"
    BY <1>1, <1>2, <1>5 DEF Plausible
  <2>2. StepAt(v) = IF row[r].quote = "NONE" /\ ~row[r].quoteSkipped THEN "quote"
                    ELSE IF row[r].quote = "SENT" THEN "review"
                    ELSE IF proc[r] = "NONE"
                    THEN IF mr[r].accessory # None THEN "stock" ELSE "select"
                    ELSE IF proc[r] = "AWAITING_DETAILS" THEN "purchase" ELSE "procrev"
    BY <1>1, <1>5 DEF StepAt
  <2>3. CASE StepAt(v) = "quote"
    <3>1. AwaitsQuote(r)
      BY <1>5, <2>1, <2>2, <2>3 DEF AwaitsQuote
    <3> QED BY <2>3, <3>1 DEF Accepts, v
  <2>4. CASE StepAt(v) = "review"
    <3>1. AwaitsAnswer(r)
      BY <1>5, <2>2, <2>4 DEF AwaitsAnswer, Terminal
    <3> QED BY <2>4, <3>1 DEF Accepts, v
  <2>5. CASE StepAt(v) = "select"
    <3>1. AwaitsSelection(r)
      BY <1>5, <2>1, <2>2, <2>5 DEF AwaitsSelection, QuoteSettled
    <3> QED BY <2>5, <3>1 DEF Accepts, v
  <2>6. CASE StepAt(v) = "stock"
    <3>1. AwaitsStock(r)
      BY <1>5, <2>1, <2>2, <2>6 DEF AwaitsStock
    <3> QED BY <2>6, <3>1 DEF Accepts, v
  <2>7. CASE StepAt(v) = "purchase"
    <3>1. AwaitsDetails(r)
      BY <2>2, <2>7 DEF AwaitsDetails
    <3> QED BY <2>7, <3>1 DEF Accepts, v
  <2>8. CASE StepAt(v) = "procrev"
    <3>1. AwaitsProcurementReview(r)
      BY <2>1, <2>2, <2>8 DEF AwaitsProcurementReview, HasModelRequest
    <3> QED BY <2>8, <3>1 DEF Accepts, v
  <2> QED BY <2>2, <2>3, <2>4, <2>5, <2>6, <2>7, <2>8
<1> QED BY <1>1, <1>2, <1>3, <1>4, <1>5 DEF InProgress

\* Of an accessory request in progress that no call is about, the client offers
\* the step the service accepts, to those whom it lets in, and shows its badge,
\* provided no call dies between a receipt and the write it is for.
THEOREM AccessoryClientAgrees ==
    ASSUME ~Overlap, Reliable, OnlyAccessories
    PROVE  Spec => []ClientAgrees
<1>1. PlacedInv => ClientAgrees
  <2> SUFFICES ASSUME PlacedInv, NEW r \in Requests, InProgress(r),
                      ~(row[r].status = "APPROVED" /\ Stuck(r))
               PROVE  /\ Accepts(r, CurrentStep(View(r)))
                      /\ OnlyOfferedWhereAdmitted(View(r))
                      /\ Agree(View(r))
    BY DEF ClientAgrees, OfferedStepIsAccepted, BadgeMatchesStep
  <2>1. Plausible(View(r))
    BY ViewIsPlausible
  <2> QED BY <2>1, CurrentStepOfAccessory, AccessoryBadge, AccessoryStepAccepted
<1> QED BY <1>1, PlacedInitially, PlacedNext, PTL DEF Spec
=============================================================================
