-------------------------------- MODULE Route --------------------------------
(* Where the web client says a request is: the steps of its route, the first of
   them not yet done (src/frontend/src/lib/route.ts), and the stage that its
   badge and the filters show (src/frontend/src/lib/stage.ts).  Both are derived
   from the row alone.  A view is the row as the client receives it: a record of
   kind, type, status, approved, signedOff, quote, quoteSkipped, proc, mrStatus,
   linked (a model, asset or accessory is), needsShipping, legacy, shipped,
   ready, received, returned.                                                *)
EXTENDS Naturals, Sequences, Access

\* A view of a request of which nothing is known but that it was filed.
FreshView == [kind |-> "ASSET", type |-> "STANDARD", status |-> "PENDING",
              approved |-> FALSE, signedOff |-> FALSE,
              quote |-> "NONE", quoteSkipped |-> FALSE, proc |-> "NONE",
              mrStatus |-> "NONE", linked |-> FALSE,
              needsShipping |-> FALSE, legacy |-> FALSE, shipped |-> FALSE,
              ready |-> FALSE, received |-> FALSE, returned |-> FALSE]

IsDone(v, step) ==
    CASE step = "mgr"      -> v.approved \/ v.status \notin {"PENDING", "REJECTED"}
      [] step = "it"       -> \/ v.signedOff
                              \/ v.status = "COMPLETED"
                              \/ v.mrStatus \notin {"NONE", "PENDING"}
      [] step \in {"model", "select"} -> v.linked \/ v.status = "COMPLETED"
      [] step \in {"details", "stock", "assign", "manage"} -> v.status = "COMPLETED"
      [] step = "quote"    -> v.quote # "NONE" \/ v.quoteSkipped
      [] step = "review"   -> v.quote = "ACCEPTED"
      [] step = "handoff"  -> v.proc # "NONE"
      [] step = "purchase" -> v.proc \in {"AWAITING_REVIEW", "COMPLETED"}
      [] step = "procrev"  -> v.proc = "COMPLETED"
      [] step = "ship"     -> v.shipped \/ v.received
      [] step \in {"arrive", "prep"} -> v.ready \/ v.received
      [] step \in {"collect", "receive", "lreceive", "lcollect"} -> v.received
      [] step = "lreturn"  -> v.returned

Handover(v, final) ==
    IF ~v.needsShipping THEN <<"prep", final>>
    ELSE IF v.legacy THEN <<"ship", IF final = "lcollect" THEN final ELSE "lreceive">>
    ELSE <<"ship", "arrive", final>>

\* Mutant: a skipped quote still goes to the manager.
QuoteStepsAlways(v) == <<"quote", "review">>

QuoteSteps(v) == IF v.quoteSkipped THEN <<"quote">> ELSE <<"quote", "review">>

OrdinaryHandover(v) == Handover(v, IF v.needsShipping THEN "receive" ELSE "collect")

SourcingSteps(v) ==
    IF v.proc # "NONE" THEN <<"handoff", "purchase", "procrev">>
    ELSE <<"select", "stock">> \o OrdinaryHandover(v)

StepsFor(v) ==
    CASE v.kind = "CORRECTION" -> <<"manage">>
      [] v.kind = "LOAN" -> <<"assign">> \o Handover(v, "lcollect") \o <<"lreturn">>
      [] v.kind \in {"ASSET", "ACCESSORY"} /\ v.type # "NON_STANDARD" ->
            <<"mgr", "it">> \o OrdinaryHandover(v)
      [] v.kind = "ASSET" /\ v.type = "NON_STANDARD" ->
            <<"mgr", "it", "model", "details">> \o OrdinaryHandover(v)
      [] v.kind = "ACCESSORY" /\ v.type = "NON_STANDARD" ->
            <<"mgr", "it">> \o QuoteSteps(v) \o SourcingSteps(v)

\* The first step not done; "none" once all are, or the request was rejected.
CurrentStep(v) ==
    LET steps == StepsFor(v)
        open == {i \in DOMAIN steps : ~IsDone(v, steps[i])}
    IN  IF v.status = "REJECTED" \/ open = {} THEN "none"
        ELSE steps[CHOOSE i \in open : \A j \in open : i <= j]

\* Mutant: a parcel counts as on its way until it is received.
FulfilmentStageShippedFirst(v) ==
    IF v.kind = "CORRECTION" THEN "COMPLETED"
    ELSE IF v.received
         THEN IF v.kind = "LOAN" THEN (IF v.returned THEN "RETURNED" ELSE "ON_LOAN")
              ELSE IF v.needsShipping THEN "RECEIVED" ELSE "COLLECTED"
    ELSE IF v.needsShipping /\ v.shipped THEN "SHIPPED"
    ELSE IF v.ready THEN "READY_TO_COLLECT"
    ELSE "ASSIGNED"

\* The stage of a request whose status is COMPLETED.
FulfilmentStage(v) ==
    IF v.kind = "CORRECTION" THEN "COMPLETED"
    ELSE IF v.received
         THEN IF v.kind = "LOAN" THEN (IF v.returned THEN "RETURNED" ELSE "ON_LOAN")
              ELSE IF v.needsShipping THEN "RECEIVED" ELSE "COLLECTED"
    ELSE IF v.ready THEN "READY_TO_COLLECT"
    ELSE IF v.needsShipping /\ v.shipped THEN "SHIPPED"
    ELSE "ASSIGNED"

Stage(v) ==
    IF v.kind = "CORRECTION" \/ v.status \in {"PENDING", "REJECTED"} THEN v.status
    ELSE IF v.status = "COMPLETED" THEN FulfilmentStage(v)
    ELSE IF v.quote = "SENT" THEN "AWAITING_QUOTE"
    ELSE IF \/ v.type = "STANDARD" /\ ~v.signedOff
            \/ v.mrStatus = "PENDING"
            \/ v.kind = "LOAN" /\ ~v.signedOff
         THEN "AWAITING_IT"
    ELSE IF v.proc = "AWAITING_DETAILS" THEN "AWAITING_SELF_PROCUREMENT"
    ELSE IF v.proc = "AWAITING_REVIEW" THEN "AWAITING_PROCUREMENT_REVIEW"
    ELSE "APPROVED"

\* The stage at which a step is the one to take, as the badges name them.
StageOf ==
    [mgr |-> {"PENDING"}, it |-> {"AWAITING_IT"}, model |-> {"APPROVED"},
     details |-> {"APPROVED"}, quote |-> {"APPROVED"}, review |-> {"AWAITING_QUOTE"},
     select |-> {"APPROVED"}, stock |-> {"APPROVED"}, handoff |-> {"APPROVED"},
     purchase |-> {"AWAITING_SELF_PROCUREMENT"},
     procrev |-> {"AWAITING_PROCUREMENT_REVIEW"},
     assign |-> {"AWAITING_IT"}, ship |-> {"ASSIGNED"}, arrive |-> {"SHIPPED"},
     prep |-> {"ASSIGNED"}, collect |-> {"READY_TO_COLLECT"},
     receive |-> {"READY_TO_COLLECT"}, lreceive |-> {"SHIPPED"},
     lcollect |-> {"READY_TO_COLLECT", "SHIPPED"}, lreturn |-> {"ON_LOAN"},
     manage |-> {"PENDING", "APPROVED"},
     none |-> {"REJECTED", "COLLECTED", "RECEIVED", "RETURNED", "COMPLETED"}]

\* The badge is that of the step, and whoever is counted as holding it up is
\* offered the step.
Agree(v) ==
    LET step == CurrentStep(v) IN
    /\ Stage(v) \in StageOf[step]
    /\ \A viewer \in Viewers : NeedsMyAction(v, viewer) => CanAct(step, viewer)

\* Whoever is offered the step is let in by its route.
OnlyOfferedWhereAdmitted(v) ==
    LET step == CurrentStep(v) IN
    \A viewer \in Viewers : CanAct(step, viewer) => Admits(step, viewer)
=============================================================================
