-------------------------------- MODULE Access --------------------------------
(* Who may take a step of a request.  The routes of the service decide it one by
   one (src/backend/src/routes/approvalRoutes.ts, with config/auth.ts); the web
   client decides for itself whom it offers a step, and on whom it counts the
   request as waiting (src/frontend/src/lib/route.ts, permissions.ts).  A viewer
   is the set of roles one person has towards the request: approver and
   requestee by their id, keeper of the site it is at, administrator.        *)
EXTENDS FiniteSets

Roles == {"admin", "approver", "requestee", "keeper"}

\* Anybody signed in, and the strangers among them.
Viewers == SUBSET Roles

IsAny(viewer, roles) == viewer \cap roles # {}

(***************************************************************************)
(* The routes.                                                             *)
(***************************************************************************)
\* Administrators act at every site, and alone where no site is recorded.
CanActAsStockKeeper(viewer) == IsAny(viewer, {"admin", "keeper"})

MayReceive(viewer) == IsAny(viewer, {"admin", "requestee"})
MayReportPurchase(viewer) == IsAny(viewer, {"admin", "requestee"})

\* A quote comes out of the approver's budget: an administrator may only see it.
MayAnswerQuote(viewer) == "approver" \in viewer

\* The route the step's button calls lets the viewer in.  The manager's approval
\* and the fulfilment of an approved request ask only who is signed in.
Admits(step, viewer) ==
    CASE step \in {"mgr", "model", "details", "select", "stock"} -> TRUE
      [] step \in {"it", "manage", "assign", "ship", "quote", "handoff", "procrev"} ->
            "admin" \in viewer
      [] step \in {"arrive", "prep", "lreturn"} -> CanActAsStockKeeper(viewer)
      [] step = "review" -> MayAnswerQuote(viewer)
      [] step = "purchase" -> MayReportPurchase(viewer)
      [] step \in {"collect", "receive", "lreceive", "lcollect"} -> MayReceive(viewer)

(***************************************************************************)
(* The client.                                                             *)
(***************************************************************************)
Holder(step) ==
    CASE step \in {"mgr", "review"} -> "approver"
      [] step \in {"arrive", "prep"} -> "keeper"
      [] step \in {"purchase", "collect", "receive", "lreceive", "lcollect", "lreturn"} ->
            "requestee"
      [] OTHER -> "admin"

\* Whom the client offers the step (that a keeper takes a loan back only from the
\* day it is due is left out).
CanAct(step, viewer) ==
    \/ Holder(step) \in viewer /\ step # "lreturn"
    \/ step = "mgr" /\ "admin" \in viewer
    \/ (Holder(step) = "keeper" \/ step = "lreturn") /\ CanActAsStockKeeper(viewer)

\* Whose badge counts the request, v being the row as the client has it.
NeedsMyAction(v, viewer) ==
    \/ v.status = "PENDING" /\ "approver" \in viewer
    \/ v.status = "COMPLETED" /\ v.ready /\ ~v.received /\ "requestee" \in viewer
    \/ v.status = "APPROVED" /\ ~v.signedOff /\ "admin" \in viewer
=============================================================================
