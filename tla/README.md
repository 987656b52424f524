# A TLA+ model of the asset checkout portal

The portal (`src/backend`) lets staff ask for hardware and accessories, has the
requests approved, fulfils them by writing to an external Snipe-IT inventory over
HTTP, and runs everything that is not a button through a background job table.
These modules model its core logic, check it with TLC on small instances and
prove the central facts with TLAPS for all sizes.

## 1. Inventory

| Component | State | Operations | Hard because | What makes it correct | Here |
|---|---|---|---|---|---|
| Requests and approvals (`services/request.ts`) | `Request`, `ModelRequest` rows | create, edit, manager and admin approval, reject, stale clean-up | every handler reads a row, awaits, writes it back unconditionally; the stage is inferred from several columns | final states are final; a row carries only the workflow its type has; no stock leaves before approval | `RequestStore` |
| Hardware fulfilment (`request.ts`, `snipeitassets.ts`, `cleanupOrphanSnipeModels.ts`) | the above and the Snipe-IT models and assets | standard checkout, use-existing/create-new model, asset details, orphan clean-up | no transaction spans Snipe-IT and the database; Snipe-IT changes behind the portal; calls time out | COMPLETED means a device is out, at most one, none for a rejected request; no models leak; mails tell the truth | `AssetFlow` |
| Job queue (`jobQueue.ts`, `jobRunner.ts`) | `BackgroundJob` rows | enqueue, poll, claim, run, retry, give up, recover | overlapping ticks, crashes between any two writes, writes of the runner failing | one tick per job, outcomes earned and final, budget kept, every job ends | `JobRunner` |
| Accessory fulfilment, quotes, self-procurement (`request.ts`, `quote.ts`, `selfProcurement.ts`) | `Request`, `ModelRequest`, `QuoteDetail`, `SelfProcuredDetail` rows, accessory quantities | select, create, top up, quote/accept/reject/skip, hand off/report/review | three tables written one after the other; branches re-join; stock is a counter at Snipe-IT that is read, added to and written back | nothing ordered before the quote is settled; one unit; final is final; quantities are what was counted in | `AccessoryFlow` |
| Handover (`request.ts`, `remindShippedRequests.ts`) | stamps, start date and reminder stage of the request | ship, ready, receive, start date, the daily scan | independent stamps in any order; the scan writes from rows it read at its start | each reminder once and not early; whoever keeps a device waiting is reminded at last | `Handover` |
| Loans, record corrections (`loan.ts`, `correction.ts`) | `Loan`, `CorrectionDetail` rows, Snipe-IT's assignments | assign, collect, return; report, approve, apply | Snipe-IT write and row write apart; check-in by a search for "the user's unit" | returned and COMPLETED mean Snipe-IT agrees; no serial twice | `Lending` |
| Purchase ledgers (`syncRequestsToSharepoint.ts`, `logCapexPurchase.ts`) | stamps on the request | scan, send, stamp | send, then stamp, on top of retries and crashes | no row without its mail, none silently left out | `PurchaseLog` |
| Client rules (`route.ts`, `stage.ts`, `permissions.ts`) and route gates (`approvalRoutes.ts`, `auth.ts`) | none, derived from the row | step, badge, who may act | the same facts derived in three places, from other columns | what is offered is accepted; badge, route and "needs my action" agree | `Route`, `Access` |
| Editing a troubleshooting article (`useArticleEditor.ts`, the draft handlers of `troubleshootingContent.ts`) | the article row; per tab a cached copy, the text on screen, what is pending, the dialog that is open | type, autosave, leave and come back, close the tab, publish, discard, create | timer, fetches that renew the text and requests in flight, none waiting for another, in several tabs, with saves that fail | nothing typed is lost but in known ways; Publish carries what is on screen; no draft undoes a publication | `ArticleEditor` |
| The troubleshooting library (`troubleshootingContent.ts`, `prismaContent.ts`, `rows.ts`, `repository.ts`) | categories, symptoms, articles with memberships, the archive, the snapshot in memory | create, draft, publish, hide, disable, delete, reload | checks and writes apart, cascading foreign keys, every write reloads, links held by no key | live branches resolve; deleted means archived; readers are served the tables | `Library` |
| Scheduler, settings, mail texts, caches, support messages and tours, sessions, rendering | | | | | not modelled, see section 6 |

The components meet in four places: the handlers share the request rows; they
talk to Snipe-IT with awaits between; they insert notification jobs,
fire-and-forget, which the runner executes later; and the client derives from the
row what it offers next, which the handlers' guards then have to take.

## 2. Modules

- `RequestStatus`: the abstract life cycle of a request, filed - approved -
  completed, or rejected while open. COMPLETED and REJECTED are final.
- `RequestStore`: the two tables and the handlers both fulfilments share. A handler
  is a **call in flight** (`call[c]`): its first action reads and checks, each later
  one is what the code runs between two awaits, the last one writes. `call[c].at`
  is the await it stands at, the other fields are the local variables it kept
  (`mr`, for instance, is the primary key of the ModelRequest it read, so an update
  of a row that has been deleted meanwhile fails as it does in Prisma). The columns
  of `row` are: kind, type, status, `approved` (approvedAt), `signedOff`
  (adminApprovedAt), the outcome of the quote and quoteSkippedAt. `queued` holds the
  notification jobs inserted so far, of the kinds an instance watches.
- `AssetFlow`: hardware fulfilment over an inventory `model`/`asset`. `cond` is what
  the code can tell of an asset: `bare` (not deployable), `partial` (deployable,
  details missing), `ready` (`isSnipeAssetComplete`), `gone`. `HandOut` and
  `DeleteAsset` are people working in Snipe-IT itself; nobody checks devices in, and
  Snipe-IT refuses to delete a device that is checked out.
- `JobOutcome`: the abstract fate of a job; `JobRunner`: the table, the ticks, the
  enqueues, crashes and restarts. `due` is the order of scheduledAt among the jobs
  whose time has come; backoff is a job leaving `due` until `BackoffEnds`.
- `AccessoryFlow`: accessory fulfilment on `RequestStore`, with quotes and
  self-procurement. `acc` holds quantity and units out of each Snipe-IT record,
  `patch` what a top-up read and will write, `proc` the status of the purchase. Two
  history variables serve the stock property: `arrived` counts the units that came in
  as long as it is known, `raced` says that two writes of a quantity crossed. A third,
  `replaced`, names the records whose link a review's own link has overwritten.
- `Access`: who may take a step. `Admits` is the gate of each route, `CanAct` whom the
  client offers it, `NeedsMyAction` on whom it counts the request as waiting; a viewer
  is the set of roles a person has towards the request.
- `Route`: where the client says a request is, `CurrentStep` from `route.ts` and
  `Stage` from `stage.ts`, both pure functions of a view of the row. `Agree` and
  `OnlyOfferedWhereAdmitted` are what the two flow modules hold against their own
  guards (`Accepts`): every reachable row is a test case for the client's rules.
- `Handover`: a completed request on its way to the requester. A press of a button
  reads, checks and writes unconditionally; the scan reads all rows, then writes a
  reminder job and the stage, row by row. Time is relative (days since the latest
  stamp, days to the start date), so it needs no bound. `told` is what the ladder's
  present subject has been reminded of; `torn` marks a ladder that was restarted while
  a scan worked from the row as it was before.
- `Lending`: loans and corrections meet in Snipe-IT's assignments. `slot` is the table
  of assignments with their ids; `AtTheDesk` is staff checking units in and out by hand.
  `other`, `lost`, `outcome` and `raced` are history: units no loan is behind, check-ins
  no loan heard of, what became of a correction's write, serials written twice at once.
- `PurchaseLog` EXTENDS `JobRunner`: the two ledger handlers run await by await inside
  the ticks of the runner, so its retries, crashes and overlaps are theirs. `run[t]` is
  the handler of tick t; `sent` and `stamped` are what left and what the rows say.
- `ArticleEditor`: one article, the tabs that edit it, and the requests between. A
  document is the set of edits in it, so that "built on" and "lost" are inclusions.
  `cache[t]` is the query cache of a tab: the `copy` it has, the fetch that is running and
  what that fetch will return, and who awaits it (`after`). A copy survives the page and is
  shown at once when the page is opened again; if another change to the library has
  invalidated it, it is then fetched again, and the fresh copy is seeded under whatever was
  typed meanwhile (`Elsewhere`, `Visit`, `ReadCopy`, `Arrive`). `page[t]` is the hook and
  the page: `working` (the screen), `pending` (typed, not sent, with the stamp of the copy
  it was typed on), `dialog`, `publishing`. A page locks only what the code locks:
  `publishing` is set after the flush, a dialog can be cancelled whatever is in flight, a
  discard blocks nothing, and the page can be left or the browser tab closed at any moment.
  `call[c]` is a request: its tab, whether it is heard on the page, in the app only, or by
  nobody (`from`), the await its handler stands at, and what it carries. `shown` and `late`
  are history on a publish: the screen it was pressed on, and what earlier saves were still
  carrying then. `typed` and `forfeit` are history too: the edits made, and those given up.
- `Library`: the tables of the troubleshooting pages and the snapshot `served` from them.
  A document is the set of its branches; `Leads` is where they go from each subject the
  article is listed under. Every handler is a call whose reload reads the tables one by
  one and installs what it read. A primary key is not reused: an article is `Unborn`,
  there, or `Gone`. `forced` is history: places deleted against the warning.
- `MC*`: instances for TLC. `*_proofs`: the theorems.

The fulfilment specifications and `Lending` have two switches for the environment.
**`Overlap`** says whether two calls about one request may be in flight together.
The code has nothing that prevents it - no lock, no conditional update - so
`Overlap = FALSE` is an assumption about how people use the portal, and every result
that needs it says so. **`FailAt`** is the set of awaits at which a call may throw,
time out or die with the process. `ArticleEditor` has
only `Failures`, whether a request, its answer or a fetch may fail: its requests always
overlap. `Library` says by operation what overlaps: `Beside` is the set of
pairs of operations that may be in flight together. A throw whose cause the model holds (a unique key
already taken, a row deleted meanwhile, no stock left) is a step that is not enabled
until the cause goes away; the call then ends through `Fail`.

## 3. Runs

| Run | Instance | Question and answer |
|---|---|---|
| `asset_serial` | 2 requests, 2 calls, same inventory, failures (below) | Calls about one request take turns, two requests compete: no device before the manager's approval, COMPLETED means a device is out (both are proved with calls overlapping and failing anywhere as well, section 4), a workflow row holds only its link, at most one device, none for a rejected request, mails tell the outcome, models are not leaked, and the flow refines `RequestStatus`. |
| `asset_body_error` | 1 request, 1 call | Violation: a refusal answered 200 with an error body completes the request. |
| `asset_stranded_edit` | 1 request, 1 call | Violation: approve a standard request, edit it to non-standard; nothing can drive it. |
| `asset_catalogue` | 1 request, 1 call | Violation: the clean-up that "only ever considers models WE created" deletes a catalogue model. |
| `jobs_safety` | 2 jobs of 3 works (2 attempts, 1 attempt, no handler), 2 ticks, 2 callers, 1 crash, failing writes | One tick per job, earned outcomes, the budget, refinement of `JobOutcome`. |
| `accessory` | 2 accessory requests, 2 calls taking turns on a request, 2 records (1 stocked with 0 or 1 units), failures (below) | Quotes, selection, stock and self-procurement together: no order before the quote is settled, one unit, rejected keeps nothing, a review completes, no record is leaked, quantities are what was counted in, only a review reopens; and the client offers only what is then accepted, with a badge that matches. |
| `handover` | 1 device of any kind and route, 2 presses in flight, thresholds of 1, 2 and 3 days, 1 moved start date, 1 failed write | The ladder records what its subject was reminded of, nobody is chased early, whoever keeps the device waiting is reminded with the copy to IT at last; and again offers, guards and badge agree, in whatever order the stamps were set. |
| `lending` | 2 requests, 2 calls taking turns on a request, 1 accessory of 2 units, 2 assets, 1 serial, the desk beside | Snipe-IT agrees with the loans, completed corrections are applied, serials stay unique. |
| `ledger` | 2 device requests, 1 purchase over the threshold, 2 jobs of 2 attempts, 2 ticks, 1 crash, the writes of the runner succeed | No row is stamped without its mail, and no purchase whose log was queued is silently left out; every job ends, Completed or Failed. |
| `editor` | 1 or 2 tabs (below), 2 edits, 2 requests in flight, anything may fail | Nothing typed is lost but what was given up; Publish carries what was on the screen, but for what earlier saves still carry; no draft takes back what was published: across fresh copies under the keys, dialogs cancelled during a publication, OK pressed twice, pages left and tabs closed. |
| `editor_overtaken` | 1 tab, 2 requests, nothing fails | Violation: Publish overtakes an autosave already sent and drops the newest edit. |
| `library` | 2 subjects, 2 slugs, 2 calls, 1 article written or to be written, 1 deletion, a crash anywhere | Live branches resolve from every subject an article is listed under, whatever is published, hidden or deleted meanwhile; every article has an address; when no write is under way, readers are served what the tables hold. |

**Why these bounds.** Every race in these handlers is between two calls, or a call and
a person in Snipe-IT; two assets let a request hold one too many and let a skeleton
exist beside stock; two models separate the catalogue from what the portal created;
two requests can be linked to the same asset. For jobs, two rows give an order to
overtake, two ticks an overlap, and one crash with a budget of two reaches the attempt
a crash adds. The theorems carry the most important properties to all sizes.

`accessory` does not start two requests from scratch, which is out of reach: either one
is filed while the other is over, or both are under way and compete for the units of one
record (`MCInit`; all of these starts are states the service reaches). One top-up raises
a quantity by one; `MaxQty = 2` lets two top-ups race. In `handover` requests do not
interact but through the scan's list, which one row and a scan that outlives a press
already make stale; three different thresholds tell the stages apart, and since days are
counted only as far as the last threshold, the state space is finite with no bound on
time. In `lending` one request is yet to be filed, and the other is a loan that is out
or a report under way; with a report of an unrecorded asset the assignments are used up,
because the accessory part is covered by the other starts. Two slots are two assignments
of one user, which is what makes "the user's unit" ambiguous. In `ledger` the sync is
queued once and a job holds each handler; two rows to sync let one fail and the other not.

In `editor` two edits let one be on its way while the other is typed, in the
same tab or in the other one; `MaxClock` allows a creation and a publication, or a
publication of an article that was there, so a draft can be built before a publication and
saved after it. `OneOrTwoTabs` bounds what two tabs do: either one tab is in use and does
all it can - two saves that cross, a save and a publication, a second press, a discard - or
a second one is opened on a published article before anything is typed, and then both stay
open and type, save and publish, with failures, but discard nothing. A discard is begun
with nothing in flight; a save or a publication begun after it crosses it. The theorems
need no such bound.

In `library` the only branch leads to "y where the reader is", from an article two
subjects list, and y may exist under one of them only: that is what the gate has to look
at. The article is there from the start or is yet to be written, and one symptom may be
deleted, which is enough to leave a branch without a target and a shared article with one
address.

**Calls that take turns in `library`.** `MCBeside` lets the save of a draft overlap with
any other operation on its article, because that is what autosave does; the other
operations are an administrator's single actions and take turns. Where those overlap, the
code promises less, and the run leaves it out: every write reloads all tables and the older of two
reloads may be installed last; a draft saved between the archive's copy and the deletion
is in neither; a category that is no longer empty when it is deleted takes the new symptom
along; and an article can lose its last address between a check and its write. A crash falls anywhere; a reload that fails after its write is left out, since it
leaves an outdated snapshot until the next write.

**Failures left out of `asset_serial`.** `NotAfterCheckout` excludes failing (a)
between a checkout that landed and the write that completes the request - there the
retry does issue a second device, and rejecting the request leaves the first one out -
and (b) a crash between creating a model and its skeleton, or in the rollback, which
leaks the model. The code does not recover from either; what holds in spite of both is
proved (`ApprovedFirst`, `CompletionIsReal`).

In `accessory` the same name also excludes failing between the three writes of a review
(the request then stays where it is: no operation accepts either half), and a crash or a
lost answer between creating a record and linking or deleting it. In `lending` it
excludes failing between a checkout or a correction's write and the write that records it.

**What the properties except.** Where the code gives up a promise in one place, the
property names the place instead of hiding it: a top-up that raced another write of the
quantity (`raced`), the review of a purchase that reopens a rejected request
(`OnlyReviewReopens`), the request that was edited or whose rejection was lost so that
nothing drives it (`Stuck`), IT selecting stock for a purchase already handed off
(`AtMostOneUnit`), the record IT selected for a purchase handed off whose review then links
another one over it (`replaced` in `NoOrphanAccessories`: nothing names the first one any
more), a ladder restarted under a running scan (`torn`), a device marked
ready before anybody marked it shipped (`BadgeMatchesStep`: the requester is told to
collect it and counted as holding it up, while the route waits for it to be shipped and
offers them nothing), a check-in whose answer or stamp was lost (`lost`), an unrecorded
asset that was taken between the look at it and the checkout, and a serial that two
corrections were writing at once. Each of them happens in its run.

**Ways to lose an edit.** In `editor` the name is `forfeit`. An edit goes
there, and only if the row does not have it, when

1. it is discarded, as part of a draft or while it is pending;
2. its save fails, or is refused because the article was published since (an edit typed
   during a publication ends so if the fresh copy arrives first: it is no longer on the
   screen then);
3. another save replaces the draft that has it: of another tab, of a text shown from a
   cached copy, or of the same tab, when the older of two autosaves lands last;
4. it is saved while a publication stands between reading the draft and writing, which
   clears it, or published while a save stands between its check and its write, whose draft
   is then without it;
5. it is pending when a fresh copy is seeded over it, and the next key replaces it;
6. it is pending when the browser tab is closed or reloaded, which runs no clean-up.

`PublishCarriesNewest` also leaves out what a save carries that was sent before the press, by
the timer or by an earlier press, and is still unwritten when the publication is. A comment of the code claims more:
`DebounceLandsFirst` is that claim, without either exception. `editor_overtaken` violates it
by an autosave in flight, with nothing failing; with `Failures = TRUE` a flush that fails
does it as well, since `flush` swallows the error and Publish goes on.

A request is taken to be heard of only when its handler is done: a connection that breaks
while the service works on, so that the client goes on beside its own request, is left out.
A closed tab does leave its requests to go on by themselves (`Abandoned`).

**Deadlock** is checked in `handover`, where days always pass. Elsewhere it is not: all
requests may be finished, and all jobs done.

**Fairness.** `JobRunner!FairSpec`: the interval keeps firing while the process is up;
what a tick awaits comes back (HTTP calls have a timeout); time passes; a process that
died is started again by its supervisor. Only weak fairness is assumed, and none for
enqueue or crashes. `ledger` sets `WritesFail = FALSE`: when the write that
records a failure throws, the row stays Running until the next restart, and the code
promises nothing more. `LedgerSpec` assumes besides that what a handler awaits comes
back, well or not; a send may fail for ever. Its two steps for a failing write of the
runner and for a job with no handler are left out, as both ledgers have their handlers.
`Handover!FairSpec`: days pass, however many scans there are in one (strong fairness,
since a scan in progress holds the day up); the schedule keeps starting scans and a scan
gets to its end; a press that was made is answered. Nobody has to press anything:
`EventuallyEscalated` is about the people who do not.

`PromptClaim` names a timing assumption of the runner: a tick's read and claim are over
before the interval fires again. The claim is an unconditional update, so nothing else
keeps two ticks from claiming one job. It does not keep handlers apart: two ticks run
the handlers of two jobs side by side, whatever the comment at `jobRunner.ts:74` says of
the guard, and `ledger` runs its two handlers so.

## 4. Proofs

- `RequestStore_proofs`: what each shared handler does to the rows and the call, as
  lemmas used by `AssetFlow_proofs` and `AccessoryFlow_proofs`.
- `AssetFlow_proofs`: `TypeCorrect`; `ApprovedFirst` (`NoDeviceBeforeApproval`). The
  invariant adds that an APPROVED row carries its approval and that every call that
  stands at a checkout read such a row. It needs nothing of `Overlap` or `FailAt`,
  because the approval stamp is never taken back. `OuterLifeCycle`
  (`FollowsRequestStatus`) assumes `~Overlap`: the strengthening `Turns` says that a call
  in flight is the only one about its request and that the row still has the status the
  call read.
  What a finished request is worth:
  - `CompletionIsReal` (`CompletedHoldsDevice`), assuming `~BodyErrors`: a call that
    stands at the completing write names an asset its request holds, and devices are not
    checked in.
  - `OneDeviceEach` (`AtMostOneDevice`) and `RejectionIsClean` (`RejectedHoldsNothing`),
    assuming `~Overlap` and that no failure falls between a checkout and the completing
    write. `Owed` names the calls in that gap: a request holds a device only if it is
    completed or such a call owes it the write, and then holds exactly that one.
  - `MailsAgree` (`MailTellsOutcome`) and `StandardStaysStandard`
    (`StandardCarriesNoWorkflow`), assuming `~Overlap`: by `Shaped`, what a call read of
    the row's type and workflow is still so when it writes.
  - `WorkflowHoldsItsLink` (`WorkflowHoldsOnlyItsLink`), under the assumptions of
    `OneDeviceEach`; `LinkInv` follows the link from the selection to the checkout.
  - `ModelsAreCleanedUp` (`NoOrphanModels`), for any `Overlap`, assuming no failure
    between a model and its skeleton or in the rollback.
- `Jobs_proofs`: the queue and, on top of it, the ledgers. `JobsRunOnce`,
  `JobsOutcomeEarned`, `JobsWithinBudget` and `JobsFollowOutcome` from one inductive
  invariant, assuming `PromptClaim`: what a tick at each step knows of its job (`Grip`), no
  two ticks on one job (`Alone`), an attempt left for whoever still waits (`Budget`), and
  `Earned`. `Alone` alone is not inductive: a new tick must know that a Pending job has no
  tick. `QueueIsTyped` (`TypeOK`) needs no assumption about timing: taking a job out of `due`
  leaves a sequence of jobs, however many ticks read that job before.
  `LedgersAreJobs`: every step of the ledgers is one of the queue or none.
  `LedgersLoseNothing` (`NoRowIsLost`), assuming `PromptClaim`, rests on the queue's invariant
  and adds what a handler at each await holds (`Hold`), that a log is queued only for an
  accepted quote (`Wanted`), and that a handler that returned has stamped (`Logged`).
- `Handover_proofs`: `HandoverTypeCorrect`; `LadderIsHonest`
  (`LadderRecordsReminders`); `NobodyChasedEarly` (`NotChasedEarly`). The strengthening
  says what a scan knows of the row it stands at (`Grip`: the stage it is about to write is
  the one due in the row as read), that this row still has the stage it was read with unless
  the ladder was restarted (`Undisturbed`), and what the reminder is between the scan's two
  writes (`Ladder`). Without `Undisturbed` a scan could lower the stage.
  `DeviceClientAgrees` (`ClientAgrees`) needs types only: the current step is worked out from
  the stamps, case by case (`CurrentStepOfDevice`), and compared with the guard of its press.
- `AccessoryFlow_proofs`: `AccessoryTypeCorrect` and `StockIsCountedIn`
  (`StockIsWhatArrived`), for any `Overlap` and `FailAt`. The strengthening
  (`CurrentPatches`) is about the top-ups between their read and their write: as long as no
  two writes of a quantity raced, what each of them read is still the quantity. Types need
  that a top-up knows its accessory (`Held`).
  `FinalUntilReviewed` (`OnlyReviewReopens`) assumes `~Overlap`: `Turns`, as for hardware,
  with what a call takes for granted of the purchase beside the status.
  The outcomes, all assuming `~Overlap`:
  - `CompletedRequestHasItem` (`CompletedHasItem`), with failures anywhere. `Told` says what
    the rows of a request at each point of its story can be (`Story`), and what a call at each
    step may rely on (`Knows`).
  - `PriceBeforeOrder` (`NoOrderBeforeQuote`), `OneUnitPerRequest` (`AtMostOneUnit`),
    `RejectedHasNoUnit` (`RejectedKeepsNothing`) and `ReviewedIsCompleted`
    (`ReviewCompletesRequest`), assuming besides that no call fails at a step of `Receipted`,
    between a checkout or review and the writes it is for. `Owed` is the twin of the
    hardware's: a unit is out only for a request that is completed, or that a call owes that
    write.
  - `RecordsStayInSight` (`NoOrphanAccessories`), assuming instead that none dies at a step of
    `Custody`, where only the call knows the record it made (`Tracked`).
  - `AccessoryClientAgrees` (`ClientAgrees`), under the assumptions of `PriceBeforeOrder` and
    for accessory requests only (`OnlyAccessories`), as the run has them. `Course` and `Heeds`
    bound how far the three rows of a request may be from each other; `Plausible` lists the
    views that are left, `RouteOfAccessory` works out the route of each and `FirstOpenStep`
    its current step, which is then compared with the guards.
- `Lending_proofs`: `LendingTypeCorrect`, `CorrectionsAreApplied`
  (`CompletedCorrectionIsApplied`) and `NoSerialTwice` (`SerialsStayUnique`), for any
  `Overlap` and `FailAt`. `Knows` is what a call at each step knows: at the completing write
  its correction is applied, which no other call can undo; at the write of a serial nobody
  else has it, or it is raced.
  `SnipeAgrees` (`SnipeAgreesWithLoans`) assumes `~Overlap` and no failure between the checkout
  of a loan and the write that records it - less than the run, which excludes one for
  corrections too. Its invariant `Ledger` is the balance of the property with what keeps it:
  what a call relies on of its loan and of the assignment it found (`Minds`), and that a loan
  not yet assigned has no unit (`Unlent`). Each step changes each of the four counts of one
  user and accessory by at most one, and both sides of the balance alike (`Even`).
- `Library_proofs`: `LibraryIsTyped` (`TypeOK`), whatever overlaps. `ArticlesStayListed`
  (`EveryArticleIsListed`) assumes `CreationsApart`: no article is created beside the deletion
  of a symptom, no symptom beside that of a category. It needs that a place has at most one
  article (`Single`), which the unique key of the memberships keeps. `BranchesResolve`
  (`LiveBranchesResolve`) assumes `DeletionsAlone`: nothing but draft saves beside the deletion
  of a symptom. The snapshot the gate looks at knows no symptom that is gone, unless its
  deletion is just being loaded (`Fresh`), and what passed the gate still resolves when it is
  written, or its target was deleted against the warning (`Vetted`).
  `ReadersAreServedTheLibrary` (`ServedIsLibrary`) assumes `OnlyDraftsOverlap`: a table a
  reload has read is then still the same when it is installed (`ReadsCurrent`). `MCBeside`
  satisfies all three hypotheses.
- `ArticleEditor_proofs`, with no assumption about failures, overlap or what people do.
  `EditorIsTyped` (`TypeOK`): a stamp is left for every request that is to write one
  (`Budget`), a request is at an await its operation has, and the page that hears of it is
  shown (`Flow`), and a page with a text has the copy it came from (`Desk`).
  `DraftsBuildOnPublished` (`DraftBuildsOnPublished`): every copy, in a cache, in a fetch or in
  a handler's variable, has the body of the row as long as it has its stamp (`Faithful`); every
  text, on a screen, pending or in a save, has what was published under the stamp it is or will
  be sent with (`Grounded`); and no step takes from the row what it does not put in `forfeit`
  (`Onward`). `Grounded` has to reach texts on screen: they become the next save.
  `TypedIsNotLost` (`NothingTypedIsLost`) and `PublicationsCarryNewest`
  (`PublishCarriesNewest`) from `Held`: every edit is in the row, given up, carried or pending;
  what is on a screen is in the row, given up, carried or pending in its own tab (`OnScreen`);
  and what a publication was pressed on is in the row, given up, carried by its own flush, or by
  a save sent before the press (`Owed`). `OnScreen` is what `Owed` starts from: at the press the
  screen is not compared with anything, and only what is pending is flushed.

The assumptions on the constants are `StoreAssumption`, `AssetAssumption`,
`JobAssumption`, `AccessoryAssumption`, `HandoverAssumption`, `LendingAssumption`,
`LedgerAssumption`, `EditorAssumption`, `LibraryAssumption` and `SeedsAssumption` (what a
fresh database is filled with is a library `content.test.ts` accepts); TLC evaluates each in
a run. `EditorAssumption` and `LibraryAssumption` also say what a model value has by itself,
that `None` is no document and no category.

The type invariants of `AssetFlow`, `AccessoryFlow`, `Handover` and `Lending` and
`StandardCarriesNoWorkflow` are proved and not run: a theorem for all sizes leaves a run
nothing to show. Every invariant and every action property of a passing run is proved, and
`FollowsRequestStatus` and `FollowsJobOutcome` too. Only model-checked: the liveness
properties (`EveryJobEnds`, `EventuallyEscalated`), which are out of the
prover's reach. A theorem that assumes `~Overlap`, or a set of steps where nothing fails, is
about the same use of the portal as its run; section 3 says what happens without.

## 5. What is left

1. Proofs: `ClientAgrees` of `AccessoryFlow` for instances that have devices as well as
   accessories; which of the results survive overlapping calls about one request.
2. The loan ladder (`remindLoanReturns.ts`) beside that of `Handover`, the booking window,
   and the day arithmetic of due dates (the client goes by the viewer's calendar day, the
   service by the UTC day).
3. Progress of a request under assumptions about its people, with the notification jobs
   joined to the runner.
4. Progress in the editor: that the timer fires and every edit that is not given up reaches
   the row at last. `NothingTypedIsLost` says that until then it is pending or in a request.
5. The pure rules of backoff and sibling choice against reference definitions.

## 6. Not modelled

The map covers a small share of the repository's lines because most of them hold no
state of this system: React components and styles, authored content, mail templates, and a settings store of single-key reads and upserts. What follows is
left out on purpose.

- Wording, recipients and layout of mails; the edit log and field-level validation.
- Sessions: how a person comes by a name, an address and roles. `Access` starts from the
  roles.
- Settings, whose values are left open or fixed by constants; the two ledger switches are
  taken to be on.
- Caches and the location back-fill: each overwrites a table with what Snipe-IT answers.
- Troubleshooting: the text of an article, its images and their files, the checks of prose
  links and tokens, labels, the order of categories and symptoms, the export to source
  modules and the development reseed.
- Support messages, tours, feedback and analytics: a mail that is queued, a flag per
  person, counters.
- Inbound integration routes: thin adapters over operations that are modelled.
- The purge of old job rows, by age and count: it deletes only finished ones.
- Loans: the booking window (checked when a loan is filed; clashes are shown and bind
  nobody) and the due-back reminders.
- Which of several available assets is picked (any one of them is); the stored quote
  document; the model a WRONG_MODEL correction is moved to.
- The components of the web client. A person is taken to press, at any time, whatever button
  the client shows and leaves enabled; in `ArticleEditor`, which models the dialogs and the
  locks of the page, that includes Cancel and the keys while a request is in flight.
