------------------------------- MODULE Handover -------------------------------
(* From the checkout to the requester's hands: the shipped, ready and received
   stamps, the new starter's start date (src/backend/src/services/request.ts),
   and the daily scan that climbs the reminder ladder of every device somebody is
   waiting for (jobs/handlers/remindShippedRequests.ts).  The rows here are
   COMPLETED: stock has been checked out for them.

   Time is kept relative: `since` counts the days since the latest handover
   stamp, `start` the days until the start date (negative once it is past), so
   that time itself needs no bound.                                          *)
EXTENDS Integers, FiniteSets, Route

CONSTANTS
    Requests,     \* completed requests
    Presses,      \* presses of a button that may be in flight at once
    D1, D2, D3,   \* reminder_days_1..3, in days
    Ahead,        \* bound: how many days ahead a start date is set
    MaxMoves,     \* bound: how often the start date of a request is moved
    MaxFails,     \* bound: how many writes of the scan fail
    None

ASSUME HandoverAssumption ==
    /\ {D1, D2, D3} \subseteq Nat \ {0} /\ D1 < D2 /\ D2 < D3
    /\ {Ahead, MaxMoves, MaxFails} \subseteq Nat
    /\ None \notin Requests \cup Int

VARIABLES
    dev,      \* the columns of the requests the handover is about
    press,    \* the handlers of the buttons, between their read and their write
    scan,     \* the run of the reminder job
    told,     \* the highest stage the ladder's present subject has a reminder queued for
    torn,     \* did the ladder's last restart land in a scan that had read the row?
    moves,    \* how often the start date was moved
    fails     \* how many writes of the scan failed

vars == <<dev, press, scan, told, torn, moves, fails>>

NoPress == [at |-> "idle", req |-> None, start |-> None]
NoScan == [at |-> "idle", todo |-> {}, req |-> None, due |-> 0, rows |-> <<>>]

\* A start date D3 days past is as good as an older one, or as none.
StartDates == {None} \cup (-D3..Ahead)

\* legacy: shipped before the portal had stock keepers.
Devices == [kind : {"ASSET", "LOAN"}, needsShipping : BOOLEAN, legacy : BOOLEAN,
            shipped : BOOLEAN, ready : BOOLEAN, received : BOOLEAN,
            stage : 0..3, since : 0..D3, start : StartDates]

Init ==
    /\ dev \in [Requests -> {d \in Devices :
                  /\ ~d.ready /\ ~d.received /\ d.stage = 0 /\ d.since = 0
                  /\ d.start \in {None, Ahead}
                  /\ d.kind = "LOAN" => d.start = None
                  /\ d.shipped = d.legacy
                  /\ d.legacy => d.needsShipping}]
    /\ press = [p \in Presses |-> NoPress]
    /\ scan = NoScan
    /\ told = [r \in Requests |-> 0]
    /\ torn = [r \in Requests |-> FALSE]
    /\ moves = [r \in Requests |-> 0]
    /\ fails = 0

(***************************************************************************)
(* The buttons.  A press reads the row and checks; the row is written when *)
(* the write comes back, whatever has become of it.                        *)
(***************************************************************************)
CanShip(d) == d.needsShipping /\ ~d.shipped
CanMarkReady(d) == ~d.ready /\ ~d.received

\* A shipment that left before the stock keepers is received without them, until
\* one of them marks it ready after all.
IsLegacyShipment(d) == d.needsShipping /\ d.shipped /\ d.legacy /\ ~d.ready

CanReceive(d) == ~d.received /\ (d.ready \/ IsLegacyShipment(d))

Guard(step, d) ==
    CASE step = "shipped"  -> CanShip(d)
      [] step = "ready"    -> CanMarkReady(d)
      [] step = "received" -> CanReceive(d)

\* Is the row in the hands of a scan, which read it before now?
InScan(r) == scan.at # "idle" /\ r \in scan.todo \cup {scan.req}

\* A write by anybody but the scan.  One that restarts the ladder while a scan
\* works from the row as it was tears the two apart.
Write(r, d, restarts) ==
    /\ dev' = [dev EXCEPT ![r] = d]
    /\ told' = IF restarts THEN [told EXCEPT ![r] = 0] ELSE told
    /\ torn' = IF restarts THEN [torn EXCEPT ![r] = InScan(r)] ELSE torn

Press(p, r, step) ==
    /\ press[p].at = "idle"
    /\ Guard(step, dev[r])
    /\ press' = [press EXCEPT ![p] = [NoPress EXCEPT !.at = step, !.req = r]]
    /\ UNCHANGED <<dev, scan, told, torn, moves, fails>>

Done(p) == press' = [press EXCEPT ![p] = NoPress]

\* The stamp starts the clock of the keeper it is sent to, unless the device was
\* marked ready already.
MarkShipped(p) ==
    LET r == press[p].req IN
    /\ press[p].at = "shipped"
    /\ Write(r, [dev[r] EXCEPT !.shipped = TRUE, !.legacy = FALSE,
                               !.since = IF dev[r].ready THEN @ ELSE 0], FALSE)
    /\ Done(p)
    /\ UNCHANGED <<scan, moves, fails>>

\* Mutant: the requester inherits the keeper's place on the ladder.
MarkReadyKeepingStage(p) ==
    LET r == press[p].req IN
    /\ press[p].at = "ready"
    /\ Write(r, [dev[r] EXCEPT !.ready = TRUE, !.since = 0], TRUE)
    /\ Done(p)
    /\ UNCHANGED <<scan, moves, fails>>

MarkReady(p) ==
    LET r == press[p].req IN
    /\ press[p].at = "ready"
    /\ Write(r, [dev[r] EXCEPT !.ready = TRUE, !.since = 0, !.stage = 0], TRUE)
    /\ Done(p)
    /\ UNCHANGED <<scan, moves, fails>>

MarkReceived(p) ==
    LET r == press[p].req IN
    /\ press[p].at = "received"
    /\ Write(r, [dev[r] EXCEPT !.received = TRUE], FALSE)
    /\ Done(p)
    /\ UNCHANGED <<scan, moves, fails>>

\* Setting a start date that lies ahead restarts the ladder.
MoveStart(p, r, start) ==
    /\ press[p].at = "idle"
    /\ dev[r].kind # "LOAN" /\ start # dev[r].start
    /\ moves[r] < MaxMoves
    /\ moves' = [moves EXCEPT ![r] = @ + 1]
    /\ press' = [press EXCEPT ![p] = [at |-> "start", req |-> r, start |-> start]]
    /\ UNCHANGED <<dev, scan, told, torn, fails>>

SaveStart(p) ==
    LET r == press[p].req
        start == press[p].start
        restarts == start # None /\ start > 0
    IN  /\ press[p].at = "start"
        /\ Write(r, [dev[r] EXCEPT !.start = start,
                                   !.stage = IF restarts THEN 0 ELSE @], restarts)
        /\ Done(p)
        /\ UNCHANGED <<scan, moves, fails>>

(***************************************************************************)
(* The scan.                                                               *)
(***************************************************************************)
\* Somebody is on the hook for the device: the requester, the keeper it was sent
\* to, or the keeper of the shelf it is on.
AwaitsReceipt(d) == ~d.received /\ (d.ready \/ d.shipped \/ ~d.needsShipping)

\* Mutant: the handover alone starts the clock.
DaysWaitedFromHandover(d) == d.since

\* reminderClockStart: the latest handover stamp, but never before the start date.
DaysWaited(d) == IF d.start = None \/ -d.start >= d.since THEN d.since ELSE -d.start

IsHeldForStartDate(d) == d.start # None /\ d.start > 0

DueStage(d) ==
    LET days == DaysWaited(d) IN
    IF days >= D3 THEN 3 ELSE IF days >= D2 THEN 2 ELSE IF days >= D1 THEN 1 ELSE 0

Due(d) == ~IsHeldForStartDate(d) /\ DueStage(d) > d.stage

StartScan ==
    /\ scan.at = "idle"
    /\ scan' = [NoScan EXCEPT !.at = "next", !.rows = dev,
                              !.todo = {r \in Requests : AwaitsReceipt(dev[r])}]
    /\ UNCHANGED <<dev, press, told, torn, moves, fails>>

\* The next row of the list as it was read; the scan is over after the last.
ScanNext(r) ==
    /\ scan.at = "next" /\ r \in scan.todo
    /\ scan' = IF Due(scan.rows[r])
               THEN [scan EXCEPT !.at = "enqueue", !.req = r, !.todo = @ \ {r},
                                 !.due = DueStage(scan.rows[r])]
               ELSE [scan EXCEPT !.todo = @ \ {r}]
    /\ UNCHANGED <<dev, press, told, torn, moves, fails>>

ScanEnds ==
    /\ scan.at = "next" /\ scan.todo = {}
    /\ scan' = NoScan
    /\ UNCHANGED <<dev, press, told, torn, moves, fails>>

\* A job for the mail, of which the job runner takes care.
EnqueueReminder ==
    LET r == scan.req IN
    /\ scan.at = "enqueue"
    /\ told' = [told EXCEPT ![r] = IF scan.due > @ THEN scan.due ELSE @]
    /\ scan' = [scan EXCEPT !.at = "stage"]
    /\ UNCHANGED <<dev, press, torn, moves, fails>>

\* Mutant: one stage at a time, whatever was due.
SetReminderStageNext ==
    /\ scan.at = "stage"
    /\ dev' = [dev EXCEPT ![scan.req].stage = IF @ < 3 THEN @ + 1 ELSE 3]
    /\ scan' = [scan EXCEPT !.at = "next", !.req = None, !.due = 0]
    /\ UNCHANGED <<press, told, torn, moves, fails>>

SetReminderStage ==
    /\ scan.at = "stage"
    /\ dev' = [dev EXCEPT ![scan.req].stage = scan.due]
    /\ scan' = [scan EXCEPT !.at = "next", !.req = None, !.due = 0]
    /\ UNCHANGED <<press, told, torn, moves, fails>>

\* Either write throws: noted in the summary, and on to the next row.
ScanWriteFails ==
    /\ scan.at \in {"enqueue", "stage"}
    /\ fails < MaxFails
    /\ fails' = fails + 1
    /\ scan' = [scan EXCEPT !.at = "next", !.req = None, !.due = 0]
    /\ UNCHANGED <<dev, press, told, torn, moves>>

(***************************************************************************)
(* A day passes.  A scan is over within the day it was started, and what a *)
(* person pressed has been answered.                                       *)
(***************************************************************************)
Tick(d) ==
    [d EXCEPT !.since = IF @ < D3 THEN @ + 1 ELSE D3,
              !.start = IF @ = None THEN None ELSE IF @ > -D3 THEN @ - 1 ELSE -D3]

Day ==
    /\ scan.at = "idle"
    /\ \A p \in Presses : press[p].at = "idle"
    /\ dev' = [r \in Requests |-> Tick(dev[r])]
    /\ UNCHANGED <<press, scan, told, torn, moves, fails>>

PressStep ==
    \E p \in Presses :
        \/ \E r \in Requests :
              \/ \E step \in {"shipped", "ready", "received"} : Press(p, r, step)
              \/ \E start \in {None} \cup 0..Ahead : MoveStart(p, r, start)
        \/ MarkShipped(p)
        \/ MarkReady(p)
        \/ MarkReceived(p)
        \/ SaveStart(p)

ScanStep ==
    \/ \E r \in Requests : ScanNext(r)
    \/ ScanEnds
    \/ EnqueueReminder
    \/ SetReminderStage
    \/ ScanWriteFails

Next ==
    \/ PressStep
    \/ StartScan
    \/ ScanStep
    \/ Day

Spec == Init /\ [][Next]_vars

\* Days go by, however many scans there are in one; the schedule keeps starting
\* them, a scan gets to its end, and what somebody pressed is answered.  Nobody
\* has to press anything.
FairSpec ==
    /\ Spec
    /\ SF_vars(Day)
    /\ WF_vars(StartScan)
    /\ WF_vars(ScanStep)
    /\ WF_vars(\E p \in Presses : MarkShipped(p) \/ MarkReady(p)
                                 \/ MarkReceived(p) \/ SaveStart(p))

TypeOK ==
    /\ dev \in [Requests -> Devices]
    /\ press \in [Presses -> [at : {"idle", "shipped", "ready", "received", "start"},
                              req : Requests \cup {None}, start : StartDates]]
    /\ scan.at \in {"idle", "next", "enqueue", "stage"}
    /\ scan.todo \subseteq Requests
    /\ scan.req \in Requests \cup {None}
    /\ scan.due \in 0..3
    /\ told \in [Requests -> 0..3]
    /\ torn \in [Requests -> BOOLEAN]
    /\ moves \in [Requests -> 0..MaxMoves]
    /\ fails \in 0..MaxFails

(***************************************************************************)
(* Properties.                                                             *)
(***************************************************************************)
\* "Carrying the keeper's progress across meant the requester's early nudges were
\* swallowed by a stage somebody else had already advanced", and "a daily run
\* never re-sends": the stage on the row is the highest its present subject was
\* reminded of, but for a scan between its two writes, or one that lost the
\* second; and but for a restart that lands inside a scan.
LadderRecordsReminders ==
    \A r \in Requests : ~torn[r] =>
        /\ dev[r].stage <= told[r]
        /\ fails = 0 /\ scan.req # r => dev[r].stage = told[r]

\* The days after which a subject is reminded of a stage.
Threshold == <<D1, D2, D3>>

\* "A new starter's device is not late before they arrive", nor is a requester
\* for the days the keeper took: a reminder that goes out is one its subject has
\* had the device, and been here, long enough for.  A start date or a stamp
\* written since the scan read the row comes too late for it.
NotChasedEarly ==
    [][\A r \in Requests :
          told'[r] > told[r] /\ scan.rows[r] = dev[r] =>
             /\ dev[r].since >= Threshold[told'[r]]
             /\ dev[r].start # None => -dev[r].start >= Threshold[told'[r]]]_vars

\* Whoever keeps a device waiting is reminded at last with the copy to IT, over
\* failed writes and moved dates, whichever of the three parties it is; unless a
\* scan wrote the stage of the one before over the restart of the ladder.
EventuallyEscalated ==
    \A r \in Requests :
        <>[](/\ ~dev[r].received
             /\ dev[r].needsShipping => dev[r].shipped \/ dev[r].ready
             => told[r] = 3 \/ torn[r])

View(d) ==
    [FreshView EXCEPT
        !.kind = d.kind, !.status = "COMPLETED", !.approved = TRUE, !.signedOff = TRUE,
        !.linked = TRUE, !.needsShipping = d.needsShipping, !.legacy = IsLegacyShipment(d),
        !.shipped = d.shipped, !.ready = d.ready, !.received = d.received]

Accepts(d, step) ==
    CASE step = "ship"               -> CanShip(d)
      [] step \in {"arrive", "prep"} -> CanMarkReady(d)
      [] step \in {"collect", "receive", "lcollect", "lreceive"} -> CanReceive(d)
      [] OTHER                       -> FALSE

WithSomebody(r) == ~dev[r].received /\ \A p \in Presses : press[p].req # r

\* "so the UI never offers what the API would refuse", to nobody whom it offers
\* the step, in whatever order the stamps were set, two of them at once included.
OfferedStepIsAccepted ==
    \A r \in Requests :
        WithSomebody(r) => /\ Accepts(dev[r], CurrentStep(View(dev[r])))
                           /\ OnlyOfferedWhereAdmitted(View(dev[r]))

\* The badge is that of the step the route names, and whoever is counted as
\* holding it up is offered that step; unless the device was marked ready before
\* anybody marked it shipped, when the requester is told to collect it and the
\* route still waits for it to be shipped.
BadgeMatchesStep ==
    \A r \in Requests :
        WithSomebody(r) /\ (dev[r].needsShipping /\ dev[r].ready => dev[r].shipped)
            => Agree(View(dev[r]))

\* What the client shows of a device on its way is true of the service.
ClientAgrees == OfferedStepIsAccepted /\ BadgeMatchesStep
=============================================================================
