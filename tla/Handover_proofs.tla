---------------------------- MODULE Handover_proofs ---------------------------
(* Proofs about Handover: for any number of requests, presses, days, moved dates
   and failed writes the ladder records what its subject was reminded of, and
   nobody is reminded before their time.                                      *)
EXTENDS Handover, TLAPS

ScanStates == [at : {"idle", "next", "enqueue", "stage"}, todo : SUBSET Requests,
               req : Requests \cup {None}, due : 0..3,
               rows : {<<>>} \cup [Requests -> Devices]]
PressStates == [at : {"idle", "shipped", "ready", "received", "start"},
                req : Requests \cup {None}, start : StartDates]

Typed ==
    /\ dev \in [Requests -> Devices]
    /\ press \in [Presses -> PressStates]
    /\ \A p \in Presses : press[p].at # "idle" => press[p].req \in Requests
    /\ scan \in ScanStates
    /\ told \in [Requests -> 0..3]
    /\ torn \in [Requests -> BOOLEAN]
    /\ moves \in [Requests -> 0..MaxMoves]
    /\ fails \in 0..MaxFails

\* What a scan knows of the row it stands at, and of those to come.
AtRow == scan.at \in {"enqueue", "stage"}
Grip ==
    /\ scan.at # "idle" => scan.rows \in [Requests -> Devices]
    /\ ~AtRow => scan.req = None
    /\ AtRow =>
          /\ scan.req \in Requests \ scan.todo
          /\ Due(scan.rows[scan.req])
          /\ scan.due = DueStage(scan.rows[scan.req])

\* The stage as the scan read it is the stage of the row, unless the ladder was
\* restarted since.
Undisturbed ==
    \A r \in Requests : ~torn[r] /\ InScan(r) => scan.rows[r].stage = dev[r].stage

BetweenWrites(r) == scan.at = "stage" /\ scan.req = r

Ladder ==
    \A r \in Requests : ~torn[r] =>
        /\ dev[r].stage <= told[r]
        /\ BetweenWrites(r) => scan.due <= told[r]
        /\ fails = 0 => told[r] = IF BetweenWrites(r) THEN scan.due ELSE dev[r].stage

HandoverInv == Typed /\ Grip /\ Undisturbed /\ Ladder

\* The bounds of the data, for the arithmetic below.
LEMMA Bounds ==
    /\ D1 \in Nat /\ D2 \in Nat /\ D3 \in Nat /\ 0 < D1 /\ D1 < D2 /\ D2 < D3
    /\ Ahead \in Nat /\ MaxMoves \in Nat /\ MaxFails \in Nat
    /\ None \notin Requests /\ None \notin Int
    /\ None \in StartDates /\ 0..Ahead \subseteq StartDates
BY HandoverAssumption DEF StartDates

LEMMA HandoverInit == Init => HandoverInv
<1> SUFFICES ASSUME Init PROVE HandoverInv
  OBVIOUS
<1>1. Typed
  BY Bounds DEF Init, Typed, NoPress, PressStates, NoScan, ScanStates
<1>2. Grip
  BY DEF Init, Grip, AtRow, NoScan
<1>3. Undisturbed /\ Ladder
  BY Bounds DEF Init, Undisturbed, InScan, Ladder, BetweenWrites, NoScan, Devices
<1> QED BY <1>1, <1>2, <1>3 DEF HandoverInv

\* What the buttons make of a row.
LEMMA RowsStayRows ==
    ASSUME NEW d \in Devices, NEW start \in StartDates
    PROVE  /\ [d EXCEPT !.shipped = TRUE, !.legacy = FALSE,
                        !.since = IF d.ready THEN @ ELSE 0] \in Devices
           /\ [d EXCEPT !.ready = TRUE, !.since = 0, !.stage = 0] \in Devices
           /\ [d EXCEPT !.received = TRUE] \in Devices
           /\ [d EXCEPT !.start = start] \in Devices
           /\ [d EXCEPT !.start = start, !.stage = 0] \in Devices
<1>1. 0 \in 0..D3 /\ 0 \in 0..3
  BY Bounds
<1> QED BY <1>1 DEF Devices

\* A write by anybody but the scan keeps the ladder in order.
LEMMA WriteKeeps ==
    ASSUME HandoverInv, NEW r \in Requests, NEW d \in Devices, NEW restarts \in BOOLEAN,
           Write(r, d, restarts), UNCHANGED <<scan, moves, fails>>,
           press' \in [Presses -> PressStates],
           \A p \in Presses : press'[p].at # "idle" => press'[p].req \in Requests,
           d.stage = IF restarts THEN 0 ELSE dev[r].stage
    PROVE  HandoverInv'
<1>1. /\ dev' \in [Requests -> Devices] /\ dev'[r] = d
      /\ \A s \in Requests \ {r} : dev'[s] = dev[s] /\ told'[s] = told[s] /\ torn'[s] = torn[s]
      /\ told' \in [Requests -> 0..3] /\ torn' \in [Requests -> BOOLEAN]
      /\ IF restarts THEN told'[r] = 0 /\ torn'[r] = InScan(r)
         ELSE told'[r] = told[r] /\ torn'[r] = torn[r]
  BY DEF HandoverInv, Typed, Write, InScan
<1>2. Typed' /\ Grip'
  BY <1>1 DEF HandoverInv, Typed, Grip, AtRow
<1>3. Undisturbed'
  BY <1>1 DEF HandoverInv, Undisturbed, InScan
<1>4. Ladder'
  <2>1. restarts /\ ~torn'[r] => ~BetweenWrites(r)
    BY <1>1 DEF InScan, BetweenWrites
  <2>2. \A s \in Requests : BetweenWrites(s)' = BetweenWrites(s)
    BY DEF BetweenWrites
  <2> QED BY <1>1, <2>1, <2>2 DEF HandoverInv, Ladder, Typed, Devices
<1> QED BY <1>2, <1>3, <1>4 DEF HandoverInv

LEMMA PressKeeps == HandoverInv /\ PressStep => HandoverInv'
<1> SUFFICES ASSUME HandoverInv, PressStep PROVE HandoverInv'
  OBVIOUS
<1>1. PICK p \in Presses :
        \/ \E r \in Requests :
              \/ \E step \in {"shipped", "ready", "received"} : Press(p, r, step)
              \/ \E start \in {None} \cup 0..Ahead : MoveStart(p, r, start)
        \/ MarkShipped(p) \/ MarkReady(p) \/ MarkReceived(p) \/ SaveStart(p)
  BY DEF PressStep
<1>2. /\ dev \in [Requests -> Devices] /\ press \in [Presses -> PressStates]
      /\ \A q \in Presses : press[q].at # "idle" => press[q].req \in Requests
      /\ press[p] \in PressStates
  BY DEF HandoverInv, Typed
<1>3. NoPress \in PressStates /\ NoPress.at = "idle"
  BY Bounds DEF NoPress, PressStates
<1>4. ASSUME Done(p)
      PROVE  /\ press' \in [Presses -> PressStates]
             /\ \A q \in Presses : press'[q].at # "idle" => press'[q].req \in Requests
  BY <1>2, <1>3, <1>4 DEF Done
<1>5. CASE \E r \in Requests : \E step \in {"shipped", "ready", "received"} : Press(p, r, step)
  <2>1. PICK r \in Requests, step \in {"shipped", "ready", "received"} : Press(p, r, step)
    BY <1>5
  <2> DEFINE new == [NoPress EXCEPT !.at = step, !.req = r]
  <2>2. new \in PressStates /\ new.req = r
    BY <1>3 DEF PressStates
  <2>3. Typed'
    BY <1>2, <2>1, <2>2 DEF HandoverInv, Typed, Press
  <2> QED BY <2>1, <2>3
      DEF HandoverInv, Press, Grip, AtRow, Undisturbed, InScan, Ladder, BetweenWrites
<1>6. CASE \E r \in Requests : \E start \in {None} \cup 0..Ahead : MoveStart(p, r, start)
  <2>1. PICK r \in Requests, start \in {None} \cup 0..Ahead : MoveStart(p, r, start)
    BY <1>6
  <2>2. Typed'
    <3>1. moves' \in [Requests -> 0..MaxMoves]
      BY <2>1, Bounds DEF HandoverInv, Typed, MoveStart
    <3> QED BY <1>2, <2>1, <3>1, Bounds DEF HandoverInv, Typed, MoveStart, PressStates
  <2> QED BY <2>1, <2>2
      DEF HandoverInv, MoveStart, Grip, AtRow, Undisturbed, InScan, Ladder, BetweenWrites
<1>7. CASE MarkShipped(p)
  <2> DEFINE r == press[p].req
             d == [dev[r] EXCEPT !.shipped = TRUE, !.legacy = FALSE,
                                 !.since = IF dev[r].ready THEN @ ELSE 0]
  <2>1. r \in Requests /\ Write(r, d, FALSE) /\ Done(p) /\ UNCHANGED <<scan, moves, fails>>
    BY <1>2, <1>7 DEF MarkShipped
  <2>2. dev[r] \in Devices
    BY <1>2, <2>1
  <2>3. d \in Devices
    BY <2>2, Bounds, RowsStayRows
  <2>4. d.stage = dev[r].stage
    BY <2>2 DEF Devices
  <2> HIDE DEF d
  <2> QED BY <1>4, <2>1, <2>3, <2>4, WriteKeeps
<1>8. CASE MarkReady(p)
  <2> DEFINE r == press[p].req
             d == [dev[r] EXCEPT !.ready = TRUE, !.since = 0, !.stage = 0]
  <2>1. r \in Requests /\ Write(r, d, TRUE) /\ Done(p) /\ UNCHANGED <<scan, moves, fails>>
    BY <1>2, <1>8 DEF MarkReady
  <2>2. dev[r] \in Devices
    BY <1>2, <2>1
  <2>3. d \in Devices
    BY <2>2, Bounds, RowsStayRows
  <2>4. d.stage = 0
    BY <2>2 DEF Devices
  <2> HIDE DEF d
  <2> QED BY <1>4, <2>1, <2>3, <2>4, WriteKeeps
<1>9. CASE MarkReceived(p)
  <2> DEFINE r == press[p].req
             d == [dev[r] EXCEPT !.received = TRUE]
  <2>1. r \in Requests /\ Write(r, d, FALSE) /\ Done(p) /\ UNCHANGED <<scan, moves, fails>>
    BY <1>2, <1>9 DEF MarkReceived
  <2>2. dev[r] \in Devices
    BY <1>2, <2>1
  <2>3. d \in Devices
    BY <2>2, Bounds, RowsStayRows
  <2>4. d.stage = dev[r].stage
    BY <2>2 DEF Devices
  <2> HIDE DEF d
  <2> QED BY <1>4, <2>1, <2>3, <2>4, WriteKeeps
<1>10. CASE SaveStart(p)
  <2> DEFINE r == press[p].req
             start == press[p].start
             restarts == start # None /\ start > 0
             d == [dev[r] EXCEPT !.start = start, !.stage = IF restarts THEN 0 ELSE @]
  <2>1. r \in Requests /\ Write(r, d, restarts) /\ Done(p) /\ UNCHANGED <<scan, moves, fails>>
    BY <1>2, <1>10 DEF SaveStart
  <2>2. start \in StartDates
    BY <1>2 DEF PressStates
  <2>3. restarts \in BOOLEAN
    BY DEF restarts
  <2> HIDE DEF restarts
  <2>4. dev[r] \in Devices
    BY <1>2, <2>1
  <2>5. d \in Devices /\ d.stage = IF restarts THEN 0 ELSE dev[r].stage
    <3>1. d = IF restarts THEN [dev[r] EXCEPT !.start = start, !.stage = 0]
                          ELSE [dev[r] EXCEPT !.start = start]
      BY <2>4 DEF Devices
    <3>2. d.stage = IF restarts THEN 0 ELSE dev[r].stage
      BY <2>4 DEF Devices
    <3> QED BY <2>2, <2>4, <3>1, <3>2, RowsStayRows
  <2> HIDE DEF d
  <2> QED BY <1>4, <2>1, <2>3, <2>5, WriteKeeps
<1> QED BY <1>1, <1>5, <1>6, <1>7, <1>8, <1>9, <1>10

LEMMA ScanKeeps == HandoverInv /\ (StartScan \/ ScanStep) => HandoverInv'
<1> SUFFICES ASSUME HandoverInv, StartScan \/ ScanStep PROVE HandoverInv'
  OBVIOUS
<1>1. /\ dev \in [Requests -> Devices] /\ scan \in ScanStates
      /\ told \in [Requests -> 0..3] /\ fails \in 0..MaxFails
      /\ scan.todo \subseteq Requests
  BY DEF HandoverInv, Typed, ScanStates
<1>2. \A r \in Requests : dev[r].stage \in 0..3
  BY <1>1 DEF Devices
<1>3. NoScan \in ScanStates
  BY Bounds DEF NoScan, ScanStates
<1> DEFINE next == [scan EXCEPT !.at = "next", !.req = None, !.due = 0]
<1>0. /\ next.at = "next" /\ next.rows = scan.rows /\ next.todo = scan.todo
      /\ next.req = None /\ next \in ScanStates
  <2>1. 0 \in 0..3
    OBVIOUS
  <2> QED BY <1>1, <2>1 DEF ScanStates
<1>4. ASSUME UNCHANGED <<dev, press, told, torn, moves>>, fails' \in 0..MaxFails,
             scan' \in ScanStates
      PROVE  Typed'
  BY <1>4 DEF HandoverInv, Typed
<1>5. CASE StartScan
  <2>1. /\ scan'.at = "next" /\ scan'.req = None /\ scan'.rows = dev
        /\ scan' \in ScanStates /\ ~AtRow /\ scan.at = "idle"
    BY <1>1, <1>3, <1>5 DEF StartScan, NoScan, ScanStates, AtRow
  <2>2. Typed' /\ Grip'
    BY <1>1, <1>4, <1>5, <2>1 DEF HandoverInv, Typed, StartScan, Grip, AtRow
  <2> QED BY <1>5, <2>1, <2>2
      DEF HandoverInv, StartScan, Undisturbed, Ladder, BetweenWrites, AtRow
<1>6. CASE \E r \in Requests : ScanNext(r)
  <2>1. PICK r \in Requests : ScanNext(r)
    BY <1>6
  <2>2. scan.rows \in [Requests -> Devices] /\ scan.req = None /\ r \in scan.todo
    BY <2>1 DEF HandoverInv, Grip, AtRow, ScanNext
  <2>3. DueStage(scan.rows[r]) \in 0..3
    BY DEF DueStage
  <2>4. scan' \in ScanStates
    BY <1>1, <2>1, <2>3 DEF ScanNext, ScanStates
  <2>5. /\ scan'.rows = scan.rows /\ scan'.todo = scan.todo \ {r}
        /\ IF Due(scan.rows[r])
           THEN scan'.at = "enqueue" /\ scan'.req = r /\ scan'.due = DueStage(scan.rows[r])
           ELSE scan'.at = "next" /\ scan'.req = None
    BY <1>1, <2>1, <2>2 DEF ScanNext, ScanStates
  <2>6. Typed' /\ Grip'
    BY <1>4, <2>1, <2>2, <2>4, <2>5 DEF HandoverInv, Typed, ScanNext, Grip, AtRow
  <2> QED BY <2>1, <2>2, <2>5, <2>6
      DEF HandoverInv, ScanNext, Undisturbed, InScan, Ladder, BetweenWrites
<1>7. CASE ScanEnds
  <2>1. scan' = NoScan /\ scan'.at = "idle" /\ scan'.req = None /\ scan.at = "next"
    BY <1>7 DEF ScanEnds, NoScan
  <2>2. Typed' /\ Grip'
    BY <1>3, <1>4, <1>7, <2>1 DEF HandoverInv, Typed, ScanEnds, Grip, AtRow
  <2> QED BY <1>7, <2>1, <2>2
      DEF HandoverInv, ScanEnds, Undisturbed, InScan, Ladder, BetweenWrites
<1>8. CASE EnqueueReminder
  <2> DEFINE r == scan.req
  <2>1. /\ AtRow /\ r \in Requests \ scan.todo /\ scan.due \in 0..3
        /\ scan.rows[r].stage < scan.due
    BY <1>1, <1>8 DEF EnqueueReminder, HandoverInv, Grip, AtRow, Due, ScanStates, Devices
  <2>2. /\ scan'.at = "stage" /\ scan'.rows = scan.rows /\ scan'.todo = scan.todo
        /\ scan'.req = r /\ scan'.due = scan.due /\ scan' \in ScanStates
    BY <1>1, <1>8 DEF EnqueueReminder, ScanStates
  <2>3. /\ told'[r] = (IF scan.due > told[r] THEN scan.due ELSE told[r])
        /\ told' \in [Requests -> 0..3] /\ \A s \in Requests \ {r} : told'[s] = told[s]
    BY <1>1, <1>8, <2>1 DEF EnqueueReminder
  <2>4. Typed'
    BY <1>8, <2>2, <2>3 DEF HandoverInv, Typed, EnqueueReminder
  <2>5. Grip' /\ Undisturbed'
    BY <1>8, <2>1, <2>2 DEF HandoverInv, EnqueueReminder, Grip, AtRow, Undisturbed, InScan
  <2>6. Ladder'
    <3>1. ~torn[r] => scan.rows[r].stage = dev[r].stage
      BY <1>8, <2>1 DEF HandoverInv, Undisturbed, InScan, EnqueueReminder
    <3>2. \A s \in Requests : ~BetweenWrites(s) /\ (BetweenWrites(s)' <=> s = r)
      BY <1>8, <2>2 DEF BetweenWrites, EnqueueReminder
    <3> QED BY <1>1, <1>2, <1>8, <2>1, <2>2, <2>3, <3>1, <3>2
        DEF HandoverInv, Ladder, EnqueueReminder
  <2> QED BY <2>4, <2>5, <2>6 DEF HandoverInv
<1>9. CASE SetReminderStage
  <2> DEFINE r == scan.req
  <2>1. /\ AtRow /\ r \in Requests \ scan.todo /\ scan.due \in 0..3
    BY <1>1, <1>9 DEF SetReminderStage, HandoverInv, Grip, AtRow, ScanStates
  <2>2. /\ scan'.at = "next" /\ scan'.rows = scan.rows /\ scan'.todo = scan.todo
        /\ scan'.req = None /\ scan' \in ScanStates
    BY <1>0, <1>9 DEF SetReminderStage
  <2>3. /\ dev' \in [Requests -> Devices] /\ dev'[r].stage = scan.due
        /\ \A s \in Requests \ {r} : dev'[s] = dev[s]
    BY <1>1, <1>9, <2>1 DEF SetReminderStage, Devices
  <2>4. Typed'
    BY <1>9, <2>2, <2>3 DEF HandoverInv, Typed, SetReminderStage
  <2>5. Grip' /\ Undisturbed'
    BY <1>9, <2>1, <2>2, <2>3, Bounds
    DEF HandoverInv, SetReminderStage, Grip, AtRow, Undisturbed, InScan
  <2>6. Ladder'
    <3>1. \A s \in Requests : (BetweenWrites(s) <=> s = r) /\ ~BetweenWrites(s)'
      BY <1>9, <2>2 DEF BetweenWrites, SetReminderStage
    <3> QED BY <1>1, <1>9, <2>1, <2>3, <3>1 DEF HandoverInv, Ladder, SetReminderStage
  <2> QED BY <2>4, <2>5, <2>6 DEF HandoverInv
<1>10. CASE ScanWriteFails
  <2>1. AtRow /\ scan.req \in Requests \ scan.todo
    BY <1>10 DEF ScanWriteFails, HandoverInv, Grip, AtRow
  <2>2. /\ scan'.at = "next" /\ scan'.rows = scan.rows /\ scan'.todo = scan.todo
        /\ scan'.req = None /\ scan' \in ScanStates
    BY <1>0, <1>10 DEF ScanWriteFails
  <2>3. fails' \in 0..MaxFails /\ fails' # 0
    BY <1>1, <1>10, Bounds DEF ScanWriteFails
  <2>4. Typed'
    BY <1>4, <1>10, <2>2, <2>3 DEF ScanWriteFails
  <2>5. Grip' /\ Undisturbed'
    BY <1>10, <2>1, <2>2, Bounds
    DEF HandoverInv, ScanWriteFails, Grip, AtRow, Undisturbed, InScan
  <2>6. Ladder'
    BY <1>10, <2>2, <2>3 DEF HandoverInv, Ladder, BetweenWrites, ScanWriteFails
  <2> QED BY <2>4, <2>5, <2>6 DEF HandoverInv
<1> QED BY <1>5, <1>6, <1>7, <1>8, <1>9, <1>10 DEF ScanStep

LEMMA DayKeeps == HandoverInv /\ Day => HandoverInv'
<1> SUFFICES ASSUME HandoverInv, Day PROVE HandoverInv'
  OBVIOUS
<1>1. ASSUME NEW d \in Devices PROVE Tick(d) \in Devices /\ Tick(d).stage = d.stage
  <2>1. d.since \in 0..D3 /\ d.start \in StartDates
    BY <1>1 DEF Devices
  <2> DEFINE since == IF d.since < D3 THEN d.since + 1 ELSE D3
             start == IF d.start = None THEN None
                      ELSE IF d.start > -D3 THEN d.start - 1 ELSE -D3
  <2>2. since \in 0..D3
    BY <2>1, Bounds
  <2>3. start \in StartDates
    BY <2>1, Bounds DEF StartDates
  <2>4. Tick(d) = [d EXCEPT !.since = since, !.start = start]
    BY <1>1 DEF Tick, Devices
  <2> HIDE DEF since, start
  <2> QED BY <1>1, <2>2, <2>3, <2>4 DEF Devices
<1>2. /\ dev' \in [Requests -> Devices]
      /\ \A r \in Requests : dev'[r].stage = dev[r].stage
  BY <1>1 DEF HandoverInv, Typed, Day
<1>3. Typed'
  BY <1>2 DEF HandoverInv, Typed, Day
<1> QED BY <1>2, <1>3
    DEF HandoverInv, Day, Grip, AtRow, Undisturbed, InScan, Ladder, BetweenWrites

LEMMA HandoverStep == HandoverInv /\ [Next]_vars => HandoverInv'
<1>1. HandoverInv /\ UNCHANGED vars => HandoverInv'
  BY DEF vars, HandoverInv, Typed, Grip, AtRow, Undisturbed, InScan, Ladder, BetweenWrites
<1> QED BY <1>1, PressKeeps, ScanKeeps, DayKeeps DEF Next

LEMMA HandoverInvariant == Spec => []HandoverInv
BY HandoverInit, HandoverStep, PTL DEF Spec

\* Every stamp, stage and day count stays within its range.
THEOREM HandoverTypeCorrect == Spec => []TypeOK
<1>1. HandoverInv => TypeOK
  BY DEF HandoverInv, Typed, TypeOK, ScanStates, PressStates
<1> QED BY <1>1, HandoverInvariant, PTL

\* The stage on a row is what its present subject was reminded of, whatever the
\* number of scans, failed writes and presses in between.
THEOREM LadderIsHonest == Spec => []LadderRecordsReminders
<1>1. HandoverInv => LadderRecordsReminders
  BY DEF HandoverInv, Typed, Ladder, BetweenWrites, LadderRecordsReminders
<1> QED BY <1>1, HandoverInvariant, PTL

\* No reminder leaves before its subject has had the device, and been here, for
\* as many days as it says.
THEOREM NobodyChasedEarly == Spec => NotChasedEarly
<1> DEFINE Timely(r) == told'[r] > told[r] /\ scan.rows[r] = dev[r] =>
             /\ dev[r].since >= Threshold[told'[r]]
             /\ dev[r].start # None => -dev[r].start >= Threshold[told'[r]]
<1>1. ASSUME HandoverInv, [Next]_vars, NEW r \in Requests PROVE Timely(r)
  <2>1. told \in [Requests -> 0..3] /\ dev \in [Requests -> Devices]
    BY <1>1 DEF HandoverInv, Typed
  <2>2. CASE EnqueueReminder
    <3>1. CASE r = scan.req /\ told'[r] > told[r] /\ scan.rows[r] = dev[r]
      <4>1. /\ told'[r] = scan.due /\ scan.due = DueStage(dev[r]) /\ Due(dev[r])
        BY <1>1, <2>1, <2>2, <3>1 DEF EnqueueReminder, HandoverInv, Grip, AtRow
      <4>2. /\ dev[r].since \in 0..D3 /\ dev[r].start \in StartDates
            /\ dev[r].stage \in 0..3
        BY <2>1 DEF Devices
      <4>3. /\ DaysWaited(dev[r]) <= dev[r].since
            /\ dev[r].start # None => DaysWaited(dev[r]) <= -dev[r].start
            /\ DaysWaited(dev[r]) \in Int
        BY <4>2, Bounds DEF DaysWaited, StartDates
      <4>4. DaysWaited(dev[r]) >= Threshold[scan.due] /\ Threshold[scan.due] \in Int
        <5>1. DueStage(dev[r]) > dev[r].stage
          BY <4>1 DEF Due
        <5>2. Threshold[1] = D1 /\ Threshold[2] = D2 /\ Threshold[3] = D3
          BY DEF Threshold
        <5> QED BY <4>1, <4>2, <4>3, <5>1, <5>2, Bounds DEF DueStage
      <4> QED BY <4>1, <4>2, <4>3, <4>4, Bounds DEF StartDates
    <3> QED BY <2>1, <2>2, <3>1 DEF EnqueueReminder
  <2>3. CASE PressStep
    <3>1. told'[r] \in {told[r], 0}
      BY <2>1, <2>3 DEF PressStep, Press, MarkShipped, MarkReady, MarkReceived, MoveStart,
                        SaveStart, Write
    <3> QED BY <2>1, <3>1
  <2>4. CASE UNCHANGED told
    BY <2>1, <2>4
  <2> QED BY <1>1, <2>2, <2>3, <2>4
      DEF Next, ScanStep, StartScan, ScanNext, ScanEnds, SetReminderStage, ScanWriteFails, Day, vars
<1>2. HandoverInv /\ [Next]_vars => [\A r \in Requests : Timely(r)]_vars
  BY <1>1
<1> QED BY <1>2, HandoverInvariant, PTL DEF Spec, NotChasedEarly

(***************************************************************************)
(* The web client.  Of a row it shows everything follows from the row, so  *)
(* the types are all that is needed of the history.                        *)
(***************************************************************************)
\* The step of a route before which all are done.
LEMMA FirstOpenStep ==
    ASSUME NEW v, NEW n \in Nat, DOMAIN StepsFor(v) = 1 .. n, v.status # "REJECTED",
           NEW k \in 1 .. n, ~IsDone(v, StepsFor(v)[k]),
           \A j \in 1 .. n : j < k => IsDone(v, StepsFor(v)[j])
    PROVE  CurrentStep(v) = StepsFor(v)[k]
<1> DEFINE steps == StepsFor(v)
           open == {i \in DOMAIN steps : ~IsDone(v, steps[i])}
<1>1. k \in open /\ \A j \in open : j \in 1 .. n /\ ~(j < k)
  OBVIOUS
<1>2. (CHOOSE i \in open : \A j \in open : i <= j) = k
  <2>1. \A j \in open : k <= j
    BY <1>1
  <2>2. \A i \in open : (\A j \in open : i <= j) => i = k
    BY <1>1
  <2> HIDE DEF open
  <2> QED BY <1>1, <2>1, <2>2
<1>3. CurrentStep(v) = IF v.status = "REJECTED" \/ open = {} THEN "none"
                       ELSE steps[CHOOSE i \in open : \A j \in open : i <= j]
  BY DEF CurrentStep
<1>4. open # {}
  BY <1>1
<1> HIDE DEF open, steps
<1>5. CurrentStep(v) = steps[k]
  BY <1>2, <1>3, <1>4
<1> QED BY <1>5 DEF steps

LEMMA FirstOpenAmongFive ==
    ASSUME NEW v, NEW n \in 1 .. 5, DOMAIN StepsFor(v) = 1 .. n, v.status # "REJECTED"
    PROVE  LET done(j) == IsDone(v, StepsFor(v)[j])
               at(k) == CurrentStep(v) = StepsFor(v)[k]
           IN  /\ n >= 2 /\ done(1) /\ ~done(2) => at(2)
               /\ n >= 3 /\ done(1) /\ done(2) /\ ~done(3) => at(3)
               /\ n >= 4 /\ done(1) /\ done(2) /\ done(3) /\ ~done(4) => at(4)
               /\ n >= 5 /\ done(1) /\ done(2) /\ done(3) /\ done(4) /\ ~done(5) => at(5)
<1> DEFINE done(j) == IsDone(v, StepsFor(v)[j])
           at(k) == CurrentStep(v) = StepsFor(v)[k]
<1>1. ASSUME NEW k \in 1 .. n, ~done(k), \A j \in 1 .. n : j < k => done(j)
      PROVE  at(k)
  BY <1>1, FirstOpenStep
<1> HIDE DEF done, at
<1>2. \A k \in 1 .. n : ~done(k) /\ (\A j \in 1 .. n : j < k => done(j)) => at(k)
  BY <1>1
<1>3. /\ \A j \in 1 .. n : j < 2 => j = 1
      /\ \A j \in 1 .. n : j < 3 => j \in {1, 2}
      /\ \A j \in 1 .. n : j < 4 => j \in {1, 2, 3}
      /\ \A j \in 1 .. n : j < 5 => j \in {1, 2, 3, 4}
  OBVIOUS
<1>4. /\ n >= 2 => 2 \in 1 .. n
      /\ n >= 3 => 3 \in 1 .. n
      /\ n >= 4 => 4 \in 1 .. n
      /\ n >= 5 => 5 \in 1 .. n
  OBVIOUS
<1>5. /\ n >= 2 /\ done(1) /\ ~done(2) => at(2)
      /\ n >= 3 /\ done(1) /\ done(2) /\ ~done(3) => at(3)
      /\ n >= 4 /\ done(1) /\ done(2) /\ done(3) /\ ~done(4) => at(4)
      /\ n >= 5 /\ done(1) /\ done(2) /\ done(3) /\ done(4) /\ ~done(5) => at(5)
  BY <1>2, <1>3, <1>4
<1> QED BY <1>5 DEF done, at

\* The step a device is at.
StepOf(d) ==
    LET final == IF d.kind = "LOAN" THEN "lcollect"
                 ELSE IF d.needsShipping THEN "receive" ELSE "collect"
    IN  IF ~d.needsShipping THEN IF d.ready THEN final ELSE "prep"
        ELSE IF ~d.shipped THEN "ship"
        ELSE IF IsLegacyShipment(d) THEN IF d.kind = "LOAN" THEN final ELSE "lreceive"
        ELSE IF d.ready THEN final ELSE "arrive"

\* What a view says of its device.
LEMMA ViewSays ==
    ASSUME NEW d \in Devices, ~d.received
    PROVE  LET v == View(d) IN
           /\ v.kind = d.kind /\ v.type = "STANDARD" /\ v.status = "COMPLETED"
           /\ v.approved /\ v.signedOff
           /\ v.needsShipping = d.needsShipping /\ v.legacy = IsLegacyShipment(d)
           /\ v.shipped = d.shipped /\ v.ready = d.ready /\ v.received = FALSE
           /\ v.returned = FALSE
BY DEF View, FreshView, Devices

LEMMA CurrentStepOfDevice ==
    ASSUME NEW d \in Devices, ~d.received
    PROVE  CurrentStep(View(d)) = StepOf(d)
<1> DEFINE v == View(d)
<1>1. /\ v.kind = d.kind /\ v.type = "STANDARD" /\ v.status = "COMPLETED"
      /\ v.approved /\ v.signedOff
      /\ v.needsShipping = d.needsShipping /\ v.legacy = IsLegacyShipment(d)
      /\ v.shipped = d.shipped /\ v.ready = d.ready /\ v.received = FALSE
      /\ v.returned = FALSE
  BY ViewSays
<1>2. /\ d.kind \in {"ASSET", "LOAN"} /\ d.needsShipping \in BOOLEAN /\ d.legacy \in BOOLEAN
      /\ d.shipped \in BOOLEAN /\ d.ready \in BOOLEAN
      /\ IsLegacyShipment(d) \in BOOLEAN
      /\ IsLegacyShipment(d) => d.shipped /\ ~d.ready
  BY DEF Devices, IsLegacyShipment
<1> HIDE DEF v
<1>3. /\ IsDone(v, "mgr") /\ IsDone(v, "it") /\ IsDone(v, "assign")
      /\ IsDone(v, "ship") <=> d.shipped
      /\ IsDone(v, "arrive") <=> d.ready
      /\ IsDone(v, "prep") <=> d.ready
      /\ \A step \in {"collect", "receive", "lreceive", "lcollect"} : ~IsDone(v, step)
  BY <1>1, <1>2 DEF IsDone
<1>4. CASE d.kind = "ASSET" /\ ~d.needsShipping
  <2>1. StepsFor(v) = <<"mgr", "it">> \o <<"prep", "collect">>
    BY <1>1, <1>4 DEF StepsFor, OrdinaryHandover, Handover
  <2>2. /\ DOMAIN StepsFor(v) = 1 .. 4
        /\ StepsFor(v)[1] = "mgr" /\ StepsFor(v)[2] = "it"
        /\ StepsFor(v)[3] = "prep" /\ StepsFor(v)[4] = "collect"
    BY <2>1
  <2>3. CurrentStep(v) = IF d.ready THEN StepsFor(v)[4] ELSE StepsFor(v)[3]
    BY <1>1, <1>3, <2>2, FirstOpenAmongFive
  <2> QED BY <1>4, <2>2, <2>3 DEF StepOf, v
<1>5. CASE d.kind = "LOAN" /\ ~d.needsShipping
  <2>1. StepsFor(v) = <<"assign">> \o <<"prep", "lcollect">> \o <<"lreturn">>
    BY <1>1, <1>5 DEF StepsFor, Handover
  <2>2. /\ DOMAIN StepsFor(v) = 1 .. 4
        /\ StepsFor(v)[1] = "assign" /\ StepsFor(v)[2] = "prep" /\ StepsFor(v)[3] = "lcollect"
    BY <2>1
  <2>3. CurrentStep(v) = IF d.ready THEN StepsFor(v)[3] ELSE StepsFor(v)[2]
    BY <1>1, <1>3, <2>2, FirstOpenAmongFive
  <2> QED BY <1>5, <2>2, <2>3 DEF StepOf, v
<1>6. CASE d.kind = "ASSET" /\ d.needsShipping /\ ~IsLegacyShipment(d)
  <2>1. StepsFor(v) = <<"mgr", "it">> \o <<"ship", "arrive", "receive">>
    BY <1>1, <1>6 DEF StepsFor, OrdinaryHandover, Handover
  <2>2. /\ DOMAIN StepsFor(v) = 1 .. 5
        /\ StepsFor(v)[1] = "mgr" /\ StepsFor(v)[2] = "it" /\ StepsFor(v)[3] = "ship"
        /\ StepsFor(v)[4] = "arrive" /\ StepsFor(v)[5] = "receive"
    BY <2>1
  <2>3. CurrentStep(v) = IF ~d.shipped THEN StepsFor(v)[3]
                         ELSE IF d.ready THEN StepsFor(v)[5] ELSE StepsFor(v)[4]
    BY <1>1, <1>3, <2>2, FirstOpenAmongFive
  <2> QED BY <1>6, <2>2, <2>3 DEF StepOf, v
<1>7. CASE d.kind = "LOAN" /\ d.needsShipping /\ ~IsLegacyShipment(d)
  <2>1. StepsFor(v) = <<"assign">> \o <<"ship", "arrive", "lcollect">> \o <<"lreturn">>
    BY <1>1, <1>7 DEF StepsFor, Handover
  <2>2. /\ DOMAIN StepsFor(v) = 1 .. 5
        /\ StepsFor(v)[1] = "assign" /\ StepsFor(v)[2] = "ship"
        /\ StepsFor(v)[3] = "arrive" /\ StepsFor(v)[4] = "lcollect"
    BY <2>1
  <2>3. CurrentStep(v) = IF ~d.shipped THEN StepsFor(v)[2]
                         ELSE IF d.ready THEN StepsFor(v)[4] ELSE StepsFor(v)[3]
    BY <1>1, <1>3, <2>2, FirstOpenAmongFive
  <2> QED BY <1>7, <2>2, <2>3 DEF StepOf, v
<1>8. CASE d.kind = "ASSET" /\ d.needsShipping /\ IsLegacyShipment(d)
  <2>1. StepsFor(v) = <<"mgr", "it">> \o <<"ship", "lreceive">>
    BY <1>1, <1>8 DEF StepsFor, OrdinaryHandover, Handover
  <2>2. /\ DOMAIN StepsFor(v) = 1 .. 4
        /\ StepsFor(v)[1] = "mgr" /\ StepsFor(v)[2] = "it"
        /\ StepsFor(v)[3] = "ship" /\ StepsFor(v)[4] = "lreceive"
    BY <2>1
  <2>3. CurrentStep(v) = StepsFor(v)[4]
    BY <1>1, <1>2, <1>3, <1>8, <2>2, FirstOpenAmongFive
  <2> QED BY <1>2, <1>8, <2>2, <2>3 DEF StepOf, v
<1>9. CASE d.kind = "LOAN" /\ d.needsShipping /\ IsLegacyShipment(d)
  <2>1. StepsFor(v) = <<"assign">> \o <<"ship", "lcollect">> \o <<"lreturn">>
    BY <1>1, <1>9 DEF StepsFor, Handover
  <2>2. /\ DOMAIN StepsFor(v) = 1 .. 4
        /\ StepsFor(v)[1] = "assign" /\ StepsFor(v)[2] = "ship" /\ StepsFor(v)[3] = "lcollect"
    BY <2>1
  <2>3. CurrentStep(v) = StepsFor(v)[3]
    BY <1>1, <1>2, <1>3, <1>9, <2>2, FirstOpenAmongFive
  <2> QED BY <1>2, <1>9, <2>2, <2>3 DEF StepOf, v
<1> QED BY <1>2, <1>4, <1>5, <1>6, <1>7, <1>8, <1>9 DEF v

DeviceSteps == {"ship", "arrive", "prep", "collect", "receive", "lreceive", "lcollect"}

\* Where a device in nobody's hands yet may be, and what it takes to be there.
LEMMA StepsOfDevices ==
    ASSUME NEW d \in Devices, ~d.received
    PROVE  LET step == StepOf(d) IN
           /\ step \in DeviceSteps
           /\ step = "ship" => d.needsShipping /\ ~d.shipped
           /\ step = "arrive" => d.needsShipping /\ d.shipped /\ ~d.ready
           /\ step = "prep" => ~d.needsShipping /\ ~d.ready
           /\ step \in {"collect", "receive"} => d.ready
           /\ step = "lreceive" => IsLegacyShipment(d)
           /\ step = "lcollect" => d.ready \/ IsLegacyShipment(d)
<1>1. /\ d.kind \in {"ASSET", "LOAN"} /\ d.needsShipping \in BOOLEAN /\ d.legacy \in BOOLEAN
      /\ d.shipped \in BOOLEAN /\ d.ready \in BOOLEAN
  BY DEF Devices
<1>2. IsLegacyShipment(d) => d.needsShipping /\ d.shipped /\ ~d.ready
  BY DEF IsLegacyShipment
<1> QED BY <1>1, <1>2 DEF StepOf, DeviceSteps

LEMMA OfferedIsAccepted ==
    ASSUME NEW d \in Devices, ~d.received
    PROVE  Accepts(d, StepOf(d)) /\ OnlyOfferedWhereAdmitted(View(d))
<1>1. StepOf(d) \in DeviceSteps
  BY StepsOfDevices
<1>2. Accepts(d, StepOf(d))
  BY <1>1, StepsOfDevices DEF DeviceSteps, Accepts, CanShip, CanMarkReady, CanReceive
<1>3. ASSUME NEW viewer \in Viewers, CanAct(StepOf(d), viewer)
      PROVE  Admits(StepOf(d), viewer)
  BY <1>1, <1>3
  DEF DeviceSteps, CanAct, Holder, Admits, CanActAsStockKeeper, IsAny, MayReceive, Viewers, Roles
<1>4. CurrentStep(View(d)) = StepOf(d)
  BY CurrentStepOfDevice
<1> QED BY <1>2, <1>3, <1>4 DEF OnlyOfferedWhereAdmitted

LEMMA BadgeIsThatOfTheStep ==
    ASSUME NEW d \in Devices, ~d.received, d.needsShipping /\ d.ready => d.shipped
    PROVE  Agree(View(d))
<1> DEFINE v == View(d)
           step == StepOf(d)
<1>1. /\ v.kind = d.kind /\ v.type = "STANDARD" /\ v.status = "COMPLETED"
      /\ v.approved /\ v.signedOff
      /\ v.needsShipping = d.needsShipping /\ v.legacy = IsLegacyShipment(d)
      /\ v.shipped = d.shipped /\ v.ready = d.ready /\ v.received = FALSE
      /\ v.returned = FALSE
  BY ViewSays
<1>2. d.kind \in {"ASSET", "LOAN"} /\ d.ready \in BOOLEAN
  BY DEF Devices
<1>3. CurrentStep(v) = step
  BY CurrentStepOfDevice
<1>4. /\ step \in DeviceSteps
      /\ step = "ship" => d.needsShipping /\ ~d.shipped
      /\ step = "arrive" => d.needsShipping /\ d.shipped /\ ~d.ready
      /\ step = "prep" => ~d.needsShipping /\ ~d.ready
      /\ step \in {"collect", "receive"} => d.ready
      /\ step = "lreceive" => IsLegacyShipment(d)
      /\ step = "lcollect" => d.ready \/ IsLegacyShipment(d)
  BY StepsOfDevices
<1>5. IsLegacyShipment(d) => d.needsShipping /\ d.shipped /\ ~d.ready
  BY DEF IsLegacyShipment
<1>6. d.ready => step \in {"collect", "receive", "lcollect"}
  BY <1>2, <1>5 DEF StepOf
<1> HIDE DEF v, step
<1>7. Stage(v) = IF d.ready THEN "READY_TO_COLLECT"
                 ELSE IF d.needsShipping /\ d.shipped THEN "SHIPPED" ELSE "ASSIGNED"
  BY <1>1, <1>2 DEF Stage, FulfilmentStage
<1>8. Stage(v) \in StageOf[step]
  <2>1. /\ StageOf["ship"] = {"ASSIGNED"} /\ StageOf["arrive"] = {"SHIPPED"}
        /\ StageOf["prep"] = {"ASSIGNED"} /\ StageOf["collect"] = {"READY_TO_COLLECT"}
        /\ StageOf["receive"] = {"READY_TO_COLLECT"} /\ StageOf["lreceive"] = {"SHIPPED"}
        /\ StageOf["lcollect"] = {"READY_TO_COLLECT", "SHIPPED"}
    BY DEF StageOf
  <2> QED BY <1>2, <1>4, <1>5, <1>7, <2>1 DEF DeviceSteps
<1>9. ASSUME NEW viewer \in Viewers, NeedsMyAction(v, viewer)
      PROVE  CanAct(step, viewer)
  <2>1. d.ready /\ "requestee" \in viewer
    BY <1>1, <1>9 DEF NeedsMyAction
  <2> QED BY <1>6, <2>1 DEF CanAct, Holder
<1> QED BY <1>3, <1>8, <1>9 DEF Agree, v

\* Of a device that waits for somebody the client offers the step the service
\* accepts, to those whom it lets in, and counts it against one of them, in
\* whatever order the stamps came.
THEOREM DeviceClientAgrees == Spec => []ClientAgrees
<1>1. HandoverInv => ClientAgrees
  <2> SUFFICES ASSUME HandoverInv, NEW r \in Requests, WithSomebody(r)
               PROVE  /\ Accepts(dev[r], CurrentStep(View(dev[r])))
                      /\ OnlyOfferedWhereAdmitted(View(dev[r]))
                      /\ (dev[r].needsShipping /\ dev[r].ready => dev[r].shipped)
                            => Agree(View(dev[r]))
    BY DEF ClientAgrees, OfferedStepIsAccepted, BadgeMatchesStep
  <2>1. dev[r] \in Devices /\ ~dev[r].received
    BY DEF HandoverInv, Typed, WithSomebody
  <2> QED BY <2>1, OfferedIsAccepted, BadgeIsThatOfTheStep, CurrentStepOfDevice
<1> QED BY <1>1, HandoverInvariant, PTL
=============================================================================
