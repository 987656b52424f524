------------------------------ MODULE PurchaseLog ------------------------------
(* The two ledgers that are kept by mail: every device request goes to the
   ordering ledger (src/backend/src/jobs/handlers/syncRequestsToSharepoint.ts),
   every accepted accessory quote over the threshold to the CAPEX log
   (logCapexPurchase.ts).  Both are handlers of JobRunner: one scans the table
   whenever it is queued, the other is queued once, for one request.  Both are
   taken to be switched on, with a mailbox.                                  *)
EXTENDS JobRunner, FiniteSets

CONSTANTS
    DeviceRequests,   \* for the ordering ledger
    Purchases,        \* non-standard accessory requests with a quote
    Over,             \* the purchases whose quote is over the threshold
    MaxSyncs          \* bound: how often the sync is queued

ASSUME LedgerAssumption ==
    /\ DeviceRequests \cap Purchases = {} /\ Over \subseteq Purchases
    /\ "sync" \notin Purchases
    /\ Works = Purchases \cup {"sync"} /\ Handled = Works
    /\ MaxSyncs \in Nat

VARIABLES
    owed,      \* the device requests filed, and the purchases whose quote is accepted
    sent,      \* the rows whose mail has left
    stamped,   \* syncedToSharepointAt, loggedToCapexAt
    run        \* the handler of each tick, between its awaits

ledger == <<owed, sent, stamped, run>>
allvars == <<vars, ledger>>

Rows == DeviceRequests \cup Purchases
NotRunning == [at |-> "idle", row |-> "none", todo |-> {}, failed |-> FALSE]

LedgerInit ==
    /\ Init
    /\ owed = {}
    /\ sent = {}
    /\ stamped = {}
    /\ run = [t \in Ticks |-> NotRunning]

(***************************************************************************)
(* What a ledger comes to be owed.                                         *)
(***************************************************************************)
FileDeviceRequest(r) ==
    /\ r \in DeviceRequests \ owed
    /\ owed' = owed \cup {r}
    /\ UNCHANGED <<vars, sent, stamped, run>>

\* The acceptance is written, and the log queued without waiting for it.
AcceptQuote(e, r) ==
    /\ r \in Purchases \ owed
    /\ owed' = owed \cup {r}
    /\ Enqueue(e, r, FALSE)
    /\ UNCHANGED <<sent, stamped, run>>

Syncs ==
    Cardinality({j \in Jobs : job[j].work = "sync"})
    + Cardinality({e \in Callers : caller[e].work = "sync"})

QueueSync(e, priority) ==
    /\ Syncs < MaxSyncs
    /\ Enqueue(e, "sync", priority)
    /\ UNCHANGED ledger

(***************************************************************************)
(* The handlers.                                                           *)
(***************************************************************************)
Work(t) == job[tick[t].job].work
Starts(t) == At(t, "run") /\ run[t].at = "idle"
RunAt(t, step) == At(t, "run") /\ run[t].at = step
Proceed(t, step) == run' = [run EXCEPT ![t].at = step]

Qualifies(r) == r \in owed \cap Over

\* A purchase that does not qualify, or is logged already, is done.
ReadPurchase(t) ==
    /\ Starts(t) /\ Work(t) \in Purchases
    /\ run' = [run EXCEPT ![t].row = Work(t),
                          ![t].at = IF Qualifies(Work(t)) /\ Work(t) \notin stamped
                                    THEN "send" ELSE "return"]
    /\ UNCHANGED <<vars, owed, sent, stamped>>

ReadBacklog(t) ==
    /\ Starts(t) /\ Work(t) = "sync"
    /\ run' = [run EXCEPT ![t].at = "next", ![t].todo = (owed \cap DeviceRequests) \ stamped]
    /\ UNCHANGED <<vars, owed, sent, stamped>>

NextRow(t) ==
    /\ RunAt(t, "next")
    /\ IF run[t].todo = {} THEN Proceed(t, IF run[t].failed THEN "throw" ELSE "return")
       ELSE \E r \in run[t].todo :
               run' = [run EXCEPT ![t].at = "send", ![t].row = r, ![t].todo = @ \ {r}]
    /\ UNCHANGED <<vars, owed, sent, stamped>>

SendMail(t) ==
    /\ RunAt(t, "send")
    /\ sent' = sent \cup {run[t].row}
    /\ Proceed(t, "stamp")
    /\ UNCHANGED <<vars, owed, stamped>>

AfterRow(t) == IF Work(t) = "sync" THEN "next" ELSE "return"

StampRow(t) ==
    /\ RunAt(t, "stamp")
    /\ stamped' = stamped \cup {run[t].row}
    /\ Proceed(t, AfterRow(t))
    /\ UNCHANGED <<vars, owed, sent>>

\* Mutant: the failure of a row ends up in the job's summary.
RowFailsQuietly(t) ==
    /\ run[t].at \in {"send", "stamp"} /\ At(t, "run")
    /\ sent' \in {sent, sent \cup {run[t].row}}
    /\ Proceed(t, AfterRow(t))
    /\ UNCHANGED <<vars, owed, stamped>>

\* The send throws, its mail gone out or not, or the stamp does.  The sync takes
\* note and goes on with the next row; the log throws.
RowFails(t) ==
    /\ run[t].at \in {"send", "stamp"} /\ At(t, "run")
    /\ sent' \in {sent, sent \cup {run[t].row}}
    /\ run' = [run EXCEPT ![t].failed = TRUE,
                          ![t].at = IF Work(t) = "sync" THEN "next" ELSE "throw"]
    /\ UNCHANGED <<vars, owed, stamped>>

Ends(t, step) ==
    /\ RunAt(t, step)
    /\ run' = [run EXCEPT ![t] = NotRunning]
    /\ UNCHANGED <<owed, sent, stamped>>

HandlerStep(t) ==
    \/ ReadPurchase(t)
    \/ ReadBacklog(t)
    \/ NextRow(t)
    \/ SendMail(t)
    \/ StampRow(t)
    \/ RowFails(t)
    \/ Ends(t, "return") /\ HandlerReturns(t)
    \/ Ends(t, "throw") /\ HandlerThrows(t)

RunnerStep(t) ==
    \/ Claim(t) \/ Complete(t) \/ Retry(t) \/ GiveUp(t)

LedgerNext ==
    \/ \E r \in DeviceRequests : FileDeviceRequest(r)
    \/ \E e \in Callers, r \in Purchases : AcceptQuote(e, r)
    \/ \E e \in Callers, priority \in BOOLEAN : QueueSync(e, priority)
    \/ \E t \in Ticks : HandlerStep(t)
    \/ \E t \in Ticks : RunnerStep(t) /\ UNCHANGED ledger
    \/ \E e \in Callers, j \in Jobs : Insert(e, j) /\ UNCHANGED ledger
    \/ \E t \in Ticks, j \in Jobs : Poll(t, j) /\ UNCHANGED ledger
    \/ \E j \in Jobs : BackoffEnds(j) /\ UNCHANGED ledger
    \/ Crash /\ run' = [t \in Ticks |-> NotRunning] /\ UNCHANGED <<owed, sent, stamped>>
    \/ StartRunner /\ UNCHANGED ledger

\* As for JobRunner, and what a handler awaits comes back, well or not.
LedgerFairness ==
    /\ WF_allvars(\E t \in Ticks, j \in Jobs : Poll(t, j) /\ UNCHANGED ledger)
    /\ \A t \in Ticks : WF_allvars(HandlerStep(t) \/ (RunnerStep(t) /\ UNCHANGED ledger))
    /\ \A j \in Jobs : WF_allvars(BackoffEnds(j) /\ UNCHANGED ledger)
    /\ WF_allvars(StartRunner /\ UNCHANGED ledger)

LedgerSpec == LedgerInit /\ [][LedgerNext]_allvars /\ LedgerFairness

(***************************************************************************)
(* Properties.                                                             *)
(***************************************************************************)
\* "Stamp ONLY after a successful send", on top of a queue that claims, retries
\* and recovers: a stamped row is in the ledger; and a log job that is done, or
\* is about to be marked so, has stamped its purchase, if it qualifies.
NoRowIsLost ==
    /\ stamped \subseteq sent
    /\ \A r \in Over, j \in Jobs :
          job[j].work = r /\ (job[j].status = "Completed" \/ j \in returned)
              => r \in stamped
=============================================================================
