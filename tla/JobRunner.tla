------------------------------ MODULE JobRunner ------------------------------
(* The background job queue and its poll runner (src/backend/src/jobs/jobQueue.ts
   and jobRunner.ts).  The interval starts a tick without waiting for the one
   before it, so several may be in flight; a tick reads the oldest due job, claims
   it with a second write, runs the handler and records the outcome.          *)
EXTENDS Naturals, Sequences

CONSTANTS
    MaxJobs,      \* rows the table may come to hold
    Works,        \* what jobs are about: a type with a payload
    Handled,      \* the works whose type has a registered handler
    MaxAttempts,  \* the retry budget of each work
    Ticks,        \* ticks that may be in flight together
    Callers,      \* calls of enqueue that may be in flight together
    MaxCrashes,   \* how often the process may die
    WritesFail,   \* may a tick's own update of the job row throw?
    PromptClaim   \* is a tick's read and claim over before the next tick fires?

ASSUME JobAssumption ==
    /\ MaxJobs \in Nat /\ MaxCrashes \in Nat
    /\ Handled \subseteq Works
    /\ MaxAttempts \in [Works -> Nat \ {0}]
    /\ WritesFail \in BOOLEAN /\ PromptClaim \in BOOLEAN

VARIABLES
    job,      \* the BackgroundJob table
    due,      \* the unfinished jobs whose scheduledAt has come, in its order
    tick,     \* the ticks of the runner
    caller,   \* the calls of enqueue
    returned, \* the jobs whose handler has returned
    up,       \* is the process running?
    crashes

vars == <<job, due, tick, caller, returned, up, crashes>>

Jobs == 1 .. MaxJobs
Statuses == {"Absent", "Pending", "Running", "Completed", "Failed"}
NoJob == [status |-> "Absent", work |-> "none", attempts |-> 0, priority |-> FALSE]
NoTick == [at |-> "idle", job |-> 0, attempt |-> 0]
NoCaller == [at |-> "idle", work |-> "none", priority |-> FALSE]

Init ==
    /\ job = [j \in Jobs |-> NoJob]
    /\ due = <<>>
    /\ tick = [t \in Ticks |-> NoTick]
    /\ caller = [e \in Callers |-> NoCaller]
    /\ returned = {}
    /\ up = TRUE
    /\ crashes = 0

\* A job stands in the order at most once.
Without(j) ==
    IF \E i \in 1 .. Len(due) : due[i] = j
    THEN LET i == CHOOSE i \in 1 .. Len(due) : due[i] = j
         IN  SubSeq(due, 1, i - 1) \o SubSeq(due, i + 1, Len(due))
    ELSE due

(***************************************************************************)
(* enqueue: look for an identical Pending job, then insert.                *)
(***************************************************************************)
Enqueue(e, w, priority) ==
    /\ up /\ caller[e].at = "idle"
    /\ \A j \in Jobs : ~(job[j].status = "Pending" /\ job[j].work = w)
    /\ caller' = [caller EXCEPT ![e] = [at |-> "insert", work |-> w, priority |-> priority]]
    /\ UNCHANGED <<job, due, tick, returned, up, crashes>>

\* Rows get ascending ids.
Insert(e, j) ==
    /\ up /\ caller[e].at = "insert"
    /\ job[j].status = "Absent"
    /\ \A k \in Jobs : k < j => job[k].status # "Absent"
    /\ job' = [job EXCEPT ![j] = [status |-> "Pending", work |-> caller[e].work,
                                  attempts |-> 0, priority |-> caller[e].priority]]
    /\ due' = Append(due, j)
    /\ caller' = [caller EXCEPT ![e] = NoCaller]
    /\ UNCHANGED <<tick, returned, up, crashes>>

(***************************************************************************)
(* A tick.  The jobs queued to run now share the epoch as scheduledAt and  *)
(* come before all others, in any order among themselves.                  *)
(***************************************************************************)
IsDue(j) == job[j].status = "Pending" /\ \E i \in DOMAIN due : due[i] = j

Oldest(j) ==
    /\ IsDue(j)
    /\ \/ job[j].priority
       \/ /\ \A k \in Jobs : IsDue(k) => ~job[k].priority
          /\ \E i \in DOMAIN due : due[i] = j /\ \A h \in 1 .. (i - 1) : ~IsDue(due[h])

\* The read and the claim are two statements: only the length of the interval
\* keeps the next tick from reading between them.
Poll(t, j) ==
    /\ up /\ tick[t].at = "idle"
    /\ PromptClaim => \A u \in Ticks : tick[u].at # "claim"
    /\ Oldest(j)
    /\ tick' = [tick EXCEPT ![t] = [at |-> "claim", job |-> j, attempt |-> job[j].attempts + 1]]
    /\ UNCHANGED <<job, due, caller, returned, up, crashes>>

At(t, step) == up /\ tick[t].at = step
Goto(t, step) == tick' = [tick EXCEPT ![t].at = step]
Return(t) == tick' = [tick EXCEPT ![t] = NoTick]

\* Mutant: the row does not say it is being run.
ClaimUnmarked(t) ==
    LET j == tick[t].job IN
    /\ At(t, "claim")
    /\ job' = [job EXCEPT ![j].attempts = tick[t].attempt]
    /\ Goto(t, IF job[j].work \in Handled THEN "run" ELSE "refuse")
    /\ UNCHANGED <<due, caller, returned, up, crashes>>

Claim(t) ==
    LET j == tick[t].job IN
    /\ At(t, "claim")
    /\ job' = [job EXCEPT ![j].status = "Running", ![j].attempts = tick[t].attempt]
    /\ Goto(t, IF job[j].work \in Handled THEN "run" ELSE "refuse")
    /\ UNCHANGED <<due, caller, returned, up, crashes>>

Finish(j, status) ==
    /\ job' = [job EXCEPT ![j].status = status]
    /\ due' = Without(j)

\* No handler is registered for the type.
Refuse(t) ==
    /\ At(t, "refuse")
    /\ Finish(tick[t].job, "Failed")
    /\ Return(t)
    /\ UNCHANGED <<caller, returned, up, crashes>>

HandlerReturns(t) ==
    /\ At(t, "run")
    /\ returned' = returned \cup {tick[t].job}
    /\ Goto(t, "complete")
    /\ UNCHANGED <<job, due, caller, up, crashes>>

\* Mutant: the handler's exception is swallowed.
HandlerThrowsUnseen(t) ==
    /\ At(t, "run")
    /\ Goto(t, "complete")
    /\ UNCHANGED <<job, due, caller, returned, up, crashes>>

HandlerThrows(t) ==
    /\ At(t, "run")
    /\ Goto(t, "fail")
    /\ UNCHANGED <<job, due, caller, returned, up, crashes>>

Complete(t) ==
    /\ At(t, "complete")
    /\ Finish(tick[t].job, "Completed")
    /\ Return(t)
    /\ UNCHANGED <<caller, returned, up, crashes>>

\* Mutants: one attempt too many, and a status the schema does not have.
RetryOnceMore(t) ==
    LET j == tick[t].job IN
    /\ At(t, "fail")
    /\ tick[t].attempt <= MaxAttempts[job[j].work]
    /\ job' = [job EXCEPT ![j].status = "Pending", ![j].priority = FALSE]
    /\ due' = Without(j)
    /\ Return(t)
    /\ UNCHANGED <<caller, returned, up, crashes>>

RetryAsRetrying(t) ==
    LET j == tick[t].job IN
    /\ At(t, "fail")
    /\ tick[t].attempt < MaxAttempts[job[j].work]
    /\ Finish(j, "Retrying")
    /\ Return(t)
    /\ UNCHANGED <<caller, returned, up, crashes>>

\* Back to Pending at a later scheduledAt while the budget lasts.
Retry(t) ==
    LET j == tick[t].job IN
    /\ At(t, "fail")
    /\ tick[t].attempt < MaxAttempts[job[j].work]
    /\ job' = [job EXCEPT ![j].status = "Pending", ![j].priority = FALSE]
    /\ due' = Without(j)
    /\ Return(t)
    /\ UNCHANGED <<caller, returned, up, crashes>>

GiveUp(t) ==
    LET j == tick[t].job IN
    /\ At(t, "fail")
    /\ tick[t].attempt >= MaxAttempts[job[j].work]
    /\ Finish(j, "Failed")
    /\ Return(t)
    /\ UNCHANGED <<caller, returned, up, crashes>>

\* A write of the tick throws: the one that records success is inside the try
\* and ends in the catch, the others end the tick.
WriteFails(t) ==
    /\ up /\ WritesFail
    /\ \/ At(t, "complete") /\ Goto(t, "fail")
       \/ tick[t].at \in {"claim", "refuse", "fail"} /\ Return(t)
    /\ UNCHANGED <<job, due, caller, returned, up, crashes>>

(***************************************************************************)
(* Time, crashes and restarts.                                             *)
(***************************************************************************)
BackoffEnds(j) ==
    /\ job[j].status = "Pending"
    /\ \A i \in DOMAIN due : due[i] # j
    /\ due' = Append(due, j)
    /\ UNCHANGED <<job, tick, caller, returned, up, crashes>>

Crash ==
    /\ up /\ crashes < MaxCrashes
    /\ up' = FALSE
    /\ crashes' = crashes + 1
    /\ tick' = [t \in Ticks |-> NoTick]
    /\ caller' = [e \in Callers |-> NoCaller]
    /\ UNCHANGED <<job, due, returned>>

\* Mutants: the sweep also revives what failed, or is forgotten.
RecoverFailedJobs ==
    [j \in Jobs |-> IF job[j].status \in {"Running", "Failed"}
                    THEN [job[j] EXCEPT !.status = "Pending"]
                    ELSE job[j]]
RecoverNothing == job

\* startRunner sweeps the Running jobs back to Pending before the first tick.
RecoverStuckJobs ==
    [j \in Jobs |-> IF job[j].status = "Running" THEN [job[j] EXCEPT !.status = "Pending"]
                    ELSE job[j]]

StartRunner ==
    /\ ~up
    /\ up' = TRUE
    /\ job' = RecoverStuckJobs
    /\ UNCHANGED <<due, tick, caller, returned, crashes>>

TickStep(t) ==
    \/ Claim(t) \/ Refuse(t) \/ Complete(t) \/ Retry(t) \/ GiveUp(t)
    \/ HandlerReturns(t) \/ HandlerThrows(t) \/ WriteFails(t)

Next ==
    \/ \E e \in Callers, w \in Works, priority \in BOOLEAN : Enqueue(e, w, priority)
    \/ \E e \in Callers, j \in Jobs : Insert(e, j)
    \/ \E t \in Ticks, j \in Jobs : Poll(t, j)
    \/ \E t \in Ticks : TickStep(t)
    \/ \E j \in Jobs : BackoffEnds(j)
    \/ Crash
    \/ StartRunner

\* The interval keeps firing, what a tick awaits comes back, time passes, and a
\* process that died is started again.
Fairness ==
    /\ WF_vars(\E t \in Ticks, j \in Jobs : Poll(t, j))
    /\ \A t \in Ticks : WF_vars(TickStep(t))
    /\ \A j \in Jobs : WF_vars(BackoffEnds(j))
    /\ WF_vars(StartRunner)

Spec == Init /\ [][Next]_vars
FairSpec == Spec /\ Fairness

TypeOK ==
    /\ job \in [Jobs -> [status : Statuses, work : Works \cup {"none"}, attempts : Nat,
                         priority : BOOLEAN]]
    /\ due \in Seq(Jobs)
    /\ tick \in [Ticks -> [at : {"idle", "claim", "refuse", "run", "complete", "fail"},
                           job : Jobs \cup {0}, attempt : Nat]]
    /\ caller \in [Callers -> [at : {"idle", "insert"}, work : Works \cup {"none"},
                               priority : BOOLEAN]]
    /\ returned \subseteq Jobs
    /\ up \in BOOLEAN
    /\ crashes \in 0 .. MaxCrashes

(***************************************************************************)
(* Properties.                                                             *)
(***************************************************************************)
\* Two ticks never work on one job, as long as claims are prompt: neither a tick
\* that starts while a handler runs nor the recovery after a crash hands out a job
\* that is being run.
OneTickPerJob ==
    \A t, u \in Ticks :
        /\ tick[t].at \notin {"idle", "claim"} /\ tick[u].at \notin {"idle", "claim"}
        /\ tick[t].job = tick[u].job
        => t = u

\* Completed is only ever written for work whose handler returned, and Failed only
\* when the budget was spent or there was no handler.
OutcomeIsEarned ==
    \A j \in Jobs :
        /\ job[j].status = "Completed" => j \in returned
        /\ job[j].status = "Failed" =>
              job[j].work \notin Handled \/ job[j].attempts >= MaxAttempts[job[j].work]

\* A job is attempted as often as its budget says, and once more for each crash
\* that cut an attempt short.
AttemptsWithinBudget ==
    \A j \in Jobs : job[j].attempts > 0 =>
        job[j].attempts <= MaxAttempts[job[j].work] + crashes

\* A job marked Completed or Failed is never picked up again: seen through the
\* status column the queue behaves as JobOutcome.
Fate == [Absent |-> "absent", Pending |-> "waiting", Running |-> "waiting",
         Completed |-> "done", Failed |-> "failed"]
Outcome == INSTANCE JobOutcome WITH fate <- [j \in Jobs |-> Fate[job[j].status]]
FollowsJobOutcome == Outcome!Spec

\* Every job that is queued is completed or given up on, through retries, jumping
\* the queue, crashes and restarts, as long as the runner's own writes succeed.
EveryJobEnds ==
    \A j \in Jobs : job[j].status = "Pending" ~> job[j].status \in {"Completed", "Failed"}
=============================================================================
