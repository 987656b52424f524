----------------------------- MODULE Jobs_proofs -----------------------------
(* Proofs about JobRunner and, at the end, about the ledgers that run on it
   (PurchaseLog): for any number of jobs, ticks, callers and crashes, no job is
   run by two ticks, its outcome is earned within its budget, and the table
   behaves as JobOutcome, provided that claims are prompt; and over any number of
   sends, lost stamps and retries a stamped row has been sent, and a log job that
   is done has stamped its purchase.                                          *)
EXTENDS PurchaseLog, TLAPS

JobRows == [status : Statuses, work : Works \cup {"none"}, attempts : Nat, priority : BOOLEAN]
TickStates == [at : {"idle", "claim", "refuse", "run", "complete", "fail"},
               job : Jobs \cup {0}, attempt : Nat]

Typed ==
    /\ job \in [Jobs -> JobRows]
    /\ tick \in [Ticks -> TickStates]
    /\ caller \in [Callers -> [at : {"idle", "insert"}, work : Works \cup {"none"},
                               priority : BOOLEAN]]
    /\ crashes \in Nat
    /\ up \in BOOLEAN
    /\ \A e \in Callers : caller[e].at = "insert" => caller[e].work \in Works
    /\ \A j \in Jobs : job[j].status # "Absent" => job[j].work \in Works

\* What a tick that stands at a step knows of its job.
Grip(t) ==
    LET j == tick[t].job IN
    tick[t].at # "idle" =>
        /\ up /\ j \in Jobs
        /\ tick[t].at = "claim" =>
              job[j].status = "Pending" /\ tick[t].attempt = job[j].attempts + 1
        /\ tick[t].at # "claim" =>
              job[j].status = "Running" /\ tick[t].attempt = job[j].attempts
        /\ tick[t].at = "refuse" => job[j].work \notin Handled
        /\ tick[t].at = "complete" => j \in returned

Alone ==
    \A t, u \in Ticks :
        /\ tick[t].at # "idle" /\ tick[u].at # "idle" /\ tick[t].job = tick[u].job
        => t = u

\* A job that is to be attempted has an attempt left, counting the crashes.
Budget(j) ==
    job[j].status # "Absent" =>
        /\ job[j].attempts <= MaxAttempts[job[j].work] + crashes
        /\ job[j].status = "Pending" \/ (~up /\ job[j].status = "Running") =>
              job[j].attempts < MaxAttempts[job[j].work] + crashes

Earned(j) ==
    /\ job[j].status = "Completed" => j \in returned
    /\ job[j].status = "Failed" =>
          job[j].work \notin Handled \/ job[j].attempts >= MaxAttempts[job[j].work]
    /\ job[j].status = "Absent" => job[j].attempts = 0

JobInv ==
    /\ Typed
    /\ \A t \in Ticks : Grip(t)
    /\ Alone
    /\ \A j \in Jobs : Budget(j) /\ Earned(j)

LEMMA JobInit == Init => JobInv
<1> SUFFICES ASSUME Init PROVE JobInv
  OBVIOUS
<1>1. Typed
  BY JobAssumption
  DEF Init, Typed, JobRows, TickStates, NoJob, NoTick, NoCaller, Statuses
<1>2. (\A t \in Ticks : Grip(t)) /\ Alone
  BY DEF Init, Grip, Alone, NoTick
<1>3. \A j \in Jobs : Budget(j) /\ Earned(j)
  BY DEF Init, Budget, Earned, NoJob
<1> QED BY <1>1, <1>2, <1>3 DEF JobInv

\* The steps of a tick, by what they do to its job and to itself.
LEMMA TickMoves ==
    ASSUME JobInv, NEW t \in Ticks, TickStep(t)
    PROVE  LET j == tick[t].job IN
           /\ tick[t].at # "idle" /\ up /\ j \in Jobs
           /\ \A u \in Ticks : u # t => tick'[u] = tick[u]
           /\ \A k \in Jobs : k # j => job'[k] = job[k]
           /\ job'[j] \in JobRows /\ job'[j].work = job[j].work
           /\ UNCHANGED <<caller, up, crashes>>
           /\ returned \subseteq returned'
<1> DEFINE j == tick[t].job
<1>1. tick[t].at # "idle" /\ up
  BY DEF TickStep, Claim, Refuse, Complete, Retry, GiveUp, HandlerReturns, HandlerThrows,
         WriteFails, At
<1>2. j \in Jobs
  BY <1>1 DEF JobInv, Grip
<1>3. job \in [Jobs -> JobRows] /\ tick \in [Ticks -> TickStates] /\ tick[t].attempt \in Nat
  BY DEF JobInv, Typed, TickStates
<1>4. \A u \in Ticks : u # t => tick'[u] = tick[u]
  BY <1>3 DEF TickStep, Claim, Refuse, Complete, Retry, GiveUp, HandlerReturns, HandlerThrows,
              WriteFails, At, Goto, Return
<1>5. /\ \A k \in Jobs : k # j => job'[k] = job[k]
      /\ job'[j] \in JobRows /\ job'[j].work = job[j].work
  <2>1. CASE Claim(t)
    BY <1>2, <1>3, <2>1 DEF Claim, JobRows, Statuses
  <2>2. CASE Refuse(t) \/ Complete(t) \/ GiveUp(t)
    BY <1>2, <1>3, <2>2 DEF Refuse, Complete, GiveUp, Finish, JobRows, Statuses
  <2>3. CASE Retry(t)
    BY <1>2, <1>3, <2>3 DEF Retry, JobRows, Statuses
  <2>4. CASE UNCHANGED job
    BY <1>2, <1>3, <2>4
  <2> QED
    BY <2>1, <2>2, <2>3, <2>4 DEF TickStep, HandlerReturns, HandlerThrows, WriteFails
<1>6. UNCHANGED <<caller, up, crashes>> /\ returned \subseteq returned'
  BY DEF TickStep, Claim, Refuse, Complete, Retry, GiveUp, HandlerReturns, HandlerThrows, WriteFails
<1> QED BY <1>1, <1>2, <1>4, <1>5, <1>6

LEMMA TickEffects ==
    ASSUME JobInv, NEW t \in Ticks, TickStep(t)
    PROVE  LET j == tick[t].job
               unmoved == job'[j].status = job[j].status /\ job'[j].attempts = job[j].attempts
           IN
           \/ /\ tick'[t].at = "idle" /\ tick'[t] \in TickStates
              /\ job'[j].attempts = job[j].attempts
              /\ \/ unmoved
                 \/ tick[t].at = "refuse" /\ job'[j].status = "Failed"
                 \/ tick[t].at = "complete" /\ job'[j].status = "Completed"
                 \/ /\ tick[t].at = "fail"
                    /\ IF tick[t].attempt < MaxAttempts[job[j].work]
                       THEN job'[j].status = "Pending" ELSE job'[j].status = "Failed"
           \/ /\ tick'[t] \in TickStates
              /\ tick'[t].job = j /\ tick'[t].attempt = tick[t].attempt
              /\ \/ /\ tick[t].at = "claim" /\ tick'[t].at \in {"run", "refuse"}
                    /\ tick'[t].at = "refuse" => job[j].work \notin Handled
                    /\ job'[j].status = "Running" /\ job'[j].attempts = tick[t].attempt
                 \/ /\ unmoved
                    /\ \/ tick[t].at = "run" /\ tick'[t].at = "complete" /\ j \in returned'
                       \/ tick[t].at \in {"run", "complete"} /\ tick'[t].at = "fail"
<1> DEFINE j == tick[t].job
<1>1. /\ job \in [Jobs -> JobRows] /\ tick \in [Ticks -> TickStates] /\ tick[t].attempt \in Nat
      /\ job[j].attempts \in Nat /\ MaxAttempts[job[j].work] \in Nat
      /\ j \in Jobs /\ tick[t] \in TickStates
  <2>1. job \in [Jobs -> JobRows] /\ tick \in [Ticks -> TickStates] /\ tick[t] \in TickStates
    BY DEF JobInv, Typed
  <2>2. j \in Jobs
    BY TickMoves
  <2>3. job[j].status # "Absent"
    BY TickMoves DEF JobInv, Grip
  <2> QED BY <2>1, <2>2, <2>3, JobAssumption DEF JobInv, Typed, JobRows, TickStates
<1>2. NoTick \in TickStates
  BY DEF NoTick, TickStates
<1>3. Return(t) => tick'[t] = NoTick
  BY <1>1 DEF Return
<1>4. \A step \in {"refuse", "run", "complete", "fail"} :
        Goto(t, step) => /\ tick'[t].at = step /\ tick'[t].job = j
                         /\ tick'[t].attempt = tick[t].attempt /\ tick'[t] \in TickStates
  BY <1>1 DEF Goto, TickStates
<1>5. \A status \in Statuses :
        Finish(j, status) => job'[j].status = status /\ job'[j].attempts = job[j].attempts
  BY <1>1 DEF Finish, JobRows
<1>6. CASE Claim(t)
  <2>1. job'[j].status = "Running" /\ job'[j].attempts = tick[t].attempt
    BY <1>1, <1>6 DEF Claim, JobRows
  <2> QED BY <1>4, <1>6, <2>1 DEF Claim, At
<1>7. CASE Refuse(t)
  BY <1>2, <1>3, <1>5, <1>7 DEF Refuse, At, NoTick, Statuses
<1>8. CASE Complete(t)
  BY <1>2, <1>3, <1>5, <1>8 DEF Complete, At, NoTick, Statuses
<1>9. CASE GiveUp(t)
  <2>1. job'[j].status = "Failed" /\ job'[j].attempts = job[j].attempts /\ tick'[t] = NoTick
    BY <1>3, <1>5, <1>9 DEF GiveUp, Statuses
  <2>2. tick[t].at = "fail" /\ ~(tick[t].attempt < MaxAttempts[job[j].work])
    BY <1>1, <1>9 DEF GiveUp, At
  <2> QED BY <1>2, <2>1, <2>2 DEF NoTick
<1>10. CASE Retry(t)
  <2>1. job'[j].status = "Pending" /\ job'[j].attempts = job[j].attempts /\ tick'[t] = NoTick
    BY <1>1, <1>3, <1>10 DEF Retry, JobRows
  <2> QED BY <1>2, <1>10, <2>1 DEF Retry, At, NoTick
<1>11. CASE HandlerReturns(t)
  BY <1>1, <1>4, <1>11 DEF HandlerReturns, At
<1>12. CASE HandlerThrows(t)
  BY <1>1, <1>4, <1>12 DEF HandlerThrows, At
<1>13. CASE WriteFails(t)
  BY <1>1, <1>2, <1>3, <1>4, <1>13 DEF WriteFails, At, NoTick
<1> QED BY <1>6, <1>7, <1>8, <1>9, <1>10, <1>11, <1>12, <1>13 DEF TickStep

LEMMA TickKeeps ==
    ASSUME JobInv, NEW t \in Ticks, TickStep(t)
    PROVE  JobInv'
<1> DEFINE j == tick[t].job
<1>1. /\ job \in [Jobs -> JobRows] /\ tick \in [Ticks -> TickStates] /\ tick[t].attempt \in Nat
      /\ crashes \in Nat /\ j \in Jobs /\ tick[t].at # "idle" /\ up
      /\ UNCHANGED <<caller, up, crashes>> /\ returned \subseteq returned'
      /\ \A u \in Ticks : u # t => tick'[u] = tick[u]
      /\ \A k \in Jobs : k # j => job'[k] = job[k]
      /\ job'[j] \in JobRows /\ job'[j].work = job[j].work
  BY TickMoves DEF JobInv, Typed, TickStates
<1>2. \A u \in Ticks : u # t /\ tick[u].at # "idle" => tick[u].job # j
  BY <1>1 DEF JobInv, Alone
<1>3. Grip(t)
  BY DEF JobInv
<1>4. job[j].status # "Absent" /\ job[j].work \in Works /\ MaxAttempts[job[j].work] \in Nat \ {0}
  BY <1>1, <1>3, JobAssumption DEF Grip, JobInv, Typed
<1>5. tick'[t] \in TickStates
  BY TickEffects
<1>6. Typed'
  <2>1. job' \in [Jobs -> JobRows]
    <3>1. job' = [k \in Jobs |-> job'[k]]
      BY <1>1 DEF TickStep, Claim, Refuse, Complete, Retry, GiveUp, HandlerReturns, HandlerThrows,
                  WriteFails, Finish
    <3> QED BY <1>1, <3>1
  <2>2. tick' \in [Ticks -> TickStates]
    <3>1. tick' = [u \in Ticks |-> tick'[u]]
      BY <1>1 DEF TickStep, Claim, Refuse, Complete, Retry, GiveUp, HandlerReturns, HandlerThrows,
                  WriteFails, Goto, Return
    <3> QED BY <1>1, <1>5, <3>1
  <2>3. \A k \in Jobs : job'[k].status # "Absent" => job'[k].work \in Works
    BY <1>1, <1>4 DEF JobInv, Typed
  <2> QED BY <1>1, <2>1, <2>2, <2>3 DEF JobInv, Typed
<1>7. \A u \in Ticks : Grip(u)'
  <2>1. ASSUME NEW u \in Ticks, u # t PROVE Grip(u)'
    BY <1>1, <1>2, <2>1 DEF JobInv, Grip
  <2>2. Grip(t)'
    BY <1>1, <1>3, TickEffects DEF Grip
  <2> QED BY <2>1, <2>2
<1>8. Alone'
  <2>1. tick'[t].at # "idle" => tick'[t].job = j
    BY TickEffects
  <2> QED BY <1>1, <1>2, <2>1 DEF JobInv, Alone
<1>9. ASSUME NEW k \in Jobs PROVE Budget(k)' /\ Earned(k)'
  <2>1. CASE k # j
    BY <1>1, <2>1 DEF JobInv, Budget, Earned
  <2>2. CASE k = j
    <3>1. job[k].attempts \in Nat /\ job'[k].attempts \in Nat
      BY <1>1, <2>2 DEF JobRows
    <3>2. Budget(k) /\ Earned(k)
      BY DEF JobInv
    <3>3. Budget(k)'
      BY <1>1, <1>3, <1>4, <2>2, <3>1, <3>2, TickEffects DEF Grip, Budget
    <3>4. Earned(k)'
      BY <1>1, <1>3, <1>4, <2>2, <3>1, <3>2, TickEffects DEF Grip, Earned
    <3> QED BY <3>3, <3>4
  <2> QED BY <2>1, <2>2
<1> QED BY <1>6, <1>7, <1>8, <1>9 DEF JobInv

\* The steps that touch no tick.
LEMMA OthersKeep ==
    ASSUME PromptClaim, JobInv, Next, ~\E t \in Ticks : TickStep(t)
    PROVE  JobInv'
<1>1. /\ job \in [Jobs -> JobRows] /\ tick \in [Ticks -> TickStates]
      /\ crashes \in Nat /\ up \in BOOLEAN
      /\ caller \in [Callers -> [at : {"idle", "insert"}, work : Works \cup {"none"},
                                 priority : BOOLEAN]]
      /\ \A j \in Jobs : job[j].attempts \in Nat
  BY DEF JobInv, Typed, JobRows
<1>2. ASSUME NEW e \in Callers, NEW w \in Works, NEW priority \in BOOLEAN, Enqueue(e, w, priority)
      PROVE  JobInv'
  <2>1. Typed'
    BY <1>1, <1>2 DEF Enqueue, JobInv, Typed
  <2>2. UNCHANGED <<job, tick, returned, up, crashes>>
    BY <1>2 DEF Enqueue
  <2> QED BY <2>1, <2>2 DEF JobInv, Grip, Alone, Budget, Earned
<1>3. ASSUME NEW e \in Callers, NEW n \in Jobs, Insert(e, n)
      PROVE  JobInv'
  <2>1. /\ job[n].status = "Absent" /\ caller[e].at = "insert" /\ caller[e].work \in Works
        /\ UNCHANGED <<tick, returned, up, crashes>>
        /\ \A k \in Jobs : k # n => job'[k] = job[k]
        /\ job'[n] = [status |-> "Pending", work |-> caller[e].work, attempts |-> 0,
                      priority |-> caller[e].priority]
        /\ MaxAttempts[caller[e].work] \in Nat \ {0}
    BY <1>1, <1>3, JobAssumption DEF Insert, JobInv, Typed
  <2>2. Typed'
    <3>1. job' \in [Jobs -> JobRows] /\ caller[e].priority \in BOOLEAN
      BY <1>1, <1>3, <2>1 DEF Insert, JobRows, Statuses
    <3>2. \A f \in Callers : caller'[f] = IF f = e THEN NoCaller ELSE caller[f]
      BY <1>1, <1>3 DEF Insert
    <3>3. caller' \in [Callers -> [at : {"idle", "insert"}, work : Works \cup {"none"},
                                   priority : BOOLEAN]]
      BY <1>1, <1>3 DEF Insert, NoCaller
    <3> QED BY <1>1, <2>1, <3>1, <3>2, <3>3 DEF JobInv, Typed, NoCaller
  <2>3. ASSUME NEW t \in Ticks PROVE Grip(t)'
    <3>1. Grip(t)
      BY DEF JobInv
    <3> QED BY <2>1, <3>1 DEF Grip
  <2>4. Alone'
    BY <2>1 DEF JobInv, Alone
  <2>5. ASSUME NEW k \in Jobs PROVE Budget(k)' /\ Earned(k)'
    <3>1. Budget(k) /\ Earned(k)
      BY DEF JobInv
    <3>2. CASE k = n
      <4>1. /\ job'[k].status = "Pending" /\ job'[k].attempts = 0
            /\ job'[k].work = caller[e].work
        BY <2>1, <3>2
      <4>2. crashes' \in Nat
        BY <1>1, <2>1
      <4>3. MaxAttempts[caller[e].work] + crashes' \in Nat \ {0}
        BY <2>1, <4>2
      <4> QED BY <4>1, <4>3 DEF Budget, Earned
    <3>3. CASE k # n
      BY <2>1, <3>1, <3>3 DEF Budget, Earned
    <3> QED BY <3>2, <3>3
  <2> QED BY <2>2, <2>3, <2>4, <2>5 DEF JobInv
<1>4. ASSUME NEW t \in Ticks, NEW n \in Jobs, Poll(t, n)
      PROVE  JobInv'
  <2>1. /\ up /\ tick[t].at = "idle" /\ job[n].status = "Pending"
        /\ \A u \in Ticks : tick[u].at # "claim"
        /\ UNCHANGED <<job, caller, returned, up, crashes>>
        /\ \A u \in Ticks : u # t => tick'[u] = tick[u]
        /\ tick'[t] = [at |-> "claim", job |-> n, attempt |-> job[n].attempts + 1]
    BY <1>1, <1>4 DEF Poll, Oldest, IsDue
  <2>2. Typed'
    <3>1. tick' \in [Ticks -> TickStates]
      BY <1>1, <1>4 DEF Poll, TickStates
    <3> QED BY <1>1, <2>1, <3>1 DEF JobInv, Typed
  <2>3. \A u \in Ticks : u # t /\ tick[u].at # "idle" => tick[u].job # n
    BY <2>1 DEF JobInv, Grip
  <2>4. ASSUME NEW u \in Ticks PROVE Grip(u)'
    <3>1. Grip(u)
      BY DEF JobInv
    <3> QED BY <2>1, <3>1 DEF Grip
  <2>5. Alone'
    BY <2>1, <2>3 DEF JobInv, Alone
  <2>6. \A k \in Jobs : Budget(k)' /\ Earned(k)'
    BY <2>1 DEF JobInv, Budget, Earned
  <2> QED BY <2>2, <2>4, <2>5, <2>6 DEF JobInv
<1>5. ASSUME NEW n \in Jobs, BackoffEnds(n)
      PROVE  JobInv'
  <2>1. UNCHANGED <<job, tick, caller, returned, up, crashes>>
    BY <1>5 DEF BackoffEnds
  <2> QED BY <2>1 DEF JobInv, Typed, Grip, Alone, Budget, Earned
<1>6. ASSUME Crash PROVE JobInv'
  <2>1. /\ ~up' /\ crashes' = crashes + 1 /\ up /\ UNCHANGED <<job, returned>>
        /\ tick' = [t \in Ticks |-> NoTick] /\ caller' = [e \in Callers |-> NoCaller]
        /\ up' \in BOOLEAN
    BY <1>6 DEF Crash
  <2>2. Typed'
    BY <1>1, <2>1 DEF JobInv, Typed, NoTick, NoCaller, TickStates
  <2>3. (\A t \in Ticks : Grip(t)') /\ Alone'
    BY <2>1 DEF Grip, Alone, NoTick
  <2>4. ASSUME NEW k \in Jobs PROVE Budget(k)' /\ Earned(k)'
    <3>1. Budget(k) /\ Earned(k)
      BY DEF JobInv
    <3>2. job[k].status # "Absent" => MaxAttempts[job[k].work] \in Nat
      BY JobAssumption DEF JobInv, Typed
    <3> QED BY <1>1, <2>1, <3>1, <3>2 DEF Budget, Earned
  <2> QED BY <2>2, <2>3, <2>4 DEF JobInv
<1>7. ASSUME StartRunner PROVE JobInv'
  <2>1. /\ ~up /\ up' = TRUE /\ UNCHANGED <<tick, caller, returned, crashes>>
        /\ \A k \in Jobs :
              /\ job'[k] \in JobRows /\ job'[k].work = job[k].work
              /\ job'[k].attempts = job[k].attempts
              /\ job'[k].status = IF job[k].status = "Running" THEN "Pending" ELSE job[k].status
    BY <1>1, <1>7 DEF StartRunner, RecoverStuckJobs, JobRows, Statuses
  <2>2. Typed'
    <3>1. job' = [k \in Jobs |-> job'[k]]
      BY <1>7 DEF StartRunner, RecoverStuckJobs
    <3>2. job' \in [Jobs -> JobRows]
      BY <2>1, <3>1
    <3> QED BY <1>1, <2>1, <3>2 DEF JobInv, Typed
  <2>3. \A t \in Ticks : tick[t].at = "idle"
    BY <2>1 DEF JobInv, Grip
  <2>4. (\A t \in Ticks : Grip(t)') /\ Alone'
    BY <2>1, <2>3 DEF Grip, Alone
  <2>5. ASSUME NEW k \in Jobs PROVE Budget(k)' /\ Earned(k)'
    <3>1. Budget(k) /\ Earned(k)
      BY DEF JobInv
    <3> QED BY <2>1, <3>1 DEF Budget, Earned
  <2> QED BY <2>2, <2>4, <2>5 DEF JobInv
<1> QED BY <1>2, <1>3, <1>4, <1>5, <1>6, <1>7 DEF Next

LEMMA JobNext ==
    ASSUME PromptClaim
    PROVE  JobInv /\ [Next]_vars => JobInv'
<1> SUFFICES ASSUME JobInv, [Next]_vars PROVE JobInv'
  OBVIOUS
<1>1. CASE UNCHANGED vars
  BY <1>1 DEF vars, JobInv, Typed, Grip, Alone, Budget, Earned
<1>2. CASE \E t \in Ticks : TickStep(t)
  BY <1>2, TickKeeps
<1>3. CASE Next /\ ~\E t \in Ticks : TickStep(t)
  BY <1>3, OthersKeep
<1> QED BY <1>1, <1>2, <1>3

LEMMA JobInvariant ==
    ASSUME PromptClaim
    PROVE  Spec => []JobInv
BY JobInit, JobNext, PTL DEF Spec

\* No job is ever run by two ticks at once, whatever ticks overlap and however the
\* process crashes: the claim and the recovery of stuck jobs are enough.
THEOREM JobsRunOnce ==
    ASSUME PromptClaim
    PROVE  Spec => []OneTickPerJob
<1>1. JobInv => OneTickPerJob
  BY DEF JobInv, Alone, OneTickPerJob
<1> QED BY <1>1, JobInvariant, PTL

\* Completed and Failed in the table tell the truth about the handler.
THEOREM JobsOutcomeEarned ==
    ASSUME PromptClaim
    PROVE  Spec => []OutcomeIsEarned
<1>1. JobInv => OutcomeIsEarned
  BY DEF JobInv, Earned, OutcomeIsEarned
<1> QED BY <1>1, JobInvariant, PTL

\* Seen through its status column, the table is the abstract JobOutcome.
THEOREM JobsFollowOutcome ==
    ASSUME PromptClaim
    PROVE  Spec => FollowsJobOutcome
<1> DEFINE fate == [j \in Jobs |-> Fate[job[j].status]]
<1>1. Init => Outcome!Init
  BY DEF Init, Outcome!Init, Fate, NoJob
<1>2. ASSUME JobInv, Next PROVE [Outcome!Next]_fate
  <2>1. job \in [Jobs -> JobRows]
    BY <1>2 DEF JobInv, Typed
  <2>2. ASSUME NEW j \in Jobs,
               \A k \in Jobs : k # j => job'[k] = job[k],
               \/ job'[j].status = job[j].status
               \/ job[j].status = "Absent" /\ job'[j].status = "Pending"
               \/ job[j].status \in {"Pending", "Running"} /\ job'[j].status \in Statuses \ {"Absent"}
        PROVE  [Outcome!Next]_fate
    <3>1. \A k \in Jobs : k # j => Fate[job'[k].status] = Fate[job[k].status]
      BY <2>2
    <3>2. \/ Fate[job'[j].status] = Fate[job[j].status]
          \/ Fate[job[j].status] = "absent" /\ Fate[job'[j].status] = "waiting"
          \/ Fate[job[j].status] = "waiting" /\ Fate[job'[j].status] \in {"done", "failed"}
      BY <2>2 DEF Fate, Statuses
    <3>3. fate' = [fate EXCEPT ![j] = Fate[job'[j].status]]
      BY <3>1
    <3>4. CASE Fate[job'[j].status] = Fate[job[j].status]
      BY <3>3, <3>4
    <3> QED BY <3>2, <3>3, <3>4 DEF Outcome!Next, Outcome!Move
  <2>3. CASE \E t \in Ticks : TickStep(t)
    <3>1. PICK t \in Ticks : TickStep(t)
      BY <2>3
    <3>2. Grip(t)
      BY <1>2 DEF JobInv
    <3>3. LET j == tick[t].job IN
          /\ j \in Jobs /\ \A k \in Jobs : k # j => job'[k] = job[k]
          /\ job'[j].status \in Statuses
          /\ tick[t].at # "idle"
      BY <1>2, <3>1, TickMoves DEF JobRows
    <3>4. LET j == tick[t].job IN
          /\ job[j].status \in {"Pending", "Running"}
          /\ job'[j].status # "Absent"
      BY <1>2, <3>1, <3>2, <3>3, TickEffects DEF Grip
    <3> QED BY <2>2, <3>3, <3>4
  <2>4. CASE \E e \in Callers, j \in Jobs : Insert(e, j)
    <3>1. PICK e \in Callers, j \in Jobs : Insert(e, j)
      BY <2>4
    <3>2. /\ job[j].status = "Absent" /\ job'[j].status = "Pending"
          /\ \A k \in Jobs : k # j => job'[k] = job[k]
      BY <2>1, <3>1 DEF Insert
    <3> QED BY <2>2, <3>2
  <2>5. CASE StartRunner
    <3>1. \A k \in Jobs : Fate[job'[k].status] = Fate[job[k].status]
      BY <2>1, <2>5 DEF StartRunner, RecoverStuckJobs, Fate, JobRows
    <3> QED BY <3>1
  <2>6. CASE UNCHANGED job
    BY <2>6
  <2> QED BY <1>2, <2>3, <2>4, <2>5, <2>6 DEF Next, Enqueue, Poll, BackoffEnds, Crash
<1>3. UNCHANGED vars => UNCHANGED fate
  BY DEF vars
<1> QED BY <1>1, <1>2, <1>3, JobInvariant, PTL DEF Spec, FollowsJobOutcome, Outcome!Spec

\* Crashes excepted, no job is attempted more often than its budget.
THEOREM JobsWithinBudget ==
    ASSUME PromptClaim
    PROVE  Spec => []AttemptsWithinBudget
<1>1. JobInv => AttemptsWithinBudget
  BY DEF JobInv, Budget, Earned, AttemptsWithinBudget
<1> QED BY <1>1, JobInvariant, PTL

(***************************************************************************)
(* The types, with claims prompt or not: all that they need of the history *)
(* is that a tick under way has a job.                                     *)
(***************************************************************************)
JobTypes ==
    /\ TypeOK
    /\ \A t \in Ticks : tick[t].at # "idle" => tick[t].job \in Jobs

LEMMA WithoutIsTyped ==
    ASSUME due \in Seq(Jobs), NEW j
    PROVE  Without(j) \in Seq(Jobs)
<1>1. CASE \E i \in 1 .. Len(due) : due[i] = j
  <2> DEFINE i == CHOOSE i \in 1 .. Len(due) : due[i] = j
  <2>1. i \in 1 .. Len(due)
    BY <1>1
  <2> HIDE DEF i
  <2>2. SubSeq(due, 1, i - 1) \o SubSeq(due, i + 1, Len(due)) \in Seq(Jobs)
    BY <2>1
  <2> QED BY <1>1, <2>2 DEF Without, i
<1>2. CASE ~\E i \in 1 .. Len(due) : due[i] = j
  BY <1>2 DEF Without
<1> QED BY <1>1, <1>2

LEMMA TickKeepsTypes ==
    ASSUME JobTypes, NEW t \in Ticks, TickStep(t)
    PROVE  JobTypes'
<1> DEFINE j == tick[t].job
<1>1. /\ job \in [Jobs -> JobRows] /\ tick \in [Ticks -> TickStates] /\ due \in Seq(Jobs)
      /\ returned \subseteq Jobs /\ j \in Jobs /\ tick[t].attempt \in Nat
  BY DEF JobTypes, TypeOK, JobRows, TickStates, TickStep, Claim, Refuse, Complete, Retry,
         GiveUp, HandlerReturns, HandlerThrows, WriteFails, At
<1>2. NoTick \in TickStates
  BY DEF NoTick, TickStates
<1>3. ASSUME Return(t)
      PROVE  /\ tick' \in [Ticks -> TickStates]
             /\ \A u \in Ticks : tick'[u].at # "idle" => tick'[u].job \in Jobs
  BY <1>1, <1>2, <1>3 DEF Return, JobTypes, NoTick
<1>4. ASSUME NEW step \in {"refuse", "run", "complete", "fail"}, Goto(t, step)
      PROVE  /\ tick' \in [Ticks -> TickStates]
             /\ \A u \in Ticks : tick'[u].at # "idle" => tick'[u].job \in Jobs
  BY <1>1, <1>4 DEF Goto, JobTypes, TickStates
<1>5. /\ tick' \in [Ticks -> TickStates]
      /\ \A u \in Ticks : tick'[u].at # "idle" => tick'[u].job \in Jobs
  BY <1>3, <1>4 DEF TickStep, Claim, Refuse, Complete, Retry, GiveUp, HandlerReturns,
                    HandlerThrows, WriteFails
<1>6. job' \in [Jobs -> JobRows] /\ due' \in Seq(Jobs) /\ returned' \subseteq Jobs
  <2>1. CASE Claim(t)
    BY <1>1, <2>1 DEF Claim, JobRows, Statuses
  <2>2. CASE Refuse(t) \/ Complete(t) \/ GiveUp(t) \/ Retry(t)
    <3>1. Without(j) \in Seq(Jobs)
      BY <1>1, WithoutIsTyped
    <3>2. job[j] \in JobRows
      BY <1>1
    <3>3. \A status \in Statuses : [job[j] EXCEPT !.status = status] \in JobRows
      BY <3>2 DEF JobRows
    <3>4. [job[j] EXCEPT !.status = "Pending", !.priority = FALSE] \in JobRows
      BY <3>2 DEF JobRows, Statuses
    <3>5. \/ \E status \in Statuses : job' = [job EXCEPT ![j] = [@ EXCEPT !.status = status]]
          \/ job' = [job EXCEPT ![j] = [@ EXCEPT !.status = "Pending", !.priority = FALSE]]
      BY <1>1, <2>2, <3>2 DEF Refuse, Complete, GiveUp, Retry, Finish, Statuses, JobRows
    <3>6. job' \in [Jobs -> JobRows]
      BY <1>1, <3>3, <3>4, <3>5
    <3> QED BY <1>1, <2>2, <3>1, <3>6 DEF Refuse, Complete, GiveUp, Retry, Finish
  <2>3. CASE HandlerReturns(t) \/ HandlerThrows(t) \/ WriteFails(t)
    BY <1>1, <2>3 DEF HandlerReturns, HandlerThrows, WriteFails
  <2> QED BY <2>1, <2>2, <2>3 DEF TickStep
<1>7. UNCHANGED <<caller, up, crashes>>
  BY DEF TickStep, Claim, Refuse, Complete, Retry, GiveUp, HandlerReturns, HandlerThrows, WriteFails
<1> QED BY <1>5, <1>6, <1>7 DEF JobTypes, TypeOK, JobRows, TickStates

LEMMA TypesPreserved ==
    ASSUME JobTypes, [Next]_vars
    PROVE  JobTypes'
<1> USE DEF JobTypes, TypeOK
<1>1. ASSUME NEW e \in Callers, NEW w \in Works, NEW priority \in BOOLEAN, Enqueue(e, w, priority)
      PROVE  JobTypes'
  BY <1>1 DEF Enqueue
<1>2. ASSUME NEW e \in Callers, NEW j \in Jobs, Insert(e, j)
      PROVE  JobTypes'
  <2>1. job' \in [Jobs -> JobRows]
    BY <1>2 DEF Insert, JobRows, Statuses
  <2>2. due' \in Seq(Jobs)
    BY <1>2 DEF Insert
  <2> QED BY <1>2, <2>1, <2>2 DEF Insert, NoCaller, JobRows
<1>3. ASSUME NEW t \in Ticks, NEW j \in Jobs, Poll(t, j)
      PROVE  JobTypes'
  BY <1>3 DEF Poll
<1>4. ASSUME NEW t \in Ticks, TickStep(t)
      PROVE  JobTypes'
  BY <1>4, TickKeepsTypes
<1>5. ASSUME NEW j \in Jobs, BackoffEnds(j)
      PROVE  JobTypes'
  BY <1>5 DEF BackoffEnds
<1>6. CASE Crash
  <2>1. crashes' \in 0 .. MaxCrashes
    BY <1>6, JobAssumption DEF Crash
  <2>2. NoTick \in TickStates /\ NoTick.at = "idle"
    BY DEF NoTick, TickStates
  <2>3. /\ tick' \in [Ticks -> TickStates]
        /\ \A t \in Ticks : tick'[t].at = "idle"
    BY <1>6, <2>2 DEF Crash
  <2>4. caller' \in [Callers -> [at : {"idle", "insert"}, work : Works \cup {"none"},
                                 priority : BOOLEAN]]
    BY <1>6 DEF Crash, NoCaller
  <2> QED BY <1>6, <2>1, <2>3, <2>4 DEF Crash, TickStates
<1>7. CASE StartRunner
  <2>1. \A j \in Jobs : [job[j] EXCEPT !.status = "Pending"] \in JobRows
    <3>1. \A j \in Jobs : job[j] \in JobRows
      BY DEF JobRows
    <3>2. ASSUME NEW row \in JobRows PROVE [row EXCEPT !.status = "Pending"] \in JobRows
      BY DEF JobRows, Statuses
    <3> QED BY <3>1, <3>2
  <2>2. job' \in [Jobs -> JobRows]
    BY <1>7, <2>1 DEF StartRunner, RecoverStuckJobs, JobRows
  <2> QED BY <1>7, <2>2 DEF StartRunner, JobRows
<1>8. CASE UNCHANGED vars
  BY <1>8 DEF vars
<1> QED BY <1>1, <1>2, <1>3, <1>4, <1>5, <1>6, <1>7, <1>8 DEF Next

\* The tables, the ticks and the calls of the job runner keep their types, however
\* many ticks read one job before any of them claims it.
THEOREM QueueIsTyped == Spec => []TypeOK
<1>1. Init => JobTypes
  BY JobAssumption DEF Init, JobTypes, TypeOK, NoJob, NoTick, NoCaller, Statuses
<1>2. JobTypes /\ [Next]_vars => JobTypes'
  BY TypesPreserved
<1>3. JobTypes => TypeOK
  BY DEF JobTypes
<1> QED BY <1>1, <1>2, <1>3, PTL DEF Spec

-----------------------------------------------------------------------------
(* The ledgers: two jobs like any other.                                     *)

RunStates == [at : {"idle", "next", "send", "stamp", "return", "throw"},
              row : Rows \cup {"none"}, todo : SUBSET Rows, failed : BOOLEAN]

\* What the handler run by a tick knows.
Hold(t) ==
    /\ run[t].at # "idle" => tick[t].at = "run"
    /\ run[t].at = "next" => Work(t) = "sync"
    /\ run[t].at \in {"send", "stamp"} =>
          run[t].row \in Rows /\ (Work(t) \in Purchases => run[t].row = Work(t))
    /\ run[t].at = "stamp" => run[t].row \in sent
    /\ run[t].at = "return" /\ Work(t) \in Over => Work(t) \in stamped

\* A log is queued for a purchase whose quote has been accepted.
Wanted ==
    /\ \A e \in Callers :
          caller[e].at = "insert" /\ caller[e].work \in Purchases => caller[e].work \in owed
    /\ \A j \in Jobs :
          job[j].status # "Absent" /\ job[j].work \in Purchases => job[j].work \in owed

Logged ==
    \A j \in returned :
        job[j].status # "Absent" /\ (job[j].work \in Over => job[j].work \in stamped)

LogInv ==
    /\ JobInv
    /\ run \in [Ticks -> RunStates]
    /\ owed \subseteq Rows /\ returned \subseteq Jobs
    /\ stamped \subseteq sent
    /\ \A t \in Ticks : Hold(t)
    /\ Wanted
    /\ Logged

LEMMA HandlerIsTick ==
    ASSUME NEW t \in Ticks, HandlerStep(t)
    PROVE  TickStep(t) \/ UNCHANGED vars
BY DEF HandlerStep, ReadPurchase, ReadBacklog, NextRow, SendMail, StampRow, RowFails, TickStep

\* Every step of the ledgers is one of the queue, or none.
LEMMA LedgerNextIsNext ==
    ASSUME [LedgerNext]_allvars
    PROVE  [Next]_vars
<1>1. CASE \E r \in DeviceRequests : FileDeviceRequest(r)
  BY <1>1 DEF FileDeviceRequest
<1>2. CASE \E e \in Callers, r \in Purchases : AcceptQuote(e, r)
  BY <1>2, LedgerAssumption DEF AcceptQuote, Next
<1>3. CASE \E e \in Callers, priority \in BOOLEAN : QueueSync(e, priority)
  BY <1>3, LedgerAssumption DEF QueueSync, Next
<1>4. CASE \E t \in Ticks : HandlerStep(t)
  BY <1>4, HandlerIsTick DEF Next
<1>5. CASE \E t \in Ticks : RunnerStep(t) /\ UNCHANGED ledger
  BY <1>5 DEF RunnerStep, TickStep, Next
<1>6. CASE UNCHANGED allvars
  BY <1>6 DEF allvars
<1> QED BY <1>1, <1>2, <1>3, <1>4, <1>5, <1>6 DEF LedgerNext, Next

\* The ledgers' handlers run on the queue as JobRunner has it, so that all that is
\* proved of the queue is true of their jobs.
THEOREM LedgersAreJobs == LedgerSpec => Spec
<1>1. LedgerInit => Init
  BY DEF LedgerInit
<1> QED BY <1>1, LedgerNextIsNext, PTL DEF LedgerSpec, Spec

LEMMA LogInit == LedgerInit => LogInv
<1> SUFFICES ASSUME LedgerInit PROVE LogInv
  OBVIOUS
<1>1. JobInv
  BY JobInit DEF LedgerInit
<1>2. run \in [Ticks -> RunStates]
  BY DEF LedgerInit, NotRunning, RunStates
<1> QED BY <1>1, <1>2
    DEF LedgerInit, Init, LogInv, Hold, NotRunning, Wanted, Logged, NoCaller, NoJob

\* A job keeps its work.
LEMMA WorkStays ==
    ASSUME JobInv, [Next]_vars
    PROVE  \A j \in Jobs : job[j].status # "Absent" =>
               job'[j].status # "Absent" /\ job'[j].work = job[j].work
<1>1. job \in [Jobs -> JobRows]
  BY DEF JobInv, Typed
<1>2. CASE \E t \in Ticks : TickStep(t)
  <2>1. PICK t \in Ticks : TickStep(t)
    BY <1>2
  <2>2. Grip(t) /\ tick[t].at # "idle"
    BY <2>1, TickMoves DEF JobInv
  <2>3. LET j == tick[t].job IN
        /\ job'[j].work = job[j].work /\ job'[j].status # "Absent"
        /\ \A k \in Jobs : k # j => job'[k] = job[k]
    BY <2>1, <2>2, TickMoves, TickEffects DEF Grip
  <2> QED BY <2>3
<1>3. CASE \E e \in Callers, j \in Jobs : Insert(e, j)
  BY <1>1, <1>3 DEF Insert
<1>4. CASE StartRunner
  BY <1>1, <1>4 DEF StartRunner, RecoverStuckJobs, JobRows
<1>5. CASE UNCHANGED job
  BY <1>5
<1> QED BY <1>2, <1>3, <1>4, <1>5 DEF Next, Enqueue, Poll, BackoffEnds, Crash, vars

\* What a handler does to its own state, and to the ledger.
LEMMA HandlerMoves ==
    ASSUME LogInv, NEW t \in Ticks, HandlerStep(t)
    PROVE  /\ run' \in [Ticks -> RunStates]
           /\ \A u \in Ticks : u # t => run'[u] = run[u] /\ tick'[u] = tick[u]
           /\ stamped' \subseteq sent' /\ stamped \subseteq stamped' /\ sent \subseteq sent'
           /\ UNCHANGED <<owed, caller, job>>
<1>1. /\ run \in [Ticks -> RunStates] /\ owed \subseteq Rows /\ stamped \subseteq sent
      /\ tick \in [Ticks -> TickStates] /\ run[t] \in RunStates /\ Hold(t)
  BY DEF LogInv, JobInv, Typed
<1>2. ASSUME NEW new \in RunStates, run' = [run EXCEPT ![t] = new]
      PROVE  /\ run' \in [Ticks -> RunStates]
             /\ \A u \in Ticks : u # t => run'[u] = run[u]
  BY <1>1, <1>2
<1>3. CASE ReadPurchase(t)
  <2> DEFINE new == [run[t] EXCEPT !.row = Work(t),
                                  !.at = IF Qualifies(Work(t)) /\ Work(t) \notin stamped
                                         THEN "send" ELSE "return"]
  <2>1. new \in RunStates
    BY <1>1, <1>3 DEF ReadPurchase, RunStates, Rows
  <2>2. run' = [run EXCEPT ![t] = new]
    BY <1>1, <1>3 DEF ReadPurchase, Proceed
  <2> QED BY <1>1, <1>2, <1>3, <2>1, <2>2 DEF ReadPurchase, vars
<1>4. CASE ReadBacklog(t)
  <2> DEFINE new == [run[t] EXCEPT !.at = "next", !.todo = (owed \cap DeviceRequests) \ stamped]
  <2>1. new \in RunStates
    BY <1>1, <1>4 DEF ReadBacklog, RunStates, Rows
  <2>2. run' = [run EXCEPT ![t] = new]
    BY <1>1, <1>4 DEF ReadBacklog, Proceed
  <2> QED BY <1>1, <1>2, <1>4, <2>1, <2>2 DEF ReadBacklog, vars
<1>5. CASE NextRow(t)
  <2>1. CASE run[t].todo = {}
    <3> DEFINE new == [run[t] EXCEPT !.at = IF run[t].failed THEN "throw" ELSE "return"]
    <3>1. new \in RunStates
      BY <1>1 DEF RunStates
    <3>2. run' = [run EXCEPT ![t] = new]
      BY <1>1, <1>5, <2>1 DEF NextRow, Proceed
    <3> QED BY <1>1, <1>2, <1>5, <3>1, <3>2 DEF NextRow, vars
  <2>2. CASE run[t].todo # {}
    <3>1. PICK r \in run[t].todo :
            run' = [run EXCEPT ![t].at = "send", ![t].row = r, ![t].todo = @ \ {r}]
      BY <1>5, <2>2 DEF NextRow
    <3> DEFINE new == [run[t] EXCEPT !.at = "send", !.row = r, !.todo = @ \ {r}]
    <3>2. new \in RunStates
      BY <1>1 DEF RunStates
    <3>3. run' = [run EXCEPT ![t] = new]
      BY <1>1, <3>1
    <3> QED BY <1>1, <1>2, <1>5, <3>2, <3>3 DEF NextRow, vars
  <2> QED BY <2>1, <2>2
<1>6. CASE SendMail(t)
  <2> DEFINE new == [run[t] EXCEPT !.at = "stamp"]
  <2>1. new \in RunStates
    BY <1>1, <1>6 DEF SendMail, RunStates, Rows
  <2>2. run' = [run EXCEPT ![t] = new]
    BY <1>1, <1>6 DEF SendMail, Proceed
  <2> QED BY <1>1, <1>2, <1>6, <2>1, <2>2 DEF SendMail, vars
<1>7. CASE StampRow(t)
  <2> DEFINE new == [run[t] EXCEPT !.at = AfterRow(t)]
  <2>1. new \in RunStates
    BY <1>1, <1>7 DEF StampRow, RunStates, Rows, AfterRow
  <2>2. run' = [run EXCEPT ![t] = new]
    BY <1>1, <1>7 DEF StampRow, Proceed
  <2> QED BY <1>1, <1>2, <1>7, <2>1, <2>2 DEF StampRow, vars, Hold, RunAt
<1>8. CASE RowFails(t)
  <2> DEFINE new == [run[t] EXCEPT !.failed = TRUE,
                                  !.at = IF Work(t) = "sync" THEN "next" ELSE "throw"]
  <2>1. new \in RunStates
    BY <1>1, <1>8 DEF RowFails, RunStates, Rows
  <2>2. run' = [run EXCEPT ![t] = new]
    BY <1>1, <1>8 DEF RowFails, Proceed
  <2> QED BY <1>1, <1>2, <1>8, <2>1, <2>2 DEF RowFails, vars
<1>9. ASSUME NEW step, Ends(t, step), HandlerReturns(t) \/ HandlerThrows(t)
      PROVE  /\ run' \in [Ticks -> RunStates]
             /\ \A u \in Ticks : u # t => run'[u] = run[u] /\ tick'[u] = tick[u]
             /\ UNCHANGED <<owed, caller, job, sent, stamped>>
  BY <1>1, <1>9 DEF Ends, NotRunning, RunStates, HandlerReturns, HandlerThrows, Goto
<1> QED BY <1>1, <1>3, <1>4, <1>5, <1>6, <1>7, <1>8, <1>9
    DEF HandlerStep, vars, ReadPurchase, ReadBacklog, NextRow, SendMail, StampRow, RowFails

LEMMA HandlerHolds ==
    ASSUME LogInv, NEW t \in Ticks, HandlerStep(t)
    PROVE  Hold(t)' /\ returned' \subseteq Jobs /\ Logged'
<1>1. /\ run \in [Ticks -> RunStates] /\ owed \subseteq Rows /\ returned \subseteq Jobs
      /\ tick \in [Ticks -> TickStates] /\ run[t] \in RunStates /\ tick[t] \in TickStates
      /\ Hold(t) /\ Logged /\ Wanted /\ stamped \subseteq stamped'
      /\ run'[t] \in RunStates /\ UNCHANGED job
  BY HandlerMoves DEF LogInv, JobInv, Typed
<1>2. /\ tick[t].at = "run" /\ tick[t].job \in Jobs /\ job[tick[t].job].status = "Running"
  <2>1. tick[t].at = "run"
    BY DEF HandlerStep, ReadPurchase, ReadBacklog, NextRow, SendMail, StampRow, RowFails,
           Starts, RunAt, At, HandlerReturns, HandlerThrows
  <2> QED BY <2>1 DEF LogInv, JobInv, Grip
<1>3. Work(t) \in Purchases => Work(t) \in owed /\ Work(t) # "sync"
  BY <1>1, <1>2, LedgerAssumption DEF Wanted, Work
<1>5. CASE ReadPurchase(t) \/ ReadBacklog(t) \/ NextRow(t) \/ SendMail(t) \/ StampRow(t)
           \/ RowFails(t)
  <2>0. UNCHANGED vars
    BY <1>5 DEF ReadPurchase, ReadBacklog, NextRow, SendMail, StampRow, RowFails
  <2>1. tick' = tick /\ returned' = returned /\ Work(t)' = Work(t)
    BY <2>0 DEF vars, Work
  <2>2. Logged' /\ returned' \subseteq Jobs
    BY <1>1, <2>1 DEF Logged
  <2>3. CASE ReadPurchase(t)
    <3>1. /\ run'[t].row = Work(t) /\ Work(t) \in Purchases /\ UNCHANGED stamped
          /\ run'[t].at = IF Qualifies(Work(t)) /\ Work(t) \notin stamped
                          THEN "send" ELSE "return"
      BY <1>1, <2>3 DEF ReadPurchase, RunStates
    <3> QED BY <1>2, <1>3, <2>1, <2>2, <3>1 DEF Hold, Qualifies, Rows
  <2>4. CASE ReadBacklog(t)
    BY <1>1, <1>2, <2>1, <2>2, <2>4 DEF ReadBacklog, Hold, RunStates
  <2>5. CASE NextRow(t)
    <3>1. Work(t) = "sync" /\ run[t].todo \subseteq Rows
      BY <1>1, <2>5 DEF NextRow, RunAt, Hold, RunStates
    <3>2. Work(t) \notin Purchases /\ Work(t) \notin Over
      BY <3>1, LedgerAssumption
    <3>3. run'[t].at \in {"return", "throw"} \/ (run'[t].at = "send" /\ run'[t].row \in Rows)
      <4>1. CASE run[t].todo = {}
        BY <1>1, <2>5, <4>1 DEF NextRow, Proceed, RunStates
      <4>2. CASE run[t].todo # {}
        <5>1. PICK r \in run[t].todo :
                run' = [run EXCEPT ![t].at = "send", ![t].row = r, ![t].todo = @ \ {r}]
          BY <2>5, <4>2 DEF NextRow
        <5> QED BY <1>1, <3>1, <5>1 DEF RunStates
      <4> QED BY <4>1, <4>2
    <3> QED BY <1>2, <2>1, <2>2, <3>1, <3>2, <3>3 DEF Hold
  <2>6. CASE SendMail(t)
    <3>1. /\ run'[t].at = "stamp" /\ run'[t].row = run[t].row /\ run[t].row \in sent'
          /\ run[t].at = "send"
      BY <1>1, <2>6 DEF SendMail, Proceed, RunAt, RunStates
    <3> QED BY <1>1, <1>2, <2>1, <2>2, <3>1 DEF Hold
  <2>7. CASE StampRow(t)
    <3>1. /\ run'[t].at = AfterRow(t) /\ run[t].row \in stamped' /\ run[t].at = "stamp"
      BY <1>1, <2>7 DEF StampRow, Proceed, RunAt, RunStates
    <3>2. Work(t) \in Over => Work(t) \in stamped'
      BY <1>1, <3>1, LedgerAssumption DEF Hold
    <3> QED BY <1>2, <2>1, <2>2, <3>1, <3>2 DEF Hold, AfterRow
  <2>8. CASE RowFails(t)
    <3>1. run'[t].at = IF Work(t) = "sync" THEN "next" ELSE "throw"
      BY <1>1, <2>8 DEF RowFails, RunStates
    <3> QED BY <1>2, <2>1, <2>2, <3>1 DEF Hold
  <2> QED BY <1>5, <2>3, <2>4, <2>5, <2>6, <2>7, <2>8
<1>6. CASE Ends(t, "return") /\ HandlerReturns(t)
  <2>1. /\ run'[t].at = "idle" /\ returned' = returned \cup {tick[t].job}
        /\ UNCHANGED stamped /\ run[t].at = "return"
    BY <1>1, <1>6 DEF Ends, HandlerReturns, NotRunning, RunAt
  <2>2. job[tick[t].job].work \in Over => job[tick[t].job].work \in stamped
    BY <1>1, <2>1 DEF Hold, Work
  <2> QED BY <1>1, <1>2, <2>1, <2>2 DEF Hold, Logged
<1>7. CASE Ends(t, "throw") /\ HandlerThrows(t)
  BY <1>1, <1>7 DEF Ends, HandlerThrows, NotRunning, Hold, Logged
<1> QED BY <1>5, <1>6, <1>7 DEF HandlerStep

LEMMA HandlerKeeps ==
    ASSUME PromptClaim, LogInv, NEW t \in Ticks, HandlerStep(t)
    PROVE  LogInv'
<1>1. JobInv'
  <2>1. [Next]_vars
    BY HandlerIsTick DEF Next
  <2> QED BY <2>1, JobNext DEF LogInv
<1>2. \A u \in Ticks : Hold(u)'
  <2>1. ASSUME NEW u \in Ticks, u # t PROVE Hold(u)'
    BY <2>1, HandlerMoves DEF LogInv, Hold, Work
  <2> QED BY <2>1, HandlerHolds
<1>3. Wanted'
  BY HandlerMoves DEF LogInv, Wanted
<1> QED BY <1>1, <1>2, <1>3, HandlerMoves, HandlerHolds DEF LogInv

\* The runner's own steps, and those of everybody else, leave a handler alone.
LEMMA RunnerKeeps ==
    ASSUME PromptClaim, LogInv, [LedgerNext]_allvars, ~\E t \in Ticks : HandlerStep(t)
    PROVE  LogInv'
<1>1. [Next]_vars /\ JobInv'
  BY LedgerNextIsNext, JobNext DEF LogInv
<1>2. /\ tick \in [Ticks -> TickStates] /\ run \in [Ticks -> RunStates]
      /\ job \in [Jobs -> JobRows] /\ owed \subseteq Rows /\ returned \subseteq Jobs
      /\ caller \in [Callers -> [at : {"idle", "insert"}, work : Works \cup {"none"},
                                 priority : BOOLEAN]]
  BY DEF LogInv, JobInv, Typed
<1>3. /\ UNCHANGED <<returned, sent, stamped>> /\ owed \subseteq owed' /\ owed' \subseteq Rows
  BY <1>2 DEF LedgerNext, allvars, vars, ledger, FileDeviceRequest, AcceptQuote, QueueSync,
              Enqueue, RunnerStep, Claim, Complete, Retry, GiveUp, Insert, Poll, BackoffEnds,
              Crash, StartRunner, Rows
<1>4. ASSUME NEW t \in Ticks PROVE run'[t] \in RunStates /\ Hold(t)'
  <2>1. CASE Crash /\ run' = [u \in Ticks |-> NotRunning]
    BY <2>1 DEF Hold, NotRunning, RunStates
  <2>2. CASE run'[t] = run[t] /\ (tick[t].at = "run" => tick'[t] = tick[t])
    <3>1. tick[t].at = "run" =>
            tick[t].job \in Jobs /\ job[tick[t].job].status = "Running"
      BY DEF LogInv, JobInv, Grip
    <3>2. tick[t].at = "run" => Work(t)' = Work(t)
      BY <1>1, <2>2, <3>1, WorkStays DEF LogInv, Work
    <3> QED BY <1>2, <1>3, <2>2, <3>2 DEF LogInv, Hold
  <2>3. CASE \E u \in Ticks : RunnerStep(u) /\ UNCHANGED ledger
    <3>1. PICK u \in Ticks : RunnerStep(u) /\ UNCHANGED ledger
      BY <2>3
    <3>2. tick[u].at # "run" /\ (t # u => tick'[t] = tick[t])
      BY <1>2, <3>1 DEF RunnerStep, Claim, Complete, Retry, GiveUp, At, Goto, Return
    <3> QED BY <2>2, <3>1, <3>2 DEF ledger
  <2>4. CASE \E u \in Ticks, j \in Jobs : Poll(u, j) /\ UNCHANGED ledger
    <3>1. PICK u \in Ticks, j \in Jobs : Poll(u, j) /\ UNCHANGED ledger
      BY <2>4
    <3>2. tick[u].at # "run" /\ (t # u => tick'[t] = tick[t])
      BY <1>2, <3>1 DEF Poll
    <3> QED BY <2>2, <3>1, <3>2 DEF ledger
  <2> QED BY <2>1, <2>2, <2>3, <2>4
      DEF LedgerNext, allvars, vars, ledger, FileDeviceRequest, AcceptQuote, QueueSync, Enqueue,
          Insert, BackoffEnds, StartRunner
<1>5. run' \in [Ticks -> RunStates]
  <2>1. run' = [t \in Ticks |-> run'[t]]
    BY <1>2 DEF LedgerNext, allvars, ledger, FileDeviceRequest, AcceptQuote, QueueSync
  <2> QED BY <1>4, <2>1
<1>6. Wanted'
  <2>1. ASSUME NEW e \in Callers, caller'[e].at = "insert", caller'[e].work \in Purchases
        PROVE  caller'[e].work \in owed'
    <3>1. CASE \E d \in Callers, r \in Purchases : AcceptQuote(d, r)
      <4>1. PICK d \in Callers, r \in Purchases : AcceptQuote(d, r)
        BY <3>1
      <4>2. /\ r \in owed' /\ caller'[d].work = r
            /\ e # d => caller'[e] = caller[e]
        BY <1>2, <4>1 DEF AcceptQuote, Enqueue
      <4> QED BY <1>3, <2>1, <4>2 DEF LogInv, Wanted
    <3>2. CASE \E d \in Callers, priority \in BOOLEAN : QueueSync(d, priority)
      <4>1. PICK d \in Callers, priority \in BOOLEAN : QueueSync(d, priority)
        BY <3>2
      <4>2. /\ caller'[d].work = "sync"
            /\ e # d => caller'[e] = caller[e]
        BY <1>2, <4>1 DEF QueueSync, Enqueue
      <4>3. e # d
        BY <2>1, <4>2, LedgerAssumption
      <4>4. caller[e].work \in owed
        BY <2>1, <4>2, <4>3 DEF LogInv, Wanted
      <4> QED BY <1>3, <4>2, <4>3, <4>4
    <3>3. CASE caller'[e].at = "idle" \/ caller'[e] = caller[e]
      BY <1>3, <2>1, <3>3 DEF LogInv, Wanted
    <3>4. CASE \E d \in Callers, j \in Jobs : Insert(d, j)
      BY <1>2, <3>3, <3>4 DEF Insert, NoCaller
    <3>5. CASE Crash
      BY <3>3, <3>5 DEF Crash, NoCaller
    <3> QED BY <3>1, <3>2, <3>3, <3>4, <3>5
        DEF LedgerNext, allvars, vars, FileDeviceRequest, RunnerStep, Claim, Complete, Retry,
            GiveUp, Poll, BackoffEnds, StartRunner
  <2>2. ASSUME NEW j \in Jobs, job'[j].status # "Absent", job'[j].work \in Purchases
        PROVE  job'[j].work \in owed'
    <3>1. CASE job[j].status # "Absent"
      BY <1>1, <1>3, <2>2, <3>1, WorkStays DEF LogInv, Wanted
    <3>2. CASE \E e \in Callers, k \in Jobs : Insert(e, k)
      <4>1. PICK e \in Callers, k \in Jobs : Insert(e, k)
        BY <3>2
      <4>2. /\ caller[e].at = "insert" /\ job'[k].work = caller[e].work
            /\ j # k => job'[j] = job[j]
        BY <1>2, <4>1 DEF Insert
      <4> QED BY <1>3, <2>2, <4>2 DEF LogInv, Wanted
    <3>3. CASE job'[j] = job[j]
      BY <1>3, <2>2, <3>3 DEF LogInv, Wanted
    <3>4. CASE \E u \in Ticks : TickStep(u)
      <4>1. PICK u \in Ticks : TickStep(u)
        BY <3>4
      <4>2. job[tick[u].job].status # "Absent" /\ (j # tick[u].job => job'[j] = job[j])
        BY <4>1, TickMoves DEF LogInv, JobInv, Grip
      <4> QED BY <3>1, <3>3, <4>2
    <3>5. CASE StartRunner
      BY <1>2, <3>1, <3>3, <3>5 DEF StartRunner, RecoverStuckJobs
    <3> QED BY <1>1, <3>2, <3>3, <3>4, <3>5
        DEF Next, vars, Enqueue, Poll, BackoffEnds, Crash
  <2> QED BY <2>1, <2>2 DEF Wanted
<1>7. Logged'
  BY <1>1, <1>2, <1>3, WorkStays DEF LogInv, Logged
<1> QED BY <1>1, <1>2, <1>3, <1>4, <1>5, <1>6, <1>7 DEF LogInv

LEMMA LogInvariant ==
    ASSUME PromptClaim
    PROVE  LedgerSpec => []LogInv
<1>1. LogInv /\ [LedgerNext]_allvars => LogInv'
  BY HandlerKeeps, RunnerKeeps
<1> QED BY <1>1, LogInit, PTL DEF LedgerSpec

\* A stamped row has been sent, and a log job that is done has stamped its
\* purchase, over any number of failed sends, lost stamps, retries and crashes.
THEOREM LedgersLoseNothing ==
    ASSUME PromptClaim
    PROVE  LedgerSpec => []NoRowIsLost
<1>1. LogInv => NoRowIsLost
  <2> SUFFICES ASSUME LogInv, NEW r \in Over, NEW j \in Jobs, job[j].work = r,
                      job[j].status = "Completed" \/ j \in returned
               PROVE  r \in stamped
    BY DEF LogInv, NoRowIsLost
  <2>1. j \in returned
    BY DEF LogInv, JobInv, Earned
  <2> QED BY <2>1 DEF LogInv, Logged
<1> QED BY <1>1, LogInvariant, PTL
=============================================================================
