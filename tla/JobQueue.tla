------------------------------ MODULE JobQueue ------------------------------
(***************************************************************************)
(* The PostgreSQL job queue of one job type and the runners that serve it: *)
(* jobs/job-repository.ts (one action per statement), the claim loop and   *)
(* the executions of jobs/job-runner.ts, and the budget of job-policy.ts.  *)
(*                                                                         *)
(* A row of the jobs table is identified with its unique idempotency key.  *)
(* Timestamps are kept relative to the clock: `lease` is the number of     *)
(* ticks until leased_until and `delay` the number until available_at, so  *)
(* no clock value is ever bounded.  An execution is the promise            *)
(* JobRunner.execute runs in one of the `Slot`s (concurrencyFor(type)) of  *)
(* its runner; it outlives the lease it was started under.                 *)
(***************************************************************************)
EXTENDS Naturals, FiniteSets

CONSTANTS
  Job,             \* idempotency keys of jobs of this type
  Worker,          \* runners, by workerId
  Slot,            \* executions one runner may have in flight for the type
  PolicyAttempts,  \* jobPolicy(type).maxAttempts
  Budgets,         \* max_attempts values an enqueue may store on a row
  LeaseTicks,      \* jobPolicy(type).leaseMs, in ticks
  MaxDelay,        \* longest backoff, in ticks
  MaxRequeues,     \* bound: admin recoveries of one job
  NoJob, NoWorker

ASSUME PolicyAssumption ==
  /\ PolicyAttempts \in Nat \ {0}
  /\ Budgets \subseteq Nat \ {0}
  /\ LeaseTicks \in Nat \ {0}
  /\ MaxDelay \in Nat \ {0}
  /\ MaxRequeues \in Nat

ASSUME NullAssumption == NoJob \notin Job /\ NoWorker \notin Worker

VARIABLES
  row,       \* row[j]: the jobs row of key j
  run,       \* run[w][s]: the execution in slot s of runner w
  claims,    \* history: claims[j] counts the claims of j ever made
  requeues   \* history: requeues[j] counts admin recoveries of j

vars == <<row, run, claims, requeues>>

Waiting  == {"queued", "retry_wait"}
Terminal == {"succeeded", "dead", "cancelled"}
JobState == Waiting \cup Terminal \cup {"running"}

Row == [state : JobState \cup {"absent"}, attempt : Nat, max : Nat,
        worker : Worker \cup {NoWorker}, lease : Nat, delay : Nat]

Execution == [phase : {"idle", "handling", "failing"}, job : Job \cup {NoJob},
              claim : Nat, alive : BOOLEAN, seen : Nat, permanent : BOOLEAN]

AbsentRow == [state |-> "absent", attempt |-> 0, max |-> 0,
              worker |-> NoWorker, lease |-> 0, delay |-> 0]

Idle == [phase |-> "idle", job |-> NoJob, claim |-> 0, alive |-> FALSE,
         seen |-> 0, permanent |-> FALSE]

TypeOK ==
  /\ row \in [Job -> Row]
  /\ run \in [Worker -> [Slot -> Execution]]
  /\ claims \in [Job -> Nat]
  /\ requeues \in [Job -> Nat]

Init ==
  /\ row = [j \in Job |-> AbsentRow]
  /\ run = [w \in Worker |-> [s \in Slot |-> Idle]]
  /\ claims = [j \in Job |-> 0]
  /\ requeues = [j \in Job |-> 0]

-----------------------------------------------------------------------------
(* Seeded faults, each a plausible slip in the definition it is named for. *)
(* `Holds` without the worker id.                                          *)
HoldsAnyWorker(w, j) == row[j].state = "running"

(* A failure that never exhausts the budget.                               *)
NextFailureStateLenient(attempt, permanent) ==
  IF permanent \/ attempt > PolicyAttempts THEN "dead" ELSE "retry_wait"

(* A completion without the where clause: it writes whatever the row shows. *)
CompleteUnconditionally(w, s) ==
  LET e == run[w][s] IN
  /\ e.phase = "handling"
  /\ row' = [row EXCEPT ![e.job].state = "succeeded", ![e.job].worker = NoWorker,
                        ![e.job].lease = 0]
  /\ run' = [run EXCEPT ![w][s] = Idle]
  /\ UNCHANGED <<claims, requeues>>

(* A wake that also gives the waiting row a fresh budget.                  *)
EnqueueResetsBudget(j, budget, delay) ==
  /\ row[j].state \in {"absent"} \cup Waiting
  /\ row' = [row EXCEPT ![j] = [AbsentRow EXCEPT !.state = "queued",
                                   !.max = budget, !.delay = delay]]
  /\ UNCHANGED <<run, claims, requeues>>

(* A reclaim that only takes rows with attempts left.                      *)
ReclaimKeepsRunning ==
  /\ \E j \in Job : row[j].state = "running" /\ row[j].lease = 0
  /\ row' = [j \in Job |->
       IF row[j].state = "running" /\ row[j].lease = 0 /\ row[j].attempt < row[j].max
       THEN [row[j] EXCEPT !.state = "retry_wait", !.worker = NoWorker]
       ELSE row[j]]
  /\ UNCHANGED <<run, claims, requeues>>

-----------------------------------------------------------------------------
Earlier(a, b) == IF a <= b THEN a ELSE b

OneLess(n) == IF n > 0 THEN n - 1 ELSE 0

(* The where clause of heartbeat, complete and fail: id, worker and state,  *)
(* and nothing that names the claim.                                       *)
Holds(w, j) == row[j].state = "running" /\ row[j].worker = w

Due(j) ==
  /\ row[j].state \in Waiting
  /\ row[j].delay = 0
  /\ row[j].attempt < row[j].max

(* What the updates write to a row.                                        *)
Queued(budget, delay) ==
  [AbsentRow EXCEPT !.state = "queued", !.max = budget, !.delay = delay]

Claimed(r, w) ==
  [r EXCEPT !.state = "running", !.worker = w, !.lease = LeaseTicks, !.attempt = @ + 1]

Renewed(r) == [r EXCEPT !.lease = LeaseTicks]

Released(r, state) ==
  [r EXCEPT !.state = state, !.worker = NoWorker, !.lease = 0]

(* An execution as it is launched, and as its failure is being recorded:   *)
(* fail() judges it by the attempt the row shows now, whoever claimed it.  *)
Launched(j) ==
  [Idle EXCEPT !.phase = "handling", !.job = j, !.claim = claims[j] + 1, !.alive = TRUE]

Failing(e, permanent) ==
  [e EXCEPT !.phase = "failing", !.permanent = permanent, !.seen = row[e.job].attempt]

SetRow(j, r) == row' = [row EXCEPT ![j] = r]

SetRun(w, s, e) == run' = [run EXCEPT ![w][s] = e]

NextFailureState(attempt, permanent) ==
  IF permanent \/ attempt >= PolicyAttempts THEN "dead" ELSE "retry_wait"

-----------------------------------------------------------------------------
(* JobRepository.enqueue: insert, or wake the row that still waits.  A row  *)
(* that runs or is terminal is left as it is, which is a stuttering step.  *)
Enqueue(j, budget, delay) ==
  /\ \/ /\ row[j].state = "absent"
        /\ SetRow(j, Queued(budget, delay))
     \/ /\ row[j].state \in Waiting
        /\ SetRow(j, [Released(row[j], "queued") EXCEPT !.delay = Earlier(@, delay)])
  /\ UNCHANGED <<run, claims, requeues>>

(* JobRunner.runOnce from the demand on: JobRepository.claim takes due rows *)
(* for the free slots and each is launched.  `for update skip locked`      *)
(* may pass over rows, so any non-empty part of the demand can be served.  *)
Claim(w, asg) ==
  /\ \A s \in DOMAIN asg : run[w][s].phase = "idle" /\ Due(asg[s])
  /\ \A s, u \in DOMAIN asg : asg[s] = asg[u] => s = u
  /\ row' = [j \in Job |->
       IF \E s \in DOMAIN asg : asg[s] = j THEN Claimed(row[j], w) ELSE row[j]]
  /\ claims' = [j \in Job |->
       IF \E s \in DOMAIN asg : asg[s] = j THEN claims[j] + 1 ELSE claims[j]]
  /\ run' = [run EXCEPT ![w] = [s \in Slot |->
       IF s \in DOMAIN asg THEN Launched(asg[s]) ELSE run[w][s]]]
  /\ UNCHANGED requeues

Assignments ==
  UNION {[S -> Job] : S \in (SUBSET Slot) \ {{}}}

(* The interval heartbeat of JobRunner.execute.  It is a fire-and-forget   *)
(* statement, so it also runs while the handler's outcome is being stored. *)
IntervalBeat(w, s) ==
  LET e == run[w][s] IN
  /\ e.phase # "idle"
  /\ \/ /\ Holds(w, e.job)
        /\ SetRow(e.job, Renewed(row[e.job]))
        /\ UNCHANGED run
     \/ /\ ~Holds(w, e.job)
        /\ SetRun(w, s, [e EXCEPT !.alive = FALSE])
        /\ UNCHANGED row
  /\ UNCHANGED <<claims, requeues>>

(* JobContext.heartbeat called by the handler: false without a statement   *)
(* when an earlier beat found the lease lost; a handler that is told so    *)
(* gives up (media-processing-service.ts throws JobLeaseLostError).        *)
HandlerBeat(w, s) ==
  LET e == run[w][s] IN
  /\ e.phase = "handling"
  /\ \/ /\ e.alive /\ Holds(w, e.job)
        /\ SetRow(e.job, Renewed(row[e.job]))
        /\ UNCHANGED run
     \/ /\ ~(e.alive /\ Holds(w, e.job))
        /\ SetRun(w, s, Failing(e, FALSE))
        /\ UNCHANGED row
  /\ UNCHANGED <<claims, requeues>>

(* The handler returns and JobRepository.complete runs; its result is      *)
(* ignored, so an execution that lost its lease ends the same way.         *)
Complete(w, s) ==
  LET e == run[w][s] IN
  /\ e.phase = "handling"
  /\ IF Holds(w, e.job) THEN SetRow(e.job, Released(row[e.job], "succeeded"))
                        ELSE UNCHANGED row
  /\ SetRun(w, s, Idle)
  /\ UNCHANGED <<claims, requeues>>

(* complete() throws: the statement failed, or it committed and the reply  *)
(* was lost.  The catch branch then treats the finished work as a failure. *)
CompleteErrors(w, s) ==
  LET e == run[w][s] IN
  /\ e.phase = "handling"
  /\ \/ UNCHANGED row
     \/ /\ Holds(w, e.job)
        /\ SetRow(e.job, Released(row[e.job], "succeeded"))
  /\ SetRun(w, s, Failing(e, FALSE))
  /\ UNCHANGED <<claims, requeues>>

(* The handler throws; a JobPermanentError is final.                       *)
HandlerThrows(w, s, permanent) ==
  /\ run[w][s].phase = "handling"
  /\ SetRun(w, s, Failing(run[w][s], permanent))
  /\ UNCHANGED <<row, claims, requeues>>

(* JobRepository.fail from its update on.  The backoff counts from before  *)
(* the read, so some or all of it may have passed.                         *)
Fail(w, s, backoff) ==
  LET e     == run[w][s]
      state == NextFailureState(e.seen, e.permanent)
  IN
  /\ e.phase = "failing"
  /\ IF Holds(w, e.job)
     THEN SetRow(e.job, [Released(row[e.job], state) EXCEPT
                           !.delay = IF state = "dead" THEN @ ELSE backoff])
     ELSE UNCHANGED row
  /\ SetRun(w, s, Idle)
  /\ UNCHANGED <<claims, requeues>>

(* fail() itself throws and is swallowed: the row stays running until its  *)
(* lease expires.                                                          *)
FailErrors(w, s) ==
  /\ run[w][s].phase = "failing"
  /\ SetRun(w, s, Idle)
  /\ UNCHANGED <<row, claims, requeues>>

(* JobRepository.reclaimExpiredLeases, one statement over all rows.        *)
Expired(j) == row[j].state = "running" /\ row[j].lease = 0

Reclaim ==
  /\ \E j \in Job : Expired(j)
  /\ row' = [j \in Job |->
       IF Expired(j)
       THEN Released(row[j], IF row[j].attempt >= row[j].max THEN "dead" ELSE "retry_wait")
       ELSE row[j]]
  /\ UNCHANGED <<run, claims, requeues>>

(* JobRepository.requeue: admin recovery of a dead job.                    *)
Requeue(j) ==
  /\ row[j].state = "dead"
  /\ requeues[j] < MaxRequeues
  /\ SetRow(j, [row[j] EXCEPT !.state = "queued", !.attempt = 0, !.delay = 0])
  /\ requeues' = [requeues EXCEPT ![j] = @ + 1]
  /\ UNCHANGED <<run, claims>>

(* JobRepository.cancel.                                                   *)
Cancel(j) ==
  /\ row[j].state \in Waiting
  /\ SetRow(j, [row[j] EXCEPT !.state = "cancelled"])
  /\ UNCHANGED <<run, claims, requeues>>

(* The process of runner w dies and restarts: its executions are gone, its *)
(* rows stay.                                                              *)
Crash(w) ==
  /\ \E s \in Slot : run[w][s].phase # "idle"
  /\ run' = [run EXCEPT ![w] = [s \in Slot |-> Idle]]
  /\ UNCHANGED <<row, claims, requeues>>

(* The clock: nothing ties it to the heartbeats, so a beat may come late.  *)
Tick ==
  /\ \E j \in Job : row[j].lease > 0 \/ row[j].delay > 0
  /\ row' = [j \in Job |->
       [row[j] EXCEPT !.lease = OneLess(@), !.delay = OneLess(@)]]
  /\ UNCHANGED <<run, claims, requeues>>

-----------------------------------------------------------------------------
ExecutionStep(w, s) ==
  \/ IntervalBeat(w, s)
  \/ HandlerBeat(w, s)
  \/ Complete(w, s)
  \/ CompleteErrors(w, s)
  \/ \E permanent \in BOOLEAN : HandlerThrows(w, s, permanent)
  \/ \E backoff \in 0..MaxDelay : Fail(w, s, backoff)
  \/ FailErrors(w, s)

Next ==
  \/ \E j \in Job, budget \in Budgets, delay \in 0..MaxDelay : Enqueue(j, budget, delay)
  \/ \E w \in Worker, asg \in Assignments : Claim(w, asg)
  \/ \E w \in Worker, s \in Slot : ExecutionStep(w, s)
  \/ Reclaim
  \/ \E j \in Job : Requeue(j)
  \/ \E j \in Job : Cancel(j)
  \/ \E w \in Worker : Crash(w)
  \/ Tick

Spec == Init /\ [][Next]_vars

-----------------------------------------------------------------------------
(* An execution whose heartbeat would still succeed is the execution of    *)
(* the row's latest claim: "A false result means the lease was lost and    *)
(* the work must stop" (job-repository.ts), so a true one must mean that   *)
(* no later claim took the job over.                                       *)
BeatsOnlyLatestClaim ==
  \A w \in Worker, s \in Slot :
    LET e == run[w][s] IN
    (e.phase # "idle" /\ Holds(w, e.job)) => e.claim = claims[e.job]

(* No row waits with its attempts used up, where no claim would ever take  *)
(* it: "an exhausted attempt budget [goes] to dead state" (fail).          *)
NoStrandedRow ==
  \A j \in Job : row[j].state \in Waiting => row[j].attempt < row[j].max

(* A job is executed at most its budget of times per admin recovery,       *)
(* whatever crashes, late failures and wakes happen in between.            *)
ExecutionsWithinBudget ==
  \A j \in Job : claims[j] <= (requeues[j] + 1) * row[j].max

(* A running row is settled only by the execution of its latest claim, or  *)
(* by a reclaim after its lease ran out: a superseded execution can        *)
(* neither complete nor fail the job under its successor.                  *)
SettledByLatestClaim ==
  [][\A j \in Job :
       (row[j].state = "running" /\ row'[j].state # "running") =>
         \/ row[j].lease = 0
         \/ \E w \in Worker, s \in Slot :
              /\ run[w][s].job = j
              /\ run[w][s].claim = claims[j]
              /\ run'[w][s] # run[w][s]]_vars

(* A finished job is never reopened: enqueue leaves it "exactly as it is", *)
(* and recovery only takes dead rows.                                      *)
FinishedIsFinal ==
  [][\A j \in Job :
       row[j].state \in {"succeeded", "cancelled"} => row'[j].state = row[j].state]_vars
=============================================================================
