--------------------------- MODULE JobQueueProofs ---------------------------
(***************************************************************************)
(* Proofs about JobQueue for every set of jobs and runners, every budget,  *)
(* lease and backoff.  Those that need one execution per runner and type   *)
(* say so (OneSlot): it is the concurrency every shipped policy declares,  *)
(* and the run over two slots shows it cannot be dropped.                  *)
(***************************************************************************)
EXTENDS JobQueue, TLAPS

OneSlot == \A s, u \in Slot : s = u

(* Every non-idle execution works on a job.                                *)
BusyHasJob ==
  \A w \in Worker, s \in Slot : run[w][s].phase # "idle" => run[w][s].job \in Job

TypeInv == TypeOK /\ BusyHasJob

-----------------------------------------------------------------------------
LEMMA IdleType == Idle \in Execution
  BY DEF Idle, Execution

LEMMA AbsentType == AbsentRow \in Row
  BY DEF AbsentRow, Row, JobState, Waiting, Terminal

(* Each value an action writes to a row, or to a slot, is well typed.      *)
LEMMA RowValues ==
  ASSUME NEW r \in Row
  PROVE  /\ \A st \in JobState : Released(r, st) \in Row
         /\ \A w \in Worker : Claimed(r, w) \in Row
         /\ Renewed(r) \in Row
         /\ \A d \in Nat : [r EXCEPT !.delay = d] \in Row
         /\ [r EXCEPT !.state = "queued", !.attempt = 0, !.delay = 0] \in Row
         /\ [r EXCEPT !.state = "cancelled"] \in Row
         /\ [r EXCEPT !.lease = OneLess(@), !.delay = OneLess(@)] \in Row
  <1> USE PolicyAssumption DEF Row
  <1>1. \A st \in JobState : Released(r, st) \in Row
    BY DEF Released
  <1>2. \A w \in Worker : Claimed(r, w) \in Row
    <2>1. r.attempt + 1 \in Nat
      OBVIOUS
    <2> QED BY <2>1 DEF Claimed, JobState
  <1>3. Renewed(r) \in Row
    BY DEF Renewed
  <1>4. \A d \in Nat : [r EXCEPT !.delay = d] \in Row
    OBVIOUS
  <1>5. [r EXCEPT !.state = "queued", !.attempt = 0, !.delay = 0] \in Row
    BY DEF JobState, Waiting
  <1>6. [r EXCEPT !.state = "cancelled"] \in Row
    BY DEF JobState, Terminal
  <1>7. [r EXCEPT !.lease = OneLess(@), !.delay = OneLess(@)] \in Row
    <2>1. OneLess(r.lease) \in Nat /\ OneLess(r.delay) \in Nat
      BY DEF OneLess
    <2> QED BY <2>1
  <1> QED BY <1>1, <1>2, <1>3, <1>4, <1>5, <1>6, <1>7

LEMMA QueuedType ==
  ASSUME NEW budget \in Nat, NEW delay \in Nat
  PROVE  Queued(budget, delay) \in Row
  BY DEF Queued, AbsentRow, Row, JobState, Waiting

LEMMA ExecutionValues ==
  ASSUME TypeOK
  PROVE  /\ \A j \in Job : Launched(j) \in Execution
         /\ \A e \in Execution, p \in BOOLEAN :
              e.job \in Job => Failing(e, p) \in Execution
         /\ \A e \in Execution : [e EXCEPT !.alive = FALSE] \in Execution
  <1>1. \A j \in Job : Launched(j) \in Execution
    <2>1. \A j \in Job : claims[j] + 1 \in Nat
      BY DEF TypeOK
    <2> QED BY <2>1 DEF Launched, Idle, Execution
  <1>2. \A j \in Job : row[j].attempt \in Nat
    BY DEF TypeOK, Row
  <1>3. \A e \in Execution, p \in BOOLEAN :
          e.job \in Job => Failing(e, p) \in Execution
    BY <1>2 DEF Failing, Execution
  <1>4. \A e \in Execution : [e EXCEPT !.alive = FALSE] \in Execution
    BY DEF Execution
  <1> QED BY <1>1, <1>3, <1>4

(* Single-row and single-slot updates keep the types.                      *)
LEMMA SetRowType ==
  ASSUME TypeOK, NEW j \in Job, NEW r \in Row, SetRow(j, r)
  PROVE  row' \in [Job -> Row]
  BY DEF TypeOK, SetRow

LEMMA SetRunType ==
  ASSUME TypeInv, NEW w \in Worker, NEW s \in Slot, NEW e \in Execution,
         e.phase # "idle" => e.job \in Job, SetRun(w, s, e)
  PROVE  run' \in [Worker -> [Slot -> Execution]] /\ BusyHasJob'
  BY DEF TypeInv, TypeOK, BusyHasJob, SetRun

(* An assignment maps some slots of the runner to jobs.                    *)
LEMMA AssignmentType ==
  ASSUME NEW asg \in Assignments
  PROVE  /\ DOMAIN asg \subseteq Slot
         /\ \A s \in DOMAIN asg : asg[s] \in Job
  <1>1. PICK S \in (SUBSET Slot) \ {{}} : asg \in [S -> Job]
    BY DEF Assignments
  <1> QED BY <1>1

LEMMA EnqueueType ==
  ASSUME TypeInv, NEW j \in Job, NEW budget \in Budgets, NEW delay \in 0..MaxDelay,
         Enqueue(j, budget, delay)
  PROVE  TypeInv'
  <1>1. budget \in Nat /\ delay \in Nat /\ row[j] \in Row
    BY PolicyAssumption DEF TypeInv, TypeOK
  <1>2. Released(row[j], "queued") \in Row
    BY <1>1, RowValues DEF JobState, Waiting
  <1>3. Earlier(Released(row[j], "queued").delay, delay) \in Nat
    BY <1>1, <1>2 DEF Earlier, Row
  <1>4. [Released(row[j], "queued") EXCEPT !.delay = Earlier(@, delay)] \in Row
    BY <1>2, <1>3, RowValues
  <1>5. row' \in [Job -> Row]
    BY <1>1, <1>4, QueuedType, SetRowType DEF Enqueue, TypeInv
  <1> QED BY <1>5 DEF Enqueue, TypeInv, TypeOK, BusyHasJob

LEMMA ClaimType ==
  ASSUME TypeInv, NEW w \in Worker, NEW asg \in Assignments, Claim(w, asg)
  PROVE  TypeInv'
  <1> USE DEF TypeInv, TypeOK
  <1>1. \A s \in DOMAIN asg : s \in Slot /\ asg[s] \in Job
    BY AssignmentType
  <1>2. row' \in [Job -> Row]
    <2>1. \A j \in Job : Claimed(row[j], w) \in Row
      BY RowValues
    <2> QED BY <2>1 DEF Claim
  <1>3. claims' \in [Job -> Nat]
    <2>1. \A j \in Job : claims[j] + 1 \in Nat
      OBVIOUS
    <2> QED BY <2>1 DEF Claim
  <1>4. run' \in [Worker -> [Slot -> Execution]] /\ BusyHasJob'
    <2>1. \A s \in DOMAIN asg : Launched(asg[s]) \in Execution /\ Launched(asg[s]).job = asg[s]
      BY <1>1, ExecutionValues DEF Launched, Idle
    <2>2. run' \in [Worker -> [Slot -> Execution]]
      BY <2>1 DEF Claim
    <2>3. BusyHasJob'
      BY <1>1, <2>1 DEF Claim, BusyHasJob
    <2> QED BY <2>2, <2>3
  <1> QED BY <1>2, <1>3, <1>4 DEF Claim

LEMMA ExecutionStepType ==
  ASSUME TypeInv, NEW w \in Worker, NEW s \in Slot, ExecutionStep(w, s)
  PROVE  TypeInv'
  <1> DEFINE e == run[w][s]
  <1>1. e \in Execution /\ (e.phase # "idle" => e.job \in Job /\ row[e.job] \in Row)
    BY DEF TypeInv, TypeOK, BusyHasJob
  <1>2. Idle \in Execution /\ Idle.phase = "idle"
    BY IdleType DEF Idle
  <1>3. \A p \in BOOLEAN : e.phase # "idle" =>
          /\ Failing(e, p) \in Execution
          /\ Failing(e, p).job \in Job
    BY <1>1, ExecutionValues DEF Failing, Execution, TypeInv
  <1>4. /\ [e EXCEPT !.alive = FALSE] \in Execution
        /\ [e EXCEPT !.alive = FALSE].job = e.job
    BY <1>1, ExecutionValues DEF Execution, TypeInv
  <1>5. e.phase # "idle" =>
          /\ Renewed(row[e.job]) \in Row
          /\ Released(row[e.job], "succeeded") \in Row
    BY <1>1, RowValues DEF JobState, Terminal
  <1>6. CASE IntervalBeat(w, s)
    <2>1. row' \in [Job -> Row]
      BY <1>1, <1>5, <1>6, SetRowType DEF IntervalBeat, TypeInv, TypeOK
    <2>2. run' \in [Worker -> [Slot -> Execution]] /\ BusyHasJob'
      BY <1>1, <1>4, <1>6, SetRunType DEF IntervalBeat, TypeInv, TypeOK, BusyHasJob
    <2> QED BY <1>6, <2>1, <2>2 DEF IntervalBeat, TypeInv, TypeOK
  <1>7. CASE HandlerBeat(w, s)
    <2>1. row' \in [Job -> Row]
      BY <1>1, <1>5, <1>7, SetRowType DEF HandlerBeat, TypeInv, TypeOK
    <2>2. run' \in [Worker -> [Slot -> Execution]] /\ BusyHasJob'
      BY <1>1, <1>3, <1>7, SetRunType DEF HandlerBeat, TypeInv, TypeOK, BusyHasJob
    <2> QED BY <1>7, <2>1, <2>2 DEF HandlerBeat, TypeInv, TypeOK
  <1>8. CASE Complete(w, s)
    <2>1. row' \in [Job -> Row]
      BY <1>1, <1>5, <1>8, SetRowType DEF Complete, TypeInv, TypeOK
    <2>2. run' \in [Worker -> [Slot -> Execution]] /\ BusyHasJob'
      BY <1>2, <1>8, SetRunType DEF Complete
    <2> QED BY <1>8, <2>1, <2>2 DEF Complete, TypeInv, TypeOK
  <1>9. CASE CompleteErrors(w, s)
    <2>1. row' \in [Job -> Row]
      BY <1>1, <1>5, <1>9, SetRowType DEF CompleteErrors, TypeInv, TypeOK
    <2>2. run' \in [Worker -> [Slot -> Execution]] /\ BusyHasJob'
      BY <1>1, <1>3, <1>9, SetRunType DEF CompleteErrors
    <2> QED BY <1>9, <2>1, <2>2 DEF CompleteErrors, TypeInv, TypeOK
  <1>10. ASSUME NEW p \in BOOLEAN, HandlerThrows(w, s, p) PROVE TypeInv'
    <2>1. run' \in [Worker -> [Slot -> Execution]] /\ BusyHasJob'
      BY <1>1, <1>3, <1>10, SetRunType DEF HandlerThrows
    <2> QED BY <1>10, <2>1 DEF HandlerThrows, TypeInv, TypeOK
  <1>11. ASSUME NEW backoff \in 0..MaxDelay, Fail(w, s, backoff) PROVE TypeInv'
    <2> DEFINE st == NextFailureState(e.seen, e.permanent)
               r  == Released(row[e.job], st)
    <2>1. st \in JobState /\ backoff \in Nat /\ e.phase # "idle"
      BY <1>11, PolicyAssumption DEF Fail, NextFailureState, JobState, Waiting, Terminal
    <2>2. r \in Row /\ r.delay \in Nat
      <3>1. r \in Row
        BY <1>1, <2>1, RowValues
      <3> QED BY <3>1 DEF Row
    <2>3. [r EXCEPT !.delay = IF st = "dead" THEN @ ELSE backoff] \in Row
      BY <2>1, <2>2, RowValues
    <2>4. row' \in [Job -> Row]
      BY <1>1, <1>11, <2>1, <2>3, SetRowType DEF Fail, TypeInv, TypeOK
    <2>5. run' \in [Worker -> [Slot -> Execution]] /\ BusyHasJob'
      BY <1>2, <1>11, SetRunType DEF Fail
    <2> QED BY <1>11, <2>4, <2>5 DEF Fail, TypeInv, TypeOK
  <1>12. CASE FailErrors(w, s)
    <2>1. run' \in [Worker -> [Slot -> Execution]] /\ BusyHasJob'
      BY <1>2, <1>12, SetRunType DEF FailErrors
    <2> QED BY <1>12, <2>1 DEF FailErrors, TypeInv, TypeOK
  <1> QED
    BY <1>6, <1>7, <1>8, <1>9, <1>10, <1>11, <1>12 DEF ExecutionStep

LEMMA TypeStep ==
  ASSUME TypeInv, [Next]_vars
  PROVE  TypeInv'
  <1> USE DEF TypeInv, TypeOK
  <1>0. \A j \in Job : row[j] \in Row
    OBVIOUS
  <1>1. CASE Reclaim
    <2>1. \A j \in Job, st \in {"dead", "retry_wait"} : Released(row[j], st) \in Row
      BY <1>0, RowValues DEF JobState, Waiting, Terminal
    <2>2. row' \in [Job -> Row]
      BY <1>0, <1>1, <2>1 DEF Reclaim
    <2> QED BY <1>1, <2>2 DEF Reclaim, BusyHasJob
  <1>2. ASSUME NEW j \in Job, Requeue(j) PROVE TypeInv'
    <2>1. row' \in [Job -> Row]
      BY <1>0, <1>2, RowValues, SetRowType DEF Requeue
    <2>2. requeues' \in [Job -> Nat]
      BY <1>2 DEF Requeue
    <2> QED BY <1>2, <2>1, <2>2 DEF Requeue, BusyHasJob
  <1>3. ASSUME NEW j \in Job, Cancel(j) PROVE TypeInv'
    <2>1. row' \in [Job -> Row]
      BY <1>0, <1>3, RowValues, SetRowType DEF Cancel
    <2> QED BY <1>3, <2>1 DEF Cancel, BusyHasJob
  <1>4. ASSUME NEW w \in Worker, Crash(w) PROVE TypeInv'
    BY <1>4, IdleType DEF Crash, BusyHasJob, Idle
  <1>5. CASE Tick
    <2>1. row' \in [Job -> Row]
      BY <1>0, <1>5, RowValues DEF Tick
    <2> QED BY <1>5, <2>1 DEF Tick, BusyHasJob
  <1>6. CASE UNCHANGED vars
    BY <1>6 DEF vars, BusyHasJob
  <1> QED
    BY <1>1, <1>2, <1>3, <1>4, <1>5, <1>6, EnqueueType, ClaimType, ExecutionStepType
    DEF Next

(* Every reachable state is well typed, and every busy execution names the *)
(* job it was launched for.                                                *)
THEOREM TypeCorrect == Spec => []TypeInv
  <1>1. Init => TypeInv
    BY AbsentType, IdleType DEF Init, TypeInv, TypeOK, BusyHasJob, Idle
  <1>2. TypeInv /\ [Next]_vars => TypeInv'
    BY TypeStep
  <1> QED BY <1>1, <1>2, PTL DEF Spec

(* The type invariant the runs check.                                      *)
THEOREM TypeSafety == Spec => []TypeOK
  <1>1. TypeInv => TypeOK
    BY DEF TypeInv
  <1> QED BY <1>1, TypeCorrect, PTL

-----------------------------------------------------------------------------
(* What one step does to one row: it keeps who holds the row and the       *)
(* attempt, or it adds the row, recovers it from dead, or claims it.       *)
Kept(j) ==
  /\ row'[j].attempt = row[j].attempt /\ row'[j].max = row[j].max
  /\ row'[j].state = "absent" <=> row[j].state = "absent"
  /\ row'[j].state = "running" =>
       row[j].state = "running" /\ row'[j].worker = row[j].worker
  /\ claims'[j] = claims[j] /\ requeues'[j] = requeues[j]

Added(j) ==
  /\ row[j].state = "absent"
  /\ row'[j].state = "queued" /\ row'[j].attempt = 0 /\ row'[j].max \in Budgets
  /\ claims'[j] = claims[j] /\ requeues'[j] = requeues[j]

Recovered(j) ==
  /\ row[j].state = "dead" /\ row'[j].state = "queued"
  /\ row'[j].attempt = 0 /\ row'[j].max = row[j].max
  /\ claims'[j] = claims[j] /\ requeues'[j] = requeues[j] + 1

Taken(j) ==
  /\ row[j].state \in Waiting /\ row[j].attempt < row[j].max
  /\ row'[j].state = "running"
  /\ row'[j].attempt = row[j].attempt + 1 /\ row'[j].max = row[j].max
  /\ claims'[j] = claims[j] + 1 /\ requeues'[j] = requeues[j]

Effect(j) == Kept(j) \/ Added(j) \/ Recovered(j) \/ Taken(j)

(* Updating one row to one that keeps the attempt keeps every row.         *)
LEMMA KeepingUpdate ==
  ASSUME TypeInv, NEW k \in Job, NEW r \in Row, SetRow(k, r),
         r.attempt = row[k].attempt, r.max = row[k].max,
         r.state # "absent", row[k].state # "absent",
         r.state = "running" => row[k].state = "running" /\ r.worker = row[k].worker,
         UNCHANGED <<claims, requeues>>
  PROVE  \A j \in Job : Kept(j)
  BY DEF SetRow, Kept, TypeInv, TypeOK

LEMMA UnchangedRows ==
  ASSUME UNCHANGED <<row, claims, requeues>>
  PROVE  \A j \in Job : Kept(j)
  BY DEF Kept

(* What Released and Renewed keep.                                         *)
LEMMA UpdateFields ==
  ASSUME NEW r \in Row, NEW st \in JobState
  PROVE  /\ Released(r, st) \in Row
         /\ Released(r, st).state = st
         /\ Released(r, st).attempt = r.attempt /\ Released(r, st).max = r.max
         /\ Renewed(r) \in Row
         /\ Renewed(r).state = r.state /\ Renewed(r).worker = r.worker
         /\ Renewed(r).attempt = r.attempt /\ Renewed(r).max = r.max
  <1>1. Released(r, st) \in Row /\ Renewed(r) \in Row
    BY RowValues
  <1> QED BY <1>1 DEF Released, Renewed, Row

LEMMA EnqueueEffect ==
  ASSUME TypeInv, NEW k \in Job, NEW budget \in Budgets, NEW delay \in 0..MaxDelay,
         Enqueue(k, budget, delay)
  PROVE  \A j \in Job : Effect(j)
  <1>1. budget \in Nat /\ delay \in Nat /\ row[k] \in Row
    BY PolicyAssumption DEF TypeInv, TypeOK
  <1>2. CASE row[k].state = "absent" /\ SetRow(k, Queued(budget, delay))
    BY <1>1, <1>2
    DEF Enqueue, SetRow, Queued, AbsentRow, Effect, Added, Kept, TypeInv, TypeOK
  <1>3. CASE /\ row[k].state \in Waiting
             /\ SetRow(k, [Released(row[k], "queued") EXCEPT !.delay = Earlier(@, delay)])
    <2> DEFINE r == [Released(row[k], "queued") EXCEPT !.delay = Earlier(@, delay)]
    <2>1. Released(row[k], "queued") \in Row
      BY <1>1, RowValues DEF JobState, Waiting
    <2>2. r \in Row
      <3>1. Earlier(Released(row[k], "queued").delay, delay) \in Nat
        BY <1>1, <2>1 DEF Earlier, Row
      <3> QED BY <2>1, <3>1, RowValues
    <2>3. r.state = "queued" /\ r.attempt = row[k].attempt /\ r.max = row[k].max
      BY <1>1, <2>1 DEF Released, Row
    <2> QED
      BY <1>1, <1>3, <2>2, <2>3, KeepingUpdate DEF Enqueue, Effect, Waiting
  <1> QED BY <1>2, <1>3 DEF Enqueue

LEMMA ClaimEffect ==
  ASSUME TypeInv, NEW w \in Worker, NEW asg \in Assignments, Claim(w, asg)
  PROVE  \A j \in Job : Effect(j)
  <1>1. \A s \in DOMAIN asg : s \in Slot /\ asg[s] \in Job
    BY AssignmentType
  <1> SUFFICES ASSUME NEW j \in Job PROVE Effect(j)
    OBVIOUS
  <1>2. CASE \E s \in DOMAIN asg : asg[s] = j
    <2>1. Due(j)
      BY <1>2 DEF Claim
    <2>2. row'[j] = Claimed(row[j], w) /\ claims'[j] = claims[j] + 1 /\ requeues' = requeues
      BY <1>2 DEF Claim
    <2> QED
      BY <2>1, <2>2 DEF Effect, Taken, Due, Claimed, TypeInv, TypeOK, Row
  <1>3. CASE ~\E s \in DOMAIN asg : asg[s] = j
    BY <1>3 DEF Claim, Effect, Kept
  <1> QED BY <1>2, <1>3

LEMMA ExecutionEffect ==
  ASSUME TypeInv, NEW w \in Worker, NEW s \in Slot, ExecutionStep(w, s)
  PROVE  \A j \in Job : Kept(j)
  <1> DEFINE e == run[w][s]
  <1>1. e.phase # "idle" => e.job \in Job /\ row[e.job] \in Row
    BY DEF TypeInv, TypeOK, BusyHasJob
  <1>2. {"succeeded", "dead", "retry_wait"} \subseteq JobState
    BY DEF JobState, Waiting, Terminal
  <1>3. CASE IntervalBeat(w, s)
    BY <1>1, <1>2, <1>3, UpdateFields, KeepingUpdate, UnchangedRows
    DEF IntervalBeat, Holds
  <1>4. CASE HandlerBeat(w, s)
    BY <1>1, <1>2, <1>4, UpdateFields, KeepingUpdate, UnchangedRows
    DEF HandlerBeat, Holds
  <1>5. CASE Complete(w, s)
    BY <1>1, <1>2, <1>5, UpdateFields, KeepingUpdate, UnchangedRows
    DEF Complete, Holds
  <1>6. CASE CompleteErrors(w, s)
    BY <1>1, <1>2, <1>6, UpdateFields, KeepingUpdate, UnchangedRows
    DEF CompleteErrors, Holds
  <1>7. ASSUME NEW p \in BOOLEAN, HandlerThrows(w, s, p) PROVE \A j \in Job : Kept(j)
    BY <1>7, UnchangedRows DEF HandlerThrows
  <1>8. ASSUME NEW backoff \in 0..MaxDelay, Fail(w, s, backoff)
        PROVE  \A j \in Job : Kept(j)
    <2> DEFINE st == NextFailureState(e.seen, e.permanent)
               q  == Released(row[e.job], st)
               r  == [q EXCEPT !.delay = IF st = "dead" THEN @ ELSE backoff]
    <2>1. st \in {"dead", "retry_wait"} /\ backoff \in Nat /\ e.phase # "idle"
      BY <1>8, PolicyAssumption DEF Fail, NextFailureState
    <2>2. q \in Row /\ q.state = st /\ q.attempt = row[e.job].attempt /\ q.max = row[e.job].max
      BY <1>1, <1>2, <2>1, UpdateFields
    <2>3. r \in Row /\ r.state = st /\ r.attempt = q.attempt /\ r.max = q.max
      <3>1. (IF st = "dead" THEN q.delay ELSE backoff) \in Nat
        BY <2>1, <2>2 DEF Row
      <3>2. r \in Row
        BY <2>2, <3>1, RowValues
      <3> QED BY <2>2, <3>2 DEF Row
    <2>4. CASE Holds(w, e.job)
      <3>1. SetRow(e.job, r) /\ UNCHANGED <<claims, requeues>>
        BY <1>8, <2>4 DEF Fail
      <3>2. row[e.job].state = "running" /\ r.state # "absent" /\ r.state # "running"
        BY <2>1, <2>3, <2>4 DEF Holds
      <3> QED BY <1>1, <2>1, <2>2, <2>3, <3>1, <3>2, KeepingUpdate
    <2>5. CASE ~Holds(w, e.job)
      BY <1>8, <2>5, UnchangedRows DEF Fail
    <2> QED BY <2>4, <2>5
  <1>9. CASE FailErrors(w, s)
    BY <1>9, UnchangedRows DEF FailErrors
  <1> QED
    BY <1>3, <1>4, <1>5, <1>6, <1>7, <1>8, <1>9 DEF ExecutionStep

LEMMA RowEffects ==
  ASSUME TypeInv, [Next]_vars
  PROVE  \A j \in Job : Effect(j)
  <1>0. \A j \in Job : row[j] \in Row
    BY DEF TypeInv, TypeOK
  <1>1. CASE Reclaim
    <2>1. \A j \in Job, st \in {"dead", "retry_wait"} :
            /\ Released(row[j], st).state = st
            /\ Released(row[j], st).attempt = row[j].attempt
            /\ Released(row[j], st).max = row[j].max
      BY <1>0, UpdateFields DEF JobState, Waiting, Terminal
    <2> QED BY <1>0, <1>1, <2>1 DEF Reclaim, Expired, Effect, Kept
  <1>2. ASSUME NEW k \in Job, Requeue(k) PROVE \A j \in Job : Effect(j)
    BY <1>0, <1>2 DEF Requeue, SetRow, Effect, Kept, Recovered, TypeInv, TypeOK, Row
  <1>3. ASSUME NEW k \in Job, Cancel(k) PROVE \A j \in Job : Effect(j)
    <2>1. /\ [row[k] EXCEPT !.state = "cancelled"] \in Row
          /\ [row[k] EXCEPT !.state = "cancelled"].state = "cancelled"
          /\ [row[k] EXCEPT !.state = "cancelled"].attempt = row[k].attempt
          /\ [row[k] EXCEPT !.state = "cancelled"].max = row[k].max
      BY <1>0 DEF Row, JobState, Terminal
    <2> QED BY <1>3, <2>1, KeepingUpdate DEF Cancel, Effect, Waiting
  <1>4. ASSUME NEW w \in Worker, Crash(w) PROVE \A j \in Job : Effect(j)
    BY <1>4, UnchangedRows DEF Crash, Effect
  <1>5. CASE Tick
    BY <1>0, <1>5 DEF Tick, Effect, Kept, Row
  <1>6. CASE UNCHANGED vars
    BY <1>6, UnchangedRows DEF vars, Effect
  <1> QED
    BY <1>1, <1>2, <1>3, <1>4, <1>5, <1>6, EnqueueEffect, ClaimEffect, ExecutionEffect
    DEF Next, Effect

-----------------------------------------------------------------------------
(* The budget: the attempt column counts the claims since the last         *)
(* recovery and never passes max_attempts.                                 *)
BudgetInv ==
  \A j \in Job :
    /\ row[j].attempt <= row[j].max
    /\ claims[j] <= requeues[j] * row[j].max + row[j].attempt
    /\ row[j].state = "absent" => claims[j] = 0 /\ requeues[j] = 0

LEMMA OneMoreBudget ==
  \A m, r \in Nat : (r + 1) * m = r * m + m /\ r * m \in Nat /\ 0 * m = 0
  OBVIOUS

LEMMA BudgetStep ==
  ASSUME TypeInv, TypeInv', BudgetInv, [Next]_vars
  PROVE  BudgetInv'
  <1> SUFFICES ASSUME NEW j \in Job
               PROVE  /\ row'[j].attempt <= row'[j].max
                      /\ claims'[j] <= requeues'[j] * row'[j].max + row'[j].attempt
                      /\ row'[j].state = "absent" => claims'[j] = 0 /\ requeues'[j] = 0
    BY DEF BudgetInv
  <1>1. /\ row[j].attempt \in Nat /\ row[j].max \in Nat
        /\ claims[j] \in Nat /\ requeues[j] \in Nat
    BY DEF TypeInv, TypeOK, Row
  <1>2. /\ row[j].attempt <= row[j].max
        /\ claims[j] <= requeues[j] * row[j].max + row[j].attempt
        /\ row[j].state = "absent" => claims[j] = 0 /\ requeues[j] = 0
    BY DEF BudgetInv
  <1>3. CASE Kept(j)
    BY <1>2, <1>3 DEF Kept
  <1>4. CASE Added(j)
    <2>1. row'[j].max \in Nat /\ requeues'[j] = 0 /\ claims'[j] = 0
      BY <1>2, <1>4, PolicyAssumption DEF Added
    <2> QED BY <1>4, <2>1, OneMoreBudget DEF Added
  <1>5. CASE Recovered(j)
    <2>1. requeues'[j] * row'[j].max = requeues[j] * row[j].max + row[j].max
      BY <1>1, <1>5, OneMoreBudget DEF Recovered
    <2>2. requeues[j] * row[j].max \in Nat
      BY <1>1, OneMoreBudget
    <2> QED BY <1>1, <1>2, <1>5, <2>1, <2>2 DEF Recovered
  <1>6. CASE Taken(j)
    <2>1. requeues[j] * row[j].max \in Nat
      BY <1>1, OneMoreBudget
    <2> QED BY <1>1, <1>2, <1>6, <2>1 DEF Taken
  <1> QED BY <1>3, <1>4, <1>5, <1>6, RowEffects DEF Effect

(* A job is executed at most its budget of times per admin recovery.       *)
THEOREM Budget == Spec => []ExecutionsWithinBudget
  <1>1. Init => BudgetInv
    BY OneMoreBudget DEF Init, BudgetInv, AbsentRow
  <1>2. TypeInv /\ TypeInv' /\ BudgetInv /\ [Next]_vars => BudgetInv'
    BY BudgetStep
  <1>3. TypeInv /\ BudgetInv => ExecutionsWithinBudget
    <2> SUFFICES ASSUME TypeInv, BudgetInv, NEW j \in Job
                 PROVE  claims[j] <= (requeues[j] + 1) * row[j].max
      BY DEF ExecutionsWithinBudget
    <2>1. /\ row[j].attempt \in Nat /\ row[j].max \in Nat
          /\ claims[j] \in Nat /\ requeues[j] \in Nat
      BY DEF TypeInv, TypeOK, Row
    <2>2. (requeues[j] + 1) * row[j].max = requeues[j] * row[j].max + row[j].max
      BY <2>1, OneMoreBudget
    <2>3. requeues[j] * row[j].max \in Nat
      BY <2>1, OneMoreBudget
    <2> QED BY <2>1, <2>2, <2>3 DEF BudgetInv
  <1> QED BY <1>1, <1>2, <1>3, TypeCorrect, PTL DEF Spec

-----------------------------------------------------------------------------
(* One execution per runner: an execution that still holds its row is the  *)
(* one that claimed it last, and the attempt it judges a failure by is the *)
(* row's own.                                                              *)
HolderIsLatest(w, s) ==
  (run[w][s].phase # "idle" /\ Holds(w, run[w][s].job)) =>
    /\ run[w][s].claim = claims[run[w][s].job]
    /\ run[w][s].phase = "failing" => run[w][s].seen = row[run[w][s].job].attempt

LeaseInv == \A w \in Worker, s \in Slot : HolderIsLatest(w, s)

(* What a step other than a claim leaves of an execution.                  *)
RunKept(w, s) ==
  run'[w][s].phase # "idle" =>
    /\ run[w][s].phase # "idle"
    /\ run'[w][s].job = run[w][s].job /\ run'[w][s].claim = run[w][s].claim
    /\ run'[w][s].phase = "failing" =>
         \/ run[w][s].phase = "failing" /\ run'[w][s].seen = run[w][s].seen
         \/ run'[w][s].seen = row[run[w][s].job].attempt

LEMMA RunStep ==
  ASSUME TypeInv, NEW v \in Worker, NEW u \in Slot, ExecutionStep(v, u)
  PROVE  \A w \in Worker, s \in Slot : RunKept(w, s)
  <1> DEFINE e == run[v][u]
  <1>1. e \in Execution /\ run \in [Worker -> [Slot -> Execution]]
    BY DEF TypeInv, TypeOK
  <1>2. ASSUME NEW x, SetRun(v, u, x),
               \/ x.phase = "idle"
               \/ /\ e.phase # "idle" /\ x.job = e.job /\ x.claim = e.claim
                  /\ x.phase = "failing" =>
                       \/ e.phase = "failing" /\ x.seen = e.seen
                       \/ x.seen = row[e.job].attempt
        PROVE  \A w \in Worker, s \in Slot : RunKept(w, s)
    BY <1>1, <1>2 DEF SetRun, RunKept
  <1>3. ASSUME UNCHANGED run PROVE \A w \in Worker, s \in Slot : RunKept(w, s)
    BY <1>3 DEF RunKept
  <1>4. \A p \in BOOLEAN :
          /\ Failing(e, p).phase = "failing" /\ Failing(e, p).job = e.job
          /\ Failing(e, p).claim = e.claim /\ Failing(e, p).seen = row[e.job].attempt
    BY <1>1 DEF Failing, Execution
  <1>5. CASE IntervalBeat(v, u)
    <2>1. /\ [e EXCEPT !.alive = FALSE].phase = e.phase
          /\ [e EXCEPT !.alive = FALSE].job = e.job
          /\ [e EXCEPT !.alive = FALSE].claim = e.claim
          /\ [e EXCEPT !.alive = FALSE].seen = e.seen
      BY <1>1 DEF Execution
    <2> QED BY <1>2, <1>3, <1>5, <2>1 DEF IntervalBeat
  <1>6. CASE HandlerBeat(v, u)
    BY <1>2, <1>3, <1>4, <1>6 DEF HandlerBeat
  <1>7. CASE Complete(v, u)
    BY <1>2, <1>7 DEF Complete, Idle
  <1>8. CASE CompleteErrors(v, u)
    BY <1>2, <1>4, <1>8 DEF CompleteErrors
  <1>9. ASSUME NEW p \in BOOLEAN, HandlerThrows(v, u, p)
        PROVE  \A w \in Worker, s \in Slot : RunKept(w, s)
    BY <1>2, <1>4, <1>9 DEF HandlerThrows
  <1>10. ASSUME NEW backoff \in 0..MaxDelay, Fail(v, u, backoff)
         PROVE  \A w \in Worker, s \in Slot : RunKept(w, s)
    BY <1>2, <1>10 DEF Fail, Idle
  <1>11. CASE FailErrors(v, u)
    BY <1>2, <1>11 DEF FailErrors, Idle
  <1> QED
    BY <1>5, <1>6, <1>7, <1>8, <1>9, <1>10, <1>11 DEF ExecutionStep

LEMMA RunEffects ==
  ASSUME TypeInv, [Next]_vars,
         ~\E w \in Worker, asg \in Assignments : Claim(w, asg)
  PROVE  /\ \A w \in Worker, s \in Slot : RunKept(w, s)
         /\ UNCHANGED claims
  <1>1. ASSUME UNCHANGED run PROVE \A w \in Worker, s \in Slot : RunKept(w, s)
    BY <1>1 DEF RunKept
  <1>2. ASSUME NEW v \in Worker, Crash(v)
        PROVE  \A w \in Worker, s \in Slot : RunKept(w, s)
    BY <1>2 DEF Crash, RunKept, Idle, TypeInv, TypeOK
  <1>3. \A v \in Worker, u \in Slot : ExecutionStep(v, u) => UNCHANGED claims
    BY DEF ExecutionStep, IntervalBeat, HandlerBeat, Complete, CompleteErrors,
           HandlerThrows, Fail, FailErrors
  <1> QED
    BY <1>1, <1>2, <1>3, RunStep
    DEF Next, Enqueue, Reclaim, Requeue, Cancel, Crash, Tick, vars

LEMMA LeaseStep ==
  ASSUME OneSlot, TypeInv, TypeInv', LeaseInv, [Next]_vars
  PROVE  LeaseInv'
  <1> SUFFICES ASSUME NEW w \in Worker, NEW s \in Slot,
                      run'[w][s].phase # "idle",
                      row'[run'[w][s].job].state = "running",
                      row'[run'[w][s].job].worker = w
               PROVE  /\ run'[w][s].claim = claims'[run'[w][s].job]
                      /\ run'[w][s].phase = "failing" =>
                           run'[w][s].seen = row'[run'[w][s].job].attempt
    BY DEF LeaseInv, HolderIsLatest, Holds
  <1> DEFINE j == run'[w][s].job
  <1>0. j \in Job
    BY DEF TypeInv, BusyHasJob
  <1>1. ASSUME NEW v \in Worker, NEW asg \in Assignments, Claim(v, asg)
        PROVE  /\ run'[w][s].claim = claims'[j]
               /\ run'[w][s].phase = "failing" => run'[w][s].seen = row'[j].attempt
    <2>1. \A x \in DOMAIN asg : x \in Slot /\ asg[x] \in Job
      BY AssignmentType
    <2>2. \E x \in DOMAIN asg : TRUE
      BY DEF Assignments
    <2>3. CASE v = w
      <3>1. s \in DOMAIN asg
        BY <2>1, <2>2 DEF OneSlot
      <3>2. run'[w][s] = Launched(asg[s])
        BY <1>1, <2>3, <3>1 DEF Claim, TypeInv, TypeOK
      <3>3. j = asg[s] /\ run'[w][s].claim = claims[j] + 1 /\ run'[w][s].phase = "handling"
        BY <3>2 DEF Launched, Idle
      <3>4. claims'[j] = claims[j] + 1
        BY <1>0, <1>1, <3>1, <3>3 DEF Claim
      <3> QED BY <3>3, <3>4
    <2>4. CASE v # w
      <3>1. run'[w][s] = run[w][s]
        BY <1>1, <2>4 DEF Claim, TypeInv, TypeOK
      <3>2. ~\E x \in DOMAIN asg : asg[x] = j
        <4>1. (\E x \in DOMAIN asg : asg[x] = j) => row'[j] = Claimed(row[j], v)
          BY <1>0, <1>1 DEF Claim
        <4>2. Claimed(row[j], v).worker = v
          BY <1>0 DEF Claimed, TypeInv, TypeOK, Row
        <4> QED BY <2>4, <4>1, <4>2
      <3>3. row'[j] = row[j] /\ claims'[j] = claims[j]
        BY <1>0, <1>1, <3>2 DEF Claim
      <3> QED BY <3>1, <3>3 DEF LeaseInv, HolderIsLatest, Holds
    <2> QED BY <2>3, <2>4
  <1>2. CASE ~\E v \in Worker, asg \in Assignments : Claim(v, asg)
    <2>1. RunKept(w, s) /\ claims' = claims
      BY <1>2, RunEffects
    <2>2. run[w][s].phase # "idle" /\ run[w][s].job = j
      BY <2>1 DEF RunKept
    <2>3. row[j].state = "running" /\ row[j].worker = w /\ row'[j].attempt = row[j].attempt
      <3>1. ~Taken(j)
        BY <1>0, <2>1 DEF Taken, TypeInv, TypeOK
      <3>2. Kept(j)
        BY <1>0, <3>1, RowEffects DEF Effect, Added, Recovered
      <3> QED BY <3>2 DEF Kept
    <2>4. /\ run[w][s].claim = claims[j]
          /\ run[w][s].phase = "failing" => run[w][s].seen = row[j].attempt
      BY <2>2, <2>3 DEF LeaseInv, HolderIsLatest, Holds
    <2> QED BY <2>1, <2>2, <2>3, <2>4 DEF RunKept
  <1> QED BY <1>1, <1>2

LEMMA LeaseInvariant ==
  ASSUME OneSlot
  PROVE  Spec => []LeaseInv
  <1>1. Init => LeaseInv
    BY DEF Init, LeaseInv, HolderIsLatest, Idle
  <1>2. TypeInv /\ TypeInv' /\ LeaseInv /\ [Next]_vars => LeaseInv'
    BY LeaseStep
  <1> QED BY <1>1, <1>2, TypeCorrect, PTL DEF Spec

(* A heartbeat that succeeds tells the execution the truth: no later claim *)
(* has taken its job over.                                                 *)
THEOREM LeaseSafety ==
  ASSUME OneSlot
  PROVE  Spec => []BeatsOnlyLatestClaim
  <1>1. LeaseInv => BeatsOnlyLatestClaim
    BY DEF LeaseInv, HolderIsLatest, BeatsOnlyLatestClaim
  <1> QED BY <1>1, LeaseInvariant, PTL

-----------------------------------------------------------------------------
(* No two executions share a claim, and none claims to be later than the   *)
(* job's latest: with any number of slots.                                 *)
ClaimInv ==
  /\ \A w \in Worker, s \in Slot :
       run[w][s].phase # "idle" => run[w][s].claim <= claims[run[w][s].job]
  /\ \A w, v \in Worker, s, u \in Slot :
       (/\ run[w][s].phase # "idle" /\ run[v][u].phase # "idle"
        /\ run[w][s].job = run[v][u].job /\ run[w][s].claim = run[v][u].claim)
         => w = v /\ s = u

(* An execution after a claim: as it was, or the latest of its job.        *)
LEMMA ClaimRuns ==
  ASSUME TypeInv, NEW v \in Worker, NEW asg \in Assignments, Claim(v, asg),
         NEW w \in Worker, NEW s \in Slot
  PROVE  \/ run'[w][s] = run[w][s]
         \/ /\ w = v /\ s \in DOMAIN asg /\ run[w][s].phase = "idle"
            /\ asg[s] \in Job /\ run'[w][s] = Launched(asg[s])
            /\ run'[w][s].phase = "handling" /\ run'[w][s].job = asg[s]
            /\ run'[w][s].claim = claims'[asg[s]]
            /\ claims'[asg[s]] = claims[asg[s]] + 1
            /\ row'[asg[s]].state = "running"
  <1>1. CASE w = v /\ s \in DOMAIN asg
    <2>1. asg[s] \in Job /\ run[w][s].phase = "idle"
      BY <1>1, AssignmentType DEF Claim
    <2>2. run'[w][s] = Launched(asg[s])
      BY <1>1 DEF Claim, TypeInv, TypeOK
    <2>3. /\ run'[w][s].phase = "handling" /\ run'[w][s].job = asg[s]
          /\ run'[w][s].claim = claims[asg[s]] + 1
      BY <2>2 DEF Launched, Idle
    <2>4. claims'[asg[s]] = claims[asg[s]] + 1
      BY <1>1, <2>1 DEF Claim
    <2>5. row'[asg[s]] = Claimed(row[asg[s]], v)
      BY <1>1, <2>1 DEF Claim
    <2>6. row'[asg[s]].state = "running"
      BY <2>1, <2>5 DEF Claimed, TypeInv, TypeOK, Row
    <2> QED BY <1>1, <2>1, <2>2, <2>3, <2>4, <2>6
  <1>2. CASE ~(w = v /\ s \in DOMAIN asg)
    BY <1>2 DEF Claim, TypeInv, TypeOK
  <1> QED BY <1>1, <1>2

LEMMA ClaimInvStep ==
  ASSUME TypeInv, ClaimInv, [Next]_vars
  PROVE  ClaimInv'
  <1>1. /\ claims \in [Job -> Nat]
        /\ \A w \in Worker, s \in Slot :
             /\ run[w][s].claim \in Nat
             /\ run[w][s].phase # "idle" => run[w][s].job \in Job
    BY DEF TypeInv, TypeOK, BusyHasJob, Execution
  <1>2. ASSUME NEW v \in Worker, NEW asg \in Assignments, Claim(v, asg)
        PROVE  ClaimInv'
    <2>1. \A j \in Job : claims'[j] \in {claims[j], claims[j] + 1}
      BY <1>2 DEF Claim
    <2>2. ASSUME NEW w \in Worker, NEW s \in Slot, run'[w][s].phase # "idle"
          PROVE  run'[w][s].claim <= claims'[run'[w][s].job]
      <3>1. CASE run'[w][s] = run[w][s]
        <4>1. /\ run[w][s].job \in Job /\ run[w][s].claim \in Nat
              /\ run[w][s].claim <= claims[run[w][s].job]
          BY <1>1, <2>2, <3>1 DEF ClaimInv
        <4>2. claims[run[w][s].job] \in Nat
          BY <1>1, <4>1
        <4> QED BY <2>1, <3>1, <4>1, <4>2
      <3>2. CASE run'[w][s] # run[w][s]
        <4>1. /\ asg[s] \in Job /\ run'[w][s].job = asg[s]
              /\ run'[w][s].claim = claims'[asg[s]] /\ claims'[asg[s]] = claims[asg[s]] + 1
          BY <1>2, <3>2, ClaimRuns
        <4> QED BY <1>1, <4>1
      <3> QED BY <3>1, <3>2
    <2>3. ASSUME NEW w \in Worker, NEW s \in Slot, NEW x \in Worker, NEW u \in Slot,
                 run'[w][s].phase # "idle", run'[x][u].phase # "idle",
                 run'[w][s].job = run'[x][u].job, run'[w][s].claim = run'[x][u].claim
          PROVE  w = x /\ s = u
      <3>1. ASSUME NEW y \in Worker, NEW t \in Slot, run'[y][t] = run[y][t],
                   run'[y][t].phase # "idle",
                   NEW z \in Worker, NEW r \in Slot, run'[z][r] # run[z][r],
                   run'[z][r].job = run'[y][t].job, run'[z][r].claim = run'[y][t].claim
            PROVE  FALSE
        <4>1. /\ run[y][t].job \in Job /\ run[y][t].claim \in Nat
              /\ run[y][t].claim <= claims[run[y][t].job]
          BY <1>1, <3>1 DEF ClaimInv
        <4>2. run'[z][r].claim = claims[run'[z][r].job] + 1
          BY <1>2, <3>1, ClaimRuns
        <4>3. claims[run[y][t].job] \in Nat
          BY <1>1, <4>1
        <4> QED BY <3>1, <4>1, <4>2, <4>3
      <3>2. CASE run'[w][s] = run[w][s] /\ run'[x][u] = run[x][u]
        BY <2>3, <3>2 DEF ClaimInv
      <3>3. CASE run'[w][s] # run[w][s] /\ run'[x][u] # run[x][u]
        <4>1. /\ w = v /\ s \in DOMAIN asg /\ asg[s] = run'[w][s].job
              /\ x = v /\ u \in DOMAIN asg /\ asg[u] = run'[x][u].job
          BY <1>2, <3>3, ClaimRuns
        <4> QED BY <1>2, <2>3, <4>1 DEF Claim
      <3> QED BY <2>3, <3>1, <3>2, <3>3
    <2> QED BY <2>2, <2>3 DEF ClaimInv
  <1>3. CASE ~\E v \in Worker, asg \in Assignments : Claim(v, asg)
    <2>1. (\A w \in Worker, s \in Slot : RunKept(w, s)) /\ UNCHANGED claims
      BY <1>3, RunEffects
    <2> QED BY <2>1 DEF ClaimInv, RunKept
  <1> QED BY <1>2, <1>3

LEMMA ClaimInvariant == Spec => []ClaimInv
  <1>1. Init => ClaimInv
    BY DEF Init, ClaimInv, Idle
  <1>2. TypeInv /\ ClaimInv /\ [Next]_vars => ClaimInv'
    BY ClaimInvStep
  <1> QED BY <1>1, <1>2, TypeCorrect, PTL DEF Spec

-----------------------------------------------------------------------------
(* Why a row stops running: its lease ran out, or the execution of its     *)
(* latest claim took the step.                                             *)
SettledWell(j) ==
  (row[j].state = "running" /\ row'[j].state # "running") =>
    \/ row[j].lease = 0
    \/ \E w \in Worker, s \in Slot :
         /\ run[w][s].job = j
         /\ run[w][s].claim = claims[j]
         /\ run'[w][s] # run[w][s]

LEMMA SettleStep ==
  ASSUME TypeInv, LeaseInv, [Next]_vars, NEW j \in Job
  PROVE  SettledWell(j)
  <1> SUFFICES ASSUME row[j].state = "running", row'[j].state # "running"
               PROVE  \/ row[j].lease = 0
                      \/ \E w \in Worker, s \in Slot :
                           /\ run[w][s].job = j
                           /\ run[w][s].claim = claims[j]
                           /\ run'[w][s] # run[w][s]
    BY DEF SettledWell
  <1>1. \A k \in Job : \A r : SetRow(k, r) => k = j \/ row'[j] = row[j]
    BY DEF SetRow, TypeInv, TypeOK
  <1>2. ASSUME NEW k \in Job, NEW b \in Budgets, NEW d \in 0..MaxDelay, Enqueue(k, b, d)
        PROVE  FALSE
    BY <1>1, <1>2 DEF Enqueue, Waiting
  <1>3. ASSUME NEW w \in Worker, NEW asg \in Assignments, Claim(w, asg)
        PROVE  FALSE
    BY <1>3 DEF Claim, Claimed, TypeInv, TypeOK, Row
  <1>4. ASSUME NEW w \in Worker, NEW s \in Slot, ExecutionStep(w, s)
        PROVE  /\ run[w][s].job = j
               /\ run[w][s].claim = claims[j]
               /\ run'[w][s] # run[w][s]
    <2> DEFINE e == run[w][s]
    <2>1. /\ e \in Execution /\ run \in [Worker -> [Slot -> Execution]]
          /\ e.phase # "idle" => e.job \in Job
      BY DEF TypeInv, TypeOK, BusyHasJob
    <2>2. \A x : SetRun(w, s, x) => run'[w][s] = x
      BY <2>1 DEF SetRun
    <2>3. ASSUME e.phase # "idle", Holds(w, e.job), NEW r, SetRow(e.job, r)
          PROVE  e.job = j /\ e.claim = claims[j]
      BY <1>1, <2>1, <2>3 DEF LeaseInv, HolderIsLatest
    <2>4. Idle.phase = "idle"
      BY DEF Idle
    <2>5. \A p \in BOOLEAN : Failing(e, p).phase = "failing"
      BY <2>1 DEF Failing, Execution
    <2>6. ~(\E k \in Job : k = j /\ SetRow(k, Renewed(row[k])))
      BY DEF SetRow, Renewed, TypeInv, TypeOK, Row
    <2>7. ~IntervalBeat(w, s)
      BY <1>1, <2>1, <2>6 DEF IntervalBeat
    <2>8. ~HandlerBeat(w, s)
      BY <1>1, <2>1, <2>6 DEF HandlerBeat
    <2>9. CASE Complete(w, s)
      BY <2>2, <2>3, <2>4, <2>9 DEF Complete
    <2>10. CASE CompleteErrors(w, s)
      BY <2>2, <2>3, <2>5, <2>10 DEF CompleteErrors
    <2>11. ASSUME NEW backoff \in 0..MaxDelay, Fail(w, s, backoff)
           PROVE  e.job = j /\ e.claim = claims[j] /\ run'[w][s] # e
      BY <2>2, <2>3, <2>4, <2>11 DEF Fail
    <2>12. ~FailErrors(w, s) /\ ~\E p \in BOOLEAN : HandlerThrows(w, s, p)
      BY DEF FailErrors, HandlerThrows
    <2> QED
      BY <1>4, <2>7, <2>8, <2>9, <2>10, <2>11, <2>12 DEF ExecutionStep
  <1>5. CASE Reclaim
    BY <1>5 DEF Reclaim, Expired
  <1>6. ASSUME NEW k \in Job, Requeue(k) \/ Cancel(k) PROVE FALSE
    BY <1>1, <1>6 DEF Requeue, Cancel, Waiting
  <1>7. ASSUME NEW w \in Worker, Crash(w) PROVE FALSE
    BY <1>7 DEF Crash
  <1>8. CASE Tick
    BY <1>8 DEF Tick, TypeInv, TypeOK, Row
  <1>9. CASE UNCHANGED vars
    BY <1>9 DEF vars
  <1> QED
    BY <1>2, <1>3, <1>4, <1>5, <1>6, <1>7, <1>8, <1>9 DEF Next

(* A superseded execution neither completes nor fails the job under its    *)
(* successor.                                                              *)
THEOREM SettleSafety ==
  ASSUME OneSlot
  PROVE  Spec => SettledByLatestClaim
  <1>1. TypeInv /\ LeaseInv /\ [Next]_vars
          => [\A j \in Job :
               (row[j].state = "running" /\ row'[j].state # "running") =>
                 \/ row[j].lease = 0
                 \/ \E w \in Worker, s \in Slot :
                      /\ run[w][s].job = j
                      /\ run[w][s].claim = claims[j]
                      /\ run'[w][s] # run[w][s]]_vars
    BY SettleStep DEF SettledWell
  <1> QED
    BY <1>1, TypeCorrect, LeaseInvariant, PTL DEF Spec, SettledByLatestClaim

-----------------------------------------------------------------------------
(* When every row carries its type's own budget, nothing waits with its    *)
(* attempts used up.                                                       *)
OneBudget == Budgets = {PolicyAttempts}

WaitInv ==
  \A j \in Job :
    /\ row[j].state # "absent" => row[j].max = PolicyAttempts
    /\ row[j].state \in Waiting => row[j].attempt < row[j].max

LEMMA WaitStep ==
  ASSUME OneBudget, TypeInv, TypeInv', LeaseInv, WaitInv, [Next]_vars
  PROVE  WaitInv'
  <1> SUFFICES ASSUME NEW j \in Job
               PROVE  /\ row'[j].state # "absent" => row'[j].max = PolicyAttempts
                      /\ row'[j].state \in Waiting => row'[j].attempt < row'[j].max
    BY DEF WaitInv, Waiting
  <1>0. /\ \A k \in Job : row[k] \in Row
        /\ PolicyAttempts \in Nat \ {0}
        /\ row[j].state # "absent" => row[j].max = PolicyAttempts
    BY PolicyAssumption DEF TypeInv, TypeOK, WaitInv
  <1>1. row'[j].state # "absent" => row'[j].max = PolicyAttempts
    BY <1>0, RowEffects DEF Effect, Kept, Added, Recovered, Taken, OneBudget, Waiting
  <1>2. CASE ~Kept(j)
    <2>1. CASE Taken(j)
      BY <1>1, <2>1 DEF Taken, Waiting
    <2>2. CASE Added(j) \/ Recovered(j)
      BY <1>0, <1>1, <2>2 DEF Added, Recovered
    <2> QED BY <1>1, <1>2, <2>1, <2>2, RowEffects DEF Effect
  <1>3. CASE Kept(j) /\ row[j].state \in Waiting
    BY <1>1, <1>3 DEF Kept, WaitInv
  <1>4. CASE Kept(j) /\ row[j].state \notin Waiting /\ row'[j].state \in Waiting
    <2>0. row'[j] # row[j]
      BY <1>4
    <2>1. \A k \in Job : \A r : SetRow(k, r) => k = j /\ row'[j] = r
      BY <2>0 DEF SetRow, TypeInv, TypeOK
    <2>2. SUFFICES row[j].attempt < row[j].max
      BY <1>1, <1>4 DEF Kept
    <2>3. ASSUME NEW k \in Job, NEW b \in Budgets, NEW d \in 0..MaxDelay, Enqueue(k, b, d)
          PROVE  FALSE
      BY <1>4, <2>1, <2>3 DEF Enqueue, Queued, AbsentRow, Kept
    <2>4. ASSUME NEW w \in Worker, NEW asg \in Assignments, Claim(w, asg)
          PROVE  FALSE
      BY <1>0, <1>4, <2>0, <2>4 DEF Claim, Claimed, Row, Waiting
    <2>5. ASSUME NEW w \in Worker, NEW s \in Slot, ExecutionStep(w, s)
          PROVE  row[j].attempt < row[j].max
      <3> DEFINE e == run[w][s]
      <3>1. e.phase # "idle" => e.job \in Job
        BY DEF TypeInv, BusyHasJob
      <3>2. \A k \in Job : /\ Renewed(row[k]).state = row[k].state
                           /\ Released(row[k], "succeeded").state = "succeeded"
        BY <1>0, UpdateFields DEF JobState, Terminal
      <3>3. ~IntervalBeat(w, s) /\ ~HandlerBeat(w, s) /\ ~Complete(w, s) /\ ~CompleteErrors(w, s)
        BY <1>4, <2>0, <2>1, <3>1, <3>2
        DEF IntervalBeat, HandlerBeat, Complete, CompleteErrors, Waiting
      <3>4. ASSUME NEW backoff \in 0..MaxDelay, Fail(w, s, backoff)
            PROVE  row[j].attempt < row[j].max
        <4> DEFINE st == NextFailureState(e.seen, e.permanent)
                   q  == Released(row[e.job], st)
                   r  == [q EXCEPT !.delay = IF st = "dead" THEN @ ELSE backoff]
        <4>1. e.phase = "failing" /\ e.job \in Job
          BY <3>1, <3>4 DEF Fail
        <4>2. Holds(w, e.job) /\ SetRow(e.job, r)
          BY <2>0, <3>4 DEF Fail
        <4>3. e.job = j /\ row'[j] = r
          BY <2>1, <4>1, <4>2
        <4>4. st \in JobState
          BY DEF NextFailureState, JobState, Waiting, Terminal
        <4>5. q \in Row /\ q.state = st
          BY <1>0, <4>1, <4>4, UpdateFields
        <4>6. r.state = st
          BY <4>5 DEF Row
        <4>7. ~(e.seen >= PolicyAttempts)
          BY <1>4, <4>3, <4>6 DEF NextFailureState, Waiting
        <4>8. e.seen = row[j].attempt
          BY <4>1, <4>2, <4>3 DEF LeaseInv, HolderIsLatest
        <4>9. row[j].max = PolicyAttempts /\ row[j].attempt \in Nat
          BY <1>0, <4>2, <4>3 DEF Holds, Row
        <4> QED BY <1>0, <4>7, <4>8, <4>9
      <3>5. ~FailErrors(w, s) /\ ~\E p \in BOOLEAN : HandlerThrows(w, s, p)
        BY <2>0 DEF FailErrors, HandlerThrows
      <3> QED BY <2>5, <3>3, <3>4, <3>5 DEF ExecutionStep
    <2>6. CASE Reclaim
      <3>1. /\ row[j].attempt \in Nat /\ row[j].max \in Nat
            /\ row'[j] = Released(row[j], IF row[j].attempt >= row[j].max
                                          THEN "dead" ELSE "retry_wait")
        BY <1>0, <2>0, <2>6 DEF Reclaim, Row
      <3>2. Released(row[j], "dead").state = "dead"
        BY <1>0, UpdateFields DEF JobState, Terminal
      <3> QED BY <1>4, <3>1, <3>2 DEF Waiting
    <2>7. ASSUME NEW k \in Job, Requeue(k) PROVE row[j].attempt < row[j].max
      <3>1. k = j /\ row[j].state = "dead" /\ row'[j].attempt = 0
        BY <1>0, <2>1, <2>7 DEF Requeue, Row
      <3> QED BY <1>0, <1>4, <3>1 DEF Kept
    <2>8. ASSUME NEW k \in Job, Cancel(k) PROVE FALSE
      BY <1>4, <2>1, <2>8 DEF Cancel
    <2>9. ASSUME NEW w \in Worker, Crash(w) PROVE FALSE
      BY <2>0, <2>9 DEF Crash
    <2>10. CASE Tick
      BY <1>0, <1>4, <2>10 DEF Tick, Row
    <2>11. CASE UNCHANGED vars
      BY <2>0, <2>11 DEF vars
    <2> QED
      BY <2>3, <2>4, <2>5, <2>6, <2>7, <2>8, <2>9, <2>10, <2>11 DEF Next
  <1> QED BY <1>1, <1>2, <1>3, <1>4

(* No row is stranded: whatever waits can still be claimed.                *)
THEOREM NoStranding ==
  ASSUME OneSlot, OneBudget
  PROVE  Spec => []NoStrandedRow
  <1>1. Init => WaitInv
    BY DEF Init, WaitInv, AbsentRow, Waiting
  <1>2. TypeInv /\ TypeInv' /\ LeaseInv /\ WaitInv /\ [Next]_vars => WaitInv'
    BY WaitStep
  <1>3. WaitInv => NoStrandedRow
    BY DEF WaitInv, NoStrandedRow
  <1> QED BY <1>1, <1>2, <1>3, TypeCorrect, LeaseInvariant, PTL DEF Spec

-----------------------------------------------------------------------------
(* No step touches the state of a finished row: every update but the clock *)
(* asks for a waiting, running, dead or absent one.                        *)
LEMMA FinishedStep ==
  ASSUME TypeInv, [Next]_vars, NEW j \in Job, row[j].state \in {"succeeded", "cancelled"}
  PROVE  row'[j].state = row[j].state
  <1>1. \A k \in Job : \A r : SetRow(k, r) => k = j \/ row'[j] = row[j]
    BY DEF SetRow, TypeInv, TypeOK
  <1>2. ASSUME NEW k \in Job, NEW b \in Budgets, NEW d \in 0..MaxDelay, Enqueue(k, b, d)
        PROVE  row'[j] = row[j]
    BY <1>1, <1>2 DEF Enqueue, Waiting
  <1>3. ASSUME NEW w \in Worker, NEW asg \in Assignments, Claim(w, asg)
        PROVE  row'[j] = row[j]
    BY <1>3 DEF Claim, Due, Waiting
  <1>4. ASSUME NEW w \in Worker, NEW s \in Slot, ExecutionStep(w, s)
        PROVE  row'[j] = row[j]
    <2> DEFINE e == run[w][s]
    <2>1. e.phase # "idle" => e.job \in Job
      BY DEF TypeInv, TypeOK, BusyHasJob
    <2>2. ASSUME e.phase # "idle", Holds(w, e.job), NEW r, SetRow(e.job, r)
          PROVE  row'[j] = row[j]
      BY <1>1, <2>1, <2>2 DEF Holds
    <2>3. CASE IntervalBeat(w, s) \/ HandlerBeat(w, s)
      BY <2>2, <2>3 DEF IntervalBeat, HandlerBeat
    <2>4. CASE Complete(w, s) \/ CompleteErrors(w, s)
      BY <2>2, <2>4 DEF Complete, CompleteErrors
    <2>5. ASSUME NEW backoff \in 0..MaxDelay, Fail(w, s, backoff)
          PROVE  row'[j] = row[j]
      BY <2>2, <2>5 DEF Fail
    <2>6. CASE FailErrors(w, s) \/ \E p \in BOOLEAN : HandlerThrows(w, s, p)
      BY <2>6 DEF FailErrors, HandlerThrows
    <2> QED
      BY <1>4, <2>3, <2>4, <2>5, <2>6 DEF ExecutionStep
  <1>5. CASE Reclaim
    BY <1>5 DEF Reclaim, Expired
  <1>6. ASSUME NEW k \in Job, Requeue(k) \/ Cancel(k)
        PROVE  row'[j] = row[j]
    BY <1>1, <1>6 DEF Requeue, Cancel, Waiting
  <1>7. CASE (\E w \in Worker : Crash(w)) \/ UNCHANGED vars
    BY <1>7 DEF Crash, vars
  <1>8. CASE Tick
    BY <1>8 DEF Tick, TypeInv, TypeOK, Row
  <1> QED
    BY <1>2, <1>3, <1>4, <1>5, <1>6, <1>7, <1>8 DEF Next

(* A finished job is never reopened, with any number of slots.             *)
THEOREM Finality == Spec => FinishedIsFinal
  <1>1. TypeInv /\ [Next]_vars
          => [\A j \in Job :
               row[j].state \in {"succeeded", "cancelled"} => row'[j].state = row[j].state]_vars
    BY FinishedStep
  <1> QED
    BY <1>1, TypeCorrect, PTL DEF Spec, FinishedIsFinal
=============================================================================
