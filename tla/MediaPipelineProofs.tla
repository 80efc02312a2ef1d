------------------------ MODULE MediaPipelineProofs ------------------------
(***************************************************************************)
(* Proofs about MediaPipeline for every set of assets, variants, runners   *)
(* and collection passes.  First, that the pipeline does nothing to the    *)
(* queue that JobQueue does not describe, so that what JobQueueProofs      *)
(* proves of the queue holds of it under the pipeline.  Then the invariant *)
(* that ties the rows of the queue, the outbox and the assets together     *)
(* with the objects in storage and with what every dispatcher, handler and *)
(* collection pass has already seen.                                       *)
(***************************************************************************)
EXTENDS MediaPipeline, TLAPS

JQ == INSTANCE JobQueueProofs WITH Job <- Asset, Budgets <- {PolicyAttempts}, MaxRequeues <- 0,
                                   NoJob <- NoAsset

-----------------------------------------------------------------------------
(* The steps of the queue the pipeline takes.                              *)
LEMMA QueueNextSteps ==
  /\ \A a \in Asset : Queue!Enqueue(a, PolicyAttempts, 0) \/ Queue!Cancel(a) => JQ!Next
  /\ \A w \in Worker, asg \in Queue!Assignments : Queue!Claim(w, asg) => JQ!Next
  /\ \A w \in Worker : Queue!Crash(w) => JQ!Next
  /\ Queue!Reclaim \/ Queue!Tick => JQ!Next
  <1>1. ASSUME NEW a \in Asset, Queue!Enqueue(a, PolicyAttempts, 0) PROVE JQ!Next
    <2>1. JQ!Enqueue(a, PolicyAttempts, 0)
      BY <1>1
      DEF Queue!Enqueue, Queue!SetRow, Queue!Queued, Queue!AbsentRow, Queue!Released, Queue!Waiting,
          Queue!Earlier,
          JQ!Enqueue, JQ!SetRow, JQ!Queued, JQ!AbsentRow, JQ!Released, JQ!Waiting, JQ!Earlier
    <2>2. 0 \in 0..MaxDelay
      BY QueueAssumption
    <2> QED BY <2>1, <2>2 DEF JQ!Next
  <1>2. ASSUME NEW a \in Asset, Queue!Cancel(a) PROVE JQ!Next
    <2>1. JQ!Cancel(a)
      BY <1>2 DEF Queue!Cancel, Queue!SetRow, Queue!Waiting, JQ!Cancel, JQ!SetRow, JQ!Waiting
    <2> QED BY <2>1 DEF JQ!Next
  <1>3. ASSUME NEW w \in Worker, NEW asg \in Queue!Assignments, Queue!Claim(w, asg) PROVE JQ!Next
    <2>1. asg \in JQ!Assignments
      BY DEF Queue!Assignments, JQ!Assignments
    <2>2. JQ!Claim(w, asg)
      BY <1>3
      DEF Queue!Claim, Queue!Due, Queue!Waiting, Queue!Claimed, Queue!Launched, Queue!Idle,
          JQ!Claim, JQ!Due, JQ!Waiting, JQ!Claimed, JQ!Launched, JQ!Idle
    <2> QED BY <2>1, <2>2 DEF JQ!Next
  <1>4. ASSUME NEW w \in Worker, Queue!Crash(w) PROVE JQ!Next
    <2>1. JQ!Crash(w)
      BY <1>4 DEF Queue!Crash, Queue!Idle, JQ!Crash, JQ!Idle
    <2> QED BY <2>1 DEF JQ!Next
  <1>5. Queue!Reclaim => JQ!Next
    <2>1. Queue!Reclaim => JQ!Reclaim
      BY DEF Queue!Reclaim, Queue!Expired, Queue!Released, JQ!Reclaim, JQ!Expired, JQ!Released
    <2> QED BY <2>1 DEF JQ!Next
  <1>6. Queue!Tick => JQ!Next
    <2>1. Queue!Tick => JQ!Tick
      BY DEF Queue!Tick, Queue!OneLess, JQ!Tick, JQ!OneLess
    <2> QED BY <2>1 DEF JQ!Next
  <1> QED BY <1>1, <1>2, <1>3, <1>4, <1>5, <1>6

LEMMA QueueExecutionSteps ==
  ASSUME NEW w \in Worker, NEW s \in Slot,
         \/ Queue!IntervalBeat(w, s) \/ Queue!HandlerBeat(w, s)
         \/ Queue!Complete(w, s) \/ Queue!CompleteErrors(w, s)
         \/ \E p \in BOOLEAN : Queue!HandlerThrows(w, s, p)
         \/ (\E b \in 0..MaxDelay : Queue!Fail(w, s, b)) \/ Queue!FailErrors(w, s)
  PROVE  JQ!Next
  <1> USE DEF Queue!SetRow, Queue!SetRun, Queue!Holds, Queue!Failing, Queue!Released, Queue!Renewed,
              Queue!Idle,
              JQ!SetRow, JQ!SetRun, JQ!Holds, JQ!Failing, JQ!Released, JQ!Renewed, JQ!Idle
  <1>1. Queue!IntervalBeat(w, s) => JQ!IntervalBeat(w, s)
    BY DEF Queue!IntervalBeat, JQ!IntervalBeat
  <1>2. Queue!HandlerBeat(w, s) => JQ!HandlerBeat(w, s)
    BY DEF Queue!HandlerBeat, JQ!HandlerBeat
  <1>3. Queue!Complete(w, s) => JQ!Complete(w, s)
    BY DEF Queue!Complete, JQ!Complete
  <1>4. Queue!CompleteErrors(w, s) => JQ!CompleteErrors(w, s)
    BY DEF Queue!CompleteErrors, JQ!CompleteErrors
  <1>5. \A p \in BOOLEAN : Queue!HandlerThrows(w, s, p) => JQ!HandlerThrows(w, s, p)
    BY DEF Queue!HandlerThrows, JQ!HandlerThrows
  <1>6. \A b \in 0..MaxDelay : Queue!Fail(w, s, b) => JQ!Fail(w, s, b)
    BY DEF Queue!Fail, JQ!Fail, Queue!NextFailureState, JQ!NextFailureState
  <1>7. Queue!FailErrors(w, s) => JQ!FailErrors(w, s)
    BY DEF Queue!FailErrors, JQ!FailErrors
  <1>8. JQ!ExecutionStep(w, s)
    BY <1>1, <1>2, <1>3, <1>4, <1>5, <1>6, <1>7 DEF JQ!ExecutionStep
  <1> QED BY <1>8 DEF JQ!Next
(* A dispatcher that is not idle has selected an asset's message.          *)
DispatcherType ==
  /\ dispatcher \in [Worker -> Dispatch]
  /\ \A w \in Worker : dispatcher[w].phase # "idle" => dispatcher[w].asset \in Asset

LEMMA DispatcherTypeStep == DispatcherType /\ [Next]_vars => DispatcherType'
  <1> SUFFICES ASSUME DispatcherType, [Next]_vars PROVE DispatcherType'
    OBVIOUS
  <1>1. ASSUME UNCHANGED dispatcher PROVE DispatcherType'
    BY <1>1 DEF DispatcherType
  <1>2. ASSUME NEW w \in Worker, NEW d \in Dispatch, d.phase # "idle" => d.asset \in Asset,
               dispatcher' = [dispatcher EXCEPT ![w] = d]
        PROVE  DispatcherType'
    BY <1>2 DEF DispatcherType
  <1>3. Idle \in Dispatch /\ Idle.phase = "idle"
    BY DEF Idle, Dispatch
  <1>4. ASSUME NEW w \in Worker, DispatcherStep(w) PROVE DispatcherType'
    <2> DEFINE a == dispatcher[w].asset
    <2>1. ASSUME NEW b \in Asset, Select(w, b) PROVE DispatcherType'
      BY <1>2, <2>1 DEF Select, Dispatch
    <2>2. ASSUME dispatcher[w].phase # "idle"
          PROVE  /\ [phase |-> "locked", asset |-> a] \in Dispatch /\ a \in Asset
                 /\ [dispatcher[w] EXCEPT !.phase = "failing"] \in Dispatch
                 /\ [dispatcher[w] EXCEPT !.phase = "failing"].asset = a
      BY <2>2 DEF DispatcherType, Dispatch
    <2>3. CASE Take(w)
      BY <1>2, <1>3, <2>2, <2>3 DEF Take
    <2>4. ASSUME Publish(w) \/ DispatchFails(w) PROVE DispatcherType'
      <3>1. PICK phase \in {"idle", "failing"} :
              dispatcher' = [dispatcher EXCEPT ![w] =
                IF phase = "idle" THEN Idle ELSE [dispatcher[w] EXCEPT !.phase = phase]]
        BY <2>4 DEF Publish, DispatchFails
      <3>2. dispatcher[w].phase = "locked"
        BY <2>4 DEF Publish, DispatchFails
      <3> QED BY <1>2, <1>3, <2>2, <3>1, <3>2
    <2>5. CASE RecordFailure(w)
      BY <1>2, <1>3, <2>5 DEF RecordFailure
    <2> QED BY <1>4, <2>1, <2>3, <2>4, <2>5 DEF DispatcherStep
  <1>5. ASSUME NEW w \in Worker, Crash(w) PROVE DispatcherType'
    BY <1>2, <1>3, <1>5 DEF Crash
  <1>6. ASSUME NEW a \in Asset, Attach(a) \/ Detach(a) \/ BackoffEnds(a) \/ Cancel(a)
        PROVE  DispatcherType'
    BY <1>1, <1>6 DEF Attach, Detach, BackoffEnds, Cancel, outboxVars
  <1>7. ASSUME NEW w \in Worker, NEW s \in Slot, HandlerStep(w, s) \/ IntervalBeat(w, s)
        PROVE  DispatcherType'
    BY <1>1, <1>7 DEF HandlerStep, IntervalBeat, Find, Missing, Render, Beat, Promote, Record,
                      Reject, Rejected, Throws, Finish, Fail, outboxVars
  <1>8. ASSUME NEW c \in Collector, CollectorStep(c) PROVE DispatcherType'
    BY <1>1, <1>8 DEF CollectorStep, List, Delete, Remove, CollectionDies, outboxVars
  <1>9. CASE Reclaim \/ Tick \/ (\E w \in Worker, asg \in Queue!Assignments : Claim(w, asg))
    BY <1>1, <1>9 DEF Reclaim, Tick, Claim, outboxVars
  <1>10. CASE UNCHANGED vars
    BY <1>1, <1>10 DEF vars
  <1> QED BY <1>4, <1>5, <1>6, <1>7, <1>8, <1>9, <1>10 DEF Next

(* Every step of the pipeline is a step of the queue or leaves it alone.   *)
LEMMA QueueStep ==
  ASSUME DispatcherType, [Next]_vars
  PROVE  [JQ!Next]_(JQ!vars)
  <1> USE DEF queueVars
  <1>1. ASSUME UNCHANGED queueVars PROVE [JQ!Next]_(JQ!vars)
    BY <1>1 DEF JQ!vars
  <1>2. ASSUME NEW a \in Asset, Attach(a) \/ Detach(a) \/ BackoffEnds(a) \/ Cancel(a)
        PROVE  [JQ!Next]_(JQ!vars)
    BY <1>1, <1>2, QueueNextSteps DEF Attach, Detach, BackoffEnds, Cancel
  <1>3. ASSUME NEW w \in Worker, DispatcherStep(w) PROVE [JQ!Next]_(JQ!vars)
    <2>1. CASE Publish(w)
      BY <1>1, <2>1, QueueNextSteps DEF Publish, DispatcherType
    <2> QED
      BY <1>1, <1>3, <2>1 DEF DispatcherStep, Select, Take, DispatchFails, RecordFailure
  <1>4. ASSUME NEW w \in Worker, NEW asg \in Queue!Assignments, Claim(w, asg)
        PROVE  [JQ!Next]_(JQ!vars)
    BY <1>4, QueueNextSteps DEF Claim
  <1>5. ASSUME NEW w \in Worker, NEW s \in Slot, HandlerStep(w, s) \/ IntervalBeat(w, s)
        PROVE  [JQ!Next]_(JQ!vars)
    BY <1>1, <1>5, QueueExecutionSteps
    DEF HandlerStep, IntervalBeat, Find, Missing, Render, Beat, Promote, Record, Reject, Rejected,
        Throws, Finish, Fail
  <1>6. ASSUME NEW w \in Worker, Crash(w) PROVE [JQ!Next]_(JQ!vars)
    BY <1>6, QueueNextSteps DEF Crash
  <1>7. CASE Reclaim \/ Tick
    BY <1>7, QueueNextSteps DEF Reclaim, Tick
  <1>8. ASSUME NEW c \in Collector, CollectorStep(c) PROVE [JQ!Next]_(JQ!vars)
    BY <1>1, <1>8 DEF CollectorStep, List, Delete, Remove, CollectionDies
  <1>9. CASE UNCHANGED vars
    BY <1>1, <1>9 DEF vars
  <1> QED BY <1>2, <1>3, <1>4, <1>5, <1>6, <1>7, <1>8, <1>9 DEF Next

(* The pipeline implements the queue: whatever dispatchers, handlers,      *)
(* collection passes and crashes do to the four tables they share, the     *)
(* rows of jobs and the executions only take steps of JobQueue.            *)
THEOREM QueueImplemented == Spec => JQ!Spec
  <1>1. Init => JQ!Init /\ DispatcherType
    BY DEF Init, Queue!Init, Queue!AbsentRow, Queue!Idle, JQ!Init, JQ!AbsentRow, JQ!Idle,
           DispatcherType, Idle, Dispatch
  <1>2. DispatcherType /\ [Next]_vars => DispatcherType' /\ [JQ!Next]_(JQ!vars)
    BY DispatcherTypeStep, QueueStep
  <1> QED BY <1>1, <1>2, PTL DEF Spec, JQ!Spec
(* What JobQueueProofs proves of the queue holds under the pipeline: types, *)
(* budgets and finality for any number of slots, ...                       *)
THEOREM QueuePromisesKept ==
  Spec => []JQ!TypeInv /\ []JQ!ExecutionsWithinBudget /\ JQ!FinishedIsFinal
  <1> USE QueueAssumption, MediaAssumption
  <1>1. JQ!Spec => []JQ!TypeInv
    BY JQ!TypeCorrect
  <1>2. JQ!Spec => []JQ!ExecutionsWithinBudget
    BY JQ!Budget
  <1>3. JQ!Spec => JQ!FinishedIsFinal
    BY JQ!Finality
  <1> QED BY <1>1, <1>2, <1>3, QueueImplemented

(* ... and for the one slot every shipped policy declares, that a          *)
(* successful heartbeat tells the truth and no row is stranded.            *)
THEOREM QueueLeasesKept ==
  ASSUME JQ!OneSlot
  PROVE  Spec => []JQ!BeatsOnlyLatestClaim /\ []JQ!NoStrandedRow
  <1> USE QueueAssumption, MediaAssumption
  <1>1. JQ!Spec => []JQ!BeatsOnlyLatestClaim
    BY JQ!LeaseSafety
  <1>2. JQ!Spec => []JQ!NoStrandedRow
    BY JQ!NoStranding DEF JQ!OneBudget
  <1> QED BY <1>1, <1>2, QueueImplemented

-----------------------------------------------------------------------------
(* The types of the pipeline's own state.                                  *)
CollectorType ==
  /\ collector \in [Collector -> Collection]
  /\ \A c \in Collector : collector[c].phase # "idle" => collector[c].asset \in Asset

StoreType ==
  /\ asset \in [Asset -> AssetRow]
  /\ message \in [Asset -> Message]
  /\ work \in [Worker -> [Slot -> Work]]
  /\ temp \in [Asset -> SUBSET Variant]
  /\ object \in [Asset -> SUBSET (Variant \cup {Original})]
  /\ CollectorType
  /\ excused \in [Asset -> BOOLEAN]

TypeInv == JQ!TypeInv /\ DispatcherType /\ StoreType

(* A busy execution works on an asset's job.                               *)
LEMMA BusyExecution ==
  ASSUME JQ!TypeInv
  PROVE  /\ row \in [Asset -> Queue!Row] /\ run \in [Worker -> [Slot -> Queue!Execution]]
         /\ \A w \in Worker, s \in Slot : run[w][s].phase # "idle" => run[w][s].job \in Asset
  BY DEF JQ!TypeInv, JQ!TypeOK, JQ!BusyHasJob, JQ!Row, JQ!JobState, JQ!Waiting, JQ!Terminal,
         JQ!Execution, Queue!Row, Queue!JobState, Queue!Waiting, Queue!Terminal, Queue!Execution

LEMMA GotoType ==
  ASSUME work \in [Worker -> [Slot -> Work]], NEW w \in Worker, NEW s \in Slot,
         NEW at, NEW left, [at |-> at, left |-> left] \in Work, Goto(w, s, at, left)
  PROVE  /\ work' \in [Worker -> [Slot -> Work]]
         /\ work'[w][s] = [at |-> at, left |-> left]
         /\ \A v \in Worker, u \in Slot : v # w \/ u # s => work'[v][u] = work[v][u]
  BY DEF Goto

(* What the steps write to an asset, a message or a collection.            *)
LEMMA AssetValues ==
  ASSUME NEW r \in AssetRow
  PROVE  /\ \A p \in BOOLEAN : [r EXCEPT !.state = "pending", !.sound = p] \in AssetRow
         /\ [r EXCEPT !.due = TRUE] \in AssetRow
         /\ \A p \in BOOLEAN : [r EXCEPT !.state = "failed", !.overruled = p] \in AssetRow
         /\ [r EXCEPT !.state = "ready", !.variants = TRUE, !.overruled = FALSE] \in AssetRow
         /\ [r EXCEPT !.state = "deleted", !.variants = FALSE] \in AssetRow
  BY DEF AssetRow

LEMMA MessageValues ==
  ASSUME NEW m \in Message
  PROVE  /\ \A t \in {"pending", "published"} : [m EXCEPT !.state = t] \in Message
         /\ [m EXCEPT !.failures = m.failures + 1] \in Message
         /\ [m EXCEPT !.backoff = m.backoff \/ m.state = "pending"] \in Message
         /\ [m EXCEPT !.backoff = FALSE] \in Message
  <1>1. m.failures + 1 \in Nat /\ (m.backoff \/ m.state = "pending") \in BOOLEAN
    BY DEF Message
  <1> QED BY <1>1 DEF Message

LEMMA CollectionValues ==
  ASSUME NEW c \in Collection, c.phase # "idle"
  PROVE  /\ [c EXCEPT !.phase = "removing"] \in Collection
         /\ \A o : [c EXCEPT !.objects = c.objects \ {o}] \in Collection
         /\ c.asset \in Asset \cup {NoAsset} /\ c.objects \subseteq Variant \cup {Original}
  <1>1. \A o : c.objects \ {o} \in SUBSET (Variant \cup {Original})
    BY DEF Collection
  <1> QED BY <1>1 DEF Collection

LEMMA DispatchType ==
  ASSUME TypeInv,
         \/ \E a \in Asset : Attach(a) \/ Detach(a) \/ BackoffEnds(a)
         \/ \E w \in Worker : DispatcherStep(w)
  PROVE  StoreType'
  <1> USE DEF TypeInv, StoreType, CollectorType, storeVars, outboxVars
  <1>1. ASSUME NEW a \in Asset, Attach(a) PROVE StoreType'
    <2>1. message' \in [Asset -> Message]
      BY <1>1, MessageValues DEF Attach
    <2>2. asset' \in [Asset -> AssetRow]
      <3>1. PICK p \in BOOLEAN :
              asset' = [asset EXCEPT ![a] = [asset[a] EXCEPT !.state = "pending", !.sound = p]]
        BY <1>1 DEF Attach
      <3>2. [asset[a] EXCEPT !.state = "pending", !.sound = p] \in AssetRow
        BY AssetValues
      <3> QED BY <3>1, <3>2
    <2> QED BY <1>1, <2>1, <2>2 DEF Attach
  <1>2. ASSUME NEW a \in Asset, Detach(a) PROVE StoreType'
    BY <1>2, AssetValues DEF Detach
  <1>3. ASSUME NEW a \in Asset, BackoffEnds(a) PROVE StoreType'
    BY <1>3, MessageValues DEF BackoffEnds
  <1>4. ASSUME NEW w \in Worker, DispatcherStep(w) PROVE StoreType'
    <2> DEFINE a == dispatcher[w].asset
    <2>1. CASE (\E b \in Asset : Select(w, b)) \/ Take(w)
      BY <2>1 DEF Select, Take
    <2>2. CASE Publish(w) \/ DispatchFails(w) \/ RecordFailure(w)
      <3>1. /\ a \in Asset /\ UNCHANGED <<asset, work, temp, object, collector, excused>>
            /\ message[a] \in Message
        BY <2>2 DEF Publish, DispatchFails, RecordFailure, DispatcherType
      <3>2. /\ [message[a] EXCEPT !.state = "published"] \in Message
            /\ [message[a] EXCEPT !.failures = message[a].failures + 1] \in Message
            /\ [message[a] EXCEPT !.backoff =
                  message[a].backoff \/ message[a].state = "pending"] \in Message
        BY <3>1, MessageValues
      <3>3. PICK m \in Message : message' = [message EXCEPT ![a] = m]
        BY <2>2, <3>2 DEF Publish, DispatchFails, RecordFailure
      <3> QED BY <3>1, <3>3
    <2> QED BY <1>4, <2>1, <2>2 DEF DispatcherStep
  <1> QED BY <1>1, <1>2, <1>3, <1>4

LEMMA HandlerType ==
  ASSUME TypeInv, NEW w \in Worker, NEW s \in Slot, HandlerStep(w, s)
  PROVE  StoreType'
  <1> USE DEF storeVars, outboxVars
  <1> DEFINE a == run[w][s].job
             left == work[w][s].left
             ObjectsOf == [Asset -> SUBSET (Variant \cup {Original})]
  <1>1. /\ work \in [Worker -> [Slot -> Work]] /\ left \in SUBSET Variant
        /\ asset \in [Asset -> AssetRow] /\ temp \in [Asset -> SUBSET Variant]
        /\ object \in ObjectsOf /\ excused \in [Asset -> BOOLEAN]
    BY DEF TypeInv, StoreType, Work
  <1>2. \A at : At(w, s, at) => a \in Asset
    BY BusyExecution DEF TypeInv, At
  <1>3. ASSUME work' \in [Worker -> [Slot -> Work]], asset' \in [Asset -> AssetRow],
               temp' \in [Asset -> SUBSET Variant], object' \in ObjectsOf,
               excused' \in [Asset -> BOOLEAN], UNCHANGED <<message, collector>>
        PROVE  StoreType'
    BY <1>3 DEF TypeInv, StoreType, CollectorType
  <1> HIDE DEF ObjectsOf
  <1>4. CASE Find(w, s)
    <2>1. work' \in [Worker -> [Slot -> Work]]
      BY <1>1, <1>4, GotoType DEF Work, Find
    <2> QED BY <1>1, <1>3, <1>4, <2>1 DEF Find
  <1>5. CASE Missing(w, s) \/ Fail(w, s)
    BY <1>1, <1>3, <1>5 DEF Missing, Fail
  <1>6. CASE Render(w, s)
    <2>1. PICK v \in left : /\ temp' = [temp EXCEPT ![a] = temp[a] \cup {v}]
                            /\ Goto(w, s, "beat", left \ {v})
      BY <1>6 DEF Render
    <2>2. work' \in [Worker -> [Slot -> Work]]
      BY <1>1, <2>1, GotoType DEF Work
    <2>3. temp' \in [Asset -> SUBSET Variant]
      BY <1>1, <2>1
    <2> QED BY <1>1, <1>3, <1>6, <2>2, <2>3 DEF Render
  <1>7. CASE Beat(w, s)
    <2>1. \/ Goto(w, s, "none", {}) \/ Goto(w, s, "promote", Variant) \/ Goto(w, s, "found", left)
      BY <1>7 DEF Beat
    <2>2. work' \in [Worker -> [Slot -> Work]]
      BY <1>1, <2>1, GotoType DEF Work
    <2> QED BY <1>1, <1>3, <1>7, <2>2 DEF Beat
  <1>8. CASE Promote(w, s)
    <2>1. PICK v \in left \cap temp[a] :
             /\ temp' = [temp EXCEPT ![a] = temp[a] \ {v}]
             /\ object' = [object EXCEPT ![a] = object[a] \cup {v}]
             /\ Goto(w, s, IF left = {v} THEN "publish" ELSE "promote", left \ {v})
      BY <1>8 DEF Promote
    <2>2. work' \in [Worker -> [Slot -> Work]]
      BY <1>1, <2>1, GotoType DEF Work
    <2>3. temp' \in [Asset -> SUBSET Variant]
      BY <1>1, <2>1
    <2>4. object' \in ObjectsOf
      BY <1>1, <2>1 DEF ObjectsOf
    <2> QED BY <1>1, <1>3, <1>8, <2>2, <2>3, <2>4 DEF Promote
  <1>9. CASE Record(w, s)
    <2>1. work' \in [Worker -> [Slot -> Work]] /\ a \in Asset
      BY <1>1, <1>2, <1>9, GotoType DEF Work, Record
    <2>2. asset' \in [Asset -> AssetRow]
      BY <1>1, <1>9, <2>1, AssetValues DEF Record
    <2>3. excused' \in [Asset -> BOOLEAN]
      <3>1. (excused[a] \/ CollectedNow(a)) \in BOOLEAN
        BY <1>1, <2>1
      <3> QED BY <1>1, <1>9, <3>1 DEF Record
    <2> QED BY <1>1, <1>3, <1>9, <2>1, <2>2, <2>3 DEF Record
  <1>10. CASE Reject(w, s)
    <2>1. work' \in [Worker -> [Slot -> Work]] /\ a \in Asset
      BY <1>1, <1>2, <1>10, GotoType DEF Work, Reject
    <2>2. asset' \in [Asset -> AssetRow]
      <3> DEFINE p == run[w][s].claim # claims[a]
                 r == [asset[a] EXCEPT !.state = "failed", !.overruled = p]
      <3>1. r \in AssetRow
        <4>1. p \in BOOLEAN
          OBVIOUS
        <4> HIDE DEF p
        <4> QED BY <1>1, <2>1, <4>1, AssetValues
      <3>2. CASE asset' = [asset EXCEPT ![a] = r]
        <4> HIDE DEF r
        <4> QED BY <1>1, <3>1, <3>2
      <3> QED BY <1>1, <1>10, <3>2 DEF Reject
    <2> QED BY <1>1, <1>3, <1>10, <2>1, <2>2 DEF Reject
  <1>11. CASE Rejected(w, s) \/ Finish(w, s)
    <2>1. work' \in [Worker -> [Slot -> Work]]
      BY <1>1, <1>11, GotoType DEF Work, Rejected, Finish
    <2> QED BY <1>1, <1>3, <1>11, <2>1 DEF Rejected, Finish
  <1>12. CASE Throws(w, s)
    <2>1. work' \in [Worker -> [Slot -> Work]]
      BY <1>1, <1>12, GotoType DEF Work, Throws
    <2>2. temp' \in [Asset -> SUBSET Variant]
      BY <1>1, <1>12 DEF Throws
    <2>3. excused' \in [Asset -> BOOLEAN]
      BY <1>1, <1>12 DEF Throws, Abandons
    <2> QED BY <1>1, <1>3, <1>12, <2>1, <2>2, <2>3 DEF Throws
  <1> QED
    BY <1>4, <1>5, <1>6, <1>7, <1>8, <1>9, <1>10, <1>11, <1>12 DEF HandlerStep

LEMMA CollectorStepType ==
  ASSUME TypeInv, NEW c \in Collector, CollectorStep(c)
  PROVE  StoreType'
  <1> DEFINE a == collector[c].asset
  <1>1. Resting \in Collection /\ Resting.phase = "idle"
    BY DEF Resting, Collection
  <1>2. /\ CollectorType /\ asset \in [Asset -> AssetRow]
        /\ collector[c] \in Collection /\ (collector[c].phase # "idle" => a \in Asset)
    BY DEF TypeInv, StoreType, CollectorType
  <1>3. ASSUME NEW x \in Collection, x.phase # "idle" => x.asset \in Asset,
               collector' = [collector EXCEPT ![c] = x]
        PROVE  CollectorType'
    BY <1>2, <1>3 DEF CollectorType
  <1>4. ASSUME CollectorType', asset' \in [Asset -> AssetRow],
               object' \in [Asset -> SUBSET (Variant \cup {Original})],
               excused' \in [Asset -> BOOLEAN], UNCHANGED <<message, work, temp>>
        PROVE  StoreType'
    BY <1>4 DEF TypeInv, StoreType
  <1>5. /\ object \in [Asset -> SUBSET (Variant \cup {Original})]
        /\ excused \in [Asset -> BOOLEAN]
    BY DEF TypeInv, StoreType
  <1> USE DEF storeVars, outboxVars
  <1>6. ASSUME NEW b \in Asset, List(c, b) PROVE StoreType'
    <2> DEFINE x == [phase |-> "listed", asset |-> b, objects |-> {Original} \cup VariantRows(b)]
    <2>1. x \in Collection /\ x.asset = b
      BY DEF Collection, VariantRows
    <2>2. collector' = [collector EXCEPT ![c] = x]
      BY <1>6 DEF List
    <2> HIDE DEF x
    <2>3. CollectorType'
      BY <1>3, <2>1, <2>2
    <2> QED BY <1>2, <1>4, <1>5, <1>6, <2>3 DEF List
  <1>7. CASE Delete(c)
    <2>1. collector[c].phase = "listed" /\ a \in Asset
      BY <1>2, <1>7 DEF Delete
    <2>2. CASE Stored(a)
      <3> DEFINE r == [asset[a] EXCEPT !.state = "deleted", !.variants = FALSE]
                 x == [collector[c] EXCEPT !.phase = "removing"]
      <3>1. asset' = [asset EXCEPT ![a] = r] /\ collector' = [collector EXCEPT ![c] = x]
        BY <1>7, <2>2 DEF Delete
      <3>2. r \in AssetRow /\ x \in Collection
        BY <1>2, <2>1, AssetValues, CollectionValues
      <3>3. x.asset = a
        BY <1>2 DEF Collection
      <3> HIDE DEF r, x
      <3>4. asset' \in [Asset -> AssetRow] /\ CollectorType'
        BY <1>2, <1>3, <2>1, <3>1, <3>2, <3>3
      <3> QED BY <1>4, <1>5, <1>7, <3>4 DEF Delete
    <2>3. CASE ~Stored(a)
      <3>1. collector' = [collector EXCEPT ![c] = Resting] /\ UNCHANGED asset
        BY <1>7, <2>3 DEF Delete
      <3>2. CollectorType'
        BY <1>1, <1>3, <3>1
      <3> QED BY <1>2, <1>4, <1>5, <1>7, <3>1, <3>2 DEF Delete
    <2> QED BY <2>2, <2>3
  <1>8. CASE Remove(c)
    <2>1. collector[c].phase = "removing" /\ a \in Asset
      BY <1>2, <1>8 DEF Remove
    <2>2. PICK o \in collector[c].objects :
            /\ object' = [object EXCEPT ![a] = object[a] \ {o}]
            /\ collector' = [collector EXCEPT ![c] =
                 IF collector[c].objects = {o} THEN Resting
                 ELSE [collector[c] EXCEPT !.objects = collector[c].objects \ {o}]]
      BY <1>8 DEF Remove
    <2> DEFINE x == [collector[c] EXCEPT !.objects = collector[c].objects \ {o}]
    <2>3. x \in Collection
      BY <1>2, <2>1, CollectionValues
    <2>4. x.asset = a
      BY <1>2 DEF Collection
    <2> HIDE DEF x
    <2>5. CollectorType'
      BY <1>1, <1>3, <2>1, <2>2, <2>3, <2>4 DEF x
    <2>6. object' \in [Asset -> SUBSET (Variant \cup {Original})]
      BY <1>5, <2>1, <2>2
    <2> QED BY <1>2, <1>4, <1>5, <1>8, <2>5, <2>6 DEF Remove
  <1>9. CASE CollectionDies(c)
    <2>1. a \in Asset /\ collector' = [collector EXCEPT ![c] = Resting]
      BY <1>2, <1>9 DEF CollectionDies
    <2>2. CollectorType'
      BY <1>1, <1>3, <2>1
    <2>3. excused' \in [Asset -> BOOLEAN]
      BY <1>5, <1>9, <2>1 DEF CollectionDies
    <2> QED BY <1>2, <1>4, <1>5, <1>9, <2>2, <2>3 DEF CollectionDies
  <1> QED BY <1>6, <1>7, <1>8, <1>9 DEF CollectorStep

LEMMA TypeStep == TypeInv /\ [Next]_vars => StoreType'
  <1> SUFFICES ASSUME TypeInv, [Next]_vars PROVE StoreType'
    OBVIOUS
  <1>1. CASE UNCHANGED <<asset, message, work, temp, object, collector, excused>>
    BY <1>1 DEF TypeInv, StoreType, CollectorType
  <1>2. ASSUME NEW w \in Worker, Crash(w) PROVE StoreType'
    <2>1. work' \in [Worker -> [Slot -> Work]]
      BY <1>2 DEF Crash, TypeInv, StoreType, NoWork, Work
    <2>2. excused' \in [Asset -> BOOLEAN]
      BY <1>2 DEF Crash, TypeInv, StoreType
    <2> QED BY <1>2, <2>1, <2>2 DEF Crash, TypeInv, StoreType, CollectorType, storeVars
  <1>3. CASE Reclaim \/ Tick \/ (\E a \in Asset : Cancel(a))
             \/ (\E w \in Worker, asg \in Queue!Assignments : Claim(w, asg))
             \/ (\E w \in Worker, s \in Slot : IntervalBeat(w, s))
    BY <1>1, <1>3 DEF Reclaim, Tick, Cancel, Claim, IntervalBeat, outboxVars, storeVars
  <1>4. CASE UNCHANGED vars
    BY <1>1, <1>4 DEF vars
  <1> QED BY <1>2, <1>3, <1>4, DispatchType, HandlerType, CollectorStepType DEF Next
LEMMA InitTypes == Init => TypeInv
  <1> SUFFICES ASSUME Init PROVE TypeInv
    OBVIOUS
  <1>1. JQ!TypeInv
    <2>1. JQ!Init
      BY DEF Init, Queue!Init, Queue!AbsentRow, Queue!Idle, JQ!Init, JQ!AbsentRow, JQ!Idle
    <2>2. JQ!AbsentRow \in JQ!Row /\ JQ!Idle \in JQ!Execution
      BY JQ!AbsentType, JQ!IdleType, QueueAssumption, MediaAssumption
    <2> QED BY <2>1, <2>2 DEF JQ!Init, JQ!TypeInv, JQ!TypeOK, JQ!BusyHasJob, JQ!Idle
  <1>2. DispatcherType
    BY DEF Init, DispatcherType, Dispatch, Idle
  <1>3. StoreType
    BY DEF Init, StoreType, CollectorType, AssetRow, Message, Work, Collection, NoWork, Resting
  <1> QED BY <1>1, <1>2, <1>3 DEF TypeInv

LEMMA TypesKept == TypeInv /\ [Next]_vars => TypeInv'
  <1> SUFFICES ASSUME TypeInv, [Next]_vars PROVE TypeInv'
    OBVIOUS
  <1>1. [JQ!Next]_(JQ!vars)
    BY QueueStep DEF TypeInv
  <1>2. JQ!TypeInv'
    BY <1>1, JQ!TypeStep, QueueAssumption, MediaAssumption DEF TypeInv
  <1> QED BY <1>2, TypeStep, DispatcherTypeStep DEF TypeInv

(* Every table of the pipeline keeps its type, the queue's included.       *)
THEOREM PipelineTyped == Spec => []TypeOK
  <1>1. TypeInv => TypeOK
    <2>1. JQ!TypeInv => Queue!TypeOK
      BY DEF JQ!TypeInv, JQ!TypeOK, JQ!Row, JQ!JobState, JQ!Waiting, JQ!Terminal, JQ!Execution,
             Queue!TypeOK, Queue!Row, Queue!JobState, Queue!Waiting, Queue!Terminal,
             Queue!Execution
    <2> QED BY <2>1 DEF TypeInv, TypeOK, DispatcherType, StoreType, CollectorType
  <1> QED BY <1>1, InitTypes, TypesKept, PTL DEF Spec

-----------------------------------------------------------------------------
(* What the steps of the queue do to rows and executions, as far as the    *)
(* pipeline looks at them.                                                 *)
RowsKept ==
  \A a \in Asset : /\ row'[a].state = "absent" <=> row[a].state = "absent"
                   /\ row'[a].state = "succeeded" => row[a].state = "succeeded"

SameRun(w, s) == run'[w][s].phase = run[w][s].phase /\ run'[w][s].job = run[w][s].job

OthersRun(w, s) == \A v \in Worker, u \in Slot : v # w \/ u # s => SameRun(v, u)

(* Writing one row that is there.                                          *)
LEMMA RowWritten ==
  ASSUME JQ!TypeInv, NEW a \in Asset, NEW r, Queue!SetRow(a, r),
         row[a].state # "absent", r.state # "absent",
         r.state = "succeeded" => row[a].state = "succeeded"
  PROVE  RowsKept
  BY BusyExecution DEF Queue!SetRow, RowsKept

(* Writing one execution.                                                  *)
LEMMA RunWritten ==
  ASSUME JQ!TypeInv, NEW w \in Worker, NEW s \in Slot, NEW e, Queue!SetRun(w, s, e)
  PROVE  run'[w][s] = e /\ OthersRun(w, s)
  BY BusyExecution DEF Queue!SetRun, OthersRun, SameRun

LEMMA FieldsOf ==
  ASSUME JQ!TypeInv, NEW a \in Asset
  PROVE  /\ \A t : Queue!Released(row[a], t).state = t
         /\ Queue!Renewed(row[a]).state = row[a].state
         /\ [row[a] EXCEPT !.state = "cancelled"].state = "cancelled"
         /\ \A d : \A t : [Queue!Released(row[a], t) EXCEPT !.delay = d].state = t
  <1>1. row[a] \in Queue!Row
    BY BusyExecution
  <1> QED BY <1>1 DEF Queue!Released, Queue!Renewed, Queue!Row

LEMMA ExecutionFields ==
  ASSUME JQ!TypeInv, NEW w \in Worker, NEW s \in Slot
  PROVE  /\ \A p : /\ Queue!Failing(run[w][s], p).phase = "failing"
                   /\ Queue!Failing(run[w][s], p).job = run[w][s].job
         /\ [run[w][s] EXCEPT !.alive = FALSE].phase = run[w][s].phase
         /\ [run[w][s] EXCEPT !.alive = FALSE].job = run[w][s].job
         /\ Queue!Idle.phase = "idle"
  <1>1. run[w][s] \in Queue!Execution
    BY BusyExecution
  <1> QED BY <1>1 DEF Queue!Failing, Queue!Execution, Queue!Idle

LEMMA QuietEffect ==
  ASSUME JQ!TypeInv, Queue!Reclaim \/ Queue!Tick \/ (\E a \in Asset : Queue!Cancel(a))
  PROVE  RowsKept /\ UNCHANGED run
  <1>1. CASE Queue!Reclaim
    BY <1>1, FieldsOf DEF Queue!Reclaim, Queue!Expired, RowsKept
  <1>2. CASE Queue!Tick
    BY <1>2, BusyExecution DEF Queue!Tick, Queue!Row, RowsKept
  <1>3. ASSUME NEW a \in Asset, Queue!Cancel(a) PROVE RowsKept /\ UNCHANGED run
    BY <1>3, FieldsOf, RowWritten DEF Queue!Cancel, Queue!Waiting
  <1> QED BY <1>1, <1>2, <1>3

LEMMA EnqueueEffect ==
  ASSUME JQ!TypeInv, NEW a \in Asset, Queue!Enqueue(a, PolicyAttempts, 0)
  PROVE  /\ row'[a].state = "queued" /\ UNCHANGED run
         /\ \A b \in Asset \ {a} : row'[b] = row[b]
  <1>1. Queue!Queued(PolicyAttempts, 0).state = "queued"
    BY DEF Queue!Queued, Queue!AbsentRow
  <1>2. ASSUME NEW r, r.state = "queued", Queue!SetRow(a, r)
        PROVE  row'[a].state = "queued" /\ \A b \in Asset \ {a} : row'[b] = row[b]
    BY <1>2, BusyExecution DEF Queue!SetRow
  <1>3. UNCHANGED run
    BY DEF Queue!Enqueue
  <1>4. CASE Queue!SetRow(a, Queue!Queued(PolicyAttempts, 0))
    BY <1>1, <1>2, <1>3, <1>4
  <1> DEFINE r == Queue!Released(row[a], "queued")
             q == [r EXCEPT !.delay = Queue!Earlier(r.delay, 0)]
  <1>5. CASE Queue!SetRow(a, q)
    <2>1. q.state = "queued"
      BY FieldsOf
    <2> HIDE DEF q
    <2> QED BY <1>2, <1>3, <1>5, <2>1
  <1> QED BY <1>4, <1>5 DEF Queue!Enqueue

LEMMA BeatEffect ==
  ASSUME JQ!TypeInv, NEW w \in Worker, NEW s \in Slot, Queue!IntervalBeat(w, s)
  PROVE  RowsKept /\ \A v \in Worker, u \in Slot : SameRun(v, u)
  <1> DEFINE e == run[w][s]
  <1>1. e.phase # "idle" /\ e.job \in Asset
    BY BusyExecution DEF Queue!IntervalBeat
  <1>2. CASE Queue!Holds(w, e.job) /\ Queue!SetRow(e.job, Queue!Renewed(row[e.job])) /\ UNCHANGED run
    BY <1>1, <1>2, FieldsOf, RowWritten DEF Queue!Holds, SameRun
  <1>3. CASE Queue!SetRun(w, s, [e EXCEPT !.alive = FALSE]) /\ UNCHANGED row
    <2>1. run'[w][s] = [e EXCEPT !.alive = FALSE] /\ OthersRun(w, s)
      BY <1>3, RunWritten
    <2>2. SameRun(w, s)
      BY <2>1, ExecutionFields DEF SameRun
    <2> QED BY <1>3, <2>1, <2>2 DEF RowsKept, OthersRun
  <1> QED BY <1>2, <1>3 DEF Queue!IntervalBeat

(* A handler beat that finds the lease lost fails the execution.           *)
LEMMA HandlerBeatEffect ==
  ASSUME JQ!TypeInv, NEW w \in Worker, NEW s \in Slot, Queue!HandlerBeat(w, s)
  PROVE  /\ RowsKept /\ OthersRun(w, s) /\ run'[w][s].job = run[w][s].job
         /\ run'[w][s].phase \in {"handling", "failing"}
  <1> DEFINE e == run[w][s]
  <1>1. e.phase = "handling" /\ e.job \in Asset
    BY BusyExecution DEF Queue!HandlerBeat
  <1>2. CASE Queue!Holds(w, e.job) /\ Queue!SetRow(e.job, Queue!Renewed(row[e.job])) /\ UNCHANGED run
    BY <1>1, <1>2, FieldsOf, RowWritten DEF Queue!Holds, OthersRun, SameRun
  <1>3. CASE Queue!SetRun(w, s, Queue!Failing(e, FALSE)) /\ UNCHANGED row
    <2>1. run'[w][s] = Queue!Failing(e, FALSE) /\ OthersRun(w, s)
      BY <1>3, RunWritten
    <2>2. Queue!Failing(e, FALSE).phase = "failing" /\ Queue!Failing(e, FALSE).job = e.job
      BY ExecutionFields
    <2>3. run'[w][s].phase = "failing" /\ run'[w][s].job = e.job
      BY <2>1, <2>2
    <2> QED BY <1>3, <2>1, <2>3 DEF RowsKept
  <1> QED BY <1>2, <1>3 DEF Queue!HandlerBeat

LEMMA ThrowEffect ==
  ASSUME JQ!TypeInv, NEW w \in Worker, NEW s \in Slot, NEW p, Queue!HandlerThrows(w, s, p)
  PROVE  /\ RowsKept /\ OthersRun(w, s) /\ run'[w][s].job = run[w][s].job
         /\ run'[w][s].phase = "failing"
  BY ExecutionFields, RunWritten DEF Queue!HandlerThrows, RowsKept

LEMMA FailEffect ==
  ASSUME JQ!TypeInv, NEW w \in Worker, NEW s \in Slot,
         (\E b \in 0..MaxDelay : Queue!Fail(w, s, b)) \/ Queue!FailErrors(w, s)
  PROVE  /\ RowsKept /\ OthersRun(w, s)
         /\ run[w][s].phase = "failing" /\ run'[w][s].phase = "idle"
  <1> DEFINE e == run[w][s]
             t == Queue!NextFailureState(e.seen, e.permanent)
  <1>1. t \in {"dead", "retry_wait"}
    BY DEF Queue!NextFailureState
  <1>2. e.phase = "failing" /\ Queue!SetRun(w, s, Queue!Idle) /\ e.job \in Asset
    BY BusyExecution DEF Queue!Fail, Queue!FailErrors
  <1>3. RowsKept
    <2>1. CASE UNCHANGED row
      BY <2>1 DEF RowsKept
    <2>2. ASSUME NEW d, Queue!Holds(w, e.job),
                 Queue!SetRow(e.job, [Queue!Released(row[e.job], t) EXCEPT !.delay = d])
          PROVE  RowsKept
      <3> DEFINE r == [Queue!Released(row[e.job], t) EXCEPT !.delay = d]
      <3>1. r.state = t /\ row[e.job].state = "running"
        BY <1>2, <2>2, FieldsOf DEF Queue!Holds
      <3>2. Queue!SetRow(e.job, r)
        BY <2>2
      <3> HIDE DEF r, t
      <3> QED BY <1>1, <1>2, <3>1, <3>2, RowWritten
    <2> QED BY <2>1, <2>2 DEF Queue!Fail, Queue!FailErrors
  <1> QED BY <1>2, <1>3, ExecutionFields, RunWritten

(* A completion: the row it succeeds is the one of its own job.            *)
LEMMA CompleteEffect ==
  ASSUME JQ!TypeInv, NEW w \in Worker, NEW s \in Slot,
         Queue!Complete(w, s) \/ Queue!CompleteErrors(w, s)
  PROVE  /\ OthersRun(w, s) /\ run[w][s].phase = "handling"
         /\ \A a \in Asset :
              /\ row'[a].state = "absent" <=> row[a].state = "absent"
              /\ row'[a].state = "succeeded" => row[a].state = "succeeded" \/ a = run[w][s].job
         /\ run'[w][s].phase \in {"idle", "failing"}
         /\ run'[w][s].phase = "failing" => run'[w][s].job = run[w][s].job
  <1> DEFINE e == run[w][s]
  <1>1. e.phase = "handling" /\ e.job \in Asset
    BY BusyExecution DEF Queue!Complete, Queue!CompleteErrors
  <1>2. Queue!SetRun(w, s, Queue!Idle) \/ Queue!SetRun(w, s, Queue!Failing(e, FALSE))
    BY DEF Queue!Complete, Queue!CompleteErrors
  <1>3. \/ UNCHANGED row
        \/ /\ Queue!Holds(w, e.job)
           /\ Queue!SetRow(e.job, Queue!Released(row[e.job], "succeeded"))
    BY DEF Queue!Complete, Queue!CompleteErrors
  <1>4. \A a \in Asset :
          /\ row'[a].state = "absent" <=> row[a].state = "absent"
          /\ row'[a].state = "succeeded" => row[a].state = "succeeded" \/ a = e.job
    BY <1>1, <1>3, FieldsOf, BusyExecution DEF Queue!SetRow, Queue!Holds
  <1>5. CASE Queue!SetRun(w, s, Queue!Idle)
    <2>1. run'[w][s] = Queue!Idle /\ OthersRun(w, s)
      BY <1>5, RunWritten
    <2> QED BY <1>1, <1>4, <2>1, ExecutionFields
  <1>6. CASE Queue!SetRun(w, s, Queue!Failing(e, FALSE))
    <2>1. run'[w][s] = Queue!Failing(e, FALSE) /\ OthersRun(w, s)
      BY <1>6, RunWritten
    <2>2. Queue!Failing(e, FALSE).phase = "failing" /\ Queue!Failing(e, FALSE).job = e.job
      BY ExecutionFields
    <2>3. run'[w][s].phase = "failing" /\ run'[w][s].job = e.job
      BY <2>1, <2>2
    <2> QED BY <1>1, <1>4, <2>1, <2>3
  <1> QED BY <1>2, <1>5, <1>6

LEMMA ClaimEffect ==
  ASSUME JQ!TypeInv, NEW w \in Worker, NEW asg \in Queue!Assignments, Queue!Claim(w, asg)
  PROVE  /\ RowsKept
         /\ \A v \in Worker, u \in Slot :
              \/ SameRun(v, u)
              \/ /\ run[v][u].phase = "idle" /\ run'[v][u].phase = "handling"
                 /\ run'[v][u].job \in Asset /\ row[run'[v][u].job].state # "absent"
  <1>1. \A u \in DOMAIN asg : u \in Slot /\ asg[u] \in Asset
    <2>1. PICK S \in (SUBSET Slot) \ {{}} : asg \in [S -> Asset]
      BY DEF Queue!Assignments
    <2> QED BY <2>1
  <1>2. \A u \in DOMAIN asg : run[w][u].phase = "idle" /\ row[asg[u]].state \in Queue!Waiting
    BY DEF Queue!Claim, Queue!Due
  <1>3. RowsKept
    <2> SUFFICES ASSUME NEW a \in Asset
                 PROVE  /\ row'[a].state = "absent" <=> row[a].state = "absent"
                        /\ row'[a].state = "succeeded" => row[a].state = "succeeded"
      BY DEF RowsKept
    <2>1. row[a] \in Queue!Row
      BY BusyExecution
    <2>2. Queue!Claimed(row[a], w).state = "running"
      BY <2>1 DEF Queue!Claimed, Queue!Row
    <2>3. row'[a] = row[a]
          \/ (row'[a] = Queue!Claimed(row[a], w) /\ row[a].state \in Queue!Waiting)
      BY <1>2 DEF Queue!Claim
    <2> QED BY <2>2, <2>3 DEF Queue!Waiting
  <1>4. ASSUME NEW v \in Worker, NEW u \in Slot
        PROVE  \/ SameRun(v, u)
               \/ /\ run[v][u].phase = "idle" /\ run'[v][u].phase = "handling"
                  /\ run'[v][u].job \in Asset /\ row[run'[v][u].job].state # "absent"
    <2>1. CASE v = w /\ u \in DOMAIN asg
      <3>1. run'[w][u] = Queue!Launched(asg[u])
        BY <1>1, <2>1, BusyExecution DEF Queue!Claim
      <3>2. run'[w][u].phase = "handling" /\ run'[w][u].job = asg[u]
        BY <3>1 DEF Queue!Launched, Queue!Idle
      <3> QED BY <1>1, <1>2, <2>1, <3>2 DEF Queue!Waiting
    <2>2. CASE ~(v = w /\ u \in DOMAIN asg)
      BY <2>2, BusyExecution DEF Queue!Claim, SameRun
    <2> QED BY <2>1, <2>2
  <1> QED BY <1>3, <1>4
-----------------------------------------------------------------------------
(* The invariant, part by part.  An asset's three rows agree with each     *)
(* other and with its objects.                                             *)
AssetInv(a) ==
  /\ message[a].state = "published" <=> row[a].state # "absent"
  /\ asset[a].state = "absent" => message[a].state = "absent"
  /\ asset[a].state = "ready" => asset[a].variants
  /\ asset[a].variants => /\ asset[a].state \in {"ready", "failed"}
                          /\ asset[a].sound /\ Variant \subseteq object[a]
  /\ Stored(a) => Original \in object[a]

(* What a handler has seen is still so: its job is there, its asset can be *)
(* decoded, and what it has promoted is in storage for as long as there is *)
(* a row to record it in.                                                  *)
ExecutionInv(w, s) ==
  LET a == run[w][s].job
      x == work[w][s]
  IN
  /\ run[w][s].phase # "idle" => row[a].state # "absent"
  /\ run[w][s].phase # "handling" => x.at = "none"
  /\ x.at \in {"beat", "promote", "publish", "published"} => asset[a].sound
  /\ x.at = "promote" /\ Stored(a) => Variant \ x.left \subseteq object[a]
  /\ x.at = "publish" /\ Stored(a) => Variant \subseteq object[a]

(* A locked message is pending, and one dispatcher holds the lock.         *)
DispatchInv ==
  /\ \A w \in Worker : dispatcher[w].phase = "locked" =>
       message[dispatcher[w].asset].state = "pending"
  /\ \A v, w \in Worker :
       dispatcher[v].phase = "locked" /\ dispatcher[w].phase = "locked"
         /\ dispatcher[v].asset = dispatcher[w].asset => v = w

(* A pass removes the objects of an asset it has deleted; one that is      *)
(* about to delete a ready asset knows all of its objects, unless the      *)
(* variants were recorded after it listed them.                            *)
CollectInv(c) ==
  LET a == collector[c].asset IN
  /\ collector[c].phase = "removing" => asset[a].state = "deleted"
  /\ collector[c].phase = "listed" /\ asset[a].variants =>
       excused[a] \/ collector[c].objects = Variant \cup {Original}

(* NoStrayVariant, for one asset.                                          *)
Publishing(w, s, a) == run[w][s].job = a /\ (At(w, s, "promote") \/ At(w, s, "publish"))

Removing(c, a) ==
  collector[c].phase = "removing" /\ collector[c].asset = a /\ object[a] \subseteq collector[c].objects

StrayFree(a) ==
  (object[a] \ {Original} # {} /\ ~asset[a].variants) =>
    \/ excused[a]
    \/ \E w \in Worker, s \in Slot : Publishing(w, s, a)
    \/ \E c \in Collector : Removing(c, a)

AssetsInv     == \A a \in Asset : AssetInv(a)
ExecutionsInv == \A w \in Worker, s \in Slot : ExecutionInv(w, s)
CollectorsInv == \A c \in Collector : CollectInv(c)

PipelineInv ==
  TypeInv /\ AssetsInv /\ ExecutionsInv /\ DispatchInv /\ CollectorsInv /\ NoStrayVariant

LEMMA StrayFreeAll == NoStrayVariant <=> \A a \in Asset : StrayFree(a)
  BY DEF NoStrayVariant, StrayFree, Publishing, Removing

-----------------------------------------------------------------------------
(* Nothing an execution of a relies on is undone: the bytes stay what they *)
(* are, the objects of an asset stay while its row is there, and so does   *)
(* the row of its job.                                                     *)
Steady(a) ==
  /\ asset'[a].sound = asset[a].sound
  /\ Stored(a)' => Stored(a) /\ object[a] \subseteq object'[a]

(* What may become of an execution in one step.                            *)
Continues(w, s) == SameRun(w, s) /\ work'[w][s] = work[w][s]

Starts(w, s) ==
  /\ run[w][s].phase = "idle" /\ run'[w][s].phase = "handling"
  /\ run'[w][s].job \in Asset /\ row[run'[w][s].job].state # "absent"
  /\ work'[w][s] = work[w][s]

Ends(w, s) ==
  /\ run'[w][s].phase \in {"idle", "failing"} /\ work'[w][s].at = "none"
  /\ run'[w][s].phase = "failing" =>
       run'[w][s].job = run[w][s].job /\ run[w][s].phase # "idle"
  /\ \A a \in Asset : Publishing(w, s, a) => excused'[a]

Advances(w, s) ==
  LET a == run[w][s].job
      x == work[w][s]
      y == work'[w][s]
  IN
  /\ SameRun(w, s) /\ run[w][s].phase = "handling" /\ a \in Asset
  /\ \/ x.at = "none" /\ y.at = "found"
     \/ x.at = "found" /\ y.at = "beat" /\ asset[a].sound
     \/ x.at = "found" /\ y.at = "rejected"
     \/ x.at = "beat" /\ y.at = "found"
     \/ x.at = "beat" /\ y = [at |-> "promote", left |-> Variant]
     \/ /\ x.at = "promote"
        /\ \E v \in x.left :
             /\ object'[a] = object[a] \cup {v}
             /\ y = [at |-> IF x.left = {v} THEN "publish" ELSE "promote", left |-> x.left \ {v}]
     \/ x.at = "publish" /\ y.at = "published" /\ asset'[a].state = "ready" /\ asset'[a].variants

Moves(w, s) == Continues(w, s) \/ Starts(w, s) \/ Ends(w, s) \/ Advances(w, s)
LEMMA SteadyStep ==
  ASSUME PipelineInv, [Next]_vars, NEW a \in Asset
  PROVE  row[a].state = "absent" \/ Steady(a)
  <1> USE DEF outboxVars, storeVars
  <1>1. /\ asset \in [Asset -> AssetRow] /\ AssetInv(a)
        /\ object \in [Asset -> SUBSET (Variant \cup {Original})]
    BY DEF PipelineInv, TypeInv, StoreType, AssetsInv
  <1>2. asset[a] \in AssetRow
    BY <1>1
  <1>3. ASSUME UNCHANGED asset, object[a] \subseteq object'[a] PROVE Steady(a)
    BY <1>3 DEF Steady, Stored
  <1>4. ASSUME NEW b \in Asset, Attach(b) PROVE row[a].state = "absent" \/ Steady(a)
    <2>1. CASE b = a
      BY <1>1, <1>4, <2>1 DEF Attach, AssetInv
    <2>2. CASE b # a
      <3>1. asset'[a] = asset[a] /\ object'[a] = object[a]
        BY <1>1, <1>4, <2>2 DEF Attach
      <3> QED BY <3>1 DEF Steady, Stored
    <2> QED BY <2>1, <2>2
  <1>5. ASSUME NEW b \in Asset, Detach(b) PROVE Steady(a)
    <2>1. /\ asset'[a].state = asset[a].state /\ asset'[a].sound = asset[a].sound
          /\ object' = object
      BY <1>1, <1>2, <1>5 DEF Detach, AssetRow
    <2> QED BY <2>1 DEF Steady, Stored
  <1>6. ASSUME NEW w \in Worker, NEW s \in Slot, Promote(w, s) PROVE Steady(a)
    BY <1>1, <1>3, <1>6 DEF Promote
  <1>7. ASSUME NEW w \in Worker, NEW s \in Slot, Record(w, s) PROVE Steady(a)
    <2>1. /\ asset'[a].sound = asset[a].sound /\ UNCHANGED object
          /\ \/ asset'[a].state = asset[a].state
             \/ asset'[a].state = "ready" /\ Stored(a)
      BY <1>1, <1>2, <1>7 DEF Record, AssetRow
    <2> QED BY <2>1 DEF Steady, Stored
  <1>8. ASSUME NEW w \in Worker, NEW s \in Slot, Reject(w, s) PROVE Steady(a)
    <2>1. /\ asset'[a].sound = asset[a].sound /\ UNCHANGED object
          /\ \/ asset'[a].state = asset[a].state
             \/ asset'[a].state = "failed" /\ Stored(a)
      <3> DEFINE b == run[w][s].job
                 p == run[w][s].claim # claims[b]
      <3>1. CASE UNCHANGED asset
        BY <1>8, <3>1 DEF Reject
      <3>2. CASE /\ Stored(b)
                 /\ asset' = [asset EXCEPT ![b] =
                      [asset[b] EXCEPT !.state = "failed", !.overruled = p]]
        <4>1. asset'[a] = IF a = b THEN [asset[a] EXCEPT !.state = "failed", !.overruled = p]
                                   ELSE asset[a]
          BY <1>1, <3>2
        <4> QED BY <1>2, <1>8, <3>2, <4>1 DEF Reject, AssetRow
      <3> QED BY <1>8, <3>1, <3>2 DEF Reject
    <2> QED BY <1>1, <2>1 DEF Steady, Stored, AssetInv
  <1>9. ASSUME NEW c \in Collector, Delete(c) PROVE Steady(a)
    <2>1. /\ asset'[a].sound = asset[a].sound /\ UNCHANGED object
          /\ asset'[a].state \in {asset[a].state, "deleted"}
      <3> DEFINE b == collector[c].asset
                 r == [asset[b] EXCEPT !.state = "deleted", !.variants = FALSE]
      <3>1. UNCHANGED object /\ (UNCHANGED asset \/ asset' = [asset EXCEPT ![b] = r])
        BY <1>9 DEF Delete
      <3>2. asset'[a] = asset[a] \/ asset'[a] = [asset[a] EXCEPT !.state = "deleted", !.variants = FALSE]
        BY <1>1, <3>1
      <3> QED BY <1>2, <3>1, <3>2 DEF AssetRow
    <2> QED BY <2>1 DEF Steady, Stored
  <1>10. ASSUME NEW c \in Collector, Remove(c) PROVE Steady(a)
    <2>1. /\ UNCHANGED asset
          /\ object'[a] = object[a] \/ (a = collector[c].asset /\ asset[a].state = "deleted")
      BY <1>1, <1>10 DEF Remove, PipelineInv, CollectorsInv, CollectInv
    <2> QED BY <2>1 DEF Steady, Stored
  <1>11. ASSUME UNCHANGED <<asset, object>> PROVE Steady(a)
    BY <1>3, <1>11
  <1>12. ASSUME NEW w \in Worker, NEW s \in Slot, HandlerStep(w, s) PROVE Steady(a)
    BY <1>6, <1>7, <1>8, <1>11, <1>12
    DEF HandlerStep, Find, Missing, Render, Beat, Rejected, Throws, Finish, Fail
  <1>13. ASSUME NEW w \in Worker, DispatcherStep(w) PROVE Steady(a)
    BY <1>11, <1>13 DEF DispatcherStep, Select, Take, Publish, DispatchFails, RecordFailure
  <1>14. ASSUME NEW c \in Collector, CollectorStep(c) PROVE Steady(a)
    BY <1>9, <1>10, <1>11, <1>14 DEF CollectorStep, List, CollectionDies
  <1>15. CASE \/ \E b \in Asset : BackoffEnds(b) \/ Cancel(b)
              \/ \E w \in Worker, asg \in Queue!Assignments : Claim(w, asg)
              \/ \E w \in Worker, s \in Slot : IntervalBeat(w, s)
              \/ \E w \in Worker : Crash(w)
              \/ Reclaim \/ Tick
    BY <1>11, <1>15 DEF BackoffEnds, Cancel, Claim, IntervalBeat, Crash, Reclaim, Tick
  <1>16. CASE UNCHANGED vars
    BY <1>11, <1>16 DEF vars
  <1> QED BY <1>4, <1>5, <1>12, <1>13, <1>14, <1>15, <1>16 DEF Next

(* The row of a job stays once it is there.                                *)
LEMMA RowsPersist ==
  ASSUME PipelineInv, [Next]_vars, NEW a \in Asset, row[a].state # "absent"
  PROVE  row'[a].state # "absent"
  <1>1. JQ!TypeInv
    BY DEF PipelineInv, TypeInv
  <1>2. ASSUME RowsKept \/ UNCHANGED row PROVE row'[a].state # "absent"
    BY <1>2 DEF RowsKept
  <1>3. ASSUME NEW w \in Worker, Publish(w) PROVE row'[a].state # "absent"
    <2> DEFINE b == dispatcher[w].asset
    <2>1. b \in Asset
      BY <1>3 DEF Publish, PipelineInv, TypeInv, DispatcherType
    <2>2. CASE Queue!Enqueue(b, PolicyAttempts, 0)
      BY <1>1, <2>1, <2>2, EnqueueEffect
    <2>3. CASE UNCHANGED row
      BY <1>2, <2>3
    <2> QED BY <1>3, <2>2, <2>3 DEF Publish, queueVars
  <1>4. ASSUME NEW w \in Worker, NEW s \in Slot, HandlerStep(w, s) \/ IntervalBeat(w, s)
        PROVE  row'[a].state # "absent"
    <2>1. CASE IntervalBeat(w, s)
      BY <1>1, <1>2, <2>1, BeatEffect DEF IntervalBeat
    <2>2. CASE Beat(w, s)
      BY <1>1, <1>2, <2>2, HandlerBeatEffect DEF Beat
    <2>3. CASE Missing(w, s) \/ Rejected(w, s) \/ Throws(w, s)
      BY <1>1, <1>2, <2>3, ThrowEffect DEF Missing, Rejected, Throws
    <2>4. CASE Finish(w, s)
      BY <1>1, <2>4, CompleteEffect DEF Finish
    <2>5. CASE Fail(w, s)
      BY <1>1, <1>2, <2>5, FailEffect DEF Fail
    <2> QED
      BY <1>2, <1>4, <2>1, <2>2, <2>3, <2>4, <2>5
      DEF HandlerStep, Find, Render, Promote, Record, Reject, queueVars
  <1>5. CASE Reclaim \/ Tick \/ \E b \in Asset : Cancel(b)
    BY <1>1, <1>2, <1>5, QuietEffect DEF Reclaim, Tick, Cancel
  <1>6. ASSUME NEW w \in Worker, NEW asg \in Queue!Assignments, Claim(w, asg)
        PROVE  row'[a].state # "absent"
    BY <1>1, <1>2, <1>6, ClaimEffect DEF Claim
  <1>7. ASSUME NEW w \in Worker, Crash(w) PROVE UNCHANGED row
    BY <1>7 DEF Crash, Queue!Crash
  <1>8. CASE \/ \E b \in Asset : Attach(b) \/ Detach(b) \/ BackoffEnds(b)
             \/ \E w \in Worker : (\E b \in Asset : Select(w, b)) \/ Take(w)
                                  \/ DispatchFails(w) \/ RecordFailure(w)
             \/ \E c \in Collector : CollectorStep(c)
    BY <1>2, <1>8 DEF Attach, Detach, BackoffEnds, Select, Take, DispatchFails, RecordFailure,
                      CollectorStep, List, Delete, Remove, CollectionDies, queueVars
  <1>9. CASE UNCHANGED vars
    BY <1>2, <1>9 DEF vars
  <1> QED
    BY <1>2, <1>3, <1>4, <1>5, <1>6, <1>7, <1>8, <1>9 DEF Next, DispatcherStep
LEMMA ExecutionsMove ==
  ASSUME PipelineInv, [Next]_vars, NEW v \in Worker, NEW u \in Slot
  PROVE  Moves(v, u)
  <1> USE DEF outboxVars, storeVars, queueVars
  <1>1. /\ JQ!TypeInv /\ ExecutionInv(v, u) /\ excused \in [Asset -> BOOLEAN]
        /\ work \in [Worker -> [Slot -> Work]]
    BY DEF PipelineInv, TypeInv, StoreType, ExecutionsInv
  <1>2. ASSUME SameRun(v, u), UNCHANGED work PROVE Moves(v, u)
    BY <1>2 DEF Moves, Continues
  <1>3. ASSUME UNCHANGED <<run, work>> PROVE Moves(v, u)
    BY <1>2, <1>3 DEF SameRun
  <1>4. CASE Reclaim \/ Tick \/ \E b \in Asset : Cancel(b)
    BY <1>1, <1>3, <1>4, QuietEffect DEF Reclaim, Tick, Cancel
  <1>5. ASSUME NEW w \in Worker, NEW asg \in Queue!Assignments, Claim(w, asg)
        PROVE  Moves(v, u)
    <2>1. UNCHANGED work /\ (SameRun(v, u) \/ Starts(v, u))
      BY <1>1, <1>5, ClaimEffect DEF Claim, Starts
    <2> QED BY <1>2, <2>1 DEF Moves
  <1>6. ASSUME NEW w \in Worker, Crash(w) PROVE Moves(v, u)
    <2>1. CASE v # w
      BY <1>1, <1>6, <2>1, BusyExecution DEF Crash, Queue!Crash, Moves, Continues, SameRun
    <2>2. CASE v = w
      <3>1. run'[v][u] = Queue!Idle /\ work'[v][u] = NoWork
        BY <1>1, <1>6, <2>2, BusyExecution DEF Crash, Queue!Crash
      <3>2. \A a \in Asset : Publishing(v, u, a) => excused'[a]
        BY <1>6, <2>2 DEF Crash, Publishing, At
      <3> QED BY <3>1, <3>2 DEF Moves, Ends, Queue!Idle, NoWork
    <2> QED BY <2>1, <2>2
  <1>7. ASSUME NEW w \in Worker, NEW s \in Slot, IntervalBeat(w, s) PROVE Moves(v, u)
    BY <1>1, <1>2, <1>7, BeatEffect DEF IntervalBeat
  <1>8. ASSUME NEW w \in Worker, NEW s \in Slot, HandlerStep(w, s) PROVE Moves(v, u)
    <2> DEFINE a == run[w][s].job
               x == work[w][s]
               y == work'[w][s]
    <2>1. JQ!TypeInv /\ (run[w][s].phase # "handling" => x.at = "none") /\ x \in Work
          /\ (run[w][s].phase # "idle" => a \in Asset)
      BY BusyExecution DEF PipelineInv, TypeInv, StoreType, ExecutionsInv, ExecutionInv
    <2>2. ASSUME OthersRun(w, s), \/ UNCHANGED work
                                  \/ \E at, left : Goto(w, s, at, left)
          PROVE  v # w \/ u # s => Moves(v, u)
      <3>1. v # w \/ u # s => SameRun(v, u) /\ work'[v][u] = work[v][u]
        BY <1>1, <2>2 DEF OthersRun, Goto
      <3> QED BY <3>1 DEF Moves, Continues
    <2>3. ASSUME UNCHANGED run PROVE OthersRun(w, s) /\ SameRun(w, s)
      BY <2>3 DEF OthersRun, SameRun
    <2>5. CASE Find(w, s) \/ Render(w, s) \/ Promote(w, s) \/ Record(w, s) \/ Reject(w, s)
      <3>1. UNCHANGED run /\ run[w][s].phase = "handling" /\ a \in Asset
            /\ \E at, left : Goto(w, s, at, left)
        BY <2>1, <2>5 DEF Find, Render, Promote, Record, Reject, At
      <3>2. ASSUME Find(w, s) PROVE Advances(w, s)
        <4>1. x.at = "none" /\ y.at = "found"
          BY <1>1, <3>2 DEF Find, At, Goto
        <4> QED BY <2>3, <3>1, <4>1 DEF Advances
      <3>3. ASSUME Render(w, s) PROVE Advances(w, s)
        <4>1. x.at = "found" /\ y.at = "beat" /\ asset[a].sound
          BY <1>1, <3>3 DEF Render, At, Goto
        <4> QED BY <2>3, <3>1, <4>1 DEF Advances
      <3>4. ASSUME Promote(w, s) PROVE Advances(w, s)
        <4>1. PICK o \in x.left \cap temp[a] :
                /\ object' = [object EXCEPT ![a] = object[a] \cup {o}]
                /\ Goto(w, s, IF x.left = {o} THEN "publish" ELSE "promote", x.left \ {o})
          BY <3>4 DEF Promote
        <4>2. x.at = "promote" /\ object'[a] = object[a] \cup {o}
          BY <3>1, <3>4, <4>1 DEF Promote, At, PipelineInv, TypeInv, StoreType
        <4>3. y = [at |-> IF x.left = {o} THEN "publish" ELSE "promote", left |-> x.left \ {o}]
          BY <1>1, <4>1 DEF Goto
        <4> QED BY <2>3, <3>1, <4>2, <4>3 DEF Advances
      <3>5. ASSUME Record(w, s) PROVE Advances(w, s)
        <4>1. x.at = "publish" /\ y.at = "published"
          BY <1>1, <3>5 DEF Record, At, Goto
        <4>2. asset'[a].state = "ready" /\ asset'[a].variants
          BY <3>1, <3>5 DEF Record, PipelineInv, TypeInv, StoreType, AssetRow
        <4> QED BY <2>3, <3>1, <4>1, <4>2 DEF Advances
      <3>6. ASSUME Reject(w, s) PROVE Advances(w, s)
        <4>1. x.at = "found" /\ y.at = "rejected"
          BY <1>1, <3>6 DEF Reject, At, Goto
        <4> QED BY <2>3, <3>1, <4>1 DEF Advances
      <3>7. Moves(w, s)
        BY <2>5, <3>2, <3>3, <3>4, <3>5, <3>6 DEF Moves
      <3> QED BY <2>2, <2>3, <3>1, <3>7
    <2>6. CASE Beat(w, s)
      <3>1. /\ OthersRun(w, s) /\ run'[w][s].job = a /\ x.at = "beat"
            /\ run[w][s].phase = "handling" /\ run'[w][s].phase \in {"handling", "failing"}
        BY <2>1, <2>6, HandlerBeatEffect DEF Beat, At
      <3>2. \E at, left : Goto(w, s, at, left)
        BY <2>6 DEF Beat
      <3>3. CASE run'[w][s].phase = "failing"
        <4>1. y.at = "none"
          BY <1>1, <2>6, <3>3 DEF Beat, Goto
        <4>2. Ends(w, s)
          BY <3>1, <3>3, <4>1 DEF Ends, Publishing, At
        <4> QED BY <2>2, <3>1, <3>2, <4>2 DEF Moves
      <3>4. CASE run'[w][s].phase = "handling"
        <4>1. y.at = "found" \/ y = [at |-> "promote", left |-> Variant]
          BY <1>1, <2>6, <3>4 DEF Beat, Goto
        <4>2. Advances(w, s)
          BY <2>1, <3>1, <3>4, <4>1 DEF Advances, SameRun
        <4> QED BY <2>2, <3>1, <3>2, <4>2 DEF Moves
      <3> QED BY <3>1, <3>3, <3>4
    <2>7. CASE Missing(w, s) \/ Rejected(w, s) \/ Throws(w, s)
      <3>1. /\ OthersRun(w, s) /\ run'[w][s].job = a /\ run'[w][s].phase = "failing"
            /\ run[w][s].phase = "handling"
        BY <2>1, <2>7, ThrowEffect DEF Missing, Rejected, Throws, Queue!HandlerThrows
      <3>2. ASSUME Missing(w, s) PROVE y.at = "none"
        BY <3>2 DEF Missing, At
      <3>3. ASSUME Goto(w, s, "none", {}) PROVE y.at = "none"
        BY <1>1, <3>3 DEF Goto
      <3>4. y.at = "none" /\ (UNCHANGED work \/ \E at, left : Goto(w, s, at, left))
        BY <2>7, <3>2, <3>3 DEF Missing, Rejected, Throws
      <3>5. \A b \in Asset : Publishing(w, s, b) => excused'[b]
        BY <1>1, <2>7 DEF Missing, Rejected, Throws, Abandons, Publishing, At
      <3>6. Ends(w, s)
        BY <3>1, <3>4, <3>5 DEF Ends
      <3> QED BY <2>2, <3>1, <3>4, <3>6 DEF Moves
    <2>8. CASE Finish(w, s)
      <3>1. /\ OthersRun(w, s) /\ run'[w][s].phase \in {"idle", "failing"}
            /\ run'[w][s].phase = "failing" => run'[w][s].job = a
            /\ run[w][s].phase = "handling"
        BY <2>1, <2>8, CompleteEffect DEF Finish
      <3>2. y.at = "none" /\ x.at = "published" /\ Goto(w, s, "none", {})
        BY <1>1, <2>8 DEF Finish, At, Goto
      <3>3. Ends(w, s)
        BY <3>1, <3>2 DEF Ends, Publishing, At
      <3> QED BY <2>2, <3>1, <3>2, <3>3 DEF Moves
    <2>9. CASE Fail(w, s)
      <3>1. /\ OthersRun(w, s) /\ run'[w][s].phase = "idle" /\ UNCHANGED work
            /\ run[w][s].phase = "failing"
        BY <2>1, <2>9, FailEffect DEF Fail
      <3>2. Ends(w, s)
        BY <2>1, <3>1 DEF Ends, Publishing, At
      <3> QED BY <2>2, <3>1, <3>2 DEF Moves
    <2> QED BY <1>8, <2>5, <2>6, <2>7, <2>8, <2>9 DEF HandlerStep
  <1>9. ASSUME NEW w \in Worker, DispatcherStep(w) PROVE UNCHANGED <<run, work>>
    BY <1>9 DEF DispatcherStep, Select, Take, Publish, DispatchFails, RecordFailure, Queue!Enqueue
  <1>10. CASE \/ \E b \in Asset : Attach(b) \/ Detach(b) \/ BackoffEnds(b)
              \/ \E c \in Collector : CollectorStep(c)
    BY <1>3, <1>10 DEF Attach, Detach, BackoffEnds, CollectorStep, List, Delete, Remove,
                       CollectionDies
  <1>11. CASE UNCHANGED vars
    BY <1>3, <1>11 DEF vars
  <1> QED
    BY <1>3, <1>4, <1>5, <1>6, <1>7, <1>8, <1>9, <1>10, <1>11 DEF Next
LEMMA ExecutionKept ==
  ASSUME PipelineInv, [Next]_vars, NEW w \in Worker, NEW s \in Slot
  PROVE  ExecutionInv(w, s)'
  <1>1. JQ!TypeInv /\ ExecutionInv(w, s) /\ work \in [Worker -> [Slot -> Work]]
    BY DEF PipelineInv, TypeInv, StoreType, ExecutionsInv
  <1>2. Moves(w, s)
    BY ExecutionsMove
  <1>3. ASSUME NEW a \in Asset, a = run[w][s].job, run[w][s].phase # "idle"
        PROVE  Steady(a) /\ row'[a].state # "absent"
    <2>1. row[a].state # "absent"
      BY <1>1, <1>3 DEF ExecutionInv
    <2> QED BY <2>1, SteadyStep, RowsPersist
  <1>4. CASE Continues(w, s)
    <2>1. CASE run[w][s].phase = "idle"
      BY <1>1, <1>4, <2>1 DEF Continues, SameRun, ExecutionInv
    <2>2. CASE run[w][s].phase # "idle"
      <3>1. PICK a \in Asset : a = run[w][s].job
        BY <1>1, <2>2, BusyExecution
      <3>2. Steady(a) /\ row'[a].state # "absent"
        BY <1>3, <2>2, <3>1
      <3> QED BY <1>1, <1>4, <3>1, <3>2 DEF Continues, SameRun, ExecutionInv, Steady, Stored
    <2> QED BY <2>1, <2>2
  <1>5. CASE Starts(w, s)
    <2>1. work'[w][s].at = "none"
      BY <1>1, <1>5 DEF Starts, ExecutionInv
    <2>2. row'[run'[w][s].job].state # "absent"
      BY <1>5, RowsPersist DEF Starts
    <2> QED BY <1>5, <2>1, <2>2 DEF ExecutionInv, Starts
  <1>6. CASE Ends(w, s)
    <2>1. CASE run'[w][s].phase = "idle"
      BY <1>6, <2>1 DEF Ends, ExecutionInv
    <2>2. CASE run'[w][s].phase = "failing"
      <3>1. PICK a \in Asset : a = run[w][s].job /\ a = run'[w][s].job
        BY <1>1, <1>6, <2>2, BusyExecution DEF Ends
      <3>2. row'[a].state # "absent"
        BY <1>3, <1>6, <2>2, <3>1 DEF Ends
      <3> QED BY <1>6, <2>2, <3>1, <3>2 DEF Ends, ExecutionInv
    <2> QED BY <1>6, <2>1, <2>2 DEF Ends
  <1>7. CASE Advances(w, s)
    <2>1. PICK a \in Asset : a = run[w][s].job
      BY <1>7 DEF Advances
    <2>2. Steady(a) /\ row'[a].state # "absent"
      BY <1>3, <1>7, <2>1 DEF Advances
    <2>3. run'[w][s].job = a /\ run[w][s].phase = "handling" /\ run'[w][s].phase = "handling"
      BY <1>7, <2>1 DEF Advances, SameRun
    <2> DEFINE x == work[w][s]
               y == work'[w][s]
    <2>4. CASE x.at \in {"none", "found"} \/ y.at = "found"
      <3>1. y.at \in {"found", "beat", "rejected"} /\ (y.at = "beat" => asset[a].sound)
        BY <1>7, <2>1, <2>4 DEF Advances
      <3> QED BY <2>2, <2>3, <3>1 DEF ExecutionInv, Steady
    <2>5. CASE x.at = "beat" /\ y = [at |-> "promote", left |-> Variant]
      BY <1>1, <2>1, <2>2, <2>3, <2>5 DEF ExecutionInv, Steady
    <2>6. CASE x.at = "promote"
      <3>1. PICK v \in x.left :
              /\ object'[a] = object[a] \cup {v}
              /\ y = [at |-> IF x.left = {v} THEN "publish" ELSE "promote", left |-> x.left \ {v}]
        BY <1>7, <2>1, <2>6 DEF Advances
      <3>2. Stored(a) => Variant \ x.left \subseteq object[a]
        BY <1>1, <2>1, <2>6 DEF ExecutionInv
      <3>3. asset'[a].sound /\ (Stored(a)' => Variant \ x.left \subseteq object[a])
        BY <1>1, <2>1, <2>2, <2>6, <3>2 DEF ExecutionInv, Steady
      <3>4. CASE x.left = {v}
        <4>1. y.at = "publish" /\ (Stored(a)' => Variant \subseteq object'[a])
          BY <3>1, <3>3, <3>4
        <4> QED BY <2>2, <2>3, <3>3, <4>1 DEF ExecutionInv
      <3>5. CASE x.left # {v}
        <4>1. y.at = "promote" /\ (Stored(a)' => Variant \ y.left \subseteq object'[a])
          BY <3>1, <3>3, <3>5
        <4> QED BY <2>2, <2>3, <3>3, <4>1 DEF ExecutionInv
      <3> QED BY <3>4, <3>5
    <2>7. CASE x.at = "publish"
      <3>1. y.at = "published" /\ asset'[a].state = "ready"
        BY <1>7, <2>1, <2>7 DEF Advances
      <3>2. asset'[a].sound
        BY <1>1, <2>1, <2>2, <2>7 DEF ExecutionInv, Steady
      <3> QED BY <2>2, <2>3, <3>1, <3>2 DEF ExecutionInv
    <2> QED BY <1>7, <2>4, <2>5, <2>6, <2>7 DEF Advances
  <1> QED BY <1>2, <1>4, <1>5, <1>6, <1>7 DEF Moves

LEMMA DispatchKept ==
  ASSUME PipelineInv, [Next]_vars
  PROVE  DispatchInv'
  <1> USE DEF outboxVars, storeVars
  <1>1. /\ DispatchInv /\ dispatcher \in [Worker -> Dispatch] /\ message \in [Asset -> Message]
        /\ \A w \in Worker : dispatcher[w].phase # "idle" => dispatcher[w].asset \in Asset
    BY DEF PipelineInv, TypeInv, DispatcherType, StoreType
  <1>2. ASSUME \A a \in Asset : message[a].state = "pending" => message'[a].state = "pending",
               \A v \in Worker : dispatcher'[v] = dispatcher[v] \/ dispatcher'[v].phase # "locked"
        PROVE  DispatchInv'
    BY <1>1, <1>2 DEF DispatchInv
  <1>3. Idle.phase # "locked"
    BY DEF Idle
  <1>4. ASSUME UNCHANGED dispatcher, message' = message PROVE DispatchInv'
    BY <1>2, <1>4
  <1>5. ASSUME NEW a \in Asset, Attach(a) \/ BackoffEnds(a) PROVE DispatchInv'
    <2>1. message' = [message EXCEPT ![a].state = "pending"]
          \/ message' = [message EXCEPT ![a].backoff = FALSE]
      BY <1>5 DEF Attach, BackoffEnds
    <2>2. \A b \in Asset : message[b].state = "pending" => message'[b].state = "pending"
      BY <1>1, <2>1 DEF Message
    <2> QED BY <1>2, <1>5, <2>2 DEF Attach, BackoffEnds
  <1>6. ASSUME NEW w \in Worker, DispatcherStep(w) PROVE DispatchInv'
    <2> DEFINE a == dispatcher[w].asset
    <2>1. CASE \E b \in Asset : Select(w, b)
      BY <1>1, <1>2, <2>1 DEF Select
    <2>2. CASE Take(w)
      <3>1. UNCHANGED message /\ a \in Asset
        BY <1>1, <2>2 DEF Take
      <3>2. CASE message[a].state = "pending" /\ ~LockedByOther(w, a)
        <4>1. dispatcher' = [dispatcher EXCEPT ![w] = [phase |-> "locked", asset |-> a]]
          BY <2>2, <3>2 DEF Take
        <4> QED BY <1>1, <3>1, <3>2, <4>1 DEF DispatchInv, LockedByOther
      <3>3. CASE ~(message[a].state = "pending" /\ ~LockedByOther(w, a))
        <4>1. dispatcher' = [dispatcher EXCEPT ![w] = Idle]
          BY <2>2, <3>3 DEF Take
        <4> QED BY <1>1, <1>2, <1>3, <3>1, <4>1
      <3> QED BY <3>2, <3>3
    <2>3. ASSUME Publish(w) \/ DispatchFails(w)
          PROVE  /\ a \in Asset /\ dispatcher'[w].phase # "locked"
                 /\ \A v \in Worker \ {w} : dispatcher'[v] = dispatcher[v]
      <3>1. PICK phase \in {"idle", "failing"} :
              dispatcher' = [dispatcher EXCEPT ![w] =
                IF phase = "idle" THEN Idle ELSE [dispatcher[w] EXCEPT !.phase = phase]]
        BY <2>3 DEF Publish, DispatchFails
      <3>2. dispatcher[w].phase = "locked"
        BY <2>3 DEF Publish, DispatchFails
      <3>3. [dispatcher[w] EXCEPT !.phase = "failing"].phase = "failing"
        BY <1>1 DEF Dispatch
      <3> QED BY <1>1, <1>3, <3>1, <3>2, <3>3
    <2>4. CASE Publish(w)
      <3>1. dispatcher[w].phase = "locked"
        BY <2>4 DEF Publish
      <3>2. \A b \in Asset \ {a} : message'[b] = message[b]
        BY <1>1, <2>4 DEF Publish
      <3> QED BY <1>1, <2>3, <2>4, <3>1, <3>2 DEF DispatchInv
    <2>5. CASE DispatchFails(w)
      <3>1. \A b \in Asset : message'[b].state = message[b].state
        BY <1>1, <2>5 DEF DispatchFails, Message
      <3> QED BY <1>2, <2>3, <2>5, <3>1
    <2>6. CASE RecordFailure(w)
      <3>1. \A b \in Asset : message'[b].state = message[b].state
        BY <1>1, <2>6 DEF RecordFailure, Message
      <3>2. dispatcher' = [dispatcher EXCEPT ![w] = Idle]
        BY <2>6 DEF RecordFailure
      <3> QED BY <1>1, <1>2, <1>3, <3>1, <3>2
    <2> QED BY <1>6, <2>1, <2>2, <2>4, <2>5, <2>6 DEF DispatcherStep
  <1>7. ASSUME NEW w \in Worker, Crash(w) PROVE DispatchInv'
    <2>1. UNCHANGED message /\ dispatcher' = [dispatcher EXCEPT ![w] = Idle]
      BY <1>7 DEF Crash
    <2> QED BY <1>1, <1>2, <1>3, <2>1
  <1>8. ASSUME NEW w \in Worker, NEW s \in Slot, HandlerStep(w, s) \/ IntervalBeat(w, s)
        PROVE  DispatchInv'
    BY <1>4, <1>8
    DEF HandlerStep, IntervalBeat, Find, Missing, Render, Beat, Promote, Record, Reject, Rejected,
        Throws, Finish, Fail
  <1>9. CASE \/ \E b \in Asset : Detach(b) \/ Cancel(b)
             \/ \E w \in Worker, asg \in Queue!Assignments : Claim(w, asg)
             \/ \E c \in Collector : CollectorStep(c)
             \/ Reclaim \/ Tick
    BY <1>4, <1>9 DEF Detach, Cancel, Claim, CollectorStep, List, Delete, Remove, CollectionDies,
                      Reclaim, Tick
  <1>10. CASE UNCHANGED vars
    BY <1>4, <1>10 DEF vars
  <1> QED BY <1>5, <1>6, <1>7, <1>8, <1>9, <1>10 DEF Next
LEMMA AssetKept ==
  ASSUME PipelineInv, [Next]_vars, NEW a \in Asset
  PROVE  AssetInv(a)'
  <1> USE DEF outboxVars, storeVars, queueVars
  <1>1. /\ AssetInv(a) /\ JQ!TypeInv
        /\ asset \in [Asset -> AssetRow] /\ message \in [Asset -> Message]
        /\ object \in [Asset -> SUBSET (Variant \cup {Original})]
        /\ asset[a] \in AssetRow /\ message[a] \in Message
    BY DEF PipelineInv, AssetsInv, TypeInv, StoreType
  <1> DEFINE SameAsset == /\ asset'[a].state = asset[a].state /\ asset'[a].sound = asset[a].sound
                          /\ asset'[a].variants = asset[a].variants
             SameRow == row'[a].state = "absent" <=> row[a].state = "absent"
             SameMessage == message'[a].state = message[a].state
  <1>2. ASSUME SameMessage, SameAsset, SameRow, Stored(a) => object[a] \subseteq object'[a]
        PROVE  AssetInv(a)'
    BY <1>1, <1>2 DEF AssetInv, Stored
  <1>3. (RowsKept \/ UNCHANGED row => SameRow) /\ (UNCHANGED message => SameMessage)
        /\ (UNCHANGED asset => SameAsset)
    BY DEF RowsKept
  <1>4. ASSUME NEW b \in Asset, Attach(b) PROVE AssetInv(a)'
    <2>1. CASE b # a
      <3>1. asset'[a] = asset[a] /\ message'[a] = message[a] /\ object'[a] = object[a]
            /\ UNCHANGED row
        BY <1>1, <1>4, <2>1 DEF Attach
      <3> QED BY <1>2, <3>1
    <2>2. CASE b = a
      <3>1. /\ asset'[a].state = "pending" /\ asset'[a].variants = asset[a].variants
            /\ message'[a].state = "pending" /\ object'[a] = {Original}
            /\ asset[a].state = "absent" /\ UNCHANGED row
        BY <1>1, <1>4, <2>2 DEF Attach, AssetRow, Message
      <3>2. row[a].state = "absent" /\ ~asset[a].variants
        BY <1>1, <3>1 DEF AssetInv
      <3> QED BY <3>1, <3>2 DEF AssetInv, Stored
    <2> QED BY <2>1, <2>2
  <1>5. ASSUME NEW b \in Asset, Detach(b) PROVE AssetInv(a)'
    <2>1. SameAsset /\ UNCHANGED <<row, message, object>>
      BY <1>1, <1>5 DEF Detach, AssetRow
    <2> QED BY <1>2, <1>3, <2>1
  <1>6. ASSUME NEW b \in Asset, BackoffEnds(b) PROVE AssetInv(a)'
    <2>1. SameMessage /\ UNCHANGED <<row, asset, object>>
      BY <1>1, <1>6 DEF BackoffEnds, Message
    <2> QED BY <1>2, <1>3, <2>1
  <1>7. ASSUME NEW w \in Worker, DispatcherStep(w) PROVE AssetInv(a)'
    <2> DEFINE b == dispatcher[w].asset
    <2>1. CASE (\E c \in Asset : Select(w, c)) \/ Take(w)
      BY <1>2, <1>3, <2>1 DEF Select, Take
    <2>2. CASE DispatchFails(w) \/ RecordFailure(w)
      <3>1. SameMessage
        BY <1>1, <2>2 DEF DispatchFails, RecordFailure, Message
      <3> QED BY <1>2, <1>3, <2>2, <3>1 DEF DispatchFails, RecordFailure
    <2>3. CASE Publish(w)
      <3>1. b \in Asset /\ message[b].state = "pending"
        BY <2>3 DEF Publish, PipelineInv, TypeInv, DispatcherType, DispatchInv
      <3>2. row[b].state = "absent"
        BY <3>1 DEF PipelineInv, AssetsInv, AssetInv
      <3>3. Queue!Enqueue(b, PolicyAttempts, 0)
        BY <2>3, <3>2 DEF Publish
      <3>4. row'[b].state = "queued" /\ \A c \in Asset \ {b} : row'[c] = row[c]
        BY <1>1, <3>1, <3>3, EnqueueEffect
      <3>5. UNCHANGED <<asset, object>>
            /\ message' = [message EXCEPT ![b] = [message[b] EXCEPT !.state = "published"]]
        BY <2>3 DEF Publish
      <3>6. CASE a = b
        <4>1. message'[a].state = "published" /\ asset[a].state # "absent"
          BY <1>1, <3>1, <3>5, <3>6 DEF AssetInv, Message
        <4> QED BY <1>1, <3>4, <3>5, <3>6, <4>1 DEF AssetInv, Stored
      <3>7. CASE a # b
        <4>1. message'[a] = message[a] /\ row'[a] = row[a]
          BY <1>1, <3>4, <3>5, <3>7
        <4> QED BY <1>2, <1>3, <3>5, <4>1
      <3> QED BY <3>6, <3>7
    <2> QED BY <1>7, <2>1, <2>2, <2>3 DEF DispatcherStep
  <1>8. ASSUME NEW w \in Worker, NEW s \in Slot, HandlerStep(w, s) PROVE AssetInv(a)'
    <2> DEFINE b == run[w][s].job
    <2>1. ExecutionInv(w, s) /\ \A at : At(w, s, at) => b \in Asset
      BY <1>1, BusyExecution DEF PipelineInv, ExecutionsInv, At
    <2>2. CASE Find(w, s) \/ Render(w, s)
      BY <1>2, <1>3, <2>2 DEF Find, Render
    <2>3. CASE Missing(w, s) \/ Rejected(w, s) \/ Throws(w, s)
      <3>1. RowsKept
        BY <1>1, <2>3, ThrowEffect DEF Missing, Rejected, Throws
      <3> QED BY <1>2, <1>3, <2>3, <3>1 DEF Missing, Rejected, Throws
    <2>4. CASE Beat(w, s)
      <3>1. RowsKept
        BY <1>1, <2>4, HandlerBeatEffect DEF Beat
      <3> QED BY <1>2, <1>3, <2>4, <3>1 DEF Beat
    <2>5. CASE Fail(w, s)
      <3>1. RowsKept
        BY <1>1, <2>5, FailEffect DEF Fail
      <3> QED BY <1>2, <1>3, <2>5, <3>1 DEF Fail
    <2>6. CASE Promote(w, s)
      <3>1. object[a] \subseteq object'[a]
        BY <1>1, <2>6 DEF Promote
      <3> QED BY <1>2, <1>3, <2>6, <3>1 DEF Promote
    <2>7. CASE Record(w, s)
      <3>1. b \in Asset /\ UNCHANGED <<row, message, object>>
            /\ asset' = [asset EXCEPT ![b] = [asset[b] EXCEPT !.state = "ready",
                                        !.variants = TRUE, !.overruled = FALSE]]
        BY <2>1, <2>7 DEF Record
      <3>2. CASE a # b
        BY <1>1, <1>2, <1>3, <3>1, <3>2
      <3>3. CASE a = b
        <4>1. /\ asset'[a].state = "ready" /\ asset'[a].variants = TRUE
              /\ asset'[a].sound = asset[a].sound
          BY <1>1, <3>1, <3>3 DEF AssetRow
        <4>2. asset[a].sound /\ Variant \subseteq object[a] /\ Stored(a)
          BY <2>1, <2>7, <3>3 DEF Record, At, ExecutionInv
        <4> QED BY <1>1, <3>1, <4>1, <4>2 DEF AssetInv, Stored
      <3> QED BY <3>2, <3>3
    <2>8. CASE Reject(w, s)
      <3> DEFINE p == run[w][s].claim # claims[b]
      <3>1. b \in Asset /\ UNCHANGED <<row, message, object>>
        BY <2>1, <2>8 DEF Reject
      <3>2. CASE UNCHANGED asset
        BY <1>2, <1>3, <3>1, <3>2
      <3>3. CASE /\ Stored(b)
                 /\ asset' = [asset EXCEPT ![b] =
                      [asset[b] EXCEPT !.state = "failed", !.overruled = p]]
        <4>1. CASE a # b
          BY <1>1, <1>2, <1>3, <3>1, <3>3, <4>1
        <4>2. CASE a = b
          <5>1. /\ asset'[a].state = "failed" /\ asset'[a].variants = asset[a].variants
                /\ asset'[a].sound = asset[a].sound
            BY <1>1, <3>1, <3>3, <4>2 DEF AssetRow
          <5> QED BY <1>1, <3>1, <3>3, <4>2, <5>1 DEF AssetInv, Stored
        <4> QED BY <4>1, <4>2
      <3> QED BY <2>8, <3>2, <3>3 DEF Reject
    <2>9. CASE Finish(w, s)
      <3>1. /\ row'[a].state = "absent" <=> row[a].state = "absent"
            /\ UNCHANGED <<asset, message, object>>
        BY <1>1, <2>9, CompleteEffect DEF Finish
      <3> QED BY <1>1, <3>1 DEF AssetInv, Stored
    <2> QED BY <1>8, <2>2, <2>3, <2>4, <2>5, <2>6, <2>7, <2>8, <2>9 DEF HandlerStep
  <1>9. ASSUME NEW c \in Collector, CollectorStep(c) PROVE AssetInv(a)'
    <2> DEFINE b == collector[c].asset
    <2>1. UNCHANGED <<row, message>>
      BY <1>9 DEF CollectorStep, List, Delete, Remove, CollectionDies
    <2>2. CASE (\E d \in Asset : List(c, d)) \/ CollectionDies(c)
      BY <1>2, <1>3, <2>1, <2>2 DEF List, CollectionDies
    <2>3. CASE Delete(c)
      <3>1. UNCHANGED object
        BY <2>3 DEF Delete
      <3>2. CASE UNCHANGED asset
        BY <1>2, <1>3, <2>1, <3>1, <3>2
      <3>3. CASE asset' = [asset EXCEPT ![b] = [asset[b] EXCEPT !.state = "deleted",
                                                               !.variants = FALSE]]
        <4>1. CASE a # b
          BY <1>1, <1>2, <1>3, <2>1, <3>1, <3>3, <4>1
        <4>2. CASE a = b
          <5>1. asset'[a].state = "deleted" /\ asset'[a].variants = FALSE
            BY <1>1, <3>3, <4>2 DEF AssetRow
          <5> QED BY <1>1, <2>1, <5>1 DEF AssetInv, Stored
        <4> QED BY <4>1, <4>2
      <3> QED BY <2>3, <3>2, <3>3 DEF Delete
    <2>4. CASE Remove(c)
      <3>1. UNCHANGED asset /\ (Stored(a) => object'[a] = object[a])
        BY <1>1, <2>4 DEF Remove, PipelineInv, CollectorsInv, CollectInv, Stored
      <3> QED BY <1>2, <1>3, <2>1, <3>1
    <2> QED BY <1>9, <2>2, <2>3, <2>4 DEF CollectorStep
  <1>10. ASSUME NEW w \in Worker, NEW s \in Slot, IntervalBeat(w, s) PROVE AssetInv(a)'
    <2>1. RowsKept
      BY <1>1, <1>10, BeatEffect DEF IntervalBeat
    <2> QED BY <1>2, <1>3, <1>10, <2>1 DEF IntervalBeat
  <1>11. CASE Reclaim \/ Tick \/ \E b \in Asset : Cancel(b)
    <2>1. RowsKept
      BY <1>1, <1>11, QuietEffect DEF Reclaim, Tick, Cancel
    <2> QED BY <1>2, <1>3, <1>11, <2>1 DEF Reclaim, Tick, Cancel
  <1>12. ASSUME NEW w \in Worker, NEW asg \in Queue!Assignments, Claim(w, asg)
         PROVE  AssetInv(a)'
    <2>1. RowsKept
      BY <1>1, <1>12, ClaimEffect DEF Claim
    <2> QED BY <1>2, <1>3, <1>12, <2>1 DEF Claim
  <1>13. ASSUME NEW w \in Worker, Crash(w) PROVE AssetInv(a)'
    BY <1>2, <1>3, <1>13 DEF Crash, Queue!Crash
  <1>14. CASE UNCHANGED vars
    BY <1>2, <1>3, <1>14 DEF vars
  <1> QED
    BY <1>4, <1>5, <1>6, <1>7, <1>8, <1>9, <1>10, <1>11, <1>12, <1>13, <1>14 DEF Next
(* What handlers write to an asset's row, and that excuses last.           *)
LEMMA HandlerWrites ==
  ASSUME PipelineInv, NEW w \in Worker, NEW s \in Slot, HandlerStep(w, s), NEW a \in Asset
  PROVE  /\ asset[a].state = "deleted" => asset'[a].state = "deleted"
         /\ asset[a].variants => asset'[a].variants
         /\ asset'[a].variants => \/ asset[a].variants
                                  \/ Stored(a) /\ (CollectedNow(a) => excused'[a])
         /\ excused[a] => excused'[a]
         /\ UNCHANGED collector
  <1>1. /\ asset \in [Asset -> AssetRow] /\ asset[a] \in AssetRow
        /\ excused \in [Asset -> BOOLEAN]
    BY DEF PipelineInv, TypeInv, StoreType
  <1>2. CASE UNCHANGED <<asset, excused, collector>>
    BY <1>2
  <1>3. CASE Record(w, s)
    <2> DEFINE b == run[w][s].job
    <2>1. /\ asset' = [asset EXCEPT ![b] = [asset[b] EXCEPT !.state = "ready",
                                        !.variants = TRUE, !.overruled = FALSE]]
          /\ excused' = [excused EXCEPT ![b] = excused[b] \/ CollectedNow(b)]
          /\ Stored(b) /\ UNCHANGED collector
      BY <1>3 DEF Record
    <2>2. CASE a # b
      BY <1>1, <2>1, <2>2
    <2>3. CASE a = b
      <3>1. /\ asset'[a].variants = TRUE /\ asset[a].state # "deleted"
            /\ excused'[a] = (excused[a] \/ CollectedNow(a))
        BY <1>1, <2>1, <2>3 DEF AssetRow, Stored
      <3> QED BY <2>1, <2>3, <3>1
    <2> QED BY <2>2, <2>3
  <1>4. CASE Reject(w, s)
    <2> DEFINE b == run[w][s].job
               p == run[w][s].claim # claims[b]
    <2>1. CASE UNCHANGED asset
      BY <1>4, <2>1 DEF Reject
    <2>2. CASE /\ Stored(b)
               /\ asset' = [asset EXCEPT ![b] =
                    [asset[b] EXCEPT !.state = "failed", !.overruled = p]]
      <3>1. /\ asset'[a].variants = asset[a].variants
            /\ asset[a].state = "deleted" => asset'[a].state = "deleted"
        BY <1>1, <2>2 DEF AssetRow, Stored
      <3> QED BY <1>4, <3>1 DEF Reject
    <2> QED BY <1>4, <2>1, <2>2 DEF Reject
  <1>5. CASE Throws(w, s)
    BY <1>1, <1>5 DEF Throws, Abandons
  <1> QED
    BY <1>2, <1>3, <1>4, <1>5
    DEF HandlerStep, Find, Missing, Render, Beat, Promote, Rejected, Finish, Fail

LEMMA CollectKept ==
  ASSUME PipelineInv, [Next]_vars, NEW c \in Collector
  PROVE  CollectInv(c)'
  <1>1. /\ CollectInv(c) /\ asset \in [Asset -> AssetRow]
        /\ excused \in [Asset -> BOOLEAN] /\ collector \in [Collector -> Collection]
        /\ \A d \in Collector : collector[d].phase # "idle" => collector[d].asset \in Asset
    BY DEF PipelineInv, CollectorsInv, TypeInv, StoreType, CollectorType
  <1>2. ASSUME collector'[c] = collector[c],
               \A a \in Asset :
                 /\ asset[a].state = "deleted" => asset'[a].state = "deleted"
                 /\ asset'[a].variants => \/ asset[a].variants
                                          \/ Stored(a) /\ (CollectedNow(a) => excused'[a])
                 /\ excused[a] => excused'[a]
        PROVE  CollectInv(c)'
    <2>1. CASE collector[c].phase = "idle"
      BY <1>2, <2>1 DEF CollectInv
    <2>2. CASE collector[c].phase # "idle"
      <3>1. PICK a \in Asset : a = collector[c].asset
        BY <1>1, <2>2
      <3>2. collector[c].phase = "listed" => CollectedNow(a)
        BY <3>1 DEF CollectedNow
      <3> QED BY <1>1, <1>2, <3>1, <3>2 DEF CollectInv
    <2> QED BY <2>1, <2>2
  <1>3. Resting.phase = "idle"
    BY DEF Resting
  <1>4. ASSUME UNCHANGED <<asset, excused, collector>> PROVE CollectInv(c)'
    BY <1>2, <1>4
  <1>5. ASSUME NEW b \in Asset, Attach(b) \/ Detach(b) PROVE CollectInv(c)'
    <2>1. UNCHANGED <<excused, collector>>
      BY <1>5 DEF Attach, Detach
    <2>2. \A a \in Asset : /\ asset[a].state = "deleted" => asset'[a].state = "deleted"
                           /\ asset'[a].variants = asset[a].variants
      <3>1. CASE Attach(b)
        BY <1>1, <3>1 DEF Attach, AssetRow
      <3>2. CASE Detach(b)
        BY <1>1, <3>2 DEF Detach, AssetRow
      <3> QED BY <1>5, <3>1, <3>2
    <2> QED BY <1>2, <2>1, <2>2
  <1>6. ASSUME NEW w \in Worker, NEW s \in Slot, HandlerStep(w, s) PROVE CollectInv(c)'
    <2>1. UNCHANGED collector
      BY <1>6 DEF HandlerStep, Find, Missing, Render, Beat, Promote, Record, Reject, Rejected,
                  Throws, Finish, Fail
    <2> QED BY <1>2, <1>6, <2>1, HandlerWrites
  <1>7. ASSUME NEW d \in Collector, NEW b \in Asset, List(d, b) PROVE CollectInv(c)'
    <2>1. CASE d # c
      BY <1>1, <1>2, <1>7, <2>1 DEF List
    <2>2. CASE d = c
      <3>1. /\ collector'[c] = [phase |-> "listed", asset |-> b,
                               objects |-> {Original} \cup VariantRows(b)]
            /\ UNCHANGED asset
        BY <1>1, <1>7, <2>2 DEF List
      <3> QED BY <3>1 DEF CollectInv, VariantRows
    <2> QED BY <2>1, <2>2
  <1>8. ASSUME NEW d \in Collector, Delete(d) PROVE CollectInv(c)'
    <2> DEFINE b == collector[d].asset
    <2>1. collector[d].phase = "listed" /\ b \in Asset /\ UNCHANGED excused
      BY <1>1, <1>8 DEF Delete
    <2>2. CASE Stored(b)
      <3>1. /\ asset' = [asset EXCEPT ![b] = [asset[b] EXCEPT !.state = "deleted",
                                                              !.variants = FALSE]]
            /\ collector' = [collector EXCEPT ![d] = [collector[d] EXCEPT !.phase = "removing"]]
        BY <1>8, <2>2 DEF Delete
      <3>2. \A a \in Asset : /\ asset[a].state = "deleted" => asset'[a].state = "deleted"
                             /\ asset'[a].variants => asset[a].variants
        BY <1>1, <3>1 DEF AssetRow
      <3>3. CASE d # c
        BY <1>1, <1>2, <2>1, <3>1, <3>2, <3>3
      <3>4. CASE d = c
        <4>1. collector'[c].phase = "removing" /\ collector'[c].asset = b
          BY <1>1, <3>1, <3>4 DEF Collection
        <4>2. asset'[b].state = "deleted"
          BY <1>1, <2>1, <3>1 DEF AssetRow
        <4> QED BY <4>1, <4>2 DEF CollectInv
      <3> QED BY <3>3, <3>4
    <2>3. CASE ~Stored(b)
      <3>1. UNCHANGED asset /\ collector' = [collector EXCEPT ![d] = Resting]
        BY <1>8, <2>3 DEF Delete
      <3>2. CASE d # c
        BY <1>1, <1>2, <2>1, <3>1, <3>2
      <3>3. CASE d = c
        BY <1>1, <1>3, <3>1, <3>3 DEF CollectInv
      <3> QED BY <3>2, <3>3
    <2> QED BY <2>2, <2>3
  <1>9. ASSUME NEW d \in Collector, Remove(d) PROVE CollectInv(c)'
    <2>1. PICK o \in collector[d].objects :
            collector' = [collector EXCEPT ![d] =
              IF collector[d].objects = {o} THEN Resting
              ELSE [collector[d] EXCEPT !.objects = collector[d].objects \ {o}]]
      BY <1>9 DEF Remove
    <2>2. collector[d].phase = "removing" /\ UNCHANGED <<asset, excused>>
      BY <1>9 DEF Remove
    <2>3. CASE d # c
      BY <1>1, <1>2, <2>1, <2>2, <2>3
    <2>4. CASE d = c
      <3>1. \/ collector'[c].phase = "idle"
            \/ collector'[c].phase = "removing" /\ collector'[c].asset = collector[c].asset
        BY <1>1, <1>3, <2>1, <2>2, <2>4 DEF Collection
      <3> QED BY <1>1, <2>2, <2>4, <3>1 DEF CollectInv
    <2> QED BY <2>3, <2>4
  <1>10. ASSUME NEW d \in Collector, CollectionDies(d) PROVE CollectInv(c)'
    <2>1. collector' = [collector EXCEPT ![d] = Resting] /\ UNCHANGED asset
      BY <1>10 DEF CollectionDies
    <2>2. \A a \in Asset : excused[a] => excused'[a]
      BY <1>1, <1>10 DEF CollectionDies
    <2>3. CASE d # c
      BY <1>1, <1>2, <2>1, <2>2, <2>3
    <2>4. CASE d = c
      BY <1>1, <1>3, <2>1, <2>4 DEF CollectInv
    <2> QED BY <2>3, <2>4
  <1>11. ASSUME NEW w \in Worker, Crash(w) PROVE CollectInv(c)'
    <2>1. UNCHANGED <<asset, collector>> /\ \A a \in Asset : excused[a] => excused'[a]
      BY <1>11 DEF Crash
    <2> QED BY <1>2, <2>1
  <1>12. ASSUME NEW w \in Worker, DispatcherStep(w) PROVE CollectInv(c)'
    BY <1>4, <1>12 DEF DispatcherStep, Select, Take, Publish, DispatchFails, RecordFailure
  <1>13. CASE \/ \E b \in Asset : BackoffEnds(b) \/ Cancel(b)
              \/ \E w \in Worker, asg \in Queue!Assignments : Claim(w, asg)
              \/ \E w \in Worker, s \in Slot : IntervalBeat(w, s)
              \/ Reclaim \/ Tick
    BY <1>4, <1>13 DEF BackoffEnds, Cancel, Claim, IntervalBeat, Reclaim, Tick
  <1>14. CASE UNCHANGED vars
    BY <1>4, <1>14 DEF vars
  <1> QED
    BY <1>5, <1>6, <1>7, <1>8, <1>9, <1>10, <1>11, <1>12, <1>13, <1>14 DEF Next, CollectorStep
(* An execution stops publishing an asset only by recording its variants,  *)
(* or in one of the ways that excuse what it leaves behind.                *)
LEMMA PublishingKept ==
  ASSUME PipelineInv, [Next]_vars, NEW a \in Asset, NEW w \in Worker, NEW s \in Slot,
         Publishing(w, s, a)
  PROVE  Publishing(w, s, a)' \/ excused'[a] \/ asset'[a].variants
  <1>1. Moves(w, s) /\ run[w][s].job = a /\ run[w][s].phase = "handling"
        /\ work[w][s].at \in {"promote", "publish"}
    BY ExecutionsMove DEF Publishing, At
  <1>2. CASE Continues(w, s)
    <2>1. /\ run'[w][s].job = a /\ run'[w][s].phase = "handling"
          /\ work'[w][s].at \in {"promote", "publish"}
      BY <1>1, <1>2 DEF Continues, SameRun
    <2> QED BY <2>1 DEF Publishing, At
  <1>3. CASE Starts(w, s)
    BY <1>1, <1>3 DEF Starts
  <1>4. CASE Ends(w, s)
    BY <1>4 DEF Ends
  <1>5. CASE Advances(w, s)
    <2>1. run'[w][s].job = a /\ run'[w][s].phase = "handling"
      BY <1>1, <1>5 DEF Advances, SameRun
    <2>2. work'[w][s].at \in {"promote", "publish"} \/ asset'[a].variants
      <3>1. CASE work[w][s].at = "promote"
        <4>1. PICK v : work'[w][s] =
                [at |-> IF work[w][s].left = {v} THEN "publish" ELSE "promote",
                 left |-> work[w][s].left \ {v}]
          BY <1>5, <3>1 DEF Advances
        <4> QED BY <4>1
      <3>2. CASE work[w][s].at = "publish"
        BY <1>1, <1>5, <3>2 DEF Advances
      <3> QED BY <1>1, <3>1, <3>2
    <2> QED BY <2>1, <2>2 DEF Publishing, At
  <1> QED BY <1>1, <1>2, <1>3, <1>4, <1>5 DEF Moves

LEMMA StrayKept ==
  ASSUME PipelineInv, [Next]_vars, NEW a \in Asset
  PROVE  StrayFree(a)'
  <1>1. /\ StrayFree(a) /\ asset \in [Asset -> AssetRow]
        /\ excused \in [Asset -> BOOLEAN] /\ collector \in [Collector -> Collection]
        /\ object \in [Asset -> SUBSET (Variant \cup {Original})]
        /\ \A d \in Collector : collector[d].phase # "idle" => collector[d].asset \in Asset
    BY StrayFreeAll DEF PipelineInv, TypeInv, StoreType, CollectorType
  <1>2. ASSUME object'[a] \ {Original} \subseteq object[a],
               asset[a].variants => asset'[a].variants, excused[a] => excused'[a],
               \A c \in Collector : Removing(c, a) =>
                 Removing(c, a)' \/ object'[a] \subseteq {Original} \/ excused'[a]
        PROVE  StrayFree(a)'
    BY <1>1, <1>2, PublishingKept DEF StrayFree
  <1>3. ASSUME asset[a].variants => asset'[a].variants, excused[a] => excused'[a],
               UNCHANGED collector, object'[a] = object[a]
        PROVE  StrayFree(a)'
    BY <1>2, <1>3 DEF Removing
  <1>4. ASSUME UNCHANGED <<asset, object, excused, collector>> PROVE StrayFree(a)'
    BY <1>3, <1>4
  <1>5. ASSUME NEW b \in Asset, Attach(b) PROVE StrayFree(a)'
    <2>1. CASE a = b
      <3>1. object'[a] = {Original}
        BY <1>1, <1>5, <2>1 DEF Attach
      <3> QED BY <3>1 DEF StrayFree
    <2>2. CASE a # b
      <3>1. object'[a] = object[a] /\ asset'[a] = asset[a] /\ UNCHANGED <<excused, collector>>
        BY <1>1, <1>5, <2>2 DEF Attach
      <3> QED BY <1>3, <3>1
    <2> QED BY <2>1, <2>2
  <1>6. ASSUME NEW b \in Asset, Detach(b) PROVE StrayFree(a)'
    <2>1. asset'[a].variants = asset[a].variants /\ UNCHANGED <<object, excused, collector>>
      BY <1>1, <1>6 DEF Detach, AssetRow, storeVars
    <2> QED BY <1>3, <2>1
  <1>7. ASSUME NEW w \in Worker, NEW s \in Slot, HandlerStep(w, s) PROVE StrayFree(a)'
    <2>1. CASE Promote(w, s)
      <3> DEFINE b == run[w][s].job
      <3>1. /\ run[w][s].phase = "handling" /\ work[w][s].at = "promote"
            /\ UNCHANGED <<run, asset, excused, collector>>
        BY <2>1 DEF Promote, At, queueVars
      <3>2. CASE b = a
        <4>1. PICK v \in work[w][s].left \cap temp[b] :
                Goto(w, s, IF work[w][s].left = {v} THEN "publish" ELSE "promote",
                     work[w][s].left \ {v})
          BY <2>1 DEF Promote
        <4>2. work'[w][s].at \in {"publish", "promote"}
          BY <4>1 DEF Goto, PipelineInv, TypeInv, StoreType
        <4>3. Publishing(w, s, a)'
          BY <3>1, <3>2, <4>2 DEF Publishing, At
        <4> QED BY <4>3 DEF StrayFree
      <3>3. CASE b # a
        <4>1. object'[a] = object[a]
          BY <1>1, <2>1, <3>3 DEF Promote
        <4> QED BY <1>3, <3>1, <4>1
      <3> QED BY <3>2, <3>3
    <2>2. CASE ~Promote(w, s)
      <3>1. UNCHANGED object
        BY <1>7, <2>2 DEF HandlerStep, Find, Missing, Render, Beat, Record, Reject, Rejected,
                          Throws, Finish, Fail, storeVars
      <3> QED BY <1>3, <1>7, <3>1, HandlerWrites
    <2> QED BY <2>1, <2>2
  <1>8. ASSUME NEW c \in Collector, NEW b \in Asset, List(c, b) PROVE StrayFree(a)'
    <2>1. \A d \in Collector : Removing(d, a) => Removing(d, a)'
      BY <1>1, <1>8 DEF List, Removing, storeVars
    <2> QED BY <1>2, <1>8, <2>1 DEF List, storeVars
  <1>9. ASSUME NEW c \in Collector, Delete(c) PROVE StrayFree(a)'
    <2> DEFINE b == collector[c].asset
    <2>1. collector[c].phase = "listed" /\ b \in Asset /\ UNCHANGED <<object, excused>>
      BY <1>1, <1>9 DEF Delete, storeVars
    <2>2. \A d \in Collector : Removing(d, a) => Removing(d, a)'
      BY <1>1, <1>9, <2>1 DEF Delete, Removing
    <2>3. CASE ~Stored(b) \/ a # b
      <3>1. asset'[a] = asset[a]
        BY <1>1, <1>9, <2>3 DEF Delete
      <3> QED BY <1>2, <2>1, <2>2, <3>1
    <2>4. CASE Stored(b) /\ a = b
      <3>1. collector'[c].phase = "removing" /\ collector'[c].asset = a
            /\ collector'[c].objects = collector[c].objects
        <4>1. collector' = [collector EXCEPT ![c] = [collector[c] EXCEPT !.phase = "removing"]]
          BY <1>9, <2>4 DEF Delete
        <4> QED BY <1>1, <2>4, <4>1 DEF Collection
      <3>2. CASE asset[a].variants
        <4>1. excused[a] \/ collector[c].objects = Variant \cup {Original}
          BY <2>1, <2>4, <3>2 DEF PipelineInv, CollectorsInv, CollectInv
        <4>2. excused'[a] \/ Removing(c, a)'
          BY <1>1, <2>1, <3>1, <4>1 DEF Removing
        <4> QED BY <4>2 DEF StrayFree
      <3>3. CASE ~asset[a].variants
        BY <1>2, <2>1, <2>2, <3>3
      <3> QED BY <3>2, <3>3
    <2> QED BY <2>3, <2>4
  <1>10. ASSUME NEW c \in Collector, Remove(c) PROVE StrayFree(a)'
    <2> DEFINE b == collector[c].asset
    <2>1. PICK o \in collector[c].objects :
            /\ object' = [object EXCEPT ![b] = object[b] \ {o}]
            /\ collector' = [collector EXCEPT ![c] =
                 IF collector[c].objects = {o} THEN Resting
                 ELSE [collector[c] EXCEPT !.objects = collector[c].objects \ {o}]]
      BY <1>10 DEF Remove
    <2>2. /\ collector[c].phase = "removing" /\ b \in Asset /\ collector[c] \in Collection
          /\ UNCHANGED <<asset, excused>>
      BY <1>1, <1>10 DEF Remove
    <2>3. object'[a] \subseteq object[a]
      BY <1>1, <2>1, <2>2
    <2>4. ASSUME NEW d \in Collector, Removing(d, a)
          PROVE  Removing(d, a)' \/ object'[a] \subseteq {Original}
      <3>1. CASE d # c
        BY <1>1, <2>1, <2>3, <2>4, <3>1 DEF Removing
      <3>2. CASE d = c
        <4>1. a = b /\ object[a] \subseteq collector[c].objects /\ object'[a] = object[a] \ {o}
          BY <1>1, <2>1, <2>2, <2>4, <3>2 DEF Removing
        <4>2. CASE collector[c].objects = {o}
          BY <4>1, <4>2
        <4>3. CASE collector[c].objects # {o}
          <5>1. collector'[c] = [collector[c] EXCEPT !.objects = collector[c].objects \ {o}]
            BY <1>1, <2>1, <4>3
          <5>2. /\ collector'[c].phase = "removing" /\ collector'[c].asset = a
                /\ collector'[c].objects = collector[c].objects \ {o}
            BY <2>2, <4>1, <5>1 DEF Collection
          <5> QED BY <3>2, <4>1, <5>2 DEF Removing
        <4> QED BY <4>2, <4>3
      <3> QED BY <3>1, <3>2
    <2> QED BY <1>2, <2>2, <2>3, <2>4
  <1>11. ASSUME NEW c \in Collector, CollectionDies(c) PROVE StrayFree(a)'
    <2>1. /\ UNCHANGED <<asset, object>> /\ (excused[a] => excused'[a])
          /\ \A d \in Collector \ {c} : collector'[d] = collector[d]
      BY <1>1, <1>11 DEF CollectionDies, storeVars
    <2>2. Removing(c, a) => excused'[a]
      BY <1>1, <1>11 DEF CollectionDies, Removing
    <2> QED BY <1>2, <2>1, <2>2 DEF Removing
  <1>12. ASSUME NEW w \in Worker, Crash(w) PROVE StrayFree(a)'
    BY <1>3, <1>12 DEF Crash, storeVars
  <1>13. ASSUME NEW w \in Worker, DispatcherStep(w) PROVE StrayFree(a)'
    BY <1>4, <1>13
    DEF DispatcherStep, Select, Take, Publish, DispatchFails, RecordFailure, storeVars
  <1>14. CASE \/ \E b \in Asset : BackoffEnds(b) \/ Cancel(b)
              \/ \E w \in Worker, asg \in Queue!Assignments : Claim(w, asg)
              \/ \E w \in Worker, s \in Slot : IntervalBeat(w, s)
              \/ Reclaim \/ Tick
    BY <1>4, <1>14 DEF BackoffEnds, Cancel, Claim, IntervalBeat, Reclaim, Tick, storeVars
  <1>15. CASE UNCHANGED vars
    BY <1>4, <1>15 DEF vars
  <1> QED
    BY <1>5, <1>6, <1>7, <1>8, <1>9, <1>10, <1>11, <1>12, <1>13, <1>14, <1>15
    DEF Next, CollectorStep

-----------------------------------------------------------------------------
LEMMA InitInv == Init => PipelineInv
  <1> SUFFICES ASSUME Init PROVE PipelineInv
    OBVIOUS
  <1>1. /\ TypeInv /\ \A a \in Asset : row[a].state = "absent"
        /\ \A w \in Worker, s \in Slot : run[w][s].phase = "idle"
    BY InitTypes DEF Init, Queue!Init, Queue!AbsentRow, Queue!Idle
  <1>2. AssetsInv /\ CollectorsInv /\ DispatchInv
    BY <1>1 DEF Init, AssetsInv, AssetInv, Stored, CollectorsInv, CollectInv, Resting,
                DispatchInv, Idle
  <1>3. ExecutionsInv
    BY <1>1 DEF Init, ExecutionsInv, ExecutionInv, NoWork
  <1>4. NoStrayVariant
    BY DEF Init, NoStrayVariant
  <1> QED BY <1>1, <1>2, <1>3, <1>4 DEF PipelineInv

LEMMA StepInv == PipelineInv /\ [Next]_vars => PipelineInv'
  <1> SUFFICES ASSUME PipelineInv, [Next]_vars PROVE PipelineInv'
    OBVIOUS
  <1>1. TypeInv'
    BY TypesKept DEF PipelineInv
  <1>2. AssetsInv' /\ ExecutionsInv' /\ CollectorsInv'
    BY AssetKept, ExecutionKept, CollectKept DEF AssetsInv, ExecutionsInv, CollectorsInv
  <1>3. NoStrayVariant'
    <2>1. \A a \in Asset : StrayFree(a)'
      BY StrayKept
    <2>2. NoStrayVariant' <=> \A a \in Asset : StrayFree(a)'
      BY DEF NoStrayVariant, StrayFree, Publishing, Removing
    <2> QED BY <2>1, <2>2
  <1> QED BY <1>1, <1>2, <1>3, DispatchKept DEF PipelineInv

LEMMA PipelineInvariant == Spec => []PipelineInv
  BY InitInv, StepInv, PTL DEF Spec

(* A job never exists without its message being marked, nor a marked       *)
(* message without its job.                                                *)
THEOREM OutboxIsAtomic == Spec => []JobIffPublished
  <1>1. PipelineInv => JobIffPublished
    BY DEF PipelineInv, AssetsInv, AssetInv, JobIffPublished
  <1> QED BY <1>1, PipelineInvariant, PTL

(* Once an asset is ready, each of its variants has its row and its        *)
(* object, for every number of superseded executions and collections.      *)
THEOREM ReadyServable == Spec => []ReadyIsServable
  <1>1. PipelineInv => ReadyIsServable
    BY DEF PipelineInv, AssetsInv, AssetInv, ReadyIsServable
  <1> QED BY <1>1, PipelineInvariant, PTL

(* An object of a variant without a row is being published, being removed, *)
(* or left behind in one of the known ways.                                *)
THEOREM StraysExcused == Spec => []NoStrayVariant
  <1>1. PipelineInv => NoStrayVariant
    BY DEF PipelineInv
  <1> QED BY <1>1, PipelineInvariant, PTL
-----------------------------------------------------------------------------
(* What became of an asset whose job succeeded.  `Leads`: the execution of *)
(* the latest claim of a's job is at work on it.                           *)
Settled(a) == asset[a].state \in {"ready", "deleted"} \/ asset[a].overruled

Leads(w, s, a) ==
  /\ run[w][s].phase = "handling" /\ run[w][s].job = a
  /\ run[w][s].claim = claims[a]

OutcomeInv(a) ==
  /\ \A w \in Worker, s \in Slot :
       Leads(w, s, a) /\ work[w][s].at = "published" => Settled(a)
  /\ row[a].state = "succeeded" =>
       Settled(a) /\ \A w \in Worker, s \in Slot : ~Leads(w, s, a)

(* Where a job comes to succeed: the execution that holds its lease has    *)
(* published its asset, and ends.                                          *)
Succeeds(w, s, a) ==
  /\ Finish(w, s) /\ Queue!Holds(w, a)
  /\ run[w][s].phase = "handling" /\ run[w][s].job = a
  /\ work[w][s].at = "published" /\ run'[w][s].phase # "handling"

LEMMA SuccessStep ==
  ASSUME PipelineInv, [Next]_vars, NEW a \in Asset,
         row'[a].state = "succeeded", row[a].state # "succeeded"
  PROVE  \E w \in Worker, s \in Slot : Succeeds(w, s, a)
  <1>1. JQ!TypeInv
    BY DEF PipelineInv, TypeInv
  <1>2. ASSUME RowsKept \/ UNCHANGED row PROVE FALSE
    BY <1>2 DEF RowsKept
  <1>3. ASSUME NEW w \in Worker, Publish(w) PROVE FALSE
    <2> DEFINE b == dispatcher[w].asset
    <2>1. b \in Asset
      BY <1>3 DEF Publish, PipelineInv, TypeInv, DispatcherType
    <2>2. CASE Queue!Enqueue(b, PolicyAttempts, 0)
      <3>1. row'[b].state = "queued" /\ \A c \in Asset \ {b} : row'[c] = row[c]
        BY <1>1, <2>1, <2>2, EnqueueEffect
      <3> QED BY <3>1
    <2>3. CASE UNCHANGED row
      BY <1>2, <2>3
    <2> QED BY <1>3, <2>2, <2>3 DEF Publish, queueVars
  <1>4. ASSUME NEW w \in Worker, NEW s \in Slot, Finish(w, s)
        PROVE  Succeeds(w, s, a)
    <2> DEFINE e == run[w][s]
    <2>1. /\ run'[w][s].phase # "handling" /\ a = e.job
          /\ e.phase = "handling" /\ work[w][s].at = "published"
      BY <1>1, <1>4, CompleteEffect DEF Finish, At
    <2>2. Queue!Holds(w, e.job)
      BY <1>2, <1>4 DEF Finish, Queue!Complete, Queue!CompleteErrors
    <2> QED BY <1>4, <2>1, <2>2 DEF Succeeds
  <1>5. ASSUME NEW w \in Worker, NEW s \in Slot, HandlerStep(w, s), ~Finish(w, s)
        PROVE  FALSE
    <2>1. CASE Beat(w, s)
      BY <1>1, <1>2, <2>1, HandlerBeatEffect DEF Beat
    <2>2. CASE Missing(w, s) \/ Rejected(w, s) \/ Throws(w, s)
      BY <1>1, <1>2, <2>2, ThrowEffect DEF Missing, Rejected, Throws
    <2>3. CASE Fail(w, s)
      BY <1>1, <1>2, <2>3, FailEffect DEF Fail
    <2> QED
      BY <1>2, <1>5, <2>1, <2>2, <2>3
      DEF HandlerStep, Find, Render, Promote, Record, Reject, queueVars
  <1>6. ASSUME NEW w \in Worker, NEW s \in Slot, IntervalBeat(w, s) PROVE FALSE
    BY <1>1, <1>2, <1>6, BeatEffect DEF IntervalBeat
  <1>7. ASSUME Reclaim \/ Tick \/ \E b \in Asset : Cancel(b) PROVE FALSE
    BY <1>1, <1>2, <1>7, QuietEffect DEF Reclaim, Tick, Cancel
  <1>8. ASSUME NEW w \in Worker, NEW asg \in Queue!Assignments, Claim(w, asg) PROVE FALSE
    BY <1>1, <1>2, <1>8, ClaimEffect DEF Claim
  <1>9. ASSUME NEW w \in Worker, Crash(w) PROVE FALSE
    BY <1>2, <1>9 DEF Crash, Queue!Crash
  <1>10. ASSUME \/ \E b \in Asset : Attach(b) \/ Detach(b) \/ BackoffEnds(b)
                \/ \E w \in Worker : (\E b \in Asset : Select(w, b)) \/ Take(w)
                                     \/ DispatchFails(w) \/ RecordFailure(w)
                \/ \E c \in Collector : CollectorStep(c)
         PROVE  FALSE
    BY <1>2, <1>10 DEF Attach, Detach, BackoffEnds, Select, Take, DispatchFails, RecordFailure,
                       CollectorStep, List, Delete, Remove, CollectionDies, queueVars
  <1>11. ASSUME UNCHANGED vars PROVE FALSE
    BY <1>2, <1>11 DEF vars
  <1> QED
    BY <1>3, <1>4, <1>5, <1>6, <1>7, <1>8, <1>9, <1>10, <1>11 DEF Next, DispatcherStep

(* An execution leads because it did, or because it has just claimed.      *)
LEMMA LeadStep ==
  ASSUME PipelineInv, JQ!ClaimInv, [Next]_vars,
         NEW a \in Asset, NEW w \in Worker, NEW s \in Slot, Leads(w, s, a)'
  PROVE  \/ Leads(w, s, a) /\ (Continues(w, s) \/ Advances(w, s))
         \/ row'[a].state = "running" /\ work'[w][s].at = "none"
  <1>1. /\ JQ!TypeInv /\ DispatcherType /\ ExecutionInv(w, s) /\ Moves(w, s)
        /\ [JQ!Next]_(JQ!vars)
    BY ExecutionsMove, QueueStep DEF PipelineInv, TypeInv, ExecutionsInv
  <1>2. run'[w][s].phase = "handling" /\ run'[w][s].job = a /\ run'[w][s].claim = claims'[a]
    BY DEF Leads
  <1>3. ~Ends(w, s)
    BY <1>2 DEF Ends
  <1>4. ASSUME NEW v \in Worker, NEW asg \in JQ!Assignments, JQ!Claim(v, asg),
               run'[w][s] # run[w][s]
        PROVE  row'[a].state = "running" /\ work'[w][s].at = "none"
    <2>1. /\ run[w][s].phase = "idle" /\ run'[w][s].job = asg[s]
          /\ row'[asg[s]].state = "running"
      BY <1>1, <1>4, JQ!ClaimRuns, QueueAssumption, MediaAssumption
    <2>2. work[w][s].at = "none" /\ work'[w][s] = work[w][s]
      BY <1>1, <1>2, <1>3, <2>1
      DEF ExecutionInv, Moves, Continues, Starts, Advances, SameRun
    <2> QED BY <1>2, <2>1, <2>2
  <1>5. ASSUME NEW v \in Worker, NEW asg \in JQ!Assignments, JQ!Claim(v, asg),
               run'[w][s] = run[w][s]
        PROVE  Leads(w, s, a) /\ (Continues(w, s) \/ Advances(w, s))
    <2>1. claims[a] \in Nat /\ run[w][s].claim <= claims[a] /\ run[w][s].claim \in Nat
      BY <1>1, <1>2, <1>5 DEF JQ!ClaimInv, JQ!TypeInv, JQ!TypeOK, JQ!Execution
    <2>2. claims'[a] \in {claims[a], claims[a] + 1}
      BY <1>5 DEF JQ!Claim
    <2>3. run[w][s].claim = claims[a]
      BY <1>2, <1>5, <2>1, <2>2
    <2> QED BY <1>1, <1>2, <1>3, <1>5, <2>3 DEF Leads, Moves, Starts
  <1>6. CASE ~\E v \in Worker, asg \in JQ!Assignments : JQ!Claim(v, asg)
    <2>1. JQ!RunKept(w, s) /\ UNCHANGED claims
      BY <1>1, <1>6, JQ!RunEffects, QueueAssumption, MediaAssumption
    <2>2. /\ run[w][s].phase # "idle" /\ run'[w][s].job = run[w][s].job
          /\ run'[w][s].claim = run[w][s].claim
      BY <1>2, <2>1 DEF JQ!RunKept
    <2>3. Continues(w, s) \/ Advances(w, s)
      BY <1>1, <1>3, <2>2 DEF Moves, Starts
    <2>4. run[w][s].phase = "handling"
      BY <1>2, <2>3 DEF Continues, Advances, SameRun
    <2> QED BY <1>2, <2>1, <2>2, <2>3, <2>4 DEF Leads
  <1> QED BY <1>4, <1>5, <1>6

(* Only the leading execution can fail what was settled.                   *)
LEMMA SettledKept ==
  ASSUME PipelineInv, [Next]_vars, NEW a \in Asset, Settled(a),
         ~\E w \in Worker, s \in Slot : Reject(w, s) /\ Leads(w, s, a)
  PROVE  Settled(a)'
  <1>1. /\ asset \in [Asset -> AssetRow] /\ asset[a] \in AssetRow
    BY DEF PipelineInv, TypeInv, StoreType
  <1>2. ASSUME UNCHANGED asset PROVE Settled(a)'
    BY <1>2 DEF Settled
  <1>3. ASSUME NEW b \in Asset, Attach(b) PROVE Settled(a)'
    <2>1. PICK p \in BOOLEAN :
            asset' = [asset EXCEPT ![b] = [asset[b] EXCEPT !.state = "pending", !.sound = p]]
      BY <1>3 DEF Attach
    <2>2. asset'[a].overruled = asset[a].overruled
          /\ (asset[a].state \in {"ready", "deleted"} => asset'[a].state = asset[a].state)
      <3>1. asset[b].state = "absent"
        BY <1>3 DEF Attach
      <3>2. CASE a = b
        BY <1>1, <2>1, <3>1, <3>2 DEF AssetRow
      <3>3. CASE a # b
        BY <1>1, <2>1, <3>3
      <3> QED BY <3>2, <3>3
    <2> QED BY <2>2 DEF Settled
  <1>4. ASSUME NEW b \in Asset, Detach(b) PROVE Settled(a)'
    <2>1. asset'[a].state = asset[a].state /\ asset'[a].overruled = asset[a].overruled
      BY <1>1, <1>4 DEF Detach, AssetRow
    <2> QED BY <2>1 DEF Settled
  <1>5. ASSUME NEW w \in Worker, NEW s \in Slot, Record(w, s) PROVE Settled(a)'
    <2>1. asset'[a] = asset[a] \/ asset'[a].state = "ready"
      BY <1>1, <1>5 DEF Record, AssetRow
    <2> QED BY <2>1 DEF Settled
  <1>6. ASSUME NEW w \in Worker, NEW s \in Slot, Reject(w, s) PROVE Settled(a)'
    <2> DEFINE b == run[w][s].job
               p == run[w][s].claim # claims[b]
    <2>1. CASE a = b
      <3>1. p
        BY <1>6, <2>1 DEF Reject, Leads, At
      <3>2. asset'[a] = asset[a] \/ asset'[a].overruled
        BY <1>1, <1>6, <2>1, <3>1 DEF Reject, AssetRow
      <3> QED BY <3>2 DEF Settled
    <2>2. CASE a # b
      <3>1. asset'[a] = asset[a]
        BY <1>1, <1>6, <2>2 DEF Reject
      <3> QED BY <3>1 DEF Settled
    <2> QED BY <2>1, <2>2
  <1>7. ASSUME NEW c \in Collector, Delete(c) PROVE Settled(a)'
    <2> DEFINE b == collector[c].asset
               r == [asset[b] EXCEPT !.state = "deleted", !.variants = FALSE]
    <2>1. UNCHANGED asset \/ asset' = [asset EXCEPT ![b] = r]
      BY <1>7 DEF Delete
    <2>2. asset'[a] = asset[a] \/ asset'[a].state = "deleted"
      BY <1>1, <2>1 DEF AssetRow
    <2> QED BY <2>2 DEF Settled
  <1>8. ASSUME NEW w \in Worker, NEW s \in Slot, HandlerStep(w, s) PROVE Settled(a)'
    BY <1>2, <1>5, <1>6, <1>8
    DEF HandlerStep, Find, Missing, Render, Beat, Promote, Rejected, Throws, Finish, Fail
  <1>9. ASSUME NEW w \in Worker, DispatcherStep(w) PROVE Settled(a)'
    BY <1>2, <1>9 DEF DispatcherStep, Select, Take, Publish, DispatchFails, RecordFailure
  <1>10. ASSUME NEW c \in Collector, CollectorStep(c) PROVE Settled(a)'
    BY <1>2, <1>7, <1>10 DEF CollectorStep, List, Remove, CollectionDies
  <1>11. CASE \/ \E b \in Asset : BackoffEnds(b) \/ Cancel(b)
              \/ \E w \in Worker, asg \in Queue!Assignments : Claim(w, asg)
              \/ \E w \in Worker, s \in Slot : IntervalBeat(w, s)
              \/ \E w \in Worker : Crash(w)
              \/ Reclaim \/ Tick
    BY <1>2, <1>11 DEF BackoffEnds, Cancel, Claim, IntervalBeat, Crash, Reclaim, Tick
  <1>12. CASE UNCHANGED vars
    BY <1>2, <1>12 DEF vars
  <1> QED BY <1>3, <1>4, <1>8, <1>9, <1>10, <1>11, <1>12 DEF Next

LEMMA OutcomeKept ==
  ASSUME PipelineInv, JQ!ClaimInv, JQ!BeatsOnlyLatestClaim, [Next]_vars,
         NEW a \in Asset, OutcomeInv(a)
  PROVE  OutcomeInv(a)'
  <1>1. ASSUME NEW w \in Worker, NEW s \in Slot, NEW v \in Worker, NEW u \in Slot,
               Leads(w, s, a), Leads(v, u, a)
        PROVE  w = v /\ s = u
    BY <1>1 DEF Leads, JQ!ClaimInv
  <1>2. ASSUME NEW w \in Worker, NEW s \in Slot, Reject(w, s), Leads(w, s, a)
        PROVE  OutcomeInv(a)'
    <2>1. UNCHANGED <<row, run, claims>> /\ work' = [work EXCEPT ![w][s] = [at |-> "rejected", left |-> {}]]
      BY <1>2 DEF Reject, Goto, queueVars
    <2>2. work'[w][s].at = "rejected"
      BY <2>1 DEF PipelineInv, TypeInv, StoreType
    <2>3. row[a].state # "succeeded"
      BY <1>2 DEF OutcomeInv
    <2>4. ASSUME NEW v \in Worker, NEW u \in Slot, Leads(v, u, a)'
          PROVE  work'[v][u].at = "rejected"
      <3>1. Leads(v, u, a)
        BY <2>1, <2>4 DEF Leads
      <3> QED BY <1>1, <1>2, <2>2, <3>1
    <2> QED BY <2>1, <2>3, <2>4 DEF OutcomeInv
  <1>3. CASE ~\E w \in Worker, s \in Slot : Reject(w, s) /\ Leads(w, s, a)
    <2>1. Settled(a) => Settled(a)'
      BY <1>3, SettledKept
    <2>2. ASSUME NEW w \in Worker, NEW s \in Slot, Leads(w, s, a)', work'[w][s].at = "published"
          PROVE  Settled(a)'
      <3>1. Leads(w, s, a) /\ (Continues(w, s) \/ Advances(w, s))
        BY <2>2, LeadStep
      <3>2. CASE Continues(w, s)
        BY <2>1, <2>2, <3>1, <3>2 DEF Continues, OutcomeInv
      <3>3. CASE Advances(w, s)
        <4>1. run[w][s].job = a
          BY <3>1 DEF Leads
        <4>2. work[w][s].at # "promote"
          <5>1. SUFFICES ASSUME work[w][s].at = "promote" PROVE FALSE
            OBVIOUS
          <5>2. PICK v \in work[w][s].left :
                  work'[w][s] = [at |-> IF work[w][s].left = {v} THEN "publish" ELSE "promote",
                                 left |-> work[w][s].left \ {v}]
            BY <3>3, <5>1 DEF Advances
          <5>3. work'[w][s].at \in {"publish", "promote"}
            BY <5>2
          <5> QED BY <2>2, <5>3
        <4>3. asset'[a].state = "ready"
          BY <2>2, <3>3, <4>1, <4>2 DEF Advances
        <4> QED BY <4>3 DEF Settled
      <3> QED BY <3>1, <3>2, <3>3
    <2>3. ASSUME row'[a].state = "succeeded", row[a].state = "succeeded"
          PROVE  Settled(a)' /\ \A w \in Worker, s \in Slot : ~Leads(w, s, a)'
      <3>1. Settled(a)' /\ \A w \in Worker, s \in Slot : ~Leads(w, s, a)
        BY <2>1, <2>3 DEF OutcomeInv
      <3> QED BY <2>3, <3>1, LeadStep
    <2>4. ASSUME row'[a].state = "succeeded", row[a].state # "succeeded"
          PROVE  Settled(a)' /\ \A w \in Worker, s \in Slot : ~Leads(w, s, a)'
      <3>1. PICK w \in Worker, s \in Slot : Succeeds(w, s, a)
        BY <2>4, SuccessStep
      <3>2. Leads(w, s, a)
        BY <3>1 DEF Succeeds, Leads, JQ!BeatsOnlyLatestClaim, Queue!Holds, JQ!Holds
      <3>3. Settled(a)
        BY <3>1, <3>2 DEF Succeeds, OutcomeInv
      <3>4. ASSUME NEW v \in Worker, NEW u \in Slot, Leads(v, u, a)' PROVE FALSE
        <4>1. Leads(v, u, a)
          BY <2>4, <3>4, LeadStep
        <4>2. v = w /\ u = s
          BY <1>1, <3>2, <4>1
        <4> QED BY <3>1, <3>4, <4>2 DEF Succeeds, Leads
      <3> QED BY <2>1, <3>3, <3>4
    <2> QED BY <2>2, <2>3, <2>4 DEF OutcomeInv
  <1> QED BY <1>2, <1>3

(* With the one slot every shipped policy declares, a job that succeeded   *)
(* has published its asset, or an execution it had been taken from failed  *)
(* the asset afterwards; and an image nobody can decode is never           *)
(* published.                                                              *)
THEOREM OutcomesTrue ==
  ASSUME JQ!OneSlot
  PROVE  Spec => []OutcomeIsTrue
  <1> USE QueueAssumption, MediaAssumption
  <1> DEFINE Outcomes == \A a \in Asset : OutcomeInv(a)
  <1>1. JQ!Spec => []JQ!ClaimInv
    BY JQ!ClaimInvariant
  <1>2. JQ!Spec => []JQ!BeatsOnlyLatestClaim
    BY JQ!LeaseSafety
  <1>3. Init => Outcomes
    <2> SUFFICES ASSUME Init, NEW a \in Asset PROVE OutcomeInv(a)
      OBVIOUS
    <2>1. row[a].state = "absent"
      BY DEF Init, Queue!Init, Queue!AbsentRow
    <2>2. \A w \in Worker, s \in Slot : run[w][s].phase = "idle"
      BY DEF Init, Queue!Init, Queue!Idle
    <2> QED BY <2>1, <2>2 DEF OutcomeInv, Leads
  <1>4. PipelineInv /\ JQ!ClaimInv /\ JQ!BeatsOnlyLatestClaim /\ Outcomes /\ [Next]_vars
          => Outcomes'
    BY OutcomeKept
  <1>5. PipelineInv /\ Outcomes => OutcomeIsTrue
    BY DEF PipelineInv, AssetsInv, AssetInv, OutcomeInv, Settled, OutcomeIsTrue
  <1> HIDE DEF Outcomes
  <1> QED BY <1>1, <1>2, <1>3, <1>4, <1>5, QueueImplemented, PipelineInvariant, PTL DEF Spec

-----------------------------------------------------------------------------
(* A published message stays published and undelayed.                      *)
LEMMA MessageSettled ==
  ASSUME PipelineInv, [Next]_vars, NEW a \in Asset, message[a].state = "published"
  PROVE  message'[a].state = "published" /\ (message'[a].backoff => message[a].backoff)
  <1> USE DEF outboxVars
  <1>1. /\ message \in [Asset -> Message] /\ message[a] \in Message /\ AssetInv(a)
        /\ \A w \in Worker : dispatcher[w].phase # "idle" => dispatcher[w].asset \in Asset
    BY DEF PipelineInv, TypeInv, StoreType, DispatcherType, AssetsInv
  <1>2. ASSUME NEW b \in Asset, Attach(b) PROVE message'[a] = message[a]
    <2>1. asset[b].state = "absent" /\ message' = [message EXCEPT ![b].state = "pending"]
      BY <1>2 DEF Attach
    <2>2. a # b
      BY <1>1, <2>1 DEF AssetInv
    <2> QED BY <1>1, <2>1, <2>2
  <1>3. ASSUME NEW w \in Worker, Publish(w) PROVE message'[a] = message[a]
    <2> DEFINE b == dispatcher[w].asset
    <2>1. message[b].state = "pending" /\ message' = [message EXCEPT ![b].state = "published"]
      BY <1>3 DEF Publish, PipelineInv, DispatchInv
    <2> QED BY <1>1, <2>1
  <1>4. ASSUME NEW w \in Worker, DispatchFails(w) \/ RecordFailure(w)
        PROVE  message'[a].state = message[a].state /\ message'[a].backoff = message[a].backoff
    <2>1. CASE DispatchFails(w)
      BY <1>1, <2>1 DEF DispatchFails, Message
    <2>2. CASE RecordFailure(w)
      <3> DEFINE b == dispatcher[w].asset
      <3>1. message' = [message EXCEPT ![b] = [message[b] EXCEPT !.backoff =
                          message[b].backoff \/ message[b].state = "pending"]]
        BY <2>2 DEF RecordFailure
      <3>2. CASE a = b
        <4>1. message'[a] = [message[a] EXCEPT !.backoff =
                               message[a].backoff \/ message[a].state = "pending"]
          BY <1>1, <3>1, <3>2
        <4>2. (message[a].backoff \/ message[a].state = "pending") = message[a].backoff
          BY <1>1 DEF Message
        <4> QED BY <1>1, <4>1, <4>2 DEF Message
      <3>3. CASE a # b
        BY <1>1, <3>1, <3>3
      <3> QED BY <3>2, <3>3
    <2> QED BY <1>4, <2>1, <2>2
  <1>5. ASSUME NEW b \in Asset, BackoffEnds(b)
        PROVE  message'[a].state = "published" /\ (message'[a].backoff => message[a].backoff)
    BY <1>1, <1>5 DEF BackoffEnds, Message
  <1>6. CASE \/ \E b \in Asset : Detach(b) \/ Cancel(b)
             \/ \E w \in Worker : (\E b \in Asset : Select(w, b)) \/ Take(w) \/ Crash(w)
             \/ \E w \in Worker, asg \in Queue!Assignments : Claim(w, asg)
             \/ \E w \in Worker, s \in Slot : IntervalBeat(w, s)
             \/ Reclaim \/ Tick
    BY <1>6 DEF Detach, Cancel, Select, Take, Crash, Claim, IntervalBeat, Reclaim, Tick
  <1>7. ASSUME NEW w \in Worker, NEW s \in Slot, HandlerStep(w, s) PROVE UNCHANGED message
    BY <1>7 DEF HandlerStep, Find, Missing, Render, Beat, Promote, Record, Reject, Rejected,
                Throws, Finish, Fail
  <1>8. ASSUME NEW c \in Collector, CollectorStep(c) PROVE UNCHANGED message
    BY <1>8 DEF CollectorStep, List, Delete, Remove, CollectionDies
  <1>9. CASE UNCHANGED vars
    BY <1>9 DEF vars
  <1> QED BY <1>2, <1>3, <1>4, <1>5, <1>6, <1>7, <1>8, <1>9 DEF Next, DispatcherStep

(* Whatever two dispatchers have selected and whichever replies they lost, *)
(* a message is published once, and no dispatcher touches a job that is    *)
(* already there.                                                          *)
THEOREM PublishedOnce == Spec => DispatchedOnce
  <1> DEFINE Once(a) ==
        /\ message[a].state = "published" =>
             /\ message'[a].state = "published"
             /\ message'[a].backoff => message[a].backoff
        /\ (\E w \in Worker : dispatcher[w].phase = "locked" /\ dispatcher[w].asset = a
                              /\ dispatcher'[w].phase # "locked" /\ row'[a] # row[a])
             => row[a].state = "absent"
  <1>1. PipelineInv /\ [Next]_vars => [\A a \in Asset : Once(a)]_vars
    <2> SUFFICES ASSUME PipelineInv, [Next]_vars, NEW a \in Asset PROVE Once(a)
      OBVIOUS
    <2>1. message[a].state = "published" =>
            message'[a].state = "published" /\ (message'[a].backoff => message[a].backoff)
      BY MessageSettled
    <2>2. ASSUME NEW w \in Worker, dispatcher[w].phase = "locked", dispatcher[w].asset = a
          PROVE  row[a].state = "absent"
      <3>1. message[a].state = "pending"
        BY <2>2 DEF PipelineInv, DispatchInv
      <3> QED BY <3>1 DEF PipelineInv, AssetsInv, AssetInv
    <2> QED BY <2>1, <2>2
  <1> QED BY <1>1, PipelineInvariant, PTL DEF Spec, DispatchedOnce
=============================================================================
