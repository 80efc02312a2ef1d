--------------------------- MODULE MediaPipeline ---------------------------
(***************************************************************************)
(* From the upload that commits an asset and its outbox message to the     *)
(* variants it is served with, and to its removal: jobs/outbox-dispatcher  *)
(* and the media.process-v1 handler of media/media-processing-service,     *)
(* on top of the job queue (module JobQueue), beside the orphan collection *)
(* of media/media-service.                                                 *)
(*                                                                         *)
(* An asset, its one message (deduplication key media-process:<asset>) and *)
(* its one job (key media.process-v1:<asset>) share an id.  A database     *)
(* transaction is one action, since nobody reads what is not committed;    *)
(* the row lock a dispatcher holds meanwhile is the phase "locked".        *)
(***************************************************************************)
EXTENDS Naturals

CONSTANTS
  Asset,          \* ids of source assets
  Variant,        \* planned variants of an image
  Worker, Slot, PolicyAttempts, LeaseTicks, MaxDelay,  \* as in JobQueue
  Collector,      \* passes of media.cleanup-v1 that may overlap
  MaxFailures,    \* bound: failures of the dispatch of one message
  Original,       \* the uploaded object of an asset, beside its variants
  NoAsset, NoWorker

ASSUME MediaAssumption ==
  /\ NoAsset \notin Asset
  /\ Original \notin Variant
  /\ MaxFailures \in Nat

(* What JobQueue assumes of the constants it is given.                     *)
ASSUME QueueAssumption ==
  /\ PolicyAttempts \in Nat \ {0}
  /\ LeaseTicks \in Nat \ {0}
  /\ MaxDelay \in Nat \ {0}
  /\ NoWorker \notin Worker

VARIABLES
  row, run, claims, requeues,  \* the queue: see JobQueue
  asset,       \* asset[a]: the source row of a and the rows of its variants
  message,     \* message[a]: the outbox row for a
  dispatcher,  \* dispatcher[w]: what the dispatch of runner w is at
  work,        \* work[w][s]: how far the handler in slot s of w has got
  temp,        \* temp[a]: variants with an object under their temporary key
  object,      \* object[a]: objects under the permanent keys of a
  collector,   \* collector[c]: what collection pass c is at
  excused      \* history: a known way to leave objects behind happened to a

queueVars == <<row, run, claims, requeues>>
outboxVars == <<message, dispatcher>>
storeVars == <<temp, object>>
vars == <<row, run, claims, requeues, asset, message, dispatcher, work, temp, object,
          collector, excused>>

(* Admin recovery, which starts a dead job over, is left to JobQueue.      *)
Queue == INSTANCE JobQueue WITH Job <- Asset, Budgets <- {PolicyAttempts}, MaxRequeues <- 0,
                                NoJob <- NoAsset

(* `sound`: the bytes can be decoded at all.  `due`: the relation was      *)
(* archived and the grace period is over.  `overruled` (history): it was   *)
(* declared failed last, by an execution whose job had been claimed again. *)
AssetRow == [state : {"absent", "pending", "ready", "failed", "deleted"},
             sound : BOOLEAN, variants : BOOLEAN, due : BOOLEAN, overruled : BOOLEAN]

Message == [state : {"absent", "pending", "published"}, backoff : BOOLEAN, failures : Nat]

Dispatch == [phase : {"idle", "selected", "locked", "failing"}, asset : Asset \cup {NoAsset}]

(* `left` are the variants the current loop still has to handle.           *)
Work == [at : {"none", "found", "beat", "promote", "publish", "published", "rejected"},
         left : SUBSET Variant]

Collection == [phase : {"idle", "listed", "removing"}, asset : Asset \cup {NoAsset},
               objects : SUBSET (Variant \cup {Original})]

NoWork == [at |-> "none", left |-> {}]
Idle   == [phase |-> "idle", asset |-> NoAsset]
Resting == [phase |-> "idle", asset |-> NoAsset, objects |-> {}]

TypeOK ==
  /\ Queue!TypeOK
  /\ asset \in [Asset -> AssetRow]
  /\ message \in [Asset -> Message]
  /\ dispatcher \in [Worker -> Dispatch]
  /\ work \in [Worker -> [Slot -> Work]]
  /\ temp \in [Asset -> SUBSET Variant]
  /\ object \in [Asset -> SUBSET (Variant \cup {Original})]
  /\ collector \in [Collector -> Collection]
  /\ excused \in [Asset -> BOOLEAN]

Init ==
  /\ Queue!Init
  /\ asset = [a \in Asset |-> [state |-> "absent", sound |-> FALSE,
                            variants |-> FALSE, due |-> FALSE, overruled |-> FALSE]]
  /\ message = [a \in Asset |-> [state |-> "absent", backoff |-> FALSE, failures |-> 0]]
  /\ dispatcher = [w \in Worker |-> Idle]
  /\ work = [w \in Worker |-> [s \in Slot |-> NoWork]]
  /\ temp = [a \in Asset |-> {}]
  /\ object = [a \in Asset |-> {}]
  /\ collector = [c \in Collector |-> Resting]
  /\ excused = [a \in Asset |-> FALSE]

Stored(a) == asset[a].state \in {"pending", "ready", "failed"}

-----------------------------------------------------------------------------
(* finalizeUpload's transaction, with the object it has promoted before.   *)
Attach(a) ==
  /\ asset[a].state = "absent"
  /\ \E sound \in BOOLEAN :
       asset' = [asset EXCEPT ![a].state = "pending", ![a].sound = sound]
  /\ message' = [message EXCEPT ![a].state = "pending"]
  /\ object' = [object EXCEPT ![a] = {Original}]
  /\ UNCHANGED <<queueVars, dispatcher, work, temp, collector, excused>>

(* detachRelation, and the grace period: an asset has one relation.        *)
Detach(a) ==
  /\ Stored(a) /\ ~asset[a].due
  /\ asset' = [asset EXCEPT ![a].due = TRUE]
  /\ UNCHANGED <<queueVars, outboxVars, work, storeVars, collector, excused>>

-----------------------------------------------------------------------------
(* OutboxDispatcher.  dispatchDue selects due messages in one statement and *)
(* handles them one by one, so what it selected may be stale by then.      *)
Select(w, a) ==
  /\ dispatcher[w].phase = "idle"
  /\ message[a].state = "pending" /\ ~message[a].backoff
  /\ dispatcher' = [dispatcher EXCEPT ![w] = [phase |-> "selected", asset |-> a]]
  /\ UNCHANGED <<queueVars, asset, message, work, storeVars, collector, excused>>

LockedByOther(w, a) ==
  \E v \in Worker \ {w} : dispatcher[v].phase = "locked" /\ dispatcher[v].asset = a

(* Seeded fault: the row is locked whatever has become of it.              *)
TakeUnchecked(w) ==
  LET a == dispatcher[w].asset IN
  /\ dispatcher[w].phase = "selected"
  /\ dispatcher' = [dispatcher EXCEPT ![w] =
       IF ~LockedByOther(w, a) THEN [phase |-> "locked", asset |-> a] ELSE Idle]
  /\ UNCHANGED <<queueVars, asset, message, work, storeVars, collector, excused>>

(* dispatchOne reads the row `for update skip locked`.                     *)
Take(w) ==
  LET a == dispatcher[w].asset IN
  /\ dispatcher[w].phase = "selected"
  /\ dispatcher' = [dispatcher EXCEPT ![w] =
       IF message[a].state = "pending" /\ ~LockedByOther(w, a)
       THEN [phase |-> "locked", asset |-> a] ELSE Idle]
  /\ UNCHANGED <<queueVars, asset, message, work, storeVars, collector, excused>>

(* Seeded fault: enqueue does not get the transaction, so it commits by    *)
(* itself and the update of the message may still fail.                    *)
PublishOutside(w) ==
  LET a == dispatcher[w].asset IN
  /\ dispatcher[w].phase = "locked"
  /\ Queue!Enqueue(a, PolicyAttempts, 0)
  /\ \/ message' = [message EXCEPT ![a].state = "published"]
     \/ UNCHANGED message
  /\ dispatcher' = [dispatcher EXCEPT ![w] = Idle]
  /\ UNCHANGED <<asset, work, storeVars, collector, excused>>

(* ... creates or wakes the job and marks the message, in one transaction; *)
(* when its reply is lost, the dispatcher takes it for a failure.          *)
Publish(w) ==
  LET a == dispatcher[w].asset IN
  /\ dispatcher[w].phase = "locked"
  /\ IF row[a].state \in {"absent"} \cup Queue!Waiting
     THEN Queue!Enqueue(a, PolicyAttempts, 0)
     ELSE UNCHANGED queueVars
  /\ message' = [message EXCEPT ![a].state = "published"]
  /\ \E phase \in {"idle", "failing"} :
       dispatcher' = [dispatcher EXCEPT ![w] =
         IF phase = "idle" THEN Idle ELSE [@ EXCEPT !.phase = phase]]
  /\ UNCHANGED <<asset, work, storeVars, collector, excused>>

(* ... or rolls back, on an error or because the process dies.             *)
DispatchFails(w) ==
  LET a == dispatcher[w].asset IN
  /\ dispatcher[w].phase = "locked"
  /\ message[a].failures < MaxFailures
  /\ message' = [message EXCEPT ![a].failures = @ + 1]
  /\ \E phase \in {"idle", "failing"} :
       dispatcher' = [dispatcher EXCEPT ![w] =
         IF phase = "idle" THEN Idle ELSE [@ EXCEPT !.phase = phase]]
  /\ UNCHANGED <<queueVars, asset, work, storeVars, collector, excused>>

(* recordFailure delays a message that is still unpublished.  The attempt  *)
(* count it keeps only sets how long.                                      *)
RecordFailure(w) ==
  LET a == dispatcher[w].asset IN
  /\ dispatcher[w].phase = "failing"
  /\ message' = [message EXCEPT ![a].backoff = @ \/ message[a].state = "pending"]
  /\ dispatcher' = [dispatcher EXCEPT ![w] = Idle]
  /\ UNCHANGED <<queueVars, asset, work, storeVars, collector, excused>>

BackoffEnds(a) ==
  /\ message[a].backoff
  /\ message' = [message EXCEPT ![a].backoff = FALSE]
  /\ UNCHANGED <<queueVars, asset, dispatcher, work, storeVars, collector, excused>>

-----------------------------------------------------------------------------
(* One pass of JobRunner.runOnce: the reclaim, and the claim after the     *)
(* dispatch of the same pass; the handler starts with findAsset.           *)
Between(w) == dispatcher[w].phase = "idle"

Reclaim ==
  /\ \E w \in Worker : Between(w)
  /\ Queue!Reclaim
  /\ UNCHANGED <<asset, outboxVars, work, storeVars, collector, excused>>

Claim(w, asg) ==
  /\ Between(w)
  /\ Queue!Claim(w, asg)
  /\ UNCHANGED <<asset, outboxVars, work, storeVars, collector, excused>>

At(w, s, at) == run[w][s].phase = "handling" /\ work[w][s].at = at

Goto(w, s, at, left) == work' = [work EXCEPT ![w][s] = [at |-> at, left |-> left]]

(* findAsset; an asset that is gone is a permanent failure (Missing).      *)
Find(w, s) ==
  /\ At(w, s, "none")
  /\ Stored(run[w][s].job)
  /\ Goto(w, s, "found", Variant)
  /\ UNCHANGED <<queueVars, asset, outboxVars, storeVars, collector, excused>>

Missing(w, s) ==
  /\ At(w, s, "none")
  /\ ~Stored(run[w][s].job)
  /\ Queue!HandlerThrows(w, s, TRUE)
  /\ UNCHANGED <<asset, outboxVars, work, storeVars, collector, excused>>

(* render and writeTemp of the next variant: the temporary key names the   *)
(* asset and the variant, not the execution.                               *)
Render(w, s) ==
  LET a == run[w][s].job IN
  /\ At(w, s, "found")
  /\ asset[a].sound /\ Original \in object[a]
  /\ \E v \in work[w][s].left :
       /\ temp' = [temp EXCEPT ![a] = @ \cup {v}]
       /\ Goto(w, s, "beat", work[w][s].left \ {v})
  /\ UNCHANGED <<queueVars, asset, outboxVars, object, collector, excused>>

(* keepLease: a heartbeat that is answered false ends the execution.       *)
Beat(w, s) ==
  /\ At(w, s, "beat")
  /\ Queue!HandlerBeat(w, s)
  /\ IF run'[w][s].phase = "failing" THEN Goto(w, s, "none", {})
     ELSE IF work[w][s].left = {} THEN Goto(w, s, "promote", Variant)
     ELSE Goto(w, s, "found", work[w][s].left)
  /\ UNCHANGED <<asset, outboxVars, storeVars, collector, excused>>

(* Seeded fault: a temporary object that is missing is passed over.        *)
PromoteLeniently(w, s) ==
  LET a == run[w][s].job IN
  /\ At(w, s, "promote")
  /\ \E v \in work[w][s].left :
       /\ temp' = [temp EXCEPT ![a] = @ \ {v}]
       /\ object' = [object EXCEPT ![a] = IF v \in temp[a] THEN @ \cup {v} ELSE @]
       /\ Goto(w, s, IF work[w][s].left = {v} THEN "publish" ELSE "promote",
               work[w][s].left \ {v})
  /\ UNCHANGED <<queueVars, asset, outboxVars, collector, excused>>

(* promote renames; where there is nothing to rename it throws (Throws).   *)
Promote(w, s) ==
  LET a == run[w][s].job IN
  /\ At(w, s, "promote")
  /\ \E v \in work[w][s].left \cap temp[a] :
       /\ temp' = [temp EXCEPT ![a] = @ \ {v}]
       /\ object' = [object EXCEPT ![a] = @ \cup {v}]
       /\ Goto(w, s, IF work[w][s].left = {v} THEN "publish" ELSE "promote",
               work[w][s].left \ {v})
  /\ UNCHANGED <<queueVars, asset, outboxVars, collector, excused>>

CollectedNow(a) == \E c \in Collector : collector[c].phase = "listed" /\ collector[c].asset = a

(* replaceVariants and markAssetProcessed; without the source row the      *)
(* foreign key fails (Throws).  Nothing asks whether the lease still holds. *)
Record(w, s) ==
  LET a == run[w][s].job IN
  /\ At(w, s, "publish")
  /\ Stored(a)
  /\ asset' = [asset EXCEPT ![a] = [@ EXCEPT !.state = "ready", !.variants = TRUE,
                                              !.overruled = FALSE]]
  /\ excused' = [excused EXCEPT ![a] = @ \/ CollectedNow(a)]
  /\ Goto(w, s, "published", {})
  /\ UNCHANGED <<queueVars, outboxVars, storeVars, collector>>

(* probe or render fails for good: classifyChildFailure takes every exit   *)
(* of the child it does not recognise for permanent, a full disk or a file *)
(* that is gone as well as bytes that do not decode.  recordFailure marks  *)
(* the row whatever its state and whoever holds the lease, or fails ...    *)
Reject(w, s) ==
  LET a == run[w][s].job IN
  /\ At(w, s, "found")
  /\ \/ /\ Stored(a)
        /\ asset' = [asset EXCEPT ![a] = [@ EXCEPT !.state = "failed",
                        !.overruled = run[w][s].claim # claims[a]]]
     \/ UNCHANGED asset
  /\ Goto(w, s, "rejected", {})
  /\ UNCHANGED <<queueVars, outboxVars, storeVars, collector, excused>>

(* ... and the JobPermanentError it is translated to.                      *)
Rejected(w, s) ==
  /\ At(w, s, "rejected")
  /\ Queue!HandlerThrows(w, s, TRUE)
  /\ Goto(w, s, "none", {})
  /\ UNCHANGED <<asset, outboxVars, storeVars, collector, excused>>

(* An execution that ends here leaves objects no row names, unless a later *)
(* attempt makes them its own.                                             *)
Abandons(w, s) == excused' = [excused EXCEPT ![run[w][s].job] =
  @ \/ work[w][s].at \in {"promote", "publish"}]

(* Any other error, at any await: the job is retried.  A writeTemp that    *)
(* fails removes the object under its key, whoever wrote it.               *)
Throws(w, s) ==
  LET a == run[w][s].job IN
  /\ \E at \in {"none", "found", "promote", "publish"} : At(w, s, at)
  /\ Queue!HandlerThrows(w, s, FALSE)
  /\ \/ UNCHANGED temp
     \/ /\ work[w][s].at = "found"
        /\ \E v \in work[w][s].left : temp' = [temp EXCEPT ![a] = @ \ {v}]
  /\ Abandons(w, s)
  /\ Goto(w, s, "none", {})
  /\ UNCHANGED <<asset, outboxVars, object, collector>>

(* Seeded fault: the job completes when its variants are staged.           *)
FinishEarly(w, s) ==
  /\ At(w, s, "publish")
  /\ Queue!Complete(w, s) \/ Queue!CompleteErrors(w, s)
  /\ Goto(w, s, "none", {})
  /\ UNCHANGED <<asset, outboxVars, storeVars, collector, excused>>

(* The handler returns, and the runner stores the outcome.                 *)
Finish(w, s) ==
  /\ At(w, s, "published")
  /\ Queue!Complete(w, s) \/ Queue!CompleteErrors(w, s)
  /\ Goto(w, s, "none", {})
  /\ UNCHANGED <<asset, outboxVars, storeVars, collector, excused>>

(* The interval heartbeat, and the runner's record of a failure.           *)
IntervalBeat(w, s) ==
  /\ Queue!IntervalBeat(w, s)
  /\ UNCHANGED <<asset, outboxVars, work, storeVars, collector, excused>>

Fail(w, s) ==
  /\ (\E backoff \in 0..MaxDelay : Queue!Fail(w, s, backoff)) \/ Queue!FailErrors(w, s)
  /\ UNCHANGED <<asset, outboxVars, work, storeVars, collector, excused>>

(* The process of runner w dies with its executions and its dispatch.      *)
Crash(w) ==
  /\ Queue!Crash(w)
  /\ dispatcher' = [dispatcher EXCEPT ![w] = Idle]
  /\ work' = [work EXCEPT ![w] = [s \in Slot |-> NoWork]]
  /\ excused' = [a \in Asset |-> excused[a] \/ \E s \in Slot :
       /\ run[w][s].phase = "handling" /\ run[w][s].job = a
       /\ work[w][s].at \in {"promote", "publish"}]
  /\ UNCHANGED <<asset, message, storeVars, collector>>

(* Administration of the job, and the clock.                               *)
Cancel(a) ==
  /\ Queue!Cancel(a)
  /\ UNCHANGED <<asset, outboxVars, work, storeVars, collector, excused>>

Tick ==
  /\ Queue!Tick
  /\ UNCHANGED <<asset, outboxVars, work, storeVars, collector, excused>>

-----------------------------------------------------------------------------
VariantRows(a) == IF asset[a].variants THEN Variant ELSE {}

(* Seeded fault: the pass forgets the keys of the variants.                *)
ListOriginalOnly(c, a) ==
  /\ collector[c].phase = "idle"
  /\ Stored(a) /\ asset[a].due
  /\ collector' = [collector EXCEPT ![c] =
       [phase |-> "listed", asset |-> a, objects |-> {Original}]]
  /\ UNCHANGED <<queueVars, asset, outboxVars, work, storeVars, excused>>

(* collectOrphans: a due asset and the keys of its variants ...            *)
List(c, a) ==
  /\ collector[c].phase = "idle"
  /\ Stored(a) /\ asset[a].due
  /\ collector' = [collector EXCEPT ![c] =
       [phase |-> "listed", asset |-> a, objects |-> {Original} \cup VariantRows(a)]]
  /\ UNCHANGED <<queueVars, asset, outboxVars, work, storeVars, excused>>

(* ... deleteAssetIfUnreferenced, whose variants cascade; a pass that finds *)
(* the row gone counts it as retained ...                                  *)
Delete(c) ==
  LET a == collector[c].asset IN
  /\ collector[c].phase = "listed"
  /\ IF Stored(a)
     THEN /\ asset' = [asset EXCEPT ![a] = [@ EXCEPT !.state = "deleted", !.variants = FALSE]]
          /\ collector' = [collector EXCEPT ![c].phase = "removing"]
     ELSE /\ collector' = [collector EXCEPT ![c] = Resting]
          /\ UNCHANGED asset
  /\ UNCHANGED <<queueVars, outboxVars, work, storeVars, excused>>

(* ... and the objects, one by one.                                        *)
Remove(c) ==
  LET a == collector[c].asset IN
  /\ collector[c].phase = "removing"
  /\ \E o \in collector[c].objects :
       /\ object' = [object EXCEPT ![a] = @ \ {o}]
       /\ collector' = [collector EXCEPT ![c] =
            IF collector[c].objects = {o} THEN Resting
            ELSE [collector[c] EXCEPT !.objects = collector[c].objects \ {o}]]
  /\ UNCHANGED <<queueVars, asset, outboxVars, work, temp, excused>>

(* A removal throws or the process dies: nobody lists these objects again. *)
CollectionDies(c) ==
  /\ collector[c].phase # "idle"
  /\ collector' = [collector EXCEPT ![c] = Resting]
  /\ excused' = [excused EXCEPT ![collector[c].asset] =
       @ \/ collector[c].phase = "removing"]
  /\ UNCHANGED <<queueVars, asset, outboxVars, work, storeVars>>

-----------------------------------------------------------------------------
DispatcherStep(w) ==
  \/ \E a \in Asset : Select(w, a)
  \/ Take(w)
  \/ Publish(w)
  \/ DispatchFails(w)
  \/ RecordFailure(w)

HandlerStep(w, s) ==
  \/ Find(w, s) \/ Missing(w, s)
  \/ Render(w, s) \/ Beat(w, s) \/ Promote(w, s) \/ Record(w, s)
  \/ Reject(w, s) \/ Rejected(w, s)
  \/ Throws(w, s)
  \/ Finish(w, s)
  \/ Fail(w, s)

CollectorStep(c) ==
  \/ \E a \in Asset : List(c, a)
  \/ Delete(c)
  \/ Remove(c)
  \/ CollectionDies(c)

Next ==
  \/ \E a \in Asset :
       \/ Attach(a) \/ Detach(a) \/ BackoffEnds(a) \/ Cancel(a)
  \/ \E w \in Worker :
       \/ DispatcherStep(w)
       \/ \E asg \in Queue!Assignments : Claim(w, asg)
       \/ \E s \in Slot : HandlerStep(w, s) \/ IntervalBeat(w, s)
       \/ Crash(w)
  \/ Reclaim
  \/ Tick
  \/ \E c \in Collector : CollectorStep(c)

Spec == Init /\ [][Next]_vars

(* The runners keep polling, whatever a pass does, and every await of a    *)
(* pass or a handler ends one way or another (the decoder's child process  *)
(* has a timeout); time passes.                                            *)
Fairness ==
  /\ WF_vars(Tick)
  /\ WF_vars(Reclaim)
  /\ \A a \in Asset : WF_vars(BackoffEnds(a))
  /\ \A w \in Worker :
       /\ WF_vars(DispatcherStep(w))
       /\ WF_vars(\E asg \in Queue!Assignments : Claim(w, asg))
       /\ \A s \in Slot : WF_vars(HandlerStep(w, s))

FairSpec == Spec /\ Fairness

-----------------------------------------------------------------------------
(* "A job is never created without the message being marked, and a message *)
(* is never marked without its job" (OutboxDispatcher), with two           *)
(* dispatchers, stale selections, rollbacks and lost replies.              *)
JobIffPublished ==
  \A a \in Asset : message[a].state = "published" <=> row[a].state # "absent"

(* A message is published once, and starts its job when it is: a late      *)
(* failure record or a second dispatcher neither unpublishes it nor takes  *)
(* it for a job that has already run.                                      *)
DispatchedOnce ==
  [][\A a \in Asset :
       /\ message[a].state = "published" =>
            /\ message'[a].state = "published"
            /\ message'[a].backoff => message[a].backoff
       /\ (\E w \in Worker : dispatcher[w].phase = "locked" /\ dispatcher[w].asset = a
                             /\ dispatcher'[w].phase # "locked" /\ row'[a] # row[a])
            => row[a].state = "absent"]_vars

(* What is served can be read: the variant rows of an asset are there once *)
(* it is ready, and each names an object, whatever superseded executions   *)
(* do to the temporary keys they share with their successors and whatever  *)
(* the orphan collection removes.                                          *)
ReadyIsServable ==
  \A a \in Asset :
    /\ asset[a].state = "ready" => asset[a].variants
    /\ asset[a].variants => Variant \subseteq object[a]
    /\ Stored(a) => Original \in object[a]

(* A job that succeeded has published its asset, so an asset only stays    *)
(* pending or failed behind a job that did not succeed.  The one exception *)
(* is a superseded execution: markAssetFailed asks for no lease, so one    *)
(* whose job has been claimed again can fail what its successor publishes. *)
(* And an image nobody can decode is never published.                      *)
OutcomeIsTrue ==
  \A a \in Asset :
    /\ row[a].state = "succeeded" =>
         asset[a].state \in {"ready", "deleted"} \/ asset[a].overruled
    /\ asset[a].state = "ready" => asset[a].sound

(* An object of a variant without its row is on its way: an execution      *)
(* that is publishing it or a collection that is removing it.  What        *)
(* is left behind otherwise comes from an execution or a collection that   *)
(* broke off, or from one that published between the listing of the keys   *)
(* and the deletion of the row.                                            *)
NoStrayVariant ==
  \A a \in Asset :
    (object[a] \ {Original} # {} /\ ~asset[a].variants) =>
      \/ excused[a]
      \/ \E w \in Worker, s \in Slot :
           /\ run[w][s].job = a
           /\ At(w, s, "promote") \/ At(w, s, "publish")
      \/ \E c \in Collector :
           /\ collector[c].phase = "removing" /\ collector[c].asset = a
           /\ object[a] \subseteq collector[c].objects

(* Every upload's message is dispatched and its job ends, whatever fails,  *)
(* crashes or is superseded on the way: "this is what stops a              *)
(* child-process crash from stranding work forever" (reclaimExpiredLeases). *)
EveryUploadSettles ==
  \A a \in Asset :
    (message[a].state = "pending" \/ row[a].state \in Queue!Waiting \cup {"running"})
      ~> row[a].state \in Queue!Terminal
=============================================================================
