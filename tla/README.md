# Inventory Atlas: specifications and proofs

TLA+ models of the backend (`packages/backend/src`, abbreviated `b/` below), the
TLC configurations that check them on small instances, and theorems about them
checked by TLAPS.

- `tlc -config <cfg> <module>` runs a check, `tlapm <module>.tla` a proof.
- `PROJECT.json` maps every definition to the lines it models, and lists the runs,
  the hazards of the code, and for each property a seeded fault that breaks it.

## 1. The system

Inventory Atlas is an API process and an optional worker process over PostgreSQL
and a directory of media files.  Nothing is kept in memory between requests: every
process, and every request within one, meets the others only in the database (and,
for media, in the file storage).  Concurrency is therefore that of READ COMMITTED
transactions under row and advisory locks, plus that of the job runners.

| Component | State | Operations | Meets | Hard part | What makes it correct |
|---|---|---|---|---|---|
| Job queue and runner (`b/jobs/job-*.ts`) | `jobs` rows: state, attempt, worker, lease, available_at; executions in flight | enqueue, claim, heartbeat, complete, fail, reclaim, requeue, cancel | outbox, media handlers | leases that expire under live executions, crashes, lost replies | one current execution per job, bounded attempts, every job ends |
| Outbox dispatcher (`b/jobs/outbox-dispatcher.ts`) | `outbox` rows | dispatchDue, dispatchOne, recordFailure | every mutation (writes), job queue | dispatchers beside each other, topics nobody routes | a published message has its job |
| Background runtime, worker (`b/jobs/background-runtime.ts`, `apps/worker`) | none | start, stop | runner | which process claims | one claim loop per deployment |
| Storage tree (`b/storage`) | `storage_nodes`: parent, ltree path, root, version, archived_at | create, update, move | search projection, items | concurrent moves, locks taken in several orders | paths agree with parents, no cycle, no lost update |
| Search projection (`b/infrastructure/transaction-ports.ts`) | `item_search` | writeSync, syncStorageSubtree | storage, items | two writers of one row that compute it from different tables | whoever writes under the tree's lock leaves the breadcrumb and visibility right |
| Items (`b/catalog/item-*.ts`) | `items`, tags, attributes | create, update, move | all ports | version check, placement, row locks of tags in the client's order | no lost update |
| Idempotent requests (`b/infrastructure/idempotency-repository.ts`) | `idempotency_records` | reserve, complete, fail | items | retries, expiry, lost replies | one effect per key, true answers |
| Media upload and gallery (`b/media/media-service.ts`) | upload sessions, assets, relations, files | begin, content, finalize, reorder, primary, detach, collect, expire | jobs, items, files | files and rows change in separate steps | every row has its file; one primary image; an order only reordering changes; an index is violated only where it must |
| Media processing (`b/media/media-processing-service.ts`) | variants, files | handleJob, collectOrphans | job lease, files | an execution that lost its lease; a collection beside it | a ready asset can be served; no file is lost sight of |
| Sessions (`b/auth/session-service.ts`, `rate-limiter.ts`) | sessions, in-memory windows | signIn, authenticate, revoke | users | a change of the user beside a sign-in | no session outlives the change that should end it |
| Administration (`b/auth/administration-service.ts`, `first-owner-bootstrap.ts`) | users, invitations | invite, accept, update, archive, bootstrap | sessions | two administrators at once, invitations superseded while accepted | always an active owner; one account per invitation; no lost change |
| Dictionaries (`b/catalog/dictionary-*.ts`) | categories, statuses, tags | CRUD | items, schema | parent check without a lock, audit rows read before the write | cycles are caught; audit events chain |
| Field schema and values (`b/schema`) | definitions, options, values | define, convert, archive, replace | items, storage | conversion and archiving beside writes | values fit their field's type; what is stale is owed a rebuild |
| Display templates (`b/schema/display-template.ts`) | none (pure) | parse, render | items | - | rendering is total |
| Settings (`b/settings.repository.ts`) | one row per key | read, write | API | - | - |
| Movement history, audit | append-only rows | append | written by storage and items | - | one row per change of place |
| HTTP API (`apps/api`), web client (`apps/web`) | none / view state | translate | services | - | - |
| Shared packages, migrations, infra | - | - | - | - | constraints are part of the table models |

## 2. Modules

| Module | Models | Role |
|---|---|---|
| `JobQueue` | `job-repository.ts`, `job-runner.ts`, `job-policy.ts` | component |
| `JobQueueProofs` | | theorems about `JobQueue` |
| `StorageTree` | what `storage-service.ts` promises, one step per operation | abstract specification |
| `StorageTreeProofs` | | theorems about `StorageTree` |
| `StorageTxn` | the same operations statement by statement, item placement and the projection | component, composed; implements `StorageTree` |
| `StorageTxnProofs` | | theorems about `StorageTxn`: the refinement, the causes of circular waits and of stale projections among them |
| `Idempotency` | `idempotency-repository.ts`, `complete` in `transaction-ports.ts`, the order of calls in `item-service.ts` | component |
| `IdempotencyProofs` | | theorems about `Idempotency` |
| `MediaUpload` | `media-service.ts` (beginUpload, receiveContent, finalizeUpload, expireSessions) over `media-repository.ts` and `media-storage.ts` | component |
| `MediaPipeline` | `outbox-dispatcher.ts`, `media-processing-service.ts`, `collectOrphans`, wired as in `background-runtime.ts` | composition: INSTANCEs `JobQueue` |
| `MediaPipelineProofs` | | theorems about `MediaPipeline`; carries over those about `JobQueue` |
| `Gallery` | `media-service.ts` (the relation `finalizeUpload` writes, reorderGallery, setPrimary, detachRelation) under the unique indexes of `0007_media.mjs` | component |
| `MediaServiceProofs` | | theorems about `MediaUpload` and `Gallery`, the two halves of `media-service.ts` |
| `Accounts` | `session-service.ts`, `administration-service.ts`, `first-owner-bootstrap.ts`, `authorization.ts` | component |
| `AccountsProofs` | | theorems about `Accounts` |
| `Catalog` | `dictionary-repository.ts` (categories), `field-definition-repository.ts`, `attribute-value-port.ts`, the attribute part of `item-service.ts` | composition of dictionaries, schema and items |
| `CatalogProofs` | | theorems about `Catalog` |
| `MC...` | | instances for TLC: symmetry, request sets, first tables |

### JobQueue

`row[j]` is the `jobs` row of idempotency key `j`; `run[w][s]` is the promise
`JobRunner.execute` in slot `s` of runner `w`.  `claims` and `requeues` are history
variables.  There is one action per statement of the repository (`Enqueue`, `Claim`,
`Reclaim`, `Requeue`, `Cancel`) and one per outcome of an execution: the interval's and
the handler's heartbeats, `Complete`, `CompleteErrors` (the statement throws, before or
after it committed), `HandlerThrows`, `Fail`, `FailErrors`.  An execution belongs to the
claim that launched it, but its statements only test job and worker (`Holds`), as the
code's do.  `leased_until` and `available_at` are kept as ticks left, and `Tick` passes
time without regard to heartbeats, so a beat may come late and an execution outlive its
lease.  `fail` reads the row and then updates it: `Failing` remembers the attempt it read.
`Claim` takes any non-empty part of what is due for the free slots, since `skip locked`
may pass over rows.  Priorities and payloads are left out.

### StorageTree and StorageTxn

`StorageTree` keeps the node table with a path as the set of nodes on it, and performs
create, update and move as one step each.  Its `Init` is any forest.  It has no run of its
own: `txn` checks that `StorageTxn` implements it, and its invariants are theorems.

In `StorageTxn` a transaction is a record with a program counter, the locks it holds and
still needs, and an overlay of uncommitted writes.  A statement starts by computing what
it must lock *from the snapshot it starts on*, acquires those locks one at a time
(`Acquire`), and then runs.  This is where the races of the code live: a statement that
waits for a lock continues on what it has read before.  `for update`, `for no key update`
and the foreign keys' `key share` conflict as in PostgreSQL; an advisory lock belongs to
a tree's root id.  An item's update also locks the rows of the tags it lists, one upsert
after the other in the order of the list (`ItemTags`); what else the tags are is left out,
and so are the creation of items, which takes the same locks, and attribute values, which
lie under the lock of the item's row.  `moving` is `metadata.operation === 'move'`, the
one case in which the code refuses the place the item already has.  `Abort` may end any transaction at any time (a failed check, the
deadlock detector, a lost connection).  Titles are rename counters, and a projected path
is the sequence of (node, title) pairs, so that a stale breadcrumb is told from a fresh one.

`strayed` is a history variable: the items whose place or projection was last written by a
transaction that had not secured it (`Secured`), which is to hold the lock of the tree the
item lies in as that transaction sees it, or of the item's row when it lies in none.

What clients may ask and the tables they ask it of come as `Scenarios`: an execution
begins with one of them, and keeps its `asks`.

`ImplementsTree` instantiates `StorageTree` with the committed table, forgetting titles,
versions and the order of the path; `PathsFollowParents` states separately what that
forgets of the order.

### Idempotency

`record[k]` is the row of a key, `call[c]` the progress of one HTTP request through
`reserve`, the transaction and the catch branch, `effect[k]` the calls whose mutation
committed.  The mutation itself is one fact: its transaction ends in `CompleteRecord`, and
`Commit` publishes both, with or without a reply.  A row updated by an open transaction
is locked (`LockedByOther`).  `now` is read before the statements that use it, so
`StartTransaction` fixes whether the completion will be found on time.

### MediaUpload

Rows and files change one after the other, so every await ends a step: `session[s]` is
the `upload_sessions` row, `temp[s]` the file under its temporary key, `object[r]` and
`asset[r]` the file and the row of the asset whose id finalize request `r` draws.  A
request goes through `requireOwnSession` (one step: row, then clock), `writeTemp`, the
guarded update `advanceSession` and the removal, or through signature, promotion,
transaction and catch branch.  Contents are opaque; which of them have the declared size
and the declared type are constants, so that `Verify` compares what the code does: the
row's size and checksum with the file's first bytes.  `writeTemp`'s staging file is
private to its call and left out.  `Die` stands for a dead process as well as for an
exception where nothing catches it, `SweepStops` for the same in the loop of
`expireSessions`; `dropped` remembers what the loop leaves behind.  The reply of the
finalizing commit may be lost (`Attach`): its request then goes into the catch block, and
the asset is `unheard` (history).  The relation row that
the finalizing transaction also writes is in `Gallery`, its outbox message in
`MediaPipeline`.

### MediaPipeline

What happens to an upload after its transaction.  `message[a]` is the outbox row of asset
`a`, `row`, `run` and `claims` are those of `JobQueue` (with one budget and without the
admin's recovery, which only starts a dead job over), `asset[a]` the source row with its
variants' rows, `temp[a]` and `object[a]` the files under temporary and permanent keys.
A runner's pass dispatches (`Select`, `Take`, `Publish` or `DispatchFails`, and
`RecordFailure` in a transaction of its own), reclaims and claims, one after the other
(`Between`), while its slots run handlers.  A handler goes through `Find`, `Render`,
`Beat`, `Promote` (one file per step), `Record` and `Finish`, may throw at every await,
and never learns that it lost its lease but from a heartbeat.  A collection lists the keys of an asset that is due (`List`),
deletes the row if nothing refers to it (`Delete`) and then removes the listed files one
by one (`Remove`).  Each step of the queue is an action of `JobQueue`.  `sound` says
whether an image can be decoded at all: one that is not is never rendered.  But any
execution may find any asset unprocessable (`Reject`), since `classifyChildFailure` takes
every exit of the child it does not recognise for permanent, and it marks the row failed
whatever its state and whoever holds the lease.  `overruled` (history) says that whoever
declared the asset failed last had been superseded; `excused` remembers the known ways to leave a
file behind (section 3).

### Gallery

`relation[x]` is a `media_relations` row of one item.  A call reads (outside or inside its
transaction, but without a lock) and then runs its statements as one step against the
committed table.  Relations have the three roles of the code; a container photo goes to
position 0 whatever is there.  The operators `Attached`, `Reordering` and `Promoting` give the table
as it is after each statement, `Execute` compares each of these with the partial unique
indexes of items, on the primary and on role and position (`Unique`): the first one that violates them aborts the transaction.
`edit[e].beside` records that another call committed in between.  `Listings` are the
orders in which `listItemMedia` may return the gallery.  `Parking` is the code's 1000.

### Accounts

An account is its normalized address.  A call authenticates its session (`Authenticate`,
`Touch`: the guarded update of `authenticate`), then an administrative one waits for the
users table (`Lock`), reads and checks (`Decide`) and writes (`Write`); sign-ins, the
revocation of sessions and of invitations take no table lock and interleave with that.
`lock table ... share row exclusive` keeps other writers of users out but not writers of
sessions.  `changes` and `since` are history variables.  Time is what it expires, and one
thing more: a call reads its `now` before it waits for the lock and writes it as
`revoked_at`, which the tables refuse for rows created later (`0002_auth.mjs:52`, `:84`).
`young` are the rows committed since the call began, and `RefusedAsTooYoung` is the
failure of the whole transaction; whether it strikes depends on the clocks, so it may or
may not.

### Catalog

Categories, definitions, options, and the items written against them.  An ask has the
columns of its operation, and `Undefined` for each that it leaves.  A call's reads are
steps of their own, so that others commit in between; its last statement, its audit event
and its message commit in one action.  `Walk` reads one ancestor at a time; `Trigger`
sees the snapshot of the statement that fires it, and `Lineage`, like the trigger's
recursive query with its `union`, is the least set that has the parent of each category
in it.  `StartItem` lists definitions and
values (`listing`), `Own` swaps the core row by its version, `Plan` reads the definitions
again as the attribute port does and plans rows against them, `CommitItem` writes values
and projects them by the *first* listing.  `owed` is the set of
`search.rebuild-items.v1` messages.  Two history variables single out two races:
`overlapped` (two reparenting statements in open transactions at once) and `raced` (a
conversion counted values while others were planned).

## 3. Runs

| Run | Shows | Bounds |
|---|---|---|
| `jobs_safety` | no superseded execution renews or settles a job, no row is stranded, attempts stay within the budget, finished jobs stay finished | 2 jobs, 2 runners of one slot, 2 attempts, 1 recovery, lease and backoff of 1 tick |
| `jobs_twoslots` (violated) | two slots of one runner share a lease | 1 job, 1 runner, 2 slots |
| `media_pipeline` | one job per message, every upload settled, ready assets servable, files accounted for | 1 asset, 1 variant, 2 runners of one slot, 2 attempts, 1 collector, 1 failed dispatch |
| `txn` | concurrent transactions implement the atomic tree and lose no update; a projection is stale only after a write without its tree's lock; updates wait in circles for two reasons only | 3 transactions; 9 requests on 2 trees of 2 nodes, 14 on 2 items in one tree of 3, or 10 on 2 items in two trees |
| `txn_unassign` (violated) | a rename overwrites an unassignment's projection | 2 transactions, 2 requests |
| `txn_crossing` (violated) | a rename overwrites the projection of a move to another tree | 2 transactions, 2 requests |
| `idempotency` | one effect per key, true answers, reservations held | 3 calls, 1 key, 2 fingerprints |
| `media_upload` | one asset per finalized upload, with the file that was verified, unless a reply was lost; every file accounted for; every session ends | 1 session, 3 requests, 2 contents |
| `gallery` | a primary image stays, order changes only by reordering, indexes fail only overlapping calls and three named cases | 4 calls, 4 relations, 6 first tables, `Parking` 5 |
| `accounts` | an active owner, one open invitation, one account per invitation, sessions end with what should end them, no lost change | 3 calls of 19, 3 addresses, 3 sessions, 2 invitations, 3 first tables |
| `catalog` | cycles, misfits and stale projections only where named; audit chains; editors keep each other's values | 3 calls of 17, 3 categories, 2 fields, 2 options, 2 items, 3 first tables |
| `catalog_cycle` (violated) | two categories moved under each other close a cycle | 2 calls |

Why the bounds suffice.  Each race in the queue needs one job, the execution that lost it
and its successor; the second job lets a claim take several rows and a reclaim be partial
in effect.  Two attempts are the least at which retry and exhaustion differ.  Assets share
no row and no file, so the pipeline needs one; two runners are two dispatchers, and an
execution beside its successor.  Crossing moves, and moves that chase each other, take two
trees of two nodes; the third transaction lets a third party change what the waiting one
has read.  The scenarios of `txn` are one for moves that cross, one for items in a tree
that nothing leaves, with tags in both orders, and one in which items and the nodes they
lie in change trees or leave storage beside renames.  For a key, the first call, its retry and the retry's successor or rival are
three.  Upload sessions share no row and no file, so one is enough; three requests are two
contents and a finalize, or a content and two finalizes, and a late third beside a
finished pair.  In `accounts` two calls race and the third (a sign-in, an acceptance, a
second invitation) shows what they leave; in `catalog` a conversion, the item written
beside it and the option created meanwhile.  `MaxRequeues` caps the only unbounded loop
of the queue, `MaxFailures` that of the dispatcher; nothing else is capped, because time
is kept relative and calls are made once.  `CHECK_DEADLOCK FALSE` stands in
every configuration because each of these small worlds really may finish: every
transaction done, every call answered, every job terminal.  (The waits of transactions
for each other are no deadlock of the model, since any of them may abort; what may wait in
a circle is what `CirclesHaveCause` states.)

The exceptions of the properties are reached in the runs, but for one: an edit or a sync
at a projection outside its tree, as part of a circle (`AllSecured`), takes four
transactions, and TLC found it on a larger instance that is not part of the project.

### What the violated runs mean

- `jobs_twoslots`: the media type may run two executions per runner.  After an expiry
  and reclaim the runner may claim its own job again while its first execution still
  runs; `heartbeat` (`b/jobs/job-repository.ts:166`) then answers true to both, and either
  may complete the job.  A fencing value (the attempt) in the where clause would tell
  them apart.
- `txn_unassign`: an update that takes an item out of storage resolves no destination and
  so takes no tree lock; a subtree sync that has already listed the item waits for its
  projection row and then writes the old breadcrumb.
- `txn_crossing`: the same with an item that is moved into another tree, which is an
  ordinary request: its update locks the tree it goes to and not the tree it leaves.
- `catalog_cycle`: the walk of `validateCategoryParent` locks nothing, and a trigger sees
  the snapshot of the statement that fires it.  `CycleOnlyFromOverlap` shows that this is
  the whole window: whatever changes between the walk and the write is caught.

### Observations

Behaviour met while modelling that no run reports as a violation.  Where it bears on a
property, the property's exception or the run's bounds name it.

- *Stale root.*  `resolveDestination` (`b/infrastructure/transaction-ports.ts:408`) reads
  `tree_root_id` in the statement that waits for that root's lock, and does not re-read
  it.  When a move takes the node to another tree meanwhile, the item's update goes on
  under the wrong tree's lock, and its upsert may overwrite what a rename in the new tree
  has just projected.  `createCore` and `updateCore` do not suffer from this: they hold
  the node's row lock by then, which keeps `moveSubtree` away.
- *What a stale breadcrumb takes.*  `StaleOnlyFromStray` says that it is always such a
  write: the last transaction that wrote the item's place or projection did not hold the
  lock of the tree the item lay in.  A later update of the item, if it does hold it,
  repairs the projection.  Locking the tree that is left as well as the one that is
  entered would close both violated runs; the stale root above is the third way.
- *Deadlocks.*  Two edits of items that list the tags `a, b` and `b, a` may wait for each
  other, because `replaceTags` upserts the tags one by one in the order of the request
  (`b/catalog/item-repository.ts:246`); sorting the names would prevent it.  A sync beside
  an edit whose item lies in a tree the edit has not locked is the other way in which
  updates of nodes and edits can (`CirclesHaveCause`).  Other pairs can as well: a creation
  below a root holds the tree's lock
  and asks (by its foreign key) for the root's row, which an update of the root holds
  while it waits for that lock; a placement beside an update of the destination does the
  same; a move locks source and target in the order of their ids and then rewrites rows below it
  that an update, or another move, holds.  PostgreSQL aborts one of them; no data is lost.
- *Contents that overlap.*  `receiveContent` replaces the session's file
  (`b/media/media-service.ts:189`) before `advanceSession` tells it that another request
  has won.  `finalizeUpload` compares the row's checksum, never the file's, so it may
  promote the loser's bytes under the winner's size and checksum, although
  `media-service.ts:142` says that it verifies size, checksum and signature.
  `ObjectIsAsVerified` shows that two content requests let into one session are the only
  way.
- *Lost replies.*  When the finalizing transaction commits and its reply is lost, the
  catch block removes the file of an asset that exists (`b/media/media-service.ts:334`).
  `AssetHasObject` shows that this is the only way for an asset to lose its file;
  `unheard` marks it, in run and theorem.
- *Files left behind.*  `NoStrayVariant` excuses three ways: an execution that broke off
  between promotion and the variants' rows for the last time; a collection that broke off
  between the row's deletion and the files' removal; and an execution that promotes
  between a collection's listing and its deletion.  Nothing collects such files later.
- *Superseded handlers.*  `processAsset` says that "nothing is published by a runner that
  no longer holds" the lease (`b/media/media-processing-service.ts:67`), but only the
  heartbeats ask for it: an execution that loses the lease after its last one still
  replaces the variants' rows and marks the asset ready.  `ReadyIsServable` shows that the
  files are then there all the same.  Marking it failed is another matter:
  `markAssetFailed` (`b/media/media-repository.ts:326`) asks neither for the lease nor for
  the asset's state, and a full disk or a file that is gone counts as permanent
  (`b/media/image-processor.ts:363`), so a superseded execution can fail an asset that its
  successor has published and whose job succeeded; nothing processes it again.
  `OutcomeIsTrue` shows that this is the only contradiction between asset and job.
- *Revocations that fail.*  A role change, an archiving or an invitation that waits for the
  table lock while a sign-in (or another invitation) of the same address commits may fail
  as a whole, by the check that a row is not revoked before it was created.  The client
  sees an internal error; nothing is half done.
- *Sign-ins.*  A session stored for an account archived since its password was verified
  is a live row; `authenticate` refuses it, because it reads the account.
- *Gallery.*  The item's version guards the gallery calls but none of them advances it,
  so two of them never conflict by it.  Detaching leaves gaps, so positions only grow;
  those that reach the parking range (1000 and up) can make a reordering fail with nobody
  beside it.  `docs/project/media-uploads.md:60` says that the index on positions "is never
  violated mid-transaction"; it is by a second container photo, which goes to position 0
  like the first, and by the promotion of a container photo when the position it hands to
  the old primary is taken in the gallery (`ClashHasCause`).  A relation that is detached
  while it is being promoted takes the primary role with it.
- *Catalog.*  An archived option that an item still holds, or a field that has become required, blocks every
  update of the item until its values are submitted again.  Moving a field to another category asks for no
  rebuild.  `docs/project/dynamic-schema.md:131` says that a value sits in its type's
  slot; a conversion that counts while values are planned gets past that
  (`raced`).  `docs/project/catalog-dictionaries.md:54` says that template-only edits do not
  enqueue a rebuild; the code does enqueue one.  A display name may also show the label of
  the item's lifecycle status (`b/catalog/item-service.ts:666`), and changing that label
  asks for none: `RebuildOwed` speaks of definitions, options and categories only.  The topic
  `search.rebuild-items.v1` has no route (`b/jobs/outbox-dispatcher.ts:78`), so `owed`
  never shrinks.

### Fairness

`EveryUploadSettles` (in `MediaPipeline`) assumes that the clock ticks and backoffs end;
that each runner keeps dispatching, reclaiming and claiming what it can (`schedule`
rearms itself whatever a pass did, and `guard` keeps a failing step from stopping the
pass); and that handlers go on from await to await, by returning or by throwing.  The
last is an assumption about the handler: its decoding child has a timeout.  Claims are
weakly fair per runner as a whole, not per job; that suffices with finitely many jobs.
Nothing is assumed of heartbeats, cancellations, collections or crashes, and a crash may
strike at every point of every execution.

`SessionsClose` assumes that a session's time passes and that `expireSessions` is called
again (`media.cleanup-v1` is enqueued once per interval, under a fresh key each time, so
a dead cleanup job does not block the next); nothing of requests.

## 4. Theorems

All are proved for arbitrary constants under the named assumptions of the modules.  Most
of those only keep null values out of the sets of ids, and bounds positive
(`QueueAssumption`, `MediaAssumption`, `NodeAssumption`: lock statements order nodes by
id, so ids are numbers).  `NoNode \notin Node` is a hypothesis of the theorems about `StorageTree`, and
`TagAssumption` says that the tags are finitely many.  Four speak of the first tables.  That of `Accounts`
(`BeginningAssumption`) says that an installation with accounts has an active owner and
that its live sessions are those of addresses.  That of `Gallery` says that the first table
satisfies its unique indexes; its `RelationAssumption` that the relations are finitely many.  That of `StorageTxn`
(`ScenarioAssumption`) says that the node table is some forest: the table's checks and
the columns `createCore` and `moveSubtree` fill, so that every node of a path has the part
of that path which leads to it; and that items lie in nodes that exist (a foreign key).
That of `Catalog` (`BeginningAssumption`) says that rows refer to rows that exist (`Sound`:
the foreign keys, and versions that start at nothing) and that nothing is in a cycle, unfitting or waiting for a rebuild yet (`Settled`); its
`AskAssumption`, that a call has the parameters of its method.

| Theorem | States | Needs |
|---|---|---|
| `JobQueueProofs!TypeSafety` | `TypeOK` (with the invariant of `TypeCorrect`, that a busy slot names a job) | - |
| `JobQueueProofs!Budget` | `ExecutionsWithinBudget` | - |
| `JobQueueProofs!LeaseSafety` | `BeatsOnlyLatestClaim` | `OneSlot` |
| `JobQueueProofs!SettleSafety` | `SettledByLatestClaim` | `OneSlot` |
| `JobQueueProofs!NoStranding` | `NoStrandedRow` | `OneSlot`, `OneBudget` |
| `JobQueueProofs!Finality` | `FinishedIsFinal` | - |
| `StorageTreeProofs!ForestCorrect`, `NoCycleCorrect` | `Forest`, `NoCycle` | `NoNode \notin Node` |
| `IdempotencyProofs!OneEffect`, `TrueAnswers`, `HeldReservations` | `EffectOnce`, `AnswersAreTrue`, `ReservationHeld` | - |
| `MediaServiceProofs!TypeCorrect`, `UploadSafety` | `TypeOK`, `OneAssetPerUpload` | - |
| `MediaServiceProofs!ObjectSafety` | `AssetHasObject` | - |
| `MediaServiceProofs!ObjectsAccounted`, `TempsAccounted`, `Finality` | `NoStrayObject`, `NoStrayTemp`, `ClosedIsFinal` | - |
| `MediaServiceProofs!BytesAreSent`, `ObjectFaithful` | `SourceInv` (every byte held was sent for its session), `ObjectIsAsVerified` | - |
| `MediaServiceProofs!GalleryInvariant` | `GalleryInv`: the unique indexes hold, and what a call has read is still so while nobody committed beside it | `BeginningAssumption` |
| `MediaServiceProofs!PrimaryStays`, `OrderStays`, `ClashesHaveCause` | `PrimaryKept`, `OrderOnlyByReorder`, `ClashHasCause` | `BeginningAssumption` |
| `MediaPipelineProofs!QueueImplemented` | the pipeline implements `JobQueue` | - |
| `MediaPipelineProofs!QueuePromisesKept`, `QueueLeasesKept` | the theorems of `JobQueueProofs`, of the pipeline's rows and executions | the second `OneSlot` |
| `MediaPipelineProofs!PipelineTyped` | `TypeOK` | - |
| `MediaPipelineProofs!OutboxIsAtomic`, `PublishedOnce` | `JobIffPublished`, `DispatchedOnce` | - |
| `MediaPipelineProofs!ReadyServable`, `StraysExcused` | `ReadyIsServable`, `NoStrayVariant` | - |
| `MediaPipelineProofs!OutcomesTrue` | `OutcomeIsTrue` | `OneSlot` |
| `StorageTxnProofs!TablesTyped`, `ReadsStand` | `TypeInv`; `LockInv` and `StageInv` (what a transaction has checked under its locks still holds) | - |
| `StorageTxnProofs!PathsKept`, `NothingLost` | `PathsFollowParents`, `NoLostUpdate` | - |
| `StorageTxnProofs!TreeImplemented`, `TreeSound` | `ImplementsTree`; the committed tree is a forest without cycles | - |
| `StorageTxnProofs!CirclesExplained` | `CirclesHaveCause` | - |
| `StorageTxnProofs!StaleExplained` | `StaleOnlyFromStray` | - |
| `AccountsProofs!LockedDecisions`, `AccountsTyped` | `IInv` (what a call decided under the table lock still holds), `TypeOK` | `BeginningAssumption` |
| `AccountsProofs!LastOwnerStays`, `LastInvitationCounts`, `AcceptedExactlyOnce` | `OwnerRemains`, `OneOpenInvitation`, `AcceptedOnce` | `BeginningAssumption` |
| `AccountsProofs!ChangesEndSessions`, `ChangesAreSeen` | `RevocationComplete`, `NoLostChange` | `BeginningAssumption` |
| `CatalogProofs!CatalogTyped` | `TypeOK` (with `CallsFit`: what a call holds fits what it asks for and how far it is) | `BeginningAssumption` |
| `CatalogProofs!CatalogAudit`, `CatalogKeepsValues` | `AuditChains`, `KeepsUnaddressed` | `BeginningAssumption` |
| `CatalogProofs!CatalogOptions`, `CatalogValues` | `OptionsFitType`, `ValueFitsType` | `BeginningAssumption` |
| `CatalogProofs!CatalogRebuilds`, `CatalogCycles` | `RebuildOwed`, `CycleOnlyFromOverlap` | `BeginningAssumption` |

`OneSlot` and `OneBudget` are hypotheses of the theorems, not assumptions of the module:
every policy states a concurrency of one, and only a deployment can raise that of media
processing; `jobs_twoslots` shows that the first is needed.  The second is needed because `fail`
compares with the policy's budget (`b/jobs/job-repository.ts:202`) and `claim` with the
row's: with `Budgets` below `PolicyAttempts`, which no caller asks for today, TLC finds a
row that waits for ever.

**The queue.**  `Budget` strengthens the bound to `claims <= requeues * max + attempt`
with `attempt <= max`: only a claim adds to the left side, and it adds to the attempt,
which only a recovery resets.  `LeaseSafety` follows because with one slot the worker id identifies the
execution: a claim by a worker needs the slot idle, so whoever holds the row under that
name is the execution just launched.  `SettleSafety` is a step property from that
invariant.  `NoStranding` adds what a failing execution has `seen`: while it still holds
the row, that is the row's attempt, so its verdict is the row's.
To keep the proofs short, every action is first shown to have one of a few *effects* on a
row (`RowEffects`, `RunEffects`), and the invariants are proved from the effects.

**The tree.**  `Forest` alone is not inductive for `NoCycle` or for moves: re-rooting a
path by set difference keeps exactly the nodes below the moved one only if any two nodes
on a path are comparable (`PathIsChain`) and paths are closed upward with one root
(`PathsClosed`).  These are parts of `Forest`; `MoveStep` is the lemma they are for.

**Idempotent requests.**  The invariant `IInv` says that a row's token names a call that
asked for this key with this fingerprint; that exactly a completed row has an effect, its
token's; that a call between `complete` and its commit still owns its row, because it
holds the row's lock; and that every answer rests on a completed row.  The stale read before a takeover does
no harm because the takeover's own test is made on the row as it then is.

**Uploads.**  `NoStrayTemp` is not inductive: a content request may write its file while a
finalize request, whose own file is promoted already, is about to close the session.
`TempInv` therefore asks for somebody to answer for the file not only once the session is
closed but as soon as a transaction is under way on it; and since whoever writes first
enters `recording`, there is somebody.  `ReceivedInv` (a session that was received is
never pending again) keeps that writer from being satisfied.  `OneAssetPerUpload` rests
on the guarded update inside the transaction: while the session is open it has no asset.
`HeldInv` is what `AssetHasObject` needs beside them: only the catch block of the
asset's own request removes its file, and it can get there after the commit only when the
reply was lost (`unheard`).

`ObjectFaithful` follows the bytes instead of the steps: `SourceInv` says that temporary
files, rows, requests and assets only ever hold a stream some content request of their
session sent, and that an asset is made only where one with the right signature was.  If
no two content requests of a session overlapped, there is only one stream it can be.

**The gallery.**  `GalleryInv` says of a call that has read what can be counted on however
many commits come after (`Kept`: an order names exactly the listed rows, a promoted row was an
active gallery image) and what holds as long as none did (`Current`: the position read lies
above the gallery, the list is the gallery, the row read is the row).  `PrimaryStays` and
`OrderStays` need only the first: every table a transaction may commit is described row by
row (`AttachedTables`, `PromotingTables`, `ReorderingTables`).  `ClashesHaveCause` needs the
second, for the table after *every* statement of a reordering: parked positions lie at `n +
Parking` and above, those still to be parked below `Parking`, those placed again below
`Len(order)`; and `Len(order) = n`, because an order and a listing are both bijections onto the
same set (`LengthOfOrder`, `Listed`: the only place where cardinalities are needed, and
where the relations must be finitely many).

**The pipeline.**  Each step of dispatchers, handlers and collections is first shown to be
a step of `JobQueue` or to leave its variables alone (`QueueStep`), so that everything
proved of the queue holds here without being proved again.  `PipelineInv` adds what the
queue does not know: `AssetInv` (an asset's message, row, job and files agree),
`DispatchInv` (a locked message is pending, and locked once), `ExecutionInv` (what a
handler has seen is still so: its image decodes, and what it has promoted is in storage
for as long as there is a row to record it in) and `CollectInv` (a pass removes files only
of an asset it has deleted).  `OutcomesTrue` follows the execution that holds the lease
(`Leads`; with one slot the lease names one execution, hence `OneSlot`): once it has
published, the asset is ready, deleted or overruled (`Settled`), and only a superseded
execution can undo that, by overruling it.  `ReadyIsServable` is not inductive alone, because an
execution that lost its lease may record the variants after its successor, or a
collection, was there: that the files are in place when it does so is `ExecutionInv`, for
every execution at once.  `PublishedOnce`
compares two states and rests on the dispatcher's row lock: what it selected may be
stale, what it has taken is not.

**Storage transactions.**  `Inv` has five parts.  `LockInv` says that no two transactions
hold conflicting locks, `UnusedInv` that the id of a node to be created is nobody else's.
`StageInv` says of each transaction, by operation and program counter, which locks it has
asked for, which it holds, and what it may count on: that an accessible node still is,
that the rows found in the subtree are still exactly the subtree, that the rows it has
written over are the present ones.  A transaction's own steps extend this; the steps of
others preserve it, since only commits change tables, and a commit changes a node only
under that node's row lock and the lock of its tree, before and after (`Written`,
`RowGuarded`), so that for anyone else who holds one of these the table is `Undisturbed`
(`StageKept`).  `Forest` is stated along each path (its k-th node exists and has the first
k steps as its path) rather than along parents, so that no induction over the depth is
needed: a move splices two paths, and the lemmas `Spliced` and `MovedRow` say place by
place what comes out.

`NothingLost` and `PathsKept` are read off `Inv`.  `TreeImplemented` maps a path to the
set of nodes on it (`RangesNested`, `SeenAlike`) and shows of each kind of commit that it
is one step of `StorageTree` whose guard holds *then*, not when it was checked
(`CreateSeen`, `UpdateSeen`, `MoveSeen`: the stage has kept the checks); every other step
is a stutter.

`CirclesExplained` and `StaleExplained` extend `Inv` by `KeepsInv`: of each transaction
(`Keeps`), which locks a statement began with and is going to ask for, that tags are
locked in the order of the list (`Tagging`), and which projections it writes; and that the
places of items exist.  An update or an edit then asks for locks in one of four rounds
(`Rounds`): for a first row, holding nothing (`AsksRow`); for its tags, holding the row of
its item (`AsksTag`); for a tree, holding rows (`AsksTree`); for projections, holding rows
and trees (`AsksShown`).  Of any set of updates and edits in which everyone asking for a
projection has secured the item (`AllSecured`), those in the fourth round wait for none of
the others, since an item's tree (or its row, when it lies in none) has one holder;
without them nobody holds a projection or a tree, so those in the third wait for none;
those in the first hold nothing, so that nobody waits for them.  What is left are edits
waiting for each other's tags.  If their lists agree with one ranking (`TagsRanked`), each
asks for a tag above those it holds (`HigherTag`), and a circle of them would have no
greatest rank among finitely many (`NoGreatest`).  `NoCircle` puts this together.

`FreshInv` adds `StaleOnlyFromStray` itself, and for each transaction that has computed the
projections it will write, what it may count on (`Knows`) for every item that has not
strayed and every item it writes: a projection it writes is right if it has secured the
item (`Sec`), by the committed tables *with the transaction's own writes over them*; where
it writes none, it changes nothing that is shown (`Told`).  A sync covers every item whose
projection the writes change (`SubtreeSynced`), and a moved subtree is the same set of
nodes where it comes to lie (`MovedSubtree`).  The commits of others leave this so
(`ToldOfOthers`): they change nothing shown in a tree somebody else has locked
(`Elsewhere`, `Within`), or the item strays.  The commit then makes it true
(`CommitFresh`).  Nothing is assumed of what clients ask.

**Accounts.**  No property is inductive alone, because a call checks in one step
(`Decide`) and writes in another.  `DecidedInv` carries the check over: whoever has
decided under the table lock could decide the same again.  It holds because the holder is
unique (`LockInv`), every other writer of users waits for it, and what an acceptance read
of its invitation is safe from `revokeInvitation` by the second table in its lock.  Each
action's write then starts from a check that is true *now*: `UpdateEffect`,
`ArchiveEffect`, `AcceptEffect`, `BootstrapEffect`.  An acceptance keeps the owner only
because somebody must have invited (`RowInv`), so that accounts exist already.
`ChangesEndSessions` needs no lock on sessions: a row that a sign-in commits after the
change carries the new count (and `authenticate` judges it by the account as it is).

**The catalog.**  The calls take no locks on what they read, so everything rests on
versions.  `Stands` says of each call under way that the version it expects is not later
than the row's, and that if the two are equal, the row it read without a lock *is* the row.
So the guarded write that goes through replaces what the call has seen: `CatalogAudit` is
that, `CatalogKeepsValues` is that of an item (`MergedAs`, what the call merged) and its
values.  `Locks` adds that between the guarded update and the commit a row has one holder
and does not change.

`CatalogOptions` needs that an option in use and a planned conversion exclude each other at
one version of the definition: while a converting call's version is current, the field it
converts has no active option (`ConvertsUnused`), and an option is only created where the
field was a select at the version its call compares (`OptionStands`).

`CatalogRebuilds` follows the listing of an item from the read to the projection.  What is
listed (`Lists`), what is named (`Named`) and what is shown (`Shows`) is each either what
the tables say or owed a rebuild under a later version; a step that changes a row either
leaves that as it is or records the message in the same commit (`FieldChanging`,
`OptionChanging`, `CategoryChanging`), and messages stay.  A field that nobody holds a value of
may be hidden unseen, which is why `Refers` and the merge (a value is only kept of an
active field) are part of it.

`CatalogValues` strengthens the property by the values that are planned and not yet
committed (`Fitting`), and by what a conversion about to be written has counted
(`Unstored`): no value, stored or planned, unless the field is in `raced`.

`CatalogCycles` adds what the trigger has seen (`Cleared`): while one reparenting is
between its trigger and its commit, the category it moves is not among the ancestors it
gets.  The steps of others leave that so, because without an overlap nobody else moves
anything (`OneMoves`), and because a category that is only being created is nobody's
ancestor yet (`Linked`, `Targets`: parents exist).  Since `Lineage` is a least set,
`AcyclicMoved` needs no induction: it exhibits a smaller closed set.

What stays with TLC, and why:

- `EveryUploadSettles` and `SessionsClose`: liveness under fairness needs ENABLED.
- What the violated runs refute: `ProjectionFresh` and the claims of the other two are false
  of the code, and a run of a few steps shows how.

No module uses a recursive operator.

## 5. Not modelled

Listed with reasons in `PROJECT.json`; in short:

- Controllers and the web client keep no state of their own; settings are single-row
  reads and writes.
- Image decoding, password hashing and the generated Prisma client (two thirds of the
  implementation's lines) are external: their effect on the program's state is what is
  modelled.
- Display templates are a parser and renderer over strings; what matters to the rest is
  which template a name was derived from, and that is in `Catalog`.
- The sign-in rate limiter is a counter in one process's memory.
- Lifecycle statuses are rows under the same versioned write as categories.  Display names
  may show their labels, for which no rebuild is asked (section 3, *Catalog*).  Of tags
  only the row locks that item edits take are modelled.
- Repeated values, validation rules and the attributes of storage nodes: data beside the
  control that `Catalog` models.
- Listings, searches and deliveries only read.
