----------------------------- MODULE StorageTxn -----------------------------
(***************************************************************************)
(* Storage and item mutations as PostgreSQL runs them: one READ COMMITTED  *)
(* transaction per request, of several statements, under row locks and the *)
(* per-tree advisory locks.  storage/storage-service.ts with               *)
(* storage-repository.ts; the placement part of catalog/item-service.ts;   *)
(* and the search projection of infrastructure/transaction-ports.ts.       *)
(*                                                                         *)
(* A statement begins with the locks it needs, computed from the snapshot  *)
(* it starts on (`need`), takes them one by one (Acquire), and ends in the *)
(* same step in which the next statement begins: what it reads by then is  *)
(* locked, and what it writes is seen by nobody else before the commit.    *)
(* Writes collect in the transaction's overlay and reach `db` at Commit.   *)
(***************************************************************************)
EXTENDS Naturals, Sequences, FiniteSets, SequencesExt

CONSTANTS
  Node,        \* storage node ids: numbers, for lock statements order by id
  Item,        \* items
  Tag,         \* normalized tag names
  Txn,         \* transactions, each serving one request
  NoNode,      \* no node: the parent of a root, the place of a loose item
  Scenarios    \* how it may start: the rows of the nodes, the node each
               \* item lies in, and the requests clients may send

ASSUME NodeAssumption == Node \subseteq Nat /\ NoNode \notin Node
ASSUME TagAssumption == IsFiniteSet(Tag)

VARIABLES
  db,   \* the committed tables: db.node, db.item and db.search
  tx,   \* tx[t]: transaction t
  asks, \* the requests clients may send (fixed at the start)
  strayed  \* history: the items whose place or projection was last written
           \* by a transaction without the lock of the tree they lie in

vars == <<db, tx, asks, strayed>>

-----------------------------------------------------------------------------
(* Rows.  A title is the number of renames it has seen; a projected path   *)
(* is the sequence of <<node, title>> pairs string_agg joins.              *)
NodeRow == [exists : BOOLEAN, parent : Node \cup {NoNode}, path : Seq(Node),
            root : Node \cup {NoNode}, title : Nat, private : BOOLEAN, archived : BOOLEAN,
            version : Nat]

Absent == [exists |-> FALSE, parent |-> NoNode, path |-> <<>>, root |-> NoNode,
           title |-> 0, private |-> FALSE, archived |-> FALSE, version |-> 0]

(* What clients may ask for.  An update of an item may name its place, and *)
(* the tags it shall have, each once; `moving` is metadata.operation.      *)
TagLists == {names \in Seq(Tag) : \A j, k \in DOMAIN names : names[j] = names[k] => j = k}

Change == {"rename", "recode", "hide", "show", "archive"}

Request ==
  [op : {"create"}, node : Node, to : Node \cup {NoNode}, private : BOOLEAN, privileged : BOOLEAN]
  \cup [op : {"update"}, node : Node, change : Change, privileged : BOOLEAN]
  \cup [op : {"move"}, node : Node, to : Node, privileged : BOOLEAN]
  \cup [op : {"place"}, item : Item, to : Node \cup {NoNode}, moving : BOOLEAN,
        tags : TagLists, privileged : BOOLEAN]
  \cup [op : {"edit"}, item : Item, tags : TagLists, privileged : BOOLEAN]

(* The rows are those of a forest, as creations and moves leave it: a path *)
(* leads from the root to the node, and along it each node has the part of *)
(* the path that leads to it.                                              *)
Forest(nodes) ==
  \A n \in Node :
    LET row  == nodes[n]
        here == Len(row.path)
    IN  IF ~row.exists THEN row = Absent
        ELSE /\ here > 0 /\ row.path[here] = n /\ row.root = row.path[1]
             /\ row.parent = IF here = 1 THEN NoNode ELSE row.path[here - 1]
             /\ \A k \in 1..here : LET a == nodes[row.path[k]]
                                 IN  a.exists /\ a.path = SubSeq(row.path, 1, k)

ASSUME ScenarioAssumption ==
  \A s \in Scenarios :
    /\ s.nodes \in [Node -> NodeRow] /\ Forest(s.nodes)
    /\ s.places \in [Item -> Node \cup {NoNode}]
    /\ \A i \in Item : s.places[i] = NoNode \/ s.nodes[s.places[i]].exists
    /\ s.requests \subseteq Request

Loose == [text |-> <<>>, visibility |-> "authenticated"]

(* What resolveDestination and syncStorageSubtree compute for an item (of  *)
(* visibility `authenticated`) lying in n: the breadcrumb, and the most    *)
(* restrictive visibility on the way, `unlisted` below an archived node.   *)
Projection(nodes, n) ==
  LET path == nodes[n].path IN
  [text |-> [k \in DOMAIN path |-> <<path[k], nodes[path[k]].title>>],
   visibility |-> IF \E a \in Range(path) : nodes[a].archived THEN "unlisted"
                  ELSE IF \E a \in Range(path) : nodes[a].private THEN "private"
                  ELSE "authenticated"]

Projected(nodes, n) == IF n = NoNode THEN Loose ELSE Projection(nodes, n)

Subtree(nodes, s) ==
  {d \in Node : nodes[d].exists /\ IsPrefix(nodes[s].path, nodes[d].path)}

(* findAccessibleByPublicId.                                               *)
Accessible(nodes, n, privileged) ==
  /\ nodes[n].exists
  /\ \A a \in Range(nodes[n].path) :
       ~nodes[a].archived /\ (privileged \/ ~nodes[a].private)

(* Rows written over a table.                                              *)
Only(id, r) == [x \in {id} |-> r]

Over(f, g) == [x \in DOMAIN f \cup DOMAIN g |-> IF x \in DOMAIN f THEN f[x] ELSE g[x]]

(* What a transaction reads: the committed rows under its own writes.      *)
Nodes(t) == Over(tx[t].node, db.node)
Items(t) == Over(tx[t].item, db.item)

-----------------------------------------------------------------------------
(* Locks: row locks on storage_nodes, items, tags and item_search, and the *)
(* advisory lock of a tree root.  `for update` conflicts with everything,  *)
(* an update of no key column with all but a foreign key's key share.      *)
NodeLock(n, mode) == [on |-> "node", id |-> n, mode |-> mode]
RootLock(r)       == [on |-> "root", id |-> r, mode |-> "update"]
ItemLock(i)       == [on |-> "item", id |-> i, mode |-> "no key update"]
TagLock(a)        == [on |-> "tag", id |-> a, mode |-> "no key update"]
SearchLock(i)     == [on |-> "search", id |-> i, mode |-> "no key update"]

(* The key share a foreign key takes on the node it references.            *)
References(S) == {NodeLock(n, "key share") : n \in S \ {NoNode}}

Conflict(l, m) ==
  /\ l.on = m.on /\ l.id = m.id
  /\ \/ "update" \in {l.mode, m.mode}
     \/ l.mode = "no key update" /\ m.mode = "no key update"

Holders(t, l) == {u \in Txn \ {t} : \E m \in tx[u].held : Conflict(l, m)}

(* The locks a statement may ask for next: lockMoveNodes and lockRoots     *)
(* take theirs in id order, other statements as the scan meets the rows.   *)
Next1(t) ==
  {l \in tx[t].need : l.mode = "update" => \A m \in tx[t].need : l.id <= m.id}

Acquire(t) ==
  \E l \in Next1(t) :
    /\ Holders(t, l) = {}
    /\ tx' = [tx EXCEPT ![t].need = @ \ {l}, ![t].held = @ \cup {l}]
    /\ UNCHANGED <<db, strayed>>

-----------------------------------------------------------------------------
Fresh == [pc |-> "idle", req |-> <<>>, version |-> 0, need |-> {}, held |-> {},
          rows |-> {}, sync |-> <<>>, node |-> <<>>, item |-> <<>>, search |-> <<>>]

Init ==
  \E s \in Scenarios :
    /\ db = [node   |-> s.nodes,
             item   |-> [i \in Item |-> [node |-> s.places[i], version |-> 1]],
             search |-> [i \in Item |-> Projected(s.nodes, s.places[i])]]
    /\ asks = s.requests
  /\ tx = [t \in Txn |-> Fresh]
  /\ strayed = {}

At(t, pc) == tx[t].pc = pc /\ tx[t].need = {}

(* Ends the current statement of t and begins the next: `x` is t's record  *)
(* with what it wrote or saved, `need` the locks the next statement takes. *)
Proceed(t, x, pc, need) ==
  /\ tx' = [tx EXCEPT ![t] = [x EXCEPT !.pc = pc, !.need = need]]
  /\ UNCHANGED <<db, strayed>>

(* The id of a node to be created is a new uuid (newId).                   *)
Unused(n) ==
  /\ ~db.node[n].exists
  /\ \A u \in Txn :
       tx[u].pc \notin {"idle", "done"} =>
         ~(tx[u].req.op = "create" /\ tx[u].req.node = n)

(* A request arrives with the version its client loaded.                   *)
Begin(t, r) ==
  /\ At(t, "idle")
  /\ r.op = "create" => Unused(r.node)
  /\ LET loaded == IF r.op \in {"place", "edit"} THEN db.item[r.item].version
                   ELSE IF r.op = "create" THEN 0 ELSE db.node[r.node].version
     IN  Proceed(t, [Fresh EXCEPT !.req = r, !.version = loaded], r.op, {})

(* Everything that ends a transaction without effect: a check that throws, *)
(* the deadlock detector, a timeout, a lost connection.                    *)
Abort(t) ==
  /\ tx[t].pc \notin {"idle", "done"}
  /\ tx' = [tx EXCEPT ![t] = [Fresh EXCEPT !.pc = "done"]]
  /\ UNCHANGED <<db, strayed>>

(* As t sees it, i is t's to write: t holds the lock of the tree i lies in *)
(* or, when i lies in none, the lock of its row.                           *)
Secured(t, i) ==
  LET n == Items(t)[i].node IN
  IF n = NoNode THEN ItemLock(i) \in tx[t].held ELSE RootLock(Nodes(t)[n].root) \in tx[t].held

Commit(t) ==
  /\ At(t, "commit")
  /\ db' = [node |-> Nodes(t), item |-> Items(t), search |-> Over(tx[t].search, db.search)]
  /\ tx' = [tx EXCEPT ![t] = [Fresh EXCEPT !.pc = "done"]]
  /\ strayed' = (strayed \ DOMAIN tx[t].item)
                  \cup {i \in DOMAIN tx[t].search : ~Secured(t, i)}

-----------------------------------------------------------------------------
(* StorageRepository.createCore.  The deferred foreign key on tree_root_id *)
(* is checked at the commit.                                               *)
CreateLocksParent(t) ==
  LET r == tx[t].req IN
  /\ At(t, "create")
  /\ IF r.to = NoNode
     THEN Proceed(t, tx[t], "create rooted", {RootLock(r.node)})
     ELSE /\ db.node[r.to].exists
          /\ Proceed(t, tx[t], "create locked", {NodeLock(r.to, "update")})

CreateLocksRoot(t) ==
  LET parent == db.node[tx[t].req.to] IN
  /\ At(t, "create locked")
  /\ ~parent.archived
  /\ Proceed(t, tx[t], "create rooted", {RootLock(parent.root)})

CreateInserts(t) ==
  LET r      == tx[t].req
      parent == db.node[r.to]
      under  == r.to # NoNode
      row    == [Absent EXCEPT !.exists = TRUE, !.parent = r.to, !.version = 1,
                   !.private = r.private,
                   !.path = IF under THEN Append(parent.path, r.node) ELSE <<r.node>>,
                   !.root = IF under THEN parent.root ELSE r.node]
  IN
  /\ At(t, "create rooted")
  /\ under => Accessible(db.node, r.to, r.privileged)
  /\ Proceed(t, [tx[t] EXCEPT !.node = Only(r.node, row)], "commit",
             IF under THEN References({row.root}) ELSE {})

-----------------------------------------------------------------------------
(* Seeded faults of updates: a sync of the node without its subtree, and   *)
(* one that locks the items it lists as well (against the stale ones).     *)
AffectedHere(t, nodes, n) ==
  [i \in {i \in Item : Items(t)[i].node = n} |-> Projection(nodes, n)]

SyncLocksItems(sync) == UNION {{SearchLock(i), ItemLock(i)} : i \in DOMAIN sync}

(* syncStorageSubtree: what its common table expressions find in the       *)
(* statement's snapshot is written to each projection row once that row's  *)
(* lock is free, over whatever was committed there meanwhile.              *)
Affected(t, nodes, n) ==
  [i \in {i \in Item : Items(t)[i].node \in Subtree(nodes, n)} |->
     Projection(nodes, Items(t)[i].node)]

SyncLocks(sync) == {SearchLock(i) : i \in DOMAIN sync}

(* StorageRepository.updateCore, for one changed column per request, and   *)
(* the sync StorageService.update runs for each of them but `recode`.      *)
UpdateLocksNode(t) ==
  /\ At(t, "update")
  /\ db.node[tx[t].req.node].exists
  /\ Proceed(t, tx[t], "update locked", {NodeLock(tx[t].req.node, "update")})

UpdateLocksRoot(t) ==
  LET before == db.node[tx[t].req.node] IN
  /\ At(t, "update locked")
  /\ ~before.archived
  /\ before.version = tx[t].version
  /\ Proceed(t, tx[t], "update rooted", {RootLock(before.root)})

UpdateWrites(t) ==
  LET r     == tx[t].req
      row   == db.node[r.node]
      after == [row EXCEPT !.version = @ + 1,
                  !.title    = IF r.change = "rename" THEN @ + 1 ELSE @,
                  !.private  = IF r.change \in {"hide", "show"} THEN r.change = "hide" ELSE @,
                  !.archived = (r.change = "archive")]
      sync  == Affected(t, Over(Only(r.node, after), db.node), r.node)
  IN
  /\ At(t, "update rooted")
  /\ Accessible(db.node, r.node, r.privileged)
  /\ row.version = tx[t].version
  /\ IF r.change = "recode"
     THEN Proceed(t, [tx[t] EXCEPT !.node = Only(r.node, after)], "commit", {})
     ELSE Proceed(t, [tx[t] EXCEPT !.node = Only(r.node, after), !.sync = sync],
                  "synced", SyncLocks(sync))

(* The end of the sync, of an update or of a move: a changed tree_root_id  *)
(* has its deferred foreign key checked at the commit.                     *)
SyncWrites(t) ==
  LET changed == {d \in DOMAIN tx[t].node : tx[t].node[d].root # db.node[d].root} IN
  /\ At(t, "synced")
  /\ Proceed(t, [tx[t] EXCEPT !.search = tx[t].sync], "commit",
             References({tx[t].node[d].root : d \in changed}))

-----------------------------------------------------------------------------
(* StorageService.move: lockMoveNodes, lockRoots, the checks, moveSubtree, *)
(* the movement row and the sync.                                          *)
MoveLocksNodes(t) ==
  LET r == tx[t].req IN
  /\ At(t, "move")
  /\ db.node[r.node].exists /\ db.node[r.to].exists
  /\ Proceed(t, tx[t], "move locked",
       {NodeLock(n, "update") : n \in {r.node, db.node[r.node].parent, r.to} \ {NoNode}})

MoveLocksRoots(t) ==
  LET r      == tx[t].req
      source == db.node[r.node]
      target == db.node[r.to]
  IN
  /\ At(t, "move locked")
  /\ ~source.archived /\ ~target.archived
  /\ source.version = tx[t].version
  /\ Proceed(t, tx[t], "move rooted", {RootLock(source.root), RootLock(target.root)})

(* Seeded faults of moves: the test for a cycle against the node alone, a  *)
(* subtree that keeps the root of the tree it left, and one whose rows     *)
(* below the moved node keep their versions.                               *)
TargetIsSource(source, target) == source.path = target.path

MovedKeepsRoot(nodes, s, to, d) ==
  LET cut == Len(nodes[s].path) IN
  [nodes[d] EXCEPT !.parent = IF d = s THEN to ELSE @,
                   !.path   = nodes[to].path \o <<s>> \o SubSeq(@, cut + 1, Len(@)),
                   !.version = @ + 1]

MovedKeepsVersions(nodes, s, to, d) ==
  LET cut == Len(nodes[s].path) IN
  [nodes[d] EXCEPT !.parent = IF d = s THEN to ELSE @,
                   !.path   = nodes[to].path \o <<s>> \o SubSeq(@, cut + 1, Len(@)),
                   !.root   = nodes[to].root,
                   !.version = IF d = s THEN @ + 1 ELSE @]

(* targetIsInSubtree: target.path <@ source.path.                          *)
TargetIsInSubtree(source, target) == IsPrefix(source.path, target.path)

MoveChecks(t) ==
  LET r      == tx[t].req
      source == db.node[r.node]
      target == db.node[r.to]
      rows   == Subtree(db.node, r.node)
  IN
  /\ At(t, "move rooted")
  /\ Accessible(db.node, r.node, r.privileged)
  /\ Accessible(db.node, r.to, r.privileged)
  /\ source.parent # r.to
  /\ ~TargetIsInSubtree(source, target)
  /\ Proceed(t, [tx[t] EXCEPT !.rows = rows], "move subtree",
             {NodeLock(d, "no key update") : d \in rows})

(* moveSubtree on the rows its snapshot found, in the versions it locked:  *)
(* the new path is the target's, the source, and what was below it.        *)
Moved(nodes, s, to, d) ==
  LET cut == Len(nodes[s].path) IN
  [nodes[d] EXCEPT !.parent = IF d = s THEN to ELSE @,
                   !.path   = nodes[to].path \o <<s>> \o SubSeq(@, cut + 1, Len(@)),
                   !.root   = nodes[to].root,
                   !.version = @ + 1]

MoveWrites(t) ==
  LET r    == tx[t].req
      rows == {d \in tx[t].rows : d \in Subtree(db.node, r.node)}
  IN
  /\ At(t, "move subtree")
  /\ Proceed(t, [tx[t] EXCEPT !.node = [d \in rows |-> Moved(db.node, r.node, r.to, d)]],
             "moved", References({db.node[r.node].parent, r.to}))

MoveSyncs(t) ==
  LET sync == Affected(t, Nodes(t), tx[t].req.node) IN
  /\ At(t, "moved")
  /\ Proceed(t, [tx[t] EXCEPT !.sync = sync], "synced", SyncLocks(sync))

-----------------------------------------------------------------------------
(* ItemService.update: `place` names the node the item shall lie in or,    *)
(* with NoNode, takes it out of storage; `edit` leaves it where it is.     *)
Destination(t) ==
  LET r == tx[t].req IN IF r.op = "place" THEN r.to ELSE NoNode

ItemReads(t) ==
  LET d == Destination(t) IN
  /\ At(t, "place") \/ At(t, "edit")
  /\ db.item[tx[t].req.item].version = tx[t].version
  /\ d # NoNode => db.node[d].exists /\ ~db.node[d].archived
  /\ Proceed(t, tx[t], "item resolved",
             IF d = NoNode THEN {} ELSE {RootLock(db.node[d].root)})

(* The second half of resolveDestination, and the start of the             *)
(* compare-and-swap of ItemRepository.updateCore.                          *)
ItemResolves(t) ==
  LET r == tx[t].req
      d == Destination(t)
  IN
  /\ At(t, "item resolved")
  /\ d # NoNode => Accessible(db.node, d, r.privileged)
  /\ r.op = "place" /\ r.moving => d # db.item[r.item].node
  /\ Proceed(t, tx[t], "item locked", {ItemLock(r.item)})

ItemWrites(t) ==
  LET r   == tx[t].req
      old == db.item[r.item]
      new == [node |-> IF r.op = "place" THEN r.to ELSE old.node,
              version |-> old.version + 1]
  IN
  /\ At(t, "item locked")
  /\ old.version = tx[t].version
  /\ Proceed(t, [tx[t] EXCEPT !.item = Only(r.item, new)], "item placed",
             IF new.node = old.node THEN {} ELSE References({new.node}))

(* replaceTags: an upsert of each tag in the order the request lists them. *)
(* (The rows of item_tags are under the lock of the item's row.)           *)
Untagged(t) ==
  LET tags == tx[t].req.tags IN {k \in DOMAIN tags : TagLock(tags[k]) \notin tx[t].held}

ItemTags(t) ==
  /\ At(t, "item placed")
  /\ \E k \in Untagged(t) :
       /\ \A j \in Untagged(t) : k <= j
       /\ Proceed(t, tx[t], "item placed", {TagLock(tx[t].req.tags[k])})

(* writeSync: resolveDestination again, by the node's id.                  *)
ItemRelocks(t) ==
  LET n == Items(t)[tx[t].req.item].node IN
  /\ At(t, "item placed") /\ Untagged(t) = {}
  /\ n # NoNode => ~db.node[n].archived
  /\ Proceed(t, tx[t], "item relocked",
             IF n = NoNode THEN {} ELSE {RootLock(db.node[n].root)})

ItemProjects(t) ==
  LET r == tx[t].req
      n == Items(t)[r.item].node
  IN
  /\ At(t, "item relocked")
  /\ n # NoNode => Accessible(db.node, n, r.privileged)
  /\ Proceed(t, [tx[t] EXCEPT !.sync = Only(r.item, Projected(db.node, n))],
             "item projected", {SearchLock(r.item)})

(* The upsert ends; the movement row of a changed place follows.           *)
ItemUpserts(t) ==
  LET i == tx[t].req.item
      places == {db.item[i].node, tx[t].item[i].node}
  IN
  /\ At(t, "item projected")
  /\ Proceed(t, [tx[t] EXCEPT !.search = tx[t].sync], "commit",
             IF Cardinality(places) = 1 THEN {} ELSE References(places))

-----------------------------------------------------------------------------
Step(t) ==
  \/ Acquire(t) \/ Commit(t) \/ Abort(t)
  \/ CreateLocksParent(t) \/ CreateLocksRoot(t) \/ CreateInserts(t)
  \/ UpdateLocksNode(t) \/ UpdateLocksRoot(t) \/ UpdateWrites(t) \/ SyncWrites(t)
  \/ MoveLocksNodes(t) \/ MoveLocksRoots(t) \/ MoveChecks(t) \/ MoveWrites(t) \/ MoveSyncs(t)
  \/ ItemReads(t) \/ ItemResolves(t) \/ ItemWrites(t) \/ ItemTags(t)
  \/ ItemRelocks(t) \/ ItemProjects(t) \/ ItemUpserts(t)

Next ==
  /\ \E t \in Txn : Step(t) \/ \E r \in asks : Begin(t, r)
  /\ UNCHANGED asks

Spec == Init /\ [][Next]_vars

-----------------------------------------------------------------------------
(* Under all these interleavings the tree behaves as if every operation    *)
(* were one step at its commit: StorageTree, with a path as the set of the *)
(* nodes on it.                                                            *)
Tree == INSTANCE StorageTree WITH
  node <- [n \in Node |->
    [exists   |-> db.node[n].exists,   parent  |-> db.node[n].parent,
     path     |-> Range(db.node[n].path), root |-> db.node[n].root,
     archived |-> db.node[n].archived, private |-> db.node[n].private]]

ImplementsTree == Tree!Spec

(* The committed path is, in order, the chain of parents from the root,    *)
(* and the root column is its head: what string_agg(... order by depth)    *)
(* and the lock of a tree rely on ("moveSubtree", "createCore").           *)
PathsFollowParents ==
  \A n \in Node : db.node[n].exists =>
    LET row == db.node[n]
        above == IF row.parent = NoNode THEN <<>> ELSE db.node[row.parent].path
    IN  row.path = Append(above, n) /\ row.root = Head(row.path)

(* No committed write is overwritten unseen: whatever a commit changes in  *)
(* a node or an item, it changes from the version then committed, although *)
(* moves write rows no client has loaded.                                  *)
NoLostUpdate ==
  [][/\ \A n \in Node : db'.node[n] # db.node[n] =>
          db'.node[n].version = db.node[n].version + 1
     /\ \A i \in Item : db'.item[i] # db.item[i] =>
          db'.item[i].version = db.item[i].version + 1]_vars

(* Every committed projection shows the item's place as the committed tree *)
(* has it: "no committed stale breadcrumb after node or Item moves"        *)
(* (IMPLEMENTATION-BLUEPRINT.md).  The code does not keep this when an     *)
(* item leaves its tree beside a change of a node above it.                *)
Shows(i) == db.search[i] = Projected(db.node, db.item[i].node)

ProjectionFresh == \A i \in Item : Shows(i)

(* What it does keep, whatever moves where: a breadcrumb or visibility is  *)
(* stale only if the item's place or projection was last written without   *)
(* the lock of the tree the item then lay in (of the item's row, when it   *)
(* lay in none).  No sync and no edit made under that lock goes wrong,     *)
(* and the next update of the item made under it repairs the projection.   *)
StaleOnlyFromStray == \A i \in Item \ strayed : Shows(i)

(* Updates of nodes and edits of items wait for each other in a circle for *)
(* two reasons only, although the scan of a sync meets its projection rows *)
(* in no order: the edits list their tags in orders no ranking of the tags *)
(* agrees with, or one of them is at the projection of an item that lies   *)
(* in a tree it has not locked.                                            *)
Waits(t, u) == \E l \in Next1(t) : u \in Holders(t, l)

Updating == {t \in Txn : tx[t].need # {} /\ tx[t].req.op \in {"update", "edit"}}

TagsRanked(S) ==
  \E rank \in [Tag -> 1..Cardinality(Tag)] :
    \A t \in S : tx[t].req.op = "edit" =>
      \A j, k \in DOMAIN tx[t].req.tags :
        j < k => rank[tx[t].req.tags[j]] < rank[tx[t].req.tags[k]]

AllSecured(S) ==
  \A t \in S : \A i \in Item : SearchLock(i) \in tx[t].need \cup tx[t].held => Secured(t, i)

CirclesHaveCause ==
  \A S \in (SUBSET Updating) \ {{}} :
    (\A t \in S : \E u \in S : Waits(t, u)) => ~TagsRanked(S) \/ ~AllSecured(S)
=============================================================================
