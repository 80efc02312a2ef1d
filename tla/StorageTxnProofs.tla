-------------------------- MODULE StorageTxnProofs --------------------------
(***************************************************************************)
(* Proofs about StorageTxn for every forest of nodes, every set of items   *)
(* and any number of concurrent transactions: that no committed write is   *)
(* overwritten unseen, that the committed paths follow the parents, that   *)
(* the committed rows take the steps of StorageTree, why updates may wait  *)
(* for each other in a circle, and how a projection may become stale.      *)
(*                                                                         *)
(* All rest on what a transaction may count on between two of its          *)
(* statements: a row it has locked is committed by nobody else, and while  *)
(* it holds the lock of a tree nobody else brings nodes into that tree,    *)
(* moves them about in it or takes them out of it.                         *)
(*                                                                         *)
(* The second part adds the order in which statements take their locks,    *)
(* and what a transaction knows of an item whose tree it has locked.       *)
(***************************************************************************)
EXTENDS StorageTxn, TLAPS, SequenceTheorems, FiniteSetTheorems, NaturalsInduction,
        WellFoundedInduction

-----------------------------------------------------------------------------
(* Types.                                                                  *)
Partial(S, T) == UNION {[D -> T] : D \in SUBSET S}

ItemRow == [node : Node \cup {NoNode}, version : Nat]

Shown == [text : Seq(Node \X Nat), visibility : {"authenticated", "private", "unlisted"}]

Lock == [on : {"node", "root", "item", "tag", "search"},
         id : Node \cup {NoNode} \cup Item \cup Tag,
         mode : {"update", "no key update", "key share"}]

Phase == {"idle", "done", "commit", "synced",
          "create", "create locked", "create rooted",
          "update", "update locked", "update rooted",
          "move", "move locked", "move rooted", "move subtree", "moved",
          "place", "edit", "item resolved", "item locked", "item placed", "item relocked",
          "item projected"}

Transaction ==
  [pc : Phase, req : Request \cup {<<>>}, version : Nat, need : SUBSET Lock, held : SUBSET Lock,
   rows : SUBSET Node, sync : Partial(Item, Shown), node : Partial(Node, NodeRow),
   item : Partial(Item, ItemRow), search : Partial(Item, Shown)]

Busy(t) == tx[t].pc \notin {"idle", "done"}

TypeInv ==
  /\ db \in [node : [Node -> NodeRow], item : [Item -> ItemRow], search : [Item -> Shown]]
  /\ tx \in [Txn -> Transaction]
  /\ asks \subseteq Request
  /\ \A t \in Txn : Busy(t) => tx[t].req \in Request

-----------------------------------------------------------------------------
(* Where a transaction x stands when f are the committed nodes and i the   *)
(* committed items: the phases its request goes through, the rows it has   *)
(* found and locked on the way, what it knows of them since, and what it   *)
(* is going to write.                                                      *)
Claims(x) == x.need \cup x.held

NewRow(f, r) ==
  [Absent EXCEPT !.exists = TRUE, !.parent = r.to, !.version = 1, !.private = r.private,
     !.path = IF r.to # NoNode THEN Append(f[r.to].path, r.node) ELSE <<r.node>>,
     !.root = IF r.to # NoNode THEN f[r.to].root ELSE r.node]

CreateStage(f, x) ==
  LET r     == x.req
      under == r.to # NoNode
      tree  == IF under THEN f[r.to].root ELSE r.node
  IN
  /\ x.item = <<>>
  /\ x.pc \in {"create", "create locked", "create rooted", "commit"}
  /\ x.pc = "create locked" => under
  /\ (x.pc # "create" /\ under) => f[r.to].exists /\ NodeLock(r.to, "update") \in Claims(x)
  /\ x.pc \in {"create rooted", "commit"} =>
       /\ under => NodeLock(r.to, "update") \in x.held
       /\ RootLock(tree) \in Claims(x)
  /\ x.pc = "commit" =>
       /\ RootLock(tree) \in x.held
       /\ under => Accessible(f, r.to, r.privileged)
       /\ x.node = Only(r.node, NewRow(f, r))

(* What an update of one column may make of a row.                         *)
Updated(row, after) ==
  \E title \in Nat, private \in BOOLEAN, archived \in BOOLEAN :
    after = [row EXCEPT !.version = @ + 1, !.title = title, !.private = private,
                        !.archived = archived]

UpdateStage(f, x) ==
  LET r == x.req IN
  /\ x.item = <<>>
  /\ x.pc \in {"update", "update locked", "update rooted", "synced", "commit"}
  /\ x.pc # "update" => f[r.node].exists /\ NodeLock(r.node, "update") \in Claims(x)
  /\ x.pc \in {"update rooted", "synced", "commit"} =>
       NodeLock(r.node, "update") \in x.held /\ RootLock(f[r.node].root) \in Claims(x)
  /\ x.pc \in {"synced", "commit"} =>
       /\ RootLock(f[r.node].root) \in x.held
       /\ Accessible(f, r.node, r.privileged)
       /\ \E after \in NodeRow :
            Updated(f[r.node], after) /\ x.node = Only(r.node, after)

MoveStage(f, x) ==
  LET r == x.req
      rows == Subtree(f, r.node)
  IN
  /\ x.item = <<>>
  /\ x.pc \in {"move", "move locked", "move rooted", "move subtree", "moved", "synced",
               "commit"}
  /\ x.pc # "move" =>
       /\ f[r.node].exists /\ f[r.to].exists
       /\ NodeLock(r.node, "update") \in Claims(x) /\ NodeLock(r.to, "update") \in Claims(x)
  /\ x.pc \notin {"move", "move locked"} =>
       /\ NodeLock(r.node, "update") \in x.held /\ NodeLock(r.to, "update") \in x.held
       /\ RootLock(f[r.node].root) \in Claims(x) /\ RootLock(f[r.to].root) \in Claims(x)
  /\ x.pc \in {"move subtree", "moved", "synced", "commit"} =>
       /\ RootLock(f[r.node].root) \in x.held /\ RootLock(f[r.to].root) \in x.held
       /\ Accessible(f, r.node, r.privileged) /\ Accessible(f, r.to, r.privileged)
       /\ f[r.node].parent # r.to
       /\ r.to \notin rows
       /\ x.rows = rows
       /\ \A d \in rows : NodeLock(d, "no key update") \in Claims(x)
  /\ x.pc \in {"moved", "synced", "commit"} =>
       /\ \A d \in rows : NodeLock(d, "no key update") \in x.held
       /\ x.node = [d \in rows |-> Moved(f, r.node, r.to, d)]

(* Where the item of a placement or an edit will lie.                      *)
NewPlace(i, r) == IF r.op = "place" THEN r.to ELSE i[r.item].node

ItemStage(i, x) ==
  LET r == x.req IN
  /\ x.node = <<>>
  /\ x.pc \in {"place", "edit", "item resolved", "item locked", "item placed",
               "item relocked", "item projected", "commit"}
  /\ x.pc = "item locked" => ItemLock(r.item) \in Claims(x)
  /\ x.pc \in {"item placed", "item relocked", "item projected", "commit"} =>
       /\ ItemLock(r.item) \in x.held
       /\ \E new \in ItemRow :
            /\ new.version = i[r.item].version + 1 /\ new.node = NewPlace(i, r)
            /\ x.item = Only(r.item, new)

Stage(f, i, x) ==
  CASE x.req.op = "create" -> CreateStage(f, x)
    [] x.req.op = "update" -> UpdateStage(f, x)
    [] x.req.op = "move"   -> MoveStage(f, x)
    [] OTHER -> ItemStage(i, x)

(* No two transactions hold conflicting locks.                             *)
LockInv ==
  \A t, u \in Txn : t # u => \A l \in tx[t].held, m \in tx[u].held : ~Conflict(l, m)

(* A node about to be created is nobody else's.                            *)
Creating(t) == Busy(t) /\ tx[t].req.op = "create"

UnusedInv ==
  \A t \in Txn : Creating(t) =>
    /\ ~db.node[tx[t].req.node].exists
    /\ \A u \in Txn \ {t} : Creating(u) => tx[u].req.node # tx[t].req.node

StageInv == \A t \in Txn : Busy(t) => Stage(db.node, db.item, tx[t])

Inv == TypeInv /\ Forest(db.node) /\ LockInv /\ UnusedInv /\ StageInv

-----------------------------------------------------------------------------
(* Tables and parts of tables.                                             *)
LEMMA PartialEmpty ==
  ASSUME NEW S, NEW T
  PROVE  <<>> \in Partial(S, T) /\ DOMAIN <<>> = {}
  <1>1. <<>> \in [{} -> T] /\ {} \in SUBSET S
    OBVIOUS
  <1> QED BY <1>1 DEF Partial

LEMMA PartialFunction ==
  ASSUME NEW S, NEW T, NEW D \in SUBSET S, NEW f \in [D -> T]
  PROVE  f \in Partial(S, T)
  BY DEF Partial

LEMMA OverTable ==
  ASSUME NEW S, NEW T, NEW f \in Partial(S, T), NEW g \in [S -> T]
  PROVE  /\ Over(f, g) \in [S -> T]
         /\ DOMAIN f \subseteq S
         /\ \A x \in S : Over(f, g)[x] = IF x \in DOMAIN f THEN f[x] ELSE g[x]
         /\ \A x \in DOMAIN f : f[x] \in T
  <1>1. PICK D \in SUBSET S : f \in [D -> T]
    BY DEF Partial
  <1>2. DOMAIN f = D /\ \A x \in D : f[x] \in T
    BY <1>1
  <1> QED BY <1>2 DEF Over

LEMMA NothingOver ==
  ASSUME NEW S, NEW T, NEW g \in [S -> T]
  PROVE  Over(<<>>, g) = g
  <1>1. DOMAIN <<>> = {}
    OBVIOUS
  <1> QED BY <1>1 DEF Over

-----------------------------------------------------------------------------
(* Records of a transaction.                                               *)
LEMMA FreshType ==
  /\ Fresh \in Transaction /\ Fresh.node = <<>> /\ Fresh.item = <<>> /\ Fresh.held = {}
  /\ \A r \in Request, v \in Nat :
       LET y == [Fresh EXCEPT !.req = r, !.version = v] IN
       /\ y \in Transaction /\ y.req = r /\ y.version = v /\ y.node = <<>> /\ y.item = <<>>
       /\ y.held = {}
  /\ LET z == [Fresh EXCEPT !.pc = "done"] IN
       z \in Transaction /\ z.pc = "done" /\ z.node = <<>> /\ z.item = <<>> /\ z.held = {}
  <1>1. /\ <<>> \in Partial(Item, Shown) /\ <<>> \in Partial(Node, NodeRow)
        /\ <<>> \in Partial(Item, ItemRow)
    BY PartialEmpty
  <1> DEFINE PS == Partial(Item, Shown)
             PN == Partial(Node, NodeRow)
             PI == Partial(Item, ItemRow)
  <1>2. <<>> \in PS /\ <<>> \in PN /\ <<>> \in PI
    BY <1>1
  <1>3. Transaction =
          [pc : Phase, req : Request \cup {<<>>}, version : Nat, need : SUBSET Lock,
           held : SUBSET Lock, rows : SUBSET Node, sync : PS, node : PN, item : PI, search : PS]
    BY DEF Transaction
  <1> HIDE DEF PS, PN, PI
  <1> QED BY <1>2, <1>3 DEF Fresh, Phase
-----------------------------------------------------------------------------
(* Forests.                                                                *)
LEMMA PathFacts ==
  ASSUME NEW f \in [Node -> NodeRow], Forest(f), NEW n \in Node, f[n].exists
  PROVE  /\ f[n].path \in Seq(Node) /\ Len(f[n].path) \in Nat /\ Len(f[n].path) > 0
         /\ f[n].path[Len(f[n].path)] = n
         /\ f[n].root = f[n].path[1]
         /\ f[n].parent = IF Len(f[n].path) = 1 THEN NoNode
                          ELSE f[n].path[Len(f[n].path) - 1]
         /\ \A k \in 1..Len(f[n].path) :
              LET a == f[n].path[k] IN
              /\ a \in Node /\ f[a].exists
              /\ f[a].path = SubSeq(f[n].path, 1, k)
              /\ Len(f[a].path) = k
              /\ f[a].root = f[n].root
         /\ \A i, j \in 1..Len(f[n].path) : f[n].path[i] = f[n].path[j] => i = j
  <1> DEFINE p == f[n].path
             here == Len(p)
  <1>1. p \in Seq(Node)
    BY DEF NodeRow
  <1>2. here \in Nat
    BY <1>1
  <1>3. /\ here > 0 /\ p[here] = n /\ f[n].root = p[1]
        /\ f[n].parent = IF here = 1 THEN NoNode ELSE p[here - 1]
        /\ \A k \in 1..here : f[p[k]].exists /\ f[p[k]].path = SubSeq(p, 1, k)
    BY Zenon DEF Forest
  <1>4. ASSUME NEW k \in 1..here
        PROVE  /\ p[k] \in Node /\ f[p[k]].exists /\ f[p[k]].path = SubSeq(p, 1, k)
               /\ Len(f[p[k]].path) = k /\ f[p[k]].root = f[n].root
    <2>1. p[k] \in Node
      BY <1>1, <1>2
    <2>2. f[p[k]].exists /\ f[p[k]].path = SubSeq(p, 1, k)
      BY <1>3
    <2>3. Len(SubSeq(p, 1, k)) = k /\ SubSeq(p, 1, k)[1] = p[1]
      BY <1>1, <1>2
    <2>4. f[p[k]].root = f[p[k]].path[1]
      BY <2>1, <2>2, Zenon DEF Forest
    <2> QED BY <1>3, <2>1, <2>2, <2>3, <2>4
  <1>5. ASSUME NEW i \in 1..here, NEW j \in 1..here, p[i] = p[j]
        PROVE  i = j
    BY <1>4, <1>5
  <1> QED BY <1>1, <1>2, <1>3, <1>4, <1>5, Zenon

(* The subtree of s holds the nodes with s on their path.                  *)
LEMMA SubtreeFacts ==
  ASSUME NEW f \in [Node -> NodeRow], Forest(f), NEW s \in Node, f[s].exists
  PROVE  /\ s \in Subtree(f, s)
         /\ \A d \in Node : d \in Subtree(f, s) <=>
              f[d].exists /\ \E k \in 1..Len(f[d].path) : f[d].path[k] = s
         /\ \A d \in Subtree(f, s) :
              /\ d \in Node /\ f[d].exists /\ f[d].root = f[s].root
              /\ Len(f[s].path) <= Len(f[d].path)
              /\ f[d].path[Len(f[s].path)] = s
              /\ \A k \in 1..Len(f[s].path) : f[d].path[k] = f[s].path[k]
  <1> DEFINE p == f[s].path
             cut == Len(p)
  <1>1. p \in Seq(Node) /\ cut \in Nat /\ cut > 0 /\ p[cut] = s
    BY PathFacts
  <1>2. ASSUME NEW d \in Subtree(f, s)
        PROVE  /\ d \in Node /\ f[d].exists /\ f[d].root = f[s].root
               /\ cut <= Len(f[d].path) /\ cut \in 1..Len(f[d].path)
               /\ f[d].path[cut] = s
               /\ \A k \in 1..cut : f[d].path[k] = p[k]
    <2>1. /\ d \in Node /\ f[d].exists /\ cut <= Len(f[d].path)
          /\ SubSeq(p, 1, cut) = SubSeq(f[d].path, 1, cut)
      BY DEF Subtree, IsPrefix
    <2>2. f[d].path \in Seq(Node) /\ Len(f[d].path) \in Nat
      BY <2>1, PathFacts
    <2>3. \A k \in 1..cut : SubSeq(p, 1, cut)[k] = p[k]
      BY <1>1
    <2>4. \A k \in 1..cut : SubSeq(f[d].path, 1, cut)[k] = f[d].path[k]
      BY <1>1, <2>1, <2>2
    <2>5. \A k \in 1..cut : f[d].path[k] = p[k]
      BY <2>1, <2>3, <2>4
    <2>6. f[d].path[cut] = s /\ cut \in 1..Len(f[d].path)
      BY <1>1, <2>1, <2>2, <2>5
    <2>7. f[s].root = f[d].root
      BY <2>1, <2>6, PathFacts
    <2> QED BY <2>1, <2>5, <2>6, <2>7
  <1>3. ASSUME NEW d \in Node, f[d].exists, NEW k \in 1..Len(f[d].path), f[d].path[k] = s
        PROVE  d \in Subtree(f, s)
    <2>1. f[d].path \in Seq(Node) /\ Len(f[d].path) \in Nat
      BY <1>3, PathFacts
    <2>2. p = SubSeq(f[d].path, 1, k) /\ cut = k
      BY <1>3, PathFacts
    <2>3. SubSeq(p, 1, cut) = p
      BY <1>1
    <2> QED BY <1>1, <1>3, <2>1, <2>2, <2>3 DEF Subtree, IsPrefix
  <1>4. s \in Subtree(f, s)
    BY <1>1, <1>3
  <1> QED BY <1>2, <1>3, <1>4

(* Every row of the trees whose locks are in `held`, and every row locked  *)
(* for update, is the same in g as in f, and no row is lost.               *)
Undisturbed(f, g, held) ==
  /\ \A n \in Node : f[n].exists => g[n].exists
  /\ \A n \in Node : f[n].exists /\ (NodeLock(n, "update") \in held \/ RootLock(f[n].root) \in held)
       => g[n] = f[n]
  /\ \A n \in Node : g[n].exists /\ RootLock(g[n].root) \in held => g[n] = f[n]

LEMMA TreeUndisturbed ==
  ASSUME NEW f \in [Node -> NodeRow], Forest(f), NEW g \in [Node -> NodeRow], Forest(g),
         NEW held, Undisturbed(f, g, held),
         NEW n \in Node, f[n].exists, RootLock(f[n].root) \in held
  PROVE  /\ g[n] = f[n]
         /\ \A k \in 1..Len(f[n].path) : g[f[n].path[k]] = f[f[n].path[k]]
         /\ \A p \in BOOLEAN : Accessible(f, n, p) => Accessible(g, n, p)
         /\ Subtree(g, n) = Subtree(f, n)
         /\ \A d \in Subtree(f, n) : g[d] = f[d]
  <1>1. g[n] = f[n]
    BY Zenon DEF Undisturbed
  <1>2. ASSUME NEW k \in 1..Len(f[n].path)
        PROVE  g[f[n].path[k]] = f[f[n].path[k]]
    <2>1. LET a == f[n].path[k] IN a \in Node /\ f[a].exists /\ f[a].root = f[n].root
      BY PathFacts
    <2> QED BY <2>1, Zenon DEF Undisturbed
  <1>3. ASSUME NEW p \in BOOLEAN, Accessible(f, n, p)
        PROVE  Accessible(g, n, p)
    <2>1. \A a \in Range(f[n].path) : g[a] = f[a]
      <3>1. f[n].path \in Seq(Node)
        BY PathFacts
      <3>2. DOMAIN f[n].path = 1..Len(f[n].path)
        BY <3>1
      <3> QED BY <1>2, <3>2, Zenon DEF Range
    <2> QED BY <1>1, <1>3, <2>1, Zenon DEF Accessible
  <1>4. ASSUME NEW d \in Subtree(f, n)
        PROVE  g[d] = f[d]
    <2>1. d \in Node /\ f[d].exists /\ f[d].root = f[n].root
      BY SubtreeFacts
    <2> QED BY <2>1, Zenon DEF Undisturbed
  <1>5. ASSUME NEW d \in Subtree(g, n)
        PROVE  g[d] = f[d]
    <2>1. d \in Node /\ g[d].exists /\ g[d].root = g[n].root
      BY <1>1, SubtreeFacts
    <2> QED BY <1>1, <2>1, Zenon DEF Undisturbed
  <1>6. Subtree(g, n) = Subtree(f, n)
    BY <1>1, <1>4, <1>5 DEF Subtree
  <1> QED BY <1>1, <1>2, <1>3, <1>4, <1>6, Zenon
(* What a transaction knows survives whatever leaves its locked rows and   *)
(* trees alone.                                                            *)
ItemsUndisturbed(i, j, held) == \A n \in Item : ItemLock(n) \in held => j[n] = i[n]

LEMMA RequestFields ==
  ASSUME NEW r \in Request
  PROVE  /\ r.op \in {"create", "update", "move", "place", "edit"}
         /\ r.op = "create" => r.node \in Node /\ r.to \in Node \cup {NoNode}
                               /\ r.private \in BOOLEAN /\ r.privileged \in BOOLEAN
         /\ r.op = "update" => r.node \in Node /\ r.change \in Change
                               /\ r.privileged \in BOOLEAN
         /\ r.op = "move" => r.node \in Node /\ r.to \in Node /\ r.privileged \in BOOLEAN
         /\ r.op \in {"place", "edit"} => r.item \in Item /\ r.privileged \in BOOLEAN
                                           /\ r.tags \in TagLists
         /\ r.op = "place" => r.to \in Node \cup {NoNode}
  BY DEF Request

LEMMA StageKept ==
  ASSUME NEW f \in [Node -> NodeRow], Forest(f), NEW g \in [Node -> NodeRow], Forest(g),
         NEW i \in [Item -> ItemRow], NEW j \in [Item -> ItemRow],
         NEW x \in Transaction, x.req \in Request,
         Undisturbed(f, g, x.held), ItemsUndisturbed(i, j, x.held),
         Stage(f, i, x)
  PROVE  Stage(g, j, x)
  <1> DEFINE r == x.req
  <1>1. CASE r.op = "create"
    <2>1. CreateStage(f, x)
      BY <1>1 DEF Stage
    <2>2. /\ r.node \in Node /\ r.to \in Node \cup {NoNode} /\ r.privileged \in BOOLEAN
      BY <1>1, RequestFields
    <2>3. ASSUME r.to # NoNode, f[r.to].exists
          PROVE  g[r.to].exists
      BY <2>2, <2>3 DEF Undisturbed
    <2>4. ASSUME r.to # NoNode, f[r.to].exists, NodeLock(r.to, "update") \in x.held
          PROVE  g[r.to] = f[r.to]
      BY <2>2, <2>4 DEF Undisturbed
    <2>5. ASSUME r.to # NoNode, f[r.to].exists, RootLock(f[r.to].root) \in x.held,
                 Accessible(f, r.to, r.privileged)
          PROVE  Accessible(g, r.to, r.privileged)
      BY <2>2, <2>5, TreeUndisturbed
    <2>6. CreateStage(g, x)
      <3>1. CASE x.pc = "create"
        BY <2>1, <3>1 DEF CreateStage
      <3>2. CASE x.pc = "create locked"
        BY <2>1, <2>3, <3>2 DEF CreateStage
      <3>3. CASE x.pc = "create rooted"
        BY <2>1, <2>3, <2>4, <3>3 DEF CreateStage
      <3>4. CASE x.pc = "commit"
        <4>1. r.to # NoNode => f[r.to].exists /\ NodeLock(r.to, "update") \in x.held
          BY <2>1, <3>4 DEF CreateStage
        <4>2. r.to # NoNode => g[r.to] = f[r.to]
          BY <2>4, <4>1
        <4>3. NewRow(g, r) = NewRow(f, r)
          BY <4>2 DEF NewRow
        <4>4. r.to # NoNode => Accessible(g, r.to, r.privileged)
          BY <2>1, <2>5, <3>4, <4>1 DEF CreateStage
        <4> QED BY <2>1, <3>4, <4>1, <4>2, <4>3, <4>4 DEF CreateStage
      <3> QED BY <2>1, <3>1, <3>2, <3>3, <3>4 DEF CreateStage
    <2> QED BY <1>1, <2>6 DEF Stage
  <1>2. CASE r.op = "update"
    <2>1. UpdateStage(f, x)
      BY <1>2 DEF Stage
    <2>2. r.node \in Node /\ r.privileged \in BOOLEAN
      BY <1>2, RequestFields
    <2>3. ASSUME f[r.node].exists
          PROVE  /\ g[r.node].exists
                 /\ NodeLock(r.node, "update") \in x.held => g[r.node] = f[r.node]
      BY <2>2, <2>3 DEF Undisturbed
    <2>4. ASSUME f[r.node].exists, RootLock(f[r.node].root) \in x.held,
                 Accessible(f, r.node, r.privileged)
          PROVE  Accessible(g, r.node, r.privileged)
      BY <2>2, <2>4, TreeUndisturbed
    <2>5. UpdateStage(g, x)
      <3>1. CASE x.pc \in {"update", "update locked"}
        BY <2>1, <2>3, <3>1 DEF UpdateStage
      <3>2. CASE x.pc \in {"update rooted", "synced", "commit"}
        BY <2>1, <2>3, <2>4, <3>2 DEF UpdateStage
      <3> QED BY <2>1, <3>1, <3>2 DEF UpdateStage
    <2> QED BY <1>2, <2>5 DEF Stage
  <1>3. CASE r.op = "move"
    <2>1. MoveStage(f, x)
      BY <1>3 DEF Stage
    <2>2. r.node \in Node /\ r.to \in Node /\ r.privileged \in BOOLEAN
      BY <1>3, RequestFields
    <2>3. ASSUME NEW n \in {r.node, r.to}, f[n].exists
          PROVE  /\ g[n].exists
                 /\ NodeLock(n, "update") \in x.held => g[n] = f[n]
      BY <2>2, <2>3 DEF Undisturbed
    <2>4. ASSUME NEW n \in {r.node, r.to}, f[n].exists, RootLock(f[n].root) \in x.held
          PROVE  /\ Accessible(f, n, r.privileged) => Accessible(g, n, r.privileged)
                 /\ Subtree(g, n) = Subtree(f, n)
                 /\ \A d \in Subtree(f, n) : g[d] = f[d]
      BY <2>2, <2>4, TreeUndisturbed
    <2>5. MoveStage(g, x)
      <3>1. CASE x.pc \in {"move", "move locked"}
        BY <2>1, <2>3, <3>1 DEF MoveStage
      <3>2. CASE x.pc = "move rooted"
        BY <2>1, <2>3, <3>2 DEF MoveStage
      <3>3. CASE x.pc \in {"move subtree", "moved", "synced", "commit"}
        <4>1. /\ f[r.node].exists /\ f[r.to].exists
              /\ NodeLock(r.node, "update") \in x.held /\ NodeLock(r.to, "update") \in x.held
              /\ RootLock(f[r.node].root) \in x.held /\ RootLock(f[r.to].root) \in x.held
          BY <2>1, <3>3 DEF MoveStage
        <4>2. g[r.node] = f[r.node] /\ g[r.to] = f[r.to]
          BY <2>3, <4>1
        <4>3. Subtree(g, r.node) = Subtree(f, r.node)
          BY <2>4, <4>1
        <4>4. \A d \in Subtree(f, r.node) : Moved(g, r.node, r.to, d) = Moved(f, r.node, r.to, d)
          BY <2>4, <4>1, <4>2 DEF Moved
        <4>5. [d \in Subtree(g, r.node) |-> Moved(g, r.node, r.to, d)]
              = [d \in Subtree(f, r.node) |-> Moved(f, r.node, r.to, d)]
          BY <4>3, <4>4
        <4>6. /\ Accessible(f, r.node, r.privileged) => Accessible(g, r.node, r.privileged)
              /\ Accessible(f, r.to, r.privileged) => Accessible(g, r.to, r.privileged)
          BY <2>4, <4>1
        <4>7. /\ Accessible(g, r.node, r.privileged) /\ Accessible(g, r.to, r.privileged)
              /\ g[r.node].parent # r.to /\ r.to \notin Subtree(g, r.node)
              /\ x.rows = Subtree(g, r.node)
              /\ \A d \in Subtree(g, r.node) : NodeLock(d, "no key update") \in Claims(x)
          <5>1. /\ Accessible(f, r.node, r.privileged) /\ Accessible(f, r.to, r.privileged)
                /\ f[r.node].parent # r.to /\ r.to \notin Subtree(f, r.node)
                /\ x.rows = Subtree(f, r.node)
                /\ \A d \in Subtree(f, r.node) : NodeLock(d, "no key update") \in Claims(x)
            BY <2>1, <3>3, Zenon DEF MoveStage
          <5>2. Accessible(g, r.node, r.privileged) /\ Accessible(g, r.to, r.privileged)
            BY <4>6, <5>1, Zenon
          <5>3. g[r.node].parent # r.to /\ r.to \notin Subtree(g, r.node) /\ x.rows = Subtree(g, r.node)
            <6>1. g[r.node].parent # r.to
              BY <4>2, <5>1, Zenon
            <6>2. r.to \notin Subtree(g, r.node)
              BY <4>3, <5>1, Zenon
            <6>3. x.rows = Subtree(g, r.node)
              BY <4>3, <5>1, Zenon
            <6> QED BY <6>1, <6>2, <6>3, Zenon
          <5>4. \A d \in Subtree(g, r.node) : NodeLock(d, "no key update") \in Claims(x)
            BY <4>3, <5>1
          <5> QED BY <5>2, <5>3, <5>4, Zenon
        <4>8. x.pc \in {"moved", "synced", "commit"} =>
                /\ \A d \in Subtree(g, r.node) : NodeLock(d, "no key update") \in x.held
                /\ x.node = [d \in Subtree(g, r.node) |-> Moved(g, r.node, r.to, d)]
          BY <2>1, <4>3, <4>5, Zenon DEF MoveStage
        <4>9. /\ g[r.node].exists /\ g[r.to].exists /\ x.item = <<>>
              /\ RootLock(g[r.node].root) \in x.held /\ RootLock(g[r.to].root) \in x.held
          BY <2>1, <4>1, <4>2 DEF MoveStage
        <4> QED BY <3>3, <4>1, <4>7, <4>8, <4>9 DEF MoveStage, Claims
      <3> QED BY <2>1, <3>1, <3>2, <3>3 DEF MoveStage
    <2> QED BY <1>3, <2>5 DEF Stage
  <1>4. CASE r.op \in {"place", "edit"}
    <2>1. ItemStage(i, x)
      BY <1>4 DEF Stage
    <2>2. r.item \in Item
      BY <1>4, RequestFields
    <2>3. ItemLock(r.item) \in x.held => j[r.item] = i[r.item]
      BY <2>2 DEF ItemsUndisturbed
    <2>4. ItemStage(j, x)
      BY <2>1, <2>3 DEF ItemStage, NewPlace
    <2> QED BY <1>4, <2>4 DEF Stage
  <1> QED BY <1>1, <1>2, <1>3, <1>4, RequestFields
-----------------------------------------------------------------------------
(* What a commit writes: rows of a forest again, each in the version after *)
(* the one committed before, in trees whose locks x holds.                 *)
RowGuarded(f, g, x, n) ==
  /\ g[n].exists
  /\ f[n].exists => /\ RootLock(f[n].root) \in x.held
                    /\ \E mode \in {"update", "no key update"} : NodeLock(n, mode) \in x.held
  /\ RootLock(g[n].root) \in x.held
  /\ g[n].version = f[n].version + 1
  /\ ~f[n].exists => x.req.op = "create" /\ x.req.node = n

Written(f, g, x) ==
  /\ g \in [Node -> NodeRow]
  /\ Forest(g)
  /\ \A n \in Node : g[n] # f[n] => RowGuarded(f, g, x, n)

(* A forest is checked row by row, and along each row's path.              *)
RowOk(row, n) ==
  IF ~row.exists THEN row = Absent
  ELSE /\ Len(row.path) > 0 /\ row.path[Len(row.path)] = n /\ row.root = row.path[1]
       /\ row.parent = IF Len(row.path) = 1 THEN NoNode ELSE row.path[Len(row.path) - 1]

StepOk(above, path, k) == above.exists /\ above.path = SubSeq(path, 1, k)

InForest(g, n) ==
  RowOk(g[n], n) /\ \A k \in 1..Len(g[n].path) : StepOk(g[g[n].path[k]], g[n].path, k)

LEMMA RowByRow ==
  ASSUME NEW g
  PROVE  Forest(g) <=> \A n \in Node : InForest(g, n)
  <1>1. ASSUME NEW n \in Node, g[n] = Absent
        PROVE  1..Len(g[n].path) = {} /\ ~g[n].exists
    BY <1>1 DEF Absent
  <1> QED BY <1>1, Zenon DEF Forest, InForest, RowOk, StepOk

LEMMA SameInForest ==
  ASSUME NEW f, NEW g, NEW n, InForest(f, n), g[n] = f[n],
         \A k \in 1..Len(f[n].path) : g[f[n].path[k]] = f[f[n].path[k]]
  PROVE  InForest(g, n)
  BY Zenon DEF InForest

LEMMA Appended ==
  ASSUME NEW S, NEW p \in Seq(S), NEW c \in S
  PROVE  LET q == Append(p, c) IN
         /\ q \in Seq(S) /\ Len(q) = Len(p) + 1 /\ Len(p) \in Nat
         /\ q[Len(p) + 1] = c
         /\ \A k \in 1..Len(p) : q[k] = p[k] /\ SubSeq(q, 1, k) = SubSeq(p, 1, k)
         /\ SubSeq(q, 1, Len(p) + 1) = q
  <1> DEFINE q == Append(p, c)
  <1>1. /\ q \in Seq(S) /\ Len(q) = Len(p) + 1 /\ Len(p) \in Nat /\ q[Len(p) + 1] = c
        /\ \A k \in 1..Len(p) : q[k] = p[k]
    OBVIOUS
  <1> HIDE DEF q
  <1>2. ASSUME NEW k \in 1..Len(p)
        PROVE  SubSeq(q, 1, k) = SubSeq(p, 1, k)
    <2>1. /\ SubSeq(q, 1, k) \in Seq(S) /\ Len(SubSeq(q, 1, k)) = k
          /\ \A m \in 1..k : SubSeq(q, 1, k)[m] = q[m]
      BY <1>1
    <2>2. /\ SubSeq(p, 1, k) \in Seq(S) /\ Len(SubSeq(p, 1, k)) = k
          /\ \A m \in 1..k : SubSeq(p, 1, k)[m] = p[m]
      BY <1>1
    <2>3. \A m \in 1..k : SubSeq(q, 1, k)[m] = SubSeq(p, 1, k)[m]
      BY <1>1, <2>1, <2>2
    <2> QED BY <1>1, <2>1, <2>2, <2>3, SeqEqual
  <1>3. SubSeq(q, 1, Len(q)) = q
    BY <1>1, SubSeqFull
  <1> QED BY <1>1, <1>2, <1>3 DEF q

LEMMA SingleNode ==
  ASSUME NEW c
  PROVE  Len(<<c>>) = 1 /\ <<c>>[1] = c /\ SubSeq(<<c>>, 1, 1) = <<c>>
  <1>1. <<c>> \in Seq({c}) /\ Len(<<c>>) = 1 /\ <<c>>[1] = c
    OBVIOUS
  <1> QED BY <1>1, SubSeqFull

LEMMA CreateWritten ==
  ASSUME NEW f \in [Node -> NodeRow], Forest(f), NEW x \in Transaction,
         x.req \in Request, x.req.op = "create", x.pc = "commit", CreateStage(f, x),
         ~f[x.req.node].exists
  PROVE  Written(f, Over(x.node, f), x)
  <1> DEFINE r == x.req
             c == r.node
             to == r.to
             under == to # NoNode
             row == NewRow(f, r)
             g == Over(x.node, f)
             P == f[to].path
  <1>1. /\ c \in Node /\ to \in Node \cup {NoNode} /\ r.private \in BOOLEAN
        /\ r.privileged \in BOOLEAN /\ ~f[c].exists
    BY RequestFields
  <1>2. /\ under => to \in Node /\ f[to].exists
        /\ RootLock(IF under THEN f[to].root ELSE c) \in x.held
        /\ x.node = Only(c, row)
    BY <1>1 DEF CreateStage
  <1>3. under => /\ P \in Seq(Node) /\ Len(P) \in Nat /\ Len(P) > 0 /\ P[Len(P)] = to
                 /\ f[to].root = P[1] /\ f[to].root \in Node
    BY <1>2, PathFacts
  <1>4. /\ row.exists = TRUE /\ row.parent = to /\ row.version = 1
        /\ row.path = (IF under THEN Append(P, c) ELSE <<c>>)
        /\ row.root = (IF under THEN f[to].root ELSE c)
        /\ row \in NodeRow
    <2>1. (IF under THEN Append(P, c) ELSE <<c>>) \in Seq(Node)
      BY <1>1, <1>3
    <2>2. (IF under THEN f[to].root ELSE c) \in Node
      BY <1>1, <1>3
    <2> HIDE DEF P, under, c
    <2> QED BY <1>1, <2>1, <2>2 DEF NewRow, Absent, NodeRow, P, under, c
  <1>5. f[c] = Absent /\ f[c].version = 0
    <2>1. InForest(f, c)
      BY <1>1, RowByRow
    <2>2. f[c] = Absent
      BY <1>1, <2>1, Zenon DEF InForest, RowOk
    <2> QED BY <2>2 DEF Absent
  <1>6. /\ \A n \in Node : InForest(f, n)
        /\ \A n \in Node : f[n].exists =>
             \A k \in 1..Len(f[n].path) :
               f[n].path[k] \in Node /\ f[f[n].path[k]].exists /\ StepOk(f[f[n].path[k]], f[n].path, k)
    BY PathFacts, RowByRow DEF StepOk
  <1>7. x.req.op = "create" /\ x.req.node = c
    OBVIOUS
  <1> HIDE DEF row, c, to, r
  <1>8. g \in [Node -> NodeRow] /\ \A n \in Node : g[n] = IF n = c THEN row ELSE f[n]
    <2>1. c \in Node /\ row \in NodeRow
      BY <1>1, <1>4
    <2>2. /\ Over(Only(c, row), f) \in [Node -> NodeRow]
          /\ \A n \in Node : Over(Only(c, row), f)[n] = IF n = c THEN row ELSE f[n]
      <3> HIDE DEF P, under, g
      <3> QED BY <2>1 DEF Over, Only
    <2>3. g = Over(Only(c, row), f)
      BY <1>2
    <2> QED BY <2>2, <2>3, Zenon
  <1> HIDE DEF g
  <1>9. ASSUME NEW n \in Node, n # c
        PROVE  InForest(g, n)
    <2>1. g[n] = f[n] /\ InForest(f, n)
      BY <1>6, <1>8, <1>9
    <2>2. ASSUME NEW k \in 1..Len(f[n].path)
          PROVE  g[f[n].path[k]] = f[f[n].path[k]]
      <3>1. f[n].exists
        <4>1. CASE f[n] = Absent
          BY <2>2, <4>1 DEF Absent
        <4> QED BY <2>1, <4>1 DEF InForest, RowOk
      <3>2. f[n].path[k] \in Node /\ f[f[n].path[k]].exists
        BY <1>6, <2>2, <3>1
      <3> QED BY <1>1, <1>8, <3>2
    <2> QED BY <2>1, <2>2, SameInForest
  <1>10. InForest(g, c)
    <2>0. g[c] = row
      BY <1>1, <1>8
    <2>1. CASE under
      <3>1. /\ row.path = Append(P, c) /\ Len(row.path) = Len(P) + 1
            /\ row.path[Len(P) + 1] = c
            /\ \A k \in 1..Len(P) : row.path[k] = P[k] /\ SubSeq(row.path, 1, k) = SubSeq(P, 1, k)
            /\ SubSeq(row.path, 1, Len(P) + 1) = row.path
        BY <1>1, <1>3, <1>4, <2>1, Appended
      <3>2. \A k \in 1..Len(P) : P[k] \in Node /\ f[P[k]].exists /\ StepOk(f[P[k]], P, k)
        BY <1>2, <1>6, <2>1
      <3> HIDE DEF P
      <3>3. ASSUME NEW k \in 1..Len(P)
            PROVE  g[P[k]] = f[P[k]]
        <4>1. P[k] \in Node /\ f[P[k]].exists
          BY <3>2
        <4> QED BY <1>1, <1>8, <4>1
      <3>4. ASSUME NEW k \in 1..Len(row.path)
            PROVE  StepOk(g[row.path[k]], row.path, k)
        <4>1. CASE k \in 1..Len(P)
          <5>1. row.path[k] = P[k] /\ SubSeq(row.path, 1, k) = SubSeq(P, 1, k)
            BY <3>1, <4>1
          <5>2. g[P[k]] = f[P[k]] /\ StepOk(f[P[k]], P, k)
            BY <3>2, <3>3, <4>1
          <5> QED BY <5>1, <5>2 DEF StepOk
        <4>2. CASE k = Len(P) + 1
          <5>1. row.path[k] = c /\ SubSeq(row.path, 1, k) = row.path
            BY <3>1, <4>2
          <5> QED BY <1>4, <2>0, <5>1 DEF StepOk
        <4> QED BY <1>3, <2>1, <3>1, <4>1, <4>2
      <3>5. Len(row.path) > 0 /\ Len(row.path) # 1 /\ row.path[1] = P[1] /\ Len(row.path) - 1 = Len(P)
            /\ row.path[Len(P)] = P[Len(P)] /\ row.path[Len(row.path)] = c
        BY <1>3, <2>1, <3>1
      <3>6. RowOk(row, c)
        BY <1>3, <1>4, <2>1, <3>1, <3>5 DEF RowOk
      <3> QED BY <2>0, <3>4, <3>6 DEF InForest
    <2>2. CASE ~under
      <3>1. row.path = <<c>> /\ row.parent = NoNode /\ row.root = c
        BY <1>4, <2>2
      <3>2. Len(<<c>>) = 1 /\ <<c>>[1] = c /\ SubSeq(<<c>>, 1, 1) = <<c>>
        BY SingleNode
      <3>3. RowOk(row, c)
        BY <1>4, <3>1, <3>2 DEF RowOk
      <3>4. ASSUME NEW k \in 1..Len(row.path)
            PROVE  StepOk(g[row.path[k]], row.path, k)
        <4>1. k = 1
          BY <3>1, <3>2
        <4> QED BY <1>4, <2>0, <3>1, <3>2, <4>1 DEF StepOk
      <3> QED BY <2>0, <3>3, <3>4 DEF InForest
    <2> QED BY <2>1, <2>2
  <1>11. RowGuarded(f, g, x, c)
    <2>1. g[c] = row /\ ~f[c].exists /\ f[c].version = 0
      BY <1>1, <1>5, <1>8
    <2>2. row.version = f[c].version + 1 /\ RootLock(row.root) \in x.held
      BY <1>2, <1>4, <2>1
    <2> QED BY <1>4, <1>7, <2>1, <2>2, Zenon DEF RowGuarded
  <1>12. \A n \in Node : g[n] # f[n] => n = c
    BY <1>8
  <1>13. Forest(g)
    BY <1>9, <1>10, RowByRow
  <1> QED BY <1>8, <1>11, <1>12, <1>13, Zenon DEF Written, g
LEMMA UpdatedRow ==
  ASSUME NEW row \in NodeRow, NEW after, Updated(row, after)
  PROVE  /\ after \in NodeRow
         /\ after.exists = row.exists /\ after.parent = row.parent /\ after.path = row.path
         /\ after.root = row.root /\ after.version = row.version + 1
  <1>1. PICK title \in Nat, private \in BOOLEAN, archived \in BOOLEAN :
          after = [row EXCEPT !.version = @ + 1, !.title = title, !.private = private,
                              !.archived = archived]
    BY Zenon DEF Updated
  <1> DEFINE Path == Seq(Node)
             Place == Node \cup {NoNode}
  <1>2. NodeRow = [exists : BOOLEAN, parent : Place, path : Path, root : Place, title : Nat,
                   private : BOOLEAN, archived : BOOLEAN, version : Nat]
    BY DEF NodeRow
  <1> HIDE DEF Path, Place
  <1>3. row.version + 1 \in Nat
    BY <1>2
  <1>4. /\ after.exists = row.exists /\ after.parent = row.parent /\ after.path = row.path
        /\ after.root = row.root /\ after.version = row.version + 1
    BY <1>1, <1>2
  <1>5. after \in NodeRow
    BY <1>1, <1>2, <1>3
  <1> QED BY <1>4, <1>5

LEMMA UpdateWritten ==
  ASSUME NEW f \in [Node -> NodeRow], Forest(f), NEW x \in Transaction,
         x.req \in Request, x.req.op = "update", x.pc = "commit", UpdateStage(f, x)
  PROVE  Written(f, Over(x.node, f), x)
  <1> DEFINE c == x.req.node
             g == Over(x.node, f)
  <1>1. /\ c \in Node /\ f[c].exists /\ RootLock(f[c].root) \in x.held
        /\ NodeLock(c, "update") \in x.held
        /\ \E after \in NodeRow : Updated(f[c], after) /\ x.node = Only(c, after)
    BY RequestFields DEF UpdateStage
  <1>2. PICK after \in NodeRow : Updated(f[c], after) /\ x.node = Only(c, after)
    BY <1>1
  <1>3. f[c] \in NodeRow
    BY <1>1
  <1> HIDE DEF c
  <1>4. /\ after.exists = f[c].exists /\ after.parent = f[c].parent /\ after.path = f[c].path
        /\ after.root = f[c].root /\ after.version = f[c].version + 1
    BY <1>2, <1>3, UpdatedRow
  <1>5. g \in [Node -> NodeRow] /\ \A n \in Node : g[n] = IF n = c THEN after ELSE f[n]
    BY <1>1, <1>2 DEF Over, Only
  <1> HIDE DEF g
  <1>6. \A n \in Node : /\ g[n].exists = f[n].exists /\ g[n].parent = f[n].parent
                        /\ g[n].path = f[n].path /\ g[n].root = f[n].root
    BY <1>4, <1>5
  <1>7. ASSUME NEW n \in Node
        PROVE  InForest(g, n)
    <2>1. InForest(f, n)
      BY RowByRow
    <2>2. RowOk(g[n], n)
      <3>1. ~f[n].exists => g[n] = f[n]
        BY <1>1, <1>5
      <3> QED BY <1>6, <2>1, <3>1 DEF InForest, RowOk
    <2>3. ASSUME NEW k \in 1..Len(g[n].path)
          PROVE  StepOk(g[g[n].path[k]], g[n].path, k)
      <3>1. g[n].path = f[n].path /\ StepOk(f[f[n].path[k]], f[n].path, k)
        BY <1>6, <2>1, <2>3 DEF InForest
      <3>2. f[n].exists
        <4>1. CASE f[n] = Absent
          BY <1>6, <2>3, <4>1 DEF Absent
        <4> QED BY <2>1, <4>1 DEF InForest, RowOk
      <3>3. f[n].path[k] \in Node
        BY <1>6, <2>3, <3>2, PathFacts
      <3>4. /\ g[f[n].path[k]].exists = f[f[n].path[k]].exists
            /\ g[f[n].path[k]].path = f[f[n].path[k]].path
        BY <1>6, <3>3
      <3> QED BY <3>1, <3>4 DEF StepOk
    <2> QED BY <2>2, <2>3 DEF InForest
  <1>8. Forest(g)
    BY <1>7, RowByRow
  <1>9. RowGuarded(f, g, x, c)
    <2>1. g[c] = after
      BY <1>1, <1>5
    <2> QED BY <1>1, <1>4, <2>1, Zenon DEF RowGuarded
  <1>10. \A n \in Node : g[n] # f[n] => n = c
    BY <1>5
  <1> QED BY <1>5, <1>8, <1>9, <1>10, Zenon DEF Written, g

LEMMA ItemWritten ==
  ASSUME NEW f \in [Node -> NodeRow], Forest(f), NEW x \in Transaction, x.node = <<>>
  PROVE  Written(f, Over(x.node, f), x)
  <1>1. Over(x.node, f) = f
    BY NothingOver
  <1> QED BY <1>1 DEF Written
(* The new path of a moved node, place by place: the target's path, and    *)
(* from there on what the old path was from the moved node.                *)
LEMMA Spliced ==
  ASSUME NEW S, NEW q \in Seq(S), NEW p \in Seq(S), NEW cut \in 1..Len(p)
  PROVE  LET m == q \o <<p[cut]>> \o SubSeq(p, cut + 1, Len(p)) IN
         /\ m \in Seq(S) /\ Len(q) \in Nat /\ Len(p) \in Nat
         /\ Len(m) = Len(q) + 1 + (Len(p) - cut)
         /\ \A k \in 1..Len(q) : m[k] = q[k]
         /\ \A k \in (Len(q) + 1)..Len(m) : m[k] = p[k - Len(q) - 1 + cut]
  <1> DEFINE a == q \o <<p[cut]>>
             b == SubSeq(p, cut + 1, Len(p))
  <1>1. Len(q) \in Nat /\ Len(p) \in Nat /\ cut \in Nat /\ p[cut] \in S
    OBVIOUS
  <1>2. /\ a \in Seq(S) /\ Len(a) = Len(q) + 1 /\ a[Len(q) + 1] = p[cut]
        /\ \A k \in 1..Len(q) : a[k] = q[k]
    BY <1>1
  <1>3. /\ b \in Seq(S) /\ Len(b) = Len(p) - cut
        /\ \A k \in 1..(Len(p) - cut) : b[k] = p[cut + k]
    <2>1. \A k \in (cut + 1)..Len(p) : p[k] \in S
      BY <1>1
    <2> QED BY <1>1, <2>1, SubSeqProperties
  <1> HIDE DEF a, b
  <1>4. /\ a \o b \in Seq(S) /\ Len(a \o b) = Len(a) + Len(b)
        /\ \A k \in 1..(Len(a) + Len(b)) : (a \o b)[k] = IF k <= Len(a) THEN a[k] ELSE b[k - Len(a)]
    BY <1>2, <1>3, ConcatProperties
  <1>5. ASSUME NEW k \in (Len(q) + 1)..Len(a \o b)
        PROVE  (a \o b)[k] = p[k - Len(q) - 1 + cut]
    <2>1. CASE k = Len(q) + 1
      <3>1. k - Len(q) - 1 + cut = cut
        BY <1>1, <2>1
      <3> QED BY <1>1, <1>2, <1>3, <1>4, <2>1, <3>1
    <2>2. CASE k > Len(q) + 1
      <3>1. k - Len(a) \in 1..(Len(p) - cut) /\ cut + (k - Len(a)) = k - Len(q) - 1 + cut
        BY <1>1, <1>2, <1>3, <1>4, <2>2
      <3>2. (a \o b)[k] = b[k - Len(a)]
        BY <1>1, <1>2, <1>3, <1>4, <2>2
      <3> QED BY <1>3, <3>1, <3>2
    <2> QED BY <1>1, <2>1, <2>2
  <1>6. \A k \in 1..Len(q) : (a \o b)[k] = q[k]
    BY <1>1, <1>2, <1>3, <1>4
  <1> QED BY <1>1, <1>2, <1>3, <1>4, <1>5, <1>6 DEF a, b

MovedAs(f, s, to, d, m) ==
  LET q   == Len(f[to].path)
      cut == Len(f[s].path)
      len == Len(f[d].path)
  IN
  /\ m \in NodeRow /\ m.exists = TRUE /\ m.root = f[to].root
  /\ m.parent = (IF d = s THEN to ELSE f[d].parent)
  /\ m.version = f[d].version + 1 /\ m.private = f[d].private /\ m.archived = f[d].archived
  /\ m.path \in Seq(Node) /\ Len(m.path) = q + 1 + (len - cut)
  /\ q \in Nat /\ cut \in 1..len /\ len \in Nat
  /\ \A k \in 1..q : m.path[k] = f[to].path[k]
  /\ \A k \in (q + 1)..Len(m.path) : m.path[k] = f[d].path[k - q - 1 + cut]

LEMMA MovedRow ==
  ASSUME NEW f \in [Node -> NodeRow], Forest(f), NEW s \in Node, f[s].exists,
         NEW to \in Node, f[to].exists, NEW d \in Subtree(f, s)
  PROVE  MovedAs(f, s, to, d, Moved(f, s, to, d))
  <1> DEFINE Q == f[to].path
             p == f[d].path
             cut == Len(f[s].path)
             m == Moved(f, s, to, d)
             path == Q \o <<s>> \o SubSeq(p, cut + 1, Len(p))
  <1>1. d \in Node /\ f[d].exists /\ cut <= Len(p) /\ p[cut] = s
    BY SubtreeFacts
  <1>2. /\ Q \in Seq(Node) /\ p \in Seq(Node) /\ cut \in Nat /\ cut > 0
        /\ f[to].root \in Node \cup {NoNode}
    BY <1>1, PathFacts DEF NodeRow
  <1>3. cut \in 1..Len(p)
    BY <1>1, <1>2
  <1>4. /\ path \in Seq(Node) /\ Len(Q) \in Nat /\ Len(p) \in Nat
        /\ Len(path) = Len(Q) + 1 + (Len(p) - cut)
        /\ \A k \in 1..Len(Q) : path[k] = Q[k]
        /\ \A k \in (Len(Q) + 1)..Len(path) : path[k] = p[k - Len(Q) - 1 + cut]
    <2>1. path = Q \o <<p[cut]>> \o SubSeq(p, cut + 1, Len(p))
      BY <1>1
    <2>2. Q \in Seq(Node) /\ p \in Seq(Node) /\ cut \in 1..Len(p)
      BY <1>2, <1>3
    <2> HIDE DEF path, Q, p, cut
    <2> QED BY <2>1, <2>2, Spliced
  <1>5. f[d] \in NodeRow
    BY <1>1
  <1>6. /\ m = [f[d] EXCEPT !.parent = IF d = s THEN to ELSE @, !.path = path,
                            !.root = f[to].root, !.version = @ + 1]
    BY Zenon DEF Moved
  <1> HIDE DEF path, m
  <1>7. /\ m \in NodeRow /\ m.exists = f[d].exists /\ m.root = f[to].root
        /\ m.parent = (IF d = s THEN to ELSE f[d].parent) /\ m.path = path
        /\ m.version = f[d].version + 1 /\ m.private = f[d].private /\ m.archived = f[d].archived
    <2> DEFINE Path == Seq(Node)
               Place == Node \cup {NoNode}
    <2>1. NodeRow = [exists : BOOLEAN, parent : Place, path : Path, root : Place, title : Nat,
                     private : BOOLEAN, archived : BOOLEAN, version : Nat]
      BY DEF NodeRow
    <2>2. path \in Path /\ f[to].root \in Place /\ to \in Place
      BY <1>2, <1>4
    <2> HIDE DEF Path, Place
    <2>3. f[d].parent \in Place /\ f[d].version + 1 \in Nat
      BY <1>5, <2>1
    <2>4. /\ m.exists = f[d].exists /\ m.root = f[to].root /\ m.path = path
          /\ m.parent = (IF d = s THEN to ELSE f[d].parent)
          /\ m.version = f[d].version + 1 /\ m.private = f[d].private /\ m.archived = f[d].archived
      BY <1>5, <1>6, <2>1
    <2>5. m \in NodeRow
      BY <1>5, <1>6, <2>1, <2>2, <2>3
    <2> QED BY <2>4, <2>5
  <1>8. f[d].exists = TRUE
    BY <1>1, <1>5 DEF NodeRow
  <1> QED BY <1>3, <1>4, <1>7, <1>8 DEF m, MovedAs
LEMMA MoveWritten ==
  ASSUME NEW f \in [Node -> NodeRow], Forest(f), NEW x \in Transaction,
         x.req \in Request, x.req.op = "move", x.pc = "commit", MoveStage(f, x)
  PROVE  Written(f, Over(x.node, f), x)
  <1> DEFINE s == x.req.node
             to == x.req.to
             D == Subtree(f, s)
             g == Over(x.node, f)
             Q == f[to].path
             q == Len(Q)
             cut == Len(f[s].path)
  <1>1. /\ s \in Node /\ f[s].exists /\ to \in Node /\ f[to].exists
        /\ RootLock(f[s].root) \in x.held /\ RootLock(f[to].root) \in x.held
        /\ to \notin D
        /\ \A d \in D : NodeLock(d, "no key update") \in x.held
        /\ x.node = [d \in D |-> Moved(f, s, to, d)]
    BY RequestFields DEF MoveStage
  <1> HIDE DEF s, to
  <1>2. ASSUME NEW d \in D
        PROVE  Moved(f, s, to, d) \in NodeRow
    BY <1>1, MovedRow DEF MovedAs
  <1>3. D \subseteq Node
    BY DEF Subtree
  <1>4. g \in [Node -> NodeRow] /\ \A n \in Node : g[n] = IF n \in D THEN Moved(f, s, to, n) ELSE f[n]
    <2> HIDE DEF D
    <2> QED BY <1>1, <1>2, <1>3 DEF Over
  <1> HIDE DEF g
  <1>5. ASSUME NEW n \in Node, f[n].exists, NEW k \in 1..Len(f[n].path)
        PROVE  LET a == f[n].path[k] IN
               /\ a \in Node /\ f[a].exists /\ f[a].path = SubSeq(f[n].path, 1, k)
               /\ a \in D <=> n \in D /\ cut <= k
    <2> DEFINE p == f[n].path
               a == p[k]
    <2>1. /\ p \in Seq(Node) /\ Len(p) \in Nat /\ cut \in Nat /\ cut > 0
          /\ a \in Node /\ f[a].exists /\ f[a].path = SubSeq(p, 1, k) /\ Len(f[a].path) = k
          /\ \A i, j \in 1..Len(p) : p[i] = p[j] => i = j
      <3>1. cut \in Nat /\ cut > 0
        BY <1>1, PathFacts
      <3>2. /\ p \in Seq(Node) /\ Len(p) \in Nat
            /\ \A i, j \in 1..Len(p) : p[i] = p[j] => i = j
        BY <1>5, PathFacts
      <3>3. a \in Node /\ f[a].exists /\ f[a].path = SubSeq(p, 1, k) /\ Len(f[a].path) = k
        BY <1>5, PathFacts
      <3> QED BY <3>1, <3>2, <3>3
    <2>2. \A j \in 1..k : f[a].path[j] = p[j]
      BY <1>5, <2>1
    <2>3. ASSUME a \in D
          PROVE  n \in D /\ cut <= k
      <3>1. cut <= k /\ f[a].path[cut] = s
        <4>1. cut <= Len(f[a].path) /\ f[a].path[cut] = s
          BY <1>1, <2>3, SubtreeFacts
        <4> QED BY <2>1, <4>1
      <3>2. p[cut] = s /\ cut \in 1..Len(p)
        BY <1>5, <2>1, <2>2, <3>1
      <3>3. n \in D
        <4>1. s \in Node /\ f[s].exists /\ n \in Node /\ f[n].exists
              /\ \E j \in 1..Len(p) : p[j] = s
          BY <1>1, <1>5, <3>2
        <4> QED BY <4>1, SubtreeFacts
      <3> QED BY <3>1, <3>3
    <2>4. ASSUME n \in D, cut <= k
          PROVE  a \in D
      <3>1. p[cut] = s
        BY <1>1, <2>4, SubtreeFacts
      <3>2. f[a].path[cut] = s /\ cut \in 1..Len(f[a].path)
        BY <1>5, <2>1, <2>2, <2>4, <3>1
      <3> QED BY <1>1, <2>1, <3>2, SubtreeFacts
    <2> QED BY <2>1, <2>3, <2>4
  <1>6. ASSUME NEW n \in Node, n \notin D
        PROVE  InForest(g, n)
    <2>1. g[n] = f[n] /\ InForest(f, n)
      BY <1>4, <1>6, RowByRow
    <2>2. ASSUME NEW k \in 1..Len(f[n].path)
          PROVE  g[f[n].path[k]] = f[f[n].path[k]]
      <3>1. f[n].exists
        <4>1. CASE f[n] = Absent
          BY <2>2, <4>1 DEF Absent
        <4> QED BY <2>1, <4>1 DEF InForest, RowOk
      <3>2. f[n].path[k] \in Node /\ f[n].path[k] \notin D
        BY <1>5, <1>6, <2>2, <3>1
      <3> HIDE DEF D
      <3> QED BY <1>4, <3>2
    <2> QED BY <2>1, <2>2, SameInForest
  <1>7. ASSUME NEW n \in D
        PROVE  InForest(g, n) /\ RowGuarded(f, g, x, n)
    <2> DEFINE p == f[n].path
               len == Len(p)
               m == Moved(f, s, to, n)
               place(k) == k - q - 1 + cut
    <2>1. /\ n \in Node /\ f[n].exists /\ f[n].root = f[s].root /\ p[cut] = s
      <3>1. s \in Node /\ f[s].exists /\ n \in D
        BY <1>1, <1>7
      <3> QED BY <3>1, SubtreeFacts
    <2>2. /\ m \in NodeRow /\ m.exists = TRUE /\ m.root = f[to].root
          /\ m.parent = (IF n = s THEN to ELSE f[n].parent)
          /\ m.version = f[n].version + 1
          /\ m.path \in Seq(Node) /\ Len(m.path) = q + 1 + (len - cut)
          /\ q \in Nat /\ cut \in 1..len /\ len \in Nat
          /\ \A k \in 1..q : m.path[k] = Q[k]
          /\ \A k \in (q + 1)..Len(m.path) : m.path[k] = p[place(k)]
      <3>1. /\ s \in Node /\ f[s].exists /\ to \in Node /\ f[to].exists /\ n \in D
        BY <1>1, <1>7
      <3>2. MovedAs(f, s, to, n, Moved(f, s, to, n))
        BY <3>1, MovedRow
      <3> QED BY <3>2, Zenon DEF MovedAs
    <2>3. g[n] = m
      <3> HIDE DEF D
      <3> QED BY <1>4, <2>1
    <2>4. /\ p \in Seq(Node) /\ p[len] = n
          /\ f[n].parent = (IF len = 1 THEN NoNode ELSE p[len - 1])
          /\ \A i, j \in 1..len : p[i] = p[j] => i = j
      BY <2>1, PathFacts
    <2>5. /\ Q \in Seq(Node) /\ q > 0 /\ Q[q] = to /\ f[to].root = Q[1]
      <3>1. to \in Node /\ f[to].exists
        BY <1>1
      <3> QED BY <3>1, PathFacts
    <2> HIDE DEF m, p, len, Q, q, cut
    <2>6. RowOk(m, n)
      <3>1. /\ Len(m.path) > 0 /\ Len(m.path) # 1 /\ Len(m.path) \in (q + 1)..Len(m.path)
            /\ place(Len(m.path)) = len /\ 1 \in 1..q /\ Len(m.path) \in Nat
        BY <2>2, <2>5
      <3>2. m.path[Len(m.path)] = n /\ m.root = m.path[1]
        BY <2>2, <2>4, <2>5, <3>1
      <3>3. m.parent = m.path[Len(m.path) - 1]
        <4>1. CASE n = s
          <5>1. len = cut
            BY <2>1, <2>2, <2>4, <4>1 DEF p, len
          <5>2. Len(m.path) - 1 = q /\ q \in 1..q
            BY <2>2, <2>5, <5>1
          <5> QED BY <2>2, <2>5, <4>1, <5>2
        <4>2. CASE n # s
          <5>1. len # cut
            BY <2>1, <2>4, <4>2 DEF p, len
          <5>2. /\ len # 1 /\ Len(m.path) - 1 \in (q + 1)..Len(m.path)
                /\ place(Len(m.path) - 1) = len - 1
            BY <2>2, <2>5, <3>1, <5>1
          <5> QED BY <2>2, <2>4, <4>2, <5>2
        <4> QED BY <4>1, <4>2
      <3> QED BY <2>2, <3>1, <3>2, <3>3, Zenon DEF RowOk
    <2>7. ASSUME NEW k \in 1..Len(m.path)
          PROVE  StepOk(g[m.path[k]], m.path, k)
      <3>0. k \in Nat /\ (k \in 1..q \/ k \in (q + 1)..Len(m.path))
        BY <2>2
      <3>1. CASE k \in 1..q
        <4> DEFINE a == Q[k]
        <4>1. m.path[k] = a
          BY <2>2, <3>1
        <4>2. a \in Node /\ f[a].exists /\ f[a].path = SubSeq(Q, 1, k) /\ a \notin D
          BY <1>1, <1>5, <3>1 DEF Q, q
        <4>3. g[a] = f[a]
          <5> HIDE DEF D, a
          <5> QED BY <1>4, <4>2
        <4>4. SubSeq(m.path, 1, k) = SubSeq(Q, 1, k)
          <5>1. \A j \in 1..k : j \in 1..q /\ j \in 1..Len(m.path)
            BY <2>2, <3>1
          <5>2. /\ SubSeq(m.path, 1, k) \in Seq(Node) /\ Len(SubSeq(m.path, 1, k)) = k
                /\ \A j \in 1..k : SubSeq(m.path, 1, k)[j] = m.path[j]
            BY <2>2, <3>0
          <5>3. /\ SubSeq(Q, 1, k) \in Seq(Node) /\ Len(SubSeq(Q, 1, k)) = k
                /\ \A j \in 1..k : SubSeq(Q, 1, k)[j] = Q[j]
            BY <2>5, <3>1 DEF q
          <5>4. \A j \in 1..k : m.path[j] = Q[j]
            BY <2>2, <5>1
          <5> QED BY <5>2, <5>3, <5>4, SeqEqual
        <4> QED BY <4>1, <4>2, <4>3, <4>4 DEF StepOk
      <3>2. CASE k \in (q + 1)..Len(m.path)
        <4> DEFINE j == place(k)
                   a == p[j]
                   h == Moved(f, s, to, a)
        <4>1. j \in 1..len /\ cut <= j /\ m.path[k] = a
          BY <2>2, <3>2
        <4>2. a \in Node /\ f[a].exists /\ f[a].path = SubSeq(p, 1, j) /\ a \in D
          BY <1>5, <1>7, <2>1, <4>1 DEF p, len
        <4>3. Len(f[a].path) = j /\ \A i \in 1..j : f[a].path[i] = p[i]
          BY <2>4, <4>1, <4>2 DEF len
        <4>4. /\ h.exists = TRUE /\ h.path \in Seq(Node)
              /\ Len(h.path) = q + 1 + (Len(f[a].path) - cut)
              /\ \A i \in 1..q : h.path[i] = Q[i]
              /\ \A i \in (q + 1)..Len(h.path) : h.path[i] = f[a].path[place(i)]
          <5>1. /\ s \in Node /\ f[s].exists /\ to \in Node /\ f[to].exists /\ a \in D
            BY <1>1, <4>2
          <5> HIDE DEF a
          <5>2. MovedAs(f, s, to, a, Moved(f, s, to, a))
            BY <5>1, MovedRow
          <5> QED BY <5>2, Zenon DEF MovedAs, q, Q, cut
        <4>5. g[a] = h
          <5> HIDE DEF D, a, h
          <5> QED BY <1>4, <4>2 DEF h
        <4> HIDE DEF a, h
        <4>6. Len(h.path) = k
          BY <2>2, <3>2, <4>3, <4>4
        <4>7. ASSUME NEW i \in 1..k
              PROVE  h.path[i] = m.path[i]
          <5>1. CASE i \in 1..q
            BY <2>2, <4>4, <5>1
          <5>2. CASE i \in (q + 1)..k
            <6>1. place(i) \in 1..j /\ i \in (q + 1)..Len(m.path) /\ i \in (q + 1)..Len(h.path)
              BY <2>2, <3>2, <4>6, <5>2
            <6>2. h.path[i] = f[a].path[place(i)] /\ m.path[i] = p[place(i)]
              BY <2>2, <4>4, <6>1
            <6> QED BY <4>3, <6>1, <6>2
          <5> QED BY <2>2, <3>0, <5>1, <5>2
        <4>8. /\ SubSeq(m.path, 1, k) \in Seq(Node) /\ Len(SubSeq(m.path, 1, k)) = k
              /\ \A i \in 1..k : SubSeq(m.path, 1, k)[i] = m.path[i]
          BY <2>2, <3>0
        <4>9. h.path = SubSeq(m.path, 1, k)
          BY <4>4, <4>6, <4>7, <4>8, SeqEqual
        <4> QED BY <4>1, <4>4, <4>5, <4>9 DEF StepOk
      <3> QED BY <3>0, <3>1, <3>2
    <2>8. InForest(g, n)
      BY <2>3, <2>6, <2>7 DEF InForest
    <2>9. RowGuarded(f, g, x, n)
      BY <1>1, <1>7, <2>1, <2>2, <2>3 DEF RowGuarded
    <2> QED BY <2>8, <2>9
  <1>8. Forest(g)
    BY <1>6, <1>7, RowByRow
  <1>9. ASSUME NEW n \in Node, g[n] # f[n]
        PROVE  RowGuarded(f, g, x, n)
    <2>1. n \in D
      <3> HIDE DEF D
      <3> QED BY <1>4, <1>9
    <2> QED BY <1>7, <2>1
  <1> QED BY <1>4, <1>8, <1>9, Zenon DEF Written, g
-----------------------------------------------------------------------------
(* The types of what statements compute.                                   *)
LEMMA ProjectedType ==
  ASSUME NEW nodes \in [Node -> NodeRow], NEW n \in Node \cup {NoNode}
  PROVE  Projected(nodes, n) \in Shown /\ (n \in Node => Projection(nodes, n) \in Shown)
  <1>1. Loose \in Shown
    <2>1. <<>> \in Seq(Node \X Nat)
      OBVIOUS
    <2> QED BY <2>1 DEF Loose, Shown
  <1>2. ASSUME n \in Node
        PROVE  Projection(nodes, n) \in Shown
    <2> DEFINE path == nodes[n].path
               text == [k \in DOMAIN path |-> <<path[k], nodes[path[k]].title>>]
    <2>1. path \in Seq(Node)
      BY <1>2 DEF NodeRow
    <2>2. DOMAIN path = 1..Len(path) /\ Len(path) \in Nat
      BY <2>1
    <2>3. ASSUME NEW k \in 1..Len(path)
          PROVE  <<path[k], nodes[path[k]].title>> \in Node \X Nat
      <3>1. path[k] \in Node
        BY <2>1, <2>2
      <3>2. nodes[path[k]] \in NodeRow
        BY <3>1
      <3> QED BY <3>1, <3>2 DEF NodeRow
    <2>4. text \in [1..Len(path) -> Node \X Nat]
      BY <2>2, <2>3
    <2>5. text \in Seq(Node \X Nat)
      BY <2>2, <2>4, SeqDef
    <2> HIDE DEF text, path
    <2> DEFINE visibility == Projection(nodes, n).visibility
    <2>6. visibility \in {"authenticated", "private", "unlisted"}
      BY DEF Projection
    <2>7. Projection(nodes, n) = [text |-> text, visibility |-> visibility]
      BY DEF Projection, text, path
    <2> HIDE DEF visibility
    <2> QED BY <2>5, <2>6, <2>7 DEF Shown
  <1> QED BY <1>1, <1>2 DEF Projected

LEMMA LockTypes ==
  /\ \A n \in Node, mode \in {"update", "no key update", "key share"} : NodeLock(n, mode) \in Lock
  /\ \A n \in Node \cup {NoNode} : RootLock(n) \in Lock
  /\ \A i \in Item : ItemLock(i) \in Lock /\ SearchLock(i) \in Lock
  /\ \A a \in Tag : TagLock(a) \in Lock
  /\ \A S \in SUBSET (Node \cup {NoNode}) : References(S) \in SUBSET Lock
  <1>1. /\ \A n \in Node, mode \in {"update", "no key update", "key share"} : NodeLock(n, mode) \in Lock
        /\ \A n \in Node \cup {NoNode} : RootLock(n) \in Lock
        /\ \A i \in Item : ItemLock(i) \in Lock /\ SearchLock(i) \in Lock
        /\ \A a \in Tag : TagLock(a) \in Lock
    BY DEF NodeLock, RootLock, ItemLock, TagLock, SearchLock, Lock
  <1>2. ASSUME NEW S \in SUBSET (Node \cup {NoNode})
        PROVE  References(S) \in SUBSET Lock
    <2>1. \A n \in S \ {NoNode} : n \in Node
      OBVIOUS
    <2> QED BY <1>1, <2>1 DEF References
  <1> QED BY <1>1, <1>2

LEMMA AffectedType ==
  ASSUME TypeInv, NEW t \in Txn, NEW nodes \in [Node -> NodeRow], NEW n \in Node
  PROVE  /\ Affected(t, nodes, n) \in Partial(Item, Shown)
         /\ SyncLocks(Affected(t, nodes, n)) \in SUBSET Lock
  <1> DEFINE S == {i \in Item : Items(t)[i].node \in Subtree(nodes, n)}
  <1>1. ASSUME NEW i \in S
        PROVE  Projection(nodes, Items(t)[i].node) \in Shown
    <2>1. Items(t)[i].node \in Node
      BY DEF Subtree
    <2> QED BY <2>1, ProjectedType
  <1>2. Affected(t, nodes, n) = [i \in S |-> Projection(nodes, Items(t)[i].node)]
    BY DEF Affected
  <1> HIDE DEF S
  <1>3. S \in SUBSET Item
    BY DEF S
  <1>4. Affected(t, nodes, n) \in [S -> Shown]
    BY <1>1, <1>2
  <1>5. Affected(t, nodes, n) \in Partial(Item, Shown) /\ DOMAIN Affected(t, nodes, n) = S
    <2>1. DOMAIN Affected(t, nodes, n) = S
      BY <1>2
    <2>2. [S -> Shown] \in {[Q -> Shown] : Q \in SUBSET Item}
      BY <1>3
    <2>3. Affected(t, nodes, n) \in UNION {[Q -> Shown] : Q \in SUBSET Item}
      BY <1>4, <2>2, Zenon
    <2> QED BY <2>1, <2>3 DEF Partial
  <1>6. \A i \in S : SearchLock(i) \in Lock
    BY <1>3, LockTypes
  <1>7. SyncLocks(Affected(t, nodes, n)) = {SearchLock(i) : i \in S}
    BY <1>5 DEF SyncLocks
  <1>8. SyncLocks(Affected(t, nodes, n)) \in SUBSET Lock
    BY <1>6, <1>7
  <1> QED BY <1>5, <1>8

(* What a transaction's statements set in it.                              *)
Like(y, x) ==
  /\ y.req = x.req /\ y.version = x.version /\ y.held = x.held /\ y.need = x.need /\ y.pc = x.pc

LEMMA SetFields ==
  ASSUME NEW x \in Transaction
  PROVE  /\ \A rows \in SUBSET Node : LET y == [x EXCEPT !.rows = rows] IN
              y \in Transaction /\ Like(y, x) /\ y.rows = rows /\ y.node = x.node /\ y.item = x.item
         /\ \A node \in Partial(Node, NodeRow) : LET y == [x EXCEPT !.node = node] IN
              y \in Transaction /\ Like(y, x) /\ y.rows = x.rows /\ y.node = node /\ y.item = x.item
         /\ \A item \in Partial(Item, ItemRow) : LET y == [x EXCEPT !.item = item] IN
              y \in Transaction /\ Like(y, x) /\ y.rows = x.rows /\ y.node = x.node /\ y.item = item
         /\ \A sync \in Partial(Item, Shown) : LET y == [x EXCEPT !.sync = sync] IN
              y \in Transaction /\ Like(y, x) /\ y.rows = x.rows /\ y.node = x.node /\ y.item = x.item
         /\ \A node \in Partial(Node, NodeRow), sync \in Partial(Item, Shown) :
              LET y == [x EXCEPT !.node = node, !.sync = sync] IN
              y \in Transaction /\ Like(y, x) /\ y.rows = x.rows /\ y.node = node /\ y.item = x.item
         /\ LET y == [x EXCEPT !.search = x.sync] IN
              y \in Transaction /\ Like(y, x) /\ y.rows = x.rows /\ y.node = x.node /\ y.item = x.item
  <1> DEFINE PS == Partial(Item, Shown)
             PN == Partial(Node, NodeRow)
             PI == Partial(Item, ItemRow)
  <1>1. Transaction =
          [pc : Phase, req : Request \cup {<<>>}, version : Nat, need : SUBSET Lock,
           held : SUBSET Lock, rows : SUBSET Node, sync : PS, node : PN, item : PI, search : PS]
    BY DEF Transaction
  <1> HIDE DEF PS, PN, PI
  <1>2. ASSUME NEW rows \in SUBSET Node
        PROVE  LET y == [x EXCEPT !.rows = rows] IN
               y \in Transaction /\ Like(y, x) /\ y.rows = rows /\ y.node = x.node /\ y.item = x.item
    BY <1>1 DEF Like
  <1>3. ASSUME NEW node \in PN
        PROVE  LET y == [x EXCEPT !.node = node] IN
               y \in Transaction /\ Like(y, x) /\ y.rows = x.rows /\ y.node = node /\ y.item = x.item
    BY <1>1 DEF Like
  <1>4. ASSUME NEW item \in PI
        PROVE  LET y == [x EXCEPT !.item = item] IN
               y \in Transaction /\ Like(y, x) /\ y.rows = x.rows /\ y.node = x.node /\ y.item = item
    BY <1>1 DEF Like
  <1>5. ASSUME NEW sync \in PS
        PROVE  LET y == [x EXCEPT !.sync = sync] IN
               y \in Transaction /\ Like(y, x) /\ y.rows = x.rows /\ y.node = x.node /\ y.item = x.item
    BY <1>1 DEF Like
  <1>6. ASSUME NEW node \in PN, NEW sync \in PS
        PROVE  LET y == [x EXCEPT !.node = node, !.sync = sync] IN
               y \in Transaction /\ Like(y, x) /\ y.rows = x.rows /\ y.node = node /\ y.item = x.item
    BY <1>1 DEF Like
  <1>7. LET y == [x EXCEPT !.search = x.sync] IN
        y \in Transaction /\ Like(y, x) /\ y.rows = x.rows /\ y.node = x.node /\ y.item = x.item
    BY <1>1 DEF Like
  <1> QED BY <1>2, <1>3, <1>4, <1>5, <1>6, <1>7, Zenon DEF PS, PN, PI
-----------------------------------------------------------------------------
(* Steps that commit nothing.                                              *)
LEMMA OwnStep ==
  ASSUME Inv, NEW t \in Txn, NEW y \in Transaction, tx' = [tx EXCEPT ![t] = y],
         UNCHANGED <<db, asks>>,
         \A l \in y.held : \A u \in Txn \ {t} : \A m \in tx[u].held : ~Conflict(l, m),
         y.pc \notin {"idle", "done"} =>
           /\ y.req \in Request /\ Stage(db.node, db.item, y)
           /\ y.req.op = "create" => \/ Busy(t) /\ y.req = tx[t].req
                                     \/ Unused(y.req.node)
  PROVE  Inv'
  <1>1. /\ tx \in [Txn -> Transaction] /\ tx' \in [Txn -> Transaction]
        /\ tx'[t] = y /\ \A u \in Txn \ {t} : tx'[u] = tx[u]
    BY DEF Inv, TypeInv
  <1>2. /\ Busy(t)' <=> y.pc \notin {"idle", "done"}
        /\ \A u \in Txn \ {t} : Busy(u)' <=> Busy(u)
    BY <1>1 DEF Busy
  <1>3. TypeInv'
    <2>1. ASSUME NEW u \in Txn, Busy(u)'
          PROVE  tx'[u].req \in Request
      BY <1>1, <1>2, <2>1 DEF Inv, TypeInv
    <2>2. db' = db /\ asks' = asks
      OBVIOUS
    <2>3. /\ db \in [node : [Node -> NodeRow], item : [Item -> ItemRow], search : [Item -> Shown]]
          /\ asks \subseteq Request
      BY DEF Inv, TypeInv
    <2> QED BY <1>1, <2>1, <2>2, <2>3, Zenon DEF TypeInv
  <1>4. Forest(db.node)'
    <2>1. db' = db
      OBVIOUS
    <2> QED BY <2>1 DEF Inv, Forest
  <1>5. LockInv'
    <2>1. ASSUME NEW l, NEW m
          PROVE  Conflict(l, m) <=> Conflict(m, l)
      BY DEF Conflict
    <2>2. ASSUME NEW u \in Txn, NEW v \in Txn, u # v,
                 NEW l \in tx'[u].held, NEW m \in tx'[v].held
          PROVE  ~Conflict(l, m)
      <3>1. CASE u = t
        BY <1>1, <2>2, <3>1
      <3>2. CASE v = t
        <4>1. ~Conflict(m, l)
          BY <1>1, <2>2, <3>2
        <4> QED BY <2>1, <4>1
      <3>3. CASE u # t /\ v # t
        BY <1>1, <2>2, <3>3 DEF Inv, LockInv
      <3> QED BY <3>1, <3>2, <3>3
    <2> QED BY <2>2 DEF LockInv
  <1>6. UnusedInv'
    <2>1. \A u \in Txn \ {t} : /\ Creating(u)' <=> Creating(u)
                               /\ tx'[u].req = tx[u].req
      BY <1>1, <1>2 DEF Creating
    <2>2. db'.node = db.node
      OBVIOUS
    <2>3. ASSUME Creating(t)'
          PROVE  /\ ~db.node[y.req.node].exists
                 /\ \A u \in Txn \ {t} : Creating(u) => tx[u].req.node # y.req.node
      <3>1. y.pc \notin {"idle", "done"} /\ y.req.op = "create"
        BY <1>1, <1>2, <2>3 DEF Creating
      <3>2. CASE Busy(t) /\ y.req = tx[t].req
        <4>1. Creating(t)
          BY <3>1, <3>2 DEF Creating
        <4> QED BY <3>2, <4>1 DEF Inv, UnusedInv
      <3>3. CASE Unused(y.req.node)
        BY <3>3 DEF Unused, Creating, Busy
      <3> QED BY <3>1, <3>2, <3>3
    <2>4. ASSUME NEW u \in Txn, Creating(u)'
          PROVE  /\ ~db.node[tx'[u].req.node].exists
                 /\ \A v \in Txn \ {u} : Creating(v)' => tx'[v].req.node # tx'[u].req.node
      <3>1. CASE u = t
        BY <1>1, <2>1, <2>3, <2>4, <3>1
      <3>2. CASE u # t
        <4>1. /\ Creating(u) /\ tx'[u].req = tx[u].req
              /\ ~db.node[tx[u].req.node].exists
              /\ \A v \in Txn \ {u} : Creating(v) => tx[v].req.node # tx[u].req.node
          BY <2>1, <2>4, <3>2 DEF Inv, UnusedInv
        <4> QED BY <1>1, <2>1, <2>3, <3>2, <4>1
      <3> QED BY <3>1, <3>2
    <2> QED BY <2>2, <2>4 DEF UnusedInv
  <1>7. StageInv'
    <2>1. db' = db
      OBVIOUS
    <2>2. ASSUME NEW u \in Txn, Busy(u)'
          PROVE  Stage(db.node, db.item, tx'[u])
      <3>1. CASE u = t
        BY <1>1, <1>2, <2>2, <3>1
      <3>2. CASE u # t
        <4>1. Busy(u) /\ tx'[u] = tx[u]
          BY <1>1, <1>2, <2>2, <3>2
        <4> QED BY <4>1 DEF Inv, StageInv
      <3> QED BY <3>1, <3>2
    <2> QED BY <2>1, <2>2 DEF StageInv
  <1> QED BY <1>3, <1>4, <1>5, <1>6, <1>7 DEF Inv

(* The end of one statement and the beginning of the next: x is what the   *)
(* statement makes of t, and the next one is right to begin.               *)
Reaches(t, x, pc, need) ==
  \A y \in Transaction :
    (/\ y.pc = pc /\ y.need = need /\ y.req = tx[t].req /\ y.held = tx[t].held
     /\ y.rows = x.rows /\ y.node = x.node /\ y.item = x.item)
    => Stage(db.node, db.item, y)

LEMMA ProceedStep ==
  ASSUME Inv, NEW t \in Txn, Busy(t), NEW x \in Transaction, Like(x, tx[t]),
         NEW pc \in Phase \ {"idle", "done"}, NEW need \in SUBSET Lock,
         Proceed(t, x, pc, need), UNCHANGED asks, Reaches(t, x, pc, need)
  PROVE  Inv'
  <1> DEFINE y == [x EXCEPT !.pc = pc, !.need = need]
  <1>1. /\ y \in Transaction /\ y.pc = pc /\ y.need = need /\ y.req = x.req /\ y.held = x.held
        /\ y.rows = x.rows /\ y.node = x.node /\ y.item = x.item
    <2>1. pc \in Phase /\ need \in SUBSET Lock
      OBVIOUS
    <2> QED BY <2>1 DEF Transaction
  <1>2. tx' = [tx EXCEPT ![t] = y] /\ UNCHANGED <<db, asks>>
    BY DEF Proceed
  <1> HIDE DEF y
  <1>3. y.req = tx[t].req /\ y.held = tx[t].held
    BY <1>1 DEF Like
  <1>4. Stage(db.node, db.item, y)
    BY <1>1, <1>3 DEF Reaches
  <1>5. \A l \in y.held : \A u \in Txn \ {t} : \A m \in tx[u].held : ~Conflict(l, m)
    BY <1>3 DEF Inv, LockInv
  <1>6. y.req \in Request
    BY <1>3 DEF Inv, TypeInv
  <1> QED BY <1>1, <1>2, <1>3, <1>4, <1>5, <1>6, OwnStep

(* A move whose checks are done.                                           *)
MoveChecked(f, x) ==
  LET r == x.req
      rows == Subtree(f, r.node)
  IN
  /\ x.pc \in {"move subtree", "moved", "synced", "commit"}
  /\ x.item = <<>> /\ f[r.node].exists /\ f[r.to].exists
  /\ NodeLock(r.node, "update") \in x.held /\ NodeLock(r.to, "update") \in x.held
  /\ RootLock(f[r.node].root) \in x.held /\ RootLock(f[r.to].root) \in x.held
  /\ Accessible(f, r.node, r.privileged) /\ Accessible(f, r.to, r.privileged)
  /\ f[r.node].parent # r.to /\ r.to \notin rows /\ x.rows = rows
  /\ \A d \in rows : NodeLock(d, "no key update") \in Claims(x)
  /\ x.pc # "move subtree" =>
       /\ \A d \in rows : NodeLock(d, "no key update") \in x.held
       /\ x.node = [d \in rows |-> Moved(f, r.node, r.to, d)]

LEMMA CheckedMove ==
  ASSUME NEW f, NEW x, MoveChecked(f, x)
  PROVE  MoveStage(f, x)
  <1>1. x.held \subseteq Claims(x) /\ x.pc \in {"move subtree", "moved", "synced", "commit"}
    BY DEF Claims, MoveChecked
  <1> DEFINE r == x.req
             rows == Subtree(f, r.node)
             writes == [d \in rows |-> Moved(f, r.node, r.to, d)]
  <1>2. x.pc # "move subtree" => x.node = writes
    BY Zenon DEF MoveChecked
  <1>3. \A d \in rows : NodeLock(d, "no key update") \in Claims(x)
    BY Zenon DEF MoveChecked
  <1>4. x.pc # "move subtree" => \A d \in rows : NodeLock(d, "no key update") \in x.held
    BY Zenon DEF MoveChecked
  <1>5. /\ x.item = <<>> /\ f[r.node].exists /\ f[r.to].exists
        /\ NodeLock(r.node, "update") \in x.held /\ NodeLock(r.to, "update") \in x.held
        /\ RootLock(f[r.node].root) \in x.held /\ RootLock(f[r.to].root) \in x.held
        /\ Accessible(f, r.node, r.privileged) /\ Accessible(f, r.to, r.privileged)
        /\ f[r.node].parent # r.to /\ r.to \notin rows /\ x.rows = rows
    BY Zenon DEF MoveChecked
  <1> HIDE DEF r, rows, writes
  <1> QED BY <1>1, <1>2, <1>3, <1>4, <1>5 DEF MoveStage, r, rows, writes

LEMMA MoveIsChecked ==
  ASSUME NEW f, NEW x, MoveStage(f, x),
         x.pc \in {"move subtree", "moved", "synced", "commit"}
  PROVE  MoveChecked(f, x)
  BY Zenon DEF MoveStage, MoveChecked

LEMMA AcquireStage ==
  ASSUME NEW f, NEW i, NEW x, NEW y, Stage(f, i, x),
         y.pc = x.pc, y.req = x.req, y.rows = x.rows, y.node = x.node, y.item = x.item,
         Claims(y) = Claims(x), x.held \subseteq y.held
  PROVE  Stage(f, i, y)
  <1>1. ASSUME CreateStage(f, x)
        PROVE  CreateStage(f, y)
    BY <1>1 DEF CreateStage
  <1>2. ASSUME UpdateStage(f, x)
        PROVE  UpdateStage(f, y)
    BY <1>2 DEF UpdateStage
  <1>3. ASSUME MoveStage(f, x)
        PROVE  MoveStage(f, y)
    <2>1. CASE x.pc \in {"move subtree", "moved", "synced", "commit"}
      <3>1. MoveChecked(f, x)
        BY <1>3, <2>1, MoveIsChecked
      <3>2. MoveChecked(f, y)
        <4> DEFINE r == x.req
                   rows == Subtree(f, r.node)
                   writes == [d \in rows |-> Moved(f, r.node, r.to, d)]
        <4>1. /\ x.pc \in {"move subtree", "moved", "synced", "commit"}
              /\ x.item = <<>> /\ f[r.node].exists /\ f[r.to].exists
              /\ NodeLock(r.node, "update") \in x.held /\ NodeLock(r.to, "update") \in x.held
              /\ RootLock(f[r.node].root) \in x.held /\ RootLock(f[r.to].root) \in x.held
              /\ Accessible(f, r.node, r.privileged) /\ Accessible(f, r.to, r.privileged)
              /\ f[r.node].parent # r.to /\ r.to \notin rows /\ x.rows = rows
              /\ \A d \in rows : NodeLock(d, "no key update") \in Claims(x)
              /\ x.pc # "move subtree" =>
                   /\ \A d \in rows : NodeLock(d, "no key update") \in x.held
                   /\ x.node = writes
          BY <3>1, Zenon DEF MoveChecked
        <4>2. /\ NodeLock(r.node, "update") \in y.held /\ NodeLock(r.to, "update") \in y.held
              /\ RootLock(f[r.node].root) \in y.held /\ RootLock(f[r.to].root) \in y.held
              /\ \A d \in rows : NodeLock(d, "no key update") \in Claims(y)
              /\ x.pc # "move subtree" => \A d \in rows : NodeLock(d, "no key update") \in y.held
          <5> HIDE DEF rows, writes
          <5> QED BY <4>1
        <4>3. /\ y.req = r /\ y.pc \in {"move subtree", "moved", "synced", "commit"}
              /\ y.item = <<>> /\ y.rows = rows /\ (y.pc # "move subtree" => y.node = writes)
          <5> HIDE DEF rows, writes
          <5> QED BY <4>1
        <4>4. y.pc # "move subtree" => \A d \in rows : NodeLock(d, "no key update") \in y.held
          BY <4>2
        <4> HIDE DEF r, rows, writes
        <4> QED BY <4>1, <4>2, <4>3, <4>4, Zenon DEF MoveChecked, rows, writes
      <3> QED BY <3>2, CheckedMove
    <2>2. CASE x.pc \in {"move", "move locked", "move rooted"}
      BY <1>3, <2>2 DEF MoveStage
    <2>3. CASE x.pc \notin {"move", "move locked", "move rooted", "move subtree", "moved",
                          "synced", "commit"}
      BY <1>3, <2>3 DEF MoveStage
    <2> QED BY <2>1, <2>2, <2>3
  <1>4. ASSUME ItemStage(i, x)
        PROVE  ItemStage(i, y)
    BY <1>4 DEF ItemStage
  <1> QED BY <1>1, <1>2, <1>3, <1>4 DEF Stage

LEMMA AcquireStep ==
  ASSUME Inv, NEW t \in Txn, Acquire(t), UNCHANGED asks
  PROVE  Inv'
  <1> DEFINE x == tx[t]
  <1>1. PICK l \in Next1(t) :
          /\ Holders(t, l) = {}
          /\ tx' = [tx EXCEPT ![t].need = @ \ {l}, ![t].held = @ \cup {l}]
          /\ UNCHANGED db
    BY DEF Acquire
  <1>2. x \in Transaction /\ l \in x.need
    BY <1>1 DEF Inv, TypeInv, Next1
  <1> DEFINE y == [x EXCEPT !.need = @ \ {l}, !.held = @ \cup {l}]
  <1>3. tx' = [tx EXCEPT ![t] = y]
    BY <1>1 DEF Inv, TypeInv
  <1>4. /\ y \in Transaction /\ y.pc = x.pc /\ y.req = x.req /\ y.rows = x.rows /\ y.node = x.node
        /\ y.item = x.item /\ y.need = x.need \ {l} /\ y.held = x.held \cup {l}
    BY <1>2 DEF Transaction
  <1> HIDE DEF y, x
  <1>5. \A k \in y.held : \A u \in Txn \ {t} : \A m \in tx[u].held : ~Conflict(k, m)
    <2>1. \A u \in Txn \ {t} : \A m \in tx[u].held : ~Conflict(l, m)
      BY <1>1 DEF Holders
    <2>2. \A k \in x.held : \A u \in Txn \ {t} : \A m \in tx[u].held : ~Conflict(k, m)
      BY DEF Inv, LockInv, x
    <2> QED BY <1>4, <2>1, <2>2
  <1>6. Claims(y) = Claims(x) /\ x.held \subseteq y.held
    BY <1>2, <1>4 DEF Claims
  <1>7. ASSUME Busy(t)
        PROVE  Stage(db.node, db.item, y) /\ y.req \in Request
    <2>1. Stage(db.node, db.item, x) /\ x.req \in Request
      BY <1>7 DEF Inv, StageInv, TypeInv, x
    <2> QED BY <1>4, <1>6, <2>1, AcquireStage
  <1>8. y.pc \notin {"idle", "done"} => Busy(t)
    BY <1>4 DEF Busy, x
  <1> QED BY <1>1, <1>3, <1>4, <1>5, <1>7, <1>8, OwnStep DEF x

LEMMA AbortStep ==
  ASSUME Inv, NEW t \in Txn, Abort(t), UNCHANGED asks
  PROVE  Inv'
  <1> DEFINE y == [Fresh EXCEPT !.pc = "done"]
  <1>1. y \in Transaction /\ y.pc = "done" /\ y.held = {}
    BY FreshType
  <1>2. tx' = [tx EXCEPT ![t] = y] /\ UNCHANGED <<db, asks>>
    BY DEF Abort
  <1> HIDE DEF y
  <1> QED BY <1>1, <1>2, OwnStep
(* The start of a transaction.                                             *)
LEMMA BeginStep ==
  ASSUME Inv, NEW t \in Txn, NEW r \in asks, Begin(t, r), UNCHANGED asks
  PROVE  Inv'
  <1> DEFINE loaded == IF r.op \in {"place", "edit"} THEN db.item[r.item].version
                       ELSE IF r.op = "create" THEN 0 ELSE db.node[r.node].version
             x == [Fresh EXCEPT !.req = r, !.version = loaded]
             y == [x EXCEPT !.pc = r.op, !.need = {}]
  <1>1. r \in Request
    BY DEF Inv, TypeInv
  <1>2. /\ db.item \in [Item -> ItemRow] /\ db.node \in [Node -> NodeRow]
    BY DEF Inv, TypeInv
  <1>3. loaded \in Nat
    BY <1>1, <1>2, RequestFields DEF ItemRow, NodeRow
  <1>4. tx' = [tx EXCEPT ![t] = y] /\ UNCHANGED <<db, asks>>
    BY Zenon DEF Begin, Proceed
  <1>5. r.op = "create" => Unused(r.node)
    BY DEF Begin
  <1> HIDE DEF loaded
  <1>6. /\ x \in Transaction /\ x.req = r /\ x.node = <<>> /\ x.item = <<>> /\ x.held = {}
    BY <1>1, <1>3, FreshType
  <1> HIDE DEF x
  <1>7. r.op \in Phase
    BY <1>1, RequestFields DEF Phase
  <1>8. /\ y \in Transaction /\ y.pc = r.op /\ y.need = {} /\ y.req = r /\ y.held = {}
        /\ y.node = <<>> /\ y.item = <<>>
    BY <1>6, <1>7 DEF Transaction
  <1> HIDE DEF y
  <1>9. Stage(db.node, db.item, y)
    BY <1>1, <1>8, RequestFields DEF Stage, CreateStage, UpdateStage, MoveStage, ItemStage
  <1> QED BY <1>1, <1>4, <1>5, <1>8, <1>9, OwnStep

-----------------------------------------------------------------------------
(* A commit.                                                               *)
LEMMA CommitWrites ==
  ASSUME Inv, NEW t \in Txn, tx[t].pc = "commit"
  PROVE  Written(db.node, Nodes(t), tx[t])
  <1>1. /\ db.node \in [Node -> NodeRow] /\ Forest(db.node) /\ tx[t] \in Transaction /\ Busy(t)
    BY DEF Inv, TypeInv, Busy
  <1>2. tx[t].req \in Request /\ Stage(db.node, db.item, tx[t])
    BY <1>1 DEF Inv, TypeInv, StageInv
  <1>3. tx[t].req.op = "create" => ~db.node[tx[t].req.node].exists
    BY <1>1 DEF Inv, UnusedInv, Creating
  <1>4. CASE tx[t].req.op = "create"
    BY <1>1, <1>2, <1>3, <1>4, CreateWritten DEF Stage, Nodes
  <1>5. CASE tx[t].req.op = "update"
    BY <1>1, <1>2, <1>5, UpdateWritten DEF Stage, Nodes
  <1>6. CASE tx[t].req.op = "move"
    BY <1>1, <1>2, <1>6, MoveWritten DEF Stage, Nodes
  <1>7. CASE tx[t].req.op \in {"place", "edit"}
    <2>1. tx[t].node = <<>>
      BY <1>2, <1>7 DEF Stage, ItemStage
    <2> QED BY <1>1, <2>1, ItemWritten DEF Nodes
  <1> QED BY <1>2, <1>4, <1>5, <1>6, <1>7, RequestFields

LEMMA CommitItems ==
  ASSUME Inv, NEW t \in Txn, tx[t].pc = "commit"
  PROVE  /\ Items(t) \in [Item -> ItemRow]
         /\ \A i \in Item : Items(t)[i] # db.item[i] =>
              ItemLock(i) \in tx[t].held /\ Items(t)[i].version = db.item[i].version + 1
  <1>1. /\ db.item \in [Item -> ItemRow] /\ Busy(t)
    BY DEF Inv, TypeInv, Busy
  <1>2. tx[t].req \in Request /\ Stage(db.node, db.item, tx[t])
    BY <1>1 DEF Inv, TypeInv, StageInv
  <1>3. CASE tx[t].item = <<>>
    <2>1. Items(t) = db.item
      BY <1>1, <1>3, NothingOver DEF Items
    <2> QED BY <1>1, <2>1
  <1>4. CASE tx[t].req.op \in {"place", "edit"}
    <2> DEFINE c == tx[t].req.item
    <2>1. c \in Item
      BY <1>2, <1>4, RequestFields
    <2>2. ItemStage(db.item, tx[t])
      BY <1>2, <1>4 DEF Stage
    <2>3. ItemLock(c) \in tx[t].held
      BY <2>2 DEF ItemStage
    <2>4. PICK new \in ItemRow : new.version = db.item[c].version + 1 /\ tx[t].item = Only(c, new)
      BY <2>2 DEF ItemStage
    <2> HIDE DEF c
    <2>5. Items(t) = Over(Only(c, new), db.item)
      BY <2>4 DEF Items
    <2>6. /\ Over(Only(c, new), db.item) \in [Item -> ItemRow]
          /\ \A i \in Item : Over(Only(c, new), db.item)[i] = IF i = c THEN new ELSE db.item[i]
      BY <1>1, <2>1 DEF Over, Only
    <2> QED BY <2>1, <2>3, <2>4, <2>5, <2>6
  <1>5. tx[t].req.op \in {"create", "update", "move"} => tx[t].item = <<>>
    BY <1>2 DEF Stage, CreateStage, UpdateStage, MoveStage
  <1> QED BY <1>2, <1>3, <1>4, <1>5, RequestFields

(* What t commits, no other transaction was counting on.                   *)
LEMMA CommitUndisturbed ==
  ASSUME Inv, NEW t \in Txn, tx[t].pc = "commit", NEW u \in Txn \ {t}
  PROVE  /\ Undisturbed(db.node, Nodes(t), tx[u].held)
         /\ ItemsUndisturbed(db.item, Items(t), tx[u].held)
  <1> DEFINE f == db.node
             g == Nodes(t)
  <1>1. Written(f, g, tx[t])
    BY CommitWrites
  <1>2. \A l \in tx[t].held, m \in tx[u].held : ~Conflict(l, m)
    BY DEF Inv, LockInv
  <1> HIDE DEF f, g
  <1>3. ASSUME NEW n, NEW mode, NodeLock(n, mode) \in tx[t].held
        PROVE  NodeLock(n, "update") \notin tx[u].held
    BY <1>2, <1>3 DEF Conflict, NodeLock
  <1>4. ASSUME NEW n, RootLock(n) \in tx[t].held
        PROVE  RootLock(n) \notin tx[u].held
    BY <1>2, <1>4 DEF Conflict, RootLock
  <1>5. ASSUME NEW i, ItemLock(i) \in tx[t].held
        PROVE  ItemLock(i) \notin tx[u].held
    BY <1>2, <1>5 DEF Conflict, ItemLock
  <1>6. Undisturbed(f, g, tx[u].held)
    <2>1. ASSUME NEW n \in Node, g[n] # f[n]
          PROVE  /\ g[n].exists /\ RootLock(g[n].root) \notin tx[u].held
                 /\ f[n].exists => /\ NodeLock(n, "update") \notin tx[u].held
                                   /\ RootLock(f[n].root) \notin tx[u].held
      <3>1. RowGuarded(f, g, tx[t], n)
        BY <1>1, <2>1 DEF Written
      <3> QED BY <1>3, <1>4, <3>1 DEF RowGuarded
    <2> QED BY <2>1, Zenon DEF Undisturbed
  <1>7. ItemsUndisturbed(db.item, Items(t), tx[u].held)
    BY <1>5, CommitItems DEF ItemsUndisturbed
  <1> QED BY <1>6, <1>7 DEF f, g

LEMMA CommitStep ==
  ASSUME Inv, NEW t \in Txn, Commit(t), UNCHANGED asks
  PROVE  Inv'
  <1> DEFINE y == [Fresh EXCEPT !.pc = "done"]
             g == Nodes(t)
             j == Items(t)
             shown == Over(tx[t].search, db.search)
  <1>1. y \in Transaction /\ y.pc = "done" /\ y.held = {}
    BY FreshType
  <1>2. /\ tx[t].pc = "commit" /\ tx' = [tx EXCEPT ![t] = y]
        /\ db' = [node |-> g, item |-> j, search |-> shown]
    BY DEF Commit, At
  <1>3. Written(db.node, g, tx[t])
    BY <1>2, CommitWrites
  <1>4. j \in [Item -> ItemRow]
    BY <1>2, CommitItems
  <1>5. \A u \in Txn \ {t} : /\ Undisturbed(db.node, g, tx[u].held)
                             /\ ItemsUndisturbed(db.item, j, tx[u].held)
    BY <1>2, CommitUndisturbed
  <1>6. shown \in [Item -> Shown]
    <2>1. tx[t].search \in Partial(Item, Shown) /\ db.search \in [Item -> Shown]
      BY DEF Inv, TypeInv, Transaction
    <2> QED BY <2>1, OverTable
  <1> HIDE DEF y, g, j, shown
  <1>7. /\ db'.node = g /\ db'.item = j /\ db'.search = shown
        /\ g \in [Node -> NodeRow] /\ Forest(g)
    BY <1>2, <1>3 DEF Written
  <1>8. /\ tx \in [Txn -> Transaction] /\ tx' \in [Txn -> Transaction]
        /\ tx'[t] = y /\ \A u \in Txn \ {t} : tx'[u] = tx[u]
    BY <1>1, <1>2 DEF Inv, TypeInv
  <1>9. /\ ~Busy(t)' /\ \A u \in Txn \ {t} : Busy(u)' <=> Busy(u)
    BY <1>1, <1>8 DEF Busy
  <1>10. TypeInv'
    <2>1. db' \in [node : [Node -> NodeRow], item : [Item -> ItemRow], search : [Item -> Shown]]
      BY <1>2, <1>4, <1>6, <1>7
    <2>2. ASSUME NEW u \in Txn, Busy(u)'
          PROVE  tx'[u].req \in Request
      BY <1>8, <1>9, <2>2 DEF Inv, TypeInv
    <2>3. asks' \subseteq Request
      BY DEF Inv, TypeInv
    <2> QED BY <1>8, <2>1, <2>2, <2>3, Zenon DEF TypeInv
  <1>11. Forest(db.node)'
    BY <1>7 DEF Forest
  <1>12. LockInv'
    <2>1. ASSUME NEW u \in Txn, NEW v \in Txn, u # v,
                 NEW l \in tx'[u].held, NEW m \in tx'[v].held
          PROVE  ~Conflict(l, m)
      <3>1. u # t /\ v # t
        BY <1>1, <1>8, <2>1
      <3> QED BY <1>8, <2>1, <3>1 DEF Inv, LockInv
    <2> QED BY <2>1 DEF LockInv
  <1>13. UnusedInv'
    <2>1. ASSUME NEW u \in Txn, Creating(u)'
          PROVE  /\ ~g[tx'[u].req.node].exists
                 /\ \A v \in Txn \ {u} : Creating(v)' => tx'[v].req.node # tx'[u].req.node
      <3>1. u # t /\ tx'[u] = tx[u] /\ Creating(u)
        BY <1>8, <1>9, <2>1 DEF Creating
      <3>2. \A v \in Txn : Creating(v)' => Creating(v) /\ tx'[v] = tx[v]
        BY <1>8, <1>9 DEF Creating
      <3>3. /\ ~db.node[tx[u].req.node].exists
            /\ \A v \in Txn \ {u} : Creating(v) => tx[v].req.node # tx[u].req.node
        BY <3>1 DEF Inv, UnusedInv
      <3>4. ~g[tx[u].req.node].exists
        <4> DEFINE c == tx[u].req.node
        <4>1. c \in Node
          BY <3>1, RequestFields DEF Creating, Inv, TypeInv
        <4>2. ASSUME g[c] # db.node[c]
              PROVE  FALSE
          <5>1. RowGuarded(db.node, g, tx[t], c)
            BY <1>3, <4>1, <4>2 DEF Written
          <5>2. tx[t].req.op = "create" /\ tx[t].req.node = c
            BY <3>3, <5>1 DEF RowGuarded
          <5>3. Creating(t)
            BY <1>2, <5>2 DEF Creating, Busy
          <5> QED BY <3>1, <3>3, <5>2, <5>3
        <4> QED BY <3>3, <4>2
      <3> QED BY <3>1, <3>2, <3>3, <3>4
    <2> QED BY <1>7, <2>1 DEF UnusedInv
  <1>14. StageInv'
    <2>1. ASSUME NEW u \in Txn, Busy(u)'
          PROVE  Stage(g, j, tx'[u])
      <3>1. u # t /\ tx'[u] = tx[u] /\ Busy(u)
        BY <1>8, <1>9, <2>1
      <3>2. /\ tx[u] \in Transaction /\ tx[u].req \in Request /\ Stage(db.node, db.item, tx[u])
            /\ db.node \in [Node -> NodeRow] /\ Forest(db.node) /\ db.item \in [Item -> ItemRow]
        BY <3>1 DEF Inv, TypeInv, StageInv
      <3>3. Undisturbed(db.node, g, tx[u].held) /\ ItemsUndisturbed(db.item, j, tx[u].held)
        BY <1>5, <3>1
      <3> QED BY <1>4, <1>7, <3>1, <3>2, <3>3, StageKept
    <2> QED BY <1>7, <2>1 DEF StageInv
  <1> QED BY <1>10, <1>11, <1>12, <1>13, <1>14 DEF Inv
-----------------------------------------------------------------------------
(* The initial states.                                                     *)
LEMMA InitInv == Init => Inv
  <1> SUFFICES ASSUME Init PROVE Inv
    OBVIOUS
  <1>1. PICK s \in Scenarios :
          /\ db = [node   |-> s.nodes,
                   item   |-> [i \in Item |-> [node |-> s.places[i], version |-> 1]],
                   search |-> [i \in Item |-> Projected(s.nodes, s.places[i])]]
          /\ asks = s.requests
    BY Zenon DEF Init
  <1>2. /\ s.nodes \in [Node -> NodeRow] /\ Forest(s.nodes)
        /\ s.places \in [Item -> Node \cup {NoNode}] /\ s.requests \subseteq Request
    BY ScenarioAssumption
  <1>3. /\ db.node = s.nodes /\ tx = [t \in Txn |-> Fresh]
        /\ db.item = [i \in Item |-> [node |-> s.places[i], version |-> 1]]
        /\ db.search = [i \in Item |-> Projected(s.nodes, s.places[i])]
    BY <1>1 DEF Init
  <1>4. db.item \in [Item -> ItemRow]
    BY <1>2, <1>3 DEF ItemRow
  <1>5. db.search \in [Item -> Shown]
    <2>1. ASSUME NEW i \in Item
          PROVE  Projected(s.nodes, s.places[i]) \in Shown
      BY <1>2, ProjectedType
    <2> QED BY <1>3, <2>1
  <1>6. Fresh \in Transaction /\ Fresh.held = {} /\ Fresh.pc = "idle"
    BY FreshType DEF Fresh
  <1>7. \A t \in Txn : tx[t] = Fresh /\ ~Busy(t)
    BY <1>3, <1>6 DEF Busy
  <1>8. TypeInv
    <2>1. db = [node |-> db.node, item |-> db.item, search |-> db.search]
      BY <1>1
    <2>2. db \in [node : [Node -> NodeRow], item : [Item -> ItemRow], search : [Item -> Shown]]
      BY <1>2, <1>3, <1>4, <1>5, <2>1
    <2>3. tx \in [Txn -> Transaction]
      BY <1>3, <1>6
    <2>4. asks \subseteq Request
      BY <1>1, <1>2
    <2> QED BY <1>7, <2>2, <2>3, <2>4 DEF TypeInv
  <1>9. Forest(db.node)
    BY <1>2, <1>3
  <1>10. LockInv /\ UnusedInv /\ StageInv
    BY <1>6, <1>7 DEF LockInv, UnusedInv, StageInv, Creating
  <1> QED BY <1>8, <1>9, <1>10 DEF Inv
-----------------------------------------------------------------------------
(* The statements, one by one.                                             *)
LEMMA Standing ==
  ASSUME Inv, NEW t \in Txn
  PROVE  /\ tx[t] \in Transaction /\ Like(tx[t], tx[t])
         /\ db.node \in [Node -> NodeRow] /\ Forest(db.node) /\ db.item \in [Item -> ItemRow]
         /\ Busy(t) => tx[t].req \in Request /\ Stage(db.node, db.item, tx[t])
         /\ tx[t].need = {} => Claims(tx[t]) = tx[t].held
  BY DEF Inv, TypeInv, StageInv, Claims, Like

LEMMA StageOp ==
  ASSUME NEW f, NEW i, NEW x, x.req \in Request, Stage(f, i, x)
  PROVE  /\ x.pc \in {"create", "create locked", "create rooted"} =>
              x.req.op = "create" /\ CreateStage(f, x)
         /\ x.pc \in {"update", "update locked", "update rooted"} =>
              x.req.op = "update" /\ UpdateStage(f, x)
         /\ x.pc \in {"move", "move locked", "move rooted", "move subtree", "moved"} =>
              x.req.op = "move" /\ MoveStage(f, x)
         /\ x.pc = "synced" => \/ x.req.op = "update" /\ UpdateStage(f, x)
                               \/ x.req.op = "move" /\ MoveStage(f, x)
         /\ x.pc \in {"place", "edit", "item resolved", "item locked", "item placed",
                      "item relocked", "item projected"} =>
              x.req.op \in {"place", "edit"} /\ ItemStage(i, x)
  <1>1. x.req.op \in {"create", "update", "move", "place", "edit"}
    BY RequestFields
  <1>2. CASE x.req.op = "create"
    <2>1. CreateStage(f, x)
      BY <1>2 DEF Stage
    <2>2. x.pc \in {"create", "create locked", "create rooted", "commit"}
      BY <2>1 DEF CreateStage
    <2> QED BY <1>2, <2>1, <2>2
  <1>3. CASE x.req.op = "update"
    <2>1. UpdateStage(f, x)
      BY <1>3 DEF Stage
    <2>2. x.pc \in {"update", "update locked", "update rooted", "synced", "commit"}
      BY <2>1 DEF UpdateStage
    <2> QED BY <1>3, <2>1, <2>2
  <1>4. CASE x.req.op = "move"
    <2>1. MoveStage(f, x)
      BY <1>4 DEF Stage
    <2>2. x.pc \in {"move", "move locked", "move rooted", "move subtree", "moved", "synced",
                    "commit"}
      BY <2>1 DEF MoveStage
    <2> QED BY <1>4, <2>1, <2>2
  <1>5. CASE x.req.op \in {"place", "edit"}
    <2>1. ItemStage(i, x)
      BY <1>5 DEF Stage
    <2>2. x.pc \in {"place", "edit", "item resolved", "item locked", "item placed",
                    "item relocked", "item projected", "commit"}
      BY <2>1 DEF ItemStage
    <2> QED BY <1>5, <2>1, <2>2
  <1> QED BY <1>1, <1>2, <1>3, <1>4, <1>5

LEMMA CreateSteps ==
  ASSUME Inv, NEW t \in Txn, UNCHANGED asks,
         CreateLocksParent(t) \/ CreateLocksRoot(t) \/ CreateInserts(t)
  PROVE  Inv'
  <1> DEFINE x == tx[t]
             r == x.req
             f == db.node
             i == db.item
  <1>1. /\ x.pc \in {"create", "create locked", "create rooted"} /\ x.need = {} /\ Busy(t)
    BY DEF CreateLocksParent, CreateLocksRoot, CreateInserts, At, Busy
  <1>2. /\ x \in Transaction /\ Like(x, tx[t]) /\ f \in [Node -> NodeRow] /\ Forest(f)
        /\ r \in Request /\ Claims(x) = x.held /\ r.op = "create" /\ CreateStage(f, x)
    BY <1>1, Standing, StageOp
  <1>3. r.node \in Node /\ r.to \in Node \cup {NoNode} /\ r.privileged \in BOOLEAN
        /\ r.private \in BOOLEAN
    BY <1>2, RequestFields
  <1>4. \A y : y.req = r /\ CreateStage(f, y) => Stage(f, i, y)
    BY <1>2 DEF Stage
  <1>5. x.item = <<>>
    BY <1>2 DEF CreateStage
  <1>6. CASE CreateLocksParent(t)
    <2>1. CASE r.to = NoNode
      <3> DEFINE need == {RootLock(r.node)}
      <3>1. Proceed(t, x, "create rooted", need)
        BY <1>6, <2>1, Zenon DEF CreateLocksParent
      <3>2. need \in SUBSET Lock
        BY <1>3, LockTypes
      <3>3. ASSUME NEW y \in Transaction,
                   /\ y.pc = "create rooted" /\ y.need = need /\ y.req = r /\ y.held = x.held
                   /\ y.rows = x.rows /\ y.node = x.node /\ y.item = x.item
            PROVE  Stage(f, i, y)
        <4>1. CreateStage(f, y)
          BY <1>5, <2>1, <3>3 DEF CreateStage, Claims
        <4> QED BY <1>4, <3>3, <4>1
      <3> HIDE DEF need
      <3>4. Reaches(t, x, "create rooted", need)
        BY <3>3 DEF Reaches
      <3> QED BY <1>1, <1>2, <3>1, <3>2, <3>4, ProceedStep DEF Phase
    <2>2. CASE r.to # NoNode
      <3> DEFINE need == {NodeLock(r.to, "update")}
      <3>1. Proceed(t, x, "create locked", need) /\ f[r.to].exists
        BY <1>6, <2>2, Zenon DEF CreateLocksParent
      <3>2. need \in SUBSET Lock
        BY <1>3, <2>2, LockTypes
      <3>3. ASSUME NEW y \in Transaction,
                   /\ y.pc = "create locked" /\ y.need = need /\ y.req = r /\ y.held = x.held
                   /\ y.rows = x.rows /\ y.node = x.node /\ y.item = x.item
            PROVE  Stage(f, i, y)
        <4>1. CreateStage(f, y)
          BY <1>5, <2>2, <3>1, <3>3 DEF CreateStage, Claims
        <4> QED BY <1>4, <3>3, <4>1
      <3> HIDE DEF need
      <3>4. Reaches(t, x, "create locked", need)
        BY <3>3 DEF Reaches
      <3> QED BY <1>1, <1>2, <3>1, <3>2, <3>4, ProceedStep DEF Phase
    <2> QED BY <2>1, <2>2
  <1>7. CASE CreateLocksRoot(t)
    <2> DEFINE need == {RootLock(f[r.to].root)}
    <2>1. x.pc = "create locked" /\ Proceed(t, x, "create rooted", need)
      BY <1>7, Zenon DEF CreateLocksRoot, At
    <2>2. r.to # NoNode /\ f[r.to].exists /\ NodeLock(r.to, "update") \in x.held
      BY <1>2, <2>1 DEF CreateStage
    <2>3. f[r.to].root \in Node \cup {NoNode}
      BY <1>2, <1>3, <2>2 DEF NodeRow
    <2>4. need \in SUBSET Lock
      BY <2>3, LockTypes
    <2>5. ASSUME NEW y \in Transaction,
                 /\ y.pc = "create rooted" /\ y.need = need /\ y.req = r /\ y.held = x.held
                 /\ y.rows = x.rows /\ y.node = x.node /\ y.item = x.item
          PROVE  Stage(f, i, y)
      <3>1. CreateStage(f, y)
        BY <1>5, <2>2, <2>5 DEF CreateStage, Claims
      <3> QED BY <1>4, <2>5, <3>1
    <2> HIDE DEF need
    <2>6. Reaches(t, x, "create rooted", need)
      BY <2>5 DEF Reaches
    <2> QED BY <1>1, <1>2, <2>1, <2>4, <2>6, ProceedStep DEF Phase
  <1>8. CASE CreateInserts(t)
    <2> DEFINE under == r.to # NoNode
               row == NewRow(f, r)
               need == IF under THEN References({row.root}) ELSE {}
               z == [x EXCEPT !.node = Only(r.node, row)]
    <2>1. /\ x.pc = "create rooted" /\ Proceed(t, z, "commit", need)
          /\ under => Accessible(f, r.to, r.privileged)
      BY <1>8, Zenon DEF CreateInserts, At, NewRow
    <2>2. /\ under => f[r.to].exists /\ NodeLock(r.to, "update") \in x.held
          /\ RootLock(IF under THEN f[r.to].root ELSE r.node) \in x.held
      BY <1>2, <2>1 DEF CreateStage
    <2>3. row \in NodeRow /\ row.root \in Node \cup {NoNode}
      <3>1. (IF under THEN Append(f[r.to].path, r.node) ELSE <<r.node>>) \in Seq(Node)
        BY <1>2, <1>3 DEF NodeRow
      <3>2. (IF under THEN f[r.to].root ELSE r.node) \in Node \cup {NoNode}
        BY <1>2, <1>3 DEF NodeRow
      <3> HIDE DEF under
      <3> QED BY <1>3, <3>1, <3>2 DEF NewRow, Absent, NodeRow, under
    <2> HIDE DEF row
    <2>4. need \in SUBSET Lock
      BY <2>3, LockTypes
    <2>5. Only(r.node, row) \in Partial(Node, NodeRow)
      <3>1. Only(r.node, row) \in [{r.node} -> NodeRow] /\ {r.node} \in SUBSET Node
        BY <1>3, <2>3 DEF Only
      <3> QED BY <3>1, PartialFunction
    <2>6. z \in Transaction /\ Like(z, x) /\ z.rows = x.rows /\ z.node = Only(r.node, row) /\ z.item = x.item
      BY <1>2, <2>5, SetFields
    <2> HIDE DEF need, z
    <2>7. ASSUME NEW y \in Transaction,
                 /\ y.pc = "commit" /\ y.need = need /\ y.req = r /\ y.held = x.held
                 /\ y.rows = z.rows /\ y.node = z.node /\ y.item = z.item
          PROVE  Stage(f, i, y)
      <3>1. CreateStage(f, y)
        BY <1>5, <2>1, <2>2, <2>6, <2>7 DEF CreateStage, Claims, row
      <3> QED BY <1>4, <2>7, <3>1
    <2>8. Reaches(t, z, "commit", need)
      BY <2>7 DEF Reaches
    <2> QED BY <1>1, <1>2, <2>1, <2>4, <2>6, <2>8, ProceedStep DEF Phase
  <1> QED BY <1>6, <1>7, <1>8
LEMMA UpdateSteps ==
  ASSUME Inv, NEW t \in Txn, UNCHANGED asks,
         UpdateLocksNode(t) \/ UpdateLocksRoot(t) \/ UpdateWrites(t)
  PROVE  Inv'
  <1> DEFINE x == tx[t]
             r == x.req
             c == r.node
             f == db.node
             i == db.item
  <1>1. /\ x.pc \in {"update", "update locked", "update rooted"} /\ x.need = {} /\ Busy(t)
    BY DEF UpdateLocksNode, UpdateLocksRoot, UpdateWrites, At, Busy
  <1>2. /\ x \in Transaction /\ Like(x, tx[t]) /\ f \in [Node -> NodeRow] /\ Forest(f)
        /\ r \in Request /\ Claims(x) = x.held /\ r.op = "update" /\ UpdateStage(f, x)
    BY <1>1, Standing, StageOp
  <1>3. c \in Node /\ r.privileged \in BOOLEAN /\ f[c] \in NodeRow
    BY <1>2, RequestFields
  <1>4. \A y : y.req = r /\ UpdateStage(f, y) => Stage(f, i, y)
    BY <1>2 DEF Stage
  <1>5. x.item = <<>>
    BY <1>2 DEF UpdateStage
  <1>6. CASE UpdateLocksNode(t)
    <2> DEFINE need == {NodeLock(c, "update")}
    <2>1. Proceed(t, x, "update locked", need) /\ f[c].exists
      BY <1>6, Zenon DEF UpdateLocksNode
    <2>2. need \in SUBSET Lock
      BY <1>3, LockTypes
    <2>3. ASSUME NEW y \in Transaction,
                 /\ y.pc = "update locked" /\ y.need = need /\ y.req = r /\ y.held = x.held
                 /\ y.rows = x.rows /\ y.node = x.node /\ y.item = x.item
          PROVE  Stage(f, i, y)
      <3>1. UpdateStage(f, y)
        BY <1>5, <2>1, <2>3 DEF UpdateStage, Claims
      <3> QED BY <1>4, <2>3, <3>1
    <2> HIDE DEF need
    <2>4. Reaches(t, x, "update locked", need)
      BY <2>3 DEF Reaches
    <2> QED BY <1>1, <1>2, <2>1, <2>2, <2>4, ProceedStep DEF Phase
  <1>7. CASE UpdateLocksRoot(t)
    <2> DEFINE need == {RootLock(f[c].root)}
    <2>1. x.pc = "update locked" /\ Proceed(t, x, "update rooted", need)
      BY <1>7, Zenon DEF UpdateLocksRoot, At
    <2>2. f[c].exists /\ NodeLock(c, "update") \in x.held
      BY <1>2, <2>1 DEF UpdateStage
    <2>3. need \in SUBSET Lock
      BY <1>3, LockTypes DEF NodeRow
    <2>4. ASSUME NEW y \in Transaction,
                 /\ y.pc = "update rooted" /\ y.need = need /\ y.req = r /\ y.held = x.held
                 /\ y.rows = x.rows /\ y.node = x.node /\ y.item = x.item
          PROVE  Stage(f, i, y)
      <3>1. UpdateStage(f, y)
        BY <1>5, <2>2, <2>4 DEF UpdateStage, Claims
      <3> QED BY <1>4, <2>4, <3>1
    <2> HIDE DEF need
    <2>5. Reaches(t, x, "update rooted", need)
      BY <2>4 DEF Reaches
    <2> QED BY <1>1, <1>2, <2>1, <2>3, <2>5, ProceedStep DEF Phase
  <1>8. CASE UpdateWrites(t)
    <2> DEFINE row   == f[c]
               after == [row EXCEPT !.version = @ + 1,
                           !.title    = IF r.change = "rename" THEN @ + 1 ELSE @,
                           !.private  = IF r.change \in {"hide", "show"} THEN r.change = "hide" ELSE @,
                           !.archived = (r.change = "archive")]
               nodes == Over(Only(c, after), f)
               sync  == Affected(t, nodes, c)
               z1    == [x EXCEPT !.node = Only(c, after)]
               z2    == [x EXCEPT !.node = Only(c, after), !.sync = sync]
    <2>1. /\ x.pc = "update rooted" /\ Accessible(f, c, r.privileged)
          /\ IF r.change = "recode" THEN Proceed(t, z1, "commit", {})
             ELSE Proceed(t, z2, "synced", SyncLocks(sync))
      BY <1>8, Zenon DEF UpdateWrites, At
    <2>2. f[c].exists /\ NodeLock(c, "update") \in x.held /\ RootLock(f[c].root) \in x.held
      BY <1>2, <2>1 DEF UpdateStage
    <2>3. Updated(f[c], after) /\ after \in NodeRow
      <3> DEFINE title == IF r.change = "rename" THEN row.title + 1 ELSE row.title
                 private == IF r.change \in {"hide", "show"} THEN r.change = "hide" ELSE row.private
                 archived == (r.change = "archive")
      <3>1. title \in Nat /\ private \in BOOLEAN /\ archived \in BOOLEAN
        <4>1. row.title \in Nat /\ row.private \in BOOLEAN
          BY <1>3 DEF NodeRow
        <4> HIDE DEF row
        <4>2. title \in Nat
          BY <4>1
        <4>3. private \in BOOLEAN
          <5>1. CASE r.change \in {"hide", "show"}
            BY <5>1
          <5>2. CASE r.change \notin {"hide", "show"}
            BY <4>1, <5>2
          <5> QED BY <5>1, <5>2
        <4>4. archived \in BOOLEAN
          OBVIOUS
        <4> QED BY <4>2, <4>3, <4>4
      <3>2. after = [row EXCEPT !.version = @ + 1, !.title = title, !.private = private,
                                !.archived = archived]
        OBVIOUS
      <3> HIDE DEF title, private, archived, after
      <3>3. Updated(f[c], after)
        BY <3>1, <3>2, Zenon DEF Updated
      <3> QED BY <1>3, <3>3, UpdatedRow
    <2> HIDE DEF after
    <2>4. Only(c, after) \in Partial(Node, NodeRow)
      <3>1. Only(c, after) \in [{c} -> NodeRow] /\ {c} \in SUBSET Node
        BY <1>3, <2>3 DEF Only
      <3> QED BY <3>1, PartialFunction
    <2>5. nodes \in [Node -> NodeRow]
      BY <1>2, <1>3, <2>3 DEF Over, Only
    <2> HIDE DEF nodes
    <2>6. sync \in Partial(Item, Shown) /\ SyncLocks(sync) \in SUBSET Lock
      BY <1>3, <2>5, AffectedType DEF Inv
    <2> HIDE DEF sync
    <2>7. /\ z1 \in Transaction /\ Like(z1, x) /\ z1.rows = x.rows /\ z1.node = Only(c, after)
          /\ z1.item = x.item
      BY <1>2, <2>4, SetFields
    <2>8. /\ z2 \in Transaction /\ Like(z2, x) /\ z2.rows = x.rows /\ z2.node = Only(c, after)
          /\ z2.item = x.item
      <3>1. z2 = [z1 EXCEPT !.sync = sync]
        OBVIOUS
      <3> HIDE DEF z1, z2
      <3> QED BY <2>6, <2>7, <3>1, SetFields DEF Like
    <2> HIDE DEF z1, z2
    <2>9. ASSUME NEW y \in Transaction,
                 /\ y.pc \in {"synced", "commit"} /\ y.req = r /\ y.held = x.held
                 /\ y.node = Only(c, after) /\ y.item = x.item
          PROVE  Stage(f, i, y)
      <3>1. UpdateStage(f, y)
        BY <1>5, <2>1, <2>2, <2>3, <2>9 DEF UpdateStage, Claims
      <3> QED BY <1>4, <2>9, <3>1
    <2>10. CASE r.change = "recode"
      <3>1. Reaches(t, z1, "commit", {})
        BY <2>7, <2>9 DEF Reaches
      <3> QED BY <1>1, <1>2, <2>1, <2>7, <2>10, <3>1, ProceedStep DEF Phase
    <2>11. CASE r.change # "recode"
      <3>1. Reaches(t, z2, "synced", SyncLocks(sync))
        BY <2>8, <2>9 DEF Reaches
      <3> QED BY <1>1, <1>2, <2>1, <2>6, <2>8, <2>11, <3>1, ProceedStep DEF Phase
    <2> QED BY <2>10, <2>11
  <1> QED BY <1>6, <1>7, <1>8

LEMMA SyncStep ==
  ASSUME Inv, NEW t \in Txn, UNCHANGED asks, SyncWrites(t)
  PROVE  Inv'
  <1> DEFINE x == tx[t]
             r == x.req
             f == db.node
             i == db.item
             changed == {d \in DOMAIN x.node : x.node[d].root # f[d].root}
             roots == {x.node[d].root : d \in changed}
             z == [x EXCEPT !.search = x.sync]
  <1>1. x.pc = "synced" /\ x.need = {} /\ Busy(t) /\ Proceed(t, z, "commit", References(roots))
    BY Zenon DEF SyncWrites, At, Busy
  <1>2. /\ x \in Transaction /\ Like(x, tx[t]) /\ f \in [Node -> NodeRow]
        /\ r \in Request /\ Claims(x) = x.held
        /\ \/ r.op = "update" /\ UpdateStage(f, x)
           \/ r.op = "move" /\ MoveStage(f, x)
    BY <1>1, Standing, StageOp
  <1>3. roots \in SUBSET (Node \cup {NoNode})
    <2>1. x.node \in Partial(Node, NodeRow)
      BY <1>2 DEF Transaction
    <2>2. \A d \in DOMAIN x.node : x.node[d] \in NodeRow
      <3>1. PICK D \in SUBSET Node : x.node \in [D -> NodeRow]
        BY <2>1 DEF Partial
      <3> QED BY <3>1
    <2>3. \A d \in DOMAIN x.node : x.node[d].root \in Node \cup {NoNode}
      BY <2>2 DEF NodeRow
    <2> QED BY <2>3
  <1> HIDE DEF roots
  <1>4. References(roots) \in SUBSET Lock
    BY <1>3, LockTypes
  <1>5. /\ z \in Transaction /\ Like(z, x) /\ z.rows = x.rows /\ z.node = x.node /\ z.item = x.item
    BY <1>2, SetFields
  <1> HIDE DEF z
  <1>6. ASSUME NEW y \in Transaction,
               /\ y.pc = "commit" /\ y.req = r /\ y.held = x.held
               /\ y.rows = x.rows /\ y.node = x.node /\ y.item = x.item
        PROVE  Stage(f, i, y)
    <2>0. y.held \subseteq Claims(y)
      BY DEF Claims
    <2>1. CASE r.op = "update" /\ UpdateStage(f, x)
      <3>1. UpdateStage(f, y)
        BY <1>1, <1>6, <2>0, <2>1 DEF UpdateStage
      <3> QED BY <1>6, <2>1, <3>1 DEF Stage
    <2>2. CASE r.op = "move" /\ MoveStage(f, x)
      <3>1. MoveChecked(f, x)
        <4>1. x.pc \in {"move subtree", "moved", "synced", "commit"}
          BY <1>1
        <4> QED BY <2>2, <4>1, MoveIsChecked
      <3>2. y.pc = "commit" /\ Claims(y) = x.held \cup y.need
        BY <1>6 DEF Claims
      <3>3. MoveChecked(f, y)
        BY <1>1, <1>2, <1>6, <3>1, <3>2 DEF MoveChecked
      <3>4. MoveStage(f, y)
        BY <3>3, CheckedMove
      <3> QED BY <1>6, <2>2, <3>4 DEF Stage
    <2> QED BY <1>2, <2>1, <2>2
  <1>7. Reaches(t, z, "commit", References(roots))
    BY <1>5, <1>6 DEF Reaches
  <1> QED BY <1>1, <1>2, <1>4, <1>5, <1>7, ProceedStep DEF Phase
LEMMA MoveLocks ==
  ASSUME Inv, NEW t \in Txn, UNCHANGED asks,
         MoveLocksNodes(t) \/ MoveLocksRoots(t) \/ MoveChecks(t)
  PROVE  Inv'
  <1> DEFINE x == tx[t]
             r == x.req
             s == r.node
             to == r.to
             f == db.node
             i == db.item
  <1>1. /\ x.pc \in {"move", "move locked", "move rooted"} /\ x.need = {} /\ Busy(t)
    BY DEF MoveLocksNodes, MoveLocksRoots, MoveChecks, At, Busy
  <1>2. /\ x \in Transaction /\ Like(x, tx[t]) /\ f \in [Node -> NodeRow] /\ Forest(f)
        /\ r \in Request /\ Claims(x) = x.held /\ r.op = "move" /\ MoveStage(f, x)
    BY <1>1, Standing, StageOp
  <1>3. s \in Node /\ to \in Node /\ r.privileged \in BOOLEAN
    BY <1>2, RequestFields
  <1>4. \A y : y.req = r /\ MoveStage(f, y) => Stage(f, i, y)
    BY <1>2 DEF Stage
  <1>5. x.item = <<>>
    BY <1>2 DEF MoveStage
  <1>6. CASE MoveLocksNodes(t)
    <2> DEFINE S == {s, f[s].parent, to} \ {NoNode}
               need == {NodeLock(n, "update") : n \in S}
    <2>1. Proceed(t, x, "move locked", need) /\ f[s].exists /\ f[to].exists
      BY <1>6, Zenon DEF MoveLocksNodes
    <2>2. S \subseteq Node /\ s \in S /\ to \in S
      BY <1>2, <1>3, NodeAssumption DEF NodeRow
    <2> HIDE DEF S
    <2>3. need \in SUBSET Lock
      BY <2>2, LockTypes
    <2>4. NodeLock(s, "update") \in need /\ NodeLock(to, "update") \in need
      BY <2>2
    <2>5. ASSUME NEW y \in Transaction,
                 /\ y.pc = "move locked" /\ y.need = need /\ y.req = r /\ y.held = x.held
                 /\ y.rows = x.rows /\ y.node = x.node /\ y.item = x.item
          PROVE  Stage(f, i, y)
      <3>1. MoveStage(f, y)
        <4> HIDE DEF need
        <4> QED BY <1>5, <2>1, <2>4, <2>5 DEF MoveStage, Claims
      <3> QED BY <1>4, <2>5, <3>1
    <2> HIDE DEF need
    <2>6. Reaches(t, x, "move locked", need)
      BY <2>5 DEF Reaches
    <2> QED BY <1>1, <1>2, <2>1, <2>3, <2>6, ProceedStep DEF Phase
  <1>7. CASE MoveLocksRoots(t)
    <2> DEFINE need == {RootLock(f[s].root), RootLock(f[to].root)}
    <2>1. x.pc = "move locked" /\ Proceed(t, x, "move rooted", need)
      BY <1>7, Zenon DEF MoveLocksRoots, At
    <2>2. /\ f[s].exists /\ f[to].exists
          /\ NodeLock(s, "update") \in x.held /\ NodeLock(to, "update") \in x.held
      BY <1>2, <2>1 DEF MoveStage
    <2>3. need \in SUBSET Lock
      <3>1. f[s].root \in Node \cup {NoNode} /\ f[to].root \in Node \cup {NoNode}
        BY <1>2, <1>3 DEF NodeRow
      <3> QED BY <3>1, LockTypes
    <2>4. ASSUME NEW y \in Transaction,
                 /\ y.pc = "move rooted" /\ y.need = need /\ y.req = r /\ y.held = x.held
                 /\ y.rows = x.rows /\ y.node = x.node /\ y.item = x.item
          PROVE  Stage(f, i, y)
      <3>1. MoveStage(f, y)
        BY <1>5, <2>2, <2>4 DEF MoveStage, Claims
      <3> QED BY <1>4, <2>4, <3>1
    <2> HIDE DEF need
    <2>5. Reaches(t, x, "move rooted", need)
      BY <2>4 DEF Reaches
    <2> QED BY <1>1, <1>2, <2>1, <2>3, <2>5, ProceedStep DEF Phase
  <1>8. CASE MoveChecks(t)
    <2> DEFINE rows == Subtree(f, s)
               need == {NodeLock(d, "no key update") : d \in rows}
               z == [x EXCEPT !.rows = rows]
    <2>1. /\ x.pc = "move rooted" /\ Proceed(t, z, "move subtree", need)
          /\ Accessible(f, s, r.privileged) /\ Accessible(f, to, r.privileged)
          /\ f[s].parent # to /\ ~TargetIsInSubtree(f[s], f[to])
      BY <1>8, Zenon DEF MoveChecks, At
    <2>2. /\ f[s].exists /\ f[to].exists
          /\ NodeLock(s, "update") \in x.held /\ NodeLock(to, "update") \in x.held
          /\ RootLock(f[s].root) \in x.held /\ RootLock(f[to].root) \in x.held
      BY <1>2, <2>1 DEF MoveStage
    <2>3. to \notin rows
      BY <2>1 DEF TargetIsInSubtree, Subtree
    <2>4. rows \in SUBSET Node
      BY DEF Subtree
    <2> HIDE DEF rows
    <2>5. need \in SUBSET Lock
      BY <2>4, LockTypes
    <2>6. \A d \in rows : NodeLock(d, "no key update") \in need
      OBVIOUS
    <2>7. z \in Transaction /\ Like(z, x) /\ z.rows = rows /\ z.node = x.node /\ z.item = x.item
      BY <1>2, <2>4, SetFields
    <2> HIDE DEF z, need
    <2>8. ASSUME NEW y \in Transaction,
                 /\ y.pc = "move subtree" /\ y.need = need /\ y.req = r /\ y.held = x.held
                 /\ y.rows = z.rows /\ y.node = z.node /\ y.item = z.item
          PROVE  Stage(f, i, y)
      <3>1. \A d \in rows : NodeLock(d, "no key update") \in Claims(y)
        BY <2>6, <2>8 DEF Claims
      <3>2. y.rows = rows /\ y.item = <<>>
        BY <1>5, <2>7, <2>8
      <3>3. MoveChecked(f, y)
        BY <2>1, <2>2, <2>3, <2>8, <3>1, <3>2 DEF MoveChecked, rows
      <3>4. MoveStage(f, y)
        BY <3>3, CheckedMove
      <3> QED BY <1>4, <2>8, <3>4
    <2>9. Reaches(t, z, "move subtree", need)
      BY <2>8 DEF Reaches
    <2> QED BY <1>1, <1>2, <2>1, <2>5, <2>7, <2>9, ProceedStep DEF Phase
  <1> QED BY <1>6, <1>7, <1>8

LEMMA MoveChanges ==
  ASSUME Inv, NEW t \in Txn, UNCHANGED asks, MoveWrites(t) \/ MoveSyncs(t)
  PROVE  Inv'
  <1> DEFINE x == tx[t]
             r == x.req
             s == r.node
             to == r.to
             f == db.node
             i == db.item
             rows == Subtree(f, s)
             writes == [d \in rows |-> Moved(f, s, to, d)]
  <1>1. x.pc \in {"move subtree", "moved"} /\ x.need = {} /\ Busy(t)
    BY DEF MoveWrites, MoveSyncs, At, Busy
  <1>2. /\ x \in Transaction /\ Like(x, tx[t]) /\ f \in [Node -> NodeRow] /\ Forest(f)
        /\ r \in Request /\ Claims(x) = x.held /\ r.op = "move" /\ MoveStage(f, x)
    BY <1>1, Standing, StageOp
  <1>3. s \in Node /\ to \in Node /\ r.privileged \in BOOLEAN
    BY <1>2, RequestFields
  <1>4. \A y : y.req = r /\ MoveStage(f, y) => Stage(f, i, y)
    BY <1>2 DEF Stage
  <1>5. MoveChecked(f, x)
    <2>1. x.pc \in {"move subtree", "moved", "synced", "commit"}
      BY <1>1
    <2> QED BY <1>2, <2>1, MoveIsChecked
  <1>6. /\ x.item = <<>> /\ f[s].exists /\ f[to].exists
        /\ NodeLock(s, "update") \in x.held /\ NodeLock(to, "update") \in x.held
        /\ RootLock(f[s].root) \in x.held /\ RootLock(f[to].root) \in x.held
        /\ Accessible(f, s, r.privileged) /\ Accessible(f, to, r.privileged)
        /\ f[s].parent # to /\ to \notin rows /\ x.rows = rows
        /\ \A d \in rows : NodeLock(d, "no key update") \in Claims(x)
        /\ x.pc # "move subtree" => x.node = writes
    BY <1>5, Zenon DEF MoveChecked
  <1>7. rows \in SUBSET Node
    BY DEF Subtree
  <1>8. ASSUME NEW d \in rows
        PROVE  Moved(f, s, to, d) \in NodeRow
    BY <1>2, <1>3, <1>6, MovedRow DEF MovedAs
  <1>9. writes \in [rows -> NodeRow] /\ writes \in Partial(Node, NodeRow)
    <2>1. writes \in [rows -> NodeRow]
      <3> HIDE DEF rows
      <3> QED BY <1>8
    <2> HIDE DEF rows, writes
    <2> QED BY <1>7, <2>1, PartialFunction
  <1>10. ASSUME NEW y \in Transaction,
                /\ y.pc \in {"moved", "synced"} /\ y.req = r /\ y.held = x.held
                /\ y.rows = x.rows /\ y.node = writes /\ y.item = x.item
         PROVE  Stage(f, i, y)
    <2>1. y.held \subseteq Claims(y)
      BY DEF Claims
    <2>2. /\ y.pc \in {"move subtree", "moved", "synced", "commit"} /\ y.item = <<>>
          /\ NodeLock(s, "update") \in y.held /\ NodeLock(to, "update") \in y.held
          /\ RootLock(f[s].root) \in y.held /\ RootLock(f[to].root) \in y.held
          /\ y.rows = rows
          /\ \A d \in rows : NodeLock(d, "no key update") \in y.held
          /\ \A d \in rows : NodeLock(d, "no key update") \in Claims(y)
      <3> HIDE DEF rows, writes
      <3> QED BY <1>2, <1>6, <1>10, <2>1
    <2>3. y.req = r /\ y.node = writes
      BY <1>10
    <2>4. MoveChecked(f, y)
      <3> HIDE DEF r, writes, rows
      <3> QED BY <1>6, <2>2, <2>3, Zenon DEF MoveChecked, writes, rows
    <2>5. MoveStage(f, y)
      BY <2>4, CheckedMove
    <2> QED BY <1>4, <1>10, <2>5
  <1>11. CASE MoveWrites(t)
    <2> DEFINE found == {d \in x.rows : d \in rows}
               change == [d \in found |-> Moved(f, s, to, d)]
               need == References({f[s].parent, to})
               z == [x EXCEPT !.node = change]
    <2>1. Proceed(t, z, "moved", need)
      BY <1>11, Zenon DEF MoveWrites
    <2>2. found = rows
      BY <1>6
    <2>3. change = writes
      <3> HIDE DEF rows
      <3> QED BY <2>2
    <2>4. need \in SUBSET Lock
      <3>1. {f[s].parent, to} \in SUBSET (Node \cup {NoNode})
        BY <1>2, <1>3 DEF NodeRow
      <3> QED BY <3>1, LockTypes
    <2> HIDE DEF change
    <2>5. z \in Transaction /\ Like(z, x) /\ z.rows = x.rows /\ z.node = change /\ z.item = x.item
      <3>1. change \in Partial(Node, NodeRow)
        BY <1>9, <2>3
      <3> QED BY <1>2, <3>1, SetFields
    <2> HIDE DEF z, need
    <2>6. Reaches(t, z, "moved", need)
      BY <1>10, <2>3, <2>5 DEF Reaches
    <2> QED BY <1>1, <1>2, <2>1, <2>4, <2>5, <2>6, ProceedStep DEF Phase
  <1>12. CASE MoveSyncs(t)
    <2> DEFINE sync == Affected(t, Nodes(t), s)
               z == [x EXCEPT !.sync = sync]
    <2>1. x.pc = "moved" /\ Proceed(t, z, "synced", SyncLocks(sync))
      BY <1>12, Zenon DEF MoveSyncs, At
    <2>2. Nodes(t) \in [Node -> NodeRow]
      BY <1>2, OverTable DEF Transaction, Nodes
    <2>3. sync \in Partial(Item, Shown) /\ SyncLocks(sync) \in SUBSET Lock
      BY <1>3, <2>2, AffectedType DEF Inv
    <2> HIDE DEF sync
    <2>4. z \in Transaction /\ Like(z, x) /\ z.rows = x.rows /\ z.node = x.node /\ z.item = x.item
      BY <1>2, <2>3, SetFields
    <2> HIDE DEF z
    <2>5. x.node = writes
      BY <1>6, <2>1
    <2>6. Reaches(t, z, "synced", SyncLocks(sync))
      BY <1>10, <2>4, <2>5 DEF Reaches
    <2> QED BY <1>1, <1>2, <2>1, <2>3, <2>4, <2>6, ProceedStep DEF Phase
  <1> QED BY <1>11, <1>12
LEMMA ItemSteps ==
  ASSUME Inv, NEW t \in Txn, UNCHANGED asks,
         ItemReads(t) \/ ItemResolves(t) \/ ItemWrites(t) \/ ItemTags(t) \/ ItemRelocks(t)
           \/ ItemProjects(t) \/ ItemUpserts(t)
  PROVE  Inv'
  <1> DEFINE x == tx[t]
             r == x.req
             c == r.item
             f == db.node
             i == db.item
  <1>1. /\ x.pc \in {"place", "edit", "item resolved", "item locked", "item placed",
                     "item relocked", "item projected"}
        /\ Busy(t)
    BY DEF ItemReads, ItemResolves, ItemWrites, ItemTags, ItemRelocks, ItemProjects, ItemUpserts,
           At, Busy
  <1>2. /\ x \in Transaction /\ Like(x, tx[t]) /\ f \in [Node -> NodeRow] /\ i \in [Item -> ItemRow]
        /\ r \in Request /\ (x.need = {} => Claims(x) = x.held)
        /\ r.op \in {"place", "edit"} /\ ItemStage(i, x)
    BY <1>1, Standing, StageOp
  <1>3. /\ c \in Item /\ (r.op = "place" => r.to \in Node \cup {NoNode})
        /\ Destination(t) \in Node \cup {NoNode}
    BY <1>2, RequestFields DEF Destination
  <1>4. \A y : y.req = r /\ ItemStage(i, y) => Stage(f, i, y)
    BY <1>2 DEF Stage
  <1>5. x.node = <<>>
    BY <1>2 DEF ItemStage
  <1>6. ASSUME NEW n \in Node \cup {NoNode}
        PROVE  (IF n = NoNode THEN {} ELSE {RootLock(f[n].root)}) \in SUBSET Lock
    <2>1. n # NoNode => f[n].root \in Node \cup {NoNode}
      BY <1>2 DEF NodeRow
    <2> QED BY <2>1, LockTypes
  <1>7. CASE ItemReads(t)
    <2> DEFINE d == Destination(t)
               need == IF d = NoNode THEN {} ELSE {RootLock(f[d].root)}
    <2>1. Proceed(t, x, "item resolved", need)
      BY <1>7, Zenon DEF ItemReads
    <2>2. need \in SUBSET Lock
      BY <1>3, <1>6
    <2> HIDE DEF need
    <2>3. Reaches(t, x, "item resolved", need)
      BY <1>4, <1>5 DEF Reaches, ItemStage
    <2> QED BY <1>1, <1>2, <2>1, <2>2, <2>3, ProceedStep DEF Phase
  <1>8. CASE ItemResolves(t)
    <2> DEFINE need == {ItemLock(c)}
    <2>1. Proceed(t, x, "item locked", need)
      BY <1>8, Zenon DEF ItemResolves
    <2>2. need \in SUBSET Lock
      BY <1>3, LockTypes
    <2>3. Reaches(t, x, "item locked", need)
      BY <1>4, <1>5 DEF Reaches, ItemStage, Claims
    <2> HIDE DEF need
    <2> QED BY <1>1, <1>2, <2>1, <2>2, <2>3, ProceedStep DEF Phase
  <1>9. CASE ItemWrites(t)
    <2> DEFINE old == i[c]
               new == [node |-> IF r.op = "place" THEN r.to ELSE old.node,
                       version |-> old.version + 1]
               need == IF new.node = old.node THEN {} ELSE References({new.node})
               z == [x EXCEPT !.item = Only(c, new)]
    <2>1. x.pc = "item locked" /\ x.need = {} /\ Proceed(t, z, "item placed", need)
      BY <1>9, Zenon DEF ItemWrites, At
    <2>2. ItemLock(c) \in x.held
      BY <1>2, <2>1 DEF ItemStage
    <2>3. /\ new \in ItemRow /\ new.version = i[c].version + 1 /\ new.node \in Node \cup {NoNode}
          /\ new.node = NewPlace(i, r)
      BY <1>2, <1>3 DEF ItemRow, NewPlace
    <2> HIDE DEF new
    <2>4. need \in SUBSET Lock
      BY <2>3, LockTypes
    <2>5. Only(c, new) \in Partial(Item, ItemRow)
      <3>1. Only(c, new) \in [{c} -> ItemRow] /\ {c} \in SUBSET Item
        BY <1>3, <2>3 DEF Only
      <3> QED BY <3>1, PartialFunction
    <2>6. z \in Transaction /\ Like(z, x) /\ z.rows = x.rows /\ z.node = x.node /\ z.item = Only(c, new)
      BY <1>2, <2>5, SetFields
    <2> HIDE DEF z, need
    <2>7. ASSUME NEW y \in Transaction,
                 /\ y.pc = "item placed" /\ y.need = need /\ y.req = r /\ y.held = x.held
                 /\ y.rows = z.rows /\ y.node = z.node /\ y.item = z.item
          PROVE  Stage(f, i, y)
      <3>1. ItemStage(i, y)
        BY <1>5, <2>2, <2>3, <2>6, <2>7 DEF ItemStage
      <3> QED BY <1>4, <2>7, <3>1
    <2>8. Reaches(t, z, "item placed", need)
      BY <2>7 DEF Reaches
    <2> QED BY <1>1, <1>2, <2>1, <2>4, <2>6, <2>8, ProceedStep DEF Phase
  <1>10. ASSUME x.pc \in {"item placed", "item relocked", "item projected"},
                NEW y \in Transaction,
                /\ y.pc \in {"item placed", "item relocked", "item projected", "commit"}
                /\ y.req = r /\ y.held = x.held /\ y.node = x.node /\ y.item = x.item
         PROVE  Stage(f, i, y)
    <2>1. ItemStage(i, y)
      BY <1>2, <1>10 DEF ItemStage
    <2> QED BY <1>4, <1>10, <2>1
  <1>11. x.pc \in {"item placed", "item relocked", "item projected"} =>
           /\ Items(t) \in [Item -> ItemRow] /\ Items(t)[c].node \in Node \cup {NoNode}
           /\ x.item[c] \in ItemRow
    <2>1. Items(t) \in [Item -> ItemRow]
      BY <1>2, OverTable DEF Transaction, Items
    <2>2. Items(t)[c].node \in Node \cup {NoNode}
      BY <1>3, <2>1 DEF ItemRow
    <2>3. ASSUME x.pc \in {"item placed", "item relocked", "item projected"}
          PROVE  x.item[c] \in ItemRow
      <3>1. PICK new \in ItemRow : x.item = Only(c, new)
        BY <1>2, <2>3 DEF ItemStage
      <3> QED BY <3>1 DEF Only
    <2> QED BY <2>1, <2>2, <2>3
  <1>12. CASE ItemRelocks(t)
    <2> DEFINE n == Items(t)[c].node
               need == IF n = NoNode THEN {} ELSE {RootLock(f[n].root)}
    <2>1. x.pc = "item placed" /\ Proceed(t, x, "item relocked", need)
      BY <1>12, Zenon DEF ItemRelocks, At
    <2>2. need \in SUBSET Lock
      BY <1>6, <1>11, <2>1
    <2> HIDE DEF need
    <2>3. Reaches(t, x, "item relocked", need)
      BY <1>10, <2>1 DEF Reaches
    <2> QED BY <1>1, <1>2, <2>1, <2>2, <2>3, ProceedStep DEF Phase
  <1>13. CASE ItemProjects(t)
    <2> DEFINE n == Items(t)[c].node
               shown == Projected(f, n)
               z == [x EXCEPT !.sync = Only(c, shown)]
               need == {SearchLock(c)}
    <2>1. x.pc = "item relocked" /\ Proceed(t, z, "item projected", need)
      BY <1>13, Zenon DEF ItemProjects, At
    <2>2. shown \in Shown
      BY <1>2, <1>11, <2>1, ProjectedType
    <2> HIDE DEF shown
    <2>3. Only(c, shown) \in Partial(Item, Shown)
      <3>1. Only(c, shown) \in [{c} -> Shown] /\ {c} \in SUBSET Item
        BY <1>3, <2>2 DEF Only
      <3> QED BY <3>1, PartialFunction
    <2>4. z \in Transaction /\ Like(z, x) /\ z.rows = x.rows /\ z.node = x.node /\ z.item = x.item
      BY <1>2, <2>3, SetFields
    <2>5. need \in SUBSET Lock
      BY <1>3, LockTypes
    <2> HIDE DEF z, need
    <2>6. Reaches(t, z, "item projected", need)
      BY <1>10, <2>1, <2>4 DEF Reaches
    <2> QED BY <1>1, <1>2, <2>1, <2>4, <2>5, <2>6, ProceedStep DEF Phase
  <1>14. CASE ItemUpserts(t)
    <2> DEFINE places == {i[c].node, x.item[c].node}
               need == IF Cardinality(places) = 1 THEN {} ELSE References(places)
               z == [x EXCEPT !.search = x.sync]
    <2>1. x.pc = "item projected" /\ Proceed(t, z, "commit", need)
      BY <1>14, Zenon DEF ItemUpserts, At
    <2>2. places \in SUBSET (Node \cup {NoNode})
      BY <1>2, <1>3, <1>11, <2>1 DEF ItemRow
    <2> HIDE DEF places
    <2>3. need \in SUBSET Lock
      BY <2>2, LockTypes
    <2>4. z \in Transaction /\ Like(z, x) /\ z.rows = x.rows /\ z.node = x.node /\ z.item = x.item
      BY <1>2, SetFields
    <2> HIDE DEF z, need
    <2>5. Reaches(t, z, "commit", need)
      BY <1>10, <2>1, <2>4 DEF Reaches
    <2> QED BY <1>1, <1>2, <2>1, <2>3, <2>4, <2>5, ProceedStep DEF Phase
  <1>15. CASE ItemTags(t)
    <2>1. PICK k \in Untagged(t) : Proceed(t, x, "item placed", {TagLock(r.tags[k])})
      BY <1>15, Zenon DEF ItemTags
    <2>2. x.pc = "item placed"
      BY <1>15 DEF ItemTags, At
    <2> DEFINE need == {TagLock(r.tags[k])}
    <2>3. r.tags[k] \in Tag
      <3>1. r.tags \in Seq(Tag) /\ k \in DOMAIN r.tags
        BY <1>2, RequestFields DEF TagLists, Untagged
      <3> QED BY <3>1
    <2>4. need \in SUBSET Lock
      BY <2>3, LockTypes
    <2> HIDE DEF need
    <2>5. Reaches(t, x, "item placed", need)
      BY <1>10, <2>2 DEF Reaches
    <2> QED BY <1>1, <1>2, <2>1, <2>4, <2>5, ProceedStep DEF Phase, need
  <1> QED BY <1>7, <1>8, <1>9, <1>12, <1>13, <1>14, <1>15
-----------------------------------------------------------------------------
LEMMA StepInv == Inv /\ [Next]_vars => Inv'
  <1> SUFFICES ASSUME Inv, [Next]_vars
               PROVE  Inv'
    OBVIOUS
  <1>1. CASE UNCHANGED vars
    <2>1. db' = db /\ tx' = tx /\ asks' = asks
      BY <1>1 DEF vars
    <2>2. TypeInv' /\ Forest(db.node)'
      BY <2>1 DEF Inv, TypeInv, Busy, Forest
    <2>3. LockInv' /\ UnusedInv' /\ StageInv'
      BY <2>1 DEF Inv, LockInv, UnusedInv, StageInv, Creating, Busy
    <2> QED BY <2>2, <2>3 DEF Inv
  <1>2. ASSUME NEW t \in Txn, Step(t), UNCHANGED asks
        PROVE  Inv'
    <2>1. CASE Acquire(t)
      BY <1>2, <2>1, AcquireStep
    <2>2. CASE Commit(t)
      BY <1>2, <2>2, CommitStep
    <2>3. CASE Abort(t)
      BY <1>2, <2>3, AbortStep
    <2>4. CASE CreateLocksParent(t) \/ CreateLocksRoot(t) \/ CreateInserts(t)
      BY <1>2, <2>4, CreateSteps
    <2>5. CASE UpdateLocksNode(t) \/ UpdateLocksRoot(t) \/ UpdateWrites(t)
      BY <1>2, <2>5, UpdateSteps
    <2>6. CASE SyncWrites(t)
      BY <1>2, <2>6, SyncStep
    <2>7. CASE MoveLocksNodes(t) \/ MoveLocksRoots(t) \/ MoveChecks(t)
      BY <1>2, <2>7, MoveLocks
    <2>8. CASE MoveWrites(t) \/ MoveSyncs(t)
      BY <1>2, <2>8, MoveChanges
    <2>9. CASE ItemReads(t) \/ ItemResolves(t) \/ ItemWrites(t) \/ ItemRelocks(t)
               \/ ItemTags(t) \/ ItemProjects(t) \/ ItemUpserts(t)
      BY <1>2, <2>9, ItemSteps
    <2> QED BY <1>2, <2>1, <2>2, <2>3, <2>4, <2>5, <2>6, <2>7, <2>8, <2>9 DEF Step
  <1>3. ASSUME NEW t \in Txn, NEW r \in asks, Begin(t, r), UNCHANGED asks
        PROVE  Inv'
    BY <1>3, BeginStep
  <1> QED BY <1>1, <1>2, <1>3 DEF Next

LEMMA Invariant == Spec => []Inv
  BY InitInv, StepInv, PTL DEF Spec

(* Nothing but a commit changes what is committed.                         *)
LEMMA OnlyCommits ==
  ASSUME [Next]_vars
  PROVE  (db' = db /\ strayed' = strayed) \/ \E t \in Txn : Commit(t)
  <1>1. CASE UNCHANGED vars
    BY <1>1 DEF vars
  <1>2. ASSUME NEW t \in Txn, Step(t), ~Commit(t)
        PROVE  db' = db /\ strayed' = strayed
    BY <1>2 DEF Step, Acquire, Abort, Proceed,
         CreateLocksParent, CreateLocksRoot, CreateInserts,
         UpdateLocksNode, UpdateLocksRoot, UpdateWrites, SyncWrites,
         MoveLocksNodes, MoveLocksRoots, MoveChecks, MoveWrites, MoveSyncs,
         ItemReads, ItemResolves, ItemWrites, ItemTags, ItemRelocks, ItemProjects, ItemUpserts
  <1>3. ASSUME NEW t \in Txn, NEW r \in asks, Begin(t, r)
        PROVE  db' = db /\ strayed' = strayed
    BY <1>3 DEF Begin, Proceed
  <1> QED BY <1>1, <1>2, <1>3 DEF Next

-----------------------------------------------------------------------------
(* The tables keep their types and the transactions their shape.           *)
THEOREM TablesTyped == Spec => []TypeInv
  BY Invariant, PTL DEF Inv

(* No two transactions ever hold conflicting locks, and each is where its  *)
(* statements have taken it: the rows it read and locked are still as it   *)
(* read them, until it commits.                                            *)
THEOREM ReadsStand == Spec => [](LockInv /\ StageInv)
  BY Invariant, PTL DEF Inv

(* Under every interleaving of creations and moves the committed path of a *)
(* node is its parent's path and the node, and its root the path's head.   *)
THEOREM PathsKept == Spec => []PathsFollowParents
  <1>1. Inv => PathsFollowParents
    <2> SUFFICES ASSUME Inv, NEW n \in Node, db.node[n].exists
                 PROVE  LET row == db.node[n]
                            above == IF row.parent = NoNode THEN <<>> ELSE db.node[row.parent].path
                        IN  row.path = Append(above, n) /\ row.root = Head(row.path)
      BY DEF PathsFollowParents
    <2> DEFINE f == db.node
               p == f[n].path
               len == Len(p)
    <2>1. f \in [Node -> NodeRow] /\ Forest(f)
      BY DEF Inv, TypeInv
    <2>2. /\ p \in Seq(Node) /\ len \in Nat /\ len > 0 /\ p[len] = n /\ f[n].root = p[1]
          /\ f[n].parent = (IF len = 1 THEN NoNode ELSE p[len - 1])
      BY <2>1, PathFacts
    <2>3. Head(p) = p[1]
      BY <2>2
    <2>4. CASE len = 1
      <3>1. p = <<n>>
        BY <2>2, <2>4
      <3> QED BY <2>2, <2>3, <2>4, <3>1
    <2>5. CASE len # 1
      <3>1. len - 1 \in 1..len
        <4>1. len \in Nat /\ len > 0 /\ len # 1
          BY <2>2, <2>5
        <4> HIDE DEF len
        <4> QED BY <4>1
      <3>2. p[len - 1] \in Node /\ f[p[len - 1]].path = SubSeq(p, 1, len - 1)
        BY <2>1, <3>1, PathFacts
      <3>3. f[n].parent # NoNode /\ f[f[n].parent].path = SubSeq(p, 1, len - 1)
        BY <2>2, <2>5, <3>2, NodeAssumption
      <3> DEFINE above == SubSeq(p, 1, len - 1)
      <3>4. /\ above \in Seq(Node) /\ Len(above) = len - 1
            /\ \A k \in 1..(len - 1) : above[k] = p[k]
        BY <2>2, <2>5
      <3> HIDE DEF above
      <3>5. n \in Node /\ len - 1 \in Nat
        BY <2>2, <2>5
      <3>6. /\ Append(above, n) \in Seq(Node) /\ Len(Append(above, n)) = len
            /\ \A k \in 1..len : Append(above, n)[k] = p[k]
        BY <2>2, <3>4, <3>5
      <3>7. p = Append(above, n)
        BY <2>2, <3>6, SeqEqual
      <3> QED BY <2>2, <2>3, <3>3, <3>7 DEF above
    <2> QED BY <2>4, <2>5
  <1> QED BY <1>1, Invariant, PTL

(* No committed change of a node or an item is overwritten unseen: every   *)
(* commit changes a row from the version that is committed then.           *)
THEOREM NothingLost == Spec => NoLostUpdate
  <1> DEFINE Kept == /\ \A n \in Node : db'.node[n] # db.node[n] =>
                          db'.node[n].version = db.node[n].version + 1
                     /\ \A i \in Item : db'.item[i] # db.item[i] =>
                          db'.item[i].version = db.item[i].version + 1
  <1>1. Inv /\ [Next]_vars => [Kept]_vars
    <2> SUFFICES ASSUME Inv, [Next]_vars
                 PROVE  Kept
      OBVIOUS
    <2>1. CASE db' = db
      BY <2>1
    <2>2. ASSUME NEW t \in Txn, Commit(t)
          PROVE  Kept
      <3>1. tx[t].pc = "commit" /\ db'.node = Nodes(t) /\ db'.item = Items(t)
        BY <2>2 DEF Commit, At
      <3>2. Written(db.node, Nodes(t), tx[t])
        BY <3>1, CommitWrites
      <3>3. \A n \in Node : Nodes(t)[n] # db.node[n] => Nodes(t)[n].version = db.node[n].version + 1
        BY <3>2 DEF Written, RowGuarded
      <3>4. \A i \in Item : Items(t)[i] # db.item[i] => Items(t)[i].version = db.item[i].version + 1
        BY <3>1, CommitItems
      <3> QED BY <3>1, <3>3, <3>4
    <2> QED BY <2>1, <2>2, OnlyCommits
  <1> QED BY <1>1, Invariant, PTL DEF Spec, NoLostUpdate
-----------------------------------------------------------------------------
(* The tree of StorageTree, whose paths are sets, in the committed rows.   *)
LEMMA PathRange ==
  ASSUME NEW f \in [Node -> NodeRow], Forest(f), NEW n \in Node, f[n].exists
  PROVE  /\ \A a : a \in Range(f[n].path) <=> \E k \in 1..Len(f[n].path) : f[n].path[k] = a
         /\ Range(f[n].path) \subseteq Node
         /\ n \in Range(f[n].path)
  <1>1. /\ f[n].path \in Seq(Node) /\ Len(f[n].path) \in 1..Len(f[n].path)
        /\ f[n].path[Len(f[n].path)] = n
        /\ \A k \in 1..Len(f[n].path) : f[n].path[k] \in Node
    BY PathFacts
  <1>2. DOMAIN f[n].path = 1..Len(f[n].path)
    BY <1>1
  <1>3. \A a : a \in Range(f[n].path) <=> \E k \in 1..Len(f[n].path) : f[n].path[k] = a
    BY <1>2, Zenon DEF Range
  <1>4. n \in Range(f[n].path)
    BY <1>1, <1>3
  <1>5. Range(f[n].path) \subseteq Node
    BY <1>1, <1>3
  <1> QED BY <1>3, <1>4, <1>5, Zenon

(* The path of a node on a path is the part of it that leads there.        *)
LEMMA RangeAbove ==
  ASSUME NEW f \in [Node -> NodeRow], Forest(f), NEW n \in Node, f[n].exists,
         NEW k \in 1..Len(f[n].path)
  PROVE  \A a : a \in Range(f[f[n].path[k]].path) <=> \E j \in 1..k : f[n].path[j] = a
  <1> DEFINE p == f[n].path
             b == p[k]
  <1>1. p \in Seq(Node) /\ Len(p) \in Nat
    BY PathFacts
  <1>2. b \in Node /\ f[b].exists /\ f[b].path = SubSeq(p, 1, k) /\ Len(f[b].path) = k
    BY PathFacts
  <1>3. \A j \in 1..k : SubSeq(p, 1, k)[j] = p[j]
    BY <1>1
  <1>5. \A j \in 1..k : f[b].path[j] = p[j]
    BY <1>2, <1>3
  <1> HIDE DEF b
  <1>4. \A a : a \in Range(f[b].path) <=> \E j \in 1..k : f[b].path[j] = a
    BY <1>2, PathRange
  <1> QED BY <1>4, <1>5 DEF b

LEMMA RangesNested ==
  ASSUME NEW f \in [Node -> NodeRow], Forest(f), NEW n \in Node, f[n].exists
  PROVE  /\ \A a \in Range(f[n].path) :
              /\ a \in Node /\ f[a].exists /\ f[a].root = f[n].root
              /\ Range(f[a].path) \subseteq Range(f[n].path)
         /\ \A a, b \in Range(f[n].path) : a \in Range(f[b].path) \/ b \in Range(f[a].path)
         /\ f[n].parent = NoNode => Range(f[n].path) = {n} /\ f[n].root = n
         /\ f[n].parent # NoNode =>
              /\ f[n].parent \in Node /\ f[f[n].parent].exists
              /\ n \notin Range(f[f[n].parent].path)
              /\ Range(f[n].path) = Range(f[f[n].parent].path) \cup {n}
              /\ f[n].root = f[f[n].parent].root
  <1> DEFINE p == f[n].path
             len == Len(p)
             At1(k) == Range(f[p[k]].path)
  <1>1. /\ len \in Nat /\ len > 0 /\ p[len] = n /\ f[n].root = p[1]
        /\ f[n].parent = IF len = 1 THEN NoNode ELSE p[len - 1]
        /\ \A k \in 1..len : p[k] \in Node /\ f[p[k]].exists /\ f[p[k]].root = f[n].root
        /\ \A i, j \in 1..len : p[i] = p[j] => i = j
    <2>1. /\ len \in Nat /\ len > 0 /\ p[len] = n /\ f[n].root = p[1]
          /\ f[n].parent = IF len = 1 THEN NoNode ELSE p[len - 1]
      BY PathFacts
    <2>2. ASSUME NEW k \in 1..len
          PROVE  p[k] \in Node /\ f[p[k]].exists /\ f[p[k]].root = f[n].root
      BY PathFacts
    <2>3. \A i, j \in 1..len : p[i] = p[j] => i = j
      BY PathFacts, Zenon
    <2> QED BY <2>1, <2>2, <2>3
  <1>2. \A a : a \in Range(p) <=> \E k \in 1..len : p[k] = a
    BY PathRange
  <1>3. \A k \in 1..len : \A a : a \in At1(k) <=> \E j \in 1..k : p[j] = a
    BY RangeAbove
  <1> HIDE DEF p, len, At1
  <1>4. \A k \in 1..len : At1(k) \subseteq Range(p)
    <2> TAKE k \in 1..len
    <2>1. 1..k \subseteq 1..len
      BY <1>1
    <2> QED BY <1>2, <1>3, <2>1
  <1>5. \A i, j \in 1..len : p[i] \in At1(j) \/ p[j] \in At1(i)
    <2> TAKE i, j \in 1..len
    <2>1. i \in 1..j \/ j \in 1..i
      BY <1>1
    <2> QED BY <1>3, <2>1
  <1>8. \A a \in Range(p) : a \in Node /\ f[a].exists /\ f[a].root = f[n].root
    BY <1>1, <1>2
  <1>9. \A a \in Range(p) : Range(f[a].path) \subseteq Range(p)
    BY <1>2, <1>4, Zenon DEF At1
  <1>10. \A a, b \in Range(p) : a \in Range(f[b].path) \/ b \in Range(f[a].path)
    <2> TAKE a, b \in Range(p)
    <2>1. PICK i \in 1..len : p[i] = a
      BY <1>2
    <2>2. PICK j \in 1..len : p[j] = b
      BY <1>2
    <2>3. p[i] \in At1(j) \/ p[j] \in At1(i)
      BY <1>5
    <2> QED BY <2>1, <2>2, <2>3, Zenon DEF At1
  <1>6. CASE len = 1
    <2>1. Range(p) = {n}
      BY <1>1, <1>2, <1>6
    <2>2. f[n].parent = NoNode /\ f[n].root = n
      BY <1>1, <1>6
    <2> QED BY <1>8, <1>9, <1>10, <2>1, <2>2, Zenon DEF p
  <1>7. CASE len # 1
    <2>1. len - 1 \in 1..len /\ 1..len = (1..(len - 1)) \cup {len} /\ len \notin 1..(len - 1)
      BY <1>1, <1>7
    <2>2. f[n].parent = p[len - 1] /\ f[n].parent \in Node /\ f[n].parent # NoNode
      BY <1>1, <1>7, <2>1, NodeAssumption
    <2>3. f[f[n].parent].exists /\ f[f[n].parent].root = f[n].root
      BY <1>1, <2>1, <2>2
    <2>4. \A a : a \in At1(len - 1) <=> \E j \in 1..(len - 1) : p[j] = a
      BY <1>3, <2>1
    <2>5. n \notin At1(len - 1)
      BY <1>1, <2>1, <2>4
    <2>6. Range(p) = At1(len - 1) \cup {n}
      BY <1>1, <1>2, <2>1, <2>4
    <2>7. At1(len - 1) = Range(f[f[n].parent].path)
      BY <2>2 DEF At1
    <2> QED BY <1>8, <1>9, <1>10, <2>2, <2>3, <2>5, <2>6, <2>7, Zenon DEF p
  <1> QED BY <1>6, <1>7

LEMMA NoTwoAbove ==
  ASSUME NEW f \in [Node -> NodeRow], Forest(f), NEW a \in Node, f[a].exists,
         NEW b \in Node, f[b].exists, a \in Range(f[b].path), b \in Range(f[a].path)
  PROVE  a = b
  <1>1. PICK i \in 1..Len(f[b].path) : f[b].path[i] = a
    BY PathRange
  <1>2. PICK j \in 1..Len(f[a].path) : f[a].path[j] = b
    BY PathRange
  <1>3. Len(f[a].path) = i /\ Len(f[b].path) \in Nat /\ f[b].path[Len(f[b].path)] = b
    BY <1>1, PathFacts
  <1>4. Len(f[b].path) = j /\ Len(f[a].path) \in Nat
    BY <1>2, PathFacts
  <1>5. i = Len(f[b].path)
    BY <1>3, <1>4
  <1> QED BY <1>1, <1>3, <1>5
(* What StorageTree sees of a row, and of the rows.                        *)
TreeRow(row) ==
  [exists |-> row.exists, parent |-> row.parent, path |-> Range(row.path), root |-> row.root,
   archived |-> row.archived, private |-> row.private]

TreeRows(f) == [n \in Node |-> TreeRow(f[n])]

LEMMA TreeStarts == Inv => Tree!Init
  <1> SUFFICES ASSUME Inv
               PROVE  Tree!Init
    OBVIOUS
  <1> DEFINE f == db.node
  <1>1. f \in [Node -> NodeRow] /\ Forest(f)
    BY DEF Inv, TypeInv
  <1>2. \A n \in Node : ~f[n].exists => f[n].path = <<>>
    BY <1>1 DEF Forest, Absent
  <1>3. \A n \in Node : /\ f[n].exists \in BOOLEAN /\ f[n].parent \in Node \cup {NoNode}
                        /\ f[n].root \in Node \cup {NoNode} /\ f[n].archived \in BOOLEAN
                        /\ f[n].private \in BOOLEAN
    BY <1>1 DEF NodeRow
  <1>4. \A n \in Node : Range(f[n].path) \subseteq Node
    <2> TAKE n \in Node
    <2>1. CASE f[n].exists
      BY <1>1, <2>1, PathRange
    <2>2. CASE ~f[n].exists
      BY <1>2, <2>2 DEF Range
    <2> QED BY <2>1, <2>2
  <1>5. ASSUME NEW n \in Node, f[n].exists
        PROVE  /\ \A a \in Range(f[n].path) :
                    /\ a \in Node /\ f[a].exists /\ f[a].root = f[n].root
                    /\ Range(f[a].path) \subseteq Range(f[n].path)
               /\ \A a, b \in Range(f[n].path) : a \in Range(f[b].path) \/ b \in Range(f[a].path)
               /\ f[n].parent = NoNode => Range(f[n].path) = {n} /\ f[n].root = n
               /\ f[n].parent # NoNode =>
                    /\ f[n].parent \in Node /\ f[f[n].parent].exists
                    /\ n \notin Range(f[f[n].parent].path)
                    /\ Range(f[n].path) = Range(f[f[n].parent].path) \cup {n}
                    /\ f[n].root = f[f[n].parent].root
    BY <1>1, <1>5, RangesNested
  <1>6. \A a, b \in Node : f[a].exists /\ f[b].exists /\ a \in Range(f[b].path)
                           /\ b \in Range(f[a].path) => a = b
    BY <1>1, NoTwoAbove
  <1>7. Tree!TypeOK
    BY <1>3, <1>4 DEF Tree!TypeOK, Tree!NodeRow, f
  <1>8. Tree!NoCycle
    BY <1>6 DEF Tree!NoCycle, Tree!Exists, f
  <1>9. Tree!Forest
    <2> SUFFICES ASSUME NEW n \in Node, Tree!Exists(n)
                 PROVE  Tree!PathOfParent(n) /\ Tree!PathsClosed(n) /\ Tree!PathIsChain(n)
      BY DEF Tree!Forest
    <2>1. f[n].exists
      BY DEF Tree!Exists
    <2>2. Tree!PathOfParent(n)
      BY <1>5, <2>1 DEF Tree!PathOfParent, Tree!Exists
    <2>3. Tree!PathsClosed(n)
      BY <1>5, <2>1 DEF Tree!PathsClosed, Tree!Exists
    <2>4. Tree!PathIsChain(n)
      BY <1>5, <2>1 DEF Tree!PathIsChain
    <2> QED BY <2>2, <2>3, <2>4
  <1> QED BY <1>7, <1>8, <1>9 DEF Tree!Init

(* A node is accessible, and in a subtree, in the one as in the other.     *)
LEMMA SeenAlike ==
  ASSUME Inv, NEW s \in Node, db.node[s].exists
  PROVE  /\ \A p \in BOOLEAN : Accessible(db.node, s, p) => Tree!Accessible(s, p)
         /\ Tree!Subtree(s) = Subtree(db.node, s)
  <1> DEFINE f == db.node
  <1>1. f \in [Node -> NodeRow] /\ Forest(f)
    BY DEF Inv, TypeInv
  <1>2. Range(f[s].path) \subseteq Node
    BY <1>1, PathRange
  <1>3. ASSUME NEW p \in BOOLEAN, Accessible(f, s, p)
        PROVE  Tree!Accessible(s, p)
    BY <1>2, <1>3 DEF Accessible, Tree!Accessible, Tree!Exists
  <1>4. \A d \in Node : f[d].exists => \A a : a \in Range(f[d].path) <=>
          \E k \in 1..Len(f[d].path) : f[d].path[k] = a
    BY <1>1, PathRange
  <1>5. \A d \in Node : d \in Subtree(f, s) <=>
          f[d].exists /\ \E k \in 1..Len(f[d].path) : f[d].path[k] = s
    BY <1>1, SubtreeFacts
  <1>6. \A d \in Node : d \in Subtree(f, s) <=> f[d].exists /\ s \in Range(f[d].path)
    BY <1>4, <1>5
  <1>7. Tree!Subtree(s) = {d \in Node : f[d].exists /\ s \in Range(f[d].path)}
    BY DEF Tree!Subtree, Tree!Exists
  <1>8. Subtree(f, s) \subseteq Node
    BY DEF Subtree
  <1>9. Tree!Subtree(s) = Subtree(f, s)
    BY <1>6, <1>7, <1>8
  <1> QED BY <1>3, <1>9
LEMMA RangeOfAppend ==
  ASSUME NEW S, NEW p \in Seq(S), NEW c \in S
  PROVE  Range(Append(p, c)) = Range(p) \cup {c}
  <1> DEFINE q == Append(p, c)
             len == Len(p)
  <1>1. /\ q \in Seq(S) /\ Len(q) = len + 1 /\ len \in Nat /\ q[len + 1] = c
        /\ \A k \in 1..len : q[k] = p[k]
    BY Appended
  <1>2. DOMAIN q = 1..(len + 1) /\ DOMAIN p = 1..len
    BY <1>1
  <1> HIDE DEF q, len
  <1>3. 1..(len + 1) = (1..len) \cup {len + 1}
    BY <1>1
  <1>4. Range(q) = {q[k] : k \in 1..(len + 1)} /\ Range(p) = {p[k] : k \in 1..len}
    BY <1>2 DEF Range
  <1>5. Range(q) = Range(p) \cup {c}
    BY <1>1, <1>3, <1>4
  <1> QED BY <1>5 DEF q

(* What one commit does to the rows is one step of the tree.               *)
LEMMA CreateSeen ==
  ASSUME Inv, NEW t \in Txn, tx[t].pc = "commit", tx[t].req.op = "create", db'.node = Nodes(t)
  PROVE  Tree!Next
  <1> DEFINE f == db.node
             x == tx[t]
             r == x.req
             c == r.node
             g == db'.node
             row == NewRow(f, r)
  <1>1. f \in [Node -> NodeRow] /\ Forest(f) /\ r \in Request /\ Stage(f, db.item, x) /\ Creating(t)
    BY DEF Inv, TypeInv, StageInv, Busy, Creating
  <1>2. /\ c \in Node /\ r.to \in Node \cup {NoNode} /\ r.private \in BOOLEAN
        /\ r.privileged \in BOOLEAN /\ ~f[c].exists
    BY <1>1, RequestFields DEF Inv, UnusedInv
  <1>3. /\ x.node = Only(c, row)
        /\ r.to # NoNode => f[r.to].exists /\ Accessible(f, r.to, r.privileged)
    BY <1>1 DEF Stage, CreateStage
  <1>4. \A n \in Node : g[n] = IF n = c THEN row ELSE f[n]
    <2>1. g = Over(x.node, f)
      BY DEF Nodes
    <2> HIDE DEF g
    <2> QED BY <1>1, <1>3, <2>1 DEF Over, Only
  <1>5. /\ row.exists = TRUE /\ row.parent = r.to /\ row.archived = FALSE /\ row.private = r.private
        /\ row.path = (IF r.to # NoNode THEN Append(f[r.to].path, c) ELSE <<c>>)
        /\ row.root = (IF r.to # NoNode THEN f[r.to].root ELSE c)
    BY DEF NewRow, Absent
  <1> HIDE DEF row
  <1>6. CASE r.to = NoNode
    <2>1. Range(<<c>>) = {c}
      BY DEF Range
    <2>2. TreeRow(row) = [exists |-> TRUE, parent |-> NoNode, path |-> {c}, root |-> c,
                          archived |-> FALSE, private |-> r.private]
      BY <1>5, <1>6, <2>1 DEF TreeRow
    <2>3. TreeRows(g) = [TreeRows(f) EXCEPT ![c] =
            [exists |-> TRUE, parent |-> NoNode, path |-> {c}, root |-> c,
             archived |-> FALSE, private |-> r.private]]
      <3> HIDE DEF f, g, c, r
      <3> QED BY <1>2, <1>4, <2>2 DEF TreeRows
    <2>4. PICK n \in Node, private \in BOOLEAN : n = c /\ private = r.private
      BY <1>2
    <2>5. Tree!CreateRoot(n, private)
      BY <1>2, <2>3, <2>4 DEF Tree!CreateRoot, Tree!Exists, TreeRows, TreeRow
    <2> QED BY <2>5, Zenon DEF Tree!Next
  <1>7. CASE r.to # NoNode
    <2>1. r.to \in Node /\ f[r.to].exists /\ Accessible(f, r.to, r.privileged)
      BY <1>2, <1>3, <1>7
    <2>3. f[r.to].path \in Seq(Node)
      BY <1>1, <2>1, PathFacts
    <2>4. Range(row.path) = Range(f[r.to].path) \cup {c}
      <3>1. row.path = Append(f[r.to].path, c)
        BY <1>5, <1>7
      <3> DEFINE above == f[r.to].path
      <3> HIDE DEF above
      <3>2. Range(Append(above, c)) = Range(above) \cup {c}
        BY <1>2, <2>3, RangeOfAppend DEF above
      <3> QED BY <3>1, <3>2 DEF above
    <2>5. TreeRow(row) = [exists |-> TRUE, parent |-> r.to, path |-> Range(f[r.to].path) \cup {c},
                          root |-> f[r.to].root, archived |-> FALSE, private |-> r.private]
      BY <1>5, <1>7, <2>4 DEF TreeRow
    <2>6. TreeRows(g) = [TreeRows(f) EXCEPT ![c] =
            [exists |-> TRUE, parent |-> r.to, path |-> Range(f[r.to].path) \cup {c},
             root |-> f[r.to].root, archived |-> FALSE, private |-> r.private]]
      <3> HIDE DEF f, g, c, r
      <3> QED BY <1>2, <1>4, <2>5 DEF TreeRows
    <2>7. PICK n \in Node, p \in Node, private \in BOOLEAN, privileged \in BOOLEAN :
            n = c /\ p = r.to /\ private = r.private /\ privileged = r.privileged
      BY <1>2, <2>1
    <2>8. Tree!Accessible(p, privileged)
      BY <2>1, <2>7, SeenAlike
    <2>9. Tree!CreateChild(n, p, private, privileged)
      BY <1>2, <2>1, <2>6, <2>7, <2>8 DEF Tree!CreateChild, Tree!Exists, TreeRows, TreeRow
    <2> QED BY <2>9, Zenon DEF Tree!Next
  <1> QED BY <1>6, <1>7

LEMMA UpdateSeen ==
  ASSUME Inv, NEW t \in Txn, tx[t].pc = "commit", tx[t].req.op = "update", db'.node = Nodes(t)
  PROVE  Tree!Next
  <1> DEFINE f == db.node
             x == tx[t]
             r == x.req
             c == r.node
             g == db'.node
  <1>1. f \in [Node -> NodeRow] /\ Forest(f) /\ r \in Request /\ Stage(f, db.item, x)
    BY DEF Inv, TypeInv, StageInv, Busy
  <1>2. c \in Node /\ r.privileged \in BOOLEAN
    BY <1>1, RequestFields
  <1>3. /\ f[c].exists /\ Accessible(f, c, r.privileged)
        /\ \E after \in NodeRow : Updated(f[c], after) /\ x.node = Only(c, after)
    BY <1>1 DEF Stage, UpdateStage
  <1>4. PICK after \in NodeRow : Updated(f[c], after) /\ x.node = Only(c, after)
    BY <1>3
  <1>5. \A n \in Node : g[n] = IF n = c THEN after ELSE f[n]
    <2>1. g = Over(x.node, f)
      BY DEF Nodes
    <2> HIDE DEF g
    <2> QED BY <1>1, <1>4, <2>1 DEF Over, Only
  <1>6. f[c] \in NodeRow
    BY <1>1, <1>2
  <1>7. /\ after.exists = f[c].exists /\ after.parent = f[c].parent /\ after.path = f[c].path
        /\ after.root = f[c].root /\ after.archived \in BOOLEAN /\ after.private \in BOOLEAN
    <2> HIDE DEF f, c
    <2>1. after.archived \in BOOLEAN /\ after.private \in BOOLEAN
      BY DEF NodeRow
    <2> QED BY <1>4, <1>6, <2>1, UpdatedRow
  <1>8. PICK n \in Node, archived \in BOOLEAN, private \in BOOLEAN, privileged \in BOOLEAN :
          n = c /\ archived = after.archived /\ private = after.private
          /\ privileged = r.privileged
    BY <1>2, <1>7
  <1>9. TreeRows(g) = [TreeRows(f) EXCEPT ![c].archived = after.archived, ![c].private = after.private]
    <2> HIDE DEF f, g, c, r
    <2> QED BY <1>2, <1>5, <1>7 DEF TreeRows, TreeRow
  <1>10. Tree!Accessible(n, privileged)
    BY <1>3, <1>8, SeenAlike
  <1>11. Tree!Update(n, archived, private, privileged)
    BY <1>8, <1>9, <1>10 DEF Tree!Update, TreeRows, TreeRow
  <1> QED BY <1>11, Zenon DEF Tree!Next

Rerooted(f, s, to, d, path) ==
  Range(path) = Range(f[to].path) \cup {s} \cup (Range(f[d].path) \ Range(f[s].path))

LEMMA MovedRange ==
  ASSUME NEW f \in [Node -> NodeRow], Forest(f), NEW s \in Node, f[s].exists,
         NEW to \in Node, f[to].exists, NEW d \in Subtree(f, s)
  PROVE  Rerooted(f, s, to, d, Moved(f, s, to, d).path)
  <1> DEFINE m == Moved(f, s, to, d)
             path == m.path
             above == f[to].path
             old == f[d].path
             q == Len(above)
             cut == Len(f[s].path)
             len == Len(old)
             total == Len(path)
  <1>1. MovedAs(f, s, to, d, m)
    BY MovedRow
  <1>2. /\ path \in Seq(Node) /\ total = q + 1 + (len - cut)
        /\ q \in Nat /\ cut \in 1..len /\ len \in Nat
        /\ \A k \in 1..q : path[k] = above[k]
        /\ \A k \in (q + 1)..total : path[k] = old[k - q - 1 + cut]
    BY <1>1 DEF MovedAs
  <1>3. /\ d \in Node /\ f[d].exists /\ old[cut] = s
    BY SubtreeFacts
  <1>4. /\ \A a : a \in Range(above) <=> \E k \in 1..q : above[k] = a
    BY PathRange
  <1>5. /\ \A a : a \in Range(old) <=> \E k \in 1..len : old[k] = a
    BY <1>3, PathRange
  <1>6. \A a : a \in Range(f[old[cut]].path) <=> \E k \in 1..cut : old[k] = a
    BY <1>2, <1>3, RangeAbove
  <1>7. \A a : a \in Range(f[s].path) <=> \E k \in 1..cut : old[k] = a
    BY <1>3, <1>6
  <1>8. \A i, j \in 1..len : old[i] = old[j] => i = j
    BY <1>3, PathFacts
  <1>9. \A a : a \in Range(path) <=> \E k \in 1..total : path[k] = a
    <2>0. path \in Seq(Node)
      BY <1>2
    <2> HIDE DEF path
    <2>1. DOMAIN path = 1..total
      BY <2>0
    <2> QED BY <2>1, Zenon DEF Range
  <1> HIDE DEF m, path, above, old, q, cut, len, total
  <1>10. ASSUME NEW a \in Range(path)
         PROVE  a \in Range(above) \/ a = s \/ (a \in Range(old) /\ a \notin Range(f[s].path))
    <2>1. PICK k \in 1..total : path[k] = a
      BY <1>9
    <2>2. CASE k \in 1..q
      BY <1>2, <1>4, <2>1, <2>2
    <2>3. CASE k \notin 1..q
      <3> DEFINE j == k - q - 1 + cut
      <3>1. k \in (q + 1)..total /\ j \in cut..len
        BY <1>2, <2>1, <2>3
      <3>2. path[k] = old[j]
        BY <1>2, <3>1
      <3> HIDE DEF j
      <3>3. j \in 1..len
        BY <1>2, <3>1
      <3>4. CASE j = cut
        BY <1>3, <2>1, <3>2, <3>4
      <3>5. CASE j # cut
        <4>1. a \in Range(old)
          BY <1>5, <2>1, <3>2, <3>3
        <4>2. \A i \in 1..cut : i \in 1..len /\ i # j
          BY <1>2, <3>1, <3>5
        <4>3. a \notin Range(f[s].path)
          BY <1>7, <1>8, <2>1, <3>2, <3>3, <4>2
        <4> QED BY <4>1, <4>3
      <3> QED BY <3>4, <3>5
    <2> QED BY <2>2, <2>3
  <1>11. ASSUME NEW a, a \in Range(above)
         PROVE  a \in Range(path)
    <2>1. PICK k \in 1..q : above[k] = a
      BY <1>4, <1>11
    <2>2. k \in 1..total
      BY <1>2
    <2> QED BY <1>2, <1>9, <2>1, <2>2
  <1>12. ASSUME NEW j \in cut..len
         PROVE  old[j] \in Range(path)
    <2> DEFINE k == q + 1 + (j - cut)
    <2>1. k \in (q + 1)..total /\ k \in 1..total /\ k - q - 1 + cut = j
      BY <1>2
    <2> HIDE DEF k
    <2> QED BY <1>2, <1>9, <2>1
  <1>13. s \in Range(path)
    <2>1. cut \in cut..len
      BY <1>2
    <2> QED BY <1>3, <1>12, <2>1
  <1>14. ASSUME NEW a, a \in Range(old), a \notin Range(f[s].path)
         PROVE  a \in Range(path)
    <2>1. PICK j \in 1..len : old[j] = a
      BY <1>5, <1>14
    <2>2. j \notin 1..cut
      BY <1>7, <1>14, <2>1
    <2>3. j \in cut..len
      BY <1>2, <2>2
    <2> QED BY <1>12, <2>1, <2>3
  <1>15. Range(path) = Range(above) \cup {s} \cup (Range(old) \ Range(f[s].path))
    BY <1>10, <1>11, <1>13, <1>14
  <1> QED BY <1>15, Zenon DEF m, path, above, old, Rerooted

LEMMA MoveSeen ==
  ASSUME Inv, NEW t \in Txn, tx[t].pc = "commit", tx[t].req.op = "move", db'.node = Nodes(t)
  PROVE  Tree!Next
  <1> DEFINE f == db.node
             x == tx[t]
             r == x.req
             g == db'.node
  <1>1. f \in [Node -> NodeRow] /\ Forest(f) /\ r \in Request /\ Stage(f, db.item, x)
    BY DEF Inv, TypeInv, StageInv, Busy
  <1>2. r.node \in Node /\ r.to \in Node /\ r.privileged \in BOOLEAN
    BY <1>1, RequestFields
  <1>3. PICK s \in Node, to \in Node, privileged \in BOOLEAN :
          s = r.node /\ to = r.to /\ privileged = r.privileged
    BY <1>2
  <1> DEFINE D == Subtree(f, s)
  <1>4. /\ f[s].exists /\ f[to].exists
        /\ Accessible(f, s, privileged) /\ Accessible(f, to, privileged)
        /\ f[s].parent # to /\ to \notin D
        /\ x.node = [d \in D |-> Moved(f, s, to, d)]
    BY <1>1, <1>3 DEF Stage, MoveStage
  <1>5. Tree!Accessible(s, privileged) /\ Tree!Accessible(to, privileged) /\ Tree!Subtree(s) = D
    BY <1>4, SeenAlike
  <1>6. \A n \in Node : g[n] = IF n \in D THEN Moved(f, s, to, n) ELSE f[n]
    <2>1. g = Over(x.node, f)
      BY DEF Nodes
    <2> HIDE DEF g, D
    <2> QED BY <1>1, <1>4, <2>1 DEF Over
  <1> DEFINE After(d) ==
        [TreeRow(f[d]) EXCEPT
           !.parent = IF d = s THEN to ELSE @,
           !.path = Range(f[to].path) \cup {s} \cup (@ \ Range(f[s].path)),
           !.root = f[to].root]
  <1>7. ASSUME NEW d \in D
        PROVE  TreeRow(Moved(f, s, to, d)) = After(d)
    <2> DEFINE m == Moved(f, s, to, d)
               path == Range(f[to].path) \cup {s} \cup (Range(f[d].path) \ Range(f[s].path))
    <2>1. Range(m.path) = path
      <3>1. Rerooted(f, s, to, d, m.path)
        BY <1>1, <1>4, MovedRange
      <3> QED BY <3>1, Zenon DEF Rerooted
    <2>2. MovedAs(f, s, to, d, m)
      BY <1>1, <1>4, MovedRow
    <2>3. /\ m.exists = TRUE /\ m.root = f[to].root /\ m.private = f[d].private
          /\ m.archived = f[d].archived /\ m.parent = (IF d = s THEN to ELSE f[d].parent)
      BY <2>2 DEF MovedAs
    <2>4. f[d].exists = TRUE
      <3>1. d \in Node /\ f[d].exists
        BY <1>1, <1>4, SubtreeFacts
      <3>2. f[d].exists \in BOOLEAN
        BY <1>1, <3>1 DEF NodeRow
      <3> QED BY <3>1, <3>2
    <2>5. TreeRow(m) = [exists |-> f[d].exists, parent |-> IF d = s THEN to ELSE f[d].parent,
                        path |-> path, root |-> f[to].root, archived |-> f[d].archived,
                        private |-> f[d].private]
      BY <2>1, <2>3, <2>4, Zenon DEF TreeRow
    <2> DEFINE Join(p) == Range(f[to].path) \cup {s} \cup (p \ Range(f[s].path))
               Above(p) == IF d = s THEN to ELSE p
    <2>6. [TreeRow(f[d]) EXCEPT !.parent = Above(@), !.path = Join(@), !.root = f[to].root]
          = [exists |-> f[d].exists, parent |-> Above(f[d].parent), path |-> Join(Range(f[d].path)),
             root |-> f[to].root, archived |-> f[d].archived, private |-> f[d].private]
      <3> DEFINE e == TreeRow(f[d])
                 up == Above(f[d].parent)
                 join == Join(Range(f[d].path))
      <3>1. e.parent = f[d].parent /\ e.path = Range(f[d].path)
        BY DEF TreeRow
      <3>2. Above(e.parent) = up /\ Join(e.path) = join
        BY <3>1, Zenon
      <3> HIDE DEF f, Join, Above
      <3> DEFINE Row(p, q, top) ==
                   [exists |-> f[d].exists, parent |-> p, path |-> q, root |-> top,
                    archived |-> f[d].archived, private |-> f[d].private]
      <3>3. [e EXCEPT !.parent = up, !.path = join, !.root = f[to].root]
            = Row(up, join, f[to].root)
        <4> HIDE DEF up, join
        <4>1. e = Row(f[d].parent, Range(f[d].path), f[d].root)
          BY DEF TreeRow
        <4>2. [Row(f[d].parent, Range(f[d].path), f[d].root) EXCEPT !.parent = up]
              = Row(up, Range(f[d].path), f[d].root)
          OBVIOUS
        <4>3. [Row(up, Range(f[d].path), f[d].root) EXCEPT !.path = join]
              = Row(up, join, f[d].root)
          OBVIOUS
        <4>4. [Row(up, join, f[d].root) EXCEPT !.root = f[to].root] = Row(up, join, f[to].root)
          OBVIOUS
        <4> HIDE DEF e, Row
        <4> QED BY <4>1, <4>2, <4>3, <4>4
      <3> QED BY <3>2, <3>3, Zenon
    <2> QED BY <2>5, <2>6, Zenon
  <1>8. TreeRows(g) = [d \in Node |-> IF d \in D THEN After(d) ELSE TreeRow(f[d])]
    <2> HIDE DEF f, g, D, After
    <2> QED BY <1>6, <1>7 DEF TreeRows
  <1>9. Tree!Move(s, to, privileged)
    <2>1. /\ TreeRows(f)[s].parent # to /\ to \notin Tree!Subtree(s)
      BY <1>4, <1>5 DEF TreeRows, TreeRow
    <2> QED BY <1>5, <1>8, <2>1 DEF Tree!Move, TreeRows, TreeRow
  <1> QED BY <1>9, Zenon DEF Tree!Next
LEMMA CommitSeen ==
  ASSUME Inv, NEW t \in Txn, Commit(t)
  PROVE  Tree!Next \/ db'.node = db.node
  <1>1. tx[t].pc = "commit" /\ db'.node = Nodes(t)
    BY DEF Commit, At
  <1>2. Busy(t) /\ tx[t].req \in Request /\ Stage(db.node, db.item, tx[t])
    BY <1>1 DEF Inv, TypeInv, StageInv, Busy
  <1>3. CASE tx[t].req.op = "create"
    BY <1>1, <1>3, CreateSeen
  <1>4. CASE tx[t].req.op = "update"
    BY <1>1, <1>4, UpdateSeen
  <1>5. CASE tx[t].req.op = "move"
    BY <1>1, <1>5, MoveSeen
  <1>6. CASE tx[t].req.op \in {"place", "edit"}
    <2>1. tx[t].node = <<>>
      BY <1>2, <1>6 DEF Stage, ItemStage
    <2>2. db.node \in [Node -> NodeRow]
      BY DEF Inv, TypeInv
    <2>3. Nodes(t) = db.node
      BY <2>1, <2>2, NothingOver DEF Nodes
    <2> QED BY <1>1, <2>3
  <1> QED BY <1>2, <1>3, <1>4, <1>5, <1>6, RequestFields

(* The transactions implement the tree: under every interleaving of their  *)
(* statements the committed rows take only steps of StorageTree, each of   *)
(* one request, at its commit.                                             *)
THEOREM TreeImplemented == Spec => ImplementsTree
  <1> DEFINE Seen == [n \in Node |->
               [exists   |-> db.node[n].exists,   parent  |-> db.node[n].parent,
                path     |-> Range(db.node[n].path), root |-> db.node[n].root,
                archived |-> db.node[n].archived, private |-> db.node[n].private]]
  <1>1. Inv => Tree!Init
    BY TreeStarts
  <1>2. Inv /\ [Next]_vars => [Tree!Next]_Seen
    <2> SUFFICES ASSUME Inv, [Next]_vars
                 PROVE  Tree!Next \/ Seen' = Seen
      OBVIOUS
    <2>1. db'.node = db.node => Seen' = Seen
      OBVIOUS
    <2>2. CASE db' = db
      BY <2>1, <2>2
    <2>3. ASSUME NEW t \in Txn, Commit(t)
          PROVE  Tree!Next \/ Seen' = Seen
      BY <2>1, <2>3, CommitSeen
    <2> QED BY <2>2, <2>3, OnlyCommits
  <1> QED BY <1>1, <1>2, Invariant, PTL DEF Spec, ImplementsTree, Tree!Spec

(* So the committed tree is at all times a forest: the redundant columns   *)
(* agree with the parents, any two nodes on a path lie one above the       *)
(* other, and no parents form a cycle.                                     *)
THEOREM TreeSound == Spec => [](Tree!Forest /\ Tree!NoCycle)
  <1>1. Inv => Tree!Forest /\ Tree!NoCycle
    BY TreeStarts DEF Tree!Init
  <1> QED BY <1>1, Invariant, PTL

-----------------------------------------------------------------------------
(* The order in which statements take their locks, and what they compute.  *)
(* Here x is a transaction and f are the committed nodes, as in Stage.     *)

(* A statement that begins with the locks `had` and asks for those of      *)
(* `next`.                                                                 *)
Statement(x, had, next) == x.need \subseteq next /\ x.held = had \cup (next \ x.need)

UpdateKeeps(x) ==
  LET row == NodeLock(x.req.node, "update") IN
  /\ x.pc = "update" => Statement(x, {}, {})
  /\ x.pc = "update locked" => Statement(x, {}, {row})
  /\ x.pc = "update rooted" => \E r : Statement(x, {row}, {RootLock(r)})
  /\ x.pc = "synced" => \E r : Statement(x, {row, RootLock(r)}, SyncLocks(x.sync))
  /\ x.pc = "commit" => x.need = {}

(* The tags of an edit are locked one by one, in the order of its list.    *)
Tags(r) == {TagLock(r.tags[k]) : k \in DOMAIN r.tags}

Tagging(x) ==
  LET tags == x.req.tags
      lock == ItemLock(x.req.item)
  IN
  /\ lock \in x.held /\ x.held \subseteq {lock} \cup Tags(x.req)
  /\ \A l \in x.need : l \in Tags(x.req) \ x.held
  /\ \A j, k \in DOMAIN tags :
       j < k /\ TagLock(tags[k]) \in Claims(x) => TagLock(tags[j]) \in x.held

EditKeeps(x) ==
  LET lock == ItemLock(x.req.item) IN
  /\ x.pc \in {"place", "edit", "item resolved"} => Statement(x, {}, {})
  /\ x.pc = "item locked" => Statement(x, {}, {lock})
  /\ x.pc = "item placed" => Tagging(x)
  /\ x.pc = "item relocked" =>
       \/ Statement(x, {lock} \cup Tags(x.req), {})
       \/ \E r : Statement(x, {lock} \cup Tags(x.req), {RootLock(r)})
  /\ x.pc = "item projected" =>
       /\ x.need \subseteq {SearchLock(x.req.item)}
       /\ \A l \in x.held : l.on = "search" => l = SearchLock(x.req.item)
  /\ x.pc = "commit" => x.need = {}

(* The rows of item_search a transaction is about to write, once it has    *)
(* computed them.                                                          *)
Computed == {"synced", "item projected", "commit"}

Rows(x) == IF x.pc = "commit" THEN x.search ELSE x.sync

Keeps(f, x) ==
  /\ x.pc # "commit" \/ x.req.op = "create" => x.search = <<>>
  /\ x.pc \in Computed => \A l \in x.need : l.on \in {"node", "search"}
  /\ x.req.op = "update" => UpdateKeeps(x)
  /\ x.req.op = "edit" => EditKeeps(x)
  /\ x.req.op \in {"place", "edit"} /\ x.pc \in Computed => DOMAIN Rows(x) = {x.req.item}
  /\ x.req.op = "place" /\ x.pc # "place" /\ x.req.to # NoNode => f[x.req.to].exists

(* The places of the committed items exist.                                *)
PlacesExist(f, q) == \A i \in Item : q[i].node # NoNode => f[q[i].node].exists

(* Is an update or an edit that asks for locks.                            *)
Asking(x) == x.need # {} /\ x.req.op \in {"update", "edit"}

KeepsInv ==
  /\ PlacesExist(db.node, db.item)
  /\ \A t \in Txn : Busy(t) => Keeps(db.node, tx[t])
  /\ \A t \in Txn : tx[t].need # {} => Busy(t)

LEMMA LockFields ==
  /\ \A n, mode : NodeLock(n, mode).on = "node"
  /\ \A n : RootLock(n).on = "root"
  /\ \A i : ItemLock(i).on = "item" /\ SearchLock(i).on = "search" /\ SearchLock(i).id = i
  /\ \A a : TagLock(a).on = "tag"
  BY DEF NodeLock, RootLock, ItemLock, SearchLock, TagLock

LEMMA StatementFields ==
  /\ \A S : \A l \in References(S) : l.on = "node"
  /\ \A sync : \A l \in SyncLocks(sync) : l.on = "search"
  <1>1. ASSUME NEW S, NEW l \in References(S)
        PROVE  l.on = "node"
    <2>1. PICK n \in S \ {NoNode} : l = NodeLock(n, "key share")
      BY Zenon DEF References
    <2> QED BY <2>1, LockFields
  <1>2. ASSUME NEW sync, NEW l \in SyncLocks(sync)
        PROVE  l.on = "search"
    <2>1. PICK i \in DOMAIN sync : l = SearchLock(i)
      BY Zenon DEF SyncLocks
    <2> QED BY <2>1, LockFields
  <1> QED BY <1>1, <1>2

(* A tree is locked by one transaction at a time.                          *)
LEMMA OneHoldsTree ==
  ASSUME LockInv, NEW t \in Txn, NEW u \in Txn, NEW n,
         RootLock(n) \in tx[t].held, RootLock(n) \in tx[u].held
  PROVE  t = u
  BY DEF LockInv, Conflict, RootLock

LEMMA AcquireStatement ==
  ASSUME NEW x, NEW y, NEW l, NEW had, NEW next, Statement(x, had, next), l \in x.need,
         y.need = x.need \ {l}, y.held = x.held \cup {l}
  PROVE  Statement(y, had, next)
  BY DEF Statement

LEMMA NextStatement ==
  ASSUME NEW x, NEW y, NEW had, NEW next, Statement(x, had, next), x.need = {},
         NEW new, y.need = new, y.held = x.held
  PROVE  Statement(y, had \cup next, new)
  <1>1. x.held = had \cup next
    BY DEF Statement
  <1>2. y.need \subseteq new /\ y.held = (had \cup next) \cup (new \ y.need)
    BY <1>1
  <1> QED BY <1>2 DEF Statement

(* A transaction's record after a statement.                               *)
Effect(t, y, pc, need, node, item, sync, search) ==
  /\ tx' = [tx EXCEPT ![t] = y] /\ UNCHANGED <<db, strayed>>
  /\ y.pc = pc /\ y.need = need /\ y.req = tx[t].req /\ y.held = tx[t].held
  /\ y.node = node /\ y.item = item /\ y.sync = sync /\ y.search = search

LEMMA ProceedEffect ==
  ASSUME NEW t \in Txn, tx[t] \in Transaction, NEW pc, NEW need
  PROVE  LET x == tx[t] IN
         /\ Proceed(t, x, pc, need) =>
              \E y : Effect(t, y, pc, need, x.node, x.item, x.sync, x.search)
         /\ \A rows : Proceed(t, [x EXCEPT !.rows = rows], pc, need) =>
              \E y : Effect(t, y, pc, need, x.node, x.item, x.sync, x.search)
         /\ \A node : Proceed(t, [x EXCEPT !.node = node], pc, need) =>
              \E y : Effect(t, y, pc, need, node, x.item, x.sync, x.search)
         /\ \A node, sync : Proceed(t, [x EXCEPT !.node = node, !.sync = sync], pc, need) =>
              \E y : Effect(t, y, pc, need, node, x.item, sync, x.search)
         /\ \A sync : Proceed(t, [x EXCEPT !.sync = sync], pc, need) =>
              \E y : Effect(t, y, pc, need, x.node, x.item, sync, x.search)
         /\ \A item : Proceed(t, [x EXCEPT !.item = item], pc, need) =>
              \E y : Effect(t, y, pc, need, x.node, item, x.sync, x.search)
         /\ Proceed(t, [x EXCEPT !.search = x.sync], pc, need) =>
              \E y : Effect(t, y, pc, need, x.node, x.item, x.sync, x.sync)
  <1> DEFINE x == tx[t]
             After(z) == [z EXCEPT !.pc = pc, !.need = need]
  <1>1. \A z : Proceed(t, z, pc, need) => tx' = [tx EXCEPT ![t] = After(z)] /\ UNCHANGED <<db, strayed>>
    BY DEF Proceed
  <1>2. Effect(t, After(x), pc, need, x.node, x.item, x.sync, x.search) \/ ~Proceed(t, x, pc, need)
    BY <1>1 DEF Effect, Transaction
  <1>3. ASSUME NEW rows, Proceed(t, [x EXCEPT !.rows = rows], pc, need)
        PROVE  Effect(t, After([x EXCEPT !.rows = rows]), pc, need, x.node, x.item, x.sync, x.search)
    BY <1>1, <1>3 DEF Effect, Transaction
  <1>4. ASSUME NEW node, Proceed(t, [x EXCEPT !.node = node], pc, need)
        PROVE  Effect(t, After([x EXCEPT !.node = node]), pc, need, node, x.item, x.sync, x.search)
    BY <1>1, <1>4 DEF Effect, Transaction
  <1>5. ASSUME NEW node, NEW sync,
               Proceed(t, [x EXCEPT !.node = node, !.sync = sync], pc, need)
        PROVE  Effect(t, After([x EXCEPT !.node = node, !.sync = sync]), pc, need,
                      node, x.item, sync, x.search)
    BY <1>1, <1>5 DEF Effect, Transaction
  <1>6. ASSUME NEW sync, Proceed(t, [x EXCEPT !.sync = sync], pc, need)
        PROVE  Effect(t, After([x EXCEPT !.sync = sync]), pc, need, x.node, x.item, sync, x.search)
    BY <1>1, <1>6 DEF Effect, Transaction
  <1>7. ASSUME NEW item, Proceed(t, [x EXCEPT !.item = item], pc, need)
        PROVE  Effect(t, After([x EXCEPT !.item = item]), pc, need, x.node, item, x.sync, x.search)
    BY <1>1, <1>7 DEF Effect, Transaction
  <1>8. ASSUME Proceed(t, [x EXCEPT !.search = x.sync], pc, need)
        PROVE  Effect(t, After([x EXCEPT !.search = x.sync]), pc, need, x.node, x.item, x.sync, x.sync)
    BY <1>1, <1>8 DEF Effect, Transaction
  <1> HIDE DEF x, After
  <1>9. /\ Proceed(t, x, pc, need) =>
              \E y : Effect(t, y, pc, need, x.node, x.item, x.sync, x.search)
        /\ \A rows : Proceed(t, [x EXCEPT !.rows = rows], pc, need) =>
              \E y : Effect(t, y, pc, need, x.node, x.item, x.sync, x.search)
    BY <1>2, <1>3
  <1>10. /\ \A node : Proceed(t, [x EXCEPT !.node = node], pc, need) =>
              \E y : Effect(t, y, pc, need, node, x.item, x.sync, x.search)
         /\ \A node, sync : Proceed(t, [x EXCEPT !.node = node, !.sync = sync], pc, need) =>
              \E y : Effect(t, y, pc, need, node, x.item, sync, x.search)
    BY <1>4, <1>5
  <1>11. /\ \A sync : Proceed(t, [x EXCEPT !.sync = sync], pc, need) =>
              \E y : Effect(t, y, pc, need, x.node, x.item, sync, x.search)
         /\ \A item : Proceed(t, [x EXCEPT !.item = item], pc, need) =>
              \E y : Effect(t, y, pc, need, x.node, item, x.sync, x.search)
         /\ Proceed(t, [x EXCEPT !.search = x.sync], pc, need) =>
              \E y : Effect(t, y, pc, need, x.node, x.item, x.sync, x.sync)
    BY <1>6, <1>7, <1>8
  <1> QED BY <1>9, <1>10, <1>11, Zenon DEF x

(* A step of t that commits nothing.                                       *)
LEMMA KeepsStep ==
  ASSUME Inv, KeepsInv, NEW t \in Txn, NEW y,
         tx' = [tx EXCEPT ![t] = y], UNCHANGED db,
         y.pc \notin {"idle", "done"} => Keeps(db.node, y),
         y.need # {} => y.pc \notin {"idle", "done"}
  PROVE  KeepsInv'
  <1>1. tx'[t] = y /\ \A u \in Txn \ {t} : tx'[u] = tx[u]
    BY DEF Inv, TypeInv
  <1>2. ASSUME NEW u \in Txn, Busy(u)'
        PROVE  Keeps(db.node, tx'[u])
    <2>1. CASE u = t
      BY <1>1, <1>2, <2>1 DEF Busy
    <2>2. CASE u # t
      <3>1. Busy(u) /\ tx'[u] = tx[u]
        BY <1>1, <1>2, <2>2 DEF Busy
      <3> QED BY <3>1 DEF KeepsInv
    <2> QED BY <2>1, <2>2
  <1>3. ASSUME NEW u \in Txn, tx'[u].need # {}
        PROVE  Busy(u)'
    <2>1. CASE u = t
      BY <1>1, <1>3, <2>1 DEF Busy
    <2>2. CASE u # t
      BY <1>1, <1>3, <2>2 DEF KeepsInv, Busy
    <2> QED BY <2>1, <2>2
  <1>4. db' = db
    OBVIOUS
  <1> QED BY <1>2, <1>3, <1>4 DEF KeepsInv

(* ... which ends a statement of t, and begins the next.                   *)
LEMMA KeepsEffect ==
  ASSUME Inv, KeepsInv, NEW t \in Txn, Busy(t),
         NEW y, NEW pc, NEW need, NEW node, NEW item, NEW sync, NEW search,
         Effect(t, y, pc, need, node, item, sync, search), pc \notin {"idle", "done"},
         Keeps(db.node, y)
  PROVE  KeepsInv'
  <1>1. tx' = [tx EXCEPT ![t] = y] /\ UNCHANGED db /\ y.pc = pc
    BY DEF Effect
  <1> QED BY <1>1, KeepsStep

LEMMA AcquireKeeps ==
  ASSUME NEW f, NEW x, NEW y, NEW l, Keeps(f, x), l \in x.need,
         y.need = x.need \ {l}, y.held = x.held \cup {l},
         y.pc = x.pc, y.req = x.req, y.node = x.node, y.item = x.item, y.sync = x.sync,
         y.search = x.search
  PROVE  Keeps(f, y)
  <1>1. \A had, next : Statement(x, had, next) => Statement(y, had, next)
    BY AcquireStatement
  <1>2. x.held \subseteq y.held /\ Claims(y) = Claims(x) /\ Rows(y) = Rows(x)
    BY DEF Claims, Rows
  <1>3. UpdateKeeps(x) => UpdateKeeps(y)
    <2>1. (\E r : Statement(x, {NodeLock(x.req.node, "update")}, {RootLock(r)}))
            => \E r : Statement(y, {NodeLock(x.req.node, "update")}, {RootLock(r)})
      BY <1>1, Zenon
    <2>2. (\E r : Statement(x, {NodeLock(x.req.node, "update"), RootLock(r)}, SyncLocks(x.sync)))
            => \E r : Statement(y, {NodeLock(x.req.node, "update"), RootLock(r)}, SyncLocks(x.sync))
      BY <1>1, Zenon
    <2> QED BY <1>1, <2>1, <2>2 DEF UpdateKeeps
  <1>4. Tagging(x) => Tagging(y)
    <2> SUFFICES ASSUME Tagging(x)
                 PROVE  Tagging(y)
      OBVIOUS
    <2>1. \A m \in y.need : m \in Tags(y.req) \ y.held
      BY DEF Tagging
    <2>2. ItemLock(y.req.item) \in y.held /\ y.held \subseteq {ItemLock(y.req.item)} \cup Tags(y.req)
      BY DEF Tagging
    <2>3. \A j, k \in DOMAIN y.req.tags :
            j < k /\ TagLock(y.req.tags[k]) \in Claims(y) => TagLock(y.req.tags[j]) \in y.held
      BY <1>2 DEF Tagging
    <2> QED BY <2>1, <2>2, <2>3 DEF Tagging
  <1>5. EditKeeps(x) => EditKeeps(y)
    <2> DEFINE had == {ItemLock(x.req.item)} \cup Tags(x.req)
    <2>1. (\E r : Statement(x, had, {RootLock(r)})) => \E r : Statement(y, had, {RootLock(r)})
      BY <1>1, Zenon
    <2>2. Statement(x, had, {}) => Statement(y, had, {})
      BY <1>1
    <2> HIDE DEF had
    <2> QED BY <1>1, <1>4, <2>1, <2>2 DEF EditKeeps, had
  <1> QED BY <1>2, <1>3, <1>5 DEF Keeps

LEMMA KeepsAcquire ==
  ASSUME Inv, KeepsInv, NEW t \in Txn, Acquire(t)
  PROVE  KeepsInv'
  <1> DEFINE x == tx[t]
  <1>1. PICK l \in Next1(t) :
          /\ tx' = [tx EXCEPT ![t].need = @ \ {l}, ![t].held = @ \cup {l}]
          /\ UNCHANGED db
    BY DEF Acquire
  <1>2. x \in Transaction /\ l \in x.need
    BY <1>1 DEF Inv, TypeInv, Next1
  <1> DEFINE y == [x EXCEPT !.need = @ \ {l}, !.held = @ \cup {l}]
  <1>3. tx' = [tx EXCEPT ![t] = y]
    BY <1>1 DEF Inv, TypeInv
  <1>4. /\ y.pc = x.pc /\ y.req = x.req /\ y.node = x.node /\ y.item = x.item /\ y.sync = x.sync
        /\ y.search = x.search /\ y.need = x.need \ {l} /\ y.held = x.held \cup {l}
    BY <1>2 DEF Transaction
  <1>5. Busy(t)
    BY <1>2 DEF KeepsInv
  <1>6. Keeps(db.node, x)
    BY <1>5 DEF KeepsInv
  <1> HIDE DEF y, x
  <1>7. Keeps(db.node, y)
    BY <1>2, <1>4, <1>6, AcquireKeeps
  <1> QED BY <1>1, <1>3, <1>4, <1>5, <1>7, KeepsStep DEF Busy, x

LEMMA KeepsAbort ==
  ASSUME Inv, KeepsInv, NEW t \in Txn, Abort(t)
  PROVE  KeepsInv'
  <1>1. PICK y : y = [Fresh EXCEPT !.pc = "done"]
    OBVIOUS
  <1>2. tx' = [tx EXCEPT ![t] = y] /\ UNCHANGED db
    BY <1>1 DEF Abort
  <1>3. y.pc = "done" /\ y.need = {}
    BY <1>1 DEF Fresh
  <1> QED BY <1>2, <1>3, KeepsStep

LEMMA KeepsBegin ==
  ASSUME Inv, KeepsInv, NEW t \in Txn, NEW r \in asks, Begin(t, r)
  PROVE  KeepsInv'
  <1>1. r.op \in {"create", "update", "move", "place", "edit"}
    BY RequestFields DEF Inv, TypeInv
  <1>2. PICK loaded : Proceed(t, [Fresh EXCEPT !.req = r, !.version = loaded], r.op, {})
    BY Zenon DEF Begin
  <1>3. PICK y : y = [[Fresh EXCEPT !.req = r, !.version = loaded] EXCEPT !.pc = r.op, !.need = {}]
    OBVIOUS
  <1>4. y.pc = r.op /\ y.need = {} /\ y.held = {} /\ y.req = r /\ y.search = <<>>
    BY <1>3 DEF Fresh
  <1>5. tx' = [tx EXCEPT ![t] = y] /\ UNCHANGED db
    BY <1>2, <1>3 DEF Proceed
  <1>6. Statement(y, {}, {})
    BY <1>4 DEF Statement
  <1>7. r.op = "update" => UpdateKeeps(y)
    BY <1>4, <1>6 DEF UpdateKeeps
  <1>8. r.op = "edit" => EditKeeps(y)
    BY <1>4, <1>6 DEF EditKeeps
  <1>9. Keeps(db.node, y)
    BY <1>1, <1>4, <1>7, <1>8 DEF Keeps, Computed
  <1> QED BY <1>4, <1>5, <1>9, KeepsStep

-----------------------------------------------------------------------------
(* The statements of each request.                                         *)
LEMMA CreateKeeps ==
  ASSUME Inv, KeepsInv, NEW t \in Txn,
         CreateLocksParent(t) \/ CreateLocksRoot(t) \/ CreateInserts(t)
  PROVE  KeepsInv'
  <1> DEFINE x == tx[t]
  <1>1. x.pc \in {"create", "create locked", "create rooted"} /\ Busy(t)
    BY DEF CreateLocksParent, CreateLocksRoot, CreateInserts, At, Busy
  <1>2. x \in Transaction /\ x.req.op = "create"
    BY <1>1, Standing, StageOp
  <1>3. x.search = <<>>
    BY <1>1, <1>2 DEF KeepsInv, Keeps
  <1>4. CASE ~CreateInserts(t)
    <2>1. \E y, pc, need : /\ pc \notin {"idle", "done"} \cup Computed
                           /\ Effect(t, y, pc, need, x.node, x.item, x.sync, x.search)
      <3>1. \E pc, need : pc \notin {"idle", "done"} \cup Computed /\ Proceed(t, x, pc, need)
        <4>1. CASE CreateLocksParent(t)
          <5>1. \/ Proceed(t, x, "create rooted", {RootLock(x.req.node)})
                \/ Proceed(t, x, "create locked", {NodeLock(x.req.to, "update")})
            BY <4>1, Zenon DEF CreateLocksParent
          <5> QED BY <5>1 DEF Computed
        <4>2. CASE CreateLocksRoot(t)
          <5>1. \E root : Proceed(t, x, "create rooted", {RootLock(root)})
            BY <4>2, Zenon DEF CreateLocksRoot
          <5> QED BY <5>1 DEF Computed
        <4> QED BY <1>4, <4>1, <4>2
      <3> QED BY <1>2, <3>1, ProceedEffect, Zenon
    <2>2. PICK y, pc, need : /\ pc \notin {"idle", "done"} \cup Computed
                             /\ Effect(t, y, pc, need, x.node, x.item, x.sync, x.search)
      BY <2>1
    <2>3. Keeps(db.node, y)
      BY <1>2, <1>3, <2>2 DEF Effect, Keeps
    <2> QED BY <1>1, <2>2, <2>3, KeepsEffect
  <1>5. CASE CreateInserts(t)
    <2>1. \E node, need : /\ \A l \in need : l.on = "node"
                          /\ Proceed(t, [x EXCEPT !.node = node], "commit", need)
      <3>1. CASE x.req.to = NoNode
        <4>1. \E node : Proceed(t, [x EXCEPT !.node = node], "commit", {})
          BY <1>5, <3>1 DEF CreateInserts
        <4> QED BY <4>1
      <3>2. CASE x.req.to # NoNode
        <4>1. \E node, S : Proceed(t, [x EXCEPT !.node = node], "commit", References(S))
          BY <1>5, <3>2 DEF CreateInserts
        <4> QED BY <4>1, StatementFields, Zenon
      <3> QED BY <3>1, <3>2
    <2>2. PICK y, node, need : /\ \A l \in need : l.on = "node"
                               /\ Effect(t, y, "commit", need, node, x.item, x.sync, x.search)
      BY <1>2, <2>1, ProceedEffect, Zenon
    <2>3. Keeps(db.node, y)
      BY <1>2, <1>3, <2>2 DEF Effect, Keeps
    <2>4. "commit" \notin {"idle", "done"}
      OBVIOUS
    <2> QED BY <1>1, <2>2, <2>3, <2>4, KeepsEffect, Zenon
  <1> QED BY <1>4, <1>5

LEMMA UpdateKeepsStep ==
  ASSUME Inv, KeepsInv, NEW t \in Txn,
         UpdateLocksNode(t) \/ UpdateLocksRoot(t) \/ UpdateWrites(t)
  PROVE  KeepsInv'
  <1> DEFINE x == tx[t]
             r == x.req
             c == r.node
             f == db.node
             row == NodeLock(c, "update")
  <1>1. x.pc \in {"update", "update locked", "update rooted"} /\ Busy(t) /\ x.need = {}
    BY DEF UpdateLocksNode, UpdateLocksRoot, UpdateWrites, At, Busy
  <1>2. x \in Transaction /\ r.op = "update"
    BY <1>1, Standing, StageOp
  <1>3. x.search = <<>> /\ UpdateKeeps(x)
    BY <1>1, <1>2 DEF KeepsInv, Keeps
  <1>4. ASSUME NEW y, y.req = r, y.search = <<>>, UpdateKeeps(y),
               y.pc \in Computed => \A l \in y.need : l.on \in {"node", "search"}
        PROVE  Keeps(f, y)
    BY <1>2, <1>4 DEF Keeps
  <1>5. CASE UpdateLocksNode(t)
    <2>1. x.pc = "update" /\ Proceed(t, x, "update locked", {row})
      BY <1>5, Zenon DEF UpdateLocksNode, At
    <2>2. PICK y : Effect(t, y, "update locked", {row}, x.node, x.item, x.sync, x.search)
      BY <1>2, <2>1, ProceedEffect, Zenon
    <2>3. y.need = {row} /\ y.held = x.held /\ y.req = r /\ y.pc = "update locked" /\ y.search = <<>>
      BY <1>3, <2>2 DEF Effect
    <2>4. Statement(x, {}, {})
      BY <1>3, <2>1 DEF UpdateKeeps
    <2>5. Statement(y, {} \cup {}, {row})
      BY <1>1, <2>3, <2>4, NextStatement
    <2>6. UpdateKeeps(y)
      BY <2>3, <2>5 DEF UpdateKeeps
    <2> QED BY <1>1, <1>4, <2>2, <2>3, <2>6, KeepsEffect DEF Computed
  <1>6. CASE UpdateLocksRoot(t)
    <2> DEFINE root == RootLock(f[c].root)
    <2>1. x.pc = "update locked" /\ Proceed(t, x, "update rooted", {root})
      BY <1>6, Zenon DEF UpdateLocksRoot, At
    <2>2. PICK y : Effect(t, y, "update rooted", {root}, x.node, x.item, x.sync, x.search)
      BY <1>2, <2>1, ProceedEffect, Zenon
    <2>3. y.need = {root} /\ y.held = x.held /\ y.req = r /\ y.pc = "update rooted" /\ y.search = <<>>
      BY <1>3, <2>2 DEF Effect
    <2>4. Statement(x, {}, {row})
      BY <1>3, <2>1 DEF UpdateKeeps
    <2>5. Statement(y, {} \cup {row}, {root})
      BY <1>1, <2>3, <2>4, NextStatement
    <2>6. {} \cup {row} = {row}
      OBVIOUS
    <2> HIDE DEF row
    <2>7. Statement(y, {row}, {RootLock(f[c].root)})
      BY <2>5, <2>6
    <2>8. UpdateKeeps(y)
      BY <2>3, <2>7 DEF UpdateKeeps, row
    <2> QED BY <1>1, <1>4, <2>2, <2>3, <2>8, KeepsEffect DEF Computed
  <1>7. CASE UpdateWrites(t)
    <2>1. /\ x.pc = "update rooted"
          /\ \/ \E node : Proceed(t, [x EXCEPT !.node = node], "commit", {})
             \/ \E node, sync : Proceed(t, [x EXCEPT !.node = node, !.sync = sync],
                                        "synced", SyncLocks(sync))
      BY <1>7, Zenon DEF UpdateWrites, At
    <2>2. PICK root : Statement(x, {row}, {RootLock(root)})
      BY <1>3, <2>1 DEF UpdateKeeps
    <2>3. CASE \E node : Proceed(t, [x EXCEPT !.node = node], "commit", {})
      <3>1. PICK y, node : Effect(t, y, "commit", {}, node, x.item, x.sync, x.search)
        BY <1>2, <2>3, ProceedEffect, Zenon
      <3>2. y.need = {} /\ y.req = r /\ y.pc = "commit" /\ y.search = <<>>
        BY <1>3, <3>1 DEF Effect
      <3>3. UpdateKeeps(y)
        BY <3>2 DEF UpdateKeeps
      <3> QED BY <1>1, <1>4, <3>1, <3>2, <3>3, KeepsEffect
    <2>4. CASE \E node, sync : Proceed(t, [x EXCEPT !.node = node, !.sync = sync],
                                       "synced", SyncLocks(sync))
      <3>1. PICK y, node, sync :
              Effect(t, y, "synced", SyncLocks(sync), node, x.item, sync, x.search)
        BY <1>2, <2>4, ProceedEffect, Zenon
      <3>2. /\ y.need = SyncLocks(sync) /\ y.held = x.held /\ y.req = r /\ y.pc = "synced"
            /\ y.search = <<>> /\ y.sync = sync
        BY <1>3, <3>1 DEF Effect
      <3>3. Statement(y, {row} \cup {RootLock(root)}, SyncLocks(sync))
        BY <1>1, <2>2, <3>2, NextStatement
      <3>4. {row} \cup {RootLock(root)} = {row, RootLock(root)}
        OBVIOUS
      <3> HIDE DEF row
      <3>5. Statement(y, {row, RootLock(root)}, SyncLocks(sync))
        BY <3>3, <3>4
      <3>6. UpdateKeeps(y)
        BY <3>2, <3>5 DEF UpdateKeeps, row
      <3>7. Keeps(f, y)
        BY <1>4, <3>2, <3>6, StatementFields
      <3>8. "synced" \notin {"idle", "done"}
        OBVIOUS
      <3> QED BY <1>1, <3>1, <3>7, <3>8, KeepsEffect, Zenon
    <2> QED BY <2>1, <2>3, <2>4
  <1> QED BY <1>5, <1>6, <1>7

LEMMA MoveKeepsStep ==
  ASSUME Inv, KeepsInv, NEW t \in Txn,
         \/ MoveLocksNodes(t) \/ MoveLocksRoots(t) \/ MoveChecks(t) \/ MoveWrites(t)
         \/ MoveSyncs(t)
  PROVE  KeepsInv'
  <1> DEFINE x == tx[t]
  <1>1. /\ x.pc \in {"move", "move locked", "move rooted", "move subtree", "moved"}
        /\ Busy(t)
    BY DEF MoveLocksNodes, MoveLocksRoots, MoveChecks, MoveWrites, MoveSyncs, At, Busy
  <1>2. x \in Transaction /\ x.req.op = "move"
    BY <1>1, Standing, StageOp
  <1>3. x.search = <<>>
    BY <1>1, <1>2 DEF KeepsInv, Keeps
  <1>4. \E y, pc, need, node, sync :
          /\ pc \notin {"idle", "done", "commit"}
          /\ pc \in Computed => \A l \in need : l.on = "search"
          /\ Effect(t, y, pc, need, node, x.item, sync, x.search)
    <2>1. CASE MoveLocksNodes(t)
      <3>1. \E need : Proceed(t, x, "move locked", need)
        BY <2>1, Zenon DEF MoveLocksNodes
      <3>2. \E y, need : Effect(t, y, "move locked", need, x.node, x.item, x.sync, x.search)
        BY <1>2, <3>1, ProceedEffect, Zenon
      <3> QED BY <3>2 DEF Computed
    <2>2. CASE MoveLocksRoots(t)
      <3>1. \E need : Proceed(t, x, "move rooted", need)
        BY <2>2, Zenon DEF MoveLocksRoots
      <3>2. \E y, need : Effect(t, y, "move rooted", need, x.node, x.item, x.sync, x.search)
        BY <1>2, <3>1, ProceedEffect, Zenon
      <3> QED BY <3>2 DEF Computed
    <2>3. CASE MoveChecks(t)
      <3>1. \E rows, need : Proceed(t, [x EXCEPT !.rows = rows], "move subtree", need)
        BY <2>3, Zenon DEF MoveChecks
      <3>2. \E y, need : Effect(t, y, "move subtree", need, x.node, x.item, x.sync, x.search)
        BY <1>2, <3>1, ProceedEffect, Zenon
      <3> QED BY <3>2 DEF Computed
    <2>4. CASE MoveWrites(t)
      <3>1. \E node, need : Proceed(t, [x EXCEPT !.node = node], "moved", need)
        BY <2>4, Zenon DEF MoveWrites
      <3>2. \E y, node, need : Effect(t, y, "moved", need, node, x.item, x.sync, x.search)
        BY <1>2, <3>1, ProceedEffect, Zenon
      <3> QED BY <3>2 DEF Computed
    <2>5. CASE MoveSyncs(t)
      <3>1. \E sync : Proceed(t, [x EXCEPT !.sync = sync], "synced", SyncLocks(sync))
        BY <2>5, Zenon DEF MoveSyncs
      <3>2. \E y, sync : Effect(t, y, "synced", SyncLocks(sync), x.node, x.item, sync, x.search)
        BY <1>2, <3>1, ProceedEffect, Zenon
      <3> QED BY <3>2, StatementFields
    <2> QED BY <2>1, <2>2, <2>3, <2>4, <2>5
  <1>5. PICK y, pc, need, node, sync :
          /\ pc \notin {"idle", "done", "commit"}
          /\ pc \in Computed => \A l \in need : l.on = "search"
          /\ Effect(t, y, pc, need, node, x.item, sync, x.search)
    BY <1>4
  <1>6. Keeps(db.node, y)
    BY <1>2, <1>3, <1>5 DEF Effect, Keeps
  <1> QED BY <1>1, <1>5, <1>6, KeepsEffect

LEMMA SyncKeeps ==
  ASSUME Inv, KeepsInv, NEW t \in Txn, SyncWrites(t)
  PROVE  KeepsInv'
  <1> DEFINE x == tx[t]
             r == x.req
             f == db.node
             changed == {d \in DOMAIN x.node : x.node[d].root # f[d].root}
             need == References({x.node[d].root : d \in changed})
  <1>1. /\ x.pc = "synced" /\ Busy(t)
        /\ Proceed(t, [x EXCEPT !.search = x.sync], "commit", need)
    BY Zenon DEF SyncWrites, At, Busy
  <1>2. /\ x \in Transaction /\ f \in [Node -> NodeRow] /\ r \in Request
        /\ (r.op = "update" /\ UpdateStage(f, x)) \/ r.op = "move"
    BY <1>1, Standing, StageOp
  <1>3. PICK y : Effect(t, y, "commit", need, x.node, x.item, x.sync, x.sync)
    BY <1>1, <1>2, ProceedEffect, Zenon
  <1>4. y.need = need /\ y.req = r /\ y.pc = "commit"
    BY <1>3 DEF Effect
  <1>5. \A l \in need : l.on = "node"
    BY StatementFields
  <1>6. r.op = "update" => need = {}
    <2> SUFFICES ASSUME r.op = "update"
                 PROVE  need = {}
      OBVIOUS
    <2>1. UpdateStage(f, x) /\ r.node \in Node
      BY <1>2, RequestFields
    <2>2. PICK after \in NodeRow : Updated(f[r.node], after) /\ x.node = Only(r.node, after)
      BY <1>1, <2>1 DEF UpdateStage
    <2>3. after.root = f[r.node].root
      BY <1>2, <2>1, <2>2, UpdatedRow
    <2>4. changed = {}
      BY <2>2, <2>3 DEF Only
    <2> QED BY <2>4 DEF References
  <1> HIDE DEF need
  <1>7. r.op = "update" => UpdateKeeps(y)
    BY <1>4, <1>6 DEF UpdateKeeps
  <1>8. Keeps(f, y)
    BY <1>2, <1>4, <1>5, <1>7 DEF Keeps
  <1> QED BY <1>1, <1>3, <1>8, KeepsEffect

LEMMA ItemFrame ==
  ASSUME Inv, KeepsInv, NEW t \in Txn,
         \/ ItemReads(t) \/ ItemResolves(t) \/ ItemWrites(t) \/ ItemTags(t)
         \/ ItemRelocks(t) \/ ItemProjects(t) \/ ItemUpserts(t)
  PROVE  LET x == tx[t]
             r == x.req
         IN
         /\ Busy(t) /\ x.need = {} /\ x \in Transaction /\ Keeps(db.node, x)
         /\ r \in Request /\ r.op \in {"place", "edit"} /\ ItemStage(db.item, x)
         /\ x.search = <<>>
         /\ r.op = "place" /\ r.to # NoNode => db.node[r.to].exists
  <1> DEFINE x == tx[t]
             r == x.req
  <1>1. /\ x.pc \in {"place", "edit", "item resolved", "item locked", "item placed",
                     "item relocked", "item projected"}
        /\ Busy(t)
    BY DEF ItemReads, ItemResolves, ItemWrites, ItemTags, ItemRelocks, ItemProjects, ItemUpserts,
           At, Busy
  <1>2. /\ x \in Transaction /\ r \in Request /\ r.op \in {"place", "edit"}
        /\ ItemStage(db.item, x) /\ Keeps(db.node, x)
    BY <1>1, Standing, StageOp DEF KeepsInv
  <1>3. CASE ItemReads(t)
    <2>1. x.pc \in {"place", "edit"}
      BY <1>3 DEF ItemReads, At
    <2>2. Destination(t) # NoNode => db.node[Destination(t)].exists
      BY <1>3 DEF ItemReads, At
    <2>3. x.need = {}
      BY <1>3 DEF ItemReads, At
    <2> QED BY <1>1, <1>2, <2>1, <2>2, <2>3 DEF Destination, Keeps
  <1>4. CASE ~ItemReads(t)
    <2>1. x.need = {} /\ x.pc \notin {"place", "commit"}
      BY <1>4 DEF ItemResolves, ItemWrites, ItemTags, ItemRelocks, ItemProjects, ItemUpserts, At
    <2> QED BY <1>1, <1>2, <2>1 DEF Keeps
  <1> QED BY <1>3, <1>4

LEMMA ItemReadsKeeps ==
  ASSUME Inv, KeepsInv, NEW t \in Txn, ItemReads(t)
  PROVE  KeepsInv'
  <1> DEFINE x == tx[t]
             r == x.req
             f == db.node
             d == Destination(t)
             need == IF d = NoNode THEN {} ELSE {RootLock(f[d].root)}
  <1>1. /\ Busy(t) /\ x.need = {} /\ x \in Transaction /\ Keeps(f, x)
        /\ r \in Request /\ r.op \in {"place", "edit"} /\ x.search = <<>>
        /\ r.op = "place" /\ r.to # NoNode => f[r.to].exists
    BY ItemFrame
  <1>2. x.pc \in {"place", "edit"} /\ Proceed(t, x, "item resolved", need)
    BY Zenon DEF ItemReads, At
  <1>3. PICK y : Effect(t, y, "item resolved", need, x.node, x.item, x.sync, x.search)
    BY <1>1, <1>2, ProceedEffect, Zenon
  <1>4. /\ y.need = need /\ y.held = x.held /\ y.req = r /\ y.pc = "item resolved"
        /\ y.search = <<>>
    BY <1>1, <1>3 DEF Effect
  <1>5. r.op = "edit" => EditKeeps(y)
    <2> SUFFICES ASSUME r.op = "edit"
                 PROVE  EditKeeps(y)
      OBVIOUS
    <2>1. Statement(x, {}, {})
      BY <1>1, <1>2 DEF Keeps, EditKeeps
    <2>2. y.need = {}
      BY <1>4 DEF Destination
    <2>3. Statement(y, {}, {})
      BY <1>4, <2>1, <2>2 DEF Statement
    <2> QED BY <1>4, <2>3 DEF EditKeeps
  <1>6. Keeps(f, y)
    BY <1>1, <1>4, <1>5 DEF Keeps, Computed
  <1>7. "item resolved" \notin {"idle", "done"}
    OBVIOUS
  <1> QED BY <1>1, <1>3, <1>6, <1>7, KeepsEffect, Zenon

LEMMA ItemResolvesKeeps ==
  ASSUME Inv, KeepsInv, NEW t \in Txn, ItemResolves(t)
  PROVE  KeepsInv'
  <1> DEFINE x == tx[t]
             r == x.req
             f == db.node
             lock == ItemLock(r.item)
  <1>1. /\ Busy(t) /\ x.need = {} /\ x \in Transaction /\ Keeps(f, x)
        /\ r \in Request /\ r.op \in {"place", "edit"} /\ x.search = <<>>
        /\ r.op = "place" /\ r.to # NoNode => f[r.to].exists
    BY ItemFrame
  <1>2. x.pc = "item resolved" /\ Proceed(t, x, "item locked", {lock})
    BY Zenon DEF ItemResolves, At
  <1>3. PICK y : Effect(t, y, "item locked", {lock}, x.node, x.item, x.sync, x.search)
    BY <1>1, <1>2, ProceedEffect, Zenon
  <1>4. /\ y.need = {lock} /\ y.held = x.held /\ y.req = r /\ y.pc = "item locked"
        /\ y.search = <<>>
    BY <1>1, <1>3 DEF Effect
  <1>5. r.op = "edit" => EditKeeps(y)
    <2> SUFFICES ASSUME r.op = "edit"
                 PROVE  EditKeeps(y)
      OBVIOUS
    <2>1. Statement(x, {}, {})
      BY <1>1, <1>2 DEF Keeps, EditKeeps
    <2>2. Statement(y, {}, {lock})
      BY <1>4, <2>1 DEF Statement
    <2> QED BY <1>4, <2>2 DEF EditKeeps
  <1>6. Keeps(f, y)
    BY <1>1, <1>4, <1>5 DEF Keeps, Computed
  <1>7. "item locked" \notin {"idle", "done"}
    OBVIOUS
  <1> QED BY <1>1, <1>3, <1>6, <1>7, KeepsEffect, Zenon

LEMMA ItemWritesKeeps ==
  ASSUME Inv, KeepsInv, NEW t \in Txn, ItemWrites(t)
  PROVE  KeepsInv'
  <1> DEFINE x == tx[t]
             r == x.req
             f == db.node
             lock == ItemLock(r.item)
             old == db.item[r.item]
             new == [node |-> IF r.op = "place" THEN r.to ELSE old.node,
                     version |-> old.version + 1]
             need == IF new.node = old.node THEN {} ELSE References({new.node})
  <1>1. /\ Busy(t) /\ x.need = {} /\ x \in Transaction /\ Keeps(f, x)
        /\ r \in Request /\ r.op \in {"place", "edit"} /\ x.search = <<>>
        /\ r.op = "place" /\ r.to # NoNode => f[r.to].exists
    BY ItemFrame
  <1>2. /\ x.pc = "item locked"
        /\ Proceed(t, [x EXCEPT !.item = Only(r.item, new)], "item placed", need)
    BY Zenon DEF ItemWrites, At
  <1>3. PICK y : Effect(t, y, "item placed", need, x.node, Only(r.item, new), x.sync, x.search)
    BY <1>1, <1>2, ProceedEffect, Zenon
  <1>4. /\ y.need = need /\ y.held = x.held /\ y.req = r /\ y.pc = "item placed"
        /\ y.search = <<>>
    BY <1>1, <1>3 DEF Effect
  <1>5. r.op = "edit" => EditKeeps(y)
    <2> SUFFICES ASSUME r.op = "edit"
                 PROVE  EditKeeps(y)
      OBVIOUS
    <2>1. Statement(x, {}, {lock})
      BY <1>1, <1>2 DEF Keeps, EditKeeps
    <2>2. x.held = {lock}
      BY <1>1, <2>1 DEF Statement
    <2>3. y.need = {}
      BY <1>4
    <2>4. Claims(y) = {lock} /\ y.held = {lock}
      BY <1>4, <2>2, <2>3 DEF Claims
    <2>5. \A a : TagLock(a) # lock
      BY LockFields
    <2> HIDE DEF lock
    <2>6. Tagging(y)
      BY <1>4, <2>3, <2>4, <2>5 DEF Tagging, lock
    <2> QED BY <1>4, <2>6 DEF EditKeeps
  <1>6. Keeps(f, y)
    BY <1>1, <1>4, <1>5 DEF Keeps, Computed
  <1>7. "item placed" \notin {"idle", "done"}
    OBVIOUS
  <1> QED BY <1>1, <1>3, <1>6, <1>7, KeepsEffect, Zenon

LEMMA ItemTagsKeeps ==
  ASSUME Inv, KeepsInv, NEW t \in Txn, ItemTags(t)
  PROVE  KeepsInv'
  <1> DEFINE x == tx[t]
             r == x.req
             f == db.node
             tags == r.tags
             lock == ItemLock(r.item)
  <1>1. /\ Busy(t) /\ x.need = {} /\ x \in Transaction /\ Keeps(f, x)
        /\ r \in Request /\ r.op \in {"place", "edit"} /\ x.search = <<>>
        /\ r.op = "place" /\ r.to # NoNode => f[r.to].exists
    BY ItemFrame
  <1>2. PICK k \in Untagged(t) :
          /\ \A j \in Untagged(t) : k <= j
          /\ Proceed(t, x, "item placed", {TagLock(tags[k])})
    BY Zenon DEF ItemTags
  <1>3. x.pc = "item placed"
    BY DEF ItemTags, At
  <1>4. PICK y : Effect(t, y, "item placed", {TagLock(tags[k])}, x.node, x.item, x.sync, x.search)
    BY <1>1, <1>2, ProceedEffect, Zenon
  <1>5. /\ y.need = {TagLock(tags[k])} /\ y.held = x.held /\ y.req = r /\ y.pc = "item placed"
        /\ y.search = <<>>
    BY <1>1, <1>4 DEF Effect
  <1>6. tags \in TagLists
    BY <1>1, RequestFields
  <1>7. /\ DOMAIN tags \subseteq Nat
        /\ \A j, m \in DOMAIN tags : tags[j] = tags[m] => j = m
    BY <1>6 DEF TagLists
  <1>8. k \in DOMAIN tags /\ TagLock(tags[k]) \notin x.held
    BY <1>2 DEF Untagged
  <1>9. r.op = "edit" => EditKeeps(y)
    <2> SUFFICES ASSUME r.op = "edit"
                 PROVE  EditKeeps(y)
      OBVIOUS
    <2>1. Tagging(x)
      BY <1>1, <1>3 DEF Keeps, EditKeeps
    <2>2. lock \in x.held /\ x.held \subseteq {lock} \cup Tags(r)
      BY <2>1 DEF Tagging
    <2>3. \A l \in y.need : l \in Tags(r) \ y.held
      BY <1>5, <1>8 DEF Tags
    <2>4. ASSUME NEW j \in DOMAIN tags, NEW m \in DOMAIN tags, j < m,
                 TagLock(tags[m]) \in Claims(y)
          PROVE  TagLock(tags[j]) \in y.held
      <3>1. CASE TagLock(tags[m]) \in x.held
        BY <1>5, <2>1, <2>4, <3>1 DEF Tagging, Claims
      <3>2. CASE TagLock(tags[m]) = TagLock(tags[k])
        <4>1. m = k
          BY <1>7, <1>8, <3>2 DEF TagLock
        <4>2. j \in Nat /\ k \in Nat /\ j < k
          BY <1>7, <1>8, <2>4, <4>1
        <4>3. ~(k <= j)
          BY <4>2
        <4>4. j \notin Untagged(t)
          BY <1>2, <4>3
        <4> QED BY <1>5, <4>4 DEF Untagged
      <3> QED BY <1>5, <2>4, <3>1, <3>2 DEF Claims
    <2>5. Tagging(y)
      BY <1>5, <2>2, <2>3, <2>4 DEF Tagging
    <2> QED BY <1>5, <2>5 DEF EditKeeps
  <1>10. Keeps(f, y)
    BY <1>1, <1>5, <1>9 DEF Keeps, Computed
  <1>11. "item placed" \notin {"idle", "done"}
    OBVIOUS
  <1> QED BY <1>1, <1>4, <1>10, <1>11, KeepsEffect, Zenon

LEMMA ItemRelocksKeeps ==
  ASSUME Inv, KeepsInv, NEW t \in Txn, ItemRelocks(t)
  PROVE  KeepsInv'
  <1> DEFINE x == tx[t]
             r == x.req
             f == db.node
             lock == ItemLock(r.item)
             had == {lock} \cup Tags(r)
             n == Items(t)[r.item].node
             need == IF n = NoNode THEN {} ELSE {RootLock(f[n].root)}
  <1>1. /\ Busy(t) /\ x.need = {} /\ x \in Transaction /\ Keeps(f, x)
        /\ r \in Request /\ r.op \in {"place", "edit"} /\ x.search = <<>>
        /\ r.op = "place" /\ r.to # NoNode => f[r.to].exists
    BY ItemFrame
  <1>2. x.pc = "item placed" /\ Untagged(t) = {} /\ Proceed(t, x, "item relocked", need)
    BY Zenon DEF ItemRelocks, At
  <1>3. PICK y : Effect(t, y, "item relocked", need, x.node, x.item, x.sync, x.search)
    BY <1>1, <1>2, ProceedEffect, Zenon
  <1>4. /\ y.need = need /\ y.held = x.held /\ y.req = r /\ y.pc = "item relocked"
        /\ y.search = <<>>
    BY <1>1, <1>3 DEF Effect
  <1>5. r.op = "edit" => EditKeeps(y)
    <2> SUFFICES ASSUME r.op = "edit"
                 PROVE  EditKeeps(y)
      OBVIOUS
    <2>1. Tagging(x)
      BY <1>1, <1>2 DEF Keeps, EditKeeps
    <2>2. Tags(r) \subseteq x.held
      BY <1>2 DEF Untagged, Tags
    <2>3. x.held = had
      BY <2>1, <2>2 DEF Tagging
    <2> HIDE DEF had
    <2>4. y.held = had
      BY <1>4, <2>3
    <2>5. Statement(y, had, {}) \/ Statement(y, had, {RootLock(f[n].root)})
      BY <1>4, <2>4 DEF Statement
    <2>6. Statement(y, had, {}) \/ \E q : Statement(y, had, {RootLock(q)})
      BY <2>5, Zenon
    <2> QED BY <1>4, <2>6 DEF EditKeeps, had
  <1>6. Keeps(f, y)
    BY <1>1, <1>4, <1>5 DEF Keeps, Computed
  <1>7. "item relocked" \notin {"idle", "done"}
    OBVIOUS
  <1> QED BY <1>1, <1>3, <1>6, <1>7, KeepsEffect, Zenon

LEMMA ItemProjectsKeeps ==
  ASSUME Inv, KeepsInv, NEW t \in Txn, ItemProjects(t)
  PROVE  KeepsInv'
  <1> DEFINE x == tx[t]
             r == x.req
             f == db.node
  <1>1. /\ Busy(t) /\ x.need = {} /\ x \in Transaction /\ Keeps(f, x)
        /\ r \in Request /\ r.op \in {"place", "edit"} /\ x.search = <<>>
        /\ r.op = "place" /\ r.to # NoNode => f[r.to].exists
    BY ItemFrame
  <1>2. PICK shown : Proceed(t, [x EXCEPT !.sync = Only(r.item, shown)], "item projected",
                             {SearchLock(r.item)})
    BY Zenon DEF ItemProjects
  <1>3. PICK y : Effect(t, y, "item projected", {SearchLock(r.item)}, x.node, x.item,
                        Only(r.item, shown), x.search)
    BY <1>1, <1>2, ProceedEffect, Zenon
  <1>4. /\ y.need = {SearchLock(r.item)} /\ y.held = x.held /\ y.req = r /\ y.pc = "item projected"
        /\ y.search = <<>> /\ y.sync = Only(r.item, shown)
    BY <1>1, <1>3 DEF Effect
  <1>5. r.op = "edit" => EditKeeps(y)
    <2> SUFFICES ASSUME r.op = "edit"
                 PROVE  EditKeeps(y)
      OBVIOUS
    <2>1. EditKeeps(x) /\ x.pc = "item relocked"
      BY <1>1 DEF Keeps, ItemProjects, At
    <2>2. \A l \in x.held : \/ l = ItemLock(r.item) \/ \E k \in DOMAIN r.tags : l = TagLock(r.tags[k])
                           \/ \E q : l = RootLock(q)
      BY <2>1 DEF EditKeeps, Statement, Tags
    <2>3. \A l \in x.held : l.on # "search"
      BY <2>2, LockFields
    <2> QED BY <1>4, <2>3 DEF EditKeeps
  <1>6. \A l \in y.need : l.on = "search"
    BY <1>4, LockFields
  <1>7. DOMAIN Rows(y) = {r.item}
    BY <1>4 DEF Rows, Only
  <1>8. Keeps(f, y)
    BY <1>1, <1>4, <1>5, <1>6, <1>7 DEF Keeps
  <1>9. "item projected" \notin {"idle", "done"}
    OBVIOUS
  <1> QED BY <1>1, <1>3, <1>8, <1>9, KeepsEffect, Zenon

LEMMA ItemUpsertsKeeps ==
  ASSUME Inv, KeepsInv, NEW t \in Txn, ItemUpserts(t)
  PROVE  KeepsInv'
  <1> DEFINE x == tx[t]
             r == x.req
             f == db.node
             i == r.item
             places == {db.item[i].node, x.item[i].node}
             need == IF Cardinality(places) = 1 THEN {} ELSE References(places)
  <1>1. /\ Busy(t) /\ x.need = {} /\ x \in Transaction /\ Keeps(f, x)
        /\ r \in Request /\ r.op \in {"place", "edit"} /\ x.search = <<>>
        /\ ItemStage(db.item, x)
        /\ r.op = "place" /\ r.to # NoNode => f[r.to].exists
    BY ItemFrame
  <1>2. /\ x.pc = "item projected"
        /\ Proceed(t, [x EXCEPT !.search = x.sync], "commit", need)
    BY Zenon DEF ItemUpserts, At
  <1>3. PICK y : Effect(t, y, "commit", need, x.node, x.item, x.sync, x.sync)
    BY <1>1, <1>2, ProceedEffect, Zenon
  <1>4. /\ y.need = need /\ y.req = r /\ y.pc = "commit" /\ y.search = x.sync
    BY <1>3 DEF Effect
  <1>5. r.op = "edit" => need = {}
    <2> SUFFICES ASSUME r.op = "edit"
                 PROVE  need = {}
      OBVIOUS
    <2>1. PICK new \in ItemRow : new.node = NewPlace(db.item, r) /\ x.item = Only(i, new)
      BY <1>1, <1>2 DEF ItemStage
    <2>2. x.item[i].node = db.item[i].node
      BY <2>1 DEF Only, NewPlace
    <2>3. places = {db.item[i].node}
      BY <2>2
    <2> QED BY <2>3, FS_Singleton
  <1>6. \A l \in need : l.on = "node"
    BY StatementFields
  <1> HIDE DEF need
  <1>7. r.op = "edit" => EditKeeps(y)
    BY <1>4, <1>5 DEF EditKeeps
  <1>8. DOMAIN Rows(y) = {i}
    <2>1. DOMAIN Rows(x) = {i}
      BY <1>1, <1>2 DEF Keeps, Computed
    <2> QED BY <1>2, <1>4, <2>1 DEF Rows
  <1>9. Keeps(f, y)
    BY <1>1, <1>4, <1>6, <1>7, <1>8 DEF Keeps
  <1>10. "commit" \notin {"idle", "done"}
    OBVIOUS
  <1> QED BY <1>1, <1>3, <1>9, <1>10, KeepsEffect, Zenon

-----------------------------------------------------------------------------
(* The item a placement or an edit writes is its request's, and nothing    *)
(* else; other transactions write none.                                    *)
LEMMA OwnItem ==
  ASSUME Inv, NEW t \in Txn, Busy(t), tx[t].req.op \in {"place", "edit"},
         tx[t].pc \in {"item placed", "item relocked", "item projected", "commit"}
  PROVE  LET i == tx[t].req.item IN
         /\ i \in Item /\ DOMAIN tx[t].item = {i} /\ Items(t)[i] = tx[t].item[i]
         /\ \A j \in Item \ {i} : Items(t)[j] = db.item[j]
         /\ Items(t)[i].node = NewPlace(db.item, tx[t].req)
         /\ ItemLock(i) \in tx[t].held /\ tx[t].node = <<>>
  <1> DEFINE x == tx[t]
             i == x.req.item
  <1>1. x.req \in Request /\ Stage(db.node, db.item, x) /\ db.item \in [Item -> ItemRow]
    BY Standing
  <1>2. i \in Item
    BY <1>1, RequestFields
  <1>3. ItemStage(db.item, x)
    BY <1>1 DEF Stage
  <1>4. /\ x.node = <<>> /\ ItemLock(i) \in x.held
        /\ \E new : x.item = Only(i, new) /\ new.node = NewPlace(db.item, x.req)
    BY <1>3 DEF ItemStage
  <1> QED BY <1>1, <1>2, <1>4 DEF Items, Over, Only

LEMMA NoItem ==
  ASSUME Inv, NEW t \in Txn, Busy(t), tx[t].req.op \notin {"place", "edit"}
  PROVE  tx[t].item = <<>> /\ Items(t) = db.item
  <1>1. tx[t].req \in Request /\ Stage(db.node, db.item, tx[t]) /\ db.item \in [Item -> ItemRow]
    BY Standing
  <1>2. tx[t].item = <<>>
    BY <1>1, RequestFields DEF Stage, CreateStage, UpdateStage, MoveStage
  <1> QED BY <1>1, <1>2, NothingOver DEF Items

LEMMA KeepsOver ==
  ASSUME NEW f, NEW g, NEW x, x.req \in Request, Keeps(f, x),
         \A n \in Node : f[n].exists => g[n].exists
  PROVE  Keeps(g, x)
  <1>1. x.req.op = "place" /\ x.req.to # NoNode => x.req.to \in Node
    BY RequestFields
  <1> QED BY <1>1 DEF Keeps

LEMMA CommitTables ==
  ASSUME Inv, NEW t \in Txn, Commit(t)
  PROVE  /\ db'.node = Nodes(t) /\ db'.item = Items(t)
         /\ db'.search = Over(tx[t].search, db.search)
         /\ Busy(t) /\ tx[t].pc = "commit" /\ tx[t].need = {}
         /\ \A u \in Txn \ {t} : tx'[u] = tx[u]
         /\ tx'[t].need = {} /\ tx'[t].pc = "done"
         /\ \A n \in Node : db.node[n].exists => Nodes(t)[n].exists
  <1>1. /\ db'.node = Nodes(t) /\ db'.item = Items(t) /\ db'.search = Over(tx[t].search, db.search)
        /\ tx[t].pc = "commit" /\ tx[t].need = {} /\ Busy(t)
    BY DEF Commit, At, Busy
  <1>2. tx' = [tx EXCEPT ![t] = [Fresh EXCEPT !.pc = "done"]] /\ tx \in [Txn -> Transaction]
    BY DEF Commit, Inv, TypeInv
  <1>3. [Fresh EXCEPT !.pc = "done"].need = {} /\ [Fresh EXCEPT !.pc = "done"].pc = "done"
    BY DEF Fresh
  <1>4. \A n \in Node : db.node[n].exists => Nodes(t)[n].exists
    <2>1. Written(db.node, Nodes(t), tx[t])
      BY <1>1, CommitWrites
    <2> QED BY <2>1 DEF Written, RowGuarded
  <1> QED BY <1>1, <1>2, <1>3, <1>4

LEMMA KeepsCommit ==
  ASSUME Inv, KeepsInv, NEW t \in Txn, Commit(t)
  PROVE  KeepsInv'
  <1> DEFINE x == tx[t]
             f == db.node
             q == db.item
  <1>1. /\ db'.node = Nodes(t) /\ db'.item = Items(t)
        /\ Busy(t) /\ x.pc = "commit" /\ x.need = {}
        /\ \A u \in Txn \ {t} : tx'[u] = tx[u]
        /\ tx'[t].need = {} /\ tx'[t].pc = "done"
        /\ \A n \in Node : f[n].exists => Nodes(t)[n].exists
    BY CommitTables
  <1>2. ASSUME NEW u \in Txn, Busy(u)'
        PROVE  Keeps(Nodes(t), tx'[u])
    <2>1. u # t /\ tx'[u] = tx[u] /\ Busy(u)
      BY <1>1, <1>2 DEF Busy
    <2>2. tx[u].req \in Request /\ Keeps(f, tx[u])
      BY <2>1, Standing DEF KeepsInv
    <2> QED BY <1>1, <2>1, <2>2, KeepsOver
  <1>3. \A u \in Txn : tx'[u].need # {} => Busy(u)'
    BY <1>1 DEF KeepsInv, Busy
  <1>4. PlacesExist(Nodes(t), Items(t))
    <2> SUFFICES ASSUME NEW i \in Item, Items(t)[i].node # NoNode
                 PROVE  Nodes(t)[Items(t)[i].node].exists
      BY DEF PlacesExist
    <2>1. q[i].node # NoNode => q[i].node \in Node /\ f[q[i].node].exists
      BY DEF KeepsInv, PlacesExist, Inv, TypeInv, ItemRow
    <2>2. CASE Items(t)[i] = q[i]
      BY <1>1, <2>1, <2>2
    <2>3. CASE Items(t)[i] # q[i]
      <3>1. x.req.op \in {"place", "edit"}
        BY <1>1, <2>3, NoItem
      <3>2. i = x.req.item /\ Items(t)[i].node = NewPlace(q, x.req)
        BY <1>1, <2>3, <3>1, OwnItem
      <3>3. CASE x.req.op = "place"
        <4>1. Keeps(f, x) /\ x.req \in Request
          BY <1>1, Standing DEF KeepsInv
        <4>2. Items(t)[i].node = x.req.to /\ x.req.to \in Node
          BY <3>2, <3>3, <4>1, RequestFields DEF NewPlace
        <4>3. f[x.req.to].exists
          BY <1>1, <3>3, <4>1, <4>2 DEF Keeps
        <4> QED BY <1>1, <4>2, <4>3
      <3>4. CASE x.req.op = "edit"
        BY <1>1, <2>1, <3>2, <3>4 DEF NewPlace
      <3> QED BY <3>1, <3>3, <3>4
    <2> QED BY <2>2, <2>3
  <1> QED BY <1>1, <1>2, <1>3, <1>4 DEF KeepsInv

LEMMA KeepsStart == Init => KeepsInv
  <1> SUFFICES ASSUME Init
               PROVE  KeepsInv
    OBVIOUS
  <1>1. PICK s \in Scenarios :
          db = [node   |-> s.nodes,
                item   |-> [i \in Item |-> [node |-> s.places[i], version |-> 1]],
                search |-> [i \in Item |-> Projected(s.nodes, s.places[i])]]
    BY Zenon DEF Init
  <1>2. db.node = s.nodes /\ db.item = [i \in Item |-> [node |-> s.places[i], version |-> 1]]
    BY <1>1
  <1>3. PlacesExist(db.node, db.item)
    BY <1>2, ScenarioAssumption DEF PlacesExist
  <1>4. \A t \in Txn : ~Busy(t) /\ tx[t].need = {}
    BY DEF Init, Fresh, Busy
  <1> QED BY <1>3, <1>4 DEF KeepsInv

LEMMA KeepsNext ==
  ASSUME Inv, KeepsInv, [Next]_vars
  PROVE  KeepsInv'
  <1>1. CASE UNCHANGED vars
    <2>1. db' = db /\ tx' = tx
      BY <1>1 DEF vars
    <2> QED BY <2>1 DEF KeepsInv, Busy
  <1>2. ASSUME NEW t \in Txn, Step(t)
        PROVE  KeepsInv'
    <2>1. CASE Acquire(t) \/ Commit(t) \/ Abort(t)
      BY <2>1, KeepsAcquire, KeepsCommit, KeepsAbort
    <2>2. CASE CreateLocksParent(t) \/ CreateLocksRoot(t) \/ CreateInserts(t)
      BY <2>2, CreateKeeps
    <2>3. CASE UpdateLocksNode(t) \/ UpdateLocksRoot(t) \/ UpdateWrites(t)
      BY <2>3, UpdateKeepsStep
    <2>4. CASE SyncWrites(t)
      BY <2>4, SyncKeeps
    <2>5. CASE \/ MoveLocksNodes(t) \/ MoveLocksRoots(t) \/ MoveChecks(t) \/ MoveWrites(t)
               \/ MoveSyncs(t)
      BY <2>5, MoveKeepsStep
    <2>6. CASE ItemReads(t) \/ ItemResolves(t) \/ ItemWrites(t) \/ ItemTags(t)
      BY <2>6, ItemReadsKeeps, ItemResolvesKeeps, ItemWritesKeeps, ItemTagsKeeps
    <2>7. CASE ItemRelocks(t) \/ ItemProjects(t) \/ ItemUpserts(t)
      BY <2>7, ItemRelocksKeeps, ItemProjectsKeeps, ItemUpsertsKeeps
    <2> QED BY <1>2, <2>1, <2>2, <2>3, <2>4, <2>5, <2>6, <2>7 DEF Step
  <1>3. ASSUME NEW t \in Txn, NEW r \in asks, Begin(t, r)
        PROVE  KeepsInv'
    BY <1>3, KeepsBegin
  <1> QED BY <1>1, <1>2, <1>3 DEF Next

LEMMA KeepsInvariant == Spec => [](Inv /\ KeepsInv)
  <1>1. Init => Inv /\ KeepsInv
    BY InitInv, KeepsStart
  <1>2. Inv /\ KeepsInv /\ [Next]_vars => (Inv /\ KeepsInv)'
    BY StepInv, KeepsNext
  <1> QED BY <1>1, <1>2, PTL DEF Spec

-----------------------------------------------------------------------------
(* Circles of waiting transactions.  An update or an edit asks for a first *)
(* row, having nothing; for its tags, having the row of its item; for a    *)
(* tree, having rows; or for projections, having rows and trees.           *)
AsksRow(x) == x.held = {} /\ \A l \in x.need : l.on \in {"node", "item"}

AsksTag(x) ==
  /\ x.req.op = "edit" /\ Tagging(x)
  /\ (\A l \in x.held : l.on \in {"item", "tag"}) /\ \A l \in x.need : l.on = "tag"

AsksTree(x) ==
  (\A l \in x.held : l.on \in {"node", "item", "tag"}) /\ \A l \in x.need : l.on = "root"

AsksShown(x) ==
  /\ x.pc \in {"synced", "item projected"}
  /\ \A l \in x.need : \E i \in Item : l = SearchLock(i)
  /\ \A l \in x.held : l.on = "search" => \E i \in Item : l = SearchLock(i)

LEMMA SyncLocked ==
  ASSUME NEW sync
  PROVE  \A l \in SyncLocks(sync) : \E i \in DOMAIN sync : l = SearchLock(i)
  BY Zenon DEF SyncLocks

LEMMA Rounds ==
  ASSUME NEW f, NEW q, NEW x \in Transaction, x.req \in Request, x.req.op \in {"update", "edit"},
         Keeps(f, x), Stage(f, q, x), x.need # {}
  PROVE  AsksRow(x) \/ AsksTag(x) \/ AsksTree(x) \/ AsksShown(x)
  <1> DEFINE r == x.req
  <1>1. CASE r.op = "update"
    <2> DEFINE row == NodeLock(r.node, "update")
    <2>1. UpdateKeeps(x)
      BY <1>1 DEF Keeps
    <2>2. x.pc \in {"update", "update locked", "update rooted", "synced", "commit"}
      BY <1>1 DEF Stage, UpdateStage
    <2>3. CASE x.pc = "update locked"
      <3>1. Statement(x, {}, {row})
        BY <2>1, <2>3 DEF UpdateKeeps
      <3>2. x.need = {row} /\ x.held = {}
        BY <3>1 DEF Statement
      <3> QED BY <3>2, LockFields DEF AsksRow
    <2>4. CASE x.pc = "update rooted"
      <3>1. PICK n : Statement(x, {row}, {RootLock(n)})
        BY <2>1, <2>4 DEF UpdateKeeps
      <3>2. x.need = {RootLock(n)} /\ x.held = {row}
        BY <3>1 DEF Statement
      <3> HIDE DEF row
      <3> QED BY <3>2, LockFields DEF AsksTree, row
    <2>5. CASE x.pc = "synced"
      <3>1. PICK n : Statement(x, {row, RootLock(n)}, SyncLocks(x.sync))
        BY <2>1, <2>5 DEF UpdateKeeps
      <3>2. DOMAIN x.sync \subseteq Item
        BY DEF Transaction, Partial
      <3>3. \A l \in SyncLocks(x.sync) : \E i \in Item : l = SearchLock(i)
        BY <3>2, SyncLocked
      <3>4. row.on = "node" /\ RootLock(n).on = "root"
        BY LockFields
      <3> HIDE DEF row
      <3>5. \A l \in x.need : l \in SyncLocks(x.sync)
        BY <3>1 DEF Statement
      <3>6. \A l \in x.held : l = row \/ l = RootLock(n) \/ l \in SyncLocks(x.sync)
        BY <3>1 DEF Statement
      <3> QED BY <2>5, <3>3, <3>4, <3>5, <3>6 DEF AsksShown
    <2> QED BY <2>1, <2>2, <2>3, <2>4, <2>5 DEF UpdateKeeps, Statement
  <1>2. CASE r.op = "edit"
    <2> DEFINE i == r.item
               had == {ItemLock(i)} \cup Tags(r)
    <2>1. EditKeeps(x) /\ i \in Item
      BY <1>2, RequestFields DEF Keeps
    <2>2. x.pc \in {"place", "edit", "item resolved", "item locked", "item placed",
                    "item relocked", "item projected", "commit"}
      BY <1>2 DEF Stage, ItemStage
    <2>3. \A l \in had : l.on \in {"item", "tag"}
      <3>1. \A l \in Tags(r) : \E k \in DOMAIN r.tags : l = TagLock(r.tags[k])
        BY DEF Tags
      <3> QED BY <3>1, LockFields
    <2>4. CASE x.pc = "item locked"
      <3>1. Statement(x, {}, {ItemLock(i)})
        BY <2>1, <2>4 DEF EditKeeps
      <3>2. x.need = {ItemLock(i)} /\ x.held = {}
        BY <3>1 DEF Statement
      <3> QED BY <3>2, LockFields DEF AsksRow
    <2>5. CASE x.pc = "item placed"
      <3>1. Tagging(x)
        BY <2>1, <2>5 DEF EditKeeps
      <3>2. \A l \in x.held : l.on \in {"item", "tag"}
        BY <2>3, <3>1 DEF Tagging
      <3>3. \A l \in x.need : l.on = "tag"
        <4>1. \A l \in x.need : \E k \in DOMAIN r.tags : l = TagLock(r.tags[k])
          BY <3>1 DEF Tagging, Tags
        <4> QED BY <4>1, LockFields
      <3> QED BY <1>2, <3>1, <3>2, <3>3 DEF AsksTag
    <2>6. CASE x.pc = "item relocked"
      <3> HIDE DEF had
      <3>1. Statement(x, had, {}) \/ \E n : Statement(x, had, {RootLock(n)})
        BY <2>1, <2>6 DEF EditKeeps, had
      <3>2. PICK n : Statement(x, had, {RootLock(n)})
        BY <3>1 DEF Statement
      <3>3. x.need = {RootLock(n)} /\ x.held = had
        BY <3>2 DEF Statement
      <3> QED BY <2>3, <3>3, LockFields DEF AsksTree
    <2>7. CASE x.pc = "item projected"
      BY <2>1, <2>7 DEF EditKeeps, AsksShown
    <2> QED BY <2>1, <2>2, <2>4, <2>5, <2>6, <2>7 DEF EditKeeps, Statement
  <1> QED BY <1>1, <1>2

(* What it writes leaves items in their nodes, and nodes in their trees.   *)
LEMMA ShownWhere ==
  ASSUME Inv, NEW t \in Txn, Busy(t), tx[t].req.op \in {"update", "edit"}, AsksShown(tx[t]),
         NEW i \in Item, Secured(t, i)
  PROVE  LET n == db.item[i].node IN
         IF n = NoNode THEN ItemLock(i) \in tx[t].held
         ELSE RootLock(db.node[n].root) \in tx[t].held
  <1> DEFINE x == tx[t]
             n == db.item[i].node
  <1>1. x.req \in Request /\ Stage(db.node, db.item, x) /\ db.node \in [Node -> NodeRow]
    BY Standing
  <1>2. CASE x.req.op = "update"
    <2> DEFINE c == x.req.node
    <2>1. Items(t) = db.item
      BY <1>2, NoItem
    <2>2. UpdateStage(db.node, x) /\ c \in Node
      BY <1>1, <1>2, RequestFields DEF Stage
    <2>3. x.pc = "synced"
      BY <2>2 DEF UpdateStage, AsksShown
    <2>4. PICK after \in NodeRow : Updated(db.node[c], after) /\ x.node = Only(c, after)
      BY <2>2, <2>3 DEF UpdateStage
    <2>5. after.root = db.node[c].root
      BY <1>1, <2>2, <2>4, UpdatedRow
    <2>6. n \in Node => Nodes(t)[n].root = db.node[n].root
      BY <1>1, <2>2, <2>4, <2>5 DEF Nodes, Over, Only
    <2>7. n \in Node \cup {NoNode}
      BY DEF Inv, TypeInv, ItemRow
    <2> QED BY <2>1, <2>6, <2>7 DEF Secured
  <1>3. CASE x.req.op = "edit"
    <2>1. x.pc = "item projected"
      BY <1>1, <1>3 DEF Stage, ItemStage, AsksShown
    <2>2. Items(t)[i].node = n /\ x.node = <<>>
      BY <1>3, <2>1, OwnItem DEF NewPlace
    <2>3. Nodes(t) = db.node
      BY <1>1, <2>2, NothingOver DEF Nodes
    <2> QED BY <2>2, <2>3 DEF Secured
  <1> QED BY <1>2, <1>3

LEMMA NoGreatest ==
  ASSUME NEW N \in Nat, NEW V, V \subseteq 1..N, V # {},
         \A v \in V : \E w \in V : v < w
  PROVE  FALSE
  <1> DEFINE T == {N - v : v \in V}
  <1>1. ASSUME NEW v \in V
        PROVE  v \in Nat /\ N - v \in Nat
    <2>1. v \in 1..N
      OBVIOUS
    <2> QED BY <2>1
  <1>2. T \subseteq Nat /\ T # {}
    BY <1>1
  <1> DEFINE R == OpToRel(<, Nat)
  <1>3. IsWellFoundedOn(R, Nat)
    BY NatLessThanWellFounded
  <1>4. \A a, b \in Nat : a < b => <<a, b>> \in R
    BY DEF OpToRel
  <1> HIDE DEF R, T
  <1>5. PICK a \in T : \A b \in T : <<b, a>> \notin R
    BY <1>2, <1>3, WFMin
  <1>6. PICK v \in V : a = N - v
    BY <1>5 DEF T
  <1>7. PICK w \in V : v < w
    BY <1>6
  <1>8. N - w \in T /\ N - w < a /\ N - w \in Nat /\ a \in Nat
    BY <1>1, <1>6, <1>7 DEF T
  <1> QED BY <1>4, <1>5, <1>8

(* Who is asked for a tag it holds, itself asks for one of a higher rank.  *)
LEMMA HigherTag ==
  ASSUME NEW x, AsksTag(x), x.req.tags \in TagLists, NEW rank \in [Tag -> Nat],
         \A j, k \in DOMAIN x.req.tags :
           j < k => rank[x.req.tags[j]] < rank[x.req.tags[k]],
         NEW m \in x.held, m.on = "tag", NEW l \in x.need
  PROVE  \E a, b \in Tag : m = TagLock(a) /\ l = TagLock(b) /\ rank[a] < rank[b]
  <1> DEFINE tags == x.req.tags
  <1>1. Tagging(x)
    BY DEF AsksTag
  <1>2. PICK j \in DOMAIN tags : m = TagLock(tags[j])
    <2>1. m # ItemLock(x.req.item)
      BY LockFields
    <2> QED BY <1>1, <2>1 DEF Tagging, Tags
  <1>3. l \notin x.held /\ \E k \in DOMAIN tags : l = TagLock(tags[k])
    BY <1>1 DEF Tagging, Tags
  <1>4. PICK k \in DOMAIN tags : l = TagLock(tags[k])
    BY <1>3
  <1>5. j \in Nat /\ k \in Nat /\ tags[j] \in Tag /\ tags[k] \in Tag
    BY <1>2, <1>4 DEF TagLists
  <1>6. j # k
    BY <1>2, <1>3, <1>4
  <1>7. ~(k < j)
    BY <1>1, <1>2, <1>3, <1>4 DEF Tagging, Claims
  <1>8. j < k
    BY <1>5, <1>6, <1>7
  <1> QED BY <1>2, <1>4, <1>5, <1>8

LEMMA NoCircle ==
  ASSUME Inv, KeepsInv
  PROVE  CirclesHaveCause
  <1> SUFFICES ASSUME NEW S \in (SUBSET Updating) \ {{}},
                      \A t \in S : \E u \in S : Waits(t, u),
                      TagsRanked(S), AllSecured(S)
               PROVE  FALSE
    BY DEF CirclesHaveCause
  <1>1. ASSUME NEW t \in S
        PROVE  /\ t \in Txn /\ Busy(t) /\ tx[t].req \in Request
               /\ tx[t].req.op \in {"update", "edit"}
               /\ AsksRow(tx[t]) \/ AsksTag(tx[t]) \/ AsksTree(tx[t]) \/ AsksShown(tx[t])
    <2>1. t \in Txn /\ tx[t].need # {} /\ tx[t].req.op \in {"update", "edit"}
      BY DEF Updating
    <2>2. Busy(t)
      BY <2>1 DEF KeepsInv
    <2>3. /\ Keeps(db.node, tx[t]) /\ Stage(db.node, db.item, tx[t])
          /\ tx[t] \in Transaction /\ tx[t].req \in Request
      BY <2>1, <2>2, Standing DEF KeepsInv
    <2> QED BY <2>1, <2>2, <2>3, Rounds
  <1>2. ASSUME NEW t \in S
        PROVE  \E u \in S \ {t} : \E l \in tx[t].need, m \in tx[u].held : l.on = m.on /\ l.id = m.id
    <2>1. PICK u \in S : Waits(t, u)
      OBVIOUS
    <2>2. PICK l \in Next1(t) : u \in Holders(t, l)
      BY <2>1 DEF Waits
    <2>3. l \in tx[t].need
      BY DEF Next1
    <2>4. u # t /\ \E m \in tx[u].held : l.on = m.on /\ l.id = m.id
      BY <2>2 DEF Holders, Conflict
    <2> QED BY <2>3, <2>4
  <1>3. ASSUME NEW t \in S, AsksShown(tx[t])
        PROVE  FALSE
    <2>1. PICK u \in S \ {t} :
            \E l \in tx[t].need, m \in tx[u].held : l.on = m.on /\ l.id = m.id
      BY <1>2
    <2>2. PICK l \in tx[t].need, m \in tx[u].held : l.on = m.on /\ l.id = m.id
      BY <2>1
    <2>3. PICK i \in Item : l = SearchLock(i)
      BY <1>3 DEF AsksShown
    <2>4. m.on = "search"
      BY <2>2, <2>3, LockFields
    <2>5. AsksShown(tx[u])
      BY <1>1, <2>4 DEF AsksRow, AsksTag, AsksTree
    <2>6. PICK j \in Item : m = SearchLock(j)
      BY <2>4, <2>5 DEF AsksShown
    <2>7. i = j
      BY <2>2, <2>3, <2>6, LockFields
    <2>8. Secured(t, i) /\ Secured(u, i)
      BY <2>3, <2>6, <2>7 DEF AllSecured
    <2> DEFINE n == db.item[i].node
               lock == IF n = NoNode THEN ItemLock(i) ELSE RootLock(db.node[n].root)
    <2>9. lock \in tx[t].held /\ lock \in tx[u].held
      BY <1>1, <1>3, <2>5, <2>8, ShownWhere
    <2>10. Conflict(lock, lock)
      BY DEF Conflict, ItemLock, RootLock
    <2> HIDE DEF lock
    <2> QED BY <1>1, <2>9, <2>10 DEF Inv, LockInv
  <1>4. ASSUME NEW t \in S, AsksTree(tx[t])
        PROVE  FALSE
    <2>1. PICK u \in S \ {t} : \E l \in tx[t].need, m \in tx[u].held : l.on = m.on /\ l.id = m.id
      BY <1>2
    <2>2. \E m \in tx[u].held : m.on = "root"
      BY <1>4, <2>1 DEF AsksTree
    <2>3. AsksShown(tx[u])
      BY <1>1, <2>2 DEF AsksRow, AsksTag, AsksTree
    <2> QED BY <1>3, <2>3
  <1>5. ASSUME NEW t \in S, NEW l \in tx[t].need, NEW u \in S, NEW m \in tx[u].held,
               l.on = m.on
        PROVE  AsksTag(tx[u])
    BY <1>1, <1>3, <1>4 DEF AsksRow
  <1>6. ASSUME NEW t \in S
        PROVE  \E u \in S : \E l \in tx[t].need, m \in tx[u].held :
                 AsksTag(tx[u]) /\ l.on = m.on /\ l.id = m.id
    BY <1>2, <1>5
  <1>7. PICK t0 \in S : AsksTag(tx[t0])
    BY <1>6
  <1> DEFINE N == Cardinality(Tag)
  <1>8. PICK rank \in [Tag -> 1..N] :
          \A t \in S : tx[t].req.op = "edit" =>
            \A j, k \in DOMAIN tx[t].req.tags :
              j < k => rank[tx[t].req.tags[j]] < rank[tx[t].req.tags[k]]
    BY DEF TagsRanked
  <1>9. N \in Nat
    BY TagAssumption, FS_CardinalityType
  <1> HIDE DEF N
  <1>10. rank \in [Tag -> Nat]
    BY <1>8, <1>9
  <1>11. ASSUME NEW u \in S, AsksTag(tx[u]), NEW m \in tx[u].held, m.on = "tag",
                NEW l \in tx[u].need
         PROVE  \E a, b \in Tag : m = TagLock(a) /\ l = TagLock(b) /\ rank[a] < rank[b]
    <2>1. tx[u].req.tags \in TagLists /\ tx[u].req.op = "edit"
      BY <1>1, <1>11, RequestFields DEF AsksTag
    <2>2. \A j, k \in DOMAIN tx[u].req.tags :
            j < k => rank[tx[u].req.tags[j]] < rank[tx[u].req.tags[k]]
      BY <1>8, <2>1
    <2> QED BY <1>10, <1>11, <2>1, <2>2, HigherTag
  (* The tags that some transaction of S holds, and another asks for.      *)
  <1> DEFINE Asked(a) == \E u \in S : AsksTag(tx[u]) /\ \E m \in tx[u].held : m = TagLock(a)
             V == {rank[a] : a \in {a \in Tag : Asked(a)}}
  <1>12. ASSUME NEW t \in S, AsksTag(tx[t])
         PROVE  \E b \in Tag : Asked(b) /\ TagLock(b) \in tx[t].need
    <2>0. PICK u \in S : \E l \in tx[t].need, m \in tx[u].held :
            AsksTag(tx[u]) /\ l.on = m.on /\ l.id = m.id
      BY <1>6
    <2>1. PICK l \in tx[t].need, m \in tx[u].held :
            AsksTag(tx[u]) /\ l.on = m.on /\ l.id = m.id
      BY <2>0
    <2>2. m.on = "tag"
      BY <1>12, <2>1 DEF AsksTag
    <2>3. \E k \in DOMAIN tx[t].req.tags : l = TagLock(tx[t].req.tags[k])
      BY <1>12, <2>1 DEF AsksTag, Tagging, Tags
    <2>4. PICK k \in DOMAIN tx[t].req.tags : l = TagLock(tx[t].req.tags[k])
      BY <2>3
    <2>5. tx[u].need # {}
      BY DEF Updating
    <2>6. PICK a \in Tag : m = TagLock(a)
      BY <1>11, <2>1, <2>2, <2>5
    <2>7. l = m
      BY <2>1, <2>4, <2>6 DEF TagLock
    <2> QED BY <2>1, <2>6, <2>7
  <1>13. V # {}
    <2>1. PICK t \in S : AsksTag(tx[t])
      BY <1>7
    <2>2. PICK b \in Tag : Asked(b)
      BY <1>12, <2>1
    <2> HIDE DEF Asked
    <2>3. rank[b] \in V
      BY <2>2
    <2> QED BY <2>3
  <1>14. V \subseteq 1..N
    BY <1>8
  <1>15. ASSUME NEW v \in V
         PROVE  \E w \in V : v < w
    <2>1. PICK a \in Tag : Asked(a) /\ v = rank[a]
      OBVIOUS
    <2>2. PICK u \in S : AsksTag(tx[u]) /\ TagLock(a) \in tx[u].held
      BY <2>1
    <2>3. PICK b \in Tag : Asked(b) /\ TagLock(b) \in tx[u].need
      BY <1>12, <2>2
    <2> HIDE DEF Asked
    <2>4. TagLock(a).on = "tag"
      BY LockFields
    <2>5. PICK c, d \in Tag : TagLock(a) = TagLock(c) /\ TagLock(b) = TagLock(d) /\ rank[c] < rank[d]
      BY <1>11, <2>2, <2>3, <2>4
    <2>6. a = c /\ b = d
      BY <2>5 DEF TagLock
    <2> QED BY <2>1, <2>3, <2>5, <2>6
  <1> HIDE DEF V
  <1> QED BY <1>9, <1>13, <1>14, <1>15, NoGreatest

(* Circles of waiting updates and edits have one of the two causes.        *)
THEOREM CirclesExplained == Spec => []CirclesHaveCause
  BY KeepsInvariant, NoCircle, PTL

-----------------------------------------------------------------------------
(* Projections.  A projection depends on the path alone, and on what is    *)
(* shown of the nodes on it.                                               *)
SameShown(f, g, n) ==
  /\ g[n].path = f[n].path
  /\ \A k \in 1..Len(f[n].path) :
       LET a == f[n].path[k] IN
       g[a].title = f[a].title /\ g[a].archived = f[a].archived /\ g[a].private = f[a].private

LEMMA SameProjection ==
  ASSUME NEW f \in [Node -> NodeRow], Forest(f), NEW n \in Node, f[n].exists, NEW g,
         SameShown(f, g, n)
  PROVE  Projection(g, n) = Projection(f, n) /\ Projected(g, n) = Projected(f, n)
  <1> DEFINE p == f[n].path
  <1>1. p \in Seq(Node) /\ g[n].path = p
    BY PathFacts DEF SameShown
  <1>2. DOMAIN p = 1..Len(p)
    BY <1>1
  <1>3. \A k \in DOMAIN p :
          /\ g[p[k]].title = f[p[k]].title
          /\ g[p[k]].archived = f[p[k]].archived /\ g[p[k]].private = f[p[k]].private
    BY <1>2, Zenon DEF SameShown
  <1>4. \A a \in Range(p) : g[a].archived = f[a].archived /\ g[a].private = f[a].private
    BY <1>3, Zenon DEF Range
  <1> HIDE DEF p
  <1>5. [k \in DOMAIN p |-> <<p[k], g[p[k]].title>>] = [k \in DOMAIN p |-> <<p[k], f[p[k]].title>>]
    BY <1>3
  <1>6. /\ (\E a \in Range(p) : g[a].archived) <=> (\E a \in Range(p) : f[a].archived)
        /\ (\E a \in Range(p) : g[a].private) <=> (\E a \in Range(p) : f[a].private)
    BY <1>4, Zenon
  <1>7. Projection(g, n) = Projection(f, n)
    BY <1>1, <1>5, <1>6 DEF Projection, p
  <1> QED BY <1>7 DEF Projected

LEMMA Nowhere ==
  ASSUME NEW f, NEW n
  PROVE  /\ n = NoNode => Projected(f, n) = Loose
         /\ n \in Node => Projected(f, n) = Projection(f, n)
  BY NodeAssumption DEF Projected

-----------------------------------------------------------------------------
(* What has been written is a forest from the first write on, not only at  *)
(* the commit.                                                             *)
LEMMA WrittenAt ==
  ASSUME NEW f \in [Node -> NodeRow], Forest(f), NEW q, NEW x \in Transaction, x.req \in Request,
         Stage(f, q, x), x.req.op = "create" => ~f[x.req.node].exists,
         x.pc \in {"moved", "synced", "item projected", "commit"}
  PROVE  Written(f, Over(x.node, f), x)
  <1> DEFINE y == [x EXCEPT !.pc = "commit"]
  <1>1. /\ y \in Transaction /\ y.pc = "commit" /\ y.req = x.req /\ y.held = x.held
        /\ y.need = x.need /\ y.node = x.node /\ y.item = x.item /\ y.rows = x.rows
    BY DEF Transaction, Phase
  <1> HIDE DEF y
  <1>2. Claims(y) = Claims(x)
    BY <1>1 DEF Claims
  <1>3. Written(f, Over(y.node, f), y) => Written(f, Over(x.node, f), x)
    BY <1>1 DEF Written, RowGuarded
  <1>4. CASE x.req.op = "create"
    <2>1. CreateStage(f, x)
      BY <1>4 DEF Stage
    <2>2. x.pc = "commit"
      BY <2>1 DEF CreateStage
    <2> QED BY <1>4, <2>1, <2>2, CreateWritten
  <1>5. CASE x.req.op = "update"
    <2>1. UpdateStage(f, x)
      BY <1>5 DEF Stage
    <2>2. UpdateStage(f, y)
      BY <1>1, <1>2, <2>1 DEF UpdateStage
    <2> QED BY <1>1, <1>3, <1>5, <2>2, UpdateWritten
  <1>6. CASE x.req.op = "move"
    <2>1. MoveStage(f, x)
      BY <1>6 DEF Stage
    <2>2. MoveChecked(f, x) /\ x.pc # "move subtree"
      BY <2>1, MoveIsChecked DEF MoveStage
    <2>3. MoveChecked(f, y)
      BY <1>1, <1>2, <2>2 DEF MoveChecked
    <2>4. MoveStage(f, y)
      BY <2>3, CheckedMove
    <2> QED BY <1>1, <1>3, <1>6, <2>4, MoveWritten
  <1>7. CASE x.req.op \in {"place", "edit"}
    <2>1. x.node = <<>>
      BY <1>7 DEF Stage, ItemStage
    <2> QED BY <2>1, ItemWritten
  <1> QED BY <1>4, <1>5, <1>6, <1>7, RequestFields

LEMMA WrittenSoFar ==
  ASSUME Inv, NEW t \in Txn, tx[t].pc \in {"moved", "synced", "item projected", "commit"}
  PROVE  Written(db.node, Nodes(t), tx[t])
  <1>1. Busy(t)
    BY DEF Busy
  <1>2. /\ tx[t] \in Transaction /\ db.node \in [Node -> NodeRow] /\ Forest(db.node)
        /\ tx[t].req \in Request /\ Stage(db.node, db.item, tx[t])
    BY <1>1, Standing
  <1>3. tx[t].req.op = "create" => ~db.node[tx[t].req.node].exists
    BY <1>1 DEF Inv, UnusedInv, Creating
  <1> QED BY <1>2, <1>3, WrittenAt DEF Nodes

LEMMA SameSubtree ==
  ASSUME NEW f, NEW g, NEW s \in Node,
         \A n \in Node : g[n].exists = f[n].exists /\ g[n].path = f[n].path
  PROVE  Subtree(g, s) = Subtree(f, s)
  BY DEF Subtree

(* Whether a node lies in a subtree shows in its own row.                  *)
LEMMA Below ==
  ASSUME NEW f \in [Node -> NodeRow], Forest(f), NEW s \in Node, f[s].exists, NEW d \in Node
  PROVE  d \in Subtree(f, s) <=> f[d].exists /\ \E k \in 1..Len(f[d].path) : f[d].path[k] = s
  BY SubtreeFacts

LEMMA InSubtree ==
  ASSUME NEW f \in [Node -> NodeRow], Forest(f), NEW g \in [Node -> NodeRow], Forest(g),
         NEW s \in Node, f[s].exists, g[s].exists, NEW d \in Node, g[d] = f[d],
         d \in Subtree(g, s)
  PROVE  d \in Subtree(f, s)
  <1>1. g[d].exists /\ \E k \in 1..Len(g[d].path) : g[d].path[k] = s
    BY Below, Zenon
  <1>2. f[d].exists /\ \E k \in 1..Len(f[d].path) : f[d].path[k] = s
    BY <1>1
  <1> QED BY <1>2, Below, Zenon

(* A moved subtree is the same set of nodes where it comes to lie.         *)
LEMMA MovedSubtree ==
  ASSUME NEW f \in [Node -> NodeRow], Forest(f), NEW s \in Node, f[s].exists,
         NEW to \in Node, f[to].exists, NEW g \in [Node -> NodeRow], Forest(g),
         g = Over([d \in Subtree(f, s) |-> Moved(f, s, to, d)], f)
  PROVE  /\ Subtree(g, s) = Subtree(f, s)
         /\ \A d \in Node : d \notin Subtree(f, s) => g[d] = f[d]
         /\ \A d \in Subtree(f, s) : g[d] = Moved(f, s, to, d) /\ g[d].root = f[to].root
  <1> DEFINE D == Subtree(f, s)
             q == Len(f[to].path)
  <1>1. D \subseteq Node /\ s \in D
    BY SubtreeFacts DEF Subtree
  <1>2. \A d \in Node : g[d] = IF d \in D THEN Moved(f, s, to, d) ELSE f[d]
    <2>1. g = Over([d \in D |-> Moved(f, s, to, d)], f)
      OBVIOUS
    <2> HIDE DEF D
    <2> QED BY <1>1, <2>1 DEF Over
  <1>3. \A d \in D : MovedAs(f, s, to, d, g[d])
    BY <1>1, <1>2, MovedRow
  <1>4. g[s].exists
    BY <1>1, <1>3 DEF MovedAs
  <1>5. ASSUME NEW d \in D
        PROVE  d \in Subtree(g, s)
    <2>1. g[d].path[q + 1] = s /\ q + 1 \in 1..Len(g[d].path) /\ g[d].exists
      <3>1. f[d].path[Len(f[s].path)] = s
        BY SubtreeFacts
      <3>2. MovedAs(f, s, to, d, g[d])
        BY <1>3
      <3> DEFINE total == Len(g[d].path)
                 len == Len(f[d].path)
                 cut == Len(f[s].path)
      <3>3. /\ q \in Nat /\ total = q + 1 + (len - cut) /\ cut \in 1..len /\ len \in Nat
            /\ \A k \in (q + 1)..total : g[d].path[k] = f[d].path[k - q - 1 + cut]
        BY <3>2 DEF MovedAs
      <3>4. g[d].exists
        BY <3>2 DEF MovedAs
      <3> HIDE DEF q, D, total, len, cut
      <3>5. q + 1 \in (q + 1)..total /\ q + 1 \in 1..total /\ (q + 1) - q - 1 + cut = cut
        BY <3>3
      <3>6. g[d].path[q + 1] = f[d].path[cut]
        BY <3>3, <3>5
      <3> QED BY <3>1, <3>4, <3>5, <3>6 DEF total, cut
    <2> QED BY <1>1, <1>4, <2>1, SubtreeFacts
  <1>6. ASSUME NEW d \in Node, d \notin D, d \in Subtree(g, s)
        PROVE  FALSE
    <2>1. g[d] = f[d]
      BY <1>2, <1>6
    <2> HIDE DEF D
    <2>2. d \in Subtree(f, s)
      BY <1>4, <1>6, <2>1, InSubtree
    <2> QED BY <1>6, <2>2 DEF D
  <1>7. Subtree(g, s) \subseteq Node
    BY DEF Subtree
  <1>8. \A d \in D : g[d].root = f[to].root
    BY <1>3 DEF MovedAs
  <1> QED BY <1>1, <1>2, <1>5, <1>6, <1>7, <1>8

LEMMA AffectedRows ==
  ASSUME TypeInv, NEW t \in Txn, tx[t].item = <<>>, NEW nodes, NEW n
  PROVE  /\ \A i : i \in DOMAIN Affected(t, nodes, n) <=>
                     i \in Item /\ db.item[i].node \in Subtree(nodes, n)
         /\ \A i \in DOMAIN Affected(t, nodes, n) :
              Affected(t, nodes, n)[i] = Projection(nodes, db.item[i].node)
  <1>1. Items(t) = db.item
    BY NothingOver DEF TypeInv, Items
  <1> QED BY <1>1 DEF Affected

LEMMA AboveOutside ==
  ASSUME NEW f \in [Node -> NodeRow], Forest(f), NEW s \in Node, f[s].exists,
         NEW n \in Node, f[n].exists, n \notin Subtree(f, s), NEW k \in 1..Len(f[n].path)
  PROVE  f[n].path[k] \notin Subtree(f, s)
  <1> DEFINE a == f[n].path[k]
             cut == Len(f[s].path)
  <1> SUFFICES ASSUME a \in Subtree(f, s)
               PROVE  FALSE
    OBVIOUS
  <1>1. /\ a \in Node /\ f[a].exists /\ f[a].path = SubSeq(f[n].path, 1, k) /\ Len(f[a].path) = k
        /\ f[n].path \in Seq(Node) /\ Len(f[n].path) \in Nat
    BY PathFacts
  <1>2. cut \in Nat /\ cut > 0
    BY PathFacts
  <1> HIDE DEF a
  <1>3. cut <= k /\ f[a].path[cut] = s
    <2>1. cut <= Len(f[a].path) /\ f[a].path[cut] = s
      BY SubtreeFacts, Zenon
    <2> QED BY <1>1, <2>1
  <1> HIDE DEF cut
  <1>4. cut \in 1..k /\ cut \in 1..Len(f[n].path)
    BY <1>1, <1>2, <1>3
  <1>5. SubSeq(f[n].path, 1, k)[cut] = f[n].path[cut]
    BY <1>1, <1>4
  <1>6. f[n].path[cut] = s
    BY <1>1, <1>3, <1>5
  <1> QED BY <1>4, <1>6, Below

(* Rows written over the table change nothing shown off their subtree.     *)
LEMMA ShownOutside ==
  ASSUME NEW f \in [Node -> NodeRow], Forest(f), NEW s \in Node, f[s].exists,
         NEW h, \A d \in Node : d \notin Subtree(f, s) => h[d] = f[d],
         NEW n \in Node, f[n].exists, n \notin Subtree(f, s)
  PROVE  Projected(h, n) = Projected(f, n)
  <1>1. \A k \in 1..Len(f[n].path) : h[f[n].path[k]] = f[f[n].path[k]]
    <2>1. ASSUME NEW k \in 1..Len(f[n].path)
          PROVE  h[f[n].path[k]] = f[f[n].path[k]]
      <3>1. f[n].path[k] \in Node
        BY PathFacts
      <3>2. f[n].path[k] \notin Subtree(f, s)
        BY AboveOutside
      <3> QED BY <3>1, <3>2
    <2> QED BY <2>1
  <1>2. SameShown(f, h, n)
    BY <1>1 DEF SameShown
  <1> QED BY <1>2, SameProjection

-----------------------------------------------------------------------------
(* What x knows of the items it will commit, when f are the committed      *)
(* nodes and q the committed items.  `Sec` is Secured, of a record.        *)
Sec(f, q, x, i) ==
  LET n == Over(x.item, q)[i].node IN
  IF n = NoNode THEN ItemLock(i) \in x.held ELSE RootLock(Over(x.node, f)[n].root) \in x.held

(* A projection it writes is right if it has secured the item, and where   *)
(* it writes none it changes nothing that is shown.                        *)
Told(f, q, x, i) ==
  /\ i \in DOMAIN Rows(x) /\ Sec(f, q, x, i) =>
       Rows(x)[i] = Projected(Over(x.node, f), Over(x.item, q)[i].node)
  /\ i \notin DOMAIN Rows(x) =>
       Projected(Over(x.node, f), q[i].node) = Projected(f, q[i].node)

Knows(f, q, x, S) ==
  x.pc \in Computed => \A i \in Item : i \notin S \/ i \in DOMAIN x.item => Told(f, q, x, i)

FreshInv ==
  /\ StaleOnlyFromStray
  /\ \A t \in Txn : Busy(t) => Knows(db.node, db.item, tx[t], strayed)

(* Everything else that can be said of x.                                  *)
Stands(f, q, x) ==
  /\ f \in [Node -> NodeRow] /\ Forest(f) /\ q \in [Item -> ItemRow] /\ PlacesExist(f, q)
  /\ x \in Transaction /\ x.req \in Request /\ Stage(f, q, x) /\ Keeps(f, x)
  /\ x.req.op = "create" => ~f[x.req.node].exists

LEMMA StandsNow ==
  ASSUME Inv, KeepsInv, NEW t \in Txn, Busy(t)
  PROVE  Stands(db.node, db.item, tx[t])
  <1>1. /\ db.node \in [Node -> NodeRow] /\ Forest(db.node) /\ db.item \in [Item -> ItemRow]
        /\ tx[t] \in Transaction /\ tx[t].req \in Request /\ Stage(db.node, db.item, tx[t])
    BY Standing
  <1>2. tx[t].req.op = "create" => ~db.node[tx[t].req.node].exists
    BY DEF Inv, UnusedInv, Creating
  <1> QED BY <1>1, <1>2 DEF KeepsInv, Stands

LEMMA StandsNext ==
  ASSUME Inv', KeepsInv', NEW t \in Txn, Busy(t)'
  PROVE  Stands(db'.node, db'.item, tx'[t])
  <1>1. /\ db'.node \in [Node -> NodeRow] /\ Forest(db'.node) /\ db'.item \in [Item -> ItemRow]
        /\ tx'[t] \in Transaction /\ tx'[t].req \in Request
        /\ Stage(db'.node, db'.item, tx'[t])
    BY DEF Inv, TypeInv, StageInv, Forest
  <1>2. tx'[t].req.op = "create" => ~db'.node[tx'[t].req.node].exists
    BY DEF Inv, UnusedInv, Creating
  <1> QED BY <1>1, <1>2 DEF KeepsInv, Stands

(* Where the items lie once x commits.                                     *)
Placed(f, q, x, i) ==
  LET new == Over(x.item, q)[i] IN
  /\ i \in DOMAIN x.item =>
       /\ ItemLock(i) \in x.held /\ new = x.item[i]
       /\ DOMAIN Rows(x) = {i} /\ x.node = <<>>
  /\ i \notin DOMAIN x.item => new = q[i]
  /\ new.node # NoNode => new.node \in Node /\ f[new.node].exists

LEMMA NewPlaces ==
  ASSUME NEW f, NEW q, NEW x, Stands(f, q, x), x.pc \in Computed, NEW i \in Item
  PROVE  Placed(f, q, x, i)
  <1> DEFINE r == x.req
             p == Over(x.item, q)
  <1>1. /\ q \in [Item -> ItemRow] /\ r \in Request /\ Stage(f, q, x) /\ Keeps(f, x)
        /\ PlacesExist(f, q)
    BY DEF Stands
  <1>2. q[i].node # NoNode => q[i].node \in Node /\ f[q[i].node].exists
    BY <1>1 DEF ItemRow, PlacesExist
  <1>3. CASE r.op \in {"place", "edit"}
    <2> DEFINE c == r.item
    <2>1. c \in Item /\ ItemStage(q, x) /\ DOMAIN Rows(x) = {c}
      BY <1>1, <1>3, RequestFields DEF Stage, Keeps
    <2>2. x.pc \in {"item projected", "commit"} /\ x.node = <<>>
      BY <2>1 DEF ItemStage, Computed
    <2>3. PICK new : new.node = NewPlace(q, r) /\ x.item = Only(c, new)
      BY <2>1, <2>2 DEF ItemStage
    <2>4. ItemLock(c) \in x.held
      BY <2>1, <2>2 DEF ItemStage
    <2>5. DOMAIN x.item = {c} /\ p[c] = x.item[c] /\ p[c].node = NewPlace(q, r)
          /\ (i # c => p[i] = q[i])
      BY <1>1, <2>1, <2>3 DEF Over, Only
    <2> HIDE DEF p
    <2>6. p[c].node # NoNode => p[c].node \in Node /\ f[p[c].node].exists
      <3> HAVE p[c].node # NoNode
      <3>1. CASE r.op = "place"
        <4>1. p[c].node = r.to /\ r.to \in Node \cup {NoNode}
          BY <1>1, <2>5, <3>1, RequestFields DEF NewPlace
        <4>2. r.to # NoNode => f[r.to].exists
          BY <1>1, <2>2, <3>1 DEF Keeps
        <4> QED BY <4>1, <4>2
      <3>2. CASE r.op = "edit"
        <4>1. p[c].node = q[c].node
          BY <2>5, <3>2 DEF NewPlace
        <4>2. q[c].node # NoNode => q[c].node \in Node /\ f[q[c].node].exists
          BY <1>1, <2>1 DEF ItemRow, PlacesExist
        <4> QED BY <4>1, <4>2
      <3> QED BY <1>3, <3>1, <3>2
    <2>7. i # c => i \notin DOMAIN x.item
      BY <2>5
    <2>8. CASE i = c
      BY <2>1, <2>2, <2>4, <2>5, <2>6, <2>8 DEF p, Placed
    <2>9. CASE i # c
      BY <1>2, <2>5, <2>7, <2>9 DEF p, Placed
    <2> QED BY <2>8, <2>9
  <1>4. CASE r.op \notin {"place", "edit"}
    <2>1. x.item = <<>>
      BY <1>1, <1>4, RequestFields DEF Stage, CreateStage, UpdateStage, MoveStage
    <2>2. p = q
      BY <1>1, <2>1, NothingOver
    <2>3. i \notin DOMAIN x.item
      BY <2>1
    <2> HIDE DEF p
    <2> QED BY <1>2, <2>2, <2>3 DEF p, Placed
  <1> QED BY <1>3, <1>4

(* Outside the trees it has locked x changes nothing that is shown.        *)
LEMMA Elsewhere ==
  ASSUME NEW f \in [Node -> NodeRow], Forest(f), NEW h, NEW x, Written(f, h, x),
         NEW n \in Node, f[n].exists, RootLock(f[n].root) \notin x.held
  PROVE  h[n] = f[n] /\ Projected(h, n) = Projected(f, n)
  <1>1. ASSUME NEW a \in Node, f[a].exists, f[a].root = f[n].root
        PROVE  h[a] = f[a]
    BY <1>1 DEF Written, RowGuarded
  <1>2. \A k \in 1..Len(f[n].path) : h[f[n].path[k]] = f[f[n].path[k]]
    BY <1>1, PathFacts
  <1>3. SameShown(f, h, n)
    BY <1>1, <1>2 DEF SameShown
  <1> QED BY <1>1, <1>3, SameProjection

(* Inside them, what it shows is not disturbed by others.                  *)
LEMMA Within ==
  ASSUME NEW f \in [Node -> NodeRow], NEW g \in [Node -> NodeRow], NEW x,
         Undisturbed(f, g, x.held), Written(f, Over(x.node, f), x),
         NEW m \in Node, Over(x.node, f)[m].exists,
         RootLock(Over(x.node, f)[m].root) \in x.held
  PROVE  Projected(Over(x.node, g), m) = Projected(Over(x.node, f), m)
  <1> DEFINE h == Over(x.node, f)
             k == Over(x.node, g)
  <1>1. \A a \in Node : k[a] = (IF a \in DOMAIN x.node THEN h[a] ELSE g[a])
    BY DEF Over
  <1>2. \A a \in Node : a \notin DOMAIN x.node => h[a] = f[a]
    BY DEF Over
  <1>3. h \in [Node -> NodeRow] /\ Forest(h)
    BY DEF Written
  <1> HIDE DEF h, k
  <1>4. ASSUME NEW a \in Node, h[a].exists, h[a].root = h[m].root
        PROVE  k[a] = h[a]
    <2>1. CASE a \in DOMAIN x.node
      BY <1>1, <2>1
    <2>2. CASE a \notin DOMAIN x.node
      <3>1. h[a] = f[a] /\ k[a] = g[a]
        BY <1>1, <1>2, <2>2
      <3>2. f[a].exists /\ RootLock(f[a].root) \in x.held
        BY <1>4, <3>1 DEF h
      <3>3. g[a] = f[a]
        BY <3>2, Zenon DEF Undisturbed
      <3> QED BY <3>1, <3>3
    <2> QED BY <2>1, <2>2
  <1>5. h[m].exists
    BY DEF h
  <1>6. \A l \in 1..Len(h[m].path) : k[h[m].path[l]] = h[h[m].path[l]]
    BY <1>3, <1>4, <1>5, PathFacts
  <1>7. k[m] = h[m]
    BY <1>4, <1>5
  <1>8. SameShown(h, k, m)
    BY <1>6, <1>7 DEF SameShown
  <1>9. Projected(k, m) = Projected(h, m)
    BY <1>3, <1>5, <1>8, SameProjection
  <1> QED BY <1>9 DEF h, k

(* Another transaction y commits.  Of the item y writes, if y has secured  *)
(* it, x has not.                                                          *)
LEMMA ToldOfTheirs ==
  ASSUME NEW f, NEW g, NEW q, NEW j, NEW x, NEW y,
         Stands(f, q, x), Stands(f, q, y), Stands(g, j, x), x.pc \in Computed, y.pc = "commit",
         g = Over(y.node, f), j = Over(y.item, q),
         \A l \in y.held, m \in x.held : ~Conflict(l, m),
         NEW i \in Item, i \in DOMAIN y.item, Sec(f, q, y, i)
  PROVE  i \notin DOMAIN x.item /\ Told(g, j, x, i)
  <1> DEFINE n == j[i].node
             h == Over(x.node, f)
  <1>1. y.pc \in Computed
    BY DEF Computed
  <1>2. ItemLock(i) \in y.held /\ y.node = <<>>
    <2>1. Placed(f, q, y, i)
      BY <1>1, NewPlaces
    <2> QED BY <2>1 DEF Placed
  <1>3. /\ f \in [Node -> NodeRow] /\ Forest(f) /\ PlacesExist(g, j)
        /\ n \in Node \cup {NoNode}
    BY DEF Stands, ItemRow
  <1>4. g = f
    BY <1>2, <1>3, NothingOver
  <1>5. Written(f, h, x)
    BY WrittenAt DEF Stands, Computed
  <1>6. ItemLock(i) \notin x.held
    BY <1>2 DEF Conflict, ItemLock
  <1>7. Placed(f, q, x, i) /\ Placed(g, j, x, i)
    BY NewPlaces
  <1>8. i \notin DOMAIN x.item /\ Over(x.item, j)[i] = j[i]
    BY <1>6, <1>7 DEF Placed
  <1>9. n # NoNode => n \in Node /\ f[n].exists /\ RootLock(f[n].root) \in y.held
    <2>1. n # NoNode => f[n].exists
      BY <1>3, <1>4 DEF PlacesExist
    <2>2. n # NoNode => RootLock(f[n].root) \in y.held
      BY <1>4 DEF Sec
    <2> QED BY <1>3, <2>1, <2>2
  <1>10. n # NoNode => RootLock(f[n].root) \notin x.held
    BY <1>9 DEF Conflict, RootLock
  <1> HIDE DEF n, h
  <1>11. n # NoNode => h[n] = f[n] /\ Projected(h, n) = Projected(f, n)
    BY <1>3, <1>5, <1>9, <1>10, Elsewhere
  <1>12. ~Sec(g, j, x, i)
    <2>1. CASE n = NoNode
      BY <1>6, <1>8, <2>1 DEF Sec, n
    <2>2. CASE n # NoNode
      <3>1. RootLock(h[n].root) \notin x.held
        BY <1>10, <1>11, <2>2
      <3> QED BY <1>4, <1>8, <2>2, <3>1 DEF Sec, n, h
    <2> QED BY <2>1, <2>2
  <1>13. Projected(h, n) = Projected(f, n)
    BY <1>11, Nowhere
  <1> QED BY <1>4, <1>8, <1>12, <1>13 DEF Told, n, h

(* Of another item, what x knows stays true.                               *)
LEMMA ToldOfOthers ==
  ASSUME NEW f, NEW g, NEW q, NEW j, NEW x,
         Stands(f, q, x), Stands(g, j, x), x.pc \in Computed, Undisturbed(f, g, x.held),
         NEW i \in Item, j[i] = q[i], Told(f, q, x, i)
  PROVE  Told(g, j, x, i)
  <1> DEFINE h == Over(x.node, f)
             k == Over(x.node, g)
             m == Over(x.item, q)[i].node
             n == q[i].node
  <1>1. /\ f \in [Node -> NodeRow] /\ Forest(f) /\ g \in [Node -> NodeRow] /\ Forest(g)
        /\ PlacesExist(f, q) /\ n \in Node \cup {NoNode}
    BY DEF Stands, ItemRow
  <1>2. Written(f, h, x) /\ Written(g, k, x)
    BY WrittenAt DEF Stands, Computed
  <1>3. Over(x.item, j)[i].node = m
    <2>1. Placed(f, q, x, i) /\ Placed(g, j, x, i)
      BY NewPlaces
    <2> QED BY <2>1 DEF Placed
  <1>4. /\ m # NoNode => m \in Node /\ f[m].exists
        /\ n # NoNode => n \in Node /\ f[n].exists
    <2>1. Placed(f, q, x, i)
      BY NewPlaces
    <2> QED BY <1>1, <2>1 DEF Placed, PlacesExist
  <1>5. \A a \in Node : a \in DOMAIN x.node => k[a] = h[a]
    BY <1>1 DEF Over
  <1>6. \A a \in Node : a \notin DOMAIN x.node => k[a] = g[a] /\ h[a] = f[a]
    BY <1>1 DEF Over
  <1>7. \A a \in Node : f[a].exists => h[a].exists /\ g[a].exists
    BY <1>2 DEF Written, RowGuarded, Undisturbed
  <1>8. ASSUME NEW a \in Node, h[a].exists, RootLock(h[a].root) \in x.held
        PROVE  Projected(k, a) = Projected(h, a)
    BY <1>1, <1>2, <1>8, Within
  <1> HIDE DEF h, k, m, n
  <1>9. ASSUME i \in DOMAIN Rows(x), Sec(g, j, x, i)
        PROVE  Rows(x)[i] = Projected(k, m)
    <2>1. CASE m = NoNode
      <3>1. Sec(f, q, x, i)
        BY <1>3, <1>9, <2>1 DEF Sec, m
      <3>2. Rows(x)[i] = Projected(h, m)
        BY <1>9, <3>1 DEF Told, h, m
      <3> QED BY <2>1, <3>2, Nowhere
    <2>2. CASE m # NoNode
      <3>1. m \in Node /\ f[m].exists /\ h[m].exists /\ g[m].exists
        BY <1>4, <1>7, <2>2
      <3>2. RootLock(k[m].root) \in x.held
        BY <1>3, <1>9, <2>2 DEF Sec, k
      <3>3. k[m] = h[m]
        <4>1. CASE m \in DOMAIN x.node
          BY <1>5, <3>1, <4>1
        <4>2. CASE m \notin DOMAIN x.node
          <5>1. k[m] = g[m] /\ h[m] = f[m]
            BY <1>6, <3>1, <4>2
          <5>2. g[m] = f[m]
            BY <3>1, <3>2, <5>1, Zenon DEF Undisturbed
          <5> QED BY <5>1, <5>2
        <4> QED BY <4>1, <4>2
      <3>4. Sec(f, q, x, i)
        BY <2>2, <3>2, <3>3 DEF Sec, m, h
      <3>5. Rows(x)[i] = Projected(h, m)
        BY <1>9, <3>4 DEF Told, h, m
      <3> QED BY <1>8, <3>1, <3>2, <3>3, <3>5
    <2> QED BY <2>1, <2>2
  <1>10. ASSUME i \notin DOMAIN Rows(x)
         PROVE  Projected(k, n) = Projected(g, n)
    <2>1. Projected(h, n) = Projected(f, n)
      BY <1>10 DEF Told, h, n
    <2>2. CASE n = NoNode
      BY <2>2, Nowhere
    <2>3. CASE n # NoNode
      <3>1. n \in Node /\ f[n].exists /\ h[n].exists /\ g[n].exists
        BY <1>4, <1>7, <2>3
      <3>2. CASE RootLock(g[n].root) \in x.held
        <4>1. g[n] = f[n]
          BY <3>1, <3>2, Zenon DEF Undisturbed
        <4>2. RootLock(f[n].root) \in x.held
          BY <3>2, <4>1
        <4>3. \A l \in 1..Len(f[n].path) : g[f[n].path[l]] = f[f[n].path[l]]
          BY <1>1, <3>1, <4>2, TreeUndisturbed
        <4>4. SameShown(f, g, n)
          BY <4>1, <4>3 DEF SameShown
        <4>5. Projected(g, n) = Projected(f, n)
          BY <1>1, <3>1, <4>4, SameProjection
        <4>6. RootLock(h[n].root) \in x.held
          <5>1. CASE h[n] = f[n]
            BY <4>2, <5>1
          <5>2. CASE h[n] # f[n]
            BY <1>2, <3>1, <5>2 DEF Written, RowGuarded
          <5> QED BY <5>1, <5>2
        <4> QED BY <1>8, <2>1, <3>1, <4>5, <4>6
      <3>3. CASE RootLock(g[n].root) \notin x.held
        BY <1>1, <1>2, <3>1, <3>3, Elsewhere
      <3> QED BY <3>2, <3>3
    <2> QED BY <2>2, <2>3
  <1>11. j[i].node = n
    BY DEF n
  <1> QED BY <1>3, <1>9, <1>10, <1>11 DEF Told, k

LEMMA KnowsKept ==
  ASSUME NEW f, NEW g, NEW q, NEW j, NEW x, NEW y, NEW S, NEW R,
         Stands(f, q, x), Stands(f, q, y), Stands(g, j, x), y.pc = "commit",
         g = Over(y.node, f), j = Over(y.item, q), Undisturbed(f, g, x.held),
         \A l \in y.held, m \in x.held : ~Conflict(l, m),
         R = (S \ DOMAIN y.item) \cup {i \in DOMAIN y.search : ~Sec(f, q, y, i)},
         Knows(f, q, x, S)
  PROVE  Knows(g, j, x, R)
  <1> SUFFICES ASSUME x.pc \in Computed, NEW i \in Item, i \notin R \/ i \in DOMAIN x.item
               PROVE  Told(g, j, x, i)
    BY DEF Knows
  <1>1. y.pc \in Computed /\ Rows(y) = y.search
    BY DEF Computed, Rows
  <1>2. CASE i \in DOMAIN y.item
    <2>1. DOMAIN y.search = {i} /\ ItemLock(i) \in y.held
      <3>1. Placed(f, q, y, i)
        BY <1>1, NewPlaces
      <3> QED BY <1>1, <1>2, <3>1 DEF Placed
    <2>2. i \notin DOMAIN x.item
      <3>1. ItemLock(i) \notin x.held
        BY <2>1 DEF Conflict, ItemLock
      <3>2. Placed(f, q, x, i)
        BY NewPlaces
      <3> QED BY <3>1, <3>2 DEF Placed
    <2>3. Sec(f, q, y, i)
      BY <2>1, <2>2
    <2> QED BY <1>2, <2>3, ToldOfTheirs
  <1>3. CASE i \notin DOMAIN y.item
    <2>1. j[i] = q[i]
      <3>1. Placed(f, q, y, i)
        BY <1>1, NewPlaces
      <3> QED BY <1>3, <3>1 DEF Placed
    <2>2. i \notin S \/ i \in DOMAIN x.item
      BY <1>3
    <2>3. Told(f, q, x, i)
      BY <2>2 DEF Knows
    <2> QED BY <2>1, <2>3, ToldOfOthers
  <1> QED BY <1>2, <1>3

-----------------------------------------------------------------------------
(* A step of t that commits nothing.                                       *)
LEMMA FreshStep ==
  ASSUME Inv, FreshInv, NEW t \in Txn, NEW y,
         tx' = [tx EXCEPT ![t] = y], UNCHANGED <<db, strayed>>,
         Knows(db.node, db.item, y, strayed)
  PROVE  FreshInv'
  <1>1. tx'[t] = y /\ \A u \in Txn \ {t} : tx'[u] = tx[u]
    BY DEF Inv, TypeInv
  <1>2. ASSUME NEW u \in Txn, Busy(u)'
        PROVE  Knows(db.node, db.item, tx'[u], strayed)
    <2>1. CASE u = t
      BY <1>1, <2>1
    <2>2. CASE u # t
      <3>1. Busy(u) /\ tx'[u] = tx[u]
        BY <1>1, <1>2, <2>2 DEF Busy
      <3> QED BY <3>1 DEF FreshInv
    <2> QED BY <2>1, <2>2
  <1>3. db' = db /\ strayed' = strayed
    OBVIOUS
  <1>4. StaleOnlyFromStray'
    BY <1>3 DEF FreshInv, StaleOnlyFromStray, Shows
  <1> QED BY <1>2, <1>3, <1>4 DEF FreshInv

(* Statements that compute nothing.                                        *)
Reading(t) ==
  \/ CreateLocksParent(t) \/ CreateLocksRoot(t)
  \/ UpdateLocksNode(t) \/ UpdateLocksRoot(t)
  \/ MoveLocksNodes(t) \/ MoveLocksRoots(t) \/ MoveChecks(t) \/ MoveWrites(t)
  \/ ItemReads(t) \/ ItemResolves(t) \/ ItemWrites(t) \/ ItemTags(t) \/ ItemRelocks(t)

LEMMA ReadingFresh ==
  ASSUME Inv, FreshInv, NEW t \in Txn, Reading(t)
  PROVE  FreshInv'
  <1> DEFINE x == tx[t]
             Onward(pc) == \E y : tx' = [tx EXCEPT ![t] = y] /\ UNCHANGED <<db, strayed>> /\ y.pc = pc
  <1>1. x \in Transaction
    BY Standing
  <1>2. ASSUME NEW pc, NEW need
        PROVE  /\ Proceed(t, x, pc, need) => Onward(pc)
               /\ \A rows : Proceed(t, [x EXCEPT !.rows = rows], pc, need) => Onward(pc)
               /\ \A node : Proceed(t, [x EXCEPT !.node = node], pc, need) => Onward(pc)
               /\ \A item : Proceed(t, [x EXCEPT !.item = item], pc, need) => Onward(pc)
    <2>1. \A y, node, item, sync, search :
            Effect(t, y, pc, need, node, item, sync, search) => Onward(pc)
      BY DEF Effect
    <2> HIDE DEF Onward, x
    <2> QED BY <1>1, <2>1, ProceedEffect, Zenon DEF x
  <1> HIDE DEF Onward
  <1>3. CreateLocksParent(t) => Onward("create rooted") \/ Onward("create locked")
    BY <1>2, Zenon DEF CreateLocksParent
  <1>4. CreateLocksRoot(t) => Onward("create rooted")
    BY <1>2, Zenon DEF CreateLocksRoot
  <1>5. UpdateLocksNode(t) => Onward("update locked")
    BY <1>2, Zenon DEF UpdateLocksNode
  <1>6. UpdateLocksRoot(t) => Onward("update rooted")
    BY <1>2, Zenon DEF UpdateLocksRoot
  <1>7. MoveLocksNodes(t) => Onward("move locked")
    BY <1>2, Zenon DEF MoveLocksNodes
  <1>8. MoveLocksRoots(t) => Onward("move rooted")
    BY <1>2, Zenon DEF MoveLocksRoots
  <1>9. MoveChecks(t) => Onward("move subtree")
    BY <1>2, Zenon DEF MoveChecks
  <1>10. MoveWrites(t) => Onward("moved")
    BY <1>2, Zenon DEF MoveWrites
  <1>11. ItemReads(t) => Onward("item resolved")
    BY <1>2, Zenon DEF ItemReads
  <1>12. ItemResolves(t) => Onward("item locked")
    BY <1>2, Zenon DEF ItemResolves
  <1>13. ItemWrites(t) \/ ItemTags(t) => Onward("item placed")
    BY <1>2, Zenon DEF ItemWrites, ItemTags
  <1>14. ItemRelocks(t) => Onward("item relocked")
    BY <1>2, Zenon DEF ItemRelocks
  <1>15. \E pc : pc \notin Computed /\ Onward(pc)
    BY <1>3, <1>4, <1>5, <1>6, <1>7, <1>8, <1>9, <1>10, <1>11, <1>12, <1>13, <1>14
       DEF Reading, Computed
  <1>16. PICK y : tx' = [tx EXCEPT ![t] = y] /\ UNCHANGED <<db, strayed>> /\ y.pc \notin Computed
    BY <1>15 DEF Onward
  <1>17. Knows(db.node, db.item, y, strayed)
    BY <1>16 DEF Knows
  <1> QED BY <1>16, <1>17, FreshStep

(* What a transaction knows depends on its trees and items alone.          *)
LEMMA KnowsAlike ==
  ASSUME NEW f, NEW q, NEW x, NEW y, NEW S, Knows(f, q, x, S), x.pc \in Computed,
         Rows(y) = Rows(x), y.node = x.node, y.item = x.item,
         \A n : RootLock(n) \in y.held <=> RootLock(n) \in x.held,
         \A i : ItemLock(i) \in y.held <=> ItemLock(i) \in x.held
  PROVE  Knows(f, q, y, S)
  <1> SUFFICES ASSUME NEW i \in Item, i \notin S \/ i \in DOMAIN y.item
               PROVE  Told(f, q, y, i)
    BY DEF Knows
  <1>1. Told(f, q, x, i)
    BY DEF Knows
  <1>2. Sec(f, q, y, i) <=> Sec(f, q, x, i)
    BY DEF Sec
  <1> QED BY <1>1, <1>2 DEF Told

LEMMA AcquireFresh ==
  ASSUME Inv, KeepsInv, FreshInv, NEW t \in Txn, Acquire(t)
  PROVE  FreshInv'
  <1> DEFINE x == tx[t]
  <1>1. PICK l \in Next1(t) :
          /\ tx' = [tx EXCEPT ![t].need = @ \ {l}, ![t].held = @ \cup {l}]
          /\ UNCHANGED <<db, strayed>>
    BY DEF Acquire
  <1>2. x \in Transaction /\ l \in x.need /\ Busy(t)
    BY <1>1 DEF Inv, TypeInv, Next1, KeepsInv
  <1> DEFINE y == [x EXCEPT !.need = @ \ {l}, !.held = @ \cup {l}]
  <1>3. tx' = [tx EXCEPT ![t] = y]
    BY <1>1 DEF Inv, TypeInv
  <1>4. /\ y.pc = x.pc /\ y.node = x.node /\ y.item = x.item /\ y.sync = x.sync
        /\ y.search = x.search /\ y.held = x.held \cup {l}
    BY <1>2 DEF Transaction
  <1> HIDE DEF y
  <1>5. CASE x.pc \in Computed
    <2>1. Knows(db.node, db.item, x, strayed)
      BY <1>2 DEF FreshInv
    <2>2. l.on \in {"node", "search"}
      BY <1>2, <1>5 DEF KeepsInv, Keeps
    <2>3. \A n : RootLock(n) # l /\ ItemLock(n) # l
      BY <2>2, LockFields
    <2>4. Rows(y) = Rows(x)
      BY <1>4 DEF Rows
    <2> HIDE DEF x
    <2>5. Knows(db.node, db.item, y, strayed)
      BY <1>4, <1>5, <2>1, <2>3, <2>4, KnowsAlike
    <2> QED BY <1>1, <1>3, <2>5, FreshStep
  <1>6. CASE x.pc \notin Computed
    <2>1. Knows(db.node, db.item, y, strayed)
      BY <1>4, <1>6 DEF Knows
    <2> QED BY <1>1, <1>3, <2>1, FreshStep
  <1> QED BY <1>5, <1>6

(* The sync is written as it was computed.                                 *)
LEMMA SyncFresh ==
  ASSUME Inv, FreshInv, NEW t \in Txn, SyncWrites(t) \/ ItemUpserts(t)
  PROVE  FreshInv'
  <1> DEFINE x == tx[t]
  <1>1. /\ x.pc \in {"synced", "item projected"}
        /\ \E need : Proceed(t, [x EXCEPT !.search = x.sync], "commit", need)
    <2>1. CASE SyncWrites(t)
      BY <2>1, Zenon DEF SyncWrites, At
    <2>2. CASE ItemUpserts(t)
      BY <2>2, Zenon DEF ItemUpserts, At
    <2> QED BY <2>1, <2>2
  <1>2. x \in Transaction /\ Busy(t)
    BY <1>1, Standing DEF Busy
  <1>3. PICK y, need : Effect(t, y, "commit", need, x.node, x.item, x.sync, x.sync)
    BY <1>1, <1>2, ProceedEffect, Zenon
  <1>4. /\ tx' = [tx EXCEPT ![t] = y] /\ UNCHANGED <<db, strayed>>
        /\ y.node = x.node /\ y.item = x.item /\ y.search = x.sync /\ y.pc = "commit"
        /\ y.held = x.held
    BY <1>3 DEF Effect
  <1>5. Knows(db.node, db.item, x, strayed)
    BY <1>2 DEF FreshInv
  <1>6. Rows(x) = x.sync /\ Rows(y) = x.sync
    BY <1>1, <1>4 DEF Rows
  <1> HIDE DEF x
  <1>7. Knows(db.node, db.item, y, strayed)
    BY <1>1, <1>4, <1>5, <1>6, KnowsAlike DEF Computed
  <1> QED BY <1>4, <1>7, FreshStep

-----------------------------------------------------------------------------
(* The statements that compute what will be shown.                         *)
LEMMA PlacesNow ==
  ASSUME Inv, KeepsInv, NEW i \in Item
  PROVE  db.item[i].node # NoNode => db.item[i].node \in Node /\ db.node[db.item[i].node].exists
  <1>1. db.item \in [Item -> ItemRow] /\ PlacesExist(db.node, db.item)
    BY DEF Inv, TypeInv, KeepsInv
  <1>2. db.item[i].node \in Node \cup {NoNode}
    BY <1>1 DEF ItemRow
  <1> QED BY <1>1, <1>2 DEF PlacesExist

(* The sync of a subtree is all that an update or a move must write.       *)
Synced(f, q, h, sync, i) ==
  /\ i \in DOMAIN sync => sync[i] = Projected(h, q[i].node)
  /\ i \notin DOMAIN sync => Projected(h, q[i].node) = Projected(f, q[i].node)

LEMMA SubtreeSynced ==
  ASSUME Inv, KeepsInv, NEW t \in Txn, tx[t].item = <<>>,
         NEW s \in Node, db.node[s].exists, NEW h,
         \A d \in Node : d \notin Subtree(db.node, s) => h[d] = db.node[d],
         Subtree(h, s) = Subtree(db.node, s),
         NEW i \in Item
  PROVE  Synced(db.node, db.item, h, Affected(t, h, s), i)
  <1> DEFINE sync == Affected(t, h, s)
             n == db.item[i].node
             f == db.node
  <1>1. n # NoNode => n \in Node /\ f[n].exists
    BY PlacesNow
  <1>2. TypeInv /\ f \in [Node -> NodeRow] /\ Forest(f)
    BY Standing DEF Inv
  <1>3. /\ i \in DOMAIN sync <=> n \in Subtree(f, s)
        /\ i \in DOMAIN sync => sync[i] = Projection(h, n)
    BY <1>2, AffectedRows
  <1>4. Subtree(f, s) \subseteq Node
    BY DEF Subtree
  <1> HIDE DEF sync, n, f
  <1>5. CASE n \in Subtree(f, s)
    <2>1. n \in Node
      BY <1>4, <1>5
    <2> QED BY <1>3, <1>5, <2>1, Nowhere DEF Synced, sync, n
  <1>6. CASE n \notin Subtree(f, s)
    <2>1. Projected(h, n) = Projected(f, n)
      <3>1. CASE n = NoNode
        BY <3>1, Nowhere
      <3>2. CASE n # NoNode
        <4>1. \A d \in Node : d \notin Subtree(f, s) => h[d] = f[d]
          BY DEF f
        <4>2. f[s].exists
          BY DEF f
        <4> QED BY <1>1, <1>2, <1>6, <3>2, <4>1, <4>2, ShownOutside
      <3> QED BY <3>1, <3>2
    <2> QED BY <1>3, <1>6, <2>1 DEF Synced, sync, n, f
  <1> QED BY <1>5, <1>6

LEMMA SyncedKnows ==
  ASSUME NEW f, NEW q \in [Item -> ItemRow], NEW y, NEW S, y.item = <<>>,
         \A i \in Item : Synced(f, q, Over(y.node, f), Rows(y), i)
  PROVE  Knows(f, q, y, S)
  <1>1. Over(y.item, q) = q
    BY NothingOver
  <1> DEFINE h == Over(y.node, f)
  <1>2. \A i \in Item : Synced(f, q, h, Rows(y), i)
    OBVIOUS
  <1>3. ASSUME NEW i \in Item
        PROVE  Told(f, q, y, i)
    BY <1>1, <1>2 DEF Told, Synced
  <1> QED BY <1>3 DEF Knows

LEMMA MoveFresh ==
  ASSUME Inv, KeepsInv, FreshInv, NEW t \in Txn, MoveSyncs(t)
  PROVE  FreshInv'
  <1> DEFINE x == tx[t]
             r == x.req
             f == db.node
             g == Nodes(t)
             sync == Affected(t, g, r.node)
  <1>1. x.pc = "moved" /\ Busy(t) /\ Proceed(t, [x EXCEPT !.sync = sync], "synced", SyncLocks(sync))
    BY Zenon DEF MoveSyncs, At, Busy
  <1>2. /\ x \in Transaction /\ r.op = "move" /\ MoveStage(f, x) /\ f \in [Node -> NodeRow]
        /\ Forest(f) /\ r \in Request /\ db.item \in [Item -> ItemRow]
    BY <1>1, Standing, StageOp
  <1>3. r.node \in Node /\ r.to \in Node
    BY <1>2, RequestFields
  <1>4. MoveChecked(f, x)
    BY <1>1, <1>2, MoveIsChecked
  <1>5. /\ f[r.node].exists /\ f[r.to].exists /\ x.item = <<>>
        /\ x.node = [d \in Subtree(f, r.node) |-> Moved(f, r.node, r.to, d)]
    BY <1>1, <1>4 DEF MoveChecked
  <1>6. g \in [Node -> NodeRow] /\ Forest(g)
    BY <1>1, WrittenSoFar DEF Written
  <1>7. g = Over([d \in Subtree(f, r.node) |-> Moved(f, r.node, r.to, d)], f) /\ g = Over(x.node, f)
    BY <1>5 DEF Nodes
  <1> HIDE DEF g
  <1>8. /\ Subtree(g, r.node) = Subtree(f, r.node)
        /\ \A d \in Node : d \notin Subtree(f, r.node) => g[d] = f[d]
    BY <1>2, <1>3, <1>5, <1>6, <1>7, MovedSubtree
  <1>9. \A i \in Item : Synced(db.node, db.item, g, sync, i)
    BY <1>3, <1>5, <1>8, SubtreeSynced
  <1> HIDE DEF sync
  <1>10. PICK y : Effect(t, y, "synced", SyncLocks(sync), x.node, x.item, sync, x.search)
    BY <1>1, <1>2, ProceedEffect, Zenon
  <1>11. /\ tx' = [tx EXCEPT ![t] = y] /\ UNCHANGED <<db, strayed>>
         /\ y.node = x.node /\ y.item = x.item /\ y.sync = sync /\ y.pc = "synced"
    BY <1>10 DEF Effect
  <1>12. Rows(y) = sync /\ Over(y.node, db.node) = g /\ y.item = <<>>
    BY <1>5, <1>7, <1>11 DEF Rows
  <1>13. Knows(db.node, db.item, y, strayed)
    BY <1>2, <1>9, <1>12, SyncedKnows
  <1> QED BY <1>11, <1>13, FreshStep

LEMMA UpdateFresh ==
  ASSUME Inv, KeepsInv, FreshInv, NEW t \in Txn, UpdateWrites(t)
  PROVE  FreshInv'
  <1> DEFINE x == tx[t]
             r == x.req
             c == r.node
             f == db.node
             title == IF r.change = "rename" THEN f[c].title + 1 ELSE f[c].title
             private == IF r.change \in {"hide", "show"} THEN r.change = "hide" ELSE f[c].private
             after == [f[c] EXCEPT !.version = @ + 1, !.title = title, !.private = private,
                                   !.archived = (r.change = "archive")]
             h == Over(Only(c, after), f)
             sync == Affected(t, h, c)
  <1>1. /\ x.pc = "update rooted" /\ Busy(t) /\ Accessible(f, c, r.privileged)
        /\ IF r.change = "recode"
           THEN Proceed(t, [x EXCEPT !.node = Only(c, after)], "commit", {})
           ELSE Proceed(t, [x EXCEPT !.node = Only(c, after), !.sync = sync],
                        "synced", SyncLocks(sync))
    BY Zenon DEF UpdateWrites, At, Busy
  <1>2. /\ x \in Transaction /\ r.op = "update" /\ UpdateStage(f, x) /\ f \in [Node -> NodeRow]
        /\ Forest(f) /\ r \in Request /\ db.item \in [Item -> ItemRow]
    BY <1>1, Standing, StageOp
  <1>3. c \in Node /\ f[c] \in NodeRow /\ f[c].exists /\ x.item = <<>>
    BY <1>1, <1>2, RequestFields DEF UpdateStage
  <1>4. /\ after.path = f[c].path /\ after.exists = f[c].exists /\ after.title = title
        /\ after.private = private /\ after.archived = (r.change = "archive")
    BY <1>3 DEF NodeRow
  <1> HIDE DEF after
  <1>5. h[c] = after /\ \A d \in Node \ {c} : h[d] = f[d]
    BY <1>2, <1>3 DEF Over, Only
  <1> HIDE DEF h
  <1>6. CASE r.change = "recode"
    <2>1. PICK y : Effect(t, y, "commit", {}, Only(c, after), x.item, x.sync, x.search)
      BY <1>1, <1>2, <1>6, ProceedEffect, Zenon
    <2>2. /\ tx' = [tx EXCEPT ![t] = y] /\ UNCHANGED <<db, strayed>>
          /\ y.node = Only(c, after) /\ y.item = x.item /\ y.search = x.search /\ y.pc = "commit"
      BY <2>1 DEF Effect
    <2>3. x.search = <<>>
      BY <1>1 DEF KeepsInv, Keeps
    <2>4. f[c].archived = FALSE
      <3>1. c \in Range(f[c].path)
        BY <1>2, <1>3, PathRange
      <3>2. ~f[c].archived
        BY <1>1, <3>1, Zenon DEF Accessible
      <3>3. f[c].archived \in BOOLEAN
        BY <1>3 DEF NodeRow
      <3> QED BY <3>2, <3>3, Zenon
    <2>5. h[c].title = f[c].title /\ h[c].private = f[c].private /\ h[c].archived = f[c].archived
      BY <1>4, <1>5, <1>6, <2>4
    <2>6. ASSUME NEW i \in Item
          PROVE  Synced(f, db.item, h, <<>>, i)
      <3> DEFINE n == db.item[i].node
      <3>1. n # NoNode => n \in Node /\ f[n].exists
        BY PlacesNow
      <3> HIDE DEF n
      <3>2. ASSUME n # NoNode
            PROVE  Projected(h, n) = Projected(f, n)
        <4>1. h[n].path = f[n].path
          BY <1>4, <1>5, <3>1, <3>2
        <4>2. ASSUME NEW a \in Node
              PROVE  h[a].title = f[a].title /\ h[a].archived = f[a].archived
                     /\ h[a].private = f[a].private
          BY <1>5, <2>5, <4>2
        <4>3. \A k \in 1..Len(f[n].path) : f[n].path[k] \in Node
          BY <1>2, <3>1, <3>2, PathFacts
        <4>4. SameShown(f, h, n)
          BY <4>1, <4>2, <4>3 DEF SameShown
        <4> QED BY <1>2, <3>1, <3>2, <4>4, SameProjection
      <3>3. n = NoNode => Projected(h, n) = Projected(f, n)
        BY Nowhere
      <3>4. DOMAIN <<>> = {}
        OBVIOUS
      <3> QED BY <3>2, <3>3, <3>4 DEF n, Synced
    <2>7. Rows(y) = <<>> /\ Over(y.node, f) = h /\ y.item = <<>>
      BY <1>3, <2>2, <2>3 DEF Rows, h
    <2>8. Knows(db.node, db.item, y, strayed)
      BY <1>2, <2>6, <2>7, SyncedKnows
    <2> QED BY <2>2, <2>8, FreshStep
  <1>7. CASE r.change # "recode"
    <2>1. Subtree(h, c) = Subtree(f, c)
      <3>1. \A n \in Node : h[n].exists = f[n].exists /\ h[n].path = f[n].path
        BY <1>4, <1>5
      <3> QED BY <1>3, <3>1, SameSubtree
    <2>2. c \in Subtree(f, c)
      BY <1>2, <1>3, SubtreeFacts
    <2>3. \A d \in Node : d \notin Subtree(f, c) => h[d] = f[d]
      BY <1>5, <2>2
    <2>4. \A i \in Item : Synced(db.node, db.item, h, sync, i)
      BY <1>3, <2>1, <2>3, SubtreeSynced
    <2> HIDE DEF sync
    <2>5. PICK y : Effect(t, y, "synced", SyncLocks(sync), Only(c, after), x.item, sync, x.search)
      BY <1>1, <1>2, <1>7, ProceedEffect, Zenon
    <2>6. /\ tx' = [tx EXCEPT ![t] = y] /\ UNCHANGED <<db, strayed>>
          /\ y.node = Only(c, after) /\ y.item = x.item /\ y.sync = sync /\ y.pc = "synced"
      BY <2>5 DEF Effect
    <2>7. Rows(y) = sync /\ Over(y.node, f) = h /\ y.item = <<>>
      BY <1>3, <2>6 DEF Rows, h
    <2>8. Knows(db.node, db.item, y, strayed)
      BY <1>2, <2>4, <2>7, SyncedKnows
    <2> QED BY <2>6, <2>8, FreshStep
  <1> QED BY <1>6, <1>7

LEMMA CreateFresh ==
  ASSUME Inv, KeepsInv, FreshInv, NEW t \in Txn, CreateInserts(t)
  PROVE  FreshInv'
  <1> DEFINE x == tx[t]
             c == x.req.node
             f == db.node
  <1>1. /\ x.pc = "create rooted" /\ Busy(t)
        /\ \E row, need : Proceed(t, [x EXCEPT !.node = Only(c, row)], "commit", need)
    BY Zenon DEF CreateInserts, At, Busy
  <1>2. /\ x \in Transaction /\ x.req.op = "create" /\ CreateStage(f, x) /\ f \in [Node -> NodeRow]
        /\ Forest(f) /\ x.req \in Request /\ db.item \in [Item -> ItemRow]
    BY <1>1, Standing, StageOp
  <1>3. c \in Node /\ ~f[c].exists /\ x.item = <<>>
    BY <1>1, <1>2, RequestFields DEF CreateStage, Inv, UnusedInv, Creating
  <1>4. x.search = <<>>
    BY <1>1, <1>2 DEF KeepsInv, Keeps
  <1>5. PICK y, row, need : Effect(t, y, "commit", need, Only(c, row), x.item, x.sync, x.search)
    BY <1>1, <1>2, ProceedEffect, Zenon
  <1>6. /\ tx' = [tx EXCEPT ![t] = y] /\ UNCHANGED <<db, strayed>>
        /\ y.node = Only(c, row) /\ y.item = x.item /\ y.search = x.search /\ y.pc = "commit"
    BY <1>5 DEF Effect
  <1> DEFINE h == Over(Only(c, row), f)
  <1>7. \A d \in Node \ {c} : h[d] = f[d]
    BY <1>2, <1>3 DEF Over, Only
  <1>8. Rows(y) = <<>> /\ Over(y.node, f) = h /\ y.item = <<>>
    BY <1>3, <1>4, <1>6 DEF Rows
  <1> HIDE DEF h
  <1>9. ASSUME NEW i \in Item
        PROVE  Synced(f, db.item, h, <<>>, i)
    <2> DEFINE n == db.item[i].node
    <2>1. n # NoNode => n \in Node /\ f[n].exists
      BY PlacesNow
    <2> HIDE DEF n
    <2>2. ASSUME n # NoNode
          PROVE  Projected(h, n) = Projected(f, n)
      <3>1. h[n] = f[n]
        BY <1>3, <1>7, <2>1, <2>2
      <3>2. \A k \in 1..Len(f[n].path) : f[n].path[k] \in Node /\ f[f[n].path[k]].exists
        BY <1>2, <2>1, <2>2, PathFacts
      <3>3. \A k \in 1..Len(f[n].path) : h[f[n].path[k]] = f[f[n].path[k]]
        BY <1>3, <1>7, <3>2
      <3>4. SameShown(f, h, n)
        BY <3>1, <3>3 DEF SameShown
      <3> QED BY <1>2, <2>1, <2>2, <3>4, SameProjection
    <2>3. n = NoNode => Projected(h, n) = Projected(f, n)
      BY Nowhere
    <2>4. DOMAIN <<>> = {}
      OBVIOUS
    <2> QED BY <2>2, <2>3, <2>4 DEF n, Synced
  <1>10. Knows(db.node, db.item, y, strayed)
    BY <1>2, <1>8, <1>9, SyncedKnows
  <1> QED BY <1>6, <1>10, FreshStep

LEMMA ItemFresh ==
  ASSUME Inv, FreshInv, NEW t \in Txn, ItemProjects(t)
  PROVE  FreshInv'
  <1> DEFINE x == tx[t]
             c == x.req.item
             f == db.node
             n == Items(t)[c].node
             sync == Only(c, Projected(f, n))
  <1>1. /\ x.pc = "item relocked" /\ Busy(t)
        /\ Proceed(t, [x EXCEPT !.sync = sync], "item projected", {SearchLock(c)})
    BY Zenon DEF ItemProjects, At, Busy
  <1>2. x \in Transaction /\ x.req.op \in {"place", "edit"} /\ f \in [Node -> NodeRow]
    BY <1>1, Standing, StageOp
  <1>3. c \in Item /\ x.node = <<>>
    BY <1>1, <1>2, OwnItem
  <1>4. PICK y : Effect(t, y, "item projected", {SearchLock(c)}, x.node, x.item, sync, x.search)
    BY <1>1, <1>2, ProceedEffect, Zenon
  <1>5. /\ tx' = [tx EXCEPT ![t] = y] /\ UNCHANGED <<db, strayed>>
        /\ y.node = x.node /\ y.item = x.item /\ y.sync = sync /\ y.pc = "item projected"
    BY <1>4 DEF Effect
  <1>6. Rows(y) = sync /\ Over(y.node, f) = f /\ Over(y.item, db.item) = Items(t)
    BY <1>2, <1>3, <1>5, NothingOver DEF Rows, Items
  <1>7. DOMAIN sync = {c} /\ sync[c] = Projected(f, n)
    BY DEF Only
  <1> HIDE DEF sync
  <1>8. ASSUME NEW i \in Item
        PROVE  Told(db.node, db.item, y, i)
    BY <1>6, <1>7 DEF Told
  <1>9. Knows(db.node, db.item, y, strayed)
    BY <1>8 DEF Knows
  <1> QED BY <1>5, <1>9, FreshStep

-----------------------------------------------------------------------------
(* A commit shows to all what its transaction knows.                       *)
LEMMA CommitShows ==
  ASSUME Inv, KeepsInv, FreshInv, NEW t \in Txn, Commit(t)
  PROVE  StaleOnlyFromStray'
  <1> DEFINE x == tx[t]
             f == db.node
             q == db.item
             h == Nodes(t)
             j == Items(t)
             new == Over(x.search, db.search)
  <1>1. /\ x.pc = "commit" /\ Busy(t)
        /\ db'.node = h /\ db'.item = j /\ db'.search = new
        /\ strayed' = (strayed \ DOMAIN x.item) \cup {i \in DOMAIN x.search : ~Secured(t, i)}
    BY DEF Commit, At, Busy
  <1>2. Stands(f, q, x) /\ x.pc \in Computed
    BY <1>1, StandsNow DEF Computed
  <1>3. Knows(f, q, x, strayed) /\ StaleOnlyFromStray
    BY <1>1 DEF FreshInv
  <1>4. Rows(x) = x.search /\ h = Over(x.node, f) /\ j = Over(x.item, q)
    BY <1>1 DEF Rows, Nodes, Items
  <1>5. ASSUME NEW i \in Item, i \notin strayed'
        PROVE  new[i] = Projected(h, j[i].node)
    <2>1. i \notin strayed \/ i \in DOMAIN x.item
      BY <1>1, <1>5
    <2>2. i \in DOMAIN x.search => Sec(f, q, x, i)
      BY <1>1, <1>5 DEF Secured, Sec, Nodes, Items
    <2>3. Told(f, q, x, i)
      BY <1>2, <1>3, <2>1 DEF Knows
    <2>4. Placed(f, q, x, i)
      BY <1>2, NewPlaces
    <2>5. i \in DOMAIN db.search
      BY DEF Inv, TypeInv
    <2> HIDE DEF f, q, x, h, j
    <2>6. CASE i \in DOMAIN x.search
      <3>1. new[i] = x.search[i]
        BY <2>6 DEF Over
      <3> QED BY <1>4, <2>2, <2>3, <2>6, <3>1 DEF Told
    <2>7. CASE i \notin DOMAIN x.search
      <3>1. new[i] = db.search[i]
        BY <2>5, <2>7 DEF Over
      <3>2. i \notin DOMAIN x.item
        BY <1>4, <2>4, <2>7 DEF Placed
      <3>3. j[i] = q[i]
        BY <1>4, <2>4, <3>2 DEF Placed
      <3>4. db.search[i] = Projected(f, q[i].node)
        BY <1>3, <2>1, <3>2 DEF StaleOnlyFromStray, Shows, f, q
      <3>5. Projected(h, q[i].node) = Projected(f, q[i].node)
        BY <1>4, <2>3, <2>7 DEF Told
      <3> QED BY <3>1, <3>3, <3>4, <3>5
    <2> QED BY <2>6, <2>7
  <1> HIDE DEF h, j, new
  <1> QED BY <1>1, <1>5 DEF StaleOnlyFromStray, Shows

LEMMA CommitFresh ==
  ASSUME Inv, Inv', KeepsInv, KeepsInv', FreshInv, NEW t \in Txn, Commit(t)
  PROVE  FreshInv'
  <1> DEFINE f == db.node
             q == db.item
             g == Nodes(t)
             j == Items(t)
  <1>1. /\ db'.node = g /\ db'.item = j /\ Busy(t) /\ tx[t].pc = "commit"
        /\ \A u \in Txn \ {t} : tx'[u] = tx[u]
        /\ tx'[t].pc = "done"
    BY CommitTables
  <1>2. strayed' = (strayed \ DOMAIN tx[t].item) \cup {i \in DOMAIN tx[t].search : ~Secured(t, i)}
    BY DEF Commit
  <1>3. {i \in DOMAIN tx[t].search : ~Secured(t, i)}
          = {i \in DOMAIN tx[t].search : ~Sec(f, q, tx[t], i)}
    BY DEF Secured, Sec, Nodes, Items
  <1>4. Stands(f, q, tx[t])
    BY <1>1, StandsNow
  <1>5. g = Over(tx[t].node, f) /\ j = Over(tx[t].item, q)
    BY DEF Nodes, Items
  <1> HIDE DEF f, q, g, j
  <1>6. ASSUME NEW u \in Txn, Busy(u)'
        PROVE  Knows(g, j, tx'[u], strayed')
    <2>1. u # t /\ tx'[u] = tx[u] /\ Busy(u)
      BY <1>1, <1>6 DEF Busy
    <2>2. Stands(f, q, tx[u])
      BY <2>1, StandsNow DEF f, q
    <2>3. Stands(g, j, tx[u])
      <3>1. Stands(db'.node, db'.item, tx'[u])
        BY <1>6, StandsNext
      <3> QED BY <1>1, <2>1, <3>1
    <2>4. Undisturbed(f, g, tx[u].held)
      BY <1>1, <2>1, CommitUndisturbed DEF f, g
    <2>5. \A l \in tx[t].held, m \in tx[u].held : ~Conflict(l, m)
      BY <2>1 DEF Inv, LockInv
    <2>6. Knows(f, q, tx[u], strayed)
      BY <2>1 DEF FreshInv, f, q
    <2>7. strayed' = (strayed \ DOMAIN tx[t].item) \cup
                       {i \in DOMAIN tx[t].search : ~Sec(f, q, tx[t], i)}
      BY <1>2, <1>3
    <2>8. Knows(g, j, tx[u], strayed')
      BY <1>1, <1>4, <1>5, <2>2, <2>3, <2>4, <2>5, <2>6, <2>7, KnowsKept
    <2> QED BY <2>1, <2>8
  <1>7. StaleOnlyFromStray'
    BY CommitShows
  <1> QED BY <1>1, <1>6, <1>7 DEF FreshInv

LEMMA FreshNext ==
  ASSUME Inv, KeepsInv, FreshInv, [Next]_vars
  PROVE  FreshInv'
  <1>1. Inv' /\ KeepsInv'
    BY StepInv, KeepsNext
  <1>2. CASE UNCHANGED vars
    <2>1. db' = db /\ tx' = tx /\ strayed' = strayed
      BY <1>2 DEF vars
    <2> QED BY <2>1 DEF FreshInv, StaleOnlyFromStray, Shows, Busy
  <1>3. ASSUME NEW t \in Txn, Step(t)
        PROVE  FreshInv'
    <2>1. CASE Acquire(t)
      BY <2>1, AcquireFresh
    <2>2. CASE Commit(t)
      BY <1>1, <2>2, CommitFresh
    <2>3. CASE Abort(t)
      <3>1. PICK y : y = [Fresh EXCEPT !.pc = "done"]
        OBVIOUS
      <3>2. tx' = [tx EXCEPT ![t] = y] /\ UNCHANGED <<db, strayed>>
        BY <2>3, <3>1 DEF Abort
      <3>3. y.pc = "done"
        BY <3>1, FreshType
      <3>4. Knows(db.node, db.item, y, strayed)
        BY <3>3 DEF Knows, Computed
      <3> QED BY <3>2, <3>4, FreshStep
    <2>4. CASE CreateInserts(t)
      BY <2>4, CreateFresh
    <2>5. CASE UpdateWrites(t)
      BY <2>5, UpdateFresh
    <2>6. CASE MoveSyncs(t)
      BY <2>6, MoveFresh
    <2>7. CASE ItemProjects(t)
      BY <2>7, ItemFresh
    <2>8. CASE SyncWrites(t) \/ ItemUpserts(t)
      BY <2>8, SyncFresh
    <2>9. CASE Reading(t)
      BY <2>9, ReadingFresh
    <2> QED BY <1>3, <2>1, <2>2, <2>3, <2>4, <2>5, <2>6, <2>7, <2>8, <2>9 DEF Step, Reading
  <1>4. ASSUME NEW t \in Txn, NEW r \in asks, Begin(t, r)
        PROVE  FreshInv'
    <2>1. r \in Request
      BY DEF Inv, TypeInv
    <2>2. PICK loaded : Proceed(t, [Fresh EXCEPT !.req = r, !.version = loaded], r.op, {})
      BY <1>4, Zenon DEF Begin
    <2>3. PICK y : y = [[Fresh EXCEPT !.req = r, !.version = loaded] EXCEPT !.pc = r.op, !.need = {}]
      OBVIOUS
    <2>4. y.pc = r.op
      BY <2>3 DEF Fresh
    <2>5. tx' = [tx EXCEPT ![t] = y] /\ UNCHANGED <<db, strayed>>
      BY <2>2, <2>3 DEF Proceed
    <2>6. Knows(db.node, db.item, y, strayed)
      BY <2>1, <2>4, RequestFields DEF Knows, Computed
    <2> QED BY <2>5, <2>6, FreshStep
  <1> QED BY <1>2, <1>3, <1>4 DEF Next

LEMMA FreshStart == Init => FreshInv
  <1> SUFFICES ASSUME Init
               PROVE  FreshInv
    OBVIOUS
  <1>1. PICK s \in Scenarios :
          db = [node   |-> s.nodes,
                item   |-> [i \in Item |-> [node |-> s.places[i], version |-> 1]],
                search |-> [i \in Item |-> Projected(s.nodes, s.places[i])]]
    BY Zenon DEF Init
  <1>2. StaleOnlyFromStray
    <2>1. /\ db.node = s.nodes /\ db.search = [i \in Item |-> Projected(s.nodes, s.places[i])]
          /\ \A i \in Item : db.item[i].node = s.places[i]
      BY <1>1
    <2> QED BY <2>1 DEF StaleOnlyFromStray, Shows
  <1>3. \A t \in Txn : ~Busy(t)
    BY DEF Init, Fresh, Busy
  <1> QED BY <1>2, <1>3 DEF FreshInv

(* A committed projection is stale only if the item's place or projection  *)
(* was last written without the lock of the tree the item then lay in,     *)
(* whatever runs beside whatever.  The sync of a node's update or move     *)
(* writes all it changes of what is shown; what it writes it has seen      *)
(* under the tree's lock; and no commit of others disturbs either, unless  *)
(* it strays itself (StorageService.update, .move, ItemService.update).    *)
THEOREM StaleExplained == Spec => []StaleOnlyFromStray
  <1>1. Init => FreshInv
    BY FreshStart
  <1>2. (Inv /\ KeepsInv) /\ FreshInv /\ [Next]_vars => FreshInv'
    BY FreshNext
  <1>3. FreshInv => StaleOnlyFromStray
    BY DEF FreshInv
  <1> QED BY <1>1, <1>2, <1>3, KeepsInvariant, PTL DEF Spec
=============================================================================
