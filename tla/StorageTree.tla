---------------------------- MODULE StorageTree ----------------------------
(***************************************************************************)
(* What the storage module promises of its tree: create, update and move   *)
(* as if each were one indivisible step.  The table keeps for every node   *)
(* its parent and, redundantly, a materialised path and the tree's root;   *)
(* here a path is the set of nodes on it, the node itself included.        *)
(*                                                                         *)
(* storage/storage-service.ts and storage-repository.ts implement this     *)
(* with several statements per operation; StorageTxn models those and is   *)
(* checked to implement Spec.                                              *)
(***************************************************************************)
EXTENDS Naturals, FiniteSets

CONSTANTS
  Node,      \* identities a node may be given
  NoNode     \* not one of them: parent of a root, and root of a node that
             \* does not exist

VARIABLE node   \* node[n]: the committed storage_nodes row of n

NodeRow == [exists : BOOLEAN, parent : Node \cup {NoNode}, path : SUBSET Node,
            root : Node \cup {NoNode}, archived : BOOLEAN, private : BOOLEAN]

NoRow == [exists |-> FALSE, parent |-> NoNode, path |-> {}, root |-> NoNode,
          archived |-> FALSE, private |-> FALSE]

TypeOK == node \in [Node -> NodeRow]

-----------------------------------------------------------------------------
Exists(n) == node[n].exists

(* `path <@ path[s]`: the nodes of the subtree of s.                       *)
Subtree(s) == {d \in Node : Exists(d) /\ s \in node[d].path}

(* findAccessibleByPublicId: neither archived nor below an archived node,  *)
(* and for an actor without viewPrivateFields not below a private one.     *)
Accessible(n, privileged) ==
  /\ Exists(n)
  /\ \A a \in node[n].path : ~node[a].archived /\ (privileged \/ ~node[a].private)

-----------------------------------------------------------------------------
(* A new node: a root, or a child of an accessible parent.                 *)
CreateRoot(n, private) ==
  /\ ~Exists(n)
  /\ node' = [node EXCEPT ![n] =
       [exists |-> TRUE, parent |-> NoNode, path |-> {n}, root |-> n,
        archived |-> FALSE, private |-> private]]

CreateChild(n, p, private, privileged) ==
  /\ ~Exists(n)
  /\ Accessible(p, privileged)
  /\ node' = [node EXCEPT ![n] =
       [exists |-> TRUE, parent |-> p, path |-> node[p].path \cup {n},
        root |-> node[p].root, archived |-> FALSE, private |-> private]]

(* An update hides or shows the node, and may archive it for good.         *)
Update(n, archived, private, privileged) ==
  /\ Accessible(n, privileged)
  /\ node' = [node EXCEPT ![n].archived = archived, ![n].private = private]

(* The subtree of s goes below t: every path in it is re-rooted.           *)
Move(s, t, privileged) ==
  /\ Accessible(s, privileged)
  /\ Accessible(t, privileged)
  /\ node[s].parent # t
  /\ t \notin Subtree(s)
  /\ node' = [d \in Node |->
       IF d \in Subtree(s)
       THEN [node[d] EXCEPT !.parent = IF d = s THEN t ELSE @,
                            !.path = node[t].path \cup {s} \cup (@ \ node[s].path),
                            !.root = node[t].root]
       ELSE node[d]]

Next ==
  \/ \E n \in Node, archived, private, privileged \in BOOLEAN :
       Update(n, archived, private, privileged)
  \/ \E n \in Node, private \in BOOLEAN : CreateRoot(n, private)
  \/ \E n, p \in Node, private, privileged \in BOOLEAN :
       CreateChild(n, p, private, privileged)
  \/ \E s, t \in Node, privileged \in BOOLEAN : Move(s, t, privileged)

-----------------------------------------------------------------------------
(* The redundant columns agree with the parent links: a path is the        *)
(* parent's path and the node, never through the node itself, and a tree   *)
(* has one root.  Every subtree query and every root lock relies on it.    *)
PathOfParent(n) ==
  IF node[n].parent = NoNode
  THEN node[n].path = {n} /\ node[n].root = n
  ELSE /\ Exists(node[n].parent)
       /\ n \notin node[node[n].parent].path
       /\ node[n].path = node[node[n].parent].path \cup {n}
       /\ node[n].root = node[node[n].parent].root

PathsClosed(n) ==
  \A a \in node[n].path :
    /\ Exists(a)
    /\ node[a].path \subseteq node[n].path
    /\ node[a].root = node[n].root

(* Any two nodes on one path lie one above the other: it is what lets a    *)
(* move cut a path at the moved node and keep exactly what is below it.    *)
PathIsChain(n) ==
  \A a, b \in node[n].path : a \in node[b].path \/ b \in node[a].path

(* The stored paths describe a forest.                                     *)
Forest ==
  \A n \in Node : Exists(n) => PathOfParent(n) /\ PathsClosed(n) /\ PathIsChain(n)

(* No two nodes lie in each other's subtree, so no chain of parents        *)
(* returns to where it started.                                            *)
NoCycle ==
  \A a, b \in Node :
    (Exists(a) /\ Exists(b) /\ a \in node[b].path /\ b \in node[a].path) => a = b

(* The tree starts as any forest the installation has grown.               *)
Init == TypeOK /\ Forest /\ NoCycle

Spec == Init /\ [][Next]_node
=============================================================================
