---------------------------- MODULE MCStorageTxn ----------------------------
(* Small instances of StorageTxn for TLC.                                  *)
EXTENDS StorageTxn, TLC

CONSTANTS tagA, tagB   \* two tags

Row(n, parent, path) ==
  [Absent EXCEPT !.exists = TRUE, !.parent = parent, !.path = path,
                 !.root = Head(path), !.version = 1]

(* Two trees, 1 - 2 and 3 - 4, and node 5 still to be created.             *)
TwoTrees ==
  1 :> Row(1, NoNode, <<1>>) @@ 2 :> Row(2, 1, <<1, 2>>) @@
  3 :> Row(3, NoNode, <<3>>) @@ 4 :> Row(4, 3, <<3, 4>>) @@ 5 :> Absent

(* One tree, 1 - {2, 3}.                                                   *)
OneTree ==
  1 :> Row(1, NoNode, <<1>>) @@ 2 :> Row(2, 1, <<1, 2>>) @@ 3 :> Row(3, 1, <<1, 3>>)
  @@ 4 :> Absent @@ 5 :> Absent

Begins(nodes, place, requests) ==
  [nodes |-> nodes, places |-> [i \in Item |-> place], requests |-> requests]

Create(n, to, private, privileged) ==
  [op |-> "create", node |-> n, to |-> to, private |-> private, privileged |-> privileged]
Update(n, change, privileged) ==
  [op |-> "update", node |-> n, change |-> change, privileged |-> privileged]
Move(n, to, privileged) == [op |-> "move", node |-> n, to |-> to, privileged |-> privileged]
Place(i, to, privileged) ==
  [op |-> "place", item |-> i, to |-> to, moving |-> TRUE, tags |-> <<>>,
   privileged |-> privileged]
Put(i, to, tags) ==
  [op |-> "place", item |-> i, to |-> to, moving |-> FALSE, tags |-> tags, privileged |-> TRUE]
Edit(i, tags) == [op |-> "edit", item |-> i, tags |-> tags, privileged |-> TRUE]

(* Transactions are interchangeable, and so are the items.                 *)
Symmetry == Permutations(Txn) \cup Permutations(Item)

(* Moves that cross, moves that chase each other into a cycle, and updates *)
(* above and at what is being moved.                                       *)
TreeRequests ==
  {Move(1, 4, TRUE), Move(3, 2, TRUE), Move(2, 3, FALSE), Move(1, 2, TRUE),
   Create(5, 2, FALSE, FALSE), Create(5, NoNode, TRUE, TRUE),
   Update(1, "archive", TRUE), Update(2, "recode", TRUE), Update(3, "hide", TRUE)}

(* Items and their tree while nothing leaves it, tags in either order.     *)
OneTreeRequests ==
  {Update(1, "rename", TRUE), Update(3, "hide", TRUE),
   Update(1, "archive", TRUE), Move(2, 3, TRUE)}
  \cup UNION {{Place(i, 3, TRUE), Place(i, 1, FALSE), Put(i, 2, <<tagA>>),
               Edit(i, <<tagA, tagB>>), Edit(i, <<tagB, tagA>>)} : i \in Item}

(* Items and nodes that change trees, or leave storage, beside updates.    *)
CrossingRequests ==
  {Update(1, "rename", TRUE), Update(3, "rename", TRUE), Update(4, "hide", TRUE),
   Move(2, 4, TRUE)}
  \cup UNION {{Place(i, 4, TRUE), Put(i, NoNode, <<tagA>>), Edit(i, <<>>)} : i \in Item}

(* Storage operations over two trees, and items in one tree and in two.    *)
AllScenarios ==
  {Begins(TwoTrees, NoNode, TreeRequests), Begins(OneTree, 2, OneTreeRequests),
   Begins(TwoTrees, 2, CrossingRequests)}

(* A rename above an item that is being taken out of storage.              *)
Unassigning ==
  {Begins(OneTree, 2, {Update(1, "rename", TRUE)} \cup {Place(i, NoNode, TRUE) : i \in Item})}

(* A rename above an item that is being moved into another tree.           *)
Crossing ==
  {Begins(TwoTrees, 2, {Update(1, "rename", TRUE)} \cup {Place(i, 4, TRUE) : i \in Item})}
=============================================================================
