------------------------- MODULE StorageTreeProofs -------------------------
(***************************************************************************)
(* The storage tree stays a forest whatever is created, updated and moved, *)
(* for every set of nodes, NoNode (a null in the table) not being one.     *)
(***************************************************************************)
EXTENDS StorageTree, TLAPS

(* The inductive invariant.  No conjunct is inductive alone: a move keeps  *)
(* the paths closed because they are chains, and keeps them chains because *)
(* no two nodes lie below each other.                                      *)
ForestInv == TypeOK /\ Forest /\ NoCycle

Chains == \A n \in Node : Exists(n) => PathIsChain(n)

-----------------------------------------------------------------------------
(* Paths in a forest are transitive, and every existing node is on its own *)
(* path.                                                                   *)
LEMMA PathFacts ==
  ASSUME ForestInv
  PROVE  /\ \A n \in Node : Exists(n) => n \in node[n].path
         /\ \A n \in Node : Exists(n) => node[n].path \subseteq Node
         /\ \A n \in Node : Exists(n) => \A a \in node[n].path :
              Exists(a) /\ node[a].path \subseteq node[n].path /\ node[a].root = node[n].root
         /\ Chains
  BY DEF ForestInv, TypeOK, NodeRow, Forest, PathOfParent, PathsClosed, Chains

(* A forest in which no parent, path or root changes stays one.            *)
LEMMA SameShape ==
  ASSUME ForestInv, node' \in [Node -> NodeRow],
         \A n \in Node : /\ node'[n].exists = node[n].exists
                         /\ node'[n].parent = node[n].parent
                         /\ node'[n].path = node[n].path
                         /\ node'[n].root = node[n].root
  PROVE  ForestInv'
  <1> USE DEF ForestInv, TypeOK
  <1>1. \A n \in Node : node[n].parent # NoNode => node[n].parent \in Node
    BY DEF NodeRow
  <1>2. \A n \in Node : Exists(n)' <=> Exists(n)
    BY DEF Exists
  <1>3. \A n \in Node : node[n].path \subseteq Node
    BY DEF NodeRow
  <1>4. Forest'
    BY <1>1, <1>2, <1>3 DEF Forest, PathOfParent, PathsClosed, PathIsChain
  <1>5. NoCycle'
    BY <1>2, <1>3 DEF NoCycle
  <1> QED BY <1>4, <1>5

(* A new node hangs below a node of the forest, or below nothing.          *)
LEMMA NewNode ==
  ASSUME NoNode \notin Node, ForestInv, NEW n \in Node, ~Exists(n), NEW above \in SUBSET Node, NEW row,
         node' = [node EXCEPT ![n] = row], row \in NodeRow, row.exists,
         row.path = above \cup {n},
         \/ above = {} /\ row.parent = NoNode /\ row.root = n
         \/ /\ row.parent \in Node /\ Exists(row.parent)
            /\ above = node[row.parent].path
            /\ row.root = node[row.parent].root
  PROVE  ForestInv'
  <1> USE DEF ForestInv
  <1>1. TypeOK'
    BY DEF TypeOK
  <1>2. /\ node'[n] = row
        /\ \A m \in Node : m # n => node'[m] = node[m]
        /\ \A m \in Node : Exists(m) => m # n
    BY DEF TypeOK, Exists
  <1>3. /\ \A a \in above : Exists(a) /\ a # n /\ node[a].path \subseteq above
        /\ \A a \in above : node[a].root = row.root
        /\ \A a, b \in above : a \in node[b].path \/ b \in node[a].path
    BY <1>2, PathFacts DEF Chains, PathIsChain
  <1>4. \A m \in Node : Exists(m)' <=> (Exists(m) \/ m = n)
    BY <1>2 DEF Exists
  <1>5. \A m \in Node : Exists(m) => n \notin node[m].path
    BY <1>2, PathFacts
  <1>6. NoNode \notin Node
    OBVIOUS
  <1>7. \A m \in Node : Exists(m)' => PathOfParent(m)'
    <2>1. PathOfParent(n)'
      BY <1>2, <1>3, <1>4, <1>6, PathFacts DEF PathOfParent
    <2>2. ASSUME NEW m \in Node, m # n, Exists(m) PROVE PathOfParent(m)'
      <3>1. PathOfParent(m) /\ (node[m].parent # NoNode => node[m].parent \in Node)
        BY <2>2 DEF Forest, TypeOK, NodeRow
      <3> QED BY <1>2, <1>4, <2>2, <3>1 DEF PathOfParent
    <2> QED BY <1>4, <2>1, <2>2
  <1>8. \A m \in Node : Exists(m)' => PathsClosed(m)'
    <2>1. PathsClosed(n)'
      BY <1>2, <1>3, <1>4 DEF PathsClosed
    <2>2. ASSUME NEW m \in Node, m # n, Exists(m) PROVE PathsClosed(m)'
      BY <1>2, <1>4, <1>5, <2>2, PathFacts DEF PathsClosed
    <2> QED BY <1>4, <2>1, <2>2
  <1>9. NoCycle'
    BY <1>2, <1>4, <1>5 DEF NoCycle
  <1>10. Chains'
    <2> SUFFICES ASSUME NEW m \in Node, Exists(m)', NEW a \in node'[m].path,
                        NEW b \in node'[m].path
                 PROVE  a \in node'[b].path \/ b \in node'[a].path
      BY DEF Chains, PathIsChain
    <2>1. CASE m = n
      BY <1>2, <1>3, <2>1
    <2>2. CASE m # n
      BY <1>2, <1>4, <1>5, <2>2, PathFacts DEF Chains, PathIsChain
    <2> QED BY <2>1, <2>2
  <1> QED BY <1>1, <1>7, <1>8, <1>9, <1>10 DEF Forest, Chains

-----------------------------------------------------------------------------
(* The move.  Cutting the moved subtree's paths at s and prefixing them    *)
(* with the path of t is sound because t is outside that subtree.          *)
LEMMA MoveStep ==
  ASSUME NoNode \notin Node, ForestInv, NEW s \in Node, NEW t \in Node, NEW privileged \in BOOLEAN,
         Move(s, t, privileged)
  PROVE  ForestInv'
  <1> USE DEF ForestInv
  <1> DEFINE S == Subtree(s)
             NewPath(d) == node[t].path \cup {s} \cup (node[d].path \ node[s].path)
  <1>1. Exists(s) /\ Exists(t) /\ t \notin S
    BY DEF Move, Accessible
  <1>2. \A d \in Node : (d \in S) <=> (Exists(d) /\ s \in node[d].path)
    BY DEF Subtree
  <1>3. s \in S /\ s \notin node[t].path
    BY <1>1, <1>2, PathFacts
  <1>4. ASSUME NEW d \in Node
        PROVE  /\ d \notin S => node'[d] = node[d]
               /\ d \in S =>
                    /\ node'[d].exists = node[d].exists
                    /\ node'[d].parent = IF d = s THEN t ELSE node[d].parent
                    /\ node'[d].path = NewPath(d)
                    /\ node'[d].root = node[t].root
    <2>1. node[d] \in NodeRow
      BY DEF TypeOK
    <2> HIDE DEF S
    <2>2. node'[d] = IF d \in S
            THEN [node[d] EXCEPT !.parent = IF d = s THEN t ELSE @,
                                 !.path = node[t].path \cup {s} \cup (@ \ node[s].path),
                                 !.root = node[t].root]
            ELSE node[d]
      BY DEF Move, S
    <2> QED BY <2>1, <2>2 DEF NodeRow
  <1>5. TypeOK'
    <2>1. \A d \in Node : node[d] \in NodeRow /\ NewPath(d) \subseteq Node
      BY DEF TypeOK, NodeRow
    <2>2. \A d \in Node : node[t].root \in Node \cup {NoNode}
      BY DEF TypeOK, NodeRow
    <2> QED BY <2>1, <2>2 DEF Move, TypeOK, NodeRow
  <1>6. \A d \in Node : Exists(d)' <=> Exists(d)
    BY <1>4 DEF Exists
  <1>7. \A a \in node[t].path : a \in Node /\ a \notin S
    BY <1>1, <1>2, <1>3, PathFacts
  <1>8. ASSUME NEW d \in Node, Exists(d), d \notin S, NEW a \in node[d].path
        PROVE  a \in Node /\ a \notin S
    BY <1>2, <1>8, PathFacts
  <1>9. ASSUME NEW d \in S, NEW a \in node[d].path, a \notin node[s].path
        PROVE  a \in S
    <2>1. d \in Node /\ Exists(d) /\ s \in node[d].path /\ a \in Node /\ Exists(a)
      BY <1>2, <1>9, PathFacts DEF Subtree
    <2>2. s \in node[a].path
      BY PathFacts, <1>9, <2>1 DEF Chains, PathIsChain
    <2> QED BY <1>2, <2>1, <2>2
  <1>10. \A d \in S : d \in Node /\ Exists(d) /\ d \notin node[t].path
    BY <1>7 DEF Subtree
  <1>11. \A d \in S : d # s => d \notin node[s].path
    BY <1>1, <1>2, <1>10 DEF NoCycle
  <1> HIDE DEF S
  <1>12. \A n \in Node : Exists(n)' => PathOfParent(n)'
    <2> SUFFICES ASSUME NEW n \in Node, Exists(n) PROVE PathOfParent(n)'
      BY <1>6
    <2>0. PathOfParent(n) /\ (node[n].parent # NoNode => node[n].parent \in Node)
      BY DEF Forest, TypeOK, NodeRow
    <2>1. CASE n = s
      <3>1. node'[s].parent = t /\ node'[s].path = node[t].path \cup {s}
            /\ node'[s].root = node[t].root /\ node'[t] = node[t]
        BY <1>1, <1>3, <1>4
      <3> QED
        BY <1>1, <1>3, <1>6, <2>1, <3>1 DEF PathOfParent
    <2>2. CASE n \in S /\ n # s
      <3> DEFINE p == node[n].parent
      <3>1. p # NoNode /\ p \in Node /\ Exists(p) /\ n \notin node[p].path
            /\ node[n].path = node[p].path \cup {n}
        BY <1>2, <2>0, <2>2 DEF PathOfParent
      <3>2. p \in S
        BY <1>2, <2>2, <3>1
      <3>3. node'[n].parent = p /\ node'[n].path = NewPath(n) /\ node'[p].path = NewPath(p)
            /\ node'[n].root = node'[p].root
        BY <1>4, <2>2, <3>1, <3>2
      <3>4. NewPath(n) = NewPath(p) \cup {n} /\ n \notin NewPath(p)
        BY <1>10, <1>11, <2>2, <3>1
      <3> QED BY <1>6, <3>1, <3>3, <3>4 DEF PathOfParent
    <2>3. CASE n \notin S
      <3>1. node'[n] = node[n]
        BY <1>4, <2>3
      <3>2. node[n].parent # NoNode =>
              node[n].parent \in Node /\ node[n].parent \notin S
        BY <1>8, <2>0, <2>3, PathFacts DEF PathOfParent
      <3>3. node[n].parent # NoNode => node'[node[n].parent] = node[node[n].parent]
        BY <1>4, <3>2
      <3> QED BY <1>6, <2>0, <3>1, <3>2, <3>3 DEF PathOfParent
    <2> QED BY <2>1, <2>2, <2>3
  <1>13. \A n \in Node : Exists(n)' => PathsClosed(n)'
    <2> SUFFICES ASSUME NEW n \in Node, Exists(n), NEW a \in node'[n].path
                 PROVE  /\ Exists(a)'
                        /\ node'[a].path \subseteq node'[n].path
                        /\ node'[a].root = node'[n].root
      BY <1>6 DEF PathsClosed
    <2>1. CASE n \notin S
      BY <1>4, <1>6, <1>8, <2>1, PathFacts
    <2>2. CASE n \in S
      <3>0. node'[n].path = NewPath(n) /\ node'[n].root = node[t].root
        BY <1>4, <2>2
      <3>1. CASE a \in node[t].path
        BY <1>1, <1>4, <1>6, <1>7, <3>0, <3>1, PathFacts
      <3>2. CASE a = s
        BY <1>1, <1>3, <1>4, <1>6, <3>0, <3>2
      <3>3. CASE a \in node[n].path \ node[s].path
        <4>1. a \in S /\ a \in Node /\ Exists(a) /\ node[a].path \subseteq node[n].path
          BY <1>9, <1>10, <2>2, <3>3, PathFacts
        <4>2. node'[a].path = NewPath(a) /\ node'[a].root = node[t].root
          BY <1>4, <4>1
        <4> QED BY <1>6, <3>0, <4>1, <4>2
      <3> QED BY <3>0, <3>1, <3>2, <3>3
    <2> QED BY <2>1, <2>2
  <1>14. NoCycle'
    <2> SUFFICES ASSUME NEW a \in Node, NEW b \in Node, Exists(a), Exists(b),
                        a \in node'[b].path, b \in node'[a].path
                 PROVE  a = b
      BY <1>6 DEF NoCycle
    <2>1. CASE a \notin S /\ b \notin S
      BY <1>4, <2>1 DEF NoCycle
    <2>2. ~(a \in S /\ b \notin S) /\ ~(b \in S /\ a \notin S)
      BY <1>4, <1>8
    <2>3. CASE a \in S /\ b \in S
      <3>1. a \in NewPath(b) /\ b \in NewPath(a)
        BY <1>4, <2>3
      <3>2. a \notin node[t].path /\ b \notin node[t].path
        BY <1>10, <2>3
      <3>3. CASE a = s
        BY <3>1, <3>2, <3>3
      <3>4. CASE b = s
        BY <3>1, <3>2, <3>4
      <3>5. CASE a # s /\ b # s
        BY <3>1, <3>2, <3>5 DEF NoCycle
      <3> QED BY <3>3, <3>4, <3>5
    <2> QED BY <2>1, <2>2, <2>3
  <1>15. Chains'
    <2> SUFFICES ASSUME NEW n \in Node, Exists(n), NEW a \in node'[n].path,
                        NEW b \in node'[n].path
                 PROVE  a \in node'[b].path \/ b \in node'[a].path
      BY <1>6 DEF Chains, PathIsChain
    <2>1. CASE n \notin S
      BY PathFacts, <1>4, <1>8, <2>1 DEF Chains, PathIsChain
    <2>2. CASE n \in S
      <3>0. node'[n].path = NewPath(n)
        BY <1>4, <2>2
      <3>1. \A c \in NewPath(n) \ node[t].path :
              c \in S /\ c \in Node /\ node'[c].path = NewPath(c)
        BY <1>3, <1>4, <1>9, <1>10, <2>2
      <3>2. CASE a \in node[t].path /\ b \in node[t].path
        BY PathFacts, <1>1, <1>4, <1>7, <3>2 DEF Chains, PathIsChain
      <3>3. CASE a \in node[t].path /\ b \notin node[t].path
        BY <3>0, <3>1, <3>3
      <3>4. CASE a \notin node[t].path /\ b \in node[t].path
        BY <3>0, <3>1, <3>4
      <3>5. CASE a \notin node[t].path /\ b \notin node[t].path
        <4>1. node'[a].path = NewPath(a) /\ node'[b].path = NewPath(b)
          BY <3>0, <3>1, <3>5
        <4>2. CASE a = s \/ b = s
          BY <4>1, <4>2
        <4>3. CASE a # s /\ b # s
          <5>1. a \in node[n].path \ node[s].path /\ b \in node[n].path \ node[s].path
            BY <3>0, <3>5, <4>3
          <5>2. a \in node[b].path \/ b \in node[a].path
            BY PathFacts, <5>1 DEF Chains, PathIsChain
          <5> QED BY <4>1, <5>1, <5>2
        <4> QED BY <4>2, <4>3
      <3> QED BY <3>2, <3>3, <3>4, <3>5
    <2> QED BY <2>1, <2>2
  <1> QED BY <1>5, <1>12, <1>13, <1>14, <1>15 DEF Forest, Chains

-----------------------------------------------------------------------------
LEMMA ForestStep ==
  ASSUME NoNode \notin Node, ForestInv, [Next]_node
  PROVE  ForestInv'
  <1> USE DEF ForestInv
  <1>1. ASSUME NEW n \in Node, NEW private \in BOOLEAN, CreateRoot(n, private)
        PROVE  ForestInv'
    <2> DEFINE row == [exists |-> TRUE, parent |-> NoNode, path |-> {n}, root |-> n,
                       archived |-> FALSE, private |-> private]
    <2>1. row \in NodeRow /\ row.exists /\ row.path = {} \cup {n}
          /\ row.parent = NoNode /\ row.root = n
      BY DEF NodeRow
    <2>2. node' = [node EXCEPT ![n] = row] /\ ~Exists(n)
      BY <1>1 DEF CreateRoot
    <2> QED BY <2>1, <2>2, NewNode
  <1>2. ASSUME NEW n \in Node, NEW p \in Node, NEW private \in BOOLEAN,
               NEW privileged \in BOOLEAN, CreateChild(n, p, private, privileged)
        PROVE  ForestInv'
    <2> DEFINE row == [exists |-> TRUE, parent |-> p, path |-> node[p].path \cup {n},
                       root |-> node[p].root, archived |-> FALSE, private |-> private]
    <2>1. row \in NodeRow /\ row.exists /\ row.path = node[p].path \cup {n}
          /\ row.parent = p /\ row.root = node[p].root
      BY DEF NodeRow, TypeOK
    <2>2. /\ node' = [node EXCEPT ![n] = row]
          /\ ~Exists(n) /\ Exists(p) /\ node[p].path \in SUBSET Node
      BY <1>2, PathFacts DEF CreateChild, Accessible
    <2> QED BY <2>1, <2>2, NewNode
  <1>3. ASSUME NEW n \in Node, NEW archived \in BOOLEAN, NEW private \in BOOLEAN,
               NEW privileged \in BOOLEAN, Update(n, archived, private, privileged)
        PROVE  ForestInv'
    <2>1. node' \in [Node -> NodeRow]
      <3> DEFINE row == [node[n] EXCEPT !.archived = archived, !.private = private]
      <3>1. row \in NodeRow
        <4>1. node[n] \in NodeRow
          BY DEF TypeOK
        <4> QED BY <4>1 DEF NodeRow
      <3>2. node' = [node EXCEPT ![n] = row]
        BY <1>3 DEF Update, TypeOK, NodeRow
      <3> HIDE DEF row
      <3> QED BY <3>1, <3>2 DEF TypeOK
    <2>2. \A m \in Node : /\ node'[m].exists = node[m].exists
                          /\ node'[m].parent = node[m].parent
                          /\ node'[m].path = node[m].path
                          /\ node'[m].root = node[m].root
      BY <1>3 DEF Update, TypeOK, NodeRow
    <2> QED BY <2>1, <2>2, SameShape
  <1>4. CASE UNCHANGED node
    BY <1>4, SameShape DEF TypeOK
  <1> QED BY <1>1, <1>2, <1>3, <1>4, MoveStep DEF Next

(* Every reachable table is a well-typed forest without cycles.            *)
THEOREM ForestInvariant ==
  ASSUME NoNode \notin Node
  PROVE  Spec => []ForestInv
  <1>1. Init => ForestInv
    BY DEF Init, ForestInv
  <1>2. ForestInv /\ [Next]_node => ForestInv'
    BY ForestStep
  <1> QED BY <1>1, <1>2, PTL DEF Spec

(* The redundant path and root columns always agree with the parent links. *)
THEOREM ForestCorrect ==
  ASSUME NoNode \notin Node
  PROVE  Spec => []Forest
  <1>1. ForestInv => Forest
    BY DEF ForestInv
  <1> QED BY <1>1, ForestInvariant, PTL

(* No sequence of moves ever puts two nodes below each other.              *)
THEOREM NoCycleCorrect ==
  ASSUME NoNode \notin Node
  PROVE  Spec => []NoCycle
  <1>1. ForestInv => NoCycle
    BY DEF ForestInv
  <1> QED BY <1>1, ForestInvariant, PTL
=============================================================================
