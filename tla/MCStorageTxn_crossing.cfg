\* A rename and a move of an item into another tree.
CONSTANTS
  Node = {1, 2, 3, 4, 5}
  Item = {i1}
  Txn = {t1, t2}
  tagA = tagA
  tagB = tagB
  Tag = {tagA, tagB}
  NoNode = NoNode
  Scenarios <- Crossing
SPECIFICATION Spec
INVARIANT ProjectionFresh
\* Every transaction serves one request and is then done.
CHECK_DEADLOCK FALSE
