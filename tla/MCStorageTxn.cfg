\* Three transactions: over two trees, or over two items in one tree or in two.
CONSTANTS
  Node = {1, 2, 3, 4, 5}
  Item = {i1, i2}
  Txn = {t1, t2, t3}
  tagA = tagA
  tagB = tagB
  Tag = {tagA, tagB}
  NoNode = NoNode
  Scenarios <- AllScenarios
SPECIFICATION Spec
SYMMETRY Symmetry
INVARIANTS
  PathsFollowParents
  StaleOnlyFromStray
  CirclesHaveCause
PROPERTIES
  ImplementsTree
  NoLostUpdate
\* Every transaction serves one request and is then done.
CHECK_DEADLOCK FALSE
