\* Three calls beside each other, on three categories and two fields, options and items.
CONSTANTS
  c1 = c1
  c2 = c2
  c3 = c3
  f1 = f1
  f2 = f2
  o1 = o1
  o2 = o2
  i1 = i1
  i2 = i2
  r1 = r1
  r2 = r2
  r3 = r3
  Category = {c1, c2, c3}
  Field = {f1, f2}
  Option = {o1, o2}
  Item = {i1, i2}
  Request = {r1, r2, r3}
  Ask <- Asks
  Beginning <- Tables
  NoCategory = NoCategory
  NoField = NoField
  NoValue = NoValue
  NoRow = NoRow
  NoAsk = NoAsk
  Undefined = Undefined
SPECIFICATION Spec
SYMMETRY Symmetry
INVARIANTS
  CycleOnlyFromOverlap
  OptionsFitType
  ValueFitsType
  RebuildOwed
PROPERTIES
  AuditChains
  KeepsUnaddressed
\* Every call is answered once.
CHECK_DEADLOCK FALSE
