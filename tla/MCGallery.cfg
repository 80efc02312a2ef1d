\* Four calls beside each other on the images of one item.
CONSTANTS
  x1 = x1
  x2 = x2
  x3 = x3
  x4 = x4
  e1 = e1
  e2 = e2
  e3 = e3
  e4 = e4
  Relation = {x1, x2, x3, x4}
  Edit = {e1, e2, e3, e4}
  Ask <- Asks
  Beginning <- Tables
  Parking = 5
  NoAsk = NoAsk
SPECIFICATION GallerySpec
SYMMETRY Symmetry
PROPERTIES
  PrimaryKept
  OrderOnlyByReorder
  ClashHasCause
\* Every call is answered once.
CHECK_DEADLOCK FALSE
