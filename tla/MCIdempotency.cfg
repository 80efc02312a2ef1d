\* Three calls on one key: a first request, its retry, and either another
\* retry or a different request under the same key.
CONSTANTS
  Call = {c1, c2, c3}
  Key = {k1}
  Fingerprint = {f1, f2}
  LeaseTicks = 1
  NoCall = NoCall
  NoKey = NoKey
  NoFingerprint = NoFingerprint
SPECIFICATION Spec
SYMMETRY Symmetry
INVARIANTS
  EffectOnce
  AnswersAreTrue
PROPERTY ReservationHeld
\* Every call is answered once.
CHECK_DEADLOCK FALSE
