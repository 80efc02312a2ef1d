\* One asset, two runners with a slot each.
CONSTANTS
  Asset = {a1}
  Variant = {thumb}
  Worker = {w1, w2}
  Slot = {s1}
  PolicyAttempts = 2
  LeaseTicks = 1
  MaxDelay = 1
  Collector = {c1}
  MaxFailures = 1
  Original = original
  NoAsset = NoAsset
  NoWorker = NoWorker
SPECIFICATION FairSpec
INVARIANTS
  JobIffPublished
  ReadyIsServable
  OutcomeIsTrue
  NoStrayVariant
PROPERTIES
  DispatchedOnce
  EveryUploadSettles
CHECK_DEADLOCK FALSE
