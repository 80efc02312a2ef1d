\* Two jobs, two runners of one slot, two attempts, one admin recovery.
CONSTANTS
  Job = {j1, j2}
  Worker = {w1, w2}
  Slot = {s1}
  PolicyAttempts = 2
  Budgets = {2}
  LeaseTicks = 1
  MaxDelay = 1
  MaxRequeues = 1
  NoJob = NoJob
  NoWorker = NoWorker
SPECIFICATION Spec
SYMMETRY Symmetry
INVARIANTS
  BeatsOnlyLatestClaim
  NoStrandedRow
  ExecutionsWithinBudget
PROPERTIES
  SettledByLatestClaim
  FinishedIsFinal
CHECK_DEADLOCK FALSE
