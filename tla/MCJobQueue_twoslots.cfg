\* One runner with the two media slots that maximumMediaConcurrency allows.
CONSTANTS
  Job = {j1}
  Worker = {w1}
  Slot = {s1, s2}
  PolicyAttempts = 2
  Budgets = {2}
  LeaseTicks = 1
  MaxDelay = 1
  MaxRequeues = 0
  NoJob = NoJob
  NoWorker = NoWorker
SPECIFICATION Spec
INVARIANT BeatsOnlyLatestClaim
CHECK_DEADLOCK FALSE
