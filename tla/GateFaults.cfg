\* One slot: timeouts, abandoned operations, failures, hold and close; and one
\* or two slots and a queue whose bounds change.
SPECIFICATION Spec
CONSTANTS
  c1 = c1
  c2 = c2
  c3 = c3
  Calls = {c1, c2, c3}
  Modes = {"sequential", "parallel"}
  ParallelLimits = {1, 2}
  QueueLimits = {1, 2}
  Scopes = {TRUE, FALSE}
  Timed = TRUE
  Endings = {"ok", "error", "fatal", "refused", "timeout"}
  FailureThreshold = 2
  CancelPoints = {"queued", "running"}
  Admissions = {"hold", "close"}
  SyncWork = TRUE
SYMMETRY Symmetry
CONSTRAINT Instances
INVARIANTS
  SlotsExact QuarantineExact DrainedStaysQuiet LateFatalKept
PROPERTIES
  StartsOnlyWhenAvailable ImplementsSlotPool
CHECK_DEADLOCK FALSE
