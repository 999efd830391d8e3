\* A second cancellation lands while the call gives its operation one turn.
SPECIFICATION Spec
CONSTANTS
  c1 = c1
  c2 = c2
  c3 = c3
  Calls = {c1, c2}
  Modes = {"sequential"}
  ParallelLimits = {1}
  QueueLimits = {1}
  Scopes = {FALSE}
  Timed = TRUE
  Endings = {"ok"}
  FailureThreshold = 2
  CancelPoints = {"unwinding"}
  Admissions = {}
  SyncWork = FALSE

INVARIANT
  AbandonedIsQuarantined

CHECK_DEADLOCK FALSE
