\* sync_parallel_limit 2: two callbacks of one gate run at once.
SPECIFICATION Spec
CONSTANTS
  j1 = j1
  j2 = j2
  j3 = j3
  g1 = g1
  g2 = g2
  Jobs = {j1, j2}
  Gates = {g1}
  FallbackLane = FallbackLane
  NoOne = NoOne
  MaxWorkers = 3
  GlobalLimits = {2}
  ParallelLimits = {2}
  QueueLimits = {1}
  Scopes = {FALSE}
  Endings = {"result"}
  Stops = {}
  SubmitMayFail = FALSE
SYMMETRY Symmetry
INVARIANTS
  DetachedWorkQuarantines
CHECK_DEADLOCK FALSE
