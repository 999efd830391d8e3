\* A gated and the ungated lane at three workers, with every hot limit change;
\* a gate or the broker stopped under two callbacks.
SPECIFICATION Spec
CONSTANTS
  j1 = j1
  j2 = j2
  j3 = j3
  g1 = g1
  g2 = g2
  Jobs = {j1, j2, j3}
  Gates = {g1}
  FallbackLane = FallbackLane
  NoOne = NoOne
  MaxWorkers = 3
  GlobalLimits = {1, 2}
  ParallelLimits = {1, 3}
  QueueLimits = {0, 1}
  Scopes = {FALSE}
  Endings = {"result", "fatal"}
  Stops = {"loop", "gate", "broker"}
  SubmitMayFail = TRUE
CONSTRAINTS StopsSmall QueueOrParallel ShortOrParallel OneFatal LoopSmall
ACTION_CONSTRAINT StaysStopped
SYMMETRY Symmetry
INVARIANTS
  Accounting NoLostWakeup FatalHasOneOwner
CHECK_DEADLOCK FALSE
