\* One plugin, two generations, one callback per gate, any cancellations, the manifest
\* or the sources edited.
\* Two targets, three posts of which two are pushed, any two faults.
SPECIFICATION MCSpec
CONSTANTS
  NumGens = 2
  NumGates = 3
  MaxCalls = 1
  NumTargets = 2
  MaxPost = 3
  Quakes = {1, 3}
  MaxCrashes = 2
  MaxFailures = 1
  MaxCancels = 1
  MaxCorruptions = 1
  MaxFaults = 2
INVARIANTS
  OneGenerationServes JobsSettle FailedReloadKeepsService
  CursorsSafe AtMostOnce
PROPERTIES
  RestartQuarantineStays WithdrawnLeaves EveryPostSettled
