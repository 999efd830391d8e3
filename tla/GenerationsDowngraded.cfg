\* One partial import whose freeze is cancelled.
SPECIFICATION MCSpec
CONSTANTS
  NumGens = 2
  NumGates = 3
  MaxCalls = 1
  NumTargets = 2
  MaxPost = 1
  Quakes = {1}
  MaxCrashes = 2
  MaxFailures = 1
  MaxCancels = 1
  MaxCorruptions = 1
  MaxFaults = 0
PROPERTIES
  RestartOnlyStays
