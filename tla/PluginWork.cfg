\* Gates close or are held and the broker closes, under queued and running work;
\* replies over a connection that is lost or whose credentials change.
SPECIFICATION MCFairSpec
CONSTANTS
  j1 = j1
  j2 = j2
  j3 = j3
  g1 = g1
  g2 = g2
  Jobs = {j1, j2}
  Gates = {g1}
  FallbackLane = FallbackLane
  NoOne = NoOne
  MaxWorkers = 2
  GlobalLimits = {2}
  ParallelLimits = {1}
  QueueLimits = {1}
  Scopes = {TRUE, FALSE}
  Endings = {"result", "fatal"}
  Stops = {"gate", "broker"}
  SubmitMayFail = FALSE
  s1 = s1
  s2 = s2
  s3 = s3
  k1 = k1
  k2 = k2
  Senders = {s1, s2, s3}
  Pieces <- MCPieces
  Patient = {s1, s3}
  Outside = {"entrance", "http"}
  Links = {k1, k2}
  NoLink = NoLink
  MaxRotations = 1
  MaxDrops = 1
  MaxTries = 1
  Scenes = {"alone", "drop", "revoked", "rotation"}
INVARIANTS
  StopsInControl DeliveredAsTold
PROPERTIES
  ImplementsBulkhead EverythingSettles EveryReplyEnds
CHECK_DEADLOCK FALSE
