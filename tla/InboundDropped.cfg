\* A transport task is cancelled after the result of its ticket came.
SPECIFICATION MCSpec
CONSTANTS
  e1 = e1
  e2 = e2
  e3 = e3
  e4 = e4
  k1 = k1
  k2 = k2
  Events = {e1, e2}
  Keys = {k1, k2}
  KeyOf <- MCKeyOf
  NoEvent = NoEvent
  MaxWorkers = 2
  QueueSize = 0
  Endings = {"actions"}
  MaxDisturbances = 0
  Listeners = {"a", "b", "c"}
  Ports <- MCPorts
  First = "a"
  MaxRev = 1
  MaxFaults = 2
  MaxStops = 2
INVARIANTS NoActionsDropped
CHECK_DEADLOCK FALSE
