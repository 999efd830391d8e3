\* A replacement on a port of the current listener fails to start.
SPECIFICATION MCSpec
CONSTANTS
  e1 = e1
  e2 = e2
  e3 = e3
  e4 = e4
  k1 = k1
  k2 = k2
  Events = {e1, e2}
  Keys = {k1, k2}
  KeyOf <- MCKeyOf
  NoEvent = NoEvent
  MaxWorkers = 2
  QueueSize = 0
  Endings = {"actions"}
  MaxDisturbances = 0
  Listeners = {"a", "b", "c"}
  Ports <- MCPorts
  First = "a"
  MaxRev = 2
  MaxFaults = 1
  MaxStops = 0
PROPERTIES FailedSwitchRestores
CHECK_DEADLOCK FALSE
