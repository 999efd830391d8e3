\* Two sessions, two workers and room for two events; one stop or one cancelled worker.
SPECIFICATION MCSpec
CONSTANTS
  e1 = e1
  e2 = e2
  e3 = e3
  e4 = e4
  k1 = k1
  k2 = k2
  Events = {e1, e2, e3}
  Keys = {k1, k2}
  KeyOf <- MCKeyOf
  NoEvent = NoEvent
  MaxWorkers = 2
  QueueSize = 0
  Endings = {"actions"}
  MaxDisturbances = 1
  Listeners = {"a", "b", "c"}
  Ports <- MCPorts
  First = "a"
  MaxRev = 3
  MaxFaults = 2
  MaxStops = 2
INVARIANTS
  LanesExact ActionsAccounted
  OneExecutes NothingLost TokensCurrent SettledAsAsked
PROPERTIES
  ImplementsFifoLanes EveryEventEnds EveryChangeEnds
CHECK_DEADLOCK FALSE
