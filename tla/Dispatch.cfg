\* Four tasks at up to three slots; two messages of one key and two plugins.
SPECIFICATION MCSpec
CONSTANTS
  t1 = t1
  t2 = t2
  t3 = t3
  t4 = t4
  k1 = k1
  k2 = k2
  p1 = p1
  p2 = p2
  Tasks = {t1, t2, t3, t4}
  Capacities = {1, 2, 3}
  Messages = {t1, t2}
  Keys = {k1}
  KeyOf <- MCKeyOf
  Plugins = {p1, p2}
  GateSlots = 1
  NoTask = NoTask
  NoSession = NoSession
  NoGate = NoGate
INVARIANTS
  ContinuationsRight SlotsKept
PROPERTIES
  ImplementsSlotPool EveryMessageEnds
