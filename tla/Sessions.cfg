\* Two operations on one key, or bulk removal over two, either of which may hold
\* a session, with expiry and cancellation at every suspension; and the lock
\* pool with three tasks, three keys and room for two entries.
SPECIFICATION MCSpec
CONSTANTS
  t1 = t1
  t2 = t2
  t3 = t3
  k1 = k1
  k2 = k2
  k3 = k3
  p1 = p1
  e1 = e1
  e2 = e2
  Tasks = {t1, t2}
  Keys = {k1, k2}
  Plugins = {p1}
  NoTask = NoTask
  NoSession = NoSession
  Operations = {"create", "update", "delete", "get", "cleanup", "clear"}
  MaxSessions = 2
  MayExpire = TRUE
  MayCancel = TRUE
  PoolTasks = {t1, t2, t3}
  PoolKeys = {k1, k2, k3}
  Entries = {e1, e2}
  NoOwner = NoOwner
  NoEntry = NoEntry
  MaxKeys = 2
  MaxDepth = 2
INVARIANTS
  UpdatesIsolated EntriesExact
PROPERTIES
  ImplementsAtomicSessions EveryOperationEnds ImplementsKeyMutex
CHECK_DEADLOCK FALSE
