---------------------------- MODULE SessionProofs ----------------------------
(***************************************************************************)
(* Theorems about the session store and the lock pool under it.            *)
(*                                                                         *)
(* SessionManager, for any number of tasks, keys, plugins and sessions: an *)
(* update is isolated while it is open and leaves nothing when it fails,   *)
(* and every operation happens at one moment.                              *)
(*                                                                         *)
(* KeyedLock, for any number of tasks, keys and entries: the reference     *)
(* counts of the pool are exact, a key has one holder, no waiter is        *)
(* forgotten, and the pool is the KeyMutex that SessionManager relies on.  *)
(***************************************************************************)
EXTENDS SessionManager, KeyedLock, DequeLemmas

-----------------------------------------------------------------------------
(* The session store *)

Transactions == [original : Sessions \cup {NoSession}, working : Sessions \cup {NoSession},
                 stage : {"same", "new", "deleted"}, replaced : BOOLEAN]

StoreTyped ==
  /\ TypeOK
  /\ op \in [Tasks -> Operations] /\ keyOf \in [Tasks -> Keys] /\ pluginOf \in [Tasks -> Plugins]
  /\ txn \in [Tasks -> Transactions]

\* A transaction holds its key, and what it started from is stored there.
KeysHeld ==
  /\ \A t \in Tasks : pc[t] = "callback" =>
       /\ op[t] = "update" /\ holder[keyOf[t]] = t
       /\ Unchanged(t) /\ Present(keyOf[t])
  /\ \A t \in Tasks : callback[t] # "none" => pc[t] = "callback"

\* Only cleanup and clear sweep.
BulkOnly == \A t \in Tasks : pc[t] = "sweeping" \/ todo[t] # {} => op[t] \in Bulk

\* What the working copy of t's transaction is after w changes, as long as
\* nothing was staged and afterwards
WorkingCopy(t, tx, w, ids) ==
  /\ tx.stage = "same" =>
       /\ ~tx.replaced /\ tx.working # NoSession
       /\ tx.working.data = tx.original.data \cup ({t} \X (1..w))
  /\ tx.stage = "new" =>
       /\ tx.replaced /\ tx.working # NoSession
       /\ tx.working.by = t /\ tx.working.data = {}
       /\ tx.working.id > tx.original.id /\ tx.working.id <= ids
  /\ tx.stage = "deleted" => tx.working = NoSession

WorkingCopies ==
  /\ \A t \in Tasks : pc[t] = "callback" => WorkingCopy(t, txn[t], written[t], created)
  /\ \A t \in Tasks : pc[t] # "callback" => written[t] = 0
  /\ \A t \in Tasks : callback[t] = "ok" => written[t] = 2

\* Ids grow.
IdsHold == \A k \in Keys : Present(k) => sessions[k].id <= created

\* An update that has not succeeded, or not yet, has left nothing; one that
\* caught a cancellation does not succeed.
NothingLeft ==
  /\ \A t \in Tasks : op[t] = "update" /\ result[t] # "ok" =>
       \A k \in Keys : Present(k) =>
         sessions[k].data \cap ({t} \X {1, 2}) = {} /\ sessions[k].by # t
  /\ \A t \in Tasks : op[t] = "update" /\ result[t] = "ok" => pc[t] = "done" /\ t \notin caught

StoreInv == StoreTyped /\ KeysHeld /\ BulkOnly /\ WorkingCopies /\ IdsHold /\ NothingLeft

LEMMA SessionFacts ==
  ASSUME StoreInv
  PROVE  /\ NoTask \notin Tasks /\ NoSession \notin Sessions /\ MaxSessions \in Nat
         /\ created \in Nat /\ created <= MaxSessions
         /\ \A t \in Tasks : /\ keyOf[t] \in Keys /\ pluginOf[t] \in Plugins
                             /\ txn[t].original \in Sessions \cup {NoSession}
                             /\ txn[t].working \in Sessions \cup {NoSession}
                             /\ written[t] \in 0..2
         /\ \A k \in Keys : sessions[k] \in Sessions \cup {NoSession}
BY SessionAssumption DEF StoreInv, StoreTyped, TypeOK

\* deque.remove keeps a line a line.
LEMMA WithoutTyped ==
  ASSUME NEW S, NEW s \in Seq(S), NEW e
  PROVE  Without(s, e) \in Seq(S)
<1>1. CASE \E i \in 1..Len(s) : s[i] = e
  <2>1. (CHOOSE i \in 1..Len(s) : s[i] = e) \in 1..Len(s)
    BY <1>1
  <2> QED BY <1>1, <2>1, RemoveAtFacts DEF Without
<1>2. CASE ~\E i \in 1..Len(s) : s[i] = e
  BY <1>2 DEF Without
<1> QED BY <1>1, <1>2

LEMMA LineTyped ==
  ASSUME StoreInv, NEW t \in Tasks, NEW k \in Keys, line' = [line EXCEPT ![k] = Without(@, t)]
  PROVE  line' \in [Keys -> Seq(Tasks)]
<1>1. line \in [Keys -> Seq(Tasks)]
  BY DEF StoreInv, StoreTyped, TypeOK
<1>2. Without(line[k], t) \in Seq(Tasks)
  BY <1>1, WithoutTyped
<1> QED BY <1>1, <1>2

\* What a step may do to the store while keys are held: nothing to those keys,
\* and no trace of an update that has not succeeded.
StoreMoves ==
  /\ sessions' \in [Keys -> Sessions \cup {NoSession}]
  /\ \A k \in expired' : k \in Keys /\ sessions'[k] # NoSession
  /\ created' \in 0..MaxSessions /\ created <= created'
  /\ \A k \in Keys : sessions'[k] # NoSession => sessions'[k].id <= created'
  /\ \A t \in Tasks : op[t] = "update" /\ result[t] # "ok" =>
       \A k \in Keys : sessions'[k] # NoSession =>
         sessions'[k].data \cap ({t} \X {1, 2}) = {} /\ sessions'[k].by # t

HeldStays == \A k \in Keys : holder[k] # NoTask => sessions'[k] = sessions[k]

LEMMA StoreStays ==
  ASSUME StoreInv, UNCHANGED storeVars
  PROVE  StoreMoves /\ HeldStays
BY SessionFacts
   DEF StoreMoves, HeldStays, StoreInv, StoreTyped, TypeOK, IdsHold, NothingLeft, storeVars, Present

LEMMA StoreForgets ==
  ASSUME StoreInv, NEW k \in Keys, Forget(k)
  PROVE  StoreMoves /\ (holder[k] = NoTask => HeldStays)
<1>1. /\ sessions \in [Keys -> Sessions \cup {NoSession}] /\ expired \subseteq {l \in Keys : Present(l)}
      /\ created \in 0..MaxSessions /\ IdsHold /\ NothingLeft
  BY DEF StoreInv, StoreTyped, TypeOK
<1>2. /\ sessions' = [sessions EXCEPT ![k] = NoSession] /\ expired' = expired \ {k}
      /\ created' = created
  BY DEF Forget
<1>3. \A l \in Keys : sessions'[l] = IF l = k THEN NoSession ELSE sessions[l]
  BY <1>1, <1>2
<1>4. sessions' \in [Keys -> Sessions \cup {NoSession}]
  BY <1>1, <1>2
<1>5. \A l \in expired' : l \in Keys /\ sessions'[l] # NoSession
  BY <1>1, <1>2, <1>3 DEF Present
<1>6. \A l \in Keys : sessions'[l] # NoSession => sessions'[l].id <= created'
  BY <1>1, <1>2, <1>3 DEF Present, IdsHold
<1>7. \A t \in Tasks : op[t] = "update" /\ result[t] # "ok" =>
        \A l \in Keys : sessions'[l] # NoSession =>
          sessions'[l].data \cap ({t} \X {1, 2}) = {} /\ sessions'[l].by # t
  BY <1>1, <1>3 DEF Present, NothingLeft
<1>8. holder[k] = NoTask => HeldStays
  BY <1>3 DEF HeldStays
<1> QED BY <1>1, <1>2, <1>4, <1>5, <1>6, <1>7, <1>8, SessionFacts DEF StoreMoves

\* A session is stored for k whose data and maker are no failed update's.
LEMMA StoreStores ==
  ASSUME StoreInv, NEW k \in Keys, NEW s \in Sessions, Store(k, s),
         created' \in 0..MaxSessions, created <= created', s.id <= created',
         \A t \in Tasks : op[t] = "update" /\ result[t] # "ok" =>
           s.data \cap ({t} \X {1, 2}) = {} /\ s.by # t
  PROVE  StoreMoves /\ (holder[k] = NoTask => HeldStays)
<1>1. /\ sessions \in [Keys -> Sessions \cup {NoSession}] /\ expired \subseteq {l \in Keys : Present(l)}
      /\ created \in 0..MaxSessions /\ IdsHold /\ NothingLeft
  BY DEF StoreInv, StoreTyped, TypeOK
<1>2. sessions' = [sessions EXCEPT ![k] = s] /\ expired' = expired \ {k}
  BY DEF Store
<1>3. \A l \in Keys : sessions'[l] = IF l = k THEN s ELSE sessions[l]
  BY <1>1, <1>2
<1>4. sessions' \in [Keys -> Sessions \cup {NoSession}] /\ s # NoSession
  BY <1>1, <1>2, SessionFacts
<1>5. \A l \in expired' : l \in Keys /\ sessions'[l] # NoSession
  BY <1>1, <1>2, <1>3 DEF Present
<1>6. \A l \in Keys : sessions'[l] # NoSession => sessions'[l].id <= created'
  <2>1. \A l \in Keys : sessions[l] # NoSession => sessions[l].id <= created /\ sessions[l].id \in Nat
    BY <1>1, SessionFacts DEF Present, IdsHold, Sessions
  <2>2. created \in Nat /\ created' \in Nat
    BY SessionFacts
  <2> QED BY <1>3, <2>1, <2>2
<1>7. \A t \in Tasks : op[t] = "update" /\ result[t] # "ok" =>
        \A l \in Keys : sessions'[l] # NoSession =>
          sessions'[l].data \cap ({t} \X {1, 2}) = {} /\ sessions'[l].by # t
  BY <1>1, <1>3 DEF Present, NothingLeft
<1>8. holder[k] = NoTask => HeldStays
  BY <1>3 DEF HeldStays
<1> QED BY <1>4, <1>5, <1>6, <1>7, <1>8 DEF StoreMoves

\* A step of a task that is in no transaction, before and after
LEMMA OutsideKeeps ==
  ASSUME StoreInv, StoreMoves, HeldStays, NEW t \in Tasks, pc[t] \notin {"callback", "done"},
         NEW x \in {"ready", "waiting", "sweeping", "done"}, pc' = [pc EXCEPT ![t] = x],
         NEW y \in {"none", "ok", "absent", "error", "cancelled"}, result' = [result EXCEPT ![t] = y],
         y = "ok" => op[t] # "update",
         UNCHANGED <<holder, op, pluginOf, cbVars, caught>>,
         line' \in [Keys -> Seq(Tasks)],
         todo' \in [Tasks -> SUBSET Keys], \A u \in Tasks : todo'[u] # {} => op[u] \in Bulk,
         x = "sweeping" => op[t] \in Bulk,
         keyOf' \in [Tasks -> Keys], \A u \in Tasks \ {t} : keyOf'[u] = keyOf[u],
         cancelled' \subseteq Tasks
  PROVE  StoreInv'
<1>1. StoreTyped /\ TypeOK /\ KeysHeld /\ BulkOnly /\ WorkingCopies /\ NothingLeft
  BY DEF StoreInv, StoreTyped
<1>2. UNCHANGED <<txn, callback, written, cbCancel>>
  BY DEF cbVars
<1>3. /\ pc' \in [Tasks -> {"ready", "waiting", "callback", "sweeping", "done"}]
      /\ \A u \in Tasks : pc'[u] = IF u = t THEN x ELSE pc[u]
      /\ result' \in [Tasks -> {"none", "ok", "absent", "error", "cancelled"}]
      /\ \A u \in Tasks : result'[u] = IF u = t THEN y ELSE result[u]
  BY <1>1 DEF TypeOK
<1>4. StoreTyped'
  <2>1. expired' \subseteq {k \in Keys : sessions'[k] # NoSession}
    BY DEF StoreMoves
  <2>2. \A u \in Tasks : {txn'[u].original, txn'[u].working} \subseteq Sessions \cup {NoSession}
    BY <1>1, <1>2 DEF TypeOK
  <2> QED BY <1>1, <1>2, <1>3, <2>1, <2>2 DEF StoreTyped, TypeOK, StoreMoves, Present
<1>5. KeysHeld'
  <2>1. ASSUME NEW u \in Tasks, pc'[u] = "callback"
        PROVE  /\ op'[u] = "update" /\ holder'[keyOf'[u]] = u
               /\ sessions'[keyOf'[u]] = txn'[u].original /\ sessions'[keyOf'[u]] # NoSession
    <3>1. u # t /\ pc[u] = "callback" /\ keyOf'[u] = keyOf[u] /\ keyOf[u] \in Keys
      BY <1>3, <2>1, SessionFacts
    <3>2. sessions'[keyOf[u]] = sessions[keyOf[u]]
      <4>1. holder[keyOf[u]] = u /\ u # NoTask
        BY <1>1, <3>1, SessionFacts DEF KeysHeld
      <4> QED BY <3>1, <4>1 DEF HeldStays
    <3> QED BY <1>1, <1>2, <3>1, <3>2 DEF KeysHeld, Unchanged, Present
  <2>2. \A u \in Tasks : callback'[u] # "none" => pc'[u] = "callback"
    BY <1>1, <1>2, <1>3 DEF KeysHeld
  <2> QED BY <2>1, <2>2 DEF KeysHeld, Unchanged, Present
<1>6. WorkingCopies'
  <2>1. created \in Nat /\ created' \in Nat /\ created <= created'
    BY SessionFacts DEF StoreMoves
  <2>2. \A u \in Tasks : txn[u].working # NoSession => txn[u].working.id \in Nat
    BY SessionFacts DEF Sessions
  <2>3. \A u \in Tasks : pc'[u] = "callback" <=> pc[u] = "callback"
    BY <1>3
  <2> QED BY <1>1, <1>2, <2>1, <2>2, <2>3 DEF WorkingCopies, WorkingCopy
<1>7. IdsHold'
  BY DEF IdsHold, StoreMoves, Present
<1>8. NothingLeft'
  <2>1. \A u \in Tasks : op'[u] = "update" /\ result'[u] # "ok" => op[u] = "update" /\ result[u] # "ok"
    BY <1>1, <1>3 DEF NothingLeft
  <2>2. \A u \in Tasks : op'[u] = "update" /\ result'[u] = "ok" => pc'[u] = "done" /\ u \notin caught'
    BY <1>1, <1>3 DEF NothingLeft
  <2> QED BY <2>1, <2>2 DEF NothingLeft, StoreMoves, Present
<1>9. BulkOnly'
  BY <1>1, <1>3 DEF BulkOnly
<1> QED BY <1>4, <1>5, <1>6, <1>7, <1>8, <1>9 DEF StoreInv

\* A task that has its turn is outside, and nobody is inside.
LEMMA TurnFacts ==
  ASSUME StoreInv, NEW t \in Tasks, NEW k \in Keys, Turn(t, k)
  PROVE  holder[k] = NoTask
BY DEF Turn

\* An operation on one key that ends in the step in which it gets the key
LEMMA ShortKeeps ==
  ASSUME StoreInv, NEW t \in Tasks, HasKey(t),
         NEW y \in {"ok", "absent"}, Done(t, y), y = "ok" => op[t] # "update",
         StoreMoves, HeldStays,
         UNCHANGED <<holder, askVars, todo, cbVars, cancelled, caught>>
  PROVE  StoreInv'
<1>1. /\ pc[t] \in {"ready", "waiting"} /\ line' = [line EXCEPT ![keyOf[t]] = Without(@, t)]
      /\ pc' = [pc EXCEPT ![t] = "done"] /\ result' = [result EXCEPT ![t] = y]
  BY DEF HasKey, InTurn, Done
<1>2. line' \in [Keys -> Seq(Tasks)]
  BY <1>1, LineTyped, SessionFacts
<1>3. /\ UNCHANGED <<op, keyOf, pluginOf, todo>>
      /\ todo \in [Tasks -> SUBSET Keys] /\ keyOf \in [Tasks -> Keys] /\ cancelled \subseteq Tasks
      /\ \A u \in Tasks : todo[u] # {} => op[u] \in Bulk
  BY DEF askVars, StoreInv, StoreTyped, TypeOK, BulkOnly
<1> QED BY <1>1, <1>2, <1>3, OutsideKeeps

LEMMA CreateKeeps ==
  ASSUME StoreInv, NEW t \in Tasks, Create(t)
  PROVE  StoreInv'
<1> DEFINE k == keyOf[t]
           s == NewSession(t, pluginOf[t])
<1>1. /\ op[t] = "create" /\ created < MaxSessions /\ HasKey(t) /\ Store(k, s)
      /\ created' = created + 1 /\ Done(t, "ok") /\ k \in Keys
      /\ UNCHANGED <<holder, askVars, todo, cbVars, cancelled, caught>>
  BY SessionFacts DEF Create
<1>2. s \in Sessions /\ s.id = created + 1 /\ s.data = {} /\ s.by = t
  BY <1>1, SessionFacts DEF NewSession, Sessions
<1> HIDE DEF s, k
<1>3. StoreMoves /\ (holder[k] = NoTask => HeldStays)
  <2>1. /\ created' \in 0..MaxSessions /\ created <= created' /\ s.id <= created'
    BY <1>1, <1>2, SessionFacts
  <2>2. \A u \in Tasks : op[u] = "update" => s.data \cap ({u} \X {1, 2}) = {} /\ s.by # u
    BY <1>1, <1>2
  <2> QED BY <1>1, <1>2, <2>1, <2>2, StoreStores
<1>4. holder[k] = NoTask
  BY <1>1 DEF HasKey, Turn, k
<1> QED BY <1>1, <1>3, <1>4, ShortKeeps

\* get, peek, delete and an update without a session: they drop a session, or
\* change nothing.
LEMMA DropsOrNot ==
  ASSUME StoreInv, NEW t \in Tasks, HasKey(t), Forget(keyOf[t]) \/ UNCHANGED storeVars
  PROVE  StoreMoves /\ HeldStays
<1>1. holder[keyOf[t]] = NoTask /\ keyOf[t] \in Keys
  BY SessionFacts DEF HasKey, Turn
<1> QED BY <1>1, StoreForgets, StoreStays

LEMMA ReadKeeps ==
  ASSUME StoreInv, NEW t \in Tasks, Read(t)
  PROVE  StoreInv'
<1>1. /\ op[t] # "update" /\ HasKey(t) /\ (Forget(keyOf[t]) \/ UNCHANGED storeVars)
      /\ UNCHANGED <<holder, askVars, todo, cbVars, cancelled, caught>>
  BY DEF Read
<1>2. PICK y \in {"ok", "absent"} : Done(t, y)
  BY DEF Read
<1> QED BY <1>1, <1>2, DropsOrNot, ShortKeeps

LEMMA DeleteKeeps ==
  ASSUME StoreInv, NEW t \in Tasks, Delete(t)
  PROVE  StoreInv'
<1>1. /\ op[t] # "update" /\ HasKey(t) /\ (Forget(keyOf[t]) \/ UNCHANGED storeVars)
      /\ UNCHANGED <<holder, askVars, todo, cbVars, cancelled, caught>>
  BY DEF Delete
<1>2. PICK y \in {"ok", "absent"} : Done(t, y)
  BY DEF Delete
<1> QED BY <1>1, <1>2, DropsOrNot, ShortKeeps

LEMMA UpdateAbsentKeeps ==
  ASSUME StoreInv, NEW t \in Tasks, UpdateAbsent(t)
  PROVE  StoreInv'
<1>1. /\ HasKey(t) /\ (Forget(keyOf[t]) \/ UNCHANGED storeVars) /\ Done(t, "absent")
      /\ UNCHANGED <<holder, askVars, todo, cbVars, cancelled, caught>>
  BY DEF UpdateAbsent
<1> QED BY <1>1, DropsOrNot, ShortKeeps

\* A task that is not in a transaction and whose result stays
LEMMA WaitingKeeps ==
  ASSUME StoreInv, StoreMoves, HeldStays, NEW t \in Tasks, pc[t] \notin {"callback", "done"},
         NEW x \in {"waiting", "sweeping"}, pc' = [pc EXCEPT ![t] = x],
         UNCHANGED <<holder, op, pluginOf, cbVars, endVars>>,
         line' \in [Keys -> Seq(Tasks)],
         todo' \in [Tasks -> SUBSET Keys], \A u \in Tasks : todo'[u] # {} => op[u] \in Bulk,
         x = "sweeping" => op[t] \in Bulk,
         keyOf' \in [Tasks -> Keys], \A u \in Tasks \ {t} : keyOf'[u] = keyOf[u]
  PROVE  StoreInv'
<1>1. /\ result \in [Tasks -> {"none", "ok", "absent", "error", "cancelled"}]
      /\ cancelled \subseteq Tasks /\ NothingLeft
  BY DEF StoreInv, StoreTyped, TypeOK
<1>2. PICK y \in {"none", "ok", "absent", "error", "cancelled"} : y = result[t]
  BY <1>1
<1>3. result' = [result EXCEPT ![t] = y] /\ UNCHANGED <<cancelled, caught>>
  BY <1>1, <1>2 DEF endVars
<1>4. y = "ok" => op[t] # "update"
  BY <1>1, <1>2 DEF NothingLeft
<1> QED BY <1>1, <1>3, <1>4, OutsideKeeps

LEMMA WaitKeeps ==
  ASSUME StoreInv, NEW t \in Tasks, NEW k \in Keys, Wait(t, k)
  PROVE  StoreInv'
<1>1. /\ line \in [Keys -> Seq(Tasks)] /\ keyOf \in [Tasks -> Keys] /\ todo \in [Tasks -> SUBSET Keys]
      /\ \A u \in Tasks : todo[u] # {} => op[u] \in Bulk
  BY DEF StoreInv, StoreTyped, TypeOK, BulkOnly
<1>2. /\ pc[t] \in {"ready", "sweeping"} /\ pc' = [pc EXCEPT ![t] = "waiting"]
      /\ keyOf' = [keyOf EXCEPT ![t] = k] /\ line' = [line EXCEPT ![k] = Append(@, t)]
      /\ UNCHANGED <<storeVars, holder, op, pluginOf, todo, cbVars, endVars>>
  BY DEF Wait
<1>3. line' \in [Keys -> Seq(Tasks)]
  <2>1. Append(line[k], t) \in Seq(Tasks)
    BY <1>1, AppendFacts
  <2> QED BY <1>1, <1>2, <2>1
<1>4. keyOf' \in [Tasks -> Keys] /\ \A u \in Tasks \ {t} : keyOf'[u] = keyOf[u]
  BY <1>1, <1>2
<1>5. StoreMoves /\ HeldStays
  BY <1>2, StoreStays
<1> QED BY <1>1, <1>2, <1>3, <1>4, <1>5, WaitingKeeps

LEMMA SweepBeginKeeps ==
  ASSUME StoreInv, NEW t \in Tasks, SweepBegin(t)
  PROVE  StoreInv'
<1>1. /\ pc[t] = "ready" /\ pc' = [pc EXCEPT ![t] = "sweeping"]
      /\ todo' = [todo EXCEPT ![t] = {k \in Keys : Present(k)}]
      /\ UNCHANGED <<storeVars, line, holder, op, keyOf, pluginOf, cbVars, endVars>>
  BY DEF SweepBegin, lockVars, askVars
<1>2. /\ line' \in [Keys -> Seq(Tasks)] /\ keyOf' \in [Tasks -> Keys]
      /\ todo' \in [Tasks -> SUBSET Keys] /\ op[t] \in Bulk
      /\ \A u \in Tasks : todo'[u] # {} => op[u] \in Bulk
  BY <1>1 DEF StoreInv, StoreTyped, TypeOK, BulkOnly, SweepBegin
<1>3. StoreMoves /\ HeldStays
  BY <1>1, StoreStays
<1> QED BY <1>1, <1>2, <1>3, WaitingKeeps

LEMMA SweepKeyKeeps ==
  ASSUME StoreInv, NEW t \in Tasks, NEW k \in Keys, SweepKey(t, k)
  PROVE  StoreInv'
<1>1. /\ pc[t] \in {"sweeping", "waiting"} /\ pc' = [pc EXCEPT ![t] = "sweeping"]
      /\ Turn(t, k) /\ line' = [line EXCEPT ![k] = Without(@, t)]
      /\ todo' = [todo EXCEPT ![t] = @ \ {k}]
      /\ (Forget(k) \/ UNCHANGED storeVars)
      /\ UNCHANGED <<holder, op, keyOf, pluginOf, cbVars, endVars>>
  BY DEF SweepKey, InTurn, askVars
<1>2. line' \in [Keys -> Seq(Tasks)]
  BY <1>1, LineTyped
<1>3. /\ keyOf' \in [Tasks -> Keys] /\ todo' \in [Tasks -> SUBSET Keys] /\ op[t] \in Bulk
      /\ \A u \in Tasks : todo'[u] # {} => op[u] \in Bulk
  BY <1>1 DEF StoreInv, StoreTyped, TypeOK, BulkOnly, SweepKey
<1>4. StoreMoves /\ HeldStays
  BY <1>1, TurnFacts, StoreForgets, StoreStays
<1> QED BY <1>1, <1>2, <1>3, <1>4, WaitingKeeps

LEMMA SweepEndKeeps ==
  ASSUME StoreInv, NEW t \in Tasks, SweepEnd(t)
  PROVE  StoreInv'
<1>1. /\ pc[t] = "sweeping" /\ pc' = [pc EXCEPT ![t] = "done"] /\ result' = [result EXCEPT ![t] = "ok"]
      /\ UNCHANGED <<storeVars, line, holder, op, keyOf, pluginOf, todo, cbVars, cancelled, caught>>
  BY DEF SweepEnd, Done, lockVars, askVars
<1>2. /\ line' \in [Keys -> Seq(Tasks)] /\ keyOf' \in [Tasks -> Keys]
      /\ todo' \in [Tasks -> SUBSET Keys] /\ cancelled' \subseteq Tasks
      /\ \A u \in Tasks : todo'[u] # {} => op[u] \in Bulk
  BY <1>1 DEF StoreInv, StoreTyped, TypeOK, BulkOnly
<1>3. StoreMoves /\ HeldStays
  BY <1>1, StoreStays
<1>4. op[t] # "update"
  BY <1>1 DEF Bulk, StoreInv, BulkOnly
<1> QED BY <1>1, <1>2, <1>3, <1>4, OutsideKeeps

LEMMA CancelledWaitingKeeps ==
  ASSUME StoreInv, NEW t \in Tasks, CancelledWaiting(t)
  PROVE  StoreInv'
<1>1. /\ pc[t] = "waiting" /\ pc' = [pc EXCEPT ![t] = "done"]
      /\ result' = [result EXCEPT ![t] = "cancelled"]
      /\ line' = [line EXCEPT ![keyOf[t]] = Without(@, t)] /\ cancelled' = cancelled \ {t}
      /\ UNCHANGED <<storeVars, holder, op, keyOf, pluginOf, todo, cbVars, caught>>
  BY DEF CancelledWaiting, Done, askVars
<1>2. line' \in [Keys -> Seq(Tasks)]
  BY <1>1, LineTyped, SessionFacts
<1>3. /\ keyOf' \in [Tasks -> Keys] /\ todo' \in [Tasks -> SUBSET Keys] /\ cancelled' \subseteq Tasks
      /\ \A u \in Tasks : todo'[u] # {} => op[u] \in Bulk
  BY <1>1 DEF StoreInv, StoreTyped, TypeOK, BulkOnly
<1>4. StoreMoves /\ HeldStays
  BY <1>1, StoreStays
<1> QED BY <1>1, <1>2, <1>3, <1>4, OutsideKeeps

LEMMA CancelKeeps ==
  ASSUME StoreInv, NEW t \in Tasks, Cancel(t)
  PROVE  StoreInv'
<1>1. /\ cancelled' = cancelled \cup {t}
      /\ UNCHANGED <<sessions, expired, created, holder, line, pc, op, keyOf, pluginOf, todo,
                     txn, callback, written, cbCancel, caught, result>>
  BY DEF Cancel, storeVars, lockVars, askVars, cbVars
<1>2. StoreTyped'
  BY <1>1 DEF StoreInv, StoreTyped, TypeOK, Present
<1>3. /\ KeysHeld' /\ BulkOnly'
  BY <1>1 DEF StoreInv, KeysHeld, BulkOnly, Unchanged, Present
<1>4. WorkingCopies' /\ IdsHold' /\ NothingLeft'
  BY <1>1 DEF StoreInv, WorkingCopies, IdsHold, NothingLeft, Present
<1> QED BY <1>2, <1>3, <1>4 DEF StoreInv

LEMMA ExpireKeeps ==
  ASSUME StoreInv, NEW k \in Keys, Expire(k)
  PROVE  StoreInv'
<1>1. /\ Present(k) /\ expired' = expired \cup {k}
      /\ UNCHANGED <<sessions, created, holder, line, pc, op, keyOf, pluginOf, todo,
                     txn, callback, written, cbCancel, cancelled, caught, result>>
  BY DEF Expire, Alive, lockVars, askVars, cbVars, endVars
<1>2. StoreTyped'
  BY <1>1 DEF StoreInv, StoreTyped, TypeOK, Present
<1>3. KeysHeld' /\ BulkOnly'
  BY <1>1 DEF StoreInv, KeysHeld, BulkOnly, Unchanged, Present
<1>4. WorkingCopies' /\ IdsHold' /\ NothingLeft'
  BY <1>1 DEF StoreInv, WorkingCopies, IdsHold, NothingLeft, Present
<1> QED BY <1>2, <1>3, <1>4 DEF StoreInv

(* Inside a transaction *)

\* A task that meets nothing of an open transaction's key may begin one.
LEMMA UpdateBeginKeeps ==
  ASSUME StoreInv, NEW t \in Tasks, UpdateBegin(t)
  PROVE  StoreInv'
<1>1. PICK k \in Keys : k = keyOf[t]
  BY SessionFacts
<1>2. PICK s \in Sessions : s = sessions[k]
  BY <1>1, SessionFacts DEF UpdateBegin, Alive, Present
<1>3. PICK tx \in Transactions : tx = [NoTxn EXCEPT !.original = s, !.working = s]
  BY DEF NoTxn, Transactions
<1>4. tx.original = s /\ tx.working = s /\ tx.stage = "same" /\ ~tx.replaced
  BY <1>3 DEF NoTxn
<1>5. /\ op[t] = "update" /\ pc[t] \in {"ready", "waiting"} /\ holder[k] = NoTask
      /\ line' = [line EXCEPT ![k] = Without(@, t)] /\ holder' = [holder EXCEPT ![k] = t]
      /\ pc' = [pc EXCEPT ![t] = "callback"] /\ txn' = [txn EXCEPT ![t] = tx]
      /\ callback' = [callback EXCEPT ![t] = "running"]
      /\ UNCHANGED <<sessions, expired, created, op, keyOf, pluginOf, todo, written, cbCancel,
                     cancelled, caught, result>>
  BY <1>1, <1>2, <1>3
     DEF UpdateBegin, HasKey, Turn, InTurn, storeVars, askVars, endVars
<1>6. StoreTyped /\ TypeOK /\ KeysHeld /\ BulkOnly /\ WorkingCopies /\ IdsHold /\ NothingLeft
  BY DEF StoreInv, StoreTyped
<1>7. \A u \in Tasks : /\ pc'[u] = IF u = t THEN "callback" ELSE pc[u]
                       /\ txn'[u] = IF u = t THEN tx ELSE txn[u]
                       /\ callback'[u] = IF u = t THEN "running" ELSE callback[u]
  BY <1>5, <1>6 DEF StoreTyped, TypeOK
<1>8. StoreTyped'
  <2>1. line' \in [Keys -> Seq(Tasks)]
    BY <1>5, LineTyped
  <2>2. txn' \in [Tasks -> Transactions]
    BY <1>5, <1>6 DEF StoreTyped, Transactions
  <2>3. \A u \in Tasks : {txn'[u].original, txn'[u].working} \subseteq Sessions \cup {NoSession}
    BY <2>2 DEF Transactions
  <2>4. /\ holder' \in [Keys -> Tasks \cup {NoTask}]
        /\ pc' \in [Tasks -> {"ready", "waiting", "callback", "sweeping", "done"}]
        /\ callback' \in [Tasks -> {"none", "running", "ok", "error", "invalid", "cancelled"}]
    BY <1>5, <1>6 DEF TypeOK
  <2> QED BY <1>5, <1>6, <2>1, <2>2, <2>3, <2>4 DEF StoreTyped, TypeOK, Present, Transactions
<1>9. KeysHeld'
  <2>1. \A l \in Keys : holder'[l] = IF l = k THEN t ELSE holder[l]
    BY <1>5, <1>6 DEF TypeOK
  <2>2. \A u \in Tasks \ {t} : pc[u] = "callback" => keyOf[u] # k
    BY <1>5, <1>6, SessionFacts DEF KeysHeld
  <2> QED BY <1>1, <1>2, <1>4, <1>5, <1>6, <1>7, <2>1, <2>2, SessionFacts
          DEF KeysHeld, Unchanged, Present
<1>10. BulkOnly'
  BY <1>5, <1>6, <1>7 DEF BulkOnly
<1>11. WorkingCopies'
  <2>1. written[t] = 0 /\ 1..0 = {}
    BY <1>5, <1>6 DEF WorkingCopies
  <2>2. s # NoSession /\ s.data = s.data \cup ({t} \X (1..written[t]))
    BY <2>1, SessionFacts
  <2>3. callback'[t] # "ok"
    BY <1>7
  <2> QED BY <1>4, <1>5, <1>6, <1>7, <2>2, <2>3 DEF WorkingCopies, WorkingCopy
<1>12. IdsHold' /\ NothingLeft'
  BY <1>5, <1>6, <1>7 DEF IdsHold, NothingLeft, Present
<1> QED BY <1>8, <1>9, <1>10, <1>11, <1>12 DEF StoreInv

\* A callback changes its own transaction only.
InsideMove(t, tx, w, c, d) ==
  /\ txn' = [txn EXCEPT ![t] = tx] /\ tx.original = txn[t].original
  /\ written' = [written EXCEPT ![t] = w]
  /\ callback' = [callback EXCEPT ![t] = c] /\ (c = "ok" => w = 2)
  /\ cbCancel' = [cbCancel EXCEPT ![t] = d]
  /\ created' \in 0..MaxSessions /\ created <= created'
  /\ WorkingCopy(t, tx, w, created')
  /\ UNCHANGED <<sessions, expired, lockVars, pc, askVars, todo, endVars>>

LEMMA InsideKeeps ==
  ASSUME StoreInv, NEW t \in Tasks, pc[t] = "callback",
         NEW tx \in Transactions, NEW w \in 0..2,
         NEW c \in {"running", "ok", "error", "invalid", "cancelled"},
         NEW d \in {"none", "pending", "taken"}, InsideMove(t, tx, w, c, d)
  PROVE  StoreInv'
<1> USE DEF InsideMove, lockVars, askVars, endVars
<1>1. StoreTyped /\ TypeOK /\ KeysHeld /\ BulkOnly /\ WorkingCopies /\ IdsHold /\ NothingLeft
  BY DEF StoreInv, StoreTyped
<1>2. \A u \in Tasks : /\ txn'[u] = IF u = t THEN tx ELSE txn[u]
                       /\ written'[u] = IF u = t THEN w ELSE written[u]
                       /\ callback'[u] = IF u = t THEN c ELSE callback[u]
  BY <1>1 DEF StoreTyped, TypeOK
<1>3. StoreTyped'
  <2>1. txn' \in [Tasks -> Transactions]
    BY <1>1 DEF StoreTyped, Transactions
  <2>2. \A u \in Tasks : {txn'[u].original, txn'[u].working} \subseteq Sessions \cup {NoSession}
    BY <2>1 DEF Transactions
  <2>3. /\ written' \in [Tasks -> 0..2] /\ cbCancel' \in [Tasks -> {"none", "pending", "taken"}]
        /\ callback' \in [Tasks -> {"none", "running", "ok", "error", "invalid", "cancelled"}]
    BY <1>1 DEF TypeOK
  <2> QED BY <1>1, <2>1, <2>2, <2>3 DEF StoreTyped, TypeOK, Present, Transactions
<1>4. KeysHeld'
  BY <1>1, <1>2 DEF KeysHeld, Unchanged, Present
<1>5. BulkOnly'
  BY <1>1 DEF BulkOnly
<1>6. created \in Nat /\ created' \in Nat
  BY SessionFacts
<1>7. WorkingCopies'
  <2>1. \A u \in Tasks : txn[u].working # NoSession => txn[u].working.id \in Nat
    BY SessionFacts DEF Sessions
  <2>2. ASSUME NEW u \in Tasks, pc'[u] = "callback"
        PROVE  WorkingCopy(u, txn'[u], written'[u], created')
    <3>1. CASE u = t
      BY <1>2, <3>1
    <3>2. CASE u # t
      BY <1>1, <1>2, <1>6, <2>1, <2>2, <3>2 DEF WorkingCopies, WorkingCopy
    <3> QED BY <3>1, <3>2
  <2>3. \A u \in Tasks : pc'[u] # "callback" => written'[u] = 0
    BY <1>1, <1>2 DEF WorkingCopies
  <2>4. \A u \in Tasks : callback'[u] = "ok" => written'[u] = 2
    BY <1>1, <1>2 DEF WorkingCopies
  <2> QED BY <2>2, <2>3, <2>4 DEF WorkingCopies
<1>8. IdsHold'
  <2>1. \A k \in Keys : Present(k) => sessions[k].id \in Nat
    BY SessionFacts DEF Present, Sessions
  <2> QED BY <1>1, <1>6, <2>1 DEF IdsHold, Present
<1>9. NothingLeft'
  <2>1. op[t] = "update" => result[t] # "ok"
    BY <1>1 DEF NothingLeft
  <2> QED BY <1>1, <2>1 DEF NothingLeft, Present
<1> QED BY <1>3, <1>4, <1>5, <1>7, <1>8, <1>9 DEF StoreInv

LEMMA ForwardCancelKeeps ==
  ASSUME StoreInv, NEW t \in Tasks, ForwardCancel(t)
  PROVE  StoreInv'
<1>1. /\ pc[t] = "callback" /\ ~Ended(t)
      /\ cancelled' = cancelled \ {t} /\ caught' = caught \cup {t}
      /\ cbCancel' = [cbCancel EXCEPT ![t] = "pending"]
      /\ UNCHANGED <<sessions, expired, created, holder, line, pc, op, keyOf, pluginOf, todo,
                     txn, callback, written, result>>
  BY DEF ForwardCancel, storeVars, lockVars, askVars
<1>2. StoreTyped /\ TypeOK /\ KeysHeld /\ BulkOnly /\ WorkingCopies /\ IdsHold /\ NothingLeft
  BY DEF StoreInv, StoreTyped
<1>3. StoreTyped'
  BY <1>1, <1>2 DEF StoreTyped, TypeOK, Present
<1>4. KeysHeld' /\ BulkOnly' /\ WorkingCopies' /\ IdsHold'
  BY <1>1, <1>2 DEF KeysHeld, BulkOnly, WorkingCopies, IdsHold, Unchanged, Present
<1>5. NothingLeft'
  <2>1. op[t] = "update" => result[t] # "ok"
    BY <1>1, <1>2 DEF NothingLeft
  <2> QED BY <1>1, <1>2, <2>1 DEF NothingLeft, Present
<1> QED BY <1>3, <1>4, <1>5 DEF StoreInv

\* What a callback finds: its transaction is open.
LEMMA OpenFacts ==
  ASSUME StoreInv, NEW t \in Tasks, callback[t] # "none"
  PROVE  /\ pc[t] = "callback" /\ op[t] = "update" /\ result[t] # "ok"
         /\ txn[t] \in Transactions /\ txn[t].original \in Sessions
         /\ txn[t].original = sessions[keyOf[t]] /\ txn[t].original.id <= created
         /\ WorkingCopy(t, txn[t], written[t], created)
<1>1. StoreTyped /\ KeysHeld /\ WorkingCopies /\ IdsHold /\ NothingLeft
  BY DEF StoreInv
<1>2. /\ pc[t] = "callback" /\ op[t] = "update"
      /\ sessions[keyOf[t]] = txn[t].original /\ sessions[keyOf[t]] # NoSession
  BY <1>1 DEF KeysHeld, Unchanged, Present
<1>3. result[t] # "ok"
  BY <1>1, <1>2 DEF NothingLeft
<1>4. txn[t] \in Transactions
  BY <1>1 DEF StoreTyped, Transactions
<1>5. txn[t].original \in Sessions /\ txn[t].original.id <= created
  BY <1>1, <1>2, SessionFacts DEF IdsHold, Present
<1> QED BY <1>1, <1>2, <1>3, <1>4, <1>5 DEF WorkingCopies

\* Whatever a callback does leaves alone what it does not name.
LEMMA InsideTypes ==
  ASSUME StoreInv
  PROVE  /\ callback \in [Tasks -> {"none", "running", "ok", "error", "invalid", "cancelled"}]
         /\ cbCancel \in [Tasks -> {"none", "pending", "taken"}] /\ written \in [Tasks -> 0..2]
         /\ txn \in [Tasks -> Transactions] /\ created \in 0..MaxSessions
BY DEF StoreInv, StoreTyped, TypeOK, Transactions

LEMMA CallbackWritesKeeps ==
  ASSUME StoreInv, NEW t \in Tasks, CallbackWrites(t)
  PROVE  StoreInv'
<1>1. /\ callback[t] = "running" /\ written[t] \in 0..1
      /\ written' = [written EXCEPT ![t] = written[t] + 1]
      /\ UNCHANGED <<storeVars, lockVars, pc, askVars, todo, callback, cbCancel, endVars>>
  BY SessionFacts DEF CallbackWrites
<1>2. PICK o \in Transactions : o = txn[t]
  BY <1>1, OpenFacts
<1>3. PICK w \in 1..2 : w = written[t] + 1
  BY <1>1
<1>4. pc[t] = "callback" /\ o.original \in Sessions /\ WorkingCopy(t, o, written[t], created)
  BY <1>1, <1>2, OpenFacts
<1>5. PICK d \in {"none", "pending", "taken"} : d = cbCancel[t]
  BY InsideTypes
<1>6. /\ written' = [written EXCEPT ![t] = w]
      /\ callback' = [callback EXCEPT ![t] = "running"] /\ cbCancel' = [cbCancel EXCEPT ![t] = d]
      /\ created' \in 0..MaxSessions /\ created <= created'
  BY <1>1, <1>3, <1>5, InsideTypes, SessionFacts DEF storeVars
<1>7. NoSession \notin Sessions
  BY SessionFacts
<1>8. CASE o.stage = "same"
  <2>1. o.working \in Sessions /\ ~o.replaced /\ o.working.data = o.original.data \cup ({t} \X (1..written[t]))
    BY <1>4, <1>8 DEF WorkingCopy, Transactions
  <2> DEFINE changed == [o.working EXCEPT !.data = @ \cup {<<t, w>>}]
             tx == [o EXCEPT !.working = changed]
  <2>2. changed \in Sessions /\ changed.data = o.working.data \cup {<<t, w>>}
    BY <2>1 DEF Sessions
  <2>3. txn' = [txn EXCEPT ![t] = tx]
    BY <1>2, <1>3, <1>8, InsideTypes DEF CallbackWrites, changed, Transactions
  <2> HIDE DEF changed
  <2>4. /\ tx \in Transactions
        /\ tx.original = o.original /\ tx.stage = "same" /\ ~tx.replaced /\ tx.working = changed
    BY <1>8, <2>1, <2>2 DEF Transactions
  <2>5. changed.data = o.original.data \cup ({t} \X (1..w))
    <3>1. 1..w = (1..written[t]) \cup {w}
      BY <1>1, <1>3
    <3> QED BY <2>1, <2>2, <3>1
  <2> HIDE DEF tx
  <2>6. WorkingCopy(t, tx, w, created')
    BY <1>7, <2>2, <2>4, <2>5 DEF WorkingCopy
  <2>7. InsideMove(t, tx, w, "running", d)
    BY <1>1, <1>2, <1>6, <2>3, <2>4, <2>6 DEF InsideMove, storeVars
  <2> QED BY <1>4, <2>4, <2>7, InsideKeeps
<1>9. CASE o.stage # "same"
  <2>1. txn' = [txn EXCEPT ![t] = o]
    BY <1>2, <1>9, InsideTypes DEF CallbackWrites
  <2>2. WorkingCopy(t, o, w, created')
    BY <1>1, <1>4, <1>9 DEF WorkingCopy, storeVars
  <2>3. InsideMove(t, o, w, "running", d)
    BY <1>1, <1>2, <1>6, <2>1, <2>2 DEF InsideMove, storeVars
  <2> QED BY <1>4, <2>3, InsideKeeps
<1> QED BY <1>8, <1>9

\* Staging a create or a delete
LEMMA StagesKeeps ==
  ASSUME StoreInv, NEW t \in Tasks, callback[t] = "running",
         NEW tx \in Transactions, txn' = [txn EXCEPT ![t] = tx], tx.original = txn[t].original,
         tx.stage # "same", WorkingCopy(t, tx, 0, created'),
         created' \in 0..MaxSessions, created <= created',
         UNCHANGED <<sessions, expired, lockVars, pc, askVars, todo, callback, written,
                     cbCancel, endVars>>
  PROVE  StoreInv'
<1>1. PICK d \in {"none", "pending", "taken"} : d = cbCancel[t]
  BY InsideTypes
<1>2. PICK w \in 0..2 : w = written[t]
  BY InsideTypes
<1>3. /\ callback' = [callback EXCEPT ![t] = "running"] /\ cbCancel' = [cbCancel EXCEPT ![t] = d]
      /\ written' = [written EXCEPT ![t] = w]
  BY <1>1, <1>2, InsideTypes
<1>4. WorkingCopy(t, tx, w, created')
  BY DEF WorkingCopy
<1>5. InsideMove(t, tx, w, "running", d)
  BY <1>3, <1>4 DEF InsideMove
<1> QED BY <1>5, OpenFacts, InsideKeeps

LEMMA CallbackDeletesKeeps ==
  ASSUME StoreInv, NEW t \in Tasks, CallbackDeletes(t)
  PROVE  StoreInv'
<1>1. /\ callback[t] = "running"
      /\ UNCHANGED <<storeVars, lockVars, pc, askVars, todo, callback, written, cbCancel, endVars>>
  BY DEF CallbackDeletes
<1>2. PICK o \in Transactions : o = txn[t]
  BY <1>1, OpenFacts
<1> DEFINE tx == [o EXCEPT !.working = NoSession, !.stage = "deleted"]
<1>3. tx \in Transactions /\ tx.original = o.original /\ tx.stage = "deleted" /\ tx.working = NoSession
  BY DEF Transactions
<1>4. txn' = [txn EXCEPT ![t] = tx]
  BY <1>2, InsideTypes DEF CallbackDeletes
<1> HIDE DEF tx
<1>5. tx.stage # "same" /\ WorkingCopy(t, tx, 0, created')
  BY <1>3 DEF WorkingCopy
<1>6. created' \in 0..MaxSessions /\ created <= created'
  BY <1>1, InsideTypes, SessionFacts DEF storeVars
<1> QED BY <1>1, <1>2, <1>3, <1>4, <1>5, <1>6, StagesKeeps DEF storeVars

LEMMA CallbackCreatesKeeps ==
  ASSUME StoreInv, NEW t \in Tasks, NEW p \in Plugins, CallbackCreates(t, p)
  PROVE  StoreInv'
<1>1. /\ callback[t] = "running" /\ created + Cardinality(Creating) < MaxSessions
      /\ created' = created + 1
      /\ UNCHANGED <<sessions, expired, lockVars, pc, askVars, todo, callback, written,
                     cbCancel, endVars>>
  BY DEF CallbackCreates
<1>2. PICK o \in Transactions : o = txn[t]
  BY <1>1, OpenFacts
<1>3. o.original \in Sessions /\ o.original.id <= created
  BY <1>1, <1>2, OpenFacts
<1>4. created' \in 0..MaxSessions /\ created <= created' /\ created \in Nat
  <2>1. Cardinality(Creating) \in Nat
    BY SessionAssumption, FS_Subset, FS_CardinalityType DEF Creating
  <2> QED BY <1>1, <2>1, SessionFacts
<1> DEFINE s == NewSession(t, p)
           tx == [o EXCEPT !.working = s, !.stage = "new", !.replaced = TRUE]
<1>5. s \in Sessions /\ s.id = created' /\ s.data = {} /\ s.by = t
  BY <1>1, <1>4 DEF NewSession, Sessions
<1>6. txn' = [txn EXCEPT ![t] = tx]
  BY <1>2, InsideTypes DEF CallbackCreates
<1>7. s.id > o.original.id
  BY <1>1, <1>3, <1>4, <1>5 DEF Sessions
<1> HIDE DEF s
<1>8. tx \in Transactions /\ tx.original = o.original /\ tx.stage = "new" /\ tx.working = s /\ tx.replaced
  BY <1>5 DEF Transactions
<1> HIDE DEF tx
<1>9. tx.stage # "same" /\ WorkingCopy(t, tx, 0, created')
  BY <1>4, <1>5, <1>7, <1>8, SessionFacts DEF WorkingCopy
<1> QED BY <1>1, <1>2, <1>4, <1>6, <1>8, <1>9, StagesKeeps

\* Its transaction stays while a callback is cancelled or ends.
LEMMA TransactionStays ==
  ASSUME StoreInv, NEW t \in Tasks, callback[t] # "none",
         NEW c \in {"running", "ok", "error", "invalid", "cancelled"},
         callback' = [callback EXCEPT ![t] = c], c = "ok" => written[t] = 2,
         NEW d \in {"none", "pending", "taken"}, cbCancel' = [cbCancel EXCEPT ![t] = d],
         UNCHANGED <<storeVars, lockVars, pc, askVars, todo, txn, written, endVars>>
  PROVE  StoreInv'
<1>1. PICK o \in Transactions : o = txn[t]
  BY OpenFacts
<1>2. PICK w \in 0..2 : w = written[t]
  BY InsideTypes
<1>3. txn' = [txn EXCEPT ![t] = o] /\ written' = [written EXCEPT ![t] = w]
  BY <1>1, <1>2, InsideTypes
<1>4. WorkingCopy(t, o, w, created')
  BY <1>1, <1>2, OpenFacts DEF storeVars
<1>5. created' \in 0..MaxSessions /\ created <= created'
  BY InsideTypes, SessionFacts DEF storeVars
<1>6. InsideMove(t, o, w, c, d)
  BY <1>1, <1>2, <1>3, <1>4, <1>5 DEF InsideMove, storeVars
<1> QED BY <1>6, OpenFacts, InsideKeeps

LEMMA CallbackCancelKeeps ==
  ASSUME StoreInv, NEW t \in Tasks, CallbackCancel(t)
  PROVE  StoreInv'
<1>1. PICK d \in {"pending", "taken"} : cbCancel' = [cbCancel EXCEPT ![t] = d]
  BY DEF CallbackCancel
<1>2. callback \in [Tasks -> {"none", "running", "ok", "error", "invalid", "cancelled"}]
  BY DEF StoreInv, StoreTyped, TypeOK
<1>3. callback[t] = "running" /\ callback' = [callback EXCEPT ![t] = "running"]
  BY <1>2 DEF CallbackCancel
<1> QED BY <1>1, <1>3, TransactionStays DEF CallbackCancel

LEMMA CallbackEndsKeeps ==
  ASSUME StoreInv, NEW t \in Tasks, CallbackEnds(t)
  PROVE  StoreInv'
<1>1. PICK c \in {"ok", "error", "invalid", "cancelled"} :
        /\ c = "ok" => written[t] = 2
        /\ callback' = [callback EXCEPT ![t] = c]
  BY DEF CallbackEnds
<1>2. cbCancel \in [Tasks -> {"none", "pending", "taken"}]
  BY DEF StoreInv, StoreTyped, TypeOK
<1>3. PICK d \in {"none", "pending", "taken"} : d = cbCancel[t]
  BY <1>2
<1>4. callback[t] = "running" /\ cbCancel' = [cbCancel EXCEPT ![t] = d]
  BY <1>2, <1>3 DEF CallbackEnds
<1> QED BY <1>1, <1>4, TransactionStays DEF CallbackEnds

\* An update ends: with s stored for its key, which on failure is what was there.
Publish(t, s, y) ==
  /\ sessions' = [sessions EXCEPT ![keyOf[t]] = s] /\ UNCHANGED created
  /\ expired' \subseteq expired /\ (s = NoSession => keyOf[t] \notin expired')
  /\ Done(t, y) /\ Unlock(t) /\ Forgotten(t)
  /\ cancelled' \subseteq cancelled /\ (y = "ok" => t \notin caught)
  /\ UNCHANGED <<askVars, todo, caught>>

\* It may leave its changes only when it succeeds.
LEMMA EndKeeps ==
  ASSUME StoreInv, NEW t \in Tasks, pc[t] = "callback",
         NEW s \in Sessions \cup {NoSession}, s # NoSession => s.id <= created,
         NEW y \in {"ok", "error", "cancelled"}, Publish(t, s, y),
         \A u \in Tasks : op[u] = "update" /\ result[u] # "ok" /\ s # NoSession =>
           (u = t /\ y = "ok") \/ (s.data \cap ({u} \X {1, 2}) = {} /\ s.by # u)
  PROVE  StoreInv'
<1>1. StoreTyped /\ TypeOK /\ KeysHeld /\ BulkOnly /\ WorkingCopies /\ IdsHold /\ NothingLeft
  BY DEF StoreInv, StoreTyped
<1>2. PICK k \in Keys : k = keyOf[t]
  BY SessionFacts
<1>3. /\ sessions' = [sessions EXCEPT ![k] = s] /\ pc' = [pc EXCEPT ![t] = "done"]
      /\ result' = [result EXCEPT ![t] = y] /\ holder' = [holder EXCEPT ![k] = NoTask]
      /\ expired' \subseteq expired /\ (s = NoSession => k \notin expired')
      /\ cancelled' \subseteq cancelled /\ (y = "ok" => t \notin caught)
      /\ UNCHANGED <<created, line, op, keyOf, pluginOf, todo, caught>>
  BY <1>2 DEF Publish, Done, Unlock, askVars
<1>4. /\ txn' = [txn EXCEPT ![t] = NoTxn] /\ callback' = [callback EXCEPT ![t] = "none"]
      /\ written' = [written EXCEPT ![t] = 0] /\ cbCancel' = [cbCancel EXCEPT ![t] = "none"]
  BY DEF Publish, Forgotten
<1>5. \A l \in Keys : /\ sessions'[l] = IF l = k THEN s ELSE sessions[l]
                      /\ holder'[l] = IF l = k THEN NoTask ELSE holder[l]
  BY <1>1, <1>3 DEF TypeOK
<1>6. \A u \in Tasks : /\ pc'[u] = IF u = t THEN "done" ELSE pc[u]
                       /\ result'[u] = IF u = t THEN y ELSE result[u]
                       /\ txn'[u] = IF u = t THEN NoTxn ELSE txn[u]
                       /\ callback'[u] = IF u = t THEN "none" ELSE callback[u]
                       /\ written'[u] = IF u = t THEN 0 ELSE written[u]
  BY <1>1, <1>3, <1>4 DEF StoreTyped, TypeOK
<1>7. StoreTyped'
  <2>1. txn' \in [Tasks -> Transactions]
    BY <1>1, <1>4 DEF StoreTyped, Transactions, NoTxn
  <2>2. \A u \in Tasks : {txn'[u].original, txn'[u].working} \subseteq Sessions \cup {NoSession}
    BY <2>1 DEF Transactions
  <2>3. /\ written' \in [Tasks -> 0..2] /\ cbCancel' \in [Tasks -> {"none", "pending", "taken"}]
        /\ callback' \in [Tasks -> {"none", "running", "ok", "error", "invalid", "cancelled"}]
    BY <1>1, <1>4 DEF TypeOK
  <2>4. /\ sessions' \in [Keys -> Sessions \cup {NoSession}]
        /\ holder' \in [Keys -> Tasks \cup {NoTask}]
        /\ pc' \in [Tasks -> {"ready", "waiting", "callback", "sweeping", "done"}]
        /\ result' \in [Tasks -> {"none", "ok", "absent", "error", "cancelled"}]
    BY <1>1, <1>3 DEF TypeOK
  <2>5. expired' \subseteq {l \in Keys : sessions'[l] # NoSession}
    BY <1>1, <1>3, <1>5 DEF TypeOK, Present
  <2> QED BY <1>1, <1>3, <2>1, <2>2, <2>3, <2>4, <2>5 DEF StoreTyped, TypeOK, Present, Transactions
<1>8. KeysHeld'
  <2>1. holder[k] = t
    BY <1>1, <1>2 DEF KeysHeld
  <2>2. \A u \in Tasks : u # t /\ pc[u] = "callback" => keyOf[u] # k /\ keyOf[u] \in Keys
    BY <1>1, <2>1, SessionFacts DEF KeysHeld
  <2> QED BY <1>1, <1>3, <1>5, <1>6, <2>2 DEF KeysHeld, Unchanged, Present
<1>9. BulkOnly'
  BY <1>1, <1>3, <1>6 DEF BulkOnly
<1>10. WorkingCopies'
  BY <1>1, <1>3, <1>6 DEF WorkingCopies
<1>11. IdsHold'
  BY <1>1, <1>3, <1>5 DEF IdsHold, Present
<1>12. NothingLeft'
  <2>1. \A u \in Tasks : op[u] = "update" /\ result'[u] # "ok" => result[u] # "ok"
    BY <1>1, <1>6 DEF NothingLeft
  <2>2. ASSUME NEW u \in Tasks, op[u] = "update", result'[u] # "ok",
               NEW l \in Keys, sessions'[l] # NoSession
        PROVE  sessions'[l].data \cap ({u} \X {1, 2}) = {} /\ sessions'[l].by # u
    BY <1>1, <1>5, <1>6, <2>1, <2>2 DEF NothingLeft, Present
  <2>3. \A u \in Tasks : op[u] = "update" /\ result'[u] = "ok" => pc'[u] = "done" /\ u \notin caught
    BY <1>1, <1>3, <1>6 DEF NothingLeft
  <2> QED BY <1>3, <2>2, <2>3 DEF NothingLeft, Present
<1> QED BY <1>7, <1>8, <1>9, <1>10, <1>11, <1>12 DEF StoreInv

\* What a commit publishes: the session that was stored, with both changes, or
\* the one that was staged.
LEMMA CommitFacts ==
  ASSUME StoreInv, NEW t \in Tasks, pc[t] = "callback", callback[t] = "ok",
         txn[t].working # NoSession
  PROVE  /\ Committed(t) \in Sessions /\ Committed(t).id <= created
         /\ txn[t].stage = "same" =>
              /\ sessions[keyOf[t]] \in Sessions
              /\ Committed(t) = [sessions[keyOf[t]] EXCEPT !.version = @ + 1,
                                                           !.data = @ \cup ({t} \X {1, 2})]
         /\ txn[t].stage # "same" =>
              /\ Committed(t).by = t /\ Committed(t).data = {}
              /\ Committed(t).id > sessions[keyOf[t]].id
<1>1. PICK o \in Transactions : o = txn[t]
  BY OpenFacts
<1>2. /\ o.original \in Sessions /\ o.original = sessions[keyOf[t]] /\ o.original.id <= created
      /\ WorkingCopy(t, o, 2, created)
  <2>1. written[t] = 2
    BY DEF StoreInv, WorkingCopies
  <2> QED BY <1>1, <2>1, OpenFacts
<1>3. o.working \in Sessions
  BY <1>1 DEF Transactions
<1>4. o.original.version + 1 \in Nat
  BY <1>2 DEF Sessions
<1>5. CASE o.stage = "same"
  <2>1. ~o.replaced /\ o.working.data = o.original.data \cup ({t} \X {1, 2})
    <3>1. 1..2 = {1, 2}
      OBVIOUS
    <3> QED BY <1>2, <1>5, <3>1 DEF WorkingCopy
  <2>2. Committed(t) = [o.original EXCEPT !.version = @ + 1, !.data = o.working.data]
    BY <1>1, <2>1 DEF Committed
  <2>3. o.working.data \in SUBSET (Tasks \X {1, 2})
    BY <1>3 DEF Sessions
  <2>4. Committed(t) \in Sessions /\ Committed(t).id = o.original.id
    BY <1>2, <1>4, <2>2, <2>3 DEF Sessions
  <2>5. Committed(t) = [o.original EXCEPT !.version = @ + 1, !.data = @ \cup ({t} \X {1, 2})]
    BY <1>2, <2>1, <2>2 DEF Sessions
  <2> QED BY <1>1, <1>2, <1>5, <2>4, <2>5
<1>6. CASE o.stage # "same"
  <2>1. o.stage = "new"
    BY <1>1, <1>2, <1>6 DEF WorkingCopy, Transactions
  <2>2. Committed(t) = [o.working EXCEPT !.version = o.original.version + 1]
    BY <1>1, <1>2, <2>1 DEF Committed, WorkingCopy
  <2>3. /\ Committed(t) \in Sessions /\ Committed(t).id = o.working.id
        /\ Committed(t).by = o.working.by /\ Committed(t).data = o.working.data
    BY <1>3, <1>4, <2>2 DEF Sessions
  <2> QED BY <1>1, <1>2, <1>6, <2>1, <2>3 DEF WorkingCopy
<1> QED BY <1>5, <1>6

LEMMA CommitKeeps ==
  ASSUME StoreInv, NEW t \in Tasks, Commit(t)
  PROVE  StoreInv'
<1>1. /\ pc[t] = "callback" /\ callback[t] = "ok" /\ t \notin caught
      /\ Done(t, "ok") /\ Unlock(t) /\ Forgotten(t)
      /\ UNCHANGED <<askVars, todo, cancelled, caught>>
  BY DEF Commit, Commits
<1>2. CASE txn[t].working = NoSession
  <2>1. Publish(t, NoSession, "ok")
    BY <1>1, <1>2 DEF Commit, Forget, Publish
  <2> QED BY <1>1, <2>1, EndKeeps
<1>3. CASE txn[t].working # NoSession
  <2>1. PICK s \in Sessions : s = Committed(t)
    BY <1>1, <1>3, CommitFacts
  <2>2. s # NoSession /\ s.id <= created
    BY <1>1, <1>3, <2>1, CommitFacts, SessionFacts
  <2>3. Publish(t, s, "ok")
    BY <1>1, <1>3, <2>1, <2>2 DEF Commit, Store, Publish
  <2>4. ASSUME NEW u \in Tasks, op[u] = "update", result[u] # "ok", u # t
        PROVE  s.data \cap ({u} \X {1, 2}) = {} /\ s.by # u
    <3>1. CASE txn[t].stage = "same"
      <4>1. PICK o \in Sessions : o = sessions[keyOf[t]]
        BY <1>1, <1>3, <3>1, CommitFacts
      <4>2. s = [o EXCEPT !.version = @ + 1, !.data = @ \cup ({t} \X {1, 2})]
        BY <1>1, <1>3, <2>1, <3>1, <4>1, CommitFacts
      <4>3. s.data = o.data \cup ({t} \X {1, 2}) /\ s.by = o.by
        BY <4>2 DEF Sessions
      <4>4. o.data \cap ({u} \X {1, 2}) = {} /\ o.by # u
        BY SMTT(30), <2>4, <4>1, SessionFacts DEF StoreInv, NothingLeft, Present
      <4> QED BY SMTT(30), <2>4, <4>3, <4>4
    <3>2. CASE txn[t].stage # "same"
      BY <1>1, <1>3, <2>1, <2>4, <3>2, CommitFacts
    <3> QED BY <3>1, <3>2
  <2> QED BY SMTT(30), <1>1, <2>2, <2>3, <2>4, EndKeeps
<1> QED BY <1>2, <1>3

LEMMA RollBackKeeps ==
  ASSUME StoreInv, NEW t \in Tasks, RollBack(t)
  PROVE  StoreInv'
<1>1. PICK y \in {"cancelled", "error"} : Done(t, y)
  BY DEF RollBack
<1>2. /\ pc[t] = "callback" /\ Unlock(t) /\ Forgotten(t) /\ cancelled' \subseteq cancelled
      /\ UNCHANGED <<sessions, expired, created, askVars, todo, caught>>
  BY DEF RollBack, storeVars
<1>3. PICK s \in Sessions \cup {NoSession} : s = sessions[keyOf[t]]
  BY SessionFacts
<1>4. s # NoSession /\ s.id <= created
  BY <1>2, <1>3, SessionFacts DEF StoreInv, KeysHeld, IdsHold, Present
<1>5. Publish(t, s, y)
  <2>1. sessions' = [sessions EXCEPT ![keyOf[t]] = s]
    BY <1>2, <1>3 DEF StoreInv, StoreTyped, TypeOK
  <2> QED BY <1>1, <1>2, <1>4, <2>1 DEF Publish
<1>6. \A u \in Tasks : op[u] = "update" /\ result[u] # "ok" =>
        s.data \cap ({u} \X {1, 2}) = {} /\ s.by # u
  BY <1>3, <1>4, SessionFacts DEF StoreInv, NothingLeft, Present
<1> QED BY <1>1, <1>2, <1>4, <1>5, <1>6, EndKeeps

-----------------------------------------------------------------------------
(* The theorems about the store *)

LEMMA SessionInitially == Init => StoreInv
<1> SUFFICES ASSUME Init PROVE StoreInv
  OBVIOUS
<1> USE SessionAssumption DEF Init
<1>1. \A s \in Earlier : /\ s \in Sessions /\ s.id = 0 /\ s.data = {} /\ s.by = NoTask
  BY DEF Earlier, Sessions
<1>2. \A k \in Keys : sessions[k] \in {NoSession} \cup Earlier
  OBVIOUS
<1>3. StoreTyped
  <2>1. sessions \in [Keys -> Sessions \cup {NoSession}]
    BY <1>1
  <2>2. line \in [Keys -> Seq(Tasks)]
    BY EmptySeq
  <2>3. txn \in [Tasks -> Transactions]
    BY DEF NoTxn, Transactions
  <2>4. \A t \in Tasks : {txn[t].original, txn[t].working} \subseteq Sessions \cup {NoSession}
    BY <2>3 DEF Transactions
  <2> QED BY <2>1, <2>2, <2>3, <2>4 DEF StoreTyped, TypeOK, Transactions
<1>4. KeysHeld /\ BulkOnly /\ WorkingCopies
  BY DEF KeysHeld, BulkOnly, WorkingCopies
<1>5. IdsHold
  BY <1>1, <1>2 DEF IdsHold, Present
<1>6. NothingLeft
  BY <1>1, <1>2 DEF NothingLeft, Present
<1> QED BY <1>3, <1>4, <1>5, <1>6 DEF StoreInv

LEMMA SessionStep == StoreInv /\ [Next]_vars => StoreInv'
<1> SUFFICES ASSUME StoreInv, [Next]_vars PROVE StoreInv'
  OBVIOUS
<1>1. CASE UNCHANGED vars
  BY <1>1 DEF vars, storeVars, lockVars, askVars, cbVars, endVars, StoreInv, StoreTyped, TypeOK,
              KeysHeld, BulkOnly, WorkingCopies, WorkingCopy, IdsHold, NothingLeft, Unchanged, Present
<1>2. ASSUME NEW k \in Keys, Expire(k) PROVE StoreInv'
  BY <1>2, ExpireKeeps
<1>3. ASSUME NEW t \in Tasks, Manager(t) PROVE StoreInv'
  <2>1. CASE Waits(t)
    BY <2>1, WaitKeeps, SessionFacts DEF Waits, StoreInv, StoreTyped, TypeOK
  <2>2. ASSUME NEW k \in Keys, SweepKey(t, k) PROVE StoreInv'
    BY <2>2, SweepKeyKeeps
  <2> QED BY <1>3, <2>1, <2>2, CreateKeeps, ReadKeeps, DeleteKeeps, SweepBeginKeeps, SweepEndKeeps,
             UpdateAbsentKeeps, UpdateBeginKeeps, ForwardCancelKeeps, CommitKeeps, RollBackKeeps,
             CancelledWaitingKeeps
          DEF Manager
<1>4. ASSUME NEW t \in Tasks, UserCode(t) PROVE StoreInv'
  BY <1>4, CallbackWritesKeeps, CallbackDeletesKeeps, CallbackCreatesKeeps DEF UserCode
<1> QED BY <1>1, <1>2, <1>3, <1>4, CallbackCancelKeeps, CallbackEndsKeeps, CancelKeeps DEF Next

\* The invariant behind the theorems about the store
THEOREM SessionInvariance == Spec => []StoreInv
BY SessionInitially, SessionStep, PTL DEF Spec

\* While a callback runs its key is held and the session it started from is
\* the stored one; an update that failed or met a cancellation has left
\* nothing in the store (SessionManager.update).
THEOREM UpdatesAreIsolated == Spec => []UpdatesIsolated
<1>1. StoreInv => UpdatesIsolated
  BY DEF StoreInv, StoreTyped, KeysHeld, NothingLeft, UpdatesIsolated, StoredUnderLock,
         FailedUpdateLeavesNothing
<1> QED BY <1>1, SessionInvariance, PTL

\* What the operations do to the store is what AtomicSessions allows at one moment.
LEMMA DropIsRemove ==
  ASSUME StoreInv, NEW k \in Keys, Present(k), Forget(k)
  PROVE  Atomic!AtomicNext
BY DEF Forget, Present, Atomic!AtomicNext, Atomic!Remove

LEMMA StoreIsPut ==
  ASSUME StoreInv, NEW t \in Tasks, NEW k \in Keys, NEW s \in Sessions, Store(k, s),
         s.by = t, s.data = {}, Present(k) => s.id > sessions[k].id
  PROVE  Atomic!AtomicNext
<1>1. sessions' = [sessions EXCEPT ![k] = s] /\ sessions'[k] = s
  BY DEF Store, StoreInv, StoreTyped, TypeOK
<1>2. s # NoSession /\ s.plugin \in Plugins
  BY SessionFacts DEF Sessions
<1>3. Atomic!Put(t, k)
  BY <1>1, <1>2 DEF Atomic!Put, Present
<1> QED BY <1>3 DEF Atomic!AtomicNext

LEMMA CreateIsPut ==
  ASSUME StoreInv, NEW t \in Tasks, Create(t)
  PROVE  Atomic!AtomicNext
<1> DEFINE k == keyOf[t]
           s == NewSession(t, pluginOf[t])
<1>1. created < MaxSessions /\ Store(k, s) /\ k \in Keys
  BY SessionFacts DEF Create
<1>2. s \in Sessions /\ s.id = created + 1 /\ s.data = {} /\ s.by = t
  BY <1>1, SessionFacts DEF NewSession, Sessions
<1> HIDE DEF s, k
<1>3. Present(k) => s.id > sessions[k].id
  <2>1. Present(k) => sessions[k].id <= created /\ sessions[k].id \in Nat
    BY <1>1, SessionFacts DEF StoreInv, IdsHold, Present, Sessions
  <2> QED BY <1>2, <2>1, SessionFacts
<1> QED BY <1>1, <1>2, <1>3, StoreIsPut

LEMMA CommitIsAtomic ==
  ASSUME StoreInv, NEW t \in Tasks, Commit(t)
  PROVE  Atomic!AtomicNext
<1>1. PICK k \in Keys : k = keyOf[t]
  BY SessionFacts
<1>2. pc[t] = "callback" /\ callback[t] = "ok" /\ Present(k)
  BY <1>1 DEF Commit, Commits, StoreInv, KeysHeld
<1>3. CASE txn[t].working = NoSession
  BY <1>1, <1>2, <1>3, DropIsRemove DEF Commit
<1>4. CASE txn[t].working # NoSession
  <2>1. PICK s \in Sessions : s = Committed(t)
    BY <1>2, <1>4, CommitFacts
  <2>2. Store(k, s)
    BY <1>1, <1>4, <2>1 DEF Commit
  <2>3. CASE txn[t].stage = "same"
    <3>1. s = [sessions[k] EXCEPT !.version = @ + 1, !.data = @ \cup ({t} \X {1, 2})]
      BY <1>1, <1>2, <1>4, <2>1, <2>3, CommitFacts
    <3>2. sessions' = [sessions EXCEPT ![k] = s]
      BY <2>2 DEF Store
    <3>3. Atomic!Apply(t, k)
      BY <1>2, <3>1, <3>2 DEF Atomic!Apply, Atomic!Updated, Atomic!Changes, Present
    <3> QED BY SMTT(30), <3>3 DEF Atomic!AtomicNext
  <2>4. CASE txn[t].stage # "same"
    <3>1. s.by = t /\ s.data = {} /\ s.id > sessions[k].id
      BY <1>1, <1>2, <1>4, <2>1, <2>4, CommitFacts
    <3> QED BY SMTT(30), <2>2, <3>1, StoreIsPut
  <2> QED BY <2>3, <2>4
<1> QED BY <1>3, <1>4

LEMMA AtomicStep == StoreInv /\ [Next]_vars => [Atomic!AtomicNext]_sessions
<1> SUFFICES ASSUME StoreInv, [Next]_vars PROVE Atomic!AtomicNext \/ UNCHANGED sessions
  OBVIOUS
<1>1. CASE UNCHANGED vars
  BY <1>1 DEF vars, storeVars
<1>2. ASSUME NEW k \in Keys, Expire(k) PROVE UNCHANGED sessions
  BY <1>2 DEF Expire
<1>3. ASSUME NEW t \in Tasks, Manager(t) PROVE Atomic!AtomicNext \/ UNCHANGED sessions
  <2>1. keyOf[t] \in Keys
    BY SessionFacts
  <2>2. ASSUME Read(t) \/ Delete(t) \/ UpdateAbsent(t) PROVE Atomic!AtomicNext \/ UNCHANGED sessions
    BY <2>1, <2>2, DropIsRemove DEF Read, Delete, UpdateAbsent, storeVars
  <2>3. ASSUME NEW k \in Keys, SweepKey(t, k) PROVE Atomic!AtomicNext \/ UNCHANGED sessions
    BY <2>3, DropIsRemove DEF SweepKey, Doomed, storeVars
  <2>4. ASSUME Waits(t) \/ SweepBegin(t) \/ SweepEnd(t) \/ UpdateBegin(t) \/ ForwardCancel(t)
               \/ RollBack(t) \/ CancelledWaiting(t)
        PROVE  UNCHANGED sessions
    BY SMTT(30), <2>4 DEF Waits, Wait, SweepBegin, SweepEnd, UpdateBegin, ForwardCancel, RollBack,
                CancelledWaiting, storeVars
  <2> QED BY <1>3, <2>2, <2>3, <2>4, CreateIsPut, CommitIsAtomic DEF Manager
<1>4. ASSUME NEW t \in Tasks, UserCode(t) \/ CallbackCancel(t) \/ CallbackEnds(t) \/ Cancel(t)
      PROVE  UNCHANGED sessions
  BY <1>4 DEF UserCode, CallbackWrites, CallbackDeletes, CallbackCreates, CallbackCancel,
              CallbackEnds, Cancel, storeVars
<1> QED BY <1>1, <1>2, <1>3, <1>4 DEF Next

\* To its users every operation happens at one moment: an update applies both
\* its changes to the session that is stored then, or none.
THEOREM IsAtomic == Spec => ImplementsAtomicSessions
<1>1. Init => Atomic!AtomicInit
  BY DEF Init, Earlier, Atomic!AtomicInit, Atomic!Earlier
<1> QED BY <1>1, SessionInvariance, AtomicStep, PTL DEF Spec, ImplementsAtomicSessions, Atomic!AtomicSpec

-----------------------------------------------------------------------------
(* The lock pool *)

\* The pool has one entry per key, and whoever is at a key uses that entry.
OneEntryPerKey ==
  /\ \A k, l \in PoolKeys : entries[k] # NoEntry /\ entries[k] = entries[l] => k = l
  /\ \A t \in PoolTasks : place[t] # "out" =>
       entryOf[t] \in Entries /\ entries[keyAt[t]] = entryOf[t]

\* A future belongs to a task in line, and is cancelled with it.
FuturesMatch ==
  /\ \A t \in PoolTasks : future[t] = "none" <=> place[t] # "waiting"
  /\ \A t \in interrupted : place[t] = "waiting" /\ future[t] # "pending"
  /\ \A t \in PoolTasks : future[t] = "cancelled" => t \in interrupted

LinesExact ==
  \A e \in Entries : IsInjective(waiters[e]) /\ Range(waiters[e]) = WaitersOf(e)

\* Only the head of the line of a free lock has been woken.
HeadWoken ==
  \A t \in PoolTasks : future[t] = "set" =>
    ~locked[entryOf[t]] /\ t = Head(waiters[entryOf[t]])

OwnersExact ==
  /\ \A t \in PoolTasks : place[t] = "in" => owner[entryOf[t]] = t
  /\ \A e \in Entries : owner[e] # NoOwner => place[owner[e]] = "in" /\ entryOf[owner[e]] = e
  /\ \A e \in Entries : locked[e] <=> owner[e] # NoOwner
  /\ \A e \in Entries : depth[e] > 0 <=> owner[e] # NoOwner

CountsExact ==
  /\ \A e \in Entries : users[e] = Len(waiters[e]) + depth[e]
  /\ \A e \in Entries : e \in InUse <=> users[e] > 0

PoolBounded == IsFiniteSet(InUse) /\ Cardinality(InUse) <= MaxKeys

PoolInv ==
  /\ PoolTyped /\ OneEntryPerKey /\ FuturesMatch /\ LinesExact /\ HeadWoken
  /\ NobodyForgotten /\ OwnersExact /\ CountsExact /\ PoolBounded

\* One holder per key: hold() excludes.
OneHolder ==
  \A t, u \in PoolTasks : place[t] = "in" /\ place[u] = "in" /\ keyAt[t] = keyAt[u] => t = u

-----------------------------------------------------------------------------
(* Counts, lines and holders *)

\* The pool starts empty, with nobody at any key.
LEMMA PoolInitially == PoolAssumption /\ PoolInit => PoolInv
<1> SUFFICES ASSUME PoolAssumption, PoolInit PROVE PoolInv
  OBVIOUS
<1> USE DEF PoolInit
<1>1. PoolTyped
  BY EmptySeq DEF PoolTyped
<1>2. \A e \in Entries : e \notin InUse
  BY DEF InUse, PoolAssumption
<1>3. InUse = {}
  BY <1>2 DEF InUse
<1>4. PoolBounded
  BY <1>3, FS_EmptySet DEF PoolBounded, PoolAssumption
<1>5. LinesExact
  BY EmptyFacts DEF LinesExact, WaitersOf, IsInjective, Range
<1>6. CountsExact
  BY <1>2, EmptySeq DEF CountsExact
<1>7. OneEntryPerKey /\ FuturesMatch /\ HeadWoken /\ NobodyForgotten /\ OwnersExact
  BY DEF OneEntryPerKey, FuturesMatch, HeadWoken, NobodyForgotten, OwnersExact
<1> QED BY <1>1, <1>4, <1>5, <1>6, <1>7 DEF PoolInv

\* Who stands in line, counts: an entry in somebody's use is in the pool.
LEMMA InUseFacts ==
  ASSUME PoolAssumption, PoolInv, NEW t \in PoolTasks, place[t] # "out"
  PROVE  /\ entryOf[t] \in Entries /\ entryOf[t] \in InUse /\ users[entryOf[t]] > 0
         /\ place[t] = "waiting" =>
              /\ t \in Range(waiters[entryOf[t]]) /\ waiters[entryOf[t]] # <<>>
              /\ Len(waiters[entryOf[t]]) > 0
         /\ place[t] = "in" => /\ owner[entryOf[t]] = t /\ locked[entryOf[t]]
                            /\ depth[entryOf[t]] > 0
<1> DEFINE e == entryOf[t]
<1>1. e \in Entries /\ entries[keyAt[t]] = e /\ keyAt[t] \in PoolKeys
  BY DEF PoolInv, PoolTyped, OneEntryPerKey
<1>2. e \in InUse
  BY <1>1 DEF InUse
<1>3. users[e] > 0
  BY <1>1, <1>2 DEF PoolInv, CountsExact
<1>4. place[t] = "waiting" => t \in Range(waiters[e])
  BY <1>1 DEF PoolInv, LinesExact, WaitersOf
<1>5. waiters[e] \in Seq(PoolTasks)
  BY <1>1 DEF PoolInv, PoolTyped
<1>6. place[t] = "waiting" => waiters[e] # <<>> /\ Len(waiters[e]) > 0
  BY <1>4, <1>5, EmptyFacts, EmptySeq
<1>7. place[t] = "in" => owner[e] = t /\ owner[e] # NoOwner /\ locked[e] /\ depth[e] > 0
  BY <1>1 DEF PoolInv, OwnersExact, PoolAssumption
<1> QED BY <1>1, <1>2, <1>3, <1>4, <1>6, <1>7

\* A line holds every waiter of its entry once.
LEMMA LineFacts ==
  ASSUME PoolInv, NEW f \in Entries
  PROVE  /\ waiters[f] \in Seq(PoolTasks) /\ IsInjective(waiters[f]) /\ Len(waiters[f]) \in Nat
         /\ Range(waiters[f]) = WaitersOf(f)
         /\ waiters[f] # <<>> =>
              /\ Head(waiters[f]) \in PoolTasks /\ place[Head(waiters[f])] = "waiting"
              /\ entryOf[Head(waiters[f])] = f
<1>1. /\ waiters[f] \in Seq(PoolTasks) /\ IsInjective(waiters[f])
      /\ Range(waiters[f]) = WaitersOf(f)
  BY DEF PoolInv, PoolTyped, LinesExact
<1>2. Len(waiters[f]) \in Nat
  BY <1>1, LenProperties
<1>3. waiters[f] # <<>> => Head(waiters[f]) \in Range(waiters[f])
  BY <1>1, TailFacts
<1> QED BY <1>1, <1>2, <1>3 DEF WaitersOf

\* With the last use of an entry nobody else is at it.
LEMMA LastUser ==
  ASSUME PoolAssumption, PoolInv, NEW t \in PoolTasks, place[t] # "out", users[entryOf[t]] = 1
  PROVE  \A u \in PoolTasks : u # t /\ place[u] # "out" => entryOf[u] # entryOf[t]
<1> SUFFICES ASSUME NEW u \in PoolTasks, u # t, place[u] # "out", entryOf[u] = entryOf[t]
             PROVE  FALSE
  OBVIOUS
<1> DEFINE e == entryOf[t]
<1>1. /\ e \in Entries /\ Len(waiters[e]) \in Nat /\ depth[e] \in Nat
      /\ Len(waiters[e]) + depth[e] = 1
  BY InUseFacts, LineFacts DEF PoolInv, PoolTyped, CountsExact
<1>2. place[t] \in {"waiting", "in"} /\ place[u] \in {"waiting", "in"}
  BY DEF PoolInv, PoolTyped
<1>3. CASE place[t] = "in" /\ place[u] = "in"
  BY <1>3, InUseFacts
<1>4. CASE place[t] = "in" /\ place[u] = "waiting"
  BY <1>1, <1>4, InUseFacts
<1>5. CASE place[t] = "waiting" /\ place[u] = "in"
  BY <1>1, <1>5, InUseFacts
<1>6. CASE place[t] = "waiting" /\ place[u] = "waiting"
  <2>1. t \in Range(waiters[e]) /\ u \in Range(waiters[e])
    BY <1>6, InUseFacts
  <2>2. PICK i, j \in DOMAIN waiters[e] : waiters[e][i] = t /\ waiters[e][j] = u
    BY <2>1 DEF Range
  <2>3. DOMAIN waiters[e] = 1..Len(waiters[e]) /\ Len(waiters[e]) <= 1
    BY <1>1, LineFacts, LenProperties
  <2>4. i = 1 /\ j = 1
    BY <1>1, <2>2, <2>3
  <2> QED BY <2>2, <2>4
<1> QED BY <1>2, <1>3, <1>4, <1>5, <1>6

\* Taking the entry of a key, or a new one while there is room.
LEMMA PoolGrows ==
  ASSUME PoolAssumption, PoolInv, NEW k \in PoolKeys, NEW e \in Entries, EntryFor(k, e),
         entries' = [entries EXCEPT ![k] = e]
  PROVE  /\ entries' \in [PoolKeys -> Entries \cup {NoEntry}]
         /\ \A m, l \in PoolKeys : entries'[m] # NoEntry /\ entries'[m] = entries'[l] => m = l
         /\ \A l \in PoolKeys : entries[l] # NoEntry => entries'[l] = entries[l]
         /\ entries'[k] = e
         /\ InUse' = InUse \cup {e} /\ PoolBounded'
<1>1. entries \in [PoolKeys -> Entries \cup {NoEntry}] /\ NoEntry \notin Entries
  BY DEF PoolInv, PoolTyped, PoolAssumption
<1>2. entries' \in [PoolKeys -> Entries \cup {NoEntry}] /\ entries'[k] = e
  BY <1>1
<1>3. CASE entries[k] # NoEntry
  <2>1. entries' = entries /\ entries[k] = e
    BY <1>1, <1>3 DEF EntryFor
  <2>2. InUse' = InUse /\ e \in InUse
    BY <2>1 DEF InUse
  <2> QED BY <1>1, <2>1, <2>2 DEF PoolInv, OneEntryPerKey, PoolBounded
<1>4. CASE entries[k] = NoEntry
  <2>1. e \notin InUse /\ Cardinality(InUse) < MaxKeys
    BY <1>4 DEF EntryFor
  <2>2. \A l \in PoolKeys : entries[l] # e
    BY <2>1 DEF InUse
  <2>3. \A l \in PoolKeys : l # k => entries'[l] = entries[l]
    BY <1>1
  <2>4. InUse' = InUse \cup {e}
    BY <1>1, <1>2, <1>4, <2>3 DEF InUse
  <2>5. PoolBounded'
    <3>1. /\ IsFiniteSet(InUse \cup {e})
          /\ Cardinality(InUse \cup {e}) = Cardinality(InUse) + 1
      BY <2>1, FS_AddElement DEF PoolInv, PoolBounded
    <3>2. Cardinality(InUse) \in Nat
      BY FS_CardinalityType DEF PoolInv, PoolBounded
    <3> QED BY <2>1, <2>4, <3>1, <3>2 DEF PoolBounded, PoolAssumption
  <2>6. \A m, l \in PoolKeys : entries'[m] # NoEntry /\ entries'[m] = entries'[l] => m = l
    BY <1>2, <2>2, <2>3 DEF PoolInv, OneEntryPerKey
  <2> QED BY <1>2, <1>4, <2>3, <2>4, <2>5, <2>6
<1> QED BY <1>3, <1>4

\* Reclaiming the entry that has no users left, and only it.
LEMMA PoolShrinks ==
  ASSUME PoolAssumption, PoolInv, NEW e \in Entries, NEW n \in Nat, entries' = PoolAfter(e, n)
  PROVE  /\ entries' \in [PoolKeys -> Entries \cup {NoEntry}]
         /\ \A m, l \in PoolKeys : entries'[m] # NoEntry /\ entries'[m] = entries'[l] => m = l
         /\ \A l \in PoolKeys : n # 0 \/ entries[l] # e => entries'[l] = entries[l]
         /\ InUse' = IF n = 0 THEN InUse \ {e} ELSE InUse
         /\ PoolBounded'
<1>1. entries \in [PoolKeys -> Entries \cup {NoEntry}] /\ NoEntry \notin Entries
  BY DEF PoolInv, PoolTyped, PoolAssumption
<1>2. CASE n # 0
  <2>1. entries' = entries
    BY <1>2 DEF PoolAfter
  <2>2. InUse' = InUse
    BY <2>1 DEF InUse
  <2> QED BY <1>1, <1>2, <2>1, <2>2 DEF PoolInv, OneEntryPerKey, PoolBounded
<1>3. CASE n = 0
  <2>1. entries' = [k \in PoolKeys |-> IF entries[k] = e THEN NoEntry ELSE entries[k]]
    BY <1>3 DEF PoolAfter
  <2>2. /\ entries' \in [PoolKeys -> Entries \cup {NoEntry}]
        /\ \A l \in PoolKeys : entries'[l] = IF entries[l] = e THEN NoEntry ELSE entries[l]
    BY <1>1, <2>1
  <2>3. InUse' = InUse \ {e}
    BY <1>1, <2>2 DEF InUse
  <2>4. PoolBounded'
    <3>1. /\ IsFiniteSet(InUse \ {e}) /\ Cardinality(InUse \ {e}) <= Cardinality(InUse)
          /\ Cardinality(InUse) \in Nat /\ Cardinality(InUse \ {e}) \in Nat
      BY FS_Subset, FS_CardinalityType DEF PoolInv, PoolBounded
    <3> QED BY <2>3, <3>1 DEF PoolInv, PoolBounded, PoolAssumption
  <2>5. \A m, l \in PoolKeys : entries'[m] # NoEntry /\ entries'[m] = entries'[l] => m = l
    BY <2>2 DEF PoolInv, OneEntryPerKey
  <2> QED BY <1>3, <2>2, <2>3, <2>4, <2>5
<1> QED BY <1>2, <1>3

-----------------------------------------------------------------------------
(* One lemma per action *)

\* hold() of a key nobody uses, or whose lock is free and has no line.
LEMMA HoldFreeKeeps ==
  ASSUME PoolAssumption, PoolInv,
         NEW t \in PoolTasks, NEW k \in PoolKeys, NEW e \in Entries, HoldFree(t, k, e)
  PROVE  PoolInv'
<1> USE DEF HoldFree
<1>1. /\ entries' \in [PoolKeys -> Entries \cup {NoEntry}]
      /\ \A m, l \in PoolKeys : entries'[m] # NoEntry /\ entries'[m] = entries'[l] => m = l
      /\ \A l \in PoolKeys : entries[l] # NoEntry => entries'[l] = entries[l]
      /\ entries'[k] = e
      /\ InUse' = InUse \cup {e} /\ PoolBounded'
  BY PoolGrows
<1>2. PoolTyped
  BY DEF PoolInv
<1>3. place[t] = "out" /\ ~locked[e] /\ owner[e] = NoOwner /\ depth[e] = 0 /\ t \notin interrupted
  BY <1>2 DEF PoolInv, Acquirable, OwnersExact, FuturesMatch, PoolTyped
<1>4. \A u \in PoolTasks : place[u] = "waiting" /\ entryOf[u] = e => future[u] = "cancelled"
  BY <1>2 DEF PoolInv, Acquirable, LinesExact, WaitersOf, Range
<1>5. PoolTyped'
  BY <1>1, <1>2 DEF PoolTyped
<1>6. OneEntryPerKey'
  <2>1. ASSUME NEW u \in PoolTasks, place'[u] # "out"
        PROVE  entryOf'[u] \in Entries /\ entries'[keyAt'[u]] = entryOf'[u]
    <3>1. CASE u = t
      BY <1>1, <1>2, <3>1 DEF PoolTyped
    <3>2. CASE u # t
      <4>1. entryOf[u] \in Entries /\ entries[keyAt[u]] = entryOf[u] /\ keyAt[u] \in PoolKeys
        BY <1>2, <2>1, <3>2 DEF PoolInv, OneEntryPerKey, PoolTyped
      <4> QED BY <1>1, <1>2, <3>2, <4>1 DEF PoolTyped, PoolAssumption
    <3> QED BY <3>1, <3>2
  <2> QED BY <1>1, <2>1 DEF OneEntryPerKey
<1>7. FuturesMatch'
  BY <1>2, <1>3 DEF PoolInv, FuturesMatch, PoolTyped
<1>8. LinesExact'
  <2>1. \A f \in Entries : WaitersOf(f)' = WaitersOf(f)
    BY <1>2, <1>3 DEF WaitersOf, PoolTyped
  <2> QED BY <2>1 DEF PoolInv, LinesExact
<1>9. HeadWoken'
  <2> SUFFICES ASSUME NEW u \in PoolTasks, future[u] = "set"
               PROVE  (~locked[entryOf[u]] /\ u = Head(waiters[entryOf[u]]))'
    BY DEF HeadWoken
  <2>1. place[u] = "waiting" /\ u # t /\ entryOf[u] # e
    BY <1>2, <1>3, <1>4 DEF PoolInv, FuturesMatch
  <2> QED BY <1>2, <2>1 DEF PoolInv, HeadWoken, PoolTyped
<1>10. NobodyForgotten'
  BY <1>2 DEF PoolInv, NobodyForgotten, PoolTyped
<1>11. OwnersExact'
  <2>1. \A u \in PoolTasks : place[u] = "in" => entryOf[u] # e /\ u # t
    BY <1>3 DEF PoolInv, OwnersExact, PoolAssumption
  <2>2. \A f \in Entries : owner[f] # NoOwner => owner[f] # t /\ f # e
    BY <1>3 DEF PoolInv, OwnersExact
  <2> QED BY <1>2, <2>1, <2>2 DEF PoolInv, OwnersExact, PoolTyped, PoolAssumption
<1>12. CountsExact'
  <2>1. \A f \in Entries : Len(waiters[f]) \in Nat
    BY <1>2, LenProperties DEF PoolTyped
  <2> QED BY <1>1, <1>2, <1>3, <2>1 DEF PoolInv, CountsExact, PoolTyped
<1> QED BY <1>1, <1>5, <1>6, <1>7, <1>8, <1>9, <1>10, <1>11, <1>12 DEF PoolInv

\* hold() of a key that is taken: a future at the end of the line.
LEMMA HoldWaitKeeps ==
  ASSUME PoolAssumption, PoolInv,
         NEW t \in PoolTasks, NEW k \in PoolKeys, NEW e \in Entries, HoldWait(t, k, e)
  PROVE  PoolInv'
<1> USE DEF HoldWait
<1>1. /\ entries' \in [PoolKeys -> Entries \cup {NoEntry}]
      /\ \A m, l \in PoolKeys : entries'[m] # NoEntry /\ entries'[m] = entries'[l] => m = l
      /\ \A l \in PoolKeys : entries[l] # NoEntry => entries'[l] = entries[l]
      /\ entries'[k] = e
      /\ InUse' = InUse \cup {e} /\ PoolBounded'
  BY PoolGrows
<1>2. PoolTyped
  BY DEF PoolInv
<1>3. place[t] = "out" /\ t \notin interrupted
  BY DEF PoolInv, FuturesMatch
<1>4. /\ waiters[e] \in Seq(PoolTasks) /\ IsInjective(waiters[e])
      /\ Range(waiters[e]) = WaitersOf(e) /\ t \notin Range(waiters[e])
  BY <1>2, <1>3 DEF PoolInv, LinesExact, PoolTyped, WaitersOf
<1>5. /\ waiters' = [waiters EXCEPT ![e] = Append(waiters[e], t)]
      /\ Append(waiters[e], t) \in Seq(PoolTasks) /\ IsInjective(Append(waiters[e], t))
      /\ Range(Append(waiters[e], t)) = Range(waiters[e]) \cup {t}
      /\ Len(Append(waiters[e], t)) = Len(waiters[e]) + 1
  BY <1>4, AppendFacts
<1>6. /\ Append(waiters[e], t) # <<>>
      /\ Head(Append(waiters[e], t)) = IF waiters[e] = <<>> THEN t ELSE Head(waiters[e])
  BY <1>4, AppendHead
<1>7. PoolTyped'
  BY <1>1, <1>2, <1>5 DEF PoolTyped
<1>8. OneEntryPerKey'
  <2>1. ASSUME NEW u \in PoolTasks, place'[u] # "out"
        PROVE  entryOf'[u] \in Entries /\ entries'[keyAt'[u]] = entryOf'[u]
    <3>1. CASE u = t
      BY <1>1, <1>2, <3>1 DEF PoolTyped
    <3>2. CASE u # t
      <4>1. entryOf[u] \in Entries /\ entries[keyAt[u]] = entryOf[u] /\ keyAt[u] \in PoolKeys
        BY <1>2, <2>1, <3>2 DEF PoolInv, OneEntryPerKey, PoolTyped
      <4> QED BY <1>1, <1>2, <3>2, <4>1 DEF PoolTyped, PoolAssumption
    <3> QED BY <3>1, <3>2
  <2> QED BY <1>1, <2>1 DEF OneEntryPerKey
<1>9. FuturesMatch'
  BY <1>2, <1>3 DEF PoolInv, FuturesMatch, PoolTyped
<1>10. LinesExact'
  <2>1. WaitersOf(e)' = WaitersOf(e) \cup {t}
    BY <1>2, <1>3 DEF WaitersOf, PoolTyped
  <2>2. \A f \in Entries : f # e => WaitersOf(f)' = WaitersOf(f)
    BY <1>2, <1>3 DEF WaitersOf, PoolTyped
  <2>3. \A f \in Entries : waiters'[f] = IF f = e THEN Append(waiters[e], t) ELSE waiters[f]
    BY <1>2 DEF PoolTyped
  <2> QED BY <1>4, <1>5, <2>1, <2>2, <2>3 DEF PoolInv, LinesExact
<1>11. HeadWoken'
  <2> SUFFICES ASSUME NEW u \in PoolTasks, future'[u] = "set"
               PROVE  (~locked[entryOf[u]] /\ u = Head(waiters[entryOf[u]]))'
    BY DEF HeadWoken
  <2>1. future[u] = "set" /\ place[u] = "waiting" /\ u # t
    BY <1>2, <1>3 DEF PoolInv, FuturesMatch, PoolTyped
  <2>2. /\ ~locked[entryOf[u]] /\ u = Head(waiters[entryOf[u]])
        /\ waiters[entryOf[u]] # <<>> /\ entryOf[u] \in Entries
    BY <2>1, InUseFacts DEF PoolInv, HeadWoken
  <2> QED BY <1>2, <1>6, <2>1, <2>2 DEF PoolTyped
<1>12. NobodyForgotten'
  <2> SUFFICES ASSUME NEW f \in Entries, ~locked[f], waiters'[f] # <<>>
               PROVE  future'[Head(waiters'[f])] # "pending"
    BY DEF NobodyForgotten
  <2>1. CASE f = e
    <3>1. waiters[e] # <<>>
      <4>1. \E i \in DOMAIN waiters[e] : future[waiters[e][i]] # "cancelled"
        BY <2>1 DEF Acquirable
      <4> QED BY <1>4, <4>1, EmptyFacts DEF Range
    <3>2. Head(waiters[e]) \in Range(waiters[e])
      BY <1>4, <3>1, TailFacts
    <3> QED BY <1>2, <1>4, <1>6, <2>1, <3>1, <3>2 DEF PoolInv, NobodyForgotten, PoolTyped
  <2>2. CASE f # e
    <3>1. waiters'[f] = waiters[f] /\ waiters[f] \in Seq(PoolTasks) /\ IsInjective(waiters[f])
      BY <1>2, <2>2 DEF PoolInv, LinesExact, PoolTyped
    <3>2. waiters[f] # <<>>
      BY <3>1
    <3>3. Head(waiters[f]) # t
      BY <1>3, <3>2, LineFacts
    <3> QED BY <1>2, <3>1, <3>3 DEF PoolInv, NobodyForgotten, PoolTyped
  <2> QED BY <2>1, <2>2
<1>13. OwnersExact'
  BY <1>2, <1>3 DEF PoolInv, OwnersExact, PoolTyped, PoolAssumption
<1>14. CountsExact'
  <2>1. \A f \in Entries : Len(waiters[f]) \in Nat
    BY <1>2, LenProperties DEF PoolTyped
  <2> QED BY <1>1, <1>2, <1>5, <2>1 DEF PoolInv, CountsExact, PoolTyped
<1> QED BY <1>1, <1>7, <1>8, <1>9, <1>10, <1>11, <1>12, <1>13, <1>14 DEF PoolInv

\* hold() by the owner of the key: one level deeper.
LEMMA HoldAgainKeeps ==
  ASSUME PoolAssumption, PoolInv, NEW t \in PoolTasks, HoldAgain(t)
  PROVE  PoolInv'
<1> DEFINE e == entryOf[t]
<1>1. PoolTyped /\ place[t] = "in" /\ e \in Entries /\ e \in InUse /\ depth[e] > 0 /\ owner[e] = t
  BY InUseFacts DEF PoolInv, HoldAgain
<1>2. /\ users' = [users EXCEPT ![e] = @ + 1] /\ depth' = [depth EXCEPT ![e] = @ + 1]
      /\ UNCHANGED <<entries, owner, locked, waiters, future, place, keyAt, entryOf, interrupted>>
  BY DEF HoldAgain, mutexVars
<1> HIDE DEF e
<1>3. InUse' = InUse /\ \A f \in Entries : WaitersOf(f)' = WaitersOf(f)
  BY <1>2 DEF InUse, WaitersOf
<1>4. PoolTyped'
  BY <1>1, <1>2 DEF PoolTyped
<1>5. OwnersExact'
  BY <1>1, <1>2 DEF PoolInv, OwnersExact, PoolTyped, PoolAssumption
<1>6. CountsExact'
  <2>1. \A f \in Entries : Len(waiters[f]) \in Nat
    BY LineFacts
  <2>2. \A f \in Entries : /\ users'[f] = IF f = e THEN users[f] + 1 ELSE users[f]
                           /\ depth'[f] = IF f = e THEN depth[f] + 1 ELSE depth[f]
                           /\ users[f] \in Nat /\ depth[f] \in Nat
    BY <1>1, <1>2 DEF PoolTyped
  <2> QED BY SMTT(30), <1>1, <1>2, <1>3, <2>1, <2>2 DEF PoolInv, CountsExact
<1>7. LinesExact' /\ PoolBounded'
  BY <1>2, <1>3 DEF PoolInv, LinesExact, PoolBounded
<1>8. (OneEntryPerKey /\ FuturesMatch /\ HeadWoken /\ NobodyForgotten)'
  BY <1>2 DEF PoolInv, OneEntryPerKey, FuturesMatch, HeadWoken, NobodyForgotten
<1> QED BY <1>4, <1>5, <1>6, <1>7, <1>8 DEF PoolInv

\* A woken waiter takes the lock.
LEMMA ResumeKeeps ==
  ASSUME PoolAssumption, PoolInv, NEW t \in PoolTasks, Resume(t)
  PROVE  PoolInv'
<1> DEFINE e == entryOf[t]
           rest == Without(waiters[e], t)
<1>1. /\ PoolTyped /\ place[t] = "waiting" /\ future[t] = "set" /\ t \notin interrupted
      /\ e \in Entries /\ e \in InUse /\ t \in Range(waiters[e])
  BY InUseFacts DEF PoolInv, Resume
<1>2. /\ waiters' = [waiters EXCEPT ![e] = rest]
      /\ future' = [future EXCEPT ![t] = "none"] /\ locked' = [locked EXCEPT ![e] = TRUE]
      /\ owner' = [owner EXCEPT ![e] = t] /\ depth' = [depth EXCEPT ![e] = 1]
      /\ place' = [place EXCEPT ![t] = "in"]
      /\ UNCHANGED <<entries, users, keyAt, entryOf, interrupted>>
  BY DEF Resume
<1>3. /\ rest \in Seq(PoolTasks) /\ IsInjective(rest) /\ Range(rest) = Range(waiters[e]) \ {t}
      /\ Len(rest) = Len(waiters[e]) - 1
  BY ZenonT(60), <1>1, LineFacts, WithoutFacts
<1>4. ~locked[e] /\ owner[e] = NoOwner /\ depth[e] = 0 /\ t = Head(waiters[e])
  BY <1>1 DEF PoolInv, HeadWoken, OwnersExact, PoolTyped
<1> HIDE DEF e, rest
<1>5. /\ InUse' = InUse
      /\ \A f \in Entries : WaitersOf(f)' = IF f = e THEN WaitersOf(f) \ {t} ELSE WaitersOf(f)
  BY <1>1, <1>2 DEF InUse, WaitersOf, PoolTyped, e
<1>6. PoolTyped'
  BY <1>1, <1>2, <1>3 DEF PoolTyped
<1>7. OneEntryPerKey' /\ PoolBounded'
  BY <1>1, <1>2, <1>5 DEF PoolInv, OneEntryPerKey, PoolBounded, PoolTyped
<1>8. FuturesMatch'
  BY <1>1, <1>2 DEF PoolInv, FuturesMatch, PoolTyped
<1>9. LinesExact'
  <2>1. \A f \in Entries : waiters'[f] = IF f = e THEN rest ELSE waiters[f]
    BY <1>1, <1>2 DEF PoolTyped
  <2>2. Range(rest) = WaitersOf(e) \ {t}
    BY <1>1, <1>3, LineFacts
  <2>3. ASSUME NEW f \in Entries
        PROVE  IsInjective(waiters'[f]) /\ Range(waiters'[f]) = WaitersOf(f)'
    <3>1. CASE f = e
      <4>1. waiters'[f] = rest /\ WaitersOf(f)' = WaitersOf(e) \ {t}
        BY <1>5, <2>1, <3>1
      <4> QED BY <1>3, <2>2, <4>1
    <3>2. CASE f # e
      <4>1. waiters'[f] = waiters[f] /\ WaitersOf(f)' = WaitersOf(f)
        BY <1>5, <2>1, <3>2
      <4> QED BY <4>1, LineFacts
    <3> QED BY <3>1, <3>2
  <2> QED BY <2>3 DEF LinesExact
<1>10. HeadWoken'
  <2> SUFFICES ASSUME NEW u \in PoolTasks, future'[u] = "set"
               PROVE  (~locked[entryOf[u]] /\ u = Head(waiters[entryOf[u]]))'
    BY DEF HeadWoken
  <2>1. u # t /\ future[u] = "set"
    BY <1>1, <1>2 DEF PoolTyped
  <2>2. ~locked[entryOf[u]] /\ u = Head(waiters[entryOf[u]])
    BY <2>1 DEF PoolInv, HeadWoken
  <2>3. entryOf[u] # e
    BY <1>4, <2>1, <2>2
  <2> QED BY <1>1, <1>2, <2>2, <2>3 DEF PoolTyped
<1>11. NobodyForgotten'
  <2> SUFFICES ASSUME NEW f \in Entries, ~locked'[f], waiters'[f] # <<>>
               PROVE  future'[Head(waiters'[f])] # "pending"
    BY DEF NobodyForgotten
  <2>1. f # e /\ waiters'[f] = waiters[f] /\ ~locked[f] /\ waiters[f] # <<>>
    BY <1>1, <1>2 DEF PoolTyped
  <2>2. Head(waiters[f]) \in PoolTasks /\ future[Head(waiters[f])] # "pending"
    BY <2>1, LineFacts DEF PoolInv, NobodyForgotten
  <2> QED BY <1>1, <1>2, <2>1, <2>2 DEF PoolTyped
<1>12. OwnersExact'
  <2>1. \A u \in PoolTasks : place[u] = "in" => entryOf[u] # e
    BY <1>4 DEF PoolInv, OwnersExact, PoolAssumption
  <2>2. \A f \in Entries : owner[f] # NoOwner => owner[f] # t
    BY <1>1 DEF PoolInv, OwnersExact
  <2> QED BY <1>1, <1>2, <2>1, <2>2 DEF PoolInv, OwnersExact, PoolTyped, PoolAssumption, e
<1>13. CountsExact'
  <2>1. \A f \in Entries : Len(waiters[f]) \in Nat
    BY LineFacts
  <2> QED BY <1>1, <1>2, <1>3, <1>4, <1>5, <2>1 DEF PoolInv, CountsExact, PoolTyped
<1> QED BY <1>6, <1>7, <1>8, <1>9, <1>10, <1>11, <1>12, <1>13 DEF PoolInv

\* Somebody cancels a task that waits.
LEMMA InterruptKeeps ==
  ASSUME PoolAssumption, PoolInv, NEW t \in PoolTasks, Interrupt(t)
  PROVE  PoolInv'
<1>1. /\ PoolTyped /\ place[t] = "waiting" /\ interrupted' = interrupted \cup {t}
      /\ future' = [future EXCEPT ![t] = IF @ = "pending" THEN "cancelled" ELSE @]
      /\ UNCHANGED <<entries, users, owner, depth, locked, waiters, place, keyAt, entryOf>>
  BY DEF PoolInv, Interrupt, entryVars
<1>2. InUse' = InUse /\ \A f \in Entries : WaitersOf(f)' = WaitersOf(f)
  BY <1>1 DEF InUse, WaitersOf
<1>3. PoolTyped' /\ FuturesMatch'
  BY <1>1 DEF PoolInv, PoolTyped, FuturesMatch
<1>4. HeadWoken'
  BY <1>1 DEF PoolInv, PoolTyped, HeadWoken
<1>5. NobodyForgotten'
  <2> SUFFICES ASSUME NEW f \in Entries, ~locked[f], waiters[f] # <<>>
               PROVE  future'[Head(waiters[f])] # "pending"
    BY <1>1 DEF NobodyForgotten
  <2>1. Head(waiters[f]) \in PoolTasks /\ future[Head(waiters[f])] # "pending"
    BY LineFacts DEF PoolInv, NobodyForgotten
  <2> QED BY <1>1, <2>1 DEF PoolTyped
<1>6. (OneEntryPerKey /\ LinesExact /\ OwnersExact /\ CountsExact /\ PoolBounded)'
  BY <1>1, <1>2 DEF PoolInv, OneEntryPerKey, LinesExact, OwnersExact, CountsExact, PoolBounded
<1> QED BY <1>3, <1>4, <1>5, <1>6 DEF PoolInv

\* The cancelled waiter leaves; if it was woken, the next one is.
LEMMA GiveUpKeeps ==
  ASSUME PoolAssumption, PoolInv, NEW t \in PoolTasks, GiveUp(t)
  PROVE  PoolInv'
<1> DEFINE e == entryOf[t]
           rest == Without(waiters[e], t)
           n == users[e] - 1
           woken(u) == ~locked[e] /\ rest # <<>> /\ u = Head(rest) /\ future[u] = "pending"
<1>1. /\ PoolTyped /\ place[t] = "waiting" /\ t \in interrupted
      /\ e \in Entries /\ e \in InUse /\ users[e] > 0 /\ t \in Range(waiters[e])
      /\ n \in Nat /\ waiters[e] # <<>>
  BY InUseFacts DEF PoolInv, PoolTyped, GiveUp
<1>2. /\ waiters' = [waiters EXCEPT ![e] = rest]
      /\ users' = [users EXCEPT ![e] = n] /\ entries' = PoolAfter(e, n)
      /\ place' = [place EXCEPT ![t] = "out"] /\ entryOf' = [entryOf EXCEPT ![t] = NoEntry]
      /\ interrupted' = interrupted \ {t} /\ UNCHANGED <<owner, depth, locked, keyAt>>
  BY DEF GiveUp
<1>3. /\ rest \in Seq(PoolTasks) /\ IsInjective(rest) /\ Range(rest) = Range(waiters[e]) \ {t}
      /\ Len(rest) = Len(waiters[e]) - 1
      /\ rest # <<>> => Head(rest) \in Range(rest)
  <2>1. /\ rest \in Seq(PoolTasks) /\ IsInjective(rest) /\ Range(rest) = Range(waiters[e]) \ {t}
        /\ Len(rest) = Len(waiters[e]) - 1
    BY SMTT(30), <1>1, LineFacts, WithoutFacts
  <2> HIDE DEF rest
  <2> QED BY <2>1, TailFacts
<1>4. /\ entries' \in [PoolKeys -> Entries \cup {NoEntry}]
      /\ \A m, l \in PoolKeys : entries'[m] # NoEntry /\ entries'[m] = entries'[l] => m = l
      /\ \A l \in PoolKeys : n # 0 \/ entries[l] # e => entries'[l] = entries[l]
      /\ InUse' = IF n = 0 THEN InUse \ {e} ELSE InUse
      /\ PoolBounded'
  BY <1>1, <1>2, PoolShrinks
<1>5. n = 0 => \A u \in PoolTasks : u # t /\ place[u] # "out" => entryOf[u] # e
  BY <1>1, LastUser DEF PoolTyped
<1>6. \A u \in PoolTasks : future'[u] = IF u = t THEN "none"
                                   ELSE IF woken(u) THEN "set" ELSE future[u]
  <2>1. future' = IF locked[e] THEN [future EXCEPT ![t] = "none"]
                  ELSE WakeFirst(rest, [future EXCEPT ![t] = "none"])
    BY DEF GiveUp
  <2>2. rest # <<>> => Head(rest) \in PoolTasks /\ Head(rest) # t
    BY <1>1, <1>3, LineFacts DEF WaitersOf
  <2> HIDE DEF e, rest
  <2> QED BY <1>1, <2>1, <2>2 DEF WakeFirst, PoolTyped
<1>7. /\ future' \in [PoolTasks -> {"none", "pending", "set", "cancelled"}]
  BY <1>1, <1>3, LineFacts DEF GiveUp, WakeFirst, PoolTyped
<1>8. \A f \in Entries : WaitersOf(f)' = IF f = e THEN WaitersOf(f) \ {t} ELSE WaitersOf(f)
  <2>1. \A u \in PoolTasks : /\ u # t => place'[u] = place[u] /\ entryOf'[u] = entryOf[u]
                         /\ place'[t] = "out" /\ place[t] = "waiting" /\ entryOf[t] = e
    BY <1>1, <1>2 DEF PoolTyped
  <2> HIDE DEF e
  <2> QED BY <2>1 DEF WaitersOf
<1>9. rest # <<>> => place[Head(rest)] = "waiting" /\ entryOf[Head(rest)] = e /\ Head(rest) # t
  BY <1>1, <1>3, LineFacts DEF WaitersOf
<1>10. t # Head(waiters[e]) => rest # <<>> /\ Head(rest) = Head(waiters[e])
  BY <1>1, LineFacts, WithoutHead
<1> HIDE DEF e, rest, n, woken
<1>11. PoolTyped'
  BY <1>1, <1>2, <1>3, <1>4, <1>7 DEF PoolTyped
<1>12. OneEntryPerKey'
  <2>1. ASSUME NEW u \in PoolTasks, place'[u] # "out"
        PROVE  entryOf'[u] \in Entries /\ entries'[keyAt'[u]] = entryOf'[u]
    <3>1. u # t /\ place[u] # "out" /\ entryOf'[u] = entryOf[u] /\ keyAt'[u] = keyAt[u]
      BY <1>1, <1>2, <2>1 DEF PoolTyped
    <3>2. entryOf[u] \in Entries /\ entries[keyAt[u]] = entryOf[u] /\ keyAt[u] \in PoolKeys
      BY <1>1, <3>1 DEF PoolInv, OneEntryPerKey, PoolTyped
    <3> QED BY <1>4, <1>5, <3>1, <3>2
  <2> QED BY <1>4, <2>1 DEF OneEntryPerKey
<1>13. FuturesMatch'
  <2>1. \A u \in PoolTasks : woken(u) => u # t /\ future[u] = "pending" /\ place[u] = "waiting"
    BY <1>9 DEF woken
  <2> QED BY <1>1, <1>2, <1>6, <2>1 DEF PoolInv, FuturesMatch, PoolTyped
<1>14. LinesExact'
  <2>1. \A f \in Entries : waiters'[f] = IF f = e THEN rest ELSE waiters[f]
    BY <1>1, <1>2 DEF PoolTyped
  <2>2. Range(rest) = WaitersOf(e) \ {t}
    BY <1>1, <1>3, LineFacts
  <2>3. ASSUME NEW f \in Entries
        PROVE  IsInjective(waiters'[f]) /\ Range(waiters'[f]) = WaitersOf(f)'
    <3>1. CASE f = e
      <4>1. waiters'[f] = rest /\ WaitersOf(f)' = WaitersOf(e) \ {t}
        BY <1>8, <2>1, <3>1
      <4> QED BY <1>3, <2>2, <4>1
    <3>2. CASE f # e
      <4>1. waiters'[f] = waiters[f] /\ WaitersOf(f)' = WaitersOf(f)
        BY <1>8, <2>1, <3>2
      <4> QED BY <4>1, LineFacts
    <3> QED BY <3>1, <3>2
  <2> QED BY <2>3 DEF LinesExact
<1>15. HeadWoken'
  <2> SUFFICES ASSUME NEW u \in PoolTasks, future'[u] = "set"
               PROVE  (~locked[entryOf[u]] /\ u = Head(waiters[entryOf[u]]))'
    BY DEF HeadWoken
  <2>1. u # t /\ entryOf'[u] = entryOf[u]
    BY <1>1, <1>2, <1>6 DEF PoolTyped
  <2>2. CASE woken(u)
    <3>1. entryOf[u] = e /\ ~locked[e] /\ u = Head(rest)
      BY <1>9, <2>2 DEF woken
    <3> QED BY <1>1, <1>2, <2>1, <3>1 DEF PoolTyped
  <2>3. CASE ~woken(u)
    <3>1. future[u] = "set" /\ ~locked[entryOf[u]] /\ u = Head(waiters[entryOf[u]])
      BY <1>6, <2>1, <2>3 DEF PoolInv, HeadWoken
    <3>2. waiters'[entryOf[u]] = IF entryOf[u] = e THEN rest ELSE waiters[entryOf[u]]
      <4>1. entryOf[u] \in Entries
        BY <3>1, InUseFacts DEF PoolInv, FuturesMatch
      <4> QED BY <1>1, <1>2, <4>1 DEF PoolTyped
    <3> QED BY <1>2, <1>10, <2>1, <3>1, <3>2
  <2> QED BY <2>2, <2>3
<1>16. NobodyForgotten'
  <2> SUFFICES ASSUME NEW f \in Entries, ~locked[f], waiters'[f] # <<>>
               PROVE  future'[Head(waiters'[f])] # "pending"
    BY <1>2 DEF NobodyForgotten
  <2>1. CASE f = e
    <3>1. waiters'[f] = rest /\ rest # <<>>
      BY <1>1, <1>2, <2>1 DEF PoolTyped
    <3>2. Head(rest) \in PoolTasks
      BY <1>3, <3>1, LineFacts, <1>1 DEF WaitersOf
    <3> QED BY <1>6, <1>9, <2>1, <3>1, <3>2 DEF woken
  <2>2. CASE f # e
    <3>1. waiters'[f] = waiters[f] /\ waiters[f] # <<>>
      BY <1>1, <1>2, <2>2 DEF PoolTyped
    <3>2. /\ Head(waiters[f]) \in PoolTasks /\ entryOf[Head(waiters[f])] = f
          /\ future[Head(waiters[f])] # "pending"
      BY <3>1, LineFacts DEF PoolInv, NobodyForgotten
    <3>3. Head(waiters[f]) # t
      BY <2>2, <3>2 DEF e
    <3> QED BY <1>6, <3>1, <3>2, <3>3
  <2> QED BY <2>1, <2>2
<1>17. OwnersExact'
  <2>1. \A f \in Entries : owner[f] # NoOwner => owner[f] # t
    BY <1>1 DEF PoolInv, OwnersExact
  <2> QED BY <1>1, <1>2, <2>1 DEF PoolInv, OwnersExact, PoolTyped
<1>18. CountsExact'
  <2>1. \A f \in Entries : Len(waiters[f]) \in Nat
    BY LineFacts
  <2> QED BY SMTT(30), <1>1, <1>2, <1>3, <1>4, <2>1 DEF PoolInv, CountsExact, PoolTyped, n
<1> QED BY <1>4, <1>11, <1>12, <1>13, <1>14, <1>15, <1>16, <1>17, <1>18 DEF PoolInv

\* The end of a nested hold().
LEMMA ReleaseInnerKeeps ==
  ASSUME PoolAssumption, PoolInv, NEW t \in PoolTasks, ReleaseInner(t)
  PROVE  PoolInv'
<1> DEFINE e == entryOf[t]
<1>1. /\ PoolTyped /\ place[t] = "in" /\ e \in Entries /\ e \in InUse /\ owner[e] = t
      /\ depth[e] > 1 /\ Len(waiters[e]) \in Nat /\ users[e] = Len(waiters[e]) + depth[e]
      /\ users[e] - 1 \in Nat \ {0}
  BY SMTT(30), InUseFacts, LineFacts DEF PoolInv, PoolTyped, CountsExact, ReleaseInner
<1>2. /\ users' = [users EXCEPT ![e] = @ - 1] /\ depth' = [depth EXCEPT ![e] = @ - 1]
      /\ UNCHANGED <<entries, owner, locked, waiters, future, place, keyAt, entryOf, interrupted>>
  BY <1>1 DEF ReleaseInner, PoolAfter, mutexVars
<1> HIDE DEF e
<1>3. InUse' = InUse /\ \A f \in Entries : WaitersOf(f)' = WaitersOf(f)
  BY <1>2 DEF InUse, WaitersOf
<1>4. PoolTyped'
  BY <1>1, <1>2 DEF PoolTyped
<1>5. OwnersExact'
  BY <1>1, <1>2 DEF PoolInv, OwnersExact, PoolTyped, PoolAssumption
<1>6. CountsExact'
  <2>1. \A f \in Entries : Len(waiters[f]) \in Nat
    BY LineFacts
  <2> QED BY <1>1, <1>2, <1>3, <2>1 DEF PoolInv, CountsExact, PoolTyped
<1>7. LinesExact' /\ PoolBounded'
  BY <1>2, <1>3 DEF PoolInv, LinesExact, PoolBounded
<1>8. (OneEntryPerKey /\ FuturesMatch /\ HeadWoken /\ NobodyForgotten)'
  BY <1>2 DEF PoolInv, OneEntryPerKey, FuturesMatch, HeadWoken, NobodyForgotten
<1> QED BY <1>4, <1>5, <1>6, <1>7, <1>8 DEF PoolInv

\* The end of the outermost hold(): the lock is free, the first is woken.
LEMMA ReleaseOuterKeeps ==
  ASSUME PoolAssumption, PoolInv, NEW t \in PoolTasks, ReleaseOuter(t)
  PROVE  PoolInv'
<1> DEFINE e == entryOf[t]
           queue == waiters[e]
           n == users[e] - 1
           woken(u) == queue # <<>> /\ u = Head(queue) /\ future[u] = "pending"
<1>1. /\ PoolTyped /\ place[t] = "in" /\ t \notin interrupted
      /\ e \in Entries /\ e \in InUse /\ users[e] > 0 /\ owner[e] = t /\ locked[e]
      /\ depth[e] = 1 /\ Len(queue) \in Nat /\ n \in Nat /\ n = Len(queue)
  BY SMTT(30), InUseFacts, LineFacts DEF PoolInv, PoolTyped, FuturesMatch, CountsExact, ReleaseOuter
<1>2. /\ depth' = [depth EXCEPT ![e] = 0] /\ owner' = [owner EXCEPT ![e] = NoOwner]
      /\ locked' = [locked EXCEPT ![e] = FALSE]
      /\ users' = [users EXCEPT ![e] = n] /\ entries' = PoolAfter(e, n)
      /\ place' = [place EXCEPT ![t] = "out"] /\ entryOf' = [entryOf EXCEPT ![t] = NoEntry]
      /\ UNCHANGED <<waiters, keyAt, interrupted>>
  BY DEF ReleaseOuter
<1>3. queue # <<>> => /\ Head(queue) \in PoolTasks /\ place[Head(queue)] = "waiting"
                     /\ entryOf[Head(queue)] = e /\ Head(queue) # t
  BY <1>1, LineFacts
<1>4. /\ entries' \in [PoolKeys -> Entries \cup {NoEntry}]
      /\ \A m, l \in PoolKeys : entries'[m] # NoEntry /\ entries'[m] = entries'[l] => m = l
      /\ \A l \in PoolKeys : n # 0 \/ entries[l] # e => entries'[l] = entries[l]
      /\ InUse' = IF n = 0 THEN InUse \ {e} ELSE InUse
      /\ PoolBounded'
  BY <1>1, <1>2, PoolShrinks
<1>5. n = 0 => \A u \in PoolTasks : u # t /\ place[u] # "out" => entryOf[u] # e
  BY <1>1, LastUser DEF PoolTyped
<1>6. future' = WakeFirst(queue, future)
  BY DEF ReleaseOuter
<1> HIDE DEF e, queue, n
<1>7. /\ future' \in [PoolTasks -> {"none", "pending", "set", "cancelled"}]
      /\ \A u \in PoolTasks : future'[u] = IF woken(u) THEN "set" ELSE future[u]
  BY <1>1, <1>3, <1>6 DEF WakeFirst, PoolTyped
<1> HIDE DEF woken
<1>8. \A f \in Entries : WaitersOf(f)' = WaitersOf(f)
  BY <1>1, <1>2 DEF WaitersOf, PoolTyped
<1>9. PoolTyped'
  BY <1>1, <1>2, <1>4, <1>7 DEF PoolTyped
<1>10. OneEntryPerKey'
  <2>1. ASSUME NEW u \in PoolTasks, place'[u] # "out"
        PROVE  entryOf'[u] \in Entries /\ entries'[keyAt'[u]] = entryOf'[u]
    <3>1. u # t /\ place[u] # "out" /\ entryOf'[u] = entryOf[u] /\ keyAt'[u] = keyAt[u]
      BY <1>1, <1>2, <2>1 DEF PoolTyped
    <3>2. entryOf[u] \in Entries /\ entries[keyAt[u]] = entryOf[u] /\ keyAt[u] \in PoolKeys
      BY <1>1, <3>1 DEF PoolInv, OneEntryPerKey, PoolTyped
    <3> QED BY <1>4, <1>5, <3>1, <3>2
  <2> QED BY <1>4, <2>1 DEF OneEntryPerKey
<1>11. FuturesMatch'
  <2>1. \A u \in PoolTasks : woken(u) => future[u] = "pending" /\ place[u] = "waiting" /\ u # t
    BY <1>3 DEF woken
  <2> QED BY <1>1, <1>2, <1>7, <2>1 DEF PoolInv, FuturesMatch, PoolTyped
<1>12. LinesExact'
  BY <1>2, <1>8 DEF PoolInv, LinesExact
<1>13. HeadWoken'
  <2> SUFFICES ASSUME NEW u \in PoolTasks, future'[u] = "set"
               PROVE  (~locked[entryOf[u]] /\ u = Head(waiters[entryOf[u]]))'
    BY DEF HeadWoken
  <2>1. CASE woken(u)
    <3>1. entryOf'[u] = e /\ u = Head(queue)
      BY <1>1, <1>2, <1>3, <2>1 DEF woken, PoolTyped
    <3> QED BY <1>1, <1>2, <3>1 DEF PoolTyped, queue
  <2>2. CASE ~woken(u)
    <3>1. /\ future[u] = "set" /\ ~locked[entryOf[u]] /\ u = Head(waiters[entryOf[u]])
          /\ place[u] = "waiting"
      BY <1>7, <2>2 DEF PoolInv, HeadWoken, FuturesMatch
    <3>2. u # t /\ entryOf[u] \in Entries
      BY <1>1, <3>1, InUseFacts
    <3> QED BY <1>1, <1>2, <3>1, <3>2 DEF PoolTyped
  <2> QED BY <2>1, <2>2
<1>14. NobodyForgotten'
  <2> SUFFICES ASSUME NEW f \in Entries, ~locked'[f], waiters[f] # <<>>
               PROVE  future'[Head(waiters[f])] # "pending"
    BY <1>2 DEF NobodyForgotten
  <2>1. Head(waiters[f]) \in PoolTasks
    BY LineFacts
  <2>2. CASE f = e
    BY <1>7, <2>1, <2>2 DEF woken, queue
  <2>3. CASE f # e
    BY <1>1, <1>2, <1>7, <2>1, <2>3 DEF PoolInv, NobodyForgotten, PoolTyped
  <2> QED BY <2>2, <2>3
<1>15. OwnersExact'
  <2>1. \A u \in PoolTasks : place[u] = "in" /\ u # t => entryOf[u] # e
    BY <1>1 DEF PoolInv, OwnersExact
  <2>2. \A f \in Entries : f # e /\ owner[f] # NoOwner => owner[f] # t
    BY <1>1 DEF PoolInv, OwnersExact, e
  <2> QED BY <1>1, <1>2, <2>1, <2>2 DEF PoolInv, OwnersExact, PoolTyped, PoolAssumption
<1>16. CountsExact'
  <2>1. \A f \in Entries : Len(waiters[f]) \in Nat
    BY LineFacts
  <2> QED BY <1>1, <1>2, <1>4, <2>1 DEF PoolInv, CountsExact, PoolTyped, queue
<1> QED BY <1>4, <1>9, <1>10, <1>11, <1>12, <1>13, <1>14, <1>15, <1>16 DEF PoolInv

-----------------------------------------------------------------------------
\* Every step of every task keeps the invariant.
LEMMA PoolStep == PoolAssumption /\ PoolInv /\ [PoolNext]_poolVars => PoolInv'
<1> SUFFICES ASSUME PoolAssumption, PoolInv, [PoolNext]_poolVars PROVE PoolInv'
  OBVIOUS
<1>1. ASSUME NEW t \in PoolTasks, NEW k \in PoolKeys, NEW e \in Entries,
             HoldFree(t, k, e) \/ HoldWait(t, k, e)
      PROVE  PoolInv'
  BY <1>1, HoldFreeKeeps, HoldWaitKeeps
<1>2. ASSUME NEW t \in PoolTasks, HoldAgain(t) \/ Interrupt(t)
      PROVE  PoolInv'
  BY <1>2, HoldAgainKeeps, InterruptKeeps
<1>3. ASSUME NEW t \in PoolTasks, TaskStep(t)
      PROVE  PoolInv'
  BY <1>3, ResumeKeeps, GiveUpKeeps, ReleaseInnerKeeps, ReleaseOuterKeeps DEF TaskStep
<1>4. CASE UNCHANGED poolVars
  <2>1. InUse' = InUse /\ \A f \in Entries : WaitersOf(f)' = WaitersOf(f)
    BY <1>4 DEF InUse, WaitersOf, poolVars
  <2> QED BY <1>4, <2>1 DEF PoolInv, PoolTyped, OneEntryPerKey, FuturesMatch, LinesExact, HeadWoken,
             NobodyForgotten, OwnersExact, CountsExact, PoolBounded, poolVars, entryVars, mutexVars
<1> QED BY <1>1, <1>2, <1>3, <1>4 DEF PoolNext

\* The bookkeeping of hold() is exact in every reachable state: see PoolInv.
THEOREM PoolInvariance == ASSUME PoolAssumption PROVE PoolSpec => []PoolInv
<1>1. PoolInit => PoolInv
  BY PoolInitially
<1>2. PoolInv /\ [PoolNext]_poolVars => PoolInv'
  BY PoolStep
<1> QED BY <1>1, <1>2, PTL DEF PoolSpec

\* An entry of the pool has exactly the users that hold or await it and goes
\* with the last of them, the checks in hold()'s finally block never fail, and
\* the first waiter of a free lock has always been woken, for any number of tasks
\* and keys and in any order of entries, re-entries, cancellations and releases.
THEOREM ReferencesExact == ASSUME PoolAssumption PROVE PoolSpec => []EntriesExact
<1>1. PoolInv => EntriesExact
  <2> SUFFICES ASSUME PoolInv PROVE EntriesExact
    OBVIOUS
  <2>1. \A e \in Entries : users[e] = Cardinality(WaitersOf(e)) + depth[e]
    BY LineFacts, LenIsCardinality DEF PoolInv, CountsExact
  <2>2. ASSUME NEW e \in Entries, users[e] = 0 PROVE owner[e] = NoOwner /\ ~locked[e]
    BY <2>2, LineFacts DEF PoolInv, CountsExact, OwnersExact, PoolTyped
  <2> QED BY <2>1, <2>2 DEF PoolInv, EntriesExact, OneEntryPerKey, CountsExact, PoolBounded
<1> QED BY <1>1, PoolInvariance, PTL

\* hold() excludes: two tasks are never at one key together, although the key's
\* entry may have been reclaimed and made anew in between.
THEOREM Excludes == ASSUME PoolAssumption PROVE PoolSpec => []OneHolder
<1>1. PoolInv => OneHolder
  BY DEF PoolInv, OneHolder, OneEntryPerKey, OwnersExact
<1> QED BY <1>1, PoolInvariance, PTL

-----------------------------------------------------------------------------
(* The pool as a mutex per key *)

\* The line of key k, as the mutex sees it
LineAt(k) == Order(waiters[entries[k]], WaitingFor(k))

HoldersKnown ==
  \A k \in PoolKeys :
    /\ \A t \in PoolTasks : place[t] = "in" /\ keyAt[t] = k => HolderOf(k) = t
    /\ (\A t \in PoolTasks : ~(place[t] = "in" /\ keyAt[t] = k)) => HolderOf(k) = NoOwner

LinesKnown ==
  \A k \in PoolKeys :
    /\ WaitingFor(k) = {} => LineAt(k) = {}
    /\ WaitingFor(k) # {} =>
         entries[k] \in Entries /\ WaitingFor(k) \subseteq Range(waiters[entries[k]])

\* A step leaves all that the mutex of key k shows
ViewKept(k) ==
  /\ HolderOf(k)' = HolderOf(k) /\ WaitingFor(k)' = WaitingFor(k) /\ LineAt(k)' = LineAt(k)

\* Who is at a key is its holder, as no other is.
LEMMA HoldersFacts == ASSUME PoolAssumption PROVE PoolInv => HoldersKnown
<1> SUFFICES ASSUME PoolInv, NEW k \in PoolKeys
             PROVE  /\ \A t \in PoolTasks : place[t] = "in" /\ keyAt[t] = k => HolderOf(k) = t
                    /\ (\A t \in PoolTasks : ~(place[t] = "in" /\ keyAt[t] = k))
                         => HolderOf(k) = NoOwner
  BY DEF HoldersKnown
<1>1. OneHolder
  BY DEF PoolInv, OneHolder, OneEntryPerKey, OwnersExact
<1>2. ASSUME NEW t \in PoolTasks, place[t] = "in", keyAt[t] = k
      PROVE  HolderOf(k) = t
  <2> DEFINE h == CHOOSE u \in PoolTasks : place[u] = "in" /\ keyAt[u] = k
  <2>1. h \in PoolTasks /\ place[h] = "in" /\ keyAt[h] = k
    BY <1>2
  <2>2. HolderOf(k) = h
    BY <1>2 DEF HolderOf
  <2> HIDE DEF h
  <2> QED BY <1>1, <1>2, <2>1, <2>2 DEF OneHolder
<1>3. (\A t \in PoolTasks : ~(place[t] = "in" /\ keyAt[t] = k)) => HolderOf(k) = NoOwner
  BY DEF HolderOf
<1> QED BY <1>2, <1>3

\* Those who wait for a key stand in the line of its entry.
LEMMA LinesFacts == ASSUME PoolAssumption PROVE PoolInv => LinesKnown
<1> SUFFICES ASSUME PoolInv, NEW k \in PoolKeys
             PROVE  /\ WaitingFor(k) = {} => LineAt(k) = {}
                    /\ WaitingFor(k) # {} =>
                         /\ entries[k] \in Entries
                         /\ WaitingFor(k) \subseteq Range(waiters[entries[k]])
  BY DEF LinesKnown
<1>1. WaitingFor(k) = {} => LineAt(k) = {}
  BY DEF LineAt, Order
<1>2. ASSUME NEW t \in WaitingFor(k)
      PROVE  entries[k] \in Entries /\ t \in Range(waiters[entries[k]])
  <2>1. t \in PoolTasks /\ place[t] = "waiting" /\ keyAt[t] = k
    BY DEF WaitingFor
  <2>2. entryOf[t] \in Entries /\ entries[k] = entryOf[t] /\ t \in Range(waiters[entryOf[t]])
    BY <2>1, InUseFacts DEF PoolInv, OneEntryPerKey
  <2> QED BY <2>2
<1> QED BY <1>1, <1>2

LEMMA KnownFacts ==
  ASSUME PoolAssumption
  PROVE  PoolInv /\ PoolInv' => HoldersKnown /\ HoldersKnown' /\ LinesKnown /\ LinesKnown'
BY HoldersFacts, LinesFacts, PTL

\* Nothing moves at a key where nobody does.
LEMMA KeyUntouched ==
  ASSUME PoolAssumption, PoolInv, PoolInv', NEW k \in PoolKeys,
         \A u \in PoolTasks :
           (place[u] = "in" /\ keyAt[u] = k) <=> (place'[u] = "in" /\ keyAt'[u] = k),
         WaitingFor(k)' = WaitingFor(k),
         WaitingFor(k) # {} =>
           Order(waiters'[entries'[k]], WaitingFor(k)) = Order(waiters[entries[k]], WaitingFor(k))
  PROVE  ViewKept(k)
<1>1. HoldersKnown /\ HoldersKnown' /\ LinesKnown /\ LinesKnown'
  BY KnownFacts
<1>2. HolderOf(k)' = HolderOf(k)
  <2>1. CASE \E u \in PoolTasks : place[u] = "in" /\ keyAt[u] = k
    <3>1. PICK u \in PoolTasks : place[u] = "in" /\ keyAt[u] = k
      BY <2>1
    <3>2. place'[u] = "in" /\ keyAt'[u] = k
      BY <3>1
    <3> QED BY <1>1, <3>1, <3>2 DEF HoldersKnown
  <2>2. CASE \A u \in PoolTasks : ~(place[u] = "in" /\ keyAt[u] = k)
    BY <1>1, <2>2 DEF HoldersKnown
  <2> QED BY <2>1, <2>2
<1>3. LineAt(k)' = LineAt(k)
  <2>1. CASE WaitingFor(k) = {}
    BY <1>1, <2>1 DEF LinesKnown
  <2>2. CASE WaitingFor(k) # {}
    <3>1. LineAt(k)' = Order(waiters'[entries'[k]], WaitingFor(k)')
      BY DEF LineAt
    <3> QED BY <2>2, <3>1 DEF LineAt
  <2> QED BY <2>1, <2>2
<1> QED BY <1>2, <1>3 DEF ViewKept

\* A step of one task at one key leaves the other keys as they are.
LEMMA OthersUntouched ==
  ASSUME PoolAssumption, PoolInv, PoolInv',
         NEW t \in PoolTasks, NEW k \in PoolKeys, NEW e \in Entries,
         \A u \in PoolTasks : u # t =>
           place'[u] = place[u] /\ keyAt'[u] = keyAt[u] /\ (u \in interrupted' <=> u \in interrupted),
         place[t] # "out" => keyAt[t] = k,
         place'[t] # "out" => keyAt'[t] = k,
         \A l \in PoolKeys : l # k => entries'[l] = entries[l],
         \A f \in Entries : f # e => waiters'[f] = waiters[f],
         entries[k] = e \/ entries'[k] = e
  PROVE  \A l \in PoolKeys : l # k => ViewKept(l)
<1> SUFFICES ASSUME NEW l \in PoolKeys, l # k PROVE ViewKept(l)
  OBVIOUS
<1>1. \A u \in PoolTasks :
        (place[u] = "in" /\ keyAt[u] = l) <=> (place'[u] = "in" /\ keyAt'[u] = l)
  OBVIOUS
<1>2. WaitingFor(l)' = WaitingFor(l)
  BY DEF WaitingFor
<1>3. WaitingFor(l) # {} => waiters'[entries'[l]] = waiters[entries[l]]
  <2>1. WaitingFor(l) # {} => entries[l] \in Entries
    BY KnownFacts DEF LinesKnown
  <2>2. entries'[l] = entries[l]
    OBVIOUS
  <2>3. entries[l] \in Entries => entries[l] # e
    <3>1. entries[l] # NoEntry /\ entries[l] = entries[k] => l = k
      BY DEF PoolInv, OneEntryPerKey
    <3>2. entries'[l] # NoEntry /\ entries'[l] = entries'[k] => l = k
      BY DEF PoolInv, OneEntryPerKey
    <3> QED BY <2>2, <3>1, <3>2 DEF PoolAssumption
  <2> QED BY <2>1, <2>2, <2>3
<1> QED BY <1>1, <1>2, <1>3, KeyUntouched

\* Leaving a line keeps the order of the others.
LEMMA LineWithout ==
  ASSUME PoolAssumption, PoolInv, NEW e \in Entries, NEW t, NEW W, t \notin W
  PROVE  Order(Without(waiters[e], t), W) = Order(waiters[e], W)
BY LineFacts, OrderWithout

\* hold() of a key nobody uses: the task takes it at once.
LEMMA HoldFreeIsEnterFree ==
  ASSUME PoolAssumption, PoolInv, PoolInv',
         NEW t \in PoolTasks, NEW k \in PoolKeys, NEW e \in Entries, HoldFree(t, k, e)
  PROVE  Mutex!EnterFree(t, k)
<1>1. /\ PoolTyped /\ place[t] = "out" /\ EntryFor(k, e) /\ Acquirable(e)
      /\ entries' = [entries EXCEPT ![k] = e] /\ waiters' = waiters
      /\ place' = [place EXCEPT ![t] = "in"] /\ keyAt' = [keyAt EXCEPT ![t] = k]
      /\ interrupted' = interrupted
  BY DEF PoolInv, HoldFree
<1>2. HoldersKnown /\ HoldersKnown' /\ LinesKnown /\ LinesKnown'
  BY KnownFacts
<1>3. \A u \in PoolTasks : place[u] # "out" /\ keyAt[u] = k => entryOf[u] = e
  BY <1>1 DEF PoolInv, OneEntryPerKey, EntryFor, PoolAssumption
<1>4. HolderOf(k) = NoOwner
  <2>1. \A u \in PoolTasks : ~(place[u] = "in" /\ keyAt[u] = k)
    BY <1>1, <1>3, InUseFacts DEF Acquirable
  <2> QED BY <1>2, <2>1 DEF HoldersKnown
<1>5. WaitingFor(k) = {}
  <2> SUFFICES ASSUME NEW u \in PoolTasks, place[u] = "waiting", keyAt[u] = k, u \notin interrupted
               PROVE  FALSE
    BY DEF WaitingFor
  <2>1. u \in Range(waiters[e])
    BY <1>3, InUseFacts
  <2>2. future[u] = "cancelled"
    BY <1>1, <2>1 DEF Acquirable, Range
  <2> QED BY <2>2 DEF PoolInv, FuturesMatch
<1>6. HolderOf(k)' = t
  <2>1. place'[t] = "in" /\ keyAt'[t] = k
    BY <1>1 DEF PoolTyped
  <2> QED BY <1>2, <2>1 DEF HoldersKnown
<1>7. WaitingFor(k)' = {}
  BY <1>1, <1>5 DEF WaitingFor, PoolTyped
<1>8. LineAt(k)' = LineAt(k)
  BY <1>2, <1>5, <1>7 DEF LinesKnown
<1>9. \A l \in PoolKeys : l # k => ViewKept(l)
  <2>1. /\ entries'[k] = e /\ \A l \in PoolKeys : l # k => entries'[l] = entries[l]
        /\ \A u \in PoolTasks : u # t => place'[u] = place[u] /\ keyAt'[u] = keyAt[u]
        /\ keyAt'[t] = k
    BY <1>1 DEF PoolTyped
  <2> QED BY <1>1, <2>1, OthersUntouched
<1> QED BY <1>4, <1>5, <1>6, <1>7, <1>8, <1>9 DEF Mutex!EnterFree, ViewKept, LineAt

\* hold() of a key that is taken: the task joins the line.
LEMMA HoldWaitIsJoinLine ==
  ASSUME PoolAssumption, PoolInv, PoolInv',
         NEW t \in PoolTasks, NEW k \in PoolKeys, NEW e \in Entries, HoldWait(t, k, e)
  PROVE  Mutex!JoinLine(t, k)
<1>1. /\ PoolTyped /\ place[t] = "out" /\ EntryFor(k, e) /\ ~Acquirable(e)
      /\ entries' = [entries EXCEPT ![k] = e]
      /\ waiters' = [waiters EXCEPT ![e] = Append(waiters[e], t)]
      /\ place' = [place EXCEPT ![t] = "waiting"] /\ keyAt' = [keyAt EXCEPT ![t] = k]
      /\ interrupted' = interrupted /\ t \notin interrupted
  BY DEF PoolInv, HoldWait, FuturesMatch
<1>2. HoldersKnown /\ HoldersKnown' /\ LinesKnown /\ LinesKnown'
  BY KnownFacts
<1>3. /\ entries'[k] = e /\ \A l \in PoolKeys : l # k => entries'[l] = entries[l]
      /\ \A u \in PoolTasks : u # t => place'[u] = place[u] /\ keyAt'[u] = keyAt[u]
      /\ keyAt'[t] = k /\ place'[t] = "waiting"
      /\ waiters'[e] = Append(waiters[e], t)
      /\ \A f \in Entries : f # e => waiters'[f] = waiters[f]
  BY <1>1 DEF PoolTyped
<1>4. entries[k] = e
  <2> SUFFICES ASSUME entries[k] = NoEntry PROVE FALSE
    BY <1>1 DEF EntryFor
  <2>1. e \notin InUse /\ users[e] \in Nat /\ depth[e] \in Nat /\ Len(waiters[e]) \in Nat
    BY <1>1, LineFacts DEF EntryFor, PoolTyped
  <2>2. Len(waiters[e]) = 0 /\ depth[e] = 0
    BY <2>1 DEF PoolInv, CountsExact
  <2>3. ~locked[e] /\ DOMAIN waiters[e] = {}
    BY <2>2, LineFacts, LenProperties DEF PoolInv, OwnersExact
  <2> QED BY <1>1, <2>3 DEF Acquirable
<1>5. HolderOf(k)' = HolderOf(k)
  <2>1. CASE \E u \in PoolTasks : place[u] = "in" /\ keyAt[u] = k
    <3>1. PICK u \in PoolTasks : place[u] = "in" /\ keyAt[u] = k
      BY <2>1
    <3>2. place'[u] = "in" /\ keyAt'[u] = k
      BY <1>1, <1>3, <3>1
    <3> QED BY <1>2, <3>1, <3>2 DEF HoldersKnown
  <2>2. CASE \A u \in PoolTasks : ~(place[u] = "in" /\ keyAt[u] = k)
    BY <1>2, <1>3, <2>2 DEF HoldersKnown
  <2> QED BY <2>1, <2>2
<1>6. t # HolderOf(k)
  BY <1>1, <1>2 DEF HoldersKnown, PoolAssumption
<1>7. t \notin WaitingFor(k) /\ WaitingFor(k)' = WaitingFor(k) \cup {t}
  BY <1>1, <1>3 DEF WaitingFor
<1>8. LineAt(k)' = LineAt(k) \cup (WaitingFor(k) \X {t})
  <2> DEFINE q == waiters[e]
             W == WaitingFor(k)
             R == LineAt(k)'
  <2>1. q \in Seq(PoolTasks) /\ t \notin Range(q) /\ W \subseteq Range(q)
    <3>1. t \notin Range(q)
      BY <1>1, LineFacts DEF WaitersOf
    <3> QED BY <1>2, <1>4, <3>1, LineFacts DEF LinesKnown
  <2>2. R = Order(Append(q, t), W \cup {t}) /\ LineAt(k) = Order(q, W)
    BY <1>3, <1>4, <1>7 DEF LineAt
  <2> HIDE DEF q, W, R
  <2>3. R = Order(q, W) \cup (W \X {t})
    BY ONLY <2>1, <2>2, t \in PoolTasks, OrderAppend
  <2> QED BY <2>2, <2>3 DEF R, W
<1>9. \A l \in PoolKeys : l # k => ViewKept(l)
  BY <1>1, <1>3, OthersUntouched
<1> QED BY <1>5, <1>6, <1>7, <1>8, <1>9 DEF Mutex!JoinLine, ViewKept, LineAt

\* A task that no longer waits, as a step of the mutex.
LEMMA SteppingOut ==
  ASSUME NEW t, NEW k \in PoolKeys, t \in WaitingFor(k),
         NEW W, W = WaitingFor(k) \ {t}, WaitingFor(k)' = W,
         LineAt(k)' = LineAt(k) \cap (W \X W),
         \A l \in PoolKeys : l # k => WaitingFor(l)' = WaitingFor(l) /\ LineAt(l)' = LineAt(l)
  PROVE  Mutex!StepOut(t, k)
<1> DEFINE ws == [l \in PoolKeys |-> WaitingFor(l)]
           bs == [l \in PoolKeys |-> LineAt(l)]
<1>1. ws' = [ws EXCEPT ![k] = ws[k] \ {t}] /\ ws'[k] = W /\ t \in ws[k]
  OBVIOUS
<1>2. bs' = [bs EXCEPT ![k] = bs[k] \cap (W \X W)]
  OBVIOUS
<1>3. bs = [l \in PoolKeys |-> Order(waiters[entries[l]], WaitingFor(l))]
  BY DEF LineAt
<1>4. bs' = [l \in PoolKeys |-> Order(waiters[entries[l]], WaitingFor(l))]'
  BY DEF LineAt
<1>5. bs' = [bs EXCEPT ![k] = bs[k] \cap (ws'[k] \X ws'[k])]
  BY <1>1, <1>2
<1> QED BY <1>1, <1>3, <1>4, <1>5 DEF Mutex!StepOut, LineAt

\* acquire() returns: the head of the line of a free key enters.
LEMMA ResumeIsEnterNext ==
  ASSUME PoolAssumption, PoolInv, PoolInv', NEW t \in PoolTasks, Resume(t),
         NEW k \in PoolKeys, k = keyAt[t], NEW e, e = entryOf[t]
  PROVE  Mutex!EnterNext(t, k)
<1> DEFINE q == waiters[e]
           W == WaitingFor(k) \ {t}
<1>1. /\ PoolTyped /\ place[t] = "waiting" /\ future[t] = "set" /\ t \notin interrupted
      /\ waiters' = [waiters EXCEPT ![e] = Without(q, t)]
      /\ place' = [place EXCEPT ![t] = "in"]
      /\ entries' = entries /\ keyAt' = keyAt /\ interrupted' = interrupted
  BY DEF PoolInv, Resume
<1>2. HoldersKnown /\ HoldersKnown' /\ LinesKnown /\ LinesKnown'
  BY KnownFacts
<1>3. k \in PoolKeys /\ e \in Entries /\ entries[k] = e /\ t \in Range(q) /\ q # <<>>
  BY <1>1, InUseFacts DEF PoolInv, OneEntryPerKey, PoolTyped
<1>4. ~locked[e] /\ t = Head(q)
  BY <1>1 DEF PoolInv, HeadWoken
<1>5. /\ q \in Seq(PoolTasks) /\ IsInjective(q)
      /\ waiters'[e] = Without(q, t)
      /\ \A f \in Entries : f # e => waiters'[f] = waiters[f]
      /\ place'[t] = "in" /\ \A u \in PoolTasks : u # t => place'[u] = place[u]
  BY <1>1, <1>3, LineFacts DEF PoolTyped
<1> HIDE DEF q
<1>6. HolderOf(k) = NoOwner
  <2>1. \A u \in PoolTasks : place[u] = "in" /\ keyAt[u] = k => entryOf[u] = e
    BY <1>3 DEF PoolInv, OneEntryPerKey
  <2>2. \A u \in PoolTasks : ~(place[u] = "in" /\ keyAt[u] = k)
    BY <1>4, <2>1, InUseFacts
  <2> QED BY <1>2, <1>3, <2>2 DEF HoldersKnown
<1>7. HolderOf(k)' = t
  <2>1. place'[t] = "in" /\ keyAt'[t] = keyAt[t]
    BY <1>1, <1>5
  <2> QED BY <1>2, <1>3, <2>1 DEF HoldersKnown
<1>8. t \in WaitingFor(k) /\ WaitingFor(k)' = W
  BY <1>1, <1>5 DEF WaitingFor
<1>9. \A u \in WaitingFor(k) : <<u, t>> \notin LineAt(k)
  <2>1. \A u : ~Before(q, u, t)
    BY <1>3, <1>4, <1>5, HeadFirst
  <2> QED BY <1>3, <2>1 DEF LineAt, Order, q
<1>10. LineAt(k)' = LineAt(k) \cap (W \X W)
  <2>1. LineAt(k)' = Order(Without(q, t), W)
    BY <1>1, <1>3, <1>5, <1>8 DEF LineAt
  <2>2. Order(Without(q, t), W) = Order(q, W)
    <3>1. t \notin W
      OBVIOUS
    <3> HIDE DEF W
    <3> QED BY <1>3, <3>1, LineWithout DEF q
  <2>3. Order(q, W) = Order(q, WaitingFor(k)) \cap (W \X W)
    BY OrderRestricts
  <2> QED BY <1>3, <2>1, <2>2, <2>3 DEF LineAt, q
<1>11. \A l \in PoolKeys : l # k => ViewKept(l)
  BY <1>1, <1>3, <1>5, OthersUntouched
<1> HIDE DEF W
<1>12. Mutex!StepOut(t, k)
  <2>1. W = WaitingFor(k) \ {t}
    BY DEF W
  <2>2. \A l \in PoolKeys : l # k => WaitingFor(l)' = WaitingFor(l) /\ LineAt(l)' = LineAt(l)
    BY <1>11 DEF ViewKept
  <2> QED BY <1>3, <1>8, <1>10, <2>1, <2>2, SteppingOut
<1> QED
  <2>1. \A l \in PoolKeys : l # k => HolderOf(l)' = HolderOf(l)
    BY <1>11 DEF ViewKept
  <2>2. [l \in PoolKeys |-> HolderOf(l)]' = [[l \in PoolKeys |-> HolderOf(l)] EXCEPT ![k] = t]
    BY <1>3, <1>7, <2>1
  <2> QED BY <1>3, <1>6, <1>9, <1>12, <2>2 DEF Mutex!EnterNext, LineAt

\* A cancelled task steps out of the line at once.
LEMMA InterruptIsLeaveLine ==
  ASSUME PoolAssumption, PoolInv, PoolInv', NEW t \in PoolTasks, Interrupt(t),
         NEW k \in PoolKeys, k = keyAt[t]
  PROVE  Mutex!LeaveLine(t, k)
<1> DEFINE W == WaitingFor(k) \ {t}
<1>1. /\ PoolTyped /\ place[t] = "waiting" /\ t \notin interrupted
      /\ interrupted' = interrupted \cup {t}
      /\ UNCHANGED <<entries, waiters, place, keyAt, entryOf>> /\ k \in PoolKeys
  BY DEF PoolInv, Interrupt, PoolTyped
<1>2. HoldersKnown /\ HoldersKnown' /\ LinesKnown /\ LinesKnown'
  BY KnownFacts
<1>3. \A l \in PoolKeys : HolderOf(l)' = HolderOf(l)
  BY <1>1 DEF HolderOf
<1>4. t \in WaitingFor(k) /\ WaitingFor(k)' = W
  BY <1>1 DEF WaitingFor
<1>5. \A l \in PoolKeys : l # k => WaitingFor(l)' = WaitingFor(l)
  BY <1>1 DEF WaitingFor
<1>6. LineAt(k)' = LineAt(k) \cap (W \X W)
  <2>1. Order(waiters[entries[k]], W) = Order(waiters[entries[k]], WaitingFor(k)) \cap (W \X W)
    BY OrderRestricts
  <2> QED BY <1>1, <1>4, <2>1 DEF LineAt
<1>7. \A l \in PoolKeys : l # k => LineAt(l)' = LineAt(l)
  BY <1>1, <1>5 DEF LineAt
<1> HIDE DEF W
<1>8. Mutex!StepOut(t, k)
  <2>1. W = WaitingFor(k) \ {t}
    BY DEF W
  <2> QED BY <1>1, <1>4, <1>5, <1>6, <1>7, <2>1, SteppingOut
<1> QED BY <1>3, <1>8 DEF Mutex!LeaveLine

\* What the mutex of a key shows when the entry may have gone with its last use.
LEMMA LineOutlives ==
  ASSUME PoolAssumption, PoolInv, PoolInv', NEW e \in Entries, NEW n \in Nat,
         entries' = PoolAfter(e, n)
  PROVE  \A l \in PoolKeys : WaitingFor(l)' # {} => entries'[l] = entries[l]
<1> SUFFICES ASSUME NEW l \in PoolKeys, WaitingFor(l)' # {} PROVE entries'[l] = entries[l]
  OBVIOUS
<1>1. entries'[l] \in Entries
  BY KnownFacts DEF LinesKnown
<1>2. CASE n = 0
  <2>1. entries'[l] = IF entries[l] = e THEN NoEntry ELSE entries[l]
    BY <1>2 DEF PoolAfter
  <2> QED BY <1>1, <2>1 DEF PoolAssumption
<1>3. CASE n # 0
  BY <1>3 DEF PoolAfter
<1> QED BY <1>2, <1>3

\* The cancelled waiter leaves a line in which it no longer counts.
LEMMA GiveUpIsStutter ==
  ASSUME PoolAssumption, PoolInv, PoolInv', NEW t \in PoolTasks, GiveUp(t)
  PROVE  \A l \in PoolKeys : ViewKept(l)
<1> SUFFICES ASSUME NEW l \in PoolKeys PROVE ViewKept(l)
  OBVIOUS
<1> DEFINE e == entryOf[t]
           n == users[e] - 1
<1>1. /\ PoolTyped /\ place[t] = "waiting" /\ t \in interrupted
      /\ e \in Entries /\ n \in Nat /\ entries' = PoolAfter(e, n)
      /\ waiters' = [waiters EXCEPT ![e] = Without(waiters[e], t)]
      /\ place' = [place EXCEPT ![t] = "out"]
      /\ keyAt' = keyAt /\ interrupted' = interrupted \ {t}
  BY InUseFacts DEF PoolInv, GiveUp, PoolTyped
<1> HIDE DEF e, n
<1>2. WaitingFor(l)' = WaitingFor(l) /\ t \notin WaitingFor(l)
  BY <1>1 DEF WaitingFor, PoolTyped
<1>3. \A u \in PoolTasks :
        (place[u] = "in" /\ keyAt[u] = l) <=> (place'[u] = "in" /\ keyAt'[u] = l)
  BY <1>1 DEF PoolTyped
<1>4. WaitingFor(l) # {} =>
        Order(waiters'[entries'[l]], WaitingFor(l)) = Order(waiters[entries[l]], WaitingFor(l))
  <2> SUFFICES ASSUME WaitingFor(l) # {}
               PROVE  Order(waiters'[entries[l]], WaitingFor(l))
                        = Order(waiters[entries[l]], WaitingFor(l))
    BY <1>1, <1>2, LineOutlives
  <2>1. entries[l] \in Entries
    BY KnownFacts DEF LinesKnown
  <2>2. CASE entries[l] = e
    <3>1. waiters'[e] = Without(waiters[e], t)
      BY <1>1 DEF PoolTyped
    <3>2. Order(Without(waiters[e], t), WaitingFor(l)) = Order(waiters[e], WaitingFor(l))
      BY <1>1, <1>2, LineWithout
    <3> QED BY <2>2, <3>1, <3>2
  <2>3. CASE entries[l] # e
    <3>1. waiters'[entries[l]] = waiters[entries[l]]
      BY <1>1, <2>1, <2>3 DEF PoolTyped
    <3> QED BY <3>1
  <2> QED BY <2>2, <2>3
<1> QED BY <1>2, <1>3, <1>4, KeyUntouched

\* Entering a held key again and leaving an inner level do not touch it.
LEMMA InnerIsStutter ==
  ASSUME PoolAssumption, PoolInv, PoolInv', NEW t \in PoolTasks, HoldAgain(t) \/ ReleaseInner(t)
  PROVE  \A l \in PoolKeys : ViewKept(l)
<1> SUFFICES ASSUME NEW l \in PoolKeys PROVE ViewKept(l)
  OBVIOUS
<1>1. /\ place' = place /\ keyAt' = keyAt /\ interrupted' = interrupted /\ waiters' = waiters
  BY DEF HoldAgain, ReleaseInner, mutexVars
<1>2. WaitingFor(l)' = WaitingFor(l)
  BY <1>1 DEF WaitingFor
<1>3. WaitingFor(l) # {} => entries'[l] = entries[l]
  <2>1. CASE HoldAgain(t)
    BY <2>1 DEF HoldAgain
  <2>2. CASE ReleaseInner(t)
    <3>1. /\ entryOf[t] \in Entries /\ users[entryOf[t]] - 1 \in Nat
          /\ entries' = PoolAfter(entryOf[t], users[entryOf[t]] - 1)
      BY <2>2, InUseFacts DEF PoolInv, PoolTyped, ReleaseInner
    <3> QED BY <1>2, <3>1, LineOutlives
  <2> QED BY <2>1, <2>2
<1> QED BY <1>1, <1>2, <1>3, KeyUntouched

\* The owner leaves: its key is free.
LEMMA ReleaseOuterIsLeaveKey ==
  ASSUME PoolAssumption, PoolInv, PoolInv', NEW t \in PoolTasks, ReleaseOuter(t),
         NEW k \in PoolKeys, k = keyAt[t]
  PROVE  Mutex!LeaveKey(t, k)
<1> DEFINE e == entryOf[t]
           n == users[e] - 1
<1>1. /\ PoolTyped /\ place[t] = "in" /\ k \in PoolKeys
      /\ e \in Entries /\ n \in Nat /\ entries' = PoolAfter(e, n)
      /\ place' = [place EXCEPT ![t] = "out"]
      /\ waiters' = waiters /\ keyAt' = keyAt /\ interrupted' = interrupted
  BY InUseFacts DEF PoolInv, ReleaseOuter, PoolTyped
<1>2. HoldersKnown /\ HoldersKnown'
  BY KnownFacts
<1>3. /\ place'[t] = "out" /\ \A u \in PoolTasks : u # t => place'[u] = place[u]
      /\ OneHolder
  <2>1. OneHolder
    BY DEF PoolInv, OneHolder, OneEntryPerKey, OwnersExact
  <2> QED BY <1>1, <2>1 DEF PoolTyped
<1>4. HolderOf(k) = t
  BY <1>1, <1>2 DEF HoldersKnown
<1>5. HolderOf(k)' = NoOwner
  <2>1. \A u \in PoolTasks : ~(place'[u] = "in" /\ keyAt'[u] = k)
    BY <1>1, <1>3 DEF OneHolder
  <2> QED BY <1>1, <1>2, <2>1 DEF HoldersKnown
<1> HIDE DEF e, n
<1>6. \A l \in PoolKeys : WaitingFor(l)' = WaitingFor(l)
  BY <1>1, <1>3 DEF WaitingFor
<1>7. \A l \in PoolKeys : LineAt(l)' = LineAt(l)
  <2> SUFFICES ASSUME NEW l \in PoolKeys PROVE LineAt(l)' = LineAt(l)
    OBVIOUS
  <2>1. CASE WaitingFor(l) = {}
    BY <1>6, <2>1, KnownFacts DEF LinesKnown
  <2>2. CASE WaitingFor(l) # {}
    <3>1. entries'[l] = entries[l]
      BY <1>1, <1>6, <2>2, LineOutlives
    <3> QED BY <1>1, <1>6, <3>1 DEF LineAt
  <2> QED BY <2>1, <2>2
<1>8. \A l \in PoolKeys : l # k => HolderOf(l)' = HolderOf(l)
  <2> SUFFICES ASSUME NEW l \in PoolKeys, l # k PROVE HolderOf(l)' = HolderOf(l)
    OBVIOUS
  <2>1. CASE \E u \in PoolTasks : place[u] = "in" /\ keyAt[u] = l
    <3>1. PICK u \in PoolTasks : place[u] = "in" /\ keyAt[u] = l
      BY <2>1
    <3>2. place'[u] = "in" /\ keyAt'[u] = l
      BY <1>1, <1>3, <3>1
    <3> QED BY <1>2, <3>1, <3>2 DEF HoldersKnown
  <2>2. CASE \A u \in PoolTasks : ~(place[u] = "in" /\ keyAt[u] = l)
    BY <1>1, <1>2, <1>3, <2>2 DEF HoldersKnown
  <2> QED BY <2>1, <2>2
<1> QED
  <2>1. [l \in PoolKeys |-> HolderOf(l)]'
          = [[l \in PoolKeys |-> HolderOf(l)] EXCEPT ![k] = NoOwner]
    BY <1>1, <1>5, <1>8
  <2>2. /\ [l \in PoolKeys |-> WaitingFor(l)]' = [l \in PoolKeys |-> WaitingFor(l)]
        /\ [l \in PoolKeys |-> LineAt(l)]' = [l \in PoolKeys |-> LineAt(l)]
    BY <1>6, <1>7
  <2>3. [l \in PoolKeys |-> HolderOf(l)][k] = t
    BY <1>1, <1>4
  <2> QED BY <2>1, <2>2, <2>3 DEF Mutex!LeaveKey, LineAt

\* A pool of keyed locks is a mutex per key, for any number of tasks, keys and
\* entries: one holder at a time, entered in the order in which the tasks came,
\* although the entries behind the keys come and go and waiters are cancelled,
\* also with the wake-up in hand.
THEOREM IsAKeyMutex == ASSUME PoolAssumption PROVE PoolSpec => ImplementsKeyMutex
<1>1. PoolInit => Mutex!MutexInit
  <2> SUFFICES ASSUME PoolInit PROVE Mutex!MutexInit
    OBVIOUS
  <2>1. \A k \in PoolKeys : HolderOf(k) = NoOwner /\ WaitingFor(k) = {}
    BY DEF PoolInit, HolderOf, WaitingFor
  <2>2. \A k \in PoolKeys : Order(waiters[entries[k]], WaitingFor(k)) = {}
    BY <2>1 DEF Order
  <2> QED BY <2>1, <2>2 DEF Mutex!MutexInit
<1>2. PoolInv /\ PoolInv' /\ [PoolNext]_poolVars => [Mutex!MutexNext]_(Mutex!mutexVars)
  <2> SUFFICES ASSUME PoolInv, PoolInv', [PoolNext]_poolVars
               PROVE  [Mutex!MutexNext]_(Mutex!mutexVars)
    OBVIOUS
  <2>1. ASSUME \A l \in PoolKeys : ViewKept(l) PROVE UNCHANGED Mutex!mutexVars
    BY <2>1 DEF ViewKept, LineAt, Mutex!mutexVars
  <2>2. ASSUME NEW t \in PoolTasks, NEW k \in PoolKeys, NEW e \in Entries,
               HoldFree(t, k, e) \/ HoldWait(t, k, e)
        PROVE  Mutex!MutexNext
    BY <2>2, HoldFreeIsEnterFree, HoldWaitIsJoinLine DEF Mutex!MutexNext
  <2>3. ASSUME NEW t \in PoolTasks, Resume(t) \/ Interrupt(t) \/ ReleaseOuter(t)
        PROVE  Mutex!MutexNext
    <3>1. keyAt[t] \in PoolKeys
      BY DEF PoolInv, PoolTyped
    <3> QED BY <2>3, <3>1, ResumeIsEnterNext, InterruptIsLeaveLine, ReleaseOuterIsLeaveKey
            DEF Mutex!MutexNext
  <2>4. ASSUME NEW t \in PoolTasks, HoldAgain(t) \/ GiveUp(t) \/ ReleaseInner(t)
        PROVE  UNCHANGED Mutex!mutexVars
    BY <2>1, <2>4, InnerIsStutter, GiveUpIsStutter
  <2>5. CASE UNCHANGED poolVars
    <3>1. \A l \in PoolKeys : ViewKept(l)
      BY <2>5 DEF ViewKept, LineAt, HolderOf, WaitingFor, poolVars, mutexVars
    <3> QED BY <2>1, <3>1
  <2> QED BY <2>2, <2>3, <2>4, <2>5 DEF PoolNext, TaskStep
<1> QED BY <1>1, <1>2, PoolInvariance, PTL DEF PoolSpec, ImplementsKeyMutex, Mutex!MutexSpec
=============================================================================
