------------------------------ MODULE KeyedLock ------------------------------
(***************************************************************************)
(* The pool of keyed locks (core/async_keyed_lock.py: AsyncKeyedLockPool). *)
(* An entry of the pool counts its users, holders and waiters alike, and   *)
(* disappears with the last of them; a task that comes later makes a new   *)
(* entry, so two entries of one key must never be in use together.         *)
(*                                                                         *)
(* Entries have identities, taken from Entries.  The asyncio.Lock in an    *)
(* entry is modelled by what CPython's does: a fair queue of futures, the  *)
(* first of which is woken by a release and takes the lock when its task   *)
(* resumes.  All tasks run on one event loop.  A task holds at most one    *)
(* key at a time, which it may enter again up to MaxDepth times.           *)
(***************************************************************************)
EXTENDS Integers, FiniteSets, Deques

CONSTANTS
  PoolTasks, PoolKeys, Entries,
  NoOwner, NoEntry,   \* none of them
  MaxKeys,     \* max_keys, positive
  MaxDepth     \* bound on re-entry

\* max_keys is checked to be positive; the two markers are no task and no entry
PoolAssumption ==
  /\ NoOwner \notin PoolTasks /\ NoEntry \notin Entries
  /\ MaxKeys \in Nat \ {0}

VARIABLES
  entries,     \* _entries: the entry of a key, or NoEntry
  users,       \* users of an entry
  owner,       \* owner of an entry
  depth,       \* depth of an entry
  locked,      \* _locked of the entry's asyncio.Lock
  waiters,     \* _waiters of that lock, as the tasks that own the futures
  future,      \* of a waiting task: "pending", "set" or "cancelled"
  place,       \* "out", "waiting" or "in"
  keyAt,       \* the key a task is at
  entryOf,     \* the entry it took from the pool
  interrupted  \* tasks with a cancellation to be thrown

entryVars == <<users, owner, depth>>
mutexVars == <<locked, waiters, future>>
poolVars  == <<entries, entryVars, mutexVars, place, keyAt, entryOf, interrupted>>

PoolInit ==
  /\ entries = [k \in PoolKeys |-> NoEntry]
  /\ users = [e \in Entries |-> 0]
  /\ owner = [e \in Entries |-> NoOwner]
  /\ depth = [e \in Entries |-> 0]
  /\ locked = [e \in Entries |-> FALSE]
  /\ waiters = [e \in Entries |-> <<>>]
  /\ future = [t \in PoolTasks |-> "none"]
  /\ place = [t \in PoolTasks |-> "out"]
  /\ keyAt \in [PoolTasks -> PoolKeys]
  /\ entryOf = [t \in PoolTasks |-> NoEntry]
  /\ interrupted = {}

InUse == {e \in Entries : \E k \in PoolKeys : entries[k] = e}

-----------------------------------------------------------------------------
(* asyncio.Lock *)

\* acquire() without a wait: not locked, and every future in line cancelled
Acquirable(e) ==
  ~locked[e] /\ \A i \in DOMAIN waiters[e] : future[waiters[e][i]] = "cancelled"

\* _wake_up_first on line q: only the very first future, if it is not done
WakeFirst(q, fut) ==
  IF q # <<>> /\ fut[Head(q)] = "pending"
  THEN [fut EXCEPT ![Head(q)] = "set"]
  ELSE fut

-----------------------------------------------------------------------------
(* hold(): entry *)

EntryFor_New(k, e) ==   \* mutant: a locked key gets a second entry
  e \notin InUse /\ Cardinality(InUse) < MaxKeys

\* The entry a task gets for key k: the key's own, or a new one
EntryFor(k, e) ==
  IF entries[k] # NoEntry THEN e = entries[k]
  ELSE e \notin InUse /\ Cardinality(InUse) < MaxKeys

\* What the end of hold() leaves of an entry whose users become n
PoolAfter(e, n) ==
  IF n = 0 THEN [k \in PoolKeys |-> IF entries[k] = e THEN NoEntry ELSE entries[k]] ELSE entries

\* A key at hand, or a new entry and at once the lock
HoldFree(t, k, e) ==
  /\ place[t] = "out" /\ EntryFor(k, e) /\ Acquirable(e)
  /\ entries' = [entries EXCEPT ![k] = e]
  /\ users' = [users EXCEPT ![e] = @ + 1]
  /\ owner' = [owner EXCEPT ![e] = t]
  /\ depth' = [depth EXCEPT ![e] = 1]
  /\ locked' = [locked EXCEPT ![e] = TRUE]
  /\ place' = [place EXCEPT ![t] = "in"]
  /\ keyAt' = [keyAt EXCEPT ![t] = k]
  /\ entryOf' = [entryOf EXCEPT ![t] = e]
  /\ UNCHANGED <<waiters, future, interrupted>>

HoldWait(t, k, e) ==
  /\ place[t] = "out" /\ EntryFor(k, e) /\ ~Acquirable(e)
  /\ entries' = [entries EXCEPT ![k] = e]
  /\ users' = [users EXCEPT ![e] = @ + 1]
  /\ waiters' = [waiters EXCEPT ![e] = Append(@, t)]
  /\ future' = [future EXCEPT ![t] = "pending"]
  /\ place' = [place EXCEPT ![t] = "waiting"]
  /\ keyAt' = [keyAt EXCEPT ![t] = k]
  /\ entryOf' = [entryOf EXCEPT ![t] = e]
  /\ UNCHANGED <<owner, depth, locked, interrupted>>

\* The owner enters its key again
HoldAgain(t) ==
  LET e == entryOf[t]
  IN /\ place[t] = "in" /\ entries[keyAt[t]] = e /\ owner[e] = t /\ depth[e] < MaxDepth
     /\ users' = [users EXCEPT ![e] = @ + 1]
     /\ depth' = [depth EXCEPT ![e] = @ + 1]
     /\ UNCHANGED <<entries, owner, mutexVars, place, keyAt, entryOf, interrupted>>

\* acquire() returns to a task whose future was set
Resume(t) ==
  LET e == entryOf[t]
  IN /\ place[t] = "waiting" /\ future[t] = "set" /\ t \notin interrupted
     /\ waiters' = [waiters EXCEPT ![e] = Without(@, t)]
     /\ future' = [future EXCEPT ![t] = "none"]
     /\ locked' = [locked EXCEPT ![e] = TRUE]
     /\ owner' = [owner EXCEPT ![e] = t]
     /\ depth' = [depth EXCEPT ![e] = 1]
     /\ place' = [place EXCEPT ![t] = "in"]
     /\ UNCHANGED <<entries, users, keyAt, entryOf, interrupted>>

\* task.cancel(): a pending future is cancelled, a set one keeps its result
Interrupt(t) ==
  /\ place[t] = "waiting" /\ t \notin interrupted
  /\ interrupted' = interrupted \cup {t}
  /\ future' = [future EXCEPT ![t] = IF @ = "pending" THEN "cancelled" ELSE @]
  /\ UNCHANGED <<entries, entryVars, locked, waiters, place, keyAt, entryOf>>

GiveUp_Silent(t) ==   \* mutant: leaves with the wake-up it was given
  LET e == entryOf[t]
  IN /\ place[t] = "waiting" /\ t \in interrupted
     /\ waiters' = [waiters EXCEPT ![e] = Without(@, t)]
     /\ future' = [future EXCEPT ![t] = "none"]
     /\ users' = [users EXCEPT ![e] = @ - 1]
     /\ entries' = PoolAfter(e, users[e] - 1)
     /\ place' = [place EXCEPT ![t] = "out"]
     /\ entryOf' = [entryOf EXCEPT ![t] = NoEntry]
     /\ interrupted' = interrupted \ {t}
     /\ UNCHANGED <<owner, depth, locked, keyAt>>

\* The cancellation is thrown: acquire() leaves the line and, when the lock is
\* free, wakes the next; hold() gives its use of the entry back
GiveUp(t) ==
  LET e    == entryOf[t]
      rest == Without(waiters[e], t)
      fut  == [future EXCEPT ![t] = "none"]
  IN /\ place[t] = "waiting" /\ t \in interrupted
     /\ waiters' = [waiters EXCEPT ![e] = rest]
     /\ future' = IF locked[e] THEN fut ELSE WakeFirst(rest, fut)
     /\ users' = [users EXCEPT ![e] = @ - 1]
     /\ entries' = PoolAfter(e, users[e] - 1)
     /\ place' = [place EXCEPT ![t] = "out"]
     /\ entryOf' = [entryOf EXCEPT ![t] = NoEntry]
     /\ interrupted' = interrupted \ {t}
     /\ UNCHANGED <<owner, depth, locked, keyAt>>

\* Leaving one level of hold()
ReleaseInner(t) ==
  LET e == entryOf[t]
  IN /\ place[t] = "in" /\ depth[e] > 1
     /\ depth' = [depth EXCEPT ![e] = @ - 1]
     /\ users' = [users EXCEPT ![e] = @ - 1]
     /\ entries' = PoolAfter(e, users[e] - 1)
     /\ UNCHANGED <<owner, mutexVars, place, keyAt, entryOf, interrupted>>

ReleaseOuter(t) ==
  LET e == entryOf[t]
  IN /\ place[t] = "in" /\ depth[e] = 1
     /\ depth' = [depth EXCEPT ![e] = 0]
     /\ owner' = [owner EXCEPT ![e] = NoOwner]
     /\ locked' = [locked EXCEPT ![e] = FALSE]
     /\ future' = WakeFirst(waiters[e], future)
     /\ users' = [users EXCEPT ![e] = @ - 1]
     /\ entries' = PoolAfter(e, users[e] - 1)
     /\ place' = [place EXCEPT ![t] = "out"]
     /\ entryOf' = [entryOf EXCEPT ![t] = NoEntry]
     /\ UNCHANGED <<waiters, keyAt, interrupted>>

TaskStep(t) == Resume(t) \/ GiveUp(t) \/ ReleaseInner(t) \/ ReleaseOuter(t)

PoolNext ==
  \E t \in PoolTasks :
    \/ \E k \in PoolKeys, e \in Entries : HoldFree(t, k, e) \/ HoldWait(t, k, e)
    \/ HoldAgain(t) \/ Interrupt(t) \/ TaskStep(t)

PoolSpec == PoolInit /\ [][PoolNext]_poolVars

-----------------------------------------------------------------------------
(* Properties *)

\* Types of all variables
PoolTyped ==
  /\ entries \in [PoolKeys -> Entries \cup {NoEntry}]
  /\ users \in [Entries -> Nat] /\ depth \in [Entries -> Nat]
  /\ owner \in [Entries -> PoolTasks \cup {NoOwner}]
  /\ locked \in [Entries -> BOOLEAN]
  /\ waiters \in [Entries -> Seq(PoolTasks)]
  /\ future \in [PoolTasks -> {"none", "pending", "set", "cancelled"}]
  /\ place \in [PoolTasks -> {"out", "waiting", "in"}]
  /\ keyAt \in [PoolTasks -> PoolKeys]
  /\ entryOf \in [PoolTasks -> Entries \cup {NoEntry}]
  /\ interrupted \subseteq PoolTasks

\* No turn is lost: when the lock of an entry is free and somebody stands in
\* its line, the first of the line has been woken or is on its way out (and will
\* wake the next), whatever was cancelled and in whatever order.
NobodyForgotten ==
  \A e \in Entries :
    ~locked[e] /\ waiters[e] # <<>> => future[Head(waiters[e])] # "pending"

WaitersOf(e) == {t \in PoolTasks : place[t] = "waiting" /\ entryOf[t] = e}

\* The reference count is exact: an entry is in the pool while somebody holds
\* it or waits for it, and no longer; the checks of hold()'s finally block
\* ("idle keyed lock entry still has an owner") never fail, and nobody in line is
\* forgotten.
EntriesExact ==
  /\ PoolTyped /\ NobodyForgotten
  /\ \A e \in Entries : users[e] = Cardinality(WaitersOf(e)) + depth[e]
  /\ \A e \in Entries : e \in InUse <=> users[e] > 0
  /\ \A e \in Entries : users[e] = 0 => owner[e] = NoOwner /\ ~locked[e]
  /\ \A t \in PoolTasks : place[t] # "out" => entries[keyAt[t]] = entryOf[t]
  /\ Cardinality(InUse) <= MaxKeys

\* Refinement: one holder per key and a first-come line, from which a task
\* steps out the moment it is cancelled.
HolderOf(k) == IF \E t \in PoolTasks : place[t] = "in" /\ keyAt[t] = k
               THEN CHOOSE t \in PoolTasks : place[t] = "in" /\ keyAt[t] = k
               ELSE NoOwner

\* They wait for key k and were not cancelled
WaitingFor(k) ==
  {t \in PoolTasks : place[t] = "waiting" /\ keyAt[t] = k /\ t \notin interrupted}

Mutex == INSTANCE KeyMutex WITH
  Tasks <- PoolTasks, Keys <- PoolKeys, NoTask <- NoOwner,
  holder <- [k \in PoolKeys |-> HolderOf(k)],
  waiting <- [k \in PoolKeys |-> WaitingFor(k)],
  before <- [k \in PoolKeys |-> Order(waiters[entries[k]], WaitingFor(k))]

ImplementsKeyMutex == Mutex!MutexSpec

=============================================================================
