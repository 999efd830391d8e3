---------------------------- MODULE SessionManager ----------------------------
(***************************************************************************)
(* The transactional session store (core/session.py: SessionManager).      *)
(*                                                                         *)
(* Each task performs one operation.  The keyed lock it takes is used as   *)
(* KeyMutex promises: a holder and a first-come line per key.  `_lock` is  *)
(* never held across a suspension and disappears.  Every operation but     *)
(* update does its work in the step in which it gets the key, and gives    *)
(* the key back in that step.  update runs a callback in a task of its own *)
(* on a working copy; the callback may re-enter create and delete of its   *)
(* own key, which are then staged.                                         *)
(*                                                                         *)
(* The data of a session is the set of changes made to it; a callback      *)
(* makes two, so that a half-applied update shows.                         *)
(***************************************************************************)
EXTENDS Integers, FiniteSets, Deques

CONSTANTS
  Tasks, Keys, Plugins,
  NoTask, NoSession,
  Operations,     \* what the tasks may do
  MaxSessions,    \* bound on the sessions ever created, those that tasks are
                  \* about to create included
  MayExpire,      \* whether time passes over idle timeouts
  MayCancel       \* whether operations are cancelled

\* What is stored for a key: its version counts the updates it has seen, its
\* data are the changes they made, by is the task that created it
Sessions == [id : 0..MaxSessions, plugin : Plugins, version : Nat,
             data : SUBSET (Tasks \X {1, 2}), by : Tasks \cup {NoTask}]

ASSUME SessionAssumption ==
  /\ IsFiniteSet(Tasks) /\ NoTask \notin Tasks /\ NoSession \notin Sessions
  /\ Operations \subseteq {"create", "get", "peek", "delete", "update", "cleanup", "clear"}
  /\ MaxSessions \in Nat
  /\ MayExpire \in BOOLEAN /\ MayCancel \in BOOLEAN

VARIABLES
  sessions,    \* _sessions: the stored session of a key, or NoSession
  expired,     \* keys whose stored session has outlived its idle timeout
  created,     \* number of session ids handed out
  holder, line,  \* the keyed lock
  pc,          \* "ready", "waiting", "callback", "sweeping" or "done"
  op, keyOf, pluginOf,   \* what a task does
  todo,        \* keys a bulk operation still has to visit
  txn,         \* the _SessionTransaction of an update
  callback,    \* its callback task: "none", "running", or how it ended
  written,     \* changes the callback made to the object it was given
  cbCancel,    \* a cancellation of the callback: "none", "pending", "taken"
  cancelled,   \* tasks with a cancellation to be thrown
  caught,      \* updates that remember a cancellation (_await_transaction_future)
  result       \* what the operation ended with

storeVars == <<sessions, expired, created>>
lockVars  == <<holder, line>>
askVars   == <<op, keyOf, pluginOf>>
cbVars    == <<txn, callback, written, cbCancel>>
endVars   == <<cancelled, caught, result>>
vars == <<storeVars, lockVars, pc, askVars, todo, cbVars, endVars>>

\* Sessions from before the tasks began
Earlier == [id : {0}, plugin : Plugins, version : {0}, data : {{}}, by : {NoTask}]

NoTxn == [original |-> NoSession, working |-> NoSession, stage |-> "same", replaced |-> FALSE]

Init ==
  /\ sessions \in [Keys -> {NoSession} \cup Earlier]
  /\ expired = {} /\ created = 0
  /\ holder = [k \in Keys |-> NoTask] /\ line = [k \in Keys |-> <<>>]
  /\ pc = [t \in Tasks |-> "ready"]
  /\ op \in [Tasks -> Operations]
  /\ Cardinality({t \in Tasks : op[t] = "create"}) <= MaxSessions
  /\ keyOf \in [Tasks -> Keys] /\ pluginOf \in [Tasks -> Plugins]
  /\ todo = [t \in Tasks |-> {}]
  /\ txn = [t \in Tasks |-> NoTxn]
  /\ callback = [t \in Tasks |-> "none"]
  /\ written = [t \in Tasks |-> 0]
  /\ cbCancel = [t \in Tasks |-> "none"]
  /\ cancelled = {} /\ caught = {}
  /\ result = [t \in Tasks |-> "none"]

-----------------------------------------------------------------------------
\* The operations that visit every stored key
Bulk == {"cleanup", "clear"}

\* A session as _new_session makes it
NewSession(t, p) ==
  [id |-> created + 1, plugin |-> p, version |-> 0, data |-> {}, by |-> t]

\* _get_active_locked removes an expired session and answers with the other
Present(k) == sessions[k] # NoSession
Alive(k) == Present(k) /\ k \notin expired

Forget(k) ==
  /\ sessions' = [sessions EXCEPT ![k] = NoSession]
  /\ expired' = expired \ {k}
  /\ UNCHANGED created

Store(k, session) ==
  /\ sessions' = [sessions EXCEPT ![k] = session]
  /\ expired' = expired \ {k}

(* The keyed lock *)

\* t may enter k in this step: nobody is inside, and t is a newcomer to an
\* empty line or the first of the line
Turn(t, k) ==
  /\ holder[k] = NoTask
  /\ IF pc[t] = "waiting" THEN t = Head(line[k]) ELSE line[k] = <<>>

InTurn(t, k) == line' = [line EXCEPT ![k] = Without(@, t)]

Done(t, how) ==
  /\ pc' = [pc EXCEPT ![t] = "done"]
  /\ result' = [result EXCEPT ![t] = how]

\* A key in use: the task joins its line
Wait(t, k) ==
  /\ pc[t] \in {"ready", "sweeping"} /\ ~Turn(t, k)
  /\ pc' = [pc EXCEPT ![t] = "waiting"]
  /\ keyOf' = [keyOf EXCEPT ![t] = k]
  /\ line' = [line EXCEPT ![k] = Append(@, t)]
  /\ UNCHANGED <<storeVars, holder, op, pluginOf, todo, cbVars, endVars>>

\* The step in which an operation on one key gets that key
HasKey(t) ==
  /\ pc[t] \in {"ready", "waiting"} /\ t \notin cancelled
  /\ Turn(t, keyOf[t])
  /\ InTurn(t, keyOf[t])

-----------------------------------------------------------------------------
(* Operations outside a transaction *)

Create(t) ==
  /\ op[t] = "create" /\ created < MaxSessions /\ HasKey(t)
  /\ Store(keyOf[t], NewSession(t, pluginOf[t]))
  /\ created' = created + 1
  /\ Done(t, "ok")
  /\ UNCHANGED <<holder, askVars, todo, cbVars, cancelled, caught>>

\* get renews the lease, peek and exists do not; all drop an expired session
Read(t) ==
  /\ op[t] \in {"get", "peek"} /\ HasKey(t)
  /\ IF Present(keyOf[t]) /\ ~Alive(keyOf[t]) THEN Forget(keyOf[t]) ELSE UNCHANGED storeVars
  /\ Done(t, IF Alive(keyOf[t]) THEN "ok" ELSE "absent")
  /\ UNCHANGED <<holder, askVars, todo, cbVars, cancelled, caught>>

Delete(t) ==
  /\ op[t] = "delete" /\ HasKey(t)
  /\ IF Present(keyOf[t]) THEN Forget(keyOf[t]) ELSE UNCHANGED storeVars
  /\ Done(t, IF Present(keyOf[t]) THEN "ok" ELSE "absent")
  /\ UNCHANGED <<holder, askVars, todo, cbVars, cancelled, caught>>

\* A bulk operation lists the stored keys, and then takes them one by one
SweepBegin(t) ==
  /\ pc[t] = "ready" /\ op[t] \in Bulk
  /\ todo' = [todo EXCEPT ![t] = {k \in Keys : Present(k)}]
  /\ pc' = [pc EXCEPT ![t] = "sweeping"]
  /\ UNCHANGED <<storeVars, lockVars, askVars, cbVars, endVars>>

\* What it removes is decided anew, with the key in hand
Doomed(t, k) ==
  /\ Present(k)
  /\ IF op[t] = "cleanup" THEN k \in expired ELSE sessions[k].plugin = pluginOf[t]

SweepKey(t, k) ==
  /\ k \in todo[t] /\ t \notin cancelled
  /\ pc[t] = "sweeping" \/ (pc[t] = "waiting" /\ keyOf[t] = k)
  /\ Turn(t, k) /\ InTurn(t, k)
  /\ IF Doomed(t, k) THEN Forget(k) ELSE UNCHANGED storeVars
  /\ todo' = [todo EXCEPT ![t] = @ \ {k}]
  /\ pc' = [pc EXCEPT ![t] = "sweeping"]
  /\ UNCHANGED <<holder, askVars, cbVars, endVars>>

SweepEnd(t) ==
  /\ pc[t] = "sweeping" /\ todo[t] = {}
  /\ Done(t, "ok")
  /\ UNCHANGED <<storeVars, lockVars, askVars, todo, cbVars, cancelled, caught>>

-----------------------------------------------------------------------------
(* update *)

\* No session: update returns None without calling the callback
UpdateAbsent(t) ==
  /\ op[t] = "update" /\ ~Alive(keyOf[t]) /\ HasKey(t)
  /\ IF Present(keyOf[t]) THEN Forget(keyOf[t]) ELSE UNCHANGED storeVars
  /\ Done(t, "absent")
  /\ UNCHANGED <<holder, askVars, todo, cbVars, cancelled, caught>>

UpdateBegin(t) ==
  /\ op[t] = "update" /\ Alive(keyOf[t]) /\ HasKey(t)
  /\ holder' = [holder EXCEPT ![keyOf[t]] = t]
  /\ pc' = [pc EXCEPT ![t] = "callback"]
  /\ txn' = [txn EXCEPT ![t] = [NoTxn EXCEPT !.original = sessions[keyOf[t]],
                                             !.working = sessions[keyOf[t]]]]
  /\ callback' = [callback EXCEPT ![t] = "running"]
  /\ UNCHANGED <<storeVars, askVars, todo, written, cbCancel, endVars>>

Creating == {t \in Tasks : op[t] = "create" /\ pc[t] # "done"}

\* The callback changes the object it was given; once it has staged a create
\* or a delete that object is no longer the transaction's
CallbackWrites(t) ==
  /\ callback[t] = "running" /\ written[t] < 2
  /\ written' = [written EXCEPT ![t] = @ + 1]
  /\ txn' = IF txn[t].stage = "same"
            THEN [txn EXCEPT ![t].working.data = @ \cup {<<t, written[t] + 1>>}]
            ELSE txn
  /\ UNCHANGED <<storeVars, lockVars, pc, askVars, todo, callback, cbCancel, endVars>>

CallbackCreates(t, p) ==
  /\ callback[t] = "running" /\ created + Cardinality(Creating) < MaxSessions
  /\ created' = created + 1
  /\ txn' = [txn EXCEPT ![t] = [@ EXCEPT !.working = NewSession(t, p),
                                         !.stage = "new", !.replaced = TRUE]]
  /\ UNCHANGED <<sessions, expired, lockVars, pc, askVars, todo, callback, written,
                 cbCancel, endVars>>

CallbackDeletes(t) ==
  /\ callback[t] = "running" /\ txn[t].working # NoSession
  /\ txn' = [txn EXCEPT ![t] = [@ EXCEPT !.working = NoSession, !.stage = "deleted"]]
  /\ UNCHANGED <<storeVars, lockVars, pc, askVars, todo, callback, written, cbCancel, endVars>>

\* It is cancelled by its own doing, or swallows a cancellation it met
CallbackCancel(t) ==
  /\ MayCancel /\ callback[t] = "running"
  /\ \/ cbCancel[t] = "none" /\ cbCancel' = [cbCancel EXCEPT ![t] = "pending"]
     \/ cbCancel[t] = "pending" /\ cbCancel' = [cbCancel EXCEPT ![t] = "taken"]
  /\ UNCHANGED <<storeVars, lockVars, pc, askVars, todo, txn, callback, written, endVars>>

\* _run_callback's checkpoint throws what is still pending when it returns;
\* "invalid" is a value tree that _prepare_commit will not clone
CallbackEnds(t) ==
  /\ callback[t] = "running"
  /\ \E how \in {"ok", "error", "invalid", "cancelled"} :
       /\ how = "ok" => written[t] = 2 /\ cbCancel[t] # "pending"
       /\ how = "invalid" => cbCancel[t] # "pending"
       /\ how = "cancelled" => cbCancel[t] = "pending"
       /\ callback' = [callback EXCEPT ![t] = how]
  /\ UNCHANGED <<storeVars, lockVars, pc, askVars, todo, txn, written, cbCancel, endVars>>

Ended(t) == callback[t] \in {"ok", "error", "invalid", "cancelled"}

Unlock(t) == holder' = [holder EXCEPT ![keyOf[t]] = NoTask] /\ UNCHANGED line

\* A cancellation of the update is remembered and forwarded to the callback,
\* which the update goes on waiting for
ForwardCancel(t) ==
  /\ pc[t] = "callback" /\ t \in cancelled /\ ~Ended(t)
  /\ cancelled' = cancelled \ {t} /\ caught' = caught \cup {t}
  /\ cbCancel' = [cbCancel EXCEPT ![t] = "pending"]
  /\ UNCHANGED <<storeVars, lockVars, pc, askVars, todo, txn, callback, written, result>>

Committed_Blind(t) ==   \* mutant: forgets the data it started from
  LET tx == txn[t]
  IN IF tx.replaced
     THEN [tx.working EXCEPT !.version = tx.original.version + 1]
     ELSE [tx.original EXCEPT !.version = @ + 1,
                              !.data = tx.working.data \ tx.original.data]

\* What _prepare_commit makes of the working copy
Committed(t) ==
  LET tx == txn[t]
  IN IF tx.replaced
     THEN [tx.working EXCEPT !.version = tx.original.version + 1]
     ELSE [tx.original EXCEPT !.version = @ + 1, !.data = tx.working.data]

Unchanged(t) == sessions[keyOf[t]] = txn[t].original

Commits_Late(t) == callback[t] = "ok" /\ Unchanged(t)   \* mutant: cancelled too late

Commits(t) == callback[t] = "ok" /\ t \notin caught \cup cancelled /\ Unchanged(t)

\* The transaction is dropped
Forgotten(t) ==
  /\ txn' = [txn EXCEPT ![t] = NoTxn] /\ callback' = [callback EXCEPT ![t] = "none"]
  /\ written' = [written EXCEPT ![t] = 0] /\ cbCancel' = [cbCancel EXCEPT ![t] = "none"]

Commit(t) ==
  /\ pc[t] = "callback" /\ Commits(t)
  /\ IF txn[t].working = NoSession
     THEN Forget(keyOf[t])
     ELSE Store(keyOf[t], Committed(t)) /\ UNCHANGED created
  /\ Done(t, "ok") /\ Unlock(t) /\ Forgotten(t)
  /\ UNCHANGED <<askVars, todo, cancelled, caught>>

RollBack_Holds(t) ==   \* mutant: a failed update keeps the key
  /\ pc[t] = "callback" /\ Ended(t) /\ ~Commits(t)
  /\ Done(t, "error") /\ Forgotten(t)
  /\ cancelled' = cancelled \ {t}
  /\ UNCHANGED <<storeVars, lockVars, askVars, todo, caught>>

\* Any other end publishes nothing
RollBack(t) ==
  /\ pc[t] = "callback" /\ Ended(t) /\ ~Commits(t)
  /\ Done(t, IF t \in caught \cup cancelled \/ callback[t] = "cancelled"
             THEN "cancelled" ELSE "error")
  /\ Unlock(t) /\ Forgotten(t)
  /\ cancelled' = cancelled \ {t}
  /\ UNCHANGED <<storeVars, askVars, todo, caught>>

-----------------------------------------------------------------------------
\* Somebody cancels an operation that is suspended
Cancel(t) ==
  /\ MayCancel /\ pc[t] \in {"waiting", "callback"} /\ t \notin cancelled
  /\ cancelled' = cancelled \cup {t}
  /\ UNCHANGED <<storeVars, lockVars, pc, askVars, todo, cbVars, caught, result>>

CancelledWaiting(t) ==
  /\ pc[t] = "waiting" /\ t \in cancelled
  /\ line' = [line EXCEPT ![keyOf[t]] = Without(@, t)]
  /\ cancelled' = cancelled \ {t}
  /\ Done(t, "cancelled")
  /\ UNCHANGED <<storeVars, holder, askVars, todo, cbVars, caught>>

\* The idle timeout of a stored session passes
Expire(k) ==
  /\ MayExpire /\ Alive(k)
  /\ expired' = expired \cup {k}
  /\ UNCHANGED <<sessions, created, lockVars, pc, askVars, todo, cbVars, endVars>>

Waits(t) == IF op[t] \in Bulk THEN pc[t] = "sweeping" /\ \E k \in todo[t] : Wait(t, k)
                              ELSE pc[t] = "ready" /\ Wait(t, keyOf[t])

Manager(t) ==
  \/ Waits(t) \/ Create(t) \/ Read(t) \/ Delete(t)
  \/ SweepBegin(t) \/ SweepEnd(t) \/ \E k \in Keys : SweepKey(t, k)
  \/ UpdateAbsent(t) \/ UpdateBegin(t) \/ ForwardCancel(t) \/ Commit(t) \/ RollBack(t)
  \/ CancelledWaiting(t)

UserCode(t) ==
  CallbackWrites(t) \/ CallbackDeletes(t) \/ \E p \in Plugins : CallbackCreates(t, p)

Next ==
  \/ \E t \in Tasks : Manager(t) \/ UserCode(t) \/ CallbackCancel(t) \/ CallbackEnds(t) \/ Cancel(t)
  \/ \E k \in Keys : Expire(k)

Spec == Init /\ [][Next]_vars

\* The loop runs what is ready, and callbacks end
Fairness == \A t \in Tasks : WF_vars(Manager(t)) /\ WF_vars(CallbackEnds(t))

FairSpec == Spec /\ Fairness

-----------------------------------------------------------------------------
(* Properties *)

\* Types of all variables
TypeOK ==
  /\ sessions \in [Keys -> Sessions \cup {NoSession}]
  /\ expired \subseteq {k \in Keys : Present(k)}
  /\ created \in 0..MaxSessions
  /\ holder \in [Keys -> Tasks \cup {NoTask}] /\ line \in [Keys -> Seq(Tasks)]
  /\ pc \in [Tasks -> {"ready", "waiting", "callback", "sweeping", "done"}]
  /\ todo \in [Tasks -> SUBSET Keys]
  /\ \A t \in Tasks : {txn[t].original, txn[t].working} \subseteq Sessions \cup {NoSession}
  /\ callback \in [Tasks -> {"none", "running", "ok", "error", "invalid", "cancelled"}]
  /\ written \in [Tasks -> 0..2]
  /\ cbCancel \in [Tasks -> {"none", "pending", "taken"}]
  /\ cancelled \subseteq Tasks /\ caught \subseteq Tasks
  /\ result \in [Tasks -> {"none", "ok", "absent", "error", "cancelled"}]

\* While a callback runs, its key is held and the session it started from is
\* still the stored one: "stored session changed during a locked transaction"
\* is never raised.
StoredUnderLock ==
  TypeOK /\ \A t \in Tasks : pc[t] = "callback" => holder[keyOf[t]] = t /\ Unchanged(t)

\* An update that failed, or met a cancellation at any moment and whatever its
\* callback made of it, has left nothing in the store: neither one of its
\* changes nor a session it staged.
FailedUpdateLeavesNothing ==
  \A t \in Tasks :
    op[t] = "update" /\ (result[t] \in {"error", "cancelled"} \/ t \in caught) =>
      \A k \in Keys : Present(k) =>
        sessions[k].data \cap ({t} \X {1, 2}) = {} /\ sessions[k].by # t

\* What a transaction promises the callback and the store while it is open and
\* after it failed
UpdatesIsolated == StoredUnderLock /\ FailedUpdateLeavesNothing

\* Refinement: every operation happens at one moment.  An update applies both
\* its changes to what is stored then, so none is lost, halved or repeated.
Atomic == INSTANCE AtomicSessions WITH store <- sessions

ImplementsAtomicSessions == Atomic!AtomicSpec

\* Every operation whose turn the model's bound does not take away ends when
\* callbacks do: no key is waited for for ever.
EveryOperationEnds == <>[](\A t \in Tasks : pc[t] \in {"ready", "done"})
=============================================================================
