--------------------------- MODULE AtomicSessions ---------------------------
(***************************************************************************)
(* What the session store promises: to its users every operation happens   *)
(* at one moment, an update applies all its changes to the session that is *)
(* stored at that moment, or none (module docstring of core/session.py).   *)
(***************************************************************************)
EXTENDS Integers

CONSTANTS Tasks, Keys, Plugins, NoTask, NoSession

VARIABLE store

\* The two changes one update makes to the data it finds
Changes(t) == {t} \X {1, 2}

Earlier == [id : {0}, plugin : Plugins, version : {0}, data : {{}}, by : {NoTask}]

AtomicInit == store \in [Keys -> {NoSession} \cup Earlier]

\* A new generation replaces whatever is there
Put(t, k) ==
  LET new == store'[k]
  IN /\ new # NoSession /\ new.by = t /\ new.plugin \in Plugins /\ new.data = {}
     /\ store[k] # NoSession => new.id > store[k].id
     /\ store' = [store EXCEPT ![k] = new]

Updated(session, t) == [session EXCEPT !.version = @ + 1, !.data = @ \cup Changes(t)]

Apply(t, k) ==
  /\ store[k] # NoSession
  /\ store' = [store EXCEPT ![k] = Updated(@, t)]

Remove(k) ==
  /\ store[k] # NoSession
  /\ store' = [store EXCEPT ![k] = NoSession]

AtomicNext == \E k \in Keys : Remove(k) \/ \E t \in Tasks : Put(t, k) \/ Apply(t, k)

AtomicSpec == AtomicInit /\ [][AtomicNext]_store
=============================================================================
