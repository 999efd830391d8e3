----------------------------- MODULE IngressSwitch -----------------------------
(***************************************************************************)
(* Switching the inbound listener when the configuration changes           *)
(* (core/app_ingress.py, with app_config_apply.py, app_lifecycle.py and    *)
(* InboundManager of server.py).                                           *)
(*                                                                         *)
(* Each revision of the configuration is published at once to whatever     *)
(* holds a credential, and then applied by a task that claims ownership,   *)
(* cancels the tasks before it and, one at a time under the reconcile      *)
(* lock, replaces the listener.  A manager is named by the revision whose  *)
(* task built it; its HTTP and WebSocket servers count as one.  Starting   *)
(* and stopping a manager are single steps at their end: nothing else of   *)
(* the task happens in between.                                            *)
(***************************************************************************)
EXTENDS Integers, FiniteSets

CONSTANTS
  Listeners,   \* what a listener's config_key tells apart
  Ports,       \* the binding_ports of each
  First,       \* the listener of the first revision
  MaxRev,      \* bound on revisions
  MaxFaults,   \* bound on starts and stops that fail by themselves
  MaxStops     \* bound on attempts to stop the application

IngressAssumption ==
  /\ MaxRev \in Nat \ {0} /\ {MaxFaults, MaxStops} \subseteq Nat
  /\ "none" \notin Listeners /\ First \in Listeners

VARIABLES
  config,     \* the snapshot of each revision: listener and token
  published,  \* _security_revision
  claimed,    \* _config_apply_revision, the owner's
  mgr,        \* the InboundManager of each revision
  task,       \* the config-apply task of each revision
  holder,     \* who holds _inbound_reconcile_lock, 0 if free
  inbound,    \* inbound_manager, 0 if None
  pending,    \* _inbound_cleanup_pending
  stopping,   \* _stopping
  shut,       \* where the shutdown is
  unstopped,  \* managers the shutdown has still to stop
  refused,    \* managers it could not stop
  stops, faults

settings == <<config, published, claimed>>
shutdown == <<stopping, shut, unstopped, refused, stops>>
vars == <<settings, mgr, task, holder, inbound, pending, shutdown, faults>>

Revs == 1..MaxRev
None == "none"
NoConfig == [key |-> None, token |-> 0]
NoManager == [life |-> "new", token |-> 0, busy |-> FALSE]
NoTask == [pc |-> "none", path |-> "none", next |-> "none",
           cut |-> FALSE, result |-> "none"]

\* The first revision is published and about to be applied
Init ==
  /\ config = [r \in Revs |-> IF r = 1 THEN [key |-> First, token |-> 1] ELSE NoConfig]
  /\ published = 1 /\ claimed = 0
  /\ mgr = [r \in Revs |-> NoManager] /\ task = [r \in Revs |-> NoTask]
  /\ holder = 0 /\ inbound = 0 /\ pending = {}
  /\ stopping = FALSE /\ shut = "no" /\ unstopped = {} /\ refused = {}
  /\ stops = 0 /\ faults = 0

-----------------------------------------------------------------------------
(* Keys, tokens and ownership *)

Key(r) == config[r].key
Overlap(k, l) == Ports[k] \cap Ports[l] # {}

\* Listeners need a token; without one the configuration is rejected
Valid(c) == c.key = None \/ c.token # 0

\* The token a manager may have: the published one, if it is for its listener
SafeTokenOf(m, c) == IF Valid(c) /\ Key(m) = c.key THEN c.token ELSE 0
SafeToken(m) == SafeTokenOf(m, config[published])

Revoked(M, m) == IF m = 0 THEN M ELSE [M EXCEPT ![m].token = 0]

Owns(r) == ~stopping /\ r = claimed /\ r = published

Building(r) == task[r].pc \notin {"none", "apply", "done"} /\ Key(r) # None

Holders_Published ==   \* mutant: candidates are not told of a rotation
  ({inbound} \ {0}) \cup pending

Holders == ({inbound} \ {0}) \cup {r \in Revs : Building(r)} \cup pending

Secured(c) == [m \in Revs |->
  IF m \in Holders THEN [mgr[m] EXCEPT !.token = SafeTokenOf(m, c)] ELSE mgr[m]]

\* _sync_current_inbound_token
Synced(r) == IF inbound = 0 THEN mgr
             ELSE [mgr EXCEPT ![inbound].token =
                     IF Key(inbound) = Key(r) THEN config[r].token ELSE 0]

-----------------------------------------------------------------------------
(* Starting and stopping a manager *)

Spend(n) == faults + n <= MaxFaults /\ faults' = faults + n

\* A stop that ends well leaves neither listener nor running event behind
Ended(M, m) == [M EXCEPT ![m].life = "new", ![m].busy = FALSE]

\* Some step of it failed; an event that ignores cancellation may still run
Broken(M, m) == [M EXCEPT ![m].life = "broken"]

\* How stop() may end when it is not cut short, and the faults it takes
Stops(M, m) ==
  {<<TRUE, Ended(M, m), 0>>} \cup
  (IF M[m].life = "new" THEN {} ELSE {<<FALSE, Broken(M, m), 1>>})

\* Every port is free
CanBind(m) == \A n \in Revs : mgr[n].life \in {"staged", "serving"} =>
                                ~Overlap(Key(m), Key(n))

\* How start() may fail: no token, a cancellation, a port in use, or a fault; the
\* clean-up of the attempt, or of what an earlier stop left, may fail as well
BadStarts(m, cut) ==
  LET forced == cut \/ ~CanBind(m)
  IN (IF mgr[m].token = 0 THEN {<<mgr, 0>>} ELSE {}) \cup
     {<<Ended(mgr, m), IF forced THEN 0 ELSE 1>>,
      <<Broken(mgr, m), IF forced \/ mgr[m].life = "broken" THEN 1 ELSE 2>>}

-----------------------------------------------------------------------------
(* The configuration is published, and a task created to apply it *)

\* _apply_security_snapshot: every holder of a credential, in one step
Publish ==
  /\ published < MaxRev
  /\ \E k \in Listeners \cup {None}, t \in {0, published + 1} :
       /\ k = None => t = 0   \* without a listener the token is not used
       /\ LET c == [key |-> k, token |-> t]
          IN config' = [config EXCEPT ![published + 1] = c] /\ mgr' = Secured(c)
  /\ published' = published + 1
  /\ UNCHANGED <<claimed, task, holder, inbound, pending, shutdown, faults>>

\* What cancel() does to a task depends on what it waits for: a stop or start it
\* awaits itself is cut short, an owned one is not.  (The lock is not held at
\* "lock"; nothing is held before it.)
Cancelled(x) ==
  CASE x.pc \in {"apply", "sync", "lock"} -> [x EXCEPT !.pc = "done", !.result = "lost"]
    [] x.pc \in {"stage", "stopOld", "start"} -> [x EXCEPT !.cut = TRUE]
    [] OTHER -> x

\* _apply_config_impl, from the notification queue
Apply ==
  /\ claimed < published /\ claimed' = published /\ mgr' = Secured(config[published])
  /\ task' = IF stopping THEN task
             ELSE [r \in Revs |-> IF r = published THEN [NoTask EXCEPT !.pc = "apply"]
                                  ELSE Cancelled(task[r])]
  /\ UNCHANGED <<config, published, holder, inbound, pending, shutdown, faults>>

-----------------------------------------------------------------------------
(* The task *)

Unchanged == UNCHANGED <<settings, shutdown>>
Go(r, p) == task' = [task EXCEPT ![r].pc = p] /\ UNCHANGED holder
GoOn(r, p, path) == task' = [task EXCEPT ![r].pc = p, ![r].path = path] /\ UNCHANGED holder
Release_Forgotten(r, result) ==   \* mutant: a task that fails keeps the lock
  IF holder = r /\ result # "failed" THEN 0 ELSE holder

Release(r, result) == IF holder = r THEN 0 ELSE holder

Done(r, result) ==
  /\ task' = [task EXCEPT ![r].pc = "done", ![r].result = result]
  /\ holder' = Release(r, result)
Discard(r, next, result) ==
  /\ task' = [task EXCEPT ![r].pc = "discard", ![r].next = next, ![r].result = result]
  /\ UNCHANGED holder

\* The desired manager is built and registered
TaskBuild(r) ==
  /\ task[r].pc = "apply"
  /\ IF ~Owns(r) THEN Done(r, "lost") /\ UNCHANGED mgr
     ELSE IF ~Valid(config[r]) THEN Done(r, "failed") /\ mgr' = Revoked(mgr, inbound)
     ELSE Go(r, "sync") /\ mgr' = [mgr EXCEPT ![r].token = config[r].token]
  /\ UNCHANGED <<inbound, pending, faults>> /\ Unchanged

TaskSync(r) ==
  /\ task[r].pc = "sync"
  /\ IF Owns(r) THEN Go(r, "lock") /\ mgr' = Synced(r)
     ELSE Done(r, "lost") /\ mgr' = Revoked(mgr, r)
  /\ UNCHANGED <<inbound, pending, faults>> /\ Unchanged

TaskLock(r) ==
  /\ task[r].pc = "lock" /\ holder = 0
  /\ IF Owns(r)
     THEN task' = [task EXCEPT ![r].pc = "drain"] /\ holder' = r /\ mgr' = Synced(r)
     ELSE Done(r, "lost") /\ UNCHANGED mgr
  /\ UNCHANGED <<inbound, pending, faults>> /\ Unchanged

\* _drain_inbound_cleanup_pending
TaskDrain(r) ==
  /\ task[r].pc = "drain"
  /\ \E m \in pending : \E o \in Stops(mgr, m) :
       /\ mgr' = o[2] /\ Spend(o[3])
       /\ IF o[1] THEN pending' = pending \ {m} /\ UNCHANGED <<task, holder>>
          ELSE UNCHANGED pending /\ Done(r, "failed")
  /\ UNCHANGED inbound /\ Unchanged

\* current.stop() begins
Stopping(M) == IF M[inbound].life # "serving" THEN M
               ELSE [M EXCEPT ![inbound].life = "stopping"]

SameListener_Ports(r) ==   \* mutant: a listener on a port it has already is the same
  Overlap(Key(r), Key(inbound))

SameListener(r) == Key(r) = Key(inbound)

\* _reconcile_inbound_manager_impl, after the drain
TaskDecide(r) ==
  /\ task[r].pc = "drain" /\ pending = {}
  /\ IF ~Owns(r) THEN Done(r, "lost") /\ mgr' = Revoked(mgr, r)
     ELSE IF Key(r) = None /\ inbound = 0 THEN Done(r, "ok") /\ UNCHANGED mgr
     ELSE IF Key(r) = None THEN GoOn(r, "stopOld", "off") /\ mgr' = Stopping(Synced(r))
     ELSE IF inbound = 0 THEN GoOn(r, "start", "fresh") /\ UNCHANGED mgr
     ELSE IF SameListener(r) THEN Done(r, "ok") /\ mgr' = Synced(r)
     ELSE IF Overlap(Key(r), Key(inbound))
          THEN GoOn(r, "stopOld", "overlap") /\ mgr' = Stopping(Synced(r))
     ELSE GoOn(r, "stage", "disjoint") /\ mgr' = Synced(r)
  /\ UNCHANGED <<inbound, pending, faults>> /\ Unchanged

Bound_Admitting(r) == [mgr EXCEPT ![r].life = "serving"]   \* mutant: it admits at once

Bound(r) == [mgr EXCEPT ![r].life = "staged"]

\* The replacement binds disjoint ports and admits nothing yet
TaskStage(r) ==
  /\ task[r].pc = "stage" /\ Unchanged
  /\ \/ /\ ~task[r].cut
        /\ CanBind(r) /\ UNCHANGED faults
        /\ IF Owns(r) THEN Go(r, "stopOld") /\ mgr' = Stopping(Bound(r))
           ELSE Discard(r, "end", "lost") /\ mgr' = Revoked(Bound(r), r)
     \/ \E o \in BadStarts(r, task[r].cut) :
          mgr' = o[1] /\ Spend(o[2]) /\ Discard(r, "end", "failed")
  /\ UNCHANGED <<inbound, pending>>

\* The old manager goes back into service, if its token is still good
Restore(r, M, result) ==
  /\ mgr' = IF task[r].path = "off" /\ result = "failed" THEN M
            ELSE [M EXCEPT ![inbound].token = SafeToken(inbound)]
  /\ task' = [task EXCEPT ![r].pc = "restore", ![r].result = result]
  /\ UNCHANGED holder

\* The old manager stopped; a disjoint replacement is committed here
TaskStopOldEnds(r) ==
  /\ task[r].pc = "stopOld" /\ (~task[r].cut \/ mgr[inbound].life = "new")
  /\ UNCHANGED <<pending, faults>> /\ Unchanged
  /\ LET M == Ended(mgr, inbound)  path == task[r].path
     IN CASE ~Owns(r) /\ path = "disjoint" ->
               mgr' = Revoked(M, r) /\ Discard(r, "restore", "lost") /\ UNCHANGED inbound
          [] ~Owns(r) /\ path # "disjoint" -> Restore(r, M, "lost") /\ UNCHANGED inbound
          [] Owns(r) /\ path = "off" -> mgr' = M /\ inbound' = 0 /\ Done(r, "ok")
          [] Owns(r) /\ path = "overlap" -> mgr' = M /\ Go(r, "start") /\ UNCHANGED inbound
          [] Owns(r) /\ path = "disjoint" ->
               mgr' = [M EXCEPT ![r].life = "serving"] /\ inbound' = r /\ Done(r, "ok")

TaskStopOldFails(r) ==
  /\ task[r].pc = "stopOld" /\ UNCHANGED <<inbound, pending>> /\ Unchanged
  /\ Spend(IF task[r].cut THEN 0 ELSE 1)
  /\ mgr[inbound].life # "new"
  /\ LET M == Broken(mgr, inbound)
     IN IF task[r].path = "disjoint"
        THEN mgr' = Revoked(M, r) /\ Discard(r, "restoreUnlessStopping", "failed")
        ELSE IF stopping THEN mgr' = M /\ Done(r, "failed") ELSE Restore(r, M, "failed")

\* The replacement starts: there is no old manager, or it has just stopped
TaskStart(r) ==
  /\ task[r].pc = "start" /\ UNCHANGED pending /\ Unchanged
  /\ \/ /\ ~task[r].cut /\ CanBind(r) /\ UNCHANGED faults
        /\ LET M == [mgr EXCEPT ![r].life = "serving"]
           IN IF Owns(r) THEN mgr' = M /\ inbound' = r /\ Done(r, "ok")
              ELSE /\ mgr' = Revoked(M, r) /\ UNCHANGED inbound
                   /\ Discard(r, IF task[r].path = "fresh" THEN "end"
                                 ELSE "restoreUnlessStopping", "lost")
     \/ \E o \in BadStarts(r, task[r].cut) :
          /\ Spend(o[2]) /\ UNCHANGED inbound
          /\ IF task[r].path = "fresh" THEN mgr' = o[1] /\ Discard(r, "fresh", "failed")
             ELSE mgr' = Revoked(o[1], r) /\ Discard(r, "restoreUnlessStopping", "failed")

\* What follows a discard
Goes(r, M) ==
  IF task[r].next = "restore" \/ (task[r].next = "restoreUnlessStopping" /\ ~stopping)
  THEN Restore(r, M, task[r].result)
  ELSE mgr' = M /\ Done(r, task[r].result)

Retained_Dropped(r) == pending   \* mutant: a manager that does not stop is forgotten

Retained(r) == pending \cup {r}

\* A replacement that is not wanted or did not start is stopped.  One that cannot
\* be stopped is kept to be stopped later, as the current one if there is none.
TaskDiscard(r) ==
  /\ task[r].pc = "discard" /\ Unchanged
  /\ \E o \in Stops(mgr, r) :
       /\ Spend(o[3])
       /\ pending' = IF o[1] THEN pending \ {r} ELSE Retained(r)
       /\ IF task[r].next = "fresh" /\ ~o[1]
          THEN inbound' = r /\ mgr' = Revoked(o[2], r) /\ Done(r, "failed")
          ELSE UNCHANGED inbound /\ Goes(r, o[2])

\* _restore_inbound_manager
TaskRestore(r) ==
  /\ task[r].pc = "restore" /\ Done(r, task[r].result) /\ Unchanged
  /\ \/ /\ mgr[inbound].token # 0 /\ CanBind(inbound)
        /\ mgr' = [Ended(mgr, inbound) EXCEPT ![inbound].life = "serving"]
        /\ UNCHANGED <<inbound, pending, faults>>
     \/ \E o \in BadStarts(inbound, FALSE) :
          /\ mgr' = o[1] /\ Spend(o[2])
          /\ inbound' = 0 /\ pending' = Retained(inbound)

Task(r) ==
  \/ TaskBuild(r) \/ TaskSync(r) \/ TaskLock(r) \/ TaskDrain(r) \/ TaskDecide(r)
  \/ TaskStage(r) \/ TaskStopOldEnds(r) \/ TaskStopOldFails(r) \/ TaskStart(r)
  \/ TaskDiscard(r) \/ TaskRestore(r)

-----------------------------------------------------------------------------
(* The application stops *)

Finished(r) == task[r].pc \in {"none", "done"}

\* stop(), again after an attempt that left something behind
Stop ==
  /\ shut \in {"no", "failed"} /\ stops < MaxStops
  /\ stopping' = TRUE /\ shut' = "cancel" /\ stops' = stops + 1
  /\ UNCHANGED <<settings, mgr, task, holder, inbound, pending, unstopped, refused, faults>>

\* _cancel_config_apply_tasks
StopCancels ==
  /\ shut = "cancel" /\ shut' = "wait"
  /\ task' = [r \in Revs |-> Cancelled(task[r])]
  /\ UNCHANGED <<settings, mgr, holder, inbound, pending, stopping, unstopped, refused,
                 stops, faults>>

\* A task that does not end in time keeps the shutdown from going on
StopGivesUp ==
  /\ shut = "wait" /\ (\E r \in Revs : ~Finished(r)) /\ shut' = "failed"
  /\ UNCHANGED <<settings, mgr, task, holder, inbound, pending, stopping, unstopped,
                 refused, stops, faults>>

\* _stop_inbound_manager
StopBegins ==
  /\ shut = "wait" /\ (\A r \in Revs : Finished(r)) /\ holder = 0 /\ shut' = "stop"
  /\ unstopped' = (pending \cup {inbound}) \ {0} /\ refused' = {}
  /\ UNCHANGED <<settings, mgr, task, holder, inbound, pending, stopping, stops, faults>>

StopManager ==
  /\ shut = "stop"
  /\ \E m \in unstopped : \E o \in Stops(mgr, m) :
       /\ mgr' = o[2] /\ Spend(o[3]) /\ unstopped' = unstopped \ {m}
       /\ refused' = IF o[1] THEN refused ELSE refused \cup {m}
  /\ UNCHANGED <<settings, task, holder, inbound, pending, stopping, shut, stops>>

StopEnds ==
  /\ shut = "stop" /\ unstopped = {}
  /\ pending' = refused \ {inbound}
  /\ inbound' = IF inbound \in refused THEN inbound ELSE 0
  /\ shut' = IF refused = {} THEN "stopped" ELSE "failed"
  /\ UNCHANGED <<settings, mgr, task, holder, stopping, unstopped, refused, stops, faults>>

Shutdown == StopCancels \/ StopGivesUp \/ StopBegins \/ StopManager \/ StopEnds

-----------------------------------------------------------------------------
(* Events.  A manager of two servers admits at the second one while the first *)
(* stops.                                                                     *)

Admits(m) == mgr[m].life \in {"serving", "stopping"} /\ mgr[m].token # 0

EventArrives(m) ==
  /\ Admits(m) /\ ~mgr[m].busy /\ mgr' = [mgr EXCEPT ![m].busy = TRUE]
  /\ UNCHANGED <<settings, task, holder, inbound, pending, shutdown, faults>>

EventEnds(m) ==
  /\ mgr[m].busy /\ mgr' = [mgr EXCEPT ![m].busy = FALSE]
  /\ UNCHANGED <<settings, task, holder, inbound, pending, shutdown, faults>>

\* What goes on by itself
Progress == Apply \/ Shutdown \/ \E r \in Revs : Task(r)

Next ==
  \/ Progress \/ Publish \/ Stop
  \/ \E m \in Revs : EventArrives(m) \/ EventEnds(m)

Spec == Init /\ [][Next]_vars

\* The loop runs the notification queue, the tasks and the shutdown; a stop or a
\* start ends, well or not, because each of its waits has a deadline
FairSpec == Spec /\ WF_vars(Progress)

-----------------------------------------------------------------------------
(* Properties *)

Lives == {"new", "staged", "serving", "stopping", "broken"}

\* Every variable keeps its kind.
TypeOK ==
  /\ \A r \in Revs : config[r] \in [key : Listeners \cup {None}, token : 0..MaxRev]
  /\ published \in Revs /\ claimed \in 0..published
  /\ \A r \in Revs : mgr[r] \in [life : Lives, token : 0..MaxRev, busy : BOOLEAN]
  /\ holder \in 0..MaxRev /\ inbound \in 0..MaxRev /\ pending \subseteq Revs
  /\ unstopped \cup refused \subseteq Revs /\ stops \in 0..MaxStops /\ faults \in 0..MaxFaults

\* Two managers never run events at the same time, nor does one begin to admit
\* them while another still runs some (the comment at
\* _switch_disjoint_inbound_manager), however switches are cut short.
OneExecutes ==
  \A m, n \in Revs :
    (mgr[m].busy \/ mgr[m].life = "serving") /\ (mgr[n].busy \/ mgr[n].life = "serving")
      => m = n

\* Nothing that listens, or is half stopped, is lost from sight: it is the
\* current manager, waits to be cleaned up, or belongs to a running task; and
\* when the application has stopped there is nothing left (_stop_inbound_manager).
NothingLost ==
  /\ TypeOK
  /\ \A m \in Revs : mgr[m].life # "new" =>
       /\ m = inbound \/ m \in pending \/ Building(m)
       /\ shut # "stopped"

\* No listener, old, new or restored, is left with a token other than the one
\* published for it (_apply_security_snapshot, _sync_current_inbound_token).
TokensCurrent ==
  \A m \in Revs : mgr[m].life # "new" => mgr[m].token \in {0, SafeToken(m)}

Quiet == ~stopping /\ claimed = published /\ Finished(published)

\* When the newest revision was applied without an error, the current manager is
\* the one it asks for, with its token, and is in service unless it never
\* started at all.
SettledAsAsked ==
  Quiet /\ task[published].result = "ok" =>
    IF Key(published) = None THEN inbound = 0
    ELSE /\ inbound # 0 /\ Key(inbound) = Key(published)
         /\ mgr[inbound].token = config[published].token
         /\ mgr[inbound].life = "serving" \/ task[inbound].result = "failed"

\* Every revision is applied or given up, and every attempt to stop ends.
EveryChangeEnds ==
  <>[]((\A r \in Revs : Finished(r)) /\ shut \in {"no", "stopped", "failed"})

\* When a replacement did not start after the old listener had stopped for it,
\* the old one goes back into service, unless that fails by itself
\* (_rollback_inbound_manager says so).
FailedSwitchRestores ==
  [][\A r \in Revs :
       /\ task[r].pc = "restore" /\ task[r].next = "restoreUnlessStopping"
       /\ task[r].path = "overlap" /\ task'[r].pc = "done" /\ Owns(r) /\ faults' = faults
       => inbound' # 0]_vars
=============================================================================
