---------------------------- MODULE ExecutionGate ----------------------------
(***************************************************************************)
(* The execution gate of one plugin generation (core/plugin_execution.py:  *)
(* PluginExecutionGate.run, _run_bounded, close, the policy and the        *)
(* publication hold).                                                      *)
(*                                                                         *)
(* One event loop runs everything here, so an action is what happens       *)
(* between two suspensions of one task; no section under _state_lock       *)
(* suspends, so the lock is never contended and disappears.  A call is one *)
(* run(): it waits for a slot, starts the operation in a task of its own   *)
(* and waits for that task behind a shield.  A cancellation or a timeout   *)
(* that lands on the call abandons the operation, gives it one turn of the *)
(* loop to end (asyncio.sleep(0)) and leaves it behind in quarantine.      *)
(* The synchronous callbacks of the plugin are the concern of SyncBroker;  *)
(* here they are only `sync`.                                              *)
(***************************************************************************)
EXTENDS Integers, FiniteSets, Deques

CONSTANTS
  Calls,            \* calls of run(), each at most once
  Modes,            \* "sequential" or "parallel": how plugins ask to be run
  ParallelLimits,   \* values the policy may give parallel_limit
  QueueLimits,      \* values the policy may give admission_queue_limit
  Scopes,           \* allow_closed of the calls
  Timed,            \* whether the policy sets timeout_seconds
  Endings,          \* how operations may end on their own
  FailureThreshold, \* failure_threshold of the policy
  CancelPoints,     \* phases in which somebody may cancel a call
  Admissions,       \* of "hold" and "close": what may happen to admission
  SyncWork          \* whether operations offload synchronous callbacks

ASSUME GateAssumption ==
  /\ IsFiniteSet(Calls)
  /\ Modes \subseteq {"sequential", "parallel"}
  /\ Timed \in BOOLEAN /\ SyncWork \in BOOLEAN
  /\ ParallelLimits \subseteq Nat \ {0} /\ ParallelLimits # {}
  /\ QueueLimits \subseteq Nat /\ QueueLimits # {}
  /\ Scopes \subseteq BOOLEAN
  /\ FailureThreshold \in Nat \ {0}
  /\ Endings \subseteq {"ok", "error", "fatal", "refused", "timeout", "cancelled"}
  /\ CancelPoints \subseteq {"queued", "running", "unwinding"}
  /\ Admissions \subseteq {"hold", "close"}

VARIABLES
  phase,              \* where the task of a call is
  allowClosed,        \* allow_closed of a call
  ready,              \* the _GateWaiter of a call: its future and `granted`
  cancelled,          \* calls whose task has a cancellation to be thrown
  outcome,            \* what run() ended with
  op,                 \* the operation task of a call
  ending,             \* how the operation ended
  opCancelled,        \* operations whose task was asked to cancel
  detached,           \* _detached_operation_tasks
  gateRunning,        \* _gate_running
  gateWaiters,        \* _gate_waiters
  mode,               \* of the plugin's manifest; it never changes
  parallelLimit, queueLimit, \* of _policy
  reconcileDue,       \* a _reconcile_policy task is pending
  failures,           \* _consecutive_failures, up to the threshold
  circuitOpen,        \* the clock is below _circuit_open_until
  poisoned,           \* _poisoned_by_timeout
  fatal,              \* of a call's fatal error: "none", "deferred" (it is in
                      \* _deferred_fatal_errors) or "consumed"
  sync,               \* _sync_futures: "none", "tracked", or "detached" and
                      \* then _poisoned_by_sync_callback
  admission,          \* "open", "held" for publication, or "closed"
  closeCall           \* progress of close()

callVars   == <<phase, allowClosed, cancelled, outcome>>
slotVars   == <<ready, gateRunning, gateWaiters>>
opVars     == <<op, ending, opCancelled, detached>>
policyVars == <<mode, parallelLimit, queueLimit, reconcileDue>>
healthVars == <<failures, circuitOpen, poisoned>>
admitVars  == <<admission, closeCall>>
vars == <<callVars, slotVars, opVars, policyVars, healthVars, fatal, sync, admitVars>>

-----------------------------------------------------------------------------
\* The calls inside run(): _active_tasks
Active == {c \in Calls : phase[c] \in {"queued", "running", "unwinding"}}

\* Operation tasks that are not done
Unfinished == {c \in Calls : op[c] \in {"created", "running"}}

\* Admitted by a grant or at once, and not yet past run()'s finally block
Holders == {c \in Calls : \/ phase[c] \in {"running", "unwinding"}
                          \/ phase[c] = "queued" /\ ready[c] = "granted"}

Capacity == IF mode = "sequential" THEN 1 ELSE parallelLimit

IsClosed == admission # "open"

SyncPoisoned == sync = "detached"

\* _ensure_available_locked: the exception it raises, "none" when it does not
Unavailable(allow) ==
  IF IsClosed /\ ~allow THEN "closed"
  ELSE IF ~allow /\ (poisoned \/ SyncPoisoned \/ circuitOpen) THEN "unavailable"
  ELSE "none"

Released(n) == IF n > 0 THEN n - 1 ELSE 0

\* _grant_waiters_locked with deque q and n slots in use: waiters are popped
\* from the head while a slot is free; those whose future is done are dropped,
\* those a closed gate no longer admits are refused, the others get the slot
Admissible(c) == ready[c] = "pending" /\ (allowClosed[c] \/ ~IsClosed)

GrantWaiters(q, n) ==
  LET before(i) == Cardinality({k \in 1..(i - 1) : Admissible(q[k])})
      popped  == {i \in DOMAIN q : n + before(i) < Capacity}
      taken   == {q[i] : i \in popped}
      granted == {c \in taken : Admissible(c)}
  IN /\ gateWaiters' = SubSeq(q, Cardinality(popped) + 1, Len(q))
     /\ gateRunning' = n + Cardinality(granted)
     /\ ready' = [c \in Calls |->
                    CASE c \in granted -> "granted"
                      [] c \in taken \ granted /\ ready[c] = "pending" -> "refused"
                      [] OTHER -> ready[c]]

\* _record_failure; the counter is only compared with the threshold
RecordFailure(force) ==
  /\ failures' = IF failures < FailureThreshold THEN failures + 1 ELSE failures
  /\ circuitOpen' = (circuitOpen \/ force \/ failures' >= FailureThreshold)
  /\ UNCHANGED poisoned

RecordSuccess ==
  /\ failures' = 0
  /\ circuitOpen' = (circuitOpen /\ (poisoned \/ SyncPoisoned))
  /\ UNCHANGED poisoned

-----------------------------------------------------------------------------
Init ==
  /\ phase = [c \in Calls |-> "idle"]
  /\ allowClosed = [c \in Calls |-> FALSE]
  /\ ready = [c \in Calls |-> "none"]
  /\ cancelled = {}
  /\ outcome = [c \in Calls |-> "none"]
  /\ op = [c \in Calls |-> "none"]
  /\ ending = [c \in Calls |-> "none"]
  /\ opCancelled = {} /\ detached = {}
  /\ gateRunning = 0 /\ gateWaiters = <<>>
  /\ mode \in Modes /\ parallelLimit \in ParallelLimits /\ queueLimit \in QueueLimits
  /\ reconcileDue = FALSE
  /\ failures = 0 /\ circuitOpen = FALSE /\ poisoned = FALSE
  /\ fatal = [c \in Calls |-> "none"] /\ sync = "none"
  /\ admission = "open" /\ closeCall = "none"

-----------------------------------------------------------------------------
(* run(): admission *)

NewOperation(c) ==
  /\ op' = [op EXCEPT ![c] = "created"]
  /\ phase' = [phase EXCEPT ![c] = "running"]
  /\ UNCHANGED <<ending, opCancelled, detached>>

\* The call ends; every way out goes through run()'s finally block
Leave(c, how) ==
  /\ phase' = [phase EXCEPT ![c] = "done"]
  /\ outcome' = [outcome EXCEPT ![c] = how]
  /\ cancelled' = cancelled \ {c}
  /\ UNCHANGED allowClosed

Admitted == gateRunning + Len(gateWaiters)

Overloaded == Admitted >= Capacity + queueLimit

\* Refused at once, before the call is tracked at all
EnterRefused(c, allow) ==
  LET reason == IF Unavailable(allow) # "none" THEN Unavailable(allow) ELSE "overloaded"
  IN /\ phase[c] = "idle"
     /\ Unavailable(allow) # "none" \/ Overloaded
     /\ phase' = [phase EXCEPT ![c] = "done"]
     /\ outcome' = [outcome EXCEPT ![c] = reason]
     /\ allowClosed' = [allowClosed EXCEPT ![c] = allow]
     /\ UNCHANGED <<cancelled, slotVars, opVars, policyVars, healthVars, fatal, sync, admitVars>>

FreeSlot_Barging == gateRunning < Capacity   \* mutant: ignores the waiters

FreeSlot == gateRunning < Capacity /\ gateWaiters = <<>>

\* Admitted at once: no suspension before the operation's task exists
EnterRunning(c, allow) ==
  /\ phase[c] = "idle"
  /\ Unavailable(allow) = "none" /\ ~Overloaded /\ FreeSlot
  /\ allowClosed' = [allowClosed EXCEPT ![c] = allow]
  /\ gateRunning' = gateRunning + 1
  /\ NewOperation(c)
  /\ UNCHANGED <<cancelled, outcome, ready, gateWaiters, policyVars, healthVars,
                 fatal, sync, admitVars>>

EnterQueue(c, allow) ==
  /\ phase[c] = "idle"
  /\ Unavailable(allow) = "none" /\ ~Overloaded /\ ~FreeSlot
  /\ allowClosed' = [allowClosed EXCEPT ![c] = allow]
  /\ phase' = [phase EXCEPT ![c] = "queued"]
  /\ ready' = [ready EXCEPT ![c] = "pending"]
  /\ gateWaiters' = Append(gateWaiters, c)
  /\ UNCHANGED <<cancelled, outcome, gateRunning, opVars, policyVars, healthVars,
                 fatal, sync, admitVars>>

Enter(c) == \E allow \in Scopes :
              EnterRefused(c, allow) \/ EnterRunning(c, allow) \/ EnterQueue(c, allow)

FinishHolding_Silent(c, how) ==   \* mutant: wakes nobody
  /\ Leave(c, how)
  /\ gateRunning' = Released(gateRunning)
  /\ UNCHANGED <<ready, gateWaiters>>

\* The finally block of a call that holds its slot
FinishHolding(c, how) ==
  /\ Leave(c, how)
  /\ GrantWaiters(gateWaiters, Released(gateRunning))

\* _remove_or_release_waiter and the finally block of a call that does not
Withdraw(c, how) ==
  /\ Leave(c, how)
  /\ GrantWaiters(Without(gateWaiters, c),
                  IF ready[c] = "granted" THEN Released(gateRunning) ELSE gateRunning)

WaiterGranted_Trusting(c) ==   \* mutant: relies on the check at the entrance
  /\ phase[c] = "queued" /\ ready[c] = "granted" /\ c \notin cancelled
  /\ NewOperation(c)
  /\ UNCHANGED <<allowClosed, cancelled, outcome, slotVars, policyVars, healthVars,
                 fatal, sync, admitVars>>

\* Availability is asked again: the gate may have closed since the grant
WaiterGranted(c) ==
  /\ phase[c] = "queued" /\ ready[c] = "granted" /\ c \notin cancelled
  /\ IF Unavailable(allowClosed[c]) = "none"
     THEN NewOperation(c) /\ UNCHANGED <<allowClosed, cancelled, outcome, slotVars>>
     ELSE FinishHolding(c, Unavailable(allowClosed[c])) /\ UNCHANGED opVars
  /\ UNCHANGED <<policyVars, healthVars, fatal, sync, admitVars>>

WaiterRefused(c) ==
  /\ phase[c] = "queued" /\ ready[c] = "refused" /\ c \notin cancelled
  /\ Withdraw(c, "closed")
  /\ UNCHANGED <<opVars, policyVars, healthVars, fatal, sync, admitVars>>

\* The deadline may pass when the future is done and the task has not resumed;
\* a cancellation on its way wins over it
WaiterTimesOut(c) ==
  /\ Timed /\ phase[c] = "queued" /\ c \notin cancelled
  /\ Withdraw(c, "timeout")
  /\ RecordFailure(TRUE)
  /\ UNCHANGED <<opVars, policyVars, fatal, sync, admitVars>>

WaiterCancelled(c) ==
  /\ phase[c] = "queued" /\ c \in cancelled
  /\ Withdraw(c, "cancelled")
  /\ UNCHANGED <<opVars, policyVars, healthVars, fatal, sync, admitVars>>

-----------------------------------------------------------------------------
(* The operation's task *)

\* First step of the task: a task cancelled before it runs none of its body
OperationStarts(c) ==
  /\ op[c] = "created"
  /\ IF c \in opCancelled
     THEN /\ op' = [op EXCEPT ![c] = "ended"]
          /\ ending' = [ending EXCEPT ![c] = "cancelled"]
     ELSE op' = [op EXCEPT ![c] = "running"] /\ UNCHANGED ending
  /\ UNCHANGED <<callVars, slotVars, opCancelled, detached, policyVars, healthVars,
                 fatal, sync, admitVars>>

\* It may obey a cancellation, resist it and end otherwise, or never end
OperationEnds(c) ==
  /\ op[c] = "running"
  /\ op' = [op EXCEPT ![c] = "ended"]
  /\ \E how \in Endings \cup (IF c \in opCancelled THEN {"cancelled"} ELSE {}) :
       ending' = [ending EXCEPT ![c] = how]
  /\ UNCHANGED <<callVars, slotVars, opCancelled, detached, policyVars, healthVars,
                 fatal, sync, admitVars>>

DeferFatals_Late(S) ==   \* mutant: asked after the task left the detached ones
  fatal' = [c \in Calls |-> IF c \in detached' /\ ending[c] = "fatal" /\ c \in S
                           THEN "deferred" ELSE fatal[c]]

DeferFatals(S) ==
  fatal' = [c \in Calls |-> IF c \in S \cap detached /\ ending[c] = "fatal"
                           THEN "deferred" ELSE fatal[c]]

\* _discard_operation_task for the ended operations S
StillDetached(S) == Unfinished \cap detached

Discard(S) ==
  /\ op' = [c \in Calls |-> IF c \in S THEN "collected" ELSE op[c]]
  /\ detached' = detached \ S
  /\ DeferFatals(S)
  /\ poisoned' = (poisoned /\ (S = {} \/ StillDetached(S) # {}))

\* The done-callback of the task: it runs before the shield wakes the call
OperationCollected(c) ==
  /\ op[c] = "ended"
  /\ Discard({c})
  /\ UNCHANGED <<callVars, slotVars, ending, opCancelled, policyVars, failures,
                 circuitOpen, sync, admitVars>>

-----------------------------------------------------------------------------
(* _run_bounded: waiting for the operation *)

Awaiting(c) == phase[c] = "running"

\* The task ended and the call gets its result
ResultArrives(c) ==
  /\ Awaiting(c) /\ op[c] = "collected" /\ c \notin cancelled
  /\ ending[c] \in {"ok", "error", "fatal", "refused"}
  /\ FinishHolding(c, ending[c])
  /\ CASE ending[c] = "ok"      -> RecordSuccess
       [] ending[c] = "refused" -> UNCHANGED healthVars
       [] OTHER                 -> RecordFailure(FALSE)
  /\ UNCHANGED <<opVars, policyVars, fatal, sync, admitVars>>

\* The operation is left to itself, and the call gives it one turn of the loop
Abandon(c, how) ==
  /\ phase' = [phase EXCEPT ![c] = "unwinding"]
  /\ outcome' = [outcome EXCEPT ![c] = how]
  /\ cancelled' = cancelled \ {c}
  /\ detached' = detached \cup {c}
  /\ opCancelled' = IF c \in Unfinished THEN opCancelled \cup {c} ELSE opCancelled
  /\ UNCHANGED <<allowClosed, slotVars, op, ending, policyVars, fatal, sync, admitVars>>

\* The deadline passes (at once, when nothing is left of it), or the operation
\* itself raised TimeoutError: the code does not tell them apart
CallTimesOut(c) ==
  /\ Awaiting(c) /\ c \notin cancelled
  /\ Timed \/ (op[c] = "collected" /\ ending[c] = "timeout")
  /\ RecordFailure(TRUE)
  /\ Abandon(c, "timeout")

\* A cancellation of the call, or a CancelledError of the operation's own
CallCancelled(c) ==
  /\ Awaiting(c)
  /\ c \in cancelled \/ (op[c] = "collected" /\ ending[c] = "cancelled")
  /\ UNCHANGED healthVars
  /\ Abandon(c, "cancelled")

\* The turn is over: an operation that had not started has taken its first step
\* (it was scheduled before the call's), and with that it has ended.  What is
\* still unfinished then was running and did not end on its cancellation.
TurnOver(c) == phase[c] = "unwinding" /\ op[c] # "created"

CallUnwound_TimeoutsOnly(c) ==   \* mutant: a cancelled call marks nothing
  /\ TurnOver(c) /\ c \notin cancelled
  /\ poisoned' = (poisoned \/ (c \in Unfinished /\ outcome[c] = "timeout"))
  /\ FinishHolding(c, outcome[c])
  /\ UNCHANGED <<opVars, policyVars, failures, circuitOpen, fatal, sync, admitVars>>

\* After the turn: _mark_unfinished_child, and out
CallUnwound(c) ==
  /\ TurnOver(c) /\ c \notin cancelled
  /\ poisoned' = (poisoned \/ c \in Unfinished)
  /\ FinishHolding(c, outcome[c])
  /\ UNCHANGED <<opVars, policyVars, failures, circuitOpen, fatal, sync, admitVars>>

\* A cancellation thrown into that sleep leaves without the mark
CallInterrupted(c) ==
  /\ TurnOver(c) /\ c \in cancelled
  /\ FinishHolding(c, "cancelled")
  /\ UNCHANGED <<opVars, policyVars, healthVars, fatal, sync, admitVars>>

\* Whoever awaits the call gives it up
Cancel(c) ==
  /\ phase[c] \in CancelPoints /\ c \notin cancelled
  /\ cancelled' = cancelled \cup {c}
  /\ UNCHANGED <<phase, allowClosed, outcome, slotVars, opVars, policyVars, healthVars,
                 fatal, sync, admitVars>>

-----------------------------------------------------------------------------
(* Policy, clock, synchronous work *)

SetPolicy ==
  /\ parallelLimit' \in ParallelLimits /\ queueLimit' \in QueueLimits
  /\ <<parallelLimit', queueLimit'>> # <<parallelLimit, queueLimit>>
  /\ reconcileDue' = TRUE
  /\ UNCHANGED <<mode, callVars, slotVars, opVars, healthVars, fatal, sync, admitVars>>

ReconcilePolicy ==
  /\ reconcileDue
  /\ reconcileDue' = FALSE
  /\ GrantWaiters(gateWaiters, gateRunning)
  /\ UNCHANGED <<callVars, opVars, mode, parallelLimit, queueLimit, healthVars, fatal,
                 sync, admitVars>>

\* The clock passes _circuit_open_until
CooldownEnds ==
  /\ circuitOpen /\ circuitOpen' = FALSE
  /\ UNCHANGED <<callVars, slotVars, opVars, policyVars, failures, poisoned, fatal,
                 sync, admitVars>>

\* A running operation offloads, abandons it when cancelled, the thread returns
SyncStep ==
  /\ SyncWork
  /\ \/ sync = "none" /\ sync' = "tracked" /\ \E c \in Calls : op[c] = "running"
     \/ sync = "tracked" /\ sync' = "detached" /\ opCancelled # {}
     \/ sync # "none" /\ sync' = "none"
  /\ UNCHANGED <<callVars, slotVars, opVars, policyVars, healthVars, fatal, admitVars>>

\* consume_deferred_fatal_error: the generation's owner takes one
ConsumeDeferredFatal(c) ==
  /\ fatal[c] = "deferred"
  /\ fatal' = [fatal EXCEPT ![c] = "consumed"]
  /\ UNCHANGED <<callVars, slotVars, opVars, policyVars, healthVars, sync, admitVars>>

-----------------------------------------------------------------------------
(* Publication and close *)

HoldForPublication ==
  /\ "hold" \in Admissions /\ admission = "open"
  /\ admission' = "held"
  /\ UNCHANGED <<callVars, slotVars, opVars, policyVars, healthVars, fatal, sync, closeCall>>

\* Raises unless the hold is still the one that was taken
ReleasePublicationHold ==
  /\ admission = "held"
  /\ admission' = "open"
  /\ UNCHANGED <<callVars, slotVars, opVars, policyVars, healthVars, fatal, sync, closeCall>>

CloseAdmission ==
  /\ "close" \in Admissions /\ admission # "closed"
  /\ admission' = "closed"
  /\ UNCHANGED <<callVars, slotVars, opVars, policyVars, healthVars, fatal, sync, closeCall>>

\* close() up to its first sleep, called by a task that is no call of the
\* gate: waiters that may not run any more are refused but keep their place,
\* and every call and operation is asked to cancel
CloseBegin ==
  /\ "close" \in Admissions /\ closeCall # "draining"
  /\ admission' = "closed" /\ closeCall' = "draining"
  /\ ready' = [c \in Calls |-> IF c \in Range(gateWaiters) /\ ready[c] = "pending" /\ ~allowClosed[c]
                                THEN "refused" ELSE ready[c]]
  /\ cancelled' = cancelled \cup Active
  /\ opCancelled' = opCancelled \cup Unfinished
  /\ UNCHANGED <<phase, allowClosed, outcome, gateRunning, gateWaiters, op, ending, detached,
                 policyVars, healthVars, fatal, sync>>

Drained_Calls == Active = {} /\ sync = "none"   \* mutant: forgets operations

Drained == Active = {} /\ Unfinished = {} /\ sync = "none"

\* It found the gate drained, or its deadline passed
CloseEnd ==
  /\ closeCall = "draining"
  /\ closeCall' = IF Drained THEN "drained" ELSE "undrained"
  /\ Discard({c \in Calls : op[c] = "ended"})
  /\ UNCHANGED <<callVars, slotVars, ending, opCancelled, policyVars, failures, circuitOpen,
                 sync, admission>>

-----------------------------------------------------------------------------
CallStep(c) == \/ WaiterGranted(c) \/ WaiterRefused(c) \/ WaiterTimesOut(c) \/ WaiterCancelled(c)
               \/ ResultArrives(c) \/ CallTimesOut(c) \/ CallCancelled(c)
               \/ CallUnwound(c) \/ CallInterrupted(c)

Next ==
  \/ \E c \in Calls : \/ Enter(c) \/ CallStep(c) \/ Cancel(c)
                      \/ OperationStarts(c) \/ OperationEnds(c) \/ OperationCollected(c)
                      \/ ConsumeDeferredFatal(c)
  \/ SetPolicy \/ ReconcilePolicy \/ CooldownEnds \/ SyncStep
  \/ HoldForPublication \/ ReleasePublicationHold \/ CloseAdmission
  \/ CloseBegin \/ CloseEnd

Spec == Init /\ [][Next]_vars

-----------------------------------------------------------------------------
(* Properties *)

Results == {"ok", "error", "fatal", "refused", "closed", "unavailable", "overloaded",
            "timeout", "cancelled"}

\* Types of all variables; the counters stay within the number of calls
TypeOK ==
  /\ phase \in [Calls -> {"idle", "queued", "running", "unwinding", "done"}]
  /\ allowClosed \in [Calls -> BOOLEAN]
  /\ ready \in [Calls -> {"none", "pending", "granted", "refused"}]
  /\ cancelled \subseteq Calls
  /\ outcome \in [Calls -> Results \cup {"none"}]
  /\ op \in [Calls -> {"none", "created", "running", "ended", "collected"}]
  /\ ending \in [Calls -> Endings \cup {"none", "cancelled"}]
  /\ opCancelled \subseteq Calls /\ detached \subseteq Calls
  /\ fatal \in [Calls -> {"none", "deferred", "consumed"}]
  /\ gateRunning \in 0..Cardinality(Calls) /\ gateWaiters \in Seq(Calls)
  /\ mode \in Modes /\ parallelLimit \in ParallelLimits /\ queueLimit \in QueueLimits
  /\ failures \in 0..FailureThreshold
  /\ {reconcileDue, circuitOpen, poisoned} \subseteq BOOLEAN
  /\ sync \in {"none", "tracked", "detached"}
  /\ admission \in {"open", "held", "closed"}
  /\ closeCall \in {"none", "draining", "drained", "undrained"}

\* _gate_running counts the calls that hold a slot, whichever of timeout,
\* cancellation, refusal or result took which of them out of run(): a slot
\* given back twice over-admits, one kept starves the gate for good.  And no
\* hand-off is missed: a call waits only while every slot is taken, or a change
\* of policy is still to be applied.
SlotsExact ==
  /\ TypeOK /\ gateRunning = Cardinality(Holders)
  /\ ~reconcileDue /\ (\E c \in Calls : phase[c] = "queued" /\ ready[c] = "pending")
       => gateRunning >= Capacity

\* A normal operation starts only while the gate is open and neither
\* quarantined nor broken, even when its slot was granted before.
StartsOnlyWhenAvailable ==
  [][\A c \in Calls : op[c] = "none" /\ op'[c] = "created" /\ ~allowClosed'[c]
       => admission = "open" /\ ~poisoned /\ ~circuitOpen /\ sync # "detached"]_vars

\* A callback that outlives its call (it resisted the cancellation) keeps the
\* gate quarantined: _mark_unfinished_child, "A cancellation-resistant child
\* remains tracked and quarantined."
AbandonedIsQuarantined ==
  \A c \in Unfinished : phase[c] = "done" => poisoned

QuarantineHasCause ==
  poisoned => \E c \in detached : op[c] \in {"created", "running", "ended"}

OneAtATime ==
  mode = "sequential" => \A c, d \in Unfinished : c # d => allowClosed[c] \/ allowClosed[d]

\* The quarantine lasts as long as its cause.  Not shorter: with concurrency =
\* "sequential" two normal callbacks of the plugin never run at the same time,
\* abandoned ones included; only a lifecycle callback (allow_closed) may run
\* beside an abandoned one.  And not longer: it is never left behind when the
\* last abandoned task is collected, or the plugin would be unavailable for good.
QuarantineExact == OneAtATime /\ QuarantineHasCause

\* close() reported drained: from then on nothing normal of this generation
\* runs or waits, so its modules may be unloaded.
DrainedStaysQuiet ==
  closeCall = "drained" =>
    \A c \in Calls : ~allowClosed[c] => phase[c] \in {"idle", "done"} /\ c \notin Unfinished

\* A fatal error raised after its call was given up is kept for the owner of
\* the generation.  One exception: a call given up between the end of its
\* operation and its own next step drops the error it was about to raise, and
\* leaves its task in _detached_operation_tasks.
LateFatalKept ==
  \A c \in Calls : phase[c] = "done" /\ op[c] = "collected" /\ ending[c] = "fatal" =>
    outcome[c] = "fatal" \/ fatal[c] # "none" \/ c \in detached

\* Refinement: admission is a bounded FIFO pool of slots.  A waiter that was
\* refused while still in the deque does not wait any more.
Pending == {c \in Calls : phase[c] = "queued" /\ ready[c] = "pending"}

Pool == INSTANCE SlotPool WITH
  Users <- Calls,
  Capacities <- ParallelLimits \cup {1},
  holders <- Holders,
  waiting <- Pending,
  before <- Order(gateWaiters, Pending),
  capacity <- Capacity

ImplementsSlotPool == Pool!PoolSpec

=============================================================================
