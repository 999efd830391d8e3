------------------------- MODULE InboundDispatcher -------------------------
(***************************************************************************)
(* The dispatcher behind the HTTP and WebSocket entrances (core/server.py: *)
(* _InboundEventDispatcher).  Admitted events wait in one lane per session *)
(* key, lanes with work wait in a ready queue, and at most MaxWorkers      *)
(* tasks take lanes from it; each runs the handler of one event at a time. *)
(*                                                                         *)
(* Everything runs on one event loop.  A worker runs without suspension    *)
(* from its wake-up until it awaits a handler or ends, through as many     *)
(* tickets as it meets: `looping` names the worker that is doing so and no *)
(* other step is possible meanwhile.                                       *)
(***************************************************************************)
EXTENDS Integers, FiniteSets, Deques

CONSTANTS
  Events,            \* each is offered to the dispatcher at most once
  Keys,              \* session keys
  KeyOf,             \* the key of each event (_event_key)
  NoEvent,
  MaxWorkers,        \* max_workers
  QueueSize,         \* queue_size
  Endings,           \* how a handler may end: "actions", "error"
  MaxDisturbances    \* bound on calls of stop and cancellations of a worker

ASSUME DispatcherAssumption ==
  /\ IsFiniteSet(Events) /\ NoEvent \notin Events /\ KeyOf \in [Events -> Keys]
  /\ MaxWorkers \in Nat \ {0} /\ QueueSize \in Nat
  /\ Endings \subseteq {"actions", "error"}
  /\ MaxDisturbances \in Nat

Workers == 1..MaxWorkers
Capacity == MaxWorkers + QueueSize

VARIABLES
  status,         \* "new", "pending", "running" or "finished"
  result,         \* the ticket's result future; "failed" if cancelled or an
                  \* exception
  op,             \* the operation task of a started ticket; "actions" is kept
  opCancel,       \* tickets whose operation was asked to cancel
  unsent,         \* how a transport gave up actions that were there: "discarded" or
                  \* "cancelled"; "no" if it did not
  cancelDue,      \* _cancel_if_result_cancelled scheduled on the loop
  settled,        \* tickets whose actions were handed to _settle_dropped
  pending,        \* pending of each lane
  running,        \* running of each lane
  ready,          \* ready of each lane
  readyKeys,      \* _ready_keys
  worker,         \* "none", "created" or "busy" for each worker task
  carries,        \* the event a busy worker runs
  cancelling,     \* workers with cancelling() > 0
  interrupted,    \* workers cancelled after the operation they await was done
  looping,        \* the worker that runs now, or 0
  doneDue,        \* _worker_done callbacks scheduled on the loop
  workerCancels,  \* number of cancellations of workers from outside
  inflight,       \* _inflight
  accepting,      \* _accepting
  stopping,       \* _stopping
  stopCall,       \* progress of stop()
  stops           \* number of calls of stop

ticketVars == <<status, result, op, opCancel, settled>>
laneVars   == <<pending, running, ready, readyKeys>>
workerVars == <<worker, carries, cancelling, interrupted, doneDue>>
stopVars   == <<accepting, stopping, stopCall, stops>>
vars == <<ticketVars, unsent, cancelDue, laneVars, workerVars, looping,
          workerCancels, inflight, stopVars>>

Init ==
  /\ status = [e \in Events |-> "new"]
  /\ result = [e \in Events |-> "none"]
  /\ op = [e \in Events |-> "none"]
  /\ opCancel = {} /\ cancelDue = {} /\ settled = {}
  /\ unsent = [e \in Events |-> "no"]
  /\ pending = [k \in Keys |-> <<>>]
  /\ running = [k \in Keys |-> NoEvent]
  /\ ready = [k \in Keys |-> FALSE]
  /\ readyKeys = <<>>
  /\ worker = [w \in Workers |-> "none"]
  /\ carries = [w \in Workers |-> NoEvent]
  /\ cancelling = {} /\ interrupted = {}
  /\ looping = 0 /\ doneDue = 0 /\ workerCancels = 0
  /\ inflight = 0
  /\ accepting = TRUE /\ stopping = FALSE /\ stopCall = "none" /\ stops = 0

\* The loop is free for another callback
Idle == looping = 0

Live == {w \in Workers : worker[w] # "none"}

-----------------------------------------------------------------------------
(* Lanes and workers *)

\* _ensure_workers, for n keys in the ready queue: new tasks, up to max_workers
EnsureWorkers(n) ==
  LET missing == IF MaxWorkers < Cardinality(Live) + n
                 THEN MaxWorkers - Cardinality(Live) ELSE n
      fresh == CHOOSE W \in SUBSET (Workers \ Live) : Cardinality(W) = missing
  IN worker' = [w \in Workers |-> IF w \in fresh THEN "created" ELSE worker[w]]

\* _schedule_lane
Schedulable(k) == ~ready[k] /\ running[k] = NoEvent

\* _schedule_lane without a worker of its own: the key goes behind the others
\* in queue if rest, its line by then, is not empty.
Requeue_Once(k, rest, queue) ==   \* mutant: a lane is queued by admissions only
  /\ ready' = [ready EXCEPT ![k] = FALSE]
  /\ readyKeys' = queue

Requeue(k, rest, queue) ==
  /\ ready' = [ready EXCEPT ![k] = rest # <<>>]
  /\ readyKeys' = IF rest = <<>> THEN queue ELSE Append(queue, k)

\* cancel(): e leaves its lane if it waits there, and its operation is told
CancelTicket(e) ==
  /\ result' = IF result[e] = "waiting" /\ status[e] # "finished"
               THEN [result EXCEPT ![e] = "failed"] ELSE result
  /\ opCancel' = IF status[e] = "running" /\ op[e] = "running"
                 THEN opCancel \cup {e} ELSE opCancel
  /\ IF status[e] = "pending"
     THEN /\ pending' = [pending EXCEPT ![KeyOf[e]] = Without(@, e)]
          /\ status' = [status EXCEPT ![e] = "finished"]
          /\ inflight' = inflight - 1
     ELSE UNCHANGED <<pending, status, inflight>>

-----------------------------------------------------------------------------
(* The transports.  Whether a ticket is awaited already or waits in a          *)
(* connection's queue shows only when the transport gives it up, and an end    *)
(* that it takes as it is changes nothing here: neither is a step.             *)

\* Not accepting, or at capacity, admit() raises and leaves no trace
Admit(e) ==
  LET k == KeyOf[e]
  IN /\ Idle /\ status[e] = "new" /\ accepting /\ inflight < Capacity
     /\ status' = [status EXCEPT ![e] = "pending"]
     /\ result' = [result EXCEPT ![e] = "waiting"]
     /\ pending' = [pending EXCEPT ![k] = Append(@, e)]
     /\ inflight' = inflight + 1
     /\ IF Schedulable(k)
        THEN /\ ready' = [ready EXCEPT ![k] = TRUE]
             /\ readyKeys' = Append(readyKeys, k)
             /\ EnsureWorkers(Len(readyKeys) + 1)
        ELSE UNCHANGED <<ready, readyKeys, worker>>
     /\ UNCHANGED <<op, opCancel, settled, unsent, cancelDue, running, carries, cancelling,
                    interrupted, doneDue, looping, workerCancels, stopVars>>

Discard_Silent(e) ==   \* mutant: the actions are not settled
  /\ Idle /\ unsent[e] = "no" /\ result[e] \in {"waiting", "actions"}
  /\ unsent' = [unsent EXCEPT ![e] = IF result[e] = "actions" THEN "discarded" ELSE @]
  /\ CancelTicket(e)
  /\ UNCHANGED settled
  /\ UNCHANGED <<op, cancelDue, running, ready, readyKeys, workerVars, looping,
                 workerCancels, stopVars>>

\* discard(): nobody will send what this ticket still yields
Discard(e) ==
  /\ Idle /\ unsent[e] = "no" /\ result[e] \in {"waiting", "actions"}
  /\ unsent' = [unsent EXCEPT ![e] = IF result[e] = "actions" THEN "discarded" ELSE @]
  /\ CancelTicket(e)
  /\ settled' = IF result[e] = "actions" THEN settled \cup {e} ELSE settled
  /\ UNCHANGED <<op, cancelDue, running, ready, readyKeys, workerVars, looping,
                 workerCancels, stopVars>>

\* The awaiting task is cancelled.  A result still awaited is cancelled with
\* it and the rest is left to a callback; one that is there already, but has
\* not reached the unsent, is lost to it.
CancelCaller(e) ==
  /\ Idle /\ unsent[e] = "no" /\ result[e] \in {"waiting", "actions"}
  /\ unsent' = [unsent EXCEPT ![e] = IF result[e] = "actions" THEN "cancelled" ELSE @]
  /\ IF result[e] = "waiting"
     THEN /\ result' = [result EXCEPT ![e] = "failed"]
          /\ cancelDue' = cancelDue \cup {e}
          /\ UNCHANGED <<status, opCancel, pending, inflight>>
     ELSE CancelTicket(e) /\ UNCHANGED cancelDue
  /\ UNCHANGED <<op, settled, running, ready, readyKeys, workerVars, looping,
                 workerCancels, stopVars>>

\* _cancel_if_result_cancelled, and the cancel() of wait() right after it
ResultCancelled(e) ==
  /\ Idle /\ e \in cancelDue
  /\ cancelDue' = cancelDue \ {e}
  /\ CancelTicket(e)
  /\ UNCHANGED <<op, settled, unsent, running, ready, readyKeys, workerVars,
                 looping, workerCancels, stopVars>>

-----------------------------------------------------------------------------
(* The workers *)

\* Worker w is over, and its done callback is due
Dies(w) ==
  /\ worker' = [worker EXCEPT ![w] = "none"]
  /\ cancelling' = cancelling \ {w}
  /\ interrupted' = interrupted \ {w}
  /\ doneDue' = doneDue + 1
  /\ looping' = 0

\* First turn of a worker task; one cancelled before never gets there
WorkerBegins(w) ==
  /\ Idle /\ worker[w] = "created"
  /\ IF w \in cancelling
     THEN Dies(w)
     ELSE looping' = w /\ UNCHANGED <<worker, cancelling, interrupted, doneDue>>
  /\ UNCHANGED <<ticketVars, unsent, cancelDue, laneVars, carries, workerCancels, inflight,
                 stopVars>>

LoopEnds(w) ==
  /\ looping = w /\ readyKeys = <<>>
  /\ Dies(w)
  /\ UNCHANGED <<ticketVars, unsent, cancelDue, laneVars, carries, workerCancels, inflight,
                 stopVars>>

\* A lane all of whose tickets left while it was in the ready queue
LoopSkips(w) ==
  /\ looping = w /\ readyKeys # <<>>
  /\ LET k == Head(readyKeys)
     IN /\ running[k] # NoEvent \/ pending[k] = <<>>
        /\ ready' = [ready EXCEPT ![k] = FALSE]
  /\ readyKeys' = Tail(readyKeys)
  /\ UNCHANGED <<ticketVars, unsent, cancelDue, pending, running, workerVars, looping,
                 workerCancels, inflight, stopVars>>

FirstOf_Newest(k) == pending[k][Len(pending[k])]   \* mutant: pop for popleft

FirstOf(k) == Head(pending[k])

Takes(w) ==
  /\ looping = w /\ readyKeys # <<>>
  /\ running[Head(readyKeys)] = NoEvent /\ pending[Head(readyKeys)] # <<>>

\* The ticket taken ends before its handler starts, and the worker goes on
DropFirst(k) ==
  LET rest == Without(pending[k], FirstOf(k))
  IN /\ pending' = [pending EXCEPT ![k] = rest]
     /\ status' = [status EXCEPT ![FirstOf(k)] = "finished"]
     /\ inflight' = inflight - 1
     /\ Requeue(k, rest, Tail(readyKeys))

LoopDropsCancelled(w) ==
  /\ Takes(w) /\ result[FirstOf(Head(readyKeys))] = "failed"
  /\ DropFirst(Head(readyKeys))
  /\ UNCHANGED <<result, op, opCancel, settled, unsent, cancelDue, running,
                 workerVars, looping, workerCancels, stopVars>>

\* auth_guard() says no or raises: the ticket has run, for no time at all
LoopRefuses(w) ==
  /\ Takes(w) /\ result[FirstOf(Head(readyKeys))] # "failed"
  /\ result' = [result EXCEPT ![FirstOf(Head(readyKeys))] =
                  IF @ = "waiting" THEN "failed" ELSE @]
  /\ DropFirst(Head(readyKeys))
  /\ UNCHANGED <<op, opCancel, settled, unsent, cancelDue, running, workerVars,
                 looping, workerCancels, stopVars>>

LoopStarts(w) ==
  LET k == Head(readyKeys)
      e == FirstOf(k)
  IN /\ Takes(w) /\ result[e] # "failed"
     /\ status' = [status EXCEPT ![e] = "running"]
     /\ op' = [op EXCEPT ![e] = "running"]
     /\ pending' = [pending EXCEPT ![k] = Without(@, e)]
     /\ running' = [running EXCEPT ![k] = e]
     /\ ready' = [ready EXCEPT ![k] = FALSE]
     /\ readyKeys' = Tail(readyKeys)
     /\ worker' = [worker EXCEPT ![w] = "busy"]
     /\ carries' = [carries EXCEPT ![w] = e]
     /\ looping' = 0
     /\ UNCHANGED <<result, opCancel, settled, unsent, cancelDue, cancelling,
                    interrupted, doneDue, workerCancels, inflight, stopVars>>

\* The operation task ends.  A handler may swallow its cancellation.
OperationEnds(e) ==
  /\ Idle /\ op[e] = "running"
  /\ \E end \in Endings \cup IF e \in opCancel THEN {"cancelled"} ELSE {} :
       op' = [op EXCEPT ![e] = end]
  /\ UNCHANGED <<status, result, opCancel, settled, unsent, cancelDue, laneVars,
                 workerVars, looping, workerCancels, inflight, stopVars>>

\* The worker that awaited the operation goes on: with its outcome, or with a
\* CancelledError that is the operation's or its own.
WorkerResumes(w) ==
  LET e    == carries[w]
      k    == KeyOf[e]
      lost == w \in interrupted \/ op[e] = "cancelled"
  IN /\ Idle /\ e # NoEvent /\ op[e] # "running"
     /\ result' = IF result[e] = "waiting"
                  THEN [result EXCEPT ![e] = IF lost \/ op[e] # "actions" THEN "failed" ELSE "actions"]
                  ELSE result
     /\ settled' = IF ~lost /\ op[e] = "actions" /\ result[e] # "waiting"
                   THEN settled \cup {e} ELSE settled
     /\ status' = [status EXCEPT ![e] = "finished"]
     /\ op' = [op EXCEPT ![e] = IF @ = "actions" THEN @ ELSE "none"]
     /\ opCancel' = opCancel \ {e}
     /\ running' = [running EXCEPT ![k] = NoEvent]
     /\ inflight' = inflight - 1
     /\ Requeue(k, pending[k], readyKeys)
     /\ carries' = [carries EXCEPT ![w] = NoEvent]
     /\ IF lost /\ w \in cancelling
        THEN Dies(w)
        ELSE looping' = w /\ UNCHANGED <<worker, cancelling, interrupted, doneDue>>
     /\ UNCHANGED <<unsent, cancelDue, pending, workerCancels, stopVars>>

WorkerDone_Quiet ==   \* mutant: no replacement
  /\ Idle /\ doneDue > 0
  /\ doneDue' = doneDue - 1
  /\ UNCHANGED <<ticketVars, unsent, cancelDue, laneVars, worker, carries, cancelling,
                 interrupted, looping, workerCancels, inflight, stopVars>>

\* _worker_done: keys a dead worker left behind get another one
WorkerDone ==
  /\ Idle /\ doneDue > 0
  /\ doneDue' = doneDue - 1
  /\ IF readyKeys # <<>> /\ (~stopping \/ inflight > 0)
     THEN EnsureWorkers(Len(readyKeys))
     ELSE UNCHANGED worker
  /\ UNCHANGED <<ticketVars, unsent, cancelDue, laneVars, carries, cancelling, interrupted,
                 looping, workerCancels, inflight, stopVars>>

\* Somebody cancels the worker task: that of the operation it awaits, if it is
\* still running, and else the outcome is thrown away.
CancelWorker(w) ==
  /\ Idle /\ w \in Live /\ stops + workerCancels < MaxDisturbances
  /\ workerCancels' = workerCancels + 1
  /\ cancelling' = cancelling \cup {w}
  /\ LET e == carries[w]
     IN IF e = NoEvent THEN UNCHANGED <<opCancel, interrupted>>
        ELSE IF op[e] = "running"
             THEN opCancel' = opCancel \cup {e} /\ UNCHANGED interrupted
             ELSE interrupted' = interrupted \cup {w} /\ UNCHANGED opCancel
  /\ UNCHANGED <<status, result, op, settled, unsent, cancelDue, laneVars, worker,
                 carries, doneDue, looping, inflight, stopVars>>

-----------------------------------------------------------------------------
(* start and stop; the server's lifecycle lock lets one run at a time *)

\* Nothing is left to drain, so the workers that never took a key go as well
Reap ==
  /\ cancelling' = cancelling \cup Live
  /\ stopCall' = "reaping"

StopCalled ==
  /\ Idle /\ stopCall = "none" /\ stops + workerCancels < MaxDisturbances /\ (accepting \/ stopping)
  /\ stops' = stops + 1
  /\ accepting' = FALSE /\ stopping' = TRUE
  /\ IF inflight > 0 THEN stopCall' = "draining" /\ UNCHANGED cancelling ELSE Reap
  /\ UNCHANGED <<ticketVars, unsent, cancelDue, laneVars, worker, carries, interrupted,
                 doneDue, looping, workerCancels, inflight>>

StopDrained ==
  /\ Idle /\ stopCall \in {"draining", "aborting"} /\ inflight = 0
  /\ Reap
  /\ UNCHANGED <<ticketVars, unsent, cancelDue, laneVars, worker, carries, interrupted,
                 doneDue, looping, workerCancels, inflight, accepting, stopping, stops>>

\* drain_timeout_seconds are over: waiting tickets end, running ones are told to
StopTimesOut ==
  LET aborted == {e \in Events : status[e] = "pending"}
      started == {e \in Events : status[e] = "running"}
  IN /\ Idle /\ stopCall = "draining"
     /\ pending' = [k \in Keys |-> <<>>]
     /\ status' = [e \in Events |-> IF e \in aborted THEN "finished" ELSE status[e]]
     /\ result' = [e \in Events |-> IF e \in aborted \cup started /\ result[e] = "waiting"
                                    THEN "failed" ELSE result[e]]
     /\ opCancel' = opCancel \cup {e \in started : op[e] = "running"}
     /\ inflight' = inflight - Cardinality(aborted)
     /\ IF inflight' > 0 THEN stopCall' = "aborting" /\ UNCHANGED cancelling ELSE Reap
     /\ UNCHANGED <<op, settled, unsent, cancelDue, running, ready, readyKeys, worker,
                    carries, interrupted, doneDue, looping, workerCancels, accepting,
                    stopping, stops>>

\* A handler ignores its cancellation, or the task that stops is cancelled: the
\* dispatcher stays half stopped, and stop may be called again.
StopGivesUp ==
  /\ Idle /\ stopCall # "none"
  /\ stopCall' = "none"
  /\ UNCHANGED <<ticketVars, unsent, cancelDue, laneVars, workerVars, looping,
                 workerCancels, inflight, accepting, stopping, stops>>

ClearLanes ==
  /\ readyKeys' = <<>>
  /\ pending' = [k \in Keys |-> <<>>]
  /\ running' = [k \in Keys |-> NoEvent]
  /\ ready' = [k \in Keys |-> FALSE]

\* _finalize_stop
StopReaped ==
  /\ Idle /\ stopCall = "reaping" /\ Live = {}
  /\ ClearLanes
  /\ stopping' = FALSE /\ stopCall' = "none"
  /\ UNCHANGED <<ticketVars, unsent, cancelDue, workerVars, looping, workerCancels,
                 inflight, accepting, stops>>

\* start() refuses while a former generation has work or workers
Start ==
  /\ Idle /\ stopCall = "none" /\ ~accepting /\ inflight = 0 /\ Live = {}
  /\ ClearLanes
  /\ accepting' = TRUE /\ stopping' = FALSE
  /\ UNCHANGED <<ticketVars, unsent, cancelDue, workerVars, looping, workerCancels,
                 inflight, stopCall, stops>>

-----------------------------------------------------------------------------
LoopStep(w) ==
  LoopEnds(w) \/ LoopSkips(w) \/ LoopDropsCancelled(w) \/ LoopRefuses(w) \/ LoopStarts(w)

\* What goes on by itself: callbacks that are due, handlers, timers
Progress ==
  \/ \E e \in Events : OperationEnds(e) \/ ResultCancelled(e)
  \/ \E w \in Workers : WorkerBegins(w) \/ LoopStep(w) \/ WorkerResumes(w)
  \/ WorkerDone
  \/ StopDrained \/ StopTimesOut \/ StopReaped

Next ==
  \/ Progress
  \/ \E e \in Events : Admit(e) \/ Discard(e) \/ CancelCaller(e)
  \/ \E w \in Workers : CancelWorker(w)
  \/ StopCalled \/ StopGivesUp \/ Start

Spec == Init /\ [][Next]_vars

\* The loop does not stand still while something goes on by itself: handlers end
\* and timers expire.  Transports, and who starts or stops, owe nothing.
Fairness == WF_vars(Progress)

FairSpec == Spec /\ Fairness

-----------------------------------------------------------------------------
(* Properties *)

Statuses == {"new", "pending", "running", "finished"}
Results  == {"none", "waiting", "actions", "failed"}

\* Every variable has its type; the in-flight count never goes below zero
\* (_decrement_inflight raises if it does).
TypeOK ==
  /\ status \in [Events -> Statuses]
  /\ result \in [Events -> Results]
  /\ op \in [Events -> {"none", "running", "cancelled"} \cup Endings]
  /\ unsent \in [Events -> {"no", "discarded", "cancelled"}]
  /\ opCancel \subseteq Events /\ cancelDue \subseteq Events /\ settled \subseteq Events
  /\ pending \in [Keys -> Seq(Events)] /\ running \in [Keys -> Events \cup {NoEvent}]
  /\ ready \in [Keys -> BOOLEAN] /\ readyKeys \in Seq(Keys)
  /\ worker \in [Workers -> {"none", "created", "busy"}]
  /\ carries \in [Workers -> Events \cup {NoEvent}]
  /\ interrupted \subseteq cancelling /\ cancelling \subseteq Live
  /\ looping \in Workers \cup {0} /\ doneDue \in Nat
  /\ stops \in Nat /\ workerCancels \in Nat /\ stops + workerCancels <= MaxDisturbances
  /\ inflight \in Nat
  /\ accepting \in BOOLEAN /\ stopping \in BOOLEAN
  /\ stopCall \in {"none", "draining", "aborting", "reaping"}

InflightExact ==
  /\ TypeOK
  /\ inflight = Cardinality({e \in Events : status[e] \in {"pending", "running"}})
  /\ inflight <= Capacity
  /\ \A e \in Events : /\ status[e] = "pending" <=> e \in Range(pending[KeyOf[e]])
                       /\ status[e] = "running" <=> running[KeyOf[e]] = e

WorkersSuffice ==
  Idle /\ doneDue = 0 /\ inflight > 0 =>
    /\ \A k \in Keys : pending[k] # <<>> /\ running[k] = NoEvent => k \in Range(readyKeys)
    /\ \/ Cardinality(Live) = MaxWorkers
       \/ Cardinality({w \in Workers : worker[w] = "created"}) >= Len(readyKeys)

\* The in-flight count that bounds admission and ends a drain is exactly the
\* number of tickets that wait in a lane or run, however they leave.  And none is
\* forgotten: while the loop is free and no worker's end is unprocessed, a lane
\* with work and no handler is in the ready queue, and there is a worker on its
\* way for every key in it or no more may be started.
LanesExact == InflightExact /\ WorkersSuffice

\* The actions a handler returned are settled as undelivered exactly when no
\* transport has them: their ticket's result was taken before they came, or the
\* transport discarded the ticket.
ActionsAccounted ==
  workerCancels = 0 =>
    \A e \in Events : op[e] = "actions" /\ status[e] = "finished" =>
      (e \in settled <=> result[e] # "actions" \/ unsent[e] = "discarded")

\* Comment at core/server.py:302 and :453: what a finished handler returned and
\* nobody will send is settled.  A transport task cancelled after the result
\* came and before it resumed sends nothing either.
NoActionsDropped ==
  \A e \in Events :
    op[e] = "actions" /\ status[e] = "finished" /\ unsent[e] = "cancelled" => e \in settled

Lanes == INSTANCE FifoLanes WITH
  waiting <- [k \in Keys |-> Range(pending[k])],
  before <- [k \in Keys |-> Order(pending[k], Range(pending[k]))],
  handled <- running, Room <- Capacity

\* Handlers of one session key run one at a time and in the order of admission,
\* at most MaxWorkers + QueueSize events are in the dispatcher.
ImplementsFifoLanes == Lanes!LanesSpec

\* Every admitted event ends: no lane is forgotten by the workers, through
\* cancellations, dead workers and stops.  (Events are offered once, so in the end
\* none is left.)
EveryEventEnds == <>[](\A e \in Events : status[e] \in {"new", "finished"})
=============================================================================
