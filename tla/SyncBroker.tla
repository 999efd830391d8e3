------------------------------ MODULE SyncBroker ------------------------------
(***************************************************************************)
(* The shared bulkhead for synchronous plugin callbacks                    *)
(* (core/plugin_execution.py: PluginSyncBroker, the part of                *)
(* PluginExecutionGate that tracks real executor futures, and              *)
(* offload_plugin_sync).                                                   *)
(*                                                                         *)
(* Two kinds of thread run this code: the event-loop thread (submissions,  *)
(* deliveries, cancellations, policy changes, gate and broker close) and   *)
(* the executor's worker threads (callbacks and their done-callbacks).     *)
(* Everything under PluginSyncBroker._lock is one critical section; it is  *)
(* split into steps, with `lock` saying who holds it, where the code it    *)
(* runs is a loop (_dispatch_locked, the purge of close_gate_admission) or *)
(* touches gate fields that are read or written without that lock.  What   *)
(* the loop thread still has to do after it released the lock is `todo`.   *)
(***************************************************************************)
EXTENDS Integers, Deques

CONSTANTS
  Jobs,             \* callbacks handed to offload_plugin_sync, each at most once
  Gates,            \* execution gates: one lane each
  FallbackLane,     \* lane of the calls made outside any gate
  NoOne,            \* absence of a job or a gate
  MaxWorkers,       \* max_workers of the broker
  GlobalLimits,     \* values configure() may give global_queue_limit
  ParallelLimits,   \* values a policy may give sync_parallel_limit
  QueueLimits,      \* values a policy may give sync_queue_limit
  Scopes,           \* allow_closed of the scopes that call
  Endings,          \* how callbacks may end
  Stops,            \* what may be stopped under work: "gate", "broker", "loop"
  SubmitMayFail     \* whether ThreadPoolExecutor.submit may raise

Lanes == Gates \cup {FallbackLane}

ASSUME BrokerAssumption ==
  /\ IsFiniteSet(Jobs)
  /\ MaxWorkers \in Nat \ {0}
  /\ GlobalLimits \subseteq Nat \ {0}
  /\ ParallelLimits \subseteq Nat \ {0}
  /\ QueueLimits \subseteq Nat
  /\ GlobalLimits # {} /\ ParallelLimits # {} /\ QueueLimits # {}
  /\ FallbackLane \notin Gates
  /\ NoOne \notin Jobs \cup Gates
  /\ Scopes \subseteq BOOLEAN
  /\ Endings \subseteq {"result", "error", "fatal"}
  /\ Stops \subseteq {"gate", "broker", "loop"}
  /\ SubmitMayFail \in BOOLEAN

VARIABLES
  jobs,              \* _SyncCallbackJob records
  laneQueues,        \* _lane_queues: the deque of each lane
  laneKeys,          \* the lanes that have an entry in _lane_queues
  readyLanes,        \* _ready_lanes (_ready_lane_set is its range)
  runningByLane,     \* _running_by_lane, 0 for an absent lane
  queuedCount, runningCount, pendingDeliveryCount,
  globalQueueLimit,  \* _global_queue_limit
  closed,            \* _closed of the broker
  executor,          \* "none", "live" or "shutdown"
  closeCall,         \* progress of PluginSyncBroker.close
  lock,              \* holder of _lock and what it still does under it
  gate,              \* "open", "held" for publication, or "closed"
  policy,            \* sync limits of each gate's current policy
  syncFutures,       \* _sync_futures of each gate
  detachedFutures,   \* _detached_sync_futures of each gate
  poisoned,          \* _poisoned_by_sync_callback of each gate
  fatalErrors,       \* jobs whose fatal error is in _deferred_fatal_errors
  loopAlive,         \* FALSE once the owner loop was closed
  todo,              \* what the loop thread does next, outside the lock
  cancelCalls        \* completion.cancel callbacks scheduled on the loop

queueVars  == <<laneQueues, laneKeys, readyLanes, runningByLane,
                queuedCount, runningCount>>
brokerVars == <<globalQueueLimit, closed, executor, closeCall>>
trackVars  == <<syncFutures, detachedFutures, poisoned>>
gateVars   == <<gate, policy>>
vars == <<jobs, queueVars, pendingDeliveryCount, brokerVars, lock, gateVars,
          trackVars, fatalErrors, loopAlive, todo, cancelCalls>>

-----------------------------------------------------------------------------
(***************************************************************************)
(* A job: `fut` is the ConcurrentFuture of the executor ("pending" until a *)
(* worker thread picks the work item up), `outcome` what the callback      *)
(* ended with ("fatal" is a BaseException that is not an Exception),       *)
(* `completion` the asyncio future the consumer awaits, `consumer` the     *)
(* task suspended in offload_plugin_sync and what it finally got.          *)
(***************************************************************************)
Outcomes == {"result", "error", "fatal"}

Job == [state           : {"new", "rejected", "queued", "running", "terminal", "cancelled"},
        lane            : Lanes \cup {NoOne},
        allowClosed     : BOOLEAN,
        fut             : {"none", "pending", "running", "done"},
        outcome         : Outcomes \cup {"none", "cancelled"},
        detached        : BOOLEAN,
        delivered       : BOOLEAN,
        deliveryPending : BOOLEAN,
        completion      : Outcomes \cup {"pending", "cancelled"},
        consumer        : Outcomes \cup {"none", "waiting", "cancelled"}]

NewJob == [state |-> "new", lane |-> NoOne, allowClosed |-> FALSE,
           fut |-> "none", outcome |-> "none", detached |-> FALSE,
           delivered |-> FALSE, deliveryPending |-> FALSE,
           completion |-> "pending", consumer |-> "none"]

Unlocked == [by |-> "nobody", at |-> "free", of |-> NoOne, flag |-> FALSE]
\* Under the lock, about to iterate _dispatch_locked; `flag` says whether
\* _take_drained_executor_locked follows it.
Dispatching(thread, retire) ==
  [by |-> thread, at |-> "dispatch", of |-> NoOne, flag |-> retire]

Idle == [op |-> "idle", of |-> NoOne]

-----------------------------------------------------------------------------
\* _lane_running_limit_locked: with at least two workers no gate gets them all
CrossPluginCap == IF MaxWorkers > 1 THEN MaxWorkers - 1 ELSE 1

LaneRunningLimit(lane) ==
  IF lane = FallbackLane THEN MaxWorkers
  ELSE IF policy[lane].parallel < CrossPluginCap THEN policy[lane].parallel
  ELSE CrossPluginCap

\* _lane_queue_limit_locked
LaneQueueLimit(lane) ==
  IF lane = FallbackLane THEN globalQueueLimit ELSE policy[lane].queue

\* _queue_lane_locked: the ready sequence once `lane`, whose deque is `queue`
\* and which occupies `running` workers, was offered for dispatching
QueueLane(lane, ready, queue, running) ==
  IF queue = <<>> \/ lane \in Range(ready) \/ running >= LaneRunningLimit(lane)
  THEN ready
  ELSE Append(ready, lane)

\* The keys of _lane_queues after `lane` was left with `queue` and `running`
KeysAfter(lane, queue, running) ==
  IF queue = <<>> /\ running = 0 THEN laneKeys \ {lane} ELSE laneKeys

\* _take_drained_executor_locked over the counters it would see
ExecutorAfter(queued, running, deliveries) ==
  IF closed /\ queued = 0 /\ running = 0 /\ deliveries = 0 /\ executor = "live"
  THEN "shutdown" ELSE executor

-----------------------------------------------------------------------------
\* The loop thread is between two callbacks; it takes _lock only when free.
LoopIdle    == loopAlive /\ todo = Idle /\ lock.by # "loop"
LoopCanLock == LoopIdle /\ lock = Unlocked
\* The loop thread carries out what it owes once it released the lock.
LoopDoes(op, of) ==
  loopAlive /\ lock.by # "loop" /\ todo = [op |-> op, of |-> of] /\ todo' = Idle

IsGated(j)     == jobs[j].lane \in Gates
RunningJobs    == {j \in Jobs : jobs[j].state = "running"}
RunningIn(l)   == {j \in RunningJobs : jobs[j].lane = l}
BusyThreads    == {j \in RunningJobs : jobs[j].fut \in {"running", "done"}}
DeferFatal_Delivered(j, outcome) ==   \* mutant: forgets a delivery under way
  IF IsGated(j) /\ outcome = "fatal" /\ jobs[j].delivered
  THEN fatalErrors \cup {j} ELSE fatalErrors

\* The `not job.fatal_deferred` of _defer_fatal_locked: fatalErrors is a set
DeferFatal(j, outcome) ==
  IF IsGated(j) /\ outcome = "fatal" THEN fatalErrors \cup {j} ELSE fatalErrors
\* Queued work cancelled by the broker: nobody is left to answer
Revoked(job) == [job EXCEPT !.state = "cancelled", !.detached = TRUE]

\* The completion of a job once it is set or cancelled: only the first counts
Resolved(job, answer) ==
  IF job.completion = "pending" THEN answer ELSE job.completion

ScheduleCancel_Forgotten(js) == cancelCalls   \* mutant

\* call_soon_threadsafe(job.completion.cancel); a closed loop refuses it
ScheduleCancel(js) == IF loopAlive THEN cancelCalls \cup js ELSE cancelCalls

\* _discard_sync_future, read by a thread nobody races with
PendingDetached(g, j) ==
  \E k \in detachedFutures[g] \ {j} : jobs[k].fut # "done"
Untrack(g, j) ==
  /\ syncFutures' = [syncFutures EXCEPT ![g] = @ \ {j}]
  /\ detachedFutures' = [detachedFutures EXCEPT ![g] = @ \ {j}]
Discard(j) ==
  IF IsGated(j) /\ j \in syncFutures[jobs[j].lane]
  THEN LET g == jobs[j].lane IN
       /\ Untrack(g, j)
       /\ poisoned' = [poisoned EXCEPT ![g] = @ /\ PendingDetached(g, j)]
  ELSE UNCHANGED trackVars

Init ==
  /\ jobs = [j \in Jobs |-> NewJob]
  /\ laneQueues = [l \in Lanes |-> <<>>]
  /\ laneKeys = {}
  /\ readyLanes = <<>>
  /\ runningByLane = [l \in Lanes |-> 0]
  /\ queuedCount = 0 /\ runningCount = 0 /\ pendingDeliveryCount = 0
  /\ globalQueueLimit \in GlobalLimits
  /\ closed = FALSE
  /\ executor = "none"
  /\ closeCall = "none"
  /\ lock = Unlocked
  /\ gate = [g \in Gates |-> "open"]
  /\ policy \in [Gates -> [parallel : ParallelLimits, queue : QueueLimits]]
  /\ syncFutures = [g \in Gates |-> {}]
  /\ detachedFutures = [g \in Gates |-> {}]
  /\ poisoned = [g \in Gates |-> FALSE]
  /\ fatalErrors = {}
  /\ loopAlive = TRUE
  /\ todo = Idle
  /\ cancelCalls = {}

-----------------------------------------------------------------------------
(* submit, called by offload_plugin_sync after _resolve_sync_broker *)

SlotFree(l) ==
  runningCount < MaxWorkers /\ runningByLane[l] < LaneRunningLimit(l)

Immediate(l) == SlotFree(l) /\ laneQueues[l] = <<>> /\ readyLanes = <<>>

HasRoom(l) ==
  Immediate(l) \/ /\ Len(laneQueues[l]) < LaneQueueLimit(l)
                  /\ queuedCount < globalQueueLimit

\* The scope an inner call inherits resolves to the gate, or to no gate.
MayCall(l, allowClosed) ==
  IF l \in Gates THEN gate[l] = "open" \/ allowClosed ELSE ~allowClosed

Admit(j, l, allowClosed) ==
  /\ LoopCanLock
  /\ jobs[j].state = "new" /\ MayCall(l, allowClosed)
  /\ ~closed /\ HasRoom(l)
  /\ jobs' = [jobs EXCEPT ![j] = [@ EXCEPT !.state = "queued", !.lane = l,
                !.allowClosed = allowClosed, !.consumer = "waiting"]]
  /\ laneQueues' = [laneQueues EXCEPT ![l] = Append(@, j)]
  /\ laneKeys' = laneKeys \cup {l}
  /\ queuedCount' = queuedCount + 1
  /\ readyLanes' = QueueLane(l, readyLanes, laneQueues'[l], runningByLane[l])
  /\ lock' = Dispatching("loop", FALSE)
  /\ UNCHANGED <<runningByLane, runningCount, pendingDeliveryCount, brokerVars,
                 gateVars, trackVars, fatalErrors, loopAlive, todo, cancelCalls>>

\* PluginExecutionClosed or PluginExecutionOverloaded; an overloaded lane that
\* has work keeps the entry setdefault gave it.
Reject(j, l, allowClosed) ==
  /\ LoopCanLock
  /\ jobs[j].state = "new" /\ MayCall(l, allowClosed)
  /\ closed \/ ~HasRoom(l)
  /\ jobs' = [jobs EXCEPT ![j].state = "rejected"]
  /\ laneKeys' = IF closed THEN laneKeys
                 ELSE IF laneQueues[l] = <<>> /\ runningByLane[l] = 0
                 THEN laneKeys \ {l} ELSE laneKeys \cup {l}
  /\ UNCHANGED <<laneQueues, readyLanes, runningByLane, queuedCount,
                 runningCount, pendingDeliveryCount, brokerVars, lock, gateVars,
                 trackVars, fatalErrors, loopAlive, todo, cancelCalls>>

-----------------------------------------------------------------------------
(* _dispatch_locked, one lane of _ready_lanes at a time *)

CanDispatch == lock.at = "dispatch" /\ runningCount < MaxWorkers /\ readyLanes # <<>>

\* The lane was emptied, or is at its own limit: it only leaves _ready_lanes.
DispatchSkip ==
  LET l == Head(readyLanes) IN
  /\ CanDispatch
  /\ laneQueues[l] = <<>> \/ runningByLane[l] >= LaneRunningLimit(l)
  /\ readyLanes' = Tail(readyLanes)
  /\ laneKeys' = IF laneQueues[l] = <<>> THEN laneKeys \ {l} ELSE laneKeys
  /\ UNCHANGED <<jobs, laneQueues, runningByLane, queuedCount, runningCount,
                 pendingDeliveryCount, brokerVars, lock, gateVars, trackVars,
                 fatalErrors, loopAlive, todo, cancelCalls>>

\* What dispatching the head of the first ready lane has in common
DispatchHead(l, j, running) ==
  /\ CanDispatch
  /\ l = Head(readyLanes)
  /\ laneQueues[l] # <<>> /\ runningByLane[l] < LaneRunningLimit(l)
  /\ j = Head(laneQueues[l])
  /\ laneQueues' = [laneQueues EXCEPT ![l] = Tail(@)]
  /\ queuedCount' = queuedCount - 1
  /\ readyLanes' = QueueLane(l, Tail(readyLanes), Tail(laneQueues[l]), running)
  /\ laneKeys' = KeysAfter(l, Tail(laneQueues[l]), running)

ClosedToJob(j) ==
  IsGated(j) /\ gate[jobs[j].lane] # "open" /\ ~jobs[j].allowClosed

\* The gate closed after the job was admitted.
DispatchCancelled(l, j) ==
  /\ DispatchHead(l, j, runningByLane[l])
  /\ ClosedToJob(j)
  /\ jobs' = [jobs EXCEPT ![j] = Revoked(@)]
  /\ cancelCalls' = ScheduleCancel({j})
  /\ UNCHANGED <<runningByLane, runningCount, pendingDeliveryCount, brokerVars,
                 lock, gateVars, trackVars, fatalErrors, loopAlive, todo>>

\* The executor accepts the callback; its future is registered in the gate
\* before the start barrier lets the callback begin.
DispatchStart(l, j) ==
  /\ DispatchHead(l, j, runningByLane[l] + 1)
  /\ ~ClosedToJob(j)
  /\ executor # "shutdown"
  /\ jobs' = [jobs EXCEPT ![j] = [@ EXCEPT !.state = "running", !.fut = "pending"]]
  /\ runningByLane' = [runningByLane EXCEPT ![l] = @ + 1]
  /\ runningCount' = runningCount + 1
  /\ executor' = "live"
  /\ syncFutures' = IF l \in Gates
                    THEN [syncFutures EXCEPT ![l] = @ \cup {j}] ELSE syncFutures
  /\ UNCHANGED <<pendingDeliveryCount, globalQueueLimit, closed, closeCall, lock,
                 gateVars, detachedFutures, poisoned, fatalErrors, loopAlive,
                 todo, cancelCalls>>

\* ThreadPoolExecutor.submit raised: the slot is released at once and the error
\* is delivered like a result.
DispatchFailed(l, j) ==
  /\ DispatchHead(l, j, runningByLane[l])
  /\ ~ClosedToJob(j)
  /\ SubmitMayFail \/ executor = "shutdown"
  /\ jobs' = [jobs EXCEPT ![j] = [@ EXCEPT !.state = "terminal",
                !.outcome = "error", !.detached = ~loopAlive,
                !.delivered = ~loopAlive, !.deliveryPending = loopAlive]]
  /\ pendingDeliveryCount' = pendingDeliveryCount + (IF loopAlive THEN 1 ELSE 0)
  /\ executor' = IF executor = "none" THEN "live" ELSE executor
  /\ UNCHANGED <<runningByLane, runningCount, globalQueueLimit, closed, closeCall,
                 lock, gateVars, trackVars, fatalErrors, loopAlive, todo,
                 cancelCalls>>

\* The loop ended: release the lock, retiring the executor where
\* _take_drained_executor_locked follows.
DispatchDone ==
  /\ lock.at = "dispatch"
  /\ ~CanDispatch
  /\ lock' = Unlocked
  /\ executor' = IF lock.flag
                 THEN ExecutorAfter(queuedCount, runningCount, pendingDeliveryCount)
                 ELSE executor
  /\ UNCHANGED <<jobs, queueVars, pendingDeliveryCount, globalQueueLimit, closed,
                 closeCall, gateVars, trackVars, fatalErrors, loopAlive, todo,
                 cancelCalls>>

-----------------------------------------------------------------------------
(* Worker threads *)

\* A thread takes the work item: the future can no longer be cancelled.  The
\* pool has MaxWorkers threads, one of which may be in a done-callback.
WorkerStart(j) ==
  /\ jobs[j].state = "running" /\ jobs[j].fut = "pending"
  /\ Cardinality(BusyThreads) + (IF lock.by = "worker" THEN 1 ELSE 0) < MaxWorkers
  /\ jobs' = [jobs EXCEPT ![j].fut = "running"]
  /\ UNCHANGED <<queueVars, pendingDeliveryCount, brokerVars, lock, gateVars,
                 trackVars, fatalErrors, loopAlive, todo, cancelCalls>>

\* The callback returned or raised; the future is done, its callbacks not run.
WorkerFinish(j, outcome) ==
  /\ jobs[j].fut = "running"
  /\ jobs' = [jobs EXCEPT ![j] = [@ EXCEPT !.fut = "done", !.outcome = outcome]]
  /\ UNCHANGED <<queueVars, pendingDeliveryCount, brokerVars, lock, gateVars,
                 trackVars, fatalErrors, loopAlive, todo, cancelCalls>>

ReleaseSlot_OfferFirst(l) ==   \* mutant: the lane is offered before its slot is free
  /\ runningCount' = runningCount - 1
  /\ runningByLane' = [runningByLane EXCEPT ![l] = @ - 1]
  /\ readyLanes' = QueueLane(l, readyLanes, laneQueues[l], runningByLane[l])
  /\ laneKeys' = IF laneQueues[l] = <<>> THEN laneKeys \ {l} ELSE laneKeys

\* _release_running_slot_locked and the offer of the lane to the dispatch loop
ReleaseSlot(l) ==
  LET running == runningByLane[l] - 1 IN
  /\ runningCount' = runningCount - 1
  /\ runningByLane' = [runningByLane EXCEPT ![l] = running]
  /\ readyLanes' = QueueLane(l, readyLanes, laneQueues[l], running)
  /\ laneKeys' = IF laneQueues[l] = <<>> THEN laneKeys \ {l} ELSE laneKeys

ReturnedCallback(j) == jobs[j].state = "running" /\ jobs[j].fut = "done"

\* _complete_from_worker up to its dispatch.  A job nobody awaits, or whose
\* loop is closed, is settled here: its future leaves the gate, and the gate
\* flag is written one step later (Settle).
WorkerComplete(j) ==
  LET l == jobs[j].lane
      direct == jobs[j].detached \/ ~loopAlive
  IN
  /\ lock = Unlocked
  /\ ReturnedCallback(j)
  /\ jobs' = [jobs EXCEPT ![j] = [@ EXCEPT !.state = "terminal",
                !.detached = direct, !.delivered = direct,
                !.deliveryPending = ~direct]]
  /\ ReleaseSlot(l)
  /\ pendingDeliveryCount' = pendingDeliveryCount + (IF direct THEN 0 ELSE 1)
  /\ fatalErrors' = IF direct THEN DeferFatal(j, jobs[j].outcome) ELSE fatalErrors
  /\ IF direct /\ IsGated(j) /\ j \in syncFutures[l]
     THEN /\ Untrack(l, j)
          /\ lock' = [by |-> "worker", at |-> "settle", of |-> l,
                      flag |-> PendingDetached(l, j)]
     ELSE /\ UNCHANGED <<syncFutures, detachedFutures>>
          /\ lock' = Dispatching("worker", TRUE)
  /\ UNCHANGED <<laneQueues, queuedCount, brokerVars, gateVars, poisoned,
                 loopAlive, todo, cancelCalls>>

\* The end of _discard_sync_future, outside _sync_futures_lock: the flag is
\* cleared on what was computed about the detached futures a step earlier.
Settle ==
  /\ lock.at = "settle"
  /\ poisoned' = [poisoned EXCEPT ![lock.of] = @ /\ lock.flag]
  /\ lock' = Dispatching("worker", TRUE)
  /\ UNCHANGED <<jobs, queueVars, pendingDeliveryCount, brokerVars, gateVars,
                 syncFutures, detachedFutures, fatalErrors, loopAlive, todo,
                 cancelCalls>>

-----------------------------------------------------------------------------
(* The consumer: offload_plugin_sync, suspended on job.completion *)

\* cancel_or_detach of a job that is still queued
CancelQueued(j) ==
  LET l == jobs[j].lane
      queue == Without(laneQueues[l], j)
  IN
  /\ jobs[j].state = "queued"
  /\ jobs' = [jobs EXCEPT ![j] = [Revoked(@) EXCEPT !.completion = "cancelled",
                !.consumer = "cancelled"]]
  /\ laneQueues' = [laneQueues EXCEPT ![l] = queue]
  /\ queuedCount' = queuedCount - 1
  /\ readyLanes' = QueueLane(l, Without(readyLanes, l), queue, runningByLane[l])
  /\ laneKeys' = KeysAfter(l, queue, runningByLane[l])
  /\ lock' = Dispatching("loop", FALSE)
  /\ UNCHANGED <<runningByLane, runningCount, pendingDeliveryCount, brokerVars,
                 gateVars, trackVars, fatalErrors, loopAlive, todo, cancelCalls>>

CanCancel_Running(j) == jobs[j].fut \in {"pending", "running"}   \* mutant

\* ConcurrentFuture.cancel()
CanCancel(j) == jobs[j].fut = "pending"

\* ... of a job whose work item no thread took yet: future.cancel() succeeds
\* and runs _complete_from_worker in this thread, under the same RLock.
CancelPending(j) ==
  /\ jobs[j].state = "running" /\ CanCancel(j)
  /\ jobs' = [jobs EXCEPT ![j] = [@ EXCEPT !.state = "terminal", !.fut = "done",
                !.outcome = "cancelled", !.detached = TRUE, !.delivered = TRUE,
                !.completion = "cancelled", !.consumer = "cancelled"]]
  /\ ReleaseSlot(jobs[j].lane)
  /\ Discard(j)
  /\ lock' = Dispatching("loop", TRUE)
  /\ todo' = [op |-> "mark", of |-> j]
  /\ UNCHANGED <<laneQueues, queuedCount, pendingDeliveryCount, brokerVars,
                 gateVars, fatalErrors, loopAlive, cancelCalls>>

\* ... of a job whose callback runs or has just returned: it is only detached;
\* a callback still running is then marked in its gate (LoopMark).
DetachRunning(j) ==
  /\ jobs[j].state = "running" /\ ~CanCancel(j)
  /\ jobs' = [jobs EXCEPT ![j] = [@ EXCEPT !.detached = TRUE, !.consumer = "cancelled"]]
  /\ todo' = IF jobs[j].fut = "running" THEN [op |-> "mark", of |-> j] ELSE todo
  /\ UNCHANGED <<queueVars, pendingDeliveryCount, brokerVars, lock, gateVars,
                 trackVars, fatalErrors, loopAlive, cancelCalls>>

DeliveriesLeft_Kept(j) == pendingDeliveryCount   \* mutant
TakeOverFuture_Lost(j) == todo                   \* mutant

DeliveriesLeft(j) == pendingDeliveryCount - (IF jobs[j].deliveryPending THEN 1 ELSE 0)
\* future_to_discard of an outcome whose delivery was still queued
TakeOverFuture(j) == IF jobs[j].deliveryPending /\ jobs[j].fut # "none"
                     THEN [op |-> "discard", of |-> j] ELSE todo

\* ... of a finished job: cancellation takes over an outcome not yet delivered.
CancelTerminal(j) ==
  /\ jobs[j].state = "terminal"
  /\ jobs' = [jobs EXCEPT ![j] = [@ EXCEPT !.detached = TRUE, !.delivered = TRUE,
                !.deliveryPending = FALSE, !.consumer = "cancelled",
                !.completion = Resolved(jobs[j], "cancelled")]]
  /\ fatalErrors' = DeferFatal(j, jobs[j].outcome)
  /\ pendingDeliveryCount' = DeliveriesLeft(j)
  /\ executor' = ExecutorAfter(queuedCount, runningCount, DeliveriesLeft(j))
  /\ todo' = TakeOverFuture(j)
  /\ UNCHANGED <<queueVars, globalQueueLimit, closed, closeCall, lock, gateVars,
                 trackVars, loopAlive, cancelCalls>>

\* ... of a job the broker cancelled while it was queued
CancelCancelled(j) ==
  /\ jobs[j].state = "cancelled"
  /\ jobs' = [jobs EXCEPT ![j].consumer = "cancelled"]
  /\ UNCHANGED <<queueVars, pendingDeliveryCount, brokerVars, lock, gateVars,
                 trackVars, fatalErrors, loopAlive, todo, cancelCalls>>

CancelOrDetach(j) ==
  \/ CancelQueued(j)
  \/ CancelPending(j)
  \/ DetachRunning(j)
  \/ CancelTerminal(j)
  \/ CancelCancelled(j)

\* CancelledError reaches the consumer: its task was cancelled, or the
\* completion it shields was.
ConsumerCancelled(j) ==
  /\ LoopCanLock
  /\ jobs[j].consumer = "waiting"
  /\ CancelOrDetach(j)

\* The consumer resumes with the outcome of its completion.
ConsumerResumes(j) ==
  /\ LoopIdle
  /\ jobs[j].consumer = "waiting"
  /\ jobs[j].completion \in Outcomes
  /\ jobs' = [jobs EXCEPT ![j].consumer = jobs[j].completion]
  /\ UNCHANGED <<queueVars, pendingDeliveryCount, brokerVars, lock, gateVars,
                 trackVars, fatalErrors, loopAlive, todo, cancelCalls>>

-----------------------------------------------------------------------------
(* The loop thread: callbacks scheduled by workers, and unfinished business *)

\* _deliver
Deliver(j) ==
  /\ LoopCanLock
  /\ jobs[j].deliveryPending
  /\ jobs' = [jobs EXCEPT ![j] = [@ EXCEPT !.delivered = TRUE,
                !.deliveryPending = FALSE,
                !.completion = IF jobs[j].detached THEN jobs[j].completion
                               ELSE Resolved(jobs[j], jobs[j].outcome)]]
  /\ fatalErrors' = IF jobs[j].detached THEN DeferFatal(j, jobs[j].outcome)
                    ELSE fatalErrors
  /\ pendingDeliveryCount' = pendingDeliveryCount - 1
  /\ executor' = ExecutorAfter(queuedCount, runningCount, pendingDeliveryCount - 1)
  /\ todo' = IF jobs[j].fut = "none" THEN todo ELSE [op |-> "discard", of |-> j]
  /\ UNCHANGED <<queueVars, globalQueueLimit, closed, closeCall, lock, gateVars,
                 trackVars, loopAlive, cancelCalls>>

LoopDiscard(j) ==
  /\ LoopDoes("discard", j)
  /\ Discard(j)
  /\ UNCHANGED <<jobs, queueVars, pendingDeliveryCount, brokerVars, lock,
                 gateVars, fatalErrors, loopAlive, cancelCalls>>

\* _mark_detached_sync_future: quarantine a callback that outlives its caller
LoopMark(j) ==
  LET g == jobs[j].lane IN
  /\ LoopDoes("mark", j)
  /\ IF IsGated(j) /\ j \in syncFutures[g]
     THEN /\ detachedFutures' = [detachedFutures EXCEPT ![g] = @ \cup {j}]
          /\ poisoned' = [poisoned EXCEPT ![g] = TRUE]
     ELSE UNCHANGED <<detachedFutures, poisoned>>
  /\ UNCHANGED <<jobs, queueVars, pendingDeliveryCount, brokerVars, lock,
                 gateVars, syncFutures, fatalErrors, loopAlive, cancelCalls>>

RunScheduledCancel(j) ==
  /\ LoopIdle
  /\ j \in cancelCalls
  /\ cancelCalls' = cancelCalls \ {j}
  /\ jobs' = [jobs EXCEPT ![j].completion = Resolved(jobs[j], "cancelled")]
  /\ UNCHANGED <<queueVars, pendingDeliveryCount, brokerVars, lock, gateVars,
                 trackVars, fatalErrors, loopAlive, todo>>

-----------------------------------------------------------------------------
(* Gates: close_admission, hold_for_publication, release, set_policy.  Each    *)
(* writes the gate without the broker's lock and then calls into the broker.   *)

GateCall(g, from, to, call) ==
  /\ "gate" \in Stops /\ LoopIdle
  /\ gate[g] \in from
  /\ gate' = [gate EXCEPT ![g] = to]
  /\ todo' = [op |-> call, of |-> g]
  /\ UNCHANGED <<jobs, queueVars, pendingDeliveryCount, brokerVars, lock, policy,
                 trackVars, fatalErrors, loopAlive, cancelCalls>>

CloseAdmission(g)      == GateCall(g, {"open", "held"}, "closed", "closeGate")
HoldForPublication(g)  == GateCall(g, {"open"}, "held", "closeGate")
ReleaseHold(g)         == GateCall(g, {"held"}, "open", "notify")

SetPolicy(g, p) ==
  /\ LoopIdle
  /\ policy' = [policy EXCEPT ![g] = p]
  /\ todo' = [op |-> "notify", of |-> g]
  /\ UNCHANGED <<jobs, queueVars, pendingDeliveryCount, brokerVars, lock, gate,
                 trackVars, fatalErrors, loopAlive, cancelCalls>>

\* notify_policy_change
LoopNotify(g) ==
  /\ LoopDoes("notify", g)
  /\ lock = Unlocked
  /\ readyLanes' = QueueLane(g, readyLanes, laneQueues[g], runningByLane[g])
  /\ lock' = Dispatching("loop", FALSE)
  /\ UNCHANGED <<jobs, laneQueues, laneKeys, runningByLane, queuedCount,
                 runningCount, pendingDeliveryCount, brokerVars, gateVars,
                 trackVars, fatalErrors, loopAlive, cancelCalls>>

\* close_gate_admission: nothing to do for an empty lane
LoopCloseGate(g) ==
  /\ LoopDoes("closeGate", g)
  /\ lock = Unlocked
  /\ lock' = IF laneQueues[g] = <<>> THEN Unlocked
             ELSE [by |-> "loop", at |-> "purge", of |-> g, flag |-> FALSE]
  /\ UNCHANGED <<jobs, queueVars, pendingDeliveryCount, brokerVars, gateVars,
                 trackVars, fatalErrors, loopAlive, cancelCalls>>

Purgeable(g) == {i \in 1..Len(laneQueues[g]) : ~jobs[laneQueues[g][i]].allowClosed}

\* ... its loop over the queue: one job that must not outlive admission
PurgeJob(i) ==
  LET g == lock.of
      j == laneQueues[g][i]
  IN
  /\ lock.at = "purge"
  /\ i \in Purgeable(g) /\ \A k \in Purgeable(g) : i <= k
  /\ jobs' = [jobs EXCEPT ![j] = Revoked(@)]
  /\ laneQueues' = [laneQueues EXCEPT ![g] = RemoveAt(@, i)]
  /\ queuedCount' = queuedCount - 1
  /\ cancelCalls' = ScheduleCancel({j})
  /\ UNCHANGED <<laneKeys, readyLanes, runningByLane, runningCount,
                 pendingDeliveryCount, brokerVars, lock, gateVars, trackVars,
                 fatalErrors, loopAlive, todo>>

\* ... and what follows that loop
PurgeDone ==
  LET g == lock.of IN
  /\ lock.at = "purge"
  /\ Purgeable(g) = {}
  /\ readyLanes' = QueueLane(g, Without(readyLanes, g), laneQueues[g],
                             runningByLane[g])
  /\ laneKeys' = KeysAfter(g, laneQueues[g], runningByLane[g])
  /\ lock' = Dispatching("loop", FALSE)
  /\ UNCHANGED <<jobs, laneQueues, runningByLane, queuedCount, runningCount,
                 pendingDeliveryCount, brokerVars, gateVars, trackVars,
                 fatalErrors, loopAlive, todo, cancelCalls>>

-----------------------------------------------------------------------------
(* The broker: configure, close, and the end of the owner loop *)

Configure(limit) ==
  /\ LoopCanLock
  /\ globalQueueLimit' = limit
  /\ lock' = Dispatching("loop", FALSE)
  /\ UNCHANGED <<jobs, queueVars, pendingDeliveryCount, closed, executor,
                 closeCall, gateVars, trackVars, fatalErrors, loopAlive, todo,
                 cancelCalls>>

\* close up to its wait, with _cancel_all_queued_locked
CloseBegin ==
  LET queued == {j \in Jobs : jobs[j].state = "queued"} IN
  /\ "broker" \in Stops /\ LoopCanLock
  /\ closeCall \in {"none", "timedout"}
  /\ closed' = TRUE
  /\ closeCall' = "waiting"
  /\ jobs' = [j \in Jobs |-> IF j \in queued
                THEN Revoked(jobs[j]) ELSE jobs[j]]
  /\ cancelCalls' = ScheduleCancel(queued)
  /\ laneQueues' = [l \in Lanes |-> <<>>]
  /\ laneKeys' = {}
  /\ readyLanes' = <<>>
  /\ queuedCount' = 0
  /\ UNCHANGED <<runningByLane, runningCount, pendingDeliveryCount,
                 globalQueueLimit, executor, lock, gateVars, trackVars,
                 fatalErrors, loopAlive, todo>>

\* close after its wait: everything was answered, or the deadline passed
CloseEnd ==
  LET drained == queuedCount + runningCount + pendingDeliveryCount = 0 IN
  /\ LoopCanLock
  /\ closeCall = "waiting"
  /\ closeCall' = IF drained THEN "drained" ELSE "timedout"
  /\ executor' = ExecutorAfter(queuedCount, runningCount, pendingDeliveryCount)
  /\ UNCHANGED <<jobs, queueVars, pendingDeliveryCount, globalQueueLimit, closed,
                 lock, gateVars, trackVars, fatalErrors, loopAlive, todo,
                 cancelCalls>>

\* The loop is closed; what was scheduled on it is gone.
LoopDies ==
  /\ "loop" \in Stops /\ LoopIdle
  /\ loopAlive' = FALSE
  /\ cancelCalls' = {}
  /\ UNCHANGED <<jobs, queueVars, pendingDeliveryCount, brokerVars, lock,
                 gateVars, trackVars, fatalErrors, todo>>

-----------------------------------------------------------------------------
LockHolderStep ==
  \/ DispatchSkip
  \/ \E l \in Lanes, j \in Jobs : DispatchCancelled(l, j)
  \/ \E l \in Lanes, j \in Jobs : DispatchStart(l, j)
  \/ \E l \in Lanes, j \in Jobs : DispatchFailed(l, j)
  \/ DispatchDone
  \/ \E i \in 1..Cardinality(Jobs) : PurgeJob(i)
  \/ PurgeDone
  \/ Settle

LoopOwes ==
  \/ \E j \in Jobs : LoopDiscard(j)
  \/ \E j \in Jobs : LoopMark(j)
  \/ \E g \in Gates : LoopNotify(g)
  \/ \E g \in Gates : LoopCloseGate(g)

Next ==
  \/ LockHolderStep
  \/ LoopOwes
  \/ \E j \in Jobs, l \in Lanes, a \in Scopes : Admit(j, l, a)
  \/ \E j \in Jobs, l \in Lanes, a \in Scopes : Reject(j, l, a)
  \/ \E j \in Jobs : WorkerStart(j)
  \/ \E j \in Jobs, o \in Endings : WorkerFinish(j, o)
  \/ \E j \in Jobs : WorkerComplete(j)
  \/ \E j \in Jobs : ConsumerCancelled(j)
  \/ \E j \in Jobs : ConsumerResumes(j)
  \/ \E j \in Jobs : Deliver(j)
  \/ \E j \in Jobs : RunScheduledCancel(j)
  \/ \E g \in Gates : CloseAdmission(g)
  \/ \E g \in Gates : HoldForPublication(g)
  \/ \E g \in Gates : ReleaseHold(g)
  \/ \E g \in Gates, p \in [parallel : ParallelLimits, queue : QueueLimits] : SetPolicy(g, p)
  \/ \E limit \in GlobalLimits : Configure(limit)
  \/ CloseBegin
  \/ CloseEnd
  \/ LoopDies

Spec == Init /\ [][Next]_vars

ScheduledOnLoop ==
  \E j \in Jobs :
    \/ Deliver(j)
    \/ RunScheduledCancel(j)
    \/ ConsumerResumes(j)
    \/ jobs[j].completion = "cancelled" /\ ConsumerCancelled(j)

(***************************************************************************)
(* Threads are scheduled and callbacks return.  A thread that needs _lock  *)
(* competes for it with others that take it again and again, and the ready *)
(* queue of the loop is FIFO: what is enabled infinitely often happens.    *)
(* Each of these steps happens once per job, so one condition covers all.  *)
(***************************************************************************)
Fairness ==
  /\ WF_vars(LockHolderStep)
  /\ WF_vars(LoopOwes)
  /\ WF_vars(\E j \in Jobs : WorkerStart(j) \/ \E o \in Endings : WorkerFinish(j, o))
  /\ SF_vars(\E j \in Jobs : WorkerComplete(j))
  /\ SF_vars(ScheduledOnLoop)
  /\ SF_vars(CloseEnd)

FairSpec == Spec /\ Fairness

-----------------------------------------------------------------------------
(* Properties *)

Shape ==
  /\ jobs \in [Jobs -> Job]
  /\ laneQueues \in [Lanes -> Seq(Jobs)] /\ laneKeys \subseteq Lanes
  /\ readyLanes \in Seq(Lanes)
  /\ globalQueueLimit \in GlobalLimits /\ closed \in BOOLEAN
  /\ executor \in {"none", "live", "shutdown"}
  /\ closeCall \in {"none", "waiting", "timedout", "drained"}
  /\ lock \in [by : {"nobody", "loop", "worker"},
               at : {"free", "dispatch", "purge", "settle"},
               of : Gates \cup {NoOne}, flag : BOOLEAN]
  /\ gate \in [Gates -> {"open", "held", "closed"}]
  /\ policy \in [Gates -> [parallel : ParallelLimits, queue : QueueLimits]]
  /\ syncFutures \in [Gates -> SUBSET Jobs]
  /\ detachedFutures \in [Gates -> SUBSET Jobs]
  /\ poisoned \in [Gates -> BOOLEAN]
  /\ fatalErrors \subseteq Jobs /\ cancelCalls \subseteq Jobs
  /\ loopAlive \in BOOLEAN
  /\ todo \in [op : {"idle", "mark", "discard", "notify", "closeGate"},
               of : Jobs \cup Gates \cup {NoOne}]

\* Every variable has its type; no counter ever becomes negative (the asserts
\* of _release_running_slot_locked).
TypeOK ==
  /\ Shape
  /\ runningByLane \in [Lanes -> Nat]
  /\ queuedCount \in Nat /\ runningCount \in Nat /\ pendingDeliveryCount \in Nat

QueuedIn(l) == {j \in Jobs : jobs[j].state = "queued" /\ jobs[j].lane = l}

\* Every queued job is in its lane's deque exactly once and nothing else is,
\* and the four counters the bounds and the close decide by count what they say
\* (the comment on _lane_queues: each job occupies one place in both counts).
CountersExact ==
  /\ \A l \in Lanes :
       /\ Range(laneQueues[l]) = QueuedIn(l)
       /\ Len(laneQueues[l]) = Cardinality(QueuedIn(l))
       /\ runningByLane[l] = Cardinality(RunningIn(l))
  /\ queuedCount = Cardinality({j \in Jobs : jobs[j].state = "queued"})
  /\ runningCount = Cardinality(RunningJobs)
  /\ pendingDeliveryCount = Cardinality({j \in Jobs : jobs[j].deliveryPending})
  /\ Len(readyLanes) = Cardinality(Range(readyLanes))

\* At most MaxWorkers callbacks hold a worker, and whatever policies are applied
\* while callbacks run, one gate never holds all of several workers
\* (_dispatch_locked, _lane_running_limit_locked).
WorkersBounded ==
  /\ Cardinality(RunningJobs) <= MaxWorkers
  /\ \A g \in Gates : Cardinality(RunningIn(g)) <= CrossPluginCap

\* The bookkeeping of submit, dispatch, completion and close as a whole: types,
\* counts and bounds, whatever is reconfigured, cancelled or closed in between.
Accounting == TypeOK /\ CountersExact /\ WorkersBounded

\* No lost wakeup: when nobody is about to dispatch, a job waits only because
\* all workers are taken or its lane is at its limit (_queue_lane_locked is
\* called wherever a slot, a limit or a queue changed).
NoLostWakeup ==
  lock = Unlocked =>
    \A l \in Lanes : laneQueues[l] # <<>> =>
      ~SlotFree(l) \/ todo = [op |-> "notify", of |-> l]

\* Once close_admission or hold_for_publication returned, no ordinary job of
\* that gate is left to start (close_gate_admission, and the check at dispatch).
ClosedGateQueuesNothing ==
  \A g \in Gates :
    gate[g] # "open" /\ todo # [op |-> "closeGate", of |-> g]
      /\ ~(lock.at = "purge" /\ lock.of = g)
    => \A j \in QueuedIn(g) : jobs[j].allowClosed

\* A gate that tracks no future has no callback running and no outcome under
\* way, and a tracked future is always one that somebody will still discard:
\* gate.close and unload rely on both (_register_sync_future before the start
\* barrier, _discard_sync_future after delivery).
GateTracksWork ==
  \A j \in Jobs : IsGated(j) =>
    (j \in syncFutures[jobs[j].lane] <=>
       \/ jobs[j].state = "running"
       \/ jobs[j].deliveryPending /\ jobs[j].fut # "none"
       \/ todo = [op |-> "discard", of |-> j])

\* The fatal outcome of a gated callback has exactly one owner: the delivery
\* under way, the consumer it was handed to, or the gate's deferred errors.
FatalHasOneOwner ==
  \A j \in Jobs : IsGated(j) /\ jobs[j].state = "terminal" /\ jobs[j].outcome = "fatal" =>
    LET owners == << jobs[j].deliveryPending,
                     jobs[j].completion = "fatal" /\ jobs[j].consumer # "cancelled",
                     j \in fatalErrors >>
    IN  Cardinality({i \in 1..3 : owners[i]}) = 1

\* A callback that runs on after its caller was cancelled keeps its gate
\* quarantined (_mark_detached_sync_future: "Quarantine only the real sync
\* callback detached by its own caller").
DetachedWorkQuarantines ==
  \A j \in Jobs :
    IsGated(j) /\ jobs[j].detached /\ jobs[j].fut = "running"
      /\ todo # [op |-> "mark", of |-> j]
    => poisoned[jobs[j].lane]

\* The executor is retired exactly when a closed broker has nothing left
\* (_take_drained_executor_locked), by whoever finishes last
ExecutorRetiredInTime ==
  LET nothingLeft == queuedCount + runningCount + pendingDeliveryCount = 0 IN
  /\ executor = "shutdown" => closed /\ nothingLeft
  /\ closed /\ nothingLeft /\ lock = Unlocked /\ closeCall # "waiting"
       => executor # "live"

\* A gate or a broker that stops is in control of its work: what it still queues
\* and what it waits for before its generation is unloaded are exactly what is
\* left, and the executor goes with the last of it.
StopsInControl == ClosedGateQueuesNothing /\ GateTracksWork /\ ExecutorRetiredInTime

\* Every admitted call is answered, whatever is closed or reconfigured meanwhile,
\* and a quarantine ends by itself once the detached callbacks return (each job
\* is offered once, so in the end there is none of either).
EverythingSettles ==
  <>[](/\ \A j \in Jobs : jobs[j].consumer # "waiting"
       /\ \A g \in Gates : ~poisoned[g])

-----------------------------------------------------------------------------
(* The bulkhead this implements *)

AbstractPhase(job) ==
  CASE job.state = "running" /\ job.fut = "pending" -> "started"
    [] job.state = "rejected"  -> "refused"
    [] job.state = "terminal"  -> "over"
    [] job.state = "cancelled" -> "revoked"
    [] OTHER -> job.state

Abstract == INSTANCE Bulkhead WITH
  NoLane   <- NoOne,
  Workers  <- MaxWorkers,
  GateCap  <- CrossPluginCap,
  phase    <- [j \in Jobs |-> AbstractPhase(jobs[j])],
  laneOf   <- [j \in Jobs |-> jobs[j].lane],
  ending   <- [j \in Jobs |-> IF jobs[j].state = "terminal"
                              THEN jobs[j].outcome ELSE "none"],
  answer   <- [j \in Jobs |-> jobs[j].consumer]

\* The broker is a bulkhead: jobs move only along the legal lifecycle, within
\* the bounds, and each caller gets its own job's outcome, once.
ImplementsBulkhead == Abstract!BulkheadSpec
=============================================================================
