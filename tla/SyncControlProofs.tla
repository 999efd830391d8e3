-------------------------- MODULE SyncControlProofs --------------------------
(***************************************************************************)
(* Theorems about SyncBroker, for every value of its constants, that rest  *)
(* on the invariant of SyncBrokerProofs: no wakeup is lost, a fatal        *)
(* outcome has one owner, a gate or a broker that stops is in control of   *)
(* what it still has, and the whole implements the bulkhead of module      *)
(* Bulkhead.                                                               *)
(***************************************************************************)
EXTENDS SyncBrokerProofs

\* What a job's record x says together with whether its fatal error is deferred
\* and whether its completion is about to be cancelled.
Fate(j, x, fatal, cancels) ==
  /\ x.state \in {"new", "rejected", "queued", "cancelled"} => x.fut = "none"
  /\ x.state = "terminal" => x.fut \in {"none", "done"}
  /\ x.state # "terminal" => x.completion \in {"pending", "cancelled"} /\ j \notin fatal
  /\ x.state \in {"new", "rejected", "queued"} => ~x.detached
  /\ x.state = "cancelled" \/ x.outcome = "cancelled" => x.detached
  /\ ~x.detached => x.completion # "cancelled" /\ x.consumer # "cancelled"
  /\ x.deliveryPending => ~x.detached /\ x.completion = "pending" /\ j \notin fatal
  /\ j \in cancels => x.state = "cancelled"
  /\ x.state = "terminal" /\ x.outcome = "fatal" /\ x.lane \in Gates /\ ~x.deliveryPending =>
       (j \in fatal <=> ~(x.completion = "fatal" /\ x.consumer # "cancelled"))

Fates == \A j \in Jobs : Fate(j, jobs[j], fatalErrors, cancelCalls)

\* A gate tracks the future of a job with record x while its callback runs, its
\* outcome is under way, or the loop thread is about to discard it.
Tracked(j, x, futures, owed) ==
  /\ x.lane \in Gates =>
       (j \in futures[x.lane] <=>
          \/ x.state = "running"
          \/ x.deliveryPending /\ x.fut # "none"
          \/ owed = [op |-> "discard", of |-> j])
  /\ \A g \in Gates : j \in futures[g] => x.lane = g
  /\ owed = [op |-> "discard", of |-> j] => x.state = "terminal" /\ ~x.deliveryPending

Tracks == \A j \in Jobs : Tracked(j, jobs[j], syncFutures, todo)

\* Whoever holds the lock retires the executor before it lets go.
Retiring == lock.at = "settle" \/ (lock.at = "dispatch" /\ lock.flag)

Retired ==
  /\ closed => \A j \in Jobs : jobs[j].state # "queued"
  /\ executor = "shutdown" => closed /\ runningCount = 0 /\ pendingDeliveryCount = 0
  /\ closed /\ runningCount = 0 /\ pendingDeliveryCount = 0 /\ closeCall # "waiting" /\ ~Retiring
       => executor # "live"

\* A lane that could run its next job is offered, or is about to be; nobody
\* leaves offered lanes behind but for want of a worker.
Offered ==
  /\ \A l \in Lanes :
       laneQueues[l] # <<>> /\ runningByLane[l] < LaneRunningLimit(l) =>
         l \in Range(readyLanes) \/ todo = [op |-> "notify", of |-> l]
  /\ lock = Unlocked => readyLanes = <<>> \/ runningCount >= MaxWorkers

CInv == Fates /\ Tracks /\ ClosedGateQueuesNothing /\ Retired /\ Offered
-----------------------------------------------------------------------------
(* What each action makes of the record of its job *)

\* submit
LEMMA AdmitRecord ==
  ASSUME JobsTyped, NEW j \in Jobs, NEW l \in Lanes, NEW a, Admit(j, l, a)
  PROVE  \E x : /\ jobs' = [jobs EXCEPT ![j] = x]
               /\ x.state = "queued" /\ x.lane = l /\ x.allowClosed = a
               /\ x.fut = jobs[j].fut /\ x.outcome = jobs[j].outcome
               /\ x.detached = jobs[j].detached
               /\ x.deliveryPending = jobs[j].deliveryPending
               /\ x.completion = jobs[j].completion /\ x.consumer = "waiting"
<1> DEFINE y == jobs[j]
           x == [y EXCEPT !.state = "queued", !.lane = l,
                !.allowClosed = a, !.consumer = "waiting"]
<1>1. y \in Job
  BY DEF JobsTyped
<1>2. /\ x.state = "queued" /\ x.lane = l /\ x.allowClosed = a
      /\ x.fut = jobs[j].fut /\ x.outcome = jobs[j].outcome
      /\ x.detached = jobs[j].detached
      /\ x.deliveryPending = jobs[j].deliveryPending
      /\ x.completion = jobs[j].completion /\ x.consumer = "waiting"
  BY <1>1 DEF Job
<1>3. jobs' = [jobs EXCEPT ![j] = x]
  BY DEF Admit
<1> HIDE DEF x
<1> QED BY <1>2, <1>3

\* ... that is refused
LEMMA RejectRecord ==
  ASSUME JobsTyped, NEW j \in Jobs, NEW l \in Lanes, NEW a, Reject(j, l, a)
  PROVE  \E x : /\ jobs' = [jobs EXCEPT ![j] = x]
               /\ x.state = "rejected" /\ x.lane = jobs[j].lane
               /\ x.allowClosed = jobs[j].allowClosed /\ x.fut = jobs[j].fut
               /\ x.outcome = jobs[j].outcome /\ x.detached = jobs[j].detached
               /\ x.deliveryPending = jobs[j].deliveryPending
               /\ x.completion = jobs[j].completion /\ x.consumer = jobs[j].consumer
<1> DEFINE y == jobs[j]
           x == [y EXCEPT !.state = "rejected"]
<1>1. y \in Job
  BY DEF JobsTyped
<1>2. /\ x.state = "rejected" /\ x.lane = jobs[j].lane
      /\ x.allowClosed = jobs[j].allowClosed /\ x.fut = jobs[j].fut
      /\ x.outcome = jobs[j].outcome /\ x.detached = jobs[j].detached
      /\ x.deliveryPending = jobs[j].deliveryPending
      /\ x.completion = jobs[j].completion /\ x.consumer = jobs[j].consumer
  BY <1>1 DEF Job
<1>3. jobs' = [jobs EXCEPT ![j] = x]
  BY DEF Reject
<1> HIDE DEF x
<1> QED BY <1>2, <1>3

\* A queued job that the broker cancels
LEMMA RevokedRecord ==
  ASSUME JobsTyped, NEW j \in Jobs, jobs' = [jobs EXCEPT ![j] = Revoked(@)]
  PROVE  \E x : /\ jobs' = [jobs EXCEPT ![j] = x]
               /\ x.state = "cancelled" /\ x.lane = jobs[j].lane
               /\ x.allowClosed = jobs[j].allowClosed /\ x.fut = jobs[j].fut
               /\ x.outcome = jobs[j].outcome /\ x.detached = TRUE
               /\ x.deliveryPending = jobs[j].deliveryPending
               /\ x.completion = jobs[j].completion /\ x.consumer = jobs[j].consumer
<1> DEFINE y == jobs[j]
           x == Revoked(y)
<1>1. y \in Job
  BY DEF JobsTyped
<1>2. /\ x.state = "cancelled" /\ x.lane = jobs[j].lane
      /\ x.allowClosed = jobs[j].allowClosed /\ x.fut = jobs[j].fut
      /\ x.outcome = jobs[j].outcome /\ x.detached = TRUE
      /\ x.deliveryPending = jobs[j].deliveryPending
      /\ x.completion = jobs[j].completion /\ x.consumer = jobs[j].consumer
  BY <1>1 DEF Job, Revoked
<1>3. jobs' = [jobs EXCEPT ![j] = x]
  OBVIOUS
<1> HIDE DEF x
<1> QED BY <1>2, <1>3

\* Handed to the executor
LEMMA StartRecord ==
  ASSUME JobsTyped, NEW j \in Jobs, NEW l \in Lanes, DispatchStart(l, j)
  PROVE  \E x : /\ jobs' = [jobs EXCEPT ![j] = x]
               /\ x.state = "running" /\ x.lane = jobs[j].lane
               /\ x.allowClosed = jobs[j].allowClosed /\ x.fut = "pending"
               /\ x.outcome = jobs[j].outcome /\ x.detached = jobs[j].detached
               /\ x.deliveryPending = jobs[j].deliveryPending
               /\ x.completion = jobs[j].completion /\ x.consumer = jobs[j].consumer
<1> DEFINE y == jobs[j]
           x == [y EXCEPT !.state = "running", !.fut = "pending"]
<1>1. y \in Job
  BY DEF JobsTyped
<1>2. /\ x.state = "running" /\ x.lane = jobs[j].lane
      /\ x.allowClosed = jobs[j].allowClosed /\ x.fut = "pending"
      /\ x.outcome = jobs[j].outcome /\ x.detached = jobs[j].detached
      /\ x.deliveryPending = jobs[j].deliveryPending
      /\ x.completion = jobs[j].completion /\ x.consumer = jobs[j].consumer
  BY <1>1 DEF Job
<1>3. jobs' = [jobs EXCEPT ![j] = x]
  BY DEF DispatchStart
<1> HIDE DEF x
<1> QED BY <1>2, <1>3

\* ... which did not take it
LEMMA FailedRecord ==
  ASSUME JobsTyped, NEW j \in Jobs, NEW l \in Lanes, DispatchFailed(l, j)
  PROVE  \E x : /\ jobs' = [jobs EXCEPT ![j] = x]
               /\ x.state = "terminal" /\ x.lane = jobs[j].lane
               /\ x.allowClosed = jobs[j].allowClosed /\ x.fut = jobs[j].fut
               /\ x.outcome = "error" /\ x.detached = ~loopAlive
               /\ x.deliveryPending = loopAlive /\ x.completion = jobs[j].completion
               /\ x.consumer = jobs[j].consumer
<1> DEFINE y == jobs[j]
           x == [y EXCEPT !.state = "terminal", !.outcome = "error", !.detached = ~loopAlive,
                       !.delivered = ~loopAlive, !.deliveryPending = loopAlive]
<1>1. y \in Job
  BY DEF JobsTyped
<1>2. /\ x.state = "terminal" /\ x.lane = jobs[j].lane
      /\ x.allowClosed = jobs[j].allowClosed /\ x.fut = jobs[j].fut
      /\ x.outcome = "error" /\ x.detached = ~loopAlive
      /\ x.deliveryPending = loopAlive /\ x.completion = jobs[j].completion
      /\ x.consumer = jobs[j].consumer
  BY <1>1 DEF Job
<1>3. jobs' = [jobs EXCEPT ![j] = x]
  BY DEF DispatchFailed
<1> HIDE DEF x
<1> QED BY <1>2, <1>3

\* A thread takes the work item
LEMMA WorkerStartRecord ==
  ASSUME JobsTyped, NEW j \in Jobs, WorkerStart(j)
  PROVE  \E x : /\ jobs' = [jobs EXCEPT ![j] = x]
               /\ x.state = jobs[j].state /\ x.lane = jobs[j].lane
               /\ x.allowClosed = jobs[j].allowClosed /\ x.fut = "running"
               /\ x.outcome = jobs[j].outcome /\ x.detached = jobs[j].detached
               /\ x.deliveryPending = jobs[j].deliveryPending
               /\ x.completion = jobs[j].completion /\ x.consumer = jobs[j].consumer
<1> DEFINE y == jobs[j]
           x == [y EXCEPT !.fut = "running"]
<1>1. y \in Job
  BY DEF JobsTyped
<1>2. /\ x.state = jobs[j].state /\ x.lane = jobs[j].lane
      /\ x.allowClosed = jobs[j].allowClosed /\ x.fut = "running"
      /\ x.outcome = jobs[j].outcome /\ x.detached = jobs[j].detached
      /\ x.deliveryPending = jobs[j].deliveryPending
      /\ x.completion = jobs[j].completion /\ x.consumer = jobs[j].consumer
  BY <1>1 DEF Job
<1>3. jobs' = [jobs EXCEPT ![j] = x]
  BY DEF WorkerStart
<1> HIDE DEF x
<1> QED BY <1>2, <1>3

\* ... and its callback ends
LEMMA WorkerFinishRecord ==
  ASSUME JobsTyped, NEW j \in Jobs, NEW o, WorkerFinish(j, o)
  PROVE  \E x : /\ jobs' = [jobs EXCEPT ![j] = x]
               /\ x.state = jobs[j].state /\ x.lane = jobs[j].lane
               /\ x.allowClosed = jobs[j].allowClosed /\ x.fut = "done" /\ x.outcome = o
               /\ x.detached = jobs[j].detached
               /\ x.deliveryPending = jobs[j].deliveryPending
               /\ x.completion = jobs[j].completion /\ x.consumer = jobs[j].consumer
<1> DEFINE y == jobs[j]
           x == [y EXCEPT !.fut = "done", !.outcome = o]
<1>1. y \in Job
  BY DEF JobsTyped
<1>2. /\ x.state = jobs[j].state /\ x.lane = jobs[j].lane
      /\ x.allowClosed = jobs[j].allowClosed /\ x.fut = "done" /\ x.outcome = o
      /\ x.detached = jobs[j].detached
      /\ x.deliveryPending = jobs[j].deliveryPending
      /\ x.completion = jobs[j].completion /\ x.consumer = jobs[j].consumer
  BY <1>1 DEF Job
<1>3. jobs' = [jobs EXCEPT ![j] = x]
  BY DEF WorkerFinish
<1> HIDE DEF x
<1> QED BY <1>2, <1>3

\* _complete_from_worker
LEMMA CompleteRecord ==
  ASSUME JobsTyped, NEW j \in Jobs, NEW direct, direct = (jobs[j].detached \/ ~loopAlive),
         WorkerComplete(j)
  PROVE  \E x : /\ jobs' = [jobs EXCEPT ![j] = x]
               /\ x.state = "terminal" /\ x.lane = jobs[j].lane
               /\ x.allowClosed = jobs[j].allowClosed /\ x.fut = jobs[j].fut
               /\ x.outcome = jobs[j].outcome /\ x.detached = direct
               /\ x.deliveryPending = ~direct /\ x.completion = jobs[j].completion
               /\ x.consumer = jobs[j].consumer
<1> DEFINE y == jobs[j]
           x == [y EXCEPT !.state = "terminal", !.detached = direct,
                       !.delivered = direct, !.deliveryPending = ~direct]
<1>1. y \in Job
  BY DEF JobsTyped
<1>2. /\ x.state = "terminal" /\ x.lane = jobs[j].lane
      /\ x.allowClosed = jobs[j].allowClosed /\ x.fut = jobs[j].fut
      /\ x.outcome = jobs[j].outcome /\ x.detached = direct
      /\ x.deliveryPending = ~direct /\ x.completion = jobs[j].completion
      /\ x.consumer = jobs[j].consumer
  BY <1>1 DEF Job
<1>3. jobs' = [jobs EXCEPT ![j] = x]
  BY DEF WorkerComplete
<1> HIDE DEF x
<1> QED BY <1>2, <1>3

\* cancel_or_detach of a queued job
LEMMA CancelQueuedRecord ==
  ASSUME JobsTyped, NEW j \in Jobs, CancelQueued(j)
  PROVE  \E x : /\ jobs' = [jobs EXCEPT ![j] = x]
               /\ x.state = "cancelled" /\ x.lane = jobs[j].lane
               /\ x.allowClosed = jobs[j].allowClosed /\ x.fut = jobs[j].fut
               /\ x.outcome = jobs[j].outcome /\ x.detached = TRUE
               /\ x.deliveryPending = jobs[j].deliveryPending /\ x.completion = "cancelled"
               /\ x.consumer = "cancelled"
<1> DEFINE y == jobs[j]
           x == [Revoked(y) EXCEPT !.completion = "cancelled", !.consumer = "cancelled"]
<1>1. y \in Job
  BY DEF JobsTyped
<1>2. /\ x.state = "cancelled" /\ x.lane = jobs[j].lane
      /\ x.allowClosed = jobs[j].allowClosed /\ x.fut = jobs[j].fut
      /\ x.outcome = jobs[j].outcome /\ x.detached = TRUE
      /\ x.deliveryPending = jobs[j].deliveryPending /\ x.completion = "cancelled"
      /\ x.consumer = "cancelled"
  BY <1>1 DEF Job, Revoked
<1>3. jobs' = [jobs EXCEPT ![j] = x]
  BY DEF CancelQueued
<1> HIDE DEF x
<1> QED BY <1>2, <1>3

\* ... of one no thread took
LEMMA CancelPendingRecord ==
  ASSUME JobsTyped, NEW j \in Jobs, CancelPending(j)
  PROVE  \E x : /\ jobs' = [jobs EXCEPT ![j] = x]
               /\ x.state = "terminal" /\ x.lane = jobs[j].lane
               /\ x.allowClosed = jobs[j].allowClosed /\ x.fut = "done"
               /\ x.outcome = "cancelled" /\ x.detached = TRUE
               /\ x.deliveryPending = jobs[j].deliveryPending /\ x.completion = "cancelled"
               /\ x.consumer = "cancelled"
<1> DEFINE y == jobs[j]
           x == [y EXCEPT !.state = "terminal", !.fut = "done", !.outcome = "cancelled",
                       !.detached = TRUE, !.delivered = TRUE,
                       !.completion = "cancelled", !.consumer = "cancelled"]
<1>1. y \in Job
  BY DEF JobsTyped
<1>2. /\ x.state = "terminal" /\ x.lane = jobs[j].lane
      /\ x.allowClosed = jobs[j].allowClosed /\ x.fut = "done"
      /\ x.outcome = "cancelled" /\ x.detached = TRUE
      /\ x.deliveryPending = jobs[j].deliveryPending /\ x.completion = "cancelled"
      /\ x.consumer = "cancelled"
  BY <1>1 DEF Job
<1>3. jobs' = [jobs EXCEPT ![j] = x]
  BY DEF CancelPending
<1> HIDE DEF x
<1> QED BY <1>2, <1>3

\* ... of one that runs
LEMMA DetachRunningRecord ==
  ASSUME JobsTyped, NEW j \in Jobs, DetachRunning(j)
  PROVE  \E x : /\ jobs' = [jobs EXCEPT ![j] = x]
               /\ x.state = jobs[j].state /\ x.lane = jobs[j].lane
               /\ x.allowClosed = jobs[j].allowClosed /\ x.fut = jobs[j].fut
               /\ x.outcome = jobs[j].outcome /\ x.detached = TRUE
               /\ x.deliveryPending = jobs[j].deliveryPending
               /\ x.completion = jobs[j].completion /\ x.consumer = "cancelled"
<1> DEFINE y == jobs[j]
           x == [y EXCEPT !.detached = TRUE, !.consumer = "cancelled"]
<1>1. y \in Job
  BY DEF JobsTyped
<1>2. /\ x.state = jobs[j].state /\ x.lane = jobs[j].lane
      /\ x.allowClosed = jobs[j].allowClosed /\ x.fut = jobs[j].fut
      /\ x.outcome = jobs[j].outcome /\ x.detached = TRUE
      /\ x.deliveryPending = jobs[j].deliveryPending
      /\ x.completion = jobs[j].completion /\ x.consumer = "cancelled"
  BY <1>1 DEF Job
<1>3. jobs' = [jobs EXCEPT ![j] = x]
  BY DEF DetachRunning
<1> HIDE DEF x
<1> QED BY <1>2, <1>3

\* ... of a finished one
LEMMA CancelTerminalRecord ==
  ASSUME JobsTyped, NEW j \in Jobs, CancelTerminal(j)
  PROVE  \E x : /\ jobs' = [jobs EXCEPT ![j] = x]
               /\ x.state = jobs[j].state /\ x.lane = jobs[j].lane
               /\ x.allowClosed = jobs[j].allowClosed /\ x.fut = jobs[j].fut
               /\ x.outcome = jobs[j].outcome /\ x.detached = TRUE
               /\ x.deliveryPending = FALSE /\ x.completion = Resolved(jobs[j], "cancelled")
               /\ x.consumer = "cancelled"
<1> DEFINE y == jobs[j]
           x == [y EXCEPT !.detached = TRUE, !.delivered = TRUE, !.deliveryPending = FALSE,
                       !.consumer = "cancelled", !.completion = Resolved(y, "cancelled")]
<1>1. y \in Job
  BY DEF JobsTyped
<1>2. /\ x.state = jobs[j].state /\ x.lane = jobs[j].lane
      /\ x.allowClosed = jobs[j].allowClosed /\ x.fut = jobs[j].fut
      /\ x.outcome = jobs[j].outcome /\ x.detached = TRUE
      /\ x.deliveryPending = FALSE /\ x.completion = Resolved(jobs[j], "cancelled")
      /\ x.consumer = "cancelled"
  BY <1>1 DEF Job
<1>3. jobs' = [jobs EXCEPT ![j] = x]
  BY DEF CancelTerminal
<1> HIDE DEF x
<1> QED BY <1>2, <1>3

\* ... of one the broker cancelled
LEMMA CancelCancelledRecord ==
  ASSUME JobsTyped, NEW j \in Jobs, CancelCancelled(j)
  PROVE  \E x : /\ jobs' = [jobs EXCEPT ![j] = x]
               /\ x.state = jobs[j].state /\ x.lane = jobs[j].lane
               /\ x.allowClosed = jobs[j].allowClosed /\ x.fut = jobs[j].fut
               /\ x.outcome = jobs[j].outcome /\ x.detached = jobs[j].detached
               /\ x.deliveryPending = jobs[j].deliveryPending
               /\ x.completion = jobs[j].completion /\ x.consumer = "cancelled"
<1> DEFINE y == jobs[j]
           x == [y EXCEPT !.consumer = "cancelled"]
<1>1. y \in Job
  BY DEF JobsTyped
<1>2. /\ x.state = jobs[j].state /\ x.lane = jobs[j].lane
      /\ x.allowClosed = jobs[j].allowClosed /\ x.fut = jobs[j].fut
      /\ x.outcome = jobs[j].outcome /\ x.detached = jobs[j].detached
      /\ x.deliveryPending = jobs[j].deliveryPending
      /\ x.completion = jobs[j].completion /\ x.consumer = "cancelled"
  BY <1>1 DEF Job
<1>3. jobs' = [jobs EXCEPT ![j] = x]
  BY DEF CancelCancelled
<1> HIDE DEF x
<1> QED BY <1>2, <1>3

\* The consumer gets its answer
LEMMA ResumesRecord ==
  ASSUME JobsTyped, NEW j \in Jobs, ConsumerResumes(j)
  PROVE  \E x : /\ jobs' = [jobs EXCEPT ![j] = x]
               /\ x.state = jobs[j].state /\ x.lane = jobs[j].lane
               /\ x.allowClosed = jobs[j].allowClosed /\ x.fut = jobs[j].fut
               /\ x.outcome = jobs[j].outcome /\ x.detached = jobs[j].detached
               /\ x.deliveryPending = jobs[j].deliveryPending
               /\ x.completion = jobs[j].completion /\ x.consumer = jobs[j].completion
<1> DEFINE y == jobs[j]
           x == [y EXCEPT !.consumer = y.completion]
<1>1. y \in Job
  BY DEF JobsTyped
<1>2. /\ x.state = jobs[j].state /\ x.lane = jobs[j].lane
      /\ x.allowClosed = jobs[j].allowClosed /\ x.fut = jobs[j].fut
      /\ x.outcome = jobs[j].outcome /\ x.detached = jobs[j].detached
      /\ x.deliveryPending = jobs[j].deliveryPending
      /\ x.completion = jobs[j].completion /\ x.consumer = jobs[j].completion
  BY <1>1 DEF Job
<1>3. jobs' = [jobs EXCEPT ![j] = x]
  BY DEF ConsumerResumes
<1> HIDE DEF x
<1> QED BY <1>2, <1>3

\* _deliver
LEMMA DeliverRecord ==
  ASSUME JobsTyped, NEW j \in Jobs, Deliver(j)
  PROVE  \E x : /\ jobs' = [jobs EXCEPT ![j] = x]
               /\ x.state = jobs[j].state /\ x.lane = jobs[j].lane
               /\ x.allowClosed = jobs[j].allowClosed /\ x.fut = jobs[j].fut
               /\ x.outcome = jobs[j].outcome /\ x.detached = jobs[j].detached
               /\ x.deliveryPending = FALSE
               /\ x.completion = (IF jobs[j].detached THEN jobs[j].completion
                                 ELSE Resolved(jobs[j], jobs[j].outcome))
               /\ x.consumer = jobs[j].consumer
<1> DEFINE y == jobs[j]
           x == [y EXCEPT !.delivered = TRUE, !.deliveryPending = FALSE,
                       !.completion = IF y.detached THEN y.completion
                                      ELSE Resolved(y, y.outcome)]
<1>1. y \in Job
  BY DEF JobsTyped
<1>2. /\ x.state = jobs[j].state /\ x.lane = jobs[j].lane
      /\ x.allowClosed = jobs[j].allowClosed /\ x.fut = jobs[j].fut
      /\ x.outcome = jobs[j].outcome /\ x.detached = jobs[j].detached
      /\ x.deliveryPending = FALSE
      /\ x.completion = (IF jobs[j].detached THEN jobs[j].completion
                                 ELSE Resolved(jobs[j], jobs[j].outcome))
      /\ x.consumer = jobs[j].consumer
  BY <1>1 DEF Job
<1>3. jobs' = [jobs EXCEPT ![j] = x]
  BY DEF Deliver
<1> HIDE DEF x
<1> QED BY <1>2, <1>3

\* completion.cancel on the loop
LEMMA ScheduledCancelRecord ==
  ASSUME JobsTyped, NEW j \in Jobs, RunScheduledCancel(j)
  PROVE  \E x : /\ jobs' = [jobs EXCEPT ![j] = x]
               /\ x.state = jobs[j].state /\ x.lane = jobs[j].lane
               /\ x.allowClosed = jobs[j].allowClosed /\ x.fut = jobs[j].fut
               /\ x.outcome = jobs[j].outcome /\ x.detached = jobs[j].detached
               /\ x.deliveryPending = jobs[j].deliveryPending
               /\ x.completion = Resolved(jobs[j], "cancelled")
               /\ x.consumer = jobs[j].consumer
<1> DEFINE y == jobs[j]
           x == [y EXCEPT !.completion = Resolved(y, "cancelled")]
<1>1. y \in Job
  BY DEF JobsTyped
<1>2. /\ x.state = jobs[j].state /\ x.lane = jobs[j].lane
      /\ x.allowClosed = jobs[j].allowClosed /\ x.fut = jobs[j].fut
      /\ x.outcome = jobs[j].outcome /\ x.detached = jobs[j].detached
      /\ x.deliveryPending = jobs[j].deliveryPending
      /\ x.completion = Resolved(jobs[j], "cancelled")
      /\ x.consumer = jobs[j].consumer
  BY <1>1 DEF Job
<1>3. jobs' = [jobs EXCEPT ![j] = x]
  BY DEF RunScheduledCancel
<1> HIDE DEF x
<1> QED BY <1>2, <1>3
\* Everything a step can do to the records but change one of them
Quiet == UNCHANGED <<jobs, fatalErrors>> /\ cancelCalls' \subseteq cancelCalls

\* The steps that touch no job, no fatal error and no cancellation on its way.
LEMMA QuietSteps ==
  ASSUME \/ DispatchSkip \/ DispatchDone \/ PurgeDone \/ Settle
         \/ LoopOwes \/ CloseEnd \/ LoopDies \/ UNCHANGED vars
         \/ \E g \in Gates : CloseAdmission(g) \/ HoldForPublication(g) \/ ReleaseHold(g)
         \/ \E g \in Gates, p \in [parallel : ParallelLimits, queue : QueueLimits] : SetPolicy(g, p)
         \/ \E limit \in GlobalLimits : Configure(limit)
  PROVE  Quiet
BY DEF DispatchSkip, DispatchDone, PurgeDone, Settle, LoopOwes, LoopDiscard, LoopMark, LoopNotify,
       LoopCloseGate, CloseEnd, LoopDies, vars, CloseAdmission, HoldForPublication, ReleaseHold,
       GateCall, SetPolicy, Configure, Quiet

-----------------------------------------------------------------------------
(* A fatal outcome has one owner *)

\* Such a step leaves every fate alone.
LEMMA QuietFates == ASSUME Fates, Quiet PROVE Fates'
BY DEF Fates, Fate, Quiet

\* A step on one job is right when it is right for that job.
LEMMA OneFate ==
  ASSUME Fates, JobsTyped, NEW j \in Jobs, NEW x, jobs' = [jobs EXCEPT ![j] = x],
         \A k \in Jobs \ {j} : k \in fatalErrors' <=> k \in fatalErrors,
         \A k \in Jobs \ {j} : k \in cancelCalls' => k \in cancelCalls,
         Fate(j, x, fatalErrors', cancelCalls')
  PROVE  Fates'
<1> SUFFICES ASSUME NEW k \in Jobs
             PROVE  Fate(k, jobs'[k], fatalErrors', cancelCalls')
  BY DEF Fates
<1>1. CASE k = j
  BY <1>1 DEF JobsTyped
<1>2. CASE k # j
  <2>1. jobs'[k] = jobs[k] /\ Fate(k, jobs[k], fatalErrors, cancelCalls)
    BY <1>2 DEF JobsTyped, Fates
  <2> QED BY <1>2, <2>1 DEF Fate
<1> QED BY <1>1, <1>2

\* A job that is new, refused, queued or revoked
LEMMA QueueFates ==
  ASSUME BrokerAssumption, IInv, Fates, NEW j \in Jobs,
         \/ \E l \in Lanes, a \in Scopes : Admit(j, l, a) \/ Reject(j, l, a)
         \/ \E l \in Lanes : DispatchCancelled(l, j) \/ DispatchStart(l, j) \/ DispatchFailed(l, j)
         \/ /\ jobs[j].state = "queued" /\ jobs' = [jobs EXCEPT ![j] = Revoked(@)]
            /\ cancelCalls' = ScheduleCancel({j}) /\ UNCHANGED fatalErrors
         \/ CancelQueued(j) \/ CancelCancelled(j)
  PROVE  Fates'
<1>1. JobsTyped /\ Fate(j, jobs[j], fatalErrors, cancelCalls) /\ loopAlive \in BOOLEAN
  BY DEF IInv, Typed, Fates, LoopTyped
<1>2. ASSUME NEW l \in Lanes, NEW a \in Scopes, Admit(j, l, a) PROVE Fates'
  <2>1. PICK x : /\ jobs' = [jobs EXCEPT ![j] = x] /\ x.state = "queued" /\ x.fut = jobs[j].fut
                 /\ x.outcome = jobs[j].outcome /\ x.detached = jobs[j].detached
                 /\ x.deliveryPending = jobs[j].deliveryPending
                 /\ x.completion = jobs[j].completion /\ x.consumer = "waiting"
    BY <1>1, <1>2, AdmitRecord
  <2>2. jobs[j].state = "new" /\ UNCHANGED <<fatalErrors, cancelCalls>>
    BY <1>2 DEF Admit
  <2>3. Fate(j, x, fatalErrors', cancelCalls')
    BY <1>1, <2>1, <2>2 DEF Fate
  <2> QED BY <1>1, <2>1, <2>2, <2>3, OneFate
<1>3. ASSUME NEW l \in Lanes, NEW a \in Scopes, Reject(j, l, a) PROVE Fates'
  <2>1. PICK x : /\ jobs' = [jobs EXCEPT ![j] = x] /\ x.state = "rejected" /\ x.fut = jobs[j].fut
                 /\ x.outcome = jobs[j].outcome /\ x.detached = jobs[j].detached
                 /\ x.deliveryPending = jobs[j].deliveryPending
                 /\ x.completion = jobs[j].completion /\ x.consumer = jobs[j].consumer
    BY <1>1, <1>3, RejectRecord
  <2>2. jobs[j].state = "new" /\ UNCHANGED <<fatalErrors, cancelCalls>>
    BY <1>3 DEF Reject
  <2>3. Fate(j, x, fatalErrors', cancelCalls')
    BY <1>1, <2>1, <2>2 DEF Fate
  <2> QED BY <1>1, <2>1, <2>2, <2>3, OneFate
<1>4. ASSUME jobs[j].state = "queued", jobs' = [jobs EXCEPT ![j] = Revoked(@)],
             cancelCalls' = ScheduleCancel({j}), UNCHANGED fatalErrors
      PROVE  Fates'
  <2>1. PICK x : /\ jobs' = [jobs EXCEPT ![j] = x] /\ x.state = "cancelled" /\ x.fut = jobs[j].fut
                 /\ x.outcome = jobs[j].outcome /\ x.detached = TRUE
                 /\ x.deliveryPending = jobs[j].deliveryPending
                 /\ x.completion = jobs[j].completion /\ x.consumer = jobs[j].consumer
    BY ZenonT(60), <1>1, <1>4, RevokedRecord
  <2>2. \A k \in Jobs \ {j} : k \in cancelCalls' => k \in cancelCalls
    BY <1>4 DEF ScheduleCancel
  <2>3. Fate(j, x, fatalErrors', cancelCalls')
    <3>1. ~jobs[j].deliveryPending
      BY <1>1, <1>4 DEF IInv, Linked, SoundJob
    <3> QED BY <1>1, <1>4, <2>1, <3>1 DEF Fate
  <2> QED BY <1>1, <1>4, <2>1, <2>2, <2>3, OneFate
<1>5. ASSUME NEW l \in Lanes, DispatchCancelled(l, j) PROVE Fates'
  <2>1. jobs[j].state = "queued"
    BY <1>5, DispatchedHead DEF DispatchCancelled
  <2> QED BY <1>4, <1>5, <2>1 DEF DispatchCancelled
<1>6. ASSUME NEW l \in Lanes, DispatchStart(l, j) PROVE Fates'
  <2>1. PICK x : /\ jobs' = [jobs EXCEPT ![j] = x] /\ x.state = "running" /\ x.fut = "pending"
                 /\ x.outcome = jobs[j].outcome /\ x.detached = jobs[j].detached
                 /\ x.deliveryPending = jobs[j].deliveryPending
                 /\ x.completion = jobs[j].completion /\ x.consumer = jobs[j].consumer
    BY <1>1, <1>6, StartRecord
  <2>2. jobs[j].state = "queued" /\ UNCHANGED <<fatalErrors, cancelCalls>>
    BY <1>6, DispatchedHead DEF DispatchStart
  <2>3. Fate(j, x, fatalErrors', cancelCalls')
    BY <1>1, <2>1, <2>2 DEF Fate
  <2> QED BY <1>1, <2>1, <2>2, <2>3, OneFate
<1>7. ASSUME NEW l \in Lanes, DispatchFailed(l, j) PROVE Fates'
  <2>1. PICK x : /\ jobs' = [jobs EXCEPT ![j] = x] /\ x.state = "terminal" /\ x.fut = jobs[j].fut
                 /\ x.outcome = "error" /\ x.detached = ~loopAlive
                 /\ x.deliveryPending = loopAlive
                 /\ x.completion = jobs[j].completion /\ x.consumer = jobs[j].consumer
    BY <1>1, <1>7, FailedRecord
  <2>2. jobs[j].state = "queued" /\ UNCHANGED <<fatalErrors, cancelCalls>>
    BY <1>7, DispatchedHead DEF DispatchFailed
  <2>3. Fate(j, x, fatalErrors', cancelCalls')
    BY <1>1, <2>1, <2>2 DEF Fate
  <2> QED BY <1>1, <2>1, <2>2, <2>3, OneFate
<1>8. ASSUME CancelQueued(j) PROVE Fates'
  <2>1. PICK x : /\ jobs' = [jobs EXCEPT ![j] = x] /\ x.state = "cancelled" /\ x.fut = jobs[j].fut
                 /\ x.outcome = jobs[j].outcome /\ x.detached = TRUE
                 /\ x.deliveryPending = jobs[j].deliveryPending
                 /\ x.completion = "cancelled" /\ x.consumer = "cancelled"
    BY <1>1, <1>8, CancelQueuedRecord
  <2>2. jobs[j].state = "queued" /\ UNCHANGED <<fatalErrors, cancelCalls>>
    BY <1>8 DEF CancelQueued
  <2>3. ~jobs[j].deliveryPending
    BY <1>1, <2>2 DEF IInv, Linked, SoundJob
  <2>4. Fate(j, x, fatalErrors', cancelCalls')
    BY <1>1, <2>1, <2>2, <2>3 DEF Fate
  <2> QED BY <1>1, <2>1, <2>2, <2>4, OneFate
<1>9. ASSUME CancelCancelled(j) PROVE Fates'
  <2>1. PICK x : /\ jobs' = [jobs EXCEPT ![j] = x] /\ x.state = jobs[j].state /\ x.fut = jobs[j].fut
                 /\ x.outcome = jobs[j].outcome /\ x.detached = jobs[j].detached
                 /\ x.deliveryPending = jobs[j].deliveryPending
                 /\ x.completion = jobs[j].completion /\ x.consumer = "cancelled"
    BY <1>1, <1>9, CancelCancelledRecord
  <2>2. jobs[j].state = "cancelled" /\ UNCHANGED <<fatalErrors, cancelCalls>>
    BY <1>9 DEF CancelCancelled
  <2>3. Fate(j, x, fatalErrors', cancelCalls')
    BY <1>1, <2>1, <2>2 DEF Fate
  <2> QED BY <1>1, <2>1, <2>2, <2>3, OneFate
<1> QED BY <1>2, <1>3, <1>4, <1>5, <1>6, <1>7, <1>8, <1>9

\* A job that runs or has run
LEMMA RunFates ==
  ASSUME BrokerAssumption, IInv, Fates, NEW j \in Jobs,
         \/ WorkerStart(j) \/ WorkerComplete(j) \/ \E o \in Endings : WorkerFinish(j, o)
         \/ CancelPending(j) \/ DetachRunning(j) \/ (CancelTerminal(j) /\ jobs[j].consumer = "waiting")
         \/ ConsumerResumes(j) \/ Deliver(j) \/ RunScheduledCancel(j)
  PROVE  Fates'
<1>1. JobsTyped /\ Fate(j, jobs[j], fatalErrors, cancelCalls) /\ loopAlive \in BOOLEAN
  BY DEF IInv, Typed, Fates, LoopTyped
<1>2. /\ jobs[j].state # "terminal" => ~jobs[j].deliveryPending
      /\ jobs[j].deliveryPending \in BOOLEAN /\ jobs[j].detached \in BOOLEAN
  BY <1>1 DEF IInv, Linked, SoundJob, JobsTyped, Job
<1>3. ASSUME WorkerStart(j) PROVE Fates'
  <2>1. PICK x : /\ jobs' = [jobs EXCEPT ![j] = x] /\ x.state = jobs[j].state /\ x.fut = "running"
                 /\ x.outcome = jobs[j].outcome /\ x.detached = jobs[j].detached
                 /\ x.deliveryPending = jobs[j].deliveryPending
                 /\ x.completion = jobs[j].completion /\ x.consumer = jobs[j].consumer
    BY <1>1, <1>3, WorkerStartRecord
  <2>2. jobs[j].state = "running" /\ UNCHANGED <<fatalErrors, cancelCalls>>
    BY <1>3 DEF WorkerStart
  <2>3. Fate(j, x, fatalErrors', cancelCalls')
    BY <1>1, <2>1, <2>2 DEF Fate
  <2> QED BY <1>1, <2>1, <2>2, <2>3, OneFate
<1>4. ASSUME NEW o \in Endings, WorkerFinish(j, o) PROVE Fates'
  <2>1. PICK x : /\ jobs' = [jobs EXCEPT ![j] = x] /\ x.state = jobs[j].state /\ x.fut = "done"
                 /\ x.outcome = o /\ x.detached = jobs[j].detached
                 /\ x.deliveryPending = jobs[j].deliveryPending
                 /\ x.completion = jobs[j].completion /\ x.consumer = jobs[j].consumer
    BY <1>1, <1>4, WorkerFinishRecord
  <2>2. jobs[j].fut = "running" /\ UNCHANGED <<fatalErrors, cancelCalls>> /\ o # "cancelled"
    BY <1>4 DEF WorkerFinish, BrokerAssumption
  <2>3. jobs[j].state = "running"
    BY <1>1, <2>2 DEF Fate, JobsTyped, Job
  <2>4. Fate(j, x, fatalErrors', cancelCalls')
    BY <1>1, <2>1, <2>2, <2>3 DEF Fate
  <2> QED BY <1>1, <2>1, <2>2, <2>4, OneFate
<1>5. ASSUME WorkerComplete(j) PROVE Fates'
  <2> DEFINE direct == jobs[j].detached \/ ~loopAlive
  <2>0. direct = (jobs[j].detached \/ ~loopAlive)
    OBVIOUS
  <2> HIDE DEF direct
  <2>1. PICK x : /\ jobs' = [jobs EXCEPT ![j] = x] /\ x.state = "terminal" /\ x.fut = jobs[j].fut
                 /\ x.lane = jobs[j].lane
                 /\ x.outcome = jobs[j].outcome /\ x.detached = direct
                 /\ x.deliveryPending = ~direct
                 /\ x.completion = jobs[j].completion /\ x.consumer = jobs[j].consumer
    BY <1>1, <1>5, <2>0, CompleteRecord
  <2>2. /\ jobs[j].state = "running" /\ jobs[j].fut = "done" /\ UNCHANGED cancelCalls
        /\ fatalErrors' = IF direct THEN DeferFatal(j, jobs[j].outcome) ELSE fatalErrors
    BY <1>5, <2>0 DEF WorkerComplete, ReturnedCallback
  <2>3. \A k \in Jobs \ {j} : k \in fatalErrors' <=> k \in fatalErrors
    BY <2>2 DEF DeferFatal
  <2>4. Fate(j, x, fatalErrors', cancelCalls')
    BY <1>1, <1>2, <2>0, <2>1, <2>2 DEF Fate, DeferFatal, IsGated
  <2> QED BY <1>1, <2>1, <2>2, <2>3, <2>4, OneFate
<1>6. ASSUME CancelPending(j) PROVE Fates'
  <2>1. PICK x : /\ jobs' = [jobs EXCEPT ![j] = x] /\ x.state = "terminal" /\ x.fut = "done"
                 /\ x.outcome = "cancelled" /\ x.detached = TRUE
                 /\ x.deliveryPending = jobs[j].deliveryPending
                 /\ x.completion = "cancelled" /\ x.consumer = "cancelled"
    BY ZenonT(60), <1>1, <1>6, CancelPendingRecord
  <2>2. jobs[j].state = "running" /\ UNCHANGED <<fatalErrors, cancelCalls>>
    BY <1>6 DEF CancelPending
  <2>3. Fate(j, x, fatalErrors', cancelCalls')
    BY <1>1, <1>2, <2>1, <2>2 DEF Fate
  <2> QED BY <1>1, <2>1, <2>2, <2>3, OneFate
<1>7. ASSUME DetachRunning(j) PROVE Fates'
  <2>1. PICK x : /\ jobs' = [jobs EXCEPT ![j] = x] /\ x.state = jobs[j].state /\ x.fut = jobs[j].fut
                 /\ x.outcome = jobs[j].outcome /\ x.detached = TRUE
                 /\ x.deliveryPending = jobs[j].deliveryPending
                 /\ x.completion = jobs[j].completion /\ x.consumer = "cancelled"
    BY <1>1, <1>7, DetachRunningRecord
  <2>2. jobs[j].state = "running" /\ UNCHANGED <<fatalErrors, cancelCalls>>
    BY <1>7 DEF DetachRunning
  <2>3. Fate(j, x, fatalErrors', cancelCalls')
    BY <1>1, <1>2, <2>1, <2>2 DEF Fate
  <2> QED BY <1>1, <2>1, <2>2, <2>3, OneFate
<1>8. ASSUME CancelTerminal(j), jobs[j].consumer = "waiting" PROVE Fates'
  <2>1. PICK x : /\ jobs' = [jobs EXCEPT ![j] = x] /\ x.state = jobs[j].state /\ x.fut = jobs[j].fut
                 /\ x.lane = jobs[j].lane
                 /\ x.outcome = jobs[j].outcome /\ x.detached = TRUE
                 /\ x.deliveryPending = FALSE
                 /\ x.completion = Resolved(jobs[j], "cancelled") /\ x.consumer = "cancelled"
    BY <1>1, <1>8, CancelTerminalRecord
  <2>2. /\ jobs[j].state = "terminal" /\ UNCHANGED cancelCalls
        /\ fatalErrors' = DeferFatal(j, jobs[j].outcome)
    BY <1>8 DEF CancelTerminal
  <2>3. \A k \in Jobs \ {j} : k \in fatalErrors' <=> k \in fatalErrors
    BY <2>2 DEF DeferFatal
  <2>4. Fate(j, x, fatalErrors', cancelCalls')
    BY <1>1, <1>2, <2>1, <2>2 DEF Fate, DeferFatal, IsGated
  <2> QED BY <1>1, <2>1, <2>2, <2>3, <2>4, OneFate
<1>9. ASSUME ConsumerResumes(j) PROVE Fates'
  <2>1. PICK x : /\ jobs' = [jobs EXCEPT ![j] = x] /\ x.state = jobs[j].state /\ x.fut = jobs[j].fut
                 /\ x.lane = jobs[j].lane
                 /\ x.outcome = jobs[j].outcome /\ x.detached = jobs[j].detached
                 /\ x.deliveryPending = jobs[j].deliveryPending
                 /\ x.completion = jobs[j].completion /\ x.consumer = jobs[j].completion
    BY <1>1, <1>9, ResumesRecord
  <2>2. /\ jobs[j].completion # "cancelled" /\ jobs[j].consumer # "cancelled"
        /\ UNCHANGED <<fatalErrors, cancelCalls>>
    BY <1>9 DEF ConsumerResumes, Outcomes
  <2>3. Fate(j, x, fatalErrors', cancelCalls')
    BY <1>1, <1>2, <2>1, <2>2 DEF Fate
  <2> QED BY <1>1, <2>1, <2>2, <2>3, OneFate
<1>10. ASSUME Deliver(j) PROVE Fates'
  <2>1. jobs[j].deliveryPending
    BY <1>10 DEF Deliver
  <2>2. /\ ~jobs[j].detached /\ jobs[j].completion = "pending" /\ jobs[j].state = "terminal"
        /\ j \notin fatalErrors /\ jobs[j].outcome # "cancelled"
    BY <1>1, <1>2, <2>1 DEF Fate
  <2>3. PICK x : /\ jobs' = [jobs EXCEPT ![j] = x] /\ x.state = jobs[j].state /\ x.fut = jobs[j].fut
                 /\ x.lane = jobs[j].lane
                 /\ x.outcome = jobs[j].outcome /\ x.detached = jobs[j].detached
                 /\ x.deliveryPending = FALSE
                 /\ x.completion = (IF jobs[j].detached THEN jobs[j].completion
                                    ELSE Resolved(jobs[j], jobs[j].outcome))
                 /\ x.consumer = jobs[j].consumer
    BY <1>1, <1>10, DeliverRecord
  <2>4. x.completion = jobs[j].outcome
    BY <2>2, <2>3 DEF Resolved
  <2>5. UNCHANGED <<fatalErrors, cancelCalls>>
    BY <1>10, <2>2 DEF Deliver
  <2>6. Fate(j, x, fatalErrors', cancelCalls')
    BY <1>1, <2>2, <2>3, <2>4, <2>5 DEF Fate
  <2> QED BY <1>1, <2>3, <2>5, <2>6, OneFate
<1>11. ASSUME RunScheduledCancel(j) PROVE Fates'
  <2>1. PICK x : /\ jobs' = [jobs EXCEPT ![j] = x] /\ x.state = jobs[j].state /\ x.fut = jobs[j].fut
                 /\ x.outcome = jobs[j].outcome /\ x.detached = jobs[j].detached
                 /\ x.deliveryPending = jobs[j].deliveryPending
                 /\ x.completion = Resolved(jobs[j], "cancelled") /\ x.consumer = jobs[j].consumer
    BY <1>1, <1>11, ScheduledCancelRecord
  <2>2. /\ j \in cancelCalls /\ UNCHANGED fatalErrors /\ cancelCalls' = cancelCalls \ {j}
    BY <1>11 DEF RunScheduledCancel
  <2>3. Fate(j, x, fatalErrors', cancelCalls')
    BY <1>1, <1>2, <2>1, <2>2 DEF Fate, Resolved
  <2> QED BY <1>1, <2>1, <2>2, <2>3, OneFate
<1> QED BY <1>3, <1>4, <1>5, <1>6, <1>7, <1>8, <1>9, <1>10, <1>11
\* close revokes all that is queued.
LEMMA CloseRecords ==
  ASSUME JobsTyped, CloseBegin, NEW k \in Jobs
  PROVE  IF jobs[k].state = "queued"
         THEN /\ jobs'[k].state = "cancelled" /\ jobs'[k].lane = jobs[k].lane
              /\ jobs'[k].fut = jobs[k].fut /\ jobs'[k].outcome = jobs[k].outcome
              /\ jobs'[k].detached = TRUE /\ jobs'[k].deliveryPending = jobs[k].deliveryPending
              /\ jobs'[k].completion = jobs[k].completion /\ jobs'[k].consumer = jobs[k].consumer
         ELSE jobs'[k] = jobs[k]
<1>1. jobs'[k] = IF jobs[k].state = "queued" THEN Revoked(jobs[k]) ELSE jobs[k]
  BY DEF CloseBegin
<1>2. jobs[k] \in Job
  BY DEF JobsTyped
<1> QED BY <1>1, <1>2 DEF Revoked, Job

\* close() cancels queued jobs only, and none of those has a fatal outcome.
LEMMA CloseFates ==
  ASSUME IInv, Fates, CloseBegin
  PROVE  Fates'
<1> SUFFICES ASSUME NEW k \in Jobs
             PROVE  Fate(k, jobs'[k], fatalErrors', cancelCalls')
  BY DEF Fates
<1>1. /\ JobsTyped /\ Fate(k, jobs[k], fatalErrors, cancelCalls)
      /\ jobs[k].state = "queued" => ~jobs[k].deliveryPending
  BY DEF IInv, Typed, Fates, Linked, SoundJob
<1>2. UNCHANGED fatalErrors /\ (k \in cancelCalls' => k \in cancelCalls \/ jobs[k].state = "queued")
  BY DEF CloseBegin, ScheduleCancel
<1> QED BY <1>1, <1>2, CloseRecords DEF Fate

\* Every step of the broker keeps the owner of every fatal outcome.
LEMMA FatesKept ==
  ASSUME BrokerAssumption, IInv, Fates, [Next]_vars
  PROVE  Fates'
<1>1. ASSUME Quiet PROVE Fates'
  BY <1>1, QuietFates
<1>2. CASE LockHolderStep
  <2>1. ASSUME NEW i \in 1..Cardinality(Jobs), PurgeJob(i) PROVE Fates'
    <3> DEFINE j == laneQueues[lock.of][i]
    <3>1. j \in Jobs /\ jobs[j].state = "queued"
      BY <2>1, PurgedJob
    <3>2. /\ jobs' = [jobs EXCEPT ![j] = Revoked(@)] /\ cancelCalls' = ScheduleCancel({j})
          /\ UNCHANGED fatalErrors
      BY <2>1 DEF PurgeJob
    <3> HIDE DEF j
    <3> QED BY <3>1, <3>2, QueueFates
  <2> QED BY <1>1, <1>2, <2>1, QuietSteps, QueueFates DEF LockHolderStep
<1>3. CASE \E j \in Jobs, l \in Lanes, a \in Scopes : Admit(j, l, a) \/ Reject(j, l, a)
  BY <1>3, QueueFates
<1>4. CASE \E j \in Jobs : \/ WorkerStart(j) \/ WorkerComplete(j)
                           \/ \E o \in Endings : WorkerFinish(j, o)
                           \/ ConsumerResumes(j) \/ Deliver(j) \/ RunScheduledCancel(j)
  BY <1>4, RunFates
<1>5. CASE \E j \in Jobs : ConsumerCancelled(j)
  BY <1>5, RunFates, QueueFates DEF ConsumerCancelled, CancelOrDetach
<1>6. CASE CloseBegin
  BY <1>6, CloseFates
<1>7. CASE \/ LoopOwes \/ CloseEnd \/ LoopDies \/ UNCHANGED vars
           \/ \E g \in Gates : CloseAdmission(g) \/ HoldForPublication(g) \/ ReleaseHold(g)
           \/ \E g \in Gates, p \in [parallel : ParallelLimits, queue : QueueLimits] : SetPolicy(g, p)
           \/ \E limit \in GlobalLimits : Configure(limit)
  BY <1>1, <1>7, QuietSteps
<1> QED BY <1>2, <1>3, <1>4, <1>5, <1>6, <1>7 DEF Next

-----------------------------------------------------------------------------
(* No wakeup is lost *)

\* A lane that has work and room is in the ready lanes once it was offered.
LEMMA QueueLaneOffers ==
  ASSUME NEW l \in Lanes, NEW ready \in Seq(Lanes), NEW queue, NEW running \in Int,
         LaneRunningLimit(l) \in Int
  PROVE  /\ Range(ready) \subseteq Range(QueueLane(l, ready, queue, running))
         /\ queue # <<>> /\ running < LaneRunningLimit(l)
              => l \in Range(QueueLane(l, ready, queue, running))
BY AppendFacts DEF QueueLane

\* A lane's limit is a number, so a comparison with it means something.
LEMMA LimitType ==
  ASSUME BrokerAssumption, GatesTyped, NEW l \in Lanes
  PROVE  LaneRunningLimit(l) \in Int
<1>1. MaxWorkers \in Int /\ CrossPluginCap \in Int
  BY DEF BrokerAssumption, CrossPluginCap
<1>2. CASE l = FallbackLane
  BY <1>1, <1>2 DEF LaneRunningLimit
<1>3. CASE l # FallbackLane
  <2>1. l \in Gates
    BY <1>3 DEF Lanes
  <2>2. policy[l] \in [parallel : ParallelLimits, queue : QueueLimits]
    BY <2>1 DEF GatesTyped
  <2>3. policy[l].parallel \in ParallelLimits
    BY <2>2
  <2> DEFINE n == policy[l].parallel
  <2>4. n \in ParallelLimits /\ ParallelLimits \subseteq Nat \ {0}
    BY <2>3 DEF BrokerAssumption
  <2> HIDE DEF n
  <2>5. n \in Int
    BY <2>4
  <2> QED BY <1>1, <1>3, <2>5 DEF LaneRunningLimit, n
<1> QED BY <1>2, <1>3

\* Steps that leave the queues and the slots alone
LEMMA OfferedStays ==
  ASSUME Offered, UNCHANGED <<laneQueues, runningByLane, runningCount, readyLanes, policy>>,
         lock' = Unlocked => lock = Unlocked,
         \A l \in Lanes : todo = [op |-> "notify", of |-> l] => todo' = [op |-> "notify", of |-> l]
  PROVE  Offered'
BY DEF Offered, LaneRunningLimit

\* Steps after which one lane is offered again, to somebody who dispatches
LEMMA OfferedAgain ==
  ASSUME BrokerAssumption, IInv, Offered, NEW l \in Lanes, NEW ready \in Seq(Lanes),
         Range(readyLanes) \ {l} \subseteq Range(ready),
         runningByLane'[l] \in Int,
         readyLanes' = QueueLane(l, ready, laneQueues'[l], runningByLane'[l]),
         \A k \in Lanes \ {l} : laneQueues'[k] = laneQueues[k] /\ runningByLane'[k] = runningByLane[k],
         UNCHANGED policy, lock' # Unlocked,
         \A k \in Lanes \ {l} : todo = [op |-> "notify", of |-> k] => todo' = [op |-> "notify", of |-> k]
  PROVE  Offered'
<1>1. \A k \in Lanes : LaneRunningLimit(k) \in Int /\ LaneRunningLimit(k)' = LaneRunningLimit(k)
  BY LimitType DEF IInv, Typed, LaneRunningLimit
<1>2. /\ Range(ready) \subseteq Range(readyLanes')
      /\ laneQueues'[l] # <<>> /\ runningByLane'[l] < LaneRunningLimit(l) => l \in Range(readyLanes')
  BY <1>1, QueueLaneOffers
<1>3. ASSUME NEW k \in Lanes, laneQueues'[k] # <<>>, runningByLane'[k] < LaneRunningLimit(k)
      PROVE  k \in Range(readyLanes') \/ todo' = [op |-> "notify", of |-> k]
  <2>1. CASE k = l
    BY <1>2, <1>3, <2>1
  <2>2. CASE k # l
    <3>1. k \in Range(readyLanes) \/ todo = [op |-> "notify", of |-> k]
      BY <1>3, <2>2 DEF Offered
    <3> QED BY <1>2, <2>2, <3>1
  <2> QED BY <2>1, <2>2
<1>4. \A k \in Lanes : laneQueues'[k] # <<>> /\ runningByLane'[k] < LaneRunningLimit(k)'
        => k \in Range(readyLanes)' \/ todo' = [op |-> "notify", of |-> k]
  <2>1. Range(readyLanes)' = Range(readyLanes')
    BY DEF Range
  <2> QED BY <1>1, <1>3, <2>1
<1> QED BY <1>4 DEF Offered

\* What a step that dispatches the head of the first ready lane offers
LEMMA HeadOffered ==
  ASSUME BrokerAssumption, IInv, Offered, NEW l \in Lanes, NEW j \in Jobs,
         NEW running \in Int, DispatchHead(l, j, running),
         runningByLane'[l] = running,
         \A k \in Lanes \ {l} : runningByLane'[k] = runningByLane[k],
         UNCHANGED <<policy, lock, todo>>
  PROVE  Offered'
<1>1. /\ Tail(readyLanes) \in Seq(Lanes)
      /\ Range(Tail(readyLanes)) = Range(readyLanes) \ {l}
  <2>1. readyLanes \in Seq(Lanes) /\ IsInjective(readyLanes) /\ readyLanes # <<>>
    BY DEF DispatchHead, CanDispatch, IInv, Typed, QueuesTyped, ReadyOnce
  <2> QED BY <2>1, TailFacts DEF DispatchHead
<1>2. /\ laneQueues'[l] = Tail(laneQueues[l])
      /\ \A k \in Lanes \ {l} : laneQueues'[k] = laneQueues[k]
  BY DEF DispatchHead, IInv, Typed, QueuesTyped
<1>3. readyLanes' = QueueLane(l, Tail(readyLanes), laneQueues'[l], runningByLane'[l])
  BY <1>2 DEF DispatchHead
<1>4. lock' # Unlocked
  BY DEF DispatchHead, CanDispatch, Unlocked
<1> QED BY <1>1, <1>2, <1>3, <1>4, OfferedAgain

\* Releasing a slot offers its lane
LEMMA ReleaseOffers ==
  ASSUME BrokerAssumption, IInv, Offered, NEW l \in Lanes, ReleaseSlot(l),
         UNCHANGED <<laneQueues, policy>>, lock' # Unlocked,
         \A k \in Lanes : todo = [op |-> "notify", of |-> k] => todo' = [op |-> "notify", of |-> k]
  PROVE  Offered'
<1>1. /\ runningByLane'[l] = runningByLane[l] - 1 /\ runningByLane'[l] \in Int
      /\ \A k \in Lanes \ {l} : runningByLane'[k] = runningByLane[k]
  BY DEF ReleaseSlot, IInv, Typed, QueuesTyped
<1>2. readyLanes \in Seq(Lanes)
  BY DEF IInv, Typed, QueuesTyped
<1>3. readyLanes' = QueueLane(l, readyLanes, laneQueues'[l], runningByLane'[l])
  BY <1>1 DEF ReleaseSlot
<1> QED BY <1>1, <1>2, <1>3, OfferedAgain

\* A step of the loop thread that owed nothing forgets no notification.
LEMMA IdleOwesNothing ==
  ASSUME LoopIdle
  PROVE  \A k : todo # [op |-> "notify", of |-> k]
BY DEF LoopIdle, Idle

\* Steps of whoever holds the lock
LEMMA LockHolderOffers ==
  ASSUME BrokerAssumption, IInv, Offered, LockHolderStep
  PROVE  Offered'
<1>0. /\ readyLanes \in Seq(Lanes) /\ IsInjective(readyLanes)
      /\ laneQueues \in [Lanes -> Seq(Jobs)] /\ runningByLane \in [Lanes -> Int]
      /\ runningCount \in Int /\ MaxWorkers \in Int
  BY DEF IInv, Typed, QueuesTyped, ReadyOnce, BrokerAssumption
<1>1. CASE DispatchSkip
  <2> DEFINE l == Head(readyLanes)
  <2>1. /\ l \in Lanes /\ (laneQueues[l] = <<>> \/ runningByLane[l] >= LaneRunningLimit(l))
        /\ readyLanes' = Tail(readyLanes) /\ Range(Tail(readyLanes)) = Range(readyLanes) \ {l}
        /\ UNCHANGED <<laneQueues, runningByLane, policy, todo>> /\ lock' # Unlocked
    BY SMTT(30), <1>0, <1>1, TailFacts DEF DispatchSkip, CanDispatch, Unlocked, gateVars
  <2>2. LaneRunningLimit(l) \in Int /\ runningByLane[l] \in Int
    BY <1>0, <2>1, LimitType DEF IInv, Typed
  <2>3. ~(laneQueues[l] # <<>> /\ runningByLane[l] < LaneRunningLimit(l))
    BY <2>1, <2>2
  <2>4. ASSUME NEW k \in Lanes, laneQueues[k] # <<>>, runningByLane[k] < LaneRunningLimit(k)
        PROVE  k \in Range(readyLanes') \/ todo = [op |-> "notify", of |-> k]
    <3>1. k # l
      BY <2>3, <2>4
    <3> QED BY <2>1, <2>4, <3>1 DEF Offered
  <2>5. \A k \in Lanes : LaneRunningLimit(k)' = LaneRunningLimit(k)
    BY <2>1 DEF LaneRunningLimit
  <2>6. Range(readyLanes)' = Range(readyLanes')
    BY DEF Range
  <2> HIDE DEF l
  <2> QED BY <2>1, <2>4, <2>5, <2>6 DEF Offered
<1>2. ASSUME NEW l \in Lanes, NEW j \in Jobs, DispatchCancelled(l, j) PROVE Offered'
  BY <1>0, <1>2, HeadOffered DEF DispatchCancelled, gateVars
<1>3. ASSUME NEW l \in Lanes, NEW j \in Jobs, DispatchStart(l, j) PROVE Offered'
  <2>1. /\ runningByLane[l] + 1 \in Int /\ runningByLane'[l] = runningByLane[l] + 1
        /\ \A k \in Lanes \ {l} : runningByLane'[k] = runningByLane[k]
    BY <1>0, <1>3 DEF DispatchStart
  <2> QED BY <1>3, <2>1, HeadOffered DEF DispatchStart, gateVars
<1>4. ASSUME NEW l \in Lanes, NEW j \in Jobs, DispatchFailed(l, j) PROVE Offered'
  BY <1>0, <1>4, HeadOffered DEF DispatchFailed, gateVars
<1>5. CASE DispatchDone
  <2>1. UNCHANGED <<laneQueues, runningByLane, runningCount, readyLanes, policy, todo>>
    BY <1>5 DEF DispatchDone, queueVars, gateVars
  <2>2. readyLanes = <<>> \/ runningCount >= MaxWorkers
    BY <1>0, <1>5 DEF DispatchDone, CanDispatch
  <2> QED BY <2>1, <2>2 DEF Offered, LaneRunningLimit
<1>6. ASSUME NEW i \in 1..Cardinality(Jobs), PurgeJob(i) PROVE Offered'
  <2> DEFINE g == lock.of
  <2>1. /\ g \in Lanes /\ laneQueues[g] # <<>>
        /\ \A k \in Lanes \ {g} : laneQueues'[k] = laneQueues[k]
    <3>1. g \in Lanes /\ i \in 1..Len(laneQueues[g])
      BY <1>6, PurgedJob DEF PurgeJob, Purgeable
    <3>2. laneQueues[g] # <<>>
      BY <1>0, <3>1, EmptySeq
    <3> QED BY SMTT(30), <1>0, <1>6, <3>1, <3>2 DEF PurgeJob
  <2>2. UNCHANGED <<runningByLane, runningCount, readyLanes, policy, lock, todo>>
    BY <1>6 DEF PurgeJob, gateVars
  <2>3. lock' # Unlocked
    BY <1>6, <2>2 DEF PurgeJob, Unlocked
  <2>4. \A k \in Lanes : laneQueues'[k] # <<>> => laneQueues[k] # <<>>
    BY <2>1
  <2> HIDE DEF g
  <2> QED BY <2>2, <2>3, <2>4 DEF Offered, LaneRunningLimit
<1>7. CASE PurgeDone
  <2> DEFINE g == lock.of
  <2>1. g \in Lanes
    BY <1>7 DEF PurgeDone, IInv, Linked, Lanes
  <2>2. /\ Without(readyLanes, g) \in Seq(Lanes)
        /\ Range(Without(readyLanes, g)) = Range(readyLanes) \ {g}
    BY <1>0, WithoutFacts
  <2>3. /\ readyLanes' = QueueLane(g, Without(readyLanes, g), laneQueues[g], runningByLane[g])
        /\ UNCHANGED <<laneQueues, runningByLane, policy, todo>> /\ lock' # Unlocked
    BY <1>7 DEF PurgeDone, gateVars, Dispatching, Unlocked
  <2>4. runningByLane[g] \in Int
    BY <1>0, <2>1
  <2> HIDE DEF g
  <2> QED BY <2>1, <2>2, <2>3, <2>4, OfferedAgain
<1>8. CASE Settle
  BY <1>8, OfferedStays DEF Settle, queueVars, gateVars, Dispatching, Unlocked
<1> QED BY <1>1, <1>2, <1>3, <1>4, <1>5, <1>6, <1>7, <1>8 DEF LockHolderStep

\* A lane that leaves the ready lanes to be offered again, when a job of its
\* deque is cancelled
LEMMA CancelQueuedOffers ==
  ASSUME BrokerAssumption, IInv, Offered, NEW j \in Jobs, CancelQueued(j)
  PROVE  Offered'
<1> DEFINE l == jobs[j].lane
           queue == Without(laneQueues[l], j)
<1>0. /\ readyLanes \in Seq(Lanes) /\ IsInjective(readyLanes)
      /\ laneQueues \in [Lanes -> Seq(Jobs)] /\ runningByLane \in [Lanes -> Int]
  BY DEF IInv, Typed, QueuesTyped, ReadyOnce
<1>1. l \in Lanes
  BY JobIsSound DEF CancelQueued
<1>2. /\ Without(readyLanes, l) \in Seq(Lanes)
      /\ Range(Without(readyLanes, l)) = Range(readyLanes) \ {l}
  BY <1>0, WithoutFacts
<1>3. /\ laneQueues' = [laneQueues EXCEPT ![l] = queue]
      /\ readyLanes' = QueueLane(l, Without(readyLanes, l), queue, runningByLane[l])
      /\ UNCHANGED <<runningByLane, policy, todo>> /\ lock' # Unlocked
  BY DEF CancelQueued, gateVars, Dispatching, Unlocked
<1> HIDE DEF l, queue
<1>4. /\ laneQueues'[l] = queue /\ runningByLane[l] \in Int
      /\ \A k \in Lanes \ {l} : laneQueues'[k] = laneQueues[k]
  BY <1>0, <1>1, <1>3
<1> QED BY <1>1, <1>2, <1>3, <1>4, OfferedAgain

\* Whatever a step does, a lane with work and room is offered, and offered
\* lanes are left behind only for want of a worker.
LEMMA OfferedKept ==
  ASSUME BrokerAssumption, IInv, Offered, [Next]_vars
  PROVE  Offered'
<1>0. /\ readyLanes \in Seq(Lanes) /\ laneQueues \in [Lanes -> Seq(Jobs)]
      /\ runningByLane \in [Lanes -> Int]
  BY DEF IInv, Typed, QueuesTyped
<1>1. CASE LockHolderStep
  BY <1>1, LockHolderOffers
<1>2. CASE LoopOwes
  <2>1. ASSUME NEW j \in Jobs, LoopDiscard(j) \/ LoopMark(j) PROVE Offered'
    <3>1. \A k : todo # [op |-> "notify", of |-> k]
      BY <2>1 DEF LoopDiscard, LoopMark, LoopDoes
    <3> QED BY <2>1, <3>1, OfferedStays DEF LoopDiscard, LoopMark, queueVars, gateVars
  <2>2. ASSUME NEW g \in Gates, LoopNotify(g) PROVE Offered'
    <3>1. /\ readyLanes' = QueueLane(g, readyLanes, laneQueues'[g], runningByLane'[g])
          /\ UNCHANGED <<laneQueues, runningByLane, policy>> /\ lock' # Unlocked
      BY <2>2 DEF LoopNotify, gateVars, Dispatching, Unlocked
    <3>2. \A k : k # g => todo # [op |-> "notify", of |-> k]
      BY <2>2 DEF LoopNotify, LoopDoes
    <3>3. g \in Lanes /\ runningByLane'[g] \in Int
      BY <1>0, <3>1 DEF Lanes
    <3> QED BY <1>0, <3>1, <3>2, <3>3, OfferedAgain
  <2>3. ASSUME NEW g \in Gates, LoopCloseGate(g) PROVE Offered'
    <3>1. \A k : todo # [op |-> "notify", of |-> k]
      BY <2>3 DEF LoopCloseGate, LoopDoes
    <3> QED BY <2>3, <3>1, OfferedStays DEF LoopCloseGate, queueVars, gateVars
  <2> QED BY <1>2, <2>1, <2>2, <2>3 DEF LoopOwes
<1>3. ASSUME NEW j \in Jobs, NEW l \in Lanes, NEW a \in Scopes, Admit(j, l, a) PROVE Offered'
  <2>1. /\ readyLanes' = QueueLane(l, readyLanes, laneQueues'[l], runningByLane'[l])
        /\ UNCHANGED <<runningByLane, policy, todo>> /\ lock' # Unlocked
    BY <1>3 DEF Admit, gateVars, Dispatching, Unlocked
  <2>2. \A k \in Lanes \ {l} : laneQueues'[k] = laneQueues[k]
    BY <1>0, <1>3 DEF Admit
  <2>3. runningByLane'[l] \in Int
    BY <1>0, <2>1
  <2> QED BY <1>0, <2>1, <2>2, <2>3, OfferedAgain
<1>4. CASE \/ \E j \in Jobs, l \in Lanes, a \in Scopes : Reject(j, l, a)
           \/ \E j \in Jobs : WorkerStart(j) \/ \E o \in Endings : WorkerFinish(j, o)
           \/ \E j \in Jobs : ConsumerResumes(j) \/ RunScheduledCancel(j)
           \/ CloseEnd \/ LoopDies \/ UNCHANGED vars
  <2>1. UNCHANGED <<laneQueues, runningByLane, runningCount, readyLanes, policy, lock, todo>>
    <3>1. CASE \E j \in Jobs, l \in Lanes, a \in Scopes : Reject(j, l, a)
      BY <3>1 DEF Reject, gateVars, queueVars
    <3>2. CASE \E j \in Jobs : WorkerStart(j) \/ \E o \in Endings : WorkerFinish(j, o)
      BY <3>2 DEF WorkerStart, WorkerFinish, gateVars, queueVars
    <3>3. CASE \E j \in Jobs : ConsumerResumes(j) \/ RunScheduledCancel(j)
      BY <3>3 DEF ConsumerResumes, RunScheduledCancel, gateVars, queueVars
    <3>4. CASE CloseEnd \/ LoopDies \/ UNCHANGED vars
      BY <3>4 DEF CloseEnd, LoopDies, vars, gateVars, queueVars
    <3> QED BY <1>4, <3>1, <3>2, <3>3, <3>4
  <2> QED BY <2>1, OfferedStays
<1>11. ASSUME NEW limit \in GlobalLimits, Configure(limit) PROVE Offered'
  BY <1>11, OfferedStays DEF Configure, queueVars, gateVars, Dispatching, Unlocked
<1>5. ASSUME NEW j \in Jobs, WorkerComplete(j) PROVE Offered'
  <2>1. jobs[j].lane \in Lanes /\ ReleaseSlot(jobs[j].lane)
    BY <1>5, JobIsSound DEF WorkerComplete, ReturnedCallback
  <2>2. lock' # Unlocked /\ UNCHANGED <<laneQueues, policy, todo>>
    BY <1>5 DEF WorkerComplete, gateVars, Dispatching, Unlocked
  <2> QED BY <2>1, <2>2, ReleaseOffers
<1>6. ASSUME NEW j \in Jobs, Deliver(j) PROVE Offered'
  <2>1. \A k : todo # [op |-> "notify", of |-> k]
    BY <1>6, IdleOwesNothing DEF Deliver, LoopCanLock
  <2> QED BY <1>6, <2>1, OfferedStays DEF Deliver, queueVars, gateVars
<1>7. ASSUME NEW j \in Jobs, ConsumerCancelled(j) PROVE Offered'
  <2>1. \A k : todo # [op |-> "notify", of |-> k]
    BY <1>7, IdleOwesNothing DEF ConsumerCancelled, LoopCanLock
  <2>2. CASE CancelQueued(j)
    BY <2>2, CancelQueuedOffers
  <2>3. CASE CancelPending(j)
    <3>1. jobs[j].lane \in Lanes /\ ReleaseSlot(jobs[j].lane)
      BY <2>3, JobIsSound DEF CancelPending
    <3>2. lock' # Unlocked /\ UNCHANGED <<laneQueues, policy>>
      BY <2>3 DEF CancelPending, gateVars, Dispatching, Unlocked
    <3> QED BY <2>1, <3>1, <3>2, ReleaseOffers
  <2>4. CASE DetachRunning(j) \/ CancelTerminal(j) \/ CancelCancelled(j)
    BY <2>1, <2>4, OfferedStays DEF DetachRunning, CancelTerminal, CancelCancelled, queueVars, gateVars
  <2> QED BY <1>7, <2>2, <2>3, <2>4 DEF ConsumerCancelled, CancelOrDetach
<1>8. ASSUME NEW g \in Gates, CloseAdmission(g) \/ HoldForPublication(g) \/ ReleaseHold(g)
      PROVE  Offered'
  <2>1. /\ UNCHANGED <<laneQueues, runningByLane, runningCount, readyLanes, policy, lock>>
        /\ LoopIdle
    BY <1>8 DEF CloseAdmission, HoldForPublication, ReleaseHold, GateCall, queueVars
  <2> QED BY <2>1, IdleOwesNothing, OfferedStays
<1>9. ASSUME NEW g \in Gates, NEW p, SetPolicy(g, p) PROVE Offered'
  <2>1. /\ UNCHANGED <<laneQueues, runningByLane, runningCount, readyLanes, lock>> /\ LoopIdle
        /\ todo' = [op |-> "notify", of |-> g] /\ policy' = [policy EXCEPT ![g] = p]
    BY <1>9 DEF SetPolicy, queueVars
  <2>2. policy \in [Gates -> [parallel : ParallelLimits, queue : QueueLimits]] /\ FallbackLane \notin Gates
    BY DEF IInv, Typed, GatesTyped, BrokerAssumption
  <2>3. \A k \in Lanes : k # g => LaneRunningLimit(k)' = LaneRunningLimit(k)
    BY <2>1, <2>2 DEF LaneRunningLimit, Lanes
  <2>4. \A k : todo # [op |-> "notify", of |-> k]
    BY <2>1, IdleOwesNothing
  <2>5. Range(readyLanes)' = Range(readyLanes)
    BY <2>1 DEF Range
  <2>6. \A k \in Lanes : laneQueues'[k] # <<>> /\ runningByLane'[k] < LaneRunningLimit(k)' =>
          k \in Range(readyLanes)' \/ todo' = [op |-> "notify", of |-> k]
    BY <2>1, <2>3, <2>4, <2>5 DEF Offered
  <2>7. (lock = Unlocked)' => (readyLanes = <<>> \/ runningCount >= MaxWorkers)'
    BY <2>1 DEF Offered, Unlocked
  <2> QED BY <2>6, <2>7 DEF Offered
<1>10. CASE CloseBegin
  <2>1. readyLanes' = <<>> /\ \A l \in Lanes : laneQueues'[l] = <<>>
    BY <1>10 DEF CloseBegin
  <2> QED BY <2>1 DEF Offered
<1> QED BY <1>1, <1>2, <1>3, <1>4, <1>5, <1>6, <1>7, <1>8, <1>9, <1>10, <1>11 DEF Next

-----------------------------------------------------------------------------
(* A broker that closes retires its executor *)

\* Nothing is queued that was not queued before, in the same lane and scope.
QueueShrinks ==
  \A k \in Jobs : jobs'[k].state = "queued" =>
    /\ jobs[k].state = "queued" /\ jobs'[k].lane = jobs[k].lane
    /\ jobs'[k].allowClosed = jobs[k].allowClosed

\* A step on one job that does not queue it adds nothing to a queue.
LEMMA OneShrinks ==
  ASSUME JobsTyped, NEW j \in Jobs, NEW x, jobs' = [jobs EXCEPT ![j] = x],
         \/ x.state # "queued"
         \/ /\ x.state = jobs[j].state /\ x.lane = jobs[j].lane
            /\ x.allowClosed = jobs[j].allowClosed
  PROVE  QueueShrinks
<1>1. \A k \in Jobs : jobs'[k] = IF k = j THEN x ELSE jobs[k]
  BY DEF JobsTyped
<1> QED BY <1>1 DEF QueueShrinks

\* Only an admission adds a job to a queue.
LEMMA UnlessAdmitted ==
  ASSUME IInv, [Next]_vars, ~\E j \in Jobs, l \in Lanes, a \in Scopes : Admit(j, l, a)
  PROVE  QueueShrinks
<1>0. JobsTyped
  BY DEF IInv, Typed
<1>1. ASSUME UNCHANGED jobs PROVE QueueShrinks
  BY <1>1 DEF QueueShrinks
<1>2. CASE LockHolderStep
  <2>1. ASSUME NEW l \in Lanes, NEW j \in Jobs, DispatchCancelled(l, j) PROVE QueueShrinks
    BY <1>0, <2>1, RevokedRecord, OneShrinks DEF DispatchCancelled
  <2>2. ASSUME NEW l \in Lanes, NEW j \in Jobs, DispatchStart(l, j) PROVE QueueShrinks
    BY <1>0, <2>2, StartRecord, OneShrinks
  <2>3. ASSUME NEW l \in Lanes, NEW j \in Jobs, DispatchFailed(l, j) PROVE QueueShrinks
    BY <1>0, <2>3, FailedRecord, OneShrinks
  <2>4. ASSUME NEW i \in 1..Cardinality(Jobs), PurgeJob(i) PROVE QueueShrinks
    <3> DEFINE j == laneQueues[lock.of][i]
    <3>1. j \in Jobs /\ jobs' = [jobs EXCEPT ![j] = Revoked(@)]
      BY <2>4, PurgedJob DEF PurgeJob
    <3> HIDE DEF j
    <3> QED BY <1>0, <3>1, RevokedRecord, OneShrinks
  <2> QED BY <1>1, <1>2, <2>1, <2>2, <2>3, <2>4, QuietSteps DEF LockHolderStep, Quiet
<1>3. ASSUME NEW j \in Jobs, NEW l \in Lanes, NEW a \in Scopes, Reject(j, l, a) PROVE QueueShrinks
  BY <1>0, <1>3, RejectRecord, OneShrinks
<1>4. ASSUME NEW j \in Jobs, \/ WorkerStart(j) \/ WorkerComplete(j)
                             \/ \E o \in Endings : WorkerFinish(j, o)
      PROVE  QueueShrinks
  BY <1>0, <1>4, WorkerStartRecord, WorkerFinishRecord, CompleteRecord, OneShrinks
<1>5. ASSUME NEW j \in Jobs, ConsumerResumes(j) \/ Deliver(j) \/ RunScheduledCancel(j)
      PROVE  QueueShrinks
  BY ZenonT(60), <1>0, <1>5, ResumesRecord, DeliverRecord, ScheduledCancelRecord, OneShrinks
<1>6. ASSUME NEW j \in Jobs, ConsumerCancelled(j) PROVE QueueShrinks
  <2>1. CASE CancelQueued(j)
    BY <1>0, <2>1, CancelQueuedRecord, OneShrinks
  <2>2. CASE CancelPending(j)
    BY ZenonT(60), <1>0, <2>2, CancelPendingRecord, OneShrinks
  <2>3. CASE DetachRunning(j)
    BY <1>0, <2>3, DetachRunningRecord, OneShrinks
  <2>4. CASE CancelTerminal(j)
    BY <1>0, <2>4, CancelTerminalRecord, OneShrinks
  <2>5. CASE CancelCancelled(j)
    BY <1>0, <2>5, CancelCancelledRecord, OneShrinks
  <2> QED BY <1>6, <2>1, <2>2, <2>3, <2>4, <2>5 DEF ConsumerCancelled, CancelOrDetach
<1>7. CASE CloseBegin
  BY <1>0, <1>7, CloseRecords DEF QueueShrinks
<1>8. CASE \/ LoopOwes \/ CloseEnd \/ LoopDies \/ UNCHANGED vars
           \/ \E g \in Gates : CloseAdmission(g) \/ HoldForPublication(g) \/ ReleaseHold(g)
           \/ \E g \in Gates, p \in [parallel : ParallelLimits, queue : QueueLimits] : SetPolicy(g, p)
           \/ \E limit \in GlobalLimits : Configure(limit)
  BY <1>1, <1>8, QuietSteps DEF Quiet
<1> QED BY <1>2, <1>3, <1>4, <1>5, <1>6, <1>7, <1>8 DEF Next

\* A closed broker queues nothing, so its count of queued jobs is zero, and a
\* job that runs or awaits its delivery is counted.
LEMMA WhatIsLeft ==
  ASSUME IInv, Retired
  PROVE  /\ closed => queuedCount = 0
         /\ runningCount \in Nat /\ pendingDeliveryCount \in Nat /\ queuedCount \in Nat
         /\ \A j \in Jobs : jobs[j].state = "running" => runningCount # 0
         /\ \A j \in Jobs : jobs[j].deliveryPending => pendingDeliveryCount # 0
<1>1. /\ IsFiniteSet(RunningJobs) /\ IsFiniteSet(QueuedJobs) /\ IsFiniteSet(PendingJobs)
      /\ runningCount = Cardinality(RunningJobs) /\ queuedCount = Cardinality(QueuedJobs)
      /\ pendingDeliveryCount = Cardinality(PendingJobs)
  BY CountedFinite DEF IInv, RunningCounted, QueuedCounted, PendingCounted
<1>2. closed => QueuedJobs = {}
  BY DEF Retired, QueuedJobs
<1>3. /\ \A j \in Jobs : jobs[j].state = "running" => RunningJobs # {}
      /\ \A j \in Jobs : jobs[j].deliveryPending => PendingJobs # {}
  BY DEF RunningJobs, PendingJobs
<1> QED BY <1>1, <1>2, <1>3, FS_EmptySet, FS_CardinalityType

\* Steps that leave counters, executor and close alone
LEMMA RetiredStays ==
  ASSUME Retired, QueueShrinks,
         UNCHANGED <<runningCount, pendingDeliveryCount, closed, executor, closeCall>>,
         Retiring => Retiring'
  PROVE  Retired'
BY DEF Retired, QueueShrinks

\* Steps of a broker that is open
LEMMA OpenRetired ==
  ASSUME ~closed', executor' # "shutdown"
  PROVE  Retired'
BY DEF Retired

\* _take_drained_executor_locked
LEMMA TakesDrained ==
  ASSUME IInv, Retired, QueueShrinks, UNCHANGED <<closed, runningCount>>,
         pendingDeliveryCount' \in Int,
         executor = "shutdown" => pendingDeliveryCount' = 0,
         executor' = ExecutorAfter(queuedCount, runningCount, pendingDeliveryCount')
  PROVE  Retired'
<1>1. closed => queuedCount = 0
  BY WhatIsLeft
<1> QED BY <1>1 DEF Retired, QueueShrinks, ExecutorAfter

\* Every step keeps what is known of a retired executor and of close()'s drain.
LEMMA RetiredKept ==
  ASSUME IInv, Retired, [Next]_vars
  PROVE  Retired'
<1>0. CASE \E j \in Jobs, l \in Lanes, a \in Scopes : Admit(j, l, a)
  BY <1>0, OpenRetired DEF Retired, Admit, brokerVars
<1> SUFFICES ASSUME ~\E j \in Jobs, l \in Lanes, a \in Scopes : Admit(j, l, a)
             PROVE  Retired'
  BY <1>0
<1>1. QueueShrinks
  BY UnlessAdmitted
<1>2. CASE LockHolderStep
  <2>1. CASE DispatchSkip \/ PurgeDone \/ Settle \/ \E i \in 1..Cardinality(Jobs) : PurgeJob(i)
    <3>1. UNCHANGED <<runningCount, pendingDeliveryCount, closed, executor, closeCall>>
      BY <2>1 DEF DispatchSkip, PurgeDone, Settle, PurgeJob, brokerVars, queueVars
    <3>2. Retiring => Retiring'
      <4>1. CASE DispatchSkip \/ \E i \in 1..Cardinality(Jobs) : PurgeJob(i)
        BY <4>1 DEF DispatchSkip, PurgeJob, Retiring
      <4>2. CASE PurgeDone
        BY <4>2 DEF PurgeDone, Retiring
      <4>3. CASE Settle
        BY <4>3 DEF Settle, Retiring, Dispatching
      <4> QED BY <2>1, <4>1, <4>2, <4>3
    <3> QED BY <1>1, <3>1, <3>2, RetiredStays
  <2>2. ASSUME NEW l \in Lanes, NEW j \in Jobs, DispatchCancelled(l, j) PROVE Retired'
    BY <1>1, <2>2, RetiredStays DEF DispatchCancelled, brokerVars, Retiring
  <2>3. ASSUME NEW l \in Lanes, NEW j \in Jobs, NEW r, DispatchHead(l, j, r)
        PROVE  ~closed /\ executor # "shutdown"
    BY <2>3, DispatchedHead DEF Retired
  <2>4. ASSUME NEW l \in Lanes, NEW j \in Jobs, DispatchStart(l, j) PROVE Retired'
    BY <2>3, <2>4, OpenRetired DEF DispatchStart
  <2>5. ASSUME NEW l \in Lanes, NEW j \in Jobs, DispatchFailed(l, j) PROVE Retired'
    BY <2>3, <2>5, OpenRetired DEF DispatchFailed
  <2>6. CASE DispatchDone
    <3>1. UNCHANGED <<closed, closeCall, runningCount, pendingDeliveryCount, queuedCount>>
      BY <2>6 DEF DispatchDone, queueVars
    <3>2. pendingDeliveryCount \in Int
      BY DEF IInv, Typed, QueuesTyped
    <3>3. CASE lock.flag
      BY <1>1, <2>6, <3>1, <3>2, <3>3, TakesDrained DEF DispatchDone, Retired
    <3>4. CASE ~lock.flag
      <4>1. executor' = executor /\ ~Retiring
        BY <2>6, <3>4 DEF DispatchDone, Retiring
      <4> QED BY <1>1, <3>1, <4>1, RetiredStays
    <3> QED BY <3>3, <3>4
  <2> QED BY <1>2, <2>1, <2>2, <2>4, <2>5, <2>6 DEF LockHolderStep
<1>3. ASSUME NEW j \in Jobs, WorkerComplete(j) \/ CancelPending(j) PROVE Retired'
  <2>1. jobs[j].state = "running" /\ executor # "shutdown"
    BY <1>3, WhatIsLeft DEF WorkerComplete, ReturnedCallback, CancelPending, Retired
  <2>2. UNCHANGED <<closed, executor, closeCall>> /\ Retiring'
    BY <1>3 DEF WorkerComplete, CancelPending, brokerVars, Retiring, Dispatching
  <2> QED BY <1>1, <2>1, <2>2 DEF Retired, QueueShrinks
<1>4. ASSUME NEW j \in Jobs, Deliver(j) \/ CancelTerminal(j) PROVE Retired'
  <2>1. /\ UNCHANGED <<closed, runningCount>>
        /\ executor' = ExecutorAfter(queuedCount, runningCount, pendingDeliveryCount')
    BY <1>4 DEF Deliver, CancelTerminal, queueVars
  <2>2. pendingDeliveryCount \in Int
    BY DEF IInv, Typed, QueuesTyped
  <2>3. pendingDeliveryCount' \in Int
    BY <1>4, <2>2 DEF Deliver, CancelTerminal, DeliveriesLeft
  <2>4. executor = "shutdown" => pendingDeliveryCount = 0 /\ ~jobs[j].deliveryPending
    BY WhatIsLeft DEF Retired
  <2>5. executor = "shutdown" => pendingDeliveryCount' = 0
    BY <1>4, <2>4 DEF Deliver, CancelTerminal, DeliveriesLeft
  <2> QED BY <1>1, <2>1, <2>3, <2>5, TakesDrained
<1>5. CASE CloseEnd
  <2>1. UNCHANGED <<closed, runningCount, pendingDeliveryCount>>
    BY <1>5 DEF CloseEnd, queueVars
  <2>2. pendingDeliveryCount \in Int
    BY DEF IInv, Typed, QueuesTyped
  <2> QED BY <1>1, <1>5, <2>1, <2>2, TakesDrained DEF CloseEnd, Retired
<1>6. ASSUME NEW j \in Jobs, CancelQueued(j) PROVE Retired'
  BY <1>6, OpenRetired DEF Retired, CancelQueued, brokerVars
<1>7. CASE CloseBegin
  <2>1. \A k \in Jobs : jobs'[k].state # "queued"
    BY <1>7, CloseRecords DEF IInv, Typed
  <2>2. closed' /\ closeCall' = "waiting" /\ UNCHANGED <<executor, runningCount, pendingDeliveryCount>>
    BY <1>7 DEF CloseBegin
  <2> QED BY <2>1, <2>2 DEF Retired
<1>8. ASSUME UNCHANGED <<queueVars, pendingDeliveryCount, brokerVars, lock>> PROVE Retired'
  BY <1>1, <1>8, RetiredStays DEF queueVars, brokerVars, Retiring
<1>9. CASE LoopOwes
  <2>1. ASSUME NEW j \in Jobs, LoopDiscard(j) \/ LoopMark(j) PROVE Retired'
    BY <1>8, <2>1 DEF LoopDiscard, LoopMark
  <2>2. ASSUME NEW g \in Gates, LoopNotify(g) \/ LoopCloseGate(g) PROVE Retired'
    <3>1. lock = Unlocked
      BY <2>2 DEF LoopNotify, LoopCloseGate
    <3>2. ~Retiring
      BY <3>1 DEF Retiring, Unlocked
    <3>3. UNCHANGED <<runningCount, pendingDeliveryCount, closed, executor, closeCall>>
      BY <2>2 DEF LoopNotify, LoopCloseGate, queueVars, brokerVars
    <3> QED BY <1>1, <3>2, <3>3, RetiredStays
  <2> QED BY <1>9, <2>1, <2>2 DEF LoopOwes
<1>10. ASSUME NEW limit \in GlobalLimits, Configure(limit) PROVE Retired'
  <2>1. ~Retiring /\ UNCHANGED <<runningCount, pendingDeliveryCount, closed, executor, closeCall>>
    BY <1>10 DEF Configure, LoopCanLock, Retiring, Unlocked, queueVars
  <2> QED BY <1>1, <2>1, RetiredStays
<1>11. ASSUME NEW j \in Jobs, NEW l \in Lanes, NEW a \in Scopes, Reject(j, l, a) PROVE Retired'
  BY <1>1, <1>11, RetiredStays DEF Reject, brokerVars, Retiring
<1>12. ASSUME NEW j \in Jobs, \/ WorkerStart(j) \/ ConsumerResumes(j) \/ RunScheduledCancel(j)
                              \/ \E o \in Endings : WorkerFinish(j, o)
       PROVE  Retired'
  BY <1>8, <1>12 DEF WorkerStart, WorkerFinish, ConsumerResumes, RunScheduledCancel
<1>13. ASSUME NEW j \in Jobs, DetachRunning(j) \/ CancelCancelled(j) PROVE Retired'
  BY <1>8, <1>13 DEF DetachRunning, CancelCancelled
<1>14. CASE LoopDies \/ UNCHANGED vars
  BY <1>8, <1>14 DEF LoopDies, vars
<1>15. ASSUME NEW g \in Gates, \/ CloseAdmission(g) \/ HoldForPublication(g) \/ ReleaseHold(g)
                               \/ \E p : SetPolicy(g, p)
       PROVE  Retired'
  BY <1>8, <1>15 DEF CloseAdmission, HoldForPublication, ReleaseHold, GateCall, SetPolicy
<1>16. ASSUME NEW j \in Jobs, ConsumerCancelled(j) PROVE Retired'
  BY <1>3, <1>4, <1>6, <1>13, <1>16 DEF ConsumerCancelled, CancelOrDetach
<1> QED BY <1>2, <1>3, <1>4, <1>5, <1>7, <1>9, <1>10, <1>11, <1>12, <1>14, <1>15, <1>16 DEF Next

-----------------------------------------------------------------------------
(* A gate that closes queues nothing *)

\* Steps that neither close a gate nor forget that it is being closed
LEMMA ClosedStays ==
  ASSUME ClosedGateQueuesNothing, QueueShrinks, UNCHANGED gate,
         \A g \in Gates : todo = [op |-> "closeGate", of |-> g] => todo' = [op |-> "closeGate", of |-> g],
         lock.at = "purge" => UNCHANGED lock
  PROVE  ClosedGateQueuesNothing'
<1>1. \A g \in Gates : QueuedIn(g)' \subseteq QueuedIn(g)
  BY DEF QueueShrinks, QueuedIn
<1>2. \A g \in Gates : \A j \in QueuedIn(g)' : jobs'[j].allowClosed = jobs[j].allowClosed
  BY DEF QueueShrinks, QueuedIn
<1> QED BY <1>1, <1>2 DEF ClosedGateQueuesNothing

\* A loop thread with nothing under way has no gate left to close.
LEMMA IdleClosesNothing ==
  ASSUME LoopIdle
  PROVE  \A k : todo # [op |-> "closeGate", of |-> k]
BY DEF LoopIdle, Idle

\* No step queues an ordinary job of a gate that closed.
LEMMA ClosedKept ==
  ASSUME IInv, ClosedGateQueuesNothing, [Next]_vars
  PROVE  ClosedGateQueuesNothing'
<1>0. /\ JobsTyped /\ laneQueues \in [Lanes -> Seq(Jobs)]
      /\ gate \in [Gates -> {"open", "held", "closed"}]
      /\ \A l \in Lanes : Range(laneQueues[l]) = QueuedIn(l)
  BY DEF IInv, Typed, QueuesTyped, GatesTyped, QueuesHold
<1>1. ASSUME NEW j \in Jobs, NEW l \in Lanes, NEW a \in Scopes, Admit(j, l, a)
      PROVE  ClosedGateQueuesNothing'
  <2>1. PICK x : /\ jobs' = [jobs EXCEPT ![j] = x] /\ x.lane = l /\ x.allowClosed = a
    BY <1>0, <1>1, AdmitRecord
  <2>2. UNCHANGED <<gate, todo>> /\ lock.at # "purge" /\ MayCall(l, a)
    BY <1>1 DEF Admit, gateVars, LoopCanLock, Unlocked
  <2> SUFFICES ASSUME NEW g \in Gates, gate[g] # "open", todo # [op |-> "closeGate", of |-> g],
                      NEW k \in QueuedIn(g)'
               PROVE  jobs'[k].allowClosed
    BY <2>2 DEF ClosedGateQueuesNothing
  <2>3. CASE k = j
    <3>1. jobs'[k] = x /\ l = g
      BY <1>0, <2>1, <2>3 DEF JobsTyped, QueuedIn
    <3> QED BY <2>1, <2>2, <3>1 DEF MayCall
  <2>4. CASE k # j
    <3>1. jobs'[k] = jobs[k] /\ k \in QueuedIn(g)
      BY <1>0, <2>1, <2>4 DEF JobsTyped, QueuedIn
    <3> QED BY <2>2, <3>1 DEF ClosedGateQueuesNothing
  <2> QED BY <2>3, <2>4
<1> SUFFICES ASSUME ~\E j \in Jobs, l \in Lanes, a \in Scopes : Admit(j, l, a)
             PROVE  ClosedGateQueuesNothing'
  BY <1>1
<1>2. QueueShrinks
  BY UnlessAdmitted
<1>3. CASE PurgeDone
  <2>1. /\ lock.at = "purge" /\ lock.of \in Gates /\ lock.of \in Lanes /\ Purgeable(lock.of) = {}
        /\ UNCHANGED <<jobs, laneQueues, gate, todo>>
    BY <1>3 DEF PurgeDone, IInv, Linked, Lanes, gateVars
  <2>2. \A j \in QueuedIn(lock.of) : jobs[j].allowClosed
    <3> SUFFICES ASSUME NEW j \in QueuedIn(lock.of) PROVE jobs[j].allowClosed
      OBVIOUS
    <3>1. PICK i \in DOMAIN laneQueues[lock.of] : j = laneQueues[lock.of][i]
      BY <1>0, <2>1 DEF Range
    <3>2. i \in 1..Len(laneQueues[lock.of])
      BY <1>0, <2>1, <3>1, LenProperties
    <3> QED BY <2>1, <3>1, <3>2 DEF Purgeable
  <2>3. \A g \in Gates : QueuedIn(g)' = QueuedIn(g)
    BY <2>1 DEF QueuedIn
  <2> QED BY <2>1, <2>2, <2>3 DEF ClosedGateQueuesNothing
<1>4. ASSUME NEW g \in Gates, LoopCloseGate(g) PROVE ClosedGateQueuesNothing'
  <2>1. /\ UNCHANGED <<jobs, laneQueues, gate>> /\ todo = [op |-> "closeGate", of |-> g]
        /\ lock = Unlocked /\ g \in Lanes
        /\ lock' = IF laneQueues[g] = <<>> THEN Unlocked
                   ELSE [by |-> "loop", at |-> "purge", of |-> g, flag |-> FALSE]
    BY <1>4 DEF LoopCloseGate, LoopDoes, queueVars, gateVars, Lanes
  <2>2. lock.at # "purge" /\ \A k \in Gates \ {g} : todo # [op |-> "closeGate", of |-> k]
    BY <2>1 DEF Unlocked
  <2>3. \A k \in Gates \ {g} : gate[k] # "open" => \A j \in QueuedIn(k) : jobs[j].allowClosed
    BY <2>2 DEF ClosedGateQueuesNothing
  <2>4. (lock'.at = "purge" /\ lock'.of = g) \/ QueuedIn(g) = {}
    BY <1>0, <2>1, EmptyFacts
  <2>5. \A k \in Gates : QueuedIn(k)' = QueuedIn(k)
    BY <2>1 DEF QueuedIn
  <2> QED BY <2>1, <2>3, <2>4, <2>5 DEF ClosedGateQueuesNothing
<1>5. ASSUME NEW g \in Gates, CloseAdmission(g) \/ HoldForPublication(g) \/ ReleaseHold(g)
      PROVE  ClosedGateQueuesNothing'
  <2>1. /\ UNCHANGED <<jobs, lock>> /\ LoopIdle
        /\ \/ todo' = [op |-> "closeGate", of |-> g] /\ \A k \in Gates \ {g} : gate'[k] = gate[k]
           \/ gate' = [gate EXCEPT ![g] = "open"]
    BY <1>0, <1>5 DEF CloseAdmission, HoldForPublication, ReleaseHold, GateCall
  <2>2. \A k \in Gates \ {g} : gate'[k] = gate[k]
    BY <1>0, <2>1
  <2>3. \A k \in Gates : QueuedIn(k)' = QueuedIn(k)
    BY <2>1 DEF QueuedIn
  <2>4. gate'[g] = "open" \/ todo' = [op |-> "closeGate", of |-> g]
    BY <1>0, <2>1
  <2> QED BY <2>1, <2>2, <2>3, <2>4, IdleClosesNothing DEF ClosedGateQueuesNothing
<1>6. CASE LockHolderStep
  <2>1. UNCHANGED <<gate, todo>>
    BY <1>6 DEF LockHolderStep, DispatchSkip, DispatchCancelled, DispatchStart, DispatchFailed,
                DispatchDone, PurgeJob, PurgeDone, Settle, gateVars
  <2>2. lock.at = "purge" => UNCHANGED lock \/ PurgeDone
    BY <1>6 DEF LockHolderStep, DispatchSkip, DispatchCancelled, DispatchStart, DispatchFailed,
                DispatchDone, PurgeJob, Settle, DispatchHead, CanDispatch
  <2> QED BY SMTT(30), <1>2, <1>3, <2>1, <2>2, ClosedStays
<1>7. CASE LoopOwes
  <2>1. ASSUME NEW j \in Jobs, LoopDiscard(j) \/ LoopMark(j) PROVE ClosedGateQueuesNothing'
    <3>1. UNCHANGED <<gate, lock>> /\ \A k : todo # [op |-> "closeGate", of |-> k]
      BY <2>1 DEF LoopDiscard, LoopMark, LoopDoes, gateVars
    <3> QED BY <1>2, <3>1, ClosedStays
  <2>2. ASSUME NEW g \in Gates, LoopNotify(g) PROVE ClosedGateQueuesNothing'
    <3>1. UNCHANGED gate /\ lock.at # "purge" /\ \A k : todo # [op |-> "closeGate", of |-> k]
      BY <2>2 DEF LoopNotify, LoopDoes, gateVars, Unlocked
    <3> QED BY <1>2, <3>1, ClosedStays
  <2> QED BY <1>4, <1>7, <2>1, <2>2 DEF LoopOwes
<1>8. CASE \/ \E j \in Jobs, l \in Lanes, a \in Scopes : Reject(j, l, a)
           \/ \E j \in Jobs : WorkerStart(j) \/ \E o \in Endings : WorkerFinish(j, o)
           \/ \E j \in Jobs : ConsumerResumes(j) \/ RunScheduledCancel(j)
           \/ CloseBegin \/ CloseEnd \/ LoopDies \/ UNCHANGED vars
  <2>1. UNCHANGED <<gate, lock, todo>>
    <3>1. CASE \E j \in Jobs, l \in Lanes, a \in Scopes : Reject(j, l, a)
      BY <3>1 DEF Reject, gateVars
    <3>2. CASE \E j \in Jobs : WorkerStart(j) \/ \E o \in Endings : WorkerFinish(j, o)
      BY <3>2 DEF WorkerStart, WorkerFinish, gateVars
    <3>3. CASE \E j \in Jobs : ConsumerResumes(j) \/ RunScheduledCancel(j)
      BY <3>3 DEF ConsumerResumes, RunScheduledCancel, gateVars
    <3>4. CASE CloseBegin \/ CloseEnd \/ LoopDies \/ UNCHANGED vars
      BY <3>4 DEF CloseBegin, CloseEnd, LoopDies, vars, gateVars
    <3> QED BY <1>8, <3>1, <3>2, <3>3, <3>4
  <2> QED BY <1>2, <2>1, ClosedStays
<1>9. ASSUME NEW j \in Jobs, WorkerComplete(j) PROVE ClosedGateQueuesNothing'
  <2>1. UNCHANGED <<gate, todo>> /\ lock.at # "purge"
    BY <1>9 DEF WorkerComplete, gateVars, Unlocked
  <2> QED BY <1>2, <2>1, ClosedStays
<1>10. ASSUME NEW limit \in GlobalLimits, Configure(limit) PROVE ClosedGateQueuesNothing'
  <2>1. UNCHANGED <<gate, todo>> /\ lock.at # "purge"
    BY <1>10 DEF Configure, LoopCanLock, gateVars, Unlocked
  <2> QED BY <1>2, <2>1, ClosedStays
<1>11. ASSUME NEW j \in Jobs, Deliver(j) \/ ConsumerCancelled(j) PROVE ClosedGateQueuesNothing'
  <2>1. UNCHANGED gate
    BY <1>11 DEF Deliver, ConsumerCancelled, CancelOrDetach, CancelQueued, CancelPending,
                 DetachRunning, CancelTerminal, CancelCancelled, gateVars
  <2>2. lock.at # "purge" /\ LoopIdle
    BY <1>11 DEF Deliver, ConsumerCancelled, LoopCanLock, Unlocked
  <2> QED BY <1>2, <2>1, <2>2, ClosedStays, IdleClosesNothing
<1>12. ASSUME NEW g \in Gates, NEW p, SetPolicy(g, p) PROVE ClosedGateQueuesNothing'
  <2>1. UNCHANGED <<gate, lock>> /\ LoopIdle
    BY <1>12 DEF SetPolicy
  <2> QED BY <1>2, <2>1, ClosedStays, IdleClosesNothing
<1> QED BY <1>5, <1>6, <1>7, <1>8, <1>9, <1>10, <1>11, <1>12 DEF Next

-----------------------------------------------------------------------------
(* A gate tracks what runs in it *)

\* A step on one job is right for all futures when it is right for that job's.
LEMMA OneTracked ==
  ASSUME Tracks, JobsTyped, NEW j \in Jobs, NEW x, jobs' = [jobs EXCEPT ![j] = x],
         Tracked(j, x, syncFutures', todo'),
         \A k \in Jobs \ {j} : \A g \in Gates : k \in syncFutures'[g] <=> k \in syncFutures[g],
         \A k \in Jobs \ {j} : todo' = [op |-> "discard", of |-> k] <=> todo = [op |-> "discard", of |-> k]
  PROVE  Tracks'
<1> SUFFICES ASSUME NEW k \in Jobs
             PROVE  Tracked(k, jobs'[k], syncFutures', todo')
  BY DEF Tracks
<1>1. CASE k = j
  BY <1>1 DEF JobsTyped
<1>2. CASE k # j
  <2>1. jobs'[k] = jobs[k] /\ Tracked(k, jobs[k], syncFutures, todo)
    BY <1>2 DEF JobsTyped, Tracks
  <2> QED BY <1>2, <2>1 DEF Tracked
<1> QED BY <1>1, <1>2

\* Steps that leave records and futures alone
LEMMA TracksStays ==
  ASSUME Tracks, UNCHANGED <<jobs, syncFutures>>,
         \A k \in Jobs : todo' = [op |-> "discard", of |-> k] <=> todo = [op |-> "discard", of |-> k]
  PROVE  Tracks'
<1> SUFFICES ASSUME NEW k \in Jobs
             PROVE  Tracked(k, jobs'[k], syncFutures', todo')
  BY DEF Tracks
<1> QED BY DEF Tracks, Tracked

\* A job that neither runs nor has finished is tracked nowhere.
LEMMA Untracked ==
  ASSUME IInv, Tracks, NEW j \in Jobs, jobs[j].state \notin {"running", "terminal"}
  PROVE  /\ \A g \in Gates : j \notin syncFutures[g]
         /\ todo # [op |-> "discard", of |-> j]
         /\ ~jobs[j].deliveryPending
<1>1. Tracked(j, jobs[j], syncFutures, todo) /\ ~jobs[j].deliveryPending
  BY JobIsSound DEF Tracks
<1> QED BY <1>1 DEF Tracked

\* A job that stays untracked
LEMMA StaysUntracked ==
  ASSUME IInv, Tracks, NEW j \in Jobs, jobs[j].state \notin {"running", "terminal"},
         UNCHANGED <<syncFutures, todo>>, NEW x, jobs' = [jobs EXCEPT ![j] = x],
         x.state # "running", x.deliveryPending => x.fut = "none"
  PROVE  Tracks'
<1>1. JobsTyped /\ Tracked(j, x, syncFutures', todo')
  BY Untracked DEF Tracked, IInv, Typed
<1> QED BY <1>1, OneTracked

\* What discarding a future leaves in the gates
LEMMA Discarded ==
  ASSUME GatesTyped, NEW j \in Jobs, Discard(j), Tracked(j, jobs[j], syncFutures, todo)
  PROVE  /\ \A g \in Gates : j \notin syncFutures'[g]
         /\ \A k \in Jobs \ {j} : \A g \in Gates : k \in syncFutures'[g] <=> k \in syncFutures[g]
<1>0. syncFutures \in [Gates -> SUBSET Jobs]
  BY DEF GatesTyped
<1>1. CASE IsGated(j) /\ j \in syncFutures[jobs[j].lane]
  <2>1. syncFutures' = [syncFutures EXCEPT ![jobs[j].lane] = @ \ {j}] /\ jobs[j].lane \in Gates
    BY <1>1 DEF Discard, Untrack, IsGated
  <2>2. \A g \in Gates : j \in syncFutures[g] => jobs[j].lane = g
    BY DEF Tracked
  <2>3. \A g \in Gates : syncFutures'[g] = IF g = jobs[j].lane THEN syncFutures[g] \ {j} ELSE syncFutures[g]
    BY <1>0, <2>1
  <2> QED BY <2>2, <2>3
<1>2. CASE ~(IsGated(j) /\ j \in syncFutures[jobs[j].lane])
  <2>1. UNCHANGED syncFutures
    BY <1>2 DEF Discard, trackVars
  <2>2. \A g \in Gates : j \notin syncFutures[g]
    BY <1>2 DEF Tracked, IsGated
  <2> QED BY <2>1, <2>2
<1> QED BY <1>1, <1>2

\* A loop thread with nothing under way has no future left to discard.
LEMMA IdleDiscardsNothing ==
  ASSUME LoopIdle
  PROVE  \A k : todo # [op |-> "discard", of |-> k]
BY DEF LoopIdle, Idle

\* Submissions and dispatches
LEMMA QueueTracks ==
  ASSUME BrokerAssumption, IInv, Fates, Tracks, NEW j \in Jobs,
         \/ \E l \in Lanes, a \in Scopes : Admit(j, l, a) \/ Reject(j, l, a)
         \/ \E l \in Lanes : DispatchCancelled(l, j) \/ DispatchStart(l, j) \/ DispatchFailed(l, j)
         \/ /\ jobs[j].state = "queued" /\ jobs' = [jobs EXCEPT ![j] = Revoked(@)]
            /\ UNCHANGED <<syncFutures, todo>>
         \/ CancelQueued(j) \/ CancelCancelled(j)
  PROVE  Tracks'
<1>0. /\ JobsTyped /\ GatesTyped /\ Fate(j, jobs[j], fatalErrors, cancelCalls)
      /\ jobs[j].deliveryPending => jobs[j].state = "terminal"
  BY JobIsSound DEF IInv, Typed, Fates
<1>1. ASSUME NEW l \in Lanes, NEW a \in Scopes, Admit(j, l, a) PROVE Tracks'
  <2>1. jobs[j].state = "new" /\ UNCHANGED <<syncFutures, todo>>
    BY <1>1 DEF Admit, trackVars
  <2> QED BY <1>0, <1>1, <2>1, AdmitRecord, StaysUntracked
<1>2. ASSUME NEW l \in Lanes, NEW a \in Scopes, Reject(j, l, a) PROVE Tracks'
  <2>1. jobs[j].state = "new" /\ UNCHANGED <<syncFutures, todo>>
    BY <1>2 DEF Reject, trackVars
  <2> QED BY <1>0, <1>2, <2>1, RejectRecord, StaysUntracked
<1>3. ASSUME jobs[j].state = "queued", jobs' = [jobs EXCEPT ![j] = Revoked(@)],
             UNCHANGED <<syncFutures, todo>>
      PROVE  Tracks'
  <2>1. PICK x : /\ jobs' = [jobs EXCEPT ![j] = x] /\ x.state = "cancelled"
                 /\ x.deliveryPending = jobs[j].deliveryPending
    BY ZenonT(60), <1>0, <1>3, RevokedRecord
  <2>2. x.state # "running" /\ ~x.deliveryPending /\ jobs[j].state \notin {"running", "terminal"}
    BY <1>0, <1>3, <2>1
  <2> QED BY <1>3, <2>1, <2>2, StaysUntracked
<1>4. ASSUME NEW l \in Lanes, DispatchCancelled(l, j) PROVE Tracks'
  <2>1. jobs[j].state = "queued"
    BY <1>4, DispatchedHead DEF DispatchCancelled
  <2> QED BY <1>3, <1>4, <2>1 DEF DispatchCancelled, trackVars
<1>5. ASSUME NEW l \in Lanes, DispatchStart(l, j) PROVE Tracks'
  <2>1. PICK x : /\ jobs' = [jobs EXCEPT ![j] = x] /\ x.state = "running" /\ x.lane = jobs[j].lane
    BY <1>0, <1>5, StartRecord
  <2>2. /\ jobs[j].state = "queued" /\ jobs[j].lane = l /\ UNCHANGED todo
        /\ syncFutures' = IF l \in Gates THEN [syncFutures EXCEPT ![l] = @ \cup {j}] ELSE syncFutures
    BY <1>5, DispatchedHead DEF DispatchStart
  <2>3. (\A g \in Gates : j \notin syncFutures[g]) /\ todo # [op |-> "discard", of |-> j]
    BY <2>2, Untracked
  <2>4. \A g \in Gates : syncFutures'[g] = IF g = l THEN syncFutures[g] \cup {j} ELSE syncFutures[g]
    BY <1>0, <2>2 DEF GatesTyped
  <2>5. Tracked(j, x, syncFutures', todo')
    BY SMTT(30), <2>1, <2>2, <2>3, <2>4 DEF Tracked
  <2>6. \A k \in Jobs \ {j} : \A g \in Gates : k \in syncFutures'[g] <=> k \in syncFutures[g]
    BY <2>4
  <2> QED BY <1>0, <2>1, <2>2, <2>5, <2>6, OneTracked
<1>6. ASSUME NEW l \in Lanes, DispatchFailed(l, j) PROVE Tracks'
  <2>1. PICK x : /\ jobs' = [jobs EXCEPT ![j] = x] /\ x.state = "terminal" /\ x.fut = jobs[j].fut
    BY <1>0, <1>6, FailedRecord
  <2>2. jobs[j].state = "queued" /\ UNCHANGED <<syncFutures, todo>>
    BY <1>6, DispatchedHead DEF DispatchFailed, trackVars
  <2>3. jobs[j].fut = "none"
    BY <1>0, <2>2 DEF Fate
  <2> QED BY <2>1, <2>2, <2>3, StaysUntracked
<1>7. ASSUME CancelQueued(j) PROVE Tracks'
  <2>1. jobs[j].state = "queued" /\ UNCHANGED <<syncFutures, todo>>
    BY <1>7 DEF CancelQueued, trackVars
  <2> QED BY ZenonT(60), <1>0, <1>7, <2>1, CancelQueuedRecord, StaysUntracked
<1>8. ASSUME CancelCancelled(j) PROVE Tracks'
  <2>1. jobs[j].state = "cancelled" /\ UNCHANGED <<syncFutures, todo>>
    BY <1>8 DEF CancelCancelled, trackVars
  <2> QED BY <1>0, <1>8, <2>1, CancelCancelledRecord, StaysUntracked
<1> QED BY <1>1, <1>2, <1>3, <1>4, <1>5, <1>6, <1>7, <1>8

\* Callbacks that run, end, are delivered or are cancelled
LEMMA RunTracks ==
  ASSUME BrokerAssumption, IInv, Fates, Tracks, NEW j \in Jobs,
         \/ WorkerStart(j) \/ WorkerComplete(j) \/ \E o \in Endings : WorkerFinish(j, o)
         \/ (LoopIdle /\ (CancelPending(j) \/ DetachRunning(j) \/ CancelTerminal(j)))
         \/ ConsumerResumes(j) \/ Deliver(j) \/ RunScheduledCancel(j)
  PROVE  Tracks'
<1>0. /\ JobsTyped /\ GatesTyped /\ Fate(j, jobs[j], fatalErrors, cancelCalls)
      /\ (jobs[j].deliveryPending => jobs[j].state = "terminal")
      /\ Tracked(j, jobs[j], syncFutures, todo)
  BY JobIsSound DEF IInv, Typed, Fates, Tracks
<1>1. ASSUME NEW x, jobs' = [jobs EXCEPT ![j] = x], UNCHANGED <<syncFutures, todo>>,
             x.state = jobs[j].state, x.lane = jobs[j].lane,
             x.deliveryPending = jobs[j].deliveryPending,
             x.deliveryPending => (x.fut = "none" <=> jobs[j].fut = "none")
      PROVE  Tracks'
  <2>1. Tracked(j, x, syncFutures', todo')
    BY <1>0, <1>1 DEF Tracked
  <2> QED BY <1>0, <1>1, <2>1, OneTracked
<1>2. ASSUME WorkerStart(j) PROVE Tracks'
  <2>1. PICK x : /\ jobs' = [jobs EXCEPT ![j] = x] /\ x.state = jobs[j].state
                 /\ x.lane = jobs[j].lane /\ x.fut = "running"
                 /\ x.deliveryPending = jobs[j].deliveryPending
    BY <1>0, <1>2, WorkerStartRecord
  <2>2. jobs[j].fut = "pending" /\ UNCHANGED <<syncFutures, todo>>
    BY <1>2 DEF WorkerStart, trackVars
  <2> QED BY <1>1, <2>1, <2>2
<1>3. ASSUME NEW o \in Endings, WorkerFinish(j, o) PROVE Tracks'
  <2>1. PICK x : /\ jobs' = [jobs EXCEPT ![j] = x] /\ x.state = jobs[j].state
                 /\ x.lane = jobs[j].lane /\ x.fut = "done"
                 /\ x.deliveryPending = jobs[j].deliveryPending
    BY <1>0, <1>3, WorkerFinishRecord
  <2>2. jobs[j].fut = "running" /\ UNCHANGED <<syncFutures, todo>>
    BY <1>3 DEF WorkerFinish, trackVars
  <2> QED BY <1>1, <2>1, <2>2
<1>4. ASSUME WorkerComplete(j) PROVE Tracks'
  <2> DEFINE direct == jobs[j].detached \/ ~loopAlive
             l == jobs[j].lane
  <2>0. direct = (jobs[j].detached \/ ~loopAlive)
    OBVIOUS
  <2>a. IF direct /\ l \in Gates /\ j \in syncFutures[l]
        THEN syncFutures' = [syncFutures EXCEPT ![l] = @ \ {j}] ELSE UNCHANGED syncFutures
    BY <1>4 DEF WorkerComplete, Untrack, IsGated
  <2> HIDE DEF direct, l
  <2>1. PICK x : /\ jobs' = [jobs EXCEPT ![j] = x] /\ x.state = "terminal" /\ x.lane = l
                 /\ x.fut = jobs[j].fut /\ x.deliveryPending = ~direct
    BY <1>0, <1>4, <2>0, CompleteRecord DEF l
  <2>2. /\ jobs[j].state = "running" /\ jobs[j].fut = "done" /\ UNCHANGED todo
        /\ todo # [op |-> "discard", of |-> j]
    BY <1>0, <1>4 DEF WorkerComplete, ReturnedCallback, Tracked
  <2>3. \A g \in Gates : j \in syncFutures[g] <=> l = g
    BY <1>0, <2>2 DEF Tracked, l
  <2>4. \A g \in Gates : syncFutures'[g] = IF direct /\ g = l THEN syncFutures[g] \ {j} ELSE syncFutures[g]
    <3>1. CASE direct /\ l \in Gates
      <4>1. syncFutures' = [syncFutures EXCEPT ![l] = @ \ {j}]
        BY <2>a, <2>3, <3>1
      <4> QED BY <1>0, <3>1, <4>1 DEF GatesTyped
    <3>2. CASE ~(direct /\ l \in Gates)
      BY <2>a, <3>2
    <3> QED BY <3>1, <3>2
  <2>5. \A k \in Jobs \ {j} : \A g \in Gates : k \in syncFutures'[g] <=> k \in syncFutures[g]
    BY <2>4
  <2>6. \A g \in Gates : j \in syncFutures'[g] <=> l = g /\ ~direct
    BY <2>3, <2>4
  <2>7. Tracked(j, x, syncFutures', todo')
    BY <2>1, <2>2, <2>6 DEF Tracked
  <2> QED BY <1>0, <2>1, <2>2, <2>5, <2>7, OneTracked
<1>5. ASSUME LoopIdle, CancelPending(j) PROVE Tracks'
  <2>1. PICK x : /\ jobs' = [jobs EXCEPT ![j] = x] /\ x.state = "terminal"
                 /\ x.deliveryPending = jobs[j].deliveryPending
    BY ZenonT(60), <1>0, <1>5, CancelPendingRecord
  <2>2. jobs[j].state = "running" /\ Discard(j) /\ todo' = [op |-> "mark", of |-> j]
    BY <1>5 DEF CancelPending
  <2>3. /\ \A g \in Gates : j \notin syncFutures'[g]
        /\ \A k \in Jobs \ {j} : \A g \in Gates : k \in syncFutures'[g] <=> k \in syncFutures[g]
    BY <1>0, <2>2, Discarded
  <2>4. \A k : todo' # [op |-> "discard", of |-> k] /\ todo # [op |-> "discard", of |-> k]
    BY <1>5, <2>2, IdleDiscardsNothing
  <2>5. Tracked(j, x, syncFutures', todo')
    BY <1>0, <2>1, <2>2, <2>3, <2>4 DEF Tracked
  <2> QED BY <1>0, <2>1, <2>3, <2>4, <2>5, OneTracked
<1>6. ASSUME LoopIdle, DetachRunning(j) PROVE Tracks'
  <2>1. PICK x : /\ jobs' = [jobs EXCEPT ![j] = x] /\ x.state = jobs[j].state
                 /\ x.lane = jobs[j].lane /\ x.fut = jobs[j].fut
                 /\ x.deliveryPending = jobs[j].deliveryPending
    BY ZenonT(60), <1>0, <1>6, DetachRunningRecord
  <2>2. UNCHANGED syncFutures /\ todo' \in {todo, [op |-> "mark", of |-> j]}
    BY <1>6 DEF DetachRunning, trackVars
  <2>3. \A k : todo' # [op |-> "discard", of |-> k] /\ todo # [op |-> "discard", of |-> k]
    BY <1>6, <2>2, IdleDiscardsNothing
  <2>4. Tracked(j, x, syncFutures', todo')
    BY <1>0, <2>1, <2>2, <2>3 DEF Tracked
  <2> QED BY <1>0, <2>1, <2>2, <2>3, <2>4, OneTracked
<1>7. ASSUME LoopIdle, CancelTerminal(j) \/ Deliver(j) PROVE Tracks'
  <2>1. PICK x : /\ jobs' = [jobs EXCEPT ![j] = x] /\ x.state = jobs[j].state
                 /\ x.lane = jobs[j].lane /\ x.fut = jobs[j].fut
                 /\ x.deliveryPending = FALSE
    BY <1>0, <1>7, CancelTerminalRecord, DeliverRecord
  <2>2. /\ jobs[j].state = "terminal" /\ UNCHANGED syncFutures
        /\ todo' = IF jobs[j].deliveryPending /\ jobs[j].fut # "none"
                   THEN [op |-> "discard", of |-> j] ELSE todo
    BY <1>0, <1>7 DEF CancelTerminal, Deliver, TakeOverFuture, trackVars
  <2>3. \A k : todo # [op |-> "discard", of |-> k]
    BY <1>7, IdleDiscardsNothing
  <2>4. \A k \in Jobs \ {j} : todo' # [op |-> "discard", of |-> k]
    BY <2>2, <2>3
  <2>5. todo' = [op |-> "discard", of |-> j] <=> jobs[j].deliveryPending /\ jobs[j].fut # "none"
    BY <2>2, <2>3
  <2>6. Tracked(j, x, syncFutures', todo')
    BY <1>0, <2>1, <2>2, <2>3, <2>5 DEF Tracked
  <2> QED BY <1>0, <2>1, <2>2, <2>3, <2>4, <2>6, OneTracked
<1>8. ASSUME ConsumerResumes(j) \/ RunScheduledCancel(j) PROVE Tracks'
  <2>1. PICK x : /\ jobs' = [jobs EXCEPT ![j] = x] /\ x.state = jobs[j].state
                 /\ x.lane = jobs[j].lane /\ x.fut = jobs[j].fut
                 /\ x.deliveryPending = jobs[j].deliveryPending
    BY <1>0, <1>8, ResumesRecord, ScheduledCancelRecord
  <2>2. UNCHANGED <<syncFutures, todo>>
    BY <1>8 DEF ConsumerResumes, RunScheduledCancel, trackVars
  <2> QED BY <1>1, <2>1, <2>2
<1> QED BY <1>2, <1>3, <1>4, <1>5, <1>6, <1>7, <1>8 DEF Deliver, LoopCanLock

\* Every step keeps the tracked futures those somebody will still discard.
LEMMA TracksKept ==
  ASSUME BrokerAssumption, IInv, Fates, Tracks, [Next]_vars
  PROVE  Tracks'
<1>1. ASSUME UNCHANGED <<jobs, syncFutures, todo>> PROVE Tracks'
  BY <1>1, TracksStays
<1>2. CASE LockHolderStep
  <2>1. ASSUME NEW i \in 1..Cardinality(Jobs), PurgeJob(i) PROVE Tracks'
    <3> DEFINE j == laneQueues[lock.of][i]
    <3>1. j \in Jobs /\ jobs[j].state = "queued"
      BY <2>1, PurgedJob
    <3>2. jobs' = [jobs EXCEPT ![j] = Revoked(@)] /\ UNCHANGED <<syncFutures, todo>>
      BY <2>1 DEF PurgeJob, trackVars
    <3> HIDE DEF j
    <3> QED BY <3>1, <3>2, QueueTracks
  <2>2. CASE DispatchSkip \/ DispatchDone \/ PurgeDone \/ Settle
    BY <1>1, <2>2 DEF DispatchSkip, DispatchDone, PurgeDone, Settle, trackVars
  <2> QED BY <1>2, <2>1, <2>2, QueueTracks DEF LockHolderStep
<1>3. CASE LoopOwes
  <2>1. ASSUME NEW j \in Jobs, LoopDiscard(j) PROVE Tracks'
    <3>1. /\ UNCHANGED jobs /\ Discard(j) /\ todo = [op |-> "discard", of |-> j]
          /\ todo' = Idle
      BY <2>1 DEF LoopDiscard, LoopDoes
    <3>2. Tracked(j, jobs[j], syncFutures, todo) /\ GatesTyped /\ JobsTyped
      BY DEF Tracks, IInv, Typed
    <3>3. /\ \A g \in Gates : j \notin syncFutures'[g]
          /\ \A k \in Jobs \ {j} : \A g \in Gates : k \in syncFutures'[g] <=> k \in syncFutures[g]
      BY <3>1, <3>2, Discarded
    <3>4. /\ \A k : todo' # [op |-> "discard", of |-> k]
          /\ \A k \in Jobs \ {j} : todo # [op |-> "discard", of |-> k]
      BY <3>1 DEF Idle
    <3>5. Tracked(j, jobs[j], syncFutures', todo')
      BY <3>1, <3>2, <3>3, <3>4 DEF Tracked
    <3>6. jobs' = [jobs EXCEPT ![j] = jobs[j]]
      BY <3>1, <3>2 DEF JobsTyped
    <3> QED BY <3>2, <3>3, <3>4, <3>5, <3>6, OneTracked
  <2>2. ASSUME NEW g, \/ g \in Jobs /\ LoopMark(g)
                      \/ g \in Gates /\ (LoopNotify(g) \/ LoopCloseGate(g))
        PROVE  Tracks'
    <3>1. UNCHANGED <<jobs, syncFutures>>
      BY <2>2 DEF LoopMark, LoopNotify, LoopCloseGate, trackVars
    <3>2. todo' = Idle /\ \E op \in {"mark", "notify", "closeGate"} : todo = [op |-> op, of |-> g]
      BY <2>2 DEF LoopMark, LoopNotify, LoopCloseGate, LoopDoes
    <3>3. \A k : todo' # [op |-> "discard", of |-> k] /\ todo # [op |-> "discard", of |-> k]
      BY <3>2 DEF Idle
    <3> QED BY <3>1, <3>3, TracksStays
  <2> QED BY <1>3, <2>1, <2>2 DEF LoopOwes
<1>4. CASE \E j \in Jobs, l \in Lanes, a \in Scopes : Admit(j, l, a) \/ Reject(j, l, a)
  BY <1>4, QueueTracks
<1>5. CASE \E j \in Jobs : \/ WorkerStart(j) \/ WorkerComplete(j)
                           \/ \E o \in Endings : WorkerFinish(j, o)
                           \/ ConsumerResumes(j) \/ Deliver(j) \/ RunScheduledCancel(j)
  BY <1>5, RunTracks
<1>6. CASE \E j \in Jobs : ConsumerCancelled(j)
  BY <1>6, RunTracks, QueueTracks DEF ConsumerCancelled, CancelOrDetach, LoopCanLock
<1>7. CASE CloseBegin
  <2> SUFFICES ASSUME NEW k \in Jobs
               PROVE  Tracked(k, jobs'[k], syncFutures', todo')
    BY DEF Tracks
  <2>1. UNCHANGED <<syncFutures, todo>> /\ JobsTyped /\ Tracked(k, jobs[k], syncFutures, todo)
    BY <1>7 DEF CloseBegin, trackVars, IInv, Typed, Tracks
  <2>2. CASE jobs[k].state = "queued"
    <3>1. /\ \A g \in Gates : k \notin syncFutures[g]
          /\ todo # [op |-> "discard", of |-> k] /\ ~jobs[k].deliveryPending
      BY <2>2, Untracked
    <3>2. jobs'[k].state = "cancelled" /\ jobs'[k].deliveryPending = jobs[k].deliveryPending
      BY <1>7, <2>1, <2>2, CloseRecords
    <3> QED BY <2>1, <3>1, <3>2 DEF Tracked
  <2>3. CASE jobs[k].state # "queued"
    BY <1>7, <2>1, <2>3, CloseRecords
  <2> QED BY <2>2, <2>3
<1>8. ASSUME NEW g \in Gates, \/ CloseAdmission(g) \/ HoldForPublication(g) \/ ReleaseHold(g)
                              \/ \E p : SetPolicy(g, p)
      PROVE  Tracks'
  <2>1. /\ UNCHANGED <<jobs, syncFutures>> /\ LoopIdle
        /\ \A k : todo' # [op |-> "discard", of |-> k]
    BY <1>8 DEF CloseAdmission, HoldForPublication, ReleaseHold, GateCall, SetPolicy, trackVars
  <2> QED BY <2>1, IdleDiscardsNothing, TracksStays
<1>9. CASE \/ CloseEnd \/ LoopDies \/ UNCHANGED vars
           \/ \E limit \in GlobalLimits : Configure(limit)
  BY <1>1, <1>9 DEF CloseEnd, LoopDies, vars, Configure, trackVars
<1> QED BY <1>2, <1>3, <1>4, <1>5, <1>6, <1>7, <1>8, <1>9 DEF Next

-----------------------------------------------------------------------------
(* The theorems *)

\* What a broker starts with
LEMMA InitControl ==
  ASSUME BrokerAssumption, Init
  PROVE  CInv
<1>1. \A j \in Jobs : jobs[j] = NewJob
  BY DEF Init
<1>2. \A j \in Jobs : /\ jobs[j].state = "new" /\ jobs[j].lane = NoOne /\ jobs[j].fut = "none"
                      /\ jobs[j].outcome = "none" /\ jobs[j].detached = FALSE
                      /\ jobs[j].deliveryPending = FALSE /\ jobs[j].completion = "pending"
                      /\ jobs[j].consumer = "none"
  BY <1>1 DEF NewJob
<1>3. /\ fatalErrors = {} /\ cancelCalls = {} /\ closed = FALSE /\ executor = "none"
      /\ readyLanes = <<>> /\ todo = Idle
      /\ \A l \in Lanes : laneQueues[l] = <<>>
      /\ \A g \in Gates : syncFutures[g] = {} /\ NoOne # g
  BY DEF Init, BrokerAssumption
<1>4. Fates
  BY <1>2, <1>3 DEF Fates, Fate
<1>5. Tracks
  BY <1>2, <1>3 DEF Tracks, Tracked, Idle
<1>6. ClosedGateQueuesNothing
  BY <1>2 DEF ClosedGateQueuesNothing, QueuedIn
<1>7. Retired
  BY <1>3 DEF Retired
<1>8. Offered
  BY <1>3 DEF Offered
<1> QED BY <1>4, <1>5, <1>6, <1>7, <1>8 DEF CInv

\* The two invariants together hold in every reachable state: what a job's
\* record says of its fate, what the gates track, what a closed gate or broker
\* still holds, and which lanes are offered.
THEOREM Control == Spec => [](IInv /\ CInv)
<1>1. Init => IInv /\ CInv
  BY BrokerAssumption, InitInvariant, InitControl
<1>2. IInv /\ CInv /\ [Next]_vars => IInv' /\ CInv'
  <2> SUFFICES ASSUME IInv, CInv, [Next]_vars PROVE IInv' /\ CInv'
    OBVIOUS
  <2>1. Fates /\ Tracks /\ ClosedGateQueuesNothing /\ Retired /\ Offered
    BY DEF CInv
  <2>2. IInv' /\ Fates' /\ Tracks' /\ ClosedGateQueuesNothing' /\ Retired' /\ Offered'
    BY <2>1, BrokerAssumption, NextInvariant, FatesKept, TracksKept, ClosedKept, RetiredKept,
       OfferedKept
  <2> QED BY <2>2 DEF CInv
<1> QED BY <1>1, <1>2, PTL DEF Spec

\* No wakeup is lost, for every number of jobs, gates and workers: with the lock
\* free, a lane with work waits only for a worker or for its own limit
\* (_queue_lane_locked is called wherever a slot, a limit or a queue changed).
THEOREM NoWakeupLost == Spec => []NoLostWakeup
<1>1. IInv /\ CInv => NoLostWakeup
  <2> SUFFICES ASSUME IInv, CInv, lock = Unlocked, NEW l \in Lanes, laneQueues[l] # <<>>,
                      SlotFree(l), todo # [op |-> "notify", of |-> l]
               PROVE  FALSE
    BY DEF NoLostWakeup
  <2>1. runningCount < MaxWorkers /\ runningByLane[l] < LaneRunningLimit(l)
    BY DEF SlotFree
  <2>2. runningCount \in Int /\ MaxWorkers \in Int
    BY BrokerAssumption DEF IInv, Typed, QueuesTyped
  <2>3. l \in Range(readyLanes) /\ readyLanes = <<>>
    BY <2>1, <2>2 DEF CInv, Offered
  <2> QED BY <2>3, EmptyFacts DEF IInv, Typed, QueuesTyped
<1> QED BY <1>1, Control, PTL

\* Of three flags of which exactly one is set, one is set.
LEMMA OneOfThree ==
  ASSUME NEW a \in BOOLEAN, NEW b \in BOOLEAN, NEW c \in BOOLEAN,
         a => ~b /\ ~c, b => ~c, a \/ b \/ c
  PROVE  LET owners == <<a, b, c>> IN Cardinality({i \in 1..3 : owners[i]}) = 1
<1> DEFINE owners == <<a, b, c>>
           S == {i \in 1..3 : owners[i]}
<1>1. owners[1] = a /\ owners[2] = b /\ owners[3] = c
  OBVIOUS
<1> HIDE DEF owners
<1>2. \A i \in 1..3 : i = 1 \/ i = 2 \/ i = 3
  OBVIOUS
<1>3. S = {1} \/ S = {2} \/ S = {3}
  <2>1. CASE a
    <3>1. owners[1] /\ ~owners[2] /\ ~owners[3]
      BY <1>1, <2>1
    <3>2. \A i \in 1..3 : owners[i] <=> i = 1
      BY <1>2, <3>1
    <3>3. 1 \in 1..3
      OBVIOUS
    <3>4. S = {1}
      BY <3>2, <3>3
    <3> QED BY <3>4
  <2>2. CASE b
    <3>1. owners[2] /\ ~owners[1] /\ ~owners[3]
      BY <1>1, <2>2
    <3>2. \A i \in 1..3 : owners[i] <=> i = 2
      BY <1>2, <3>1
    <3>3. 2 \in 1..3
      OBVIOUS
    <3>4. S = {2}
      BY <3>2, <3>3
    <3> QED BY <3>4
  <2>3. CASE c
    <3>1. owners[3] /\ ~owners[1] /\ ~owners[2]
      BY <1>1, <2>3
    <3>2. \A i \in 1..3 : owners[i] <=> i = 3
      BY <1>2, <3>1
    <3>3. 3 \in 1..3
      OBVIOUS
    <3>4. S = {3}
      BY <3>2, <3>3
    <3> QED BY <3>4
  <2> QED BY <2>1, <2>2, <2>3
<1>4. Cardinality(S) = 1
  BY <1>3, FS_Singleton
<1> QED BY <1>4 DEF owners

\* The fatal outcome of a gated callback always has exactly one owner, whoever
\* cancels, delivers or closes in between: the delivery under way, the consumer
\* it was handed to, or the gate's deferred errors (_defer_fatal_locked).
THEOREM FatalOwned == Spec => []FatalHasOneOwner
<1>1. IInv /\ CInv => FatalHasOneOwner
  <2> SUFFICES ASSUME IInv, CInv, NEW j \in Jobs, IsGated(j), jobs[j].state = "terminal",
                      jobs[j].outcome = "fatal"
               PROVE  LET owners == << jobs[j].deliveryPending,
                            jobs[j].completion = "fatal" /\ jobs[j].consumer # "cancelled",
                            j \in fatalErrors >>
                      IN  Cardinality({i \in 1..3 : owners[i]}) = 1
    BY DEF FatalHasOneOwner
  <2>1. Fate(j, jobs[j], fatalErrors, cancelCalls) /\ jobs[j].deliveryPending \in BOOLEAN
        /\ jobs[j].lane \in Gates
    BY JobIsSound DEF CInv, Fates, IsGated
  <2> DEFINE a == jobs[j].deliveryPending
             b == jobs[j].completion = "fatal" /\ jobs[j].consumer # "cancelled"
             c == j \in fatalErrors
  <2>2. /\ a => ~b /\ ~c
        /\ ~a => (c <=> ~b)
    BY <2>1 DEF Fate
  <2>3. a \in BOOLEAN /\ b \in BOOLEAN /\ c \in BOOLEAN
    BY <2>1
  <2> HIDE DEF a, b, c
  <2>4. LET owners == <<a, b, c>> IN Cardinality({i \in 1..3 : owners[i]}) = 1
    BY <2>2, <2>3, OneOfThree
  <2> QED BY <2>4 DEF a, b, c
<1> QED BY <1>1, Control, PTL

\* A gate or a broker that stops is in control of what is left: a closed gate
\* queues nothing that must not outlive it, every future it waits for is one
\* somebody will discard, and the executor is retired by whoever finishes last.
THEOREM StopsControlled == Spec => []StopsInControl
<1>1. IInv /\ CInv => StopsInControl
  <2> SUFFICES ASSUME IInv, CInv PROVE StopsInControl
    OBVIOUS
  <2>1. GateTracksWork
    BY DEF CInv, Tracks, Tracked, GateTracksWork, IsGated
  <2>2. /\ closed => queuedCount = 0
        /\ runningCount \in Nat /\ pendingDeliveryCount \in Nat /\ queuedCount \in Nat
    BY WhatIsLeft DEF CInv
  <2>3. queuedCount + runningCount + pendingDeliveryCount = 0 <=>
          queuedCount = 0 /\ runningCount = 0 /\ pendingDeliveryCount = 0
    BY <2>2
  <2>4. lock = Unlocked => ~Retiring
    BY DEF Retiring, Unlocked
  <2>5. ExecutorRetiredInTime
    BY <2>2, <2>3, <2>4 DEF CInv, Retired, ExecutorRetiredInTime
  <2> QED BY <2>1, <2>5 DEF CInv, StopsInControl
<1> QED BY <1>1, Control, PTL

-----------------------------------------------------------------------------
(* The broker implements the bulkhead *)

\* Only a job that is over was cancelled through its future, and a completion
\* that was set was set to the outcome of its own job.
Truth(x) ==
  /\ x.state # "terminal" => x.outcome # "cancelled"
  /\ x.completion \in Outcomes => x.completion = x.outcome

Told == \A j \in Jobs : Truth(jobs[j])

AbstractEnding(x) == IF x.state = "terminal" THEN x.outcome ELSE "none"

\* What the bulkhead sees of the jobs
Seen == [j \in Jobs |-> AbstractPhase(jobs[j])]
SeenLane == [j \in Jobs |-> jobs[j].lane]
SeenEnding == [j \in Jobs |-> AbstractEnding(jobs[j])]
SeenAnswer == [j \in Jobs |-> jobs[j].consumer]

Implements == [Abstract!BulkheadNext]_(Abstract!bulkheadVars)

\* The abstract phase of each state of a job
LEMMA PhaseOf ==
  ASSUME NEW x \in Job
  PROVE  /\ x.state \in {"new", "queued"} => AbstractPhase(x) = x.state
         /\ x.state = "rejected" => AbstractPhase(x) = "refused"
         /\ x.state = "terminal" => AbstractPhase(x) = "over"
         /\ x.state = "cancelled" => AbstractPhase(x) = "revoked"
         /\ x.state = "running" => AbstractPhase(x) = IF x.fut = "pending" THEN "started"
                                                      ELSE "running"
BY DEF Job, AbstractPhase

\* A function that differs from another at one place, or nowhere
LEMMA OnePlace ==
  ASSUME NEW S, NEW j \in S, NEW v, NEW f, NEW g, f = [k \in S |-> f[k]], g = [k \in S |-> g[k]],
         \A k \in S : g[k] = IF k = j THEN v ELSE f[k]
  PROVE  g = [f EXCEPT ![j] = v] /\ (v = f[j] => g = f)
<1>1. [f EXCEPT ![j] = v] = [k \in S |-> IF k = j THEN v ELSE f[k]]
  OBVIOUS
<1>2. g = [k \in S |-> IF k = j THEN v ELSE f[k]]
  OBVIOUS
<1>3. ASSUME v = f[j] PROVE g = f
  <2>1. \A k \in S : g[k] = f[k]
    BY <1>3
  <2> QED BY <2>1
<1> QED BY <1>1, <1>2, <1>3

\* The job is seen with the record x, the others as they were
SeenMoves(j, x) ==
  /\ Seen' = [Seen EXCEPT ![j] = AbstractPhase(x)]
  /\ AbstractPhase(x) = Seen[j] => Seen' = Seen
  /\ SeenLane' = [SeenLane EXCEPT ![j] = x.lane]
  /\ x.lane = SeenLane[j] => SeenLane' = SeenLane
  /\ SeenEnding' = [SeenEnding EXCEPT ![j] = AbstractEnding(x)]
  /\ AbstractEnding(x) = SeenEnding[j] => SeenEnding' = SeenEnding
  /\ SeenAnswer' = [SeenAnswer EXCEPT ![j] = x.consumer]
  /\ x.consumer = SeenAnswer[j] => SeenAnswer' = SeenAnswer
  /\ Seen[j] = AbstractPhase(jobs[j]) /\ SeenLane[j] = jobs[j].lane
  /\ SeenEnding[j] = AbstractEnding(jobs[j]) /\ SeenAnswer[j] = jobs[j].consumer

\* A step on one job is seen as one.
LEMMA OneSeen ==
  ASSUME JobsTyped, NEW j \in Jobs, NEW x, jobs' = [jobs EXCEPT ![j] = x]
  PROVE  SeenMoves(j, x)
<1>1. \A k \in Jobs : jobs'[k] = IF k = j THEN x ELSE jobs[k]
  BY DEF JobsTyped
<1>2. /\ \A k \in Jobs : Seen[k] = AbstractPhase(jobs[k]) /\ Seen'[k] = AbstractPhase(jobs'[k])
      /\ Seen = [k \in Jobs |-> Seen[k]] /\ Seen' = [k \in Jobs |-> Seen'[k]]
  BY DEF Seen
<1>3. /\ \A k \in Jobs : SeenLane[k] = jobs[k].lane /\ SeenLane'[k] = jobs'[k].lane
      /\ SeenLane = [k \in Jobs |-> SeenLane[k]] /\ SeenLane' = [k \in Jobs |-> SeenLane'[k]]
  BY DEF SeenLane
<1>4. /\ \A k \in Jobs : /\ SeenEnding[k] = AbstractEnding(jobs[k])
                        /\ SeenEnding'[k] = AbstractEnding(jobs'[k])
      /\ SeenEnding = [k \in Jobs |-> SeenEnding[k]]
      /\ SeenEnding' = [k \in Jobs |-> SeenEnding'[k]]
  BY DEF SeenEnding
<1>5. /\ \A k \in Jobs : SeenAnswer[k] = jobs[k].consumer /\ SeenAnswer'[k] = jobs'[k].consumer
      /\ SeenAnswer = [k \in Jobs |-> SeenAnswer[k]]
      /\ SeenAnswer' = [k \in Jobs |-> SeenAnswer'[k]]
  BY DEF SeenAnswer
<1>6. \A k \in Jobs : Seen'[k] = IF k = j THEN AbstractPhase(x) ELSE Seen[k]
  BY <1>1, <1>2
<1>7. \A k \in Jobs : SeenLane'[k] = IF k = j THEN x.lane ELSE SeenLane[k]
  BY <1>1, <1>3
<1>8. \A k \in Jobs : SeenEnding'[k] = IF k = j THEN AbstractEnding(x) ELSE SeenEnding[k]
  BY <1>1, <1>4
<1>9. \A k \in Jobs : SeenAnswer'[k] = IF k = j THEN x.consumer ELSE SeenAnswer[k]
  BY <1>1, <1>5
<1>10. Seen' = [Seen EXCEPT ![j] = AbstractPhase(x)] /\ (AbstractPhase(x) = Seen[j] => Seen' = Seen)
  BY ONLY j \in Jobs, <1>2, <1>6, OnePlace
<1>11. SeenLane' = [SeenLane EXCEPT ![j] = x.lane] /\ (x.lane = SeenLane[j] => SeenLane' = SeenLane)
  BY ONLY j \in Jobs, <1>3, <1>7, OnePlace
<1>12. /\ SeenEnding' = [SeenEnding EXCEPT ![j] = AbstractEnding(x)]
       /\ AbstractEnding(x) = SeenEnding[j] => SeenEnding' = SeenEnding
  BY ONLY j \in Jobs, <1>4, <1>8, OnePlace
<1>13. /\ SeenAnswer' = [SeenAnswer EXCEPT ![j] = x.consumer]
       /\ x.consumer = SeenAnswer[j] => SeenAnswer' = SeenAnswer
  BY ONLY j \in Jobs, <1>5, <1>9, OnePlace
<1> QED BY <1>2, <1>3, <1>4, <1>5, <1>10, <1>11, <1>12, <1>13 DEF SeenMoves

\* A step the bulkhead does not see
LEMMA SeenSame ==
  ASSUME JobsTyped, NEW j \in Jobs, NEW x, jobs' = [jobs EXCEPT ![j] = x],
         AbstractPhase(x) = AbstractPhase(jobs[j]), x.lane = jobs[j].lane,
         AbstractEnding(x) = AbstractEnding(jobs[j]), x.consumer = jobs[j].consumer
  PROVE  Implements
<1>0. SeenMoves(j, x)
  BY OneSeen
<1>1. UNCHANGED <<Seen, SeenLane, SeenEnding, SeenAnswer>>
  BY <1>0 DEF SeenMoves
<1> QED BY <1>1 DEF Implements, Abstract!bulkheadVars, Seen, SeenLane, SeenEnding, SeenAnswer, AbstractEnding

\* A refused submission
LEMMA SeenRefused ==
  ASSUME JobsTyped, NEW j \in Jobs, NEW x, jobs' = [jobs EXCEPT ![j] = x],
         Seen[j] = "new", AbstractPhase(x) = "refused",
         x.lane = jobs[j].lane,
         AbstractEnding(x) = AbstractEnding(jobs[j]), x.consumer = jobs[j].consumer
  PROVE  Implements
<1>0. SeenMoves(j, x)
  BY OneSeen
<1>1. Seen' = [Seen EXCEPT ![j] = "refused"] /\ UNCHANGED <<SeenLane, SeenEnding, SeenAnswer>>
  BY <1>0 DEF SeenMoves
<1>2. Abstract!Refuse(j)
  BY <1>1 DEF Abstract!Refuse, Seen, SeenLane, SeenEnding, SeenAnswer, AbstractEnding
<1> QED BY <1>2 DEF Implements, Abstract!BulkheadNext

\* An answer, whatever else the step writes that the bulkhead does not see
LEMMA SeenAnswered ==
  ASSUME JobsTyped, NEW j \in Jobs, NEW x, jobs' = [jobs EXCEPT ![j] = x],
         AbstractPhase(x) = AbstractPhase(jobs[j]), x.lane = jobs[j].lane,
         AbstractEnding(x) = AbstractEnding(jobs[j]),
         jobs[j].consumer = "waiting",
         \/ x.consumer = "cancelled"
         \/ Seen[j] = "over" /\ x.consumer = AbstractEnding(jobs[j])
  PROVE  Implements
<1>0. SeenMoves(j, x)
  BY OneSeen
<1>1. /\ UNCHANGED <<Seen, SeenLane, SeenEnding>>
      /\ SeenAnswer' = [SeenAnswer EXCEPT ![j] = x.consumer]
      /\ SeenAnswer[j] = "waiting" /\ SeenEnding[j] = AbstractEnding(jobs[j])
  BY <1>0 DEF SeenMoves
<1>2. Abstract!Answer(j)
  BY <1>1 DEF Abstract!Answer, Seen, SeenLane, SeenEnding, SeenAnswer, AbstractEnding
<1> QED BY <1>2 DEF Implements, Abstract!BulkheadNext

\* The end of a callback, or the cancellation of one no thread has begun
LEMMA SeenFinished ==
  ASSUME JobsTyped, NEW j \in Jobs, NEW x, jobs' = [jobs EXCEPT ![j] = x],
         AbstractPhase(x) = "over", x.lane = jobs[j].lane,
         \/ /\ Seen[j] \in {"queued", "running"} /\ AbstractEnding(x) \in Outcomes
            /\ x.consumer = jobs[j].consumer
         \/ /\ Seen[j] = "started" /\ jobs[j].consumer = "waiting"
            /\ AbstractEnding(x) = "cancelled" /\ x.consumer = "cancelled"
  PROVE  Implements
<1>0. SeenMoves(j, x)
  BY OneSeen
<1>1. /\ Seen' = [Seen EXCEPT ![j] = "over"] /\ UNCHANGED SeenLane
      /\ SeenEnding' = [SeenEnding EXCEPT ![j] = AbstractEnding(x)]
      /\ SeenAnswer' = [SeenAnswer EXCEPT ![j] = x.consumer]
      /\ x.consumer = jobs[j].consumer => UNCHANGED SeenAnswer
      /\ SeenAnswer[j] = jobs[j].consumer
  BY <1>0 DEF SeenMoves
<1>2. Abstract!Finish(j)
  BY <1>1 DEF Abstract!Finish, Seen, SeenLane, SeenEnding, SeenAnswer, AbstractEnding
<1> QED BY <1>2 DEF Implements, Abstract!BulkheadNext

\* An admitted submission
LEMMA SeenAccepted ==
  ASSUME JobsTyped, NEW j \in Jobs, NEW x, jobs' = [jobs EXCEPT ![j] = x],
         Seen[j] = "new", AbstractPhase(x) = "queued", x.lane \in Lanes, x.consumer = "waiting",
         AbstractEnding(x) = AbstractEnding(jobs[j])
  PROVE  Implements
<1>0. SeenMoves(j, x)
  BY OneSeen
<1>1. /\ Seen' = [Seen EXCEPT ![j] = "queued"] /\ SeenLane' = [SeenLane EXCEPT ![j] = x.lane]
      /\ SeenAnswer' = [SeenAnswer EXCEPT ![j] = "waiting"] /\ UNCHANGED SeenEnding
  BY <1>0 DEF SeenMoves
<1>2. Abstract!Accept(j)
  BY <1>1 DEF Abstract!Accept, Seen, SeenLane, SeenEnding, SeenAnswer, AbstractEnding
<1> QED BY <1>2 DEF Implements, Abstract!BulkheadNext

\* A thread takes the work item.
LEMMA SeenBegun ==
  ASSUME JobsTyped, NEW j \in Jobs, NEW x, jobs' = [jobs EXCEPT ![j] = x],
         Seen[j] = "started", AbstractPhase(x) = "running", x.lane = jobs[j].lane,
         AbstractEnding(x) = AbstractEnding(jobs[j]), x.consumer = jobs[j].consumer
  PROVE  Implements
<1>0. SeenMoves(j, x)
  BY OneSeen
<1>1. Seen' = [Seen EXCEPT ![j] = "running"] /\ UNCHANGED <<SeenLane, SeenEnding, SeenAnswer>>
  BY <1>0 DEF SeenMoves
<1>2. Abstract!Begin(j)
  BY <1>1 DEF Abstract!Begin, Seen, SeenLane, SeenEnding, SeenAnswer, AbstractEnding
<1> QED BY <1>2 DEF Implements, Abstract!BulkheadNext

\* The jobs that hold a worker are those the broker counts as running.
LEMMA SeenHolding ==
  ASSUME JobsTyped
  PROVE  /\ Abstract!Holding = RunningJobs
         /\ \A l : {k \in Abstract!Holding : SeenLane[k] = l} = RunningIn(l)
<1>1. ASSUME NEW k \in Jobs
      PROVE  Seen[k] \in {"started", "running"} <=> jobs[k].state = "running"
  <2>1. jobs[k] \in Job /\ Seen[k] = AbstractPhase(jobs[k])
    BY DEF JobsTyped, Seen
  <2>2. jobs[k].state \in {"new", "rejected", "queued", "running", "terminal", "cancelled"}
    BY <2>1 DEF Job
  <2> QED BY <2>1, <2>2, PhaseOf
<1>2. Abstract!Holding = {k \in Jobs : Seen[k] \in {"started", "running"}}
  BY DEF Abstract!Holding, Seen
<1>3. Abstract!Holding = RunningJobs
  BY <1>1, <1>2 DEF RunningJobs
<1>4. \A k \in RunningJobs : SeenLane[k] = jobs[k].lane
  BY DEF RunningJobs, SeenLane
<1> QED BY <1>3, <1>4 DEF RunningIn

\* The executor takes a job, within the bounds of the bulkhead.
LEMMA SeenStarted ==
  ASSUME IInv, NEW j \in Jobs, NEW x, jobs' = [jobs EXCEPT ![j] = x],
         Seen[j] = "queued", AbstractPhase(x) = "started", x.lane = jobs[j].lane,
         AbstractEnding(x) = AbstractEnding(jobs[j]), x.consumer = jobs[j].consumer,
         jobs[j].lane \in Lanes, runningCount < MaxWorkers,
         jobs[j].lane \in Gates => runningByLane[jobs[j].lane] < CrossPluginCap
  PROVE  Implements
<1>0. JobsTyped /\ SeenMoves(j, x)
  BY OneSeen DEF IInv, Typed
<1>1. Seen' = [Seen EXCEPT ![j] = "started"] /\ UNCHANGED <<SeenLane, SeenEnding, SeenAnswer>>
  BY <1>0 DEF SeenMoves
<1>2. Cardinality(Abstract!Holding) < MaxWorkers
  BY <1>0, SeenHolding DEF IInv, RunningCounted
<1>3. SeenLane[j] \in Gates
        => Cardinality({k \in Abstract!Holding : SeenLane[k] = SeenLane[j]}) < CrossPluginCap
  <2>1. SeenLane[j] = jobs[j].lane
    BY <1>0 DEF SeenMoves
  <2>2. {k \in Abstract!Holding : SeenLane[k] = SeenLane[j]} = RunningIn(jobs[j].lane)
    BY <1>0, <2>1, SeenHolding
  <2>3. runningByLane[jobs[j].lane] = Cardinality(RunningIn(jobs[j].lane))
    BY DEF IInv, RunningCounted
  <2>4. jobs[j].lane \in Gates => Cardinality(RunningIn(jobs[j].lane)) < CrossPluginCap
    BY <2>3
  <2> QED BY ONLY <2>1, <2>2, <2>4
<1>4. \A S : Abstract!Cardinality(S) = Cardinality(S)
  BY DEF Abstract!Cardinality, Cardinality
<1>5. Abstract!Start(j)
  BY <1>1, <1>2, <1>3, <1>4 DEF Abstract!Start, Seen, SeenLane, SeenEnding, SeenAnswer, AbstractEnding
<1> QED BY <1>5 DEF Implements, Abstract!BulkheadNext

\* Queued work is revoked, with its caller or under it.
LEMMA SeenRevoked ==
  ASSUME JobsTyped, NEW j \in Jobs, NEW x, jobs' = [jobs EXCEPT ![j] = x],
         Seen[j] = "queued", AbstractPhase(x) = "revoked", x.lane = jobs[j].lane,
         AbstractEnding(x) = AbstractEnding(jobs[j]),
         x.consumer = "cancelled" \/ x.consumer = jobs[j].consumer
  PROVE  Implements
<1>0. SeenMoves(j, x)
  BY OneSeen
<1> DEFINE told == IF x.consumer = "cancelled" THEN {j} ELSE {}
<1>1. UNCHANGED <<SeenLane, SeenEnding>>
  BY <1>0 DEF SeenMoves
<1>2. Seen' = [k \in Jobs |-> IF k \in {j} THEN "revoked" ELSE Seen[k]]
  BY <1>0 DEF SeenMoves, Seen
<1>3. SeenAnswer' = [k \in Jobs |-> IF k \in told THEN "cancelled" ELSE SeenAnswer[k]]
  <2>1. CASE x.consumer = "cancelled"
    BY <1>0, <2>1 DEF SeenMoves, SeenAnswer
  <2>2. CASE x.consumer # "cancelled"
    <3>1. SeenAnswer' = SeenAnswer
      BY <1>0, <2>2 DEF SeenMoves
    <3> QED BY <2>2, <3>1 DEF SeenAnswer
  <2> QED BY <2>1, <2>2
<1>4. told \in SUBSET {j} /\ {j} \in SUBSET Jobs
  OBVIOUS
<1> HIDE DEF told
<1>5. Abstract!Revoke({j}, told)
  BY <1>1, <1>2, <1>3 DEF Abstract!Revoke, Seen, SeenLane, SeenEnding, SeenAnswer, AbstractEnding
<1> QED BY <1>4, <1>5 DEF Implements, Abstract!BulkheadNext

\* What every step must do: keep the completions true, and be seen as a step
\* of the bulkhead or as none
Faithful == Told' /\ Implements

\* A step on one job tells the truth when it does so of that job.
LEMMA OneTold ==
  ASSUME Told, JobsTyped, NEW j \in Jobs, NEW x, jobs' = [jobs EXCEPT ![j] = x], Truth(x)
  PROVE  Told'
<1> SUFFICES ASSUME NEW k \in Jobs PROVE Truth(jobs'[k])
  BY DEF Told
<1>1. CASE k = j
  BY <1>1 DEF JobsTyped
<1>2. CASE k # j
  BY <1>2 DEF JobsTyped, Told
<1> QED BY <1>1, <1>2

\* Steps that change no record
LEMMA QuietFaithful == ASSUME Told, UNCHANGED jobs PROVE Faithful
<1>1. Told'
  BY DEF Told, Truth
<1>2. Implements
  BY DEF Implements, Abstract!bulkheadVars
<1> QED BY <1>1, <1>2 DEF Faithful

\* Jobs that are new or queued, and those the broker revoked
LEMMA QueueFaithful ==
  ASSUME BrokerAssumption, IInv, Fates, Told, NEW j \in Jobs,
         \/ \E l \in Lanes, a \in Scopes : Admit(j, l, a) \/ Reject(j, l, a)
         \/ \E l \in Lanes : DispatchCancelled(l, j) \/ DispatchStart(l, j) \/ DispatchFailed(l, j)
         \/ jobs[j].state = "queued" /\ jobs' = [jobs EXCEPT ![j] = Revoked(@)]
         \/ CancelQueued(j) \/ (CancelCancelled(j) /\ jobs[j].consumer = "waiting")
  PROVE  Faithful
<1>1. /\ JobsTyped /\ Fate(j, jobs[j], fatalErrors, cancelCalls) /\ Truth(jobs[j])
      /\ jobs[j] \in Job /\ Seen[j] = AbstractPhase(jobs[j])
  BY DEF IInv, Typed, Fates, JobsTyped, Told, Seen
<1>2. ASSUME NEW l \in Lanes, NEW a \in Scopes, Admit(j, l, a) PROVE Faithful
  <2>1. PICK x : /\ jobs' = [jobs EXCEPT ![j] = x] /\ x.state = "queued" /\ x.lane = l
                 /\ x.outcome = jobs[j].outcome
                 /\ x.completion = jobs[j].completion /\ x.consumer = "waiting"
    BY <1>1, <1>2, AdmitRecord
  <2>2. jobs[j].state = "new"
    BY <1>2 DEF Admit
  <2>3. Told'
    BY <1>1, <2>1, <2>2, OneTold DEF Truth
  <2>4. Implements
    BY <1>1, <2>1, <2>2, SeenAccepted DEF AbstractPhase, AbstractEnding
  <2> QED BY <2>3, <2>4 DEF Faithful
<1>3. ASSUME NEW l \in Lanes, NEW a \in Scopes, Reject(j, l, a) PROVE Faithful
  <2>1. PICK x : /\ jobs' = [jobs EXCEPT ![j] = x] /\ x.state = "rejected"
                 /\ x.lane = jobs[j].lane /\ x.outcome = jobs[j].outcome
                 /\ x.completion = jobs[j].completion /\ x.consumer = jobs[j].consumer
    BY <1>1, <1>3, RejectRecord
  <2>2. jobs[j].state = "new"
    BY <1>3 DEF Reject
  <2>3. Told'
    BY <1>1, <2>1, <2>2, OneTold DEF Truth
  <2>4. Implements
    BY <1>1, <2>1, <2>2, SeenRefused DEF AbstractPhase, AbstractEnding
  <2> QED BY <2>3, <2>4 DEF Faithful
<1>4. ASSUME jobs[j].state = "queued", jobs' = [jobs EXCEPT ![j] = Revoked(@)]
      PROVE  Faithful
  <2>1. PICK x : /\ jobs' = [jobs EXCEPT ![j] = x] /\ x.state = "cancelled"
                 /\ x.lane = jobs[j].lane /\ x.allowClosed = jobs[j].allowClosed
                 /\ x.fut = jobs[j].fut /\ x.outcome = jobs[j].outcome /\ x.detached = TRUE
                 /\ x.deliveryPending = jobs[j].deliveryPending
                 /\ x.completion = jobs[j].completion /\ x.consumer = jobs[j].consumer
    <3>1. JobsTyped
      BY <1>1
    <3> QED BY ZenonT(60), <1>4, <3>1, RevokedRecord
  <2>0. jobs[j].state = "queued"
    BY <1>4
  <2>2. Told'
    BY ONLY Told, j \in Jobs, <1>1, <2>0, <2>1, OneTold DEF Truth
  <2>3. Implements
    BY ONLY j \in Jobs, <1>1, <2>0, <2>1, SeenRevoked DEF AbstractPhase, AbstractEnding
  <2> QED BY <2>2, <2>3 DEF Faithful
<1>5. ASSUME NEW l \in Lanes, DispatchCancelled(l, j) PROVE Faithful
  <2>1. jobs[j].state = "queued"
    BY <1>5, DispatchedHead DEF DispatchCancelled
  <2> QED BY <1>4, <1>5, <2>1 DEF DispatchCancelled
<1>6. ASSUME NEW l \in Lanes, DispatchStart(l, j) PROVE Faithful
  <2>1. PICK x : /\ jobs' = [jobs EXCEPT ![j] = x] /\ x.state = "running" /\ x.fut = "pending"
                 /\ x.lane = jobs[j].lane /\ x.outcome = jobs[j].outcome
                 /\ x.completion = jobs[j].completion /\ x.consumer = jobs[j].consumer
    BY <1>1, <1>6, StartRecord
  <2>2. jobs[j].state = "queued" /\ jobs[j].lane = l
    BY <1>6, DispatchedHead DEF DispatchStart
  <2>3. Told'
    BY <1>1, <2>1, <2>2, OneTold DEF Truth
  <2>4. runningCount < MaxWorkers /\ runningByLane[l] < LaneRunningLimit(l)
    BY <1>6 DEF DispatchStart, DispatchHead, CanDispatch
  <2>5. l \in Gates => runningByLane[l] < CrossPluginCap
    <3>1. CrossPluginCap \in Int /\ runningByLane[l] \in Int /\ LaneRunningLimit(l) \in Int
      <4>1. GatesTyped
        BY DEF IInv, Typed
      <4>2. LaneRunningLimit(l) \in Int
        BY <4>1, BrokerAssumption, LimitType
      <4>3. CrossPluginCap \in Int
        BY BrokerAssumption DEF BrokerAssumption, CrossPluginCap
      <4> QED BY <4>2, <4>3, CountersAreInt
    <3>2. l \in Gates => l # FallbackLane /\ policy[l].parallel \in Int
      <4>1. policy \in [Gates -> [parallel : ParallelLimits, queue : QueueLimits]]
        BY DEF IInv, Typed, GatesTyped
      <4>2. l \in Gates => policy[l].parallel \in ParallelLimits
        BY <4>1
      <4>3. ParallelLimits \subseteq Nat /\ FallbackLane \notin Gates
        BY BrokerAssumption DEF BrokerAssumption
      <4>4. l \in Gates => l # FallbackLane
        BY <4>3
      <4>5. l \in Gates => policy[l].parallel \in Nat
        BY <4>2, <4>3
      <4>6. l \in Gates => policy[l].parallel \in Int
        BY ONLY <4>5
      <4> QED BY ONLY <4>4, <4>6
    <3>3. l \in Gates => LaneRunningLimit(l) <= CrossPluginCap
      BY <3>1, <3>2 DEF LaneRunningLimit
    <3> QED BY <2>4, <3>1, <3>3
  <2>6. Seen[j] = "queued" /\ AbstractPhase(x) = "started" /\ AbstractEnding(x) = AbstractEnding(jobs[j])
    BY <1>1, <2>1, <2>2, PhaseOf DEF AbstractPhase, AbstractEnding
  <2>7. Implements
    BY <2>1, <2>2, <2>4, <2>5, <2>6, SeenStarted
  <2> QED BY <2>3, <2>7 DEF Faithful
<1>7. ASSUME NEW l \in Lanes, DispatchFailed(l, j) PROVE Faithful
  <2>1. PICK x : /\ jobs' = [jobs EXCEPT ![j] = x] /\ x.state = "terminal"
                 /\ x.lane = jobs[j].lane /\ x.outcome = "error"
                 /\ x.completion = jobs[j].completion /\ x.consumer = jobs[j].consumer
    BY <1>1, <1>7, FailedRecord
  <2>2. jobs[j].state = "queued"
    BY <1>7, DispatchedHead DEF DispatchFailed
  <2>3. Truth(x)
    BY <1>1, <2>1, <2>2 DEF Truth, Fate, Outcomes
  <2>4. Told'
    BY <1>1, <2>1, <2>3, OneTold
  <2>5. Seen[j] = "queued" /\ AbstractPhase(x) = "over" /\ AbstractEnding(x) \in Outcomes
    BY <1>1, <2>1, <2>2, PhaseOf DEF AbstractPhase, AbstractEnding, Outcomes
  <2>6. Implements
    BY <1>1, <2>1, <2>5, SeenFinished
  <2> QED BY <2>4, <2>6 DEF Faithful
<1>8. ASSUME CancelQueued(j) PROVE Faithful
  <2>1. PICK x : /\ jobs' = [jobs EXCEPT ![j] = x] /\ x.state = "cancelled"
                 /\ x.lane = jobs[j].lane /\ x.outcome = jobs[j].outcome
                 /\ x.completion = "cancelled" /\ x.consumer = "cancelled"
    BY <1>1, <1>8, CancelQueuedRecord
  <2>2. jobs[j].state = "queued"
    BY <1>8 DEF CancelQueued
  <2>3. Told'
    BY <1>1, <2>1, <2>2, OneTold DEF Truth, Outcomes
  <2>4. Implements
    BY <1>1, <2>1, <2>2, SeenRevoked DEF AbstractPhase, AbstractEnding
  <2> QED BY <2>3, <2>4 DEF Faithful
<1>9. ASSUME CancelCancelled(j), jobs[j].consumer = "waiting" PROVE Faithful
  <2>1. PICK x : /\ jobs' = [jobs EXCEPT ![j] = x] /\ x.state = jobs[j].state
                 /\ x.fut = jobs[j].fut /\ x.lane = jobs[j].lane /\ x.outcome = jobs[j].outcome
                 /\ x.completion = jobs[j].completion /\ x.consumer = "cancelled"
    BY <1>1, <1>9, CancelCancelledRecord
  <2>2. jobs[j].state = "cancelled"
    BY <1>9 DEF CancelCancelled
  <2>3. Told'
    BY <1>1, <2>1, <2>2, OneTold DEF Truth
  <2>4. Implements
    BY <1>1, <1>9, <2>1, <2>2, SeenAnswered DEF AbstractPhase, AbstractEnding
  <2> QED BY <2>3, <2>4 DEF Faithful
<1> QED BY <1>2, <1>3, <1>4, <1>5, <1>6, <1>7, <1>8, <1>9

\* Jobs that run or have run
LEMMA RunFaithful ==
  ASSUME BrokerAssumption, IInv, Fates, Told, NEW j \in Jobs,
         \/ WorkerStart(j) \/ WorkerComplete(j) \/ \E o \in Endings : WorkerFinish(j, o)
         \/ jobs[j].consumer = "waiting" /\ (CancelPending(j) \/ DetachRunning(j) \/ CancelTerminal(j))
         \/ ConsumerResumes(j) \/ Deliver(j) \/ RunScheduledCancel(j)
  PROVE  Faithful
<1>1. /\ JobsTyped /\ Fate(j, jobs[j], fatalErrors, cancelCalls) /\ Truth(jobs[j])
      /\ jobs[j] \in Job /\ Seen[j] = AbstractPhase(jobs[j])
  BY DEF IInv, Typed, Fates, JobsTyped, Told, Seen
<1>2. /\ jobs[j].deliveryPending => jobs[j].state = "terminal"
      /\ jobs[j].fut = "done" => jobs[j].outcome # "none"
  BY DEF IInv, Linked, SoundJob
<1>3. ASSUME WorkerStart(j) PROVE Faithful
  <2>1. PICK x : /\ jobs' = [jobs EXCEPT ![j] = x] /\ x.state = jobs[j].state /\ x.fut = "running"
                 /\ x.lane = jobs[j].lane /\ x.outcome = jobs[j].outcome
                 /\ x.completion = jobs[j].completion /\ x.consumer = jobs[j].consumer
    BY <1>1, <1>3, WorkerStartRecord
  <2>2. jobs[j].state = "running" /\ jobs[j].fut = "pending"
    BY <1>3 DEF WorkerStart
  <2>3. Told'
    BY <1>1, <2>1, <2>2, OneTold DEF Truth
  <2>4. Implements
    BY <1>1, <2>1, <2>2, SeenBegun DEF AbstractPhase, AbstractEnding
  <2> QED BY <2>3, <2>4 DEF Faithful
<1>4. ASSUME NEW o \in Endings, WorkerFinish(j, o) PROVE Faithful
  <2>1. PICK x : /\ jobs' = [jobs EXCEPT ![j] = x] /\ x.state = jobs[j].state /\ x.fut = "done"
                 /\ x.lane = jobs[j].lane /\ x.outcome = o
                 /\ x.completion = jobs[j].completion /\ x.consumer = jobs[j].consumer
    BY <1>1, <1>4, WorkerFinishRecord
  <2>2. jobs[j].fut = "running" /\ o # "cancelled"
    BY <1>4, BrokerAssumption DEF WorkerFinish, BrokerAssumption
  <2>3. jobs[j].state = "running"
    BY <1>1, <2>2 DEF Fate, Job
  <2>4. Truth(x)
    BY <1>1, <2>1, <2>2, <2>3 DEF Truth, Fate, Outcomes
  <2>5. Told'
    BY <1>1, <2>1, <2>4, OneTold
  <2>6. AbstractPhase(x) = AbstractPhase(jobs[j]) /\ AbstractEnding(x) = AbstractEnding(jobs[j])
    BY <1>1, <2>1, <2>2, <2>3 DEF AbstractPhase, AbstractEnding
  <2>7. Implements
    BY <1>1, <2>1, <2>6, SeenSame
  <2> QED BY <2>5, <2>7 DEF Faithful
<1>5. ASSUME WorkerComplete(j) PROVE Faithful
  <2> DEFINE direct == jobs[j].detached \/ ~loopAlive
  <2>0. direct = (jobs[j].detached \/ ~loopAlive)
    OBVIOUS
  <2> HIDE DEF direct
  <2>1. PICK x : /\ jobs' = [jobs EXCEPT ![j] = x] /\ x.state = "terminal"
                 /\ x.lane = jobs[j].lane /\ x.outcome = jobs[j].outcome
                 /\ x.completion = jobs[j].completion /\ x.consumer = jobs[j].consumer
    BY <1>1, <1>5, <2>0, CompleteRecord
  <2>2. jobs[j].state = "running" /\ jobs[j].fut = "done"
    BY <1>5 DEF WorkerComplete, ReturnedCallback
  <2>3. Told'
    BY <1>1, <2>1, <2>2, OneTold DEF Truth
  <2>4. jobs[j].outcome \in Outcomes
    BY <1>1, <1>2, <2>2 DEF Job, Truth
  <2>5. Seen[j] = "running" /\ AbstractPhase(x) = "over" /\ AbstractEnding(x) \in Outcomes
    BY <1>1, <2>1, <2>2, <2>4, PhaseOf DEF AbstractPhase, AbstractEnding
  <2>6. Implements
    BY <1>1, <2>1, <2>5, SeenFinished
  <2> QED BY <2>3, <2>6 DEF Faithful
<1>6. ASSUME CancelPending(j), jobs[j].consumer = "waiting" PROVE Faithful
  <2>1. PICK x : /\ jobs' = [jobs EXCEPT ![j] = x] /\ x.state = "terminal"
                 /\ x.lane = jobs[j].lane /\ x.outcome = "cancelled"
                 /\ x.completion = "cancelled" /\ x.consumer = "cancelled"
    BY <1>1, <1>6, CancelPendingRecord
  <2>2. jobs[j].state = "running" /\ jobs[j].fut = "pending"
    BY <1>6 DEF CancelPending, CanCancel
  <2>3. Told'
    BY <1>1, <2>1, OneTold DEF Truth
  <2>4. Seen[j] = "started" /\ AbstractPhase(x) = "over" /\ AbstractEnding(x) = "cancelled"
    BY <1>1, <2>1, <2>2, PhaseOf DEF AbstractPhase, AbstractEnding
  <2>5. Implements
    BY <1>1, <1>6, <2>1, <2>4, SeenFinished
  <2> QED BY <2>3, <2>5 DEF Faithful
<1>7. ASSUME DetachRunning(j), jobs[j].consumer = "waiting" PROVE Faithful
  <2>1. PICK x : /\ jobs' = [jobs EXCEPT ![j] = x] /\ x.state = jobs[j].state
                 /\ x.fut = jobs[j].fut /\ x.lane = jobs[j].lane /\ x.outcome = jobs[j].outcome
                 /\ x.completion = jobs[j].completion /\ x.consumer = "cancelled"
    BY <1>1, <1>7, DetachRunningRecord
  <2>2. Told'
    BY <1>1, <2>1, OneTold DEF Truth
  <2>3. AbstractPhase(x) = AbstractPhase(jobs[j]) /\ AbstractEnding(x) = AbstractEnding(jobs[j])
    BY <1>1, <2>1 DEF AbstractPhase, AbstractEnding
  <2>4. Implements
    BY <1>1, <1>7, <2>1, <2>3, SeenAnswered
  <2> QED BY <2>2, <2>4 DEF Faithful
<1>8. ASSUME CancelTerminal(j), jobs[j].consumer = "waiting" PROVE Faithful
  <2>1. PICK x : /\ jobs' = [jobs EXCEPT ![j] = x] /\ x.state = jobs[j].state
                 /\ x.fut = jobs[j].fut /\ x.lane = jobs[j].lane /\ x.outcome = jobs[j].outcome
                 /\ x.completion = Resolved(jobs[j], "cancelled") /\ x.consumer = "cancelled"
    BY <1>1, <1>8, CancelTerminalRecord
  <2>2. Told'
    BY <1>1, <2>1, OneTold DEF Truth, Resolved, Outcomes
  <2>3. AbstractPhase(x) = AbstractPhase(jobs[j]) /\ AbstractEnding(x) = AbstractEnding(jobs[j])
    BY <1>1, <2>1 DEF AbstractPhase, AbstractEnding
  <2>4. Implements
    BY <1>1, <1>8, <2>1, <2>3, SeenAnswered
  <2> QED BY <2>2, <2>4 DEF Faithful
<1>9. ASSUME ConsumerResumes(j) PROVE Faithful
  <2>1. PICK x : /\ jobs' = [jobs EXCEPT ![j] = x] /\ x.state = jobs[j].state
                 /\ x.fut = jobs[j].fut /\ x.lane = jobs[j].lane /\ x.outcome = jobs[j].outcome
                 /\ x.completion = jobs[j].completion /\ x.consumer = jobs[j].completion
    BY <1>1, <1>9, ResumesRecord
  <2>2. jobs[j].completion \in Outcomes /\ jobs[j].consumer = "waiting"
    BY <1>9 DEF ConsumerResumes
  <2>3. jobs[j].state = "terminal" /\ jobs[j].completion = jobs[j].outcome
    BY <1>1, <2>2 DEF Fate, Truth, Outcomes
  <2>4. Told'
    BY <1>1, <2>1, OneTold DEF Truth
  <2>5. /\ AbstractPhase(x) = AbstractPhase(jobs[j]) /\ AbstractEnding(x) = AbstractEnding(jobs[j])
        /\ Seen[j] = "over" /\ AbstractEnding(jobs[j]) = jobs[j].completion
    BY <1>1, <2>1, <2>3 DEF AbstractPhase, AbstractEnding
  <2>6. Implements
    BY <1>1, <2>1, <2>2, <2>5, SeenAnswered
  <2> QED BY <2>4, <2>6 DEF Faithful
<1>10. ASSUME Deliver(j) PROVE Faithful
  <2>1. jobs[j].deliveryPending
    BY <1>10 DEF Deliver
  <2>2. ~jobs[j].detached /\ jobs[j].completion = "pending"
    BY <1>1, <2>1 DEF Fate
  <2>3. PICK x : /\ jobs' = [jobs EXCEPT ![j] = x] /\ x.state = jobs[j].state
                 /\ x.fut = jobs[j].fut /\ x.lane = jobs[j].lane /\ x.outcome = jobs[j].outcome
                 /\ x.completion = (IF jobs[j].detached THEN jobs[j].completion
                                    ELSE Resolved(jobs[j], jobs[j].outcome))
                 /\ x.consumer = jobs[j].consumer
    BY <1>1, <1>10, DeliverRecord
  <2>4. x.completion = jobs[j].outcome
    BY <2>2, <2>3 DEF Resolved
  <2>5. Told'
    BY <1>1, <2>3, <2>4, OneTold DEF Truth
  <2>6. AbstractPhase(x) = AbstractPhase(jobs[j]) /\ AbstractEnding(x) = AbstractEnding(jobs[j])
    BY <1>1, <2>3 DEF AbstractPhase, AbstractEnding
  <2>7. Implements
    BY <1>1, <2>3, <2>6, SeenSame
  <2> QED BY <2>5, <2>7 DEF Faithful
<1>11. ASSUME RunScheduledCancel(j) PROVE Faithful
  <2>1. PICK x : /\ jobs' = [jobs EXCEPT ![j] = x] /\ x.state = jobs[j].state
                 /\ x.fut = jobs[j].fut /\ x.lane = jobs[j].lane /\ x.outcome = jobs[j].outcome
                 /\ x.completion = Resolved(jobs[j], "cancelled") /\ x.consumer = jobs[j].consumer
    BY <1>1, <1>11, ScheduledCancelRecord
  <2>2. Told'
    BY <1>1, <2>1, OneTold DEF Truth, Resolved, Outcomes
  <2>3. AbstractPhase(x) = AbstractPhase(jobs[j]) /\ AbstractEnding(x) = AbstractEnding(jobs[j])
    BY <1>1, <2>1 DEF AbstractPhase, AbstractEnding
  <2>4. Implements
    BY <1>1, <2>1, <2>3, SeenSame
  <2> QED BY <2>2, <2>4 DEF Faithful
<1> QED BY <1>3, <1>4, <1>5, <1>6, <1>7, <1>8, <1>9, <1>10, <1>11

\* close revokes every queued job at once, or none when there is none.
LEMMA CloseFaithful == ASSUME IInv, Told, CloseBegin PROVE Faithful
<1>1. JobsTyped
  BY DEF IInv, Typed
<1> DEFINE gone == {k \in Jobs : jobs[k].state = "queued"}
<1>2. \A k \in Jobs :
        IF k \in gone
        THEN /\ jobs'[k].state = "cancelled" /\ jobs'[k].lane = jobs[k].lane
             /\ jobs'[k].fut = jobs[k].fut /\ jobs'[k].outcome = jobs[k].outcome
             /\ jobs'[k].completion = jobs[k].completion /\ jobs'[k].consumer = jobs[k].consumer
        ELSE jobs'[k] = jobs[k]
  BY <1>1, CloseRecords
<1>3. Told'
  <2> SUFFICES ASSUME NEW k \in Jobs PROVE Truth(jobs'[k])
    BY DEF Told
  <2>1. Truth(jobs[k])
    BY DEF Told
  <2>2. CASE k \in gone
    BY <1>2, <2>1, <2>2 DEF Truth
  <2>3. CASE k \notin gone
    BY <1>2, <2>1, <2>3
  <2> QED BY <2>2, <2>3
<1>4. \A k \in gone : k \in Jobs /\ AbstractPhase(jobs[k]) = "queued"
  BY <1>1, PhaseOf DEF JobsTyped
<1>5. \A k \in Jobs : AbstractPhase(jobs'[k]) = IF k \in gone THEN "revoked" ELSE AbstractPhase(jobs[k])
  BY <1>2 DEF AbstractPhase
<1>6. \A k \in Jobs : /\ jobs'[k].lane = jobs[k].lane /\ jobs'[k].consumer = jobs[k].consumer
                      /\ AbstractEnding(jobs'[k]) = AbstractEnding(jobs[k])
  BY <1>2 DEF AbstractEnding
<1> HIDE DEF gone
<1>7. Seen' = [k \in Jobs |-> IF k \in gone THEN "revoked" ELSE Seen[k]]
  BY <1>5 DEF Seen
<1>8. UNCHANGED <<SeenLane, SeenEnding, SeenAnswer>>
  BY <1>6 DEF SeenLane, SeenEnding, SeenAnswer
<1>9. CASE gone = {}
  <2>1. Seen' = Seen
    BY <1>7, <1>9 DEF Seen
  <2>2. Implements
    BY <1>8, <2>1 DEF Implements, Abstract!bulkheadVars, Seen, SeenLane, SeenEnding, SeenAnswer, AbstractEnding
  <2> QED BY <1>3, <2>2 DEF Faithful
<1>10. CASE gone # {}
  <2>1. SeenAnswer' = [k \in Jobs |-> IF k \in {} THEN "cancelled" ELSE SeenAnswer[k]]
    BY <1>8 DEF SeenAnswer
  <2>2. \A k \in gone : Seen[k] = "queued"
    BY <1>4 DEF Seen
  <2>3. Abstract!Revoke(gone, {})
    BY <1>7, <1>8, <1>10, <2>1, <2>2
       DEF Abstract!Revoke, Seen, SeenLane, SeenEnding, SeenAnswer, AbstractEnding
  <2>4. gone \in SUBSET Jobs /\ {} \in SUBSET gone
    BY <1>4
  <2>5. Implements
    BY <2>3, <2>4 DEF Implements, Abstract!BulkheadNext
  <2> QED BY <1>3, <2>5 DEF Faithful
<1> QED BY <1>9, <1>10

\* Every step of the broker is a step of the bulkhead, or none that it sees.
LEMMA StepFaithful ==
  ASSUME BrokerAssumption, IInv, Fates, Told, [Next]_vars
  PROVE  Faithful
<1>1. ASSUME Quiet PROVE Faithful
  BY <1>1, QuietFaithful DEF Quiet
<1>2. CASE LockHolderStep
  <2>1. ASSUME NEW i \in 1..Cardinality(Jobs), PurgeJob(i) PROVE Faithful
    <3> DEFINE j == laneQueues[lock.of][i]
    <3>1. j \in Jobs /\ jobs[j].state = "queued"
      BY <2>1, PurgedJob
    <3>2. jobs' = [jobs EXCEPT ![j] = Revoked(@)]
      BY <2>1 DEF PurgeJob
    <3> HIDE DEF j
    <3> QED BY <3>1, <3>2, QueueFaithful
  <2> QED BY <1>1, <1>2, <2>1, QuietSteps, QueueFaithful DEF LockHolderStep
<1>3. CASE \E j \in Jobs, l \in Lanes, a \in Scopes : Admit(j, l, a) \/ Reject(j, l, a)
  BY <1>3, QueueFaithful
<1>4. CASE \E j \in Jobs : \/ WorkerStart(j) \/ WorkerComplete(j)
                           \/ \E o \in Endings : WorkerFinish(j, o)
                           \/ ConsumerResumes(j) \/ Deliver(j) \/ RunScheduledCancel(j)
  BY <1>4, RunFaithful
<1>5. CASE \E j \in Jobs : ConsumerCancelled(j)
  BY <1>5, RunFaithful, QueueFaithful DEF ConsumerCancelled, CancelOrDetach
<1>6. CASE CloseBegin
  BY <1>6, CloseFaithful
<1>7. CASE \/ LoopOwes \/ CloseEnd \/ LoopDies \/ UNCHANGED vars
           \/ \E g \in Gates : CloseAdmission(g) \/ HoldForPublication(g) \/ ReleaseHold(g)
           \/ \E g \in Gates, p \in [parallel : ParallelLimits, queue : QueueLimits] : SetPolicy(g, p)
           \/ \E limit \in GlobalLimits : Configure(limit)
  BY <1>1, <1>7, QuietSteps
<1> QED BY <1>2, <1>3, <1>4, <1>5, <1>6, <1>7 DEF Next

\* The broker starts as the bulkhead does.
LEMMA InitFaithful == Init => Abstract!BulkheadInit /\ Told
BY DEF Init, NewJob, Abstract!BulkheadInit, AbstractPhase, Told, Truth, Outcomes

\* The broker implements the bulkhead, for every number of jobs, gates and
\* workers: jobs move only along the legal lifecycle and within the bounds, and
\* each caller gets its own job's outcome, once.
THEOREM IsABulkhead == Spec => ImplementsBulkhead
<1>1. Init => Abstract!BulkheadInit /\ Told
  BY InitFaithful
<1>2. IInv /\ CInv /\ Told /\ [Next]_vars => Told' /\ [Abstract!BulkheadNext]_(Abstract!bulkheadVars)
  BY BrokerAssumption, StepFaithful DEF CInv, Faithful, Implements
<1> QED BY <1>1, <1>2, Control, PTL DEF Spec, ImplementsBulkhead, Abstract!BulkheadSpec
=============================================================================
