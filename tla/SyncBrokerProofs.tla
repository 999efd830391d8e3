-------------------------- MODULE SyncBrokerProofs --------------------------
(***************************************************************************)
(* Theorems about SyncBroker, for every value of its constants: its type   *)
(* invariant (no counter ever becomes negative), the exactness of its      *)
(* deques and counters and the bounds on what runs.                        *)
(***************************************************************************)
EXTENDS SyncBroker, DequeLemmas

QueuedJobs == {j \in Jobs : jobs[j].state = "queued"}
PendingJobs == {j \in Jobs : jobs[j].deliveryPending}

\* What has its type without any argument about counting, in five parts
JobsTyped == jobs \in [Jobs -> Job]

QueuesTyped ==
  /\ laneQueues \in [Lanes -> Seq(Jobs)] /\ laneKeys \subseteq Lanes
  /\ readyLanes \in Seq(Lanes)
  /\ runningByLane \in [Lanes -> Int]
  /\ queuedCount \in Int /\ runningCount \in Int /\ pendingDeliveryCount \in Int

BrokerTyped ==
  /\ globalQueueLimit \in GlobalLimits /\ closed \in BOOLEAN
  /\ executor \in {"none", "live", "shutdown"}
  /\ closeCall \in {"none", "waiting", "timedout", "drained"}
  /\ lock \in [by : {"nobody", "loop", "worker"},
               at : {"free", "dispatch", "purge", "settle"},
               of : Gates \cup {NoOne}, flag : BOOLEAN]

GatesTyped ==
  /\ gate \in [Gates -> {"open", "held", "closed"}]
  /\ policy \in [Gates -> [parallel : ParallelLimits, queue : QueueLimits]]
  /\ syncFutures \in [Gates -> SUBSET Jobs]
  /\ detachedFutures \in [Gates -> SUBSET Jobs]
  /\ poisoned \in [Gates -> BOOLEAN]

LoopTyped ==
  /\ fatalErrors \subseteq Jobs /\ cancelCalls \subseteq Jobs
  /\ loopAlive \in BOOLEAN
  /\ todo \in [op : {"idle", "mark", "discard", "notify", "closeGate"},
               of : Jobs \cup Gates \cup {NoOne}]

Typed == JobsTyped /\ QueuesTyped /\ BrokerTyped /\ GatesTyped /\ LoopTyped

\* An admitted job has a lane, a done future has an outcome, and so has a
\* finished job that awaits its delivery.
SoundJob ==
  {x \in Job : /\ x.state \notin {"new", "rejected"} => x.lane \in Lanes
               /\ x.fut = "done" => x.outcome # "none"
               /\ x.deliveryPending => x.state = "terminal" /\ x.outcome # "none"}

\* Job records are sound, and the lock's remaining work names a gate.
Linked ==
  /\ jobs \in [Jobs -> SoundJob]
  /\ lock.at \in {"purge", "settle"} => lock.of \in Gates

QueuesHold ==
  \A l \in Lanes : IsInjective(laneQueues[l]) /\ Range(laneQueues[l]) = QueuedIn(l)

ReadyOnce == IsInjective(readyLanes)

RunningCounted ==
  /\ runningCount = Cardinality(RunningJobs)
  /\ \A l \in Lanes : runningByLane[l] = Cardinality(RunningIn(l))

QueuedCounted == queuedCount = Cardinality(QueuedJobs)

PendingCounted == pendingDeliveryCount = Cardinality(PendingJobs)

WithinBounds ==
  /\ runningCount <= MaxWorkers
  /\ \A g \in Gates : runningByLane[g] <= CrossPluginCap

\* The inductive invariant
IInv ==
  /\ Typed /\ Linked
  /\ QueuesHold /\ ReadyOnce
  /\ RunningCounted /\ QueuedCounted /\ PendingCounted
  /\ WithinBounds

-----------------------------------------------------------------------------
\* Offering a lane keeps the ready lanes a sequence without repetition.
LEMMA QueueLaneFacts ==
  ASSUME NEW l \in Lanes, NEW ready \in Seq(Lanes), NEW queue, NEW running
  PROVE  /\ QueueLane(l, ready, queue, running) \in Seq(Lanes)
         /\ IsInjective(ready) => IsInjective(QueueLane(l, ready, queue, running))
BY AppendFacts DEF QueueLane

\* Retiring the executor leaves it in one of its three states.
LEMMA ExecutorAfterType ==
  ASSUME executor \in {"none", "live", "shutdown"}, NEW q, NEW r, NEW d
  PROVE  ExecutorAfter(q, r, d) \in {"none", "live", "shutdown"}
BY DEF ExecutorAfter

\* The head of a dispatched lane
LEMMA DispatchedHead ==
  ASSUME IInv, NEW l \in Lanes, NEW j \in Jobs, NEW r, DispatchHead(l, j, r)
  PROVE  /\ j \in Range(laneQueues[l]) /\ jobs[j].state = "queued" /\ jobs[j].lane = l
         /\ Tail(laneQueues[l]) \in Seq(Jobs)
         /\ IsInjective(Tail(laneQueues[l]))
         /\ Range(Tail(laneQueues[l])) = Range(laneQueues[l]) \ {j}
         /\ Tail(readyLanes) \in Seq(Lanes) /\ IsInjective(Tail(readyLanes))
<1>1. laneQueues[l] \in Seq(Jobs) /\ IsInjective(laneQueues[l]) /\ laneQueues[l] # <<>>
      /\ j = Head(laneQueues[l])
  BY DEF IInv, Typed, JobsTyped, QueuesTyped, BrokerTyped, QueuesHold, DispatchHead
<1>2. readyLanes \in Seq(Lanes) /\ IsInjective(readyLanes) /\ readyLanes # <<>>
  BY DEF IInv, Typed, JobsTyped, QueuesTyped, BrokerTyped, ReadyOnce, DispatchHead, CanDispatch
<1>3. j \in QueuedIn(l)
  BY <1>1, TailFacts DEF IInv, QueuesHold
<1> QED BY <1>1, <1>2, <1>3, TailFacts DEF QueuedIn

\* Dispatching the head of a lane keeps the types of what it writes.
LEMMA DispatchedTypes ==
  ASSUME IInv, NEW l \in Lanes, NEW j \in Jobs, NEW r, DispatchHead(l, j, r)
  PROVE  /\ laneQueues' \in [Lanes -> Seq(Jobs)] /\ readyLanes' \in Seq(Lanes)
         /\ laneKeys' \subseteq Lanes /\ queuedCount' \in Int
<1>1. /\ laneQueues \in [Lanes -> Seq(Jobs)]
      /\ laneKeys \subseteq Lanes /\ queuedCount \in Int
  BY DEF IInv, Typed, JobsTyped, QueuesTyped, BrokerTyped
<1>2. Tail(laneQueues[l]) \in Seq(Jobs) /\ Tail(readyLanes) \in Seq(Lanes)
  BY DispatchedHead
<1>3. readyLanes' \in Seq(Lanes)
  BY <1>2, QueueLaneFacts DEF DispatchHead
<1> QED BY <1>1, <1>2, <1>3 DEF DispatchHead, KeysAfter

\* Releasing a slot keeps the types of what it writes.
LEMMA ReleasedTypes ==
  ASSUME IInv, NEW l \in Lanes, ReleaseSlot(l)
  PROVE  /\ readyLanes' \in Seq(Lanes) /\ laneKeys' \subseteq Lanes
         /\ runningByLane' \in [Lanes -> Int] /\ runningCount' \in Int
<1>1. /\ laneKeys \subseteq Lanes /\ runningByLane \in [Lanes -> Int]
      /\ runningCount \in Int /\ readyLanes \in Seq(Lanes)
  BY DEF IInv, Typed, JobsTyped, QueuesTyped, BrokerTyped
<1>2. readyLanes' \in Seq(Lanes)
  BY <1>1, QueueLaneFacts DEF ReleaseSlot
<1> QED BY <1>1, <1>2 DEF ReleaseSlot

\* Discarding a future keeps the types of the gate's future sets and flag.
LEMMA DiscardTypes ==
  ASSUME GatesTyped, NEW j \in Jobs, Discard(j)
  PROVE  /\ syncFutures' \in [Gates -> SUBSET Jobs]
         /\ detachedFutures' \in [Gates -> SUBSET Jobs]
         /\ poisoned' \in [Gates -> BOOLEAN]
<1>1. /\ syncFutures \in [Gates -> SUBSET Jobs]
      /\ detachedFutures \in [Gates -> SUBSET Jobs]
      /\ poisoned \in [Gates -> BOOLEAN]
  BY DEF GatesTyped
<1>2. CASE UNCHANGED trackVars
  BY <1>1, <1>2 DEF trackVars
<1>3. ASSUME NEW g, NEW b,
             Untrack(g, j), poisoned' = [poisoned EXCEPT ![g] = @ /\ b]
      PROVE  /\ syncFutures' \in [Gates -> SUBSET Jobs]
             /\ detachedFutures' \in [Gates -> SUBSET Jobs]
             /\ poisoned' \in [Gates -> BOOLEAN]
  <2>1. (poisoned[g] /\ b) \in BOOLEAN
    OBVIOUS
  <2>2. poisoned' \in [Gates -> BOOLEAN]
    BY <1>1, <1>3, <2>1
  <2>3. /\ syncFutures' = [syncFutures EXCEPT ![g] = @ \ {j}]
        /\ detachedFutures' = [detachedFutures EXCEPT ![g] = @ \ {j}]
    BY <1>3 DEF Untrack
  <2> QED BY <1>1, <2>2, <2>3
<1> QED BY <1>2, <1>3 DEF Discard

-----------------------------------------------------------------------------
(* What each action changes of the job records *)

\* One record is replaced; what the counters depend on becomes st, ln and dp.
Change(j, st, ln, dp) ==
  \E r \in SoundJob : /\ jobs' = [jobs EXCEPT ![j] = r]
                 /\ r.state = st /\ r.lane = ln /\ r.deliveryPending = dp

Kept(j) == Change(j, jobs[j].state, jobs[j].lane, jobs[j].deliveryPending)

\* The sets the counters count, after such a replacement
LEMMA ChangeFacts ==
  ASSUME jobs \in [Jobs -> SoundJob], NEW j \in Jobs, NEW st, NEW ln, NEW dp,
         Change(j, st, ln, dp)
  PROVE  /\ jobs' \in [Jobs -> SoundJob]
         /\ jobs'[j].state = st /\ jobs'[j].lane = ln /\ jobs'[j].deliveryPending = dp
         /\ \A k \in Jobs \ {j} : jobs'[k] = jobs[k]
         /\ RunningJobs' = IF st = "running" THEN RunningJobs \cup {j} ELSE RunningJobs \ {j}
         /\ QueuedJobs' = IF st = "queued" THEN QueuedJobs \cup {j} ELSE QueuedJobs \ {j}
         /\ PendingJobs' = IF dp THEN PendingJobs \cup {j} ELSE PendingJobs \ {j}
         /\ \A l \in Lanes :
              /\ RunningIn(l)' = IF st = "running" /\ ln = l
                                 THEN RunningIn(l) \cup {j} ELSE RunningIn(l) \ {j}
              /\ QueuedIn(l)' = IF st = "queued" /\ ln = l
                                THEN QueuedIn(l) \cup {j} ELSE QueuedIn(l) \ {j}
<1>1. PICK r \in SoundJob : /\ jobs' = [jobs EXCEPT ![j] = r]
                       /\ r.state = st /\ r.lane = ln /\ r.deliveryPending = dp
  BY DEF Change
<1>2. /\ jobs' \in [Jobs -> SoundJob] /\ jobs'[j] = r
      /\ \A k \in Jobs \ {j} : jobs'[k] = jobs[k]
  BY <1>1
<1> QED BY <1>1, <1>2 DEF RunningJobs, RunningIn, QueuedJobs, QueuedIn, PendingJobs

\* Admitting a new job queues it in its lane.
LEMMA AdmitChange ==
  ASSUME jobs \in [Jobs -> SoundJob], NEW j \in Jobs, NEW l \in Lanes, NEW a \in BOOLEAN,
         Admit(j, l, a)
  PROVE  Change(j, "queued", l, jobs[j].deliveryPending)
<1> DEFINE E(x) == [x EXCEPT !.state = "queued", !.lane = l,
                                !.allowClosed = a, !.consumer = "waiting"]
<1>1. ASSUME NEW x \in SoundJob, x.state = "new"
      PROVE  /\ E(x) \in SoundJob /\ E(x).state = "queued" /\ E(x).lane = l
             /\ E(x).deliveryPending = x.deliveryPending
  <2>1. x \in Job /\ x \in SoundJob
    BY DEF SoundJob
  <2>2. E(x) \in Job
    BY <2>1 DEF Job
  <2>3. /\ E(x).state = "queued"
        /\ E(x).lane = l
        /\ E(x).fut = x.fut
        /\ E(x).outcome = x.outcome
        /\ E(x).deliveryPending = x.deliveryPending
    BY <2>1 DEF Job
  <2> HIDE DEF E
  <2> QED BY <1>1, <2>1, <2>2, <2>3 DEF SoundJob
<1>2. jobs' = [jobs EXCEPT ![j] = E(jobs[j])]
  BY DEF Admit
<1>3. jobs[j].state = "new"
  BY DEF Admit
<1> HIDE DEF E
<1> QED BY <1>1, <1>2, <1>3 DEF Change

\* Rejecting a new job leaves it without a lane.
LEMMA RejectChange ==
  ASSUME jobs \in [Jobs -> SoundJob], NEW j \in Jobs, NEW l \in Lanes, NEW a \in BOOLEAN,
         Reject(j, l, a)
  PROVE  Change(j, "rejected", jobs[j].lane, jobs[j].deliveryPending)
<1> DEFINE E(x) == [x EXCEPT !.state = "rejected"]
<1>1. ASSUME NEW x \in SoundJob, x.state = "new"
      PROVE  /\ E(x) \in SoundJob /\ E(x).state = "rejected" /\ E(x).lane = x.lane
             /\ E(x).deliveryPending = x.deliveryPending
  <2>1. x \in Job /\ x \in SoundJob
    BY DEF SoundJob
  <2>2. E(x) \in Job
    BY <2>1 DEF Job
  <2>3. /\ E(x).state = "rejected"
        /\ E(x).lane = x.lane
        /\ E(x).fut = x.fut
        /\ E(x).outcome = x.outcome
        /\ E(x).deliveryPending = x.deliveryPending
    BY <2>1 DEF Job
  <2> HIDE DEF E
  <2> QED BY <1>1, <2>1, <2>2, <2>3 DEF SoundJob
<1>2. jobs' = [jobs EXCEPT ![j] = E(jobs[j])]
  BY DEF Reject
<1>3. jobs[j].state = "new"
  BY DEF Reject
<1> HIDE DEF E
<1> QED BY <1>1, <1>2, <1>3 DEF Change

\* Revoking a queued job cancels it in place.
LEMMA RevokedChange ==
  ASSUME jobs \in [Jobs -> SoundJob], NEW j \in Jobs, jobs[j].state = "queued",
         jobs' = [jobs EXCEPT ![j] = Revoked(@)]
  PROVE  Change(j, "cancelled", jobs[j].lane, jobs[j].deliveryPending)
<1>1. ASSUME NEW x \in SoundJob, x.state = "queued"
      PROVE  /\ Revoked(x) \in SoundJob
             /\ Revoked(x).state = "cancelled" /\ Revoked(x).lane = x.lane
             /\ Revoked(x).deliveryPending = x.deliveryPending
  <2>1. x \in Job /\ x \in SoundJob
    BY DEF SoundJob
  <2>2. Revoked(x) \in Job
    BY <2>1 DEF Job, Revoked
  <2>3. /\ Revoked(x).state = "cancelled"
        /\ Revoked(x).lane = x.lane
        /\ Revoked(x).fut = x.fut
        /\ Revoked(x).outcome = x.outcome
        /\ Revoked(x).deliveryPending = x.deliveryPending
    BY <2>1 DEF Job, Revoked
  <2> QED BY <1>1, <2>1, <2>2, <2>3 DEF SoundJob
<1> QED BY <1>1 DEF Change

\* A consumer that cancels a queued job cancels the record too.
LEMMA CancelQueuedChange ==
  ASSUME jobs \in [Jobs -> SoundJob], NEW j \in Jobs, CancelQueued(j)
  PROVE  Change(j, "cancelled", jobs[j].lane, jobs[j].deliveryPending)
<1> DEFINE E(x) == [Revoked(x) EXCEPT !.completion = "cancelled",
                                         !.consumer = "cancelled"]
<1>1. ASSUME NEW x \in SoundJob, x.state = "queued"
      PROVE  /\ E(x) \in SoundJob /\ E(x).state = "cancelled" /\ E(x).lane = x.lane
             /\ E(x).deliveryPending = x.deliveryPending
  <2>1. x \in Job /\ x \in SoundJob
    BY DEF SoundJob
  <2>2. E(x) \in Job
    BY <2>1 DEF Job, Revoked
  <2>3. /\ E(x).state = "cancelled"
        /\ E(x).lane = x.lane
        /\ E(x).fut = x.fut
        /\ E(x).outcome = x.outcome
        /\ E(x).deliveryPending = x.deliveryPending
    BY <2>1 DEF Job, Revoked
  <2> HIDE DEF E
  <2> QED BY <1>1, <2>1, <2>2, <2>3 DEF SoundJob
<1>2. jobs' = [jobs EXCEPT ![j] = E(jobs[j])]
  BY DEF CancelQueued
<1>3. jobs[j].state = "queued"
  BY DEF CancelQueued
<1> HIDE DEF E
<1> QED BY <1>1, <1>2, <1>3 DEF Change

\* Handing a queued job to the executor makes it running.
LEMMA StartChange ==
  ASSUME jobs \in [Jobs -> SoundJob], NEW j \in Jobs, NEW l \in Lanes,
         jobs[j].state = "queued", DispatchStart(l, j)
  PROVE  Change(j, "running", jobs[j].lane, jobs[j].deliveryPending)
<1> DEFINE E(x) == [x EXCEPT !.state = "running", !.fut = "pending"]
<1>1. ASSUME NEW x \in SoundJob, x.state = "queued"
      PROVE  /\ E(x) \in SoundJob /\ E(x).state = "running" /\ E(x).lane = x.lane
             /\ E(x).deliveryPending = x.deliveryPending
  <2>1. x \in Job /\ x \in SoundJob
    BY DEF SoundJob
  <2>2. E(x) \in Job
    BY <2>1 DEF Job
  <2>3. /\ E(x).state = "running"
        /\ E(x).lane = x.lane
        /\ E(x).fut = "pending"
        /\ E(x).outcome = x.outcome
        /\ E(x).deliveryPending = x.deliveryPending
    BY <2>1 DEF Job
  <2> HIDE DEF E
  <2> QED BY <1>1, <2>1, <2>2, <2>3 DEF SoundJob
<1>2. jobs' = [jobs EXCEPT ![j] = E(jobs[j])]
  BY DEF DispatchStart
<1> HIDE DEF E
<1> QED BY <1>1, <1>2 DEF Change

\* A failed executor submission ends the job with an error.
LEMMA FailedChange ==
  ASSUME jobs \in [Jobs -> SoundJob], loopAlive \in BOOLEAN,
         NEW j \in Jobs, NEW l \in Lanes,
         jobs[j].state = "queued", DispatchFailed(l, j)
  PROVE  Change(j, "terminal", jobs[j].lane, loopAlive)
<1> DEFINE E(x) == [x EXCEPT !.state = "terminal",
                !.outcome = "error", !.detached = ~loopAlive,
                !.delivered = ~loopAlive, !.deliveryPending = loopAlive]
<1>1. ASSUME NEW x \in SoundJob, x.state = "queued"
      PROVE  E(x) \in SoundJob /\ E(x).state = "terminal" /\ E(x).lane = x.lane /\ E(x).deliveryPending = loopAlive
  <2>1. x \in Job /\ x \in SoundJob
    BY DEF SoundJob
  <2>2. E(x) \in Job
    BY ZenonT(60), <2>1 DEF Job, Outcomes
  <2>3. /\ E(x).state = "terminal"
        /\ E(x).lane = x.lane
        /\ E(x).fut = x.fut
        /\ E(x).outcome = "error"
        /\ E(x).deliveryPending = loopAlive
    BY <2>1 DEF Job, Outcomes
  <2> HIDE DEF E
  <2> QED BY <1>1, <2>1, <2>2, <2>3 DEF SoundJob
<1>2. jobs' = [jobs EXCEPT ![j] = E(jobs[j])]
  BY DEF DispatchFailed
<1> HIDE DEF E
<1> QED BY <1>1, <1>2 DEF Change

\* A returned callback makes its job terminal, with a delivery if awaited.
LEMMA CompleteChange ==
  ASSUME jobs \in [Jobs -> SoundJob], NEW j \in Jobs, WorkerComplete(j)
  PROVE  Change(j, "terminal", jobs[j].lane, ~(jobs[j].detached \/ ~loopAlive))
<1> DEFINE d == jobs[j].detached \/ ~loopAlive
           E(x, b, c) == [x EXCEPT !.state = "terminal", !.detached = b,
                                   !.delivered = b, !.deliveryPending = c]
<1>1. ASSUME NEW x \in SoundJob, x.state = "running", x.fut = "done",
             NEW b \in BOOLEAN, NEW c \in BOOLEAN
      PROVE  /\ E(x, b, c) \in SoundJob /\ E(x, b, c).state = "terminal"
             /\ E(x, b, c).lane = x.lane /\ E(x, b, c).deliveryPending = c
  <2>1. x \in Job /\ x \in SoundJob
    BY DEF SoundJob
  <2>2. E(x, b, c) \in Job
    BY <2>1 DEF Job
  <2>3. /\ E(x, b, c).state = "terminal"
        /\ E(x, b, c).lane = x.lane
        /\ E(x, b, c).fut = x.fut
        /\ E(x, b, c).outcome = x.outcome
        /\ E(x, b, c).deliveryPending = c
    BY <2>1 DEF Job
  <2> HIDE DEF E
  <2> QED BY <1>1, <2>1, <2>2, <2>3 DEF SoundJob
<1>2. jobs' = [jobs EXCEPT ![j] = E(jobs[j], d, ~d)]
  BY DEF WorkerComplete
<1>3. jobs[j].state = "running" /\ jobs[j].fut = "done"
  BY DEF WorkerComplete, ReturnedCallback
<1>4. d \in BOOLEAN /\ (~d) \in BOOLEAN
  OBVIOUS
<1> HIDE DEF d, E
<1>5. Change(j, "terminal", jobs[j].lane, ~d)
  BY <1>1, <1>2, <1>3, <1>4 DEF Change
<1> QED BY <1>5 DEF d

\* Cancelling a future no thread took yet makes its job terminal.
LEMMA CancelPendingChange ==
  ASSUME jobs \in [Jobs -> SoundJob], NEW j \in Jobs, CancelPending(j)
  PROVE  Change(j, "terminal", jobs[j].lane, jobs[j].deliveryPending)
<1> DEFINE E(x) == [x EXCEPT !.state = "terminal", !.fut = "done",
                !.outcome = "cancelled", !.detached = TRUE, !.delivered = TRUE,
                !.completion = "cancelled", !.consumer = "cancelled"]
<1>1. ASSUME NEW x \in SoundJob, x.state = "running"
      PROVE  /\ E(x) \in SoundJob /\ E(x).state = "terminal" /\ E(x).lane = x.lane
             /\ E(x).deliveryPending = x.deliveryPending
  <2>1. x \in Job /\ x \in SoundJob
    BY DEF SoundJob
  <2>2. E(x) \in Job
    BY <2>1 DEF Job
  <2>3. /\ E(x).state = "terminal"
        /\ E(x).lane = x.lane
        /\ E(x).fut = "done"
        /\ E(x).outcome = "cancelled"
        /\ E(x).deliveryPending = x.deliveryPending
    BY <2>1 DEF Job
  <2> HIDE DEF E
  <2> QED BY <1>1, <2>1, <2>2, <2>3 DEF SoundJob
<1>2. jobs' = [jobs EXCEPT ![j] = E(jobs[j])]
  BY DEF CancelPending
<1>3. jobs[j].state = "running"
  BY DEF CancelPending
<1> HIDE DEF E
<1> QED BY <1>1, <1>2, <1>3 DEF Change

\* Delivering or taking over an outcome ends the pending delivery.
LEMMA SettledChange ==
  ASSUME jobs \in [Jobs -> SoundJob], NEW j \in Jobs, CancelTerminal(j) \/ Deliver(j)
  PROVE  Change(j, jobs[j].state, jobs[j].lane, FALSE)
<1> DEFINE E(x, c) == [x EXCEPT !.detached = TRUE, !.delivered = TRUE,
                         !.deliveryPending = FALSE, !.consumer = "cancelled",
                         !.completion = c]
           F(x, c) == [x EXCEPT !.delivered = TRUE, !.deliveryPending = FALSE,
                         !.completion = c]
           Completions == Outcomes \cup {"pending", "cancelled"}
           c1 == Resolved(jobs[j], "cancelled")
           c2 == IF jobs[j].detached THEN jobs[j].completion
                 ELSE Resolved(jobs[j], jobs[j].outcome)
<1>1. ASSUME NEW x \in SoundJob, NEW c \in Completions
      PROVE  /\ E(x, c) \in SoundJob /\ E(x, c).state = x.state /\ E(x, c).lane = x.lane
             /\ E(x, c).deliveryPending = FALSE
  <2>1. x \in Job /\ x \in SoundJob
    BY DEF SoundJob
  <2>2. E(x, c) \in Job
    BY <2>1 DEF Job
  <2>3. /\ E(x, c).state = x.state
        /\ E(x, c).lane = x.lane
        /\ E(x, c).fut = x.fut
        /\ E(x, c).outcome = x.outcome
        /\ E(x, c).deliveryPending = FALSE
    BY <2>1 DEF Job
  <2> HIDE DEF E
  <2> QED BY <1>1, <2>1, <2>2, <2>3 DEF SoundJob
<1>2. ASSUME NEW x \in SoundJob, NEW c \in Completions
      PROVE  /\ F(x, c) \in SoundJob /\ F(x, c).state = x.state /\ F(x, c).lane = x.lane
             /\ F(x, c).deliveryPending = FALSE
  <2>1. x \in Job /\ x \in SoundJob
    BY DEF SoundJob
  <2>2. F(x, c) \in Job
    BY <2>1 DEF Job
  <2>3. /\ F(x, c).state = x.state
        /\ F(x, c).lane = x.lane
        /\ F(x, c).fut = x.fut
        /\ F(x, c).outcome = x.outcome
        /\ F(x, c).deliveryPending = FALSE
    BY <2>1 DEF Job
  <2> HIDE DEF F
  <2> QED BY <1>2, <2>1, <2>2, <2>3 DEF SoundJob
<1>3. CASE CancelTerminal(j)
  <2>1. jobs' = [jobs EXCEPT ![j] = E(jobs[j], c1)]
    BY <1>3 DEF CancelTerminal
  <2>2. ASSUME NEW x \in SoundJob PROVE x.completion \in Completions
    BY DEF SoundJob, Job
  <2>3. c1 \in Completions
    BY <2>2 DEF Resolved
  <2> HIDE DEF E, F, c1, c2
  <2> QED BY <1>1, <2>1, <2>3 DEF Change
<1>4. CASE Deliver(j)
  <2>1. jobs' = [jobs EXCEPT ![j] = F(jobs[j], c2)]
    BY <1>4 DEF Deliver
  <2>2. ASSUME NEW x \in SoundJob
        PROVE  /\ x.completion \in Completions
               /\ x.deliveryPending => x.outcome \in Completions
    BY DEF SoundJob, Job
  <2>3. c2 \in Completions
    BY <1>4, <2>2 DEF Deliver, Resolved
  <2> HIDE DEF E, F, c1, c2
  <2> QED BY <1>2, <2>1, <2>3 DEF Change
<1> QED BY <1>3, <1>4

\* Steps that leave a job's state, lane and pending delivery as they were.
LEMMA KeptChange ==
  ASSUME jobs \in [Jobs -> SoundJob], NEW j \in Jobs,
         \/ WorkerStart(j)
         \/ \E o \in Endings : WorkerFinish(j, o)
         \/ DetachRunning(j) \/ CancelCancelled(j)
         \/ ConsumerResumes(j) \/ RunScheduledCancel(j)
  PROVE  Kept(j)
<1> DEFINE Same(x, y) == /\ y \in SoundJob /\ y.state = x.state /\ y.lane = x.lane
                         /\ y.deliveryPending = x.deliveryPending
<1>1. ASSUME NEW y, Same(jobs[j], y), jobs' = [jobs EXCEPT ![j] = y]
      PROVE  Kept(j)
  BY <1>1 DEF Kept, Change
<1>2. CASE WorkerStart(j)
  <2>1. ASSUME NEW x \in SoundJob PROVE Same(x, [x EXCEPT !.fut = "running"])
    BY DEF SoundJob, Job
  <2>2. jobs' = [jobs EXCEPT ![j] = [jobs[j] EXCEPT !.fut = "running"]]
    BY <1>2 DEF WorkerStart
  <2> HIDE DEF Same
  <2> QED BY <1>1, <2>1, <2>2
<1>3. ASSUME NEW o \in Endings, WorkerFinish(j, o) PROVE Kept(j)
  <2>1. ASSUME NEW x \in SoundJob
        PROVE  Same(x, [x EXCEPT !.fut = "done", !.outcome = o])
    <3>1. o \in Outcomes /\ o # "none"
      BY BrokerAssumption DEF Outcomes
    <3> QED BY ZenonT(60), <3>1 DEF SoundJob, Job
  <2>2. jobs' = [jobs EXCEPT ![j] = [jobs[j] EXCEPT !.fut = "done", !.outcome = o]]
    BY <1>3 DEF WorkerFinish
  <2> HIDE DEF Same
  <2> QED BY <1>1, <2>1, <2>2
<1>4. CASE DetachRunning(j)
  <2>1. ASSUME NEW x \in SoundJob
        PROVE  Same(x, [x EXCEPT !.detached = TRUE, !.consumer = "cancelled"])
    BY ZenonT(60) DEF SoundJob, Job
  <2>2. jobs' = [jobs EXCEPT ![j] = [jobs[j] EXCEPT !.detached = TRUE,
                                                    !.consumer = "cancelled"]]
    BY <1>4 DEF DetachRunning
  <2> HIDE DEF Same
  <2> QED BY <1>1, <2>1, <2>2
<1>5. CASE CancelCancelled(j)
  <2>1. ASSUME NEW x \in SoundJob PROVE Same(x, [x EXCEPT !.consumer = "cancelled"])
    BY DEF SoundJob, Job
  <2>2. jobs' = [jobs EXCEPT ![j] = [jobs[j] EXCEPT !.consumer = "cancelled"]]
    BY <1>5 DEF CancelCancelled
  <2> HIDE DEF Same
  <2> QED BY <1>1, <2>1, <2>2
<1>6. CASE ConsumerResumes(j)
  <2>1. ASSUME NEW x \in SoundJob, NEW c \in Outcomes
        PROVE  Same(x, [x EXCEPT !.consumer = c])
    BY DEF SoundJob, Job
  <2>2. /\ jobs' = [jobs EXCEPT ![j] = [jobs[j] EXCEPT !.consumer = jobs[j].completion]]
        /\ jobs[j].completion \in Outcomes
    BY <1>6 DEF ConsumerResumes
  <2> HIDE DEF Same
  <2> QED BY <1>1, <2>1, <2>2
<1>7. CASE RunScheduledCancel(j)
  <2> DEFINE c == Resolved(jobs[j], "cancelled")
  <2>1. ASSUME NEW x \in SoundJob,
               NEW b \in {x.completion, "cancelled"}
        PROVE  Same(x, [x EXCEPT !.completion = b])
    BY DEF SoundJob, Job
  <2>2. jobs' = [jobs EXCEPT ![j] = [jobs[j] EXCEPT !.completion = c]]
    BY <1>7 DEF RunScheduledCancel
  <2>3. c \in {jobs[j].completion, "cancelled"}
    BY DEF Resolved
  <2> HIDE DEF Same, c
  <2> QED BY <1>1, <2>1, <2>2, <2>3
<1> QED BY <1>2, <1>3, <1>4, <1>5, <1>6, <1>7

-----------------------------------------------------------------------------
(* Types are preserved *)

\* A step keeps the type of the parts whose variables it leaves alone.
LEMMA PartsKept ==
  /\ UNCHANGED jobs => (JobsTyped => JobsTyped')
  /\ UNCHANGED <<queueVars, pendingDeliveryCount>> => (QueuesTyped => QueuesTyped')
  /\ UNCHANGED <<brokerVars, lock>> => (BrokerTyped => BrokerTyped')
  /\ UNCHANGED <<gateVars, trackVars>> => (GatesTyped => GatesTyped')
  /\ UNCHANGED <<fatalErrors, cancelCalls, loopAlive, todo>> => (LoopTyped => LoopTyped')
<1>1. UNCHANGED jobs => (JobsTyped => JobsTyped')
  BY DEF JobsTyped
<1>2. UNCHANGED <<queueVars, pendingDeliveryCount>> => (QueuesTyped => QueuesTyped')
  BY DEF QueuesTyped, queueVars
<1>3. UNCHANGED <<brokerVars, lock>> => (BrokerTyped => BrokerTyped')
  BY DEF BrokerTyped, brokerVars
<1>4. UNCHANGED <<gateVars, trackVars>> => (GatesTyped => GatesTyped')
  BY DEF GatesTyped, gateVars, trackVars
<1>5. UNCHANGED <<fatalErrors, cancelCalls, loopAlive, todo>> => (LoopTyped => LoopTyped')
  BY DEF LoopTyped
<1> QED BY <1>1, <1>2, <1>3, <1>4, <1>5

\* The loop thread's own calls: it writes gates, the lock and what it owes
LEMMA LoopDiscardTyped ==
  ASSUME Typed, NEW j \in Jobs, LoopDiscard(j)
  PROVE  Typed'
<1>1. GatesTyped'
  BY DiscardTypes DEF LoopDiscard, Typed, GatesTyped, gateVars
<1>2. LoopTyped'
  BY DEF LoopDiscard, LoopDoes, Idle, Typed, LoopTyped
<1> QED BY <1>1, <1>2, PartsKept DEF LoopDiscard, Typed

\* Marking a detached future keeps the types.
LEMMA LoopMarkTyped ==
  ASSUME Typed, NEW j \in Jobs, LoopMark(j)
  PROVE  Typed'
<1>1. GatesTyped'
  <2> DEFINE g == jobs[j].lane
  <2>1. CASE UNCHANGED <<detachedFutures, poisoned>>
    BY <2>1, PartsKept DEF LoopMark, Typed, trackVars
  <2>2. CASE /\ detachedFutures' = [detachedFutures EXCEPT ![g] = @ \cup {j}]
             /\ poisoned' = [poisoned EXCEPT ![g] = TRUE]
    <3> HIDE DEF g
    <3>1. UNCHANGED <<gate, policy, syncFutures>>
      BY DEF LoopMark, gateVars
    <3> QED BY <2>2, <3>1 DEF Typed, GatesTyped
  <2> QED BY <2>1, <2>2 DEF LoopMark
<1>2. LoopTyped'
  BY DEF LoopMark, LoopDoes, Idle, Typed, LoopTyped
<1> QED BY <1>1, <1>2, PartsKept DEF LoopMark, Typed

\* notify_policy_change keeps the types.
LEMMA LoopNotifyTyped ==
  ASSUME Typed, NEW g \in Gates, LoopNotify(g)
  PROVE  Typed'
<1>1. readyLanes' \in Seq(Lanes)
  BY QueueLaneFacts DEF LoopNotify, Typed, QueuesTyped, Lanes
<1>2. QueuesTyped'
  BY <1>1 DEF LoopNotify, Typed, QueuesTyped
<1>3. BrokerTyped'
  BY DEF LoopNotify, Dispatching, Typed, BrokerTyped, brokerVars
<1>4. LoopTyped'
  BY DEF LoopNotify, LoopDoes, Idle, Typed, LoopTyped
<1> QED BY <1>2, <1>3, <1>4, PartsKept DEF LoopNotify, Typed

\* The start of close_gate_admission keeps the types.
LEMMA LoopCloseGateTyped ==
  ASSUME Typed, NEW g \in Gates, LoopCloseGate(g)
  PROVE  Typed'
<1>1. lock' \in {Unlocked, [by |-> "loop", at |-> "purge", of |-> g, flag |-> FALSE]}
  BY DEF LoopCloseGate
<1>2. BrokerTyped'
  BY <1>1 DEF LoopCloseGate, Unlocked, Typed, BrokerTyped, brokerVars
<1>3. LoopTyped'
  BY DEF LoopCloseGate, LoopDoes, Idle, Typed, LoopTyped
<1> QED BY <1>2, <1>3, PartsKept DEF LoopCloseGate, Typed

\* Closing, holding or releasing a gate keeps the types.
LEMMA GateCallTyped ==
  ASSUME Typed, NEW g \in Gates, NEW from, NEW to \in {"open", "held", "closed"},
         NEW call \in {"notify", "closeGate"}, GateCall(g, from, to, call)
  PROVE  Typed'
<1>1. GatesTyped'
  BY DEF GateCall, Typed, GatesTyped, trackVars
<1>2. LoopTyped'
  BY DEF GateCall, Typed, LoopTyped
<1> QED BY <1>1, <1>2, PartsKept DEF GateCall, Typed

\* Replacing a policy keeps the types.
LEMMA SetPolicyTyped ==
  ASSUME Typed, NEW g \in Gates,
         NEW p \in [parallel : ParallelLimits, queue : QueueLimits], SetPolicy(g, p)
  PROVE  Typed'
<1>1. GatesTyped'
  BY DEF SetPolicy, Typed, GatesTyped, trackVars
<1>2. LoopTyped'
  BY DEF SetPolicy, Typed, LoopTyped
<1> QED BY <1>1, <1>2, PartsKept DEF SetPolicy, Typed

\* configure, the end of close and the end of the loop keep the types.
LEMMA BrokerCallsTyped ==
  ASSUME Typed,
         \/ \E limit \in GlobalLimits : Configure(limit)
         \/ CloseEnd \/ LoopDies
  PROVE  Typed'
<1>1. ASSUME NEW limit \in GlobalLimits, Configure(limit) PROVE Typed'
  <2>1. BrokerTyped'
    BY <1>1 DEF Configure, Dispatching, Typed, BrokerTyped
  <2> QED BY <1>1, <2>1, PartsKept DEF Configure, Typed
<1>2. CASE CloseEnd
  <2>1. executor' \in {"none", "live", "shutdown"}
    BY <1>2, ExecutorAfterType DEF CloseEnd, Typed, BrokerTyped
  <2>2. BrokerTyped'
    BY <1>2, <2>1 DEF CloseEnd, Typed, BrokerTyped
  <2> QED BY <1>2, <2>2, PartsKept DEF CloseEnd, Typed
<1>3. CASE LoopDies
  <2>1. LoopTyped'
    BY <1>3 DEF LoopDies, Typed, LoopTyped
  <2> QED BY <1>3, <2>1, PartsKept DEF LoopDies, Typed
<1> QED BY <1>1, <1>2, <1>3

\* Steps of the dispatch loop and of the purge
LEMMA DispatchSkipTyped ==
  ASSUME IInv, DispatchSkip
  PROVE  Typed'
<1>1. readyLanes \in Seq(Lanes) /\ readyLanes # <<>> /\ laneKeys \subseteq Lanes
  BY DEF IInv, Typed, QueuesTyped, DispatchSkip, CanDispatch
<1>2. readyLanes' \in Seq(Lanes) /\ laneKeys' \subseteq Lanes
  BY <1>1, HeadTailProperties DEF DispatchSkip
<1>3. QueuesTyped'
  BY <1>2 DEF DispatchSkip, IInv, Typed, QueuesTyped
<1> QED BY <1>3, PartsKept DEF DispatchSkip, IInv, Typed

\* Dropping a job whose gate has closed keeps the types.
LEMMA DispatchCancelledTyped ==
  ASSUME IInv, JobsTyped', NEW l \in Lanes, NEW j \in Jobs, DispatchCancelled(l, j)
  PROVE  Typed'
<1>1. QueuesTyped'
  BY DispatchedTypes DEF DispatchCancelled, IInv, Typed, QueuesTyped
<1>2. cancelCalls' \subseteq Jobs
  BY DEF DispatchCancelled, ScheduleCancel, IInv, Typed, LoopTyped
<1>3. LoopTyped'
  BY <1>2 DEF DispatchCancelled, IInv, Typed, LoopTyped
<1> QED BY <1>1, <1>3, PartsKept DEF DispatchCancelled, IInv, Typed

\* Starting a job keeps the types.
LEMMA DispatchStartTyped ==
  ASSUME IInv, JobsTyped', NEW l \in Lanes, NEW j \in Jobs, DispatchStart(l, j)
  PROVE  Typed'
<1>1. /\ runningByLane' \in [Lanes -> Int] /\ runningCount' \in Int
  BY DEF DispatchStart, IInv, Typed, QueuesTyped
<1>2. QueuesTyped'
  BY <1>1, DispatchedTypes DEF DispatchStart, IInv, Typed, QueuesTyped
<1>3. BrokerTyped'
  BY DEF DispatchStart, IInv, Typed, BrokerTyped
<1>4. syncFutures' \in [Gates -> SUBSET Jobs]
  BY DEF DispatchStart, IInv, Typed, GatesTyped
<1>5. GatesTyped'
  BY <1>4 DEF DispatchStart, IInv, Typed, GatesTyped, gateVars
<1> QED BY <1>2, <1>3, <1>5, PartsKept DEF DispatchStart, IInv, Typed

\* A failed executor submission keeps the types.
LEMMA DispatchFailedTyped ==
  ASSUME IInv, JobsTyped', NEW l \in Lanes, NEW j \in Jobs, DispatchFailed(l, j)
  PROVE  Typed'
<1>1. pendingDeliveryCount' \in Int
  BY DEF DispatchFailed, IInv, Typed, QueuesTyped
<1>2. QueuesTyped'
  BY <1>1, DispatchedTypes DEF DispatchFailed, IInv, Typed, QueuesTyped
<1>3. BrokerTyped'
  BY DEF DispatchFailed, IInv, Typed, BrokerTyped
<1> QED BY <1>2, <1>3, PartsKept DEF DispatchFailed, IInv, Typed

\* Leaving the dispatch loop keeps the types.
LEMMA DispatchDoneTyped ==
  ASSUME IInv, DispatchDone
  PROVE  Typed'
<1>1. executor' \in {"none", "live", "shutdown"}
  BY ExecutorAfterType DEF DispatchDone, IInv, Typed, BrokerTyped
<1>2. BrokerTyped'
  BY <1>1 DEF DispatchDone, Unlocked, IInv, Typed, BrokerTyped
<1> QED BY <1>2, PartsKept DEF DispatchDone, IInv, Typed

\* The end of a purge keeps the types and offers its lane at most once.
LEMMA PurgeDoneTyped ==
  ASSUME IInv, PurgeDone
  PROVE  Typed' /\ IsInjective(readyLanes')
<1> DEFINE g == lock.of
<1>1. g \in Lanes
  BY DEF PurgeDone, IInv, Linked, Lanes
<1>2. readyLanes \in Seq(Lanes) /\ IsInjective(readyLanes)
  BY DEF IInv, Typed, QueuesTyped, ReadyOnce
<1>3. Without(readyLanes, g) \in Seq(Lanes) /\ IsInjective(Without(readyLanes, g))
  BY <1>2, WithoutFacts
<1>4. readyLanes' \in Seq(Lanes) /\ IsInjective(readyLanes')
  BY <1>1, <1>3, QueueLaneFacts DEF PurgeDone
<1>5. laneKeys' \subseteq Lanes
  BY DEF PurgeDone, KeysAfter, IInv, Typed, QueuesTyped
<1>6. QueuesTyped'
  BY <1>4, <1>5 DEF PurgeDone, IInv, Typed, QueuesTyped
<1>7. BrokerTyped'
  BY DEF PurgeDone, Dispatching, IInv, Typed, BrokerTyped, brokerVars
<1> QED BY <1>4, <1>6, <1>7, PartsKept DEF PurgeDone, IInv, Typed

\* The late write of the gate's flag keeps the types.
LEMMA SettleTyped ==
  ASSUME IInv, Settle
  PROVE  Typed'
<1>1. lock.flag \in BOOLEAN /\ lock.of \in Gates
  BY DEF Settle, IInv, Linked, Typed, BrokerTyped
<1>2. (poisoned[lock.of] /\ lock.flag) \in BOOLEAN
  OBVIOUS
<1>3. poisoned' \in [Gates -> BOOLEAN]
  BY <1>2 DEF Settle, IInv, Typed, GatesTyped
<1>4. GatesTyped'
  BY <1>3 DEF Settle, IInv, Typed, GatesTyped, gateVars
<1>5. BrokerTyped'
  BY DEF Settle, Dispatching, IInv, Typed, BrokerTyped, brokerVars
<1> QED BY <1>4, <1>5, PartsKept DEF Settle, IInv, Typed

\* The job the purge is at, and its queue without it
LEMMA PurgedJob ==
  ASSUME IInv, NEW i, PurgeJob(i)
  PROVE  /\ lock.of \in Gates /\ lock.of \in Lanes
         /\ laneQueues[lock.of][i] \in Range(laneQueues[lock.of])
         /\ laneQueues[lock.of][i] \in Jobs
         /\ jobs[laneQueues[lock.of][i]].state = "queued"
         /\ jobs[laneQueues[lock.of][i]].lane = lock.of
         /\ RemoveAt(laneQueues[lock.of], i) \in Seq(Jobs)
         /\ IsInjective(RemoveAt(laneQueues[lock.of], i))
         /\ Range(RemoveAt(laneQueues[lock.of], i)) =
              Range(laneQueues[lock.of]) \ {laneQueues[lock.of][i]}
<1> DEFINE g == lock.of
<1>1. g \in Gates /\ g \in Lanes
  BY DEF PurgeJob, IInv, Linked, Lanes
<1>2. /\ laneQueues[g] \in Seq(Jobs) /\ IsInjective(laneQueues[g])
      /\ Range(laneQueues[g]) = QueuedIn(g)
  BY <1>1 DEF IInv, Typed, QueuesTyped, QueuesHold
<1>3. i \in 1..Len(laneQueues[g])
  BY DEF PurgeJob, Purgeable
<1>4. laneQueues[g][i] \in Range(laneQueues[g])
  BY <1>2, <1>3, LenProperties DEF Range
<1>5. /\ laneQueues[g][i] \in Jobs
      /\ jobs[laneQueues[g][i]].state = "queued" /\ jobs[laneQueues[g][i]].lane = g
  BY <1>2, <1>4 DEF QueuedIn
<1> QED BY <1>1, <1>2, <1>3, <1>4, <1>5, RemoveAtInjective

\* Purging one job keeps the types.
LEMMA PurgeJobTyped ==
  ASSUME IInv, JobsTyped', NEW i, PurgeJob(i)
  PROVE  Typed'
<1>1. laneQueues' \in [Lanes -> Seq(Jobs)]
  BY PurgedJob DEF PurgeJob, IInv, Typed, QueuesTyped
<1>2. QueuesTyped'
  BY <1>1 DEF PurgeJob, IInv, Typed, QueuesTyped
<1>3. cancelCalls' \subseteq Jobs
  BY PurgedJob DEF PurgeJob, ScheduleCancel, IInv, Typed, LoopTyped
<1>4. LoopTyped'
  BY <1>3 DEF PurgeJob, IInv, Typed, LoopTyped
<1> QED BY <1>2, <1>4, PartsKept DEF PurgeJob, IInv, Typed

\* Submissions
LEMMA AdmitTyped ==
  ASSUME IInv, JobsTyped', NEW j \in Jobs, NEW l \in Lanes, NEW a \in BOOLEAN,
         Admit(j, l, a)
  PROVE  Typed' /\ IsInjective(readyLanes')
<1>1. /\ readyLanes \in Seq(Lanes) /\ IsInjective(readyLanes)
      /\ laneQueues \in [Lanes -> Seq(Jobs)] /\ laneKeys \subseteq Lanes
      /\ queuedCount \in Int
  BY DEF IInv, Typed, QueuesTyped, ReadyOnce
<1>2. readyLanes' \in Seq(Lanes) /\ IsInjective(readyLanes')
  BY <1>1, QueueLaneFacts DEF Admit
<1>3. laneQueues' \in [Lanes -> Seq(Jobs)]
  BY <1>1, AppendFacts DEF Admit
<1>4. QueuesTyped'
  BY <1>2, <1>3 DEF Admit, IInv, Typed, QueuesTyped
<1>5. BrokerTyped'
  BY DEF Admit, Dispatching, IInv, Typed, BrokerTyped, brokerVars
<1> QED BY <1>2, <1>4, <1>5, PartsKept DEF Admit, IInv, Typed

\* Rejecting a submission keeps the types.
LEMMA RejectTyped ==
  ASSUME IInv, JobsTyped', NEW j \in Jobs, NEW l \in Lanes, NEW a \in BOOLEAN,
         Reject(j, l, a)
  PROVE  Typed'
<1>1. laneKeys' \subseteq Lanes
  BY DEF Reject, IInv, Typed, QueuesTyped
<1>2. QueuesTyped'
  BY <1>1 DEF Reject, IInv, Typed, QueuesTyped
<1> QED BY <1>2, PartsKept DEF Reject, IInv, Typed

\* Worker threads
LEMMA WorkerCompleteTyped ==
  ASSUME IInv, JobsTyped', NEW j \in Jobs, jobs[j].lane \in Lanes, WorkerComplete(j)
  PROVE  Typed'
<1> DEFINE l == jobs[j].lane
           direct == jobs[j].detached \/ ~loopAlive
<1>1. pendingDeliveryCount' \in Int
  BY DEF WorkerComplete, IInv, Typed, QueuesTyped
<1>2. ReleaseSlot(l)
  BY DEF WorkerComplete
<1>3. QueuesTyped'
  BY <1>1, <1>2, ReleasedTypes DEF WorkerComplete, IInv, Typed, QueuesTyped
<1>4. fatalErrors' \subseteq Jobs
  BY DEF WorkerComplete, DeferFatal, IInv, Typed, LoopTyped
<1>5. LoopTyped'
  BY <1>4 DEF WorkerComplete, IInv, Typed, LoopTyped
<1>6. GatesTyped' /\ BrokerTyped'
  <2>1. CASE direct /\ IsGated(j) /\ j \in syncFutures[l]
    <3>1. /\ syncFutures' = [syncFutures EXCEPT ![l] = @ \ {j}]
          /\ detachedFutures' = [detachedFutures EXCEPT ![l] = @ \ {j}]
          /\ lock' = [by |-> "worker", at |-> "settle", of |-> l,
                      flag |-> PendingDetached(l, j)]
          /\ UNCHANGED <<brokerVars, gateVars, poisoned>> /\ l \in Gates
      BY <2>1 DEF WorkerComplete, Untrack, IsGated
    <3>2. PendingDetached(l, j) \in BOOLEAN
      BY DEF PendingDetached
    <3> HIDE DEF l
    <3>3. GatesTyped'
      BY <3>1 DEF IInv, Typed, GatesTyped, gateVars
    <3>4. BrokerTyped'
      BY <3>1, <3>2 DEF IInv, Typed, BrokerTyped, brokerVars
    <3> QED BY <3>3, <3>4
  <2>2. CASE ~(direct /\ IsGated(j) /\ j \in syncFutures[l])
    <3>1. /\ UNCHANGED <<syncFutures, detachedFutures, poisoned, gateVars, brokerVars>>
          /\ lock' = Dispatching("worker", TRUE)
      BY <2>2 DEF WorkerComplete
    <3>2. GatesTyped'
      BY <3>1, PartsKept DEF IInv, Typed, trackVars
    <3>3. BrokerTyped'
      BY <3>1 DEF Dispatching, IInv, Typed, BrokerTyped, brokerVars
    <3> QED BY <3>2, <3>3
  <2> QED BY <2>1, <2>2
<1> QED BY <1>3, <1>5, <1>6 DEF Typed

\* Worker steps and loop callbacks that change one job record only
LEMMA RecordStepsTyped ==
  ASSUME Typed, JobsTyped', NEW j \in Jobs,
         \/ WorkerStart(j)
         \/ \E o \in Endings : WorkerFinish(j, o)
         \/ CancelCancelled(j) /\ LoopCanLock
         \/ ConsumerResumes(j)
         \/ RunScheduledCancel(j)
         \/ DetachRunning(j)
  PROVE  Typed'
<1>1. CASE WorkerStart(j)
  BY <1>1, PartsKept DEF WorkerStart, Typed
<1>2. CASE \E o \in Endings : WorkerFinish(j, o)
  BY <1>2, PartsKept DEF WorkerFinish, Typed
<1>3. CASE CancelCancelled(j)
  BY <1>3, PartsKept DEF CancelCancelled, Typed
<1>4. CASE ConsumerResumes(j)
  BY <1>4, PartsKept DEF ConsumerResumes, Typed
<1>5. CASE RunScheduledCancel(j)
  <2>1. LoopTyped'
    BY <1>5 DEF RunScheduledCancel, Typed, LoopTyped
  <2> QED BY <1>5, <2>1, PartsKept DEF RunScheduledCancel, Typed
<1>6. CASE DetachRunning(j)
  <2>1. todo' \in {todo, [op |-> "mark", of |-> j]}
    BY <1>6 DEF DetachRunning
  <2>2. LoopTyped'
    BY <1>6, <2>1 DEF DetachRunning, Typed, LoopTyped
  <2> QED BY <1>6, <2>2, PartsKept DEF DetachRunning, Typed
<1> QED BY <1>1, <1>2, <1>3, <1>4, <1>5, <1>6

\* Consumers
LEMMA CancelQueuedTyped ==
  ASSUME IInv, JobsTyped', NEW j \in Jobs, jobs[j].lane \in Lanes, CancelQueued(j)
  PROVE  Typed' /\ IsInjective(readyLanes')
<1> DEFINE l == jobs[j].lane
<1>1. /\ readyLanes \in Seq(Lanes) /\ IsInjective(readyLanes)
      /\ laneQueues \in [Lanes -> Seq(Jobs)] /\ laneKeys \subseteq Lanes
      /\ queuedCount \in Int /\ laneQueues[l] \in Seq(Jobs) /\ IsInjective(laneQueues[l])
  BY DEF IInv, Typed, QueuesTyped, ReadyOnce, QueuesHold
<1>2. /\ Without(readyLanes, l) \in Seq(Lanes) /\ IsInjective(Without(readyLanes, l))
      /\ Without(laneQueues[l], j) \in Seq(Jobs)
  BY <1>1, WithoutFacts
<1>3. readyLanes' \in Seq(Lanes) /\ IsInjective(readyLanes')
  BY <1>2, QueueLaneFacts DEF CancelQueued
<1>4. laneQueues' \in [Lanes -> Seq(Jobs)] /\ laneKeys' \subseteq Lanes
  BY <1>1, <1>2 DEF CancelQueued, KeysAfter
<1>5. QueuesTyped'
  BY <1>3, <1>4 DEF CancelQueued, IInv, Typed, QueuesTyped
<1>6. BrokerTyped'
  BY DEF CancelQueued, Dispatching, IInv, Typed, BrokerTyped, brokerVars
<1> QED BY <1>3, <1>5, <1>6, PartsKept DEF CancelQueued, IInv, Typed

\* Cancelling a pending future keeps the types.
LEMMA CancelPendingTyped ==
  ASSUME IInv, JobsTyped', NEW j \in Jobs, jobs[j].lane \in Lanes, CancelPending(j)
  PROVE  Typed'
<1>1. ReleaseSlot(jobs[j].lane) /\ Discard(j)
  BY DEF CancelPending
<1>2. QueuesTyped'
  BY <1>1, ReleasedTypes DEF CancelPending, IInv, Typed, QueuesTyped
<1>3. GatesTyped'
  BY <1>1, DiscardTypes DEF CancelPending, IInv, Typed, GatesTyped, gateVars
<1>4. BrokerTyped'
  BY DEF CancelPending, Dispatching, IInv, Typed, BrokerTyped, brokerVars
<1>5. LoopTyped'
  BY DEF CancelPending, IInv, Typed, LoopTyped
<1> QED BY <1>2, <1>3, <1>4, <1>5 DEF Typed

\* Delivering or taking over an outcome keeps the types.
LEMMA SettledTyped ==
  ASSUME Typed, JobsTyped', NEW j \in Jobs, CancelTerminal(j) \/ Deliver(j)
  PROVE  Typed'
<1>1. pendingDeliveryCount' \in Int
  BY DEF CancelTerminal, Deliver, DeliveriesLeft, Typed, QueuesTyped
<1>2. QueuesTyped'
  BY <1>1 DEF CancelTerminal, Deliver, Typed, QueuesTyped, queueVars
<1>3. executor' \in {"none", "live", "shutdown"}
  BY ExecutorAfterType DEF CancelTerminal, Deliver, Typed, BrokerTyped
<1>4. BrokerTyped'
  BY <1>3 DEF CancelTerminal, Deliver, Typed, BrokerTyped
<1>5. fatalErrors' \subseteq Jobs
  BY DEF CancelTerminal, Deliver, DeferFatal, Typed, LoopTyped
<1>6. todo' \in {todo, [op |-> "discard", of |-> j]}
  BY DEF CancelTerminal, Deliver, TakeOverFuture
<1>7. LoopTyped'
  BY <1>5, <1>6 DEF CancelTerminal, Deliver, Typed, LoopTyped
<1> QED BY <1>2, <1>4, <1>7, PartsKept DEF CancelTerminal, Deliver, Typed

\* Closing the broker keeps the types.
LEMMA CloseBeginTyped ==
  ASSUME Typed, JobsTyped', CloseBegin
  PROVE  Typed'
<1>1. QueuesTyped'
  BY EmptyFacts DEF CloseBegin, Typed, QueuesTyped
<1>2. BrokerTyped'
  BY DEF CloseBegin, Typed, BrokerTyped
<1>3. cancelCalls' \subseteq Jobs
  BY DEF CloseBegin, ScheduleCancel, Typed, LoopTyped
<1>4. LoopTyped'
  BY <1>3 DEF CloseBegin, Typed, LoopTyped
<1> QED BY <1>1, <1>2, <1>4, PartsKept DEF CloseBegin, Typed

-----------------------------------------------------------------------------
(* Counting: what one replaced job record does to the counted sets *)

One(b) == IF b THEN 1 ELSE 0

\* The cardinality of a set to which one element was added or from which it
\* was removed.
LEMMA OneElement ==
  ASSUME NEW S, IsFiniteSet(S), NEW x, NEW b \in BOOLEAN, NEW T,
         T = IF b THEN S \cup {x} ELSE S \ {x}
  PROVE  /\ IsFiniteSet(T) /\ Cardinality(S) \in Nat /\ Cardinality(T) \in Nat
         /\ Cardinality(T) = Cardinality(S) + One(b) - One(x \in S)
<1>1. IsFiniteSet(T) /\ Cardinality(S) \in Nat /\ Cardinality(T) \in Nat
  BY FS_AddElement, FS_RemoveElement, FS_CardinalityType
<1>2. CASE b
  BY <1>1, <1>2, FS_AddElement DEF One
<1>3. CASE ~b
  BY <1>1, <1>3, FS_RemoveElement DEF One
<1> QED BY <1>1, <1>2, <1>3

\* Every counted set is finite
LEMMA CountedFinite ==
  /\ IsFiniteSet(RunningJobs) /\ IsFiniteSet(QueuedJobs) /\ IsFiniteSet(PendingJobs)
  /\ \A l : IsFiniteSet(RunningIn(l)) /\ IsFiniteSet(QueuedIn(l))
<1>1. /\ RunningJobs \in SUBSET Jobs /\ QueuedJobs \in SUBSET Jobs
      /\ PendingJobs \in SUBSET Jobs
      /\ \A l : RunningIn(l) \in SUBSET Jobs /\ QueuedIn(l) \in SUBSET Jobs
  BY DEF RunningJobs, QueuedJobs, PendingJobs, RunningIn, QueuedIn
<1> QED BY <1>1, BrokerAssumption, FS_Subset

\* The counters move as the job they count does
Balanced(j, st, ln, dp) ==
  /\ runningCount' = runningCount + One(st = "running") - One(jobs[j].state = "running")
  /\ queuedCount' = queuedCount + One(st = "queued") - One(jobs[j].state = "queued")
  /\ pendingDeliveryCount' = pendingDeliveryCount + One(dp) - One(jobs[j].deliveryPending)
  /\ \A l \in Lanes : runningByLane'[l] =
       runningByLane[l] + One(st = "running" /\ ln = l)
                        - One(jobs[j].state = "running" /\ jobs[j].lane = l)

\* Counters that move as the job they count does stay exact.
LEMMA CountsMove ==
  ASSUME IInv, NEW j \in Jobs, NEW st, NEW ln, NEW dp \in BOOLEAN,
         Change(j, st, ln, dp), Balanced(j, st, ln, dp)
  PROVE  RunningCounted' /\ QueuedCounted' /\ PendingCounted'
<1>1. jobs \in [Jobs -> SoundJob]
  BY DEF IInv, Linked
<1>2. /\ RunningJobs' = IF st = "running" THEN RunningJobs \cup {j} ELSE RunningJobs \ {j}
      /\ QueuedJobs' = IF st = "queued" THEN QueuedJobs \cup {j} ELSE QueuedJobs \ {j}
      /\ PendingJobs' = IF dp THEN PendingJobs \cup {j} ELSE PendingJobs \ {j}
      /\ \A l \in Lanes : RunningIn(l)' = IF st = "running" /\ ln = l
                               THEN RunningIn(l) \cup {j} ELSE RunningIn(l) \ {j}
  BY <1>1, ChangeFacts
<1>3. /\ j \in RunningJobs <=> jobs[j].state = "running"
      /\ j \in QueuedJobs <=> jobs[j].state = "queued"
      /\ j \in PendingJobs <=> jobs[j].deliveryPending
      /\ \A l \in Lanes : j \in RunningIn(l) <=> jobs[j].state = "running" /\ jobs[j].lane = l
  BY DEF RunningJobs, QueuedJobs, PendingJobs, RunningIn
<1>4. RunningCounted'
  <2>1. Cardinality(RunningJobs') =
          Cardinality(RunningJobs) + One(st = "running") - One(j \in RunningJobs)
    BY <1>2, CountedFinite, OneElement
  <2>2. ASSUME NEW l \in Lanes
        PROVE  Cardinality(RunningIn(l)') =
                 Cardinality(RunningIn(l)) + One(st = "running" /\ ln = l)
                                           - One(j \in RunningIn(l))
    <3>1. (st = "running" /\ ln = l) \in BOOLEAN
      OBVIOUS
    <3>2. RunningIn(l)' = IF st = "running" /\ ln = l
                          THEN RunningIn(l) \cup {j} ELSE RunningIn(l) \ {j}
      BY <1>2
    <3>3. IsFiniteSet(RunningIn(l))
      BY CountedFinite
    <3> QED BY <3>1, <3>2, <3>3, OneElement
  <2>3. runningCount = Cardinality(RunningJobs)
        /\ \A l \in Lanes : runningByLane[l] = Cardinality(RunningIn(l))
    BY DEF IInv, RunningCounted
  <2>4. runningCount' = Cardinality(RunningJobs')
    BY <1>3, <2>1, <2>3 DEF Balanced
  <2>5. ASSUME NEW l \in Lanes PROVE runningByLane'[l] = Cardinality(RunningIn(l)')
    <3>1. (j \in RunningIn(l)) = (jobs[j].state = "running" /\ jobs[j].lane = l)
      BY <1>3
    <3>2. One(j \in RunningIn(l)) = One(jobs[j].state = "running" /\ jobs[j].lane = l)
      BY <1>3 DEF One
    <3> QED BY <2>2, <2>3, <3>2 DEF Balanced
  <2> QED BY <2>4, <2>5 DEF RunningCounted
<1>5. QueuedCounted'
  <2>1. Cardinality(QueuedJobs') =
          Cardinality(QueuedJobs) + One(st = "queued") - One(j \in QueuedJobs)
    BY <1>2, CountedFinite, OneElement
  <2> QED BY <1>3, <2>1 DEF Balanced, IInv, QueuedCounted, One
<1>6. PendingCounted'
  <2>1. Cardinality(PendingJobs') =
          Cardinality(PendingJobs) + One(dp) - One(j \in PendingJobs)
    BY <1>2, CountedFinite, OneElement
  <2> QED BY <1>3, <2>1 DEF Balanced, IInv, PendingCounted, One
<1> QED BY <1>4, <1>5, <1>6

\* The deques, when a job leaves one, enters one, or is in none before and after
LEMMA QueuesAfterRemoval ==
  ASSUME IInv, NEW l \in Lanes, NEW j \in Jobs, NEW st, NEW dp, NEW q,
         st # "queued", Change(j, st, l, dp), j \in QueuedIn(l),
         IsInjective(q), Range(q) = Range(laneQueues[l]) \ {j},
         laneQueues' = [laneQueues EXCEPT ![l] = q]
  PROVE  QueuesHold'
<1>1. jobs \in [Jobs -> SoundJob] /\ laneQueues \in [Lanes -> Seq(Jobs)]
  BY DEF IInv, Linked, Typed, QueuesTyped
<1>2. \A k \in Lanes : QueuedIn(k)' = QueuedIn(k) \ {j}
  BY <1>1, ChangeFacts
<1>3. \A k \in Lanes \ {l} : j \notin QueuedIn(k)
  BY DEF QueuedIn
<1>4. \A k \in Lanes : IsInjective(laneQueues[k]) /\ Range(laneQueues[k]) = QueuedIn(k)
  BY DEF IInv, QueuesHold
<1>5. laneQueues'[l] = q /\ \A k \in Lanes \ {l} : laneQueues'[k] = laneQueues[k]
  BY <1>1
<1>6. IsInjective(laneQueues'[l]) /\ Range(laneQueues'[l]) = QueuedIn(l)'
  BY <1>2, <1>4, <1>5
<1>7. ASSUME NEW k \in Lanes \ {l}
      PROVE  IsInjective(laneQueues'[k]) /\ Range(laneQueues'[k]) = QueuedIn(k)'
  <2>1. k \in Lanes /\ j \notin QueuedIn(k) /\ QueuedIn(k)' = QueuedIn(k) \ {j}
    BY <1>2, <1>3
  <2>2. QueuedIn(k)' = QueuedIn(k)
    BY ONLY <2>1
  <2> QED BY <1>4, <1>5, <2>1, <2>2
<1> QED BY <1>6, <1>7 DEF QueuesHold

\* The deques hold the queued jobs when a job outside them changes.
LEMMA QueuesUntouched ==
  ASSUME IInv, NEW j \in Jobs, NEW st, NEW ln, NEW dp,
         st # "queued", jobs[j].state # "queued", Change(j, st, ln, dp),
         UNCHANGED laneQueues
  PROVE  QueuesHold'
<1>1. jobs \in [Jobs -> SoundJob]
  BY DEF IInv, Linked
<1>2. \A k \in Lanes : QueuedIn(k)' = QueuedIn(k) \ {j}
  BY <1>1, ChangeFacts
<1>3. \A k \in Lanes : j \notin QueuedIn(k)
  BY DEF QueuedIn
<1> QED BY <1>2, <1>3 DEF IInv, QueuesHold

\* The deques hold the queued jobs when a record keeps its state and lane.
LEMMA QueuesKept ==
  ASSUME IInv, NEW j \in Jobs, Kept(j), UNCHANGED laneQueues
  PROVE  QueuesHold'
<1>1. jobs \in [Jobs -> SoundJob]
  BY DEF IInv, Linked
<1>2. \A k \in Lanes : QueuedIn(k)' = IF jobs[j].state = "queued" /\ jobs[j].lane = k
                                      THEN QueuedIn(k) \cup {j} ELSE QueuedIn(k) \ {j}
  BY <1>1, ChangeFacts DEF Kept
<1>3. \A k \in Lanes : QueuedIn(k)' = QueuedIn(k)
  BY <1>2 DEF QueuedIn
<1> QED BY <1>3 DEF IInv, QueuesHold

-----------------------------------------------------------------------------
(* Every step keeps the counting part of the invariant *)

Counting == QueuesHold /\ RunningCounted /\ QueuedCounted /\ PendingCounted

\* What the invariant says of one job.
LEMMA JobIsSound ==
  ASSUME IInv, NEW j \in Jobs
  PROVE  /\ jobs \in [Jobs -> SoundJob] /\ jobs[j] \in SoundJob
         /\ jobs[j].deliveryPending \in BOOLEAN
         /\ jobs[j].state \notin {"new", "rejected"} => jobs[j].lane \in Lanes
         /\ jobs[j].deliveryPending => jobs[j].state = "terminal"
BY DEF IInv, Linked, SoundJob, Job

\* The counters are numbers.
LEMMA CountersAreInt ==
  ASSUME IInv
  PROVE  /\ runningByLane \in [Lanes -> Int]
         /\ queuedCount \in Int /\ runningCount \in Int /\ pendingDeliveryCount \in Int
BY DEF IInv, Typed, QueuesTyped

\* Admission appends the job to its lane and counts it once.
LEMMA AdmitCounting ==
  ASSUME IInv, NEW j \in Jobs, NEW l \in Lanes, NEW a \in BOOLEAN, Admit(j, l, a)
  PROVE  /\ Change(j, "queued", l, jobs[j].deliveryPending)
         /\ Counting'
<1>1. Change(j, "queued", l, jobs[j].deliveryPending)
  BY JobIsSound, AdmitChange
<1>2. jobs[j].state = "new"
  BY DEF Admit
<1>3. Balanced(j, "queued", l, jobs[j].deliveryPending)
  BY <1>2, CountersAreInt DEF Admit, Balanced, One
<1>4. QueuesHold'
  <2>1. \A k \in Lanes : QueuedIn(k)' = IF l = k THEN QueuedIn(k) \cup {j}
                                        ELSE QueuedIn(k) \ {j}
    BY <1>1, JobIsSound, ChangeFacts
  <2>2. \A k \in Lanes : j \notin QueuedIn(k)
    BY <1>2 DEF QueuedIn
  <2>3. \A k \in Lanes : IsInjective(laneQueues[k]) /\ Range(laneQueues[k]) = QueuedIn(k)
    BY DEF IInv, QueuesHold
  <2>4. laneQueues \in [Lanes -> Seq(Jobs)] /\ laneQueues[l] \in Seq(Jobs)
    BY DEF IInv, Typed, QueuesTyped
  <2>5. /\ laneQueues'[l] = Append(laneQueues[l], j)
        /\ \A k \in Lanes \ {l} : laneQueues'[k] = laneQueues[k]
    BY <2>4 DEF Admit
  <2>6. IsInjective(laneQueues'[l]) /\ Range(laneQueues'[l]) = QueuedIn(l)'
    <3>1. QueuedIn(l)' = QueuedIn(l) \cup {j} /\ j \notin QueuedIn(l)
      BY <2>1, <2>2
    <3>2. IsInjective(laneQueues[l]) /\ Range(laneQueues[l]) = QueuedIn(l)
      BY <2>3
    <3>3. /\ IsInjective(Append(laneQueues[l], j))
          /\ Range(Append(laneQueues[l], j)) = QueuedIn(l) \cup {j}
      BY <2>4, <3>1, <3>2, AppendFacts
    <3> QED BY <2>5, <3>1, <3>3
  <2>7. ASSUME NEW k \in Lanes \ {l}
        PROVE  IsInjective(laneQueues'[k]) /\ Range(laneQueues'[k]) = QueuedIn(k)'
    <3>1. QueuedIn(k)' = QueuedIn(k)
      BY <2>1, <2>2
    <3> QED BY <2>3, <2>5, <3>1
  <2> QED BY <2>6, <2>7 DEF QueuesHold
<1> QED BY <1>1, <1>3, <1>4, JobIsSound, CountsMove DEF Counting

\* A rejection counts nothing.
LEMMA RejectCounting ==
  ASSUME IInv, NEW j \in Jobs, NEW l \in Lanes, NEW a \in BOOLEAN, Reject(j, l, a)
  PROVE  /\ Change(j, "rejected", jobs[j].lane, jobs[j].deliveryPending)
         /\ Counting'
<1>1. Change(j, "rejected", jobs[j].lane, jobs[j].deliveryPending)
  BY JobIsSound, RejectChange
<1>2. jobs[j].state = "new"
  BY DEF Reject
<1>3. Balanced(j, "rejected", jobs[j].lane, jobs[j].deliveryPending)
  BY <1>2, CountersAreInt DEF Reject, Balanced, One
<1>4. QueuesHold'
  BY <1>1, <1>2, QueuesUntouched DEF Reject
<1> QED BY <1>1, <1>3, <1>4, JobIsSound, CountsMove DEF Counting

\* Dropping a job at dispatch uncounts it once.
LEMMA DispatchCancelledCounting ==
  ASSUME IInv, NEW l \in Lanes, NEW j \in Jobs, DispatchCancelled(l, j)
  PROVE  /\ Change(j, "cancelled", jobs[j].lane, jobs[j].deliveryPending)
         /\ Counting'
<1>1. DispatchHead(l, j, runningByLane[l])
  BY DEF DispatchCancelled
<1>2. j \in QueuedIn(l) /\ jobs[j].state = "queued" /\ jobs[j].lane = l
  BY <1>1, DispatchedHead DEF QueuedIn
<1>3. Change(j, "cancelled", l, jobs[j].deliveryPending)
  BY <1>2, JobIsSound, RevokedChange DEF DispatchCancelled
<1>4. Balanced(j, "cancelled", l, jobs[j].deliveryPending)
  BY <1>1, <1>2, CountersAreInt DEF DispatchCancelled, DispatchHead, Balanced, One
<1>5. QueuesHold'
  BY <1>1, <1>2, <1>3, DispatchedHead, QueuesAfterRemoval DEF DispatchHead
<1> QED BY <1>2, <1>3, <1>4, <1>5, JobIsSound, CountsMove DEF Counting

\* Starting a job moves it from the queued to the running count.
LEMMA DispatchStartCounting ==
  ASSUME IInv, NEW l \in Lanes, NEW j \in Jobs, DispatchStart(l, j)
  PROVE  /\ Change(j, "running", jobs[j].lane, jobs[j].deliveryPending)
         /\ Counting'
<1>1. DispatchHead(l, j, runningByLane[l] + 1)
  BY DEF DispatchStart
<1>2. j \in QueuedIn(l) /\ jobs[j].state = "queued" /\ jobs[j].lane = l
  BY <1>1, DispatchedHead DEF QueuedIn
<1>3. Change(j, "running", l, jobs[j].deliveryPending)
  BY <1>2, JobIsSound, StartChange
<1>4. Balanced(j, "running", l, jobs[j].deliveryPending)
  BY <1>1, <1>2, CountersAreInt DEF DispatchStart, DispatchHead, Balanced, One
<1>5. QueuesHold'
  BY <1>1, <1>2, <1>3, DispatchedHead, QueuesAfterRemoval DEF DispatchHead
<1> QED BY <1>2, <1>3, <1>4, <1>5, JobIsSound, CountsMove DEF Counting

\* A failed submission moves a job from the queued to the pending count.
LEMMA DispatchFailedCounting ==
  ASSUME IInv, NEW l \in Lanes, NEW j \in Jobs, DispatchFailed(l, j)
  PROVE  /\ Change(j, "terminal", jobs[j].lane, loopAlive)
         /\ Counting'
<1>1. DispatchHead(l, j, runningByLane[l])
  BY DEF DispatchFailed
<1>2. j \in QueuedIn(l) /\ jobs[j].state = "queued" /\ jobs[j].lane = l
  BY <1>1, DispatchedHead DEF QueuedIn
<1>3. loopAlive \in BOOLEAN
  BY DEF IInv, Typed, LoopTyped
<1>4. Change(j, "terminal", l, loopAlive)
  BY <1>2, <1>3, JobIsSound, FailedChange
<1>5. ~jobs[j].deliveryPending
  BY <1>2, JobIsSound
<1>6. Balanced(j, "terminal", l, loopAlive)
  BY <1>1, <1>2, <1>5, CountersAreInt DEF DispatchFailed, DispatchHead, Balanced, One
<1>7. QueuesHold'
  BY <1>1, <1>2, <1>4, DispatchedHead, QueuesAfterRemoval DEF DispatchHead
<1> QED BY <1>2, <1>3, <1>4, <1>6, <1>7, CountsMove DEF Counting

\* Purging a job uncounts it once.
LEMMA PurgeJobCounting ==
  ASSUME IInv, NEW i, PurgeJob(i)
  PROVE  /\ Linked' /\ Counting'
<1> DEFINE l == lock.of
           j == laneQueues[l][i]
<1>1. j \in Jobs /\ l \in Lanes /\ j \in QueuedIn(l) /\ jobs[j].state = "queued" /\ jobs[j].lane = l
  BY PurgedJob DEF QueuedIn
<1>2. jobs' = [jobs EXCEPT ![j] = Revoked(jobs[j])]
  BY DEF PurgeJob
<1>3. Change(j, "cancelled", l, jobs[j].deliveryPending)
  BY <1>1, <1>2, JobIsSound, RevokedChange
<1>4. Balanced(j, "cancelled", l, jobs[j].deliveryPending)
  BY <1>1, CountersAreInt DEF PurgeJob, Balanced, One
<1>5. laneQueues' = [laneQueues EXCEPT ![l] = RemoveAt(laneQueues[l], i)]
  BY DEF PurgeJob
<1>6. /\ IsInjective(RemoveAt(laneQueues[l], i))
      /\ Range(RemoveAt(laneQueues[l], i)) = Range(laneQueues[l]) \ {j}
  BY PurgedJob
<1> HIDE DEF l, j
<1>7. QueuesHold'
  BY <1>1, <1>3, <1>5, <1>6, QueuesAfterRemoval
<1>8. jobs' \in [Jobs -> SoundJob]
  BY <1>1, <1>3, JobIsSound, ChangeFacts
<1>9. Linked'
  BY <1>8 DEF PurgeJob, IInv, Linked
<1> QED BY <1>1, <1>3, <1>4, <1>7, <1>9, JobIsSound, CountsMove DEF Counting

\* Cancelling a queued job uncounts it once.
LEMMA CancelQueuedCounting ==
  ASSUME IInv, NEW j \in Jobs, CancelQueued(j)
  PROVE  /\ Change(j, "cancelled", jobs[j].lane, jobs[j].deliveryPending)
         /\ Counting'
<1> DEFINE l == jobs[j].lane
<1>1. Change(j, "cancelled", l, jobs[j].deliveryPending)
  BY JobIsSound, CancelQueuedChange
<1>2. j \in Jobs /\ l \in Lanes /\ jobs[j].state = "queued" /\ j \in QueuedIn(l)
  BY JobIsSound DEF CancelQueued, QueuedIn
<1>3. Balanced(j, "cancelled", l, jobs[j].deliveryPending)
  BY <1>2, CountersAreInt DEF CancelQueued, Balanced, One
<1>4. laneQueues[l] \in Seq(Jobs) /\ IsInjective(laneQueues[l])
  BY <1>2 DEF IInv, Typed, QueuesTyped, QueuesHold
<1>5. /\ IsInjective(Without(laneQueues[l], j))
      /\ Range(Without(laneQueues[l], j)) = Range(laneQueues[l]) \ {j}
  BY <1>4, WithoutFacts
<1>6. laneQueues' = [laneQueues EXCEPT ![l] = Without(laneQueues[l], j)]
  BY DEF CancelQueued
<1> HIDE DEF l
<1>7. QueuesHold'
  BY <1>1, <1>2, <1>5, <1>6, QueuesAfterRemoval
<1>8. RunningCounted' /\ QueuedCounted' /\ PendingCounted'
  BY <1>1, <1>3, JobIsSound, CountsMove
<1> QED BY <1>1, <1>7, <1>8 DEF Counting, l

\* Completion moves a job from the running to the pending count.
LEMMA WorkerCompleteCounting ==
  ASSUME IInv, NEW j \in Jobs, WorkerComplete(j)
  PROVE  /\ Change(j, "terminal", jobs[j].lane, ~(jobs[j].detached \/ ~loopAlive))
         /\ Counting'
<1> DEFINE l == jobs[j].lane
           direct == jobs[j].detached \/ ~loopAlive
<1>1. Change(j, "terminal", l, ~direct)
  BY JobIsSound, CompleteChange
<1>2. /\ jobs[j].state = "running" /\ l \in Lanes /\ ~jobs[j].deliveryPending
      /\ ReleaseSlot(l)
  BY JobIsSound DEF WorkerComplete, ReturnedCallback
<1>3. Balanced(j, "terminal", l, ~direct)
  BY <1>2, CountersAreInt DEF WorkerComplete, ReleaseSlot, Balanced, One
<1>4. QueuesHold'
  BY <1>1, <1>2, QueuesUntouched DEF WorkerComplete
<1> QED BY <1>1, <1>3, <1>4, CountsMove DEF Counting

\* Cancelling a pending future frees its slot once.
LEMMA CancelPendingCounting ==
  ASSUME IInv, NEW j \in Jobs, CancelPending(j)
  PROVE  /\ Change(j, "terminal", jobs[j].lane, jobs[j].deliveryPending)
         /\ Counting'
<1> DEFINE l == jobs[j].lane
<1>1. Change(j, "terminal", l, jobs[j].deliveryPending)
  BY JobIsSound, CancelPendingChange
<1>2. /\ jobs[j].state = "running" /\ l \in Lanes /\ ReleaseSlot(l)
  BY JobIsSound DEF CancelPending
<1>3. Balanced(j, "terminal", l, jobs[j].deliveryPending)
  BY <1>2, CountersAreInt DEF CancelPending, ReleaseSlot, Balanced, One
<1>4. QueuesHold'
  BY <1>1, <1>2, QueuesUntouched DEF CancelPending
<1> QED BY <1>1, <1>3, <1>4, JobIsSound, CountsMove DEF Counting

\* A delivery, made or taken over, is uncounted once.
LEMMA SettledCounting ==
  ASSUME IInv, NEW j \in Jobs, CancelTerminal(j) \/ Deliver(j)
  PROVE  /\ Change(j, jobs[j].state, jobs[j].lane, FALSE)
         /\ Counting'
<1>1. Change(j, jobs[j].state, jobs[j].lane, FALSE)
  BY JobIsSound, SettledChange
<1>2. jobs[j].state = "terminal"
  BY JobIsSound DEF CancelTerminal, Deliver
<1>3. UNCHANGED <<laneQueues, runningByLane, queuedCount, runningCount>>
  BY DEF CancelTerminal, Deliver, queueVars
<1>4. pendingDeliveryCount' = pendingDeliveryCount - One(jobs[j].deliveryPending)
  BY DEF CancelTerminal, Deliver, DeliveriesLeft, One
<1>5. Balanced(j, jobs[j].state, jobs[j].lane, FALSE)
  BY <1>2, <1>3, <1>4, CountersAreInt DEF Balanced, One
<1>6. QueuesHold'
  BY <1>1, <1>2, <1>3, QueuesUntouched
<1> QED BY <1>1, <1>5, <1>6, CountsMove DEF Counting

\* Steps that keep state, lane and pending delivery count nothing.
LEMMA KeptCounting ==
  ASSUME IInv, NEW j \in Jobs,
         \/ WorkerStart(j)
         \/ \E o \in Endings : WorkerFinish(j, o)
         \/ DetachRunning(j) \/ CancelCancelled(j)
         \/ ConsumerResumes(j) \/ RunScheduledCancel(j)
  PROVE  Kept(j) /\ Counting'
<1>1. Kept(j)
  BY JobIsSound, KeptChange
<1>2. UNCHANGED <<laneQueues, runningByLane, queuedCount, runningCount, pendingDeliveryCount>>
  BY DEF WorkerStart, WorkerFinish, DetachRunning, CancelCancelled, ConsumerResumes,
         RunScheduledCancel, queueVars
<1>3. Balanced(j, jobs[j].state, jobs[j].lane, jobs[j].deliveryPending)
  BY <1>2, CountersAreInt DEF Balanced, One
<1>4. QueuesHold'
  BY <1>1, <1>2, QueuesKept
<1>5. RunningCounted' /\ QueuedCounted' /\ PendingCounted'
  BY <1>1, <1>3, JobIsSound, CountsMove DEF Kept
<1> QED BY <1>1, <1>4, <1>5 DEF Counting

\* Steps that touch no job and no counter keep the counting part.
LEMMA QuietCounting ==
  ASSUME IInv, UNCHANGED <<jobs, laneQueues, runningByLane, queuedCount,
                           runningCount, pendingDeliveryCount>>
  PROVE  Counting'
BY DEF IInv, Counting, QueuesHold, QueuedIn, RunningCounted, RunningJobs, RunningIn,
       QueuedCounted, QueuedJobs, PendingCounted, PendingJobs

\* Closing the broker revokes every queued job at once.
LEMMA CloseBeginCounting ==
  ASSUME IInv, CloseBegin
  PROVE  Linked' /\ Counting'
<1>1. jobs \in [Jobs -> SoundJob]
  BY DEF IInv, Linked
<1>2. ASSUME NEW x \in SoundJob, x.state = "queued"
      PROVE  /\ Revoked(x) \in SoundJob /\ Revoked(x).state = "cancelled"
             /\ Revoked(x).lane = x.lane /\ Revoked(x).deliveryPending = x.deliveryPending
  <2>1. Revoked(x) \in Job
    BY DEF SoundJob, Job, Revoked
  <2>2. /\ Revoked(x).state = "cancelled" /\ Revoked(x).lane = x.lane
        /\ Revoked(x).deliveryPending = x.deliveryPending
        /\ Revoked(x).fut = x.fut /\ Revoked(x).outcome = x.outcome
    BY DEF SoundJob, Job, Revoked
  <2> QED BY <1>2, <2>1, <2>2 DEF SoundJob
<1>3. \A j \in Jobs : jobs'[j] = IF jobs[j].state = "queued" THEN Revoked(jobs[j]) ELSE jobs[j]
  BY DEF CloseBegin
<1>4. jobs' \in [Jobs -> SoundJob]
  <2>1. ASSUME NEW j \in Jobs
        PROVE  (IF jobs[j].state = "queued" THEN Revoked(jobs[j]) ELSE jobs[j]) \in SoundJob
    BY <1>1, <1>2
  <2>2. jobs' = [j \in Jobs |-> IF jobs[j].state = "queued" THEN Revoked(jobs[j]) ELSE jobs[j]]
    BY DEF CloseBegin
  <2> QED BY <2>1, <2>2
<1>5. ASSUME NEW j \in Jobs
      PROVE  /\ jobs'[j].state # "queued"
             /\ jobs'[j].state = "running" <=> jobs[j].state = "running"
             /\ jobs'[j].lane = jobs[j].lane
             /\ jobs'[j].deliveryPending = jobs[j].deliveryPending
  BY <1>1, <1>2, <1>3
<1>6. /\ RunningJobs' = RunningJobs /\ PendingJobs' = PendingJobs /\ QueuedJobs' = {}
      /\ \A l \in Lanes : RunningIn(l)' = RunningIn(l) /\ QueuedIn(l)' = {}
  BY <1>5 DEF RunningJobs, PendingJobs, QueuedJobs, RunningIn, QueuedIn
<1>7. RunningCounted' /\ PendingCounted'
  BY <1>6 DEF CloseBegin, IInv, RunningCounted, PendingCounted
<1>8. QueuedCounted'
  BY <1>6, FS_EmptySet DEF CloseBegin, QueuedCounted
<1>9. QueuesHold'
  <2>1. \A l \in Lanes : laneQueues'[l] = <<>>
    BY DEF CloseBegin
  <2>2. IsInjective(<<>>) /\ Range(<<>>) = {}
    <3>1. <<>> \in Seq(Jobs)
      OBVIOUS
    <3> QED BY <3>1, EmptyFacts
  <2> QED BY <1>6, <2>1, <2>2 DEF QueuesHold
<1>10. Linked'
  BY <1>4 DEF CloseBegin, IInv, Linked
<1> QED BY <1>7, <1>8, <1>9, <1>10 DEF Counting

-----------------------------------------------------------------------------
(* The rest of the invariant *)

\* Job records and lock links survive steps that touch no job.
LEMMA QuietLinked ==
  ASSUME IInv, UNCHANGED jobs, lock'.at \in {"purge", "settle"} => lock'.of \in Gates
  PROVE  Linked'
BY DEF IInv, Linked

\* Job records stay sound when one of them is replaced by a sound one.
LEMMA ChangedLinked ==
  ASSUME IInv, NEW j \in Jobs, NEW st, NEW ln, NEW dp, Change(j, st, ln, dp),
         lock'.at \in {"purge", "settle"} => lock'.of \in Gates
  PROVE  Linked' /\ JobsTyped'
<1>1. jobs' \in [Jobs -> SoundJob]
  BY JobIsSound, ChangeFacts
<1>2. Linked'
  BY <1>1 DEF Linked
<1>3. SoundJob \subseteq Job
  BY DEF SoundJob
<1>4. JobsTyped'
  BY <1>1, <1>3 DEF JobsTyped
<1> QED BY <1>2, <1>4

\* A lock whose remaining work is a dispatch, or is what it was
LEMMA LockLinked ==
  ASSUME IInv,
         \/ UNCHANGED lock \/ lock' = Unlocked
         \/ \E thread, retire : lock' = Dispatching(thread, retire)
  PROVE  lock'.at \in {"purge", "settle"} => lock'.of \in Gates
<1>1. CASE UNCHANGED lock
  BY <1>1 DEF IInv, Linked
<1>2. CASE lock' = Unlocked
  BY <1>2 DEF Unlocked
<1>3. ASSUME NEW thread, NEW retire, lock' = Dispatching(thread, retire)
      PROVE  lock'.at = "dispatch"
  BY <1>3 DEF Dispatching
<1> QED BY <1>1, <1>2, <1>3

\* Counters that did not grow stay within their bounds.
LEMMA BoundsKept ==
  ASSUME IInv, Typed', runningCount' <= runningCount,
         \A g \in Gates : runningByLane'[g] <= runningByLane[g]
  PROVE  WithinBounds'
<1>1. /\ runningCount \in Int /\ runningCount' \in Int
      /\ \A g \in Gates : runningByLane[g] \in Int /\ runningByLane'[g] \in Int
  BY DEF IInv, Typed, QueuesTyped, Lanes
<1>2. MaxWorkers \in Int /\ CrossPluginCap \in Int
  BY BrokerAssumption DEF CrossPluginCap
<1>3. runningCount <= MaxWorkers /\ \A g \in Gates : runningByLane[g] <= CrossPluginCap
  BY DEF IInv, WithinBounds
<1> QED BY <1>1, <1>2, <1>3 DEF WithinBounds

\* Dispatching checks both bounds before it takes a slot.
LEMMA StartWithinBounds ==
  ASSUME IInv, NEW l \in Lanes, NEW j \in Jobs, DispatchStart(l, j)
  PROVE  WithinBounds'
<1>1. /\ runningCount \in Int /\ runningByLane \in [Lanes -> Int]
      /\ runningCount < MaxWorkers /\ runningByLane[l] < LaneRunningLimit(l)
      /\ runningCount' = runningCount + 1
      /\ runningByLane' = [runningByLane EXCEPT ![l] = @ + 1]
  BY CountersAreInt DEF DispatchStart, DispatchHead, CanDispatch
<1>2. MaxWorkers \in Int /\ CrossPluginCap \in Int
  BY BrokerAssumption DEF CrossPluginCap
<1>3. l \in Gates => LaneRunningLimit(l) \in Int /\ LaneRunningLimit(l) <= CrossPluginCap
  <2> SUFFICES ASSUME l \in Gates
               PROVE  LaneRunningLimit(l) \in Int /\ LaneRunningLimit(l) <= CrossPluginCap
    OBVIOUS
  <2>1. policy[l] \in [parallel : ParallelLimits, queue : QueueLimits]
    BY DEF IInv, Typed, GatesTyped
  <2>2. l # FallbackLane /\ ParallelLimits \subseteq Int
    BY BrokerAssumption
  <2>3. policy[l].parallel \in Int
    BY <2>1, <2>2
  <2> HIDE DEF CrossPluginCap
  <2> QED BY <1>2, <2>2, <2>3 DEF LaneRunningLimit
<1>4. runningCount' <= MaxWorkers
  BY <1>1, <1>2
<1>5. ASSUME NEW g \in Gates PROVE runningByLane'[g] <= CrossPluginCap
  <2>1. g \in Lanes /\ runningByLane[g] <= CrossPluginCap
    BY DEF IInv, WithinBounds, Lanes
  <2>2. CASE g = l
    BY <1>1, <1>2, <1>3, <2>1, <2>2
  <2>3. CASE g # l
    BY <1>1, <2>1, <2>3
  <2> QED BY <2>2, <2>3
<1> QED BY <1>4, <1>5 DEF WithinBounds

\* Releasing a slot keeps the bounds and the ready lanes.
LEMMA SlotsReleased ==
  ASSUME IInv, Typed', NEW l \in Lanes, ReleaseSlot(l)
  PROVE  WithinBounds' /\ ReadyOnce'
<1>1. runningCount' <= runningCount /\ \A g \in Gates : runningByLane'[g] <= runningByLane[g]
  BY CountersAreInt DEF ReleaseSlot, Lanes
<1>2. IsInjective(readyLanes')
  BY QueueLaneFacts DEF ReleaseSlot, IInv, Typed, QueuesTyped, ReadyOnce
<1> QED BY <1>1, <1>2, BoundsKept DEF ReadyOnce

\* Steps that take no slot keep the bounds.
LEMMA SlotsKept ==
  ASSUME IInv, Typed', UNCHANGED <<runningByLane, runningCount>>
  PROVE  WithinBounds'
<1>1. runningCount' <= runningCount /\ \A g \in Gates : runningByLane'[g] <= runningByLane[g]
  BY CountersAreInt DEF Lanes
<1> QED BY <1>1, BoundsKept

-----------------------------------------------------------------------------
(* One lemma per action: the step keeps the invariant *)

KeepsParts == Typed' /\ Linked' /\ Counting' /\ ReadyOnce' /\ WithinBounds'

\* The parts make up the invariant.
LEMMA PartsMakeInvariant == KeepsParts => IInv'
BY DEF KeepsParts, Counting, IInv

\* Steps that touch no job and no counter keep the invariant.
LEMMA QuietStep ==
  ASSUME IInv, Typed',
         UNCHANGED <<jobs, laneQueues, runningByLane, queuedCount, runningCount,
                     pendingDeliveryCount>>,
         lock'.at \in {"purge", "settle"} => lock'.of \in Gates,
         ReadyOnce'
  PROVE  IInv'
BY QuietCounting, QuietLinked, SlotsKept, PartsMakeInvariant DEF KeepsParts

\* Everything the loop thread owes or is asked to do that touches no job
LEMMA LoopCallSteps ==
  ASSUME IInv,
         \/ \E j \in Jobs : LoopDiscard(j) \/ LoopMark(j)
         \/ \E g \in Gates : LoopNotify(g) \/ LoopCloseGate(g)
         \/ \E g \in Gates : CloseAdmission(g) \/ HoldForPublication(g) \/ ReleaseHold(g)
         \/ \E g \in Gates, p \in [parallel : ParallelLimits, queue : QueueLimits] : SetPolicy(g, p)
         \/ \E limit \in GlobalLimits : Configure(limit)
         \/ CloseEnd \/ LoopDies
  PROVE  IInv'
<1> USE DEF queueVars
<1>1. ASSUME NEW j \in Jobs, LoopDiscard(j) PROVE IInv'
  <2>1. Typed'
    BY <1>1, LoopDiscardTyped DEF IInv
  <2>2. UNCHANGED <<jobs, queueVars, pendingDeliveryCount, lock>>
    BY <1>1 DEF LoopDiscard
  <2> QED BY <2>1, <2>2, LockLinked, QuietStep DEF IInv, ReadyOnce
<1>2. ASSUME NEW j \in Jobs, LoopMark(j) PROVE IInv'
  <2>1. Typed'
    BY <1>2, LoopMarkTyped DEF IInv
  <2>2. UNCHANGED <<jobs, queueVars, pendingDeliveryCount, lock>>
    BY <1>2 DEF LoopMark
  <2> QED BY <2>1, <2>2, LockLinked, QuietStep DEF IInv, ReadyOnce
<1>3. ASSUME NEW g \in Gates, LoopNotify(g) PROVE IInv'
  <2>1. Typed'
    BY <1>3, LoopNotifyTyped DEF IInv
  <2>2. UNCHANGED <<jobs, laneQueues, runningByLane, queuedCount, runningCount,
                    pendingDeliveryCount>>
    BY <1>3 DEF LoopNotify
  <2>3. lock' = Dispatching("loop", FALSE)
    BY <1>3 DEF LoopNotify
  <2>4. ReadyOnce'
    BY <1>3, QueueLaneFacts DEF LoopNotify, IInv, Typed, QueuesTyped, ReadyOnce, Lanes
  <2> QED BY <2>1, <2>2, <2>3, <2>4, LockLinked, QuietStep
<1>4. ASSUME NEW g \in Gates, LoopCloseGate(g) PROVE IInv'
  <2>1. Typed'
    BY <1>4, LoopCloseGateTyped DEF IInv
  <2>2. UNCHANGED <<jobs, queueVars, pendingDeliveryCount>>
    BY <1>4 DEF LoopCloseGate
  <2>3. lock'.at \in {"purge", "settle"} => lock'.of \in Gates
    BY <1>4 DEF LoopCloseGate, Unlocked
  <2> QED BY <2>1, <2>2, <2>3, QuietStep DEF IInv, ReadyOnce
<1>5. ASSUME NEW g \in Gates, CloseAdmission(g) \/ HoldForPublication(g) \/ ReleaseHold(g)
      PROVE  IInv'
  <2>1. PICK from \in SUBSET {"open", "held"}, to \in {"open", "held", "closed"},
             call \in {"notify", "closeGate"} : GateCall(g, from, to, call)
    BY <1>5 DEF CloseAdmission, HoldForPublication, ReleaseHold
  <2>2. Typed'
    BY <2>1, GateCallTyped DEF IInv
  <2>3. UNCHANGED <<jobs, queueVars, pendingDeliveryCount, lock>>
    BY <2>1 DEF GateCall
  <2> QED BY <2>2, <2>3, LockLinked, QuietStep DEF IInv, ReadyOnce
<1>6. ASSUME NEW g \in Gates, NEW p \in [parallel : ParallelLimits, queue : QueueLimits],
             SetPolicy(g, p)
      PROVE  IInv'
  <2>1. Typed'
    BY <1>6, SetPolicyTyped DEF IInv
  <2>2. UNCHANGED <<jobs, queueVars, pendingDeliveryCount, lock>>
    BY <1>6 DEF SetPolicy
  <2> QED BY <2>1, <2>2, LockLinked, QuietStep DEF IInv, ReadyOnce
<1>7. ASSUME NEW limit \in GlobalLimits, Configure(limit) PROVE IInv'
  <2>1. Typed'
    BY <1>7, BrokerCallsTyped DEF IInv
  <2>2. UNCHANGED <<jobs, queueVars, pendingDeliveryCount>> /\ lock' = Dispatching("loop", FALSE)
    BY <1>7 DEF Configure
  <2> QED BY <2>1, <2>2, LockLinked, QuietStep DEF IInv, ReadyOnce
<1>8. CASE CloseEnd
  <2>1. Typed'
    BY <1>8, BrokerCallsTyped DEF IInv
  <2>2. UNCHANGED <<jobs, queueVars, pendingDeliveryCount, lock>>
    BY <1>8 DEF CloseEnd
  <2> QED BY <2>1, <2>2, LockLinked, QuietStep DEF IInv, ReadyOnce
<1>9. CASE LoopDies
  <2>1. Typed'
    BY <1>9, BrokerCallsTyped DEF IInv
  <2>2. UNCHANGED <<jobs, queueVars, pendingDeliveryCount, lock>>
    BY <1>9 DEF LoopDies
  <2> QED BY <2>1, <2>2, LockLinked, QuietStep DEF IInv, ReadyOnce
<1> QED BY <1>1, <1>2, <1>3, <1>4, <1>5, <1>6, <1>7, <1>8, <1>9

\* The dispatch loop and the purge
LEMMA LockHolderSteps ==
  ASSUME IInv, LockHolderStep
  PROVE  IInv'
<1>1. CASE DispatchSkip
  <2>1. Typed'
    BY <1>1, DispatchSkipTyped
  <2>2. UNCHANGED <<jobs, laneQueues, runningByLane, queuedCount, runningCount,
                    pendingDeliveryCount, lock>>
    BY <1>1 DEF DispatchSkip
  <2>3. readyLanes \in Seq(Lanes) /\ IsInjective(readyLanes) /\ readyLanes # <<>>
    BY <1>1 DEF DispatchSkip, CanDispatch, IInv, Typed, QueuesTyped, ReadyOnce
  <2>4. ReadyOnce'
    BY <1>1, <2>3, TailFacts DEF DispatchSkip, ReadyOnce
  <2> QED BY <2>1, <2>2, <2>4, LockLinked, QuietStep
<1>2. ASSUME NEW l \in Lanes, NEW j \in Jobs, DispatchCancelled(l, j) PROVE IInv'
  <2>1. Change(j, "cancelled", jobs[j].lane, jobs[j].deliveryPending) /\ Counting'
    BY <1>2, DispatchCancelledCounting
  <2>2. /\ DispatchHead(l, j, runningByLane[l])
        /\ UNCHANGED <<lock, runningByLane, runningCount>>
    BY <1>2 DEF DispatchCancelled
  <2>3. Linked' /\ JobsTyped'
    BY <2>1, <2>2, LockLinked, ChangedLinked
  <2>4. Typed'
    BY <1>2, <2>3, DispatchCancelledTyped
  <2>5. ReadyOnce'
    BY <2>2, DispatchedHead, QueueLaneFacts DEF DispatchHead, ReadyOnce
  <2> QED BY <2>1, <2>2, <2>3, <2>4, <2>5, SlotsKept, PartsMakeInvariant DEF KeepsParts
<1>3. ASSUME NEW l \in Lanes, NEW j \in Jobs, DispatchStart(l, j) PROVE IInv'
  <2>1. Change(j, "running", jobs[j].lane, jobs[j].deliveryPending) /\ Counting'
    BY <1>3, DispatchStartCounting
  <2>2. DispatchHead(l, j, runningByLane[l] + 1) /\ UNCHANGED lock
    BY <1>3 DEF DispatchStart
  <2>3. Linked' /\ JobsTyped'
    BY <2>1, <2>2, LockLinked, ChangedLinked
  <2>4. Typed'
    BY <1>3, <2>3, DispatchStartTyped
  <2>5. ReadyOnce'
    BY <2>2, DispatchedHead, QueueLaneFacts DEF DispatchHead, ReadyOnce
  <2>6. WithinBounds'
    BY <1>3, StartWithinBounds
  <2> QED BY <2>1, <2>3, <2>4, <2>5, <2>6, PartsMakeInvariant DEF KeepsParts
<1>4. ASSUME NEW l \in Lanes, NEW j \in Jobs, DispatchFailed(l, j) PROVE IInv'
  <2>1. Change(j, "terminal", jobs[j].lane, loopAlive) /\ Counting'
    BY <1>4, DispatchFailedCounting
  <2>2. /\ DispatchHead(l, j, runningByLane[l])
        /\ UNCHANGED <<lock, runningByLane, runningCount>>
    BY <1>4 DEF DispatchFailed
  <2>3. Linked' /\ JobsTyped'
    BY <2>1, <2>2, LockLinked, ChangedLinked
  <2>4. Typed'
    BY <1>4, <2>3, DispatchFailedTyped
  <2>5. ReadyOnce'
    BY <2>2, DispatchedHead, QueueLaneFacts DEF DispatchHead, ReadyOnce
  <2> QED BY <2>1, <2>2, <2>3, <2>4, <2>5, SlotsKept, PartsMakeInvariant DEF KeepsParts
<1>5. CASE DispatchDone
  <2>1. Typed'
    BY <1>5, DispatchDoneTyped
  <2>2. UNCHANGED <<jobs, queueVars, pendingDeliveryCount>> /\ lock' = Unlocked
    BY <1>5 DEF DispatchDone
  <2> QED BY <2>1, <2>2, LockLinked, QuietStep DEF IInv, ReadyOnce, queueVars
<1>6. ASSUME NEW i, PurgeJob(i) PROVE IInv'
  <2>1. Linked' /\ Counting'
    BY <1>6, PurgeJobCounting
  <2>2. JobsTyped'
    BY <2>1 DEF Linked, JobsTyped, SoundJob
  <2>3. Typed'
    BY <1>6, <2>2, PurgeJobTyped
  <2>4. UNCHANGED <<readyLanes, runningByLane, runningCount>>
    BY <1>6 DEF PurgeJob
  <2>5. ReadyOnce'
    BY <2>4 DEF IInv, ReadyOnce
  <2> QED BY <2>1, <2>3, <2>4, <2>5, SlotsKept, PartsMakeInvariant DEF KeepsParts
<1>7. CASE PurgeDone
  <2>1. Typed' /\ ReadyOnce'
    BY <1>7, PurgeDoneTyped DEF ReadyOnce
  <2>2. /\ UNCHANGED <<jobs, laneQueues, runningByLane, queuedCount, runningCount,
                       pendingDeliveryCount>>
        /\ lock' = Dispatching("loop", FALSE)
    BY <1>7 DEF PurgeDone
  <2> QED BY <2>1, <2>2, LockLinked, QuietStep
<1>8. CASE Settle
  <2>1. Typed'
    BY <1>8, SettleTyped
  <2>2. UNCHANGED <<jobs, queueVars, pendingDeliveryCount>> /\ lock' = Dispatching("worker", TRUE)
    BY <1>8 DEF Settle
  <2> QED BY <2>1, <2>2, LockLinked, QuietStep DEF IInv, ReadyOnce, queueVars
<1> QED BY <1>1, <1>2, <1>3, <1>4, <1>5, <1>6, <1>7, <1>8 DEF LockHolderStep

\* Submissions
LEMMA SubmitSteps ==
  ASSUME IInv, NEW j \in Jobs, NEW l \in Lanes, NEW a \in Scopes, Admit(j, l, a) \/ Reject(j, l, a)
  PROVE  IInv'
<1>1. a \in BOOLEAN
  BY BrokerAssumption
<1>2. CASE Admit(j, l, a)
  <2>1. Change(j, "queued", l, jobs[j].deliveryPending) /\ Counting'
    BY <1>1, <1>2, AdmitCounting
  <2>2. lock' = Dispatching("loop", FALSE) /\ UNCHANGED <<runningByLane, runningCount>>
    BY <1>2 DEF Admit
  <2>3. Linked' /\ JobsTyped'
    BY <2>1, <2>2, LockLinked, ChangedLinked
  <2>4. Typed' /\ ReadyOnce'
    BY <1>1, <1>2, <2>3, AdmitTyped DEF ReadyOnce
  <2> QED BY <2>1, <2>2, <2>3, <2>4, SlotsKept, PartsMakeInvariant DEF KeepsParts
<1>3. CASE Reject(j, l, a)
  <2>1. Change(j, "rejected", jobs[j].lane, jobs[j].deliveryPending) /\ Counting'
    BY <1>1, <1>3, RejectCounting
  <2>2. UNCHANGED <<lock, readyLanes, runningByLane, runningCount>>
    BY <1>3 DEF Reject
  <2>3. Linked' /\ JobsTyped'
    BY <2>1, <2>2, LockLinked, ChangedLinked
  <2>4. Typed'
    BY <1>1, <1>3, <2>3, RejectTyped
  <2>5. ReadyOnce'
    BY <2>2 DEF IInv, ReadyOnce
  <2> QED BY <2>1, <2>2, <2>3, <2>4, <2>5, SlotsKept, PartsMakeInvariant DEF KeepsParts
<1> QED BY <1>2, <1>3

\* Steps that change one job record and no queue, slot or delivery
LEMMA RecordSteps ==
  ASSUME IInv, NEW j \in Jobs,
         \/ WorkerStart(j)
         \/ \E o \in Endings : WorkerFinish(j, o)
         \/ CancelCancelled(j) /\ LoopCanLock
         \/ ConsumerResumes(j)
         \/ RunScheduledCancel(j)
         \/ DetachRunning(j)
  PROVE  IInv'
<1>1. Kept(j) /\ Counting'
  BY KeptCounting
<1>2. UNCHANGED <<lock, readyLanes, runningByLane, runningCount>>
  BY DEF WorkerStart, WorkerFinish, DetachRunning, CancelCancelled, ConsumerResumes,
         RunScheduledCancel, queueVars
<1>3. Linked' /\ JobsTyped'
  BY <1>1, <1>2, LockLinked, ChangedLinked DEF Kept
<1>4. Typed'
  BY <1>3, RecordStepsTyped DEF IInv
<1>5. ReadyOnce'
  BY <1>2 DEF IInv, ReadyOnce
<1> QED BY <1>1, <1>2, <1>3, <1>4, <1>5, SlotsKept, PartsMakeInvariant DEF KeepsParts

\* A worker's done-callback releases the slot.
LEMMA WorkerCompleteStep ==
  ASSUME IInv, NEW j \in Jobs, WorkerComplete(j)
  PROVE  IInv'
<1>1. /\ Change(j, "terminal", jobs[j].lane, ~(jobs[j].detached \/ ~loopAlive))
      /\ Counting'
  BY WorkerCompleteCounting
<1>2. jobs[j].lane \in Lanes /\ ReleaseSlot(jobs[j].lane)
  BY JobIsSound DEF WorkerComplete, ReturnedCallback
<1>3. \/ lock' = Dispatching("worker", TRUE)
      \/ lock'.of = jobs[j].lane /\ jobs[j].lane \in Gates
  <2> DEFINE direct == jobs[j].detached \/ ~loopAlive
             tracked == IsGated(j) /\ j \in syncFutures[jobs[j].lane]
  <2>1. CASE direct /\ tracked
    <3>1. lock' = [by |-> "worker", at |-> "settle", of |-> jobs[j].lane,
                   flag |-> PendingDetached(jobs[j].lane, j)]
      BY <2>1 DEF WorkerComplete
    <3> QED BY <2>1, <3>1 DEF IsGated
  <2>2. CASE ~(direct /\ tracked)
    BY <2>2 DEF WorkerComplete
  <2> QED BY <2>1, <2>2
<1>4. lock'.at \in {"purge", "settle"} => lock'.of \in Gates
  BY <1>3, LockLinked
<1>5. Linked' /\ JobsTyped'
  BY <1>1, <1>4, ChangedLinked
<1>6. Typed'
  BY <1>2, <1>5, WorkerCompleteTyped
<1> QED BY <1>1, <1>2, <1>5, <1>6, SlotsReleased, PartsMakeInvariant DEF KeepsParts

\* A consumer receives CancelledError.
LEMMA ConsumerCancelledStep ==
  ASSUME IInv, NEW j \in Jobs, ConsumerCancelled(j)
  PROVE  IInv'
<1>1. CASE CancelQueued(j)
  <2>1. Change(j, "cancelled", jobs[j].lane, jobs[j].deliveryPending) /\ Counting'
    BY <1>1, CancelQueuedCounting
  <2>2. jobs[j].lane \in Lanes /\ lock' = Dispatching("loop", FALSE)
        /\ UNCHANGED <<runningByLane, runningCount>>
    BY <1>1, JobIsSound DEF CancelQueued
  <2>3. Linked' /\ JobsTyped'
    BY <2>1, <2>2, LockLinked, ChangedLinked
  <2>4. Typed' /\ ReadyOnce'
    BY <1>1, <2>2, <2>3, CancelQueuedTyped DEF ReadyOnce
  <2> QED BY <2>1, <2>2, <2>3, <2>4, SlotsKept, PartsMakeInvariant DEF KeepsParts
<1>2. CASE CancelPending(j)
  <2>1. Change(j, "terminal", jobs[j].lane, jobs[j].deliveryPending) /\ Counting'
    BY <1>2, CancelPendingCounting
  <2>2. /\ jobs[j].lane \in Lanes /\ ReleaseSlot(jobs[j].lane)
        /\ lock' = Dispatching("loop", TRUE)
    BY <1>2, JobIsSound DEF CancelPending
  <2>3. Linked' /\ JobsTyped'
    BY <2>1, <2>2, LockLinked, ChangedLinked
  <2>4. Typed'
    BY <1>2, <2>2, <2>3, CancelPendingTyped
  <2> QED BY <2>1, <2>2, <2>3, <2>4, SlotsReleased, PartsMakeInvariant DEF KeepsParts
<1>3. CASE CancelTerminal(j) \/ Deliver(j)
  <2>1. Change(j, jobs[j].state, jobs[j].lane, FALSE) /\ Counting'
    BY <1>3, SettledCounting
  <2>2. UNCHANGED <<lock, readyLanes, runningByLane, runningCount>>
    BY <1>3 DEF CancelTerminal, Deliver, queueVars
  <2>3. Linked' /\ JobsTyped'
    BY <2>1, <2>2, LockLinked, ChangedLinked
  <2>4. Typed'
    BY <1>3, <2>3, SettledTyped DEF IInv
  <2>5. ReadyOnce'
    BY <2>2 DEF IInv, ReadyOnce
  <2> QED BY <2>1, <2>2, <2>3, <2>4, <2>5, SlotsKept, PartsMakeInvariant DEF KeepsParts
<1>4. CASE DetachRunning(j) \/ CancelCancelled(j)
  BY <1>4, RecordSteps DEF ConsumerCancelled
<1> QED BY <1>1, <1>2, <1>3, <1>4 DEF ConsumerCancelled, CancelOrDetach

\* An outcome reaches its completion on the loop.
LEMMA DeliverStep ==
  ASSUME IInv, NEW j \in Jobs, Deliver(j)
  PROVE  IInv'
<1>1. Change(j, jobs[j].state, jobs[j].lane, FALSE) /\ Counting'
  BY SettledCounting
<1>2. UNCHANGED <<lock, readyLanes, runningByLane, runningCount>>
  BY DEF Deliver, queueVars
<1>3. Linked' /\ JobsTyped'
  BY <1>1, <1>2, LockLinked, ChangedLinked
<1>4. Typed'
  BY <1>3, SettledTyped DEF IInv
<1>5. ReadyOnce'
  BY <1>2 DEF IInv, ReadyOnce
<1> QED BY <1>1, <1>2, <1>3, <1>4, <1>5, SlotsKept, PartsMakeInvariant DEF KeepsParts

\* Closing the broker keeps the invariant.
LEMMA CloseBeginStep ==
  ASSUME IInv, CloseBegin
  PROVE  IInv'
<1>1. Linked' /\ Counting'
  BY CloseBeginCounting
<1>2. JobsTyped'
  BY <1>1 DEF Linked, JobsTyped, SoundJob
<1>3. Typed'
  BY <1>2, CloseBeginTyped DEF IInv
<1>4. readyLanes' = <<>> /\ UNCHANGED <<runningByLane, runningCount>>
  BY DEF CloseBegin
<1>5. ReadyOnce'
  <2>1. <<>> \in Seq(Lanes)
    OBVIOUS
  <2> QED BY <1>4, <2>1, EmptyFacts DEF ReadyOnce
<1> QED BY <1>1, <1>3, <1>4, <1>5, SlotsKept, PartsMakeInvariant DEF KeepsParts

-----------------------------------------------------------------------------
(* The inductive argument *)

\* The invariant holds initially.
LEMMA InitInvariant == Init => IInv
<1> SUFFICES ASSUME Init PROVE IInv
  OBVIOUS
<1>1. NewJob \in SoundJob
  BY DEF NewJob, SoundJob, Job, Outcomes
<1>2. jobs \in [Jobs -> SoundJob] /\ \A j \in Jobs : jobs[j] = NewJob
  BY <1>1 DEF Init
<1>3. Linked
  BY <1>2 DEF Init, Linked, Unlocked
<1>4. <<>> \in Seq(Jobs) /\ <<>> \in Seq(Lanes) /\ IsInjective(<<>>) /\ Range(<<>>) = {}
  <2>1. <<>> \in Seq(Jobs) /\ <<>> \in Seq(Lanes)
    OBVIOUS
  <2> QED BY <2>1, EmptyFacts
<1>5. JobsTyped
  BY <1>2 DEF JobsTyped, SoundJob
<1>6. QueuesTyped
  BY <1>4 DEF Init, QueuesTyped
<1>7. BrokerTyped
  BY DEF Init, Unlocked, BrokerTyped
<1>8. GatesTyped
  BY DEF Init, GatesTyped
<1>9. LoopTyped
  BY DEF Init, Idle, LoopTyped
<1>10. /\ RunningJobs = {} /\ QueuedJobs = {} /\ PendingJobs = {}
       /\ \A l \in Lanes : RunningIn(l) = {} /\ QueuedIn(l) = {}
  BY <1>2 DEF NewJob, RunningJobs, QueuedJobs, PendingJobs, RunningIn, QueuedIn
<1>11. QueuesHold /\ ReadyOnce
  BY <1>4, <1>10 DEF Init, QueuesHold, ReadyOnce
<1>12. RunningCounted /\ QueuedCounted /\ PendingCounted
  BY <1>10, FS_EmptySet DEF Init, RunningCounted, QueuedCounted, PendingCounted
<1>13. WithinBounds
  BY BrokerAssumption DEF Init, WithinBounds, CrossPluginCap, Lanes
<1> QED BY <1>3, <1>5, <1>6, <1>7, <1>8, <1>9, <1>11, <1>12, <1>13 DEF IInv, Typed

\* A stuttering step keeps the invariant.
LEMMA StutterInvariant == IInv /\ UNCHANGED vars => IInv'
<1> SUFFICES ASSUME IInv, UNCHANGED vars PROVE IInv'
  OBVIOUS
<1>1. UNCHANGED <<jobs, queueVars, pendingDeliveryCount, brokerVars, lock, gateVars,
                  trackVars, fatalErrors, loopAlive, todo, cancelCalls>>
  BY DEF vars
<1>2. Typed'
  BY <1>1, PartsKept DEF IInv, Typed
<1>3. UNCHANGED <<laneQueues, readyLanes, runningByLane, queuedCount, runningCount>>
  BY <1>1 DEF queueVars
<1> QED BY <1>1, <1>2, <1>3, LockLinked, QuietStep DEF IInv, ReadyOnce

\* Every step keeps the invariant.
LEMMA NextInvariant == IInv /\ [Next]_vars => IInv'
<1> SUFFICES ASSUME IInv, Next PROVE IInv'
  BY StutterInvariant
<1>1. CASE LockHolderStep
  BY <1>1, LockHolderSteps
<1>2. CASE LoopOwes
  BY <1>2, LoopCallSteps DEF LoopOwes
<1>3. CASE \E j \in Jobs, l \in Lanes, a \in Scopes : Admit(j, l, a) \/ Reject(j, l, a)
  BY <1>3, SubmitSteps
<1>4. CASE \E j \in Jobs :
              \/ WorkerStart(j) \/ \E o \in Endings : WorkerFinish(j, o)
              \/ ConsumerResumes(j) \/ RunScheduledCancel(j)
  BY <1>4, RecordSteps
<1>5. CASE \E j \in Jobs : WorkerComplete(j)
  BY <1>5, WorkerCompleteStep
<1>6. CASE \E j \in Jobs : ConsumerCancelled(j)
  BY <1>6, ConsumerCancelledStep
<1>7. CASE \E j \in Jobs : Deliver(j)
  BY <1>7, DeliverStep
<1>8. CASE \/ \E g \in Gates : CloseAdmission(g) \/ HoldForPublication(g) \/ ReleaseHold(g)
           \/ \E g \in Gates, p \in [parallel : ParallelLimits, queue : QueueLimits] : SetPolicy(g, p)
           \/ \E limit \in GlobalLimits : Configure(limit)
           \/ CloseEnd \/ LoopDies
  BY <1>8, LoopCallSteps
<1>9. CASE CloseBegin
  BY <1>9, CloseBeginStep
<1> QED BY <1>1, <1>2, <1>3, <1>4, <1>5, <1>6, <1>7, <1>8, <1>9 DEF Next

\* The deques, ready lanes and counters of the broker are consistent in every
\* state: what submit, dispatch, completion, cancellation and close maintain.
THEOREM Invariance == Spec => []IInv
BY InitInvariant, NextInvariant, PTL DEF Spec

\* Every variable has its type and no counter ever becomes negative, whatever
\* the number of jobs, gates, workers and limits (the asserts of
\* _release_running_slot_locked never fire).
THEOREM TypeCorrect == Spec => []TypeOK
<1>1. IInv => TypeOK
  <2> SUFFICES ASSUME IInv PROVE TypeOK
    OBVIOUS
  <2>1. Shape
    BY DEF IInv, Typed, JobsTyped, QueuesTyped, BrokerTyped, GatesTyped, LoopTyped, Shape
  <2>2. queuedCount \in Nat /\ runningCount \in Nat /\ pendingDeliveryCount \in Nat
    BY CountedFinite, FS_CardinalityType DEF IInv, RunningCounted, QueuedCounted, PendingCounted
  <2>3. \A l \in Lanes : runningByLane[l] \in Nat
    BY CountedFinite, FS_CardinalityType DEF IInv, RunningCounted
  <2>4. runningByLane \in [Lanes -> Nat]
    BY <2>3, CountersAreInt
  <2> QED BY <2>1, <2>2, <2>4 DEF TypeOK
<1> QED BY <1>1, Invariance, PTL

\* No more callbacks hold a worker than there are workers, and a single gate
\* never holds all of several workers, whatever policies are applied while
\* callbacks run (_dispatch_locked, _lane_running_limit_locked).
THEOREM BoundedWorkers == Spec => []WorkersBounded
<1>1. IInv => WorkersBounded
  <2> SUFFICES ASSUME IInv PROVE WorkersBounded
    OBVIOUS
  <2>1. Cardinality(RunningJobs) <= MaxWorkers
    BY DEF IInv, WithinBounds, RunningCounted
  <2>2. \A g \in Gates : Cardinality(RunningIn(g)) <= CrossPluginCap
    BY DEF IInv, WithinBounds, RunningCounted, Lanes
  <2> QED BY <2>1, <2>2 DEF WorkersBounded
<1> QED BY <1>1, Invariance, PTL

\* Every queued job is in its lane's deque exactly once, and every counter that
\* the bounds and the close decide by equals the number of jobs it stands for.
THEOREM ExactCounters == Spec => []CountersExact
<1>1. IInv => CountersExact
  <2> SUFFICES ASSUME IInv PROVE CountersExact
    OBVIOUS
  <2>1. ASSUME NEW l \in Lanes
        PROVE  /\ Range(laneQueues[l]) = QueuedIn(l)
               /\ Len(laneQueues[l]) = Cardinality(QueuedIn(l))
               /\ runningByLane[l] = Cardinality(RunningIn(l))
    <3>1. laneQueues[l] \in Seq(Jobs) /\ IsInjective(laneQueues[l])
          /\ Range(laneQueues[l]) = QueuedIn(l)
      BY DEF IInv, Typed, QueuesTyped, QueuesHold
    <3>2. Len(laneQueues[l]) = Cardinality(Range(laneQueues[l]))
      BY <3>1, LenIsCardinality
    <3> QED BY <3>1, <3>2 DEF IInv, RunningCounted
  <2>2. /\ queuedCount = Cardinality({j \in Jobs : jobs[j].state = "queued"})
        /\ runningCount = Cardinality(RunningJobs)
        /\ pendingDeliveryCount = Cardinality({j \in Jobs : jobs[j].deliveryPending})
    BY DEF IInv, RunningCounted, QueuedCounted, QueuedJobs, PendingCounted, PendingJobs
  <2>3. Len(readyLanes) = Cardinality(Range(readyLanes))
    BY LenIsCardinality DEF IInv, Typed, QueuesTyped, ReadyOnce
  <2> QED BY <2>1, <2>2, <2>3 DEF CountersExact
<1> QED BY <1>1, Invariance, PTL

\* Types, counts and bounds of the broker together, as the runs check them.
THEOREM BooksBalance == Spec => []Accounting
BY TypeCorrect, ExactCounters, BoundedWorkers, PTL DEF Accounting
=============================================================================
