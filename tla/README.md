# The concurrent core of XiaoQing in TLA+

XiaoQing is a bot framework for QQ over OneBot (Python, asyncio). Its core in
`src/core` takes events from HTTP and WebSocket entrances, puts them in order
per conversation, routes them to hot-reloadable plugins, runs plugin callbacks
under limits and quarantines, and sends what they return. Almost everything
runs on one asyncio loop; synchronous plugin callbacks run on a shared pool of
threads. This directory models the parts where order, cancellation, time-outs,
faults and threads decide whether the code is right.

Each module starts with a comment that says which class it models and where
the code suspends: an action is what runs between two suspensions of a task, or
under one hold of a lock by a thread. `PROJECT.json` maps every definition to
the lines it translates.

## The system

| part | state | operations | with whom |
|---|---|---|---|
| Inbound transports, `server.py` (`InboundServer`, `InboundManager`) | sockets, authentication generations, a WebSocket queue | listen, authenticate, admit, await or discard tickets, send answers | dispatcher of events; ingress switch |
| Inbound event dispatcher, `server.py` (`_InboundEventDispatcher`) | a FIFO lane per session key, a ready queue, worker tasks, the in-flight count | `admit`, `wait`, `cancel`, `discard`, `start`, `stop` | transports call it; it calls the application's handler |
| Event delivery, `app_delivery.py` | recently seen message ids, upstream client | claim an event once, collect and send actions | handler of the dispatcher; receipts |
| Delivery receipts, `delivery.py` | expected and delivered counts, resolution | `record`, `add_expected_actions`, commit / rollback / unknown callback | made by plugins, resolved by transports |
| Message dispatcher, `dispatcher.py`, `router.py` | mute table, an adjustable semaphore | match, parse, session handler or command | sessions, gates |
| Session store, `session.py` | sessions by user and group, one running transaction per key | `create`, `get`, `peek`, `update`, `delete`, sweeps | keyed lock pool; plugin callbacks |
| Keyed lock pool, `async_keyed_lock.py` | entries with a lock, an owner and a user count | `hold` | session store |
| Plugin execution gate, `plugin_execution.py` | slots, waiters, operations, quarantine, circuit, admission | `run`, `set_policy`, hold, `close` | dispatcher and generations call it; broker |
| Synchronous bulkhead, `plugin_execution.py` (`PluginSyncBroker`) | lanes, ready lanes, counters, executor | `submit`, completion on worker threads, delivery on the loop, `close` | gates; `ThreadPoolExecutor` |
| Plugin generations, `plugin_generation.py`, `plugin_manager*.py`, `plugin_runtime.py`, `plugin_watcher.py` | loaded generations, initialisations, retired ones | load, unload, reload with roll-back, watch | gates, broker, scheduler |
| Scheduler, `scheduler.py`, `app_scheduling.py` | jobs, running job futures | add, replace a prefix, drain | plugins, generations |
| Configuration, `config.py`, `app_config_apply.py` | snapshot, watcher, owner of an application | load, publish, apply, roll back | resizes the semaphore, switches ingress |
| Application, `app*.py`, `lifecycle.py` | lifecycle phase, components | start, stop, switch ingress | all |
| OneBot client, `onebot.py` | connection, pending calls by echo | connect, call, receive | delivery |
| Durable files, `atomic_store.py`, `durable_fanout.py`, `bounded_file_cache.py` | files and their backups, delivered targets | write, recover, acknowledge | plugins |
| Outbound HTTP, AI client, contexts, message helpers, OS support | - | sequential I/O and pure code | plugins |
| Plugins (`src/plugins`) | their own | bot features | core |

What makes it hard: a cancellation can arrive at every `await`, also after the
awaited future is done and before the task resumes; time-outs are cancellations
the code sends itself, and the code they hit may swallow them; limits change
under waiters and holders; gates and brokers close under work; worker threads
and the loop share counters; a thread cannot be cancelled at all; a connection
is replaced while requests are on it; a reload fails half way.

What would be wrong, part by part:

- *dispatchers*: two handlers of one session at a time, or out of order; a lane
  nobody serves; a count that never drains; actions nobody accounts for; a
  session continued through a stale gate;
- *gate and semaphore*: a slot given back twice or never, a waiter asleep
  beside a free slot, a sequential plugin run twice at once, a quarantine left
  behind or lifted early, a closed gate that still starts work;
- *bulkhead*: lost wake-ups of lanes, one plugin taking every thread, an
  executor shut down under work or never, a fatal outcome nobody raises;
- *locks and sessions*: two entries of one key, an entry that leaks, a lost
  update, an update published after it failed;
- *generations and ingress*: two generations or listeners serving at once, none
  after a failed change, a quarantine that is forgotten;
- *replies and pushes*: a piece carried out twice, a receipt that says what did
  not happen, a post skipped or repeated after a crash.

## Modules

| module | models | promise it implements |
|---|---|---|
| `SyncBroker` | `PluginSyncBroker`, `offload_plugin_sync`, the futures a gate tracks | `Bulkhead` |
| `ExecutionGate` | `PluginExecutionGate` | `SlotPool` |
| `AdjustableSemaphore` | `AdjustableSemaphore` of the message dispatcher | `SlotPool` |
| `KeyedLock` | `AsyncKeyedLockPool` | `KeyMutex` |
| `SessionManager` | `SessionManager` and its transactions | `AtomicSessions` |
| `Dispatcher` | `handle_event`, the session branch with its retry and clean-up, command execution | |
| `InboundDispatcher` | `_InboundEventDispatcher` and what transports do with its tickets | `FifoLanes` |
| `IngressSwitch` | publication and application of listener changes (`app_ingress.py`, `app_config_apply.py`, `InboundManager`) | |
| `PluginGenerations` | watcher, reload and unload of one plugin with every roll-back | |
| `ReplyDelivery` | `_send_action`, `DeliveryReceipt`, `OneBotWsClient` | |
| `Fanout` | `durable_fanout.py` as `plugins/earthquake` uses it, over crashes | |
| `Deques`, `DequeLemmas` | `deque.remove`, the order of a line as a relation, and proved facts about them | |
| `...Proofs` | theorems | |
| `MC...` | instances for TLC | |

The abstract modules say what a caller may rely on and nothing of how:
`Bulkhead` is a pool of workers in which no owner takes all of them, `SlotPool`
a first-come pool of slots with a capacity that moves, `KeyMutex` one first-come
mutex per key, `AtomicSessions` a store whose operations take effect at once,
`FifoLanes` one queue per key served one at a time. Each concrete module ends
with an `INSTANCE` that maps its variables onto them. `SlotPool` and `KeyMutex`
know a line as a set of those who wait and the relation *came before* among
them; `Order` in `Deques` reads that relation off a deque that may still hold
those who have given up. A user of one of these classes is modelled over the
promise: `SessionManager` and `Dispatcher` use the keyed lock as `KeyMutex` has
it, `Dispatcher` the gate and the store, `PluginGenerations` a gate that, once
closed, starts nothing and drains.

Correspondence with the code:

- **SyncBroker.** A job record is a `_SyncCallbackJob` with its two futures.
  `_lock` is held over several steps where the code calls out under it
  (`ThreadPoolExecutor.submit`, `Future.cancel`, which run callbacks
  re-entrantly), so the lock and what its holder still has to do are state.
  Worker threads act between any two steps of the loop.
- **ExecutionGate.** `phase` is where a call of `run` is suspended; `op` is its
  operation task, which outlives an abandoned call. Futures of synchronous
  callbacks are one variable of three values here; `SyncBroker` has them in full.
- **AdjustableSemaphore**, **KeyedLock.** `future` is the future a waiter
  awaits: pending, set and not yet seen, or cancelled. The asyncio locks in pool
  entries are modelled as CPython implements them.
- **SessionManager.** A stored session is a version with the set of writes it
  contains, so a lost update is visible as a missing element.
- **Dispatcher.** Session ids and gates are only ever compared, so a message
  keeps how what it saw relates to what is there: current or stale, open or closed.
  Unloading a plugin cancels the messages in its gate and those that wait for it;
  they leave as "cancelled".
- **InboundDispatcher.** A worker runs through several tickets without
  suspending; `looping` names it, and nothing else happens meanwhile.
  Transports give tickets up at any time; a finished result they take as it is
  changes nothing and is no step.
- **IngressSwitch.** Each revision of the configuration has a task; a manager is
  named by the revision whose task built it. Starting and stopping a manager are
  single steps at their end, the HTTP and WebSocket servers count as one, tokens
  are those of the revision or empty. The reconcile at start-up is the first
  task; `_inbound_cleanup_quarantine` and the rotation of senders are left out.
- **PluginGenerations.** One job holds the lifecycle lock; `pc` is the await it
  is at. A manifest that is bad or gone behaves as one that is switched off, the
  read of manifest and fingerprint is atomic. Generations and gates nobody refers
  to any more are reused.
- **ReplyDelivery.** A sender is a task inside `_send_action` with one receipt.
  Every attempt to connect is a task with its socket. The inbound WebSocket
  clients count as one way, "entrance"; the two ways share one flag of trust; a
  cancelled task unwinds at once and a close succeeds.
- **Fanout.** Files are the four the plugin writes, a thread that outlives its
  job is a *stray* with its writes left. The variables `pushed`, `settled` and
  `forgiven` are ghosts. A cancellation meets a send at three points: before it is
  with a transport (`CancelJob`), while the transport writes or requests
  (`SendCut`: the receipt rolls back), and while the answer is awaited
  (`SendCancelled`: an unknown outcome).

## Runs

A run with two halves joins two modules that share no state: `part` picks the
half at the start of a behaviour and the other never moves, which costs the sum
of both state spaces and not their product.

| run | instance | what it shows |
|---|---|---|
| `sync_lanes` | 3 jobs, a gate and the ungated lane, 3 workers, limits that change, submission may fail; loop, gate or broker stop under 2 jobs | exact counters, bounds, no job waits beside a free slot, every fatal outcome has one owner |
| `plugin_work` | callbacks: 2 jobs, gate close and hold, broker close, cancelled consumers. Replies: four scenes of 1 or 2 senders, one drop or one change of credentials | a bulkhead; stops in control; every call answered, quarantines end. No piece twice, receipts true, every reply ends |
| `sync_quarantine_race` | 2 jobs of a gate at once | **violation**, see below |
| `gate_faults` | 2 calls of a sequential plugin with time-outs, cancellations, failures, hold and close; 3 calls of a parallel one with moving limits | a first-come pool, slots exact, one at a time, quarantine as long as its cause, drained means quiet, late fatal errors kept, no start on an unavailable gate |
| `gate_interrupted` | 2 calls, a second cancellation | **violation** |
| `sessions` | sessions: 2 operations on a key or over two, expiry and cancellation at every suspension. Locks: 3 tasks, 3 keys, room for 2 entries, re-entry | atomic operations, stores only under the key's turn, a failed update leaves nothing, every operation ends; exclusion across reclaimed entries, exact counts, a first-come mutex per key |
| `dispatch` | limit: 4 tasks, capacities 1 to 3. Messages: 2 tasks of one key, 2 plugins | exact slots, no idle slot, a first-come pool; continuations of the session that was seen, failed sessions removed (but for a clean-up that unloading cancels), every message ends |
| `inbound` | events: 3 of 2 sessions, 2 workers, room for 2, one stop with restart or one cancelled worker. Listener: 3 revisions, 3 listeners, 2 faults, 2 stops | FIFO per session, exact counts, workers for every ready lane, actions sent or settled, every event ends; one listener executes, none is lost, tokens are current, every change ends |
| `inbound_dropped` | 2 events | **violation** |
| `ingress_unrestored` | 2 revisions on a shared port, one fault | **violation** |
| `background` | plugin: 2 generations, 3 gates, edits of manifest or sources, any commands and cancellations. Push: 3 posts to 2 targets, any two crashes, failed writes, cancellations, damages | one generation serves, every job settles, a failed reload keeps service, restart-only stays; nothing skipped, nothing repeated without a cause, all settled in the end |
| `generations_downgraded` | one partial import | **violation** |

Several properties are conjunctions of named parts, each of which a broken step
can violate by itself: `Accounting` (types, counters, worker bounds),
`StopsInControl` (closed gates queue nothing, gates track their work, the
executor is retired in time), `SlotsExact`, `QuarantineExact` (one at a time,
quarantine has a cause), `UpdatesIsolated`, `EntriesExact` (with
`NobodyForgotten`), `LanesExact` (with `WorkersSuffice`), `ContinuationsRight`,
`OneGenerationServes`, `CursorsSafe` (nothing skipped, the checkpoint trails),
`DeliveredAsTold` (types, run once, receipts true), `NothingLost`.

**Bounds.** They are the smallest at which the interesting cases meet: two
parties that contend and a third that overtakes, is woken in vain or inherits;
one slot less than parties; limits that go down to one and up again; two keys
where a step on one may disturb the other; one fault under the handling of
another. Bounds of the instances that are none of the code: `MaxSessions`
(sessions ever created), `MaxDepth` (re-entry of a key), `MaxDisturbances` (stops
and worker cancellations), `MaxRev`, `MaxStops`, `MaxFaults` (revisions, attempts
to stop, faults of a listener), `MaxCalls` (callbacks in a gate), `MaxCrashes` and
its kin in `Fanout`, `MaxRotations`, `MaxDrops`, `MaxTries` (changes of
credentials, lost connections, re-sends of a piece by one way). Jobs, calls,
events and senders act once.

The larger instances are cut by constraints that their MC modules state.
`sync_lanes` looks at one stop at a time under two callbacks
(`StopsSmall`, `StaysStopped`), at one fatal end (`OneFatal`), and at a queue or
at parallelism (`QueueOrParallel`, `ShortOrParallel`); the loop is closed under
two callbacks (`LoopSmall`). `plugin_work` has the stops
under more and two fatal ends, but the broker is closed under ordinary callbacks
only, and together with a gate under such that return (`BothStopped`); its scenes
bound what goes wrong with replies at once. `gate_faults` tries faults and policies on different calls, with at
most one call allowed behind a closed gate and that one without synchronous work
about (`Instances`). `inbound` stops the application while at most two of three
revisions are published (`OneOrOther`). `background` edits the manifest or the
sources, and only the sources are put back (`OneEdit`). In `sessions` the second
key holds a session only if an operation sweeps. What is left out by symmetry
alone loses nothing: of two like jobs, events or tasks the first comes first (`InTurn`, `Rank`). TLC's own symmetry is
used only where no liveness is checked. Deadlock is checked in `dispatch`, `background` and
`generations_downgraded`, whose systems never rest; elsewhere, when each job,
call, event or sender has had its turn the system rightly stops, and that nobody
is left waiting there is what the liveness properties and the wake-up invariants
say.

**Fairness** is what the scheduling gives, and assumptions about others where a
property needs them.

- The loop runs every callback that is due: weak fairness of the steps of
  `SyncBroker`'s loop, of `Manager` in `SessionManager`, `Progress` in
  `InboundDispatcher`, `MainStep` and `Progress` in `ReplyDelivery`, `JobStep` and
  `Poll` in `PluginGenerations`. A first-come lock, gate or ready queue is not
  held back for ever from one who keeps asking: strong fairness of
  `WorkerComplete`, `ScheduledOnLoop` and `CloseEnd` in `SyncBroker`, of
  `Proceeds` in `Dispatcher`.
- Waits with a deadline end: `Progress` of `IngressSwitch`.
- Plugin code ends where the property needs it: callbacks of a transaction
  (`CallbackEnds`), `PluginCode`, handlers of the inbound dispatcher.
- What is tried for ever succeeds: `Connects` of the OneBot client and
  `Succeeds` of `Fanout` (a fetch that finds something, a send that is
  acknowledged) are strongly fair.
- Nobody is obliged to call, cancel, close, edit, publish or stop.

Where everything acts a bounded number of times, `<>[]` says that all of it ends.

## Disagreements found

- `sync_quarantine_race`: with `sync_parallel_limit` above one, a worker thread
  that discards its future computes "nothing detached is left" under the broker
  lock but clears the gate's quarantine outside it. When the loop thread detaches
  another running callback in between, its quarantine is lifted at once.
- `gate_interrupted`: a call that abandons its operation gives it one turn of
  the loop, and a second cancellation (`close` sends one) lands there before the
  quarantine is marked: an operation that had started and swallows or outlives
  its own cancellation runs on, and its slot is freed and granted. (One that had
  not started ends in that turn: `TurnOver`.)
- `inbound_dropped`: a transport task cancelled after its ticket's result was
  set and before it resumed drops the actions; `cancel` returns early on a
  finished ticket, and no receipt is settled, as `discard` would have done.
- `ingress_unrestored`: when a replacement that shares a port with the old
  listener does not start, the roll-back hands the old manager an empty token,
  with which it cannot start; the application is left without a listener.
- `generations_downgraded`: a cancellation while a partial import is frozen
  leaves the plugin restart-only but not quarantined; the next load takes the
  restart-only mark away.

The rest of what the properties say holds, with exceptions written into them by
name: `LateFatalKept` excludes a call given up between the end of its operation
and its own next step; `SettledAsAsked` excuses a key whose first start and
clean-up both failed (the dead manager is installed, and later revisions of the
same key only update its token).

Two exceptions are behaviours of the code that its comments do not expect. They
are part of the models, and the properties excuse them by name:

- `ContinuationsRight`: a session whose continuation raised is removed, also when
  the gate refuses the clean-up or times out (`dispatcher.py:1154`). Unloading
  cancels a clean-up that waits for the gate or is in it; `dispatcher.py:1149` does
  not catch a `CancelledError`, and the session stays.
- `AtMostOnce`: a target gets a post once, although a send may be unknown
  (`earthquake/main.py:1021`). A push cancelled inside `ws.send`, the HTTP request or
  the broadcast is recorded as failed (`app_delivery.py:285`) although it may be
  out; the target stays in the outbox and the next poll sends it again. Besides,
  the property excuses a mark whose saving was cut short, and makes no claim once
  any cancelled job has left a thread behind that may still write (`Strayed`); so
  does the order of the two cursors in `CursorsSafe`.

Observed while modelling `ReplyDelivery` and kept out of its claims:

- A request that fails on an old connection of the same credentials
  (`onebot.py:917`) fails another sender's request on the new one, whose handler
  then clears `_ws` of a healthy connection (`onebot.py:914`): the client listens,
  and `connected()` is false until the next drop. `EveryReplyEnds` therefore
  claims that a connection of the current credentials is listened on.
- A cancellation inside `ws.send`, of an HTTP request or of a broadcast records a
  failure although the action may be out, against the comment at
  `app_delivery.py:282`. `DeliveredAsTold` excludes that cause by name
  (`cancelled_in_flight`); for what follows from it in `Fanout`, see above.
- A later piece refused after an earlier one was delivered rolls the reply back;
  `test_partial_multiaction_delivery_rolls_back_logical_reply` asserts it.

## Proofs

Everything below is proved for every value of the constants that the named
assumptions allow (finite sets, positive limits, markers that are no member of
what they mark). Each proof module has an inductive invariant (`IInv` where nothing else
is said), one lemma per action that says the action keeps it, and theorems that
follow from it. An
invariant a run checks is seldom inductive; what it needed is said here.

- **SyncBrokerProofs**: `BooksBalance` (`Accounting`), and its parts
  `TypeCorrect`, `ExactCounters`, `BoundedWorkers`. That a counter stays a natural
  number needs that the completing job is among the counted ones, which needs
  that it is in no deque, which needs that the deques repeat no job and that the
  lock holder's remaining work names jobs in the state it found them in. `IInv`
  says that: types, the job named by the lock is in the state its holder relies
  on (`Linked`), a job is in the deque of its lane exactly once and exactly while
  queued (`QueuesHold`, `ReadyOnce`), three counts equal the sets they count,
  bounds hold. Every action is first reduced to one of a few *changes* of one
  job record.
- **SyncControlProofs**, on top of that invariant: `NoWakeupLost`, `FatalOwned`,
  `StopsControlled` and the refinement `IsABulkhead`. `Control` adds the fate of a
  job (which futures, which counts, who may still act on it), what the gates track
  (`Tracked`), what the retirement of the executor has behind it, that a lane with
  room is offered to the workers, and that closed gates hold nothing. For the
  refinement every step is seen as one of `Accept`, `Refuse`, `Start`, `Begin`,
  `Finish`, `Answer`, `Revoke`, or as none of the bulkhead's business.
- **ExecutionGateProofs**: `SlotsAreExact`, `QuarantineIsExact`, `DrainedIsQuiet`,
  `FatalsAreKept`, `StartsAvailable`, and the refinement `IsASlotPool`. The
  invariant joins the line of waiters with their futures, the count of slots with
  the calls that have one, each phase with the operation it owns, and the
  admission with what may still run. The loop of `_grant_waiters_locked` is one
  lemma (`Granting`) that every releasing action uses. `QuarantineIsExact` assumes
  that no second cancellation hits a call which gives its operation one turn
  (`"unwinding" \notin CancelPoints`): the run `gate_interrupted` shows that it is
  false otherwise.
- **DispatchProofs**, about `AdjustableSemaphore`: `KeepsSlots` (`SlotsKept`: `ExactSlots`, and
  `NeverIdle`, no lost wake-up), `BoundedGrants` (an action property), and the
  refinement `IsASlotPool`. The loop of `_wake_waiters` is a choice of the
  shortest prefix of the line that fills the capacity; `WakeFacts` shows what it
  returns by splitting the line there, `WakeServes` that it serves the first of
  the line and nobody else.
- **SessionProofs**, about the store: `UpdatesAreIsolated` (`UpdatesIsolated`) and
  the refinement `IsAtomic`. `StoreInv` says that an open transaction holds its key
  and what it started from is stored there (`KeysHeld`); what its working copy is,
  counted in the changes its callback has made: the original with exactly those, or
  a staged session with a newer id, or none (`WorkingCopies`); and that no stored
  session shows a trace of an update whose result is not "ok" (`NothingLeft`),
  which is stronger than the property in that it speaks of running updates too. Operations
  outside a transaction are seen as one move that leaves held keys alone
  (`StoreMoves`, `HeldStays`), callbacks as one that leaves the store alone
  (`InsideMove`), and both ends of an update as one publication (`Publish`). The
  keyed lock under the store is taken as `KeyMutex` promises, which is what the
  next theorems show of it.
- **SessionProofs**, about the pool: `ReferencesExact` (`EntriesExact`), `Excludes`, and the
  refinement `IsAKeyMutex`. Exclusion is about keys and the locks are in entries,
  which come and go: `PoolInv` says that no two keys share an entry and that whoever
  is at a key uses the key's entry, that an entry counts exactly its users and is
  in the pool while it has some (so the entry of a key cannot be replaced under
  one who holds or awaits it), that only the head of the line of a free lock has
  been woken, and that `max_keys` bounds them. For the refinement a cancelled
  waiter has left the line at the cancellation; its later departure, with the
  wake-up it passes on, shows nothing.
- **DispatchProofs**, about `ReplyDelivery`: `TruthTold` (`DeliveredAsTold`). The
  invariant (`ReplyInv`) is one statement per sender over its call, its receipt, the
  runs of its pieces and its frames on the sockets (`Sound`): a piece that may have
  run once is not sent again, and what the receipt counts was carried out.
- **InboundDispatcherProofs**: `CountsAreExact` (`LanesExact`),
  `ActionsAreAccounted`, and the refinement `IsFifoLanes`. The invariant says where
  an event is in each of its statuses (`LanesHold`: once in its own lane, running
  in it, or in neither), so that the count is that of a set from which every exit
  takes one element; that a key is in the ready queue exactly while its lane says
  so, and is there whenever it has work and no handler (`ReadyHolds`); and that
  while no end of a worker is unprocessed there is, for every ready key, a worker
  that has still to look at the queue, or no more may be started
  (`WorkersKeepUp`), which needs that a worker carries nothing but its own running
  event. Reaping and starting clear lanes that `StopsHold` shows to be empty.
- **BackgroundProofs**, about `Fanout`: `IsTyped` (`TypeOK`), `CursorsAreSafe` (`CursorsSafe`) and
  `PushedAtMostOnce` (`AtMostOnce`), for any targets, posts and faults. The
  invariant has two halves. `NothingAhead` holds whatever happens: every cursor and
  every fan-out, on disk, in memory, or among the writes any thread has still to
  make, has only settled posts behind it (what is settled stays so, which is why a
  late write of a thread left behind can never skip a post). `Steady` is claimed
  while no thread was left behind: what each stage finds on disk and has still to
  write (`Phase`, with the recovery in `Loads` and the two cursor files in
  `Saves`), that the checkpoint trails the cursor and the outbox (`Trails`), and that
  a post a target got is behind the checkpoint or marked for it in the outbox, or
  the mark is being written, or the send was cancelled in the transport (`SentOnce`).
- **BackgroundProofs**, about `PluginGenerations`: `GenerationServesAlone`
  (`OneGenerationServes`), `StartedGenerationsSettle` (`JobsSettle`),
  `ReloadKeepsService` (`FailedReloadKeepsService`) and the action property
  `RestartQuarantineIsKept` (`RestartQuarantineStays`), for any number of
  generations (two at least), gates (three at least) and callbacks
  (`GenerationsAssumption`). Each property speaks of a plugin at rest or of any two
  gates, and a job passes fifteen awaits between two rests, so the invariant
  `Lifecycle` says what holds at each of them. Callbacks are in one gate at most,
  the job's while it waits for them and the registered one otherwise (`OneBusy`);
  a gate that lets callbacks in is the one commands lead to, with no job about and a
  whole generation behind it (`OnlyServed`). What a job holds at each await and
  what it is for bounds the ways it can go on (`JobShape`, `Purpose`): only a job for
  a candidate prepares and imports, only one that rolls back decides about the old
  generation, and nothing is registered then. A quarantine meets no job that brings a
  generation up (`Quarantines`), which is why nothing lifts one that needs a restart.
  A started generation is registered or the job's, unless only a restart helps, and
  one whose shutdown was tried is not up (`Lives`); and how a job leaves the plugin
  (`Rests`) is stronger than the properties in that what serves has a gate. All ways
  out of a job go through a few lemmas (`Quarantined`, `Failing`, `Tearing`,
  `Halting`, `QuietStep`). That a fresh gate or generation is the first free one
  needs that a set of numbers has a least element (`LeastIn`, by well-foundedness).
- **DequeLemmas**: removal, append, tail and split keep a deque free of
  repetition and move its set of elements by exactly one; and what they do to the
  order of those who still wait. All without induction.

The theorems are about the specifications without fairness and say nothing of
liveness, which is beyond the prover, as is `ENABLED`. Only model-checked
are `ContinuationsRight` of `Dispatcher`, the four properties of `IngressSwitch`
(`OneExecutes`, `NothingLost`, `TokensCurrent`, `SettledAsAsked`), which have no proof
yet, and every liveness property (among them `WithdrawnLeaves` and
`EveryPostSettled`). No operator is declared RECURSIVE. A few leaves name a longer
time for their prover; most of those expand a large action.

## Not modelled

The parts marked `not_modelled` in `PROJECT.json`, with their reasons: event
de-duplication, the scheduler, parsing and publication of the configuration,
outbound HTTP, the language-model client, plugin contexts, platform support, and
the plugins except the push of `earthquake`. Inside modelled parts: the payload of
events and actions, wording of errors, logging, metrics; lazy start of a
dispatcher; the deep copy of session values; a work item left in the executor by
a `submit` that raised after queueing it; routing, mutes and access checks; the
synchronous `load_plugin` and the start and shutdown of the whole plugin manager;
`AtomicJsonStore`'s recovery from its backup; event queues and the on-connect
callback of the OneBot client; wall-clock time (a time-out may fire whenever it
is armed).

## Plan

1. Proofs of the properties of `IngressSwitch` and of `ContinuationsRight`.
2. `Scheduler.replace_prefix` with its roll-back; `_claim_inbound_event`;
   publication and ownership of a configuration.
3. `AtomicJsonStore`: the file read back is one that was written.
