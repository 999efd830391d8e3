------------------------ MODULE AdjustableSemaphore ------------------------
(***************************************************************************)
(* The dispatcher's concurrency limit (core/dispatcher.py:                 *)
(* AdjustableSemaphore), whose capacity a configuration reload changes     *)
(* while dispatches hold and await it.                                     *)
(*                                                                         *)
(* A task is one dispatched event; it acquires at most once at a time.     *)
(* A future in the deque is named by the task that awaits it.  Everything  *)
(* between two awaits is one step of the event loop.                       *)
(***************************************************************************)
EXTENDS Integers, FiniteSets, Deques

CONSTANTS
  Tasks,
  Capacities    \* values a configuration may give

ASSUME SemaphoreAssumption ==
  /\ IsFiniteSet(Tasks)
  /\ Capacities \subseteq Nat \ {0}

VARIABLES
  capacity,     \* _capacity
  inUse,        \* _in_use
  waiters,      \* _waiters
  future,       \* of a waiting task: "pending", "set" or "cancelled"
  pc,           \* "out", "waiting" or "in" the async with body
  cancelled     \* tasks with a cancellation to be thrown at their await

vars == <<capacity, inUse, waiters, future, pc, cancelled>>

Init ==
  /\ capacity \in Capacities
  /\ inUse = 0
  /\ waiters = <<>>
  /\ future = [t \in Tasks |-> "none"]
  /\ pc = [t \in Tasks |-> "out"]
  /\ cancelled = {}

-----------------------------------------------------------------------------
(* _wake_waiters *)

\* The tasks among the first n of line q whose future is not done
LiveIn(q, n, fut) == {t \in Range(SubSeq(q, 1, n)) : fut[t] = "pending"}

\* The loop stops after n futures: the deque is empty or the slots are taken
StopsAfter(n, q, used, limit, fut) ==
  n = Len(q) \/ used + Cardinality(LiveIn(q, n, fut)) >= limit

\* What _wake_waiters makes of line q, with the other variables as given
Wake(q, used, limit, fut) ==
  \E n \in 0..Len(q) :
    /\ StopsAfter(n, q, used, limit, fut)
    /\ \A m \in 0..(n - 1) : ~StopsAfter(m, q, used, limit, fut)
    /\ waiters' = SubSeq(q, n + 1, Len(q))
    /\ inUse' = used + Cardinality(LiveIn(q, n, fut))
    /\ future' = [t \in Tasks |-> IF t \in LiveIn(q, n, fut) THEN "set" ELSE fut[t]]

-----------------------------------------------------------------------------
(* acquire and release *)

AcquireFree_Barging(t) ==   \* mutant: a newcomer may overtake the line
  /\ pc[t] = "out"
  /\ inUse < capacity \/ (waiters # <<>> /\ inUse = capacity)
  /\ inUse' = inUse + 1
  /\ pc' = [pc EXCEPT ![t] = "in"]
  /\ UNCHANGED <<capacity, waiters, future, cancelled>>

AcquireFree(t) ==
  /\ pc[t] = "out"
  /\ waiters = <<>> /\ inUse < capacity
  /\ inUse' = inUse + 1
  /\ pc' = [pc EXCEPT ![t] = "in"]
  /\ UNCHANGED <<capacity, waiters, future, cancelled>>

AcquireWait(t) ==
  /\ pc[t] = "out"
  /\ waiters # <<>> \/ inUse >= capacity
  /\ pc' = [pc EXCEPT ![t] = "waiting"]
  /\ Wake(Append(waiters, t), inUse, capacity, [future EXCEPT ![t] = "pending"])
  /\ UNCHANGED <<capacity, cancelled>>

\* Task.cancel: a pending future is cancelled with its task; a future that is
\* set already leaves the cancellation to be thrown when the task resumes.
Cancel(t) ==
  /\ pc[t] = "waiting" /\ t \notin cancelled
  /\ cancelled' = cancelled \cup {t}
  /\ future' = IF future[t] = "pending" THEN [future EXCEPT ![t] = "cancelled"] ELSE future
  /\ UNCHANGED <<capacity, inUse, waiters, pc>>

Enter(t) ==
  /\ pc[t] = "waiting" /\ future[t] = "set" /\ t \notin cancelled
  /\ pc' = [pc EXCEPT ![t] = "in"]
  /\ future' = [future EXCEPT ![t] = "none"]
  /\ UNCHANGED <<capacity, inUse, waiters, cancelled>>

GiveUp_Keeps(t) ==   \* mutant: a slot reserved for a cancelled task is kept
  /\ pc[t] = "waiting" /\ t \in cancelled
  /\ pc' = [pc EXCEPT ![t] = "out"]
  /\ cancelled' = cancelled \ {t}
  /\ Wake(Without(waiters, t), inUse, capacity,
          [future EXCEPT ![t] = "none"])
  /\ UNCHANGED capacity

GiveUp(t) ==
  /\ pc[t] = "waiting" /\ t \in cancelled
  /\ pc' = [pc EXCEPT ![t] = "out"]
  /\ cancelled' = cancelled \ {t}
  /\ Wake(Without(waiters, t),
          inUse - (IF future[t] = "set" THEN 1 ELSE 0), capacity,
          [future EXCEPT ![t] = "none"])
  /\ UNCHANGED capacity

Release(t) ==
  /\ pc[t] = "in"
  /\ pc' = [pc EXCEPT ![t] = "out"]
  /\ Wake(waiters, inUse - 1, capacity, future)
  /\ UNCHANGED <<capacity, cancelled>>

\* resize, up: the new room is handed out at once
Raise(c) ==
  /\ c \in Capacities /\ c > capacity
  /\ capacity' = c
  /\ Wake(waiters, inUse, c, future)
  /\ UNCHANGED <<pc, cancelled>>

\* resize, down: nobody loses the slot it has
Lower(c) ==
  /\ c \in Capacities /\ c < capacity
  /\ capacity' = c
  /\ UNCHANGED <<inUse, waiters, future, pc, cancelled>>

-----------------------------------------------------------------------------
Next ==
  \/ \E t \in Tasks :
       \/ AcquireFree(t) \/ AcquireWait(t) \/ Cancel(t)
       \/ Enter(t) \/ GiveUp(t) \/ Release(t)
  \/ \E c \in Capacities : Raise(c) \/ Lower(c)

Spec == Init /\ [][Next]_vars

-----------------------------------------------------------------------------
(* Properties *)

TypeOK ==
  /\ capacity \in Capacities
  /\ inUse \in Nat
  /\ waiters \in Seq(Tasks)
  /\ future \in [Tasks -> {"none", "pending", "set", "cancelled"}]
  /\ pc \in [Tasks -> {"out", "waiting", "in"}]
  /\ cancelled \subseteq Tasks

\* The tasks a slot is charged to: those inside, and those it is reserved for
HoldersOf(fut, p) == {t \in Tasks : p[t] = "in" \/ fut[t] = "set"}
Holders == HoldersOf(future, pc)

\* in_use is the number of slots charged to somebody, through cancellations
\* of tasks that own a slot already and of tasks that do not
SlotsExact == inUse = Cardinality(Holders)

\* acquire, release and resize leave no slot idle while a task awaits one
NoIdleSlot == (\E t \in Tasks : future[t] = "pending") => inUse >= capacity

\* What the limiter keeps through releases, resizes and cancellations
SlotsKept == TypeOK /\ SlotsExact /\ NoIdleSlot

\* No step takes another slot unless it is within the capacity of that moment,
\* whatever the capacity was when the holders came in
GrantsWithinCapacity == [][inUse' > inUse => inUse' <= capacity']_vars

\* What it promises the dispatcher: a first-come pool whose capacity moves
Pending == {t \in Tasks : future[t] = "pending"}
Pool == INSTANCE SlotPool WITH
  Users <- Tasks,
  holders <- Holders,
  waiting <- Pending,
  before <- Order(waiters, Pending)
ImplementsSlotPool == Pool!PoolSpec

=============================================================================
