------------------------------ MODULE Bulkhead ------------------------------
(***************************************************************************)
(* What the synchronous bulkhead promises its callers, with no queues,     *)
(* locks, threads or counters (module docstring of                         *)
(* core/plugin_execution.py: queued -> running -> terminal, or queued ->   *)
(* cancelled; a caller's cancellation never frees a running thread).       *)
(***************************************************************************)
EXTENDS Naturals, FiniteSets

CONSTANTS
  Jobs, Gates,
  NoLane,       \* the lane of a job before it is admitted
  Lanes,        \* the gates, and the lane of the calls without one
  Workers,      \* callbacks that may run at once
  GateCap,      \* callbacks of one gate that may run at once
  Outcomes      \* what a callback can end with

VARIABLES
  phase,        \* "new", "refused", "queued", "started", "running",
                \* "over" or "revoked"
  laneOf,       \* the lane a job was admitted to
  ending,       \* the outcome of a job that is over, else "none"
  answer        \* "none", "waiting", an outcome or "cancelled"

bulkheadVars == <<phase, laneOf, ending, answer>>

\* A started job holds a worker, whether or not its thread has begun.
Holding == {j \in Jobs : phase[j] \in {"started", "running"}}

BulkheadInit ==
  /\ phase = [j \in Jobs |-> "new"]
  /\ laneOf = [j \in Jobs |-> NoLane]
  /\ ending = [j \in Jobs |-> "none"]
  /\ answer = [j \in Jobs |-> "none"]

Refuse(j) ==
  /\ phase[j] = "new"
  /\ phase' = [phase EXCEPT ![j] = "refused"]
  /\ UNCHANGED <<laneOf, ending, answer>>

Accept(j) ==
  /\ phase[j] = "new"
  /\ phase' = [phase EXCEPT ![j] = "queued"]
  /\ \E l \in Lanes : laneOf' = [laneOf EXCEPT ![j] = l]
  /\ answer' = [answer EXCEPT ![j] = "waiting"]
  /\ UNCHANGED ending

\* Never more than Workers at once, nor more than GateCap of one gate
Start(j) ==
  /\ phase[j] = "queued"
  /\ Cardinality(Holding) < Workers
  /\ laneOf[j] \in Gates =>
       Cardinality({k \in Holding : laneOf[k] = laneOf[j]}) < GateCap
  /\ phase' = [phase EXCEPT ![j] = "started"]
  /\ UNCHANGED <<laneOf, ending, answer>>

Begin(j) ==
  /\ phase[j] = "started"
  /\ phase' = [phase EXCEPT ![j] = "running"]
  /\ UNCHANGED <<laneOf, ending, answer>>

\* Only queued work can be revoked, one call or many at once, and only a caller
\* that was cancelled itself is answered in the same step.
Revoke(js, told) ==
  /\ js # {}
  /\ \A j \in js : phase[j] = "queued"
  /\ phase' = [j \in Jobs |-> IF j \in js THEN "revoked" ELSE phase[j]]
  /\ answer' = [j \in Jobs |-> IF j \in told THEN "cancelled" ELSE answer[j]]
  /\ UNCHANGED <<laneOf, ending>>

\* The slot is freed by the end of the callback, never by its caller's
\* cancellation; what no thread has begun may still fail, or be cancelled.
Finish(j) ==
  /\ phase' = [phase EXCEPT ![j] = "over"]
  /\ \/ /\ phase[j] \in {"queued", "running"}
        /\ \E o \in Outcomes : ending' = [ending EXCEPT ![j] = o]
        /\ UNCHANGED answer
     \/ /\ phase[j] = "started" /\ answer[j] = "waiting"
        /\ ending' = [ending EXCEPT ![j] = "cancelled"]
        /\ answer' = [answer EXCEPT ![j] = "cancelled"]
  /\ UNCHANGED laneOf

\* A caller gets one answer: the outcome of its own finished job, or its own
\* cancellation, in whatever phase the job is.
Answer(j) ==
  /\ answer[j] = "waiting"
  /\ \/ phase[j] = "over" /\ answer' = [answer EXCEPT ![j] = ending[j]]
     \/ answer' = [answer EXCEPT ![j] = "cancelled"]
  /\ UNCHANGED <<phase, laneOf, ending>>

BulkheadNext ==
  \/ \E j \in Jobs : Refuse(j) \/ Accept(j) \/ Start(j) \/ Begin(j)
                    \/ Finish(j) \/ Answer(j)
  \/ \E js \in SUBSET Jobs : \E told \in SUBSET js : Revoke(js, told)

BulkheadSpec == BulkheadInit /\ [][BulkheadNext]_bulkheadVars
=============================================================================
