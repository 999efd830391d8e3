--------------------------- MODULE MCSessionManager ---------------------------
(***************************************************************************)
(* The session store and the lock pool under it for TLC.  SessionManager   *)
(* uses the pool as KeyMutex promises and KeyedLock shows that it keeps    *)
(* the promise; they share no state here, a behaviour picks one of them at *)
(* the start.                                                              *)
(***************************************************************************)
EXTENDS SessionManager, KeyedLock

CONSTANTS t1, t2, t3, k1, k2, k3, p1, e1, e2

VARIABLE part

ASSUME PoolIsBounded == PoolAssumption

\* The two tasks are alike, so of two different operations t1 has the former
Rank == [create |-> 1, update |-> 2, delete |-> 3, get |-> 4, cleanup |-> 5, clear |-> 6]

\* Transactions on different keys do not meet: the tasks are at k1, and k2 is
\* there for bulk removal to visit.  In the pool every task begins at k1 and
\* chooses its key when it enters.
MCInit ==
  /\ part \in {"sessions", "locks"}
  /\ Init /\ \A t \in Tasks : keyOf[t] = k1
  /\ Rank[op[t1]] <= Rank[op[t2]]
  /\ (\E t \in Tasks : op[t] \in Bulk) \/ sessions[k2] = NoSession
  /\ PoolInit /\ \A t \in PoolTasks : keyAt[t] = k1
  /\ part = "locks" => \A t \in Tasks : op[t] = "get" /\ \A k \in Keys : sessions[k] = NoSession

MCNext ==
  /\ UNCHANGED part
  /\ \/ part = "sessions" /\ Next /\ UNCHANGED poolVars
     \/ part = "locks" /\ PoolNext /\ UNCHANGED vars

\* The half that is not picked never moves and owes nothing
MCSpec ==
  /\ MCInit /\ [][MCNext]_<<vars, poolVars, part>>
  /\ \A t \in Tasks : /\ WF_vars(part = "sessions" /\ Manager(t))
                      /\ WF_vars(part = "sessions" /\ CallbackEnds(t))
=============================================================================
