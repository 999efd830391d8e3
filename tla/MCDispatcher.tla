---------------------------- MODULE MCDispatcher ----------------------------
(***************************************************************************)
(* The dispatcher for TLC: its concurrency limit on four tasks, and the    *)
(* way of two messages of one key and one of another.  The two share no    *)
(* state; a behaviour picks one of them at the start.                      *)
(***************************************************************************)
EXTENDS AdjustableSemaphore

CONSTANTS t1, t2, t3, t4, k1, k2, p1, p2
CONSTANTS Messages, Keys, KeyOf, Plugins, GateSlots, NoTask, NoSession, NoGate

VARIABLES part
VARIABLES stored, holder, live, step, job, through, tries, view, op, orphans, failed

Dispatch == INSTANCE Dispatcher

way == <<stored, holder, live, step, job, through, tries, view, op, orphans, failed>>

MCKeyOf == [t \in Messages |-> IF t = t3 THEN k2 ELSE k1]

MCInit ==
  /\ Init /\ Dispatch!Init /\ part \in {"limit", "dispatch"}
  /\ part = "dispatch" => capacity = 1   \* which plays no part there

MCNext ==
  /\ UNCHANGED part
  /\ \/ part = "limit" /\ Next /\ UNCHANGED way
     \/ part = "dispatch" /\ Dispatch!Next /\ UNCHANGED vars

\* The half that is not picked never moves and owes nothing
MCSpec ==
  /\ MCInit /\ [][MCNext]_<<vars, way, part>>
  /\ \A t \in Messages : /\ SF_way(part = "dispatch" /\ Dispatch!Proceeds(t))
                         /\ WF_way(part = "dispatch" /\ Dispatch!PluginCode(t))

ContinuationsRight == Dispatch!ContinuationsRight
EveryMessageEnds == Dispatch!EveryMessageEnds
=============================================================================
