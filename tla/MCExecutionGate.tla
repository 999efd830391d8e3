--------------------------- MODULE MCExecutionGate ---------------------------
(* Instances of ExecutionGate for TLC *)
EXTENDS ExecutionGate, TLC

CONSTANTS c1, c2, c3

Symmetry == Permutations({c1, c2})

\* Nothing has gone wrong: calls queue and give up there, operations end well
Untroubled ==
  /\ admission = "open" /\ sync = "none" /\ failures = 0 /\ ~circuitOpen
  /\ \A c \in Calls : /\ phase[c] # "unwinding" /\ ending[c] \in {"none", "ok"}
                      /\ c \in cancelled => phase[c] = "queued"
                      /\ outcome[c] # "timeout" /\ ~allowClosed[c]

\* Some operation ended with an exception that the gate does not count as a
\* failure, or with a timeout of its own
EndedOddly == \E c \in Calls : ending[c] \in {"refused", "timeout"}

\* The faults are tried on two calls of a sequential plugin, of which one may be
\* allowed behind a closed gate while no synchronous work is about; the queue and
\* the changes of policy on three calls of a parallel one
Instances ==
  IF mode = "sequential"
  THEN /\ phase[c3] = "idle" /\ parallelLimit = 1 /\ queueLimit = 1
       /\ EndedOddly => admission = "open" /\ sync = "none"
       /\ Cardinality({c \in Calls : allowClosed[c]}) <= 1
       /\ sync # "none" => \A c \in Calls : ~allowClosed[c]
  ELSE Untroubled
=============================================================================
