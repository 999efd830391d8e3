---------------------------- MODULE MCSyncBroker ----------------------------
(* Instances of SyncBroker for TLC *)
EXTENDS SyncBroker, TLC

CONSTANTS j1, j2, j3, g1, g2

\* One stop at a time is looked into here, under at most two callbacks of a gate
\* that return (MCPluginWork has stops under more)
StopsSmall ==
  (closed \/ \E g \in Gates : gate[g] # "open") =>
    /\ Cardinality({j \in Jobs : jobs[j] # NewJob}) <= 2
    /\ \A j \in Jobs : jobs[j].lane # FallbackLane /\ jobs[j].outcome \in {"none", "result", "cancelled"}
    /\ globalQueueLimit = 2 /\ loopAlive
    /\ closed => \A g \in Gates : gate[g] = "open"
    /\ \A g \in Gates : policy[g] = [parallel |-> 1, queue |-> 1]

\* Three of the four policies: without a queue one callback of a gate runs at a time
QueueOrParallel == \A g \in Gates : policy[g].queue = 0 => policy[g].parallel = 1

\* The broker's own queue is short while gates take one callback at a time
ShortOrParallel == \A g \in Gates : policy[g].parallel > 1 => globalQueueLimit = 2

\* At most one callback ends fatally (in MCPluginWork two may)
OneFatal == Cardinality({j \in Jobs : jobs[j].outcome = "fatal"}) <= 1

\* What is stopped stays so (MCPluginWork has the releases)
StaysStopped == \A g \in Gates : gate[g] # "open" => gate'[g] # "open"

\* The loop is closed under at most two callbacks
LoopSmall == loopAlive \/ Cardinality({j \in Jobs : jobs[j] # NewJob}) <= 2

Symmetry == Permutations({j1, j2, j3})
=============================================================================
