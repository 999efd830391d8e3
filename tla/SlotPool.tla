------------------------------ MODULE SlotPool ------------------------------
(***************************************************************************)
(* What a bounded FIFO limiter promises its users, whatever futures, locks *)
(* and cancellations it is built from: holders of a slot, those who wait   *)
(* with the order in which they came, and a capacity that may change under *)
(* both.  The execution gate of a plugin and the dispatcher's semaphore    *)
(* both implement it.                                                      *)
(***************************************************************************)
EXTENDS Integers, FiniteSets

CONSTANTS
  Users,
  Capacities    \* values the capacity may take

VARIABLES
  holders,      \* users that hold a slot
  waiting,      \* users that wait for one
  before,       \* the pairs <<u, v>> of them where u came before v
  capacity

poolVars == <<holders, waiting, before, capacity>>

PoolInit ==
  /\ holders = {} /\ waiting = {} /\ before = {}
  /\ capacity \in Capacities

\* A free slot goes to somebody new only when nobody waits for it
TakeFree(u) ==
  /\ waiting = {}
  /\ Cardinality(holders) < capacity
  /\ holders' = holders \cup {u}
  /\ UNCHANGED <<waiting, before, capacity>>

LineUp(u) ==
  /\ waiting' = waiting \cup {u}
  /\ before' = before \cup (waiting \X {u})
  /\ UNCHANGED <<holders, capacity>>

\* Slots that are free go to the first of those who still wait: nobody is
\* overtaken and nobody is granted a slot above the capacity of the moment.
Serve ==
  LET served == holders' \ holders IN
  /\ served \subseteq waiting
  /\ waiting' \subseteq waiting \ served
  /\ before \cap (waiting' \X served) = {}
  /\ served # {} => Cardinality(holders') <= capacity'
  /\ before' = before \cap (waiting' \X waiting')

\* Holders or waiting users leave and make room for others, or room that a
\* higher capacity made is handed out.
Leave ==
  /\ UNCHANGED capacity
  /\ holders' # holders \/ waiting' # waiting
  /\ Serve

\* A new capacity alone, or at once with what it lets in; a lower one revokes
\* no slot and sends nobody away.
Resize ==
  /\ capacity' # capacity /\ capacity' \in Capacities
  /\ holders' \cup waiting' = holders \cup waiting
  /\ Serve

\* Whoever came in this step
Newcomers == Users \cap ((holders' \cup waiting') \ (holders \cup waiting))

PoolNext == Resize \/ Leave \/ (\E u \in Newcomers : TakeFree(u) \/ LineUp(u))

PoolSpec == PoolInit /\ [][PoolNext]_poolVars
=============================================================================
