----------------------------- MODULE FifoLanes -----------------------------
(***************************************************************************)
(* What the inbound dispatcher promises per session key, whatever workers  *)
(* and ready queues it is built from: events of one key are handled one at *)
(* a time in the order of their admission, unless they leave the line      *)
(* unhandled; and no more than Room events are admitted and not over.      *)
(***************************************************************************)
EXTENDS Integers, FiniteSets

CONSTANTS Events, Keys, NoEvent, Room

VARIABLES
  waiting,    \* the events of a key that wait
  before,     \* the pairs <<d, e>> of them where d was admitted before e
  handled     \* the event of a key that is being handled, or NoEvent

lanesVars == <<waiting, before, handled>>

Load == Cardinality({e \in Events : \E k \in Keys : e = handled[k] \/ e \in waiting[k]})

LanesInit ==
  /\ waiting = [k \in Keys |-> {}]
  /\ before = [k \in Keys |-> {}]
  /\ handled = [k \in Keys |-> NoEvent]

Join(e, k) ==
  /\ Load < Room
  /\ \A l \in Keys : e # handled[l] /\ e \notin waiting[l]
  /\ waiting' = [waiting EXCEPT ![k] = @ \cup {e}]
  /\ before' = [before EXCEPT ![k] = @ \cup (waiting[k] \X {e})]
  /\ UNCHANGED handled

\* Those who are left keep their order
Remain == before' = [k \in Keys |-> before[k] \cap (waiting'[k] \X waiting'[k])]

\* A key goes from the event it handles, if any, to the next in line, and not
\* past an event that still waits for its turn.
Advance(e, k) ==
  /\ e \in waiting[k] /\ \A d \in waiting[k] : <<d, e>> \notin before[k]
  /\ handled[k] = NoEvent
  /\ handled' = [handled EXCEPT ![k] = e]
  /\ waiting' = [waiting EXCEPT ![k] = @ \ {e}]
  /\ Remain

Over(k) ==
  /\ handled[k] # NoEvent
  /\ handled' = [handled EXCEPT ![k] = NoEvent]
  /\ UNCHANGED <<waiting, before>>

\* Cancelled or dropped events leave their lines
Quit ==
  /\ waiting' \in [Keys -> SUBSET Events]
  /\ \A k \in Keys : waiting'[k] \subseteq waiting[k]
  /\ Remain
  /\ UNCHANGED handled

LanesNext ==
  \/ Quit
  \/ \E k \in Keys : Over(k) \/ \E e \in Events : Join(e, k) \/ Advance(e, k)

LanesSpec == LanesInit /\ [][LanesNext]_lanesVars
=============================================================================
