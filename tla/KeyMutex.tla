------------------------------ MODULE KeyMutex ------------------------------
(***************************************************************************)
(* What a pool of keyed locks promises: one holder per key, and those who  *)
(* wait for a key enter in the order in which they came.                   *)
(***************************************************************************)
CONSTANTS Tasks, Keys, NoTask

VARIABLES
  holder,   \* the task that holds a key, or NoTask
  waiting,  \* the tasks that wait for a key
  before    \* the pairs <<u, v>> of them where u came before v

mutexVars == <<holder, waiting, before>>

MutexInit ==
  /\ holder = [k \in Keys |-> NoTask]
  /\ waiting = [k \in Keys |-> {}]
  /\ before = [k \in Keys |-> {}]

EnterFree(t, k) ==
  /\ holder[k] = NoTask /\ waiting[k] = {}
  /\ holder' = [holder EXCEPT ![k] = t]
  /\ UNCHANGED <<waiting, before>>

JoinLine(t, k) ==
  /\ t # holder[k] /\ t \notin waiting[k]
  /\ waiting' = [waiting EXCEPT ![k] = @ \cup {t}]
  /\ before' = [before EXCEPT ![k] = @ \cup (waiting[k] \X {t})]
  /\ UNCHANGED holder

\* t waits no more; the others keep their order
StepOut(t, k) ==
  /\ t \in waiting[k]
  /\ waiting' = [waiting EXCEPT ![k] = @ \ {t}]
  /\ before' = [before EXCEPT ![k] = @ \cap (waiting'[k] \X waiting'[k])]

EnterNext(t, k) ==
  /\ holder[k] = NoTask
  /\ \A u \in waiting[k] : <<u, t>> \notin before[k]
  /\ StepOut(t, k)
  /\ holder' = [holder EXCEPT ![k] = t]

LeaveLine(t, k) == StepOut(t, k) /\ UNCHANGED holder

LeaveKey(t, k) ==
  /\ holder[k] = t
  /\ holder' = [holder EXCEPT ![k] = NoTask]
  /\ UNCHANGED <<waiting, before>>

MutexNext ==
  \E t \in Tasks, k \in Keys :
    EnterFree(t, k) \/ JoinLine(t, k) \/ EnterNext(t, k) \/ LeaveLine(t, k) \/ LeaveKey(t, k)

MutexSpec == MutexInit /\ [][MutexNext]_mutexVars
=============================================================================
