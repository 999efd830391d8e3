---------------------------- MODULE DispatchProofs ----------------------------
(***************************************************************************)
(* Theorems about what bounds the dispatches that run, and about the       *)
(* replies they send.                                                      *)
(*                                                                         *)
(* AdjustableSemaphore, for any tasks and capacities.  Every action but    *)
(* acquiring a free slot ends in _wake_waiters or changes nothing it looks *)
(* at.  So the invariant is stated of the values the loop starts from      *)
(* (Consistent), each action is shown to start it from a consistent state, *)
(* and one lemma says what the loop makes of those.                        *)
(*                                                                         *)
(* ReplyDelivery, for any number of senders, pieces and connections: no    *)
(* piece is carried out twice, and what a receipt says is what happened.   *)
(* The invariant relates, for each sender, its place c, its receipt r, how *)
(* often its pieces ran n, and its requests F; it is stated over these     *)
(* four, so that a step is an argument about one sender's values.          *)
(***************************************************************************)
EXTENDS AdjustableSemaphore, ReplyDelivery, DequeLemmas

(***************************************************************************)
(* The limit on dispatches                                                 *)
(***************************************************************************)

\* The count, line q, futures and program counters agree with each other
Consistent(used, q, fut, p) ==
  /\ used \in Nat
  /\ q \in Seq(Tasks) /\ IsInjective(q)
  /\ fut \in [Tasks -> {"none", "pending", "set", "cancelled"}]
  /\ p \in [Tasks -> {"out", "waiting", "in"}]
  /\ \A t \in Range(q) : fut[t] \in {"pending", "cancelled"}
  /\ \A t \in Tasks : fut[t] = "pending" => t \in Range(q)
  /\ \A t \in Tasks : fut[t] = "none" <=> p[t] # "waiting"
  /\ used = Cardinality(HoldersOf(fut, p))

\* NoIdleSlot of those values
AllBusy(used, fut, limit) == (\E t \in Tasks : fut[t] = "pending") => used >= limit

IInv ==
  /\ capacity \in Capacities /\ cancelled \subseteq Tasks
  /\ Consistent(inUse, waiters, future, pc)
  /\ AllBusy(inUse, future, capacity)

-----------------------------------------------------------------------------
\* The tasks that hold a slot, and any part of them, are finitely many.
LEMMA FiniteTasks ==
  ASSUME NEW S \in SUBSET Tasks
  PROVE  IsFiniteSet(S) /\ Cardinality(S) \in Nat
BY SemaphoreAssumption, FS_Subset, FS_CardinalityType

\* The tasks served with the first n futures, one future more, and none.
LEMMA LiveFacts ==
  ASSUME NEW q \in Seq(Tasks), IsInjective(q), NEW fut, NEW n \in 0..Len(q)
  PROVE  /\ LiveIn(q, n, fut) = {t \in Range(q) : fut[t] = "pending"}
                                  \ Range(SubSeq(q, n + 1, Len(q)))
         /\ LiveIn(q, n, fut) \subseteq Tasks
         /\ n = 0 => LiveIn(q, n, fut) = {}
         /\ n > 0 => LiveIn(q, n, fut) \subseteq LiveIn(q, n - 1, fut) \cup {q[n]}
<1>1. Len(q) \in Nat /\ DOMAIN q = 1..Len(q) /\ \A i \in 1..Len(q) : q[i] \in Tasks
  BY LenProperties, ElementOfSeq
<1>2. /\ Range(SubSeq(q, 1, n)) = {q[i] : i \in 1..n}
      /\ Range(SubSeq(q, n + 1, Len(q))) = Range(q) \ Range(SubSeq(q, 1, n))
  BY SplitFacts
<1>3. Range(SubSeq(q, 1, n)) \subseteq Range(q) /\ Range(q) \subseteq Tasks
  <2>1. 1..n \subseteq 1..Len(q)
    BY <1>1
  <2> QED BY <1>1, <1>2, <2>1 DEF Range
<1>4. n = 0 => LiveIn(q, n, fut) = {}
  <2>1. n = 0 => 1..n = {}
    OBVIOUS
  <2> QED BY <1>2, <2>1 DEF LiveIn
<1>5. ASSUME n > 0 PROVE LiveIn(q, n, fut) \subseteq LiveIn(q, n - 1, fut) \cup {q[n]}
  <2>1. n - 1 \in 0..Len(q) /\ \A i \in 1..n : i \in 1..n - 1 \/ i = n
    BY <1>1, <1>5
  <2>2. Range(SubSeq(q, 1, n - 1)) = {q[i] : i \in 1..n - 1}
    BY <2>1, SplitFacts
  <2> QED BY <1>2, <2>1, <2>2 DEF LiveIn
<1> QED BY <1>2, <1>3, <1>4, <1>5 DEF LiveIn

\* _wake_waiters: from consistent values it reaches consistent ones, leaves no
\* slot idle while somebody waits, and hands out none above the limit.
LEMMA WakeFacts ==
  ASSUME NEW q, NEW used, NEW fut, NEW p, NEW limit \in Nat,
         Consistent(used, q, fut, p), Wake(q, used, limit, fut)
  PROVE  /\ Consistent(inUse', waiters', future', p)
         /\ AllBusy(inUse', future', limit)
         /\ inUse' >= used
         /\ inUse' > used => inUse' <= limit
<1> DEFINE Live(m) == LiveIn(q, m, fut)
<1>0. /\ used \in Nat /\ q \in Seq(Tasks) /\ IsInjective(q) /\ Len(q) \in Nat
      /\ fut \in [Tasks -> {"none", "pending", "set", "cancelled"}]
      /\ used = Cardinality(HoldersOf(fut, p))
  BY LenProperties DEF Consistent
<1>1. PICK n \in 0..Len(q) :
        /\ StopsAfter(n, q, used, limit, fut)
        /\ \A m \in 0..(n - 1) : ~StopsAfter(m, q, used, limit, fut)
        /\ waiters' = SubSeq(q, n + 1, Len(q))
        /\ inUse' = used + Cardinality(Live(n))
        /\ future' = [t \in Tasks |-> IF t \in Live(n) THEN "set" ELSE fut[t]]
  BY DEF Wake
<1>2. /\ Live(n) = {t \in Range(q) : fut[t] = "pending"} \ Range(waiters')
      /\ Live(n) \subseteq Tasks
      /\ n = 0 => Live(n) = {}
      /\ n > 0 => Live(n) \subseteq Live(n - 1) \cup {q[n]}
  BY <1>0, <1>1, LiveFacts
<1>3. /\ waiters' \in Seq(Tasks) /\ IsInjective(waiters')
      /\ Range(waiters') \subseteq Range(q)
  BY SMTT(30), <1>0, <1>1, SplitFacts
<1>4. Cardinality(Live(n)) \in Nat /\ IsFiniteSet(Live(n))
  BY <1>2, FiniteTasks
<1> HIDE DEF Live
<1>5. inUse' \in Nat /\ inUse' >= used
  BY <1>0, <1>1, <1>4
<1>6. inUse' = Cardinality(HoldersOf(future', p))
  <2>1. HoldersOf(future', p) = HoldersOf(fut, p) \cup Live(n)
    BY <1>0, <1>1, <1>2 DEF HoldersOf
  <2>2. HoldersOf(fut, p) \cap Live(n) = {}
    <3>1. \A t \in Live(n) : t \in Tasks /\ fut[t] = "pending"
      BY <1>2
    <3>2. \A t \in Tasks : fut[t] = "pending" => p[t] = "waiting"
      BY DEF Consistent
    <3> QED BY <3>1, <3>2 DEF HoldersOf
  <2>3. IsFiniteSet(HoldersOf(fut, p))
    BY FiniteTasks DEF HoldersOf
  <2>4. Cardinality(HoldersOf(fut, p) \cup Live(n)) =
          Cardinality(HoldersOf(fut, p)) + Cardinality(Live(n)) - 0
    BY <1>4, <2>2, <2>3, FS_Union, FS_EmptySet
  <2>5. Cardinality(HoldersOf(fut, p)) + Cardinality(Live(n)) - 0 = inUse'
    BY <1>0, <1>1, <1>4
  <2> QED BY <2>1, <2>4, <2>5
<1>7. Consistent(inUse', waiters', future', p)
  <2>1. future' \in [Tasks -> {"none", "pending", "set", "cancelled"}]
    BY <1>0, <1>1
  <2>2. \A t \in Tasks : future'[t] = IF t \in Live(n) THEN "set" ELSE fut[t]
    BY <1>1
  <2>3. Range(waiters') \subseteq Tasks
    <3>1. DOMAIN waiters' = 1..Len(waiters')
      BY <1>3, LenProperties
    <3> QED BY <1>3, <3>1, ElementOfSeq DEF Range
  <2>4. /\ p \in [Tasks -> {"out", "waiting", "in"}]
        /\ \A t \in Range(q) : fut[t] \in {"pending", "cancelled"}
        /\ \A t \in Tasks : fut[t] = "pending" => t \in Range(q)
        /\ \A t \in Tasks : fut[t] = "none" <=> p[t] # "waiting"
    BY DEF Consistent
  <2>5. \A t \in Range(waiters') : future'[t] \in {"pending", "cancelled"}
    BY <1>2, <1>3, <2>2, <2>3, <2>4
  <2>6. \A t \in Tasks : future'[t] = "pending" => t \in Range(waiters')
    BY <1>2, <2>2, <2>4
  <2>7. \A t \in Tasks : future'[t] = "none" <=> p[t] # "waiting"
    BY <1>2, <2>2, <2>4
  <2> QED BY <1>3, <1>5, <1>6, <2>1, <2>4, <2>5, <2>6, <2>7 DEF Consistent
<1>8. AllBusy(inUse', future', limit)
  <2>1. CASE n = Len(q)
    <3>1. waiters' = <<>>
      BY <1>0, <1>1, <2>1, SubSeqEmpty
    <3>2. Range(waiters') = {}
      BY <1>0, <3>1, EmptyFacts
    <3> QED BY <1>7, <3>2 DEF AllBusy, Consistent
  <2>2. CASE used + Cardinality(Live(n)) >= limit
    BY <1>1, <2>2 DEF AllBusy
  <2> QED BY <1>1, <2>1, <2>2 DEF StopsAfter, Live
<1>9. ASSUME inUse' > used PROVE inUse' <= limit
  <2>1. n > 0
    BY SMTT(30), <1>0, <1>1, <1>2, <1>4, <1>9, FS_EmptySet
  <2>2. n - 1 \in 0..(n - 1) /\ n - 1 \in 0..Len(q) /\ n - 1 # Len(q)
    BY <1>0, <2>1
  <2>3. ~(used + Cardinality(Live(n - 1)) >= limit)
    BY <1>1, <2>2 DEF StopsAfter, Live
  <2>4. Live(n - 1) \subseteq Tasks
    BY <1>0, <2>2, LiveFacts DEF Live
  <2>5. IsFiniteSet(Live(n - 1)) /\ Cardinality(Live(n - 1)) \in Nat
    BY <2>4, FiniteTasks
  <2>6. /\ IsFiniteSet(Live(n - 1) \cup {q[n]})
        /\ Cardinality(Live(n - 1) \cup {q[n]}) <= Cardinality(Live(n - 1)) + 1
    <3>1. /\ IsFiniteSet(Live(n - 1) \cup {q[n]})
          /\ Cardinality(Live(n - 1) \cup {q[n]}) =
               IF q[n] \in Live(n - 1) THEN Cardinality(Live(n - 1))
               ELSE Cardinality(Live(n - 1)) + 1
      BY <2>5, FS_AddElement, Zenon
    <3> QED BY <2>5, <3>1
  <2>7. Cardinality(Live(n)) <= Cardinality(Live(n - 1) \cup {q[n]})
    BY <1>2, <2>1, <2>6, FS_Subset
  <2>8. Cardinality(Live(n - 1) \cup {q[n]}) \in Nat
    BY <2>6, FS_CardinalityType
  <2> QED BY SMTT(30), <1>0, <1>1, <1>4, <2>3, <2>5, <2>6, <2>7, <2>8
<1> QED BY <1>5, <1>7, <1>8, <1>9

-----------------------------------------------------------------------------
\* What _wake_waiters leaves is the invariant, whoever called it.
LEMMA WakeEstablishes ==
  ASSUME NEW q, NEW used, NEW fut, NEW p,
         Consistent(used, q, fut, p), Wake(q, used, capacity', fut),
         pc' = p, capacity' \in Capacities, cancelled' \subseteq Tasks
  PROVE  IInv' /\ (inUse' > used => inUse' <= capacity')
<1>1. capacity' \in Nat
  BY SemaphoreAssumption
<1> QED BY <1>1, WakeFacts DEF IInv

\* A task leaves its slot or its place: the values of the others stay consistent.
LEMMA LeaveFacts ==
  ASSUME NEW t \in Tasks, IInv, NEW q, NEW used, NEW fut, NEW p,
         pc[t] = "waiting" \/ pc[t] = "in",
         q = Without(waiters, t),
         used = inUse - (IF t \in Holders THEN 1 ELSE 0),
         fut = [future EXCEPT ![t] = "none"],
         p = [pc EXCEPT ![t] = "out"]
  PROVE  Consistent(used, q, fut, p) /\ used <= inUse
<1>1. /\ inUse \in Nat /\ waiters \in Seq(Tasks) /\ IsInjective(waiters)
      /\ future \in [Tasks -> {"none", "pending", "set", "cancelled"}]
      /\ pc \in [Tasks -> {"out", "waiting", "in"}]
      /\ \A u \in Range(waiters) : future[u] \in {"pending", "cancelled"}
      /\ \A u \in Tasks : future[u] = "pending" => u \in Range(waiters)
      /\ \A u \in Tasks : future[u] = "none" <=> pc[u] # "waiting"
      /\ inUse = Cardinality(Holders)
  BY DEF IInv, Consistent, Holders
<1>2. q \in Seq(Tasks) /\ IsInjective(q) /\ Range(q) = Range(waiters) \ {t}
  BY <1>1, WithoutFacts
<1>3. Range(waiters) \subseteq Tasks
  <2>1. DOMAIN waiters = 1..Len(waiters)
    BY <1>1, LenProperties
  <2> QED BY <1>1, <2>1, ElementOfSeq DEF Range
<1>4. /\ fut \in [Tasks -> {"none", "pending", "set", "cancelled"}]
      /\ p \in [Tasks -> {"out", "waiting", "in"}]
      /\ \A u \in Tasks : fut[u] = IF u = t THEN "none" ELSE future[u]
      /\ \A u \in Tasks : p[u] = IF u = t THEN "out" ELSE pc[u]
  BY <1>1
<1>5. HoldersOf(fut, p) = Holders \ {t}
  BY <1>4 DEF HoldersOf, Holders
<1>6. IsFiniteSet(Holders) /\ Cardinality(Holders) \in Nat
  BY FiniteTasks DEF Holders, HoldersOf
<1>7. /\ IsFiniteSet(Holders \ {t})
      /\ Cardinality(Holders \ {t}) =
           IF t \in Holders THEN Cardinality(Holders) - 1 ELSE Cardinality(Holders)
  BY <1>6, FS_RemoveElement, Zenon
<1>8. used = Cardinality(Holders \ {t}) /\ used <= inUse
  BY <1>1, <1>6, <1>7
<1>9. used \in Nat
  BY <1>7, <1>8, FS_CardinalityType
<1>10. \A u \in Tasks : fut[u] = "none" <=> p[u] # "waiting"
  BY <1>1, <1>4
<1>11. \A u \in Range(q) : fut[u] \in {"pending", "cancelled"}
  BY <1>1, <1>2, <1>3, <1>4
<1>12. \A u \in Tasks : fut[u] = "pending" => u \in Range(q)
  BY <1>1, <1>2, <1>4
<1> QED BY <1>2, <1>4, <1>5, <1>8, <1>9, <1>10, <1>11, <1>12 DEF Consistent

\* The invariant, spelt out.
LEMMA InvFacts ==
  ASSUME IInv
  PROVE  /\ capacity \in Capacities /\ capacity \in Nat \ {0} /\ cancelled \subseteq Tasks
         /\ inUse \in Nat /\ waiters \in Seq(Tasks) /\ IsInjective(waiters)
         /\ future \in [Tasks -> {"none", "pending", "set", "cancelled"}]
         /\ pc \in [Tasks -> {"out", "waiting", "in"}]
         /\ \A u \in Range(waiters) : future[u] \in {"pending", "cancelled"}
         /\ \A u \in Tasks : future[u] = "pending" => u \in Range(waiters)
         /\ \A u \in Tasks : future[u] = "none" <=> pc[u] # "waiting"
         /\ inUse = Cardinality(Holders)
         /\ IsFiniteSet(Holders) /\ Cardinality(Holders) \in Nat
         /\ \A u \in Tasks : future[u] = "pending" => inUse >= capacity
<1>1. IsFiniteSet(Holders) /\ Cardinality(Holders) \in Nat
  BY FiniteTasks DEF Holders, HoldersOf
<1> QED BY <1>1, SemaphoreAssumption DEF IInv, Consistent, AllBusy, Holders

\* The semaphore starts with its slots free and nobody waiting.
LEMMA Initially == Init => IInv
<1> SUFFICES ASSUME Init PROVE IInv
  OBVIOUS
<1>1. <<>> \in Seq(Tasks) /\ IsInjective(<<>>) /\ Range(<<>>) = {}
  <2>1. <<>> \in Seq(Tasks)
    BY EmptySeq
  <2> QED BY <2>1, EmptyFacts
<1>2. HoldersOf(future, pc) = {}
  BY DEF Init, HoldersOf
<1>3. Cardinality(HoldersOf(future, pc)) = 0
  BY <1>2, FS_EmptySet
<1> QED BY <1>1, <1>3 DEF Init, IInv, Consistent, AllBusy

\* The steps of one task, and the configuration's.
LEMMA StepOfTask ==
  ASSUME IInv, NEW t \in Tasks,
         \/ AcquireFree(t) \/ AcquireWait(t) \/ Cancel(t)
         \/ Enter(t) \/ GiveUp(t) \/ Release(t)
  PROVE  IInv' /\ (inUse' > inUse => inUse' <= capacity')
<1> USE InvFacts
<1>1. CASE AcquireFree(t)
  <2>1. /\ inUse' = inUse + 1 /\ pc' = [pc EXCEPT ![t] = "in"]
        /\ capacity' = capacity /\ waiters' = waiters /\ future' = future
        /\ cancelled' = cancelled /\ pc[t] = "out" /\ waiters = <<>> /\ inUse < capacity
    BY <1>1 DEF AcquireFree
  <2>2. t \notin Holders /\ HoldersOf(future', pc') = Holders \cup {t}
    BY <2>1 DEF Holders, HoldersOf
  <2>3. Cardinality(Holders \cup {t}) = Cardinality(Holders) + 1
    BY <2>2, FS_AddElement
  <2>4. inUse' = Cardinality(HoldersOf(future', pc'))
    BY <2>1, <2>2, <2>3
  <2>5. \A u \in Tasks : future'[u] # "pending"
    BY <2>1, EmptyFacts
  <2>6. \A u \in Tasks : future'[u] = "none" <=> pc'[u] # "waiting"
    BY <2>1
  <2>7. Consistent(inUse', waiters', future', pc')
    BY <2>1, <2>4, <2>6 DEF Consistent
  <2>8. inUse' <= capacity'
    BY <2>1
  <2> QED BY <2>1, <2>5, <2>7, <2>8 DEF IInv, AllBusy
<1>2. CASE AcquireWait(t)
  <2> DEFINE q == Append(waiters, t)
             fut == [future EXCEPT ![t] = "pending"]
             p == [pc EXCEPT ![t] = "waiting"]
  <2>1. /\ pc[t] = "out" /\ pc' = p /\ capacity' = capacity /\ cancelled' = cancelled
        /\ Wake(q, inUse, capacity', fut)
    BY <1>2 DEF AcquireWait
  <2>2. future[t] = "none" /\ t \notin Range(waiters)
    BY <2>1
  <2>3. q \in Seq(Tasks) /\ IsInjective(q) /\ Range(q) = Range(waiters) \cup {t}
    BY <2>2, AppendFacts
  <2>4. /\ fut \in [Tasks -> {"none", "pending", "set", "cancelled"}]
        /\ p \in [Tasks -> {"out", "waiting", "in"}]
        /\ \A u \in Tasks : fut[u] = IF u = t THEN "pending" ELSE future[u]
        /\ \A u \in Tasks : p[u] = IF u = t THEN "waiting" ELSE pc[u]
    OBVIOUS
  <2>5. Range(waiters) \subseteq Tasks
    <3>1. DOMAIN waiters = 1..Len(waiters)
      BY LenProperties
    <3> QED BY <3>1, ElementOfSeq DEF Range
  <2> HIDE DEF q, fut, p
  <2>6. HoldersOf(fut, p) = Holders
    BY <2>1, <2>2, <2>4 DEF HoldersOf, Holders
  <2>7. Consistent(inUse, q, fut, p)
    BY <2>3, <2>4, <2>5, <2>6 DEF Consistent
  <2> QED BY <2>1, <2>7, WakeEstablishes
<1>3. CASE Cancel(t)
  <2>1. /\ pc[t] = "waiting" /\ cancelled' = cancelled \cup {t}
        /\ future' = IF future[t] = "pending" THEN [future EXCEPT ![t] = "cancelled"] ELSE future
        /\ capacity' = capacity /\ inUse' = inUse /\ waiters' = waiters /\ pc' = pc
    BY <1>3 DEF Cancel
  <2>2. HoldersOf(future', pc') = Holders
    BY <2>1 DEF HoldersOf, Holders
  <2>3. Consistent(inUse', waiters', future', pc')
    BY <2>1, <2>2 DEF Consistent
  <2>4. AllBusy(inUse', future', capacity')
    BY <2>1 DEF AllBusy
  <2> QED BY <2>1, <2>3, <2>4 DEF IInv
<1>4. CASE Enter(t)
  <2>1. /\ pc[t] = "waiting" /\ future[t] = "set"
        /\ pc' = [pc EXCEPT ![t] = "in"] /\ future' = [future EXCEPT ![t] = "none"]
        /\ capacity' = capacity /\ inUse' = inUse /\ waiters' = waiters
        /\ cancelled' = cancelled
    BY <1>4 DEF Enter
  <2>2. HoldersOf(future', pc') = Holders
    BY <2>1 DEF HoldersOf, Holders
  <2>3. Consistent(inUse', waiters', future', pc')
    BY <2>1, <2>2 DEF Consistent
  <2>4. AllBusy(inUse', future', capacity')
    BY <2>1 DEF AllBusy
  <2> QED BY <2>1, <2>3, <2>4 DEF IInv
<1>5. CASE GiveUp(t)
  <2> DEFINE q == Without(waiters, t)
             used == inUse - (IF future[t] = "set" THEN 1 ELSE 0)
             fut == [future EXCEPT ![t] = "none"]
             p == [pc EXCEPT ![t] = "out"]
  <2>1. /\ pc[t] = "waiting" /\ pc' = p /\ capacity' = capacity
        /\ cancelled' = cancelled \ {t} /\ Wake(q, used, capacity', fut)
    BY <1>5 DEF GiveUp
  <2>2. used = inUse - (IF t \in Holders THEN 1 ELSE 0)
    BY <2>1 DEF Holders, HoldersOf
  <2> HIDE DEF used
  <2>3. Consistent(used, q, fut, p) /\ used <= inUse
    BY <2>1, <2>2, LeaveFacts
  <2> HIDE DEF q, fut, p
  <2>4. IInv' /\ (inUse' > used => inUse' <= capacity')
    BY <2>1, <2>3, WakeEstablishes
  <2>5. used \in Nat /\ inUse' \in Nat
    BY <2>3, <2>4 DEF Consistent, IInv
  <2> QED BY <2>3, <2>4, <2>5
<1>6. CASE Release(t)
  <2> DEFINE used == inUse - 1
             p == [pc EXCEPT ![t] = "out"]
  <2>1. /\ pc[t] = "in" /\ pc' = p /\ capacity' = capacity
        /\ cancelled' = cancelled /\ Wake(waiters, used, capacity', future)
    BY <1>6 DEF Release
  <2>2. future[t] = "none" /\ t \notin Range(waiters)
    BY <2>1
  <2>3. waiters = Without(waiters, t)
    BY <2>2, LenProperties DEF Without, Range
  <2>4. future = [future EXCEPT ![t] = "none"]
    BY <2>2
  <2>5. used = inUse - (IF t \in Holders THEN 1 ELSE 0)
    BY <2>1 DEF Holders, HoldersOf
  <2> HIDE DEF used
  <2>6. Consistent(used, waiters, future, p) /\ used <= inUse
    BY <2>1, <2>3, <2>4, <2>5, LeaveFacts
  <2> HIDE DEF p
  <2>7. IInv' /\ (inUse' > used => inUse' <= capacity')
    BY <2>1, <2>6, WakeEstablishes
  <2>8. used \in Nat /\ inUse' \in Nat
    BY <2>6, <2>7 DEF Consistent, IInv
  <2> QED BY <2>6, <2>7, <2>8
<1> QED BY <1>1, <1>2, <1>3, <1>4, <1>5, <1>6

\* A change of the capacity, which wakes as many waiters as it admits.
LEMMA StepOfResize ==
  ASSUME IInv, NEW c \in Capacities, Raise(c) \/ Lower(c)
  PROVE  IInv' /\ (inUse' > inUse => inUse' <= capacity')
<1>1. CASE Raise(c)
  <2>1. /\ capacity' = c /\ pc' = pc /\ cancelled' = cancelled
        /\ Wake(waiters, inUse, capacity', future)
    BY <1>1 DEF Raise
  <2>2. Consistent(inUse, waiters, future, pc) /\ cancelled \subseteq Tasks
    BY DEF IInv
  <2> QED BY <2>1, <2>2, WakeEstablishes
<1>2. CASE Lower(c)
  <2>1. /\ c < capacity /\ capacity' = c
        /\ inUse' = inUse /\ waiters' = waiters /\ future' = future
        /\ pc' = pc /\ cancelled' = cancelled
    BY <1>2 DEF Lower
  <2>2. c \in Nat /\ capacity \in Nat /\ inUse \in Nat
    BY SemaphoreAssumption, InvFacts
  <2>3. AllBusy(inUse', future', capacity')
    BY <2>1, <2>2 DEF IInv, AllBusy
  <2>4. ~(inUse' > inUse)
    BY <2>1, <2>2
  <2> QED BY <2>1, <2>3, <2>4 DEF IInv
<1> QED BY <1>1, <1>2

-----------------------------------------------------------------------------
\* Every step keeps the invariant and passes the capacity nowhere.
LEMMA Step == IInv /\ [Next]_vars => IInv' /\ (inUse' > inUse => inUse' <= capacity')
<1> SUFFICES ASSUME IInv, [Next]_vars
             PROVE  IInv' /\ (inUse' > inUse => inUse' <= capacity')
  OBVIOUS
<1>1. CASE UNCHANGED vars
  <2>1. IInv'
    BY <1>1 DEF IInv, Consistent, AllBusy, HoldersOf, vars
  <2>2. inUse' = inUse /\ inUse \in Nat
    BY <1>1, InvFacts DEF vars
  <2> QED BY <2>1, <2>2
<1>2. CASE Next
  BY <1>2, StepOfTask, StepOfResize DEF Next
<1> QED BY <1>1, <1>2

\* The inductive invariant: in every reachable state the count, the line, the
\* futures and the tasks agree, and no slot idles while a task awaits one.
THEOREM Invariance == Spec => []IInv
<1>1. Init => IInv
  BY Initially
<1>2. IInv /\ [Next]_vars => IInv'
  BY Step
<1> QED BY <1>1, <1>2, PTL DEF Spec

\* Every variable keeps its type; in particular _in_use never goes negative,
\* so release never meets the ValueError of a limiter released too often.
THEOREM TypeCorrect == Spec => []TypeOK
<1>1. IInv => TypeOK
  BY InvFacts DEF TypeOK
<1> QED BY <1>1, Invariance, PTL

\* _in_use counts the dispatches that hold a slot or were handed one, for any
\* number of tasks and any order of acquire, cancel, release and resize.
THEOREM ExactSlots == Spec => []SlotsExact
<1>1. IInv => SlotsExact
  BY InvFacts DEF SlotsExact
<1> QED BY <1>1, Invariance, PTL

\* No lost wake-up: a dispatch awaits only while all slots are taken, although
\* slots come back through releases, resizes and cancelled acquisitions.
THEOREM NeverIdle == Spec => []NoIdleSlot
<1>1. IInv => NoIdleSlot
  BY DEF IInv, AllBusy, NoIdleSlot
<1> QED BY <1>1, Invariance, PTL

\* Type, exact count and no idle slot together, as the run checks them.
THEOREM KeepsSlots == Spec => []SlotsKept
BY TypeCorrect, ExactSlots, NeverIdle, PTL DEF SlotsKept

\* _wake_waiters and acquire hand out no slot above the capacity of the moment,
\* whatever it was when the present holders came in.
THEOREM BoundedGrants == Spec => GrantsWithinCapacity
<1>1. IInv /\ [Next]_vars => [inUse' > inUse => inUse' <= capacity']_vars
  BY Step
<1> QED BY <1>1, Invariance, PTL DEF Spec, GrantsWithinCapacity

-----------------------------------------------------------------------------
(* The first-come pool *)

\* The cardinality of the abstract specification is that of the model.
LEMMA SameCardinality == \A S : Pool!Cardinality(S) = Cardinality(S)
BY DEF Pool!Cardinality, Cardinality

\* _wake_waiters serves the head of the line: those it serves were pending,
\* nobody who still is stood before them, and the others keep their order.
LEMMA WakeServes ==
  ASSUME NEW q, NEW used, NEW fut, NEW p, NEW limit \in Nat,
         Consistent(used, q, fut, p), Wake(q, used, limit, fut), pc' = p
  PROVE  \E L \in SUBSET {t \in Tasks : fut[t] = "pending"} :
           /\ Pending' = {t \in Tasks : fut[t] = "pending"} \ L
           /\ Holders' = HoldersOf(fut, p) \cup L
           /\ L # {} => Cardinality(Holders') <= limit
           /\ Order(waiters', Pending') = Order(q, Pending')
           /\ Order(q, {t \in Tasks : fut[t] = "pending"}) \cap (Pending' \X L) = {}
<1> DEFINE P == {t \in Tasks : fut[t] = "pending"}
<1>1. /\ used \in Nat /\ q \in Seq(Tasks) /\ IsInjective(q)
      /\ fut \in [Tasks -> {"none", "pending", "set", "cancelled"}]
      /\ \A t \in Tasks : fut[t] = "pending" => t \in Range(q)
      /\ used = Cardinality(HoldersOf(fut, p))
  BY DEF Consistent
<1>2. PICK n \in 0..Len(q) :
        /\ waiters' = SubSeq(q, n + 1, Len(q))
        /\ inUse' = used + Cardinality(LiveIn(q, n, fut))
        /\ future' = [t \in Tasks |-> IF t \in LiveIn(q, n, fut) THEN "set" ELSE fut[t]]
  BY DEF Wake
<1> DEFINE F == Range(SubSeq(q, 1, n))
           L == {t \in F : fut[t] = "pending"}
<1>3. L = LiveIn(q, n, fut)
  BY DEF LiveIn
<1>4. L \subseteq P
  <2>1. LiveIn(q, n, fut) \subseteq Tasks
    BY <1>1, LiveFacts
  <2> QED BY <1>3, <2>1
<1> HIDE DEF F
<1>5. \A t \in Tasks : future'[t] = IF t \in L THEN "set" ELSE fut[t]
  BY <1>2, <1>3
<1>6. Pending' = P \ L /\ Pending' \cap F = {}
  BY <1>5 DEF Pending
<1>7. Holders' = HoldersOf(fut, p) \cup L
  BY <1>4, <1>5 DEF Holders, HoldersOf
<1>8. L # {} => Cardinality(Holders') <= limit
  <2>1. /\ inUse' > used => inUse' <= limit
        /\ inUse' = Cardinality(HoldersOf(future', pc'))
    BY WakeFacts DEF Consistent
  <2>2. L # {} => inUse' > used
    <3>1. IsFiniteSet(L) /\ Cardinality(L) \in Nat
      BY <1>4, FiniteTasks
    <3>2. L # {} => Cardinality(L) # 0
      BY <3>1, FS_EmptySet
    <3>3. inUse' = used + Cardinality(L)
      BY <1>2, <1>3
    <3> HIDE DEF L
    <3> QED BY <1>1, <3>1, <3>2, <3>3
  <2> QED BY <2>1, <2>2 DEF Holders
<1>9. Order(waiters', Pending') = Order(q, Pending')
  BY <1>1, <1>2, <1>6, OrderBack DEF F
<1>10. ASSUME NEW a \in Pending', NEW b \in L PROVE <<a, b>> \notin Order(q, P)
  <2>1. \A x \in Pending', y \in F : ~Before(q, x, y)
    BY <1>1, <1>6, OrderBack DEF F
  <2> QED BY <2>1 DEF Order
<1>11. Order(q, P) \cap (Pending' \X L) = {}
  BY <1>10
<1> HIDE DEF L, P
<1> QED BY <1>4, <1>6, <1>7, <1>8, <1>9, <1>11 DEF P

\* Holders H and waiting tasks P are what the leavers left, q is their line:
\* then what _wake_waiters makes of them is a step of the pool.
LEMMA WakeIsServe ==
  ASSUME IInv, NEW q, NEW used, NEW fut, NEW p,
         Consistent(used, q, fut, p), Wake(q, used, capacity', fut), pc' = p,
         capacity' \in Nat,
         HoldersOf(fut, p) \subseteq Holders,
         NEW P, P = {t \in Tasks : fut[t] = "pending"}, P \subseteq Pending,
         Order(q, P) = Order(waiters, P)
  PROVE  /\ Pool!Serve
         /\ Holders' \cup Pending' = HoldersOf(fut, p) \cup P
<1>1. PICK L \in SUBSET P :
           /\ Pending' = P \ L
           /\ Holders' = HoldersOf(fut, p) \cup L
           /\ L # {} => Cardinality(Holders') <= capacity'
           /\ Order(waiters', Pending') = Order(q, Pending')
           /\ Order(q, P) \cap (Pending' \X L) = {}
  BY WakeServes
<1>2. L \cap Holders = {} /\ L \subseteq Pending
  <2>1. \A t \in Pending : t \in Tasks /\ future[t] = "pending" /\ pc[t] # "in"
    BY InvFacts DEF Pending
  <2> QED BY <1>1, <2>1 DEF Holders, HoldersOf
<1>3. Holders' \ Holders = L
  BY <1>1, <1>2
<1>4. Order(waiters, Pending) \cap (Pending' \X L) = {}
  <2>1. Pending' \subseteq P /\ L \subseteq P
    BY <1>1
  <2>2. Order(waiters, P) = Order(waiters, Pending) \cap (P \X P)
    BY OrderRestricts
  <2> QED BY <1>1, <2>1, <2>2
<1>5. Order(waiters', Pending') = Order(waiters, Pending) \cap (Pending' \X Pending')
  <2>1. Pending' \in SUBSET P /\ Pending' \in SUBSET Pending
    BY <1>1
  <2>2. Order(q, Pending') = Order(q, P) \cap (Pending' \X Pending')
    BY <2>1, OrderRestricts
  <2>3. Order(waiters, Pending') = Order(waiters, P) \cap (Pending' \X Pending')
    BY <2>1, OrderRestricts
  <2>4. Order(waiters, Pending') = Order(waiters, Pending) \cap (Pending' \X Pending')
    BY <2>1, OrderRestricts
  <2> QED BY <1>1, <2>2, <2>3, <2>4
<1>6. Pending' \subseteq Pending \ L
  BY <1>1
<1>7. Pool!Serve
  BY <1>1, <1>2, <1>3, <1>4, <1>5, <1>6, SameCardinality DEF Pool!Serve
<1> QED BY <1>1, <1>7

\* Serving with an unchanged capacity: somebody moves, or nobody does.
LEMMA ServeAlone ==
  ASSUME Pool!Serve, capacity' = capacity
  PROVE  Pool!Leave \/ UNCHANGED Pool!poolVars
<1>1. CASE Holders' # Holders \/ Pending' # Pending
  BY <1>1 DEF Pool!Leave
<1>2. CASE Holders' = Holders /\ Pending' = Pending
  <2>1. Order(waiters, Pending) \cap (Pending \X Pending) = Order(waiters, Pending)
    BY OrderRestricts
  <2>2. Order(waiters', Pending') = Order(waiters, Pending) \cap (Pending' \X Pending')
    BY DEF Pool!Serve
  <2>3. Order(waiters', Pending') = Order(waiters, Pending)
    BY <1>2, <2>1, <2>2
  <2> QED BY <1>2, <2>3 DEF Pool!poolVars
<1> QED BY <1>1, <1>2

\* The steps of one task, as steps of the pool.
LEMMA TaskOfPool ==
  ASSUME IInv, IInv', NEW t \in Tasks,
         \/ AcquireFree(t) \/ AcquireWait(t) \/ Cancel(t)
         \/ Enter(t) \/ GiveUp(t) \/ Release(t)
  PROVE  [Pool!PoolNext]_(Pool!poolVars)
<1> USE InvFacts
<1>0. /\ \A u \in Pending : u \in Tasks /\ future[u] = "pending" /\ u \in Range(waiters)
      /\ \A u \in Tasks : future[u] = "pending" => u \in Pending
      /\ Holders \cap Pending = {}
  BY DEF Pending, Holders, HoldersOf
<1>1. CASE AcquireFree(t)
  <2>1. /\ pc' = [pc EXCEPT ![t] = "in"] /\ inUse < capacity
        /\ capacity' = capacity /\ waiters' = waiters /\ future' = future
        /\ pc[t] = "out" /\ waiters = <<>>
    BY <1>1 DEF AcquireFree
  <2>2. Pending = {} /\ Pending' = Pending
    BY <1>0, <2>1, EmptyFacts DEF Pending
  <2>3. t \notin Holders /\ Holders' = Holders \cup {t}
    BY <2>1 DEF Holders, HoldersOf
  <2>4. Pool!TakeFree(t)
    BY <2>1, <2>2, <2>3, SameCardinality DEF Pool!TakeFree
  <2>5. t \in Pool!Newcomers
    BY <2>2, <2>3 DEF Pool!Newcomers
  <2> QED BY <2>4, <2>5 DEF Pool!PoolNext
<1>2. CASE AcquireWait(t)
  <2> DEFINE q == Append(waiters, t)
             fut == [future EXCEPT ![t] = "pending"]
             p == [pc EXCEPT ![t] = "waiting"]
  <2>1. /\ pc[t] = "out" /\ pc' = p /\ capacity' = capacity
        /\ Wake(q, inUse, capacity', fut)
    BY <1>2 DEF AcquireWait
  <2>2. future[t] = "none" /\ t \notin Range(waiters) /\ t \notin Pending /\ t \notin Holders
    BY <2>1, <1>0 DEF Holders, HoldersOf
  <2>3. /\ \A u \in Tasks : fut[u] = IF u = t THEN "pending" ELSE future[u]
        /\ \A u \in Tasks : p[u] = IF u = t THEN "waiting" ELSE pc[u]
    OBVIOUS
  <2>4. /\ q \in Seq(Tasks) /\ IsInjective(q) /\ Range(q) = Range(waiters) \cup {t}
        /\ fut \in [Tasks -> {"none", "pending", "set", "cancelled"}]
        /\ p \in [Tasks -> {"out", "waiting", "in"}]
    BY <2>2, AppendFacts
  <2>5. Range(waiters) \subseteq Tasks
    <3>1. DOMAIN waiters = 1..Len(waiters)
      BY LenProperties
    <3> QED BY <3>1, ElementOfSeq DEF Range
  <2>6. Order(q, Pending \cup {t}) = Order(waiters, Pending) \cup (Pending \X {t})
    <3> DEFINE R == Order(q, Pending \cup {t})
    <3>1. /\ Pending \subseteq Range(waiters) /\ waiters \in Seq(Tasks)
          /\ t \notin Range(waiters) /\ t \in Tasks
      BY <1>0, <2>2
    <3>2. R = Order(Append(waiters, t), Pending \cup {t})
      OBVIOUS
    <3> HIDE DEF R, q
    <3>3. R = Order(waiters, Pending) \cup (Pending \X {t})
      BY ONLY <3>1, <3>2, OrderAppend
    <3> QED BY <3>3 DEF R
  <2> HIDE DEF q, fut, p
  <2>7. HoldersOf(fut, p) = Holders
    BY <2>1, <2>2, <2>3 DEF HoldersOf, Holders
  <2>8. Consistent(inUse, q, fut, p)
    BY <2>2, <2>3, <2>4, <2>5, <2>7 DEF Consistent
  <2>9. {u \in Tasks : fut[u] = "pending"} = Pending \cup {t}
    BY <1>0, <2>3 DEF Pending
  <2>10. PICK L \in SUBSET (Pending \cup {t}) :
           /\ Pending' = (Pending \cup {t}) \ L
           /\ Holders' = Holders \cup L
           /\ L # {} => Cardinality(Holders') <= capacity'
           /\ Order(waiters', Pending') = Order(q, Pending')
    <3>1. capacity' \in Nat
      BY <2>1
    <3>2. \E L \in SUBSET {u \in Tasks : fut[u] = "pending"} :
           /\ Pending' = {u \in Tasks : fut[u] = "pending"} \ L
           /\ Holders' = HoldersOf(fut, p) \cup L
           /\ L # {} => Cardinality(Holders') <= capacity'
           /\ Order(waiters', Pending') = Order(q, Pending')
      BY ONLY <2>1, <2>8, <3>1, WakeServes
    <3> QED BY ONLY <2>7, <2>9, <3>2
  <2>11. t \in Pool!Newcomers
    BY <2>2, <2>10 DEF Pool!Newcomers
  <2>12. CASE L = {}
    <3>1. Pending' = Pending \cup {t} /\ Holders' = Holders
      BY <2>10, <2>12
    <3>2. Pool!LineUp(t)
      BY <2>1, <2>6, <2>10, <3>1 DEF Pool!LineUp
    <3> QED BY <2>11, <3>2 DEF Pool!PoolNext
  <2>13. CASE L # {}
    <3>1. Cardinality(Holders \cup L) <= capacity
      BY <2>1, <2>10, <2>13
    <3>2. ~(inUse >= capacity)
      <4>1. L \cap Holders = {} /\ L \subseteq Tasks
        BY <1>0, <2>2
      <4>2. IsFiniteSet(L) /\ Cardinality(L) \in Nat /\ Cardinality(L) # 0
        BY <4>1, <2>13, FiniteTasks, FS_EmptySet
      <4>3. Cardinality(Holders \cup L) = Cardinality(Holders) + Cardinality(L) - 0
        <5>1. Holders \cap L = {}
          BY <4>1
        <5>2. IsFiniteSet(Holders) /\ Cardinality({}) = 0
          BY FS_EmptySet
        <5> QED BY ONLY <4>2, <5>1, <5>2, FS_Union
      <4> QED BY <3>1, <4>2, <4>3
    <3>3. Pending = {}
      BY <1>0, <3>2
    <3>4. L = {t} /\ Pending' = {} /\ Holders' = Holders \cup {t}
      BY <2>10, <2>13, <3>3
    <3>5. Order(waiters', Pending') = {} /\ Order(waiters, Pending) = {}
      BY <3>3, <3>4 DEF Order
    <3>6. Cardinality(Holders) < capacity /\ capacity' = capacity
      BY <2>1, <3>2
    <3>7. Pool!TakeFree(t)
      BY ONLY <3>3, <3>4, <3>5, <3>6, SameCardinality DEF Pool!TakeFree
    <3> QED BY <2>11, <3>7 DEF Pool!PoolNext
  <2> QED BY <2>12, <2>13
<1>3. CASE Cancel(t)
  <2>1. /\ pc[t] = "waiting"
        /\ future' = IF future[t] = "pending" THEN [future EXCEPT ![t] = "cancelled"] ELSE future
        /\ capacity' = capacity /\ waiters' = waiters /\ pc' = pc
    BY <1>3 DEF Cancel
  <2>2. Holders' = Holders /\ Pending' = Pending \ {t}
    BY <2>1 DEF HoldersOf, Holders, Pending
  <2>3. Order(waiters', Pending') = Order(waiters, Pending) \cap (Pending' \X Pending')
    BY <2>1, <2>2, OrderRestricts
  <2>4. Pool!Serve
    BY <2>2, <2>3 DEF Pool!Serve
  <2> QED BY <2>1, <2>4, ServeAlone DEF Pool!PoolNext
<1>4. CASE Enter(t)
  <2>1. /\ pc[t] = "waiting" /\ future[t] = "set"
        /\ pc' = [pc EXCEPT ![t] = "in"] /\ future' = [future EXCEPT ![t] = "none"]
        /\ capacity' = capacity /\ waiters' = waiters
    BY <1>4 DEF Enter
  <2>2. Holders' = Holders /\ Pending' = Pending
    BY <2>1 DEF HoldersOf, Holders, Pending
  <2> QED BY <2>1, <2>2 DEF Pool!poolVars
<1>5. CASE GiveUp(t)
  <2> DEFINE q == Without(waiters, t)
             used == inUse - (IF future[t] = "set" THEN 1 ELSE 0)
             fut == [future EXCEPT ![t] = "none"]
             p == [pc EXCEPT ![t] = "out"]
             P == {u \in Tasks : fut[u] = "pending"}
  <2>1. /\ pc[t] = "waiting" /\ pc' = p /\ capacity' = capacity
        /\ Wake(q, used, capacity', fut)
    BY <1>5 DEF GiveUp
  <2>2. used = inUse - (IF t \in Holders THEN 1 ELSE 0)
    BY <2>1 DEF Holders, HoldersOf
  <2> HIDE DEF used
  <2>3. Consistent(used, q, fut, p)
    BY <2>1, <2>2, LeaveFacts
  <2>4. HoldersOf(fut, p) \subseteq Holders /\ P \subseteq Pending /\ t \notin P
    BY DEF HoldersOf, Holders, Pending
  <2>5. Order(q, P) = Order(waiters, P)
    BY <2>4, OrderWithout
  <2>6. capacity' \in Nat
    BY <2>1
  <2> HIDE DEF q, fut, p
  <2>7. Pool!Serve
    BY <2>1, <2>3, <2>4, <2>5, <2>6, WakeIsServe
  <2> QED BY <2>1, <2>7, ServeAlone DEF Pool!PoolNext
<1>6. CASE Release(t)
  <2> DEFINE used == inUse - 1
             p == [pc EXCEPT ![t] = "out"]
  <2>1. /\ pc[t] = "in" /\ pc' = p /\ capacity' = capacity
        /\ Wake(waiters, used, capacity', future)
    BY <1>6 DEF Release
  <2>2. future[t] = "none" /\ t \notin Range(waiters)
    BY <2>1
  <2>3. waiters = Without(waiters, t)
    BY <2>2, LenProperties DEF Without, Range
  <2>4. future = [future EXCEPT ![t] = "none"]
    BY <2>2
  <2>5. used = inUse - (IF t \in Holders THEN 1 ELSE 0)
    BY <2>1 DEF Holders, HoldersOf
  <2> HIDE DEF used
  <2>6. Consistent(used, waiters, future, p)
    BY <2>1, <2>3, <2>4, <2>5, LeaveFacts
  <2>7. HoldersOf(future, p) \subseteq Holders
    BY DEF HoldersOf, Holders
  <2>8. capacity' \in Nat
    BY <2>1
  <2>9. /\ {u \in Tasks : future[u] = "pending"} \subseteq Pending
        /\ Order(waiters, {u \in Tasks : future[u] = "pending"})
             = Order(waiters, {u \in Tasks : future[u] = "pending"})
    BY DEF Pending
  <2> HIDE DEF p
  <2>10. Pool!Serve
    BY ONLY IInv, <2>1, <2>6, <2>7, <2>8, <2>9, WakeIsServe
  <2> QED BY <2>1, <2>10, ServeAlone DEF Pool!PoolNext
<1> QED BY <1>1, <1>2, <1>3, <1>4, <1>5, <1>6

\* A resize is one, with what it lets in.
LEMMA ResizeOfPool ==
  ASSUME IInv, NEW c \in Capacities, Raise(c) \/ Lower(c)
  PROVE  Pool!PoolNext
<1>0. c \in Nat /\ capacity \in Nat
  BY SemaphoreAssumption, InvFacts
<1>1. CASE Raise(c)
  <2>1. /\ c > capacity /\ capacity' = c /\ pc' = pc
        /\ Wake(waiters, inUse, capacity', future)
    BY <1>1 DEF Raise
  <2>2. Consistent(inUse, waiters, future, pc)
    BY DEF IInv
  <2>3. HoldersOf(future, pc) = Holders /\ Pending = {u \in Tasks : future[u] = "pending"}
    BY DEF Holders, Pending
  <2>4. Pool!Serve /\ Holders' \cup Pending' = Holders \cup Pending
    BY <1>0, <2>1, <2>2, <2>3, WakeIsServe
  <2>5. capacity' # capacity /\ capacity' \in Capacities
    BY <1>0, <2>1
  <2> QED BY <2>4, <2>5 DEF Pool!Resize, Pool!PoolNext
<1>2. CASE Lower(c)
  <2>1. /\ c < capacity /\ capacity' = c
        /\ waiters' = waiters /\ future' = future /\ pc' = pc
    BY <1>2 DEF Lower
  <2>2. Holders' = Holders /\ Pending' = Pending
    BY <2>1 DEF HoldersOf, Holders, Pending
  <2>3. Order(waiters', Pending') = Order(waiters, Pending) \cap (Pending' \X Pending')
    BY <2>1, <2>2, OrderRestricts
  <2>4. Pool!Serve
    BY <2>2, <2>3 DEF Pool!Serve
  <2>5. capacity' # capacity /\ capacity' \in Capacities
    BY <1>0, <2>1
  <2> QED BY <2>2, <2>4, <2>5 DEF Pool!Resize, Pool!PoolNext
<1> QED BY <1>1, <1>2

\* The dispatcher's limit is a first-come pool whose capacity moves, for any
\* number of dispatches: a newcomer takes a slot only when nobody waits, slots
\* go to the line in its order through releases, cancellations and resizes, and
\* none is handed out above the capacity of that moment.
THEOREM IsASlotPool == Spec => ImplementsSlotPool
<1>1. Init => Pool!PoolInit
  <2> SUFFICES ASSUME Init PROVE Pool!PoolInit
    OBVIOUS
  <2>1. Holders = {} /\ Pending = {}
    BY DEF Init, Holders, HoldersOf, Pending
  <2>2. Order(waiters, Pending) = {}
    BY <2>1 DEF Order
  <2> QED BY <2>1, <2>2 DEF Init, Pool!PoolInit
<1>2. IInv /\ IInv' /\ [Next]_vars => [Pool!PoolNext]_(Pool!poolVars)
  <2> SUFFICES ASSUME IInv, IInv', [Next]_vars
               PROVE  [Pool!PoolNext]_(Pool!poolVars)
    OBVIOUS
  <2>1. CASE UNCHANGED vars
    BY <2>1 DEF vars, Pool!poolVars, Holders, HoldersOf, Pending
  <2>2. CASE Next
    BY <2>2, TaskOfPool, ResizeOfPool DEF Next
  <2> QED BY <2>1, <2>2
<1> QED BY <1>1, <1>2, Invariance, PTL DEF Spec, ImplementsSlotPool, Pool!PoolSpec

(***************************************************************************)
(* The replies                                                             *)
(***************************************************************************)

RequestsOf(s) == {f \in frames : f.by = s}

Busy(c) == c.at \in {"writing", "waiting", "pausing", "outside"}

\* Nobody carried piece i out, and nobody can on account of what was sent.
Fresh(i, n, F) == n[i] = 0 /\ \A f \in F : f.piece = i => f.state = "refused"

ReceiptType ==
  [got : Nat, outcome : {"open", "committed", "rolled_back", "unknown"},
   cause : {"none", "result", "cancelled", "cancelled_in_flight"},
   piece : {0} \cup PieceNumbers]

RequestType(s) ==
  [by : {s}, piece : 1 .. Pieces[s], try : Nat, on : Ways, state : {"out", "done", "refused"}]

\* A piece is tried at most once more than the way it has come to allows.
CallSound(s, c) ==
  /\ c \in CallType /\ c.piece \in 1 .. Pieces[s]
  /\ c.try <= MaxTries + c.rank
  /\ c.at \in {"idle", "between", "over"} => c.rank = 0
  /\ c.at = "pausing" => c.rank = 3
  /\ c.at = "idle" => c.piece = 1
  /\ c.at = "between" => c.piece < Pieces[s]
  /\ c.at \in {"writing", "waiting"} => c.on \in Links
  /\ c.at = "writing" /\ ~c.out => c.answer \in {"none", "failed"}

\* Requests of one piece are told apart by their tries, and all but one were
\* refused; a request was carried out once it says so and not before.
RequestsSound(s, n, F) ==
  /\ F \subseteq RequestType(s)
  /\ \A f, g \in F :
       /\ f.piece = g.piece
       /\ f.try = g.try \/ (f.state # "refused" /\ g.state # "refused")
       => f = g
  /\ \A f \in F : /\ f.state = "out" => n[f.piece] = 0
                  /\ f.state = "done" => n[f.piece] = 1

\* The requests of the present piece, and none of later ones.
RequestsFollow(c, n, F) ==
  \A f \in F :
    /\ f.piece <= c.piece /\ c.at # "idle"
    /\ Busy(c) /\ f.piece = c.piece =>
         /\ f.try <= c.try
         /\ f.state # "refused" => f.try = c.try
         /\ f.state = "refused" /\ f.try = c.try => n[c.piece] = 0
         /\ c.at = "writing" /\ ~c.out => f.try < c.try

\* What may still be sent has not been done; an answer is true.
AnswersTrue(s, c, n, F) ==
  /\ \A i \in 1 .. Pieces[s] : i > c.piece => Fresh(i, n, F)
  /\ \/ c.at \in {"idle", "pausing"}
     \/ c.at = "writing" /\ ~c.out
     \/ c.at \in {"writing", "waiting"} /\ c.answer = "refused"
     => Fresh(c.piece, n, F)
  /\ c.at \in {"writing", "waiting"} /\ c.answer = "done" => n[c.piece] = 1

\* An open receipt has counted the pieces done so far, a settled one is true.
OpenSound(s, c, r, n) ==
  r.outcome = "open" =>
    /\ c.at # "over"
    /\ r.got = IF c.at = "between" THEN c.piece ELSE c.piece - 1
    /\ \A j \in 1 .. Pieces[s] : j <= r.got => n[j] = 1
    /\ r.got > 0 => c.any

CommitSound(s, r, n) == r.outcome = "committed" => \A j \in 1 .. Pieces[s] : n[j] = 1

RefusalSound(s, c, r, n, F) ==
  r.outcome = "rolled_back" /\ r.cause = "result" =>
    /\ r.piece \in 1 .. Pieces[s] /\ Fresh(r.piece, n, F)
    /\ r.piece < c.piece \/ (r.piece = c.piece /\ c.at \in {"between", "over"})

CancelSound(s, c, r, n, F) ==
  r.outcome = "rolled_back" /\ r.cause = "cancelled" =>
    c.at = "over" /\ \A i \in 1 .. Pieces[s] : Fresh(i, n, F)

ReceiptSound(s, c, r, n, F) ==
  /\ r \in ReceiptType /\ OpenSound(s, c, r, n) /\ CommitSound(s, r, n)
  /\ RefusalSound(s, c, r, n, F) /\ CancelSound(s, c, r, n, F)

Sound(s, c, r, n, F) ==
  /\ n \in [1 .. Pieces[s] -> {0, 1}]
  /\ CallSound(s, c) /\ RequestsSound(s, n, F) /\ RequestsFollow(c, n, F)
  /\ AnswersTrue(s, c, n, F) /\ ReceiptSound(s, c, r, n, F)

\* The types of the rest; a race is about an attempt.
LinkType ==
  [phase : {"none", "starting", "dialing", "listening", "ending", "leaving", "over", "revoked"},
   gen : 0 .. MaxRotations, open : BOOLEAN, cut : BOOLEAN, closing : BOOLEAN]

ClientTyped ==
  /\ auth \in [gen : 0 .. MaxRotations, trusted : BOOLEAN]
  /\ ws \in Links \cup {NoLink}
  /\ link \in [Links -> LinkType]
  /\ main \in [at : {"top", "backoff", "racing", "revoking"}, on : Links \cup {NoLink}]
  /\ main.at \in {"racing", "revoking"} => main.on \in Links
  /\ wakeup \in BOOLEAN
  /\ rotations \subseteq [gen : 0 .. MaxRotations, on : Links \cup {NoLink}]
  /\ drops \in 0 .. MaxDrops

\* The shapes of the functions, and whose the requests are
Shaped ==
  /\ call = [s \in Senders |-> call[s]]
  /\ receipt = [s \in Senders |-> receipt[s]]
  /\ ran = [s \in Senders |-> ran[s]]
  /\ \A f \in frames : f.by \in Senders

Told ==
  /\ Shaped
  /\ \A s \in Senders : Sound(s, call[s], receipt[s], ran[s], RequestsOf(s))

ReplyInv == ClientTyped /\ Told

-----------------------------------------------------------------------------
(* What one step does to the values of one sender *)

\* The receipt r after a result, as DeliveryReceipt.record leaves it
Settled(s, r, verdict, cause, piece) ==
  LET by(outcome, got) == [got |-> got, outcome |-> outcome, cause |-> cause, piece |-> piece] IN
  IF r.outcome # "open" THEN r
  ELSE CASE verdict = "unknown" -> by("unknown", r.got)
         [] verdict = "refused" -> by("rolled_back", r.got)
         [] verdict = "done"    ->
              IF r.got + 1 >= Pieces[s] THEN by("committed", r.got + 1)
              ELSE [r EXCEPT !.got = @ + 1]

\* Requests that are forgotten harm nobody.
LEMMA Forgotten ==
  ASSUME NEW s, NEW c, NEW r, NEW n, NEW F, NEW G, G \subseteq F, Sound(s, c, r, n, F)
  PROVE  Sound(s, c, r, n, G)
<1>1. \A i : Fresh(i, n, F) => Fresh(i, n, G)
  BY DEF Fresh
<1>2. RequestsSound(s, n, G) /\ RequestsFollow(c, n, G)
  BY DEF Sound, RequestsSound, RequestsFollow
<1>3. AnswersTrue(s, c, n, G) /\ ReceiptSound(s, c, r, n, G)
  BY <1>1 DEF Sound, AnswersTrue, ReceiptSound, OpenSound, CommitSound, RefusalSound, CancelSound
<1> QED BY <1>2, <1>3 DEF Sound

\* A request is refused.
LEMMA Refusing ==
  ASSUME NEW s, NEW c, NEW r, NEW n, NEW F, NEW f \in F, f.state = "out",
         Sound(s, c, r, n, F)
  PROVE  Sound(s, c, r, n, (F \ {f}) \cup {[f EXCEPT !.state = "refused"]})
<1> DEFINE g == [f EXCEPT !.state = "refused"]
           G == (F \ {f}) \cup {g}
<1>1. /\ f \in RequestType(s) /\ g \in RequestType(s) /\ g.state = "refused"
      /\ g.piece = f.piece /\ g.try = f.try /\ n[f.piece] = 0
  BY DEF Sound, RequestsSound, RequestType
<1> HIDE DEF g
<1>2. \A i : Fresh(i, n, F) => Fresh(i, n, G)
  BY <1>1 DEF Fresh
<1>3. RequestsSound(s, n, G)
  BY <1>1 DEF Sound, RequestsSound
<1>4. RequestsFollow(c, n, G)
  BY <1>1 DEF Sound, RequestsFollow
<1>5. AnswersTrue(s, c, n, G) /\ ReceiptSound(s, c, r, n, G)
  BY <1>2 DEF Sound, AnswersTrue, ReceiptSound, OpenSound, CommitSound, RefusalSound, CancelSound
<1> QED BY <1>3, <1>4, <1>5 DEF Sound, g

\* A request is carried out.
LEMMA Executing ==
  ASSUME NEW s, NEW c, NEW r, NEW n, NEW F, NEW f \in F, f.state = "out",
         Pieces[s] \in Nat, Sound(s, c, r, n, F)
  PROVE  Sound(s, c, r, [n EXCEPT ![f.piece] = @ + 1],
               (F \ {f}) \cup {[f EXCEPT !.state = "done"]})
<1> DEFINE g == [f EXCEPT !.state = "done"]
           G == (F \ {f}) \cup {g}
           m == [n EXCEPT ![f.piece] = @ + 1]
           p == f.piece
<1>1. /\ f \in RequestType(s) /\ g \in RequestType(s) /\ g.state = "done"
      /\ g.piece = p /\ g.try = f.try /\ n[p] = 0 /\ p \in 1 .. Pieces[s]
  BY DEF Sound, RequestsSound, RequestType
<1>2. /\ m \in [1 .. Pieces[s] -> {0, 1}] /\ m[p] = 1
      /\ \A i \in 1 .. Pieces[s] : i # p => m[i] = n[i]
  BY <1>1 DEF Sound
<1> HIDE DEF g, m, p
<1>3. \A i \in 1 .. Pieces[s] : Fresh(i, n, F) => i # p /\ Fresh(i, m, G)
  BY <1>1, <1>2 DEF Fresh, p
<1>4. \A i \in 1 .. Pieces[s] : n[i] = 1 => m[i] = 1
  BY <1>1, <1>2
<1>5. \A h \in F : h # f /\ h.piece = p => h.state = "refused" /\ h.try # f.try
  BY <1>1 DEF Sound, RequestsSound, p
<1>6. RequestsSound(s, m, G)
  <2>1. G \subseteq RequestType(s)
    BY <1>1 DEF Sound, RequestsSound
  <2>2. \A h, k \in G :
          /\ h.piece = k.piece
          /\ h.try = k.try \/ (h.state # "refused" /\ k.state # "refused")
          => h = k
    BY <1>1, <1>5 DEF Sound, RequestsSound, p
  <2>3. ASSUME NEW h \in G
        PROVE  (h.state = "out" => m[h.piece] = 0) /\ (h.state = "done" => m[h.piece] = 1)
    <3>1. CASE h = g
      BY <1>1, <1>2, <3>1
    <3>2. CASE h # g
      <4>1. h \in F /\ h # f /\ h.piece \in 1 .. Pieces[s]
        BY <3>2 DEF Sound, RequestsSound, RequestType
      <4>2. h.state # "refused" => h.piece # p
        BY <1>5, <4>1
      <4> QED BY <1>2, <4>1, <4>2 DEF Sound, RequestsSound
    <3> QED BY <3>1, <3>2
  <2> QED BY <2>1, <2>2, <2>3 DEF RequestsSound
<1>7. RequestsFollow(c, m, G)
  <2> SUFFICES ASSUME NEW h \in G
               PROVE  /\ h.piece <= c.piece /\ c.at # "idle"
                      /\ Busy(c) /\ h.piece = c.piece =>
                           /\ h.try <= c.try
                           /\ h.state # "refused" => h.try = c.try
                           /\ h.state = "refused" /\ h.try = c.try => m[c.piece] = 0
                           /\ c.at = "writing" /\ ~c.out => h.try < c.try
    BY DEF RequestsFollow
  <2>1. CASE h = g
    BY <1>1, <2>1 DEF Sound, RequestsFollow, p
  <2>2. CASE h # g
    <3>1. h \in F /\ h # f
      BY <2>2
    <3>2. Busy(c) /\ h.piece = c.piece /\ h.state = "refused" /\ h.try = c.try
          => n[c.piece] = 0 /\ c.piece # p /\ c.piece \in 1 .. Pieces[s]
      BY <1>1, <1>5, <3>1 DEF Sound, RequestsFollow, CallSound, p
    <3> QED BY <1>2, <3>1, <3>2 DEF Sound, RequestsFollow
  <2> QED BY <2>1, <2>2
<1>8. AnswersTrue(s, c, m, G)
  BY <1>3, <1>4 DEF Sound, AnswersTrue, CallSound
<1>9. ReceiptSound(s, c, r, m, G)
  BY <1>3, <1>4 DEF Sound, ReceiptSound, OpenSound, CommitSound, RefusalSound, CancelSound
<1> QED BY <1>2, <1>6, <1>7, <1>8, <1>9 DEF Sound, g, m

\* A connection ends: some of what was sent over it was carried out.
LEMMA Arriving ==
  ASSUME NEW s, NEW c, NEW r, NEW n, NEW F, NEW G, NEW A, NEW m, Pieces[s] \in Nat,
         Sound(s, c, r, n, F), G \subseteq F, A \subseteq F \ G,
         \A f \in A : f.state = "out",
         m = [i \in 1 .. Pieces[s] |-> n[i] + Cardinality({f \in A : f.piece = i})]
  PROVE  Sound(s, c, r, m, G)
<1>1. \A f \in F : f.piece \in 1 .. Pieces[s]
  BY DEF Sound, RequestsSound, RequestType
<1>2. ASSUME NEW i \in 1 .. Pieces[s]
      PROVE  m[i] = IF \E f \in A : f.piece = i THEN 1 ELSE n[i]
  <2> DEFINE B == {f \in A : f.piece = i}
  <2>1. m[i] = n[i] + Cardinality(B) /\ n[i] \in {0, 1}
    BY DEF Sound
  <2>2. CASE \E f \in A : f.piece = i
    <3>1. PICK f \in A : f.piece = i
      BY <2>2
    <3>2. B = {f}
      BY <3>1 DEF Sound, RequestsSound
    <3>3. n[i] = 0 /\ Cardinality(B) = 1
      BY <3>1, <3>2, FS_Singleton DEF Sound, RequestsSound
    <3> QED BY <2>1, <2>2, <3>3
  <2>3. CASE ~\E f \in A : f.piece = i
    <3>1. B = {}
      BY <2>3
    <3>2. Cardinality(B) = 0
      BY <3>1, FS_EmptySet
    <3> QED BY <2>1, <2>3, <3>2
  <2> QED BY <2>2, <2>3
<1>3. m \in [1 .. Pieces[s] -> {0, 1}]
  BY <1>2 DEF Sound
<1>4. \A i \in 1 .. Pieces[s] : n[i] = 1 => m[i] = 1
  BY <1>2
<1>5. \A i \in 1 .. Pieces[s] : Fresh(i, n, F) => Fresh(i, m, G)
  BY <1>2 DEF Fresh
<1>6. \A f \in A, g \in G : f.piece = g.piece => g.state = "refused" /\ g.try # f.try
  BY DEF Sound, RequestsSound
<1>7. RequestsSound(s, m, G)
  <2>1. ASSUME NEW h \in G
        PROVE  (h.state = "out" => m[h.piece] = 0) /\ (h.state = "done" => m[h.piece] = 1)
    BY ZenonT(60), <1>1, <1>2, <1>6 DEF Sound, RequestsSound
  <2> QED BY <2>1 DEF Sound, RequestsSound
<1>8. RequestsFollow(c, m, G)
  <2> SUFFICES ASSUME NEW h \in G
               PROVE  /\ h.piece <= c.piece /\ c.at # "idle"
                      /\ Busy(c) /\ h.piece = c.piece =>
                           /\ h.try <= c.try
                           /\ h.state # "refused" => h.try = c.try
                           /\ h.state = "refused" /\ h.try = c.try => m[c.piece] = 0
                           /\ c.at = "writing" /\ ~c.out => h.try < c.try
    BY DEF RequestsFollow
  <2>1. h \in F
    OBVIOUS
  <2>2. ASSUME Busy(c), h.piece = c.piece, h.state = "refused", h.try = c.try
        PROVE  m[c.piece] = 0
    <3>1. n[c.piece] = 0 /\ c.piece \in 1 .. Pieces[s]
      BY <2>1, <2>2 DEF Sound, RequestsFollow, CallSound
    <3>2. \A f \in A : f.piece # c.piece
      BY <1>6, <2>2 DEF Sound, RequestsFollow
    <3> QED BY <1>2, <3>1, <3>2
  <2> QED BY <2>1, <2>2 DEF Sound, RequestsFollow
<1>9. AnswersTrue(s, c, m, G)
  BY <1>4, <1>5 DEF Sound, AnswersTrue, CallSound
<1>10. ReceiptSound(s, c, r, m, G)
  BY <1>4, <1>5 DEF Sound, ReceiptSound, OpenSound, CommitSound, RefusalSound, CancelSound
<1> QED BY <1>3, <1>7, <1>8, <1>9, <1>10 DEF Sound

\* What waits for an answer gets one: it failed, or what became of a request says so.
LEMMA Failing ==
  ASSUME NEW s, NEW c, NEW r, NEW n, NEW F, Pieces[s] \in Nat,
         Sound(s, c, r, n, F), c.answer = "none"
  PROVE  Sound(s, [c EXCEPT !.answer = "failed"], r, n, F)
<1> DEFINE d == [c EXCEPT !.answer = "failed"]
<1>1. /\ d \in CallType /\ d.answer = "failed" /\ d.at = c.at /\ d.piece = c.piece
      /\ d.try = c.try /\ d.rank = c.rank /\ d.on = c.on /\ d.out = c.out /\ d.any = c.any
  BY DEF Sound, CallSound, CallType
<1> HIDE DEF d
<1>2. CallSound(s, d) /\ RequestsFollow(d, n, F)
  BY <1>1 DEF Sound, CallSound, RequestsFollow, Busy
<1>3. AnswersTrue(s, d, n, F) /\ ReceiptSound(s, d, r, n, F)
  BY <1>1 DEF Sound, AnswersTrue, ReceiptSound, OpenSound, CommitSound, RefusalSound, CancelSound
<1> QED BY <1>2, <1>3 DEF Sound, d

\* The answer to the request in flight is noted and the request is gone.
LEMMA Hearing ==
  ASSUME NEW s, NEW c, NEW r, NEW n, NEW F, Pieces[s] \in Nat,
         Sound(s, c, r, n, F),
         c.at \in {"writing", "waiting"}, c.answer = "none",
         NEW f \in F, f.state # "out", f.piece = c.piece, f.try = c.try
  PROVE  Sound(s, [c EXCEPT !.answer = f.state], r, n, F \ {f})
<1> DEFINE d == [c EXCEPT !.answer = f.state]
           G == F \ {f}
<1>1. f.state \in {"refused", "done"}
  BY DEF Sound, RequestsSound, RequestType
<1>2. /\ d \in CallType /\ d.answer = f.state /\ d.at = c.at /\ d.piece = c.piece
      /\ d.try = c.try /\ d.rank = c.rank /\ d.on = c.on /\ d.out = c.out /\ d.any = c.any
  BY <1>1 DEF Sound, CallSound, CallType
<1>3. Sound(s, c, r, n, G)
  BY Forgotten
<1>4. f.state = "refused" => Fresh(c.piece, n, G)
  BY DEF Sound, RequestsSound, RequestsFollow, Busy, Fresh
<1>5. f.state = "done" => n[c.piece] = 1
  BY DEF Sound, RequestsSound
<1>6. c.at = "writing" => c.out
  BY DEF Sound, RequestsFollow, Busy, RequestsSound, RequestType, CallSound, CallType
<1> HIDE DEF d, G
<1>7. CallSound(s, d) /\ RequestsFollow(d, n, G)
  BY <1>2, <1>3, <1>6 DEF Sound, CallSound, RequestsFollow, Busy
<1>8. AnswersTrue(s, d, n, G)
  BY <1>1, <1>2, <1>3, <1>4, <1>5, <1>6 DEF Sound, AnswersTrue
<1>9. ReceiptSound(s, d, r, n, G)
  BY <1>2, <1>3 DEF Sound, ReceiptSound, OpenSound, CommitSound, RefusalSound, CancelSound
<1> QED BY <1>3, <1>7, <1>8, <1>9 DEF Sound, d, G

\* The frame of the claimed request is out: it may be carried out from now on.
LEMMA Writing ==
  ASSUME NEW s, NEW c, NEW r, NEW n, NEW F, Pieces[s] \in Nat,
         Sound(s, c, r, n, F),
         c.at = "writing", ~c.out, NEW f, f = Request(s, c.on, c.piece, c.try)
  PROVE  Sound(s, [c EXCEPT !.out = TRUE], r, n, F \cup {f})
<1> DEFINE d == [c EXCEPT !.out = TRUE]
           G == F \cup {f}
<1>1. /\ d \in CallType /\ d.out = TRUE /\ d.answer = c.answer /\ d.at = c.at
      /\ d.piece = c.piece /\ d.try = c.try /\ d.rank = c.rank /\ d.on = c.on
      /\ d.any = c.any
  BY DEF Sound, CallSound, CallType
<1>2. /\ f \in RequestType(s) /\ f.piece = c.piece /\ f.try = c.try /\ f.state = "out"
  BY DEF Sound, CallSound, CallType, RequestType, Request, Ways
<1>3. Fresh(c.piece, n, F) /\ \A g \in F : g.piece = c.piece => g.try < c.try
  BY DEF Sound, AnswersTrue, RequestsFollow, Busy
<1>4. c.try \in Int /\ c.piece \in Int /\ \A g \in F : g.try \in Int
  BY DEF Sound, CallSound, CallType, RequestsSound, RequestType
<1> HIDE DEF d
<1>5. \A i : i # c.piece /\ Fresh(i, n, F) => Fresh(i, n, G)
  BY <1>2 DEF Fresh
<1>6. RequestsSound(s, n, G)
  BY <1>2, <1>3, <1>4 DEF Sound, RequestsSound, Fresh
<1>7. RequestsFollow(d, n, G)
  BY <1>1, <1>2, <1>3, <1>4 DEF Sound, RequestsFollow, Busy, Fresh
<1>8. CallSound(s, d)
  BY <1>1 DEF Sound, CallSound
<1>9. AnswersTrue(s, d, n, G)
  <2>1. ASSUME NEW i \in 1 .. Pieces[s], i > c.piece PROVE Fresh(i, n, G)
    <3>1. Fresh(i, n, F) /\ i # c.piece
      BY <1>4, <2>1 DEF Sound, AnswersTrue
    <3> QED BY <1>5, <3>1
  <2>2. c.answer \notin {"refused", "done"}
    BY DEF Sound, CallSound
  <2> QED BY <1>1, <2>1, <2>2 DEF AnswersTrue
<1>10. ReceiptSound(s, d, r, n, G)
  <2>1. r.outcome = "rolled_back" => r.cause # "cancelled"
    BY DEF Sound, ReceiptSound, OpenSound, CommitSound, RefusalSound, CancelSound
  <2>2. r.outcome = "rolled_back" /\ r.cause = "result" => r.piece # c.piece
    BY <1>4 DEF Sound, ReceiptSound, OpenSound, CommitSound, RefusalSound, CancelSound
  <2> QED BY <1>1, <1>5, <2>1, <2>2 DEF Sound, ReceiptSound, OpenSound, CommitSound, RefusalSound, CancelSound
<1> QED BY <1>6, <1>7, <1>8, <1>9, <1>10 DEF Sound, d

\* Once its frame is written the sender waits for the answer.
LEMMA Waiting ==
  ASSUME NEW s, NEW c, NEW r, NEW n, NEW F, Pieces[s] \in Nat,
         Sound(s, c, r, n, F), c.at = "writing", c.out
  PROVE  Sound(s, [c EXCEPT !.at = "waiting"], r, n, F)
<1> DEFINE d == [c EXCEPT !.at = "waiting"]
<1>1. /\ d \in CallType /\ d.at = "waiting" /\ d.answer = c.answer /\ d.piece = c.piece
      /\ d.try = c.try /\ d.rank = c.rank /\ d.on = c.on /\ d.out = c.out /\ d.any = c.any
  BY DEF Sound, CallSound, CallType
<1> HIDE DEF d
<1>2. CallSound(s, d) /\ RequestsFollow(d, n, F)
  BY <1>1 DEF Sound, CallSound, RequestsFollow, Busy
<1>3. AnswersTrue(s, d, n, F) /\ ReceiptSound(s, d, r, n, F)
  BY <1>1 DEF Sound, AnswersTrue, ReceiptSound, OpenSound, CommitSound, RefusalSound, CancelSound
<1> QED BY <1>2, <1>3 DEF Sound, d

\* Piece p is to be sent: it has not been done and nothing sent can do it.
Due(s, c, n, F, p) ==
  /\ c.at # "over" /\ p \in 1 .. Pieces[s]
  /\ p = IF c.at = "between" THEN c.piece + 1 ELSE c.piece
  /\ Fresh(p, n, F)
  /\ \A f \in F : f.piece = p => f.try <= c.try

\* At a way that has not been written to, or pausing before one
LEMMA Turning ==
  ASSUME NEW s, NEW c, NEW r, NEW n, NEW F, Pieces[s] \in Nat,
         Sound(s, c, r, n, F), NEW p, Due(s, c, n, F, p),
         NEW d \in CallType, d.at \in {"writing", "pausing"}, d.piece = p,
         d.any = c.any, ~d.out, d.answer = "none", d.try <= MaxTries + d.rank,
         IF d.at = "writing" THEN d.try = c.try + 1 /\ d.on \in Links ELSE d.try = c.try /\ d.rank = 3
  PROVE  Sound(s, d, r, n, F)
<1>1. /\ c.try \in Int /\ c.piece \in Int /\ p \in Int
      /\ \A f \in F : f.try \in Int /\ f.piece \in Int
  BY DEF Sound, CallSound, CallType, RequestsSound, RequestType, Due
<1>2. c.piece <= p
  BY <1>1 DEF Due
<1>3. CallSound(s, d)
  BY DEF CallSound, Due
<1>4. RequestsFollow(d, n, F)
  BY <1>1, <1>2 DEF Sound, RequestsFollow, Due, Busy, Fresh
<1>5. AnswersTrue(s, d, n, F)
  BY <1>1, <1>2 DEF Sound, AnswersTrue, Due
<1>6. ReceiptSound(s, d, r, n, F)
  BY <1>1, <1>2 DEF Sound, ReceiptSound, OpenSound, CommitSound, RefusalSound, CancelSound, Due
<1> QED BY <1>3, <1>4, <1>5, <1>6 DEF Sound

\* With the entrance or HTTP, where the request leaves at once
LEMMA Posting ==
  ASSUME NEW s, NEW c, NEW r, NEW n, NEW F, Pieces[s] \in Nat,
         Sound(s, c, r, n, F), NEW p, Due(s, c, n, F, p),
         NEW d \in CallType, d.at = "outside", d.piece = p,
         d.any = c.any, d.try <= MaxTries + d.rank, d.try = c.try + 1, d.on \in Ways,
         NEW f, f = Request(s, d.on, p, d.try)
  PROVE  Sound(s, d, r, n, F \cup {f})
<1> DEFINE G == F \cup {f}
<1>1. /\ c.try \in Int /\ c.piece \in Int /\ p \in Int
      /\ \A g \in F : g.try \in Int /\ g.piece \in Int
  BY DEF Sound, CallSound, CallType, RequestsSound, RequestType, Due
<1>2. c.piece <= p
  BY <1>1 DEF Due
<1>3. f \in RequestType(s) /\ f.piece = p /\ f.try = d.try /\ f.state = "out"
  BY DEF CallType, RequestType, Request, Due
<1>4. \A i : i # p /\ Fresh(i, n, F) => Fresh(i, n, G)
  BY <1>3 DEF Fresh
<1>5. CallSound(s, d)
  BY DEF CallSound, Due
<1>6. RequestsSound(s, n, G)
  BY <1>1, <1>3 DEF Sound, RequestsSound, Due, Fresh
<1>7. RequestsFollow(d, n, G)
  BY <1>1, <1>2, <1>3 DEF Sound, RequestsFollow, Due, Busy, Fresh
<1>8. AnswersTrue(s, d, n, G)
  <2>1. ASSUME NEW i \in 1 .. Pieces[s], i > p PROVE Fresh(i, n, G)
    <3>1. Fresh(i, n, F) /\ i # p
      BY <1>1, <1>2, <2>1 DEF Sound, AnswersTrue
    <3> QED BY <1>4, <3>1
  <2> QED BY <2>1 DEF AnswersTrue
<1>9. ReceiptSound(s, d, r, n, G)
  <2>1. r.outcome = "rolled_back" => r.cause # "cancelled"
    BY DEF Sound, ReceiptSound, OpenSound, CommitSound, RefusalSound, CancelSound, Due
  <2>2. r.outcome = "rolled_back" /\ r.cause = "result" => r.piece # p /\ r.piece < p
    BY <1>1, <1>2 DEF Sound, ReceiptSound, OpenSound, CommitSound, RefusalSound, CancelSound, Due
  <2>3. OpenSound(s, d, r, n) /\ CommitSound(s, r, n)
    BY <1>1, <1>2 DEF Sound, ReceiptSound, OpenSound, CommitSound, Due
  <2>4. RefusalSound(s, d, r, n, G)
    BY <1>4, <2>2 DEF Sound, ReceiptSound, RefusalSound
  <2> QED BY <2>1, <2>3, <2>4 DEF Sound, ReceiptSound, CancelSound
<1> QED BY <1>5, <1>6, <1>7, <1>8, <1>9 DEF Sound

\* A piece ends, and the receipt with the last or with what is not done.
LEMMA Finishing ==
  ASSUME NEW s \in Senders, NEW c, NEW r, NEW n, NEW F, Sound(s, c, r, n, F), Pieces[s] \in Nat, MaxTries \in Nat,
         NEW p \in 1 .. Pieces[s], c.at # "over",
         p = IF c.at = "between" THEN c.piece + 1 ELSE c.piece,
         NEW verdict \in {"done", "refused", "unknown"},
         verdict = "done" => n[p] = 1,
         verdict = "refused" => Fresh(p, n, F),
         c.at = "idle" => F = {},
         NEW d \in CallType, d.at = (IF p < Pieces[s] THEN "between" ELSE "over"),
         d.piece = p, d.any = (c.any \/ verdict = "done"), d.try = 0, d.rank = 0
  PROVE  Sound(s, d, Settled(s, r, verdict, "result", p), n, F)
<1> DEFINE q == Settled(s, r, verdict, "result", p)
<1>1. /\ c.piece \in Int /\ p \in Int /\ \A f \in F : f.piece \in Int
      /\ c.piece <= p /\ p \in PieceNumbers
  BY DEF Sound, CallSound, CallType, RequestsSound, RequestType, PieceNumbers
<1>2. RequestsFollow(d, n, F)
  BY <1>1 DEF Sound, RequestsFollow, Busy
<1>3. AnswersTrue(s, d, n, F)
  BY <1>1 DEF Sound, AnswersTrue
<1>4. ReceiptSound(s, d, q, n, F)
  <2>1. CASE r.outcome # "open"
    <3>1. q = r
      BY <2>1 DEF Settled
    <3> QED BY <1>1, <2>1, <3>1 DEF Sound, ReceiptSound, OpenSound, CommitSound, RefusalSound, CancelSound
  <2>2. CASE r.outcome = "open"
    <3>1. /\ r \in ReceiptType /\ r.got = p - 1
          /\ r.got > 0 => c.any
          /\ \A j \in 1 .. Pieces[s] : j <= r.got => n[j] = 1
      BY <1>1, <2>2 DEF Sound, ReceiptSound, OpenSound, CommitSound, RefusalSound, CancelSound
    <3>2. CASE verdict = "unknown"
      <4>1. q \in ReceiptType /\ q.outcome = "unknown"
        <5>1. q = [got |-> r.got, outcome |-> "unknown", cause |-> "result", piece |-> p]
          BY <2>2, <3>2 DEF Settled
        <5> QED BY <1>1, <3>1, <5>1 DEF ReceiptType
      <4> QED BY <4>1 DEF ReceiptSound, OpenSound, CommitSound, RefusalSound, CancelSound
    <3>3. CASE verdict = "refused"
      <4>1. q \in ReceiptType /\ q.outcome = "rolled_back" /\ q.cause = "result" /\ q.piece = p
        <5>1. q = [got |-> r.got, outcome |-> "rolled_back", cause |-> "result", piece |-> p]
          BY <2>2, <3>3 DEF Settled
        <5> HIDE DEF q
        <5> QED BY <1>1, <3>1, <5>1 DEF ReceiptType
      <4> QED BY <3>3, <4>1 DEF ReceiptSound, OpenSound, CommitSound, RefusalSound, CancelSound
    <3>4. CASE verdict = "done" /\ p = Pieces[s]
      <4>1. q \in ReceiptType /\ q.outcome = "committed"
        <5>1. q = [got |-> r.got + 1, outcome |-> "committed", cause |-> "result", piece |-> p]
          BY <1>1, <2>2, <3>1, <3>4 DEF Settled
        <5>2. r.got + 1 \in Nat
          BY <3>1 DEF ReceiptType
        <5> QED BY <1>1, <5>1, <5>2 DEF ReceiptType
      <4>2. \A j \in 1 .. Pieces[s] : n[j] = 1
        BY <3>1, <3>4
      <4> QED BY <4>1, <4>2 DEF ReceiptSound, OpenSound, CommitSound, RefusalSound, CancelSound
    <3>5. CASE verdict = "done" /\ p # Pieces[s]
      <4>1. /\ q \in ReceiptType /\ q.outcome = "open" /\ q.got = p
        <5>1. q = [r EXCEPT !.got = @ + 1]
          BY <1>1, <2>2, <3>1, <3>5 DEF Settled
        <5>2. r.got + 1 = p /\ p \in Nat
          BY <1>1, <3>1
        <5> HIDE DEF q
        <5> QED BY <2>2, <3>1, <5>1, <5>2 DEF ReceiptType
      <4>2. d.at = "between"
        BY <3>5
      <4>3. \A j \in 1 .. Pieces[s] : j <= p => n[j] = 1
        BY <3>1, <3>5
      <4> QED BY <3>5, <4>1, <4>2, <4>3 DEF ReceiptSound, OpenSound, CommitSound, RefusalSound, CancelSound
    <3> QED BY <3>2, <3>3, <3>4, <3>5
  <2> QED BY <2>1, <2>2
<1>5. CallSound(s, d)
  BY <1>1 DEF CallSound
<1> QED BY <1>2, <1>3, <1>4, <1>5 DEF Sound

\* The task is cancelled; a piece that waited for its answer may have been done.
LEMMA Cancelling ==
  ASSUME NEW s \in Senders, NEW c, NEW r, NEW n, NEW F, Sound(s, c, r, n, F), Pieces[s] \in Nat, MaxTries \in Nat,
         c.at \notin {"idle", "over"},
         NEW verdict, verdict = (IF c.at = "waiting" \/ c.any THEN "unknown" ELSE "refused"),
         NEW cause, cause = (IF c.at = "outside" \/ (c.at = "writing" /\ c.out)
                             THEN "cancelled_in_flight" ELSE "cancelled"),
         NEW d \in CallType, d.at = "over", d.piece = c.piece, d.try = 0, d.rank = 0
  PROVE  Sound(s, d, Settled(s, r, verdict, cause, c.piece), n, F)
<1> DEFINE q == Settled(s, r, verdict, cause, c.piece)
<1>1. c.piece \in 1 .. Pieces[s] /\ c.piece \in Int /\ \A f \in F : f.piece \in Int
  BY DEF Sound, CallSound, CallType, RequestsSound, RequestType
<1>2. RequestsFollow(d, n, F) /\ AnswersTrue(s, d, n, F)
  BY DEF Sound, RequestsFollow, AnswersTrue, Busy
<1>3. CallSound(s, d)
  BY <1>1 DEF CallSound
<1>4. ReceiptSound(s, d, q, n, F)
  <2>1. CASE r.outcome # "open"
    <3>1. q = r
      BY <2>1 DEF Settled
    <3> QED BY <1>1, <2>1, <3>1 DEF Sound, ReceiptSound, OpenSound, CommitSound, RefusalSound, CancelSound
  <2>2. CASE r.outcome = "open"
    <3>1. /\ r \in ReceiptType
          /\ r.got > 0 => c.any
          /\ r.got = IF c.at = "between" THEN c.piece ELSE c.piece - 1
      BY <2>2 DEF Sound, ReceiptSound, OpenSound, CommitSound, RefusalSound, CancelSound
    <3>2. /\ q \in ReceiptType /\ q.cause = cause
          /\ q.outcome = IF verdict = "unknown" THEN "unknown" ELSE "rolled_back"
      <4>1. q = [got |-> r.got, cause |-> cause, piece |-> c.piece,
                 outcome |-> IF verdict = "unknown" THEN "unknown" ELSE "rolled_back"]
        BY <2>2 DEF Settled
      <4>2. c.piece \in PieceNumbers
        BY <1>1 DEF PieceNumbers
      <4> QED BY <3>1, <4>1, <4>2 DEF ReceiptType
    <3>3. ASSUME verdict = "refused", cause = "cancelled"
          PROVE  \A i \in 1 .. Pieces[s] : Fresh(i, n, F)
      <4>1. ~c.any /\ c.at # "between" /\ c.piece = 1
        BY <1>1, <3>1, <3>3
      <4>2. c.at = "pausing" \/ (c.at = "writing" /\ ~c.out)
        BY <3>3, <4>1 DEF Sound, CallSound, CallType
      <4>3. Fresh(1, n, F)
        BY <4>1, <4>2 DEF Sound, AnswersTrue
      <4> QED BY <4>1, <4>3 DEF Sound, AnswersTrue
    <3> QED BY <3>2, <3>3 DEF ReceiptSound, OpenSound, CommitSound, RefusalSound, CancelSound
  <2> QED BY <2>1, <2>2
<1> QED BY <1>2, <1>3, <1>4 DEF Sound

-----------------------------------------------------------------------------
(* The connection *)

\* New credentials keep the client well-formed.
LEMMA RotateTyped ==
  ASSUME ReplyAssumption, ClientTyped, NEW trusted \in BOOLEAN, Rotate(trusted)
  PROVE  ClientTyped'
<1>1. auth' \in [gen : 0 .. MaxRotations, trusted : BOOLEAN]
  BY DEF ClientTyped, Rotate, ReplyAssumption
<1>2. rotations' \subseteq [gen : 0 .. MaxRotations, on : Links \cup {NoLink}]
  BY DEF ClientTyped, Rotate
<1> QED BY <1>1, <1>2 DEF ClientTyped, Rotate

\* Steps that change attempts: each keeps the type of a link.
LEMMA LinksTyped ==
  ASSUME ReplyAssumption, ClientTyped,
         \/ \E r \in rotations : Invalidate(r)
         \/ \E k \in Links : CloseEnds(k) \/ Drop(k) \/ HearStale(k) \/ Connect(k)
                             \/ StopListening(k) \/ Unpublish(k)
         \/ \E f \in frames : HearAnswer(f)
  PROVE  ClientTyped'
<1>1. ASSUME NEW r \in rotations, Invalidate(r) PROVE ClientTyped'
  <2>1. ASSUME NEW k \in Links PROVE [link[k] EXCEPT !.closing = TRUE] \in LinkType
    <3>1. link[k] \in LinkType
      BY DEF ClientTyped
    <3> QED BY <3>1 DEF LinkType
  <2>2. link' \in [Links -> LinkType]
    BY <1>1, <2>1 DEF ClientTyped, Invalidate
  <2> QED BY <1>1, <2>2 DEF ClientTyped, Invalidate
<1>2. ASSUME NEW k \in Links, CloseEnds(k) PROVE ClientTyped'
  <2>1. link' \in [Links -> LinkType]
    BY ZenonT(60), <1>2 DEF ClientTyped, CloseEnds, LinkType
  <2> QED BY <1>2, <2>1 DEF ClientTyped, CloseEnds, Unpublished
<1>3. ASSUME NEW k \in Links, Drop(k) PROVE ClientTyped'
  <2>1. link' \in [Links -> LinkType]
    BY ZenonT(60), <1>3 DEF ClientTyped, Drop, LinkType
  <2> QED BY <1>3, <2>1 DEF ClientTyped, Drop, ReplyAssumption
<1>4. ASSUME NEW k \in Links, HearStale(k) PROVE ClientTyped'
  <2>1. link' \in [Links -> LinkType]
    BY ZenonT(60), <1>4 DEF ClientTyped, HearStale, LinkType
  <2> QED BY <1>4, <2>1 DEF ClientTyped, HearStale
<1>5. ASSUME NEW k \in Links, Connect(k) PROVE ClientTyped'
  <2>1. link' \in [Links -> LinkType]
    BY <1>5 DEF ClientTyped, Connect, LinkType
  <2> QED BY <1>5, <2>1 DEF ClientTyped, Connect
<1>6. ASSUME NEW k \in Links, StopListening(k) PROVE ClientTyped'
  <2>1. link' \in [Links -> LinkType]
    BY <1>6 DEF ClientTyped, StopListening, LinkType
  <2> QED BY <1>6, <2>1 DEF ClientTyped, StopListening
<1>7. ASSUME NEW k \in Links, Unpublish(k) PROVE ClientTyped'
  <2>1. link' \in [Links -> LinkType]
    <3>1. [link[k] EXCEPT !.phase = "leaving", !.open = FALSE, !.cut = FALSE] \in LinkType
      <4>1. link[k] \in LinkType
        BY DEF ClientTyped
      <4> QED BY <4>1 DEF LinkType
    <3>2. link' = [link EXCEPT ![k] = [@ EXCEPT !.phase = "leaving", !.open = FALSE, !.cut = FALSE]]
      BY <1>7 DEF ClientTyped, Unpublish
    <3> QED BY <3>1, <3>2 DEF ClientTyped
  <2>2. ws' \in Links \cup {NoLink}
    BY <1>7 DEF ClientTyped, Unpublish, Unpublished
  <2> QED BY <1>7, <2>1, <2>2 DEF ClientTyped, Unpublish
<1>8. ASSUME NEW f \in frames, HearAnswer(f) PROVE ClientTyped'
  <2>1. [link[f.on] EXCEPT !.open = link[f.on].gen = auth.gen /\ @] \in LinkType
    <3>1. f.on \in Links /\ link[f.on] \in LinkType
      BY <1>8 DEF ClientTyped, HearAnswer
    <3>2. (link[f.on].gen = auth.gen /\ link[f.on].open) \in BOOLEAN
      OBVIOUS
    <3> QED BY <3>1, <3>2, Zenon DEF LinkType
  <2>2. link' \in [Links -> LinkType]
    BY <1>8, <2>1, Zenon DEF ClientTyped, HearAnswer
  <2> QED BY <1>8, <2>2 DEF ClientTyped, HearAnswer
<1> QED BY <1>1, <1>2, <1>3, <1>4, <1>5, <1>6, <1>7, <1>8

\* The ends of an attempt
LEMMA LeavesTyped ==
  ASSUME ReplyAssumption, ClientTyped, NEW k \in Links, Dial(k) \/ DialFails(k) \/ Gone(k)
  PROVE  ClientTyped'
<1>1. ASSUME NEW phase \in {"over", "revoked"}, Leave(k, phase)
      PROVE  link' \in [Links -> LinkType]
  <2>1. Unused \in LinkType
    BY DEF Unused, LinkType, ReplyAssumption
  <2>2. [Unused EXCEPT !.phase = IF main.on = k THEN phase ELSE "none",
                     !.closing = link[k].closing] \in LinkType
    BY <2>1 DEF ClientTyped, LinkType
  <2> QED BY <1>1, <2>2 DEF Leave, ClientTyped
<1>2. CASE Dial(k)
  <2>1. link' \in [Links -> LinkType]
    <3>1. CASE link' = [link EXCEPT ![k].phase = "dialing", ![k].gen = auth.gen]
      <4>1. [link[k] EXCEPT !.phase = "dialing", !.gen = auth.gen] \in LinkType
        <5>1. link[k] \in LinkType /\ auth.gen \in 0 .. MaxRotations
          BY DEF ClientTyped
        <5> QED BY <5>1 DEF LinkType
      <4>2. link' = [link EXCEPT ![k] = [@ EXCEPT !.phase = "dialing", !.gen = auth.gen]]
        BY <3>1 DEF ClientTyped
      <4> QED BY <4>1, <4>2 DEF ClientTyped
    <3>2. ASSUME Leave(k, "revoked") PROVE link' \in [Links -> LinkType]
      BY <1>1, <3>2
    <3>3. ASSUME Leave(k, "over") PROVE link' \in [Links -> LinkType]
      BY <1>1, <3>3
    <3>4. \/ link' = [link EXCEPT ![k].phase = "dialing", ![k].gen = auth.gen]
          \/ Leave(k, "revoked")
          \/ Leave(k, "over")
      BY <1>2 DEF Dial
    <3> QED BY <3>1, <3>2, <3>3, <3>4
  <2> QED BY <1>2, <2>1 DEF ClientTyped, Dial
<1>3. CASE DialFails(k)
  BY <1>1, <1>3 DEF ClientTyped, DialFails
<1>4. CASE Gone(k)
  BY <1>1, <1>4 DEF ClientTyped, Gone
<1> QED BY <1>2, <1>3, <1>4

\* Every step of the connecting task keeps the client well-formed.
LEMMA MainTyped ==
  ASSUME ReplyAssumption, ClientTyped, MainStep
  PROVE  ClientTyped'
<1>1. CASE Iterate
  <2>1. CASE UNCHANGED link /\ main' = [at |-> "backoff", on |-> NoLink]
    BY <1>1, <2>1 DEF ClientTyped, Iterate
  <2>2. CASE \E k \in Links : /\ main' = [at |-> "racing", on |-> k]
                              /\ link' = [link EXCEPT ![k].phase = "starting"]
    <3>1. PICK k \in Links : /\ main' = [at |-> "racing", on |-> k]
                             /\ link' = [link EXCEPT ![k].phase = "starting"]
      BY <2>2
    <3>2. link' \in [Links -> LinkType]
      BY <3>1 DEF ClientTyped, LinkType
    <3> QED BY <1>1, <3>1, <3>2 DEF ClientTyped, Iterate
  <2>3. (CHOOSE k \in Links : Free(k)) \in Links \/ ~\E k \in Links : Free(k)
    OBVIOUS
  <2> QED BY <1>1, <2>1, <2>2, <2>3 DEF Iterate
<1>2. CASE AttemptEnds
  <2>1. link' \in [Links -> LinkType]
    BY <1>2 DEF ClientTyped, AttemptEnds, LinkType
  <2>2. \E at \in {"top", "backoff"} : main' = [at |-> at, on |-> NoLink]
    BY <1>2 DEF AttemptEnds
  <2>3. ws' \in Links \cup {NoLink}
    BY <1>2 DEF ClientTyped, AttemptEnds
  <2>4. /\ main' \in [at : {"top", "backoff", "racing", "revoking"}, on : Links \cup {NoLink}]
        /\ (main.at)' \notin {"racing", "revoking"}
    BY <2>2
  <2>5. UNCHANGED <<auth, wakeup, rotations, drops>>
    BY <1>2 DEF AttemptEnds
  <2> QED BY <2>1, <2>3, <2>4, <2>5 DEF ClientTyped
<1>3. CASE WakeRace
  <2>1. link' \in [Links -> LinkType]
    <3>1. main.on \in Links /\ link[main.on] \in LinkType
      BY <1>3 DEF ClientTyped, WakeRace
    <3>2. [link[main.on] EXCEPT !.cut = TRUE] \in LinkType
      BY <3>1 DEF LinkType
    <3> QED BY <1>3, <3>1, <3>2 DEF ClientTyped, WakeRace
  <2>2. main' \in [at : {"top", "backoff", "racing", "revoking"}, on : Links]
    BY <1>3 DEF ClientTyped, WakeRace
  <2> QED BY <1>3, <2>1, <2>2 DEF ClientTyped, WakeRace
<1>4. CASE MoveOn
  <2>1. link' \in [Links -> LinkType]
    <3>1. [link[main.on] EXCEPT !.phase = IF @ \in {"over", "revoked"} THEN "none" ELSE @] \in LinkType
      BY <1>4 DEF ClientTyped, MoveOn, LinkType
    <3> QED BY <1>4, <3>1 DEF ClientTyped, MoveOn
  <2> QED BY <1>4, <2>1 DEF ClientTyped, MoveOn
<1>5. CASE Retry
  BY <1>5 DEF ClientTyped, Retry
<1> QED BY <1>1, <1>2, <1>3, <1>4, <1>5 DEF MainStep
-----------------------------------------------------------------------------
(* From one sender to all of them *)

\* A step of the connections alone changes nothing a sender was told.
LEMMA ToldStays ==
  ASSUME Told, UNCHANGED <<call, frames, ran, receipt>>
  PROVE  Told'
<1>1. Shaped'
  BY DEF Told, Shaped
<1>2. \A s \in Senders : RequestsOf(s)' = RequestsOf(s)
  BY DEF RequestsOf
<1> QED BY <1>1, <1>2 DEF Told

\* One sender moves, from places b that are sound.
LEMMA OneMoves ==
  ASSUME Told, NEW s \in Senders, NEW b, b = [u \in Senders |-> b[u]],
         \A u \in Senders : Sound(u, b[u], receipt[u], ran[u], RequestsOf(u)),
         NEW c, NEW r, call' = [b EXCEPT ![s] = c], receipt' = [receipt EXCEPT ![s] = r],
         ran' = ran, NEW F, F = frames',
         \A f \in F : f.by \in Senders,
         \A f \in F \cup frames : f.by # s => (f \in F <=> f \in frames),
         NEW G, G = {f \in F : f.by = s}, Sound(s, c, r, ran[s], G)
  PROVE  Told'
<1>1. Shaped'
  <2>1. call' = [u \in Senders |-> call'[u]]
    OBVIOUS
  <2>2. receipt' = [u \in Senders |-> receipt'[u]]
    BY DEF Told, Shaped
  <2> QED BY <2>1, <2>2 DEF Told, Shaped
<1>2. ASSUME NEW u \in Senders
      PROVE  Sound(u, call[u], receipt[u], ran[u], RequestsOf(u))'
  <2>1. CASE u = s
    <3>1. call'[u] = c /\ receipt'[u] = r /\ RequestsOf(u)' = G
      BY <2>1 DEF RequestsOf, Told, Shaped
    <3> QED BY <2>1, <3>1
  <2>2. CASE u # s
    <3>1. call'[u] = b[u] /\ receipt'[u] = receipt[u]
      BY <2>2 DEF Told, Shaped
    <3>2. RequestsOf(u)' = RequestsOf(u)
      BY <2>2 DEF RequestsOf
    <3> QED BY <3>1, <3>2
  <2> QED BY <2>1, <2>2
<1> QED BY <1>1, <1>2 DEF Told

\* The same where its place is all that changes of the others' too.
LEMMA SenderMoves ==
  ASSUME Told, NEW s \in Senders,
         NEW c, NEW r, call' = [call EXCEPT ![s] = c], receipt' = [receipt EXCEPT ![s] = r],
         ran' = ran, NEW F, F = frames',
         \A f \in F : f.by \in Senders,
         \A f \in F \cup frames : f.by # s => (f \in F <=> f \in frames),
         NEW G, G = {f \in F : f.by = s}, Sound(s, c, r, ran[s], G)
  PROVE  Told'
<1>1. call = [u \in Senders |-> call[u]]
  BY DEF Told, Shaped
<1>2. \A u \in Senders : Sound(u, call[u], receipt[u], ran[u], RequestsOf(u))
  BY DEF Told
<1> QED BY <1>1, <1>2, OneMoves

\* Requests of one sender with one more, or one less
LEMMA OthersFrames ==
  ASSUME Shaped, NEW s \in Senders, NEW f, f.by = s, NEW F \in {frames \cup {f}, frames \ {f}}
  PROVE  /\ \A g \in F : g.by \in Senders
         /\ \A g \in F \cup frames : g.by # s => (g \in F <=> g \in frames)
         /\ F = frames \cup {f} => {g \in F : g.by = s} = RequestsOf(s) \cup {f}
         /\ F = frames \ {f} => {g \in F : g.by = s} = RequestsOf(s) \ {f}
BY DEF Shaped, RequestsOf

\* Failing the requests pending on a connection leaves each sender sound.
LEMMA FailedSound ==
  ASSUME ReplyAssumption, Told, NEW g, NEW except, NEW b, b = Failed(call, g, except)
  PROVE  /\ b = [u \in Senders |-> b[u]]
         /\ \A u \in Senders : Sound(u, b[u], receipt[u], ran[u], RequestsOf(u))
         /\ except \in Senders => b[except] = call[except]
<1>1. b = [u \in Senders |-> b[u]]
  BY DEF Failed
<1>2. ASSUME NEW u \in Senders
      PROVE  Sound(u, b[u], receipt[u], ran[u], RequestsOf(u))
  <2>1. Sound(u, call[u], receipt[u], ran[u], RequestsOf(u)) /\ Pieces[u] \in Nat
    BY DEF Told, ReplyAssumption
  <2>2. b[u] = call[u] \/ (b[u] = [call[u] EXCEPT !.answer = "failed"] /\ call[u].answer = "none")
    BY DEF Failed
  <2> QED BY <2>1, <2>2, Failing
<1>3. except \in Senders => b[except] = call[except]
  BY DEF Failed
<1> QED BY <1>1, <1>2, <1>3

\* ... in a step that does nothing else to the senders.
LEMMA FailedTold ==
  ASSUME ReplyAssumption, Told, NEW g, NEW except,
         call' = Failed(call, g, except), UNCHANGED <<frames, ran, receipt>>
  PROVE  Told'
<1>1. Shaped'
  BY FailedSound DEF Told, Shaped
<1>2. \A u \in Senders : RequestsOf(u)' = RequestsOf(u)
  BY DEF RequestsOf
<1> QED BY <1>1, <1>2, FailedSound DEF Told

\* A connection that goes may lose requests, which were not all carried out.
LEMMA LeaveTold ==
  ASSUME ReplyAssumption, Told, NEW k, NEW phase, Leave(k, phase), UNCHANGED <<call, receipt>>
  PROVE  Told'
<1>1. PICK arrived \in SUBSET {f \in frames : f.on = k /\ f.state = "out"} :
        ran' = [s \in Senders |-> [i \in 1 .. Pieces[s] |->
                  ran[s][i] + Cardinality({f \in arrived : f.by = s /\ f.piece = i})]]
  BY DEF Leave
<1>2. frames' = {f \in frames : f.on # k}
  BY DEF Leave
<1>3. Shaped'
  BY <1>1, <1>2 DEF Told, Shaped
<1>4. ASSUME NEW s \in Senders
      PROVE  Sound(s, call[s], receipt[s], ran[s], RequestsOf(s))'
  <2> DEFINE A == {f \in arrived : f.by = s}
             G == {f \in RequestsOf(s) : f.on # k}
             m == ran'[s]
  <2>1. m = [i \in 1 .. Pieces[s] |-> ran[s][i] + Cardinality({f \in A : f.piece = i})]
    <3>1. \A i : {f \in arrived : f.by = s /\ f.piece = i} = {f \in A : f.piece = i}
      OBVIOUS
    <3> QED BY <1>1, <3>1
  <2>2. G \subseteq RequestsOf(s) /\ A \subseteq RequestsOf(s) \ G /\ \A f \in A : f.state = "out"
    BY DEF RequestsOf
  <2>3. Sound(s, call[s], receipt[s], ran[s], RequestsOf(s)) /\ Pieces[s] \in Nat
    BY DEF Told, ReplyAssumption
  <2>4. RequestsOf(s)' = G
    BY <1>2 DEF RequestsOf
  <2> HIDE DEF A, G, m
  <2>5. Sound(s, call[s], receipt[s], m, G)
    BY <2>1, <2>2, <2>3, Arriving
  <2> QED BY <2>4, <2>5 DEF m
<1> QED BY <1>3, <1>4 DEF Told
\* An answer read from a connection settles the request it belongs to only.
LEMMA HearAnswerTold ==
  ASSUME ReplyAssumption, Told, NEW f \in frames, HearAnswer(f)
  PROVE  Told'
<1> DEFINE s == f.by
           G == RequestsOf(s) \ {f}
<1>1. /\ s \in Senders /\ f \in RequestsOf(s) /\ Pieces[s] \in Nat
      /\ Sound(s, call[s], receipt[s], ran[s], RequestsOf(s))
  BY DEF Told, Shaped, RequestsOf, ReplyAssumption
<1>2. /\ frames' = frames \ {f} /\ UNCHANGED <<receipt, ran>> /\ f.state # "out"
  BY DEF HearAnswer
<1>3. /\ \A g \in frames' : g.by \in Senders
      /\ \A g \in frames' \cup frames : g.by # s => (g \in frames' <=> g \in frames)
      /\ {g \in frames' : g.by = s} = G
  BY <1>1, <1>2 DEF Told, Shaped, RequestsOf
<1>4. receipt' = [receipt EXCEPT ![s] = receipt[s]]
  BY <1>1, <1>2 DEF Told, Shaped
<1> DEFINE F == frames'
<1>5. CASE Accepts(f)
  <2> DEFINE c == [call[s] EXCEPT !.answer = f.state]
  <2>1. call' = [call EXCEPT ![s] = c]
    BY <1>5 DEF HearAnswer
  <2>2. /\ call[s].at \in {"writing", "waiting"} /\ call[s].answer = "none"
        /\ f.piece = call[s].piece /\ f.try = call[s].try
    BY <1>5 DEF Accepts, InFlight
  <2>3. Sound(s, c, receipt[s], ran[s], G)
    BY <1>1, <1>2, <2>2, Hearing
  <2> HIDE DEF s, G, c
  <2> QED BY <1>1, <1>2, <1>3, <1>4, <2>1, <2>3, SenderMoves
<1>6. CASE ~Accepts(f)
  <2>1. call' = [call EXCEPT ![s] = call[s]]
    BY <1>1, <1>6 DEF HearAnswer, Told, Shaped
  <2>2. Sound(s, call[s], receipt[s], ran[s], G)
    BY <1>1, Forgotten
  <2> HIDE DEF s, G
  <2> QED BY <1>1, <1>2, <1>3, <1>4, <2>1, <2>2, SenderMoves
<1> QED BY <1>5, <1>6

\* The other side carries a request out, which was on its way once.
LEMMA ExecuteTold ==
  ASSUME ReplyAssumption, Told, NEW f \in frames, Execute(f)
  PROVE  Told'
<1> DEFINE s == f.by
<1>1. /\ s \in Senders /\ f \in RequestsOf(s) /\ Pieces[s] \in Nat /\ f.state = "out"
      /\ Sound(s, call[s], receipt[s], ran[s], RequestsOf(s)) /\ UNCHANGED <<call, receipt>>
  BY DEF Told, Shaped, RequestsOf, ReplyAssumption, Execute
<1>2. PICK state \in {"done", "refused"} :
        /\ frames' = (frames \ {f}) \cup {[f EXCEPT !.state = state]}
        /\ state = "done" => ran' = [ran EXCEPT ![s][f.piece] = @ + 1]
        /\ state = "refused" => ran' = ran
  BY DEF Execute
<1> DEFINE g == [f EXCEPT !.state = state]
<1>3. g.by = s
  <2>1. f \in RequestType(s)
    BY <1>1 DEF Sound, RequestsSound
  <2> QED BY <2>1 DEF RequestType
<1> HIDE DEF g
<1>4. \A u \in Senders : u # s => RequestsOf(u)' = RequestsOf(u)
  BY <1>2, <1>3 DEF RequestsOf, g
<1>5. RequestsOf(s)' = (RequestsOf(s) \ {f}) \cup {g}
  BY <1>2, <1>3 DEF RequestsOf, g
<1>6. Shaped'
  BY <1>1, <1>2, <1>3 DEF Told, Shaped, g
<1>7. \A u \in Senders : u # s => ran'[u] = ran[u]
  BY <1>2 DEF Told, Shaped
<1>8. Sound(s, call[s], receipt[s], ran'[s], RequestsOf(s)')
  <2>1. CASE state = "done"
    <3>1. ran'[s] = [ran[s] EXCEPT ![f.piece] = @ + 1]
      BY <1>1, <1>2, <2>1 DEF Told, Shaped
    <3>2. Sound(s, call[s], receipt[s], [ran[s] EXCEPT ![f.piece] = @ + 1],
                (RequestsOf(s) \ {f}) \cup {[f EXCEPT !.state = "done"]})
      BY <1>1, Executing
    <3> QED BY <1>5, <2>1, <3>1, <3>2 DEF g
  <2>2. CASE state = "refused"
    <3>1. Sound(s, call[s], receipt[s], ran[s],
                (RequestsOf(s) \ {f}) \cup {[f EXCEPT !.state = "refused"]})
      BY <1>1, Refusing
    <3> QED BY <1>2, <1>5, <2>2, <3>1 DEF g
  <2> QED BY <1>2, <2>1, <2>2
<1>9. ASSUME NEW u \in Senders
      PROVE  Sound(u, call[u], receipt[u], ran[u], RequestsOf(u))'
  <2>1. Sound(u, call[u], receipt[u], ran'[u], RequestsOf(u)')
    BY <1>4, <1>7, <1>8 DEF Told
  <2> QED BY <1>1, <2>1
<1> QED BY <1>6, <1>9 DEF Told

-----------------------------------------------------------------------------
(* The senders *)

\* A sender that is between two ways is a well-formed one.
LEMMA RestingType == ASSUME ReplyAssumption PROVE Resting \in CallType
BY DEF ReplyAssumption, Resting, CallType

\* What is recorded in the receipt is what Settled says of one sender.
LEMMA RecordedSettles ==
  ASSUME NEW s \in Senders, NEW verdict, NEW cause, NEW piece
  PROVE  Recorded(s, verdict, cause, piece) = Settled(s, receipt[s], verdict, cause, piece)
BY SMTT(30) DEF Recorded, Settled

\* A piece p of a sender, from what it knows when it ends
LEMMA FinishTold ==
  ASSUME ReplyAssumption, Told, NEW s \in Senders, NEW p \in 1 .. Pieces[s],
         NEW b, b = [u \in Senders |-> b[u]], b[s] = call[s],
         \A u \in Senders : Sound(u, b[u], receipt[u], ran[u], RequestsOf(u)),
         call[s].at # "over",
         p = IF call[s].at = "between" THEN call[s].piece + 1 ELSE call[s].piece,
         NEW verdict \in {"done", "refused", "unknown"},
         verdict = "done" => ran[s][p] = 1,
         verdict = "refused" => Fresh(p, ran[s], RequestsOf(s)),
         call' = Finished(b, s, p, verdict), Record(s, p, verdict), ran' = ran,
         NEW F, F = frames', F \subseteq frames, \A f \in frames \ F : f.by = s
  PROVE  Told'
<1> DEFINE c == call[s]
           d == [Resting EXCEPT !.at = IF p < Pieces[s] THEN "between" ELSE "over",
                                !.piece = p, !.any = c.any \/ verdict = "done"]
           r == Settled(s, receipt[s], verdict, "result", p)
           G == {f \in F : f.by = s}
<1>1. /\ Sound(s, c, receipt[s], ran[s], RequestsOf(s))
      /\ Pieces[s] \in Nat /\ MaxTries \in Nat /\ p \in PieceNumbers
  BY DEF Told, ReplyAssumption, PieceNumbers
<1>2. c.any \in BOOLEAN
  BY <1>1 DEF Sound, CallSound, CallType
<1>3. /\ d \in CallType /\ d.at = (IF p < Pieces[s] THEN "between" ELSE "over") /\ d.piece = p
      /\ d.any = (c.any \/ verdict = "done") /\ d.try = 0 /\ d.rank = 0
  <2> DEFINE any == c.any \/ verdict = "done"
             at == IF p < Pieces[s] THEN "between" ELSE "over"
  <2>1. any \in BOOLEAN /\ at \in {"between", "over"}
    OBVIOUS
  <2>2. d = [Resting EXCEPT !.at = at, !.piece = p, !.any = any]
    OBVIOUS
  <2> HIDE DEF any, at, d
  <2>3. d = [at |-> at, piece |-> p, try |-> 0, rank |-> 0, on |-> NoLink, gen |-> 0,
             out |-> FALSE, answer |-> "none", any |-> any]
    BY <2>2 DEF Resting
  <2>4. d \in CallType
    BY <1>1, <2>1, <2>3 DEF CallType, ReplyAssumption
  <2> QED BY <2>3, <2>4 DEF any, at
<1>4. call' = [b EXCEPT ![s] = d] /\ receipt' = [receipt EXCEPT ![s] = r]
  <2>1. call' = [b EXCEPT ![s] = d]
    BY DEF Finished
  <2>2. receipt' = [receipt EXCEPT ![s] = Recorded(s, verdict, "result", p)]
    BY DEF Record
  <2> HIDE DEF d
  <2>3. Recorded(s, verdict, "result", p) = r
    BY RecordedSettles
  <2> HIDE DEF r
  <2> QED BY <2>1, <2>2, <2>3
<1>5. c.at = "idle" => RequestsOf(s) = {}
  BY <1>1 DEF Sound, RequestsFollow
<1>6. Sound(s, d, r, ran[s], RequestsOf(s))
  <2> HIDE DEF c, d, r
  <2>1. Sound(s, d, Settled(s, receipt[s], verdict, "result", p), ran[s], RequestsOf(s))
    BY <1>1, <1>3, <1>5, Finishing DEF c
  <2> QED BY <2>1 DEF r
<1>7. G \subseteq RequestsOf(s)
  BY DEF RequestsOf
<1>8. Sound(s, d, r, ran[s], G)
  BY <1>6, <1>7, Forgotten
<1>9. /\ \A f \in F : f.by \in Senders
      /\ \A f \in F \cup frames : f.by # s => (f \in F <=> f \in frames)
  BY DEF Told, Shaped
<1> HIDE DEF d, r
<1> QED BY <1>4, <1>8, <1>9, OneMoves
\* The place of a sender at its next way
LEMMA OnType ==
  ASSUME ReplyAssumption, ClientTyped, Told, NEW s \in Senders,
         NEW at \in {"writing", "outside"}, NEW rank \in 1 .. 4, NEW way \in Ways,
         NEW p \in 1 .. Pieces[s], call[s].try + 1 <= MaxTries + rank
  PROVE  \E d \in CallType :
           /\ On(s, at, rank, way, p) = [call EXCEPT ![s] = d]
           /\ d.at = at /\ d.piece = p /\ d.any = call[s].any /\ ~d.out
           /\ d.answer = "none" /\ d.rank = rank /\ d.on = way /\ d.try = call[s].try + 1
<1> DEFINE c == call[s]
           gen == IF way \in Links THEN auth.gen ELSE 0
           d == [Resting EXCEPT !.at = at, !.piece = p, !.rank = rank, !.on = way,
                                !.any = c.any, !.try = c.try + 1, !.gen = gen]
<1>1. /\ c \in CallType /\ c.any \in BOOLEAN /\ c.try \in Nat
      /\ MaxTries \in Nat /\ MaxRotations \in Nat /\ p \in PieceNumbers
  BY DEF Told, Sound, CallSound, CallType, ReplyAssumption, PieceNumbers
<1>2. gen \in 0 .. MaxRotations /\ c.try + 1 \in 0 .. MaxTries + 4
  BY <1>1 DEF ClientTyped
<1>3. On(s, at, rank, way, p) = [call EXCEPT ![s] = d]
  BY DEF On
<1> DEFINE any == c.any
           try == c.try + 1
<1>4. d = [Resting EXCEPT !.at = at, !.piece = p, !.rank = rank, !.on = way,
                          !.any = any, !.try = try, !.gen = gen]
  OBVIOUS
<1>5. any \in BOOLEAN /\ try \in 0 .. MaxTries + 4
  BY <1>1, <1>2
<1> HIDE DEF d, gen, any, try
<1>6. d = [at |-> at, piece |-> p, try |-> try, rank |-> rank, on |-> way, gen |-> gen,
           out |-> FALSE, answer |-> "none", any |-> any]
  BY <1>4 DEF Resting
<1>7. d \in CallType
  BY <1>1, <1>2, <1>5, <1>6 DEF CallType
<1> QED BY <1>3, <1>6, <1>7 DEF any, try

\* A way that is claimed for a piece was not used for it before.
LEMMA ClaimTold ==
  ASSUME ReplyAssumption, ClientTyped, Told, NEW s \in Senders, NEW rank \in 1 .. 4, NEW p,
         Due(s, call[s], ran[s], RequestsOf(s), p), call[s].try < MaxTries,
         Claim(s, rank, p), ran' = ran
  PROVE  Told'
<1> DEFINE c == call[s]
<1>1. /\ Sound(s, c, receipt[s], ran[s], RequestsOf(s)) /\ Pieces[s] \in Nat
      /\ c.try \in Nat /\ MaxTries \in Nat /\ p \in 1 .. Pieces[s]
  BY DEF Told, ReplyAssumption, Sound, CallSound, CallType, Due
<1>2. /\ ws \in Links /\ frames' = frames
      /\ call' = On(s, "writing", rank, ws, p) /\ receipt' = [receipt EXCEPT ![s] = receipt[s]]
  BY DEF Claim, Usable, ClientTyped, Told, Shaped
<1>3. PICK d \in CallType :
        /\ call' = [call EXCEPT ![s] = d]
        /\ d.at = "writing" /\ d.piece = p /\ d.any = c.any /\ ~d.out
        /\ d.answer = "none" /\ d.rank = rank /\ d.on = ws /\ d.try = c.try + 1
  <2>1. ws \in Ways /\ c.try + 1 <= MaxTries + rank
    BY <1>1, <1>2 DEF Ways
  <2> QED BY <1>1, <1>2, <2>1, OnType
<1>4. d.try <= MaxTries + d.rank
  BY <1>1, <1>3
<1>5. Sound(s, d, receipt[s], ran[s], RequestsOf(s))
  <2> HIDE DEF c
  <2> QED BY <1>1, <1>2, <1>3, <1>4, Turning DEF c
<1>6. {f \in frames : f.by = s} = RequestsOf(s) /\ \A f \in frames : f.by \in Senders
  BY DEF RequestsOf, Told, Shaped
<1> QED BY <1>2, <1>3, <1>5, <1>6, SenderMoves

\* A request handed to another way than the connection.
LEMMA OutwardsTold ==
  ASSUME ReplyAssumption, ClientTyped, Told, NEW s \in Senders, NEW rank \in 1 .. 4,
         NEW way \in Ways, NEW p,
         Due(s, call[s], ran[s], RequestsOf(s), p), call[s].try + 1 <= MaxTries + rank,
         Outwards(s, rank, way, p), ran' = ran
  PROVE  Told'
<1> DEFINE c == call[s]
<1>1. /\ Sound(s, c, receipt[s], ran[s], RequestsOf(s)) /\ Pieces[s] \in Nat
      /\ p \in 1 .. Pieces[s]
  BY DEF Told, ReplyAssumption, Due
<1>2. PICK d \in CallType :
        /\ call' = [call EXCEPT ![s] = d]
        /\ d.at = "outside" /\ d.piece = p /\ d.any = c.any
        /\ d.rank = rank /\ d.on = way /\ d.try = c.try + 1
  BY <1>1, OnType DEF Outwards
<1> DEFINE f == Request(s, d.on, p, d.try)
           F == frames \cup {f}
<1>3. receipt' = [receipt EXCEPT ![s] = receipt[s]] /\ frames' = F /\ f.by = s
  <2>1. call'[s] = d
    BY <1>2 DEF Told, Shaped
  <2> QED BY <1>2, <2>1 DEF Outwards, Told, Shaped, Request
<1>4. d.try <= MaxTries + d.rank /\ d.on \in Ways
  BY <1>2
<1>5. Sound(s, d, receipt[s], ran[s], RequestsOf(s) \cup {f})
  <2> HIDE DEF c
  <2> QED BY <1>1, <1>2, <1>4, Posting DEF c
<1> HIDE DEF f
<1>6. /\ \A g \in F : g.by \in Senders
      /\ \A g \in F \cup frames : g.by # s => (g \in F <=> g \in frames)
      /\ {g \in F : g.by = s} = RequestsOf(s) \cup {f}
  BY <1>3 DEF Told, Shaped, RequestsOf
<1> HIDE DEF F
<1> QED BY <1>2, <1>3, <1>5, <1>6, SenderMoves

\* A reply that waits for a reconnection has no request in flight.
LEMMA PausingTold ==
  ASSUME ReplyAssumption, Told, NEW s \in Senders, NEW p,
         Due(s, call[s], ran[s], RequestsOf(s), p), call[s].rank <= 3,
         call' = [call EXCEPT ![s] = [Resting EXCEPT
           !.at = "pausing", !.piece = p, !.rank = 3, !.try = call[s].try, !.any = call[s].any]],
         UNCHANGED <<frames, receipt, ran>>
  PROVE  Told'
<1> DEFINE c == call[s]
           any == c.any
           try == c.try
           d == [Resting EXCEPT !.at = "pausing", !.piece = p, !.rank = 3, !.try = try, !.any = any]
<1>1. /\ Sound(s, c, receipt[s], ran[s], RequestsOf(s)) /\ Pieces[s] \in Nat
      /\ any \in BOOLEAN /\ try \in 0 .. MaxTries + 4 /\ p \in 1 .. Pieces[s] /\ p \in PieceNumbers
      /\ MaxTries \in Nat
  BY SMTT(30) DEF Told, ReplyAssumption, Sound, CallSound, CallType, Due, PieceNumbers
<1>2. try <= MaxTries + 3
  BY SMTT(30), <1>1 DEF Sound, CallSound, CallType
<1>3. call' = [call EXCEPT ![s] = d] /\ receipt' = [receipt EXCEPT ![s] = receipt[s]]
  BY DEF Told, Shaped
<1>9. d = [Resting EXCEPT !.at = "pausing", !.piece = p, !.rank = 3, !.try = try, !.any = any]
  OBVIOUS
<1> HIDE DEF d, any, try
<1>4. d = [at |-> "pausing", piece |-> p, try |-> try, rank |-> 3, on |-> NoLink, gen |-> 0,
           out |-> FALSE, answer |-> "none", any |-> any]
  BY <1>9 DEF Resting
<1>5. d \in CallType
  BY <1>1, <1>4 DEF CallType, ReplyAssumption
<1>6. /\ d.at = "pausing" /\ d.piece = p /\ d.any = c.any /\ ~d.out /\ d.answer = "none"
      /\ d.rank = 3 /\ d.try = c.try /\ d.try <= MaxTries + d.rank
  BY <1>2, <1>4 DEF any, try
<1>7. Sound(s, d, receipt[s], ran[s], RequestsOf(s))
  <2> HIDE DEF c
  <2> QED BY <1>1, <1>5, <1>6, Turning DEF c
<1>8. {f \in frames : f.by = s} = RequestsOf(s) /\ \A f \in frames : f.by \in Senders
  BY DEF RequestsOf, Told, Shaped
<1> QED BY <1>3, <1>7, <1>8, SenderMoves

\* Down the list of ways, or to the end of the piece
LEMMA DownTold ==
  ASSUME ReplyAssumption, ClientTyped, Told, NEW s \in Senders, NEW from \in 0 .. 4, NEW p,
         Due(s, call[s], ran[s], RequestsOf(s), p), call[s].rank <= from,
         Down(s, from, p), ran' = ran
  PROVE  Told'
<1>1. PICK rank \in (from + 1) .. 5 : SendBy(s, rank, p)
  BY DEF Down
<1>2. /\ call[s].try \in Nat /\ MaxTries \in Nat /\ call[s].rank \in Nat
      /\ call[s].try + 1 <= MaxTries + rank /\ rank \in 1 .. 5
  <2>1. /\ call[s].try \in Nat /\ MaxTries \in Nat /\ call[s].rank \in Nat
        /\ call[s].try <= MaxTries + call[s].rank
    BY SMTT(30) DEF Told, Sound, CallSound, CallType, ReplyAssumption
  <2> QED BY <2>1
<1>3. CASE rank \in {1, 3} /\ call[s].try < MaxTries /\ Claim(s, rank, p)
  BY <1>3, ClaimTold
<1>4. CASE rank = 2 /\ "entrance" \in Outside /\ Outwards(s, rank, "entrance", p)
  BY <1>2, <1>4, OutwardsTold DEF Ways
<1>5. CASE rank = 4 /\ Outwards(s, rank, "http", p)
  <2>1. "http" \in Ways /\ rank \in 1 .. 4 /\ call[s].try + 1 <= MaxTries + rank
    BY <1>2, <1>5 DEF Ways
  <2> QED BY <1>5, <2>1, OutwardsTold
<1>6. CASE /\ rank = 3
           /\ call' = [call EXCEPT ![s] = [Resting EXCEPT
                !.at = "pausing", !.piece = p, !.rank = 3,
                !.try = call[s].try, !.any = call[s].any]]
           /\ UNCHANGED <<frames, receipt>>
  <2>1. call[s].rank <= 3
    BY <1>1, <1>2, <1>6
  <2> QED BY <1>6, <2>1, PausingTold
<1>7. CASE rank = 5 /\ Finish(s, p, "refused") /\ UNCHANGED frames
  <2>1. /\ call = [u \in Senders |-> call[u]]
        /\ \A u \in Senders : Sound(u, call[u], receipt[u], ran[u], RequestsOf(u))
    BY DEF Told, Shaped
  <2>2. /\ p \in 1 .. Pieces[s] /\ call[s].at # "over" /\ Fresh(p, ran[s], RequestsOf(s))
        /\ p = IF call[s].at = "between" THEN call[s].piece + 1 ELSE call[s].piece
    BY DEF Due
  <2> QED BY <1>7, <2>1, <2>2, FinishTold DEF Finish
<1> QED BY <1>1, <1>3, <1>4, <1>5, <1>6, <1>7 DEF SendBy
\* The first piece, or the next one, of a reply goes to its first way.
LEMMA StartTold ==
  ASSUME ReplyAssumption, ClientTyped, Told, NEW s \in Senders, Start(s) \/ NextPiece(s)
  PROVE  Told'
<1> DEFINE c == call[s]
           p == IF c.at = "between" THEN c.piece + 1 ELSE c.piece
<1>1. Sound(s, c, receipt[s], ran[s], RequestsOf(s)) /\ Pieces[s] \in Nat \ {0}
  BY DEF Told, ReplyAssumption
<1>2. c.at \in {"idle", "between"} /\ Down(s, 0, p) /\ ran' = ran
  BY <1>1 DEF Start, NextPiece, Sound, CallSound
<1>3. /\ c.piece \in Nat /\ p \in 1 .. Pieces[s] /\ c.rank = 0
      /\ \A f \in RequestsOf(s) : f.piece \in Nat /\ f.piece # p
  BY <1>1, <1>2 DEF Sound, CallSound, RequestsSound, RequestsFollow, RequestType
<1>4. Fresh(p, ran[s], RequestsOf(s))
  BY <1>1, <1>2, <1>3 DEF Sound, AnswersTrue
<1>5. Due(s, c, ran[s], RequestsOf(s), p)
  BY <1>2, <1>3, <1>4 DEF Due
<1> HIDE DEF p
<1> QED BY <1>2, <1>3, <1>5, DownTold

\* A way refused the piece, or there was none to ask yet
LEMMA RefusedTold ==
  ASSUME ReplyAssumption, ClientTyped, Told, NEW s \in Senders, ran' = ran,
         NEW from \in 0 .. 4, call[s].rank <= from, Down(s, from, call[s].piece),
         \/ call[s].at = "pausing"
         \/ call[s].at = "waiting" /\ call[s].answer = "refused"
         \/ /\ call[s].at = "outside"
            /\ \E f \in frames : /\ f.by = s /\ f.piece = call[s].piece /\ f.try = call[s].try
                                 /\ f.state = "refused"
  PROVE  Told'
<1> DEFINE c == call[s]
<1>1. /\ Sound(s, c, receipt[s], ran[s], RequestsOf(s)) /\ Busy(c)
      /\ c.piece \in 1 .. Pieces[s] /\ c.at # "over" /\ c.at # "between"
  BY DEF Told, Busy, Sound, CallSound
<1>2. \A f \in RequestsOf(s) : f.piece = c.piece => f.try <= c.try
  BY <1>1 DEF Sound, RequestsFollow
<1>3. Fresh(c.piece, ran[s], RequestsOf(s))
  <2>1. CASE c.at = "outside"
    <3>1. PICK f \in RequestsOf(s) : f.piece = c.piece /\ f.try = c.try /\ f.state = "refused"
      BY <2>1 DEF RequestsOf
    <3>2. ran[s][c.piece] = 0
      BY <1>1, <3>1 DEF Sound, RequestsFollow
    <3>3. ASSUME NEW g \in RequestsOf(s), g.piece = c.piece, g.state # "refused" PROVE FALSE
      <4>1. g.try = c.try
        BY <1>1, <3>3 DEF Sound, RequestsFollow
      <4>2. f = g
        BY <1>1, <3>1, <3>3, <4>1 DEF Sound, RequestsSound
      <4> QED BY <3>1, <3>3, <4>2
    <3> QED BY <3>2, <3>3 DEF Fresh
  <2>2. CASE c.at # "outside"
    BY <1>1, <2>2 DEF Sound, AnswersTrue
  <2> QED BY <2>1, <2>2
<1>4. Due(s, c, ran[s], RequestsOf(s), c.piece)
  BY <1>1, <1>2, <1>3 DEF Due
<1> QED BY <1>4, DownTold

\* Writing a frame, and waiting after it was written.
LEMMA WritingTold ==
  ASSUME ReplyAssumption, Told, NEW s \in Senders, WriteOut(s) \/ Written(s)
  PROVE  Told'
<1> DEFINE c == call[s]
<1>1. Sound(s, c, receipt[s], ran[s], RequestsOf(s)) /\ Pieces[s] \in Nat
  BY DEF Told, ReplyAssumption
<1>2. receipt' = [receipt EXCEPT ![s] = receipt[s]] /\ ran' = ran
  BY DEF WriteOut, Written, Told, Shaped
<1>3. CASE WriteOut(s)
  <2> DEFINE f == Request(s, c.on, c.piece, c.try)
             F == frames \cup {f}
             d == [c EXCEPT !.out = TRUE]
  <2>1. call' = [call EXCEPT ![s] = d] /\ frames' = F /\ f.by = s
    BY <1>3 DEF WriteOut, Request
  <2>2. Sound(s, d, receipt[s], ran[s], RequestsOf(s) \cup {f})
    BY <1>1, <1>3, Writing DEF WriteOut
  <2> HIDE DEF f, d
  <2>3. /\ \A g \in F : g.by \in Senders
        /\ \A g \in F \cup frames : g.by # s => (g \in F <=> g \in frames)
        /\ {g \in F : g.by = s} = RequestsOf(s) \cup {f}
    BY <2>1 DEF Told, Shaped, RequestsOf
  <2> HIDE DEF F
  <2> QED BY <1>2, <2>1, <2>2, <2>3, SenderMoves
<1>4. CASE Written(s)
  <2> DEFINE d == [c EXCEPT !.at = "waiting"]
  <2>1. call' = [call EXCEPT ![s] = d] /\ frames' = frames
    BY <1>4 DEF Written
  <2>2. Sound(s, d, receipt[s], ran[s], RequestsOf(s))
    BY <1>1, <1>4, Waiting DEF Written
  <2>3. {f \in frames : f.by = s} = RequestsOf(s) /\ \A f \in frames : f.by \in Senders
    BY DEF RequestsOf, Told, Shaped
  <2> HIDE DEF d
  <2> QED BY <1>2, <2>1, <2>2, <2>3, SenderMoves
<1> QED BY <1>3, <1>4

\* Ends of a piece: nobody knows what became of it, or its answer is there
LEMMA EndTold ==
  ASSUME ReplyAssumption, ClientTyped, Told, NEW s \in Senders,
         \/ Broken(s) \/ TimesOut(s)
         \/ call[s].answer = "done" /\ Answered(s)
  PROVE  Told'
<1> DEFINE c == call[s]
<1>1. /\ Sound(s, c, receipt[s], ran[s], RequestsOf(s)) /\ c.piece \in 1 .. Pieces[s]
      /\ call = [u \in Senders |-> call[u]]
      /\ \A u \in Senders : Sound(u, call[u], receipt[u], ran[u], RequestsOf(u))
  BY DEF Told, Sound, CallSound, Shaped
<1>2. CASE Broken(s)
  <2> DEFINE b == Failed(call, c.gen, s)
  <2>1. /\ b = [u \in Senders |-> b[u]] /\ b[s] = call[s]
        /\ \A u \in Senders : Sound(u, b[u], receipt[u], ran[u], RequestsOf(u))
    BY FailedSound
  <2>2. /\ call' = Finished(b, s, c.piece, "unknown") /\ Record(s, c.piece, "unknown")
        /\ ran' = ran /\ frames' = frames /\ c.at \in {"writing", "waiting"}
    BY <1>2 DEF Broken
  <2> HIDE DEF b
  <2> QED BY <1>1, <2>1, <2>2, FinishTold
<1>3. CASE TimesOut(s)
  BY <1>1, <1>3, FinishTold DEF TimesOut, Finish
<1>4. CASE c.answer = "done" /\ Answered(s)
  <2>1. /\ Finish(s, c.piece, "done") /\ ran' = ran /\ frames' = frames /\ c.at = "waiting"
    BY <1>4 DEF Answered
  <2>2. ran[s][c.piece] = 1
    BY <1>1, <1>4, <2>1 DEF Sound, AnswersTrue
  <2> QED BY <1>1, <2>1, <2>2, FinishTold DEF Finish
<1> QED BY <1>2, <1>3, <1>4

\* A way reports what became of the piece, and the receipt records it.
LEMMA ReturnsTold ==
  ASSUME ReplyAssumption, ClientTyped, Told, NEW s \in Senders, Returns(s)
  PROVE  Told'
<1> DEFINE c == call[s]
<1>1. /\ Sound(s, c, receipt[s], ran[s], RequestsOf(s)) /\ c.piece \in 1 .. Pieces[s]
      /\ c.rank \in 0 .. 4 /\ call = [u \in Senders |-> call[u]]
      /\ \A u \in Senders : Sound(u, call[u], receipt[u], ran[u], RequestsOf(u))
  BY DEF Told, Sound, CallSound, CallType, Shaped
<1>2. PICK f \in frames :
        /\ f.by = s /\ f.piece = c.piece /\ f.try = c.try
        /\ \/ Finish(s, f.piece, "unknown") /\ frames' = IF f.state = "out" THEN frames ELSE frames \ {f}
           \/ f.state = "done" /\ Finish(s, f.piece, "done") /\ frames' = frames \ {f}
           \/ f.state = "refused" /\ Refused(s)
  BY DEF Returns
<1>3. c.at = "outside" /\ ran' = ran /\ f \in RequestsOf(s)
  BY <1>2 DEF Returns, RequestsOf
<1>4. CASE Finish(s, f.piece, "unknown") /\ frames' = IF f.state = "out" THEN frames ELSE frames \ {f}
  <2>1. frames' \subseteq frames /\ \A g \in frames \ frames' : g.by = s
    BY <1>2, <1>4
  <2> QED BY <1>1, <1>2, <1>3, <1>4, <2>1, FinishTold DEF Finish
<1>5. CASE f.state = "done" /\ Finish(s, f.piece, "done") /\ frames' = frames \ {f}
  <2>1. frames' \subseteq frames /\ \A g \in frames \ frames' : g.by = s
    BY <1>2, <1>5
  <2>2. ran[s][c.piece] = 1
    BY <1>1, <1>2, <1>3, <1>5 DEF Sound, RequestsSound
  <2> QED BY <1>1, <1>2, <1>3, <1>5, <2>1, <2>2, FinishTold DEF Finish
<1>6. CASE f.state = "refused" /\ Refused(s)
  BY <1>1, <1>2, <1>3, <1>6, RefusedTold DEF Refused
<1> QED BY <1>2, <1>4, <1>5, <1>6

\* A cancelled reply is rolled back only where its piece cannot be out.
LEMMA CancelTold ==
  ASSUME ReplyAssumption, Told, NEW s \in Senders, CancelSend(s)
  PROVE  Told'
<1> DEFINE c == call[s]
           verdict == IF c.at = "waiting" \/ c.any THEN "unknown" ELSE "refused"
           cause == IF c.at = "outside" \/ (c.at = "writing" /\ c.out)
                    THEN "cancelled_in_flight" ELSE "cancelled"
           d == [Resting EXCEPT !.at = "over", !.piece = c.piece]
           r == Settled(s, receipt[s], verdict, cause, c.piece)
<1>1. /\ Sound(s, c, receipt[s], ran[s], RequestsOf(s)) /\ Pieces[s] \in Nat /\ MaxTries \in Nat
      /\ c.piece \in PieceNumbers
  BY DEF Told, ReplyAssumption, Sound, CallSound, PieceNumbers
<1>2. /\ c.at \notin {"idle", "over"} /\ ran' = ran /\ frames' = frames
      /\ call' = [call EXCEPT ![s] = d]
  BY DEF CancelSend
<1>3. receipt' = [receipt EXCEPT ![s] = r]
  <2>1. receipt' = [receipt EXCEPT ![s] = Recorded(s, verdict, cause, c.piece)]
    BY DEF CancelSend
  <2>2. Recorded(s, verdict, cause, c.piece) = r
    BY RecordedSettles
  <2> HIDE DEF r, verdict, cause
  <2> QED BY <2>1, <2>2
<1>4. d \in CallType /\ d.at = "over" /\ d.piece = c.piece /\ d.try = 0 /\ d.rank = 0
  BY <1>1, RestingType DEF Resting, CallType
<1>5. Sound(s, d, r, ran[s], RequestsOf(s))
  <2>1. c.at \notin {"idle", "over"}
    BY <1>2
  <2> HIDE DEF d, c
  <2> QED BY <1>1, <1>4, <2>1, Cancelling
<1>6. {f \in frames : f.by = s} = RequestsOf(s) /\ \A f \in frames : f.by \in Senders
  BY DEF RequestsOf, Told, Shaped
<1> HIDE DEF d, r
<1> QED BY <1>2, <1>3, <1>5, <1>6, SenderMoves
-----------------------------------------------------------------------------
(* The theorems *)

\* No sender has started and no connection exists.
LEMMA ReplyInitially == ASSUME ReplyAssumption, ReplyInit PROVE ReplyInv
<1>1. ClientTyped
  <2>1. 0 \in 0 .. MaxRotations /\ 0 \in 0 .. MaxDrops
    BY DEF ReplyAssumption
  <2>2. Unused \in LinkType
    BY <2>1 DEF Unused, LinkType
  <2>3. link \in [Links -> LinkType]
    BY <2>2 DEF ReplyInit
  <2>4. /\ auth \in [gen : 0 .. MaxRotations, trusted : BOOLEAN] /\ ws \in Links \cup {NoLink}
        /\ main \in [at : {"top", "backoff", "racing", "revoking"}, on : Links \cup {NoLink}]
        /\ main.at = "top" /\ wakeup \in BOOLEAN /\ rotations = {} /\ drops \in 0 .. MaxDrops
    BY <2>1 DEF ReplyInit
  <2> QED BY <2>3, <2>4 DEF ClientTyped
<1>2. Shaped
  BY DEF ReplyInit, Shaped
<1>3. ASSUME NEW s \in Senders
      PROVE  Sound(s, call[s], receipt[s], ran[s], RequestsOf(s))
  <2> DEFINE n == ran[s]
  <2>1. /\ call[s] = Resting /\ receipt[s] = Unsettled /\ RequestsOf(s) = {}
        /\ n = [i \in 1 .. Pieces[s] |-> 0] /\ Pieces[s] \in Nat \ {0} /\ MaxTries \in Nat
    BY DEF ReplyInit, RequestsOf, ReplyAssumption
  <2> HIDE DEF n
  <2>2. n \in [1 .. Pieces[s] -> {0, 1}] /\ \A i : i \in 1 .. Pieces[s] => Fresh(i, n, {})
    BY <2>1 DEF Fresh
  <2>3. /\ Resting \in CallType /\ Resting.at = "idle" /\ Resting.piece = 1 /\ Resting.try = 0
        /\ Resting.rank = 0
    BY RestingType DEF Resting
  <2>4. CallSound(s, Resting)
    BY <2>1, <2>3 DEF CallSound
  <2>5. RequestsSound(s, n, {}) /\ RequestsFollow(Resting, n, {})
    BY DEF RequestsSound, RequestsFollow
  <2>6. AnswersTrue(s, Resting, n, {})
    BY <2>1, <2>2, <2>3 DEF AnswersTrue
  <2>7. ReceiptSound(s, Resting, Unsettled, n, {})
    <3>1. Unsettled \in ReceiptType /\ Unsettled.outcome = "open" /\ Unsettled.got = 0
      BY DEF Unsettled, ReceiptType
    <3> QED BY <2>1, <2>3, <3>1
            DEF ReceiptSound, OpenSound, CommitSound, RefusalSound, CancelSound
  <2> QED BY <2>1, <2>2, <2>4, <2>5, <2>6, <2>7 DEF Sound, n
<1> QED BY <1>1, <1>2, <1>3 DEF ReplyInv, Told

\* Every step keeps the client well-formed.
LEMMA ClientKept ==
  ASSUME ReplyAssumption, ClientTyped, ReplyNext
  PROVE  ClientTyped'
<1>1. ASSUME UNCHANGED clientVars PROVE ClientTyped'
  BY <1>1 DEF clientVars, ClientTyped
<1>2. ASSUME NEW trusted \in BOOLEAN, Rotate(trusted) PROVE ClientTyped'
  BY <1>2, RotateTyped
<1>3. ASSUME NEW k \in Links, Drop(k) \/ Connect(k) PROVE ClientTyped'
  BY <1>3, LinksTyped
<1>4. CASE MainStep
  BY <1>4, MainTyped
<1>5. CASE LinkStep
  BY <1>5, LinksTyped, LeavesTyped DEF LinkStep
<1>6. ASSUME NEW s \in Senders, Start(s) \/ SenderStep(s) \/ CancelSend(s) PROVE ClientTyped'
  <2>1. CASE Broken(s)
    <3>1. ws' \in Links \cup {NoLink} /\ UNCHANGED <<auth, link, main, wakeup, rotations, drops>>
      BY <2>1 DEF Broken, Unpublished, ClientTyped
    <3> QED BY <3>1 DEF ClientTyped
  <2>2. CASE ~Broken(s)
    <3>1. UNCHANGED clientVars
      BY <1>6, <2>2
         DEF SenderStep, Start, NextPiece, WriteOut, Written, TimesOut, Answered, LookAgain,
             Returns, CancelSend
    <3> QED BY <1>1, <3>1
  <2> QED BY <2>1, <2>2
<1>7. ASSUME NEW f \in frames, Execute(f) PROVE ClientTyped'
  BY <1>1, <1>7 DEF Execute
<1> QED BY <1>2, <1>3, <1>4, <1>5, <1>6, <1>7 DEF ReplyNext, Connects

\* Every step keeps what the receipts say true.
LEMMA ToldKept ==
  ASSUME ReplyAssumption, ClientTyped, Told, ReplyNext
  PROVE  Told'
<1>1. ASSUME NEW trusted \in BOOLEAN, Rotate(trusted) PROVE Told'
  BY <1>1, ToldStays DEF Rotate
<1>2. ASSUME NEW k \in Links, Drop(k) \/ Connect(k) PROVE Told'
  BY <1>2, ToldStays DEF Drop, Connect
<1>3. CASE MainStep
  BY <1>3, ToldStays DEF MainStep, Iterate, AttemptEnds, WakeRace, MoveOn, Retry
<1>4. CASE LinkStep
  <2>1. ASSUME NEW r \in rotations, Invalidate(r) PROVE Told'
    BY <2>1, FailedTold DEF Invalidate
  <2>2. ASSUME NEW k \in Links, CloseEnds(k) \/ HearStale(k) \/ Unpublish(k) PROVE Told'
    BY <2>2, ToldStays DEF CloseEnds, HearStale, Unpublish
  <2>3. ASSUME NEW k \in Links, StopListening(k) PROVE Told'
    BY <2>3, FailedTold DEF StopListening
  <2>4. ASSUME NEW k \in Links, Dial(k) PROVE Told'
    BY <2>4, ToldStays, LeaveTold DEF Dial
  <2>5. ASSUME NEW k \in Links, DialFails(k) \/ Gone(k) PROVE Told'
    BY <2>5, LeaveTold DEF DialFails, Gone
  <2>6. ASSUME NEW f \in frames, HearAnswer(f) PROVE Told'
    BY <2>6, HearAnswerTold
  <2> QED BY <1>4, <2>1, <2>2, <2>3, <2>4, <2>5, <2>6 DEF LinkStep
<1>5. ASSUME NEW s \in Senders, Start(s) \/ SenderStep(s) \/ CancelSend(s) PROVE Told'
  <2>1. call[s].rank \in 0 .. 4 /\ (call[s].at = "pausing" => call[s].rank = 3)
    BY DEF Told, Sound, CallSound, CallType
  <2>2. CASE Start(s) \/ NextPiece(s)
    BY <2>2, StartTold
  <2>3. CASE WriteOut(s) \/ Written(s)
    BY <2>3, WritingTold
  <2>4. CASE Broken(s) \/ TimesOut(s)
    BY <2>4, EndTold
  <2>5. CASE Answered(s)
    <3>1. CASE call[s].answer = "done"
      BY <2>5, <3>1, EndTold
    <3>2. CASE call[s].answer # "done"
      BY <2>1, <2>5, <3>2, RefusedTold DEF Answered, Refused
    <3> QED BY <3>1, <3>2
  <2>6. CASE LookAgain(s)
    <3>1. CASE call[s].try < MaxTries /\ Claim(s, 3, call[s].piece)
      <4>1. Due(s, call[s], ran[s], RequestsOf(s), call[s].piece)
        BY <2>6 DEF LookAgain, Told, Sound, CallSound, RequestsFollow, AnswersTrue, Busy, Due
      <4> QED BY <2>6, <3>1, <4>1, ClaimTold DEF LookAgain
    <3>2. CASE Down(s, 3, call[s].piece)
      BY <2>1, <2>6, <3>2, RefusedTold DEF LookAgain
    <3> QED BY <2>6, <3>1, <3>2 DEF LookAgain
  <2>7. CASE Returns(s)
    BY <2>7, ReturnsTold
  <2>8. CASE CancelSend(s)
    BY <2>8, CancelTold
  <2> QED BY <1>5, <2>2, <2>3, <2>4, <2>5, <2>6, <2>7, <2>8 DEF SenderStep
<1>6. ASSUME NEW f \in frames, Execute(f) PROVE Told'
  BY <1>6, ExecuteTold
<1> QED BY <1>1, <1>2, <1>3, <1>4, <1>5, <1>6 DEF ReplyNext, Connects

\* The inductive invariant: of each sender, its place, its receipt, what ran
\* and what is still on its way fit together (DeliveryReceipt.record,
\* _send_action, request_action and _connect_once).
THEOREM ReplyInvariance ==
  ASSUME ReplyAssumption
  PROVE  ReplySpec => []ReplyInv
<1>1. ReplyInit => ReplyInv
  BY ReplyInitially
<1>2. ReplyInv /\ [ReplyNext]_replyVars => ReplyInv'
  <2> SUFFICES ASSUME ReplyInv, [ReplyNext]_replyVars PROVE ReplyInv'
    OBVIOUS
  <2>1. CASE ReplyNext
    BY <2>1, ClientKept, ToldKept DEF ReplyInv
  <2>2. CASE UNCHANGED replyVars
    BY <2>2, ToldStays DEF replyVars, clientVars, ReplyInv, ClientTyped
  <2> QED BY <2>1, <2>2
<1> QED BY <1>1, <1>2, PTL DEF ReplySpec

\* What the invariant says of one sender's receipt is what ReceiptsTrue says.
LEMMA Truth ==
  ASSUME ReplyAssumption, ReplyInv
  PROVE  DeliveredAsTold
<1>1. ASSUME NEW s \in Senders
      PROVE  /\ Sound(s, call[s], receipt[s], ran[s], RequestsOf(s))
             /\ Pieces[s] \in Nat \ {0}
             /\ \A i, r : Fresh(i, r, RequestsOf(s)) =>
                  r[i] = 0 /\ ~\E f \in frames : f.by = s /\ f.piece = i /\ f.state = "out"
  BY DEF ReplyInv, Told, ReplyAssumption, RequestsOf, Fresh
<1>2. RepliesTyped
  <2>1. call \in [Senders -> CallType] /\ receipt \in [Senders -> ReceiptType]
    BY <1>1 DEF ReplyInv, Told, Shaped, Sound, CallSound, ReceiptSound
  <2>2. \A s \in Senders : ran[s] \in [1 .. Pieces[s] -> Nat]
    BY <1>1 DEF Sound
  <2>3. frames \subseteq [by : Senders, piece : PieceNumbers, try : Nat, on : Ways,
                          state : {"out", "done", "refused"}]
    <3> SUFFICES ASSUME NEW f \in frames
                 PROVE  f \in [by : Senders, piece : PieceNumbers, try : Nat, on : Ways,
                               state : {"out", "done", "refused"}]
      OBVIOUS
    <3>1. f.by \in Senders /\ f \in RequestsOf(f.by)
      BY DEF ReplyInv, Told, Shaped, RequestsOf
    <3>2. f \in RequestType(f.by)
      BY <1>1, <3>1 DEF Sound, RequestsSound
    <3> QED BY <3>1, <3>2 DEF RequestType, PieceNumbers
  <2> QED BY <2>1, <2>2, <2>3 DEF RepliesTyped, ReplyInv, ClientTyped, LinkType, ReceiptType
<1>3. RanOnce
  BY <1>1 DEF RanOnce, Sound
<1>4. ReceiptsTrue
  <2> SUFFICES ASSUME NEW s \in Senders
               PROVE  LET r == receipt[s]
                          out(i) == \E f \in frames : f.by = s /\ f.piece = i /\ f.state = "out" IN
                      /\ r.outcome = "committed" => \A i \in 1 .. Pieces[s] : ran[s][i] = 1
                      /\ r.outcome = "rolled_back" /\ r.cause = "result"
                           => ran[s][r.piece] = 0 /\ ~out(r.piece)
                      /\ r.outcome = "rolled_back" /\ r.cause = "cancelled" =>
                           \A i \in 1 .. Pieces[s] : ran[s][i] = 0 /\ ~out(i)
                      /\ call[s].at = "over" => r.outcome # "open"
    BY DEF ReceiptsTrue
  <2>1. ReceiptSound(s, call[s], receipt[s], ran[s], RequestsOf(s))
    BY <1>1 DEF Sound
  <2> QED BY <1>1, <2>1 DEF ReceiptSound, OpenSound, CommitSound, RefusalSound, CancelSound
<1> QED BY <1>2, <1>3, <1>4 DEF DeliveredAsTold

\* No piece of a reply is carried out twice, whatever way it is given to after
\* another failed, and a receipt tells the plugin what happened: for any number
\* of senders, pieces, connections, rotations and losses.
THEOREM TruthTold ==
  ASSUME ReplyAssumption
  PROVE  ReplySpec => []DeliveredAsTold
<1>1. ReplyInv => DeliveredAsTold
  BY Truth
<1> QED BY <1>1, ReplyInvariance, PTL
===============================================================================
