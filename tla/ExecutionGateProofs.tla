------------------------ MODULE ExecutionGateProofs ------------------------
(***************************************************************************)
(* Proofs about ExecutionGate, for any calls, limits and policies.         *)
(*                                                                         *)
(* Four facts hold together: the deque holds exactly the calls that wait   *)
(* (Line), the count is that of the holders (Slots), what an operation     *)
(* left behind is remembered somewhere (Accounted, QuarantineExact), and a *)
(* drained gate is quiet (Quiet).  Every way a slot changes hands goes     *)
(* through _grant_waiters_locked, so one lemma (Granting) says what it     *)
(* does to the first two, and each action is shown to start it right.  The *)
(* same lemmas show each step to be one of the abstract pool (AsPool).     *)
(***************************************************************************)
EXTENDS ExecutionGate, DequeLemmas

\* The types of what is neither count nor deque
Typed ==
  /\ phase \in [Calls -> {"idle", "queued", "running", "unwinding", "done"}]
  /\ allowClosed \in [Calls -> BOOLEAN]
  /\ ready \in [Calls -> {"none", "pending", "granted", "refused"}]
  /\ cancelled \subseteq Calls
  /\ outcome \in [Calls -> Results \cup {"none"}]
  /\ op \in [Calls -> {"none", "created", "running", "ended", "collected"}]
  /\ ending \in [Calls -> Endings \cup {"none", "cancelled"}]
  /\ opCancelled \subseteq Calls /\ detached \subseteq Calls
  /\ fatal \in [Calls -> {"none", "deferred", "consumed"}]
  /\ mode \in Modes /\ parallelLimit \in ParallelLimits /\ queueLimit \in QueueLimits
  /\ failures \in 0..FailureThreshold
  /\ reconcileDue \in BOOLEAN /\ circuitOpen \in BOOLEAN /\ poisoned \in BOOLEAN
  /\ sync \in {"none", "tracked", "detached"}
  /\ admission \in {"open", "held", "closed"}
  /\ closeCall \in {"none", "draining", "drained", "undrained"}

\* The deque holds the calls that wait, and of the others only those that were
\* refused and have not resumed
Line ==
  /\ gateWaiters \in Seq(Calls) /\ IsInjective(gateWaiters)
  /\ \A c \in Range(gateWaiters) : phase[c] = "queued" /\ ready[c] \in {"pending", "refused"}
  /\ \A c \in Calls : phase[c] = "queued" /\ ready[c] = "pending" => c \in Range(gateWaiters)

\* A line forms only at a full gate; a sequential plugin has one slot for good
Slots ==
  /\ gateRunning = Cardinality(Holders)
  /\ ~reconcileDue /\ gateWaiters # <<>> => gateRunning >= Capacity
  /\ mode = "sequential" => gateRunning <= 1

\* A second cancellation may reach a call while it gives its operation a turn
Interruptible == "unwinding" \in CancelPoints

\* What a call and its operation owe each other
Accounted(c) ==
  /\ phase[c] \in {"idle", "queued"} => op[c] = "none"
  /\ phase[c] \in {"unwinding", "done"} /\ op[c] \in {"created", "running", "ended"}
       => c \in detached
  /\ phase[c] = "unwinding" /\ c \in cancelled => admission = "closed" \/ Interruptible
  /\ phase[c] = "done" /\ op[c] \in {"created", "running"}
       => poisoned \/ admission = "closed" \/ Interruptible
  /\ op[c] = "collected" /\ ending[c] = "fatal" =>
       /\ phase[c] = "unwinding" => fatal[c] # "none" \/ c \in detached
       /\ phase[c] = "done" => outcome[c] = "fatal" \/ fatal[c] # "none" \/ c \in detached

\* A gate that close() was called on is closed; drained, its normal calls are
\* over or never begin
Quiet ==
  /\ closeCall # "none" => admission = "closed"
  /\ DrainedStaysQuiet

SlotInv == Typed /\ Line /\ Slots

IInv ==
  /\ SlotInv /\ (\A c \in Calls : Accounted(c)) /\ Quiet
  /\ QuarantineHasCause /\ (~Interruptible => OneAtATime)

-----------------------------------------------------------------------------
\* Some of the calls are finitely many.
LEMMA FiniteCalls ==
  ASSUME NEW S \in SUBSET Calls
  PROVE  IsFiniteSet(S) /\ Cardinality(S) \in Nat /\ Cardinality(S) <= Cardinality(Calls)
<1>1. IsFiniteSet(Calls)
  BY GateAssumption
<1> QED BY <1>1, FS_Subset, FS_CardinalityType

\* The capacity is a positive number.
LEMMA CapacityType ==
  ASSUME Typed
  PROVE  Capacity \in Nat /\ Capacity > 0 /\ (mode = "sequential" => Capacity = 1)
BY GateAssumption DEF Typed, Capacity

\* A set of positions that has every position before one of its own is an
\* initial segment, as long as it has elements.
LEMMA InitialSegment ==
  ASSUME NEW m \in Nat, NEW P \in SUBSET (1..m), \A i \in P : 1..i \subseteq P
  PROVE  Cardinality(P) \in 0..m /\ P = 1..Cardinality(P)
<1>1. IsFiniteSet(1..m) /\ Cardinality(1..m) = m
  BY FS_Interval
<1>2. IsFiniteSet(P) /\ Cardinality(P) \in Nat /\ Cardinality(P) <= m
  BY ZenonT(60), <1>1, FS_Subset, FS_CardinalityType
<1> DEFINE n == Cardinality(P)
<1>3. ASSUME NEW i \in P PROVE i \in 1..n
  <2>1. i \in Nat /\ i >= 1 /\ Cardinality(1..i) = i
    BY FS_Interval
  <2>2. i <= n
    BY <1>2, <1>3, <2>1, FS_Subset
  <2> QED BY <2>1, <2>2, <1>2
<1>4. IsFiniteSet(1..n) /\ Cardinality(1..n) = n
  BY <1>2, FS_Interval
<1>5. P \in SUBSET (1..n)
  BY <1>3
<1>6. Cardinality(1..n) = Cardinality(P)
  BY <1>4
<1> HIDE DEF n
<1>7. 1..n = P
  BY ONLY <1>4, <1>5, <1>6, FS_Subset
<1> QED BY <1>2, <1>7 DEF n

\* Different positions of a deque without repetition have different elements.
LEMMA ElementsOfPositions ==
  ASSUME NEW S, NEW q \in Seq(S), IsInjective(q), NEW K \in SUBSET DOMAIN q, IsFiniteSet(K)
  PROVE  /\ IsFiniteSet({q[k] : k \in K})
         /\ Cardinality({q[k] : k \in K}) = Cardinality(K)
<1> DEFINE T == {q[k] : k \in K}
           f == [k \in K |-> q[k]]
<1>1. f \in Bijection(K, T)
  <2>1. \A a, b \in K : f[a] = f[b] => a = b
    BY DEF IsInjective
  <2>2. f \in [K -> T] /\ \A t \in T : \E k \in K : f[k] = t
    OBVIOUS
  <2> QED BY <2>1, <2>2 DEF Bijection, Injection, Surjection, IsInjective
<1>2. ExistsBijection(K, T)
  BY <1>1 DEF ExistsBijection
<1> QED BY <1>2, FS_Bijection

\* What _grant_waiters_locked makes of a deque q and n slots in use: it takes
\* some calls T off, of which it grants those still pending and admissible, and
\* leaves the rest only when every slot is taken.  It takes no slot too many.
Granted(q, n, T) ==
  LET G == {c \in T : Admissible(c)}
  IN /\ T \subseteq Range(q)
     /\ gateWaiters' \in Seq(Calls) /\ IsInjective(gateWaiters')
     /\ Range(gateWaiters') = Range(q) \ T
     /\ gateRunning' = n + Cardinality(G)
     /\ ready' = [c \in Calls |->
                    CASE c \in G -> "granted"
                      [] c \in T \ G /\ ready[c] = "pending" -> "refused"
                      [] OTHER -> ready[c]]
     /\ gateWaiters' # <<>> => gateRunning' >= Capacity
     /\ gateRunning' = n \/ gateRunning' <= Capacity
     /\ \A S \in SUBSET (Calls \ T) :
          /\ Order(gateWaiters', S) = Order(q, S)
          /\ \A a \in S, b \in T : ~Before(q, a, b)

LEMMA GrantFacts ==
  ASSUME Typed, NEW q \in Seq(Calls), IsInjective(q), NEW n \in Nat, GrantWaiters(q, n)
  PROVE  \E T \in SUBSET Calls : Granted(q, n, T)
<1> DEFINE m == Len(q)
           A(p) == {k \in 1..p : Admissible(q[k])}
           popped == {i \in 1..m : n + Cardinality(A(i - 1)) < Capacity}
           p == Cardinality(popped)
           T == {q[i] : i \in popped}
           G == {c \in T : Admissible(c)}
<1>1. m \in Nat /\ DOMAIN q = 1..m /\ \A i \in 1..m : q[i] \in Calls
  BY LenProperties, ElementOfSeq
<1>2. Capacity \in Nat /\ Capacity > 0
  BY CapacityType
<1>3. /\ gateWaiters' = SubSeq(q, p + 1, m)
      /\ gateRunning' = n + Cardinality(G)
      /\ ready' = [c \in Calls |->
                     CASE c \in G -> "granted"
                       [] c \in T \ G /\ ready[c] = "pending" -> "refused"
                       [] OTHER -> ready[c]]
  BY <1>1 DEF GrantWaiters
<1>4. ASSUME NEW i \in Int
      PROVE  IsFiniteSet(A(i)) /\ Cardinality(A(i)) \in Nat
  <2>1. IsFiniteSet(1..i)
    BY FS_Interval
  <2> QED BY <2>1, FS_Subset, FS_CardinalityType
<1>5. ASSUME NEW i \in Int, NEW j \in Int, j <= i
      PROVE  Cardinality(A(j)) <= Cardinality(A(i))
  <2>1. A(j) \in SUBSET A(i)
    BY <1>5
  <2> HIDE DEF A
  <2> QED BY <2>1, <1>4, FS_Subset
<1> HIDE DEF A
<1>6. popped = 1..p /\ p \in 0..m
  <2>1. ASSUME NEW i \in popped, NEW j \in 1..i PROVE j \in popped
    <3>1. i \in 1..m /\ n + Cardinality(A(i - 1)) < Capacity
      OBVIOUS
    <3>2. j \in 1..m /\ j - 1 <= i - 1 /\ i - 1 \in Int /\ j - 1 \in Int
      BY <1>1, <3>1
    <3>3. Cardinality(A(j - 1)) <= Cardinality(A(i - 1))
      BY <3>2, <1>5
    <3>4. Cardinality(A(j - 1)) \in Nat /\ Cardinality(A(i - 1)) \in Nat
      BY <3>2, <1>4
    <3>5. n + Cardinality(A(j - 1)) < Capacity
      BY <3>1, <3>3, <3>4, <1>2
    <3> QED BY <3>2, <3>5
  <2>2. popped \in SUBSET (1..m)
    OBVIOUS
  <2>3. \A i \in popped : 1..i \subseteq popped
    BY <2>1
  <2> HIDE DEF popped
  <2> QED BY <1>1, <2>2, <2>3, InitialSegment
<1>7. \A i \in 1..m : i \in popped <=> n + Cardinality(A(i - 1)) < Capacity
  OBVIOUS
<1> HIDE DEF popped, p
<1>8. /\ p + 1 \in 1..m => n + Cardinality(A(p)) >= Capacity
      /\ p > 0 => n + Cardinality(A(p - 1)) < Capacity
  <2>1. p \in Nat /\ p + 1 \notin popped /\ (p + 1) - 1 = p /\ (p > 0 => p \in popped /\ p \in 1..m)
    BY <1>6
  <2>2. p + 1 \in 1..m => ~(n + Cardinality(A(p)) < Capacity)
    BY <2>1, <1>7
  <2>3. Cardinality(A(p)) \in Nat
    BY <1>4, <1>6
  <2>4. p > 0 => n + Cardinality(A(p - 1)) < Capacity
    BY <2>1, <1>7
  <2> HIDE DEF m
  <2> QED BY <2>2, <2>3, <2>4, <1>2
<1>9. Range(SubSeq(q, 1, p)) = T
  BY <1>6, SplitFacts DEF T
<1>10. /\ gateWaiters' \in Seq(Calls) /\ IsInjective(gateWaiters')
       /\ Range(gateWaiters') = Range(q) \ T
       /\ gateWaiters' # <<>> => p + 1 \in 1..m
  <2>1. /\ SubSeq(q, p + 1, m) \in Seq(Calls) /\ IsInjective(SubSeq(q, p + 1, m))
        /\ Range(SubSeq(q, p + 1, m)) = Range(q) \ T
    BY <1>6, <1>9, SplitFacts
  <2>2. p = m => Range(q) \ T = {}
    BY <1>1, <1>6 DEF Range, T
  <2>3. gateWaiters' # <<>> => p # m
    BY <1>3, <2>1, <2>2, EmptyFacts
  <2>4. p # m => p + 1 \in 1..m
    <3>1. m \in Nat /\ p \in 0..m
      BY <1>1, <1>6
    <3> HIDE DEF m
    <3> QED BY <3>1
  <2> QED BY <1>3, <2>1, <2>3, <2>4
<1>11. Cardinality(G) = Cardinality(A(p))
  <2>1. A(p) \in SUBSET DOMAIN q
    BY <1>1, <1>6 DEF A
  <2>2. {q[k] : k \in A(p)} = G
    BY <1>6 DEF A, T, G
  <2>3. IsFiniteSet(A(p))
    BY <1>4, <1>6
  <2> HIDE DEF G, T, m
  <2> QED BY <2>1, <2>2, <2>3, ElementsOfPositions
<1>12. gateWaiters' # <<>> => gateRunning' >= Capacity
  BY <1>3, <1>8, <1>10, <1>11
<1>13. gateRunning' = n \/ gateRunning' <= Capacity
  <2>1. CASE p = 0
    <3>1. A(0) = {}
      BY DEF A
    <3>2. Cardinality(A(p)) = 0
      BY <2>1, <3>1, FS_EmptySet
    <3> QED BY <1>3, <1>11, <3>2
  <2>2. CASE p > 0
    <3>1. p - 1 \in Int /\ p \in Int
      BY <1>6
    <3>2. IsFiniteSet(A(p - 1)) /\ Cardinality(A(p - 1)) \in Nat
      BY <3>1, <1>4
    <3>3. A(p) \subseteq A(p - 1) \cup {p}
      BY <3>1 DEF A
    <3>4. /\ IsFiniteSet(A(p - 1) \cup {p})
          /\ Cardinality(A(p - 1) \cup {p}) <= Cardinality(A(p - 1)) + 1
      <4>1. /\ IsFiniteSet(A(p - 1) \cup {p})
            /\ Cardinality(A(p - 1) \cup {p}) = IF p \in A(p - 1) THEN Cardinality(A(p - 1))
                                               ELSE Cardinality(A(p - 1)) + 1
        BY <3>2, FS_AddElement
      <4> QED BY <4>1, <3>2
    <3>5. Cardinality(A(p)) <= Cardinality(A(p - 1) \cup {p})
      BY <3>3, <3>4, FS_Subset
    <3>6. Cardinality(A(p)) \in Nat /\ Cardinality(A(p - 1) \cup {p}) \in Nat
      BY <3>1, <3>4, <1>4, FS_CardinalityType
    <3>7. n + Cardinality(A(p)) <= Capacity
      BY <1>2, <1>8, <2>2, <3>2, <3>4, <3>5, <3>6
    <3> QED BY <1>3, <1>11, <3>7
  <2> QED BY <1>6, <2>1, <2>2
<1>14. T \subseteq Range(q) /\ T \subseteq Calls
  BY <1>1, <1>6 DEF T, Range
<1> HIDE DEF T
<1>15. ASSUME NEW S \in SUBSET (Calls \ T)
       PROVE  /\ Order(gateWaiters', S) = Order(q, S)
              /\ \A a \in S, b \in T : ~Before(q, a, b)
  <2>1. S \cap Range(SubSeq(q, 1, p)) = {}
    BY <1>9
  <2>2. /\ Order(SubSeq(q, p + 1, m), S) = Order(q, S)
        /\ \A a \in S, b \in Range(SubSeq(q, 1, p)) : ~Before(q, a, b)
    BY <1>6, <2>1, OrderBack
  <2> QED BY <1>3, <1>9, <2>2
<1> QED BY <1>3, <1>10, <1>12, <1>13, <1>14, <1>15 DEF Granted, G

\* The step as one of the pool of slots
AsPool == [Pool!PoolNext]_(Pool!poolVars)

\* The cardinality of the abstract specification is that of the model.
LEMMA SameCardinality == \A S : Pool!Cardinality(S) = Cardinality(S)
BY DEF Pool!Cardinality, Cardinality

\* Serving with an unchanged capacity: somebody moves, or nobody does.
LEMMA ServeAlone ==
  ASSUME Pool!Serve, Capacity' = Capacity
  PROVE  AsPool
<1>1. CASE Holders' # Holders \/ Pending' # Pending
  BY <1>1 DEF Pool!Leave, Pool!PoolNext, AsPool
<1>2. CASE Holders' = Holders /\ Pending' = Pending
  <2>1. Order(gateWaiters, Pending) \cap (Pending \X Pending) = Order(gateWaiters, Pending)
    BY OrderRestricts
  <2>2. Order(gateWaiters', Pending') = Order(gateWaiters, Pending) \cap (Pending' \X Pending')
    BY DEF Pool!Serve
  <2>3. Order(gateWaiters', Pending') = Order(gateWaiters, Pending)
    BY <1>2, <2>1, <2>2
  <2> QED BY <1>2, <2>3 DEF Pool!poolVars, AsPool
<1> QED BY <1>1, <1>2

\* The calls of X, if any, leave, and the slots in use without them are handed
\* out along the deque without them: deque and count are right again.
LEMMA Granting ==
  ASSUME SlotInv, NEW X \in SUBSET Calls,
         NEW q \in Seq(Calls), IsInjective(q), Range(q) = Range(gateWaiters) \ X,
         \A S \in SUBSET (Calls \ X) : Order(q, S) = Order(gateWaiters, S),
         NEW n, n = Cardinality(Holders \ X), GrantWaiters(q, n),
         phase' = [c \in Calls |-> IF c \in X THEN "done" ELSE phase[c]],
         UNCHANGED <<mode, parallelLimit>>
  PROVE  /\ Line' /\ Slots' /\ AsPool
         /\ ready' \in [Calls -> {"none", "pending", "granted", "refused"}]
<1>1. Typed /\ Line /\ Slots
  BY DEF SlotInv
<1>2. Holders \in SUBSET Calls /\ Holders \ X \in SUBSET Calls
  BY DEF Holders
<1>3. n \in Nat /\ n <= gateRunning /\ gateRunning \in Nat
  <2>1. IsFiniteSet(Holders) /\ Cardinality(Holders) \in Nat /\ n \in Nat
    BY <1>2, FiniteCalls
  <2>2. n <= Cardinality(Holders)
    BY <2>1, <1>2, FS_Subset
  <2> QED BY <1>1, <2>1, <2>2 DEF Slots
<1>4. PICK T \in SUBSET Calls : Granted(q, n, T)
  BY <1>1, <1>3, GrantFacts
<1> DEFINE G == {c \in T : Admissible(c)}
<1>5. /\ T \subseteq Range(gateWaiters) \ X
      /\ gateWaiters' \in Seq(Calls) /\ IsInjective(gateWaiters')
      /\ Range(gateWaiters') = (Range(gateWaiters) \ X) \ T
      /\ gateRunning' = n + Cardinality(G)
      /\ gateWaiters' # <<>> => gateRunning' >= Capacity
      /\ gateRunning' = n \/ gateRunning' <= Capacity
  BY <1>4 DEF Granted
<1>6. ready' = [c \in Calls |->
                  CASE c \in G -> "granted"
                    [] c \in T \ G /\ ready[c] = "pending" -> "refused"
                    [] OTHER -> ready[c]]
  BY <1>4 DEF Granted
<1>7. /\ \A c \in Range(gateWaiters) :
           c \in Calls /\ phase[c] = "queued" /\ ready[c] \in {"pending", "refused"}
      /\ \A c \in Calls : phase[c] = "queued" /\ ready[c] = "pending" => c \in Range(gateWaiters)
      /\ \A c \in Calls : ready[c] \in {"none", "pending", "granted", "refused"}
      /\ \A c \in G : ready[c] = "pending" /\ c \in T
      /\ G \subseteq Calls
  <2>1. Range(gateWaiters) \subseteq Calls
    BY <1>1, LenProperties, ElementOfSeq DEF Line, Range
  <2> QED BY <1>1, <1>4, <2>1 DEF Typed, Line, Admissible
<1> HIDE DEF G
<1>8. ASSUME NEW c \in Calls
      PROVE  /\ phase'[c] = IF c \in X THEN "done" ELSE phase[c]
             /\ c \in G => ready'[c] = "granted"
             /\ c \in T \ G /\ ready[c] = "pending" => ready'[c] = "refused"
             /\ c \notin G /\ ~(c \in T \ G /\ ready[c] = "pending") => ready'[c] = ready[c]
  BY <1>6
<1>9. ready' \in [Calls -> {"none", "pending", "granted", "refused"}]
  BY <1>6, <1>7
<1>10. Line'
  <2>1. ASSUME NEW c \in Range(gateWaiters')
        PROVE  phase'[c] = "queued" /\ ready'[c] \in {"pending", "refused"}
    <3>1. c \in Range(gateWaiters) /\ c \notin X /\ c \notin T /\ c \notin G /\ c \in Calls
      BY <2>1, <1>5, <1>7
    <3> QED BY <3>1, <1>7, <1>8
  <2>2. ASSUME NEW c \in Calls, phase'[c] = "queued", ready'[c] = "pending"
        PROVE  c \in Range(gateWaiters')
    <3>1. c \notin X /\ phase[c] = "queued"
      BY <2>2, <1>8
    <3>2. c \notin G /\ ready[c] = "pending" /\ c \notin T
      BY <2>2, <1>7, <1>8
    <3> QED BY <3>1, <3>2, <1>5, <1>7
  <2> QED BY <1>5, <2>1, <2>2 DEF Line
<1>11. Holders' = (Holders \ X) \cup G /\ (Holders \ X) \cap G = {}
  <2>1. ASSUME NEW c \in Calls
        PROVE  c \in Holders' <=> (c \in Holders /\ c \notin X) \/ c \in G
    <3>1. c \in Holders' <=> \/ phase'[c] \in {"running", "unwinding"}
                             \/ phase'[c] = "queued" /\ ready'[c] = "granted"
      BY DEF Holders
    <3>2. c \in Holders <=> \/ phase[c] \in {"running", "unwinding"}
                            \/ phase[c] = "queued" /\ ready[c] = "granted"
      BY DEF Holders
    <3>3. CASE c \in X
      BY <3>1, <3>3, <1>5, <1>7, <1>8
    <3>4. CASE c \in G
      BY <3>1, <3>4, <1>5, <1>7, <1>8
    <3>5. CASE c \notin X /\ c \notin G
      BY <3>1, <3>2, <3>5, <1>8
    <3> QED BY <3>3, <3>4, <3>5
  <2>2. Holders' \subseteq Calls
    BY DEF Holders
  <2>3. (Holders \ X) \cap G = {}
    BY <1>5, <1>7 DEF Holders
  <2> QED BY <2>1, <2>2, <2>3, <1>2, <1>7
<1>12. gateRunning' = Cardinality(Holders')
  <2>1. IsFiniteSet(Holders \ X) /\ IsFiniteSet(G) /\ Cardinality(G) \in Nat
    BY <1>2, <1>7, FiniteCalls
  <2>2. Cardinality((Holders \ X) \cup G)
          = Cardinality(Holders \ X) + Cardinality(G) - Cardinality((Holders \ X) \cap G)
    BY <2>1, FS_Union
  <2>3. Cardinality((Holders \ X) \cap G) = 0
    BY <1>11, FS_EmptySet
  <2>4. Cardinality((Holders \ X) \cup G) = n + Cardinality(G)
    BY <1>3, <2>1, <2>2, <2>3
  <2> QED BY <2>4, <1>5, <1>11
<1>13. Slots'
  <2>1. Capacity' = Capacity /\ Capacity \in Nat /\ (mode = "sequential" => Capacity = 1)
    BY <1>1, CapacityType DEF Capacity
  <2>2. ASSUME mode' = "sequential" PROVE gateRunning' <= 1
    <3>1. Capacity = 1 /\ gateRunning <= 1
      BY <2>1, <2>2, <1>1 DEF Slots
    <3> QED BY <3>1, <1>3, <1>5
  <2> QED BY <1>5, <1>12, <2>1, <2>2 DEF Slots
<1>14. Pending' = (Pending \ X) \ T
  <2>1. ASSUME NEW c \in Calls
        PROVE  c \in Pending' <=> c \in Pending /\ c \notin X /\ c \notin T
    <3>1. c \in Pending' <=> phase'[c] = "queued" /\ ready'[c] = "pending"
      BY DEF Pending
    <3>2. c \in Pending <=> phase[c] = "queued" /\ ready[c] = "pending"
      BY DEF Pending
    <3>3. CASE c \in X
      BY <3>1, <3>3, <1>8
    <3>4. CASE c \notin X /\ c \in T
      BY <3>1, <3>4, <1>7, <1>8
    <3>5. CASE c \notin X /\ c \notin T
      <4>1. phase'[c] = phase[c] /\ ready'[c] = ready[c]
        BY <3>5, <1>7, <1>8
      <4> QED BY <3>1, <3>2, <3>5, <4>1
    <3> QED BY <3>3, <3>4, <3>5
  <2>2. Pending' \subseteq Calls /\ Pending \subseteq Calls
    BY DEF Pending
  <2> QED BY <2>1, <2>2
<1>15. G \subseteq Pending /\ G \subseteq T /\ Holders \cap G = {}
  <2>1. \A c \in G : c \in Calls /\ phase[c] = "queued" /\ ready[c] = "pending"
    BY <1>5, <1>7
  <2> QED BY <1>7, <2>1 DEF Pending, Holders
<1>16. Holders' \ Holders = G
  BY <1>11, <1>15
<1>17. Order(gateWaiters, Pending) \cap (Pending' \X G) = {}
  <2>1. ASSUME NEW a \in Pending', NEW b \in G PROVE <<a, b>> \notin Order(gateWaiters, Pending)
    <3> DEFINE S == {a, b}
    <3>1. a \in Calls \ X /\ b \in Calls \ X /\ {a} \in SUBSET (Calls \ T) /\ b \in T
      BY <1>5, <1>14, <1>15 DEF Pending
    <3>2. ~Before(q, a, b)
      BY <1>4, <3>1 DEF Granted
    <3>3. Order(q, S) = Order(gateWaiters, S)
      BY <3>1
    <3>4. <<a, b>> \notin Order(q, S)
      BY <3>2 DEF Order
    <3>5. <<a, b>> \in Order(gateWaiters, Pending) => <<a, b>> \in Order(gateWaiters, S)
      BY DEF Order
    <3> QED BY <3>3, <3>4, <3>5
  <2> QED BY <2>1
<1>18. Order(gateWaiters', Pending') = Order(gateWaiters, Pending) \cap (Pending' \X Pending')
  <2>1. Pending' \in SUBSET (Calls \ T) /\ Pending' \in SUBSET (Calls \ X) /\ Pending' \in SUBSET Pending
    BY <1>14 DEF Pending
  <2>2. Order(gateWaiters', Pending') = Order(q, Pending')
    BY <1>4, <2>1 DEF Granted
  <2>3. Order(q, Pending') = Order(gateWaiters, Pending')
    BY <2>1
  <2>4. Order(gateWaiters, Pending') = Order(gateWaiters, Pending) \cap (Pending' \X Pending')
    BY <2>1, OrderRestricts
  <2> QED BY <2>2, <2>3, <2>4
<1>19. Capacity' = Capacity
  BY DEF Capacity
<1>20. G # {} => Cardinality(Holders') <= Capacity'
  <2>1. IsFiniteSet(G) /\ Cardinality(G) \in Nat
    BY <1>7, FiniteCalls
  <2>2. G # {} => Cardinality(G) # 0
    BY <2>1, FS_EmptySet
  <2> QED BY <1>3, <1>5, <1>12, <1>19, <2>1, <2>2
<1>21. Pool!Serve
  <2>1. Pending' \subseteq Pending \ G
    BY <1>14, <1>15
  <2> QED BY <1>15, <1>16, <1>17, <1>18, <1>20, <2>1, SameCardinality DEF Pool!Serve
<1>22. AsPool
  BY <1>19, <1>21, ServeAlone
<1> QED BY <1>9, <1>10, <1>13, <1>22

-----------------------------------------------------------------------------
(* Slots and line, action by action *)

\* A call that holds its slot ends.
LEMMA FinishSlots ==
  ASSUME SlotInv, NEW c \in Holders, NEW how, FinishHolding(c, how),
         UNCHANGED <<mode, parallelLimit>>
  PROVE  /\ Line' /\ Slots' /\ AsPool
         /\ ready' \in [Calls -> {"none", "pending", "granted", "refused"}]
<1>1. Typed /\ Line /\ Slots /\ c \in Calls /\ Holders \in SUBSET Calls
  BY DEF SlotInv, Holders
<1>2. phase' = [d \in Calls |-> IF d \in {c} THEN "done" ELSE phase[d]]
  BY <1>1 DEF FinishHolding, Leave, Typed
<1>3. c \notin Range(gateWaiters)
  BY <1>1 DEF Line, Holders
<1>4. Released(gateRunning) = Cardinality(Holders \ {c})
  <2>1. IsFiniteSet(Holders) /\ Cardinality(Holders) \in Nat /\ Cardinality(Holders \ {c}) \in Nat
    BY <1>1, FiniteCalls
  <2>2. Cardinality(Holders \ {c}) = Cardinality(Holders) - 1
    BY <2>1, FS_RemoveElement
  <2> QED BY <1>1, <2>1, <2>2 DEF Released, Slots
<1>5. GrantWaiters(gateWaiters, Released(gateRunning))
  BY DEF FinishHolding
<1>6. gateWaiters \in Seq(Calls) /\ IsInjective(gateWaiters)
      /\ Range(gateWaiters) = Range(gateWaiters) \ {c}
  BY <1>1, <1>3 DEF Line
<1> QED BY <1>1, <1>2, <1>4, <1>5, <1>6, Granting

\* A call that waited, or was granted and not resumed, ends.
LEMMA WithdrawSlots ==
  ASSUME SlotInv, NEW c \in Calls, phase[c] = "queued", NEW how, Withdraw(c, how),
         UNCHANGED <<mode, parallelLimit>>
  PROVE  /\ Line' /\ Slots' /\ AsPool
         /\ ready' \in [Calls -> {"none", "pending", "granted", "refused"}]
<1> DEFINE q == Without(gateWaiters, c)
           n == IF ready[c] = "granted" THEN Released(gateRunning) ELSE gateRunning
<1>1. Typed /\ Line /\ Slots /\ Holders \in SUBSET Calls
  BY DEF SlotInv, Holders
<1>2. phase' = [d \in Calls |-> IF d \in {c} THEN "done" ELSE phase[d]]
  BY <1>1 DEF Withdraw, Leave, Typed
<1>3. q \in Seq(Calls) /\ IsInjective(q) /\ Range(q) = Range(gateWaiters) \ {c}
  BY <1>1, WithoutFacts DEF Line
<1>4. n = Cardinality(Holders \ {c})
  <2>1. IsFiniteSet(Holders) /\ Cardinality(Holders) \in Nat /\ Cardinality(Holders \ {c}) \in Nat
    BY <1>1, FiniteCalls
  <2>2. Cardinality(Holders \ {c}) = IF c \in Holders THEN Cardinality(Holders) - 1
                                    ELSE Cardinality(Holders)
    BY <2>1, FS_RemoveElement
  <2>3. c \in Holders <=> ready[c] = "granted"
    BY DEF Holders
  <2> QED BY <1>1, <2>1, <2>2, <2>3 DEF Released, Slots
<1>5. GrantWaiters(q, n)
  BY DEF Withdraw
<1>6. \A S \in SUBSET (Calls \ {c}) : Order(q, S) = Order(gateWaiters, S)
  BY <1>1, OrderWithout DEF Line
<1> HIDE DEF q, n
<1> QED BY <1>1, <1>2, <1>3, <1>4, <1>5, <1>6, Granting

\* Steps that leave count, line and futures alone: a call may begin to run on
\* the slot it has, be abandoned, or end without ever having had one.
LEMMA SameSlots ==
  ASSUME SlotInv, UNCHANGED <<slotVars, mode>>,
         \/ reconcileDue' /\ parallelLimit' \in ParallelLimits
         \/ UNCHANGED <<parallelLimit, reconcileDue>>,
         \A c \in Calls : \/ phase'[c] = phase[c]
                          \/ phase[c] = "idle" /\ phase'[c] = "done"
                          \/ c \in Holders /\ phase'[c] \in {"running", "unwinding"}
  PROVE  /\ Line' /\ Slots' /\ AsPool
         /\ ready' \in [Calls -> {"none", "pending", "granted", "refused"}]
<1>1. Typed /\ Line /\ Slots
  BY DEF SlotInv
<1>2. ready' = ready /\ gateRunning' = gateRunning /\ gateWaiters' = gateWaiters /\ mode' = mode
  BY DEF slotVars
<1>3. Holders' = Holders
  BY <1>2 DEF Holders
<1>4. Line'
  <2>1. Range(gateWaiters) \subseteq Calls
    BY <1>1, LenProperties, ElementOfSeq DEF Line, Range
  <2>2. \A c \in Range(gateWaiters) : c \notin Holders /\ phase'[c] = "queued"
    BY <2>1, <1>1 DEF Line, Holders
  <2>3. \A c \in Calls : phase'[c] = "queued" => phase[c] = "queued"
    OBVIOUS
  <2> QED BY <1>1, <1>2, <2>2, <2>3 DEF Line
<1>5. Slots'
  BY <1>1, <1>2, <1>3 DEF Slots, Capacity
<1>6. Pending' = Pending
  <2>1. \A c \in Calls : phase'[c] = "queued" <=> phase[c] = "queued" /\ phase'[c] = phase[c]
    OBVIOUS
  <2>2. \A c \in Calls : ready[c] = "pending" /\ phase[c] = "queued" => phase'[c] = phase[c]
    BY DEF Holders
  <2> QED BY <1>2, <2>1, <2>2 DEF Pending
<1>7. AsPool
  <2>1. Order(gateWaiters', Pending') = Order(gateWaiters, Pending)
    BY <1>2, <1>6
  <2>2. CASE Capacity' = Capacity
    BY <1>3, <1>6, <2>1, <2>2 DEF AsPool, Pool!poolVars
  <2>3. CASE Capacity' # Capacity
    <3>1. Capacity' \in ParallelLimits \cup {1}
      BY <1>1, <2>3 DEF Capacity, Typed
    <3>2. Pool!Serve
      BY <1>3, <1>6, <2>1, OrderRestricts DEF Pool!Serve
    <3> QED BY <1>3, <1>6, <2>3, <3>1, <3>2 DEF Pool!Resize, Pool!PoolNext, AsPool
  <2> QED BY <2>2, <2>3
<1> QED BY <1>1, <1>2, <1>4, <1>5, <1>7 DEF Typed

\* A call takes a free slot at once.
LEMMA RunningSlots ==
  ASSUME SlotInv, NEW c \in Calls, NEW allow \in Scopes, EnterRunning(c, allow)
  PROVE  /\ Line' /\ Slots' /\ AsPool
         /\ ready' \in [Calls -> {"none", "pending", "granted", "refused"}]
<1>1. Typed /\ Line /\ Slots /\ Holders \in SUBSET Calls
  BY DEF SlotInv, Holders
<1>2. /\ phase[c] = "idle" /\ phase' = [phase EXCEPT ![c] = "running"]
      /\ gateRunning < Capacity /\ gateWaiters = <<>>
      /\ gateRunning' = gateRunning + 1
      /\ UNCHANGED <<ready, gateWaiters, mode, parallelLimit>>
  BY DEF EnterRunning, FreeSlot, NewOperation, policyVars
<1>3. Line'
  BY <1>1, <1>2 DEF Line, Typed
<1>4. Holders' = Holders \cup {c} /\ c \notin Holders
  BY <1>1, <1>2 DEF Holders, Typed
<1>5. gateRunning' = Cardinality(Holders')
  <2>1. IsFiniteSet(Holders) /\ Cardinality(Holders) \in Nat
    BY <1>1, FiniteCalls
  <2> QED BY <1>1, <1>2, <1>4, <2>1, FS_AddElement DEF Slots
<1>6. Slots'
  <2>1. gateRunning \in Nat
    BY <1>1, FiniteCalls DEF Slots
  <2>2. mode = "sequential" => Capacity = 1
    BY <1>1, CapacityType
  <2> QED BY <1>2, <1>5, <2>1, <2>2 DEF Slots
<1>7. Pending = {} /\ Pending' = {}
  <2>1. Range(gateWaiters) = {}
    BY <1>1, <1>2, EmptyFacts DEF Line
  <2> QED BY <1>1, <1>2, <1>3, <2>1 DEF Pending, Line
<1>8. AsPool
  <2>1. Order(gateWaiters, Pending) = {} /\ Order(gateWaiters', Pending') = {}
    BY <1>7 DEF Order
  <2>2. Cardinality(Holders) < Capacity /\ Capacity' = Capacity
    BY <1>1, <1>2 DEF Slots, Capacity
  <2>3. Pool!TakeFree(c)
    BY <1>4, <1>7, <2>1, <2>2, SameCardinality DEF Pool!TakeFree
  <2>4. c \in Pool!Newcomers
    BY <1>4, <1>7 DEF Pool!Newcomers
  <2> QED BY <2>3, <2>4 DEF Pool!PoolNext, AsPool
<1> QED BY <1>1, <1>2, <1>3, <1>6, <1>8 DEF Typed

\* A call joins the line, behind calls that wait or because every slot is taken.
LEMMA QueueSlots ==
  ASSUME SlotInv, NEW c \in Calls, NEW allow \in Scopes, EnterQueue(c, allow)
  PROVE  /\ Line' /\ Slots' /\ AsPool
         /\ ready' \in [Calls -> {"none", "pending", "granted", "refused"}]
<1>1. Typed /\ Line /\ Slots /\ Holders \in SUBSET Calls
  BY DEF SlotInv, Holders
<1>2. /\ phase[c] = "idle" /\ phase' = [phase EXCEPT ![c] = "queued"]
      /\ ready' = [ready EXCEPT ![c] = "pending"]
      /\ gateWaiters' = Append(gateWaiters, c)
      /\ ~(gateRunning < Capacity /\ gateWaiters = <<>>)
      /\ UNCHANGED <<gateRunning, mode, parallelLimit, reconcileDue>>
  BY DEF EnterQueue, FreeSlot, policyVars
<1>3. c \notin Range(gateWaiters)
  BY <1>1, <1>2 DEF Line
<1>4. /\ gateWaiters' \in Seq(Calls) /\ IsInjective(gateWaiters')
      /\ Range(gateWaiters') = Range(gateWaiters) \cup {c}
  BY <1>1, <1>2, <1>3, AppendFacts DEF Line
<1>5. Line'
  <2>1. Range(gateWaiters) \subseteq Calls
    BY <1>1, LenProperties, ElementOfSeq DEF Line, Range
  <2> QED BY <1>1, <1>2, <1>4, <2>1 DEF Line, Typed
<1>6. Holders' = Holders
  BY <1>1, <1>2 DEF Holders, Typed
<1>7. Slots'
  <2>1. gateRunning \in Nat /\ Capacity \in Nat
    BY <1>1, FiniteCalls, CapacityType DEF Slots
  <2>2. Capacity' = Capacity
    BY <1>2 DEF Capacity
  <2>3. ~reconcileDue => gateRunning >= Capacity
    BY <1>1, <1>2, <2>1 DEF Slots
  <2> QED BY <1>1, <1>2, <1>6, <2>2, <2>3 DEF Slots
<1>8. ready' \in [Calls -> {"none", "pending", "granted", "refused"}]
  BY <1>1, <1>2 DEF Typed
<1>9. Pending' = Pending \cup {c} /\ c \notin Pending /\ c \notin Holders
  BY <1>1, <1>2 DEF Pending, Holders, Typed
<1>10. AsPool
  <2> DEFINE R == Order(gateWaiters', Pending')
  <2>1. /\ gateWaiters \in Seq(Calls) /\ c \in Calls
        /\ c \notin Range(gateWaiters) /\ Pending \subseteq Range(gateWaiters)
    BY <1>1, <1>3 DEF Line, Pending
  <2>2. R = Order(Append(gateWaiters, c), Pending \cup {c})
    BY <1>2, <1>9
  <2> HIDE DEF R
  <2>3. R = Order(gateWaiters, Pending) \cup (Pending \X {c})
    BY ONLY <2>1, <2>2, OrderAppend
  <2>4. Pool!LineUp(c)
    BY <1>2, <1>6, <1>9, <2>3 DEF Pool!LineUp, Capacity, R
  <2>5. c \in Pool!Newcomers
    BY <1>9 DEF Pool!Newcomers
  <2> QED BY <2>4, <2>5 DEF Pool!PoolNext, AsPool
<1> QED BY <1>5, <1>7, <1>8, <1>10

\* close() refuses waiters where they stand.
LEMMA CloseSlots ==
  ASSUME SlotInv, CloseBegin
  PROVE  /\ Line' /\ Slots' /\ AsPool
         /\ ready' \in [Calls -> {"none", "pending", "granted", "refused"}]
<1>1. Typed /\ Line /\ Slots
  BY DEF SlotInv
<1>2. /\ ready' = [c \in Calls |->
                     IF c \in Range(gateWaiters) /\ ready[c] = "pending" /\ ~allowClosed[c]
                     THEN "refused" ELSE ready[c]]
      /\ UNCHANGED <<phase, gateRunning, gateWaiters, mode, parallelLimit, reconcileDue>>
  BY DEF CloseBegin, policyVars
<1>3. Holders' = Holders
  BY <1>2 DEF Holders
<1>4. Line'
  <2>1. Range(gateWaiters) \subseteq Calls
    BY <1>1, LenProperties, ElementOfSeq DEF Line, Range
  <2> QED BY <1>1, <1>2, <2>1 DEF Line
<1>5. Slots'
  BY <1>1, <1>2, <1>3 DEF Slots, Capacity
<1>6. AsPool
  <2>1. Pending' \subseteq Pending
    BY <1>2 DEF Pending
  <2>2. Order(gateWaiters', Pending') = Order(gateWaiters, Pending) \cap (Pending' \X Pending')
    BY <1>2, <2>1, OrderRestricts
  <2>3. Pool!Serve
    BY <1>3, <2>1, <2>2 DEF Pool!Serve
  <2>4. Capacity' = Capacity
    BY <1>2 DEF Capacity
  <2> QED BY <2>3, <2>4, ServeAlone
<1> QED BY <1>1, <1>2, <1>4, <1>5, <1>6 DEF Typed

\* A change of policy is applied.
LEMMA ReconcileSlots ==
  ASSUME SlotInv, ReconcilePolicy
  PROVE  /\ Line' /\ Slots' /\ AsPool
         /\ ready' \in [Calls -> {"none", "pending", "granted", "refused"}]
<1> DEFINE X == {}
<1>1. Typed /\ Line /\ Slots
  BY DEF SlotInv
<1>2. GrantWaiters(gateWaiters, gateRunning) /\ UNCHANGED <<phase, mode, parallelLimit>>
  BY DEF ReconcilePolicy, callVars
<1>3. phase' = [c \in Calls |-> IF c \in X THEN "done" ELSE phase[c]]
  BY <1>1, <1>2 DEF Typed
<1>4. gateRunning = Cardinality(Holders \ X) /\ Range(gateWaiters) = Range(gateWaiters) \ X
  BY <1>1 DEF Slots
<1>5. gateWaiters \in Seq(Calls) /\ IsInjective(gateWaiters)
  BY <1>1 DEF Line
<1>6. X \in SUBSET Calls
  OBVIOUS
<1> HIDE DEF X
<1> QED BY <1>2, <1>3, <1>4, <1>5, <1>6, Granting

\* Every step keeps line and count, and is a step of the pool of slots.
LEMMA SlotsKept ==
  ASSUME SlotInv, [Next]_vars
  PROVE  /\ Line' /\ Slots' /\ AsPool
         /\ ready' \in [Calls -> {"none", "pending", "granted", "refused"}]
<1> DEFINE Fine == /\ Line' /\ Slots' /\ AsPool
                   /\ ready' \in [Calls -> {"none", "pending", "granted", "refused"}]
<1>1. Typed
  BY DEF SlotInv
<1>2. ASSUME NEW c \in Calls, Enter(c) PROVE Fine
  <2>1. PICK allow \in Scopes :
          EnterRefused(c, allow) \/ EnterRunning(c, allow) \/ EnterQueue(c, allow)
    BY <1>2 DEF Enter
  <2>2. CASE EnterRefused(c, allow)
    <3>1. UNCHANGED <<slotVars, policyVars>>
      BY <2>2 DEF EnterRefused
    <3>2. \A d \in Calls : phase'[d] = phase[d] \/ (phase[d] = "idle" /\ phase'[d] = "done")
      BY <2>2, <1>1 DEF EnterRefused, Typed
    <3> QED BY <3>1, <3>2, SameSlots DEF policyVars
  <2> QED BY <2>1, <2>2, RunningSlots, QueueSlots
<1>3. ASSUME NEW c \in Calls, WaiterGranted(c) PROVE Fine
  <2>1. phase[c] = "queued" /\ ready[c] = "granted" /\ c \in Holders /\ UNCHANGED policyVars
    BY <1>3 DEF WaiterGranted, Holders
  <2>2. CASE Unavailable(allowClosed[c]) = "none"
    <3>1. phase' = [phase EXCEPT ![c] = "running"] /\ UNCHANGED slotVars
      BY <2>2, <1>3 DEF WaiterGranted, NewOperation
    <3>2. \A d \in Calls : phase'[d] = phase[d] \/ (d \in Holders /\ phase'[d] = "running")
      BY <2>1, <3>1, <1>1 DEF Typed
    <3> QED BY <2>1, <3>1, <3>2, SameSlots DEF policyVars
  <2>3. CASE Unavailable(allowClosed[c]) # "none"
    <3>1. FinishHolding(c, Unavailable(allowClosed[c]))
      BY <2>3, <1>3 DEF WaiterGranted
    <3> QED BY <2>1, <3>1, FinishSlots DEF policyVars
  <2> QED BY <2>2, <2>3
<1>4. ASSUME NEW c \in Calls, WaiterRefused(c) \/ WaiterTimesOut(c) \/ WaiterCancelled(c) PROVE Fine
  <2>1. phase[c] = "queued" /\ \E how : Withdraw(c, how)
    BY <1>4 DEF WaiterRefused, WaiterTimesOut, WaiterCancelled
  <2>2. UNCHANGED <<mode, parallelLimit>>
    BY <1>4 DEF WaiterRefused, WaiterTimesOut, WaiterCancelled, policyVars
  <2> QED BY <2>1, <2>2, WithdrawSlots
<1>5. ASSUME NEW c \in Calls, ResultArrives(c) \/ CallUnwound(c) \/ CallInterrupted(c) PROVE Fine
  <2>1. c \in Holders /\ \E how : FinishHolding(c, how)
    BY <1>5 DEF ResultArrives, CallUnwound, CallInterrupted, TurnOver, Awaiting, Holders
  <2>2. UNCHANGED <<mode, parallelLimit>>
    BY <1>5 DEF ResultArrives, CallUnwound, CallInterrupted, TurnOver, policyVars
  <2> QED BY <2>1, <2>2, FinishSlots
<1>6. ASSUME NEW c \in Calls, CallTimesOut(c) \/ CallCancelled(c) PROVE Fine
  <2>1. phase[c] = "running" /\ \E how : Abandon(c, how)
    BY <1>6 DEF CallTimesOut, CallCancelled, Awaiting
  <2>2. phase' = [phase EXCEPT ![c] = "unwinding"] /\ UNCHANGED <<slotVars, policyVars>> /\ c \in Holders
    BY <2>1 DEF Abandon, Holders
  <2>3. \A d \in Calls : phase'[d] = phase[d] \/ (d \in Holders /\ phase'[d] = "unwinding")
    BY <2>2, <1>1 DEF Typed
  <2> QED BY <2>2, <2>3, SameSlots DEF policyVars
<1>7. ASSUME NEW c \in Calls,
             Cancel(c) \/ OperationStarts(c) \/ OperationEnds(c) \/ OperationCollected(c)
               \/ ConsumeDeferredFatal(c)
      PROVE  Fine
  <2>1. UNCHANGED <<phase, slotVars, policyVars>>
    BY <1>7 DEF Cancel, OperationStarts, OperationEnds, OperationCollected, ConsumeDeferredFatal, callVars
  <2> QED BY <2>1, SameSlots DEF policyVars
<1>8. ASSUME CooldownEnds \/ SyncStep \/ HoldForPublication \/ ReleasePublicationHold
               \/ CloseAdmission \/ CloseEnd \/ UNCHANGED vars
      PROVE  Fine
  <2>1. UNCHANGED <<phase, slotVars, policyVars>>
    BY <1>8 DEF CooldownEnds, SyncStep, HoldForPublication, ReleasePublicationHold,
                CloseAdmission, CloseEnd, vars, callVars
  <2> QED BY <2>1, SameSlots DEF policyVars
<1>9. ASSUME SetPolicy PROVE Fine
  <2>1. UNCHANGED <<phase, slotVars, mode>> /\ reconcileDue' /\ parallelLimit' \in ParallelLimits
    BY <1>9 DEF SetPolicy, callVars
  <2> QED BY <2>1, SameSlots
<1> HIDE DEF Fine
<1>10. ASSUME NEW c \in Calls, CallStep(c) PROVE Fine
  BY <1>10, <1>3, <1>4, <1>5, <1>6 DEF CallStep
<1>11. Fine
  BY <1>2, <1>7, <1>8, <1>9, <1>10, CloseSlots, ReconcileSlots DEF Next, Fine
<1> QED BY <1>11 DEF Fine

-----------------------------------------------------------------------------
(* Types *)

\* A call ends with one of the known results.
LEMMA LeaveTyped ==
  ASSUME Typed, NEW c \in Calls, NEW how \in Results \cup {"none"}, Leave(c, how)
  PROVE  /\ phase' \in [Calls -> {"idle", "queued", "running", "unwinding", "done"}]
         /\ outcome' \in [Calls -> Results \cup {"none"}]
         /\ cancelled' \subseteq Calls /\ allowClosed' \in [Calls -> BOOLEAN]
BY DEF Typed, Leave

\* The failure count stays within the threshold.
LEMMA HealthTyped ==
  ASSUME Typed, (\E force \in BOOLEAN : RecordFailure(force)) \/ RecordSuccess \/ UNCHANGED healthVars
  PROVE  failures' \in 0..FailureThreshold /\ circuitOpen' \in BOOLEAN /\ poisoned' \in BOOLEAN
<1>1. FailureThreshold \in Nat \ {0} /\ failures \in 0..FailureThreshold
  BY GateAssumption DEF Typed
<1>2. failures' \in 0..FailureThreshold
  BY <1>1 DEF RecordFailure, RecordSuccess, healthVars
<1>3. circuitOpen' \in BOOLEAN /\ poisoned' \in BOOLEAN
  BY DEF Typed, RecordFailure, RecordSuccess, healthVars
<1> QED BY <1>2, <1>3

\* What the steps of a call leave alone has its type.
LEMMA TypedKept ==
  ASSUME Typed, [Next]_vars,
         ready' \in [Calls -> {"none", "pending", "granted", "refused"}]
  PROVE  Typed'
<1>1. ASSUME NEW c \in Calls, Enter(c) PROVE Typed'
  <2>1. PICK allow \in Scopes :
          EnterRefused(c, allow) \/ EnterRunning(c, allow) \/ EnterQueue(c, allow)
    BY <1>1 DEF Enter
  <2>2. allow \in BOOLEAN
    BY GateAssumption
  <2>3. CASE EnterRefused(c, allow)
    <3>1. Unavailable(allow) \in Results \cup {"none"} /\ "overloaded" \in Results
      BY DEF Unavailable, Results
    <3> QED BY <2>2, <2>3, <3>1
            DEF EnterRefused, Typed, opVars, policyVars, healthVars, admitVars
  <2>4. CASE EnterRunning(c, allow)
    <3>1. /\ UNCHANGED <<cancelled, outcome, ending, opCancelled, detached>>
          /\ UNCHANGED <<policyVars, healthVars, fatal, sync, admitVars>>
      BY <2>4 DEF EnterRunning, NewOperation
    <3>2. /\ allowClosed' \in [Calls -> BOOLEAN]
          /\ phase' \in [Calls -> {"idle", "queued", "running", "unwinding", "done"}]
          /\ op' \in [Calls -> {"none", "created", "running", "ended", "collected"}]
      BY <2>2, <2>4 DEF EnterRunning, NewOperation, Typed
    <3> QED BY <3>1, <3>2 DEF Typed, policyVars, healthVars, admitVars
  <2>5. CASE EnterQueue(c, allow)
    <3>1. UNCHANGED <<cancelled, outcome, opVars, policyVars, healthVars, fatal, sync, admitVars>>
      BY <2>5 DEF EnterQueue
    <3>2. /\ allowClosed' \in [Calls -> BOOLEAN]
          /\ phase' \in [Calls -> {"idle", "queued", "running", "unwinding", "done"}]
      BY <2>2, <2>5 DEF EnterQueue, Typed
    <3> QED BY <3>1, <3>2 DEF Typed, opVars, policyVars, healthVars, admitVars
  <2> QED BY <2>1, <2>3, <2>4, <2>5
<1>2. ASSUME NEW c \in Calls, WaiterGranted(c) PROVE Typed'
  <2>1. UNCHANGED <<policyVars, healthVars, fatal, sync, admitVars>>
    BY <1>2 DEF WaiterGranted
  <2>2. CASE Unavailable(allowClosed[c]) = "none"
    <3>1. NewOperation(c) /\ UNCHANGED <<allowClosed, cancelled, outcome>>
      BY <2>2, <1>2 DEF WaiterGranted
    <3> QED BY <2>1, <3>1 DEF Typed, NewOperation, policyVars, healthVars, admitVars
  <2>3. CASE Unavailable(allowClosed[c]) # "none"
    <3>1. Leave(c, Unavailable(allowClosed[c])) /\ UNCHANGED opVars
      BY <2>3, <1>2 DEF WaiterGranted, FinishHolding
    <3>2. Unavailable(allowClosed[c]) \in Results \cup {"none"}
      BY DEF Unavailable, Results
    <3> QED BY <2>1, <3>1, <3>2, LeaveTyped DEF Typed, opVars, policyVars, healthVars, admitVars
  <2> QED BY <2>2, <2>3
<1>3. ASSUME NEW c \in Calls, WaiterRefused(c) \/ WaiterTimesOut(c) \/ WaiterCancelled(c)
      PROVE  Typed'
  <2>1. \E how \in Results \cup {"none"} : Leave(c, how)
    BY <1>3 DEF WaiterRefused, WaiterTimesOut, WaiterCancelled, Withdraw, Results
  <2>2. UNCHANGED <<opVars, policyVars, fatal, sync, admitVars>>
    BY <1>3 DEF WaiterRefused, WaiterTimesOut, WaiterCancelled
  <2>3. RecordFailure(TRUE) \/ UNCHANGED healthVars
    BY <1>3 DEF WaiterRefused, WaiterTimesOut, WaiterCancelled
  <2> QED BY <2>1, <2>2, <2>3, LeaveTyped, HealthTyped DEF Typed, opVars, policyVars, admitVars
<1>4. ASSUME NEW c \in Calls, ResultArrives(c) PROVE Typed'
  <2>1. Leave(c, ending[c]) /\ ending[c] \in Results
    BY <1>4 DEF ResultArrives, FinishHolding, Results
  <2>2. UNCHANGED <<opVars, policyVars, fatal, sync, admitVars>>
    BY <1>4 DEF ResultArrives
  <2>3. RecordFailure(FALSE) \/ RecordSuccess \/ UNCHANGED healthVars
    BY <1>4 DEF ResultArrives
  <2> QED BY <2>1, <2>2, <2>3, LeaveTyped, HealthTyped DEF Typed, opVars, policyVars, admitVars
<1>5. ASSUME NEW c \in Calls, CallUnwound(c) \/ CallInterrupted(c) PROVE Typed'
  <2>1. \E how \in Results \cup {"none"} : Leave(c, how)
    <3>1. outcome[c] \in Results \cup {"none"} /\ "cancelled" \in Results
      BY DEF Typed, Results
    <3> QED BY <1>5, <3>1 DEF CallUnwound, CallInterrupted, TurnOver, FinishHolding
  <2>2. UNCHANGED <<opVars, policyVars, failures, circuitOpen, fatal, sync, admitVars>>
    BY <1>5 DEF CallUnwound, CallInterrupted, TurnOver, healthVars
  <2>3. poisoned' \in BOOLEAN
    BY <1>5 DEF CallUnwound, CallInterrupted, TurnOver, healthVars, Typed
  <2> QED BY <2>1, <2>2, <2>3, LeaveTyped DEF Typed, opVars, policyVars, admitVars
<1>6. ASSUME NEW c \in Calls, CallTimesOut(c) \/ CallCancelled(c) PROVE Typed'
  <2>1. \E how \in Results : Abandon(c, how)
    BY <1>6 DEF CallTimesOut, CallCancelled, Results
  <2>2. RecordFailure(TRUE) \/ UNCHANGED healthVars
    BY <1>6 DEF CallTimesOut, CallCancelled
  <2>3. UNCHANGED <<allowClosed, op, ending, policyVars, fatal, sync, admitVars>>
    BY <2>1 DEF Abandon
  <2>4. /\ phase' \in [Calls -> {"idle", "queued", "running", "unwinding", "done"}]
        /\ outcome' \in [Calls -> Results \cup {"none"}]
        /\ cancelled' \subseteq Calls /\ opCancelled' \subseteq Calls /\ detached' \subseteq Calls
    BY <2>1 DEF Abandon, Typed
  <2> QED BY <2>2, <2>3, <2>4, HealthTyped DEF Typed, policyVars, admitVars
<1>7. ASSUME NEW c \in Calls, Cancel(c) \/ OperationStarts(c) \/ ConsumeDeferredFatal(c)
      PROVE  Typed'
  BY <1>7 DEF Cancel, OperationStarts, ConsumeDeferredFatal, Typed, callVars, opVars, policyVars,
              healthVars, admitVars
<1>8. ASSUME NEW c \in Calls, OperationEnds(c) PROVE Typed'
  BY <1>8 DEF OperationEnds, Typed, callVars, opVars, policyVars, healthVars, admitVars
<1>9. ASSUME NEW S, Discard(S), UNCHANGED <<callVars, slotVars, ending, opCancelled, policyVars,
                                            failures, circuitOpen, sync>>,
             admission' = admission /\ closeCall' \in {"none", "draining", "drained", "undrained"}
      PROVE  Typed'
  BY <1>9 DEF Discard, DeferFatals, Typed, callVars, policyVars
<1>10. ASSUME NEW c \in Calls, OperationCollected(c) PROVE Typed'
  <2>1. closeCall' \in {"none", "draining", "drained", "undrained"} /\ admission' = admission
    BY <1>10 DEF OperationCollected, admitVars, Typed
  <2> QED BY <2>1, <1>9, <1>10 DEF OperationCollected
<1>11. ASSUME CloseEnd PROVE Typed'
  BY <1>9, <1>11 DEF CloseEnd
<1>12. ASSUME CloseBegin PROVE Typed'
  BY <1>12 DEF CloseBegin, Active, Unfinished, Typed, policyVars, healthVars
<1>13. ASSUME \/ SetPolicy \/ ReconcilePolicy \/ CooldownEnds \/ SyncStep
              \/ HoldForPublication \/ ReleasePublicationHold \/ CloseAdmission \/ UNCHANGED vars
       PROVE  Typed'
  <2>1. UNCHANGED <<callVars, opVars, fatal, mode, failures, poisoned>>
    BY <1>13 DEF SetPolicy, ReconcilePolicy, CooldownEnds, SyncStep, HoldForPublication,
                 ReleasePublicationHold, CloseAdmission, vars, policyVars, healthVars
  <2>2. /\ parallelLimit' \in ParallelLimits /\ queueLimit' \in QueueLimits
        /\ reconcileDue' \in BOOLEAN /\ circuitOpen' \in BOOLEAN
        /\ sync' \in {"none", "tracked", "detached"}
    BY <1>13 DEF SetPolicy, ReconcilePolicy, CooldownEnds, SyncStep, HoldForPublication,
                 ReleasePublicationHold, CloseAdmission, vars, policyVars, healthVars, Typed
  <2>3. admission' \in {"open", "held", "closed"} /\ closeCall' = closeCall
    BY <1>13 DEF SetPolicy, ReconcilePolicy, CooldownEnds, SyncStep, HoldForPublication,
                 ReleasePublicationHold, CloseAdmission, vars, admitVars, Typed
  <2> QED BY <2>1, <2>2, <2>3 DEF Typed, callVars, opVars
<1> QED BY <1>1, <1>2, <1>3, <1>4, <1>5, <1>6, <1>7, <1>8, <1>10, <1>11, <1>12, <1>13
        DEF Next, CallStep

-----------------------------------------------------------------------------
(* What calls and operations owe each other *)

\* A closed gate stays closed.
LEMMA ClosedStays ==
  ASSUME [Next]_vars, admission = "closed"
  PROVE  admission' = "closed"
BY ZenonT(60) DEF Next, CallStep, Enter, EnterRefused, EnterRunning, EnterQueue, WaiterGranted, WaiterRefused,
       WaiterTimesOut, WaiterCancelled, ResultArrives, CallTimesOut, CallCancelled, Abandon,
       CallUnwound, CallInterrupted, TurnOver, Cancel, OperationStarts, OperationEnds, OperationCollected,
       ConsumeDeferredFatal, SetPolicy, ReconcilePolicy, CooldownEnds, SyncStep,
       HoldForPublication, ReleasePublicationHold, CloseAdmission, CloseBegin, CloseEnd,
       vars, admitVars

\* A step that does not move a call, takes neither its detached task nor its
\* fatal error and lifts no quarantine under it, leaves it accounted for.
Unmoved(d) ==
  /\ phase'[d] = phase[d] /\ op'[d] = op[d] /\ ending'[d] = ending[d] /\ outcome'[d] = outcome[d]
  /\ allowClosed'[d] = allowClosed[d]
  /\ d \in detached => d \in detached'
  /\ fatal[d] # "none" => fatal'[d] # "none"
  /\ d \in cancelled' /\ phase[d] = "unwinding" => d \in cancelled \/ admission' = "closed"
  /\ poisoned /\ d \in detached /\ op[d] \in {"created", "running"} => poisoned'

LEMMA UnmovedAccounted ==
  ASSUME NEW d, Accounted(d), Unmoved(d), admission = "closed" => admission' = "closed"
  PROVE  Accounted(d)'
BY DEF Accounted, Unmoved

\* The other calls, in the steps of one call.
LEMMA OthersUnmoved ==
  ASSUME Typed, NEW c, NEW d \in Calls, d # c,
         \/ Enter(c) \/ CallStep(c) \/ Cancel(c) \/ OperationStarts(c) \/ OperationEnds(c)
         \/ ConsumeDeferredFatal(c)
  PROVE  Unmoved(d)
<1>1. CASE Enter(c)
  BY <1>1 DEF Enter, EnterRefused, EnterRunning, EnterQueue, NewOperation, Typed, Unmoved, opVars,
              healthVars
<1>2. CASE WaiterGranted(c)
  BY <1>2 DEF WaiterGranted, NewOperation, FinishHolding, Leave, Typed, Unmoved, opVars, healthVars
<1>3. CASE WaiterRefused(c) \/ WaiterTimesOut(c) \/ WaiterCancelled(c)
  <2>1. \E how : Leave(c, how)
    BY <1>3 DEF WaiterRefused, WaiterTimesOut, WaiterCancelled, Withdraw
  <2>2. UNCHANGED <<opVars, fatal, poisoned>>
    BY <1>3 DEF WaiterRefused, WaiterTimesOut, WaiterCancelled, RecordFailure, healthVars
  <2> QED BY <2>1, <2>2 DEF Leave, Typed, Unmoved, opVars
<1>4. CASE ResultArrives(c) \/ CallUnwound(c) \/ CallInterrupted(c)
  <2>1. \E how : Leave(c, how)
    BY <1>4 DEF ResultArrives, CallUnwound, CallInterrupted, TurnOver, FinishHolding
  <2>2. UNCHANGED <<opVars, fatal>>
    BY <1>4 DEF ResultArrives, CallUnwound, CallInterrupted, TurnOver
  <2>3. ASSUME ResultArrives(c) PROVE poisoned' = poisoned
    <3>1. RecordFailure(FALSE) \/ RecordSuccess \/ UNCHANGED healthVars
      BY <2>3 DEF ResultArrives
    <3> QED BY <3>1 DEF RecordFailure, RecordSuccess, healthVars
  <2>4. poisoned => poisoned'
    BY <1>4, <2>3 DEF CallUnwound, CallInterrupted, TurnOver, healthVars
  <2> QED BY <2>1, <2>2, <2>4 DEF Leave, Typed, Unmoved, opVars
<1>5. CASE CallTimesOut(c) \/ CallCancelled(c)
  <2>1. \E how : Abandon(c, how)
    BY <1>5 DEF CallTimesOut, CallCancelled
  <2>2. poisoned' = poisoned
    BY <1>5 DEF CallTimesOut, CallCancelled, RecordFailure, healthVars
  <2> QED BY <2>1, <2>2 DEF Abandon, Typed, Unmoved
<1>6. CASE Cancel(c) \/ OperationStarts(c) \/ OperationEnds(c) \/ ConsumeDeferredFatal(c)
  BY <1>6 DEF Cancel, OperationStarts, OperationEnds, ConsumeDeferredFatal, Typed, Unmoved,
              callVars, opVars, healthVars
<1> QED BY <1>1, <1>2, <1>3, <1>4, <1>5, <1>6 DEF CallStep

\* The call itself.
LEMMA MovedAccounted ==
  ASSUME Typed, NEW c \in Calls, Accounted(c),
         \/ Enter(c) \/ CallStep(c) \/ Cancel(c) \/ OperationStarts(c) \/ OperationEnds(c)
         \/ ConsumeDeferredFatal(c)
  PROVE  Accounted(c)'
<1>1. CASE Enter(c)
  <2>1. phase[c] = "idle" /\ op[c] = "none"
    BY <1>1 DEF Enter, EnterRefused, EnterRunning, EnterQueue, Accounted
  <2>2. \/ phase'[c] \in {"done", "queued"} /\ op'[c] = "none"
        \/ phase'[c] = "running" /\ op'[c] = "created"
    BY <1>1, <2>1 DEF Enter, EnterRefused, EnterRunning, EnterQueue, NewOperation, Typed, opVars
  <2> QED BY <2>2 DEF Accounted
<1>2. CASE WaiterGranted(c)
  <2>1. phase[c] = "queued" /\ op[c] = "none"
    BY <1>2 DEF WaiterGranted, Accounted
  <2>2. \/ phase'[c] = "done" /\ op'[c] = "none"
        \/ phase'[c] = "running" /\ op'[c] = "created"
    BY <1>2, <2>1 DEF WaiterGranted, NewOperation, FinishHolding, Leave, Typed, opVars
  <2> QED BY <2>2 DEF Accounted
<1>3. CASE WaiterRefused(c) \/ WaiterTimesOut(c) \/ WaiterCancelled(c)
  <2>1. phase[c] = "queued" /\ op[c] = "none"
    BY <1>3 DEF WaiterRefused, WaiterTimesOut, WaiterCancelled, Accounted
  <2>2. phase'[c] = "done" /\ op'[c] = "none"
    BY <1>3, <2>1 DEF WaiterRefused, WaiterTimesOut, WaiterCancelled, Withdraw, Leave, Typed, opVars
  <2> QED BY <2>2 DEF Accounted
<1>4. CASE ResultArrives(c)
  <2>1. phase'[c] = "done" /\ op'[c] = "collected" /\ outcome'[c] = ending[c] /\ ending' = ending
    BY <1>4 DEF ResultArrives, FinishHolding, Leave, Typed, opVars
  <2> QED BY <2>1 DEF Accounted
<1>5. CASE CallTimesOut(c) \/ CallCancelled(c)
  <2>1. \E how : Abandon(c, how)
    BY <1>5 DEF CallTimesOut, CallCancelled
  <2>2. phase'[c] = "unwinding" /\ c \in detached' /\ c \notin cancelled'
    BY <2>1 DEF Abandon, Typed
  <2> QED BY <2>2 DEF Accounted
<1>6. CASE CallUnwound(c) \/ CallInterrupted(c)
  <2>1. phase[c] = "unwinding" /\ UNCHANGED <<op, ending, detached, fatal>>
    BY <1>6 DEF CallUnwound, CallInterrupted, TurnOver, opVars
  <2>2. phase'[c] = "done"
    BY <1>6 DEF CallUnwound, CallInterrupted, TurnOver, FinishHolding, Leave, Typed
  <2>3. op[c] \in {"created", "running"} => poisoned' \/ admission' = "closed" \/ Interruptible
    BY <1>6, <2>1 DEF CallUnwound, CallInterrupted, TurnOver, Unfinished, Accounted, admitVars
  <2> QED BY <2>1, <2>2, <2>3 DEF Accounted
<1>7. CASE Cancel(c)
  <2>1. /\ phase[c] # "unwinding" \/ Interruptible
        /\ UNCHANGED <<phase, outcome, opVars, healthVars, fatal>>
    BY <1>7 DEF Cancel, Interruptible
  <2>2. admission' = admission
    BY <1>7 DEF Cancel, admitVars
  <2> QED BY <2>1, <2>2 DEF Accounted, opVars, healthVars
<1>8. CASE OperationStarts(c) \/ OperationEnds(c)
  <2>1. op[c] \in {"created", "running"} /\ op'[c] \in {"running", "ended"}
    BY <1>8 DEF OperationStarts, OperationEnds, Typed
  <2>2. UNCHANGED <<callVars, detached, healthVars, admitVars>>
    BY <1>8 DEF OperationStarts, OperationEnds
  <2> QED BY <2>1, <2>2 DEF Accounted, callVars, healthVars, admitVars
<1>9. CASE ConsumeDeferredFatal(c)
  <2>1. fatal'[c] = "consumed" /\ UNCHANGED <<callVars, opVars, healthVars, admitVars>>
    BY <1>9 DEF ConsumeDeferredFatal, Typed
  <2> QED BY <2>1 DEF Accounted, callVars, opVars, healthVars, admitVars
<1> QED BY <1>1, <1>2, <1>3, <1>4, <1>5, <1>6, <1>7, <1>8, <1>9 DEF CallStep

\* The tasks of S, which ended, are collected.
LEMMA DiscardAccounted ==
  ASSUME Typed, NEW d \in Calls, Accounted(d), NEW S, Discard(S),
         \A c \in S : op[c] = "ended",
         UNCHANGED <<callVars, ending, admission>>
  PROVE  Accounted(d)'
<1>1. UNCHANGED <<phase, allowClosed, outcome, cancelled, ending, admission>>
  BY DEF callVars
<1>2. CASE d \in S
  <2>1. op[d] = "ended" /\ op'[d] = "collected"
    BY <1>2 DEF Discard
  <2>2. d \in detached /\ ending[d] = "fatal" => fatal'[d] = "deferred"
    BY <1>2 DEF Discard, DeferFatals
  <2> QED BY <1>1, <2>1, <2>2 DEF Accounted
<1>3. CASE d \notin S
  <2>1. op'[d] = op[d] /\ (d \in detached => d \in detached') /\ fatal'[d] = fatal[d]
    BY <1>3 DEF Discard, DeferFatals
  <2>2. poisoned /\ d \in detached /\ op[d] \in {"created", "running"} => poisoned'
    BY DEF Discard, StillDetached, Unfinished
  <2>3. Unmoved(d)
    BY <1>1, <2>1, <2>2 DEF Unmoved
  <2> QED BY <1>1, <2>3, UnmovedAccounted
<1> QED BY <1>2, <1>3

\* Every step keeps every call accounted for.
LEMMA AccountedKept ==
  ASSUME Typed, \A c \in Calls : Accounted(c), [Next]_vars
  PROVE  \A c \in Calls : Accounted(c)'
<1> SUFFICES ASSUME NEW d \in Calls PROVE Accounted(d)'
  OBVIOUS
<1>1. Accounted(d) /\ (admission = "closed" => admission' = "closed")
  BY ClosedStays
<1>2. ASSUME NEW c \in Calls,
             \/ Enter(c) \/ CallStep(c) \/ Cancel(c) \/ OperationStarts(c) \/ OperationEnds(c)
             \/ ConsumeDeferredFatal(c)
      PROVE  Accounted(d)'
  <2>1. CASE d = c
    BY <1>2, <2>1, MovedAccounted
  <2>2. CASE d # c
    BY <1>1, <1>2, <2>2, OthersUnmoved, UnmovedAccounted
  <2> QED BY <2>1, <2>2
<1>3. ASSUME NEW c \in Calls, OperationCollected(c) PROVE Accounted(d)'
  <2>1. Discard({c}) /\ op[c] = "ended" /\ UNCHANGED <<callVars, ending, admission>>
    BY <1>3 DEF OperationCollected, admitVars
  <2> QED BY <2>1, DiscardAccounted
<1>4. ASSUME CloseEnd PROVE Accounted(d)'
  <2> DEFINE S == {c \in Calls : op[c] = "ended"}
  <2>1. Discard(S) /\ UNCHANGED <<callVars, ending, admission>> /\ \A c \in S : op[c] = "ended"
    BY <1>4 DEF CloseEnd
  <2> HIDE DEF S
  <2> QED BY <2>1, DiscardAccounted
<1>5. ASSUME CloseBegin PROVE Accounted(d)'
  <2>1. Unmoved(d)
    BY <1>5 DEF CloseBegin, Unmoved, healthVars
  <2> QED BY <1>1, <2>1, UnmovedAccounted
<1>6. ASSUME \/ SetPolicy \/ ReconcilePolicy \/ CooldownEnds \/ SyncStep
             \/ HoldForPublication \/ ReleasePublicationHold \/ CloseAdmission \/ UNCHANGED vars
      PROVE  Accounted(d)'
  <2>1. UNCHANGED <<callVars, opVars, fatal, poisoned>>
    BY <1>6 DEF SetPolicy, ReconcilePolicy, CooldownEnds, SyncStep, HoldForPublication,
                ReleasePublicationHold, CloseAdmission, vars, healthVars
  <2>2. Unmoved(d)
    BY <2>1 DEF Unmoved, callVars, opVars
  <2> QED BY <1>1, <2>2, UnmovedAccounted
<1> QED BY <1>2, <1>3, <1>4, <1>5, <1>6 DEF Next

-----------------------------------------------------------------------------
(* A drained gate *)

\* A normal call that is over, or has not begun, neither begins nor gets its
\* operation back at a closed gate.
LEMMA NothingBegins ==
  ASSUME Typed, NEW c \in Calls, Accounted(c), admission = "closed",
         ~allowClosed[c] => phase[c] \in {"idle", "done"} /\ c \notin Unfinished,
         ~allowClosed'[c],
         \/ Enter(c) \/ CallStep(c) \/ Cancel(c) \/ OperationStarts(c) \/ OperationEnds(c)
         \/ ConsumeDeferredFatal(c)
  PROVE  phase'[c] \in {"idle", "done"} /\ (c \notin Unfinished)'
<1>1. CASE Enter(c)
  <2>1. PICK allow \in Scopes :
          EnterRefused(c, allow) \/ EnterRunning(c, allow) \/ EnterQueue(c, allow)
    BY <1>1 DEF Enter
  <2>2. allowClosed' = [allowClosed EXCEPT ![c] = allow]
    BY <2>1 DEF EnterRefused, EnterRunning, EnterQueue
  <2>3. Unavailable(allow) = "closed"
    <3>1. allow \in BOOLEAN /\ ~allow
      <4>1. allow \in BOOLEAN
        BY GateAssumption
      <4>2. allowClosed'[c] = allow
        BY <2>2 DEF Typed
      <4> QED BY <4>1, <4>2, Zenon
    <3>2. Unavailable(FALSE) = "closed"
      BY DEF Unavailable, IsClosed
    <3> QED BY <3>1, <3>2, Zenon
  <2>4. EnterRefused(c, allow)
    BY <2>1, <2>3 DEF EnterRunning, EnterQueue
  <2>5. phase'[c] = "done" /\ op'[c] = op[c] /\ phase[c] = "idle"
    BY <2>4 DEF EnterRefused, Typed, opVars
  <2>6. op[c] = "none"
    BY <2>5 DEF Accounted
  <2> QED BY <2>5, <2>6 DEF Unfinished
<1>2. CASE CallStep(c)
  <2>1. phase[c] \in {"queued", "running", "unwinding"}
    BY <1>2 DEF CallStep, WaiterGranted, WaiterRefused, WaiterTimesOut, WaiterCancelled,
                ResultArrives, CallTimesOut, CallCancelled, Awaiting, CallUnwound, CallInterrupted, TurnOver
  <2>2. UNCHANGED allowClosed
    BY <1>2 DEF CallStep, WaiterGranted, WaiterRefused, WaiterTimesOut, WaiterCancelled, Withdraw,
                ResultArrives, CallTimesOut, CallCancelled, Abandon, CallUnwound, CallInterrupted, TurnOver,
                FinishHolding, Leave
  <2> QED BY <2>1, <2>2
<1>3. CASE Cancel(c) \/ OperationStarts(c) \/ OperationEnds(c) \/ ConsumeDeferredFatal(c)
  <2>1. UNCHANGED <<phase, allowClosed>>
    BY <1>3 DEF Cancel, OperationStarts, OperationEnds, ConsumeDeferredFatal, callVars
  <2>2. c \notin Unfinished
    BY <2>1
  <2>3. op'[c] = op[c]
    BY <1>3, <2>2 DEF Cancel, OperationStarts, OperationEnds, ConsumeDeferredFatal, opVars,
                      Unfinished
  <2> QED BY <2>1, <2>2, <2>3 DEF Unfinished
<1> QED BY <1>1, <1>2, <1>3

\* Every step keeps a gate that was drained quiet.
LEMMA QuietKept ==
  ASSUME Typed, \A c \in Calls : Accounted(c), Quiet, [Next]_vars
  PROVE  Quiet'
<1>1. admission = "closed" => admission' = "closed"
  BY ClosedStays
<1>2. closeCall' = closeCall \/ CloseBegin \/ CloseEnd
  BY ZenonT(60) DEF Next, CallStep, Enter, EnterRefused, EnterRunning, EnterQueue, WaiterGranted,
         WaiterRefused, WaiterTimesOut, WaiterCancelled, ResultArrives, CallTimesOut,
         CallCancelled, Abandon, CallUnwound, CallInterrupted, TurnOver, Cancel, OperationStarts,
         OperationEnds, OperationCollected, ConsumeDeferredFatal, SetPolicy, ReconcilePolicy,
         CooldownEnds, SyncStep, HoldForPublication, ReleasePublicationHold, CloseAdmission,
         vars, admitVars
<1>3. closeCall' # "none" => admission' = "closed"
  BY <1>1, <1>2 DEF Quiet, CloseBegin, CloseEnd
<1>4. ASSUME closeCall' = "drained", NEW d \in Calls, ~allowClosed'[d]
      PROVE  phase'[d] \in {"idle", "done"} /\ (d \notin Unfinished)'
  <2>1. CASE CloseEnd
    <3>1. Active = {} /\ Unfinished = {} /\ phase' = phase
      BY <1>4, <2>1 DEF CloseEnd, Drained, callVars
    <3>2. op'[d] = op[d] \/ op'[d] = "collected"
      BY <2>1 DEF CloseEnd, Discard
    <3> QED BY <3>1, <3>2 DEF Active, Unfinished, Typed
  <2>2. CASE ~CloseEnd
    <3>1. closeCall = "drained" /\ admission = "closed" /\ ~CloseBegin
      BY <1>2, <1>4, <2>2 DEF Quiet, CloseBegin
    <3>2. ~allowClosed[d] => phase[d] \in {"idle", "done"} /\ d \notin Unfinished
      BY <3>1 DEF Quiet, DrainedStaysQuiet
    <3>3. ASSUME NEW c \in Calls,
                 \/ Enter(c) \/ CallStep(c) \/ Cancel(c) \/ OperationStarts(c)
                 \/ OperationEnds(c) \/ ConsumeDeferredFatal(c)
          PROVE  phase'[d] \in {"idle", "done"} /\ (d \notin Unfinished)'
      <4>1. CASE d = c
        BY <1>4, <3>1, <3>2, <3>3, <4>1, NothingBegins
      <4>2. CASE d # c
        <5>1. Unmoved(d)
          BY <3>3, <4>2, OthersUnmoved
        <5> QED BY <1>4, <3>2, <5>1 DEF Unmoved, Unfinished
      <4> QED BY <4>1, <4>2, Zenon
    <3>4. ASSUME NEW c \in Calls, OperationCollected(c)
          PROVE  phase'[d] \in {"idle", "done"} /\ (d \notin Unfinished)'
      <4>1. UNCHANGED <<phase, allowClosed>> /\ (op'[d] = op[d] \/ op'[d] = "collected")
        BY <3>4 DEF OperationCollected, Discard, callVars
      <4> QED BY <1>4, <3>2, <4>1 DEF Unfinished
    <3>5. ASSUME \/ SetPolicy \/ ReconcilePolicy \/ CooldownEnds \/ SyncStep
                 \/ HoldForPublication \/ ReleasePublicationHold \/ CloseAdmission
                 \/ UNCHANGED vars
          PROVE  phase'[d] \in {"idle", "done"} /\ (d \notin Unfinished)'
      <4>1. UNCHANGED <<phase, allowClosed, op>>
        BY <3>5 DEF SetPolicy, ReconcilePolicy, CooldownEnds, SyncStep, HoldForPublication,
                    ReleasePublicationHold, CloseAdmission, vars, callVars, opVars
      <4> QED BY <1>4, <3>2, <4>1 DEF Unfinished
    <3> QED BY <2>2, <3>1, <3>3, <3>4, <3>5 DEF Next
  <2> QED BY <2>1, <2>2
<1> QED BY <1>3, <1>4 DEF Quiet, DrainedStaysQuiet

-----------------------------------------------------------------------------
(* The quarantine *)

\* The quarantine begins when a call leaves an unfinished operation behind.
LEMMA QuarantineBegins ==
  ASSUME [Next]_vars, ~poisoned, poisoned'
  PROVE  \E c \in Calls : CallUnwound(c) /\ c \in Unfinished
BY ZenonT(60) DEF Next, CallStep, Enter, EnterRefused, EnterRunning, EnterQueue, WaiterGranted, WaiterRefused,
       WaiterTimesOut, WaiterCancelled, ResultArrives, CallTimesOut, CallCancelled, RecordFailure,
       RecordSuccess, CallUnwound, CallInterrupted, TurnOver, Cancel, OperationStarts, OperationEnds,
       OperationCollected, Discard, ConsumeDeferredFatal, SetPolicy, ReconcilePolicy,
       CooldownEnds, SyncStep, HoldForPublication, ReleasePublicationHold, CloseAdmission,
       CloseBegin, CloseEnd, vars, healthVars

\* An operation that was left behind and not collected
Cause(e) == e \in detached /\ op[e] \in {"created", "running", "ended"}

\* Only its collection takes such an operation away.
LEMMA CauseStays ==
  ASSUME Typed, \A c \in Calls : Accounted(c), NEW e \in Calls, Cause(e), [Next]_vars,
         ~CloseEnd, \A c \in Calls : ~OperationCollected(c)
  PROVE  Cause(e)'
<1>1. ASSUME NEW c \in Calls,
             \/ Enter(c) \/ CallStep(c) \/ Cancel(c) \/ OperationStarts(c) \/ OperationEnds(c)
             \/ ConsumeDeferredFatal(c)
      PROVE  Cause(e)'
  <2>1. CASE e # c
    <3>1. Unmoved(e)
      BY <1>1, <2>1, OthersUnmoved
    <3> QED BY <3>1 DEF Unmoved, Cause
  <2>2. CASE e = c
    <3>1. phase[c] \notin {"idle", "queued"}
      BY <2>2 DEF Accounted, Cause
    <3>2. ~Enter(c) /\ ~WaiterGranted(c)
      BY <3>1 DEF Enter, EnterRefused, EnterRunning, EnterQueue, WaiterGranted
    <3>3. CASE OperationStarts(c) \/ OperationEnds(c)
      BY <2>2, <3>3 DEF OperationStarts, OperationEnds, Typed, Cause
    <3>4. CASE CallTimesOut(c) \/ CallCancelled(c)
      BY <2>2, <3>4 DEF CallTimesOut, CallCancelled, Abandon, Cause
    <3>5. CASE \/ WaiterRefused(c) \/ WaiterTimesOut(c) \/ WaiterCancelled(c) \/ ResultArrives(c)
               \/ CallUnwound(c) \/ CallInterrupted(c) \/ Cancel(c) \/ ConsumeDeferredFatal(c)
      <4>1. UNCHANGED opVars
        BY <3>5 DEF WaiterRefused, WaiterTimesOut, WaiterCancelled, ResultArrives, CallUnwound,
                    CallInterrupted, TurnOver, Cancel, ConsumeDeferredFatal
      <4> QED BY <4>1 DEF opVars, Cause
    <3> QED BY <1>1, <3>2, <3>3, <3>4, <3>5 DEF CallStep
  <2> QED BY <2>1, <2>2
<1>2. ASSUME \/ SetPolicy \/ ReconcilePolicy \/ CooldownEnds \/ SyncStep \/ CloseBegin
             \/ HoldForPublication \/ ReleasePublicationHold \/ CloseAdmission \/ UNCHANGED vars
      PROVE  Cause(e)'
  <2>1. UNCHANGED <<op, detached>>
    BY <1>2 DEF SetPolicy, ReconcilePolicy, CooldownEnds, SyncStep, HoldForPublication,
                ReleasePublicationHold, CloseAdmission, CloseBegin, vars, opVars
  <2> QED BY <2>1 DEF Cause
<1> QED BY <1>1, <1>2 DEF Next

\* The quarantine is lifted with its last cause.
LEMMA HasCauseKept ==
  ASSUME Typed, \A c \in Calls : Accounted(c), QuarantineHasCause, [Next]_vars
  PROVE  QuarantineHasCause'
<1> SUFFICES ASSUME poisoned' PROVE \E e \in Calls : Cause(e)'
  BY DEF QuarantineHasCause, Cause
<1>1. CASE ~poisoned
  <2>1. PICK c \in Calls : CallUnwound(c) /\ c \in Unfinished
    BY <1>1, QuarantineBegins
  <2>2. c \in detached /\ op[c] \in {"created", "running"}
    BY <2>1 DEF Accounted, CallUnwound, TurnOver, Unfinished
  <2>3. UNCHANGED opVars
    BY <2>1 DEF CallUnwound, TurnOver
  <2> QED BY <2>2, <2>3 DEF Cause, opVars
<1>2. CASE poisoned
  <2>1. PICK e \in Calls : Cause(e)
    BY <1>2 DEF QuarantineHasCause, Cause, Typed
  <2>2. ASSUME NEW S, Discard(S), \A c \in S : op[c] = "ended"
        PROVE  \E d \in Calls : Cause(d)'
    <3>1. CASE S = {}
      <4>1. Cause(e)'
        BY <2>1, <2>2, <3>1 DEF Discard, Cause
      <4> QED BY <4>1
    <3>2. CASE S # {}
      <4>1. PICK d \in Calls : d \in Unfinished /\ d \in detached
        BY <2>2, <3>2 DEF Discard, StillDetached, Unfinished
      <4>2. Cause(d)'
        BY <2>2, <4>1 DEF Discard, Unfinished, Cause
      <4> QED BY <4>2
    <3> QED BY <3>1, <3>2
  <2>3. CASE CloseEnd
    <3> DEFINE S == {c \in Calls : op[c] = "ended"}
    <3>1. Discard(S) /\ \A c \in S : op[c] = "ended"
      BY <2>3 DEF CloseEnd
    <3> HIDE DEF S
    <3> QED BY <2>2, <3>1
  <2>4. ASSUME NEW c \in Calls, OperationCollected(c) PROVE \E d \in Calls : Cause(d)'
    BY <2>2, <2>4 DEF OperationCollected
  <2>5. CASE ~CloseEnd /\ \A c \in Calls : ~OperationCollected(c)
    BY <2>1, <2>5, CauseStays
  <2> QED BY <2>3, <2>4, <2>5
<1> QED BY <1>1, <1>2

\* An operation begins with a call that is admitted at once, or resumes with its
\* slot and finds the gate available.
LEMMA Newcomer ==
  ASSUME Typed, NEW c \in Calls, c \notin Unfinished, (c \in Unfinished)', [Next]_vars
  PROVE  /\ Unavailable(allowClosed'[c]) = "none" /\ allowClosed'[c] \in BOOLEAN
         /\ \/ gateRunning < Capacity
            \/ c \in Holders
         /\ Enter(c) \/ CallStep(c)
<1>1. op[c] \notin {"created", "running"} /\ op'[c] \in {"created", "running"}
  BY DEF Unfinished
<1>2. ASSUME NEW e \in Calls, Enter(e) PROVE e = c /\ \E allow \in Scopes : EnterRunning(c, allow)
  <2>1. PICK allow \in Scopes :
          EnterRefused(e, allow) \/ EnterRunning(e, allow) \/ EnterQueue(e, allow)
    BY <1>2 DEF Enter
  <2>2. ~EnterRefused(e, allow) /\ ~EnterQueue(e, allow)
    BY <1>1 DEF EnterRefused, EnterQueue, opVars
  <2>3. op' = [op EXCEPT ![e] = "created"]
    BY <2>1, <2>2 DEF EnterRunning, NewOperation
  <2>4. e = c
    BY <1>1, <2>3 DEF Typed
  <2> QED BY <2>1, <2>2, <2>4
<1>3. ASSUME NEW e \in Calls, CallStep(e)
      PROVE  e = c /\ WaiterGranted(c) /\ Unavailable(allowClosed[c]) = "none"
  <2>1. WaiterGranted(e) /\ Unavailable(allowClosed[e]) = "none"
    BY <1>1, <1>3 DEF CallStep, WaiterGranted, WaiterRefused, WaiterTimesOut, WaiterCancelled,
                      ResultArrives, CallTimesOut, CallCancelled, Abandon, CallUnwound,
                      CallInterrupted, TurnOver, opVars
  <2>2. op' = [op EXCEPT ![e] = "created"]
    BY <2>1 DEF WaiterGranted, NewOperation
  <2>3. e = c
    BY <1>1, <2>2 DEF Typed
  <2> QED BY <2>1, <2>3
<1>4. ASSUME NEW e \in Calls,
             \/ Cancel(e) \/ OperationStarts(e) \/ OperationEnds(e) \/ OperationCollected(e)
             \/ ConsumeDeferredFatal(e)
      PROVE  FALSE
  BY <1>1, <1>4 DEF Cancel, OperationStarts, OperationEnds, OperationCollected, Discard,
                    ConsumeDeferredFatal, Typed, opVars
<1>5. ASSUME \/ SetPolicy \/ ReconcilePolicy \/ CooldownEnds \/ SyncStep \/ CloseBegin \/ CloseEnd
             \/ HoldForPublication \/ ReleasePublicationHold \/ CloseAdmission \/ UNCHANGED vars
      PROVE  FALSE
  BY <1>1, <1>5 DEF SetPolicy, ReconcilePolicy, CooldownEnds, SyncStep, HoldForPublication,
                    ReleasePublicationHold, CloseAdmission, CloseBegin, CloseEnd, Discard, vars,
                    opVars
<1>6. \/ Enter(c) /\ \E allow \in Scopes : EnterRunning(c, allow)
      \/ CallStep(c) /\ WaiterGranted(c) /\ Unavailable(allowClosed[c]) = "none"
  BY <1>2, <1>3, <1>4, <1>5 DEF Next
<1>7. ASSUME NEW allow \in Scopes, EnterRunning(c, allow)
      PROVE  /\ Unavailable(allowClosed'[c]) = "none" /\ allowClosed'[c] \in BOOLEAN
             /\ gateRunning < Capacity
  <2>1. allowClosed'[c] = allow /\ allow \in BOOLEAN
    BY <1>7, GateAssumption DEF EnterRunning, Typed
  <2> QED BY <1>7, <2>1 DEF EnterRunning, FreeSlot
<1>8. ASSUME WaiterGranted(c), Unavailable(allowClosed[c]) = "none"
      PROVE  /\ Unavailable(allowClosed'[c]) = "none" /\ allowClosed'[c] \in BOOLEAN
             /\ c \in Holders
  BY <1>8 DEF WaiterGranted, Holders, Typed
<1> QED BY <1>6, <1>7, <1>8

\* A normal operation of a sequential plugin begins alone: what else is
\* unfinished holds the slot, or keeps the gate closed or in quarantine.
LEMMA BeginsAlone ==
  ASSUME SlotInv, \A e \in Calls : Accounted(e), ~Interruptible, [Next]_vars,
         mode = "sequential",
         NEW c \in Calls, c \notin Unfinished, (c \in Unfinished)', ~allowClosed'[c],
         NEW d \in Calls, d # c
  PROVE  (d \notin Unfinished)'
<1>1. Typed /\ Slots /\ Capacity = 1
  BY CapacityType DEF SlotInv
<1>2. /\ Unavailable(allowClosed'[c]) = "none" /\ allowClosed'[c] \in BOOLEAN
      /\ gateRunning < Capacity \/ c \in Holders
      /\ Enter(c) \/ CallStep(c)
  BY <1>1, Newcomer
<1>3. Unmoved(d)
  BY <1>1, <1>2, OthersUnmoved
<1>4. admission # "closed" /\ ~poisoned
  <2>1. Unavailable(FALSE) = "none"
    BY <1>2, Zenon
  <2> QED BY <2>1 DEF Unavailable, IsClosed
<1>5. SUFFICES ASSUME d \in Unfinished PROVE FALSE
  BY <1>3 DEF Unmoved, Unfinished
<1>6. d \in Holders
  <2>1. phase[d] \notin {"idle", "queued", "done"}
    BY <1>4, <1>5 DEF Accounted, Unfinished
  <2> QED BY <1>1, <2>1 DEF Typed, Holders
<1>7. Holders \in SUBSET Calls /\ IsFiniteSet(Holders)
  <2>1. Holders \in SUBSET Calls
    BY DEF Holders
  <2> QED BY <2>1, FiniteCalls
<1>8. gateRunning = Cardinality(Holders) /\ gateRunning <= 1
  BY <1>1 DEF Slots
<1>9. CASE c \in Holders
  <2>1. {c, d} \subseteq Holders
    BY <1>6, <1>9
  <2>2. IsFiniteSet({d}) /\ Cardinality({d}) = 1
    BY FS_Singleton
  <2>3. {d} \cup {c} = {c, d} /\ c \notin {d}
    OBVIOUS
  <2>4. Cardinality({c, d}) = 2 /\ IsFiniteSet({c, d})
    BY <2>2, <2>3, FS_AddElement
  <2>5. Cardinality({c, d}) <= Cardinality(Holders) /\ Cardinality(Holders) \in Nat
    BY <1>7, <2>1, FS_Subset, FS_CardinalityType
  <2> QED BY <1>8, <2>4, <2>5
<1>10. CASE gateRunning < Capacity
  <2>1. Cardinality(Holders) \in Nat /\ Cardinality(Holders) = 0
    BY <1>1, <1>7, <1>8, <1>10, FS_CardinalityType
  <2>2. Holders = {}
    BY <1>7, <2>1, FS_EmptySet
  <2> QED BY <1>6, <2>2
<1> QED BY <1>2, <1>9, <1>10

\* allow_closed is set when a call enters, before it has an operation.
LEMMA ScopeFixed ==
  ASSUME Typed, NEW c \in Calls, Accounted(c), c \in Unfinished, [Next]_vars
  PROVE  allowClosed'[c] = allowClosed[c]
<1>1. ASSUME NEW e \in Calls,
             \/ Enter(e) \/ CallStep(e) \/ Cancel(e) \/ OperationStarts(e) \/ OperationEnds(e)
             \/ ConsumeDeferredFatal(e), e # c
      PROVE  allowClosed'[c] = allowClosed[c]
  <2>1. Unmoved(c)
    BY <1>1, OthersUnmoved
  <2> QED BY <2>1 DEF Unmoved
<1>2. ~Enter(c)
  BY DEF Enter, EnterRefused, EnterRunning, EnterQueue, Accounted, Unfinished
<1>3. ASSUME CallStep(c) PROVE allowClosed'[c] = allowClosed[c]
  BY <1>3 DEF CallStep, WaiterGranted, WaiterRefused, WaiterTimesOut, WaiterCancelled, Withdraw,
              ResultArrives, CallTimesOut, CallCancelled, Abandon, CallUnwound, CallInterrupted, TurnOver,
              FinishHolding, Leave
<1>4. ASSUME NEW e \in Calls,
             \/ Cancel(e) \/ OperationStarts(e) \/ OperationEnds(e) \/ OperationCollected(e)
             \/ ConsumeDeferredFatal(e)
      PROVE  allowClosed'[c] = allowClosed[c]
  BY <1>4 DEF Cancel, OperationStarts, OperationEnds, OperationCollected, ConsumeDeferredFatal,
              callVars
<1>5. ASSUME \/ SetPolicy \/ ReconcilePolicy \/ CooldownEnds \/ SyncStep \/ CloseBegin \/ CloseEnd
             \/ HoldForPublication \/ ReleasePublicationHold \/ CloseAdmission \/ UNCHANGED vars
      PROVE  allowClosed'[c] = allowClosed[c]
  BY <1>5 DEF SetPolicy, ReconcilePolicy, CooldownEnds, SyncStep, HoldForPublication,
              ReleasePublicationHold, CloseAdmission, CloseBegin, CloseEnd, vars, callVars
<1> QED BY <1>1, <1>2, <1>3, <1>4, <1>5 DEF Next

\* Two normal operations of a sequential plugin are never unfinished together.
LEMMA OneAtATimeKept ==
  ASSUME SlotInv, \A e \in Calls : Accounted(e), ~Interruptible, OneAtATime, [Next]_vars
  PROVE  OneAtATime'
<1>1. Typed
  BY DEF SlotInv
<1>2. mode' = mode
  BY ZenonT(60) DEF Next, CallStep, Enter, EnterRefused, EnterRunning, EnterQueue, WaiterGranted,
         WaiterRefused, WaiterTimesOut, WaiterCancelled, ResultArrives, CallTimesOut,
         CallCancelled, Abandon, CallUnwound, CallInterrupted, TurnOver, Cancel, OperationStarts,
         OperationEnds, OperationCollected, ConsumeDeferredFatal, SetPolicy, ReconcilePolicy,
         CooldownEnds, SyncStep, HoldForPublication, ReleasePublicationHold, CloseAdmission,
         CloseBegin, CloseEnd, vars, policyVars
<1> SUFFICES ASSUME mode = "sequential", NEW c \in Calls, NEW d \in Calls, c # d,
                    (c \in Unfinished)', (d \in Unfinished)', ~allowClosed'[c], ~allowClosed'[d]
             PROVE  FALSE
  <2>1. \A e \in Unfinished' : e \in Calls /\ (e \in Unfinished)'
    BY DEF Unfinished
  <2> QED BY <1>2, <2>1 DEF OneAtATime
<1>3. c \in Unfinished /\ d \in Unfinished
  BY BeginsAlone
<1>4. ~allowClosed[c] /\ ~allowClosed[d]
  BY <1>1, <1>3, ScopeFixed
<1> QED BY <1>3, <1>4 DEF OneAtATime

-----------------------------------------------------------------------------
(* The invariant *)

\* A fresh gate satisfies the invariant.
LEMMA IInvInit ==
  ASSUME Init
  PROVE  IInv
<1>1. Typed
  <2>1. /\ phase \in [Calls -> {"idle", "queued", "running", "unwinding", "done"}]
        /\ ready \in [Calls -> {"none", "pending", "granted", "refused"}]
        /\ outcome \in [Calls -> Results \cup {"none"}]
        /\ op \in [Calls -> {"none", "created", "running", "ended", "collected"}]
        /\ ending \in [Calls -> Endings \cup {"none", "cancelled"}]
        /\ fatal \in [Calls -> {"none", "deferred", "consumed"}]
    BY DEF Init
  <2>2. allowClosed \in [Calls -> BOOLEAN] /\ failures \in 0..FailureThreshold
    BY GateAssumption DEF Init
  <2> QED BY <2>1, <2>2 DEF Init, Typed
<1>2. Holders = {} /\ Unfinished = {}
  BY DEF Init, Holders, Unfinished
<1>3. gateWaiters = <<>> /\ gateRunning = 0 /\ Cardinality(Holders) = 0
  BY <1>2, FS_EmptySet DEF Init
<1>4. Line
  <2>1. gateWaiters \in Seq(Calls) /\ IsInjective(gateWaiters) /\ Range(gateWaiters) = {}
    <3>1. <<>> \in Seq(Calls)
      BY EmptySeq
    <3>2. IsInjective(<<>>) /\ Range(<<>>) = {}
      BY <3>1, EmptyFacts
    <3> QED BY <1>3, <3>1, <3>2
  <2>2. \A c \in Calls : phase[c] = "idle"
    BY DEF Init
  <2> QED BY <2>1, <2>2 DEF Line
<1>5. Slots
  BY <1>3 DEF Slots
<1>6. \A c \in Calls : Accounted(c)
  BY DEF Init, Accounted
<1>7. Quiet /\ QuarantineHasCause /\ OneAtATime
  BY <1>2 DEF Init, Quiet, DrainedStaysQuiet, QuarantineHasCause, OneAtATime
<1> QED BY <1>1, <1>4, <1>5, <1>6, <1>7 DEF IInv, SlotInv

\* Whatever the calls, limits, policies and cancellations, the invariant holds.
THEOREM Invariance == Spec => []IInv
<1>1. Init => IInv
  BY IInvInit
<1>2. IInv /\ [Next]_vars => IInv'
  <2> SUFFICES ASSUME IInv, [Next]_vars PROVE IInv'
    OBVIOUS
  <2>1. SlotInv /\ Typed /\ (\A c \in Calls : Accounted(c)) /\ Quiet /\ QuarantineHasCause
    BY DEF IInv, SlotInv
  <2>2. /\ Line' /\ Slots'
        /\ ready' \in [Calls -> {"none", "pending", "granted", "refused"}]
    BY <2>1, SlotsKept
  <2>3. Typed'
    BY <2>1, <2>2, TypedKept
  <2>4. \A c \in Calls : Accounted(c)'
    BY <2>1, AccountedKept
  <2>5. Quiet'
    BY <2>1, QuietKept
  <2>6. QuarantineHasCause'
    BY <2>1, HasCauseKept
  <2>7. ~Interruptible => OneAtATime'
    BY <2>1, OneAtATimeKept DEF IInv
  <2> QED BY <2>2, <2>3, <2>4, <2>5, <2>6, <2>7 DEF IInv, SlotInv, Interruptible
<1> QED BY <1>1, <1>2, PTL DEF Spec

-----------------------------------------------------------------------------
(* What it means for the gate *)

\* A slot is counted exactly while a call holds it, and no call waits at a free
\* one: _gate_running survives every way out of run().
THEOREM SlotsAreExact == Spec => []SlotsExact
<1>1. ASSUME IInv PROVE SlotsExact
  <2>1. Typed /\ Line /\ Slots
    BY <1>1 DEF IInv, SlotInv
  <2>2. gateRunning \in 0..Cardinality(Calls)
    <3>1. Holders \in SUBSET Calls
      BY DEF Holders
    <3>2. Cardinality(Holders) \in Nat /\ Cardinality(Holders) <= Cardinality(Calls)
      BY <3>1, FiniteCalls
    <3>3. Cardinality(Calls) \in Nat
      BY GateAssumption, FS_CardinalityType
    <3> QED BY <2>1, <3>2, <3>3 DEF Slots
  <2>3. TypeOK
    BY <2>1, <2>2 DEF Typed, Line, TypeOK
  <2>4. (\E c \in Calls : phase[c] = "queued" /\ ready[c] = "pending") => gateWaiters # <<>>
    BY <2>1, EmptyFacts DEF Line
  <2> QED BY <2>1, <2>3, <2>4 DEF Slots, SlotsExact
<1> QED BY <1>1, Invariance, PTL

\* What was left behind keeps the gate in quarantine, no shorter and no longer,
\* unless a second cancellation meets a call that gives its operation a turn.
THEOREM QuarantineIsExact ==
  ASSUME "unwinding" \notin CancelPoints
  PROVE  Spec => []QuarantineExact
<1>1. IInv => QuarantineExact
  BY DEF IInv, Interruptible, QuarantineExact
<1> QED BY <1>1, Invariance, PTL

\* Once close() said that the gate is drained, nothing normal runs or waits.
THEOREM DrainedIsQuiet == Spec => []DrainedStaysQuiet
<1>1. IInv => DrainedStaysQuiet
  BY DEF IInv, Quiet
<1> QED BY <1>1, Invariance, PTL

\* The fatal error of an operation that was given up reaches the owner of the
\* generation, or stays in the task that the gate still keeps.
THEOREM FatalsAreKept == Spec => []LateFatalKept
<1>1. IInv => LateFatalKept
  BY DEF IInv, Accounted, LateFatalKept
<1> QED BY <1>1, Invariance, PTL

\* A normal operation begins only at a gate that is open, healthy and not in
\* quarantine when it begins, whatever it was when the call was admitted.
THEOREM StartsAvailable == Spec => StartsOnlyWhenAvailable
<1>1. IInv /\ [Next]_vars =>
        [\A c \in Calls : op[c] = "none" /\ op'[c] = "created" /\ ~allowClosed'[c]
           => admission = "open" /\ ~poisoned /\ ~circuitOpen /\ sync # "detached"]_vars
  <2> SUFFICES ASSUME IInv, [Next]_vars, NEW c \in Calls,
                      op[c] = "none", op'[c] = "created", ~allowClosed'[c]
               PROVE  admission = "open" /\ ~poisoned /\ ~circuitOpen /\ sync # "detached"
    OBVIOUS
  <2>1. Typed /\ c \notin Unfinished /\ (c \in Unfinished)'
    BY DEF IInv, SlotInv, Unfinished
  <2>2. Unavailable(allowClosed'[c]) = "none" /\ allowClosed'[c] \in BOOLEAN
    BY <2>1, Newcomer
  <2>3. Unavailable(FALSE) = "none"
    BY <2>2, Zenon
  <2> QED BY <2>3 DEF Unavailable, IsClosed, SyncPoisoned
<1> QED BY <1>1, Invariance, PTL DEF Spec, StartsOnlyWhenAvailable

\* The gate admits as a first-come pool of slots, for any calls and limits: a
\* newcomer takes a slot only when nobody waits, the others get theirs in the
\* order in which they came, and none is granted above the limit of the moment,
\* through timeouts, cancellations, refusals, a close and changes of policy.
THEOREM IsASlotPool == Spec => ImplementsSlotPool
<1>1. Init => Pool!PoolInit
  <2> SUFFICES ASSUME Init PROVE Pool!PoolInit
    OBVIOUS
  <2>1. Holders = {} /\ Pending = {}
    BY DEF Init, Holders, Pending
  <2>2. Order(gateWaiters, Pending) = {}
    BY <2>1 DEF Order
  <2>3. Capacity \in ParallelLimits \cup {1}
    BY DEF Init, Capacity
  <2> QED BY <2>1, <2>2, <2>3 DEF Pool!PoolInit
<1>2. IInv /\ [Next]_vars => [Pool!PoolNext]_(Pool!poolVars)
  BY SlotsKept DEF IInv, AsPool
<1> QED BY <1>1, <1>2, Invariance, PTL DEF Spec, ImplementsSlotPool, Pool!PoolSpec
=============================================================================
