------------------------ MODULE InboundDispatcherProofs ------------------------
(***************************************************************************)
(* Theorems about InboundDispatcher, for any events, session keys, number  *)
(* of workers and queue size: lanes and counts are exact, no lane with     *)
(* work is forgotten, every key is served one event at a time in the order *)
(* of admission, and the actions of handlers are accounted for.            *)
(***************************************************************************)
EXTENDS InboundDispatcher, DequeLemmas

Active == {e \in Events : status[e] \in {"pending", "running"}}

\* An event is in its own lane exactly while it is pending, once, and runs in
\* its lane exactly while it is running.
LanesHold ==
  /\ \A k \in Keys : IsInjective(pending[k])
  /\ \A k \in Keys, e \in Events :
       e \in Range(pending[k]) <=> KeyOf[e] = k /\ status[e] = "pending"
  /\ \A k \in Keys, e \in Events : running[k] = e <=> KeyOf[e] = k /\ status[e] = "running"

CountHolds == inflight = Cardinality(Active) /\ inflight <= Capacity

\* A key is in the ready queue once and exactly while its lane says so; a lane
\* with work and without a handler is there.
ReadyHolds ==
  /\ IsInjective(readyKeys)
  /\ \A k \in Keys : k \in Range(readyKeys) <=> ready[k]
  /\ \A k \in Keys : ready[k] => running[k] = NoEvent
  /\ \A k \in Keys : pending[k] # <<>> /\ running[k] = NoEvent => ready[k]

\* What a worker carries is running, and no other worker carries it.
CarriersHold ==
  /\ \A w \in Workers : carries[w] # NoEvent =>
       status[carries[w]] = "running" /\ worker[w] = "busy" /\ looping # w
  /\ \A v, w \in Workers : carries[v] = carries[w] /\ carries[v] # NoEvent => v = w
  /\ looping # 0 => looping \in Live

\* Workers that have not looked at the ready queue yet, or do so now
Runners == {w \in Workers : worker[w] = "created" \/ looping = w}

\* There is one for every key in the ready queue, or no more may be started.
WorkersKeepUp ==
  doneDue = 0 /\ (~stopping \/ inflight > 0) =>
    Cardinality(Live) = MaxWorkers \/ Cardinality(Runners) >= Len(readyKeys)

\* A dispatcher that stops admits nothing, and reaps when nothing is left.
StopsHold ==
  /\ stopping => ~accepting
  /\ stopCall # "none" => stopping
  /\ stopCall = "reaping" => inflight = 0

\* How far a ticket can be, and what its result and its operation are there
FatesHold ==
  /\ \A e \in Events :
       /\ status[e] = "new" <=> result[e] = "none"
       /\ status[e] \in {"new", "pending"} => op[e] = "none"
       /\ op[e] \notin {"none", "actions"} => status[e] = "running"
       /\ result[e] = "waiting" => status[e] \in {"pending", "running"}
       /\ result[e] = "actions" => status[e] = "finished" /\ op[e] = "actions"
       /\ unsent[e] # "no" => result[e] = "actions"
       /\ e \in settled => status[e] = "finished"
  /\ workerCancels = 0 => interrupted = {}

IInv ==
  /\ TypeOK /\ LanesHold /\ CountHolds /\ ReadyHolds /\ CarriersHold /\ WorkersKeepUp
  /\ StopsHold /\ FatesHold /\ ActionsAccounted

-----------------------------------------------------------------------------
(* Workers and lanes *)

\* A finite set has subsets of every smaller size.
LEMMA SubsetOfSize ==
  ASSUME NEW T, IsFiniteSet(T), NEW n \in 0..Cardinality(T)
  PROVE  \E S \in SUBSET T : Cardinality(S) = n
<1> DEFINE m == Cardinality(T)
<1>1. m \in Nat /\ n \in Nat /\ n <= m
  BY FS_CardinalityType
<1>2. PICK f : f \in Bijection(1..m, T)
  BY FS_CardinalityType DEF ExistsBijection
<1>3. /\ f \in [1..m -> T]
      /\ \A i, k \in 1..m : f[i] = f[k] => i = k
  BY <1>2 DEF Bijection, Injection, IsInjective
<1> HIDE DEF m
<1> DEFINE S == {f[i] : i \in 1..n}
           g == [i \in 1..n |-> f[i]]
<1>4. S \in SUBSET T
  BY <1>1, <1>3
<1>5. \A i \in 1..n : i \in 1..m
  BY <1>1
<1>6. g \in Bijection(1..n, S)
  BY <1>3, <1>5 DEF Bijection, Injection, Surjection, IsInjective
<1>7. ExistsBijection(1..n, S)
  BY <1>6 DEF ExistsBijection
<1>8. Cardinality(S) = n
  BY <1>1, <1>7, FS_CountingElements
<1> QED BY <1>4, <1>8

LEMMA WorkerFacts ==
  /\ IsFiniteSet(Workers) /\ Cardinality(Workers) = MaxWorkers
  /\ MaxWorkers \in Nat /\ 0 \notin Workers
BY DispatcherAssumption, FS_Interval DEF Workers

\* There are at most MaxWorkers of anything that is a worker.
LEMMA Crew ==
  ASSUME NEW S \in SUBSET Workers
  PROVE  IsFiniteSet(S) /\ Cardinality(S) \in Nat /\ Cardinality(S) <= MaxWorkers
BY WorkerFacts, FS_Subset, FS_CardinalityType

\* _ensure_workers leaves living workers alone and starts one per ready key, or
\* as many as there may be.
LEMMA EnsureFacts ==
  ASSUME worker \in [Workers -> {"none", "created", "busy"}], NEW n \in Nat, EnsureWorkers(n)
  PROVE  /\ worker' \in [Workers -> {"none", "created", "busy"}]
         /\ \A w \in Live : worker'[w] = worker[w]
         /\ \A w \in Workers : worker[w] = "created" => worker'[w] = "created"
         /\ Live \subseteq Live'
         /\ \/ Cardinality(Live') = MaxWorkers
            \/ Cardinality({w \in Workers : worker'[w] = "created"}) >= n
<1> DEFINE missing == IF MaxWorkers < Cardinality(Live) + n
                      THEN MaxWorkers - Cardinality(Live) ELSE n
           fresh == CHOOSE W \in SUBSET (Workers \ Live) : Cardinality(W) = missing
<1>1. /\ Live \in SUBSET Workers /\ IsFiniteSet(Live) /\ Cardinality(Live) \in Nat
      /\ Cardinality(Live) <= MaxWorkers /\ MaxWorkers \in Nat
  BY Crew, WorkerFacts DEF Live
<1>2. /\ IsFiniteSet(Workers \ Live)
      /\ Cardinality(Workers \ Live) = MaxWorkers - Cardinality(Live)
  <2>1. Workers \cap Live = Live
    BY <1>1
  <2> QED BY <2>1, WorkerFacts, FS_Difference
<1>3. missing \in 0..Cardinality(Workers \ Live)
  BY <1>1, <1>2
<1> HIDE DEF missing
<1>4. fresh \in SUBSET (Workers \ Live) /\ Cardinality(fresh) = missing
  BY <1>2, <1>3, SubsetOfSize
<1>5. worker' = [w \in Workers |-> IF w \in fresh THEN "created" ELSE worker[w]]
  BY DEF EnsureWorkers, missing
<1> HIDE DEF fresh
<1>6. /\ worker' \in [Workers -> {"none", "created", "busy"}]
      /\ \A w \in Live : worker'[w] = worker[w]
      /\ \A w \in Workers : worker[w] = "created" => worker'[w] = "created"
      /\ Live' = Live \cup fresh
  BY <1>4, <1>5 DEF Live
<1>7. Live \cap fresh = {} /\ IsFiniteSet(fresh)
  BY <1>4, Crew
<1>8. Cardinality(Live') = Cardinality(Live) + missing
  <2>1. Cardinality(Live \cup fresh) = Cardinality(Live) + Cardinality(fresh) - Cardinality({})
    BY <1>1, <1>7, FS_Union
  <2> QED BY <1>1, <1>4, <1>6, <2>1, FS_EmptySet, <1>3
<1>9. CASE MaxWorkers < Cardinality(Live) + n
  BY <1>1, <1>6, <1>8, <1>9 DEF missing
<1>10. CASE ~(MaxWorkers < Cardinality(Live) + n)
  <2> DEFINE created == {w \in Workers : worker'[w] = "created"}
  <2>1. fresh \in SUBSET created /\ created \in SUBSET Workers
    BY <1>4, <1>5
  <2>2. Cardinality(fresh) <= Cardinality(created)
    BY <2>1, Crew, FS_Subset
  <2> QED BY <1>4, <1>6, <1>10, <2>2 DEF missing
<1> QED BY <1>9, <1>10

LEMMA EventFacts ==
  ASSUME IInv
  PROVE  /\ NoEvent \notin Events /\ IsFiniteSet(Events) /\ Capacity \in Nat
         /\ \A e \in Events : KeyOf[e] \in Keys
         /\ IsFiniteSet(Active) /\ inflight \in Nat
         /\ \A k \in Keys : pending[k] \in Seq(Events) /\ IsInjective(pending[k])
         /\ \A k \in Keys : running[k] \in Events \cup {NoEvent}
         /\ readyKeys \in Seq(Keys) /\ Len(readyKeys) \in Nat
<1>1. IsFiniteSet(Active)
  BY DispatcherAssumption, FS_Subset DEF Active
<1>2. Len(readyKeys) \in Nat
  BY LenProperties DEF IInv, TypeOK
<1> QED BY <1>1, <1>2, DispatcherAssumption DEF IInv, TypeOK, LanesHold, Capacity

\* A ticket leaves its lane without having run.
LEMMA Leaving ==
  ASSUME IInv, NEW e \in Events, status[e] = "pending",
         pending' = [pending EXCEPT ![KeyOf[e]] = Without(@, e)],
         status' = [status EXCEPT ![e] = "finished"],
         inflight' = inflight - 1, running' = running
  PROVE  /\ LanesHold' /\ CountHolds' /\ inflight' \in Nat /\ inflight' < inflight
         /\ pending' \in [Keys -> Seq(Events)] /\ status' \in [Events -> Statuses]
         /\ \A k \in Keys : pending[k] = <<>> => pending'[k] = <<>>
<1> DEFINE q == KeyOf[e]
           rest == Without(pending[q], e)
<1>1. /\ TypeOK /\ LanesHold /\ CountHolds /\ q \in Keys
      /\ pending[q] \in Seq(Events) /\ IsInjective(pending[q])
  BY EventFacts DEF IInv
<1>2. /\ rest \in Seq(Events) /\ IsInjective(rest) /\ Range(rest) = Range(pending[q]) \ {e}
  BY <1>1, WithoutFacts
<1>3. \A k \in Keys : pending'[k] = IF k = q THEN rest ELSE pending[k]
  BY <1>1 DEF TypeOK
<1>4. \A d \in Events : status'[d] = IF d = e THEN "finished" ELSE status[d]
  BY <1>1 DEF TypeOK
<1>5. pending[q] # <<>>
  BY <1>1, EmptyFacts DEF LanesHold
<1>6. pending' = [pending EXCEPT ![q] = rest]
  OBVIOUS
<1> HIDE DEF q, rest
<1>7. LanesHold'
  <2>1. \A k \in Keys : IsInjective(pending'[k])
    BY <1>1, <1>2, <1>3 DEF LanesHold
  <2>2. ASSUME NEW k \in Keys, NEW d \in Events
        PROVE  d \in Range(pending'[k]) <=> KeyOf[d] = k /\ status'[d] = "pending"
    <3>1. CASE k = q
      <4>1. d \in Range(pending'[k]) <=> d \in Range(pending[q]) /\ d # e
        BY <1>2, <1>3, <3>1
      <4> QED BY <1>1, <1>4, <3>1, <4>1 DEF LanesHold
    <3>2. CASE k # q
      <4>1. pending'[k] = pending[k]
        BY <1>3, <3>2
      <4> QED BY <1>1, <1>4, <3>2, <4>1 DEF LanesHold, q
    <3> QED BY <3>1, <3>2
  <2>3. \A k \in Keys, d \in Events : running'[k] = d <=> KeyOf[d] = k /\ status'[d] = "running"
    BY <1>1, <1>4 DEF LanesHold
  <2> QED BY <2>1, <2>2, <2>3 DEF LanesHold
<1>8. Active' = Active \ {e} /\ e \in Active
  BY <1>4 DEF Active
<1>9. CountHolds' /\ inflight' \in Nat /\ inflight' < inflight
  <2>1. Cardinality(Active \ {e}) = Cardinality(Active) - 1
    BY <1>8, EventFacts, FS_RemoveElement
  <2>2. IsFiniteSet(Active \ {e}) /\ Cardinality(Active \ {e}) \in Nat
    BY EventFacts, FS_RemoveElement, FS_CardinalityType
  <2> QED BY <1>1, <1>8, <2>1, <2>2, EventFacts DEF CountHolds, Capacity
<1>10. pending' \in [Keys -> Seq(Events)] /\ status' \in [Events -> Statuses]
  BY <1>1, <1>2, <1>6 DEF TypeOK, Statuses
<1> QED BY <1>3, <1>5, <1>7, <1>9, <1>10

\* cancel() of a ticket, wherever it is
LEMMA CancelFacts ==
  ASSUME IInv, NEW e \in Events, CancelTicket(e), running' = running
  PROVE  /\ LanesHold' /\ CountHolds' /\ inflight' \in Nat /\ inflight' <= inflight
         /\ pending' \in [Keys -> Seq(Events)] /\ status' \in [Events -> Statuses]
         /\ result' \in [Events -> Results] /\ opCancel' \subseteq Events
         /\ \A k \in Keys : pending[k] = <<>> => pending'[k] = <<>>
         /\ \A d \in Events :
              /\ status'[d] = IF d = e /\ status[d] = "pending" THEN "finished" ELSE status[d]
              /\ result'[d] = IF d = e /\ result[d] = "waiting" THEN "failed" ELSE result[d]
<1>1. TypeOK /\ FatesHold /\ LanesHold /\ CountHolds
  BY DEF IInv
<1>2. /\ result' \in [Events -> Results] /\ opCancel' \subseteq Events
      /\ \A d \in Events : result'[d] = IF d = e /\ result[d] = "waiting" THEN "failed" ELSE result[d]
  <2>1. result[e] = "waiting" => status[e] # "finished"
    BY <1>1 DEF FatesHold
  <2> QED BY <1>1, <2>1 DEF CancelTicket, TypeOK, Results
<1>3. CASE status[e] = "pending"
  <2>1. /\ pending' = [pending EXCEPT ![KeyOf[e]] = Without(@, e)]
        /\ status' = [status EXCEPT ![e] = "finished"] /\ inflight' = inflight - 1
    BY <1>3 DEF CancelTicket
  <2>2. /\ LanesHold' /\ CountHolds' /\ inflight' \in Nat /\ inflight' < inflight
        /\ pending' \in [Keys -> Seq(Events)] /\ status' \in [Events -> Statuses]
        /\ \A k \in Keys : pending[k] = <<>> => pending'[k] = <<>>
    BY <1>3, <2>1, Leaving
  <2>3. \A d \in Events : status'[d] = IF d = e THEN "finished" ELSE status[d]
    BY <1>1, <2>1 DEF TypeOK
  <2> QED BY <1>2, <1>3, <2>2, <2>3, EventFacts
<1>4. CASE status[e] # "pending"
  <2>1. pending' = pending /\ status' = status /\ inflight' = inflight
    BY <1>4 DEF CancelTicket
  <2>2. LanesHold' /\ CountHolds'
    BY <1>1, <2>1 DEF LanesHold, CountHolds, Active
  <2> QED BY <1>1, <1>2, <1>4, <2>1, <2>2, EventFacts DEF TypeOK
<1> QED BY <1>3, <1>4

\* What _schedule_lane does to the ready queue when it starts no worker.
LEMMA RequeueFacts ==
  ASSUME ready \in [Keys -> BOOLEAN], NEW k \in Keys, NEW rest,
         NEW queue \in Seq(Keys), IsInjective(queue), k \notin Range(queue),
         \A l \in Keys : l # k => (l \in Range(queue) <=> ready[l]),
         Requeue(k, rest, queue)
  PROVE  /\ ready' \in [Keys -> BOOLEAN] /\ readyKeys' \in Seq(Keys)
         /\ IsInjective(readyKeys')
         /\ \A l \in Keys : l \in Range(readyKeys') <=> ready'[l]
         /\ \A l \in Keys : ready'[l] <=> IF l = k THEN rest # <<>> ELSE ready[l]
         /\ Len(readyKeys') <= Len(queue) + 1
<1>1. ready' \in [Keys -> BOOLEAN]
  BY DEF Requeue
<1>2. \A l \in Keys : ready'[l] <=> IF l = k THEN rest # <<>> ELSE ready[l]
  BY DEF Requeue
<1>3. Len(queue) \in Nat
  BY LenProperties
<1>4. CASE rest = <<>>
  <2>1. readyKeys' = queue
    BY <1>4 DEF Requeue
  <2> QED BY <1>1, <1>2, <1>3, <1>4, <2>1
<1>5. CASE rest # <<>>
  <2>1. readyKeys' = Append(queue, k)
    BY <1>5 DEF Requeue
  <2>2. /\ readyKeys' \in Seq(Keys) /\ IsInjective(readyKeys')
        /\ Len(readyKeys') = Len(queue) + 1 /\ Range(readyKeys') = Range(queue) \cup {k}
    BY <2>1, AppendFacts
  <2> QED BY <1>1, <1>2, <1>3, <1>5, <2>2
<1> QED BY <1>4, <1>5

-----------------------------------------------------------------------------
(* Every step keeps the invariant *)

LEMMA InitHolds == Init => IInv
<1> SUFFICES ASSUME Init PROVE IInv
  OBVIOUS
<1>1. \A S : <<>> \in Seq(S)
  BY EmptySeq
<1>2. Range(<<>>) = {} /\ IsInjective(<<>>)
  BY <1>1, EmptyFacts
<1>3. Live = {} /\ Active = {}
  BY WorkerFacts DEF Init, Live, Active
<1>4. TypeOK
  <2>1. /\ pending \in [Keys -> Seq(Events)] /\ readyKeys \in Seq(Keys)
        /\ running \in [Keys -> Events \cup {NoEvent}] /\ ready \in [Keys -> BOOLEAN]
    BY <1>1 DEF Init
  <2>2. cancelling \subseteq Live /\ interrupted \subseteq cancelling
    BY DEF Init
  <2>3. /\ status \in [Events -> Statuses] /\ result \in [Events -> Results]
        /\ op \in [Events -> {"none", "running", "cancelled"} \cup Endings]
        /\ unsent \in [Events -> {"no", "discarded", "cancelled"}]
        /\ opCancel \subseteq Events /\ cancelDue \subseteq Events /\ settled \subseteq Events
    BY DEF Init, Statuses, Results
  <2>4. /\ worker \in [Workers -> {"none", "created", "busy"}]
        /\ carries \in [Workers -> Events \cup {NoEvent}]
        /\ looping \in Workers \cup {0} /\ doneDue \in Nat
    BY DEF Init
  <2>5. /\ stops \in Nat /\ workerCancels \in Nat /\ stops + workerCancels <= MaxDisturbances
        /\ inflight \in Nat /\ accepting \in BOOLEAN /\ stopping \in BOOLEAN
        /\ stopCall \in {"none", "draining", "aborting", "reaping"}
    <3>1. MaxDisturbances \in Nat
      BY DispatcherAssumption
    <3>2. stops = 0 /\ workerCancels = 0 /\ inflight = 0
      BY DEF Init
    <3>3. accepting \in BOOLEAN /\ stopping \in BOOLEAN /\ stopCall = "none"
      BY DEF Init
    <3> QED BY <3>1, <3>2, <3>3
  <2> QED BY <2>1, <2>2, <2>3, <2>4, <2>5 DEF TypeOK
<1>5. LanesHold
  BY <1>2, DispatcherAssumption DEF Init, LanesHold
<1>6. CountHolds
  BY <1>3, FS_EmptySet, DispatcherAssumption DEF Init, CountHolds, Capacity
<1>7. ReadyHolds
  BY <1>2 DEF Init, ReadyHolds
<1>8. CarriersHold
  BY DEF Init, CarriersHold
<1>9. WorkersKeepUp
  <2>1. Runners \in SUBSET Workers
    BY DEF Runners
  <2>2. Cardinality(Runners) >= Len(readyKeys)
    BY <2>1, Crew, EmptySeq DEF Init
  <2> QED BY <2>2 DEF WorkersKeepUp
<1>10. StopsHold /\ FatesHold /\ ActionsAccounted
  BY DEF Init, StopsHold, FatesHold, ActionsAccounted
<1> QED BY <1>4, <1>5, <1>6, <1>7, <1>8, <1>9, <1>10 DEF IInv

\* admit()
LEMMA AdmitKeeps ==
  ASSUME IInv, NEW e \in Events, Admit(e)
  PROVE  IInv'
<1> DEFINE k == KeyOf[e]
           line == Append(pending[k], e)
<1>1. /\ TypeOK /\ LanesHold /\ CountHolds /\ ReadyHolds /\ CarriersHold /\ WorkersKeepUp
      /\ StopsHold /\ FatesHold /\ ActionsAccounted
      /\ k \in Keys /\ status[e] = "new" /\ accepting /\ ~stopping /\ Idle
  BY EventFacts DEF IInv, Admit, StopsHold
<1>2. /\ line \in Seq(Events) /\ IsInjective(line) /\ Range(line) = Range(pending[k]) \cup {e}
      /\ line # <<>>
  <2>1. e \notin Range(pending[k])
    BY <1>1 DEF LanesHold
  <2> QED BY <1>1, <2>1, AppendFacts, AppendHead, EventFacts
<1>3. /\ \A d \in Events : status'[d] = IF d = e THEN "pending" ELSE status[d]
      /\ \A d \in Events : result'[d] = IF d = e THEN "waiting" ELSE result[d]
      /\ \A l \in Keys : pending'[l] = IF l = k THEN line ELSE pending[l]
      /\ pending' \in [Keys -> Seq(Events)]
      /\ status' \in [Events -> Statuses] /\ result' \in [Events -> Results]
      /\ inflight' = inflight + 1
  <2>1. /\ status' = [status EXCEPT ![e] = "pending"] /\ result' = [result EXCEPT ![e] = "waiting"]
        /\ pending' = [pending EXCEPT ![k] = line] /\ inflight' = inflight + 1
    BY DEF Admit
  <2> HIDE DEF k, line
  <2> QED BY <1>1, <1>2, <2>1 DEF TypeOK, Statuses, Results
<1>4. UNCHANGED <<op, opCancel, settled, unsent, cancelDue, running, carries, cancelling,
                  interrupted, doneDue, looping, workerCancels, stopVars>>
  BY DEF Admit

<1>5. /\ ready' \in [Keys -> BOOLEAN] /\ readyKeys' \in Seq(Keys) /\ IsInjective(readyKeys')
      /\ \A l \in Keys : l \in Range(readyKeys') <=> ready'[l]
      /\ \A l \in Keys : ready'[l] <=> ready[l] \/ (l = k /\ running[k] = NoEvent)
      /\ worker' \in [Workers -> {"none", "created", "busy"}]
      /\ \A w \in Live : worker'[w] = worker[w]
      /\ Live \subseteq Live'
      /\ WorkersKeepUp'
  <2>1. CASE Schedulable(k)
    <3>1. /\ ready' = [ready EXCEPT ![k] = TRUE] /\ readyKeys' = Append(readyKeys, k)
          /\ EnsureWorkers(Len(readyKeys) + 1)
      BY <2>1 DEF Admit
    <3>2. Len(readyKeys) \in Nat /\ k \notin Range(readyKeys)
      BY <1>1, <2>1, EventFacts DEF ReadyHolds, Schedulable
    <3>3. /\ readyKeys' \in Seq(Keys) /\ IsInjective(readyKeys')
          /\ Len(readyKeys') = Len(readyKeys) + 1 /\ Range(readyKeys') = Range(readyKeys) \cup {k}
      BY <1>1, <3>1, <3>2, AppendFacts, EventFacts DEF ReadyHolds
    <3>4. /\ worker' \in [Workers -> {"none", "created", "busy"}]
          /\ \A w \in Live : worker'[w] = worker[w]
          /\ Live \subseteq Live'
          /\ \/ Cardinality(Live') = MaxWorkers
             \/ Cardinality({w \in Workers : worker'[w] = "created"}) >= Len(readyKeys) + 1
      <4>1. worker \in [Workers -> {"none", "created", "busy"}] /\ Len(readyKeys) + 1 \in Nat
        BY <1>1, <3>2 DEF TypeOK
      <4>2. EnsureWorkers(Len(readyKeys) + 1)
        BY <3>1
      <4> QED BY <4>1, <4>2, EnsureFacts
    <3>5. Cardinality({w \in Workers : worker'[w] = "created"}) <= Cardinality(Runners')
      <4>1. {w \in Workers : worker'[w] = "created"} \subseteq Runners' /\ Runners' \in SUBSET Workers
        BY DEF Runners
      <4> QED BY <4>1, Crew, FS_Subset
    <3>6. WorkersKeepUp'
      <4>1. Runners' \in SUBSET Workers /\ {w \in Workers : worker'[w] = "created"} \in SUBSET Workers
        BY DEF Runners
      <4>2. /\ Cardinality(Runners') \in Nat
            /\ Cardinality({w \in Workers : worker'[w] = "created"}) \in Nat
        BY <4>1, Crew
      <4> QED BY <3>2, <3>3, <3>4, <3>5, <4>2 DEF WorkersKeepUp
    <3>7. \A l \in Keys : ready'[l] <=> ready[l] \/ (l = k /\ running[k] = NoEvent)
      BY <1>1, <2>1, <3>1 DEF TypeOK, Schedulable
    <3>8. ready' \in [Keys -> BOOLEAN]
      BY <1>1, <3>1 DEF TypeOK
    <3>9. \A l \in Keys : l \in Range(readyKeys') <=> ready'[l]
      BY <1>1, <2>1, <3>3, <3>7 DEF ReadyHolds, Schedulable
    <3> QED BY <3>3, <3>4, <3>6, <3>7, <3>8, <3>9
  <2>2. CASE ~Schedulable(k)
    <3>1. UNCHANGED <<ready, readyKeys, worker>>
      BY <2>2 DEF Admit
    <3>2. WorkersKeepUp'
      BY <1>1, <1>4, <3>1 DEF WorkersKeepUp, Live, Runners, stopVars
    <3> QED BY <1>1, <2>2, <3>1, <3>2 DEF ReadyHolds, TypeOK, Schedulable, Live
  <2> QED BY <2>1, <2>2
<1> HIDE DEF k, line
<1>6. Active' = Active \cup {e} /\ e \notin Active
  BY <1>1, <1>3 DEF Active
<1>7. CountHolds' /\ inflight' \in Nat
  <2>1. Cardinality(Active \cup {e}) = Cardinality(Active) + 1
    BY <1>6, EventFacts, FS_AddElement
  <2>2. inflight < Capacity
    BY DEF Admit
  <2> QED BY <1>1, <1>3, <1>6, <2>1, <2>2, EventFacts DEF CountHolds, Capacity
<1>8. TypeOK'
  <2>1. cancelling \subseteq Live'
    BY <1>1, <1>5 DEF TypeOK
  <2> QED BY <1>1, <1>3, <1>4, <1>5, <1>7, <2>1 DEF TypeOK, stopVars
<1>9. LanesHold'
  <2>1. \A l \in Keys : IsInjective(pending'[l])
    BY <1>1, <1>2, <1>3 DEF LanesHold
  <2>2. ASSUME NEW l \in Keys, NEW d \in Events
        PROVE  d \in Range(pending'[l]) <=> KeyOf[d] = l /\ status'[d] = "pending"
    <3>1. CASE l = k
      <4>1. d \in Range(pending'[l]) <=> d \in Range(pending[k]) \/ d = e
        BY <1>2, <1>3, <3>1
      <4>2. KeyOf[e] = k
        BY DEF k
      <4>3. CASE d = e
        BY <1>3, <3>1, <4>1, <4>2, <4>3
      <4>4. CASE d # e
        BY <1>1, <1>3, <3>1, <4>1, <4>4 DEF LanesHold
      <4> QED BY <4>3, <4>4
    <3>2. CASE l # k
      <4>1. pending'[l] = pending[l]
        BY <1>3, <3>2
      <4> QED BY <1>1, <1>3, <3>2, <4>1 DEF LanesHold, k
    <3> QED BY <3>1, <3>2
  <2>3. \A l \in Keys, d \in Events : running'[l] = d <=> KeyOf[d] = l /\ status'[d] = "running"
    BY <1>1, <1>3, <1>4 DEF LanesHold
  <2> QED BY <2>1, <2>2, <2>3 DEF LanesHold
<1>10. ReadyHolds'
  BY <1>1, <1>3, <1>4, <1>5 DEF ReadyHolds
<1>11. CarriersHold'
  <2>1. \A w \in Workers : carries[w] # NoEvent => worker'[w] = "busy" /\ status'[carries[w]] = "running"
    BY <1>1, <1>3, <1>5 DEF CarriersHold, Live, TypeOK
  <2> QED BY <1>1, <1>4, <1>5, <2>1 DEF CarriersHold
<1>12. StopsHold'
  BY <1>1, <1>4 DEF StopsHold, stopVars
<1>13. FatesHold'
  BY ZenonT(60), <1>1, <1>3, <1>4 DEF FatesHold
<1>14. ActionsAccounted'
  BY <1>1, <1>3, <1>4 DEF ActionsAccounted
<1> QED BY <1>5, <1>7, <1>8, <1>9, <1>10, <1>11, <1>12, <1>13, <1>14 DEF IInv

\* While events leave, workers and the ready queue need not change.
LEMMA Fewer ==
  ASSUME IInv, inflight' \in Nat, inflight' <= inflight,
         UNCHANGED <<worker, carries, doneDue, looping, running, ready, readyKeys, stopping>>,
         \A k \in Keys : pending[k] = <<>> => pending'[k] = <<>>,
         \A d \in Events : status[d] = "running" => status'[d] = "running"
  PROVE  ReadyHolds' /\ CarriersHold' /\ WorkersKeepUp'
<1>1. ReadyHolds /\ CarriersHold /\ WorkersKeepUp /\ inflight \in Nat /\ TypeOK
  BY EventFacts DEF IInv
<1>2. ReadyHolds'
  BY <1>1 DEF ReadyHolds
<1>3. CarriersHold'
  BY <1>1 DEF CarriersHold, Live, TypeOK
<1>4. WorkersKeepUp'
  BY <1>1 DEF WorkersKeepUp, Live, Runners
<1> QED BY <1>2, <1>3, <1>4

\* What cancel() does not touch
LEMMA CancelKeeps ==
  ASSUME IInv, NEW e \in Events, CancelTicket(e),
         UNCHANGED <<op, running, ready, readyKeys, workerVars, looping, workerCancels, stopVars>>,
         unsent' \in [Events -> {"no", "discarded", "cancelled"}], cancelDue' \subseteq Events,
         settled' \subseteq Events,
         \A d \in Events : unsent'[d] # "no" => result[d] = "actions",
         \A d \in Events : d \in settled' => status[d] = "finished"
  PROVE  /\ TypeOK' /\ LanesHold' /\ CountHolds' /\ ReadyHolds' /\ CarriersHold'
         /\ WorkersKeepUp' /\ StopsHold' /\ FatesHold'
<1>1. TypeOK /\ StopsHold /\ FatesHold /\ inflight \in Nat
  BY EventFacts DEF IInv
<1>2. UNCHANGED <<worker, carries, cancelling, interrupted, doneDue, accepting, stopping, stopCall,
                  stops>>
  BY DEF workerVars, stopVars
<1>3. /\ LanesHold' /\ CountHolds' /\ inflight' \in Nat /\ inflight' <= inflight
      /\ pending' \in [Keys -> Seq(Events)] /\ status' \in [Events -> Statuses]
      /\ result' \in [Events -> Results] /\ opCancel' \subseteq Events
      /\ \A k \in Keys : pending[k] = <<>> => pending'[k] = <<>>
      /\ \A d \in Events :
           /\ status'[d] = IF d = e /\ status[d] = "pending" THEN "finished" ELSE status[d]
           /\ result'[d] = IF d = e /\ result[d] = "waiting" THEN "failed" ELSE result[d]
  BY CancelFacts
<1>4. ReadyHolds' /\ CarriersHold' /\ WorkersKeepUp'
  BY <1>2, <1>3, Fewer
<1>5. TypeOK'
  BY <1>1, <1>2, <1>3 DEF TypeOK, Live
<1>6. StopsHold'
  BY <1>1, <1>2, <1>3 DEF StopsHold
<1>7. FatesHold'
  <2>1. \A d \in Events :
          /\ status'[d] = "new" <=> result'[d] = "none"
          /\ status'[d] \in {"new", "pending"} => op'[d] = "none"
          /\ op'[d] \notin {"none", "actions"} => status'[d] = "running"
    BY <1>1, <1>3 DEF FatesHold
  <2>2. \A d \in Events :
          /\ result'[d] = "waiting" => status'[d] \in {"pending", "running"}
          /\ result'[d] = "actions" => status'[d] = "finished" /\ op'[d] = "actions"
    BY <1>1, <1>3 DEF FatesHold
  <2>3. \A d \in Events :
          /\ unsent'[d] # "no" => result'[d] = "actions"
          /\ d \in settled' => status'[d] = "finished"
    BY <1>1, <1>3 DEF FatesHold
  <2> QED BY <1>1, <1>2, <2>1, <2>2, <2>3 DEF FatesHold
<1> QED BY <1>3, <1>4, <1>5, <1>6, <1>7

\* discard()
LEMMA DiscardKeeps ==
  ASSUME IInv, NEW e \in Events, Discard(e)
  PROVE  IInv'
<1>1. TypeOK /\ FatesHold /\ ActionsAccounted
  BY DEF IInv
<1>2. /\ result[e] \in {"waiting", "actions"} /\ unsent[e] = "no" /\ CancelTicket(e)
      /\ unsent' = [unsent EXCEPT ![e] = IF result[e] = "actions" THEN "discarded" ELSE @]
      /\ settled' = IF result[e] = "actions" THEN settled \cup {e} ELSE settled
      /\ UNCHANGED <<op, cancelDue, running, ready, readyKeys, workerVars, looping,
                     workerCancels, stopVars>>
  BY DEF Discard
<1>3. /\ unsent' \in [Events -> {"no", "discarded", "cancelled"}] /\ settled' \subseteq Events
      /\ \A d \in Events :
           unsent'[d] = IF d = e /\ result[d] = "actions" THEN "discarded" ELSE unsent[d]
  BY <1>1, <1>2 DEF TypeOK
<1>4. /\ \A d \in Events : unsent'[d] # "no" => result[d] = "actions"
      /\ \A d \in Events : d \in settled' => status[d] = "finished"
  BY <1>1, <1>2, <1>3 DEF FatesHold
<1>5. /\ TypeOK' /\ LanesHold' /\ CountHolds' /\ ReadyHolds' /\ CarriersHold'
      /\ WorkersKeepUp' /\ StopsHold' /\ FatesHold'
  BY <1>1, <1>2, <1>3, <1>4, CancelKeeps DEF TypeOK
<1>6. ActionsAccounted'
  <2>1. \A d \in Events :
          /\ status'[d] = IF d = e /\ status[d] = "pending" THEN "finished" ELSE status[d]
          /\ result'[d] = IF d = e /\ result[d] = "waiting" THEN "failed" ELSE result[d]
    BY <1>2, CancelFacts
  <2>2. ASSUME workerCancels = 0, NEW d \in Events, op[d] = "actions", status'[d] = "finished"
        PROVE  d \in settled' <=> result'[d] # "actions" \/ unsent'[d] = "discarded"
    <3>1. status[d] = "finished" /\ result'[d] = result[d]
      BY <1>1, <2>1, <2>2 DEF FatesHold
    <3> QED BY <1>1, <1>2, <1>3, <2>2, <3>1 DEF ActionsAccounted
  <2> QED BY <1>2, <2>2 DEF ActionsAccounted
<1> QED BY <1>5, <1>6 DEF IInv

\* A cancelled caller of wait()
LEMMA CancelCallerKeeps ==
  ASSUME IInv, NEW e \in Events, CancelCaller(e)
  PROVE  IInv'
<1>1. /\ TypeOK /\ FatesHold /\ ActionsAccounted /\ LanesHold /\ CountHolds /\ StopsHold
      /\ inflight \in Nat
  BY EventFacts DEF IInv
<1>2. /\ result[e] \in {"waiting", "actions"} /\ unsent[e] = "no"
      /\ unsent' = [unsent EXCEPT ![e] = IF result[e] = "actions" THEN "cancelled" ELSE @]
      /\ UNCHANGED <<op, settled, running, ready, readyKeys, workerVars, looping,
                     workerCancels, stopVars>>
  BY DEF CancelCaller
<1>3. /\ unsent' \in [Events -> {"no", "discarded", "cancelled"}]
      /\ \A d \in Events :
           unsent'[d] = IF d = e /\ result[d] = "actions" THEN "cancelled" ELSE unsent[d]
  BY <1>1, <1>2 DEF TypeOK
<1>4. /\ \A d \in Events : unsent'[d] # "no" => result[d] = "actions"
      /\ \A d \in Events : d \in settled' => status[d] = "finished"
  BY <1>1, <1>2, <1>3 DEF FatesHold
<1>5. CASE result[e] = "waiting"
  <2>1. /\ result' = [result EXCEPT ![e] = "failed"] /\ cancelDue' = cancelDue \cup {e}
        /\ UNCHANGED <<status, opCancel, pending, inflight>>
    BY <1>5 DEF CancelCaller
  <2>2. UNCHANGED <<worker, carries, cancelling, interrupted, doneDue, accepting, stopping,
                    stopCall, stops>>
    BY <1>2 DEF workerVars, stopVars
  <2>3. /\ result' \in [Events -> Results]
        /\ \A d \in Events : result'[d] = IF d = e THEN "failed" ELSE result[d]
    BY <1>1, <2>1 DEF TypeOK, Results
  <2>4. TypeOK'
    BY <1>1, <1>2, <1>3, <2>1, <2>2, <2>3 DEF TypeOK, Live
  <2>5. LanesHold' /\ CountHolds' /\ StopsHold'
    BY <1>1, <1>2, <2>1, <2>2 DEF LanesHold, CountHolds, Active, StopsHold
  <2>6. ReadyHolds' /\ CarriersHold' /\ WorkersKeepUp'
    BY <1>1, <1>2, <2>1, <2>2, Fewer
  <2>7. FatesHold'
    BY <1>1, <1>2, <1>3, <1>4, <1>5, <2>1, <2>2, <2>3 DEF FatesHold
  <2>8. ActionsAccounted'
    BY <1>1, <1>2, <1>3, <1>5, <2>1, <2>3 DEF ActionsAccounted, FatesHold
  <2> QED BY <2>4, <2>5, <2>6, <2>7, <2>8 DEF IInv
<1>6. CASE result[e] # "waiting"
  <2>1. CancelTicket(e) /\ cancelDue' = cancelDue
    BY <1>6 DEF CancelCaller
  <2>2. /\ TypeOK' /\ LanesHold' /\ CountHolds' /\ ReadyHolds' /\ CarriersHold'
        /\ WorkersKeepUp' /\ StopsHold' /\ FatesHold'
    BY <1>1, <1>2, <1>3, <1>4, <2>1, CancelKeeps DEF TypeOK
  <2>3. \A d \in Events :
          /\ status'[d] = IF d = e /\ status[d] = "pending" THEN "finished" ELSE status[d]
          /\ result'[d] = IF d = e /\ result[d] = "waiting" THEN "failed" ELSE result[d]
    BY <1>2, <2>1, CancelFacts
  <2>4. ASSUME workerCancels = 0, NEW d \in Events, op[d] = "actions", status'[d] = "finished"
        PROVE  d \in settled' <=> result'[d] # "actions" \/ unsent'[d] = "discarded"
    <3>1. status[d] = "finished" /\ result'[d] = result[d]
      BY <1>1, <2>3, <2>4 DEF FatesHold
    <3> QED BY <1>1, <1>2, <1>3, <2>4, <3>1 DEF ActionsAccounted
  <2>5. ActionsAccounted'
    BY <1>2, <2>4 DEF ActionsAccounted
  <2> QED BY <2>2, <2>5 DEF IInv
<1> QED BY <1>5, <1>6

\* _cancel_if_result_cancelled
LEMMA ResultCancelledKeeps ==
  ASSUME IInv, NEW e \in Events, ResultCancelled(e)
  PROVE  IInv'
<1>1. TypeOK /\ FatesHold /\ ActionsAccounted
  BY DEF IInv
<1>2. /\ CancelTicket(e) /\ cancelDue' = cancelDue \ {e}
      /\ UNCHANGED <<op, settled, unsent, running, ready, readyKeys, workerVars, looping,
                     workerCancels, stopVars>>
  BY DEF ResultCancelled
<1>3. /\ TypeOK' /\ LanesHold' /\ CountHolds' /\ ReadyHolds' /\ CarriersHold'
      /\ WorkersKeepUp' /\ StopsHold' /\ FatesHold'
  <2>1. /\ \A d \in Events : unsent'[d] # "no" => result[d] = "actions"
        /\ \A d \in Events : d \in settled' => status[d] = "finished"
        /\ unsent' \in [Events -> {"no", "discarded", "cancelled"}] /\ cancelDue' \subseteq Events
        /\ settled' \subseteq Events
    BY <1>1, <1>2 DEF FatesHold, TypeOK
  <2> QED BY <1>2, <2>1, CancelKeeps
<1>4. \A d \in Events :
        /\ status'[d] = IF d = e /\ status[d] = "pending" THEN "finished" ELSE status[d]
        /\ result'[d] = IF d = e /\ result[d] = "waiting" THEN "failed" ELSE result[d]
  BY <1>2, CancelFacts
<1>5. ASSUME workerCancels = 0, NEW d \in Events, op[d] = "actions", status'[d] = "finished"
      PROVE  d \in settled' <=> result'[d] # "actions" \/ unsent'[d] = "discarded"
  <2>1. status[d] = "finished" /\ result'[d] = result[d]
    BY <1>1, <1>4, <1>5 DEF FatesHold
  <2> QED BY <1>1, <1>2, <1>5, <2>1 DEF ActionsAccounted
<1>6. ActionsAccounted'
  BY <1>2, <1>5 DEF ActionsAccounted
<1> QED BY <1>3, <1>6 DEF IInv

\* The end of a worker task, while its lane is none of its business
LEMMA DiesKeeps ==
  ASSUME IInv, NEW w \in Workers, carries[w] = NoEvent, Dies(w),
         UNCHANGED <<ticketVars, unsent, cancelDue, laneVars, carries, workerCancels, inflight,
                     stopVars>>
  PROVE  IInv'
<1>1. /\ TypeOK /\ LanesHold /\ CountHolds /\ ReadyHolds /\ CarriersHold /\ WorkersKeepUp
      /\ StopsHold /\ FatesHold /\ ActionsAccounted
  BY DEF IInv
<1>2. UNCHANGED <<status, result, op, opCancel, settled, unsent, cancelDue, pending, running, ready,
                  readyKeys, carries, workerCancels, inflight, accepting, stopping, stopCall, stops>>
  BY DEF ticketVars, laneVars, stopVars
<1>3. /\ worker' = [worker EXCEPT ![w] = "none"] /\ cancelling' = cancelling \ {w}
      /\ interrupted' = interrupted \ {w} /\ doneDue' = doneDue + 1 /\ looping' = 0
  BY DEF Dies
<1>4. Live' = Live \ {w}
  BY <1>1, <1>3 DEF Live, TypeOK
<1>5. TypeOK'
  BY <1>1, <1>2, <1>3, <1>4 DEF TypeOK
<1>6. LanesHold' /\ CountHolds' /\ ReadyHolds'
  <2>1. LanesHold' /\ CountHolds'
    BY <1>1, <1>2 DEF LanesHold, CountHolds, Active
  <2>2. ReadyHolds'
    BY <1>1, <1>2 DEF ReadyHolds
  <2> QED BY <2>1, <2>2
<1>7. CarriersHold'
  <2>1. \A v \in Workers : worker'[v] = IF v = w THEN "none" ELSE worker[v]
    BY <1>1, <1>3 DEF TypeOK
  <2> QED BY <1>1, <1>2, <1>3, <2>1, WorkerFacts DEF CarriersHold
<1>8. WorkersKeepUp'
  BY <1>1, <1>3 DEF WorkersKeepUp, TypeOK
<1>9. StopsHold' /\ ActionsAccounted'
  BY <1>1, <1>2 DEF StopsHold, ActionsAccounted
<1>10. FatesHold'
  BY <1>1, <1>2, <1>3 DEF FatesHold
<1> QED BY <1>5, <1>6, <1>7, <1>8, <1>9, <1>10 DEF IInv

\* First turn of a worker
LEMMA WorkerBeginsKeeps ==
  ASSUME IInv, NEW w \in Workers, WorkerBegins(w)
  PROVE  IInv'
<1>1. /\ TypeOK /\ LanesHold /\ CountHolds /\ ReadyHolds /\ CarriersHold /\ WorkersKeepUp
      /\ StopsHold /\ FatesHold /\ ActionsAccounted
  BY DEF IInv
<1>2. /\ worker[w] = "created" /\ looping = 0
      /\ UNCHANGED <<ticketVars, unsent, cancelDue, laneVars, carries, workerCancels, inflight,
                     stopVars>>
  BY DEF WorkerBegins, Idle
<1>3. carries[w] = NoEvent
  BY <1>1, <1>2 DEF CarriersHold
<1>4. CASE w \in cancelling
  <2>1. Dies(w)
    BY <1>4 DEF WorkerBegins
  <2> QED BY <1>2, <1>3, <2>1, DiesKeeps
<1>5. CASE w \notin cancelling
  <2>1. looping' = w /\ UNCHANGED <<worker, cancelling, interrupted, doneDue>>
    BY <1>5 DEF WorkerBegins
  <2>2. UNCHANGED <<status, result, op, opCancel, settled, unsent, cancelDue, pending, running, ready,
                    readyKeys, carries, workerCancels, inflight, accepting, stopping, stopCall, stops>>
    BY <1>2 DEF ticketVars, laneVars, stopVars
  <2>3. TypeOK'
    BY <1>1, <2>1, <2>2 DEF TypeOK, Live
  <2>4. LanesHold' /\ CountHolds' /\ ReadyHolds'
    BY <1>1, <2>2 DEF LanesHold, CountHolds, Active, ReadyHolds
  <2>5. CarriersHold'
    BY <1>1, <1>2, <1>3, <2>1, <2>2 DEF CarriersHold, Live
  <2>6. WorkersKeepUp'
    <3>1. Runners' = Runners /\ Live' = Live
      BY <1>2, <2>1, WorkerFacts DEF Runners, Live
    <3> QED BY <1>1, <2>1, <2>2, <3>1 DEF WorkersKeepUp
  <2>7. StopsHold' /\ ActionsAccounted' /\ FatesHold'
    BY <1>1, <2>1, <2>2 DEF StopsHold, ActionsAccounted, FatesHold
  <2> QED BY <2>3, <2>4, <2>5, <2>6, <2>7 DEF IInv
<1> QED BY <1>4, <1>5

\* A worker finds the ready queue empty.
LEMMA LoopEndsKeeps ==
  ASSUME IInv, NEW w \in Workers, LoopEnds(w)
  PROVE  IInv'
<1>1. /\ looping = w /\ Dies(w)
      /\ UNCHANGED <<ticketVars, unsent, cancelDue, laneVars, carries, workerCancels, inflight,
                     stopVars>>
  BY DEF LoopEnds
<1>2. carries[w] = NoEvent
  BY <1>1 DEF IInv, CarriersHold
<1> QED BY <1>1, <1>2, DiesKeeps

\* A worker finds an empty lane in the ready queue.
LEMMA LoopSkipsKeeps ==
  ASSUME IInv, NEW w \in Workers, LoopSkips(w)
  PROVE  IInv'
<1>1. /\ TypeOK /\ LanesHold /\ CountHolds /\ ReadyHolds /\ CarriersHold /\ WorkersKeepUp
      /\ StopsHold /\ FatesHold /\ ActionsAccounted
  BY DEF IInv
<1> DEFINE k == Head(readyKeys)
<1>2. /\ readyKeys # <<>> /\ readyKeys' = Tail(readyKeys)
      /\ running[k] # NoEvent \/ pending[k] = <<>>
      /\ ready' = [ready EXCEPT ![k] = FALSE]
      /\ UNCHANGED <<ticketVars, unsent, cancelDue, pending, running, workerVars, looping,
                     workerCancels, inflight, stopVars>>
  BY DEF LoopSkips
<1>3. UNCHANGED <<status, result, op, opCancel, settled, unsent, cancelDue, pending, running,
                  worker, carries, cancelling, interrupted, doneDue, looping,
                  workerCancels, inflight, accepting, stopping, stopCall, stops>>
  BY <1>2 DEF ticketVars, workerVars, stopVars
<1>4. /\ k \in Keys /\ readyKeys' \in Seq(Keys) /\ IsInjective(readyKeys')
      /\ Range(readyKeys') = Range(readyKeys) \ {k} /\ Len(readyKeys') = Len(readyKeys) - 1
  BY <1>1, <1>2, EventFacts, TailFacts, HeadTailProperties DEF ReadyHolds
<1> HIDE DEF k
<1>5. /\ ready' \in [Keys -> BOOLEAN]
      /\ \A l \in Keys : ready'[l] <=> ready[l] /\ l # k
  BY <1>1, <1>2, <1>4 DEF TypeOK
<1>6. TypeOK'
  BY <1>1, <1>3, <1>4, <1>5 DEF TypeOK, Live
<1>7. LanesHold' /\ CountHolds'
  BY <1>1, <1>3 DEF LanesHold, CountHolds, Active
<1>8. ReadyHolds'
  BY <1>1, <1>2, <1>3, <1>4, <1>5 DEF ReadyHolds
<1>9. CarriersHold' /\ StopsHold'
  BY <1>1, <1>3 DEF CarriersHold, StopsHold, Live
<1>10. WorkersKeepUp'
  <2>1. Runners' = Runners /\ Live' = Live
    BY <1>3 DEF Runners, Live
  <2>2. Cardinality(Runners) \in Nat /\ Len(readyKeys) \in Nat
    <3>1. Runners \in SUBSET Workers
      BY DEF Runners
    <3> QED BY <3>1, Crew, EventFacts
  <2> QED BY <1>1, <1>3, <1>4, <2>1, <2>2 DEF WorkersKeepUp
<1>11. ActionsAccounted' /\ FatesHold'
  BY <1>1, <1>3 DEF ActionsAccounted, FatesHold
<1> QED BY <1>6, <1>7, <1>8, <1>9, <1>10, <1>11 DEF IInv

\* The ticket taken leaves its lane without having run.
LEMMA DropFacts ==
  ASSUME IInv, NEW w \in Workers, Takes(w), DropFirst(Head(readyKeys)),
         UNCHANGED <<op, opCancel, settled, unsent, cancelDue, running,
                     workerVars, looping, workerCancels, stopVars>>
  PROVE  \E e \in Events :
           /\ e = FirstOf(Head(readyKeys)) /\ status[e] = "pending"
           /\ \A d \in Events : status'[d] = IF d = e THEN "finished" ELSE status[d]
           /\ result' \in [Events -> Results] => TypeOK'
           /\ LanesHold' /\ CountHolds' /\ ReadyHolds' /\ CarriersHold' /\ WorkersKeepUp'
           /\ StopsHold'
<1> DEFINE k == Head(readyKeys)
           e == FirstOf(k)
           rest == Without(pending[k], e)
<1>1. /\ TypeOK /\ LanesHold /\ CountHolds /\ ReadyHolds /\ CarriersHold /\ WorkersKeepUp
      /\ StopsHold /\ looping = w /\ readyKeys # <<>> /\ running[k] = NoEvent /\ pending[k] # <<>>
      /\ inflight \in Nat
  BY EventFacts DEF IInv, Takes
<1>2. /\ k \in Keys /\ Tail(readyKeys) \in Seq(Keys) /\ IsInjective(Tail(readyKeys))
      /\ Range(Tail(readyKeys)) = Range(readyKeys) \ {k}
      /\ Len(Tail(readyKeys)) = Len(readyKeys) - 1
  BY <1>1, EventFacts, TailFacts, HeadTailProperties DEF ReadyHolds
<1>3. /\ e \in Events /\ status[e] = "pending" /\ KeyOf[e] = k
  <2>1. e \in Events /\ e \in Range(pending[k])
    BY <1>1, <1>2, EventFacts, TailFacts DEF FirstOf
  <2> QED BY <1>1, <1>2, <2>1 DEF LanesHold
<1>4. UNCHANGED <<op, opCancel, settled, unsent, cancelDue, running, worker, carries, cancelling,
                  interrupted, doneDue, looping, workerCancels, accepting, stopping, stopCall, stops>>
  BY DEF workerVars, stopVars
<1>5. /\ pending' = [pending EXCEPT ![k] = rest] /\ status' = [status EXCEPT ![e] = "finished"]
      /\ inflight' = inflight - 1 /\ Requeue(k, rest, Tail(readyKeys))
  BY DEF DropFirst
<1> HIDE DEF k, e, rest
<1>6. rest = Without(pending[k], e)
  BY DEF rest
<1>7. pending' = [pending EXCEPT ![KeyOf[e]] = Without(@, e)]
  BY <1>3, <1>5, <1>6
<1>8. /\ LanesHold' /\ CountHolds' /\ inflight' \in Nat /\ inflight' < inflight
      /\ pending' \in [Keys -> Seq(Events)] /\ status' \in [Events -> Statuses]
  BY <1>3, <1>4, <1>5, <1>7, Leaving
<1>9. /\ \A d \in Events : status'[d] = IF d = e THEN "finished" ELSE status[d]
      /\ \A l \in Keys : pending'[l] = IF l = k THEN rest ELSE pending[l]
  BY <1>1, <1>5 DEF TypeOK
<1>10. /\ ready' \in [Keys -> BOOLEAN] /\ readyKeys' \in Seq(Keys) /\ IsInjective(readyKeys')
       /\ \A l \in Keys : l \in Range(readyKeys') <=> ready'[l]
       /\ \A l \in Keys : ready'[l] <=> IF l = k THEN rest # <<>> ELSE ready[l]
       /\ Len(readyKeys') <= Len(Tail(readyKeys)) + 1
  <2>1. \A l \in Keys : l # k => (l \in Range(Tail(readyKeys)) <=> ready[l])
    BY <1>1, <1>2 DEF ReadyHolds
  <2>2. ready \in [Keys -> BOOLEAN] /\ k \notin Range(Tail(readyKeys))
    BY <1>1, <1>2 DEF TypeOK
  <2> QED BY <1>2, <1>5, <2>1, <2>2, RequeueFacts
<1>11. result' \in [Events -> Results] => TypeOK'
  BY <1>1, <1>4, <1>8, <1>10 DEF TypeOK, Live
<1>12. ReadyHolds'
  BY <1>1, <1>4, <1>9, <1>10 DEF ReadyHolds
<1>13. CarriersHold'
  BY <1>1, <1>3, <1>4, <1>9 DEF CarriersHold, Live, TypeOK
<1>14. StopsHold'
  BY <1>1, <1>4, <1>8 DEF StopsHold
<1>15. WorkersKeepUp'
  <2>1. Runners' = Runners /\ Live' = Live
    BY <1>4 DEF Runners, Live
  <2>2. Cardinality(Runners) \in Nat /\ Len(readyKeys) \in Nat /\ Len(readyKeys') \in Nat
    <3>1. Runners \in SUBSET Workers
      BY DEF Runners
    <3> QED BY <1>10, <3>1, Crew, EventFacts, LenProperties
  <2>3. Len(readyKeys') <= Len(readyKeys)
    BY <1>2, <1>10, <2>2
  <2> QED BY <1>1, <1>4, <1>8, <2>1, <2>2, <2>3 DEF WorkersKeepUp
<1>16. e = FirstOf(Head(readyKeys))
  BY DEF e, k
<1> QED BY <1>3, <1>8, <1>9, <1>11, <1>12, <1>13, <1>14, <1>15, <1>16

\* A ticket whose result is cancelled already
LEMMA LoopDropsCancelledKeeps ==
  ASSUME IInv, NEW w \in Workers, LoopDropsCancelled(w)
  PROVE  IInv'
<1>1. TypeOK /\ FatesHold /\ ActionsAccounted
  BY DEF IInv
<1>2. /\ Takes(w) /\ result[FirstOf(Head(readyKeys))] = "failed" /\ DropFirst(Head(readyKeys))
      /\ UNCHANGED <<result, op, opCancel, settled, unsent, cancelDue, running,
                     workerVars, looping, workerCancels, stopVars>>
  BY DEF LoopDropsCancelled
<1>3. PICK e \in Events :
        /\ e = FirstOf(Head(readyKeys)) /\ status[e] = "pending"
        /\ \A d \in Events : status'[d] = IF d = e THEN "finished" ELSE status[d]
        /\ result' \in [Events -> Results] => TypeOK'
        /\ LanesHold' /\ CountHolds' /\ ReadyHolds' /\ CarriersHold' /\ WorkersKeepUp'
        /\ StopsHold'
  BY <1>2, DropFacts
<1>4. TypeOK' /\ interrupted' = interrupted /\ result[e] = "failed"
  BY <1>1, <1>2, <1>3 DEF TypeOK, workerVars
<1>5. FatesHold'
  BY <1>1, <1>2, <1>3, <1>4 DEF FatesHold
<1>6. ActionsAccounted'
  BY <1>1, <1>2, <1>3 DEF ActionsAccounted, FatesHold
<1> QED BY <1>3, <1>4, <1>5, <1>6 DEF IInv

\* A ticket the authentication refuses
LEMMA LoopRefusesKeeps ==
  ASSUME IInv, NEW w \in Workers, LoopRefuses(w)
  PROVE  IInv'
<1>1. TypeOK /\ FatesHold /\ ActionsAccounted
  BY DEF IInv
<1>2. /\ Takes(w) /\ DropFirst(Head(readyKeys))
      /\ result' = [result EXCEPT ![FirstOf(Head(readyKeys))] = IF @ = "waiting" THEN "failed" ELSE @]
      /\ UNCHANGED <<op, opCancel, settled, unsent, cancelDue, running,
                     workerVars, looping, workerCancels, stopVars>>
  BY DEF LoopRefuses
<1>3. PICK e \in Events :
        /\ e = FirstOf(Head(readyKeys)) /\ status[e] = "pending"
        /\ \A d \in Events : status'[d] = IF d = e THEN "finished" ELSE status[d]
        /\ result' \in [Events -> Results] => TypeOK'
        /\ LanesHold' /\ CountHolds' /\ ReadyHolds' /\ CarriersHold' /\ WorkersKeepUp'
        /\ StopsHold'
  BY <1>2, DropFacts
<1>4. /\ result' \in [Events -> Results]
      /\ \A d \in Events : result'[d] = IF d = e /\ result[d] = "waiting" THEN "failed" ELSE result[d]
  BY <1>1, <1>2, <1>3 DEF TypeOK, Results
<1>5. TypeOK' /\ interrupted' = interrupted
  BY <1>2, <1>3, <1>4 DEF workerVars
<1>6. FatesHold'
  BY <1>1, <1>2, <1>3, <1>4, <1>5 DEF FatesHold
<1>7. ActionsAccounted'
  BY <1>1, <1>2, <1>3, <1>4 DEF ActionsAccounted, FatesHold
<1> QED BY <1>3, <1>5, <1>6, <1>7 DEF IInv

\* A handler starts.
LEMMA LoopStartsKeeps ==
  ASSUME IInv, NEW w \in Workers, LoopStarts(w)
  PROVE  IInv'
<1> DEFINE k == Head(readyKeys)
           e == FirstOf(k)
           rest == Without(pending[k], e)
<1>1. /\ TypeOK /\ LanesHold /\ CountHolds /\ ReadyHolds /\ CarriersHold /\ WorkersKeepUp
      /\ StopsHold /\ FatesHold /\ ActionsAccounted
      /\ looping = w /\ readyKeys # <<>> /\ running[k] = NoEvent /\ pending[k] # <<>>
      /\ result[e] # "failed"
  BY DEF IInv, LoopStarts, Takes
<1>2. /\ k \in Keys /\ Tail(readyKeys) \in Seq(Keys) /\ IsInjective(Tail(readyKeys))
      /\ Range(Tail(readyKeys)) = Range(readyKeys) \ {k}
      /\ Len(Tail(readyKeys)) = Len(readyKeys) - 1
  BY <1>1, EventFacts, TailFacts, HeadTailProperties DEF ReadyHolds
<1>3. /\ e \in Events /\ status[e] = "pending" /\ KeyOf[e] = k /\ e # NoEvent
  <2>1. e \in Events /\ e \in Range(pending[k])
    BY <1>1, <1>2, EventFacts, TailFacts DEF FirstOf
  <2> QED BY <1>1, <1>2, <2>1, EventFacts DEF LanesHold
<1>4. /\ status' = [status EXCEPT ![e] = "running"] /\ op' = [op EXCEPT ![e] = "running"]
      /\ pending' = [pending EXCEPT ![k] = rest] /\ running' = [running EXCEPT ![k] = e]
      /\ ready' = [ready EXCEPT ![k] = FALSE] /\ readyKeys' = Tail(readyKeys)
      /\ worker' = [worker EXCEPT ![w] = "busy"] /\ carries' = [carries EXCEPT ![w] = e]
      /\ looping' = 0
      /\ UNCHANGED <<result, opCancel, settled, unsent, cancelDue, cancelling,
                     interrupted, doneDue, workerCancels, inflight, stopVars>>
  BY DEF LoopStarts
<1>5. /\ rest \in Seq(Events) /\ IsInjective(rest) /\ Range(rest) = Range(pending[k]) \ {e}
  BY <1>1, <1>2, EventFacts, WithoutFacts
<1> HIDE DEF k, e, rest
<1>6. /\ \A d \in Events : status'[d] = IF d = e THEN "running" ELSE status[d]
      /\ \A d \in Events : op'[d] = IF d = e THEN "running" ELSE op[d]
      /\ \A l \in Keys : pending'[l] = IF l = k THEN rest ELSE pending[l]
      /\ \A l \in Keys : running'[l] = IF l = k THEN e ELSE running[l]
  BY <1>1, <1>4 DEF TypeOK
<1>7. /\ \A l \in Keys : ready'[l] <=> ready[l] /\ l # k
      /\ \A v \in Workers : worker'[v] = IF v = w THEN "busy" ELSE worker[v]
      /\ \A v \in Workers : carries'[v] = IF v = w THEN e ELSE carries[v]
  BY <1>1, <1>4 DEF TypeOK
<1>8. UNCHANGED <<accepting, stopping, stopCall, stops>>
  BY <1>4 DEF stopVars
<1>9. Live' = Live /\ w \in Live
  BY <1>1, <1>7, WorkerFacts DEF Live, CarriersHold
<1>10. TypeOK'
  <2>1. /\ status' \in [Events -> Statuses] /\ op' \in [Events -> {"none", "running", "cancelled"} \cup Endings]
        /\ pending' \in [Keys -> Seq(Events)] /\ running' \in [Keys -> Events \cup {NoEvent}]
    BY <1>1, <1>3, <1>4, <1>5 DEF TypeOK, Statuses
  <2>2. /\ ready' \in [Keys -> BOOLEAN] /\ readyKeys' \in Seq(Keys)
        /\ worker' \in [Workers -> {"none", "created", "busy"}]
        /\ carries' \in [Workers -> Events \cup {NoEvent}] /\ looping' \in Workers \cup {0}
    BY <1>1, <1>2, <1>3, <1>4 DEF TypeOK
  <2> QED BY <1>1, <1>4, <1>8, <1>9, <2>1, <2>2 DEF TypeOK
<1>11. LanesHold'
  <2>1. \A l \in Keys : IsInjective(pending'[l])
    BY <1>1, <1>5, <1>6 DEF LanesHold
  <2>2. ASSUME NEW l \in Keys, NEW d \in Events
        PROVE  d \in Range(pending'[l]) <=> KeyOf[d] = l /\ status'[d] = "pending"
    <3>1. CASE l = k
      <4>1. d \in Range(pending'[l]) <=> d \in Range(pending[k]) /\ d # e
        BY <1>5, <1>6, <3>1
      <4> QED BY <1>1, <1>6, <3>1, <4>1 DEF LanesHold
    <3>2. CASE l # k
      <4>1. pending'[l] = pending[l]
        BY <1>6, <3>2
      <4> QED BY <1>1, <1>3, <1>6, <3>2, <4>1 DEF LanesHold
    <3> QED BY <3>1, <3>2
  <2>3. ASSUME NEW l \in Keys, NEW d \in Events
        PROVE  running'[l] = d <=> KeyOf[d] = l /\ status'[d] = "running"
    <3>1. running[l] = d <=> KeyOf[d] = l /\ status[d] = "running"
      BY <1>1 DEF LanesHold
    <3>2. \A c \in Events : ~(KeyOf[c] = k /\ status[c] = "running")
      BY <1>1, <1>2, EventFacts DEF LanesHold
    <3> QED BY <1>3, <1>6, <3>1, <3>2
  <2> QED BY <2>1, <2>2, <2>3 DEF LanesHold
<1>12. CountHolds'
  <2>1. Active' = Active
    BY <1>3, <1>6 DEF Active
  <2> QED BY <1>1, <1>4, <2>1 DEF CountHolds, Capacity
<1>13. ReadyHolds'
  <2>1. /\ IsInjective(readyKeys')
        /\ \A l \in Keys : l \in Range(readyKeys') <=> ready'[l]
    BY <1>1, <1>2, <1>4, <1>7 DEF ReadyHolds
  <2>2. \A l \in Keys : ready'[l] => running'[l] = NoEvent
    BY <1>1, <1>6, <1>7 DEF ReadyHolds
  <2>3. \A l \in Keys : pending'[l] # <<>> /\ running'[l] = NoEvent => ready'[l]
    BY <1>1, <1>3, <1>6, <1>7 DEF ReadyHolds
  <2> QED BY <2>1, <2>2, <2>3 DEF ReadyHolds
<1>14. CarriersHold'
  <2>1. \A v \in Workers : carries[v] # NoEvent => carries[v] \in Events /\ carries[v] # e
    BY <1>1, <1>3 DEF CarriersHold, TypeOK
  <2>2. \A v \in Workers : carries'[v] # NoEvent =>
          status'[carries'[v]] = "running" /\ worker'[v] = "busy" /\ looping' # v
    BY <1>1, <1>3, <1>4, <1>6, <1>7, <2>1, WorkerFacts DEF CarriersHold
  <2>3. \A u, v \in Workers : carries'[u] = carries'[v] /\ carries'[u] # NoEvent => u = v
    BY <1>1, <1>3, <1>7, <2>1 DEF CarriersHold
  <2> QED BY <1>4, <2>2, <2>3 DEF CarriersHold
<1>15. WorkersKeepUp'
  <2>1. Runners' = Runners \ {w} /\ w \in Runners
    BY <1>1, <1>4, <1>7, WorkerFacts DEF Runners
  <2>2. Runners \in SUBSET Workers /\ Runners' \in SUBSET Workers
    BY DEF Runners
  <2>3. Cardinality(Runners') = Cardinality(Runners) - 1
    BY <2>1, <2>2, Crew, FS_RemoveElement
  <2>4. Cardinality(Runners) \in Nat /\ Cardinality(Runners') \in Nat /\ Len(readyKeys) \in Nat
    BY <2>2, Crew, EventFacts
  <2> QED BY <1>1, <1>2, <1>4, <1>8, <1>9, <2>3, <2>4 DEF WorkersKeepUp
<1>16. StopsHold'
  BY <1>1, <1>4, <1>8 DEF StopsHold
<1>17. FatesHold'
  BY <1>1, <1>3, <1>4, <1>6 DEF FatesHold
<1>18. ActionsAccounted'
  BY <1>1, <1>4, <1>6 DEF ActionsAccounted
<1> QED BY <1>10, <1>11, <1>12, <1>13, <1>14, <1>15, <1>16, <1>17, <1>18 DEF IInv

\* The operation of a ticket ends.
LEMMA OperationEndsKeeps ==
  ASSUME IInv, NEW e \in Events, OperationEnds(e)
  PROVE  IInv'
<1>1. /\ TypeOK /\ LanesHold /\ CountHolds /\ ReadyHolds /\ CarriersHold /\ WorkersKeepUp
      /\ StopsHold /\ FatesHold /\ ActionsAccounted /\ op[e] = "running"
  BY DEF IInv, OperationEnds
<1>2. PICK end \in Endings \cup {"cancelled"} : op' = [op EXCEPT ![e] = end]
  BY DEF OperationEnds
<1>3. UNCHANGED <<status, result, opCancel, settled, unsent, cancelDue, laneVars,
                  workerVars, looping, workerCancels, inflight, stopVars>>
  BY DEF OperationEnds
<1>4. UNCHANGED <<pending, running, ready, readyKeys, worker, carries, cancelling, interrupted,
                  doneDue, accepting, stopping, stopCall, stops>>
  BY <1>3 DEF laneVars, workerVars, stopVars
<1>5. status[e] = "running"
  BY <1>1 DEF FatesHold
<1>6. /\ op' \in [Events -> {"none", "running", "cancelled"} \cup Endings]
      /\ \A d \in Events : op'[d] = IF d = e THEN end ELSE op[d]
  BY <1>1, <1>2 DEF TypeOK
<1>7. TypeOK'
  BY <1>1, <1>3, <1>4, <1>6 DEF TypeOK, Live
<1>8. LanesHold' /\ CountHolds' /\ StopsHold'
  BY <1>1, <1>3, <1>4 DEF LanesHold, CountHolds, Active, StopsHold
<1>9. ReadyHolds' /\ CarriersHold' /\ WorkersKeepUp'
  BY <1>3, <1>4, EventFacts, Fewer
<1>10. FatesHold'
  BY <1>1, <1>3, <1>4, <1>5, <1>6 DEF FatesHold
<1>11. ActionsAccounted'
  BY <1>1, <1>3, <1>5, <1>6 DEF ActionsAccounted
<1> QED BY <1>7, <1>8, <1>9, <1>10, <1>11 DEF IInv

\* The worker goes on with the outcome of its operation.
LEMMA WorkerResumesKeeps ==
  ASSUME IInv, NEW w \in Workers, WorkerResumes(w)
  PROVE  IInv'
<1> DEFINE e == carries[w]
           k == KeyOf[e]
           lost == w \in interrupted \/ op[e] = "cancelled"
<1>1. /\ TypeOK /\ LanesHold /\ CountHolds /\ ReadyHolds /\ CarriersHold /\ WorkersKeepUp
      /\ StopsHold /\ FatesHold /\ ActionsAccounted /\ looping = 0 /\ inflight \in Nat
  BY EventFacts DEF IInv, WorkerResumes, Idle
<1>2. /\ e \in Events /\ k \in Keys /\ KeyOf[e] = k /\ e # NoEvent /\ op[e] # "running"
      /\ status[e] = "running" /\ worker[w] = "busy"
  BY <1>1, EventFacts DEF WorkerResumes, TypeOK, CarriersHold
<1>3. /\ result' = IF result[e] = "waiting"
                   THEN [result EXCEPT ![e] = IF lost \/ op[e] # "actions" THEN "failed" ELSE "actions"]
                   ELSE result
      /\ settled' = IF ~lost /\ op[e] = "actions" /\ result[e] # "waiting"
                    THEN settled \cup {e} ELSE settled
      /\ status' = [status EXCEPT ![e] = "finished"]
      /\ op' = [op EXCEPT ![e] = IF @ = "actions" THEN @ ELSE "none"]
      /\ opCancel' = opCancel \ {e}
      /\ running' = [running EXCEPT ![k] = NoEvent]
      /\ inflight' = inflight - 1
      /\ Requeue(k, pending[k], readyKeys)
      /\ carries' = [carries EXCEPT ![w] = NoEvent]
      /\ UNCHANGED <<unsent, cancelDue, pending, workerCancels, stopVars>>
  BY DEF WorkerResumes
<1>4. \/ Dies(w)
      \/ looping' = w /\ UNCHANGED <<worker, cancelling, interrupted, doneDue>>
  BY DEF WorkerResumes
<1>5. running[k] = e /\ ~ready[k] /\ k \notin Range(readyKeys)
  BY <1>1, <1>2 DEF LanesHold, ReadyHolds
<1>6. UNCHANGED <<accepting, stopping, stopCall, stops>>
  BY <1>3 DEF stopVars
<1>7. lost <=> w \in interrupted \/ op[e] = "cancelled"
  OBVIOUS
<1> HIDE DEF e, k, lost
<1>8. /\ \A d \in Events : status'[d] = IF d = e THEN "finished" ELSE status[d]
      /\ \A l \in Keys : running'[l] = IF l = k THEN NoEvent ELSE running[l]
      /\ \A v \in Workers : carries'[v] = IF v = w THEN NoEvent ELSE carries[v]
      /\ \A d \in Events : op'[d] = IF d = e /\ op[d] # "actions" THEN "none" ELSE op[d]
  BY <1>1, <1>3 DEF TypeOK
<1>9. /\ result' \in [Events -> Results]
      /\ \A d \in Events : d # e => result'[d] = result[d]
      /\ result[e] # "waiting" => result'[e] = result[e]
      /\ result[e] = "waiting" =>
           result'[e] = IF lost \/ op[e] # "actions" THEN "failed" ELSE "actions"
  <2>1. CASE result[e] = "waiting"
    <3>1. result' = [result EXCEPT ![e] = IF lost \/ op[e] # "actions" THEN "failed" ELSE "actions"]
      BY <1>3, <2>1
    <3> QED BY <1>1, <1>2, <2>1, <3>1 DEF TypeOK, Results
  <2>2. CASE result[e] # "waiting"
    <3>1. result' = result
      BY <1>3, <2>2
    <3> QED BY <1>1, <2>2, <3>1 DEF TypeOK
  <2> QED BY <2>1, <2>2
<1>10. /\ ready' \in [Keys -> BOOLEAN] /\ readyKeys' \in Seq(Keys) /\ IsInjective(readyKeys')
       /\ \A l \in Keys : l \in Range(readyKeys') <=> ready'[l]
       /\ \A l \in Keys : ready'[l] <=> IF l = k THEN pending[k] # <<>> ELSE ready[l]
       /\ Len(readyKeys') <= Len(readyKeys) + 1
  <2>1. /\ \A l \in Keys : l # k => (l \in Range(readyKeys) <=> ready[l])
        /\ ready \in [Keys -> BOOLEAN] /\ readyKeys \in Seq(Keys) /\ IsInjective(readyKeys)
    BY <1>1 DEF ReadyHolds, TypeOK
  <2> QED BY <1>2, <1>3, <1>5, <2>1, RequeueFacts
<1>11. /\ worker' \in [Workers -> {"none", "created", "busy"}]
       /\ \A v \in Workers : v # w => worker'[v] = worker[v]
       /\ cancelling' \subseteq Live' /\ interrupted' \subseteq cancelling' /\ interrupted' \subseteq interrupted
       /\ looping' \in {0, w} /\ (looping' = w => worker'[w] = "busy")
       /\ doneDue' \in Nat /\ (looping' = 0 => doneDue' > 0)
  <2>1. CASE Dies(w)
    <3>1. /\ worker' = [worker EXCEPT ![w] = "none"] /\ cancelling' = cancelling \ {w}
          /\ interrupted' = interrupted \ {w} /\ doneDue' = doneDue + 1 /\ looping' = 0
      BY <2>1 DEF Dies
    <3>2. Live' = Live \ {w}
      BY <1>1, <3>1 DEF Live, TypeOK
    <3> QED BY <1>1, <3>1, <3>2, WorkerFacts DEF TypeOK
  <2>2. CASE looping' = w /\ UNCHANGED <<worker, cancelling, interrupted, doneDue>>
    <3>1. Live' = Live
      BY <2>2 DEF Live
    <3> QED BY <1>1, <1>2, <2>2, <3>1, WorkerFacts DEF TypeOK
  <2> QED BY <1>4, <2>1, <2>2
<1>12. Active' = Active \ {e} /\ e \in Active
  BY <1>2, <1>8 DEF Active
<1>13. CountHolds' /\ inflight' \in Nat /\ inflight' < inflight
  <2>1. Cardinality(Active \ {e}) = Cardinality(Active) - 1
    BY <1>12, EventFacts, FS_RemoveElement
  <2>2. IsFiniteSet(Active \ {e}) /\ Cardinality(Active \ {e}) \in Nat
    BY EventFacts, FS_RemoveElement, FS_CardinalityType
  <2> QED BY <1>1, <1>3, <1>12, <2>1, <2>2, EventFacts DEF CountHolds, Capacity
<1>14. TypeOK'
  <2>1. /\ status' \in [Events -> Statuses] /\ op' \in [Events -> {"none", "running", "cancelled"} \cup Endings]
        /\ running' \in [Keys -> Events \cup {NoEvent}] /\ carries' \in [Workers -> Events \cup {NoEvent}]
        /\ opCancel' \subseteq Events /\ settled' \subseteq Events
    BY <1>1, <1>2, <1>3 DEF TypeOK, Statuses
  <2> QED BY <1>1, <1>3, <1>6, <1>9, <1>10, <1>11, <1>13, <2>1 DEF TypeOK
<1>15. LanesHold'
  <2>1. \A l \in Keys : IsInjective(pending'[l])
    BY <1>1, <1>3 DEF LanesHold
  <2>2. \A l \in Keys, d \in Events : d \in Range(pending'[l]) <=> KeyOf[d] = l /\ status'[d] = "pending"
    BY <1>1, <1>2, <1>3, <1>8 DEF LanesHold
  <2>3. \A l \in Keys, d \in Events : running'[l] = d <=> KeyOf[d] = l /\ status'[d] = "running"
    BY <1>1, <1>2, <1>5, <1>8, EventFacts DEF LanesHold
  <2> QED BY <2>1, <2>2, <2>3 DEF LanesHold
<1>16. ReadyHolds'
  BY <1>1, <1>3, <1>5, <1>8, <1>10 DEF ReadyHolds
<1>17. CarriersHold'
  <2>1. \A v \in Workers : v # w /\ carries[v] # NoEvent => carries[v] \in Events /\ carries[v] # e
    BY <1>1 DEF CarriersHold, TypeOK, e
  <2>2. \A v \in Workers : carries'[v] # NoEvent =>
          status'[carries'[v]] = "running" /\ worker'[v] = "busy" /\ looping' # v
    BY <1>1, <1>8, <1>11, <2>1, WorkerFacts DEF CarriersHold
  <2>3. \A u, v \in Workers : carries'[u] = carries'[v] /\ carries'[u] # NoEvent => u = v
    BY <1>1, <1>8 DEF CarriersHold
  <2>4. looping' # 0 => looping' \in Live'
    BY <1>11 DEF Live
  <2> QED BY <2>2, <2>3, <2>4 DEF CarriersHold
<1>18. WorkersKeepUp'
  <2>1. CASE looping' = 0
    BY <1>11, <2>1 DEF WorkersKeepUp
  <2>2. CASE looping' = w /\ UNCHANGED <<worker, doneDue>>
    <3>1. Runners' = Runners \cup {w} /\ w \notin Runners /\ Live' = Live
      BY <1>1, <1>2, <2>2, WorkerFacts DEF Runners, Live
    <3>2. Runners \in SUBSET Workers /\ Runners' \in SUBSET Workers
      BY DEF Runners
    <3>3. Cardinality(Runners') = Cardinality(Runners) + 1
      BY <3>1, <3>2, Crew, FS_AddElement
    <3>4. Cardinality(Runners) \in Nat /\ Len(readyKeys) \in Nat /\ Len(readyKeys') \in Nat
      BY <1>10, <3>2, Crew, EventFacts, LenProperties
    <3> QED BY <1>1, <1>6, <1>10, <1>13, <2>2, <3>1, <3>3, <3>4 DEF WorkersKeepUp
  <2>3. Dies(w) => looping' = 0
    BY DEF Dies
  <2> QED BY <1>4, <2>1, <2>2, <2>3
<1>19. StopsHold'
  BY <1>1, <1>6, <1>13 DEF StopsHold
<1>20. FatesHold'
  <2>1. \A d \in Events :
          /\ status'[d] = "new" <=> result'[d] = "none"
          /\ status'[d] \in {"new", "pending"} => op'[d] = "none"
          /\ op'[d] \notin {"none", "actions"} => status'[d] = "running"
    BY <1>1, <1>2, <1>8, <1>9 DEF FatesHold
  <2>2. \A d \in Events :
          /\ result'[d] = "waiting" => status'[d] \in {"pending", "running"}
          /\ result'[d] = "actions" => status'[d] = "finished" /\ op'[d] = "actions"
    BY <1>1, <1>2, <1>8, <1>9 DEF FatesHold
  <2>3. \A d \in Events :
          /\ unsent'[d] # "no" => result'[d] = "actions"
          /\ d \in settled' => status'[d] = "finished"
    BY <1>1, <1>2, <1>3, <1>8, <1>9 DEF FatesHold
  <2>4. workerCancels' = 0 => interrupted' = {}
    BY <1>1, <1>3, <1>11 DEF FatesHold
  <2> QED BY <2>1, <2>2, <2>3, <2>4 DEF FatesHold
<1>21. ActionsAccounted'
  <2>1. ASSUME workerCancels = 0, NEW d \in Events, op'[d] = "actions", status'[d] = "finished"
        PROVE  d \in settled' <=> result'[d] # "actions" \/ unsent'[d] = "discarded"
    <3>1. CASE d = e
      <4>1. op[e] = "actions" /\ ~lost /\ e \notin settled /\ unsent[e] = "no"
        BY <1>1, <1>2, <1>7, <1>8, <2>1, <3>1 DEF FatesHold, TypeOK
      <4>2. result[e] # "actions"
        BY <1>1, <1>2 DEF FatesHold
      <4>3. e \in settled' <=> result[e] # "waiting"
        BY <1>3, <4>1
      <4>4. result'[e] = "actions" <=> result[e] = "waiting"
        BY <1>9, <4>1, <4>2
      <4> QED BY <1>3, <3>1, <4>1, <4>3, <4>4
    <3>2. CASE d # e
      <4>1. op[d] = "actions" /\ status[d] = "finished" /\ result'[d] = result[d]
        BY <1>8, <1>9, <2>1, <3>2
      <4>2. d \in settled' <=> d \in settled
        BY <1>3, <3>2
      <4> QED BY <1>1, <1>3, <2>1, <4>1, <4>2 DEF ActionsAccounted
    <3> QED BY <3>1, <3>2
  <2> QED BY <1>3, <2>1 DEF ActionsAccounted
<1> QED BY <1>13, <1>14, <1>15, <1>16, <1>17, <1>18, <1>19, <1>20, <1>21 DEF IInv

\* _worker_done
LEMMA WorkerDoneKeeps ==
  ASSUME IInv, WorkerDone
  PROVE  IInv'
<1>1. /\ TypeOK /\ LanesHold /\ CountHolds /\ ReadyHolds /\ CarriersHold /\ WorkersKeepUp
      /\ StopsHold /\ FatesHold /\ ActionsAccounted /\ doneDue > 0
  BY DEF IInv, WorkerDone
<1>2. /\ doneDue' = doneDue - 1
      /\ UNCHANGED <<ticketVars, unsent, cancelDue, laneVars, carries, cancelling, interrupted,
                     looping, workerCancels, inflight, stopVars>>
  BY DEF WorkerDone
<1>3. UNCHANGED <<status, result, op, opCancel, settled, pending, running, ready, readyKeys,
                  accepting, stopping, stopCall, stops>>
  BY <1>2 DEF ticketVars, laneVars, stopVars
<1>4. /\ worker' \in [Workers -> {"none", "created", "busy"}]
      /\ \A w \in Live : worker'[w] = worker[w]
      /\ Live \subseteq Live'
      /\ \/ readyKeys = <<>> \/ (stopping /\ ~(inflight > 0))
         \/ Cardinality(Live') = MaxWorkers
         \/ Cardinality({w \in Workers : worker'[w] = "created"}) >= Len(readyKeys)
  <2>1. CASE readyKeys # <<>> /\ (~stopping \/ inflight > 0)
    <3>1. EnsureWorkers(Len(readyKeys))
      BY <2>1 DEF WorkerDone
    <3>2. worker \in [Workers -> {"none", "created", "busy"}] /\ Len(readyKeys) \in Nat
      BY <1>1, EventFacts DEF TypeOK
    <3> QED BY <3>1, <3>2, EnsureFacts
  <2>2. CASE ~(readyKeys # <<>> /\ (~stopping \/ inflight > 0))
    <3>1. worker' = worker
      BY <2>2 DEF WorkerDone
    <3> QED BY <1>1, <2>2, <3>1 DEF TypeOK, Live
  <2> QED BY <2>1, <2>2
<1>5. TypeOK'
  <2>1. doneDue' \in Nat
    BY <1>1, <1>2 DEF TypeOK
  <2>2. cancelling' \subseteq Live' /\ interrupted' \subseteq cancelling'
    BY <1>1, <1>2, <1>4 DEF TypeOK
  <2> QED BY <1>1, <1>2, <1>3, <1>4, <2>1, <2>2 DEF TypeOK
<1>6. LanesHold' /\ CountHolds' /\ StopsHold'
  BY <1>1, <1>2, <1>3 DEF LanesHold, CountHolds, Active, StopsHold
<1>7. ReadyHolds'
  BY <1>1, <1>3 DEF ReadyHolds
<1>8. CarriersHold'
  <2>1. \A w \in Workers : carries[w] # NoEvent => worker'[w] = "busy"
    BY <1>1, <1>4 DEF CarriersHold, Live
  <2> QED BY <1>1, <1>2, <1>3, <1>4, <2>1 DEF CarriersHold
<1>9. WorkersKeepUp'
  <2> DEFINE created == {w \in Workers : worker'[w] = "created"}
  <2>1. created \subseteq Runners' /\ Runners' \in SUBSET Workers /\ created \in SUBSET Workers
    BY DEF Runners
  <2>2. /\ Cardinality(created) \in Nat /\ Cardinality(Runners') \in Nat
        /\ Cardinality(created) <= Cardinality(Runners') /\ Len(readyKeys) \in Nat
    BY <2>1, Crew, FS_Subset, EventFacts
  <2>3. readyKeys = <<>> => Len(readyKeys) = 0
    BY EmptySeq
  <2> QED BY <1>2, <1>3, <1>4, <2>2, <2>3 DEF WorkersKeepUp
<1>10. FatesHold' /\ ActionsAccounted'
  BY <1>1, <1>2, <1>3 DEF FatesHold, ActionsAccounted
<1> QED BY <1>5, <1>6, <1>7, <1>8, <1>9, <1>10 DEF IInv

\* What follows when only the workers' cancellations and stop's progress change
LEMMA StopFrame ==
  ASSUME IInv,
         UNCHANGED <<status, result, op, settled, unsent, cancelDue, laneVars, worker, carries,
                     doneDue, looping, inflight>>,
         opCancel' \subseteq Events, cancelling' \subseteq Live, interrupted' \subseteq cancelling',
         stops' \in Nat, workerCancels' \in Nat, stops' + workerCancels' <= MaxDisturbances,
         workerCancels' = 0 => workerCancels = 0 /\ interrupted' = {},
         accepting' \in BOOLEAN, stopping' \in BOOLEAN,
         stopCall' \in {"none", "draining", "aborting", "reaping"},
         stopping' => ~accepting', stopCall' # "none" => stopping',
         stopCall' = "reaping" => inflight = 0,
         ~stopping' \/ inflight > 0 => ~stopping \/ inflight > 0
  PROVE  IInv'
<1>1. /\ TypeOK /\ LanesHold /\ CountHolds /\ ReadyHolds /\ CarriersHold /\ WorkersKeepUp
      /\ FatesHold /\ ActionsAccounted
  BY DEF IInv
<1>2. UNCHANGED <<pending, running, ready, readyKeys>> /\ Live' = Live
  BY DEF laneVars, Live
<1>3. TypeOK'
  BY <1>1, <1>2 DEF TypeOK
<1>4. LanesHold' /\ CountHolds' /\ StopsHold'
  BY <1>1, <1>2 DEF LanesHold, CountHolds, Active, StopsHold
<1>5. ReadyHolds'
  BY <1>1, <1>2 DEF ReadyHolds
<1>6. CarriersHold'
  BY <1>1, <1>2 DEF CarriersHold
<1>7. WorkersKeepUp'
  BY <1>1, <1>2 DEF WorkersKeepUp, Runners
<1>8. FatesHold' /\ ActionsAccounted'
  BY <1>1, <1>2 DEF FatesHold, ActionsAccounted
<1> QED BY <1>3, <1>4, <1>5, <1>6, <1>7, <1>8 DEF IInv

\* Somebody cancels a worker.
LEMMA CancelWorkerKeeps ==
  ASSUME IInv, NEW w \in Workers, CancelWorker(w)
  PROVE  IInv'
<1>1. /\ TypeOK /\ StopsHold /\ FatesHold /\ w \in Live /\ stops + workerCancels < MaxDisturbances
      /\ workerCancels' = workerCancels + 1 /\ cancelling' = cancelling \cup {w}
      /\ UNCHANGED <<status, result, op, settled, unsent, cancelDue, laneVars, worker,
                     carries, doneDue, looping, inflight, stopVars>>
  BY DEF IInv, CancelWorker
<1>2. opCancel' \subseteq Events /\ interrupted' \subseteq cancelling'
  <2>1. carries[w] \in Events \cup {NoEvent}
    BY <1>1 DEF TypeOK
  <2>2. \/ UNCHANGED <<opCancel, interrupted>>
        \/ carries[w] # NoEvent /\ opCancel' = opCancel \cup {carries[w]} /\ UNCHANGED interrupted
        \/ interrupted' = interrupted \cup {w} /\ UNCHANGED opCancel
    BY DEF CancelWorker
  <2> QED BY <1>1, <2>1, <2>2 DEF TypeOK
<1>3. UNCHANGED <<accepting, stopping, stopCall, stops>>
  BY <1>1 DEF stopVars
<1>4. /\ cancelling' \subseteq Live /\ stops' \in Nat /\ workerCancels' \in Nat
      /\ stops' + workerCancels' <= MaxDisturbances /\ workerCancels' # 0
  <2>1. /\ stops \in Nat /\ workerCancels \in Nat /\ MaxDisturbances \in Nat /\ cancelling \subseteq Live
    BY <1>1, DispatcherAssumption DEF TypeOK
  <2> QED BY <1>1, <1>3, <2>1
<1>5. /\ accepting \in BOOLEAN /\ stopping \in BOOLEAN
      /\ stopCall \in {"none", "draining", "aborting", "reaping"}
      /\ (stopping => ~accepting) /\ (stopCall # "none" => stopping)
      /\ (stopCall = "reaping" => inflight = 0)
  BY <1>1 DEF TypeOK, StopsHold
<1> QED BY <1>1, <1>2, <1>3, <1>4, <1>5, StopFrame

\* stop() is called.
LEMMA StopCalledKeeps ==
  ASSUME IInv, StopCalled
  PROVE  IInv'
<1>1. /\ TypeOK /\ FatesHold /\ stops + workerCancels < MaxDisturbances /\ inflight \in Nat
      /\ stops' = stops + 1 /\ accepting' = FALSE /\ stopping' = TRUE
      /\ UNCHANGED <<ticketVars, unsent, cancelDue, laneVars, worker, carries, interrupted,
                     doneDue, looping, workerCancels, inflight>>
  BY EventFacts DEF IInv, StopCalled
<1>2. \/ inflight > 0 /\ stopCall' = "draining" /\ cancelling' = cancelling
      \/ ~(inflight > 0) /\ stopCall' = "reaping" /\ cancelling' = cancelling \cup Live
  BY DEF StopCalled, Reap
<1>3. UNCHANGED <<status, result, op, opCancel, settled>>
  BY <1>1 DEF ticketVars
<1>4. /\ stops' \in Nat /\ workerCancels' \in Nat /\ stops' + workerCancels' <= MaxDisturbances
  <2>1. stops \in Nat /\ workerCancels \in Nat /\ MaxDisturbances \in Nat
    BY <1>1, DispatcherAssumption DEF TypeOK
  <2> QED BY <1>1, <2>1
<1>5. /\ opCancel' \subseteq Events /\ cancelling' \subseteq Live /\ interrupted' \subseteq cancelling'
      /\ (workerCancels' = 0 => workerCancels = 0 /\ interrupted' = {})
      /\ (stopCall' = "reaping" => inflight = 0)
      /\ stopCall' \in {"none", "draining", "aborting", "reaping"}
  BY <1>1, <1>2, <1>3 DEF TypeOK, FatesHold
<1> QED BY <1>1, <1>3, <1>4, <1>5, StopFrame

\* Nothing is left to drain.
LEMMA StopDrainedKeeps ==
  ASSUME IInv, StopDrained
  PROVE  IInv'
<1>1. /\ TypeOK /\ FatesHold /\ StopsHold /\ inflight = 0 /\ stopCall \in {"draining", "aborting"}
      /\ cancelling' = cancelling \cup Live /\ stopCall' = "reaping"
      /\ UNCHANGED <<ticketVars, unsent, cancelDue, laneVars, worker, carries, interrupted,
                     doneDue, looping, workerCancels, inflight, accepting, stopping, stops>>
  BY DEF IInv, StopDrained, Reap
<1>2. UNCHANGED <<status, result, op, opCancel, settled>>
  BY <1>1 DEF ticketVars
<1>3. /\ stops' \in Nat /\ workerCancels' \in Nat /\ stops' + workerCancels' <= MaxDisturbances
      /\ accepting' \in BOOLEAN /\ stopping' \in BOOLEAN
      /\ opCancel' \subseteq Events /\ cancelling' \subseteq Live /\ interrupted' \subseteq cancelling'
      /\ (workerCancels' = 0 => workerCancels = 0 /\ interrupted' = {})
  BY <1>1, <1>2 DEF TypeOK, FatesHold
<1>4. stopping' /\ ~accepting'
  BY <1>1 DEF StopsHold
<1> QED BY <1>1, <1>2, <1>3, <1>4, StopFrame

\* The task that stops gives up.
LEMMA StopGivesUpKeeps ==
  ASSUME IInv, StopGivesUp
  PROVE  IInv'
<1>1. /\ TypeOK /\ FatesHold /\ StopsHold /\ stopCall' = "none"
      /\ UNCHANGED <<ticketVars, unsent, cancelDue, laneVars, workerVars, looping,
                     workerCancels, inflight, accepting, stopping, stops>>
  BY DEF IInv, StopGivesUp
<1>2. UNCHANGED <<status, result, op, opCancel, settled, worker, carries, cancelling, interrupted,
                  doneDue>>
  BY <1>1 DEF ticketVars, workerVars
<1>3. /\ stops' \in Nat /\ workerCancels' \in Nat /\ stops' + workerCancels' <= MaxDisturbances
      /\ accepting' \in BOOLEAN /\ stopping' \in BOOLEAN
      /\ opCancel' \subseteq Events /\ cancelling' \subseteq Live /\ interrupted' \subseteq cancelling'
      /\ (workerCancels' = 0 => workerCancels = 0 /\ interrupted' = {})
  BY <1>1, <1>2 DEF TypeOK, FatesHold
<1>4. stopping' => ~accepting'
  BY <1>1 DEF StopsHold
<1> QED BY <1>1, <1>2, <1>3, <1>4, StopFrame

\* The time to drain is over.
LEMMA StopTimesOutKeeps ==
  ASSUME IInv, StopTimesOut
  PROVE  IInv'
<1> DEFINE aborted == {e \in Events : status[e] = "pending"}
           started == {e \in Events : status[e] = "running"}
<1>1. /\ TypeOK /\ LanesHold /\ CountHolds /\ StopsHold /\ FatesHold /\ ActionsAccounted
      /\ inflight \in Nat /\ stopCall = "draining"
  BY EventFacts DEF IInv, StopTimesOut
<1>2. /\ pending' = [k \in Keys |-> <<>>]
      /\ status' = [e \in Events |-> IF e \in aborted THEN "finished" ELSE status[e]]
      /\ result' = [e \in Events |-> IF e \in aborted \cup started /\ result[e] = "waiting"
                                     THEN "failed" ELSE result[e]]
      /\ opCancel' = opCancel \cup {e \in started : op[e] = "running"}
      /\ inflight' = inflight - Cardinality(aborted)
      /\ UNCHANGED <<op, settled, unsent, cancelDue, running, ready, readyKeys, worker,
                     carries, interrupted, doneDue, looping, workerCancels, accepting,
                     stopping, stops>>
  BY DEF StopTimesOut
<1>3. \/ inflight' > 0 /\ stopCall' = "aborting" /\ cancelling' = cancelling
      \/ ~(inflight' > 0) /\ stopCall' = "reaping" /\ cancelling' = cancelling \cup Live
  BY DEF StopTimesOut, Reap
<1>4. /\ \A d \in Events : status'[d] = IF status[d] = "pending" THEN "finished" ELSE status[d]
      /\ \A d \in Events : result'[d] = IF result[d] = "waiting" THEN "failed" ELSE result[d]
      /\ \A k \in Keys : pending'[k] = <<>>
      /\ status' \in [Events -> Statuses] /\ result' \in [Events -> Results]
      /\ pending' \in [Keys -> Seq(Events)] /\ opCancel' \subseteq Events
  <2>1. \A d \in Events : status'[d] = IF status[d] = "pending" THEN "finished" ELSE status[d]
    BY <1>2
  <2>2. \A d \in Events : result'[d] = IF result[d] = "waiting" THEN "failed" ELSE result[d]
    BY <1>1, <1>2 DEF FatesHold
  <2>3. status' \in [Events -> Statuses] /\ result' \in [Events -> Results]
    BY <1>1, <1>2 DEF TypeOK, Statuses, Results
  <2>4. pending' \in [Keys -> Seq(Events)] /\ \A k \in Keys : pending'[k] = <<>>
    BY <1>2, EmptySeq
  <2>5. opCancel' \subseteq Events
    BY <1>1, <1>2 DEF TypeOK
  <2> QED BY <2>1, <2>2, <2>3, <2>4, <2>5
<1>5. CountHolds' /\ inflight' \in Nat /\ inflight' <= inflight
  <2>1. Active' = Active \ aborted /\ aborted \subseteq Active /\ Active \cap aborted = aborted
    BY <1>4 DEF Active
  <2>2. Cardinality(Active') = Cardinality(Active) - Cardinality(aborted) /\ IsFiniteSet(Active')
    BY <2>1, EventFacts, FS_Difference
  <2>3. Cardinality(aborted) \in Nat /\ Cardinality(Active') \in Nat
    BY <2>1, <2>2, EventFacts, FS_Subset, FS_CardinalityType
  <2> HIDE DEF aborted
  <2> QED BY <1>1, <1>2, <2>2, <2>3, EventFacts DEF CountHolds, Capacity
<1>6. cancelling' \subseteq Live /\ interrupted' \subseteq cancelling' /\ Live' = Live
  BY <1>1, <1>2, <1>3 DEF TypeOK, Live
<1>7. TypeOK'
  BY <1>1, <1>2, <1>3, <1>4, <1>5, <1>6 DEF TypeOK
<1>8. LanesHold'
  <2>1. Range(<<>>) = {} /\ IsInjective(<<>>)
    BY EmptySeq, EmptyFacts
  <2> QED BY <1>1, <1>2, <1>4, <2>1 DEF LanesHold
<1>9. ReadyHolds' /\ CarriersHold' /\ WorkersKeepUp'
  BY <1>2, <1>4, <1>5, Fewer
<1>10. StopsHold'
  BY <1>1, <1>2, <1>3, <1>5 DEF StopsHold
<1>11. FatesHold'
  BY <1>1, <1>2, <1>4 DEF FatesHold
<1>12. ActionsAccounted'
  BY <1>1, <1>2, <1>4 DEF ActionsAccounted, FatesHold
<1> QED BY <1>5, <1>7, <1>8, <1>9, <1>10, <1>11, <1>12 DEF IInv

\* Lanes are cleared when no event is left in any: nothing is lost.
LEMMA ClearFacts ==
  ASSUME IInv, ClearLanes, inflight = 0, UNCHANGED <<status, inflight>>
  PROVE  /\ pending' = pending /\ running' = running
         /\ LanesHold' /\ CountHolds' /\ ReadyHolds' /\ Len(readyKeys') = 0
         /\ pending' \in [Keys -> Seq(Events)] /\ running' \in [Keys -> Events \cup {NoEvent}]
         /\ ready' \in [Keys -> BOOLEAN] /\ readyKeys' \in Seq(Keys)
<1>1. TypeOK /\ LanesHold /\ CountHolds
  BY DEF IInv
<1>2. \A e \in Events : status[e] \notin {"pending", "running"}
  <2>1. Active = {}
    BY <1>1, EventFacts, FS_EmptySet DEF CountHolds
  <2> QED BY <2>1 DEF Active
<1>3. pending' = [k \in Keys |-> <<>>] /\ running' = [k \in Keys |-> NoEvent]
      /\ ready' = [k \in Keys |-> FALSE] /\ readyKeys' = <<>>
  BY DEF ClearLanes
<1>4. \A k \in Keys : pending[k] = <<>> /\ running[k] = NoEvent
  <2> TAKE k \in Keys
  <2>1. pending[k] \in Seq(Events) /\ running[k] \in Events \cup {NoEvent}
    BY <1>1 DEF TypeOK
  <2>2. Range(pending[k]) = {}
    <3>1. \A i \in Range(pending[k]) : i \in Events
      BY <2>1, LenProperties, ElementOfSeq DEF Range
    <3> QED BY <1>1, <1>2, <3>1 DEF LanesHold
  <2> QED BY <1>1, <1>2, <2>1, <2>2, EmptyFacts DEF LanesHold
<1>5. pending' = pending /\ running' = running
  BY <1>1, <1>3, <1>4 DEF TypeOK
<1>6. LanesHold' /\ CountHolds'
  BY <1>1, <1>5 DEF LanesHold, CountHolds, Active
<1>7. /\ readyKeys' \in Seq(Keys) /\ IsInjective(readyKeys') /\ Range(readyKeys') = {}
      /\ Len(readyKeys') = 0
  BY <1>3, EmptySeq, EmptyFacts
<1>8. ReadyHolds'
  BY <1>3, <1>4, <1>5, <1>7 DEF ReadyHolds
<1> QED BY <1>1, <1>3, <1>5, <1>6, <1>7, <1>8 DEF TypeOK

\* _finalize_stop and start
LEMMA ClearKeeps ==
  ASSUME IInv, ClearLanes, inflight = 0, Live = {},
         UNCHANGED <<ticketVars, unsent, cancelDue, workerVars, looping, workerCancels,
                     inflight, stops>>,
         accepting' \in BOOLEAN, stopping' \in BOOLEAN,
         stopCall' = "none", stopping' => ~accepting'
  PROVE  IInv'
<1>1. TypeOK /\ CarriersHold /\ FatesHold /\ ActionsAccounted
  BY DEF IInv
<1>2. UNCHANGED <<status, result, op, opCancel, settled, worker, carries, cancelling, interrupted,
                  doneDue>>
  BY DEF ticketVars, workerVars
<1>3. /\ LanesHold' /\ CountHolds' /\ ReadyHolds' /\ Len(readyKeys') = 0
      /\ pending' \in [Keys -> Seq(Events)] /\ running' \in [Keys -> Events \cup {NoEvent}]
      /\ ready' \in [Keys -> BOOLEAN] /\ readyKeys' \in Seq(Keys)
  BY <1>2, ClearFacts
<1>4. TypeOK'
  BY <1>1, <1>2, <1>3 DEF TypeOK, Live
<1>5. CarriersHold'
  BY <1>1, <1>2 DEF CarriersHold, Live
<1>6. WorkersKeepUp'
  <2>1. Runners' \in SUBSET Workers
    BY DEF Runners
  <2>2. Cardinality(Runners') \in Nat
    BY <2>1, Crew
  <2> QED BY <1>3, <2>2 DEF WorkersKeepUp
<1>7. StopsHold'
  BY DEF StopsHold
<1>8. FatesHold' /\ ActionsAccounted'
  BY <1>1, <1>2 DEF FatesHold, ActionsAccounted
<1> QED BY <1>3, <1>4, <1>5, <1>6, <1>7, <1>8 DEF IInv

LEMMA StopReapedKeeps ==
  ASSUME IInv, StopReaped
  PROVE  IInv'
<1>1. /\ ClearLanes /\ Live = {} /\ stopCall = "reaping" /\ stopping' = FALSE /\ stopCall' = "none"
      /\ UNCHANGED <<ticketVars, unsent, cancelDue, workerVars, looping, workerCancels,
                     inflight, accepting, stops>>
  BY DEF StopReaped
<1>2. inflight = 0 /\ accepting \in BOOLEAN
  BY <1>1 DEF IInv, StopsHold, TypeOK
<1> QED BY <1>1, <1>2, ClearKeeps

LEMMA StartKeeps ==
  ASSUME IInv, Start
  PROVE  IInv'
<1>1. /\ ClearLanes /\ Live = {} /\ inflight = 0 /\ stopping' = FALSE /\ accepting' = TRUE
      /\ stopCall' = "none"
      /\ UNCHANGED <<ticketVars, unsent, cancelDue, workerVars, looping, workerCancels,
                     inflight, stops>>
  BY DEF Start
<1> QED BY <1>1, ClearKeeps

LEMMA StepKeeps == IInv /\ [Next]_vars => IInv'
<1> SUFFICES ASSUME IInv, [Next]_vars PROVE IInv'
  OBVIOUS
<1>1. ASSUME NEW e \in Events,
             OperationEnds(e) \/ ResultCancelled(e) \/ Admit(e) \/ Discard(e) \/ CancelCaller(e)
      PROVE  IInv'
  BY <1>1, OperationEndsKeeps, ResultCancelledKeeps, AdmitKeeps, DiscardKeeps, CancelCallerKeeps
<1>2. ASSUME NEW w \in Workers,
             WorkerBegins(w) \/ LoopStep(w) \/ WorkerResumes(w) \/ CancelWorker(w)
      PROVE  IInv'
  BY <1>2, WorkerBeginsKeeps, LoopEndsKeeps, LoopSkipsKeeps, LoopDropsCancelledKeeps,
     LoopRefusesKeeps, LoopStartsKeeps, WorkerResumesKeeps, CancelWorkerKeeps DEF LoopStep
<1>3. WorkerDone \/ StopDrained \/ StopTimesOut \/ StopReaped => IInv'
  BY WorkerDoneKeeps, StopDrainedKeeps, StopTimesOutKeeps, StopReapedKeeps
<1>4. StopCalled \/ StopGivesUp \/ Start => IInv'
  BY StopCalledKeeps, StopGivesUpKeeps, StartKeeps
<1>5. UNCHANGED vars => IInv'
  <2> SUFFICES ASSUME UNCHANGED vars PROVE IInv'
    OBVIOUS
  <2>1. UNCHANGED <<status, result, op, settled, unsent, cancelDue, laneVars, worker, carries,
                    doneDue, looping, inflight, opCancel, cancelling, interrupted, stops,
                    workerCancels, accepting, stopping, stopCall>>
    BY DEF vars, ticketVars, workerVars, stopVars
  <2>2. /\ opCancel \subseteq Events /\ cancelling \subseteq Live /\ interrupted \subseteq cancelling
        /\ stops \in Nat /\ workerCancels \in Nat /\ stops + workerCancels <= MaxDisturbances
        /\ (workerCancels = 0 => interrupted = {})
        /\ accepting \in BOOLEAN /\ stopping \in BOOLEAN
        /\ stopCall \in {"none", "draining", "aborting", "reaping"}
        /\ (stopping => ~accepting) /\ (stopCall # "none" => stopping)
        /\ (stopCall = "reaping" => inflight = 0)
    BY DEF IInv, TypeOK, StopsHold, FatesHold
  <2> QED BY <2>1, <2>2, StopFrame
<1> QED BY <1>1, <1>2, <1>3, <1>4, <1>5 DEF Next, Progress

\* Lanes, counts, the ready queue, workers and tickets always agree, whatever
\* transports, handlers, cancellations and stops do.
THEOREM Invariance == Spec => []IInv
<1>1. Init => IInv
  BY InitHolds
<1>2. IInv /\ [Next]_vars => IInv'
  BY StepKeeps
<1> QED BY <1>1, <1>2, PTL DEF Spec

\* The in-flight count is the number of tickets that wait or run, at most the
\* capacity, and no lane with work is forgotten by the workers.
THEOREM CountsAreExact == Spec => []LanesExact
<1>1. IInv => LanesExact
  <2> SUFFICES ASSUME IInv PROVE LanesExact
    OBVIOUS
  <2>1. TypeOK /\ LanesHold /\ CountHolds /\ ReadyHolds /\ WorkersKeepUp
    BY DEF IInv
  <2>2. InflightExact
    <3>1. \A e \in Events : /\ status[e] = "pending" <=> e \in Range(pending[KeyOf[e]])
                            /\ status[e] = "running" <=> running[KeyOf[e]] = e
      BY <2>1, EventFacts DEF LanesHold
    <3> QED BY <2>1, <3>1 DEF InflightExact, CountHolds, Active
  <2>3. WorkersSuffice
    <3> SUFFICES ASSUME Idle, doneDue = 0, inflight > 0
                 PROVE  /\ \A k \in Keys : pending[k] # <<>> /\ running[k] = NoEvent => k \in Range(readyKeys)
                        /\ \/ Cardinality(Live) = MaxWorkers
                           \/ Cardinality({w \in Workers : worker[w] = "created"}) >= Len(readyKeys)
      BY DEF WorkersSuffice
    <3>1. \A k \in Keys : pending[k] # <<>> /\ running[k] = NoEvent => k \in Range(readyKeys)
      BY <2>1 DEF ReadyHolds
    <3>2. Runners = {w \in Workers : worker[w] = "created"}
      BY WorkerFacts DEF Runners, Idle
    <3> QED BY <2>1, <3>1, <3>2 DEF WorkersKeepUp
  <2> QED BY <2>2, <2>3 DEF LanesExact
<1> QED BY <1>1, Invariance, PTL

\* While no worker is cancelled, actions are settled as undelivered exactly when
\* no transport has them.
THEOREM ActionsAreAccounted == Spec => []ActionsAccounted
<1>1. IInv => ActionsAccounted
  BY DEF IInv
<1> QED BY <1>1, Invariance, PTL

-----------------------------------------------------------------------------
(* The dispatcher is a set of first-in first-out lanes *)

LEMMA SameCardinality == \A S : Lanes!Cardinality(S) = Cardinality(S)
BY DEF Lanes!Cardinality, Cardinality

\* What the lanes hold is what the count counts.
LEMMA LoadIsInflight == IInv => Lanes!Load = inflight
<1> SUFFICES ASSUME IInv PROVE Lanes!Load = inflight
  OBVIOUS
<1>1. {e \in Events : \E k \in Keys : e = running[k] \/ e \in [l \in Keys |-> Range(pending[l])][k]}
        = Active
  <2>1. ASSUME NEW e \in Events
        PROVE  (\E k \in Keys : e = running[k] \/ e \in Range(pending[k]))
                 <=> status[e] \in {"pending", "running"}
    BY EventFacts DEF IInv, LanesHold
  <2> QED BY <2>1 DEF Active
<1> QED BY <1>1, SameCardinality DEF Lanes!Load, IInv, CountHolds

\* Events only leave their lines, and the rest keep their order.
LinesLeft ==
  \A k \in Keys :
    /\ Range(pending'[k]) \subseteq Range(pending[k])
    /\ Order(pending'[k], Range(pending'[k])) = Order(pending[k], Range(pending'[k]))

LEMMA OthersRemain ==
  ASSUME LinesLeft
  PROVE  Lanes!Remain
<1>1. \A k \in Keys :
        Order(pending'[k], Range(pending'[k]))
          = Order(pending[k], Range(pending[k])) \cap (Range(pending'[k]) \X Range(pending'[k]))
  BY OrderRestricts DEF LinesLeft
<1> QED BY <1>1 DEF Lanes!Remain

LEMMA LeftIsQuit ==
  ASSUME IInv, LinesLeft, running' = running
  PROVE  Lanes!Quit
<1>1. Lanes!Remain
  BY OthersRemain
<1>2. \A k \in Keys : Range(pending[k]) \subseteq Events
  <2> SUFFICES ASSUME NEW k \in Keys PROVE Range(pending[k]) \subseteq Events
    OBVIOUS
  <2>1. pending[k] \in Seq(Events)
    BY EventFacts
  <2> QED BY <2>1, LenProperties, ElementOfSeq DEF Range
<1>3. \A k \in Keys : Range(pending'[k]) \subseteq Range(pending[k])
  BY DEF LinesLeft
<1> QED BY <1>1, <1>2, <1>3 DEF Lanes!Quit

\* One event that leaves its lane
LEMMA WithoutLeaves ==
  ASSUME IInv, NEW e \in Events, NEW k \in Keys, pending' = [pending EXCEPT ![k] = Without(@, e)]
  PROVE  LinesLeft
<1>1. \A l \in Keys : pending'[l] = IF l = k THEN Without(pending[k], e) ELSE pending[l]
  BY DEF IInv, TypeOK
<1>2. pending[k] \in Seq(Events) /\ IsInjective(pending[k])
  BY EventFacts
<1>3. Range(Without(pending[k], e)) = Range(pending[k]) \ {e}
  BY <1>2, WithoutFacts
<1>4. Order(Without(pending[k], e), Range(pending[k]) \ {e}) = Order(pending[k], Range(pending[k]) \ {e})
  BY <1>2, OrderWithout
<1> SUFFICES ASSUME NEW l \in Keys
             PROVE  /\ Range(pending'[l]) \subseteq Range(pending[l])
                    /\ Order(pending'[l], Range(pending'[l])) = Order(pending[l], Range(pending'[l]))
  BY DEF LinesLeft
<1>5. CASE l = k
  <2>1. pending'[l] = Without(pending[k], e) /\ Range(pending'[l]) = Range(pending[k]) \ {e}
    BY <1>1, <1>3, <1>5
  <2> QED BY <1>4, <1>5, <2>1
<1>6. CASE l # k
  BY <1>1, <1>6
<1> QED BY <1>5, <1>6

\* Admission joins the line of the event's key.
LEMMA AdmitIsJoin ==
  ASSUME IInv, NEW e \in Events, Admit(e)
  PROVE  Lanes!Join(e, KeyOf[e])
<1>1. PICK k \in Keys : k = KeyOf[e]
  BY EventFacts
<1>2. /\ status[e] = "new" /\ inflight < Capacity /\ running' = running
      /\ pending' = [pending EXCEPT ![k] = Append(@, e)]
  BY <1>1 DEF Admit
<1>3. TypeOK /\ LanesHold
  BY DEF IInv
<1>4. \A l \in Keys : e # running[l] /\ e \notin Range(pending[l])
  BY <1>2, <1>3 DEF LanesHold
<1>5. \A l \in Keys : pending'[l] = IF l = k THEN Append(pending[k], e) ELSE pending[l]
  BY <1>2, <1>3 DEF TypeOK
<1>6. pending[k] \in Seq(Events)
  BY EventFacts
<1>7. Range(Append(pending[k], e)) = Range(pending[k]) \cup {e}
  BY <1>6, AppendFacts
<1>8. Order(Append(pending[k], e), Range(pending[k]) \cup {e})
        = Order(pending[k], Range(pending[k])) \cup (Range(pending[k]) \X {e})
  BY SMTT(30), <1>4, <1>6, OrderAppend
<1>9. [l \in Keys |-> Range(pending'[l])]
        = [[l \in Keys |-> Range(pending[l])] EXCEPT ![k] = @ \cup {e}]
  BY <1>5, <1>7
<1>10. [l \in Keys |-> Order(pending'[l], Range(pending'[l]))]
         = [[l \in Keys |-> Order(pending[l], Range(pending[l]))] EXCEPT ![k] = @ \cup (Range(pending[k]) \X {e})]
  BY <1>5, <1>7, <1>8
<1>11. Lanes!Load < Capacity
  BY <1>2, LoadIsInflight
<1> QED BY <1>1, <1>2, <1>4, <1>9, <1>10, <1>11 DEF Lanes!Join

\* The handler of the first in line starts.
LEMMA LoopStartsIsAdvance ==
  ASSUME IInv, NEW w \in Workers, LoopStarts(w)
  PROVE  \E k \in Keys, e \in Events : Lanes!Advance(e, k)
<1>1. /\ TypeOK /\ ReadyHolds /\ LanesHold /\ readyKeys # <<>> /\ running[Head(readyKeys)] = NoEvent
      /\ pending[Head(readyKeys)] # <<>>
  BY DEF IInv, LoopStarts, Takes
<1>2. Head(readyKeys) \in Keys
  BY <1>1, EventFacts, TailFacts DEF ReadyHolds
<1>3. PICK k \in Keys : k = Head(readyKeys)
  BY <1>2
<1>4. pending[k] \in Seq(Events) /\ IsInjective(pending[k]) /\ pending[k] # <<>>
  BY <1>1, <1>3, EventFacts
<1>5. Head(pending[k]) \in Events /\ Head(pending[k]) \in Range(pending[k])
  BY <1>4, TailFacts
<1>6. PICK e \in Events : e = Head(pending[k])
  BY <1>5
<1>7. /\ pending' = [pending EXCEPT ![k] = Without(@, e)] /\ running' = [running EXCEPT ![k] = e]
  BY <1>3, <1>6 DEF LoopStarts, FirstOf
<1>8. Lanes!Remain
  BY <1>7, WithoutLeaves, OthersRemain
<1>9. \A d \in Range(pending[k]) : <<d, e>> \notin Order(pending[k], Range(pending[k]))
  BY <1>4, <1>6, HeadFirst DEF Order
<1>10. \A l \in Keys : pending'[l] = IF l = k THEN Without(pending[k], e) ELSE pending[l]
  BY <1>1, <1>7 DEF TypeOK
<1>11. Range(Without(pending[k], e)) = Range(pending[k]) \ {e}
  BY <1>4, WithoutFacts
<1>12. [l \in Keys |-> Range(pending'[l])]
         = [[l \in Keys |-> Range(pending[l])] EXCEPT ![k] = @ \ {e}]
  BY <1>10, <1>11
<1>13. e \in Range(pending[k]) /\ running[k] = NoEvent
  BY <1>1, <1>3, <1>5, <1>6
<1>14. Lanes!Advance(e, k)
  BY <1>7, <1>8, <1>9, <1>12, <1>13 DEF Lanes!Advance
<1> QED BY <1>14

\* The handler of a key is over.
LEMMA WorkerResumesIsOver ==
  ASSUME IInv, NEW w \in Workers, WorkerResumes(w)
  PROVE  \E k \in Keys : Lanes!Over(k)
<1>1. carries[w] \in Events /\ status[carries[w]] = "running"
  BY DEF IInv, TypeOK, CarriersHold, WorkerResumes
<1>2. PICK k \in Keys : k = KeyOf[carries[w]]
  BY <1>1, EventFacts
<1>3. running[k] = carries[w] /\ running[k] # NoEvent
  BY <1>1, <1>2, EventFacts DEF IInv, LanesHold
<1>4. running' = [running EXCEPT ![k] = NoEvent] /\ pending' = pending
  BY <1>2 DEF WorkerResumes
<1>5. Lanes!Over(k)
  BY <1>3, <1>4 DEF Lanes!Over
<1> QED BY <1>5

\* cancel() is a step out of line, or nothing the lanes see.
LEMMA CancelIsQuit ==
  ASSUME IInv, NEW e \in Events, CancelTicket(e), running' = running
  PROVE  Lanes!Quit \/ UNCHANGED Lanes!lanesVars
<1>1. CASE status[e] = "pending"
  <2>1. pending' = [pending EXCEPT ![KeyOf[e]] = Without(@, e)] /\ KeyOf[e] \in Keys
    BY <1>1, EventFacts DEF CancelTicket
  <2> QED BY <2>1, WithoutLeaves, LeftIsQuit
<1>2. CASE status[e] # "pending"
  <2>1. pending' = pending
    BY <1>2 DEF CancelTicket
  <2> QED BY <2>1 DEF Lanes!lanesVars
<1> QED BY <1>1, <1>2

LEMMA DropIsQuit ==
  ASSUME IInv, NEW w \in Workers, LoopDropsCancelled(w) \/ LoopRefuses(w)
  PROVE  Lanes!Quit
<1>1. /\ Takes(w) /\ DropFirst(Head(readyKeys)) /\ running' = running
  BY DEF LoopDropsCancelled, LoopRefuses
<1>2. Head(readyKeys) \in Keys
  BY <1>1, EventFacts, TailFacts DEF Takes, IInv, ReadyHolds
<1>3. PICK k \in Keys : k = Head(readyKeys)
  BY <1>2
<1>4. Head(pending[k]) \in Events
  BY <1>1, <1>3, EventFacts, TailFacts DEF Takes
<1>5. PICK e \in Events : e = Head(pending[k])
  BY <1>4
<1>6. pending' = [pending EXCEPT ![k] = Without(@, e)]
  BY <1>1, <1>3, <1>5 DEF DropFirst, FirstOf
<1> QED BY <1>1, <1>6, WithoutLeaves, LeftIsQuit

LEMMA StopTimesOutIsQuit ==
  ASSUME IInv, StopTimesOut
  PROVE  Lanes!Quit
<1>1. running' = running /\ \A k \in Keys : pending'[k] = <<>>
  BY DEF StopTimesOut
<1>2. Range(<<>>) = {}
  BY EmptySeq, EmptyFacts
<1>3. \A s : Order(s, {}) = {}
  BY DEF Order
<1>4. LinesLeft
  BY <1>1, <1>2, <1>3 DEF LinesLeft
<1> QED BY <1>1, <1>4, LeftIsQuit

\* Handlers of one session key run one at a time and in the order of admission,
\* and no more events are in the dispatcher than it has room for, whatever the
\* numbers of events, keys, workers and places.
THEOREM IsFifoLanes == Spec => ImplementsFifoLanes
<1>1. Init => Lanes!LanesInit
  <2> SUFFICES ASSUME Init PROVE Lanes!LanesInit
    OBVIOUS
  <2>1. Range(<<>>) = {}
    BY EmptySeq, EmptyFacts
  <2>2. \A s : Order(s, {}) = {}
    BY DEF Order
  <2> QED BY <2>1, <2>2 DEF Init, Lanes!LanesInit
<1>2. IInv /\ [Next]_vars => [Lanes!LanesNext]_(Lanes!lanesVars)
  <2> SUFFICES ASSUME IInv, [Next]_vars PROVE [Lanes!LanesNext]_(Lanes!lanesVars)
    OBVIOUS
  <2>1. ASSUME pending' = pending, running' = running PROVE UNCHANGED Lanes!lanesVars
    BY <2>1 DEF Lanes!lanesVars
  <2>2. ASSUME NEW e \in Events, Admit(e) PROVE Lanes!LanesNext
    BY <2>2, AdmitIsJoin, EventFacts DEF Lanes!LanesNext
  <2>3. ASSUME NEW e \in Events, Discard(e) \/ CancelCaller(e) \/ ResultCancelled(e)
        PROVE  Lanes!Quit \/ UNCHANGED Lanes!lanesVars
    <3>1. running' = running /\ (CancelTicket(e) \/ pending' = pending)
      BY <2>3 DEF Discard, CancelCaller, ResultCancelled
    <3> QED BY <2>1, <3>1, CancelIsQuit
  <2>4. ASSUME NEW w \in Workers, LoopDropsCancelled(w) \/ LoopRefuses(w) PROVE Lanes!LanesNext
    BY <2>4, DropIsQuit DEF Lanes!LanesNext
  <2>5. ASSUME NEW w \in Workers, LoopStarts(w) PROVE Lanes!LanesNext
    BY <2>5, LoopStartsIsAdvance DEF Lanes!LanesNext
  <2>6. ASSUME NEW w \in Workers, WorkerResumes(w) PROVE Lanes!LanesNext
    BY <2>6, WorkerResumesIsOver DEF Lanes!LanesNext
  <2>7. ASSUME NEW w \in Workers, WorkerBegins(w) \/ LoopEnds(w) \/ LoopSkips(w) \/ CancelWorker(w)
        PROVE  UNCHANGED Lanes!lanesVars
    BY <2>1, <2>7 DEF WorkerBegins, LoopEnds, LoopSkips, CancelWorker, laneVars
  <2>8. ASSUME NEW e \in Events, OperationEnds(e) PROVE UNCHANGED Lanes!lanesVars
    BY <2>1, <2>8 DEF OperationEnds, laneVars
  <2>9. CASE WorkerDone \/ StopCalled \/ StopDrained \/ StopGivesUp \/ UNCHANGED vars
    BY <2>1, <2>9 DEF WorkerDone, StopCalled, StopDrained, StopGivesUp, vars, laneVars
  <2>10. CASE StopTimesOut
    BY <2>10, StopTimesOutIsQuit DEF Lanes!LanesNext
  <2>11. CASE StopReaped \/ Start
    <3>1. ClearLanes /\ inflight = 0 /\ UNCHANGED <<status, inflight>>
      BY <2>11 DEF StopReaped, Start, IInv, StopsHold, ticketVars
    <3> QED BY <2>1, <3>1, ClearFacts
  <2>12. ASSUME Lanes!Quit PROVE Lanes!LanesNext
    BY <2>12 DEF Lanes!LanesNext
  <2> QED BY <2>2, <2>3, <2>4, <2>5, <2>6, <2>7, <2>8, <2>9, <2>10, <2>11, <2>12
          DEF Next, Progress, LoopStep
<1> QED BY <1>1, <1>2, Invariance, PTL DEF Spec, ImplementsFifoLanes, Lanes!LanesSpec
=============================================================================
