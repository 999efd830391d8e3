--------------------------- MODULE BackgroundProofs ---------------------------
(***************************************************************************)
(* Theorems about the two components that work in the background.          *)
(*                                                                         *)
(* Fanout, for any number of targets and posts and any faults: no cursor   *)
(* passes a post that is not settled, the checkpoint trails the cursor,    *)
(* and a target gets a post twice only by the named accidents.             *)
(*                                                                         *)
(* PluginGenerations, for any number of generations, gates and calls: one  *)
(* generation runs at a time, what is served is whole, a quarantine lets   *)
(* nothing in, every job settles, and only a restart ends what only a      *)
(* restart may end.                                                        *)
(***************************************************************************)
EXTENDS PluginGenerations, Fanout, SequenceTheorems, WellFoundedInduction, TLAPS

(***************************************************************************)
(* Fan-out                                                                 *)
(***************************************************************************)

\* Every post worth a push up to n is settled in s.
Passed(n, s) == \A q \in Quakes : q <= n => Targets \X {q} \subseteq s

\* A fan-out that may be on disk or in memory: what was before it is settled,
\* and what it says is done.
Reached(p, s) == Passed(p.from, s) /\ p.done \X Covers(p) \subseteq s

Writes == [file : {"active", "checkpoint", "marker", "outbox", "restore"}, n : Int,
           from : 0..MaxPost, done : SUBSET Targets]

Fanned(w) == [from |-> w.from, upto |-> w.n, done |-> w.done]

\* A write that may happen at any later time
WriteOk(w, s) ==
  /\ w \in Writes
  /\ w.file \in {"active", "checkpoint"} => w.n \in Cursors /\ Passed(w.n, s)
  /\ w.file = "outbox" => w.n \in 0..MaxPost /\ Reached(Fanned(w), s)

ThreadOk(q, s) == q \in Seq(Writes) /\ \A i \in 1..Len(q) : WriteOk(q[i], s)

FaultsOk == faults \in [FaultKinds -> Nat] /\ \A k \in FaultKinds : faults[k] \in 0..Limit[k]

\* Nothing on disk, in memory or in a thread, left behind or not, is ahead of
\* what is settled.
FilesOk ==
  /\ active \in Cursors /\ checkpoint \in Cursors /\ marker \in BOOLEAN /\ outbox \in Pending
  /\ Passed(active, settled) /\ Passed(checkpoint, settled) /\ Reached(outbox, settled)

JobOk ==
  /\ pc \in {"idle", "since", "load", "create", "deliver", "mark", "advance", "commit", "clear"}
  /\ cursor \in 0..MaxPost /\ Passed(cursor, settled)
  /\ pending \in Pending /\ Reached(pending, settled)
  /\ todo \subseteq Targets \ pending.done /\ leaving \in BOOLEAN /\ ThreadOk(io, settled)
  /\ pc = "idle" => io = <<>> /\ pending = NoPending

StraysOk == strays \in Seq(Seq(Writes)) /\ \A i \in 1..Len(strays) : ThreadOk(strays[i], settled)

WorldOk == feed \in 0..MaxPost /\ FaultsOk /\ pushed \in [Targets -> [Posts -> 0..2]]

NothingAhead == FilesOk /\ JobOk /\ StraysOk /\ WorldOk

\* The states of a recovery, and of the saving of a cursor
Loads ==
  \/ io \in {<<>>, <<Write("marker", 0)>>} /\ checkpoint <= cursor
  \/ io \in {<<Write("restore", 0)>>, <<Write("restore", 1)>>,
             <<Write("active", Missing), Write("restore", 0)>>,
             <<Write("marker", 1), Write("active", Missing), Write("restore", 0)>>}
  \/ checkpoint >= 0 /\ io = <<Write("active", checkpoint), Write("marker", 0)>>
  \/ checkpoint < 0 /\ io = <<Write("active", 0), Write("checkpoint", 0), Write("marker", 0)>>
  \/ checkpoint < 0 /\ active \in {0, Corrupt} /\ cursor = 0
     /\ io = <<Write("checkpoint", 0), Write("marker", 0)>>

Saves(n) ==
  \/ checkpoint <= n /\ io = SaveSince(n)
  \/ checkpoint <= n /\ active \in {n, Corrupt} /\ io = <<Write("checkpoint", n)>>
  \/ checkpoint = n /\ io = <<>>

\* Where the job is, what its thread has still to write and what is on disk
Phase ==
  /\ pc \in {"since", "load", "advance"} => outbox.upto = 0
  /\ pc \in {"since", "deliver"} => io = <<>>
  /\ pc = "load" => Loads
  /\ pc = "advance" => \E n \in 0..MaxPost : Saves(n)
  /\ pc = "create" =>
       /\ pending.upto > 0 /\ checkpoint <= pending.from /\ pending.from <= pending.upto
       /\ \/ io = <<WriteOutbox(pending)>> /\ outbox.upto = 0
          \/ io = <<>> /\ outbox = pending
  /\ pc \in {"deliver", "commit"} => outbox = pending /\ pending.upto > 0
  /\ pc = "mark" =>
       /\ outbox.from = pending.from /\ outbox.upto = pending.upto /\ pending.upto > 0
       /\ \/ io = <<WriteOutbox(pending)>> /\ outbox.done \subseteq pending.done
          \/ io = <<>> /\ outbox = pending
  /\ pc = "commit" => Complete(pending) /\ Saves(pending.upto)
  /\ pc = "clear" =>
       /\ checkpoint = pending.upto
       /\ \/ io = <<WriteOutbox(NoPending)>> /\ outbox = pending
          \/ io = <<>> /\ outbox = NoPending

Trails ==
  /\ active >= 0 => checkpoint <= active
  /\ outbox.upto > 0 => checkpoint <= outbox.upto

\* A target that was sent a post is not sent it again: the post is behind the
\* checkpoint or in the outbox, and there it is marked, or is being marked.
SentOnce ==
  \A t \in Targets, q \in Posts : pushed[t][q] > 0 /\ <<t, q>> \notin forgiven =>
    /\ pushed[t][q] = 1 /\ q \in Quakes
    /\ q <= checkpoint \/ q \in Covers(outbox)
    /\ q \in Covers(outbox) => t \in outbox.done \/ <<t, q>> \in Unsaved

Steady == Phase /\ Trails /\ SentOnce

\* A thread left behind may spoil everything but that nothing is ahead.
IInv == NothingAhead /\ (Strayed \/ Steady)

-----------------------------------------------------------------------------
(* What is settled stays so *)

LEMMA Stays ==
  ASSUME NEW s, NEW r, s \subseteq r
  PROVE  /\ \A n : Passed(n, s) => Passed(n, r)
         /\ \A p : Reached(p, s) => Reached(p, r)
         /\ \A q : ThreadOk(q, s) => ThreadOk(q, r)
<1>1. \A n : Passed(n, s) => Passed(n, r)
  BY DEF Passed
<1>2. \A p : Reached(p, s) => Reached(p, r)
  BY <1>1 DEF Reached
<1>3. \A w : WriteOk(w, s) => WriteOk(w, r)
  BY <1>1, <1>2 DEF WriteOk
<1>4. \A q : ThreadOk(q, s) => ThreadOk(q, r)
  BY <1>3 DEF ThreadOk
<1> QED BY <1>1, <1>2, <1>4

LEMMA Beginnings ==
  ASSUME FanoutAssumption, NEW s
  PROVE  Passed(0, s) /\ Passed(Missing, s) /\ Passed(Corrupt, s)
         /\ NoPending \in Pending /\ Reached(NoPending, s)
<1>1. \A q \in Quakes : q \in Nat /\ q > 0
  BY DEF FanoutAssumption
<1>2. Passed(0, s) /\ Passed(Missing, s) /\ Passed(Corrupt, s)
  BY <1>1 DEF Passed, Missing, Corrupt
<1>3. NoPending \in Pending
  BY DEF FanoutAssumption, NoPending, Pending
<1> QED BY <1>2, <1>3 DEF Reached, NoPending

\* Short sequences
LEMMA Threads ==
  ASSUME NEW s, NEW a, NEW b, NEW c
  PROVE  /\ ThreadOk(<<>>, s)
         /\ WriteOk(a, s) => ThreadOk(<<a>>, s)
         /\ WriteOk(a, s) /\ WriteOk(b, s) => ThreadOk(<<a, b>>, s)
         /\ WriteOk(a, s) /\ WriteOk(b, s) /\ WriteOk(c, s) => ThreadOk(<<a, b, c>>, s)
<1>1. ThreadOk(<<>>, s)
  BY EmptySeq DEF ThreadOk
<1>2. WriteOk(a, s) => ThreadOk(<<a>>, s)
  BY DEF ThreadOk, WriteOk
<1>3. WriteOk(a, s) /\ WriteOk(b, s) => ThreadOk(<<a, b>>, s)
  BY DEF ThreadOk, WriteOk
<1>4. WriteOk(a, s) /\ WriteOk(b, s) /\ WriteOk(c, s) => ThreadOk(<<a, b, c>>, s)
  BY DEF ThreadOk, WriteOk
<1> QED BY <1>1, <1>2, <1>3, <1>4

LEMMA Tuples ==
  ASSUME NEW a, NEW b, NEW c
  PROVE  /\ Head(<<a>>) = a /\ Tail(<<a>>) = <<>>
         /\ Head(<<a, b>>) = a /\ Tail(<<a, b>>) = <<b>>
         /\ Head(<<a, b, c>>) = a /\ Tail(<<a, b, c>>) = <<b, c>>
<1>1. Head(<<a>>) = a /\ Head(<<a, b>>) = a /\ Head(<<a, b, c>>) = a
  OBVIOUS
<1>2. Tail(<<a>>) = <<>>
  OBVIOUS
<1>3. Tail(<<a, b>>) = <<b>>
  OBVIOUS
<1>4. Tail(<<a, b, c>>) = <<b, c>>
  OBVIOUS
<1> QED BY <1>1, <1>2, <1>3, <1>4

LEMMA Joins ==
  ASSUME NEW a, NEW b, NEW c
  PROVE  <<a>> \o <<b>> = <<a, b>> /\ <<a, b>> \o <<c>> = <<a, b, c>>
<1> DEFINE S == {a, b, c}
           two == <<a, b>>
           three == <<a, b, c>>
<1>a. /\ <<a>> \in Seq(S) /\ <<b>> \in Seq(S) /\ <<c>> \in Seq(S)
      /\ two \in Seq(S) /\ Len(two) = 2 /\ two[1] = a /\ two[2] = b
      /\ three \in Seq(S) /\ Len(three) = 3 /\ three[1] = a /\ three[2] = b /\ three[3] = c
  OBVIOUS
<1> HIDE DEF S, two, three
<1>1. <<a>> \o <<b>> = two
  <2> DEFINE r == <<a>> \o <<b>>
  <2>1. r \in Seq(S) /\ Len(r) = 2 /\ r[1] = a /\ r[2] = b
    BY <1>a, ConcatProperties
  <2> HIDE DEF r
  <2>2. \A i \in 1..Len(r) : r[i] = two[i]
    BY <1>a, <2>1
  <2>3. r = two
    BY <1>a, <2>1, <2>2, SeqEqual
  <2> QED BY <2>3 DEF r
<1>2. two \o <<c>> = three
  <2> DEFINE one == <<c>>
             r == two \o one
  <2>a. one \in Seq(S) /\ Len(one) = 1 /\ one[1] = c
    BY <1>a
  <2> HIDE DEF one
  <2>b. /\ r \in Seq(S) /\ Len(r) = Len(two) + Len(one)
        /\ \A i \in 1..Len(two) + Len(one) :
             r[i] = IF i <= Len(two) THEN two[i] ELSE one[i - Len(two)]
    BY <1>a, <2>a, ConcatProperties
  <2> HIDE DEF r
  <2>1. r \in Seq(S) /\ Len(r) = 3 /\ r[1] = a /\ r[2] = b /\ r[3] = c
    BY <1>a, <2>a, <2>b
  <2>2. \A i \in 1..Len(r) : r[i] = three[i]
    BY <1>a, <2>1
  <2>3. r = three
    BY <1>a, <2>1, <2>2, SeqEqual
  <2> QED BY <2>3 DEF r, one
<1> QED BY <1>1, <1>2 DEF two, three

LEMMA SaveOk ==
  ASSUME FanoutAssumption, NEW s, NEW n \in 0..MaxPost, Passed(n, s)
  PROVE  ThreadOk(SaveSince(n), s)
<1>1. WriteOk(Write("active", n), s) /\ WriteOk(Write("checkpoint", n), s)
  BY DEF WriteOk, Write, Writes, Cursors, FanoutAssumption
<1> QED BY <1>1, Threads DEF SaveSince

LEMMA OutboxOk ==
  ASSUME FanoutAssumption, NEW s, NEW p \in Pending, Reached(p, s)
  PROVE  ThreadOk(<<WriteOutbox(p)>>, s)
<1>1. WriteOutbox(p) \in Writes
  BY DEF WriteOutbox, Writes, Pending, FanoutAssumption
<1>2. Fanned(WriteOutbox(p)) = p
  BY DEF WriteOutbox, Fanned, Pending
<1>3. WriteOk(WriteOutbox(p), s)
  BY <1>1, <1>2 DEF WriteOk, WriteOutbox, Pending
<1> QED BY <1>3, Threads

\* What a recovery writes
LEMMA Restores ==
  ASSUME NEW w
  PROVE  AfterRestore(w) =
           IF checkpoint >= 0 THEN <<Write("active", checkpoint), Write("marker", 0)>>
           ELSE <<Write("active", 0), Write("checkpoint", 0), Write("marker", 0)>>
<1> DEFINE n == IF checkpoint >= 0 THEN checkpoint ELSE 0
           a == Write("active", n)
           c == Write("checkpoint", n)
           m == Write("marker", 0)
<1>1. AfterRestore(w) = IF checkpoint >= 0 THEN <<a>> \o <<m>> ELSE <<a, c>> \o <<m>>
  BY DEF AfterRestore, SaveSince
<1>2. AfterRestore(w) = IF checkpoint >= 0 THEN <<a, m>> ELSE <<a, c, m>>
  <2> HIDE DEF n, a, c, m
  <2> QED BY <1>1, Joins
<1> QED BY <1>2

\* What a thread has left to write
LEMMA RestOk ==
  ASSUME FanoutAssumption, NEW s, NEW q, ThreadOk(q, s), q # <<>>,
         checkpoint \in Cursors, Passed(checkpoint, s)
  PROVE  WriteOk(Head(q), s) /\ ThreadOk(Rest(q), s)
<1>1. /\ q \in Seq(Writes) /\ Len(q) \in Nat /\ Len(q) > 0 /\ Head(q) = q[1]
      /\ \A i \in 1..Len(q) : WriteOk(q[i], s)
  BY EmptySeq, LenProperties DEF ThreadOk
<1>2. WriteOk(Head(q), s)
  BY <1>1
<1>3. ThreadOk(Tail(q), s)
  BY <1>1, HeadTailProperties DEF ThreadOk
<1>4. ThreadOk(AfterRestore(Head(q)), s)
  <2>1. PICK n : n = IF checkpoint >= 0 THEN checkpoint ELSE 0
    OBVIOUS
  <2>2. n \in 0..MaxPost /\ Passed(n, s)
    BY <2>1, Beginnings DEF Cursors, Missing, Corrupt, FanoutAssumption
  <2> DEFINE a == Write("active", n)
             c == Write("checkpoint", n)
             m == Write("marker", 0)
  <2>3. WriteOk(a, s) /\ WriteOk(c, s) /\ WriteOk(m, s)
    BY <2>2 DEF WriteOk, Write, Writes, Cursors, FanoutAssumption
  <2>4. AfterRestore(Head(q)) = IF checkpoint >= 0 THEN <<a, m>> ELSE <<a, c, m>>
    BY <2>1, Restores
  <2> HIDE DEF a, c, m
  <2> QED BY <2>3, <2>4, Threads
<1> QED BY <1>2, <1>3, <1>4 DEF Rest

\* One write
LEMMA ApplyOk ==
  ASSUME FanoutAssumption, NEW s, NEW w, WriteOk(w, s), Apply(w),
         active \in Cursors, checkpoint \in Cursors, marker \in BOOLEAN, outbox \in Pending,
         Passed(active, s), Passed(checkpoint, s), Reached(outbox, s)
  PROVE  /\ active' \in Cursors /\ checkpoint' \in Cursors /\ marker' \in BOOLEAN
         /\ outbox' \in Pending
         /\ Passed(active', s) /\ Passed(checkpoint', s) /\ Reached(outbox', s)
<1>1. active' \in Cursors /\ Passed(active', s) /\ checkpoint' \in Cursors /\ Passed(checkpoint', s)
  BY DEF Apply, WriteOk
<1>2. marker' \in BOOLEAN
  BY DEF Apply
<1>3. outbox' \in Pending /\ Reached(outbox', s)
  BY DEF Apply, WriteOk, Fanned, Pending, Writes
<1> QED BY <1>1, <1>2, <1>3

LEMMA FaultOk ==
  ASSUME FanoutAssumption, FaultsOk, NEW k \in FaultKinds, Fault(k)
  PROVE  FaultsOk'
<1>1. /\ Limit[k] \in Nat /\ faults[k] < Limit[k] /\ faults' = [faults EXCEPT ![k] = @ + 1]
  BY DEF Fault, Limit, FaultKinds, FanoutAssumption
<1>2. faults \in [FaultKinds -> Nat] /\ \A l \in FaultKinds : faults[l] \in 0..Limit[l]
  BY DEF FaultsOk
<1> HIDE DEF Limit
<1>3. faults[k] + 1 \in 0..Limit[k]
  BY <1>1, <1>2
<1>4. \A l \in FaultKinds : faults'[l] = IF l = k THEN faults[k] + 1 ELSE faults[l]
  BY <1>1, <1>2
<1> QED BY <1>1, <1>2, <1>3, <1>4 DEF FaultsOk

-----------------------------------------------------------------------------
(* Nothing is ahead of what is settled *)

LEMMA FilesStay ==
  ASSUME FilesOk, UNCHANGED files, settled \subseteq settled'
  PROVE  FilesOk'
BY Stays DEF FilesOk, files

LEMMA StraysStay ==
  ASSUME StraysOk, UNCHANGED strays, settled \subseteq settled'
  PROVE  StraysOk'
BY Stays DEF StraysOk

LEMMA IdleOk ==
  ASSUME FanoutAssumption, Idle
  PROVE  JobOk'
<1>1. ThreadOk(<<>>, settled') /\ Passed(0, settled') /\ Reached(NoPending, settled')
      /\ NoPending \in Pending
  BY Beginnings, Threads
<1>2. /\ pc' = "idle" /\ pending' = NoPending /\ todo' = {} /\ io' = <<>>
      /\ leaving' = FALSE /\ cursor' = 0 /\ 0 \in 0..MaxPost
  BY DEF Idle, FanoutAssumption
<1> QED BY <1>1, <1>2 DEF JobOk

LEMMA WorkAhead ==
  ASSUME FanoutAssumption, NothingAhead, Work
  PROVE  NothingAhead'
<1>1. FilesOk /\ JobOk /\ StraysOk /\ WorldOk
  BY DEF NothingAhead
<1>2. /\ io # <<>> /\ Apply(Head(io)) /\ io' = Rest(io)
      /\ UNCHANGED <<feed, pc, pending, todo, leaving, strays, faults, pushed, settled, forgiven>>
  BY DEF Work, ghosts
<1>3. WriteOk(Head(io), settled) /\ ThreadOk(Rest(io), settled)
  BY <1>1, <1>2, RestOk DEF FilesOk, JobOk
<1>4. FilesOk'
  BY <1>1, <1>2, <1>3, ApplyOk DEF FilesOk
<1>5. cursor' \in 0..MaxPost /\ Passed(cursor', settled)
  BY <1>1, <1>3 DEF Work, WriteOk, JobOk, Cursors, Missing, Corrupt, FanoutAssumption
<1>6. JobOk'
  BY <1>1, <1>2, <1>3, <1>5 DEF JobOk
<1>7. StraysOk' /\ WorldOk'
  BY <1>1, <1>2 DEF StraysOk, WorldOk, FaultsOk
<1> QED BY <1>4, <1>6, <1>7 DEF NothingAhead

LEMMA StrayWorksAhead ==
  ASSUME FanoutAssumption, NothingAhead, StrayWorks
  PROVE  NothingAhead'
<1>1. FilesOk /\ JobOk /\ StraysOk /\ WorldOk
  BY DEF NothingAhead
<1>2. PICK i \in DOMAIN strays :
        /\ strays[i] # <<>>
        /\ \/ UNCHANGED files /\ strays' = [strays EXCEPT ![i] = <<>>]
           \/ Apply(Head(strays[i])) /\ strays' = [strays EXCEPT ![i] = Rest(strays[i])]
  BY DEF StrayWorks
<1>3. UNCHANGED <<feed, pc, cursor, pending, todo, io, leaving, faults, pushed, settled, forgiven>>
  BY DEF StrayWorks, jobState, ghosts
<1>4. i \in 1..Len(strays) /\ strays \in Seq(Seq(Writes)) /\ ThreadOk(strays[i], settled)
  BY <1>1, <1>2, LenProperties DEF StraysOk
<1>5. WriteOk(Head(strays[i]), settled) /\ ThreadOk(Rest(strays[i]), settled)
  BY <1>1, <1>2, <1>4, RestOk DEF FilesOk
<1>6. FilesOk'
  <2>1. CASE UNCHANGED files
    BY <1>1, <1>3, <2>1, FilesStay
  <2>2. CASE Apply(Head(strays[i]))
    BY <1>1, <1>3, <1>5, <2>2, ApplyOk DEF FilesOk
  <2> QED BY <1>2, <2>1, <2>2
<1>7. StraysOk'
  <2>1. PICK r : ThreadOk(r, settled) /\ strays' = [strays EXCEPT ![i] = r]
    BY <1>2, <1>5, Threads
  <2>2. r \in Seq(Writes)
    BY <2>1 DEF ThreadOk
  <2>3. /\ strays' \in Seq(Seq(Writes)) /\ Len(strays') = Len(strays)
        /\ \A k \in 1..Len(strays) : strays'[k] = IF k = i THEN r ELSE strays[k]
    BY <1>4, <2>1, <2>2, ExceptSeq
  <2> QED BY <1>1, <1>3, <2>1, <2>3 DEF StraysOk
<1>8. JobOk' /\ WorldOk'
  BY <1>1, <1>3 DEF JobOk, WorldOk, FaultsOk
<1> QED BY <1>6, <1>7, <1>8 DEF NothingAhead

\* A job that gives up, or is done
LEMMA LeavesAhead ==
  ASSUME FanoutAssumption, NothingAhead, Idle, FaultsOk', StraysOk',
         UNCHANGED <<feed, files, pushed, settled>>
  PROVE  NothingAhead'
<1>1. FilesOk' /\ JobOk'
  BY FilesStay, IdleOk DEF NothingAhead
<1>2. WorldOk'
  BY DEF NothingAhead, WorldOk
<1> QED BY <1>1, <1>2 DEF NothingAhead

LEMMA WorkFailsAhead ==
  ASSUME FanoutAssumption, NothingAhead, WorkFails
  PROVE  NothingAhead'
<1>1. FaultsOk'
  BY FaultOk DEF WorkFails, FaultKinds, NothingAhead, WorldOk, FaultsOk
<1>2. StraysOk'
  BY StraysStay DEF WorkFails, NothingAhead
<1> QED BY <1>1, <1>2, LeavesAhead DEF WorkFails

LEMMA EndsAhead ==
  ASSUME FanoutAssumption, NothingAhead, NothingNew \/ RetainPending \/ Finish
  PROVE  NothingAhead'
<1>1. Idle /\ UNCHANGED <<feed, files, strays, faults, ghosts>>
  BY DEF NothingNew, RetainPending, Finish
<1>2. FaultsOk' /\ StraysOk'
  BY <1>1, StraysStay DEF NothingAhead, WorldOk, FaultsOk, ghosts
<1> QED BY <1>1, <1>2, LeavesAhead DEF ghosts

\* A cancelled job leaves its thread behind.
LEMMA StraysGrow ==
  ASSUME FanoutAssumption, NothingAhead, strays' = Append(strays, io), UNCHANGED settled
  PROVE  StraysOk'
<1>1. /\ strays \in Seq(Seq(Writes)) /\ io \in Seq(Writes) /\ ThreadOk(io, settled)
      /\ \A i \in 1..Len(strays) : ThreadOk(strays[i], settled)
  BY DEF NothingAhead, StraysOk, JobOk, ThreadOk
<1>2. /\ strays' \in Seq(Seq(Writes)) /\ Len(strays') = Len(strays) + 1
      /\ \A i \in 1..Len(strays) : strays'[i] = strays[i]
      /\ strays'[Len(strays) + 1] = io
  BY <1>1, AppendProperties
<1>3. Len(strays) \in Nat
  BY <1>1, LenProperties
<1> QED BY <1>1, <1>2, <1>3 DEF StraysOk

LEMMA CancelAhead ==
  ASSUME FanoutAssumption, NothingAhead, CancelJob
  PROVE  NothingAhead'
<1>1. FaultsOk'
  BY FaultOk DEF CancelJob, FaultKinds, NothingAhead, WorldOk
<1>2. UNCHANGED <<feed, files, pushed, settled>>
  BY DEF CancelJob
<1>3. CASE Owned /\ io # <<>>
  <2>1. leaving' = TRUE /\ UNCHANGED <<pc, cursor, pending, todo, io, strays>>
    BY <1>3 DEF CancelJob
  <2>2. FilesOk' /\ StraysOk'
    BY <1>2, <2>1, FilesStay, StraysStay DEF NothingAhead
  <2> QED BY <1>1, <1>2, <2>1, <2>2 DEF NothingAhead, JobOk, WorldOk
<1>4. CASE ~(Owned /\ io # <<>>)
  <2>1. Idle /\ strays' = IF io = <<>> THEN strays ELSE Append(strays, io)
    BY <1>4 DEF CancelJob
  <2>2. StraysOk'
    BY <1>2, <2>1, StraysGrow, StraysStay DEF NothingAhead
  <2> QED BY <1>1, <1>2, <2>1, <2>2, LeavesAhead
<1> QED BY <1>3, <1>4

LEMMA CancelAgainAhead ==
  ASSUME FanoutAssumption, NothingAhead, CancelAgain
  PROVE  NothingAhead'
<1>1. FaultsOk'
  BY DEF CancelAgain, NothingAhead, WorldOk, FaultsOk
<1>2. StraysOk'
  BY StraysGrow DEF CancelAgain
<1> QED BY <1>1, <1>2, LeavesAhead DEF CancelAgain

LEMMA CrashAhead ==
  ASSUME FanoutAssumption, NothingAhead, Crash
  PROVE  NothingAhead'
<1>1. FaultsOk'
  BY FaultOk DEF Crash, FaultKinds, NothingAhead, WorldOk
<1>2. StraysOk'
  <2>1. /\ strays \in Seq(Seq(Writes)) /\ DOMAIN strays = 1..Len(strays) /\ Len(strays) \in Nat
    BY LenProperties DEF NothingAhead, StraysOk
  <2>2. <<>> \in Seq(Writes) /\ ThreadOk(<<>>, settled')
    BY EmptySeq, Threads
  <2>3. strays' = [i \in 1..Len(strays) |-> <<>>]
    BY <2>1 DEF Crash
  <2>4. strays' \in Seq(Seq(Writes)) /\ Len(strays') = Len(strays)
    BY <2>1, <2>2, <2>3, IsASeq
  <2> QED BY <2>2, <2>3, <2>4 DEF StraysOk
<1> QED BY <1>1, <1>2, LeavesAhead DEF Crash

LEMMA CorruptionAhead ==
  ASSUME FanoutAssumption, NothingAhead, Corruption
  PROVE  NothingAhead'
<1>1. FaultsOk'
  BY FaultOk DEF Corruption, FaultKinds, NothingAhead, WorldOk
<1>2. /\ active' = Corrupt
      /\ UNCHANGED <<feed, checkpoint, marker, outbox, pc, cursor, pending, todo, io, leaving,
                     strays, pushed, settled>>
  BY DEF Corruption, jobState, ghosts
<1>3. FilesOk'
  BY <1>2, Beginnings DEF NothingAhead, FilesOk, Cursors
<1>4. JobOk' /\ StraysOk' /\ WorldOk'
  BY <1>1, <1>2 DEF NothingAhead, JobOk, StraysOk, WorldOk
<1> QED BY <1>3, <1>4 DEF NothingAhead

LEMMA NewPostAhead ==
  ASSUME FanoutAssumption, NothingAhead, NewPost
  PROVE  NothingAhead'
<1>1. /\ feed' \in 0..MaxPost
      /\ UNCHANGED <<active, checkpoint, marker, outbox, pc, cursor, pending, todo, io, leaving,
                     strays, faults, pushed, settled>>
  BY DEF NewPost, NothingAhead, WorldOk, files, jobState, ghosts, FanoutAssumption
<1>2. FilesOk' /\ JobOk'
  BY <1>1 DEF NothingAhead, FilesOk, JobOk
<1>3. StraysOk' /\ WorldOk'
  BY <1>1 DEF NothingAhead, StraysOk, WorldOk, FaultsOk
<1> QED BY <1>2, <1>3 DEF NothingAhead

\* What the job decides in memory: files and threads left behind stay.
LEMMA DecidesAhead ==
  ASSUME FanoutAssumption, NothingAhead, JobOk', settled \subseteq settled',
         UNCHANGED <<feed, files, strays>>, FaultsOk', pushed' \in [Targets -> [Posts -> 0..2]]
  PROVE  NothingAhead'
BY FilesStay, StraysStay DEF NothingAhead, WorldOk

LEMMA StartAhead ==
  ASSUME FanoutAssumption, NothingAhead, Start
  PROVE  NothingAhead'
<1>1. /\ outbox \in Pending /\ Reached(outbox, settled)
      /\ UNCHANGED <<cursor, io, leaving, feed, files, strays, faults, pushed, settled>>
  BY DEF NothingAhead, FilesOk, Start, ghosts
<1>2. JobOk'
  BY <1>1 DEF Start, Deliver, NothingAhead, JobOk, files
<1> QED BY <1>1, <1>2, DecidesAhead DEF NothingAhead, WorldOk, FaultsOk

\* The cursor is read, or else a recovery begins.
LEMMA LoadSinces ==
  ASSUME FanoutAssumption, NothingAhead, LoadSince
  PROVE  \/ active >= 0 /\ cursor' = active /\ io' = <<>>
         \/ /\ cursor' = cursor
            /\ \/ \E n \in {0, 1} : io' = <<Write("restore", n)>>
               \/ io' = <<Write("marker", 1), Write("active", Missing), Write("restore", 0)>>
<1>1. active \in Cursors
  BY DEF NothingAhead, FilesOk
<1>2. CASE active >= 0
  BY <1>2 DEF LoadSince, Missing, Corrupt
<1>3. CASE active = Missing
  <2> DEFINE n == IF MayInitialise THEN 1 ELSE 0
  <2>1. cursor' = cursor /\ io' = <<Write("restore", n)>> /\ n \in {0, 1}
    BY <1>3 DEF LoadSince, Missing, Corrupt
  <2> HIDE DEF n
  <2> QED BY <2>1
<1>4. CASE active = Corrupt
  BY <1>4 DEF LoadSince, Missing, Corrupt
<1> QED BY <1>1, <1>2, <1>3, <1>4 DEF Cursors, FanoutAssumption

LEMMA LoadSinceAhead ==
  ASSUME FanoutAssumption, NothingAhead, LoadSince
  PROVE  NothingAhead'
<1>1. /\ pc' = "load" /\ active \in Cursors /\ Passed(active, settled)
      /\ UNCHANGED <<feed, files, pending, todo, leaving, strays, faults, pushed, settled>>
  BY DEF NothingAhead, FilesOk, LoadSince, ghosts
<1>2. \/ active >= 0 /\ cursor' = active /\ io' = <<>>
      \/ /\ cursor' = cursor
         /\ \/ \E n \in {0, 1} : io' = <<Write("restore", n)>>
            \/ io' = <<Write("marker", 1), Write("active", Missing), Write("restore", 0)>>
  BY LoadSinces
<1>3. ThreadOk(io', settled)
  <2>1. /\ \A n \in {0, 1} : WriteOk(Write("restore", n), settled)
        /\ WriteOk(Write("marker", 1), settled)
        /\ WriteOk(Write("active", Missing), settled)
    BY Beginnings DEF WriteOk, Write, Writes, Cursors, Missing, FanoutAssumption
  <2> QED BY <1>2, <2>1, Threads
<1>4. cursor' \in 0..MaxPost /\ Passed(cursor', settled)
  BY <1>1, <1>2 DEF NothingAhead, JobOk, Cursors, Missing, Corrupt
<1>5. JobOk'
  BY <1>1, <1>3, <1>4 DEF NothingAhead, JobOk
<1> QED BY <1>1, <1>5, DecidesAhead DEF NothingAhead, WorldOk, FaultsOk

LEMMA CreateAhead ==
  ASSUME FanoutAssumption, NothingAhead, Create
  PROVE  NothingAhead'
<1>1. /\ UNCHANGED <<feed, files, cursor, todo, leaving, strays, faults, pushed, settled>>
      /\ pending' = [from |-> cursor, upto |-> feed, done |-> {}] /\ pc' = "create"
      /\ io' = <<WriteOutbox(pending')>> /\ todo \subseteq Targets
      /\ cursor \in 0..MaxPost /\ feed \in 0..MaxPost /\ Passed(cursor, settled)
  BY DEF NothingAhead, JobOk, WorldOk, Create, ghosts
<1>2. pending' \in Pending /\ Reached(pending', settled) /\ pending'.done = {}
  BY <1>1 DEF Pending, Reached
<1>3. ThreadOk(io', settled)
  BY <1>1, <1>2, OutboxOk
<1>4. JobOk'
  BY <1>1, <1>2, <1>3 DEF NothingAhead, JobOk
<1> QED BY <1>1, <1>4, DecidesAhead DEF NothingAhead, WorldOk, FaultsOk

\* The end of a scan or of a complete fan-out settles what is before it.
LEMMA AdvanceAhead ==
  ASSUME FanoutAssumption, NothingAhead, Advance
  PROVE  NothingAhead'
<1>1. /\ UNCHANGED <<feed, files, cursor, pending, todo, leaving, strays, faults, pushed, settled>>
      /\ pc' = "advance" /\ io' = SaveSince(feed) /\ cursor \in 0..MaxPost /\ feed \in 0..MaxPost
      /\ Covers([from |-> cursor, upto |-> feed]) = {}
  BY DEF NothingAhead, JobOk, WorldOk, Advance, ghosts
<1>2. Passed(feed, settled)
  <2>1. ASSUME NEW q \in Quakes, q <= feed
        PROVE  q <= cursor
    <3>1. ~(cursor < q)
      BY <1>1, <2>1 DEF Covers
    <3>2. q \in Int
      BY DEF FanoutAssumption
    <3>3. cursor \in Int
      BY <1>1 DEF FanoutAssumption
    <3> QED BY <3>1, <3>2, <3>3
  <2> QED BY <2>1 DEF Passed, NothingAhead, JobOk
<1>3. ThreadOk(io', settled)
  BY <1>1, <1>2, SaveOk
<1>4. JobOk'
  BY <1>1, <1>3 DEF NothingAhead, JobOk
<1> QED BY <1>1, <1>4, DecidesAhead DEF NothingAhead, WorldOk, FaultsOk

LEMMA CommitAhead ==
  ASSUME FanoutAssumption, NothingAhead, Commit
  PROVE  NothingAhead'
<1>1. /\ UNCHANGED <<feed, files, cursor, pending, todo, leaving, strays, faults, pushed, settled>>
      /\ pc' = "commit" /\ io' = SaveSince(pending.upto) /\ pending \in Pending
      /\ pending.done = Targets /\ Reached(pending, settled)
  BY DEF NothingAhead, JobOk, Commit, CommitWhen, Complete, ghosts
<1>2. Passed(pending.upto, settled) /\ pending.upto \in 0..MaxPost
  <2>1. ASSUME NEW q \in Quakes, q <= pending.upto
        PROVE  Targets \X {q} \subseteq settled
    <3>1. CASE q <= pending.from
      BY <1>1, <3>1 DEF Reached, Passed
    <3>2. CASE ~(q <= pending.from)
      <4>1. q \in Covers(pending)
        BY <1>1, <2>1, <3>2 DEF Covers, Pending, FanoutAssumption
      <4> QED BY <1>1, <4>1 DEF Reached
    <3> QED BY <3>1, <3>2
  <2> QED BY <1>1, <2>1 DEF Passed, Pending
<1>3. ThreadOk(io', settled)
  BY <1>1, <1>2, SaveOk
<1>4. JobOk'
  BY <1>1, <1>3 DEF NothingAhead, JobOk
<1> QED BY <1>1, <1>4, DecidesAhead DEF NothingAhead, WorldOk, FaultsOk

LEMMA TurnsAhead ==
  ASSUME FanoutAssumption, NothingAhead, Created \/ Marked \/ Clear
  PROVE  NothingAhead'
<1>1. UNCHANGED <<feed, files, cursor, pending, leaving, strays, faults, pushed, settled>>
  BY DEF Created, Marked, Clear, Deliver, ghosts
<1>2. /\ pc' \in {"deliver", "clear"} /\ (io' = io \/ io' = <<WriteOutbox(NoPending)>>)
      /\ todo' \subseteq Targets \ pending.done
  BY DEF Created, Marked, Clear, Deliver, NothingAhead, JobOk
<1>3. ThreadOk(io', settled)
  BY <1>2, Beginnings, OutboxOk DEF NothingAhead, JobOk
<1>4. JobOk'
  BY <1>1, <1>2, <1>3 DEF NothingAhead, JobOk
<1> QED BY <1>1, <1>4, DecidesAhead DEF NothingAhead, WorldOk, FaultsOk

LEMMA SendRefusedAhead ==
  ASSUME FanoutAssumption, NothingAhead, NEW t \in Targets, SendRefused(t)
  PROVE  NothingAhead'
<1>1. /\ UNCHANGED <<pc, pending, io, settled, feed, files, cursor, leaving, strays, faults, pushed>>
      /\ todo' = todo \ {t}
  BY DEF SendRefused, Refused
<1>2. JobOk'
  BY <1>1 DEF NothingAhead, JobOk
<1> QED BY <1>1, <1>2, DecidesAhead DEF NothingAhead, WorldOk, FaultsOk

\* A target that is served is marked.
LEMMA SendsAhead ==
  ASSUME FanoutAssumption, NothingAhead, NEW t \in Targets,
         Push(t), Mark(t), todo' = todo \ {t}, leaving' \in BOOLEAN, FaultsOk',
         UNCHANGED <<feed, files, cursor, strays>>
  PROVE  NothingAhead'
<1>1. /\ settled' = settled \cup ({t} \X Covers(pending))
      /\ pending' = [pending EXCEPT !.done = @ \cup {t}]
      /\ io' = <<WriteOutbox(pending')>> /\ pc' = "mark"
  BY DEF Mark
<1>2. pending \in Pending /\ Reached(pending, settled)
  BY DEF NothingAhead, JobOk
<1>3. pending' \in Pending /\ Reached(pending', settled')
  <2>1. /\ pending' \in Pending /\ pending'.from = pending.from /\ pending'.upto = pending.upto
        /\ pending'.done = pending.done \cup {t}
    BY <1>1, <1>2 DEF Pending
  <2>2. Covers(pending') = Covers(pending)
    BY <2>1 DEF Covers
  <2>3. Passed(pending.from, settled')
    BY <1>1, <1>2, Stays DEF Reached
  <2> QED BY <1>1, <1>2, <2>1, <2>2, <2>3 DEF Reached
<1>4. ThreadOk(io', settled')
  BY <1>1, <1>3, OutboxOk
<1>5. JobOk'
  <2>1. Passed(cursor', settled')
    BY <1>1, Stays DEF NothingAhead, JobOk
  <2>2. todo' \subseteq Targets \ pending'.done
    BY <1>1, <1>2 DEF NothingAhead, JobOk, Pending
  <2> QED BY <1>1, <1>3, <1>4, <2>1, <2>2 DEF NothingAhead, JobOk
<1>6. pushed' \in [Targets -> [Posts -> 0..2]]
  BY DEF Push, Bump, NothingAhead, WorldOk
<1> QED BY <1>1, <1>5, <1>6, DecidesAhead

LEMMA SendAhead ==
  ASSUME FanoutAssumption, NothingAhead, NEW t \in Targets,
         SendOk(t) \/ SendUnknown(t) \/ SendCancelled(t)
  PROVE  NothingAhead'
<1>1. /\ Push(t) /\ Mark(t) /\ todo' = todo \ {t} /\ UNCHANGED <<feed, files, cursor, strays>>
      /\ leaving' \in BOOLEAN
  BY DEF SendOk, SendUnknown, SendCancelled, Unknown, NothingAhead, JobOk
<1>2. FaultsOk'
  BY FaultOk DEF SendOk, SendUnknown, SendCancelled, FaultKinds, NothingAhead, WorldOk, FaultsOk
<1> QED BY <1>1, <1>2, SendsAhead

LEMMA CutAhead ==
  ASSUME FanoutAssumption, NothingAhead, NEW t \in Targets, SendCut(t)
  PROVE  NothingAhead'
<1>1. Idle /\ Push(t) /\ UNCHANGED <<feed, files, strays, settled>>
  BY DEF SendCut
<1>2. FaultsOk'
  BY FaultOk DEF SendCut, FaultKinds, NothingAhead, WorldOk
<1>3. FilesOk' /\ JobOk' /\ StraysOk'
  BY <1>1, FilesStay, IdleOk, StraysStay DEF NothingAhead
<1>4. pushed' \in [Targets -> [Posts -> 0..2]]
  BY <1>1 DEF Push, Bump, NothingAhead, WorldOk
<1>5. WorldOk'
  BY <1>1, <1>2, <1>4 DEF NothingAhead, WorldOk
<1> QED BY <1>3, <1>5 DEF NothingAhead

LEMMA StepAhead == FanoutAssumption /\ NothingAhead /\ [FanoutNext]_fanoutVars => NothingAhead'
<1> SUFFICES ASSUME FanoutAssumption, NothingAhead, [FanoutNext]_fanoutVars PROVE NothingAhead'
  OBVIOUS
<1>1. CASE UNCHANGED fanoutVars
  BY <1>1 DEF fanoutVars, files, jobState, ghosts, NothingAhead, FilesOk, JobOk, StraysOk, WorldOk, FaultsOk
<1>2. CASE Job
  BY <1>2, WorkAhead, StartAhead, LoadSinceAhead, CreateAhead, AdvanceAhead, CommitAhead,
     TurnsAhead, EndsAhead, SendAhead, SendRefusedAhead DEF Job
<1> QED BY <1>1, <1>2, WorkFailsAhead, StrayWorksAhead, SendAhead, CutAhead, CancelAhead,
           CancelAgainAhead, CrashAhead, CorruptionAhead, NewPostAhead DEF FanoutNext

LEMMA InitAhead == FanoutAssumption /\ FanoutInit => NothingAhead /\ Steady
<1> SUFFICES ASSUME FanoutAssumption, FanoutInit PROVE NothingAhead /\ Steady
  OBVIOUS
<1>1. /\ feed = 0 /\ active = Missing /\ checkpoint = Missing /\ marker = FALSE
      /\ outbox = NoPending /\ pc = "idle" /\ cursor = 0 /\ pending = NoPending
      /\ todo = {} /\ io = <<>> /\ leaving = FALSE /\ strays = <<>>
  BY DEF FanoutInit
<1>2. Passed(0, settled) /\ Passed(Missing, settled) /\ NoPending \in Pending
      /\ Reached(NoPending, settled) /\ ThreadOk(<<>>, settled)
  BY Beginnings, Threads
<1>3. FilesOk /\ JobOk
  <2>1. FilesOk
    BY <1>1, <1>2 DEF FilesOk, Cursors
  <2>2. cursor \in 0..MaxPost
    BY <1>1 DEF FanoutAssumption
  <2>3. JobOk
    BY <1>1, <1>2, <2>2 DEF JobOk
  <2> QED BY <2>1, <2>3
<1>4. StraysOk
  <2>1. strays \in Seq(Seq(Writes)) /\ Len(strays) = 0
    BY <1>1, EmptySeq
  <2> QED BY <2>1 DEF StraysOk
<1>5. WorldOk
  <2>1. FaultsOk
    BY DEF FanoutInit, FaultsOk, Limit, FaultKinds, FanoutAssumption
  <2>2. pushed \in [Targets -> [Posts -> 0..2]]
    BY DEF FanoutInit
  <2> QED BY <1>1, <2>1, <2>2 DEF WorldOk, FanoutAssumption
<1>6. Phase /\ Trails
  BY <1>1 DEF Phase, Trails, NoPending, Missing
<1>7. SentOnce
  BY DEF FanoutInit, SentOnce
<1> QED BY <1>3, <1>4, <1>5, <1>6, <1>7 DEF NothingAhead, Steady

-----------------------------------------------------------------------------
(* While no thread is left behind: the checkpoint trails, and no post is sent twice *)

\* A job that gives up, or is done: messages whose marks it had not saved are excused.
LEMMA LeavesSteady ==
  ASSUME FanoutAssumption, Steady, Idle, UNCHANGED <<files, pushed>>,
         forgiven \cup Unsaved \subseteq forgiven'
  PROVE  Steady'
<1>1. UNCHANGED <<active, checkpoint, outbox, pushed>> /\ pc' = "idle"
  BY DEF files, Idle
<1>2. Phase' /\ Trails'
  BY <1>1 DEF Phase, Trails, Steady
<1>3. SentOnce'
  <2> SUFFICES ASSUME NEW t \in Targets, NEW q \in Posts, pushed[t][q] > 0, <<t, q>> \notin forgiven'
               PROVE  /\ pushed[t][q] = 1 /\ q \in Quakes
                      /\ q <= checkpoint \/ q \in Covers(outbox)
                      /\ q \in Covers(outbox) => t \in outbox.done
    BY <1>1 DEF SentOnce, Covers
  <2>1. <<t, q>> \notin forgiven /\ <<t, q>> \notin Unsaved
    OBVIOUS
  <2> QED BY <2>1 DEF Steady, SentOnce
<1> QED BY <1>2, <1>3 DEF Steady

\* A step in memory: nothing waits to be saved that was sent.
LEMMA QuietSteady ==
  ASSUME Steady, UNCHANGED <<active, checkpoint, outbox, pushed, forgiven>>, Unsaved = {}
  PROVE  Trails' /\ SentOnce'
<1>1. Trails'
  BY DEF Steady, Trails
<1>2. SentOnce'
  BY DEF Steady, SentOnce, Covers
<1> QED BY <1>1, <1>2

LEMMA EndsSteady ==
  ASSUME FanoutAssumption, NothingAhead, Steady,
         WorkFails \/ NothingNew \/ RetainPending \/ Finish \/ CancelAgain \/ Crash
  PROVE  Steady'
<1>1. CASE WorkFails \/ CancelAgain \/ Crash
  BY <1>1, LeavesSteady DEF WorkFails, CancelAgain, Crash
<1>2. CASE NothingNew \/ RetainPending \/ Finish
  <2>1. Idle /\ UNCHANGED <<files, pushed, forgiven>> /\ io = <<>>
    BY <1>2 DEF NothingNew, RetainPending, Finish, Stands, ghosts
  <2>2. Unsaved = {}
    BY <2>1 DEF Unsaved
  <2> QED BY <2>1, <2>2, LeavesSteady
<1> QED BY <1>1, <1>2

LEMMA CancelSteady ==
  ASSUME FanoutAssumption, NothingAhead, Steady, CancelJob
  PROVE  Steady'
<1>1. UNCHANGED <<files, pushed>>
  BY DEF CancelJob
<1>2. CASE Owned /\ io # <<>>
  <2>1. UNCHANGED <<pc, cursor, pending, todo, io, forgiven>> /\ pc # "mark"
    BY <1>2 DEF CancelJob, Owned
  <2>2. Unsaved = {}
    BY <2>1 DEF Unsaved
  <2>3. Trails' /\ SentOnce'
    BY <1>1, <2>1, <2>2, QuietSteady DEF files
  <2>4. Phase'
    BY <1>1, <2>1 DEF Phase, Loads, Saves, files, Steady
  <2> QED BY <2>3, <2>4 DEF Steady
<1>3. CASE ~(Owned /\ io # <<>>)
  BY <1>1, <1>3, LeavesSteady DEF CancelJob
<1> QED BY <1>2, <1>3

LEMMA CorruptionSteady ==
  ASSUME FanoutAssumption, NothingAhead, Steady, Corruption
  PROVE  Steady'
<1>1. /\ active' = Corrupt
      /\ UNCHANGED <<checkpoint, outbox, pc, cursor, pending, io, pushed, forgiven>>
  BY DEF Corruption, jobState, ghosts
<1>2. Trails'
  BY <1>1 DEF Steady, Trails, Corrupt
<1>3. SentOnce'
  BY <1>1 DEF Steady, SentOnce, Covers, Unsaved
<1>4. Phase'
  <2>1. Loads => Loads'
    BY <1>1 DEF Loads
  <2>2. \A n \in 0..MaxPost : Saves(n) => Saves(n)'
    BY <1>1 DEF Saves
  <2>3. Saves(pending.upto) => Saves(pending.upto)'
    BY <1>1 DEF Saves
  <2> QED BY <1>1, <2>1, <2>2, <2>3 DEF Steady, Phase
<1> QED BY <1>2, <1>3, <1>4 DEF Steady

LEMMA NewPostSteady ==
  ASSUME Steady, NewPost
  PROVE  Steady'
<1>1. /\ UNCHANGED <<active, checkpoint, outbox, pc, cursor, pending, io, pushed, forgiven>>
      /\ Unsaved = {}
  BY DEF NewPost, Stands, Unsaved, files, jobState, ghosts
<1>2. Trails' /\ SentOnce'
  BY <1>1, QuietSteady
<1>3. Phase'
  BY <1>1 DEF Steady, Phase, Loads, Saves
<1> QED BY <1>2, <1>3 DEF Steady

\* What a job without writes to do decides: only where it goes next matters.
LEMMA DecidesSteady ==
  ASSUME Steady, io = <<>>, UNCHANGED <<files, pushed, forgiven>>, Phase'
  PROVE  Steady'
<1>1. Unsaved = {}
  BY DEF Unsaved
<1> QED BY <1>1, QuietSteady DEF Steady, files

LEMMA StartSteady ==
  ASSUME FanoutAssumption, NothingAhead, Steady, Start
  PROVE  Steady'
<1>1. /\ pc = "idle" /\ io = <<>> /\ io' = io /\ outbox \in Pending
      /\ UNCHANGED <<files, pushed, forgiven>>
  BY DEF Start, NothingAhead, FilesOk, JobOk, ghosts
<1>2. \/ outbox.upto > 0 /\ pc' = "deliver" /\ pending' = outbox
      \/ outbox.upto = 0 /\ pc' = "since"
  BY <1>1 DEF Start, Deliver, Pending, FanoutAssumption
<1>3. Phase'
  BY <1>1, <1>2 DEF Phase, files
<1> QED BY <1>1, <1>3, DecidesSteady

LEMMA LoadSinceSteady ==
  ASSUME FanoutAssumption, NothingAhead, Steady, LoadSince
  PROVE  Steady'
<1>1. /\ pc = "since" /\ io = <<>> /\ pc' = "load" /\ outbox.upto = 0
      /\ UNCHANGED <<active, checkpoint, outbox, files, pushed, forgiven>>
  BY DEF LoadSince, Stands, Steady, Phase, files, ghosts
<1>2. Loads'
  <2>1. CASE active >= 0 /\ cursor' = active /\ io' = <<>>
    BY <1>1, <2>1 DEF Loads, Steady, Trails
  <2>2. CASE \E n \in {0, 1} : io' = <<Write("restore", n)>>
    BY <2>2 DEF Loads
  <2>3. CASE io' = <<Write("marker", 1), Write("active", Missing), Write("restore", 0)>>
    BY <2>3 DEF Loads
  <2> QED BY <2>1, <2>2, <2>3, LoadSinces
<1>3. Phase'
  BY <1>1, <1>2 DEF Phase
<1> QED BY <1>1, <1>3, DecidesSteady

\* A recovery that is over has a checkpoint no newer than the cursor it found.
LEMMA Loaded ==
  ASSUME Loads, io = <<>>
  PROVE  checkpoint <= cursor
BY DEF Loads

LEMMA CreateSteady ==
  ASSUME FanoutAssumption, NothingAhead, Steady, Create
  PROVE  Steady'
<1>1. /\ pc = "load" /\ io = <<>> /\ pc' = "create" /\ outbox.upto = 0 /\ Loads
      /\ pending' = [from |-> cursor, upto |-> feed, done |-> {}]
      /\ io' = <<WriteOutbox(pending')>>
      /\ UNCHANGED <<active, checkpoint, outbox, files, pushed, forgiven>>
  BY DEF Create, Stands, Steady, Phase, files, ghosts
<1>2. checkpoint <= cursor /\ cursor \in 0..MaxPost /\ feed \in 0..MaxPost
  BY <1>1, Loaded DEF NothingAhead, JobOk, WorldOk
<1>3. cursor < feed
  <2>1. PICK q \in Quakes : cursor < q /\ q <= feed
    BY DEF Create, Covers
  <2> QED BY <1>2, <2>1 DEF FanoutAssumption
<1>4. Phase'
  BY <1>1, <1>2, <1>3 DEF Phase, FanoutAssumption
<1> QED BY <1>1, <1>4, DecidesSteady

LEMMA AdvanceSteady ==
  ASSUME FanoutAssumption, NothingAhead, Steady, Advance
  PROVE  Steady'
<1>1. /\ pc = "load" /\ io = <<>> /\ pc' = "advance" /\ outbox.upto = 0 /\ Loads
      /\ io' = SaveSince(feed) /\ feed > cursor
      /\ UNCHANGED <<active, checkpoint, outbox, files, pushed, forgiven>>
  BY DEF Advance, Stands, Steady, Phase, files, ghosts
<1>2. /\ checkpoint <= cursor /\ cursor \in 0..MaxPost /\ feed \in 0..MaxPost
      /\ checkpoint \in Cursors
  BY <1>1, Loaded DEF NothingAhead, FilesOk, JobOk, WorldOk
<1>3. PICK n \in 0..MaxPost : n = feed
  BY <1>2
<1>4. Saves(n)'
  BY <1>1, <1>2, <1>3 DEF Saves, Cursors, Missing, Corrupt, FanoutAssumption
<1>5. Phase'
  BY <1>1, <1>4 DEF Phase
<1> QED BY <1>1, <1>5, DecidesSteady

LEMMA TurnsSteady ==
  ASSUME FanoutAssumption, NothingAhead, Steady, Created \/ Marked \/ Commit \/ Clear
  PROVE  Steady'
<1>1. /\ io = <<>> /\ pending' = pending /\ pending \in Pending
      /\ UNCHANGED <<active, checkpoint, outbox, files, pushed, forgiven>>
  BY DEF Created, Marked, Commit, Clear, Deliver, Stands, NothingAhead, JobOk, files, ghosts
<1>2. CASE Created \/ Marked
  <2>1. pc' = "deliver" /\ io' = <<>> /\ outbox = pending /\ pending.upto > 0
    <3>1. pc \in {"create", "mark"} /\ pc' = "deliver" /\ io' = io
      BY <1>2 DEF Created, Marked, Deliver, Stands
    <3> QED BY <1>1, <3>1 DEF Steady, Phase
  <2>2. Phase'
    BY <1>1, <2>1 DEF Phase
  <2> QED BY <1>1, <2>2, DecidesSteady
<1>3. CASE Commit
  <2>1. /\ pc = "deliver" /\ pc' = "commit" /\ Complete(pending)
        /\ io' = SaveSince(pending.upto)
    BY <1>3 DEF Commit, Stands, CommitWhen
  <2>2. outbox = pending /\ pending.upto > 0 /\ checkpoint <= pending.upto
    BY <2>1 DEF Steady, Phase, Trails
  <2>3. Phase'
    BY <1>1, <2>1, <2>2 DEF Phase, Saves, Complete
  <2> QED BY <1>1, <2>3, DecidesSteady
<1>4. CASE Clear
  <2>1. /\ pc = "commit" /\ pc' = "clear" /\ io' = <<WriteOutbox(NoPending)>>
    BY <1>4 DEF Clear, Stands
  <2>2. outbox = pending /\ Saves(pending.upto)
    BY <2>1 DEF Steady, Phase
  <2>3. checkpoint = pending.upto
    <3> DEFINE a == Write("active", pending.upto)
               b == Write("checkpoint", pending.upto)
    <3>1. SaveSince(pending.upto) = <<a, b>> /\ <<a, b>> # <<>> /\ <<b>> # <<>>
      BY DEF SaveSince
    <3> QED BY <1>1, <2>2, <3>1 DEF Saves
  <2>4. Phase'
    BY <1>1, <2>1, <2>2, <2>3 DEF Phase
  <2> QED BY <1>1, <2>4, DecidesSteady
<1> QED BY <1>2, <1>3, <1>4

LEMMA SendRefusedSteady ==
  ASSUME Steady, NEW t \in Targets, SendRefused(t)
  PROVE  Steady'
<1>1. /\ io = <<>> /\ UNCHANGED <<pc, pending, io, cursor, files, pushed, forgiven>>
      /\ UNCHANGED <<active, checkpoint, outbox>>
  BY DEF SendRefused, Refused, Stands, files
<1>2. Phase'
  BY <1>1 DEF Steady, Phase, Loads, Saves
<1> QED BY <1>1, <1>2, DecidesSteady

\* A target of the pass has no mark in the outbox, so it was not sent its posts yet.
LEMMA SendSteady ==
  ASSUME FanoutAssumption, NothingAhead, Steady, NEW t \in Targets,
         SendOk(t) \/ SendUnknown(t) \/ SendCancelled(t)
  PROVE  Steady'
<1>1. /\ pc = "deliver" /\ io = <<>> /\ t \in todo /\ Push(t)
      /\ pending' = [pending EXCEPT !.done = @ \cup {t}]
      /\ io' = <<WriteOutbox(pending')>> /\ pc' = "mark"
      /\ UNCHANGED <<active, checkpoint, outbox, forgiven>>
  BY DEF SendOk, SendUnknown, SendCancelled, Unknown, Mark, Stands, Next_, files
<1>2. /\ pending \in Pending /\ t \notin pending.done /\ outbox = pending /\ pending.upto > 0
      /\ pushed \in [Targets -> [Posts -> 0..2]]
  BY <1>1 DEF NothingAhead, JobOk, WorldOk, Steady, Phase
<1>3. /\ pending'.from = pending.from /\ pending'.upto = pending.upto
      /\ pending'.done = pending.done \cup {t} /\ Covers(pending') = Covers(pending)
  BY <1>1, <1>2 DEF Pending, Covers
<1>4. Unsaved = {} /\ Unsaved' = {t} \X Covers(pending)
  <2>1. Unsaved = {}
    BY <1>1 DEF Unsaved
  <2>2. io' # <<>>
    BY <1>1
  <2>3. pending'.done \ outbox'.done = {t}
    BY <1>1, <1>2, <1>3
  <2> QED BY <1>1, <1>3, <2>1, <2>2, <2>3 DEF Unsaved
<1>5. Phase'
  BY <1>1, <1>2, <1>3 DEF Phase
<1>6. Trails'
  BY <1>1 DEF Steady, Trails
<1>7. SentOnce'
  <2> SUFFICES ASSUME NEW u \in Targets, NEW q \in Posts, pushed'[u][q] > 0,
                      <<u, q>> \notin forgiven
               PROVE  /\ pushed'[u][q] = 1 /\ q \in Quakes
                      /\ q <= checkpoint \/ q \in Covers(outbox)
                      /\ q \in Covers(outbox) => u \in outbox.done \/ <<u, q>> \in Unsaved'
    BY <1>1 DEF SentOnce, Covers
  <2>1. pushed[u][q] > 0 =>
          /\ pushed[u][q] = 1 /\ q \in Quakes
          /\ q <= checkpoint \/ q \in Covers(outbox)
          /\ q \in Covers(outbox) => u \in outbox.done
    BY <1>4 DEF Steady, SentOnce
  <2>2. CASE u = t /\ q \in Covers(pending)
    <3>1. pushed[u][q] = 0
      BY <1>2, <2>1, <2>2
    <3>2. pushed'[u][q] = 1
      BY <1>1, <1>2, <2>2, <3>1 DEF Push, Bump
    <3> QED BY <1>2, <1>4, <2>2, <3>2 DEF Covers
  <2>3. CASE ~(u = t /\ q \in Covers(pending))
    <3>1. pushed'[u][q] = pushed[u][q]
      BY <1>1, <1>2, <2>3 DEF Push
    <3> QED BY <2>1, <3>1
  <2> QED BY <2>2, <2>3
<1> QED BY <1>5, <1>6, <1>7 DEF Steady

-----------------------------------------------------------------------------
(* The job's own writes *)

\* One write of a cursor: everything else on disk but the marker stays.
LEMMA CursorWrite ==
  ASSUME NEW f \in {"active", "checkpoint", "marker", "restore"}, NEW n, Apply(Write(f, n))
  PROVE  /\ outbox' = outbox
         /\ active' = IF f = "active" THEN n ELSE active
         /\ checkpoint' = IF f = "checkpoint" THEN n ELSE checkpoint
BY DEF Apply, Write

LEMMA OutboxWrite ==
  ASSUME NEW p \in Pending, Apply(WriteOutbox(p))
  PROVE  outbox' = p /\ active' = active /\ checkpoint' = checkpoint
BY DEF Apply, WriteOutbox, Pending

LEMMA Nowhere == FanoutAssumption => \A p : p.upto = 0 => Covers(p) = {}
<1> SUFFICES ASSUME FanoutAssumption, NEW p, p.upto = 0, NEW q \in Covers(p) PROVE FALSE
  OBVIOUS
<1>1. q \in 1..MaxPost /\ q <= 0 /\ MaxPost \in Nat
  BY DEF Covers, FanoutAssumption
<1> QED BY <1>1

\* The saving of a cursor, step by step
LEMMA SavesWork ==
  ASSUME FanoutAssumption, checkpoint \in Cursors, active \in Cursors,
         NEW n \in 0..MaxPost, Saves(n), io # <<>>, Apply(Head(io)), io' = Rest(io)
  PROVE  /\ Saves(n)' /\ outbox' = outbox
         /\ checkpoint <= checkpoint' /\ checkpoint' <= n
         /\ active' >= 0 => checkpoint' <= active'
<1> DEFINE a == Write("active", n)
           b == Write("checkpoint", n)
<1>1. checkpoint \in Int /\ active \in Int /\ n \in Int
  BY DEF Cursors, Missing, Corrupt, FanoutAssumption
<1>2. /\ SaveSince(n) = <<a, b>> /\ a.file = "active" /\ b.file = "checkpoint"
  BY DEF SaveSince, Write
<1>3. /\ Head(<<a, b>>) = a /\ Tail(<<a, b>>) = <<b>> /\ Head(<<b>>) = b /\ Tail(<<b>>) = <<>>
  <2> HIDE DEF a, b
  <2> QED BY Tuples
<1>4. CASE checkpoint <= n /\ io = SaveSince(n)
  <2>1. Head(io) = a /\ io' = <<b>>
    BY <1>2, <1>3, <1>4 DEF Rest
  <2>2. active' = n /\ checkpoint' = checkpoint /\ outbox' = outbox
    BY <2>1, CursorWrite
  <2> QED BY <1>1, <1>4, <2>1, <2>2 DEF Saves
<1>5. CASE checkpoint <= n /\ active \in {n, Corrupt} /\ io = <<b>>
  <2>1. Head(io) = b /\ io' = <<>>
    BY <1>2, <1>3, <1>5 DEF Rest
  <2>2. active' = active /\ checkpoint' = n /\ outbox' = outbox
    BY <2>1, CursorWrite
  <2> QED BY <1>1, <1>5, <2>1, <2>2 DEF Saves, Corrupt
<1> QED BY <1>4, <1>5 DEF Saves

\* A recovery, step by step
LEMMA LoadsWork ==
  ASSUME FanoutAssumption, NothingAhead, Loads, Work, pc = "load",
         active >= 0 => checkpoint <= active
  PROVE  /\ Loads' /\ outbox' = outbox /\ checkpoint <= checkpoint'
         /\ active' >= 0 => checkpoint' <= active'
<1> DEFINE m == Write("marker", 0)
           d == Write("marker", 1)
           g == Write("active", Missing)
           r == Write("restore", 0)
           a == Write("active", 0)
           b == Write("checkpoint", 0)
<1>1. checkpoint \in Cursors /\ active \in Cursors /\ checkpoint \in Int /\ active \in Int
  BY DEF NothingAhead, FilesOk, Cursors, Missing, Corrupt, FanoutAssumption
<1>2. /\ io # <<>> /\ Apply(Head(io))
      /\ cursor' = IF Head(io).file = "active" /\ Head(io).n >= 0 THEN Head(io).n ELSE cursor
      /\ io' = IF Head(io).file = "restore" THEN AfterRestore(Head(io)) ELSE Tail(io)
  BY DEF Work, Rest
<1>3. CASE io = <<m>> /\ checkpoint <= cursor
  <2>1. Head(io) = m /\ Tail(io) = <<>> /\ m.file = "marker"
    <3>1. m.file = "marker"
      BY DEF Write
    <3> HIDE DEF m
    <3> QED BY <1>3, <3>1, Tuples
  <2>2. active' = active /\ checkpoint' = checkpoint /\ outbox' = outbox /\ cursor' = cursor /\ io' = <<>>
    BY <1>2, <2>1, CursorWrite
  <2> QED BY <1>1, <1>3, <2>2 DEF Loads
<1>4. CASE \E k \in {0, 1} : io = <<Write("restore", k)>>
  <2>1. PICK k \in {0, 1} : io = <<Write("restore", k)>>
    BY <1>4
  <2>2. Head(io) = Write("restore", k) /\ Write("restore", k).file = "restore"
    BY <2>1 DEF Write
  <2>3. active' = active /\ checkpoint' = checkpoint /\ outbox' = outbox
    BY <1>2, <2>2, CursorWrite
  <2>4. io' = AfterRestore(Head(io))
    BY <1>2, <2>2
  <2>5. CASE checkpoint >= 0
    <3>1. io' = <<Write("active", checkpoint'), m>>
      BY <1>1, <2>3, <2>4, <2>5, Restores
    <3> QED BY <1>1, <2>3, <2>5, <3>1 DEF Loads
  <2>6. CASE checkpoint < 0
    <3>1. io' = <<a, b, m>>
      BY <1>1, <2>4, <2>6, Restores
    <3> QED BY <1>1, <2>3, <2>6, <3>1 DEF Loads
  <2> QED BY <1>1, <2>5, <2>6
<1>5. CASE io = <<g, r>>
  <2>1. Head(io) = g /\ Tail(io) = <<r>> /\ g.file = "active" /\ g.n = Missing
    <3>1. g.file = "active" /\ g.n = Missing
      BY DEF Write
    <3> HIDE DEF g, r
    <3> QED BY <1>5, <3>1, Tuples
  <2>2. active' = Missing /\ checkpoint' = checkpoint /\ outbox' = outbox /\ io' = <<r>>
    BY <1>2, <2>1, CursorWrite
  <2> QED BY <1>1, <2>2 DEF Loads, Missing
<1>6. CASE io = <<d, g, r>>
  <2>1. Head(io) = d /\ Tail(io) = <<g, r>> /\ d.file = "marker"
    <3>1. d.file = "marker"
      BY DEF Write
    <3> HIDE DEF d, g, r
    <3> QED BY <1>6, <3>1, Tuples
  <2>2. active' = active /\ checkpoint' = checkpoint /\ outbox' = outbox /\ io' = <<g, r>>
    BY <1>2, <2>1, CursorWrite
  <2> QED BY <1>1, <2>2 DEF Loads
<1>7. CASE checkpoint >= 0 /\ io = <<Write("active", checkpoint), m>>
  <2> DEFINE x == Write("active", checkpoint)
  <2>1. Head(io) = x /\ Tail(io) = <<m>> /\ x.file = "active" /\ x.n = checkpoint
    <3>1. x.file = "active" /\ x.n = checkpoint
      BY DEF Write
    <3> HIDE DEF x, m
    <3> QED BY <1>7, <3>1, Tuples DEF x
  <2>2. /\ active' = checkpoint /\ checkpoint' = checkpoint /\ outbox' = outbox
        /\ cursor' = checkpoint /\ io' = <<m>>
    BY <1>2, <1>7, <2>1, CursorWrite
  <2> QED BY <1>1, <2>2 DEF Loads
<1>8. CASE checkpoint < 0 /\ io = <<a, b, m>>
  <2>2. Head(io) = a /\ Tail(io) = <<b, m>> /\ a.file = "active" /\ a.n = 0
    <3>1. a.file = "active" /\ a.n = 0
      BY DEF Write
    <3> HIDE DEF a, b, m
    <3> QED BY <1>8, <3>1, Tuples
  <2>3. /\ active' = 0 /\ checkpoint' = checkpoint /\ outbox' = outbox
        /\ cursor' = 0 /\ io' = <<b, m>>
    BY <1>2, <2>2, CursorWrite
  <2> QED BY <1>1, <1>8, <2>3 DEF Loads
<1>9. CASE checkpoint < 0 /\ active \in {0, Corrupt} /\ cursor = 0 /\ io = <<b, m>>
  <2>1. Head(io) = b /\ Tail(io) = <<m>> /\ b.file = "checkpoint"
    <3>1. b.file = "checkpoint"
      BY DEF Write
    <3> HIDE DEF b, m
    <3> QED BY <1>9, <3>1, Tuples
  <2>2. /\ active' = active /\ checkpoint' = 0 /\ outbox' = outbox
        /\ cursor' = 0 /\ io' = <<m>>
    BY <1>2, <1>9, <2>1, CursorWrite
  <2> QED BY <1>1, <1>9, <2>2 DEF Loads, Corrupt
<1> QED BY <1>2, <1>3, <1>4, <1>5, <1>6, <1>7, <1>8, <1>9 DEF Loads

\* A checkpoint that only moves forward passes what was sent.
LEMMA ForwardOnce ==
  ASSUME Steady, checkpoint \in Int, checkpoint' \in Int, checkpoint <= checkpoint',
         Posts \subseteq Int, pc # "mark", UNCHANGED <<outbox, pc, pushed, forgiven>>
  PROVE  SentOnce'
<1>1. Unsaved = {}
  BY DEF Unsaved
<1>2. Covers(outbox') = Covers(outbox) /\ outbox'.done = outbox.done
  OBVIOUS
<1> SUFFICES ASSUME NEW t \in Targets, NEW q \in Posts, pushed[t][q] > 0, <<t, q>> \notin forgiven
             PROVE  /\ pushed[t][q] = 1 /\ q \in Quakes
                    /\ q <= checkpoint' \/ q \in Covers(outbox)
                    /\ q \in Covers(outbox) => t \in outbox.done
  BY <1>2 DEF SentOnce, Covers
<1>3. /\ pushed[t][q] = 1 /\ q \in Quakes
      /\ q <= checkpoint \/ q \in Covers(outbox)
      /\ q \in Covers(outbox) => t \in outbox.done
  BY <1>1 DEF Steady, SentOnce
<1> QED BY <1>3

LEMMA WorkSteady ==
  ASSUME FanoutAssumption, NothingAhead, Steady, Work
  PROVE  Steady'
<1>1. /\ io # <<>> /\ Apply(Head(io)) /\ io' = Rest(io)
      /\ UNCHANGED <<pc, pending, pushed, forgiven>>
  BY DEF Work, ghosts
<1>2. /\ active \in Cursors /\ checkpoint \in Cursors /\ checkpoint \in Int /\ active \in Int
      /\ pending \in Pending /\ outbox \in Pending /\ pending.upto \in 0..MaxPost
      /\ pending.upto \in Int /\ pending.from \in Int /\ Posts \subseteq Int
  BY DEF NothingAhead, FilesOk, JobOk, Cursors, Missing, Corrupt, Pending, Posts, FanoutAssumption
<1>3. pc \in {"load", "create", "mark", "advance", "commit", "clear"}
  BY <1>1 DEF NothingAhead, JobOk, Steady, Phase
<1>4. CASE pc = "load"
  <2>1. /\ Loads' /\ outbox' = outbox /\ outbox.upto = 0 /\ checkpoint <= checkpoint'
        /\ (active' >= 0 => checkpoint' <= active')
    BY <1>4, LoadsWork DEF Steady, Phase, Trails
  <2>2. checkpoint' \in Int
    BY WorkAhead DEF NothingAhead, FilesOk, Cursors, Missing, Corrupt, FanoutAssumption
  <2>3. SentOnce'
    BY <1>1, <1>2, <1>4, <2>1, <2>2, ForwardOnce
  <2>4. Phase' /\ Trails'
    BY <1>1, <1>4, <2>1 DEF Phase, Trails
  <2> QED BY <2>3, <2>4 DEF Steady
<1>5. CASE pc \in {"advance", "commit"}
  <2>1. PICK n \in 0..MaxPost : Saves(n) /\ (pc = "commit" => n = pending.upto)
    BY <1>2, <1>5 DEF Steady, Phase
  <2>2. /\ Saves(n)' /\ outbox' = outbox /\ checkpoint <= checkpoint' /\ checkpoint' <= n
        /\ (active' >= 0 => checkpoint' <= active')
    BY <1>1, <1>2, <2>1, SavesWork
  <2>3. checkpoint' \in Int
    BY WorkAhead DEF NothingAhead, FilesOk, Cursors, Missing, Corrupt, FanoutAssumption
  <2>4. SentOnce'
    BY <1>1, <1>2, <1>5, <2>2, <2>3, ForwardOnce
  <2>5. pc = "commit" => Saves(pending.upto)'
    BY <1>1, <2>1, <2>2 DEF Saves
  <2>6. Phase'
    BY <1>1, <1>5, <2>1, <2>2, <2>5 DEF Steady, Phase, Complete
  <2>7. Trails'
    BY <1>5, <2>1, <2>2 DEF Steady, Phase, Trails
  <2> QED BY <2>4, <2>6, <2>7 DEF Steady
<1>6. CASE pc \in {"create", "mark"}
  <2>1. Head(io) = WriteOutbox(pending) /\ Rest(io) = <<>>
    <3>1. io = <<WriteOutbox(pending)>>
      BY <1>1, <1>6 DEF Steady, Phase
    <3> QED BY <3>1 DEF Rest, WriteOutbox
  <2>2. outbox' = pending /\ active' = active /\ checkpoint' = checkpoint /\ io' = <<>>
    BY <1>1, <1>2, <2>1, OutboxWrite
  <2>3. Phase'
    BY <1>1, <1>6, <2>2 DEF Steady, Phase
  <2>4. Trails'
    BY <1>2, <1>6, <2>2 DEF Steady, Phase, Trails
  <2>5. ASSUME NEW t \in Targets, NEW q \in Posts, pushed[t][q] > 0, <<t, q>> \notin forgiven
        PROVE  /\ pushed[t][q] = 1 /\ q \in Quakes
               /\ q <= checkpoint \/ q \in Covers(pending)
               /\ q \in Covers(pending) => t \in pending.done
    <3>1. /\ pushed[t][q] = 1 /\ q \in Quakes
          /\ q <= checkpoint \/ q \in Covers(outbox)
          /\ q \in Covers(outbox) => t \in outbox.done \/ <<t, q>> \in Unsaved
      BY <2>5 DEF Steady, SentOnce
    <3>2. CASE pc = "create"
      <4>1. outbox.upto = 0 /\ checkpoint <= pending.from
        BY <1>1, <3>2 DEF Steady, Phase
      <4>2. Covers(outbox) = {}
        BY <4>1, Nowhere
      <4> QED BY <1>2, <3>1, <4>1, <4>2 DEF Covers
    <3>3. CASE pc = "mark"
      <4>1. Covers(outbox) = Covers(pending) /\ outbox.done \subseteq pending.done
        BY <3>3 DEF Steady, Phase, Covers
      <4>2. <<t, q>> \in Unsaved => t \in pending.done
        BY DEF Unsaved
      <4> QED BY <3>1, <4>1, <4>2
    <3> QED BY <1>6, <3>2, <3>3
  <2>6. SentOnce'
    <3>1. Covers(outbox') = Covers(pending) /\ outbox'.done = pending.done
      BY <2>2
    <3> QED BY <1>1, <2>2, <2>5, <3>1 DEF SentOnce, Covers
  <2> QED BY <2>3, <2>4, <2>6 DEF Steady
<1>7. CASE pc = "clear"
  <2>1. Head(io) = WriteOutbox(NoPending) /\ Rest(io) = <<>> /\ outbox = pending
        /\ checkpoint = pending.upto
    <3>1. io = <<WriteOutbox(NoPending)>> /\ outbox = pending /\ checkpoint = pending.upto
      BY <1>1, <1>7 DEF Steady, Phase
    <3> QED BY <3>1 DEF Rest, WriteOutbox
  <2>2. outbox' = NoPending /\ active' = active /\ checkpoint' = checkpoint /\ io' = <<>>
    BY <1>1, <2>1, OutboxWrite, Beginnings
  <2>3. Phase'
    BY <1>1, <1>7, <2>1, <2>2 DEF Phase
  <2>4. Trails'
    BY <2>2 DEF Steady, Trails, NoPending
  <2>5. Covers(NoPending) = {} /\ \A q \in Covers(outbox) : q <= checkpoint
    BY <2>1, Nowhere DEF Covers, NoPending
  <2>6. Unsaved = {}
    BY <1>7 DEF Unsaved
  <2>7. \A t \in Targets, q \in Posts : pushed[t][q] > 0 /\ <<t, q>> \notin forgiven =>
          pushed[t][q] = 1 /\ q \in Quakes /\ q <= checkpoint
    BY <2>5, <2>6 DEF Steady, SentOnce
  <2>8. SentOnce'
    <3>1. Covers(outbox') = {}
      BY <2>2, <2>5
    <3> QED BY <1>1, <2>2, <2>7, <3>1 DEF SentOnce, Covers
  <2> QED BY <2>3, <2>4, <2>8 DEF Steady
<1> QED BY <1>3, <1>4, <1>5, <1>6, <1>7

\* A send cancelled inside the transport is sent again, and excused.
LEMMA CutSteady ==
  ASSUME FanoutAssumption, NothingAhead, Steady, NEW t \in Targets, SendCut(t)
  PROVE  Steady'
<1>1. /\ io = <<>> /\ Idle /\ pc' = "idle" /\ UNCHANGED <<active, checkpoint, outbox>>
      /\ Push(t) /\ forgiven' = forgiven \cup ({t} \X Covers(pending))
  BY DEF SendCut, Stands, Idle, files
<1>2. Phase' /\ Trails'
  BY <1>1 DEF Phase, Trails, Steady
<1>3. SentOnce'
  <2> SUFFICES ASSUME NEW u \in Targets, NEW q \in Posts, pushed'[u][q] > 0,
                      <<u, q>> \notin forgiven'
               PROVE  /\ pushed'[u][q] = 1 /\ q \in Quakes
                      /\ q <= checkpoint \/ q \in Covers(outbox)
                      /\ q \in Covers(outbox) => u \in outbox.done
    BY <1>1 DEF SentOnce, Covers
  <2>1. <<u, q>> \notin forgiven /\ ~(u = t /\ q \in Covers(pending))
    BY <1>1
  <2>2. pushed'[u][q] = pushed[u][q]
    BY <1>1, <2>1 DEF Push, Bump, NothingAhead, WorldOk
  <2>3. Unsaved = {}
    BY <1>1 DEF Unsaved
  <2> QED BY <2>1, <2>2, <2>3 DEF Steady, SentOnce
<1> QED BY <1>2, <1>3 DEF Steady

-----------------------------------------------------------------------------
(* The theorems *)

\* A thread that was left behind stays in the account, if only with nothing to write.
LEMMA StaysStrayed == NothingAhead /\ Strayed /\ [FanoutNext]_fanoutVars => Strayed'
<1> SUFFICES ASSUME NothingAhead, Strayed, [FanoutNext]_fanoutVars PROVE Strayed'
  OBVIOUS
<1>1. strays \in Seq(Seq(Writes)) /\ io \in Seq(Writes)
  BY DEF NothingAhead, StraysOk, JobOk, ThreadOk
<1>2. \/ strays' = strays
      \/ strays' = Append(strays, io)
      \/ strays' = [i \in DOMAIN strays |-> <<>>]
      \/ \E i \in DOMAIN strays : \E r : strays' = [strays EXCEPT ![i] = r]
  <2>1. CASE Job
    BY <2>1 DEF Job, Work, Start, LoadSince, Create, Created, Advance, NothingNew, Marked, Commit,
                RetainPending, Clear, Finish, SendOk, SendUnknown, SendRefused
  <2>2. CASE \/ WorkFails \/ (\E t \in Targets : SendCancelled(t) \/ SendCut(t))
             \/ CancelJob \/ CancelAgain \/ Crash
    BY <2>2 DEF WorkFails, SendCancelled, SendCut, CancelJob, CancelAgain, Crash
  <2>3. CASE StrayWorks
    BY <2>3 DEF StrayWorks
  <2>4. CASE Corruption \/ NewPost \/ UNCHANGED fanoutVars
    BY <2>4 DEF Corruption, NewPost, fanoutVars
  <2> QED BY <2>1, <2>2, <2>3, <2>4 DEF FanoutNext
<1>3. DOMAIN strays # {}
  <2>1. Len(strays) \in Nat /\ Len(strays) # 0 /\ DOMAIN strays = 1..Len(strays)
    BY <1>1, LenProperties, EmptySeq DEF Strayed
  <2>2. 1 \in DOMAIN strays
    BY <2>1
  <2> QED BY <2>2
<1>4. CASE strays' = Append(strays, io)
  BY <1>1, <1>4, AppendProperties, EmptySeq DEF Strayed
<1>5. CASE strays' # Append(strays, io)
  <2>1. DOMAIN strays' # {}
    BY <1>2, <1>3, <1>5
  <2> QED BY <2>1 DEF Strayed
<1> QED BY <1>4, <1>5

LEMMA StepSteady ==
  ASSUME FanoutAssumption, NothingAhead, Steady, ~Strayed, [FanoutNext]_fanoutVars
  PROVE  Strayed' \/ Steady'
<1>1. CASE UNCHANGED fanoutVars
  BY <1>1 DEF fanoutVars, files, jobState, ghosts, Steady, Phase, Trails, SentOnce, Loads, Saves, Covers, Unsaved
<1>2. CASE Job
  BY <1>2, WorkSteady, StartSteady, LoadSinceSteady, CreateSteady, AdvanceSteady, TurnsSteady,
     EndsSteady, SendSteady, SendRefusedSteady DEF Job
<1>3. ~StrayWorks
  BY EmptySeq DEF StrayWorks, Strayed
<1> QED BY <1>1, <1>2, <1>3, EndsSteady, SendSteady, CutSteady, CancelSteady, CorruptionSteady,
           NewPostSteady DEF FanoutNext

\* Nothing on disk, in memory or in a thread is ever ahead of what is settled; and as
\* long as no cancelled job left a thread behind, each stage of the job finds on disk
\* what the stage before it wrote (_scheduled_locked, _deliver_pending, _load_since).
THEOREM Invariance == ASSUME FanoutAssumption PROVE FanoutSpec => []IInv
<1>1. FanoutInit => IInv
  BY InitAhead DEF IInv
<1>2. IInv /\ [FanoutNext]_fanoutVars => IInv'
  BY StepAhead, StaysStrayed, StepSteady DEF IInv
<1> QED BY <1>1, <1>2, PTL DEF FanoutSpec

\* Every variable keeps its kind, and no fault exceeds its bound.
THEOREM IsTyped == ASSUME FanoutAssumption PROVE FanoutSpec => []TypeOK
<1>1. IInv => TypeOK
  BY DEF IInv, NothingAhead, FilesOk, JobOk, WorldOk, FaultsOk, TypeOK
<1> QED BY <1>1, Invariance, PTL

\* No cursor passes a post that is not settled, and a recovery never runs ahead.
THEOREM CursorsAreSafe == ASSUME FanoutAssumption PROVE FanoutSpec => []CursorsSafe
<1>1. ASSUME IInv PROVE CursorsSafe
  <2>1. NothingSkipped
    BY <1>1 DEF IInv, NothingAhead, FilesOk, Passed, NothingSkipped
  <2>2. CheckpointTrails
    BY <1>1 DEF IInv, Steady, Trails, CheckpointTrails
  <2> QED BY <2>1, <2>2 DEF CursorsSafe
<1> QED BY <1>1, Invariance, PTL

\* Only an acknowledgement that was not saved, a send cancelled while the transport had
\* it (its receipt rolls back and the target stays in the outbox), or a thread that was
\* left behind, lets a target get a post twice.
THEOREM PushedAtMostOnce == ASSUME FanoutAssumption PROVE FanoutSpec => []AtMostOnce
<1>1. ASSUME IInv PROVE AtMostOnce
  <2>1. ASSUME NEW t \in Targets, NEW q \in Posts, pushed[t][q] > 1, <<t, q>> \notin forgiven,
               ~Strayed
        PROVE  FALSE
    <3>1. pushed[t][q] \in Int /\ pushed[t][q] > 0
      BY <1>1, <2>1 DEF IInv, NothingAhead, WorldOk
    <3>2. pushed[t][q] = 1
      BY <1>1, <2>1, <3>1 DEF IInv, Steady, SentOnce
    <3> QED BY <2>1, <3>2
  <2> QED BY <2>1 DEF AtMostOnce
<1> QED BY <1>1, Invariance, PTL

(***************************************************************************)
(* Plugin generations.  The invariant says which gate callbacks may be in, *)
(* which gate may let them in, what a job holds at each of its waits and   *)
(* what for, what a quarantine has to do with it, where a started          *)
(* generation is to be found, and how a job leaves the plugin.             *)
(***************************************************************************)

Pcs == {"idle", "freeze", "close1", "stop", "close2", "quarantine", "purge", "unrestore",
        "prepare", "import", "init", "check", "quiesce", "publish", "decide", "remodule"}

\* A generation is coming up, or it is being decided about one
Rising == {"prepare", "import", "init", "check", "quiesce", "publish", "decide", "remodule"}

GenType == [def : 0 .. 1, src : 0 .. 1, gate : 0 .. NumGates, attempted : BOOLEAN,
            completed : BOOLEAN, life : {"new", "up", "down"}]
GateType == [open : BOOLEAN, known : BOOLEAN, gen : 0 .. NumGens, calls : Nat, fatal : BOOLEAN]
JobType == [pc : Pcs, why : {"none", "unload", "retire", "candidate", "rollback", "restore"},
            gen : 0 .. NumGens, gate : 0 .. NumGates, retain : BOOLEAN,
            old : 0 .. NumGens, oldGate : 0 .. NumGates, def : 0 .. 1, src : 0 .. 1,
            changed : BOOLEAN, current : {"unknown", "yes", "no", "error"}]

RecordsTyped ==
  /\ registered \in 0 .. NumGens /\ gateOf \in 0 .. NumGates /\ router \in 0 .. NumGates
  /\ cache \in 0 .. NumGens /\ quarantined \in BOOLEAN /\ restart \in BOOLEAN

WorldTyped ==
  /\ disk \in Disks /\ compromised \in BOOLEAN /\ deferred \in BOOLEAN
  /\ interrupted \in BOOLEAN /\ excused \in BOOLEAN

Typed ==
  /\ gens \in [Gens -> GenType] /\ gates \in [Gates -> GateType] /\ job \in JobType
  /\ RecordsTyped /\ WorldTyped

\* The gate that callbacks may be in, and the generation that may have been started
Current == IF At("idle") THEN gateOf ELSE job.gate
Owner == IF At("idle") THEN registered ELSE job.gen

\* Callbacks are in one gate at most, and only where a job can wait for them
OneBusy ==
  /\ \A k \in Gates : gates[k].calls > 0 =>
       k = Current /\ job.pc \in {"idle", "close1", "close2", "unrestore"}
  /\ \A k \in Gates : gates[k].calls > 0 /\ At("idle") /\ ~quarantined =>
       registered # 0 /\ gens[registered].gate = k

\* A gate that lets callbacks in is the one commands lead to, while no job is at
\* work, and its generation is registered and whole
OnlyServed ==
  /\ router # 0 => gates[router].known
  /\ quarantined => router = 0
  /\ \A k \in Gates : gates[k].open /\ gates[k].known =>
       /\ At("idle") /\ router = k /\ gateOf = k
       /\ registered # 0 /\ gens[registered].gate = k
       /\ gens[registered].life = "up" /\ ~gens[registered].attempted /\ cache = registered

\* What a job holds at each of its waits
JobShape ==
  /\ At("idle") <=> job.why = "none"
  /\ At("idle") => job = NoJob
  /\ job.pc \in {"prepare", "import"} => job.why = "candidate"
  /\ job.pc \in Rising \ {"decide"} =>
       job.gen # 0 /\ job.gate # 0 /\ gates[job.gate].open
  /\ job.pc \in {"decide", "remodule"} => job.why = "rollback"
  /\ job.pc \in {"decide", "remodule", "unrestore"} => job.old # 0
  /\ job.pc \in {"remodule", "unrestore"} => job.gen = job.old
  /\ At("decide") => /\ registered = 0 /\ gateOf = 0 /\ router = 0
                     /\ job.gen = 0 /\ job.gate = 0
  /\ job.pc \in {"init", "check", "quiesce", "publish"} => cache = job.gen
  /\ At("freeze") => job.gen # 0
  /\ job.pc \in {"freeze", "quarantine"} => job.retain
  /\ job.current = "error" => excused

\* ... and what it does it for
Purpose ==
  /\ job.why = "candidate" => job.gen # job.old
  /\ job.why \in {"unload", "retire", "restore"} => job.pc \in {"close1", "stop", "close2", "purge"}
  /\ job.why = "retire" =>
       /\ job.gen # 0 /\ job.gen = job.old /\ registered = job.old
       /\ gateOf = job.gate /\ job.oldGate = job.gate /\ cache \in {0, job.gen}
  /\ job.why = "unload" => ~restart /\ (job.pc # "close1" => router = 0)
  /\ job.why = "restore" => job.gen # 0 /\ excused
  /\ job.retain => /\ job.pc \in {"freeze", "close1", "stop", "close2", "quarantine"}
                   /\ job.why = "rollback" /\ (job.gen # 0 => restart)
  /\ job.why \in {"candidate", "rollback", "restore"} => router = 0

\* A quarantine meets a job only where it is unloaded or cannot be ended
Quarantines ==
  /\ job.pc \in Rising => ~quarantined
  /\ ~At("idle") /\ quarantined /\ job.why # "unload" => compromised
  /\ At("idle") /\ ~quarantined => cache \in {0, registered}

\* Who was started is registered or at hand, unless only a restart helps
Lives ==
  /\ \A g \in Gens : gens[g].life = "up" =>
       g = Owner \/ (restart /\ (At("idle") \/ job.why = "retire"))
  /\ \A g \in Gens : gens[g].attempted => gens[g].life # "up"
  /\ job.pc \in {"close2", "purge", "quarantine", "prepare", "import", "remodule"}
     /\ job.gen # 0 =>
       gens[job.gen].life # "up"
  /\ job.pc \in {"prepare", "import", "init", "remodule"} => ~gens[job.gen].attempted
  /\ job.pc \in {"check", "quiesce", "publish"} => gens[job.gen].life = "up"

\* How a finished job leaves the plugin
Serves == InService /\ gateOf # 0
Rests ==
  /\ At("idle") => Serves \/ Shut \/ Absent \/ Torn
  /\ At("idle") /\ ~excused /\ registered # 0 => Serves

Lifecycle ==
  Typed /\ OneBusy /\ OnlyServed /\ JobShape /\ Purpose /\ Quarantines /\ Lives /\ Rests

-----------------------------------------------------------------------------
(* Lemmas about the operators *)

\* The bounds are numbers, with room for a candidate and for two gates more.
LEMMA Bounds ==
  /\ NumGens \in Nat /\ NumGens >= 2 /\ NumGates \in Nat /\ NumGates >= 3
  /\ MaxCalls \in Nat
BY GenerationsAssumption DEF GenerationsAssumption

USE Bounds

\* Every set of natural numbers has a least element.
LEMMA LeastIn ==
  ASSUME NEW S, S \subseteq Nat, S # {}
  PROVE  Least(S) \in S
<1>1. \E R : /\ IsWellFoundedOn(R, Nat)
             /\ \A a, b \in Nat : (<<a, b>> \in R) <=> a < b
  <2>1. \A a, b \in Nat : (<<a, b>> \in OpToRel(<, Nat)) <=> a < b
    BY Zenon DEF OpToRel
  <2> QED
    BY <2>1, NatLessThanWellFounded, Zenon
<1>2. PICK R : /\ IsWellFoundedOn(R, Nat)
               /\ \A a, b \in Nat : (<<a, b>> \in R) <=> a < b
  BY <1>1
<1>3. IsWellFoundedOn(R, Nat)
  BY <1>2
<1>4. \A a, b \in Nat : (<<a, b>> \in R) <=> a < b
  BY <1>2
<1>5. \E x \in S : \A y \in S : ~ (<<y, x>> \in R)
  BY <1>3, WFMin, Zenon
<1>6. PICK x \in S : \A y \in S : ~ (<<y, x>> \in R)
  BY <1>5
<1>7. \A y \in S : x <= y
  <2> SUFFICES ASSUME NEW y \in S  PROVE x <= y
    OBVIOUS
  <2>1. x \in Nat /\ y \in Nat
    OBVIOUS
  <2>2. ~ (y < x)
    BY <1>4, <1>6, <2>1, Zenon
  <2> QED
    BY <2>1, <2>2
<1> QED
  BY <1>7 DEF Least

\* Fields written of a generation or of a gate, ...
WithGate(f, g, k) == [f EXCEPT ![g].gate = k]
WithLife(f, g, l) == [f EXCEPT ![g].life = l]
WithShutdown(f, g, b, c) == [f EXCEPT ![g].attempted = b, ![g].completed = c]
WithOpen(f, k, v) == [f EXCEPT ![k].open = v]
WithFatal(f, k, v) == [f EXCEPT ![k].fatal = v]

\* ... and what that changes, of what the invariant speaks of.
GateWritten(f, g, k, new) ==
  /\ new \in [Gens -> GenType]
  /\ \A h \in Gens : /\ new[h].life = f[h].life /\ new[h].attempted = f[h].attempted
                     /\ new[h].gate = IF h = g THEN k ELSE f[h].gate
LifeWritten(f, g, l, new) ==
  /\ new \in [Gens -> GenType]
  /\ \A h \in Gens : /\ new[h].gate = f[h].gate /\ new[h].attempted = f[h].attempted
                     /\ new[h].life = IF h = g THEN l ELSE f[h].life
ShutdownWritten(f, g, b, new) ==
  /\ new \in [Gens -> GenType]
  /\ \A h \in Gens : /\ new[h].gate = f[h].gate /\ new[h].life = f[h].life
                     /\ new[h].attempted = IF h = g THEN b ELSE f[h].attempted
OpenWritten(f, k, v, new) ==
  /\ new \in [Gates -> GateType]
  /\ \A j \in Gates : /\ new[j].known = f[j].known /\ new[j].calls = f[j].calls
                      /\ new[j].open = IF j = k THEN v ELSE f[j].open
FatalWritten(f, new) ==
  /\ new \in [Gates -> GateType]
  /\ \A j \in Gates : /\ new[j].known = f[j].known /\ new[j].calls = f[j].calls
                      /\ new[j].open = f[j].open

LEMMA GateSet ==
  ASSUME NEW f \in [Gens -> GenType], NEW g, NEW k \in 0 .. NumGates
  PROVE  GateWritten(f, g, k, WithGate(f, g, k))
<1> DEFINE r == [f[g] EXCEPT !.gate = k]
           new == [f EXCEPT ![g] = r]
<1>1. \A h \in Gens : new[h] = IF h = g THEN r ELSE f[h]
  OBVIOUS
<1>2. CASE g \in Gens
  <2>1. r \in GenType
    BY <1>2 DEF GenType
  <2>2. r.gate = k /\ r.life = f[g].life /\ r.attempted = f[g].attempted
    BY <1>2, Zenon DEF GenType
  <2> HIDE DEF r
  <2>3. new \in [Gens -> GenType]
    BY <2>1
  <2> HIDE DEF new
  <2> QED
    BY <1>1, <2>2, <2>3, Zenon DEF new, r, WithGate, GateWritten
<1>3. CASE g \notin Gens
  BY <1>3 DEF WithGate, GateWritten
<1> QED
  BY <1>2, <1>3

LEMMA LifeSet ==
  ASSUME NEW f \in [Gens -> GenType], NEW g, NEW l \in {"new", "up", "down"}
  PROVE  LifeWritten(f, g, l, WithLife(f, g, l))
<1> DEFINE r == [f[g] EXCEPT !.life = l]
           new == [f EXCEPT ![g] = r]
<1>1. \A h \in Gens : new[h] = IF h = g THEN r ELSE f[h]
  OBVIOUS
<1>2. CASE g \in Gens
  <2>1. r \in GenType
    BY <1>2, Zenon DEF GenType
  <2>2. r.life = l /\ r.gate = f[g].gate /\ r.attempted = f[g].attempted
    BY <1>2, Zenon DEF GenType
  <2> HIDE DEF r
  <2>3. new \in [Gens -> GenType]
    BY <2>1
  <2> HIDE DEF new
  <2> QED
    BY <1>1, <2>2, <2>3, Zenon DEF new, r, WithLife, LifeWritten
<1>3. CASE g \notin Gens
  BY <1>3 DEF WithLife, LifeWritten
<1> QED
  BY <1>2, <1>3

LEMMA ShutdownSet ==
  ASSUME NEW f \in [Gens -> GenType], NEW g, NEW b \in BOOLEAN, NEW c \in BOOLEAN
  PROVE  ShutdownWritten(f, g, b, WithShutdown(f, g, b, c))
<1> DEFINE q == [f[g] EXCEPT !.attempted = b]
           r == [q EXCEPT !.completed = c]
           new == [f EXCEPT ![g] = r]
<1>1. \A h \in Gens : new[h] = IF h = g THEN r ELSE f[h]
  OBVIOUS
<1>2. CASE g \in Gens
  <2>1. q \in GenType
    BY <1>2, Zenon DEF GenType
  <2>2. q.gate = f[g].gate /\ q.life = f[g].life /\ q.attempted = b
    BY <1>2, Zenon DEF GenType
  <2> HIDE DEF q
  <2>3. r \in GenType
    BY <2>1, Zenon DEF GenType
  <2>4. r.gate = q.gate /\ r.life = q.life /\ r.attempted = q.attempted
    BY <2>1, Zenon DEF GenType
  <2> HIDE DEF r
  <2>5. new \in [Gens -> GenType]
    BY <2>3
  <2> HIDE DEF new
  <2> QED
    BY <1>1, <2>2, <2>4, <2>5, Zenon DEF new, r, q, WithShutdown, ShutdownWritten
<1>3. CASE g \notin Gens
  BY <1>3 DEF WithShutdown, ShutdownWritten
<1> QED
  BY <1>2, <1>3

LEMMA OpenSet ==
  ASSUME NEW f \in [Gates -> GateType], NEW k, NEW v \in BOOLEAN
  PROVE  OpenWritten(f, k, v, WithOpen(f, k, v))
<1> DEFINE r == [f[k] EXCEPT !.open = v]
           new == [f EXCEPT ![k] = r]
<1>1. \A j \in Gates : new[j] = IF j = k THEN r ELSE f[j]
  OBVIOUS
<1>2. CASE k \in Gates
  <2>1. r \in GateType
    BY <1>2, Zenon DEF GateType
  <2>2. r.open = v /\ r.known = f[k].known /\ r.calls = f[k].calls
    BY <1>2, Zenon DEF GateType
  <2> HIDE DEF r
  <2>3. new \in [Gates -> GateType]
    BY <2>1
  <2> HIDE DEF new
  <2> QED
    BY <1>1, <2>2, <2>3, Zenon DEF new, r, WithOpen, OpenWritten
<1>3. CASE k \notin Gates
  BY <1>3 DEF WithOpen, OpenWritten
<1> QED
  BY <1>2, <1>3

LEMMA FatalSet ==
  ASSUME NEW f \in [Gates -> GateType], NEW k, NEW v \in BOOLEAN
  PROVE  FatalWritten(f, WithFatal(f, k, v))
<1> DEFINE r == [f[k] EXCEPT !.fatal = v]
           new == [f EXCEPT ![k] = r]
<1>1. \A j \in Gates : new[j] = IF j = k THEN r ELSE f[j]
  OBVIOUS
<1>2. CASE k \in Gates
  <2>1. r \in GateType
    BY <1>2, Zenon DEF GateType
  <2>2. r.open = f[k].open /\ r.known = f[k].known /\ r.calls = f[k].calls
    BY <1>2, Zenon DEF GateType
  <2> HIDE DEF r
  <2>3. new \in [Gates -> GateType]
    BY <2>1
  <2> HIDE DEF new
  <2> QED
    BY <1>1, <2>2, <2>3, Zenon DEF new, r, WithFatal, FatalWritten
<1>3. CASE k \notin Gates
  BY <1>3 DEF WithFatal, FatalWritten
<1> QED
  BY <1>2, <1>3

\* Nothing opens, and what is published stays so
GatesClose ==
  /\ gates' \in [Gates -> GateType]
  /\ \A k \in Gates : gates'[k].known = gates[k].known /\ (gates'[k].open => gates[k].open)

CallsKept == \A k \in Gates : gates'[k].calls = gates[k].calls

LivesKept ==
  /\ gens' \in [Gens -> GenType]
  /\ \A g \in Gens : gens'[g].life = gens[g].life /\ gens'[g].attempted = gens[g].attempted

\* Closing a gate, and a close that consumes its fatal error, disturb no other.
LEMMA ClosedCloses ==
  ASSUME Typed, NEW k \in 0 .. NumGates, gates' = Closed(k)
  PROVE  GatesClose /\ CallsKept
BY DEF Typed, Closed, GatesClose, CallsKept, GateType, Gates

LEMMA ConsumedCloses ==
  ASSUME Typed, Consumed
  PROVE  GatesClose /\ CallsKept /\ deferred' \in BOOLEAN
<1>1. GatesClose /\ CallsKept
  <2>1. CASE job.gate = 0
    BY <2>1 DEF Consumed, Typed, GatesClose, CallsKept
  <2>2. CASE job.gate # 0
    <3> DEFINE shut == WithOpen(gates, job.gate, FALSE)
    <3>1. gates' = WithFatal(shut, job.gate, FALSE) /\ gates \in [Gates -> GateType]
      BY <2>2, Zenon DEF Consumed, Typed, WithOpen, WithFatal
    <3>2. OpenWritten(gates, job.gate, FALSE, shut)
      BY <3>1, OpenSet, Zenon
    <3> HIDE DEF shut
    <3>3. FatalWritten(shut, gates')
      <4>1. shut \in [Gates -> GateType]
        BY <3>2 DEF OpenWritten
      <4> QED
        BY <3>1, <4>1, FatalSet, Zenon
    <3> QED
      BY <3>2, <3>3, Zenon DEF OpenWritten, FatalWritten, GatesClose, CallsKept
  <2> QED
    BY <2>1, <2>2
<1>2. deferred' \in BOOLEAN
  BY DEF Typed, Consumed
<1> QED
  BY <1>1, <1>2

LEMMA SameGates ==
  ASSUME Typed, UNCHANGED gates
  PROVE  GatesClose /\ CallsKept
BY DEF Typed, GatesClose, CallsKept

\* One callback more in a gate.
LEMMA Calling ==
  ASSUME Typed, NEW k \in 0 .. NumGates, gates' = [gates EXCEPT ![k].calls = @ + 1]
  PROVE  /\ gates' \in [Gates -> GateType]
         /\ \A j \in Gates : /\ gates'[j].known = gates[j].known /\ gates'[j].open = gates[j].open
                             /\ (gates'[j].calls # gates[j].calls => j = k)
<1>1. gates' \in [Gates -> GateType]
  <2>1. CASE k \in Gates
    <3>1. [gates[k] EXCEPT !.calls = @ + 1] \in GateType
      BY <2>1 DEF Typed, GateType
    <3>2. gates' = [gates EXCEPT ![k] = [gates[k] EXCEPT !.calls = @ + 1]]
      BY <2>1 DEF Typed
    <3> QED
      BY <3>1, <3>2 DEF Typed
  <2>2. CASE k \notin Gates
    BY <2>2 DEF Typed
  <2> QED
    BY <2>1, <2>2
<1>2. \A j \in Gates : j # k => gates'[j] = gates[j]
  BY DEF Typed
<1>3. k \in Gates => gates'[k].known = gates[k].known /\ gates'[k].open = gates[k].open
  BY DEF Typed, GateType
<1> QED
  BY <1>1, <1>2, <1>3

\* Giving a generation its gate back leaves its life alone.
LEMMA OwnsKeepsLives ==
  ASSUME Typed, NEW g \in 0 .. NumGens, NEW k \in 0 .. NumGates, gens' = Owns(g, k)
  PROVE  LivesKept
<1>1. CASE g = 0
  BY <1>1 DEF Owns, Typed, LivesKept
<1>2. CASE g # 0
  <2>1. gens' = WithGate(gens, g, k) /\ gens \in [Gens -> GenType]
    BY <1>2 DEF Owns, Typed, WithGate
  <2>2. GateWritten(gens, g, k, gens')
    BY <2>1, GateSet, Zenon
  <2> QED
    BY <2>2, Zenon DEF GateWritten, LivesKept
<1> QED
  BY <1>1, <1>2

LEMMA SameGens ==
  ASSUME Typed, UNCHANGED gens
  PROVE  LivesKept
BY DEF Typed, LivesKept

SameErrand ==
  /\ job'.why = job.why /\ job'.gen = job.gen /\ job'.gate = job.gate
  /\ job'.retain = job.retain /\ job'.old = job.old /\ job'.oldGate = job.oldGate
  /\ job'.current = job.current

\* A job that only goes on to its next wait.
LEMMA Going ==
  ASSUME job \in JobType, NEW p \in Pcs, Go(p)
  PROVE  job' \in JobType /\ job'.pc = p /\ SameErrand
BY DEF JobType, Go, SameErrand

LEMMA NoJobType == NoJob \in JobType
BY DEF NoJob, JobType, Pcs

\* A job that turns to taking generation g out.
LEMMA Tearing ==
  ASSUME job \in JobType, restart \in BOOLEAN, NEW why \in {"rollback", "restore"},
         NEW g \in 0 .. NumGens, NEW k \in 0 .. NumGates, NEW retain \in BOOLEAN,
         Tear(why, g, k, retain)
  PROVE  /\ job' \in JobType /\ job'.pc = (IF retain /\ g # 0 THEN "freeze" ELSE "close1")
         /\ job'.why = why /\ job'.gen = g /\ job'.gate = k /\ job'.retain = retain
         /\ job'.old = job.old /\ job'.oldGate = job.oldGate /\ job'.current = job.current
         /\ restart' = (restart \/ (retain /\ g # 0))
<1>1. (IF retain /\ g # 0 THEN "freeze" ELSE "close1") \in Pcs
  BY DEF Pcs
<1>2. restart' = (restart \/ (retain /\ g # 0))
  BY DEF Tear
<1> QED
  BY <1>1, <1>2 DEF JobType, Tear

-----------------------------------------------------------------------------
(* Ways for a job to end or to turn back *)

\* A job that ends with generation g quarantined behind gate k.
LEMMA Quarantined ==
  ASSUME Lifecycle, ~At("idle"), NEW g \in 0 .. NumGens, NEW k \in 0 .. NumGates,
         Quarantine(g, k), job' = NoJob, excused', WorldTyped',
         cache' \in 0 .. NumGens, restart' \in BOOLEAN, GatesClose,
         \A j \in Gates : gates'[j].calls > 0 => j = k,
         gens' \in [Gens -> GenType],
         \A h \in Gens : gens'[h].life = "up" => h = g \/ restart',
         \A h \in Gens : gens'[h].attempted => gens'[h].life # "up"
  PROVE  Lifecycle'
<1>1. /\ registered' = g /\ gateOf' = k /\ router' = 0 /\ quarantined' = TRUE
      /\ job'.pc = "idle" /\ job'.why = "none" /\ job'.gen = 0 /\ job'.gate = 0
      /\ job'.retain = FALSE /\ job'.current = "unknown"
  BY DEF Quarantine, NoJob
<1>2. Typed'
  BY <1>1, NoJobType DEF Typed, RecordsTyped, GatesClose
<1>3. OneBusy'
  BY <1>1 DEF OneBusy, Current, At
<1>4. OnlyServed'
  BY <1>1 DEF OnlyServed, GatesClose, Lifecycle
<1>5. JobShape' /\ Purpose'
  BY <1>1 DEF JobShape, Purpose, Rising, At
<1>6. Quarantines'
  BY <1>1 DEF Quarantines, Rising, At
<1>7. Lives'
  BY <1>1 DEF Lives, Owner, At
<1>8. Rests'
  BY <1>1 DEF Rests, Shut
<1> QED
  BY <1>2, <1>3, <1>4, <1>5, <1>6, <1>7, <1>8 DEF Lifecycle

\* ... and it is the job's generation, behind the job's gate.
LEMMA QuarantinesItsOwn ==
  ASSUME Lifecycle, ~At("idle"), QuarantineJob, GatesClose, CallsKept,
         disk' \in Disks, compromised' \in BOOLEAN, deferred' \in BOOLEAN,
         cache' \in 0 .. NumGens, restart' \in BOOLEAN, restart => restart'
  PROVE  Lifecycle'
<1>1. Typed /\ OneBusy /\ Lives /\ job.gen \in 0 .. NumGens /\ job.gate \in 0 .. NumGates
  BY DEF Lifecycle, Typed, JobType
<1>2. LivesKept
  BY <1>1, OwnsKeepsLives DEF QuarantineJob
<1>3. Quarantine(job.gen, job.gate) /\ job' = NoJob /\ excused' = TRUE /\ interrupted' = FALSE
  BY DEF QuarantineJob
<1>4. WorldTyped'
  BY <1>3 DEF WorldTyped
<1>5. \A j \in Gates : gates'[j].calls > 0 => j = job.gate
  BY <1>1 DEF OneBusy, Current, CallsKept
<1>6. \A h \in Gens : gens'[h].life = "up" => h = job.gen \/ restart'
  BY <1>1, <1>2 DEF Lives, Owner, LivesKept
<1>7. \A h \in Gens : gens'[h].attempted => gens'[h].life # "up"
  BY <1>1, <1>2 DEF Lives, LivesKept
<1> QED
  BY <1>1, <1>2, <1>3, <1>4, <1>5, <1>6, <1>7, Quarantined DEF LivesKept

\* What fails on its way up turns back: a candidate is rolled back, with its
\* module or without, a restore is undone.
LEMMA Failing ==
  ASSUME Lifecycle, job.pc \in {"prepare", "import", "init", "quiesce", "publish"},
         NEW module \in BOOLEAN, NEW retain \in BOOLEAN, Fails(module, retain),
         module \/ job.pc \in {"prepare", "import"},
         GatesClose, \A k \in Gates : gates'[k].calls # gates[k].calls => k = job.gate /\ ~retain,
         gens' \in [Gens -> GenType],
         \A g \in Gens : gens'[g].attempted = gens[g].attempted,
         \A g \in Gens : gens'[g].life # gens[g].life => g = job.gen /\ At("init"),
         WorldTyped', excused => excused', compromised => compromised',
         cache' \in 0 .. NumGens, UNCHANGED <<registered, gateOf, router, quarantined>>
  PROVE  Lifecycle'
<1>1. Typed /\ OneBusy /\ OnlyServed /\ JobShape /\ Purpose /\ Quarantines /\ Lives
  BY DEF Lifecycle
<1>2. job \in JobType /\ restart \in BOOLEAN /\ job.gen \in Gens /\ job.gate \in 0 .. NumGates
  BY <1>1 DEF Typed, JobType, RecordsTyped, JobShape, Rising, Gens
<1>3. ~quarantined /\ ~At("idle") /\ ~At("decide") /\ job.gen # 0 /\ job.gate # 0
  BY <1>1 DEF JobShape, Quarantines, Rising, At
<1>4. CASE Restoring
  <2>1. Go("unrestore") /\ restart' = restart /\ "unrestore" \in Pcs
    BY <1>4 DEF Fails, Pcs
  <2>2. job' \in JobType /\ job'.pc = "unrestore" /\ SameErrand
    BY <1>2, <2>1, Going
  <2>3. job.pc \in {"init", "quiesce", "publish"} /\ job.old # 0 /\ job.gen = job.old
    BY <1>1, <1>4 DEF Restoring, JobShape, Purpose
  <2>4. Typed'
    BY <1>1, <2>1, <2>2 DEF Typed, RecordsTyped, GatesClose
  <2>5. OneBusy'
    BY <1>1, <2>2, <2>3 DEF OneBusy, Current, At, SameErrand
  <2>6. OnlyServed'
    BY <1>1, <1>3, <2>2 DEF OnlyServed, GatesClose, At, Typed, RecordsTyped, Gates
  <2>7. JobShape' /\ Purpose'
    BY <1>1, <1>3, <2>1, <2>2, <2>3 DEF JobShape, Purpose, Rising, At, SameErrand
  <2>8. Quarantines'
    BY <1>1, <1>3, <2>2 DEF Quarantines, Rising, At, SameErrand
  <2>9. Lives'
    BY <1>1, <1>3, <2>1, <2>2, <2>3 DEF Lives, Owner, At, SameErrand, Purpose
  <2>10. Rests'
    BY <2>2 DEF Rests, At
  <2> QED
    BY <2>4, <2>5, <2>6, <2>7, <2>8, <2>9, <2>10 DEF Lifecycle
<1>5. CASE ~Restoring
  <2> DEFINE h == IF module THEN job.gen ELSE 0
  <2>1. Tear("rollback", h, job.gate, retain) /\ h \in 0 .. NumGens
    BY <1>2, <1>5 DEF Fails, Gens
  <2>2. /\ job' \in JobType /\ job'.pc = (IF retain /\ h # 0 THEN "freeze" ELSE "close1")
        /\ job'.why = "rollback" /\ job'.gen = h /\ job'.gate = job.gate
        /\ job'.retain = retain /\ job'.current = job.current
        /\ restart' = (restart \/ (retain /\ h # 0))
    BY <1>2, <2>1, Tearing
  <2>3. job.why # "retire" /\ job.why # "unload"
    BY <1>1 DEF Purpose
  <2>3a. router = 0
    BY <1>1, <1>3, <2>3 DEF Purpose, JobShape, Typed, JobType, At
  <2>4. Typed'
    BY <1>1, <2>2 DEF Typed, RecordsTyped, GatesClose
  <2>5. OneBusy'
    BY <1>1, <2>2 DEF OneBusy, Current, At
  <2>6. OnlyServed'
    BY <1>1, <1>3, <2>2, <2>3a DEF OnlyServed, GatesClose, At
  <2>7. JobShape' /\ Purpose'
    BY <1>1, <1>3, <2>2, <2>3a DEF JobShape, Purpose, Rising, At
  <2>8. Quarantines'
    BY <1>3, <2>2 DEF Quarantines, Rising, At
  <2>9. Lives'
    BY <1>1, <1>3, <2>2, <2>3 DEF Lives, Owner, At
  <2>10. Rests'
    BY <2>2 DEF Rests, At
  <2> QED
    BY <2>4, <2>5, <2>6, <2>7, <2>8, <2>9, <2>10 DEF Lifecycle
<1> QED
  BY <1>4, <1>5

-----------------------------------------------------------------------------
(* A job takes a generation out *)

LEMMA FreezeKeeps ==
  ASSUME Lifecycle, Freeze
  PROVE  Lifecycle'
<1>1. Typed /\ OneBusy /\ OnlyServed /\ JobShape /\ Purpose /\ Quarantines /\ Lives
  BY DEF Lifecycle
<1>2. /\ At("freeze") /\ job.retain /\ job.gen # 0 /\ job.why = "rollback" /\ restart /\ router = 0
  BY <1>1 DEF Freeze, JobShape, Purpose, At
<1>3. CASE Go("close1") /\ UNCHANGED <<interrupted, compromised>>
  <2>1. job' \in JobType /\ job'.pc = "close1" /\ SameErrand
    BY <1>1, <1>3, Going DEF Typed, Pcs
  <2>2. Typed'
    BY <1>1, <1>3, <2>1 DEF Freeze, records, Typed, RecordsTyped, WorldTyped
  <2>3. OneBusy' /\ OnlyServed'
    BY <1>1, <1>2, <2>1 DEF Freeze, records, OneBusy, OnlyServed, Current, At, SameErrand
  <2>4. JobShape' /\ Purpose' /\ Quarantines'
    BY <1>1, <1>2, <1>3, <2>1
    DEF Freeze, records, JobShape, Purpose, Quarantines, Rising, At, SameErrand
  <2>5. Lives' /\ Rests'
    BY <1>1, <1>2, <2>1
    DEF Freeze, records, Lives, Owner, At, SameErrand, Rests
  <2> QED
    BY <2>2, <2>3, <2>4, <2>5 DEF Lifecycle
<1>4. CASE EndJob /\ compromised' = (compromised \/ ~interrupted)
  <2>1. job' = NoJob /\ interrupted' = FALSE /\ excused' = TRUE /\ cache' = 0
    BY <1>4 DEF Freeze, EndJob
  <2>1a. compromised' \in BOOLEAN
    BY <1>4
  <2>2. Typed'
    <3>1. RecordsTyped'
      BY <1>1, <2>1 DEF Freeze, records, Typed, RecordsTyped
    <3>2. WorldTyped'
      BY <1>1, <2>1, <2>1a DEF Freeze, Typed, WorldTyped
    <3> QED
      BY <1>1, <2>1, <3>1, <3>2, NoJobType DEF Freeze, Typed
  <2>3. OneBusy' /\ OnlyServed'
    BY <1>1, <1>2, <2>1 DEF Freeze, records, OneBusy, OnlyServed, Current, At, NoJob
  <2>4. JobShape' /\ Purpose' /\ Quarantines'
    BY <2>1 DEF JobShape, Purpose, Quarantines, Rising, At, NoJob
  <2>5. Lives' /\ Rests'
    BY <1>1, <1>2, <2>1
    DEF Freeze, records, Lives, Owner, At, NoJob, Rests, Shut, Torn
  <2> QED
    BY <2>2, <2>3, <2>4, <2>5 DEF Lifecycle
<1> QED
  BY <1>3, <1>4 DEF Freeze

LEMMA DrainedKeeps ==
  ASSUME Lifecycle, Drained
  PROVE  Lifecycle'
<1>1. Typed /\ OneBusy /\ OnlyServed /\ JobShape /\ Purpose /\ Quarantines /\ Lives
  BY DEF Lifecycle
<1>2. GatesClose /\ CallsKept /\ deferred' \in BOOLEAN
  BY <1>1, ConsumedCloses DEF Drained
<1>3. job.pc \in {"close1", "close2"} /\ ~At("idle")
  BY DEF Drained, At
<1>4. CASE interrupted
  BY <1>1, <1>2, <1>3, <1>4, QuarantinesItsOwn DEF Drained, Typed, RecordsTyped, WorldTyped
<1>5. CASE ~interrupted
  <2>1. Go(AfterDrain) /\ AfterDrain \in {"stop", "quarantine", "purge"}
    BY <1>5 DEF Drained, AfterDrain
  <2>2. job' \in JobType /\ job'.pc = AfterDrain /\ SameErrand
    BY <1>1, <2>1, Going DEF Typed, Pcs
  <2>3. /\ AfterDrain = "stop" => At("close1") /\ job.gen # 0
        /\ AfterDrain # "stop" => At("close2") \/ job.gen = 0
        /\ AfterDrain = "quarantine" => job.retain
        /\ AfterDrain = "purge" => ~job.retain
    BY <1>3 DEF AfterDrain, At
  <2>4. /\ UNCHANGED <<interrupted, excused, gens, registered, gateOf, quarantined>>
        /\ UNCHANGED <<disk, compromised, cache, restart>>
        /\ router' = IF job.why = "unload" THEN 0 ELSE router
    BY <1>5 DEF Drained
  <2>5. Typed'
    BY <1>1, <1>2, <2>2, <2>4 DEF Typed, RecordsTyped, WorldTyped, GatesClose
  <2>6. \A k \in Gates : gates[k].calls = 0
    <3>1. \A k \in Gates : gates[k].calls \in Nat /\ k # 0
      BY <1>1 DEF Typed, GateType, Gates
    <3>2. \A k \in Gates : gates[k].calls > 0 => k = job.gate
      BY <1>1, <1>3 DEF OneBusy, Current
    <3>3. ~Busy(job.gate)
      BY DEF Drained
    <3> QED
      BY <3>1, <3>2, <3>3 DEF Busy
  <2>7. OneBusy' /\ OnlyServed'
    <3>1. OneBusy'
      BY <1>2, <2>6 DEF OneBusy, CallsKept
    <3>2. \A k \in Gates : ~(gates'[k].open /\ gates'[k].known)
      BY <1>1, <1>2, <1>3, Zenon DEF OnlyServed, GatesClose
    <3>3. (router' # 0 => gates'[router'].known) /\ (quarantined' => router' = 0)
      BY <1>1, <1>2, <2>4 DEF OnlyServed, GatesClose, Typed, RecordsTyped, Gates
    <3> QED
      BY <3>1, <3>2, <3>3, Zenon DEF OnlyServed
  <2>8. JobShape' /\ Purpose' /\ Quarantines'
    BY <1>1, <1>3, <2>1, <2>2, <2>3, <2>4
    DEF JobShape, Purpose, Quarantines, Rising, At, SameErrand
  <2>9. Lives' /\ Rests'
    BY <1>1, <1>3, <2>1, <2>2, <2>3, <2>4
    DEF Lives, Owner, At, SameErrand, Rests
  <2> QED
    BY <2>5, <2>7, <2>8, <2>9 DEF Lifecycle
<1> QED
  BY <1>4, <1>5 DEF Lifecycle, Typed, WorldTyped

LEMMA GivingUpKeeps ==
  ASSUME Lifecycle, DrainTimesOut \/ PurgeFails \/ PurgeInterrupted \/ UnrestoreTimesOut
  PROVE  Lifecycle'
<1>1. Typed /\ ~At("idle")
  BY DEF Lifecycle, DrainTimesOut, PurgeFails, PurgeInterrupted, UnrestoreTimesOut, At
<1>2. GatesClose /\ CallsKept /\ deferred' \in BOOLEAN
  <2>1. CASE Consumed
    BY <1>1, <2>1, ConsumedCloses
  <2>2. CASE UNCHANGED <<gates, deferred>>
    BY <1>1, <2>2, SameGates DEF Typed, WorldTyped
  <2> QED
    BY <2>1, <2>2 DEF DrainTimesOut, PurgeFails, PurgeInterrupted, UnrestoreTimesOut
<1>3. QuarantineJob
  BY DEF DrainTimesOut, GiveUp, PurgeFails, PurgeInterrupted, UnrestoreTimesOut
<1>4. /\ disk' = disk /\ compromised' \in {compromised, TRUE}
      /\ cache' \in {cache, 0} /\ restart' \in {restart, TRUE}
  BY DEF DrainTimesOut, PurgeFails, PurgeInterrupted, UnrestoreTimesOut
<1>5. /\ disk' \in Disks /\ cache' \in 0 .. NumGens
      /\ compromised' \in BOOLEAN /\ restart' \in BOOLEAN
  <2>1. cache' \in 0 .. NumGens
    BY <1>1, <1>4 DEF Typed, RecordsTyped
  <2>2. disk' \in Disks /\ compromised' \in BOOLEAN /\ restart' \in BOOLEAN
    BY <1>1, <1>4, Zenon DEF Typed, RecordsTyped, WorldTyped
  <2> QED
    BY <2>1, <2>2
<1>6. restart => restart'
  BY <1>4
<1> QED
  BY <1>1, <1>2, <1>3, <1>5, <1>6, QuarantinesItsOwn

LEMMA QuarantinePartialKeeps ==
  ASSUME Lifecycle, QuarantinePartial
  PROVE  Lifecycle'
<1>1. Typed /\ OneBusy /\ OnlyServed /\ JobShape /\ Purpose /\ Quarantines /\ Lives
  BY DEF Lifecycle
<1>2. /\ At("quarantine") /\ ~At("idle") /\ job.retain /\ job.why = "rollback" /\ router = 0
  BY <1>1 DEF QuarantinePartial, JobShape, Purpose, At
<1>3. GatesClose /\ CallsKept
  BY <1>1, SameGates DEF QuarantinePartial
<1>4. restart' \in {restart, TRUE} /\ cache' \in {cache, 0}
  BY DEF QuarantinePartial
<1>4a. restart' \in BOOLEAN /\ cache' \in 0 .. NumGens
  <2>1. cache' \in 0 .. NumGens
    BY <1>1, <1>4 DEF Typed, RecordsTyped
  <2>2. restart' \in BOOLEAN
    BY <1>1, <1>4, Zenon DEF Typed, RecordsTyped
  <2> QED
    BY <2>1, <2>2
<1>4b. restart => restart'
  BY <1>4
<1>5. CASE QuarantineJob /\ UNCHANGED compromised
  BY <1>1, <1>2, <1>3, <1>4a, <1>4b, <1>5, QuarantinesItsOwn
  DEF QuarantinePartial, Typed, WorldTyped
<1>6. CASE job.gen = 0 /\ EndJob /\ excused' = TRUE
           /\ compromised' = (compromised \/ ~interrupted)
           /\ UNCHANGED <<gens, registered, gateOf, router, quarantined>>
  <2>1. job' = NoJob /\ interrupted' = FALSE /\ excused' = TRUE /\ cache' = 0 /\ restart' = TRUE
    BY <1>6 DEF QuarantinePartial, EndJob
  <2>1a. compromised' \in BOOLEAN
    BY <1>6
  <2>2. Typed'
    <3>1. RecordsTyped'
      BY <1>1, <1>6, <2>1 DEF Typed, RecordsTyped
    <3>2. WorldTyped'
      BY <1>1, <2>1, <2>1a DEF QuarantinePartial, Typed, WorldTyped
    <3> QED
      BY <1>1, <1>6, <2>1, <3>1, <3>2, NoJobType DEF QuarantinePartial, Typed
  <2>3. OneBusy' /\ OnlyServed'
    BY <1>1, <1>2, <1>6, <2>1 DEF QuarantinePartial, OneBusy, OnlyServed, Current, At, NoJob
  <2>4. JobShape' /\ Purpose' /\ Quarantines'
    BY <2>1 DEF JobShape, Purpose, Quarantines, Rising, At, NoJob
  <2>5. Lives' /\ Rests'
    BY <1>1, <1>2, <1>6, <2>1
    DEF Lives, Owner, At, NoJob, Rests, Shut, Torn
  <2> QED
    BY <2>2, <2>3, <2>4, <2>5 DEF Lifecycle
<1> QED
  BY <1>5, <1>6 DEF QuarantinePartial

LEMMA StopKeeps ==
  ASSUME Lifecycle, Stop
  PROVE  Lifecycle'
<1>1. Typed /\ OneBusy /\ OnlyServed /\ JobShape /\ Purpose /\ Quarantines /\ Lives
  BY DEF Lifecycle
<1>2. At("stop") /\ ~At("idle")
  <2>1. At("stop")
    BY ZenonT(60) DEF Stop
  <2> QED
    BY <2>1 DEF At
<1>3. PICK ok \in BOOLEAN, late \in BOOLEAN :
        /\ late => ~ok
        /\ LET g == job.gen  stopped == gens[g].attempted
           IN /\ stopped => ok = gens[g].completed /\ ~late
              /\ LET after == IF stopped THEN gens
                              ELSE [gens EXCEPT ![g].attempted = TRUE, ![g].completed = ok,
                                                ![g].life = "down"]
                 IN IF ok /\ ~interrupted
                    THEN /\ gens' = after /\ Go("close2")
                         /\ UNCHANGED <<interrupted, excused, registered, gateOf, router,
                                        quarantined>>
                    ELSE /\ gens' = [after EXCEPT ![g].gate = job.gate]
                         /\ Quarantine(g, job.gate) /\ EndJob /\ excused' = TRUE
        /\ gates' = IF late THEN [gates EXCEPT ![job.gate].calls = @ + 1] ELSE gates
  BY DEF Stop
<1>4. /\ gates' \in [Gates -> GateType]
      /\ \A k \in Gates : /\ gates'[k].known = gates[k].known /\ gates'[k].open = gates[k].open
                          /\ (gates'[k].calls # gates[k].calls => k = job.gate /\ late)
  <2>1. CASE late
    <3>1. gates' = [gates EXCEPT ![job.gate].calls = @ + 1] /\ job.gate \in 0 .. NumGates
      BY <1>1, <1>3, <2>1 DEF Typed, JobType
    <3> QED
      BY <1>1, <2>1, <3>1, Calling
  <2>2. CASE ~late
    BY <1>1, <1>3, <2>2 DEF Typed
  <2> QED
    BY <2>1, <2>2
<1>5. /\ gens' \in [Gens -> GenType]
      /\ \A g \in Gens : gens'[g].life = "up" => gens[g].life = "up" /\ g # job.gen
      /\ \A g \in Gens : gens'[g].attempted => gens'[g].life # "up"
  <2> DEFINE after == IF gens[job.gen].attempted THEN gens
                      ELSE [gens EXCEPT ![job.gen].attempted = TRUE, ![job.gen].completed = ok,
                                        ![job.gen].life = "down"]
  <2>1. /\ after \in [Gens -> GenType]
        /\ \A g \in Gens : after[g].life = "up" => gens[g].life = "up" /\ g # job.gen
        /\ \A g \in Gens : after[g].attempted => after[g].life # "up"
    <3>1. CASE gens[job.gen].attempted
      BY <1>1, <3>1 DEF Typed, Lives
    <3>2. CASE ~gens[job.gen].attempted
      <4> DEFINE tried == WithShutdown(gens, job.gen, TRUE, ok)
      <4>1. after = WithLife(tried, job.gen, "down") /\ gens \in [Gens -> GenType]
        BY <1>1, <3>2, Zenon DEF Typed, WithLife, WithShutdown
      <4>2. ShutdownWritten(gens, job.gen, TRUE, tried)
        BY <4>1, ShutdownSet, Zenon
      <4> HIDE DEF tried
      <4>3. LifeWritten(tried, job.gen, "down", after)
        <5>1. tried \in [Gens -> GenType]
          BY <4>2 DEF ShutdownWritten
        <5> HIDE DEF after
        <5>2. LifeWritten(tried, job.gen, "down", WithLife(tried, job.gen, "down"))
          BY <5>1, LifeSet, Zenon
        <5> QED
          BY <4>1, <5>2
      <4> HIDE DEF after
      <4> QED
        <5>1. /\ after \in [Gens -> GenType]
              /\ \A g \in Gens : g # job.gen => /\ after[g].life = gens[g].life
                                                /\ after[g].attempted = gens[g].attempted
              /\ \A g \in Gens : g = job.gen => after[g].life = "down"
          BY <4>2, <4>3, Zenon DEF ShutdownWritten, LifeWritten
        <5> QED
          BY <1>1, <5>1 DEF Lives
    <3> QED
      BY <3>1, <3>2
  <2> HIDE DEF after
  <2>2. gens' = after \/ gens' = [after EXCEPT ![job.gen].gate = job.gate]
    BY <1>3 DEF after
  <2>3. job.gate \in 0 .. NumGates
    BY <1>1 DEF Typed, JobType
  <2> QED
    BY SMTT(30), <2>1, <2>2, <2>3 DEF GenType
<1>6. CASE ok /\ ~interrupted
  <2>1. /\ Go("close2") /\ ~late
        /\ UNCHANGED <<interrupted, excused, registered, gateOf, router, quarantined>>
    BY <1>3, <1>6
  <2>2. job' \in JobType /\ job'.pc = "close2" /\ SameErrand
    BY <1>1, <2>1, Going DEF Typed, Pcs
  <2>3. Typed'
    BY <1>1, <1>4, <1>5, <2>1, <2>2 DEF Stop, Typed, RecordsTyped, WorldTyped
  <2>4. OneBusy' /\ OnlyServed'
    BY SMTT(30), <1>1, <1>2, <1>4, <2>1, <2>2
    DEF OneBusy, OnlyServed, Current, At, SameErrand, Typed, RecordsTyped, Gates
  <2>5. JobShape' /\ Purpose' /\ Quarantines'
    BY <1>1, <1>2, <2>1, <2>2 DEF Stop, JobShape, Purpose, Quarantines, Rising, At, SameErrand
  <2>6. Lives' /\ Rests'
    BY <1>1, <1>2, <1>5, <2>1, <2>2
    DEF Stop, Lives, Owner, At, SameErrand, Rests, Typed, JobType, Gens
  <2> QED
    BY <2>3, <2>4, <2>5, <2>6 DEF Lifecycle
<1>7. CASE ~(ok /\ ~interrupted)
  <2>1. Quarantine(job.gen, job.gate) /\ job' = NoJob /\ interrupted' = FALSE /\ excused' = TRUE
    BY <1>3, <1>7 DEF EndJob
  <2>2. GatesClose
    BY <1>4 DEF GatesClose
  <2>3. \A j \in Gates : gates'[j].calls > 0 => j = job.gate
    BY <1>1, <1>2, <1>4 DEF OneBusy, Current
  <2>4. \A h \in Gens : gens'[h].life = "up" => h = job.gen \/ restart'
    BY <1>1, <1>2, <1>5 DEF Stop, Lives, Owner
  <2>5. WorldTyped' /\ cache' \in 0 .. NumGens /\ restart' \in BOOLEAN
    BY <1>1, <2>1 DEF Stop, Typed, WorldTyped, RecordsTyped
  <2>6. job.gen \in 0 .. NumGens /\ job.gate \in 0 .. NumGates
    BY <1>1 DEF Typed, JobType
  <2> QED
    BY <1>2, <1>5, <2>1, <2>2, <2>3, <2>4, <2>5, <2>6, Quarantined
<1> QED
  BY <1>6, <1>7

LEMMA UnloadedKeeps ==
  ASSUME Lifecycle, Unloaded
  PROVE  Lifecycle'
<1>1. Typed /\ OneBusy /\ OnlyServed /\ JobShape /\ Purpose /\ Quarantines /\ Lives
  BY DEF Lifecycle
<1>2. /\ At("purge") /\ job.why = "unload" /\ ~restart /\ router = 0
  BY <1>1 DEF Unloaded, Purged, Purpose, At
<1>3. /\ job' = NoJob /\ cache' = 0 /\ registered' = 0 /\ gateOf' = 0
      /\ quarantined' = FALSE /\ restart' = FALSE /\ deferred' \in {deferred, FALSE}
      /\ UNCHANGED <<disk, gens, gates, router, compromised, interrupted, excused>>
  BY DEF Unloaded, Purged, Forgotten
<1>4. deferred' \in BOOLEAN
  BY <1>1, <1>3, Zenon DEF Typed, WorldTyped
<1>5. Typed'
  <2>1. /\ registered' \in 0 .. NumGens /\ gateOf' \in 0 .. NumGates
        /\ router' \in 0 .. NumGates /\ cache' \in 0 .. NumGens
    BY <1>1, <1>3 DEF Typed, RecordsTyped
  <2>2. quarantined' \in BOOLEAN /\ restart' \in BOOLEAN
    BY <1>3
  <2>3. WorldTyped'
    BY <1>1, <1>3, <1>4 DEF Typed, WorldTyped
  <2> QED
    BY <1>1, <1>3, <2>1, <2>2, <2>3, NoJobType DEF Typed, RecordsTyped
<1>6. OneBusy' /\ OnlyServed'
  BY <1>1, <1>2, <1>3 DEF OneBusy, OnlyServed, Current, At, NoJob
<1>7. JobShape' /\ Purpose' /\ Quarantines'
  BY <1>3 DEF JobShape, Purpose, Quarantines, Rising, At, NoJob
<1>8. Lives' /\ Rests'
  BY <1>1, <1>2, <1>3
  DEF Lives, Owner, At, NoJob, Rests, Absent
<1> QED
  BY <1>5, <1>6, <1>7, <1>8 DEF Lifecycle

LEMMA RolledBackKeeps ==
  ASSUME Lifecycle, RolledBack
  PROVE  Lifecycle'
<1>1. Typed /\ OneBusy /\ OnlyServed /\ JobShape /\ Purpose /\ Quarantines /\ Lives
  BY DEF Lifecycle
<1>2. /\ At("purge") /\ job.why = "rollback" /\ ~quarantined /\ ~job.retain
  BY <1>1 DEF RolledBack, Purged, Quarantines, Purpose, At
<1>3. /\ cache' = 0 /\ registered' = 0 /\ gateOf' = 0 /\ router' = 0 /\ quarantined' = FALSE
      /\ restart' \in {restart, FALSE}
      /\ UNCHANGED <<disk, gens, gates, compromised, deferred, interrupted, excused>>
  BY <1>1, <1>2, Zenon DEF RolledBack, Purged, Typed, RecordsTyped
<1>4. restart' \in BOOLEAN
  BY <1>1, <1>3, Zenon DEF Typed, RecordsTyped
<1>5. \A k \in Gates : ~(gates[k].calls > 0) /\ ~(gates[k].open /\ gates[k].known)
  BY <1>1, <1>2 DEF OneBusy, OnlyServed, At
<1>6. \A g \in Gens : gens[g].life # "up"
  BY <1>1, <1>2 DEF Lives, Owner, At, Gens
<1>6a. RecordsTyped' /\ WorldTyped'
  <2>1. /\ registered' \in 0 .. NumGens /\ gateOf' \in 0 .. NumGates
        /\ router' \in 0 .. NumGates /\ cache' \in 0 .. NumGens
    BY <1>3
  <2>2. quarantined' \in BOOLEAN
    BY <1>3
  <2>3. WorldTyped'
    BY <1>1, <1>3 DEF Typed, WorldTyped
  <2> QED
    BY <1>4, <2>1, <2>2, <2>3 DEF RecordsTyped
<1>7. CASE job.old = 0
  <2>1. job' = NoJob
    BY <1>7 DEF RolledBack
  <2>2. Typed'
    BY <1>1, <1>3, <1>6a, <2>1, NoJobType DEF Typed
  <2>3. OneBusy' /\ OnlyServed'
    BY <1>3, <1>5 DEF OneBusy, OnlyServed
  <2>4. JobShape' /\ Purpose' /\ Quarantines'
    BY <1>3, <2>1 DEF JobShape, Purpose, Quarantines, Rising, At, NoJob
  <2>5. Lives' /\ Rests'
    BY <1>1, <1>3, <1>6, <2>1
    DEF Lives, At, NoJob, Rests, Absent, Torn
  <2> QED
    BY <2>2, <2>3, <2>4, <2>5 DEF Lifecycle
<1>8. CASE job.old # 0
  <2>1. job' = [job EXCEPT !.pc = "decide", !.gen = 0, !.gate = 0]
    BY <1>8 DEF RolledBack
  <2>2. /\ job' \in JobType /\ job'.pc = "decide" /\ job'.why = "rollback"
        /\ job'.gen = 0 /\ job'.gate = 0 /\ job'.old # 0 /\ job'.current = job.current
        /\ job'.retain = FALSE
    <3>1. job \in JobType /\ "decide" \in Pcs
      BY <1>1 DEF Typed, Pcs
    <3>2. job' \in JobType
      <4>1. [job EXCEPT !.pc = "decide"] \in JobType
        BY <3>1 DEF JobType
      <4>2. 0 \in 0 .. NumGens /\ 0 \in 0 .. NumGates
        OBVIOUS
      <4>3. \A j \in JobType : [j EXCEPT !.gen = 0] \in JobType
        BY <4>2 DEF JobType
      <4>4. \A j \in JobType : [j EXCEPT !.gate = 0] \in JobType
        BY <4>2 DEF JobType
      <4>5. job' = [[[job EXCEPT !.pc = "decide"] EXCEPT !.gen = 0] EXCEPT !.gate = 0]
        BY <2>1
      <4> QED
        BY <4>1, <4>3, <4>4, <4>5
    <3> QED
      BY <1>2, <1>8, <2>1, <3>1, <3>2 DEF JobType
  <2>3. Typed'
    BY <1>1, <1>3, <1>6a, <2>2 DEF Typed
  <2>4. OneBusy' /\ OnlyServed'
    BY <1>3, <1>5 DEF OneBusy, OnlyServed
  <2>6. JobShape' /\ Purpose' /\ Quarantines'
    BY <1>1, <1>3, <2>2 DEF JobShape, Purpose, Quarantines, Rising, At
  <2>7. Lives' /\ Rests'
    BY <1>1, <1>3, <1>6, <2>2
    DEF Lives, Owner, At, Rests
  <2> QED
    BY <2>3, <2>4, <2>6, <2>7 DEF Lifecycle
<1> QED
  BY <1>7, <1>8

LEMMA RestoreUndoneKeeps ==
  ASSUME Lifecycle, RestoreUndone
  PROVE  Lifecycle'
<1>1. Typed /\ OneBusy /\ OnlyServed /\ JobShape /\ Purpose /\ Quarantines /\ Lives
  BY DEF Lifecycle
<1>2. At("purge") /\ ~At("idle") /\ job.why = "restore" /\ job.gen # 0 /\ excused
  BY <1>1 DEF RestoreUndone, Purged, Purpose, At
<1>3. /\ job.gen \in 0 .. NumGens /\ job.gate \in 0 .. NumGates
  BY <1>1 DEF Typed, JobType
<1>4. GatesClose /\ CallsKept
  BY <1>1, SameGates DEF RestoreUndone
<1>5. \A j \in Gates : gates'[j].calls > 0 => j = job.gate
  BY <1>1, <1>2, <1>4 DEF OneBusy, Current, CallsKept
<1>6. /\ gens' \in [Gens -> GenType]
      /\ \A h \in Gens : gens'[h].life = gens[h].life
      /\ \A h \in Gens : h # job.gen => gens'[h].attempted = gens[h].attempted
  <2>1. gens' = WithShutdown(gens, job.gen, TRUE, TRUE) /\ gens \in [Gens -> GenType]
    BY <1>1 DEF RestoreUndone, Typed, WithShutdown
  <2>2. ShutdownWritten(gens, job.gen, TRUE, gens')
    BY <2>1, ShutdownSet, Zenon
  <2> QED
    BY <2>2, Zenon DEF ShutdownWritten
<1>7. \A h \in Gens : gens[h].life # "up"
  BY <1>1, <1>2 DEF Lives, Owner, At
<1>8. deferred' \in BOOLEAN
  BY <1>1, Zenon DEF RestoreUndone, Typed, WorldTyped
<1>9. WorldTyped' /\ cache' = 0 /\ restart' = FALSE /\ excused'
  BY <1>1, <1>2, <1>8 DEF RestoreUndone, Purged, Typed, WorldTyped
<1>10. Quarantine(job.gen, job.gate) /\ job' = NoJob
  BY DEF RestoreUndone
<1>11. /\ \A h \in Gens : gens'[h].life = "up" => h = job.gen \/ restart'
       /\ \A h \in Gens : gens'[h].attempted => gens'[h].life # "up"
  BY <1>6, <1>7
<1>12. cache' \in 0 .. NumGens
  BY <1>9
<1>13. restart' \in BOOLEAN
  BY <1>9
<1> QED
  BY <1>2, <1>3, <1>4, <1>5, <1>6, <1>9, <1>10, <1>11, <1>12, <1>13,
     Quarantined

-----------------------------------------------------------------------------
(* A generation comes up *)

\* While one is coming up or being decided about, no callback runs, no published
\* gate is open, no command leads anywhere, and nothing is quarantined.
LEMMA RisingIsQuiet ==
  ASSUME Lifecycle, job.pc \in Rising
  PROVE  /\ ~At("idle") /\ ~quarantined /\ router = 0 /\ ~job.retain
         /\ job.why \in {"candidate", "rollback"}
         /\ \A k \in Gates : ~(gates[k].calls > 0) /\ ~(gates[k].open /\ gates[k].known)
<1>1. Typed /\ OneBusy /\ OnlyServed /\ JobShape /\ Purpose /\ Quarantines
  BY DEF Lifecycle
<1>2. ~At("idle") /\ ~quarantined /\ ~job.retain
  BY <1>1 DEF Rising, At, Quarantines, Purpose
<1>3. job.why \in {"candidate", "rollback"}
  BY <1>1, <1>2 DEF Rising, JobShape, Purpose, Typed, JobType
<1>4. router = 0
  BY <1>1, <1>3 DEF Purpose
<1>5. \A k \in Gates : ~(gates[k].calls > 0) /\ ~(gates[k].open /\ gates[k].known)
  BY <1>1, <1>2 DEF OneBusy, OnlyServed, Rising
<1> QED
  BY <1>2, <1>3, <1>4, <1>5

\* What a step leaves to show that ends at another wait of a job, all quiet.
LEMMA QuietStep ==
  ASSUME Typed', JobShape', Purpose', Lives', job'.pc # "idle", router' = 0,
         quarantined' => compromised' /\ job'.pc \notin Rising,
         \A k \in Gates : ~(gates'[k].calls > 0) /\ ~(gates'[k].open /\ gates'[k].known)
  PROVE  Lifecycle'
<1>1. OneBusy' /\ OnlyServed'
  BY DEF OneBusy, OnlyServed
<1>2. Quarantines'
  BY DEF Quarantines, At
<1>3. Rests'
  BY DEF Rests, At
<1> QED
  BY <1>1, <1>2, <1>3 DEF Lifecycle

\* The generation that is to come up; its gate is open and no commands lead there yet.
LEMMA RisingHolds ==
  ASSUME Lifecycle, job.pc \in Rising \ {"decide"}
  PROVE  job.gen \in Gens /\ job.gate \in Gates /\ job \in JobType /\ gates[job.gate].open
BY DEF Lifecycle, Typed, JobType, JobShape, Gens, Gates

LEMMA PrepareKeeps ==
  ASSUME Lifecycle, Prepare
  PROVE  Lifecycle'
<1>1. Typed /\ JobShape /\ Purpose /\ Lives
  BY DEF Lifecycle
<1>2. At("prepare") /\ job.pc \in Rising \ {"decide"}
  BY DEF Prepare, At, Rising
<1>3. /\ ~quarantined /\ router = 0
      /\ \A k \in Gates : ~(gates[k].calls > 0) /\ ~(gates[k].open /\ gates[k].known)
  BY <1>2, RisingIsQuiet
<1>4. /\ interrupted' = FALSE
      /\ UNCHANGED <<disk, compromised, gens, gates, registered, gateOf, router, quarantined,
                     cache, deferred>>
  BY DEF Prepare
<1>5. CASE ~interrupted /\ OnDisk /\ Go("import") /\ UNCHANGED <<restart, excused>>
  <2>1. job' \in JobType /\ job'.pc = "import" /\ SameErrand
    BY <1>1, <1>5, Going DEF Typed, Pcs
  <2>2. Typed'
    BY <1>1, <1>4, <1>5, <2>1 DEF Typed, RecordsTyped, WorldTyped
  <2>3. JobShape' /\ Purpose'
    BY <1>1, <1>2, <1>4, <1>5, <2>1 DEF JobShape, Purpose, Rising, At, SameErrand
  <2>4. Lives'
    BY <1>1, <1>2, <1>4, <1>5, <2>1 DEF Lives, Owner, At, SameErrand
  <2> QED
    BY <1>3, <1>4, <2>1, <2>2, <2>3, <2>4, QuietStep
<1>6. CASE \E retain \in BOOLEAN :
             Fails(FALSE, retain) /\ excused' \in BOOLEAN /\ (excused => excused')
  <2>1. GatesClose /\ CallsKept /\ LivesKept
    BY <1>1, <1>4, SameGates, SameGens
  <2>2. WorldTyped'
    BY <1>1, <1>4, <1>6 DEF Typed, WorldTyped
  <2>3. cache' \in 0 .. NumGens
    BY <1>1, <1>4 DEF Typed, RecordsTyped
  <2>4. job.pc \in {"prepare", "import"} /\ FALSE \in BOOLEAN
    BY <1>2 DEF At
  <2> QED
    BY <1>4, <1>6, <2>1, <2>2, <2>3, <2>4, Failing DEF CallsKept, LivesKept
<1>7. excused' \in {excused, TRUE, excused \/ interrupted} /\ excused \in BOOLEAN
  BY <1>1 DEF Prepare, Typed, WorldTyped
<1>8. excused' \in BOOLEAN /\ (excused => excused')
  BY <1>7
<1> QED
  BY <1>5, <1>6, <1>8 DEF Prepare

LEMMA ImportKeeps ==
  ASSUME Lifecycle, Import
  PROVE  Lifecycle'
<1>1. Typed /\ JobShape /\ Purpose /\ Lives
  BY DEF Lifecycle
<1>2. At("import") /\ job.pc \in Rising \ {"decide"} /\ job.pc \in {"prepare", "import"}
  BY DEF Import, At, Rising
<1>3. /\ ~quarantined /\ router = 0
      /\ \A k \in Gates : ~(gates[k].calls > 0) /\ ~(gates[k].open /\ gates[k].known)
  BY <1>2, RisingIsQuiet
<1>4. UNCHANGED <<disk, compromised, gens, gates, registered, gateOf, router, quarantined,
                  deferred, interrupted>>
  BY DEF Import
<1>5. CASE Go("init") /\ cache' = job.gen /\ UNCHANGED <<restart, excused>>
  <2>1. job' \in JobType /\ job'.pc = "init" /\ SameErrand
    BY <1>1, <1>5, Going DEF Typed, Pcs
  <2>2. job.gen \in 0 .. NumGens
    BY <1>1 DEF Typed, JobType
  <2>3. Typed'
    BY <1>1, <1>4, <1>5, <2>1, <2>2 DEF Typed, RecordsTyped, WorldTyped
  <2>4. JobShape' /\ Purpose'
    BY <1>1, <1>2, <1>4, <1>5, <2>1 DEF JobShape, Purpose, Rising, At, SameErrand
  <2>5. Lives'
    BY <1>1, <1>2, <1>4, <1>5, <2>1 DEF Lives, Owner, At, SameErrand
  <2> QED
    BY <1>3, <1>4, <2>1, <2>3, <2>4, <2>5, QuietStep
<1>6. CASE \E module, retain \in BOOLEAN :
             Fails(module, retain) /\ cache' \in {cache, job.gen} /\ excused' \in {excused, TRUE}
  <2>1. PICK module \in BOOLEAN, retain \in BOOLEAN : Fails(module, retain)
    BY <1>6
  <2>2. GatesClose /\ CallsKept /\ LivesKept
    BY <1>1, <1>4, SameGates, SameGens
  <2>3. excused \in BOOLEAN
    BY <1>1 DEF Typed, WorldTyped
  <2>4. excused' \in BOOLEAN /\ (excused => excused')
    <3>1. CASE excused' = excused
      BY <2>3, <3>1
    <3>2. CASE excused' = TRUE
      BY <3>2
    <3> QED
      BY <1>6, <3>1, <3>2, Zenon
  <2>5. WorldTyped'
    BY <1>1, <1>4, <2>4 DEF Typed, WorldTyped
  <2>6. cache' \in 0 .. NumGens
    BY <1>1, <1>6 DEF Typed, RecordsTyped, JobType
  <2> QED
    BY <1>2, <1>4, <2>1, <2>2, <2>4, <2>5, <2>6, Failing DEF CallsKept, LivesKept
<1>7. FALSE \in BOOLEAN /\ TRUE \in BOOLEAN
  OBVIOUS
<1> QED
  BY <1>5, <1>6, <1>7, Zenon DEF Import

LEMMA InitRunsKeeps ==
  ASSUME Lifecycle, InitRuns
  PROVE  Lifecycle'
<1>1. Typed /\ JobShape /\ Purpose /\ Lives
  BY DEF Lifecycle
<1>2. At("init") /\ job.pc \in Rising \ {"decide"}
  BY DEF InitRuns, At, Rising
<1>3. /\ ~quarantined /\ router = 0
      /\ \A k \in Gates : ~(gates[k].calls > 0) /\ ~(gates[k].open /\ gates[k].known)
  BY <1>2, RisingIsQuiet
<1>4. PICK ok \in BOOLEAN, late \in BOOLEAN :
        /\ ok => ~interrupted /\ ~late
        /\ IF ok THEN Go("check") /\ UNCHANGED <<restart, excused>>
           ELSE Fails(TRUE, FALSE) /\ excused' = (excused \/ interrupted \/ late \/ Restoring)
        /\ gates' = IF late THEN [gates EXCEPT ![job.gate].calls = @ + 1] ELSE gates
  BY DEF InitRuns
<1>5. /\ interrupted' = FALSE
      /\ UNCHANGED <<disk, compromised, registered, gateOf, router, quarantined, cache, deferred>>
  BY DEF InitRuns
<1>6. /\ gens' \in [Gens -> GenType]
      /\ \A g \in Gens : gens'[g].attempted = gens[g].attempted
      /\ \A g \in Gens : gens'[g].life = IF g = job.gen THEN "up" ELSE gens[g].life
  <2>1. gens' = WithLife(gens, job.gen, "up") /\ gens \in [Gens -> GenType]
    BY <1>1 DEF InitRuns, Typed, WithLife
  <2>2. LifeWritten(gens, job.gen, "up", gens')
    BY <2>1, LifeSet, Zenon
  <2> QED
    BY <2>2, Zenon DEF LifeWritten
<1>7. job.gen \in Gens /\ ~gens[job.gen].attempted
  BY <1>1, <1>2, RisingHolds DEF Lives, At
<1>8. CASE ok
  <2>1. ~late /\ Go("check") /\ UNCHANGED <<restart, excused>> /\ gates' = gates
    BY <1>4, <1>8
  <2>2. job' \in JobType /\ job'.pc = "check" /\ SameErrand
    BY <1>1, <2>1, Going DEF Typed, Pcs
  <2>3. Typed'
    BY <1>1, <1>5, <1>6, <2>1, <2>2 DEF Typed, RecordsTyped, WorldTyped
  <2>4. JobShape' /\ Purpose'
    BY <1>1, <1>2, <1>5, <2>1, <2>2 DEF JobShape, Purpose, Rising, At, SameErrand
  <2>5. Lives'
    BY <1>1, <1>2, <1>6, <1>7, <2>1, <2>2 DEF Lives, Owner, At, SameErrand, JobShape, Purpose
  <2> QED
    BY <1>3, <1>5, <2>1, <2>2, <2>3, <2>4, <2>5, QuietStep
<1>9. CASE ~ok
  <2>1. Fails(TRUE, FALSE) /\ excused' = (excused \/ interrupted \/ late \/ Restoring)
    BY <1>4, <1>9
  <2>2. /\ gates' \in [Gates -> GateType]
        /\ \A k \in Gates : /\ gates'[k].known = gates[k].known /\ gates'[k].open = gates[k].open
                            /\ (gates'[k].calls # gates[k].calls => k = job.gate)
    <3>1. CASE late
      <4>1. gates' = [gates EXCEPT ![job.gate].calls = @ + 1] /\ job.gate \in 0 .. NumGates
        BY <1>1, <1>4, <3>1 DEF Typed, JobType
      <4> QED
        BY <1>1, <4>1, Calling
    <3>2. CASE ~late
      BY <1>1, <1>4, <3>2 DEF Typed
    <3> QED
      BY <3>1, <3>2
  <2>3. GatesClose
    BY <2>2 DEF GatesClose
  <2>4. excused' \in BOOLEAN /\ (excused => excused')
    BY <2>1
  <2>5. WorldTyped'
    BY <1>1, <1>5, <2>4 DEF Typed, WorldTyped
  <2>6. cache' \in 0 .. NumGens
    BY <1>1, <1>5 DEF Typed, RecordsTyped
  <2>7. job.pc \in {"prepare", "import", "init", "quiesce", "publish"}
    BY <1>2 DEF At
  <2>8. TRUE \in BOOLEAN /\ FALSE \in BOOLEAN
    OBVIOUS
  <2> QED
    BY <1>2, <1>5, <1>6, <2>1, <2>2, <2>3, <2>4, <2>5, <2>6, <2>7, <2>8, Failing
<1> QED
  BY <1>8, <1>9

LEMMA CheckKeeps ==
  ASSUME Lifecycle, Check
  PROVE  Lifecycle'
<1>1. Typed /\ JobShape /\ Purpose /\ Lives
  BY DEF Lifecycle
<1>2. At("check") /\ job.pc \in Rising \ {"decide"}
  BY DEF Check, At, Rising
<1>3. /\ ~quarantined /\ router = 0
      /\ \A k \in Gates : ~(gates[k].calls > 0) /\ ~(gates[k].open /\ gates[k].known)
      /\ ~job.retain
  BY <1>2, RisingIsQuiet
<1>4. job.gen \in Gens /\ job.gate \in Gates /\ job \in JobType
  BY <1>2, RisingHolds
<1>5. /\ interrupted' = FALSE
      /\ UNCHANGED <<disk, compromised, gates, registered, router, quarantined, cache, deferred,
                     restart>>
  BY DEF Check
<1> DEFINE answer == IF Restoring THEN job.current ELSE IF OnDisk THEN "yes" ELSE "no"
<1>6. answer \in {"unknown", "yes", "no", "error"} /\ (answer = "error" => excused)
  BY <1>1, <1>4 DEF JobType, JobShape
<1>7. \/ /\ job' = [job EXCEPT !.pc = "quiesce", !.current = answer]
         /\ gateOf' = job.gate
         /\ gens' = [gens EXCEPT ![job.gen].gate = job.gate]
         /\ excused' = excused
      \/ /\ \E a \in {answer, "error"} :
              IF Restoring THEN Go("unrestore")
              ELSE job' = [job EXCEPT !.pc = "close1", !.why = "rollback", !.current = a]
         /\ excused' = TRUE /\ UNCHANGED <<gateOf, gens>>
  BY DEF Check
<1> HIDE DEF answer
<1>8. CASE /\ job' = [job EXCEPT !.pc = "quiesce", !.current = answer]
           /\ gateOf' = job.gate
           /\ gens' = [gens EXCEPT ![job.gen].gate = job.gate]
           /\ excused' = excused
  <2>1. /\ job' \in JobType /\ job'.pc = "quiesce" /\ job'.why = job.why /\ job'.gen = job.gen
        /\ job'.gate = job.gate /\ job'.retain = job.retain /\ job'.old = job.old
        /\ job'.oldGate = job.oldGate /\ job'.current = answer
    <3>1. "quiesce" \in Pcs
      BY DEF Pcs
    <3> QED
      BY <1>4, <1>6, <1>8, <3>1 DEF JobType
  <2>2. gateOf' \in 0 .. NumGates /\ job.gate \in 0 .. NumGates
    BY <1>4, <1>8 DEF Gates
  <2>3. /\ gens' \in [Gens -> GenType]
        /\ \A g \in Gens : gens'[g].life = gens[g].life /\ gens'[g].attempted = gens[g].attempted
    <3>1. gens' = WithGate(gens, job.gen, job.gate) /\ gens \in [Gens -> GenType]
      BY <1>1, <1>8 DEF Typed, WithGate
    <3>2. GateWritten(gens, job.gen, job.gate, gens')
      BY <2>2, <3>1, GateSet, Zenon
    <3> QED
      BY <3>2, Zenon DEF GateWritten
  <2>4. Typed'
    BY <1>1, <1>5, <1>8, <2>1, <2>2, <2>3 DEF Typed, RecordsTyped, WorldTyped
  <2>5. JobShape' /\ Purpose'
    BY <1>1, <1>2, <1>5, <1>6, <1>8, <2>1 DEF JobShape, Purpose, Rising, At
  <2>6. Lives'
    BY <1>1, <1>2, <1>4, <1>5, <2>1, <2>3 DEF Lives, Owner, At, Purpose
  <2> QED
    BY <1>3, <1>5, <2>1, <2>4, <2>5, <2>6, QuietStep
<1>9. CASE Restoring /\ Go("unrestore") /\ excused' = TRUE /\ UNCHANGED <<gateOf, gens>>
  <2>1. job' \in JobType /\ job'.pc = "unrestore" /\ SameErrand
    BY <1>4, <1>9, Going DEF Pcs
  <2>2. Typed'
    BY <1>1, <1>5, <1>9, <2>1 DEF Typed, RecordsTyped, WorldTyped
  <2>3. JobShape' /\ Purpose'
    BY <1>1, <1>2, <1>3, <1>5, <1>9, <2>1
    DEF JobShape, Purpose, Rising, At, SameErrand, Restoring
  <2>4. Lives'
    BY <1>1, <1>2, <1>5, <1>9, <2>1 DEF Lives, Owner, At, SameErrand, Purpose
  <2> QED
    BY <1>3, <1>5, <2>1, <2>2, <2>3, <2>4, QuietStep
<1>10. CASE /\ \E a \in {answer, "error"} :
                 job' = [job EXCEPT !.pc = "close1", !.why = "rollback", !.current = a]
            /\ excused' = TRUE /\ UNCHANGED <<gateOf, gens>>
  <2>1. /\ job' \in JobType /\ job'.pc = "close1" /\ job'.why = "rollback" /\ job'.gen = job.gen
        /\ job'.gate = job.gate /\ job'.retain = job.retain /\ job'.old = job.old
        /\ job'.oldGate = job.oldGate
    <3>1. "close1" \in Pcs
      BY DEF Pcs
    <3>2. PICK a \in {"unknown", "yes", "no", "error"} :
            job' = [job EXCEPT !.pc = "close1", !.why = "rollback", !.current = a]
      BY <1>6, <1>10
    <3> QED
      BY <1>4, <3>1, <3>2 DEF JobType
  <2>2. Typed'
    BY <1>1, <1>5, <1>10, <2>1 DEF Typed, RecordsTyped, WorldTyped
  <2>3. JobShape' /\ Purpose'
    BY <1>1, <1>2, <1>3, <1>5, <1>10, <2>1 DEF JobShape, Purpose, Rising, At
  <2>4. Lives'
    BY <1>1, <1>2, <1>5, <1>10, <2>1 DEF Lives, Owner, At, Purpose
  <2> QED
    BY <1>3, <1>5, <2>1, <2>2, <2>3, <2>4, QuietStep
<1> QED
  BY <1>7, <1>8, <1>9, <1>10

LEMMA QuiesceKeeps ==
  ASSUME Lifecycle, Quiesce
  PROVE  Lifecycle'
<1>1. Typed /\ JobShape /\ Purpose /\ Lives
  BY DEF Lifecycle
<1>2. At("quiesce") /\ job.pc \in Rising \ {"decide"}
  BY DEF Quiesce, At, Rising
<1>3. /\ ~quarantined /\ router = 0
      /\ \A k \in Gates : ~(gates[k].calls > 0) /\ ~(gates[k].open /\ gates[k].known)
  BY <1>2, RisingIsQuiet
<1>4. UNCHANGED <<disk, compromised, gens, gates, registered, gateOf, router, quarantined, restart,
                  cache, deferred, interrupted, excused>>
  BY DEF Quiesce, records
<1>5. job' \in JobType /\ job'.pc = "publish" /\ SameErrand
  BY <1>1, Going DEF Quiesce, Typed, Pcs
<1>6. Typed'
  BY <1>1, <1>4, <1>5 DEF Typed, RecordsTyped, WorldTyped
<1>7. JobShape' /\ Purpose'
  BY <1>1, <1>2, <1>4, <1>5 DEF JobShape, Purpose, Rising, At, SameErrand
<1>8. Lives'
  BY <1>1, <1>2, <1>4, <1>5 DEF Lives, Owner, At, SameErrand
<1> QED
  BY <1>3, <1>4, <1>5, <1>6, <1>7, <1>8, QuietStep

LEMMA QuiesceFailsKeeps ==
  ASSUME Lifecycle, QuiesceFails
  PROVE  Lifecycle'
<1>1. Typed /\ JobShape /\ Purpose /\ Lives
  BY DEF Lifecycle
<1>2. At("quiesce") /\ job.pc \in Rising \ {"decide"}
  BY DEF QuiesceFails, At, Rising
<1>3. /\ ~job.retain
      /\ \A k \in Gates : ~(gates[k].calls > 0) /\ ~(gates[k].open /\ gates[k].known)
  BY <1>2, RisingIsQuiet
<1>4. job.gen # 0 /\ job.gate # 0 /\ job \in JobType
  BY <1>2, RisingHolds DEF Gens, Gates
<1>5. /\ quarantined' = TRUE /\ restart' = TRUE /\ router' = 0 /\ cache' = 0
      /\ excused' = TRUE /\ compromised' = TRUE /\ gates' = Closed(gateOf)
      /\ UNCHANGED <<disk, gens, registered, gateOf, deferred, interrupted>>
  BY DEF QuiesceFails
<1>6. GatesClose /\ CallsKept
  BY <1>1, <1>5, ClosedCloses DEF Typed, RecordsTyped
<1>7. \A k \in Gates : ~(gates'[k].calls > 0) /\ ~(gates'[k].open /\ gates'[k].known)
  BY <1>3, <1>6 DEF GatesClose, CallsKept
<1>8. RecordsTyped' /\ WorldTyped'
  <2>1. /\ registered' \in 0 .. NumGens /\ gateOf' \in 0 .. NumGates
        /\ router' \in 0 .. NumGates /\ cache' \in 0 .. NumGens
    BY <1>1, <1>5 DEF Typed, RecordsTyped
  <2>2. quarantined' \in BOOLEAN /\ restart' \in BOOLEAN
    BY <1>5
  <2>3. compromised' \in BOOLEAN /\ excused' \in BOOLEAN
    BY <1>5
  <2>4. WorldTyped'
    BY <1>1, <1>5, <2>3 DEF Typed, WorldTyped
  <2> QED
    BY <2>1, <2>2, <2>4 DEF RecordsTyped
<1>9. /\ job' \in JobType /\ job'.gen = job.gen /\ job'.gate = job.gate /\ job'.old = job.old
      /\ \/ job'.pc = "unrestore" /\ job'.why = job.why /\ ~job'.retain /\ Restoring
         \/ job'.pc = "freeze" /\ job'.why = "rollback" /\ job'.retain
  <2>1. "unrestore" \in Pcs /\ "freeze" \in Pcs
    BY DEF Pcs
  <2>2. CASE Restoring
    BY <1>3, <1>4, <2>1, <2>2 DEF QuiesceFails, JobType
  <2>3. CASE ~Restoring
    <3>1. job' = [job EXCEPT !.pc = "freeze", !.why = "rollback", !.retain = TRUE]
      BY <2>3 DEF QuiesceFails
    <3> QED
      BY <1>4, <2>1, <3>1 DEF JobType
  <2> QED
    BY <2>2, <2>3
<1>10. Typed'
  BY <1>1, <1>5, <1>6, <1>8, <1>9 DEF Typed, GatesClose
<1>11. JobShape' /\ Purpose'
  BY <1>1, <1>2, <1>4, <1>5, <1>9 DEF JobShape, Purpose, Rising, At, Restoring
<1>12. Lives'
  BY <1>1, <1>2, <1>5, <1>9 DEF Lives, Owner, At, Purpose
<1> QED
  BY <1>5, <1>7, <1>9, <1>10, <1>11, <1>12, QuietStep DEF Rising

LEMMA PublishKeeps ==
  ASSUME Lifecycle, Publish
  PROVE  Lifecycle'
<1>1. Typed /\ JobShape /\ Purpose /\ Lives
  BY DEF Lifecycle
<1>2. At("publish") /\ job.pc \in Rising \ {"decide"}
  BY DEF Publish, At, Rising
<1>3. \A k \in Gates : ~(gates[k].calls > 0) /\ ~(gates[k].open /\ gates[k].known)
  BY <1>2, RisingIsQuiet
<1>4. job.gen \in Gens /\ job.gate \in Gates /\ gates[job.gate].open
  BY <1>2, RisingHolds
<1>4a. job.gen # 0 /\ job.gate # 0 /\ job.gen \in 0 .. NumGens /\ job.gate \in 0 .. NumGates
  BY <1>4 DEF Gens, Gates
<1>5. /\ registered' = job.gen /\ gateOf' = job.gate /\ router' = job.gate
      /\ quarantined' = FALSE /\ restart' = FALSE /\ job' = NoJob
      /\ gens' = [gens EXCEPT ![job.gen].gate = job.gate, ![job.gen].attempted = FALSE,
                              ![job.gen].completed = FALSE]
      /\ gates' = [gates EXCEPT ![job.gate].known = TRUE]
      /\ deferred' = (deferred /\ ~Restoring)
      /\ UNCHANGED <<disk, compromised, cache, interrupted, excused>>
  BY DEF Publish
<1>6. cache = job.gen /\ gens[job.gen].life = "up"
  BY <1>1, <1>2 DEF JobShape, Lives, At
<1>7. /\ gates' \in [Gates -> GateType]
      /\ \A k \in Gates : gates'[k].calls = gates[k].calls /\ gates'[k].open = gates[k].open
      /\ \A k \in Gates : gates'[k].known <=> (gates[k].known \/ k = job.gate)
  BY <1>1, <1>4, <1>5 DEF Typed, GateType
<1>8. /\ gens' \in [Gens -> GenType]
      /\ \A g \in Gens : gens'[g].life = gens[g].life
      /\ \A g \in Gens : g # job.gen => gens'[g].attempted = gens[g].attempted
      /\ gens'[job.gen].gate = job.gate /\ gens'[job.gen].attempted = FALSE
  <2> DEFINE gated == WithGate(gens, job.gen, job.gate)
  <2>1. /\ gens' = WithShutdown(gated, job.gen, FALSE, FALSE)
        /\ gens \in [Gens -> GenType]
    BY <1>1, <1>5 DEF Typed, WithGate, WithShutdown
  <2>2. GateWritten(gens, job.gen, job.gate, gated)
    BY <1>4a, <2>1, GateSet, Zenon
  <2> HIDE DEF gated
  <2>3. gated \in [Gens -> GenType]
    BY <2>2 DEF GateWritten
  <2>4. ShutdownWritten(gated, job.gen, FALSE, gens')
    BY <2>1, <2>3, ShutdownSet, Zenon
  <2> QED
    BY <1>4, <2>2, <2>4, Zenon DEF GateWritten, ShutdownWritten
<1>9. Typed'
  <2>1. registered' \in 0 .. NumGens /\ gateOf' \in 0 .. NumGates /\ router' \in 0 .. NumGates
    BY <1>4a, <1>5
  <2>2. quarantined' \in BOOLEAN /\ restart' \in BOOLEAN /\ deferred' \in BOOLEAN
    BY <1>5
  <2>3. RecordsTyped'
    BY <1>1, <1>5, <2>1, <2>2 DEF Typed, RecordsTyped
  <2>4. WorldTyped'
    BY <1>1, <1>5, <2>2 DEF Typed, WorldTyped
  <2> QED
    BY <1>5, <1>7, <1>8, <2>3, <2>4, NoJobType DEF Typed
<1>10. OneBusy'
  BY <1>3, <1>7 DEF OneBusy
<1>11. OnlyServed'
  BY <1>3, <1>4, <1>4a, <1>5, <1>6, <1>7, <1>8 DEF OnlyServed, At, NoJob
<1>12. JobShape' /\ Purpose'
  BY <1>5 DEF JobShape, Purpose, Rising, At, NoJob
<1>13. Quarantines'
  BY SMTT(30), <1>5, <1>6 DEF Quarantines, Rising, At, NoJob
<1>14. Lives'
  BY <1>1, <1>2, <1>4, <1>5, <1>6, <1>8 DEF Lives, Owner, At, NoJob, Purpose
<1>15. Rests'
  BY <1>4, <1>4a, <1>5, <1>6, <1>7, <1>8
  DEF Rests, Serves, InService
<1> QED
  BY <1>9, <1>10, <1>11, <1>12, <1>13, <1>14, <1>15 DEF Lifecycle

\* A candidate that is not published, with whatever it closes on the way.
LEMMA NotPublishedKeeps ==
  ASSUME Lifecycle, QuiesceInterrupted \/ Conflict \/ Refuse
  PROVE  Lifecycle'
<1>1. Typed
  BY DEF Lifecycle
<1>2. job.pc \in {"prepare", "import", "init", "quiesce", "publish"}
  BY DEF QuiesceInterrupted, Conflict, Refuse, At
<1>3. UNCHANGED <<disk, compromised, gens, registered, gateOf, router, quarantined, deferred>>
  BY DEF QuiesceInterrupted, Conflict, Refuse, Abort
<1>4. \E retain \in BOOLEAN : Fails(TRUE, retain)
  <2>1. TRUE \in BOOLEAN /\ FALSE \in BOOLEAN
    OBVIOUS
  <2> QED
    BY <2>1, Zenon DEF QuiesceInterrupted, Conflict, Refuse
<1>5. PICK retain \in BOOLEAN : Fails(TRUE, retain)
  BY <1>4
<1>6. GatesClose /\ CallsKept
  <2>1. CASE UNCHANGED gates
    BY <1>1, <2>1, SameGates
  <2>2. CASE gates' = Closed(job.gate)
    BY <1>1, <2>2, ClosedCloses DEF Typed, JobType
  <2> QED
    BY <2>1, <2>2 DEF QuiesceInterrupted, Conflict, Refuse, Abort
<1>7. LivesKept
  BY <1>1, <1>3, SameGens
<1>8. interrupted' \in BOOLEAN /\ excused' \in BOOLEAN /\ (excused => excused')
  BY <1>1, Zenon DEF QuiesceInterrupted, Conflict, Refuse, Typed, WorldTyped
<1>9. WorldTyped'
  BY <1>1, <1>3, <1>8 DEF Typed, WorldTyped
<1>10. cache' \in 0 .. NumGens
  <2>1. cache' \in {cache, 0}
    BY DEF QuiesceInterrupted, Conflict, Refuse
  <2> QED
    BY <1>1, <2>1 DEF Typed, RecordsTyped
<1>11. TRUE \in BOOLEAN
  OBVIOUS
<1> QED
  BY <1>2, <1>3, <1>5, <1>6, <1>7, <1>8, <1>9, <1>10, <1>11, Failing DEF CallsKept, LivesKept

-----------------------------------------------------------------------------
(* The candidate is gone *)

LEMMA DecideHolds ==
  ASSUME Lifecycle, At("decide")
  PROVE  /\ job.old \in Gens /\ job.oldGate \in 0 .. NumGates /\ job \in JobType
         /\ registered = 0 /\ gateOf = 0 /\ router = 0 /\ job.gen = 0 /\ job.gate = 0
         /\ job.why = "rollback" /\ ~job.retain
         /\ \A g \in Gens : gens[g].life # "up"
<1>1. Typed /\ JobShape /\ Purpose /\ Lives
  BY DEF Lifecycle
<1>2. job.gen = 0 /\ job.why = "rollback" /\ ~job.retain
  BY <1>1 DEF JobShape, Purpose, At
<1>3. \A g \in Gens : gens[g].life # "up"
  BY <1>1, <1>2 DEF Lives, Owner, At, Gens
<1> QED
  BY <1>1, <1>2, <1>3 DEF Typed, JobType, JobShape, At, Gens

\* Giving the old generation up: it is retained, and its shutdown counts as done.
LEMMA Retained ==
  ASSUME Typed, NEW k \in 0 .. NumGates, job.old \in Gens, Retain(k)
  PROVE  /\ gens' \in [Gens -> GenType]
         /\ \A h \in Gens : gens'[h].life = gens[h].life
<1> DEFINE kept == WithGate(gens, job.old, k)
<1>1. gens' = WithShutdown(kept, job.old, TRUE, TRUE) /\ gens \in [Gens -> GenType]
  BY DEF Retain, Typed, WithGate, WithShutdown
<1>2. GateWritten(gens, job.old, k, kept)
  BY <1>1, GateSet, Zenon
<1> HIDE DEF kept
<1>3. kept \in [Gens -> GenType]
  BY <1>2 DEF GateWritten
<1>4. ShutdownWritten(kept, job.old, TRUE, gens')
  BY <1>1, <1>3, ShutdownSet, Zenon
<1> QED
  BY <1>2, <1>4, Zenon DEF GateWritten, ShutdownWritten

LEMMA GiveOldUpKeeps ==
  ASSUME Lifecycle, GiveOldUp
  PROVE  Lifecycle'
<1>1. Typed /\ OneBusy /\ JobShape
  BY DEF Lifecycle
<1>2. At("decide") /\ ~At("idle") /\ job.pc \in Rising
  BY DEF GiveOldUp, At, Rising
<1>3. /\ job.old \in Gens /\ job.oldGate \in 0 .. NumGates /\ job \in JobType
      /\ \A g \in Gens : gens[g].life # "up"
  BY <1>2, DecideHolds
<1>4. /\ Retain(job.oldGate) /\ job' = NoJob /\ interrupted' = FALSE
      /\ deferred' \in {deferred, FALSE}
      /\ UNCHANGED <<disk, compromised, gates, restart, cache>>
  BY DEF GiveOldUp, EndJob
<1>5. /\ gens' \in [Gens -> GenType]
      /\ \A h \in Gens : gens'[h].life = gens[h].life
  BY <1>1, <1>3, <1>4, Retained
<1>6. excused'
  <2>1. CASE /\ job.changed \/ ~Authorized
             /\ excused' = (excused \/ job.changed \/ job.current = "no" \/ ~OnDisk \/ interrupted)
    <3>1. job.current \in {"unknown", "yes", "no", "error"} /\ (job.current = "error" => excused)
      BY <1>1, <1>3 DEF JobType, JobShape
    <3> QED
      BY <2>1, <3>1 DEF Authorized
  <2>2. CASE job.current = "unknown" /\ excused' = TRUE
    BY <2>2
  <2> QED
    BY <2>1, <2>2 DEF GiveOldUp
<1>6a. excused' \in BOOLEAN
  BY <1>1 DEF GiveOldUp
<1>7. deferred' \in BOOLEAN
  BY <1>1, <1>4, Zenon DEF Typed, WorldTyped
<1>8. WorldTyped'
  BY <1>1, <1>4, <1>6a, <1>7 DEF Typed, WorldTyped
<1>9. cache' \in 0 .. NumGens /\ restart' \in BOOLEAN
  BY <1>1, <1>4 DEF Typed, RecordsTyped
<1>10. GatesClose /\ CallsKept
  BY <1>1, <1>4, SameGates
<1>11. \A j \in Gates : gates'[j].calls > 0 => j = job.oldGate
  BY <1>2, <1>10, RisingIsQuiet DEF CallsKept
<1>12. job.old \in 0 .. NumGens /\ Quarantine(job.old, job.oldGate)
  BY <1>3, <1>4 DEF Gens, Retain
<1> QED
  BY <1>2, <1>3, <1>4, <1>5, <1>6, <1>8, <1>9, <1>10, <1>11, <1>12, Quarantined

LEMMA RestoreCollidesKeeps ==
  ASSUME Lifecycle, RestoreCollides
  PROVE  Lifecycle'
<1>1. Typed /\ OneBusy /\ JobShape /\ Purpose /\ Lives
  BY DEF Lifecycle
<1>2. job.pc \in {"decide", "remodule"} /\ ~At("idle") /\ job.pc \in Rising
  BY DEF RestoreCollides, At, Rising
<1>3. job.old \in Gens /\ job.oldGate \in 0 .. NumGates /\ job.gate \in 0 .. NumGates
  BY <1>1, <1>2 DEF JobShape, Typed, JobType, Gens
<1>4. \A g \in Gens : gens[g].life # "up"
  <2>1. CASE At("decide")
    BY <2>1, DecideHolds
  <2>2. CASE At("remodule")
    BY <1>1, <2>2 DEF Lives, Owner, At, Purpose, JobShape
  <2> QED
    BY <1>2, <2>1, <2>2 DEF At
<1>5. /\ Retain(job.oldGate) /\ job' = NoJob /\ interrupted' = FALSE /\ restart' = TRUE
      /\ excused' = TRUE /\ deferred' \in {deferred, FALSE}
      /\ gates' = IF At("decide") THEN gates ELSE Closed(job.gate)
      /\ UNCHANGED <<disk, compromised, cache>>
  BY DEF RestoreCollides, EndJob
<1>6. /\ gens' \in [Gens -> GenType]
      /\ \A h \in Gens : gens'[h].life = gens[h].life
  BY <1>1, <1>3, <1>5, Retained
<1>7. deferred' \in BOOLEAN
  BY <1>1, <1>5, Zenon DEF Typed, WorldTyped
<1>7a. interrupted' \in BOOLEAN /\ excused' \in BOOLEAN /\ restart' \in BOOLEAN
  BY <1>5
<1>8. WorldTyped'
  BY <1>1, <1>5, <1>7, <1>7a DEF Typed, WorldTyped
<1>9. cache' \in 0 .. NumGens
  BY <1>1, <1>5 DEF Typed, RecordsTyped
<1>10. GatesClose /\ CallsKept
  BY <1>1, <1>3, <1>5, SameGates, ClosedCloses
<1>11. \A j \in Gates : gates'[j].calls > 0 => j = job.oldGate
  BY <1>2, <1>10, RisingIsQuiet DEF CallsKept
<1>12. job.old \in 0 .. NumGens /\ Quarantine(job.old, job.oldGate)
  BY <1>3, <1>5 DEF Gens, Retain
<1> QED
  BY <1>2, <1>3, <1>4, <1>5, <1>6, <1>7a, <1>8, <1>9, <1>10, <1>11, <1>12, Quarantined

\* Two gates that nothing uses are left for a restore.
LEMMA GatesToRestore ==
  ASSUME Lifecycle, At("decide")
  PROVE  LET staging == Least(FreeGates)
             recovery == Least(FreeGates \ {staging})
         IN /\ staging \in Gates /\ recovery \in Gates /\ recovery # staging
            /\ staging \in 0 .. NumGates /\ recovery \in 0 .. NumGates
<1>1. FreeGates \subseteq Nat /\ FreeGates \subseteq Gates
  BY DEF FreeGates, Gates
<1>2. Gates \ {job.oldGate} \subseteq FreeGates
  <2>1. Typed /\ job.pc \in Rising
    BY DEF Lifecycle, At, Rising
  <2>2. \A k \in Gates : gates[k].calls = 0 /\ ~(gates[k].open /\ gates[k].known)
    <3>1. \A k \in Gates : gates[k].calls \in Nat
      BY <2>1 DEF Typed, GateType
    <3> QED
      BY <2>1, <3>1, RisingIsQuiet
  <2>3. gateOf = 0 /\ router = 0 /\ job.gate = 0
    BY DecideHolds
  <2> QED
    BY <2>2, <2>3 DEF FreeGates, Gates
<1>3. {1, 2, 3} \subseteq Gates
  BY DEF Gates
<1> DEFINE staging == Least(FreeGates)
           rest == FreeGates \ {staging}
<1>4. FreeGates # {}
  BY <1>2, <1>3
<1>5. staging \in FreeGates
  BY <1>1, <1>4, LeastIn
<1> HIDE DEF staging
<1>6. rest # {} /\ rest \subseteq Nat
  <2>1. \E k \in {1, 2, 3} : k # job.oldGate /\ k # staging
    OBVIOUS
  <2>2. PICK k \in {1, 2, 3} : k # job.oldGate /\ k # staging
    BY <2>1
  <2>3. k \in FreeGates
    BY <1>2, <1>3, <2>2
  <2>4. k \in rest
    BY <2>2, <2>3
  <2> QED
    BY <1>1, <2>4
<1>7. Least(rest) \in rest
  <2> HIDE DEF rest
  <2> QED
    BY <1>6, LeastIn
<1>8. staging \in Gates /\ Least(rest) \in Gates /\ Least(rest) # staging
  BY <1>1, <1>5, <1>7
<1> QED
  BY <1>8 DEF staging, Gates

LEMMA NewGateType ==
  ASSUME NEW g \in 0 .. NumGens, NEW open \in BOOLEAN
  PROVE  /\ NewGate(g, open) \in GateType
         /\ NewGate(g, open).open = open /\ NewGate(g, open).known = FALSE
         /\ NewGate(g, open).calls = 0
BY DEF NewGate, NoGate, GateType

LEMMA RestoreKeeps ==
  ASSUME Lifecycle, Restore
  PROVE  Lifecycle'
<1>1. Typed /\ OneBusy /\ JobShape /\ Purpose /\ Lives
  BY DEF Lifecycle
<1>2. At("decide") /\ job.pc \in Rising
  BY DEF Restore, At, Rising
<1>3. /\ job.old \in Gens /\ job \in JobType /\ router = 0 /\ job.why = "rollback" /\ ~job.retain
      /\ \A g \in Gens : gens[g].life # "up"
  BY <1>2, DecideHolds
<1>3a. job.old \in 0 .. NumGens /\ job.old # 0
  BY <1>3 DEF Gens
<1> DEFINE staging == Least(FreeGates)
           recovery == Least(FreeGates \ {staging})
<1>4. /\ staging \in Gates /\ recovery \in Gates /\ recovery # staging
      /\ staging \in 0 .. NumGates /\ recovery \in 0 .. NumGates
  BY <1>2, GatesToRestore
<1>5. /\ gates' = [gates EXCEPT ![staging] = NewGate(job.old, FALSE),
                                ![recovery] = NewGate(job.old, TRUE)]
      /\ registered' = job.old /\ gateOf' = staging
      /\ gens' = [gens EXCEPT ![job.old].gate = staging, ![job.old].attempted = FALSE,
                              ![job.old].completed = FALSE]
      /\ job' = [job EXCEPT !.pc = "remodule", !.gen = job.old, !.gate = recovery,
                            !.oldGate = staging]
      /\ UNCHANGED <<disk, compromised, interrupted, router, quarantined, restart, cache,
                     deferred, excused>>
  BY DEF Restore
<1> HIDE DEF staging, recovery
<1>6. /\ gates' \in [Gates -> GateType]
      /\ \A k \in Gates : k \notin {staging, recovery} => gates'[k] = gates[k]
      /\ gates'[recovery].open
      /\ \A k \in {staging, recovery} : gates'[k].calls = 0 /\ gates'[k].known = FALSE
  <2>1. /\ NewGate(job.old, FALSE) \in GateType /\ NewGate(job.old, TRUE) \in GateType
        /\ NewGate(job.old, FALSE).known = FALSE /\ NewGate(job.old, TRUE).known = FALSE
        /\ NewGate(job.old, FALSE).calls = 0 /\ NewGate(job.old, TRUE).calls = 0
        /\ NewGate(job.old, TRUE).open = TRUE
    BY <1>3a, NewGateType
  <2> QED
    BY <1>1, <1>4, <1>5, <2>1 DEF Typed
<1>7. /\ gens' \in [Gens -> GenType]
      /\ \A g \in Gens : gens'[g].life = gens[g].life
      /\ gens'[job.old].attempted = FALSE
  BY SMTT(30), <1>1, <1>3, <1>4, <1>5 DEF Typed, GenType
<1>8. /\ job' \in JobType /\ job'.pc = "remodule" /\ job'.gen = job.old /\ job'.gate = recovery
      /\ job'.why = job.why /\ job'.old = job.old /\ job'.retain = job.retain
      /\ job'.current = job.current
  <2>1. "remodule" \in Pcs
    BY DEF Pcs
  <2> QED
    BY <1>3, <1>3a, <1>4, <1>5, <2>1 DEF JobType
<1>9. \A k \in Gates : ~(gates'[k].calls > 0) /\ ~(gates'[k].open /\ gates'[k].known)
  BY <1>2, <1>6, RisingIsQuiet
<1>10. Typed'
  BY <1>1, <1>3a, <1>4, <1>5, <1>6, <1>7, <1>8 DEF Typed, RecordsTyped, WorldTyped
<1>11. JobShape' /\ Purpose'
  <2>1. recovery # 0 /\ gates'[recovery].open
    BY <1>4, <1>6 DEF Gates
  <2>2. excused' = excused /\ router' = 0
    BY <1>3, <1>5
  <2>3. JobShape'
    BY <1>1, <1>3, <1>3a, <1>8, <2>1, <2>2 DEF JobShape, Rising, At
  <2>4. Purpose'
    BY <1>3, <1>8, <2>2 DEF Purpose
  <2> QED
    BY <2>3, <2>4
<1>12. Lives'
  BY <1>3, <1>7, <1>8 DEF Lives
<1>13. router' = 0 /\ ~quarantined'
  BY <1>2, <1>5, RisingIsQuiet
<1> QED
  BY <1>8, <1>9, <1>10, <1>11, <1>12, <1>13, QuietStep

LEMMA RemoduleKeeps ==
  ASSUME Lifecycle, Remodule
  PROVE  Lifecycle'
<1>1. Typed /\ JobShape /\ Purpose /\ Lives
  BY DEF Lifecycle
<1>2. At("remodule") /\ job.pc \in Rising \ {"decide"}
  BY DEF Remodule, At, Rising
<1>3. /\ ~quarantined /\ router = 0 /\ ~job.retain
      /\ \A k \in Gates : ~(gates[k].calls > 0) /\ ~(gates[k].open /\ gates[k].known)
  BY <1>2, RisingIsQuiet
<1>4. /\ cache' = job.old /\ interrupted' = FALSE /\ excused' = (excused \/ interrupted)
      /\ UNCHANGED <<disk, compromised, gens, gates, registered, gateOf, router, quarantined,
                     restart, deferred>>
  BY DEF Remodule, records
<1>5. /\ job' \in JobType /\ job'.pc \in {"unrestore", "init"} /\ SameErrand
  <2>1. Go(IF interrupted THEN "unrestore" ELSE "init")
    BY DEF Remodule
  <2>2. (IF interrupted THEN "unrestore" ELSE "init") \in Pcs
    BY DEF Pcs
  <2> QED
    BY <1>1, <2>1, <2>2, Going DEF Typed
<1>6. Typed'
  <2>1. cache' \in 0 .. NumGens
    BY <1>1, <1>4 DEF Typed, JobType
  <2>2. interrupted' \in BOOLEAN /\ excused' \in BOOLEAN
    BY <1>4
  <2>3. RecordsTyped' /\ WorldTyped'
    BY <1>1, <1>4, <2>1, <2>2 DEF Typed, RecordsTyped, WorldTyped
  <2> QED
    BY <1>1, <1>4, <1>5, <2>3 DEF Typed
<1>7. JobShape' /\ Purpose'
  BY <1>1, <1>2, <1>3, <1>4, <1>5 DEF JobShape, Purpose, Rising, At, SameErrand
<1>8. Lives'
  BY <1>1, <1>2, <1>4, <1>5 DEF Lives, Owner, At, SameErrand, Purpose
<1> QED
  BY <1>3, <1>4, <1>5, <1>6, <1>7, <1>8, QuietStep

LEMMA UnrestoreKeeps ==
  ASSUME Lifecycle, Unrestore
  PROVE  Lifecycle'
<1>1. Typed /\ OneBusy /\ OnlyServed /\ JobShape /\ Purpose /\ Quarantines /\ Lives
  BY DEF Lifecycle
<1>2. At("unrestore") /\ ~At("idle") /\ job.old # 0 /\ job.gen = job.old
  BY <1>1 DEF Unrestore, At, JobShape
<1>3. GatesClose /\ CallsKept /\ deferred' \in BOOLEAN
  BY <1>1, ConsumedCloses DEF Unrestore
<1>4. CASE interrupted
  <2>1. /\ QuarantineJob /\ restart' = TRUE /\ disk' = disk /\ compromised' = compromised
        /\ cache' = cache
    BY <1>4 DEF Unrestore
  <2>2. restart' \in BOOLEAN /\ (restart => restart')
    BY <2>1
  <2>3. /\ disk' \in Disks /\ compromised' \in BOOLEAN
    BY <1>1, <2>1 DEF Typed, WorldTyped
  <2>4. cache' \in 0 .. NumGens
    BY <1>1, <2>1 DEF Typed, RecordsTyped
  <2> QED
    BY <1>2, <1>3, <2>1, <2>2, <2>3, <2>4, QuarantinesItsOwn
<1>5. CASE ~interrupted
  <2>1. /\ Tear("restore", job.old, job.oldGate, FALSE) /\ gateOf' = job.oldGate
        /\ gens' = [gens EXCEPT ![job.old].gate = job.oldGate, ![job.old].attempted = FALSE]
        /\ excused' = TRUE
        /\ UNCHANGED <<interrupted, registered, router, quarantined, disk, compromised, cache>>
    BY <1>5 DEF Unrestore
  <2>2. job \in JobType /\ job.old \in Gens /\ job.old \in 0 .. NumGens
    BY <1>1, <1>2 DEF Typed, JobType, Gens
  <2>3. job.oldGate \in 0 .. NumGates /\ restart \in BOOLEAN
    BY <1>1 DEF Typed, JobType, RecordsTyped
  <2>4. /\ job' \in JobType /\ job'.pc = "close1" /\ job'.why = "restore" /\ job'.gen = job.old
        /\ job'.retain = FALSE /\ job'.old = job.old /\ restart' = restart
        /\ job'.current = job.current
    <3>1. FALSE \in BOOLEAN /\ "restore" \in {"rollback", "restore"}
      OBVIOUS
    <3> QED
      BY <2>1, <2>2, <2>3, <3>1, Tearing
  <2>5. /\ gens' \in [Gens -> GenType]
        /\ \A g \in Gens : gens'[g].life = gens[g].life
        /\ \A g \in Gens : gens'[g].attempted => gens[g].attempted
    BY <1>1, <2>1, <2>2, <2>3 DEF Typed, GenType
  <2>6. Typed'
    <3>1. excused' \in BOOLEAN
      BY <2>1
    <3>2. RecordsTyped' /\ WorldTyped'
      BY <1>1, <1>3, <2>1, <2>3, <2>4, <3>1 DEF Typed, RecordsTyped, WorldTyped
    <3> QED
      BY <1>3, <2>4, <2>5, <3>2 DEF Typed, GatesClose
  <2>7. job.why \in {"candidate", "rollback"} /\ router = 0
    BY <1>1, <1>2 DEF JobShape, Purpose, Typed, JobType, At
  <2>8. \A k \in Gates : ~(gates'[k].calls > 0)
    BY <1>1, <1>2, <1>3 DEF OneBusy, Current, CallsKept, Unrestore, Busy, Gates
  <2>9. \A k \in Gates : ~(gates'[k].open /\ gates'[k].known)
    BY <1>1, <1>2, <1>3 DEF OnlyServed, GatesClose
  <2>10. JobShape' /\ Purpose'
    BY <1>1, <1>2, <2>1, <2>4, <2>7 DEF JobShape, Purpose, Rising, At
  <2>11. Lives'
    BY <1>1, <1>2, <2>4, <2>5, <2>7 DEF Lives, Owner, At
  <2>12. quarantined' => compromised'
    BY <1>1, <1>2, <2>1, <2>7 DEF Quarantines
  <2> QED
    BY <2>1, <2>4, <2>6, <2>7, <2>8, <2>9, <2>10, <2>11, <2>12, QuietStep DEF Rising
<1> QED
  BY <1>4, <1>5 DEF Lifecycle, Typed, WorldTyped

-----------------------------------------------------------------------------
(* Jobs start *)

\* Where a candidate is made, a generation and a gate are free for it, and no
\* other generation is up.
LEMMA RoomForACandidate ==
  ASSUME Lifecycle, (At("idle") /\ ~HasRuntime) \/ (At("purge") /\ job.why = "retire")
  PROVE  /\ Least(FreeGens) \in FreeGens /\ Least(FreeGates) \in FreeGates
         /\ \A g \in Gens : g \in FreeGens \/ gens[g].life # "up"
         /\ \A k \in Gates : ~(gates[k].calls > 0)
         /\ \A k \in Gates : k \in FreeGates \/ ~(gates[k].open /\ gates[k].known)
<1>1. Typed /\ OneBusy /\ OnlyServed /\ JobShape /\ Purpose /\ Quarantines /\ Lives /\ Rests
  BY DEF Lifecycle
<1>2. FreeGens \subseteq Nat /\ FreeGates \subseteq Nat /\ FreeGates \subseteq Gates
  BY DEF FreeGens, FreeGates, Gens, Gates
<1>3. {1, 2} \subseteq Gens /\ {1, 2, 3} \subseteq Gates
  BY DEF Gens, Gates
<1>4. \A k \in Gates : ~(gates[k].calls > 0)
  BY <1>1 DEF OneBusy, HasRuntime, At
<1>5. \A k \in Gates : gates[k].calls = 0
  <2>1. \A k \in Gates : gates[k].calls \in Nat
    BY <1>1 DEF Typed, GateType
  <2> QED
    BY <1>4, <2>1
<1>6. CASE At("idle") /\ ~HasRuntime
  <2>1. job = NoJob /\ registered = 0 /\ gateOf = 0 /\ ~quarantined /\ ~restart
    BY <1>1, <1>6 DEF JobShape, HasRuntime
  <2>2. cache = 0
    BY <1>1, <1>6, <2>1 DEF Quarantines
  <2>3. router = 0
    BY <1>1, <1>6, <2>1 DEF Rests, Serves, InService, Shut, Absent, Torn
  <2>4. job.gen = 0 /\ job.old = 0 /\ job.gate = 0 /\ job.oldGate = 0
    BY <2>1 DEF NoJob
  <2>5. \A k \in Gates : ~(gates[k].open /\ gates[k].known) /\ k # 0
    BY <1>1, <2>1 DEF OnlyServed, Gates
  <2>6. FreeGates = Gates
    BY <1>5, <2>1, <2>3, <2>4, <2>5 DEF FreeGates
  <2>7. FreeGens = Gens
    BY <2>1, <2>2, <2>4 DEF FreeGens, Gens
  <2> QED
    BY <1>2, <1>3, <1>4, <2>6, <2>7, LeastIn
<1>7. CASE At("purge") /\ job.why = "retire"
  <2>1. /\ job.gen # 0 /\ job.gen = job.old /\ registered = job.old
        /\ gateOf = job.gate /\ job.oldGate = job.gate /\ cache \in {0, job.gen}
    BY <1>1, <1>7 DEF Purpose
  <2>2. \A g \in Gens : g # job.gen => g \in FreeGens
    BY <2>1 DEF FreeGens, Gens
  <2>3. job.gen \in Gens => gens[job.gen].life # "up"
    BY <1>1, <1>7, <2>1 DEF Lives, At
  <2>4. \A k \in Gates : ~(gates[k].open /\ gates[k].known)
    BY <1>1, <1>7 DEF OnlyServed, At
  <2>5. \A k \in Gates : k # job.gate /\ k # router => k \in FreeGates
    BY <1>5, <2>1, <2>4 DEF FreeGates
  <2>6. FreeGens # {}
    <3>1. \E g \in {1, 2} : g # job.gen
      OBVIOUS
    <3> QED
      BY <1>3, <2>2, <3>1
  <2>7. FreeGates # {}
    <3>1. \E k \in {1, 2, 3} : k # job.gate /\ k # router
      OBVIOUS
    <3>2. PICK k \in {1, 2, 3} : k # job.gate /\ k # router
      BY <3>1
    <3>3. k \in FreeGates
      BY <1>3, <2>5, <3>2
    <3> QED
      BY <3>3
  <2> QED
    BY <1>2, <1>4, <2>2, <2>3, <2>4, <2>6, <2>7, LeastIn
<1> QED
  BY <1>6, <1>7

LEMMA NoGenType ==
  ASSUME NEW def \in 0 .. 1, NEW src \in 0 .. 1, NEW k \in 0 .. NumGates
  PROVE  LET new == [NoGen EXCEPT !.def = def, !.src = src, !.gate = k]
         IN /\ new \in GenType /\ new.life = "new" /\ new.attempted = FALSE
            /\ NoGen \in GenType /\ NoGen.life = "new" /\ NoGen.attempted = FALSE
<1> DEFINE new == [NoGen EXCEPT !.def = def, !.src = src, !.gate = k]
<1>1. NoGen \in GenType /\ NoGen.life = "new" /\ NoGen.attempted = FALSE
  BY DEF NoGen, GenType
<1>2. [NoGen EXCEPT !.def = def] \in GenType
  BY <1>1 DEF GenType
<1>3. [NoGen EXCEPT !.def = def, !.src = src] \in GenType
  BY <1>1 DEF GenType
<1>4. new \in GenType
  BY <1>1 DEF GenType
<1>5. new.life = "new" /\ new.attempted = FALSE
  BY DEF NoGen
<1> QED
  BY <1>1, <1>4, <1>5

\* A candidate is made: a fresh generation behind a fresh gate.
LEMMA CandidateKeeps ==
  ASSUME Lifecycle, (At("idle") /\ ~HasRuntime) \/ (At("purge") /\ job.why = "retire"),
         NEW base \in JobType, base.old \in {0, registered}, ~base.retain,
         base.current = "error" => excused', Candidate(base),
         RecordsTyped', WorldTyped', router' = 0, ~quarantined'
  PROVE  Lifecycle'
<1> DEFINE g == Least(FreeGens)
           k == Least(FreeGates)
<1>1. Typed /\ Lives
  BY DEF Lifecycle
<1>2. /\ g \in FreeGens /\ k \in FreeGates
      /\ \A h \in Gens : h \in FreeGens \/ gens[h].life # "up"
      /\ \A j \in Gates : ~(gates[j].calls > 0)
      /\ \A j \in Gates : j \in FreeGates \/ ~(gates[j].open /\ gates[j].known)
  BY RoomForACandidate
<1>3. /\ g \in Gens /\ g # 0 /\ g \in 0 .. NumGens /\ g # registered
      /\ k \in Gates /\ k # 0 /\ k \in 0 .. NumGates
  BY <1>2 DEF FreeGens, FreeGates, Gens, Gates
<1>4. /\ gens' = [h \in Gens |->
          IF h = g THEN [NoGen EXCEPT !.def = base.def, !.src = base.src, !.gate = k]
          ELSE IF h \in FreeGens THEN NoGen ELSE gens[h]]
      /\ gates' = [j \in Gates |-> IF j = k THEN NewGate(g, TRUE)
                                    ELSE IF j \in FreeGates THEN NoGate ELSE gates[j]]
      /\ gateOf' = k
      /\ job' = [base EXCEPT !.pc = "prepare", !.why = "candidate", !.gen = g, !.gate = k]
  BY DEF Candidate
<1> HIDE DEF g, k
<1>5. base.def \in 0 .. 1 /\ base.src \in 0 .. 1
  BY DEF JobType
<1>6. /\ gens' \in [Gens -> GenType]
      /\ \A h \in Gens : gens'[h].life # "up"
      /\ gens'[g].attempted = FALSE
  <2> DEFINE new == [NoGen EXCEPT !.def = base.def, !.src = base.src, !.gate = k]
  <2>1. /\ new \in GenType /\ new.life = "new" /\ new.attempted = FALSE
        /\ NoGen \in GenType /\ NoGen.life = "new"
    BY <1>3, <1>5, NoGenType
  <2>2. gens' = [h \in Gens |-> IF h = g THEN new ELSE IF h \in FreeGens THEN NoGen ELSE gens[h]]
    BY <1>4
  <2> HIDE DEF new
  <2> QED
    BY SMTT(30), <1>1, <1>2, <1>3, <2>1, <2>2 DEF Typed
<1>7. /\ gates' \in [Gates -> GateType] /\ gates'[k].open
      /\ \A j \in Gates : ~(gates'[j].calls > 0) /\ ~(gates'[j].open /\ gates'[j].known)
  <2>1. /\ NewGate(g, TRUE) \in GateType /\ NewGate(g, TRUE).open = TRUE
        /\ NewGate(g, TRUE).known = FALSE /\ NewGate(g, TRUE).calls = 0
    BY <1>3, NewGateType
  <2>2. NoGate \in GateType /\ NoGate.open = FALSE /\ NoGate.calls = 0
    BY DEF NoGate, GateType
  <2> DEFINE fresh == NewGate(g, TRUE)
  <2>3. gates' = [j \in Gates |-> IF j = k THEN fresh
                                   ELSE IF j \in FreeGates THEN NoGate ELSE gates[j]]
    BY <1>4
  <2>4. fresh \in GateType /\ fresh.open = TRUE /\ fresh.known = FALSE /\ fresh.calls = 0
    BY <2>1
  <2> HIDE DEF fresh
  <2>5. gates' \in [Gates -> GateType]
    BY <1>1, <2>2, <2>3, <2>4 DEF Typed
  <2>6. gates'[k].open
    BY <1>3, <2>3, <2>4
  <2>7. \A j \in Gates : ~(gates'[j].calls > 0)
    BY <1>2, <2>2, <2>3, <2>4
  <2>8. \A j \in Gates : ~(gates'[j].open /\ gates'[j].known)
    BY <1>2, <2>2, <2>3, <2>4
  <2> QED
    BY <2>5, <2>6, <2>7, <2>8
<1>8. /\ job' \in JobType /\ job'.pc = "prepare" /\ job'.why = "candidate" /\ job'.gen = g
      /\ job'.gate = k /\ job'.old = base.old /\ job'.retain = base.retain
      /\ job'.current = base.current
  <2>1. "prepare" \in Pcs
    BY DEF Pcs
  <2> QED
    BY <1>3, <1>4, <2>1 DEF JobType
<1>9. Typed'
  BY <1>6, <1>7, <1>8 DEF Typed
<1>10. JobShape' /\ Purpose'
  BY <1>3, <1>7, <1>8 DEF JobShape, Purpose, Rising, At
<1>11. Lives'
  BY <1>6, <1>8, <1>3 DEF Lives
<1> QED
  BY <1>7, <1>8, <1>9, <1>10, <1>11, QuietStep

LEMMA RetiredKeeps ==
  ASSUME Lifecycle, Retired
  PROVE  Lifecycle'
<1>1. Typed /\ OneBusy /\ OnlyServed /\ JobShape /\ Purpose /\ Quarantines /\ Lives
  BY DEF Lifecycle
<1>2. /\ At("purge") /\ job.why = "retire" /\ ~quarantined /\ ~job.retain
  BY <1>1 DEF Retired, Purged, Quarantines, Purpose, At
<1>3. /\ router' = 0 /\ deferred' = FALSE /\ cache' = 0
      /\ UNCHANGED <<disk, compromised, interrupted, restart>>
  BY DEF Retired, Purged
<1>4. CASE deferred
  <2>1. /\ registered' = 0 /\ gateOf' = 0 /\ quarantined' = FALSE /\ job' = NoJob
        /\ excused' = TRUE /\ UNCHANGED <<gens, gates>>
    BY <1>4 DEF Retired, Forgotten
  <2>2. Typed'
    <3>1. /\ registered' \in 0 .. NumGens /\ gateOf' \in 0 .. NumGates
          /\ router' \in 0 .. NumGates /\ cache' \in 0 .. NumGens
      BY <1>3, <2>1
    <3>2. quarantined' \in BOOLEAN /\ excused' \in BOOLEAN /\ deferred' \in BOOLEAN
      BY <1>3, <2>1
    <3>3. RecordsTyped' /\ WorldTyped'
      BY <1>1, <1>3, <3>1, <3>2 DEF Typed, RecordsTyped, WorldTyped
    <3> QED
      BY <1>1, <2>1, <3>3, NoJobType DEF Typed
  <2>3. \A k \in Gates : ~(gates'[k].calls > 0) /\ ~(gates'[k].open /\ gates'[k].known)
    BY <1>1, <1>2, <2>1 DEF OneBusy, OnlyServed, At
  <2>4. OneBusy' /\ OnlyServed'
    BY <1>3, <2>3 DEF OneBusy, OnlyServed
  <2>5. JobShape' /\ Purpose' /\ Quarantines'
    BY <1>3, <2>1 DEF JobShape, Purpose, Quarantines, Rising, At, NoJob
  <2>6. Lives'
    BY <1>1, <1>2, <1>3, <2>1 DEF Lives, Owner, At, NoJob, Purpose
  <2>7. Rests'
    BY <1>3, <2>1 DEF Rests, Absent, Torn
  <2> QED
    BY <2>2, <2>4, <2>5, <2>6, <2>7 DEF Lifecycle
<1>5. CASE ~deferred
  <2>1. Candidate(job) /\ UNCHANGED <<registered, quarantined, excused>>
    BY <1>5 DEF Retired
  <2>2. job \in JobType /\ job.old = registered /\ (job.current = "error" => excused')
    BY <1>1, <1>2, <2>1 DEF Typed, Purpose, JobShape
  <2>3. Least(FreeGates) \in 0 .. NumGates
    BY <1>2, RoomForACandidate DEF FreeGates, Gates
  <2>4. gateOf' \in 0 .. NumGates /\ cache' \in 0 .. NumGens /\ router' \in 0 .. NumGates
    BY <1>3, <2>1, <2>3 DEF Candidate
  <2>5. RecordsTyped'
    BY <1>1, <1>3, <2>1, <2>4 DEF Typed, RecordsTyped
  <2>6. deferred' \in BOOLEAN
    BY <1>3
  <2>7. WorldTyped'
    BY <1>1, <1>3, <2>1, <2>6 DEF Typed, WorldTyped
  <2>8. router' = 0 /\ ~quarantined'
    BY <1>2, <1>3, <2>1
  <2> QED
    BY <1>2, <2>1, <2>2, <2>5, <2>7, <2>8, CandidateKeeps
<1> QED
  BY <1>4, <1>5

\* The plugin is put out of service where it is: nothing else is touched.
LEMMA Halting ==
  ASSUME Lifecycle, At("idle"), router' = 0, quarantined' = TRUE, restart' = TRUE,
         excused' = TRUE, gates' = Closed(gateOf), cache' \in {cache, 0}, compromised' \in BOOLEAN,
         UNCHANGED <<disk, gens, registered, gateOf, deferred, job, interrupted>>
  PROVE  Lifecycle'
<1>1. Typed /\ OneBusy /\ OnlyServed /\ JobShape /\ Purpose /\ Quarantines /\ Lives
  BY DEF Lifecycle
<1>2. GatesClose /\ CallsKept
  BY <1>1, ClosedCloses DEF Typed, RecordsTyped
<1>3. Typed'
  <2>1. router' \in 0 .. NumGates /\ cache' \in 0 .. NumGens
    BY <1>1 DEF Typed, RecordsTyped
  <2>2. quarantined' \in BOOLEAN /\ restart' \in BOOLEAN /\ excused' \in BOOLEAN
    OBVIOUS
  <2>3. RecordsTyped' /\ WorldTyped'
    BY <1>1, <2>1, <2>2 DEF Typed, RecordsTyped, WorldTyped
  <2> QED
    BY <1>1, <1>2, <2>3 DEF Typed, GatesClose
<1>4. OneBusy'
  BY <1>1, <1>2 DEF OneBusy, Current, At, CallsKept
<1>5. \A k \in Gates : ~(gates'[k].open /\ gates'[k].known)
  <2> SUFFICES ASSUME NEW k \in Gates, gates'[k].open, gates'[k].known  PROVE FALSE
    OBVIOUS
  <2>1. gates[k].open /\ gates[k].known
    BY <1>2 DEF GatesClose
  <2>2. gateOf = k /\ k # 0
    BY <1>1, <2>1 DEF OnlyServed, Gates
  <2> QED
    BY <1>1, <2>2 DEF Closed, Typed, GateType
<1>6. OnlyServed'
  BY <1>5 DEF OnlyServed
<1>7. JobShape' /\ Purpose' /\ Quarantines'
  BY <1>1 DEF JobShape, Purpose, Quarantines, Rising, At
<1>8. Lives' /\ Rests'
  BY <1>1 DEF Lives, Owner, At, Rests, Shut, JobShape, NoJob
<1> QED
  BY <1>3, <1>4, <1>6, <1>7, <1>8 DEF Lifecycle

LEMMA StartUnloadKeeps ==
  ASSUME Lifecycle, At("idle"), StartUnload, UNCHANGED <<disk, compromised>>
  PROVE  Lifecycle'
<1>1. Typed /\ OneBusy /\ OnlyServed /\ JobShape /\ Purpose /\ Quarantines /\ Lives
  BY DEF Lifecycle
<1>2. /\ excused' = TRUE /\ gates' = Closed(gateOf)
      /\ UNCHANGED <<gens, cache, deferred, interrupted>>
  BY DEF StartUnload
<1>3. CASE restart
  <2>1. /\ router' = 0 /\ quarantined' = TRUE /\ restart' = TRUE
        /\ UNCHANGED <<job, registered, gateOf>>
    BY <1>1, <1>3 DEF StartUnload, Typed, RecordsTyped
  <2>2. compromised' \in BOOLEAN
    BY <1>1 DEF Typed, WorldTyped
  <2> QED
    BY <1>2, <2>1, <2>2, Halting
<1>4. CASE ~restart
  <2>1. /\ job' = [NoJob EXCEPT !.pc = "close1", !.why = "unload", !.gen = registered,
                                !.gate = gateOf]
        /\ UNCHANGED <<registered, gateOf, router, quarantined, restart>>
    BY <1>4 DEF StartUnload, records
  <2>2. registered \in 0 .. NumGens /\ gateOf \in 0 .. NumGates
    BY <1>1 DEF Typed, RecordsTyped
  <2>3. /\ job' \in JobType /\ job'.pc = "close1" /\ job'.why = "unload"
        /\ job'.gen = registered /\ job'.gate = gateOf /\ ~job'.retain
        /\ job'.current = "unknown"
    <3>1. "close1" \in Pcs
      BY DEF Pcs
    <3>2. job' \in JobType
      <4>1. [NoJob EXCEPT !.pc = "close1"] \in JobType
        BY <3>1, NoJobType DEF JobType
      <4>2. [NoJob EXCEPT !.pc = "close1", !.why = "unload"] \in JobType
        BY <3>1, NoJobType DEF JobType
      <4>3. \A j \in JobType : [j EXCEPT !.gen = registered] \in JobType
        BY <2>2 DEF JobType
      <4>4. \A j \in JobType : [j EXCEPT !.gate = gateOf] \in JobType
        BY <2>2 DEF JobType
      <4>5. job' = [[[NoJob EXCEPT !.pc = "close1", !.why = "unload"] EXCEPT !.gen = registered]
                     EXCEPT !.gate = gateOf]
        BY <2>1
      <4> QED
        BY <4>2, <4>3, <4>4, <4>5
    <3>3. /\ job'.pc = "close1" /\ job'.why = "unload" /\ job'.gen = registered
          /\ job'.gate = gateOf /\ job'.retain = FALSE /\ job'.current = "unknown"
      BY <2>1 DEF NoJob
    <3> QED
      BY <3>2, <3>3
  <2>4. GatesClose /\ CallsKept
    BY <1>1, <1>2, <2>2, ClosedCloses
  <2>5. Typed'
    <3>1. excused' \in BOOLEAN
      BY <1>2
    <3>2. RecordsTyped' /\ WorldTyped'
      BY <1>1, <1>2, <2>1, <3>1 DEF Typed, RecordsTyped, WorldTyped
    <3> QED
      BY <1>1, <1>2, <2>3, <2>4, <3>2 DEF Typed, GatesClose
  <2>6. OneBusy'
    BY <1>1, <2>3, <2>4 DEF OneBusy, Current, At, CallsKept
  <2>7. \A k \in Gates : ~(gates'[k].open /\ gates'[k].known)
    <3> SUFFICES ASSUME NEW k \in Gates, gates'[k].open, gates'[k].known  PROVE FALSE
      OBVIOUS
    <3>1. gates[k].open /\ gates[k].known
      BY <2>4 DEF GatesClose
    <3>2. gateOf = k /\ k # 0
      BY <1>1, <3>1 DEF OnlyServed, Gates
    <3> QED
      BY <1>1, <1>2, <3>2 DEF Closed, Typed, GateType
  <2>8. OnlyServed'
    BY <1>1, <2>1, <2>4, <2>7 DEF OnlyServed, GatesClose, Typed, RecordsTyped, Gates
  <2>9. JobShape' /\ Purpose' /\ Quarantines'
    BY <1>4, <2>1, <2>3 DEF JobShape, Purpose, Quarantines, Rising, At
  <2>10. Lives' /\ Rests'
    BY <1>1, <1>2, <1>4, <2>1, <2>3
    DEF Lives, Owner, At, Rests, JobShape, NoJob
  <2> QED
    BY <2>5, <2>6, <2>8, <2>9, <2>10 DEF Lifecycle
<1> QED
  BY <1>3, <1>4

LEMMA DiskType ==
  ASSUME disk \in Disks
  PROVE  disk.def \in 0 .. 1 /\ disk.src \in 0 .. 1
BY DEF Disks

LEMMA StartReloadKeeps ==
  ASSUME Lifecycle, At("idle"), StartReload, UNCHANGED <<disk, compromised>>
  PROVE  Lifecycle'
<1>1. Typed /\ OneBusy /\ OnlyServed /\ JobShape /\ Purpose /\ Quarantines /\ Lives
  BY DEF Lifecycle
<1> DEFINE k == gens[registered].gate
<1>2. /\ ~quarantined /\ registered # 0
      /\ job' = [NoJob EXCEPT !.pc = "close1", !.why = "retire", !.gen = registered, !.gate = k,
                   !.old = registered, !.oldGate = k, !.def = disk.def, !.src = disk.src,
                   !.changed = disk.def # gens[registered].def]
      /\ gates' = Closed(k) /\ gateOf' = k
      /\ excused' = (disk.def # gens[registered].def \/ router = 0)
      /\ UNCHANGED <<gens, registered, router, quarantined, restart, cache, deferred, interrupted>>
  BY DEF StartReload
<1>3. registered \in Gens /\ registered \in 0 .. NumGens
  BY <1>1, <1>2 DEF Typed, RecordsTyped, Gens
<1>4. k \in 0 .. NumGates
  BY <1>1, <1>3 DEF Typed, GenType
<1>5. disk.def \in 0 .. 1 /\ disk.src \in 0 .. 1
  BY <1>1, DiskType DEF Typed, WorldTyped
<1>5a. k = gens[registered].gate
  OBVIOUS
<1> HIDE DEF k
<1>6. /\ job' \in JobType /\ job'.pc = "close1" /\ job'.why = "retire"
      /\ job'.gen = registered /\ job'.gate = k /\ ~job'.retain /\ job'.old = registered
      /\ job'.oldGate = k /\ job'.current = "unknown"
  <2>1. "close1" \in Pcs /\ (disk.def # gens[registered].def) \in BOOLEAN
    BY DEF Pcs
  <2> QED
    BY <1>2, <1>3, <1>4, <1>5, <2>1 DEF NoJob, JobType
<1>7. GatesClose /\ CallsKept
  BY <1>1, <1>2, <1>4, ClosedCloses
<1>8. Typed'
  <2>1. excused' \in BOOLEAN
    BY <1>2
  <2>2. RecordsTyped' /\ WorldTyped'
    BY <1>1, <1>2, <1>4, <2>1 DEF Typed, RecordsTyped, WorldTyped
  <2> QED
    BY <1>1, <1>2, <1>6, <1>7, <2>2 DEF Typed, GatesClose
<1>9. OneBusy'
  BY <1>1, <1>2, <1>5a, <1>6, <1>7 DEF OneBusy, Current, At, CallsKept
<1>10. \A j \in Gates : ~(gates'[j].open /\ gates'[j].known)
  <2> SUFFICES ASSUME NEW j \in Gates, gates'[j].open, gates'[j].known  PROVE FALSE
    OBVIOUS
  <2>1. gates[j].open /\ gates[j].known
    BY <1>7 DEF GatesClose
  <2>2. k = j /\ j # 0
    BY <1>1, <1>5a, <2>1 DEF OnlyServed, Gates
  <2> QED
    BY <1>1, <1>2, <2>2 DEF Closed, Typed, GateType
<1>11. OnlyServed'
  BY <1>1, <1>2, <1>7, <1>10 DEF OnlyServed, GatesClose, Typed, RecordsTyped, Gates
<1>12. JobShape' /\ Purpose' /\ Quarantines'
  BY <1>1, <1>2, <1>6 DEF JobShape, Purpose, Quarantines, Rising, At
<1>13. Lives' /\ Rests'
  BY <1>1, <1>2, <1>6 DEF Lives, Owner, At, Rests
<1> QED
  BY <1>8, <1>9, <1>11, <1>12, <1>13 DEF Lifecycle

LEMMA PollKeeps ==
  ASSUME Lifecycle, Poll
  PROVE  Lifecycle'
<1>1. Typed /\ JobShape /\ Rests
  BY DEF Lifecycle
<1>2. At("idle") /\ ~quarantined /\ UNCHANGED <<disk, compromised>>
  BY DEF Poll
<1>3. CASE StartUnload
  BY <1>2, <1>3, StartUnloadKeeps
<1>4. CASE StartReload
  BY <1>2, <1>4, StartReloadKeeps
<1>5. CASE /\ ~HasRuntime /\ excused' = TRUE
           /\ Candidate([NoJob EXCEPT !.def = disk.def, !.src = disk.src])
           /\ UNCHANGED <<registered, router, quarantined, restart, cache, deferred, interrupted>>
  <2> DEFINE base == [NoJob EXCEPT !.def = disk.def, !.src = disk.src]
  <2>1. disk.def \in 0 .. 1 /\ disk.src \in 0 .. 1
    BY <1>1, DiskType DEF Typed, WorldTyped
  <2>2. base \in JobType /\ base.old = 0 /\ ~base.retain /\ base.current = "unknown"
    BY <2>1, NoJobType DEF NoJob, JobType
  <2>3. router = 0
    BY <1>1, <1>2, <1>5 DEF Rests, Serves, InService, Shut, Absent, Torn, HasRuntime
  <2>4. Least(FreeGates) \in 0 .. NumGates
    BY <1>2, <1>5, RoomForACandidate DEF FreeGates, Gates
  <2>5. gateOf' \in 0 .. NumGates
    BY <1>5, <2>4 DEF Candidate
  <2>6. RecordsTyped'
    BY <1>1, <1>5, <2>5 DEF Typed, RecordsTyped
  <2>7. excused' \in BOOLEAN
    BY <1>5
  <2>8. WorldTyped'
    BY <1>1, <1>2, <1>5, <2>7 DEF Typed, WorldTyped
  <2>9. Candidate(base) /\ router' = 0 /\ ~quarantined'
    BY <1>2, <1>5, <2>3
  <2> HIDE DEF base
  <2> QED
    BY <1>2, <1>5, <2>2, <2>6, <2>8, <2>9, CandidateKeeps
<1> QED
  BY <1>3, <1>4, <1>5 DEF Poll

LEMMA CommandKeeps ==
  ASSUME Lifecycle, Command
  PROVE  Lifecycle'
BY StartUnloadKeeps, StartReloadKeeps DEF Command

-----------------------------------------------------------------------------
(* The world *)

\* Callbacks enter and leave only while a gate is open, or were let in before.
LEMMA CallsKeep ==
  ASSUME Lifecycle, NEW k \in Gates, Enter(k) \/ Leave(k) \/ LeaveFatal(k)
  PROVE  Lifecycle'
<1>1. Typed /\ OneBusy /\ OnlyServed /\ JobShape /\ Purpose /\ Quarantines /\ Lives /\ Rests
  BY DEF Lifecycle
<1>2. UNCHANGED <<disk, compromised, gens, registered, gateOf, router, quarantined, restart, cache,
                  deferred, job, interrupted, excused>>
  BY DEF Enter, Leave, LeaveFatal, Calls, records
<1>3. gates[k] \in GateType /\ gates[k].calls \in Nat
  BY <1>1 DEF Typed, GateType
<1>4. \/ /\ gates[k].open /\ gates[k].known
         /\ gates' = [gates EXCEPT ![k].calls = @ + 1]
      \/ /\ gates[k].calls > 0
         /\ \/ gates' = [gates EXCEPT ![k].calls = @ - 1]
            \/ gates' = [gates EXCEPT ![k].calls = @ - 1, ![k].fatal = TRUE]
  <2>1. gates[k].calls + (-1) = gates[k].calls - 1
    BY <1>3
  <2> QED
    BY <1>1, <2>1 DEF Enter, Leave, LeaveFatal, Calls, Typed
<1>5. /\ gates' \in [Gates -> GateType]
      /\ \A j \in Gates : gates'[j].open = gates[j].open /\ gates'[j].known = gates[j].known
      /\ \A j \in Gates : j # k => gates'[j] = gates[j]
  BY <1>1, <1>3, <1>4 DEF Typed, GateType
<1>6. (gates[k].open /\ gates[k].known) \/ gates[k].calls > 0
  BY <1>4
<1>7. Typed'
  BY <1>1, <1>2, <1>5 DEF Typed, RecordsTyped, WorldTyped
<1>8. OneBusy'
  BY <1>1, <1>2, <1>5, <1>6 DEF OneBusy, OnlyServed, Current, At
<1>9. OnlyServed'
  BY <1>1, <1>2, <1>5 DEF OnlyServed, At, Typed, RecordsTyped, Gates
<1>10. JobShape'
  BY <1>1, <1>2, <1>5 DEF JobShape, At, Rising, Typed, JobType, Gates
<1>11. Purpose' /\ Quarantines' /\ Lives'
  BY <1>1, <1>2 DEF Purpose, Quarantines, Lives, Owner, At
<1>12. Rests'
  <2>1. Serves => Serves'
    BY <1>1, <1>2, <1>5 DEF Serves, InService, Typed, RecordsTyped, Gates
  <2> QED
    BY <1>1, <1>2, <2>1
    DEF Rests, Shut, Absent, Torn, At
<1> QED
  BY <1>7, <1>8, <1>9, <1>10, <1>11, <1>12 DEF Lifecycle

\* An edit of the plugin's files, or a cancellation, changes no record.
LEMMA OutsideKeeps ==
  ASSUME Lifecycle, disk' \in Disks, interrupted' \in BOOLEAN,
         UNCHANGED <<compromised, gens, gates, registered, gateOf, router, quarantined, restart,
                     cache, deferred, job, excused>>
  PROVE  Lifecycle'
<1>1. Typed /\ OneBusy /\ OnlyServed /\ JobShape /\ Purpose /\ Quarantines /\ Lives /\ Rests
  BY DEF Lifecycle
<1>2. Typed'
  BY <1>1 DEF Typed, RecordsTyped, WorldTyped
<1>3. OneBusy' /\ OnlyServed'
  BY <1>1 DEF OneBusy, OnlyServed, Current, At
<1>4. JobShape' /\ Purpose'
  BY <1>1 DEF JobShape, Purpose, At
<1>5. Quarantines' /\ Lives'
  BY <1>1 DEF Quarantines, Lives, Owner, At
<1>6. Rests'
  BY <1>1 DEF Rests, Serves, InService, Shut, Absent, Torn, At
<1> QED
  BY <1>2, <1>3, <1>4, <1>5, <1>6 DEF Lifecycle

LEMMA CompromiseKeeps ==
  ASSUME Lifecycle, Compromise
  PROVE  Lifecycle'
<1>1. compromised' \in BOOLEAN
  BY DEF Compromise
<1> QED
  BY <1>1, Halting DEF Compromise

-----------------------------------------------------------------------------
(* The invariant *)

LEMMA InitLifecycle ==
  ASSUME Init
  PROVE  Lifecycle
<1>1. /\ \A g \in Gens : gens[g] = NoGen
      /\ \A k \in Gates : gates[k] = NoGate
      /\ registered = 0 /\ gateOf = 0 /\ router = 0 /\ cache = 0
      /\ quarantined = FALSE /\ restart = FALSE /\ job = NoJob /\ excused = FALSE
  BY DEF Init
<1>2. Typed
  <2>1. gens \in [Gens -> GenType]
    <3>1. NoGen \in GenType
      BY DEF NoGen, GenType
    <3> QED
      BY <3>1 DEF Init
  <2>2. gates \in [Gates -> GateType]
    <3>1. NoGate \in GateType
      BY DEF NoGate, GateType
    <3> QED
      BY <3>1 DEF Init
  <2>3. RecordsTyped
    <3>1. registered \in 0 .. NumGens /\ gateOf \in 0 .. NumGates
      BY <1>1
    <3>2. router \in 0 .. NumGates /\ cache \in 0 .. NumGens
      BY <1>1
    <3>3. quarantined \in BOOLEAN /\ restart \in BOOLEAN
      BY <1>1
    <3> QED
      BY <3>1, <3>2, <3>3 DEF RecordsTyped
  <2>4. WorldTyped
    <3>1. [kind |-> "ok", def |-> 0, src |-> 0] \in Disks
      BY DEF Disks
    <3>2. disk \in Disks
      BY <3>1 DEF Init
    <3>3. /\ compromised \in BOOLEAN /\ deferred \in BOOLEAN
          /\ interrupted \in BOOLEAN /\ excused \in BOOLEAN
      BY DEF Init
    <3> QED
      BY <3>2, <3>3 DEF WorldTyped
  <2> QED
    BY <1>1, <2>1, <2>2, <2>3, <2>4, NoJobType DEF Typed
<1>3. OneBusy /\ OnlyServed
  BY <1>1 DEF OneBusy, OnlyServed, NoGate
<1>4. JobShape /\ Purpose /\ Quarantines
  BY <1>1 DEF JobShape, Purpose, Quarantines, Rising, At, NoJob
<1>5. Lives
  BY <1>1 DEF Lives, NoGen, NoJob
<1>6. Rests
  BY <1>1 DEF Rests, Absent
<1> QED
  BY <1>2, <1>3, <1>4, <1>5, <1>6 DEF Lifecycle

LEMMA JobStepKeeps ==
  ASSUME Lifecycle, JobStep
  PROVE  Lifecycle'
<1>1. CASE \/ Freeze \/ Drained \/ DrainTimesOut \/ QuarantinePartial \/ Stop
           \/ PurgeFails \/ PurgeInterrupted \/ UnrestoreTimesOut
  BY <1>1, FreezeKeeps, DrainedKeeps, GivingUpKeeps, QuarantinePartialKeeps, StopKeeps
<1>2. CASE Unloaded \/ Retired \/ RolledBack \/ RestoreUndone
  BY <1>2, UnloadedKeeps, RetiredKeeps, RolledBackKeeps, RestoreUndoneKeeps
<1>3. CASE Prepare \/ Import \/ InitRuns \/ Check
  BY <1>3, PrepareKeeps, ImportKeeps, InitRunsKeeps, CheckKeeps
<1>4. CASE Quiesce \/ QuiesceFails \/ QuiesceInterrupted \/ Publish \/ Conflict \/ Refuse
  BY <1>4, QuiesceKeeps, QuiesceFailsKeeps, PublishKeeps, NotPublishedKeeps
<1>5. CASE GiveOldUp \/ Restore \/ RestoreCollides \/ Remodule \/ Unrestore
  BY <1>5, GiveOldUpKeeps, RestoreKeeps, RestoreCollidesKeeps, RemoduleKeeps, UnrestoreKeeps
<1> QED
  BY <1>1, <1>2, <1>3, <1>4, <1>5 DEF JobStep

LEMMA NextLifecycle ==
  ASSUME Lifecycle, [Next]_vars
  PROVE  Lifecycle'
<1>1. CASE JobStep
  BY <1>1, JobStepKeeps
<1>2. CASE Poll
  BY <1>2, PollKeeps
<1>3. CASE Command
  BY <1>3, CommandKeeps
<1>4. CASE Edit
  <2>1. /\ disk' \in Disks /\ interrupted' = interrupted
        /\ UNCHANGED <<compromised, gens, gates, registered, gateOf, router, quarantined, restart,
                       cache, deferred, job, excused>>
    BY <1>4 DEF Edit, records
  <2> QED
    BY <2>1, OutsideKeeps DEF Lifecycle, Typed, WorldTyped
<1>5. CASE Cancel
  <2>1. /\ disk' = disk /\ interrupted' = TRUE
        /\ UNCHANGED <<compromised, gens, gates, registered, gateOf, router, quarantined, restart,
                       cache, deferred, job, excused>>
    BY <1>5 DEF Cancel, records
  <2>2. disk' \in Disks /\ interrupted' \in BOOLEAN
    BY <2>1 DEF Lifecycle, Typed, WorldTyped
  <2> QED
    BY <2>1, <2>2, OutsideKeeps
<1>6. CASE Compromise
  BY <1>6, CompromiseKeeps
<1>7. CASE \E k \in Gates : Enter(k) \/ Leave(k) \/ LeaveFatal(k)
  BY <1>7, CallsKeep
<1>8. CASE UNCHANGED vars
  <2>1. /\ UNCHANGED <<disk, interrupted>>
        /\ UNCHANGED <<compromised, gens, gates, registered, gateOf, router, quarantined, restart,
                       cache, deferred, job, excused>>
    BY <1>8 DEF vars, records
  <2> QED
    BY <2>1, OutsideKeeps DEF Lifecycle, Typed, WorldTyped
<1> QED
  BY <1>1, <1>2, <1>3, <1>4, <1>5, <1>6, <1>7, <1>8 DEF Next

\* Whatever a plugin's jobs, callbacks, edits, cancellations and faults do, and in
\* whatever order, the invariant holds: the two gates, the records of the
\* generations and the waits of the job agree as the code supposes at every await
\* (_retire_plugin_for_reload, _rollback_pending_plugin, _restore_old_generation).
THEOREM GenerationsLifecycle == Spec => []Lifecycle
<1>1. Init => Lifecycle
  BY InitLifecycle
<1>2. Lifecycle /\ [Next]_vars => Lifecycle'
  BY NextLifecycle
<1> QED
  BY <1>1, <1>2, PTL DEF Spec

\* No two generations of a plugin run callbacks at once (the old one is drained
\* before the new one is imported), what commands lead to is registered and whole,
\* and a quarantined plugin lets no callback in.
THEOREM GenerationServesAlone == Spec => []OneGenerationServes
<1>1. Lifecycle => OneGenerationServes
  <2> SUFFICES ASSUME Lifecycle  PROVE OneGenerationServes
    OBVIOUS
  <2>1. Typed /\ OneBusy /\ OnlyServed
    BY DEF Lifecycle
  <2>2. OneGenerationRuns
    BY <2>1 DEF OneGenerationRuns, OneBusy
  <2>3. ServingIsWhole
    BY <2>1 DEF ServingIsWhole, OnlyServed, Typed, RecordsTyped, Gates
  <2>4. QuarantineIsClosed
    BY <2>1 DEF QuarantineIsClosed, OnlyServed, Gates
  <2> QED
    BY <2>2, <2>3, <2>4 DEF OneGenerationServes
<1> QED
  BY <1>1, GenerationsLifecycle, PTL

\* A job loses sight of no generation that was started, and it leaves the plugin
\* in service, quarantined, gone, or torn with a restart asked for: the except and
\* finally clauses of the reload and the unload leave nothing else behind.
THEOREM StartedGenerationsSettle == Spec => []JobsSettle
<1>1. Lifecycle => JobsSettle
  BY DEF Lifecycle, Lives, Owner, Rests, Serves, JobsSettle, StartedIsOwned, Settled
<1> QED
  BY <1>1, GenerationsLifecycle, PTL

\* A reload under an unchanged manifest whose candidate fails cleanly puts the old
\* generation back in service, gate, router and module cache included, if that one
\* starts again (_recover_failed_reload_candidate, _restore_old_generation).
THEOREM ReloadKeepsService == Spec => []FailedReloadKeepsService
<1>1. Lifecycle => FailedReloadKeepsService
  BY DEF Lifecycle, Rests, Serves, FailedReloadKeepsService
<1> QED
  BY <1>1, GenerationsLifecycle, PTL

\* A quarantine that asks for a restart meets no job that could lift it: one that
\* brings a generation up finds none, and an unload is not let in.
LEMMA RestartQuarantineStep ==
  ASSUME Lifecycle, [Next]_vars, restart, quarantined
  PROVE  restart' /\ quarantined'
<1>1. Typed /\ JobShape /\ Purpose /\ Quarantines
  BY DEF Lifecycle
<1>2. restart = TRUE /\ quarantined = TRUE
  BY <1>1 DEF Typed, RecordsTyped
<1>3. job.pc \notin Rising
  BY <1>1 DEF Quarantines
<1>4. At("idle") \/ compromised
  <2>1. job.why # "unload"
    BY <1>1, Zenon DEF Purpose
  <2> QED
    BY <1>1, <1>2, <2>1, Zenon DEF Quarantines
<1>5. CASE Freeze \/ Drained \/ DrainTimesOut \/ QuarantinePartial \/ Stop
  BY <1>2, <1>5, Zenon
  DEF Freeze, Drained, DrainTimesOut, GiveUp, QuarantinePartial, Stop, QuarantineJob, Quarantine,
      records
<1>6. CASE PurgeFails \/ PurgeInterrupted \/ Unrestore \/ UnrestoreTimesOut
  BY <1>2, <1>6
  DEF PurgeFails, PurgeInterrupted, Unrestore, UnrestoreTimesOut, QuarantineJob, Quarantine, Tear
<1>7. ~(Unloaded \/ Retired \/ RolledBack \/ RestoreUndone)
  BY <1>4 DEF Unloaded, Retired, RolledBack, RestoreUndone, Purged, At
<1>8. ~(Prepare \/ Import \/ InitRuns \/ Check)
  BY <1>3 DEF Prepare, Import, InitRuns, Check, At, Rising
<1>9. ~(Quiesce \/ QuiesceFails \/ QuiesceInterrupted \/ Publish \/ Conflict \/ Refuse)
  BY <1>3
  DEF Quiesce, QuiesceFails, QuiesceInterrupted, Publish, Conflict, Refuse, At, Rising
<1>10. ~(GiveOldUp \/ Restore \/ RestoreCollides \/ Remodule)
  BY <1>3 DEF GiveOldUp, Restore, RestoreCollides, Remodule, At, Rising
<1>11. CASE Command
  BY <1>2, <1>11 DEF Command, StartReload, StartUnload
<1>12. ~Poll /\ ~Compromise
  BY <1>2 DEF Poll, Compromise
<1>13. CASE Edit \/ Cancel \/ UNCHANGED vars
  BY <1>2, <1>13 DEF Edit, Cancel, vars, records
<1>14. CASE \E k \in Gates : Enter(k) \/ Leave(k) \/ LeaveFatal(k)
  BY <1>2, <1>14 DEF Enter, Leave, LeaveFatal, Calls, records
<1> QED
  BY <1>5, <1>6, <1>7, <1>8, <1>9, <1>10, <1>11, <1>12, <1>13, <1>14 DEF Next, JobStep

\* What only a restart may end is not ended by a reload, an unload or a poll.
THEOREM RestartQuarantineIsKept == Spec => RestartQuarantineStays
<1>1. Lifecycle /\ [Next]_vars => [restart /\ quarantined => restart' /\ quarantined']_vars
  BY RestartQuarantineStep
<1> QED
  BY <1>1, GenerationsLifecycle, PTL DEF Spec, RestartQuarantineStays
===============================================================================
