------------------------------- MODULE Fanout -------------------------------
(***************************************************************************)
(* A scheduled notification that is pushed to several targets and survives *)
(* crashes (core/durable_fanout.py and its user plugins/earthquake): the   *)
(* job reads a feed, writes an outbox, sends to each target, marks each    *)
(* acknowledged target in the outbox, then moves the cursor and clears the *)
(* outbox.  Files change by atomic replacement, one write after another,   *)
(* on a worker thread the job waits for.  An owned wait (to_thread_owned)  *)
(* outlasts a cancellation; any other wait leaves the thread behind.       *)
(*                                                                         *)
(* The feed's posts are 1..MaxPost; those in Quakes are worth pushing.     *)
(* The transport is core's _send_action as a receipt sees it; of the       *)
(* plugin's messages only the posts they cover matter.                     *)
(***************************************************************************)
EXTENDS Integers, Sequences, FiniteSets

CONSTANTS
  NumTargets,      \* the configured groups, served in order
  MaxPost, Quakes,
  MaxCrashes, MaxFailures, MaxCancels, MaxCorruptions,  \* bounds on faults
  MaxFaults        \* and on all of them together

\* Assumed of the constants wherever they get values
FanoutAssumption ==
  /\ NumTargets \in Nat \ {0} /\ MaxPost \in Nat /\ Quakes \subseteq 1..MaxPost
  /\ {MaxCrashes, MaxFailures, MaxCancels, MaxCorruptions, MaxFaults} \subseteq Nat

VARIABLES
  feed,        \* the newest post
  active,      \* earthquake.json: the cursor, Absent or Corrupt
  checkpoint,  \* earthquake.checkpoint.json, likewise
  marker,      \* the recovery-required marker is there
  outbox,      \* earthquake_delivery.json
  pc,          \* where the job is; "idle" when _DELIVERY_LOCK is free
  cursor,      \* since_id of the scan
  pending,     \* the PendingFanout in memory
  todo,        \* targets of the pass not yet tried
  io,          \* writes left to the thread the job waits for
  leaving,     \* the job was cancelled and leaves when its thread ends
  strays,      \* writes of threads a cancelled job left behind
  faults,      \* how often each kind of fault happened
  pushed,      \* ghost: how often a target got a post, up to 2
  settled,     \* ghost: <<target, post>> acknowledged, or outcome unknown
  forgiven     \* ghost: <<target, post>> that may be out and whose target may
               \* be tried again: the acknowledgement was not saved, or the send
               \* was cut short while the transport had it

files == <<active, checkpoint, marker, outbox>>
jobState == <<pc, cursor, pending, todo, io, leaving>>
ghosts == <<pushed, settled, forgiven>>
fanoutVars == <<feed, files, jobState, strays, faults, ghosts>>

Targets == 1..NumTargets
Posts == 1..MaxPost
Missing == -1
Corrupt == -2
Cursors == {Missing, Corrupt} \cup 0..MaxPost
FaultKinds == {"crash", "failure", "cancel", "corrupt"}
Limit == [crash |-> MaxCrashes, failure |-> MaxFailures,
          cancel |-> MaxCancels, corrupt |-> MaxCorruptions]

Pending == [from : 0..MaxPost, upto : 0..MaxPost, done : SUBSET Targets]
NoPending == [from |-> 0, upto |-> 0, done |-> {}]
Covers(p) == {q \in Quakes : p.from < q /\ q <= p.upto}
Complete(p) == p.done = Targets

\* The writes of a thread; "restore" reads the checkpoint and goes on from it
Write(f, n) == [file |-> f, n |-> n, from |-> 0, done |-> {}]
WriteOutbox(p) == [file |-> "outbox", n |-> p.upto, from |-> p.from, done |-> p.done]
SaveSince(n) == <<Write("active", n), Write("checkpoint", n)>>

FanoutInit ==
  /\ feed = 0 /\ active = Missing /\ checkpoint = Missing /\ marker = FALSE
  /\ outbox = NoPending /\ pc = "idle" /\ cursor = 0 /\ pending = NoPending
  /\ todo = {} /\ io = <<>> /\ leaving = FALSE /\ strays = <<>>
  /\ faults = [k \in FaultKinds |-> 0]
  /\ pushed = [t \in Targets |-> [q \in Posts |-> 0]]
  /\ settled = {} /\ forgiven = {}

-----------------------------------------------------------------------------
(* The thread's writes *)

\* The checkpoint is good; or the plugin starts for the first time; or neither
Restorable(w) == checkpoint >= 0 \/ (checkpoint = Missing /\ w.n = 1)
AfterRestore(w) ==
  LET n == IF checkpoint >= 0 THEN checkpoint ELSE 0
  IN (IF checkpoint >= 0 THEN <<Write("active", n)>> ELSE SaveSince(n))
     \o <<Write("marker", 0)>>

\* What is left to write after the first write of q
Rest(q) == IF Head(q).file = "restore" THEN AfterRestore(Head(q)) ELSE Tail(q)

\* One replacement of a file (atomic_write_bytes)
Apply(w) ==
  /\ active' = IF w.file = "active" THEN w.n ELSE active
  /\ checkpoint' = IF w.file = "checkpoint" THEN w.n ELSE checkpoint
  /\ marker' = IF w.file = "marker" THEN w.n = 1 ELSE marker
  /\ outbox' = IF w.file = "outbox"
               THEN [from |-> w.from, upto |-> w.n, done |-> w.done] ELSE outbox

AllFaults == faults.crash + faults.failure + faults.cancel + faults.corrupt
Fault(k) == /\ faults[k] < Limit[k] /\ AllFaults < MaxFaults
            /\ faults' = [faults EXCEPT ![k] = @ + 1]

\* Messages that went out for targets whose mark is not on disk
Unsaved == IF pc = "mark" /\ io # <<>>
           THEN (pending.done \ outbox.done) \X Covers(pending) ELSE {}

Idle == pc' = "idle" /\ pending' = NoPending /\ todo' = {} /\ io' = <<>>
        /\ leaving' = FALSE /\ cursor' = 0

Work ==
  /\ io # <<>> /\ (Head(io).file = "restore" => Restorable(Head(io)))
  /\ Apply(Head(io)) /\ io' = Rest(io)
  /\ cursor' = IF pc = "load" /\ Head(io).file = "active" /\ Head(io).n >= 0
               THEN Head(io).n ELSE cursor
  /\ UNCHANGED <<feed, pc, pending, todo, leaving, strays, faults, ghosts>>

\* A write raises, or there is nothing to restore from: the job gives up
WorkFails ==
  /\ io # <<>>
  /\ \/ Head(io).file = "restore" /\ ~Restorable(Head(io)) /\ UNCHANGED faults
     \/ Fault("failure")
  /\ forgiven' = forgiven \cup Unsaved
  /\ Idle /\ UNCHANGED <<feed, files, strays, pushed, settled>>

StrayWorks ==
  \E i \in DOMAIN strays :
    /\ strays[i] # <<>>
    /\ IF Head(strays[i]).file = "restore" /\ ~Restorable(Head(strays[i]))
       THEN UNCHANGED files /\ strays' = [strays EXCEPT ![i] = <<>>]
       ELSE Apply(Head(strays[i])) /\ strays' = [strays EXCEPT ![i] = Rest(@)]
    /\ UNCHANGED <<feed, jobState, faults, ghosts>>

-----------------------------------------------------------------------------
(* The job: _scheduled_locked *)

Stands(p) == pc = p /\ io = <<>> /\ ~leaving

Deliver_Done(p) ==   \* mutant: the pass goes over the targets already served
  pc' = "deliver" /\ pending' = p /\ todo' = p.done

Deliver(p) == pc' = "deliver" /\ pending' = p /\ todo' = Targets \ p.done

\* load_pending: an unfinished outbox is resumed before anything is scanned
Start ==
  /\ pc = "idle"
  /\ IF outbox.upto > 0
     THEN Deliver(outbox) /\ UNCHANGED <<cursor, io, leaving>>
     ELSE pc' = "since" /\ UNCHANGED <<pending, todo, cursor, io, leaving>>
  /\ UNCHANGED <<feed, files, strays, faults, ghosts>>

\* A missing cursor is a first start only if no recovery is under way
MayInitialise == ~marker

\* _load_since
LoadSince ==
  /\ Stands("since") /\ pc' = "load"
  /\ CASE active >= 0 -> cursor' = active /\ io' = <<>>
       [] active = Missing -> /\ io' = <<Write("restore", IF MayInitialise THEN 1 ELSE 0)>>
                             /\ UNCHANGED cursor
       [] active = Corrupt -> /\ io' = <<Write("marker", 1), Write("active", Missing),
                                         Write("restore", 0)>>
                              /\ UNCHANGED cursor
  /\ UNCHANGED <<feed, files, pending, todo, leaving, strays, faults, ghosts>>

\* The scan finds something to push: the outbox is written first
Create ==
  /\ Stands("load") /\ Covers([from |-> cursor, upto |-> feed]) # {}
  /\ pending' = [from |-> cursor, upto |-> feed, done |-> {}]
  /\ io' = <<WriteOutbox(pending')>> /\ pc' = "create"
  /\ UNCHANGED <<feed, files, cursor, todo, leaving, strays, faults, ghosts>>

Created ==
  /\ Stands("create") /\ Deliver(pending)
  /\ UNCHANGED <<feed, files, cursor, io, leaving, strays, faults, ghosts>>

\* The scan finds posts, none of them worth a push: only the cursor moves
Advance ==
  /\ Stands("load") /\ feed > cursor /\ Covers([from |-> cursor, upto |-> feed]) = {}
  /\ io' = SaveSince(feed) /\ pc' = "advance"
  /\ UNCHANGED <<feed, files, cursor, pending, todo, leaving, strays, faults, ghosts>>

\* Nothing new, or the fetch fails
NothingNew ==
  /\ Stands("load") /\ Idle /\ UNCHANGED <<feed, files, strays, faults, ghosts>>

-----------------------------------------------------------------------------
(* _deliver_pending *)

\* The targets of a pass are tried in their order
Next_(t) == t \in todo /\ \A u \in todo : t <= u

Bump(n) == IF n < 2 THEN n + 1 ELSE n
Push(t) == pushed' = [pushed EXCEPT ![t] =
             [q \in Posts |-> IF q \in Covers(pending) THEN Bump(@[q]) ELSE @[q]]]

\* mark_delivered, in memory and then on disk
Mark(t) ==
  /\ settled' = settled \cup ({t} \X Covers(pending))
  /\ pending' = [pending EXCEPT !.done = @ \cup {t}]
  /\ io' = <<WriteOutbox(pending')>> /\ pc' = "mark"

SendOk(t) ==
  /\ Stands("deliver") /\ Next_(t) /\ Push(t) /\ Mark(t) /\ todo' = todo \ {t}
  /\ UNCHANGED <<feed, files, cursor, leaving, strays, faults, forgiven>>

Unknown_Retried(t) ==   \* mutant: an unknown outcome is rolled back
  UNCHANGED <<pc, pending, io, settled>>

\* An unknown outcome is acknowledged: at most once
Unknown(t) == Mark(t)

\* The message may have gone out; the ghost counts the worst case
SendUnknown(t) ==
  /\ Stands("deliver") /\ Next_(t) /\ Push(t)
  /\ Unknown(t) /\ todo' = todo \ {t}
  /\ UNCHANGED <<feed, files, cursor, leaving, strays, faults, forgiven>>

\* The receipt rolls back, which changes nothing: the target stays in the outbox
Refused(t) == UNCHANGED <<pc, pending, io, settled>>

SendRefused(t) ==
  /\ Stands("deliver") /\ Next_(t) /\ Refused(t) /\ todo' = todo \ {t}
  /\ UNCHANGED <<feed, files, cursor, leaving, strays, faults, pushed, forgiven>>

\* Cancelled after ws.send, while the answer is awaited: an unknown outcome
SendCancelled(t) ==
  /\ Stands("deliver") /\ Next_(t) /\ Fault("cancel") /\ Push(t)
  /\ Unknown(t) /\ todo' = todo \ {t} /\ leaving' = TRUE
  /\ UNCHANGED <<feed, files, cursor, strays, forgiven>>

\* Cancelled inside ws.send, the HTTP request or the broadcast: a CancelledError
\* like any other.  The message may be out, and the receipt rolls back: the target
\* stays in the outbox
SendCut(t) ==
  /\ Stands("deliver") /\ Next_(t) /\ Fault("cancel") /\ Push(t) /\ Idle
  /\ forgiven' = forgiven \cup ({t} \X Covers(pending))
  /\ UNCHANGED <<feed, files, strays, settled>>

Marked ==
  /\ Stands("mark") /\ pc' = "deliver"
  /\ UNCHANGED <<feed, files, cursor, pending, todo, io, leaving, strays, faults, ghosts>>

CommitWhen_Tried(p) == TRUE   \* mutant: the pass is over, so the event is done

CommitWhen(p) == Complete(p)

Commit ==
  /\ Stands("deliver") /\ todo = {} /\ CommitWhen(pending)
  /\ io' = SaveSince(pending.upto) /\ pc' = "commit"
  /\ UNCHANGED <<feed, files, cursor, pending, todo, leaving, strays, faults, ghosts>>

RetainPending ==
  /\ Stands("deliver") /\ todo = {} /\ ~CommitWhen(pending)
  /\ Idle /\ UNCHANGED <<feed, files, strays, faults, ghosts>>

Clear ==
  /\ Stands("commit") /\ io' = <<WriteOutbox(NoPending)>> /\ pc' = "clear"
  /\ UNCHANGED <<feed, files, cursor, pending, todo, leaving, strays, faults, ghosts>>

Finish ==
  /\ io = <<>> /\ (leaving \/ pc \in {"advance", "clear"})
  /\ Idle /\ UNCHANGED <<feed, files, strays, faults, ghosts>>

-----------------------------------------------------------------------------
(* Faults, and the world *)

\* The job is cancelled: an owned thread is waited for, any other is left behind.
\* At "deliver" nothing of the next message is with a transport yet (see SendCut)
Owned == pc \in {"advance", "commit", "clear"}

CancelJob ==
  /\ pc # "idle" /\ ~leaving /\ Fault("cancel")
  /\ IF Owned /\ io # <<>>
     THEN leaving' = TRUE /\ UNCHANGED <<pc, cursor, pending, todo, io, strays, forgiven>>
     ELSE /\ Idle /\ forgiven' = forgiven \cup Unsaved
          /\ strays' = IF io = <<>> THEN strays ELSE Append(strays, io)
  /\ UNCHANGED <<feed, files, pushed, settled>>

\* A second cancellation, while the mark of a cancelled send is awaited
CancelAgain ==
  /\ leaving /\ pc = "mark" /\ io # <<>>
  /\ Idle /\ forgiven' = forgiven \cup Unsaved /\ strays' = Append(strays, io)
  /\ UNCHANGED <<feed, files, faults, pushed, settled>>

Crash ==
  /\ Fault("crash") /\ (pc # "idle" \/ \E i \in DOMAIN strays : strays[i] # <<>>)
  /\ Idle /\ strays' = [i \in DOMAIN strays |-> <<>>]
  /\ forgiven' = forgiven \cup Unsaved
  /\ UNCHANGED <<feed, files, pushed, settled>>

Corruption ==
  /\ Fault("corrupt") /\ active >= 0 /\ active' = Corrupt
  /\ UNCHANGED <<feed, checkpoint, marker, outbox, jobState, strays, ghosts>>

\* Only the scan sees the feed, so a post may as well appear when it looks
NewPost ==
  /\ Stands("load") /\ feed < MaxPost /\ feed' = feed + 1
  /\ UNCHANGED <<files, jobState, strays, faults, ghosts>>

Job ==
  \/ Work \/ Start \/ LoadSince \/ Create \/ Created \/ Advance \/ NothingNew
  \/ Marked
  \/ Commit \/ RetainPending \/ Clear \/ Finish
  \/ \E t \in Targets : SendOk(t) \/ SendUnknown(t) \/ SendRefused(t)

FanoutNext ==
  \/ Job \/ WorkFails \/ StrayWorks
  \/ (\E t \in Targets : SendCancelled(t) \/ SendCut(t))
  \/ CancelJob \/ CancelAgain \/ Crash \/ Corruption \/ NewPost

FanoutSpec == FanoutInit /\ [][FanoutNext]_fanoutVars

\* A fetch that finds something, or a send that is acknowledged
Succeeds == Create \/ Advance \/ \E t \in Targets : SendOk(t)

\* The job runs again and again; what is tried for ever succeeds in the end (the
\* assumption about the feed and the chat platform)
FanoutFairSpec ==
  /\ FanoutSpec /\ WF_fanoutVars(Job) /\ WF_fanoutVars(WorkFails) /\ WF_fanoutVars(StrayWorks)
  /\ SF_fanoutVars(Succeeds)

-----------------------------------------------------------------------------
(* Properties *)

\* Every variable keeps its kind, and no fault exceeds its bound.
TypeOK ==
  /\ feed \in 0..MaxPost /\ {active, checkpoint} \subseteq Cursors
  /\ marker \in BOOLEAN /\ {outbox, pending} \subseteq Pending
  /\ cursor \in 0..MaxPost /\ todo \subseteq Targets /\ leaving \in BOOLEAN
  /\ \A k \in FaultKinds : faults[k] \in 0..Limit[k]
  /\ pc = "idle" => io = <<>> /\ pending = NoPending

Strayed == strays # <<>>

NothingSkipped ==
  \A q \in Quakes : q <= active \/ q <= checkpoint => Targets \X {q} \subseteq settled

\* A lost answer repeats nothing (the at-most-once policy of _deliver_pending): a
\* target gets a post twice only if saving its acknowledgement was cut short by a
\* crash, a failed write or a cancellation, if the send was cancelled while the
\* transport had the message, or if a cancelled job left any thread writing.
AtMostOnce ==
  \A t \in Targets, q \in Posts :
    pushed[t][q] > 1 => <<t, q>> \in forgiven \/ Strayed

CheckpointTrails ==
  active >= 0 /\ ~Strayed => checkpoint <= active

\* Neither cursor file passes a post before every target acknowledged it (or
\* its outcome stayed unknown), over crashes, failed writes, recoveries and
\* cancellations (_deliver_pending commits only a complete fan-out); and a
\* recovery never runs ahead of the cursor: the checkpoint trails it
\* (_save_since, _load_since).
CursorsSafe == NothingSkipped /\ CheckpointTrails

\* Every post worth a push reaches every target or is acknowledged as unknown,
\* unless the cursor is lost for good and an administrator must decide (as no
\* more posts come, and what is settled stays so, one or the other is for ever).
EveryPostSettled ==
  <>[](active < 0 \/ \A q \in Quakes : q <= feed => Targets \X {q} \subseteq settled)
=============================================================================
