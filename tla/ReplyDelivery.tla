---------------------------- MODULE ReplyDelivery ----------------------------
(***************************************************************************)
(* What becomes of a reply: the sending application (core/app_delivery.py: *)
(* _send_action, _send_single_action), the receipt that tells the plugin   *)
(* (core/delivery.py: DeliveryReceipt.record) and the OneBot WebSocket     *)
(* client below them (core/onebot.py: OneBotWsClient), whose connection    *)
(* breaks and whose credentials and endpoint are changed while actions are *)
(* on their way, possibly by another thread.                               *)
(*                                                                         *)
(* All of it runs on one event loop except `update`, which swaps the       *)
(* credentials under a lock at any time and leaves the rest to a callback  *)
(* on the loop.  A sender is a task inside _send_action: it sends its      *)
(* pieces one after the other, each over the first way that takes it: the  *)
(* upstream WebSocket, the clients of the inbound WebSocket entrance, the  *)
(* upstream again while it may wait for it, HTTP.  The remote side is      *)
(* external: it carries out a piece, refuses it or loses it.               *)
(***************************************************************************)
EXTENDS Integers, FiniteSets

CONSTANTS
  Senders,       \* tasks inside _send_action, each with one receipt
  Pieces,        \* [Senders -> number of actions the reply is split into]
  Patient,       \* senders with wait_ws_seconds > 0
  Outside,       \* the other ways that are configured: "entrance", "http"
  Links,         \* sockets, with the attempts that opened them
  NoLink,
  MaxRotations,  \* bound: updates of credentials or endpoint
  MaxDrops,      \* bound: connections lost
  MaxTries       \* bound: times one piece is given to a way

\* Assumed of the constants wherever they get values
ReplyAssumption ==
  /\ Pieces \in [Senders -> Nat \ {0}]
  /\ Patient \subseteq Senders
  /\ Outside \subseteq {"entrance", "http"}
  /\ Links \cap {NoLink, "entrance", "http"} = {}
  /\ MaxRotations \in Nat /\ MaxDrops \in Nat /\ MaxTries \in Nat

VARIABLES
  auth,       \* _endpoint_auth: its generation, and whether it is trusted
  ws,         \* _ws, the published socket
  link,       \* each attempt task (_connect_once) with its socket
  main,       \* where connect_and_listen is, and the attempt it races
  wakeup,     \* _reconnect_wakeup is set
  rotations,  \* invalidate_previous_generation callbacks due on the loop
  drops,      \* connections lost so far
  call,       \* where each sender is, and what it sends
  frames,     \* requests written and not yet answered
  ran,        \* how often the remote side carried out each piece
  receipt     \* DeliveryReceipt of each sender

clientVars == <<auth, ws, link, main, wakeup, rotations, drops>>
replyVars == <<clientVars, call, frames, ran, receipt>>

Ways == Links \cup {"entrance", "http"}
PieceNumbers == UNION {1 .. Pieces[s] : s \in Senders}

\* An attempt task.  phase: where it is; gen: the credentials it dialled with;
\* open: its socket is in state OPEN; cut: a cancellation is on its way to it;
\* closing: _ws_close_tasks owns a close of it.
Unused == [phase |-> "none", gen |-> 0, open |-> FALSE, cut |-> FALSE, closing |-> FALSE]

\* A sender.  rank: how far _send_single_action has come down its list of ways;
\* on: the way; out: the frame was handed to the socket; any: any_delivered.
Resting == [at |-> "idle", piece |-> 1, try |-> 0, rank |-> 0, on |-> NoLink, gen |-> 0,
            out |-> FALSE, answer |-> "none", any |-> FALSE]

\* cause and piece of the outcome are history: what settled the receipt
Unsettled == [got |-> 0, outcome |-> "open", cause |-> "none", piece |-> 0]

ReplyInit ==
  /\ auth = [gen |-> 0, trusted |-> TRUE] /\ ws = NoLink
  /\ link = [k \in Links |-> Unused]
  /\ main = [at |-> "top", on |-> NoLink] /\ wakeup = FALSE
  /\ rotations = {} /\ drops = 0
  /\ call = [s \in Senders |-> Resting]
  /\ frames = {}
  /\ ran = [s \in Senders |-> [i \in 1 .. Pieces[s] |-> 0]]
  /\ receipt = [s \in Senders |-> Unsettled]

-----------------------------------------------------------------------------
(* Pending requests *)

InFlight(s) == call[s].at \in {"writing", "waiting"}

\* _connected_target: a published socket of the current credentials that is open
Usable ==
  /\ ws # NoLink /\ auth.trusted
  /\ link[ws].gen = auth.gen /\ link[ws].open

\* _fail_pending_action_futures of one generation, except for one caller
Failed(c, g, except) ==
  [s \in Senders |->
     IF c[s].at \in {"writing", "waiting"} /\ c[s].gen = g /\ c[s].answer = "none" /\ s # except
     THEN [c[s] EXCEPT !.answer = "failed"] ELSE c[s]]

NoSender == NoLink

Unpublished(k) == IF ws = k THEN NoLink ELSE ws

-----------------------------------------------------------------------------
(* The connection: update and what it leaves to the loop *)

\* update(): from any thread; the old connection is unusable from here on
Rotate(trusted) ==
  /\ auth.gen < MaxRotations
  /\ auth' = [gen |-> auth.gen + 1, trusted |-> trusted]
  /\ rotations' = rotations \cup {[gen |-> auth.gen, on |-> ws]}
  /\ UNCHANGED <<ws, link, main, wakeup, drops, call, frames, ran, receipt>>

\* invalidate_previous_generation on the loop
Invalidate(r) ==
  /\ rotations' = rotations \ {r}
  /\ call' = Failed(call, r.gen, NoSender)
  /\ wakeup' = TRUE
  /\ link' = [k \in Links |->
       IF k = r.on /\ link[k].phase \in {"listening", "ending", "leaving"}
       THEN [link[k] EXCEPT !.closing = TRUE] ELSE link[k]]
  /\ UNCHANGED <<auth, ws, main, drops, frames, ran, receipt>>

\* A close task has ended (observe_close_result)
CloseEnds(k) ==
  /\ link[k].closing
  /\ link' = [link EXCEPT ![k].closing = FALSE, ![k].open = FALSE]
  /\ ws' = Unpublished(k)
  /\ UNCHANGED <<auth, main, wakeup, rotations, drops, call, frames, ran, receipt>>

\* The network or the other side ends a connection
Drop(k) ==
  /\ link[k].open /\ drops < MaxDrops
  /\ link' = [link EXCEPT ![k].open = FALSE]
  /\ drops' = drops + 1
  /\ UNCHANGED <<auth, ws, main, wakeup, rotations, call, frames, ran, receipt>>

-----------------------------------------------------------------------------
(* An attempt: _connect_once and _listen *)

\* The socket of an attempt that ended is of no more use to anybody.  The
\* remote side has carried out some of what it was sent and not answered.
Leave(k, phase) ==
  /\ link' = [link EXCEPT ![k] =
       [Unused EXCEPT !.phase = IF main.on = k THEN phase ELSE "none",
                    !.closing = link[k].closing]]
  /\ \E arrived \in SUBSET {f \in frames : f.on = k /\ f.state = "out"} :
       ran' = [s \in Senders |-> [i \in 1 .. Pieces[s] |->
                 ran[s][i] + Cardinality({f \in arrived : f.by = s /\ f.piece = i})]]
  /\ frames' = {f \in frames : f.on # k}

\* The task's first step reads the credentials; without any it ends as revoked
Dial(k) ==
  /\ link[k].phase = "starting"
  /\ \/ ~link[k].cut /\ auth.trusted
        /\ link' = [link EXCEPT ![k].phase = "dialing", ![k].gen = auth.gen]
        /\ UNCHANGED <<frames, ran>>
     \/ ~link[k].cut /\ ~auth.trusted /\ Leave(k, "revoked")
     \/ link[k].cut /\ Leave(k, "over")
  /\ UNCHANGED <<auth, ws, main, wakeup, rotations, drops, call, receipt>>

DialFails(k) ==
  /\ link[k].phase = "dialing" /\ Leave(k, "over")
  /\ UNCHANGED <<auth, ws, main, wakeup, rotations, drops, call, receipt>>

\* The handshake is done: _listen publishes the socket unless it is outdated
Connect(k) ==
  /\ link[k].phase = "dialing" /\ ~link[k].cut
  /\ IF link[k].gen = auth.gen
     THEN /\ link' = [link EXCEPT ![k].phase = "listening", ![k].open = TRUE]
          /\ ws' = k
     ELSE /\ link' = [link EXCEPT ![k].phase = "leaving"]
          /\ UNCHANGED ws
  /\ UNCHANGED <<auth, main, wakeup, rotations, drops, call, frames, ran, receipt>>

\* The read loop gets any frame on a connection of outdated credentials: it closes
HearStale(k) ==
  /\ link[k].phase = "listening" /\ link[k].open /\ link[k].gen # auth.gen
  /\ link' = [link EXCEPT ![k].open = FALSE]
  /\ UNCHANGED <<auth, ws, main, wakeup, rotations, drops, call, frames, ran, receipt>>

\* _resolve_action_response
Accepts(f) ==
  LET c == call[f.by] IN
  /\ link[f.on].gen = auth.gen
  /\ InFlight(f.by) /\ c.answer = "none" /\ c.gen = link[f.on].gen
  /\ c.piece = f.piece /\ c.try = f.try

\* The read loop gets the answer to a request
HearAnswer(f) ==
  /\ f.on \in Links /\ f.state # "out" /\ link[f.on].phase = "listening"
  /\ frames' = frames \ {f}
  /\ call' = IF Accepts(f) THEN [call EXCEPT ![f.by].answer = f.state] ELSE call
  /\ link' = [link EXCEPT ![f.on].open = link[f.on].gen = auth.gen /\ @]
  /\ UNCHANGED <<auth, ws, main, wakeup, rotations, drops, ran, receipt>>

\* The read loop ends; what waits for answers of these credentials fails
StopListening(k) ==
  /\ link[k].phase = "listening" /\ (~link[k].open \/ link[k].cut)
  /\ call' = Failed(call, link[k].gen, NoSender)
  /\ link' = [link EXCEPT ![k].phase = "ending", ![k].cut = FALSE]
  /\ UNCHANGED <<auth, ws, main, wakeup, rotations, drops, frames, ran, receipt>>

\* The on-connect callback is collected, or a second cancellation ends the wait
\* for it and the socket stays published; the connection is closed next
Unpublish(k) ==
  /\ link[k].phase = "ending"
  /\ link' = [link EXCEPT ![k].phase = "leaving", ![k].open = FALSE, ![k].cut = FALSE]
  /\ ws' = IF link[k].cut THEN ws ELSE Unpublished(k)
  /\ UNCHANGED <<auth, main, wakeup, rotations, drops, call, frames, ran, receipt>>

Gone(k) ==
  /\ link[k].phase = "leaving" /\ Leave(k, "over")
  /\ UNCHANGED <<auth, ws, main, wakeup, rotations, drops, call, receipt>>

-----------------------------------------------------------------------------
(* connect_and_listen: _run_reconnect_iteration *)

Free(k) ==
  /\ link[k] = Unused /\ ws # k
  /\ \A r \in rotations : r.on # k
  /\ \A s \in Senders : InFlight(s) => call[s].on # k

\* Mutant: the wakeup is not cleared before the next attempt
Iterate_WakesForEver ==
  /\ main.at = "top" /\ auth.trusted
  /\ \E k \in Links : Free(k)
  /\ LET k == CHOOSE k \in Links : Free(k) IN
       /\ main' = [at |-> "racing", on |-> k]
       /\ link' = [link EXCEPT ![k].phase = "starting"]
  /\ UNCHANGED <<auth, ws, wakeup, rotations, drops, call, frames, ran, receipt>>

\* Without credentials it waits for better ones, else it starts an attempt
\* (which of the unused names it gets makes no difference)
Iterate ==
  /\ main.at = "top"
  /\ wakeup' = FALSE
  /\ \/ /\ ~auth.trusted
        /\ main' = [at |-> "backoff", on |-> NoLink] /\ UNCHANGED link
     \/ /\ auth.trusted
        /\ \E k \in Links : Free(k)
        /\ LET k == CHOOSE k \in Links : Free(k) IN
             /\ main' = [at |-> "racing", on |-> k]
             /\ link' = [link EXCEPT ![k].phase = "starting"]
  /\ UNCHANGED <<auth, ws, rotations, drops, call, frames, ran, receipt>>

\* The attempt ended by itself
AttemptEnds ==
  /\ main.at = "racing" /\ link[main.on].phase \in {"over", "revoked"}
  /\ link' = [link EXCEPT ![main.on].phase = "none"]
  /\ IF link[main.on].phase = "revoked" \/ wakeup
     THEN main' = [at |-> "top", on |-> NoLink] /\ UNCHANGED ws
     ELSE main' = [at |-> "backoff", on |-> NoLink] /\ ws' = NoLink
  /\ UNCHANGED <<auth, wakeup, rotations, drops, call, frames, ran, receipt>>

\* The wakeup wins the race: the attempt is cancelled
WakeRace ==
  /\ main.at = "racing" /\ wakeup
  /\ link[main.on].phase \notin {"over", "revoked"}
  /\ link' = [link EXCEPT ![main.on].cut = TRUE]
  /\ main' = [main EXCEPT !.at = "revoking"]
  /\ UNCHANGED <<auth, ws, wakeup, rotations, drops, call, frames, ran, receipt>>

\* It ended, or the grace period did and it is left to itself (quarantined)
MoveOn ==
  /\ main.at = "revoking" /\ ~link[main.on].cut
  /\ main' = [at |-> "top", on |-> NoLink]
  /\ link' = [link EXCEPT ![main.on].phase = IF @ \in {"over", "revoked"} THEN "none" ELSE @]
  /\ UNCHANGED <<auth, ws, wakeup, rotations, drops, call, frames, ran, receipt>>

\* A sender that resumes in the next turn of the loop: its request has failed
Resuming(s) ==
  \/ call[s].at = "waiting" /\ call[s].answer # "none"
  \/ call[s].at = "writing" /\ link[call[s].on].phase = "none"

\* _wait_for_reconnect: the wakeup, or the timer, which is seconds away and so
\* never overtakes a sender that is due to resume
Retry ==
  /\ main.at = "backoff"
  /\ wakeup \/ \A s \in Senders : ~Resuming(s)
  /\ main' = [main EXCEPT !.at = "top"]
  /\ UNCHANGED <<auth, ws, link, wakeup, rotations, drops, call, frames, ran, receipt>>

MainStep == Iterate \/ AttemptEnds \/ WakeRace \/ MoveOn \/ Retry

-----------------------------------------------------------------------------
(* A sender: _send_action, _send_single_action and request_action *)

\* DeliveryReceipt.record: only the first final outcome counts
Recorded(s, verdict, cause, piece) ==
  LET r == receipt[s]
      by(outcome, got) == [got |-> got, outcome |-> outcome, cause |-> cause, piece |-> piece] IN
  IF r.outcome # "open" THEN r
  ELSE CASE verdict = "unknown" -> by("unknown", r.got)
         [] verdict = "refused" -> by("rolled_back", r.got)
         [] verdict = "done"    ->
              IF r.got + 1 >= Pieces[s] THEN by("committed", r.got + 1)
              ELSE [r EXCEPT !.got = @ + 1]

\* The end of one piece: its result is recorded, then it is the next one's turn
Finished(c, s, piece, verdict) ==
  [c EXCEPT ![s] = [Resting EXCEPT
     !.at = IF piece < Pieces[s] THEN "between" ELSE "over",
     !.piece = piece,
     !.any = c[s].any \/ verdict = "done"]]

Record(s, piece, verdict) ==
  receipt' = [receipt EXCEPT ![s] = Recorded(s, verdict, "result", piece)]

Finish(s, piece, verdict) ==
  call' = Finished(call, s, piece, verdict) /\ Record(s, piece, verdict)

On(s, at, rank, way, piece) ==
  [call EXCEPT ![s] = [Resting EXCEPT
     !.at = at, !.piece = piece, !.rank = rank, !.on = way, !.any = call[s].any,
     !.try = call[s].try + 1,
     !.gen = IF way \in Links THEN auth.gen ELSE 0]]

\* The list of ways: 1 upstream, 2 entrance, 3 upstream again, 4 HTTP, 5 none.
\* Clients of the entrance come and go.
Closed(s, rank) ==
  CASE rank = 1 -> ~Usable
    [] rank = 2 -> TRUE
    [] rank = 3 -> s \notin Patient
    [] rank = 4 -> "http" \notin Outside \/ ~auth.trusted

Request(s, on, piece, try) == [by |-> s, piece |-> piece, try |-> try, on |-> on, state |-> "out"]

Outwards(s, rank, way, piece) ==
  /\ call' = On(s, "outside", rank, way, piece)
  /\ frames' = frames \cup {Request(s, way, piece, call'[s].try)}
  /\ UNCHANGED receipt

\* request_action claims the connection under the lock, then writes
Claim(s, rank, piece) ==
  /\ Usable
  /\ call' = On(s, "writing", rank, ws, piece)
  /\ UNCHANGED <<frames, receipt>>

SendBy(s, rank, piece) ==
  \/ rank \in {1, 3} /\ call[s].try < MaxTries /\ Claim(s, rank, piece)
  \/ rank = 2 /\ "entrance" \in Outside /\ Outwards(s, rank, "entrance", piece)
  \/ /\ rank = 3 /\ s \in Patient /\ ~(Usable /\ call[s].try < MaxTries)
     /\ call' = [call EXCEPT ![s] = [Resting EXCEPT
          !.at = "pausing", !.piece = piece, !.rank = 3,
          !.try = call[s].try, !.any = call[s].any]]
     /\ UNCHANGED <<frames, receipt>>
  \/ rank = 4 /\ ~Closed(s, 4) /\ Outwards(s, rank, "http", piece)
  \/ /\ rank = 5
     /\ Finish(s, piece, "refused")
     /\ UNCHANGED frames

\* To the first way below that takes the piece
Down(s, from, piece) ==
  \E rank \in (from + 1) .. 5 :
    /\ \A r \in (from + 1) .. (rank - 1) : Closed(s, r)
    /\ SendBy(s, rank, piece)

\* A refusal needs no care: whatever takes the piece next may
Refused(s) == Down(s, call[s].rank, call[s].piece)

Start(s) ==
  /\ call[s].at = "idle" /\ Down(s, 0, 1)
  /\ UNCHANGED <<clientVars, ran>>

\* After the pause between two pieces (MESSAGE_SPLIT_DELAY)
NextPiece(s) ==
  /\ call[s].at = "between" /\ Down(s, 0, call[s].piece + 1)
  /\ UNCHANGED <<clientVars, ran>>

\* The frame leaves while the sender is inside ws.send ...
WriteOut(s) ==
  LET c == call[s] IN
  /\ c.at = "writing" /\ ~c.out /\ link[c.on].open
  /\ call' = [call EXCEPT ![s].out = TRUE]
  /\ frames' = frames \cup {Request(s, c.on, c.piece, c.try)}
  /\ UNCHANGED <<clientVars, ran, receipt>>

\* ... which returns after it
Written(s) ==
  /\ call[s].at = "writing" /\ call[s].out
  /\ call' = [call EXCEPT ![s].at = "waiting"]
  /\ UNCHANGED <<clientVars, frames, ran, receipt>>

\* Mutant: a request that broke is given to the next way
Broken_FallsBack(s) ==
  LET c == call[s] IN
  /\ \/ c.at = "writing" /\ ~link[c.on].open
     \/ c.at = "waiting" /\ c.answer = "failed"
  /\ Refused(s)
  /\ UNCHANGED <<clientVars, ran>>

\* ws.send raised, or the answer was failed by somebody: OneBotActionOutcomeUnknown,
\* and what else waits on these credentials is failed as well
Broken(s) ==
  LET c == call[s] IN
  /\ \/ c.at = "writing" /\ ~link[c.on].open
     \/ c.at = "waiting" /\ c.answer = "failed"
  /\ ws' = Unpublished(c.on)
  /\ call' = Finished(Failed(call, c.gen, s), s, c.piece, "unknown")
  /\ Record(s, c.piece, "unknown")
  /\ UNCHANGED <<auth, link, main, wakeup, rotations, drops, frames, ran>>

TimesOut(s) ==
  /\ call[s].at = "waiting" /\ call[s].answer = "none"
  /\ Finish(s, call[s].piece, "unknown")
  /\ UNCHANGED <<clientVars, frames, ran>>

\* The answer is there: a refused piece goes down the list of ways
Answered(s) ==
  /\ call[s].at = "waiting"
  /\ \/ call[s].answer = "done" /\ Finish(s, call[s].piece, "done") /\ UNCHANGED frames
     \/ call[s].answer = "refused" /\ Refused(s)
  /\ UNCHANGED <<clientVars, ran>>

\* wait_ws_seconds: looked at every 0.1 s until the deadline
LookAgain(s) ==
  /\ call[s].at = "pausing"
  /\ \/ call[s].try < MaxTries /\ Claim(s, 3, call[s].piece)
     \/ Down(s, 3, call[s].piece)
  /\ UNCHANGED <<clientVars, ran>>

\* HTTP answers or fails without telling; a broadcast is delivered, fails or
\* times out
Returns(s) ==
  /\ call[s].at = "outside"
  /\ \E f \in frames :
       /\ f.by = s /\ f.piece = call[s].piece /\ f.try = call[s].try
       /\ \/ Finish(s, f.piece, "unknown") /\ frames' = IF f.state = "out" THEN frames ELSE frames \ {f}
          \/ f.state = "done" /\ Finish(s, f.piece, "done") /\ frames' = frames \ {f}
          \/ f.state = "refused" /\ Refused(s)
  /\ UNCHANGED <<clientVars, ran>>

\* The task is cancelled at any of its awaits.  Only a cancellation while the
\* answer is awaited says that the piece was committed.
CancelSend(s) ==
  LET c == call[s]
      verdict == IF c.at = "waiting" \/ c.any THEN "unknown" ELSE "refused"
      cause == IF c.at = "outside" \/ (c.at = "writing" /\ c.out)
               THEN "cancelled_in_flight" ELSE "cancelled" IN
  /\ c.at \notin {"idle", "over"}
  /\ call' = [call EXCEPT ![s] = [Resting EXCEPT !.at = "over", !.piece = c.piece]]
  /\ receipt' = [receipt EXCEPT ![s] = Recorded(s, verdict, cause, c.piece)]
  /\ UNCHANGED <<clientVars, frames, ran>>

\* The remote side carries out a request it got, or refuses it
Execute(f) ==
  /\ f.state = "out"
  /\ \/ /\ frames' = (frames \ {f}) \cup {[f EXCEPT !.state = "done"]}
        /\ ran' = [ran EXCEPT ![f.by][f.piece] = @ + 1]
     \/ /\ frames' = (frames \ {f}) \cup {[f EXCEPT !.state = "refused"]}
        /\ UNCHANGED ran
  /\ UNCHANGED <<clientVars, call, receipt>>

SenderStep(s) ==
  \/ NextPiece(s) \/ WriteOut(s) \/ Written(s) \/ Broken(s) \/ TimesOut(s)
  \/ Answered(s) \/ LookAgain(s) \/ Returns(s)

-----------------------------------------------------------------------------

LinkStep ==
  \/ \E r \in rotations : Invalidate(r)
  \/ \E k \in Links : \/ CloseEnds(k) \/ Dial(k) \/ DialFails(k) \/ HearStale(k)
                     \/ StopListening(k) \/ Unpublish(k) \/ Gone(k)
  \/ \E f \in frames : HearAnswer(f)

Connects == \E k \in Links : Connect(k)

ReplyNext ==
  \/ \E trusted \in BOOLEAN : Rotate(trusted)
  \/ \E k \in Links : Drop(k)
  \/ MainStep \/ LinkStep \/ Connects
  \/ \E s \in Senders : Start(s) \/ SenderStep(s) \/ CancelSend(s)
  \/ \E f \in frames : Execute(f)

ReplySpec == ReplyInit /\ [][ReplyNext]_replyVars

\* What the loop, timers and the network do by themselves
Progress == LinkStep \/ \E s \in Senders : SenderStep(s)

(***************************************************************************)
(* The loop runs what is due, requests and closes are bounded by time-outs *)
(* (weak fairness), and a connection that is tried for ever is made in the *)
(* end.  Credentials, drops, cancellations and the remote side owe nothing.*)
(***************************************************************************)
ReplyFairSpec == ReplySpec /\ WF_replyVars(MainStep) /\ WF_replyVars(Progress) /\ SF_replyVars(Connects)

-----------------------------------------------------------------------------
(* Properties *)

CallType ==
  [at : {"idle", "writing", "waiting", "pausing", "outside", "between", "over"},
   piece : PieceNumbers \cup {1}, try : 0 .. MaxTries + 4, rank : 0 .. 4,
   on : Ways \cup {NoLink}, gen : 0 .. MaxRotations, out : BOOLEAN,
   answer : {"none", "done", "refused", "failed"}, any : BOOLEAN]

RepliesTyped ==
  /\ auth \in [gen : 0 .. MaxRotations, trusted : BOOLEAN]
  /\ ws \in Links \cup {NoLink}
  /\ link \in [Links -> [phase : {"none", "starting", "dialing", "listening", "ending",
                                 "leaving", "over", "revoked"},
                         gen : 0 .. MaxRotations, open : BOOLEAN, cut : BOOLEAN,
                         closing : BOOLEAN]]
  /\ main \in [at : {"top", "backoff", "racing", "revoking"}, on : Links \cup {NoLink}]
  /\ wakeup \in BOOLEAN
  /\ rotations \subseteq [gen : 0 .. MaxRotations, on : Links \cup {NoLink}]
  /\ drops \in 0 .. MaxDrops
  /\ call \in [Senders -> CallType]
  /\ frames \subseteq [by : Senders, piece : PieceNumbers, try : Nat, on : Ways,
                       state : {"out", "done", "refused"}]
  /\ \A s \in Senders : ran[s] \in [1 .. Pieces[s] -> Nat]
  /\ receipt \in [Senders -> [got : Nat, outcome : {"open", "committed", "rolled_back", "unknown"},
                              cause : {"none", "result", "cancelled", "cancelled_in_flight"},
                              piece : {0} \cup PieceNumbers]]

\* No piece of a reply is carried out twice, whatever way it is given to after
\* another one failed (the fallback is suppressed once the outcome is unknown).
RanOnce == \A s \in Senders : \A i \in 1 .. Pieces[s] : ran[s][i] <= 1

\* What a receipt says is what happened and what still can: a committed reply
\* was carried out as a whole; a piece that rolled it back was not and will not
\* be; a reply a cancellation rolled back was not started.  (A cancellation
\* inside ws.send or of an HTTP request rolls back too, see README.)
ReceiptsTrue ==
  \A s \in Senders :
    LET r == receipt[s]
        out(i) == \E f \in frames : f.by = s /\ f.piece = i /\ f.state = "out" IN
    /\ r.outcome = "committed" => \A i \in 1 .. Pieces[s] : ran[s][i] = 1
    /\ r.outcome = "rolled_back" /\ r.cause = "result" => ran[s][r.piece] = 0 /\ ~out(r.piece)
    /\ r.outcome = "rolled_back" /\ r.cause = "cancelled" =>
         \A i \in 1 .. Pieces[s] : ran[s][i] = 0 /\ ~out(i)
    /\ call[s].at = "over" => r.outcome # "open"

\* The plugin learns the truth about its reply, and nobody hears a piece twice.
DeliveredAsTold == RepliesTyped /\ RanOnce /\ ReceiptsTrue

\* Some attempt listens on an open socket of the current credentials
Connected ==
  \E k \in Links : link[k].phase = "listening" /\ link[k].open /\ link[k].gen = auth.gen

\* No reply is under way, and with credentials there is a connection
AtRest ==
  /\ \A s \in Senders : call[s].at \in {"idle", "over"}
  /\ auth.trusted => Connected

=============================================================================
