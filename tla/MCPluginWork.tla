----------------------------- MODULE MCPluginWork -----------------------------
(***************************************************************************)
(* What runs for plugins, for TLC: their callbacks on worker threads       *)
(* (SyncBroker) and the replies they sent (ReplyDelivery).  The two share  *)
(* no state here, a behaviour picks one of them at the start and of the    *)
(* replies one scene, which bounds what happens at once:                   *)
(*   "alone"     one sender of a reply in two pieces, with every way, the  *)
(*               connection is lost,                                       *)
(*   "drop"      two senders of one piece, upstream and HTTP, the          *)
(*               connection is lost,                                       *)
(*   "revoked"   one sender of one piece, upstream and HTTP, the           *)
(*               credentials change or are withdrawn,                      *)
(*   "rotation"  two senders of one piece, upstream only, the credentials  *)
(*               are replaced under a request and nothing else goes wrong. *)
(***************************************************************************)
EXTENDS MCSyncBroker, ReplyDelivery

CONSTANTS s1, s2, s3, k1, k2
CONSTANTS Scenes

VARIABLE part

ASSUME RepliesAreBounded == ReplyAssumption

MCPieces == [s \in Senders |-> IF s = s3 THEN 2 ELSE 1]

\* In "rotation": no other way, no refusal, no cancellation, no timeout; the
\* credentials are replaced under a request, and only then the other one starts
OnlyRotates ==
  /\ auth'.trusted /\ (auth' # auth => InFlight(s1))
  /\ auth'.gen = 0 => call'[s2].at = "idle"
  /\ \A s \in Senders :
       /\ call'[s].at \notin {"outside", "pausing"} /\ call'[s].answer # "refused"
       /\ receipt'[s].cause # "cancelled"
       /\ call[s].at = "waiting" /\ call'[s].at = "over" => call[s].answer # "none"

InScene ==
  /\ auth'.gen + drops' <= 1
  /\ \A s \in Senders : (part = "alone") = (s = s3) \/ UNCHANGED call[s]
  /\ part = "revoked" => \A s \in Senders : call'[s].on # "entrance"
  /\ part = "drop" => \A s \in Senders : call'[s].at # "outside"
  /\ part \in {"alone", "drop"} => auth'.gen = 0
  /\ part \in {"revoked", "rotation"} => drops' = 0
  /\ part = "revoked" => UNCHANGED call[s2]
  /\ part = "rotation" => OnlyRotates

MCInit == part \in {"callbacks"} \cup Scenes /\ Init /\ ReplyInit

\* What the fairness is about: a step of the callbacks or one of the replies
Either(A, B) ==
  \/ part = "callbacks" /\ A /\ UNCHANGED replyVars
  \/ part # "callbacks" /\ B /\ UNCHANGED vars

\* The two callbacks are alike, so it is j1 that comes first
InTurn == jobs'[j2] # NewJob => jobs'[j1] # NewJob

\* The broker is closed under ordinary callbacks; with a gate stopped too they return
BothStopped ==
  closed' => \A j \in Jobs :
    /\ ~jobs'[j].allowClosed
    /\ (\E g \in Gates : gate'[g] # "open") => jobs'[j].outcome # "fatal"

MCNext ==
  \/ part = "callbacks" /\ Next /\ InTurn /\ BothStopped /\ UNCHANGED <<part, replyVars>>
  \/ part # "callbacks" /\ ReplyNext /\ InScene /\ UNCHANGED <<part, vars>>

all == <<vars, replyVars>>

MCSpec == MCInit /\ [][MCNext]_<<all, part>>

\* The fairness of both; the half that is not picked never moves and owes nothing
MCFairSpec ==
  /\ MCSpec
  /\ WF_all(Either(LockHolderStep, MainStep))
  /\ WF_all(Either(LoopOwes, Progress))
  /\ WF_vars(\E j \in Jobs : WorkerStart(j) \/ \E o \in Endings : WorkerFinish(j, o))
  /\ SF_all(Either(\E j \in Jobs : WorkerComplete(j), Connects))
  /\ SF_vars(ScheduledOnLoop)
  /\ SF_vars(CloseEnd)

\* Every reply ends with its receipt settled, and once credentials and network
\* are left alone there is a connection of the current credentials (each sender
\* acts once, and updates and drops are bounded).
EveryReplyEnds == <>[](part = "callbacks" \/ AtRest)
=============================================================================
