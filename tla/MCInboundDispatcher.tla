------------------------ MODULE MCInboundDispatcher ------------------------
(***************************************************************************)
(* The inbound entrance for TLC: the dispatcher of events, and the switch  *)
(* from one listener with its dispatcher to the next.  They share no state *)
(* here, a behaviour picks one of them at the start.                       *)
(***************************************************************************)
EXTENDS InboundDispatcher

CONSTANTS e1, e2, e3, e4, k1, k2
CONSTANTS Listeners, Ports, First, MaxRev, MaxFaults, MaxStops

VARIABLES part
VARIABLES config, published, claimed, mgr, task, holder, inbound, cleanup, closing, shut,
          unstopped, refused, attempts, faults

switchVars == <<config, published, claimed, mgr, task, holder, inbound, cleanup, closing,
                shut, unstopped, refused, attempts, faults>>

Switch == INSTANCE IngressSwitch WITH
  pending <- cleanup, stopping <- closing, stops <- attempts

ASSUME Switch!IngressAssumption

\* e1 and e2 share a session, e3 has one of its own
MCKeyOf == [e \in Events |-> IF e = e3 THEN k2 ELSE k1]

\* a and b have different ports; c needs the port of a and another
MCPorts == [l \in Listeners |-> CASE l = "a" -> {1} [] l = "b" -> {2} [] l = "c" -> {1, 3}]

MCInit == part \in {"dispatcher", "switch"} /\ Init /\ Switch!Init

\* e1 and e2 are alike, so it is e1 that comes first
InTurn == status'[e2] # "new" => status'[e1] # "new"

\* The application is told to stop, once or twice, or a last revision comes
OneOrOther == attempts' = 0 \/ published' < MaxRev

MCNext ==
  /\ UNCHANGED part
  /\ \/ part = "dispatcher" /\ Next /\ UNCHANGED switchVars /\ InTurn
     \/ part = "switch" /\ Switch!Next /\ UNCHANGED vars /\ OneOrOther

\* The half that is not picked never moves and owes nothing
MCSpec ==
  /\ MCInit /\ [][MCNext]_<<vars, switchVars, part>>
  /\ WF_vars(part = "dispatcher" /\ Progress)
  /\ WF_switchVars(part = "switch" /\ Switch!Progress)

OneExecutes == Switch!OneExecutes
NothingLost == Switch!NothingLost
TokensCurrent == Switch!TokensCurrent
SettledAsAsked == Switch!SettledAsAsked
EveryChangeEnds == Switch!EveryChangeEnds
FailedSwitchRestores == Switch!FailedSwitchRestores
=============================================================================
