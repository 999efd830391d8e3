----------------------------- MODULE MCBackground -----------------------------
(***************************************************************************)
(* What runs beside the conversation, for TLC: the plugin manager's jobs   *)
(* (PluginGenerations) and a scheduled push (Fanout).  They share no state *)
(* here, a behaviour picks one of them at the start.                       *)
(***************************************************************************)
EXTENDS PluginGenerations, Fanout

VARIABLE part

ASSUME FanoutAssumption

MCInit == part \in {"generations", "fanout"} /\ Init /\ FanoutInit

\* The manifest or the sources are edited, not both, and only the sources are put back
OneEdit == disk'.def + disk'.src <= 1 /\ disk'.def >= disk.def

MCNext ==
  /\ UNCHANGED part
  /\ \/ part = "generations" /\ Next /\ UNCHANGED fanoutVars /\ OneEdit
     \/ part = "fanout" /\ FanoutNext /\ UNCHANGED vars

InPush(A) == part = "fanout" /\ A

\* Each half with its own fairness; the half that is not picked never moves
MCSpec ==
  /\ MCInit /\ [][MCNext]_<<vars, fanoutVars, part>>
  /\ WF_vars(part = "generations" /\ JobStep) /\ WF_vars(part = "generations" /\ Poll)
  /\ WF_fanoutVars(InPush(Job)) /\ WF_fanoutVars(InPush(WorkFails))
  /\ WF_fanoutVars(InPush(StrayWorks))
  /\ SF_fanoutVars(InPush(Succeeds))
=============================================================================
