------------------------------ MODULE Dispatcher ------------------------------
(***************************************************************************)
(* Dispatching one message (core/dispatcher.py: Dispatcher.handle_event,   *)
(* _process_event, _try_handle_session, _execute_command).                 *)
(*                                                                         *)
(* A message goes to the active session of its key or to a command.        *)
(* Either runs through the execution gate of a plugin generation, and a    *)
(* session transaction takes the key's lock inside the gate.  Between the  *)
(* look at the session and the transaction the session may be replaced     *)
(* and the plugin reloaded.                                                *)
(*                                                                         *)
(* session_ids and gates are compared and nothing else, so a message keeps *)
(* only how what it observed relates to what is there: the session it saw  *)
(* is the stored one or stale, the gate it goes through open or closed.    *)
(*                                                                         *)
(* A task is a message that has its slot of the AdjustableSemaphore and,   *)
(* after it, the next one of the same key.  The gate is used as            *)
(* ExecutionGate describes it (slots; a refusal or a time-out at any       *)
(* moment; abandoned work quarantines it), the store as AtomicSessions     *)
(* promises, the lock as KeyMutex does.                                    *)
(***************************************************************************)
EXTENDS Integers, FiniteSets

CONSTANTS
  Messages,          \* the tasks
  Keys, KeyOf,       \* session keys, and the key of each task's messages
  Plugins,
  GateSlots,         \* calls a gate runs at a time
  NoTask, NoSession, NoGate

VARIABLES
  stored,     \* the plugin of the stored session of a key, or NoSession
  holder,     \* the task whose transaction holds the key
  live,       \* plugins that are registered
  step,       \* "new", "session", "gate", "called", "delete" or "done"; or
              \* "cancelled", when a CancelledError takes it out
  job,        \* what the message wants of the gate: "continue", "cleanup", "command"
  through,    \* the gate it goes through: its plugin, and whether it is open
  tries,      \* attempts left in _try_handle_session
  view,       \* the session it observed (expected_generation) is still the
              \* stored one: "current", or "stale"; "none" before it looked
  op,         \* the gate's operation: "none", "lock", "callback", "closing",
              \* "handler", "creating"
  orphans,    \* tasks whose operation the gate abandoned and cancelled
  failed      \* ghost: messages whose session callback raised

keyVars  == <<stored, holder>>
flowVars == <<step, job, through, tries>>
opVars   == <<op, orphans>>
vars == <<keyVars, live, flowVars, view, opVars, failed>>

Gate(p) == [plugin |-> p, open |-> TRUE]

Init ==
  /\ stored = [k \in Keys |-> NoSession]
  /\ holder = [k \in Keys |-> NoTask]
  /\ live = Plugins
  /\ step = [t \in Messages |-> "new"] /\ job = [t \in Messages |-> "none"]
  /\ through = [t \in Messages |-> NoGate] /\ tries = [t \in Messages |-> 0]
  /\ view = [t \in Messages |-> "none"] /\ op = [t \in Messages |-> "none"]
  /\ orphans = {} /\ failed = {}

-----------------------------------------------------------------------------
Free(t) == holder[KeyOf[t]] = NoTask
Here(t) == stored[KeyOf[t]]

\* Another session, or none, is stored at k: whatever was observed is stale
Store(k, s) ==
  /\ stored' = [stored EXCEPT ![k] = s]
  /\ view' = [t \in Messages |-> IF KeyOf[t] = k /\ view[t] = "current" THEN "stale" ELSE view[t]]

Keep == UNCHANGED <<stored, view>>

Goto(t, s) == step' = [step EXCEPT ![t] = s]
Wants(t, what, gate) ==
  job' = [job EXCEPT ![t] = what] /\ through' = [through EXCEPT ![t] = gate]
Finish(t) == Goto(t, "done") /\ Wants(t, "none", NoGate)
Runs(t, what) == op' = [op EXCEPT ![t] = what]

\* Steps E to G: a command of a registered plugin, or nothing that needs a gate
Route(t) == Finish(t) \/ \E p \in live : Goto(t, "gate") /\ Wants(t, "command", Gate(p))

\* Step A: the message has its slot and peeks for an active session
Peek(t) ==
  /\ step[t] = "new" /\ op[t] = "none" /\ Free(t)
  /\ IF Here(t) # NoSession
     THEN Goto(t, "session") /\ tries' = [tries EXCEPT ![t] = 2] /\ UNCHANGED <<job, through>>
     ELSE Route(t) /\ UNCHANGED tries
  /\ UNCHANGED <<keyVars, live, view, opVars, failed>>

\* One attempt: the session and the gate of its plugin are observed; without a
\* plugin the transaction runs under no gate
Snapshot(t) ==
  /\ step[t] = "session" /\ tries[t] > 0 /\ Free(t)
  /\ IF Here(t) = NoSession
     THEN Route(t) /\ tries' = [tries EXCEPT ![t] = 0] /\ UNCHANGED <<view, op>>
     ELSE /\ view' = [view EXCEPT ![t] = "current"]
          /\ tries' = [tries EXCEPT ![t] = @ - 1]
          /\ IF Here(t) \in live
             THEN Wants(t, "continue", Gate(Here(t))) /\ Goto(t, "gate") /\ UNCHANGED op
             ELSE Wants(t, "continue", NoGate) /\ Goto(t, "called") /\ Runs(t, "lock")
  /\ UNCHANGED <<keyVars, live, orphans, failed>>

TwiceReplaced(t) ==
  /\ step[t] = "session" /\ tries[t] = 0 /\ Route(t)
  /\ UNCHANGED <<keyVars, live, tries, view, opVars, failed>>

-----------------------------------------------------------------------------
(* The gate *)

Inside(p) == {u \in Messages : step[u] = "called" /\ through[u] = Gate(p)}
Waiting(p) == {u \in Messages : step[u] = "gate" /\ through[u] = Gate(p)}
Quarantined(p) == \E u \in orphans : through[u] = Gate(p)

Admit(t) ==
  /\ step[t] = "gate" /\ through[t].open /\ ~Quarantined(through[t].plugin)
  /\ Cardinality(Inside(through[t].plugin)) < GateSlots
  /\ Goto(t, "called") /\ Runs(t, IF job[t] = "command" THEN "handler" ELSE "lock")
  /\ UNCHANGED <<keyVars, live, job, through, tries, view, orphans, failed>>

\* Where PluginExecutionClosed, Timeout or Unavailable takes the message
Next_(t) == IF job[t] = "cleanup" THEN "delete" ELSE "done"

Refuse(t) ==
  /\ step[t] = "gate"
  /\ Goto(t, Next_(t)) /\ Wants(t, "none", NoGate) /\ tries' = [tries EXCEPT ![t] = 0]
  /\ UNCHANGED <<keyVars, live, view, opVars, failed>>

\* Operations that wait for the key are gone with their cancellation; others
\* go on until the plugin's code ends
Abandon(S) ==
  /\ orphans' = orphans \cup {t \in S : op[t] # "lock"}
  /\ op' = [t \in Messages |-> IF t \in S /\ op[t] = "lock" THEN "none" ELSE op[t]]

TimesOut(t) ==
  /\ step[t] = "called" /\ through[t] # NoGate /\ Abandon({t})
  /\ Goto(t, Next_(t)) /\ tries' = [tries EXCEPT ![t] = 0]
  /\ UNCHANGED <<keyVars, live, job, through, view, failed>>

-----------------------------------------------------------------------------
(* Session transactions *)

\* The operation of t ended with `how`: the message goes on, unless the gate
\* has abandoned the operation
Return(t, how) ==
  /\ Runs(t, "none") /\ orphans' = orphans \ {t}
  /\ IF t \in orphans
     THEN Wants(t, "none", NoGate) /\ UNCHANGED <<step, tries, failed>>
     ELSE /\ CASE how = "none" /\ job[t] = "continue" -> Route(t)
               [] how = "changed" /\ job[t] = "continue" ->
                    Goto(t, "session") /\ Wants(t, "none", NoGate)
               [] how = "failed" -> Goto(t, "gate") /\ Wants(t, "cleanup", through[t])
               [] OTHER -> Finish(t)
          /\ tries' = [tries EXCEPT ![t] = IF how = "changed" /\ job[t] = "continue" THEN @ ELSE 0]
          /\ failed' = IF how = "failed" THEN failed \cup {t} ELSE failed
  /\ UNCHANGED <<live>>

SameGeneration_Plugin(t) ==   \* mutant: the session_id is not compared
  Here(t) = (IF through[t] = NoGate THEN Here(t) ELSE through[t].plugin)

SameGeneration(t) == view[t] = "current"

Lock(t) == holder' = [holder EXCEPT ![KeyOf[t]] = t]
Unlock_Kept(t) ==   \* mutant: an abandoned transaction keeps its key
  holder' = IF t \in orphans THEN holder ELSE [holder EXCEPT ![KeyOf[t]] = NoTask]

Unlock(t) == holder' = [holder EXCEPT ![KeyOf[t]] = NoTask]

\* The transaction has the key, and looks at what it finds
Begin(t) ==
  /\ op[t] = "lock" /\ Free(t) /\ Here(t) # NoSession /\ SameGeneration(t)
  /\ Lock(t) /\ Runs(t, IF job[t] = "continue" THEN "callback" ELSE "closing")
  /\ UNCHANGED <<stored, live, flowVars, view, orphans, failed>>

BeginInVain(t) ==
  /\ op[t] = "lock" /\ Free(t) /\ (Here(t) = NoSession \/ ~SameGeneration(t))
  /\ Return(t, IF Here(t) = NoSession THEN "none" ELSE "changed")
  /\ UNCHANGED <<keyVars, view>>

\* How a continuation may end; without a plugin it only obeys an exit word
Endings(t) == IF through[t] = NoGate THEN {"none", "ended"}
              ELSE {"kept", "none", "ended", "replaced", "failed", "refused"}

\* handle_session returned or raised; only a success publishes what it staged,
\* and never after a cancellation
CallbackEnds(t) ==
  /\ op[t] = "callback" /\ Unlock(t)
  /\ \E how \in Endings(t) :
       /\ CASE t \notin orphans /\ how = "ended" -> Store(KeyOf[t], NoSession)
            [] t \notin orphans /\ how = "replaced" -> Store(KeyOf[t], Here(t))
            [] OTHER -> Keep
       /\ Return(t, how)

\* The close hook of a failed session ended, well or not
CloseEnds(t) ==
  /\ op[t] = "closing" /\ Unlock(t)
  /\ IF t \in orphans THEN Keep ELSE Store(KeyOf[t], NoSession)
  /\ Return(t, "ok")

Doomed(t) == Here(t) # NoSession /\ SameGeneration(t)

\* The gate did not run the clean-up: the session goes without its hook
DeleteWithoutHook(t) ==
  /\ step[t] = "delete" /\ Free(t) /\ Goto(t, "done")
  /\ IF Doomed(t) THEN Store(KeyOf[t], NoSession) ELSE Keep
  /\ UNCHANGED <<holder, live, job, through, tries, opVars, failed>>

-----------------------------------------------------------------------------
(* Commands *)

HandlerCreates(t) ==
  /\ op[t] = "handler" /\ Runs(t, "creating")
  /\ UNCHANGED <<keyVars, live, flowVars, view, orphans, failed>>

\* create_session replaces the session of the key, and the handler ends
Creates(t) ==
  /\ op[t] = "creating" /\ Free(t)
  /\ Store(KeyOf[t], through[t].plugin) /\ Return(t, "ok") /\ UNCHANGED holder

\* With a result or an error, or cancelled at the key
HandlerEnds(t) ==
  /\ op[t] = "handler" \/ (op[t] = "creating" /\ t \in orphans)
  /\ Return(t, "ok") /\ UNCHANGED <<keyVars, view>>

-----------------------------------------------------------------------------
(* The world *)

Publish(p) ==
  /\ p \notin live /\ live' = live \cup {p}
  /\ UNCHANGED <<keyVars, flowVars, view, opVars, failed>>

Active(p) == Inside(p) \cup Waiting(p)

\* Unloading closes the gate: every task in _active_tasks is cancelled, of a call
\* in it or of one that waits for it, and no handler on the message's way catches
\* that.  (What the gate refuses between close_admission and close is Refuse.)
Withdraw(p) ==
  /\ p \in live /\ live' = live \ {p}
  /\ Abandon(Inside(p)) /\ UNCHANGED failed
  /\ step' = [t \in Messages |-> IF t \in Active(p) THEN "cancelled" ELSE step[t]]
  /\ job' = [t \in Messages |-> IF t \in Waiting(p) THEN "none" ELSE job[t]]
  /\ through' = [t \in Messages |->
       CASE t \in Waiting(p) -> NoGate
         [] through[t] = Gate(p) /\ t \notin Waiting(p) -> [through[t] EXCEPT !.open = FALSE]
         [] OTHER -> through[t]]
  /\ tries' = [t \in Messages |-> IF t \in Active(p) THEN 0 ELSE tries[t]]
  /\ UNCHANGED <<keyVars, view>>

\* Idle time-out, or bulk removal of a plugin's sessions
Vanish(k) ==
  /\ holder[k] = NoTask /\ stored[k] # NoSession /\ Store(k, NoSession)
  /\ UNCHANGED <<holder, live, flowVars, opVars, failed>>

\* The message leaves the dispatcher; its task may bring the next one
Leave(t) ==
  /\ step[t] \in {"done", "cancelled"} /\ Goto(t, "new")
  /\ view' = [view EXCEPT ![t] = "none"] /\ failed' = failed \ {t}
  /\ tries' = [tries EXCEPT ![t] = 0]
  /\ UNCHANGED <<keyVars, live, job, through, opVars>>

Proceeds(t) ==
  \/ Peek(t) \/ Snapshot(t) \/ TwiceReplaced(t) \/ Admit(t) \/ Refuse(t)
  \/ Begin(t) \/ BeginInVain(t) \/ DeleteWithoutHook(t) \/ Creates(t) \/ Leave(t)

PluginCode(t) == CallbackEnds(t) \/ CloseEnds(t) \/ HandlerEnds(t)

Next ==
  \/ \E t \in Messages : Proceeds(t) \/ PluginCode(t) \/ HandlerCreates(t) \/ TimesOut(t)
  \/ \E p \in Plugins : Publish(p) \/ Withdraw(p)
  \/ \E k \in Keys : Vanish(k)

Spec == Init /\ [][Next]_vars

\* The loop runs what is ready, the lock and the gate are first-come, and the
\* plugin's code ends
Fairness == \A t \in Messages : SF_vars(Proceeds(t)) /\ WF_vars(PluginCode(t))

FairSpec == Spec /\ Fairness

-----------------------------------------------------------------------------
(* Properties *)

ContinuesWhatItSaw ==
  \A t \in Messages : op[t] \in {"callback", "closing"} =>
    /\ holder[KeyOf[t]] = t /\ view[t] # "stale"
    /\ through[t] # NoGate => through[t].plugin = Here(t)

FailedSessionRemoved ==
  \A t \in failed : step[t] = "done" => view[t] = "stale"

\* The plugin's code that continues or closes a session has the session that
\* the message observed before it chose the gate, and nobody replaces it
\* meanwhile: "Retry once instead of invoking it through a stale gate."  And a
\* session whose continuation raised is gone when its message ends, also when the
\* gate refuses the clean-up, is quarantined or times out under the close hook.
\* One exception, by name: unloading cancels a clean-up that waits for the gate or
\* is in it ("cancelled"), and then the session stays.
ContinuationsRight == ContinuesWhatItSaw /\ FailedSessionRemoved

\* Every message leaves the dispatcher: gates and keys are always taken in this
\* order, and neither is kept.
EveryMessageEnds == \A t \in Messages : step[t] # "new" ~> step[t] = "new"
=============================================================================
