--------------------------- MODULE PluginGenerations ---------------------------
(***************************************************************************)
(* Loading, hot reload and unloading of one plugin                         *)
(* (core/plugin_generation.py, plugin_runtime.py, plugin_watcher.py).      *)
(* Each loaded generation of the plugin's code runs its callbacks behind   *)
(* an execution gate; a reload stops the old generation before it imports  *)
(* the new one, and brings the old one back if the new one fails.          *)
(*                                                                         *)
(* One job holds the lifecycle lock at a time.  A gate is what             *)
(* ExecutionGate promises: closed, it starts nothing, and a close waits    *)
(* until its callbacks ended or gives up.  Manifest and sources are        *)
(* versions; importing, init and shutdown are what they may do to the job. *)
(* Generations and gates no longer referenced are reused.                  *)
(***************************************************************************)
EXTENDS Integers, FiniteSets

CONSTANTS
  NumGens, NumGates,
  MaxCalls      \* bound on callbacks in a gate

ASSUME GenerationsAssumption ==
  /\ NumGens \in Nat /\ NumGens >= 2 /\ NumGates \in Nat /\ NumGates >= 3
  /\ MaxCalls \in Nat

VARIABLES
  disk,         \* manifest kind, manifest and source version
  gens,         \* LoadedPlugin: versions, gate, shutdown flags; ghost life
  gates,        \* PluginExecutionGate: open, published, callbacks inside, fatal
  registered,   \* _plugins: the generation, 0 if none
  gateOf,       \* _execution_gates
  router,       \* the gate the plugin's commands lead to
  cache,        \* the generation whose modules are in sys.modules
  quarantined,  \* the name is in _quarantined_plugins
  compromised,  \* the finder met an import that does not end
  restart,      \* the name is in _restart_required_plugins
  deferred,     \* _deferred_lifecycle_errors holds a fatal error
  job,          \* the holder of the lifecycle lock
  interrupted,  \* a cancellation of the job is to be thrown
  excused       \* ghost: this job may leave the plugin out of service

records == <<registered, gateOf, router, quarantined, restart>>
vars == <<disk, gens, gates, records, cache, compromised, deferred, job,
          interrupted, excused>>

Gens == 1..NumGens
Gates == 1..NumGates
Disks == [kind : {"ok"}, def : 0..1, src : 0..1] \cup
         [kind : {"off", "transient"}, def : {0}, src : {0}]
NoGen == [def |-> 0, src |-> 0, gate |-> 0, attempted |-> FALSE,
          completed |-> FALSE, life |-> "new"]
NoGate == [open |-> FALSE, known |-> FALSE, gen |-> 0, calls |-> 0, fatal |-> FALSE]
NoJob == [pc |-> "idle", why |-> "none", gen |-> 0, gate |-> 0, retain |-> FALSE,
          old |-> 0, oldGate |-> 0, def |-> 0, src |-> 0,
          changed |-> FALSE, current |-> "unknown"]

Init ==
  /\ disk = [kind |-> "ok", def |-> 0, src |-> 0]
  /\ gens = [g \in Gens |-> NoGen] /\ gates = [k \in Gates |-> NoGate]
  /\ registered = 0 /\ gateOf = 0 /\ router = 0 /\ cache = 0
  /\ quarantined = FALSE /\ restart = FALSE /\ compromised = FALSE /\ deferred = FALSE
  /\ job = NoJob /\ interrupted = FALSE /\ excused = FALSE

-----------------------------------------------------------------------------
(* Names for what several handlers do *)

At(p) == job.pc = p

HasRuntime_Registered == registered # 0   \* mutant: only a published plugin is unloaded

\* _has_plugin_runtime
HasRuntime == registered # 0 \/ gateOf # 0 \/ quarantined \/ restart

FreeGens == {g \in Gens : g \notin {registered, cache, job.gen, job.old}}
FreeGates == {k \in Gates : /\ gates[k].calls = 0 /\ ~(gates[k].open /\ gates[k].known)
                            /\ k \notin {gateOf, router, job.gate, job.oldGate}}
Least(S) == CHOOSE x \in S : \A y \in S : x <= y

Closed(k) == IF k = 0 THEN gates ELSE [gates EXCEPT ![k].open = FALSE]
NewGate(g, open) == [NoGate EXCEPT !.gen = g, !.open = open]

\* _quarantine_closed_plugin, _quarantine_undrained_gate and, for g = 0,
\* _quarantine_gate_without_module
Quarantine(g, k) ==
  /\ registered' = g /\ gateOf' = k /\ router' = 0 /\ quarantined' = TRUE

Owns(g, k) == IF g = 0 THEN gens ELSE [gens EXCEPT ![g].gate = k]
QuarantineJob == /\ Quarantine(job.gen, job.gate) /\ gens' = Owns(job.gen, job.gate)
                 /\ job' = NoJob /\ interrupted' = FALSE /\ excused' = TRUE

Forgotten == registered' = 0 /\ gateOf' = 0 /\ quarantined' = FALSE

EndJob == job' = NoJob /\ interrupted' = FALSE
Go(p) == job' = [job EXCEPT !.pc = p]

\* A job that takes generation g behind gate k out: drain, stop, drain, purge.
\* A partial import is restart-only from the start (_rollback_pending_plugin).
Tear(why, g, k, retain) ==
  /\ job' = [job EXCEPT !.pc = IF retain /\ g # 0 THEN "freeze" ELSE "close1",
                        !.why = why, !.gen = g, !.gate = k, !.retain = retain]
  /\ restart' = (restart \/ (retain /\ g # 0))

\* _create_reload_candidate
Candidate(base) ==
  LET g == Least(FreeGens)  k == Least(FreeGates)
  IN /\ gens' = [h \in Gens |->
          IF h = g THEN [NoGen EXCEPT !.def = base.def, !.src = base.src, !.gate = k]
          ELSE IF h \in FreeGens THEN NoGen ELSE gens[h]]
     /\ gates' = [j \in Gates |-> IF j = k THEN NewGate(g, TRUE)
                                   ELSE IF j \in FreeGates THEN NoGate ELSE gates[j]]
     /\ gateOf' = k
     /\ job' = [base EXCEPT !.pc = "prepare", !.why = "candidate", !.gen = g, !.gate = k]

-----------------------------------------------------------------------------
(* Jobs start: the watcher's poll, and the operator's commands *)

StartUnload_Always ==   \* mutant: restart-only generations are unloaded too
  /\ excused' = TRUE /\ gates' = Closed(gateOf)
  /\ job' = [NoJob EXCEPT !.pc = "close1", !.why = "unload", !.gen = registered,
                          !.gate = gateOf]
  /\ UNCHANGED <<gens, records, cache, deferred, interrupted>>

\* _unload_plugin_once, up to its first wait
StartUnload ==
  /\ excused' = TRUE /\ gates' = Closed(gateOf)
  /\ IF restart
     THEN /\ router' = 0 /\ quarantined' = TRUE
          /\ UNCHANGED <<job, registered, gateOf, restart>>
     ELSE /\ job' = [NoJob EXCEPT !.pc = "close1", !.why = "unload", !.gen = registered,
                                  !.gate = gateOf]
          /\ UNCHANGED records
  /\ UNCHANGED <<gens, cache, deferred, interrupted>>

\* _retire_plugin_for_reload, up to its first wait
StartReload ==
  LET g == registered  k == gens[g].gate
  IN /\ ~quarantined /\ g # 0
     /\ job' = [NoJob EXCEPT !.pc = "close1", !.why = "retire", !.gen = g, !.gate = k,
                  !.old = g, !.oldGate = k, !.def = disk.def, !.src = disk.src,
                  !.changed = disk.def # gens[g].def]
     /\ gates' = Closed(k) /\ gateOf' = k
     /\ excused' = (disk.def # gens[g].def \/ router = 0)
     /\ UNCHANGED <<gens, registered, router, quarantined, restart, cache, deferred, interrupted>>

Outdated == registered # 0 /\ disk.def # gens[registered].def

\* reconcile_plugins; a changed manifest whose sources cannot be read retires
Poll ==
  /\ At("idle") /\ ~quarantined /\ UNCHANGED <<disk, compromised>>
  /\ \/ /\ (disk.kind = "off" /\ HasRuntime) \/ (disk.kind = "ok" /\ Outdated)
        /\ StartUnload
     \/ /\ disk.kind = "ok" /\ registered # 0
        /\ <<disk.def, disk.src>> # <<gens[registered].def, gens[registered].src>>
        /\ StartReload
     \/ /\ disk.kind = "ok" /\ ~HasRuntime
        /\ Candidate([NoJob EXCEPT !.def = disk.def, !.src = disk.src])
        /\ excused' = TRUE
        /\ UNCHANGED <<registered, router, quarantined, restart, cache, deferred, interrupted>>

\* reload_plugin and unload_plugin
Command ==
  /\ At("idle") /\ UNCHANGED <<disk, compromised>>
  /\ \/ disk.kind = "ok" /\ StartReload
     \/ HasRuntime /\ StartUnload

-----------------------------------------------------------------------------
(* Taking a generation out of service *)

Busy(k) == k # 0 /\ gates[k].calls > 0

\* A close consumes the fatal error of a callback that outlived the gate
Consumed == /\ deferred' = (deferred \/ (job.gate # 0 /\ gates[job.gate].fatal))
            /\ gates' = IF job.gate = 0 THEN gates
                        ELSE [gates EXCEPT ![job.gate].open = FALSE, ![job.gate].fatal = FALSE]

\* _freeze_source_generation_async: a cancellation, or imports that do not come
\* to rest, end the job with the candidate's gate open and nothing quarantined
Freeze ==
  /\ At("freeze") /\ cache' = 0 /\ excused' = TRUE
  /\ \/ ~interrupted /\ Go("close1") /\ UNCHANGED <<interrupted, compromised>>
     \/ EndJob /\ compromised' = (compromised \/ ~interrupted)
  /\ UNCHANGED <<disk, gens, gates, records, deferred>>

AfterDrain_Purge ==   \* mutant: a generation is not shut down
  IF job.retain THEN "quarantine" ELSE "purge"

AfterDrain ==
  IF job.pc = "close1" /\ job.gen # 0 THEN "stop"
  ELSE IF job.retain THEN "quarantine" ELSE "purge"

\* _close_generation_gate: the gate drained
Drained ==
  /\ job.pc \in {"close1", "close2"} /\ ~Busy(job.gate) /\ Consumed
  /\ IF interrupted THEN QuarantineJob
     ELSE /\ Go(AfterDrain) /\ router' = IF job.why = "unload" THEN 0 ELSE router
          /\ UNCHANGED <<interrupted, excused, gens, registered, gateOf, quarantined>>
  /\ UNCHANGED <<disk, compromised, cache, restart>>

GiveUp_Anyway ==   \* mutant: a callback that does not end is ignored
  Go(AfterDrain) /\ excused' = TRUE
  /\ UNCHANGED <<interrupted, gens, registered, gateOf, router, quarantined>>

GiveUp == QuarantineJob

\* _close_generation_gate: the drain timed out
DrainTimesOut ==
  /\ job.pc \in {"close1", "close2"} /\ Busy(job.gate) /\ Consumed /\ GiveUp
  /\ UNCHANGED <<disk, compromised, cache, restart>>

\* A partial import was drained and stopped: kept until the process restarts.
\* Without a module the freeze comes here.
QuarantinePartial ==
  /\ At("quarantine")
  /\ IF job.gen = 0
     THEN restart' = TRUE /\ cache' = 0 ELSE UNCHANGED <<restart, cache>>
  /\ \/ (job.gen = 0 => ~interrupted) /\ QuarantineJob /\ UNCHANGED compromised
     \/ /\ job.gen = 0 /\ EndJob /\ excused' = TRUE
        /\ compromised' = (compromised \/ ~interrupted)
        /\ UNCHANGED <<gens, registered, gateOf, router, quarantined>>
  /\ UNCHANGED <<disk, gates, deferred>>

\* _shutdown_plugin_instance: the callback runs at most once, whatever it does;
\* late says that it timed out and is still running
Stop ==
  /\ At("stop")
  /\ \E ok, late \in BOOLEAN :
       /\ late => ~ok /\ gates[job.gate].calls < MaxCalls
       /\ LET g == job.gen  stopped == gens[g].attempted
          IN /\ stopped => ok = gens[g].completed /\ ~late
             /\ LET after == IF stopped THEN gens
                             ELSE [gens EXCEPT ![g].attempted = TRUE, ![g].completed = ok,
                                               ![g].life = "down"]
                IN IF ok /\ ~interrupted
                   THEN /\ gens' = after /\ Go("close2")
                        /\ UNCHANGED <<interrupted, excused, registered, gateOf, router, quarantined>>
                   ELSE /\ gens' = [after EXCEPT ![g].gate = job.gate]
                        /\ Quarantine(g, job.gate) /\ EndJob /\ excused' = TRUE
       /\ gates' = IF late THEN [gates EXCEPT ![job.gate].calls = @ + 1] ELSE gates
  /\ UNCHANGED <<disk, compromised, cache, deferred, restart>>

\* _purge_generation_modules_async: imports do not come to rest
PurgeFails ==
  /\ At("purge") /\ QuarantineJob /\ restart' = TRUE /\ cache' = 0 /\ compromised' = TRUE
  /\ UNCHANGED <<disk, gates, deferred>>

PurgeInterrupted ==
  /\ At("purge") /\ interrupted /\ ~compromised /\ QuarantineJob /\ cache' = 0
  /\ UNCHANGED <<disk, compromised, gates, deferred, restart>>

\* The modules leave sys.modules; then what the job wanted it for
Purged(why) == /\ At("purge") /\ job.why = why /\ ~interrupted /\ ~compromised
               /\ cache' = 0 /\ UNCHANGED <<disk, compromised, interrupted>>

Unloaded ==
  /\ Purged("unload") /\ Forgotten /\ restart' = FALSE /\ job' = NoJob
  /\ deferred' \in {deferred, FALSE}   \* a command raises it, the watcher leaves it
  /\ UNCHANGED <<gens, gates, router, excused>>

\* _retire_plugin_for_reload: on to the candidate, unless a fatal error surfaced
Retired ==
  /\ Purged("retire") /\ router' = 0 /\ deferred' = FALSE
  /\ IF deferred THEN Forgotten /\ job' = NoJob /\ excused' = TRUE /\ UNCHANGED <<gens, gates>>
     ELSE Candidate(job) /\ UNCHANGED <<registered, quarantined, excused>>
  /\ UNCHANGED restart

\* _rollback_pending_plugin is clean; a reload decides about the old generation
RolledBack ==
  /\ Purged("rollback") /\ router' = 0 /\ registered' = 0 /\ gateOf' = 0
  /\ IF job.gen = 0 THEN UNCHANGED <<quarantined, restart>>
     ELSE quarantined' = FALSE /\ restart' = FALSE
  /\ job' = IF job.old = 0 THEN NoJob
            ELSE [job EXCEPT !.pc = "decide", !.gen = 0, !.gate = 0]
  /\ UNCHANGED <<gens, gates, deferred, excused>>

\* A failed restore is rolled back, and its generation retained all the same
RestoreUndone ==
  /\ Purged("restore") /\ Quarantine(job.gen, job.gate) /\ restart' = FALSE
  /\ gens' = [gens EXCEPT ![job.gen].attempted = TRUE, ![job.gen].completed = TRUE]
  /\ job' = NoJob /\ deferred' \in {deferred, FALSE}   \* raised, unless a cancellation is
  /\ UNCHANGED <<gates, excused>>

-----------------------------------------------------------------------------
(* A generation comes up: a candidate, or the old one after it failed *)

Restoring == job.old # 0 /\ job.gen = job.old
OnDisk == disk.kind = "ok" /\ <<disk.def, disk.src>> = <<job.def, job.src>>

\* An exception: of a candidate with or without a module, whose import may be
\* partial or have left code behind, or of a restore
Fails(module, retain) ==
  IF Restoring THEN Go("unrestore") /\ UNCHANGED restart
  ELSE Tear("rollback", IF module THEN job.gen ELSE 0, job.gate, retain)

\* _prepare_module_load; only a PluginPathError that is not wrapped retains
Prepare ==
  /\ At("prepare")
  /\ \/ ~interrupted /\ OnDisk /\ Go("import") /\ UNCHANGED <<restart, excused>>
     \/ Fails(FALSE, FALSE) /\ excused' = (excused \/ interrupted)
     \/ ~interrupted /\ Fails(FALSE, TRUE) /\ excused' = TRUE
  /\ interrupted' = FALSE
  /\ UNCHANGED <<disk, compromised, gens, gates, registered, gateOf, router, quarantined, cache, deferred>>

\* _load_module: nothing ran; a part ran; all of it, but a declared service is
\* missing; or the import is complete
Import ==
  /\ At("import")
  /\ \/ Fails(FALSE, FALSE) /\ UNCHANGED <<cache, excused>>
     \/ (\E module \in BOOLEAN : Fails(module, TRUE)) /\ cache' = job.gen /\ excused' = TRUE
     \/ Fails(TRUE, FALSE) /\ cache' = job.gen /\ UNCHANGED excused
     \/ Go("init") /\ cache' = job.gen /\ UNCHANGED <<restart, excused>>
  /\ UNCHANGED <<disk, compromised, gens, gates, registered, gateOf, router, quarantined, deferred, interrupted>>

\* The init callback in the gate; late says that it is still running
InitRuns ==
  /\ At("init")
  /\ \E ok, late \in BOOLEAN :
       /\ ok => ~interrupted /\ ~late
       /\ late => gates[job.gate].calls < MaxCalls
       /\ IF ok THEN Go("check") /\ UNCHANGED <<restart, excused>>
          ELSE Fails(TRUE, FALSE) /\ excused' = (excused \/ interrupted \/ late \/ Restoring)
       /\ gates' = IF late THEN [gates EXCEPT ![job.gate].calls = @ + 1] ELSE gates
  /\ gens' = [gens EXCEPT ![job.gen].life = "up"] /\ interrupted' = FALSE
  /\ UNCHANGED <<disk, compromised, registered, gateOf, router, quarantined, cache, deferred>>

\* _definition_is_current_async; for a candidate its answer decides a recovery
Check ==
  /\ At("check")
  /\ LET answer == IF Restoring THEN job.current ELSE IF OnDisk THEN "yes" ELSE "no"
     IN \/ /\ ~interrupted /\ OnDisk
           /\ job' = [job EXCEPT !.pc = "quiesce", !.current = answer]
           /\ gateOf' = job.gate
           /\ gens' = [gens EXCEPT ![job.gen].gate = job.gate]
           /\ UNCHANGED <<restart, excused>>
        \/ /\ \E a \in {answer, "error"} :
                /\ a = answer => ~OnDisk /\ ~interrupted
                /\ IF Restoring THEN Go("unrestore")
                   ELSE job' = [job EXCEPT !.pc = "close1", !.why = "rollback", !.current = a]
           /\ excused' = TRUE /\ UNCHANGED <<restart, gateOf, gens>>
  /\ interrupted' = FALSE
  /\ UNCHANGED <<disk, compromised, gates, registered, router, quarantined, cache, deferred>>

\* _quiesce_source_generation_for_publication
Quiesce ==
  /\ At("quiesce") /\ ~interrupted /\ Go("publish")
  /\ UNCHANGED <<disk, compromised, gens, gates, records, cache, deferred, interrupted, excused>>

\* ... imports do not come to rest: the generation is compromised
QuiesceFails ==
  /\ At("quiesce") /\ quarantined' = TRUE /\ restart' = TRUE /\ router' = 0 /\ cache' = 0
  /\ gates' = Closed(gateOf) /\ excused' = TRUE /\ compromised' = TRUE
  /\ job' = IF Restoring THEN [job EXCEPT !.pc = "unrestore"]
            ELSE [job EXCEPT !.pc = "freeze", !.why = "rollback", !.retain = TRUE]
  /\ UNCHANGED <<disk, gens, registered, gateOf, deferred, interrupted>>

QuiesceInterrupted ==
  /\ At("quiesce") /\ interrupted /\ Fails(TRUE, FALSE) /\ interrupted' = FALSE
  /\ excused' = TRUE
  /\ UNCHANGED <<disk, compromised, gens, gates, registered, gateOf, router, quarantined, cache, deferred>>

\* _register_loaded_plugin, after the last check of the disk
Publish ==
  /\ At("publish") /\ ~interrupted /\ OnDisk
  /\ registered' = job.gen /\ gateOf' = job.gate /\ router' = job.gate
  /\ quarantined' = FALSE /\ restart' = FALSE
  /\ gens' = [gens EXCEPT ![job.gen].gate = job.gate, ![job.gen].attempted = FALSE,
                          ![job.gen].completed = FALSE]
  /\ gates' = [gates EXCEPT ![job.gate].known = TRUE]
  /\ job' = NoJob /\ deferred' = (deferred /\ ~Restoring)
  /\ UNCHANGED <<disk, compromised, cache, interrupted, excused>>

\* _abort_source_generation_publication and what the handler puts back
Abort == gates' = Closed(job.gate) /\ UNCHANGED router

\* ... a command is another plugin's: the publication is taken back
Conflict ==
  /\ At("publish") /\ ~interrupted /\ OnDisk /\ Abort /\ cache' = 0
  /\ Fails(TRUE, FALSE) /\ excused' = (excused \/ Restoring)
  /\ UNCHANGED <<disk, compromised, gens, registered, gateOf, quarantined, deferred, interrupted>>

\* ... the disk changed, or the entry is not what was authorized
Refuse ==
  /\ At("publish")
  /\ \/ (interrupted \/ ~OnDisk) /\ Fails(TRUE, FALSE)
     \/ ~interrupted /\ Fails(TRUE, TRUE)
  /\ excused' = TRUE /\ interrupted' = FALSE
  /\ UNCHANGED <<disk, compromised, gens, gates, registered, gateOf, router, quarantined, cache, deferred>>

-----------------------------------------------------------------------------
(* The candidate is gone: retain the old generation, or bring it back *)

\* _retain_retired_plugin_quarantine
Retain(k) ==
  /\ Quarantine(job.old, k)
  /\ gens' = [gens EXCEPT ![job.old].gate = k, ![job.old].attempted = TRUE,
                          ![job.old].completed = TRUE]

Authorized_Known == job.current = "yes"   \* mutant: what was not asked counts as no

\* _reevaluate_candidate_authorization: asked now, if the candidate never was
Authorized == job.current = "yes" \/ (job.current = "unknown" /\ OnDisk /\ ~interrupted)

GiveOldUp ==
  /\ At("decide")
  /\ \/ /\ job.changed \/ ~Authorized
        /\ excused' = (excused \/ job.changed \/ job.current = "no" \/ ~OnDisk \/ interrupted)
     \/ job.current = "unknown" /\ excused' = TRUE   \* the disk cannot be read
  /\ Retain(job.oldGate) /\ EndJob
  /\ deferred' \in {deferred, FALSE}   \* raised, unless another error is
  /\ UNCHANGED <<disk, compromised, gates, restart, cache>>

\* _restore_old_generation, up to its thread: a closed gate to show, one to init in
Restore ==
  /\ At("decide") /\ ~job.changed /\ Authorized
  /\ LET staging == Least(FreeGates)
         recovery == Least(FreeGates \ {staging})
     IN /\ gates' = [gates EXCEPT ![staging] = NewGate(job.old, FALSE),
                                  ![recovery] = NewGate(job.old, TRUE)]
        /\ registered' = job.old /\ gateOf' = staging
        /\ gens' = [gens EXCEPT ![job.old].gate = staging, ![job.old].attempted = FALSE,
                                ![job.old].completed = FALSE]
        /\ job' = [job EXCEPT !.pc = "remodule", !.gen = job.old, !.gate = recovery,
                              !.oldGate = staging]
  /\ UNCHANGED <<disk, compromised, interrupted, router, quarantined, restart, cache, deferred, excused>>

\* The plugin's directory cannot be resolved, or its slots in sys.modules are taken
RestoreCollides ==
  /\ job.pc \in {"decide", "remodule"}
  /\ At("decide") => ~job.changed /\ Authorized
  /\ Retain(job.oldGate) /\ restart' = TRUE /\ EndJob /\ excused' = TRUE
  /\ gates' = IF At("decide") THEN gates ELSE Closed(job.gate)
  /\ deferred' \in {deferred, FALSE}
  /\ UNCHANGED <<disk, compromised, cache>>

\* _restore_generation_modules: a cancellation is thrown once it is done
Remodule ==
  /\ At("remodule") /\ cache' = job.old /\ interrupted' = FALSE
  /\ Go(IF interrupted THEN "unrestore" ELSE "init") /\ excused' = (excused \/ interrupted)
  /\ UNCHANGED <<disk, compromised, gens, gates, records, deferred>>

\* The restore failed: its gate is drained, and the generation rolled back
Unrestore ==
  /\ At("unrestore") /\ ~Busy(job.gate) /\ Consumed /\ excused' = TRUE
  /\ IF interrupted
     THEN QuarantineJob /\ restart' = TRUE
     ELSE /\ Tear("restore", job.old, job.oldGate, FALSE) /\ gateOf' = job.oldGate
          /\ gens' = [gens EXCEPT ![job.old].gate = job.oldGate, ![job.old].attempted = FALSE]
          /\ UNCHANGED <<interrupted, registered, router, quarantined>>
  /\ UNCHANGED <<disk, compromised, cache>>

UnrestoreTimesOut ==
  /\ At("unrestore") /\ Busy(job.gate) /\ Consumed /\ QuarantineJob /\ restart' = TRUE
  /\ UNCHANGED <<disk, compromised, cache>>

-----------------------------------------------------------------------------
(* The world *)

Calls(k, n) == /\ gates' = [gates EXCEPT ![k].calls = @ + n]
                /\ UNCHANGED <<disk, compromised, gens, records, cache, deferred, job, interrupted, excused>>

\* Whoever holds a published gate may enter it while it is open
Enter(k) == gates[k].open /\ gates[k].known /\ gates[k].calls < MaxCalls /\ Calls(k, 1)
Leave(k) == gates[k].calls > 0 /\ Calls(k, -1)

LeaveFatal(k) ==
  /\ gates[k].calls > 0 /\ ~gates[k].open
  /\ gates' = [gates EXCEPT ![k].calls = @ - 1, ![k].fatal = TRUE]
  /\ UNCHANGED <<disk, compromised, gens, records, cache, deferred, job, interrupted, excused>>

Edit ==
  /\ disk' \in Disks \ {disk}
  /\ UNCHANGED <<compromised, gens, gates, records, cache, deferred, job, interrupted, excused>>

Cancel ==
  /\ ~At("idle") /\ ~interrupted /\ interrupted' = TRUE
  /\ UNCHANGED <<disk, compromised, gens, gates, records, cache, deferred, job, excused>>

\* _mark_source_finder_compromised, by a lazy import of a plugin in service (at rest
\* only: under a job, each later step refuses a compromised finder)
Compromise ==
  /\ At("idle") /\ cache # 0 /\ ~restart
  /\ restart' = TRUE /\ quarantined' = TRUE /\ router' = 0 /\ cache' = 0 /\ excused' = TRUE
  /\ gates' = Closed(gateOf) /\ compromised' = TRUE
  /\ UNCHANGED <<disk, gens, registered, gateOf, deferred, job, interrupted>>

JobStep ==
  \/ Freeze \/ Drained \/ DrainTimesOut \/ QuarantinePartial \/ Stop
  \/ PurgeFails \/ PurgeInterrupted \/ Unloaded \/ Retired \/ RolledBack \/ RestoreUndone
  \/ Prepare \/ Import \/ InitRuns \/ Check
  \/ Quiesce \/ QuiesceFails \/ QuiesceInterrupted \/ Publish \/ Conflict \/ Refuse
  \/ GiveOldUp \/ Restore \/ RestoreCollides \/ Remodule \/ Unrestore \/ UnrestoreTimesOut

Next ==
  \/ JobStep \/ Poll \/ Command \/ Edit \/ Cancel \/ Compromise
  \/ \E k \in Gates : Enter(k) \/ Leave(k) \/ LeaveFatal(k)

Spec == Init /\ [][Next]_vars

\* Every wait of a job is bounded, and the watcher polls for ever
FairSpec == Spec /\ WF_vars(JobStep) /\ WF_vars(Poll)

-----------------------------------------------------------------------------
(* Properties *)

OneGenerationRuns ==
  \A j, k \in Gates : gates[j].calls > 0 /\ gates[k].calls > 0 => gates[j].gen = gates[k].gen

\* It was started, its modules are the ones in sys.modules, and it is not yet
\* being shut down
ServingIsWhole ==
  router # 0 /\ gates[router].open =>
    /\ registered # 0 /\ gens[registered].gate = router /\ gateOf = router
    /\ gens[registered].life = "up" /\ ~gens[registered].attempted /\ cache = registered

\* Its commands are unbound, and no gate ever published lets a callback in
QuarantineIsClosed ==
  quarantined =>
    /\ router = 0
    /\ \A k \in Gates : ~(gates[k].open /\ gates[k].known)

\* No two generations of a plugin ever run callbacks at the same time, in
\* whatever gate (a reload drains the old one before it imports the new one);
\* commands that are served lead to the registered generation, which is whole;
\* and a quarantined plugin answers nothing.
OneGenerationServes == OneGenerationRuns /\ ServingIsWhole /\ QuarantineIsClosed

\* A generation that was started is never lost sight of before its shutdown ran:
\* it stays registered or belongs to the job, until only a restart helps.
StartedIsOwned ==
  \A g \in Gens : gens[g].life = "up" => restart \/ g \in {registered, job.gen, job.old}

InService == /\ registered # 0 /\ gateOf = gens[registered].gate /\ router = gateOf
             /\ gates[gateOf].open /\ cache = registered
Shut == quarantined /\ router = 0
Absent == /\ {registered, gateOf, router, cache} = {0} /\ ~restart
\* An interrupted freeze (_rollback_pending_plugin)
Torn == restart /\ ~quarantined /\ router = 0

\* Whatever went wrong, a finished job leaves the plugin in service, quarantined
\* or gone; only an interrupted freeze of a partial import leaves less.
Settled == At("idle") => InService \/ Shut \/ Absent \/ Torn

\* A job loses no started generation and ends in one of four known states
JobsSettle == StartedIsOwned /\ Settled

\* A reload under an unchanged manifest whose candidate fails cleanly ends with
\* the old generation back in service, if that one starts again.
FailedReloadKeepsService == At("idle") /\ ~excused /\ registered # 0 => InService

\* A quarantine that only a restart may end is never ended.
RestartQuarantineStays ==
  [][restart /\ quarantined => restart' /\ quarantined']_vars

\* A plugin whose manifest stays withdrawn is out of service in the end, with
\* its gate closed, whatever its callbacks do.
WithdrawnLeaves ==
  <>[](disk.kind = "off") => <>[](router = 0 /\ (gateOf # 0 => ~gates[gateOf].open))

\* Restart-only ownership "is irreversible in this process" (_rollback_pending_plugin).
RestartOnlyStays == [][restart => restart']_vars
=============================================================================
