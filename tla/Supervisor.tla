----------------------------- MODULE Supervisor -----------------------------
(***************************************************************************)
(* The runtime supervisor of the daemon (runtime_control.rs): it owns the  *)
(* one project runtime, replaces it when a management client asks for a    *)
(* reload, and stops it when the daemon shuts down.                        *)
(*                                                                         *)
(* Every reload request is one HTTP handler future.  The runtime such a    *)
(* request starts is named after the request; the one main() starts is     *)
(* Boot.  The mutex around RuntimeState is held only between two awaits,   *)
(* so every action below that touches it is one critical section; what     *)
(* spans awaits is the lifecycle lock.                                     *)
(***************************************************************************)
EXTENDS Naturals, FiniteSets

CONSTANTS
  Requests,     \* the reload requests of the management API
  Boot,         \* names the runtime started by main()
  None,         \* Option::None
  MaxVersion    \* bound: highest project config version stored by the run

ASSUME SupervisorAssumption ==
  /\ Boot \notin Requests
  /\ None \notin Requests \cup {Boot} \cup Nat
  /\ MaxVersion \in Nat

VARIABLES
  phase,        \* RuntimeState.phase
  stopping,     \* RuntimeState.stopping
  slot,         \* RuntimeState.slot: the runtime it holds, or None
  reloadError,  \* RuntimeState.last_reload_error.is_some()
  version,      \* version of the config each runtime was started with
  live,         \* runtimes some task of which may still be running
  holder,       \* owner of lifecycle_lock: a request, Boot (the daemon), None
  pc,           \* where the handler of each reload request stands
  candidate,    \* next_config.version of each reload request
  oldSlot,      \* old_slot of each reload request, and of shutdown() (Boot)
  activeAfter,  \* active_version_after, as read for the audit event
  daemon,       \* where shutdown(), called by main(), stands
  stored        \* version of the stored project config

vars == <<phase, stopping, slot, reloadError, version, live, holder, pc,
          candidate, oldSlot, activeAfter, daemon, stored>>

Runtimes == Requests \cup {Boot}

Phases == {"Running", "Reloading", "Stopping", "Stopped"}

\* A handler is "idle" until its request arrives; the last four are answers:
\* Ok, an error before the runtime was touched, an error after it, and the
\* future dropped because the client went away.
Working == {"ensure", "load", "take", "closeOld", "start", "install",
            "auditOk", "rollback", "reinstall", "giveUp", "note", "auditFail"}
Answers == {"ok", "refused", "failed", "dropped"}

\* "queued" is shutdown() waiting in lifecycle_lock.lock().await.
DaemonStates == {"up", "queued", "begin", "closing", "down"}

ActiveVersion == IF slot = None THEN None ELSE version[slot]

(***************************************************************************)
(* The lifecycle lock.  A tokio mutex is handed over to a queued waiter    *)
(* when it is released, so try_lock never overtakes shutdown().            *)
(***************************************************************************)
\* Mutant: a lock that is not handed over to the queued waiter.
UnlockNoHandover ==
  holder' = None /\ UNCHANGED daemon

Unlock ==
  IF daemon = "queued"
  THEN holder' = Boot /\ daemon' = "begin"
  ELSE holder' = None /\ UNCHANGED daemon

\* The handler of request r returns; its guard on the lock goes with it.
Answer(r, a) == pc' = [pc EXCEPT ![r] = a] /\ Unlock

Goto(r, l) == pc' = [pc EXCEPT ![r] = l] /\ UNCHANGED <<holder, daemon>>

-----------------------------------------------------------------------------
\* main() has started the stored config, or the bootstrap file it has just
\* stored: create_project_config() stores a file of version 0 as version 1,
\* and load_config() returns the file.
Init ==
  /\ phase = "Running"
  /\ stopping = FALSE
  /\ slot = Boot
  /\ reloadError = FALSE
  /\ stored = 1
  /\ \E v \in {0, 1} : version = [rt \in Runtimes |-> v]
  /\ live = {Boot}
  /\ holder = None
  /\ pc = [r \in Requests |-> "idle"]
  /\ candidate = [r \in Requests |-> None]
  /\ oldSlot = [r \in Runtimes |-> None]
  /\ activeAfter = [r \in Requests |-> None]
  /\ daemon = "up"

\* A management client stores a new config revision (PUT config); versions
\* only grow.
StoreConfig ==
  /\ stored < MaxVersion
  /\ stored' = stored + 1
  /\ UNCHANGED <<phase, stopping, slot, reloadError, version, live, holder,
                 pc, candidate, oldSlot, activeAfter, daemon>>

-----------------------------------------------------------------------------
(* reload(), from the handler of request r.                                *)

\* lifecycle_lock.try_lock(): somebody else holds it, ReloadInProgress.
ReloadBusy(r) ==
  /\ pc[r] = "idle"
  /\ holder # None
  /\ pc' = [pc EXCEPT ![r] = "refused"]
  /\ UNCHANGED <<phase, stopping, slot, reloadError, version, live, holder,
                 candidate, oldSlot, activeAfter, daemon, stored>>

ReloadLock(r) ==
  /\ pc[r] = "idle"
  /\ holder = None
  /\ holder' = r
  /\ pc' = [pc EXCEPT ![r] = "ensure"]
  /\ UNCHANGED <<phase, stopping, slot, reloadError, version, live,
                 candidate, oldSlot, activeAfter, daemon, stored>>

\* ensure_not_stopping()
ReloadEnsure(r) ==
  /\ pc[r] = "ensure"
  /\ IF stopping THEN Answer(r, "refused") ELSE Goto(r, "load")
  /\ UNCHANGED <<phase, stopping, slot, reloadError, version, live,
                 candidate, oldSlot, activeAfter, stored>>

\* Mutant: the config was read some time before the lock was taken.
ReloadLoadStale(r) ==
  /\ pc[r] = "load"
  /\ \/ /\ \E v \in 0..stored : candidate' = [candidate EXCEPT ![r] = v]
        /\ Goto(r, "take")
     \/ Answer(r, "refused") /\ UNCHANGED candidate
  /\ UNCHANGED <<phase, stopping, slot, reloadError, version, live,
                 oldSlot, activeAfter, stored>>

\* load_project_config() and validate_config(): the stored config, or a
\* storage error, no stored config, a config that is not valid.
ReloadLoad(r) ==
  /\ pc[r] = "load"
  /\ \/ /\ candidate' = [candidate EXCEPT ![r] = stored]
        /\ Goto(r, "take")
     \/ Answer(r, "refused") /\ UNCHANGED candidate
  /\ UNCHANGED <<phase, stopping, slot, reloadError, version, live,
                 oldSlot, activeAfter, stored>>

\* The slot is taken under the state lock; the phase is Reloading from here
\* on, also when there is no runtime to take and the request is refused.
ReloadTake(r) ==
  /\ pc[r] = "take"
  /\ IF stopping
     THEN Answer(r, "refused") /\ UNCHANGED <<phase, slot, oldSlot>>
     ELSE /\ phase' = "Reloading"
          /\ slot' = None
          /\ oldSlot' = [oldSlot EXCEPT ![r] = slot]
          /\ IF slot = None THEN Answer(r, "refused") ELSE Goto(r, "closeOld")
  /\ UNCHANGED <<stopping, reloadError, version, live, candidate,
                 activeAfter, stored>>

\* Mutant: an error of the old runtime's shutdown is ignored.
ReloadCloseOldIgnored(r) ==
  /\ pc[r] = "closeOld"
  /\ \/ /\ live' = live \ {oldSlot[r]}
        /\ Goto(r, "start")
        /\ UNCHANGED <<phase, slot, reloadError>>
     \/ Goto(r, "start") /\ UNCHANGED <<phase, slot, reloadError, live>>
  /\ UNCHANGED <<stopping, version, candidate, oldSlot, activeAfter, stored>>

\* Mutant: set_reload_failed() does not change the phase.
ReloadCloseOldNoPhase(r) ==
  /\ pc[r] = "closeOld"
  /\ \/ /\ live' = live \ {oldSlot[r]}
        /\ Goto(r, "start")
        /\ UNCHANGED <<phase, slot, reloadError>>
     \/ /\ UNCHANGED phase
        /\ slot' = None
        /\ reloadError' = TRUE
        /\ Goto(r, "auditFail")
        /\ UNCHANGED live
  /\ UNCHANGED <<stopping, version, candidate, oldSlot, activeAfter, stored>>

\* old_slot.runtime.shutdown() returns.  After an error some of the old
\* tasks may still run: set_reload_failed() and the reload is given up.
ReloadCloseOld(r) ==
  /\ pc[r] = "closeOld"
  /\ \/ /\ live' = live \ {oldSlot[r]}
        /\ Goto(r, "start")
        /\ UNCHANGED <<phase, slot, reloadError>>
     \/ /\ phase' = "Stopped"
        /\ slot' = None
        /\ reloadError' = TRUE
        /\ Goto(r, "auditFail")
        /\ UNCHANGED live
  /\ UNCHANGED <<stopping, version, candidate, oldSlot, activeAfter, stored>>

\* ProjectRuntime::start(next_config): it spawns the tasks, or fails with
\* none of them left.
ReloadStart(r) ==
  /\ pc[r] = "start"
  /\ \/ /\ live' = live \cup {r}
        /\ version' = [version EXCEPT ![r] = candidate[r]]
        /\ Goto(r, "install")
     \/ Goto(r, "rollback") /\ UNCHANGED <<live, version>>
  /\ UNCHANGED <<phase, stopping, slot, reloadError, candidate, oldSlot,
                 activeAfter, stored>>

\* The new runtime goes into the slot.
ReloadInstall(r) ==
  /\ pc[r] = "install"
  /\ phase' = "Running"
  /\ slot' = r
  /\ reloadError' = FALSE
  /\ activeAfter' = [activeAfter EXCEPT ![r] = candidate[r]]
  /\ Goto(r, "auditOk")
  /\ UNCHANGED <<stopping, version, live, candidate, oldSlot, stored>>

\* The start of the new config failed: start(old_slot.config).
ReloadRollback(r) ==
  /\ pc[r] = "rollback"
  /\ \/ /\ live' = live \cup {r}
        /\ version' = [version EXCEPT ![r] = version[oldSlot[r]]]
        /\ Goto(r, "reinstall")
     \/ Goto(r, "giveUp") /\ UNCHANGED <<live, version>>
  /\ UNCHANGED <<phase, stopping, slot, reloadError, candidate, oldSlot,
                 activeAfter, stored>>

ReloadReinstall(r) ==
  /\ pc[r] = "reinstall"
  /\ phase' = "Running"
  /\ slot' = r
  /\ Goto(r, "note")
  /\ UNCHANGED <<stopping, reloadError, version, live, candidate, oldSlot,
                 activeAfter, stored>>

\* Mutant: the phase says Running after a failed rollback.
ReloadGiveUpRunning(r) ==
  /\ pc[r] = "giveUp"
  /\ phase' = "Running"
  /\ slot' = None
  /\ Goto(r, "note")
  /\ UNCHANGED <<stopping, reloadError, version, live, candidate, oldSlot,
                 activeAfter, stored>>

ReloadGiveUp(r) ==
  /\ pc[r] = "giveUp"
  /\ phase' = "Stopped"
  /\ slot' = None
  /\ Goto(r, "note")
  /\ UNCHANGED <<stopping, reloadError, version, live, candidate, oldSlot,
                 activeAfter, stored>>

\* Mutant: a failed reload is taken to have left the old version active.
ReloadNoteOld(r) ==
  /\ pc[r] = "note"
  /\ reloadError' = TRUE
  /\ activeAfter' = [activeAfter EXCEPT ![r] = version[oldSlot[r]]]
  /\ Goto(r, "auditFail")
  /\ UNCHANGED <<phase, stopping, slot, version, live, candidate, oldSlot,
                 stored>>

\* last_reload_error is written after the rollback, in another critical
\* section, and the version that is active now is read for the audit event.
ReloadNote(r) ==
  /\ pc[r] = "note"
  /\ reloadError' = TRUE
  /\ activeAfter' = [activeAfter EXCEPT ![r] = ActiveVersion]
  /\ Goto(r, "auditFail")
  /\ UNCHANGED <<phase, stopping, slot, version, live, candidate, oldSlot,
                 stored>>

\* Mutant: a failed reload keeps the lifecycle lock.
ReloadAuditFailedLocked(r) ==
  /\ pc[r] = "auditFail"
  /\ Goto(r, "failed")
  /\ UNCHANGED <<phase, stopping, slot, reloadError, version, live,
                 candidate, oldSlot, activeAfter, stored>>

\* record_reload_audit() of a failed reload; its own error is ignored.
ReloadAuditFailed(r) ==
  /\ pc[r] = "auditFail"
  /\ Answer(r, "failed")
  /\ UNCHANGED <<phase, stopping, slot, reloadError, version, live,
                 candidate, oldSlot, activeAfter, stored>>

\* record_reload_audit() of a reload that succeeded; when it fails the
\* client gets an error although the new runtime is active.
ReloadAuditSucceeded(r) ==
  /\ pc[r] = "auditOk"
  /\ \E a \in {"ok", "failed"} : Answer(r, a)
  /\ UNCHANGED <<phase, stopping, slot, reloadError, version, live,
                 candidate, oldSlot, activeAfter, stored>>

\* The client goes away and the server drops the handler future at an
\* await: the lock guard and the locals are dropped.  The tasks of a runtime
\* that was a local are detached, not awaited; start() awaits only while it
\* stops the engines it has spawned, because one of them failed.
Disconnect(r) ==
  /\ pc[r] \in Working
  /\ live' = IF pc[r] \in {"start", "rollback"} THEN live \cup {r} ELSE live
  /\ Answer(r, "dropped")
  /\ UNCHANGED <<phase, stopping, slot, reloadError, version, candidate,
                 oldSlot, activeAfter, stored>>

Reload(r) ==
  \/ ReloadBusy(r) \/ ReloadLock(r) \/ ReloadEnsure(r) \/ ReloadLoad(r)
  \/ ReloadTake(r) \/ ReloadCloseOld(r) \/ ReloadStart(r)
  \/ ReloadInstall(r) \/ ReloadRollback(r) \/ ReloadReinstall(r)
  \/ ReloadGiveUp(r) \/ ReloadNote(r)
  \/ ReloadAuditFailed(r) \/ ReloadAuditSucceeded(r)

-----------------------------------------------------------------------------
(* shutdown(), called once by main() after the stop signal.                *)

\* Mutant: shutdown() does not take the lifecycle lock.
ShutdownLockNoWait ==
  /\ daemon = "up"
  /\ daemon' = "begin"
  /\ UNCHANGED holder
  /\ UNCHANGED <<phase, stopping, slot, reloadError, version, live, pc,
                 candidate, oldSlot, activeAfter, stored>>

ShutdownLock ==
  /\ daemon = "up"
  /\ IF holder = None
     THEN holder' = Boot /\ daemon' = "begin"
     ELSE daemon' = "queued" /\ UNCHANGED holder
  /\ UNCHANGED <<phase, stopping, slot, reloadError, version, live, pc,
                 candidate, oldSlot, activeAfter, stored>>

ShutdownBegin ==
  /\ daemon = "begin"
  /\ stopping' = TRUE
  /\ phase' = "Stopping"
  /\ slot' = None
  /\ oldSlot' = [oldSlot EXCEPT ![Boot] = slot]
  /\ daemon' = "closing"
  /\ UNCHANGED <<reloadError, version, live, holder, pc, candidate,
                 activeAfter, stored>>

\* slot.runtime.shutdown() returns, or there was no runtime to stop.
ShutdownEnd ==
  /\ daemon = "closing"
  /\ \/ live' = live \ {oldSlot[Boot]} /\ UNCHANGED reloadError
     \/ oldSlot[Boot] # None /\ reloadError' = TRUE /\ UNCHANGED live
  /\ phase' = "Stopped"
  /\ holder' = None
  /\ daemon' = "down"
  /\ UNCHANGED <<stopping, slot, version, pc, candidate, oldSlot,
                 activeAfter, stored>>

Shutdown == ShutdownLock \/ ShutdownBegin \/ ShutdownEnd

Next ==
  \/ StoreConfig
  \/ \E r \in Requests : Reload(r) \/ Disconnect(r)
  \/ Shutdown

Spec == Init /\ [][Next]_vars

\* Every await of the code returns but two: the shutdown of a runtime joins
\* the MQTT tasks without a timeout, so nothing is assumed of ReloadCloseOld
\* and ShutdownEnd, and nobody has to send a request or the stop signal.
Fairness ==
  /\ \A r \in Requests :
       /\ WF_vars(ReloadEnsure(r)) /\ WF_vars(ReloadLoad(r))
       /\ WF_vars(ReloadTake(r)) /\ WF_vars(ReloadStart(r))
       /\ WF_vars(ReloadInstall(r)) /\ WF_vars(ReloadRollback(r))
       /\ WF_vars(ReloadReinstall(r)) /\ WF_vars(ReloadGiveUp(r))
       /\ WF_vars(ReloadNote(r)) /\ WF_vars(ReloadAuditFailed(r))
       /\ WF_vars(ReloadAuditSucceeded(r))
  /\ WF_vars(ShutdownBegin)

FairSpec == Spec /\ Fairness

-----------------------------------------------------------------------------
TypeOK ==
  /\ phase \in Phases
  /\ stopping \in BOOLEAN
  /\ slot \in Runtimes \cup {None}
  /\ reloadError \in BOOLEAN
  /\ version \in [Runtimes -> Nat]
  /\ live \subseteq Runtimes
  /\ holder \in Runtimes \cup {None}
  /\ pc \in [Requests -> {"idle"} \cup Working \cup Answers]
  /\ candidate \in [Requests -> Nat \cup {None}]
  /\ oldSlot \in [Runtimes -> Runtimes \cup {None}]
  /\ activeAfter \in [Requests -> Nat \cup {None}]
  /\ daemon \in DaemonStates
  /\ stored \in Nat

\* Two runtimes of the project never run side by side: no task of an old
\* runtime may still be running when another runtime is started, whatever
\* fails, is rolled back or is cut off by a client that goes away (two would
\* subscribe twice with one MQTT client id and deliver every event twice).
AtMostOneRuntime == \A a, b \in live : a = b

\* readiness() and status() tell the truth: the phase is Running exactly when
\* the slot holds a runtime, and then that runtime is the only one running.
RunningHasRuntime ==
  /\ phase = "Running" <=> slot # None
  /\ slot # None => live = {slot}

\* The version a reload writes to the audit trail as active_version_after is
\* the one that is active when the event is recorded, although the supervisor
\* has released the state lock in between.
AuditNamesActiveVersion ==
  \A r \in Requests :
    pc[r] \in {"auditOk", "auditFail"} => activeAfter[r] = ActiveVersion

\* A reload, rolled back or not, never replaces a runtime by one with an
\* older config: requests that overlap with each other and with stores cannot
\* install the configs they loaded in the wrong order.
NoDowngrade ==
  \A r \in Requests :
    slot = r => version[oldSlot[r]] <= version[r] /\ version[r] <= stored

\* "Reloading" is left behind only by a reload that was refused because there
\* was no runtime, or that was cut off: in every other case somebody is at
\* work on the reload and will leave that phase.
ReloadingHasWorker ==
  phase = "Reloading" =>
    \/ holder # None
    \/ \E r \in Requests :
         \/ pc[r] = "refused" /\ oldSlot[r] = None /\ candidate[r] # None
         \/ pc[r] = "dropped"

\* Once shutdown() has set the stopping flag no runtime is started or put
\* into the slot again, also by reloads that were under way before.
StoppedForGood ==
  [][stopping => stopping' /\ live' \subseteq live /\ slot' = None]_vars

\* No runtime shutdown that a reload waits for hangs.
RuntimesStop == \A r \in Requests : []<>(pc[r] # "closeOld")

\* shutdown() queued behind a reload gets the lifecycle lock and takes the
\* runtime: later reloads cannot overtake it again and again.
ShutdownNotStarved ==
  RuntimesStop => (daemon = "queued" ~> daemon = "closing")

\* Every reload that was let in is answered, and the lock is given back.
ReloadAnswered ==
  RuntimesStop =>
    \A r \in Requests : pc[r] \in Working ~> pc[r] \in Answers /\ holder # r

\* README: the daemon "orchestrates secure hot-reloading of configurations
\* (using atomic pointer swapping)".  Swapped atomically, the slot would be
\* empty only once the daemon stops.
AtomicSwap == slot # None \/ stopping
=============================================================================
