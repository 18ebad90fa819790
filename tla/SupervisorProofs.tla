--------------------------- MODULE SupervisorProofs ---------------------------
(***************************************************************************)
(* Proofs about the runtime supervisor, for every set of reload requests.  *)
(*                                                                         *)
(* The properties are not inductive by themselves: that two runtimes never *)
(* overlap rests on who holds the lifecycle lock (LockInv) and on what the *)
(* holder knows at each await (StepInv); that no config is downgraded      *)
(* rests on the order of the versions along a reload (VersionInv).         *)
(***************************************************************************)
EXTENDS Supervisor, TLAPS

\* A handler works on its reload exactly while it owns the lifecycle lock.
LockInv ==
  /\ \A r \in Requests : pc[r] \in Working <=> holder = r
  /\ daemon \in {"begin", "closing"} <=> holder = Boot
  /\ daemon = "queued" => holder \in Requests

\* The stopping flag is set while the daemon owns the lock; from then on a
\* reload gets no further than ensure_not_stopping().
StopInv ==
  /\ stopping <=> daemon \in {"closing", "down"}
  /\ stopping =>
       /\ slot = None
       /\ \A r \in Requests : pc[r] \in {"idle", "ensure"} \cup Answers

\* What the handler that owns the lock can rely on at each of its steps.
StepInv ==
  /\ slot \in Requests =>
       pc[slot] \in {"auditOk", "note", "auditFail"} \cup Answers
  /\ \A r \in Requests :
       /\ pc[r] = "closeOld" =>
            slot = None /\ oldSlot[r] \in Runtimes /\ live = {oldSlot[r]}
       /\ pc[r] \in {"start", "rollback", "giveUp"} =>
            slot = None /\ oldSlot[r] \in Runtimes /\ live = {}
       /\ pc[r] \in {"install", "reinstall"} =>
            slot = None /\ oldSlot[r] \in Runtimes /\ live = {r}
       /\ pc[r] = "auditOk" => slot = r
  /\ daemon = "closing" /\ oldSlot[Boot] # None => live = {oldSlot[Boot]}

\* The order of the config versions along a reload.
VersionInv ==
  /\ slot # None => version[slot] <= stored
  /\ \A r \in Requests :
       /\ oldSlot[r] \in Requests => pc[oldSlot[r]] \in Answers
       /\ pc[r] \in {"take", "closeOld", "start", "install", "rollback",
                     "reinstall"} =>
            candidate[r] \in Nat /\ candidate[r] <= stored
       /\ pc[r] = "take" /\ slot # None => version[slot] <= candidate[r]
       /\ pc[r] \in {"closeOld", "start", "rollback", "install",
                     "reinstall"} => version[oldSlot[r]] <= candidate[r]
       /\ pc[r] = "install" => version[r] = candidate[r]
       /\ pc[r] = "reinstall" => version[r] = version[oldSlot[r]]
       /\ slot = r => oldSlot[r] \in Runtimes

AuditInv ==
  \A r \in Requests :
    /\ pc[r] \in {"idle", "ensure", "load", "take", "closeOld"} =>
         activeAfter[r] = None
    /\ pc[r] = "auditOk" => activeAfter[r] = version[r]

\* Some reload is past taking the slot and has not put a runtime back.
AtWork ==
  \E r \in Requests :
    pc[r] \in {"closeOld", "start", "install", "rollback", "reinstall",
               "giveUp"}

\* A reload found no runtime, or was cut off.
LeftBehind ==
  \E r \in Requests :
    \/ pc[r] = "refused" /\ oldSlot[r] = None /\ candidate[r] # None
    \/ pc[r] = "dropped"

ReloadingInv == phase = "Reloading" => AtWork \/ LeftBehind

IInv ==
  /\ TypeOK /\ LockInv /\ StopInv /\ StepInv
  /\ AtMostOneRuntime /\ RunningHasRuntime
  /\ VersionInv /\ NoDowngrade
  /\ AuditInv /\ AuditNamesActiveVersion
  /\ ReloadingInv

-----------------------------------------------------------------------------
\* The invariant holds when the daemon has started its first runtime.
LEMMA InitIInv == Init => IInv
<1> SUFFICES ASSUME Init PROVE IInv
  OBVIOUS
<1> USE SupervisorAssumption
    DEF Init, Runtimes, Phases, DaemonStates, Working, Answers
<1>0. PICK v \in {0, 1} : version = [rt \in Runtimes |-> v]
  OBVIOUS
<1>1. TypeOK
  <2>1. version \in [Runtimes -> Nat]
    BY <1>0
  <2> QED
    BY <2>1 DEF TypeOK
<1>2. LockInv /\ StopInv /\ StepInv
  BY DEF LockInv, StopInv, StepInv
<1>3. AtMostOneRuntime /\ RunningHasRuntime
  BY DEF AtMostOneRuntime, RunningHasRuntime
<1>4. VersionInv /\ NoDowngrade
  BY DEF VersionInv, NoDowngrade
<1>5. AuditInv /\ AuditNamesActiveVersion /\ ReloadingInv
  BY DEF AuditInv, AuditNamesActiveVersion, ReloadingInv
<1> QED
  BY <1>1, <1>2, <1>3, <1>4, <1>5 DEF IInv

-----------------------------------------------------------------------------
(* Every action preserves the invariant.                                   *)

\* StoreConfig preserves the invariant.
LEMMA StoreConfigKeeps ==
  ASSUME IInv, StoreConfig
  PROVE  IInv'
<1> USE SupervisorAssumption DEF IInv, StoreConfig, Runtimes,
       Phases, DaemonStates, Working, Answers
<1>1. TypeOK'
  BY DEF TypeOK
<1>2. VersionInv'
  BY DEF TypeOK, LockInv, StopInv, StepInv, VersionInv
<1>3. NoDowngrade'
  BY DEF TypeOK, LockInv, StepInv, VersionInv, NoDowngrade
<1> QED
  BY <1>1, <1>2, <1>3
    DEF LockInv, StopInv, StepInv, AtMostOneRuntime, RunningHasRuntime,
      AuditInv, AuditNamesActiveVersion, ReloadingInv, AtWork, LeftBehind,
      ActiveVersion

\* ReloadBusy preserves the invariant.
LEMMA ReloadBusyKeeps ==
  ASSUME IInv, NEW r \in Requests, ReloadBusy(r)
  PROVE  IInv'
<1> USE SupervisorAssumption DEF IInv, ReloadBusy, Runtimes,
       Phases, DaemonStates, Working, Answers
<1>1. TypeOK'
  BY DEF TypeOK
<1>2. LockInv'
  BY DEF TypeOK, LockInv
<1>3. StopInv'
  BY DEF TypeOK, LockInv, StopInv
<1>4. StepInv'
  BY DEF TypeOK, LockInv, StopInv, StepInv, RunningHasRuntime
<1>5. VersionInv'
  BY DEF TypeOK, LockInv, StopInv, StepInv, VersionInv
<1>6. AuditInv'
  BY DEF TypeOK, LockInv, VersionInv, AuditInv
<1>7. AuditNamesActiveVersion'
  BY DEF TypeOK, LockInv, StepInv, VersionInv, AuditInv,
             AuditNamesActiveVersion, ActiveVersion
<1>8. ReloadingInv'
  BY DEF TypeOK, LockInv, VersionInv, ReloadingInv, AtWork, LeftBehind
<1> QED
  BY <1>1, <1>2, <1>3, <1>4, <1>5, <1>6, <1>7, <1>8
    DEF AtMostOneRuntime, RunningHasRuntime, NoDowngrade

\* ReloadLock preserves the invariant.
LEMMA ReloadLockKeeps ==
  ASSUME IInv, NEW r \in Requests, ReloadLock(r)
  PROVE  IInv'
<1> USE SupervisorAssumption DEF IInv, ReloadLock, Runtimes,
       Phases, DaemonStates, Working, Answers
<1>1. TypeOK'
  BY DEF TypeOK
<1>2. LockInv'
  BY DEF TypeOK, LockInv
<1>3. StopInv'
  BY DEF TypeOK, LockInv, StopInv
<1>4. StepInv'
  BY DEF TypeOK, LockInv, StopInv, StepInv, RunningHasRuntime
<1>5. VersionInv'
  BY DEF TypeOK, LockInv, StopInv, StepInv, VersionInv
<1>6. AuditInv'
  BY DEF TypeOK, LockInv, VersionInv, AuditInv
<1>7. AuditNamesActiveVersion'
  BY DEF TypeOK, LockInv, StepInv, VersionInv, AuditInv,
             AuditNamesActiveVersion, ActiveVersion
<1>8. ReloadingInv'
  BY DEF TypeOK, LockInv, VersionInv, ReloadingInv, AtWork, LeftBehind
<1> QED
  BY <1>1, <1>2, <1>3, <1>4, <1>5, <1>6, <1>7, <1>8
    DEF AtMostOneRuntime, RunningHasRuntime, NoDowngrade

\* ReloadEnsure preserves the invariant.
LEMMA ReloadEnsureKeeps ==
  ASSUME IInv, NEW r \in Requests, ReloadEnsure(r)
  PROVE  IInv'
<1> USE SupervisorAssumption DEF IInv, ReloadEnsure, Answer, Goto, Unlock, Runtimes,
       Phases, DaemonStates, Working, Answers
<1>1. TypeOK'
  BY DEF TypeOK
<1>2. LockInv'
  BY DEF TypeOK, LockInv
<1>3. StopInv'
  BY DEF TypeOK, LockInv, StopInv
<1>4. StepInv'
  BY DEF TypeOK, LockInv, StopInv, StepInv, RunningHasRuntime
<1>5. VersionInv'
  BY DEF TypeOK, LockInv, StopInv, StepInv, VersionInv
<1>6. AuditInv'
  BY DEF TypeOK, LockInv, VersionInv, AuditInv
<1>7. AuditNamesActiveVersion'
  BY DEF TypeOK, LockInv, StepInv, VersionInv, AuditInv,
             AuditNamesActiveVersion, ActiveVersion
<1>8. ReloadingInv'
  BY DEF TypeOK, LockInv, VersionInv, ReloadingInv, AtWork, LeftBehind
<1> QED
  BY <1>1, <1>2, <1>3, <1>4, <1>5, <1>6, <1>7, <1>8
    DEF AtMostOneRuntime, RunningHasRuntime, NoDowngrade

\* ReloadLoad preserves the invariant.
LEMMA ReloadLoadKeeps ==
  ASSUME IInv, NEW r \in Requests, ReloadLoad(r)
  PROVE  IInv'
<1> USE SupervisorAssumption DEF IInv, ReloadLoad, Answer, Goto, Unlock, Runtimes,
       Phases, DaemonStates, Working, Answers
<1>1. TypeOK'
  BY DEF TypeOK
<1>2. LockInv'
  BY DEF TypeOK, LockInv
<1>3. StopInv'
  BY DEF TypeOK, LockInv, StopInv
<1>4. StepInv'
  BY DEF TypeOK, LockInv, StopInv, StepInv, RunningHasRuntime
<1>5. VersionInv'
  BY DEF TypeOK, LockInv, StopInv, StepInv, VersionInv
<1>6. AuditInv'
  BY DEF TypeOK, LockInv, VersionInv, AuditInv
<1>7. AuditNamesActiveVersion'
  BY DEF TypeOK, LockInv, StepInv, VersionInv, AuditInv,
             AuditNamesActiveVersion, ActiveVersion
<1>8. ReloadingInv'
  BY DEF TypeOK, LockInv, VersionInv, ReloadingInv, AtWork, LeftBehind
<1> QED
  BY <1>1, <1>2, <1>3, <1>4, <1>5, <1>6, <1>7, <1>8
    DEF AtMostOneRuntime, RunningHasRuntime, NoDowngrade

\* ReloadTake preserves the invariant.
LEMMA ReloadTakeKeeps ==
  ASSUME IInv, NEW r \in Requests, ReloadTake(r)
  PROVE  IInv'
<1> USE SupervisorAssumption DEF IInv, ReloadTake, Answer, Goto, Unlock, Runtimes,
       Phases, DaemonStates, Working, Answers
<1>1. TypeOK'
  BY DEF TypeOK
<1>2. LockInv'
  BY DEF TypeOK, LockInv
<1>3. StopInv'
  BY DEF TypeOK, LockInv, StopInv
<1>4. StepInv'
  BY DEF TypeOK, LockInv, StopInv, StepInv, RunningHasRuntime
<1>5. RunningHasRuntime'
  BY DEF TypeOK, LockInv, StopInv, StepInv, RunningHasRuntime
<1>6. VersionInv'
  BY DEF TypeOK, LockInv, StopInv, StepInv, VersionInv
<1>7. NoDowngrade'
  BY DEF TypeOK, LockInv, StepInv, VersionInv, NoDowngrade
<1>8. AuditInv'
  BY DEF TypeOK, LockInv, VersionInv, AuditInv
<1>9. AuditNamesActiveVersion'
  BY DEF TypeOK, LockInv, StepInv, VersionInv, AuditInv,
             AuditNamesActiveVersion, ActiveVersion
<1>10. ReloadingInv'
  BY DEF TypeOK, LockInv, VersionInv, ReloadingInv, AtWork, LeftBehind
<1> QED
  BY <1>1, <1>2, <1>3, <1>4, <1>5, <1>6, <1>7, <1>8, <1>9, <1>10
    DEF AtMostOneRuntime

\* ReloadCloseOld preserves the invariant.
LEMMA ReloadCloseOldKeeps ==
  ASSUME IInv, NEW r \in Requests, ReloadCloseOld(r)
  PROVE  IInv'
<1> USE SupervisorAssumption DEF IInv, ReloadCloseOld, Goto, Runtimes,
       Phases, DaemonStates, Working, Answers
<1>1. TypeOK'
  BY ZenonT(40) DEF TypeOK
<1>2. LockInv'
  BY DEF TypeOK, LockInv
<1>3. StopInv'
  BY DEF TypeOK, LockInv, StopInv
<1>4. StepInv'
  BY DEF TypeOK, LockInv, StopInv, StepInv, RunningHasRuntime
<1>5. AtMostOneRuntime'
  BY DEF StepInv, AtMostOneRuntime
<1>6. RunningHasRuntime'
  BY DEF TypeOK, LockInv, StopInv, StepInv, RunningHasRuntime
<1>7. VersionInv'
  BY DEF TypeOK, LockInv, StopInv, StepInv, VersionInv
<1>8. NoDowngrade'
  BY DEF TypeOK, LockInv, StepInv, VersionInv, NoDowngrade
<1>9. AuditInv'
  BY DEF TypeOK, LockInv, VersionInv, AuditInv
<1>10. AuditNamesActiveVersion'
  BY DEF TypeOK, LockInv, StepInv, VersionInv, AuditInv,
             AuditNamesActiveVersion, ActiveVersion
<1>11. ReloadingInv'
  BY DEF TypeOK, LockInv, VersionInv, ReloadingInv, AtWork, LeftBehind
<1> QED
  BY <1>1, <1>2, <1>3, <1>4, <1>5, <1>6, <1>7, <1>8, <1>9, <1>10, <1>11

\* ReloadStart preserves the invariant.
LEMMA ReloadStartKeeps ==
  ASSUME IInv, NEW r \in Requests, ReloadStart(r)
  PROVE  IInv'
<1> USE SupervisorAssumption DEF IInv, ReloadStart, Goto, Runtimes,
       Phases, DaemonStates, Working, Answers
<1>1. TypeOK'
  BY DEF TypeOK, VersionInv
<1>2. LockInv'
  BY DEF TypeOK, LockInv
<1>3. StopInv'
  BY DEF TypeOK, LockInv, StopInv
<1>4. StepInv'
  BY DEF TypeOK, LockInv, StopInv, StepInv, RunningHasRuntime
<1>5. AtMostOneRuntime'
  BY DEF StepInv, AtMostOneRuntime
<1>6. RunningHasRuntime'
  BY DEF TypeOK, LockInv, StopInv, StepInv, RunningHasRuntime
<1>7. VersionInv'
  BY DEF TypeOK, LockInv, StopInv, StepInv, VersionInv
<1>8. NoDowngrade'
  BY DEF TypeOK, LockInv, StepInv, VersionInv, NoDowngrade
<1>9. AuditInv'
  BY DEF TypeOK, LockInv, VersionInv, AuditInv
<1>10. AuditNamesActiveVersion'
  BY DEF TypeOK, LockInv, StepInv, VersionInv, AuditInv,
             AuditNamesActiveVersion, ActiveVersion
<1>11. ReloadingInv'
  BY DEF TypeOK, LockInv, VersionInv, ReloadingInv, AtWork, LeftBehind
<1> QED
  BY <1>1, <1>2, <1>3, <1>4, <1>5, <1>6, <1>7, <1>8, <1>9, <1>10, <1>11

\* ReloadInstall preserves the invariant.
LEMMA ReloadInstallKeeps ==
  ASSUME IInv, NEW r \in Requests, ReloadInstall(r)
  PROVE  IInv'
<1> USE SupervisorAssumption DEF IInv, ReloadInstall, Goto, Runtimes,
       Phases, DaemonStates, Working, Answers
<1>1. TypeOK'
  BY DEF TypeOK
<1>2. LockInv'
  BY DEF TypeOK, LockInv
<1>3. StopInv'
  BY DEF TypeOK, LockInv, StopInv
<1>4. StepInv'
  BY DEF TypeOK, LockInv, StopInv, StepInv, RunningHasRuntime
<1>5. RunningHasRuntime'
  BY DEF TypeOK, LockInv, StopInv, StepInv, RunningHasRuntime
<1>6. VersionInv'
  BY DEF TypeOK, LockInv, StopInv, StepInv, VersionInv
<1>7. NoDowngrade'
  BY DEF TypeOK, LockInv, StepInv, VersionInv, NoDowngrade
<1>8. AuditInv'
  BY DEF TypeOK, LockInv, VersionInv, AuditInv
<1>9. AuditNamesActiveVersion'
  BY DEF TypeOK, LockInv, StepInv, VersionInv, AuditInv,
             AuditNamesActiveVersion, ActiveVersion
<1>10. ReloadingInv'
  BY DEF TypeOK, LockInv, VersionInv, ReloadingInv, AtWork, LeftBehind
<1> QED
  BY <1>1, <1>2, <1>3, <1>4, <1>5, <1>6, <1>7, <1>8, <1>9, <1>10
    DEF AtMostOneRuntime

\* ReloadRollback preserves the invariant.
LEMMA ReloadRollbackKeeps ==
  ASSUME IInv, NEW r \in Requests, ReloadRollback(r)
  PROVE  IInv'
<1> USE SupervisorAssumption DEF IInv, ReloadRollback, Goto, Runtimes,
       Phases, DaemonStates, Working, Answers
<1>1. TypeOK'
  BY DEF TypeOK, StepInv
<1>2. LockInv'
  BY DEF TypeOK, LockInv
<1>3. StopInv'
  BY DEF TypeOK, LockInv, StopInv
<1>4. StepInv'
  BY DEF TypeOK, LockInv, StopInv, StepInv, RunningHasRuntime
<1>5. AtMostOneRuntime'
  BY DEF StepInv, AtMostOneRuntime
<1>6. RunningHasRuntime'
  BY DEF TypeOK, LockInv, StopInv, StepInv, RunningHasRuntime
<1>7. VersionInv'
  BY DEF TypeOK, LockInv, StopInv, StepInv, VersionInv
<1>8. NoDowngrade'
  BY DEF TypeOK, LockInv, StepInv, VersionInv, NoDowngrade
<1>9. AuditInv'
  BY DEF TypeOK, LockInv, VersionInv, AuditInv
<1>10. AuditNamesActiveVersion'
  BY DEF TypeOK, LockInv, StepInv, VersionInv, AuditInv,
             AuditNamesActiveVersion, ActiveVersion
<1>11. ReloadingInv'
  BY DEF TypeOK, LockInv, VersionInv, ReloadingInv, AtWork, LeftBehind
<1> QED
  BY <1>1, <1>2, <1>3, <1>4, <1>5, <1>6, <1>7, <1>8, <1>9, <1>10, <1>11

\* ReloadReinstall preserves the invariant.
LEMMA ReloadReinstallKeeps ==
  ASSUME IInv, NEW r \in Requests, ReloadReinstall(r)
  PROVE  IInv'
<1> USE SupervisorAssumption DEF IInv, ReloadReinstall, Goto, Runtimes,
       Phases, DaemonStates, Working, Answers
<1>1. TypeOK'
  BY DEF TypeOK
<1>2. LockInv'
  BY DEF TypeOK, LockInv
<1>3. StopInv'
  BY DEF TypeOK, LockInv, StopInv
<1>4. StepInv'
  BY DEF TypeOK, LockInv, StopInv, StepInv, RunningHasRuntime
<1>5. RunningHasRuntime'
  BY DEF TypeOK, LockInv, StopInv, StepInv, RunningHasRuntime
<1>6. VersionInv'
  BY DEF TypeOK, LockInv, StopInv, StepInv, VersionInv
<1>7. NoDowngrade'
  BY DEF TypeOK, LockInv, StepInv, VersionInv, NoDowngrade
<1>8. AuditInv'
  BY DEF TypeOK, LockInv, VersionInv, AuditInv
<1>9. AuditNamesActiveVersion'
  BY DEF TypeOK, LockInv, StepInv, VersionInv, AuditInv,
             AuditNamesActiveVersion, ActiveVersion
<1>10. ReloadingInv'
  BY DEF TypeOK, LockInv, VersionInv, ReloadingInv, AtWork, LeftBehind
<1> QED
  BY <1>1, <1>2, <1>3, <1>4, <1>5, <1>6, <1>7, <1>8, <1>9, <1>10
    DEF AtMostOneRuntime

\* ReloadGiveUp preserves the invariant.
LEMMA ReloadGiveUpKeeps ==
  ASSUME IInv, NEW r \in Requests, ReloadGiveUp(r)
  PROVE  IInv'
<1> USE SupervisorAssumption DEF IInv, ReloadGiveUp, Goto, Runtimes,
       Phases, DaemonStates, Working, Answers
<1>1. TypeOK'
  BY DEF TypeOK
<1>2. LockInv'
  BY DEF TypeOK, LockInv
<1>3. StopInv'
  BY DEF TypeOK, LockInv, StopInv
<1>4. StepInv'
  BY DEF TypeOK, LockInv, StopInv, StepInv, RunningHasRuntime
<1>5. RunningHasRuntime'
  BY DEF TypeOK, LockInv, StopInv, StepInv, RunningHasRuntime
<1>6. VersionInv'
  BY DEF TypeOK, LockInv, StopInv, StepInv, VersionInv
<1>7. NoDowngrade'
  BY DEF TypeOK, LockInv, StepInv, VersionInv, NoDowngrade
<1>8. AuditInv'
  BY DEF TypeOK, LockInv, VersionInv, AuditInv
<1>9. AuditNamesActiveVersion'
  BY DEF TypeOK, LockInv, StepInv, VersionInv, AuditInv,
             AuditNamesActiveVersion, ActiveVersion
<1>10. ReloadingInv'
  BY DEF TypeOK, LockInv, VersionInv, ReloadingInv, AtWork, LeftBehind
<1> QED
  BY <1>1, <1>2, <1>3, <1>4, <1>5, <1>6, <1>7, <1>8, <1>9, <1>10
    DEF AtMostOneRuntime

\* ReloadNote preserves the invariant.
LEMMA ReloadNoteKeeps ==
  ASSUME IInv, NEW r \in Requests, ReloadNote(r)
  PROVE  IInv'
<1> USE SupervisorAssumption DEF IInv, ReloadNote, Goto, Runtimes,
       Phases, DaemonStates, Working, Answers
<1>1. TypeOK'
  BY DEF TypeOK, ActiveVersion
<1>2. LockInv'
  BY DEF TypeOK, LockInv
<1>3. StopInv'
  BY DEF TypeOK, LockInv, StopInv
<1>4. StepInv'
  BY DEF TypeOK, LockInv, StopInv, StepInv, RunningHasRuntime
<1>5. VersionInv'
  BY DEF TypeOK, LockInv, StopInv, StepInv, VersionInv
<1>6. AuditInv'
  BY DEF TypeOK, LockInv, VersionInv, AuditInv
<1>7. AuditNamesActiveVersion'
  BY DEF TypeOK, LockInv, StepInv, VersionInv, AuditInv,
             AuditNamesActiveVersion, ActiveVersion
<1>8. ReloadingInv'
  BY DEF TypeOK, LockInv, VersionInv, ReloadingInv, AtWork, LeftBehind
<1> QED
  BY <1>1, <1>2, <1>3, <1>4, <1>5, <1>6, <1>7, <1>8
    DEF AtMostOneRuntime, RunningHasRuntime, NoDowngrade

\* ReloadAuditFailed preserves the invariant.
LEMMA ReloadAuditFailedKeeps ==
  ASSUME IInv, NEW r \in Requests, ReloadAuditFailed(r)
  PROVE  IInv'
<1> USE SupervisorAssumption DEF IInv, ReloadAuditFailed, Answer, Unlock, Runtimes,
       Phases, DaemonStates, Working, Answers
<1>1. TypeOK'
  BY DEF TypeOK
<1>2. LockInv'
  BY DEF TypeOK, LockInv
<1>3. StopInv'
  BY DEF TypeOK, LockInv, StopInv
<1>4. StepInv'
  BY DEF TypeOK, LockInv, StopInv, StepInv, RunningHasRuntime
<1>5. VersionInv'
  BY DEF TypeOK, LockInv, StopInv, StepInv, VersionInv
<1>6. AuditInv'
  BY DEF TypeOK, LockInv, VersionInv, AuditInv
<1>7. AuditNamesActiveVersion'
  BY DEF TypeOK, LockInv, StepInv, VersionInv, AuditInv,
             AuditNamesActiveVersion, ActiveVersion
<1>8. ReloadingInv'
  BY DEF TypeOK, LockInv, VersionInv, ReloadingInv, AtWork, LeftBehind
<1> QED
  BY <1>1, <1>2, <1>3, <1>4, <1>5, <1>6, <1>7, <1>8
    DEF AtMostOneRuntime, RunningHasRuntime, NoDowngrade

\* ReloadAuditSucceeded preserves the invariant.
LEMMA ReloadAuditSucceededKeeps ==
  ASSUME IInv, NEW r \in Requests, ReloadAuditSucceeded(r)
  PROVE  IInv'
<1> USE SupervisorAssumption DEF IInv, ReloadAuditSucceeded, Answer, Unlock, Runtimes,
       Phases, DaemonStates, Working, Answers
<1>1. TypeOK'
  BY DEF TypeOK
<1>2. LockInv'
  BY DEF TypeOK, LockInv
<1>3. StopInv'
  BY DEF TypeOK, LockInv, StopInv
<1>4. StepInv'
  BY DEF TypeOK, LockInv, StopInv, StepInv, RunningHasRuntime
<1>5. VersionInv'
  BY DEF TypeOK, LockInv, StopInv, StepInv, VersionInv
<1>6. AuditInv'
  BY DEF TypeOK, LockInv, VersionInv, AuditInv
<1>7. AuditNamesActiveVersion'
  BY DEF TypeOK, LockInv, StepInv, VersionInv, AuditInv,
             AuditNamesActiveVersion, ActiveVersion
<1>8. ReloadingInv'
  BY DEF TypeOK, LockInv, VersionInv, ReloadingInv, AtWork, LeftBehind
<1> QED
  BY <1>1, <1>2, <1>3, <1>4, <1>5, <1>6, <1>7, <1>8
    DEF AtMostOneRuntime, RunningHasRuntime, NoDowngrade

\* Disconnect preserves the invariant.
LEMMA DisconnectKeeps ==
  ASSUME IInv, NEW r \in Requests, Disconnect(r)
  PROVE  IInv'
<1> USE SupervisorAssumption DEF IInv, Disconnect, Answer, Unlock, Runtimes,
       Phases, DaemonStates, Working, Answers
<1>1. TypeOK'
  BY DEF TypeOK
<1>2. LockInv'
  BY DEF TypeOK, LockInv
<1>3. StopInv'
  BY DEF TypeOK, LockInv, StopInv
<1>4. StepInv'
  BY DEF TypeOK, LockInv, StopInv, StepInv, RunningHasRuntime
<1>5. VersionInv'
  BY DEF TypeOK, LockInv, StopInv, StepInv, VersionInv
<1>6. AuditInv'
  BY DEF TypeOK, LockInv, VersionInv, AuditInv
<1>7. AuditNamesActiveVersion'
  BY DEF TypeOK, LockInv, StepInv, VersionInv, AuditInv,
             AuditNamesActiveVersion, ActiveVersion
<1>8. ReloadingInv'
  BY DEF TypeOK, LockInv, VersionInv, ReloadingInv, AtWork, LeftBehind
<1>9. AtMostOneRuntime'
  BY DEF TypeOK, StepInv, AtMostOneRuntime
<1>10. RunningHasRuntime'
  BY DEF TypeOK, StepInv, RunningHasRuntime
<1>11. NoDowngrade'
  BY DEF NoDowngrade
<1> QED
  BY <1>1, <1>2, <1>3, <1>4, <1>5, <1>6, <1>7, <1>8, <1>9, <1>10, <1>11

\* ShutdownLock preserves the invariant.
LEMMA ShutdownLockKeeps ==
  ASSUME IInv, ShutdownLock
  PROVE  IInv'
<1> USE SupervisorAssumption DEF IInv, ShutdownLock, Runtimes,
       Phases, DaemonStates, Working, Answers
<1>1. TypeOK'
  BY DEF TypeOK
<1>2. LockInv'
  BY DEF TypeOK, LockInv
<1>3. StopInv'
  BY DEF TypeOK, LockInv, StopInv
<1>4. StepInv'
  BY DEF TypeOK, LockInv, StopInv, StepInv, RunningHasRuntime
<1> QED
  BY <1>1, <1>2, <1>3, <1>4
    DEF AtMostOneRuntime, RunningHasRuntime, VersionInv, NoDowngrade,
      AuditInv, AuditNamesActiveVersion, ReloadingInv, AtWork, LeftBehind,
      ActiveVersion

\* ShutdownBegin preserves the invariant.
LEMMA ShutdownBeginKeeps ==
  ASSUME IInv, ShutdownBegin
  PROVE  IInv'
<1> USE SupervisorAssumption DEF IInv, ShutdownBegin, Runtimes,
       Phases, DaemonStates, Working, Answers
<1>1. TypeOK'
  BY DEF TypeOK
<1>2. LockInv'
  BY DEF TypeOK, LockInv
<1>3. StopInv'
  BY DEF TypeOK, LockInv, StopInv
<1>4. StepInv'
  BY DEF TypeOK, LockInv, StopInv, StepInv, RunningHasRuntime
<1>5. RunningHasRuntime'
  BY DEF TypeOK, LockInv, StopInv, StepInv, RunningHasRuntime
<1>6. VersionInv'
  BY DEF TypeOK, LockInv, StopInv, StepInv, VersionInv
<1>7. NoDowngrade'
  BY DEF TypeOK, LockInv, StepInv, VersionInv, NoDowngrade
<1>8. AuditNamesActiveVersion'
  BY DEF TypeOK, LockInv, StepInv, VersionInv, AuditInv,
             AuditNamesActiveVersion, ActiveVersion
<1>9. ReloadingInv'
  BY DEF TypeOK, LockInv, VersionInv, ReloadingInv, AtWork, LeftBehind
<1> QED
  BY <1>1, <1>2, <1>3, <1>4, <1>5, <1>6, <1>7, <1>8, <1>9
    DEF AtMostOneRuntime, AuditInv

\* ShutdownEnd preserves the invariant.
LEMMA ShutdownEndKeeps ==
  ASSUME IInv, ShutdownEnd
  PROVE  IInv'
<1> USE SupervisorAssumption DEF IInv, ShutdownEnd, Runtimes,
       Phases, DaemonStates, Working, Answers
<1>1. TypeOK'
  BY DEF TypeOK
<1>2. LockInv'
  BY DEF TypeOK, LockInv
<1>3. StopInv'
  BY DEF TypeOK, LockInv, StopInv
<1>4. StepInv'
  BY DEF TypeOK, LockInv, StopInv, StepInv, RunningHasRuntime
<1>5. AtMostOneRuntime'
  BY DEF StepInv, AtMostOneRuntime
<1>6. RunningHasRuntime'
  BY DEF TypeOK, LockInv, StopInv, StepInv, RunningHasRuntime
<1>7. ReloadingInv'
  BY DEF TypeOK, LockInv, VersionInv, ReloadingInv, AtWork, LeftBehind
<1> QED
  BY <1>1, <1>2, <1>3, <1>4, <1>5, <1>6, <1>7
    DEF VersionInv, NoDowngrade, AuditInv, AuditNamesActiveVersion,
      ActiveVersion

-----------------------------------------------------------------------------
\* Every step, a stuttering one included, preserves the invariant.
LEMMA NextIInv == IInv /\ [Next]_vars => IInv'
<1> SUFFICES ASSUME IInv, [Next]_vars PROVE IInv'
  OBVIOUS
<1>1. CASE StoreConfig
  BY <1>1, StoreConfigKeeps
<1>2. ASSUME NEW r \in Requests, Reload(r) PROVE IInv'
  BY <1>2, ReloadBusyKeeps, ReloadLockKeeps, ReloadEnsureKeeps,
     ReloadLoadKeeps, ReloadTakeKeeps, ReloadCloseOldKeeps, ReloadStartKeeps,
     ReloadInstallKeeps, ReloadRollbackKeeps, ReloadReinstallKeeps,
     ReloadGiveUpKeeps, ReloadNoteKeeps, ReloadAuditFailedKeeps,
     ReloadAuditSucceededKeeps
  DEF Reload
<1>3. ASSUME NEW r \in Requests, Disconnect(r) PROVE IInv'
  BY <1>3, DisconnectKeeps
<1>4. CASE Shutdown
  BY <1>4, ShutdownLockKeeps, ShutdownBeginKeeps, ShutdownEndKeeps
  DEF Shutdown
<1>5. CASE UNCHANGED vars
  BY <1>5
  DEF vars, IInv, TypeOK, LockInv, StopInv, StepInv, AtMostOneRuntime,
      RunningHasRuntime, VersionInv, NoDowngrade, AuditInv,
      AuditNamesActiveVersion, ActiveVersion, ReloadingInv, AtWork,
      LeftBehind
<1> QED
  BY <1>1, <1>2, <1>3, <1>4, <1>5 DEF Next

\* The inductive invariant holds in every behaviour of the supervisor.
THEOREM Invariance == Spec => []IInv
  BY InitIInv, NextIInv, PTL DEF Spec

\* TypeOK holds for every set of requests.
THEOREM TypeCorrect == Spec => []TypeOK
<1>1. IInv => TypeOK
  BY DEF IInv
<1> QED
  BY <1>1, Invariance, PTL

\* However many reloads arrive, fail, are rolled back or are cut off, and
\* whenever the daemon is stopped, two runtimes never overlap.
THEOREM RuntimesNeverOverlap == Spec => []AtMostOneRuntime
<1>1. IInv => AtMostOneRuntime
  BY DEF IInv
<1> QED
  BY <1>1, Invariance, PTL

\* The phase that readiness() reports always agrees with the slot, and the
\* runtime in the slot is the only one alive.
THEOREM ReadinessIsTruthful == Spec => []RunningHasRuntime
<1>1. IInv => RunningHasRuntime
  BY DEF IInv
<1> QED
  BY <1>1, Invariance, PTL

\* No interleaving of reloads and stores installs an older config.
THEOREM VersionsNeverGoBack == Spec => []NoDowngrade
<1>1. IInv => NoDowngrade
  BY DEF IInv
<1> QED
  BY <1>1, Invariance, PTL

\* The audit event of a reload names the version that is active.
THEOREM AuditIsTruthful == Spec => []AuditNamesActiveVersion
<1>1. IInv => AuditNamesActiveVersion
  BY DEF IInv
<1> QED
  BY <1>1, Invariance, PTL

\* The phase Reloading without a reload at work has one of the two causes.
THEOREM ReloadingIsExplained == Spec => []ReloadingHasWorker
<1>1. IInv => ReloadingHasWorker
  <2> SUFFICES ASSUME IInv, phase = "Reloading", AtWork
               PROVE  holder # None
    BY DEF IInv, ReloadingInv, LeftBehind, ReloadingHasWorker
  <2> QED
    BY SupervisorAssumption DEF IInv, AtWork, LockInv, Working
<1> QED
  BY <1>1, Invariance, PTL

\* After the stopping flag is set no step starts or installs a runtime.
THEOREM StoppingIsFinal == Spec => StoppedForGood
<1>1. IInv /\ [Next]_vars =>
        [stopping => stopping' /\ live' \subseteq live /\ slot' = None]_vars
  <2> SUFFICES ASSUME IInv, Next, stopping
               PROVE  stopping' /\ live' \subseteq live /\ slot' = None
    OBVIOUS
  <2> USE DEF IInv, StopInv
  <2>1. CASE StoreConfig
    BY <2>1 DEF StoreConfig
  <2>2. ASSUME NEW r \in Requests, Reload(r)
        PROVE  stopping' /\ live' \subseteq live /\ slot' = None
    BY <2>2
    DEF Reload, ReloadBusy, ReloadLock, ReloadEnsure, ReloadLoad, ReloadTake,
        ReloadCloseOld, ReloadStart, ReloadInstall, ReloadRollback,
        ReloadReinstall, ReloadGiveUp, ReloadNote, ReloadAuditFailed,
        ReloadAuditSucceeded, Answers
  <2>3. ASSUME NEW r \in Requests, Disconnect(r)
        PROVE  stopping' /\ live' \subseteq live /\ slot' = None
    BY <2>3 DEF Disconnect, Answers
  <2>4. CASE Shutdown
    BY <2>4 DEF Shutdown, ShutdownLock, ShutdownBegin, ShutdownEnd
  <2> QED
    BY <2>1, <2>2, <2>3, <2>4 DEF Next
<1> QED
  BY <1>1, Invariance, PTL DEF Spec, StoppedForGood
===============================================================================
