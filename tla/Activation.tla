----------------------------- MODULE Activation -----------------------------
(***************************************************************************)
(* Installing, activating and rolling back a proxy core on a host          *)
(* (internal/core, internal/agentwork and the driver loop of              *)
(* internal/agent).  One core with one service group is modelled: its      *)
(* files, the recovery journal beside its binary, the service unit, the    *)
(* agent's pass over it and the resource worker that installs binaries.    *)
(*                                                                         *)
(* The agent and the worker exclude each other by the configuration lock;  *)
(* either can die between any two writes, and the host can lose power.     *)
(* An intent stands for the nodes and forwards of one desired state: its   *)
(* policy is the authorization fingerprint, and several intents may share  *)
(* one policy.  Content of files is the intent or version it was made for. *)
(***************************************************************************)
EXTENDS Naturals, FiniteSets, TLC

CONSTANTS
  None,
  Intents, LiveIntents,     \* desired states; those with a live resource
  PolicyOf,                 \* intent -> authorization fingerprint
  Versions,
  MaxGoals,                 \* bound: desired states published after the first
  BackupsAtomic,            \* bound: a journal without its backups survives no death or failure
  FaultBudgets              \* how many faults of each kind may happen

ASSUME ActivationAssumption ==
  /\ LiveIntents \subseteq Intents
  /\ None \notin Intents /\ None \notin Versions /\ \A i \in Intents : PolicyOf[i] # None
  /\ MaxGoals \in Nat /\ BackupsAtomic \in BOOLEAN

VARIABLES
  disk,      \* the core's files
  journal,   \* the recovery directory, or None
  done,      \* the retired recovery directory, or None
  unit,      \* the service: running process and whether it starts at boot
  act,       \* the agent's pass
  slot,      \* the resource worker's job, or None
  goal,      \* what the controller wants: intent and version
  applied,   \* AppliedRevision, or None while ApplyError is set
  receipt,   \* the last per-node application receipt
  left       \* remaining bounds

actVars == <<disk, journal, done, unit, act, slot, goal, applied, receipt, left>>
hostVars == <<goal, applied, receipt>>

Goals == [intent : Intents, version : Versions]
Policies == {PolicyOf[i] : i \in Intents}
Unfinished == {"preflight", "applying", "validated"}
InstallFiles == {"bin", "trusted", "activate", "policy", "retained"}
ApplyFilesUnclaimed == {"activate", "policy"}     \* mutant: .retained is not saved
ApplyFiles == {"activate", "policy", "retained"}
Files == InstallFiles \cup {"config", "unit"}

NewJournal(phase) ==
  [phase |-> phase, old |-> disk.policy, policy |-> None, retained |-> None,
   saved |-> <<>>, units |-> None]

IdlePass == [pc |-> "idle", intent |-> None, version |-> None, changed |-> FALSE,
             outcome |-> None, stop |-> FALSE, rp |-> None, next |-> None,
             tries |-> 0, ok |-> TRUE, known |-> FALSE]

ActInit ==
  /\ disk = [f \in Files |-> None]
  /\ journal = None /\ done = None /\ slot = None
  /\ unit = [run |-> None, enabled |-> FALSE]
  /\ act = IdlePass
  /\ goal \in Goals
  /\ applied = None /\ receipt = None
  /\ left \in {[goals |-> MaxGoals] @@ b : b \in FaultBudgets}

Fault(k) == left[k] > 0 /\ left' = [left EXCEPT ![k] = @ - 1]

Go(p) == act' = [act EXCEPT !.pc = p]

(* The receipt names the version only while it still describes the binary. *)
RecordedVersion == IF disk.trusted = disk.bin THEN disk.trusted ELSE None

Live == act.intent \in LiveIntents
Policy == PolicyOf[act.intent]

(* Mutant: the lock outlives the job. *)
WorkerKeepsLock == slot # None /\ slot.pc # "waiting"

(* The worker holds the configuration lock while it installs. *)
WorkerHoldsLock == slot # None /\ slot.pc \notin {"waiting", "finished"}
-----------------------------------------------------------------------------
(* The controller's side and the start of a pass. *)

Want(g) ==
  /\ act.pc = "idle" /\ g # goal /\ left.goals > 0
  /\ goal' = g
  /\ left' = [left EXCEPT !.goals = @ - 1]
  /\ UNCHANGED <<disk, journal, done, unit, act, slot, applied, receipt>>

ConvergePassed == act.known /\ applied = goal

(* A pass that finds its goal applied ends at once; others take the lock. *)
Converge ==
  /\ act.pc = "idle" /\ ~WorkerHoldsLock /\ ~ConvergePassed
  /\ act' = [act EXCEPT !.intent = goal.intent, !.version = goal.version,
                        !.outcome = None, !.stop = FALSE, !.tries = 0, !.ok = TRUE,
                        !.pc = IF goal.intent \in LiveIntents THEN "recover" ELSE "apply"]
  /\ UNCHANGED <<disk, journal, done, unit, slot, left>> /\ UNCHANGED hostVars

(* Egress protection or the preparation of bindings fails before any driver
   runs: the core is finalised as failed and stopped again afterwards. *)
Refuse ==
  /\ act.pc = "idle" /\ ~WorkerHoldsLock /\ ~ConvergePassed
  /\ Fault("guard")
  /\ act' = [act EXCEPT !.intent = goal.intent, !.version = goal.version,
                        !.outcome = "failed", !.stop = TRUE, !.tries = 0, !.ok = TRUE,
                        !.pc = "undo"]
  /\ UNCHANGED <<disk, journal, done, unit, slot>> /\ UNCHANGED hostVars
-----------------------------------------------------------------------------
(* EnsureInstalled. *)

Rollback(rp, next) == act' = [act EXCEPT !.pc = "rbStop", !.rp = rp, !.next = next]

(* recoverCoreInstallation: an interrupted installation is undone here, an
   interrupted activation is left to Apply. *)
Recover ==
  /\ act.pc = "recover"
  /\ done' = None
  /\ \/ journal = None /\ Go("recorded")
     \/ journal # None /\ journal.phase = "installing" /\ Rollback(journal.old, "recorded")
     \/ journal # None /\ journal.phase = "installed" /\ Go("recorded")
     \/ journal # None /\ journal.phase \in Unfinished /\ Go("apply")
  /\ UNCHANGED <<disk, journal, unit, slot, left>> /\ UNCHANGED hostVars

(* The pinned version is there, or a staged one is discarded first. *)
Recorded ==
  /\ act.pc = "recorded"
  /\ \/ ~act.ok /\ Go("installFailed")
     \/ act.ok /\ RecordedVersion = act.version /\ Go("apply")
     \/ act.ok /\ RecordedVersion # act.version /\ journal = None /\ Go("start")
     \/ act.ok /\ RecordedVersion # act.version /\ journal # None /\ Rollback(journal.old, "start")
  /\ UNCHANGED <<disk, journal, done, unit, slot, left>> /\ UNCHANGED hostVars

NewJob == [version |-> act.version, pc |-> "waiting", err |-> FALSE]

(* agentwork.Start: one job at a time; a finished job is consumed by the next
   call, and answers it when both ask for the same version. *)
Start ==
  /\ act.pc = "start"
  /\ IF ~act.ok THEN Go("installFailed") /\ UNCHANGED slot
     ELSE \/ slot = None /\ slot' = NewJob /\ Go("installFailed")
          \/ slot # None /\ slot.pc # "finished" /\ UNCHANGED slot /\ Go("installFailed")
          \/ /\ slot # None /\ slot.pc = "finished" /\ slot.version = act.version
             /\ slot' = None
             /\ IF slot.err THEN Go("installFailed")
                ELSE act' = [act EXCEPT !.changed = TRUE, !.pc = "apply"]
          \/ /\ slot # None /\ slot.pc = "finished" /\ slot.version # act.version
             /\ slot' = NewJob /\ Go("installFailed")
  /\ UNCHANGED <<disk, journal, done, unit, left>> /\ UNCHANGED hostVars

(* retainedCoreIdentity and retainedProcess: the admitted intent is the wanted
   one, no activation is under way, and the process runs the admitted binary,
   which is the saved one while a candidate is staged. *)
RetainedDigest ==
  IF journal = None THEN disk.bin
  ELSE IF journal.phase \in {"installing", "installed"} /\ "bin" \in DOMAIN journal.saved
       THEN journal.saved.bin ELSE None

(* Mutant: any intent of the same authorization counts as retained. *)
RetainedByPolicy ==
  /\ Live /\ disk.policy = Policy
  /\ RetainedDigest # None /\ unit.run # None /\ unit.run.bin = RetainedDigest

RetainedReady ==
  /\ Live /\ disk.policy = Policy /\ disk.retained = act.intent
  /\ RetainedDigest # None /\ unit.run # None /\ unit.run.bin = RetainedDigest

Stopped == [run |-> None, enabled |-> FALSE]

(* While an installation waits, a verified service stays; any other stops. *)
InstallFailed ==
  /\ act.pc = "installFailed"
  /\ IF RetainedReady
     THEN act' = [act EXCEPT !.outcome = "kept", !.pc = "admit"] /\ UNCHANGED unit
     ELSE act' = [act EXCEPT !.outcome = "failed", !.pc = "admit"] /\ unit' = Stopped
  /\ UNCHANGED <<disk, journal, done, slot, left>> /\ UNCHANGED hostVars
-----------------------------------------------------------------------------
(* ApplyResources. *)

(* beginCoreApply: an unfinished activation is rolled back under the wanted
   policy and the pass fails; else a journal exists or is created empty. *)
BeginCoreApply ==
  /\ act.pc = "apply"
  /\ \/ /\ journal # None /\ journal.phase \in Unfinished
        /\ Rollback(Policy, "applyFailed") /\ UNCHANGED <<journal, done>>
     \/ /\ journal # None /\ journal.phase \notin Unfinished
        /\ Go("snapshot") /\ UNCHANGED <<journal, done>>
     \/ /\ journal = None
        /\ journal' = NewJournal("installed") /\ done' = None /\ Go("snapmeta")
  /\ UNCHANGED <<disk, unit, slot, left>> /\ UNCHANGED hostVars

(* The files of both, those of s first. *)
Over(s, d) == [f \in DOMAIN s \cup DOMAIN d |-> IF f \in DOMAIN s THEN s[f] ELSE d[f]]

(* The backups of one group of files; files already saved keep their backup. *)
Save(fs) == Over(journal.saved, [f \in fs |-> disk[f]])

SnapshotMeta ==
  /\ act.pc = "snapmeta"
  /\ journal' = [journal EXCEPT !.saved = Save(ApplyFiles)]
  /\ Go("snapshot")
  /\ UNCHANGED <<disk, done, unit, slot, left>> /\ UNCHANGED hostVars

(* Unit and configuration are saved with the state of the service, then the
   phase and the intent to be admitted are written. *)
SnapshotService ==
  /\ act.pc = "snapshot"
  /\ journal' = [journal EXCEPT !.saved = Save({"unit", "config"}), !.phase = "preflight",
                                !.policy = Policy, !.retained = act.intent,
                                !.units = [active |-> unit.run # None, enabled |-> unit.enabled]]
  /\ Go("preflight")
  /\ UNCHANGED <<disk, done, unit, slot, left>> /\ UNCHANGED hostVars

Changed ==
  \/ act.changed \/ disk.activate # None
  \/ IF Live THEN disk.config # act.intent \/ disk.unit # act.intent \/ unit.run = None
     ELSE unit.run # None

(* Candidates are checked before the first running service is touched. *)
Preflight ==
  /\ act.pc = "preflight"
  /\ IF Changed
     THEN journal' = [journal EXCEPT !.phase = "applying"] /\ Go("stop")
     ELSE /\ journal' = [journal EXCEPT !.phase = "validated"]
          /\ act' = [act EXCEPT !.outcome = "new", !.pc = "admit"]
  /\ UNCHANGED <<disk, done, unit, slot, left>> /\ UNCHANGED hostVars

StopOld ==
  /\ act.pc = "stop"
  /\ unit' = [unit EXCEPT !.run = None]
  /\ Go(IF Live THEN "config" ELSE "disable")
  /\ UNCHANGED <<disk, journal, done, slot, left>> /\ UNCHANGED hostVars

WriteConfig ==
  /\ act.pc = "config"
  /\ disk' = [disk EXCEPT !.config = act.intent]
  /\ Go("unit")
  /\ UNCHANGED <<journal, done, unit, slot, left>> /\ UNCHANGED hostVars

WriteUnit ==
  /\ act.pc = "unit"
  /\ disk' = [disk EXCEPT !.unit = act.intent]
  /\ Go("restart")
  /\ UNCHANGED <<journal, done, unit, slot, left>> /\ UNCHANGED hostVars

Process(boot) == [bin |-> disk.bin, config |-> disk.config, boot |-> boot]

(* Mutant of the next definition: a missing binary goes unnoticed. *)
NoBinaryUnseen == FALSE

NoBinary == disk.bin = None

(* Without a binary the service does not come up. *)
EnableRestart ==
  /\ act.pc = "restart"
  /\ IF NoBinary THEN unit' = [unit EXCEPT !.enabled = TRUE] /\ Go("fail")
     ELSE unit' = [run |-> Process(FALSE), enabled |-> TRUE] /\ Go("check")
  /\ UNCHANGED <<disk, journal, done, slot, left>> /\ UNCHANGED hostVars

(* The running check passed, or what is not wanted any more is disabled. *)
Validate ==
  /\ act.pc \in {"check", "disable"}
  /\ unit' = IF act.pc = "disable" THEN Stopped ELSE unit
  /\ journal' = [journal EXCEPT !.phase = "validated"]
  /\ act' = [act EXCEPT !.changed = FALSE, !.outcome = "new", !.pc = "admit"]
  /\ UNCHANGED <<disk, done, slot, left>> /\ UNCHANGED hostVars

ApplySteps == {"apply", "snapmeta", "snapshot", "preflight", "stop", "config", "unit",
               "restart", "check", "disable"}

(* Any step of Apply may return an error; the file or the service is then as
   it was. *)
StepFails ==
  /\ act.pc \in ApplySteps
  /\ Fault("step") /\ Go("fail")
  /\ UNCHANGED <<disk, journal, done, unit, slot>> /\ UNCHANGED hostVars

(* rollbackCoreAfterFailure, deferred by Apply; after beginCoreApply's own
   rollback there is normally no journal left. *)
ApplyFailed ==
  /\ act.pc \in {"fail", "applyFailed"}
  /\ IF journal = None THEN Go("decide") ELSE Rollback(Policy, "decide")
  /\ UNCHANGED <<disk, journal, done, unit, slot, left>> /\ UNCHANGED hostVars

Decide ==
  /\ act.pc = "decide"
  /\ IF RetainedReady
     THEN act' = [act EXCEPT !.outcome = "kept", !.pc = "admit"] /\ UNCHANGED unit
     ELSE act' = [act EXCEPT !.outcome = "failed", !.pc = "admit"] /\ unit' = Stopped
  /\ UNCHANGED <<disk, journal, done, slot, left>> /\ UNCHANGED hostVars
-----------------------------------------------------------------------------
(* rollbackCore: stop, restore, start again, retire the journal. *)

RestartAlways == journal.old # None      \* mutant: the authorization is not compared
Restart == journal.old # None /\ journal.old = act.rp

StopRevoked == act.rp # None /\ ~Restart     \* mutant: a started candidate is not stopped
StopNeeded ==
  journal.phase \in {"applying", "validated"} \/ (act.rp # None /\ ~Restart)

(* Revoked authorization fences every unit; a unit that was off stays off. *)
RollbackStop ==
  /\ act.pc = "rbStop"
  /\ unit' = IF ~StopNeeded THEN unit
             ELSE [run |-> None,
                   enabled |-> /\ Restart /\ unit.enabled
                               /\ journal.units # None => journal.units.enabled]
  /\ Go("rbFiles")
  /\ UNCHANGED <<disk, journal, done, slot, left>> /\ UNCHANGED hostVars

(* Files are restored in the order in which they were saved. *)
Rank == [bin |-> 1, trusted |-> 2, activate |-> 3, policy |-> 4, retained |-> 5, unit |-> 6, config |-> 7]
Unrestored == {f \in DOMAIN journal.saved : disk[f] # journal.saved[f]}
RestoreFile == \E f \in Unrestored : /\ \A g \in Unrestored : Rank[f] <= Rank[g]
                                     /\ disk' = [disk EXCEPT ![f] = journal.saved[f]]

RollbackFile ==
  /\ act.pc = "rbFiles"
  /\ RestoreFile
  /\ UNCHANGED <<journal, done, unit, act, slot, left>> /\ UNCHANGED hostVars

RollbackStart ==
  /\ act.pc = "rbFiles" /\ Unrestored = {}
  /\ unit' = IF StopNeeded /\ Restart /\ journal.units # None
             THEN [run |-> IF journal.units.active THEN Process(FALSE) ELSE unit.run,
                   enabled |-> unit.enabled \/ journal.units.enabled]
             ELSE unit
  /\ Go("retire")
  /\ UNCHANGED <<disk, journal, done, slot, left>> /\ UNCHANGED hostVars

(* removeCoreRecovery: rename, then make the rename durable. *)
Retire ==
  /\ act.pc = "retire"
  /\ journal' = None /\ done' = [j |-> journal, synced |-> FALSE]
  /\ Go("sync")
  /\ UNCHANGED <<disk, unit, slot, left>> /\ UNCHANGED hostVars

Sync ==
  /\ act.pc = "sync"
  /\ \/ done' = None /\ UNCHANGED left
     \/ done' = [done EXCEPT !.synced = TRUE] /\ Fault("step")     \* cleanup fails
  /\ act' = [act EXCEPT !.pc = act.next, !.ok = TRUE]
  /\ UNCHANGED <<disk, journal, unit, slot>> /\ UNCHANGED hostVars

(* A journal that lacks backups of files which a commit overwrites. *)
Incomplete(j) == j # None /\ ~(ApplyFiles \subseteq DOMAIN j.saved)

MayDie ==
  BackupsAtomic => ~Incomplete(journal) /\ (done # None => done.synced \/ ~Incomplete(done.j))

RollbackFails ==
  /\ act.pc \in {"rbStop", "rbFiles", "retire"} /\ MayDie
  /\ Fault("step")
  /\ act' = [act EXCEPT !.pc = act.next, !.ok = FALSE]
  /\ UNCHANGED <<disk, journal, done, unit, slot>> /\ UNCHANGED hostVars

(* The retirement is not durable: the journal is exposed again. *)
SyncFails ==
  /\ act.pc = "sync" /\ MayDie
  /\ Fault("step")
  /\ journal' = done.j /\ done' = None
  /\ act' = [act EXCEPT !.pc = act.next, !.ok = FALSE]
  /\ UNCHANGED <<disk, unit, slot>> /\ UNCHANGED hostVars
-----------------------------------------------------------------------------
(* Admission, finalisation and receipts. *)

(* Bindings, ingress and NAT are opened; a retained core ends here, with an
   error but without a receipt. *)
Admit ==
  /\ act.pc = "admit"
  /\ Go(CASE act.outcome = "new" -> "policy" [] act.outcome = "kept" -> "idle"
          [] act.outcome = "failed" -> "undo")
  /\ applied' = IF act.outcome = "kept" THEN None ELSE applied
  /\ UNCHANGED <<disk, journal, done, unit, slot, left, goal, receipt>>

(* Ingress or NAT fails: the candidate, or the retained core, is finalised as
   failed. *)
IngressFails ==
  /\ act.pc = "admit"
  /\ Fault("guard")
  /\ act' = [act EXCEPT !.outcome = "failed", !.pc = "undo"]
  /\ UNCHANGED <<disk, journal, done, unit, slot>> /\ UNCHANGED hostVars

(* The network guard cannot be activated: the cores stop now, and again after
   the rollback. *)
GuardFails ==
  /\ act.pc = "admit"
  /\ Fault("guard")
  /\ unit' = Stopped
  /\ act' = [act EXCEPT !.outcome = "failed", !.stop = TRUE, !.pc = "undo"]
  /\ UNCHANGED <<disk, journal, done, slot>> /\ UNCHANGED hostVars

(* finishCoreActivation(success): what was admitted is recorded, the marker
   goes, and the journal is retired. *)
CommitPolicy ==
  /\ act.pc = "policy"
  /\ disk' = [disk EXCEPT !.policy = journal.policy]
  /\ Go("retained")
  /\ UNCHANGED <<journal, done, unit, slot, left>> /\ UNCHANGED hostVars

CommitRetained ==
  /\ act.pc = "retained"
  /\ disk' = [disk EXCEPT !.retained = journal.retained]
  /\ Go("complete")
  /\ UNCHANGED <<journal, done, unit, slot, left>> /\ UNCHANGED hostVars

CompleteActivation ==
  /\ act.pc = "complete"
  /\ disk' = [disk EXCEPT !.activate = None]
  /\ act' = [act EXCEPT !.pc = "retire", !.next = "committed"]
  /\ UNCHANGED <<journal, done, unit, slot, left>> /\ UNCHANGED hostVars

CommitFails ==
  /\ act.pc \in {"policy", "retained", "complete"}
  /\ Fault("step")
  /\ act' = [act EXCEPT !.outcome = "failed", !.tries = 1, !.pc = "undo"]
  /\ UNCHANGED <<disk, journal, done, unit, slot>> /\ UNCHANGED hostVars

Committed ==
  /\ act.pc = "committed"
  /\ act' = IF act.ok THEN [act EXCEPT !.pc = "receipt"]
            ELSE [act EXCEPT !.outcome = "failed", !.tries = 1, !.pc = "undo"]
  /\ UNCHANGED <<disk, journal, done, unit, slot, left>> /\ UNCHANGED hostVars

(* finishCoreActivation(failure): roll back under the policy that was to be
   activated.  A retirement that is half done cannot be confirmed. *)
Undo ==
  /\ act.pc = "undo"
  /\ IF journal # None THEN Rollback(journal.policy, "undone")
     ELSE act' = [act EXCEPT !.pc = "undone", !.ok = done = None]
  /\ UNCHANGED <<disk, journal, done, unit, slot, left>> /\ UNCHANGED hostVars

(* One more attempt, then the core is stopped. *)
Undone ==
  /\ act.pc = "undone"
  /\ \/ act.ok /\ Go("receipt") /\ UNCHANGED unit
     \/ /\ ~act.ok /\ act.tries = 0
        /\ act' = [act EXCEPT !.tries = 1, !.pc = "undo"] /\ UNCHANGED unit
     \/ ~act.ok /\ act.tries = 1 /\ unit' = Stopped /\ Go("receipt")
  /\ UNCHANGED <<disk, journal, done, slot, left>> /\ UNCHANGED hostVars

ReadyAttempted == act.outcome # "kept"     \* mutant: a rolled back candidate is reported
Ready == act.outcome = "new"

LeftRunning == unit     \* mutant: no stop after the rollback
AfterReceipt == IF act.stop THEN Stopped ELSE unit

(* finishNodeApplications and convergeDesired: the receipt follows the
   finalisation; a save that fails clears it.  A failed guard stops the core
   that the rollback may have started again. *)
Receipt ==
  /\ act.pc = "receipt"
  /\ \/ /\ receipt' = [intent |-> act.intent, version |-> act.version, applied |-> Ready]
        /\ applied' = IF Ready THEN [intent |-> act.intent, version |-> act.version] ELSE None
        /\ act' = [act EXCEPT !.pc = "idle", !.known = @ \/ Ready]
        /\ UNCHANGED left
     \/ Fault("step") /\ receipt' = None /\ Go("idle") /\ applied' = None
  /\ unit' = AfterReceipt
  /\ UNCHANGED <<disk, journal, done, slot, goal>>
-----------------------------------------------------------------------------
(* The resource worker: installBinaryInline under the configuration lock. *)

WorkerGo(p) == slot' = [slot EXCEPT !.pc = p]
WorkerEnds(err) == slot' = [slot EXCEPT !.pc = "finished", !.err = err]

(* The lock is free between passes.  Download, checksum and signature leave
   nothing behind; a journal that exists ends the job. *)
Prepare ==
  /\ slot # None /\ slot.pc = "waiting" /\ act.pc = "idle"
  /\ IF journal # None THEN WorkerEnds(TRUE) /\ UNCHANGED <<journal, done>>
     ELSE journal' = NewJournal("installing") /\ done' = None /\ WorkerGo("saving")
  /\ UNCHANGED <<disk, unit, act, left>> /\ UNCHANGED hostVars

Backup ==
  /\ slot # None /\ slot.pc = "saving"
  /\ journal' = [journal EXCEPT !.saved = Save(InstallFiles)]
  /\ WorkerGo("mark")
  /\ UNCHANGED <<disk, done, unit, act, left>> /\ UNCHANGED hostVars

MarkActivation ==
  /\ slot # None /\ slot.pc = "mark"
  /\ disk' = [disk EXCEPT !.activate = "pending"]
  /\ WorkerGo("binary")
  /\ UNCHANGED <<journal, done, unit, act, left>> /\ UNCHANGED hostVars

CommitBinary ==
  /\ slot # None /\ slot.pc = "binary"
  /\ disk' = [disk EXCEPT !.bin = slot.version]
  /\ WorkerGo("receipt")
  /\ UNCHANGED <<journal, done, unit, act, left>> /\ UNCHANGED hostVars

WriteTrusted ==
  /\ slot # None /\ slot.pc = "receipt"
  /\ disk' = [disk EXCEPT !.trusted = slot.version]
  /\ WorkerGo("staged")
  /\ UNCHANGED <<journal, done, unit, act, left>> /\ UNCHANGED hostVars

Staged ==
  /\ slot # None /\ slot.pc = "staged"
  /\ journal' = [journal EXCEPT !.phase = "installed"]
  /\ WorkerEnds(FALSE)
  /\ UNCHANGED <<disk, done, unit, act, left>> /\ UNCHANGED hostVars

(* An error after the journal is complete is rolled back by the worker, which
   has no access to services. *)
WorkerFails ==
  /\ slot # None /\ slot.pc \in {"mark", "binary", "receipt", "staged"}
  /\ Fault("step") /\ WorkerGo("undo")
  /\ UNCHANGED <<disk, journal, done, unit, act>> /\ UNCHANGED hostVars

WorkerRestores ==
  /\ slot # None /\ slot.pc = "undo"
  /\ IF Unrestored = {} THEN journal' = None /\ WorkerEnds(TRUE) /\ UNCHANGED disk
     ELSE /\ RestoreFile
          /\ UNCHANGED <<journal, slot>>
  /\ UNCHANGED <<done, unit, act, left>> /\ UNCHANGED hostVars

(* The worker is killed (memory limit, timeout) or cannot even begin. *)
WorkerKilled ==
  /\ slot # None /\ slot.pc # "finished" /\ MayDie
  /\ Fault("worker") /\ WorkerEnds(TRUE)
  /\ UNCHANGED <<disk, journal, done, unit, act>> /\ UNCHANGED hostVars
-----------------------------------------------------------------------------
(* The agent dies, its worker with it; services run on. *)
Crash ==
  /\ MayDie
  /\ Fault("crash")
  /\ act' = IdlePass /\ slot' = None
  /\ UNCHANGED <<disk, journal, done, unit>> /\ UNCHANGED hostVars

(* The host loses power: a rename that is not durable may be undone, and the
   enabled service starts from what is on disk. *)
Reboot ==
  /\ MayDie
  /\ Fault("reboot")
  /\ act' = IdlePass /\ slot' = None
  /\ unit' = [unit EXCEPT !.run = IF unit.enabled /\ disk.unit # None /\ disk.bin # None
                                  THEN Process(TRUE) ELSE None]
  /\ \/ UNCHANGED <<journal, done>>
     \/ done # None /\ ~done.synced /\ journal' = done.j /\ done' = None
  /\ UNCHANGED disk /\ UNCHANGED hostVars

Pass ==
  \/ Converge \/ Recover \/ Recorded \/ Start \/ InstallFailed
  \/ BeginCoreApply \/ SnapshotMeta \/ SnapshotService \/ Preflight \/ StopOld
  \/ WriteConfig \/ WriteUnit \/ EnableRestart \/ Validate \/ ApplyFailed \/ Decide
  \/ RollbackStop \/ RollbackFile \/ RollbackStart \/ Retire \/ Sync
  \/ Admit \/ CommitPolicy \/ CommitRetained \/ CompleteActivation \/ Committed
  \/ Undo \/ Undone \/ Receipt

InstallWorker ==
  Prepare \/ Backup \/ MarkActivation \/ CommitBinary \/ WriteTrusted \/ Staged \/ WorkerRestores

Faults ==
  \/ Refuse \/ StepFails \/ RollbackFails \/ SyncFails \/ IngressFails \/ GuardFails
  \/ CommitFails \/ WorkerFails \/ WorkerKilled \/ Crash \/ Reboot

ActNext == Pass \/ InstallWorker \/ Faults \/ \E g \in Goals : Want(g)

ActSpec == ActInit /\ [][ActNext]_actVars

(* Fairness: the agent's loop and a started worker keep going, and the worker
   gets the lock in the end, for which it polls while passes come and go. *)
ActFairness == WF_actVars(Pass) /\ WF_actVars(InstallWorker) /\ SF_actVars(Prepare)
ActFairSpec == ActSpec /\ ActFairness
-----------------------------------------------------------------------------
Phases == {"installing", "installed"} \cup Unfinished
Content(f) ==
  {None} \cup CASE f \in {"bin", "trusted"} -> Versions [] f = "activate" -> {"pending"}
                [] f = "policy" -> Policies [] f \in {"retained", "config", "unit"} -> Intents

ActTypeOK ==
  /\ DOMAIN disk = Files /\ \A f \in Files : disk[f] \in Content(f)
  /\ journal # None =>
       /\ journal.phase \in Phases /\ journal.old \in Policies \cup {None}
       /\ DOMAIN journal.saved \subseteq Files
       /\ \A f \in DOMAIN journal.saved : journal.saved[f] \in Content(f)
  /\ unit.run # None => unit.run.bin \in Versions /\ unit.run.config \in Intents
  /\ goal \in Goals /\ applied \in Goals \cup {None}

(* The files as they would be after recovery: the backups win over the disk
   until the journal is retired for good. *)
Recovered ==
  IF journal # None THEN Over(journal.saved, disk)
  ELSE IF done # None /\ ~done.synced THEN Over(done.j.saved, disk) ELSE disk

(* One release is replaced by another in a single step, at every crash point,
   whatever the order of the writes (recovery.go, installBinaryInline). *)
Slot == INSTANCE CoreSlot WITH committed <- Recovered
ReleaseIsAtomic == Slot!SlotSpec

(* A pass that ends leaves no process with an authorization other than the
   wanted one: rollbackCore and the driver loop stop what they may not
   restart.  With several faults a pass may end otherwise: when, after a
   reboot in the middle of an activation, recovery fails and then the stop of
   the revoked core too, finishCoreActivation rolls back under the policy of
   the interrupted activation (recovery.go:625). *)
RevokedIsFenced ==
  act.pc = "idle" /\ act.intent # None /\ unit.run # None =>
    PolicyOf[unit.run.config] = Policy

(* After a pass a service that the agent started runs the release that would
   be recovered, also while the worker replaces the binary under it. *)
RunsRecovered ==
  /\ act.pc = "idle" /\ act.intent # None /\ unit.run # None
  /\ journal = None \/ journal.phase \notin Unfinished
  /\ ~unit.run.boot
  => unit.run.bin = Recovered.bin /\ unit.run.config = Recovered.config

(* A service kept while its installation waits serves the wanted intent. *)
RetainedIsWanted ==
  act.pc = "idle" /\ act.outcome = "kept" => unit.run # None /\ unit.run.config = act.intent

(* After a failed guard nothing runs, although the rollback may have started
   the previous service again (finishApplications). *)
GuardKeepsClosed == act.pc = "idle" /\ act.stop => unit.run = None

(* What the agent has recorded as applied is committed and running. *)
AppliedIsCommitted ==
  act.pc = "idle" /\ act.intent # None /\ applied # None =>
    /\ Recovered.retained = act.intent /\ Recovered.policy = Policy
    /\ IF Live THEN unit.enabled /\ unit.run # None /\ unit.run.config = act.intent
       ELSE unit = Stopped

(* The pinned version is what runs once the agent reports it applied
   (driver.go: EnsureInstalled installs the pinned version). *)
AppliedIsPinned ==
  act.pc = "idle" /\ act.intent # None /\ Live /\ applied # None
    => Recovered.bin = applied.version

(* The last desired state is applied in the end. *)
EventuallyApplied == <>[](applied = goal /\ act.pc = "idle")

(* What the agent reports of an untouched core is what is wanted, committed
   and running. *)
ReportsTrue == RetainedIsWanted /\ AppliedIsCommitted

(* What a core runs after a pass is the release that recovery would choose,
   nothing runs behind a failed guard, and what the agent says of it is true
   (convergeDesired, rollbackCore, finishApplications). *)
CoreSafe == ActTypeOK /\ RunsRecovered /\ GuardKeepsClosed /\ ReportsTrue
=============================================================================
