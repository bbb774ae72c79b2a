------------------------------- MODULE MCHost -------------------------------
(* The parts of a host for TLC.  They share no state at this level: one of
   them moves in each behaviour, the others keep their initial values. *)
EXTENDS Activation, Guard, UdpSessions

VARIABLE focus
HostParts == {"core", "guard", "udp"}
allVars == <<actVars, guardVars, udpVars, focus>>

InFocus(m) == focus = m /\ UNCHANGED focus
InCore  == InFocus("core")  /\ UNCHANGED guardVars /\ UNCHANGED udpVars
InGuard == InFocus("guard") /\ UNCHANGED actVars /\ UNCHANGED udpVars
InUdp   == InFocus("udp")   /\ UNCHANGED actVars /\ UNCHANGED guardVars

AnyOf(S) == CHOOSE x \in S : TRUE

(* The intents "a" and "b", and the two versions, are interchangeable: the
   first goal stands for its permutations. *)
FirstGoals == [intent : {"a", "c", "off"}, version : {1}]

HostInit ==
  /\ focus \in HostParts
  /\ ActInit   /\ IF focus = "core" THEN goal \in FirstGoals
                  ELSE goal = AnyOf(Goals) /\ left = [goals |-> MaxGoals] @@ AnyOf(FaultBudgets)
  /\ GuardInit /\ IF focus = "guard" THEN gleft.core = 0 => \A r \in Res : want[r] = "x"
                  ELSE gleft = AnyOf(GuardBounds) /\ \A r \in Res : want[r] = "absent"
  /\ UdpInit   /\ (focus # "udp"   => uleft = AnyOf(UdpBounds))

HostNext ==
  \/ InCore /\ Converge
  \/ InCore /\ Recover
  \/ InCore /\ Recorded
  \/ InCore /\ Start
  \/ InCore /\ InstallFailed
  \/ InCore /\ BeginCoreApply
  \/ InCore /\ SnapshotMeta
  \/ InCore /\ SnapshotService
  \/ InCore /\ Preflight
  \/ InCore /\ StopOld
  \/ InCore /\ WriteConfig
  \/ InCore /\ WriteUnit
  \/ InCore /\ EnableRestart
  \/ InCore /\ Validate
  \/ InCore /\ ApplyFailed
  \/ InCore /\ Decide
  \/ InCore /\ RollbackStop
  \/ InCore /\ RollbackFile
  \/ InCore /\ RollbackStart
  \/ InCore /\ Retire
  \/ InCore /\ Sync
  \/ InCore /\ Admit
  \/ InCore /\ CommitPolicy
  \/ InCore /\ CommitRetained
  \/ InCore /\ CompleteActivation
  \/ InCore /\ Committed
  \/ InCore /\ Undo
  \/ InCore /\ Undone
  \/ InCore /\ Receipt
  \/ InCore /\ Prepare
  \/ InCore /\ Backup
  \/ InCore /\ MarkActivation
  \/ InCore /\ CommitBinary
  \/ InCore /\ WriteTrusted
  \/ InCore /\ Staged
  \/ InCore /\ WorkerRestores
  \/ InCore /\ Refuse
  \/ InCore /\ StepFails
  \/ InCore /\ RollbackFails
  \/ InCore /\ SyncFails
  \/ InCore /\ IngressFails
  \/ InCore /\ GuardFails
  \/ InCore /\ CommitFails
  \/ InCore /\ WorkerFails
  \/ InCore /\ WorkerKilled
  \/ InCore /\ Crash
  \/ InCore /\ Reboot
  \/ InCore /\ (\E g \in Goals : Want(g))
  \/ InGuard /\ Restore
  \/ InGuard /\ Accept
  \/ InGuard /\ InstallEgress
  \/ InGuard /\ Replace
  \/ InGuard /\ Resolve
  \/ InGuard /\ ApplyCores
  \/ InGuard /\ ForwardCoreApplied
  \/ InGuard /\ WatchDelivers
  \/ InGuard /\ MonitorEvent
  \/ InGuard /\ Collect
  \/ InGuard /\ Renew
  \/ InGuard /\ ForwardUDPLease
  \/ InGuard /\ Check
  \/ InGuard /\ GuardTick
  \/ InGuard /\ MonitorFails
  \/ InGuard /\ InstallEgressFails
  \/ InGuard /\ ReplaceFails
  \/ InGuard /\ CheckFails
  \/ InGuard /\ Publish
  \/ InGuard /\ LinkChanges
  \/ InGuard /\ TablesFlushed
  \/ InGuard /\ AgentDies
  \/ InGuard /\ HostReboots
  \/ InUdp /\ BeginRound
  \/ InUdp /\ Reset
  \/ InUdp /\ LiveFor
  \/ InUdp /\ Observe
  \/ InUdp /\ CloseConnections
  \/ InUdp /\ EndRound
  \/ InUdp /\ Packet
  \/ InUdp /\ ConntrackForgets
  \/ InUdp /\ UdpTick
  \/ InUdp /\ UdpRestart

(* The fairness that each part's module states. *)
HostSpec ==
  /\ HostInit /\ [][HostNext]_allVars
  /\ WF_allVars(InCore /\ Pass) /\ WF_allVars(InCore /\ InstallWorker)
  /\ SF_allVars(InCore /\ Prepare)
  /\ WF_allVars(InGuard /\ AgentPass) /\ WF_allVars(InGuard /\ Check)
  /\ WF_allVars(InGuard /\ WatchDelivers) /\ WF_allVars(InGuard /\ MonitorLoop)
  /\ WF_allVars(InUdp /\ UdpRound) /\ WF_allVars(InUdp /\ UdpTick)

(* In the behaviours of the core the last desired state is applied in the end
   (EventuallyApplied of Activation). *)
CoreApplies == focus = "core" => EventuallyApplied

(* What was revoked is fenced: a pass leaves no service with an authorization
   that is no longer wanted (rollbackCore, the driver loop), and the guard lets
   nothing pass that its last evidence does not cover. *)
FencesHold == RevokedIsFenced /\ GuardSafe
-----------------------------------------------------------------------------
I3  == {"a", "b", "c", "off"}
Pol == [a |-> "p", b |-> "p", c |-> "q", off |-> "none"]

Budget(s, g, w, c, r) == [step |-> s, guard |-> g, worker |-> w, crash |-> c, reboot |-> r]

Faulty == {Budget(1, 0, 0, 0, 0), Budget(0, 1, 0, 0, 0), Budget(0, 0, 1, 0, 0),
        Budget(0, 0, 0, 1, 0), Budget(0, 0, 0, 0, 1)}

G0 == [link |-> 0, edit |-> 0, nft |-> 0, core |-> 0, crash |-> 0, drift |-> 0, reboot |-> 0, slow |-> 0]
GBounds == {[G0 EXCEPT !.link = 1, !.slow = 1], [G0 EXCEPT !.edit = 1, !.core = 1],
            [G0 EXCEPT !.drift = 1, !.nft = 1], [G0 EXCEPT !.edit = 1, !.crash = 1],
            [G0 EXCEPT !.reboot = 1]}

U0 == [packet |-> 2, evict |-> 1, fail |-> 0, slow |-> 1, restart |-> 0]
UBounds == {[U0 EXCEPT !.slow = 0], [U0 EXCEPT !.packet = 1, !.fail = 1],
            [U0 EXCEPT !.packet = 1, !.restart = 1, !.slow = 0],
            [U0 EXCEPT !.packet = 1, !.evict = 0, !.fail = 3, !.slow = 0]}
=============================================================================
