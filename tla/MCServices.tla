----------------------------- MODULE MCServices -----------------------------
(* Services of the controller and of the host for TLC.  They share no state
   at this level: one of them moves in each behaviour, the others keep their
   initial values. *)
EXTENDS Subscriptions, Access, Trust, Fleet, Imports, Supervisor, CgroupMeter, Nat, Serving

VARIABLE focus
Services == {"subscriptions", "access", "trust", "fleet", "imports", "supervisor", "meter", "nat", "serving"}
svcVars == <<subVars, accessVars, trustVars, fleetVars, importVars, supVars, meterVars,
             natVars, serveVars, focus>>

(* Only the named one moves. *)
InSub ==
  /\ focus = "subscriptions"
  /\ UNCHANGED <<focus, accessVars, trustVars, fleetVars, importVars, supVars, meterVars, natVars, serveVars>>
InAccess ==
  /\ focus = "access"
  /\ UNCHANGED <<focus, subVars, trustVars, fleetVars, importVars, supVars, meterVars, natVars, serveVars>>
InTrust ==
  /\ focus = "trust"
  /\ UNCHANGED <<focus, subVars, accessVars, fleetVars, importVars, supVars, meterVars, natVars, serveVars>>
InFleet ==
  /\ focus = "fleet"
  /\ UNCHANGED <<focus, subVars, accessVars, trustVars, importVars, supVars, meterVars, natVars, serveVars>>
InImports ==
  /\ focus = "imports"
  /\ UNCHANGED <<focus, subVars, accessVars, trustVars, fleetVars, supVars, meterVars, natVars, serveVars>>
InSup ==
  /\ focus = "supervisor"
  /\ UNCHANGED <<focus, subVars, accessVars, trustVars, fleetVars, importVars, meterVars, natVars, serveVars>>
InMeter ==
  /\ focus = "meter"
  /\ UNCHANGED <<focus, subVars, accessVars, trustVars, fleetVars, importVars, supVars, natVars, serveVars>>
InNat ==
  /\ focus = "nat"
  /\ UNCHANGED <<focus, subVars, accessVars, trustVars, fleetVars, importVars, supVars, meterVars, serveVars>>
InServing ==
  /\ focus = "serving"
  /\ UNCHANGED <<focus, subVars, accessVars, trustVars, fleetVars, importVars, supVars, meterVars, natVars>>

AnyOf(S) == CHOOSE x \in S : TRUE

SvcInit ==
  /\ focus \in Services
  /\ SubInit    /\ (IF focus = "subscriptions" THEN docs # <<>> => subleft.edit = 1 ELSE subleft = AnyOf(SubBounds) /\ docs = <<>>)
  /\ AccessInit /\ (focus # "access" => accleft = AnyOf(AccessBounds) /\ account = None)
  /\ TrustInit  /\ (focus # "trust"  => tleft = AnyOf(TrustBounds) /\ ~conf.checksum /\ ~conf.openrc)
  /\ FleetInit  /\ (focus # "fleet"   => fleft = AnyOf(FleetBounds))
  /\ ImportInit /\ (focus # "imports" => ileft = AnyOf(ImportBounds))
  /\ SupInit    /\ (focus # "supervisor" => sleft = AnyOf(SupBounds) /\ enabled = {})
  /\ MeterInit  /\ (focus # "meter" => mleft = AnyOf(MeterBounds))
  /\ NatInit    /\ (focus # "nat" => natleft = AnyOf(NatBounds) /\ nodes[1] = "none")
  /\ ServeInit  /\ (focus # "serving" => vleft = AnyOf(ServeBounds))

SvcNext ==
  \/ \E n \in DNodes : InSub /\ RegenerateNode(n)
  \/ \E n \in DNodes : InSub /\ BeginUpdate(n)
  \/ \E n \in {"a", "c"} : InSub /\ SetNodeChain(n)
  \/ InSub /\ CommitUpdate
  \/ InSub /\ DeleteNode
  \/ InSub /\ DeployReplacement
  \/ InSub /\ ShareSwitch
  \/ InSub /\ SubPublish
  \/ InSub /\ AgentPass
  \/ InSub /\ AgentPassUnsaved
  \/ InSub /\ InvalidateNATApplications
  \/ InSub /\ Reinstall
  \/ InSub /\ AgentHeartbeat
  \/ InSub /\ SendReport
  \/ InSub /\ Deliver
  \/ InAccess /\ Setup
  \/ InAccess /\ Login
  \/ InAccess /\ Login2FA
  \/ InAccess /\ SelfRequest
  \/ InAccess /\ AdminEdit
  \/ InAccess /\ DeleteUser
  \/ InAccess /\ Tick
  \/ InAccess /\ ChallengeExpires
  \/ InAccess /\ EndAPIKey
  \/ InAccess /\ Logout
  \/ \E r \in requests : InAccess /\ CreateInitialAdmin(r)
  \/ \E r \in requests : InAccess /\ Load2FA(r)
  \/ \E r \in requests : InAccess /\ Drop(r)
  \/ \E r \in requests : InAccess /\ FinishLogin(r)
  \/ \E r \in requests : InAccess /\ StartSession(r)
  \/ \E r \in requests : InAccess /\ LoadUser(r)
  \/ \E r \in requests : InAccess /\ UpdateUserSecurity(r)
  \/ \E r \in requests : InAccess /\ FreshUser(r)
  \/ \E r \in requests : InAccess /\ UpdateUser(r)
  \/ \E r \in requests : InAccess /\ DeleteUserSessions(r)
  \/ \E r \in requests : InAccess /\ KeepSession(r)
  \/ \E r \in requests : InAccess /\ CreateAPIKey(r)
  \/ InTrust /\ PublishRepository
  \/ InTrust /\ CommitBinary
  \/ InTrust /\ BeginRecovery
  \/ InTrust /\ PrepareRecovery
  \/ InTrust /\ VerifyRollback
  \/ InTrust /\ AcceptFeature
  \/ InTrust /\ ConfigureTrust
  \/ InTrust /\ TrustTick
  \/ \E p \in Procs : InTrust /\ VerifyReader(p)
  \/ \E p \in Procs : InTrust /\ Refresh(p)
  \/ \E p \in Procs : InTrust /\ acceptReleasePolicy(p)
  \/ \E p \in Procs : InTrust /\ CheckTarget(p)
  \/ \E p \in Procs : InTrust /\ recordArchive(p)
  \/ \E p \in Procs : InTrust /\ WriteReceipt(p)
  \/ \E p \in Procs : InTrust /\ WriteFloor(p)
  \/ \E p \in Procs : InTrust /\ verifyChecksum(p)
  \/ \E p \in Procs : InTrust /\ recordChecksum(p)
  \/ \E p \in Procs : InTrust /\ Fails(p)
  \/ \E p \in Procs : InTrust /\ VerifyDone(p)
  \/ \E p \in Procs : InTrust /\ ReadReceipt(p)
  \/ \E p \in Procs : InTrust /\ ReadPolicy(p)
  \/ \E p \in Procs : InTrust /\ ReadFloor(p)
  \/ \E p \in Procs : InTrust /\ ReadSequence(p)
  \/ \E p \in Procs : InTrust /\ CheckBytes(p)
  \/ \E p \in Procs : InTrust /\ SwitchBinary(p)
  \/ \E p \in Procs : InTrust /\ Healthy(p)
  \/ \E p \in Procs : InTrust /\ CheckRecovery(p)
  \/ \E p \in Procs : InTrust /\ RestoreBinary(p)
  \/ InFleet /\ HeartbeatTraffic
  \/ InFleet /\ NewDay
  \/ InFleet /\ UpdateServer
  \/ InFleet /\ RequireNoMaintenance
  \/ InFleet /\ EnrollExpires
  \/ InFleet /\ AgentEnroll
  \/ InFleet /\ MaintenanceJob
  \/ InFleet /\ DeployNode
  \/ InFleet /\ ReserveForward
  \/ InFleet /\ ReleaseForward
  \/ InFleet /\ RemoveNode
  \/ \E c \in calls : InFleet /\ QuotaRow(c)
  \/ \E c \in calls : InFleet /\ QuotaCalibration(c)
  \/ \E c \in calls : InFleet /\ QuotaSum(c)
  \/ \E c \in calls : InFleet /\ QuotaAgain(c)
  \/ \E c \in calls : InFleet /\ QuotaCompare(c)
  \/ \E c \in calls : InFleet /\ DisableServer(c)
  \/ \E c \in calls : InFleet /\ UpdateServerWithCalibration(c)
  \/ \E c \in calls : InFleet /\ SetAgentEnrollToken(c)
  \/ \E c \in calls : InFleet /\ CompleteEnrollment(c)
  \/ \E c \in calls : InFleet /\ ResetAgentToken(c)
  \/ \E c \in calls : InFleet /\ DeleteServer(c)
  \/ \E c \in calls : InFleet /\ CreateNode(c)
  \/ InImports /\ ProviderChanges
  \/ InImports /\ SyncExternal
  \/ InImports /\ BeginEdit
  \/ InImports /\ CommitEdit
  \/ InImports /\ PinNode
  \/ InImports /\ DeleteImported
  \/ InImports /\ DeleteExternal
  \/ \E s \in syncs : InImports /\ FetchFails(s)
  \/ \E s \in syncs : InImports /\ FetchDone(s)
  \/ \E s \in syncs : InImports /\ ReplaceExternalNodes(s)
  \/ \E s \in syncs : InImports /\ AddUsage(s)
  \/ \E s \in syncs : InImports /\ RecordExternalSync(s)
  \/ InSup /\ AgentStart
  \/ InSup /\ Look
  \/ InSup /\ SyncScripts
  \/ InSup /\ Record
  \/ InSup /\ StopNext
  \/ InSup /\ ensureManager
  \/ InSup /\ EnsureGuard
  \/ InSup /\ CheckFirewall
  \/ InSup /\ WaitRunning
  \/ InSup /\ MarkAgentReady
  \/ InSup /\ RefreshFails
  \/ InSup /\ AgentDies
  \/ InSup /\ HostReboot
  \/ \E rollback \in BOOLEAN : InSup /\ ReplaceLauncher(rollback)
  \/ \E u \in Proxies : InSup /\ StartNext(u)
  \/ \E u \in Proxies : InSup /\ StartProxy(u)
  \/ \E u \in Proxies : InSup /\ StopProxy(u)
  \/ \E u \in Proxies : InSup /\ GuardPause(u)
  \/ \E u \in Proxies : InSup /\ GuardResume(u)
  \/ \E u \in Units : InSup /\ Dies(u)
  \/ \E u \in Units : InSup /\ Respawn(u)
  \/ \E c \in Creators : InMeter /\ EnsureMeter(c)
  \/ \E c \in Creators : InMeter /\ PinMap(c)
  \/ \E c \in Creators : InMeter /\ PinLink(c)
  \/ \E c \in Creators : InMeter /\ CreatorDies(c)
  \/ \E d \in Dirs : InMeter /\ Packet(d)
  \/ InMeter /\ ExecProxy
  \/ InMeter /\ ProxyEnds
  \/ InMeter /\ RemoveMeter
  \/ InMeter /\ Unpin
  \/ InMeter /\ RemoverDies
  \/ InMeter /\ ReadLinks
  \/ InMeter /\ ReadSlot
  \/ InMeter /\ ReadEpoch
  \/ InMeter /\ MeterReboot
  \/ InNat /\ LoadServerNAT
  \/ InNat /\ ReportAges
  \/ InNat /\ ReceiveHeartbeat
  \/ InNat /\ TogglePause
  \/ InNat /\ RefreshLocalNAT
  \/ InNat /\ BeatOnly
  \/ InNat /\ SendHeartbeat
  \/ InNat /\ BeginApply
  \/ InNat /\ FinishApply
  \/ \E cfg \in NatConfigs \cup {Nil}, here \in BOOLEAN : InNat /\ SaveServerNAT(cfg, here)
  \/ \E p \in NatPorts : InNat /\ PutNode(p)
  \/ \E p \in NatPorts, to \in {"off", "none"} : InNat /\ DropNode(p, to)
  \/ \E f \in LocalFiles : InNat /\ WriteLocal(f)
  \/ \E b \in BOOLEAN : InNat /\ ApplyCores(b)
  \/ \E b \in BOOLEAN : InNat /\ AgentRestarts(b)
  \/ \E k \in Links : InServing /\ BeginLinkEdit(k)
  \/ \E e \in edits : InServing /\ UpdateSubscription(e)
  \/ \E e \in edits : InServing /\ RotateSubscriptionToken(e)
  \/ \E steps \in {Revoking, Reissuing} : InServing /\ BeginShareOp(steps)
  \/ \E step \in ShareOpSteps : InServing /\ ShareOpStep(step)
  \/ InServing /\ ShareChanges
  \/ InServing /\ LimitChanges
  \/ \E k \in Links : InServing /\ LinkExpires(k)
  \/ \E n \in Dials \cup {"v"} : InServing /\ EditNode(n)
  \/ \E n \in Dials : InServing /\ NewCredentials(n)
  \/ \E n \in Dials : InServing /\ Receipt(n)
  \/ \E k \in Links : InServing /\ Serve(k)
  \/ InServing /\ ServeSub
  \/ InServing /\ BuildShare
  \/ InServing /\ ListNodes
  \/ InServing /\ CheckQuota
  \/ \E n \in Dials \cup {"v"} : InServing /\ NextNode(n)
  \/ InServing /\ ShareOfNode
  \/ InServing /\ AppliedNode
  \/ \E n \in {"d", "v"} : InServing /\ AppendChain(n)
  \/ InServing /\ Respond

SvcSpec == SvcInit /\ [][SvcNext]_svcVars
-----------------------------------------------------------------------------
S0 == [edit |-> 0, pass |-> 0, msg |-> 0, crash |-> 0, save |-> 0, reinstall |-> 0]
SBounds == {[S0 EXCEPT !.edit = 1, !.pass = 1, !.msg = 2],
            [S0 EXCEPT !.pass = 2, !.msg = 2, !.reinstall = 1],
            [S0 EXCEPT !.pass = 1, !.msg = 2, !.crash = 1, !.save = 1],
            [S0 EXCEPT !.edit = 2, !.pass = 1, !.msg = 1]}

A0 == [request |-> 0, edit |-> 0, tick |-> 0]
ABounds == {[A0 EXCEPT !.request = 3], [A0 EXCEPT !.request = 2, !.tick = 1], [A0 EXCEPT !.request = 2, !.edit = 1]}

Ep == [a |-> 1, b |-> 2, c |-> 1, k |-> 1]
Pr == [a |-> {"x"}, b |-> {"x", "y"}, c |-> {"y"}, k |-> {}]
Gen(targets, bad, min) == [targets |-> targets, revoked |-> bad, min |-> min]
Gens == {Gen({"a", "b", "c", "k"}, {}, 0), Gen({"a", "b", "c", "k"}, {"a"}, 0), Gen({"b"}, {}, 2)}
T0 == [gen |-> 0, op |-> 0, tick |-> 0, edit |-> 0, feature |-> 0]
TBounds == {[T0 EXCEPT !.gen = 2, !.op = 2], [T0 EXCEPT !.gen = 1, !.op = 1, !.tick = 2],
            [T0 EXCEPT !.op = 2, !.feature = 1, !.gen = 1], [T0 EXCEPT !.op = 1, !.gen = 1, !.edit = 1]}

F0 == [beat |-> 0, day |-> 0, edit |-> 0, admin |-> 0, enroll |-> 0, job |-> 0, port |-> 0]
FBounds == {[F0 EXCEPT !.beat = 2, !.edit = 1], [F0 EXCEPT !.beat = 1, !.day = 1, !.edit = 1],
            [F0 EXCEPT !.admin = 2, !.enroll = 2, !.day = 1, !.job = 1],
            [F0 EXCEPT !.port = 3, !.admin = 1]}

FeedSets == {{"x"}, {"x", "y"}, {"x", "z"}}
I0 == [feed |-> 0, sync |-> 0, edit |-> 0, fail |-> 0, delete |-> 0]
IBounds == {[I0 EXCEPT !.feed = 2, !.sync = 2], [I0 EXCEPT !.feed = 1, !.sync = 2, !.edit = 1],
            [I0 EXCEPT !.feed = 1, !.sync = 1, !.edit = 2], [I0 EXCEPT !.feed = 1, !.sync = 2, !.delete = 1],
            [I0 EXCEPT !.sync = 1, !.edit = 1, !.delete = 1], [I0 EXCEPT !.feed = 1, !.sync = 2, !.fail = 1]}

H0 == [update |-> 0, crash |-> 0, fail |-> 0, pass |-> 0, pause |-> 0, boot |-> 0]
HBounds == {[H0 EXCEPT !.update = 1, !.crash = 2, !.fail = 1], [H0 EXCEPT !.update = 2, !.crash = 1],
            [H0 EXCEPT !.update = 1, !.pause = 1, !.crash = 1], [H0 EXCEPT !.update = 1, !.pass = 2, !.crash = 1],
            [H0 EXCEPT !.update = 1, !.boot = 1, !.crash = 1]}

M0 == [ensure |-> 0, crash |-> 0, packet |-> 0, remove |-> 0, read |-> 0, boot |-> 0]
MBounds == {[M0 EXCEPT !.ensure = 2, !.crash = 2, !.packet = 1, !.read = 1],
            [M0 EXCEPT !.ensure = 2, !.crash = 1, !.packet = 1, !.read = 2, !.remove = 1],
            [M0 EXCEPT !.ensure = 2, !.packet = 3, !.read = 2, !.boot = 1]}

Mapped(p, l) == [pub |-> p, loc |-> l]
NConfigs == {{}, {Mapped(1, 2)}, {Mapped(1, 1), Mapped(2, 3)}}
N0 == [save |-> 0, node |-> 0, age |-> 0, local |-> 0, pause |-> 0, beat |-> 0, apply |-> 0, fail |-> 0, crash |-> 0]
NBounds == {[N0 EXCEPT !.save = 1, !.node = 1, !.beat = 2, !.apply = 2], [N0 EXCEPT !.save = 2, !.beat = 2, !.apply = 2],
            [N0 EXCEPT !.save = 1, !.beat = 1, !.apply = 2, !.crash = 1, !.fail = 1],
            [N0 EXCEPT !.local = 2, !.beat = 1, !.apply = 1, !.node = 1],
            [N0 EXCEPT !.save = 1, !.pause = 1, !.beat = 1, !.apply = 2, !.age = 1]}
V0 == [link |-> 0, share |-> 0, node |-> 0, receipt |-> 0, fetch |-> 1]
VBounds == {[V0 EXCEPT !.link = 2], [V0 EXCEPT !.link = 1, !.share = 1], [V0 EXCEPT !.share = 2],
            [V0 EXCEPT !.share = 1, !.node = 1], [V0 EXCEPT !.share = 1, !.receipt = 1],
            [V0 EXCEPT !.node = 2, !.receipt = 1]}

(* What replaces systemd on OpenRC hosts: supervision and byte counting. *)
OpenRCSafe == SupervisorSafe /\ MeterSound
=============================================================================
