------------------------------- MODULE Guard -------------------------------
(***************************************************************************)
(* The network guard of a host (internal/networkguard, internal/proxyguard *)
(* and the binding runtime of internal/agent).  Traffic of a bound         *)
(* resource passes only while the kernel holds a short lease for it.  Four *)
(* actors move: the agent's pass, its lease monitor, the root watchdog and *)
(* the worker that renews the UDP lease.  Root operations run under the    *)
(* policy lock and are one step unless somebody dies inside.               *)
(*                                                                         *)
(* A direct node "n" of one core and a fixed forward "f" of the shared     *)
(* core use one interface; a path is what their policy resolves to on it.  *)
(* Lifetimes of DNS answers, grants of private targets and the text of the *)
(* rules are left out.                                                     *)
(***************************************************************************)
EXTENDS Naturals, FiniteSets

CONSTANTS Lease,         \* ticks a lease lives; a sample is usable within its tick
          GuardBounds    \* how often each disturbance may happen

ASSUME GuardAssumption == Lease \in Nat \ {0}

VARIABLES
  want,    \* the desired state the controller serves, per resource
  acc,     \* the one the agent has accepted (rememberNetworkIntent)
  fenced,  \* whether what acc changed has been fenced
  pol,     \* root's policy file of this boot
  ready,   \* the readiness marker without which no proxy starts
  kern,    \* the kernel's tables and leases
  proc,    \* the proxy processes with the configuration they start from
  ag,      \* the agent's pass and binding runtime
  mon,     \* its lease monitor
  path,    \* what the interface resolves to now
  gone,    \* ticks since a path was last current
  gleft

guardVars == <<want, acc, fenced, pol, ready, kern, proc, ag, mon, path, gone, gleft>>
rootVars == <<pol, ready, kern, proc>>
envVars == <<path, gone>>

Res == {"n", "f"}
Cores == {"snell", "singbox"}
CoreOf(r) == IF r = "f" THEN "singbox" ELSE "snell"
ResOf(c) == IF c = "singbox" THEN "f" ELSE "n"
Fps == {"x", "y"}                          \* fingerprints of specification and grants
Wishes == Fps \cup {"absent", "blocked"}
Paths == {"p", "q"}                        \* and "down": nothing resolves

NoBinding == [st |-> "none", fp |-> "-", path |-> "-"]
Bound(fp, p) == [st |-> "live", fp |-> fp, path |-> p]
Pending(b) == IF b.st = "none" THEN b ELSE [b EXCEPT !.st = "pending", !.path = "-"]
NoPlan == [r \in Res |-> NoBinding]
NoLease == [r \in Res |-> 0]
Stop(c, ps) == [ps EXCEPT ![c].on = FALSE]

NoPolicy == [ok |-> FALSE, tok |-> 0, bind |-> NoPlan, fresh |-> TRUE, adm |-> FALSE,
             reset |-> FALSE, stopped |-> FALSE, paused |-> {}, units |-> {}]
NoTables == [bind |-> NoPlan, lease |-> NoLease, udp |-> 0, net |-> TRUE, adm |-> TRUE,
             counted |-> TRUE]
NoMonitor == [on |-> FALSE, tok |-> 0, pend |-> {}, sampled |-> FALSE, path |-> "-",
              old |-> FALSE, raised |-> FALSE, chan |-> FALSE]
NewAgent == [pc |-> "down", plan |-> NoPlan, tok |-> 0, staged |-> NoPlan, cand |-> NoPlan,
             applied |-> {}, bad |-> {}, err |-> FALSE, failed |-> FALSE, known |-> FALSE]

GuardInit ==
  /\ want \in [Res -> {"x", "absent"}] /\ acc = [r \in Res |-> "absent"] /\ fenced = TRUE
  /\ pol = NoPolicy /\ ready = FALSE /\ kern = NoTables
  /\ proc = [c \in Cores |-> [on |-> FALSE, fp |-> "-", path |-> "-"]]
  /\ ag = NewAgent /\ mon = NoMonitor
  /\ path = "p" /\ gone = [p \in Paths |-> IF p = "p" THEN 0 ELSE Lease]
  /\ gleft \in GuardBounds

Spend(k) == gleft[k] > 0 /\ gleft' = [gleft EXCEPT ![k] = @ - 1]
-----------------------------------------------------------------------------
(* What root does to policy, tables and processes. *)

World == [pol |-> pol, kern |-> kern, proc |-> proc]
Becomes(w) == pol' = w.pol /\ kern' = w.kern /\ proc' = w.proc

HasForwards(b) == b["f"].st # "none"
HasAdmission(p) == p.adm \/ p.reset \/ HasForwards(p.bind)
AdmissionDrift(w) == HasAdmission(w.pol) /\ (w.pol.reset \/ ~w.pol.adm \/ ~w.kern.adm)

(* Fresh rules carry empty lease sets. *)
Rules(k, b) == [k EXCEPT !.bind = b, !.lease = NoLease, !.udp = 0, !.net = TRUE]

(* A rebuilt connection limit does not know the sockets of a running core. *)
Rebuilt(w) == [w EXCEPT !.kern.adm = TRUE, !.kern.counted = ~w.proc["singbox"].on]

stopForwardCore(w) == [w EXCEPT !.proc = Stop("singbox", w.proc)]

(* repairAdmission up to the stop, and as a whole. *)
AdmissionReset(w) ==
  stopForwardCore([w EXCEPT !.pol.reset = TRUE, !.pol.stopped = TRUE])
RepairAdmission(w) ==
  IF ~AdmissionDrift(w) THEN w
  ELSE LET v == Rebuilt(AdmissionReset(w)) IN
       [v EXCEPT !.kern = Rules(v.kern, v.pol.bind), !.pol.adm = TRUE, !.pol.reset = FALSE]

Drift(w) == AdmissionDrift(w) \/ ~w.pol.fresh \/ ~w.kern.net

(* repairPolicy: both tables are recreated in one transaction. *)
RepairPolicy(w) ==
  LET v == RepairAdmission(w) IN
  IF v.pol.fresh /\ v.kern.net THEN v
  ELSE [v EXCEPT !.kern = Rules(v.kern, v.pol.bind), !.pol.fresh = TRUE]

AdmissionNeedsStop(w, b) ==
  HasForwards(w.pol.bind) /\ HasForwards(b) /\ w.pol.bind["f"].fp # b["f"].fp

(* admissionTransition, before the next plan is published. *)
AdmissionTransition(w, b) ==
  LET v == RepairAdmission(w) IN
  IF AdmissionNeedsStop(v, b) THEN AdmissionReset(v) ELSE v

Admits(w, b) == HasAdmission(w.pol) \/ HasForwards(b)

(* InstallNetwork: the intent, the tables, the digests. *)
Intent(w, b, t) ==
  LET v == AdmissionTransition(w, b) IN
  [v EXCEPT !.pol.bind = b, !.pol.tok = t, !.pol.fresh = FALSE,
            !.pol.adm = @ /\ ~Admits(w, b), !.pol.reset = Admits(w, b)]
Loaded(w, b, t) ==
  LET v == Intent(w, b, t) IN
  [(IF AdmissionNeedsStop(w, b) THEN Rebuilt(v) ELSE v) EXCEPT !.kern = Rules(@, b)]
Installed(w, b, t) ==
  [Loaded(w, b, t) EXCEPT !.pol.fresh = TRUE, !.pol.adm = Admits(w, b), !.pol.reset = FALSE]

(* AffectedResources: everything with an applied path is on the interface. *)
Affected(b) == {r \in Res : b[r].st = "live"}
Revoked(w, tok, rs) ==
  IF w.pol.tok # tok THEN w
  ELSE [w EXCEPT !.kern.lease = [r \in Res |-> IF r \in rs THEN 0 ELSE @[r]]]
-----------------------------------------------------------------------------
(* The monitor. *)

StartMonitor(b, t) ==
  IF b = NoPlan THEN NoMonitor
  ELSE [NoMonitor EXCEPT !.on = TRUE, !.tok = t, !.pend = {r \in Res : b[r].st = "pending"}]

(* Run returns: everything is revoked, and the runtime remembers the error. *)
MonitorEnds(w) ==
  /\ Becomes(Revoked(w, mon.tok, Res))
  /\ mon' = NoMonitor /\ ag' = [ag EXCEPT !.err = TRUE]

WatchDelivers ==
  /\ mon.on /\ mon.raised
  /\ mon' = [mon EXCEPT !.raised = FALSE, !.chan = TRUE]
  /\ UNCHANGED <<want, acc, fenced, ag, gleft>> /\ UNCHANGED rootVars /\ UNCHANGED envVars

(* An event revokes what it may affect; one that arrives while a sample is
   taken discards the sample. *)
MonitorEvent ==
  /\ mon.on /\ mon.chan
  /\ Becomes(Revoked(World, mon.tok, Affected(pol.bind)))
  /\ mon' = [mon EXCEPT !.chan = FALSE, !.sampled = FALSE, !.path = "-", !.old = FALSE]
  /\ UNCHANGED <<want, acc, fenced, ag, gleft, ready>> /\ UNCHANGED envVars

Collect ==
  /\ mon.on /\ ~mon.chan /\ ~mon.sampled
  /\ mon' = [mon EXCEPT !.sampled = TRUE, !.path = path, !.old = FALSE]
  /\ UNCHANGED <<want, acc, fenced, ag, gleft>> /\ UNCHANGED rootVars /\ UNCHANGED envVars

Healthy(b) == b.st = "live" /\ ~mon.old /\ b.path = mon.path

(* refreshResources on the repaired policy. *)
Renewable(w) == {r \in Res : Healthy(w.pol.bind[r]) /\ (r = "f" => ~w.pol.stopped)}
Renewed(w) ==
  [w EXCEPT !.kern.lease = [r \in Res |-> IF r \in Renewable(w) THEN Lease
                                          ELSE IF w.pol.bind[r].st = "none" THEN @[r] ELSE 0]]

TokenCurrent == pol.ok /\ pol.tok = mon.tok

Renew ==
  /\ mon.on /\ ~mon.chan /\ mon.sampled
  /\ IF TokenCurrent
     THEN LET w == RepairPolicy(World) IN
          /\ Becomes(Renewed(w))
          /\ mon' = [mon EXCEPT !.sampled = FALSE, !.path = "-", !.old = FALSE]
          /\ ag' = [ag EXCEPT !.bad = {r \in Res : w.pol.bind[r].st # "none"}
                                        \ (Renewable(w) \cup mon.pend)]
     ELSE MonitorEnds(World)
  /\ UNCHANGED <<want, acc, fenced, ready, gleft>> /\ UNCHANGED envVars

(* nft fails or the event stream closes. *)
MonitorFails ==
  /\ mon.on
  /\ Spend("nft")
  /\ MonitorEnds(World)
  /\ UNCHANGED <<want, acc, fenced, ready>> /\ UNCHANGED envVars
-----------------------------------------------------------------------------
(* The agent's pass. *)

Accepted(r) == acc[r] \in Fps
needsHealth == ag.bad # {}     \* mutant: a monitor that ended is not noticed
needsApply == ag.bad # {} \/ ag.err
RefreshDue == Accepted("f") /\ ag.plan["f"].st # "live"
Due == want # acc \/ ag.failed \/ ~ag.known \/ needsApply \/ ~ready \/ RefreshDue

(* restore: only the root policy of this boot says what was applied. *)
Restore ==
  /\ ag.pc = "down"
  /\ ag' = [ag EXCEPT !.pc = "idle", !.plan = pol.bind, !.tok = pol.tok]
  /\ mon' = StartMonitor(pol.bind, pol.tok)
  /\ UNCHANGED <<want, acc, fenced, gleft>> /\ UNCHANGED rootVars /\ UNCHANGED envVars

Accept ==
  /\ ag.pc = "idle" /\ Due
  /\ acc' = want /\ fenced' = (fenced /\ want = acc)
  /\ ag' = [ag EXCEPT !.pc = "egress", !.failed = FALSE, !.applied = {}]
  /\ UNCHANGED <<want, mon, gleft>> /\ UNCHANGED rootVars /\ UNCHANGED envVars

(* The general rules and the units they protect. *)
InstallEgress ==
  /\ ag.pc = "egress"
  /\ LET units == {CoreOf(r) : r \in {s \in Res : Accepted(s)}} IN
     pol' = [pol EXCEPT !.ok = TRUE, !.units = units, !.paused = @ \cap units]
  /\ ready' = TRUE
  /\ ag' = [ag EXCEPT !.pc = "stage"]
  /\ UNCHANGED <<want, acc, fenced, kern, proc, mon, gleft>> /\ UNCHANGED envVars

Failed(next) == [next EXCEPT !.pc = "idle", !.failed = TRUE, !.known = TRUE]

InstallEgressFails ==
  /\ ag.pc = "egress"
  /\ Spend("nft")
  /\ proc' = [c \in Cores |-> [proc[c] EXCEPT !.on = FALSE]]
  /\ ag' = Failed(ag)
  /\ UNCHANGED <<want, acc, fenced, pol, ready, kern, mon>> /\ UNCHANGED envVars

StagedFor(r) ==
  IF acc[r] = "absent" THEN Pending(ag.plan[r])
  ELSE IF ag.plan[r].st = "live" /\ ag.plan[r].fp = acc[r] THEN ag.plan[r]
  ELSE [st |-> "pending", fp |-> acc[r], path |-> "-"]

(* Mutant: a failed core's candidate is activated as well. *)
FinalOptimistic(r) ==
  IF acc[r] = "absent" THEN NoBinding
  ELSE IF ag.cand[r].st = "live" THEN ag.cand[r] ELSE Pending(ag.staged[r])

(* finish: only cores that were applied get their candidates. *)
Final(r) ==
  IF CoreOf(r) \notin ag.applied THEN ag.staged[r]
  ELSE IF acc[r] = "absent" THEN NoBinding
  ELSE IF ag.cand[r].st = "live" THEN ag.cand[r] ELSE Pending(ag.staged[r])

Replacing == {"stage", "fence", "finish"}
Target == [r \in Res |-> CASE ag.pc = "stage" -> StagedFor(r) [] ag.pc = "fence" -> ag.staged[r]
                           [] ag.pc = "finish" -> Final(r)]
After == CASE ag.pc = "stage" -> "resolve" [] ag.pc = "fence" -> "apply" [] ag.pc = "finish" -> "ack"
Nothing == Target = NoPlan /\ ag.plan = NoPlan
NewToken == CHOOSE t \in 1..4 : t \notin {pol.tok, ag.tok, mon.tok}
Quiet == IF mon.on THEN Revoked(World, mon.tok, Res) ELSE World     \* the monitor was stopped

(* replace: an unchanged healthy plan keeps leases and monitor; else the
   monitor stops, the plan is installed under a new token, and it starts. *)
Replace ==
  /\ ag.pc \in Replacing
  /\ LET b == Target
         next == [ag EXCEPT !.pc = After, !.staged = IF ag.pc = "stage" THEN b ELSE @] IN
     IF Nothing \/ (ag.plan = b /\ ~needsApply)
     THEN ag' = next /\ UNCHANGED <<pol, kern, proc, mon>>
     ELSE /\ Becomes(Installed(Quiet, b, NewToken))
          /\ mon' = StartMonitor(b, NewToken)
          /\ ag' = [next EXCEPT !.plan = b, !.tok = NewToken, !.bad = {}, !.err = FALSE]
  /\ fenced' = TRUE
  /\ UNCHANGED <<want, acc, ready, gleft>> /\ UNCHANGED envVars

(* stopBindingCores. *)
BoundCores == {CoreOf(r) : r \in {s \in Res : acc[s] # "absent" \/ ag.plan[s].st # "none"}}
BindingCoresStopped(ps) == [c \in Cores |-> IF c \in BoundCores THEN [ps[c] EXCEPT !.on = FALSE]
                                            ELSE ps[c]]

(* nft refuses the rules after the intent was written. *)
ReplaceFails ==
  /\ ag.pc \in Replacing /\ ~Nothing
  /\ Spend("nft")
  /\ LET w == Intent(Quiet, Target, NewToken) IN
     Becomes([w EXCEPT !.proc = BindingCoresStopped(@)])
  /\ mon' = NoMonitor
  /\ ag' = [Failed(ag) EXCEPT !.err = TRUE]
  /\ UNCHANGED <<want, acc, fenced, ready>> /\ UNCHANGED envVars

(* prepare after the fence: what resolves becomes a candidate; a forward that
   does not, or moved, is fenced as well. *)
Resolve ==
  /\ ag.pc = "resolve"
  /\ LET ok(r) == Accepted(r) /\ path # "down"
         moved == ag.staged["f"].st = "live" /\ ag.staged["f"].path # path IN
     ag' = [ag EXCEPT !.pc = "fence",
                      !.cand = [r \in Res |-> IF ok(r) THEN Bound(acc[r], path) ELSE NoBinding],
                      !.staged["f"] = IF Accepted("f") /\ moved THEN Pending(@) ELSE @,
                      !.failed = \E r \in Res : Accepted(r) /\ ~ok(r)]
  /\ UNCHANGED <<want, acc, fenced, mon, gleft>> /\ UNCHANGED rootVars /\ UNCHANGED envVars

Configured(c) ==
  LET b == ag.cand[ResOf(c)] IN
  IF b.st = "live" THEN [on |-> TRUE, fp |-> b.fp, path |-> b.path]
  ELSE [on |-> FALSE, fp |-> "-", path |-> "-"]

(* The drivers; Activation has the details.  A core that fails keeps its old
   process or is stopped, and none starts without the readiness marker. *)
ApplyCores ==
  /\ ag.pc = "apply"
  /\ \E bad \in SUBSET Cores, down \in SUBSET Cores :
       /\ down \subseteq bad
       /\ \A c \in Cores : ~ready /\ Configured(c).on => c \in bad
       /\ IF bad = {} \/ ~ready THEN UNCHANGED gleft ELSE Spend("core")
       /\ proc' = [c \in Cores |-> IF c \notin bad THEN Configured(c)
                                   ELSE IF c \in down THEN [proc[c] EXCEPT !.on = FALSE]
                                   ELSE proc[c]]
       /\ kern' = [kern EXCEPT !.counted = @ \/ proc'["singbox"] # proc["singbox"]]
       /\ ag' = [ag EXCEPT !.pc = "finish", !.applied = Cores \ bad, !.failed = @ \/ bad # {}]
  /\ UNCHANGED <<want, acc, fenced, pol, ready, mon>> /\ UNCHANGED envVars

Idle(next) == [next EXCEPT !.pc = "idle", !.known = TRUE, !.cand = NoPlan, !.staged = NoPlan,
                           !.applied = {}]

MayAcknowledge ==
  /\ pol.tok = ag.tok /\ ~pol.reset
  /\ pol.stopped /\ pol.bind["f"].st = "live" => proc["singbox"].on

(* ForwardCoreApplied, and the end of the pass. *)
ForwardCoreApplied ==
  /\ ag.pc = "ack"
  /\ IF "singbox" \in ag.applied /\ (acc["f"] # "absent" \/ HasForwards(ag.plan))
     THEN IF MayAcknowledge
          THEN pol' = [pol EXCEPT !.stopped = FALSE] /\ ag' = Idle(ag) /\ UNCHANGED proc
          ELSE ag' = Idle(Failed(ag)) /\ proc' = BindingCoresStopped(proc) /\ UNCHANGED pol
     ELSE ag' = Idle(ag) /\ UNCHANGED <<pol, proc>>
  /\ UNCHANGED <<want, acc, fenced, ready, kern, mon, gleft>> /\ UNCHANGED envVars
-----------------------------------------------------------------------------
(* ForwardUDPLease, renewed by the worker that reaps UDP sessions. *)
ForwardUDPLease ==
  /\ pol.ok /\ proc["singbox"].on /\ kern.udp < Lease
  /\ proc["singbox"].fp = pol.bind["f"].fp
  /\ LET w == RepairPolicy(World) IN
     Becomes(IF w.pol.stopped \/ w.pol.reset \/ w.pol.bind["f"].st # "live" THEN w
             ELSE [w EXCEPT !.kern.udp = Lease])
  /\ UNCHANGED <<want, acc, fenced, ready, ag, mon, gleft>> /\ UNCHANGED envVars

(* The watchdog repairs, publishes readiness and starts what it had paused
   and is still protected. *)
Check ==
  /\ pol.ok /\ (Drift(World) \/ ~ready \/ pol.paused # {})
  /\ LET w == RepairPolicy(World)
         start == pol.paused \cap pol.units IN
     /\ pol' = [w.pol EXCEPT !.paused = {}]
     /\ proc' = [c \in Cores |-> IF c \in start THEN [w.proc[c] EXCEPT !.on = @ \/ w.proc[c].fp # "-"]
                                 ELSE w.proc[c]]
     /\ kern' = [w.kern EXCEPT !.counted = @ \/ proc'["singbox"] # w.proc["singbox"]]
  /\ ready' = TRUE
  /\ UNCHANGED <<want, acc, fenced, ag, mon, gleft>> /\ UNCHANGED envVars

(* Repair fails: no readiness, and everything managed is paused. *)
CheckFails ==
  /\ pol.ok /\ Drift(World)
  /\ Spend("nft")
  /\ LET w == IF AdmissionDrift(World) THEN AdmissionReset(World) ELSE World
         active == {c \in Cores : w.proc[c].on} IN
     Becomes([w EXCEPT !.pol.paused = @ \cup active,
                       !.proc = [c \in Cores |-> [w.proc[c] EXCEPT !.on = FALSE]]])
  /\ ready' = FALSE
  /\ UNCHANGED <<want, acc, fenced, ag, mon>> /\ UNCHANGED envVars
-----------------------------------------------------------------------------
(* The surroundings. *)

Publish ==
  /\ Spend("edit")
  /\ \E r \in Res : \E i \in Wishes \ {want[r]} : want' = [want EXCEPT ![r] = i]
  /\ UNCHANGED <<acc, fenced, ag, mon>> /\ UNCHANGED rootVars /\ UNCHANGED envVars

(* The interface is replaced, loses its address or comes back. *)
LinkChanges ==
  /\ Spend("link")
  /\ \E p \in (Paths \cup {"down"}) \ {path} :
       /\ path' = p
       /\ gone' = [q \in Paths |-> IF q \in {p, path} THEN 0 ELSE gone[q]]
  /\ mon' = [mon EXCEPT !.raised = mon.on]
  /\ UNCHANGED <<want, acc, fenced, ag>> /\ UNCHANGED rootVars

Less(n) == IF n = 0 THEN 0 ELSE n - 1

(* Time passes; a sample that is still unused is too old afterwards. *)
GuardTick ==
  /\ IF mon.sampled THEN Spend("slow") ELSE UNCHANGED gleft
  /\ kern' = [kern EXCEPT !.lease = [r \in Res |-> Less(@[r])], !.udp = Less(@)]
  /\ gone' = [p \in Paths |-> IF p = path THEN 0 ELSE IF gone[p] < Lease THEN gone[p] + 1 ELSE Lease]
  /\ mon' = [mon EXCEPT !.old = mon.sampled]
  /\ UNCHANGED <<want, acc, fenced, pol, ready, proc, ag, path>>

(* Another program flushes one table or all of them. *)
TablesFlushed ==
  /\ pol.ok
  /\ Spend("drift")
  /\ \E all \in BOOLEAN :
       kern' = IF all THEN [kern EXCEPT !.net = FALSE, !.adm = FALSE, !.lease = NoLease, !.udp = 0]
               ELSE [kern EXCEPT !.adm = FALSE]
  /\ UNCHANGED <<want, acc, fenced, pol, ready, proc, ag, mon>> /\ UNCHANGED envVars

(* The agent dies, also inside a root operation; leases run out by themselves. *)
AgentDies ==
  /\ ag.pc # "down"
  /\ Spend("crash")
  /\ \/ UNCHANGED rootVars
     \/ ag.pc \in Replacing /\ ~Nothing /\ Becomes(Intent(Quiet, Target, NewToken)) /\ UNCHANGED ready
     \/ ag.pc \in Replacing /\ ~Nothing /\ Becomes(Loaded(Quiet, Target, NewToken)) /\ UNCHANGED ready
  /\ ag' = NewAgent /\ mon' = NoMonitor
  /\ UNCHANGED <<want, acc, fenced>> /\ UNCHANGED envVars

(* Everything under /run and in the kernel is lost; without the marker no
   proxy starts. *)
HostReboots ==
  /\ Spend("reboot")
  /\ pol' = NoPolicy /\ ready' = FALSE /\ kern' = NoTables
  /\ proc' = [c \in Cores |-> [proc[c] EXCEPT !.on = FALSE]]
  /\ ag' = NewAgent /\ mon' = NoMonitor
  /\ UNCHANGED <<want, acc, fenced>> /\ UNCHANGED envVars

AgentPass ==
  Restore \/ Accept \/ InstallEgress \/ Replace \/ Resolve \/ ApplyCores \/ ForwardCoreApplied
MonitorLoop == MonitorEvent \/ Collect \/ Renew
GuardFaults ==
  \/ MonitorFails \/ InstallEgressFails \/ ReplaceFails \/ CheckFails \/ Publish \/ LinkChanges
  \/ TablesFlushed \/ AgentDies \/ HostReboots

GuardNext == AgentPass \/ WatchDelivers \/ MonitorLoop \/ ForwardUDPLease \/ Check \/ GuardTick \/ GuardFaults

(* The agent's loops and the watchdog's timer keep running. *)
GuardFairness ==
  /\ WF_guardVars(AgentPass) /\ WF_guardVars(Check)
  /\ WF_guardVars(WatchDelivers) /\ WF_guardVars(MonitorLoop)
-----------------------------------------------------------------------------
GuardTypeOK ==
  /\ want \in [Res -> Wishes] /\ acc \in [Res -> Wishes]
  /\ kern.lease \in [Res -> 0..Lease] /\ kern.udp \in 0..Lease
  /\ pol.bind \in [Res -> [st : {"none", "pending", "live"}, fp : Wishes \cup {"-"},
                           path : Paths \cup {"-"}]]

Passes(r) == kern.net /\ kern.lease[r] > 0 /\ proc[CoreOf(r)].on

(* What passes under a lease is the applied binding of the loaded rules, and
   the process was configured for it (finish, refreshResources). *)
LeaseMatchesProcess ==
  \A r \in Res : Passes(r) =>
    /\ kern.bind[r].st = "live" /\ proc[CoreOf(r)].fp = kern.bind[r].fp
    /\ r = "f" => proc["singbox"].path = kern.bind[r].path

(* From the fence on nothing passes under credentials that the accepted
   desired state replaced, blocked or removed (prepare, InstallNetwork). *)
RevokedStaysFenced == fenced => \A r \in Res : Passes(r) => kern.bind[r].fp = acc[r]

(* A lease never outlives its path by more than its own length, whatever the
   monitor saw last (HealthyResources, Monitor.Run). *)
LeaseFollowsPath ==
  \A r \in Res : kern.lease[r] > 0 => kern.lease[r] + gone[kern.bind[r].path] <= Lease

(* Forwarded traffic passes only through a connection limit that has counted
   every socket of the shared core (repairAdmission, AdmissionNeedsStop). *)
ConnectionsCounted ==
  kern.adm /\ kern.net /\ proc["singbox"].on /\ (kern.lease["f"] > 0 \/ kern.udp > 0) => kern.counted

(* The guard's safety as a whole. *)
GuardSafe ==
  /\ GuardTypeOK /\ LeaseMatchesProcess /\ RevokedStaysFenced /\ LeaseFollowsPath
  /\ ConnectionsCounted

(* Everything that is wanted, and resolves, passes again and again, after any
   number of faults (networkRefreshLoop, needsApply, Check). *)
Wanted(r) == want[r] \in Fps /\ path # "down"
GuardRecovers == []<>(\A r \in Res : Wanted(r) => Passes(r))
=============================================================================
