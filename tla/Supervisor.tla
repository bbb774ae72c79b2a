----------------------------- MODULE Supervisor -----------------------------
(***************************************************************************)
(* The Alpine backend (internal/openrc): a root service-host performs the  *)
(* service operations, a guard watches the firewall, proxies run beside    *)
(* them, each process in a cgroup of its own and each under a supervisor   *)
(* that lives in the cgroup of whoever started it.  A new launcher leaves  *)
(* the long-lived helpers on the old file; the agent replaces them when it *)
(* starts, with a receipt in /run to resume from when it is interrupted.   *)
(*                                                                         *)
(* Every launcher writes init scripts of its own text, which is the worst  *)
(* case for Verify.  A service operation is one step: OpenRC serialises    *)
(* the operations on a service.  Limits, namespaces and capabilities of    *)
(* the sandbox are left out.                                               *)
(***************************************************************************)
EXTENDS Naturals, Sequences, FiniteSets

CONSTANTS NoReceipt, SupBounds   \* how often each disturbance may happen

Proxies == {"a", "b"}
Helpers == {"host", "guard"}
Units == Helpers \cup Proxies

VARIABLES
  launcher,  \* the file under /usr/local/bin, by its number
  proc,      \* the launcher each unit's process was started from, 0: no process
  home,      \* the cgroup in which the unit's supervisor lives, "none": no supervisor
  script,    \* the launcher that wrote the unit's init script, 0: not installed
  sag,       \* the agent process: pc, what is left to stop or start, the plan it works on
  receipt,   \* refresh.json: the proxies to start again, or NoReceipt
  aready,    \* agent-ready.json: "none", of "this" agent process or of an "earlier" one
  enabled,   \* the proxies in the default runlevel: those that are meant to run
  paused,    \* the proxies the guard has stopped and will start again
  owed,      \* proxies that ran when the launcher was replaced and did not stop by themselves
  sleft

supVars == <<launcher, proc, home, script, sag, receipt, aready, enabled, paused, owed, sleft>>

NoAgent == [pc |-> "off", todo |-> << >>, units |-> {}, short |-> FALSE]
Running == {u \in Proxies : proc[u] # 0}

SupInit ==
  /\ launcher = 1 /\ sleft \in SupBounds
  /\ enabled \in {{}, {"a"}, Proxies} /\ owed = {} /\ paused = {}
  /\ proc = [u \in Units |-> IF u \in Helpers \cup enabled THEN 1 ELSE 0]
  /\ home = [u \in Units |-> IF u \in Helpers \cup enabled THEN "init" ELSE "none"]
  /\ script = [u \in Units |-> IF u \in Helpers \cup enabled THEN 1 ELSE 0]
  /\ sag = [NoAgent EXCEPT !.pc = "run"] /\ receipt = NoReceipt /\ aready = "this"

SupSpend(k) == sleft[k] > 0 /\ sleft' = [sleft EXCEPT ![k] = @ - 1]
-----------------------------------------------------------------------------
(* One service operation. *)

(* Verify by a process of launcher v: the init script is the one v would write. *)
Verify(v, u) == script[u] = v

(* controlLocal start in cgroup g: start_pre and Exec verify once more, with
   the launcher on disk; nothing happens to a service that is started. *)
Launch(u, g) ==
  /\ Verify(launcher, u)
  /\ proc' = [proc EXCEPT ![u] = IF home[u] = "none" \/ @ = 0 THEN launcher ELSE @]
  /\ home' = [home EXCEPT ![u] = IF @ = "none" THEN g ELSE @]

(* The process is ended, its supervisor is not. *)
HaltProcess(u) == proc' = [proc EXCEPT ![u] = 0] /\ UNCHANGED home

(* controlLocal stop: supervisor and cgroup; the cgroup of the service-host
   holds the supervisors of what it has started. *)
Halt(u) ==
  /\ proc' = [proc EXCEPT ![u] = 0]
  /\ home' = [x \in Units |-> IF x = u \/ (u = "host" /\ home[x] = "host") THEN "none" ELSE home[x]]

(* The host at the manager socket performs an operation on u. *)
Managed(u) == proc["host"] # 0 /\ Verify(proc["host"], u)

(* helperCurrent of a helper; one that does not run is current. *)
helperCurrent(u) == proc[u] \in {0, launcher}

Installed(u) == script[u] # 0
Due == IF receipt = NoReceipt THEN {} ELSE receipt
Sync == script' = [u \in Units |-> IF Installed(u) THEN launcher ELSE 0]
installScript(u) == script' = [script EXCEPT ![u] = launcher]

InPhase(pc) == sag.pc = pc
Goto(pc) == sag' = [sag EXCEPT !.pc = pc]

keepHost == UNCHANGED <<launcher, enabled, paused, owed>>
keepServices == UNCHANGED <<proc, home>>
-----------------------------------------------------------------------------
(* The agent starts (Agent.Run): RefreshHelpers and MarkAgentReady, under the
   configuration lock. *)

StopOrder == <<"guard", "a", "b", "host">>

AgentStart ==
  /\ InPhase("off") /\ sag' = [NoAgent EXCEPT !.pc = "look"]
  /\ aready' = IF aready = "this" THEN "earlier" ELSE aready
  /\ keepHost /\ keepServices /\ UNCHANGED <<script, receipt, sleft>>

(* The receipt decides whether to resume, the helpers whether to refresh. *)
Look ==
  LET stale == \E u \in Helpers : ~ helperCurrent(u) IN
  /\ InPhase("look")
  /\ IF receipt # NoReceipt
       THEN sag' = [sag EXCEPT !.pc = "sync", !.units = receipt]
       ELSE IF stale THEN Goto("sync")
       ELSE IF Installed("guard") THEN sag' = [sag EXCEPT !.pc = "ensure", !.short = TRUE]
       ELSE Goto("mark")
  /\ keepHost /\ keepServices /\ UNCHANGED <<script, receipt, aready, sleft>>

SyncScripts ==
  /\ InPhase("sync") /\ Sync
  /\ sag' = [sag EXCEPT !.pc = IF receipt # NoReceipt THEN "stop" ELSE "record", !.todo = StopOrder]
  /\ keepHost /\ keepServices /\ UNCHANGED <<receipt, aready, sleft>>

(* The proxies that are populated now, written down before anything stops. *)
Record ==
  /\ InPhase("record")
  /\ receipt' = Running /\ sag' = [sag EXCEPT !.pc = "stop", !.units = Running]
  /\ keepHost /\ keepServices /\ UNCHANGED <<script, aready, sleft>>

StopNext ==
  /\ InPhase("stop") /\ Halt(Head(sag.todo))
  /\ sag' = [sag EXCEPT !.todo = Tail(@), !.pc = IF Len(sag.todo) = 1 THEN "ensure" ELSE @]
  /\ keepHost /\ UNCHANGED <<script, receipt, aready, sleft>>

(* ensureManager: script, runlevel, start when it is not active. *)
ensureManager ==
  /\ InPhase("ensure") /\ installScript("host")
  /\ IF proc["host"] # 0 THEN keepServices
     ELSE /\ proc' = [proc EXCEPT !["host"] = launcher]
          /\ home' = [home EXCEPT !["host"] = IF @ = "none" THEN "agent" ELSE @]
  /\ Goto("guard")
  /\ keepHost /\ UNCHANGED <<receipt, aready, sleft>>

(* EnsureGuard: its script, then the service-host starts it when it is not active. *)
EnsureGuard ==
  /\ InPhase("guard") /\ proc["host"] = launcher /\ installScript("guard")
  /\ IF proc["guard"] # 0 THEN keepServices
     ELSE /\ proc' = [proc EXCEPT !["guard"] = launcher]
          /\ home' = [home EXCEPT !["guard"] = IF @ = "none" THEN "host" ELSE @]
  /\ Goto(IF sag.short THEN "mark" ELSE "check")
  /\ keepHost /\ UNCHANGED <<receipt, aready, sleft>>

(* The firewall is repaired and verified before a proxy may run. *)
CheckFirewall ==
  /\ InPhase("check") /\ Goto("start")
  /\ keepHost /\ keepServices /\ UNCHANGED <<script, receipt, aready, sleft>>

StartNext(u) ==
  /\ InPhase("start") /\ u \in sag.units /\ Managed(u) /\ Launch(u, "host")
  /\ sag' = [sag EXCEPT !.units = @ \ {u}]
  /\ keepHost /\ UNCHANGED <<script, receipt, aready, sleft>>

(* All of them have a main process now; only then the receipt goes. *)
WaitRunning ==
  /\ InPhase("start") /\ sag.units = {}
  /\ \A u \in Helpers \cup Due : proc[u] # 0
  /\ receipt' = NoReceipt /\ Goto("mark")
  /\ keepHost /\ keepServices /\ UNCHANGED <<script, aready, sleft>>

MarkAgentReady ==
  /\ InPhase("mark") /\ aready' = "this" /\ Goto("run")
  /\ keepHost /\ keepServices /\ UNCHANGED <<script, receipt, sleft>>

(* A step of the refresh fails: the agent exits and its supervisor starts it again. *)
RefreshFails ==
  /\ \/ InPhase("guard") /\ proc["host"] # launcher
     \/ InPhase("start") /\ \E u \in sag.units : ~ Managed(u)
     \/ InPhase("start") /\ \E u \in (Helpers \cup Due) \ sag.units : proc[u] = 0
     \/ InPhase("check") /\ sleft["fail"] > 0
  /\ sleft' = [sleft EXCEPT !["fail"] = IF InPhase("check") THEN @ - 1 ELSE @]
  /\ sag' = NoAgent
  /\ keepHost /\ keepServices /\ UNCHANGED <<script, receipt, aready>>

AgentDies ==
  /\ ~ InPhase("off") /\ SupSpend("crash") /\ sag' = NoAgent
  /\ keepHost /\ keepServices /\ UNCHANGED <<script, receipt, aready>>

(* AgentReady, what an update waits for before it calls the new agent healthy. *)
AgentReady ==
  /\ aready = "this" /\ ~ InPhase("off") /\ receipt = NoReceipt
  /\ \A u \in Helpers : Installed(u) => Verify(launcher, u) /\ proc[u] = launcher
-----------------------------------------------------------------------------
(* What else moves on the host. *)

(* An update, under the configuration lock, or its rollback, which stops the
   agent wherever it is; stopping it empties its cgroup. *)
ReplaceLauncher(rollback) ==
  /\ (rollback => launcher > 1) /\ (~ rollback => InPhase("off") \/ InPhase("run"))
  /\ SupSpend("update") /\ launcher' = launcher + 1 /\ sag' = NoAgent
  /\ home' = [x \in Units |-> IF home[x] = "agent" THEN "none" ELSE home[x]]
  /\ owed' = IF receipt = NoReceipt THEN owed \cup Running ELSE owed
  /\ UNCHANGED <<proc, script, receipt, aready, enabled, paused>>

(* A running agent starts or stops a proxy for good, under the same lock. *)
StartProxy(u) ==
  /\ InPhase("run") /\ SupSpend("pass") /\ proc["host"] = launcher /\ proc["guard"] # 0
  /\ installScript(u)
  /\ proc' = [proc EXCEPT ![u] = launcher]
  /\ home' = [home EXCEPT ![u] = IF @ = "none" THEN "host" ELSE @]
  /\ enabled' = enabled \cup {u} /\ paused' = paused \ {u}
  /\ UNCHANGED <<launcher, sag, receipt, aready, owed>>

StopProxy(u) ==
  /\ InPhase("run") /\ u \in enabled /\ SupSpend("pass") /\ Managed(u) /\ Halt(u)
  /\ enabled' = enabled \ {u} /\ owed' = owed \ {u} /\ paused' = paused \ {u}
  /\ UNCHANGED <<launcher, script, sag, receipt, aready>>

(* The guard stops a proxy whose protection is in doubt, and starts it again later. *)
GuardPause(u) ==
  /\ proc["guard"] # 0 /\ proc[u] # 0 /\ SupSpend("pause") /\ Managed(u) /\ Halt(u)
  /\ paused' = paused \cup {u} /\ owed' = owed \ {u}
  /\ UNCHANGED <<launcher, script, sag, receipt, aready, enabled>>

GuardResume(u) ==
  /\ proc["guard"] # 0 /\ u \in paused /\ Managed(u) /\ Launch(u, "host")
  /\ paused' = paused \ {u}
  /\ UNCHANGED <<launcher, script, sag, receipt, aready, enabled, owed, sleft>>

(* A process ends; its supervisor, if there is one, starts it from the
   launcher on disk, which verifies the script. *)
Dies(u) ==
  /\ proc[u] # 0 /\ SupSpend("crash")
  /\ proc' = [proc EXCEPT ![u] = 0] /\ owed' = owed \ {u}
  /\ UNCHANGED <<launcher, home, script, sag, receipt, aready, enabled, paused>>

Respawn(u) ==
  /\ proc[u] = 0 /\ home[u] # "none" /\ Verify(launcher, u)
  /\ proc' = [proc EXCEPT ![u] = launcher]
  /\ keepHost /\ UNCHANGED <<home, script, sag, receipt, aready, sleft>>

(* /run is gone; the default runlevel starts what passes its own start_pre. *)
HostReboot ==
  LET up(u) == /\ u \in Helpers \cup enabled /\ Verify(launcher, u)
               /\ Verify(launcher, "host") IN
  /\ SupSpend("boot")
  /\ proc' = [u \in Units |-> IF up(u) THEN launcher ELSE 0]
  /\ home' = [u \in Units |-> IF up(u) THEN "init" ELSE "none"]
  /\ receipt' = NoReceipt /\ aready' = "none" /\ paused' = {} /\ owed' = {} /\ sag' = NoAgent
  /\ UNCHANGED <<launcher, script, enabled>>

SupNext ==
  \/ AgentStart \/ Look \/ SyncScripts \/ Record \/ StopNext \/ ensureManager
  \/ EnsureGuard \/ CheckFirewall \/ WaitRunning \/ MarkAgentReady \/ RefreshFails
  \/ AgentDies \/ HostReboot
  \/ \E rollback \in BOOLEAN : ReplaceLauncher(rollback)
  \/ \E u \in Proxies : \/ StartNext(u) \/ StartProxy(u) \/ StopProxy(u)
                        \/ GuardPause(u) \/ GuardResume(u)
  \/ \E u \in Units : Dies(u) \/ Respawn(u)
-----------------------------------------------------------------------------
(* No list of proxies is mistaken for a missing receipt. *)
ASSUME SupAssumption == \A ps \in SUBSET Proxies : ps # NoReceipt

SupTypeOK ==
  /\ \A u \in Units : proc[u] \in 0 .. launcher /\ script[u] \in 0 .. launcher
  /\ home \in [Units -> {"none", "init", "host", "agent"}]
  /\ (receipt = NoReceipt \/ receipt \subseteq Proxies)
  /\ enabled \subseteq Proxies /\ paused \subseteq Proxies /\ owed \subseteq Proxies
  /\ aready \in {"none", "this", "earlier"}

(* Whenever the readiness an update waits for is given (AgentReady), every
   proxy that ran when the launcher was replaced is under supervision again,
   however often the refresh was interrupted and by whatever program it was
   finished; and no proxy is left running with nobody to restart or to stop
   it.  A proxy that was stopped for good never comes back, whatever receipt
   an earlier refresh left. *)
SupervisorSafe ==
  /\ SupTypeOK
  /\ AgentReady =>
       /\ \A u \in owed : home[u] # "none"
       /\ \A u \in Running : home[u] # "none"
  /\ Running \subseteq enabled
=============================================================================
