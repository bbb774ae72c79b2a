-------------------------------- MODULE Nat --------------------------------
(***************************************************************************)
(* Port mappings of a server behind a provider's NAT (internal/store/nat,  *)
(* internal/agent/nat, internal/natconfig, internal/nft/nat).  The         *)
(* controller keeps a configuration and gives ports to nodes only on a     *)
(* configuration the agent has confirmed; the agent takes it, or a file of *)
(* the host's root in its place, and translates the ports of the nodes it  *)
(* has applied.                                                            *)
(*                                                                         *)
(* One transport, public nodes only: a configuration is the set of its     *)
(* pairs after Expand, nil is Nil.  Heartbeats arrive in order or not at  *)
(* all.  One core carries every node of the server; no port of the host is *)
(* taken by another program, and no maintenance job is queued.             *)
(***************************************************************************)
EXTENDS Naturals, FiniteSets

CONSTANTS Nil, NatConfigs,   \* what an administrator or root may write
          NatPorts, NatBounds

VARIABLES
  natrow,    \* server_nat_configs: revision and configuration
  natview,   \* the revision an administrator's page shows
  nodes,     \* the deployed node of each port: "none", "off" or "on"
  natgen,    \* generation of what the server should run
  report,    \* the NAT part of the last diagnostics
  recent,    \* whether they are from the last two minutes
  natfile,   \* root's file: none, broken, or one with a configuration
  natpause,  \* the host's policy pauses configuration
  nag,       \* the agent's memory
  nst,       \* its state file: what was applied, and whether the last apply failed
  table,     \* the pairs the kernel translates
  listening, \* the ports the core listens on
  natmsg,    \* a heartbeat on its way, or Nil
  localUsed, \* root has written a file at some time
  natleft

natVars == <<natrow, natview, nodes, natgen, report, recent, natfile, natpause, nag, nst,
             table, listening, natmsg, localUsed, natleft>>

File(kind, cfg) == [kind |-> kind, cfg |-> cfg]
NoReport == [source |-> "none", cfg |-> Nil, st |-> "pending", paused |-> FALSE]
NewNatAgent == [desired |-> Nil, ctl |-> Nil, ready |-> FALSE, key |-> Nil, status |-> Nil,
                work |-> Nil, cores |-> "-", beat |-> FALSE]
On == {p \in NatPorts : nodes[p] = "on"}

NatInit ==
  /\ natrow = [rev |-> 0, cfg |-> Nil] /\ natview = 0 /\ natgen = 1
  /\ nodes \in {[p \in NatPorts |-> "none"], [p \in NatPorts |-> IF p = 1 THEN "on" ELSE "none"]}
  /\ report = NoReport /\ recent = TRUE
  /\ natfile = File("none", Nil) /\ natpause = FALSE /\ localUsed = FALSE
  /\ nag = NewNatAgent /\ nst = [gen |-> 0, err |-> FALSE, nat |-> FALSE]
  /\ table = {} /\ listening = {} /\ natmsg = Nil /\ natleft \in NatBounds

NatSpend(k) == natleft[k] > 0 /\ natleft' = [natleft EXCEPT ![k] = @ - 1]
keepController == UNCHANGED <<natrow, natview, nodes, natgen, report, recent>>
keepAgent == UNCHANGED <<nag, nst, table, listening, natmsg>>
keepRoot == UNCHANGED <<natfile, natpause, localUsed>>
-----------------------------------------------------------------------------
(* The controller. *)

Pairs(cfg) == IF cfg = Nil THEN {} ELSE cfg
Configured(r) == Pairs(r.cfg) # {}
SupportsPort(cfg, p) == \E m \in Pairs(cfg) : m.pub = p
LocalPorts(cfg) == {m.loc : m \in {q \in Pairs(cfg) : q.loc # q.pub}}

(* serverNAT. *)
NatPending == IF report.source = "local" THEN FALSE
              ELSE natrow.cfg # report.cfg \/ report.st = "pending"
NatEditable == report.source # "local" /\ recent /\ ~ report.paused

(* natPortConfig: the confirmed configuration, "free" where there is none, or "wait". *)
PortAnswer(kind, cfg) == [kind |-> kind, cfg |-> cfg]
natPortConfig ==
  LET known == natrow.cfg # Nil \/ report.source # "none" \/ report.st = "error" IN
  IF ~ known /\ report.st # "pending" THEN PortAnswer("free", Nil)
  ELSE IF NatPending \/ report.st \notin {"applied", "disabled"} \/ ~ recent \/ report.paused
    THEN PortAnswer("wait", Nil)
  ELSE IF report.st = "disabled" /\ ~ Configured(report) THEN PortAnswer("free", Nil)
  ELSE IF ~ Configured(report) THEN PortAnswer("wait", Nil)
  ELSE PortAnswer("mapped", report.cfg)

validateNATNode(p) ==
  LET c == natPortConfig IN
  /\ c.kind # "wait"
  /\ c.kind = "mapped" => p \notin LocalPorts(c.cfg) /\ SupportsPort(c.cfg, p)

(* validateNATResources: nothing that runs or is reserved loses its port. *)
validateNATResources(cfg) ==
  /\ \A p \in NatPorts : nodes[p] # "none" => p \notin LocalPorts(cfg)
  /\ \A p \in On : SupportsPort(cfg, p)

LoadServerNAT ==
  /\ natview # natrow.rev /\ natview' = natrow.rev
  /\ keepAgent /\ keepRoot /\ UNCHANGED <<natrow, nodes, natgen, report, recent, natleft>>

(* The expected revision comes from this page or from another one that is up to date. *)
SaveServerNAT(cfg, here) ==
  /\ NatEditable /\ (here => natview = natrow.rev) /\ cfg # natrow.cfg /\ NatSpend("save")
  /\ (Pairs(cfg) # {} \/ Pairs(natrow.cfg) # {} \/ Configured(report)) => validateNATResources(cfg)
  /\ natrow' = [rev |-> natrow.rev + 1, cfg |-> cfg] /\ natgen' = natgen + 1
  /\ natview' = IF here THEN natrow.rev + 1 ELSE natview
  /\ keepAgent /\ keepRoot /\ UNCHANGED <<nodes, report, recent>>

(* CreateNode, or a disabled node that is enabled again. *)
PutNode(p) ==
  /\ nodes[p] # "on" /\ validateNATNode(p) /\ NatSpend("node")
  /\ nodes' = [nodes EXCEPT ![p] = "on"] /\ natgen' = natgen + 1
  /\ keepAgent /\ keepRoot /\ UNCHANGED <<natrow, natview, report, recent>>

DropNode(p, to) ==
  /\ nodes[p] = "on" /\ NatSpend("node")
  /\ nodes' = [nodes EXCEPT ![p] = to] /\ natgen' = natgen + 1
  /\ keepAgent /\ keepRoot /\ UNCHANGED <<natrow, natview, report, recent>>

ReportAges ==
  /\ recent /\ recent' = FALSE /\ NatSpend("age")
  /\ keepAgent /\ keepRoot /\ UNCHANGED <<natrow, natview, nodes, natgen, report>>

ReceiveHeartbeat ==
  /\ natmsg # Nil /\ report' = natmsg /\ recent' = TRUE /\ natmsg' = Nil
  /\ keepRoot /\ UNCHANGED <<natrow, natview, nodes, natgen, nag, nst, table, listening, natleft>>
-----------------------------------------------------------------------------
(* The host. *)

LocalFiles == {File("none", Nil), File("broken", Nil)} \cup {File("file", c) : c \in NatConfigs}

WriteLocal(f) ==
  /\ natfile # f /\ NatSpend("local") /\ natfile' = f /\ localUsed' = TRUE
  /\ keepController /\ keepAgent /\ UNCHANGED natpause

TogglePause ==
  /\ NatSpend("pause") /\ natpause' = ~ natpause
  /\ keepController /\ keepAgent /\ UNCHANGED <<natfile, localUsed>>

(* selectNATAuthority: root's file, even a broken one, before the controller. *)
Select(controller) ==
  CASE natfile.kind = "broken" -> [source |-> "local", cfg |-> Nil, st |-> "error"]
    [] natfile.kind = "file" -> [source |-> "local", cfg |-> natfile.cfg, st |-> "pending"]
    [] natfile.kind = "none" /\ controller # Nil -> [source |-> "controller", cfg |-> controller, st |-> "pending"]
    [] OTHER -> [source |-> "none", cfg |-> Nil, st |-> "pending"]

NatKey(c) == <<c.source, c.cfg>>

(* NATRules: the listed nodes; a blocked one keeps its port and gets no rule. *)
Conflicting(cfg, ports) == LocalPorts(cfg) \cap ports # {}
NATRules(cfg, ports, blocked) == {m \in Pairs(cfg) : m.loc # m.pub /\ m.pub \in ports /\ ~ blocked}

(* applyNATChoice on memory ag; the answer says whether it worked. *)
NatDone(ag, c) == [ag EXCEPT !.ready = TRUE, !.key = NatKey(c),
                   !.status = [c EXCEPT !.st = IF Configured(c) THEN "applied" ELSE "disabled"]]
NatFailed(ag, c) == [ag EXCEPT !.ready = FALSE, !.status = [c EXCEPT !.st = "error"]]

(* natDiagnostics: what a heartbeat would say now. *)
natDiagnosticsCached ==
  LET c == Select(nag.ctl) IN
  IF c.st = "error" \/ natpause \/ nag.status = Nil THEN c
  ELSE IF nag.status.st = "applied" /\ (nag.work # Nil \/ nag.desired = Nil)
    THEN [nag.status EXCEPT !.st = "pending"]
  ELSE nag.status

natDiagnostics ==
  LET c == Select(nag.ctl)
      behind == \/ ~ nag.ready \/ nag.work # Nil \/ nag.desired = Nil \/ nst.err
                \/ nag.desired.gen # nst.gen IN
  IF c.st = "error" THEN c
  ELSE IF natpause \/ nag.status = Nil THEN c
  ELSE IF NatKey(nag.status) # NatKey(c) THEN c
  ELSE IF nag.status.st = "applied" /\ behind THEN [nag.status EXCEPT !.st = "pending"]
  ELSE nag.status

(* refreshLocalNAT, at the start of a heartbeat: without a complete applied
   state what is translated stays or goes, and the receipts go with it. *)
RefreshWithout(c) ==
  IF nag.ready /\ c.st # "error" /\ Configured(c) /\ nag.key = NatKey(c)
  THEN /\ nag' = [nag EXCEPT !.beat = TRUE, !.status = [c EXCEPT !.st = "pending"]]
       /\ UNCHANGED <<nst, table>>
  ELSE /\ nag' = [nag EXCEPT !.beat = TRUE, !.ready = FALSE,
                  !.status = [c EXCEPT !.st = IF @ = "error" THEN @ ELSE IF Configured(c) THEN "pending" ELSE "disabled"]]
       /\ table' = {}
       /\ nst' = [nst EXCEPT !.err = @ \/ (nst.nat /\ nst.gen > 0) \/ c.st = "error"]

RefreshWith(c) ==
  LET ports == nag.desired.nodes IN
  IF c.st = "error" \/ Conflicting(c.cfg, ports)
  THEN /\ nag' = [NatFailed(nag, c) EXCEPT !.beat = TRUE]
       /\ table' = {} /\ nst' = [nst EXCEPT !.err = TRUE]
  ELSE /\ nag' = [NatDone(nag, c) EXCEPT !.beat = TRUE]
       /\ table' = NATRules(c.cfg, ports, FALSE)
       /\ nst' = [nst EXCEPT !.nat = @ \/ Configured(c)]

RefreshLocalNAT ==
  /\ ~ nag.beat /\ nag.work = Nil /\ ~ natpause /\ NatSpend("beat")
  /\ IF nag.desired = Nil \/ nst.err THEN RefreshWithout(Select(nag.ctl)) ELSE RefreshWith(Select(nag.ctl))
  /\ keepController /\ keepRoot /\ UNCHANGED <<listening, natmsg>>

(* While configuration is paused or busy the heartbeat goes without it. *)
BeatOnly ==
  /\ ~ nag.beat /\ (nag.work # Nil \/ natpause) /\ NatSpend("beat")
  /\ nag' = [nag EXCEPT !.beat = TRUE]
  /\ keepController /\ keepRoot /\ UNCHANGED <<nst, table, listening, natmsg>>

SendHeartbeat ==
  /\ nag.beat /\ nag' = [nag EXCEPT !.beat = FALSE]
  /\ LET d == natDiagnostics IN
     natmsg' = [source |-> d.source, cfg |-> d.cfg, st |-> d.st, paused |-> natpause]
  /\ keepController /\ keepRoot /\ UNCHANGED <<nst, table, listening, natleft>>

(* convergeDesired: rememberNATIntent comes first, also when nothing is to do. *)
BeginApply ==
  LET ds == [gen |-> natgen, nat |-> natrow.cfg, nodes |-> On] IN
  /\ nag.work = Nil /\ ~ natpause /\ NatSpend("apply")
  /\ nag' = [nag EXCEPT !.ctl = ds.nat,
             !.work = IF nag.desired # Nil /\ nst = [nst EXCEPT !.gen = ds.gen, !.err = FALSE] THEN Nil ELSE ds]
  /\ nst' = [nst EXCEPT !.nat = @ \/ ds.nat # Nil]
  /\ keepController /\ keepRoot /\ UNCHANGED <<table, listening, natmsg>>

ApplyCores(ok) ==
  /\ nag.work # Nil /\ nag.cores = "-" /\ (~ ok => NatSpend("fail")) /\ (ok => UNCHANGED natleft)
  /\ listening' = IF ok THEN nag.work.nodes ELSE {}
  /\ nag' = [nag EXCEPT !.cores = IF ok THEN "up" ELSE "failed"]
  /\ keepController /\ keepRoot /\ UNCHANGED <<nst, table, natmsg>>

(* syncNATForDesired and the end of the pass: a failure of the core alone keeps
   the translation, any failure before or in it clears the table. *)
FinishApply ==
  LET c == Select(nag.work.nat)
      ports == nag.work.nodes
      blocked == nag.cores = "failed"
      bad == natpause \/ c.st = "error" \/ Conflicting(c.cfg, ports)
      memory == IF natpause THEN [nag EXCEPT !.ready = FALSE]
                ELSE IF bad THEN NatFailed(nag, c) ELSE NatDone(nag, c) IN
  /\ nag.work # Nil /\ nag.cores # "-"
  /\ table' = IF bad THEN {} ELSE NATRules(c.cfg, ports, blocked)
  /\ nag' = [memory EXCEPT !.work = Nil, !.cores = "-",
             !.desired = IF bad \/ blocked THEN @ ELSE nag.work]
  /\ nst' = [nst EXCEPT !.err = bad \/ blocked, !.gen = IF bad \/ blocked THEN @ ELSE nag.work.gen,
             !.nat = @ \/ (~ bad /\ Configured(c))]
  /\ keepController /\ keepRoot /\ UNCHANGED <<listening, natmsg, natleft>>

(* A crash keeps the kernel's table and the core, a reboot only the core. *)
AgentRestarts(reboot) ==
  /\ NatSpend("crash") /\ nag' = NewNatAgent /\ natmsg' = Nil
  /\ table' = IF reboot THEN {} ELSE table
  /\ keepController /\ keepRoot /\ UNCHANGED <<nst, listening>>

NatNext ==
  \/ LoadServerNAT \/ ReportAges \/ ReceiveHeartbeat \/ TogglePause
  \/ \E cfg \in NatConfigs \cup {Nil}, here \in BOOLEAN : SaveServerNAT(cfg, here)
  \/ \E p \in NatPorts : PutNode(p) \/ \E to \in {"off", "none"} : DropNode(p, to)
  \/ \E f \in LocalFiles : WriteLocal(f)
  \/ RefreshLocalNAT \/ BeatOnly \/ SendHeartbeat \/ BeginApply \/ FinishApply
  \/ \E b \in BOOLEAN : ApplyCores(b) \/ AgentRestarts(b)
-----------------------------------------------------------------------------
(* Types.  Nil is none of the things that may be there. *)
NatCfgs    == NatConfigs \cup {Nil}
NatSources == {"none", "local", "controller"}
NatStates  == {"pending", "applied", "disabled", "error"}
NatDocs    == [gen : Nat, nat : NatCfgs, nodes : SUBSET NatPorts]
NatChoices == [source : NatSources, cfg : NatCfgs, st : NatStates]
NatReports == [source : NatSources, cfg : NatCfgs, st : NatStates, paused : BOOLEAN]

ASSUME NatAssumption == Nil \notin NatDocs \cup NatChoices \cup NatReports

(* Every node that runs has the port the provider maps: whatever was confirmed,
   pending or withdrawn in between, a configuration and the nodes of its server
   never come apart as long as root keeps no file of its own. *)
NodesMapped ==
  ~ localUsed /\ Pairs(natrow.cfg) # {} => \A p \in On : SupportsPort(natrow.cfg, p)

(* A heartbeat that says "applied" is true of the kernel: its table is the one
   of this authority and of the nodes that were applied. *)
ReportedIsInstalled ==
  LET d == natDiagnostics IN
  d.st = "applied" => table = NATRules(d.cfg, nag.desired.nodes, FALSE)

(* Between two passes no port a node listens on is taken away from it. *)
NothingDiverted ==
  nag.ready /\ nag.work = Nil /\ ~ nst.err => {m.loc : m \in table} \cap listening = {}

NatTypeOK ==
  /\ natrow.rev \in Nat /\ natview <= natrow.rev /\ nodes \in [NatPorts -> {"none", "off", "on"}]
  /\ report.st \in {"pending", "applied", "disabled", "error"}

(* The three together: a node is only ever published on a port that is mapped,
   what the agent reports of the mapping is what the kernel does, and a mapping
   never takes the port of a node (SaveServerNAT, validateNATNode,
   natDiagnostics, NATRules). *)
NatSafe == NatTypeOK /\ NodesMapped /\ ReportedIsInstalled /\ NothingDiverted
=============================================================================
