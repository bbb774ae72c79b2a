------------------------------- MODULE Trust -------------------------------
(***************************************************************************)
(* What a host trusts (internal/secureupdate with its callers).  The       *)
(* publisher signs generations of metadata, each with a release policy     *)
(* that revokes releases and raises the oldest epoch it accepts.  A host   *)
(* keeps metadata, policy, epoch floor and receipts in files of their own: *)
(* a verification writes them one after the other under a lock, the checks *)
(* of a rollback or recovery read them one after the other without it.     *)
(* Everybody may fail or die between two steps.                            *)
(*                                                                         *)
(* Two processes are followed: "agent", an update of the agent under the   *)
(* configuration lock, and "ctl", a command of the controller's installer. *)
(* Signatures are the metadata library's: it accepts every unexpired       *)
(* generation that is not older than the last one, and a mirror may serve  *)
(* an old one.  A release stands for its SHA-256; "k" is a controller.     *)
(***************************************************************************)
EXTENDS Integers, FiniteSets, Outbox

CONSTANTS
  Epoch,         \* release -> its epoch
  Provides,      \* release -> the features its agent supports
  Publications,  \* what a generation may list, revoke and require
  TrustLife,     \* ticks until a generation or a recovery transaction expires
  TrustBounds    \* bounds to start from

PolicyRows == [seq : Nat, exp : Nat, revoked : SUBSET DOMAIN Epoch, min : Nat]
RecRows    == [r : DOMAIN Epoch, new : DOMAIN Epoch, seq : Nat, deadline : Nat, phase : {"prepare", "check"}]

ASSUME TrustAssumption ==
  /\ TrustLife \in Nat \ {0} /\ \A r \in DOMAIN Epoch : Epoch[r] \in Nat \ {0}
  /\ DOMAIN Provides = DOMAIN Epoch /\ {"a", "k"} \subseteq DOMAIN Epoch
  /\ Publications \subseteq [targets : SUBSET DOMAIN Epoch, revoked : SUBSET DOMAIN Epoch, min : Nat]
  /\ None \notin PolicyRows \cup RecRows \cup {"agent", "ctl"}

Releases == DOMAIN Epoch
AgentReleases == Releases \ {"k"}
Procs == {"agent", "ctl"}

VARIABLES
  gens,      \* the generations published so far
  clock,
  conf,      \* the host: checksum mode, its own oldest epoch, OpenRC
  meta,      \* the newest metadata version the host has seen
  pol,       \* security-policy.json, or None
  floor,     \* epochs.json: component -> epoch, 0: absent
  receipts,  \* verified/: release -> epoch, 0: absent
  manifest,  \* the controller's manifest in installed/ exists
  vlock,     \* verify.lock
  op,        \* what each process does
  agentBin,  \* the installed agent
  needs,     \* features its saved state relies on
  permitted,       \* history: releases a verification has permitted
  tleft

trustVars == <<gens, clock, conf, meta, pol, floor, receipts, manifest, vlock, op, agentBin, needs,
               permitted, tleft>>
files == <<meta, pol, floor, receipts, manifest>>
rest == <<gens, clock, conf, agentBin, needs, tleft>>

TUse(k) == tleft[k] > 0 /\ tleft' = [tleft EXCEPT ![k] = @ - 1]
Larger(x, y) == IF x < y THEN y ELSE x
NoOp == [pc |-> "idle", kind |-> "-", r |-> "-", conf |-> None, gen |-> None, known |-> None,
         epoch |-> 0, rec |-> None]

TrustInit ==
  /\ gens = {} /\ clock = 0 /\ conf \in [checksum : BOOLEAN, min : {0}, openrc : BOOLEAN]
  /\ meta = 0 /\ pol = None /\ floor = [agent |-> 0, controller |-> 0] /\ receipts = [r \in Releases |-> 0] /\ manifest = FALSE
  /\ vlock = None /\ op = [p \in Procs |-> NoOp]
  /\ agentBin = "a" /\ needs = {} /\ permitted = {}
  /\ tleft \in TrustBounds

At(p, pc) == op[p].pc = pc
Step(p, pc) == op' = [op EXCEPT ![p].pc = pc]
-----------------------------------------------------------------------------
(* PublishRepository: a complete generation with the next version.  The policy
   is the publisher's own file, whatever earlier generations said. *)
PublishRepository ==
  /\ TUse("gen")
  /\ \E g \in Publications :
       gens' = gens \cup {[ver |-> Cardinality(gens) + 1, exp |-> clock + TrustLife,
                           targets |-> g.targets, revoked |-> g.revoked, min |-> g.min]}
  /\ UNCHANGED <<clock, conf, vlock, op, agentBin, needs, permitted>> /\ UNCHANGED files

PolicyOfGen(g) == [seq |-> g.ver, exp |-> g.exp, revoked |-> g.revoked, min |-> g.min]

(* What the host knows, remembered when an operation begins. *)
Known == [revoked |-> IF pol = None THEN {} ELSE pol.revoked,
          min |-> Larger(conf.min, Larger(floor.agent, IF pol = None THEN 0 ELSE pol.min))]

Begun(pc, kind, r, rec) ==
  [pc |-> pc, kind |-> kind, r |-> r, conf |-> conf, gen |-> None, known |-> Known, epoch |-> 0, rec |-> rec]

Begin(p, kind, pc, r) ==
  /\ TUse("op") /\ At(p, "idle")
  /\ op' = [op EXCEPT ![p] = Begun(pc, kind, r, None)]
  /\ UNCHANGED <<gens, clock, conf, agentBin, needs, permitted>> /\ UNCHANGED files

(* An agent update by heartbeat ("self") or by the maintenance worker, and
   verify-release of the installer.  The lock is not waited for. *)
Kinds(p) == IF p = "agent" THEN {"self", "worker"} ELSE {"release"}
VerifyReader(p) ==
  /\ vlock = None /\ vlock' = p
  /\ \E r \in Releases, kind \in Kinds(p) :
       /\ (r = "k") = (p = "ctl")
       /\ Begin(p, kind, IF conf.checksum THEN "checksum" ELSE "refresh", r)

Refresh(p) ==
  /\ At(p, "refresh")
  /\ \E g \in gens :
       /\ g.ver >= meta /\ g.exp > clock
       /\ meta' = g.ver
       /\ op' = [op EXCEPT ![p].pc = "policy", ![p].gen = g]
  /\ UNCHANGED <<pol, floor, receipts, manifest, vlock, permitted>> /\ UNCHANGED rest

(* Mutant: a later policy replaces the accepted one whatever it says. *)
SupersedesLater(old, new) == new.seq >= old.seq
Supersedes(old, new) ==
  /\ new.seq >= old.seq /\ (new.seq = old.seq => new = old)
  /\ old.revoked \subseteq new.revoked /\ new.min >= old.min

acceptReleasePolicy(p) ==
  /\ At(p, "policy")
  /\ LET new == PolicyOfGen(op[p].gen) IN
     /\ new.exp > clock
     /\ pol # None => Supersedes(pol, new)
     /\ pol' = new
  /\ Step(p, "target")
  /\ UNCHANGED <<meta, floor, receipts, manifest, vlock, permitted>> /\ UNCHANGED rest

(* ReleasePolicy.check; minimum epochs are per component, here the agent's. *)
Allows(policy, r, e) == (r # "k" => e >= policy.min) /\ r \notin policy.revoked

(* The target with its identity, then the policy. *)
CheckTarget(p) ==
  /\ At(p, "target")
  /\ op[p].r \in op[p].gen.targets
  /\ Allows(PolicyOfGen(op[p].gen), op[p].r, Epoch[op[p].r])
  /\ Step(p, IF op[p].r = "k" THEN "archive" ELSE "epoch")
  /\ UNCHANGED <<vlock, permitted>> /\ UNCHANGED files /\ UNCHANGED rest

recordArchive(p) ==
  /\ At(p, "archive")
  /\ manifest' = TRUE
  /\ Step(p, IF op[p].conf.checksum THEN "plain" ELSE "epoch")
  /\ UNCHANGED <<meta, pol, floor, receipts, vlock, permitted>> /\ UNCHANGED rest

Component(r) == IF r = "k" THEN "controller" ELSE "agent"
FloorOf(p) == IF op[p].r = "k" THEN floor.controller ELSE Larger(floor.agent, op[p].conf.min)

WriteReceipt(p) ==
  /\ At(p, "epoch")
  /\ Epoch[op[p].r] >= FloorOf(p)
  /\ receipts' = [receipts EXCEPT ![op[p].r] = Epoch[op[p].r]]
  /\ Step(p, "floor")
  /\ UNCHANGED <<meta, pol, floor, manifest, vlock, permitted>> /\ UNCHANGED rest

(* The floor is on disk before anybody may run the release. *)
WriteFloor(p) ==
  /\ At(p, "floor")
  /\ floor' = [floor EXCEPT ![Component(op[p].r)] = Larger(FloorOf(p), Epoch[op[p].r])]
  /\ Step(p, "verified") /\ vlock' = None /\ permitted' = permitted \cup {op[p].r}
  /\ UNCHANGED <<meta, pol, receipts, manifest>> /\ UNCHANGED rest

(* Checksum mode: the official catalogue lists the release; nothing is revoked
   and the receipt has epoch 1. *)
verifyChecksum(p) ==
  /\ At(p, "checksum")
  /\ Step(p, IF op[p].r = "k" THEN "archive" ELSE "plain")
  /\ UNCHANGED <<vlock, permitted>> /\ UNCHANGED files /\ UNCHANGED rest

recordChecksum(p) ==
  /\ At(p, "plain")
  /\ receipts' = [receipts EXCEPT ![op[p].r] = 1]
  /\ Step(p, "verified") /\ vlock' = None
  /\ UNCHANGED <<meta, pol, floor, manifest, permitted>> /\ UNCHANGED rest

(* An error, a timeout or a death: what was written stays, the lock does not. *)
Fails(p) ==
  /\ ~At(p, "idle") /\ op' = [op EXCEPT ![p] = NoOp]
  /\ vlock' = IF vlock = p THEN None ELSE vlock
  /\ UNCHANGED permitted /\ UNCHANGED files /\ UNCHANGED rest
-----------------------------------------------------------------------------
Supports(r) == needs \subseteq Provides[r]

(* applySelfUpdateInline: compatibility, then the executable is replaced. *)
CommitBinary ==
  /\ At("agent", "verified") /\ op["agent"].kind = "self"
  /\ Supports(op["agent"].r)
  /\ agentBin' = op["agent"].r /\ op' = [op EXCEPT !["agent"] = NoOp]
  /\ UNCHANGED <<gens, clock, conf, vlock, needs, permitted, tleft>> /\ UNCHANGED files

(* updateAgent of the worker: compatibility, then the old program becomes the
   subject of a recovery transaction (PrepareAgentRecovery). *)
BeginRecovery ==
  /\ At("agent", "verified") /\ op["agent"].kind = "worker"
  /\ Supports(op["agent"].r)
  /\ op' = [op EXCEPT !["agent"].pc = IF conf.checksum THEN "bytes" ELSE "receipt",
                      !["agent"].conf = conf, !["agent"].known = Known,
                      !["agent"].rec = [r |-> agentBin, new |-> op["agent"].r, seq |-> 1,
                                        deadline |-> clock + TrustLife, phase |-> "prepare"],
                      !["agent"].r = agentBin]
  /\ UNCHANGED <<vlock, permitted>> /\ UNCHANGED files /\ UNCHANGED rest

VerifyDone(p) ==
  /\ At(p, "verified") /\ op[p].kind = "release"
  /\ op' = [op EXCEPT ![p] = NoOp]
  /\ UNCHANGED <<vlock, permitted>> /\ UNCHANGED files /\ UNCHANGED rest

(* prepare-recovery of the installer, and the command verify-rollback. *)
PrepareRecovery ==
  /\ At("ctl", "idle") /\ TUse("op")
  /\ op' = [op EXCEPT !["ctl"] = Begun("receipt", "recovery", "k",
              [r |-> "k", new |-> "k", seq |-> 1, deadline |-> clock + TrustLife, phase |-> "prepare"])]
  /\ UNCHANGED <<gens, clock, conf, vlock, agentBin, needs, permitted>> /\ UNCHANGED files

VerifyRollback == /\ \E r \in Releases : Begin("ctl", "rollback", "receipt", r)
                  /\ UNCHANGED vlock

ReadReceipt(p) ==
  /\ At(p, "receipt")
  /\ receipts[op[p].r] > 0
  /\ op' = [op EXCEPT ![p].epoch = receipts[op[p].r],
                      ![p].pc = IF op[p].conf.checksum THEN "bytes" ELSE "allowed"]
  /\ UNCHANGED <<vlock, permitted>> /\ UNCHANGED files /\ UNCHANGED rest

Recovering(p) == op[p].rec # None /\ op[p].rec.phase = "check"

(* Only the check of a recovery tolerates an expired policy. *)
ReadPolicy(p) ==
  /\ At(p, "allowed")
  /\ pol # None /\ (Recovering(p) \/ pol.exp > clock)
  /\ Allows(pol, op[p].r, op[p].epoch)
  /\ Step(p, "above")
  /\ UNCHANGED <<vlock, permitted>> /\ UNCHANGED files /\ UNCHANGED rest

ReadFloor(p) ==
  /\ At(p, "above")
  /\ floor.agent > 0 \/ floor.controller > 0       \* epochs.json exists
  /\ op[p].epoch >= FloorOf(p)
  /\ Step(p, IF op[p].rec # None /\ ~Recovering(p) THEN "sequence" ELSE "bytes")
  /\ UNCHANGED <<vlock, permitted>> /\ UNCHANGED files /\ UNCHANGED rest

(* PrepareRecovery reads the policy once more for its sequence. *)
ReadSequence(p) ==
  /\ At(p, "sequence")
  /\ op' = [op EXCEPT ![p].pc = "bytes", ![p].rec.seq = pol.seq]
  /\ UNCHANGED <<vlock, permitted>> /\ UNCHANGED files /\ UNCHANGED rest

(* The bytes, and with them the verdict. *)
CheckBytes(p) ==
  /\ At(p, "bytes")
  /\ op[p].r = "k" => manifest
  /\ IF op[p].kind = "rollback" THEN op' = [op EXCEPT ![p] = NoOp]
     ELSE Step(p, IF Recovering(p) THEN "restore" ELSE "prepared")
  /\ UNCHANGED <<vlock, permitted>> /\ UNCHANGED files /\ UNCHANGED rest

(* The new program is installed and started; it is healthy, or not. *)
SwitchBinary(p) ==
  /\ At(p, "prepared")
  /\ agentBin' = IF p = "agent" THEN op[p].rec.new ELSE agentBin
  /\ Step(p, "switched")
  /\ UNCHANGED <<gens, clock, conf, vlock, needs, permitted, tleft>> /\ UNCHANGED files

Healthy(p) ==
  /\ At(p, "switched")
  /\ op' = [op EXCEPT ![p] = NoOp]
  /\ UNCHANGED <<vlock, permitted>> /\ UNCHANGED files /\ UNCHANGED rest

(* Recovery.Check: deadline and sequence, then the same reads again. *)
CheckRecovery(p) ==
  /\ At(p, "switched")
  /\ op[p].rec.deadline > clock
  /\ ~conf.checksum => pol # None /\ pol.seq >= op[p].rec.seq
  /\ op' = [op EXCEPT ![p].pc = IF conf.checksum THEN "bytes" ELSE "receipt",
                      ![p].conf = conf, ![p].known = Known, ![p].rec.phase = "check"]
  /\ UNCHANGED <<vlock, permitted>> /\ UNCHANGED files /\ UNCHANGED rest

RestoreBinary(p) ==
  /\ At(p, "restore")
  /\ agentBin' = IF p = "agent" THEN op[p].r ELSE agentBin
  /\ op' = [op EXCEPT ![p] = NoOp]
  /\ UNCHANGED <<gens, clock, conf, vlock, needs, permitted, tleft>> /\ UNCHANGED files
-----------------------------------------------------------------------------
(* The agent accepts a desired state with a feature and saves that it relies
   on it.  An update holds the configuration lock; on OpenRC the worker lets
   go of it before it starts the new agent. *)
ConfigurationFree == At("agent", "idle") \/ (conf.openrc /\ At("agent", "switched"))
AcceptFeature ==
  /\ TUse("feature") /\ ConfigurationFree
  /\ \E f \in Provides[agentBin] \ needs : needs' = needs \cup {f}
  /\ UNCHANGED <<gens, clock, conf, vlock, op, agentBin, permitted>> /\ UNCHANGED files

(* The operator configures signed metadata, or an oldest epoch of his own. *)
ConfigureTrust ==
  /\ TUse("edit")
  /\ \E m \in {0, 2} : conf' = [conf EXCEPT !.checksum = FALSE, !.min = m]
  /\ UNCHANGED <<gens, clock, vlock, op, agentBin, needs, permitted>> /\ UNCHANGED files

TrustTick ==
  /\ TUse("tick") /\ clock' = clock + 1
  /\ UNCHANGED <<gens, conf, vlock, op, agentBin, needs, permitted>> /\ UNCHANGED files

TrustNext ==
  \/ PublishRepository \/ CommitBinary \/ BeginRecovery \/ PrepareRecovery \/ VerifyRollback
  \/ AcceptFeature \/ ConfigureTrust \/ TrustTick
  \/ \E p \in Procs :
       \/ VerifyReader(p) \/ Refresh(p) \/ acceptReleasePolicy(p) \/ CheckTarget(p) \/ recordArchive(p)
       \/ WriteReceipt(p) \/ WriteFloor(p) \/ verifyChecksum(p) \/ recordChecksum(p) \/ Fails(p)
       \/ VerifyDone(p) \/ ReadReceipt(p) \/ ReadPolicy(p) \/ ReadFloor(p) \/ ReadSequence(p)
       \/ CheckBytes(p) \/ SwitchBinary(p) \/ Healthy(p) \/ CheckRecovery(p) \/ RestoreBinary(p)
-----------------------------------------------------------------------------
TrustTypeOK ==
  /\ floor \in [{"agent", "controller"} -> Nat] /\ meta \in 0..Cardinality(gens) /\ agentBin \in AgentReleases
  /\ vlock \in Procs \cup {None} /\ (pol # None => pol.seq \in 1..Cardinality(gens))

(* Nothing the host has learned is forgotten, whatever publisher, mirror,
   failures and concurrent operations do (acceptReleasePolicy, epochs.json). *)
NeverForgets ==
  /\ meta' >= meta /\ \A c \in DOMAIN floor : floor'[c] >= floor[c]
  /\ pol # None => /\ pol' # None /\ pol'.seq >= pol.seq /\ pol'.min >= pol.min
                   /\ pol.revoked \subseteq pol'.revoked

(* Whatever passes its checks was allowed by what the host knew when the
   operation began, although files are replaced while they are read. *)
Permitted(p) == op[p].pc \in {"verified", "prepared", "restore"} /\ ~op[p].conf.checksum
AllowedWhenBegun ==
  \A p \in Procs : Permitted(p) =>
    /\ op[p].r \notin op[p].known.revoked
    /\ op[p].r # "k" => Epoch[op[p].r] >= op[p].known.min

(* Permission to run a release is given only when its epoch has become the
   floor: no crash brings an older epoch back (verify.go:213). *)
FloorFirst == \A r \in permitted : floor[Component(r)] >= Epoch[r]

(* The saved state never relies on what the installed agent cannot do, except
   on OpenRC, where a new agent runs before its worker has judged it. *)
NeverDowngraded == ~conf.openrc => needs \subseteq Provides[agentBin]

TrustState == TrustTypeOK /\ AllowedWhenBegun /\ FloorFirst /\ NeverDowngraded

(* No step forgets, and every step leads to a state as above: no order of
   updates, rollbacks, recoveries, policies and crashes makes a host run what
   the publisher has withdrawn, as far as the host could know it. *)
TrustSafe == [][NeverForgets /\ TrustState']_trustVars
=============================================================================
