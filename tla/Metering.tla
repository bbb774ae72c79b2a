------------------------------ MODULE Metering ------------------------------
(***************************************************************************)
(* Per-node traffic accounting between one agent and the controller.       *)
(*                                                                         *)
(* The kernel counts the bytes of every node in named nft counters, the    *)
(* agent samples them into heartbeats, and the controller turns cumulative *)
(* readings into billed bytes with one baseline row per counter identity   *)
(* (counter_state).  A node that leaves the configuration is retired: its  *)
(* rules are frozen, one immutable batch of final readings is persisted,   *)
(* sent until it is acknowledged, and only then are the kernel counter and *)
(* the local identity removed.                                             *)
(*                                                                         *)
(* Requests may be lost, answered after the agent gave up, or processed    *)
(* late; the agent may crash between any two steps, the host may reboot,   *)
(* and every write of state.json may fail.  The pair (rx, tx) of a counter *)
(* is one number here: every test in the code treats both alike.           *)
(***************************************************************************)
EXTENDS Integers, FiniteSets, Functions

CONSTANTS
  Nodes,              \* node identities the controller may deploy here
  None,               \* absence of a nonce, a batch, a request, a document
  OpenRC,             \* OpenRC host (openrc.Enabled) rather than systemd
  InitV1,             \* State.MeteringV1 of the host in its first state
  StartupSaveFails,   \* the ignored Save of Run may fail
  TableLossInRetirement, \* the nft table may vanish while a batch is pending
  BatchSize,          \* agentproto.SettlementBatchSize
  MaxMeters,          \* maxMeterIdentities
  Clock,              \* timestamps the agent's wall clock may show
  MaxBytes,           \* bound: bytes one kernel counter counts
  MaxRev,             \* bound: revisions the controller publishes
  MaxLate,            \* bound: abandoned requests still in flight
  MaxActive,          \* agentbudget.ActiveNodes
  MaxFaults           \* bound: failures of each kind

(* Kinds of failure: the agent or the host stops, a write of state.json, a
   request, and a command on the host (nft, systemd, the cores). *)
FaultKinds == {"crash", "save", "net", "host"}

ASSUME MeteringAssumption ==
  /\ IsFiniteSet(Nodes) /\ None \notin Nat
  /\ OpenRC \in BOOLEAN /\ InitV1 \in BOOLEAN
  /\ StartupSaveFails \in BOOLEAN /\ TableLossInRetirement \in BOOLEAN
  /\ BatchSize \in Nat \ {0} /\ MaxMeters \in Nat
  /\ Clock \subseteq Nat \ {0}
  /\ MaxBytes \in Nat /\ MaxRev \in Nat /\ MaxLate \in Nat
  /\ MaxActive \in Nat /\ MaxFaults \in [FaultKinds -> Nat]

VARIABLES
  table,     \* the nft table ctlvps_nodes exists
  ctr,       \* reading of each node's named counter, Absent when there is none
  live,      \* nodes with a counting rule (not retired)
  boot,      \* the kernel's boot id
  drawn,     \* random values drawn so far; the next one is drawn + 1
  mem,       \* the agent's State in memory
  disk,      \* state.json
  desired,   \* Agent.desired: the last document applied since the start
  finals,    \* Agent.finalMeters
  pc,        \* where the agent's main loop is
  back,      \* which caller of flushRetirement is running
  retErr,    \* retirementErr of the running heartbeat
  ds,        \* the document being applied
  want,      \* DesiredRevision of the last response
  req,       \* the request the agent waits for
  resp,      \* its response
  late,      \* requests the agent gave up on, still in flight
  pub,       \* the controller's latest desired state
  base,      \* counter_state: baseline row per counter identity
  usage,     \* bytes added to the ledgers per counter identity
  settled,   \* meter_settlements
  produced,  \* history: bytes the kernel counted under each identity
  faults     \* failures of each kind so far

host  == <<table, ctr, live, boot>>
local == <<desired, finals, retErr, ds, want>>
wire  == <<req, resp, late>>
ctl   == <<base, usage, settled>>
vars  == <<host, drawn, mem, disk, local, pc, back, wire, pub, ctl, produced, faults>>

Absent == -1

(* A counter identity: node, boot id, CounterNonce, Generation. *)
Key(n, st) == <<n, boot, st.nonce, st.meters[n]>>

Known(st) == {n \in Nodes : st.meters[n] # None}

Present == {n \in Nodes : ctr[n] # Absent}

(* What ReadNodes and portCounters / FinalRead return for a set of nodes. *)
Readings(S) == {[key |-> Key(n, mem), val |-> ctr[n]] : n \in S}

KeysOf(C)     == {c.key : c \in C}
Of(C, k)      == CHOOSE c \in C : c.key = k
RowOr0(f, k)  == IF k \in DOMAIN f THEN f[k] ELSE 0

NoRet == None

Retiring(S, b, plan, ack) ==
  [nodes |-> S, batch |-> b, remaining |-> plan, acked |-> ack]

-----------------------------------------------------------------------------
(* Initial state: an enrolled agent with no nodes; InitV1 tells whether the
   host already runs the node accounting. *)
Init ==
  /\ table = FALSE /\ ctr = [n \in Nodes |-> Absent] /\ live = {}
  /\ boot = 1 /\ drawn = 2
  /\ mem = [nonce |-> 2, meters |-> [n \in Nodes |-> None], ret |-> NoRet,
            v1 |-> InitV1, rev |-> 0, err |-> FALSE]
  /\ disk = mem
  /\ desired = None /\ finals = FALSE /\ retErr = FALSE /\ ds = None /\ want = 0
  /\ pc = "boot" /\ back = "start"
  /\ req = None /\ resp = None /\ late = {}
  /\ pub = [rev |-> 0, nodes |-> {}]
  /\ base = <<>> /\ usage = <<>> /\ settled = {} /\ produced = <<>>
  /\ faults = [k \in FaultKinds |-> 0]

Fail(kind) ==
  faults[kind] < MaxFaults[kind] /\ faults' = [faults EXCEPT ![kind] = @ + 1]

(* State.Save after the in-memory state became st. *)
Saved(st)    == mem' = st /\ disk' = st /\ UNCHANGED faults
Unsaved(st)  == mem' = st /\ UNCHANGED disk /\ Fail("save")

(* PruneNodes with the plan of a batch: counters of the retained nodes are
   ensured, the acknowledged ones deleted, the rules replaced. *)
PruneNodes(p) ==
  /\ table' = TRUE
  /\ ctr' = [n \in Nodes |-> IF n \in p.nodes THEN Absent
                             ELSE IF n \in p.remaining.all /\ ctr[n] = Absent
                             THEN 0 ELSE ctr[n]]
  /\ live' = p.remaining.live
  /\ UNCHANGED boot

(* EnsureNodes: add the named counters that are missing, replace the rules. *)
EnsureNodes(liveSet, retired) ==
  /\ table' = TRUE
  /\ ctr' = [n \in Nodes |-> IF n \in liveSet \cup retired /\ ctr[n] = Absent
                             THEN 0 ELSE ctr[n]]
  /\ live' = liveSet
  /\ UNCHANGED boot

-----------------------------------------------------------------------------
(* Kernel: a packet of a node with a counting rule. *)
Traffic ==
  /\ \E n \in live :
       /\ ctr[n] \in 0..(MaxBytes - 1)
       /\ ctr' = [ctr EXCEPT ![n] = @ + 1]
       /\ LET k == Key(n, mem) IN
          produced' = [x \in DOMAIN produced \cup {k} |->
                         IF x = k THEN RowOr0(produced, k) + 1 ELSE produced[x]]
  /\ UNCHANGED <<table, live, boot, drawn, mem, disk, local, pc, back, wire, pub,
                 ctl, faults>>

(* The controller publishes another revision, within the node limit above
   which convergeDesired refuses a document without touching anything. *)
Publish ==
  /\ pub.rev < MaxRev
  /\ \E S \in SUBSET Nodes :
       /\ S # pub.nodes /\ Cardinality(S) <= MaxActive
       /\ pub' = [rev |-> pub.rev + 1, nodes |-> S]
  /\ UNCHANGED <<host, drawn, mem, disk, local, pc, back, wire, ctl, produced, faults>>

-----------------------------------------------------------------------------
(* The controller's delta() for one identified reading c of a report sampled
   at ts; durable reports are the frozen final batches.  Every identity
   carries its epoch in the key and reports from zero. *)
Found(c)   == c.key \in DOMAIN base
IgnoredDurable(c, ts, durable) ==   \* mutant: old final batches are ignored too
  Found(c) /\ ts < base[c.key].ts
Ignored(c, ts, durable) == Found(c) /\ ~durable /\ ts < base[c.key].ts
Rejected(c, ts, durable) ==
  Found(c) /\ c.val < base[c.key].val /\ ~Ignored(c, ts, durable)

DeltaFromZero(c) == c.val          \* mutant: the baseline is not subtracted
Delta(c) == IF Found(c) THEN c.val - base[c.key].val ELSE c.val

BaselineTSRewinds(c, ts) == ts     \* mutant: an older sample rewinds the row
BaselineTS(c, ts) ==
  IF Found(c) /\ ts < base[c.key].ts THEN base[c.key].ts ELSE ts

(* The counter_state rows and the ledger rows after accepting readings C. *)
Baselines(C, ts) ==
  [k \in DOMAIN base \cup KeysOf(C) |->
     IF k \in KeysOf(C)
     THEN [val |-> Of(C, k).val, ts |-> BaselineTS(Of(C, k), ts)]
     ELSE base[k]]

LedgersSkipped(C) == usage         \* mutant: the baseline commits alone
Ledgers(C) ==
  [k \in DOMAIN usage \cup KeysOf(C) |->
     IF k \in KeysOf(C) THEN RowOr0(usage, k) + Delta(Of(C, k)) ELSE usage[k]]

(* The settlement rows after a committed request. *)
ReceiptsForgotten(m) == settled    \* mutant: the receipt is not inserted
Receipts(m) == IF m.type = "final" THEN settled \cup {m.batch} ELSE settled

(* Ingest of one request.  ok tells whether the transaction commits. *)
Ingest(m, ok) ==
  IF m.type = "final" /\ m.batch \in settled
  THEN ok = TRUE /\ UNCHANGED ctl
  ELSE LET durable == m.type = "final"
           C  == m.batch.counters
           ts == m.batch.ts
       IN IF \E c \in C : Rejected(c, ts, durable)
          THEN ok = FALSE /\ UNCHANGED ctl
          ELSE /\ ok = TRUE
               /\ LET taken == {c \in C : ~Ignored(c, ts, durable)}
                  IN base' = Baselines(taken, ts) /\ usage' = Ledgers(taken)
               /\ settled' = Receipts(m)

(* agentHeartbeat on the request the agent is waiting for. *)
Serve ==
  /\ req # None /\ resp = None
  /\ \E ok \in BOOLEAN :
       /\ Ingest(req, ok)
       /\ resp' = [ok |-> ok, rev |-> pub.rev]
  /\ UNCHANGED <<host, drawn, mem, disk, local, pc, back, req, late, pub, produced, faults>>

(* agentHeartbeat on a request nobody waits for any more. *)
ServeLate ==
  /\ \E m \in late :
       /\ \E ok \in BOOLEAN : Ingest(m, ok)
       /\ late' = late \ {m}
  /\ UNCHANGED <<host, drawn, mem, disk, local, pc, back, req, resp, pub, produced, faults>>

-----------------------------------------------------------------------------
(* Agent.  Program points: "boot" Run before converge; "idle" between
   heartbeats; "final" / "waitFinal" / "clean" / "forget" inside
   flushRetirement; "sample" / "waitLive" the ordinary heartbeat; "begin"
   beginRetirement; "fetch", "remember", "ensure", "cores" convergeDesired
   and apply. *)
FlushPointUnacked(st) == "clean"   \* mutant: clean without an acknowledgement
FlushPoint(st) == IF st.ret.acked THEN "clean" ELSE "final"

StartPointNoFlush == "begin"       \* mutant: apply before settling
StartPoint == IF mem.ret = NoRet THEN "begin" ELSE FlushPoint(mem)

(* Where the callers of flushRetirement go on after it returned nil. *)
AfterFlush == IF back = "sample" THEN "sample" ELSE "begin"

(* flushRetirement returned an error. *)
FlushError ==
  /\ pc' = IF back = "sample" THEN "sample" ELSE "idle"
  /\ retErr' = (back = "sample")

(* The client stops waiting: the request is lost or processed later. *)
Abandon ==
  /\ req' = None /\ resp' = None
  /\ \/ late' = late
     \/ /\ resp = None /\ Cardinality(late) < MaxLate
        /\ late' = late \cup {req}

(* Run: a missing table starts a new counter epoch, the Save error is
   ignored; then converge(force) settles a pending batch first. *)
Startup ==
  /\ pc = "boot"
  /\ back' = "start"
  /\ IF (mem.v1 /\ ~table) \/ ~mem.v1
     THEN /\ drawn' = drawn + 1
          /\ \/ Saved([mem EXCEPT !.nonce = drawn'])
             \/ StartupSaveFails /\ Unsaved([mem EXCEPT !.nonce = drawn'])
     ELSE UNCHANGED <<drawn, mem, disk, faults>>
  /\ pc' = StartPoint
  /\ UNCHANGED <<host, local, wire, pub, ctl, produced>>

(* heartbeat: settle the pending batch before sampling. *)
Heartbeat ==
  /\ pc = "idle"
  /\ back' = "sample"
  /\ retErr' = FALSE
  /\ pc' = IF mem.ret = NoRet THEN "sample" ELSE FlushPoint(mem)
  /\ UNCHANGED <<host, drawn, mem, disk, desired, finals, ds, want, wire, pub, ctl,
                 produced, faults>>

SendFinal ==
  /\ pc = "final"
  /\ req' = [type |-> "final", batch |-> mem.ret.batch]
  /\ resp' = None
  /\ pc' = "waitFinal"
  /\ UNCHANGED <<host, drawn, mem, disk, local, back, late, pub, ctl, produced, faults>>

(* The acknowledgement arrives; it is saved before anything is cleaned. *)
FinalAcked ==
  /\ pc = "waitFinal" /\ resp # None /\ resp.ok
  /\ req' = None /\ resp' = None /\ late' = late
  /\ \/ /\ Saved([mem EXCEPT !.ret = [@ EXCEPT !.acked = TRUE]])
        /\ pc' = "clean"
        /\ UNCHANGED retErr
     \/ Unsaved(mem) /\ FlushError
  /\ UNCHANGED <<host, drawn, desired, finals, ds, want, back, pub, ctl, produced>>

(* The request failed, timed out, or was refused. *)
FinalFailed ==
  /\ pc = "waitFinal"
  /\ \/ resp # None /\ ~resp.ok /\ UNCHANGED faults
     \/ Fail("net")
  /\ Abandon
  /\ FlushError
  /\ UNCHANGED <<host, drawn, mem, disk, desired, finals, ds, want, back, pub, ctl,
                 produced>>

Clean ==
  /\ pc = "clean"
  /\ \/ PruneNodes(mem.ret) /\ pc' = "forget" /\ UNCHANGED <<retErr, faults>>
     \/ Fail("host") /\ FlushError /\ UNCHANGED host
  /\ UNCHANGED <<drawn, mem, disk, desired, finals, ds, want, back, wire, pub, ctl,
                 produced>>

(* The state without the settled identities and without the batch. *)
ForgottenKeepsIdentity == [mem EXCEPT !.ret = NoRet]   \* mutant
ForgottenKeepsBatch ==                                 \* mutant
  [mem EXCEPT !.meters = [n \in Nodes |-> IF n \in mem.ret.nodes THEN None ELSE @[n]]]
Forgotten ==
  [mem EXCEPT !.ret = NoRet,
              !.meters = [n \in Nodes |-> IF n \in mem.ret.nodes THEN None ELSE @[n]]]

(* flushRetirement's last write: both are dropped together. *)
Forget ==
  /\ pc = "forget"
  /\ \/ /\ Saved(Forgotten)
        /\ pc' = AfterFlush
        /\ UNCHANGED retErr
     \/ Unsaved(mem) /\ FlushError
  /\ UNCHANGED <<host, drawn, desired, finals, ds, want, back, wire, pub, ctl, produced>>

(* The ordinary heartbeat: readings of every counter except those frozen in
   the pending batch; a missing table is an apply error. *)
Sample ==
  /\ pc = "sample"
  /\ \E t \in Clock :
       LET pending == IF mem.ret = NoRet THEN {} ELSE mem.ret.nodes
           C == IF table THEN Readings(Present \ pending) ELSE {}
       IN req' = [type |-> "live", batch |-> [ts |-> t, counters |-> C]]
  /\ resp' = None
  /\ mem' = [mem EXCEPT !.err = @ \/ (mem.v1 /\ ~table)]
  /\ pc' = "waitLive"
  /\ UNCHANGED <<host, drawn, disk, local, back, late, pub, ctl, produced, faults>>

(* The response: a heartbeat whose settlement failed ends here, otherwise
   retirement is considered. *)
LiveOK ==
  /\ pc = "waitLive" /\ resp # None /\ resp.ok
  /\ finals' = TRUE
  /\ want' = resp.rev
  /\ req' = None /\ resp' = None /\ late' = late
  /\ pc' = IF retErr THEN "idle" ELSE "begin"
  /\ UNCHANGED <<host, drawn, mem, disk, desired, retErr, ds, back, pub, ctl, produced,
                 faults>>

(* The same response with a maintenance request: nothing else is done. *)
LiveMaintenance ==
  /\ pc = "waitLive" /\ resp # None /\ resp.ok /\ ~retErr
  /\ finals' = TRUE
  /\ want' = resp.rev
  /\ req' = None /\ resp' = None /\ late' = late
  /\ pc' = "idle"
  /\ UNCHANGED <<host, drawn, mem, disk, desired, retErr, ds, back, pub, ctl, produced,
                 faults>>

LiveFailed ==
  /\ pc = "waitLive"
  /\ \/ resp # None /\ ~resp.ok /\ UNCHANGED faults
     \/ Fail("net")
  /\ Abandon
  /\ pc' = "idle"
  /\ UNCHANGED <<host, drawn, mem, disk, local, back, pub, ctl, produced>>

(* beginRetirement's early returns and the set it may retire. *)
Retirable ==
  IF mem.ret = NoRet /\ finals /\ mem.v1 /\ ~mem.err /\ desired # None
  THEN Known(mem) \ desired.nodes ELSE {}

(* converge is called when something differs from what was applied. *)
NeedsApply == desired = None \/ want # mem.rev \/ mem.err

NothingToRetire ==
  /\ pc = "begin"
  /\ Retirable = {}
  /\ pc' = IF back = "start" \/ NeedsApply THEN "fetch" ELSE "idle"
  /\ UNCHANGED <<host, drawn, mem, disk, local, back, wire, pub, ctl, produced, faults>>

(* Nothing differs, but EnsureResourceIngress fails: apply again. *)
IngressFails ==
  /\ pc = "begin" /\ back = "sample" /\ Retirable = {} /\ ~NeedsApply
  /\ Fail("host")
  /\ mem' = [mem EXCEPT !.err = TRUE]
  /\ pc' = "fetch"
  /\ UNCHANGED <<host, drawn, disk, local, back, wire, pub, ctl, produced>>

BeginRetirement ==
  /\ pc = "begin"
  /\ Retirable # {}
  /\ pc' = "idle"
  /\ \/ /\ table
        /\ \E S \in SUBSET Retirable, t \in Clock :
             /\ S \subseteq Present
             /\ Cardinality(S) = IF Cardinality(Retirable) < BatchSize
                                 THEN Cardinality(Retirable) ELSE BatchSize
             /\ LET b    == [ts |-> t, counters |-> Readings(S)]
                    plan == [all  |-> Known(mem) \ S,
                             live |-> (Known(mem) \ S) \cap desired.nodes]
                IN Saved([mem EXCEPT !.ret = Retiring(S, b, plan, FALSE)])
     \/ Unsaved(mem)       \* the plan could not be saved
     \/ /\ ~(table /\ Retirable \subseteq Present)   \* no final counter
        /\ UNCHANGED <<mem, disk, faults>>
  /\ UNCHANGED <<host, drawn, local, back, wire, pub, ctl, produced>>

-----------------------------------------------------------------------------
(* convergeDesired and apply. *)
Fetch ==
  /\ pc = "fetch"
  /\ \/ /\ ds' = pub
        /\ pc' = IF back # "start" /\ desired # None /\ pub.rev = mem.rev /\ ~mem.err
                 THEN "idle" ELSE "remember"
        /\ UNCHANGED faults
     \/ Fail("net") /\ pc' = "idle" /\ UNCHANGED ds
  /\ UNCHANGED <<host, drawn, mem, disk, desired, finals, retErr, want, back, wire, pub,
                 ctl, produced>>

(* convergeDesired's end after apply returned an error: the error is kept in
   the state and the state is saved, if it can be. *)
ApplyError(st) ==
  /\ pc' = "idle"
  /\ mem' = [st EXCEPT !.err = TRUE]
  /\ disk' \in {mem'} \cup (IF MaxFaults["save"] > 0 THEN {disk} ELSE {})

(* rememberMeters and its Save: identities are durable before any process
   can produce bytes. *)
Remember ==
  /\ pc = "remember"
  /\ LET st0 == [mem EXCEPT !.v1 = @ \/ OpenRC]
         new == ds.nodes \ Known(mem)
     IN IF new # {} /\ Cardinality(Known(mem)) + Cardinality(new) > MaxMeters
        THEN ApplyError(st0) /\ UNCHANGED <<drawn, faults>>
        ELSE \E g \in [new -> (drawn + 1)..(drawn + Cardinality(new))] :
               /\ \A x, y \in new : x # y => g[x] # g[y]
               /\ drawn' = drawn + Cardinality(new)
               /\ LET st == [st0 EXCEPT !.meters =
                               [n \in Nodes |-> IF n \in new THEN g[n]
                                                ELSE mem.meters[n]]]
                  IN \/ Saved(st) /\ pc' = "ensure"
                     \/ Fail("save") /\ ApplyError(st)
  /\ UNCHANGED <<host, local, back, wire, pub, ctl, produced>>

(* The state under which apply creates counters: a missing table starts a
   new epoch. *)
EpochStateKept == mem              \* mutant: the old nonce stays
EpochState == IF table THEN mem ELSE [mem EXCEPT !.nonce = drawn + 1]

(* apply up to EnsureNodes. *)
Ensure ==
  /\ pc = "ensure"
  /\ LET st == EpochState IN
     /\ drawn' = IF table THEN drawn ELSE drawn + 1
     /\ \/ /\ EnsureNodes(ds.nodes, Known(mem) \ ds.nodes)
           /\ Saved(st)
           /\ pc' = "cores"
        \/ /\ Fail("host") \/ (~table /\ Fail("save"))
           /\ ApplyError(st) /\ UNCHANGED host
  /\ UNCHANGED <<local, back, wire, pub, ctl, produced>>

(* The cores are installed and started; the result is saved.  Before the
   first success a failure may also take the rules down again (the restore
   closure of prepareMetering); named counters survive that. *)
Cores ==
  /\ pc = "cores"
  /\ pc' = "idle"
  /\ \/ /\ desired' = ds /\ UNCHANGED host
        /\ LET st == [mem EXCEPT !.v1 = TRUE, !.rev = ds.rev, !.err = FALSE]
           IN Saved(st) \/ Unsaved(st)
     \/ /\ Fail("host") /\ UNCHANGED <<desired, table, ctr, boot>>
        /\ live' \in IF mem.v1 THEN {live} ELSE {live, {}}
        /\ \E v \in {mem.v1, TRUE} : ApplyError([mem EXCEPT !.v1 = v])
  /\ UNCHANGED <<drawn, finals, retErr, ds, want, back, wire, pub, ctl, produced>>

-----------------------------------------------------------------------------
(* Environment faults. *)
Lose ==
  /\ table' = FALSE /\ ctr' = [n \in Nodes |-> Absent] /\ live' = {}

(* The table is removed behind the agent's back. *)
TableLoss ==
  /\ Fail("crash") /\ table /\ Lose
  /\ TableLossInRetirement \/ mem.ret = NoRet
  /\ UNCHANGED <<boot, drawn, mem, disk, local, pc, back, wire, pub, ctl, produced>>

Restart ==
  /\ mem' = disk
  /\ desired' = None /\ finals' = FALSE /\ retErr' = FALSE /\ ds' = None /\ want' = 0
  /\ pc' = "boot" /\ back' = "start"
  /\ IF req = None THEN UNCHANGED wire ELSE Abandon
  /\ UNCHANGED <<disk, pub, ctl, produced>>

Crash ==
  /\ Fail("crash") /\ pc # "boot"
  /\ Restart
  /\ UNCHANGED <<host, drawn>>

Reboot ==
  /\ Fail("crash")
  /\ Lose
  /\ drawn' = drawn + 1 /\ boot' = drawn'
  /\ Restart

-----------------------------------------------------------------------------
AgentStep ==
  \/ Startup \/ Heartbeat \/ SendFinal \/ FinalAcked \/ FinalFailed \/ Clean
  \/ Forget \/ Sample \/ LiveOK \/ LiveMaintenance \/ LiveFailed \/ NothingToRetire
  \/ IngressFails \/ BeginRetirement \/ Fetch \/ Remember \/ Ensure \/ Cores

Next ==
  \/ Traffic \/ Publish \/ Serve \/ ServeLate \/ AgentStep
  \/ TableLoss \/ Crash \/ Reboot

Spec == Init /\ [][Next]_vars

(* The code's scheduling: the main loop never stops, requests that are not
   lost are answered, and a maintenance request does not come forever. *)
FairSpec ==
  /\ Spec
  /\ WF_vars(AgentStep) /\ WF_vars(Serve) /\ WF_vars(ServeLate)
  /\ SF_vars(LiveOK)

-----------------------------------------------------------------------------
Counted(k) == RowOr0(produced, k)
Billed(k)  == RowOr0(usage, k)

Keys == Nodes \X Nat \X Nat \X (Nat \cup {None})

Readout == [key : Keys, val : Nat]
Batch   == [ts : Clock, counters : SUBSET Readout]

Plan == [nodes : SUBSET Nodes, batch : Batch, acked : BOOLEAN,
         remaining : [all : SUBSET Nodes, live : SUBSET Nodes]]

State == [nonce : Nat, meters : [Nodes -> Nat \cup {None}], ret : Plan \cup {NoRet},
          v1 : BOOLEAN, rev : Nat, err : BOOLEAN]

Document == [rev : Nat, nodes : SUBSET Nodes]
Request  == [type : {"final", "live"}, batch : Batch]
Response == [ok : BOOLEAN, rev : Nat]

Points == {"boot", "idle", "final", "waitFinal", "clean", "forget", "sample",
           "waitLive", "begin", "fetch", "remember", "ensure", "cores"}

ASSUME NoneAssumption ==
  None \notin Plan /\ None \notin Document /\ None \notin Request /\ None \notin Response

HostTypes ==
  /\ table \in BOOLEAN /\ ctr \in [Nodes -> Nat \cup {Absent}]
  /\ live \in SUBSET Nodes /\ boot \in Nat /\ drawn \in Nat

StateTypes == mem \in State /\ disk \in State

LoopTypes ==
  /\ desired \in Document \cup {None} /\ ds \in Document \cup {None}
  /\ finals \in BOOLEAN /\ retErr \in BOOLEAN /\ want \in Nat
  /\ pc \in Points /\ back \in {"start", "sample"}
  /\ faults \in [FaultKinds -> Nat]

WireTypes ==
  /\ req \in Request \cup {None} /\ late \in SUBSET Request
  /\ resp \in Response \cup {None}
  /\ pub \in Document

LedgerTypes ==
  /\ DOMAIN base \subseteq Keys /\ DOMAIN usage = DOMAIN base
  /\ \A k \in DOMAIN base : base[k] \in [val : Nat, ts : Nat] /\ usage[k] \in Nat
  /\ settled \in SUBSET Batch
  /\ DOMAIN produced \subseteq Keys /\ \A k \in DOMAIN produced : produced[k] \in Nat

(* The shape of every variable of the agent, the kernel and the controller;
   a baseline row exists exactly where a ledger row does. *)
TypeOK == HostTypes /\ StateTypes /\ LoopTypes /\ WireTypes /\ LedgerTypes

(* Lost answers, retries, late requests, clock corrections, crashes and
   reboots never bill a byte twice: what the ledgers hold for a counter
   identity never exceeds what the kernel counted under it
   (traffic.Ingest with the identities of Agent.meterEpoch). *)
NoOverbilling == \A k \in DOMAIN usage : usage[k] <= Counted(k)

(* The same for the node as a whole, over all its identities: a byte that was
   billed under one identity is not billed again under the next. *)
NodeTotal(f, n) == SumFunctionOnSet(f, {k \in DOMAIN f : k[1] = n})
NodeBilledOnce  == \A n \in Nodes : NodeTotal(usage, n) <= NodeTotal(produced, n)

(* A counter never reads less than its baseline, so no honest report is ever
   refused with "counter reset without a new epoch": whoever recreates a
   counter at zero (EnsureNodes, PruneNodes, a re-added node) also changes
   its identity. *)
NeverBehindBaseline ==
  \A n \in Present :
    Key(n, mem) \in DOMAIN base => base[Key(n, mem)].val <= ctr[n]

(* No byte is counted after the final reading: the batch that is replayed
   until it is acknowledged still is the kernel's reading (beginRetirement
   freezes, retirementPending holds back every newer configuration). *)
FrozenBatch ==
  mem.ret # NoRet =>
    /\ mem.ret.nodes \cap live = {}
    /\ \A n \in mem.ret.nodes \cap Present :
         [key |-> Key(n, mem), val |-> ctr[n]] \in mem.ret.batch.counters

(* A saved acknowledgement means the controller committed this very batch
   (flushRetirement, meter_settlements). *)
AckedIsSettled == mem.ret # NoRet /\ mem.ret.acked => mem.ret.batch \in settled

(* A settlement is final: neither a replayed batch nor a live report that
   arrives after it, nor the node's next life, adds to the identity. *)
SettledIsFinal ==
  \A b \in settled : \A c \in b.counters : Billed(c.key) = c.val

(* Clean deletes a kernel counter only when every byte in it is billed. *)
CleanOnlyBilled ==
  [][\A n \in Present : table' /\ ctr'[n] = Absent => Billed(Key(n, mem)) = ctr[n]]_vars

(* Stale and replayed reports never rewind the ledger or the accounting
   baseline (delta). *)
LedgerStep ==
  \A k \in DOMAIN usage :
    /\ k \in DOMAIN usage' /\ usage'[k] >= usage[k]
    /\ base'[k].val >= base[k].val /\ base'[k].ts >= base[k].ts
LedgerMonotone == [][LedgerStep]_vars

(* A pending batch is eventually settled, cleaned and forgotten. *)
RetirementCompletes == mem.ret # NoRet ~> mem.ret = NoRet

(* A node that stays removed from the configuration is eventually billed to
   the last byte and its identity released, one bounded batch at a time. *)
RemovedIsReleased ==
  \A n \in Nodes : <>[](n \notin pub.nodes) => <>[](mem.meters[n] = None)

(* Settlement is exact in both directions: what is acknowledged is in the
   ledger, and what is in the ledger is final (flushRetirement, FinalMeters). *)
Settlement == AckedIsSettled /\ SettledIsFinal

(* The reading that a removed node is settled with is its last one, and no
   counter ever falls behind its own baseline. *)
FinalReadings == FrozenBatch /\ NeverBehindBaseline

(* Removal ends: the batch completes and the identity is released
   (retirement.go: flushRetirement, forgetRetired). *)
Retirement == RetirementCompletes /\ RemovedIsReleased
=============================================================================
