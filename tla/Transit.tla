------------------------------ MODULE Transit ------------------------------
(* Egress profiles, node bindings and managed transits.

   A managed transit sends the traffic of one node of an entry server through a
   profile that the controller owns to an endpoint on a landing server.  A
   worker advances it one stage at a time, each by compare and swap after an
   exact receipt of the server concerned.  Beside it an administrator edits a
   profile of his own and binds nodes to profiles; the managed profile and the
   node of the transit are closed to him until it is retired. *)
EXTENDS Integers, Sequences, Outbox

CONSTANT
  TransitBounds \* bounds to start from: changes of readiness and maintenance,
                \* edits of profiles and bindings, retries, failed applies,
                \* restarts of the landing agent

VARIABLES
  prof,    \* egress_profiles: "tp" (managed) and "ap", None or enabled
  bind,    \* node_networks: node -> profile
  transit, \* managed_transits: stage and whether it is hidden
  lnode,   \* the landing node's row: "none", "live" or "revoked"
  tsrv,    \* the two servers (Outbox)
  meter,   \* landing agent: the node's meter identity is retained; what it
           \* reported of it; a heartbeat was sent since its last apply; it
           \* has restarted
  worker,  \* the stage the worker read
  ready,   \* readiness of the servers
  tleft

transitVars == <<prof, bind, transit, lnode, tsrv, meter, worker, ready, tleft>>

TServers == {"entry", "landing"}
TNodes   == {"node", "other"}
Profiles == {"tp", "ap"}
-----------------------------------------------------------------------------
(* What a server is told (DeployedNodeNetworks): a node bound to a disabled
   profile is blocked, never sent out directly. *)
Egress(n) == IF bind[n] = None THEN "direct"
             ELSE IF prof[bind[n]].on THEN bind[n] ELSE "blocked"
TransitDoc(s) == IF s = "entry" THEN [n \in TNodes |-> Egress(n)] ELSE lnode = "live"
Uses(p)       == \E n \in TNodes : tsrv["entry"].run # None /\ tsrv["entry"].run[n] = p
LandingListens == tsrv["landing"].run = TRUE

InMaintenance(s) == tsrv[s].maint
FullyReady(s)    == ready[s] = "yes" /\ ~InMaintenance(s)
CanApply(s)      == ready[s] # "stale" /\ ~InMaintenance(s)

Referenced(p) == \E n \in TNodes : bind[n] = p
Managed       == transit # None /\ transit.stage # "retired"

TUse(k) == tleft[k] > 0 /\ tleft' = [tleft EXCEPT ![k] = @ - 1]
BumpAt(S) == tsrv' = [s \in TServers |-> IF s \in S THEN Bumped(tsrv[s]) ELSE tsrv[s]]

TransitInit ==
  /\ prof = [p \in Profiles |-> None] /\ bind = [n \in TNodes |-> None]
  /\ transit = None /\ lnode = "none" /\ worker = None
  /\ tsrv = [s \in TServers |-> NewServer(None)]
  /\ meter = [held |-> FALSE, told |-> FALSE, beat |-> TRUE, restarted |-> FALSE]
  /\ ready = [s \in TServers |-> "yes"]
  /\ tleft \in TransitBounds
-----------------------------------------------------------------------------
(* previewTransit and CreateManagedTransit: landing node, profile and binding
   appear in one transaction; the profile is disabled until the landing side
   has confirmed. *)
PreviewTransit == transit = None /\ \A s \in TServers : FullyReady(s)
CreateManagedTransit ==
  /\ PreviewTransit
  /\ transit' = [stage |-> "pending_landing", hidden |-> FALSE]
  /\ lnode' = "live" /\ prof' = [prof EXCEPT !["tp"] = [on |-> FALSE]]
  /\ bind' = [bind EXCEPT !["node"] = "tp"]
  /\ BumpAt(TServers)
  /\ UNCHANGED <<meter, worker, ready, tleft>>

Successor == [pending_landing |-> "pending_entry", pending_entry |-> "applied",
              stopping_entry |-> "stopping_landing", stopping_landing |-> "retired"]
ReceiptServer(st) == IF st \in {"pending_entry", "stopping_entry"} THEN "entry" ELSE "landing"

(* reconcileTransits lists the transits first ... *)
ReadTransits ==
  /\ worker = None /\ transit # None /\ transit.stage \in DOMAIN Successor
  /\ ServerApplied(tsrv[ReceiptServer(transit.stage)])
  /\ worker' = transit.stage
  /\ UNCHANGED <<prof, bind, transit, lnode, tsrv, meter, ready, tleft>>

(* ... and AdvanceManagedTransit checks everything again: the stage, the
   receipt, maintenance, the binding, and for the last stage that the agent
   has let go of the meter. *)
ReceiptHolds(st) ==
  /\ ServerApplied(tsrv[ReceiptServer(st)]) /\ ~InMaintenance(ReceiptServer(st))
StageIgnored(st) == TRUE          \* mutant: no compare and swap
StageUnchanged(st) == transit.stage = st
CanAdvance(st) ==
  /\ StageUnchanged(st) /\ ReceiptHolds(st)
  /\ st = "pending_landing" => FullyReady("entry")
  /\ st \in {"pending_landing", "pending_entry"} => bind["node"] = "tp"
  /\ st = "stopping_landing" => ~meter.told

Enable(p, on) == prof' = [prof EXCEPT ![p].on = on]

AdvanceManagedTransit ==
  /\ worker # None /\ worker' = None
  /\ IF ~CanAdvance(worker) THEN UNCHANGED <<prof, transit, lnode, tsrv>>
     ELSE /\ transit' = [transit EXCEPT !.stage = Successor[worker]]
          /\ CASE worker \in {"pending_landing", "pending_entry"} ->
                    /\ Enable("tp", TRUE) /\ UNCHANGED lnode
                    /\ BumpAt(IF prof["tp"].on THEN {} ELSE {"entry"})
               [] worker = "stopping_entry" ->
                    lnode' = "revoked" /\ BumpAt({"landing"}) /\ UNCHANGED prof
               [] worker = "stopping_landing" ->
                    lnode' = "none" /\ BumpAt({"landing"}) /\ UNCHANGED prof
  /\ UNCHANGED <<bind, meter, ready, tleft>>

(* Retirement fences the entrance first: the profile is disabled. *)
RetireManagedTransit ==
  /\ transit # None /\ transit.stage \in {"pending_landing", "pending_entry", "applied"}
  /\ Enable("tp", FALSE) /\ BumpAt(IF prof["tp"].on THEN {"entry"} ELSE {})
  /\ transit' = [transit EXCEPT !.stage = "stopping_entry"]
  /\ UNCHANGED <<bind, lnode, meter, worker, ready, tleft>>

RetryManagedTransit ==
  /\ transit # None /\ transit.stage \in DOMAIN Successor /\ TUse("retry")
  /\ \A s \in TServers : ~InMaintenance(s)
  /\ BumpAt(TServers)
  /\ UNCHANGED <<prof, bind, transit, lnode, meter, worker, ready>>

SetManagedTransitHidden ==
  /\ transit # None /\ transit.stage = "retired" /\ ~transit.hidden
  /\ transit' = [transit EXCEPT !.hidden = TRUE]
  /\ UNCHANGED <<prof, bind, lnode, tsrv, meter, worker, ready, tleft>>
-----------------------------------------------------------------------------
(* requestEgressProfile: a managed profile is never edited and deleted only
   after its transit; a profile in use is not deleted; enabling one resumes
   its consumers and therefore asks for their readiness. *)
CreateProfile ==
  /\ prof["ap"] = None /\ \E on \in BOOLEAN : prof' = [prof EXCEPT !["ap"] = [on |-> on]]
  /\ UNCHANGED <<bind, tsrv>>
ToggleProfile ==
  /\ prof["ap"] # None /\ (~prof["ap"].on /\ Referenced("ap") => FullyReady("entry"))
  /\ Enable("ap", ~prof["ap"].on)
  /\ BumpAt(IF Referenced("ap") THEN {"entry"} ELSE {}) /\ UNCHANGED bind
DeleteProfile ==
  /\ \E p \in Profiles : /\ prof[p] # None /\ ~Referenced(p) /\ (p = "tp" => ~Managed)
                         /\ prof' = [prof EXCEPT ![p] = None]
  /\ UNCHANGED <<bind, tsrv>>

RequestEgressProfile == CreateProfile \/ ToggleProfile \/ DeleteProfile

(* requestNodeNetwork, reviewed: a reset asks only for an agent that can apply
   it; setNodeNetwork refuses the node of a transit. *)
BindingReady(p) == IF p = None THEN CanApply("entry")
                   ELSE FullyReady("entry") /\ prof[p] # None /\ prof[p].on
SetNodeNetwork(n, p) ==
  /\ n = "node" => ~Managed
  /\ bind[n] # p /\ bind' = [bind EXCEPT ![n] = p]
  /\ BumpAt({"entry"}) /\ UNCHANGED prof
RequestNodeNetwork ==
  \E n \in TNodes, p \in Profiles \cup {None} : BindingReady(p) /\ SetNodeNetwork(n, p)

RequestEgress ==
  /\ TUse("edit") /\ ~InMaintenance("entry")
  /\ RequestEgressProfile \/ RequestNodeNetwork
  /\ UNCHANGED <<transit, lnode, meter, worker, ready>>
-----------------------------------------------------------------------------
TransitPublish(s) ==
  /\ Publishable(tsrv[s]) /\ tsrv' = [tsrv EXCEPT ![s] = Published(@, TransitDoc(s))]
  /\ UNCHANGED <<prof, bind, transit, lnode, meter, worker, ready, tleft>>

(* An agent converges after a heartbeat; the identity of a new node is
   retained before it is started (rememberMeters). *)
TransitApply(s) ==
  /\ Fetchable(tsrv[s]) /\ (s = "landing" => meter.beat)
  /\ \/ /\ tsrv' = [tsrv EXCEPT ![s] = Applied(@)] /\ UNCHANGED tleft
        /\ meter' = IF s = "entry" THEN meter
                    ELSE [meter EXCEPT !.beat = FALSE, !.held = @ \/ tsrv[s].doc]
     \/ TUse("fail") /\ tsrv' = [tsrv EXCEPT ![s] = ApplyFails(@)] /\ UNCHANGED meter
  /\ UNCHANGED <<prof, bind, transit, lnode, worker, ready>>

TransitReport(s) ==
  /\ tsrv[s] # Reported(tsrv[s]) /\ tsrv' = [tsrv EXCEPT ![s] = Reported(@)]
  /\ UNCHANGED <<prof, bind, transit, lnode, meter, worker, ready, tleft>>

(* The heartbeat carries the retained identities (diagnostics). *)
LandingHeartbeat ==
  /\ meter.told # meter.held \/ ~meter.beat
  /\ meter' = [meter EXCEPT !.told = meter.held, !.beat = TRUE]
  /\ UNCHANGED <<prof, bind, transit, lnode, tsrv, worker, ready, tleft>>

(* The final reading was acknowledged and the counters are gone (Metering). *)
MeterSettled ==
  /\ meter.held /\ tsrv["landing"].run = FALSE
  /\ meter' = [meter EXCEPT !.held = FALSE]
  /\ UNCHANGED <<prof, bind, transit, lnode, tsrv, worker, ready, tleft>>

(* A starting agent converges before its first heartbeat. *)
LandingRestart ==
  /\ TUse("restart") /\ ~meter.beat /\ meter' = [meter EXCEPT !.beat = TRUE, !.restarted = TRUE]
  /\ UNCHANGED <<prof, bind, transit, lnode, tsrv, worker, ready>>

ReadinessChange ==
  /\ TUse("change")
  /\ \/ \E s \in TServers, v \in {"yes", "stale", "no"} :
          ready[s] # v /\ ready' = [ready EXCEPT ![s] = v] /\ UNCHANGED tsrv
     \/ \E s \in TServers : ~tsrv[s].maint /\ tsrv' = [tsrv EXCEPT ![s].maint = TRUE] /\ UNCHANGED ready
  /\ UNCHANGED <<prof, bind, transit, lnode, meter, worker>>

TransitMaintenanceEnds ==
  /\ \E s \in TServers : tsrv[s].maint /\ tsrv' = [tsrv EXCEPT ![s].maint = FALSE]
  /\ UNCHANGED <<prof, bind, transit, lnode, meter, worker, ready, tleft>>
-----------------------------------------------------------------------------
TransitWorker == ReadTransits \/ AdvanceManagedTransit
TransitAgent(s) == TransitApply(s) \/ TransitReport(s)

TransitNext ==
  \/ CreateManagedTransit \/ TransitWorker \/ RetireManagedTransit \/ RetryManagedTransit
  \/ SetManagedTransitHidden \/ RequestEgress \/ LandingHeartbeat \/ MeterSettled
  \/ LandingRestart \/ ReadinessChange \/ TransitMaintenanceEnds
  \/ \E s \in TServers : TransitPublish(s) \/ TransitAgent(s)
-----------------------------------------------------------------------------
TransitStages == DOMAIN Successor \cup {"applied", "retired"}
Outlets == {"direct", "blocked"} \cup Profiles

(* None is neither a row nor a stage nor a document. *)
ASSUME TransitAssumption ==
  /\ None \notin [on : BOOLEAN] /\ None \notin [stage : TransitStages, hidden : BOOLEAN]
  /\ None \notin Profiles \cup TransitStages /\ None \notin BOOLEAN
  /\ None \notin [TNodes -> Outlets]
  /\ \A b \in TransitBounds : b \in [{"change", "edit", "retry", "fail", "restart"} -> Nat]

(* No node leaves through the managed profile unless the landing side is
   authorised and really listens; the entrance is fenced before the endpoint
   behind it is withdrawn. *)
EntryFencedFirst == Uses("tp") => lnode = "live" /\ LandingListens

(* "applied" is said only of a node that really leaves through the transit,
   and it stays so: nobody else changes its binding. *)
TransitIsReal ==
  transit # None /\ transit.stage = "applied" => tsrv["entry"].run["node"] = "tp"

(* The listener's port is released only when the landing host has closed it
   and let go of its meter - except for an agent that restarted and applied
   twice between two heartbeats. *)
RetiredIsSettled ==
  transit # None /\ transit.stage = "retired" =>
    /\ ~LandingListens /\ lnode = "none"
    /\ meter.held => meter.restarted

(* A binding always has its profile. *)
NoDanglingBinding == \A n \in TNodes : bind[n] # None => prof[bind[n]] # None

TransitSafe == EntryFencedFirst /\ TransitIsReal /\ RetiredIsSettled /\ NoDanglingBinding

(* A transit that is being retired is retired in the end. *)
TransitRetires ==
  transit # None /\ transit.stage \in {"stopping_entry", "stopping_landing"}
    ~> transit # None /\ transit.stage = "retired"
=============================================================================
