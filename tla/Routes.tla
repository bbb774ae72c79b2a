------------------------------- MODULE Routes -------------------------------
(* Fixed forwards and access routes.

   An access route leads clients over an entry server, perhaps over a second
   server in between (IX), to a landing node.  The controller owns one
   port_forwards row per hop; a worker moves the route from stage to stage, one
   transaction at a time, and believes only exact receipts of the agents.  A
   third forward, on the entry server, belongs to an administrator and
   competes for listener ports.  The agents freeze a receipt with the final
   counters after every apply, repeat it until it is acknowledged, and fetch
   nothing before that. *)
EXTENDS Integers, Sequences, FiniteSets, Outbox

CONSTANTS
  Ports,      \* listener ports
  RouteBounds \* bounds to start from: hops behind the entry, changes of facts,
              \* the administrator's forward (ids are not reused: created once)
              \* and its edits, retries, applies that fail

RServers == {"entry", "ix"}
Forwards == {"ef", "xf", "own"}
At(f)    == IF f = "xf" THEN "ix" ELSE "entry"

VARIABLES
  fwd,    \* port_forwards: forward -> row, with the ports of its revisions
  resv,   \* server_listener_reservations: <<server, forward, port>>
  route,  \* access_routes: the stage of the route
  rsrv,   \* the servers (Outbox)
  host,   \* per host: is a receipt of what runs frozen, and was it committed
  facts,  \* readiness of each server and authority of the landing node
  failing, \* the worker saw an error and has not recorded it yet
  rleft   \* what is left of the bounds

routeVars == <<fwd, resv, route, rsrv, host, facts, failing, rleft>>
-----------------------------------------------------------------------------
(* The document of a server (DesiredForwards). *)
ForwardSpec(row) == [rev |-> Len(row.ports), port |-> row.ports[Len(row.ports)],
                     blocked |-> ~row.on \/ row.retired, retired |-> row.retired]
On(s, rows) == {f \in Forwards : At(f) = s /\ rows[f] # None}
DesiredForwards(s) == [f \in On(s, fwd) |-> ForwardSpec(fwd[f])]

(* The listeners that a host has open. *)
Listening(s) ==
  LET doc == rsrv[s].run
  IN  {<<f, doc[f].port>> : f \in {g \in DOMAIN doc : ~doc[g].blocked}}
Open(f) == \E p \in Ports : <<f, p>> \in Listening(At(f))

(* networkReadiness: fresh facts admit a change.  Lost contact and
   maintenance alone do not condemn a path that was applied
   (routeForwardReady). *)
Maintained(s) == rsrv[s].maint
NetworkReady(s) == facts.ready[s] = "yes" /\ ~Maintained(s)
ForwardReady(s) == facts.ready[s] # "no"
(* Stopping a listener needs only an agent that can still apply and report. *)
Reachable(s)    == facts.ready[s] # "stale" /\ ~Maintained(s)

Free(s, f, p) == \A o \in Forwards \ {f} : <<s, o, p>> \notin resv

(* createPortForward, updatePortForward, retirePortForward with the triggers
   of the table: a revision is appended, its port reserved, the generation of
   the server raised. *)
NewRow(p)      == [on |-> FALSE, retired |-> FALSE, ports |-> <<p>>]
Updated(row, on, p) == [row EXCEPT !.on = on, !.ports = Append(@, p)]
RetiredRow(row) == [row EXCEPT !.on = FALSE, !.retired = TRUE,
                               !.ports = Append(@, @[Len(@)])]
Toggled(f, on) == Updated(fwd[f], on, ForwardSpec(fwd[f]).port)
Write(f, row)  == /\ fwd'  = [fwd EXCEPT ![f] = row]
                  /\ rsrv' = [rsrv EXCEPT ![At(f)] = Bumped(@)]

Stopping  == route.stage \in {"stopping_entry", "stopping_ix"}
-----------------------------------------------------------------------------
RouteInit ==
  /\ fwd = [f \in Forwards |-> None] /\ resv = {} /\ route = None
  /\ rsrv = [s \in RServers |-> NewServer(<<>>)]
  /\ host = [s \in RServers |-> [frozen |-> FALSE, committed |-> FALSE]]
  /\ facts = [ready |-> [s \in RServers |-> "yes"], valid |-> TRUE]
  /\ failing = FALSE
  /\ rleft \in RouteBounds

Spend(k) == rleft[k] > 0 /\ rleft' = [rleft EXCEPT ![k] = @ - 1]

(* The preview demands a valid source, readiness of every hop and free
   listeners; creation repeats it in its transaction.  Both forwards start
   disabled.  A repeated request returns the route that exists. *)
RoutePreview(ix, p) ==
  /\ facts.valid
  /\ NetworkReady("entry") /\ Free("entry", "ef", p)
  /\ ix => NetworkReady("ix") /\ Free("ix", "xf", p)

RouteServers(ix) == IF ix THEN RServers ELSE {"entry"}

CreateAccessRoute ==
  /\ route = None
  /\ \E ix \in BOOLEAN, p \in Ports :
       /\ (ix => rleft.hop > 0) /\ RoutePreview(ix, p)
       /\ route' = [stage |-> "pending_landing", ix |-> ix]
       /\ fwd' = [fwd EXCEPT !["ef"] = NewRow(p), !["xf"] = IF ix THEN NewRow(p) ELSE None]
       /\ resv' = resv \cup {<<"entry", "ef", p>>} \cup (IF ix THEN {<<"ix", "xf", p>>} ELSE {})
       /\ rsrv' = [s \in RServers |-> IF s \in RouteServers(ix) THEN Bumped(rsrv[s]) ELSE rsrv[s]]
  /\ UNCHANGED <<host, facts, failing, rleft>>

(* A transition ends in a stage, or fails and leaves everything as it is. *)
EndIn(st) == route' = [route EXCEPT !.stage = st] /\ failing' = FALSE
Fails     == failing' = TRUE /\ UNCHANGED <<fwd, rsrv, route>>
Remain(st) == EndIn(st) /\ UNCHANGED <<fwd, rsrv>>

(* routeSetEnabled: nothing to do, or a write, which maintenance refuses. *)
Toggle(f, on, st) ==
  IF fwd[f].on = on THEN Remain(st)
  ELSE IF Maintained(At(f)) THEN Fails
  ELSE Write(f, Toggled(f, on)) /\ EndIn(st)
CloseEntryLater(st) == Remain(st)     \* mutant: the entry stays open
CloseEntry(st) == Toggle("ef", FALSE, st)

(* Enabling asks for fresh readiness; without it the route waits. *)
OpenHop(f, st) ==
  /\ ~fwd[f].on
  /\ IF Maintained(At(f)) \/ NetworkReady(At(f)) THEN Toggle(f, TRUE, st)
     ELSE Remain(IF f = "xf" THEN "pending_landing" ELSE st)
HopUp(f) == fwd[f].on /\ ForwardReady(At(f)) /\ ServerApplied(rsrv[At(f)])

(* ReconcileAccessRoute, stage by stage: the entry is closed and its cleanup
   acknowledged before the hop behind it is touched ... *)
RetireIX ==
  IF fwd["xf"] = None \/ fwd["xf"].retired THEN Remain("stopping_ix")
  ELSE IF Maintained("ix") THEN Fails
  ELSE Write("xf", RetiredRow(fwd["xf"])) /\ EndIn("stopping_ix")

ReconcileStop ==
  \/ /\ route.stage = "stopping_entry" /\ fwd["ef"] = None
     /\ IF route.ix THEN RetireIX ELSE Remain("retired")
  \/ route.stage = "stopping_ix" /\ fwd["xf"] = None /\ Remain("retired")

(* ... and the hop behind is applied before the entry is opened. *)
ReconcileStart ==
  IF ~facts.valid THEN CloseEntry("blocked")
  ELSE IF route.ix /\ ~HopUp("xf")
  THEN \/ OpenHop("xf", "pending_ix")
       \/ fwd["xf"].on /\ CloseEntry("pending_ix")
  ELSE \/ OpenHop("ef", "pending_entry")
       \/ fwd["ef"].on /\ ~ForwardReady("entry") /\ CloseEntry("pending_entry")
       \/ /\ fwd["ef"].on /\ ForwardReady("entry")
          /\ Remain(IF ServerApplied(rsrv["entry"]) THEN "applied" ELSE "pending_entry")

ReconcileAccessRoute ==
  /\ route # None /\ route.stage # "retired" /\ ~failing
  /\ IF Stopping THEN ReconcileStop ELSE ReconcileStart
  /\ UNCHANGED <<resv, host, facts, rleft>>

(* A failed transition is recorded, and the entry closed if that is possible,
   in a transaction of its own. *)
AccessRouteReconcileFailed ==
  /\ failing
  /\ IF Stopping \/ (fwd["ef"].on /\ Maintained("entry")) THEN Remain(route.stage)
     ELSE CloseEntry("blocked")
  /\ UNCHANGED <<resv, host, facts, rleft>>

StopAccessRoute ==
  /\ route # None /\ ~Stopping /\ route.stage # "retired" /\ ~Maintained("entry")
  /\ Write("ef", RetiredRow(fwd["ef"])) /\ route' = [route EXCEPT !.stage = "stopping_entry"]
  /\ UNCHANGED <<resv, host, facts, failing, rleft>>

RetryAccessRoute ==
  /\ route # None /\ route.stage # "retired" /\ Spend("retry")
  /\ \A s \in RouteServers(route.ix) : ~Maintained(s)
  /\ rsrv' = [s \in RServers |-> IF s \in RouteServers(route.ix) THEN Bumped(rsrv[s]) ELSE rsrv[s]]
  /\ UNCHANGED <<fwd, resv, route, host, facts, failing>>

(* AccessRouteLanding: what a subscription request is answered with. *)
AccessRouteLanding ==
  /\ route # None /\ route.stage = "applied" /\ facts.valid
  /\ \A f \in IF route.ix THEN {"ef", "xf"} ELSE {"ef"} :
       fwd[f] # None /\ fwd[f].on /\ ~fwd[f].retired /\ HopUp(f)
-----------------------------------------------------------------------------
(* The administrator's own forward (requestPortForward, reviewed): never one
   that a route owns, never in maintenance, enabled only on a ready server. *)
OwnCreate ==
  \E p \in Ports, on \in BOOLEAN :
    /\ Spend("create") /\ (IF on THEN NetworkReady("entry") ELSE Reachable("entry"))
    /\ Free("entry", "own", p)
    /\ Write("own", [NewRow(p) EXCEPT !.on = on])
    /\ resv' = resv \cup {<<"entry", "own", p>>}

OwnUpdate ==
  \E p \in Ports, on \in BOOLEAN :
    /\ Spend("edit") /\ fwd["own"] # None /\ ~fwd["own"].retired
    /\ IF on THEN NetworkReady("entry") ELSE Reachable("entry")
    /\ Free("entry", "own", p)
    /\ Write("own", Updated(fwd["own"], on, p))
    /\ resv' = resv \cup {<<"entry", "own", p>>}

OwnDelete ==
  /\ Spend("edit") /\ fwd["own"] # None /\ ~fwd["own"].retired /\ Reachable("entry")
  /\ Write("own", RetiredRow(fwd["own"])) /\ UNCHANGED resv

RequestPortForward ==
  /\ OwnCreate \/ OwnUpdate \/ OwnDelete
  /\ UNCHANGED <<route, host, facts, failing>>
-----------------------------------------------------------------------------
PublishForwards(s) ==
  /\ Publishable(rsrv[s])
  /\ rsrv' = [rsrv EXCEPT ![s] = Published(@, DesiredForwards(s))]
  /\ UNCHANGED <<fwd, resv, route, host, facts, failing, rleft>>

(* convergeDesired: nothing is fetched while a receipt waits; a successful
   apply freezes the receipt of its revision (freezeForwardReceipt). *)
Converge(s) ==
  /\ ~host[s].frozen /\ Fetchable(rsrv[s])
  /\ \/ /\ rsrv' = [rsrv EXCEPT ![s] = Applied(@)]
        /\ host' = [host EXCEPT ![s].frozen = DOMAIN rsrv[s].doc # {}]
        /\ UNCHANGED rleft
     \/ /\ Spend("fail") /\ rsrv' = [rsrv EXCEPT ![s] = ApplyFails(@)]
        /\ UNCHANGED host
  /\ UNCHANGED <<fwd, resv, route, facts, failing>>

ReportApply(s) ==
  /\ rsrv[s] # Reported(rsrv[s])
  /\ rsrv' = [rsrv EXCEPT ![s] = Reported(@)]
  /\ UNCHANGED <<fwd, resv, route, host, facts, failing, rleft>>

(* CheckForwardReceipt: every forward of the document still has its row, of
   this revision or a later one. *)
Acceptable(s) ==
  \A f \in DOMAIN rsrv[s].run :
    fwd[f] # None /\ Len(fwd[f].ports) >= rsrv[s].run[f].rev

(* CommitForwardReceipt: a retired forward goes with all its reservations, of
   the others those that neither the applied nor a later revision uses. *)
Gone(doc) == {f \in DOMAIN doc : doc[f].retired}
StillUsed(f, rev) == {fwd[f].ports[i] : i \in rev..Len(fwd[f].ports)}
(* mutant: the ports that the current revision does not use *)
ReleasedAtOnce(doc) ==
  {x \in resv : /\ x[2] \in DOMAIN doc
                /\ doc[x[2]].retired \/ x[3] # ForwardSpec(fwd[x[2]]).port}
Released(doc) ==
  {x \in resv : /\ x[2] \in DOMAIN doc
                /\ doc[x[2]].retired \/ x[3] \notin StillUsed(x[2], doc[x[2]].rev)}

CommitForwardReceipt(s) ==
  LET doc == rsrv[s].run
  IN  /\ host[s].frozen /\ ~host[s].committed /\ Acceptable(s)
      /\ \A f \in Gone(doc) : fwd[f].retired /\ Len(fwd[f].ports) = doc[f].rev
      /\ host' = [host EXCEPT ![s].committed = TRUE]
      /\ fwd' = [f \in Forwards |-> IF f \in Gone(doc) THEN None ELSE fwd[f]]
      /\ resv' = resv \ Released(doc)
      /\ rsrv' = IF Gone(doc) = {} THEN rsrv ELSE [rsrv EXCEPT ![s] = Bumped(@)]
      /\ UNCHANGED <<route, facts, failing, rleft>>

(* flushForwardReceipt: the answer, also that to a repeated receipt, lets the
   agent remove the retired counters and go on. *)
FlushForwardReceipt(s) ==
  /\ host[s].committed
  /\ host' = [host EXCEPT ![s] = [frozen |-> FALSE, committed |-> FALSE]]
  /\ UNCHANGED <<fwd, resv, route, rsrv, facts, failing, rleft>>

(* The facts the controller learns about a server, the authority of the
   landing node, and maintenance. *)
FactsChange ==
  /\ Spend("change")
  /\ \/ \E s \in RServers, v \in {"yes", "stale", "no"} :
          facts.ready[s] # v /\ facts' = [facts EXCEPT !.ready[s] = v] /\ UNCHANGED rsrv
     \/ facts' = [facts EXCEPT !.valid = ~@] /\ UNCHANGED rsrv
     \/ \E s \in RServers : ~rsrv[s].maint /\ rsrv' = [rsrv EXCEPT ![s].maint = TRUE] /\ UNCHANGED facts
  /\ UNCHANGED <<fwd, resv, route, host, failing>>

MaintenanceEnds ==
  /\ \E s \in RServers : rsrv[s].maint /\ rsrv' = [rsrv EXCEPT ![s].maint = FALSE]
  /\ UNCHANGED <<fwd, resv, route, host, facts, failing, rleft>>
-----------------------------------------------------------------------------
RouteWorker == ReconcileAccessRoute \/ AccessRouteReconcileFailed
ForwardAgent(s) ==
  Converge(s) \/ ReportApply(s) \/ CommitForwardReceipt(s) \/ FlushForwardReceipt(s)

RouteNext ==
  \/ CreateAccessRoute \/ StopAccessRoute \/ RetryAccessRoute \/ RequestPortForward
  \/ RouteWorker \/ FactsChange \/ MaintenanceEnds
  \/ \E s \in RServers : PublishForwards(s) \/ ForwardAgent(s)
-----------------------------------------------------------------------------
Row == [on : BOOLEAN, retired : BOOLEAN, ports : Seq(Ports)]
Stages == {"pending_landing", "pending_ix", "pending_entry", "applied", "blocked",
           "stopping_entry", "stopping_ix", "retired"}

(* None is neither a row nor a route; the id of a forward is given out once. *)
ASSUME RoutesAssumption ==
  /\ None \notin Row /\ None \notin [stage : Stages, ix : BOOLEAN]
  /\ \A b \in RouteBounds :
       b \in [{"hop", "change", "create", "edit", "retry", "fail"} -> Nat] /\ b["create"] <= 1

RouteTypeOK ==
  /\ \A f \in Forwards : fwd[f] # None => fwd[f] \in Row /\ ~(fwd[f].on /\ fwd[f].retired)
  /\ resv \subseteq RServers \X Forwards \X Ports
  /\ route # None => route.stage \in Stages /\ route.ix \in BOOLEAN
  /\ \A s \in RServers : (host[s].committed => host[s].frozen) /\ (rsrv[s].seen => rsrv[s].current)

(* A listener that a host may still have open is reserved for its forward,
   whatever receipts were late and however often its port was changed
   (forwardSchema: reservations last until the cleanup is acknowledged). *)
ListenersReserved ==
  \A s \in RServers : \A l \in Listening(s) : <<s, l[1], l[2]>> \in resv

(* The entry is never open on its host unless the hop behind it is open on
   its own: downstream first, entry fenced before the IX is removed. *)
DownstreamFirst == route # None /\ route.ix /\ Open("ef") => Open("xf")

(* A subscription shows the route only while every hop of it is open. *)
LandingIsOpen == AccessRouteLanding => Open("ef") /\ (route.ix => Open("xf"))

(* A retired route has left nothing on the hosts or in the tables. *)
RetiredIsClean ==
  route # None /\ route.stage = "retired" =>
    \A f \in {"ef", "xf"} : fwd[f] = None /\ ~Open(f) /\ \A x \in resv : x[2] # f

RoutesSafe == RouteTypeOK /\ ListenersReserved /\ DownstreamFirst /\ LandingIsOpen /\ RetiredIsClean

(* A stopped route is retired in the end, and a route whose landing node has
   lost its authority for good does not keep its entry open - unless an agent
   is left with a receipt that the controller can no longer accept. *)
Wedged == \E s \in RServers : host[s].frozen /\ ~host[s].committed /\ ~Acceptable(s)
StopCompletes ==
  route # None /\ Stopping ~> Wedged \/ (route # None /\ route.stage = "retired")
LostIsClosed == <>[](~facts.valid) => <>[](~Open("ef") \/ Wedged)
RoutesSettle == StopCompletes /\ LostIsClosed

(* A frozen receipt is accepted or can be repeated until it is: an agent with
   a pending receipt does nothing else. *)
ReceiptsFlow == \A s \in RServers : host[s].frozen ~> ~host[s].frozen
=============================================================================
