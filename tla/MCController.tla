---------------------------- MODULE MCController ----------------------------
(* The controller's stores for TLC.  They share no state at this level: one
   of them moves in each behaviour, the others keep their initial values. *)
EXTENDS Routes, Transit

VARIABLE focus
Stores == {"routes", "transit"}
ctlVars == <<routeVars, transitVars, focus>>

InFocus(m) == focus = m /\ UNCHANGED focus
InRoutes  == InFocus("routes") /\ UNCHANGED transitVars
InTransit == InFocus("transit") /\ UNCHANGED routeVars

AnyOf(S) == CHOOSE x \in S : TRUE

CtlInit ==
  /\ focus \in Stores
  /\ RouteInit   /\ (focus # "routes"  => rleft = AnyOf(RouteBounds))
  /\ TransitInit /\ (focus # "transit" => tleft = AnyOf(TransitBounds))

CtlNext ==
  \/ InRoutes /\ CreateAccessRoute
  \/ InRoutes /\ StopAccessRoute
  \/ InRoutes /\ RetryAccessRoute
  \/ InRoutes /\ RequestPortForward
  \/ InRoutes /\ ReconcileAccessRoute
  \/ InRoutes /\ AccessRouteReconcileFailed
  \/ InRoutes /\ FactsChange
  \/ InRoutes /\ MaintenanceEnds
  \/ \E s \in RServers : InRoutes /\ PublishForwards(s)
  \/ \E s \in RServers : InRoutes /\ ForwardAgent(s)
  \/ InTransit /\ CreateManagedTransit
  \/ InTransit /\ TransitWorker
  \/ InTransit /\ RetireManagedTransit
  \/ InTransit /\ RetryManagedTransit
  \/ InTransit /\ SetManagedTransitHidden
  \/ InTransit /\ RequestEgress
  \/ InTransit /\ LandingHeartbeat
  \/ InTransit /\ MeterSettled
  \/ InTransit /\ LandingRestart
  \/ InTransit /\ ReadinessChange
  \/ InTransit /\ TransitMaintenanceEnds
  \/ \E s \in TServers : InTransit /\ TransitPublish(s)
  \/ \E s \in TServers : InTransit /\ TransitAgent(s)

CtlSafety == CtlInit /\ [][CtlNext]_ctlVars

(* Fairness: the reconcilers and the outbox run periodically, agents keep
   polling, heartbeats and settlement repeat, and a maintenance job ends or
   expires.  The transit reconciler looks at the stage again after every read. *)
CtlSpec ==
  /\ CtlSafety
  /\ WF_ctlVars(InRoutes /\ RouteWorker) /\ WF_ctlVars(InRoutes /\ MaintenanceEnds)
  /\ \A s \in RServers : /\ WF_ctlVars(InRoutes /\ PublishForwards(s))
                         /\ WF_ctlVars(InRoutes /\ ForwardAgent(s))
  /\ SF_ctlVars(InTransit /\ AdvanceManagedTransit) /\ WF_ctlVars(InTransit /\ ReadTransits)
  /\ WF_ctlVars(InTransit /\ LandingHeartbeat) /\ WF_ctlVars(InTransit /\ MeterSettled)
  /\ WF_ctlVars(InTransit /\ TransitMaintenanceEnds)
  /\ \A s \in TServers : /\ WF_ctlVars(InTransit /\ TransitPublish(s))
                         /\ WF_ctlVars(InTransit /\ TransitAgent(s))

(* What is stopped is retired in the end, and a route that lost its landing
   does not stay open (reconcilers of store/access_routes.go, transit.go). *)
ControllerSettles == RoutesSettle /\ TransitRetires
-----------------------------------------------------------------------------
R0 == [hop |-> 1, change |-> 0, create |-> 0, edit |-> 0, retry |-> 0, fail |-> 0]
RBounds == {[R0 EXCEPT !.change = 1, !.fail = 1],
            [R0 EXCEPT !.create = 1, !.edit = 1, !.hop = 0, !.retry = 1]}

T0 == [change |-> 0, edit |-> 0, retry |-> 0, fail |-> 0, restart |-> 0]
TBounds == {[T0 EXCEPT !.change = 2, !.fail = 1], [T0 EXCEPT !.edit = 3, !.change = 1],
            [T0 EXCEPT !.restart = 1, !.retry = 1, !.change = 1]}

(* The two ways to forward traffic through a second host, access routes and
   transits, each open and close their ends in the safe order. *)
ForwardingSafe == RoutesSafe /\ TransitSafe
=============================================================================
