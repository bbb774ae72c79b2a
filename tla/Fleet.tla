------------------------------- MODULE Fleet -------------------------------
(* One server of the controller: its row with the traffic quota, the agent's
   registration, and the ports its listeners reserve.

   Heartbeats, the administrator's requests and the calendar run at the same
   time.  A request reads what it needs in one statement and writes in a later
   one; every step below is one statement or one transaction. *)
EXTENDS Integers, FiniteSets, TLC, Outbox

CONSTANTS
  FleetPorts,   \* the range ports are allocated from
  FleetBounds   \* bounds to start from

Resources == {"n1", "n2", "f"}   \* two nodes and a port forward
ServerRows == [quota : Nat, reset : Nat, on : BOOLEAN, upd : Nat, by : {"-", "admin", "quota"}]

ASSUME FleetAssumption == None \notin ServerRows

VARIABLES
  server,     \* servers: one row, or None
  calib,      \* server_usage_calibrations, or None
  daily,      \* traffic_daily: day -> bytes
  today,
  agent,      \* agents: token, enrolment token, whether that is still valid
  maint,      \* a maintenance job is active
  listeners,  \* nodes and port_forwards: resource -> listen_port, 0: none
  reserved,   \* server_listener_reservations
  calls,      \* requests on their way
  stamp,      \* tokens and times handed out
  enrolled,   \* history: enrolment token -> registrations
  voided,     \* history: enrolment tokens that were replaced or expired
  fleft

fleetVars == <<server, calib, daily, today, agent, maint, listeners, reserved, calls, stamp, enrolled,
               voided, fleft>>

FUse(k) == fleft[k] > 0 /\ fleft' = [fleft EXCEPT ![k] = @ - 1]
Call(c)    == calls' = calls \cup {c}
Then(c, d) == calls' = (calls \ {c}) \cup {d}
Done(c)    == calls' = calls \ {c}

FleetInit ==
  /\ server = [quota |-> 2, reset |-> 1, on |-> TRUE, upd |-> 0, by |-> "-"]
  /\ calib = None /\ today = 4 /\ daily = [d \in 0..5 |-> IF d = 3 THEN 1 ELSE 0]
  /\ agent = [token |-> 0, enroll |-> 0, valid |-> FALSE] /\ maint = FALSE
  /\ listeners = [r \in Resources |-> 0] /\ reserved = {} /\ calls = {} /\ stamp = 1
  /\ enrolled = <<>> /\ voided = {}
  /\ fleft \in FleetBounds
-----------------------------------------------------------------------------
(* PeriodStart, with a calendar of two-day months; without a reset day the
   window is the last two days (thirty, in the code). *)
PeriodStart(day, reset) == IF day % 2 = reset % 2 THEN day ELSE day - 1
WindowStart(day, reset) == IF reset = 0 THEN day - 1 ELSE PeriodStart(day, reset)

(* SumTraffic *)
Sum2(from, to) == LET At2(d) == IF d \in from..to THEN daily[d] ELSE 0
                  IN  At2(0) + At2(1) + At2(2) + At2(3) + At2(4) + At2(5)

(* GetServerUsageCalibration: of this period only *)
Calibration(day, reset) ==
  IF reset # 0 /\ calib # None /\ calib.period = PeriodStart(day, reset) THEN calib ELSE None

(* ServerUsage's amount *)
Billed(sum, cal) == IF cal = None THEN sum
                    ELSE IF cal.val + sum - cal.obs < 0 THEN 0 ELSE cal.val + sum - cal.obs

QuotaCall(i) == [op |-> "quota", pc |-> "row", row |-> None, day |-> 0, cal |-> None, seen |-> None,
                 sum |-> 0, now |-> 0, id |-> i]

(* The heartbeat brings traffic, then checkServerQuota runs. *)
HeartbeatTraffic ==
  /\ FUse("beat") /\ server # None
  /\ daily' = [daily EXCEPT ![today] = @ + 1]
  /\ Call(QuotaCall(stamp)) /\ stamp' = stamp + 1
  /\ UNCHANGED <<server, calib, today, agent, maint, listeners, reserved, enrolled, voided>>

NewDay ==
  /\ FUse("day") /\ today' = today + 1
  /\ UNCHANGED <<server, calib, daily, agent, maint, listeners, reserved, calls, stamp, enrolled, voided>>

(* checkServerQuota reads the row again, then the calibration, ... *)
QuotaRow(c) ==
  /\ c.op = "quota" /\ c.pc = "row"
  /\ IF server = None THEN Done(c)
     ELSE IF server.quota <= 0 THEN Done(c)
     ELSE Then(c, [c EXCEPT !.pc = "calibration", !.row = server, !.day = today])
  /\ UNCHANGED <<server, calib, daily, today, agent, maint, listeners, reserved, stamp, enrolled, voided, fleft>>

QuotaCalibration(c) ==
  /\ c.op = "quota" /\ c.pc = "calibration"
  /\ Then(c, [c EXCEPT !.pc = "sum", !.cal = Calibration(c.day, c.row.reset)])
  /\ UNCHANGED <<server, calib, daily, today, agent, maint, listeners, reserved, stamp, enrolled, voided, fleft>>

(* ... and ServerUsage the counters and, once more, the calibration. *)
QuotaSum(c) ==
  /\ c.op = "quota" /\ c.pc = "sum"
  /\ Then(c, [c EXCEPT !.pc = "again", !.now = today, !.sum = Sum2(WindowStart(today, c.row.reset), today)])
  /\ UNCHANGED <<server, calib, daily, today, agent, maint, listeners, reserved, stamp, enrolled, voided, fleft>>

QuotaAgain(c) ==
  /\ c.op = "quota" /\ c.pc = "again"
  /\ Then(c, [c EXCEPT !.pc = "compare", !.seen = Calibration(c.now, c.row.reset)])
  /\ UNCHANGED <<server, calib, daily, today, agent, maint, listeners, reserved, stamp, enrolled, voided, fleft>>

(* A mixed snapshot is not acted on. *)
QuotaCompare(c) ==
  /\ c.op = "quota" /\ c.pc = "compare"
  /\ IF c.day = today /\ c.cal = c.seen /\ Billed(c.sum, c.seen) >= c.row.quota /\ c.row.on
     THEN Then(c, [c EXCEPT !.pc = "disable"]) ELSE Done(c)
  /\ UNCHANGED <<server, calib, daily, today, agent, maint, listeners, reserved, stamp, enrolled, voided, fleft>>

(* DisableServerIfQuotaUnchanged: one statement, and the day once more. *)
QuotaStillSet(c) == server # None /\ server.on /\ server.quota = c.row.quota  \* mutant
QuotaUnchanged(c) ==
  /\ server # None /\ server.on /\ server.quota = c.row.quota
  /\ server.reset = c.row.reset /\ server.upd = c.row.upd
  /\ server.reset > 0 => Calibration(c.day, server.reset) = c.cal
  /\ c.day = today
DisableServer(c) ==
  /\ c.op = "quota" /\ c.pc = "disable" /\ Done(c)
  /\ IF QuotaUnchanged(c)
     THEN /\ server' = [server EXCEPT !.on = FALSE, !.upd = stamp, !.by = "quota"]
          /\ stamp' = stamp + 1
     ELSE UNCHANGED <<server, stamp>>
  /\ UNCHANGED <<calib, daily, today, agent, maint, listeners, reserved, enrolled, voided, fleft>>

(* updateServer: reads the row, edits it, writes all of it. *)
UpdateServer ==
  /\ FUse("edit") /\ server # None
  /\ \E q \in {0, 2, 3}, d \in {0, 1, 2}, on \in BOOLEAN, v \in {None, 0} :
       /\ v # None => d # 0
       /\ Call([op |-> "update", was |-> server, cal |-> v,
                row |-> [server EXCEPT !.quota = q, !.reset = d, !.on = on, !.by = "admin"]])
  /\ UNCHANGED <<server, calib, daily, today, agent, maint, listeners, reserved, stamp, enrolled, voided>>

UpdateServerWithCalibration(c) ==
  /\ c.op = "update"
  /\ stamp' = stamp + 2
  /\ IF server = None THEN Done(c) /\ UNCHANGED <<server, calib>>
     ELSE /\ server' = [c.row EXCEPT !.upd = stamp]
          /\ calib' = IF c.cal # None
                      THEN [val |-> c.cal, at |-> stamp, period |-> PeriodStart(today, c.row.reset),
                            obs |-> Sum2(PeriodStart(today, c.row.reset), today)]
                      ELSE IF server.reset # c.row.reset THEN None ELSE calib
          /\ IF c.cal # None \/ c.was.quota # c.row.quota \/ c.was.reset # c.row.reset
             THEN Then(c, QuotaCall(stamp + 1)) ELSE Done(c)
  /\ UNCHANGED <<daily, today, agent, maint, listeners, reserved, enrolled, voided, fleft>>
-----------------------------------------------------------------------------
(* requireNoMaintenance is a read of its own; the token, the reset or the
   deletion follow in another transaction. *)
AdminOps == {"token", "reset", "delete"}
RequireNoMaintenance ==
  /\ FUse("admin") /\ server # None /\ ~maint
  /\ \E op \in AdminOps : Call([op |-> op])
  /\ UNCHANGED <<server, calib, daily, today, agent, maint, listeners, reserved, stamp, enrolled, voided>>

Replaced == IF agent.enroll = 0 THEN voided ELSE voided \cup {agent.enroll}

SetAgentEnrollToken(c) ==
  /\ c.op = "token" /\ Done(c) /\ stamp' = stamp + 1
  /\ IF agent = None THEN UNCHANGED <<agent, voided>>
     ELSE /\ agent' = [agent EXCEPT !.enroll = stamp, !.valid = TRUE]
          /\ voided' = Replaced
  /\ UNCHANGED <<server, calib, daily, today, maint, listeners, reserved, enrolled, fleft>>

EnrollExpires ==
  /\ FUse("day") /\ agent # None /\ agent.enroll # 0 /\ agent.valid
  /\ agent' = [agent EXCEPT !.valid = FALSE] /\ voided' = Replaced
  /\ UNCHANGED <<server, calib, daily, today, maint, listeners, reserved, calls, stamp, enrolled>>

(* agentEnroll: an installation presents the token; found and not expired, ... *)
AgentEnroll ==
  /\ FUse("enroll") /\ agent # None /\ agent.enroll # 0 /\ agent.valid
  /\ Call([op |-> "enroll", t |-> agent.enroll, id |-> stamp]) /\ stamp' = stamp + 1
  /\ UNCHANGED <<server, calib, daily, today, agent, maint, listeners, reserved, enrolled, voided>>

(* ... CompleteEnrollment swaps it for a permanent one. *)
EnrollUnchanged(c) == agent # None /\ agent.enroll = c.t /\ agent.valid
CompleteEnrollment(c) ==
  /\ c.op = "enroll" /\ Done(c) /\ stamp' = stamp + 1
  /\ IF EnrollUnchanged(c)
     THEN /\ agent' = [token |-> stamp, enroll |-> 0, valid |-> FALSE]
          /\ enrolled' = [t \in DOMAIN enrolled \cup {c.t} |->
                            IF t \notin DOMAIN enrolled THEN 1 ELSE IF t = c.t THEN enrolled[t] + 1 ELSE enrolled[t]]
     ELSE UNCHANGED <<agent, enrolled>>
  /\ UNCHANGED <<server, calib, daily, today, maint, listeners, reserved, voided, fleft>>

ResetAgentToken(c) ==
  /\ c.op = "reset" /\ Done(c)
  /\ agent' = IF agent = None THEN None ELSE [agent EXCEPT !.token = 0]
  /\ UNCHANGED <<server, calib, daily, today, maint, listeners, reserved, stamp, enrolled, voided, fleft>>

(* deleteServerTx: everything that belongs to the server goes with it. *)
DeleteServer(c) ==
  /\ c.op = "delete" /\ Done(c)
  /\ server' = None /\ calib' = None /\ agent' = None /\ maint' = FALSE
  /\ listeners' = [r \in Resources |-> 0] /\ reserved' = {}
  /\ UNCHANGED <<daily, today, stamp, enrolled, voided, fleft>>

MaintenanceJob ==
  /\ FUse("job") /\ server # None /\ maint' = ~maint
  /\ UNCHANGED <<server, calib, daily, today, agent, listeners, reserved, calls, stamp, enrolled, voided>>
-----------------------------------------------------------------------------
(* deployNode: UsedListenPorts first, then AllocatePort or the port asked for. *)
UsedListenPorts == {x.port : x \in reserved}
AllocatePort == FleetPorts \ UsedListenPorts
DeployNode ==
  /\ FUse("port") /\ server # None
  /\ \E n \in {"n1", "n2"}, p \in AllocatePort :
       listeners[n] = 0 /\ Call([op |-> "deploy", r |-> n, p |-> p])
  /\ UNCHANGED <<server, calib, daily, today, agent, maint, listeners, reserved, stamp, enrolled, voided>>

(* The trigger listener_reservation_conflict *)
PortFree(r, p) == ~\E x \in reserved : x.port = p /\ x.res # r

(* createNode inserts the row and, by trigger, the reservation; without the
   server the foreign key refuses it. *)
CreateNode(c) ==
  /\ c.op = "deploy" /\ Done(c)
  /\ IF server # None /\ listeners[c.r] = 0 /\ PortFree(c.r, c.p)
     THEN /\ listeners' = [listeners EXCEPT ![c.r] = c.p]
          /\ reserved' = reserved \cup {[res |-> c.r, port |-> c.p]}
     ELSE UNCHANGED <<listeners, reserved>>
  /\ UNCHANGED <<server, calib, daily, today, agent, maint, stamp, enrolled, voided, fleft>>

(* A port forward asks for its port in the transaction that reserves it; an
   edit of it adds the new port and keeps the old one until the agent's
   receipt. *)
ReserveForward ==
  /\ FUse("port") /\ server # None
  /\ \E p \in FleetPorts : /\ PortFree("f", p) /\ p # listeners["f"]
                           /\ listeners' = [listeners EXCEPT !["f"] = p]
                           /\ reserved' = reserved \cup {[res |-> "f", port |-> p]}
  /\ UNCHANGED <<server, calib, daily, today, agent, maint, calls, stamp, enrolled, voided>>

ReleaseForward ==
  /\ \E x \in reserved : x.res = "f" /\ x.port # listeners["f"] /\ reserved' = reserved \ {x}
  /\ UNCHANGED <<server, calib, daily, today, agent, maint, listeners, calls, stamp, enrolled, voided, fleft>>

(* DeleteNode, and the trigger listener_node_delete *)
RemoveNode ==
  /\ FUse("port")
  /\ \E n \in {"n1", "n2"} :
       /\ listeners[n] # 0 /\ listeners' = [listeners EXCEPT ![n] = 0]
       /\ reserved' = {x \in reserved : x.res # n}
  /\ UNCHANGED <<server, calib, daily, today, agent, maint, calls, stamp, enrolled, voided>>

FleetNext ==
  \/ HeartbeatTraffic \/ NewDay \/ UpdateServer \/ RequireNoMaintenance \/ EnrollExpires \/ AgentEnroll
  \/ MaintenanceJob \/ DeployNode \/ ReserveForward \/ ReleaseForward \/ RemoveNode
  \/ \E c \in calls :
       \/ QuotaRow(c) \/ QuotaCalibration(c) \/ QuotaSum(c) \/ QuotaAgain(c) \/ QuotaCompare(c)
       \/ DisableServer(c) \/ UpdateServerWithCalibration(c) \/ SetAgentEnrollToken(c)
       \/ CompleteEnrollment(c) \/ ResetAgentToken(c) \/ DeleteServer(c) \/ CreateNode(c)

FleetSpec == FleetInit /\ [][FleetNext]_fleetVars
-----------------------------------------------------------------------------
(* When a heartbeat switches a server off, it is over its quota at that very
   moment: by the row, the calibration and the period that hold now, whatever
   changed while the check was reading (checkServerQuota). *)
QuotaJustified ==
  (server # None /\ server' # None /\ server.on /\ ~server'.on /\ server'.by = "quota")
    => /\ server.quota > 0
       /\ Billed(Sum2(WindowStart(today, server.reset), today), Calibration(today, server.reset)) >= server.quota

(* An enrolment token registers one agent, however many installations present
   it at once, and none after it was replaced or had expired. *)
EnrolledOnce ==
  /\ \A t \in DOMAIN enrolled : enrolled[t] = 1
  /\ agent # None => agent.enroll \notin DOMAIN enrolled
NeverRevived == \A t \in voided : (t \in DOMAIN enrolled') => t \in DOMAIN enrolled

(* No two listeners of a server share a port, and every listener has its
   reservation, also when deployments and forwards race. *)
PortsExclusive ==
  /\ \A r, s \in Resources : listeners[r] # 0 /\ listeners[r] = listeners[s] => r = s
  /\ \A r \in Resources : listeners[r] # 0 => [res |-> r, port |-> listeners[r]] \in reserved

(* Nothing is left of a deleted server, and no late request brings it back. *)
NothingOrphaned ==
  server = None => agent = None /\ calib = None /\ reserved = {} /\ \A r \in Resources : listeners[r] = 0

FleetState == EnrolledOnce /\ PortsExclusive /\ NothingOrphaned

(* Every step of a heartbeat, an administrator, an installation or the
   calendar is justified as above and leads to a state as above. *)
FleetSafe == [][QuotaJustified /\ NeverRevived /\ FleetState']_fleetVars
=============================================================================
