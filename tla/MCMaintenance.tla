--------------------------- MODULE MCMaintenance ---------------------------
(* Instances of Maintenance for TLC: an OpenRC host with two jobs on which any
   one step fails, and a systemd host with pairs of faults. *)
EXTENDS Maintenance

Once(S) == [f \in FaultKinds |-> IF f \in S THEN 1 ELSE 0]

OpenRCHost ==
  [openrc |-> TRUE, actions |-> {}, attempts |-> 1, queued |-> 0, running |-> 0, confirm |-> 2,
   life |-> 1, jobs |-> 2, time |-> 1, versions |-> 1, max |-> Once({"step"})]
SystemdHost(faults) ==
  [openrc |-> FALSE, actions |-> {"uninstall"}, attempts |-> 2, queued |-> 0, running |-> 1,
   confirm |-> 1, life |-> 1, jobs |-> 1, time |-> 2, versions |-> 2, max |-> Once(faults)]

Hosts ==
  {OpenRCHost} \cup
  {SystemdHost(F) : F \in {{"step", "kill"}, {"crash", "launch"}, {"net", "foreign"},
                           {"step", "recover"}}}
=============================================================================
