---------------------------- MODULE Maintenance ----------------------------
(***************************************************************************)
(* Agent maintenance of one server: update or uninstall of the agent,      *)
(* requested by an administrator or queued by a heartbeat, claimed by the  *)
(* agent, admitted on the host under two file locks, and executed by an    *)
(* independent worker that stops the agent, replaces it, checks it and     *)
(* rolls it back.  The job lives twice: as a row of the controller and as  *)
(* status.json on the host; reports carry the second to the first.         *)
(*                                                                         *)
(* Time is counted in quarters of an hour.  A version stands for the       *)
(* SHA-256 of an agent binary.                                             *)
(***************************************************************************)
EXTENDS Integers, FiniteSets, SequencesExt

CONSTANTS
  None,        \* absence
  Profiles     \* the hosts, limits and bounds to start from

(* The vocabulary of rows, status files and workers. *)
Statuses == {"queued", "running", "succeeded", "failed", "rolled_back", "interrupted",
             "expired", "cancelled"}
Stages   == {"", "retryable", "confirmed", "dispatch"}
Mutating == {"preflight", "uninstall", "download", "prepare", "stop", "install", "start",
             "health", "rollback", "restore", "restart", "oldhealth"}
Steps    == Mutating \cup {"read", "lock", "finish", "report"}

(* Failures, jobs of a controller on the same host ("foreign"), and recoveries
   outside the admission lock ("recover"). *)
FaultKinds == {"step", "kill", "net", "crash", "launch", "foreign", "recover"}

ASSUME MaintenanceAssumption ==
  /\ None \notin Int
  /\ None \notin [status : Statuses, stage : Stages]   \* neither a status.json nor a worker
  /\ None \notin [pc : Steps, old : Int \cup {None}, status : Statuses, stage : Stages,
                   started : Int]
  /\ \A p \in Profiles :
       /\ p.openrc \in BOOLEAN /\ p.actions \subseteq {"update", "uninstall"}
       /\ \A b \in {p.queued, p.running, p.confirm, p.life, p.time} : b \in Nat
       /\ \A b \in {p.attempts, p.jobs, p.versions} : b \in Nat \ {0}
       /\ p.max \in [FaultKinds -> Nat]

VARIABLES
  now,      \* the clock
  spec,     \* the agent release the controller offers
  rows,     \* maintenance_jobs, in the order of their insertion
  server,   \* the server's record exists
  diag,     \* the agent binary of the last heartbeat
  hb,       \* the heartbeat handler that is running
  reports,  \* report requests: sent, or read by their handler
  agent,    \* the agent process: its binary (None: stopped) and its step
  bin,      \* the installed agent binary
  local,    \* status.json of every job
  work,     \* the workers
  lock,     \* agent-configuration.lock
  rec,      \* the job that a Recover outside the admission lock has read
  foreign,  \* a controller job is active on this host
  touched,  \* history: jobs that stopped or replaced the agent
  count     \* the profile, and what has happened of each kind

db   == <<spec, rows, server, diag>>
host == <<bin, local, work, lock, rec, foreign, touched>>
vars == <<now, db, hb, reports, agent, host, count>>

OpenRC      == count.prof.openrc     \* the host runs OpenRC instead of systemd
Actions     == count.prof.actions    \* bound: what administrators ask for
MaxAttempts == count.prof.attempts   \* executions of one target that the automatic update allows
QueuedTTL   == count.prof.queued     \* the code's time limits
RunningTTL  == count.prof.running
ConfirmAge  == count.prof.confirm
WorkerLife  == count.prof.life
MaxTime     == count.prof.time       \* bounds: time, rows, releases the controller offers
MaxJobs     == count.prof.jobs
MaxVersion  == count.prof.versions

Jobs == 1..MaxJobs

AgentOwner == 0   \* the lock's owner is the agent, or the worker of a job

Fault(f) == count.used[f] < count.prof.max[f] /\ count' = [count EXCEPT !.used[f] = @ + 1]

Active(j) == j.status \in {"queued", "running"}

NoCall == [pc |-> "idle", sha |-> 0]

Init ==
  /\ count \in {[prof |-> p, used |-> [f \in FaultKinds |-> 0]] : p \in Profiles}
  /\ now = 0 /\ spec = 1 /\ rows = <<>> /\ server = TRUE /\ diag = 0
  /\ hb = NoCall /\ reports = {}
  /\ agent = [bin |-> 0, pc |-> "idle", job |-> None] /\ bin = 0
  /\ local = [j \in Jobs |-> None] /\ work = [j \in Jobs |-> None]
  /\ lock = None /\ rec = None /\ foreign = FALSE /\ touched = {}

-----------------------------------------------------------------------------
(* The rows.  ExpireMaintenance runs before every use of them. *)
ExpiredRow(r) ==
  IF r.status = "queued" /\ now - r.created > QueuedTTL
  THEN [r EXCEPT !.status = "expired", !.updated = now]
  ELSE IF r.status = "running" /\ now - r.updated > RunningTTL
  THEN [r EXCEPT !.status = "interrupted", !.updated = now]
  ELSE r

Expired(rs) == [i \in DOMAIN rs |-> ExpiredRow(rs[i])]

ActiveRows(rs) == {i \in DOMAIN rs : Active(rs[i])}

(* cancelObsoleteAgentUpdate. *)
Obsolete(r) == r.status = "queued" /\ r.action = "update" /\ r.sha # spec

Cancelled(rs) ==
  [i \in DOMAIN rs |->
     IF Obsolete(rs[i]) THEN [rs[i] EXCEPT !.status = "cancelled", !.updated = now]
     ELSE rs[i]]

OfTarget(rs, v) == {i \in DOMAIN rs : rs[i].action = "update" /\ rs[i].sha = v}

LastOf(S) == CHOOSE i \in S : \A k \in S : k <= i

(* AgentUpdateAttempts: executions since the last success. *)
AttemptsAll(rs, v) == 0    \* mutant: no budget
Attempts(rs, v) ==
  Cardinality({i \in OfTarget(rs, v) :
    /\ rs[i].status \notin {"expired", "cancelled"}
    /\ \A k \in OfTarget(rs, v) : rs[k].status = "succeeded" => k < i})

(* The cases of queueAutomaticAgentUpdate.  The backoff of one and five
   minutes is below the model's clock. *)
MayRetry(rs, v) ==
  LET mine == OfTarget(rs, v)
      last == rs[LastOf(mine)]
  IN  /\ mine # {} => \/ last.status \in {"succeeded", "expired", "cancelled"}
                      \/ last.status = "failed" /\ last.stage = "retryable"
      /\ Attempts(rs, v) < MaxAttempts

NewRow(action, sha, del, auto) ==
  [status |-> "queued", stage |-> "", action |-> action, sha |-> sha, prev |-> diag,
   del |-> del, auto |-> auto, created |-> now, updated |-> now]

(* CreateMaintenance: the index admits one active job per server. *)
Created(rs, r) == IF ActiveRows(rs) = {} /\ Len(rs) < MaxJobs THEN Append(rs, r) ELSE rs

Automatic(rs) ==
  LET c == Cancelled(rs)
  IN  IF ActiveRows(c) = {} /\ MayRetry(c, spec)
      THEN Created(c, NewRow("update", spec, FALSE, TRUE)) ELSE c

(* startAgentMaintenance. *)
Request(action, del) ==
  /\ server /\ action \in Actions /\ Len(rows) < MaxJobs
  /\ del => action = "uninstall"
  /\ rows' = Created(Expired(rows),
               NewRow(action, IF action = "update" THEN spec ELSE None, del, FALSE))
  /\ UNCHANGED <<now, spec, server, diag, hb, reports, agent, host, count>>

(* The controller is upgraded and offers another agent. *)
NewRelease ==
  /\ spec < MaxVersion /\ spec' = spec + 1
  /\ UNCHANGED <<now, rows, server, diag, hb, reports, agent, host, count>>

(* serverMaintenance and requireNoMaintenance also expire rows. *)
Expire ==
  /\ Expired(rows) # rows /\ rows' = Expired(rows)
  /\ UNCHANGED <<now, spec, server, diag, hb, reports, agent, host, count>>

-----------------------------------------------------------------------------
(* A heartbeat: the handler stores the reported binary, confirms, queues and
   answers in transactions of their own, even when nobody waits any more. *)
Heartbeat ==
  /\ server /\ agent.bin # None /\ agent.pc = "idle" /\ hb.pc = "idle"
  /\ agent' = [agent EXCEPT !.pc = "wait"]
  /\ diag' = agent.bin /\ hb' = [pc |-> "reconcile", sha |-> agent.bin]
  /\ UNCHANGED <<now, spec, rows, server, reports, host, count>>

(* reconcileAgentMaintenance. *)
Confirms(rs, i) ==
  /\ i = LastOf(OfTarget(rs, hb.sha)) /\ rs[i].status = "interrupted"
  /\ rs[i].prev # hb.sha /\ now - rs[i].created > ConfirmAge

Reconcile ==
  /\ hb.pc = "reconcile" /\ hb' = [hb EXCEPT !.pc = "queue"]
  /\ LET rs == Expired(rows)
     IN  rows' = [i \in DOMAIN rs |->
                    IF i \in OfTarget(rs, hb.sha) /\ Confirms(rs, i)
                    THEN [rs[i] EXCEPT !.status = "succeeded", !.stage = "confirmed",
                                       !.updated = now]
                    ELSE rs[i]]
  /\ UNCHANGED <<now, spec, server, diag, reports, agent, host, count>>

QueueAutomatic ==
  /\ hb.pc = "queue" /\ hb' = [hb EXCEPT !.pc = "next"]
  /\ rows' = IF hb.sha # spec THEN Automatic(Expired(rows)) ELSE rows
  /\ UNCHANGED <<now, spec, server, diag, reports, agent, host, count>>

(* nextAgentMaintenance; a waiting agent receives the active job, any other
   answer lets it configure. *)
Next1(rs) ==
  IF \E i \in ActiveRows(rs) : Obsolete(rs[i])
  THEN IF diag # spec THEN Automatic(rs) ELSE Cancelled(rs)
  ELSE rs

Answer ==
  /\ hb.pc = "next" /\ hb' = NoCall
  /\ rows' = Next1(Expired(rows))
  /\ agent' = IF agent.pc # "wait" THEN agent
              ELSE IF ActiveRows(rows') = {} THEN [agent EXCEPT !.pc = "configure"]
              ELSE [agent EXCEPT !.pc = "claim", !.job = LastOf(ActiveRows(rows'))]
  /\ UNCHANGED <<now, spec, server, diag, reports, host, count>>

(* The agent gives up waiting; the handler goes on. *)
HeartbeatLost ==
  /\ agent.pc = "wait" /\ Fault("net") /\ agent' = [agent EXCEPT !.pc = "idle"]
  /\ UNCHANGED <<now, db, hb, reports, host>>

-----------------------------------------------------------------------------
(* claimMaintenance: a fresh claim, so that a delayed command is refused. *)
ClaimableAny(r) == TRUE       \* mutant: the claim is not checked
Claimable(r) == Active(r) /\ (r.action = "update" => r.sha = spec)

ClaimedRow(r) ==
  IF r.status = "queued" /\ Claimable(r)
  THEN [r EXCEPT !.status = "running", !.updated = now]
  ELSE IF Obsolete(r) THEN [r EXCEPT !.status = "cancelled", !.updated = now] ELSE r

(* The agent process: gone, or just started by its service manager. *)
Gone     == [bin |-> None, pc |-> "idle", job |-> None]
Fresh(v) == IF v = None THEN Gone
            ELSE [bin |-> v, pc |-> IF OpenRC THEN "boot" ELSE "idle", job |-> None]

IdleKeepsJob == [agent EXCEPT !.pc = "idle"]   \* mutant: the command is not dropped
Idle == [agent EXCEPT !.pc = "idle", !.job = None]

Claim ==
  /\ agent.pc = "claim"
  /\ LET rs == Expired(rows)
         r  == rs[agent.job]
     IN  /\ rows' = [rs EXCEPT ![agent.job] = ClaimedRow(r)]
         /\ \/ /\ agent' = IF Claimable(r) THEN [agent EXCEPT !.pc = "start"] ELSE Idle
               /\ UNCHANGED count
            \/ Fault("net") /\ agent' = Idle
  /\ UNCHANGED <<now, spec, server, diag, hb, reports, host>>

Report(j, l) == [job |-> j, status |-> l.status, stage |-> l.stage, seen |-> None]

Send(m) == reports' = reports \cup {m} /\ agent' = [agent EXCEPT !.pc = "report"]

(* Manager.Start under the admission lock.  Recover, which skips jobs younger
   than a minute, may first interrupt jobs whose worker is gone. *)
Stale == {j \in Jobs : local[j] # None /\ Active(local[j]) /\ work[j] = None}

Interrupted(S) ==
  [j \in Jobs |-> IF j \in S THEN [status |-> "interrupted", stage |-> ""] ELSE local[j]]

ActiveLocal(l) == {j \in Jobs : l[j] # None /\ Active(l[j])}

Worker(pc) == [pc |-> pc, old |-> None, status |-> "running", stage |-> "", started |-> now]

Undispatched == [status |-> "failed", stage |-> "dispatch"]

Launch(j, l) ==
  \/ /\ local' = [l EXCEPT ![j] = [status |-> "queued", stage |-> ""]]
     /\ work' = [work EXCEPT ![j] = Worker("read")]
     /\ agent' = Idle /\ UNCHANGED <<reports, count>>
  \/ /\ Fault("launch")         \* refused before or after the job was saved
     /\ local' \in {l, [l EXCEPT ![j] = Undispatched]}
     /\ Send(Report(j, Undispatched)) /\ work' = work
  \/ /\ Fault("crash")          \* the agent dies before the worker is launched
     /\ local' = [l EXCEPT ![j] = [status |-> "queued", stage |-> ""]]
     /\ agent' = Fresh(bin) /\ UNCHANGED <<work, reports>>

Start ==
  /\ agent.pc = "start"
  /\ LET j == agent.job IN \E S \in SUBSET Stale :
       LET l == Interrupted(S)
       IN  \/ /\ l[j] # None    \* delivered again: a result is reported again
              /\ IF Active(l[j]) THEN agent' = Idle /\ reports' = reports
                 ELSE Send(Report(j, l[j]))
              /\ local' = l /\ UNCHANGED <<work, count>>
           \/ /\ l[j] = None    \* busy: the next heartbeat retries
              /\ ActiveLocal(l) # {} \/ foreign \/ lock # None
              /\ local' = l /\ agent' = Idle /\ UNCHANGED <<work, reports, count>>
           \/ /\ l[j] = None /\ ActiveLocal(l) = {} /\ ~foreign /\ lock = None
              /\ Launch(j, l)
  /\ UNCHANGED <<now, db, hb, bin, lock, rec, foreign, touched>>

(* The agent waits for the answer to its report, or gives up. *)
Reported ==
  /\ agent.pc = "report" /\ agent' = Idle
  /\ \/ (\A m \in reports : m.job = agent.job => Active(m)) /\ UNCHANGED count
     \/ Fault("net")
  /\ UNCHANGED <<now, db, hb, reports, host>>

(* A controller on the same host is maintained: same admission, other role. *)
BeginForeign ==
  /\ ~foreign /\ ActiveLocal(local) = {} /\ Fault("foreign") /\ foreign' = TRUE
  /\ UNCHANGED <<now, db, hb, reports, agent, bin, local, work, lock, rec, touched>>

EndForeign ==
  /\ foreign /\ foreign' = FALSE
  /\ UNCHANGED <<now, db, hb, reports, agent, bin, local, work, lock, rec, touched, count>>

(* Recover outside the lock (every heartbeat, every status request): the file
   is read first and overwritten after the unit was found inactive. *)
RecoverRead(j) ==
  /\ rec = None /\ local[j] # None /\ Active(local[j]) /\ rec' = j
  /\ Fault("recover")
  /\ UNCHANGED <<now, db, hb, reports, agent, bin, local, work, lock, foreign, touched>>

RecoverWrite ==
  /\ rec # None /\ rec' = None
  /\ local' = IF work[rec] = None THEN Interrupted({rec}) ELSE local
  /\ UNCHANGED <<now, db, hb, reports, agent, bin, work, lock, foreign, touched, count>>

(* ConfigurationLock: refused while an agent job is active on this host. *)
FreeToConfigureLock == lock = None     \* mutant: the durable state is not read
FreeToConfigure == lock = None /\ ActiveLocal(local) = {}

Configure ==
  /\ agent.pc = "configure"
  /\ IF FreeToConfigure
     THEN lock' = AgentOwner /\ agent' = [agent EXCEPT !.pc = "apply"]
     ELSE lock' = lock /\ agent' = Idle
  /\ UNCHANGED <<now, db, hb, reports, bin, local, work, rec, foreign, touched, count>>

Configured ==
  /\ agent.pc = "apply" /\ lock' = None /\ agent' = Idle
  /\ UNCHANGED <<now, db, hb, reports, bin, local, work, rec, foreign, touched, count>>

-----------------------------------------------------------------------------
(* Manager.Run, one action per step.  Every stage is saved and reported once;
   the result is reported again until it is accepted. *)
Stage(j, status, stage) ==
  /\ local' = [local EXCEPT ![j] = [status |-> status, stage |-> stage]]
  /\ reports' = reports \cup {Report(j, local'[j])}

Silent == UNCHANGED <<local, reports>>

To(j, pc) == work' = [work EXCEPT ![j].pc = pc]

FinishRetryable(j, status, stage) ==    \* mutant: every failure may be retried
  work' = [work EXCEPT ![j] = [@ EXCEPT !.pc = "finish", !.status = status,
                                        !.stage = "retryable"]]
Finish(j, status, stage) ==
  work' = [work EXCEPT ![j] = [@ EXCEPT !.pc = "finish", !.status = status, !.stage = stage]]

Free(j) == lock' = IF lock = j THEN None ELSE lock

At(j, pc) == work[j] # None /\ work[j].pc = pc

WorkerRead(j) ==
  /\ At(j, "read") /\ Silent
  /\ IF Active(local[j]) THEN To(j, "lock") ELSE work' = [work EXCEPT ![j] = None]
  /\ UNCHANGED <<now, db, hb, agent, bin, lock, rec, foreign, touched, count>>

WorkerLock(j) ==
  /\ At(j, "lock")
  /\ IF lock = None
     THEN lock' = j /\ Stage(j, "running", "") /\ To(j, "preflight")
     ELSE lock' = lock /\ Stage(j, "failed", "") /\ work' = [work EXCEPT ![j] = None]
  /\ UNCHANGED <<now, db, hb, agent, bin, rec, foreign, touched, count>>

Preflight(j) ==
  /\ At(j, "preflight")
  /\ \/ /\ Stage(j, "running", "") /\ lock' = lock /\ UNCHANGED count
        /\ To(j, IF rows[j].action = "uninstall" THEN "uninstall" ELSE "download")
     \/ Fault("step") /\ Silent /\ Free(j) /\ Finish(j, "failed", "")
  /\ UNCHANGED <<now, db, hb, agent, bin, rec, foreign, touched>>

Uninstall(j) ==
  /\ At(j, "uninstall") /\ Silent /\ Free(j) /\ touched' = touched \cup {j}
  /\ \/ /\ agent' = Gone /\ bin' = None /\ Finish(j, "succeeded", "") /\ UNCHANGED count
     \/ /\ Fault("step") /\ Finish(j, "failed", "") /\ bin' = bin
        /\ agent' \in {agent, Gone}
  /\ UNCHANGED <<now, db, hb, rec, foreign>>

(* Only a transport failure may be retried. *)
DownloadFailure == {"", "retryable"}

Download(j) ==
  /\ At(j, "download") /\ Silent
  /\ \/ To(j, "prepare") /\ lock' = lock /\ UNCHANGED count
     \/ /\ Fault("step") /\ Free(j)
        /\ \E stage \in DownloadFailure : Finish(j, "failed", stage)
  /\ UNCHANGED <<now, db, hb, agent, bin, rec, foreign, touched>>

(* Verification, compatibility, backup and recovery point. *)
Prepare(j) ==
  /\ At(j, "prepare")
  /\ \/ /\ Stage(j, "running", "") /\ lock' = lock /\ UNCHANGED count
        /\ work' = [work EXCEPT ![j] = [@ EXCEPT !.pc = "stop", !.old = bin]]
     \/ Fault("step") /\ Silent /\ Free(j) /\ Finish(j, "failed", "")
  /\ UNCHANGED <<now, db, hb, agent, bin, rec, foreign, touched>>

(* Stopping kills the agent.  On OpenRC it takes two commands, and the second
   may fail when the first has stopped the agent. *)
Stop(j) ==
  /\ At(j, "stop") /\ Silent
  /\ \/ /\ agent' = Gone /\ touched' = touched \cup {j} /\ To(j, "install")
        /\ lock' = lock /\ UNCHANGED count
     \/ /\ Fault("step") /\ Free(j) /\ Finish(j, "failed", "")
        /\ agent' \in {agent} \cup (IF OpenRC THEN {Gone} ELSE {})
        /\ touched' = IF agent' = agent THEN touched ELSE touched \cup {j}
  /\ UNCHANGED <<now, db, hb, bin, rec, foreign>>

(* On OpenRC the lock is released before the agent starts: it takes the lock
   itself to refresh its helpers. *)
ReleaseNever(j) == lock' = lock        \* mutant
Release(j) == IF OpenRC THEN Free(j) ELSE lock' = lock

(* A failed installation leaves the old file, or on OpenRC the new file with
   the old service script. *)
Failed(v) == IF OpenRC THEN {bin, v} ELSE {bin}

InstallOnly(j) ==                      \* mutant: a failure is not rolled back
  /\ At(j, "install")
  /\ \/ bin' = rows[j].sha /\ Release(j) /\ To(j, "start") /\ UNCHANGED count
     \/ Fault("step") /\ bin' = bin /\ Free(j) /\ Finish(j, "failed", "")
  /\ Silent /\ UNCHANGED <<now, db, hb, agent, rec, foreign, touched>>
Install(j) ==
  /\ At(j, "install") /\ Release(j)
  /\ \/ bin' = rows[j].sha /\ Silent /\ To(j, "start") /\ UNCHANGED count
     \/ /\ Fault("step") /\ Stage(j, "running", "") /\ To(j, "rollback")
        /\ bin' \in Failed(rows[j].sha)
  /\ UNCHANGED <<now, db, hb, agent, rec, foreign, touched>>

StartNew(j) ==
  /\ At(j, "start")
  /\ \/ agent' = Fresh(bin) /\ Silent /\ To(j, "health") /\ UNCHANGED count
     \/ Fault("step") /\ Stage(j, "running", "") /\ To(j, "rollback") /\ UNCHANGED agent
  /\ UNCHANGED <<now, db, hb, bin, lock, rec, foreign, touched>>

(* agentHealthy: the running file is the expected one and the agent is ready;
   an agent that waits for a held lock never is. *)
HealthyBooting(v) == agent.bin = v     \* mutant: readiness is not asked for
Healthy(v) == agent.bin = v /\ agent.pc # "boot"
Stuck      == agent.pc = "boot" /\ lock # None
Unhealthy(v) == IF Stuck \/ agent.bin # v THEN UNCHANGED count ELSE Fault("step")

Health(j) ==
  /\ At(j, "health")
  /\ \/ Healthy(rows[j].sha) /\ Silent /\ Free(j) /\ Finish(j, "succeeded", "") /\ UNCHANGED count
     \/ /\ Unhealthy(rows[j].sha)
        /\ Stage(j, "running", "") /\ lock' = lock /\ To(j, "rollback")
  /\ UNCHANGED <<now, db, hb, agent, bin, rec, foreign, touched>>

Rollback(j) ==
  /\ At(j, "rollback") /\ Silent
  /\ \/ agent' = Gone /\ lock' = (IF lock = AgentOwner THEN None ELSE lock)
        /\ To(j, "restore") /\ UNCHANGED count
     \/ Fault("step") /\ Free(j) /\ Finish(j, "failed", "") /\ UNCHANGED agent
  /\ UNCHANGED <<now, db, hb, bin, rec, foreign, touched>>

Restore(j) ==
  /\ At(j, "restore") /\ Silent /\ lock \in {None, j}
  /\ \/ bin' = work[j].old /\ Release(j) /\ To(j, "restart") /\ UNCHANGED count
     \/ Fault("step") /\ bin' \in Failed(work[j].old) /\ Free(j) /\ Finish(j, "failed", "")
  /\ UNCHANGED <<now, db, hb, agent, rec, foreign, touched>>

StartOld(j) ==
  /\ At(j, "restart") /\ Silent
  /\ \/ agent' = Fresh(bin) /\ To(j, "oldhealth") /\ lock' = lock /\ UNCHANGED count
     \/ Fault("step") /\ Free(j) /\ Finish(j, "failed", "") /\ UNCHANGED agent
  /\ UNCHANGED <<now, db, hb, bin, rec, foreign, touched>>

OldHealth(j) ==
  /\ At(j, "oldhealth") /\ Silent /\ Free(j)
  /\ \/ Healthy(work[j].old) /\ Finish(j, "rolled_back", "") /\ UNCHANGED count
     \/ Unhealthy(work[j].old) /\ Finish(j, "failed", "")
  /\ UNCHANGED <<now, db, hb, agent, bin, rec, foreign, touched>>

Finished(j) ==
  /\ At(j, "finish") /\ Stage(j, work[j].status, work[j].stage) /\ To(j, "report")
  /\ UNCHANGED <<now, db, hb, agent, bin, lock, rec, foreign, touched, count>>

(* The result is sent again until the controller accepts it, thirty times at
   most. *)
Accepted(j) == rows[j].status \notin {"queued", "running", "interrupted"}

Resend(j) ==
  /\ At(j, "report") /\ ~Accepted(j)
  /\ reports' = reports \cup {Report(j, local[j])} /\ reports' # reports
  /\ UNCHANGED <<now, db, hb, agent, host, count>>

Exit(j) ==
  /\ At(j, "report") /\ work' = [work EXCEPT ![j] = None]
  /\ (Accepted(j) /\ UNCHANGED count) \/ Fault("net")
  /\ UNCHANGED <<now, db, hb, reports, agent, bin, local, lock, rec, foreign, touched>>

(* The worker is killed: out of memory, or RuntimeMaxSec. *)
Kill(j) ==
  /\ work[j] # None
  /\ Fault("kill") \/ (now - work[j].started >= WorkerLife /\ UNCHANGED count)
  /\ work' = [work EXCEPT ![j] = None] /\ Free(j)
  /\ UNCHANGED <<now, db, hb, reports, agent, bin, local, rec, foreign, touched>>

(* A new agent on OpenRC refreshes its helpers under the lock. *)
Boot ==
  /\ agent.pc = "boot" /\ lock = None /\ agent' = Idle
  /\ UNCHANGED <<now, db, hb, reports, host, count>>

(* The agent dies and its service manager restarts the installed file. *)
AgentCrash ==
  /\ agent.bin # None /\ Fault("crash") /\ agent' = Fresh(bin)
  /\ lock' = IF lock = AgentOwner THEN None ELSE lock
  /\ UNCHANGED <<now, db, hb, reports, bin, local, work, rec, foreign, touched>>

Reboot ==
  /\ Fault("crash") /\ agent' = Fresh(bin)
  /\ work' = [j \in Jobs |-> None] /\ lock' = None /\ rec' = None /\ foreign' = FALSE
  /\ UNCHANGED <<now, db, hb, reports, bin, local, touched>>

-----------------------------------------------------------------------------
(* reportMaintenance reads the row, then saves with the status it read. *)
ReadReport(m) ==
  /\ m \in reports /\ m.seen = None
  /\ reports' = (reports \ {m}) \cup {[m EXCEPT !.seen = rows[m.job].status]}
  /\ UNCHANGED <<now, db, hb, agent, host, count>>

OpenAny(m) == TRUE                     \* mutant: results are overwritten
Open(m) == m.seen \in {"queued", "running", "interrupted"}

(* SaveMaintenance: compare and swap, one active job per server. *)
Saves(m) ==
  /\ Open(m) /\ rows[m.job].status = m.seen
  /\ m.status = "running" => ActiveRows(rows) \subseteq {m.job}

SaveReport(m) ==
  /\ m \in reports /\ m.seen # None /\ reports' = reports \ {m}
  /\ rows' = IF Saves(m)
             THEN [rows EXCEPT ![m.job] = [@ EXCEPT !.status = m.status, !.stage = m.stage,
                                                    !.updated = now]]
             ELSE rows
  /\ server' = IF Saves(m) /\ rows[m.job].del /\ m.status = "succeeded" THEN FALSE ELSE server
  /\ UNCHANGED <<now, spec, diag, hb, agent, host, count>>

LoseReport(m) ==
  /\ m \in reports /\ m.seen = None /\ Fault("net") /\ reports' = reports \ {m}
  /\ UNCHANGED <<now, db, hb, agent, host>>

(* A worker never outlives its limit, a report is handled or lost and an
   accepted claim is acted on well within a quarter of an hour; an agent may
   sleep longer before it claims. *)
Tick ==
  /\ now < MaxTime /\ now' = now + 1 /\ reports = {} /\ agent.pc # "start"
  /\ \A j \in Jobs : work[j] # None => now - work[j].started < WorkerLife
  /\ UNCHANGED <<db, hb, reports, agent, host, count>>

-----------------------------------------------------------------------------
WorkerStep(j) ==
  \/ WorkerRead(j) \/ WorkerLock(j) \/ Preflight(j) \/ Uninstall(j) \/ Download(j)
  \/ Prepare(j) \/ Stop(j) \/ Install(j) \/ StartNew(j) \/ Health(j) \/ Rollback(j)
  \/ Restore(j) \/ StartOld(j) \/ OldHealth(j) \/ Finished(j)

AgentStep == Heartbeat \/ Claim \/ Start \/ Reported \/ Configure \/ Configured \/ Boot

Handlers == Reconcile \/ QueueAutomatic \/ Answer

Next ==
  \/ \E a \in Actions, d \in BOOLEAN : Request(a, d)
  \/ NewRelease \/ Expire \/ Tick
  \/ AgentStep \/ HeartbeatLost \/ Handlers \/ AgentCrash \/ Reboot
  \/ BeginForeign \/ EndForeign \/ RecoverWrite
  \/ \E j \in Jobs : RecoverRead(j) \/ WorkerStep(j) \/ Resend(j) \/ Exit(j) \/ Kill(j)
  \/ \E m \in reports : ReadReport(m) \/ SaveReport(m) \/ LoseReport(m)

Spec == Init /\ [][Next]_vars
-----------------------------------------------------------------------------
Versions == 0..MaxVersion
Row == [status : Statuses, stage : Stages, action : {"update", "uninstall"},
        sha : Versions \cup {None}, prev : Versions, del : BOOLEAN, auto : BOOLEAN,
        created : Nat, updated : Nat]
Status == [status : Statuses, stage : Stages]
WorkerType ==
  [pc : Steps, old : Versions \cup {None},
   status : Statuses, stage : Stages, started : Nat]

(* The shape of the rows, the host's files and the processes; no second job
   of the server is active (idx_maintenance_active). *)
TypeOK ==
  /\ now \in Nat /\ spec \in Versions /\ server \in BOOLEAN /\ diag \in Versions
  /\ rows \in Seq(Row) /\ Cardinality(ActiveRows(rows)) <= 1
  /\ hb \in [pc : {"idle", "reconcile", "queue", "next"}, sha : Versions]
  /\ reports \subseteq [job : Jobs, status : Statuses, stage : Stages,
                        seen : Statuses \cup {None}]
  /\ agent \in [bin : Versions \cup {None}, job : Jobs \cup {None},
                pc : {"idle", "boot", "wait", "claim", "start", "report", "configure",
                      "apply"}]
  /\ agent.job # None <=> agent.pc \in {"claim", "start", "report"}
  /\ bin \in Versions \cup {None}
  /\ local \in [Jobs -> Status \cup {None}] /\ work \in [Jobs -> WorkerType \cup {None}]
  /\ lock \in Jobs \cup {AgentOwner, None} /\ rec \in Jobs \cup {None}
  /\ foreign \in BOOLEAN /\ touched \subseteq Jobs

(* A job that the controller gave up before it was claimed was never admitted
   on the host, however late the command arrived (claimMaintenance). *)
GivenUpNeverRan ==
  \A j \in DOMAIN rows : rows[j].status \in {"expired", "cancelled"} => local[j] = None

(* The agent's binaries and files have one writer: two workers never execute
   at the same time, and configuration is never applied while one does, also
   on OpenRC where the worker lets go of the lock (configuration.go). *)
OneMutator ==
  \A j \in Jobs : work[j] # None /\ work[j].pc \in Mutating =>
    /\ agent.pc # "apply"
    /\ \A k \in Jobs \ {j} : work[k] = None \/ work[k].pc \notin Mutating

(* What the worker is about to save is true of the host: the new agent runs
   and is ready, the old one was put back and does, or the agent is gone
   (agentHealthy, uninstall). *)
Runs(v) == bin = v /\ agent.bin = v /\ agent.pc # "boot"

OutcomeIsTrue ==
  \A j \in Jobs : At(j, "finish") =>
    CASE work[j].status = "rolled_back" -> Runs(work[j].old)
      [] work[j].status # "succeeded" -> TRUE
      [] rows[j].action = "update" -> Runs(rows[j].sha)
      [] OTHER -> agent.bin = None /\ bin = None

(* On systemd one failure of any step of an update never leaves the host
   without a running agent when the worker is done (updateAgent's rollback).
   On OpenRC the second command of a stop may fail after the first has ended
   the agent, and the job then fails without a rollback. *)
AgentSurvives ==
  ~OpenRC => \A j \in DOMAIN rows :
    At(j, "finish") /\ rows[j].action = "update" /\ count.used["step"] < 2 => agent.bin # None

(* Without a failure no update is rolled back: the agent that starts is never
   blocked by the worker that checks it. *)
NoSpuriousRollback ==
  count.used["step"] = 0 => \A j \in Jobs : ~At(j, "rollback") /\ ~At(j, "restore")

(* A result that the host saves as retryable has not touched the running
   agent, and a job that could not be dispatched has done nothing at all.  (A
   "dispatch" report that is delayed past the next delivery of the job may
   still reach the row of a job that did run.) *)
RetryIsHarmless ==
  \A j \in Jobs :
    local[j] # None /\ local[j].status = "failed" /\ local[j].stage # "" => j \notin touched

(* Automatic updates execute one target at most MaxAttempts times between two
   successes (queueAutomaticAgentUpdate). *)
BoundedRetries ==
  \A v \in Versions :
    Cardinality({j \in OfTarget(rows, v) :
      /\ rows[j].auto /\ local[j] # None
      /\ \A k \in OfTarget(rows, v) : rows[k].status = "succeeded" => k < j}) <= MaxAttempts

(* Late or repeated reports, claims and expiry never change a final row. *)
TerminalIsFinal ==
  [][\A j \in DOMAIN rows :
       rows[j].status \in {"succeeded", "failed", "rolled_back", "expired", "cancelled"}
         => rows'[j].status = rows[j].status]_rows

(* One writer at a time, and the waiting for one another that this takes
   never turns a sound update into a rollback. *)
Exclusive == TypeOK /\ OneMutator /\ NoSpuriousRollback

(* What was given up has not run, and what is tried again has not touched the
   agent. *)
NothingTwice == GivenUpNeverRan /\ RetryIsHarmless

(* The host is as the result says, and it still has an agent. *)
ResultsTrue == OutcomeIsTrue /\ AgentSurvives

(* Repetition is bounded and harmless. *)
RetriesAreSafe == BoundedRetries /\ NothingTwice
=============================================================================
