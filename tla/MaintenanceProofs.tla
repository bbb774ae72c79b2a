-------------------------- MODULE MaintenanceProofs --------------------------
(***************************************************************************)
(* Proofs about Maintenance, for any host, limits, number of jobs, releases*)
(* and faults: the agent has one writer at a time, a final row stays as it *)
(* is, what was given up never runs, and retries are bounded and harmless. *)
(***************************************************************************)
EXTENDS Maintenance, FiniteSetTheorems, SequenceTheorems, TLAPS

-----------------------------------------------------------------------------
(* What a report can say; what a worker can end with. *)
Results     == {"succeeded", "failed", "rolled_back"}
Reportable  == Results \cup {"running", "interrupted"}
Final       == Results \cup {"expired", "cancelled"}
NotAdmitted == {"queued", "expired", "cancelled"}

(* The steps of a worker before it stops the agent. *)
Early == {"read", "lock", "preflight", "uninstall", "download", "prepare", "stop"}

OneActive(rs) == \A i, k \in ActiveRows(rs) : i = k

(* The rows that count against the automatic update of a target. *)
Tries(rs, v) ==
  {i \in OfTarget(rs, v) :
    /\ rs[i].auto /\ rs[i].status \notin {"expired", "cancelled"}
    /\ \A k \in OfTarget(rs, v) : rs[k].status = "succeeded" => k < i}

RowsOK(rs) ==
  /\ rs \in Seq(Row) /\ Len(rs) <= MaxJobs /\ OneActive(rs)
  /\ \A v \in Versions : Cardinality(Tries(rs, v)) <= MaxAttempts

(* What any step may do to a row: a final row keeps its status, and only a
   queued row is ever given up. *)
RowMoves(r, q) ==
  /\ q \in Row /\ q.action = r.action /\ q.sha = r.sha /\ q.auto = r.auto
  /\ r.status \in Final => q.status = r.status
  /\ r.status \notin NotAdmitted => q.status \notin NotAdmitted

Moves(rs, qs) ==
  DOMAIN rs \subseteq DOMAIN qs /\ \A i \in DOMAIN rs : RowMoves(rs[i], qs[i])

-----------------------------------------------------------------------------
AgentPcs == {"idle", "boot", "wait", "claim", "start", "report", "configure", "apply"}

Typed ==
  /\ now \in Nat /\ spec \in Versions /\ server \in BOOLEAN /\ diag \in Versions
  /\ hb \in [pc : {"idle", "reconcile", "queue", "next"}, sha : Versions]
  /\ reports \subseteq [job : Jobs, status : Reportable, stage : Stages,
                        seen : Statuses \cup {None}]
  /\ agent \in [bin : Versions \cup {None}, job : Jobs \cup {None}, pc : AgentPcs]
  /\ agent.job # None <=> agent.pc \in {"claim", "start", "report"}
  /\ bin \in Versions \cup {None}
  /\ local \in [Jobs -> [status : Reportable \cup {"queued"}, stage : Stages] \cup {None}]
  /\ work \in [Jobs -> WorkerType \cup {None}]
  /\ lock \in Jobs \cup {AgentOwner, None} /\ rec \in Jobs \cup {None}
  /\ foreign \in BOOLEAN /\ touched \subseteq Jobs
  /\ count \in [prof : Profiles, used : [FaultKinds -> Nat]]

(* The job is known to the controller, which no longer gives it up. *)
Admitted(j) == j \in DOMAIN rows /\ rows[j].status \notin NotAdmitted

(* status.json and the worker of one job. *)
WorkerOK(j) ==
  /\ work[j].pc # "report" => Active(local[j])
  /\ work[j].pc = "report" => local[j].status \in Results
  /\ work[j].pc = "finish" => /\ work[j].status \in Results
                              /\ work[j].stage # "" => j \notin touched
  /\ work[j].pc \in Early => j \notin touched
  /\ work[j].pc \in {"start", "health"} => bin = rows[j].sha /\ (OpenRC => lock = None)
  /\ work[j].pc = "health" => agent.bin = bin
  /\ work[j].pc \in {"rollback", "restore"} => count.used["step"] # 0

JobOK(j) ==
  /\ local[j] # None => Admitted(j)
  /\ local[j] = None => work[j] = None /\ j \notin touched
  /\ local[j] # None /\ local[j].status = "failed" /\ local[j].stage # "" => j \notin touched
  /\ work[j] # None => WorkerOK(j)

(* One active job on the host, which keeps the agent from configuring. *)
Single ==
  /\ \A j, k \in ActiveLocal(local) : j = k
  /\ agent.pc = "apply" => ActiveLocal(local) = {}

Locked ==
  /\ lock = AgentOwner => agent.pc = "apply"
  /\ lock \in Jobs => work[lock] # None /\ work[lock].pc \in Mutating
  /\ agent.pc = "boot" => OpenRC

(* Commands and reports name jobs of the controller. *)
Known ==
  /\ agent.pc \in {"claim", "start", "report"} => agent.job \in DOMAIN rows
  /\ agent.pc \in {"start", "report"} => Admitted(agent.job)
  /\ \A m \in reports : m.job \in DOMAIN rows

(* Recover has read a status file. *)
RecOK(r) == r \in Jobs \cup {None} /\ (r # None => local[r] # None)

MaintenanceInv ==
  /\ RowsOK(rows) /\ Typed /\ Single /\ Locked /\ Known /\ RecOK(rec)
  /\ \A j \in Jobs : JobOK(j)

-----------------------------------------------------------------------------
(* The rows. *)
LEMMA ProfileFacts ==
  ASSUME Typed
  PROVE  /\ MaxJobs \in Nat \ {0} /\ MaxVersion \in Nat \ {0} /\ MaxAttempts \in Nat \ {0}
         /\ OpenRC \in BOOLEAN /\ Actions \subseteq {"update", "uninstall"}
         /\ None \notin Jobs /\ None \notin Versions /\ Jobs \subseteq Nat \ {0}
         /\ Versions \subseteq Nat
<1>1. count.prof \in Profiles
  BY DEF Typed
<1>2. /\ MaxJobs \in Nat \ {0} /\ MaxVersion \in Nat \ {0} /\ MaxAttempts \in Nat \ {0}
      /\ OpenRC \in BOOLEAN /\ Actions \subseteq {"update", "uninstall"}
  BY <1>1, MaintenanceAssumption DEF MaxJobs, MaxVersion, MaxAttempts, OpenRC, Actions
<1> QED  BY <1>2, MaintenanceAssumption DEF Jobs, Versions

LEMMA RowsFacts ==
  ASSUME NEW rs, rs \in Seq(Row)
  PROVE  /\ DOMAIN rs = 1..Len(rs) /\ Len(rs) \in Nat /\ rs \in [1..Len(rs) -> Row]
         /\ \A i \in DOMAIN rs : rs[i] \in Row
  OBVIOUS

LEMMA SameLength ==
  ASSUME NEW rs, rs \in Seq(Row), NEW qs, qs \in [DOMAIN rs -> Row]
  PROVE  qs \in Seq(Row) /\ Len(qs) = Len(rs) /\ DOMAIN qs = DOMAIN rs
<1>1. DOMAIN rs = 1..Len(rs) /\ Len(rs) \in Nat
  BY RowsFacts
<1>2. qs \in [1..Len(rs) -> Row]
  BY <1>1
<1>3. qs \in Seq(Row)
  BY <1>1, <1>2, SeqDef
<1> QED  BY <1>1, <1>2, <1>3, LenProperties

(* Rows that only move keep every bound. *)
LEMMA MovedRows ==
  ASSUME NEW rs, NEW qs, RowsOK(rs), MaxAttempts \in Nat, qs \in [DOMAIN rs -> Row],
         Moves(rs, qs), OneActive(qs)
  PROVE  RowsOK(qs)
<1>1. /\ qs \in Seq(Row) /\ Len(qs) = Len(rs) /\ DOMAIN qs = DOMAIN rs
      /\ rs \in Seq(Row) /\ Len(rs) \in Nat /\ DOMAIN rs = 1..Len(rs)
  BY SameLength, RowsFacts DEF RowsOK
<1>2. ASSUME NEW v \in Versions PROVE Cardinality(Tries(qs, v)) <= MaxAttempts
  <2>1. Tries(qs, v) \subseteq Tries(rs, v)
    <3> SUFFICES ASSUME NEW i \in Tries(qs, v) PROVE i \in Tries(rs, v)
      OBVIOUS
    <3>1. ASSUME NEW k \in DOMAIN rs
          PROVE  /\ k \in OfTarget(rs, v) <=> k \in OfTarget(qs, v)
                 /\ qs[k].auto = rs[k].auto
                 /\ rs[k].status \in {"succeeded", "expired", "cancelled"} =>
                      qs[k].status = rs[k].status
      BY <1>1 DEF OfTarget, Moves, RowMoves, Final, Results
    <3>2. i \in DOMAIN rs /\ OfTarget(rs, v) \subseteq DOMAIN rs
      BY <1>1 DEF Tries, OfTarget
    <3> QED  BY <3>1, <3>2 DEF Tries
  <2>2. Tries(rs, v) \subseteq 1..Len(rs)
    BY <1>1 DEF Tries, OfTarget
  <2>3. IsFiniteSet(Tries(rs, v))
    <3>1. IsFiniteSet(1..Len(rs))
      BY <1>1, FS_Interval
    <3> QED  BY <2>2, <3>1, FS_Subset
  <2>4. /\ Cardinality(Tries(qs, v)) <= Cardinality(Tries(rs, v))
        /\ Cardinality(Tries(qs, v)) \in Nat /\ Cardinality(Tries(rs, v)) \in Nat
    BY <2>1, <2>3, FS_Subset, FS_CardinalityType
  <2> QED  BY <2>4 DEF RowsOK
<1> QED  BY <1>1, <1>2 DEF RowsOK

LEMMA MovesTransitive ==
  ASSUME NEW rs, NEW qs, NEW ts, Moves(rs, qs), Moves(qs, ts)
  PROVE  Moves(rs, ts)
<1> SUFFICES ASSUME NEW i \in DOMAIN rs PROVE RowMoves(rs[i], ts[i])
  BY DEF Moves
<1>1. RowMoves(rs[i], qs[i]) /\ RowMoves(qs[i], ts[i])
  BY DEF Moves
<1> QED  BY <1>1 DEF RowMoves

LEMMA RowStays ==
  ASSUME NEW r \in Row
  PROVE  RowMoves(r, r)
  BY DEF RowMoves

(* A new status for a row that is not final. *)
LEMMA RowGets ==
  ASSUME NEW r \in Row, NEW q, NEW st \in Statuses, NEW sg \in Stages, NEW t \in Nat,
         q = [r EXCEPT !.status = st, !.stage = sg, !.updated = t],
         r.status \notin Final, r.status # "queued" => st \notin NotAdmitted
  PROVE  RowMoves(r, q) /\ q.status = st
  BY DEF RowMoves, Row, NotAdmitted

LEMMA RowGetsStatus ==
  ASSUME NEW r \in Row, NEW q, NEW st \in Statuses, NEW t \in Nat,
         q = [r EXCEPT !.status = st, !.updated = t],
         r.status \notin Final, r.status # "queued" => st \notin NotAdmitted
  PROVE  RowMoves(r, q) /\ q.status = st
  BY DEF RowMoves, Row, NotAdmitted

(* A sequence whose rows move, none of them into activity. *)
LEMMA QuietRows ==
  ASSUME NEW rs, NEW qs, RowsOK(rs), MaxAttempts \in Nat, qs = [i \in DOMAIN rs |-> qs[i]],
         \A i \in DOMAIN rs : RowMoves(rs[i], qs[i]) /\ (Active(qs[i]) => Active(rs[i]))
  PROVE  RowsOK(qs) /\ Moves(rs, qs) /\ DOMAIN qs = DOMAIN rs /\ ActiveRows(qs) \subseteq ActiveRows(rs)
<1>1. DOMAIN qs = DOMAIN rs /\ Moves(rs, qs) /\ ActiveRows(qs) \subseteq ActiveRows(rs)
  BY DEF Moves, ActiveRows
<1>2. qs \in [DOMAIN rs -> Row]
  BY DEF RowMoves
<1>3. OneActive(qs)
  BY <1>1 DEF RowsOK, OneActive
<1> QED  BY <1>1, <1>2, <1>3, MovedRows

LEMMA ExpiredRows ==
  ASSUME NEW rs, RowsOK(rs), MaxAttempts \in Nat, now \in Nat
  PROVE  /\ RowsOK(Expired(rs)) /\ Moves(rs, Expired(rs))
         /\ DOMAIN Expired(rs) = DOMAIN rs /\ ActiveRows(Expired(rs)) \subseteq ActiveRows(rs)
<1> DEFINE qs == Expired(rs)
<1>1. \A i \in DOMAIN rs : rs[i] \in Row
  BY RowsFacts DEF RowsOK
<1>2. qs = [i \in DOMAIN rs |-> qs[i]] /\ \A i \in DOMAIN rs : qs[i] = ExpiredRow(rs[i])
  BY DEF Expired
<1>3. ASSUME NEW r \in Row
      PROVE  RowMoves(r, ExpiredRow(r)) /\ (Active(ExpiredRow(r)) => Active(r))
  <2>1. CASE r.status = "queued"
    BY <2>1, RowStays, RowGetsStatus DEF ExpiredRow, Final, Results, Statuses, Active
  <2>2. CASE r.status = "running"
    BY <2>2, RowStays, RowGetsStatus DEF ExpiredRow, Final, Results, Statuses, Active, NotAdmitted
  <2>3. CASE r.status \notin {"queued", "running"}
    BY <2>3, RowStays DEF ExpiredRow
  <2> QED  BY <2>1, <2>2, <2>3
<1> HIDE DEF qs
<1>4. RowsOK(qs) /\ Moves(rs, qs) /\ DOMAIN qs = DOMAIN rs /\ ActiveRows(qs) \subseteq ActiveRows(rs)
  BY <1>1, <1>2, <1>3, QuietRows
<1> QED  BY <1>4 DEF qs

LEMMA CancelledRows ==
  ASSUME NEW rs, RowsOK(rs), MaxAttempts \in Nat, now \in Nat
  PROVE  /\ RowsOK(Cancelled(rs)) /\ Moves(rs, Cancelled(rs))
         /\ DOMAIN Cancelled(rs) = DOMAIN rs
<1> DEFINE qs == Cancelled(rs)
<1>1. \A i \in DOMAIN rs : rs[i] \in Row
  BY RowsFacts DEF RowsOK
<1>2. qs = [i \in DOMAIN rs |-> qs[i]]
  BY DEF Cancelled
<1>3. ASSUME NEW i \in DOMAIN rs
      PROVE  RowMoves(rs[i], qs[i]) /\ (Active(qs[i]) => Active(rs[i]))
  <2>1. CASE Obsolete(rs[i])
    <3>1. rs[i].status = "queued" /\ qs[i] = [rs[i] EXCEPT !.status = "cancelled", !.updated = now]
      BY <2>1 DEF Obsolete, Cancelled
    <3> QED  BY <1>1, <3>1, RowGetsStatus DEF Final, Results, Statuses, Active
  <2>2. CASE ~Obsolete(rs[i])
    BY <1>1, <2>2, RowStays DEF Cancelled
  <2> QED  BY <2>1, <2>2
<1> HIDE DEF qs
<1>4. RowsOK(qs) /\ Moves(rs, qs) /\ DOMAIN qs = DOMAIN rs
  BY <1>2, <1>3, QuietRows
<1> QED  BY <1>4 DEF qs

(* A row is added when none is active; an automatic one within its budget. *)
LEMMA CreatedRows ==
  ASSUME NEW rs, NEW r \in Row, RowsOK(rs), MaxAttempts \in Nat, MaxJobs \in Nat,
         r.auto => r.action = "update" /\ Attempts(rs, r.sha) < MaxAttempts
  PROVE  RowsOK(Created(rs, r)) /\ Moves(rs, Created(rs, r))
<1>1. rs \in Seq(Row) /\ DOMAIN rs = 1..Len(rs) /\ Len(rs) \in Nat /\ \A i \in DOMAIN rs : rs[i] \in Row
  BY RowsFacts DEF RowsOK
<1>2. CASE ~(ActiveRows(rs) = {} /\ Len(rs) < MaxJobs)
  <2>1. Created(rs, r) = rs
    BY <1>2 DEF Created
  <2>2. Moves(rs, rs)
    BY <1>1, RowStays DEF Moves
  <2> QED  BY <2>1, <2>2
<1>3. CASE ActiveRows(rs) = {} /\ Len(rs) < MaxJobs
  <2> DEFINE n == Len(rs) + 1
  <2>1. PICK qs : qs = Append(rs, r)
    OBVIOUS
  <2>2. /\ Created(rs, r) = qs /\ qs \in Seq(Row) /\ Len(qs) = n /\ DOMAIN qs = 1..n
        /\ qs[n] = r /\ \A i \in DOMAIN rs : qs[i] = rs[i]
    BY <1>1, <1>3, <2>1 DEF Created
  <2>3. n \notin DOMAIN rs /\ n \in Nat /\ DOMAIN qs = DOMAIN rs \cup {n} /\ Len(qs) <= MaxJobs
    BY <1>1, <1>3, <2>2
  <2> HIDE DEF n
  <2>4. Moves(rs, qs)
    BY <1>1, <2>2, <2>3, RowStays DEF Moves
  <2>5. OneActive(qs)
    BY <1>3, <2>2, <2>3 DEF OneActive, ActiveRows
  <2>6. ASSUME NEW v \in Versions PROVE Cardinality(Tries(qs, v)) <= MaxAttempts
    <3>0. OfTarget(rs, v) \subseteq OfTarget(qs, v)
      BY <2>2, <2>3 DEF OfTarget
    <3>1. Tries(qs, v) \subseteq Tries(rs, v) \cup {n}
      <4> SUFFICES ASSUME NEW i \in Tries(qs, v), i # n PROVE i \in Tries(rs, v)
        OBVIOUS
      <4>1. i \in DOMAIN rs /\ i \in OfTarget(rs, v) /\ qs[i] = rs[i]
        BY <2>2, <2>3 DEF Tries, OfTarget
      <4>2. \A k \in OfTarget(rs, v) : k \in DOMAIN rs /\ qs[k] = rs[k]
        BY <2>2 DEF OfTarget
      <4> QED  BY <3>0, <4>1, <4>2 DEF Tries
    <3>2. Tries(rs, v) \subseteq 1..Len(rs)
      BY <1>1 DEF Tries, OfTarget
    <3>3. IsFiniteSet(1..Len(rs))
      BY <1>1, FS_Interval
    <3>4. IsFiniteSet(Tries(rs, v)) /\ Cardinality(Tries(rs, v)) \in Nat
      BY <3>2, <3>3, FS_Subset, FS_CardinalityType
    <3>5. CASE n \in Tries(qs, v)
      <4>1. r.auto /\ r.sha = v
        BY <2>2, <3>5 DEF Tries, OfTarget
      <4> DEFINE A == {i \in OfTarget(rs, v) :
                         /\ rs[i].status \notin {"expired", "cancelled"}
                         /\ \A k \in OfTarget(rs, v) : rs[k].status = "succeeded" => k < i}
      <4>2. Cardinality(A) < MaxAttempts
        BY <4>1 DEF Attempts
      <4>3. Tries(rs, v) \subseteq A /\ A \subseteq 1..Len(rs)
        BY <1>1 DEF Tries, OfTarget
      <4> HIDE DEF A
      <4>4. IsFiniteSet(A) /\ Cardinality(A) \in Nat /\ Cardinality(Tries(rs, v)) <= Cardinality(A)
        BY <3>3, <4>3, FS_Subset, FS_CardinalityType
      <4>5. /\ IsFiniteSet(Tries(rs, v) \cup {n})
            /\ Cardinality(Tries(rs, v) \cup {n}) <= Cardinality(Tries(rs, v)) + 1
        BY <3>4, FS_AddElement
      <4>6. /\ Cardinality(Tries(qs, v)) <= Cardinality(Tries(rs, v) \cup {n})
            /\ Cardinality(Tries(qs, v)) \in Nat /\ Cardinality(Tries(rs, v) \cup {n}) \in Nat
        BY <3>1, <4>5, FS_Subset, FS_CardinalityType
      <4> QED  BY <3>4, <4>2, <4>4, <4>5, <4>6
    <3>6. CASE n \notin Tries(qs, v)
      <4>1. Tries(qs, v) \subseteq Tries(rs, v)
        BY <3>1, <3>6
      <4>2. /\ Cardinality(Tries(qs, v)) <= Cardinality(Tries(rs, v))
            /\ Cardinality(Tries(qs, v)) \in Nat
        BY <3>4, <4>1, FS_Subset, FS_CardinalityType
      <4> QED  BY <3>4, <4>2 DEF RowsOK
    <3> QED  BY <3>5, <3>6
  <2> QED  BY <2>2, <2>3, <2>4, <2>5, <2>6 DEF RowsOK
<1> QED  BY <1>2, <1>3

LEMMA NewRowType ==
  ASSUME Typed, NEW a \in {"update", "uninstall"}, NEW v \in Versions \cup {None},
         NEW d \in BOOLEAN, NEW au \in BOOLEAN
  PROVE  /\ NewRow(a, v, d, au) \in Row /\ NewRow(a, v, d, au).auto = au
         /\ NewRow(a, v, d, au).action = a /\ NewRow(a, v, d, au).sha = v
  BY DEF NewRow, Row, Typed, Statuses, Stages

LEMMA AutomaticRows ==
  ASSUME NEW rs, RowsOK(rs), Typed
  PROVE  RowsOK(Automatic(rs)) /\ Moves(rs, Automatic(rs))
<1>1. PICK c : c = Cancelled(rs)
  OBVIOUS
<1>2. MaxAttempts \in Nat /\ MaxJobs \in Nat /\ now \in Nat /\ spec \in Versions
  BY ProfileFacts DEF Typed
<1>3. RowsOK(c) /\ Moves(rs, c)
  BY <1>1, <1>2, CancelledRows
<1>4. PICK r : r = NewRow("update", spec, FALSE, TRUE)
  OBVIOUS
<1>5. r \in Row /\ r.auto = TRUE /\ r.action = "update" /\ r.sha = spec
  BY <1>2, <1>4, NewRowType
<1>6. CASE ActiveRows(c) = {} /\ MayRetry(c, spec)
  <2>1. Automatic(rs) = Created(c, r)
    BY <1>1, <1>4, <1>6 DEF Automatic
  <2>2. Attempts(c, spec) < MaxAttempts
    BY <1>6 DEF MayRetry
  <2>3. RowsOK(Created(c, r)) /\ Moves(c, Created(c, r))
    BY <1>2, <1>3, <1>5, <2>2, CreatedRows
  <2> QED  BY <1>3, <2>1, <2>3, MovesTransitive
<1>7. CASE ~(ActiveRows(c) = {} /\ MayRetry(c, spec))
  BY <1>1, <1>3, <1>7 DEF Automatic
<1> QED  BY <1>6, <1>7

LEMMA ControllerRows ==
  ASSUME Typed, RowsOK(rows)
  PROVE  /\ RowsOK(Expired(rows)) /\ Moves(rows, Expired(rows)) /\ Moves(rows, rows)
         /\ RowsOK(Automatic(Expired(rows))) /\ Moves(rows, Automatic(Expired(rows)))
         /\ RowsOK(Next1(Expired(rows))) /\ Moves(rows, Next1(Expired(rows)))
<1>1. PICK e : e = Expired(rows)
  OBVIOUS
<1>2. MaxAttempts \in Nat /\ MaxJobs \in Nat /\ now \in Nat
  BY ProfileFacts DEF Typed
<1>3. RowsOK(e) /\ Moves(rows, e)
  BY <1>1, <1>2, ExpiredRows
<1>4. Moves(rows, rows)
  BY RowsFacts, RowStays DEF Moves, RowsOK
<1>5. RowsOK(Automatic(e)) /\ Moves(rows, Automatic(e))
  BY <1>3, AutomaticRows, MovesTransitive
<1>6. RowsOK(Cancelled(e)) /\ Moves(rows, Cancelled(e))
  BY <1>2, <1>3, CancelledRows, MovesTransitive
<1>7. Next1(e) \in {e, Automatic(e), Cancelled(e)}
  BY DEF Next1
<1> QED  BY <1>1, <1>3, <1>4, <1>5, <1>6, <1>7

(* One row changes. *)
LEMMA OneRow ==
  ASSUME NEW rs, NEW j \in DOMAIN rs, NEW q, RowsOK(rs), MaxAttempts \in Nat,
         RowMoves(rs[j], q), Active(q) => ActiveRows(rs) \subseteq {j}
  PROVE  RowsOK([rs EXCEPT ![j] = q]) /\ Moves(rs, [rs EXCEPT ![j] = q])
<1>1. PICK qs : qs = [rs EXCEPT ![j] = q]
  OBVIOUS
<1>2. rs \in Seq(Row) /\ rs \in [DOMAIN rs -> Row] /\ (\A i \in DOMAIN rs : rs[i] \in Row) /\ q \in Row
  BY RowsFacts DEF RowsOK, RowMoves
<1>3. qs \in [DOMAIN rs -> Row] /\ qs[j] = q /\ \A i \in DOMAIN rs \ {j} : qs[i] = rs[i]
  BY <1>1, <1>2
<1>4. Moves(rs, qs)
  BY <1>2, <1>3, RowStays DEF Moves
<1>5. OneActive(qs)
  BY <1>3 DEF RowsOK, OneActive, ActiveRows
<1> QED  BY <1>1, <1>3, <1>4, <1>5, MovedRows

-----------------------------------------------------------------------------
(* What every step leaves alone: the profile, and what is derived from it. *)
CountMoves ==
  /\ count' \in [prof : Profiles, used : [FaultKinds -> Nat]] /\ count'.prof = count.prof
  /\ count.used["step"] # 0 => count'.used["step"] # 0

LEMMA CountStep ==
  ASSUME Typed, UNCHANGED count \/ \E f \in FaultKinds : Fault(f)
  PROVE  CountMoves
<1>1. count \in [prof : Profiles, used : [FaultKinds -> Nat]]
  BY DEF Typed
<1>2. CASE UNCHANGED count
  BY <1>1, <1>2 DEF CountMoves
<1>3. CASE \E f \in FaultKinds : Fault(f)
  <2>1. PICK f \in FaultKinds : Fault(f)
    BY <1>3
  <2>2. count' = [count EXCEPT !.used[f] = @ + 1]
    BY <2>1 DEF Fault
  <2>3. /\ count'.prof = count.prof /\ count' \in [prof : Profiles, used : [FaultKinds -> Nat]]
        /\ count'.used = [count.used EXCEPT ![f] = @ + 1]
    BY <1>1, <2>2
  <2>4. "step" \in FaultKinds
    BY DEF FaultKinds
  <2> QED  BY <1>1, <2>3, <2>4 DEF CountMoves
<1> QED  BY <1>2, <1>3

LEMMA StepCounts ==
  ASSUME Typed, Fault("step")
  PROVE  CountMoves /\ count'.used["step"] # 0
<1>1. "step" \in FaultKinds
  BY DEF FaultKinds
<1>2. count \in [prof : Profiles, used : [FaultKinds -> Nat]]
  BY DEF Typed
<1>3. count'.used["step"] = count.used["step"] + 1
  BY <1>1, <1>2 DEF Fault
<1> QED  BY <1>1, <1>2, <1>3, CountStep

LEMMA SameProfile ==
  ASSUME count'.prof = count.prof
  PROVE  /\ Versions' = Versions /\ Jobs' = Jobs /\ Row' = Row /\ WorkerType' = WorkerType
         /\ OpenRC' = OpenRC /\ MaxJobs' = MaxJobs /\ MaxAttempts' = MaxAttempts
         /\ MaxVersion' = MaxVersion
  BY DEF Versions, Jobs, Row, WorkerType, OpenRC, MaxJobs, MaxAttempts, MaxVersion

LEMMA SameRowsOK ==
  ASSUME count'.prof = count.prof, RowsOK(rows')
  PROVE  RowsOK(rows)'
  BY SameProfile DEF RowsOK, OneActive, ActiveRows, Active, Tries, OfTarget

(* An admitted job stays admitted. *)
LEMMA AdmittedStays ==
  ASSUME NEW j, Moves(rows, rows'), Admitted(j)
  PROVE  Admitted(j)' /\ rows'[j].sha = rows[j].sha
<1>1. RowMoves(rows[j], rows'[j]) /\ j \in DOMAIN rows'
  BY DEF Moves, Admitted
<1> QED  BY <1>1 DEF Admitted, RowMoves

(* Steps of the controller, the network and the agent that leave the host's
   jobs alone. *)
LEMMA HostStays ==
  ASSUME MaintenanceInv, Typed', RowsOK(rows'), Moves(rows, rows'), Known', RecOK(rec'), CountMoves,
         UNCHANGED <<bin, local, work, lock, touched>>,
         agent'.bin = agent.bin,
         agent'.pc = agent.pc \/ (agent.pc # "apply" /\ agent'.pc \notin {"apply", "boot"})
  PROVE  MaintenanceInv'
<1>1. count'.prof = count.prof /\ Jobs' = Jobs /\ OpenRC' = OpenRC
  BY SameProfile DEF CountMoves
<1>2. ASSUME NEW j \in Jobs PROVE JobOK(j)'
  <2>1. JobOK(j)
    BY DEF MaintenanceInv
  <2>2. local[j] # None => Admitted(j)' /\ rows'[j].sha = rows[j].sha
    BY <2>1, AdmittedStays DEF JobOK
  <2>3. work[j] # None => WorkerOK(j)'
    <3> HAVE work[j] # None
    <3>1. WorkerOK(j) /\ rows'[j].sha = rows[j].sha
      BY <2>1, <2>2 DEF JobOK
    <3> QED  BY <1>1, <3>1 DEF WorkerOK, Active, CountMoves
  <2> QED  BY <2>1, <2>2, <2>3 DEF JobOK
<1>3. Single'
  BY <1>1 DEF MaintenanceInv, Single, ActiveLocal, Active
<1>4. Locked'
  BY <1>1 DEF MaintenanceInv, Locked, AgentOwner
<1>5. RecOK(rec)'
  BY <1>1 DEF RecOK
<1> QED  BY <1>1, <1>2, <1>3, <1>4, <1>5, SameRowsOK DEF MaintenanceInv

-----------------------------------------------------------------------------
(* Every change of the rows is a move. *)
RowStep == RowsOK(rows') /\ Moves(rows, rows')

LEMMA RequestStep ==
  ASSUME MaintenanceInv, NEW a \in Actions, NEW d \in BOOLEAN, Request(a, d)
  PROVE  RowStep
<1>1. Typed /\ RowsOK(rows) /\ RowsOK(Expired(rows)) /\ Moves(rows, Expired(rows))
  BY ControllerRows DEF MaintenanceInv
<1>2. a \in {"update", "uninstall"} /\ MaxAttempts \in Nat /\ MaxJobs \in Nat
  BY <1>1, ProfileFacts
<1>3. PICK v : v = IF a = "update" THEN spec ELSE None
  OBVIOUS
<1>4. v \in Versions \cup {None} /\ rows' = Created(Expired(rows), NewRow(a, v, d, FALSE))
  BY <1>1, <1>3 DEF Request, Typed
<1>5. NewRow(a, v, d, FALSE) \in Row /\ NewRow(a, v, d, FALSE).auto = FALSE
  BY <1>1, <1>2, <1>4 DEF NewRow, Row, Typed, Statuses, Stages
<1>6. RowsOK(rows') /\ Moves(Expired(rows), rows')
  BY <1>1, <1>2, <1>4, <1>5, CreatedRows
<1> QED  BY <1>1, <1>6, MovesTransitive DEF RowStep

LEMMA ReconcileStep ==
  ASSUME MaintenanceInv, Reconcile
  PROVE  RowStep
<1>1. PICK rs : rs = Expired(rows)
  OBVIOUS
<1>2. Typed /\ RowsOK(rs) /\ Moves(rows, rs)
  BY <1>1, ControllerRows DEF MaintenanceInv
<1>3. rows' = [i \in DOMAIN rs |->
                 IF i \in OfTarget(rs, hb.sha) /\ Confirms(rs, i)
                 THEN [rs[i] EXCEPT !.status = "succeeded", !.stage = "confirmed",
                                    !.updated = now]
                 ELSE rs[i]]
  BY <1>1 DEF Reconcile
<1>4. rows' = [i \in DOMAIN rs |-> rows'[i]]
  BY <1>3
<1>5. MaxAttempts \in Nat /\ now \in Nat /\ \A i \in DOMAIN rs : rs[i] \in Row
  BY <1>2, ProfileFacts, RowsFacts DEF Typed, RowsOK
<1>6. ASSUME NEW i \in DOMAIN rs
      PROVE  RowMoves(rs[i], rows'[i]) /\ (Active(rows'[i]) => Active(rs[i]))
  <2>1. CASE i \in OfTarget(rs, hb.sha) /\ Confirms(rs, i)
    <3>1. /\ rs[i].status = "interrupted"
          /\ rows'[i] = [rs[i] EXCEPT !.status = "succeeded", !.stage = "confirmed", !.updated = now]
      BY <1>3, <2>1 DEF Confirms
    <3>2. RowMoves(rs[i], rows'[i]) /\ rows'[i].status = "succeeded"
      <4>1. /\ "succeeded" \in Statuses /\ "confirmed" \in Stages /\ rs[i] \in Row
            /\ rs[i].status \notin Final /\ "succeeded" \notin NotAdmitted
        BY <1>5, <3>1 DEF Final, Results, NotAdmitted, Statuses, Stages
      <4>2. PICK r, q : r = rs[i] /\ q = rows'[i] /\ r \in Row
        BY <4>1
      <4>3. q = [r EXCEPT !.status = "succeeded", !.stage = "confirmed", !.updated = now]
        BY <3>1, <4>2
      <4>4. RowMoves(r, q) /\ q.status = "succeeded"
        BY <1>5, <3>1, <4>1, <4>2, <4>3 DEF RowMoves, Row, NotAdmitted
      <4> QED  BY <4>2, <4>4
    <3> QED  BY <3>2 DEF Active
  <2>2. CASE ~(i \in OfTarget(rs, hb.sha) /\ Confirms(rs, i))
    <3>1. rows'[i] = rs[i]
      BY <1>3, <2>2
    <3> QED  BY <1>5, <3>1, RowStays
  <2> QED  BY <2>1, <2>2
<1>7. RowsOK(rows') /\ Moves(rs, rows')
  BY <1>2, <1>4, <1>5, <1>6, QuietRows
<1> QED  BY <1>2, <1>7, MovesTransitive DEF RowStep

(* The claim: what the agent goes on with is admitted. *)
LEMMA ClaimStep ==
  ASSUME MaintenanceInv, Claim
  PROVE  RowStep /\ (agent'.pc = "start" => Admitted(agent.job)' /\ agent'.job = agent.job)
<1>1. PICK rs : rs = Expired(rows)
  OBVIOUS
<1>2. Typed /\ RowsOK(rs) /\ Moves(rows, rs) /\ DOMAIN rs = DOMAIN rows
  BY <1>1, ControllerRows, ExpiredRows, ProfileFacts DEF MaintenanceInv, Expired
<1>3. MaxAttempts \in Nat /\ now \in Nat /\ \A i \in DOMAIN rs : rs[i] \in Row
  BY <1>2, ProfileFacts, RowsFacts DEF Typed, RowsOK
<1>4. PICK j : j = agent.job
  OBVIOUS
<1>5. j \in DOMAIN rs /\ agent.pc = "claim" /\ rs[j] \in Row
  BY <1>2, <1>3, <1>4 DEF Claim, MaintenanceInv, Known
<1>6. PICK q : q = ClaimedRow(rs[j])
  OBVIOUS
<1>7. rows' = [rs EXCEPT ![j] = q]
  BY <1>1, <1>4, <1>6 DEF Claim
<1>8. /\ RowMoves(rs[j], q) /\ (Active(q) => Active(rs[j]))
      /\ Claimable(rs[j]) => q.status = "running"
  <2>1. CASE rs[j].status = "queued" /\ Claimable(rs[j])
    <3>1. q = [rs[j] EXCEPT !.status = "running", !.updated = now]
      BY <1>6, <2>1 DEF ClaimedRow
    <3>2. "running" \in Statuses /\ rs[j].status \notin Final
      BY <2>1 DEF Statuses, Final, Results
    <3>3. RowMoves(rs[j], q) /\ q.status = "running"
      BY <1>3, <1>5, <2>1, <3>1, <3>2, RowGetsStatus
    <3> QED  BY <2>1, <3>3 DEF Active
  <2>2. CASE rs[j].status = "queued" /\ ~Claimable(rs[j]) /\ Obsolete(rs[j])
    <3>1. q = [rs[j] EXCEPT !.status = "cancelled", !.updated = now]
      BY <1>6, <2>2 DEF ClaimedRow
    <3> QED  BY <1>3, <1>5, <2>2, <3>1, RowGetsStatus DEF Final, Results, Statuses, Active
  <2>3. CASE rs[j].status # "queued" \/ (~Claimable(rs[j]) /\ ~Obsolete(rs[j]))
    <3>1. q = rs[j]
      BY <1>6, <2>3 DEF ClaimedRow, Obsolete
    <3> QED  BY <1>5, <2>3, <3>1, RowStays DEF Claimable, Active
  <2> QED  BY <2>1, <2>2, <2>3
<1>9. Active(q) => ActiveRows(rs) \subseteq {j}
  BY <1>2, <1>5, <1>8 DEF RowsOK, OneActive, ActiveRows
<1>10. RowsOK(rows') /\ Moves(rs, rows')
  BY <1>2, <1>3, <1>5, <1>7, <1>8, <1>9, OneRow
<1>11. ASSUME agent'.pc = "start" PROVE Admitted(agent.job)' /\ agent'.job = agent.job
  <2>1. Claimable(rs[j]) /\ agent' = [agent EXCEPT !.pc = "start"]
    BY <1>1, <1>2, <1>4, <1>11 DEF Claim, Idle, Typed
  <2>2. agent'.job = j
    BY <1>2, <1>4, <2>1 DEF Typed
  <2>3. j \in DOMAIN rows' /\ rows'[j].status = "running"
    BY <1>2, <1>5, <1>7, <1>8, <2>1 DEF RowsOK
  <2> QED  BY <1>4, <2>2, <2>3 DEF Admitted, NotAdmitted
<1> QED  BY <1>2, <1>10, <1>11, MovesTransitive DEF RowStep

LEMMA SaveReportStep ==
  ASSUME MaintenanceInv, NEW m \in reports, SaveReport(m)
  PROVE  RowStep
<1>1. Typed /\ RowsOK(rows) /\ m.job \in DOMAIN rows /\ Moves(rows, rows)
  BY ControllerRows DEF MaintenanceInv, Known
<1>2. /\ MaxAttempts \in Nat /\ now \in Nat /\ rows[m.job] \in Row
      /\ m.status \in Reportable /\ m.stage \in Stages
  BY <1>1, ProfileFacts, RowsFacts DEF Typed, RowsOK
<1>3. CASE ~Saves(m)
  BY <1>1, <1>3 DEF SaveReport, RowStep
<1>4. CASE Saves(m)
  <2>1. PICK q : q = [rows[m.job] EXCEPT !.status = m.status, !.stage = m.stage, !.updated = now]
    OBVIOUS
  <2>2. rows' = [rows EXCEPT ![m.job] = q]
    BY <1>1, <1>4, <2>1 DEF SaveReport
  <2>3. /\ rows[m.job].status \in {"queued", "running", "interrupted"}
        /\ m.status = "running" => ActiveRows(rows) \subseteq {m.job}
    BY <1>4 DEF Saves, Open
  <2>4. RowMoves(rows[m.job], q) /\ q.status = m.status
    <3>1. m.status \in Statuses /\ m.status \notin NotAdmitted /\ rows[m.job].status \notin Final
      BY <1>2, <2>3 DEF Final, Results, Reportable, NotAdmitted, Statuses
    <3> QED  BY <1>2, <2>1, <3>1, RowGets
  <2>5. Active(q) => ActiveRows(rows) \subseteq {m.job}
    BY <1>2, <2>3, <2>4 DEF Active, Reportable, Results
  <2>6. RowsOK(rows') /\ Moves(rows, rows')
    BY <1>1, <1>2, <2>2, <2>4, <2>5, OneRow
  <2> QED  BY <2>6 DEF RowStep
<1> QED  BY <1>3, <1>4

-----------------------------------------------------------------------------
AgentOK(a) ==
  /\ a \in [bin : Versions \cup {None}, job : Jobs \cup {None}, pc : AgentPcs]
  /\ a.job # None <=> a.pc \in {"claim", "start", "report"}

HandlerOK(h)   == h \in [pc : {"idle", "reconcile", "queue", "next"}, sha : Versions]
ReportsOK(rps) ==
  /\ rps \subseteq [job : Jobs, status : Reportable, stage : Stages, seen : Statuses \cup {None}]
  /\ \A m \in rps : m.job \in DOMAIN rows
DbStep ==
  now' \in Nat /\ spec' \in Versions /\ server' \in BOOLEAN /\ diag' \in Versions

LEMMA TypedDb ==
  ASSUME MaintenanceInv
  PROVE  /\ Typed /\ RowsOK(rows) /\ Known /\ AgentOK(agent) /\ HandlerOK(hb) /\ ReportsOK(reports)
         /\ now \in Nat /\ spec \in Versions /\ server \in BOOLEAN /\ diag \in Versions
         /\ RecOK(rec) /\ foreign \in BOOLEAN
         /\ Moves(rows, rows)
  BY ControllerRows DEF MaintenanceInv, Typed, Known, AgentOK, HandlerOK, ReportsOK

(* The steps that leave the host's jobs alone, and what each has to show. *)
LEMMA ControlStep ==
  ASSUME MaintenanceInv, RowStep, CountMoves, DbStep, HandlerOK(hb'), ReportsOK(reports'),
         AgentOK(agent'), RecOK(rec'), foreign' \in BOOLEAN,
         UNCHANGED <<bin, local, work, lock, touched>>,
         agent'.bin = agent.bin,
         agent'.pc = agent.pc \/ (agent.pc # "apply" /\ agent'.pc \notin {"apply", "boot"}),
         agent'.pc \in {"claim", "start", "report"} => agent'.job \in DOMAIN rows',
         agent'.pc \in {"start", "report"} => Admitted(agent.job)'
  PROVE  MaintenanceInv'
<1>1. /\ count'.prof = count.prof /\ Jobs' = Jobs /\ Versions' = Versions
      /\ WorkerType' = WorkerType
  BY SameProfile DEF CountMoves
<1>2. Typed'
  BY <1>1 DEF MaintenanceInv, Typed, DbStep, HandlerOK, ReportsOK, AgentOK, RecOK, CountMoves
<1>3. Known'
  BY DEF Known, ReportsOK, RowStep, Moves
<1> QED  BY <1>2, <1>3, HostStays DEF RowStep

(* The agent is not involved. *)
LEMMA AgentStays ==
  ASSUME MaintenanceInv, RowStep, CountMoves, DbStep, HandlerOK(hb'), ReportsOK(reports'),
         RecOK(rec'), foreign' \in BOOLEAN,
         UNCHANGED <<agent, bin, local, work, lock, touched>>
  PROVE  MaintenanceInv'
<1>1. /\ agent.pc \in {"claim", "start", "report"} => agent.job \in DOMAIN rows'
      /\ agent.pc \in {"start", "report"} => Admitted(agent.job)'
  BY AdmittedStays DEF MaintenanceInv, Known, RowStep, Moves
<1> QED  BY <1>1, TypedDb, ControlStep

LEMMA ControllerSteps ==
  ASSUME MaintenanceInv,
         \/ \E a \in Actions, d \in BOOLEAN : Request(a, d)
         \/ NewRelease \/ Expire \/ Tick \/ Reconcile \/ QueueAutomatic
         \/ BeginForeign \/ EndForeign \/ \E j \in Jobs : RecoverRead(j)
  PROVE  MaintenanceInv' /\ RowStep
<1> USE TypedDb
<1>0. /\ UNCHANGED rows => RowStep
      /\ UNCHANGED count \/ Fault("foreign") \/ Fault("recover") => CountMoves
  <2>1. "foreign" \in FaultKinds /\ "recover" \in FaultKinds
    BY DEF FaultKinds
  <2> QED  BY <2>1, CountStep DEF RowStep
<1>1. CASE \E a \in Actions, d \in BOOLEAN : Request(a, d)
  <2>1. PICK a \in Actions, d \in BOOLEAN : Request(a, d)
    BY <1>1
  <2>2. RowStep
    BY <2>1, RequestStep
  <2>3. UNCHANGED <<now, spec, server, diag, hb, reports, agent, rec, foreign, count,
                    bin, local, work, lock, touched>>
    BY <2>1 DEF Request, host
  <2> QED  BY <1>0, <2>2, <2>3, AgentStays DEF DbStep
<1>2. CASE NewRelease
  <2>1. spec' \in Versions
    BY <1>2, ProfileFacts DEF NewRelease, Versions
  <2>2. UNCHANGED <<now, rows, server, diag, hb, reports, agent, rec, foreign, count,
                    bin, local, work, lock, touched>>
    BY <1>2 DEF NewRelease, host
  <2> QED  BY <1>0, <2>1, <2>2, AgentStays DEF DbStep
<1>3. CASE Expire
  <2>1. RowStep
    BY <1>3, ControllerRows DEF Expire, RowStep
  <2>2. UNCHANGED <<now, spec, server, diag, hb, reports, agent, rec, foreign, count,
                    bin, local, work, lock, touched>>
    BY <1>3 DEF Expire, host
  <2> QED  BY <1>0, <2>1, <2>2, AgentStays DEF DbStep
<1>4. CASE Tick
  <2>1. now' \in Nat
    BY <1>4 DEF Tick
  <2>2. UNCHANGED <<spec, rows, server, diag, hb, reports, agent, rec, foreign, count,
                    bin, local, work, lock, touched>>
    BY <1>4 DEF Tick, host, db
  <2> QED  BY <1>0, <2>1, <2>2, AgentStays DEF DbStep
<1>5. CASE Reconcile
  <2>1. RowStep
    BY <1>5, ReconcileStep
  <2>2. HandlerOK(hb')
    BY <1>5 DEF Reconcile, HandlerOK
  <2>3. UNCHANGED <<now, spec, server, diag, reports, agent, rec, foreign, count,
                    bin, local, work, lock, touched>>
    BY <1>5 DEF Reconcile, host
  <2> QED  BY <1>0, <2>1, <2>2, <2>3, AgentStays DEF DbStep
<1>6. CASE QueueAutomatic
  <2>1. RowStep
    BY <1>6, ControllerRows DEF QueueAutomatic, RowStep
  <2>2. HandlerOK(hb')
    BY <1>6 DEF QueueAutomatic, HandlerOK
  <2>3. UNCHANGED <<now, spec, server, diag, reports, agent, rec, foreign, count,
                    bin, local, work, lock, touched>>
    BY <1>6 DEF QueueAutomatic, host
  <2> QED  BY <1>0, <2>1, <2>2, <2>3, AgentStays DEF DbStep
<1>7. CASE BeginForeign \/ EndForeign
  <2>1. foreign' \in BOOLEAN /\ (UNCHANGED count \/ Fault("foreign"))
    BY <1>7 DEF BeginForeign, EndForeign
  <2>2. UNCHANGED <<now, spec, rows, server, diag, hb, reports, agent, rec,
                    bin, local, work, lock, touched>>
    BY <1>7 DEF BeginForeign, EndForeign, db
  <2> QED  BY <1>0, <2>1, <2>2, AgentStays DEF DbStep
<1>8. CASE \E j \in Jobs : RecoverRead(j)
  <2>1. RecOK(rec') /\ Fault("recover")
    BY <1>8 DEF RecoverRead, RecOK
  <2>2. UNCHANGED <<now, spec, rows, server, diag, hb, reports, agent, foreign,
                    bin, local, work, lock, touched>>
    BY <1>8 DEF RecoverRead, db
  <2> QED  BY <1>0, <2>1, <2>2, AgentStays DEF DbStep
<1> QED  BY <1>1, <1>2, <1>3, <1>4, <1>5, <1>6, <1>7, <1>8

LEMMA IdleOK ==
  ASSUME AgentOK(agent)
  PROVE  AgentOK(Idle) /\ Idle.pc = "idle" /\ Idle.bin = agent.bin
  BY DEF AgentOK, Idle, AgentPcs

LEMMA LastActive ==
  ASSUME NEW rs, RowsOK(rs), ActiveRows(rs) # {}, Typed
  PROVE  LastOf(ActiveRows(rs)) \in DOMAIN rs /\ LastOf(ActiveRows(rs)) \in Jobs
<1>1. rs \in Seq(Row) /\ DOMAIN rs = 1..Len(rs) /\ Len(rs) \in Nat /\ Len(rs) <= MaxJobs
      /\ MaxJobs \in Nat
  BY RowsFacts, ProfileFacts DEF RowsOK
<1>2. PICK i \in ActiveRows(rs) : \A k \in ActiveRows(rs) : k = i
  BY DEF RowsOK, OneActive
<1>3. i \in DOMAIN rs /\ \A k \in ActiveRows(rs) : k <= i
  BY <1>1, <1>2 DEF ActiveRows
<1>4. LastOf(ActiveRows(rs)) \in ActiveRows(rs)
  BY <1>2, <1>3 DEF LastOf
<1> QED  BY <1>1, <1>4 DEF ActiveRows, Jobs

LEMMA AgentSteps ==
  ASSUME MaintenanceInv, Heartbeat \/ HeartbeatLost \/ Answer \/ Claim \/ Reported \/ Boot
  PROVE  MaintenanceInv' /\ RowStep
<1> USE TypedDb
<1>0. /\ UNCHANGED rows => RowStep
      /\ UNCHANGED count \/ Fault("net") => CountMoves
  <2>1. "net" \in FaultKinds
    BY DEF FaultKinds
  <2> QED  BY <2>1, CountStep DEF RowStep
<1>1. CASE Heartbeat
  <2>1. agent' = [agent EXCEPT !.pc = "wait"] /\ agent.pc = "idle" /\ agent.bin # None
    BY <1>1 DEF Heartbeat
  <2>2. AgentOK(agent') /\ agent'.pc = "wait" /\ agent'.bin = agent.bin
    BY <2>1 DEF AgentOK, AgentPcs
  <2>3. HandlerOK(hb') /\ diag' \in Versions
    BY <1>1, <2>1 DEF Heartbeat, HandlerOK, AgentOK
  <2>4. UNCHANGED <<now, spec, rows, server, reports, rec, foreign, count,
                    bin, local, work, lock, touched>>
    BY <1>1 DEF Heartbeat, host
  <2> QED  BY <1>0, <2>1, <2>2, <2>3, <2>4, ControlStep DEF DbStep
<1>2. CASE HeartbeatLost
  <2>1. agent' = [agent EXCEPT !.pc = "idle"] /\ agent.pc = "wait" /\ Fault("net")
    BY <1>2 DEF HeartbeatLost
  <2>2. AgentOK(agent') /\ agent'.pc = "idle" /\ agent'.bin = agent.bin
    BY <2>1 DEF AgentOK, AgentPcs
  <2>4. UNCHANGED <<now, spec, rows, server, diag, hb, reports, rec, foreign,
                    bin, local, work, lock, touched>>
    BY <1>2 DEF HeartbeatLost, host, db
  <2> QED  BY <1>0, <2>1, <2>2, <2>4, ControlStep DEF DbStep
<1>3. CASE Answer
  <2>1. RowStep
    BY <1>3, ControllerRows DEF Answer, RowStep
  <2>2. HandlerOK(hb')
    BY <1>3, ProfileFacts DEF Answer, HandlerOK, NoCall, Versions
  <2>3. UNCHANGED <<now, spec, server, diag, reports, rec, foreign, count,
                    bin, local, work, lock, touched>>
    BY <1>3 DEF Answer, host
  <2>4. CASE agent.pc # "wait"
    <3>1. UNCHANGED agent
      BY <1>3, <2>4 DEF Answer
    <3> QED  BY <1>0, <2>1, <2>2, <2>3, <3>1, AgentStays DEF DbStep
  <2>5. CASE agent.pc = "wait" /\ ActiveRows(rows') = {}
    <3>1. agent' = [agent EXCEPT !.pc = "configure"]
      BY <1>3, <2>5 DEF Answer
    <3>2. AgentOK(agent') /\ agent'.pc = "configure" /\ agent'.bin = agent.bin
      BY <2>5, <3>1 DEF AgentOK, AgentPcs
    <3> QED  BY <1>0, <2>1, <2>2, <2>3, <2>5, <3>2, ControlStep DEF DbStep
  <2>6. CASE agent.pc = "wait" /\ ActiveRows(rows') # {}
    <3>1. PICK j : j = LastOf(ActiveRows(rows'))
      OBVIOUS
    <3>2. agent' = [agent EXCEPT !.pc = "claim", !.job = j]
      BY <1>3, <2>6, <3>1 DEF Answer
    <3>3. j \in DOMAIN rows' /\ j \in Jobs /\ j # None
      BY <2>1, <2>6, <3>1, LastActive, ProfileFacts DEF RowStep
    <3>4. AgentOK(agent') /\ agent'.pc = "claim" /\ agent'.bin = agent.bin /\ agent'.job = j
      BY <2>6, <3>2, <3>3 DEF AgentOK, AgentPcs
    <3> QED  BY <1>0, <2>1, <2>2, <2>3, <2>6, <3>3, <3>4, ControlStep DEF DbStep
  <2> QED  BY <2>1, <2>4, <2>5, <2>6
<1>4. CASE Claim
  <2>1. RowStep /\ (agent'.pc = "start" => Admitted(agent.job)')
    BY <1>4, ClaimStep
  <2>2. UNCHANGED <<now, spec, server, diag, hb, reports, rec, foreign,
                    bin, local, work, lock, touched>> /\ agent.pc = "claim"
    BY <1>4 DEF Claim, host
  <2>3. CASE agent' = Idle /\ (UNCHANGED count \/ Fault("net"))
    BY <1>0, <2>1, <2>2, <2>3, IdleOK, ControlStep DEF DbStep
  <2>4. CASE agent' = [agent EXCEPT !.pc = "start"] /\ UNCHANGED count
    <3>1. AgentOK(agent') /\ agent'.pc = "start" /\ agent'.bin = agent.bin
      BY <2>2, <2>4 DEF AgentOK, AgentPcs
    <3>2. agent'.job \in DOMAIN rows'
      BY <2>1, <3>1 DEF Admitted
    <3> QED  BY <1>0, <2>1, <2>2, <2>4, <3>1, <3>2, ControlStep DEF DbStep
  <2> QED  BY <1>4, <2>1, <2>3, <2>4 DEF Claim
<1>5. CASE Reported
  <2>1. agent' = Idle /\ agent.pc = "report" /\ (UNCHANGED count \/ Fault("net"))
    BY <1>5 DEF Reported
  <2>2. UNCHANGED <<now, spec, rows, server, diag, hb, reports, rec, foreign,
                    bin, local, work, lock, touched>>
    BY <1>5 DEF Reported, host, db
  <2> QED  BY <1>0, <2>1, <2>2, IdleOK, ControlStep DEF DbStep
<1>6. CASE Boot
  <2>1. agent' = Idle /\ agent.pc = "boot" /\ UNCHANGED count
    BY <1>6 DEF Boot
  <2>2. UNCHANGED <<now, spec, rows, server, diag, hb, reports, rec, foreign,
                    bin, local, work, lock, touched>>
    BY <1>6 DEF Boot, host, db
  <2> QED  BY <1>0, <2>1, <2>2, IdleOK, ControlStep DEF DbStep
<1> QED  BY <1>1, <1>2, <1>3, <1>4, <1>5, <1>6

(* The report of a job of the host. *)
LEMMA ReportOK ==
  ASSUME NEW j \in Jobs, j \in DOMAIN rows, NEW st \in Reportable, NEW sg \in Stages,
         NEW l, l.status = st, l.stage = sg, ReportsOK(reports)
  PROVE  ReportsOK(reports \cup {Report(j, l)})
  BY DEF ReportsOK, Report

LEMMA ReportSteps ==
  ASSUME MaintenanceInv,
         \/ \E m \in reports : ReadReport(m) \/ SaveReport(m) \/ LoseReport(m)
         \/ \E j \in Jobs : Resend(j)
  PROVE  MaintenanceInv' /\ RowStep
<1> USE TypedDb
<1>0. /\ UNCHANGED rows => RowStep
      /\ UNCHANGED count \/ Fault("net") => CountMoves
  <2>1. "net" \in FaultKinds
    BY DEF FaultKinds
  <2> QED  BY <2>1, CountStep DEF RowStep
<1>1. ASSUME NEW m \in reports, ReadReport(m) PROVE MaintenanceInv' /\ RowStep
  <2>1. m.job \in DOMAIN rows /\ rows[m.job] \in Row
    BY RowsFacts DEF ReportsOK, RowsOK
  <2>2. rows[m.job].status \in Statuses
    BY <2>1 DEF Row
  <2>3. ReportsOK(reports')
    <3>1. PICK q : q = [m EXCEPT !.seen = rows[m.job].status]
      OBVIOUS
    <3>2. reports' = (reports \ {m}) \cup {q}
      BY <1>1, <3>1 DEF ReadReport
    <3>3. q \in [job : Jobs, status : Reportable, stage : Stages, seen : Statuses \cup {None}]
          /\ q.job = m.job
      BY <2>2, <3>1 DEF ReportsOK
    <3> QED  BY <2>1, <3>2, <3>3 DEF ReportsOK
  <2>4. UNCHANGED <<now, spec, rows, server, diag, hb, agent, rec, foreign, count,
                    bin, local, work, lock, touched>>
    BY <1>1 DEF ReadReport, host, db
  <2> QED  BY <1>0, <2>3, <2>4, AgentStays DEF DbStep
<1>2. ASSUME NEW m \in reports, SaveReport(m) PROVE MaintenanceInv' /\ RowStep
  <2>1. RowStep
    BY <1>2, SaveReportStep
  <2>2. ReportsOK(reports') /\ server' \in BOOLEAN
    BY <1>2 DEF SaveReport, ReportsOK
  <2>3. UNCHANGED <<now, spec, diag, hb, agent, rec, foreign, count,
                    bin, local, work, lock, touched>>
    BY <1>2 DEF SaveReport, host
  <2> QED  BY <1>0, <2>1, <2>2, <2>3, AgentStays DEF DbStep
<1>3. ASSUME NEW m \in reports, LoseReport(m) PROVE MaintenanceInv' /\ RowStep
  <2>1. ReportsOK(reports') /\ Fault("net")
    BY <1>3 DEF LoseReport, ReportsOK
  <2>2. UNCHANGED <<now, spec, rows, server, diag, hb, agent, rec, foreign,
                    bin, local, work, lock, touched>>
    BY <1>3 DEF LoseReport, host, db
  <2> QED  BY <1>0, <2>1, <2>2, AgentStays DEF DbStep
<1>4. ASSUME NEW j \in Jobs, Resend(j) PROVE MaintenanceInv' /\ RowStep
  <2>1. /\ work[j] # None /\ work[j].pc = "report" /\ reports' = reports \cup {Report(j, local[j])}
        /\ UNCHANGED <<now, spec, rows, server, diag, hb, agent, rec, foreign, count,
                       bin, local, work, lock, touched>>
    BY <1>4 DEF Resend, At, db, host
  <2>2. local[j] # None /\ local[j].status \in Results /\ j \in DOMAIN rows
    BY <2>1 DEF MaintenanceInv, JobOK, WorkerOK, Admitted
  <2>3. local[j].status \in Reportable /\ local[j].stage \in Stages
    BY <2>2 DEF Typed, Reportable
  <2>4. ReportsOK(reports')
    BY <2>1, <2>2, <2>3, ReportOK
  <2> QED  BY <1>0, <2>1, <2>4, AgentStays DEF DbStep
<1> QED  BY <1>1, <1>2, <1>3, <1>4

-----------------------------------------------------------------------------
(* The host: a worker that is not yet reporting is alone. *)
LocalStatus == [status : Reportable \cup {"queued"}, stage : Stages]

LEMMA OwnerFacts ==
  ASSUME Typed
  PROVE  None # AgentOwner /\ None \notin Jobs /\ \A j \in Jobs : j # AgentOwner
<1>1. AgentOwner = 0
  BY DEF AgentOwner
<1>2. None # 0
  BY MaintenanceAssumption
<1> QED  BY <1>1, <1>2, ProfileFacts

LEMMA NoneIsNoRecord ==
  ASSUME Typed
  PROVE  None \notin LocalStatus /\ None \notin WorkerType
<1>1. LocalStatus \subseteq [status : Statuses, stage : Stages]
  BY DEF LocalStatus, Reportable, Results, Statuses
<1>2. Versions \subseteq Int
  BY ProfileFacts
<1>3. \A w \in WorkerType :
        w \in [pc : Steps, old : Int \cup {None}, status : Statuses, stage : Stages, started : Int]
  <2> SUFFICES ASSUME NEW w \in WorkerType
               PROVE  w \in [pc : Steps, old : Int \cup {None}, status : Statuses,
                             stage : Stages, started : Int]
    OBVIOUS
  <2>1. w = [pc |-> w.pc, old |-> w.old, status |-> w.status, stage |-> w.stage,
             started |-> w.started]
    BY DEF WorkerType
  <2>2. /\ w.pc \in Steps /\ w.old \in Versions \cup {None} /\ w.status \in Statuses
        /\ w.stage \in Stages /\ w.started \in Nat
    BY DEF WorkerType
  <2>3. w.old \in Int \cup {None}
    BY <1>2, <2>2
  <2> QED  BY <2>1, <2>2, <2>3
<1> QED  BY <1>1, <1>3, MaintenanceAssumption

LEMMA TypedHost ==
  ASSUME MaintenanceInv
  PROVE  /\ bin \in Versions \cup {None} /\ local \in [Jobs -> LocalStatus \cup {None}]
         /\ work \in [Jobs -> WorkerType \cup {None}] /\ lock \in Jobs \cup {AgentOwner, None}
         /\ touched \subseteq Jobs
         /\ \A j \in Jobs : /\ local[j] # None => local[j] \in LocalStatus
                            /\ work[j] # None => work[j] \in WorkerType
  BY DEF MaintenanceInv, Typed, LocalStatus

LEMMA Alone ==
  ASSUME MaintenanceInv, NEW j \in Jobs, work[j] # None, work[j].pc # "report"
  PROVE  /\ local[j] # None /\ Active(local[j]) /\ Admitted(j) /\ WorkerOK(j)
         /\ \A k \in Jobs \ {j} : /\ local[k] # None => ~Active(local[k])
                                  /\ work[k] = None \/ work[k].pc = "report"
         /\ agent.pc # "apply" /\ lock \in {None, j}
<1>1. JobOK(j) /\ local[j] # None /\ Active(local[j]) /\ Admitted(j) /\ WorkerOK(j)
  BY DEF MaintenanceInv, JobOK, WorkerOK
<1>2. j \in ActiveLocal(local)
  BY <1>1 DEF ActiveLocal
<1>3. agent.pc # "apply"
  BY <1>2 DEF MaintenanceInv, Single
<1>4. ASSUME NEW k \in Jobs \ {j}
      PROVE  (local[k] # None => ~Active(local[k])) /\ (work[k] = None \/ work[k].pc = "report")
  <2>1. local[k] # None => ~Active(local[k])
    BY <1>2 DEF MaintenanceInv, Single, ActiveLocal
  <2> QED  BY <2>1 DEF MaintenanceInv, JobOK, WorkerOK
<1>5. lock \in {None, j}
  <2>1. lock \in Jobs => work[lock] # None /\ work[lock].pc # "report"
    BY DEF MaintenanceInv, Locked, Mutating
  <2>2. lock # AgentOwner
    BY <1>3 DEF MaintenanceInv, Locked
  <2> QED  BY <1>4, <2>1, <2>2, TypedHost
<1> QED  BY <1>1, <1>3, <1>4, <1>5

LEMMA FreshOK ==
  ASSUME Typed, NEW v \in Versions \cup {None}
  PROVE  /\ AgentOK(Fresh(v)) /\ Fresh(v).bin = v /\ Fresh(v).pc \in {"idle", "boot"}
         /\ Fresh(v).pc = "boot" => OpenRC
         /\ AgentOK(Gone) /\ Gone.pc = "idle" /\ Gone.bin = None
  BY DEF AgentOK, Fresh, Gone, AgentPcs

(* What is left to show of a step of the worker of j: its own part. *)
LEMMA WorkerFrame ==
  ASSUME MaintenanceInv, NEW j \in Jobs, work[j] # None, work[j].pc # "report",
         UNCHANGED <<now, db, hb, rec, foreign>>, CountMoves, ReportsOK(reports'),
         agent' = agent \/ agent' = Gone \/ agent' = Fresh(bin),
         bin' \in Versions \cup {None},
         work' \in [Jobs -> WorkerType \cup {None}], \A k \in Jobs \ {j} : work'[k] = work[k],
         local' \in [Jobs -> LocalStatus \cup {None}], \A k \in Jobs \ {j} : local'[k] = local[k],
         lock' \in {None, j},
         lock' = j => work'[j] # None /\ work'[j].pc \in Mutating,
         touched' = touched \/ touched' = touched \cup {j},
         local'[j] # None,
         local'[j].status = "failed" /\ local'[j].stage # "" => j \notin touched',
         work'[j] # None => WorkerOK(j)'
  PROVE  MaintenanceInv' /\ RowStep
<1>1. /\ count'.prof = count.prof /\ Jobs' = Jobs /\ Versions' = Versions
      /\ WorkerType' = WorkerType /\ OpenRC' = OpenRC
  BY SameProfile DEF CountMoves
<1>2. UNCHANGED <<now, spec, rows, server, diag, hb, rec, foreign>>
  BY DEF db
<1>3. /\ AgentOK(agent') /\ agent'.pc # "apply" /\ (agent'.pc = "boot" => OpenRC)
      /\ agent' = agent \/ agent'.pc \in {"idle", "boot"}
  BY Alone, FreshOK, TypedDb, TypedHost DEF MaintenanceInv, Locked
<1>4. Typed'
  BY <1>1, <1>2, <1>3, TypedHost DEF MaintenanceInv, Typed, ReportsOK, AgentOK, CountMoves, LocalStatus
<1>5. JobOK(j)'
  <2>1. Admitted(j)'
    BY <1>2, Alone DEF Admitted
  <2> QED  BY <2>1 DEF JobOK
<1>6. ASSUME NEW k \in Jobs \ {j} PROVE JobOK(k)'
  <2>1. JobOK(k) /\ (work[k] = None \/ work[k].pc = "report") /\ (k \in touched' <=> k \in touched)
    BY Alone DEF MaintenanceInv
  <2>2. local'[k] = local[k] /\ work'[k] = work[k] /\ (Admitted(k) => Admitted(k)')
    BY <1>2 DEF Admitted
  <2>3. work[k] # None => WorkerOK(k)'
    BY <2>1, <2>2 DEF JobOK, WorkerOK, Early
  <2> QED  BY <2>1, <2>2, <2>3 DEF JobOK
<1>7. Single'
  <2>1. \A k \in Jobs \ {j} : ~(local'[k] # None /\ Active(local'[k]))
    BY Alone
  <2> QED  BY <1>1, <1>3, <2>1 DEF Single, ActiveLocal, Active
<1>8. Locked'
  <2>1. None # AgentOwner /\ j # AgentOwner /\ None \notin Jobs
    BY OwnerFacts DEF MaintenanceInv
  <2> QED  BY <1>1, <1>3, <2>1 DEF Locked, AgentOwner
<1>9. Known'
  BY <1>2, <1>3 DEF Known, MaintenanceInv, ReportsOK, Admitted
<1>10. RowStep /\ RecOK(rec)'
  BY <1>1, <1>2, TypedDb DEF RowStep, RecOK
<1>11. RowsOK(rows)'
  BY <1>1, <1>10, SameRowsOK DEF RowStep
<1> QED  BY <1>1, <1>4, <1>5, <1>6, <1>7, <1>8, <1>9, <1>10, <1>11 DEF MaintenanceInv

(* The parts of a worker's step. *)
LEMMA ToEffect ==
  ASSUME MaintenanceInv, NEW j \in Jobs, work[j] # None, NEW pc \in Steps, To(j, pc)
  PROVE  /\ work' \in [Jobs -> WorkerType \cup {None}] /\ \A k \in Jobs \ {j} : work'[k] = work[k]
         /\ work'[j] # None /\ work'[j].pc = pc /\ work'[j].old = work[j].old
         /\ work'[j].status = work[j].status /\ work'[j].stage = work[j].stage
<1>1. PICK w : w = [work[j] EXCEPT !.pc = pc]
  OBVIOUS
<1>2. work[j] \in WorkerType /\ work \in [Jobs -> WorkerType \cup {None}]
  BY TypedHost
<1>3. work' = [work EXCEPT ![j] = w]
  BY <1>1, <1>2 DEF To
<1>4. w \in WorkerType /\ w.pc = pc /\ w.old = work[j].old /\ w.status = work[j].status
      /\ w.stage = work[j].stage
  BY <1>1, <1>2 DEF WorkerType
<1> HIDE DEF To
<1> QED  BY <1>2, <1>3, <1>4, NoneIsNoRecord DEF MaintenanceInv

LEMMA FinishEffect ==
  ASSUME MaintenanceInv, NEW j \in Jobs, work[j] # None, NEW st \in Results, NEW sg \in Stages,
         Finish(j, st, sg)
  PROVE  /\ work' \in [Jobs -> WorkerType \cup {None}] /\ \A k \in Jobs \ {j} : work'[k] = work[k]
         /\ work'[j] # None /\ work'[j].pc = "finish"
         /\ work'[j].status = st /\ work'[j].stage = sg
<1>1. PICK w : w = [work[j] EXCEPT !.pc = "finish", !.status = st, !.stage = sg]
  OBVIOUS
<1>2. work[j] \in WorkerType /\ work \in [Jobs -> WorkerType \cup {None}]
  BY TypedHost
<1>3. work' = [work EXCEPT ![j] = w]
  BY <1>1, <1>2 DEF Finish
<1>4. w \in WorkerType /\ w.pc = "finish" /\ w.status = st /\ w.stage = sg
  BY <1>1, <1>2 DEF WorkerType, Results, Statuses, Steps
<1> QED  BY <1>2, <1>3, <1>4, NoneIsNoRecord DEF MaintenanceInv

LEMMA StageEffect ==
  ASSUME MaintenanceInv, NEW j \in Jobs, work[j] # None, work[j].pc # "report",
         NEW st \in Reportable, NEW sg \in Stages, Stage(j, st, sg)
  PROVE  /\ local' \in [Jobs -> LocalStatus \cup {None}] /\ \A k \in Jobs \ {j} : local'[k] = local[k]
         /\ local'[j] # None /\ local'[j].status = st /\ local'[j].stage = sg
         /\ ReportsOK(reports')
<1>1. PICK l : l = [status |-> st, stage |-> sg]
  OBVIOUS
<1>2. l \in LocalStatus /\ l.status = st /\ l.stage = sg
  BY <1>1 DEF LocalStatus
<1>3. local' = [local EXCEPT ![j] = l] /\ reports' = reports \cup {Report(j, local'[j])}
  BY <1>1 DEF Stage
<1>4. /\ local' \in [Jobs -> LocalStatus \cup {None}] /\ \A k \in Jobs \ {j} : local'[k] = local[k]
      /\ local'[j] = l
  BY <1>2, <1>3, TypedHost
<1>5. reports' = reports \cup {Report(j, l)} /\ j \in DOMAIN rows
  BY <1>3, <1>4, Alone DEF Admitted
<1>6. ReportsOK(reports')
  BY <1>2, <1>5, ReportOK, TypedDb
<1> QED  BY <1>2, <1>4, <1>6, NoneIsNoRecord DEF MaintenanceInv

LEMMA SilentEffect ==
  ASSUME MaintenanceInv, NEW j \in Jobs, work[j] # None, work[j].pc # "report", Silent
  PROVE  /\ local' \in [Jobs -> LocalStatus \cup {None}] /\ \A k \in Jobs \ {j} : local'[k] = local[k]
         /\ local'[j] # None /\ Active(local'[j]) /\ local'[j].status # "failed"
         /\ ReportsOK(reports')
  BY TypedHost, TypedDb, Alone DEF Silent, Active

LEMMA FreeEffect ==
  ASSUME MaintenanceInv, NEW j \in Jobs, work[j] # None, work[j].pc # "report", Free(j)
  PROVE  lock' = None
  BY Alone DEF Free

LEMMA Words ==
  /\ "running" \in Reportable /\ "failed" \in Reportable /\ Results \subseteq Reportable
  /\ "failed" \in Results /\ "succeeded" \in Results /\ "rolled_back" \in Results
  /\ "" \in Stages /\ "retryable" \in Stages /\ DownloadFailure \subseteq Stages
  /\ Mutating \subseteq Steps /\ "lock" \in Steps /\ "finish" \in Steps /\ "report" \in Steps
  BY DEF Reportable, Results, Stages, DownloadFailure, Mutating, Steps

(* A worker is at one of its steps, and that is not the last. *)
LEMMA AtStep ==
  ASSUME MaintenanceInv, NEW j \in Jobs, NEW pc, At(j, pc), pc # "report"
  PROVE  /\ work[j] # None /\ work[j].pc = pc /\ work[j].pc # "report"
         /\ WorkerOK(j) /\ local[j] # None /\ Active(local[j]) /\ lock \in {None, j}
         /\ UNCHANGED count => CountMoves
         /\ Fault("step") => CountMoves /\ count'.used["step"] # 0
         /\ bin \in Versions \cup {None} /\ rows[j].sha \in Versions \cup {None}
<1>1. work[j] # None /\ work[j].pc = pc
  BY DEF At
<1>2. WorkerOK(j) /\ local[j] # None /\ Active(local[j]) /\ lock \in {None, j} /\ Admitted(j)
  BY <1>1, Alone
<1>3. Typed /\ rows[j] \in Row
  BY <1>2, RowsFacts DEF MaintenanceInv, RowsOK, Admitted
<1>4. rows[j].sha \in Versions \cup {None}
  BY <1>3 DEF Row
<1> QED  BY <1>1, <1>2, <1>3, <1>4, CountStep, StepCounts, TypedHost

(* A step that ends the job: the result is kept for the last stage. *)
LEMMA EndsJob ==
  ASSUME MaintenanceInv, NEW j \in Jobs, work[j] # None, work[j].pc # "report",
         NEW st \in Results, NEW sg \in Stages, Finish(j, st, sg), Silent, lock' = None,
         UNCHANGED <<now, db, hb, rec, foreign>>, CountMoves,
         agent' = agent \/ agent' = Gone, bin' \in Versions \cup {None},
         touched' = touched \/ touched' = touched \cup {j},
         sg # "" => j \notin touched'
  PROVE  MaintenanceInv' /\ RowStep
<1>1. /\ work' \in [Jobs -> WorkerType \cup {None}] /\ \A k \in Jobs \ {j} : work'[k] = work[k]
      /\ work'[j] # None /\ work'[j].pc = "finish" /\ work'[j].status = st /\ work'[j].stage = sg
  BY FinishEffect
<1>2. /\ local' \in [Jobs -> LocalStatus \cup {None}] /\ \A k \in Jobs \ {j} : local'[k] = local[k]
      /\ local'[j] # None /\ Active(local'[j]) /\ local'[j].status # "failed"
      /\ ReportsOK(reports')
  BY SilentEffect
<1>3. WorkerOK(j)'
  BY <1>1, <1>2 DEF WorkerOK, Active, Early
<1>4. lock' # j
  BY OwnerFacts DEF MaintenanceInv
<1> QED  BY <1>1, <1>2, <1>3, <1>4, WorkerFrame

(* A step that goes on to the next one. *)
LEMMA GoesOn ==
  ASSUME MaintenanceInv, NEW j \in Jobs, work[j] # None, work[j].pc # "report",
         NEW pc \in Mutating, To(j, pc), Silent \/ Stage(j, "running", ""), lock' \in {None, j},
         UNCHANGED <<now, db, hb, rec, foreign>>, CountMoves,
         agent' = agent \/ agent' = Gone \/ agent' = Fresh(bin), bin' \in Versions \cup {None},
         touched' = touched \/ touched' = touched \cup {j},
         pc \in Early => j \notin touched',
         pc \in {"start", "health"} => bin' = rows[j].sha /\ (OpenRC => lock' = None),
         pc = "health" => agent'.bin = bin',
         pc \in {"rollback", "restore"} => count'.used["step"] # 0
  PROVE  MaintenanceInv' /\ RowStep
<1>1. /\ work' \in [Jobs -> WorkerType \cup {None}] /\ \A k \in Jobs \ {j} : work'[k] = work[k]
      /\ work'[j] # None /\ work'[j].pc = pc
  BY ToEffect, Words
<1>2. /\ local' \in [Jobs -> LocalStatus \cup {None}] /\ \A k \in Jobs \ {j} : local'[k] = local[k]
      /\ local'[j] # None /\ Active(local'[j]) /\ local'[j].status # "failed"
      /\ ReportsOK(reports')
  <2>1. CASE Silent
    BY <2>1, SilentEffect
  <2>2. CASE Stage(j, "running", "")
    <3>1. PICK st \in Reportable, sg \in Stages : st = "running" /\ sg = ""
      BY Words
    <3>2. Stage(j, st, sg)
      BY <2>2, <3>1
    <3>3. /\ local' \in [Jobs -> LocalStatus \cup {None}] /\ \A k \in Jobs \ {j} : local'[k] = local[k]
          /\ local'[j] # None /\ local'[j].status = st /\ ReportsOK(reports')
      BY <3>2, StageEffect
    <3> QED  BY <3>1, <3>3 DEF Active
  <2> QED  BY <2>1, <2>2
<1>3. OpenRC' = OpenRC /\ UNCHANGED rows
  BY SameProfile DEF CountMoves, db
<1>4. WorkerOK(j)'
  BY <1>1, <1>2, <1>3 DEF WorkerOK, Active, Mutating
<1> QED  BY <1>1, <1>2, <1>4, WorkerFrame

LEMMA PrepareSteps ==
  ASSUME MaintenanceInv, NEW j \in Jobs, Preflight(j) \/ Uninstall(j) \/ Download(j)
  PROVE  MaintenanceInv' /\ RowStep
<1> USE Words
<1>1. CASE Preflight(j)
  <2>1. At(j, "preflight") /\ UNCHANGED <<now, db, hb, agent, bin, rec, foreign, touched>>
    BY <1>1 DEF Preflight
  <2>2. PICK pc : pc = IF rows[j].action = "uninstall" THEN "uninstall" ELSE "download"
    OBVIOUS
  <2>3. pc \in {"uninstall", "download"} /\ pc \in Mutating /\ j \notin touched
    BY <2>1, <2>2, AtStep DEF Mutating, WorkerOK, Early
  <2>4. CASE Stage(j, "running", "") /\ lock' = lock /\ UNCHANGED count /\ To(j, pc)
    BY <2>1, <2>3, <2>4, AtStep, GoesOn
  <2>5. CASE Fault("step") /\ Silent /\ Free(j) /\ Finish(j, "failed", "")
    BY <2>1, <2>5, AtStep, FreeEffect, EndsJob
  <2> QED  BY <1>1, <2>2, <2>4, <2>5 DEF Preflight
<1>2. CASE Uninstall(j)
  <2>1. /\ At(j, "uninstall") /\ Silent /\ Free(j) /\ touched' = touched \cup {j}
        /\ UNCHANGED <<now, db, hb, rec, foreign>>
    BY <1>2 DEF Uninstall
  <2>2. PICK st \in Results : Finish(j, st, "") /\ (UNCHANGED count \/ Fault("step"))
                              /\ (agent' = agent \/ agent' = Gone) /\ bin' \in {bin, None}
    BY <1>2 DEF Uninstall
  <2> QED  BY <2>1, <2>2, AtStep, FreeEffect, EndsJob
<1>3. CASE Download(j)
  <2>1. At(j, "download") /\ Silent /\ UNCHANGED <<now, db, hb, agent, bin, rec, foreign, touched>>
    BY <1>3 DEF Download
  <2>2. "prepare" \in Mutating /\ j \notin touched
    BY <2>1, AtStep DEF Mutating, WorkerOK, Early
  <2>3. CASE To(j, "prepare") /\ lock' = lock /\ UNCHANGED count
    BY <2>1, <2>2, <2>3, AtStep, GoesOn
  <2>4. CASE Fault("step") /\ Free(j) /\ \E stage \in DownloadFailure : Finish(j, "failed", stage)
    BY <2>1, <2>2, <2>4, AtStep, FreeEffect, EndsJob
  <2> QED  BY <1>3, <2>3, <2>4 DEF Download
<1> QED  BY <1>1, <1>2, <1>3

LEMMA NotHolding ==
  ASSUME MaintenanceInv, NEW j \in Jobs, work[j] # None, work[j].pc \notin Mutating,
         work[j].pc # "report"
  PROVE  lock = None
  BY Alone DEF MaintenanceInv, Locked

LEMMA WorkerReadStep ==
  ASSUME MaintenanceInv, NEW j \in Jobs, WorkerRead(j)
  PROVE  MaintenanceInv' /\ RowStep
<1> USE Words
<1>1. At(j, "read") /\ Silent /\ UNCHANGED <<now, db, hb, agent, bin, lock, rec, foreign, touched, count>>
  BY DEF WorkerRead
<1>2. /\ work[j] # None /\ work[j].pc = "read" /\ Active(local[j]) /\ CountMoves
      /\ bin \in Versions \cup {None} /\ j \notin touched
  BY <1>1, AtStep DEF WorkerOK, Early
<1>3. lock = None /\ lock' # j
  BY <1>1, <1>2, NotHolding, OwnerFacts DEF Mutating, MaintenanceInv
<1>4. To(j, "lock")
  BY <1>2 DEF WorkerRead
<1>5. /\ work' \in [Jobs -> WorkerType \cup {None}] /\ \A k \in Jobs \ {j} : work'[k] = work[k]
      /\ work'[j] # None /\ work'[j].pc = "lock"
  BY <1>2, <1>4, ToEffect
<1>6. /\ local' \in [Jobs -> LocalStatus \cup {None}] /\ \A k \in Jobs \ {j} : local'[k] = local[k]
      /\ local'[j] # None /\ Active(local'[j]) /\ local'[j].status # "failed" /\ ReportsOK(reports')
  BY <1>1, <1>2, SilentEffect
<1>7. WorkerOK(j)'
  BY <1>1, <1>2, <1>5, <1>6 DEF WorkerOK, Active
<1> QED  BY <1>1, <1>2, <1>3, <1>5, <1>6, <1>7, WorkerFrame

LEMMA WorkerLockStep ==
  ASSUME MaintenanceInv, NEW j \in Jobs, WorkerLock(j)
  PROVE  MaintenanceInv' /\ RowStep
<1> USE Words
<1>1. At(j, "lock") /\ UNCHANGED <<now, db, hb, agent, bin, rec, foreign, touched, count>>
  BY DEF WorkerLock
<1>2. /\ work[j] # None /\ work[j].pc = "lock" /\ Active(local[j]) /\ CountMoves
      /\ bin \in Versions \cup {None} /\ j \notin touched
  BY <1>1, AtStep DEF WorkerOK, Early
<1>3. lock = None
  BY <1>2, NotHolding DEF Mutating
<1>4. lock' = j /\ Stage(j, "running", "") /\ To(j, "preflight")
  BY <1>3 DEF WorkerLock
<1>5. "preflight" \in Mutating
  BY DEF Mutating
<1> QED  BY <1>1, <1>2, <1>4, <1>5, GoesOn

LEMMA PrepareStep ==
  ASSUME MaintenanceInv, NEW j \in Jobs, Prepare(j)
  PROVE  MaintenanceInv' /\ RowStep
<1> USE Words
<1>1. At(j, "prepare") /\ UNCHANGED <<now, db, hb, agent, bin, rec, foreign, touched>>
  BY DEF Prepare
<1>2. /\ work[j] # None /\ work[j].pc = "prepare" /\ lock \in {None, j}
      /\ bin \in Versions \cup {None} /\ j \notin touched
  BY <1>1, AtStep DEF WorkerOK, Early
<1>3. CASE /\ Stage(j, "running", "") /\ lock' = lock /\ UNCHANGED count
           /\ work' = [work EXCEPT ![j] = [@ EXCEPT !.pc = "stop", !.old = bin]]
  <2>1. PICK w : w = [work[j] EXCEPT !.pc = "stop", !.old = bin]
    OBVIOUS
  <2>2. work[j] \in WorkerType /\ work \in [Jobs -> WorkerType \cup {None}] /\ CountMoves
    BY <1>1, <1>2, <1>3, TypedHost, AtStep
  <2>3. "stop" \in Steps /\ "stop" \in Mutating
    BY DEF Mutating, Steps
  <2>4. w \in WorkerType /\ w.pc = "stop"
    BY <1>2, <2>1, <2>2, <2>3 DEF WorkerType
  <2>5. work' = [work EXCEPT ![j] = w]
    BY <1>3, <2>1, <2>2
  <2>6. /\ work' \in [Jobs -> WorkerType \cup {None}] /\ \A k \in Jobs \ {j} : work'[k] = work[k]
        /\ work'[j] # None /\ work'[j].pc = "stop"
    BY <2>2, <2>4, <2>5, NoneIsNoRecord DEF MaintenanceInv
  <2>7. PICK st \in Reportable, sg \in Stages : st = "running" /\ sg = ""
    OBVIOUS
  <2>8. /\ local' \in [Jobs -> LocalStatus \cup {None}] /\ \A k \in Jobs \ {j} : local'[k] = local[k]
        /\ local'[j] # None /\ local'[j].status = st /\ ReportsOK(reports')
    BY <1>2, <1>3, <2>7, StageEffect
  <2>9. WorkerOK(j)'
    BY <1>1, <1>2, <2>6, <2>7, <2>8 DEF WorkerOK, Active
  <2> QED  BY <1>1, <1>2, <1>3, <2>2, <2>3, <2>6, <2>7, <2>8, <2>9, WorkerFrame
<1>4. CASE Fault("step") /\ Silent /\ Free(j) /\ Finish(j, "failed", "")
  BY <1>1, <1>4, AtStep, FreeEffect, EndsJob
<1> QED  BY <1>3, <1>4 DEF Prepare

LEMMA StopStep ==
  ASSUME MaintenanceInv, NEW j \in Jobs, Stop(j)
  PROVE  MaintenanceInv' /\ RowStep
<1> USE Words
<1>1. At(j, "stop") /\ Silent /\ UNCHANGED <<now, db, hb, bin, rec, foreign>>
  BY DEF Stop
<1>2. CASE /\ agent' = Gone /\ touched' = touched \cup {j} /\ To(j, "install")
           /\ lock' = lock /\ UNCHANGED count
  <2>1. "install" \in Mutating /\ "install" \notin Early
    BY DEF Mutating, Early
  <2> QED  BY <1>1, <1>2, <2>1, AtStep, GoesOn
<1>3. CASE /\ Fault("step") /\ Free(j) /\ Finish(j, "failed", "")
           /\ agent' \in {agent} \cup (IF OpenRC THEN {Gone} ELSE {})
           /\ touched' = IF agent' = agent THEN touched ELSE touched \cup {j}
  <2>1. agent' = agent \/ agent' = Gone
    BY <1>3
  <2>2. touched' = touched \/ touched' = touched \cup {j}
    BY <1>3
  <2> QED  BY <1>1, <1>3, <2>1, <2>2, AtStep, FreeEffect, EndsJob
<1> QED  BY <1>2, <1>3 DEF Stop

LEMMA ReleaseEffect ==
  ASSUME MaintenanceInv, NEW j \in Jobs, work[j] # None, work[j].pc # "report", Release(j)
  PROVE  lock' \in {None, j} /\ (OpenRC => lock' = None)
  BY Alone, FreeEffect DEF Release

LEMMA InstallStep ==
  ASSUME MaintenanceInv, NEW j \in Jobs, Install(j)
  PROVE  MaintenanceInv' /\ RowStep
<1>1. At(j, "install") /\ Release(j) /\ UNCHANGED <<now, db, hb, agent, rec, foreign, touched>>
  BY DEF Install
<1>2. lock' \in {None, j} /\ (OpenRC => lock' = None)
  BY <1>1, AtStep, ReleaseEffect
<1>3. CASE bin' = rows[j].sha /\ Silent /\ To(j, "start") /\ UNCHANGED count
  <2>1. "start" \in Mutating /\ "start" \notin Early
    BY DEF Mutating, Early
  <2> QED  BY <1>1, <1>2, <1>3, <2>1, AtStep, GoesOn
<1>4. CASE /\ Fault("step") /\ Stage(j, "running", "") /\ To(j, "rollback")
           /\ bin' \in Failed(rows[j].sha)
  <2>1. "rollback" \in Mutating /\ "rollback" \notin Early
    BY DEF Mutating, Early
  <2>2. bin' \in Versions \cup {None}
    BY <1>1, <1>4, AtStep DEF Failed
  <2> QED  BY <1>1, <1>2, <1>4, <2>1, <2>2, AtStep, GoesOn
<1> QED  BY <1>3, <1>4 DEF Install

LEMMA StartNewStep ==
  ASSUME MaintenanceInv, NEW j \in Jobs, StartNew(j)
  PROVE  MaintenanceInv' /\ RowStep
<1>1. At(j, "start") /\ UNCHANGED <<now, db, hb, bin, lock, rec, foreign, touched>>
  BY DEF StartNew
<1>2. bin = rows[j].sha /\ (OpenRC => lock = None)
  BY <1>1, AtStep DEF WorkerOK
<1>3. CASE agent' = Fresh(bin) /\ Silent /\ To(j, "health") /\ UNCHANGED count
  <2>1. "health" \in Mutating /\ "health" \notin Early
    BY DEF Mutating, Early
  <2>2. agent'.bin = bin'
    BY <1>1, <1>3, FreshOK, TypedHost DEF MaintenanceInv
  <2> QED  BY <1>1, <1>2, <1>3, <2>1, <2>2, AtStep, GoesOn
<1>4. CASE Fault("step") /\ Stage(j, "running", "") /\ To(j, "rollback") /\ UNCHANGED agent
  <2>1. "rollback" \in Mutating /\ "rollback" \notin Early
    BY DEF Mutating, Early
  <2> QED  BY <1>1, <1>2, <1>4, <2>1, AtStep, GoesOn
<1> QED  BY <1>3, <1>4 DEF StartNew

(* The new agent is what was installed and is not kept waiting, so that only a
   failure lets the check fail. *)
LEMMA HealthStep ==
  ASSUME MaintenanceInv, NEW j \in Jobs, Health(j)
  PROVE  MaintenanceInv' /\ RowStep
<1> USE Words
<1>1. At(j, "health") /\ UNCHANGED <<now, db, hb, agent, bin, rec, foreign, touched>>
  BY DEF Health
<1>2. bin = rows[j].sha /\ (OpenRC => lock = None) /\ agent.bin = bin
  BY <1>1, AtStep DEF WorkerOK
<1>3. CASE /\ Healthy(rows[j].sha) /\ Silent /\ Free(j) /\ Finish(j, "succeeded", "")
           /\ UNCHANGED count
  BY <1>1, <1>3, AtStep, FreeEffect, EndsJob
<1>4. CASE /\ Unhealthy(rows[j].sha)
           /\ Stage(j, "running", "") /\ lock' = lock /\ To(j, "rollback")
  <2>1. ~Stuck
    BY <1>2 DEF Stuck, MaintenanceInv, Locked
  <2>2. Fault("step")
    BY <1>2, <1>4, <2>1 DEF Unhealthy
  <2>3. "rollback" \in Mutating /\ "rollback" \notin Early
    BY DEF Mutating, Early
  <2> QED  BY <1>1, <1>4, <2>2, <2>3, AtStep, GoesOn
<1> QED  BY <1>3, <1>4 DEF Health

LEMMA RollbackSteps ==
  ASSUME MaintenanceInv, NEW j \in Jobs, Rollback(j) \/ Restore(j) \/ StartOld(j) \/ OldHealth(j)
  PROVE  MaintenanceInv' /\ RowStep
<1> USE Words
<1>0. {"restore", "restart", "oldhealth"} \subseteq Mutating
      /\ {"restore", "restart", "oldhealth"} \cap Early = {}
  BY DEF Mutating, Early
<1>1. CASE Rollback(j)
  <2>1. At(j, "rollback") /\ Silent /\ UNCHANGED <<now, db, hb, bin, rec, foreign, touched>>
    BY <1>1 DEF Rollback
  <2>2. CASE agent' = Gone /\ lock' = (IF lock = AgentOwner THEN None ELSE lock)
             /\ To(j, "restore") /\ UNCHANGED count
    <3>1. lock' \in {None, j} /\ count'.used["step"] # 0
      BY <2>1, <2>2, AtStep DEF WorkerOK
    <3> QED  BY <1>0, <2>1, <2>2, <3>1, AtStep, GoesOn
  <2>3. CASE Fault("step") /\ Free(j) /\ Finish(j, "failed", "") /\ UNCHANGED agent
    BY <2>1, <2>3, AtStep, FreeEffect, EndsJob
  <2> QED  BY <1>1, <2>2, <2>3 DEF Rollback
<1>2. CASE Restore(j)
  <2>1. At(j, "restore") /\ Silent /\ UNCHANGED <<now, db, hb, agent, rec, foreign, touched>>
    BY <1>2 DEF Restore
  <2>2. work[j].old \in Versions \cup {None}
    BY <2>1, AtStep, TypedHost DEF WorkerType
  <2>3. CASE bin' = work[j].old /\ Release(j) /\ To(j, "restart") /\ UNCHANGED count
    <3>1. lock' \in {None, j}
      BY <2>1, <2>3, AtStep, ReleaseEffect
    <3> QED  BY <1>0, <2>1, <2>2, <2>3, <3>1, AtStep, GoesOn
  <2>4. CASE Fault("step") /\ bin' \in Failed(work[j].old) /\ Free(j) /\ Finish(j, "failed", "")
    <3>1. bin' \in Versions \cup {None}
      BY <2>1, <2>2, <2>4, AtStep DEF Failed
    <3> QED  BY <2>1, <2>4, <3>1, AtStep, FreeEffect, EndsJob
  <2> QED  BY <1>2, <2>3, <2>4 DEF Restore
<1>3. CASE StartOld(j)
  <2>1. At(j, "restart") /\ Silent /\ UNCHANGED <<now, db, hb, bin, rec, foreign, touched>>
    BY <1>3 DEF StartOld
  <2>2. CASE agent' = Fresh(bin) /\ To(j, "oldhealth") /\ lock' = lock /\ UNCHANGED count
    BY <1>0, <2>1, <2>2, AtStep, GoesOn
  <2>3. CASE Fault("step") /\ Free(j) /\ Finish(j, "failed", "") /\ UNCHANGED agent
    BY <2>1, <2>3, AtStep, FreeEffect, EndsJob
  <2> QED  BY <1>3, <2>2, <2>3 DEF StartOld
<1>4. CASE OldHealth(j)
  <2>1. /\ At(j, "oldhealth") /\ Silent /\ Free(j)
        /\ UNCHANGED <<now, db, hb, agent, bin, rec, foreign, touched>>
    BY <1>4 DEF OldHealth
  <2>2. PICK st \in Results : Finish(j, st, "") /\ (UNCHANGED count \/ Fault("step"))
    BY <1>4 DEF OldHealth, Unhealthy
  <2> QED  BY <2>1, <2>2, AtStep, FreeEffect, EndsJob
<1> QED  BY <1>1, <1>2, <1>3, <1>4

LEMMA FinishedStep ==
  ASSUME MaintenanceInv, NEW j \in Jobs, Finished(j)
  PROVE  MaintenanceInv' /\ RowStep
<1> USE Words
<1>1. /\ At(j, "finish") /\ To(j, "report")
      /\ UNCHANGED <<now, db, hb, agent, bin, lock, rec, foreign, touched, count>>
  BY DEF Finished
<1>2. /\ work[j] # None /\ work[j].pc = "finish" /\ work[j].status \in Results
      /\ work[j].stage # "" => j \notin touched
      /\ bin \in Versions \cup {None} /\ CountMoves
  BY <1>1, AtStep DEF WorkerOK
<1>3. lock = None /\ lock' # j
  BY <1>1, <1>2, NotHolding, OwnerFacts DEF Mutating, MaintenanceInv
<1>4. PICK st \in Results, sg \in Stages : st = work[j].status /\ sg = work[j].stage
  BY <1>2, TypedHost DEF WorkerType
<1>5. Stage(j, st, sg)
  BY <1>4 DEF Finished
<1>6. /\ work' \in [Jobs -> WorkerType \cup {None}] /\ \A k \in Jobs \ {j} : work'[k] = work[k]
      /\ work'[j] # None /\ work'[j].pc = "report"
  BY <1>1, <1>2, ToEffect
<1>7. /\ local' \in [Jobs -> LocalStatus \cup {None}] /\ \A k \in Jobs \ {j} : local'[k] = local[k]
      /\ local'[j] # None /\ local'[j].status = st /\ local'[j].stage = sg /\ ReportsOK(reports')
  BY <1>2, <1>5, StageEffect
<1>8. WorkerOK(j)'
  BY <1>6, <1>7 DEF WorkerOK, Early
<1> QED  BY <1>1, <1>2, <1>3, <1>4, <1>6, <1>7, <1>8, WorkerFrame

LEMMA WorkerSteps ==
  ASSUME MaintenanceInv, NEW j \in Jobs, WorkerStep(j)
  PROVE  MaintenanceInv' /\ RowStep
  BY WorkerReadStep, WorkerLockStep, PrepareSteps, PrepareStep, StopStep, InstallStep,
     StartNewStep, HealthStep, RollbackSteps, FinishedStep DEF WorkerStep

-----------------------------------------------------------------------------
(* The other steps on the host: admission, recovery, configuration, deaths. *)
LEMMA HostFrame ==
  ASSUME MaintenanceInv, UNCHANGED <<now, db, hb, bin, touched>>, CountMoves,
         ReportsOK(reports'), AgentOK(agent'), agent'.bin \in {agent.bin, bin},
         agent'.pc = "boot" => agent.pc = "boot" \/ OpenRC,
         rec' \in {rec, None}, foreign' \in BOOLEAN, lock' \in Jobs \cup {AgentOwner, None},
         local' \in [Jobs -> LocalStatus \cup {None}], work' \in [Jobs -> WorkerType \cup {None}],
         \A k \in Jobs :
           \/ local'[k] = local[k]
           \/ /\ local'[k] # None /\ Admitted(k) /\ work[k] = None
              /\ local'[k].status = "failed" => k \notin touched,
         \A k \in Jobs :
           \/ work'[k] = work[k] \/ work'[k] = None
           \/ work'[k].pc = "read" /\ local'[k] # None /\ Active(local'[k]) /\ k \notin touched,
         lock' \in {lock, None} \/ ActiveLocal(local) = {},
         agent'.pc \in {"claim", "start", "report"} =>
           agent'.job = agent.job /\ (agent'.pc = agent.pc \/ agent.pc = "start"),
         Single', lock' = AgentOwner => agent'.pc = "apply",
         lock' \in Jobs => work'[lock'] # None /\ work'[lock'].pc \in Mutating
  PROVE  MaintenanceInv' /\ RowStep
<1>1. /\ count'.prof = count.prof /\ Jobs' = Jobs /\ Versions' = Versions
      /\ WorkerType' = WorkerType /\ OpenRC' = OpenRC
  BY SameProfile DEF CountMoves
<1>2. UNCHANGED <<now, spec, rows, server, diag, hb, bin, touched>>
  BY DEF db
<1>3. Typed' /\ RecOK(rec)'
  <2>1. RecOK(rec)'
    BY <1>1 DEF MaintenanceInv, RecOK
  <2> QED  BY <1>1, <1>2, <2>1 DEF MaintenanceInv, Typed, ReportsOK, AgentOK, CountMoves, LocalStatus, RecOK
<1>4. ASSUME NEW k \in Jobs PROVE JobOK(k)'
  <2>1. JobOK(k) /\ (Admitted(k) => Admitted(k)') /\ (k \in touched' <=> k \in touched)
    BY <1>2 DEF MaintenanceInv, Admitted
  <2>2. (local'[k] # None => Admitted(k)') /\ (local'[k] = None => local[k] = None)
    BY <2>1 DEF JobOK
  <2>3. local'[k] # None /\ local'[k].status = "failed" /\ local'[k].stage # "" => k \notin touched
    BY <2>1 DEF JobOK
  <2>4. ASSUME work'[k] # None, work'[k] = work[k] PROVE WorkerOK(k)' /\ local'[k] # None
    <3>1. WorkerOK(k) /\ local'[k] = local[k] /\ local[k] # None
      BY <2>1, <2>4 DEF JobOK
    <3>2. work[k].pc \in {"start", "health"} => lock' \in {lock, None}
      BY <3>1 DEF WorkerOK, ActiveLocal
    <3>3. work[k].pc \in {"start", "health"} => (OpenRC' => lock' = None)
      BY <1>1, <3>1, <3>2 DEF WorkerOK
    <3> QED  BY <1>1, <1>2, <2>4, <3>1, <3>3 DEF WorkerOK, Active, CountMoves
  <2>5. ASSUME work'[k] # None, work'[k] # work[k] PROVE WorkerOK(k)' /\ local'[k] # None
    BY <1>2, <2>5 DEF WorkerOK, Active
  <2> QED  BY <2>1, <2>2, <2>3, <2>4, <2>5 DEF JobOK
<1>5. Locked'
  BY <1>1 DEF MaintenanceInv, Locked, AgentOwner
<1>6. Known'
  BY <1>2 DEF MaintenanceInv, Known, ReportsOK, Admitted
<1>7. RowStep
  BY <1>2, TypedDb DEF RowStep
<1>8. RowsOK(rows)'
  BY <1>1, <1>7, SameRowsOK DEF RowStep
<1> QED  BY <1>1, <1>3, <1>4, <1>5, <1>6, <1>7, <1>8 DEF MaintenanceInv

LEMMA FaultCounts ==
  ASSUME Typed, UNCHANGED count \/ Fault("kill") \/ Fault("net") \/ Fault("crash") \/ Fault("launch")
  PROVE  CountMoves
<1>1. {"kill", "net", "crash", "launch"} \subseteq FaultKinds
  BY DEF FaultKinds
<1> QED  BY <1>1, CountStep

(* A worker goes: it exits, is killed, or the host restarts. *)
LEMMA WorkerGoes ==
  ASSUME MaintenanceInv, \E j \in Jobs : Exit(j) \/ Kill(j)
  PROVE  MaintenanceInv' /\ RowStep
<1> USE TypedDb, TypedHost
<1>1. PICK j \in Jobs : Exit(j) \/ Kill(j)
  OBVIOUS
<1>2. /\ work' = [work EXCEPT ![j] = None] /\ work[j] # None
      /\ UNCHANGED <<now, db, hb, reports, agent, bin, local, rec, foreign, touched>>
  BY <1>1 DEF Exit, Kill, At
<1>3. CountMoves
  BY <1>1, FaultCounts DEF Exit, Kill
<1>4. lock' \in {lock, None} /\ lock' # j
  <2>1. CASE Exit(j)
    BY <2>1, OwnerFacts DEF Exit, At, MaintenanceInv, Locked, Mutating
  <2>2. CASE Kill(j)
    BY <2>2, OwnerFacts DEF Kill, Free
  <2> QED  BY <1>1, <2>1, <2>2
<1>5. /\ work' \in [Jobs -> WorkerType \cup {None}] /\ work'[j] = None
      /\ \A k \in Jobs \ {j} : work'[k] = work[k]
  BY <1>2
<1>6. /\ lock' = AgentOwner => agent'.pc = "apply"
      /\ lock' \in Jobs => work'[lock'] # None /\ work'[lock'].pc \in Mutating
  <2>1. None # AgentOwner /\ None \notin Jobs
    BY OwnerFacts
  <2> QED  BY <1>2, <1>4, <1>5, <2>1 DEF MaintenanceInv, Locked
<1>7. Single'
  <2>1. Jobs' = Jobs
    BY <1>3, SameProfile DEF CountMoves
  <2> QED  BY <1>2, <2>1 DEF MaintenanceInv, Single, ActiveLocal, Active
<1> QED  BY <1>2, <1>3, <1>4, <1>5, <1>6, <1>7, HostFrame

LEMMA Deaths ==
  ASSUME MaintenanceInv, AgentCrash \/ Reboot
  PROVE  MaintenanceInv' /\ RowStep
<1> USE TypedDb, TypedHost
<1>1. /\ UNCHANGED <<now, db, hb, reports, bin, local, touched>> /\ agent' = Fresh(bin)
      /\ rec' \in {rec, None} /\ foreign' \in BOOLEAN /\ Fault("crash")
  BY DEF AgentCrash, Reboot
<1>2. CountMoves
  BY <1>1, FaultCounts
<1>3. /\ AgentOK(agent') /\ agent'.bin = bin /\ agent'.pc \in {"idle", "boot"}
      /\ agent'.pc = "boot" => OpenRC
  BY <1>1, FreshOK
<1>4. lock' \in {lock, None} /\ lock' # AgentOwner
  BY OwnerFacts DEF AgentCrash, Reboot
<1>5. /\ work' \in [Jobs -> WorkerType \cup {None}]
      /\ \A k \in Jobs : work'[k] = work[k] \/ work'[k] = None
      /\ lock' \in Jobs => UNCHANGED work /\ lock' = lock
  BY OwnerFacts DEF AgentCrash, Reboot
<1>6. lock' \in Jobs => work'[lock'] # None /\ work'[lock'].pc \in Mutating
  BY <1>5 DEF MaintenanceInv, Locked
<1>7. Single'
  <2>1. Jobs' = Jobs
    BY <1>2, SameProfile DEF CountMoves
  <2> QED  BY <1>1, <1>3, <2>1 DEF MaintenanceInv, Single, ActiveLocal, Active
<1> QED  BY <1>1, <1>2, <1>3, <1>4, <1>5, <1>6, <1>7, HostFrame

(* Configuration starts only when no job is active. *)
LEMMA ConfigureSteps ==
  ASSUME MaintenanceInv, Configure \/ Configured
  PROVE  MaintenanceInv' /\ RowStep
<1> USE TypedDb, TypedHost
<1>1. UNCHANGED <<now, db, hb, reports, bin, local, work, rec, foreign, touched, count>>
  BY DEF Configure, Configured
<1>2. CountMoves /\ Jobs' = Jobs
  <2>1. CountMoves
    BY <1>1, FaultCounts
  <2> QED  BY <2>1, SameProfile DEF CountMoves
<1>3. CASE agent' = Idle /\ lock' \in {lock, None} /\ (lock' = AgentOwner => lock = AgentOwner /\ agent.pc = "configure")
  <2>1. AgentOK(agent') /\ agent'.pc = "idle" /\ agent'.bin = agent.bin
    BY <1>3, IdleOK
  <2>2. Single'
    BY <1>1, <1>2, <2>1 DEF MaintenanceInv, Single, ActiveLocal, Active
  <2>3. /\ lock' # AgentOwner
        /\ lock' \in Jobs => work'[lock'] # None /\ work'[lock'].pc \in Mutating
    BY <1>1, <1>3, OwnerFacts DEF MaintenanceInv, Locked
  <2> QED  BY <1>1, <1>2, <1>3, <2>1, <2>2, <2>3, HostFrame
<1>4. CASE /\ FreeToConfigure /\ lock' = AgentOwner /\ agent' = [agent EXCEPT !.pc = "apply"]
           /\ agent.pc = "configure"
  <2>1. AgentOK(agent') /\ agent'.pc = "apply" /\ agent'.bin = agent.bin
    BY <1>4 DEF AgentOK, AgentPcs
  <2>2. ActiveLocal(local) = {} /\ ActiveLocal(local)' = {}
    BY <1>1, <1>2, <1>4 DEF FreeToConfigure, ActiveLocal, Active
  <2>3. Single'
    BY <2>2 DEF Single
  <2>4. lock' \notin Jobs
    BY <1>4, OwnerFacts
  <2> QED  BY <1>1, <1>2, <1>4, <2>1, <2>2, <2>3, <2>4, HostFrame
<1>5. Configured => agent' = Idle /\ lock' = None
  BY DEF Configured
<1> QED  BY <1>3, <1>4, <1>5, OwnerFacts DEF Configure

(* Interrupting jobs that have no worker. *)
LEMMA InterruptedJobs ==
  ASSUME MaintenanceInv, NEW S, S \subseteq Jobs,
         \A k \in S : local[k] # None /\ work[k] = None
  PROVE  /\ Interrupted(S) \in [Jobs -> LocalStatus \cup {None}]
         /\ \A k \in Jobs \ S : Interrupted(S)[k] = local[k]
         /\ \A k \in S : /\ Interrupted(S)[k] # None /\ Interrupted(S)[k].status = "interrupted"
                         /\ Admitted(k)
         /\ \A k \in Jobs : Interrupted(S)[k] = None <=> local[k] = None
         /\ ActiveLocal(Interrupted(S)) \subseteq ActiveLocal(local)
<1>1. PICK r : r = [status |-> "interrupted", stage |-> ""]
  OBVIOUS
<1>2. r \in LocalStatus /\ r # None /\ r.status = "interrupted"
  <2>1. r \in LocalStatus /\ r.status = "interrupted"
    BY <1>1 DEF LocalStatus, Reportable, Stages
  <2> QED  BY <2>1, NoneIsNoRecord DEF MaintenanceInv
<1>3. PICK l : l = Interrupted(S)
  OBVIOUS
<1>4. l = [j \in Jobs |-> IF j \in S THEN r ELSE local[j]]
  BY <1>1, <1>3 DEF Interrupted
<1>5. /\ l \in [Jobs -> LocalStatus \cup {None}] /\ \A k \in Jobs \ S : l[k] = local[k]
      /\ \A k \in S : l[k] = r
  BY <1>2, <1>4, TypedHost
<1>6. \A k \in S : Admitted(k)
  BY DEF MaintenanceInv, JobOK
<1>7. ActiveLocal(l) \subseteq ActiveLocal(local)
  BY <1>2, <1>5 DEF ActiveLocal, Active
<1> QED  BY <1>2, <1>3, <1>5, <1>6, <1>7

LEMMA RecoverWriteStep ==
  ASSUME MaintenanceInv, RecoverWrite
  PROVE  MaintenanceInv' /\ RowStep
<1> USE TypedDb, TypedHost
<1>1. /\ UNCHANGED <<now, db, hb, reports, agent, bin, work, lock, foreign, touched, count>>
      /\ rec # None /\ rec' = None
      /\ local' = IF work[rec] = None THEN Interrupted({rec}) ELSE local
  BY DEF RecoverWrite
<1>2. CountMoves /\ Jobs' = Jobs
  <2>1. CountMoves
    BY <1>1, FaultCounts
  <2> QED  BY <2>1, SameProfile DEF CountMoves
<1>3. PICK r \in Jobs : r = rec /\ local[r] # None
  BY <1>1 DEF RecOK
<1>4. /\ local' \in [Jobs -> LocalStatus \cup {None}]
      /\ \A k \in Jobs :
           \/ local'[k] = local[k]
           \/ local'[k] # None /\ Admitted(k) /\ work[k] = None /\ local'[k].status # "failed"
      /\ ActiveLocal(local') \subseteq ActiveLocal(local)
  <2>1. CASE work[rec] = None
    BY <1>1, <1>3, <2>1, InterruptedJobs
  <2>2. CASE work[rec] # None
    BY <1>1, <2>2
  <2> QED  BY <2>1, <2>2
<1>5. Single'
  <2>1. ActiveLocal(local)' = ActiveLocal(local')
    BY <1>2 DEF ActiveLocal, Active
  <2> QED  BY <1>1, <1>4, <2>1 DEF MaintenanceInv, Single
<1>6. /\ lock' = AgentOwner => agent'.pc = "apply"
      /\ lock' \in Jobs => work'[lock'] # None /\ work'[lock'].pc \in Mutating
  BY <1>1 DEF MaintenanceInv, Locked
<1> QED  BY <1>1, <1>2, <1>4, <1>5, <1>6, HostFrame

(* Admission: a job that is not known to the host and finds no active one. *)
LEMMA LaunchStep ==
  ASSUME MaintenanceInv, agent.pc = "start", NEW j \in Jobs, j = agent.job,
         NEW S, S \subseteq Stale, NEW l, l = Interrupted(S),
         l[j] = None, ActiveLocal(l) = {}, lock = None, Launch(j, l),
         UNCHANGED <<now, db, hb, bin, lock, rec, foreign, touched>>
  PROVE  MaintenanceInv' /\ RowStep
<1> USE TypedDb, TypedHost
<1>1. /\ l \in [Jobs -> LocalStatus \cup {None}] /\ local[j] = None
      /\ \A k \in Jobs :
           \/ l[k] = local[k]
           \/ l[k] # None /\ Admitted(k) /\ work[k] = None /\ l[k].status = "interrupted"
  BY InterruptedJobs DEF Stale
<1>2. work[j] = None /\ j \notin touched /\ Admitted(j)
  BY <1>1 DEF MaintenanceInv, JobOK, Known
<1>3. PICK q : q = [status |-> "queued", stage |-> ""]
  OBVIOUS
<1>4. q \in LocalStatus /\ q # None /\ q.status = "queued"
  <2>1. q \in LocalStatus /\ q.status = "queued"
    BY <1>3 DEF LocalStatus, Stages
  <2> QED  BY <2>1, NoneIsNoRecord
<1>5. Undispatched \in LocalStatus /\ Undispatched # None /\ Undispatched.status = "failed"
      /\ Undispatched.stage = "dispatch"
  <2>1. Undispatched \in LocalStatus /\ Undispatched.status = "failed"
        /\ Undispatched.stage = "dispatch"
    BY DEF Undispatched, LocalStatus, Reportable, Results, Stages
  <2> QED  BY <2>1, NoneIsNoRecord
<1>6. Worker("read") \in WorkerType /\ Worker("read").pc = "read" /\ Worker("read") # None
  <2>1. Worker("read") \in WorkerType /\ Worker("read").pc = "read"
    BY DEF Worker, WorkerType, Steps, Statuses, Stages
  <2> QED  BY <2>1, NoneIsNoRecord
<1>7. ASSUME NEW r \in LocalStatus, r # None, local' = [l EXCEPT ![j] = r]
      PROVE  /\ local' \in [Jobs -> LocalStatus \cup {None}] /\ local'[j] = r
             /\ \A k \in Jobs :
                  \/ local'[k] = local[k]
                  \/ /\ local'[k] # None /\ Admitted(k) /\ work[k] = None
                     /\ local'[k].status = "failed" => k \notin touched
             /\ ActiveLocal(local') \subseteq {j} /\ (~Active(r) => ActiveLocal(local') = {})
  <2>1. /\ local' \in [Jobs -> LocalStatus \cup {None}] /\ local'[j] = r
        /\ \A k \in Jobs \ {j} : local'[k] = l[k]
    BY <1>1, <1>7
  <2>2. ActiveLocal(local') \subseteq {j} /\ (~Active(r) => ActiveLocal(local') = {})
    BY <2>1 DEF ActiveLocal
  <2>3. ASSUME NEW k \in Jobs
        PROVE  \/ local'[k] = local[k]
               \/ /\ local'[k] # None /\ Admitted(k) /\ work[k] = None
                  /\ local'[k].status = "failed" => k \notin touched
    <3>1. CASE k = j
      BY <1>2, <1>7, <2>1, <3>1
    <3>2. CASE k # j
      BY <1>1, <2>1, <3>2
    <3> QED  BY <3>1, <3>2
  <2> QED  BY <2>1, <2>2, <2>3
<1>8. lock' # AgentOwner /\ lock' \notin Jobs
  BY OwnerFacts
<1>9. ASSUME CountMoves, agent'.pc # "apply", ActiveLocal(local') \subseteq {j} PROVE Single'
  <2>1. ActiveLocal(local)' = ActiveLocal(local')
    BY <1>9, SameProfile DEF ActiveLocal, Active, CountMoves
  <2> QED  BY <1>9, <2>1 DEF Single
<1>10. CASE /\ local' = [l EXCEPT ![j] = [status |-> "queued", stage |-> ""]]
            /\ work' = [work EXCEPT ![j] = Worker("read")]
            /\ agent' = Idle /\ UNCHANGED <<reports, count>>
  <2>1. CountMoves /\ AgentOK(agent') /\ agent'.pc = "idle" /\ agent'.bin = agent.bin
    BY <1>10, FaultCounts, IdleOK
  <2>2. /\ work' \in [Jobs -> WorkerType \cup {None}] /\ \A k \in Jobs \ {j} : work'[k] = work[k]
        /\ work'[j].pc = "read"
    BY <1>6, <1>10
  <2>3. local'[j] = q /\ Active(local'[j])
    BY <1>3, <1>4, <1>7, <1>10 DEF Active
  <2> QED  BY <1>2, <1>3, <1>4, <1>7, <1>8, <1>9, <1>10, <2>1, <2>2, <2>3, HostFrame
<1>11. CASE /\ Fault("launch") /\ local' \in {l, [l EXCEPT ![j] = Undispatched]}
            /\ Send(Report(j, Undispatched)) /\ work' = work
  <2>1. PICK sg \in Stages, st \in Reportable : sg = "dispatch" /\ st = "failed"
    BY DEF Stages, Reportable, Results
  <2>2. CountMoves /\ ReportsOK(reports')
    <3>1. ReportsOK(reports \cup {Report(j, Undispatched)})
      BY <1>2, <1>5, <2>1, ReportOK DEF Admitted
    <3> QED  BY <1>11, <3>1, FaultCounts DEF Send
  <2>3. AgentOK(agent') /\ agent'.pc = "report" /\ agent'.bin = agent.bin /\ agent'.job = agent.job
    BY <1>11 DEF Send, AgentOK, AgentPcs
  <2>4. /\ local' \in [Jobs -> LocalStatus \cup {None}] /\ ActiveLocal(local') \subseteq {j}
        /\ \A k \in Jobs :
             \/ local'[k] = local[k]
             \/ /\ local'[k] # None /\ Admitted(k) /\ work[k] = None
                /\ local'[k].status = "failed" => k \notin touched
    BY <1>1, <1>5, <1>7, <1>11
  <2> QED  BY <1>8, <1>9, <1>11, <2>2, <2>3, <2>4, HostFrame
<1>12. CASE /\ Fault("crash") /\ local' = [l EXCEPT ![j] = [status |-> "queued", stage |-> ""]]
            /\ agent' = Fresh(bin) /\ UNCHANGED <<work, reports>>
  <2>1. /\ CountMoves /\ AgentOK(agent') /\ agent'.pc \in {"idle", "boot"} /\ agent'.bin = bin
        /\ agent'.pc = "boot" => OpenRC
    BY <1>12, FaultCounts, FreshOK
  <2> QED  BY <1>3, <1>4, <1>7, <1>8, <1>9, <1>12, <2>1, HostFrame
<1> QED  BY <1>10, <1>11, <1>12 DEF Launch

LEMMA StartStep ==
  ASSUME MaintenanceInv, Start
  PROVE  MaintenanceInv' /\ RowStep
<1> USE TypedDb, TypedHost
<1>1. agent.pc = "start" /\ UNCHANGED <<now, db, hb, bin, lock, rec, foreign, touched>>
  BY DEF Start
<1>2. PICK j \in Jobs : j = agent.job
  BY <1>1 DEF AgentOK
<1>3. PICK S \in SUBSET Stale :
        LET l == Interrupted(S)
        IN  \/ /\ l[j] # None
               /\ IF Active(l[j]) THEN agent' = Idle /\ reports' = reports
                  ELSE Send(Report(j, l[j]))
               /\ local' = l /\ UNCHANGED <<work, count>>
            \/ /\ l[j] = None
               /\ ActiveLocal(l) # {} \/ foreign \/ lock # None
               /\ local' = l /\ agent' = Idle /\ UNCHANGED <<work, reports, count>>
            \/ /\ l[j] = None /\ ActiveLocal(l) = {} /\ ~foreign /\ lock = None
               /\ Launch(j, l)
  BY <1>2 DEF Start
<1>4. PICK l : l = Interrupted(S)
  OBVIOUS
<1>5. CASE l[j] = None /\ ActiveLocal(l) = {} /\ ~foreign /\ lock = None /\ Launch(j, l)
  BY <1>1, <1>2, <1>4, <1>5, LaunchStep
<1>6. CASE /\ local' = l /\ UNCHANGED <<work, count>>
           /\ \/ agent' = Idle /\ reports' = reports
              \/ l[j] # None /\ ~Active(l[j]) /\ Send(Report(j, l[j]))
  <2>1. /\ l \in [Jobs -> LocalStatus \cup {None}] /\ ActiveLocal(l) \subseteq ActiveLocal(local)
        /\ \A k \in Jobs :
             \/ l[k] = local[k]
             \/ l[k] # None /\ Admitted(k) /\ work[k] = None /\ l[k].status = "interrupted"
    BY <1>4, InterruptedJobs DEF Stale
  <2>2. CountMoves /\ Jobs' = Jobs
    <3>1. CountMoves
      BY <1>6, FaultCounts
    <3> QED  BY <3>1, SameProfile DEF CountMoves
  <2>3. /\ AgentOK(agent') /\ agent'.pc \in {"idle", "report"} /\ agent'.bin = agent.bin
        /\ agent'.pc = "report" => agent'.job = agent.job
        /\ ReportsOK(reports')
    <3>1. CASE agent' = Idle /\ reports' = reports
      BY <3>1, IdleOK
    <3>2. CASE l[j] # None /\ ~Active(l[j]) /\ Send(Report(j, l[j]))
      <4>1. l[j].status \in Reportable /\ l[j].stage \in Stages /\ j \in DOMAIN rows
        BY <1>1, <1>2, <2>1, <3>2 DEF LocalStatus, Active, MaintenanceInv, Known
      <4>2. ReportsOK(reports \cup {Report(j, l[j])})
        BY <4>1, ReportOK
      <4> QED  BY <1>1, <3>2, <4>2 DEF Send, AgentOK, AgentPcs
    <3> QED  BY <1>6, <3>1, <3>2
  <2>4. Single'
    <3>1. ActiveLocal(local)' = ActiveLocal(local')
      BY <2>2 DEF ActiveLocal, Active
    <3> QED  BY <1>6, <2>1, <2>3, <3>1 DEF MaintenanceInv, Single
  <2>5. /\ lock' # AgentOwner
        /\ lock' \in Jobs => work'[lock'] # None /\ work'[lock'].pc \in Mutating
    BY <1>1, <1>6 DEF MaintenanceInv, Locked
  <2> QED  BY <1>1, <1>6, <2>1, <2>2, <2>3, <2>4, <2>5, HostFrame
<1> QED  BY <1>3, <1>4, <1>5, <1>6

-----------------------------------------------------------------------------
LEMMA InitKeeps ==
  ASSUME Init
  PROVE  MaintenanceInv
<1>1. PICK p \in Profiles : count = [prof |-> p, used |-> [f \in FaultKinds |-> 0]]
  BY DEF Init
<1>2. count.prof \in Profiles /\ count \in [prof : Profiles, used : [FaultKinds -> Nat]]
  BY <1>1
<1>3. /\ MaxJobs \in Nat \ {0} /\ MaxVersion \in Nat \ {0} /\ MaxAttempts \in Nat \ {0}
  BY <1>2, MaintenanceAssumption DEF MaxJobs, MaxVersion, MaxAttempts
<1>4. 0 \in Versions /\ 1 \in Versions
  BY <1>3 DEF Versions
<1>5. Typed
  BY <1>2, <1>4 DEF Init, Typed, NoCall, AgentPcs
<1>6. RowsOK(rows)
  <2>1. rows = <<>> /\ rows \in Seq(Row) /\ Len(rows) = 0 /\ DOMAIN rows = {}
    BY DEF Init
  <2>2. ASSUME NEW v \in Versions PROVE Tries(rows, v) = {}
    BY <2>1 DEF Tries, OfTarget
  <2>3. Cardinality({}) = 0
    BY FS_EmptySet
  <2> QED  BY <1>3, <2>1, <2>2, <2>3 DEF RowsOK, OneActive, ActiveRows
<1>7. \A j \in Jobs : JobOK(j)
  BY DEF Init, JobOK
<1>8. Single
  BY DEF Init, Single, ActiveLocal
<1>9. Locked
  BY <1>5, OwnerFacts DEF Init, Locked
<1>10. Known /\ RecOK(rec)
  BY DEF Init, Known, RecOK
<1> QED  BY <1>5, <1>6, <1>7, <1>8, <1>9, <1>10 DEF MaintenanceInv

(* Every step keeps the invariant and only moves the rows. *)
LEMMA NextKeeps ==
  ASSUME MaintenanceInv, Next
  PROVE  MaintenanceInv' /\ RowStep
<1>1. CASE \/ \E a \in Actions, d \in BOOLEAN : Request(a, d)
           \/ NewRelease \/ Expire \/ Tick \/ Reconcile \/ QueueAutomatic
           \/ BeginForeign \/ EndForeign \/ \E j \in Jobs : RecoverRead(j)
  BY <1>1, ControllerSteps
<1>2. CASE Heartbeat \/ HeartbeatLost \/ Answer \/ Claim \/ Reported \/ Boot
  BY <1>2, AgentSteps
<1>3. CASE \/ \E m \in reports : ReadReport(m) \/ SaveReport(m) \/ LoseReport(m)
           \/ \E j \in Jobs : Resend(j)
  BY <1>3, ReportSteps
<1>4. CASE \E j \in Jobs : WorkerStep(j)
  BY <1>4, WorkerSteps
<1>5. CASE \E j \in Jobs : Exit(j) \/ Kill(j)
  BY <1>5, WorkerGoes
<1>6. CASE AgentCrash \/ Reboot
  BY <1>6, Deaths
<1>7. CASE Configure \/ Configured
  BY <1>7, ConfigureSteps
<1>8. CASE RecoverWrite
  BY <1>8, RecoverWriteStep
<1>9. CASE Start
  BY <1>9, StartStep
<1> QED  BY <1>1, <1>2, <1>3, <1>4, <1>5, <1>6, <1>7, <1>8, <1>9 DEF Next, AgentStep, Handlers

LEMMA StutterKeeps ==
  ASSUME MaintenanceInv, UNCHANGED vars
  PROVE  MaintenanceInv'
<1>1. UNCHANGED <<now, spec, rows, server, diag, hb, reports, agent, bin, local, work, lock, rec,
                  foreign, touched, count>>
  BY DEF vars, db, host
<1>2. RowStep /\ CountMoves
  BY <1>1, TypedDb, FaultCounts DEF RowStep
<1> QED  BY <1>1, <1>2, TypedDb, AgentStays DEF DbStep

(* The invariant of maintenance on every host and under every fault: rows and
   status files agree on what was admitted, one job of the host is active, and
   the lock, the worker and the agent are where its step says. *)
THEOREM MaintenanceInvariance == Spec => []MaintenanceInv
<1>1. MaintenanceInv /\ [Next]_vars => MaintenanceInv'
  BY NextKeeps, StutterKeeps
<1> QED  BY <1>1, InitKeeps, PTL DEF Spec

LEMMA InvTypes ==
  ASSUME MaintenanceInv
  PROVE  TypeOK
<1>1. Typed /\ RowsOK(rows) /\ rows \in Seq(Row)
  BY DEF MaintenanceInv, RowsOK
<1>2. Cardinality(ActiveRows(rows)) <= 1
  <2>1. CASE ActiveRows(rows) = {}
    BY <2>1, FS_EmptySet
  <2>2. CASE ActiveRows(rows) # {}
    <3>1. PICK i : ActiveRows(rows) = {i}
      BY <1>1, <2>2 DEF RowsOK, OneActive
    <3>2. Cardinality({i}) = 1
      BY FS_Singleton
    <3> QED  BY <3>1, <3>2
  <2> QED  BY <2>1, <2>2
<1>3. Reportable \subseteq Statuses /\ "queued" \in Statuses
  BY DEF Reportable, Results, Statuses
<1>4. reports \subseteq [job : Jobs, status : Statuses, stage : Stages, seen : Statuses \cup {None}]
  BY <1>1, <1>3 DEF Typed
<1>5. local \in [Jobs -> Status \cup {None}]
  BY <1>1, <1>3 DEF Typed, Status
<1> QED  BY <1>1, <1>2, <1>4, <1>5 DEF Typed, TypeOK, AgentPcs

(* The agent has one writer: on any host two workers never execute at a time,
   the agent never configures while one does, and without a failure no update
   is rolled back (configuration.go, worker.go). *)
THEOREM OneWriter == Spec => []Exclusive
<1>1. ASSUME MaintenanceInv PROVE Exclusive
  <2>1. OneMutator
    <3> SUFFICES ASSUME NEW j \in Jobs, work[j] # None, work[j].pc \in Mutating
                 PROVE  /\ agent.pc # "apply"
                        /\ \A k \in Jobs \ {j} : work[k] = None \/ work[k].pc \notin Mutating
      BY DEF OneMutator
    <3> QED  BY <1>1, Alone DEF Mutating
  <2>2. NoSpuriousRollback
    BY <1>1 DEF MaintenanceInv, JobOK, WorkerOK, NoSpuriousRollback, At
  <2> QED  BY <1>1, <2>1, <2>2, InvTypes DEF Exclusive
<1> QED  BY <1>1, MaintenanceInvariance, PTL

(* Repetition is bounded and harmless: within the budget of automatic updates,
   never after the controller gave the job up, and a result that invites a
   repetition has not touched the agent. *)
THEOREM RetriesAlwaysSafe == Spec => []RetriesAreSafe
<1>1. ASSUME MaintenanceInv PROVE RetriesAreSafe
  <2>0. Typed /\ RowsOK(rows) /\ DOMAIN rows = 1..Len(rows) /\ Len(rows) \in Nat
        /\ MaxAttempts \in Nat /\ DOMAIN rows \subseteq Jobs
    <3>1. Typed /\ RowsOK(rows) /\ DOMAIN rows = 1..Len(rows) /\ Len(rows) \in Nat
          /\ MaxAttempts \in Nat /\ MaxJobs \in Nat /\ Len(rows) <= MaxJobs
      BY <1>1, RowsFacts, ProfileFacts DEF MaintenanceInv, RowsOK
    <3> QED  BY <3>1 DEF Jobs
  <2>1. ASSUME NEW j \in DOMAIN rows, local[j] # None
        PROVE  rows[j].status \notin {"expired", "cancelled"}
    BY <1>1, <2>0, <2>1 DEF MaintenanceInv, JobOK, Admitted, NotAdmitted
  <2>2. GivenUpNeverRan
    BY <2>1 DEF GivenUpNeverRan
  <2>3. RetryIsHarmless
    BY <1>1 DEF MaintenanceInv, JobOK, RetryIsHarmless
  <2>4. BoundedRetries
    <3> SUFFICES ASSUME NEW v \in Versions
                 PROVE  Cardinality({j \in OfTarget(rows, v) :
                          /\ rows[j].auto /\ local[j] # None
                          /\ \A k \in OfTarget(rows, v) :
                               rows[k].status = "succeeded" => k < j}) <= MaxAttempts
      BY DEF BoundedRetries
    <3> DEFINE ran == {j \in OfTarget(rows, v) :
                        /\ rows[j].auto /\ local[j] # None
                        /\ \A k \in OfTarget(rows, v) : rows[k].status = "succeeded" => k < j}
    <3>1. ran \subseteq Tries(rows, v)
      BY <2>1 DEF Tries, OfTarget
    <3>2. Tries(rows, v) \subseteq 1..Len(rows)
      BY <2>0 DEF Tries, OfTarget
    <3> HIDE DEF ran
    <3>3. IsFiniteSet(1..Len(rows))
      BY <2>0, FS_Interval
    <3>4. IsFiniteSet(Tries(rows, v))
      BY <3>2, <3>3, FS_Subset
    <3>5. Cardinality(ran) <= Cardinality(Tries(rows, v)) /\ Cardinality(ran) \in Nat
          /\ Cardinality(Tries(rows, v)) \in Nat
      BY <3>1, <3>4, FS_Subset, FS_CardinalityType
    <3>6. Cardinality(ran) <= MaxAttempts
      BY <2>0, <3>5 DEF RowsOK
    <3> QED  BY <3>6 DEF ran
  <2> QED  BY <2>2, <2>3, <2>4 DEF RetriesAreSafe, NothingTwice
<1> QED  BY <1>1, MaintenanceInvariance, PTL

(* Whatever arrives late or twice, a row that reached its end keeps it
   (reportMaintenance, SaveMaintenance, ExpireMaintenance). *)
THEOREM EndsAreFinal == Spec => TerminalIsFinal
<1>1. ASSUME MaintenanceInv, [Next]_vars
      PROVE  [\A j \in DOMAIN rows :
                rows[j].status \in {"succeeded", "failed", "rolled_back", "expired", "cancelled"}
                  => rows'[j].status = rows[j].status]_rows
  <2>1. CASE Next
    <3>1. Moves(rows, rows')
      BY <1>1, <2>1, NextKeeps DEF RowStep
    <3> QED  BY <3>1 DEF Moves, RowMoves, Final, Results
  <2>2. CASE UNCHANGED vars
    BY <2>2 DEF vars, db
  <2> QED  BY <1>1, <2>1, <2>2
<1> QED  BY <1>1, MaintenanceInvariance, PTL DEF Spec, TerminalIsFinal
=============================================================================
