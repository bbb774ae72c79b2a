---------------------------- MODULE Publication ----------------------------
(***************************************************************************)
(* Publication of one server's desired state.  Every change of an input    *)
(* raises the server's generation in the same transaction, and the row     *)
(* (generation, published_generation) is the durable queue of what is left *)
(* to publish.  Publishers (the periodic reconciliation and the API        *)
(* handlers) read the inputs in several separate queries and commit the    *)
(* document in a transaction that compares generation and revision.        *)
(* Network operations follow their edit to the agent's exact receipt.      *)
(*                                                                         *)
(* Inputs: host (a field of the server row), node (the node's server side),*)
(* cli (a client-side field, absent from the document but part of the      *)
(* candidate captured for subscriptions), and mita (the mita version       *)
(* setting, which is in the document and raises no generation).            *)
(* A revision's hash is a function of its row and is compared through it.  *)
(***************************************************************************)
EXTENDS Integers, FiniteSets, SequencesExt

CONSTANTS
  None,        \* absence of an operation, a scan
  Ops,         \* identities of node network requests
  Api,         \* concurrent API handlers that publish
  Editable,    \* bound: the tracked inputs that handlers change
  Bound,       \* the server has the sticky network binding requirement
  MaxAttempts, \* MaxNetworkPublishAttempts
  MaxTries,    \* rebuilds of publish after a conflict
  MaxEdits,    \* bound: changes of tracked inputs
  MaxMita,     \* bound: changes of the mita version
  MaxForce,    \* bound: publications that no edit asks for
  MaxRetries,  \* bound: operator retries
  MaxMaint,    \* bound: maintenance jobs
  MaxMsgs,     \* bound: reports in flight
  MaxFaults    \* bound: failures of each kind

FaultKinds == {"build", "crash"}
Fields     == {"host", "node", "cli"}

ASSUME PublicationAssumption ==
  /\ Bound \in BOOLEAN /\ (Ops # {} => Bound) /\ "rec" \notin Api
  /\ Editable \subseteq Fields
  /\ MaxAttempts \in Nat \ {0} /\ MaxTries \in Nat \ {0}
  /\ \A b \in {MaxEdits, MaxMita, MaxForce, MaxRetries, MaxMaint, MaxMsgs} : b \in Nat
  /\ MaxFaults \in [FaultKinds -> Nat]

VARIABLES
  input,    \* the inputs of the document
  row,      \* server_network_generations
  ops,      \* network_operations
  revs,     \* desired_states with their candidates; the index is the revision
  maint,    \* a maintenance job is queued or running
  pubs,     \* running calls of Builder.publish
  agent,    \* the agent's applied revision, and whether the last apply failed
  actual,   \* agents.applied_revision
  msgs,     \* apply reports and heartbeats in flight
  saved,    \* history: the tracked inputs at each generation
  applied,  \* history: revisions the agent applied
  epoch,    \* history: times the publication budget was renewed
  count     \* uses of every bounded action

db   == <<input, row, ops, revs, maint>>
hist == <<saved, applied, epoch>>
vars == <<db, pubs, agent, actual, msgs, hist, count>>

Publishers == Api \cup {"rec"}
Counts     == {"edit", "mita", "force", "retry", "maint", "build", "crash"}

Limit == [c \in Counts |->
            CASE c = "edit" -> MaxEdits [] c = "mita" -> MaxMita
              [] c = "force" -> MaxForce [] c = "retry" -> MaxRetries
              [] c = "maint" -> MaxMaint [] OTHER -> MaxFaults[c]]

Use(c) == count[c] < Limit[c] /\ count' = [count EXCEPT ![c] = @ + 1]

Latest  == revs[Len(revs)]
Tracked == [f \in Fields |-> input[f]]

(* A call of publish that has read nothing yet. *)
Fresh(pc, force, tries, scan) ==
  [pc |-> pc, force |-> force, tries |-> tries, expected |-> 0, g1 |-> 0,
   doc |-> [gen |-> 0, host |-> 0, node |-> 0, mita |-> 0], scan |-> scan]

Idle == Fresh("idle", FALSE, 0, None)

Started(force, scan) == Fresh("latest", force, 0, scan)

Init ==
  /\ input = [host |-> 0, node |-> 0, cli |-> 0, mita |-> 0]
  /\ row = [gen |-> 1, pub |-> 0, attempts |-> 0, retry |-> 0]
  /\ ops = [o \in Ops |-> None] /\ revs = <<>> /\ maint = FALSE
  /\ pubs = [p \in Publishers |-> Idle]
  /\ agent = [rev |-> 0, err |-> FALSE] /\ actual = 0 /\ msgs = {}
  /\ saved = <<[f \in Fields |-> 0]>> /\ applied = {} /\ epoch = 0
  /\ count = [c \in Counts |-> 0]

-----------------------------------------------------------------------------
(* The triggers on server_network_generations: the budget is renewed and the
   operations of older generations are superseded.  retry_revision ends as 0
   or 1, since two triggers write it in an order SQLite leaves open. *)
SupersededQueued(o) ==          \* mutant: what waits for the agent is kept
  IF o # None /\ o.status \in {"queued", "publish_failed"}
  THEN [o EXCEPT !.status = "superseded"] ELSE o
Superseded(o) ==
  IF o # None /\ o.status \notin {"applied", "superseded"}
  THEN [o EXCEPT !.status = "superseded"] ELSE o

Bump(f) ==
  /\ input' = [input EXCEPT ![f] = 1 - @]
  /\ \E r \in {0, 1} :
       row' = [row EXCEPT !.gen = @ + 1, !.attempts = 0, !.retry = r]
  /\ saved' = Append(saved, [x \in Fields |-> input'[x]])
  /\ epoch' = epoch + 1

(* A handler that edits a node or the server and publishes (its result is
   ignored): the outbox row remains if the publication fails. *)
Edit(p, f) ==
  /\ pubs[p].pc = "idle" /\ Use("edit") /\ Bump(f)
  /\ ops' = [o \in Ops |-> Superseded(ops[o])]
  /\ pubs' = [pubs EXCEPT ![p] = Started(FALSE, None)]
  /\ UNCHANGED <<revs, maint, agent, actual, msgs, applied>>

(* putSettings with core.mita_version: no trigger covers it. *)
SetMita(p) ==
  /\ pubs[p].pc = "idle" /\ Use("mita")
  /\ input' = [input EXCEPT !.mita = @ + 1]
  /\ pubs' = [pubs EXCEPT ![p] = Started(FALSE, None)]
  /\ UNCHANGED <<row, ops, revs, maint, agent, actual, msgs, hist>>

(* The hourly desired_refresh: PublishAll without an edit. *)
Refresh(p) ==
  /\ pubs[p].pc = "idle" /\ Use("force")
  /\ pubs' = [pubs EXCEPT ![p] = Started(FALSE, None)]
  /\ UNCHANGED <<db, agent, actual, msgs, hist>>

(* serverRepublish. *)
ForcePublish(p) ==
  /\ pubs[p].pc = "idle" /\ Use("force")
  /\ pubs' = [pubs EXCEPT ![p] = Started(TRUE, None)]
  /\ UNCHANGED <<db, agent, actual, msgs, hist>>

(* requestNodeNetwork: intent, edit and generation in one transaction. *)
Request(o) ==
  /\ ops[o] = None /\ ~maint /\ Use("edit") /\ Bump("node")
  /\ ops' = [x \in Ops |->
               IF x = o THEN [gen |-> row'.gen, status |-> "queued", rev |-> 0,
                              retry |-> 0, republish |-> FALSE, since |-> Len(revs)]
               ELSE Superseded(ops[x])]
  /\ UNCHANGED <<revs, maint, pubs, agent, actual, msgs, applied>>

(* RetryNetworkOperation: a new publication of the same generation. *)
Retried(o) ==
  [o EXCEPT !.status = "queued", !.retry = @ + 1, !.rev = 0, !.republish = TRUE,
            !.since = Len(revs)]

Retry(o) ==
  /\ ops[o] # None /\ ~maint /\ Use("retry")
  /\ ops[o].status \in {"publish_failed", "apply_failed", "waiting_agent"}
  /\ ops[o].gen = row.gen
  /\ ops' = [ops EXCEPT ![o] = Retried(@)]
  /\ row' = [row EXCEPT !.pub = 0, !.attempts = 0, !.retry = @ + 1]
  /\ epoch' = epoch + 1
  /\ UNCHANGED <<input, revs, maint, pubs, agent, actual, msgs, saved, applied>>

BeginMaintenance ==
  /\ ~maint /\ Use("maint") /\ maint' = TRUE
  /\ UNCHANGED <<input, row, ops, revs, pubs, agent, actual, msgs, hist>>

EndMaintenance ==
  /\ maint /\ maint' = FALSE
  /\ UNCHANGED <<input, row, ops, revs, pubs, agent, actual, msgs, hist, count>>

-----------------------------------------------------------------------------
(* PendingNetworkPublications: the generation itself is the outbox entry. *)
PendingOps == \E o \in Ops :    \* mutant: only operations are published
  ops[o] # None /\ ops[o].status \in {"queued", "publish_failed"}
Pending == row.gen # row.pub

(* ReconcileNetworkOperations picks the row up. *)
Scan ==
  /\ pubs["rec"].pc = "idle" /\ Pending /\ row.attempts < MaxAttempts /\ ~maint
  /\ pubs' = [pubs EXCEPT !["rec"] =
       Started(FALSE, [gen |-> row.gen, retry |-> row.retry,
                       attempts |-> row.attempts, epoch |-> epoch])]
  /\ UNCHANGED <<db, agent, actual, msgs, hist, count>>

(* The reads of Builder.publish and Build, each a query of its own. *)
ReadLatest(p) ==
  /\ pubs[p].pc = "latest"
  /\ pubs' = [pubs EXCEPT ![p] = [@ EXCEPT !.pc = "server", !.expected = Len(revs)]]
  /\ UNCHANGED <<db, agent, actual, msgs, hist, count>>

ReadServer(p) ==
  /\ pubs[p].pc = "server"
  /\ pubs' = [pubs EXCEPT ![p] =
       [@ EXCEPT !.pc = "versions", !.g1 = row.gen, !.doc.host = input.host]]
  /\ UNCHANGED <<db, agent, actual, msgs, hist, count>>

ReadVersions(p) ==
  /\ pubs[p].pc = "versions"
  /\ pubs' = [pubs EXCEPT ![p] =
       [@ EXCEPT !.pc = "nodes", !.doc.gen = row.gen, !.doc.mita = input.mita]]
  /\ UNCHANGED <<db, agent, actual, msgs, hist, count>>

(* publish returned an error: the reconciliation records it. *)
Failed(p) ==
  [pubs EXCEPT ![p] = IF p = "rec" THEN Fresh("failed", FALSE, 0, @.scan) ELSE Idle]

(* A conflict starts over, eight times at most. *)
ConflictForever(p) ==           \* mutant: rebuilds are not limited
  [pubs EXCEPT ![p] = Fresh("latest", @.force, @.tries + 1, @.scan)]
Conflict(p) ==
  IF pubs[p].tries + 1 < MaxTries
  THEN [pubs EXCEPT ![p] = Fresh("latest", @.force, @.tries + 1, @.scan)]
  ELSE Failed(p)

BracketedNever(q) == TRUE       \* mutant: the first generation is not compared
Bracketed(q) == q.g1 = q.doc.gen

ReadNodes(p) ==
  /\ pubs[p].pc = "nodes"
  /\ pubs' = IF Bracketed(pubs[p])
             THEN [pubs EXCEPT ![p] = [@ EXCEPT !.pc = "commit",
                                                !.doc.node = input.node]]
             ELSE Conflict(p)
  /\ UNCHANGED <<db, agent, actual, msgs, hist, count>>

(* PublishDesired. *)
SameGeneration(q) == q.doc.gen = row.gen

NotOvertakenNever(q) == TRUE    \* mutant: the observed revision is not compared
NotOvertaken(q) == q.expected = Len(revs)

Forced(q) ==
  q.force \/ \E o \in Ops : /\ ops[o] # None /\ ops[o].gen = row.gen /\ ops[o].republish
                            /\ ops[o].status \in {"queued", "publish_failed"}

(* Hash: the generation is part of it once the binding is required. *)
Hash(d) == IF Bound THEN d ELSE [d EXCEPT !.gen = 0]

ReusableSameHash(q) ==          \* mutant: an equal hash is enough
  revs # <<>> /\ Hash(Latest.doc) = Hash(q.doc) /\ ~Forced(q)
Reusable(q) ==
  /\ revs # <<>> /\ Hash(Latest.doc) = Hash(q.doc) /\ ~Forced(q)
  /\ row.gen = row.pub

(* attachNetworkOperations. *)
Attached(o, rev) ==
  IF o # None /\ o.gen = row.gen
     /\ \/ o.status \in {"queued", "publish_failed"}
        \/ o.status \in {"waiting_agent", "apply_failed"} /\ o.rev # rev
  THEN [o EXCEPT !.status = "waiting_agent", !.rev = rev, !.republish = FALSE] ELSE o

(* The transaction: an equal current document is kept, otherwise the next
   revision is inserted; its candidates are read from the present rows. *)
Publish(p) ==
  /\ pubs[p].pc = "commit"
  /\ SameGeneration(pubs[p]) /\ ~maint /\ NotOvertaken(pubs[p])
  /\ revs' = IF Reusable(pubs[p]) THEN revs
             ELSE Append(revs, [doc |-> pubs[p].doc, snap |-> Tracked])
  /\ row' = [row EXCEPT !.pub = row.gen]
  /\ ops' = [o \in Ops |-> Attached(ops[o], Len(revs'))]
  /\ pubs' = [pubs EXCEPT ![p] = Idle]
  /\ UNCHANGED <<input, maint, agent, actual, msgs, hist, count>>

PublishConflict(p) ==
  /\ pubs[p].pc = "commit"
  /\ ~SameGeneration(pubs[p]) \/ (~maint /\ ~NotOvertaken(pubs[p]))
  /\ pubs' = Conflict(p)
  /\ UNCHANGED <<db, agent, actual, msgs, hist, count>>

(* ErrNetworkMaintenance parks the intent; no failure is recorded. *)
PublishParked(p) ==
  /\ pubs[p].pc = "commit" /\ SameGeneration(pubs[p]) /\ maint
  /\ pubs' = [pubs EXCEPT ![p] = Idle]
  /\ UNCHANGED <<db, agent, actual, msgs, hist, count>>

(* A query, a compiler or the five-second timeout fails; a busy database is
   a conflict. *)
BuildFails(p) ==
  /\ pubs[p].pc \in {"latest", "server", "versions", "nodes", "commit"} /\ Use("build")
  /\ \/ pubs' = Failed(p)
     \/ pubs[p].pc = "commit" /\ pubs' = Conflict(p)
  /\ UNCHANGED <<db, agent, actual, msgs, hist>>

(* NetworkPublicationFailed compares with the row that was scanned. *)
OwnFailureAny(s) == s.gen = row.gen /\ row.pub # row.gen   \* mutant
OwnFailure(s) ==
  /\ s.gen = row.gen /\ row.pub # row.gen
  /\ s.retry = row.retry /\ s.attempts = row.attempts

RecordFailure ==
  /\ pubs["rec"].pc = "failed"
  /\ IF OwnFailure(pubs["rec"].scan)
     THEN /\ row' = [row EXCEPT !.attempts = @ + 1]
          /\ ops' = [o \in Ops |->
                       IF /\ ops[o] # None /\ ops[o].gen = row.gen
                          /\ ops[o].status \in {"queued", "publish_failed"}
                       THEN [ops[o] EXCEPT !.status = "publish_failed"] ELSE ops[o]]
     ELSE UNCHANGED <<row, ops>>
  /\ pubs' = [pubs EXCEPT !["rec"] = Idle]
  /\ UNCHANGED <<input, revs, maint, agent, actual, msgs, hist, count>>

(* The controller restarts: every running publication is forgotten. *)
ControllerCrash ==
  /\ Use("crash") /\ \E p \in Publishers : pubs[p].pc # "idle"
  /\ pubs' = [p \in Publishers |-> Idle]
  /\ UNCHANGED <<db, agent, actual, msgs, hist>>

-----------------------------------------------------------------------------
(* The agent fetches the latest document (refused under maintenance once the
   binding is required), applies it and reports the result. *)
Send(m) == msgs' = msgs \cup {m} /\ Cardinality(msgs') <= MaxMsgs

Converge ==
  /\ revs # <<>> /\ ~(Bound /\ maint)
  /\ agent.rev # Len(revs) \/ agent.err
  /\ \/ /\ agent' = [rev |-> Len(revs), err |-> FALSE]
        /\ applied' = applied \cup {Len(revs)}
        /\ Send([rev |-> Len(revs), status |-> "applied"])
     \/ /\ agent' = [agent EXCEPT !.err = TRUE]
        /\ UNCHANGED applied
        /\ Send([rev |-> Len(revs), status |-> "failed"])
  /\ UNCHANGED <<db, pubs, actual, saved, epoch, count>>

Heartbeat ==
  /\ agent.rev > 0
  /\ Send([rev |-> agent.rev, status |-> IF agent.err THEN "failed" ELSE "applied"])
  /\ UNCHANGED <<db, pubs, agent, actual, hist, count>>

(* RecordNetworkApply: exact revision, current generation. *)
ConfirmsOlder(o, m) == o.rev >= m.rev   \* mutant: any earlier receipt will do
Confirms(o, m) == o.rev = m.rev

Completed(o, m) ==
  IF o # None /\ Confirms(o, m) /\ o.gen = row.gen
     /\ o.status \in {"waiting_agent", "apply_failed"}
  THEN [o EXCEPT !.status = IF m.status = "applied" THEN "applied" ELSE "apply_failed"]
  ELSE o

(* agentApplyReport and the receipts of agentHeartbeat; a receipt older than
   the recorded revision is stale. *)
HandleReport(m) ==
  /\ m \in msgs /\ msgs' = msgs \ {m}
  /\ IF actual > m.rev
     THEN UNCHANGED <<actual, ops>>
     ELSE /\ actual' = IF m.status = "applied" THEN m.rev ELSE actual
          /\ ops' = [o \in Ops |-> Completed(ops[o], m)]
  /\ UNCHANGED <<input, row, revs, maint, pubs, agent, hist, count>>

(* A report is lost. *)
LoseReport(m) ==
  /\ m \in msgs /\ msgs' = msgs \ {m}
  /\ UNCHANGED <<db, pubs, agent, actual, hist, count>>

-----------------------------------------------------------------------------
PublisherStep(p) ==
  \/ ReadLatest(p) \/ ReadServer(p) \/ ReadVersions(p) \/ ReadNodes(p)
  \/ Publish(p) \/ PublishConflict(p) \/ PublishParked(p)

Next ==
  \/ \E p \in Api : SetMita(p) \/ Refresh(p) \/ ForcePublish(p)
                       \/ \E f \in Editable : Edit(p, f)
  \/ \E o \in Ops : Request(o) \/ Retry(o)
  \/ BeginMaintenance \/ EndMaintenance \/ Scan \/ RecordFailure \/ ControllerCrash
  \/ \E p \in Publishers : PublisherStep(p) \/ BuildFails(p)
  \/ Converge \/ Heartbeat
  \/ \E m \in msgs : HandleReport(m) \/ LoseReport(m)

Spec == Init /\ [][Next]_vars

(* The scheduler runs the reconciliation every five seconds, running calls
   go on, a maintenance job ends or expires, the agent polls. *)
FairSpec ==
  /\ Spec
  /\ SF_vars(Scan) /\ WF_vars(RecordFailure) /\ WF_vars(EndMaintenance)
  /\ \A p \in Publishers : WF_vars(PublisherStep(p))

-----------------------------------------------------------------------------
Bit      == {0, 1}
Document == [gen : Nat, host : Bit, node : Bit, mita : Nat]
Revision == [doc : Document, snap : [Fields -> Bit]]
Statuses == {"queued", "publish_failed", "waiting_agent", "apply_failed", "applied",
             "superseded"}
Operation == [gen : Nat, status : Statuses, rev : Nat, retry : Nat,
              republish : BOOLEAN, since : Nat]
ScanRow   == [gen : Nat, retry : Nat, attempts : Nat, epoch : Nat]
Publisher == [pc : {"idle", "latest", "server", "versions", "nodes", "commit", "failed"},
              force : BOOLEAN, tries : 0..(MaxTries - 1), expected : Nat, g1 : Nat,
              doc : Document, scan : ScanRow \cup {None}]

RowTypes ==
  /\ input \in [host : Bit, node : Bit, cli : Bit, mita : Nat]
  /\ row \in [gen : Nat, pub : Nat, attempts : 0..MaxAttempts, retry : Nat]
  /\ maint \in BOOLEAN

OpTypes  == ops \in [Ops -> Operation \cup {None}]
RevTypes == revs \in Seq(Revision)
PubTypes == pubs \in [Publishers -> Publisher]

AgentTypes ==
  /\ agent \in [rev : Nat, err : BOOLEAN] /\ actual \in Nat
  /\ msgs \subseteq [rev : Nat, status : {"applied", "failed"}]

HistTypes ==
  /\ saved \in Seq([Fields -> Bit]) /\ applied \subseteq Nat /\ epoch \in Nat
  /\ count \in [Counts -> Nat]

(* The shape of the rows, the running publications and the agent; the
   publication budget and the rebuild budget are never exceeded. *)
TypeOK == RowTypes /\ OpTypes /\ RevTypes /\ PubTypes /\ AgentTypes /\ HistTypes

Matches(r, in) ==
  r.snap = in /\ r.doc.host = in["host"] /\ r.doc.node = in["node"]

(* Although its inputs are read one after the other, a published document is
   a consistent snapshot: the inputs of the generation it carries, and the
   candidate captured with it belongs to the same inputs (publish, Build,
   PublishDesired, captureNodeCandidates). *)
ConsistentSnapshot == \A i \in DOMAIN revs : Matches(revs[i], saved[revs[i].doc.gen])

(* A generation counts as published only while the latest revision, and its
   candidate, are what the inputs say now; an edit that leaves the document's
   hash alone is no exception. *)
PublishedIsCurrent == row.pub = row.gen => revs # <<>> /\ Matches(Latest, Tracked)

(* An older build never overwrites a newer publication, also for the inputs
   that the generation does not guard. *)
NeverReverts ==
  \A i, j \in DOMAIN revs : i < j => revs[i].doc.mita <= revs[j].doc.mita

(* An operation is applied only when the agent applied a revision built from
   the operation's own edit, published after its last retry: no older
   receipt, larger revision or mere health completes it. *)
AppliedIsReal ==
  \A o \in Ops : ops[o] # None /\ ops[o].status = "applied" =>
    /\ ops[o].rev \in applied /\ ops[o].rev > ops[o].since
    /\ Matches(revs[ops[o].rev], saved[ops[o].gen])

(* An operation that waits for the agent waits for the latest revision, the
   only one the agent can still fetch. *)
WaitsForLatest ==
  \A o \in Ops : ops[o] # None /\ ops[o].status \in {"waiting_agent", "apply_failed"} =>
    ops[o].gen = row.gen /\ ops[o].rev = Len(revs)

(* A publication that failed late never consumes the budget of a newer edit
   or of an operator's retry (NetworkPublicationFailed). *)
FreshBudget ==
  [][row'.attempts > row.attempts => pubs["rec"].scan.epoch = epoch]_vars

(* Whatever crashes, conflicts or maintenance interrupt, every saved change
   is published, unless the failure budget is used up. *)
EventuallyPublished == <>[](row.gen = row.pub \/ row.attempts = MaxAttempts)

(* What an operator is shown of an operation is so: applied means applied,
   and waiting means waiting for the revision the agent can still get. *)
OperationsHonest == AppliedIsReal /\ WaitsForLatest
=============================================================================
