------------------------------- MODULE Shares -------------------------------
(***************************************************************************)
(* One customer share: its row (status, quota, usage of the period), the   *)
(* dedicated node it has on every target server, and what the servers'     *)
(* published documents say about these nodes.                              *)
(*                                                                         *)
(* Administrative handlers read the row and the nodes first and write them *)
(* later, in several statements; heartbeats add usage and roll the billing *)
(* period over; any number of evaluations (after a heartbeat, after an     *)
(* edit, every five minutes) move the status with a compare and set.       *)
(* A publication is one read and one commit that fails when a tracked      *)
(* input changed in between, which is what Publication establishes.        *)
(*                                                                         *)
(* Billed bytes are one number (QuotaBilled of both directions); period    *)
(* boundaries are the times in Boundaries; a credential is the number of   *)
(* its generation.  Left out: names and templates, the subscription row    *)
(* and its token, the quotas of single targets.                            *)
(***************************************************************************)
EXTENDS Integers, FiniteSets, FiniteSetsExt

CONSTANTS
  None,        \* no row, no node, no snapshot
  Servers,     \* servers a share may target
  Admins,      \* concurrent API handlers
  Evals,       \* concurrent evaluations
  Ops,         \* bound: the operations the handlers perform
  Quotas,      \* quotas an edit may set, 0 for none
  Expiries,    \* expiry times an edit may set
  Boundaries,  \* times at which a billing period starts
  MaxTime,     \* bound: the last time
  MaxIngest,   \* bound: reports
  MaxOps,      \* bound: handler calls
  MaxCrashes,  \* bound: restarts of the controller
  Skew         \* how far a sample time may lie ahead of the controller's clock

AllOps == {"create", "pause", "resume", "reset", "revoke", "reissue", "update",
           "delete", "connlog"}

ASSUME SharesAssumption ==
  /\ IsFiniteSet(Servers) /\ Ops \subseteq AllOps
  /\ Quotas \subseteq Nat /\ Expiries \subseteq Nat /\ Boundaries \subseteq Nat
  /\ \A b \in {MaxTime, MaxIngest, MaxOps, MaxCrashes, Skew} : b \in Nat

VARIABLES
  row,     \* the row of table shares
  node,    \* the share's node on every server: usable or revoked, credential
  dirty,   \* servers whose generation is not published
  build,   \* the document a running publication has read
  doc,     \* the published document
  now,     \* the controller's clock
  adm,     \* running handlers
  eval,    \* running evaluations
  cred,    \* credentials generated so far
  bytes,   \* history: accepted bytes sampled at a time or later, since the last
           \* manual reset
  manual,  \* history: the manual state in force
  count    \* uses of every bounded action

pubs == <<dirty, build, doc>>
hist == <<bytes, manual>>
vars == <<row, node, pubs, now, adm, eval, cred, hist, count>>

Times == 0..MaxTime

Use(c, limit) == count[c] < limit /\ count' = [count EXCEPT ![c] = @ + 1]

Idle == [op |-> None, step |-> None, snap |-> None, list |-> None, todo |-> {}]
Rest == [snap |-> None, now |-> 0, try |-> 0]

NoNode == [s \in Servers |-> None]

Init ==
  /\ row = None /\ node = NoNode
  /\ dirty = {} /\ build = NoNode /\ doc = NoNode /\ now = 0
  /\ adm = [a \in Admins |-> Idle] /\ eval = [e \in Evals |-> Rest]
  /\ cred = 0 /\ bytes = [t \in Times |-> 0] /\ manual = None
  /\ count = [c \in {"ingest", "op", "crash"} |-> 0]

PeriodStartNext(t) ==           \* mutant: the boundary after t
  Min({b \in Boundaries : b > t} \cup {t + 1})
PeriodStart(t) == Max({b \in Boundaries : b <= t} \cup {0})

Present(N) == {s \in Servers : N[s] # None}

-----------------------------------------------------------------------------
(* The triggers: the generations of these servers rise, so that publications
   under way conflict. *)
BumpKeepsBuilds(S) == dirty' = dirty \cup S /\ UNCHANGED <<build, doc>>   \* mutant
Bump(S) ==
  /\ dirty' = dirty \cup S
  /\ build' = [s \in Servers |-> IF s \in S THEN None ELSE build[s]]
  /\ UNCHANGED doc

Tracked(r) == <<r.status, r.quota, r.expires, r.targets, r.connlog>>

(* Table shares is written: the triggers watch the columns of Tracked. *)
Write(r) ==
  /\ row' = r
  /\ IF row = None \/ Tracked(r) = Tracked(row) THEN UNCHANGED pubs
     ELSE Bump(Present(node))

OverQuota(r) == r.quota > 0 /\ r.used >= r.quota

(* What Build puts into the document for the node of server s. *)
Current(s) ==
  IF node[s] = None \/ ~node[s].on THEN None
  ELSE [cred |-> node[s].cred,
        blocked |-> row # None /\ (row.status # "active" \/ now >= row.expires
                                   \/ OverQuota(row))]

Read(s) ==
  /\ build' = [build EXCEPT ![s] = [doc |-> Current(s)]]
  /\ UNCHANGED <<row, node, dirty, doc, now, adm, eval, cred, hist, count>>

Commit(s) ==
  /\ build[s] # None
  /\ doc' = [doc EXCEPT ![s] = build[s].doc]
  /\ build' = [build EXCEPT ![s] = None] /\ dirty' = dirty \ {s}
  /\ UNCHANGED <<row, node, now, adm, eval, cred, hist, count>>

-----------------------------------------------------------------------------
(* Ingest of a report with sample time ts for a node of the share; the meter
   identity outlives the node. *)
Rolled(r) ==
  IF PeriodStart(now) > r.period
  THEN [r EXCEPT !.used = 0, !.period = PeriodStart(now),
                 !.status = IF @ = "exhausted" THEN "active" ELSE @]
  ELSE r

Ingest(ts) ==
  /\ row # None /\ cred > 0 /\ Use("ingest", MaxIngest)
  /\ LET r == Rolled(row)
     IN  Write(IF ts < r.period THEN r ELSE [r EXCEPT !.used = @ + 1])
  /\ bytes' = [t \in Times |-> bytes[t] + IF t <= ts /\ t <= now THEN 1 ELSE 0]
  /\ UNCHANGED <<node, now, adm, eval, cred, manual>>

Tick ==
  /\ now < MaxTime /\ now' = now + 1
  /\ UNCHANGED <<row, node, pubs, adm, eval, cred, hist, count>>

-----------------------------------------------------------------------------
(* evaluateAttempt: read the row, ... *)
Manual == {"paused", "revoked"}

EvalRead(e) ==
  /\ row # None /\ row.status \notin Manual
  /\ eval[e].snap = None
  /\ eval' = [eval EXCEPT ![e] = [snap |-> row, now |-> now, try |-> 0]]
  /\ UNCHANGED <<row, node, pubs, now, adm, cred, hist, count>>

(* ... and again after a lost race, three times at most. *)
Again(e) ==
  [eval EXCEPT ![e] =
     IF @.try < 2 /\ row' # None /\ row'.status \notin Manual
     THEN [snap |-> row', now |-> now, try |-> @.try + 1] ELSE Rest]

Due(v) == PeriodStart(v.now) > v.snap.period

(* ResetShareUsageIfBefore checks again inside its transaction. *)
StillDueNever(v) == TRUE        \* mutant: a second evaluation resets again
StillDue(v) == PeriodStart(v.now) > row.period

EvalReset(e) ==
  /\ eval[e].snap # None /\ Due(eval[e])
  /\ IF row # None /\ StillDue(eval[e])
     THEN Write([row EXCEPT !.used = 0, !.period = PeriodStart(eval[e].now),
                            !.status = IF @ = "exhausted" THEN "active" ELSE @])
     ELSE UNCHANGED <<row, pubs>>
  /\ eval' = Again(e) \/ eval' = [eval EXCEPT ![e] = Rest]  \* its publication failed
  /\ UNCHANGED <<node, now, adm, cred, hist, count>>

ReachedLate(r) == r.quota > 0 /\ r.used > r.quota   \* mutant: off by one
Reached(r) == OverQuota(r)

NextStatus(v) ==
  IF v.now >= v.snap.expires THEN "expired"
  ELSE IF Reached(v.snap) THEN "exhausted" ELSE "active"

(* SetShareEvaluatedStatus compares what the decision was based on. *)
UnchangedIgnoresStatus(r) ==    \* mutant: the manual status is not compared
  row # None /\ [r EXCEPT !.status = row.status] = row
UnchangedIgnoresUsage(r) ==     \* mutant: usage and period are not compared
  row # None /\ [r EXCEPT !.used = row.used, !.period = row.period] = row
Unchanged(r) ==
  /\ row # None
  /\ [r EXCEPT !.targets = row.targets, !.connlog = row.connlog] = row

EvalStatus(e) ==
  /\ eval[e].snap # None /\ ~Due(eval[e])
  /\ LET next == NextStatus(eval[e])
     IN  IF next = eval[e].snap.status
         THEN UNCHANGED <<row, pubs>> /\ eval' = [eval EXCEPT ![e] = Rest]
         ELSE IF Unchanged(eval[e].snap)
         THEN Write([row EXCEPT !.status = next]) /\ eval' = [eval EXCEPT ![e] = Rest]
         ELSE UNCHANGED <<row, pubs>> /\ eval' = Again(e)
  /\ UNCHANGED <<node, now, adm, cred, hist, count>>

-----------------------------------------------------------------------------
(* Handlers.  Every one begins by reading the row and the nodes. *)
Begin(a, op, step, r, S) ==
  /\ adm[a] = Idle /\ op \in Ops /\ Use("op", MaxOps)
  /\ adm' = [adm EXCEPT ![a] = [op |-> op, step |-> step, snap |-> r, list |-> node,
                                todo |-> S]]

At(a, op, step) == adm[a].op = op /\ adm[a].step = step
Done(a)         == adm' = [adm EXCEPT ![a] = Idle]

(* Create: the row, the row again with its subscription, then the nodes; a
   failed allocation discards everything. *)
NewShare(q, x, T) ==
  [status |-> "active", quota |-> q, expires |-> x, targets |-> T, connlog |-> FALSE,
   used |-> 0, period |-> PeriodStart(now)]

CreateShare(a) ==
  /\ row = None /\ count["op"] = 0
  /\ \E q \in Quotas, x \in Expiries, T \in SUBSET Servers :
       row' = NewShare(q, x, T) /\ Begin(a, "create", "link", row', {})
  /\ UNCHANGED <<node, pubs, now, eval, cred, hist>>

CreateLink(a) ==
  /\ At(a, "create", "link")
  /\ adm' = [adm EXCEPT ![a].step = "nodes", ![a].list = node]
  /\ IF row = None THEN UNCHANGED <<row, pubs>> ELSE Write(adm[a].snap)
  /\ UNCHANGED <<node, now, eval, cred, hist, count>>

CreateFails(a) ==
  /\ adm[a].op = "create" /\ Done(a)
  /\ row' = None /\ node' = NoNode /\ manual' = None /\ Bump(Present(node))
  /\ UNCHANGED <<now, eval, cred, bytes, count>>

(* Pause, Resume and ResetUsage test the row they read, then write. *)
BeginSimple(a) ==
  /\ row # None
  /\ \/ Begin(a, "reset", "write", row, {})
     \/ \E op \in {"pause", "resume"} :
          row.status # "revoked" /\ Begin(a, op, "write", row, {})
     \/ Begin(a, "connlog", "write", [row EXCEPT !.connlog = ~@], {})
  /\ UNCHANGED <<row, node, pubs, now, eval, cred, hist>>

Pause(a) ==
  /\ At(a, "pause", "write") /\ Done(a)
  /\ IF row = None THEN UNCHANGED <<row, pubs, manual>>
     ELSE /\ Write([row EXCEPT !.status = "paused"])
          /\ manual' = IF manual = "revoked" THEN manual ELSE "paused"
  /\ UNCHANGED <<node, now, eval, cred, bytes, count>>

Resume(a) ==
  /\ At(a, "resume", "write") /\ Done(a)
  /\ IF row = None THEN UNCHANGED <<row, pubs, manual>>
     ELSE /\ Write([row EXCEPT !.status = "active"])
          /\ manual' = IF manual = "revoked" THEN manual ELSE None
  /\ UNCHANGED <<node, now, eval, cred, bytes, count>>

ResetUsage(a) ==
  /\ At(a, "reset", "write") /\ Done(a)
  /\ IF row = None THEN UNCHANGED <<row, pubs, bytes>>
     ELSE /\ Write([row EXCEPT !.used = 0, !.period = now])
          /\ bytes' = [t \in Times |-> 0]
  /\ UNCHANGED <<node, now, eval, cred, manual, count>>

(* SetConnlogEnabled, and the renaming of a share's subscription, write back
   every column they read. *)
SetConnlogEnabled(a) ==
  /\ At(a, "connlog", "write") /\ Done(a)
  /\ IF row = None THEN UNCHANGED <<row, pubs>> ELSE Write(adm[a].snap)
  /\ UNCHANGED <<node, now, eval, cred, hist, count>>

-----------------------------------------------------------------------------
(* Revoke, Reissue and Delete walk over the nodes they listed, the revoked
   ones included. *)
ListedUsable == {s \in Present(node) : node[s].on}   \* mutant: without them
Listed == Present(node)

BeginWalk(a) ==
  /\ row # None
  /\ \E op \in {"revoke", "reissue", "delete"} :
       Begin(a, op, "nodes", row, Listed)
  /\ UNCHANGED <<row, node, pubs, now, eval, cred, hist>>

Walked(a, s) == adm' = [adm EXCEPT ![a].todo = @ \ {s}]

(* UpdateNode fails when the node is gone; DeleteNode does not care. *)
RevokeNode(a, s) ==
  /\ At(a, "revoke", "nodes") /\ s \in adm[a].todo
  /\ IF node[s] = None THEN Done(a) /\ UNCHANGED <<node, pubs>>
     ELSE /\ Walked(a, s) /\ Bump({s})
          /\ node' = [node EXCEPT ![s] = [on |-> FALSE, cred |-> adm[a].list[s].cred]]
  /\ UNCHANGED <<row, now, eval, cred, hist, count>>

RevokeShare(a) ==
  /\ At(a, "revoke", "nodes") /\ adm[a].todo = {} /\ Done(a)
  /\ IF row = None THEN UNCHANGED <<row, pubs, manual>>
     ELSE Write([row EXCEPT !.status = "revoked"]) /\ manual' = "revoked"
  /\ UNCHANGED <<node, now, eval, cred, bytes, count>>

ReissueNode(a, s) ==
  /\ At(a, "reissue", "nodes") /\ s \in adm[a].todo
  /\ cred' = cred + 1
  /\ IF node[s] = None THEN Done(a) /\ UNCHANGED <<node, pubs>>
     ELSE /\ Walked(a, s) /\ Bump({s})
          /\ node' = [node EXCEPT ![s] = [on |-> TRUE, cred |-> cred']]
  /\ UNCHANGED <<row, now, eval, hist, count>>

ReissueShare(a) ==
  /\ At(a, "reissue", "nodes") /\ adm[a].todo = {}
  /\ IF row = None THEN UNCHANGED <<row, pubs, manual>>
     ELSE Write([row EXCEPT !.status = "active"]) /\ manual' = None
  /\ adm' = [adm EXCEPT ![a].step = "ensure", ![a].list = node]
  /\ UNCHANGED <<node, now, eval, cred, bytes, count>>

DeleteNode(a, s) ==
  /\ At(a, "delete", "nodes") /\ s \in adm[a].todo /\ Walked(a, s)
  /\ node' = [node EXCEPT ![s] = None]
  /\ IF node[s] = None THEN UNCHANGED pubs ELSE Bump({s})
  /\ UNCHANGED <<row, now, eval, cred, hist, count>>

(* The nodes that are left lose their share. *)
DeleteShare(a) ==
  /\ At(a, "delete", "nodes") /\ adm[a].todo = {} /\ Done(a)
  /\ row' = None /\ manual' = None /\ Bump(Present(node))
  /\ UNCHANGED <<node, now, eval, cred, bytes, count>>

-----------------------------------------------------------------------------
(* ensureNodes: one transaction with the nodes to create, to reissue and to
   revoke, computed from the list that was read. *)
BeginUpdate(a) ==
  /\ row # None
  /\ \E q \in Quotas, x \in Expiries, T \in SUBSET Servers :
       Begin(a, "update", "ensure",
             [row EXCEPT !.quota = q, !.expires = x, !.targets = T], {})
  /\ UNCHANGED <<row, node, pubs, now, eval, cred, hist>>

Ensured(list, T, c) ==
  [s \in Servers |->
     IF s \in T /\ (list[s] = None \/ ~list[s].on) THEN [on |-> TRUE, cred |-> c]
     ELSE IF s \notin T /\ list[s] # None /\ list[s].on
     THEN [on |-> FALSE, cred |-> list[s].cred] ELSE node[s]]

(* Creating the node of a share that is gone, or updating a node that is
   gone, rolls back.  (Two handlers that create the same target's node at a
   time are outside the model.) *)
CanEnsure(N, list) ==
  row # None /\ \A s \in Servers : N[s] # node[s] => (list[s] = None <=> node[s] = None)

Settings(r) ==
  [row EXCEPT !.quota = r.quota, !.expires = r.expires, !.targets = r.targets,
              !.connlog = r.connlog]

EnsureNodes(a) ==
  /\ \/ At(a, "create", "nodes") \/ At(a, "reissue", "ensure") \/ At(a, "update", "ensure")
  /\ Done(a) /\ cred' = cred + 1
  /\ LET N == Ensured(adm[a].list, adm[a].snap.targets, cred')
         r == IF adm[a].op = "update" THEN Settings(adm[a].snap) ELSE row
     IN  IF CanEnsure(N, adm[a].list)
         THEN /\ node' = N /\ row' = r
              /\ Bump({s \in Servers : N[s] # node[s]} \cup
                      IF Tracked(r) = Tracked(row) THEN {} ELSE Present(node))
         ELSE UNCHANGED <<row, node, pubs>>
  /\ UNCHANGED <<now, eval, hist, count>>

(* The controller stops: nothing that runs is finished. *)
Crash ==
  /\ Use("crash", MaxCrashes)
  /\ adm' = [a \in Admins |-> Idle] /\ eval' = [e \in Evals |-> Rest] /\ build' = NoNode
  /\ UNCHANGED <<row, node, dirty, doc, now, cred, hist>>

-----------------------------------------------------------------------------
Handler(a) ==
  \/ CreateShare(a) \/ CreateLink(a) \/ CreateFails(a) \/ BeginSimple(a) \/ Pause(a)
  \/ Resume(a) \/ ResetUsage(a) \/ SetConnlogEnabled(a) \/ BeginWalk(a) \/ RevokeShare(a)
  \/ ReissueShare(a) \/ DeleteShare(a) \/ BeginUpdate(a) \/ EnsureNodes(a)
  \/ \E s \in Servers : RevokeNode(a, s) \/ ReissueNode(a, s) \/ DeleteNode(a, s)

Evaluation(e) == EvalRead(e) \/ EvalReset(e) \/ EvalStatus(e)

Publication(s) == Read(s) \/ Commit(s)

Next ==
  \/ Tick \/ Crash
  \/ \E ts \in 0..(now + Skew) : Ingest(ts)
  \/ \E a \in Admins : Handler(a)
  \/ \E e \in Evals : Evaluation(e)
  \/ \E s \in Servers : Publication(s)

Spec == Init /\ [][Next]_vars

(* The share_tick job evaluates every five minutes, an evaluation that began
   goes on, and the network_operations job publishes what is dirty. *)
FairSpec ==
  /\ Spec
  /\ \A e \in Evals : WF_vars(Evaluation(e))
  /\ \A s \in Servers : SF_vars(s \in dirty /\ build[s] = None /\ Read(s)) /\ SF_vars(Commit(s))

-----------------------------------------------------------------------------
Statuses == {"active", "exhausted", "expired", "paused", "revoked"}
Share == [status : Statuses, quota : Nat, expires : Nat, targets : SUBSET Servers,
          connlog : BOOLEAN, used : Nat, period : Nat]
Node  == [on : BOOLEAN, cred : Nat]
Entry == [cred : Nat, blocked : BOOLEAN] \cup {None}
Built == [doc : Entry]

ASSUME NoneAssumption ==
  /\ None \notin Share /\ None \notin Node /\ None \notin Built
  /\ None \notin [cred : Nat, blocked : BOOLEAN]
  /\ None \notin AllOps /\ None \notin Manual

(* The shape of the rows, the documents and the running handlers; no period
   starts in the future. *)
TypeOK ==
  /\ row \in Share \cup {None} /\ (row # None => row.period <= now)
  /\ node \in [Servers -> Node \cup {None}] /\ dirty \subseteq Servers
  /\ build \in [Servers -> Built \cup {None}] /\ doc \in [Servers -> Entry]
  /\ now \in 0..MaxTime /\ cred \in Nat /\ bytes \in [Times -> Nat]
  /\ \A e \in Evals : eval[e].snap \in Share \cup {None} /\ eval[e].try \in 0..2
  /\ \A a \in Admins : adm[a].snap \in Share \cup {None} /\ adm[a].todo \subseteq Servers
  /\ manual \in Manual \cup {None}

(* The quota is charged exactly the bytes sampled since the period began,
   whoever rolls the period over (Ingest or an evaluation, or both), however
   late the report, and whatever handlers write meanwhile. *)
UsageExact == row # None => row.used = bytes[row.period]

(* A manual state stays until it is lifted by hand: evaluations never
   overwrite it, and a revoked share comes back only by a reissue. *)
ManualSticks == row # None /\ manual # None => row.status = manual

(* An automatic "exhausted" is right at the moment it is written: a reset or
   a larger quota that came in between is never overruled. *)
JustifiedStep ==
  row # None /\ row' # None /\ row.status # "exhausted" /\ row'.status = "exhausted"
    => OverQuota(row')
ExhaustedIsJustified == [][JustifiedStep]_vars

(* Once its generation is published, a server serves a node of the share
   only with the present credential, and unblocked only for an active share:
   pause, exhaustion, expiry and revocation really stop the traffic, and a
   reissue does not revive old credentials. *)
PublishedIsAuthorised ==
  \A s \in Servers \ dirty : doc[s] # None =>
    /\ node[s] # None /\ node[s].on /\ node[s].cred = doc[s].cred
    /\ row # None /\ ~doc[s].blocked => row.status = "active"

(* A deleted share leaves no node behind. *)
NoOrphan == row = None => Present(node) = {}

(* A share whose quota stays used up is blocked on every server at last,
   although usage itself raises no generation. *)
OverQuotaBlocked ==
  \A s \in Servers :
    <>[](row # None /\ OverQuota(row)) => <>[](doc[s] = None \/ doc[s].blocked)

(* Rows and documents agree: well-formed rows, no node without its share, and
   published nodes only of an active share with the present credential; and
   what was decided by hand stays. *)
SharesAgree == TypeOK /\ PublishedIsAuthorised /\ NoOrphan /\ ManualSticks

(* Usage is exact, and a share is closed for it only when it is used up
   (Ingest, evaluateAttempt). *)
UsageIsFair == [][UsageExact' /\ JustifiedStep]_vars
=============================================================================
