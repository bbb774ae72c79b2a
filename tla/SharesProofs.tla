---------------------------- MODULE SharesProofs ----------------------------
(***************************************************************************)
(* Proofs about Shares, for any set of servers, evaluations, quotas,       *)
(* expiries and period boundaries.  What the servers publish is shown for  *)
(* any number of concurrent handlers; that rows, nodes and manual states   *)
(* agree and that usage is exact, for handlers that do not overlap: the    *)
(* code has no protection against two of them (README).                    *)
(***************************************************************************)
EXTENDS Shares, WellFoundedInduction, TLAPS

OneHandler == \A a, b \in Admins : a = b

-----------------------------------------------------------------------------
(* The shape of the running handlers and evaluations: what they read was a
   row of the past. *)
NodeLists == [Servers -> Node \cup {None}]
Handling  == [op : AllOps \cup {None}, step : {"link", "nodes", "write", "ensure", None},
              snap : Share \cup {None}, list : NodeLists \cup {None}, todo : SUBSET Servers]
Evaluating == [snap : Share \cup {None}, now : Nat, try : 0..2]

RowOK == row \in Share \cup {None} /\ (row # None => row.period <= now)

RestOK ==
  /\ node \in NodeLists /\ now \in 0..MaxTime /\ cred \in Nat /\ bytes \in [Times -> Nat]
  /\ manual \in Manual \cup {None} /\ count \in [{"ingest", "op", "crash"} -> Nat]

Handles(h) ==
  h.op # None =>
    /\ h.op \in Ops /\ h.snap # None /\ h.snap.period <= now
    /\ h.list \in NodeLists /\ \A s \in h.todo : h.list[s] # None
    /\ h.op = "create" => h.snap.status = "active" /\ h.snap.used = 0 /\ h.todo = {}

AdmOK == adm \in [Admins -> Handling] /\ \A a \in Admins : Handles(adm[a])

Evaluates(v) ==
  /\ v.now <= now
  /\ v.snap # None => v.snap.period <= now /\ v.snap.status \notin Manual

EvalOK == eval \in [Evals -> Evaluating] /\ \A e \in Evals : Evaluates(eval[e])

(* What is published, and what a publication under way would publish, is
   authorised now. *)
Authorised(s, d) ==
  d # None =>
    /\ node[s] # None /\ node[s].on /\ node[s].cred = d.cred
    /\ row # None /\ ~d.blocked => row.status = "active"

PubOK ==
  /\ dirty \subseteq Servers /\ build \in [Servers -> Built \cup {None}]
  /\ doc \in [Servers -> Entry]
  /\ \A s \in Servers : build[s] # None => Authorised(s, build[s].doc)
  /\ \A s \in Servers \ dirty : Authorised(s, doc[s])

RowsInv == RowOK /\ RestOK /\ AdmOK /\ EvalOK /\ PubOK

(* One handler at a time: what it has read still holds of what only handlers
   change. *)
Lone(h) ==
  /\ h.op = "create" => manual = None
  /\ h.op \in {"pause", "resume"} => manual # "revoked"
  /\ h.op = "connlog" /\ manual # None => h.snap.status = manual
  /\ h.op = "delete" => Present(node) \subseteq h.todo

LoneInv ==
  /\ NoOrphan /\ ManualSticks /\ (row = None => manual = None)
  /\ \A a \in Admins : Lone(adm[a])

(* A byte of a period is accepted only when the row has reached the period. *)
Starts(t) == PeriodStart(t) = t

UsageInv ==
  /\ UsageExact
  /\ row # None => \A t \in Times : Starts(t) /\ t > row.period => bytes[t] = 0
  /\ cred = 0 => \A t \in Times : bytes[t] = 0
  /\ count["op"] = 0 => cred = 0 /\ \A a \in Admins : adm[a].op = None
  /\ \A a \in Admins : adm[a].op = "create" /\ adm[a].step = "link" => cred = 0

-----------------------------------------------------------------------------
(* The least element of a set of naturals, from the well-foundedness of <. *)
Less == OpToRel(<, Nat)

LEMMA LessThan == ASSUME NEW x \in Nat, NEW y \in Nat, y < x PROVE <<y, x>> \in Less
  BY DEF Less, OpToRel

LEMMA LessIsWellFounded == IsWellFoundedOn(Less, Nat)
  BY NatLessThanWellFounded DEF Less

LEMMA LeastNatural ==
  ASSUME NEW T, T \subseteq Nat, T # {}
  PROVE  \E x \in T : \A y \in T : x <= y
<1>1. PICK x \in T : \A y \in T : ~(<<y, x>> \in Less)
  BY LessIsWellFounded, WFMin
<1>2. \A y \in T : ~(y < x)
  BY <1>1, LessThan
<1>3. \A y \in T : y \in Nat /\ x \in Nat
  OBVIOUS
<1> QED  BY <1>2, <1>3

(* A bounded set of naturals has its maximum. *)
LEMMA MaxBounded ==
  ASSUME NEW S, S \subseteq Nat, S # {}, NEW t \in Nat, \A x \in S : x <= t
  PROVE  Max(S) \in S /\ \A y \in S : y <= Max(S)
<1>1. \A x \in S : x \in Nat /\ x <= t
  OBVIOUS
<1>2. PICK T : T = {n \in Nat : \E x \in S : n = t - x}
  OBVIOUS
<1>3. T \subseteq Nat /\ \A x \in S : t - x \in T
  BY <1>1, <1>2
<1>4. PICK m \in T : \A y \in T : m <= y
  BY <1>3, LeastNatural
<1>5. PICK z \in S : m = t - z
  BY <1>2, <1>4
<1>6. \A y \in S : z >= y
  <2> TAKE y \in S
  <2>1. t - z <= t - y
    BY <1>3, <1>4, <1>5
  <2> QED  BY <1>1, <2>1
<1>7. Max(S) \in S /\ \A y \in S : Max(S) >= y
  BY <1>6 DEF Max
<1>8. \A y \in S : Max(S) \in Nat /\ y \in Nat
  BY <1>7
<1> QED  BY <1>7, <1>8

(* The start of the period of a time is the last boundary before it. *)
LEMMA PeriodStarts ==
  ASSUME NEW t \in Nat
  PROVE  /\ PeriodStart(t) \in Nat /\ PeriodStart(t) <= t
         /\ PeriodStart(t) \in Boundaries \cup {0}
         /\ \A b \in Boundaries \cup {0} : b <= t => b <= PeriodStart(t)
<1>1. PICK S : S = {b \in Boundaries : b <= t} \cup {0}
  OBVIOUS
<1>2. S \subseteq Nat /\ S # {} /\ \A x \in S : x <= t
  <2>1. Boundaries \subseteq Nat /\ 0 \in S /\ 0 <= t
    BY <1>1, SharesAssumption
  <2>2. \A x \in S : (x \in Boundaries /\ x <= t) \/ x = 0
    BY <1>1
  <2>3. S \subseteq Nat
    <3>1. 0 \in Nat
      OBVIOUS
    <3> QED  BY <2>1, <2>2, <3>1, Zenon
  <2>4. \A x \in S : x <= t
    BY <2>1, <2>2
  <2> QED  BY <2>1, <2>3, <2>4
<1>3. Max(S) \in S /\ \A y \in S : y <= Max(S)
  BY <1>2, MaxBounded
<1>4. PeriodStart(t) = Max(S)
  BY <1>1 DEF PeriodStart
<1> QED  BY <1>1, <1>2, <1>3, <1>4

LEMMA PeriodOrder ==
  ASSUME NEW t \in Nat, NEW u \in Nat
  PROVE  Starts(PeriodStart(t)) /\ (Starts(t) /\ t <= u => t <= PeriodStart(u))
<1>1. PeriodStart(t) \in Nat /\ PeriodStart(t) \in Boundaries \cup {0}
  BY PeriodStarts
<1>2. PICK p \in Nat : p = PeriodStart(t)
  BY <1>1
<1>3. PeriodStart(p) \in Nat /\ PeriodStart(p) <= p /\ p <= PeriodStart(p)
  BY <1>1, <1>2, PeriodStarts
<1>4. PeriodStart(p) = p
  BY <1>3
<1>5. Starts(t) /\ t <= u => t <= PeriodStart(u)
  BY <1>1, PeriodStarts DEF Starts
<1> QED  BY <1>2, <1>4, <1>5 DEF Starts

-----------------------------------------------------------------------------
USE DEF pubs, hist, vars

LEMMA Numbers == MaxTime \in Nat /\ Quotas \subseteq Nat /\ Expiries \subseteq Nat /\ Times = 0..MaxTime
  BY SharesAssumption DEF Times

(* A server whose node stays and whose share does not lose its activity. *)
Keeps(s) ==
  /\ node'[s] = node[s]
  /\ node[s] # None /\ row' # None /\ row'.status # "active" =>
       row # None /\ row.status # "active"

LEMMA AuthorisedKept ==
  ASSUME NEW s, NEW d, Authorised(s, d), Keeps(s)
  PROVE  Authorised(s, d)'
  BY DEF Authorised, Keeps

LEMMA PubsKept ==
  ASSUME PubOK, UNCHANGED pubs, \A s \in Servers : Keeps(s)
  PROVE  PubOK'
<1>1. \A s \in Servers : build[s] # None => Authorised(s, build[s].doc)'
  BY AuthorisedKept DEF PubOK
<1>2. \A s \in Servers \ dirty : Authorised(s, doc[s])'
  BY AuthorisedKept DEF PubOK
<1> QED  BY <1>1, <1>2 DEF PubOK

(* The generations of the servers that change are raised. *)
LEMMA PubsBumped ==
  ASSUME PubOK, NEW S \in SUBSET Servers, Bump(S), \A s \in Servers \ S : Keeps(s)
  PROVE  PubOK'
<1>1. /\ dirty' = dirty \cup S /\ doc' = doc
      /\ build' = [s \in Servers |-> IF s \in S THEN None ELSE build[s]]
  BY DEF Bump
<1>2. dirty' \subseteq Servers /\ build' \in [Servers -> Built \cup {None}] /\ doc' \in [Servers -> Entry]
  BY <1>1 DEF PubOK
<1>3. ASSUME NEW s \in Servers, build'[s] # None PROVE Authorised(s, build[s].doc)'
  <2>1. s \notin S /\ build'[s] = build[s]
    BY <1>1, <1>3
  <2>2. Authorised(s, build[s].doc)
    BY <1>3, <2>1 DEF PubOK
  <2> QED  BY <2>1, <2>2, AuthorisedKept DEF Authorised
<1>4. ASSUME NEW s \in Servers \ dirty' PROVE Authorised(s, doc[s])'
  <2>1. s \in Servers \ dirty /\ s \notin S
    BY <1>1, <1>4
  <2>2. Authorised(s, doc[s])
    BY <2>1 DEF PubOK
  <2> QED  BY <1>1, <2>1, <2>2, AuthorisedKept DEF Authorised
<1> QED  BY <1>2, <1>3, <1>4 DEF PubOK

(* A row is written, and the triggers see whether the status changed. *)
LEMMA Written ==
  ASSUME RowsInv, NEW r \in Share, row # None, Write(r), UNCHANGED <<node, now>>, r.period <= now
  PROVE  RowOK' /\ PubOK' /\ row' = r
<1>1. row' = r /\ r # None
  BY NoneAssumption DEF Write
<1>2. RowOK'
  BY <1>1 DEF RowOK
<1>3. CASE Tracked(r) = Tracked(row)
  <2>1. UNCHANGED pubs /\ r.status = row.status
    BY <1>3 DEF Write, Tracked
  <2>2. \A s \in Servers : Keeps(s)
    BY <1>1, <2>1 DEF Keeps
  <2> QED  BY <1>1, <1>2, <2>1, <2>2, PubsKept DEF RowsInv
<1>4. CASE Tracked(r) # Tracked(row)
  <2>1. Bump(Present(node)) /\ Present(node) \in SUBSET Servers
    BY <1>4 DEF Write, Present
  <2>2. \A s \in Servers \ Present(node) : Keeps(s)
    BY DEF Keeps, Present
  <2> QED  BY <1>1, <1>2, <2>1, <2>2, PubsBumped DEF RowsInv
<1> QED  BY <1>3, <1>4
-----------------------------------------------------------------------------
(* The parts that an action leaves alone. *)
LEMMA AdmKept == ASSUME RowsInv, UNCHANGED <<adm, now>> PROVE AdmOK'
  BY DEF RowsInv, AdmOK, Handles

LEMMA EvalKept == ASSUME RowsInv, UNCHANGED <<eval, now>> PROVE EvalOK'
  BY DEF RowsInv, EvalOK, Evaluates

LEMMA RowKept == ASSUME RowsInv, UNCHANGED <<row, now>> PROVE RowOK'
  BY DEF RowsInv, RowOK

LEMMA NothingPublished == ASSUME RowsInv, UNCHANGED <<row, node, pubs>> PROVE PubOK'
<1>1. \A s \in Servers : Keeps(s)
  BY DEF Keeps
<1> QED  BY <1>1, PubsKept DEF RowsInv

LEMMA DoneOK == ASSUME RowsInv, NEW a \in Admins, Done(a), UNCHANGED now PROVE AdmOK'
<1>1. Idle \in Handling /\ Idle.op = None
  BY DEF Idle, Handling
<1> QED  BY <1>1 DEF RowsInv, AdmOK, Done, Handles

LEMMA BeginOK ==
  ASSUME RowsInv, NEW a \in Admins, NEW op \in AllOps, NEW step \in {"link", "nodes", "write", "ensure"},
         NEW r \in Share, NEW S \in SUBSET Present(node), Begin(a, op, step, r, S), UNCHANGED now,
         r.period <= now, op = "create" => r.status = "active" /\ r.used = 0 /\ S = {}
  PROVE  AdmOK' /\ count' \in [{"ingest", "op", "crash"} -> Nat]
<1>0. PICK h : h = [op |-> op, step |-> step, snap |-> r, list |-> node, todo |-> S]
  OBVIOUS
<1>1. node \in NodeLists
  BY DEF RowsInv, RestOK
<1>2. h \in Handling
  BY <1>0, <1>1 DEF Handling, Present
<1>3. r # None /\ op # None
  BY NoneAssumption
<1>4. Handles(h)'
  BY <1>0, <1>1, <1>3 DEF Handles, Present, Begin
<1>5. adm' = [adm EXCEPT ![a] = h]
  BY <1>0 DEF Begin
<1>6. AdmOK'
  BY <1>2, <1>4, <1>5 DEF RowsInv, AdmOK, Handles
<1>7. count' \in [{"ingest", "op", "crash"} -> Nat]
  BY DEF Begin, Use, RowsInv, RestOK
<1> QED  BY <1>6, <1>7

LEMMA RestAgain ==
  ASSUME RowsInv, RowOK', NEW e \in Evals, UNCHANGED now,
         eval' = Again(e) \/ eval' = [eval EXCEPT ![e] = Rest]
  PROVE  EvalOK'
<1>1. Rest \in Evaluating /\ Evaluates(Rest)'
  BY SharesAssumption DEF Rest, Evaluating, Evaluates, RowsInv, RestOK
<1>2. eval[e] \in Evaluating
  BY DEF RowsInv, EvalOK
<1>3. CASE eval' = [eval EXCEPT ![e] = Rest]
  BY <1>1, <1>3 DEF RowsInv, EvalOK, Evaluates
<1>4. CASE eval' = [eval EXCEPT ![e] = [snap |-> row', now |-> now, try |-> eval[e].try + 1]]
           /\ eval[e].try < 2 /\ row' # None /\ row'.status \notin Manual
  <2> DEFINE v == [snap |-> row', now |-> now, try |-> eval[e].try + 1]
  <2>1. v \in Evaluating
    BY <1>2, <1>4 DEF Evaluating, RowOK, RowsInv, RestOK
  <2>2. v.now <= now /\ v.snap.period <= now /\ v.snap.status \notin Manual
    BY <1>4 DEF RowOK, RowsInv, RestOK
  <2>3. eval' = [eval EXCEPT ![e] = v]
    BY <1>4
  <2> HIDE DEF v
  <2> QED  BY <2>1, <2>2, <2>3 DEF RowsInv, EvalOK, Evaluates
<1> QED  BY <1>3, <1>4 DEF Again

-----------------------------------------------------------------------------
(* One lemma per action, or per group that writes the same things. *)
LEMMA TickRows == ASSUME RowsInv, Tick PROVE RowsInv'
<1> USE DEF RowsInv, Tick
<1>1. now' = now + 1 /\ now \in Nat /\ now' \in 0..MaxTime
  BY SharesAssumption DEF RestOK
<1>2. RowOK' /\ RestOK'
  BY <1>1 DEF RowOK, RestOK, Share
<1>3. AdmOK'
  <2>1. \A a \in Admins : adm[a] \in Handling /\ Handles(adm[a])
    BY DEF AdmOK
  <2>2. \A h \in Handling : Handles(h) => Handles(h)'
    BY <1>1 DEF Handles, Handling, Share
  <2> QED  BY <2>1, <2>2 DEF AdmOK, Handles
<1>4. EvalOK'
  <2>1. \A v \in Evaluating : Evaluates(v) => Evaluates(v)'
    BY <1>1 DEF Evaluates, Evaluating, Share
  <2> QED  BY <2>1 DEF EvalOK, Evaluates
<1>5. PubOK'
  BY NothingPublished
<1> QED  BY <1>2, <1>3, <1>4, <1>5

LEMMA CrashRows == ASSUME RowsInv, Crash PROVE RowsInv'
<1> USE DEF RowsInv, Crash
<1>1. RestOK'
  BY DEF RestOK, Use
<1>2. AdmOK'
  BY DEF AdmOK, Handling, Idle, Handles
<1>3. EvalOK'
  BY SharesAssumption DEF EvalOK, Evaluating, Rest, Evaluates, RestOK
<1>4. PubOK'
  <2>1. /\ dirty \subseteq Servers /\ NoNode \in [Servers -> Built \cup {None}]
        /\ doc \in [Servers -> Entry] /\ \A s \in Servers : NoNode[s] = None
    BY DEF PubOK, NoNode
  <2>2. \A s \in Servers \ dirty : Authorised(s, doc[s])'
    BY DEF PubOK, Authorised
  <2> QED  BY <2>1, <2>2 DEF PubOK
<1> QED  BY <1>1, <1>2, <1>3, <1>4, RowKept

LEMMA ReadRows == ASSUME RowsInv, NEW s \in Servers, Read(s) PROVE RowsInv'
<1> USE DEF RowsInv, Read
<1>1. Current(s) \in Entry /\ Authorised(s, Current(s))
  <2>1. CASE node[s] = None \/ ~node[s].on
    BY <2>1 DEF Current, Entry, Authorised
  <2>2. CASE ~(node[s] = None \/ ~node[s].on)
    <3> DEFINE b == row # None /\ (row.status # "active" \/ now >= row.expires \/ OverQuota(row))
    <3>1. Current(s) = [cred |-> node[s].cred, blocked |-> b] /\ node[s] \in Node
      BY <2>2 DEF Current, RestOK, NodeLists
    <3>2. b \in BOOLEAN /\ (row # None /\ ~b => row.status = "active")
      OBVIOUS
    <3> HIDE DEF b
    <3> QED  BY <2>2, <3>1, <3>2 DEF Node, Entry, Authorised
  <2> QED  BY <2>1, <2>2
<1>2. [doc |-> Current(s)] \in Built
  BY <1>1 DEF Built
<1>3. PICK c : c = Current(s)
  OBVIOUS
<1>4. build' = [build EXCEPT ![s] = [doc |-> c]]
  BY <1>3
<1>5. build' \in [Servers -> Built \cup {None}] /\ doc' = doc /\ dirty' = dirty
  BY <1>2, <1>3, <1>4 DEF PubOK
<1>6. ASSUME NEW x \in Servers, build'[x] # None PROVE Authorised(x, build[x].doc)'
  <2>1. CASE x = s
    <3>1. build'[x].doc = c
      BY <1>4, <2>1 DEF PubOK
    <3> QED  BY <1>1, <1>3, <2>1, <3>1 DEF Authorised
  <2>2. CASE x # s
    <3>1. build'[x] = build[x]
      BY <1>4, <2>2 DEF PubOK
    <3> QED  BY <1>6, <3>1 DEF Authorised, PubOK
  <2> QED  BY <2>1, <2>2
<1>7. \A x \in Servers \ dirty : Authorised(x, doc[x])'
  BY DEF PubOK, Authorised
<1>8. PubOK'
  BY <1>5, <1>6, <1>7 DEF PubOK
<1>9. RestOK'
  BY DEF RestOK
<1> QED  BY <1>8, <1>9, AdmKept, EvalKept, RowKept

LEMMA CommitRows == ASSUME RowsInv, NEW s \in Servers, Commit(s) PROVE RowsInv'
<1> USE DEF RowsInv, Commit
<1>1. build[s] \in Built /\ Authorised(s, build[s].doc)
  BY DEF PubOK
<1>2. PICK c : c = build[s].doc
  OBVIOUS
<1>3. c \in Entry /\ doc' = [doc EXCEPT ![s] = c]
  BY <1>1, <1>2 DEF Built
<1>4. dirty' \subseteq Servers /\ build' \in [Servers -> Built \cup {None}] /\ doc' \in [Servers -> Entry]
  BY <1>3 DEF PubOK
<1>5. ASSUME NEW x \in Servers, build'[x] # None PROVE Authorised(x, build[x].doc)'
  <2>1. build'[x] = build[x] /\ build[x] # None
    BY <1>5 DEF PubOK
  <2> QED  BY <2>1 DEF PubOK, Authorised
<1>6. ASSUME NEW x \in Servers \ dirty' PROVE Authorised(x, doc[x])'
  <2>1. CASE x = s
    <3>1. doc'[x] = c
      BY <1>3, <2>1 DEF PubOK
    <3> QED  BY <1>1, <1>2, <2>1, <3>1 DEF Authorised
  <2>2. CASE x # s
    <3>1. doc'[x] = doc[x] /\ x \in Servers \ dirty
      BY <1>3, <1>6, <2>2 DEF PubOK
    <3> QED  BY <3>1 DEF PubOK, Authorised
  <2> QED  BY <2>1, <2>2
<1>7. PubOK'
  BY <1>4, <1>5, <1>6 DEF PubOK
<1>8. RestOK'
  BY DEF RestOK
<1> QED  BY <1>7, <1>8, AdmKept, EvalKept, RowKept
(* A step that writes the row, if it is still there. *)
MayWrite(r) == IF row = None THEN UNCHANGED <<row, pubs>> ELSE Write(r)

LEMMA MayWriteOK ==
  ASSUME RowsInv, NEW r \in Share \cup {None}, row # None => r \in Share /\ r.period <= now,
         MayWrite(r), UNCHANGED <<node, now>>
  PROVE  RowOK' /\ PubOK'
<1>1. CASE row = None
  BY <1>1, RowKept, NothingPublished DEF MayWrite
<1>2. CASE row # None
  BY <1>2, Written DEF MayWrite
<1> QED  BY <1>1, <1>2

LEMMA IngestRows == ASSUME RowsInv, NEW ts \in 0..(now + Skew), Ingest(ts) PROVE RowsInv'
<1> USE DEF RowsInv
<1>1. row \in Share /\ row.period <= now /\ now \in Nat
  BY SharesAssumption DEF Ingest, RowOK, RestOK
<1>2. PeriodStart(now) \in Nat /\ PeriodStart(now) <= now
  BY <1>1, PeriodStarts
<1>3. Rolled(row) \in Share /\ Rolled(row).period <= now
  BY <1>1, <1>2 DEF Rolled, Share, Statuses
<1>4. PICK r \in Share : r.period <= now /\ Write(r)
  <2>1. CASE ts < Rolled(row).period
    BY <1>3, <2>1 DEF Ingest
  <2>2. CASE ~(ts < Rolled(row).period)
    <3>1. [Rolled(row) EXCEPT !.used = @ + 1] \in Share
          /\ [Rolled(row) EXCEPT !.used = @ + 1].period = Rolled(row).period
      BY <1>3 DEF Share
    <3> QED  BY <1>3, <2>2, <3>1 DEF Ingest
  <2> QED  BY <2>1, <2>2
<1>5. RowOK' /\ PubOK'
  BY <1>4, Written DEF Ingest
<1>6. RestOK'
  <2>1. bytes' \in [Times -> Nat]
    BY DEF Ingest, RestOK
  <2>2. count' \in [{"ingest", "op", "crash"} -> Nat]
    BY DEF Ingest, Use, RestOK
  <2> QED  BY <2>1, <2>2 DEF Ingest, RestOK
<1> QED  BY <1>5, <1>6, AdmKept, EvalKept DEF Ingest

LEMMA EvalReadRows == ASSUME RowsInv, NEW e \in Evals, EvalRead(e) PROVE RowsInv'
<1> USE DEF RowsInv, EvalRead
<1>1. PICK v : v = [snap |-> row, now |-> now, try |-> 0]
  OBVIOUS
<1>2. v \in Evaluating /\ v.now <= now /\ v.snap.period <= now /\ v.snap.status \notin Manual
  BY <1>1, SharesAssumption DEF Evaluating, RowOK, RestOK
<1>3. EvalOK'
  BY <1>1, <1>2 DEF EvalOK, Evaluates
<1>4. RestOK'
  BY DEF RestOK
<1> QED  BY <1>3, <1>4, AdmKept, RowKept, NothingPublished

LEMMA EvalResetRows == ASSUME RowsInv, NEW e \in Evals, EvalReset(e) PROVE RowsInv'
<1> USE DEF RowsInv
<1> DEFINE p == PeriodStart(eval[e].now)
           r == [row EXCEPT !.used = 0, !.period = p,
                            !.status = IF @ = "exhausted" THEN "active" ELSE @]
<1>1. eval[e].now \in Nat /\ eval[e].now <= now /\ now \in Nat
  BY SharesAssumption DEF EvalOK, Evaluating, Evaluates, RestOK
<1>2. p \in Nat /\ p <= now
  BY <1>1, PeriodStarts
<1> HIDE DEF p
<1>3. RowOK' /\ PubOK'
  <2>1. CASE row # None /\ Write(r)
    <3>1. r \in Share /\ r.period = p
      BY <1>2, <2>1 DEF RowOK, Share, Statuses
    <3> HIDE DEF r
    <3> QED  BY <1>2, <2>1, <3>1, Written DEF EvalReset
  <2>2. CASE UNCHANGED <<row, pubs>>
    BY <2>2, RowKept, NothingPublished DEF EvalReset
  <2> QED  BY <2>1, <2>2 DEF EvalReset, p
<1>4. EvalOK'
  BY <1>3, RestAgain DEF EvalReset
<1>5. RestOK'
  BY DEF EvalReset, RestOK
<1> QED  BY <1>3, <1>4, <1>5, AdmKept DEF EvalReset

LEMMA EvalStatusRows == ASSUME RowsInv, NEW e \in Evals, EvalStatus(e) PROVE RowsInv'
<1> USE DEF RowsInv
<1> DEFINE next == NextStatus(eval[e])
<1>1. next \in Statuses
  BY DEF NextStatus, Statuses
<1> HIDE DEF next
<1>2. \/ UNCHANGED <<row, pubs>> \/ (row # None /\ Write([row EXCEPT !.status = next]))
  BY DEF EvalStatus, Unchanged, next
<1>3. RowOK' /\ PubOK'
  <2>1. CASE UNCHANGED <<row, pubs>>
    BY <2>1, RowKept, NothingPublished DEF EvalStatus
  <2>2. CASE row # None /\ Write([row EXCEPT !.status = next])
    <3>1. /\ [row EXCEPT !.status = next] \in Share
          /\ [row EXCEPT !.status = next].period <= now
      BY <1>1, <2>2 DEF RowOK, Share
    <3> QED  BY <2>2, <3>1, Written DEF EvalStatus
  <2> QED  BY <1>2, <2>1, <2>2
<1>4. eval' = Again(e) \/ eval' = [eval EXCEPT ![e] = Rest]
  BY DEF EvalStatus
<1>5. EvalOK'
  BY <1>3, <1>4, RestAgain DEF EvalStatus
<1>6. RestOK'
  BY DEF EvalStatus, RestOK
<1> QED  BY <1>3, <1>5, <1>6, AdmKept DEF EvalStatus

LEMMA CreateShareRows == ASSUME RowsInv, NEW a \in Admins, CreateShare(a) PROVE RowsInv'
<1> USE DEF RowsInv
<1>1. PICK q \in Quotas, x \in Expiries, T \in SUBSET Servers :
        row' = NewShare(q, x, T) /\ Begin(a, "create", "link", row', {})
  BY DEF CreateShare
<1>2. now \in Nat /\ PeriodStart(now) \in Nat /\ PeriodStart(now) <= now
  BY PeriodStarts, SharesAssumption DEF RestOK
<1>3. PICK r : r = NewShare(q, x, T)
  OBVIOUS
<1>4. r \in Share /\ r.period <= now /\ r.status = "active" /\ r.used = 0
  BY <1>2, <1>3, Numbers DEF NewShare, Share, Statuses
<1>5. Begin(a, "create", "link", r, {})
  BY <1>1, <1>3 DEF Begin
<1>6. AdmOK' /\ count' \in [{"ingest", "op", "crash"} -> Nat]
  BY <1>4, <1>5, BeginOK DEF CreateShare, AllOps
<1>7. RowOK'
  BY <1>1, <1>3, <1>4 DEF RowOK, CreateShare
<1>8. PubOK'
  <2>1. \A s \in Servers : Keeps(s)
    BY <1>1, <1>3, <1>4 DEF Keeps, CreateShare
  <2> QED  BY <2>1, PubsKept DEF CreateShare
<1>9. RestOK'
  BY <1>6 DEF RestOK, CreateShare
<1> QED  BY <1>6, <1>7, <1>8, <1>9, EvalKept DEF CreateShare

(* A handler that goes on from one step to the next. *)
LEMMA AdvancedOK ==
  ASSUME RowsInv, NEW a \in Admins, NEW h \in Handling, adm' = [adm EXCEPT ![a] = h],
         Handles(h), UNCHANGED now
  PROVE  AdmOK'
  BY DEF RowsInv, AdmOK, Handles

LEMMA HandlerSnap ==
  ASSUME RowsInv, NEW a \in Admins, adm[a].op \in AllOps
  PROVE  /\ adm[a] \in Handling /\ adm[a].snap \in Share /\ adm[a].snap.period <= now
         /\ adm[a].list \in NodeLists /\ Handles(adm[a]) /\ adm[a].op # None
         /\ adm[a].todo \subseteq Servers
  BY NoneAssumption DEF RowsInv, AdmOK, Handles, Handling

LEMMA CreateLinkRows == ASSUME RowsInv, NEW a \in Admins, CreateLink(a) PROVE RowsInv'
<1> USE DEF RowsInv
<1>1. /\ adm[a] \in Handling /\ adm[a].snap \in Share /\ adm[a].snap.period <= now
      /\ Handles(adm[a]) /\ node \in NodeLists
  BY HandlerSnap DEF CreateLink, At, AllOps, RestOK
<1>2. PICK h : h = [adm[a] EXCEPT !.step = "nodes", !.list = node]
  OBVIOUS
<1>3. h \in Handling
  BY <1>1, <1>2 DEF Handling
<1>4. /\ h.op = adm[a].op /\ h.snap = adm[a].snap /\ h.list = node /\ h.todo = adm[a].todo
  BY <1>1, <1>2 DEF Handling
<1>5. adm' = [adm EXCEPT ![a] = h]
  BY <1>2 DEF CreateLink, AdmOK, Handling
<1>6. Handles(h)
  BY <1>1, <1>4 DEF Handles, CreateLink, At
<1>7. RowOK' /\ PubOK'
  BY <1>1, MayWriteOK DEF CreateLink, MayWrite
<1>8. RestOK'
  BY DEF RestOK, CreateLink
<1>9. AdmOK'
  BY <1>3, <1>5, <1>6, AdvancedOK DEF CreateLink
<1> QED  BY <1>7, <1>8, <1>9, EvalKept DEF CreateLink

LEMMA CreateFailsRows == ASSUME RowsInv, NEW a \in Admins, CreateFails(a) PROVE RowsInv'
<1> USE DEF RowsInv, CreateFails
<1>1. RowOK'
  BY DEF RowOK
<1>2. NoNode \in NodeLists
  BY DEF NoNode, NodeLists
<1>3. RestOK'
  BY <1>2 DEF RestOK
<1>4. PubOK'
  <2>1. \A s \in Servers \ Present(node) : Keeps(s)
    BY DEF Keeps, Present, NoNode
  <2> QED  BY <2>1, PubsBumped DEF Present
<1> QED  BY <1>1, <1>3, <1>4, DoneOK, EvalKept

LEMMA BeginSimpleRows == ASSUME RowsInv, NEW a \in Admins, BeginSimple(a) PROVE RowsInv'
<1> USE DEF RowsInv
<1>1. row \in Share /\ row.period <= now /\ {} \in SUBSET Present(node)
  BY DEF BeginSimple, RowOK
<1>2. PICK r \in Share, op \in {"reset", "pause", "resume", "connlog"} :
        r.period <= now /\ Begin(a, op, "write", r, {})
  <2>1. CASE Begin(a, "connlog", "write", [row EXCEPT !.connlog = ~@], {})
    <3>1. [row EXCEPT !.connlog = ~@] \in Share /\ [row EXCEPT !.connlog = ~@].period <= now
      BY <1>1 DEF Share
    <3> QED  BY <2>1, <3>1
  <2>2. CASE ~Begin(a, "connlog", "write", [row EXCEPT !.connlog = ~@], {})
    BY <1>1, <2>2 DEF BeginSimple
  <2> QED  BY <2>1, <2>2
<1>3. AdmOK' /\ count' \in [{"ingest", "op", "crash"} -> Nat]
  <2>1. op \in AllOps /\ op # "create" /\ now' = now
    BY DEF AllOps, BeginSimple
  <2> QED  BY <1>1, <1>2, <2>1, BeginOK
<1>4. RestOK'
  BY <1>3 DEF RestOK, BeginSimple
<1> QED  BY <1>3, <1>4, EvalKept, RowKept, NothingPublished DEF BeginSimple

LEMMA BeginWalkRows == ASSUME RowsInv, NEW a \in Admins, BeginWalk(a) PROVE RowsInv'
<1> USE DEF RowsInv
<1>1. row \in Share /\ row.period <= now
  BY DEF BeginWalk, RowOK
<1>2. PICK op \in {"revoke", "reissue", "delete"} : Begin(a, op, "nodes", row, Present(node))
  BY DEF BeginWalk, Listed
<1>3. AdmOK' /\ count' \in [{"ingest", "op", "crash"} -> Nat]
  <2>1. op \in AllOps /\ op # "create" /\ now' = now
    BY DEF AllOps, BeginWalk
  <2> QED  BY <1>1, <1>2, <2>1, BeginOK
<1>4. RestOK'
  BY <1>3 DEF RestOK, BeginWalk
<1> QED  BY <1>3, <1>4, EvalKept, RowKept, NothingPublished DEF BeginWalk

LEMMA BeginUpdateRows == ASSUME RowsInv, NEW a \in Admins, BeginUpdate(a) PROVE RowsInv'
<1> USE DEF RowsInv
<1>1. row \in Share /\ row.period <= now /\ {} \in SUBSET Present(node)
  BY DEF BeginUpdate, RowOK
<1>2. PICK q \in Quotas, x \in Expiries, T \in SUBSET Servers :
        Begin(a, "update", "ensure",
              [row EXCEPT !.quota = q, !.expires = x, !.targets = T], {})
  BY DEF BeginUpdate
<1>3. PICK r : r = [row EXCEPT !.quota = q, !.expires = x, !.targets = T]
  OBVIOUS
<1>4. r \in Share /\ r.period <= now
  BY <1>1, <1>3, Numbers DEF Share
<1>5. AdmOK' /\ count' \in [{"ingest", "op", "crash"} -> Nat]
  <2>1. "update" \in AllOps /\ now' = now
    BY DEF AllOps, BeginUpdate
  <2> QED  BY <1>1, <1>2, <1>3, <1>4, <2>1, BeginOK
<1>6. RestOK'
  BY <1>5 DEF RestOK, BeginUpdate
<1> QED  BY <1>5, <1>6, EvalKept, RowKept, NothingPublished DEF BeginUpdate

(* The handlers that write the row and end. *)
LEMMA LastWriteRows ==
  ASSUME RowsInv, NEW a \in Admins, NEW r \in Share \cup {None},
         row # None => r \in Share /\ r.period <= now, MayWrite(r), Done(a),
         bytes' \in [Times -> Nat], manual' \in Manual \cup {None},
         UNCHANGED <<node, now, eval, cred, count>>
  PROVE  RowsInv'
<1>1. RowOK' /\ PubOK'
  BY MayWriteOK
<1>2. RestOK'
  BY DEF RowsInv, RestOK
<1>3. AdmOK' /\ EvalOK'
  BY DoneOK, EvalKept
<1> QED  BY <1>1, <1>2, <1>3 DEF RowsInv

(* What such a write makes of the row: any status, or no usage from now on. *)
LEMMA RowChanged ==
  ASSUME RowsInv, row # None
  PROVE  /\ \A st \in Statuses : [row EXCEPT !.status = st] \in Share
                               /\ [row EXCEPT !.status = st].period <= now
         /\ [row EXCEPT !.used = 0, !.period = now] \in Share
         /\ [row EXCEPT !.used = 0, !.period = now].period <= now
<1>1. row \in Share /\ row.period <= now /\ now \in Nat
  BY SharesAssumption DEF RowsInv, RowOK, RestOK
<1>2. \A r \in Share, st \in Statuses :
        [r EXCEPT !.status = st] \in Share /\ [r EXCEPT !.status = st].period = r.period
  BY DEF Share
<1>3. \A r \in Share, t \in Nat :
        /\ [r EXCEPT !.used = 0, !.period = t] \in Share
        /\ [r EXCEPT !.used = 0, !.period = t].period = t
  BY DEF Share
<1>4. now <= now
  BY <1>1
<1> QED  BY <1>1, <1>2, <1>3, <1>4

LEMMA LastWrites ==
  ASSUME RowsInv, NEW a \in Admins,
         Pause(a) \/ Resume(a) \/ ResetUsage(a) \/ SetConnlogEnabled(a) \/ RevokeShare(a)
  PROVE  RowsInv'
<1>0. /\ bytes \in [Times -> Nat] /\ manual \in Manual \cup {None}
      /\ None \in Share \cup {None} /\ [t \in Times |-> 0] \in [Times -> Nat]
  BY DEF RowsInv, RestOK
<1>1. ASSUME NEW st \in {"paused", "active", "revoked"},
             IF row = None THEN UNCHANGED <<row, pubs>> ELSE Write([row EXCEPT !.status = st]),
             Done(a), manual' \in Manual \cup {None}, UNCHANGED <<node, now, eval, cred, bytes, count>>
      PROVE  RowsInv'
  <2>1. CASE row = None
    BY <1>0, <1>1, <2>1, LastWriteRows DEF MayWrite
  <2>2. CASE row # None
    <3>1. PICK r : r = [row EXCEPT !.status = st]
      OBVIOUS
    <3>2. r \in Share /\ r.period <= now /\ MayWrite(r)
      BY <1>1, <2>2, <3>1, RowChanged DEF MayWrite, Statuses
    <3> QED  BY <1>0, <1>1, <3>2, LastWriteRows
  <2> QED  BY <2>1, <2>2
<1>2. CASE Pause(a)
  BY <1>0, <1>1, <1>2 DEF Pause, Manual
<1>3. CASE Resume(a)
  BY <1>0, <1>1, <1>3 DEF Resume, Manual
<1>4. CASE RevokeShare(a)
  BY <1>0, <1>1, <1>4 DEF RevokeShare, Manual
<1>5. CASE ResetUsage(a)
  <2>1. CASE row = None
    BY <1>0, <1>5, <2>1, LastWriteRows DEF MayWrite, ResetUsage
  <2>2. CASE row # None
    <3>1. PICK r : r = [row EXCEPT !.used = 0, !.period = now]
      OBVIOUS
    <3>2. r \in Share /\ r.period <= now /\ MayWrite(r)
      BY <1>5, <2>2, <3>1, RowChanged DEF MayWrite, ResetUsage
    <3> QED  BY <1>0, <1>5, <2>2, <3>2, LastWriteRows DEF ResetUsage
  <2> QED  BY <2>1, <2>2
<1>6. CASE SetConnlogEnabled(a)
  <2>1. adm[a].snap \in Share /\ adm[a].snap.period <= now
    BY <1>6, HandlerSnap DEF SetConnlogEnabled, At, AllOps
  <2> QED  BY <1>0, <1>6, <2>1, LastWriteRows DEF MayWrite, SetConnlogEnabled
<1> QED  BY <1>2, <1>3, <1>4, <1>5, <1>6

(* The node of one server changes, or the handler stops at it. *)
LEMMA WalkedOK ==
  ASSUME RowsInv, NEW a \in Admins, NEW s \in Servers, adm[a].op \in AllOps, Walked(a, s), UNCHANGED now
  PROVE  AdmOK'
<1> USE DEF RowsInv
<1>1. adm[a] \in Handling /\ Handles(adm[a])
  BY HandlerSnap
<1>2. PICK h : h = [adm[a] EXCEPT !.todo = @ \ {s}]
  OBVIOUS
<1>3. h \in Handling /\ adm' = [adm EXCEPT ![a] = h]
  BY <1>1, <1>2 DEF Handling, Walked
<1>4. /\ h.op = adm[a].op /\ h.snap = adm[a].snap /\ h.list = adm[a].list
      /\ h.todo \subseteq adm[a].todo
  BY <1>1, <1>2 DEF Handling
<1>5. Handles(h)
  BY <1>1, <1>4 DEF Handles
<1> QED  BY <1>3, <1>5, AdvancedOK

LEMMA OneNode ==
  ASSUME RowsInv, NEW s \in Servers, NEW n \in Node \cup {None}, node' = [node EXCEPT ![s] = n],
         Bump({s}), UNCHANGED row
  PROVE  PubOK' /\ node' \in NodeLists
<1>1. node \in NodeLists
  BY DEF RowsInv, RestOK
<1>2. \A x \in Servers \ {s} : Keeps(x)
  BY <1>1 DEF Keeps, NodeLists
<1> QED  BY <1>1, <1>2, PubsBumped DEF RowsInv, NodeLists

LEMMA RevokeNodeRows == ASSUME RowsInv, NEW a \in Admins, NEW s \in Servers, RevokeNode(a, s) PROVE RowsInv'
<1> USE DEF RowsInv
<1>1. /\ adm[a].op \in AllOps /\ adm[a].list \in NodeLists /\ Handles(adm[a])
      /\ adm[a].op # None
  BY HandlerSnap DEF RevokeNode, At, AllOps
<1>2. CASE node[s] = None
  <2>1. RestOK' /\ RowOK' /\ EvalOK'
    BY <1>2, RowKept, EvalKept DEF RevokeNode, RestOK
  <2> QED  BY <1>2, <2>1, DoneOK, NothingPublished DEF RevokeNode
<1>3. CASE node[s] # None
  <2>1. adm[a].list[s] \in Node
    BY <1>1 DEF RevokeNode, Handles, NodeLists
  <2>2. PICK n : n = [on |-> FALSE, cred |-> adm[a].list[s].cred]
    OBVIOUS
  <2>3. n \in Node
    BY <2>1, <2>2 DEF Node
  <2>4. PubOK' /\ node' \in NodeLists
    BY <1>3, <2>2, <2>3, OneNode DEF RevokeNode
  <2>5. RestOK' /\ RowOK' /\ EvalOK'
    BY <2>4, RowKept, EvalKept DEF RevokeNode, RestOK
  <2> QED  BY <1>1, <1>3, <2>4, <2>5, WalkedOK DEF RevokeNode
<1> QED  BY <1>2, <1>3

LEMMA ReissueNodeRows == ASSUME RowsInv, NEW a \in Admins, NEW s \in Servers, ReissueNode(a, s) PROVE RowsInv'
<1> USE DEF RowsInv
<1>1. adm[a].op \in AllOps /\ cred' \in Nat
  BY DEF ReissueNode, At, AllOps, RestOK
<1>2. CASE node[s] = None
  <2>1. RestOK' /\ RowOK' /\ EvalOK'
    BY <1>1, <1>2, RowKept, EvalKept DEF ReissueNode, RestOK
  <2> QED  BY <1>2, <2>1, DoneOK, NothingPublished DEF ReissueNode
<1>3. CASE node[s] # None
  <2>2. PICK n : n = [on |-> TRUE, cred |-> cred']
    OBVIOUS
  <2>3. n \in Node
    BY <1>1, <2>2 DEF Node
  <2>4. PubOK' /\ node' \in NodeLists
    BY <1>3, <2>2, <2>3, OneNode DEF ReissueNode
  <2>5. RestOK' /\ RowOK' /\ EvalOK'
    BY <1>1, <2>4, RowKept, EvalKept DEF ReissueNode, RestOK
  <2> QED  BY <1>1, <1>3, <2>4, <2>5, WalkedOK DEF ReissueNode
<1> QED  BY <1>2, <1>3

LEMMA DeleteNodeRows == ASSUME RowsInv, NEW a \in Admins, NEW s \in Servers, DeleteNode(a, s) PROVE RowsInv'
<1> USE DEF RowsInv
<1>1. adm[a].op \in AllOps
  BY DEF DeleteNode, At, AllOps
<1>2. PubOK' /\ node' \in NodeLists
  <2>1. CASE node[s] = None
    <3>1. node' = node
      BY <2>1 DEF DeleteNode, RestOK, NodeLists
    <3>2. UNCHANGED pubs /\ UNCHANGED row
      BY <2>1 DEF DeleteNode
    <3>3. node' \in NodeLists
      BY <3>1 DEF RestOK
    <3> QED  BY <3>1, <3>2, <3>3, NothingPublished
  <2>2. CASE node[s] # None
    BY <2>2, OneNode DEF DeleteNode
  <2> QED  BY <2>1, <2>2
<1>3. RestOK' /\ RowOK' /\ EvalOK'
  BY <1>2, RowKept, EvalKept DEF DeleteNode, RestOK
<1> QED  BY <1>1, <1>2, <1>3, WalkedOK DEF DeleteNode

LEMMA DeleteShareRows == ASSUME RowsInv, NEW a \in Admins, DeleteShare(a) PROVE RowsInv'
<1> USE DEF RowsInv, DeleteShare
<1>1. RowOK' /\ RestOK'
  BY DEF RowOK, RestOK
<1>2. PubOK'
  <2>1. \A s \in Servers \ Present(node) : Keeps(s)
    BY DEF Keeps, Present
  <2> QED  BY <2>1, PubsBumped DEF Present
<1> QED  BY <1>1, <1>2, DoneOK, EvalKept

LEMMA ReissueShareRows == ASSUME RowsInv, NEW a \in Admins, ReissueShare(a) PROVE RowsInv'
<1> USE DEF RowsInv
<1>1. adm[a] \in Handling /\ Handles(adm[a]) /\ node \in NodeLists
  BY HandlerSnap DEF ReissueShare, At, AllOps, RestOK
<1>2. PICK h : h = [adm[a] EXCEPT !.step = "ensure", !.list = node]
  OBVIOUS
<1>3. h \in Handling
  BY <1>1, <1>2 DEF Handling
<1>4. h.op = adm[a].op /\ h.snap = adm[a].snap /\ h.list = node /\ h.todo = adm[a].todo
  BY <1>1, <1>2 DEF Handling
<1>5. Handles(h) /\ adm' = [adm EXCEPT ![a] = h]
  BY <1>1, <1>2, <1>4 DEF Handles, ReissueShare, At
<1>6. AdmOK' /\ EvalOK'
  BY <1>3, <1>5, AdvancedOK, EvalKept DEF ReissueShare
<1>7. RestOK'
  BY DEF RestOK, ReissueShare, Manual
<1>8. CASE row = None
  <2>1. RowOK' /\ PubOK'
    BY <1>8, RowKept, NothingPublished DEF ReissueShare
  <2> QED  BY <1>6, <1>7, <2>1
<1>9. CASE row # None
  <2>1. PICK r : r = [row EXCEPT !.status = "active"]
    OBVIOUS
  <2>2. r \in Share /\ r.period <= now /\ Write(r)
    BY <1>9, <2>1, RowChanged DEF ReissueShare, Statuses
  <2>3. RowOK' /\ PubOK'
    BY <1>9, <2>2, Written DEF ReissueShare
  <2> QED  BY <1>6, <1>7, <2>3
<1> QED  BY <1>8, <1>9

(* ensureNodes writes the row's settings and any number of nodes. *)
LEMMA SettingsKeep ==
  ASSUME RowsInv, row # None, NEW r \in Share
  PROVE  /\ Settings(r) \in Share /\ Settings(r).status = row.status
         /\ Settings(r).period = row.period /\ Settings(r).used = row.used
<1>1. row \in Share
  BY DEF RowsInv, RowOK
<1> QED  BY <1>1 DEF Settings, Share

(* The three steps of ensureNodes: it succeeds, or nothing is written. *)
EnsuresWith(a, r, N) ==
  /\ row # None /\ r \in Share /\ r.status = row.status
  /\ r.period = row.period /\ r.used = row.used /\ row' = r
  /\ N \in NodeLists /\ node' = N
  /\ \E S \in SUBSET Servers : Bump(S) /\ \A s \in Servers \ S : N[s] = node[s]

LEMMA Ensuring ==
  ASSUME RowsInv, NEW a \in Admins, EnsureNodes(a)
  PROVE  UNCHANGED <<row, node, pubs>> \/ \E r, N : EnsuresWith(a, r, N)
<1> USE DEF RowsInv
<1>1. /\ adm[a].op \in AllOps /\ adm[a].list \in NodeLists /\ adm[a].snap \in Share
      /\ cred' \in Nat
  <2>1. adm[a].op \in AllOps /\ cred' \in Nat
    BY DEF EnsureNodes, At, AllOps, RestOK
  <2> QED  BY <2>1, HandlerSnap
<1>2. PICK N : N = Ensured(adm[a].list, adm[a].snap.targets, cred')
  OBVIOUS
<1>3. N \in NodeLists
  <2>1. \A s \in Servers : N[s] \in Node \cup {None}
    <3> TAKE s \in Servers
    <3>1. /\ node[s] \in Node \cup {None} /\ adm[a].list[s] \in Node \cup {None}
          /\ [on |-> TRUE, cred |-> cred'] \in Node
          /\ (adm[a].list[s] # None => [on |-> FALSE, cred |-> adm[a].list[s].cred] \in Node)
      BY <1>1 DEF RestOK, NodeLists, Node
    <3> QED  BY <1>2, <3>1 DEF Ensured
  <2> QED  BY <1>2, <2>1 DEF Ensured, NodeLists
<1>4. PICK r : r = IF adm[a].op = "update" THEN Settings(adm[a].snap) ELSE row
  OBVIOUS
<1>5. CASE CanEnsure(N, adm[a].list)
  <2>1. PICK S : S = {s \in Servers : N[s] # node[s]} \cup
                       IF Tracked(r) = Tracked(row) THEN {} ELSE Present(node)
    OBVIOUS
  <2>2. node' = N /\ row' = r /\ Bump(S) /\ row # None
    BY <1>2, <1>4, <1>5, <2>1 DEF EnsureNodes, CanEnsure
  <2>3. S \in SUBSET Servers /\ \A s \in Servers \ S : N[s] = node[s]
    BY <2>1 DEF Present
  <2>4. r \in Share /\ r.status = row.status /\ r.period = row.period /\ r.used = row.used
    BY <1>1, <1>4, <2>2, SettingsKeep DEF RowOK
  <2> QED  BY <1>3, <2>2, <2>3, <2>4 DEF EnsuresWith
<1>6. CASE ~CanEnsure(N, adm[a].list)
  BY <1>2, <1>6 DEF EnsureNodes
<1> QED  BY <1>5, <1>6

LEMMA EnsureNodesRows == ASSUME RowsInv, NEW a \in Admins, EnsureNodes(a) PROVE RowsInv'
<1> USE DEF RowsInv
<1>1. cred' \in Nat /\ Done(a) /\ UNCHANGED <<now, eval, hist, count>>
  BY DEF EnsureNodes, RestOK
<1>2. CASE UNCHANGED <<row, node, pubs>>
  <2>1. RowOK' /\ RestOK' /\ EvalOK' /\ PubOK'
    BY <1>1, <1>2, RowKept, EvalKept, NothingPublished DEF RestOK
  <2> QED  BY <1>1, <2>1, DoneOK
<1>3. CASE \E r, N : EnsuresWith(a, r, N)
  <2>1. PICK r, N : EnsuresWith(a, r, N)
    BY <1>3
  <2>2. PICK S \in SUBSET Servers : Bump(S) /\ \A s \in Servers \ S : N[s] = node[s]
    BY <2>1 DEF EnsuresWith
  <2>3. \A s \in Servers \ S : Keeps(s)
    BY <2>1, <2>2 DEF EnsuresWith, Keeps
  <2>4. PubOK'
    BY <2>2, <2>3, PubsBumped
  <2>5. RowOK' /\ RestOK' /\ EvalOK'
    BY <1>1, <2>1, EvalKept DEF EnsuresWith, RestOK, RowOK
  <2> QED  BY <1>1, <2>4, <2>5, DoneOK
<1> QED  BY <1>2, <1>3, Ensuring

-----------------------------------------------------------------------------
LEMMA InitRows == Init => RowsInv
<1> SUFFICES ASSUME Init PROVE RowsInv
  OBVIOUS
<1> USE DEF Init
<1>1. RowOK
  BY DEF RowOK
<1>2. RestOK
  BY SharesAssumption DEF RestOK, NodeLists, NoNode
<1>3. AdmOK
  BY DEF AdmOK, Handling, Idle, Handles
<1>4. EvalOK
  BY DEF EvalOK, Evaluating, Rest, Evaluates
<1>5. PubOK
  BY DEF PubOK, NoNode, Entry, Authorised
<1> QED  BY <1>1, <1>2, <1>3, <1>4, <1>5 DEF RowsInv

LEMMA StutterRows == ASSUME RowsInv, UNCHANGED vars PROVE RowsInv'
<1>1. RestOK'
  BY DEF RowsInv, RestOK
<1> QED  BY <1>1, AdmKept, EvalKept, RowKept, NothingPublished DEF RowsInv

LEMMA HandlerRows == ASSUME RowsInv, NEW a \in Admins, Handler(a) PROVE RowsInv'
  BY CreateShareRows, CreateLinkRows, CreateFailsRows, BeginSimpleRows, LastWrites, BeginWalkRows,
     ReissueShareRows, DeleteShareRows, BeginUpdateRows, EnsureNodesRows, RevokeNodeRows,
     ReissueNodeRows, DeleteNodeRows DEF Handler

LEMMA NextRows == ASSUME RowsInv, [Next]_vars PROVE RowsInv'
<1>1. CASE UNCHANGED vars
  BY <1>1, StutterRows
<1>2. CASE Tick \/ Crash \/ \E ts \in 0..(now + Skew) : Ingest(ts)
  BY <1>2, TickRows, CrashRows, IngestRows
<1>3. CASE \E a \in Admins : Handler(a)
  BY <1>3, HandlerRows
<1>4. CASE \E e \in Evals : Evaluation(e)
  BY <1>4, EvalReadRows, EvalResetRows, EvalStatusRows DEF Evaluation
<1>5. CASE \E s \in Servers : Publication(s)
  BY <1>5, ReadRows, CommitRows DEF Publication
<1> QED  BY <1>1, <1>2, <1>3, <1>4, <1>5 DEF Next

LEMMA RowsImply == RowsInv => TypeOK /\ PublishedIsAuthorised
<1> SUFFICES ASSUME RowsInv PROVE TypeOK /\ PublishedIsAuthorised
  OBVIOUS
<1> USE DEF RowsInv
<1>1. PublishedIsAuthorised
  BY DEF PubOK, Authorised, PublishedIsAuthorised
<1>2. \A e \in Evals : eval[e].snap \in Share \cup {None} /\ eval[e].try \in 0..2
  BY DEF EvalOK, Evaluating
<1>3. \A a \in Admins : adm[a].snap \in Share \cup {None} /\ adm[a].todo \subseteq Servers
  BY DEF AdmOK, Handling
<1>4. TypeOK
  BY <1>2, <1>3 DEF RowOK, RestOK, PubOK, TypeOK, NodeLists
<1> QED  BY <1>1, <1>4

(* The rows, the running handlers and evaluations and the publications under
   way keep RowsInv, for any number of concurrent handlers. *)
THEOREM RowsInvariance == Spec => []RowsInv
<1>1. Init => RowsInv
  BY InitRows
<1>2. RowsInv /\ [Next]_vars => RowsInv'
  BY NextRows
<1> QED  BY <1>1, <1>2, PTL DEF Spec

(* Whatever handlers overlap and wherever the controller stops, a server
   whose generation is published serves a node of the share only with the
   present credential, and unblocked only for an active share. *)
THEOREM PublishedAuthorised == Spec => [](TypeOK /\ PublishedIsAuthorised)
  BY RowsInvariance, RowsImply, PTL

-----------------------------------------------------------------------------
(* Handlers that do not overlap.  LoneRow is what an action does to the row,
   the nodes and the manual state, apart from the handlers. *)
LoneRow == NoOrphan /\ ManualSticks /\ (row = None => manual = None)

(* The row neither appears nor goes, and keeps a manual status. *)
RowStays ==
  /\ row = None <=> row' = None
  /\ row # None /\ manual # None => row'.status = row.status

LEMMA RowStayed == ASSUME LoneRow, RowStays, UNCHANGED <<node, manual>> PROVE LoneRow'
  BY DEF LoneRow, RowStays, NoOrphan, ManualSticks, Present

LEMMA NoHandlerLone ==
  ASSUME LoneInv, RowStays, UNCHANGED <<node, manual, adm>>
  PROVE  LoneInv'
<1>1. LoneRow'
  BY RowStayed DEF LoneInv, LoneRow
<1>2. \A a \in Admins : Lone(adm[a])'
  BY DEF LoneInv, Lone, Present
<1> QED  BY <1>1, <1>2 DEF LoneInv, LoneRow

LEMMA OnlyHandler ==
  ASSUME OneHandler, RowsInv, NEW a \in Admins, NEW h, adm' = [adm EXCEPT ![a] = h], Lone(h)', LoneRow'
  PROVE  LoneInv'
<1>1. \A b \in Admins : adm'[b] = h
  BY DEF OneHandler, RowsInv, AdmOK
<1>2. \A b \in Admins : Lone(adm[b])'
  BY <1>1 DEF Lone
<1> QED  BY <1>2 DEF LoneInv, LoneRow

LEMMA IdleIsLone == Lone(Idle) /\ Lone(Idle)'
<1>1. Idle.op \notin AllOps
  BY NoneAssumption DEF Idle
<1> QED  BY <1>1 DEF Lone, AllOps

LEMMA DoneLone ==
  ASSUME OneHandler, RowsInv, NEW a \in Admins, Done(a), LoneRow'
  PROVE  LoneInv'
  BY IdleIsLone, OnlyHandler DEF Done

(* A manual status is none of the automatic ones. *)
LEMMA ManualRow ==
  ASSUME RowsInv, LoneInv, row # None, manual # None
  PROVE  row.status = manual /\ manual \in Manual
  BY DEF RowsInv, RestOK, LoneInv, ManualSticks

(* Ingest and the period reset lift only "exhausted". *)
LEMMA WriteStays ==
  ASSUME RowsInv, LoneInv, row # None, NEW r \in Share, Write(r),
         r.status = row.status \/ row.status \notin Manual
  PROVE  RowStays
<1>1. row' = r /\ r # None
  BY NoneAssumption DEF Write
<1>2. manual # None => row.status \in Manual
  BY ManualRow
<1> QED  BY <1>1, <1>2 DEF RowStays

LEMMA IngestLone == ASSUME RowsInv, LoneInv, NEW ts, Ingest(ts) PROVE LoneInv'
<1>1. row \in Share /\ row # None /\ now \in Nat
  BY SharesAssumption DEF Ingest, RowsInv, RowOK, RestOK
<1>2. PeriodStart(now) \in Nat
  BY <1>1, PeriodStarts
<1>3. PICK q \in Share : q = Rolled(row) /\ (q.status = row.status \/ row.status \notin Manual)
  <2>1. Rolled(row) \in Share
    BY <1>1, <1>2 DEF Rolled, Share, Statuses
  <2>2. Rolled(row).status = row.status \/ row.status \notin Manual
    BY <1>1 DEF Rolled, Share, Manual
  <2> QED  BY <2>1, <2>2
<1>4. [q EXCEPT !.used = @ + 1] \in Share /\ [q EXCEPT !.used = @ + 1].status = q.status
  BY DEF Share
<1>5. Write(q) \/ Write([q EXCEPT !.used = @ + 1])
  BY <1>3 DEF Ingest
<1>6. RowStays
  BY <1>1, <1>3, <1>4, <1>5, WriteStays
<1> QED  BY <1>6, NoHandlerLone DEF Ingest

LEMMA EvalResetLone == ASSUME RowsInv, LoneInv, NEW e \in Evals, EvalReset(e) PROVE LoneInv'
<1>1. eval[e].now \in Nat
  BY DEF RowsInv, EvalOK, Evaluating
<1>2. PICK p \in Nat : p = PeriodStart(eval[e].now)
  BY <1>1, PeriodStarts
<1>3. RowStays
  <2>1. CASE row # None /\ Write([row EXCEPT !.used = 0, !.period = p,
                                      !.status = IF @ = "exhausted" THEN "active" ELSE @])
    <3>1. PICK r : r = [row EXCEPT !.used = 0, !.period = p,
                                   !.status = IF @ = "exhausted" THEN "active" ELSE @]
      OBVIOUS
    <3>2. r \in Share /\ (r.status = row.status \/ row.status \notin Manual)
      BY <2>1, <3>1 DEF RowsInv, RowOK, Share, Statuses, Manual
    <3>3. Write(r)
      BY <2>1, <3>1
    <3> QED  BY <2>1, <3>2, <3>3, WriteStays
  <2>2. CASE row' = row
    BY <2>2 DEF RowStays
  <2> QED  BY <1>2, <2>1, <2>2 DEF EvalReset
<1> QED  BY <1>3, NoHandlerLone DEF EvalReset

LEMMA EvalStatusLone == ASSUME RowsInv, LoneInv, NEW e \in Evals, EvalStatus(e) PROVE LoneInv'
<1>1. eval[e].snap \in Share /\ eval[e].snap.status \notin Manual
  BY DEF RowsInv, EvalOK, Evaluates, Evaluating, EvalStatus
<1>2. PICK st \in Statuses : st = NextStatus(eval[e])
  BY DEF NextStatus, Statuses
<1>3. RowStays
  <2>1. CASE Unchanged(eval[e].snap) /\ Write([row EXCEPT !.status = st])
    <3>1. row \in Share /\ row # None
      BY <2>1 DEF RowsInv, RowOK, Unchanged
    <3>2. row.status = eval[e].snap.status
      BY <1>1, <2>1, <3>1 DEF Unchanged, Share
    <3>3. [row EXCEPT !.status = st] \in Share
      BY <3>1 DEF Share
    <3> QED  BY <1>1, <2>1, <3>1, <3>2, <3>3, WriteStays
  <2>2. CASE row' = row
    BY <2>2 DEF RowStays
  <2> QED  BY <1>2, <2>1, <2>2 DEF EvalStatus
<1> QED  BY <1>3, NoHandlerLone DEF EvalStatus

LEMMA CrashLone == ASSUME OneHandler, RowsInv, LoneInv, Crash PROVE LoneInv'
<1>1. LoneRow'
  BY RowStayed DEF LoneInv, LoneRow, RowStays, Crash
<1>2. \A a \in Admins : adm'[a] = Idle
  BY DEF Crash
<1>3. \A a \in Admins : Lone(adm[a])'
  BY <1>2, IdleIsLone DEF Lone
<1> QED  BY <1>1, <1>3 DEF LoneInv, LoneRow

LEMMA BeginLone ==
  ASSUME OneHandler, RowsInv, LoneInv, NEW a \in Admins, NEW op \in AllOps, NEW step, NEW r, NEW S,
         Begin(a, op, step, r, S), UNCHANGED <<row, node, manual>>, op # "create",
         op \in {"pause", "resume"} => manual # "revoked",
         op = "connlog" /\ manual # None => r.status = manual,
         op = "delete" => Present(node) \subseteq S
  PROVE  LoneInv'
<1>1. PICK h : h = [op |-> op, step |-> step, snap |-> r, list |-> node, todo |-> S]
  OBVIOUS
<1>2. adm' = [adm EXCEPT ![a] = h] /\ LoneRow'
  BY <1>1, RowStayed DEF Begin, LoneInv, LoneRow, RowStays
<1>3. Lone(h)'
  BY <1>1 DEF Lone, Present
<1> QED  BY <1>2, <1>3, OnlyHandler

LEMMA Begins ==
  ASSUME OneHandler, RowsInv, LoneInv, NEW a \in Admins, BeginSimple(a) \/ BeginWalk(a) \/ BeginUpdate(a)
  PROVE  LoneInv'
<1>1. row \in Share /\ row # None /\ UNCHANGED <<row, node, manual>>
  BY DEF RowsInv, RowOK, BeginSimple, BeginWalk, BeginUpdate
<1>2. CASE BeginUpdate(a)
  BY <1>1, <1>2, BeginLone DEF BeginUpdate, AllOps
<1>3. CASE BeginWalk(a)
  <2>1. PICK op \in {"revoke", "reissue", "delete"} : Begin(a, op, "nodes", row, Present(node))
    BY <1>3 DEF BeginWalk, Listed
  <2>2. op \in AllOps /\ op \notin {"create", "pause", "resume", "connlog"}
    BY DEF AllOps
  <2> QED  BY <1>1, <2>1, <2>2, BeginLone
<1>4. CASE BeginSimple(a)
  <2>1. CASE Begin(a, "reset", "write", row, {})
    BY <1>1, <2>1, BeginLone DEF AllOps
  <2>2. CASE \E op \in {"pause", "resume"} : row.status # "revoked" /\ Begin(a, op, "write", row, {})
    <3>1. PICK op \in {"pause", "resume"} : row.status # "revoked" /\ Begin(a, op, "write", row, {})
      BY <2>2
    <3>2. op \in AllOps /\ op \notin {"create", "connlog", "delete"}
      BY DEF AllOps
    <3>3. manual # "revoked"
      BY <1>1, <3>1, ManualRow, NoneAssumption DEF Manual
    <3> QED  BY <1>1, <3>1, <3>2, <3>3, BeginLone
  <2>3. CASE Begin(a, "connlog", "write", [row EXCEPT !.connlog = ~@], {})
    <3>1. PICK r : r = [row EXCEPT !.connlog = ~@]
      OBVIOUS
    <3>2. manual # None => r.status = manual
      BY <1>1, <3>1, ManualRow DEF Share
    <3>3. Begin(a, "connlog", "write", r, {}) /\ "connlog" \in AllOps
      BY <2>3, <3>1 DEF AllOps
    <3> QED  BY <1>1, <3>2, <3>3, BeginLone
  <2> QED  BY <1>4, <2>1, <2>2, <2>3 DEF BeginSimple
<1> QED  BY <1>2, <1>3, <1>4

LEMMA CreateLone ==
  ASSUME OneHandler, RowsInv, LoneInv, NEW a \in Admins,
         CreateShare(a) \/ CreateLink(a) \/ CreateFails(a)
  PROVE  LoneInv'
<1>1. CASE CreateShare(a)
  <2>1. PICK q \in Quotas, x \in Expiries, T \in SUBSET Servers :
          row' = NewShare(q, x, T) /\ Begin(a, "create", "link", row', {})
    BY <1>1 DEF CreateShare
  <2>2. PICK h : h = [op |-> "create", step |-> "link", snap |-> row', list |-> node, todo |-> {}]
    OBVIOUS
  <2>3. adm' = [adm EXCEPT ![a] = h] /\ manual' = manual /\ manual = None /\ node' = node
    BY <1>1, <2>1, <2>2 DEF Begin, CreateShare, LoneInv
  <2>4. now \in Nat /\ PeriodStart(now) \in Nat
    BY PeriodStarts, SharesAssumption DEF RowsInv, RestOK
  <2>5. NewShare(q, x, T) \in Share
    BY <2>4, Numbers DEF NewShare, Share, Statuses
  <2>6. row' # None
    BY <2>1, <2>5, NoneAssumption
  <2>7. LoneRow' /\ Lone(h)'
    BY <2>2, <2>3, <2>6 DEF LoneRow, Lone, NoOrphan, ManualSticks
  <2> QED  BY <2>3, <2>7, OnlyHandler
<1>2. CASE CreateLink(a)
  <2>1. adm[a] \in Handling /\ adm[a].snap \in Share /\ adm[a].op = "create" /\ manual = None
    BY <1>2, HandlerSnap DEF CreateLink, At, AllOps, LoneInv, Lone
  <2>2. PICK h : h = [adm[a] EXCEPT !.step = "nodes", !.list = node]
    OBVIOUS
  <2>3. h.op = "create" /\ adm' = [adm EXCEPT ![a] = h] /\ manual' = manual /\ node' = node
    BY <1>2, <2>1, <2>2 DEF CreateLink, Handling
  <2>4. row' = None => row = None
    BY <1>2, <2>1, NoneAssumption DEF CreateLink, Write
  <2>5. LoneRow' /\ Lone(h)'
    BY <2>1, <2>3, <2>4 DEF LoneRow, LoneInv, Lone, NoOrphan, ManualSticks, Present
  <2> QED  BY <2>3, <2>5, OnlyHandler
<1>3. CASE CreateFails(a)
  <2>1. LoneRow'
    BY <1>3 DEF CreateFails, LoneRow, NoOrphan, ManualSticks, Present, NoNode
  <2> QED  BY <1>3, <2>1, DoneLone DEF CreateFails
<1> QED  BY <1>1, <1>2, <1>3

LEMMA LastWritesLone ==
  ASSUME OneHandler, RowsInv, LoneInv, NEW a \in Admins,
         Pause(a) \/ Resume(a) \/ ResetUsage(a) \/ SetConnlogEnabled(a) \/ RevokeShare(a)
  PROVE  LoneInv'
<1>1. Done(a) /\ UNCHANGED node
  BY DEF Pause, Resume, ResetUsage, SetConnlogEnabled, RevokeShare
<1>2. CASE row = None
  <2>1. UNCHANGED <<row, manual>>
    BY <1>2 DEF Pause, Resume, ResetUsage, SetConnlogEnabled, RevokeShare
  <2>2. LoneRow'
    BY <1>1, <2>1, RowStayed DEF RowStays, LoneInv, LoneRow
  <2> QED  BY <1>1, <2>2, DoneLone
<1>3. CASE row # None
  <2>1. row \in Share /\ Lone(adm[a]) /\ manual \in Manual \cup {None}
    BY <1>3 DEF RowsInv, RowOK, RestOK, LoneInv
  <2>2. ASSUME NEW r \in Share, Write(r), manual' # None => r.status = manual' PROVE LoneInv'
    <3>1. row' = r /\ r # None
      BY <2>2, NoneAssumption DEF Write
    <3>2. LoneRow'
      BY <2>2, <3>1 DEF LoneRow, NoOrphan, ManualSticks
    <3> QED  BY <1>1, <3>2, DoneLone
  <2>3. ASSUME NEW st \in Statuses, Write([row EXCEPT !.status = st]), manual' # None => st = manual'
        PROVE  LoneInv'
    <3>1. PICK r : r = [row EXCEPT !.status = st]
      OBVIOUS
    <3>2. r \in Share /\ r.status = st
      BY <2>1, <3>1 DEF Share
    <3> QED  BY <2>2, <2>3, <3>1, <3>2
  <2>4. CASE Pause(a)
    <3>1. manual # "revoked"
      BY <2>1, <2>4 DEF Pause, At, Lone
    <3> QED  BY <1>3, <2>3, <2>4, <3>1 DEF Pause, Statuses
  <2>5. CASE Resume(a)
    <3>1. manual # "revoked"
      BY <2>1, <2>5 DEF Resume, At, Lone
    <3> QED  BY <1>3, <2>3, <2>5, <3>1 DEF Resume, Statuses
  <2>6. CASE RevokeShare(a)
    BY <1>3, <2>3, <2>6 DEF RevokeShare, Statuses
  <2>7. CASE ResetUsage(a)
    <3>1. PICK r : r = [row EXCEPT !.used = 0, !.period = now]
      OBVIOUS
    <3>2. r \in Share
      BY <1>3, <3>1, RowChanged
    <3>3. r.status = row.status
      BY <2>1, <3>1 DEF Share
    <3>4. Write(r) /\ manual' = manual
      BY <1>3, <2>7, <3>1 DEF ResetUsage
    <3>5. manual # None => row.status = manual
      BY <1>3, ManualRow
    <3> QED  BY <2>2, <3>2, <3>3, <3>4, <3>5
  <2>8. CASE SetConnlogEnabled(a)
    <3>1. adm[a].snap \in Share /\ (manual # None => adm[a].snap.status = manual)
      BY <2>1, <2>8, HandlerSnap DEF SetConnlogEnabled, At, AllOps, Lone
    <3> QED  BY <1>3, <2>2, <2>8, <3>1 DEF SetConnlogEnabled
  <2> QED  BY <2>4, <2>5, <2>6, <2>7, <2>8
<1> QED  BY <1>2, <1>3

(* The walks: a node that was there changes, or goes with its place in the
   list. *)
LEMMA WalkLone ==
  ASSUME OneHandler, RowsInv, LoneInv, NEW a \in Admins, NEW s \in Servers,
         RevokeNode(a, s) \/ ReissueNode(a, s) \/ DeleteNode(a, s)
  PROVE  LoneInv'
<1>1. UNCHANGED <<row, manual>> /\ node \in NodeLists
  BY DEF RevokeNode, ReissueNode, DeleteNode, RowsInv, RestOK
<1>2. adm[a] \in Handling /\ Lone(adm[a])
  BY DEF RowsInv, AdmOK, LoneInv
<1>3. Present(node') \subseteq Present(node)
  BY <1>1 DEF RevokeNode, ReissueNode, DeleteNode, Present, NodeLists
<1>4. LoneRow'
  <2>1. NoOrphan'
    BY <1>1, <1>3 DEF LoneInv, NoOrphan, Present
  <2> QED  BY <1>1, <2>1 DEF LoneInv, LoneRow, ManualSticks
<1>5. CASE Done(a)
  BY <1>4, <1>5, DoneLone
<1>6. CASE Walked(a, s)
  <2>1. PICK h : h = [adm[a] EXCEPT !.todo = @ \ {s}]
    OBVIOUS
  <2>2. h.op = adm[a].op /\ h.todo = adm[a].todo \ {s} /\ adm' = [adm EXCEPT ![a] = h]
    BY <1>2, <1>6, <2>1 DEF Handling, Walked
  <2>3. h.op \in {"revoke", "reissue", "delete"}
    BY <2>2 DEF RevokeNode, ReissueNode, DeleteNode, At
  <2>4. h.op = "delete" => Present(node') \subseteq h.todo
    <3> SUFFICES ASSUME h.op = "delete" PROVE Present(node') \subseteq h.todo
      OBVIOUS
    <3>1. node'[s] = None
      BY <1>1, <2>2 DEF RevokeNode, ReissueNode, DeleteNode, At, NodeLists
    <3>2. Present(node) \subseteq adm[a].todo
      BY <1>2, <2>2 DEF Lone
    <3> QED  BY <1>3, <2>2, <3>1, <3>2 DEF Present
  <2>5. Lone(h)'
    BY <2>3, <2>4 DEF Lone, Present
  <2> QED  BY <1>4, <2>2, <2>5, OnlyHandler
<1> QED  BY <1>5, <1>6 DEF RevokeNode, ReissueNode, DeleteNode

LEMMA LastSteps ==
  ASSUME OneHandler, RowsInv, LoneInv, NEW a \in Admins,
         ReissueShare(a) \/ DeleteShare(a) \/ EnsureNodes(a)
  PROVE  LoneInv'
<1>1. CASE ReissueShare(a)
  <2>1. PICK h : h = [adm[a] EXCEPT !.step = "ensure", !.list = node]
    OBVIOUS
  <2>2. h.op = "reissue" /\ adm' = [adm EXCEPT ![a] = h] /\ UNCHANGED node
    BY <1>1, <2>1 DEF ReissueShare, At, RowsInv, AdmOK, Handling
  <2>3. Lone(h)'
    BY <2>2 DEF Lone
  <2>4. CASE row = None
    <3>1. LoneRow'
      BY <1>1, <2>4, RowStayed DEF ReissueShare, RowStays, LoneInv, LoneRow
    <3> QED  BY <2>2, <2>3, <3>1, OnlyHandler
  <2>5. CASE row # None
    <3>1. row' = [row EXCEPT !.status = "active"] /\ manual' = None
      BY <1>1, <2>5 DEF ReissueShare, Write
    <3>2. row' \in Share
      BY <2>5, <3>1, RowChanged DEF Statuses
    <3>3. LoneRow'
      BY <3>1, <3>2, NoneAssumption DEF LoneRow, NoOrphan, ManualSticks
    <3> QED  BY <2>2, <2>3, <3>3, OnlyHandler
  <2> QED  BY <2>4, <2>5
<1>2. CASE DeleteShare(a)
  <2>1. Present(node) = {}
    BY <1>2 DEF DeleteShare, At, LoneInv, Lone
  <2>2. LoneRow'
    BY <1>2, <2>1 DEF DeleteShare, LoneRow, NoOrphan, ManualSticks, Present
  <2> QED  BY <1>2, <2>2, DoneLone DEF DeleteShare
<1>3. CASE EnsureNodes(a)
  <2>1. Done(a) /\ manual' = manual
    BY <1>3 DEF EnsureNodes
  <2>2. CASE UNCHANGED <<row, node, pubs>>
    <3>1. LoneRow'
      BY <2>1, <2>2, RowStayed DEF RowStays, LoneInv, LoneRow
    <3> QED  BY <2>1, <3>1, DoneLone
  <2>3. CASE \E r, N : EnsuresWith(a, r, N)
    <3>1. row # None /\ row' # None /\ row'.status = row.status
      BY <2>3, NoneAssumption DEF EnsuresWith
    <3>2. LoneRow'
      BY <2>1, <3>1 DEF LoneInv, LoneRow, NoOrphan, ManualSticks
    <3> QED  BY <2>1, <3>2, DoneLone
  <2> QED  BY <1>3, <2>2, <2>3, Ensuring
<1> QED  BY <1>1, <1>2, <1>3

LEMMA NextLone == ASSUME OneHandler, RowsInv, LoneInv, [Next]_vars PROVE LoneInv'
<1>1. CASE UNCHANGED <<row, node, manual, adm>>
  BY <1>1, NoHandlerLone DEF RowStays
<1>2. CASE Tick \/ Crash \/ \E ts \in 0..(now + Skew) : Ingest(ts)
  BY <1>1, <1>2, CrashLone, IngestLone DEF Tick
<1>3. CASE \E a \in Admins : Handler(a)
  <2>1. PICK a \in Admins : Handler(a)
    BY <1>3
  <2> QED  BY <2>1, CreateLone, Begins, LastWritesLone, LastSteps, WalkLone DEF Handler
<1>4. CASE \E e \in Evals : Evaluation(e)
  BY <1>1, <1>4, EvalResetLone, EvalStatusLone DEF Evaluation, EvalRead
<1>5. CASE \E s \in Servers : Publication(s)
  BY <1>1, <1>5 DEF Publication, Read, Commit
<1> QED  BY <1>1, <1>2, <1>3, <1>4, <1>5 DEF Next

LEMMA InitLone == Init => LoneInv
<1>1. Init => LoneRow
  BY DEF Init, LoneRow, NoOrphan, ManualSticks, Present, NoNode
<1>2. Init => \A a \in Admins : adm[a] = Idle
  BY DEF Init
<1>3. Init => \A a \in Admins : Lone(adm[a])
  BY <1>2, IdleIsLone
<1> QED  BY <1>1, <1>3 DEF LoneInv, LoneRow

(* Handlers that do not overlap: rows, nodes and documents agree, a manual
   state stays until it is lifted by hand, and a deleted share leaves no node
   behind, whatever evaluations, reports, publications and restarts come
   between the statements of a handler. *)
THEOREM SharesAlwaysAgree == ASSUME OneHandler PROVE Spec => []SharesAgree
<1>1. RowsInv /\ LoneInv => SharesAgree
  BY RowsImply DEF LoneInv, SharesAgree
<1>2. Init => RowsInv /\ LoneInv
  BY InitRows, InitLone
<1>3. RowsInv /\ LoneInv /\ [Next]_vars => (RowsInv /\ LoneInv)'
  BY NextRows, NextLone
<1> QED  BY <1>1, <1>2, <1>3, PTL DEF Spec

-----------------------------------------------------------------------------
(* Usage.  UsageRow is what the reports and the resets have to keep, BeforeUse
   what keeps the first write of a new share from losing usage. *)
UsageRow ==
  /\ UsageExact
  /\ row # None => \A t \in Times : Starts(t) /\ t > row.period => bytes[t] = 0

BeforeUse ==
  /\ cred = 0 => \A t \in Times : bytes[t] = 0
  /\ count["op"] = 0 => cred = 0 /\ \A a \in Admins : adm[a].op = None
  /\ \A a \in Admins : adm[a].op = "create" /\ adm[a].step = "link" => cred = 0

LEMMA UsageParts == UsageInv <=> UsageRow /\ BeforeUse
  BY DEF UsageInv, UsageRow, BeforeUse

(* The row goes, or keeps its usage and its period. *)
UsageStays == row' # None => row # None /\ row'.used = row.used /\ row'.period = row.period

LEMMA UsageStayed == ASSUME UsageRow, UsageStays, UNCHANGED bytes PROVE UsageRow'
  BY DEF UsageRow, UsageStays, UsageExact

LEMMA NoBytes ==
  ASSUME RowOK', RestOK', row' # None => row'.used = 0, \A t \in Times : bytes'[t] = 0
  PROVE  UsageRow'
<1>1. row' # None => row'.period \in Times
  BY Numbers DEF RowOK, RestOK, Share
<1> QED  BY <1>1 DEF UsageRow, UsageExact

LEMMA NotUsedYet == ASSUME BeforeUse, UNCHANGED <<cred, bytes, count, adm>> PROVE BeforeUse'
  BY DEF BeforeUse

(* A report: the row has reached the period of every byte it counts. *)
LEMMA IngestUsage == ASSUME RowsInv, UsageInv, NEW ts \in 0..(now + Skew), Ingest(ts) PROVE UsageInv'
<1> USE DEF RowsInv
<1>1. row \in Share /\ row # None /\ row.period <= now /\ now \in Nat /\ now \in Times /\ ts \in Nat
  BY SharesAssumption DEF Ingest, RowOK, RestOK, Times
<1>2. PICK p \in Nat : p = PeriodStart(now)
  BY <1>1, PeriodStarts
<1>3. p <= now /\ p \in Times /\ Starts(p) /\ \A t \in Times : Starts(t) /\ t <= now => t <= p
  <2>1. p <= now /\ Starts(p) /\ \A t \in Nat : Starts(t) /\ t <= now => t <= p
    BY <1>1, <1>2, PeriodStarts, PeriodOrder
  <2> QED  BY <1>1, <2>1, Numbers
<1>4. row.used = bytes[row.period] /\ \A t \in Times : Starts(t) /\ t > row.period => bytes[t] = 0
  BY <1>1 DEF UsageInv, UsageExact
<1>5. PICK r : r = Rolled(row)
  OBVIOUS
<1>6. /\ r \in Share /\ r.period \in Times /\ r.period <= now /\ p <= r.period
      /\ row.period <= r.period /\ r.used = bytes[r.period]
  <2>1. CASE p > row.period
    <3>1. r = [row EXCEPT !.used = 0, !.period = p, !.status = IF @ = "exhausted" THEN "active" ELSE @]
      BY <1>2, <1>5, <2>1 DEF Rolled
    <3>2. r \in Share /\ r.period = p /\ r.used = 0
      BY <1>1, <3>1 DEF Share, Statuses
    <3>3. bytes[p] = 0
      BY <1>3, <1>4, <2>1
    <3>4. row.period <= p /\ p <= p
      BY <1>1, <2>1 DEF Share
    <3> QED  BY <1>3, <3>2, <3>3, <3>4
  <2>2. CASE ~(p > row.period)
    <3>1. r = row
      BY <1>2, <1>5, <2>2 DEF Rolled
    <3> QED  BY <1>1, <1>4, <2>2, <3>1, Numbers DEF Share, RestOK
  <2> QED  BY <2>1, <2>2
<1>7. bytes' = [t \in Times |-> bytes[t] + IF t <= ts /\ t <= now THEN 1 ELSE 0] /\ bytes \in [Times -> Nat]
  BY DEF Ingest, RestOK
<1>8. PICK q : row' = q /\ q.period = r.period /\ q.used = IF ts < r.period THEN r.used ELSE r.used + 1
  <2>1. row' = IF ts < r.period THEN r ELSE [r EXCEPT !.used = @ + 1]
    BY <1>5 DEF Ingest, Write
  <2> QED  BY <1>6, <2>1 DEF Share
<1>9. UsageExact'
  <2>1. r.period <= ts <=> ~(ts < r.period)
    BY <1>1, <1>6, Numbers
  <2>2. bytes'[r.period] = IF ts < r.period THEN bytes[r.period] ELSE bytes[r.period] + 1
    BY <1>6, <1>7, <2>1
  <2> QED  BY <1>6, <1>8, <2>2 DEF UsageExact
<1>10. ASSUME NEW t \in Times, Starts(t), t > row'.period PROVE bytes'[t] = 0
  <2>1. t > r.period /\ t > row.period
    BY <1>1, <1>6, <1>8, <1>10, Numbers DEF Share
  <2>2. ~(t <= now)
    BY <1>3, <1>6, <1>10, <2>1, Numbers
  <2>3. bytes[t] = 0
    BY <1>4, <1>10, <2>1
  <2> QED  BY <1>7, <2>2, <2>3
<1>11. UsageRow'
  BY <1>9, <1>10 DEF UsageRow, Starts
<1>12. BeforeUse'
  <2>1. cred' # 0 /\ cred' = cred /\ adm' = adm /\ count'["op"] = count["op"]
    BY DEF Ingest, Use, RestOK
  <2> QED  BY <2>1 DEF BeforeUse, UsageInv
<1> QED  BY <1>11, <1>12 DEF UsageInv, UsageRow, BeforeUse

LEMMA EvalResetUsage == ASSUME RowsInv, UsageInv, NEW e \in Evals, EvalReset(e) PROVE UsageInv'
<1> USE DEF RowsInv
<1>1. eval[e].now \in Nat /\ eval[e].now <= now /\ now \in Times
  BY Numbers DEF EvalOK, Evaluating, Evaluates, RestOK
<1>2. PICK p \in Nat : p = PeriodStart(eval[e].now)
  BY <1>1, PeriodStarts
<1>3. Starts(p) /\ p \in Times
  <2>1. Starts(p) /\ p <= eval[e].now
    BY <1>1, <1>2, PeriodStarts, PeriodOrder
  <2> QED  BY <1>1, <2>1, Numbers
<1>4. BeforeUse' /\ UNCHANGED bytes
  BY NotUsedYet, UsageParts DEF EvalReset
<1>5. CASE row # None /\ StillDue(eval[e])
  <2>1. row \in Share /\ p > row.period
    BY <1>2, <1>5 DEF RowOK, StillDue
  <2>2. row' = [row EXCEPT !.used = 0, !.period = p, !.status = IF @ = "exhausted" THEN "active" ELSE @]
    BY <1>2, <1>5 DEF EvalReset, Write
  <2>3. row'.used = 0 /\ row'.period = p
    BY <2>1, <2>2 DEF Share
  <2>4. \A t \in Times : Starts(t) /\ t > row.period => bytes[t] = 0
    BY <1>5 DEF UsageInv
  <2>5. bytes[p] = 0
    BY <1>3, <2>1, <2>4
  <2>6. \A t \in Times : t > p => t > row.period
    BY <2>1, Numbers DEF Share
  <2>7. UsageRow'
    BY <1>4, <2>3, <2>4, <2>5, <2>6 DEF UsageRow, UsageExact, Starts
  <2> QED  BY <1>4, <2>7 DEF UsageInv, UsageRow, BeforeUse
<1>6. CASE ~(row # None /\ StillDue(eval[e]))
  <2>1. UsageStays
    BY <1>6 DEF EvalReset, UsageStays
  <2>2. UsageRow'
    BY <1>4, <2>1, UsageStayed, UsageParts
  <2> QED  BY <1>4, <2>2 DEF UsageInv, UsageRow, BeforeUse
<1> QED  BY <1>5, <1>6

(* Everything else that is not a handler. *)
LEMMA OthersUsage ==
  ASSUME UsageInv, UsageStays, UNCHANGED <<cred, bytes, count, adm>>
  PROVE  UsageInv'
<1>1. UsageRow' /\ BeforeUse'
  BY UsageStayed, NotUsedYet, UsageParts
<1> QED  BY <1>1 DEF UsageInv, UsageRow, BeforeUse

LEMMA EvalStatusUsage == ASSUME RowsInv, UsageInv, NEW e \in Evals, EvalStatus(e) PROVE UsageInv'
<1>1. UsageStays
  <2>1. CASE row' = row
    BY <2>1 DEF UsageStays
  <2>2. CASE Unchanged(eval[e].snap) /\ row' = [row EXCEPT !.status = NextStatus(eval[e])]
    <3>1. row \in Share /\ row # None
      BY <2>2 DEF Unchanged, RowsInv, RowOK
    <3> QED  BY <2>2, <3>1 DEF UsageStays, Share
  <2> QED  BY <2>1, <2>2 DEF EvalStatus, Write
<1> QED  BY <1>1, OthersUsage DEF EvalStatus

LEMMA CrashUsage == ASSUME RowsInv, UsageInv, Crash PROVE UsageInv'
<1>1. UsageRow'
  BY UsageStayed, UsageParts DEF Crash, UsageStays
<1>2. count'["op"] = count["op"] /\ cred' = cred /\ bytes' = bytes /\ \A a \in Admins : adm'[a].op = None
  BY DEF Crash, Use, Idle, RowsInv, RestOK
<1>3. BeforeUse'
  BY <1>2, NoneAssumption DEF BeforeUse, UsageInv, AllOps
<1> QED  BY <1>1, <1>3 DEF UsageInv, UsageRow, BeforeUse

(* Handlers: once one has begun, cred may rise. *)
LEMMA HandlerBeforeUse ==
  ASSUME OneHandler, RowsInv, BeforeUse, NEW a \in Admins, NEW h, adm' = [adm EXCEPT ![a] = h],
         ~(h.op = "create" /\ h.step = "link"), count'["op"] # 0, cred' \in {cred, cred + 1},
         bytes' = bytes \/ \A t \in Times : bytes'[t] = 0
  PROVE  BeforeUse'
<1>1. \A b \in Admins : adm'[b] = h
  BY DEF OneHandler, RowsInv, AdmOK
<1>2. cred' = 0 => cred = 0
  BY DEF RowsInv, RestOK
<1> QED  BY <1>1, <1>2 DEF BeforeUse

LEMMA Running ==
  ASSUME BeforeUse, NEW a \in Admins, adm[a].op \in AllOps
  PROVE  count["op"] # 0
  BY NoneAssumption DEF BeforeUse

LEMMA DoneBeforeUse ==
  ASSUME OneHandler, RowsInv, BeforeUse, NEW a \in Admins, adm[a].op \in AllOps, Done(a), UNCHANGED count,
         cred' \in {cred, cred + 1}, bytes' = bytes \/ \A t \in Times : bytes'[t] = 0
  PROVE  BeforeUse'
<1>1. Idle.op # "create"
  BY NoneAssumption DEF Idle, AllOps
<1>2. count'["op"] # 0 /\ adm' = [adm EXCEPT ![a] = Idle]
  BY Running DEF Done
<1> QED  BY <1>1, <1>2, HandlerBeforeUse

LEMMA BeginUsage ==
  ASSUME OneHandler, RowsInv, UsageInv, NEW a \in Admins, BeginSimple(a) \/ BeginWalk(a) \/ BeginUpdate(a)
  PROVE  UsageInv'
<1>1. UNCHANGED <<row, cred, bytes>>
  BY DEF BeginSimple, BeginWalk, BeginUpdate
<1>2. PICK op, step, r, S : op \in AllOps \ {"create"} /\ Begin(a, op, step, r, S)
  <2>1. CASE BeginSimple(a)
    BY <2>1 DEF BeginSimple, AllOps
  <2>2. CASE BeginWalk(a)
    BY <2>2 DEF BeginWalk, AllOps
  <2>3. CASE BeginUpdate(a)
    BY <2>3 DEF BeginUpdate, AllOps
  <2> QED  BY <2>1, <2>2, <2>3
<1>3. PICK h : h = [op |-> op, step |-> step, snap |-> r, list |-> node, todo |-> S]
  OBVIOUS
<1>4. adm' = [adm EXCEPT ![a] = h] /\ h.op # "create" /\ count'["op"] # 0
  BY <1>2, <1>3 DEF Begin, Use, RowsInv, RestOK
<1>5. BeforeUse'
  BY <1>1, <1>4, HandlerBeforeUse, UsageParts
<1>6. UsageRow'
  BY <1>1, UsageStayed, UsageParts DEF UsageStays
<1> QED  BY <1>5, <1>6 DEF UsageInv, UsageRow, BeforeUse

LEMMA CreateUsage ==
  ASSUME OneHandler, RowsInv, RowsInv', UsageInv, NEW a \in Admins,
         CreateShare(a) \/ CreateLink(a) \/ CreateFails(a)
  PROVE  UsageInv'
<1>0. RowOK' /\ RestOK' /\ BeforeUse /\ UsageRow
  BY UsageParts DEF RowsInv
<1>1. CASE CreateShare(a)
  <2>1. PICK q \in Quotas, x \in Expiries, T \in SUBSET Servers :
          row' = NewShare(q, x, T) /\ Begin(a, "create", "link", row', {})
    BY <1>1 DEF CreateShare
  <2>2. cred = 0 /\ cred' = 0 /\ bytes' = bytes /\ \A t \in Times : bytes[t] = 0
    BY <1>0, <1>1 DEF CreateShare, BeforeUse
  <2>3. row'.used = 0
    BY <2>1 DEF NewShare
  <2>4. UsageRow'
    BY <1>0, <2>2, <2>3, NoBytes
  <2>5. count'["op"] # 0
    BY <2>1 DEF Begin, Use, RowsInv, RestOK
  <2>6. BeforeUse'
    BY <2>2, <2>5 DEF BeforeUse
  <2> QED  BY <2>4, <2>6 DEF UsageInv, UsageRow, BeforeUse
<1>2. CASE CreateLink(a)
  <2>1. /\ adm[a] \in Handling /\ adm[a].snap \in Share /\ adm[a].snap.used = 0
        /\ adm[a].op = "create" /\ adm[a].op \in AllOps
    BY <1>2, HandlerSnap DEF CreateLink, At, AllOps, Handles
  <2>2. cred = 0 /\ UNCHANGED <<cred, bytes, count>> /\ \A t \in Times : bytes[t] = 0
    BY <1>0, <1>2 DEF CreateLink, At, BeforeUse
  <2>3. row' # None => row'.used = 0
    BY <1>2, <2>1 DEF CreateLink, Write
  <2>4. UsageRow'
    BY <1>0, <2>2, <2>3, NoBytes
  <2>5. PICK h : h = [adm[a] EXCEPT !.step = "nodes", !.list = node]
    OBVIOUS
  <2>6. adm' = [adm EXCEPT ![a] = h] /\ h.step = "nodes"
    BY <1>2, <2>1, <2>5 DEF CreateLink, Handling
  <2>7. BeforeUse'
    BY <1>0, <2>1, <2>2, <2>6, HandlerBeforeUse, Running
  <2> QED  BY <2>4, <2>7 DEF UsageInv, UsageRow, BeforeUse
<1>3. CASE CreateFails(a)
  <2>1. UsageRow'
    BY <1>0, <1>3, UsageStayed DEF CreateFails, UsageStays
  <2>2. BeforeUse'
    BY <1>0, <1>3, DoneBeforeUse DEF CreateFails, AllOps
  <2> QED  BY <2>1, <2>2 DEF UsageInv, UsageRow, BeforeUse
<1> QED  BY <1>1, <1>2, <1>3

LEMMA LastWritesUsage ==
  ASSUME OneHandler, "connlog" \notin Ops, RowsInv, RowsInv', UsageInv, NEW a \in Admins,
         Pause(a) \/ Resume(a) \/ ResetUsage(a) \/ SetConnlogEnabled(a) \/ RevokeShare(a) \/ DeleteShare(a)
  PROVE  UsageInv'
<1>0. RowOK' /\ RestOK' /\ BeforeUse /\ UsageRow /\ (row # None => row \in Share)
  BY UsageParts DEF RowsInv, RowOK
<1>1. Done(a) /\ UNCHANGED <<count, cred>> /\ adm[a].op \in AllOps
  BY DEF Pause, Resume, ResetUsage, SetConnlogEnabled, RevokeShare, DeleteShare, At, AllOps
<1>2. adm[a].op # "connlog"
  <2>1. adm[a].op \in Ops
    BY <1>1, HandlerSnap DEF Handles
  <2> QED  BY <2>1
<1>3. CASE ResetUsage(a) /\ row # None
  <2>1. row' = [row EXCEPT !.used = 0, !.period = now] /\ bytes' = [t \in Times |-> 0]
    BY <1>3 DEF ResetUsage, Write
  <2>2. row'.used = 0 /\ \A t \in Times : bytes'[t] = 0
    BY <1>0, <1>3, <2>1 DEF Share
  <2>3. UsageRow' /\ BeforeUse'
    BY <1>0, <1>1, <2>2, NoBytes, DoneBeforeUse
  <2> QED  BY <2>3 DEF UsageInv, UsageRow, BeforeUse
<1>4. CASE ~(ResetUsage(a) /\ row # None)
  <2>1. bytes' = bytes
    BY <1>4 DEF Pause, Resume, ResetUsage, SetConnlogEnabled, RevokeShare, DeleteShare
  <2>2. row' = row \/ row' = None \/ (row # None /\ \E st : row' = [row EXCEPT !.status = st])
    BY <1>2, <1>4 DEF Pause, Resume, ResetUsage, SetConnlogEnabled, RevokeShare, DeleteShare, At, Write
  <2>3. UsageStays
    BY <1>0, <2>2 DEF UsageStays, Share
  <2>4. UsageRow' /\ BeforeUse'
    BY <1>0, <1>1, <2>1, <2>3, UsageStayed, DoneBeforeUse
  <2> QED  BY <2>4 DEF UsageInv, UsageRow, BeforeUse
<1> QED  BY <1>3, <1>4

LEMMA WalkUsage ==
  ASSUME OneHandler, RowsInv, UsageInv, NEW a \in Admins,
         \/ ReissueShare(a) \/ EnsureNodes(a)
         \/ \E s \in Servers : RevokeNode(a, s) \/ ReissueNode(a, s) \/ DeleteNode(a, s)
  PROVE  UsageInv'
<1>0. BeforeUse /\ UsageRow /\ (row # None => row \in Share)
  BY UsageParts DEF RowsInv, RowOK
<1>1. UNCHANGED <<count, bytes>> /\ adm[a].op \in AllOps /\ cred' \in {cred, cred + 1}
  BY DEF ReissueShare, EnsureNodes, RevokeNode, ReissueNode, DeleteNode, At, AllOps
<1>2. adm[a] \in Handling /\ count'["op"] # 0
  BY <1>0, <1>1, HandlerSnap, Running
<1>3. UsageStays
  <2>1. CASE EnsureNodes(a)
    BY <1>0, <2>1, Ensuring DEF EnsuresWith, UsageStays
  <2>2. CASE ReissueShare(a)
    <3>1. row' = row \/ (row # None /\ row' = [row EXCEPT !.status = "active"])
      BY <2>2 DEF ReissueShare, Write
    <3> QED  BY <1>0, <3>1 DEF UsageStays, Share
  <2>3. CASE row' = row
    BY <2>3 DEF UsageStays
  <2> QED  BY <2>1, <2>2, <2>3 DEF RevokeNode, ReissueNode, DeleteNode
<1>4. UsageRow'
  BY <1>0, <1>1, <1>3, UsageStayed
<1>5. CASE Done(a)
  BY <1>0, <1>1, <1>4, <1>5, DoneBeforeUse DEF UsageInv, UsageRow, BeforeUse
<1>6. CASE ~Done(a)
  <2>1. PICK h : adm' = [adm EXCEPT ![a] = h] /\ h.op # "create"
    <3>1. CASE ReissueShare(a)
      <4>1. PICK h : h = [adm[a] EXCEPT !.step = "ensure", !.list = node]
        OBVIOUS
      <4>2. h.op = "reissue"
        BY <1>2, <3>1, <4>1 DEF Handling, ReissueShare, At
      <4> QED  BY <3>1, <4>1, <4>2 DEF ReissueShare
    <3>2. CASE \E s \in Servers : RevokeNode(a, s) \/ ReissueNode(a, s) \/ DeleteNode(a, s)
      <4>1. PICK s \in Servers : RevokeNode(a, s) \/ ReissueNode(a, s) \/ DeleteNode(a, s)
        BY <3>2
      <4>2. PICK h : h = [adm[a] EXCEPT !.todo = @ \ {s}]
        OBVIOUS
      <4>3. h.op = adm[a].op /\ adm[a].op # "create"
        BY <1>2, <4>1, <4>2 DEF Handling, RevokeNode, ReissueNode, DeleteNode, At
      <4>4. Walked(a, s)
        BY <1>6, <4>1 DEF RevokeNode, ReissueNode, DeleteNode
      <4> QED  BY <4>2, <4>3, <4>4 DEF Walked
    <3> QED  BY <1>6, <3>1, <3>2 DEF EnsureNodes
  <2>2. BeforeUse'
    BY <1>0, <1>1, <1>2, <2>1, HandlerBeforeUse
  <2> QED  BY <1>4, <2>2 DEF UsageInv, UsageRow, BeforeUse
<1> QED  BY <1>5, <1>6

LEMMA NextUsage ==
  ASSUME OneHandler, "connlog" \notin Ops, RowsInv, RowsInv', UsageInv, [Next]_vars
  PROVE  UsageInv'
<1>1. CASE UNCHANGED <<row, cred, bytes, count, adm>>
  BY <1>1, OthersUsage DEF UsageStays
<1>2. CASE Tick \/ Crash \/ \E ts \in 0..(now + Skew) : Ingest(ts)
  BY <1>1, <1>2, CrashUsage, IngestUsage DEF Tick
<1>3. CASE \E a \in Admins : Handler(a)
  <2>1. PICK a \in Admins : Handler(a)
    BY <1>3
  <2> QED  BY <2>1, CreateUsage, BeginUsage, LastWritesUsage, WalkUsage DEF Handler
<1>4. CASE \E e \in Evals : Evaluation(e)
  BY <1>1, <1>4, EvalResetUsage, EvalStatusUsage DEF Evaluation, EvalRead
<1>5. CASE \E s \in Servers : Publication(s)
  BY <1>1, <1>5 DEF Publication, Read, Commit
<1> QED  BY <1>1, <1>2, <1>3, <1>4, <1>5 DEF Next

LEMMA InitUsage == Init => UsageInv
<1> SUFFICES ASSUME Init PROVE UsageInv
  OBVIOUS
<1>1. row = None /\ cred = 0 /\ (\A t \in Times : bytes[t] = 0) /\ \A a \in Admins : adm[a].op = None
  BY DEF Init, Idle
<1> QED  BY <1>1, NoneAssumption DEF UsageInv, UsageExact, AllOps

(* Only the compare and set of an evaluation closes a share for its usage. *)
LEMMA StatusKept ==
  ASSUME row # None /\ row' # None => row'.status = row.status \/ row'.status # "exhausted"
  PROVE  JustifiedStep
  BY DEF JustifiedStep

LEMMA EvalStatusJustified == ASSUME RowsInv, NEW e \in Evals, EvalStatus(e) PROVE JustifiedStep
<1>1. eval[e].snap \in Share
  BY DEF RowsInv, EvalOK, Evaluating, EvalStatus
<1>2. CASE row' = row
  BY <1>2, StatusKept
<1>3. CASE Unchanged(eval[e].snap) /\ row' = [row EXCEPT !.status = NextStatus(eval[e])]
  <2>1. row \in Share
    BY <1>3 DEF Unchanged, RowsInv, RowOK
  <2>2. row.quota = eval[e].snap.quota /\ row.used = eval[e].snap.used
    BY <1>1, <1>3, <2>1 DEF Unchanged, Share
  <2>3. /\ row'.status = NextStatus(eval[e])
        /\ row'.quota = row.quota /\ row'.used = row.used
    BY <1>3, <2>1 DEF Share
  <2>4. NextStatus(eval[e]) = "exhausted" => OverQuota(eval[e].snap)
    BY DEF NextStatus, Reached
  <2> QED  BY <2>2, <2>3, <2>4 DEF OverQuota, JustifiedStep
<1> QED  BY <1>2, <1>3 DEF EvalStatus, Write

LEMMA HandlerJustified ==
  ASSUME "connlog" \notin Ops, RowsInv, NEW a \in Admins, Handler(a)
  PROVE  JustifiedStep
<1>0. row # None => row \in Share
  BY DEF RowsInv, RowOK
<1>1. CASE row = None
  BY <1>1 DEF JustifiedStep
<1>2. CASE row # None /\ row' \in {row, None}
  BY <1>2 DEF JustifiedStep
<1>3. CASE row # None /\ \E st \in {"paused", "active", "revoked"} : row' = [row EXCEPT !.status = st]
  BY <1>0, <1>3, StatusKept DEF Share
<1>4. CASE ResetUsage(a)
  <2>1. CASE row # None /\ row' = [row EXCEPT !.used = 0, !.period = now]
    BY <1>0, <2>1, StatusKept DEF Share
  <2> QED  BY <1>1, <1>4, <2>1 DEF ResetUsage, Write
<1>5. CASE CreateLink(a)
  <2>1. adm[a].snap.status = "active"
    BY <1>5, HandlerSnap DEF CreateLink, At, AllOps, Handles
  <2> QED  BY <1>1, <1>5, <2>1, StatusKept DEF CreateLink, Write
<1>6. CASE SetConnlogEnabled(a)
  BY <1>6, HandlerSnap DEF SetConnlogEnabled, At, AllOps, Handles
<1>7. CASE EnsureNodes(a)
  BY <1>7, Ensuring, StatusKept DEF EnsuresWith
<1>8. CASE CreateShare(a) \/ CreateFails(a) \/ BeginSimple(a) \/ BeginWalk(a) \/ BeginUpdate(a) \/ DeleteShare(a)
  BY <1>1, <1>2, <1>8 DEF CreateShare, CreateFails, BeginSimple, BeginWalk, BeginUpdate, DeleteShare
<1>9. CASE Pause(a) \/ Resume(a) \/ RevokeShare(a) \/ ReissueShare(a)
  BY <1>1, <1>3, <1>9 DEF Pause, Resume, RevokeShare, ReissueShare, Write
<1>10. CASE \E s \in Servers : RevokeNode(a, s) \/ ReissueNode(a, s) \/ DeleteNode(a, s)
  BY <1>1, <1>2, <1>10 DEF RevokeNode, ReissueNode, DeleteNode
<1> QED  BY <1>4, <1>5, <1>6, <1>7, <1>8, <1>9, <1>10 DEF Handler

LEMMA NextJustified == ASSUME "connlog" \notin Ops, RowsInv, Next PROVE JustifiedStep
<1>0. row # None => row \in Share
  BY DEF RowsInv, RowOK
<1>1. CASE row' = row
  BY <1>1, StatusKept
<1>2. ASSUME NEW ts \in 0..(now + Skew), Ingest(ts) PROVE JustifiedStep
  <2>1. row \in Share
    BY <1>0, <1>2 DEF Ingest
  <2>2. PICK p \in Nat : p = PeriodStart(now)
    BY PeriodStarts, SharesAssumption DEF RowsInv, RestOK
  <2>3. PICK r : r = Rolled(row)
    OBVIOUS
  <2>4. r \in Share /\ (r.status = row.status \/ r.status = "active")
    BY <2>1, <2>2, <2>3 DEF Rolled, Share, Statuses
  <2>5. row' = r \/ row' = [r EXCEPT !.used = @ + 1]
    BY <1>2, <2>3 DEF Ingest, Write
  <2>6. row'.status = r.status
    BY <2>4, <2>5 DEF Share
  <2> QED  BY <2>4, <2>6, StatusKept
<1>3. ASSUME NEW e \in Evals, EvalReset(e) PROVE JustifiedStep
  <2>1. CASE row # None /\ row' = [row EXCEPT !.used = 0, !.period = PeriodStart(eval[e].now),
                                       !.status = IF @ = "exhausted" THEN "active" ELSE @]
    <3>1. row'.status = IF row.status = "exhausted" THEN "active" ELSE row.status
      BY <1>0, <2>1 DEF Share
    <3> QED  BY <3>1, StatusKept
  <2> QED  BY <1>1, <1>3, <2>1 DEF EvalReset, Write
<1>4. CASE \E a \in Admins : Handler(a)
  BY <1>4, HandlerJustified
<1>5. CASE \E e \in Evals : Evaluation(e)
  BY <1>1, <1>3, <1>5, EvalStatusJustified DEF Evaluation, EvalRead
<1>6. CASE Tick \/ Crash \/ \E s \in Servers : Publication(s)
  BY <1>1, <1>6 DEF Tick, Crash, Publication, Read, Commit
<1> QED  BY <1>2, <1>4, <1>5, <1>6 DEF Next

(* Handlers that do not overlap, and no edit that writes a whole row back:
   the quota is charged exactly the bytes sampled since the period began,
   whoever rolls the period over and however late a report is, and a share is
   closed for its usage only when the usage of that moment is over the quota
   of that moment. *)
THEOREM UsageAlwaysFair == ASSUME OneHandler, "connlog" \notin Ops PROVE Spec => UsageIsFair
<1>1. Init => RowsInv /\ UsageInv
  BY InitRows, InitUsage
<1>2. RowsInv /\ UsageInv /\ [Next]_vars => (RowsInv /\ UsageInv)'
  BY NextRows, NextUsage
<1>3. RowsInv /\ UsageInv /\ (RowsInv /\ UsageInv)' /\ [Next]_vars => [UsageExact' /\ JustifiedStep]_vars
  BY NextJustified DEF UsageInv
<1> QED  BY <1>1, <1>2, <1>3, PTL DEF Spec, UsageIsFair
=============================================================================
