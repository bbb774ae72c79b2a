------------------------- MODULE PublicationProofs -------------------------
(***************************************************************************)
(* Proofs about Publication, for every number of publishers, operations,   *)
(* edits, retries and failures.                                            *)
(***************************************************************************)
EXTENDS Publication, SequenceTheorems, TLAPS

(* The generation counts the saved inputs, and the last ones are current. *)
GenInv ==
  /\ row.gen >= 1 /\ row.pub <= row.gen
  /\ Len(saved) = row.gen /\ saved[row.gen] = Tracked

(* What a running build has read belongs to the generation it has noted, as
   long as that generation is the current one. *)
BuildOK(q) ==
  /\ q.pc \in {"versions", "nodes", "commit"} =>
       q.g1 <= row.gen /\ (q.g1 = row.gen => q.doc.host = input.host)
  /\ q.pc \in {"nodes", "commit"} => q.doc.gen <= row.gen
  /\ q.pc = "commit" =>
       q.g1 = q.doc.gen /\ (q.doc.gen = row.gen => q.doc.node = input.node)

BuildInv == \A p \in Publishers : BuildOK(pubs[p])

RevInv ==
  \A i \in DOMAIN revs : /\ revs[i].doc.gen \in 1..row.gen
                         /\ Matches(revs[i], saved[revs[i].doc.gen])

PubInv == row.pub = row.gen => revs # <<>> /\ Latest.doc.gen = row.gen

(* A build that saw the latest revision has read a mita version that is not
   older than any published one. *)
MitaOK(q) ==
  /\ q.pc \in {"server", "versions", "nodes", "commit"} => q.expected <= Len(revs)
  /\ q.pc \in {"nodes", "commit"} =>
       /\ q.doc.mita <= input.mita
       /\ q.expected = Len(revs) => \A i \in DOMAIN revs : revs[i].doc.mita <= q.doc.mita

MitaInv ==
  /\ NeverReverts
  /\ \A i \in DOMAIN revs : revs[i].doc.mita <= input.mita
  /\ \A p \in Publishers : MitaOK(pubs[p])

(* A scanned row that still looks current was scanned in the present budget. *)
ScanOK(s) ==
  /\ s \in ScanRow /\ s.attempts < MaxAttempts /\ s.gen <= row.gen
  /\ s.gen = row.gen => s.retry <= row.retry /\ (s.retry = row.retry => s.epoch = epoch)

ScanInv ==
  /\ pubs["rec"].pc # "idle" => ScanOK(pubs["rec"].scan)
  /\ \A p \in Api : pubs[p].pc # "failed"

IInv == TypeOK /\ GenInv /\ BuildInv /\ RevInv /\ PubInv /\ MitaInv /\ ScanInv

-----------------------------------------------------------------------------
USE DEF db, hist, vars

LEMMA FreshType ==
  ASSUME NEW pc \in {"idle", "latest", "failed"}, NEW force \in BOOLEAN,
         NEW tries \in 0..(MaxTries - 1), NEW scan \in ScanRow \cup {None}
  PROVE  /\ Fresh(pc, force, tries, scan) \in Publisher
         /\ Fresh(pc, force, tries, scan).pc = pc
         /\ Fresh(pc, force, tries, scan).scan = scan
  BY DEF Fresh, Publisher, Document, Bit

LEMMA IdleType ==
  /\ Idle \in Publisher /\ Idle.pc = "idle" /\ Idle.scan = None
  /\ \A force \in BOOLEAN, scan \in ScanRow \cup {None} :
       /\ Started(force, scan) \in Publisher
       /\ Started(force, scan).pc = "latest" /\ Started(force, scan).scan = scan
<1>1. 0 \in 0..(MaxTries - 1)
  BY PublicationAssumption
<1>2. Idle \in Publisher /\ Idle.pc = "idle" /\ Idle.scan = None
  BY <1>1 DEF Idle, Fresh, Publisher, Document, Bit
<1>3. ASSUME NEW force \in BOOLEAN, NEW scan \in ScanRow \cup {None}
      PROVE  /\ Started(force, scan) \in Publisher
             /\ Started(force, scan).pc = "latest" /\ Started(force, scan).scan = scan
  BY <1>1, FreshType DEF Started
<1> QED  BY <1>2, <1>3

(* A publisher goes on as it was or starts over; the reconciliation keeps
   the row it scanned. *)
Restarted(p) ==
  /\ pubs'[p] \in Publisher
  /\ \/ pubs'[p] = pubs[p]
     \/ pubs'[p].pc \in {"idle", "latest"}
     \/ p = "rec" /\ pubs'[p].pc = "failed"
  /\ p = "rec" /\ pubs'[p].pc # "idle" =>
       pubs[p].pc # "idle" /\ pubs'[p].scan = pubs[p].scan

(* Publishers that start over disturb nothing. *)
LEMMA RestartKeeps ==
  ASSUME IInv, UNCHANGED <<input, row, revs, saved, epoch>>,
         pubs' \in [Publishers -> Publisher], \A p \in Publishers : Restarted(p)
  PROVE  PubTypes' /\ RevTypes' /\ GenInv' /\ BuildInv' /\ RevInv' /\ PubInv' /\ MitaInv'
         /\ ScanInv'
<1> USE DEF IInv, TypeOK
<1>1. PubTypes' /\ RevTypes' /\ GenInv' /\ RevInv' /\ PubInv'
  BY DEF PubTypes, RevTypes, GenInv, RevInv, PubInv, Tracked, Latest
<1>2. BuildInv'
  BY DEF BuildInv, BuildOK, Restarted
<1>3. MitaInv'
  BY DEF MitaInv, MitaOK, NeverReverts, Restarted
<1>4. ScanInv'
  BY PublicationAssumption DEF ScanInv, ScanOK, Restarted, Publishers
<1> QED  BY <1>1, <1>2, <1>3, <1>4

LEMMA UseType ==
  ASSUME HistTypes, NEW c \in Counts, Use(c)
  PROVE  count' \in [Counts -> Nat]
  BY DEF HistTypes, Use

(* One publisher is set to a fresh call. *)
LEMMA SetRestarts ==
  ASSUME IInv, NEW p \in Publishers, NEW q \in Publisher,
         pubs' = [pubs EXCEPT ![p] = q],
         q.pc \in {"idle", "latest"} \/ (p = "rec" /\ q.pc = "failed"),
         p = "rec" /\ q.pc # "idle" => pubs[p].pc # "idle" /\ q.scan = pubs[p].scan
  PROVE  pubs' \in [Publishers -> Publisher] /\ \A x \in Publishers : Restarted(x)
<1>1. pubs \in [Publishers -> Publisher]
  BY DEF IInv, TypeOK, PubTypes
<1>2. pubs' \in [Publishers -> Publisher]
  BY <1>1
<1>3. ASSUME NEW x \in Publishers PROVE Restarted(x)
  <2>1. CASE x = p
    <3>1. pubs'[x] = q
      BY <1>1, <2>1
    <3> QED  BY <2>1, <3>1 DEF Restarted
  <2>2. CASE x # p
    <3>1. pubs'[x] = pubs[x]
      BY <1>1, <2>2
    <3> QED  BY <1>2, <3>1 DEF Restarted
  <2> QED  BY <2>1, <2>2
<1> QED  BY <1>2, <1>3

(* publish gives up, or starts over after a conflict. *)
LEMMA ConflictRestarts ==
  ASSUME IInv, NEW p \in Publishers, pubs[p].pc # "idle",
         pubs' = Conflict(p) \/ pubs' = Failed(p)
  PROVE  pubs' \in [Publishers -> Publisher] /\ \A x \in Publishers : Restarted(x)
<1>1. pubs[p] \in Publisher
  BY DEF IInv, TypeOK, PubTypes
<1>2. /\ pubs[p].force \in BOOLEAN /\ pubs[p].tries \in Nat
      /\ pubs[p].scan \in ScanRow \cup {None}
  BY <1>1 DEF Publisher
<1>3. 0 \in 0..(MaxTries - 1) /\ MaxTries \in Nat
  BY PublicationAssumption
<1>a. ASSUME pubs' = Failed(p)
      PROVE  pubs' \in [Publishers -> Publisher] /\ \A x \in Publishers : Restarted(x)
  <2> DEFINE q == IF p = "rec" THEN Fresh("failed", FALSE, 0, pubs[p].scan) ELSE Idle
  <2>1. /\ q \in Publisher
        /\ IF p = "rec" THEN q.pc = "failed" /\ q.scan = pubs[p].scan ELSE q.pc = "idle"
    <3>1. CASE p = "rec"
      <4> DEFINE F == Fresh("failed", FALSE, 0, pubs[p].scan)
      <4>1. F \in Publisher /\ F.pc = "failed" /\ F.scan = pubs[p].scan
        BY <1>2, <1>3 DEF Fresh, Publisher, Document, Bit
      <4>2. q = F
        BY <3>1
      <4> QED  BY <3>1, <4>1, <4>2
    <3>2. CASE p # "rec"
      BY <3>2, IdleType
    <3> QED  BY <3>1, <3>2
  <2>2. pubs' = [pubs EXCEPT ![p] = q]
    BY <1>a DEF Failed
  <2> HIDE DEF q
  <2> QED  BY <2>1, <2>2, SetRestarts
<1>b. CASE pubs[p].tries + 1 < MaxTries /\ pubs' = Conflict(p)
  <2> DEFINE q == Fresh("latest", pubs[p].force, pubs[p].tries + 1, pubs[p].scan)
  <2>1. q \in Publisher /\ q.pc = "latest" /\ q.scan = pubs[p].scan
    <3>1. pubs[p].tries + 1 \in 0..(MaxTries - 1)
      BY <1>b, <1>2, <1>3
    <3> QED  BY <1>2, <3>1, FreshType
  <2>2. pubs' = [pubs EXCEPT ![p] = q]
    BY <1>b DEF Conflict
  <2> HIDE DEF q
  <2> QED  BY <2>1, <2>2, SetRestarts
<1> QED  BY <1>a, <1>b DEF Conflict

-----------------------------------------------------------------------------
(* A tracked input changes: every build under way belongs to an older
   generation from now on, and the budget is new. *)
LEMMA BumpKeeps ==
  ASSUME IInv, NEW f \in Fields, Bump(f), UNCHANGED <<revs, maint>>,
         pubs' \in [Publishers -> Publisher], \A p \in Publishers : Restarted(p)
  PROVE  /\ RowTypes' /\ RevTypes' /\ PubTypes'
         /\ saved' \in Seq([Fields -> Bit]) /\ epoch' \in Nat
         /\ GenInv' /\ BuildInv' /\ RevInv' /\ PubInv' /\ MitaInv' /\ ScanInv'
<1> USE DEF IInv, TypeOK
<1>1. /\ input' \in [host : Bit, node : Bit, cli : Bit, mita : Nat]
      /\ input'.mita = input.mita
  BY DEF Bump, RowTypes, Fields, Bit
<1>2. /\ row' \in [gen : Nat, pub : Nat, attempts : 0..MaxAttempts, retry : Nat]
      /\ row'.gen = row.gen + 1 /\ row'.pub = row.pub
  <2>1. PICK r \in {0, 1} : row' = [row EXCEPT !.gen = @ + 1, !.attempts = 0, !.retry = r]
    BY DEF Bump
  <2>2. 0 \in 0..MaxAttempts
    BY PublicationAssumption
  <2>3. row' = [gen |-> row.gen + 1, pub |-> row.pub, attempts |-> 0, retry |-> r]
    BY <2>1 DEF RowTypes
  <2>4. row.gen + 1 \in Nat /\ row.pub \in Nat /\ r \in Nat
    BY DEF RowTypes
  <2> QED  BY <2>2, <2>3, <2>4
<1>3. row.gen \in Nat /\ row.pub \in Nat
  BY DEF RowTypes
<1>4. Tracked' \in [Fields -> Bit]
  BY <1>1 DEF Tracked, Fields, Bit
<1>5. /\ saved' \in Seq([Fields -> Bit]) /\ Len(saved') = row.gen + 1
      /\ saved'[row.gen + 1] = Tracked'
      /\ \A i \in 1..row.gen : saved'[i] = saved[i]
  <2>1. saved \in Seq([Fields -> Bit]) /\ Len(saved) = row.gen
    BY DEF HistTypes, GenInv
  <2>2. saved' = Append(saved, Tracked')
    BY DEF Bump, Tracked
  <2> QED  BY <2>1, <2>2, <1>3, <1>4
<1>6. RowTypes' /\ RevTypes' /\ PubTypes' /\ epoch' \in Nat
  BY <1>1, <1>2 DEF RowTypes, RevTypes, PubTypes, HistTypes, Bump
<1>7. GenInv' /\ PubInv'
  BY <1>2, <1>3, <1>5 DEF GenInv, PubInv
<1>8. BuildInv'
  <2>1. ASSUME NEW p \in Publishers PROVE BuildOK(pubs[p])'
    <3>1. /\ pubs[p].g1 \in Nat /\ pubs[p].doc.gen \in Nat /\ BuildOK(pubs[p])
      BY DEF PubTypes, Publisher, Document, BuildInv
    <3> QED  BY <1>2, <1>3, <3>1 DEF BuildOK, Restarted
  <2> QED  BY <2>1 DEF BuildInv
<1>9. RevInv'
  <2>1. ASSUME NEW i \in DOMAIN revs
        PROVE  /\ revs[i].doc.gen \in 1..row'.gen
               /\ saved'[revs[i].doc.gen] = saved[revs[i].doc.gen]
    <3>1. revs[i].doc.gen \in 1..row.gen
      BY DEF RevInv
    <3> QED  BY <3>1, <1>2, <1>3, <1>5
  <2> QED  BY <2>1 DEF RevInv, Matches
<1>10. MitaInv'
  BY <1>1 DEF MitaInv, MitaOK, NeverReverts, Restarted
<1>11. ScanInv'
  <2>1. ASSUME pubs'["rec"].pc # "idle" PROVE ScanOK(pubs["rec"].scan)'
    <3> DEFINE s == pubs["rec"].scan
    <3>1. pubs["rec"].pc # "idle" /\ s' = s
      BY <2>1 DEF Restarted, Publishers
    <3>2. s \in ScanRow /\ s.gen <= row.gen /\ s.attempts < MaxAttempts /\ s.gen \in Nat
      BY <3>1 DEF ScanInv, ScanOK, ScanRow
    <3>3. s.gen # row'.gen /\ s.gen <= row'.gen
      BY <1>2, <1>3, <3>2
    <3> HIDE DEF s
    <3> QED  BY <3>1, <3>2, <3>3 DEF ScanOK, s
  <2> QED  BY <2>1, PublicationAssumption DEF ScanInv, Restarted, Publishers
<1> QED  BY <1>5, <1>6, <1>7, <1>8, <1>9, <1>10, <1>11

LEMMA RevisionType ==
  ASSUME RevTypes, NEW i \in DOMAIN revs
  PROVE  /\ revs[i] \in Revision /\ revs[i].doc \in Document
         /\ revs[i].doc.mita \in Nat /\ revs[i].doc.gen \in Nat
<1>1. revs[i] \in Revision
  BY DEF RevTypes
<1>2. revs[i].doc \in Document
  BY <1>1 DEF Revision
<1> QED  BY <1>1, <1>2 DEF Document

LEMMA SupersededType ==
  ASSUME OpTypes, NEW o \in Ops
  PROVE  Superseded(ops[o]) \in Operation \cup {None}
  BY DEF OpTypes, Superseded, Operation, Statuses

(* A handler's edit starts its own publication. *)
LEMMA EditStep ==
  ASSUME IInv, NEW p \in Api, NEW f \in Editable, Edit(p, f)
  PROVE  IInv'
<1> USE DEF IInv, TypeOK
<1>1. f \in Fields /\ p \in Publishers /\ p # "rec"
  BY PublicationAssumption DEF Publishers
<1>2. pubs' \in [Publishers -> Publisher] /\ \A x \in Publishers : Restarted(x)
  <2>1. Started(FALSE, None) \in Publisher /\ Started(FALSE, None).pc = "latest"
    BY IdleType
  <2> QED  BY <1>1, <2>1, SetRestarts DEF Edit
<1>3. /\ RowTypes' /\ RevTypes' /\ PubTypes'
      /\ saved' \in Seq([Fields -> Bit]) /\ epoch' \in Nat
      /\ GenInv' /\ BuildInv' /\ RevInv' /\ PubInv' /\ MitaInv' /\ ScanInv'
  BY <1>1, <1>2, BumpKeeps DEF Edit
<1>4. OpTypes'
  BY SupersededType DEF Edit, OpTypes
<1>5. HistTypes' /\ AgentTypes'
  BY <1>3, UseType DEF Edit, HistTypes, AgentTypes, Counts
<1> QED  BY <1>3, <1>4, <1>5

(* An operation enters the queue with the generation of its own edit. *)
LEMMA RequestStep ==
  ASSUME IInv, NEW o \in Ops, Request(o)
  PROVE  IInv'
<1> USE DEF IInv, TypeOK
<1>1. pubs' \in [Publishers -> Publisher] /\ \A x \in Publishers : Restarted(x)
  BY DEF Request, PubTypes, Restarted
<1>2. /\ RowTypes' /\ RevTypes' /\ PubTypes'
      /\ saved' \in Seq([Fields -> Bit]) /\ epoch' \in Nat
      /\ GenInv' /\ BuildInv' /\ RevInv' /\ PubInv' /\ MitaInv' /\ ScanInv'
  BY <1>1, BumpKeeps DEF Request, Fields
<1>3. OpTypes'
  <2>1. [gen |-> row'.gen, status |-> "queued", rev |-> 0, retry |-> 0,
         republish |-> FALSE, since |-> Len(revs)] \in Operation
    BY <1>2 DEF RowTypes, RevTypes, Operation, Statuses
  <2> QED  BY <2>1, SupersededType DEF Request, OpTypes
<1>4. HistTypes' /\ AgentTypes'
  BY <1>2, UseType DEF Request, HistTypes, AgentTypes, Counts
<1> QED  BY <1>2, <1>3, <1>4

(* A retry keeps the generation and renews the budget. *)
LEMMA RetryStep ==
  ASSUME IInv, NEW o \in Ops, Retry(o)
  PROVE  IInv'
<1> USE DEF IInv, TypeOK
<1>1. /\ RowTypes' /\ row'.gen = row.gen /\ row'.pub = 0
      /\ row'.retry = row.retry + 1 /\ row.gen \in Nat /\ row.retry \in Nat
  <2>1. /\ row' = [gen |-> row.gen, pub |-> 0, attempts |-> 0, retry |-> row.retry + 1]
        /\ row.gen \in Nat /\ row.retry \in Nat /\ row.retry + 1 \in Nat
    <3>1. row' = [row EXCEPT !.pub = 0, !.attempts = 0, !.retry = @ + 1]
      BY DEF Retry
    <3>2. row \in [gen : Nat, pub : Nat, attempts : 0..MaxAttempts, retry : Nat]
      BY DEF RowTypes
    <3>3. row.gen \in Nat /\ row.retry \in Nat /\ row.retry + 1 \in Nat
      BY <3>2
    <3>4. row' = [gen |-> row.gen, pub |-> 0, attempts |-> 0, retry |-> row.retry + 1]
      BY <3>1, <3>2
    <3> QED  BY <3>3, <3>4
  <2>2. 0 \in 0..MaxAttempts
    BY PublicationAssumption
  <2> QED  BY <2>1, <2>2 DEF Retry, RowTypes
<1>2. OpTypes'
  <2>1. ops[o] \in Operation
    BY DEF Retry, OpTypes
  <2>2. Retried(ops[o]) \in Operation
    <3>1. Len(revs) \in Nat /\ ops[o].retry + 1 \in Nat
      BY <2>1 DEF RevTypes, Operation
    <3> QED  BY <2>1, <3>1 DEF Retried, Operation, Statuses
  <2> QED  BY <2>2 DEF Retry, OpTypes
<1>3. RevTypes' /\ PubTypes' /\ AgentTypes' /\ HistTypes'
  <2>1. count' \in [Counts -> Nat]
    BY UseType DEF Retry, Counts
  <2> QED  BY <2>1 DEF Retry, RevTypes, PubTypes, AgentTypes, HistTypes
<1>4. GenInv' /\ PubInv' /\ RevInv'
  BY <1>1 DEF Retry, GenInv, PubInv, RevInv, Tracked
<1>5. BuildInv' /\ MitaInv'
  BY <1>1 DEF Retry, BuildInv, BuildOK, MitaInv, MitaOK, NeverReverts
<1>6. ScanInv'
  <2>1. ASSUME pubs["rec"].pc # "idle" PROVE ScanOK(pubs["rec"].scan)'
    <3>1. ScanOK(pubs["rec"].scan) /\ pubs["rec"].scan.retry \in Nat
      BY <2>1 DEF ScanInv, ScanOK, ScanRow
    <3> QED  BY <1>1, <3>1 DEF ScanOK, Retry
  <2> QED  BY <2>1 DEF ScanInv, Retry
<1> QED  BY <1>1, <1>2, <1>3, <1>4, <1>5, <1>6

(* The mita version only grows. *)
LEMMA SetMitaStep ==
  ASSUME IInv, NEW p \in Api, SetMita(p)
  PROVE  IInv'
<1> USE DEF IInv, TypeOK
<1>1. p \in Publishers /\ p # "rec"
  BY PublicationAssumption DEF Publishers
<1>2. pubs' \in [Publishers -> Publisher] /\ \A x \in Publishers : Restarted(x)
  <2>1. Started(FALSE, None) \in Publisher /\ Started(FALSE, None).pc = "latest"
    BY IdleType
  <2> QED  BY <1>1, <2>1, SetRestarts DEF SetMita
<1>3. /\ RowTypes' /\ input'.mita = input.mita + 1 /\ input.mita \in Nat
      /\ input'.host = input.host /\ input'.node = input.node /\ Tracked' = Tracked
  BY DEF SetMita, RowTypes, Tracked, Fields
<1>4. OpTypes' /\ RevTypes' /\ PubTypes' /\ AgentTypes' /\ HistTypes'
  BY <1>2, UseType DEF SetMita, OpTypes, RevTypes, PubTypes, AgentTypes, HistTypes, Counts
<1>5. GenInv' /\ PubInv' /\ RevInv'
  BY <1>3 DEF SetMita, GenInv, PubInv, RevInv, Latest
<1>6. BuildInv'
  <2>1. ASSUME NEW x \in Publishers PROVE BuildOK(pubs[x])'
    <3>1. BuildOK(pubs[x]) /\ Restarted(x)
      BY <1>2 DEF BuildInv
    <3> QED  BY <1>3, <3>1 DEF SetMita, BuildOK, Restarted
  <2> QED  BY <2>1 DEF BuildInv
<1>7. MitaInv'
  <2>1. \A i \in DOMAIN revs : revs[i].doc.mita \in Nat
    BY RevisionType
  <2>2. \A x \in Publishers : pubs[x].doc.mita \in Nat
    BY DEF PubTypes, Publisher, Document
  <2>3. \A i \in DOMAIN revs' : revs'[i].doc.mita <= input'.mita
    BY <1>3, <2>1 DEF SetMita, MitaInv
  <2>4. ASSUME NEW x \in Publishers PROVE MitaOK(pubs[x])'
    <3>1. MitaOK(pubs[x]) /\ Restarted(x) /\ pubs[x].doc.mita \in Nat
      BY <1>2, <2>2 DEF MitaInv
    <3>2. CASE pubs'[x] = pubs[x]
      <4>1. /\ UNCHANGED revs
            /\ pubs[x].doc.mita <= input.mita => pubs[x].doc.mita <= input'.mita
        BY <1>3, <3>1 DEF SetMita
      <4> QED  BY <3>1, <3>2, <4>1 DEF MitaOK
    <3>3. CASE pubs'[x] # pubs[x]
      BY <3>1, <3>3 DEF MitaOK, Restarted
    <3> QED  BY <3>2, <3>3
  <2> QED  BY <2>3, <2>4 DEF SetMita, MitaInv, NeverReverts
<1>8. ScanInv'
  BY <1>2, PublicationAssumption DEF SetMita, ScanInv, ScanOK, Restarted, Publishers
<1> QED  BY <1>3, <1>4, <1>5, <1>6, <1>7, <1>8

-----------------------------------------------------------------------------
(* Steps that leave the database alone and only restart publishers. *)
Quiet ==
  /\ UNCHANGED <<db, agent, actual, msgs, hist>> /\ count' \in [Counts -> Nat]
  /\ pubs' \in [Publishers -> Publisher] /\ \A p \in Publishers : Restarted(p)

LEMMA QuietStep == ASSUME IInv, Quiet PROVE IInv'
<1> USE DEF IInv, TypeOK
<1>1. PubTypes' /\ RevTypes' /\ GenInv' /\ BuildInv' /\ RevInv' /\ PubInv' /\ MitaInv'
      /\ ScanInv'
  BY RestartKeeps DEF Quiet
<1>2. RowTypes' /\ OpTypes' /\ AgentTypes' /\ HistTypes'
  BY DEF Quiet, RowTypes, OpTypes, AgentTypes, HistTypes
<1> QED  BY <1>1, <1>2

LEMMA CountKept == ASSUME IInv, UNCHANGED count PROVE count' \in [Counts -> Nat]
  BY DEF IInv, TypeOK, HistTypes

(* serverRepublish. *)
LEMMA ForcePublishStep ==
  ASSUME IInv, NEW p \in Api, ForcePublish(p)
  PROVE  IInv'
<1>1. p \in Publishers /\ p # "rec"
  BY PublicationAssumption DEF Publishers
<1>2. Started(TRUE, None) \in Publisher /\ Started(TRUE, None).pc = "latest"
  BY IdleType
<1>3. pubs' \in [Publishers -> Publisher] /\ \A x \in Publishers : Restarted(x)
  BY <1>1, <1>2, SetRestarts DEF ForcePublish
<1>4. count' \in [Counts -> Nat]
  BY UseType DEF ForcePublish, Counts, IInv, TypeOK
<1> QED  BY <1>3, <1>4, QuietStep DEF Quiet, ForcePublish

LEMMA RefreshStep ==
  ASSUME IInv, NEW p \in Api, Refresh(p)
  PROVE  IInv'
<1>1. p \in Publishers /\ p # "rec"
  BY PublicationAssumption DEF Publishers
<1>2. Started(FALSE, None) \in Publisher /\ Started(FALSE, None).pc = "latest"
  BY IdleType
<1>3. pubs' \in [Publishers -> Publisher] /\ \A x \in Publishers : Restarted(x)
  BY <1>1, <1>2, SetRestarts DEF Refresh
<1>4. count' \in [Counts -> Nat]
  BY UseType DEF Refresh, Counts, IInv, TypeOK
<1> QED  BY <1>3, <1>4, QuietStep DEF Quiet, Refresh

(* A lost race, a parked intent and a failed build only end the call. *)
LEMMA PublishConflictStep ==
  ASSUME IInv, NEW p \in Publishers, PublishConflict(p)
  PROVE  IInv'
<1>1. pubs' \in [Publishers -> Publisher] /\ \A x \in Publishers : Restarted(x)
  BY ConflictRestarts DEF PublishConflict
<1> QED  BY <1>1, CountKept, QuietStep DEF Quiet, PublishConflict

LEMMA PublishParkedStep ==
  ASSUME IInv, NEW p \in Publishers, PublishParked(p)
  PROVE  IInv'
<1>1. pubs' \in [Publishers -> Publisher] /\ \A x \in Publishers : Restarted(x)
  BY IdleType, SetRestarts DEF PublishParked
<1> QED  BY <1>1, CountKept, QuietStep DEF Quiet, PublishParked

LEMMA BuildFailsStep ==
  ASSUME IInv, NEW p \in Publishers, BuildFails(p)
  PROVE  IInv'
<1>1. pubs[p].pc # "idle" /\ (pubs' = Conflict(p) \/ pubs' = Failed(p))
  BY DEF BuildFails
<1>2. pubs' \in [Publishers -> Publisher] /\ \A x \in Publishers : Restarted(x)
  BY <1>1, ConflictRestarts
<1>3. count' \in [Counts -> Nat]
  BY UseType DEF BuildFails, Counts, IInv, TypeOK
<1> QED  BY <1>2, <1>3, QuietStep DEF Quiet, BuildFails

LEMMA ControllerCrashStep ==
  ASSUME IInv, ControllerCrash
  PROVE  IInv'
<1>1. pubs' \in [Publishers -> Publisher] /\ \A x \in Publishers : Restarted(x)
  BY IdleType DEF ControllerCrash, Restarted
<1>2. count' \in [Counts -> Nat]
  BY UseType DEF ControllerCrash, Counts, IInv, TypeOK
<1> QED  BY <1>1, <1>2, QuietStep DEF Quiet, ControllerCrash

(* Maintenance, the agent and its reports touch neither the inputs nor the
   revisions. *)
LEMMA OutsideStep ==
  ASSUME IInv, UNCHANGED <<input, row, revs, pubs, saved, epoch>>,
         maint' \in BOOLEAN, OpTypes', AgentTypes', applied' \subseteq Nat,
         count' \in [Counts -> Nat]
  PROVE  IInv'
<1> USE DEF IInv, TypeOK
<1>1. \A p \in Publishers : Restarted(p)
  BY DEF PubTypes, Restarted
<1>2. PubTypes' /\ RevTypes' /\ GenInv' /\ BuildInv' /\ RevInv' /\ PubInv' /\ MitaInv'
      /\ ScanInv'
  BY <1>1, RestartKeeps DEF PubTypes
<1>3. RowTypes' /\ HistTypes'
  BY DEF RowTypes, HistTypes
<1> QED  BY <1>2, <1>3

LEMMA MaintenanceStep ==
  ASSUME IInv, BeginMaintenance \/ EndMaintenance
  PROVE  IInv'
<1>1. count' \in [Counts -> Nat]
  BY UseType, CountKept DEF BeginMaintenance, EndMaintenance, Counts, IInv, TypeOK
<1>2. OpTypes' /\ AgentTypes' /\ applied' \subseteq Nat
  BY DEF BeginMaintenance, EndMaintenance, IInv, TypeOK, OpTypes, AgentTypes, HistTypes
<1> QED  BY <1>1, <1>2, OutsideStep DEF BeginMaintenance, EndMaintenance

LEMMA AgentStep ==
  ASSUME IInv, Converge \/ Heartbeat
  PROVE  IInv'
<1> USE DEF IInv, TypeOK
<1>1. Len(revs) \in Nat
  BY DEF RevTypes
<1>2. AgentTypes' /\ applied' \subseteq Nat
  <2>1. agent' \in [rev : Nat, err : BOOLEAN]
    <3>1. agent \in [rev : Nat, err : BOOLEAN]
      BY DEF AgentTypes
    <3>2. [rev |-> Len(revs), err |-> FALSE] \in [rev : Nat, err : BOOLEAN]
      BY <1>1
    <3>3. [agent EXCEPT !.err = TRUE] \in [rev : Nat, err : BOOLEAN]
      BY <3>1
    <3> QED  BY <3>1, <3>2, <3>3 DEF Converge, Heartbeat
  <2>2. msgs' \subseteq [rev : Nat, status : {"applied", "failed"}]
    <3>1. \A r \in Nat, st \in {"applied", "failed"} :
            Send([rev |-> r, status |-> st]) =>
              msgs' \subseteq [rev : Nat, status : {"applied", "failed"}]
      BY DEF Send, AgentTypes
    <3>2. agent.rev \in Nat
      BY DEF AgentTypes
    <3>3. CASE Converge
      BY <1>1, <3>1, <3>3 DEF Converge
    <3>4. CASE Heartbeat
      BY <3>1, <3>2, <3>4 DEF Heartbeat
    <3> QED  BY <3>3, <3>4
  <2>3. actual' \in Nat /\ applied' \subseteq Nat
    BY <1>1 DEF Converge, Heartbeat, AgentTypes, HistTypes
  <2> QED  BY <2>1, <2>2, <2>3 DEF AgentTypes
<1>3. OpTypes' /\ maint' \in BOOLEAN
  BY DEF Converge, Heartbeat, OpTypes, RowTypes
<1>4. count' \in [Counts -> Nat]
  BY CountKept DEF Converge, Heartbeat
<1> QED  BY <1>2, <1>3, <1>4, OutsideStep DEF Converge, Heartbeat

LEMMA ReportStep ==
  ASSUME IInv, NEW m \in msgs, HandleReport(m) \/ LoseReport(m)
  PROVE  IInv'
<1> USE DEF IInv, TypeOK
<1>1. m.rev \in Nat /\ msgs' \subseteq msgs
  BY DEF HandleReport, LoseReport, AgentTypes
<1>2. AgentTypes' /\ applied' \subseteq Nat
  BY <1>1 DEF HandleReport, LoseReport, AgentTypes, HistTypes
<1>3. \A o \in Ops : Completed(ops[o], m) \in Operation \cup {None}
  BY DEF OpTypes, Completed, Operation, Statuses
<1>4. OpTypes' /\ maint' \in BOOLEAN
  BY <1>3 DEF HandleReport, LoseReport, OpTypes, RowTypes
<1>5. count' \in [Counts -> Nat]
  BY CountKept DEF HandleReport, LoseReport
<1> QED  BY <1>2, <1>4, <1>5, OutsideStep DEF HandleReport, LoseReport

-----------------------------------------------------------------------------
(* The reconciliation remembers the row it scanned. *)
LEMMA ScanStep == ASSUME IInv, Scan PROVE IInv'
<1> USE DEF IInv, TypeOK
<1> DEFINE s == [gen |-> row.gen, retry |-> row.retry, attempts |-> row.attempts,
                 epoch |-> epoch]
<1>1. s \in ScanRow /\ ScanOK(s)
  BY PublicationAssumption DEF Scan, ScanRow, ScanOK, RowTypes, HistTypes
<1> DEFINE q == Started(FALSE, s)
<1>2. q \in Publisher /\ q.pc = "latest" /\ q.scan = s
  BY <1>1, IdleType
<1>3. pubs' = [pubs EXCEPT !["rec"] = q] /\ "rec" \in Publishers
  BY DEF Scan, Publishers
<1> HIDE DEF q, s
<1>4. /\ pubs' \in [Publishers -> Publisher] /\ pubs'["rec"] = q
      /\ \A p \in Publishers \ {"rec"} : pubs'[p] = pubs[p]
  BY <1>2, <1>3 DEF PubTypes
<1>5. RowTypes' /\ OpTypes' /\ RevTypes' /\ PubTypes' /\ AgentTypes' /\ HistTypes'
  BY <1>4 DEF Scan, RowTypes, OpTypes, RevTypes, PubTypes, AgentTypes, HistTypes
<1>6. GenInv' /\ RevInv' /\ PubInv'
  BY DEF Scan, GenInv, RevInv, PubInv, Tracked, Latest
<1>7. BuildInv' /\ MitaInv'
  BY <1>2, <1>4 DEF Scan, BuildInv, BuildOK, MitaInv, MitaOK, NeverReverts
<1>8. ScanInv'
  BY <1>1, <1>2, <1>4, PublicationAssumption DEF Scan, ScanInv, ScanOK, Publishers
<1> QED  BY <1>5, <1>6, <1>7, <1>8

(* A read of publish or Build: only the publisher's own record changes, and
   what it has read is still consistent. *)
LEMMA ReadKeeps ==
  ASSUME IInv, NEW p \in Publishers, NEW q \in Publisher,
         pubs' = [pubs EXCEPT ![p] = q], UNCHANGED <<db, agent, actual, msgs, hist, count>>,
         pubs[p].pc \notin {"idle", "failed"},
         q.pc \notin {"idle", "failed"}, q.scan = pubs[p].scan, BuildOK(q), MitaOK(q)
  PROVE  IInv'
<1> USE DEF IInv, TypeOK
<1>1. /\ pubs' \in [Publishers -> Publisher] /\ pubs'[p] = q
      /\ \A x \in Publishers \ {p} : pubs'[x] = pubs[x]
  BY DEF PubTypes
<1>2. RowTypes' /\ OpTypes' /\ RevTypes' /\ PubTypes' /\ AgentTypes' /\ HistTypes'
  BY <1>1 DEF RowTypes, OpTypes, RevTypes, PubTypes, AgentTypes, HistTypes
<1>3. GenInv' /\ RevInv' /\ PubInv'
  BY DEF GenInv, RevInv, PubInv, Tracked, Latest
<1>4. BuildInv'
  BY <1>1 DEF BuildInv, BuildOK
<1>5. MitaInv'
  BY <1>1 DEF MitaInv, MitaOK, NeverReverts
<1>6. ScanInv'
  BY <1>1, PublicationAssumption DEF ScanInv, ScanOK, Publishers
<1> QED  BY <1>2, <1>3, <1>4, <1>5, <1>6

LEMMA ReadLatestStep ==
  ASSUME IInv, NEW p \in Publishers, ReadLatest(p)
  PROVE  IInv'
<1> DEFINE q == [pubs[p] EXCEPT !.pc = "server", !.expected = Len(revs)]
<1>1. pubs[p] \in Publisher /\ Len(revs) \in Nat
  BY DEF IInv, TypeOK, PubTypes, RevTypes
<1>2. q \in Publisher /\ q.pc = "server" /\ q.expected = Len(revs) /\ q.scan = pubs[p].scan
  BY <1>1 DEF Publisher
<1>3. pubs' = [pubs EXCEPT ![p] = q]
  BY DEF ReadLatest
<1> HIDE DEF q
<1>4. BuildOK(q) /\ MitaOK(q)
  BY <1>1, <1>2 DEF BuildOK, MitaOK
<1> QED  BY <1>2, <1>3, <1>4, ReadKeeps DEF ReadLatest

(* The generation is noted before the server row is read. *)
LEMMA ReadServerStep ==
  ASSUME IInv, NEW p \in Publishers, ReadServer(p)
  PROVE  IInv'
<1> DEFINE q == [pubs[p] EXCEPT !.pc = "versions", !.g1 = row.gen, !.doc.host = input.host]
<1>1. pubs[p] \in Publisher /\ row.gen \in Nat /\ input.host \in Bit
  BY DEF IInv, TypeOK, PubTypes, RowTypes
<1>2. /\ q \in Publisher /\ q.pc = "versions" /\ q.g1 = row.gen
      /\ q.doc.host = input.host /\ q.scan = pubs[p].scan /\ q.expected = pubs[p].expected
  BY <1>1 DEF Publisher, Document
<1>3. pubs' = [pubs EXCEPT ![p] = q] /\ pubs[p].pc = "server"
  BY DEF ReadServer
<1> HIDE DEF q
<1>4. BuildOK(q)
  BY <1>1, <1>2 DEF BuildOK
<1>5. MitaOK(q)
  BY <1>2, <1>3 DEF MitaOK, IInv, MitaInv
<1> QED  BY <1>2, <1>3, <1>4, <1>5, ReadKeeps DEF ReadServer

(* The second generation comes with the settings. *)
LEMMA ReadVersionsStep ==
  ASSUME IInv, NEW p \in Publishers, ReadVersions(p)
  PROVE  IInv'
<1> DEFINE q == [pubs[p] EXCEPT !.pc = "nodes", !.doc.gen = row.gen, !.doc.mita = input.mita]
<1>1. pubs[p] \in Publisher /\ row.gen \in Nat /\ input.mita \in Nat
  BY DEF IInv, TypeOK, PubTypes, RowTypes
<1>2. /\ q \in Publisher /\ q.pc = "nodes" /\ q.g1 = pubs[p].g1
      /\ q.doc.host = pubs[p].doc.host /\ q.doc.gen = row.gen /\ q.doc.mita = input.mita
      /\ q.scan = pubs[p].scan /\ q.expected = pubs[p].expected
  BY <1>1 DEF Publisher, Document
<1>3. pubs' = [pubs EXCEPT ![p] = q] /\ pubs[p].pc = "versions"
  BY DEF ReadVersions
<1> HIDE DEF q
<1>4. BuildOK(q)
  BY <1>1, <1>2, <1>3 DEF BuildOK, IInv, BuildInv
<1>5. MitaOK(q)
  BY <1>1, <1>2, <1>3 DEF MitaOK, IInv, MitaInv
<1> QED  BY <1>2, <1>3, <1>4, <1>5, ReadKeeps DEF ReadVersions

(* The nodes are read last; unequal generations start over. *)
LEMMA ReadNodesStep ==
  ASSUME IInv, NEW p \in Publishers, ReadNodes(p)
  PROVE  IInv'
<1>1. pubs[p] \in Publisher /\ input.node \in Bit /\ pubs[p].pc = "nodes"
  BY DEF IInv, TypeOK, PubTypes, RowTypes, ReadNodes
<1>2. CASE ~Bracketed(pubs[p])
  <2>1. pubs' \in [Publishers -> Publisher] /\ \A x \in Publishers : Restarted(x)
    BY <1>1, <1>2, ConflictRestarts DEF ReadNodes
  <2> QED  BY <2>1, CountKept, QuietStep DEF Quiet, ReadNodes
<1>3. CASE Bracketed(pubs[p])
  <2> DEFINE q == [pubs[p] EXCEPT !.pc = "commit", !.doc.node = input.node]
  <2>1. /\ q \in Publisher /\ q.pc = "commit" /\ q.g1 = pubs[p].g1
        /\ q.doc.host = pubs[p].doc.host /\ q.doc.gen = pubs[p].doc.gen
        /\ q.doc.mita = pubs[p].doc.mita /\ q.doc.node = input.node
        /\ q.scan = pubs[p].scan /\ q.expected = pubs[p].expected
    BY <1>1 DEF Publisher, Document
  <2>2. pubs' = [pubs EXCEPT ![p] = q]
    BY <1>3 DEF ReadNodes
  <2> HIDE DEF q
  <2>3. BuildOK(q)
    BY <1>1, <1>3, <2>1 DEF BuildOK, IInv, BuildInv, Bracketed
  <2>4. MitaOK(q)
    BY <1>1, <2>1 DEF MitaOK, IInv, MitaInv
  <2> QED  BY <1>1, <2>1, <2>2, <2>3, <2>4, ReadKeeps DEF ReadNodes
<1> QED  BY <1>2, <1>3

(* A late failure is counted only against the row that was scanned. *)
LEMMA RecordFailureStep == ASSUME IInv, RecordFailure PROVE IInv'
<1> USE DEF IInv, TypeOK
<1>1. "rec" \in Publishers /\ pubs["rec"].pc = "failed" /\ ScanOK(pubs["rec"].scan)
  BY DEF RecordFailure, ScanInv, Publishers
<1>2. pubs' \in [Publishers -> Publisher] /\ \A x \in Publishers : Restarted(x)
  BY <1>1, IdleType, SetRestarts DEF RecordFailure
<1>3. CASE ~OwnFailure(pubs["rec"].scan)
  <2>1. UNCHANGED <<row, ops>>
    BY <1>3 DEF RecordFailure
  <2> QED  BY <1>2, <2>1, CountKept, QuietStep DEF Quiet, RecordFailure
<1>4. CASE OwnFailure(pubs["rec"].scan)
  <2>1. row' = [row EXCEPT !.attempts = @ + 1] /\ row.attempts < MaxAttempts
    BY <1>1, <1>4 DEF RecordFailure, OwnFailure, ScanOK
  <2>2. /\ row' \in [gen : Nat, pub : Nat, attempts : 0..MaxAttempts, retry : Nat]
        /\ row'.gen = row.gen /\ row'.pub = row.pub /\ row'.retry = row.retry
    <3>1. row \in [gen : Nat, pub : Nat, attempts : 0..MaxAttempts, retry : Nat]
      BY DEF RowTypes
    <3>2. row.attempts + 1 \in 0..MaxAttempts
      BY <2>1, <3>1, PublicationAssumption
    <3> QED  BY <2>1, <3>1, <3>2
  <2>3. UNCHANGED <<input, revs, maint, agent, actual, msgs, saved, applied, epoch, count>>
    BY DEF RecordFailure
  <2>4. RowTypes' /\ AgentTypes' /\ HistTypes' /\ RevTypes' /\ PubTypes'
    BY <1>2, <2>2, <2>3 DEF RowTypes, AgentTypes, HistTypes, RevTypes, PubTypes
  <2>5. OpTypes'
    <3>1. \A o \in Ops : ops[o] # None =>
            [ops[o] EXCEPT !.status = "publish_failed"] \in Operation
      BY DEF OpTypes, Operation, Statuses
    <3> QED  BY <1>4, <3>1 DEF RecordFailure, OpTypes
  <2>6. GenInv' /\ RevInv' /\ PubInv'
    BY <2>2, <2>3 DEF GenInv, RevInv, PubInv, Tracked, Latest
  <2>7. BuildInv' /\ MitaInv'
    BY <1>2, <2>2, <2>3 DEF BuildInv, BuildOK, MitaInv, MitaOK, NeverReverts, Restarted
  <2>8. ScanInv'
    BY <1>2, <2>2, <2>3, PublicationAssumption DEF ScanInv, ScanOK, Restarted, Publishers
  <2> QED  BY <2>4, <2>5, <2>6, <2>7, <2>8
<1> QED  BY <1>3, <1>4

(* The transaction of PublishDesired: nothing changed since the generation
   was noted, so the document is what the inputs say. *)
LEMMA PublishStep ==
  ASSUME IInv, NEW p \in Publishers, Publish(p)
  PROVE  IInv'
<1> USE DEF IInv, TypeOK
<1> DEFINE d == pubs[p].doc
           new == [doc |-> d, snap |-> Tracked]
<1>1. /\ d \in Document /\ d.gen = row.gen /\ d.gen \in Nat /\ d.mita \in Nat
      /\ pubs[p].expected = Len(revs)
      /\ d.host = input.host /\ d.node = input.node
      /\ d.mita <= input.mita
      /\ \A i \in DOMAIN revs : revs[i].doc.mita <= d.mita
  <2>1. pubs[p] \in Publisher /\ pubs[p].pc = "commit" /\ BuildOK(pubs[p]) /\ MitaOK(pubs[p])
    BY DEF PubTypes, Publish, BuildInv, MitaInv
  <2>2. d \in Document
    BY <2>1 DEF Publisher
  <2> QED  BY <2>1, <2>2 DEF Document, Publish, SameGeneration, NotOvertaken, BuildOK, MitaOK
<1>2. new \in Revision /\ Matches(new, Tracked) /\ Tracked \in [Fields -> Bit]
  <2>1. Tracked \in [Fields -> Bit] /\ Tracked["host"] = input.host
        /\ Tracked["node"] = input.node
    BY DEF Tracked, Fields, RowTypes, Bit
  <2> QED  BY <1>1, <2>1 DEF Revision, Matches
<1>3. /\ row' \in [gen : Nat, pub : Nat, attempts : 0..MaxAttempts, retry : Nat]
      /\ row'.gen = row.gen /\ row'.pub = row.gen /\ row'.retry = row.retry
  BY DEF Publish, RowTypes
<1>4. pubs' \in [Publishers -> Publisher] /\ \A x \in Publishers : Restarted(x)
  BY IdleType, SetRestarts DEF Publish
<1>5. UNCHANGED <<input, maint, agent, actual, msgs, saved, applied, epoch, count>>
  BY DEF Publish
<1> HIDE DEF d
<1>6. \/ revs' = revs /\ row.pub = row.gen
      \/ revs' = Append(revs, new)
  BY DEF Publish, Reusable, d
<1> HIDE DEF new
<1>7. \/ revs' = revs /\ row.pub = row.gen
      \/ /\ revs' \in Seq(Revision) /\ Len(revs') = Len(revs) + 1
         /\ revs'[Len(revs) + 1] = new /\ \A i \in 1..Len(revs) : revs'[i] = revs[i]
  BY <1>2, <1>6 DEF RevTypes
<1>8. Len(revs) \in Nat /\ DOMAIN revs = 1..Len(revs) /\ revs \in Seq(Revision)
  BY DEF RevTypes
<1>9. RevTypes' /\ DOMAIN revs' = 1..Len(revs')
  BY <1>7, <1>8 DEF RevTypes
<1>10. new.doc = d /\ new.doc.gen = row.gen /\ row.gen \in Nat /\ row.gen >= 1
  BY <1>1 DEF new, GenInv
<1>a. ASSUME NEW i \in DOMAIN revs'
      PROVE  (i \in DOMAIN revs /\ revs'[i] = revs[i]) \/ (i = Len(revs) + 1 /\ revs'[i] = new)
  <2>1. CASE revs' = revs
    BY <2>1
  <2>2. CASE /\ Len(revs') = Len(revs) + 1 /\ revs'[Len(revs) + 1] = new
             /\ \A k \in 1..Len(revs) : revs'[k] = revs[k]
    <3>1. i \in 1..(Len(revs) + 1)
      BY <1>9, <2>2
    <3>2. CASE i = Len(revs) + 1
      BY <2>2, <3>2
    <3>3. CASE i # Len(revs) + 1
      <4>1. i \in 1..Len(revs)
        BY <1>8, <3>1, <3>3
      <4> QED  BY <1>8, <2>2, <4>1
    <3> QED  BY <3>2, <3>3
  <2> QED  BY <1>7, <2>1, <2>2
<1>11. RevInv'
  <2>1. ASSUME NEW i \in DOMAIN revs'
        PROVE  revs'[i].doc.gen \in 1..row'.gen /\ Matches(revs'[i], saved[revs'[i].doc.gen])
    <3>1. CASE i \in DOMAIN revs /\ revs'[i] = revs[i]
      BY <1>3, <3>1 DEF RevInv
    <3>2. CASE revs'[i] = new
      BY <1>2, <1>3, <1>10, <3>2 DEF GenInv
    <3> QED  BY <1>a, <3>1, <3>2
  <2> QED  BY <1>5, <2>1 DEF RevInv, Matches
<1>12. GenInv'
  BY <1>3, <1>5, <1>10 DEF GenInv, Tracked
<1>13. PubInv'
  <2>1. CASE revs' = revs /\ row.pub = row.gen
    BY <1>3, <2>1 DEF PubInv, Latest
  <2>2. CASE Len(revs') = Len(revs) + 1 /\ revs'[Len(revs) + 1] = new
    BY <1>3, <1>8, <1>10, <2>2 DEF PubInv, Latest
  <2> QED  BY <1>7, <2>1, <2>2
<1>14. BuildInv'
  <2>1. ASSUME NEW x \in Publishers PROVE BuildOK(pubs[x])'
    <3>1. BuildOK(pubs[x]) /\ Restarted(x)
      BY <1>4 DEF BuildInv
    <3> QED  BY <1>3, <1>5, <3>1 DEF BuildOK, Restarted
  <2> QED  BY <2>1 DEF BuildInv
<1>15. MitaInv'
  <2>0. \A i \in DOMAIN revs : revs[i].doc.mita \in Nat
    BY RevisionType
  <2>1. ASSUME NEW i \in DOMAIN revs' PROVE revs'[i].doc.mita <= input'.mita
    <3>1. CASE i \in DOMAIN revs /\ revs'[i] = revs[i]
      BY <1>5, <3>1 DEF MitaInv
    <3>2. CASE revs'[i] = new
      BY <1>1, <1>5, <1>10, <3>2
    <3> QED  BY <1>a, <3>1, <3>2
  <2>2. ASSUME NEW i \in DOMAIN revs', NEW j \in DOMAIN revs', i < j
        PROVE  revs'[i].doc.mita <= revs'[j].doc.mita
    <3>1. CASE /\ i \in DOMAIN revs /\ revs'[i] = revs[i]
               /\ j \in DOMAIN revs /\ revs'[j] = revs[j]
      BY <2>2, <3>1 DEF MitaInv, NeverReverts
    <3>2. CASE i \in DOMAIN revs /\ revs'[i] = revs[i] /\ revs'[j] = new
      BY <1>1, <1>10, <3>2
    <3>3. CASE i = Len(revs) + 1 /\ revs'[i] = new
      <4>1. j \in 1..(Len(revs) + 1) /\ j > Len(revs) + 1
        <5>1. Len(revs') = Len(revs) \/ Len(revs') = Len(revs) + 1
          BY <1>7
        <5>2. j \in 1..Len(revs')
          BY <1>9
        <5>3. j \in 1..(Len(revs) + 1)
          BY <1>8, <5>1, <5>2
        <5> QED  BY <1>8, <2>2, <3>3, <5>3
      <4> QED  BY <1>8, <4>1
    <3> QED  BY <1>a, <3>1, <3>2, <3>3
  <2>3. ASSUME NEW x \in Publishers PROVE MitaOK(pubs[x])'
    <3>1. MitaOK(pubs[x]) /\ Restarted(x) /\ pubs[x] \in Publisher /\ pubs[x].expected \in Nat
      BY <1>4 DEF MitaInv, PubTypes, Publisher
    <3>2. CASE pubs'[x] = pubs[x] /\ revs' = revs
      BY <1>5, <3>1, <3>2 DEF MitaOK
    <3>3. CASE pubs'[x] = pubs[x] /\ Len(revs') = Len(revs) + 1
      BY <1>5, <1>8, <3>1, <3>3 DEF MitaOK
    <3>4. CASE pubs'[x] # pubs[x]
      BY <3>1, <3>4 DEF MitaOK, Restarted
    <3> QED  BY <1>7, <3>2, <3>3, <3>4
  <2> QED  BY <2>1, <2>2, <2>3 DEF MitaInv, NeverReverts
<1>16. ScanInv'
  BY <1>3, <1>4, <1>5, PublicationAssumption DEF ScanInv, ScanOK, Restarted, Publishers
<1>17. OpTypes'
  <2>1. Len(revs') \in Nat
    BY <1>9 DEF RevTypes
  <2>2. \A o \in Ops : Attached(ops[o], Len(revs')) \in Operation \cup {None}
    BY <2>1 DEF OpTypes, Attached, Operation, Statuses
  <2> QED  BY <2>2 DEF Publish, OpTypes
<1>18. RowTypes' /\ PubTypes' /\ AgentTypes' /\ HistTypes'
  BY <1>3, <1>4, <1>5 DEF RowTypes, PubTypes, AgentTypes, HistTypes
<1> QED  BY <1>9, <1>11, <1>12, <1>13, <1>14, <1>15, <1>16, <1>17, <1>18
-----------------------------------------------------------------------------
(* A fresh database satisfies the invariant. *)
LEMMA InitStep == Init => IInv
<1> SUFFICES ASSUME Init PROVE IInv
  OBVIOUS
<1>1. RowTypes /\ OpTypes /\ RevTypes /\ AgentTypes /\ HistTypes
  <2>1. RowTypes /\ OpTypes /\ RevTypes
    <3>1. RowTypes
      <4>1. input \in [host : Bit, node : Bit, cli : Bit, mita : Nat]
        BY DEF Init, Bit
      <4>2. row \in [gen : Nat, pub : Nat, attempts : 0..MaxAttempts, retry : Nat]
        <5>1. 0 \in 0..MaxAttempts
          BY PublicationAssumption
        <5> QED  BY <5>1 DEF Init
      <4> QED  BY <4>1, <4>2 DEF Init, RowTypes
    <3>2. OpTypes /\ RevTypes
      BY DEF Init, OpTypes, RevTypes
    <3> QED  BY <3>1, <3>2
  <2>2. AgentTypes
    BY DEF Init, AgentTypes
  <2>3. saved \in Seq([Fields -> Bit])
    <3>1. [f \in Fields |-> 0] \in [Fields -> Bit]
      BY DEF Bit
    <3> QED  BY <3>1 DEF Init
  <2>4. count \in [Counts -> Nat]
    BY DEF Init
  <2> QED  BY <2>1, <2>2, <2>3, <2>4 DEF Init, HistTypes
<1>2. PubTypes
  BY IdleType DEF Init, PubTypes
<1>3. GenInv
  <2>1. Tracked = [f \in Fields |-> 0]
    BY DEF Init, Tracked, Fields
  <2> QED  BY <2>1 DEF Init, GenInv
<1>4. \A p \in Publishers : pubs[p].pc = "idle"
  BY IdleType DEF Init
<1>5. BuildInv /\ ScanInv
  BY <1>4 DEF BuildInv, BuildOK, ScanInv, Publishers
<1>6. RevInv /\ PubInv /\ MitaInv
  BY <1>4 DEF Init, RevInv, PubInv, MitaInv, MitaOK, NeverReverts
<1> QED  BY <1>1, <1>2, <1>3, <1>5, <1>6 DEF IInv, TypeOK

(* Every step keeps the invariant, one case per action. *)
LEMMA NextStep == IInv /\ [Next]_vars => IInv'
<1> SUFFICES ASSUME IInv, [Next]_vars PROVE IInv'
  OBVIOUS
<1>1. CASE UNCHANGED vars
  BY <1>1 DEF IInv, TypeOK, RowTypes, OpTypes, RevTypes, PubTypes, AgentTypes, HistTypes,
     GenInv, BuildInv, BuildOK, RevInv, PubInv, MitaInv, MitaOK, NeverReverts, ScanInv, ScanOK,
     Tracked, Latest
<1>2. CASE \E p \in Api : SetMita(p) \/ Refresh(p) \/ ForcePublish(p)
                         \/ \E f \in Editable : Edit(p, f)
  BY <1>2, SetMitaStep, RefreshStep, ForcePublishStep, EditStep, PublicationAssumption
<1>3. CASE \E o \in Ops : Request(o) \/ Retry(o)
  BY <1>3, RequestStep, RetryStep
<1>4. CASE BeginMaintenance \/ EndMaintenance
  BY <1>4, MaintenanceStep
<1>5. CASE Scan \/ RecordFailure \/ ControllerCrash
  BY <1>5, ScanStep, RecordFailureStep, ControllerCrashStep
<1>6. CASE \E p \in Publishers : PublisherStep(p) \/ BuildFails(p)
  BY <1>6, ReadLatestStep, ReadServerStep, ReadVersionsStep, ReadNodesStep, PublishStep,
     PublishConflictStep, PublishParkedStep, BuildFailsStep DEF PublisherStep
<1>7. CASE Converge \/ Heartbeat
  BY <1>7, AgentStep
<1>8. CASE \E m \in msgs : HandleReport(m) \/ LoseReport(m)
  BY <1>8, ReportStep
<1> QED  BY <1>1, <1>2, <1>3, <1>4, <1>5, <1>6, <1>7, <1>8 DEF Next

(* The generations, the running builds, the revisions and the scanned row
   agree in every reachable state. *)
THEOREM PublicationInvariance == Spec => []IInv
<1> QED  BY InitStep, NextStep, PTL DEF Spec

(* Rows, builds and receipts keep their shape, and neither the publication
   budget (MaxNetworkPublishAttempts) nor the rebuild budget of publish is
   ever exceeded. *)
THEOREM PublicationTypes == Spec => []TypeOK
<1>1. IInv => TypeOK
  BY DEF IInv
<1> QED  BY <1>1, PublicationInvariance, PTL

(* Every revision PublishDesired inserts carries the inputs of exactly the
   generation it names, with the candidate of the same inputs, although
   Build reads them in separate queries between concurrent edits. *)
THEOREM SnapshotsConsistent == Spec => []ConsistentSnapshot
<1>1. IInv => ConsistentSnapshot
  BY DEF IInv, RevInv, ConsistentSnapshot
<1> QED  BY <1>1, PublicationInvariance, PTL

(* A row of server_network_generations that counts as published has a latest
   revision that says what the inputs say. *)
THEOREM PublishedCurrent == Spec => []PublishedIsCurrent
<1>1. ASSUME IInv PROVE PublishedIsCurrent
  <2>1. ASSUME row.pub = row.gen PROVE revs # <<>> /\ Matches(Latest, Tracked)
    <3>1. revs # <<>> /\ Latest.doc.gen = row.gen
      BY <1>1, <2>1 DEF IInv, PubInv
    <3>2. Len(revs) \in DOMAIN revs
      BY <1>1, <3>1 DEF IInv, TypeOK, RevTypes
    <3>3. Matches(Latest, saved[Latest.doc.gen])
      BY <1>1, <3>2 DEF IInv, RevInv, Latest
    <3> QED  BY <1>1, <3>1, <3>3 DEF IInv, GenInv
  <2> QED  BY <2>1 DEF PublishedIsCurrent
<1> QED  BY <1>1, PublicationInvariance, PTL

(* PublishDesired never lets an older build overwrite a newer publication,
   also for a setting that raises no generation. *)
THEOREM PublicationNeverReverts == Spec => []NeverReverts
<1>1. IInv => NeverReverts
  BY DEF IInv, MitaInv
<1> QED  BY <1>1, PublicationInvariance, PTL

(* NetworkPublicationFailed counts a failure only against the budget its own
   scan belonged to: no late failure uses up the budget of a newer edit or
   of an operator's retry. *)
THEOREM BudgetFresh == Spec => FreshBudget
<1> DEFINE Counted == row'.attempts > row.attempts => pubs["rec"].scan.epoch = epoch
<1>1. ASSUME IInv, [Next]_vars PROVE [Counted]_vars
  <2> SUFFICES ASSUME Next PROVE Counted
    BY <1>1
  <2>0. row \in [gen : Nat, pub : Nat, attempts : 0..MaxAttempts, retry : Nat]
    BY <1>1 DEF IInv, TypeOK, RowTypes
  <2>1. CASE RecordFailure
    <3>1. CASE OwnFailure(pubs["rec"].scan)
      BY <1>1, <2>1, <3>1 DEF RecordFailure, OwnFailure, IInv, ScanInv, ScanOK
    <3>2. CASE ~OwnFailure(pubs["rec"].scan)
      <4>1. row' = row
        BY <2>1, <3>2 DEF RecordFailure
      <4> QED  BY <2>0, <4>1
    <3> QED  BY <3>1, <3>2
  <2>2. CASE row'.attempts \in {0, row.attempts}
    BY <2>0, <2>2, PublicationAssumption
  <2>3. CASE \E p \in Api : SetMita(p) \/ Refresh(p) \/ ForcePublish(p)
                         \/ \E f \in Editable : Edit(p, f)
    BY <2>0, <2>2, <2>3 DEF SetMita, Refresh, ForcePublish, Edit, Bump
  <2>4. CASE \E o \in Ops : Request(o) \/ Retry(o)
    BY <2>0, <2>2, <2>4 DEF Request, Retry, Bump
  <2>5. CASE BeginMaintenance \/ EndMaintenance \/ Scan \/ ControllerCrash
    BY <2>2, <2>5 DEF BeginMaintenance, EndMaintenance, Scan, ControllerCrash
  <2>6. CASE \E p \in Publishers : PublisherStep(p) \/ BuildFails(p)
    BY <2>0, <2>2, <2>6 DEF PublisherStep, ReadLatest, ReadServer, ReadVersions, ReadNodes,
       Publish, PublishConflict, PublishParked, BuildFails
  <2>7. CASE Converge \/ Heartbeat \/ \E m \in msgs : HandleReport(m) \/ LoseReport(m)
    BY <2>2, <2>7 DEF Converge, Heartbeat, HandleReport, LoseReport
  <2> QED  BY <2>1, <2>3, <2>4, <2>5, <2>6, <2>7 DEF Next
<1> QED  BY <1>1, PublicationInvariance, PTL DEF Spec, FreshBudget

-----------------------------------------------------------------------------
(* Proofs about the network operations of Publication: what an operator is
   shown of one is so, for every number of operations, publishers, edits,
   retries, failures and reports that are late, lost or repeated. *)
Queued    == {"queued", "publish_failed"}
Waiting   == {"waiting_agent", "apply_failed"}
Delivered == Waiting \cup {"applied"}

(* One operation o under the row w, the revisions v and the applied ones a:
   while it is open it belongs to the current generation, which is
   unpublished as long as it is queued; once it was attached its revision is
   a build of its own generation, newer than its last retry. *)
OpOK(o, w, v, a) ==
  /\ o.gen \in 1..w.gen /\ o.since <= Len(v)
  /\ o.status \in Queued \cup Waiting => o.gen = w.gen
  /\ o.status \in Queued => w.pub # w.gen
  /\ o.status \in Waiting => o.rev = Len(v)
  /\ o.status \in Delivered =>
       o.rev \in DOMAIN v /\ o.rev > o.since /\ v[o.rev].doc.gen = o.gen
  /\ o.status = "applied" => o.rev \in a

OpInv == \A o \in Ops : ops[o] # None => OpOK(ops[o], row, revs, applied)

(* A receipt in flight, and the one the agent would send now, is of a
   revision that was really applied. *)
ReceiptInv ==
  /\ agent.rev > 0 => agent.rev \in applied
  /\ \A m \in msgs : m.status = "applied" => m.rev \in applied

OperationInv == OpInv /\ ReceiptInv

-----------------------------------------------------------------------------
USE DEF db, hist, vars

LEMMA OpRecord ==
  ASSUME IInv, NEW o \in Ops, ops[o] # None
  PROVE  /\ ops[o] \in Operation /\ ops[o].gen \in Nat /\ ops[o].rev \in Nat
         /\ ops[o].since \in Nat /\ ops[o].status \in Statuses
  BY DEF IInv, TypeOK, OpTypes, Operation

LEMMA Numbers ==
  ASSUME IInv
  PROVE  /\ row.gen \in Nat /\ row.pub \in Nat /\ row.gen >= 1 /\ row.pub <= row.gen
         /\ Len(revs) \in Nat /\ DOMAIN revs = 1..Len(revs)
  BY DEF IInv, TypeOK, RowTypes, RevTypes, GenInv

(* Steps that touch neither the operations nor the revisions. *)
LEMMA UntouchedOps ==
  ASSUME OpInv, UNCHANGED <<row, ops, revs>>, applied \subseteq applied'
  PROVE  OpInv'
  BY DEF OpInv, OpOK

(* The triggers close every open operation of an older generation. *)
LEMMA SupersededOK ==
  ASSUME IInv, OpInv, NEW o \in Ops, Superseded(ops[o]) # None,
         row'.gen = row.gen + 1, UNCHANGED <<revs, applied>>
  PROVE  OpOK(Superseded(ops[o]), row', revs', applied')
<1> DEFINE r == Superseded(ops[o])
<1>0. ops[o] # None
  BY DEF Superseded
<1>1. /\ r.gen = ops[o].gen /\ r.since = ops[o].since /\ r.rev = ops[o].rev
      /\ r.status \in {"applied", "superseded"}
      /\ r.status = "applied" => ops[o].status = "applied"
  BY <1>0, OpRecord DEF Superseded, Operation
<1>2. OpOK(ops[o], row, revs, applied) /\ row.gen \in Nat
  BY <1>0, Numbers DEF OpInv
<1> HIDE DEF r
<1>3. r.gen \in 1..row'.gen /\ r.since <= Len(revs')
  BY <1>1, <1>2 DEF OpOK
<1>4. r.status = "applied" =>
        /\ r.rev \in DOMAIN revs' /\ r.rev > r.since
        /\ revs'[r.rev].doc.gen = r.gen /\ r.rev \in applied'
  BY <1>1, <1>2 DEF OpOK, Delivered
<1>5. OpOK(r, row', revs', applied')
  BY <1>1, <1>3, <1>4 DEF OpOK, Queued, Waiting, Delivered
<1> QED  BY <1>5 DEF r

LEMMA EditOps ==
  ASSUME IInv, OpInv, NEW p, NEW f, Edit(p, f)
  PROVE  OpInv'
<1>1. row'.gen = row.gen + 1 /\ UNCHANGED <<revs, applied>>
  BY DEF Edit, Bump, IInv, TypeOK, RowTypes
<1>2. \A o \in Ops : ops'[o] = Superseded(ops[o])
  BY DEF Edit
<1> QED  BY <1>1, <1>2, SupersededOK DEF OpInv

(* A new operation is queued under the generation of its own edit. *)
LEMMA RequestOps ==
  ASSUME IInv, OpInv, NEW x \in Ops, Request(x)
  PROVE  OpInv'
<1>1. row'.gen = row.gen + 1 /\ row'.pub = row.pub /\ UNCHANGED <<revs, applied>>
  BY DEF Request, Bump, IInv, TypeOK, RowTypes
<1>2. ASSUME NEW o \in Ops, ops'[o] # None PROVE OpOK(ops'[o], row', revs', applied')
  <2>1. CASE o = x
    <3> DEFINE r == [gen |-> row'.gen, status |-> "queued", rev |-> 0,
                     retry |-> 0, republish |-> FALSE, since |-> Len(revs)]
    <3>1. ops'[o] = r
      BY <2>1 DEF Request
    <3>2. row'.gen \in 1..row'.gen /\ row'.pub # row'.gen /\ Len(revs) <= Len(revs')
      BY <1>1, Numbers
    <3> QED  BY <3>1, <3>2 DEF OpOK, Queued, Waiting, Delivered
  <2>2. CASE o # x
    <3>1. ops'[o] = Superseded(ops[o])
      BY <2>2 DEF Request
    <3> QED  BY <1>1, <1>2, <3>1, SupersededOK
  <2> QED  BY <2>1, <2>2
<1> QED  BY <1>2 DEF OpInv

(* A retry waits for a revision that does not exist yet. *)
LEMMA RetryOps ==
  ASSUME IInv, OpInv, NEW x \in Ops, Retry(x)
  PROVE  OpInv'
<1>1. /\ row'.gen = row.gen /\ row'.pub = 0 /\ UNCHANGED <<revs, applied>>
      /\ ops[x] # None /\ ops[x].gen = row.gen
  BY DEF Retry, IInv, TypeOK, RowTypes
<1>2. ASSUME NEW o \in Ops, ops'[o] # None PROVE OpOK(ops'[o], row', revs', applied')
  <2>1. CASE o = x
    <3>1. ops'[o] = Retried(ops[o])
      BY <2>1 DEF Retry, IInv, TypeOK, OpTypes
    <3>2. /\ ops'[o].gen = row.gen /\ ops'[o].since = Len(revs)
          /\ ops'[o].status = "queued"
      BY <1>1, <2>1, <3>1, OpRecord DEF Retried, Operation
    <3> QED  BY <1>1, <3>2, Numbers DEF OpOK, Queued, Waiting, Delivered
  <2>2. CASE o # x
    <3>1. ops'[o] = ops[o]
      BY <2>2 DEF Retry, IInv, TypeOK, OpTypes
    <3>2. OpOK(ops[o], row, revs, applied) /\ row'.pub # row'.gen
      BY <1>1, <1>2, <3>1, Numbers DEF OpInv
    <3> QED  BY <1>1, <3>1, <3>2 DEF OpOK
  <2> QED  BY <2>1, <2>2
<1> QED  BY <1>2 DEF OpInv

(* A failed publication only renames what is queued. *)
LEMMA RecordFailureOps ==
  ASSUME IInv, OpInv, RecordFailure
  PROVE  OpInv'
<1>1. /\ row'.gen = row.gen /\ row'.pub = row.pub /\ UNCHANGED <<revs, applied>>
  BY DEF RecordFailure, IInv, TypeOK, RowTypes
<1>2. ASSUME NEW o \in Ops, ops'[o] # None PROVE OpOK(ops'[o], row', revs', applied')
  <2>1. CASE ops'[o] = ops[o]
    BY <1>1, <1>2, <2>1 DEF OpInv, OpOK
  <2>2. CASE /\ ops[o] # None /\ ops[o].status \in Queued
             /\ ops'[o] = [ops[o] EXCEPT !.status = "publish_failed"]
    <3>1. /\ ops'[o].gen = ops[o].gen /\ ops'[o].since = ops[o].since
          /\ ops'[o].status = "publish_failed"
      BY <2>2, OpRecord DEF Operation
    <3>2. OpOK(ops[o], row, revs, applied)
      BY <2>2 DEF OpInv
    <3> QED  BY <1>1, <2>2, <3>1, <3>2 DEF OpOK, Queued, Waiting, Delivered
  <2> QED  BY <2>1, <2>2 DEF RecordFailure, Queued
<1> QED  BY <1>2 DEF OpInv

(* attachNetworkOperations: what is queued or waits for an older revision
   gets the one of this transaction.  An unchanged revision is kept only when
   nothing of this generation is queued. *)
LEMMA PublishOps ==
  ASSUME IInv, OpInv, NEW p \in Publishers, Publish(p)
  PROVE  OpInv'
<1>1. row'.gen = row.gen /\ row'.pub = row.gen /\ UNCHANGED applied
  BY DEF Publish, IInv, TypeOK, RowTypes
<1>2. IInv'
  BY PublishStep
<1>3. \/ revs' = revs /\ row.pub = row.gen
      \/ /\ Len(revs') = Len(revs) + 1
         /\ \A i \in DOMAIN revs : i \in DOMAIN revs' /\ revs'[i] = revs[i]
  <2> DEFINE new == [doc |-> pubs[p].doc, snap |-> Tracked]
  <2>1. (revs' = revs /\ row.pub = row.gen) \/ revs' = Append(revs, new)
    BY DEF Publish, Reusable
  <2> HIDE DEF new
  <2>2. revs \in Seq(Revision)
    BY DEF IInv, TypeOK, RevTypes
  <2> QED  BY <2>1, <2>2
<1>4. /\ Len(revs') \in DOMAIN revs' /\ revs'[Len(revs')].doc.gen = row.gen
      /\ Len(revs') \in Nat /\ Len(revs) \in Nat /\ Len(revs) <= Len(revs')
  BY <1>1, <1>2, <1>3, Numbers DEF IInv, PubInv, Latest, TypeOK, RevTypes
<1>5. ASSUME NEW o \in Ops, ops'[o] # None PROVE OpOK(ops'[o], row', revs', applied')
  <2> DEFINE attaches == /\ ops[o].gen = row.gen
                         /\ \/ ops[o].status \in Queued
                            \/ ops[o].status \in Waiting /\ ops[o].rev # Len(revs')
  <2>0. ops'[o] = Attached(ops[o], Len(revs'))
    BY DEF Publish
  <2>1. ops[o] # None /\ OpOK(ops[o], row, revs, applied)
    BY <1>5, <2>0 DEF Attached, OpInv
  <2>2. CASE attaches
    <3>1. /\ ops'[o].gen = ops[o].gen /\ ops'[o].since = ops[o].since
          /\ ops'[o].status = "waiting_agent" /\ ops'[o].rev = Len(revs')
      BY <2>0, <2>1, <2>2, OpRecord DEF Attached, Queued, Waiting, Operation
    <3>2. Len(revs') = Len(revs) + 1
      <4>1. ops[o].status \in Queued => row.pub # row.gen
        BY <2>1 DEF OpOK
      <4>2. ops[o].status \in Waiting => ops[o].rev = Len(revs)
        BY <2>1 DEF OpOK
      <4> QED  BY <1>3, <2>2, <4>1, <4>2
    <3>3. ops[o].since \in Nat /\ ops[o].since <= Len(revs) /\ ops[o].gen \in 1..row.gen
      BY <2>1, OpRecord DEF OpOK
    <3> QED  BY <1>1, <1>4, <2>2, <3>1, <3>2, <3>3 DEF OpOK, Queued, Waiting, Delivered
  <2>3. CASE ~attaches
    <3>1. ops'[o] = ops[o]
      BY <2>0, <2>3 DEF Attached, Queued, Waiting
    <3>2. ops[o].status \notin Queued /\ (ops[o].status \in Waiting => ops[o].rev = Len(revs'))
      BY <2>1, <2>3 DEF OpOK
    <3>3. /\ ops[o].since \in Nat /\ ops[o].since <= Len(revs')
          /\ ops[o].status \in Delivered =>
               ops[o].rev \in DOMAIN revs' /\ revs'[ops[o].rev].doc.gen = ops[o].gen
      BY <1>3, <1>4, <2>1, OpRecord DEF OpOK
    <3> HIDE DEF attaches
    <3> QED  BY <1>1, <2>1, <3>1, <3>2, <3>3 DEF OpOK
  <2> QED  BY <2>2, <2>3
<1> QED  BY <1>5 DEF OpInv

(* RecordNetworkApply: a receipt is of a revision that was applied, and it
   completes only the operation that waits for exactly that revision. *)
LEMMA HandleReportOps ==
  ASSUME IInv, OpInv, ReceiptInv, NEW m \in msgs, HandleReport(m)
  PROVE  OpInv'
<1>1. UNCHANGED <<row, revs, applied>>
  BY DEF HandleReport
<1>2. m.status = "applied" => m.rev \in applied
  BY DEF ReceiptInv
<1>3. ASSUME NEW o \in Ops, ops'[o] # None PROVE OpOK(ops'[o], row', revs', applied')
  <2>1. CASE ops'[o] = ops[o]
    BY <1>1, <1>3, <2>1 DEF OpInv
  <2>2. CASE /\ ops[o] # None /\ ops[o].rev = m.rev /\ ops[o].status \in Waiting
             /\ ops'[o] = [ops[o] EXCEPT !.status = IF m.status = "applied" THEN "applied"
                                                    ELSE "apply_failed"]
    <3>1. /\ ops'[o].gen = ops[o].gen /\ ops'[o].since = ops[o].since
          /\ ops'[o].rev = ops[o].rev
          /\ ops'[o].status = IF m.status = "applied" THEN "applied" ELSE "apply_failed"
      BY <2>2, OpRecord DEF Operation
    <3>2. OpOK(ops[o], row, revs, applied)
      BY <2>2 DEF OpInv
    <3> QED  BY <1>1, <1>2, <2>2, <3>1, <3>2 DEF OpOK, Queued, Waiting, Delivered
  <2>3. ops'[o] = ops[o] \/ ops'[o] = Completed(ops[o], m)
    BY DEF HandleReport
  <2> QED  BY <2>1, <2>2, <2>3 DEF Completed, Confirms, Waiting
<1> QED  BY <1>3 DEF OpInv

-----------------------------------------------------------------------------
(* The agent reports only what it applied. *)
LEMMA ConvergeReceipts ==
  ASSUME IInv, ReceiptInv, Converge
  PROVE  ReceiptInv' /\ applied \subseteq applied'
<1>1. agent \in [rev : Nat, err : BOOLEAN]
  BY DEF IInv, TypeOK, AgentTypes
<1>2. CASE /\ agent' = [rev |-> Len(revs), err |-> FALSE]
           /\ applied' = applied \cup {Len(revs)}
           /\ msgs' = msgs \cup {[rev |-> Len(revs), status |-> "applied"]}
  BY <1>2 DEF ReceiptInv
<1>3. CASE /\ agent' = [agent EXCEPT !.err = TRUE] /\ UNCHANGED applied
           /\ msgs' = msgs \cup {[rev |-> Len(revs), status |-> "failed"]}
  BY <1>1, <1>3 DEF ReceiptInv
<1> QED  BY <1>2, <1>3 DEF Converge, Send

LEMMA HeartbeatReceipts ==
  ASSUME ReceiptInv, Heartbeat
  PROVE  ReceiptInv'
<1>1. /\ UNCHANGED <<agent, applied>> /\ agent.rev > 0
      /\ msgs' = msgs \cup {[rev |-> agent.rev,
                             status |-> IF agent.err THEN "failed" ELSE "applied"]}
  BY DEF Heartbeat, Send
<1> QED  BY <1>1 DEF ReceiptInv

LEMMA FewerReceipts ==
  ASSUME ReceiptInv, msgs' \subseteq msgs, UNCHANGED <<agent, applied>>
  PROVE  ReceiptInv'
  BY DEF ReceiptInv

(* Every step keeps what is known of the operations and the receipts. *)
LEMMA OperationStep == IInv /\ OperationInv /\ [Next]_vars => OperationInv'
<1> SUFFICES ASSUME IInv, OperationInv, [Next]_vars PROVE OperationInv'
  OBVIOUS
<1> USE DEF OperationInv
<1>1. CASE UNCHANGED <<row, ops, revs, agent, msgs, applied>>
  BY <1>1, UntouchedOps, FewerReceipts
<1>2. CASE \E p \in Api : SetMita(p) \/ Refresh(p) \/ ForcePublish(p)
  BY <1>1, <1>2 DEF SetMita, Refresh, ForcePublish
<1>3. ASSUME NEW p \in Api, NEW f \in Editable, Edit(p, f) PROVE OperationInv'
  <2>1. UNCHANGED <<agent, applied, msgs>>
    BY <1>3 DEF Edit
  <2> QED  BY <1>3, <2>1, EditOps, FewerReceipts
<1>4. ASSUME NEW o \in Ops, Request(o) PROVE OperationInv'
  <2>1. UNCHANGED <<agent, applied, msgs>>
    BY <1>4 DEF Request
  <2> QED  BY <1>4, <2>1, RequestOps, FewerReceipts
<1>5. ASSUME NEW o \in Ops, Retry(o) PROVE OperationInv'
  <2>1. UNCHANGED <<agent, applied, msgs>>
    BY <1>5 DEF Retry
  <2> QED  BY <1>5, <2>1, RetryOps, FewerReceipts
<1>6. CASE BeginMaintenance \/ EndMaintenance \/ Scan \/ ControllerCrash
  BY <1>1, <1>6 DEF BeginMaintenance, EndMaintenance, Scan, ControllerCrash
<1>7. CASE RecordFailure
  <2>1. UNCHANGED <<agent, applied, msgs>>
    BY <1>7 DEF RecordFailure
  <2> QED  BY <1>7, <2>1, RecordFailureOps, FewerReceipts
<1>8. ASSUME NEW p \in Publishers, PublisherStep(p) \/ BuildFails(p) PROVE OperationInv'
  <2>1. CASE Publish(p)
    <3>1. UNCHANGED <<agent, applied, msgs>>
      BY <2>1 DEF Publish
    <3> QED  BY <2>1, <3>1, PublishOps, FewerReceipts
  <2>2. CASE ~Publish(p)
    BY <1>1, <1>8, <2>2 DEF PublisherStep, ReadLatest, ReadServer, ReadVersions, ReadNodes,
       PublishConflict, PublishParked, BuildFails
  <2> QED  BY <2>1, <2>2
<1>9. CASE Converge
  <2>1. UNCHANGED <<row, ops, revs>>
    BY <1>9 DEF Converge
  <2> QED  BY <1>9, <2>1, ConvergeReceipts, UntouchedOps
<1>10. CASE Heartbeat
  <2>1. UNCHANGED <<row, ops, revs, applied>>
    BY <1>10 DEF Heartbeat
  <2> QED  BY <1>10, <2>1, HeartbeatReceipts, UntouchedOps
<1>11. ASSUME NEW m \in msgs, HandleReport(m) PROVE OperationInv'
  <2>1. UNCHANGED <<agent, applied>> /\ msgs' \subseteq msgs
    BY <1>11 DEF HandleReport
  <2> QED  BY <1>11, <2>1, HandleReportOps, FewerReceipts
<1>12. ASSUME NEW m \in msgs, LoseReport(m) PROVE OperationInv'
  <2>1. UNCHANGED <<row, ops, revs, agent, applied>> /\ msgs' \subseteq msgs
    BY <1>12 DEF LoseReport
  <2> QED  BY <2>1, UntouchedOps, FewerReceipts
<1> QED  BY <1>1, <1>2, <1>3, <1>4, <1>5, <1>6, <1>7, <1>8, <1>9, <1>10, <1>11, <1>12
         DEF Next

LEMMA OperationStart == Init => OperationInv
  BY DEF Init, OperationInv, OpInv, ReceiptInv

(* The operations, the receipts and the agent agree in every reachable
   state. *)
THEOREM OperationInvariance == Spec => []OperationInv
<1> QED  BY OperationStart, OperationStep, PublicationInvariance, PTL DEF Spec

(* What an operator is shown of a network operation is so, for any number of
   operations: it is applied only when the agent applied a revision built from
   its own edit after its last retry, and what waits waits for the latest
   revision, the only one the agent can still fetch (attachNetworkOperations,
   RecordNetworkApply, RetryNetworkOperation, the triggers). *)
THEOREM OperationsAreHonest == Spec => []OperationsHonest
<1>1. ASSUME IInv, OpInv PROVE OperationsHonest
  <2>1. ASSUME NEW o \in Ops, ops[o] # None, ops[o].status = "applied"
        PROVE  /\ ops[o].rev \in applied /\ ops[o].rev > ops[o].since
               /\ Matches(revs[ops[o].rev], saved[ops[o].gen])
    <3>1. OpOK(ops[o], row, revs, applied)
      BY <1>1, <2>1 DEF OpInv
    <3>2. /\ ops[o].rev \in DOMAIN revs /\ ops[o].rev > ops[o].since
          /\ revs[ops[o].rev].doc.gen = ops[o].gen /\ ops[o].rev \in applied
      BY <2>1, <3>1 DEF OpOK, Delivered
    <3>3. Matches(revs[ops[o].rev], saved[revs[ops[o].rev].doc.gen])
      BY <1>1, <3>2 DEF IInv, RevInv
    <3> QED  BY <3>2, <3>3
  <2>2. WaitsForLatest
    BY <1>1 DEF OpInv, OpOK, WaitsForLatest, Waiting
  <2> QED  BY <2>1, <2>2 DEF OperationsHonest, AppliedIsReal
<1> QED  BY <1>1, OperationInvariance, PublicationInvariance, PTL DEF OperationInv
=============================================================================
