-------------------------- MODULE ControllerProofs --------------------------
(***************************************************************************)
(* Proofs about the two ways to forward traffic through a second host,     *)
(* access routes (Routes) and managed transits (Transit): for any ports    *)
(* and any number of edits, retries, failures and changes of readiness,    *)
(* both open their far end first and close it last, and leave nothing      *)
(* behind.  And about one server of the controller (Fleet): its quota,     *)
(* its agent's enrolment and its ports.                                    *)
(***************************************************************************)
EXTENDS MCController, Fleet, SequenceTheorems, TLAPS

-----------------------------------------------------------------------------
(* A server of the outbox with documents of some set. *)
Server(D) ==
  [dirty : BOOLEAN, maint : BOOLEAN, doc : D, published : BOOLEAN, run : D, current : BOOLEAN,
   failed : BOOLEAN, seen : BOOLEAN, err : BOOLEAN]

(* What is current runs, and only what is current was reported so. *)
Receipts(sv) == (sv.current => sv.published /\ sv.run = sv.doc) /\ (sv.seen => sv.current)
-----------------------------------------------------------------------------
EntryDocs   == [TNodes -> Outlets] \cup {None}
LandingDocs == BOOLEAN \cup {None}
TEntry   == tsrv["entry"]
TLanding == tsrv["landing"]

TransitTyped ==
  /\ prof \in [Profiles -> [on : BOOLEAN] \cup {None}]
  /\ bind \in [TNodes -> Profiles \cup {None}]
  /\ transit \in [stage : TransitStages, hidden : BOOLEAN] \cup {None}
  /\ lnode \in {"none", "live", "revoked"}
  /\ tsrv = [s \in TServers |-> tsrv[s]]
  /\ TEntry \in Server(EntryDocs) /\ TLanding \in Server(LandingDocs)
  /\ meter \in [held : BOOLEAN, told : BOOLEAN, beat : BOOLEAN, restarted : BOOLEAN]
  /\ worker \in DOMAIN Successor \cup {None}

(* Documents: what nothing waits to replace is what the rows say. *)
TransitServerOK(s) ==
  /\ Receipts(tsrv[s])
  /\ tsrv[s].published <=> tsrv[s].doc # None
  /\ tsrv[s].published /\ ~tsrv[s].dirty => tsrv[s].doc = TransitDoc(s)

(* A document that sends a node through the transit. *)
Leads(d)    == d # None /\ \E n \in TNodes : d[n] = "tp"
FarEndUp    == TLanding.run = TRUE /\ TLanding.doc = TRUE
FarEndDown  == TLanding.run # TRUE /\ TLanding.doc # TRUE
AtStage(S)  == transit # None /\ transit.stage \in S

TransitStageOK ==
  /\ transit = None => lnode = "none" /\ prof["tp"] = None /\ FarEndDown /\ ~meter.held
  /\ Managed => prof["tp"] # None /\ bind["node"] = "tp"
  /\ AtStage({"pending_landing", "pending_entry", "applied", "stopping_entry"}) => lnode = "live"
  /\ AtStage({"pending_entry", "applied"}) => prof["tp"].on /\ FarEndUp
  /\ AtStage({"applied"}) => /\ TEntry.run # None /\ TEntry.run["node"] = "tp"
                             /\ TEntry.doc # None /\ TEntry.doc["node"] = "tp"
  /\ AtStage({"stopping_landing"}) => lnode = "revoked"
  /\ AtStage({"retired"}) => lnode = "none" /\ FarEndDown /\ (meter.held => meter.restarted)
  /\ prof["tp"] # None /\ prof["tp"].on => AtStage({"pending_entry", "applied"})

TransitInv ==
  /\ TransitTyped /\ NoDanglingBinding /\ TransitStageOK
  /\ \A s \in TServers : TransitServerOK(s)
  /\ worker # None => transit # None
  /\ Leads(TEntry.doc) \/ Leads(TEntry.run) => lnode = "live" /\ FarEndUp
  /\ meter.held /\ ~meter.told /\ ~meter.restarted => TLanding.run = TRUE /\ ~meter.beat

-----------------------------------------------------------------------------
(* What each operation of the outbox does to a server. *)
LEMMA BumpedServer ==
  ASSUME NEW D, NEW sv \in Server(D), Receipts(sv)
  PROVE  /\ Bumped(sv) \in Server(D) /\ Receipts(Bumped(sv)) /\ Bumped(sv).dirty = TRUE
         /\ Bumped(sv).doc = sv.doc /\ Bumped(sv).run = sv.run /\ Bumped(sv).published = sv.published
  BY DEF Bumped, Server, Receipts

LEMMA PublishedServer ==
  ASSUME NEW D, NEW sv \in Server(D), NEW d \in D, Receipts(sv)
  PROVE  /\ Published(sv, d) \in Server(D) /\ Receipts(Published(sv, d)) /\ Published(sv, d).doc = d
         /\ Published(sv, d).run = sv.run /\ Published(sv, d).published = TRUE
  BY DEF Published, Server, Receipts

LEMMA AppliedServer ==
  ASSUME NEW D, NEW sv \in Server(D), Receipts(sv), sv.published
  PROVE  /\ Applied(sv) \in Server(D) /\ Receipts(Applied(sv)) /\ Applied(sv).dirty = sv.dirty
         /\ Applied(sv).doc = sv.doc /\ Applied(sv).run = sv.doc /\ Applied(sv).published = sv.published
  BY DEF Applied, Server, Receipts

(* A step that touches neither documents nor what waits to be published. *)
SameDocuments(sv, new) ==
  new.dirty = sv.dirty /\ new.doc = sv.doc /\ new.run = sv.run /\ new.published = sv.published

LEMMA QuietServer ==
  ASSUME NEW D, NEW sv \in Server(D), Receipts(sv), NEW new,
         \/ new = ApplyFails(sv) \/ new = Reported(sv)
         \/ new = [sv EXCEPT !.maint = TRUE] \/ new = [sv EXCEPT !.maint = FALSE]
  PROVE  new \in Server(D) /\ Receipts(new) /\ SameDocuments(sv, new)
  BY DEF ApplyFails, Reported, Server, Receipts, SameDocuments

LEMMA NoneIsNothing ==
  /\ None # "tp" /\ None # "ap" /\ None # TRUE /\ None # FALSE
  /\ \A b \in BOOLEAN : [on |-> b] # None
  /\ \A st \in TransitStages, b \in BOOLEAN : [stage |-> st, hidden |-> b] # None
  /\ \A d \in [TNodes -> Outlets] : d # None
  /\ \A st \in TransitStages : st # None
<1>1. \A b \in BOOLEAN : [on |-> b] \in [on : BOOLEAN]
  OBVIOUS
<1>2. \A st \in TransitStages, b \in BOOLEAN :
        [stage |-> st, hidden |-> b] \in [stage : TransitStages, hidden : BOOLEAN]
  OBVIOUS
<1>3. None # "tp" /\ None # "ap" /\ \A st \in TransitStages : st # None
  BY TransitAssumption DEF Profiles
<1>4. None # TRUE /\ None # FALSE
  BY TransitAssumption, Zenon
<1>5. \A b \in BOOLEAN : [on |-> b] # None
  BY <1>1, TransitAssumption, Zenon
<1>6. \A st \in TransitStages, b \in BOOLEAN : [stage |-> st, hidden |-> b] # None
  BY <1>2, TransitAssumption, Zenon
<1>7. \A d \in [TNodes -> Outlets] : d # None
  BY TransitAssumption, Zenon
<1> QED  BY <1>3, <1>4, <1>5, <1>6, <1>7

(* The document of the entry leads through the transit only if its profile is
   enabled. *)
LEMMA EntryDocument ==
  ASSUME TransitTyped, NoDanglingBinding
  PROVE  /\ TransitDoc("entry") \in [TNodes -> Outlets]
         /\ \A n \in TNodes : TransitDoc("entry")[n] = Egress(n)
         /\ Leads(TransitDoc("entry")) => prof["tp"] # None /\ prof["tp"].on
         /\ bind["node"] = "tp" /\ prof["tp"].on => TransitDoc("entry")["node"] = "tp"
<1>1. TransitDoc("entry") = [n \in TNodes |-> Egress(n)]
  BY DEF TransitDoc
<1>2. \A n \in TNodes : bind[n] = None \/ (bind[n] \in Profiles /\ prof[bind[n]] # None)
  BY DEF TransitTyped, NoDanglingBinding
<1>3. \A n \in TNodes : /\ Egress(n) \in Outlets
                        /\ Egress(n) = "tp" => prof["tp"] # None /\ prof["tp"].on
  BY <1>2 DEF Egress, Outlets, Profiles
<1>4. bind["node"] = "tp" /\ prof["tp"].on => Egress("node") = "tp"
  BY NoneIsNothing DEF Egress
<1> QED  BY <1>1, <1>3, <1>4 DEF Leads, TNodes

LEMMA LandingDocument ==
  ASSUME TransitTyped
  PROVE  /\ TransitDoc("landing") \in BOOLEAN
         /\ TransitDoc("landing") = TRUE <=> lnode = "live"
  BY DEF TransitDoc

(* The generation triggers leave the documents alone. *)
LEMMA RowsFrame ==
  ASSUME TransitInv, NEW S \in SUBSET TServers, BumpAt(S),
         \A s \in TServers \ S : TransitDoc(s)' = TransitDoc(s)
  PROVE  /\ tsrv' = [s \in TServers |-> tsrv'[s]]
         /\ TEntry' \in Server(EntryDocs) /\ TLanding' \in Server(LandingDocs)
         /\ TEntry'.doc = TEntry.doc /\ TEntry'.run = TEntry.run
         /\ TLanding'.doc = TLanding.doc /\ TLanding'.run = TLanding.run
         /\ \A s \in TServers : TransitServerOK(s)'
<1>1. \A s \in TServers : tsrv'[s] = IF s \in S THEN Bumped(tsrv[s]) ELSE tsrv[s]
  BY DEF BumpAt
<1>2. "entry" \in TServers /\ "landing" \in TServers /\ \A s \in TServers : s = "entry" \/ s = "landing"
  BY DEF TServers
<1>3. TEntry \in Server(EntryDocs) /\ TLanding \in Server(LandingDocs)
      /\ Receipts(TEntry) /\ Receipts(TLanding)
  BY <1>2 DEF TransitInv, TransitTyped, TransitServerOK, TEntry, TLanding
<1>4. /\ TEntry' \in Server(EntryDocs) /\ TEntry'.doc = TEntry.doc /\ TEntry'.run = TEntry.run
      /\ Receipts(TEntry') /\ TEntry'.published = TEntry.published
      /\ ~TEntry'.dirty => ~TEntry.dirty /\ "entry" \notin S
  <2>1. CASE "entry" \in S
    <3>1. TEntry' = Bumped(TEntry)
      BY <1>1, <1>2, <2>1 DEF TEntry
    <3> QED  BY <3>1, <1>3, <2>1, BumpedServer
  <2>2. CASE "entry" \notin S
    <3>1. TEntry' = TEntry
      BY <1>1, <1>2, <2>2 DEF TEntry
    <3> QED  BY <3>1, <1>3, <2>2
  <2> QED  BY <2>1, <2>2
<1>5. /\ TLanding' \in Server(LandingDocs) /\ TLanding'.doc = TLanding.doc /\ TLanding'.run = TLanding.run
      /\ Receipts(TLanding') /\ TLanding'.published = TLanding.published
      /\ ~TLanding'.dirty => ~TLanding.dirty /\ "landing" \notin S
  <2>1. CASE "landing" \in S
    <3>1. TLanding' = Bumped(TLanding)
      BY <1>1, <1>2, <2>1 DEF TLanding
    <3> QED  BY <3>1, <1>3, <2>1, BumpedServer
  <2>2. CASE "landing" \notin S
    <3>1. TLanding' = TLanding
      BY <1>1, <1>2, <2>2 DEF TLanding
    <3> QED  BY <3>1, <1>3, <2>2
  <2> QED  BY <2>1, <2>2
<1>6. tsrv' = [s \in TServers |-> tsrv'[s]]
  BY DEF BumpAt
<1>7. TransitServerOK("entry")'
  <2>1. TransitServerOK("entry") /\ ("entry" \notin S => TransitDoc("entry")' = TransitDoc("entry"))
    BY <1>2 DEF TransitInv
  <2> HIDE DEF TransitDoc
  <2> QED  BY <2>1, <1>4 DEF TransitServerOK, TEntry
<1>8. TransitServerOK("landing")'
  <2>1. TransitServerOK("landing") /\ ("landing" \notin S => TransitDoc("landing")' = TransitDoc("landing"))
    BY <1>2 DEF TransitInv
  <2> QED  BY <2>1, <1>5 DEF TransitServerOK, TLanding
<1> QED  BY <1>2, <1>4, <1>5, <1>6, <1>7, <1>8

(* A step of one server, the rows staying as they are: its document is the
   old one or the one that the rows describe, and it runs what it ran or its
   document. *)
LEMMA ServerFrame ==
  ASSUME TransitInv, UNCHANGED <<prof, bind, transit, lnode, worker>>,
         NEW s \in TServers, NEW sv, tsrv' = [tsrv EXCEPT ![s] = sv],
         s = "entry" => sv \in Server(EntryDocs),
         s = "landing" => sv \in Server(LandingDocs),
         Receipts(sv), sv.published <=> sv.doc # None,
         sv.published /\ ~sv.dirty => sv.doc = TransitDoc(s),
         sv.doc = tsrv[s].doc \/ sv.doc = TransitDoc(s),
         sv.run = tsrv[s].run \/ (sv.run = tsrv[s].doc /\ sv.doc = tsrv[s].doc),
         meter' \in [held : BOOLEAN, told : BOOLEAN, beat : BOOLEAN, restarted : BOOLEAN],
         meter'.held => meter.held \/ TLanding.doc = TRUE,
         meter.restarted => meter'.restarted,
         meter'.held /\ ~meter'.told /\ ~meter'.restarted => TLanding'.run = TRUE /\ ~meter'.beat
  PROVE  TransitInv'
<1>1. /\ TransitTyped /\ NoDanglingBinding /\ TransitStageOK
      /\ \A q \in TServers : TransitServerOK(q)
      /\ worker # None => transit # None
      /\ Leads(TEntry.doc) \/ Leads(TEntry.run) => lnode = "live" /\ FarEndUp
  BY DEF TransitInv
<1>2. /\ tsrv' = [q \in TServers |-> tsrv'[q]] /\ tsrv'[s] = sv
      /\ \A q \in TServers \ {s} : tsrv'[q] = tsrv[q]
  BY <1>1 DEF TransitTyped
<1>3. s = "entry" \/ s = "landing"
  BY DEF TServers
<1>4. NoDanglingBinding' /\ (worker' # None => transit' # None)
  BY <1>1 DEF NoDanglingBinding
<1>5. TransitTyped'
  BY <1>1, <1>2, <1>3 DEF TransitTyped, TEntry, TLanding, TServers
<1>6. \A q \in TServers : TransitDoc(q)' = TransitDoc(q)
  BY DEF TransitDoc, Egress
<1>7. \A q \in TServers : TransitServerOK(q)'
  BY <1>1, <1>2, <1>6 DEF TransitServerOK
<1>8. CASE s = "entry"
  <2>1. TLanding' = TLanding /\ TEntry' = sv
    BY <1>2, <1>8 DEF TLanding, TEntry, TServers
  <2>2. /\ FarEndUp' <=> FarEndUp
        /\ FarEndDown' <=> FarEndDown
        /\ Managed' <=> Managed
        /\ \A S : AtStage(S)' <=> AtStage(S)
    BY <2>1 DEF FarEndUp, FarEndDown, Managed, AtStage
  <2>3. TransitDoc("entry") # None
    BY <1>1, EntryDocument, NoneIsNothing
  <2>4. AtStage({"applied"}) => /\ TEntry'.run # None /\ TEntry'.run["node"] = "tp"
                                /\ TEntry'.doc # None /\ TEntry'.doc["node"] = "tp"
    <3> SUFFICES ASSUME AtStage({"applied"})
                 PROVE  /\ TEntry'.run # None /\ TEntry'.run["node"] = "tp"
                        /\ TEntry'.doc # None /\ TEntry'.doc["node"] = "tp"
      OBVIOUS
    <3>1. Managed /\ AtStage({"pending_entry", "applied"})
      BY DEF AtStage, Managed
    <3>2. /\ TEntry.run # None /\ TEntry.run["node"] = "tp"
          /\ TEntry.doc # None /\ TEntry.doc["node"] = "tp"
          /\ bind["node"] = "tp" /\ prof["tp"].on
      BY <1>1, <3>1 DEF TransitStageOK
    <3>3. TransitDoc("entry")["node"] = "tp"
      BY <3>2, <1>1, EntryDocument
    <3> QED  BY <1>8, <2>1, <2>3, <3>2, <3>3 DEF TEntry
  <2>5. TransitStageOK'
    <3>1. FarEndDown /\ meter'.held => meter.held
      BY DEF FarEndDown
    <3> HIDE DEF AtStage, Managed, FarEndUp, FarEndDown
    <3> QED  BY <1>1, <2>2, <2>4, <3>1 DEF TransitStageOK
  <2>6. Leads(TEntry'.doc) \/ Leads(TEntry'.run) => lnode' = "live" /\ FarEndUp'
    <3>1. Leads(TransitDoc("entry")) => AtStage({"pending_entry", "applied"})
      BY <1>1, EntryDocument DEF TransitStageOK
    <3>2. AtStage({"pending_entry", "applied"}) => lnode = "live" /\ FarEndUp
      BY <1>1 DEF TransitStageOK, AtStage
    <3>3. Leads(TEntry'.doc) => Leads(TEntry.doc) \/ Leads(TransitDoc("entry"))
      BY <1>8, <2>1 DEF TEntry
    <3>4. Leads(TEntry'.run) => Leads(TEntry.doc) \/ Leads(TEntry.run)
      BY <1>8, <2>1 DEF TEntry
    <3> QED  BY <1>1, <2>2, <3>1, <3>2, <3>3, <3>4
  <2> QED  BY <1>4, <1>5, <1>7, <2>5, <2>6 DEF TransitInv
<1>9. CASE s = "landing"
  <2>1. TLanding' = sv /\ TEntry' = TEntry
    BY <1>2, <1>9 DEF TLanding, TEntry, TServers
  <2>2. (lnode = "live" /\ FarEndUp => FarEndUp') /\ (lnode # "live" /\ FarEndDown => FarEndDown')
    BY <1>1, <1>9, <2>1, LandingDocument DEF FarEndUp, FarEndDown, TLanding
  <2>3. TransitStageOK'
    <3>1. /\ Managed' <=> Managed
          /\ \A S : AtStage(S)' <=> AtStage(S)
      BY DEF Managed, AtStage
    <3>2. FarEndDown /\ meter'.held => meter.held
      BY DEF FarEndDown
    <3>3. AtStage({"pending_entry", "applied"}) => lnode = "live"
      BY <1>1 DEF TransitStageOK, AtStage
    <3> HIDE DEF AtStage, Managed, FarEndUp, FarEndDown
    <3> QED  BY <1>1, <2>1, <2>2, <3>1, <3>2, <3>3 DEF TransitStageOK
  <2>4. Leads(TEntry'.doc) \/ Leads(TEntry'.run) => lnode' = "live" /\ FarEndUp'
    BY <1>1, <2>1, <2>2
  <2> QED  BY <1>4, <1>5, <1>7, <2>3, <2>4 DEF TransitInv
<1> QED  BY <1>3, <1>8, <1>9

(* A server, as the frame above wants it. *)
LEMMA ServerFacts ==
  ASSUME TransitInv, NEW s \in TServers
  PROVE  /\ s = "entry" => tsrv[s] \in Server(EntryDocs)
         /\ s = "landing" => tsrv[s] \in Server(LandingDocs)
         /\ tsrv[s] \in Server(EntryDocs) \/ tsrv[s] \in Server(LandingDocs)
         /\ s = "entry" => TransitDoc(s) \in EntryDocs
         /\ s = "landing" => TransitDoc(s) \in LandingDocs
         /\ TransitDoc(s) # None
         /\ TransitServerOK(s)
<1>1. TransitTyped /\ NoDanglingBinding
  BY DEF TransitInv
<1>2. s = "entry" \/ s = "landing"
  BY DEF TServers
<1>3. TransitServerOK(s)
  BY DEF TransitInv
<1>4. /\ s = "entry" => tsrv[s] \in Server(EntryDocs)
      /\ s = "landing" => tsrv[s] \in Server(LandingDocs)
  BY <1>1 DEF TransitTyped, TEntry, TLanding
<1>5. s = "entry" => TransitDoc(s) \in EntryDocs /\ TransitDoc(s) # None
  BY <1>1, EntryDocument, NoneIsNothing DEF EntryDocs
<1>6. s = "landing" => TransitDoc(s) \in LandingDocs /\ TransitDoc(s) # None
  BY <1>1, LandingDocument, NoneIsNothing, Zenon DEF LandingDocs
<1> QED  BY <1>2, <1>3, <1>4, <1>5, <1>6

LEMMA PublishTransit ==
  ASSUME TransitInv, NEW s \in TServers, TransitPublish(s)
  PROVE  TransitInv'
<1>1. PICK sv : sv = Published(tsrv[s], TransitDoc(s))
  OBVIOUS
<1>2. tsrv' = [tsrv EXCEPT ![s] = sv] /\ UNCHANGED <<prof, bind, transit, lnode, worker, meter>>
  BY <1>1 DEF TransitPublish
<1>3. /\ s = "entry" => sv \in Server(EntryDocs)
      /\ s = "landing" => sv \in Server(LandingDocs)
      /\ Receipts(sv) /\ sv.doc = TransitDoc(s) /\ sv.run = tsrv[s].run /\ sv.published = TRUE
  <2>1. Receipts(tsrv[s])
    BY ServerFacts DEF TransitServerOK
  <2>2. CASE s = "entry"
    <3>1. tsrv[s] \in Server(EntryDocs) /\ TransitDoc(s) \in EntryDocs
      BY <2>2, ServerFacts
    <3> HIDE DEF EntryDocs, TransitDoc, Published, Server
    <3>2. /\ sv \in Server(EntryDocs) /\ Receipts(sv) /\ sv.doc = TransitDoc(s)
          /\ sv.run = tsrv[s].run /\ sv.published = TRUE
      BY <1>1, <2>1, <3>1, PublishedServer
    <3> QED  BY <2>2, <3>2
  <2>3. CASE s = "landing"
    <3>1. tsrv[s] \in Server(LandingDocs) /\ TransitDoc(s) \in LandingDocs
      BY <2>3, ServerFacts
    <3> HIDE DEF LandingDocs, TransitDoc, Published, Server
    <3>2. /\ sv \in Server(LandingDocs) /\ Receipts(sv) /\ sv.doc = TransitDoc(s)
          /\ sv.run = tsrv[s].run /\ sv.published = TRUE
      BY <1>1, <2>1, <3>1, PublishedServer
    <3> QED  BY <2>3, <3>2
  <2> QED  BY <2>2, <2>3 DEF TServers
<1>4. TLanding'.run = TLanding.run
  BY <1>2, <1>3 DEF TransitInv, TransitTyped, TLanding, TServers
<1>5. /\ meter' \in [held : BOOLEAN, told : BOOLEAN, beat : BOOLEAN, restarted : BOOLEAN]
      /\ meter' = meter
      /\ meter'.held /\ ~meter'.told /\ ~meter'.restarted => TLanding'.run = TRUE /\ ~meter'.beat
  BY <1>2, <1>4 DEF TransitInv, TransitTyped
<1>6. sv.doc # None
  BY <1>3, ServerFacts
<1> QED  BY <1>2, <1>3, <1>5, <1>6, ServerFrame

(* Steps of a server that leave its documents alone, and of the meter. *)
LEMMA QuietTransit ==
  ASSUME TransitInv, UNCHANGED <<prof, bind, transit, lnode, worker>>,
         NEW s \in TServers, NEW sv, tsrv' = [tsrv EXCEPT ![s] = sv],
         \/ sv = tsrv[s] \/ sv = ApplyFails(tsrv[s]) \/ sv = Reported(tsrv[s])
         \/ sv = [tsrv[s] EXCEPT !.maint = TRUE] \/ sv = [tsrv[s] EXCEPT !.maint = FALSE],
         meter' \in [held : BOOLEAN, told : BOOLEAN, beat : BOOLEAN, restarted : BOOLEAN],
         meter'.held => meter.held, meter.restarted => meter'.restarted,
         meter'.held /\ ~meter'.told /\ ~meter'.restarted => TLanding.run = TRUE /\ ~meter'.beat
  PROVE  TransitInv'
<1>1. /\ s = "entry" => sv \in Server(EntryDocs)
      /\ s = "landing" => sv \in Server(LandingDocs)
      /\ Receipts(sv) /\ SameDocuments(tsrv[s], sv)
  BY ServerFacts, QuietServer DEF TransitServerOK, SameDocuments
<1>2. TLanding'.run = TLanding.run
  BY <1>1 DEF TransitInv, TransitTyped, TLanding, TServers, SameDocuments
<1>3. /\ sv.published <=> sv.doc # None
      /\ sv.published /\ ~sv.dirty => sv.doc = TransitDoc(s)
      /\ sv.doc = tsrv[s].doc /\ sv.run = tsrv[s].run
  BY <1>1, ServerFacts DEF TransitServerOK, SameDocuments
<1> QED  BY <1>1, <1>2, <1>3, ServerFrame

LEMMA ApplyTransit ==
  ASSUME TransitInv, NEW s \in TServers, TransitApply(s)
  PROVE  TransitInv'
<1>1. /\ meter \in [held : BOOLEAN, told : BOOLEAN, beat : BOOLEAN, restarted : BOOLEAN]
      /\ meter.held /\ ~meter.told /\ ~meter.restarted => TLanding.run = TRUE /\ ~meter.beat
      /\ tsrv = [q \in TServers |-> tsrv[q]]
  BY DEF TransitInv, TransitTyped
<1>2. /\ UNCHANGED <<prof, bind, transit, lnode, worker>>
      /\ Fetchable(tsrv[s]) /\ (s = "landing" => meter.beat)
  BY DEF TransitApply
<1>3. CASE tsrv' = [tsrv EXCEPT ![s] = ApplyFails(tsrv[s])] /\ UNCHANGED meter
  BY <1>1, <1>2, <1>3, QuietTransit
<1>4. CASE /\ tsrv' = [tsrv EXCEPT ![s] = Applied(tsrv[s])]
           /\ meter' = IF s = "entry" THEN meter
                       ELSE [meter EXCEPT !.beat = FALSE, !.held = @ \/ tsrv[s].doc]
  <2>1. PICK sv : sv = Applied(tsrv[s])
    OBVIOUS
  <2>2. /\ s = "entry" => sv \in Server(EntryDocs)
        /\ s = "landing" => sv \in Server(LandingDocs)
        /\ Receipts(sv) /\ sv.doc = tsrv[s].doc /\ sv.run = tsrv[s].doc
        /\ sv.published = tsrv[s].published /\ sv.dirty = tsrv[s].dirty
    BY <1>2, <2>1, ServerFacts, AppliedServer DEF TransitServerOK, Fetchable
  <2>3. /\ sv.published <=> sv.doc # None
        /\ sv.published /\ ~sv.dirty => sv.doc = TransitDoc(s)
    BY <2>2, ServerFacts DEF TransitServerOK
  <2>4. /\ tsrv'[s] = sv
        /\ \A q \in TServers \ {s} : tsrv'[q] = tsrv[q]
    BY <1>1, <1>4, <2>1
  <2>5. /\ meter' \in [held : BOOLEAN, told : BOOLEAN, beat : BOOLEAN, restarted : BOOLEAN]
        /\ meter'.held => meter.held \/ TLanding.doc = TRUE
        /\ meter.restarted => meter'.restarted
        /\ meter'.held /\ ~meter'.told /\ ~meter'.restarted => TLanding'.run = TRUE /\ ~meter'.beat
    <3>1. CASE s = "entry"
      <4>1. TLanding' = TLanding
        BY <2>4, <3>1 DEF TLanding, TServers
      <4> QED  BY <1>1, <1>4, <3>1, <4>1
    <3>2. CASE s = "landing"
      <4>1. TLanding'.run = TLanding.doc /\ TLanding.doc \in BOOLEAN
        <5>1. tsrv[s].doc \in LandingDocs /\ tsrv[s].doc # None
          BY <1>2, <3>2, ServerFacts DEF Fetchable, TransitServerOK, Server
        <5> QED  BY <2>2, <2>4, <3>2, <5>1 DEF TLanding, LandingDocs
      <4>2. meter' = [meter EXCEPT !.beat = FALSE, !.held = @ \/ TLanding.doc]
        BY <1>4, <3>2 DEF TLanding
      <4>3. meter.beat
        BY <1>2, <3>2
      <4>4. CASE TLanding.doc = TRUE
        <5>1. meter' = [meter EXCEPT !.beat = FALSE, !.held = TRUE]
          BY <4>2, <4>4
        <5> QED  BY <1>1, <4>1, <4>4, <5>1
      <4>5. CASE TLanding.doc = FALSE
        <5>1. meter' = [meter EXCEPT !.beat = FALSE]
          BY <1>1, <4>2, <4>5
        <5> QED  BY <1>1, <4>3, <5>1
      <4> QED  BY <4>1, <4>4, <4>5
    <3> QED  BY <3>1, <3>2 DEF TServers
  <2>6. tsrv' = [tsrv EXCEPT ![s] = sv]
    BY <1>4, <2>1
  <2> QED  BY <1>2, <2>2, <2>3, <2>5, <2>6, ServerFrame
<1> QED  BY <1>3, <1>4 DEF TransitApply

LEMMA QuietSteps ==
  ASSUME TransitInv,
         \/ \E s \in TServers : TransitReport(s)
         \/ LandingHeartbeat \/ MeterSettled \/ LandingRestart
         \/ ReadinessChange \/ TransitMaintenanceEnds
  PROVE  TransitInv'
<1>1. /\ meter \in [held : BOOLEAN, told : BOOLEAN, beat : BOOLEAN, restarted : BOOLEAN]
      /\ meter.held /\ ~meter.told /\ ~meter.restarted => TLanding.run = TRUE /\ ~meter.beat
      /\ tsrv = [q \in TServers |-> tsrv[q]]
  BY DEF TransitInv, TransitTyped
<1>2. "entry" \in TServers /\ tsrv = [tsrv EXCEPT !["entry"] = tsrv["entry"]]
  BY <1>1 DEF TServers
<1>3. CASE \E s \in TServers : TransitReport(s)
  <2>1. PICK s \in TServers : TransitReport(s)
    BY <1>3
  <2>2. tsrv' = [tsrv EXCEPT ![s] = Reported(tsrv[s])] /\ UNCHANGED <<prof, bind, transit, lnode, worker, meter>>
    BY <2>1 DEF TransitReport
  <2> QED  BY <1>1, <2>2, QuietTransit
<1>4. CASE LandingHeartbeat
  <2>1. /\ UNCHANGED <<prof, bind, transit, lnode, worker, tsrv>>
        /\ meter' = [meter EXCEPT !.told = meter.held, !.beat = TRUE]
    BY <1>4 DEF LandingHeartbeat
  <2> QED  BY <1>1, <1>2, <2>1, QuietTransit
<1>5. CASE MeterSettled
  <2>1. UNCHANGED <<prof, bind, transit, lnode, worker, tsrv>> /\ meter' = [meter EXCEPT !.held = FALSE]
    BY <1>5 DEF MeterSettled
  <2> QED  BY <1>1, <1>2, <2>1, QuietTransit
<1>6. CASE LandingRestart
  <2>1. /\ UNCHANGED <<prof, bind, transit, lnode, worker, tsrv>>
        /\ meter' = [meter EXCEPT !.beat = TRUE, !.restarted = TRUE]
    BY <1>6 DEF LandingRestart
  <2> QED  BY <1>1, <1>2, <2>1, QuietTransit
<1>7. CASE ReadinessChange
  <2>1. UNCHANGED <<prof, bind, transit, lnode, worker, meter>>
    BY <1>7 DEF ReadinessChange
  <2>2. CASE UNCHANGED tsrv
    BY <1>1, <1>2, <2>1, <2>2, QuietTransit
  <2>3. CASE \E s \in TServers : tsrv' = [tsrv EXCEPT ![s].maint = TRUE]
    <3>1. PICK s \in TServers : tsrv' = [tsrv EXCEPT ![s] = [tsrv[s] EXCEPT !.maint = TRUE]]
      BY <2>3
    <3> QED  BY <1>1, <2>1, <3>1, QuietTransit
  <2> QED  BY <1>7, <2>2, <2>3 DEF ReadinessChange
<1>8. CASE TransitMaintenanceEnds
  <2>1. /\ UNCHANGED <<prof, bind, transit, lnode, worker, meter>>
        /\ \E s \in TServers : tsrv' = [tsrv EXCEPT ![s] = [tsrv[s] EXCEPT !.maint = FALSE]]
    BY <1>8 DEF TransitMaintenanceEnds
  <2>2. PICK s \in TServers : tsrv' = [tsrv EXCEPT ![s] = [tsrv[s] EXCEPT !.maint = FALSE]]
    BY <2>1
  <2> QED  BY <1>1, <2>1, <2>2, QuietTransit
<1> QED  BY <1>3, <1>4, <1>5, <1>6, <1>7, <1>8

(* The other half of the invariant is about the rows. *)
RowsTyped ==
  /\ prof \in [Profiles -> [on : BOOLEAN] \cup {None}]
  /\ bind \in [TNodes -> Profiles \cup {None}]
  /\ transit \in [stage : TransitStages, hidden : BOOLEAN] \cup {None}
  /\ lnode \in {"none", "live", "revoked"}
  /\ worker \in DOMAIN Successor \cup {None}
  /\ worker # None => transit # None

LEMMA RowStep ==
  ASSUME TransitInv, NEW S \in SUBSET TServers, BumpAt(S), UNCHANGED meter,
         \A s \in TServers \ S : TransitDoc(s)' = TransitDoc(s),
         RowsTyped', NoDanglingBinding',
         Leads(TEntry.doc) \/ Leads(TEntry.run) => lnode' = "live",
         /\ TEntry'.doc = TEntry.doc /\ TEntry'.run = TEntry.run
         /\ TLanding'.doc = TLanding.doc /\ TLanding'.run = TLanding.run
         => TransitStageOK'
  PROVE  TransitInv'
<1>1. /\ tsrv' = [s \in TServers |-> tsrv'[s]]
      /\ TEntry' \in Server(EntryDocs) /\ TLanding' \in Server(LandingDocs)
      /\ TEntry'.doc = TEntry.doc /\ TEntry'.run = TEntry.run
      /\ TLanding'.doc = TLanding.doc /\ TLanding'.run = TLanding.run
      /\ \A s \in TServers : TransitServerOK(s)'
  BY RowsFrame
<1>2. TransitTyped'
  BY <1>1 DEF TransitTyped, RowsTyped, TransitInv
<1>3. FarEndUp' <=> FarEndUp
  BY <1>1 DEF FarEndUp
<1>4. /\ Leads(TEntry'.doc) \/ Leads(TEntry'.run) => lnode' = "live" /\ FarEndUp'
      /\ meter'.held /\ ~meter'.told /\ ~meter'.restarted => TLanding'.run = TRUE /\ ~meter'.beat
  BY <1>1, <1>3 DEF TransitInv
<1> QED  BY <1>1, <1>2, <1>4 DEF TransitInv, RowsTyped

LEMMA RowFacts ==
  ASSUME TransitInv
  PROVE  /\ TransitTyped /\ RowsTyped /\ NoDanglingBinding /\ TransitStageOK
         /\ Leads(TEntry.doc) \/ Leads(TEntry.run) => lnode = "live" /\ FarEndUp
         /\ \A s \in TServers : TransitServerOK(s)
  BY DEF TransitInv, TransitTyped, RowsTyped

LEMMA CreateTransit ==
  ASSUME TransitInv, CreateManagedTransit
  PROVE  TransitInv'
<1>1. /\ transit = None /\ transit' = [stage |-> "pending_landing", hidden |-> FALSE]
      /\ lnode' = "live" /\ prof' = [prof EXCEPT !["tp"] = [on |-> FALSE]]
      /\ bind' = [bind EXCEPT !["node"] = "tp"] /\ BumpAt(TServers) /\ UNCHANGED <<meter, worker>>
  BY DEF CreateManagedTransit, PreviewTransit
<1>2. RowsTyped /\ NoDanglingBinding /\ TransitStageOK
  BY RowFacts
<1>3. prof'["tp"] = [on |-> FALSE] /\ prof'["tp"] # None /\ ~prof'["tp"].on
  BY <1>1, <1>2, NoneIsNothing DEF RowsTyped, Profiles
<1>4. transit' # None /\ transit'.stage = "pending_landing"
  BY <1>1, NoneIsNothing DEF TransitStages, Successor
<1>5. RowsTyped'
  BY <1>1, <1>2, <1>4 DEF RowsTyped, Profiles, TNodes, TransitStages, Successor
<1>6. NoDanglingBinding'
  BY <1>1, <1>2, <1>3 DEF NoDanglingBinding, RowsTyped, Profiles, TNodes
<1>7. TransitStageOK'
  BY <1>1, <1>2, <1>3, <1>4 DEF TransitStageOK, AtStage, Managed, RowsTyped, TNodes
<1> QED  BY <1>1, <1>5, <1>6, <1>7, RowStep

LEMMA RetireTransit ==
  ASSUME TransitInv, RetireManagedTransit
  PROVE  TransitInv'
<1>1. /\ transit # None /\ transit.stage \in {"pending_landing", "pending_entry", "applied"}
      /\ prof' = [prof EXCEPT !["tp"].on = FALSE]
      /\ BumpAt(IF prof["tp"].on THEN {"entry"} ELSE {})
      /\ transit' = [transit EXCEPT !.stage = "stopping_entry"]
      /\ UNCHANGED <<bind, lnode, meter, worker>>
  BY DEF RetireManagedTransit, Enable
<1>2. RowsTyped /\ NoDanglingBinding /\ TransitStageOK /\ TransitTyped
  BY RowFacts
<1>3. prof["tp"] # None /\ prof["tp"] \in [on : BOOLEAN] /\ bind["node"] = "tp" /\ lnode = "live"
  BY <1>1, <1>2 DEF TransitStageOK, Managed, AtStage, RowsTyped, Profiles
<1>4. prof'["tp"] = [on |-> FALSE] /\ prof'["tp"] # None /\ ~prof'["tp"].on /\ prof'["ap"] = prof["ap"]
  BY <1>1, <1>2, <1>3, NoneIsNothing DEF RowsTyped, Profiles
<1>5. transit' # None /\ transit'.stage = "stopping_entry" /\ transit' \in [stage : TransitStages, hidden : BOOLEAN]
  <2>1. transit' \in [stage : TransitStages, hidden : BOOLEAN] /\ transit'.stage = "stopping_entry"
    BY <1>1, <1>2 DEF RowsTyped, TransitStages, Successor
  <2> QED  BY <2>1, TransitAssumption
<1>6. RowsTyped'
  BY <1>1, <1>2, <1>4, <1>5 DEF RowsTyped, Profiles
<1>7. NoDanglingBinding'
  BY <1>1, <1>2, <1>3, <1>4 DEF NoDanglingBinding, RowsTyped, Profiles, TNodes
<1>8. TransitStageOK'
  BY <1>1, <1>3, <1>4, <1>5 DEF TransitStageOK, AtStage, Managed
<1>9. ASSUME NEW s \in TServers \ (IF prof["tp"].on THEN {"entry"} ELSE {})
      PROVE  TransitDoc(s)' = TransitDoc(s)
  <2>1. CASE s = "landing"
    BY <1>1, <2>1 DEF TransitDoc
  <2>2. CASE s = "entry"
    <3>1. ~prof["tp"].on
      BY <1>9, <2>2
    <3>2. prof' = prof
      BY <1>1, <1>2, <1>3, <3>1 DEF RowsTyped, Profiles
    <3> QED  BY <1>1, <2>2, <3>2 DEF TransitDoc, Egress
  <2> QED  BY <2>1, <2>2 DEF TServers
<1>10. (IF prof["tp"].on THEN {"entry"} ELSE {}) \in SUBSET TServers
  BY DEF TServers
<1> QED  BY <1>1, <1>3, <1>6, <1>7, <1>8, <1>9, <1>10, RowStep

(* AdvanceManagedTransit: the stage it read is the stage it finds, or nothing
   happens. *)
LEMMA AdvanceFacts ==
  ASSUME TransitInv, AdvanceManagedTransit, CanAdvance(worker)
  PROVE  /\ transit # None /\ transit.stage = worker /\ Managed
         /\ prof["tp"] \in [on : BOOLEAN] /\ bind["node"] = "tp"
         /\ transit' \in [stage : TransitStages, hidden : BOOLEAN] /\ transit' # None
         /\ transit'.stage = Successor[worker]
         /\ ServerApplied(tsrv[ReceiptServer(worker)])
<1>1. /\ worker # None /\ worker \in DOMAIN Successor
      /\ transit' = [transit EXCEPT !.stage = Successor[worker]]
  BY RowFacts DEF AdvanceManagedTransit, RowsTyped
<1>2. transit # None /\ transit \in [stage : TransitStages, hidden : BOOLEAN] /\ transit.stage = worker
  BY <1>1, RowFacts DEF RowsTyped, CanAdvance, StageUnchanged
<1>3. Managed
  BY <1>1, <1>2 DEF Managed, Successor
<1>4. Successor[worker] \in TransitStages
  BY <1>1 DEF Successor, TransitStages
<1>5. /\ transit' \in [stage : TransitStages, hidden : BOOLEAN]
      /\ transit'.stage = Successor[worker]
  BY <1>1, <1>2, <1>4
<1>6. prof["tp"] \in [on : BOOLEAN] /\ bind["node"] = "tp"
  BY <1>3, RowFacts DEF TransitStageOK, RowsTyped, Profiles
<1>7. transit' # None
  BY <1>5, TransitAssumption
<1> QED  BY <1>2, <1>3, <1>5, <1>6, <1>7 DEF CanAdvance, ReceiptHolds

LEMMA AppliedRunsDocument ==
  ASSUME TransitInv, NEW s \in TServers, ServerApplied(tsrv[s])
  PROVE  tsrv[s].run = TransitDoc(s) /\ tsrv[s].doc = TransitDoc(s)
<1>1. /\ TransitServerOK(s) /\ tsrv[s].seen /\ ~tsrv[s].dirty
  BY RowFacts DEF ServerApplied
<1>2. tsrv[s].run = tsrv[s].doc
  BY <1>1 DEF TransitServerOK, Receipts
<1>3. tsrv[s].published
  BY <1>1 DEF TransitServerOK, Receipts
<1> QED  BY <1>1, <1>2, <1>3 DEF TransitServerOK

LEMMA AdvanceTransit ==
  ASSUME TransitInv, AdvanceManagedTransit
  PROVE  TransitInv'
<1>1. worker # None /\ worker' = None /\ UNCHANGED <<bind, meter>>
  BY DEF AdvanceManagedTransit
<1>2. /\ RowsTyped /\ NoDanglingBinding /\ TransitStageOK /\ TransitTyped
      /\ Leads(TEntry.doc) \/ Leads(TEntry.run) => lnode = "live" /\ FarEndUp
  BY RowFacts
<1>3. CASE ~CanAdvance(worker)
  <2>1. UNCHANGED <<prof, transit, lnode, tsrv>>
    BY <1>3 DEF AdvanceManagedTransit
  <2>2. BumpAt({})
    BY <1>2, <2>1 DEF BumpAt, TransitTyped
  <2>3. RowsTyped' /\ NoDanglingBinding'
    BY <1>1, <1>2, <2>1 DEF RowsTyped, NoDanglingBinding
  <2>4. TransitStageOK'
    BY <1>1, <1>2, <2>1 DEF TransitStageOK, FarEndUp, FarEndDown, AtStage, Managed, TEntry, TLanding
  <2>5. \A s \in TServers : TransitDoc(s)' = TransitDoc(s)
    BY <1>1, <2>1 DEF TransitDoc, Egress
  <2> QED  BY <1>1, <1>2, <2>1, <2>2, <2>3, <2>4, <2>5, RowStep
<1>4. CASE CanAdvance(worker)
  <2>1. /\ transit # None /\ transit.stage = worker /\ Managed
        /\ prof["tp"] \in [on : BOOLEAN] /\ bind["node"] = "tp"
        /\ transit' \in [stage : TransitStages, hidden : BOOLEAN] /\ transit' # None
        /\ transit'.stage = Successor[worker]
        /\ ServerApplied(tsrv[ReceiptServer(worker)])
    BY <1>4, AdvanceFacts
  <2>2. worker \in {"pending_landing", "pending_entry", "stopping_entry", "stopping_landing"}
    BY <1>1, <1>2 DEF RowsTyped, Successor
  <2>3. CASE worker \in {"pending_landing", "pending_entry"}
    <3>1. /\ prof' = [prof EXCEPT !["tp"].on = TRUE] /\ lnode' = lnode
          /\ BumpAt(IF prof["tp"].on THEN {} ELSE {"entry"})
      BY <1>4, <2>3 DEF AdvanceManagedTransit, Enable
    <3>2. prof'["tp"] = [on |-> TRUE] /\ prof'["tp"] # None /\ prof'["tp"].on /\ prof'["ap"] = prof["ap"]
      BY <1>2, <2>1, <3>1, NoneIsNothing DEF RowsTyped, Profiles
    <3>3. lnode = "live"
      BY <1>2, <2>1, <2>3 DEF TransitStageOK, AtStage
    <3>4. RowsTyped'
      BY <1>1, <1>2, <2>1, <3>1, <3>2 DEF RowsTyped, Profiles
    <3>5. NoDanglingBinding'
      BY <1>1, <1>2, <2>1, <3>1, <3>2 DEF NoDanglingBinding, RowsTyped, Profiles, TNodes
    <3>6. FarEndUp
      <4>1. CASE worker = "pending_landing"
        <5>1. TLanding.run = TransitDoc("landing") /\ TLanding.doc = TransitDoc("landing")
          BY <2>1, <4>1, AppliedRunsDocument DEF ReceiptServer, TLanding, TServers
        <5> QED  BY <1>2, <3>3, <5>1, LandingDocument DEF FarEndUp
      <4>2. CASE worker = "pending_entry"
        BY <1>2, <2>1, <4>2 DEF TransitStageOK, AtStage
      <4> QED  BY <2>3, <4>1, <4>2
    <3>7. worker = "pending_entry" => /\ TEntry.run # None /\ TEntry.run["node"] = "tp"
                                      /\ TEntry.doc # None /\ TEntry.doc["node"] = "tp"
      <4> SUFFICES ASSUME worker = "pending_entry"
                   PROVE  /\ TEntry.run # None /\ TEntry.run["node"] = "tp"
                          /\ TEntry.doc # None /\ TEntry.doc["node"] = "tp"
        OBVIOUS
      <4>1. TEntry.run = TransitDoc("entry") /\ TEntry.doc = TransitDoc("entry")
        BY <2>1, AppliedRunsDocument DEF ReceiptServer, TEntry, TServers
      <4>2. prof["tp"].on
        BY <1>2, <2>1 DEF TransitStageOK, AtStage
      <4> HIDE DEF TransitDoc
      <4> QED  BY <1>2, <2>1, <4>1, <4>2, EntryDocument, NoneIsNothing
    <3>8. transit'.stage = IF worker = "pending_landing" THEN "pending_entry" ELSE "applied"
      BY <2>1, <2>3 DEF Successor
    <3>9. /\ TEntry'.doc = TEntry.doc /\ TEntry'.run = TEntry.run
          /\ TLanding'.doc = TLanding.doc /\ TLanding'.run = TLanding.run
          => TransitStageOK'
      BY <1>1, <2>1, <2>3, <3>1, <3>2, <3>3, <3>6, <3>7, <3>8
         DEF TransitStageOK, AtStage, Managed, FarEndUp
    <3>10. ASSUME NEW s \in TServers \ (IF prof["tp"].on THEN {} ELSE {"entry"})
           PROVE  TransitDoc(s)' = TransitDoc(s)
      <4>1. CASE s = "landing"
        BY <3>1, <4>1 DEF TransitDoc
      <4>2. CASE s = "entry"
        <5>1. prof["tp"].on
          BY <3>10, <4>2
        <5>2. prof' = prof
          BY <1>2, <2>1, <3>1, <5>1 DEF RowsTyped, Profiles
        <5> QED  BY <1>1, <4>2, <5>2 DEF TransitDoc, Egress
      <4> QED  BY <4>1, <4>2 DEF TServers
    <3>11. (IF prof["tp"].on THEN {} ELSE {"entry"}) \in SUBSET TServers
      BY DEF TServers
    <3> QED  BY <1>1, <3>1, <3>3, <3>4, <3>5, <3>9, <3>10, <3>11, RowStep
  <2>4. CASE worker \in {"stopping_entry", "stopping_landing"}
    <3>1. /\ prof' = prof /\ BumpAt({"landing"})
          /\ lnode' = IF worker = "stopping_entry" THEN "revoked" ELSE "none"
      BY <1>4, <2>4 DEF AdvanceManagedTransit
    <3>2. transit'.stage = IF worker = "stopping_entry" THEN "stopping_landing" ELSE "retired"
      BY <2>1, <2>4 DEF Successor
    <3>3. RowsTyped' /\ NoDanglingBinding'
      BY <1>1, <1>2, <2>1, <3>1 DEF RowsTyped, NoDanglingBinding
    <3>4. prof["tp"] # None /\ ~prof["tp"].on
      BY <1>2, <2>1, <2>4 DEF TransitStageOK, AtStage, Managed
    <3>5. ~Leads(TEntry.doc) /\ ~Leads(TEntry.run)
      <4>1. CASE worker = "stopping_entry"
        <5>1. TEntry.run = TransitDoc("entry") /\ TEntry.doc = TransitDoc("entry")
          BY <2>1, <4>1, AppliedRunsDocument DEF ReceiptServer, TEntry, TServers
        <5> HIDE DEF TransitDoc, Leads
        <5> QED  BY <1>2, <3>4, <5>1, EntryDocument
      <4>2. CASE worker = "stopping_landing"
        <5>1. lnode = "revoked"
          BY <1>2, <2>1, <4>2 DEF TransitStageOK, AtStage
        <5> QED  BY <1>2, <5>1
      <4> QED  BY <2>4, <4>1, <4>2
    <3>6. worker = "stopping_landing" => FarEndDown /\ (meter.held => meter.restarted)
      <4> SUFFICES ASSUME worker = "stopping_landing"
                   PROVE  FarEndDown /\ (meter.held => meter.restarted)
        OBVIOUS
      <4>1. TLanding.run = TransitDoc("landing") /\ TLanding.doc = TransitDoc("landing")
        BY <2>1, AppliedRunsDocument DEF ReceiptServer, TLanding, TServers
      <4>2. lnode # "live" /\ ~meter.told
        BY <1>2, <1>4, <2>1 DEF TransitStageOK, AtStage, CanAdvance
      <4>3. FarEndDown
        BY <1>2, <4>1, <4>2, LandingDocument DEF FarEndDown
      <4>4. meter.held /\ ~meter.told /\ ~meter.restarted => TLanding.run = TRUE
        BY DEF TransitInv
      <4> QED  BY <4>2, <4>3, <4>4 DEF FarEndDown
    <3>7. /\ TEntry'.doc = TEntry.doc /\ TEntry'.run = TEntry.run
          /\ TLanding'.doc = TLanding.doc /\ TLanding'.run = TLanding.run
          => TransitStageOK'
      BY <1>1, <2>1, <2>4, <3>1, <3>2, <3>4, <3>6
         DEF TransitStageOK, AtStage, Managed, FarEndDown
    <3>8. \A s \in TServers \ {"landing"} : TransitDoc(s)' = TransitDoc(s)
      BY <1>1, <3>1 DEF TransitDoc, Egress, TServers
    <3>9. {"landing"} \in SUBSET TServers
      BY DEF TServers
    <3> QED  BY <1>1, <3>1, <3>3, <3>5, <3>7, <3>8, <3>9, RowStep
  <2> QED  BY <2>2, <2>3, <2>4
<1> QED  BY <1>3, <1>4

(* The worker's read, a retry and the hiding of a retired transit change no
   row that a document depends on. *)
LEMMA SmallSteps ==
  ASSUME TransitInv, ReadTransits \/ RetryManagedTransit \/ SetManagedTransitHidden
  PROVE  TransitInv'
<1>1. /\ RowsTyped /\ NoDanglingBinding /\ TransitStageOK /\ TransitTyped
      /\ Leads(TEntry.doc) \/ Leads(TEntry.run) => lnode = "live" /\ FarEndUp
  BY RowFacts
<1>2. /\ UNCHANGED <<prof, bind, lnode, meter>>
      /\ BumpAt({}) \/ BumpAt(TServers)
  BY <1>1 DEF ReadTransits, RetryManagedTransit, SetManagedTransitHidden, BumpAt, TransitTyped
<1>3. /\ RowsTyped' /\ (transit' = None <=> transit = None)
      /\ transit # None => transit'.stage = transit.stage
  <2>1. CASE SetManagedTransitHidden
    <3>1. transit \in [stage : TransitStages, hidden : BOOLEAN] /\ transit' = [transit EXCEPT !.hidden = TRUE]
      BY <1>1, <2>1 DEF SetManagedTransitHidden, RowsTyped
    <3>2. transit' \in [stage : TransitStages, hidden : BOOLEAN] /\ transit'.stage = transit.stage
      BY <3>1
    <3>3. transit' # None /\ transit # None
      BY <3>1, <3>2, TransitAssumption
    <3>4. worker' = worker
      BY <2>1 DEF SetManagedTransitHidden
    <3> QED  BY <1>1, <1>2, <3>2, <3>3, <3>4 DEF RowsTyped
  <2>2. CASE ReadTransits
    BY <1>1, <1>2, <2>2 DEF ReadTransits, RowsTyped
  <2>3. CASE RetryManagedTransit
    BY <1>1, <1>2, <2>3 DEF RetryManagedTransit, RowsTyped
  <2> QED  BY <2>1, <2>2, <2>3
<1>4. NoDanglingBinding'
  BY <1>1, <1>2 DEF NoDanglingBinding
<1>5. /\ TEntry'.doc = TEntry.doc /\ TEntry'.run = TEntry.run
      /\ TLanding'.doc = TLanding.doc /\ TLanding'.run = TLanding.run
      => TransitStageOK'
  <2>1. (Managed' <=> Managed) /\ \A S : AtStage(S)' <=> AtStage(S)
    BY <1>3 DEF Managed, AtStage
  <2> QED  BY <1>1, <1>2, <1>3, <2>1 DEF TransitStageOK, FarEndUp, FarEndDown
<1>6. \A s \in TServers : TransitDoc(s)' = TransitDoc(s)
  BY <1>2 DEF TransitDoc, Egress
<1>7. {} \in SUBSET TServers /\ TServers \in SUBSET TServers
  OBVIOUS
<1> QED  BY <1>1, <1>2, <1>3, <1>4, <1>5, <1>6, <1>7, RowStep

(* The administrator's profile and the bindings: what belongs to the transit
   is closed to these requests. *)
LEMMA EgressEdit ==
  ASSUME TransitInv, RequestEgress
  PROVE  TransitInv'
<1>1. /\ RowsTyped /\ NoDanglingBinding /\ TransitStageOK /\ TransitTyped
      /\ Leads(TEntry.doc) \/ Leads(TEntry.run) => lnode = "live" /\ FarEndUp
  BY RowFacts
<1>2. UNCHANGED <<transit, lnode, meter, worker>>
  BY DEF RequestEgress
<1>3. ASSUME   /\ prof' \in [Profiles -> [on : BOOLEAN] \cup {None}]
               /\ bind' \in [TNodes -> Profiles \cup {None}]
               /\ NoDanglingBinding'
               /\ prof'["tp"] = prof["tp"] \/ (prof'["tp"] = None /\ ~Managed /\ transit # None)
               /\ Managed => bind'["node"] = bind["node"]
               /\ \/ BumpAt({"entry"})
                  \/ BumpAt({}) /\ TransitDoc("entry")' = TransitDoc("entry")
      PROVE  TransitInv'
  <2>1. RowsTyped'
    BY <1>1, <1>2, <1>3 DEF RowsTyped
  <2>2. TransitDoc("landing")' = TransitDoc("landing")
    BY <1>2 DEF TransitDoc
  <2>3. /\ TEntry'.doc = TEntry.doc /\ TEntry'.run = TEntry.run
        /\ TLanding'.doc = TLanding.doc /\ TLanding'.run = TLanding.run
        => TransitStageOK'
    <3>1. (Managed' <=> Managed) /\ \A S : AtStage(S)' <=> AtStage(S)
      BY <1>2 DEF Managed, AtStage
    <3>2. prof'["tp"] = None => ~AtStage({"pending_entry", "applied"})
      BY <1>1, <1>3 DEF TransitStageOK, AtStage, Managed
    <3> QED  BY <1>1, <1>2, <1>3, <3>1, <3>2 DEF TransitStageOK, FarEndUp, FarEndDown
  <2>4. CASE BumpAt({"entry"})
    <3>1. \A s \in TServers \ {"entry"} : TransitDoc(s)' = TransitDoc(s)
      BY <2>2 DEF TServers
    <3> QED  BY <1>1, <1>2, <1>3, <2>1, <2>3, <2>4, <3>1, RowStep DEF TServers
  <2>5. CASE BumpAt({}) /\ TransitDoc("entry")' = TransitDoc("entry")
    <3>1. \A s \in TServers \ {} : TransitDoc(s)' = TransitDoc(s)
      BY <2>2, <2>5 DEF TServers
    <3> QED  BY <1>1, <1>2, <1>3, <2>1, <2>3, <2>5, <3>1, RowStep
  <2> QED  BY <1>3, <2>4, <2>5
<1>4. UNCHANGED tsrv => BumpAt({})
  BY <1>1 DEF BumpAt, TransitTyped
<1>5. CASE CreateProfile
  <2>1. PICK on \in BOOLEAN : prof' = [prof EXCEPT !["ap"] = [on |-> on]]
    BY <1>5 DEF CreateProfile
  <2>2. prof["ap"] = None /\ UNCHANGED <<bind, tsrv>>
    BY <1>5 DEF CreateProfile
  <2>3. \A n \in TNodes : bind[n] # "ap"
    BY <1>1, <2>2, NoneIsNothing DEF NoDanglingBinding
  <2>4. prof' \in [Profiles -> [on : BOOLEAN] \cup {None}] /\ prof'["tp"] = prof["tp"]
    BY <1>1, <2>1 DEF RowsTyped, Profiles
  <2>5. \A n \in TNodes : bind[n] # None => prof'[bind[n]] = prof[bind[n]]
    BY <1>1, <2>3, <2>4 DEF RowsTyped, Profiles
  <2>6. NoDanglingBinding'
    BY <1>1, <2>2, <2>5 DEF NoDanglingBinding
  <2>7. TransitDoc("entry")' = TransitDoc("entry")
    BY <2>2, <2>5 DEF TransitDoc, Egress
  <2> QED  BY <1>3, <1>1, <1>4, <2>2, <2>4, <2>6, <2>7 DEF RowsTyped
<1>6. CASE ToggleProfile
  <2>1. /\ prof["ap"] # None /\ prof' = [prof EXCEPT !["ap"].on = ~prof["ap"].on] /\ UNCHANGED bind
        /\ BumpAt(IF Referenced("ap") THEN {"entry"} ELSE {})
    BY <1>6 DEF ToggleProfile, Enable
  <2>2. /\ prof' \in [Profiles -> [on : BOOLEAN] \cup {None}] /\ prof'["tp"] = prof["tp"]
        /\ prof'["ap"] \in [on : BOOLEAN]
    BY <1>1, <2>1 DEF RowsTyped, Profiles
  <2>3. prof'["ap"] # None
    BY <2>2, TransitAssumption
  <2>4. NoDanglingBinding'
    BY <1>1, <2>1, <2>2, <2>3 DEF NoDanglingBinding, RowsTyped, Profiles
  <2>5. ~Referenced("ap") => TransitDoc("entry")' = TransitDoc("entry")
    <3>1. ~Referenced("ap") => \A n \in TNodes : bind[n] # None => prof'[bind[n]] = prof[bind[n]]
      BY <1>1, <2>2 DEF RowsTyped, Profiles, Referenced
    <3> QED  BY <2>1, <3>1 DEF TransitDoc, Egress
  <2> QED  BY <1>3, <1>1, <2>1, <2>2, <2>4, <2>5 DEF RowsTyped
<1>7. CASE DeleteProfile
  <2>1. PICK p \in Profiles : /\ prof[p] # None /\ ~Referenced(p) /\ (p = "tp" => ~Managed)
                              /\ prof' = [prof EXCEPT ![p] = None]
    BY <1>7 DEF DeleteProfile
  <2>2. UNCHANGED <<bind, tsrv>>
    BY <1>7 DEF DeleteProfile
  <2>3. prof' \in [Profiles -> [on : BOOLEAN] \cup {None}] /\ \A q \in Profiles \ {p} : prof'[q] = prof[q]
    BY <1>1, <2>1 DEF RowsTyped
  <2>4. \A n \in TNodes : bind[n] # None => prof'[bind[n]] = prof[bind[n]]
    BY <1>1, <2>1, <2>3 DEF RowsTyped, Referenced
  <2>5. NoDanglingBinding'
    BY <1>1, <2>2, <2>4 DEF NoDanglingBinding
  <2>6. TransitDoc("entry")' = TransitDoc("entry")
    BY <2>2, <2>4 DEF TransitDoc, Egress
  <2>7. p = "tp" => prof'["tp"] = None /\ transit # None
    BY <1>1, <2>1 DEF RowsTyped, TransitStageOK
  <2>8. p # "tp" => prof'["tp"] = prof["tp"]
    BY <2>3 DEF Profiles
  <2> QED  BY <1>3, <1>1, <1>4, <2>1, <2>2, <2>3, <2>5, <2>6, <2>7, <2>8 DEF RowsTyped
<1>8. CASE RequestNodeNetwork
  <2>1. PICK n \in TNodes, p \in Profiles \cup {None} : BindingReady(p) /\ SetNodeNetwork(n, p)
    BY <1>8 DEF RequestNodeNetwork
  <2>2. /\ (n = "node" => ~Managed) /\ bind' = [bind EXCEPT ![n] = p]
        /\ BumpAt({"entry"}) /\ UNCHANGED prof /\ (p # None => prof[p] # None)
    BY <2>1 DEF SetNodeNetwork, BindingReady
  <2>3. bind' \in [TNodes -> Profiles \cup {None}] /\ (Managed => bind'["node"] = bind["node"])
    BY <1>1, <2>2 DEF RowsTyped, TNodes
  <2>4. NoDanglingBinding'
    BY <1>1, <2>2 DEF RowsTyped, NoDanglingBinding
  <2> QED  BY <1>3, <1>1, <2>2, <2>3, <2>4 DEF RowsTyped
<1> QED  BY <1>5, <1>6, <1>7, <1>8 DEF RequestEgress, RequestEgressProfile

LEMMA TransitStarts ==
  ASSUME TransitInit
  PROVE  TransitInv
<1>1. /\ \A s \in TServers : tsrv[s] = NewServer(None)
      /\ tsrv = [s \in TServers |-> tsrv[s]]
  BY DEF TransitInit
<1>2. /\ NewServer(None) \in Server(EntryDocs) /\ NewServer(None) \in Server(LandingDocs)
      /\ Receipts(NewServer(None)) /\ ~NewServer(None).published
      /\ NewServer(None).doc = None /\ NewServer(None).run = None
  BY DEF NewServer, Server, Receipts, EntryDocs, LandingDocs
<1>3. TransitTyped
  BY <1>1, <1>2 DEF TransitInit, TransitTyped, TServers, TEntry, TLanding
<1>4. NoDanglingBinding
  BY DEF TransitInit, NoDanglingBinding
<1>5. TEntry.doc = None /\ TEntry.run = None /\ TLanding.doc = None /\ TLanding.run = None
  BY <1>1, <1>2 DEF TEntry, TLanding, TServers
<1>6. TransitStageOK
  BY <1>5, NoneIsNothing DEF TransitInit, TransitStageOK, AtStage, Managed, FarEndDown, Profiles
<1>7. \A s \in TServers : TransitServerOK(s)
  BY <1>1, <1>2 DEF TransitServerOK
<1>8. ~meter.held /\ worker = None
  BY DEF TransitInit
<1> QED  BY <1>3, <1>4, <1>5, <1>6, <1>7, <1>8 DEF TransitInv, Leads

LEMMA TransitStep ==
  ASSUME TransitInv, TransitNext
  PROVE  TransitInv'
<1>1. CASE CreateManagedTransit
  BY <1>1, CreateTransit
<1>2. CASE RetireManagedTransit
  BY <1>2, RetireTransit
<1>3. CASE AdvanceManagedTransit
  BY <1>3, AdvanceTransit
<1>4. CASE ReadTransits \/ RetryManagedTransit \/ SetManagedTransitHidden
  BY <1>4, SmallSteps
<1>5. CASE RequestEgress
  BY <1>5, EgressEdit
<1>6. ASSUME NEW s \in TServers, TransitPublish(s)
      PROVE  TransitInv'
  BY <1>6, PublishTransit
<1>7. ASSUME NEW s \in TServers, TransitApply(s)
      PROVE  TransitInv'
  BY <1>7, ApplyTransit
<1>8. CASE \/ \E s \in TServers : TransitReport(s)
           \/ LandingHeartbeat \/ MeterSettled \/ LandingRestart
           \/ ReadinessChange \/ TransitMaintenanceEnds
  BY <1>8, QuietSteps
<1> QED
  BY <1>1, <1>2, <1>3, <1>4, <1>5, <1>6, <1>7, <1>8 DEF TransitNext, TransitWorker, TransitAgent

LEMMA TransitInvSafe ==
  ASSUME TransitInv
  PROVE  TransitSafe
<1>1. /\ TransitTyped /\ NoDanglingBinding /\ TransitStageOK
      /\ Leads(TEntry.doc) \/ Leads(TEntry.run) => lnode = "live" /\ FarEndUp
  BY RowFacts
<1>2. EntryFencedFirst
  BY <1>1 DEF EntryFencedFirst, Uses, Leads, FarEndUp, LandingListens, TEntry, TLanding
<1>3. TransitIsReal
  BY <1>1 DEF TransitIsReal, TransitStageOK, AtStage, TEntry
<1>4. RetiredIsSettled
  BY <1>1 DEF RetiredIsSettled, TransitStageOK, AtStage, FarEndDown, LandingListens, TLanding
<1> QED  BY <1>1, <1>2, <1>3, <1>4 DEF TransitSafe

-----------------------------------------------------------------------------
(* Access routes. *)
Specs == [rev : Nat \ {0}, port : Ports, blocked : BOOLEAN, retired : BOOLEAN]
Of(s) == {f \in Forwards : At(f) = s}
RouteDocs == UNION {[S -> Specs] : S \in SUBSET Forwards}

RouteTyped ==
  /\ fwd \in [Forwards -> Row \cup {None}]
  /\ resv \subseteq RServers \X Forwards \X Ports
  /\ route \in [stage : Stages, ix : BOOLEAN] \cup {None}
  /\ rsrv \in [RServers -> Server(RouteDocs)]
  /\ host \in [RServers -> [frozen : BOOLEAN, committed : BOOLEAN]]
  /\ facts \in [ready : [RServers -> {"yes", "stale", "no"}], valid : BOOLEAN]
  /\ failing \in BOOLEAN
  /\ rleft \in [{"hop", "change", "create", "edit", "retry", "fail"} -> Nat] /\ rleft["create"] <= 1

RouteServerOK(s) ==
  /\ Receipts(rsrv[s]) /\ (host[s].committed => host[s].frozen)
  /\ DOMAIN rsrv[s].doc \subseteq Of(s) /\ DOMAIN rsrv[s].run \subseteq Of(s)
  /\ ~rsrv[s].dirty => /\ DOMAIN rsrv[s].doc = On(s, fwd)
                       /\ \A f \in On(s, fwd) : rsrv[s].doc[f] = ForwardSpec(fwd[f])

(* A document against the row of a forward: it holds one of its revisions. *)
DocOf(row, d) ==
  /\ d.rev <= Len(row.ports) /\ d.port = row.ports[d.rev]
  /\ d.rev = Len(row.ports) => d = ForwardSpec(row)
  /\ d.retired => d.rev = Len(row.ports)

(* A forward with a row: documents hold its revisions, and every port since
   the revision that runs is reserved. *)
RowFits(f, row, doc, run, R) ==
  /\ Len(row.ports) >= 1 /\ ~(row.on /\ row.retired)
  /\ f \in DOMAIN doc => DocOf(row, doc[f])
  /\ f \in DOMAIN run => f \in DOMAIN doc /\ DocOf(row, run[f]) /\ run[f].rev <= doc[f].rev
  /\ \A i \in 1..Len(row.ports) :
       (f \in DOMAIN run => run[f].rev <= i) => <<At(f), f, row.ports[i]>> \in R

(* A forward without a row: documents that still name it keep it closed. *)
NoRow(f, doc, run, R) ==
  /\ f \in DOMAIN doc => doc[f].blocked
  /\ f \in DOMAIN run => run[f].blocked
  /\ \A x \in R : x[2] # f

ForwardOK(f, row, doc, run, R) ==
  IF row = None THEN NoRow(f, doc, run, R) ELSE RowFits(f, row, doc, run, R)

Unused(f) == fwd[f] = None /\ f \notin DOMAIN rsrv[At(f)].doc /\ f \notin DOMAIN rsrv[At(f)].run

Shows(f, doc) == f \in DOMAIN doc /\ ~doc[f].blocked
EntryMayOpen ==
  \/ fwd["ef"] # None /\ fwd["ef"].on
  \/ Shows("ef", rsrv["entry"].doc) \/ Shows("ef", rsrv["entry"].run)
FarHopFirm == fwd["xf"] # None /\ fwd["xf"].on /\ Shows("xf", rsrv["ix"].doc) /\ Shows("xf", rsrv["ix"].run)

Live(f) == fwd[f] # None /\ ~fwd[f].retired
RouteStageOK ==
  /\ ~route.ix => fwd["xf"] = None
  /\ route.ix /\ EntryMayOpen => FarHopFirm
  /\ ~Stopping /\ route.stage # "retired" => Live("ef") /\ (route.ix => Live("xf"))
  /\ route.stage = "stopping_entry" => fwd["ef"] = None \/ fwd["ef"].retired
  /\ route.stage \in {"stopping_ix", "retired"} => fwd["ef"] = None
  /\ route.stage = "retired" => fwd["xf"] = None

(* Rows and documents, stage by stage. *)
RoutePlan ==
  /\ rleft["create"] > 0 => Unused("own")
  /\ route = None => Unused("ef") /\ Unused("xf")
  /\ route # None => RouteStageOK
  /\ failing => route # None /\ route.stage # "retired"

RouteInv ==
  /\ RouteTyped
  /\ \A s \in RServers : RouteServerOK(s)
  /\ \A f \in Forwards : ForwardOK(f, fwd[f], rsrv[At(f)].doc, rsrv[At(f)].run, resv)
  /\ RoutePlan

-----------------------------------------------------------------------------
LEMMA RoutesNone ==
  /\ \A r \in Row : r # None
  /\ \A st \in Stages, b \in BOOLEAN : [stage |-> st, ix |-> b] # None
<1>1. \A st \in Stages, b \in BOOLEAN : [stage |-> st, ix |-> b] \in [stage : Stages, ix : BOOLEAN]
  OBVIOUS
<1> QED  BY <1>1, RoutesAssumption, Zenon

(* How a forward and its documents change. *)
LEMMA RowExtended ==
  ASSUME NEW f, NEW row \in Row, NEW new \in Row, NEW doc, NEW run, NEW R, NEW R2,
         RowFits(f, row, doc, run, R), ~row.retired, ~(new.on /\ new.retired),
         Len(new.ports) = Len(row.ports) + 1,
         \A i \in 1..Len(row.ports) : new.ports[i] = row.ports[i],
         f \in DOMAIN doc => doc[f].rev \in Nat, f \in DOMAIN run => run[f].rev \in Nat \ {0},
         f \in DOMAIN doc => doc[f].rev # 0,
         R \subseteq R2, <<At(f), f, new.ports[Len(new.ports)]>> \in R2
  PROVE  RowFits(f, new, doc, run, R2)
<1>1. Len(row.ports) \in Nat /\ Len(row.ports) >= 1
  BY DEF Row, RowFits
<1>2. \A d : d.rev \in Nat \ {0} /\ DocOf(row, d) => DocOf(new, d)
  BY <1>1 DEF DocOf, ForwardSpec
<1>3. \A i \in 1..Len(new.ports) :
       (f \in DOMAIN run => run[f].rev <= i) => <<At(f), f, new.ports[i]>> \in R2
  <2> TAKE i \in 1..Len(new.ports)
  <2>1. CASE i = Len(new.ports)
    BY <2>1
  <2>2. CASE i \in 1..Len(row.ports)
    BY <2>2 DEF RowFits
  <2> QED  BY <1>1, <2>1, <2>2
<1> QED  BY <1>1, <1>2, <1>3 DEF RowFits

LEMMA SpecFits ==
  ASSUME NEW row \in Row, Len(row.ports) >= 1
  PROVE  ForwardSpec(row) \in Specs /\ DocOf(row, ForwardSpec(row)) /\ ForwardSpec(row).rev = Len(row.ports)
<1>1. Len(row.ports) \in Nat \ {0} /\ row.ports[Len(row.ports)] \in Ports /\ row.on \in BOOLEAN /\ row.retired \in BOOLEAN
  BY DEF Row
<1> QED  BY <1>1 DEF ForwardSpec, Specs, DocOf

LEMMA ForwardReserves ==
  ASSUME NEW f, NEW row, NEW doc, NEW run, NEW R, NEW R2, ForwardOK(f, row, doc, run, R),
         R \subseteq R2, \A x \in R2 \ R : x[2] # f
  PROVE  ForwardOK(f, row, doc, run, R2)
  BY DEF ForwardOK, RowFits, NoRow

LEMMA ForwardPublished ==
  ASSUME NEW f, NEW row \in Row \cup {None}, NEW doc, NEW run, NEW R, NEW doc2, ForwardOK(f, row, doc, run, R),
         f \in DOMAIN doc2 <=> row # None, row # None => doc2[f] = ForwardSpec(row)
  PROVE  ForwardOK(f, row, doc2, run, R)
<1>1. CASE row = None
  BY <1>1 DEF ForwardOK, NoRow
<1>2. CASE row # None
  <2>1. RowFits(f, row, doc, run, R) /\ row \in Row /\ Len(row.ports) >= 1
    BY <1>2 DEF ForwardOK, RowFits
  <2>2. DocOf(row, doc2[f]) /\ doc2[f].rev = Len(row.ports) /\ f \in DOMAIN doc2
    BY <1>2, <2>1, SpecFits
  <2>3. f \in DOMAIN run => run[f].rev <= doc2[f].rev
    BY <2>1, <2>2 DEF RowFits, DocOf
  <2> QED  BY <1>2, <2>1, <2>2, <2>3 DEF ForwardOK, RowFits
<1> QED  BY <1>1, <1>2

LEMMA ForwardApplied ==
  ASSUME NEW f, NEW row, NEW doc, NEW run, NEW R, ForwardOK(f, row, doc, run, R),
         f \in DOMAIN doc => doc[f].rev \in Nat, f \in DOMAIN run => run[f].rev \in Nat
  PROVE  ForwardOK(f, row, doc, doc, R)
<1>1. CASE row = None
  BY <1>1 DEF ForwardOK, NoRow
<1>2. CASE row # None
  <2>1. RowFits(f, row, doc, run, R)
    BY <1>2 DEF ForwardOK
  <2>2. f \in DOMAIN run => f \in DOMAIN doc /\ run[f].rev <= doc[f].rev
    BY <2>1 DEF RowFits
  <2>3. \A i \in 1..Len(row.ports) : (f \in DOMAIN doc => doc[f].rev <= i) => (f \in DOMAIN run => run[f].rev <= i)
    BY <2>2
  <2> QED  BY <1>2, <2>1, <2>3 DEF ForwardOK, RowFits
<1> QED  BY <1>1, <1>2

LEMMA ForwardCreated ==
  ASSUME NEW f, NEW row \in Row, NEW doc, NEW run, NEW R, Len(row.ports) = 1, ~(row.on /\ row.retired),
         f \notin DOMAIN doc, f \notin DOMAIN run, <<At(f), f, row.ports[1]>> \in R
  PROVE  ForwardOK(f, row, doc, run, R)
  BY RoutesNone DEF ForwardOK, RowFits

LEMMA ForwardCommitted ==
  ASSUME NEW f, NEW row \in Row \cup {None}, NEW doc, NEW run, NEW R, NEW R2, ForwardOK(f, row, doc, run, R),
         f \in DOMAIN doc => doc[f].rev \in Nat, f \in DOMAIN run => run[f].rev \in Nat,
         NEW gone \in BOOLEAN, gone <=> f \in DOMAIN run /\ run[f].retired,
         gone => row # None /\ Len(row.ports) = run[f].rev /\ \A x \in R2 : x[2] # f,
         R2 \subseteq R,
         ~gone /\ row # None => \A i \in 1..Len(row.ports) :
           (f \in DOMAIN run => run[f].rev <= i) /\ <<At(f), f, row.ports[i]>> \in R => <<At(f), f, row.ports[i]>> \in R2
  PROVE  ForwardOK(f, IF gone THEN None ELSE row, doc, run, R2)
<1>1. CASE gone
  <2>1. RowFits(f, row, doc, run, R) /\ row \in Row
    BY <1>1 DEF ForwardOK
  <2>2. f \in DOMAIN doc /\ DocOf(row, doc[f]) /\ DocOf(row, run[f]) /\ run[f].rev <= doc[f].rev
    BY <1>1, <2>1 DEF RowFits
  <2>3. Len(row.ports) \in Nat
    BY <2>1 DEF Row
  <2>4. doc[f].rev = Len(row.ports)
    BY <1>1, <2>2, <2>3 DEF DocOf
  <2>5. doc[f] = ForwardSpec(row) /\ run[f] = ForwardSpec(row)
    BY <1>1, <2>2, <2>4 DEF DocOf
  <2>6. /\ ForwardSpec(row).retired = row.retired
        /\ ForwardSpec(row).blocked = (~row.on \/ row.retired)
    BY DEF ForwardSpec
  <2>7. row.retired
    BY <1>1, <2>5, <2>6
  <2>8. doc[f].blocked /\ run[f].blocked
    BY <2>5, <2>6, <2>7
  <2> QED  BY <1>1, <2>8 DEF ForwardOK, NoRow
<1>2. CASE ~gone /\ row = None
  BY <1>2 DEF ForwardOK, NoRow
<1>3. CASE ~gone /\ row # None
  BY <1>3 DEF ForwardOK, RowFits
<1> QED  BY <1>1, <1>2, <1>3

-----------------------------------------------------------------------------
LEMMA RouteFacts ==
  ASSUME RouteInv
  PROVE  /\ RouteTyped /\ RoutePlan
         /\ \A s \in RServers : RouteServerOK(s)
         /\ \A f \in Forwards : ForwardOK(f, fwd[f], rsrv[At(f)].doc, rsrv[At(f)].run, resv)
         /\ \A f \in Forwards : At(f) \in RServers
         /\ \A s \in RServers :
              /\ rsrv[s] \in Server(RouteDocs) /\ rsrv[s].doc \in RouteDocs /\ rsrv[s].run \in RouteDocs
              /\ \A f \in DOMAIN rsrv[s].doc : rsrv[s].doc[f] \in Specs /\ f \in Forwards /\ At(f) = s
              /\ \A f \in DOMAIN rsrv[s].run : rsrv[s].run[f] \in Specs /\ f \in Forwards /\ At(f) = s
<1>1. /\ RouteTyped /\ RoutePlan
      /\ \A s \in RServers : RouteServerOK(s)
      /\ \A f \in Forwards : ForwardOK(f, fwd[f], rsrv[At(f)].doc, rsrv[At(f)].run, resv)
  BY DEF RouteInv
<1>2. \A f \in Forwards : At(f) \in RServers
  BY DEF Forwards, At, RServers
<1>3. \A s \in RServers : rsrv[s] \in Server(RouteDocs)
  BY <1>1 DEF RouteTyped
<1>4. \A s \in RServers : rsrv[s].doc \in RouteDocs /\ rsrv[s].run \in RouteDocs
  BY <1>3 DEF Server
<1>5. \A d \in RouteDocs : \A f \in DOMAIN d : d[f] \in Specs
  BY DEF RouteDocs
<1>6. \A s \in RServers : /\ \A f \in DOMAIN rsrv[s].doc : f \in Forwards /\ At(f) = s
                          /\ \A f \in DOMAIN rsrv[s].run : f \in Forwards /\ At(f) = s
  BY <1>1 DEF RouteServerOK, Of
<1> QED  BY <1>1, <1>2, <1>3, <1>4, <1>5, <1>6

LEMMA DesiredDocument ==
  ASSUME RouteInv, NEW s \in RServers
  PROVE  /\ DesiredForwards(s) \in RouteDocs /\ DOMAIN DesiredForwards(s) = On(s, fwd)
         /\ \A f \in On(s, fwd) : DesiredForwards(s)[f] = ForwardSpec(fwd[f])
         /\ \A f \in Forwards : At(f) = s => (f \in On(s, fwd) <=> fwd[f] # None)
         /\ On(s, fwd) \subseteq Of(s)
<1>1. \A f \in On(s, fwd) : fwd[f] \in Row /\ Len(fwd[f].ports) >= 1
  BY RouteFacts DEF On, RouteTyped, ForwardOK, RowFits
<1>2. \A f \in On(s, fwd) : ForwardSpec(fwd[f]) \in Specs
  BY <1>1, SpecFits
<1>3. DesiredForwards(s) \in [On(s, fwd) -> Specs] /\ On(s, fwd) \in SUBSET Forwards
  BY <1>2 DEF DesiredForwards, On
<1>4. DesiredForwards(s) \in RouteDocs
  BY <1>3 DEF RouteDocs
<1> QED  BY <1>4 DEF DesiredForwards, On, Of

(* A step of one server while the rows stay: its document is the old one or
   the desired one, and it runs what it ran or its document. *)
LEMMA RouteServerStep ==
  ASSUME RouteInv, NEW s \in RServers, NEW sv \in Server(RouteDocs), rsrv' = [rsrv EXCEPT ![s] = sv],
         UNCHANGED <<fwd, resv, route, failing>>,
         host' \in [RServers -> [frozen : BOOLEAN, committed : BOOLEAN]],
         \A q \in RServers : host'[q].committed => host'[q].frozen,
         facts' \in [ready : [RServers -> {"yes", "stale", "no"}], valid : BOOLEAN],
         rleft' \in [{"hop", "change", "create", "edit", "retry", "fail"} -> Nat],
         rleft'["create"] = rleft["create"],
         Receipts(sv),
         sv.doc = rsrv[s].doc \/ sv.doc = DesiredForwards(s),
         sv.run = rsrv[s].run \/ (sv.run = rsrv[s].doc /\ sv.doc = rsrv[s].doc),
         ~sv.dirty => sv.doc = DesiredForwards(s) \/ (sv.doc = rsrv[s].doc /\ ~rsrv[s].dirty)
  PROVE  RouteInv'
<1>1. RouteTyped /\ RoutePlan /\ (\A q \in RServers : RouteServerOK(q))
  BY RouteFacts
<1>2. rsrv'[s] = sv /\ \A q \in RServers \ {s} : rsrv'[q] = rsrv[q]
  BY <1>1 DEF RouteTyped
<1>3. RouteTyped'
  BY <1>1 DEF RouteTyped
<1>4. \A q \in RServers : RouteServerOK(q)'
  <2> SUFFICES ASSUME NEW q \in RServers PROVE RouteServerOK(q)'
    OBVIOUS
  <2>1. On(q, fwd') = On(q, fwd)
    OBVIOUS
  <2>2. CASE q # s
    BY <1>1, <1>2, <2>1, <2>2 DEF RouteServerOK
  <2>3. CASE q = s
    <3>1. RouteServerOK(s)
      BY <1>1
    <3>2. DOMAIN sv.doc \subseteq Of(s) /\ DOMAIN sv.run \subseteq Of(s)
      BY <3>1, DesiredDocument DEF RouteServerOK
    <3>3. ~sv.dirty => /\ DOMAIN sv.doc = On(s, fwd)
                       /\ \A f \in On(s, fwd) : sv.doc[f] = ForwardSpec(fwd[f])
      BY <3>1, DesiredDocument DEF RouteServerOK
    <3> QED  BY <1>2, <2>1, <2>3, <3>2, <3>3 DEF RouteServerOK
  <2> QED  BY <2>2, <2>3
<1>5. \A f \in Forwards : ForwardOK(f, fwd[f], rsrv'[At(f)].doc, rsrv'[At(f)].run, resv)
  <2> SUFFICES ASSUME NEW f \in Forwards PROVE ForwardOK(f, fwd[f], rsrv'[At(f)].doc, rsrv'[At(f)].run, resv)
    OBVIOUS
  <2>1. ForwardOK(f, fwd[f], rsrv[At(f)].doc, rsrv[At(f)].run, resv) /\ fwd[f] \in Row \cup {None}
    BY RouteFacts DEF RouteTyped
  <2>2. CASE At(f) # s
    BY <1>2, <2>1, <2>2, RouteFacts
  <2>3. CASE At(f) = s
    <3>1. rsrv'[At(f)] = sv
      BY <1>2, <2>3
    <3>2. /\ f \in DOMAIN rsrv[s].doc => rsrv[s].doc[f].rev \in Nat
          /\ f \in DOMAIN rsrv[s].run => rsrv[s].run[f].rev \in Nat
      BY RouteFacts DEF Specs
    <3>3. CASE sv.doc = rsrv[s].doc /\ sv.run = rsrv[s].run
      BY <2>1, <2>3, <3>1, <3>3
    <3>4. CASE sv.doc = rsrv[s].doc /\ sv.run = rsrv[s].doc
      BY <2>1, <2>3, <3>1, <3>2, <3>4, ForwardApplied
    <3>5. CASE sv.doc = DesiredForwards(s) /\ sv.run = rsrv[s].run
      <4>1. f \in DOMAIN sv.doc <=> fwd[f] # None
        BY <2>3, <3>5, DesiredDocument
      <4>2. fwd[f] # None => sv.doc[f] = ForwardSpec(fwd[f])
        BY <2>3, <3>5, <4>1, DesiredDocument
      <4> HIDE DEF ForwardOK, ForwardSpec
      <4> QED  BY <2>1, <2>3, <3>1, <3>5, <4>1, <4>2, ForwardPublished
    <3> QED  BY <3>3, <3>4, <3>5
  <2> QED  BY <2>2, <2>3
<1>6. ASSUME NEW f \in Forwards
      PROVE  /\ Unused(f) => Unused(f)'
             /\ Shows(f, rsrv'[At(f)].doc) => Shows(f, rsrv[At(f)].doc) \/ (fwd[f] # None /\ fwd[f].on)
             /\ Shows(f, rsrv'[At(f)].run) => Shows(f, rsrv[At(f)].doc) \/ Shows(f, rsrv[At(f)].run)
             /\ fwd[f] # None /\ fwd[f].on /\ Shows(f, rsrv[At(f)].doc) /\ Shows(f, rsrv[At(f)].run)
                => Shows(f, rsrv'[At(f)].doc) /\ Shows(f, rsrv'[At(f)].run)
  <2>1. At(f) \in RServers
    BY RouteFacts
  <2>2. CASE At(f) # s
    BY <1>2, <2>1, <2>2 DEF Unused
  <2>3. CASE At(f) = s
    <3>1. rsrv'[At(f)] = sv
      BY <1>2, <2>3
    <3>2. /\ f \in DOMAIN DesiredForwards(s) <=> fwd[f] # None
          /\ fwd[f] # None => DesiredForwards(s)[f] = ForwardSpec(fwd[f])
      BY <2>3, DesiredDocument
    <3>3. fwd[f] # None => /\ ForwardSpec(fwd[f]).blocked = (~fwd[f].on \/ fwd[f].retired)
                           /\ ~(fwd[f].on /\ fwd[f].retired)
      BY RouteFacts DEF ForwardSpec, ForwardOK, RowFits
    <3>4. Shows(f, DesiredForwards(s)) <=> fwd[f] # None /\ fwd[f].on
      BY <3>2, <3>3 DEF Shows
    <3>5. Unused(f) => Unused(f)'
      BY <2>3, <3>1, <3>2 DEF Unused
    <3> HIDE DEF Shows, DesiredForwards
    <3> QED  BY <2>3, <3>1, <3>4, <3>5
  <2> QED  BY <2>2, <2>3
<1>7. RoutePlan'
  <2>1. "ef" \in Forwards /\ "xf" \in Forwards /\ "own" \in Forwards /\ At("ef") = "entry" /\ At("xf") = "ix"
    BY DEF Forwards, At
  <2>2. (EntryMayOpen' => EntryMayOpen) /\ (FarHopFirm => FarHopFirm')
    BY <1>6, <2>1 DEF EntryMayOpen, FarHopFirm
  <2>3. route # None => RouteStageOK'
    BY <1>1, <2>2 DEF RoutePlan, RouteStageOK, Stopping, Live
  <2>4. /\ Unused("own") => Unused("own")'
        /\ Unused("ef") => Unused("ef")'
        /\ Unused("xf") => Unused("xf")'
    BY <1>6, <2>1
  <2> QED  BY <1>1, <2>3, <2>4 DEF RoutePlan
<1> QED  BY <1>3, <1>4, <1>5, <1>7 DEF RouteInv

(* A step of the rows: the servers concerned have something to publish, the
   documents stay as they are. *)
RouteBump(S) == rsrv' = [s \in RServers |-> IF s \in S THEN Bumped(rsrv[s]) ELSE rsrv[s]]

LEMMA RouteRowStep ==
  ASSUME RouteInv, NEW S, RouteBump(S), UNCHANGED facts,
         host' \in [RServers -> [frozen : BOOLEAN, committed : BOOLEAN]],
         \A q \in RServers : host'[q].committed => host'[q].frozen,
         fwd' \in [Forwards -> Row \cup {None}],
         \A f \in Forwards : fwd'[f] # fwd[f] => At(f) \in S,
         resv' \subseteq RServers \X Forwards \X Ports,
         route' \in [stage : Stages, ix : BOOLEAN] \cup {None},
         failing' \in BOOLEAN,
         rleft' \in [{"hop", "change", "create", "edit", "retry", "fail"} -> Nat],
         rleft'["create"] <= rleft["create"],
         \A f \in Forwards : ForwardOK(f, fwd'[f], rsrv[At(f)].doc, rsrv[At(f)].run, resv'),
         (\A s \in RServers : rsrv'[s].doc = rsrv[s].doc /\ rsrv'[s].run = rsrv[s].run) => RoutePlan'
  PROVE  RouteInv'
<1>1. RouteTyped /\ (\A q \in RServers : RouteServerOK(q))
  BY RouteFacts
<1>2. ASSUME NEW s \in RServers
      PROVE  /\ rsrv'[s] \in Server(RouteDocs) /\ Receipts(rsrv'[s])
             /\ rsrv'[s].doc = rsrv[s].doc /\ rsrv'[s].run = rsrv[s].run
             /\ ~rsrv'[s].dirty => ~rsrv[s].dirty /\ s \notin S
  <2>1. rsrv[s] \in Server(RouteDocs) /\ Receipts(rsrv[s])
    BY <1>1, RouteFacts DEF RouteServerOK
  <2>2. rsrv'[s] = IF s \in S THEN Bumped(rsrv[s]) ELSE rsrv[s]
    BY DEF RouteBump
  <2> HIDE DEF RouteDocs
  <2>3. CASE s \in S
    <3>1. rsrv'[s] = Bumped(rsrv[s])
      BY <2>2, <2>3
    <3>2. LET new == Bumped(rsrv[s])
          IN  /\ new \in Server(RouteDocs) /\ Receipts(new) /\ new.dirty = TRUE
              /\ new.doc = rsrv[s].doc /\ new.run = rsrv[s].run
      BY <2>1, BumpedServer, Zenon
    <3> QED  BY <2>3, <3>1, <3>2
  <2>4. CASE s \notin S
    BY <2>1, <2>2, <2>4
  <2> QED  BY <2>3, <2>4
<1>3. rsrv' \in [RServers -> Server(RouteDocs)]
  <2>1. DOMAIN rsrv' = RServers /\ rsrv' = [s \in RServers |-> rsrv'[s]]
    BY DEF RouteBump
  <2> HIDE DEF RouteDocs, Server
  <2> QED  BY <1>2, <2>1
<1>4. RouteTyped'
  BY <1>1, <1>3 DEF RouteTyped
<1>5. \A s \in RServers : RouteServerOK(s)'
  <2> SUFFICES ASSUME NEW s \in RServers PROVE RouteServerOK(s)'
    OBVIOUS
  <2>1. RouteServerOK(s)
    BY <1>1
  <2>2. s \notin S => \A f \in Forwards : At(f) = s => fwd'[f] = fwd[f]
    OBVIOUS
  <2>3. s \notin S => On(s, fwd') = On(s, fwd)
    BY <2>2 DEF On
  <2>4. ~rsrv'[s].dirty => /\ DOMAIN rsrv'[s].doc = On(s, fwd')
                           /\ \A f \in On(s, fwd') : rsrv'[s].doc[f] = ForwardSpec(fwd'[f])
    BY <1>2, <2>1, <2>2, <2>3 DEF RouteServerOK, On
  <2> QED  BY <1>2, <2>1, <2>4 DEF RouteServerOK
<1>6. \A f \in Forwards : ForwardOK(f, fwd'[f], rsrv'[At(f)].doc, rsrv'[At(f)].run, resv')
  BY <1>2, RouteFacts
<1>7. RoutePlan'
  BY <1>2
<1> QED  BY <1>4, <1>5, <1>6, <1>7 DEF RouteInv

(* The steps of the outbox and of the agents. *)
LEMMA RouteQuiet ==
  ASSUME RouteInv, NEW s \in RServers, NEW sv, rsrv' = [rsrv EXCEPT ![s] = sv],
         UNCHANGED <<fwd, resv, route, failing>>,
         \/ sv = rsrv[s] \/ sv = ApplyFails(rsrv[s]) \/ sv = Reported(rsrv[s])
         \/ sv = [rsrv[s] EXCEPT !.maint = TRUE] \/ sv = [rsrv[s] EXCEPT !.maint = FALSE],
         host' \in [RServers -> [frozen : BOOLEAN, committed : BOOLEAN]],
         \A q \in RServers : host'[q].committed => host'[q].frozen,
         facts' \in [ready : [RServers -> {"yes", "stale", "no"}], valid : BOOLEAN],
         rleft' \in [{"hop", "change", "create", "edit", "retry", "fail"} -> Nat],
         rleft'["create"] = rleft["create"]
  PROVE  RouteInv'
<1>1. rsrv[s] \in Server(RouteDocs) /\ Receipts(rsrv[s])
  BY RouteFacts DEF RouteServerOK
<1> HIDE DEF RouteDocs
<1>2. sv \in Server(RouteDocs) /\ Receipts(sv) /\ SameDocuments(rsrv[s], sv)
  <2>1. CASE sv = rsrv[s]
    BY <1>1, <2>1 DEF SameDocuments
  <2>2. CASE sv # rsrv[s]
    BY <1>1, <2>2, QuietServer
  <2> QED  BY <2>1, <2>2
<1>3. sv.doc = rsrv[s].doc /\ sv.run = rsrv[s].run /\ (~sv.dirty => ~rsrv[s].dirty)
  BY <1>2 DEF SameDocuments
<1> QED  BY <1>2, <1>3, RouteServerStep

(* What a bound, the hosts and the facts may become. *)
LEMMA SpendFacts ==
  ASSUME RouteTyped, NEW k \in {"change", "edit", "retry", "fail", "create", "hop"}, Spend(k)
  PROVE  /\ rleft' \in [{"hop", "change", "create", "edit", "retry", "fail"} -> Nat]
         /\ k # "create" => rleft'["create"] = rleft["create"]
         /\ k = "create" => rleft["create"] = 1 /\ rleft'["create"] = 0
  BY DEF RouteTyped, Spend

LEMMA RouteQuietSteps ==
  ASSUME RouteInv,
         \/ \E s \in RServers : ReportApply(s) \/ FlushForwardReceipt(s)
         \/ FactsChange \/ MaintenanceEnds
  PROVE  RouteInv'
<1>1. RouteTyped /\ \A q \in RServers : host[q].committed => host[q].frozen
  BY RouteFacts DEF RouteServerOK
<1>2. "entry" \in RServers /\ rsrv = [rsrv EXCEPT !["entry"] = rsrv["entry"]]
  BY <1>1 DEF RServers, RouteTyped
<1>3. /\ host \in [RServers -> [frozen : BOOLEAN, committed : BOOLEAN]]
      /\ facts \in [ready : [RServers -> {"yes", "stale", "no"}], valid : BOOLEAN]
      /\ rleft \in [{"hop", "change", "create", "edit", "retry", "fail"} -> Nat]
  BY <1>1 DEF RouteTyped
<1>4. CASE \E s \in RServers : ReportApply(s)
  <2>1. PICK s \in RServers : ReportApply(s)
    BY <1>4
  <2>2. /\ rsrv' = [rsrv EXCEPT ![s] = Reported(rsrv[s])]
        /\ UNCHANGED <<fwd, resv, route, host, facts, failing, rleft>>
    BY <2>1 DEF ReportApply
  <2> QED  BY <1>1, <1>3, <2>2, RouteQuiet
<1>5. CASE \E s \in RServers : FlushForwardReceipt(s)
  <2>1. PICK s \in RServers : FlushForwardReceipt(s)
    BY <1>5
  <2>2. /\ host' = [host EXCEPT ![s] = [frozen |-> FALSE, committed |-> FALSE]]
        /\ UNCHANGED <<fwd, resv, route, rsrv, facts, failing, rleft>>
    BY <2>1 DEF FlushForwardReceipt
  <2>3. /\ host' \in [RServers -> [frozen : BOOLEAN, committed : BOOLEAN]]
        /\ \A q \in RServers : host'[q].committed => host'[q].frozen
    BY <1>1, <1>3, <2>2
  <2> QED  BY <1>2, <1>3, <2>2, <2>3, RouteQuiet
<1>6. CASE FactsChange
  <2>1. Spend("change") /\ UNCHANGED <<fwd, resv, route, host, failing>>
    BY <1>6 DEF FactsChange
  <2>2. /\ rleft' \in [{"hop", "change", "create", "edit", "retry", "fail"} -> Nat]
        /\ rleft'["create"] = rleft["create"]
    BY <1>1, <2>1, SpendFacts
  <2>3. CASE UNCHANGED rsrv
    <3>1. facts' \in [ready : [RServers -> {"yes", "stale", "no"}], valid : BOOLEAN]
      <4>1. CASE UNCHANGED facts
        BY <1>3, <4>1
      <4>2. CASE \E s \in RServers, v \in {"yes", "stale", "no"} : facts' = [facts EXCEPT !.ready[s] = v]
        BY <1>3, <4>2
      <4>3. CASE facts' = [facts EXCEPT !.valid = ~@]
        BY <1>3, <4>3
      <4> QED  BY <1>6, <4>1, <4>2, <4>3 DEF FactsChange
    <3> QED  BY <1>1, <1>2, <1>3, <2>1, <2>2, <2>3, <3>1, RouteQuiet
  <2>4. CASE UNCHANGED facts /\ \E s \in RServers : rsrv' = [rsrv EXCEPT ![s].maint = TRUE]
    <3>1. PICK s \in RServers : rsrv' = [rsrv EXCEPT ![s] = [rsrv[s] EXCEPT !.maint = TRUE]]
      BY <2>4
    <3> QED  BY <1>1, <1>3, <2>1, <2>2, <2>4, <3>1, RouteQuiet
  <2> QED  BY <1>6, <2>3, <2>4 DEF FactsChange
<1>7. CASE MaintenanceEnds
  <2>1. PICK s \in RServers : rsrv' = [rsrv EXCEPT ![s] = [rsrv[s] EXCEPT !.maint = FALSE]]
    BY <1>7 DEF MaintenanceEnds
  <2>2. UNCHANGED <<fwd, resv, route, host, facts, failing, rleft>>
    BY <1>7 DEF MaintenanceEnds
  <2> QED  BY <1>1, <1>3, <2>1, <2>2, RouteQuiet
<1> QED  BY <1>4, <1>5, <1>6, <1>7

LEMMA RoutePublish ==
  ASSUME RouteInv, NEW s \in RServers, PublishForwards(s)
  PROVE  RouteInv'
<1>1. rsrv[s] \in Server(RouteDocs) /\ Receipts(rsrv[s]) /\ DesiredForwards(s) \in RouteDocs
  BY RouteFacts, DesiredDocument DEF RouteServerOK
<1>2. PICK sv : sv = Published(rsrv[s], DesiredForwards(s))
  OBVIOUS
<1> HIDE DEF RouteDocs
<1>3. sv \in Server(RouteDocs) /\ Receipts(sv) /\ sv.doc = DesiredForwards(s) /\ sv.run = rsrv[s].run
  <2> HIDE DEF DesiredForwards
  <2> QED  BY <1>1, <1>2, PublishedServer
<1>4. rsrv' = [rsrv EXCEPT ![s] = sv] /\ UNCHANGED <<fwd, resv, route, host, facts, failing, rleft>>
  BY <1>2 DEF PublishForwards
<1>5. /\ host' \in [RServers -> [frozen : BOOLEAN, committed : BOOLEAN]]
      /\ facts' \in [ready : [RServers -> {"yes", "stale", "no"}], valid : BOOLEAN]
      /\ rleft' \in [{"hop", "change", "create", "edit", "retry", "fail"} -> Nat]
      /\ rleft'["create"] = rleft["create"]
      /\ \A q \in RServers : host'[q].committed => host'[q].frozen
  BY <1>4, RouteFacts DEF RouteTyped, RouteServerOK
<1> QED  BY <1>3, <1>4, <1>5, RouteServerStep

LEMMA RouteConverge ==
  ASSUME RouteInv, NEW s \in RServers, Converge(s)
  PROVE  RouteInv'
<1>1. /\ rsrv[s] \in Server(RouteDocs) /\ Receipts(rsrv[s]) /\ RouteTyped
      /\ \A q \in RServers : host[q].committed => host[q].frozen
  BY RouteFacts DEF RouteServerOK
<1>2. UNCHANGED <<fwd, resv, route, facts, failing>> /\ ~host[s].frozen /\ rsrv[s].published
  BY DEF Converge, Fetchable
<1>3. facts' \in [ready : [RServers -> {"yes", "stale", "no"}], valid : BOOLEAN]
  BY <1>1, <1>2 DEF RouteTyped
<1> HIDE DEF RouteDocs
<1>4. CASE /\ rsrv' = [rsrv EXCEPT ![s] = Applied(@)]
           /\ host' = [host EXCEPT ![s].frozen = DOMAIN rsrv[s].doc # {}]
           /\ UNCHANGED rleft
  <2>1. PICK sv : sv = Applied(rsrv[s])
    OBVIOUS
  <2>2. /\ sv \in Server(RouteDocs) /\ Receipts(sv) /\ sv.doc = rsrv[s].doc /\ sv.run = rsrv[s].doc
        /\ sv.dirty = rsrv[s].dirty
    BY <1>1, <1>2, <2>1, AppliedServer
  <2>3. PICK b \in BOOLEAN : b = (DOMAIN rsrv[s].doc # {})
    OBVIOUS
  <2>4. host' = [host EXCEPT ![s].frozen = b] /\ host \in [RServers -> [frozen : BOOLEAN, committed : BOOLEAN]]
    BY <1>1, <1>4, <2>3 DEF RouteTyped
  <2>5. /\ host' \in [RServers -> [frozen : BOOLEAN, committed : BOOLEAN]]
        /\ \A q \in RServers : host'[q].committed => host'[q].frozen
    BY <1>1, <1>2, <2>4
  <2>6. /\ rleft' \in [{"hop", "change", "create", "edit", "retry", "fail"} -> Nat]
        /\ rleft'["create"] = rleft["create"]
        /\ rsrv' = [rsrv EXCEPT ![s] = sv]
    BY <1>1, <1>4, <2>1 DEF RouteTyped
  <2> QED  BY <1>2, <1>3, <2>2, <2>5, <2>6, RouteServerStep
<1>5. CASE Spend("fail") /\ rsrv' = [rsrv EXCEPT ![s] = ApplyFails(@)] /\ UNCHANGED host
  <2>1. /\ rleft' \in [{"hop", "change", "create", "edit", "retry", "fail"} -> Nat]
        /\ rleft'["create"] = rleft["create"]
    BY <1>1, <1>5, SpendFacts
  <2>2. /\ host' \in [RServers -> [frozen : BOOLEAN, committed : BOOLEAN]]
        /\ \A q \in RServers : host'[q].committed => host'[q].frozen
        /\ rsrv' = [rsrv EXCEPT ![s] = ApplyFails(rsrv[s])]
    BY <1>1, <1>5 DEF RouteTyped
  <2> QED  BY <1>2, <1>3, <2>1, <2>2, RouteQuiet
<1> QED  BY <1>4, <1>5 DEF Converge

-----------------------------------------------------------------------------
(* The steps of the rows. *)
LEMMA NewRevision ==
  ASSUME NEW row \in Row, Len(row.ports) >= 1, NEW on \in BOOLEAN, NEW p \in Ports
  PROVE  /\ Updated(row, on, p) \in Row /\ Updated(row, on, p).on = on
         /\ Updated(row, on, p).retired = row.retired
         /\ Len(Updated(row, on, p).ports) = Len(row.ports) + 1
         /\ \A i \in 1..Len(row.ports) : Updated(row, on, p).ports[i] = row.ports[i]
         /\ Updated(row, on, p).ports[Len(row.ports) + 1] = p
         /\ row.ports[Len(row.ports)] \in Ports
<1>1. row.ports \in Seq(Ports) /\ row.on \in BOOLEAN /\ row.retired \in BOOLEAN
  BY DEF Row
<1>2. PICK q : q = Append(row.ports, p)
  OBVIOUS
<1>3. /\ q \in Seq(Ports) /\ Len(q) = Len(row.ports) + 1 /\ q[Len(row.ports) + 1] = p
      /\ \A i \in 1..Len(row.ports) : q[i] = row.ports[i]
  BY <1>1, <1>2, AppendProperties
<1>4. Updated(row, on, p) = [on |-> on, retired |-> row.retired, ports |-> q]
  <2>1. Updated(row, on, p) = [row EXCEPT !.on = on, !.ports = q]
    BY <1>2 DEF Updated
  <2>2. PICK S : S = Seq(Ports)
    OBVIOUS
  <2>3. row \in [on : BOOLEAN, retired : BOOLEAN, ports : S]
    BY <2>2 DEF Row
  <2> QED  BY <2>1, <2>3
<1>5. row.ports[Len(row.ports)] \in Ports
  BY <1>1, ElementOfSeq
<1> QED  BY <1>1, <1>3, <1>4, <1>5 DEF Row

LEMMA LastRevision ==
  ASSUME NEW row \in Row, Len(row.ports) >= 1
  PROVE  /\ RetiredRow(row) \in Row /\ ~RetiredRow(row).on /\ RetiredRow(row).retired
         /\ Len(RetiredRow(row).ports) = Len(row.ports) + 1
         /\ \A i \in 1..Len(row.ports) : RetiredRow(row).ports[i] = row.ports[i]
         /\ RetiredRow(row).ports[Len(row.ports) + 1] = row.ports[Len(row.ports)]
<1>1. row.ports \in Seq(Ports) /\ row.on \in BOOLEAN /\ row.retired \in BOOLEAN
  BY DEF Row
<1>2. PICK q : q = Append(row.ports, row.ports[Len(row.ports)])
  OBVIOUS
<1>3. row.ports[Len(row.ports)] \in Ports
  BY <1>1, ElementOfSeq
<1>4. /\ q \in Seq(Ports) /\ Len(q) = Len(row.ports) + 1
      /\ q[Len(row.ports) + 1] = row.ports[Len(row.ports)]
      /\ \A i \in 1..Len(row.ports) : q[i] = row.ports[i]
  BY <1>1, <1>2, <1>3, AppendProperties
<1>5. RetiredRow(row) = [on |-> FALSE, retired |-> TRUE, ports |-> q]
  <2>1. RetiredRow(row) = [row EXCEPT !.on = FALSE, !.retired = TRUE, !.ports = q]
    BY <1>2 DEF RetiredRow
  <2>2. PICK S : S = Seq(Ports)
    OBVIOUS
  <2>3. row \in [on : BOOLEAN, retired : BOOLEAN, ports : S]
    BY <2>2 DEF Row
  <2> QED  BY <2>1, <2>3
<1> QED  BY <1>4, <1>5 DEF Row

(* The port of the latest revision is reserved. *)
LEMMA LatestReserved ==
  ASSUME RouteInv, NEW f \in Forwards, fwd[f] # None
  PROVE  /\ fwd[f] \in Row /\ Len(fwd[f].ports) >= 1 /\ fwd[f].ports[Len(fwd[f].ports)] \in Ports
         /\ <<At(f), f, fwd[f].ports[Len(fwd[f].ports)]>> \in resv
         /\ RowFits(f, fwd[f], rsrv[At(f)].doc, rsrv[At(f)].run, resv)
<1>1. /\ fwd[f] \in Row /\ RowFits(f, fwd[f], rsrv[At(f)].doc, rsrv[At(f)].run, resv)
  BY RouteFacts DEF RouteTyped, ForwardOK
<1>2. Len(fwd[f].ports) \in Nat /\ Len(fwd[f].ports) >= 1 /\ fwd[f].ports \in Seq(Ports)
  BY <1>1 DEF Row, RowFits
<1>3. fwd[f].ports[Len(fwd[f].ports)] \in Ports
  BY <1>2, ElementOfSeq
<1>4. <<At(f), f, fwd[f].ports[Len(fwd[f].ports)]>> \in resv
  <2>1. f \in DOMAIN rsrv[At(f)].run => rsrv[At(f)].run[f].rev <= Len(fwd[f].ports)
    BY <1>1 DEF RowFits, DocOf
  <2> QED  BY <1>1, <1>2, <2>1 DEF RowFits
<1> QED  BY <1>1, <1>2, <1>3, <1>4

(* One row gets a new revision. *)
LEMMA RowWritten ==
  ASSUME RouteInv, NEW f \in Forwards, fwd[f] # None, ~fwd[f].retired,
         NEW new \in Row, Write(f, new), ~(new.on /\ new.retired),
         Len(new.ports) = Len(fwd[f].ports) + 1,
         \A i \in 1..Len(fwd[f].ports) : new.ports[i] = fwd[f].ports[i],
         resv \subseteq resv', \A x \in resv' \ resv : x[2] = f,
         resv' \subseteq RServers \X Forwards \X Ports,
         <<At(f), f, new.ports[Len(new.ports)]>> \in resv',
         route' \in [stage : Stages, ix : BOOLEAN] \cup {None}, failing' \in BOOLEAN,
         UNCHANGED <<host, facts>>,
         rleft' \in [{"hop", "change", "create", "edit", "retry", "fail"} -> Nat],
         rleft'["create"] <= rleft["create"],
         (\A s \in RServers : rsrv'[s].doc = rsrv[s].doc /\ rsrv'[s].run = rsrv[s].run) => RoutePlan'
  PROVE  RouteInv'
<1>1. RouteTyped /\ At(f) \in RServers
  BY RouteFacts
<1>2. fwd' = [fwd EXCEPT ![f] = new] /\ rsrv' = [rsrv EXCEPT ![At(f)] = Bumped(@)]
  BY DEF Write
<1>3. /\ fwd' \in [Forwards -> Row \cup {None}] /\ fwd'[f] = new
      /\ \A g \in Forwards \ {f} : fwd'[g] = fwd[g]
  BY <1>1, <1>2 DEF RouteTyped
<1>4. RouteBump({At(f)})
  BY <1>1, <1>2 DEF RouteTyped, RouteBump
<1>5. ForwardOK(f, new, rsrv[At(f)].doc, rsrv[At(f)].run, resv')
  <2>1. /\ fwd[f] \in Row /\ RowFits(f, fwd[f], rsrv[At(f)].doc, rsrv[At(f)].run, resv)
    BY LatestReserved
  <2>2. /\ f \in DOMAIN rsrv[At(f)].doc => rsrv[At(f)].doc[f].rev \in Nat \ {0}
        /\ f \in DOMAIN rsrv[At(f)].run => rsrv[At(f)].run[f].rev \in Nat \ {0}
    BY <1>1, RouteFacts DEF Specs
  <2>3. RowFits(f, new, rsrv[At(f)].doc, rsrv[At(f)].run, resv')
    BY <2>1, <2>2, RowExtended
  <2>4. new # None
    BY RoutesNone
  <2> QED  BY <2>3, <2>4 DEF ForwardOK
<1>6. \A g \in Forwards \ {f} : ForwardOK(g, fwd'[g], rsrv[At(g)].doc, rsrv[At(g)].run, resv')
  <2> TAKE g \in Forwards \ {f}
  <2>1. ForwardOK(g, fwd[g], rsrv[At(g)].doc, rsrv[At(g)].run, resv) /\ fwd'[g] = fwd[g]
    BY <1>3, RouteFacts
  <2>2. \A x \in resv' \ resv : x[2] # g
    OBVIOUS
  <2> QED  BY <2>1, <2>2, ForwardReserves
<1>7. /\ host' \in [RServers -> [frozen : BOOLEAN, committed : BOOLEAN]]
      /\ \A q \in RServers : host'[q].committed => host'[q].frozen
  BY RouteFacts DEF RouteTyped, RouteServerOK
<1>8. \A g \in Forwards : ForwardOK(g, fwd'[g], rsrv[At(g)].doc, rsrv[At(g)].run, resv')
  BY <1>3, <1>5, <1>6
<1>9. \A g \in Forwards : fwd'[g] # fwd[g] => At(g) \in {At(f)}
  BY <1>3
<1> QED  BY <1>3, <1>4, <1>7, <1>8, <1>9, RouteRowStep

(* A transition that writes no row: it ends in a stage, or fails. *)
LEMMA RouteRemains ==
  ASSUME RouteInv, UNCHANGED <<fwd, rsrv, resv, host, facts, rleft>>,
         route' \in [stage : Stages, ix : BOOLEAN] \cup {None}, failing' \in BOOLEAN,
         (\A s \in RServers : rsrv'[s].doc = rsrv[s].doc /\ rsrv'[s].run = rsrv[s].run) => RoutePlan'
  PROVE  RouteInv'
<1>1. RouteTyped
  BY RouteFacts
<1>2. RouteBump({})
  BY <1>1 DEF RouteBump, RouteTyped
<1>3. \A f \in Forwards : ForwardOK(f, fwd'[f], rsrv[At(f)].doc, rsrv[At(f)].run, resv')
  BY RouteFacts
<1>4. /\ host' \in [RServers -> [frozen : BOOLEAN, committed : BOOLEAN]]
      /\ \A q \in RServers : host'[q].committed => host'[q].frozen
      /\ fwd' \in [Forwards -> Row \cup {None}] /\ resv' \subseteq RServers \X Forwards \X Ports
      /\ rleft' \in [{"hop", "change", "create", "edit", "retry", "fail"} -> Nat]
      /\ rleft'["create"] <= rleft["create"]
  BY RouteFacts DEF RouteTyped, RouteServerOK
<1>5. \A f \in Forwards : fwd'[f] # fwd[f] => At(f) \in {}
  OBVIOUS
<1> QED  BY <1>2, <1>3, <1>4, <1>5, RouteRowStep

(* The stages in which a route is being opened or is open. *)
Opening == {"pending_landing", "pending_ix", "pending_entry", "applied", "blocked"}

LEMMA OpeningFacts ==
  ASSUME RouteInv, route # None, ~Stopping, route.stage # "retired"
  PROVE  /\ route.stage \in Opening /\ route \in [stage : Stages, ix : BOOLEAN]
         /\ Live("ef") /\ (route.ix => Live("xf")) /\ (~route.ix => fwd["xf"] = None)
         /\ route.ix /\ EntryMayOpen => FarHopFirm
  BY RouteFacts DEF RouteTyped, RoutePlan, RouteStageOK, Stopping, Opening, Stages

LEMMA EndInFacts ==
  ASSUME RouteInv, route # None, NEW st \in Stages, EndIn(st)
  PROVE  /\ route' \in [stage : Stages, ix : BOOLEAN] /\ route' # None
         /\ route'.stage = st /\ route'.ix = route.ix /\ failing' = FALSE /\ failing' \in BOOLEAN
<1>1. route \in [stage : Stages, ix : BOOLEAN]
  BY RouteFacts DEF RouteTyped
<1>2. /\ route' \in [stage : Stages, ix : BOOLEAN]
      /\ route'.stage = st /\ route'.ix = route.ix /\ failing' = FALSE
  BY <1>1 DEF EndIn
<1> QED  BY <1>2, RoutesAssumption

(* routeSetEnabled on a route that is not being stopped: the entry is enabled
   only in front of a hop that stands, the hop behind is never disabled. *)
LEMMA ToggleStep ==
  ASSUME RouteInv, route # None, ~Stopping, route.stage # "retired",
         NEW f \in {"ef", "xf"}, NEW on \in BOOLEAN, NEW st \in Opening, Toggle(f, on, st),
         f = "xf" => route.ix /\ on,
         f = "ef" /\ on /\ route.ix => FarHopFirm,
         UNCHANGED <<resv, host, facts, rleft>>
  PROVE  RouteInv'
<1>1. /\ route.stage \in Opening /\ route \in [stage : Stages, ix : BOOLEAN]
      /\ Live("ef") /\ (route.ix => Live("xf")) /\ (~route.ix => fwd["xf"] = None)
      /\ route.ix /\ EntryMayOpen => FarHopFirm
  BY OpeningFacts
<1>2. st \in Stages /\ st # "retired" /\ st \notin {"stopping_entry", "stopping_ix"}
  BY DEF Stages, Opening
<1>3. RouteTyped /\ RoutePlan
  BY RouteFacts
<1>4. CASE Remain(st)
  <2>1. /\ route' \in [stage : Stages, ix : BOOLEAN] /\ route' # None
        /\ route'.stage = st /\ route'.ix = route.ix /\ failing' = FALSE /\ failing' \in BOOLEAN
        /\ UNCHANGED <<fwd, rsrv>>
    BY <1>2, <1>4, EndInFacts DEF Remain
  <2>2. RoutePlan'
    BY <1>1, <1>2, <1>3, <2>1 DEF RoutePlan, RouteStageOK, Unused, Stopping, Live, EntryMayOpen, FarHopFirm
  <2> QED  BY <2>1, <2>2, RouteRemains
<1>5. CASE Fails
  <2>1. UNCHANGED <<fwd, rsrv, route>> /\ failing' = TRUE
    BY <1>5 DEF Fails
  <2>2. RoutePlan'
    BY <1>1, <1>3, <2>1 DEF RoutePlan, RouteStageOK, Unused, Stopping, Live, EntryMayOpen, FarHopFirm
  <2> QED  BY <1>3, <2>1, <2>2, RouteRemains DEF RouteTyped
<1>6. CASE Write(f, Toggled(f, on)) /\ EndIn(st)
  <2>1. /\ route' \in [stage : Stages, ix : BOOLEAN] /\ route' # None
        /\ route'.stage = st /\ route'.ix = route.ix /\ failing' = FALSE /\ failing' \in BOOLEAN
    BY <1>2, <1>6, EndInFacts
  <2>2. f \in Forwards /\ fwd[f] # None /\ ~fwd[f].retired
    BY <1>1 DEF Forwards, Live
  <2>3. /\ fwd[f] \in Row /\ Len(fwd[f].ports) >= 1 /\ fwd[f].ports[Len(fwd[f].ports)] \in Ports
        /\ <<At(f), f, fwd[f].ports[Len(fwd[f].ports)]>> \in resv
    BY <2>2, LatestReserved
  <2>4. PICK new : new = Updated(fwd[f], on, fwd[f].ports[Len(fwd[f].ports)])
    OBVIOUS
  <2>5. Toggled(f, on) = new
    BY <2>4 DEF Toggled, ForwardSpec
  <2>6. /\ new \in Row /\ new.on = on /\ new.retired = fwd[f].retired
        /\ Len(new.ports) = Len(fwd[f].ports) + 1
        /\ \A i \in 1..Len(fwd[f].ports) : new.ports[i] = fwd[f].ports[i]
        /\ new.ports[Len(fwd[f].ports) + 1] = fwd[f].ports[Len(fwd[f].ports)]
    BY <2>3, <2>4, NewRevision
  <2>7. <<At(f), f, new.ports[Len(new.ports)]>> \in resv'
    BY <2>3, <2>6
  <2>8. /\ fwd'[f] = new /\ \A g \in Forwards \ {f} : fwd'[g] = fwd[g]
    BY <1>3, <1>6, <2>5, <2>2 DEF Write, RouteTyped
  <2>9. new # None
    BY <2>6, RoutesNone
  <2>10. (\A s \in RServers : rsrv'[s].doc = rsrv[s].doc /\ rsrv'[s].run = rsrv[s].run) => RoutePlan'
    <3> SUFFICES ASSUME \A s \in RServers : rsrv'[s].doc = rsrv[s].doc /\ rsrv'[s].run = rsrv[s].run
                 PROVE  RoutePlan'
      OBVIOUS
    <3>1. Unused("own") => Unused("own")'
      BY <2>8 DEF Unused, Forwards, At, RServers
    <3>2. CASE f = "ef"
      <4>1. fwd'["ef"] = new /\ fwd'["xf"] = fwd["xf"]
        BY <2>8, <3>2 DEF Forwards
      <4>2. FarHopFirm' <=> FarHopFirm
        BY <4>1 DEF FarHopFirm, RServers
      <4>3. EntryMayOpen' => EntryMayOpen \/ on
        BY <4>1, <2>6 DEF EntryMayOpen, RServers
      <4>4. RouteStageOK'
        BY <1>1, <1>2, <2>1, <2>2, <2>6, <2>9, <3>2, <4>1, <4>2, <4>3 DEF RouteStageOK, Stopping, Live
      <4> QED  BY <1>3, <2>1, <3>1, <4>4 DEF RoutePlan
    <3>3. CASE f = "xf"
      <4>1. fwd'["xf"] = new /\ fwd'["ef"] = fwd["ef"]
        BY <2>8, <3>3 DEF Forwards
      <4>2. FarHopFirm => FarHopFirm'
        BY <4>1, <2>6, <2>9, <3>3 DEF FarHopFirm, RServers
      <4>3. EntryMayOpen' => EntryMayOpen
        BY <4>1 DEF EntryMayOpen, RServers
      <4>4. RouteStageOK'
        BY <1>1, <1>2, <2>1, <2>2, <2>6, <2>9, <3>3, <4>1, <4>2, <4>3 DEF RouteStageOK, Stopping, Live
      <4> QED  BY <1>3, <2>1, <3>1, <4>4 DEF RoutePlan
    <3> QED  BY <3>2, <3>3
  <2>11. /\ rleft' \in [{"hop", "change", "create", "edit", "retry", "fail"} -> Nat]
         /\ rleft'["create"] <= rleft["create"]
         /\ resv' \subseteq RServers \X Forwards \X Ports
    BY <1>3 DEF RouteTyped
  <2>12. Write(f, new)
    BY <1>6, <2>5
  <2> QED  BY <2>1, <2>2, <2>6, <2>7, <2>10, <2>11, <2>12, RowWritten
<1> QED  BY <1>4, <1>5, <1>6 DEF Toggle

(* An exact receipt: the host has what the row says. *)
LEMMA AppliedShows ==
  ASSUME RouteInv, NEW f \in Forwards, fwd[f] # None, fwd[f].on, ServerApplied(rsrv[At(f)])
  PROVE  Shows(f, rsrv[At(f)].doc) /\ Shows(f, rsrv[At(f)].run)
<1>1. At(f) \in RServers /\ RouteServerOK(At(f)) /\ rsrv[At(f)].seen /\ ~rsrv[At(f)].dirty
  BY RouteFacts DEF ServerApplied
<1>2. rsrv[At(f)].run = rsrv[At(f)].doc
  BY <1>1 DEF RouteServerOK, Receipts
<1>3. f \in On(At(f), fwd)
  BY DEF On
<1>4. f \in DOMAIN rsrv[At(f)].doc /\ rsrv[At(f)].doc[f] = ForwardSpec(fwd[f])
  BY <1>1, <1>3 DEF RouteServerOK
<1>5. ~(fwd[f].on /\ fwd[f].retired) /\ ForwardSpec(fwd[f]).blocked = (~fwd[f].on \/ fwd[f].retired)
  BY LatestReserved DEF RowFits, ForwardSpec
<1> QED  BY <1>2, <1>4, <1>5 DEF Shows

LEMMA HopFirm ==
  ASSUME RouteInv, fwd["xf"] # None, HopUp("xf")
  PROVE  FarHopFirm
<1>1. "xf" \in Forwards /\ At("xf") = "ix"
  BY DEF Forwards, At
<1> QED  BY <1>1, AppliedShows DEF HopUp, FarHopFirm

LEMMA ReconcileStarts ==
  ASSUME RouteInv, route # None, ~Stopping, route.stage # "retired", ReconcileStart,
         UNCHANGED <<resv, host, facts, rleft>>
  PROVE  RouteInv'
<1>1. /\ route.stage \in Opening /\ Live("ef") /\ (route.ix => Live("xf"))
  BY OpeningFacts
<1>2. \A st \in Opening : CloseEntry(st) => RouteInv'
  BY ToggleStep DEF CloseEntry
<1>3. \A st \in Opening : Remain(st) => RouteInv'
  <2> SUFFICES ASSUME NEW st \in Opening, Remain(st) PROVE RouteInv'
    OBVIOUS
  <2>1. Toggle("ef", fwd["ef"].on, st)
    BY DEF Toggle
  <2>2. fwd["ef"].on \in BOOLEAN /\ (fwd["ef"].on => EntryMayOpen)
    BY <1>1, RouteFacts DEF Live, RouteTyped, Row, Forwards, EntryMayOpen
  <2>3. fwd["ef"].on /\ route.ix => FarHopFirm
    BY <2>2, OpeningFacts
  <2> QED  BY <2>1, <2>2, <2>3, ToggleStep
<1>4. /\ "blocked" \in Opening /\ "pending_ix" \in Opening /\ "pending_entry" \in Opening
      /\ "pending_landing" \in Opening /\ "applied" \in Opening
  BY DEF Opening
<1>5. CASE ~facts.valid
  BY <1>2, <1>4, <1>5 DEF ReconcileStart
<1>6. CASE facts.valid /\ route.ix /\ ~HopUp("xf")
  <2>1. CASE OpenHop("xf", "pending_ix")
    <3>1. CASE Toggle("xf", TRUE, "pending_ix")
      BY <1>4, <1>6, <3>1, ToggleStep
    <3>2. CASE Remain("pending_landing")
      BY <1>3, <1>4, <3>2
    <3> QED  BY <2>1, <3>1, <3>2 DEF OpenHop
  <2>2. CASE CloseEntry("pending_ix")
    BY <1>2, <1>4, <2>2
  <2> QED  BY <1>6, <2>1, <2>2 DEF ReconcileStart
<1>7. CASE facts.valid /\ ~(route.ix /\ ~HopUp("xf"))
  <2>1. route.ix => FarHopFirm
    BY <1>1, <1>7, HopFirm DEF Live
  <2>2. CASE OpenHop("ef", "pending_entry")
    <3>1. CASE Toggle("ef", TRUE, "pending_entry")
      BY <1>4, <2>1, <3>1, ToggleStep
    <3>2. CASE Remain("pending_entry")
      BY <1>3, <1>4, <3>2
    <3> QED  BY <2>2, <3>1, <3>2 DEF OpenHop
  <2>3. CASE CloseEntry("pending_entry")
    BY <1>2, <1>4, <2>3
  <2>4. CASE Remain(IF ServerApplied(rsrv["entry"]) THEN "applied" ELSE "pending_entry")
    BY <1>3, <1>4, <2>4
  <2> QED  BY <1>7, <2>2, <2>3, <2>4 DEF ReconcileStart
<1> QED  BY <1>5, <1>6, <1>7

LEMMA ReconcileStops ==
  ASSUME RouteInv, route # None, Stopping, ReconcileStop,
         UNCHANGED <<resv, host, facts, rleft>>
  PROVE  RouteInv'
<1>1. RouteTyped /\ RoutePlan /\ RouteStageOK /\ route \in [stage : Stages, ix : BOOLEAN]
  BY RouteFacts DEF RouteTyped, RoutePlan
<1>2. {"stopping_ix", "retired"} \subseteq Stages
  BY DEF Stages
<1>3. fwd["ef"] = None
  BY <1>1 DEF ReconcileStop, Stopping, RouteStageOK
<1>4. ~EntryMayOpen
  <2>1. ForwardOK("ef", fwd["ef"], rsrv[At("ef")].doc, rsrv[At("ef")].run, resv) /\ At("ef") = "entry"
    BY RouteFacts DEF Forwards, At
  <2> QED  BY <1>3, <2>1 DEF EntryMayOpen, ForwardOK, NoRow, Shows
<1>5. CASE Remain("stopping_ix")
  <2>1. /\ route' \in [stage : Stages, ix : BOOLEAN] /\ route' # None
        /\ route'.stage = "stopping_ix" /\ route'.ix = route.ix /\ failing' = FALSE /\ failing' \in BOOLEAN
        /\ UNCHANGED <<fwd, rsrv>>
    BY <1>2, <1>5, EndInFacts DEF Remain
  <2>2. RoutePlan'
    BY <1>1, <1>3, <1>4, <2>1 DEF RoutePlan, RouteStageOK, Unused, Stopping, Live, EntryMayOpen, FarHopFirm
  <2> QED  BY <2>1, <2>2, RouteRemains
<1>6. CASE Remain("retired") /\ fwd["xf"] = None
  <2>1. /\ route' \in [stage : Stages, ix : BOOLEAN] /\ route' # None
        /\ route'.stage = "retired" /\ route'.ix = route.ix /\ failing' = FALSE /\ failing' \in BOOLEAN
        /\ UNCHANGED <<fwd, rsrv>>
    BY <1>2, <1>6, EndInFacts DEF Remain
  <2>2. RoutePlan'
    BY <1>1, <1>3, <1>4, <1>6, <2>1
       DEF RoutePlan, RouteStageOK, Unused, Stopping, Live, EntryMayOpen, FarHopFirm
  <2> QED  BY <2>1, <2>2, RouteRemains
<1>7. CASE Fails
  <2>1. UNCHANGED <<fwd, rsrv, route>> /\ failing' = TRUE
    BY <1>7 DEF Fails
  <2>2. RoutePlan'
    BY <1>1, <2>1 DEF RoutePlan, RouteStageOK, Unused, Stopping, Live, EntryMayOpen, FarHopFirm
  <2> QED  BY <1>1, <2>1, <2>2, RouteRemains
<1>8. CASE /\ fwd["xf"] # None /\ ~fwd["xf"].retired /\ route.ix
           /\ Write("xf", RetiredRow(fwd["xf"])) /\ EndIn("stopping_ix")
  <2>1. /\ route' \in [stage : Stages, ix : BOOLEAN] /\ route' # None
        /\ route'.stage = "stopping_ix" /\ route'.ix = route.ix /\ failing' = FALSE /\ failing' \in BOOLEAN
    BY <1>2, <1>8, EndInFacts
  <2>2. "xf" \in Forwards
    BY DEF Forwards
  <2>3. /\ fwd["xf"] \in Row /\ Len(fwd["xf"].ports) >= 1
        /\ <<At("xf"), "xf", fwd["xf"].ports[Len(fwd["xf"].ports)]>> \in resv
    BY <1>8, <2>2, LatestReserved
  <2>4. PICK new : new = RetiredRow(fwd["xf"])
    OBVIOUS
  <2>5. /\ new \in Row /\ ~new.on /\ new.retired
        /\ Len(new.ports) = Len(fwd["xf"].ports) + 1
        /\ \A i \in 1..Len(fwd["xf"].ports) : new.ports[i] = fwd["xf"].ports[i]
        /\ new.ports[Len(fwd["xf"].ports) + 1] = fwd["xf"].ports[Len(fwd["xf"].ports)]
    BY <2>3, <2>4, LastRevision
  <2>6. <<At("xf"), "xf", new.ports[Len(new.ports)]>> \in resv'
    BY <2>3, <2>5
  <2>7. fwd'["xf"] = new /\ fwd'["ef"] = fwd["ef"] /\ fwd'["own"] = fwd["own"]
    BY <1>1, <1>8, <2>4 DEF Write, RouteTyped, Forwards
  <2>8. (\A s \in RServers : rsrv'[s].doc = rsrv[s].doc /\ rsrv'[s].run = rsrv[s].run) => RoutePlan'
    <3> SUFFICES ASSUME \A s \in RServers : rsrv'[s].doc = rsrv[s].doc /\ rsrv'[s].run = rsrv[s].run
                 PROVE  RoutePlan'
      OBVIOUS
    <3>1. Unused("own") => Unused("own")'
      BY <2>7 DEF Unused, At, RServers
    <3>2. ~EntryMayOpen'
      BY <1>3, <1>4, <2>7 DEF EntryMayOpen, RServers
    <3>3. RouteStageOK'
      BY <1>3, <1>8, <2>1, <2>7, <3>2 DEF RouteStageOK, Stopping, Live
    <3> QED  BY <1>1, <2>1, <3>1, <3>3 DEF RoutePlan
  <2>9. /\ rleft' \in [{"hop", "change", "create", "edit", "retry", "fail"} -> Nat]
        /\ rleft'["create"] <= rleft["create"]
        /\ resv' \subseteq RServers \X Forwards \X Ports
    BY <1>1 DEF RouteTyped
  <2>10. Write("xf", new)
    BY <1>8, <2>4
  <2> QED  BY <1>8, <2>1, <2>2, <2>5, <2>6, <2>8, <2>9, <2>10, RowWritten
<1> QED
  <2>1. CASE route.stage = "stopping_entry" /\ route.ix /\ RetireIX
    BY <1>5, <1>7, <1>8, <2>1 DEF RetireIX
  <2>2. CASE route.stage = "stopping_entry" /\ ~route.ix /\ Remain("retired")
    BY <1>1, <1>6, <2>2 DEF RouteStageOK
  <2>3. CASE fwd["xf"] = None /\ Remain("retired")
    BY <1>6, <2>3
  <2> QED  BY <2>1, <2>2, <2>3 DEF ReconcileStop

LEMMA RouteReconcile ==
  ASSUME RouteInv, RouteWorker
  PROVE  RouteInv'
<1>1. CASE ReconcileAccessRoute
  BY <1>1, ReconcileStarts, ReconcileStops DEF ReconcileAccessRoute
<1>2. CASE AccessRouteReconcileFailed
  <2>1. failing /\ route # None /\ route.stage # "retired" /\ UNCHANGED <<resv, host, facts, rleft>>
    BY <1>2, RouteFacts DEF AccessRouteReconcileFailed, RoutePlan
  <2>2. CASE Remain(route.stage)
    <3>1. route.stage \in Stages /\ RoutePlan
      BY <2>1, RouteFacts DEF RouteTyped
    <3>2. /\ route' \in [stage : Stages, ix : BOOLEAN] /\ route' # None
          /\ route'.stage = route.stage /\ route'.ix = route.ix /\ failing' = FALSE /\ failing' \in BOOLEAN
          /\ UNCHANGED <<fwd, rsrv>>
      BY <2>1, <2>2, <3>1, EndInFacts DEF Remain
    <3>3. RoutePlan'
      BY <2>1, <3>1, <3>2 DEF RoutePlan, RouteStageOK, Unused, Stopping, Live, EntryMayOpen, FarHopFirm
    <3> QED  BY <2>1, <3>2, <3>3, RouteRemains
  <2>3. CASE ~Stopping /\ CloseEntry("blocked")
    BY <2>1, <2>3, ToggleStep DEF CloseEntry, Opening
  <2> QED  BY <1>2, <2>2, <2>3 DEF AccessRouteReconcileFailed
<1> QED  BY <1>1, <1>2 DEF RouteWorker

LEMMA RouteStop ==
  ASSUME RouteInv, StopAccessRoute
  PROVE  RouteInv'
<1>1. /\ route # None /\ ~Stopping /\ route.stage # "retired" /\ UNCHANGED <<resv, host, facts, failing, rleft>>
      /\ Write("ef", RetiredRow(fwd["ef"])) /\ route' = [route EXCEPT !.stage = "stopping_entry"]
  BY DEF StopAccessRoute
<1>2. /\ RouteTyped /\ RoutePlan /\ route \in [stage : Stages, ix : BOOLEAN]
      /\ Live("ef") /\ (route.ix => Live("xf")) /\ (~route.ix => fwd["xf"] = None)
      /\ route.ix /\ EntryMayOpen => FarHopFirm
  BY <1>1, RouteFacts, OpeningFacts
<1>3. /\ route' \in [stage : Stages, ix : BOOLEAN] /\ route'.stage = "stopping_entry" /\ route'.ix = route.ix
  BY <1>1, <1>2 DEF Stages
<1>4. route' # None
  BY <1>3, RoutesAssumption
<1>5. "ef" \in Forwards /\ fwd["ef"] # None /\ ~fwd["ef"].retired
  BY <1>2 DEF Forwards, Live
<1>6. /\ fwd["ef"] \in Row /\ Len(fwd["ef"].ports) >= 1
      /\ <<At("ef"), "ef", fwd["ef"].ports[Len(fwd["ef"].ports)]>> \in resv
  BY <1>5, LatestReserved
<1>7. PICK new : new = RetiredRow(fwd["ef"])
  OBVIOUS
<1>8. /\ new \in Row /\ ~new.on /\ new.retired
      /\ Len(new.ports) = Len(fwd["ef"].ports) + 1
      /\ \A i \in 1..Len(fwd["ef"].ports) : new.ports[i] = fwd["ef"].ports[i]
      /\ new.ports[Len(fwd["ef"].ports) + 1] = fwd["ef"].ports[Len(fwd["ef"].ports)]
  BY <1>6, <1>7, LastRevision
<1>9. <<At("ef"), "ef", new.ports[Len(new.ports)]>> \in resv'
  BY <1>1, <1>6, <1>8
<1>10. fwd'["ef"] = new /\ fwd'["xf"] = fwd["xf"] /\ fwd'["own"] = fwd["own"]
  BY <1>1, <1>2, <1>7 DEF Write, RouteTyped, Forwards
<1>11. (\A s \in RServers : rsrv'[s].doc = rsrv[s].doc /\ rsrv'[s].run = rsrv[s].run) => RoutePlan'
  <2> SUFFICES ASSUME \A s \in RServers : rsrv'[s].doc = rsrv[s].doc /\ rsrv'[s].run = rsrv[s].run
               PROVE  RoutePlan'
    OBVIOUS
  <2>1. Unused("own") => Unused("own")'
    BY <1>10 DEF Unused, At, RServers
  <2>2. (EntryMayOpen' => EntryMayOpen) /\ (FarHopFirm => FarHopFirm')
    BY <1>8, <1>10 DEF EntryMayOpen, FarHopFirm, RServers
  <2>3. RouteStageOK'
    BY <1>2, <1>3, <1>8, <1>10, <2>2 DEF RouteStageOK, Stopping, Live
  <2> QED  BY <1>1, <1>2, <1>3, <1>4, <2>1, <2>3 DEF RoutePlan
<1>12. /\ rleft' \in [{"hop", "change", "create", "edit", "retry", "fail"} -> Nat]
       /\ rleft'["create"] <= rleft["create"] /\ failing' \in BOOLEAN
       /\ resv' \subseteq RServers \X Forwards \X Ports
  BY <1>1, <1>2 DEF RouteTyped
<1>13. Write("ef", new)
  BY <1>1, <1>7
<1> QED  BY <1>1, <1>3, <1>5, <1>8, <1>9, <1>11, <1>12, <1>13, RowWritten

LEMMA RouteRetry ==
  ASSUME RouteInv, RetryAccessRoute
  PROVE  RouteInv'
<1>1. /\ Spend("retry") /\ RouteBump(RouteServers(route.ix))
      /\ UNCHANGED <<fwd, resv, route, host, facts, failing>>
  BY DEF RetryAccessRoute, RouteBump
<1>2. RouteTyped /\ RoutePlan
  BY RouteFacts
<1>3. /\ rleft' \in [{"hop", "change", "create", "edit", "retry", "fail"} -> Nat]
      /\ rleft'["create"] = rleft["create"] /\ rleft["create"] \in Nat
  BY <1>1, <1>2, SpendFacts DEF RouteTyped
<1>4. (\A s \in RServers : rsrv'[s].doc = rsrv[s].doc /\ rsrv'[s].run = rsrv[s].run) => RoutePlan'
  BY <1>1, <1>2, <1>3
     DEF RoutePlan, RouteStageOK, Unused, Stopping, Live, EntryMayOpen, FarHopFirm, RServers, At
<1>5. \A f \in Forwards : ForwardOK(f, fwd'[f], rsrv[At(f)].doc, rsrv[At(f)].run, resv')
  BY <1>1, RouteFacts
<1>6. /\ host' \in [RServers -> [frozen : BOOLEAN, committed : BOOLEAN]]
      /\ \A q \in RServers : host'[q].committed => host'[q].frozen
      /\ fwd' \in [Forwards -> Row \cup {None}] /\ resv' \subseteq RServers \X Forwards \X Ports
      /\ route' \in [stage : Stages, ix : BOOLEAN] \cup {None} /\ failing' \in BOOLEAN
      /\ rleft'["create"] <= rleft["create"]
  BY <1>1, <1>3, RouteFacts DEF RouteTyped, RouteServerOK
<1> QED  BY <1>1, <1>3, <1>4, <1>5, <1>6, RouteRowStep

LEMMA FreshRow ==
  ASSUME NEW p \in Ports, NEW on \in BOOLEAN
  PROVE  LET row == [NewRow(p) EXCEPT !.on = on]
         IN  /\ row \in Row /\ row # None /\ Len(row.ports) = 1 /\ row.ports[1] = p
             /\ row.on = on /\ ~row.retired
<1>1. PICK q : q = <<p>>
  OBVIOUS
<1>2. q \in Seq(Ports) /\ Len(q) = 1 /\ q[1] = p
  BY <1>1
<1>3. [NewRow(p) EXCEPT !.on = on] = [on |-> on, retired |-> FALSE, ports |-> q]
  <2>1. NewRow(p) = [on |-> FALSE, retired |-> FALSE, ports |-> q]
    BY <1>1, Zenon DEF NewRow
  <2>2. PICK r : r = [on |-> FALSE, retired |-> FALSE, ports |-> q]
    OBVIOUS
  <2>3. PICK S : S = Seq(Ports)
    OBVIOUS
  <2>4. r \in [on : BOOLEAN, retired : BOOLEAN, ports : S] /\ r.retired = FALSE /\ r.ports = q
    BY <1>2, <2>2, <2>3
  <2>5. [r EXCEPT !.on = on] = [on |-> on, retired |-> r.retired, ports |-> r.ports]
    BY <2>4
  <2> QED  BY <2>1, <2>2, <2>4, <2>5, Zenon
<1>4. [on |-> on, retired |-> FALSE, ports |-> q] \in Row
  BY <1>2 DEF Row
<1> QED  BY <1>2, <1>3, <1>4, RoutesNone

LEMMA RouteCreate ==
  ASSUME RouteInv, CreateAccessRoute
  PROVE  RouteInv'
<1>1. PICK ix \in BOOLEAN, p \in Ports :
        /\ route' = [stage |-> "pending_landing", ix |-> ix]
        /\ fwd' = [fwd EXCEPT !["ef"] = NewRow(p), !["xf"] = IF ix THEN NewRow(p) ELSE None]
        /\ resv' = resv \cup {<<"entry", "ef", p>>} \cup (IF ix THEN {<<"ix", "xf", p>>} ELSE {})
        /\ rsrv' = [s \in RServers |-> IF s \in RouteServers(ix) THEN Bumped(rsrv[s]) ELSE rsrv[s]]
  BY DEF CreateAccessRoute
<1>2. route = None /\ UNCHANGED <<host, facts, failing, rleft>>
  BY DEF CreateAccessRoute
<1>3. RouteTyped /\ RoutePlan /\ Unused("ef") /\ Unused("xf") /\ ~failing
  BY <1>2, RouteFacts DEF RoutePlan
<1>4. PICK row : row = NewRow(p)
  OBVIOUS
<1>5. row \in Row /\ row # None /\ Len(row.ports) = 1 /\ row.ports[1] = p /\ ~row.on /\ ~row.retired
  <2>1. PICK q : q = <<p>>
    OBVIOUS
  <2>2. q \in Seq(Ports) /\ Len(q) = 1 /\ q[1] = p
    BY <2>1
  <2>3. row = [on |-> FALSE, retired |-> FALSE, ports |-> q]
    BY <1>4, <2>1, Zenon DEF NewRow
  <2>4. row \in Row
    BY <2>2, <2>3 DEF Row
  <2> QED  BY <2>2, <2>3, <2>4, RoutesNone
<1>6. /\ fwd' \in [Forwards -> Row \cup {None}] /\ fwd'["own"] = fwd["own"]
      /\ fwd'["ef"] = row /\ fwd'["xf"] = IF ix THEN row ELSE None
  BY <1>1, <1>3, <1>4, <1>5 DEF RouteTyped, Forwards
<1>7. /\ route' \in [stage : Stages, ix : BOOLEAN] /\ route' # None
      /\ route'.stage = "pending_landing" /\ route'.ix = ix
  BY <1>1, RoutesNone DEF Stages
<1>8. RouteBump(RouteServers(ix))
  BY <1>1 DEF RouteBump
<1>9. \A f \in Forwards : fwd'[f] # fwd[f] => At(f) \in RouteServers(ix)
  BY <1>3, <1>6 DEF Forwards, At, RouteServers, RServers, Unused
<1>10. resv' \subseteq RServers \X Forwards \X Ports
  BY <1>1, <1>3 DEF RouteTyped, RServers, Forwards
<1>11. \A f \in Forwards : ForwardOK(f, fwd'[f], rsrv[At(f)].doc, rsrv[At(f)].run, resv')
  <2>1. ForwardOK("ef", row, rsrv[At("ef")].doc, rsrv[At("ef")].run, resv')
    <3>1. <<At("ef"), "ef", row.ports[1]>> \in resv'
      BY <1>1, <1>5 DEF At
    <3> QED  BY <1>3, <1>5, <3>1, ForwardCreated DEF Unused
  <2>2. ix => ForwardOK("xf", row, rsrv[At("xf")].doc, rsrv[At("xf")].run, resv')
    <3>1. ix => <<At("xf"), "xf", row.ports[1]>> \in resv'
      BY <1>1, <1>5 DEF At
    <3> QED  BY <1>3, <1>5, <3>1, ForwardCreated DEF Unused
  <2>3. ASSUME NEW f \in Forwards, f = "own" \/ (f = "xf" /\ ~ix)
        PROVE  ForwardOK(f, fwd'[f], rsrv[At(f)].doc, rsrv[At(f)].run, resv')
    <3>1. fwd'[f] = fwd[f]
      BY <1>3, <1>6, <2>3 DEF Unused
    <3>2. resv \subseteq resv' /\ \A x \in resv' \ resv : x[2] # f
      BY <1>1, <2>3
    <3>3. ForwardOK(f, fwd[f], rsrv[At(f)].doc, rsrv[At(f)].run, resv)
      BY RouteFacts
    <3> QED  BY <3>1, <3>2, <3>3, ForwardReserves
  <2> QED  BY <1>6, <2>1, <2>2, <2>3 DEF Forwards
<1>12. (\A s \in RServers : rsrv'[s].doc = rsrv[s].doc /\ rsrv'[s].run = rsrv[s].run) => RoutePlan'
  <2> SUFFICES ASSUME \A s \in RServers : rsrv'[s].doc = rsrv[s].doc /\ rsrv'[s].run = rsrv[s].run
               PROVE  RoutePlan'
    OBVIOUS
  <2>1. Unused("own") => Unused("own")'
    BY <1>6 DEF Unused, At, RServers
  <2>2. ~EntryMayOpen'
    BY <1>3, <1>5, <1>6 DEF EntryMayOpen, Unused, At, RServers, Shows
  <2>3. RouteStageOK'
    BY <1>5, <1>6, <1>7, <2>2 DEF RouteStageOK, Stopping, Live
  <2> QED  BY <1>2, <1>3, <1>7, <2>1, <2>3 DEF RoutePlan
<1>13. /\ host' \in [RServers -> [frozen : BOOLEAN, committed : BOOLEAN]]
       /\ \A q \in RServers : host'[q].committed => host'[q].frozen
       /\ failing' \in BOOLEAN /\ rleft' \in [{"hop", "change", "create", "edit", "retry", "fail"} -> Nat]
       /\ rleft'["create"] <= rleft["create"]
  BY <1>2, RouteFacts DEF RouteTyped, RouteServerOK
<1> QED  BY <1>2, <1>6, <1>7, <1>8, <1>9, <1>10, <1>11, <1>12, <1>13, RouteRowStep

(* The administrator's forward is none of the route's. *)
LEMMA OwnPlan ==
  ASSUME RoutePlan, UNCHANGED <<route, failing>>, fwd'["ef"] = fwd["ef"], fwd'["xf"] = fwd["xf"],
         rleft'["create"] > 0 => rleft["create"] > 0 /\ fwd'["own"] = fwd["own"],
         \A s \in RServers : rsrv'[s].doc = rsrv[s].doc /\ rsrv'[s].run = rsrv[s].run
  PROVE  RoutePlan'
<1>1. /\ (EntryMayOpen' <=> EntryMayOpen)
      /\ (FarHopFirm' <=> FarHopFirm)
  BY DEF EntryMayOpen, FarHopFirm, RServers
<1>2. /\ Unused("ef") => Unused("ef")'
      /\ Unused("xf") => Unused("xf")'
      /\ rleft'["create"] > 0 /\ Unused("own") => Unused("own")'
  BY DEF Unused, At, RServers
<1> QED  BY <1>1, <1>2 DEF RoutePlan, RouteStageOK, Stopping, Live

LEMMA RouteOwn ==
  ASSUME RouteInv, RequestPortForward
  PROVE  RouteInv'
<1>1. UNCHANGED <<route, host, facts, failing>>
  BY DEF RequestPortForward
<1>2. RouteTyped /\ RoutePlan /\ "own" \in Forwards /\ At("own") = "entry"
  BY RouteFacts DEF Forwards, At
<1>3. /\ host' \in [RServers -> [frozen : BOOLEAN, committed : BOOLEAN]]
      /\ \A q \in RServers : host'[q].committed => host'[q].frozen
      /\ route' \in [stage : Stages, ix : BOOLEAN] \cup {None} /\ failing' \in BOOLEAN
  BY <1>1, RouteFacts DEF RouteTyped, RouteServerOK
<1>4. CASE OwnCreate
  <2>1. PICK p \in Ports, on \in BOOLEAN :
          /\ Spend("create") /\ Write("own", [NewRow(p) EXCEPT !.on = on])
          /\ resv' = resv \cup {<<"entry", "own", p>>}
    BY <1>4 DEF OwnCreate
  <2>2. /\ rleft' \in [{"hop", "change", "create", "edit", "retry", "fail"} -> Nat]
        /\ rleft["create"] = 1 /\ rleft'["create"] = 0
    BY <1>2, <2>1, SpendFacts
  <2>3. Unused("own")
    BY <1>2, <2>2 DEF RoutePlan
  <2>4. PICK row : row = [NewRow(p) EXCEPT !.on = on]
    OBVIOUS
  <2>5. row \in Row /\ row # None /\ Len(row.ports) = 1 /\ row.ports[1] = p /\ row.on = on /\ ~row.retired
    BY <2>4, FreshRow
  <2>6. /\ fwd' = [fwd EXCEPT !["own"] = row] /\ rsrv' = [rsrv EXCEPT !["entry"] = Bumped(@)]
    BY <1>2, <2>1, <2>4 DEF Write
  <2>7. /\ fwd' \in [Forwards -> Row \cup {None}] /\ fwd'["own"] = row
        /\ \A f \in Forwards \ {"own"} : fwd'[f] = fwd[f]
    BY <1>2, <2>5, <2>6 DEF RouteTyped
  <2>8. RouteBump({"entry"})
    BY <1>2, <2>6 DEF RouteTyped, RouteBump
  <2>9. resv' \subseteq RServers \X Forwards \X Ports
    BY <1>2, <2>1 DEF RouteTyped, RServers
  <2>10. ForwardOK("own", row, rsrv[At("own")].doc, rsrv[At("own")].run, resv')
    <3>1. <<At("own"), "own", row.ports[1]>> \in resv'
      BY <1>2, <2>1, <2>5
    <3> QED  BY <2>3, <2>5, <3>1, ForwardCreated DEF Unused
  <2>11. ASSUME NEW f \in Forwards \ {"own"}
         PROVE  ForwardOK(f, fwd'[f], rsrv[At(f)].doc, rsrv[At(f)].run, resv')
    <3>1. resv \subseteq resv' /\ \A x \in resv' \ resv : x[2] # f
      BY <2>1
    <3>2. ForwardOK(f, fwd[f], rsrv[At(f)].doc, rsrv[At(f)].run, resv) /\ fwd'[f] = fwd[f]
      BY <2>7, RouteFacts
    <3> QED  BY <3>1, <3>2, ForwardReserves
  <2>12. (\A s \in RServers : rsrv'[s].doc = rsrv[s].doc /\ rsrv'[s].run = rsrv[s].run) => RoutePlan'
    BY <1>1, <1>2, <2>2, <2>7, OwnPlan DEF Forwards
  <2>13. \A f \in Forwards : ForwardOK(f, fwd'[f], rsrv[At(f)].doc, rsrv[At(f)].run, resv')
    BY <2>7, <2>10, <2>11
  <2>14. (\A f \in Forwards : fwd'[f] # fwd[f] => At(f) \in {"entry"}) /\ rleft'["create"] <= rleft["create"]
    BY <1>2, <2>2, <2>7
  <2> QED  BY <1>1, <1>3, <2>2, <2>7, <2>8, <2>9, <2>12, <2>13, <2>14, RouteRowStep
<1>5. ASSUME Spend("edit"), fwd["own"] # None, ~fwd["own"].retired, NEW new \in Row, Write("own", new),
             ~(new.on /\ new.retired), Len(new.ports) = Len(fwd["own"].ports) + 1,
             \A i \in 1..Len(fwd["own"].ports) : new.ports[i] = fwd["own"].ports[i],
             new.ports[Len(new.ports)] \in Ports,
             resv \subseteq resv', \A x \in resv' \ resv : x = <<"entry", "own", new.ports[Len(new.ports)]>>,
             <<"entry", "own", new.ports[Len(new.ports)]>> \in resv'
      PROVE  RouteInv'
  <2>1. /\ rleft' \in [{"hop", "change", "create", "edit", "retry", "fail"} -> Nat]
        /\ rleft'["create"] = rleft["create"] /\ rleft["create"] \in Nat
    BY <1>2, <1>5, SpendFacts DEF RouteTyped
  <2>2. rleft["create"] = 0
    BY <1>2, <1>5, <2>1 DEF RoutePlan, Unused
  <2>3. fwd'["ef"] = fwd["ef"] /\ fwd'["xf"] = fwd["xf"]
    BY <1>2, <1>5 DEF Write, RouteTyped, Forwards
  <2>4. (\A s \in RServers : rsrv'[s].doc = rsrv[s].doc /\ rsrv'[s].run = rsrv[s].run) => RoutePlan'
    BY <1>1, <1>2, <2>1, <2>2, <2>3, OwnPlan
  <2>5. \A x \in resv' \ resv : x[2] = "own"
    BY <1>5
  <2>6. resv' \subseteq RServers \X Forwards \X Ports
    BY <1>2, <1>5 DEF RouteTyped, RServers
  <2>7. <<At("own"), "own", new.ports[Len(new.ports)]>> \in resv' /\ rleft'["create"] <= rleft["create"]
    BY <1>2, <1>5, <2>1
  <2>8. "own" \in Forwards /\ UNCHANGED <<host, facts>>
    BY <1>1, <1>2
  <2> QED  BY <1>3, <1>5, <2>1, <2>4, <2>5, <2>6, <2>7, <2>8, RowWritten
<1>6. CASE OwnUpdate
  <2>1. PICK p \in Ports, on \in BOOLEAN :
          /\ Spend("edit") /\ fwd["own"] # None /\ ~fwd["own"].retired
          /\ Write("own", Updated(fwd["own"], on, p))
          /\ resv' = resv \cup {<<"entry", "own", p>>}
    BY <1>6 DEF OwnUpdate
  <2>2. PICK new : new = Updated(fwd["own"], on, p)
    OBVIOUS
  <2>3. fwd["own"] \in Row /\ Len(fwd["own"].ports) >= 1
    BY <1>2, <2>1, LatestReserved
  <2>4. /\ new \in Row /\ new.retired = fwd["own"].retired
        /\ Len(new.ports) = Len(fwd["own"].ports) + 1
        /\ \A i \in 1..Len(fwd["own"].ports) : new.ports[i] = fwd["own"].ports[i]
        /\ new.ports[Len(new.ports)] = p
    BY <2>2, <2>3, NewRevision
  <2>5. Write("own", new) /\ ~(new.on /\ new.retired)
    BY <2>1, <2>2, <2>4
  <2> QED  BY <1>5, <2>1, <2>4, <2>5
<1>7. CASE OwnDelete
  <2>1. /\ Spend("edit") /\ fwd["own"] # None /\ ~fwd["own"].retired
        /\ Write("own", RetiredRow(fwd["own"])) /\ UNCHANGED resv
    BY <1>7 DEF OwnDelete
  <2>2. PICK new : new = RetiredRow(fwd["own"])
    OBVIOUS
  <2>3. /\ fwd["own"] \in Row /\ Len(fwd["own"].ports) >= 1 /\ fwd["own"].ports[Len(fwd["own"].ports)] \in Ports
        /\ <<"entry", "own", fwd["own"].ports[Len(fwd["own"].ports)]>> \in resv
    BY <1>2, <2>1, LatestReserved
  <2>4. /\ new \in Row /\ ~new.on
        /\ Len(new.ports) = Len(fwd["own"].ports) + 1
        /\ \A i \in 1..Len(fwd["own"].ports) : new.ports[i] = fwd["own"].ports[i]
        /\ new.ports[Len(new.ports)] = fwd["own"].ports[Len(fwd["own"].ports)]
    BY <2>2, <2>3, LastRevision
  <2>5. Write("own", new)
    BY <2>1, <2>2
  <2> QED  BY <1>5, <2>1, <2>3, <2>4, <2>5
<1> QED  BY <1>4, <1>6, <1>7 DEF RequestPortForward

(* A receipt is committed: what it says is gone loses its row and its
   reservations, and no other forward loses anything that runs. *)
LEMMA ForwardKeeps ==
  ASSUME NEW f, NEW row, NEW doc, NEW run, NEW R, NEW R2, ForwardOK(f, row, doc, run, R),
         R2 \subseteq R, \A i \in 1..Len(row.ports) :
           <<At(f), f, row.ports[i]>> \in R => <<At(f), f, row.ports[i]>> \in R2
  PROVE  ForwardOK(f, row, doc, run, R2)
  BY DEF ForwardOK, RowFits, NoRow

LEMMA RouteCommit ==
  ASSUME RouteInv, NEW s \in RServers, CommitForwardReceipt(s)
  PROVE  RouteInv'
<1>1. PICK doc : doc = rsrv[s].run
  OBVIOUS
<1>2. PICK G : G = Gone(doc)
  OBVIOUS
<1>3. /\ host[s].frozen /\ Acceptable(s)
      /\ \A f \in G : fwd[f].retired /\ Len(fwd[f].ports) = doc[f].rev
      /\ host' = [host EXCEPT ![s].committed = TRUE]
      /\ fwd' = [f \in Forwards |-> IF f \in G THEN None ELSE fwd[f]]
      /\ resv' = resv \ Released(doc)
      /\ rsrv' = IF G = {} THEN rsrv ELSE [rsrv EXCEPT ![s] = Bumped(@)]
      /\ UNCHANGED <<route, facts, failing, rleft>>
  BY <1>1, <1>2 DEF CommitForwardReceipt
<1>4. RouteTyped /\ RoutePlan /\ \A f \in DOMAIN doc : doc[f] \in Specs /\ f \in Forwards /\ At(f) = s
  BY <1>1, RouteFacts
<1>5. \A f : f \in G <=> f \in DOMAIN doc /\ doc[f].retired
  BY <1>2 DEF Gone
<1>6. \A f \in G : f \in Forwards /\ At(f) = s /\ fwd[f] # None /\ fwd[f].retired /\ Len(fwd[f].ports) = doc[f].rev
  BY <1>1, <1>3, <1>4, <1>5 DEF Acceptable
<1>7. /\ host' \in [RServers -> [frozen : BOOLEAN, committed : BOOLEAN]]
      /\ \A q \in RServers : host'[q].committed => host'[q].frozen
  <2>1. /\ host \in [RServers -> [frozen : BOOLEAN, committed : BOOLEAN]]
        /\ \A q \in RServers : host[q].committed => host[q].frozen
    BY RouteFacts DEF RouteTyped, RouteServerOK
  <2> QED  BY <1>3, <2>1
<1>8. /\ fwd' \in [Forwards -> Row \cup {None}]
      /\ \A f \in Forwards : fwd'[f] = IF f \in G THEN None ELSE fwd[f]
  BY <1>3, <1>4 DEF RouteTyped
<1>9. resv' \subseteq resv /\ resv' \subseteq RServers \X Forwards \X Ports
  BY <1>3, <1>4 DEF RouteTyped
<1>10. PICK S : S = IF G = {} THEN {} ELSE {s}
  OBVIOUS
<1>11. RouteBump(S)
  <2>1. CASE G = {}
    BY <1>3, <1>4, <1>10, <2>1 DEF RouteTyped, RouteBump
  <2>2. CASE G # {}
    BY <1>3, <1>4, <1>10, <2>2 DEF RouteTyped, RouteBump
  <2> QED  BY <2>1, <2>2
<1>12. \A f \in Forwards : fwd'[f] # fwd[f] => At(f) \in S
  BY <1>6, <1>8, <1>10
<1>13. ASSUME NEW f \in Forwards
       PROVE  ForwardOK(f, fwd'[f], rsrv[At(f)].doc, rsrv[At(f)].run, resv')
  <2>1. ForwardOK(f, fwd[f], rsrv[At(f)].doc, rsrv[At(f)].run, resv)
    BY RouteFacts
  <2>2. CASE f \notin DOMAIN doc
    <3>1. fwd'[f] = fwd[f]
      BY <1>5, <1>8, <2>2
    <3>2. \A p : <<At(f), f, p>> \in resv => <<At(f), f, p>> \in resv'
      BY <1>3, <2>2 DEF Released
    <3> QED  BY <1>9, <2>1, <3>1, <3>2, ForwardKeeps
  <2>3. CASE f \in DOMAIN doc
    <3>1. At(f) = s /\ rsrv[At(f)].run = doc /\ At(f) \in RServers
      BY <1>1, <1>4, <2>3
    <3>2. PICK gone \in BOOLEAN : gone <=> f \in G
      OBVIOUS
    <3>3. gone <=> f \in DOMAIN doc /\ doc[f].retired
      BY <1>5, <3>2
    <3>4. gone => fwd[f] # None /\ Len(fwd[f].ports) = doc[f].rev
      BY <1>6, <3>2
    <3>5. gone => \A x \in resv' : x[2] # f
      BY <1>3, <3>3 DEF Released
    <3>6. ~gone => \A i \in 1..Len(fwd[f].ports) :
            (f \in DOMAIN doc => doc[f].rev <= i) /\ <<At(f), f, fwd[f].ports[i]>> \in resv
              => <<At(f), f, fwd[f].ports[i]>> \in resv'
      <4> SUFFICES ASSUME ~gone, NEW i \in 1..Len(fwd[f].ports), doc[f].rev <= i,
                          <<At(f), f, fwd[f].ports[i]>> \in resv
                   PROVE  <<At(f), f, fwd[f].ports[i]>> \notin Released(doc)
        BY <1>3, <2>3
      <4>1. doc[f].rev \in Nat /\ fwd[f] # None /\ Len(fwd[f].ports) \in Nat
        BY <1>1, <1>3, <1>4, <2>3 DEF Acceptable, Specs, RouteTyped, Row
      <4>2. fwd[f].ports[i] \in StillUsed(f, doc[f].rev)
        BY <4>1 DEF StillUsed
      <4>3. ~doc[f].retired
        BY <2>3, <3>3
      <4> QED  BY <4>2, <4>3 DEF Released
    <3>7. /\ f \in DOMAIN rsrv[At(f)].doc => rsrv[At(f)].doc[f].rev \in Nat
          /\ f \in DOMAIN doc => doc[f].rev \in Nat
      BY <1>4, <3>1, RouteFacts DEF Specs
    <3>8. fwd[f] \in Row \cup {None} /\ ForwardOK(f, fwd[f], rsrv[At(f)].doc, doc, resv)
      BY <1>4, <2>1, <3>1 DEF RouteTyped
    <3>9. ForwardOK(f, IF gone THEN None ELSE fwd[f], rsrv[At(f)].doc, doc, resv')
      BY <1>9, <3>3, <3>4, <3>5, <3>6, <3>7, <3>8, ForwardCommitted
    <3>10. fwd'[f] = IF gone THEN None ELSE fwd[f]
      BY <1>8, <3>2
    <3> QED  BY <3>1, <3>9, <3>10
  <2> QED  BY <2>2, <2>3
<1>14. (\A q \in RServers : rsrv'[q].doc = rsrv[q].doc /\ rsrv'[q].run = rsrv[q].run) => RoutePlan'
  <2> SUFFICES ASSUME \A q \in RServers : rsrv'[q].doc = rsrv[q].doc /\ rsrv'[q].run = rsrv[q].run
               PROVE  RoutePlan'
    OBVIOUS
  <2>1. \A f \in Forwards : Unused(f) => Unused(f)'
    BY <1>8, RouteFacts DEF Unused
  <2>2. \A f \in Forwards : /\ fwd[f] = None => fwd'[f] = None
                            /\ fwd'[f] # None => fwd'[f] = fwd[f]
                            /\ fwd[f] # None /\ ~fwd[f].retired => fwd'[f] = fwd[f]
    BY <1>6, <1>8
  <2>3. \A f \in Forwards : fwd[f] # None /\ fwd[f].on => ~fwd[f].retired
    BY RouteFacts DEF ForwardOK, RowFits
  <2>4. EntryMayOpen' => EntryMayOpen
    BY <2>2 DEF EntryMayOpen, RServers, Forwards
  <2>5. FarHopFirm => FarHopFirm'
    BY <2>2, <2>3 DEF FarHopFirm, RServers, Forwards
  <2>6. RouteStageOK => RouteStageOK'
    BY <1>3, <2>2, <2>4, <2>5 DEF RouteStageOK, Stopping, Live, Forwards
  <2> QED  BY <1>3, <1>4, <2>1, <2>6 DEF RoutePlan, Forwards
<1>15. /\ route' \in [stage : Stages, ix : BOOLEAN] \cup {None} /\ failing' \in BOOLEAN
       /\ rleft' \in [{"hop", "change", "create", "edit", "retry", "fail"} -> Nat]
       /\ rleft'["create"] <= rleft["create"] /\ UNCHANGED facts
  BY <1>3, <1>4 DEF RouteTyped
<1> QED  BY <1>7, <1>8, <1>9, <1>11, <1>12, <1>13, <1>14, <1>15, RouteRowStep

LEMMA RouteStarts ==
  ASSUME RouteInit
  PROVE  RouteInv
<1>1. PICK nothing : nothing = <<>>
  OBVIOUS
<1>2. nothing \in RouteDocs /\ DOMAIN nothing = {}
  <2>1. nothing \in [{} -> Specs] /\ {} \in SUBSET Forwards
    BY <1>1
  <2> QED  BY <2>1 DEF RouteDocs
<1>3. /\ \A s \in RServers : rsrv[s] = NewServer(nothing)
      /\ rsrv = [s \in RServers |-> rsrv[s]]
  BY <1>1 DEF RouteInit
<1>4. /\ NewServer(nothing) \in Server(RouteDocs) /\ Receipts(NewServer(nothing))
      /\ NewServer(nothing).doc = nothing /\ NewServer(nothing).run = nothing
  <2> HIDE DEF RouteDocs
  <2> QED  BY <1>2 DEF NewServer, Server, Receipts
<1>5. RouteTyped
  <2>1. rsrv \in [RServers -> Server(RouteDocs)]
    <3> HIDE DEF RouteDocs, Server
    <3> QED  BY <1>3, <1>4
  <2> QED  BY <2>1, RoutesAssumption DEF RouteInit, RouteTyped
<1>6. \A s \in RServers : DOMAIN rsrv[s].doc = {} /\ DOMAIN rsrv[s].run = {} /\ Receipts(rsrv[s])
  BY <1>2, <1>3, <1>4
<1>7. \A f \in Forwards : fwd[f] = None /\ At(f) \in RServers
  BY DEF RouteInit, Forwards, At, RServers
<1>8. \A s \in RServers : RouteServerOK(s)
  <2>1. \A s \in RServers : On(s, fwd) = {} /\ ~host[s].committed
    BY <1>7 DEF On, RouteInit
  <2> QED  BY <1>6, <2>1 DEF RouteServerOK
<1>9. \A f \in Forwards : ForwardOK(f, fwd[f], rsrv[At(f)].doc, rsrv[At(f)].run, resv)
  <2>1. resv = {}
    BY DEF RouteInit
  <2> QED  BY <1>6, <1>7, <2>1 DEF ForwardOK, NoRow
<1>10. \A f \in Forwards : Unused(f)
  BY <1>6, <1>7 DEF Unused
<1>11. RoutePlan
  BY <1>10 DEF RoutePlan, RouteInit, Forwards
<1> QED  BY <1>5, <1>8, <1>9, <1>11 DEF RouteInv

LEMMA RouteStep ==
  ASSUME RouteInv, RouteNext
  PROVE  RouteInv'
<1>1. CASE CreateAccessRoute
  BY <1>1, RouteCreate
<1>2. CASE StopAccessRoute
  BY <1>2, RouteStop
<1>3. CASE RetryAccessRoute
  BY <1>3, RouteRetry
<1>4. CASE RequestPortForward
  BY <1>4, RouteOwn
<1>5. CASE RouteWorker
  BY <1>5, RouteReconcile
<1>6. ASSUME NEW s \in RServers, PublishForwards(s)
      PROVE  RouteInv'
  BY <1>6, RoutePublish
<1>7. ASSUME NEW s \in RServers, Converge(s)
      PROVE  RouteInv'
  BY <1>7, RouteConverge
<1>8. ASSUME NEW s \in RServers, CommitForwardReceipt(s)
      PROVE  RouteInv'
  BY <1>8, RouteCommit
<1>9. CASE \/ \E s \in RServers : ReportApply(s) \/ FlushForwardReceipt(s)
           \/ FactsChange \/ MaintenanceEnds
  BY <1>9, RouteQuietSteps
<1> QED
  BY <1>1, <1>2, <1>3, <1>4, <1>5, <1>6, <1>7, <1>8, <1>9 DEF RouteNext, ForwardAgent

LEMMA OpenShows ==
  ASSUME RouteInv, NEW f \in Forwards
  PROVE  Open(f) <=> Shows(f, rsrv[At(f)].run)
<1>1. /\ At(f) \in RServers
      /\ \A g \in DOMAIN rsrv[At(f)].run : rsrv[At(f)].run[g].port \in Ports
  BY RouteFacts DEF Specs
<1> QED  BY <1>1 DEF Open, Listening, Shows

LEMMA RouteInvSafe ==
  ASSUME RouteInv
  PROVE  RoutesSafe
<1>1. /\ RouteTyped /\ RoutePlan
      /\ \A f \in Forwards : fwd[f] # None => /\ fwd[f] \in Row
                                              /\ RowFits(f, fwd[f], rsrv[At(f)].doc, rsrv[At(f)].run, resv)
      /\ \A f \in Forwards : fwd[f] = None => NoRow(f, rsrv[At(f)].doc, rsrv[At(f)].run, resv)
  BY RouteFacts DEF RouteTyped, ForwardOK
<1>2. RouteTypeOK
  <2>1. \A s \in RServers : (host[s].committed => host[s].frozen) /\ (rsrv[s].seen => rsrv[s].current)
    BY RouteFacts DEF RouteServerOK, Receipts
  <2>2. route # None => route.stage \in Stages /\ route.ix \in BOOLEAN
    BY <1>1 DEF RouteTyped
  <2>3. resv \subseteq RServers \X Forwards \X Ports
    BY <1>1 DEF RouteTyped
  <2>4. \A f \in Forwards : fwd[f] # None => fwd[f] \in Row /\ ~(fwd[f].on /\ fwd[f].retired)
    BY <1>1 DEF RowFits
  <2> QED  BY <2>1, <2>2, <2>3, <2>4 DEF RouteTypeOK
<1>3. ListenersReserved
  <2> SUFFICES ASSUME NEW s \in RServers, NEW f \in DOMAIN rsrv[s].run, ~rsrv[s].run[f].blocked
               PROVE  <<s, f, rsrv[s].run[f].port>> \in resv
    BY DEF ListenersReserved, Listening
  <2>1. f \in Forwards /\ At(f) = s /\ rsrv[s].run[f].rev \in Nat \ {0}
    BY RouteFacts DEF Specs
  <2>2. fwd[f] # None
    BY <1>1, <2>1 DEF NoRow
  <2>3. fwd[f] \in Row /\ RowFits(f, fwd[f], rsrv[s].doc, rsrv[s].run, resv)
    BY <1>1, <2>1, <2>2
  <2>4. DocOf(fwd[f], rsrv[s].run[f]) /\ Len(fwd[f].ports) \in Nat
    BY <2>3 DEF RowFits, Row
  <2>5. /\ rsrv[s].run[f].rev \in 1..Len(fwd[f].ports)
        /\ rsrv[s].run[f].port = fwd[f].ports[rsrv[s].run[f].rev]
    BY <2>1, <2>4 DEF DocOf
  <2> QED  BY <2>1, <2>3, <2>5 DEF RowFits
<1>4. DownstreamFirst
  BY <1>1, OpenShows DEF DownstreamFirst, RoutePlan, RouteStageOK, EntryMayOpen, FarHopFirm, Forwards, At
<1>5. LandingIsOpen
  <2> SUFFICES ASSUME NEW f \in Forwards, fwd[f] # None, fwd[f].on, ~fwd[f].retired, HopUp(f)
               PROVE  Open(f)
    BY DEF LandingIsOpen, AccessRouteLanding, Forwards
  <2>1. Shows(f, rsrv[At(f)].run)
    BY AppliedShows DEF HopUp
  <2> QED  BY <2>1, OpenShows
<1>6. RetiredIsClean
  <2> SUFFICES ASSUME route # None, route.stage = "retired", NEW f \in {"ef", "xf"}
               PROVE  fwd[f] = None /\ ~Open(f) /\ \A x \in resv : x[2] # f
    BY DEF RetiredIsClean
  <2>1. f \in Forwards /\ fwd[f] = None
    BY <1>1 DEF RoutePlan, RouteStageOK, Forwards
  <2>2. NoRow(f, rsrv[At(f)].doc, rsrv[At(f)].run, resv)
    BY <1>1, <2>1
  <2> QED  BY <2>1, <2>2, OpenShows DEF NoRow, Shows
<1> QED  BY <1>2, <1>3, <1>4, <1>5, <1>6 DEF RoutesSafe

-----------------------------------------------------------------------------
(* The two stores beside each other: a step of one leaves the other alone. *)
ForwardingInv == RouteInv /\ TransitInv

LEMMA RouteStutters ==
  ASSUME RouteInv, UNCHANGED routeVars
  PROVE  RouteInv'
<1>1. UNCHANGED <<fwd, resv, route, rsrv, host, facts, failing, rleft>>
  BY DEF routeVars
<1>2. RouteTyped' /\ RoutePlan'
  BY <1>1 DEF RouteInv, RouteTyped, RoutePlan, RouteStageOK, Unused, Stopping, Live, EntryMayOpen, FarHopFirm
<1>3. \A s \in RServers : RouteServerOK(s)'
  BY <1>1 DEF RouteInv, RouteServerOK
<1>4. \A f \in Forwards : ForwardOK(f, fwd'[f], rsrv'[At(f)].doc, rsrv'[At(f)].run, resv')
  BY <1>1 DEF RouteInv
<1> QED  BY <1>2, <1>3, <1>4 DEF RouteInv

LEMMA TransitStutters ==
  ASSUME TransitInv, UNCHANGED transitVars
  PROVE  TransitInv'
<1>1. UNCHANGED <<prof, bind, transit, lnode, tsrv, meter, worker, ready, tleft>>
  BY DEF transitVars
<1>2. TransitTyped' /\ NoDanglingBinding' /\ TransitStageOK'
  BY <1>1 DEF TransitInv, TransitTyped, NoDanglingBinding, TransitStageOK, TEntry, TLanding,
              FarEndUp, FarEndDown, AtStage, Managed
<1>3. \A s \in TServers : TransitServerOK(s)'
  <2>1. \A s \in TServers : TransitDoc(s)' = TransitDoc(s)
    BY <1>1 DEF TransitDoc, Egress
  <2> QED  BY <1>1, <2>1 DEF TransitInv, TransitServerOK
<1>4. /\ (worker # None => transit # None)'
      /\ (meter.held /\ ~meter.told /\ ~meter.restarted => TLanding.run = TRUE /\ ~meter.beat)'
  BY <1>1 DEF TransitInv, TLanding
<1>5. (Leads(TEntry.doc) \/ Leads(TEntry.run) => lnode = "live" /\ FarEndUp)'
  BY <1>1 DEF TransitInv, TEntry, TLanding, FarEndUp, Leads
<1> QED  BY <1>2, <1>3, <1>4, <1>5 DEF TransitInv

(* The rows, documents and reservations of access routes fit together and so
   do the rows, documents and counters of transits, whatever edits, receipts,
   failures and maintenance come in between. *)
THEOREM ForwardingInvariance == CtlSafety => []ForwardingInv
<1>1. CtlInit => ForwardingInv
  BY RouteStarts, TransitStarts DEF CtlInit, ForwardingInv
<1>2. ForwardingInv /\ [CtlNext]_ctlVars => ForwardingInv'
  <2> SUFFICES ASSUME ForwardingInv, [CtlNext]_ctlVars PROVE ForwardingInv'
    OBVIOUS
  <2>1. RouteInv /\ TransitInv
    BY DEF ForwardingInv
  <2>2. CASE InRoutes /\ RouteNext
    BY <2>1, <2>2, RouteStep, TransitStutters DEF ForwardingInv, InRoutes
  <2>3. CASE InTransit /\ TransitNext
    BY <2>1, <2>3, TransitStep, RouteStutters DEF ForwardingInv, InTransit
  <2>4. CASE UNCHANGED ctlVars
    BY <2>1, <2>4, RouteStutters, TransitStutters DEF ForwardingInv, ctlVars
  <2>5. CtlNext => (InRoutes /\ RouteNext) \/ (InTransit /\ TransitNext)
    BY DEF CtlNext, RouteNext, RouteWorker, TransitNext
  <2> QED  BY <2>2, <2>3, <2>4, <2>5
<1> QED  BY <1>1, <1>2, PTL DEF CtlSafety

(* Access routes and transits open their ends downstream first, close them
   entry first, keep every open listener reserved and leave nothing behind
   when they are retired (store/access_routes.go, store/transit.go). *)
THEOREM ForwardingIsSafe == CtlSpec => []ForwardingSafe
<1>1. ForwardingInv => ForwardingSafe
  BY RouteInvSafe, TransitInvSafe DEF ForwardingInv, ForwardingSafe
<1> QED  BY <1>1, ForwardingInvariance, PTL DEF CtlSpec

-----------------------------------------------------------------------------
(* Servers: rows and requests. *)
CalRows    == [val : Nat, at : Nat, period : Int, obs : Nat]
AgentRows  == [token : Nat, enroll : Nat, valid : BOOLEAN]
PortRows   == [res : Resources, port : FleetPorts]
QuotaCalls == [op : {"quota"}, pc : {"row", "calibration", "sum", "again", "compare", "disable"},
               row : ServerRows \cup {None}, day : Nat, cal : CalRows \cup {None}, seen : CalRows \cup {None},
               sum : Nat, now : Nat, id : Nat]

FleetRows ==
  /\ server \in ServerRows \cup {None} /\ calib \in CalRows \cup {None} /\ daily \in [0..5 -> Nat]
  /\ today \in Nat /\ agent \in AgentRows \cup {None} /\ stamp \in Nat \ {0}
  /\ listeners \in [Resources -> FleetPorts \cup {0}] /\ reserved \subseteq PortRows

(* What a quota check has read is a lower bound of what holds, until the day
   is over. *)
QuotaOK(c) ==
  /\ c.pc # "row" => c.row \in ServerRows /\ c.row.quota > 0 /\ c.day <= today
  /\ c.pc \in {"again", "compare", "disable"} =>
       /\ c.day <= c.now /\ c.now <= today
       /\ c.sum <= Sum2(WindowStart(c.now, c.row.reset), c.now)
  /\ c.pc \in {"compare", "disable"} => (c.row.reset = 0 => c.seen = None)
  /\ c.pc = "disable" => c.cal = c.seen /\ Billed(c.sum, c.seen) >= c.row.quota

CallOK(c) ==
  /\ c.op = "deploy" => c.r \in {"n1", "n2"} /\ c.p \in FleetPorts
  /\ c.op = "enroll" => c.t \in 1..(stamp - 1)
  /\ c.op = "update" => c.row \in ServerRows /\ c.row.by = "admin" /\ c.cal \in {None, 0}
  /\ c.op = "quota"  => c \in QuotaCalls /\ QuotaOK(c)

(* Tokens are handed out once; the one that can be presented was neither used
   nor replaced. *)
TokensOK ==
  /\ DOMAIN enrolled \subseteq 1..(stamp - 1) /\ \A t \in DOMAIN enrolled : enrolled[t] = 1
  /\ voided \subseteq 1..(stamp - 1)
  /\ agent # None => /\ agent.enroll < stamp /\ agent.enroll \notin DOMAIN enrolled
                     /\ agent.valid => agent.enroll \notin voided

(* A port is reserved for one listener, and every listener has its own. *)
PortsOK ==
  /\ \A x, y \in reserved : x.port = y.port => x.res = y.res
  /\ \A r \in Resources : listeners[r] # 0 => [res |-> r, port |-> listeners[r]] \in reserved

FleetInv == FleetRows /\ TokensOK /\ PortsOK /\ NothingOrphaned /\ \A c \in calls : CallOK(c)

(* Time, counters and tokens only grow. *)
FleetGrows == stamp' >= stamp /\ today' >= today /\ \A d \in 0..5 : daily'[d] >= daily[d]

LEMMA SumType == ASSUME daily \in [0..5 -> Nat], NEW from \in Int, NEW to \in Int PROVE Sum2(from, to) \in Nat
<1> DEFINE At2(d) == IF d \in from..to THEN daily[d] ELSE 0
<1>1. \A d \in 0..5 : At2(d) \in Nat  OBVIOUS
<1>2. Sum2(from, to) = At2(0) + At2(1) + At2(2) + At2(3) + At2(4) + At2(5)  BY DEF Sum2
<1> HIDE DEF At2
<1>3. At2(0) \in Nat /\ At2(1) \in Nat /\ At2(2) \in Nat /\ At2(3) \in Nat /\ At2(4) \in Nat /\ At2(5) \in Nat
  BY <1>1
<1> QED  BY <1>2, <1>3

LEMMA SumGrows ==
  ASSUME daily \in [0..5 -> Nat], daily' \in [0..5 -> Nat], FleetGrows, NEW from \in Int, NEW to \in Int
  PROVE  Sum2(from, to) <= Sum2(from, to)'
<1> DEFINE A(d) == IF d \in from..to THEN daily[d] ELSE 0
           B(d) == IF d \in from..to THEN daily'[d] ELSE 0
<1>1. \A d \in 0..5 : A(d) \in Nat /\ B(d) \in Nat /\ A(d) <= B(d)  BY DEF FleetGrows
<1>2. Sum2(from, to) = A(0) + A(1) + A(2) + A(3) + A(4) + A(5)  BY DEF Sum2
<1>3. Sum2(from, to)' = B(0) + B(1) + B(2) + B(3) + B(4) + B(5)  BY DEF Sum2
<1> HIDE DEF A, B
<1>4. A(0) \in Nat /\ A(1) \in Nat /\ A(2) \in Nat /\ A(3) \in Nat /\ A(4) \in Nat /\ A(5) \in Nat  BY <1>1
<1>5. B(0) \in Nat /\ B(1) \in Nat /\ B(2) \in Nat /\ B(3) \in Nat /\ B(4) \in Nat /\ B(5) \in Nat  BY <1>1
<1>6. A(0) <= B(0) /\ A(1) <= B(1) /\ A(2) <= B(2) /\ A(3) <= B(3) /\ A(4) <= B(4) /\ A(5) <= B(5)  BY <1>1
<1> QED  BY <1>2, <1>3, <1>4, <1>5, <1>6

LEMMA WindowType ==
  ASSUME NEW day \in Int, NEW reset \in Nat PROVE PeriodStart(day, reset) \in Int /\ WindowStart(day, reset) \in Int
  BY DEF PeriodStart, WindowStart

(* A request on its way stays what it is. *)
LEMMA CallKept == ASSUME FleetRows, FleetRows', FleetGrows, NEW c, CallOK(c) PROVE CallOK(c)'
<1>1. stamp \in Nat /\ stamp' \in Nat /\ today \in Nat /\ today' \in Nat /\ stamp <= stamp' /\ today <= today'
  BY DEF FleetRows, FleetGrows
<1>2. c.op = "enroll" => c.t \in 1..(stamp' - 1)  BY <1>1 DEF CallOK
<1>3. ASSUME c.op = "quota" PROVE QuotaOK(c)'
  <2>1. c \in QuotaCalls /\ QuotaOK(c)  BY <1>3 DEF CallOK
  <2>2. c.day \in Nat /\ c.now \in Nat /\ c.sum \in Nat /\ c.now \in Int  BY <2>1 DEF QuotaCalls
  <2>3. ASSUME c.pc \in {"again", "compare", "disable"}
        PROVE  c.sum <= Sum2(WindowStart(c.now, c.row.reset), c.now)'
    <3>1. c.row \in ServerRows /\ c.sum <= Sum2(WindowStart(c.now, c.row.reset), c.now)  BY <2>1, <2>3 DEF QuotaOK
    <3>2. c.row.reset \in Nat  BY <3>1 DEF ServerRows
    <3>3. PICK w \in Int : w = WindowStart(c.now, c.row.reset)  BY <2>2, <3>2, WindowType
    <3>4. Sum2(w, c.now) <= Sum2(w, c.now)'  BY <2>2, <3>3, SumGrows DEF FleetRows
    <3>5. Sum2(w, c.now) \in Nat  BY <2>2, <3>3, SumType DEF FleetRows
    <3>6. Sum2(w, c.now)' \in Nat
      <4>1. daily' \in [0..5 -> Nat]  BY DEF FleetRows
      <4> DEFINE B(d) == IF d \in w..c.now THEN daily'[d] ELSE 0
      <4>2. \A d \in 0..5 : B(d) \in Nat  BY <4>1
      <4>3. Sum2(w, c.now)' = B(0) + B(1) + B(2) + B(3) + B(4) + B(5)  BY DEF Sum2
      <4> HIDE DEF B
      <4>4. B(0) \in Nat /\ B(1) \in Nat /\ B(2) \in Nat /\ B(3) \in Nat /\ B(4) \in Nat /\ B(5) \in Nat  BY <4>2
      <4> QED  BY <4>3, <4>4
    <3>7. c.sum <= Sum2(w, c.now)'  BY <2>2, <3>1, <3>3, <3>4, <3>5, <3>6
    <3> QED  BY <3>3, <3>7 DEF WindowStart, PeriodStart
  <2> QED  BY <1>1, <2>1, <2>2, <2>3 DEF QuotaOK, Billed, ServerRows
<1> QED  BY <1>2, <1>3 DEF CallOK, ServerRows, QuotaCalls, CalRows

LEMMA FleetMove ==
  ASSUME FleetInv, FleetRows', TokensOK', PortsOK', NothingOrphaned', FleetGrows,
         \A c \in calls' : c \in calls \/ CallOK(c)'
  PROVE  FleetInv'
<1>1. \A c \in calls : CallOK(c)'  BY CallKept DEF FleetInv
<1> QED  BY <1>1 DEF FleetInv

LEMMA TokensKept ==
  ASSUME FleetRows, FleetRows', TokensOK, FleetGrows, UNCHANGED <<agent, enrolled, voided>> PROVE TokensOK'
<1>1. PICK m, n : m = stamp /\ n = stamp'  OBVIOUS
<1>2. m \in Nat /\ n \in Nat /\ m <= n  BY <1>1 DEF FleetRows, FleetGrows
<1>3. agent # None => agent.enroll \in Nat  BY DEF FleetRows, AgentRows
<1>4. \A t \in 1..(m - 1) : t \in 1..(n - 1)  BY <1>2
<1>5. agent # None => (agent.enroll < m => agent.enroll < n)  BY <1>2, <1>3
<1> QED  BY <1>1, <1>4, <1>5 DEF TokensOK

(* Requests begin, go on or end; the rows stay. *)
LEMMA FleetTalks ==
  ASSUME FleetInv, UNCHANGED <<server, calib, agent, listeners, reserved, enrolled, voided>>,
         daily' \in [0..5 -> Nat], today' \in Nat, stamp' \in Nat \ {0}, FleetGrows,
         \A c \in calls' : c \in calls \/ CallOK(c)'
  PROVE  FleetInv'
<1>1. FleetRows /\ FleetRows'  BY DEF FleetInv, FleetRows
<1>2. TokensOK'  BY <1>1, TokensKept DEF FleetInv
<1>3. PortsOK' /\ NothingOrphaned'  BY DEF FleetInv, PortsOK, NothingOrphaned
<1> QED  BY <1>1, <1>2, <1>3, FleetMove

LEMMA FleetGoesOn ==
  ASSUME FleetInv, UNCHANGED <<server, calib, agent, listeners, reserved, enrolled, voided, daily, today, stamp>>,
         NEW d, CallOK(d), \A c \in calls' : c \in calls \/ c = d
  PROVE  FleetInv'
<1>1. FleetRows /\ FleetRows'  BY DEF FleetInv, FleetRows
<1>2. FleetGrows  BY <1>1 DEF FleetGrows, FleetRows
<1>3. CallOK(d)'  BY <1>1, <1>2, CallKept
<1>4. \A c \in calls' : c \in calls \/ CallOK(c)'  BY <1>3
<1>5. daily' \in [0..5 -> Nat] /\ today' \in Nat /\ stamp' \in Nat \ {0}  BY <1>1 DEF FleetRows
<1> QED  BY <1>2, <1>4, <1>5, FleetTalks

(* A request that is none of those with obligations. *)
LEMMA OtherCall == ASSUME NEW d, d.op \in AdminOps PROVE CallOK(d)
  BY DEF CallOK, AdminOps

LEMMA NewQuotaCall == ASSUME NEW id \in Nat PROVE CallOK(QuotaCall(id))
<1>1. QuotaCall(id) \in QuotaCalls /\ QuotaCall(id).pc = "row" /\ QuotaCall(id).op = "quota"
  BY DEF QuotaCall, QuotaCalls
<1> QED  BY <1>1 DEF CallOK, QuotaOK

LEMMA HeartbeatStep == ASSUME FleetInv, HeartbeatTraffic PROVE FleetInv'
<1>1. FleetRows  BY DEF FleetInv
<1>2. stamp \in Nat \ {0} /\ stamp' = stamp + 1 /\ today \in Nat /\ today' = today /\ daily \in [0..5 -> Nat]
      /\ daily' = [daily EXCEPT ![today] = @ + 1]
  BY <1>1 DEF FleetRows, HeartbeatTraffic
<1>3. daily' \in [0..5 -> Nat] /\ \A d \in 0..5 : daily'[d] >= daily[d]
  <2>1. \A d \in 0..5 : daily'[d] = IF d = today THEN daily[d] + 1 ELSE daily[d]  BY <1>2
  <2>2. \A d \in 0..5 : daily[d] \in Nat  BY <1>2
  <2>3. \A d \in 0..5 : daily'[d] \in Nat /\ daily'[d] >= daily[d]  BY <2>1, <2>2
  <2>4. daily' = [d \in 0..5 |-> daily'[d]]  BY <1>2
  <2> QED  BY <2>3, <2>4
<1>4. FleetGrows  BY <1>2, <1>3 DEF FleetGrows
<1>5. UNCHANGED <<server, calib, agent, listeners, reserved, enrolled, voided>>  BY DEF HeartbeatTraffic
<1>6. PICK d : d = QuotaCall(stamp) /\ calls' = calls \cup {d}  BY DEF HeartbeatTraffic, Call
<1>7. CallOK(d)  BY <1>1, <1>2, <1>6, NewQuotaCall
<1>8. FleetRows'  BY <1>1, <1>2, <1>3, <1>5 DEF FleetRows
<1>9. CallOK(d)'  BY <1>1, <1>4, <1>7, <1>8, CallKept
<1> QED  BY <1>2, <1>3, <1>4, <1>5, <1>6, <1>9, FleetTalks

LEMMA NewDayStep == ASSUME FleetInv, NewDay PROVE FleetInv'
<1>1. FleetRows  BY DEF FleetInv
<1>2. stamp \in Nat \ {0} /\ stamp' = stamp /\ today \in Nat /\ today' = today + 1 /\ daily \in [0..5 -> Nat]
      /\ daily' = daily /\ calls' = calls
  BY <1>1 DEF FleetRows, NewDay
<1>3. FleetGrows  BY <1>2 DEF FleetGrows
<1>4. UNCHANGED <<server, calib, agent, listeners, reserved, enrolled, voided>>  BY DEF NewDay
<1> QED  BY <1>2, <1>3, <1>4, FleetTalks

LEMMA CalibrationType ==
  ASSUME FleetRows, NEW day, NEW reset
  PROVE  Calibration(day, reset) \in CalRows \cup {None} /\ (reset = 0 => Calibration(day, reset) = None)
  BY DEF FleetRows, Calibration

LEMMA QuotaRowStep == ASSUME FleetInv, NEW c \in calls, QuotaRow(c) PROVE FleetInv'
<1>1. FleetRows /\ CallOK(c) /\ c.op = "quota"  BY DEF FleetInv, QuotaRow
<1>2. UNCHANGED <<server, calib, agent, listeners, reserved, enrolled, voided, daily, today, stamp>>
  BY DEF QuotaRow
<1>3. CASE calls' = calls \ {c}  BY <1>1, <1>2, <1>3, FleetGoesOn
<1>4. CASE server # None /\ server.quota > 0
           /\ calls' = (calls \ {c}) \cup {[c EXCEPT !.pc = "calibration", !.row = server, !.day = today]}
  <2>1. PICK d : d = [c EXCEPT !.pc = "calibration", !.row = server, !.day = today]  OBVIOUS
  <2>2. c \in QuotaCalls /\ server \in ServerRows /\ today \in Nat  BY <1>1, <1>4 DEF CallOK, FleetRows
  <2>3. d \in QuotaCalls /\ d.op = "quota" /\ d.pc = "calibration" /\ d.row = server /\ d.day = today
    BY <2>1, <2>2 DEF QuotaCalls
  <2>4. CallOK(d)  BY <1>4, <2>2, <2>3 DEF CallOK, QuotaOK
  <2> QED  BY <1>2, <1>4, <2>1, <2>4, FleetGoesOn
<1>5. (server = None \/ ~(server.quota <= 0)) \/ calls' = calls \ {c}  BY DEF QuotaRow, Done
<1>6. server # None => server.quota \in Nat  BY <1>1 DEF FleetRows, ServerRows
<1> QED  BY <1>3, <1>4, <1>5, <1>6 DEF QuotaRow, Done, Then

LEMMA QuotaCalibrationStep == ASSUME FleetInv, NEW c \in calls, QuotaCalibration(c) PROVE FleetInv'
<1>1. FleetRows /\ CallOK(c) /\ c.op = "quota" /\ c.pc = "calibration"  BY DEF FleetInv, QuotaCalibration
<1>2. UNCHANGED <<server, calib, agent, listeners, reserved, enrolled, voided, daily, today, stamp>>
  BY DEF QuotaCalibration
<1>3. PICK k \in CalRows \cup {None} : k = Calibration(c.day, c.row.reset)  BY <1>1, CalibrationType
<1>4. PICK d : d = [c EXCEPT !.pc = "sum", !.cal = k] /\ calls' = (calls \ {c}) \cup {d}
  BY <1>3 DEF QuotaCalibration, Then
<1>5. c \in QuotaCalls /\ QuotaOK(c)  BY <1>1 DEF CallOK
<1>6. d \in QuotaCalls /\ d.op = "quota" /\ d.pc = "sum" /\ d.row = c.row /\ d.day = c.day
  BY <1>4, <1>5 DEF QuotaCalls
<1>7. CallOK(d)  BY <1>1, <1>5, <1>6 DEF CallOK, QuotaOK
<1> QED  BY <1>2, <1>4, <1>7, FleetGoesOn

LEMMA QuotaSumStep == ASSUME FleetInv, NEW c \in calls, QuotaSum(c) PROVE FleetInv'
<1>1. FleetRows /\ CallOK(c) /\ c.op = "quota" /\ c.pc = "sum" /\ today \in Nat /\ today \in Int
  BY DEF FleetInv, FleetRows, QuotaSum
<1>2. UNCHANGED <<server, calib, agent, listeners, reserved, enrolled, voided, daily, today, stamp>>
  BY DEF QuotaSum
<1>3. c \in QuotaCalls /\ QuotaOK(c) /\ c.row \in ServerRows /\ c.row.reset \in Nat
  BY <1>1 DEF CallOK, QuotaOK, ServerRows
<1>4. PICK w \in Int : w = WindowStart(today, c.row.reset)  BY <1>1, <1>3, WindowType
<1>5. PICK s \in Nat : s = Sum2(w, today)  BY <1>1, <1>4, SumType DEF FleetRows
<1>6. PICK d : d = [c EXCEPT !.pc = "again", !.now = today, !.sum = s] /\ calls' = (calls \ {c}) \cup {d}
  BY <1>4, <1>5 DEF QuotaSum, Then
<1>7. d \in QuotaCalls /\ d.op = "quota" /\ d.pc = "again" /\ d.row = c.row /\ d.day = c.day /\ d.now = today
      /\ d.sum = s
  BY <1>1, <1>3, <1>5, <1>6 DEF QuotaCalls
<1>8. CallOK(d)
  <2>1. d.sum <= Sum2(WindowStart(d.now, d.row.reset), d.now)  BY <1>4, <1>5, <1>7
  <2>2. d.now <= today  BY <1>1, <1>7
  <2> QED  BY <1>1, <1>3, <1>7, <2>1, <2>2 DEF CallOK, QuotaOK
<1> QED  BY <1>2, <1>6, <1>8, FleetGoesOn

LEMMA QuotaAgainStep == ASSUME FleetInv, NEW c \in calls, QuotaAgain(c) PROVE FleetInv'
<1>1. FleetRows /\ CallOK(c) /\ c.op = "quota" /\ c.pc = "again"  BY DEF FleetInv, QuotaAgain
<1>2. UNCHANGED <<server, calib, agent, listeners, reserved, enrolled, voided, daily, today, stamp>>
  BY DEF QuotaAgain
<1>3. PICK k \in CalRows \cup {None} : k = Calibration(c.now, c.row.reset) /\ (c.row.reset = 0 => k = None)
  BY <1>1, CalibrationType
<1>4. PICK d : d = [c EXCEPT !.pc = "compare", !.seen = k] /\ calls' = (calls \ {c}) \cup {d}
  BY <1>3 DEF QuotaAgain, Then
<1>5. c \in QuotaCalls /\ QuotaOK(c)  BY <1>1 DEF CallOK
<1>6. d \in QuotaCalls /\ d.op = "quota" /\ d.pc = "compare" /\ d.row = c.row /\ d.day = c.day /\ d.now = c.now
      /\ d.sum = c.sum /\ d.seen = k
  BY <1>4, <1>5 DEF QuotaCalls
<1>7. CallOK(d)  BY <1>1, <1>3, <1>5, <1>6 DEF CallOK, QuotaOK
<1> QED  BY <1>2, <1>4, <1>7, FleetGoesOn

LEMMA QuotaCompareStep == ASSUME FleetInv, NEW c \in calls, QuotaCompare(c) PROVE FleetInv'
<1>1. FleetRows /\ CallOK(c) /\ c.op = "quota" /\ c.pc = "compare"  BY DEF FleetInv, QuotaCompare
<1>2. UNCHANGED <<server, calib, agent, listeners, reserved, enrolled, voided, daily, today, stamp>>
  BY DEF QuotaCompare
<1>3. CASE calls' = calls \ {c}  BY <1>1, <1>2, <1>3, FleetGoesOn
<1>4. CASE c.cal = c.seen /\ Billed(c.sum, c.seen) >= c.row.quota
           /\ calls' = (calls \ {c}) \cup {[c EXCEPT !.pc = "disable"]}
  <2>1. PICK d : d = [c EXCEPT !.pc = "disable"]  OBVIOUS
  <2>2. c \in QuotaCalls /\ QuotaOK(c)  BY <1>1 DEF CallOK
  <2>3. d \in QuotaCalls /\ d.op = "quota" /\ d.pc = "disable" /\ d.row = c.row /\ d.day = c.day /\ d.now = c.now
        /\ d.sum = c.sum /\ d.seen = c.seen /\ d.cal = c.cal
    BY <2>1, <2>2 DEF QuotaCalls
  <2>4. CallOK(d)  BY <1>1, <1>4, <2>2, <2>3 DEF CallOK, QuotaOK
  <2> QED  BY <1>2, <1>4, <2>1, <2>4, FleetGoesOn
<1> QED  BY <1>3, <1>4 DEF QuotaCompare, Done, Then

LEMMA UpdateServerStep == ASSUME FleetInv, UpdateServer PROVE FleetInv'
<1>1. FleetRows /\ server \in ServerRows  BY DEF FleetInv, FleetRows, UpdateServer
<1>2. UNCHANGED <<server, calib, agent, listeners, reserved, enrolled, voided, daily, today, stamp>>
  BY DEF UpdateServer
<1>3. PICK q \in {0, 2, 3}, e \in {0, 1, 2}, on \in BOOLEAN, v \in {None, 0} :
        calls' = calls \cup {[op |-> "update", was |-> server, cal |-> v,
                 row |-> [server EXCEPT !.quota = q, !.reset = e, !.on = on, !.by = "admin"]]}
  BY DEF UpdateServer, Call
<1>4. PICK r : r = [server EXCEPT !.quota = q, !.reset = e, !.on = on, !.by = "admin"]  OBVIOUS
<1>5. r \in ServerRows /\ r.by = "admin"
  <2>1. PICK r1 : r1 = [server EXCEPT !.quota = q]  OBVIOUS
  <2>2. PICK r2 : r2 = [r1 EXCEPT !.reset = e]  OBVIOUS
  <2>3. PICK r3 : r3 = [r2 EXCEPT !.on = on]  OBVIOUS
  <2>4. r = [r3 EXCEPT !.by = "admin"]  BY <1>4, <2>1, <2>2, <2>3
  <2>5. r1 \in ServerRows  BY <1>1, <2>1 DEF ServerRows
  <2>6. r2 \in ServerRows  BY <2>2, <2>5 DEF ServerRows
  <2>7. r3 \in ServerRows  BY <2>3, <2>6 DEF ServerRows
  <2> QED  BY <2>4, <2>7 DEF ServerRows
<1>6. PICK d : d = [op |-> "update", was |-> server, cal |-> v, row |-> r]  OBVIOUS
<1>7. d.op = "update" /\ d.cal = v /\ d.row = r  BY <1>6
<1>8. CallOK(d)  BY <1>5, <1>7 DEF CallOK
<1> QED  BY <1>2, <1>3, <1>4, <1>6, <1>8, FleetGoesOn

LEMMA RequireNoMaintenanceStep == ASSUME FleetInv, RequireNoMaintenance PROVE FleetInv'
<1>1. UNCHANGED <<server, calib, agent, listeners, reserved, enrolled, voided, daily, today, stamp>>
  BY DEF RequireNoMaintenance
<1>2. PICK k \in AdminOps : calls' = calls \cup {[op |-> k]}  BY DEF RequireNoMaintenance, Call
<1>3. PICK d : d = [op |-> k]  OBVIOUS
<1>4. CallOK(d)  BY <1>3, OtherCall
<1> QED  BY <1>1, <1>2, <1>3, <1>4, FleetGoesOn

LEMMA DeployNodeStep == ASSUME FleetInv, DeployNode PROVE FleetInv'
<1>1. UNCHANGED <<server, calib, agent, listeners, reserved, enrolled, voided, daily, today, stamp>>
  BY DEF DeployNode
<1>2. PICK n \in {"n1", "n2"}, p \in FleetPorts : calls' = calls \cup {[op |-> "deploy", r |-> n, p |-> p]}
  BY DEF DeployNode, AllocatePort, Call
<1>3. PICK d : d = [op |-> "deploy", r |-> n, p |-> p]  OBVIOUS
<1>4. CallOK(d)  BY <1>3 DEF CallOK
<1> QED  BY <1>1, <1>2, <1>3, <1>4, FleetGoesOn

LEMMA AgentEnrollStep == ASSUME FleetInv, AgentEnroll PROVE FleetInv'
<1>1. FleetRows /\ TokensOK /\ agent \in AgentRows /\ agent # None /\ agent.enroll # 0
  BY DEF FleetInv, FleetRows, AgentEnroll
<1>2. stamp \in Nat \ {0} /\ stamp' = stamp + 1 /\ today \in Nat /\ today' = today /\ daily \in [0..5 -> Nat]
      /\ daily' = daily
  BY <1>1 DEF FleetRows, AgentEnroll
<1>3. FleetGrows  BY <1>2 DEF FleetGrows
<1>4. UNCHANGED <<server, calib, agent, listeners, reserved, enrolled, voided>>  BY DEF AgentEnroll
<1>5. PICK d : d = [op |-> "enroll", t |-> agent.enroll, id |-> stamp] /\ calls' = calls \cup {d}
  BY DEF AgentEnroll, Call
<1>6. d.op = "enroll" /\ d.t = agent.enroll  BY <1>5
<1>7. CallOK(d)
  <2>1. agent.enroll \in Nat /\ agent.enroll < stamp  BY <1>1 DEF TokensOK, AgentRows
  <2>2. agent.enroll \in 1..(stamp - 1)  BY <1>1, <1>2, <2>1
  <2> QED  BY <1>6, <2>2 DEF CallOK
<1>8. FleetRows'  BY <1>1, <1>2, <1>4 DEF FleetRows
<1>9. CallOK(d)'  BY <1>1, <1>3, <1>7, <1>8, CallKept
<1> QED  BY <1>2, <1>3, <1>4, <1>5, <1>9, FleetTalks

LEMMA MaintenanceJobStep == ASSUME FleetInv, MaintenanceJob PROVE FleetInv'
<1>1. UNCHANGED <<server, calib, agent, listeners, reserved, enrolled, voided, daily, today, stamp, calls>>
  BY DEF MaintenanceJob
<1>2. PICK d : d = [op |-> "token"]  OBVIOUS
<1>3. CallOK(d)  BY <1>2, OtherCall DEF AdminOps
<1> QED  BY <1>1, <1>3, FleetGoesOn

(* The server's row is written, its agent and its ports stay. *)
LEMMA FleetWrites ==
  ASSUME FleetInv, UNCHANGED <<daily, today, agent, listeners, reserved, enrolled, voided>>,
         server # None, server' \in ServerRows, calib' \in CalRows \cup {None}, stamp' \in Nat, stamp' >= stamp,
         \A c \in calls' : c \in calls \/ \E i \in Nat : c = QuotaCall(i)
  PROVE  FleetInv'
<1>1. FleetRows /\ stamp \in Nat \ {0} /\ today \in Nat /\ daily \in [0..5 -> Nat]  BY DEF FleetInv, FleetRows
<1>2. stamp' \in Nat \ {0}
  <2>1. PICK m, n : m = stamp /\ n = stamp'  OBVIOUS
  <2>2. m \in Nat \ {0} /\ n \in Nat /\ n >= m  BY <1>1, <2>1
  <2> QED  BY <2>1, <2>2
<1>3. FleetRows'  BY <1>1, <1>2 DEF FleetRows
<1>4. FleetGrows  BY <1>1 DEF FleetGrows
<1>5. TokensOK'  BY <1>1, <1>3, <1>4, TokensKept DEF FleetInv
<1>6. PortsOK'  BY DEF FleetInv, PortsOK
<1>7. NothingOrphaned'  BY FleetAssumption DEF NothingOrphaned
<1>8. \A i \in Nat : CallOK(QuotaCall(i))'
  <2> SUFFICES ASSUME NEW i \in Nat PROVE CallOK(QuotaCall(i))'  OBVIOUS
  <2>1. PICK d : d = QuotaCall(i)  OBVIOUS
  <2>2. CallOK(d)  BY <2>1, NewQuotaCall
  <2>3. CallOK(d)'  BY <1>1, <1>3, <1>4, <2>2, CallKept
  <2> QED  BY <2>1, <2>3 DEF QuotaCall
<1>9. \A c \in calls' : c \in calls \/ CallOK(c)'
  <2> SUFFICES ASSUME NEW c \in calls', c \notin calls PROVE CallOK(c)'  OBVIOUS
  <2>1. PICK i \in Nat : c = QuotaCall(i)  OBVIOUS
  <2> QED  BY <1>8, <2>1 DEF QuotaCall
<1> QED  BY <1>3, <1>4, <1>5, <1>6, <1>7, <1>9, FleetMove

LEMMA DisableServerStep == ASSUME FleetInv, NEW c \in calls, DisableServer(c) PROVE FleetInv'
<1>1. FleetRows /\ stamp \in Nat \ {0}  BY DEF FleetInv, FleetRows
<1>2. calls' = calls \ {c}
      /\ UNCHANGED <<calib, daily, today, agent, maint, listeners, reserved, enrolled, voided, fleft>>
  BY DEF DisableServer, Done
<1>3. CASE UNCHANGED <<server, stamp>>
  <2>1. PICK d : d = [op |-> "token"]  OBVIOUS
  <2>2. CallOK(d)  BY <2>1, OtherCall DEF AdminOps
  <2> QED  BY <1>2, <1>3, <2>2, FleetGoesOn
<1>4. CASE server # None /\ stamp' = stamp + 1
           /\ server' = [server EXCEPT !.on = FALSE, !.upd = stamp, !.by = "quota"]
  <2>1. server \in ServerRows  BY <1>1, <1>4 DEF FleetRows
  <2>2. server' \in ServerRows  BY <1>1, <1>4, <2>1 DEF ServerRows
  <2>3. stamp' \in Nat /\ stamp' >= stamp  BY <1>1, <1>4
  <2>4. calib' \in CalRows \cup {None}  BY <1>1, <1>2 DEF FleetRows
  <2> QED  BY <1>2, <1>4, <2>2, <2>3, <2>4, FleetWrites
<1> QED  BY <1>3, <1>4 DEF DisableServer, QuotaUnchanged

LEMMA UpdateServerWithCalibrationStep ==
  ASSUME FleetInv, NEW c \in calls, UpdateServerWithCalibration(c) PROVE FleetInv'
<1>1. FleetRows /\ stamp \in Nat \ {0} /\ today \in Nat /\ today \in Int /\ daily \in [0..5 -> Nat]
  BY DEF FleetInv, FleetRows
<1>2. stamp' = stamp + 2
      /\ UNCHANGED <<daily, today, agent, maint, listeners, reserved, enrolled, voided, fleft>>
  BY DEF UpdateServerWithCalibration
<1>3. stamp' \in Nat \ {0} /\ stamp' >= stamp /\ stamp + 1 \in Nat  BY <1>1, <1>2
<1>4. c.row \in ServerRows /\ c.cal \in {None, 0} /\ c.row.reset \in Nat
  BY DEF UpdateServerWithCalibration, FleetInv, CallOK, ServerRows
<1>5. CASE server = None
  <2>1. calls' = calls \ {c} /\ UNCHANGED <<server, calib>>  BY <1>5 DEF UpdateServerWithCalibration, Done
  <2>2. FleetGrows  BY <1>1, <1>2, <1>3 DEF FleetGrows
  <2> QED  BY <1>1, <1>2, <1>3, <2>1, <2>2, FleetTalks
<1>6. CASE server # None
  <2>1. server' = [c.row EXCEPT !.upd = stamp]  BY <1>6 DEF UpdateServerWithCalibration
  <2>2. server' \in ServerRows  BY <1>1, <1>4, <2>1 DEF ServerRows
  <2>3. PICK w \in Int : w = PeriodStart(today, c.row.reset)  BY <1>1, <1>4, WindowType
  <2>4. PICK s \in Nat : s = Sum2(w, today)  BY <1>1, <2>3, SumType
  <2>5. calib' \in {None, calib, [val |-> c.cal, at |-> stamp, period |-> w, obs |-> s]}
        /\ (c.cal = None => calib' \in {None, calib})
    BY <1>6, <2>3, <2>4 DEF UpdateServerWithCalibration
  <2>6. c.cal # None => [val |-> c.cal, at |-> stamp, period |-> w, obs |-> s] \in CalRows
    BY <1>1, <1>4 DEF CalRows
  <2>7. calib' \in CalRows \cup {None}  BY <1>1, <2>5, <2>6 DEF FleetRows
  <2>8. \A d \in calls' : d \in calls \/ d = QuotaCall(stamp + 1)
    BY <1>6 DEF UpdateServerWithCalibration, Then, Done
  <2> QED  BY <1>2, <1>3, <1>6, <2>2, <2>7, <2>8, FleetWrites
<1> QED  BY <1>5, <1>6

LEMMA ResetAgentTokenStep == ASSUME FleetInv, NEW c \in calls, ResetAgentToken(c) PROVE FleetInv'
<1>1. FleetRows /\ stamp \in Nat \ {0} /\ today \in Nat /\ daily \in [0..5 -> Nat]  BY DEF FleetInv, FleetRows
<1>2. calls' = calls \ {c} /\ agent' = (IF agent = None THEN None ELSE [agent EXCEPT !.token = 0])
      /\ UNCHANGED <<server, calib, daily, today, listeners, reserved, stamp, enrolled, voided>>
  BY DEF ResetAgentToken, Done
<1>3. agent = None => agent' = None  BY <1>2
<1>4. agent # None => agent' \in AgentRows /\ agent'.enroll = agent.enroll /\ agent'.valid = agent.valid
  BY <1>1, <1>2 DEF FleetRows, AgentRows
<1>5. FleetRows'  BY <1>1, <1>2, <1>3, <1>4 DEF FleetRows
<1>6. FleetGrows  BY <1>1, <1>2 DEF FleetGrows
<1>7. TokensOK'
  <2>1. PICK m : m = stamp /\ m = stamp'  BY <1>2
  <2> QED  BY <1>2, <1>3, <1>4, <2>1 DEF FleetInv, TokensOK
<1>8. PortsOK' /\ NothingOrphaned'  BY <1>2, <1>3 DEF FleetInv, PortsOK, NothingOrphaned
<1> QED  BY <1>2, <1>5, <1>6, <1>7, <1>8, FleetMove

LEMMA DeleteServerStep == ASSUME FleetInv, NEW c \in calls, DeleteServer(c) PROVE FleetInv'
<1>1. FleetRows /\ stamp \in Nat \ {0} /\ today \in Nat /\ daily \in [0..5 -> Nat]  BY DEF FleetInv, FleetRows
<1>2. calls' = calls \ {c} /\ server' = None /\ calib' = None /\ agent' = None
      /\ listeners' = [r \in Resources |-> 0] /\ reserved' = {}
      /\ UNCHANGED <<daily, today, stamp, enrolled, voided>>
  BY DEF DeleteServer, Done
<1>3. FleetRows'  BY <1>1, <1>2 DEF FleetRows
<1>4. FleetGrows  BY <1>1, <1>2 DEF FleetGrows
<1>5. TokensOK'
  <2>1. PICK m : m = stamp /\ m = stamp'  BY <1>2
  <2> QED  BY <1>2, <2>1 DEF FleetInv, TokensOK
<1>6. PortsOK' /\ NothingOrphaned'  BY <1>2 DEF PortsOK, NothingOrphaned
<1> QED  BY <1>2, <1>3, <1>4, <1>5, <1>6, FleetMove

(* The agent's row and the tokens' histories change, the server's rows stay. *)
LEMMA FleetEnrols ==
  ASSUME FleetInv, UNCHANGED <<server, calib, daily, today, listeners, reserved>>, calls' \subseteq calls,
         agent # None, agent' \in AgentRows, stamp' \in Nat, stamp' >= stamp, TokensOK'
  PROVE  FleetInv'
<1>1. FleetRows /\ stamp \in Nat \ {0} /\ today \in Nat /\ daily \in [0..5 -> Nat]  BY DEF FleetInv, FleetRows
<1>2. stamp' \in Nat \ {0}
  <2>1. PICK m, n : m = stamp /\ n = stamp'  OBVIOUS
  <2>2. m \in Nat \ {0} /\ n \in Nat /\ n >= m  BY <1>1, <2>1
  <2> QED  BY <2>1, <2>2
<1>3. FleetRows'  BY <1>1, <1>2 DEF FleetRows
<1>4. FleetGrows  BY <1>1 DEF FleetGrows
<1>5. PortsOK' /\ NothingOrphaned'  BY DEF FleetInv, PortsOK, NothingOrphaned
<1> QED  BY <1>3, <1>4, <1>5, FleetMove

LEMMA ReplacedOK ==
  ASSUME FleetInv, agent # None, NEW m, m = stamp
  PROVE  Replaced \subseteq 1..(m - 1) /\ DOMAIN enrolled \subseteq 1..(m - 1)
<1>1. agent.enroll \in Nat /\ agent.enroll < m /\ voided \subseteq 1..(m - 1) /\ m \in Nat
      /\ DOMAIN enrolled \subseteq 1..(m - 1)
  BY DEF FleetInv, FleetRows, AgentRows, TokensOK
<1>2. agent.enroll # 0 => agent.enroll \in 1..(m - 1)  BY <1>1
<1> QED  BY <1>1, <1>2 DEF Replaced

LEMMA SetAgentEnrollTokenStep == ASSUME FleetInv, NEW c \in calls, SetAgentEnrollToken(c) PROVE FleetInv'
<1>1. FleetRows /\ stamp \in Nat \ {0} /\ today \in Nat /\ daily \in [0..5 -> Nat]  BY DEF FleetInv, FleetRows
<1>2. calls' = calls \ {c} /\ stamp' = stamp + 1
      /\ UNCHANGED <<server, calib, daily, today, listeners, reserved, enrolled>>
  BY DEF SetAgentEnrollToken, Done
<1>3. PICK m, n : m = stamp /\ n = stamp'  OBVIOUS
<1>4. m \in Nat \ {0} /\ n = m + 1  BY <1>1, <1>2, <1>3
<1>5. n \in Nat \ {0} /\ n >= m /\ \A t \in 1..(m - 1) : t \in 1..(n - 1) /\ t # m  BY <1>4
<1>6. CASE agent = None
  <2>1. UNCHANGED <<agent, voided>>  BY <1>6 DEF SetAgentEnrollToken
  <2>2. FleetGrows  BY <1>1, <1>2, <1>3, <1>5 DEF FleetGrows
  <2> QED  BY <1>1, <1>2, <1>3, <1>5, <2>1, <2>2, FleetTalks
<1>7. CASE agent # None
  <2>1. agent \in AgentRows /\ agent' = [agent EXCEPT !.enroll = m, !.valid = TRUE] /\ voided' = Replaced
    BY <1>1, <1>3, <1>7 DEF FleetRows, SetAgentEnrollToken
  <2>2. agent' \in AgentRows /\ agent'.enroll = m  BY <1>4, <2>1 DEF AgentRows
  <2>3. voided' \subseteq 1..(m - 1) /\ DOMAIN enrolled' \subseteq 1..(m - 1)  BY <1>2, <1>3, <1>7, <2>1, ReplacedOK
  <2>4. m \notin voided' /\ m \notin DOMAIN enrolled' /\ m < n  BY <1>4, <1>5, <2>3
  <2>5. TokensOK'
    BY <1>2, <1>3, <1>5, <2>2, <2>3, <2>4 DEF FleetInv, TokensOK
  <2> QED  BY <1>2, <1>3, <1>5, <1>7, <2>2, <2>5, FleetEnrols
<1> QED  BY <1>6, <1>7

LEMMA EnrollExpiresStep == ASSUME FleetInv, EnrollExpires PROVE FleetInv'
<1>1. FleetRows /\ agent # None /\ agent \in AgentRows  BY DEF FleetInv, FleetRows, EnrollExpires
<1>2. agent' = [agent EXCEPT !.valid = FALSE] /\ voided' = Replaced
      /\ UNCHANGED <<server, calib, daily, today, listeners, reserved, calls, stamp, enrolled>>
  BY DEF EnrollExpires
<1>3. PICK m \in Nat : m = stamp /\ m = stamp'  BY <1>1, <1>2 DEF FleetRows
<1>4. agent' \in AgentRows /\ agent'.enroll = agent.enroll /\ ~agent'.valid  BY <1>1, <1>2 DEF AgentRows
<1>5. voided' \subseteq 1..(m - 1)  BY <1>1, <1>2, <1>3, ReplacedOK
<1>6. TokensOK'  BY <1>1, <1>2, <1>3, <1>4, <1>5 DEF FleetInv, TokensOK
<1>7. stamp' \in Nat /\ stamp' >= stamp  BY <1>3
<1> QED  BY <1>1, <1>2, <1>4, <1>6, <1>7, FleetEnrols

LEMMA CompleteEnrollmentStep == ASSUME FleetInv, NEW c \in calls, CompleteEnrollment(c) PROVE FleetInv'
<1>1. FleetRows /\ stamp \in Nat \ {0} /\ today \in Nat /\ daily \in [0..5 -> Nat]  BY DEF FleetInv, FleetRows
<1>2. calls' = calls \ {c} /\ stamp' = stamp + 1
      /\ UNCHANGED <<server, calib, daily, today, listeners, reserved, voided>>
  BY DEF CompleteEnrollment, Done
<1>3. PICK m, n : m = stamp /\ n = stamp'  OBVIOUS
<1>4. m \in Nat \ {0} /\ n = m + 1  BY <1>1, <1>2, <1>3
<1>5. n \in Nat \ {0} /\ n >= m /\ (\A t \in 1..(m - 1) : t \in 1..(n - 1)) /\ 0 \notin 1..(n - 1) /\ 0 < n
  BY <1>4
<1>6. CASE ~EnrollUnchanged(c)
  <2>1. UNCHANGED <<agent, enrolled>>  BY <1>6 DEF CompleteEnrollment
  <2>2. FleetGrows  BY <1>1, <1>2, <1>3, <1>5 DEF FleetGrows
  <2> QED  BY <1>1, <1>2, <1>3, <1>5, <2>1, <2>2, FleetTalks
<1>7. CASE EnrollUnchanged(c)
  <2>1. agent # None /\ agent.enroll = c.t /\ c.t \notin DOMAIN enrolled /\ c.t \in 1..(m - 1)
    BY <1>3, <1>7 DEF EnrollUnchanged, FleetInv, TokensOK, CallOK, CompleteEnrollment
  <2>2. agent' = [token |-> m, enroll |-> 0, valid |-> FALSE]
        /\ enrolled' = [t \in DOMAIN enrolled \cup {c.t} |->
                          IF t \notin DOMAIN enrolled THEN 1 ELSE IF t = c.t THEN enrolled[t] + 1 ELSE enrolled[t]]
    BY <1>3, <1>7 DEF CompleteEnrollment
  <2>3. agent' \in AgentRows /\ agent'.enroll = 0 /\ ~agent'.valid  BY <1>4, <2>2 DEF AgentRows
  <2>5. DOMAIN enrolled' = DOMAIN enrolled \cup {c.t}  BY <2>2
  <2>7. \A t \in DOMAIN enrolled : enrolled[t] = 1  BY DEF FleetInv, TokensOK
  <2>8. \A t \in DOMAIN enrolled' : enrolled'[t] = 1  BY <2>1, <2>2, <2>7
  <2>9. DOMAIN enrolled' \subseteq 1..(n - 1) /\ voided' \subseteq 1..(n - 1)
    BY <1>2, <1>3, <1>5, <2>1, <2>5 DEF FleetInv, TokensOK
  <2>10. 0 \notin DOMAIN enrolled'  BY <1>5, <2>9
  <2>11. TokensOK'  BY <1>3, <1>5, <2>3, <2>8, <2>9, <2>10 DEF TokensOK
  <2> QED  BY <1>2, <1>3, <1>5, <2>1, <2>3, <2>11, FleetEnrols
<1> QED  BY <1>6, <1>7

(* Ports. *)
LEMMA FleetPortsMove ==
  ASSUME FleetInv, UNCHANGED <<server, calib, daily, today, agent, stamp, enrolled, voided>>, calls' \subseteq calls,
         listeners' \in [Resources -> FleetPorts \cup {0}], reserved' \subseteq PortRows, PortsOK', NothingOrphaned'
  PROVE  FleetInv'
<1>1. FleetRows /\ stamp \in Nat \ {0} /\ today \in Nat /\ daily \in [0..5 -> Nat]  BY DEF FleetInv, FleetRows
<1>2. FleetRows'  BY <1>1 DEF FleetRows
<1>3. FleetGrows  BY <1>1 DEF FleetGrows
<1>4. TokensOK'  BY <1>1, <1>2, <1>3, TokensKept DEF FleetInv
<1> QED  BY <1>2, <1>3, <1>4, FleetMove

LEMMA PortTaken ==
  ASSUME FleetInv, server # None, UNCHANGED <<server, calib, daily, today, agent, stamp, enrolled, voided>>,
         calls' \subseteq calls, NEW r \in Resources, NEW p \in FleetPorts, PortFree(r, p),
         listeners' = [listeners EXCEPT ![r] = p], reserved' = reserved \cup {[res |-> r, port |-> p]}
  PROVE  FleetInv'
<1>1. FleetRows /\ PortsOK  BY DEF FleetInv
<1>2. [res |-> r, port |-> p] \in PortRows  BY DEF PortRows
<1>3. listeners' \in [Resources -> FleetPorts \cup {0}] /\ reserved' \subseteq PortRows  BY <1>1, <1>2 DEF FleetRows
<1>4. PortsOK'
  <2>1. ASSUME NEW x \in reserved', NEW y \in reserved', x.port = y.port PROVE x.res = y.res
    <3>1. x \in reserved \/ (x.res = r /\ x.port = p)  OBVIOUS
    <3>2. y \in reserved \/ (y.res = r /\ y.port = p)  OBVIOUS
    <3> QED  BY <1>1, <2>1, <3>1, <3>2 DEF PortsOK, PortFree
  <2>2. ASSUME NEW q \in Resources, listeners'[q] # 0 PROVE [res |-> q, port |-> listeners'[q]] \in reserved'
    <3>1. listeners'[q] = IF q = r THEN p ELSE listeners[q]  BY <1>1 DEF FleetRows
    <3>2. CASE q = r  BY <3>1, <3>2
    <3>3. CASE q # r
      <4>1. PICK l : l = listeners[q] /\ l = listeners'[q]  BY <3>1, <3>3
      <4>2. [res |-> q, port |-> l] \in reserved  BY <1>1, <2>2, <4>1 DEF PortsOK
      <4> QED  BY <4>1, <4>2
    <3> QED  BY <3>2, <3>3
  <2> QED  BY <2>1, <2>2 DEF PortsOK
<1>5. NothingOrphaned'  BY DEF NothingOrphaned
<1> QED  BY <1>3, <1>4, <1>5, FleetPortsMove

LEMMA CreateNodeStep == ASSUME FleetInv, NEW c \in calls, CreateNode(c) PROVE FleetInv'
<1>1. c.r \in {"n1", "n2"} /\ c.p \in FleetPorts  BY DEF CreateNode, FleetInv, CallOK
<1>2. c.r \in Resources  BY <1>1 DEF Resources
<1>3. calls' = calls \ {c} /\ UNCHANGED <<server, calib, daily, today, agent, stamp, enrolled, voided>>
  BY DEF CreateNode, Done
<1>4. CASE server # None /\ PortFree(c.r, c.p) /\ listeners' = [listeners EXCEPT ![c.r] = c.p]
           /\ reserved' = reserved \cup {[res |-> c.r, port |-> c.p]}
  BY <1>1, <1>2, <1>3, <1>4, PortTaken
<1>5. CASE UNCHANGED <<listeners, reserved>>
  <2>1. PICK d : d = [op |-> "token"]  OBVIOUS
  <2>2. CallOK(d)  BY <2>1, OtherCall DEF AdminOps
  <2> QED  BY <1>3, <1>5, <2>2, FleetGoesOn
<1> QED  BY <1>4, <1>5 DEF CreateNode

LEMMA ReserveForwardStep == ASSUME FleetInv, ReserveForward PROVE FleetInv'
<1>1. UNCHANGED <<server, calib, daily, today, agent, stamp, enrolled, voided>> /\ calls' = calls /\ server # None
  BY DEF ReserveForward
<1>2. PICK p \in FleetPorts : PortFree("f", p) /\ listeners' = [listeners EXCEPT !["f"] = p]
                             /\ reserved' = reserved \cup {[res |-> "f", port |-> p]}
  BY DEF ReserveForward
<1>3. "f" \in Resources  BY DEF Resources
<1> QED  BY <1>1, <1>2, <1>3, PortTaken

LEMMA ReleaseForwardStep == ASSUME FleetInv, ReleaseForward PROVE FleetInv'
<1>1. UNCHANGED <<server, calib, daily, today, agent, stamp, enrolled, voided, listeners>> /\ calls' = calls
  BY DEF ReleaseForward
<1>2. PICK x \in reserved : x.res = "f" /\ x.port # listeners["f"] /\ reserved' = reserved \ {x}
  BY DEF ReleaseForward
<1>3. FleetRows /\ PortsOK /\ NothingOrphaned  BY DEF FleetInv
<1>4. listeners' \in [Resources -> FleetPorts \cup {0}] /\ reserved' \subseteq PortRows  BY <1>1, <1>2, <1>3 DEF FleetRows
<1>5. ASSUME NEW q \in Resources, listeners'[q] # 0 PROVE [res |-> q, port |-> listeners'[q]] \in reserved'
  <2>1. PICK l : l = listeners[q] /\ l = listeners'[q]  BY <1>1
  <2>2. [res |-> q, port |-> l] \in reserved  BY <1>3, <1>5, <2>1 DEF PortsOK
  <2>3. [res |-> q, port |-> l] # x
    <3> SUFFICES ASSUME x = [res |-> q, port |-> l] PROVE FALSE  OBVIOUS
    <3>1. x.res = q /\ x.port = l  OBVIOUS
    <3> QED  BY <1>2, <2>1, <3>1
  <2> QED  BY <1>2, <2>1, <2>2, <2>3
<1>6. PortsOK'  BY <1>2, <1>3, <1>5 DEF PortsOK
<1>7. NothingOrphaned'  BY <1>1, <1>2, <1>3 DEF NothingOrphaned
<1> QED  BY <1>1, <1>4, <1>6, <1>7, FleetPortsMove

LEMMA RemoveNodeStep == ASSUME FleetInv, RemoveNode PROVE FleetInv'
<1>1. UNCHANGED <<server, calib, daily, today, agent, stamp, enrolled, voided>> /\ calls' = calls
  BY DEF RemoveNode
<1>2. PICK n \in {"n1", "n2"} : listeners' = [listeners EXCEPT ![n] = 0] /\ reserved' = {x \in reserved : x.res # n}
  BY DEF RemoveNode
<1>3. FleetRows /\ PortsOK /\ NothingOrphaned  BY DEF FleetInv
<1>4. \A q \in Resources : listeners'[q] = IF q = n THEN 0 ELSE listeners[q]  BY <1>2, <1>3 DEF FleetRows
<1>5. listeners' \in [Resources -> FleetPorts \cup {0}] /\ reserved' \subseteq PortRows  BY <1>2, <1>3 DEF FleetRows
<1>6. ASSUME NEW q \in Resources, listeners'[q] # 0 PROVE [res |-> q, port |-> listeners'[q]] \in reserved'
  <2>1. PICK l : l = listeners[q] /\ l = listeners'[q] /\ q # n  BY <1>4, <1>6
  <2>2. [res |-> q, port |-> l] \in reserved  BY <1>3, <1>6, <2>1 DEF PortsOK
  <2> QED  BY <1>2, <2>1, <2>2
<1>7. PortsOK'  BY <1>2, <1>3, <1>6 DEF PortsOK
<1>8. NothingOrphaned'  BY <1>1, <1>2, <1>3, <1>4 DEF NothingOrphaned
<1> QED  BY <1>1, <1>5, <1>7, <1>8, FleetPortsMove

LEMMA FleetStarts == ASSUME FleetInit PROVE FleetInv
<1>1. server = [quota |-> 2, reset |-> 1, on |-> TRUE, upd |-> 0, by |-> "-"] /\ calib = None /\ today = 4
      /\ daily = [d \in 0..5 |-> IF d = 3 THEN 1 ELSE 0] /\ agent = [token |-> 0, enroll |-> 0, valid |-> FALSE]
      /\ listeners = [r \in Resources |-> 0] /\ reserved = {} /\ calls = {} /\ stamp = 1
      /\ enrolled = <<>> /\ voided = {}
  BY DEF FleetInit
<1>2. server \in ServerRows  BY <1>1 DEF ServerRows
<1>3. agent \in AgentRows /\ agent.enroll = 0  BY <1>1 DEF AgentRows
<1>4. daily \in [0..5 -> Nat]  BY <1>1
<1>5. FleetRows  BY <1>1, <1>2, <1>3, <1>4 DEF FleetRows
<1>6. DOMAIN enrolled = {}  BY <1>1
<1>7. TokensOK  BY <1>1, <1>3, <1>6 DEF TokensOK
<1>8. PortsOK  BY <1>1 DEF PortsOK
<1>9. NothingOrphaned  BY <1>2, FleetAssumption DEF NothingOrphaned
<1> QED  BY <1>1, <1>5, <1>7, <1>8, <1>9 DEF FleetInv

LEMMA FleetSteps == ASSUME FleetInv, FleetNext PROVE FleetInv'
<1>1. CASE HeartbeatTraffic \/ NewDay \/ UpdateServer \/ RequireNoMaintenance \/ EnrollExpires \/ AgentEnroll
           \/ MaintenanceJob \/ DeployNode \/ ReserveForward \/ ReleaseForward \/ RemoveNode
  BY <1>1, HeartbeatStep, NewDayStep, UpdateServerStep, RequireNoMaintenanceStep, EnrollExpiresStep,
     AgentEnrollStep, MaintenanceJobStep, DeployNodeStep, ReserveForwardStep, ReleaseForwardStep, RemoveNodeStep
<1>2. ASSUME NEW c \in calls,
             \/ QuotaRow(c) \/ QuotaCalibration(c) \/ QuotaSum(c) \/ QuotaAgain(c) \/ QuotaCompare(c)
             \/ DisableServer(c) \/ UpdateServerWithCalibration(c) \/ SetAgentEnrollToken(c)
             \/ CompleteEnrollment(c) \/ ResetAgentToken(c) \/ DeleteServer(c) \/ CreateNode(c)
      PROVE  FleetInv'
  BY <1>2, QuotaRowStep, QuotaCalibrationStep, QuotaSumStep, QuotaAgainStep, QuotaCompareStep, DisableServerStep,
     UpdateServerWithCalibrationStep, SetAgentEnrollTokenStep, CompleteEnrollmentStep, ResetAgentTokenStep,
     DeleteServerStep, CreateNodeStep
<1> QED  BY <1>1, <1>2 DEF FleetNext

LEMMA FleetStutters == ASSUME FleetInv, UNCHANGED fleetVars PROVE FleetInv'
<1>1. UNCHANGED <<server, calib, agent, listeners, reserved, enrolled, voided, daily, today, stamp, calls>>
  BY DEF fleetVars
<1>2. PICK d : d = [op |-> "token"]  OBVIOUS
<1>3. CallOK(d)  BY <1>2, OtherCall DEF AdminOps
<1> QED  BY <1>1, <1>3, FleetGoesOn

LEMMA FleetHolds == ASSUME FleetInv PROVE FleetState
<1>1. EnrolledOnce  BY DEF FleetInv, TokensOK, EnrolledOnce
<1>2. ASSUME NEW r \in Resources, NEW s \in Resources, listeners[r] # 0, listeners[r] = listeners[s] PROVE r = s
  <2>1. PICK l : l = listeners[r] /\ l = listeners[s]  BY <1>2
  <2>2. [res |-> r, port |-> l] \in reserved /\ [res |-> s, port |-> l] \in reserved
    BY <1>2, <2>1 DEF FleetInv, PortsOK
  <2>3. [res |-> r, port |-> l].port = [res |-> s, port |-> l].port  OBVIOUS
  <2>4. [res |-> r, port |-> l].res = [res |-> s, port |-> l].res  BY <2>2, <2>3 DEF FleetInv, PortsOK
  <2> QED  BY <2>4
<1>3. PortsExclusive  BY <1>2 DEF FleetInv, PortsOK, PortsExclusive
<1> QED  BY <1>1, <1>3 DEF FleetInv, FleetState

(* More traffic is never billed as less. *)
LEMMA BilledGrows ==
  ASSUME NEW s \in Nat, NEW t \in Nat, s <= t, NEW k \in CalRows \cup {None}
  PROVE  Billed(s, k) \in Nat /\ Billed(t, k) \in Nat /\ Billed(s, k) <= Billed(t, k)
<1>1. CASE k = None  BY <1>1 DEF Billed
<1>2. CASE k # None
  <2>1. k.val \in Nat /\ k.obs \in Nat  BY <1>2 DEF CalRows
  <2>2. PICK v \in Nat, o \in Nat : v = k.val /\ o = k.obs  BY <2>1
  <2> QED  BY <1>2, <2>2 DEF Billed
<1> QED  BY <1>1, <1>2

LEMMA DisabledOverQuota == ASSUME FleetInv, NEW c \in calls, DisableServer(c) PROVE QuotaJustified
<1> SUFFICES ASSUME server # None, server.on, ~server'.on
             PROVE  /\ server.quota > 0
                    /\ Billed(Sum2(WindowStart(today, server.reset), today), Calibration(today, server.reset))
                         >= server.quota
  BY DEF QuotaJustified
<1>1. QuotaUnchanged(c)  BY DEF DisableServer
<1>2. c \in QuotaCalls /\ QuotaOK(c) /\ c.pc = "disable"  BY DEF FleetInv, CallOK, DisableServer
<1>3. server.quota = c.row.quota /\ server.reset = c.row.reset /\ c.day = today /\ server \in ServerRows
      /\ (server.reset > 0 => Calibration(today, server.reset) = c.cal)
  BY <1>1 DEF QuotaUnchanged, FleetInv, FleetRows
<1>4. PICK q \in Nat, z \in Nat, e \in Nat, a \in Nat :
        q = server.quota /\ z = server.reset /\ e = today /\ a = c.sum
  BY <1>2, <1>3 DEF ServerRows, QuotaCalls, FleetInv, FleetRows
<1>5. q > 0 /\ c.day <= c.now /\ c.now <= today /\ c.cal = c.seen /\ Billed(a, c.seen) >= q
      /\ a <= Sum2(WindowStart(c.now, z), c.now) /\ (z = 0 => c.seen = None)
  BY <1>2, <1>3, <1>4 DEF QuotaOK
<1>6. c.now = e  BY <1>2, <1>3, <1>4, <1>5 DEF QuotaCalls
<1>7. PICK k \in CalRows \cup {None} : k = Calibration(e, z) /\ (z = 0 => k = None)
  BY CalibrationType DEF FleetInv
<1>8. k = c.seen
  <2>1. z = 0 \/ z > 0  BY <1>4
  <2>2. CASE z = 0  BY <1>5, <1>7, <2>2
  <2>3. CASE z > 0
    <3>1. server.reset > 0  BY <1>4, <2>3
    <3>2. Calibration(today, server.reset) = c.cal  BY <1>3, <3>1
    <3> QED  BY <1>4, <1>5, <1>7, <3>2
  <2> QED  BY <2>1, <2>2, <2>3
<1>9. PICK w \in Int : w = WindowStart(e, z) /\ e \in Int
  <2>1. e \in Int  OBVIOUS
  <2> QED  BY <2>1, WindowType
<1>10. PICK b \in Nat : b = Sum2(w, e)  BY <1>9, SumType DEF FleetInv, FleetRows
<1>11. a <= b  BY <1>5, <1>6, <1>9, <1>10
<1>12. Billed(a, k) \in Nat /\ Billed(b, k) \in Nat /\ Billed(a, k) <= Billed(b, k)  BY <1>7, <1>11, BilledGrows
<1>13. Billed(b, k) >= q  BY <1>5, <1>8, <1>12
<1> QED  BY <1>4, <1>5, <1>7, <1>9, <1>10, <1>13

LEMMA NotRevived == ASSUME FleetInv, NEW c \in calls, CompleteEnrollment(c) PROVE NeverRevived
<1>1. CASE ~EnrollUnchanged(c)  BY <1>1 DEF CompleteEnrollment, NeverRevived
<1>2. CASE EnrollUnchanged(c)
  <2>1. c.t \notin voided  BY <1>2 DEF EnrollUnchanged, FleetInv, TokensOK
  <2>2. DOMAIN enrolled' = DOMAIN enrolled \cup {c.t}  BY <1>2 DEF CompleteEnrollment
  <2> QED  BY <2>1, <2>2 DEF NeverRevived
<1> QED  BY <1>1, <1>2

LEMMA FleetJustified == ASSUME FleetInv, FleetNext PROVE QuotaJustified /\ NeverRevived
<1>1. UNCHANGED server => QuotaJustified  BY DEF QuotaJustified
<1>2. UNCHANGED enrolled => NeverRevived  BY DEF NeverRevived
<1>3. CASE HeartbeatTraffic \/ NewDay \/ UpdateServer \/ RequireNoMaintenance \/ EnrollExpires \/ AgentEnroll
           \/ MaintenanceJob \/ DeployNode \/ ReserveForward \/ ReleaseForward \/ RemoveNode
  BY <1>1, <1>2, <1>3 DEF HeartbeatTraffic, NewDay, UpdateServer, RequireNoMaintenance, EnrollExpires, AgentEnroll,
     MaintenanceJob, DeployNode, ReserveForward, ReleaseForward, RemoveNode
<1>4. ASSUME NEW c \in calls,
             \/ QuotaRow(c) \/ QuotaCalibration(c) \/ QuotaSum(c) \/ QuotaAgain(c) \/ QuotaCompare(c)
             \/ SetAgentEnrollToken(c) \/ ResetAgentToken(c) \/ CreateNode(c)
      PROVE  QuotaJustified /\ NeverRevived
  BY <1>1, <1>2, <1>4 DEF QuotaRow, QuotaCalibration, QuotaSum, QuotaAgain, QuotaCompare, SetAgentEnrollToken,
     ResetAgentToken, CreateNode
<1>5. ASSUME NEW c \in calls, DisableServer(c) PROVE QuotaJustified /\ NeverRevived
  BY <1>2, <1>5, DisabledOverQuota DEF DisableServer
<1>6. ASSUME NEW c \in calls, CompleteEnrollment(c) PROVE QuotaJustified /\ NeverRevived
  BY <1>1, <1>6, NotRevived DEF CompleteEnrollment
<1>7. ASSUME NEW c \in calls, DeleteServer(c) PROVE QuotaJustified /\ NeverRevived
  BY <1>2, <1>7 DEF DeleteServer, QuotaJustified
<1>8. ASSUME NEW c \in calls, UpdateServerWithCalibration(c) PROVE QuotaJustified /\ NeverRevived
  <2>1. NeverRevived  BY <1>2, <1>8 DEF UpdateServerWithCalibration
  <2>2. c.row \in ServerRows /\ c.row.by = "admin"  BY <1>8 DEF UpdateServerWithCalibration, FleetInv, CallOK
  <2>3. CASE server = None  BY <2>1, <2>3 DEF QuotaJustified
  <2>4. CASE server # None
    <3>1. server' = [c.row EXCEPT !.upd = stamp]  BY <1>8, <2>4 DEF UpdateServerWithCalibration
    <3>2. server'.by = "admin"  BY <2>2, <3>1 DEF ServerRows
    <3> QED  BY <2>1, <3>2 DEF QuotaJustified
  <2> QED  BY <2>3, <2>4
<1> QED  BY <1>3, <1>4, <1>5, <1>6, <1>7, <1>8 DEF FleetNext

(* The inductive invariant of servers: what a quota check on its way has read is a lower    *)
(* bound of what holds until its day is over, an enrolment token that can be presented was  *)
(* neither used nor replaced, and a port is reserved for one listener (api/agent.go,        *)
(* store/servers.go, store/server_quota.go, the triggers of store/schema.go).               *)
THEOREM FleetInvariance == FleetSpec => []FleetInv
<1>1. FleetInit => FleetInv
  BY FleetStarts
<1>2. FleetInv /\ [FleetNext]_fleetVars => FleetInv'
  BY FleetSteps, FleetStutters
<1> QED  BY <1>1, <1>2, PTL DEF FleetSpec

(* For every port range and every interleaving of heartbeats, edits, enrolments and         *)
(* deletions: a server the quota switches off is over it at that moment, a token registers  *)
(* one agent and none after it was replaced, no two listeners share a port, and a deleted   *)
(* server leaves nothing behind.                                                            *)
THEOREM FleetIsSafe == FleetSpec => FleetSafe
<1>1. FleetInv /\ [FleetNext]_fleetVars => [QuotaJustified /\ NeverRevived]_fleetVars
  BY FleetJustified
<1>2. FleetInv => FleetState
  BY FleetHolds
<1> QED  BY <1>1, <1>2, FleetInvariance, PTL DEF FleetSpec, FleetSafe
=============================================================================
