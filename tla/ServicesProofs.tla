---------------------------- MODULE ServicesProofs ----------------------------
(***************************************************************************)
(* Proofs about the services that MCServices composes: one inductive       *)
(* invariant per service (ServicesInvariants), one lemma per action.       *)
(***************************************************************************)
EXTENDS ServicesInvariants, SequenceTheorems, FiniteSetTheorems, TLAPS

-----------------------------------------------------------------------------
(* Tokens. *)
LEMMA HeldMember ==
  ASSUME NEW k \in Links, NEW t
  PROVE  t \in Held(k) <=> \/ t = link[k].tok
                           \/ \E e \in edits : e.k = k /\ t = e.read.tok
                           \/ k = "share" /\ shareOp.row # Nothing /\ t = shareOp.row.tok
  BY DEF Held

LEMMA HeldMemberNext ==
  ASSUME NEW k \in Links, NEW t
  PROVE  t \in Held(k)' <=> \/ t = link'[k].tok
                            \/ \E e \in edits' : e.k = k /\ t = e.read.tok
                            \/ k = "share" /\ shareOp'.row # Nothing /\ t = shareOp'.row.tok
  BY DEF Held

LEMMA HeldTyped ==
  ASSUME ServeTyped, NEW k \in Links
  PROVE  Held(k) \subseteq Nat /\ link[k].tok \in Held(k)
<1>1. link[k].tok \in Nat /\ \A e \in edits : e.read.tok \in Nat
  BY DEF ServeTyped, LinkRow
<1>2. shareOp.row # Nothing => shareOp.row.tok \in Nat
  BY DEF ServeTyped, LinkRow
<1> QED  BY <1>1, <1>2, HeldMember

(* Rows are at most read, or what was read is forgotten. *)
LEMMA TokensRead ==
  ASSUME ServeTyped, TokenInv, UNCHANGED <<link, fresh, lost, raced>>,
         \A e \in edits' : e \in edits \/ (e.k \in Links /\ e.read = link[e.k]),
         shareOp'.row \in {shareOp.row, Nothing, link["share"]}
  PROVE  TokenInv'
<1>1. \A k \in Links : Held(k)' \subseteq Held(k)
  BY HeldMember, HeldMemberNext DEF Links
<1>2. \A k \in Links : link'[k].tok \in Held(k)'
  BY HeldMemberNext
<1>3. \A k \in Links \ raced : Held(k)' = {link'[k].tok}
  BY <1>1, <1>2 DEF TokenInv
<1>4. Held("gen")' \cap Held("share")' = {}
  BY <1>1 DEF TokenInv, Links
<1> QED  BY <1>1, <1>3, <1>4 DEF TokenInv

(* A link is written: with the next token, or with one that was read. *)
LEMMA TokensWritten ==
  ASSUME ServeTyped, TokenInv, NEW k \in Links, NEW new \in LinkRow, WriteLink(k, new),
         new.tok = fresh \/ new.tok \in Held(k), edits' \subseteq edits,
         shareOp'.row \in {shareOp.row, Nothing}
  PROVE  /\ TokenInv'
         /\ link' \in [Links -> LinkRow] /\ fresh' \in Nat /\ lost' \subseteq Nat
<1>1. /\ link' \in [Links -> LinkRow] /\ link'[k] = new /\ \A j \in Links \ {k} : link'[j] = link[j]
  BY DEF WriteLink, ServeTyped
<1>2. fresh \in Nat /\ lost \subseteq Nat /\ \A j \in Links : Held(j) \subseteq Nat /\ link[j].tok \in Held(j)
  BY HeldTyped DEF ServeTyped
<1>3. \A j \in Links : \A t \in Held(j) : t < fresh
  BY DEF TokenInv
<1>4. /\ new.tok = fresh => lost' = lost \cup {link[k].tok} /\ fresh' = fresh + 1
      /\ new.tok # fresh => lost' = lost /\ fresh' = fresh
  BY DEF WriteLink
<1>5. \A j \in Links \ {k} : Held(j)' \subseteq Held(j)
  BY <1>1, HeldMember, HeldMemberNext
<1>6. Held(k)' \subseteq Held(k) \cup {new.tok}
  BY <1>1, HeldMember, HeldMemberNext
<1>7. fresh' \in Nat /\ fresh' >= fresh /\ new.tok < fresh' /\ lost' \subseteq Nat
  <2>1. CASE new.tok = fresh
    <3>1. link[k].tok \in Nat
      BY <1>2
    <3>2. lost' \subseteq Nat
      BY <1>2, <1>4, <2>1, <3>1
    <3> QED  BY <1>2, <1>4, <2>1, <3>2
  <2>2. CASE new.tok # fresh
    <3>1. new.tok < fresh
      BY <1>3, <2>2
    <3>2. lost' \subseteq Nat
      BY <1>2, <1>4, <2>2
    <3> QED  BY <1>2, <1>4, <2>2, <3>1, <3>2
  <2> QED  BY <2>1, <2>2
<1>8. \A j \in Links : \A t \in Held(j)' : t < fresh'
  <2> SUFFICES ASSUME NEW j \in Links, NEW t \in Held(j)' PROVE t < fresh'
    OBVIOUS
  <2>1. t \in Held(j) \/ t = new.tok
    BY <1>5, <1>6
  <2>2. CASE t \in Held(j)
    BY <1>2, <1>3, <1>7, <2>2
  <2> QED  BY <1>7, <2>1, <2>2
<1>9. \A t \in lost' : t < fresh'
  <2> SUFFICES ASSUME NEW t \in lost' PROVE t < fresh'
    OBVIOUS
  <2>1. t \in lost \/ t \in Held(k)
    BY <1>2, <1>4
  <2>2. t \in Nat /\ t < fresh
    BY <1>2, <1>3, <2>1 DEF TokenInv
  <2> QED  BY <1>2, <1>7, <2>2
<1>10. Held("gen")' \cap Held("share")' = {}
  <2>1. "gen" \in Links /\ "share" \in Links /\ Links = {"gen", "share"} /\ Held("gen") \cap Held("share") = {}
    BY DEF Links, TokenInv
  <2>2. \A j \in Links : fresh \notin Held(j)
    BY <1>2, <1>3
  <2>3. CASE k = "gen"
    BY <1>5, <1>6, <2>1, <2>2, <2>3
  <2>4. CASE k = "share"
    BY <1>5, <1>6, <2>1, <2>2, <2>4
  <2> QED  BY <2>1, <2>3, <2>4
<1>11. ASSUME NEW j \in Links, j \notin raced'
       PROVE  Held(j)' = {link'[j].tok} /\ link'[j].tok \notin lost'
  <2>1. j \notin raced /\ Held(j) = {link[j].tok} /\ link[j].tok \notin lost
    BY <1>11 DEF WriteLink, TokenInv
  <2>2. link'[j].tok \in Held(j)'
    BY HeldMemberNext
  <2>3. CASE j = k
    <3>1. ~(\E e \in edits' : e.k = k) /\ ~(k = "share" /\ shareOp'.row # Nothing)
      BY <1>11, <2>3 DEF WriteLink
    <3>2. Held(j)' = {link'[j].tok}
      BY <2>2, <2>3, <3>1, HeldMemberNext
    <3>3. new.tok = fresh \/ new.tok = link[k].tok
      BY <2>1, <2>3
    <3>4. link[k].tok # fresh /\ fresh \notin lost
      BY <1>2, <1>3 DEF TokenInv
    <3> QED  BY <1>1, <1>4, <2>1, <2>3, <3>2, <3>3, <3>4
  <2>4. CASE j # k
    <3>1. Held(j)' = {link'[j].tok} /\ link'[j].tok = link[j].tok
      BY <1>1, <1>5, <2>1, <2>2, <2>4
    <3>2. link[k].tok # link[j].tok
      BY <1>2, <2>4 DEF TokenInv, Links
    <3> QED  BY <1>4, <2>1, <3>1, <3>2
  <2> QED  BY <2>3, <2>4
<1> QED  BY <1>1, <1>7, <1>8, <1>9, <1>10, <1>11 DEF TokenInv

-----------------------------------------------------------------------------
(* The request notes what is allowed while it runs. *)
LEMMA AllowedKnown ==
  ASSUME NEW c \in [NodeNames -> NodeRow], NEW a \in [Dials -> Nat], NEW sh, NEW over \in BOOLEAN,
         sh \in [status : {"active", "paused", "revoked"}, used : BOOLEAN],
         NEW now, now = Allowed(c, a, sh, over)
  PROVE  /\ now \in Grants
         /\ now.rows = {<<n, c[n].cred>> : n \in {m \in Dials : c[m].on}}
         /\ now.receipts = {<<n, a[n]>> : n \in Dials}
         /\ now.chain = c["v"].on /\ now.share = ShareOpen(sh) /\ now.quota = ~over
<1>1. /\ \A n \in Dials : c[n].cred \in Nat /\ c[n].on \in BOOLEAN /\ a[n] \in Nat
      /\ c["v"].on \in BOOLEAN /\ ShareOpen(sh) \in BOOLEAN /\ over \in BOOLEAN
  BY DEF NodeNames, NodeRow, ShareOpen
<1> DEFINE R == {<<n, c[n].cred>> : n \in {m \in Dials : c[m].on}}
           A == {<<n, a[n]>> : n \in Dials}
<1>2. R \in SUBSET (Dials \X Nat) /\ A \in SUBSET (Dials \X Nat)
  BY <1>1
<1>3. now =
        [rows |-> R, chain |-> c["v"].on, receipts |-> A, share |-> ShareOpen(sh), quota |-> ~over]
  BY Zenon DEF Allowed
<1> HIDE DEF R, A
<1> QED  BY <1>1, <1>2, <1>3 DEF Grants, R, A

LEMMA MayGrows ==
  ASSUME NEW r \in Requests, NEW m \in Grants, Covers(m, r.may), ListOK(r), AtHandOK(r), ShownOK(r)
  PROVE  LET new == [r EXCEPT !.may = m]
         IN  new \in Requests /\ ListOK(new) /\ AtHandOK(new) /\ ShownOK(new) /\ new.may = m /\ new.ph = r.ph
<1>1. PICK new : new = [r EXCEPT !.may = m]
  OBVIOUS
<1>2. /\ new \in Requests /\ new.may = m
      /\ new.k = r.k /\ new.ph = r.ph /\ new.rows = r.rows /\ new.todo = r.todo /\ new.ok = r.ok
      /\ new.cur = r.cur
  BY <1>1 DEF Requests
<1>3. ListOK(new)
  BY <1>2 DEF ListOK, Covers
<1>4. AtHandOK(new)
  BY <1>2 DEF AtHandOK, Covers
<1>5. ShownOK(new)
  BY <1>2 DEF ShownOK, Covers
<1> QED  BY <1>1, <1>2, <1>3, <1>4, <1>5

(* A step of the world while the request runs. *)
LEMMA WorldNoted ==
  ASSUME ReqInv, ServeTyped', Noted
  PROVE  ReqInv'
<1>1. PICK now : now = Allowed(cat', acked', share', overLimit')
  OBVIOUS
<1>2. now \in Grants /\ Now' = now
  <2>1. /\ cat' \in [NodeNames -> NodeRow] /\ acked' \in [Dials -> Nat] /\ overLimit' \in BOOLEAN
        /\ share' \in [status : {"active", "paused", "revoked"}, used : BOOLEAN]
    BY DEF ServeTyped
  <2>2. now \in Grants
    BY <1>1, <2>1, AllowedKnown
  <2> QED  BY <1>1, <2>2 DEF Now
<1>3. CASE req = Nothing \/ req.ph = "done"
  <2>1. req' = req
    BY <1>3 DEF Noted
  <2> QED  BY <1>3, <2>1 DEF ReqInv
<1>4. CASE req # Nothing /\ req.ph # "done"
  <2>1. PICK m : m = [rows |-> req.may.rows \cup now.rows, chain |-> req.may.chain \/ now.chain,
                      receipts |-> req.may.receipts \cup now.receipts,
                      share |-> req.may.share \/ now.share, quota |-> req.may.quota \/ now.quota]
    OBVIOUS
  <2>2. req' = [req EXCEPT !.may = m]
    BY <1>1, <1>4, <2>1 DEF Noted
  <2>3. req \in Requests /\ ListOK(req) /\ AtHandOK(req) /\ ShownOK(req)
    BY <1>4 DEF ReqInv
  <2>4. req.may \in Grants
    BY <2>3 DEF Requests
  <2>5. m \in Grants /\ Covers(m, req.may) /\ Covers(m, now)
    BY <1>2, <2>1, <2>4 DEF Grants, Covers
  <2>6. req' \in Requests /\ ListOK(req') /\ AtHandOK(req') /\ ShownOK(req') /\ req'.may = m
    BY <2>2, <2>3, <2>5, MayGrows, Zenon
  <2> QED  BY <1>2, <2>5, <2>6 DEF ReqInv
<1> QED  BY <1>3, <1>4

(* The steps of administrators, the share manager and the agents. *)
LEMMA StepNames ==
  ShareOpSteps = {"nodes off", "nodes new", "revoked", "active", "link off", "link new", "read link"}
<1>1. 1..4 = {1, 2, 3, 4}
  OBVIOUS
<1>2. Revoking[1] = "nodes off" /\ Revoking[2] = "revoked" /\ Revoking[3] = "read link" /\ Revoking[4] = "link off"
  BY DEF Revoking
<1>3. Reissuing[1] = "nodes new" /\ Reissuing[2] = "read link" /\ Reissuing[3] = "link new" /\ Reissuing[4] = "active"
  BY DEF Reissuing
<1>4. {Revoking[i] : i \in 1..4} = {"nodes off", "revoked", "read link", "link off"}
  BY <1>1, <1>2
<1>5. {Reissuing[i] : i \in 1..4} = {"nodes new", "read link", "link new", "active"}
  BY <1>1, <1>3
<1> QED  BY <1>4, <1>5 DEF ShareOpSteps

LEMMA Indices ==
  /\ 4 - 1 = 3 /\ 2 - 1 = 1
  /\ \A a \in Nat, b \in Nat : a = b - 1 =>
       \A i \in 2..a : /\ i \in 1..a /\ i - 1 \in 1..a /\ (i - 1) + 1 = i
                      /\ i + 1 \in 2..b /\ (i + 1) - 1 = i
  OBVIOUS

LEMMA Fours ==
  ASSUME NEW S, NEW a \in S, NEW b \in S, NEW c \in S, NEW d \in S
  PROVE  <<a, b, c, d>> \in Seq(S)
  OBVIOUS

LEMMA Sequences4 ==
  /\ Revoking \in Seq(ShareOpSteps) /\ Ordered(Revoking) /\ Head(Revoking) # "link off"
  /\ Reissuing \in Seq(ShareOpSteps) /\ Ordered(Reissuing) /\ Head(Reissuing) # "link off"
<1>1. Revoking[1] = "nodes off" /\ Revoking[2] = "revoked" /\ Revoking[3] = "read link" /\ Revoking[4] = "link off"
  BY DEF Revoking
<1>2. Reissuing[1] = "nodes new" /\ Reissuing[2] = "read link" /\ Reissuing[3] = "link new" /\ Reissuing[4] = "active"
  BY DEF Reissuing
<1>3. Len(Revoking) = 4 /\ Head(Revoking) = Revoking[1]
  BY DEF Revoking
<1>4. Len(Reissuing) = 4 /\ Head(Reissuing) = Reissuing[1]
  BY DEF Reissuing
<1>5. Revoking \in Seq(ShareOpSteps) /\ Reissuing \in Seq(ShareOpSteps)
  <2>1. PICK S : S = ShareOpSteps
    OBVIOUS
  <2>2. /\ "nodes off" \in S /\ "nodes new" \in S /\ "revoked" \in S /\ "active" \in S
        /\ "link off" \in S /\ "link new" \in S /\ "read link" \in S
    BY <2>1, StepNames
  <2>3. Revoking \in Seq(S)
    BY <2>2, Fours, Zenon DEF Revoking
  <2>4. Reissuing \in Seq(S)
    BY <2>2, Fours, Zenon DEF Reissuing
  <2> QED  BY <2>1, <2>3, <2>4
<1>6. \A i \in 2..4 : i \in {2, 3, 4}
  OBVIOUS
<1>7. Ordered(Revoking)
  <2> SUFFICES ASSUME NEW i \in {2, 3, 4}, Revoking[i] = "link off" PROVE Revoking[i - 1] = "read link"
    BY <1>3, <1>6 DEF Ordered
  <2>1. i = 4
    BY <1>1
  <2>2. i - 1 = 3
    BY <2>1, Indices, Zenon
  <2> QED  BY <1>1, <2>2
<1>8. Ordered(Reissuing)
  <2> SUFFICES ASSUME NEW i \in {2, 3, 4} PROVE Reissuing[i] # "link off"
    BY <1>4, <1>6 DEF Ordered
  <2> QED  BY <1>2
<1> QED  BY <1>1, <1>2, <1>3, <1>4, <1>5, <1>7, <1>8

LEMMA OpSteps ==
  ASSUME NEW todo \in Seq(ShareOpSteps), todo # << >>, Ordered(todo)
  PROVE  /\ Tail(todo) \in Seq(ShareOpSteps) /\ Ordered(Tail(todo))
         /\ Tail(todo) # << >> /\ Head(Tail(todo)) = "link off" => Head(todo) = "read link"
<1>1. PICK T : T = Tail(todo)
  OBVIOUS
<1>2. /\ T \in Seq(ShareOpSteps) /\ Len(T) = Len(todo) - 1 /\ Len(todo) \in Nat /\ Len(todo) >= 1
      /\ \A i \in 1..Len(T) : T[i] = todo[i + 1]
  BY <1>1, HeadTailProperties
<1>5. PICK a, b : a = Len(T) /\ b = Len(todo)
  OBVIOUS
<1>6. a \in Nat /\ b \in Nat /\ a = b - 1
  BY <1>2, <1>5
<1>3. Ordered(T)
  <2> SUFFICES ASSUME NEW i \in 2..Len(T), T[i] = "link off" PROVE T[i - 1] = "read link"
    BY DEF Ordered
  <2>1. PICK j : j = i + 1
    OBVIOUS
  <2>2. j \in 2..Len(todo) /\ j - 1 = i /\ i \in 1..Len(T) /\ i - 1 \in 1..Len(T) /\ (i - 1) + 1 = i
    <3>1. i \in 2..a
      BY <1>5
    <3>2. i \in 1..a /\ i - 1 \in 1..a /\ (i - 1) + 1 = i /\ i + 1 \in 2..b /\ (i + 1) - 1 = i
      BY <1>6, <3>1, Indices, Zenon
    <3> QED  BY <1>5, <2>1, <3>2, Zenon
  <2>3. T[i] = todo[j] /\ T[i - 1] = todo[i]
    BY <1>2, <2>1, <2>2
  <2>4. todo[j] = "link off" => todo[j - 1] = "read link"
    BY <2>2 DEF Ordered
  <2> QED  BY <2>2, <2>3, <2>4
<1>4. ASSUME T # << >>, Head(T) = "link off" PROVE Head(todo) = "read link"
  <2>1. Len(T) >= 1
    <3>1. a # 0
      BY <1>2, <1>4, <1>5, EmptySeq
    <3> QED  BY <1>5, <1>6, <3>1
  <2>3. Head(T) = T[1] /\ Head(todo) = todo[1]
    OBVIOUS
  <2>2. T[1] = todo[2] /\ 2 \in 2..Len(todo) /\ 2 - 1 = 1
    BY <1>2, <2>1
  <2> QED  BY <1>4, <2>2, <2>3 DEF Ordered
<1> QED  BY <1>1, <1>2, <1>3, <1>4

LEMMA LinkRowKept ==
  ASSUME NEW found \in LinkRow, NEW on \in BOOLEAN, NEW t \in Nat
  PROVE  /\ [found EXCEPT !.on = on] \in LinkRow /\ [found EXCEPT !.on = on].tok = found.tok
         /\ [found EXCEPT !.tok = t] \in LinkRow /\ [found EXCEPT !.tok = t].tok = t
         /\ [tok |-> t, on |-> on] \in LinkRow /\ [tok |-> t, on |-> on].tok = t
         /\ found # Nothing
  BY ServingAssumption DEF LinkRow

LEMMA LinkEdits ==
  ASSUME ServeInv,
         \/ \E k \in Links : BeginLinkEdit(k)
         \/ \E e \in edits : UpdateSubscription(e) \/ RotateSubscriptionToken(e)
  PROVE  ServeInv'
<1>1. ServeTyped /\ TokenInv /\ ReadFirst /\ ReqInv
  BY DEF ServeInv
<1>2. CASE \E k \in Links : BeginLinkEdit(k)
  <2>1. PICK k \in Links : BeginLinkEdit(k)
    BY <1>2
  <2>2. /\ UNCHANGED <<link, cat, acked, share, overLimit, expired, shareOp, fresh, lost, raced>> /\ Noted
        /\ edits' = edits \cup {[k |-> k, read |-> link[k], n |-> vleft["link"]]}
    BY <2>1 DEF BeginLinkEdit
  <2>3. \A e \in edits' : e \in edits \/ (e.k \in Links /\ e.read = link[e.k])
    BY <2>2
  <2>4. ServeTyped'
    BY <1>1, <2>2, <2>3 DEF ServeTyped
  <2>5. TokenInv' /\ ReadFirst'
    BY <1>1, <2>2, <2>3, TokensRead DEF ReadFirst
  <2> QED  BY <1>1, <2>2, <2>4, <2>5, WorldNoted DEF ServeInv
<1>3. ASSUME NEW e \in edits, NEW new, WriteLink(e.k, new), edits' = edits \ {e}, UNCHANGED shareOp,
             UNCHANGED <<cat, acked, share, overLimit, expired, vleft>>, Noted,
             new \in LinkRow, new.tok = fresh \/ new.tok = e.read.tok
      PROVE  ServeInv'
  <2>1. e.k \in Links /\ (new.tok = fresh \/ new.tok \in Held(e.k)) /\ edits' \subseteq edits
    BY <1>1, <1>3, HeldMember DEF ServeTyped
  <2>2. TokenInv' /\ link' \in [Links -> LinkRow] /\ fresh' \in Nat /\ lost' \subseteq Nat
    BY <1>1, <1>3, <2>1, TokensWritten
  <2>3. ServeTyped' /\ ReadFirst'
    BY <1>1, <1>3, <2>1, <2>2 DEF ServeTyped, ReadFirst
  <2> QED  BY <1>1, <1>3, <2>2, <2>3, WorldNoted DEF ServeInv
<1>4. CASE \E e \in edits : UpdateSubscription(e) \/ RotateSubscriptionToken(e)
  <2>1. PICK e \in edits : UpdateSubscription(e) \/ RotateSubscriptionToken(e)
    BY <1>4
  <2>2. e.read \in LinkRow /\ fresh \in Nat
    BY <1>1 DEF ServeTyped
  <2>3. /\ edits' = edits \ {e} /\ UNCHANGED shareOp
        /\ UNCHANGED <<cat, acked, share, overLimit, expired, vleft>> /\ Noted
    BY <2>1 DEF UpdateSubscription, RotateSubscriptionToken
  <2>4. CASE UpdateSubscription(e)
    <3>1. PICK on \in BOOLEAN : WriteLink(e.k, [e.read EXCEPT !.on = on])
      BY <2>4 DEF UpdateSubscription
    <3>2. PICK new : new = [e.read EXCEPT !.on = on]
      OBVIOUS
    <3>3. new \in LinkRow /\ new.tok = e.read.tok /\ WriteLink(e.k, new)
      BY <2>2, <3>1, <3>2, LinkRowKept
    <3> QED  BY <1>3, <2>3, <3>3
  <2>5. CASE RotateSubscriptionToken(e)
    <3>1. WriteLink(e.k, [e.read EXCEPT !.tok = fresh])
      BY <2>5 DEF RotateSubscriptionToken
    <3>2. PICK new : new = [e.read EXCEPT !.tok = fresh]
      OBVIOUS
    <3>3. new \in LinkRow /\ new.tok = fresh /\ WriteLink(e.k, new)
      BY <2>2, <3>1, <3>2, LinkRowKept
    <3> QED  BY <1>3, <2>3, <3>3
  <2> QED  BY <2>1, <2>4, <2>5
<1> QED  BY <1>2, <1>4

LEMMA ShareOperation ==
  ASSUME ServeInv, NEW step \in ShareOpSteps, ShareOpStep(step)
  PROVE  ServeInv'
<1>1. ServeTyped /\ TokenInv /\ ReadFirst /\ ReqInv
  BY DEF ServeInv
<1>2. /\ shareOp.todo # << >> /\ step = Head(shareOp.todo)
      /\ shareOp' = [todo |-> Tail(shareOp.todo), row |-> IF step = "read link" THEN link["share"] ELSE Nothing]
      /\ UNCHANGED <<acked, overLimit, expired, vleft>> /\ Noted
  BY DEF ShareOpStep
<1>3. /\ shareOp.todo \in Seq(ShareOpSteps) /\ Ordered(shareOp.todo)
      /\ "share" \in Links /\ link["share"] \in LinkRow /\ link["share"] # Nothing /\ fresh \in Nat
  BY <1>1, LinkRowKept DEF ServeTyped, Links, ReadFirst
<1>4. PICK todo : todo = Tail(shareOp.todo)
  OBVIOUS
<1>5. shareOp' \in [todo : Seq(ShareOpSteps), row : LinkRow \cup {Nothing}] /\ ReadFirst'
  <2>1. todo \in Seq(ShareOpSteps) /\ Ordered(todo) /\ (todo # << >> /\ Head(todo) = "link off" => step = "read link")
    BY <1>2, <1>3, <1>4, OpSteps
  <2>2. PICK found : found = IF step = "read link" THEN link["share"] ELSE Nothing
    OBVIOUS
  <2>3. found \in LinkRow \cup {Nothing} /\ shareOp' = [todo |-> todo, row |-> found]
    BY <1>2, <1>3, <1>4, <2>2
  <2>4. shareOp'.todo = todo /\ shareOp'.row = found /\ (step = "read link" => found # Nothing)
    BY <1>3, <2>2, <2>3
  <2>5. ReadFirst'
    BY <2>1, <2>4 DEF ReadFirst
  <2>6. PICK S, L : S = Seq(ShareOpSteps) /\ L = LinkRow \cup {Nothing}
    OBVIOUS
  <2>7. todo \in S /\ found \in L
    BY <2>1, <2>3, <2>6
  <2>8. shareOp' \in [todo : S, row : L]
    BY <2>3, <2>7
  <2> QED  BY <2>5, <2>6, <2>8
<1>6. shareOp'.row \in {shareOp.row, Nothing, link["share"]} /\ (step # "read link" => shareOp'.row = Nothing)
  BY <1>2
<1>7. CASE step \in {"nodes off", "nodes new"}
  <2>1. /\ cat' = [cat EXCEPT !["s"] = IF step = "nodes off" THEN [@ EXCEPT !.on = FALSE] ELSE [cred |-> @.cred + 1, on |-> TRUE]]
        /\ UNCHANGED <<link, edits, fresh, lost, raced, share>>
    BY <1>7 DEF ShareOpStep, ShareOpNodes, keepLinks
  <2>2. cat' \in [NodeNames -> NodeRow]
    <3>1. PICK found : found = IF step = "nodes off" THEN [cat["s"] EXCEPT !.on = FALSE] ELSE [cred |-> cat["s"].cred + 1, on |-> TRUE]
      OBVIOUS
    <3>2. cat' = [cat EXCEPT !["s"] = found]
      BY <2>1, <3>1
    <3>3. cat["s"] \in NodeRow
      BY <1>1 DEF ServeTyped, NodeNames, Dials
    <3>4. found \in NodeRow
      <4>1. [cat["s"] EXCEPT !.on = FALSE] \in NodeRow
        BY <3>3 DEF NodeRow
      <4>2. cat["s"].cred + 1 \in Nat
        BY <3>3 DEF NodeRow
      <4>3. [cred |-> cat["s"].cred + 1, on |-> TRUE] \in NodeRow
        BY <4>2 DEF NodeRow
      <4> QED  BY <3>1, <4>1, <4>3
    <3> QED  BY <1>1, <3>2, <3>4 DEF ServeTyped
  <2>3. ServeTyped' /\ TokenInv'
    <3>1. TokenInv'
      BY <1>1, <1>6, <2>1, TokensRead DEF ServeTyped
    <3> QED  BY <1>1, <1>2, <1>5, <2>1, <2>2, <3>1 DEF ServeTyped
  <2> QED  BY <1>1, <1>2, <1>5, <2>3, WorldNoted DEF ServeInv
<1>8. CASE step \in {"revoked", "active"}
  <2>1. share' = [share EXCEPT !.status = step] /\ UNCHANGED <<link, edits, fresh, lost, raced, cat>>
    BY <1>8 DEF ShareOpStep, ShareOpStatus, keepLinks
  <2>2. share' \in [status : {"active", "paused", "revoked"}, used : BOOLEAN]
    BY <1>1, <1>8, <2>1 DEF ServeTyped
  <2>3. ServeTyped' /\ TokenInv'
    <3>1. TokenInv'
      BY <1>1, <1>6, <2>1, TokensRead DEF ServeTyped
    <3> QED  BY <1>1, <1>2, <1>5, <2>1, <2>2, <3>1 DEF ServeTyped
  <2> QED  BY <1>1, <1>2, <1>5, <2>3, WorldNoted DEF ServeInv
<1>9. CASE step \in {"link off", "link new"}
  <2>1. /\ UNCHANGED <<edits, cat, share>>
        /\ WriteLink("share", IF step = "link off" THEN [shareOp.row EXCEPT !.on = FALSE] ELSE [tok |-> fresh, on |-> TRUE])
    BY <1>9 DEF ShareOpStep, ShareOpLink
  <2>2. PICK new : new = IF step = "link off" THEN [shareOp.row EXCEPT !.on = FALSE] ELSE [tok |-> fresh, on |-> TRUE]
    OBVIOUS
  <2>3. new \in LinkRow /\ (new.tok = fresh \/ new.tok \in Held("share"))
    <3>1. CASE step = "link off"
      <4>1. shareOp.row # Nothing /\ shareOp.row \in LinkRow
        BY <1>1, <1>2, <3>1 DEF ReadFirst, ServeTyped
      <4>2. new = [shareOp.row EXCEPT !.on = FALSE]
        BY <2>2, <3>1
      <4>3. new \in LinkRow /\ new.tok = shareOp.row.tok
        BY <1>3, <4>1, <4>2, LinkRowKept
      <4> QED  BY <1>3, <4>1, <4>3, HeldMember
    <3>2. CASE step # "link off"
      BY <1>3, <2>2, <3>2, LinkRowKept
    <3> QED  BY <3>1, <3>2
  <2>4. WriteLink("share", new) /\ shareOp'.row \in {shareOp.row, Nothing} /\ edits' \subseteq edits
    BY <1>6, <1>9, <2>1, <2>2
  <2>5. TokenInv' /\ link' \in [Links -> LinkRow] /\ fresh' \in Nat /\ lost' \subseteq Nat
    BY <1>1, <1>3, <2>3, <2>4, TokensWritten
  <2>6. ServeTyped'
    BY <1>1, <1>2, <1>5, <2>1, <2>5 DEF ServeTyped
  <2> QED  BY <1>1, <1>2, <1>5, <2>5, <2>6, WorldNoted DEF ServeInv
<1>10. CASE step = "read link"
  <2>1. UNCHANGED <<link, edits, fresh, lost, raced, cat, share>>
    BY <1>10 DEF ShareOpStep, keepLinks
  <2>2. TokenInv'
    BY <1>1, <1>6, <2>1, TokensRead DEF ServeTyped
  <2>3. ServeTyped'
    BY <1>1, <1>2, <1>5, <2>1 DEF ServeTyped
  <2> QED  BY <1>1, <1>2, <1>5, <2>2, <2>3, WorldNoted DEF ServeInv
<1>11. step \in {"nodes off", "nodes new", "revoked", "active", "link off", "link new", "read link"}
  BY StepNames
<1> QED  BY <1>7, <1>8, <1>9, <1>10, <1>11

(* Everything else that happens around the request. *)
LEMMA WorldSteps ==
  ASSUME ServeInv,
         \/ \E steps \in {Revoking, Reissuing} : BeginShareOp(steps)
         \/ ShareChanges \/ LimitChanges \/ \E k \in Links : LinkExpires(k)
         \/ \E n \in Dials \cup {"v"} : EditNode(n)
         \/ \E n \in Dials : NewCredentials(n) \/ Receipt(n)
  PROVE  ServeInv'
<1>1. ServeTyped /\ TokenInv /\ ReadFirst /\ ReqInv
  BY DEF ServeInv
<1>2. UNCHANGED <<link, edits, fresh, lost, raced>> /\ Noted
  BY DEF BeginShareOp, ShareChanges, LimitChanges, LinkExpires, EditNode, NewCredentials, Receipt, keepLinks
<1>3. cat' \in [NodeNames -> NodeRow]
  <2>1. ASSUME NEW n \in NodeNames, EditNode(n)
        PROVE  cat' \in [NodeNames -> NodeRow]
    BY <1>1, <2>1 DEF ServeTyped, EditNode, NodeRow
  <2>2. ASSUME NEW n \in Dials, NewCredentials(n)
        PROVE  cat' \in [NodeNames -> NodeRow]
    <3>1. cat' = [cat EXCEPT ![n].cred = @ + 1] /\ n \in NodeNames /\ cat \in [NodeNames -> NodeRow]
      BY <1>1, <2>2 DEF ServeTyped, NewCredentials, NodeNames
    <3>2. [cat[n] EXCEPT !.cred = @ + 1] \in NodeRow
      BY <3>1 DEF NodeRow
    <3> HIDE DEF NodeNames, NodeRow
    <3> QED  BY <3>1, <3>2
  <2>3. CASE UNCHANGED cat
    BY <1>1, <2>3 DEF ServeTyped
  <2> QED  BY <2>1, <2>2, <2>3 DEF BeginShareOp, ShareChanges, LimitChanges, LinkExpires, Receipt, NodeNames
<1>4. acked' \in [Dials -> Nat]
  <2>1. ASSUME NEW n \in Dials, Receipt(n)
        PROVE  acked' \in [Dials -> Nat]
    <3>1. PICK c \in {0, cat[n].cred} : acked' = [acked EXCEPT ![n] = c]
      BY <2>1 DEF Receipt
    <3>2. c \in Nat
      BY <1>1 DEF ServeTyped, NodeNames, NodeRow
    <3> QED  BY <1>1, <3>1, <3>2 DEF ServeTyped
  <2>2. CASE UNCHANGED acked
    BY <1>1, <2>2 DEF ServeTyped
  <2> QED  BY <2>1, <2>2 DEF BeginShareOp, ShareChanges, LimitChanges, LinkExpires, EditNode, NewCredentials
<1>5. share' \in [status : {"active", "paused", "revoked"}, used : BOOLEAN] /\ overLimit' \in BOOLEAN
  <2>1. CASE ShareChanges
    BY <1>1, <2>1 DEF ServeTyped, ShareChanges
  <2>2. CASE LimitChanges
    BY <1>1, <2>2 DEF ServeTyped, LimitChanges
  <2>3. CASE UNCHANGED <<share, overLimit>>
    BY <1>1, <2>3 DEF ServeTyped
  <2> QED  BY <2>1, <2>2, <2>3 DEF BeginShareOp, LinkExpires, EditNode, NewCredentials, Receipt
<1>6. shareOp' \in [todo : Seq(ShareOpSteps), row : LinkRow \cup {Nothing}] /\ shareOp'.row = shareOp.row /\ ReadFirst'
  <2>1. ASSUME NEW steps \in {Revoking, Reissuing}, BeginShareOp(steps)
        PROVE  shareOp' \in [todo : Seq(ShareOpSteps), row : LinkRow \cup {Nothing}] /\ shareOp'.row = shareOp.row /\ ReadFirst'
    <3>1. shareOp' = [shareOp EXCEPT !.todo = steps]
      BY <2>1 DEF BeginShareOp
    <3>2. steps \in Seq(ShareOpSteps) /\ Ordered(steps) /\ Head(steps) # "link off"
      BY <2>1, Sequences4
    <3>3. PICK S, L : S = Seq(ShareOpSteps) /\ L = LinkRow \cup {Nothing}
      OBVIOUS
    <3>4. shareOp \in [todo : S, row : L] /\ steps \in S
      BY <1>1, <3>2, <3>3 DEF ServeTyped
    <3>5. shareOp' \in [todo : S, row : L] /\ shareOp'.row = shareOp.row /\ shareOp'.todo = steps
      BY <3>1, <3>4
    <3> QED  BY <3>2, <3>3, <3>5 DEF ReadFirst
  <2>2. CASE UNCHANGED shareOp
    BY <1>1, <2>2 DEF ServeTyped, ReadFirst
  <2> QED  BY <2>1, <2>2 DEF ShareChanges, LimitChanges, LinkExpires, EditNode, NewCredentials, Receipt
<1>7. TokenInv'
  BY <1>1, <1>2, <1>6, TokensRead
<1>8. ServeTyped'
  BY <1>1, <1>2, <1>3, <1>4, <1>5, <1>6 DEF ServeTyped
<1> QED  BY <1>1, <1>2, <1>6, <1>7, <1>8, WorldNoted DEF ServeInv

-----------------------------------------------------------------------------
(* The steps of the request leave the world alone. *)
LEMMA RequestStep ==
  ASSUME ServeInv, keepWorld, NEW r \in Requests, req' = r, ListOK(r), AtHandOK(r), ShownOK(r),
         r.ph # "done" => Covers(r.may, Now)
  PROVE  ServeInv'
<1>1. UNCHANGED <<link, edits, cat, acked, share, overLimit, expired, shareOp, fresh, lost, raced>>
  BY DEF keepWorld
<1>2. ServeTyped' /\ ReadFirst'
  BY <1>1 DEF ServeInv, ServeTyped, ReadFirst
<1>3. TokenInv'
  BY <1>1 DEF ServeInv, TokenInv, Held
<1>4. ReqInv'
  BY <1>1 DEF ReqInv, Now
<1> QED  BY <1>2, <1>3, <1>4 DEF ServeInv

LEMMA RequestFacts ==
  ASSUME ServeInv
  PROVE  /\ ServeTyped
         /\ req # Nothing => /\ req \in Requests /\ ListOK(req) /\ AtHandOK(req) /\ ShownOK(req)
                             /\ req.ph # "done" => Covers(req.may, Now)
         /\ \A n \in Dials : cat[n] \in NodeRow /\ (cat[n].on => <<n, cat[n].cred>> \in Now.rows)
         /\ \A n \in Dials : acked[n] \in Nat /\ <<n, acked[n]>> \in Now.receipts
         /\ Now \in Grants /\ Now.chain = cat["v"].on /\ Now.share = ShareOpen(share) /\ Now.quota = ~overLimit
<1>1. ServeTyped /\ ReqInv
  BY DEF ServeInv
<1>2. /\ Now \in Grants
      /\ Now.rows = {<<n, cat[n].cred>> : n \in {m \in Dials : cat[m].on}}
      /\ Now.receipts = {<<n, acked[n]>> : n \in Dials}
      /\ Now.chain = cat["v"].on /\ Now.share = ShareOpen(share) /\ Now.quota = ~overLimit
  <2>1. /\ cat \in [NodeNames -> NodeRow] /\ acked \in [Dials -> Nat] /\ overLimit \in BOOLEAN
        /\ share \in [status : {"active", "paused", "revoked"}, used : BOOLEAN]
    BY <1>1 DEF ServeTyped
  <2>2. PICK now : now = Allowed(cat, acked, share, overLimit)
    OBVIOUS
  <2>3. /\ now \in Grants
        /\ now.rows = {<<n, cat[n].cred>> : n \in {m \in Dials : cat[m].on}}
        /\ now.receipts = {<<n, acked[n]>> : n \in Dials}
        /\ now.chain = cat["v"].on /\ now.share = ShareOpen(share) /\ now.quota = ~overLimit
    BY <2>1, <2>2, AllowedKnown
  <2> QED  BY <2>2, <2>3 DEF Now
<1>3. \A n \in Dials : cat[n] \in NodeRow /\ acked[n] \in Nat
  BY <1>1 DEF ServeTyped, NodeNames
<1> QED  BY <1>1, <1>2, <1>3 DEF ReqInv

(* A request in another phase, or with another set of answers. *)
LEMMA RequestFields ==
  ASSUME NEW r \in Requests,
         NEW p \in Phases,
         NEW new, new = [r EXCEPT !.ph = p]
  PROVE  /\ new \in Requests /\ new.ph = p /\ new.k = r.k /\ new.rows = r.rows /\ new.todo = r.todo
         /\ new.ok = r.ok /\ new.cur = r.cur /\ new.tried = r.tried /\ new.may = r.may
  BY DEF Requests

LEMMA RequestSmallSteps ==
  ASSUME ServeInv, ServeSub \/ BuildShare \/ CheckQuota \/ ShareOfNode
  PROVE  ServeInv'
<1>1. PICK p \in Phases :
        /\ req' = [req EXCEPT !.ph = p]
        /\ req # Nothing /\ keepWorld
        /\ \/ req.ph = "admit" /\ p \in {"done", "build"}
           \/ req.ph = "build" /\ p \in {"done", "list"}
           \/ req.ph = "quota" /\ (p = "done" \/ (p = "node" /\ ~overLimit))
           \/ req.ph = "share" /\ (p = "node" \/ (p = "receipt" /\ ShareOpen(share)))
  <2>1. CASE ServeSub
    BY <2>1 DEF ServeSub, ReqAt, Go, Phases
  <2>2. CASE BuildShare
    BY <2>2 DEF BuildShare, ReqAt, Go, Phases
  <2>3. CASE CheckQuota
    BY <2>3 DEF CheckQuota, ReqAt, Go, Phases
  <2>4. CASE ShareOfNode
    BY <2>4 DEF ShareOfNode, ReqAt, Phases
  <2> QED  BY <2>1, <2>2, <2>3, <2>4
<1>2. /\ req \in Requests /\ ListOK(req) /\ AtHandOK(req) /\ ShownOK(req) /\ Covers(req.may, Now)
      /\ Now.share = ShareOpen(share) /\ Now.quota = ~overLimit
  BY <1>1, RequestFacts
<1>3. PICK r : r = [req EXCEPT !.ph = p]
  OBVIOUS
<1>4. /\ r \in Requests /\ r.ph = p /\ r.k = req.k /\ r.rows = req.rows /\ r.todo = req.todo
      /\ r.ok = req.ok /\ r.cur = req.cur /\ r.may = req.may
  BY <1>1, <1>2, <1>3, RequestFields
<1>5. ListOK(r)
  BY <1>2, <1>4 DEF ListOK
<1>6. AtHandOK(r)
  BY <1>1, <1>2, <1>4 DEF AtHandOK, Covers
<1>7. ShownOK(r)
  BY <1>1, <1>2, <1>4 DEF ShownOK
<1> QED  BY <1>1, <1>2, <1>3, <1>4, <1>5, <1>6, <1>7, RequestStep

LEMMA ServeStep ==
  ASSUME ServeInv, NEW k \in Links, Serve(k)
  PROVE  ServeInv'
<1>1. /\ req' = [k |-> k, on |-> link[k].on, ph |-> "admit", rows |-> << >>, todo |-> {},
                 ok |-> {}, cur |-> Nothing, tried |-> {}, may |-> Now]
      /\ keepWorld
  BY DEF Serve, Now
<1>2. PICK r : r = req'
  OBVIOUS
<1>3. Now \in Grants /\ link[k].on \in BOOLEAN
  BY RequestFacts DEF ServeTyped, LinkRow
<1>4. "admit" \in Phases /\ << >> \in RowLists /\ {} \in NodeSets /\ {} \in Answers /\ Nothing \in AtHand
  <2>1. << >> \in [{} -> NodeRow] /\ {} \in NodeSets
    BY DEF NodeSets
  <2>2. << >> \in RowLists
    BY <2>1 DEF RowLists
  <2> QED  BY <2>1, <2>2 DEF Phases, Answers, AtHand
<1>5. r \in Requests
  BY <1>1, <1>2, <1>3, <1>4 DEF Requests
<1>6. r.ph = "admit" /\ r.rows = << >> /\ r.todo = {} /\ r.ok = {} /\ r.may = Now
  BY <1>1, <1>2
<1>7. DOMAIN r.rows = {}
  BY <1>6
<1>8. ListOK(r) /\ AtHandOK(r) /\ ShownOK(r) /\ Covers(r.may, Now)
  BY <1>6, <1>7 DEF ListOK, AtHandOK, ShownOK, Covers
<1> QED  BY <1>1, <1>2, <1>5, <1>8, RequestStep

LEMMA ListNodesStep ==
  ASSUME ServeInv, ListNodes
  PROVE  ServeInv'
<1>1. PICK chosen : chosen = IF req.k = "gen" THEN SelectNodes(cat) ELSE {n \in {"s"} : cat[n].on}
  OBVIOUS
<1>2. PICK p : p = IF req.k = "gen" THEN "quota" ELSE "node"
  OBVIOUS
<1>3. PICK rs : rs = [n \in chosen |-> cat[n]]
  OBVIOUS
<1>4. /\ req # Nothing /\ req.ph = "list" /\ keepWorld
      /\ req' = [req EXCEPT !.ph = p, !.rows = rs, !.todo = chosen]
  BY <1>1, <1>2, <1>3 DEF ListNodes, ReqAt
<1>5. /\ req \in Requests /\ ListOK(req) /\ AtHandOK(req) /\ ShownOK(req) /\ Covers(req.may, Now)
      /\ \A n \in Dials : cat[n] \in NodeRow /\ (cat[n].on => <<n, cat[n].cred>> \in Now.rows)
      /\ Now.chain = cat["v"].on /\ cat \in [NodeNames -> NodeRow]
  BY <1>4, RequestFacts DEF ServeTyped
<1>6. /\ chosen \in SUBSET NodeNames /\ \A n \in chosen : cat[n].on
      /\ req.k = "gen" => "s" \notin chosen
  BY <1>1, <1>5 DEF SelectNodes, NodeNames, Dials
<1>7. rs \in [chosen -> NodeRow] /\ DOMAIN rs = chosen /\ \A n \in chosen : rs[n] = cat[n]
  BY <1>3, <1>5, <1>6
<1>8. PICK r : r = req'
  OBVIOUS
<1>9. /\ r \in Requests /\ r.k = req.k /\ r.ph = p /\ r.rows = rs /\ r.todo = chosen /\ r.ok = req.ok
      /\ r.may = req.may
  <2>1. p \in Phases /\ rs \in RowLists /\ chosen \in NodeSets
    BY <1>2, <1>6, <1>7 DEF Phases, RowLists, NodeSets
  <2> QED  BY <1>4, <1>5, <1>8, <2>1 DEF Requests
<1>10. ListOK(r)
  <2>1. \A n \in chosen : n \in Dials \/ n = "v"
    BY <1>6 DEF NodeNames
  <2> QED  BY <1>5, <1>6, <1>7, <1>9, <2>1 DEF ListOK, Covers
<1>11. AtHandOK(r) /\ ShownOK(r)
  BY <1>2, <1>4, <1>5, <1>9 DEF AtHandOK, ShownOK
<1> QED  BY <1>4, <1>5, <1>8, <1>9, <1>10, <1>11, RequestStep

(* A node is taken up: from the list, or once more for a chain. *)
LEMMA Projected ==
  ASSUME ServeInv, req # Nothing, req.ph = "node", NEW n \in NodeNames, NEW found \in NodeRow, keepWorld,
         NEW tr \in NodeSets,
         req' = [Project(n, found) EXCEPT !.tried = tr],
         found.on => <<Origin(n), found.cred>> \in req.may.rows,
         n = "v" => req.may.chain, req.k = "gen" => n # "s"
  PROVE  ServeInv'
<1>1. PICK p : p = IF Origin(n) = "s" THEN "share" ELSE "receipt"
  OBVIOUS
<1>2. PICK c : c = [n |-> n, row |-> found]
  OBVIOUS
<1>3. PICK td : td = req.todo \ {n}
  OBVIOUS
<1>4. /\ req \in Requests /\ ListOK(req) /\ AtHandOK(req) /\ ShownOK(req) /\ Covers(req.may, Now)
  BY RequestFacts
<1>5. PICK r : r = req'
  OBVIOUS
<1>6. c \in [n : NodeNames, row : NodeRow] /\ c.n = n /\ c.row = found
  BY <1>2
<1>7. /\ r \in Requests /\ r.k = req.k /\ r.ph = p /\ r.rows = req.rows /\ r.todo = td /\ r.ok = req.ok
      /\ r.cur = c /\ r.may = req.may
  <2>1. p \in Phases /\ td \in NodeSets /\ c \in AtHand
    BY <1>1, <1>3, <1>4, <1>6 DEF Requests, Phases, NodeSets, AtHand
  <2>2. r = [[req EXCEPT !.ph = p, !.cur = c, !.todo = td] EXCEPT !.tried = tr]
    BY <1>1, <1>2, <1>3, <1>5 DEF Project
  <2> QED  BY <1>4, <2>1, <2>2 DEF Requests
<1>8. ListOK(r)
  BY <1>3, <1>4, <1>7 DEF ListOK
<1>9. AtHandOK(r)
  BY <1>1, <1>4, <1>6, <1>7 DEF AtHandOK
<1>10. ShownOK(r)
  BY <1>1, <1>4, <1>7 DEF ShownOK
<1> QED  BY <1>4, <1>5, <1>7, <1>8, <1>9, <1>10, RequestStep

LEMMA NextNodeStep ==
  ASSUME ServeInv, NEW n \in NodeNames, NextNode(n)
  PROVE  ServeInv'
<1>1. PICK found : found = IF n = "v" THEN cat["s"] ELSE req.rows[n]
  OBVIOUS
<1>2. req # Nothing /\ req.ph = "node" /\ n \in req.todo /\ req' = Project(n, found) /\ keepWorld
  BY <1>1 DEF NextNode, ReqAt
<1>3. /\ req \in Requests /\ ListOK(req) /\ Covers(req.may, Now)
      /\ \A m \in Dials : cat[m] \in NodeRow /\ (cat[m].on => <<m, cat[m].cred>> \in Now.rows)
  BY <1>2, RequestFacts
<1>4. n \in DOMAIN req.rows
  BY <1>2, <1>3 DEF ListOK
<1>5. found \in NodeRow /\ (found.on => <<Origin(n), found.cred>> \in req.may.rows)
  <2>1. CASE n = "v"
    BY <1>1, <1>3, <2>1 DEF Origin, Dials, Covers
  <2>2. CASE n # "v"
    <3>1. req.rows[n] \in NodeRow
      <4>1. PICK S \in NodeSets : req.rows \in [S -> NodeRow]
        BY <1>3 DEF Requests, RowLists
      <4> QED  BY <1>4, <4>1
    <3> QED  BY <1>1, <1>3, <1>4, <2>2, <3>1 DEF ListOK, Origin
  <2> QED  BY <2>1, <2>2
<1>6. (n = "v" => req.may.chain) /\ (req.k = "gen" => n # "s")
  BY <1>3, <1>4 DEF ListOK
<1>7. req.tried \in NodeSets /\ req' = [Project(n, found) EXCEPT !.tried = req.tried]
  <2>1. req.tried \in NodeSets
    BY <1>3 DEF Requests
  <2>2. PICK q : q = Project(n, found)
    OBVIOUS
  <2>3. q.tried = req.tried /\ q = [q EXCEPT !.tried = q.tried]
    BY <1>3, <2>2 DEF Project, Requests
  <2> QED  BY <1>2, <2>1, <2>2, <2>3
<1> QED  BY <1>2, <1>5, <1>6, <1>7, Projected

LEMMA AppliedNodeStep ==
  ASSUME ServeInv, AppliedNode
  PROVE  ServeInv'
<1>1. req # Nothing /\ req.ph = "receipt" /\ keepWorld
  BY DEF AppliedNode, ReqAt
<1>2. PICK n, c : n = req.cur.n /\ c = req.cur.row.cred
  OBVIOUS
<1>3. PICK o : o = IF req.cur.row.on /\ acked[Origin(n)] = c THEN req.ok \cup {<<n, acked[Origin(n)]>>} ELSE req.ok
  OBVIOUS
<1>4. req' = [req EXCEPT !.ph = "node", !.ok = o]
  BY <1>2, <1>3 DEF AppliedNode
<1>5. /\ req \in Requests /\ ListOK(req) /\ AtHandOK(req) /\ ShownOK(req) /\ Covers(req.may, Now)
      /\ \A m \in Dials : acked[m] \in Nat /\ <<m, acked[m]>> \in Now.receipts
  BY <1>1, RequestFacts
<1>6. /\ n \in NodeNames /\ Origin(n) \in Dials
      /\ req.cur.row.on => <<Origin(n), c>> \in req.may.rows
      /\ n = "v" => req.may.chain
      /\ req.k = "gen" => n # "s" /\ req.may.quota
      /\ Origin(n) = "s" => req.may.share
  BY <1>1, <1>2, <1>5 DEF AtHandOK, NodeNames, Origin, Dials
<1>7. o \in Answers
  <2>1. req.ok \in Answers
    BY <1>5 DEF Requests
  <2> QED  BY <1>3, <1>5, <1>6, <2>1 DEF Answers
<1>8. PICK r : r = req'
  OBVIOUS
<1>9. /\ r \in Requests /\ r.k = req.k /\ r.ph = "node" /\ r.rows = req.rows /\ r.todo = req.todo /\ r.ok = o
      /\ r.may = req.may
  <2>1. "node" \in Phases
    BY DEF Phases
  <2> QED  BY <1>4, <1>5, <1>7, <1>8, <2>1 DEF Requests
<1>10. ListOK(r)
  BY <1>5, <1>9 DEF ListOK
<1>11. AtHandOK(r)
  BY <1>6, <1>9 DEF AtHandOK
<1>12. ShownOK(r)
  <2>1. ASSUME NEW x \in o
        PROVE  /\ <<Origin(x[1]), x[2]>> \in r.may.rows /\ <<Origin(x[1]), x[2]>> \in r.may.receipts
               /\ x[1] = "v" => r.may.chain
               /\ Origin(x[1]) = "s" => r.may.share
               /\ r.k = "gen" => x[1] # "s" /\ r.may.quota
    <3>1. CASE x \in req.ok
      BY <1>5, <1>9, <3>1 DEF ShownOK
    <3>2. CASE x \notin req.ok
      <4>1. x = <<n, c>> /\ req.cur.row.on /\ acked[Origin(n)] = c
        BY <1>3, <2>1, <3>2
      <4>2. x[1] = n /\ x[2] = c
        BY <4>1
      <4> QED  BY <1>5, <1>6, <1>9, <4>1, <4>2 DEF Covers
    <3> QED  BY <3>1, <3>2
  <2> QED  BY <1>9, <2>1 DEF ShownOK
<1> QED  BY <1>1, <1>5, <1>8, <1>9, <1>10, <1>11, <1>12, RequestStep

LEMMA AppendChainStep ==
  ASSUME ServeInv, NEW n \in NodeNames, AppendChain(n)
  PROVE  ServeInv'
<1>1. /\ req # Nothing /\ req.ph = "node" /\ keepWorld /\ n \in {"d", "v"}
      /\ req' = IF cat[n].on THEN [Project(n, cat[Origin(n)]) EXCEPT !.tried = @ \cup {n}]
                ELSE [req EXCEPT !.tried = @ \cup {n}]
  BY DEF AppendChain, ReqAt
<1>2. /\ req \in Requests /\ ListOK(req) /\ AtHandOK(req) /\ ShownOK(req) /\ Covers(req.may, Now)
      /\ \A m \in Dials : cat[m] \in NodeRow /\ (cat[m].on => <<m, cat[m].cred>> \in Now.rows)
      /\ Now.chain = cat["v"].on
  BY <1>1, RequestFacts
<1>3. PICK tr : tr = req.tried \cup {n}
  OBVIOUS
<1>4. tr \in NodeSets /\ Origin(n) \in Dials
  BY <1>1, <1>2, <1>3 DEF Requests, NodeSets, Origin, Dials
<1>5. CASE cat[n].on
  <2>1. PICK found : found = cat[Origin(n)]
    OBVIOUS
  <2>2. found \in NodeRow /\ (found.on => <<Origin(n), found.cred>> \in req.may.rows)
    BY <1>2, <1>4, <2>1 DEF Covers
  <2>3. (n = "v" => req.may.chain) /\ (req.k = "gen" => n # "s")
    BY <1>1, <1>2, <1>5 DEF Covers
  <2>4. req' = [Project(n, found) EXCEPT !.tried = tr]
    <3>1. req' = [Project(n, found) EXCEPT !.tried = @ \cup {n}]
      BY <1>1, <1>5, <2>1
    <3>2. PICK q : q = Project(n, found)
      OBVIOUS
    <3>3. q.tried = req.tried
      BY <1>2, <3>2 DEF Project, Requests
    <3> QED  BY <1>3, <3>1, <3>2, <3>3
  <2> QED  BY <1>1, <1>4, <2>2, <2>3, <2>4, Projected
<1>6. CASE ~cat[n].on
  <2>1. PICK r : r = req'
    OBVIOUS
  <2>2. r = [req EXCEPT !.tried = tr]
    BY <1>1, <1>3, <1>6, <2>1
  <2>3. /\ r \in Requests /\ r.k = req.k /\ r.ph = "node" /\ r.rows = req.rows /\ r.todo = req.todo
        /\ r.ok = req.ok /\ r.may = req.may
    BY <1>1, <1>2, <1>4, <2>2 DEF Requests
  <2>4. ListOK(r)
    BY <1>2, <2>3 DEF ListOK
  <2>5. AtHandOK(r) /\ ShownOK(r)
    BY <1>1, <1>2, <2>3 DEF AtHandOK, ShownOK
  <2> QED  BY <1>1, <1>2, <2>1, <2>3, <2>4, <2>5, RequestStep
<1> QED  BY <1>5, <1>6

LEMMA RespondStep ==
  ASSUME ServeInv, Respond
  PROVE  ServeInv'
<1>1. req # Nothing /\ req.ph = "node" /\ keepWorld
  BY DEF Respond, ReqAt
<1>2. PICK o : o = IF Has("d") THEN req.ok ELSE {x \in req.ok : x[1] # "v"}
  OBVIOUS
<1>3. req' = [req EXCEPT !.ph = "done", !.ok = o]
  BY <1>2 DEF Respond
<1>4. req \in Requests /\ ListOK(req) /\ AtHandOK(req) /\ ShownOK(req)
  BY <1>1, RequestFacts
<1>5. o \subseteq req.ok /\ \A x \in o : x[1] = "v" => \E y \in o : y[1] = "d"
  BY <1>2 DEF Has
<1>6. PICK r : r = req'
  OBVIOUS
<1>7. /\ r \in Requests /\ r.k = req.k /\ r.ph = "done" /\ r.rows = req.rows /\ r.todo = req.todo /\ r.ok = o
      /\ r.may = req.may
  <2>1. "done" \in Phases /\ o \in Answers
    BY <1>4, <1>5 DEF Requests, Phases, Answers
  <2> QED  BY <1>3, <1>4, <1>6, <2>1 DEF Requests
<1>8. ListOK(r)
  BY <1>4, <1>7 DEF ListOK
<1>9. AtHandOK(r) /\ ShownOK(r)
  BY <1>4, <1>5, <1>7 DEF AtHandOK, ShownOK
<1> QED  BY <1>1, <1>6, <1>7, <1>8, <1>9, RequestStep

-----------------------------------------------------------------------------
LEMMA ServeStarts == ASSUME ServeInit PROVE ServeInv
<1>1. /\ link = [k \in Links |-> [tok |-> IF k = "gen" THEN 1 ELSE 2, on |-> TRUE]]
      /\ fresh = 3 /\ edits = {} /\ lost = {} /\ raced = {}
      /\ cat = [n \in NodeNames |-> [cred |-> 1, on |-> TRUE]]
      /\ acked = [n \in Dials |-> 1]
      /\ share = [status |-> "active", used |-> FALSE] /\ overLimit = FALSE
      /\ shareOp = [todo |-> << >>, row |-> Nothing] /\ req = Nothing
  BY DEF ServeInit, NodeNames
<1>2. link["gen"].tok = 1 /\ link["share"].tok = 2 /\ shareOp.row = Nothing /\ shareOp.todo = << >>
  BY <1>1 DEF Links
<1>3. link \in [Links -> LinkRow]
  BY <1>1 DEF LinkRow
<1>4. cat \in [NodeNames -> NodeRow]
  <2>1. [cred |-> 1, on |-> TRUE] \in NodeRow
    BY DEF NodeRow
  <2> QED  BY <1>1, <2>1
<1>5. shareOp \in [todo : Seq(ShareOpSteps), row : LinkRow \cup {Nothing}]
  <2>1. PICK S, L : S = Seq(ShareOpSteps) /\ L = LinkRow \cup {Nothing}
    OBVIOUS
  <2>2. << >> \in S /\ Nothing \in L
    BY <2>1
  <2>3. shareOp \in [todo : S, row : L]
    BY <1>1, <2>2
  <2> QED  BY <2>1, <2>3
<1>6. ServeTyped
  BY <1>1, <1>3, <1>4, <1>5 DEF ServeTyped
<1>7. Held("gen") = {1} /\ Held("share") = {2}
  BY <1>1, <1>2, HeldMember DEF Links
<1>8. TokenInv
  BY <1>1, <1>2, <1>7 DEF TokenInv, Links
<1>9. ReadFirst
  <2>1. Len(<< >>) = 0
    OBVIOUS
  <2>3. \A i \in 2..0 : FALSE
    OBVIOUS
  <2>2. Ordered(<< >>)
    BY <2>1, <2>3, Zenon DEF Ordered
  <2> QED  BY <1>2, <2>2 DEF ReadFirst
<1> QED  BY <1>1, <1>6, <1>8, <1>9 DEF ServeInv, ReqInv

LEMMA ServeInvSafe == ASSUME ServeInv PROVE ServingSafe
<1>1. AnswerIsAuthorised
  <2>1. req # Nothing => ShownOK(req)
    BY RequestFacts
  <2> QED  BY <2>1 DEF ShownOK, AnswerIsAuthorised
<1>2. RotatedTokenIsDead
  BY DEF ServeInv, TokenInv, RotatedTokenIsDead
<1> QED  BY <1>1, <1>2 DEF ServingSafe

LEMMA ServeStutters == ASSUME ServeInv, UNCHANGED serveVars PROVE ServeInv'
<1>1. UNCHANGED <<link, edits, cat, acked, share, overLimit, expired, shareOp, fresh, lost, raced, req>>
  BY DEF serveVars
<1>2. ServeTyped' /\ ReadFirst'
  BY <1>1 DEF ServeInv, ServeTyped, ReadFirst
<1>3. TokenInv'
  BY <1>1 DEF ServeInv, TokenInv, Held
<1>4. ReqInv'
  BY <1>1 DEF ServeInv, ReqInv, Now
<1> QED  BY <1>2, <1>3, <1>4 DEF ServeInv

LEMMA ServeSteps == ASSUME ServeInv, ServeNext PROVE ServeInv'
  BY LinkEdits, ShareOperation, WorldSteps, ServeStep, RequestSmallSteps, ListNodesStep, NextNodeStep,
     AppliedNodeStep, AppendChainStep, RespondStep DEF ServeNext, NodeNames

(* Only one service moves in a step of the composition. *)
LEMMA ServingMoves == ASSUME SvcNext PROVE ServeNext \/ UNCHANGED serveVars
  BY DEF SvcNext, InSub, InAccess, InTrust, InFleet, InImports, InSup, InMeter, InNat, ServeNext, Dials

(* The inductive invariant of subscription links: tokens and ids in rows, open edits  *)
(* and the share handler are older than the next draw, an un-raced link has one live  *)
(* token, and what a request has gathered was allowed when it was read                *)
(* (api/public.go, subscription/service.go).                                          *)
THEOREM ServingInvariance == SvcSpec => []ServeInv
<1>1. SvcInit => ServeInv
  BY ServeStarts DEF SvcInit
<1>2. ServeInv /\ [SvcNext]_svcVars => ServeInv'
  BY ServingMoves, ServeSteps, ServeStutters DEF svcVars
<1> QED  BY <1>1, <1>2, PTL DEF SvcSpec

(* For all links, shares, nodes and concurrent edits: a rotated token is never served  *)
(* again, and every node of an answer was allowed at some moment of the request.       *)
THEOREM ServingIsSafe == SvcSpec => []ServingSafe
<1>1. ServeInv => ServingSafe
  BY ServeInvSafe
<1> QED  BY <1>1, ServingInvariance, PTL

-----------------------------------------------------------------------------
LEMMA Restated ==
  ASSUME NEW c \in NatChoices, NEW s \in NatStates, NEW new, new = [c EXCEPT !.st = s]
  PROVE  new \in NatChoices /\ new.source = c.source /\ new.cfg = c.cfg /\ new.st = s /\ new # Nil
<1>1. new \in NatChoices /\ new.source = c.source /\ new.cfg = c.cfg /\ new.st = s
  BY DEF NatChoices
<1> QED  BY <1>1, NatAssumption

(* What the authority may choose. *)
LEMMA Selected ==
  ASSUME NatTyped, NothingLocal, NEW controller \in NatCfgs, NEW c, c = Select(controller)
  PROVE  /\ c \in NatChoices /\ c # Nil /\ c.st \in {"pending", "error"}
         /\ ~localUsed => c.source # "local"
<1>1. natfile \in LocalFiles /\ (~localUsed => natfile.kind = "none")
  BY DEF NatTyped, NothingLocal
<1>2. natfile.kind \in {"none", "broken", "file"} /\ natfile.cfg \in NatCfgs
  BY <1>1 DEF LocalFiles, File, NatCfgs
<1>3. PICK so, cf, s : c = [source |-> so, cfg |-> cf, st |-> s] /\ so \in NatSources /\ cf \in NatCfgs
                       /\ s \in {"pending", "error"} /\ (natfile.kind = "none" => so # "local")
  <2>1. Nil \in NatCfgs /\ "local" \in NatSources /\ "controller" \in NatSources /\ "none" \in NatSources
    BY DEF NatCfgs, NatSources
  <2>2. CASE natfile.kind = "broken"
    <3>1. c = [source |-> "local", cfg |-> Nil, st |-> "error"]
      BY <2>2 DEF Select
    <3> QED  BY <2>1, <2>2, <3>1
  <2>3. CASE natfile.kind = "file"
    <3>1. c = [source |-> "local", cfg |-> natfile.cfg, st |-> "pending"]
      BY <2>3 DEF Select
    <3> QED  BY <1>2, <2>1, <2>3, <3>1
  <2>4. CASE natfile.kind = "none" /\ controller # Nil
    <3>1. c = [source |-> "controller", cfg |-> controller, st |-> "pending"]
      BY <2>4 DEF Select
    <3>2. /\ "controller" \in NatSources /\ controller \in NatCfgs /\ "pending" \in {"pending", "error"}
          /\ (natfile.kind = "none" => "controller" # "local")
      BY <2>1
    <3> QED  BY <3>1, <3>2, Zenon
  <2>5. CASE natfile.kind = "none" /\ controller = Nil
    <3>1. c = [source |-> "none", cfg |-> Nil, st |-> "pending"]
      BY <2>5 DEF Select
    <3> QED  BY <2>1, <2>5, <3>1
  <2> QED  BY <1>2, <2>2, <2>3, <2>4, <2>5
<1>4. s \in NatStates
  BY <1>3 DEF NatStates
<1>5. c \in NatChoices /\ c.st = s /\ c.source = so
  BY <1>3, <1>4 DEF NatChoices
<1> QED  BY <1>1, <1>3, <1>5, NatAssumption

(* What a heartbeat would say. *)
LEMMA Diagnosed ==
  ASSUME NatTyped, NothingLocal, NEW d, d = natDiagnostics
  PROVE  /\ d \in NatChoices /\ (~localUsed => d.source # "local")
         /\ d.st = "applied" =>
              /\ nag.ready /\ nag.work = Nil /\ nag.desired # Nil /\ ~nst.err /\ nag.desired.gen = nst.gen
              /\ nag.status # Nil /\ nag.status.st = "applied" /\ d.cfg = nag.status.cfg
<1>1. PICK c : c = Select(nag.ctl)
  OBVIOUS
<1>2. nag.ctl \in NatCfgs /\ nag.status \in StatusOrNil
  BY DEF NatTyped, NatAgents
<1>3. c \in NatChoices /\ c.st \in {"pending", "error"} /\ (~localUsed => c.source # "local")
  BY <1>1, <1>2, Selected
<1>4. PICK behind : behind = (\/ ~nag.ready \/ nag.work # Nil \/ nag.desired = Nil \/ nst.err
                              \/ nag.desired.gen # nst.gen)
  OBVIOUS
<1>5. CASE d = c
  BY <1>3, <1>5
<1>6. CASE nag.status # Nil /\ d \in {[nag.status EXCEPT !.st = "pending"], nag.status}
           /\ (d = nag.status /\ nag.status.st = "applied" => ~behind)
  <2>1. nag.status \in NatChoices /\ (~localUsed => nag.status.source # "local")
    BY <1>2, <1>6 DEF StatusOrNil, NothingLocal
  <2>2. CASE d = [nag.status EXCEPT !.st = "pending"]
    <3>1. "pending" \in NatStates
      BY DEF NatStates
    <3>2. d \in NatChoices /\ d.source = nag.status.source /\ d.st = "pending"
      BY <2>1, <2>2, <3>1, Restated
    <3> QED  BY <2>1, <3>2
  <2>3. CASE d = nag.status
    BY <1>4, <1>6, <2>1, <2>3
  <2> QED  BY <1>6, <2>2, <2>3
<1>7. d = c \/ (/\ nag.status # Nil /\ d \in {[nag.status EXCEPT !.st = "pending"], nag.status}
                /\ (d = nag.status /\ nag.status.st = "applied" => ~behind))
  <2>1. d = IF c.st = "error" THEN c
            ELSE IF natpause \/ nag.status = Nil THEN c
            ELSE IF NatKey(nag.status) # NatKey(c) THEN c
            ELSE IF nag.status.st = "applied" /\ behind THEN [nag.status EXCEPT !.st = "pending"]
            ELSE nag.status
    BY <1>1, <1>4 DEF natDiagnostics
  <2>2. CASE c.st = "error" \/ natpause \/ nag.status = Nil \/ NatKey(nag.status) # NatKey(c)
    BY <2>1, <2>2
  <2>3. CASE ~(c.st = "error" \/ natpause \/ nag.status = Nil \/ NatKey(nag.status) # NatKey(c)) /\ nag.status.st = "applied" /\ behind
    <3>1. d = [nag.status EXCEPT !.st = "pending"] /\ nag.status # Nil
      BY <2>1, <2>3
    <3> QED  BY <2>3, <3>1, Restated, <1>2 DEF StatusOrNil, NatStates
  <2>4. CASE ~(c.st = "error" \/ natpause \/ nag.status = Nil \/ NatKey(nag.status) # NatKey(c)) /\ ~(nag.status.st = "applied" /\ behind)
    BY <2>1, <2>4
  <2> QED  BY <2>2, <2>3, <2>4
<1> QED  BY <1>5, <1>6, <1>7

LEMMA NatInvSafe == ASSUME NatInv PROVE NatSafe
<1>1. NatTyped /\ NothingLocal /\ NodesMapped /\ StatusTrue /\ NothingDiverted
  BY DEF NatInv
<1>2. NatTypeOK
  <2>1. report.st \in {"pending", "applied", "disabled", "error"} /\ natrow.rev \in Nat
    BY <1>1 DEF NatTyped, NatReports, NatStates
  <2> QED  BY <1>1, <2>1 DEF NatTyped, NatTypeOK
<1>3. ReportedIsInstalled
  <2>1. PICK d : d = natDiagnostics
    OBVIOUS
  <2>2. d.st = "applied" =>
              /\ nag.ready /\ nag.work = Nil /\ nag.desired # Nil /\ ~nst.err /\ nag.desired.gen = nst.gen
              /\ nag.status # Nil /\ nag.status.st = "applied" /\ d.cfg = nag.status.cfg
    BY <1>1, <2>1, Diagnosed
  <2>3. d.st = "applied" => table = NATRules(d.cfg, nag.desired.nodes, FALSE)
    BY <1>1, <2>2 DEF StatusTrue
  <2> QED  BY <2>1, <2>3 DEF ReportedIsInstalled
<1> QED  BY <1>1, <1>2, <1>3 DEF NatSafe

-----------------------------------------------------------------------------
(* The controller's steps leave the agent alone. *)
LEMMA AgentKept ==
  ASSUME NatInv, UNCHANGED <<nag, nst, table, listening>>
  PROVE  CoreInv' /\ StatusTrue' /\ NothingDiverted'
<1>1. CoreInv'
  BY DEF NatInv, CoreInv
<1>2. StatusTrue'
  BY DEF NatInv, StatusTrue
<1>3. NothingDiverted'
  BY DEF NatInv, NothingDiverted
<1> QED  BY <1>1, <1>2, <1>3

LEMMA ControllerKept ==
  ASSUME NatInv, keepController, keepRoot
  PROVE  NodesMapped' /\ (NatTyped' <=> natmsg' \in NatReports \cup {Nil} /\ nag' \in NatAgents
                                        /\ nst' \in [gen : Nat, err : BOOLEAN, nat : BOOLEAN])
<1>1. UNCHANGED <<natrow, natview, nodes, natgen, report, recent, natfile, natpause, localUsed>>
  BY DEF keepController, keepRoot
<1>2. NodesMapped'
  BY <1>1 DEF NatInv, NodesMapped, On
<1> QED  BY <1>1, <1>2 DEF NatInv, NatTyped

LEMMA NatControllerSteps ==
  ASSUME NatInv,
         \/ LoadServerNAT \/ ReportAges \/ ReceiveHeartbeat \/ TogglePause
         \/ \E cfg \in NatConfigs \cup {Nil}, here \in BOOLEAN : SaveServerNAT(cfg, here)
         \/ \E p \in NatPorts : PutNode(p) \/ \E to \in {"off", "none"} : DropNode(p, to)
         \/ \E f \in LocalFiles : WriteLocal(f)
  PROVE  NatInv'
<1>1. NatTyped /\ NothingLocal /\ NodesMapped
  BY DEF NatInv
<1>2. UNCHANGED <<nag, nst, table, listening>>
  BY DEF LoadServerNAT, ReportAges, ReceiveHeartbeat, TogglePause, SaveServerNAT, PutNode, DropNode, WriteLocal, keepAgent
<1>3. CoreInv' /\ StatusTrue' /\ NothingDiverted'
  BY <1>2, AgentKept
<1>4. CASE LoadServerNAT \/ ReportAges \/ TogglePause
  <2>1. /\ UNCHANGED <<natrow, nodes, natgen, report, natfile, localUsed, natmsg>>
        /\ natview' = natview \/ natview' = natrow.rev
        /\ natpause' = natpause \/ natpause' = ~natpause
    BY <1>4 DEF LoadServerNAT, ReportAges, TogglePause, keepAgent, keepRoot, keepController
  <2>2. NatTyped' /\ NothingLocal' /\ NodesMapped'
    <3>1. natview' \in Nat /\ natview' <= natrow.rev
      BY <1>1, <2>1 DEF NatTyped
    <3>4. natpause' \in BOOLEAN
      BY <1>1, <2>1, Zenon DEF NatTyped
    <3>2. NatTyped'
      BY <1>1, <1>2, <2>1, <3>1, <3>4 DEF NatTyped
    <3>3. NothingLocal' /\ NodesMapped'
      BY <1>1, <1>2, <2>1 DEF NothingLocal, NodesMapped, On
    <3> QED  BY <3>2, <3>3
  <2> QED  BY <1>3, <2>2 DEF NatInv
<1>5. CASE ReceiveHeartbeat
  <2>1. /\ UNCHANGED <<natrow, natview, nodes, natgen, natfile, natpause, localUsed>>
        /\ natmsg # Nil /\ report' = natmsg /\ natmsg' = Nil
    BY <1>5 DEF ReceiveHeartbeat, keepRoot
  <2>2. NatTyped' /\ NothingLocal' /\ NodesMapped'
    BY <1>1, <1>2, <2>1 DEF NatTyped, NothingLocal, NodesMapped, On
  <2> QED  BY <1>3, <2>2 DEF NatInv
<1>6. CASE \E f \in LocalFiles : WriteLocal(f)
  <2>1. /\ UNCHANGED <<natrow, natview, nodes, natgen, report, natmsg, natpause>> /\ natfile' \in LocalFiles /\ localUsed'
    BY <1>6 DEF WriteLocal, keepController, keepAgent
  <2>2. NatTyped' /\ NothingLocal' /\ NodesMapped'
    BY <1>1, <1>2, <2>1 DEF NatTyped, NothingLocal, NodesMapped
  <2> QED  BY <1>3, <2>2 DEF NatInv
<1>7. ASSUME NEW cfg \in NatConfigs \cup {Nil}, NEW here \in BOOLEAN, SaveServerNAT(cfg, here)
      PROVE  NatInv'
  <2>1. /\ UNCHANGED <<nodes, report, natfile, natpause, localUsed, natmsg>>
        /\ Pairs(cfg) # {} => validateNATResources(cfg)
        /\ natrow' = [rev |-> natrow.rev + 1, cfg |-> cfg] /\ natgen' = natgen + 1
        /\ natview' = IF here THEN natrow.rev + 1 ELSE natview
    BY <1>7 DEF SaveServerNAT, keepAgent, keepRoot
  <2>2. /\ natrow' \in [rev : Nat, cfg : NatCfgs] /\ natgen' \in Nat /\ natrow'.cfg = cfg
        /\ natview' \in Nat /\ natview' <= natrow'.rev
    <3>1. natrow.rev \in Nat /\ natview \in Nat /\ natview <= natrow.rev /\ natgen \in Nat /\ cfg \in NatCfgs
      BY <1>1 DEF NatTyped, NatCfgs
    <3> QED  BY <2>1, <3>1
  <2>3. NatTyped' /\ NothingLocal'
    BY <1>1, <1>2, <2>1, <2>2 DEF NatTyped, NothingLocal
  <2>4. NodesMapped'
    BY <2>1, <2>2 DEF NodesMapped, On, validateNATResources
  <2> QED  BY <1>3, <2>3, <2>4 DEF NatInv
<1>8. ASSUME NEW p \in NatPorts, NEW to \in {"off", "none"}, DropNode(p, to)
      PROVE  NatInv'
  <2>1. /\ UNCHANGED <<natrow, natview, report, natfile, natpause, localUsed, natmsg>>
        /\ nodes' = [nodes EXCEPT ![p] = to] /\ natgen' = natgen + 1
    BY <1>8 DEF DropNode, keepAgent, keepRoot
  <2>2. nodes' \in [NatPorts -> {"none", "off", "on"}] /\ natgen' \in Nat /\ \A q \in NatPorts : nodes'[q] = "on" => nodes[q] = "on"
    BY <1>1, <2>1 DEF NatTyped
  <2>3. NatTyped' /\ NothingLocal' /\ NodesMapped'
    BY <1>1, <1>2, <2>1, <2>2 DEF NatTyped, NothingLocal, NodesMapped, On
  <2> QED  BY <1>3, <2>3 DEF NatInv
<1>9. ASSUME NEW p \in NatPorts, PutNode(p)
      PROVE  NatInv'
  <2>1. /\ UNCHANGED <<natrow, natview, report, natfile, natpause, localUsed, natmsg>>
        /\ nodes' = [nodes EXCEPT ![p] = "on"] /\ natgen' = natgen + 1 /\ validateNATNode(p)
    BY <1>9 DEF PutNode, keepAgent, keepRoot
  <2>2. nodes' \in [NatPorts -> {"none", "off", "on"}] /\ natgen' \in Nat /\ \A q \in NatPorts : nodes'[q] = "on" => nodes[q] = "on" \/ q = p
    BY <1>1, <2>1 DEF NatTyped
  <2>3. ASSUME ~localUsed, Pairs(natrow.cfg) # {}
        PROVE  SupportsPort(natrow.cfg, p)
    <3>1. report.source # "local"
      BY <1>1, <2>3 DEF NothingLocal
    <3>2. natrow.cfg # Nil
      BY <2>3 DEF Pairs
    <3>3. PICK a : a = natPortConfig
      OBVIOUS
    <3>4. a.kind # "wait" /\ (a.kind = "mapped" => SupportsPort(a.cfg, p))
      BY <2>1, <3>3 DEF validateNATNode
    <3>5. a = PortAnswer("wait", Nil) \/ (~NatPending /\ ~Configured(report)) \/ (~NatPending /\ a = PortAnswer("mapped", report.cfg))
      BY <3>2, <3>3 DEF natPortConfig
    <3>6. ~NatPending /\ a # PortAnswer("wait", Nil)
      BY <3>4, <3>5 DEF PortAnswer
    <3>7. natrow.cfg = report.cfg
      BY <3>1, <3>6 DEF NatPending
    <3>8. Configured(report)
      BY <2>3, <3>7 DEF Configured
    <3>9. a.kind = "mapped" /\ a.cfg = report.cfg
      BY <3>5, <3>6, <3>8 DEF PortAnswer
    <3> QED  BY <3>4, <3>7, <3>9
  <2>4. NatTyped' /\ NothingLocal'
    BY <1>1, <1>2, <2>1, <2>2 DEF NatTyped, NothingLocal
  <2>5. NodesMapped'
    BY <1>1, <2>1, <2>2, <2>3 DEF NodesMapped, On
  <2> QED  BY <1>3, <2>4, <2>5 DEF NatInv
<1> QED  BY <1>4, <1>5, <1>6, <1>7, <1>8, <1>9

-----------------------------------------------------------------------------
(* The agent's steps. *)
LEMMA ChoiceDone ==
  ASSUME NEW ag \in NatAgents, NEW c \in NatChoices, NEW new, new = NatDone(ag, c)
  PROVE  /\ new \in NatAgents /\ new.ready /\ new.status \in NatChoices /\ new.status # Nil
         /\ new.status.source = c.source /\ new.status.cfg = c.cfg
         /\ new.desired = ag.desired /\ new.work = ag.work /\ new.cores = ag.cores
<1>1. PICK s : s = IF Configured(c) THEN "applied" ELSE "disabled"
  BY Zenon
<1>2. PICK stat : stat = [c EXCEPT !.st = s]
  OBVIOUS
<1>3. s \in NatStates
  BY <1>1 DEF NatStates
<1>4. stat \in NatChoices /\ stat.source = c.source /\ stat.cfg = c.cfg /\ stat # Nil
  BY <1>2, <1>3, Restated
<1>5. PICK key : key = NatKey(c)
  OBVIOUS
<1>6. key \in KeyOrNil /\ stat \in StatusOrNil
  <2>1. c.source \in NatSources /\ c.cfg \in NatCfgs
    BY DEF NatChoices
  <2> QED  BY <1>4, <1>5, <2>1 DEF KeyOrNil, StatusOrNil, NatKey
<1>7. new = [ag EXCEPT !.ready = TRUE, !.key = key, !.status = stat]
  BY <1>1, <1>2, <1>5 DEF NatDone
<1>8. /\ new \in NatAgents /\ new.ready = TRUE /\ new.status = stat
      /\ new.desired = ag.desired /\ new.work = ag.work /\ new.cores = ag.cores
  BY <1>6, <1>7 DEF NatAgents
<1> QED  BY <1>4, <1>8

LEMMA ChoiceFailed ==
  ASSUME NEW ag \in NatAgents, NEW c \in NatChoices, NEW new, new = NatFailed(ag, c)
  PROVE  /\ new \in NatAgents /\ ~new.ready /\ new.status \in NatChoices
         /\ new.status.source = c.source
         /\ new.desired = ag.desired /\ new.work = ag.work /\ new.cores = ag.cores
<1>1. PICK stat : stat = [c EXCEPT !.st = "error"]
  OBVIOUS
<1>2. "error" \in NatStates
  BY DEF NatStates
<1>3. stat \in NatChoices /\ stat.source = c.source
  BY <1>1, <1>2, Restated
<1>4. new = [ag EXCEPT !.ready = FALSE, !.status = stat] /\ stat \in StatusOrNil
  BY <1>1, <1>3 DEF NatFailed, StatusOrNil
<1> QED  BY <1>3, <1>4 DEF NatAgents

(* Rules only for ports that no node of the same document has as its local one. *)
LEMMA RulesSpare ==
  ASSUME NEW cfg, NEW ports, NEW blocked, ~Conflicting(cfg, ports)
  PROVE  {m.loc : m \in NATRules(cfg, ports, blocked)} \cap ports = {}
  BY DEF NATRules, Conflicting, LocalPorts

LEMMA NatSmallSteps ==
  ASSUME NatInv, BeatOnly \/ SendHeartbeat
  PROVE  NatInv'
<1>1. NatTyped /\ NothingLocal /\ NodesMapped /\ CoreInv /\ StatusTrue /\ NothingDiverted
  BY DEF NatInv
<1>2. PICK b \in BOOLEAN : nag' = [nag EXCEPT !.beat = b]
  BY DEF BeatOnly, SendHeartbeat
<1>3. UNCHANGED <<nst, table, listening>> /\ keepController /\ keepRoot
  BY DEF BeatOnly, SendHeartbeat
<1>4. /\ nag' \in NatAgents /\ nag'.desired = nag.desired /\ nag'.ready = nag.ready /\ nag'.status = nag.status
      /\ nag'.work = nag.work /\ nag'.cores = nag.cores
  BY <1>1, <1>2 DEF NatTyped, NatAgents
<1>5. natmsg' \in NatReports \cup {Nil} /\ (~localUsed /\ natmsg' # Nil => natmsg'.source # "local")
  <2>1. CASE BeatOnly
    BY <1>1, <2>1 DEF BeatOnly, NatTyped, NothingLocal
  <2>2. CASE SendHeartbeat
    <3>1. PICK d : d = natDiagnostics
      OBVIOUS
    <3>2. d \in NatChoices /\ (~localUsed => d.source # "local")
      BY <1>1, <3>1, Diagnosed
    <3>3. natmsg' = [source |-> d.source, cfg |-> d.cfg, st |-> d.st, paused |-> natpause]
      BY <2>2, <3>1 DEF SendHeartbeat
    <3>4. natmsg' \in NatReports /\ natmsg'.source = d.source
      BY <1>1, <3>2, <3>3 DEF NatChoices, NatReports, NatTyped
    <3> QED  BY <3>2, <3>4
  <2> QED  BY <2>1, <2>2
<1>6. NatTyped' /\ NodesMapped'
  BY <1>1, <1>3, <1>4, <1>5, ControllerKept DEF NatTyped, NatInv
<1>7. NothingLocal'
  BY <1>1, <1>3, <1>4, <1>5 DEF NothingLocal, keepController, keepRoot
<1>8. CoreInv' /\ NothingDiverted'
  BY <1>1, <1>3, <1>4 DEF CoreInv, NothingDiverted
<1>9. StatusTrue'
  BY <1>1, <1>3, <1>4 DEF StatusTrue
<1> QED  BY <1>6, <1>7, <1>8, <1>9 DEF NatInv

LEMMA NatBeginApply ==
  ASSUME NatInv, BeginApply
  PROVE  NatInv'
<1>1. NatTyped /\ NothingLocal /\ NodesMapped /\ CoreInv /\ StatusTrue /\ NothingDiverted
  BY DEF NatInv
<1>2. PICK ds : ds = [gen |-> natgen, nat |-> natrow.cfg, nodes |-> On]
  OBVIOUS
<1>3. ds \in NatDocs /\ ds # Nil /\ ds.nat = natrow.cfg /\ natrow.cfg \in NatCfgs
  <2>1. natgen \in Nat /\ natrow.cfg \in NatCfgs /\ On \in SUBSET NatPorts
    BY <1>1 DEF NatTyped, On
  <2>2. ds \in NatDocs /\ ds.nat = natrow.cfg
    BY <1>2, <2>1 DEF NatDocs
  <2> QED  BY <2>1, <2>2, NatAssumption
<1>4. PICK w : w = IF nag.desired # Nil /\ nst = [nst EXCEPT !.gen = ds.gen, !.err = FALSE] THEN Nil ELSE ds
  OBVIOUS
<1>5. w \in DocOrNil /\ (w = Nil \/ w = ds)
  BY <1>3, <1>4 DEF DocOrNil
<1>6. PICK b \in BOOLEAN : nst' = [nst EXCEPT !.nat = b]
  <2>1. nst.nat \in BOOLEAN
    BY <1>1 DEF NatTyped
  <2>2. nst' = [nst EXCEPT !.nat = (nst.nat \/ ds.nat # Nil)]
    BY <1>2 DEF BeginApply
  <2>3. (nst.nat \/ ds.nat # Nil) \in BOOLEAN
    BY <2>1, Zenon
  <2> QED  BY <2>2, <2>3
<1>7. /\ nag.work = Nil /\ nag' = [nag EXCEPT !.ctl = ds.nat, !.work = w]
      /\ UNCHANGED <<table, listening, natmsg>> /\ keepController /\ keepRoot
  BY <1>2, <1>4 DEF BeginApply
<1>8. /\ nag' \in NatAgents /\ nag'.desired = nag.desired /\ nag'.ready = nag.ready /\ nag'.status = nag.status
      /\ nag'.work = w /\ nag'.cores = nag.cores
  BY <1>1, <1>3, <1>5, <1>7 DEF NatTyped, NatAgents
<1>9. nst' \in [gen : Nat, err : BOOLEAN, nat : BOOLEAN] /\ nst'.err = nst.err /\ nst'.gen = nst.gen
  BY <1>1, <1>6 DEF NatTyped
<1>10. NatTyped' /\ NodesMapped'
  BY <1>1, <1>7, <1>8, <1>9, ControllerKept DEF NatTyped
<1>11. NothingLocal'
  BY <1>1, <1>7, <1>8 DEF NothingLocal, keepController, keepRoot
<1>12. CoreInv' /\ NothingDiverted'
  BY <1>1, <1>3, <1>5, <1>7, <1>8, <1>9 DEF CoreInv, NothingDiverted
<1>13. StatusTrue'
  BY <1>1, <1>3, <1>5, <1>7, <1>8, <1>9 DEF StatusTrue
<1> QED  BY <1>10, <1>11, <1>12, <1>13 DEF NatInv

LEMMA NatApplyCores ==
  ASSUME NatInv, NEW ok \in BOOLEAN, ApplyCores(ok)
  PROVE  NatInv'
<1>1. NatTyped /\ NothingLocal /\ NodesMapped /\ CoreInv /\ StatusTrue /\ NothingDiverted
  BY DEF NatInv
<1>2. PICK co : co = IF ok THEN "up" ELSE "failed"
  OBVIOUS
<1>3. /\ nag.work # Nil /\ nag' = [nag EXCEPT !.cores = co] /\ (co = "up" => listening' = nag.work.nodes)
      /\ UNCHANGED <<nst, table, natmsg>> /\ keepController /\ keepRoot /\ co \in CoreStates
  BY <1>2 DEF ApplyCores, CoreStates
<1>4. /\ nag' \in NatAgents /\ nag'.desired = nag.desired /\ nag'.ready = nag.ready /\ nag'.status = nag.status
      /\ nag'.work = nag.work /\ nag'.cores = co
  BY <1>1, <1>3 DEF NatTyped, NatAgents
<1>5. NatTyped' /\ NodesMapped'
  BY <1>1, <1>3, <1>4, ControllerKept DEF NatTyped
<1>6. NothingLocal'
  BY <1>1, <1>3, <1>4 DEF NothingLocal, keepController, keepRoot
<1>7. CoreInv' /\ NothingDiverted' /\ StatusTrue'
  BY <1>1, <1>3, <1>4 DEF CoreInv, NothingDiverted, StatusTrue
<1> QED  BY <1>5, <1>6, <1>7 DEF NatInv

LEMMA NatRestarts ==
  ASSUME NatInv, NEW reboot \in BOOLEAN, AgentRestarts(reboot)
  PROVE  NatInv'
<1>1. NatTyped /\ NothingLocal /\ NodesMapped
  BY DEF NatInv
<1>2. /\ nag' = NewNatAgent /\ natmsg' = Nil /\ UNCHANGED <<nst, listening>> /\ keepController /\ keepRoot
  BY DEF AgentRestarts
<1>3. NewNatAgent \in NatAgents
  BY DEF NewNatAgent, NatAgents, DocOrNil, KeyOrNil, StatusOrNil, CoreStates, NatCfgs
<1>4. nag'.desired = Nil /\ ~nag'.ready /\ nag'.status = Nil /\ nag'.work = Nil /\ nag'.cores = "-"
  BY <1>2 DEF NewNatAgent
<1>5. NatTyped' /\ NodesMapped'
  BY <1>1, <1>2, <1>3, ControllerKept DEF NatTyped
<1>6. NothingLocal'
  BY <1>1, <1>2, <1>4 DEF NothingLocal, keepController, keepRoot
<1>7. CoreInv' /\ NothingDiverted' /\ StatusTrue'
  BY <1>4 DEF CoreInv, NothingDiverted, StatusTrue
<1> QED  BY <1>5, <1>6, <1>7 DEF NatInv

(* What a pass or a heartbeat leaves behind. *)
LEMMA NatSettled ==
  ASSUME NatInv, keepController, keepRoot, UNCHANGED <<natmsg, listening>>, nag' \in NatAgents,
         nst' \in [gen : Nat, err : BOOLEAN, nat : BOOLEAN],
         nag'.work = Nil, nag'.cores # "up",
         nag'.status # Nil /\ ~localUsed => nag'.status.source # "local",
         \/ nst'.err
         \/ nag'.desired = Nil /\ ~nag'.ready
         \/ /\ nag'.desired # Nil /\ listening = nag'.desired.nodes /\ nag'.ready /\ nag'.status # Nil
            /\ ~Conflicting(nag'.status.cfg, nag'.desired.nodes)
            /\ table' = NATRules(nag'.status.cfg, nag'.desired.nodes, FALSE)
  PROVE  NatInv'
<1>1. NatTyped' /\ NodesMapped'
  BY ControllerKept DEF NatTyped, NatInv
<1>2. NothingLocal'
  BY DEF NothingLocal, keepController, keepRoot, NatInv
<1>3. CoreInv' /\ StatusTrue'
  BY DEF CoreInv, StatusTrue
<1>4. NothingDiverted'
  <2> SUFFICES ASSUME nag'.ready, ~nst'.err PROVE {m.loc : m \in table'} \cap listening = {}
    BY DEF NothingDiverted
  <2>1. PICK cfg, ports : cfg = nag'.status.cfg /\ ports = nag'.desired.nodes
    OBVIOUS
  <2>2. listening = ports /\ ~Conflicting(cfg, ports) /\ table' = NATRules(cfg, ports, FALSE)
    BY <2>1
  <2>3. {m.loc : m \in NATRules(cfg, ports, FALSE)} \cap ports = {}
    BY <2>2, RulesSpare
  <2> QED  BY <2>2, <2>3
<1> QED  BY <1>1, <1>2, <1>3, <1>4 DEF NatInv

LEMMA NatRefresh ==
  ASSUME NatInv, RefreshLocalNAT
  PROVE  NatInv'
<1>1. NatTyped /\ NothingLocal /\ CoreInv /\ nag \in NatAgents
  BY DEF NatInv, NatTyped
<1>2. PICK c : c = Select(nag.ctl)
  OBVIOUS
<1>3. /\ nag.work = Nil /\ keepController /\ keepRoot /\ UNCHANGED <<listening, natmsg>>
      /\ IF nag.desired = Nil \/ nst.err THEN RefreshWithout(c) ELSE RefreshWith(c)
  BY <1>2 DEF RefreshLocalNAT
<1>4. c \in NatChoices /\ (~localUsed => c.source # "local") /\ nag.cores # "up"
  <2>1. nag.ctl \in NatCfgs
    BY <1>1 DEF NatAgents
  <2> QED  BY <1>1, <1>2, <1>3, <2>1, Selected DEF CoreInv
<1>5. nst.err \in BOOLEAN /\ nst.nat \in BOOLEAN /\ nst \in [gen : Nat, err : BOOLEAN, nat : BOOLEAN]
  BY <1>1 DEF NatTyped
<1>6. CASE nag.desired = Nil \/ nst.err
  <2>1. RefreshWithout(c)
    BY <1>3, <1>6
  <2>2. CASE nag.ready /\ c.st # "error" /\ Configured(c) /\ nag.key = NatKey(c)
    <3>1. nag' = [nag EXCEPT !.beat = TRUE, !.status = [c EXCEPT !.st = "pending"]] /\ UNCHANGED <<nst, table>>
      BY <2>1, <2>2 DEF RefreshWithout
    <3>2. PICK stat : stat = [c EXCEPT !.st = "pending"]
      OBVIOUS
    <3>3. stat \in NatChoices /\ stat.source = c.source /\ stat \in StatusOrNil
      BY <1>4, <3>2, Restated DEF NatStates, StatusOrNil
    <3>4. nag' \in NatAgents /\ nag'.desired = nag.desired /\ nag'.ready = nag.ready /\ nag'.status = stat
          /\ nag'.work = nag.work /\ nag'.cores = nag.cores
      BY <1>1, <3>1, <3>2, <3>3 DEF NatAgents
    <3>5. nst.err
      BY <1>1, <1>6, <2>2 DEF CoreInv
    <3> QED  BY <1>3, <1>4, <1>5, <3>1, <3>3, <3>4, <3>5, NatSettled
  <2>3. CASE ~(nag.ready /\ c.st # "error" /\ Configured(c) /\ nag.key = NatKey(c))
    <3>1. PICK s : s = IF c.st = "error" THEN c.st ELSE IF Configured(c) THEN "pending" ELSE "disabled"
      BY Zenon
    <3>2. PICK stat : stat = [c EXCEPT !.st = s]
      OBVIOUS
    <3>3. nag' = [nag EXCEPT !.beat = TRUE, !.ready = FALSE, !.status = stat]
      BY <2>1, <2>3, <3>1, <3>2 DEF RefreshWithout
    <3>4. s \in NatStates
      BY <3>1 DEF NatStates
    <3>5. stat \in NatChoices /\ stat.source = c.source /\ stat \in StatusOrNil
      BY <1>4, <3>2, <3>4, Restated DEF StatusOrNil
    <3>6. nag' \in NatAgents /\ nag'.desired = nag.desired /\ nag'.ready = FALSE /\ nag'.status = stat
          /\ nag'.work = nag.work /\ nag'.cores = nag.cores
      BY <1>1, <3>3, <3>5 DEF NatAgents
    <3>7. PICK e \in BOOLEAN : nst' = [nst EXCEPT !.err = e] /\ (nst.err => e)
      <4>1. PICK e : e = (nst.err \/ (nst.nat /\ nst.gen > 0) \/ c.st = "error")
        OBVIOUS
      <4>2. e \in BOOLEAN /\ (nst.err => e)
        BY <1>5, <4>1, Zenon
      <4>3. nst' = [nst EXCEPT !.err = e]
        BY <2>1, <2>3, <4>1 DEF RefreshWithout
      <4> QED  BY <4>2, <4>3
    <3>8. nst' \in [gen : Nat, err : BOOLEAN, nat : BOOLEAN] /\ nst'.err = e
      BY <1>5, <3>7
    <3> QED  BY <1>3, <1>4, <1>6, <3>5, <3>6, <3>7, <3>8, NatSettled
  <2> QED  BY <2>2, <2>3
<1>7. CASE nag.desired # Nil /\ ~nst.err
  <2>1. RefreshWith(c)
    BY <1>3, <1>7
  <2>2. listening = nag.desired.nodes
    BY <1>1, <1>3, <1>7 DEF CoreInv
  <2>3. CASE c.st = "error" \/ Conflicting(c.cfg, nag.desired.nodes)
    <3>1. PICK q : q = NatFailed(nag, c)
      OBVIOUS
    <3>2. nag' = [q EXCEPT !.beat = TRUE] /\ nst' = [nst EXCEPT !.err = TRUE]
      BY <2>1, <2>3, <3>1 DEF RefreshWith
    <3>3. q \in NatAgents /\ q.status.source = c.source /\ q.work = nag.work /\ q.cores = nag.cores
      BY <1>1, <1>4, <3>1, ChoiceFailed
    <3>4. nag' \in NatAgents /\ nag'.status = q.status /\ nag'.work = q.work /\ nag'.cores = q.cores
      BY <3>2, <3>3 DEF NatAgents
    <3>5. nst' \in [gen : Nat, err : BOOLEAN, nat : BOOLEAN] /\ nst'.err = TRUE
      BY <1>5, <3>2
    <3> QED  BY <1>3, <1>4, <3>3, <3>4, <3>5, NatSettled
  <2>4. CASE ~(c.st = "error" \/ Conflicting(c.cfg, nag.desired.nodes))
    <3>1. PICK q : q = NatDone(nag, c)
      OBVIOUS
    <3>2. nag' = [q EXCEPT !.beat = TRUE] /\ table' = NATRules(c.cfg, nag.desired.nodes, FALSE)
      BY <2>1, <2>4, <3>1 DEF RefreshWith
    <3>3. /\ q \in NatAgents /\ q.status.source = c.source /\ q.work = nag.work /\ q.cores = nag.cores
          /\ q.ready /\ q.status # Nil /\ q.status.cfg = c.cfg /\ q.desired = nag.desired
      BY <1>1, <1>4, <3>1, ChoiceDone
    <3>4. /\ nag' \in NatAgents /\ nag'.status = q.status /\ nag'.work = q.work /\ nag'.cores = q.cores
          /\ nag'.desired = q.desired /\ nag'.ready = q.ready
      BY <3>2, <3>3 DEF NatAgents
    <3>5. nst' \in [gen : Nat, err : BOOLEAN, nat : BOOLEAN]
      <4>1. PICK b : b = (nst.nat \/ Configured(c))
        BY Zenon
      <4>2. b \in BOOLEAN
        BY <1>5, <4>1, Zenon DEF Configured
      <4>3. nst' = [nst EXCEPT !.nat = b]
        BY <2>1, <2>4, <4>1 DEF RefreshWith
      <4> QED  BY <1>5, <4>2, <4>3
    <3>6. /\ nag'.work = Nil /\ nag'.cores # "up" /\ nag'.desired # Nil /\ listening = nag'.desired.nodes
          /\ nag'.ready /\ nag'.status # Nil /\ nag'.status.cfg = c.cfg /\ nag'.status.source = c.source
          /\ nag'.desired = nag.desired
      BY <1>3, <1>4, <1>7, <2>2, <3>3, <3>4
    <3> QED  BY <1>3, <1>4, <2>4, <3>2, <3>4, <3>5, <3>6, NatSettled
  <2> QED  BY <2>3, <2>4
<1> QED  BY <1>5, <1>6, <1>7

LEMMA NatFinishApply ==
  ASSUME NatInv, FinishApply
  PROVE  NatInv'
<1>1. NatTyped /\ NothingLocal /\ CoreInv /\ nag \in NatAgents
  BY DEF NatInv, NatTyped
<1>2. PICK c, ports : c = Select(nag.work.nat) /\ ports = nag.work.nodes
  OBVIOUS
<1>3. PICK bad : bad = (natpause \/ c.st = "error" \/ Conflicting(c.cfg, ports))
  OBVIOUS
<1>4. PICK memory : memory = IF natpause THEN [nag EXCEPT !.ready = FALSE]
                             ELSE IF bad THEN NatFailed(nag, c) ELSE NatDone(nag, c)
  BY Zenon
<1>5. PICK blocked : blocked = (nag.cores = "failed")
  OBVIOUS
<1>6. /\ nag.work # Nil /\ nag.cores # "-" /\ keepController /\ keepRoot /\ UNCHANGED <<listening, natmsg>>
      /\ table' = IF bad THEN {} ELSE NATRules(c.cfg, ports, blocked)
      /\ nag' = [memory EXCEPT !.work = Nil, !.cores = "-", !.desired = IF bad \/ blocked THEN @ ELSE nag.work]
      /\ nst' = [nst EXCEPT !.err = bad \/ blocked, !.gen = IF bad \/ blocked THEN @ ELSE nag.work.gen,
                  !.nat = @ \/ (~ bad /\ Configured(c))]
  BY <1>2, <1>3, <1>4, <1>5 DEF FinishApply
<1>7. nag.work \in NatDocs /\ nag.work.nat \in NatCfgs /\ nag.work.gen \in Nat /\ nag.work \in DocOrNil
  <2>1. nag.work \in NatDocs /\ nag.work \in DocOrNil
    BY <1>1, <1>6 DEF NatAgents, DocOrNil
  <2> QED  BY <2>1 DEF NatDocs
<1>8. c \in NatChoices /\ (~localUsed => c.source # "local")
  BY <1>1, <1>2, <1>7, Selected
<1>9. /\ memory \in NatAgents /\ (memory.status # Nil /\ ~localUsed => memory.status.source # "local")
      /\ memory.desired = nag.desired
      /\ ~bad => memory.ready /\ memory.status # Nil /\ memory.status.cfg = c.cfg
  <2>1. CASE natpause
    <3>1. memory = [nag EXCEPT !.ready = FALSE] /\ bad
      BY <1>3, <1>4, <2>1
    <3>2. memory \in NatAgents /\ memory.status = nag.status /\ memory.desired = nag.desired
      BY <1>1, <3>1 DEF NatAgents
    <3> QED  BY <1>1, <3>1, <3>2 DEF NothingLocal
  <2>2. CASE ~natpause /\ bad
    <3>1. memory = NatFailed(nag, c)
      BY <1>4, <2>2
    <3> QED  BY <1>1, <1>8, <2>2, <3>1, ChoiceFailed
  <2>3. CASE ~natpause /\ ~bad
    <3>1. memory = NatDone(nag, c)
      BY <1>4, <2>3
    <3>2. /\ memory \in NatAgents /\ memory.ready /\ memory.status # Nil
          /\ memory.status.source = c.source /\ memory.status.cfg = c.cfg /\ memory.desired = nag.desired
      BY <1>1, <1>8, <3>1, ChoiceDone
    <3> QED  BY <1>8, <3>2
  <2> QED  BY <2>1, <2>2, <2>3
<1>10. PICK d : d = IF bad \/ blocked THEN memory.desired ELSE nag.work
  OBVIOUS
<1>11. d \in DocOrNil
  BY <1>7, <1>9, <1>10 DEF NatAgents
<1>12. /\ nag' \in NatAgents /\ nag'.work = Nil /\ nag'.cores = "-" /\ nag'.desired = d
       /\ nag'.status = memory.status /\ nag'.ready = memory.ready
  <2>1. nag' = [memory EXCEPT !.work = Nil, !.cores = "-", !.desired = d]
    BY <1>6, <1>10
  <2>2. Nil \in DocOrNil /\ "-" \in CoreStates
    BY DEF DocOrNil, CoreStates
  <2> QED  BY <1>9, <1>11, <2>1, <2>2 DEF NatAgents
<1>13. nst' \in [gen : Nat, err : BOOLEAN, nat : BOOLEAN] /\ nst'.err = (bad \/ blocked)
  <2>1. nst \in [gen : Nat, err : BOOLEAN, nat : BOOLEAN] /\ nst.nat \in BOOLEAN
    BY <1>1 DEF NatTyped
  <2>2. PICK e, b : e = (bad \/ blocked) /\ b = (nst.nat \/ (~bad /\ Configured(c)))
    BY Zenon
  <2>3. e \in BOOLEAN /\ b \in BOOLEAN
    BY <1>3, <1>5, <2>1, <2>2, Zenon
  <2>4. PICK g : g = IF bad \/ blocked THEN nst.gen ELSE nag.work.gen
    OBVIOUS
  <2>5. g \in Nat
    BY <1>7, <2>1, <2>4
  <2>6. nst' = [nst EXCEPT !.err = e, !.gen = g, !.nat = b]
    BY <1>6, <2>2, <2>4
  <2>7. nst' \in [gen : Nat, err : BOOLEAN, nat : BOOLEAN] /\ nst'.err = e
    BY <2>1, <2>3, <2>5, <2>6
  <2> QED  BY <2>2, <2>7
<1>14. CASE bad \/ blocked
  <2>1. nst'.err
    BY <1>13, <1>14
  <2> QED  BY <1>6, <1>9, <1>12, <1>13, <2>1, NatSettled
<1>15. CASE ~bad /\ ~blocked
  <2>1. nag.cores = "up"
    BY <1>1, <1>5, <1>6, <1>15 DEF NatAgents, CoreStates
  <2>2. listening = ports /\ d = nag.work /\ d # Nil /\ ~Conflicting(c.cfg, ports)
    BY <1>1, <1>2, <1>3, <1>6, <1>10, <1>15, <2>1 DEF CoreInv
  <2>3. blocked = FALSE
    BY <1>5, <1>15
  <2>4. table' = NATRules(c.cfg, ports, FALSE)
    BY <1>6, <1>15, <2>3
  <2>5. /\ nag'.desired # Nil /\ listening = nag'.desired.nodes /\ nag'.ready /\ nag'.status # Nil
        /\ nag'.status.cfg = c.cfg /\ nag'.desired.nodes = ports
    BY <1>2, <1>9, <1>12, <1>15, <2>2
  <2> QED  BY <1>6, <1>9, <1>12, <1>13, <2>2, <2>4, <2>5, NatSettled
<1> QED  BY <1>14, <1>15

-----------------------------------------------------------------------------
LEMMA NatStarts == ASSUME NatInit PROVE NatInv
<1>1. /\ natrow = [rev |-> 0, cfg |-> Nil] /\ natview = 0 /\ natgen = 1
      /\ report = NoReport /\ natfile = File("none", Nil) /\ natpause = FALSE /\ localUsed = FALSE
      /\ nag = NewNatAgent /\ nst = [gen |-> 0, err |-> FALSE, nat |-> FALSE]
      /\ table = {} /\ listening = {} /\ natmsg = Nil
  BY DEF NatInit
<1>2. nodes \in [NatPorts -> {"none", "off", "on"}]
  BY DEF NatInit
<1>3. NewNatAgent \in NatAgents
  BY DEF NewNatAgent, NatAgents, DocOrNil, KeyOrNil, StatusOrNil, CoreStates, NatCfgs
<1>4. report \in NatReports /\ report.source = "none"
  BY <1>1 DEF NoReport, NatReports, NatSources, NatStates, NatCfgs
<1>5. natfile \in LocalFiles /\ natfile.kind = "none"
  BY <1>1 DEF LocalFiles, File
<1>6. nag.desired = Nil /\ ~nag.ready /\ nag.status = Nil /\ nag.work = Nil /\ nag.cores = "-"
  BY <1>1 DEF NewNatAgent
<1>7. natrow \in [rev : Nat, cfg : NatCfgs] /\ natrow.cfg = Nil /\ natview \in Nat /\ natview <= natrow.rev
  BY <1>1 DEF NatCfgs
<1>8. NatTyped
  BY <1>1, <1>2, <1>3, <1>4, <1>5, <1>7 DEF NatTyped
<1>9. NothingLocal /\ NodesMapped
  BY <1>1, <1>4, <1>5, <1>6, <1>7 DEF NothingLocal, NodesMapped, Pairs
<1>10. CoreInv /\ StatusTrue /\ NothingDiverted
  BY <1>6 DEF CoreInv, StatusTrue, NothingDiverted
<1> QED  BY <1>8, <1>9, <1>10 DEF NatInv

LEMMA NatStutters == ASSUME NatInv, UNCHANGED natVars PROVE NatInv'
<1>1. UNCHANGED <<nag, nst, table, listening, natrow, natview, nodes, natgen, report, natfile, natpause, natmsg, localUsed>>
  BY DEF natVars
<1>2. NatTyped' /\ NothingLocal' /\ NodesMapped'
  BY <1>1 DEF NatInv, NatTyped, NothingLocal, NodesMapped, On
<1> QED  BY <1>1, <1>2, AgentKept DEF NatInv

LEMMA NatSteps == ASSUME NatInv, NatNext PROVE NatInv'
  BY NatControllerSteps, NatSmallSteps, NatBeginApply, NatApplyCores, NatRestarts, NatRefresh, NatFinishApply
     DEF NatNext

LEMMA NatMoves == ASSUME SvcNext PROVE NatNext \/ UNCHANGED natVars
  BY DEF SvcNext, InSub, InAccess, InTrust, InFleet, InImports, InSup, InMeter, InServing, NatNext

(* The inductive invariant of port mappings: the table, the host's file and the cores  *)
(* are what the agent's document and its last report say of them (natconfig, nft/nat). *)
THEOREM NatInvariance == SvcSpec => []NatInv
<1>1. SvcInit => NatInv
  BY NatStarts DEF SvcInit
<1>2. NatInv /\ [SvcNext]_svcVars => NatInv'
  BY NatMoves, NatSteps, NatStutters DEF svcVars
<1> QED  BY <1>1, <1>2, PTL DEF SvcSpec

(* For all ports, mappings, restarts and failed applies: nodes run only on mapped ports *)
(* while root keeps no file of its own, a report "applied" is true of the kernel, and    *)
(* between two passes no mapping takes the port of a node (SaveServerNAT, NATRules).     *)
THEOREM NatIsSafe == SvcSpec => []NatSafe
<1>1. NatInv => NatSafe
  BY NatInvSafe
<1> QED  BY <1>1, NatInvariance, PTL

-----------------------------------------------------------------------------
(* New identifiers: there are as many as there are new names. *)
LEMMA Numbered ==
  ASSUME NEW S, IsFiniteSet(S), nextId \in Nat, NEW k, k = Cardinality(S), NEW f, f = Number(S)
  PROVE  /\ k \in Nat /\ f \in [S -> nextId..(nextId + k - 1)]
         /\ \A a, b \in S : f[a] = f[b] => a = b
<1>1. k \in Nat /\ ExistsBijection(1..k, S)
  BY FS_CardinalityType
<1>2. PICK g \in [1..k -> S] : \A x \in S : \E i \in 1..k : g[i] = x
  BY <1>1 DEF ExistsBijection, Bijection, Surjection
<1>3. PICK h : h = [x \in S |-> CHOOSE i \in 1..k : g[i] = x]
  OBVIOUS
<1>4. \A x \in S : h[x] \in 1..k /\ g[h[x]] = x
  BY <1>2, <1>3
<1>5. PICK e : e = [x \in S |-> nextId + h[x] - 1]
  OBVIOUS
<1>6. \A x \in S : e[x] = nextId + h[x] - 1 /\ e[x] \in nextId..(nextId + k - 1)
  BY <1>1, <1>4, <1>5
<1>7. e \in [S -> nextId..(nextId + k - 1)] /\ \A a, b \in S : e[a] = e[b] => a = b
  <2>1. ASSUME NEW a \in S, NEW b \in S, e[a] = e[b] PROVE a = b
    <3>1. nextId + h[a] - 1 = nextId + h[b] - 1 /\ h[a] \in Int /\ h[b] \in Int
      BY <1>4, <1>6, <2>1
    <3>2. h[a] = h[b]
      BY <3>1
    <3> QED  BY <1>4, <3>2
  <2> QED  BY <1>5, <1>6, <2>1
<1>8. f = CHOOSE z \in [S -> nextId..(nextId + k - 1)] : \A a, b \in S : z[a] = z[b] => a = b
  BY DEF Number
<1> QED  BY <1>1, <1>7, <1>8

LEMMA IdentityUnchanged ==
  ASSUME IdentityInv, UNCHANGED <<imported, nextId, edit, since, given, pinned>>
  PROVE  IdentityInv'
<1>1. NodesTyped' /\ IdsInv'
  BY DEF IdentityInv, NodesTyped, IdsInv
<1>2. IdentityKept' /\ NothingTaken'
  BY DEF IdentityInv, IdentityKept, NothingTaken
<1> QED  BY <1>1, <1>2 DEF IdentityInv

(* A feed is applied. *)
LEMMA Renewed ==
  ASSUME IdentityInv, NEW got \in FeedRows, IsFiniteSet(got.names),
         imported' = NewNodes(got),
         nextId' = nextId + Cardinality({x \in got.names : Existing(x) = {}}),
         since' = [x \in got.names |-> IF x \in DOMAIN since THEN since[x]
                                       ELSE (CHOOSE n \in NewNodes(got) : UpstreamName(n) = x).id],
         UNCHANGED <<edit, given, pinned>>
  PROVE  IdentityInv'
<1>1. NodesTyped /\ IdsInv /\ IdentityKept /\ NothingTaken
  BY DEF IdentityInv
<1>2. PICK F : F = {x \in got.names : Existing(x) = {}}
  OBVIOUS
<1>3. PICK k, ids : k = Cardinality(F) /\ ids = Number(F)
  OBVIOUS
<1>4. got.names \subseteq ImportNames /\ got.ver \in Nat /\ IsFiniteSet(F) /\ F \subseteq got.names
  BY <1>2, FS_Subset DEF FeedRows, NameSets
<1>5. /\ k \in Nat /\ ids \in [F -> nextId..(nextId + k - 1)] /\ nextId \in Nat
      /\ \A a, b \in F : ids[a] = ids[b] => a = b
  BY <1>1, <1>3, <1>4, Numbered DEF NodesTyped
<1> DEFINE Aged(m) == IF UpstreamName(m) \in got.names THEN [m EXCEPT !.ver = got.ver, !.revoked = FALSE]
                      ELSE [m EXCEPT !.on = FALSE, !.revoked = TRUE]
           New(x)  == [id |-> ids[x], name |-> x, orig |-> None, ver |-> got.ver, on |-> TRUE, revoked |-> FALSE]
           M       == {m \in imported : UpstreamName(m) \in got.names \/ m.id \in pinned}
<1>6. imported' = {Aged(m) : m \in M} \cup {New(x) : x \in F}
  <2>1. imported' = {[n EXCEPT !.ver = got.ver, !.revoked = FALSE] : n \in {m \in imported : UpstreamName(m) \in got.names}}
          \cup {[n EXCEPT !.on = FALSE, !.revoked = TRUE] : n \in {m \in imported : UpstreamName(m) \notin got.names /\ m.id \in pinned}}
          \cup {New(x) : x \in F}
    BY <1>2, <1>3 DEF NewNodes
  <2>2. {Aged(m) : m \in M} =
          {[n EXCEPT !.ver = got.ver, !.revoked = FALSE] : n \in {m \in imported : UpstreamName(m) \in got.names}}
          \cup {[n EXCEPT !.on = FALSE, !.revoked = TRUE] : n \in {m \in imported : UpstreamName(m) \notin got.names /\ m.id \in pinned}}
    <3> HIDE DEF New
    <3> QED  OBVIOUS
  <2> HIDE DEF Aged, New, M
  <2> QED  BY <2>1, <2>2
<1>7. \A m \in imported : /\ m \in ImportNodes /\ Aged(m) \in ImportNodes /\ Aged(m).id = m.id /\ Aged(m).name = m.name
                          /\ UpstreamName(Aged(m)) = UpstreamName(m) /\ m.id \in Nat /\ m.id < nextId
  <2> SUFFICES ASSUME NEW m \in imported
               PROVE  /\ m \in ImportNodes /\ Aged(m) \in ImportNodes /\ Aged(m).id = m.id /\ Aged(m).name = m.name
                      /\ UpstreamName(Aged(m)) = UpstreamName(m) /\ m.id \in Nat /\ m.id < nextId
    OBVIOUS
  <2>1. m \in ImportNodes /\ m.id \in Nat /\ m.id < nextId
    BY <1>1 DEF NodesTyped, ImportNodes, IdsInv
  <2>2. PICK q : q = Aged(m)
    OBVIOUS
  <2>3. q \in ImportNodes /\ q.id = m.id /\ q.name = m.name /\ q.orig = m.orig
    BY <1>4, <2>1, <2>2 DEF ImportNodes
  <2>4. UpstreamName(q) = UpstreamName(m)
    BY <2>3 DEF UpstreamName
  <2> HIDE DEF Aged
  <2> QED  BY <2>1, <2>2, <2>3, <2>4
<1>8. \A x \in F : /\ New(x) \in ImportNodes /\ New(x).id = ids[x] /\ UpstreamName(New(x)) = x
                   /\ ids[x] \in Nat /\ nextId <= ids[x] /\ ids[x] < nextId + k
  <2> SUFFICES ASSUME NEW x \in F
               PROVE  /\ New(x) \in ImportNodes /\ New(x).id = ids[x] /\ UpstreamName(New(x)) = x
                      /\ ids[x] \in Nat /\ nextId <= ids[x] /\ ids[x] < nextId + k
    OBVIOUS
  <2>1. ids[x] \in Nat /\ nextId <= ids[x] /\ ids[x] < nextId + k /\ x \in ImportNames
    BY <1>4, <1>5
  <2>2. PICK q : q = New(x)
    OBVIOUS
  <2>3. q \in ImportNodes /\ q.id = ids[x] /\ q.name = x /\ q.orig = None
    BY <1>4, <2>1, <2>2 DEF ImportNodes
  <2>4. UpstreamName(q) = x
    BY <2>3 DEF UpstreamName
  <2> HIDE DEF New
  <2> QED  BY <2>1, <2>2, <2>3, <2>4
<1> HIDE DEF Aged, New, M
<1>9. \A m \in M : m \in imported /\ (UpstreamName(m) \in got.names \/ m.id \in pinned)
  BY DEF M
<1>10. \A m \in imported : UpstreamName(m) \in got.names \/ m.id \in pinned => m \in M
  BY DEF M
<1>11. \A x \in F : \A m \in imported : UpstreamName(m) # x
  BY <1>2 DEF Existing
<1>12. nextId' = nextId + k
  BY <1>2, <1>3
<1>13. NodesTyped'
  <2>1. imported' \subseteq ImportNodes
    BY <1>6, <1>7, <1>8, <1>9
  <2> QED  BY <1>1, <1>5, <1>12, <2>1 DEF NodesTyped
<1>14. IdsInv'
  <2>1. ASSUME NEW p \in imported', NEW q \in imported', p.id = q.id PROVE p = q
    <3>1. CASE \E m \in M, n \in M : p = Aged(m) /\ q = Aged(n)
      BY <1>1, <1>7, <1>9, <2>1, <3>1 DEF IdsInv
    <3>2. CASE \E x \in F, y \in F : p = New(x) /\ q = New(y)
      BY <1>5, <1>8, <2>1, <3>2
    <3>3. ASSUME NEW m \in M, NEW x \in F PROVE Aged(m).id # New(x).id
      <4>1. Aged(m).id \in Nat /\ Aged(m).id < nextId /\ New(x).id \in Nat /\ nextId <= New(x).id
        BY <1>7, <1>8, <1>9
      <4> QED  BY <1>5, <4>1
    <3> QED  BY <1>6, <2>1, <3>1, <3>2, <3>3
  <2>2. ASSUME NEW p \in imported' PROVE p.id < nextId'
    <3>1. CASE \E m \in M : p = Aged(m)
      <4>1. p.id \in Nat /\ p.id < nextId
        BY <1>7, <1>9, <3>1
      <4> QED  BY <1>5, <1>12, <4>1
    <3>2. CASE \E x \in F : p = New(x)
      BY <1>8, <1>12, <3>2
    <3> QED  BY <1>6, <3>1, <3>2
  <2>3. ASSUME NEW i \in DOMAIN given PROVE i \in Nat /\ i < nextId'
    <3>1. i \in Nat /\ i < nextId
      BY <1>1 DEF IdsInv
    <3> QED  BY <1>5, <1>12, <3>1
  <2> QED  BY <2>1, <2>2, <2>3 DEF IdsInv
<1>15. IdentityKept'
  <2>1. ASSUME NEW p \in imported', NEW q \in imported', UpstreamName(p) = UpstreamName(q) PROVE p = q
    <3>1. CASE \E m \in M, n \in M : p = Aged(m) /\ q = Aged(n)
      BY <1>1, <1>7, <1>9, <2>1, <3>1 DEF IdentityKept
    <3>2. CASE \E x \in F, y \in F : p = New(x) /\ q = New(y)
      BY <1>8, <2>1, <3>2
    <3>3. ASSUME NEW m \in M, NEW x \in F PROVE UpstreamName(Aged(m)) # UpstreamName(New(x))
      BY <1>7, <1>8, <1>9, <1>11
    <3> QED  BY <1>6, <2>1, <3>1, <3>2, <3>3
  <2>2. ASSUME NEW x \in DOMAIN since' PROVE \E n \in imported' : n.id = since'[x] /\ UpstreamName(n) = x
    <3>1. x \in got.names
      BY <2>2
    <3>2. CASE x \in DOMAIN since
      <4>1. since'[x] = since[x]
        BY <3>1, <3>2
      <4>2. PICK m \in imported : m.id = since[x] /\ UpstreamName(m) = x
        BY <1>1, <3>2 DEF IdentityKept
      <4>3. m \in M
        BY <1>10, <3>1, <4>2
      <4> QED  BY <1>6, <1>7, <4>1, <4>2, <4>3
    <3>3. CASE x \notin DOMAIN since
      <4>1. since'[x] = (CHOOSE n \in imported' : UpstreamName(n) = x).id
        BY <3>1, <3>3
      <4>2. \E n \in imported' : UpstreamName(n) = x
        <5>1. CASE x \in F
          BY <1>6, <1>8, <5>1
        <5>2. CASE x \notin F
          <6>1. PICK m \in imported : UpstreamName(m) = x
            BY <1>2, <3>1, <5>2 DEF Existing
          <6>2. m \in M
            BY <1>10, <3>1, <6>1
          <6> QED  BY <1>6, <1>7, <6>1, <6>2
        <5> QED  BY <5>1, <5>2
      <4>3. PICK n : n = CHOOSE w \in imported' : UpstreamName(w) = x
        OBVIOUS
      <4>4. n \in imported' /\ UpstreamName(n) = x
        BY <4>2, <4>3
      <4> QED  BY <4>1, <4>3, <4>4
    <3> QED  BY <3>2, <3>3
  <2> QED  BY <2>1, <2>2 DEF IdentityKept
<1>16. NothingTaken'
  <2>1. ASSUME NEW p \in imported', p.id \in DOMAIN given PROVE p.name = given[p.id]
    <3>1. CASE \E m \in M : p = Aged(m)
      BY <1>1, <1>7, <1>9, <2>1, <3>1 DEF NothingTaken
    <3>2. CASE \E x \in F : p = New(x)
      <4>1. p.id \in Nat /\ nextId <= p.id /\ p.id < nextId
        BY <1>1, <1>8, <2>1, <3>2 DEF IdsInv
      <4> QED  BY <1>5, <4>1
    <3> QED  BY <1>6, <3>1, <3>2
  <2>2. ASSUME NEW i \in pinned PROVE \E n \in imported' : n.id = i
    <3>1. PICK m \in imported : m.id = i
      BY <1>1 DEF NothingTaken
    <3>2. m \in M
      BY <1>10, <3>1
    <3> QED  BY <1>6, <1>7, <3>1, <3>2
  <2> QED  BY <2>1, <2>2 DEF NothingTaken
<1> QED  BY <1>13, <1>14, <1>15, <1>16 DEF IdentityInv

(* An edit is written: under the identifier and the upstream name of the row. *)
LEMMA EditWritten ==
  ASSUME IdentityInv, CommitEdit
  PROVE  IdentityInv'
<1>1. NodesTyped /\ IdsInv /\ IdentityKept /\ NothingTaken
  BY DEF IdentityInv
<1>2. edit # None /\ edit' = None /\ UNCHANGED <<pinned, nextId, since>>
  BY DEF CommitEdit
<1>3. PICK old : old = {n \in imported : n.id = edit.id}
  OBVIOUS
<1>4. CASE old = {}
  <2>1. UNCHANGED <<imported, given>>
    BY <1>3, <1>4 DEF CommitEdit
  <2>2. NodesTyped' /\ IdsInv'
    BY <1>1, <1>2, <2>1 DEF NodesTyped, IdsInv
  <2>3. IdentityKept' /\ NothingTaken'
    BY <1>1, <1>2, <2>1 DEF IdentityKept, NothingTaken
  <2> QED  BY <2>2, <2>3 DEF IdentityInv
<1>5. CASE old # {}
  <2>1. PICK n \in old : LET orig == IF n.orig = None /\ n.name # edit.name THEN n.name ELSE n.orig IN
          /\ imported' = (imported \ old) \cup {[edit EXCEPT !.orig = orig]}
          /\ given' = IF n.name = edit.name THEN given
                      ELSE [i \in DOMAIN given \cup {n.id} |-> IF i = n.id THEN edit.name ELSE given[i]]
    BY <1>3, <1>5 DEF CommitEdit
  <2>2. n \in imported /\ n.id = edit.id /\ old = {n}
    BY <1>1, <1>3 DEF IdsInv
  <2>3. PICK orig : orig = IF n.orig = None /\ n.name # edit.name THEN n.name ELSE n.orig
    OBVIOUS
  <2>4. PICK q : q = [edit EXCEPT !.orig = orig]
    OBVIOUS
  <2>5. imported' = (imported \ {n}) \cup {q}
    BY <2>1, <2>2, <2>3, <2>4
  <2>6. n \in ImportNodes /\ edit \in ImportNodes /\ n.name \in ImportNames /\ n.id \in Nat /\ n.name # None
    BY <1>1, <1>2, <2>2, ImportsAssumption DEF NodesTyped, ImportNodes
  <2>7. q \in ImportNodes /\ q.id = n.id /\ q.name = edit.name /\ q.orig = orig
    <3>1. orig \in ImportNames \cup {None}
      BY <2>3, <2>6 DEF ImportNodes
    <3> QED  BY <2>2, <2>4, <2>6, <3>1 DEF ImportNodes
  <2>8. UpstreamName(q) = UpstreamName(n)
    BY <2>3, <2>6, <2>7 DEF UpstreamName
  <2>9. \A i \in DOMAIN given' : i \in DOMAIN given \/ i = n.id
    BY <2>1
  <2>10. NodesTyped'
    BY <1>1, <1>2, <2>5, <2>7 DEF NodesTyped
  <2>11. IdsInv'
    <3>1. \A a, b \in imported' : a.id = b.id => a = b
      BY <1>1, <2>2, <2>5, <2>7 DEF IdsInv
    <3>2. \A a \in imported' : a.id < nextId'
      BY <1>1, <1>2, <2>2, <2>5, <2>7 DEF IdsInv
    <3>3. \A i \in DOMAIN given' : i \in Nat /\ i < nextId'
      BY <1>1, <1>2, <2>2, <2>6, <2>9 DEF IdsInv
    <3> QED  BY <3>1, <3>2, <3>3 DEF IdsInv
  <2>12. IdentityKept'
    <3>1. \A a, b \in imported' : UpstreamName(a) = UpstreamName(b) => a = b
      BY <1>1, <2>2, <2>5, <2>8 DEF IdentityKept
    <3>2. \A x \in DOMAIN since : \E m \in imported' : m.id = since[x] /\ UpstreamName(m) = x
      BY <1>1, <2>2, <2>5, <2>7, <2>8 DEF IdentityKept
    <3> QED  BY <1>2, <3>1, <3>2 DEF IdentityKept
  <2>13. NothingTaken'
    <3>1. ASSUME NEW m \in imported', m.id \in DOMAIN given' PROVE m.name = given'[m.id]
      <4>1. CASE m = q
        <5>1. CASE n.name = edit.name
          <6>1. given' = given
            BY <2>1, <5>1
          <6> QED  BY <1>1, <2>2, <2>7, <3>1, <4>1, <5>1, <6>1 DEF NothingTaken
        <5>2. CASE n.name # edit.name
          <6>1. given' = [i \in DOMAIN given \cup {n.id} |-> IF i = n.id THEN edit.name ELSE given[i]]
            BY <2>1, <5>2
          <6> QED  BY <2>7, <4>1, <6>1
        <5> QED  BY <5>1, <5>2
      <4>2. CASE m # q
        <5>1. m \in imported /\ m.id # n.id /\ m.id \in DOMAIN given
          BY <1>1, <2>2, <2>5, <2>9, <3>1, <4>2 DEF IdsInv
        <5>2. given'[m.id] = given[m.id]
          BY <2>1, <5>1
        <5> QED  BY <1>1, <5>1, <5>2 DEF NothingTaken
      <4> QED  BY <4>1, <4>2
    <3>2. \A i \in pinned : \E m \in imported' : m.id = i
      BY <1>1, <2>2, <2>5, <2>7 DEF NothingTaken
    <3> QED  BY <1>2, <3>1, <3>2 DEF NothingTaken
  <2> QED  BY <2>10, <2>11, <2>12, <2>13 DEF IdentityInv
<1> QED  BY <1>4, <1>5

LEMMA NodeEdits ==
  ASSUME IdentityInv, BeginEdit \/ PinNode \/ DeleteImported \/ DeleteExternal
  PROVE  IdentityInv'
<1>1. NodesTyped /\ IdsInv /\ IdentityKept /\ NothingTaken
  BY DEF IdentityInv
<1>2. CASE BeginEdit
  <2>1. UNCHANGED <<imported, nextId, since, given, pinned>>
    BY <1>2 DEF BeginEdit
  <2>2. PICK n \in imported, name \in {"x", "y", "z"}, on \in BOOLEAN : edit' = [n EXCEPT !.name = name, !.on = on]
    BY <1>2 DEF BeginEdit
  <2>3. n \in ImportNodes /\ name \in ImportNames
    BY <1>1 DEF NodesTyped, ImportNames
  <2>4. edit' \in ImportNodes
    BY <2>2, <2>3 DEF ImportNodes
  <2>5. NodesTyped' /\ IdsInv'
    BY <1>1, <2>1, <2>4 DEF NodesTyped, IdsInv
  <2>6. IdentityKept' /\ NothingTaken'
    BY <1>1, <2>1 DEF IdentityKept, NothingTaken
  <2> QED  BY <2>5, <2>6 DEF IdentityInv
<1>3. CASE PinNode
  <2>1. UNCHANGED <<imported, nextId, since, given, edit>>
    BY <1>3 DEF PinNode
  <2>2. \A i \in pinned' : \E n \in imported : n.id = i
    BY <1>1, <1>3 DEF PinNode, NothingTaken
  <2>3. NodesTyped' /\ IdsInv'
    BY <1>1, <2>1 DEF NodesTyped, IdsInv
  <2>4. IdentityKept' /\ NothingTaken'
    BY <1>1, <2>1, <2>2 DEF IdentityKept, NothingTaken
  <2> QED  BY <2>3, <2>4 DEF IdentityInv
<1>4. CASE DeleteImported
  <2>1. UNCHANGED <<nextId, given, edit, pinned>>
    BY <1>4 DEF DeleteImported
  <2>2. PICK n \in imported : /\ n.id \notin pinned /\ imported' = imported \ {n}
                              /\ since' = [x \in DOMAIN since \ {UpstreamName(n)} |-> since[x]]
    BY <1>4 DEF DeleteImported
  <2>3. NodesTyped' /\ IdsInv'
    BY <1>1, <2>1, <2>2 DEF NodesTyped, IdsInv
  <2>4. IdentityKept'
    <3>1. \A a, b \in imported' : UpstreamName(a) = UpstreamName(b) => a = b
      BY <1>1, <2>2 DEF IdentityKept
    <3>2. ASSUME NEW x \in DOMAIN since' PROVE \E m \in imported' : m.id = since'[x] /\ UpstreamName(m) = x
      <4>1. x \in DOMAIN since /\ x # UpstreamName(n) /\ since'[x] = since[x]
        BY <2>2, <3>2
      <4>2. PICK m \in imported : m.id = since[x] /\ UpstreamName(m) = x
        BY <1>1, <4>1 DEF IdentityKept
      <4> QED  BY <2>2, <4>1, <4>2
    <3> QED  BY <3>1, <3>2 DEF IdentityKept
  <2>5. NothingTaken'
    BY <1>1, <2>1, <2>2 DEF NothingTaken
  <2> QED  BY <2>3, <2>4, <2>5 DEF IdentityInv
<1>5. CASE DeleteExternal
  <2>1. /\ UNCHANGED <<nextId, given, edit, pinned>> /\ imported' = {} /\ since' = << >>
        /\ \A n \in imported : n.id \notin pinned
    BY <1>5 DEF DeleteExternal
  <2>2. pinned = {} /\ DOMAIN since' = {}
    BY <1>1, <2>1 DEF NothingTaken
  <2>3. NodesTyped' /\ IdsInv'
    BY <1>1, <2>1 DEF NodesTyped, IdsInv
  <2>4. IdentityKept' /\ NothingTaken'
    BY <2>1, <2>2 DEF IdentityKept, NothingTaken
  <2> QED  BY <2>3, <2>4 DEF IdentityInv
<1> QED  BY <1>2, <1>3, <1>4, <1>5

-----------------------------------------------------------------------------
(* Usage. *)
LEMMA DeltaFacts ==
  ASSUME NEW u \in Nat, NEW v \in Nat
  PROVE  /\ Delta(u, v) \in Nat /\ Delta(u, u) = 0
         /\ Delta(u, 1) <= Delta(u, v) + 1 /\ Delta(u, v + 1) <= Delta(u, v) + 1
  BY DEF Delta

LEMMA SyncFacts ==
  ASSUME UsageInv, NEW s \in syncs
  PROVE  /\ s.row \in ExtRows /\ s.row.up \in Nat /\ s.row.synced \in BOOLEAN /\ s.pc \in SyncSteps
         /\ s.pc # "fetch" => s.got \in FeedRows /\ s.got.use \in Nat /\ IsFiniteSet(s.got.names)
         /\ ~overlaps => /\ SyncCovered(s) /\ \A t \in syncs : t = s
                         /\ s.pc # "fetch" \/ s.row.synced => base # None
         /\ \E N : s \in [pc : SyncSteps, row : ExtRows, got : GotRows, n : N]
<1>1. \E N : s \in [pc : SyncSteps, row : ExtRows, got : GotRows, n : N]
  BY DEF UsageInv, SyncsTyped
<1>2. s.row \in ExtRows /\ s.pc \in SyncSteps
  BY <1>1
<1>3. s.row.up \in Nat /\ s.row.synced \in BOOLEAN
  BY <1>2 DEF ExtRows
<1>4. s.pc # "fetch" => s.got \in FeedRows /\ s.got.use \in Nat /\ IsFiniteSet(s.got.names)
  BY DEF UsageInv, SyncsTyped, FeedRows
<1>5. ~overlaps => /\ SyncCovered(s) /\ \A t \in syncs : t = s
                   /\ s.pc # "fetch" \/ s.row.synced => base # None
  BY DEF UsageInv, CountInv, NotBegun
<1> QED  BY <1>1, <1>2, <1>3, <1>4, <1>5

LEMMA UsageFacts ==
  ASSUME UsageInv
  PROVE  /\ feed.use \in Nat /\ feed.names \subseteq ImportNames /\ feed.ver \in Nat
         /\ counted \in Nat /\ grown \in Nat /\ (base # None => base \in Nat /\ base <= grown)
         /\ ext # None => ext \in ExtRows /\ ext.up \in Nat /\ ext.synced \in BOOLEAN
         /\ overlaps \in BOOLEAN
  BY DEF UsageInv, SyncsTyped, FeedRows, NameSets, ExtRows

LEMMA UsageUnchanged ==
  ASSUME UsageInv, UNCHANGED <<feed, ext, syncs, counted, grown, overlaps, base>>
  PROVE  UsageInv'
<1>1. SyncsTyped'
  BY DEF UsageInv, SyncsTyped
<1>2. CountInv'
  BY DEF UsageInv, CountInv, NotBegun, SyncCovered
<1> QED  BY <1>1, <1>2 DEF UsageInv

LEMMA UsageGrows ==
  ASSUME UsageInv, ProviderChanges
  PROVE  UsageInv'
<1>1. UNCHANGED <<ext, counted, syncs, overlaps, base>> /\ grown' = grown + 1
  BY DEF ProviderChanges
<1>2. PICK f \in Feeds, u \in {1, feed.use + 1} : feed' = [names |-> f, ver |-> feed.ver + 1, use |-> u]
  BY DEF ProviderChanges
<1>3. /\ feed.use \in Nat /\ feed.ver \in Nat /\ counted \in Nat /\ grown \in Nat
      /\ (base # None => base \in Nat /\ base <= grown)
      /\ ext # None => ext.up \in Nat /\ ext.synced \in BOOLEAN
  BY UsageFacts
<1>4. u \in Nat /\ feed'.use = u /\ feed' \in FeedRows /\ IsFiniteSet(feed'.names)
  <2>1. f \in NameSets /\ IsFiniteSet(f) /\ u \in Nat /\ feed.ver + 1 \in Nat
    BY <1>3, ImportsAssumption DEF NameSets, ImportNames
  <2> QED  BY <1>2, <2>1 DEF FeedRows
<1>5. ASSUME NEW w \in Nat PROVE Delta(w, u) \in Nat /\ Delta(w, feed.use) \in Nat /\ Delta(w, u) <= Delta(w, feed.use) + 1
  <2>1. CASE u = 1
    BY <1>3, <2>1, DeltaFacts
  <2>2. CASE u = feed.use + 1
    BY <1>3, <2>2 DEF Delta
  <2>3. Delta(w, u) \in Nat /\ Delta(w, feed.use) \in Nat
    BY <1>3, <1>4, DeltaFacts
  <2> QED  BY <2>1, <2>2, <2>3
<1>8. \A w : Delta(w, feed'.use) = Delta(w, u)
  BY <1>4, Zenon
<1>6. SyncsTyped'
  <2>1. grown' \in Nat /\ (base # None => base <= grown')
    BY <1>1, <1>3
  <2> QED  BY <1>1, <1>4, <2>1 DEF UsageInv, SyncsTyped
<1>7. CountInv'
  <2> SUFFICES ASSUME ~overlaps PROVE CountInv'
    BY <1>1 DEF CountInv
  <2>1. ASSUME NEW s \in syncs PROVE SyncCovered(s)'
    <3>1. /\ s.row.up \in Nat /\ (s.pc # "fetch" => s.got.use \in Nat) /\ SyncCovered(s)
          /\ s.pc # "fetch" \/ s.row.synced => base # None
      BY SyncFacts
    <3>2. CASE s.pc = "fetch"
      <4>1. ASSUME s.row.synced PROVE counted' + Delta(s.row.up, feed'.use) <= grown' - base'
        <5>1. base \in Nat /\ counted + Delta(s.row.up, feed.use) <= grown - base
          BY <1>3, <3>1, <3>2, <4>1 DEF SyncCovered
        <5>2. Delta(s.row.up, u) \in Nat /\ Delta(s.row.up, feed.use) \in Nat /\ Delta(s.row.up, u) <= Delta(s.row.up, feed.use) + 1
          BY <1>5, <3>1
        <5>3. Delta(s.row.up, feed'.use) = Delta(s.row.up, u)
          BY <1>8
        <5> QED  BY <1>1, <1>3, <5>1, <5>2, <5>3
      <4>3. ext' # None => ext' = s.row
        BY <1>1, <3>1, <3>2 DEF SyncCovered
      <4> QED  BY <3>2, <4>1, <4>3 DEF SyncCovered
    <3>3. CASE s.pc \in {"nodes", "usage"}
      <4>1. PICK d : d = IF s.row.synced THEN Delta(s.row.up, s.got.use) ELSE 0
        OBVIOUS
      <4>2. d \in Nat /\ base \in Nat /\ counted + d + Delta(s.got.use, feed.use) <= grown - base
        BY <1>3, <3>1, <3>3, <4>1, DeltaFacts DEF SyncCovered
      <4>3. Delta(s.got.use, u) \in Nat /\ Delta(s.got.use, feed.use) \in Nat /\ Delta(s.got.use, u) <= Delta(s.got.use, feed.use) + 1
        BY <1>5, <3>1, <3>3
      <4>4. Delta(s.got.use, feed'.use) = Delta(s.got.use, u)
        BY <1>8
      <4>5. counted' + d + Delta(s.got.use, feed'.use) <= grown' - base'
        BY <1>1, <1>3, <4>2, <4>3, <4>4
      <4> QED  BY <3>3, <4>1, <4>5 DEF SyncCovered
    <3>4. CASE s.pc = "record"
      <4>1. base \in Nat /\ counted + Delta(s.got.use, feed.use) <= grown - base
        BY <1>3, <3>1, <3>4 DEF SyncCovered
      <4>2. Delta(s.got.use, u) \in Nat /\ Delta(s.got.use, feed.use) \in Nat /\ Delta(s.got.use, u) <= Delta(s.got.use, feed.use) + 1
        BY <1>5, <3>1, <3>4
      <4>3. Delta(s.got.use, feed'.use) = Delta(s.got.use, u)
        BY <1>8
      <4>4. counted' + Delta(s.got.use, feed'.use) <= grown' - base'
        BY <1>1, <1>3, <4>1, <4>2, <4>3
      <4> QED  BY <3>4, <4>4 DEF SyncCovered
    <3> QED  BY <3>2, <3>3, <3>4, SyncFacts DEF SyncSteps
  <2>2. base = None => NotBegun'
    BY <1>1 DEF UsageInv, CountInv, NotBegun
  <2>3. base # None => counted <= grown' - base
    <3>1. base # None => counted <= grown - base
      BY DEF UsageInv, CountInv
    <3> QED  BY <1>1, <1>3, <3>1
  <2>4. ASSUME syncs' = {}, ext' # None, ext'.synced
        PROVE  counted' + Delta(ext'.up, feed'.use) <= grown' - base'
    <3>1. counted + Delta(ext.up, feed.use) <= grown - base /\ base # None /\ ext.up \in Nat
      BY <1>1, <1>3, <2>4 DEF UsageInv, CountInv, NotBegun
    <3>2. Delta(ext.up, u) \in Nat /\ Delta(ext.up, feed.use) \in Nat /\ Delta(ext.up, u) <= Delta(ext.up, feed.use) + 1
      BY <1>5, <3>1
    <3>3. Delta(ext'.up, feed'.use) = Delta(ext.up, u)
      BY <1>1, <1>8
    <3> QED  BY <1>1, <1>3, <3>1, <3>2, <3>3
  <2>5. \A s, t \in syncs : s = t
    BY DEF UsageInv, CountInv
  <2>7. base' # None => counted' <= grown' - base'
    BY <1>1, <2>3
  <2>8. base' = None => NotBegun'
    BY <1>1, <2>2
  <2>9. \A s, t \in syncs' : s = t
    BY <1>1, <2>5
  <2>10. \A s \in syncs' : SyncCovered(s)'
    BY <1>1, <2>1
  <2> QED  BY <2>4, <2>7, <2>8, <2>9, <2>10 DEF CountInv
<1> QED  BY <1>6, <1>7 DEF UsageInv

(* A sync begins, or its subscription is deleted. *)
LEMMA UsageBegins ==
  ASSUME UsageInv, SyncExternal \/ DeleteExternal
  PROVE  UsageInv'
<1>1. CASE SyncExternal
  <2>1. UNCHANGED <<feed, ext, counted, grown, base>> /\ ext # None /\ overlaps' = (overlaps \/ syncs # {})
    BY <1>1 DEF SyncExternal
  <2>2. PICK new : new = [pc |-> "fetch", row |-> ext, got |-> None, n |-> ileft.sync]
    OBVIOUS
  <2>3. syncs' = syncs \cup {new}
    BY <1>1, <2>2 DEF SyncExternal
  <2>4. ext \in ExtRows /\ new.pc = "fetch" /\ new.row = ext /\ overlaps' \in BOOLEAN
    BY <2>1, <2>2, UsageFacts, Zenon
  <2>5. \E N : syncs' \subseteq [pc : SyncSteps, row : ExtRows, got : GotRows, n : N]
    <3>1. PICK N : syncs \subseteq [pc : SyncSteps, row : ExtRows, got : GotRows, n : N]
      BY DEF UsageInv, SyncsTyped
    <3>2. PICK M : M = N \cup {ileft.sync}
      OBVIOUS
    <3>3. "fetch" \in SyncSteps /\ None \in GotRows
      BY DEF SyncSteps, GotRows
    <3>4. new \in [pc : SyncSteps, row : ExtRows, got : GotRows, n : M]
      BY <2>2, <2>4, <3>2, <3>3
    <3>5. N \subseteq M
      BY <3>2
    <3>6. \A s \in syncs : s \in [pc : SyncSteps, row : ExtRows, got : GotRows, n : M]
      BY <3>1, <3>5
    <3>7. syncs' \subseteq [pc : SyncSteps, row : ExtRows, got : GotRows, n : M]
      BY <2>3, <3>4, <3>6
    <3> QED  BY <3>7
  <2>6. SyncsTyped'
    BY <2>1, <2>3, <2>4, <2>5 DEF UsageInv, SyncsTyped
  <2>7. CountInv'
    <3> SUFFICES ASSUME ~overlaps' PROVE CountInv'
      BY DEF CountInv
    <3>1. ~overlaps /\ syncs = {} /\ syncs' = {new}
      BY <2>1, <2>3
    <3>2. SyncCovered(new)'
      BY <2>1, <2>4, <3>1 DEF UsageInv, CountInv, SyncCovered
    <3>3. base = None => NotBegun'
      BY <2>1, <2>4, <3>1 DEF UsageInv, CountInv, NotBegun
    <3> QED  BY <2>1, <3>1, <3>2, <3>3 DEF UsageInv, CountInv
  <2> QED  BY <2>6, <2>7 DEF UsageInv
<1>2. CASE DeleteExternal
  <2>1. UNCHANGED <<feed, counted, syncs, overlaps, grown, base>> /\ ext' = None
    BY <1>2 DEF DeleteExternal
  <2>2. SyncsTyped'
    BY <2>1 DEF UsageInv, SyncsTyped
  <2>3. CountInv'
    <3> SUFFICES ASSUME ~overlaps PROVE CountInv'
      BY <2>1 DEF CountInv
    <3>1. \A s \in syncs : SyncCovered(s)'
      BY <2>1 DEF UsageInv, CountInv, SyncCovered
    <3>2. base = None => NotBegun'
      BY <2>1 DEF UsageInv, CountInv, NotBegun
    <3> QED  BY <2>1, <3>1, <3>2 DEF UsageInv, CountInv
  <2> QED  BY <2>2, <2>3 DEF UsageInv
<1> QED  BY <1>1, <1>2

(* The next step of a sync: it goes on as new, or it is over. *)
LEMMA SyncsNext ==
  ASSUME UsageInv, NEW s \in syncs, NEW S, S \subseteq {[s EXCEPT !.pc = "usage"], [s EXCEPT !.pc = "record"]},
         s.pc # "fetch", syncs' = (syncs \ {s}) \cup S, UNCHANGED <<feed, overlaps>>,
         ext' \in ExtRows \cup {None}, counted' \in Nat, UNCHANGED <<grown, base>>
  PROVE  SyncsTyped'
<1>1. PICK N : syncs \subseteq [pc : SyncSteps, row : ExtRows, got : GotRows, n : N]
  BY DEF UsageInv, SyncsTyped
<1>2. \A t \in S : t \in [pc : SyncSteps, row : ExtRows, got : GotRows, n : N] /\ t.got = s.got
  BY <1>1 DEF SyncSteps
<1>3. syncs' \subseteq [pc : SyncSteps, row : ExtRows, got : GotRows, n : N]
  BY <1>1, <1>2
<1>4. \A t \in syncs' : t.pc # "fetch" => t.got \in FeedRows /\ IsFiniteSet(t.got.names)
  BY <1>2, SyncFacts DEF UsageInv, SyncsTyped
<1> QED  BY <1>3, <1>4 DEF UsageInv, SyncsTyped

LEMMA UsageFetched ==
  ASSUME UsageInv, NEW s \in syncs, FetchDone(s)
  PROVE  UsageInv'
<1>1. /\ s.pc = "fetch" /\ UNCHANGED <<feed, ext, counted, overlaps, grown>>
      /\ base' = IF base = None THEN grown ELSE base
  BY DEF FetchDone
<1>2. PICK new : new = [s EXCEPT !.pc = "nodes", !.got = feed]
  OBVIOUS
<1>3. syncs' = (syncs \ {s}) \cup {new}
  BY <1>2 DEF FetchDone
<1>4. /\ feed.use \in Nat /\ counted \in Nat /\ grown \in Nat /\ (base # None => base \in Nat /\ base <= grown)
      /\ s.row.up \in Nat /\ None \notin Nat
  BY UsageFacts, SyncFacts, ImportsAssumption
<1>5. feed \in FeedRows /\ IsFiniteSet(feed.names)
  BY DEF UsageInv, SyncsTyped
<1>6. PICK N : syncs \subseteq [pc : SyncSteps, row : ExtRows, got : GotRows, n : N]
  BY DEF UsageInv, SyncsTyped
<1>7. /\ new \in [pc : SyncSteps, row : ExtRows, got : GotRows, n : N]
      /\ new.pc = "nodes" /\ new.row = s.row /\ new.got = feed
  <2>1. "nodes" \in SyncSteps /\ feed \in GotRows
    BY <1>5 DEF SyncSteps, GotRows
  <2> QED  BY <1>2, <1>6, <2>1
<1>8. base' \in Nat /\ base' <= grown
  BY <1>1, <1>4
<1>9. SyncsTyped'
  <2>1. syncs' \subseteq [pc : SyncSteps, row : ExtRows, got : GotRows, n : N]
    BY <1>3, <1>6, <1>7
  <2>2. \A t \in syncs' : t.pc # "fetch" => t.got \in FeedRows /\ IsFiniteSet(t.got.names)
    BY <1>3, <1>5, <1>7 DEF UsageInv, SyncsTyped
  <2>3. base' # None => base' \in Nat /\ base' <= grown'
    BY <1>1, <1>8
  <2> QED  BY <1>1, <2>1, <2>2, <2>3 DEF UsageInv, SyncsTyped
<1>10. CountInv'
  <2> SUFFICES ASSUME ~overlaps PROVE CountInv'
    BY <1>1 DEF CountInv
  <2>1. syncs' = {new} /\ SyncCovered(s) /\ (s.row.synced => base # None)
    BY <1>3, SyncFacts
  <2>2. base' # None
    BY <1>4, <1>8
  <2>3. counted <= grown - base'
    <3>1. CASE base = None
      <4>1. counted = 0
        BY <3>1 DEF UsageInv, CountInv, NotBegun
      <4> QED  BY <1>1, <1>4, <3>1, <4>1
    <3>2. CASE base # None
      BY <1>1, <3>2 DEF UsageInv, CountInv
    <3> QED  BY <3>1, <3>2
  <2>4. PICK d : d = IF s.row.synced THEN Delta(s.row.up, feed.use) ELSE 0
    OBVIOUS
  <2>5. d \in Nat /\ counted + d <= grown - base'
    <3>1. CASE s.row.synced
      <4>1. base' = base /\ counted + Delta(s.row.up, feed.use) <= grown - base
        BY <1>1, <2>1, <3>1 DEF SyncCovered
      <4> QED  BY <1>4, <2>4, <3>1, <4>1, DeltaFacts
    <3>2. CASE ~s.row.synced
      BY <1>4, <1>8, <2>3, <2>4, <3>2
    <3> QED  BY <3>1, <3>2
  <2>6. Delta(feed.use, feed.use) = 0
    BY <1>4, DeltaFacts
  <2>7. counted + d + Delta(feed.use, feed.use) <= grown - base'
    BY <1>4, <1>8, <2>5, <2>6
  <2>8. counted' + (IF new.row.synced THEN Delta(new.row.up, new.got.use) ELSE 0) + Delta(new.got.use, feed'.use) <= grown' - base'
    BY <1>1, <1>7, <2>4, <2>7
  <2>9. SyncCovered(new)'
    BY <1>7, <2>8 DEF SyncCovered
  <2>10. base' # None => counted' <= grown' - base'
    BY <1>1, <2>3
  <2> QED  BY <2>1, <2>2, <2>9, <2>10 DEF CountInv
<1> QED  BY <1>9, <1>10 DEF UsageInv

LEMMA UsageFails ==
  ASSUME UsageInv, NEW s \in syncs, FetchFails(s)
  PROVE  UsageInv'
<1>1. /\ s.pc = "fetch" /\ UNCHANGED <<feed, counted, grown, base>> /\ syncs' = syncs \ {s}
      /\ ext' = IF ext = None THEN None ELSE [ext EXCEPT !.synced = TRUE]
      /\ overlaps' = (overlaps \/ (ext # None /\ ~ext.synced))
  BY DEF FetchFails
<1>2. ext # None => ext \in ExtRows
  BY UsageFacts
<1>3. ext' \in ExtRows \cup {None} /\ overlaps' \in BOOLEAN
  <2>1. ext' \in ExtRows \cup {None}
    BY <1>1, <1>2 DEF ExtRows
  <2>2. overlaps' \in BOOLEAN
    BY <1>1, UsageFacts, Zenon
  <2> QED  BY <2>1, <2>2
<1>4. SyncsTyped'
  BY <1>1, <1>3 DEF UsageInv, SyncsTyped
<1>5. CountInv'
  <2> SUFFICES ASSUME ~overlaps' PROVE CountInv'
    BY DEF CountInv
  <2>1. ~overlaps /\ (ext # None => ext.synced)
    BY <1>1, <1>2 DEF ExtRows
  <2>2. ext' = ext
    <3>1. ext # None => [ext EXCEPT !.synced = TRUE] = ext
      BY <1>2, <2>1 DEF ExtRows
    <3> QED  BY <1>1, <3>1
  <2>3. syncs' = {} /\ SyncCovered(s)
    BY <1>1, <2>1, SyncFacts
  <2>4. ext # None => counted + Delta(ext.up, feed.use) <= grown - base
    BY <1>1, <2>1, <2>3 DEF SyncCovered
  <2>5. base' = None => NotBegun'
    BY <1>1, <2>1, <2>2, <2>3 DEF UsageInv, CountInv, NotBegun
  <2> QED  BY <1>1, <2>1, <2>2, <2>3, <2>4, <2>5 DEF UsageInv, CountInv
<1> QED  BY <1>4, <1>5 DEF UsageInv

(* Once the feed is there: the nodes, the usage, the row. *)
LEMMA UsageApplied ==
  ASSUME UsageInv, NEW s \in syncs, ReplaceExternalNodes(s) \/ AddUsage(s) \/ RecordExternalSync(s)
  PROVE  UsageInv'
<1>1. /\ s.pc \in {"nodes", "usage", "record"} /\ UNCHANGED <<feed, overlaps, grown, base>>
  BY DEF ReplaceExternalNodes, AddUsage, RecordExternalSync
<1>2. /\ feed.use \in Nat /\ counted \in Nat /\ grown \in Nat /\ s.row.up \in Nat /\ s.row.synced \in BOOLEAN
      /\ s.got.use \in Nat /\ (base # None => base \in Nat /\ base <= grown) /\ s.pc # "fetch"
  BY <1>1, UsageFacts, SyncFacts
<1>3. PICK d : d = IF s.row.synced THEN Delta(s.row.up, s.got.use) ELSE 0
  OBVIOUS
<1>4. d \in Nat /\ Delta(s.got.use, feed.use) \in Nat
  BY <1>2, <1>3, DeltaFacts
<1>5. PICK u, r : u = [s EXCEPT !.pc = "usage"] /\ r = [s EXCEPT !.pc = "record"]
  OBVIOUS
<1>6. PICK N : s \in [pc : SyncSteps, row : ExtRows, got : GotRows, n : N]
  BY SyncFacts
<1>7. u.pc = "usage" /\ u.row = s.row /\ u.got = s.got /\ r.pc = "record" /\ r.row = s.row /\ r.got = s.got
  BY <1>5, <1>6
<1>8. ASSUME ~overlaps
      PROVE  /\ \A t \in syncs : t = s /\ base # None /\ base \in Nat /\ counted <= grown - base
             /\ s.pc \in {"nodes", "usage"} => counted + d + Delta(s.got.use, feed.use) <= grown - base
             /\ s.pc = "record" => counted + Delta(s.got.use, feed.use) <= grown - base
  <2>1. SyncCovered(s) /\ base # None /\ \A t \in syncs : t = s
    BY <1>2, <1>8, SyncFacts
  <2> QED  BY <1>2, <1>3, <1>8, <2>1 DEF SyncCovered, UsageInv, CountInv
<1>9. CASE ReplaceExternalNodes(s)
  <2>1. s.pc = "nodes" /\ UNCHANGED <<ext, counted>> /\ ext \in ExtRows \cup {None}
    BY <1>9 DEF ReplaceExternalNodes, UsageInv, SyncsTyped
  <2>2. CASE ext = None
    <3>1. syncs' = (syncs \ {s}) \cup {}
      BY <1>9, <2>2 DEF ReplaceExternalNodes
    <3>2. SyncsTyped'
      BY <1>1, <1>2, <2>1, <3>1, SyncsNext
    <3>3. CountInv'
      <4> SUFFICES ASSUME ~overlaps PROVE CountInv'
        BY <1>1 DEF CountInv
      <4>1. syncs' = {} /\ base' # None /\ counted' <= grown' - base' /\ ext' = None
        BY <1>1, <1>8, <2>1, <2>2, <3>1
      <4> QED  BY <4>1 DEF CountInv
    <3> QED  BY <3>2, <3>3 DEF UsageInv
  <2>3. CASE ext # None
    <3>1. syncs' = (syncs \ {s}) \cup {u}
      BY <1>5, <1>9, <2>3 DEF ReplaceExternalNodes
    <3>2. SyncsTyped'
      BY <1>1, <1>2, <1>5, <2>1, <3>1, SyncsNext
    <3>3. CountInv'
      <4> SUFFICES ASSUME ~overlaps PROVE CountInv'
        BY <1>1 DEF CountInv
      <4>1. syncs' = {u} /\ base' # None /\ counted' <= grown' - base'
        BY <1>1, <1>8, <2>1, <3>1
      <4>2. counted' + (IF u.row.synced THEN Delta(u.row.up, u.got.use) ELSE 0) + Delta(u.got.use, feed'.use) <= grown' - base'
        BY <1>1, <1>3, <1>7, <1>8, <2>1
      <4>3. SyncCovered(u)'
        BY <1>7, <4>2 DEF SyncCovered
      <4> QED  BY <4>1, <4>3 DEF CountInv
    <3> QED  BY <3>2, <3>3 DEF UsageInv
  <2> QED  BY <2>2, <2>3
<1>10. CASE AddUsage(s)
  <2>1. s.pc = "usage" /\ UNCHANGED ext /\ ext \in ExtRows \cup {None} /\ syncs' = (syncs \ {s}) \cup {r}
    BY <1>5, <1>10 DEF AddUsage, UsageInv, SyncsTyped
  <2>2. counted' = counted + d
    <3>1. counted' = IF s.row.synced THEN counted + Delta(s.row.up, s.got.use) ELSE counted
      BY <1>10 DEF AddUsage, Delta
    <3> QED  BY <1>2, <1>3, <3>1
  <2>3. SyncsTyped'
    <3>1. counted' \in Nat
      BY <1>2, <1>4, <2>2
    <3> QED  BY <1>1, <1>2, <1>5, <2>1, <3>1, SyncsNext
  <2>4. CountInv'
    <3> SUFFICES ASSUME ~overlaps PROVE CountInv'
      BY <1>1 DEF CountInv
    <3>1. syncs' = {r} /\ base' # None /\ base \in Nat
      BY <1>1, <1>8, <2>1
    <3>2. counted' + Delta(s.got.use, feed.use) <= grown - base
      BY <1>8, <2>1, <2>2
    <3>3. counted' <= grown' - base'
      BY <1>1, <1>2, <1>4, <2>2, <3>1, <3>2
    <3>4. counted' + Delta(r.got.use, feed'.use) <= grown' - base'
      BY <1>1, <1>7, <3>2
    <3>5. SyncCovered(r)'
      BY <1>7, <3>4 DEF SyncCovered
    <3> QED  BY <3>1, <3>3, <3>5 DEF CountInv
  <2> QED  BY <2>3, <2>4 DEF UsageInv
<1>11. CASE RecordExternalSync(s)
  <2>1. /\ s.pc = "record" /\ syncs' = (syncs \ {s}) \cup {} /\ UNCHANGED counted
        /\ ext' = IF ext = None THEN None ELSE [up |-> s.got.use, synced |-> TRUE]
    BY <1>11 DEF RecordExternalSync
  <2>2. ext' \in ExtRows \cup {None} /\ (ext' # None => ext'.up = s.got.use)
    BY <1>2, <2>1 DEF ExtRows
  <2>3. SyncsTyped'
    BY <1>1, <1>2, <2>1, <2>2, SyncsNext
  <2>4. CountInv'
    <3> SUFFICES ASSUME ~overlaps PROVE CountInv'
      BY <1>1 DEF CountInv
    <3>1. syncs' = {} /\ base' # None /\ counted' <= grown' - base'
      BY <1>1, <1>8, <2>1
    <3>2. ext' # None => counted' + Delta(ext'.up, feed'.use) <= grown' - base'
      BY <1>1, <1>8, <2>1, <2>2
    <3> QED  BY <3>1, <3>2 DEF CountInv
  <2> QED  BY <2>3, <2>4 DEF UsageInv
<1> QED  BY <1>9, <1>10, <1>11

-----------------------------------------------------------------------------
LEMMA ImportStarts == ASSUME ImportInit PROVE ImportInv
<1>1. /\ feed = [names |-> {"x", "y"}, ver |-> 1, use |-> 1]
      /\ imported = {} /\ ext = [up |-> 0, synced |-> FALSE] /\ counted = 0 /\ syncs = {} /\ edit = None
      /\ pinned = {} /\ nextId = 1 /\ since = <<>> /\ given = <<>> /\ overlaps = FALSE /\ grown = 1 /\ base = None
  BY DEF ImportInit
<1>2. DOMAIN since = {} /\ DOMAIN given = {}
  BY <1>1
<1>3. NodesTyped /\ IdsInv
  BY <1>1, <1>2 DEF NodesTyped, IdsInv
<1>4. IdentityKept /\ NothingTaken
  BY <1>1, <1>2 DEF IdentityKept, NothingTaken
<1>5. feed \in FeedRows /\ IsFiniteSet(feed.names)
  <2>1. {"x", "y"} \in NameSets
    BY DEF NameSets, ImportNames
  <2>2. feed \in FeedRows /\ feed.names = {"x"} \cup {"y"}
    BY <1>1, <2>1 DEF FeedRows
  <2>3. IsFiniteSet({"x"} \cup {"y"})
    BY FS_Singleton, FS_AddElement
  <2> QED  BY <2>2, <2>3
<1>6. ext \in ExtRows /\ ~ext.synced
  BY <1>1 DEF ExtRows
<1>7. SyncsTyped
  <2>1. \E N : syncs \subseteq [pc : SyncSteps, row : ExtRows, got : GotRows, n : N]
    BY <1>1
  <2> QED  BY <1>1, <1>5, <1>6, <2>1 DEF SyncsTyped
<1>8. CountInv
  BY <1>1, <1>6 DEF CountInv, NotBegun
<1> QED  BY <1>3, <1>4, <1>7, <1>8 DEF ImportInv, IdentityInv, UsageInv

LEMMA ImportSteps == ASSUME ImportInv, ImportNext PROVE ImportInv'
<1>1. IdentityInv /\ UsageInv
  BY DEF ImportInv
<1>2. CASE CommitEdit \/ BeginEdit \/ PinNode \/ DeleteImported
  <2>1. IdentityInv'
    BY <1>1, <1>2, EditWritten, NodeEdits
  <2>2. UNCHANGED <<feed, ext, syncs, counted, grown, overlaps, base>>
    BY <1>2 DEF CommitEdit, BeginEdit, PinNode, DeleteImported
  <2> QED  BY <1>1, <2>1, <2>2, UsageUnchanged DEF ImportInv
<1>3. CASE DeleteExternal
  BY <1>1, <1>3, NodeEdits, UsageBegins DEF ImportInv
<1>4. CASE ProviderChanges \/ SyncExternal \/ \E s \in syncs : FetchFails(s) \/ FetchDone(s) \/ AddUsage(s) \/ RecordExternalSync(s)
  <2>1. UNCHANGED <<imported, nextId, edit, since, given, pinned>>
    BY <1>4 DEF ProviderChanges, SyncExternal, FetchFails, FetchDone, AddUsage, RecordExternalSync
  <2>2. UsageInv'
    BY <1>1, <1>4, UsageGrows, UsageBegins, UsageFails, UsageFetched, UsageApplied
  <2> QED  BY <1>1, <2>1, <2>2, IdentityUnchanged DEF ImportInv
<1>5. ASSUME NEW s \in syncs, ReplaceExternalNodes(s)
      PROVE  ImportInv'
  <2>1. UsageInv' /\ s.pc = "nodes" /\ UNCHANGED <<edit, given, pinned>>
    BY <1>1, <1>5, UsageApplied DEF ReplaceExternalNodes
  <2>2. s.got \in FeedRows /\ IsFiniteSet(s.got.names)
    BY <1>1, <2>1, SyncFacts
  <2>3. CASE ext = None
    <3>1. UNCHANGED <<imported, nextId, since>>
      BY <1>5, <2>3 DEF ReplaceExternalNodes
    <3> QED  BY <1>1, <2>1, <3>1, IdentityUnchanged DEF ImportInv
  <2>4. CASE ext # None
    <3>1. PICK got : got = s.got
      OBVIOUS
    <3>2. /\ imported' = NewNodes(got)
          /\ nextId' = nextId + Cardinality({x \in got.names : Existing(x) = {}})
          /\ since' = [x \in got.names |-> IF x \in DOMAIN since THEN since[x]
                                       ELSE (CHOOSE n \in NewNodes(got) : UpstreamName(n) = x).id]
      BY <1>5, <2>4, <3>1 DEF ReplaceExternalNodes
    <3>3. IdentityInv'
      BY <1>1, <2>1, <2>2, <3>1, <3>2, Renewed
    <3> QED  BY <2>1, <3>3 DEF ImportInv
  <2> QED  BY <2>3, <2>4
<1> QED  BY <1>2, <1>3, <1>4, <1>5 DEF ImportNext

LEMMA ImportStutters == ASSUME ImportInv, UNCHANGED importVars PROVE ImportInv'
  BY IdentityUnchanged, UsageUnchanged DEF ImportInv, importVars

LEMMA ImportMoves == ASSUME SvcNext PROVE ImportNext \/ UNCHANGED importVars
  BY DEF SvcNext, InSub, InAccess, InTrust, InFleet, InSup, InMeter, InNat, InServing, ImportNext

(* The inductive invariant of imported subscriptions: ids are unique and below the next *)
(* one, names of upstream nodes are unique, pinned nodes exist, and a pending difference *)
(* of the only running sync is covered by what the provider counted (subscription/sync). *)
THEOREM ImportsInvariance == SvcSpec => []ImportInv
<1>1. SvcInit => ImportInv
  BY ImportStarts DEF SvcInit
<1>2. ImportInv /\ [SvcNext]_svcVars => ImportInv'
  BY ImportMoves, ImportSteps, ImportStutters DEF svcVars
<1> QED  BY <1>1, <1>2, PTL DEF SvcSpec

(* For all feeds, edits, pins and failed syncs: a node keeps its identity while the      *)
(* feeds list it, the name it was given and a landing in use stay, and syncs that do not  *)
(* overlap never count more than the provider did (ReplaceExternalNodes, AddUsage).       *)
THEOREM ImportsAreSafe == SvcSpec => []ImportsSafe
<1>1. ImportInv => ImportsSafe
  BY DEF ImportInv, IdentityInv, UsageInv, CountInv, CountedOnce, ImportsSafe
<1> QED  BY <1>1, ImportsInvariance, PTL

-----------------------------------------------------------------------------
(* OpenRC supervision *)
LEMMA UnitNames == /\ Proxies = {"a", "b"} /\ Units = {"host", "guard", "a", "b"} /\ Helpers = {"host", "guard"}
                   /\ Proxies \subseteq Units /\ Helpers \subseteq Units
                   /\ "host" \notin Proxies /\ "guard" \notin Proxies
  BY DEF Proxies, Units, Helpers

LEMMA StopOrders ==
  /\ Head(StopOrder) = "guard" /\ Tail(StopOrder) = FromA /\ Len(StopOrder) = 4
  /\ Head(FromA) = "a" /\ Tail(FromA) = FromB /\ Len(FromA) = 3
  /\ Head(FromB) = "b" /\ Tail(FromB) = LastHost /\ Len(FromB) = 2
  /\ Head(LastHost) = "host" /\ Tail(LastHost) = <<>> /\ Len(LastHost) = 1
  BY DEF StopOrder, FromA, FromB, LastHost
LEMMA StopOrdersDiffer ==
  /\ StopOrder \notin {<<>>, FromA, FromB, LastHost}
  /\ FromA \notin {<<>>, FromB, LastHost}
  /\ FromB \notin {<<>>, LastHost} /\ LastHost # <<>>
<1>1. Len(<<>>) = 0  OBVIOUS
<1>2. 4 # 3 /\ 4 # 2 /\ 4 # 1 /\ 4 # 0 /\ 3 # 2 /\ 3 # 1 /\ 3 # 0 /\ 2 # 1 /\ 2 # 0 /\ 1 # 0  OBVIOUS
<1> QED  BY <1>1, <1>2, StopOrders, Zenon

LEMMA SupStarts == ASSUME SupInit PROVE SupInv
<1> USE UnitNames, SupAssumption DEF SupInit
<1>1. SupTyped
  <2>1. enabled \subseteq Proxies  OBVIOUS
  <2>2. sag \in SupAgents  BY DEF SupAgents, SupTodo, SupPhases, NoAgent
  <2>3. proc \in [Units -> Nat] /\ script \in [Units -> Nat] /\ home \in [Units -> {"none", "init", "host", "agent"}]
    OBVIOUS
  <2> QED  BY <2>1, <2>2, <2>3 DEF SupTyped
<1>2. SupAgentInv /\ StoppedInv  BY DEF SupAgentInv, StoppedInv, NoAgent
<1>3. WantedInv /\ KeptInv  BY DEF WantedInv, KeptInv, NoAgent
<1> QED  BY <1>1, <1>2, <1>3 DEF SupInv

LEMMA SupStutters == ASSUME SupInv, UNCHANGED supVars PROVE SupInv'
  BY DEF SupInv, SupTyped, SupAgentInv, StoppedInv, Gone, WantedInv, KeptInv, supVars

(* Steps of the agent that leave services alone *)
LEMMA SupAgentSteps == ASSUME SupInv, AgentStart \/ Look \/ SyncScripts \/ Record \/ CheckFirewall \/ WaitRunning \/ MarkAgentReady
                              \/ RefreshFails \/ AgentDies
                       PROVE SupInv'
<1> USE UnitNames, SupAssumption, StopOrdersDiffer
<1> SUFFICES ASSUME SupTyped, SupAgentInv, StoppedInv, WantedInv, KeptInv
             PROVE SupTyped' /\ SupAgentInv' /\ StoppedInv' /\ WantedInv' /\ KeptInv'
  BY DEF SupInv
<1>1. CASE AgentStart
  BY <1>1 DEF AgentStart, SupTyped, SupAgents, SupTodo, SupPhases, SupAgentInv, StoppedInv, WantedInv, KeptInv, Gone, NoAgent, InPhase, keepHost, keepServices
<1>2. CASE Look
  <2>1. sag.pc = "look" /\ UNCHANGED <<launcher, proc, home, script, receipt, aready, enabled, paused, owed>>
    BY <1>2 DEF Look, InPhase, keepHost, keepServices
  <2>2. sag = [pc |-> "look", todo |-> <<>>, units |-> {}, short |-> FALSE]
    BY <2>1 DEF SupAgentInv, NoAgent
  <2>3. /\ sag' \in SupAgents
        /\ \/ receipt # NoReceipt /\ sag'.pc = "sync" /\ sag'.units = receipt /\ sag'.short = FALSE
           \/ receipt = NoReceipt /\ sag'.pc = "sync" /\ sag'.units = {} /\ sag'.short = FALSE
           \/ receipt = NoReceipt /\ sag'.pc = "ensure" /\ sag'.units = {} /\ sag'.short = TRUE
           \/ receipt = NoReceipt /\ sag'.pc = "mark" /\ sag'.units = {} /\ sag'.short = FALSE
    <3>1. \/ receipt # NoReceipt /\ sag' = [sag EXCEPT !.pc = "sync", !.units = receipt]
          \/ receipt = NoReceipt /\ sag' = [sag EXCEPT !.pc = "sync"]
          \/ receipt = NoReceipt /\ sag' = [sag EXCEPT !.pc = "ensure", !.short = TRUE]
          \/ receipt = NoReceipt /\ sag' = [sag EXCEPT !.pc = "mark"]
      BY <1>2, Zenon DEF Look, Goto
    <3>2. receipt # NoReceipt => receipt \subseteq Proxies  BY DEF SupTyped
    <3> QED  BY <2>2, <3>1, <3>2 DEF SupAgents, SupTodo, SupPhases
  <2> QED  BY <2>1, <2>3 DEF SupTyped, SupAgentInv, StoppedInv, WantedInv, KeptInv
<1>3. CASE SyncScripts
  <2>1. sag' \in SupAgents /\ sag'.pc \in {"stop", "record"} /\ sag'.todo = StopOrder
        /\ sag'.units = sag.units /\ sag'.short = sag.short
        /\ (sag'.pc = "stop" <=> receipt # NoReceipt)
    BY <1>3 DEF SyncScripts, SupTyped, SupAgents, SupTodo, SupPhases
  <2>2. script' \in [Units -> Nat] /\ \A u \in Units : script'[u] <= launcher
    BY <1>3 DEF SyncScripts, Sync, SupTyped
  <2>3. sag.pc = "sync" /\ UNCHANGED <<launcher, proc, home, receipt, aready, enabled, paused, owed>>
    BY <1>3 DEF SyncScripts, InPhase, keepHost, keepServices
  <2> HIDE StopOrdersDiffer
  <2> QED  BY <2>1, <2>2, <2>3, StopOrdersDiffer DEF SupTyped, SupAgentInv, StoppedInv, WantedInv, KeptInv, Gone
<1>4. CASE Record
  <2>1. sag.pc = "record" /\ receipt' = Running /\ UNCHANGED <<launcher, proc, home, script, aready, enabled, paused, owed>>
    BY <1>4 DEF Record, InPhase, keepHost, keepServices
  <2>2. Running \subseteq enabled /\ Running \subseteq Proxies /\ Running # NoReceipt /\ receipt = NoReceipt
        /\ owed \subseteq Running /\ ~sag.short /\ sag.todo = StopOrder
    BY <2>1 DEF Running, WantedInv, KeptInv, SupTyped, SupAgentInv
  <2>3. sag' \in SupAgents /\ sag'.pc = "stop" /\ sag'.units = Running /\ sag'.short = FALSE /\ sag'.todo = StopOrder
    BY <1>4, <2>2 DEF Record, SupTyped, SupAgents, SupTodo, SupPhases
  <2> HIDE DEF Running
  <2> QED  BY <2>1, <2>2, <2>3 DEF SupTyped, SupAgentInv, StoppedInv, WantedInv, KeptInv
<1>5. CASE CheckFirewall \/ MarkAgentReady
  BY <1>5 DEF CheckFirewall, MarkAgentReady, SupTyped, SupAgents, SupTodo, SupPhases, SupAgentInv, StoppedInv, WantedInv, KeptInv, Gone, NoAgent, InPhase, Goto, keepHost, keepServices
<1>6. CASE WaitRunning
  BY <1>6 DEF WaitRunning, Due, SupTyped, SupAgents, SupTodo, SupPhases, SupAgentInv, StoppedInv, WantedInv, KeptInv, Gone, NoAgent, InPhase, Goto, keepHost, keepServices
<1>7. CASE RefreshFails \/ AgentDies
  <2>1. sag' = NoAgent /\ UNCHANGED <<launcher, proc, home, script, receipt, aready, enabled, paused, owed>>
    BY <1>7 DEF RefreshFails, AgentDies, keepHost, keepServices
  <2> QED BY <2>1 DEF SupTyped, SupAgents, SupTodo, SupPhases, SupAgentInv, StoppedInv, WantedInv, KeptInv, Gone, NoAgent
<1> QED  BY <1>1, <1>2, <1>3, <1>4, <1>5, <1>6, <1>7

LEMMA SupStopNext == ASSUME SupInv, StopNext PROVE SupInv'
<1> USE UnitNames, SupAssumption, StopOrdersDiffer
<1> SUFFICES ASSUME SupTyped, SupAgentInv, StoppedInv, WantedInv, KeptInv
             PROVE SupTyped' /\ SupAgentInv' /\ StoppedInv' /\ WantedInv' /\ KeptInv'
  BY DEF SupInv
<1> DEFINE h == Head(sag.todo)
<1>1. /\ sag.pc = "stop" /\ UNCHANGED <<launcher, enabled, paused, owed, script, receipt, aready, sleft>>
      /\ proc' = [proc EXCEPT ![h] = 0]
      /\ home' = [x \in Units |-> IF x = h \/ (h = "host" /\ home[x] = "host") THEN "none" ELSE home[x]]
      /\ sag' = [sag EXCEPT !.todo = Tail(@), !.pc = IF Len(sag.todo) = 1 THEN "ensure" ELSE @]
  BY DEF StopNext, Halt, InPhase, keepHost
<1>2. sag.todo \in {StopOrder, FromA, FromB, LastHost}
  BY <1>1 DEF SupTyped, SupAgents, SupTodo, SupAgentInv
<1>3. /\ h \in Units
      /\ sag.todo = StopOrder => h = "guard" /\ sag'.todo = FromA /\ sag'.pc = "stop"
      /\ sag.todo = FromA => h = "a" /\ sag'.todo = FromB /\ sag'.pc = "stop"
      /\ sag.todo = FromB => h = "b" /\ sag'.todo = LastHost /\ sag'.pc = "stop"
      /\ sag.todo = LastHost => h = "host" /\ sag'.todo = <<>> /\ sag'.pc = "ensure"
      /\ sag'.units = sag.units /\ sag'.short = sag.short
  <2>1. /\ sag'.pc = IF Len(sag.todo) = 1 THEN "ensure" ELSE sag.pc
        /\ sag'.todo = Tail(sag.todo) /\ sag'.units = sag.units /\ sag'.short = sag.short
    BY <1>1 DEF SupTyped, SupAgents
  <2>2. CASE sag.todo = StopOrder  BY <2>1, <2>2, <1>1, StopOrders, StopOrdersDiffer
  <2>3. CASE sag.todo = FromA  BY <2>1, <2>3, <1>1, StopOrders, StopOrdersDiffer
  <2>4. CASE sag.todo = FromB  BY <2>1, <2>4, <1>1, StopOrders, StopOrdersDiffer
  <2>5. CASE sag.todo = LastHost  BY <2>1, <2>5, <1>1, StopOrders, StopOrdersDiffer
  <2> QED  BY <1>2, <2>2, <2>3, <2>4, <2>5
<1>4. SupTyped' 
  <2>1. sag' \in SupAgents
    BY <1>1, <1>2, <1>3 DEF SupTyped, SupAgents, SupTodo, SupPhases
  <2> HIDE DEF h
  <2> QED  BY <1>1, <1>3, <2>1 DEF SupTyped
<1> HIDE DEF h
<1>5. SupAgentInv'  BY <1>1, <1>2, <1>3 DEF SupAgentInv
<1>6. StoppedInv'  BY <1>1, <1>2, <1>3 DEF SupTyped, StoppedInv, Gone
<1>7. WantedInv'  BY <1>1, <1>3 DEF SupTyped, WantedInv
<1>8. KeptInv'
  <2>1. CASE sag.todo = LastHost
    <3>1. Gone("a") /\ Gone("b")  BY <1>1, <2>1 DEF StoppedInv
    <3>2. receipt # NoReceipt \/ receipt = NoReceipt  OBVIOUS
    <3> QED  BY <1>1, <1>3, <2>1, <3>1 DEF SupTyped, KeptInv, Gone
  <2>2. CASE sag.todo # LastHost
    BY <1>1, <1>2, <1>3, <2>2 DEF SupTyped, KeptInv, SupAgentInv
  <2> QED  BY <2>1, <2>2
<1> QED  BY <1>4, <1>5, <1>6, <1>7, <1>8

(* The helpers come back; the proxies are not touched. *)
LEMMA SupEnsures == ASSUME SupInv, ensureManager \/ EnsureGuard PROVE SupInv'
<1> USE UnitNames, SupAssumption, StopOrdersDiffer
<1> SUFFICES ASSUME SupTyped, SupAgentInv, StoppedInv, WantedInv, KeptInv
             PROVE SupTyped' /\ SupAgentInv' /\ StoppedInv' /\ WantedInv' /\ KeptInv'
  BY DEF SupInv
<1>1. /\ UNCHANGED <<launcher, enabled, paused, owed, receipt, aready>>
      /\ \E x \in Helpers, g \in {"agent", "host"} :
           /\ script' = [script EXCEPT ![x] = launcher]
           /\ \/ UNCHANGED <<proc, home>>
              \/ /\ proc' = [proc EXCEPT ![x] = launcher]
                 /\ home' = [home EXCEPT ![x] = IF @ = "none" THEN g ELSE @]
  BY DEF ensureManager, EnsureGuard, installScript, keepHost, keepServices
<1>2. /\ sag' \in SupAgents /\ sag'.pc \in {"guard", "mark", "check"} /\ sag'.units = sag.units /\ sag'.short = sag.short
      /\ (sag'.pc = "mark" => sag.short) /\ (sag'.pc = "check" => ~sag.short)
  BY DEF ensureManager, EnsureGuard, Goto, SupTyped, SupAgents, SupPhases, SupAgentInv
<1>3. SupTyped'  BY <1>1, <1>2 DEF SupTyped
<1>4. SupAgentInv' /\ StoppedInv'  BY <1>1, <1>2 DEF SupAgentInv, StoppedInv
<1>5. \A u \in Proxies : proc'[u] = proc[u] /\ home'[u] = home[u]  BY <1>1 DEF SupTyped
<1>6. WantedInv' /\ KeptInv'  BY <1>1, <1>2, <1>5 DEF SupTyped, WantedInv, KeptInv
<1> QED  BY <1>3, <1>4, <1>6

(* A proxy is started by the refresh, by the agent or by the guard. *)
LEMMA SupStartSteps == ASSUME SupInv, NEW u \in Proxies, StartNext(u) \/ StartProxy(u) \/ GuardResume(u) PROVE SupInv'
<1> USE UnitNames, SupAssumption, StopOrdersDiffer
<1> SUFFICES ASSUME SupTyped, SupAgentInv, StoppedInv, WantedInv, KeptInv
             PROVE SupTyped' /\ SupAgentInv' /\ StoppedInv' /\ WantedInv' /\ KeptInv'
  BY DEF SupInv
<1>1. /\ UNCHANGED <<launcher, owed, receipt, aready>>
      /\ enabled' = enabled \cup {u} /\ paused' \subseteq paused
      /\ script' = script \/ script' = [script EXCEPT ![u] = launcher]
      /\ \E v \in {proc[u], launcher} : proc' = [proc EXCEPT ![u] = v] /\ (home[u] = "none" \/ proc[u] = 0 => v = launcher)
      /\ home' = [home EXCEPT ![u] = IF @ = "none" THEN "host" ELSE @]
  BY DEF StartNext, StartProxy, GuardResume, Launch, installScript, keepHost, WantedInv
<1>2. /\ sag' \in SupAgents /\ sag'.pc = sag.pc /\ sag'.units \subseteq sag.units /\ sag'.short = sag.short /\ sag'.todo = sag.todo
      /\ (sag'.pc = "look" => sag' = sag)
      /\ (sag.pc = "stop" => proc["guard"] # 0)
  BY DEF StartNext, StartProxy, GuardResume, InPhase, SupTyped, SupAgents, SupPhases
<1>3. SupTyped'  BY <1>1, <1>2 DEF SupTyped
<1>4. SupAgentInv'  BY <1>1, <1>2 DEF SupAgentInv
<1>5. StoppedInv'
  <2>1. sag.pc = "stop" => sag.todo = StopOrder  BY <1>2 DEF StoppedInv, Gone
  <2> QED  BY <2>1, <1>2 DEF StoppedInv
<1>6. WantedInv'  BY <1>1, <1>2 DEF SupTyped, WantedInv
<1>7. KeptInv'  BY <1>1 DEF SupTyped, KeptInv
<1> QED  BY <1>3, <1>4, <1>5, <1>6, <1>7

LEMMA SupStopSteps == ASSUME SupInv, NEW u \in Proxies, StopProxy(u) \/ GuardPause(u) PROVE SupInv'
<1> USE UnitNames, SupAssumption, StopOrdersDiffer
<1> SUFFICES ASSUME SupTyped, SupAgentInv, StoppedInv, WantedInv, KeptInv
             PROVE SupTyped' /\ SupAgentInv' /\ StoppedInv' /\ WantedInv' /\ KeptInv'
  BY DEF SupInv
<1>1. /\ UNCHANGED <<launcher, script, sag, receipt, aready>>
      /\ proc' = [proc EXCEPT ![u] = 0] /\ home' = [home EXCEPT ![u] = "none"]
      /\ owed' = owed \ {u}
  <2>1. /\ UNCHANGED <<launcher, script, sag, receipt, aready>> /\ owed' = owed \ {u} /\ Halt(u)
    BY DEF StopProxy, GuardPause
  <2>2. home' = [home EXCEPT ![u] = "none"]  BY <2>1 DEF Halt, SupTyped
  <2> QED  BY <2>1, <2>2 DEF Halt
<1>2. \/ enabled' = enabled /\ paused' = paused \cup {u} /\ u \in enabled
      \/ enabled' = enabled \ {u} /\ paused' = paused \ {u} /\ receipt = NoReceipt /\ sag.units = {}
  BY DEF StopProxy, GuardPause, InPhase, SupAgentInv, WantedInv
<1>3. SupTyped'
  <2>1. /\ proc' \in [Units -> Nat] /\ home' \in [Units -> {"none", "init", "host", "agent"}]
        /\ \A x \in Units : proc'[x] <= launcher
    BY <1>1 DEF SupTyped
  <2>2. enabled' \subseteq Proxies /\ paused' \subseteq Proxies /\ owed' \subseteq Proxies
    BY <1>1, <1>2 DEF SupTyped
  <2> QED  BY <1>1, <2>1, <2>2 DEF SupTyped
<1>4. SupAgentInv' /\ StoppedInv'  BY <1>1 DEF SupAgentInv, StoppedInv, Gone, SupTyped
<1>6. WantedInv' /\ KeptInv'  BY <1>1, <1>2 DEF SupTyped, WantedInv, KeptInv
<1> QED  BY <1>3, <1>4, <1>6

LEMMA SupWorldSteps == ASSUME SupInv, \/ HostReboot
                                      \/ \E rollback \in BOOLEAN : ReplaceLauncher(rollback)
                                      \/ \E u \in Units : Dies(u) \/ Respawn(u)
                       PROVE SupInv'
<1> USE UnitNames, SupAssumption, StopOrdersDiffer
<1> SUFFICES ASSUME SupTyped, SupAgentInv, StoppedInv, WantedInv, KeptInv
             PROVE SupTyped' /\ SupAgentInv' /\ StoppedInv' /\ WantedInv' /\ KeptInv'
  BY DEF SupInv
<1>0. NoAgent \in SupAgents /\ NoAgent.pc = "off" /\ NoAgent.units = {} /\ NoAgent.short = FALSE
  BY DEF NoAgent, SupAgents, SupPhases, SupTodo
<1>1. CASE HostReboot
  <2>1. /\ sag' = NoAgent /\ receipt' = NoReceipt /\ aready' = "none" /\ paused' = {} /\ owed' = {}
        /\ UNCHANGED <<launcher, script, enabled>>
        /\ proc' \in [Units -> Nat] /\ home' \in [Units -> {"none", "init"}]
        /\ \A u \in Units : /\ proc'[u] \in {0, launcher}
                            /\ (proc'[u] # 0 <=> home'[u] # "none")
                            /\ (proc'[u] # 0 => u \in Helpers \cup enabled)
    BY <1>1 DEF HostReboot, SupTyped
  <2>2. SupTyped'  BY <1>0, <2>1 DEF SupTyped
  <2> QED  BY <1>0, <2>1, <2>2 DEF SupTyped, SupAgentInv, StoppedInv, WantedInv, KeptInv
<1>2. ASSUME NEW b \in BOOLEAN, ReplaceLauncher(b) PROVE SupTyped' /\ SupAgentInv' /\ StoppedInv' /\ WantedInv' /\ KeptInv'
  <2>1. /\ sag' = NoAgent /\ launcher' = launcher + 1 /\ UNCHANGED <<proc, script, receipt, aready, enabled, paused>>
        /\ home' \in [Units -> {"none", "init", "host", "agent"}]
        /\ \A u \in Proxies : home'[u] = home[u]
        /\ owed' = IF receipt = NoReceipt THEN owed \cup Running ELSE owed
    BY <1>2 DEF ReplaceLauncher, SupTyped, KeptInv
  <2>2. SupTyped'
    <3>1. launcher' \in Nat \ {0} /\ \A u \in Units : proc'[u] <= launcher' /\ script'[u] <= launcher'
      BY <2>1 DEF SupTyped
    <3>2. owed' \subseteq Proxies  BY <2>1 DEF SupTyped, Running
    <3> QED  BY <1>0, <2>1, <3>1, <3>2 DEF SupTyped
  <2> QED  BY <1>0, <2>1, <2>2 DEF SupTyped, SupAgentInv, StoppedInv, WantedInv, KeptInv, Running
<1>3. ASSUME NEW u \in Units, Dies(u) PROVE SupTyped' /\ SupAgentInv' /\ StoppedInv' /\ WantedInv' /\ KeptInv'
  BY <1>3 DEF Dies, SupTyped, SupAgentInv, StoppedInv, WantedInv, KeptInv, Gone
<1>4. ASSUME NEW u \in Units, Respawn(u) PROVE SupTyped' /\ SupAgentInv' /\ StoppedInv' /\ WantedInv' /\ KeptInv'
  BY <1>4 DEF Respawn, keepHost, SupTyped, SupAgentInv, StoppedInv, WantedInv, KeptInv, Gone
<1> QED  BY <1>1, <1>2, <1>3, <1>4

LEMMA SupSteps == ASSUME SupInv, SupNext PROVE SupInv'
  BY SupAgentSteps, SupStopNext, SupEnsures, SupStartSteps, SupStopSteps, SupWorldSteps DEF SupNext

LEMMA SupHolds == ASSUME SupInv PROVE SupervisorSafe
<1> USE UnitNames DEF SupInv, KeptInv, WantedInv, SupTyped
<1>1. SupTypeOK  BY DEF SupTypeOK
<1>2. \A u \in Running : home[u] # "none" /\ u \in enabled  BY DEF Running
<1>3. AgentReady => owed \subseteq Running  BY DEF AgentReady, Running
<1> QED  BY <1>1, <1>2, <1>3 DEF SupervisorSafe

-----------------------------------------------------------------------------
(* The byte counter *)
LEMMA RemoverSets == /\ AllNames # {} /\ TxAndMap # {} /\ {"map"} # {} /\ AllNames # TxAndMap /\ AllNames # {"map"} /\ TxAndMap # {"map"}
                     /\ AllNames \ {"rx"} = TxAndMap /\ TxAndMap \ {"tx"} = {"map"} /\ {"map"} \ {"map"} = {}
                     /\ "rx" \in AllNames /\ "rx" \notin TxAndMap /\ "tx" \in TxAndMap /\ "rx" \notin {"map"} /\ "tx" \notin {"map"}
  BY DEF AllNames, TxAndMap

LEMMA MeterStarts == ASSUME MeterInit PROVE MeterInv
<1> USE DEF MeterInit
<1>1. Zero \in Bytes  BY DEF Zero, Bytes
<1>2. MeterTyped  BY <1>1 DEF MeterTyped, NoPin, NoReader, MeterPins, MeterReaders
<1>3. PinInv /\ ReaderInv  BY RemoverSets DEF PinInv, ReaderInv, NoPin, NoReader
<1>4. ReadingsInv /\ ReadingsNowInv  BY FS_EmptySet DEF ReadingsInv, ReadingsNowInv
<1> QED  BY <1>2, <1>3, <1>4 DEF MeterInv

LEMMA MeterStutters == ASSUME MeterInv, UNCHANGED meterVars PROVE MeterInv'
<1>1. UNCHANGED <<pin, cnt, ino, mboot, maker, remover, alive, reader, passed, readings>>  BY DEF meterVars
<1>2. MeterTyped' /\ PinInv' /\ ReaderInv'  BY <1>1 DEF MeterInv, MeterTyped, PinInv, ReaderInv
<1>3. ReadingsInv' /\ ReadingsNowInv'
  BY <1>1 DEF MeterInv, ReadingsInv, ReadingsNowInv, ReadingNow, ReadingKnown
<1> QED  BY <1>2, <1>3 DEF MeterInv

(* Readings stay behind as long as nothing is counted backwards. *)
LEMMA ReadingsKept ==
  ASSUME MeterInv, UNCHANGED <<readings, mboot>>, ino' \in Nat, ino <= ino',
         pin'.map # pin.map => pin'.map = 0 \/ pin'.map > ino,
         pin'.map = pin.map => passed' \in Bytes /\ \A d \in Dirs : passed[d] <= passed'[d],
         reader'.at # "-" => (reader.at # "-" /\ reader'.from = reader.from) \/ reader'.from = passed,
         pin'.map # pin.map => reader'.at = "-",
         pin'.map \in Nat
  PROVE  ReadingsInv' /\ ReadingsNowInv'
<1>1. ReadingsInv'  BY DEF MeterInv, ReadingsInv
<1>2. SUFFICES ASSUME NEW r \in readings PROVE ReadingKnown(r)' /\ ReadingNow(r)'
  BY <1>1 DEF ReadingsNowInv
<1>3. r \in MeterReadings /\ ReadingKnown(r) /\ ReadingNow(r)  BY DEF MeterInv, ReadingsInv, ReadingsNowInv
<1>4. r.epoch[1] \in Nat /\ r.epoch[2] \in Nat /\ r.to \in Bytes  BY <1>3 DEF MeterReadings
<1>5. ino \in Nat /\ mboot \in Nat /\ pin.map \in Nat /\ passed \in Bytes /\ reader.from \in Bytes
  BY DEF MeterInv, MeterTyped, MeterPins, MeterReaders
<1>6. ReadingKnown(r)'  BY <1>3, <1>4, <1>5 DEF ReadingKnown
<1>7. CASE pin'.map = pin.map
  <2>1. SUFFICES ASSUME r.epoch[1] = mboot, r.epoch[2] = pin.map, NEW d \in Dirs
                 PROVE  r.to[d] <= passed'[d] /\ (reader'.at # "-" => r.to[d] <= reader'.from[d])
    BY <1>6, <1>7 DEF ReadingNow
  <2>2. r.to[d] <= passed[d] /\ (reader.at # "-" => r.to[d] <= reader.from[d])  BY <1>3, <2>1 DEF ReadingNow
  <2>3. r.to[d] \in Nat /\ passed[d] \in Nat /\ passed'[d] \in Nat  BY <1>4, <1>5, <1>7 DEF Bytes
  <2> QED  BY <1>7, <2>2, <2>3
<1>8. CASE pin'.map # pin.map
  <2>1. ~(r.epoch[1] = mboot /\ r.epoch[2] = pin'.map)  BY <1>3, <1>4, <1>5, <1>8 DEF ReadingKnown
  <2> QED  BY <1>6, <2>1 DEF ReadingNow
<1> QED  BY <1>7, <1>8

LEMMA MeterCreates == ASSUME MeterInv, NEW c \in Creators, EnsureMeter(c) \/ CreatorDies(c) PROVE MeterInv'
<1> USE RemoverSets
<1>1. /\ UNCHANGED <<pin, cnt, passed, reader, readings, ino, mboot, remover, alive>>
      /\ \E x \in {"map", "-"} : maker' = [maker EXCEPT ![c] = x] /\ (x = "map" => remover = {})
  BY DEF EnsureMeter, CreatorDies, keepCounts, keepReading
<1>2. MeterTyped' /\ PinInv' /\ ReaderInv'  BY <1>1 DEF MeterInv, MeterTyped, PinInv, ReaderInv
<1>3. ReadingsInv' /\ ReadingsNowInv'
  BY <1>1 DEF MeterInv, ReadingsInv, ReadingsNowInv, ReadingNow, ReadingKnown
<1> QED  BY <1>2, <1>3 DEF MeterInv

LEMMA MeterPinsMap == ASSUME MeterInv, NEW c \in Creators, PinMap(c) PROVE MeterInv'
<1> USE RemoverSets
<1>1. /\ maker[c] = "map" /\ maker' = [maker EXCEPT ![c] = "rx"] /\ UNCHANGED <<reader, readings, mboot, remover, alive>>
      /\ (pin.map # 0 => UNCHANGED <<cnt, passed, pin, ino>>)
      /\ (pin.map = 0 => /\ ino' = ino + 1 /\ pin' = [pin EXCEPT !.map = ino + 1] /\ cnt' = Zero /\ passed' = Zero)
  BY DEF PinMap, keepCounts, keepReading
<1>2. Zero \in Bytes  BY DEF Zero, Bytes
<1>3. pin \in MeterPins /\ ino \in Nat /\ pin.map \in Nat  BY DEF MeterInv, MeterTyped, MeterPins
<1>4. /\ pin' \in MeterPins /\ pin'.rx = pin.rx /\ pin'.tx = pin.tx /\ pin'.map # 0 /\ ino' \in Nat /\ ino <= ino'
      /\ pin'.map <= ino'
      /\ (pin'.map # pin.map => pin.map = 0 /\ pin'.map > ino)
      /\ (pin.map # 0 => pin' = pin)
      /\ pin'.map \in Nat
  BY <1>1, <1>3 DEF MeterInv, PinInv, MeterPins
<1>5. MeterTyped'  BY <1>1, <1>2, <1>4 DEF MeterInv, MeterTyped
<1>6. PinInv'  BY <1>1, <1>4 DEF MeterInv, MeterTyped, PinInv
<1>7. reader.at # "-" => pin.map # 0  BY DEF MeterInv, ReaderInv, PinInv
<1>8. ReaderInv'  BY <1>1, <1>7 DEF MeterInv, ReaderInv
<1>9. pin'.map = pin.map => passed' \in Bytes /\ \A d \in Dirs : passed[d] <= passed'[d]
  BY <1>1, <1>4 DEF MeterInv, MeterTyped, Bytes
<1>10. ReadingsInv' /\ ReadingsNowInv'
  BY <1>1, <1>4, <1>7, <1>9, ReadingsKept
<1> QED  BY <1>5, <1>6, <1>8, <1>10 DEF MeterInv

LEMMA MeterPinsLink == ASSUME MeterInv, NEW c \in Creators, PinLink(c) PROVE MeterInv'
<1> USE RemoverSets
<1>0. maker[c] = "rx" \/ maker[c] = "tx"  BY DEF PinLink, Dirs
<1>1. /\ pin' = [pin EXCEPT ![maker[c]] = TRUE] /\ UNCHANGED <<reader, readings, mboot, remover, alive, cnt, passed, ino>>
      /\ maker' = [maker EXCEPT ![c] = IF @ = "rx" THEN "tx" ELSE IF c = "launch" THEN "exec" ELSE "-"]
  BY DEF PinLink, keepCounts, keepReading
<1>2. /\ pin' \in MeterPins /\ pin'.map = pin.map /\ pin'.map \in Nat
      /\ (pin.rx => pin'.rx) /\ (pin.tx => pin'.tx)
      /\ (maker[c] = "rx" => pin'.rx /\ pin'.tx = pin.tx) /\ (maker[c] = "tx" => pin'.tx /\ pin'.rx = pin.rx)
  <2>1. CASE maker[c] = "rx"
    <3>1. pin' = [pin EXCEPT !.rx = TRUE]  BY <1>1, <2>1
    <3> QED  BY <3>1, <2>1 DEF MeterInv, MeterTyped, MeterPins
  <2>2. CASE maker[c] = "tx"
    <3>1. pin' = [pin EXCEPT !.tx = TRUE]  BY <1>1, <2>2
    <3> QED  BY <3>1, <2>2 DEF MeterInv, MeterTyped, MeterPins
  <2> QED  BY <1>0, <2>1, <2>2
<1>3. MeterTyped'  BY <1>1, <1>2 DEF MeterInv, MeterTyped
<1>4. PinInv' /\ ReaderInv'  BY <1>0, <1>1, <1>2 DEF MeterInv, MeterTyped, PinInv, ReaderInv
<1>5. ReadingsInv' /\ ReadingsNowInv'
  BY <1>1, <1>2 DEF MeterInv, ReadingsInv, ReadingsNowInv, ReadingNow, ReadingKnown
<1> QED  BY <1>3, <1>4, <1>5 DEF MeterInv

LEMMA MeterLives == ASSUME MeterInv, ExecProxy \/ ProxyEnds PROVE MeterInv'
<1> USE RemoverSets
<1>1. /\ UNCHANGED <<pin, cnt, passed, reader, readings, ino, mboot, remover>> /\ alive' \in BOOLEAN
      /\ \/ alive' = FALSE /\ maker' = maker
         \/ maker["launch"] = "exec" /\ maker' = [maker EXCEPT !["launch"] = "-"]
  BY DEF ExecProxy, ProxyEnds, keepCounts, keepReading
<1>2. MeterTyped' /\ PinInv' /\ ReaderInv'  BY <1>1 DEF MeterInv, MeterTyped, PinInv, ReaderInv, Creators
<1>3. ReadingsInv' /\ ReadingsNowInv'
  BY <1>1 DEF MeterInv, ReadingsInv, ReadingsNowInv, ReadingNow, ReadingKnown
<1> QED  BY <1>2, <1>3 DEF MeterInv

LEMMA MeterPackets == ASSUME MeterInv, NEW d \in Dirs, Packet(d) PROVE MeterInv'
<1> USE RemoverSets
<1>1. /\ alive /\ passed' = [passed EXCEPT ![d] = @ + 1] /\ cnt' = [cnt EXCEPT ![d] = IF pin[d] THEN @ + 1 ELSE @]
      /\ UNCHANGED <<pin, reader, readings, ino, mboot, maker, remover, alive>>
  BY DEF Packet, keepReading
<1>2. pin["rx"] /\ pin["tx"] /\ (d = "rx" \/ d = "tx")  BY <1>1 DEF MeterInv, PinInv, Dirs
<1>3. pin[d]  BY <1>2
<1>4. cnt' = passed' /\ passed' \in Bytes /\ \A e \in Dirs : passed[e] <= passed'[e]
  BY <1>1, <1>3 DEF MeterInv, MeterTyped, PinInv, Bytes
<1>5. MeterTyped' /\ PinInv'  BY <1>1, <1>4 DEF MeterInv, MeterTyped, PinInv
<1>6. passed \in Bytes /\ reader.from \in Bytes /\ reader.val \in Bytes /\ ino \in Nat /\ pin.map \in Nat
  BY DEF MeterInv, MeterTyped, MeterReaders, MeterPins
<1>7. ReaderInv'  BY <1>1, <1>4, <1>6 DEF MeterInv, ReaderInv, Bytes, Dirs
<1>8. ReadingsInv' /\ ReadingsNowInv'  BY <1>1, <1>4, <1>6, ReadingsKept
<1> QED  BY <1>5, <1>7, <1>8 DEF MeterInv

LEMMA MeterRemoves == ASSUME MeterInv, RemoveMeter \/ RemoverDies PROVE MeterInv'
<1> USE RemoverSets
<1>1. /\ UNCHANGED <<pin, cnt, passed, reader, readings, ino, mboot, maker, alive>>
      /\ \/ remover' = AllNames /\ ~alive /\ ~Locked /\ reader.at = "-"
         \/ remover' = {}
  BY DEF RemoveMeter, RemoverDies, keepCounts, keepReading, AllNames
<1>2. MeterTyped' /\ PinInv' /\ ReaderInv'  BY <1>1 DEF MeterInv, MeterTyped, PinInv, ReaderInv, Locked
<1>3. ReadingsInv' /\ ReadingsNowInv'
  BY <1>1 DEF MeterInv, ReadingsInv, ReadingsNowInv, ReadingNow, ReadingKnown
<1> QED  BY <1>2, <1>3 DEF MeterInv

LEMMA MeterUnpins == ASSUME MeterInv, Unpin PROVE MeterInv'
<1> USE RemoverSets
<1>0. /\ UNCHANGED <<cnt, passed, reader, readings, ino, mboot, maker, alive>> /\ remover # {}
  BY DEF Unpin, keepCounts, keepReading
<1>1. \/ remover = AllNames /\ pin' = [pin EXCEPT !.rx = FALSE] /\ remover' = TxAndMap
      \/ remover = TxAndMap /\ pin' = [pin EXCEPT !.tx = FALSE] /\ remover' = {"map"}
      \/ remover = {"map"} /\ pin' = [pin EXCEPT !.map = 0] /\ remover' = {}
  <2>1. remover \in {AllNames, TxAndMap, {"map"}}  BY <1>0 DEF MeterInv, MeterTyped
  <2> QED  BY <2>1 DEF Unpin
<1>2. /\ pin' \in MeterPins /\ pin'.map \in {0, pin.map} /\ pin'.map \in Nat
      /\ (remover = AllNames => ~pin'.rx /\ pin'.tx = pin.tx /\ pin'.map = pin.map)
      /\ (remover = TxAndMap => ~pin'.tx /\ pin'.rx = pin.rx /\ pin'.map = pin.map)
      /\ (remover = {"map"} => pin'.tx = pin.tx /\ pin'.rx = pin.rx)
  <2>1. CASE remover = AllNames
    <3>1. pin' = [pin EXCEPT !.rx = FALSE]  BY <1>1, <2>1
    <3>2. pin \in MeterPins  BY DEF MeterInv, MeterTyped
    <3>3. pin'.rx = FALSE /\ pin'.tx = pin.tx /\ pin'.map = pin.map /\ pin' \in MeterPins /\ pin'.map \in Nat
      BY <3>1, <3>2 DEF MeterPins
    <3> QED  BY <2>1, <3>3
  <2>2. CASE remover = TxAndMap
    <3>1. pin' = [pin EXCEPT !.tx = FALSE]  BY <1>1, <2>2
    <3>2. pin \in MeterPins  BY DEF MeterInv, MeterTyped
    <3>3. pin'.tx = FALSE /\ pin'.rx = pin.rx /\ pin'.map = pin.map /\ pin' \in MeterPins /\ pin'.map \in Nat
      BY <3>1, <3>2 DEF MeterPins
    <3> QED  BY <2>2, <3>3
  <2>3. CASE remover = {"map"}  BY <1>1, <2>3 DEF MeterInv, MeterTyped, MeterPins
  <2> QED  BY <1>1, <2>1, <2>2, <2>3
<1>3. MeterTyped' /\ ReaderInv'  BY <1>0, <1>1, <1>2 DEF MeterInv, MeterTyped, ReaderInv, PinInv
<1>4. PinInv'  BY <1>0, <1>1, <1>2 DEF MeterInv, MeterTyped, PinInv
<1>5. ReadingsInv' /\ ReadingsNowInv'
  BY <1>0, <1>2, ReadingsKept DEF MeterInv, MeterTyped, PinInv, Bytes
<1> QED  BY <1>3, <1>4, <1>5 DEF MeterInv

LEMMA MeterReadsLinks == ASSUME MeterInv, ReadLinks PROVE MeterInv'
<1> USE RemoverSets
<1>1. /\ pin.rx /\ pin.tx /\ reader' = [at |-> "rx", val |-> Zero, from |-> passed]
      /\ UNCHANGED <<pin, cnt, passed, readings, ino, mboot, maker, remover, alive>> /\ remover = {}
  BY DEF ReadLinks, keepCounts
<1>2. Zero \in Bytes  BY DEF Zero, Bytes
<1>3. MeterTyped' /\ PinInv' /\ ReaderInv'
  BY <1>1, <1>2 DEF MeterInv, MeterTyped, PinInv, ReaderInv, MeterReaders, Bytes
<1>4. ReadingsInv' /\ ReadingsNowInv'
  BY <1>1, ReadingsKept DEF MeterInv, MeterTyped, MeterPins, Bytes
<1> QED  BY <1>3, <1>4 DEF MeterInv

LEMMA MeterReadsSlot == ASSUME MeterInv, ReadSlot PROVE MeterInv'
<1> USE RemoverSets
<1>0. /\ UNCHANGED <<pin, cnt, passed, readings, ino, mboot, maker, remover, alive>>
      /\ (reader.at = "rx" \/ reader.at = "tx")
      /\ reader' = [reader EXCEPT !.val[reader.at] = cnt[reader.at], !.at = IF @ = "rx" THEN "tx" ELSE "stat"]
  BY DEF ReadSlot, keepCounts, Dirs
<1>1. /\ reader' \in MeterReaders /\ reader'.from = reader.from /\ reader'.at # "-"
      /\ (reader.at = "rx" => reader'.at = "tx" /\ reader'.val["rx"] = passed["rx"])
      /\ (reader.at = "tx" => reader'.at = "stat" /\ reader'.val["tx"] = passed["tx"] /\ reader'.val["rx"] = reader.val["rx"])
  BY <1>0 DEF MeterInv, MeterTyped, MeterReaders, PinInv, Bytes, Dirs
<1>2. MeterTyped' /\ PinInv'  BY <1>0, <1>1 DEF MeterInv, MeterTyped, PinInv
<1>3. passed \in Bytes /\ reader.from \in Bytes /\ reader.val \in Bytes  BY DEF MeterInv, MeterTyped, MeterReaders
<1>4. ReaderInv'  BY <1>0, <1>1, <1>3 DEF MeterInv, ReaderInv, Bytes, Dirs
<1>5. ReadingsInv' /\ ReadingsNowInv'
  BY <1>0, <1>1, ReadingsKept DEF MeterInv, MeterTyped, MeterPins, Bytes
<1> QED  BY <1>2, <1>4, <1>5 DEF MeterInv

LEMMA MeterReadsEpoch == ASSUME MeterInv, ReadEpoch PROVE MeterInv'
<1> USE RemoverSets
<1>a. PICK new : new = [n |-> Cardinality(readings), epoch |-> <<mboot, pin.map>>, val |-> reader.val, from |-> reader.from, to |-> passed]
  OBVIOUS
<1>0. /\ UNCHANGED <<pin, cnt, passed, ino, mboot, maker, remover, alive>>
      /\ reader.at = "stat" /\ reader' = NoReader /\ pin.map # 0 /\ readings' = readings \cup {new}
  BY <1>a DEF ReadEpoch, MeterEpoch, keepCounts
<1>1. NoReader \in MeterReaders /\ NoReader.at = "-"  BY DEF NoReader, MeterReaders, Zero, Bytes
<1>2. MeterTyped' /\ PinInv' /\ ReaderInv'  BY <1>0, <1>1 DEF MeterInv, MeterTyped, PinInv, ReaderInv
<1>3. /\ passed \in Bytes /\ reader.from \in Bytes /\ reader.val \in Bytes /\ mboot \in Nat /\ pin.map \in Nat /\ ino \in Nat
      /\ Cardinality(readings) \in Nat /\ IsFiniteSet(readings) /\ readings \subseteq MeterReadings
  BY FS_CardinalityType DEF MeterInv, MeterTyped, MeterReaders, MeterPins, ReadingsInv
<1>4. /\ new \in MeterReadings /\ new.n = Cardinality(readings) /\ new.epoch = <<mboot, pin.map>> /\ new.val = reader.val
      /\ new.from = reader.from /\ new.to = passed /\ new.epoch[1] = mboot /\ new.epoch[2] = pin.map
  BY <1>a, <1>3 DEF MeterReadings
<1>5. new \notin readings
  <2>1. SUFFICES ASSUME new \in readings PROVE FALSE  OBVIOUS
  <2>2. new.n < Cardinality(readings)  BY <2>1 DEF MeterInv, ReadingsInv
  <2> QED  BY <1>3, <1>4, <2>2
<1>6. IsFiniteSet(readings') /\ Cardinality(readings') = Cardinality(readings) + 1
  BY <1>0, <1>3, <1>5, FS_AddElement
<1>7. ReadingExact(new)
  BY <1>0, <1>4 DEF MeterInv, ReaderInv, ReadingExact, Dirs
<1>8. \A r \in readings : r.n < Cardinality(readings) /\ ReadingExact(r) /\ r.n \in Nat /\ r \in MeterReadings
                          /\ ReadingKnown(r) /\ ReadingNow(r)
  BY <1>3 DEF MeterInv, ReadingsInv, ReadingsNowInv, MeterReadings
<1>9. \A r \in readings' : r.n < Cardinality(readings') /\ ReadingExact(r)
  BY <1>0, <1>3, <1>4, <1>6, <1>7, <1>8
<1>10. \A r \in readings : ReadingsInOrder(r, new) /\ ReadingsInOrder(new, r)
  <2>1. TAKE r \in readings
  <2>2. ReadingsInOrder(r, new)  BY <1>0, <1>4, <1>8 DEF ReadingsInOrder, ReadingNow
  <2>3. ~(new.n < r.n)  BY <1>3, <1>4, <1>8
  <2> QED  BY <2>2, <2>3 DEF ReadingsInOrder
<1>11. ReadingsInOrder(new, new)  BY <1>3, <1>4 DEF ReadingsInOrder
<1>12. \A r, s \in readings' : ReadingsInOrder(r, s)
  BY <1>0, <1>10, <1>11 DEF MeterInv, ReadingsInv
<1>13. ReadingsInv'
  <2>1. readings' \subseteq MeterReadings  BY <1>0, <1>3, <1>4
  <2> QED  BY <1>6, <1>9, <1>12, <2>1 DEF ReadingsInv
<1>14. ReadingKnown(new)' /\ ReadingNow(new)'
  <2>1. pin.map <= ino  BY DEF MeterInv, PinInv
  <2> QED  BY <1>0, <1>1, <1>3, <1>4, <2>1 DEF ReadingKnown, ReadingNow, Bytes
<1>15. ASSUME NEW r \in readings PROVE ReadingKnown(r)' /\ ReadingNow(r)'
  BY <1>0, <1>1, <1>8 DEF ReadingKnown, ReadingNow
<1>16. ReadingsNowInv'  BY <1>0, <1>14, <1>15 DEF ReadingsNowInv
<1> QED  BY <1>2, <1>13, <1>16 DEF MeterInv

LEMMA MeterBoots == ASSUME MeterInv, MeterReboot PROVE MeterInv'
<1> USE RemoverSets
<1>1. /\ mboot' = mboot + 1 /\ ino' = 0 /\ pin' = NoPin /\ alive' = FALSE /\ maker' = [c \in Creators |-> "-"]
      /\ remover' = {} /\ reader' = NoReader /\ cnt' = Zero /\ passed' = Zero /\ readings' = readings
  BY DEF MeterReboot
<1>2. Zero \in Bytes /\ NoReader \in MeterReaders /\ NoReader.at = "-" /\ NoPin \in MeterPins /\ NoPin.map = 0 /\ ~NoPin.rx /\ ~NoPin.tx
  BY DEF NoReader, MeterReaders, Zero, Bytes, NoPin, MeterPins
<1>3. MeterTyped'
  <2>1. mboot' \in Nat /\ maker' \in [Creators -> {"-", "map", "rx", "tx", "exec"}]  BY <1>1 DEF MeterInv, MeterTyped
  <2>2. remover' \in {{}, AllNames, TxAndMap, {"map"}} /\ alive' \in BOOLEAN  BY <1>1
  <2> HIDE RemoverSets
  <2> QED  BY <1>1, <1>2, <2>1, <2>2 DEF MeterTyped
<1>7. PinInv' /\ ReaderInv'  BY <1>1, <1>2 DEF PinInv, ReaderInv
<1>4. ReadingsInv'  BY <1>1 DEF MeterInv, ReadingsInv
<1>5. ASSUME NEW r \in readings PROVE ReadingKnown(r)' /\ ReadingNow(r)'
  <2>1. r.epoch[2] # 0 /\ r.epoch[1] <= mboot /\ r.epoch[1] \in Nat /\ mboot \in Nat
    BY DEF MeterInv, ReadingsInv, ReadingsNowInv, ReadingKnown, MeterReadings, MeterTyped
  <2> QED  BY <1>1, <2>1 DEF ReadingKnown, ReadingNow
<1>6. ReadingsNowInv'  BY <1>1, <1>5 DEF ReadingsNowInv
<1> QED  BY <1>3, <1>4, <1>6, <1>7 DEF MeterInv

LEMMA MeterSteps == ASSUME MeterInv, MeterNext PROVE MeterInv'
  BY MeterCreates, MeterPinsMap, MeterPinsLink, MeterLives, MeterPackets, MeterRemoves, MeterUnpins, MeterReadsLinks,
     MeterReadsSlot, MeterReadsEpoch, MeterBoots DEF MeterNext

LEMMA MeterHolds == ASSUME MeterInv PROVE MeterSound
<1>1. \A r \in readings : r \in MeterReadings /\ ReadingExact(r) /\ \A d \in Dirs : r.from[d] \in Nat /\ r.val[d] \in Nat /\ r.to[d] \in Nat
  BY DEF MeterInv, ReadingsInv, MeterReadings, Bytes
<1>2. \A r \in readings : \A d \in Dirs : r.val[d] \in r.from[d] .. r.to[d]
  BY <1>1 DEF ReadingExact
<1>3. ASSUME NEW r \in readings, NEW s \in readings, r.epoch = s.epoch, r.n < s.n, NEW d \in Dirs
      PROVE  r.val[d] <= s.val[d] /\ r.to[d] <= s.to[d]
  <2>1. r.to[d] <= s.from[d]  BY <1>3 DEF MeterInv, ReadingsInv, ReadingsInOrder
  <2> QED  BY <1>1, <2>1 DEF ReadingExact
<1> QED  BY <1>2, <1>3 DEF MeterSound

LEMMA SupMoves == ASSUME SvcNext PROVE SupNext \/ UNCHANGED supVars
  BY DEF SvcNext, InSub, InAccess, InTrust, InFleet, InImports, InMeter, InNat, InServing, SupNext
LEMMA MeterMoves == ASSUME SvcNext PROVE MeterNext \/ UNCHANGED meterVars
  BY DEF SvcNext, InSub, InAccess, InTrust, InFleet, InImports, InSup, InNat, InServing, MeterNext

(* The inductive invariant of the OpenRC backend: a proxy that runs has a supervisor    *)
(* and is meant to run, what ran before an update runs or is in the receipt, and the    *)
(* counter's slots show what passed since its map was made (openrc/refresh, meter).      *)
THEOREM OpenRCInvariance == SvcSpec => [](SupInv /\ MeterInv)
<1>1. SvcInit => SupInv /\ MeterInv
  BY SupStarts, MeterStarts DEF SvcInit
<1>2. SupInv /\ MeterInv /\ [SvcNext]_svcVars => (SupInv /\ MeterInv)'
  BY SupMoves, SupSteps, SupStutters, MeterMoves, MeterSteps, MeterStutters DEF svcVars
<1> QED  BY <1>1, <1>2, PTL DEF SvcSpec

(* For all updates, rollbacks, crashes and reboots: when an agent calls itself ready,    *)
(* every proxy that ran before is supervised again, none runs that was stopped for good, *)
(* and a reading of the byte counter is complete and continues the one before it.        *)
THEOREM OpenRCIsSafe == SvcSpec => []OpenRCSafe
<1>1. SupInv /\ MeterInv => OpenRCSafe
  BY SupHolds, MeterHolds DEF OpenRCSafe
<1> QED  BY <1>1, OpenRCInvariance, PTL

-----------------------------------------------------------------------------
(* Accounts: the kinds of requests *)
LEMMA RequestKinds == ASSUME NEW r \in AccRequests PROVE
  /\ r.op = "setup" \/ r.pc = "create" => r \in SetupReqs
  /\ r.op = "login" \/ r.pc = "finish" => r \in LoginReqs
  /\ r.op = "login2fa" => r \in LoadReqs \cup FactorReqs
  /\ r.pc = "load" => r \in LoadReqs
  /\ r.pc = "drop" => r \in FactorReqs
  /\ r.pc = "cas" => r \in FactorReqs \cup CasReqs
  /\ r.pc = "user" => r \in OwnReqs
  /\ r.pc = "write" => r \in EditReqs \cup AdminReqs
  /\ r.pc = "key" => r \in KeyReqs
  /\ r.pc = "session" => r \in LoginReqs \cup FreshReqs
  /\ r.pc = "fresh" => r \in FreshReqs
  /\ r.pc \in {"clear", "own"} => r \in ClearReqs
  /\ r.pc = "before" => r \in BeforeReqs
<1>1. CASE r \in SetupReqs  BY <1>1 DEF SetupReqs
<1>2. CASE r \in LoginReqs  BY <1>2 DEF LoginReqs
<1>3. CASE r \in LoadReqs  BY <1>3 DEF LoadReqs
<1>4. CASE r \in FactorReqs  BY <1>4 DEF FactorReqs
<1>5. CASE r \in OwnReqs  BY <1>5 DEF OwnReqs, SelfOps
<1>6. CASE r \in EditReqs  BY <1>6 DEF EditReqs
<1>7. CASE r \in CasReqs  BY <1>7 DEF CasReqs
<1>8. CASE r \in KeyReqs  BY <1>8 DEF KeyReqs
<1>9. CASE r \in FreshReqs  BY <1>9 DEF FreshReqs
<1>10. CASE r \in AdminReqs  BY <1>10 DEF AdminReqs
<1>11. CASE r \in ClearReqs  BY <1>11 DEF ClearReqs
<1>12. CASE r \in BeforeReqs  BY <1>12 DEF BeforeReqs
<1> QED  BY <1>1, <1>2, <1>3, <1>4, <1>5, <1>6, <1>7, <1>8, <1>9, <1>10, <1>11, <1>12 DEF AccRequests

LEMMA AccReqFields == ASSUME NEW r \in AccRequests PROVE
  /\ r.op = "login" => r.u \in UserRows /\ r.chal \in Nat
  /\ r.op = "login2fa" => r.chal \in Nat /\ r.chal # 0
  /\ r.pc \in {"drop", "cas", "write", "key"} => r.was \in UserRows /\ r.u \in UserRows
  /\ r.pc \in {"drop", "cas"} => r.code \in FactorCodes
  /\ r.pc = "before" => r.then \in AdminReqs /\ r.then.was \in UserRows /\ r.then.u \in UserRows
<1>1. r \in LoginReqs => r.u \in UserRows /\ r.chal \in Nat  BY DEF LoginReqs
<1>2. r \in LoadReqs => r.chal \in Nat /\ r.chal # 0  BY DEF LoadReqs
<1>3. r \in FactorReqs => r.chal \in Nat /\ r.chal # 0 /\ r.was \in UserRows /\ r.u \in UserRows /\ r.code \in FactorCodes  BY DEF FactorReqs
<1>4. r \in CasReqs => r.was \in UserRows /\ r.u \in UserRows /\ r.code \in FactorCodes  BY DEF CasReqs
<1>5. r \in EditReqs => r.was \in UserRows /\ r.u \in UserRows  BY DEF EditReqs
<1>6. r \in KeyReqs => r.was \in UserRows /\ r.u \in UserRows  BY DEF KeyReqs
<1>7. r \in AdminReqs => r.was \in UserRows /\ r.u \in UserRows  BY DEF AdminReqs
<1>8. r \in BeforeReqs => r.then \in AdminReqs /\ r.then.was \in UserRows /\ r.then.u \in UserRows  BY DEF BeforeReqs, AdminReqs
<1> QED  BY <1>1, <1>2, <1>3, <1>4, <1>5, <1>6, <1>7, <1>8, RequestKinds

LEMMA UserFields == ASSUME NEW u \in UserRows PROVE
  /\ u.pw \in Nat /\ u.on \in BOOLEAN /\ u.totp \in BOOLEAN /\ u.secret \in Nat /\ u.last \in Nat
  /\ u.codes \subseteq Nat /\ u.ver \in Nat /\ u.upd \in Nat /\ u # None
  BY AccessAssumption DEF UserRows

(* What was good stays good while the row and the accepted codes stay. *)
LEMMA RowGoodKept == ASSUME NEW u \in UserRows, RowGood(u), UNCHANGED spent, serial \in Nat, serial' \in Nat, serial <= serial'
                     PROVE  RowGood(u)'
<1>1. u.secret <= serial' /\ \A c \in u.codes : c <= serial'
  BY UserFields DEF RowGood
<1> QED  BY <1>1 DEF RowGood

LEMMA CodeKnownKept == ASSUME NEW f, CodeKnown(f), serial \in Nat, serial' \in Nat, serial <= serial' PROVE CodeKnown(f)'
  BY DEF CodeKnown, FactorCodes

LEMMA RequestKept == ASSUME NEW r \in AccRequests, RequestFits(r), UNCHANGED <<account, spent>>,
                            serial \in Nat, serial' \in Nat, serial <= serial'
                     PROVE  RequestFits(r)'
<1>1. ASSUME NEW w \in UserRows, NEW u \in UserRows, account # None => RowRead(w) /\ (w = account => RowGood(u))
      PROVE  (account # None => RowRead(w) /\ (w = account => RowGood(u)))'
  BY <1>1, RowGoodKept DEF RowRead
<1>2. r.op = "login" \/ r.pc = "key" => (account # None => VersionFits(r.u))'
  BY DEF RequestFits, VersionFits
<1>3. r.pc \in {"drop", "cas"} => CasFits(r)'
  <2>1. SUFFICES ASSUME r.pc \in {"drop", "cas"} PROVE CasFits(r)'  OBVIOUS
  <2>2. CasFits(r) /\ r.was \in UserRows /\ r.u \in UserRows  BY <2>1, AccReqFields DEF RequestFits
  <2>3. WriteFits(r)'  BY <1>1, <2>2 DEF CasFits, WriteFits
  <2>4. CodeFits(r) => CodeFits(r)'  BY CodeKnownKept DEF CodeFits, Accepts
  <2> QED  BY <2>2, <2>3, <2>4 DEF CasFits
<1>4. r.pc = "write" => WriteFits(r)'
  BY <1>1, AccReqFields DEF RequestFits, WriteFits
<1>5. r.pc = "before" => WriteFits(r.then)'
  BY <1>1, AccReqFields DEF RequestFits, WriteFits
<1> QED  BY <1>2, <1>3, <1>4, <1>5 DEF RequestFits, SameFactor

(* A write makes every copy too old. *)
RowWritten == /\ account \in UserRows /\ account' \in UserRows /\ account'.upd = account.upd + 1
              /\ account.ver <= account'.ver
              /\ (account'.ver = account.ver => account'.pw = account.pw /\ account'.totp = account.totp)
LEMMA VersionKept == ASSUME RowWritten, NEW x, x.ver \in Nat, VersionFits(x) PROVE VersionFits(x)'
<1>1. account.ver \in Nat /\ account'.ver \in Nat  BY UserFields DEF RowWritten
<1> QED  BY <1>1 DEF VersionFits, RowWritten
LEMMA RequestOutdated == ASSUME RowWritten, NEW r \in AccRequests, RequestFits(r) PROVE RequestFits(r)'
<1>0. account # None /\ account.upd \in Nat /\ account'.upd \in Nat  BY UserFields DEF RowWritten
<1>1. ASSUME NEW w \in UserRows, RowRead(w) PROVE RowRead(w)' /\ w # account'
  BY <1>0, <1>1, UserFields DEF RowRead, RowWritten
<1>2. r.op = "login" \/ r.pc = "key" => (account # None => VersionFits(r.u))'
  BY <1>0, VersionKept, AccReqFields, UserFields DEF RequestFits
<1>3. r.pc \in {"drop", "cas"} => CasFits(r)'
  BY <1>0, <1>1, AccReqFields DEF RequestFits, CasFits, WriteFits
<1>4. r.pc = "write" => WriteFits(r)'
  BY <1>0, <1>1, AccReqFields DEF RequestFits, WriteFits
<1>5. r.pc = "before" => WriteFits(r.then)'
  BY <1>0, <1>1, AccReqFields DEF RequestFits, WriteFits
<1> QED  BY <1>2, <1>3, <1>4, <1>5 DEF RequestFits, SameFactor

LEMMA RequestOrphaned == ASSUME NEW r \in AccRequests, RequestFits(r), account' = None PROVE RequestFits(r)'
  BY DEF RequestFits, SameFactor, CasFits, WriteFits

(* The parts of the invariant that most steps leave alone *)
LEMMA AccReqsKept == ASSUME AccessInv, NEW N, requests' \subseteq requests \cup N, UNCHANGED <<account, spent>>,
                            serial' \in Nat, serial <= serial', \A n \in N : RequestFits(n)'
                     PROVE  AccReqs'
<1>1. serial \in Nat /\ requests \subseteq AccRequests /\ \A r \in requests : RequestFits(r)
  BY DEF AccessInv, AccTyped, AccReqs
<1>2. \A r \in requests : RequestFits(r)'  BY <1>1, RequestKept
<1> QED  BY <1>2 DEF AccReqs

LEMMA AccRowKept == ASSUME AccessInv, UNCHANGED <<account, spent>>, serial' \in Nat, serial <= serial'
                    PROVE  AccSpent' /\ (account # None => RowGood(account)')
<1>1. serial \in Nat /\ account \in UserRows \cup {None}  BY DEF AccessInv, AccTyped
<1>2. AccSpent'  BY <1>1, CodeKnownKept DEF AccessInv, AccSpent
<1>3. ASSUME account # None PROVE RowGood(account)'
  <2>1. PICK k : k = account  OBVIOUS
  <2>2. RowGood(k)' BY <1>1, <1>3, <2>1, RowGoodKept DEF AccessInv, AccRow
  <2> QED  BY <2>1, <2>2 DEF RowGood
<1> QED  BY <1>2, <1>3

LEMMA AccChallengesKept ==
  ASSUME AccessInv, NEW N, requests' \subseteq requests \cup N, UNCHANGED logins, serial' \in Nat, serial <= serial',
         \A c \in DOMAIN challenges' : c \in DOMAIN challenges \/ (c \in Nat /\ serial < c /\ c <= serial'),
         \A n \in N : ChallengeFits(n)',
         \A n \in N : Taken(n) => \A q \in requests' : Taken(q) /\ q.chal = n.chal => q = n
  PROVE  AccChallenges'
<1>1. serial \in Nat /\ requests \subseteq AccRequests  BY DEF AccessInv, AccTyped
<1>2. \A c \in DOMAIN challenges' : c \in 1 .. serial' /\ c \notin DOMAIN logins'
  BY <1>1 DEF AccessInv, AccChallenges
<1>3. \A c \in DOMAIN logins' : c \in 1 .. serial' /\ logins'[c] = 1
  BY <1>1 DEF AccessInv, AccChallenges
<1>4. ASSUME NEW r \in requests PROVE ChallengeFits(r)'
  <2>1. ChallengeFits(r) /\ r \in AccRequests  BY <1>1 DEF AccessInv, AccChallenges
  <2>2. r.op \in {"login", "login2fa"} => r.chal \in Nat /\ r.chal <= serial  BY <2>1, AccReqFields DEF ChallengeFits
  <2>3. Taken(r) => r.op \in {"login", "login2fa"}  BY DEF Taken
  <2>4. Taken(r) => r.chal \notin DOMAIN challenges'  BY <1>1, <2>1, <2>2, <2>3 DEF ChallengeFits
  <2> QED  BY <1>1, <2>1, <2>2, <2>4 DEF ChallengeFits, Taken
<1>5. \A r \in requests' : ChallengeFits(r)'  BY <1>4
<1>6. ASSUME NEW r \in requests', NEW q \in requests', Taken(r), Taken(q), r.chal = q.chal PROVE r = q
  <2>1. CASE r \in N  BY <1>6, <2>1
  <2>2. CASE q \in N  BY <1>6, <2>2
  <2>3. CASE r \in requests /\ q \in requests  BY <1>6, <2>3 DEF AccessInv, AccChallenges
  <2> QED  BY <2>1, <2>2, <2>3
<1> QED  BY <1>2, <1>3, <1>5, <1>6 DEF AccChallenges, Taken

LEMMA AccIssuedKept == ASSUME AccessInv, UNCHANGED <<account, apikeys>>, sessions' \subseteq sessions PROVE AccIssued'
<1>1. ActiveKeys' = ActiveKeys  BY DEF ActiveKeys
<1> QED  BY <1>1 DEF AccessInv, AccIssued, VersionFits

LEMMA AccQuiet ==
  ASSUME AccessInv, NEW N, initialized, UNCHANGED <<account, initialized, apikeys, spent, logins>>, sessions' \subseteq sessions,
         serial' \in Nat, serial <= serial', totpNow' \in Nat \ {0}, requests' \subseteq requests \cup N,
         \A n \in N : n \in AccRequests /\ RequestFits(n)' /\ ChallengeFits(n)',
         \A n \in N : Taken(n) => \A q \in requests' : Taken(q) /\ q.chal = n.chal => q = n,
         \A c \in DOMAIN challenges' : /\ challenges'[c] \in HeldCreds
                                       /\ c \in DOMAIN challenges \/ (c \in Nat /\ serial < c /\ c <= serial')
  PROVE  AccessInv'
<1>1. AccTyped'  BY DEF AccessInv, AccTyped
<1>2. AccSpent' /\ AccRow'  BY AccRowKept DEF AccessInv, AccRow
<1>3. AccIssued'  BY AccIssuedKept
<1>4. AccReqs'  BY AccReqsKept
<1>5. AccChallenges'  BY AccChallengesKept
<1> QED  BY <1>1, <1>2, <1>3, <1>4, <1>5 DEF AccessInv

LEMMA AccQuietOne ==
  ASSUME AccessInv, NEW n, initialized, UNCHANGED <<account, initialized, apikeys, spent, logins>>, sessions' \subseteq sessions,
         serial' \in Nat, serial <= serial', totpNow' \in Nat \ {0}, requests' \subseteq requests \cup {n},
         n \in AccRequests, RequestFits(n)', ChallengeFits(n)',
         Taken(n) => \A q \in requests' : Taken(q) /\ q.chal = n.chal => q = n,
         \A c \in DOMAIN challenges' : /\ challenges'[c] \in HeldCreds
                                       /\ c \in DOMAIN challenges \/ (c \in Nat /\ serial < c /\ c <= serial')
  PROVE  AccessInv'
<1>1. PICK N : N = {n}  OBVIOUS
<1>2. requests' \subseteq requests \cup N  BY <1>1
<1>3. \A m \in N : m \in AccRequests /\ RequestFits(m)' /\ ChallengeFits(m)'  BY <1>1
<1>4. \A m \in N : Taken(m) => \A q \in requests' : Taken(q) /\ q.chal = m.chal => q = m  BY <1>1
<1> QED  BY <1>2, <1>3, <1>4, AccQuiet

LEMMA AccQuietNone ==
  ASSUME AccessInv, initialized, UNCHANGED <<account, initialized, apikeys, spent, logins>>, sessions' \subseteq sessions,
         serial' \in Nat, serial <= serial', totpNow' \in Nat \ {0}, requests' \subseteq requests,
         \A c \in DOMAIN challenges' : /\ challenges'[c] \in HeldCreds
                                       /\ c \in DOMAIN challenges \/ (c \in Nat /\ serial < c /\ c <= serial')
  PROVE  AccessInv'
<1>1. PICK N : N = {}  OBVIOUS
<1>2. requests' \subseteq requests \cup N  BY <1>1
<1>3. \A m \in N : m \in AccRequests /\ RequestFits(m)' /\ ChallengeFits(m)'  BY <1>1
<1>4. \A m \in N : Taken(m) => \A q \in requests' : Taken(q) /\ q.chal = m.chal => q = m  BY <1>1
<1> QED  BY <1>2, <1>3, <1>4, AccQuiet

LEMMA Running2FA == ASSUME AccessInv PROVE
  /\ account # None => initialized /\ account \in UserRows /\ RowGood(account)
  /\ \A r \in requests : r \in AccRequests /\ RequestFits(r) /\ ChallengeFits(r) /\ (r.op # "setup" => initialized)
  /\ serial \in Nat /\ serial # 0 /\ serial + 1 \in Nat /\ serial <= serial + 1 /\ totpNow \in Nat \ {0}
  /\ \A c \in DOMAIN challenges : challenges[c] \in HeldCreds /\ c \in 1 .. serial
<1>1. requests \subseteq SetupReqs => \A r \in requests : r.op = "setup"  BY DEF SetupReqs
<1>2. \A r \in requests : r.op # "setup" => initialized  BY <1>1 DEF AccessInv, AccRow
<1> QED  BY <1>2 DEF AccessInv, AccTyped, AccRow, AccReqs, AccChallenges

(* Rows that are written *)
LEMMA RowGoodSame == ASSUME NEW u, NEW w, RowGood(w), u.totp = w.totp, u.secret = w.secret, u.last = w.last, u.codes = w.codes
                     PROVE  RowGood(u)
  BY DEF RowGood, CodeUsed
LEMMA RowGoodCleared == ASSUME AccessInv, NEW u, u.totp = FALSE, u.secret = 0, u.last = 0, u.codes = {} PROVE RowGood(u)
<1>1. serial \in Nat  BY DEF AccessInv, AccTyped
<1>2. \A f \in DOMAIN spent : CodeUsed(f, u)
  BY DEF AccessInv, AccSpent, CodeKnown, CodeUsed
<1> QED  BY <1>1, <1>2 DEF RowGood

LEMMA FactorFits == ASSUME AccessInv, account # None, account.totp, NEW code \in FactorCodes, Factor(account, code),
                           NEW w, w = Consumed(account, code)
                    PROVE  /\ w \in UserRows /\ RowGood(w) /\ SameFactor(w, account) /\ w.upd = account.upd
                           /\ CodeKnown(code) /\ code \notin DOMAIN spent /\ CodeUsed(code, w)
                           /\ (code.kind = "totp" => code.secret = account.secret /\ code.step <= w.last)
<1>1. account \in UserRows /\ RowGood(account) /\ serial \in Nat /\ totpNow \in Nat  BY DEF AccessInv, AccTyped, AccRow
<1>2. /\ account.pw \in Nat /\ account.on \in BOOLEAN /\ account.totp \in BOOLEAN /\ account.secret \in Nat /\ account.last \in Nat
      /\ account.codes \subseteq Nat /\ account.ver \in Nat /\ account.upd \in Nat
  BY <1>1, UserFields
<1>3. code.secret \in Nat /\ code.step \in Nat /\ code.id \in Nat /\ code.kind \in {"totp", "recovery"}  BY DEF FactorCodes
<1>4. \A f \in DOMAIN spent : CodeUsed(f, account) /\ f \in FactorCodes  BY <1>1 DEF RowGood, AccessInv, AccSpent, CodeKnown
<1>5. CASE Verifies(account, code, account.last)
  <2>1. w = [account EXCEPT !.last = code.step] /\ code.kind = "totp" /\ code.secret = account.secret /\ code.step > account.last
    BY <1>5 DEF Consumed, Verifies
  <2>2. /\ w \in UserRows /\ w.pw = account.pw /\ w.totp = account.totp /\ w.secret = account.secret /\ w.ver = account.ver
        /\ w.upd = account.upd /\ w.last = code.step /\ w.codes = account.codes
    BY <1>1, <1>3, <2>1 DEF UserRows
  <2>3. code \notin DOMAIN spent  BY <1>2, <1>3, <1>4, <2>1 DEF CodeUsed
  <2>4. \A f \in DOMAIN spent : CodeUsed(f, w)
    BY <1>2, <1>3, <1>4, <2>1, <2>2 DEF CodeUsed, FactorCodes
  <2>5. RowGood(w)  BY <1>1, <2>2, <2>4 DEF RowGood
  <2>6. CodeKnown(code) /\ CodeUsed(code, w)  BY <1>1, <1>2, <1>3, <2>1, <2>2 DEF CodeKnown, CodeUsed, RowGood
  <2>7. code.step <= w.last  BY <1>3, <2>2
  <2> QED  BY <2>1, <2>2, <2>3, <2>5, <2>6, <2>7 DEF SameFactor
<1>6. CASE ~Verifies(account, code, account.last)
  <2>1. w = [account EXCEPT !.codes = @ \ {code.id}] /\ code.kind = "recovery" /\ code.id \in account.codes
    BY <1>6 DEF Consumed, Factor
  <2>2. /\ w \in UserRows /\ w.pw = account.pw /\ w.totp = account.totp /\ w.secret = account.secret /\ w.ver = account.ver
        /\ w.upd = account.upd /\ w.last = account.last /\ w.codes = account.codes \ {code.id}
    BY <1>1, <1>3, <2>1 DEF UserRows
  <2>3. code \notin DOMAIN spent  BY <1>4, <2>1 DEF CodeUsed
  <2>4. \A f \in DOMAIN spent : CodeUsed(f, w)  BY <1>4, <2>2 DEF CodeUsed
  <2>5. RowGood(w)  BY <1>1, <2>2, <2>4 DEF RowGood
  <2>6. CodeKnown(code) /\ CodeUsed(code, w)  BY <1>1, <1>2, <1>3, <2>1, <2>2 DEF CodeKnown, CodeUsed, RowGood
  <2> QED  BY <2>1, <2>2, <2>3, <2>5, <2>6 DEF SameFactor
<1> QED  BY <1>5, <1>6

-----------------------------------------------------------------------------
(* Steps that only move requests and challenges *)
LEMMA AccSetup == ASSUME AccessInv, Setup PROVE AccessInv'
<1>1. PICK n : n = [op |-> "setup", pc |-> "create", pw |-> serial + 1]  OBVIOUS
<1>2. /\ requests' = requests \cup {n} /\ serial' = serial + 1 /\ ~initialized
      /\ UNCHANGED <<account, initialized, challenges, sessions, apikeys, totpNow, spent, logins>>
  BY <1>1 DEF Setup
<1>3. n \in SetupReqs /\ n \in AccRequests /\ n.op = "setup" /\ n.pc = "create" /\ serial' \in Nat /\ serial <= serial' /\ serial' # 0
  BY <1>1, <1>2, Running2FA DEF SetupReqs, AccRequests
<1>4. RequestFits(n)' /\ ChallengeFits(n)' /\ ~Taken(n)  BY <1>3 DEF RequestFits, ChallengeFits, Taken
<1>5. AccTyped'  BY <1>2, <1>3 DEF AccessInv, AccTyped
<1>6. AccSpent' /\ AccRow'  BY <1>2, <1>3, AccRowKept DEF AccessInv, AccRow
<1>7. AccIssued'  BY <1>2, AccIssuedKept, Zenon
<1>a. PICK N : N = {n}  OBVIOUS
<1>b. requests' \subseteq requests \cup N /\ \A m \in N : RequestFits(m)' /\ ChallengeFits(m)' /\ ~Taken(m)
  BY <1>2, <1>4, <1>a
<1>8. AccReqs'  BY <1>2, <1>3, <1>b, AccReqsKept
<1>9. AccChallenges'  BY <1>2, <1>3, <1>b, AccChallengesKept
<1> QED  BY <1>5, <1>6, <1>7, <1>8, <1>9 DEF AccessInv

LEMMA AccClock == ASSUME AccessInv, Tick \/ ChallengeExpires PROVE AccessInv'
<1>1. \/ UNCHANGED <<account, initialized, challenges, sessions, apikeys, requests, serial, spent, logins>> /\ totpNow' = totpNow + 1
      \/ /\ UNCHANGED <<account, initialized, sessions, apikeys, requests, totpNow, serial, spent, logins>>
         /\ \E c \in DOMAIN challenges : challenges' = Without(c)
  BY DEF Tick, ChallengeExpires
<1>2. totpNow' \in Nat \ {0} /\ serial' \in Nat /\ serial <= serial' /\ requests' = requests /\ sessions' = sessions
  BY <1>1, Running2FA
<1>3. \A c \in DOMAIN challenges' : challenges'[c] \in HeldCreds /\ c \in DOMAIN challenges
  BY <1>1, Running2FA DEF Without
<1>4. CASE initialized  BY <1>1, <1>2, <1>3, <1>4, AccQuietNone
<1>5. CASE ~initialized
  <2>1. AccTyped'  BY <1>1, <1>2, <1>3 DEF AccessInv, AccTyped
  <2>2. AccSpent' /\ AccRow'  BY <1>1, <1>2, <1>3, AccRowKept DEF AccessInv, AccRow
  <2>3. AccIssued'  BY <1>1, AccIssuedKept
  <2>a. PICK N : N = {}  OBVIOUS
  <2>b. requests' \subseteq requests \cup N /\ \A m \in N : RequestFits(m)' /\ ChallengeFits(m)' /\ ~Taken(m)
    BY <1>2, <2>a
  <2>4. AccReqs'  BY <1>1, <1>2, <2>b, AccReqsKept
  <2>5. AccChallenges'  BY <1>1, <1>2, <1>3, <2>b, AccChallengesKept
  <2> QED  BY <2>1, <2>2, <2>3, <2>4, <2>5 DEF AccessInv
<1> QED  BY <1>4, <1>5

LEMMA AccLogin == ASSUME AccessInv, Login PROVE AccessInv'
<1>1. PICK a : a = account  OBVIOUS
<1>2. a \in UserRows /\ account = a /\ a # None /\ initialized /\ UNCHANGED <<account, initialized, sessions, apikeys, totpNow, spent, logins>>
  BY <1>1, Running2FA DEF Login
<1>3. CASE a.totp
  <2>1. /\ serial' = serial + 1 /\ requests' = requests
        /\ challenges' = [c \in DOMAIN challenges \cup {serial + 1} |->
               IF c = serial + 1 THEN [pw |-> a.pw, secret |-> a.secret, tries |-> 0] ELSE challenges[c]]
    BY <1>2, <1>3 DEF Login
  <2>2. [pw |-> a.pw, secret |-> a.secret, tries |-> 0] \in HeldCreds  BY <1>2, UserFields DEF HeldCreds
  <2>3. \A c \in DOMAIN challenges' : challenges'[c] \in HeldCreds /\ (c \in DOMAIN challenges \/ c = serial + 1)
    BY <2>1, <2>2, Running2FA
  <2>4. \A c \in DOMAIN challenges' : challenges'[c] \in HeldCreds /\ (c \in DOMAIN challenges \/ (c \in Nat /\ serial < c /\ c <= serial'))
    <3>1. serial \in Nat  BY Running2FA
    <3>2. \A c : c = serial + 1 => c \in Nat /\ serial < c /\ c <= serial'  BY <2>1, <3>1
    <3> QED  BY <2>3, <3>2, Zenon
  <2>5. serial' \in Nat /\ serial <= serial' /\ totpNow' \in Nat \ {0}  BY <1>2, <2>1, Running2FA
  <2> QED  BY <1>2, <2>1, <2>4, <2>5, AccQuietNone
<1>4. CASE ~a.totp
  <2>1. PICK n : n = [op |-> "login", pc |-> "finish", u |-> a, chal |-> 0]  OBVIOUS
  <2>2. requests' = requests \cup {n} /\ UNCHANGED <<challenges, serial>>  BY <1>2, <1>4, <2>1 DEF Login
  <2>3. n \in AccRequests /\ n.op = "login" /\ n.pc = "finish" /\ n.u = a /\ n.chal = 0  BY <1>2, <2>1 DEF LoginReqs, AccRequests
  <2>4. ~Taken(n) /\ ChallengeFits(n)'  BY <2>2, <2>3, Running2FA DEF Taken, ChallengeFits
  <2>5. RequestFits(n)'  BY <1>2, <2>3, UserFields DEF RequestFits, VersionFits
  <2> QED  BY <1>2, <2>2, <2>3, <2>4, <2>5, AccQuietOne, Running2FA
<1> QED  BY <1>3, <1>4

LEMMA CodesTyped == ASSUME AccessInv, account # None PROVE Codes \subseteq FactorCodes
  BY Running2FA, UserFields DEF Codes, FactorCodes

LEMMA AccLogin2FA == ASSUME AccessInv, Login2FA PROVE AccessInv'
<1>1. account # None /\ initialized /\ UNCHANGED <<account, initialized, sessions, apikeys, totpNow, serial, spent, logins>>
  BY Running2FA DEF Login2FA
<1>2. PICK c \in DOMAIN challenges, code \in Codes :
       IF challenges[c].tries + 1 > ChallengeAttempts THEN challenges' = Without(c) /\ UNCHANGED requests
       ELSE /\ challenges' = [challenges EXCEPT ![c].tries = @ + 1]
            /\ requests' = requests \cup
                 {[op |-> "login2fa", pc |-> "load", chal |-> c, held |-> challenges[c], code |-> code]}
  BY DEF Login2FA
<1>3. c \in Nat /\ c # 0 /\ c <= serial /\ challenges[c] \in HeldCreds /\ code \in FactorCodes  BY <1>1, Running2FA, CodesTyped
<1>4. PICK n : n = [op |-> "login2fa", pc |-> "load", chal |-> c, held |-> challenges[c], code |-> code]  OBVIOUS
<1>5. n \in AccRequests /\ n.op = "login2fa" /\ n.pc = "load" /\ n.chal = c  BY <1>3, <1>4 DEF LoadReqs, AccRequests
<1>6. RequestFits(n)' /\ ChallengeFits(n)' /\ ~Taken(n)  BY <1>1, <1>3, <1>5 DEF RequestFits, ChallengeFits, Taken
<1>7. requests' \subseteq requests \cup {n}  BY <1>2, <1>4
<1>8. \A d \in DOMAIN challenges' : challenges'[d] \in HeldCreds /\ d \in DOMAIN challenges
  <2>1. CASE challenges' = Without(c)  BY <2>1, Running2FA DEF Without
  <2>2. CASE challenges' = [challenges EXCEPT ![c].tries = @ + 1]
    <3>1. DOMAIN challenges' = DOMAIN challenges  BY <2>2
    <3>2. ASSUME NEW d \in DOMAIN challenges PROVE challenges'[d] \in HeldCreds
      <4>1. challenges[d] \in HeldCreds  BY Running2FA
      <4>2. CASE d # c  BY <2>2, <4>1, <4>2
      <4>3. CASE d = c
        <5>1. challenges'[c] = [challenges[c] EXCEPT !.tries = @ + 1]  BY <2>2
        <5> QED  BY <1>3, <4>3, <5>1 DEF HeldCreds
      <4> QED  BY <4>2, <4>3
    <3> QED  BY <3>1, <3>2
  <2> QED  BY <1>2, <2>1, <2>2
<1> QED  BY <1>1, <1>5, <1>6, <1>7, <1>8, AccQuietOne, Running2FA

LEMMA AccSelfRequest == ASSUME AccessInv, SelfRequest PROVE AccessInv'
<1>1. account # None /\ UNCHANGED <<account, initialized, challenges, sessions, apikeys, totpNow, serial, spent, logins>>
  BY DEF SelfRequest, SessionUsable
<1>2. PICK o \in SelfOps, code \in Codes :
        requests' = requests \cup {[op |-> o, pc |-> "user", code |-> code, pw |-> account.pw]}
  BY DEF SelfRequest
<1>3. PICK n : n = [op |-> o, pc |-> "user", code |-> code, pw |-> account.pw]  OBVIOUS
<1>4. n \in AccRequests /\ n.op \in SelfOps /\ n.pc = "user"
  BY <1>1, <1>3, CodesTyped, Running2FA, UserFields DEF OwnReqs, AccRequests
<1>5. RequestFits(n)' /\ ChallengeFits(n)' /\ ~Taken(n)  BY <1>4 DEF RequestFits, ChallengeFits, Taken, SelfOps
<1> QED  BY <1>1, <1>2, <1>3, <1>4, <1>5, AccQuietOne, Running2FA

LEMMA AccLoad2FA == ASSUME AccessInv, NEW r \in requests, Load2FA(r) PROVE AccessInv'
<1>1. /\ r.op = "login2fa" /\ r.pc = "load" /\ initialized
      /\ UNCHANGED <<account, initialized, challenges, sessions, apikeys, totpNow, serial, spent, logins>>
  BY Running2FA DEF Load2FA
<1>2. r \in LoadReqs /\ r.code \in FactorCodes /\ r.chal \in Nat /\ r.chal # 0 /\ r.chal <= serial
  BY <1>1, Running2FA, RequestKinds DEF LoadReqs, ChallengeFits
<1>3. CASE requests' = requests \ {r}  BY <1>1, <1>3, AccQuietNone, Running2FA
<1>4. CASE requests' # requests \ {r}
  <2>1. PICK a : a = account  OBVIOUS
  <2>2. PICK w : w = Consumed(a, r.code)  OBVIOUS
  <2>3. PICK n : n = [op |-> "login2fa", pc |-> "drop", chal |-> r.chal, code |-> r.code, was |-> a, u |-> w]  OBVIOUS
  <2>4. requests' = (requests \ {r}) \cup {n} /\ account # None /\ account.totp /\ Factor(account, r.code)
    BY <1>4, <2>1, <2>2, <2>3 DEF Load2FA, Goes, Ends
  <2>5. a \in UserRows  BY <2>1, <2>4, Running2FA
  <2>6. /\ w \in UserRows /\ RowGood(w) /\ SameFactor(w, a)
        /\ CodeKnown(r.code) /\ r.code \notin DOMAIN spent /\ CodeUsed(r.code, w)
    BY <1>2, <2>1, <2>2, <2>4, FactorFits
  <2>7. n \in AccRequests /\ n.op = "login2fa" /\ n.pc = "drop" /\ n.chal = r.chal /\ n.was = a /\ n.u = w /\ n.code = r.code
    BY <1>2, <2>3, <2>5, <2>6 DEF FactorReqs, AccRequests
  <2>8. RowGood(w)' /\ CodeKnown(r.code)'  BY <1>1, <2>6, RowGoodKept, CodeKnownKept, Running2FA
  <2>9. RowRead(a)'  BY <1>1, <2>1, <2>5, UserFields DEF RowRead
  <2>10. CasFits(n)'  BY <1>1, <2>6, <2>7, <2>8, <2>9 DEF CasFits, WriteFits, CodeFits
  <2>11. RequestFits(n)'  BY <2>6, <2>7, <2>10 DEF RequestFits
  <2>12. ChallengeFits(n)' /\ ~Taken(n)  BY <1>1, <1>2, <2>7 DEF ChallengeFits, Taken
  <2> QED  BY <1>1, <2>4, <2>7, <2>11, <2>12, AccQuietOne, Running2FA
<1> QED  BY <1>3, <1>4

LEMMA AccDrop == ASSUME AccessInv, NEW r \in requests, Drop(r) PROVE AccessInv'
<1>1. /\ r.op = "login2fa" /\ r.pc = "drop" /\ initialized /\ challenges' = Without(r.chal)
      /\ UNCHANGED <<account, initialized, sessions, apikeys, totpNow, serial, spent, logins>>
  BY Running2FA DEF Drop
<1>2. DOMAIN challenges' = DOMAIN challenges \ {r.chal} /\ \A c \in DOMAIN challenges' : challenges'[c] = challenges[c]
  BY <1>1 DEF Without
<1>3. CASE r.chal \notin DOMAIN challenges
  <2>1. requests' = requests \ {r}  BY <1>3 DEF Drop, Ends
  <2> QED  BY <1>1, <1>2, <2>1, AccQuietNone, Running2FA
<1>4. CASE r.chal \in DOMAIN challenges
  <2>1. PICK n : n = [r EXCEPT !.pc = "cas"]  OBVIOUS
  <2>2. requests' = (requests \ {r}) \cup {n}  BY <1>4, <2>1 DEF Drop, Goes
  <2>3. r \in FactorReqs  BY <1>1, Running2FA, RequestKinds
  <2>4. /\ n \in FactorReqs /\ n.op = "login2fa" /\ n.pc = "cas" /\ n.chal = r.chal /\ n.code = r.code
        /\ n.was = r.was /\ n.u = r.u
    BY <2>1, <2>3 DEF FactorReqs
  <2>5. RequestFits(r)' /\ RequestFits(r)  BY <1>1, Running2FA, RequestKept
  <2>6. RequestFits(n)'
    <3>1. CasFits(r)' /\ SameFactor(r.u, r.was)  BY <1>1, <2>5 DEF RequestFits, SameFactor
    <3>2. CasFits(n)'  BY <1>1, <2>4, <3>1 DEF CasFits, WriteFits, CodeFits, Accepts
    <3> QED  BY <2>4, <3>1, <3>2 DEF RequestFits
  <2>7. r.chal <= serial /\ r.chal \notin DOMAIN logins
    BY <1>1, <1>4, Running2FA DEF ChallengeFits, AccessInv, AccChallenges
  <2>8. ChallengeFits(n)'  BY <1>1, <1>2, <2>4, <2>7 DEF ChallengeFits
  <2>9. ASSUME NEW q \in requests', Taken(q), q.chal = n.chal PROVE q = n
    <3>1. q \in requests => q.chal \notin DOMAIN challenges  BY <2>9 DEF AccessInv, AccChallenges, ChallengeFits
    <3> QED  BY <1>4, <2>2, <2>4, <2>9, <3>1
  <2>10. n \in AccRequests  BY <2>4 DEF AccRequests
  <2> QED  BY <1>1, <1>2, <2>2, <2>6, <2>8, <2>9, <2>10, AccQuietOne, Running2FA
<1> QED  BY <1>3, <1>4

LEMMA AccFinish == ASSUME AccessInv, NEW r \in requests, FinishLogin(r) PROVE AccessInv'
<1>1. r.pc = "finish" /\ UNCHANGED <<account, initialized, challenges, sessions, apikeys, totpNow, serial, spent, logins>>
  BY DEF FinishLogin
<1>2. r \in LoginReqs /\ r.op = "login" /\ initialized  BY <1>1, Running2FA, RequestKinds DEF LoginReqs
<1>3. CASE requests' = requests \ {r}  BY <1>1, <1>2, <1>3, AccQuietNone, Running2FA
<1>4. CASE requests' # requests \ {r}
  <2>1. PICK n : n = [r EXCEPT !.pc = "session"]  OBVIOUS
  <2>2. requests' = (requests \ {r}) \cup {n}  BY <1>4, <2>1 DEF FinishLogin, Goes, Ends
  <2>3. n \in LoginReqs /\ n.op = "login" /\ n.pc = "session" /\ n.u = r.u /\ n.chal = r.chal  BY <1>2, <2>1 DEF LoginReqs
  <2>4. RequestFits(n)'
    BY <1>1, <1>2, <2>3, Running2FA DEF RequestFits, VersionFits
  <2>5. ChallengeFits(n)'  BY <1>1, <1>2, <2>3, Running2FA DEF ChallengeFits, Taken
  <2>6. ASSUME NEW q \in requests', Taken(n), Taken(q), q.chal = n.chal PROVE q = n
    <3>1. Taken(r)  BY <1>2, <2>3, <2>6 DEF Taken
    <3>2. q \in requests => q = r  BY <2>3, <2>6, <3>1 DEF AccessInv, AccChallenges
    <3> QED  BY <2>2, <3>2
  <2>7. n \in AccRequests  BY <2>3 DEF AccRequests
  <2> QED  BY <1>1, <1>2, <2>2, <2>4, <2>5, <2>6, <2>7, AccQuietOne, Running2FA
<1> QED  BY <1>3, <1>4

LEMMA AccFresh == ASSUME AccessInv, NEW r \in requests, FreshUser(r) PROVE AccessInv'
<1>1. r.pc = "fresh" /\ UNCHANGED <<account, initialized, challenges, sessions, apikeys, totpNow, serial, spent, logins>>
  BY DEF FreshUser
<1>2. r \in FreshReqs /\ r.op \in {"enable", "disable"} /\ initialized  BY <1>1, Running2FA, RequestKinds DEF FreshReqs
<1>3. CASE account = None
  <2>1. requests' = requests \ {r}  BY <1>3 DEF FreshUser, Ends
  <2> QED  BY <1>1, <1>2, <2>1, AccQuietNone, Running2FA
<1>4. CASE account # None
  <2>1. PICK n : n = [r EXCEPT !.pc = "session", !.u = account]  OBVIOUS
  <2>2. requests' = (requests \ {r}) \cup {n}  BY <1>4, <2>1 DEF FreshUser, Goes
  <2>3. n \in AccRequests /\ n.op \in {"enable", "disable"} /\ n.pc = "session"
    BY <1>2, <1>4, <2>1, Running2FA DEF FreshReqs, AccRequests
  <2>4. RequestFits(n)' /\ ChallengeFits(n)' /\ ~Taken(n)  BY <2>3 DEF RequestFits, ChallengeFits, Taken
  <2> QED  BY <1>1, <1>2, <2>2, <2>3, <2>4, AccQuietOne, Running2FA
<1> QED  BY <1>3, <1>4

LEMMA AccAdminEdit == ASSUME AccessInv, AdminEdit PROVE AccessInv'
<1>1. /\ account # None /\ initialized /\ serial' = serial + 1
      /\ UNCHANGED <<account, initialized, challenges, sessions, apikeys, totpNow, spent, logins>>
  BY Running2FA DEF AdminEdit
<1>2. PICK a : a = account  OBVIOUS
<1>3. a \in UserRows /\ RowGood(a) /\ RowGood(a)' /\ RowRead(a)' /\ serial \in Nat /\ serial' \in Nat /\ serial <= serial' /\ account' = a
  BY <1>1, <1>2, Running2FA, RowGoodKept, UserFields DEF RowRead
<1>4. ASSUME NEW u \in UserRows, RowGood(u)', NEW b \in BOOLEAN, NEW m, m = [op |-> "admin", pc |-> "write", was |-> a, u |-> u, clear |-> b]
      PROVE  m \in AdminReqs /\ m.op = "admin" /\ m.pc = "write" /\ WriteFits(m)'
  <2>1. m \in AdminReqs /\ m.op = "admin" /\ m.pc = "write" /\ m.was = a /\ m.u = u  BY <1>3, <1>4 DEF AdminReqs
  <2> QED  BY <1>3, <1>4, <2>1 DEF WriteFits
<1>5. ASSUME NEW u \in UserRows, u.totp = a.totp, u.secret = a.secret, u.last = a.last, u.codes = a.codes PROVE RowGood(u)'
  <2>1. RowGood(u)  BY <1>3, <1>5, RowGoodSame
  <2> QED  BY <1>1, <1>3, <2>1, RowGoodKept
<1>6. PICK n \in AdminEdits : requests' = requests \cup {n}  BY DEF AdminEdit
<1>7. n \in AccRequests /\ n.op = "admin" /\ RequestFits(n)'
  <2>1. CASE n = AdminWrite([account EXCEPT !.on = ~@], TRUE)
    <3>1. PICK u : u = [a EXCEPT !.on = ~@]  OBVIOUS
    <3>2. u \in UserRows /\ u.totp = a.totp /\ u.secret = a.secret /\ u.last = a.last /\ u.codes = a.codes
      BY <1>3, <3>1 DEF UserRows
    <3>3. n \in AdminReqs /\ n.op = "admin" /\ n.pc = "write" /\ WriteFits(n)'
      BY <1>2, <1>4, <1>5, <2>1, <3>1, <3>2 DEF AdminWrite
    <3> QED  BY <3>3 DEF RequestFits, AccRequests
  <2>2. CASE n = AdminWrite([account EXCEPT !.role = "user"], TRUE)
    <3>1. PICK u : u = [a EXCEPT !.role = "user"]  OBVIOUS
    <3>2. u \in UserRows /\ u.totp = a.totp /\ u.secret = a.secret /\ u.last = a.last /\ u.codes = a.codes
      BY <1>3, <3>1 DEF UserRows
    <3>3. n \in AdminReqs /\ n.op = "admin" /\ n.pc = "write" /\ WriteFits(n)'
      BY <1>2, <1>4, <1>5, <2>2, <3>1, <3>2 DEF AdminWrite
    <3> QED  BY <3>3 DEF RequestFits, AccRequests
  <2>3. CASE n = AdminWrite(ClearTOTP(account), TRUE)
    <3>1. PICK u : u = ClearTOTP(a)  OBVIOUS
    <3>2. u \in UserRows /\ u.totp = FALSE /\ u.secret = 0 /\ u.last = 0 /\ u.codes = {}
      BY <1>3, <3>1 DEF UserRows, ClearTOTP
    <3>3. RowGood(u)'  BY <1>1, <1>3, <3>2, RowGoodCleared, RowGoodKept
    <3>4. n \in AdminReqs /\ n.op = "admin" /\ n.pc = "write" /\ WriteFits(n)'
      BY <1>2, <1>4, <2>3, <3>1, <3>2, <3>3 DEF AdminWrite
    <3> QED  BY <3>4 DEF RequestFits, AccRequests
  <2>4. CASE n = [op |-> "admin", pc |-> "before", u |-> account,
                  then |-> AdminWrite([account EXCEPT !.pw = serial + 1], FALSE)]
    <3>1. PICK u : u = [a EXCEPT !.pw = serial + 1]  OBVIOUS
    <3>2. u \in UserRows /\ u.totp = a.totp /\ u.secret = a.secret /\ u.last = a.last /\ u.codes = a.codes
      BY <1>1, <1>3, <3>1 DEF UserRows
    <3>3. PICK m : m = [op |-> "admin", pc |-> "write", was |-> a, u |-> u, clear |-> FALSE]  OBVIOUS
    <3>4. m \in AdminReqs /\ WriteFits(m)'  BY <1>4, <1>5, <3>2, <3>3
    <3>5. n.op = "admin" /\ n.pc = "before" /\ n.then = m /\ n \in BeforeReqs
      BY <1>2, <1>3, <2>4, <3>1, <3>3, <3>4 DEF AdminWrite, BeforeReqs
    <3> QED  BY <3>4, <3>5 DEF RequestFits, AccRequests
  <2> QED  BY <1>6, <2>1, <2>2, <2>3, <2>4 DEF AdminEdits
<1>8. ChallengeFits(n)' /\ ~Taken(n)  BY <1>7 DEF ChallengeFits, Taken
<1> QED  BY <1>1, <1>3, <1>6, <1>7, <1>8, AccQuietOne, Running2FA

(* Copies with some fields replaced *)
WithSecret(u, k) == [u EXCEPT !.secret = k, !.last = 0]
WithFactor(u, t, k) == [u EXCEPT !.totp = TRUE, !.last = t, !.codes = {k}]
LEMMA RowWithSecret == ASSUME NEW a \in UserRows, NEW k \in Nat, NEW e, e = WithSecret(a, k)
                       PROVE  e \in UserRows /\ e.totp = a.totp /\ e.secret = k /\ e.last = 0 /\ e.codes = a.codes
  BY DEF UserRows, WithSecret, WithFactor
Enabled2FA(e, a, t, k) == e \in UserRows /\ e.totp = TRUE /\ e.secret = a.secret /\ e.last = t /\ e.codes = {k}
LEMMA RowEnabled == \A a \in UserRows : \A t, k \in Nat : \A e : e = WithFactor(a, t, k) => Enabled2FA(e, a, t, k)
<1> SUFFICES ASSUME NEW a \in UserRows, NEW t \in Nat, NEW k \in Nat, NEW e, e = WithFactor(a, t, k)
             PROVE  Enabled2FA(e, a, t, k)
  BY Zenon
<1> QED  BY DEF UserRows, WithFactor, Enabled2FA
LEMMA RowCleared == ASSUME NEW a \in UserRows, NEW e, e = ClearTOTP(a)
                    PROVE  e \in UserRows /\ e.totp = FALSE /\ e.secret = 0 /\ e.last = 0 /\ e.codes = {}
  BY DEF UserRows, ClearTOTP

(* The owner's edits of a copy *)
LEMMA EditedCases ==
  ASSUME NEW r \in OwnReqs, NEW u, NEW e, e = Edited(r, u), e # None
  PROVE  \/ r.op = "setup2fa" /\ ~u.totp /\ e = [u EXCEPT !.secret = serial + 1, !.last = 0]
         \/ r.op = "enable" /\ ~u.totp /\ u.secret # 0 /\ Verifies(u, r.code, 0)
            /\ e = [u EXCEPT !.totp = TRUE, !.last = r.code.step, !.codes = {serial + 1}]
         \/ r.op = "disable" /\ (u.totp => Factor(u, r.code)) /\ e = ClearTOTP(u)
         \/ r.op = "recovery" /\ u.totp /\ Factor(u, r.code) /\ e = [Consumed(u, r.code) EXCEPT !.codes = {serial + 1}]
         \/ r.op = "password" /\ e = [u EXCEPT !.pw = serial + 1]
         \/ r.op = "profile" /\ e = u
         \/ r.op = "key" /\ u.totp /\ Factor(u, r.code) /\ e = Consumed(u, r.code)
         \/ r.op = "key" /\ ~u.totp /\ e = u
  BY DEF Edited, OwnReqs, SelfOps

LEMMA EditedFits ==
  ASSUME AccessInv, account # None, NEW r \in OwnReqs, NEW e, e = Edited(r, account), e # None,
         UNCHANGED <<account, spent>>, serial' = serial + 1
  PROVE  /\ e \in UserRows /\ RowGood(e)'
         /\ r.op = "key" => SameFactor(e, account) /\ e.upd = account.upd
         /\ r.op = "enable" \/ (account.totp /\ r.op \in {"login2fa", "disable", "recovery", "key"})
              => CodeKnown(r.code)' /\ r.code \notin DOMAIN spent /\ CodeUsed(r.code, e)
<1> DEFINE Used == CodeKnown(r.code)' /\ r.code \notin DOMAIN spent /\ CodeUsed(r.code, e)
           Fine == e \in UserRows /\ RowGood(e)'
<1>0. PICK a : a = account  OBVIOUS
<1>1. a \in UserRows /\ RowGood(a) /\ RowGood(a)' /\ serial \in Nat /\ serial' \in Nat /\ serial <= serial' /\ serial' = serial + 1
  BY <1>0, Running2FA, RowGoodKept
<1>2. /\ a.pw \in Nat /\ a.on \in BOOLEAN /\ a.totp \in BOOLEAN /\ a.secret \in Nat /\ a.last \in Nat
      /\ a.codes \subseteq Nat /\ a.ver \in Nat /\ a.upd \in Nat
  BY <1>1, UserFields
<1>3. r.op \in SelfOps /\ r.code \in FactorCodes /\ r.code.step \in Nat /\ r.code.secret \in Nat  BY DEF OwnReqs, FactorCodes
<1>4. \A f \in DOMAIN spent : /\ CodeUsed(f, a) /\ f \in FactorCodes /\ f.step \in Nat /\ f.id \in Nat
                              /\ (f.kind = "totp" => f.secret # 0 /\ f.secret <= serial /\ f.secret \in Nat)
                              /\ (f.kind = "recovery" => f.id <= serial)
  BY <1>1 DEF RowGood, AccessInv, AccSpent, CodeKnown, FactorCodes
<1>5. CASE r.op = "setup2fa" /\ ~a.totp /\ e = [a EXCEPT !.secret = serial + 1, !.last = 0]
  <2>1. /\ e \in UserRows /\ e.totp = FALSE /\ e.secret = serial + 1 /\ e.last = 0 /\ e.codes = a.codes
    <3>1. a \in UserRows /\ a.totp = FALSE /\ serial + 1 \in Nat /\ e = [a EXCEPT !.secret = serial + 1, !.last = 0]
      BY <1>1, <1>2, <1>5
    <3>2. PICK k : k = serial + 1  OBVIOUS
    <3>3. k \in Nat /\ e = WithSecret(a, k)  BY <3>1, <3>2, Zenon DEF WithSecret
    <3>4. e \in UserRows /\ e.totp = a.totp /\ e.secret = k /\ e.last = 0 /\ e.codes = a.codes  
      <4>1. a \in UserRows  BY <1>1
      <4> HIDE <3>1
      <4> QED  BY <4>1, <3>3, RowWithSecret
    <3> QED  BY <3>1, <3>2, <3>4, Zenon
  <2>2. \A f \in DOMAIN spent : CodeUsed(f, e)  BY <1>1, <1>4, <2>1 DEF CodeUsed
  <2>3. RowGood(e)'  BY <1>1, <2>1, <2>2 DEF RowGood
  <2> QED  BY <1>0, <1>5, <2>1, <2>3
<1>6. CASE r.op = "enable" /\ ~a.totp /\ a.secret # 0 /\ Verifies(a, r.code, 0)
            /\ e = [a EXCEPT !.totp = TRUE, !.last = r.code.step, !.codes = {serial + 1}]
  <2>1. /\ e \in UserRows /\ e.totp = TRUE /\ e.secret = a.secret /\ e.last = r.code.step /\ e.codes = {serial + 1}
    <3>1. /\ a \in UserRows /\ r.code.step \in Nat /\ serial + 1 \in Nat
          /\ e = [a EXCEPT !.totp = TRUE, !.last = r.code.step, !.codes = {serial + 1}]
      BY <1>1, <1>3, <1>6
    <3>2. PICK k : k = serial + 1  OBVIOUS
    <3>3. PICK t : t = r.code.step  OBVIOUS
    <3>4. k \in Nat /\ t \in Nat /\ e = WithFactor(a, t, k)  BY <3>1, <3>2, <3>3, Zenon DEF WithFactor
    <3>5. e \in UserRows /\ e.totp = TRUE /\ e.secret = a.secret /\ e.last = t /\ e.codes = {k}  
      <4>1. a \in UserRows  BY <1>1
      <4>2. Enabled2FA(e, a, t, k)  BY <4>1, <3>4, RowEnabled, Zenon
      <4> QED  BY <4>2, Zenon DEF Enabled2FA
    <3> QED  BY <3>2, <3>3, <3>5, Zenon
  <2>2. a.last = 0 /\ a.secret <= serial  BY <1>1, <1>6 DEF RowGood
  <2>3. r.code.kind = "totp" /\ r.code.secret = a.secret /\ r.code.step > 0  BY <1>6 DEF Verifies
  <2>4. \A f \in DOMAIN spent : CodeUsed(f, e)  BY <1>1, <1>3, <1>4, <2>1, <2>2, <2>3 DEF CodeUsed
  <2>5. RowGood(e)'  BY <1>1, <1>2, <1>6, <2>1, <2>2, <2>4 DEF RowGood
  <2>6. r.code \notin DOMAIN spent  BY <1>3, <1>4, <2>2, <2>3 DEF CodeUsed
  <2>7. CodeKnown(r.code)'  BY <1>1, <1>2, <1>3, <1>6, <2>2, <2>3 DEF CodeKnown
  <2>8. CodeUsed(r.code, e)  BY <1>3, <2>1, <2>3 DEF CodeUsed
  <2> QED  BY <1>6, <2>1, <2>5, <2>6, <2>7, <2>8
<1>7. CASE r.op = "disable" /\ (a.totp => Factor(a, r.code)) /\ e = ClearTOTP(a)
  <2>1. e \in UserRows /\ e.totp = FALSE /\ e.secret = 0 /\ e.last = 0 /\ e.codes = {}
    <3>1. a \in UserRows /\ e = ClearTOTP(a)  BY <1>1, <1>7
    <3> QED  BY <3>1, RowCleared
  <2>2. RowGood(e)'  BY <1>1, <2>1, RowGoodCleared, RowGoodKept
  <2>3. ASSUME a.totp PROVE Used
    <3>1. PICK w : w = Consumed(account, r.code)  OBVIOUS
    <3>2. CodeKnown(r.code) /\ r.code \notin DOMAIN spent  BY <1>0, <1>3, <1>7, <2>3, <3>1, FactorFits
    <3>3. CodeKnown(r.code)'  BY <1>1, <3>2, CodeKnownKept
    <3>4. CodeUsed(r.code, e)  BY <2>1, <3>2 DEF CodeKnown, CodeUsed
    <3> QED  BY <3>2, <3>3, <3>4
  <2> QED  BY <1>0, <1>7, <2>1, <2>2, <2>3
<1>8. CASE r.op = "recovery" /\ a.totp /\ Factor(a, r.code) /\ e = [Consumed(a, r.code) EXCEPT !.codes = {serial + 1}]
  <2>1. PICK w : w = Consumed(a, r.code)  OBVIOUS
  <2>2. /\ w \in UserRows /\ RowGood(w) /\ SameFactor(w, a)
        /\ CodeKnown(r.code) /\ r.code \notin DOMAIN spent /\ CodeUsed(r.code, w)
    BY <1>0, <1>3, <1>8, <2>1, FactorFits
  <2>3. e \in UserRows /\ e.totp = w.totp /\ e.secret = w.secret /\ e.last = w.last /\ e.codes = {serial + 1}
    BY <1>1, <1>8, <2>1, <2>2 DEF UserRows
  <2>4. \A f \in DOMAIN spent : CodeUsed(f, e)  BY <1>1, <1>4, <2>2, <2>3 DEF CodeUsed, RowGood
  <2>5. w.totp = TRUE /\ w.secret \in Nat  BY <1>2, <1>8, <2>2, UserFields DEF SameFactor
  <2>6. RowGood(e)'  BY <1>1, <2>2, <2>3, <2>4, <2>5 DEF RowGood
  <2>7. CodeKnown(r.code)'  BY <1>1, <2>2, CodeKnownKept
  <2>8. CodeUsed(r.code, e)
    <3>1. r.code.kind = "recovery" => r.code.id <= serial /\ r.code.id \in Nat  BY <2>2 DEF CodeKnown, FactorCodes
    <3> QED  BY <1>1, <2>2, <2>3, <3>1 DEF CodeUsed
  <2> QED  BY <1>8, <2>2, <2>3, <2>6, <2>7, <2>8
<1>9. CASE r.op = "password" /\ e = [a EXCEPT !.pw = serial + 1]
  <2>1. e \in UserRows /\ e.totp = a.totp /\ e.secret = a.secret /\ e.last = a.last /\ e.codes = a.codes
    BY <1>1, <1>9 DEF UserRows
  <2>2. RowGood(e)'  BY <1>1, <2>1, RowGoodSame, RowGoodKept
  <2> QED  BY <1>9, <2>1, <2>2
<1>10. CASE r.op = "profile" /\ e = a
  BY <1>1, <1>10
<1>11. CASE r.op = "key" /\ a.totp /\ Factor(a, r.code) /\ e = Consumed(a, r.code)
  <2>1. /\ e \in UserRows /\ RowGood(e) /\ SameFactor(e, a) /\ e.upd = a.upd
        /\ CodeKnown(r.code) /\ r.code \notin DOMAIN spent /\ CodeUsed(r.code, e)
    BY <1>0, <1>3, <1>11, FactorFits
  <2>2. CodeKnown(r.code)' /\ RowGood(e)'  BY <1>1, <2>1, CodeKnownKept, RowGoodKept
  <2> QED  BY <1>0, <1>11, <2>1, <2>2
<1>12. CASE r.op = "key" /\ ~a.totp /\ e = a
  BY <1>0, <1>1, <1>12 DEF SameFactor
<1> HIDE DEF Used, Fine
<1>13. \/ r.op = "setup2fa" /\ ~a.totp /\ e = [a EXCEPT !.secret = serial + 1, !.last = 0]
       \/ r.op = "enable" /\ ~a.totp /\ a.secret # 0 /\ Verifies(a, r.code, 0)
            /\ e = [a EXCEPT !.totp = TRUE, !.last = r.code.step, !.codes = {serial + 1}]
       \/ r.op = "disable" /\ (a.totp => Factor(a, r.code)) /\ e = ClearTOTP(a)
       \/ r.op = "recovery" /\ a.totp /\ Factor(a, r.code) /\ e = [Consumed(a, r.code) EXCEPT !.codes = {serial + 1}]
       \/ r.op = "password" /\ e = [a EXCEPT !.pw = serial + 1]
       \/ r.op = "profile" /\ e = a
       \/ r.op = "key" /\ a.totp /\ Factor(a, r.code) /\ e = Consumed(a, r.code)
       \/ r.op = "key" /\ ~a.totp /\ e = a
  <2>1. e = Edited(r, a)  BY <1>0
  <2> QED  BY <2>1, EditedCases
<1> QED  BY <1>5, <1>6, <1>7, <1>8, <1>9, <1>10, <1>11, <1>12, <1>13, Zenon

LEMMA AccLoadUser == ASSUME AccessInv, NEW r \in requests, LoadUser(r) PROVE AccessInv'
<1>1. /\ r.pc = "user" /\ serial' = serial + 1
      /\ UNCHANGED <<account, initialized, challenges, sessions, apikeys, totpNow, spent, logins>>
  BY DEF LoadUser
<1>2. r \in OwnReqs /\ r.op \in SelfOps /\ r.code \in FactorCodes /\ initialized
  BY <1>1, Running2FA, RequestKinds DEF OwnReqs, SelfOps
<1>3. serial' \in Nat /\ serial <= serial'  BY <1>1, Running2FA
<1>4. CASE requests' = requests \ {r}  BY <1>1, <1>2, <1>3, <1>4, AccQuietNone, Running2FA
<1>5. CASE requests' # requests \ {r}
  <2>1. PICK a : a = account  OBVIOUS
  <2>2. PICK e : e = Edited(r, a)  OBVIOUS
  <2>3. PICK n : n = [op |-> r.op, pc |-> WriteOf(r, a), code |-> r.code, was |-> a, u |-> e]  OBVIOUS
  <2>4. account # None /\ e # None /\ requests' = (requests \ {r}) \cup {n}
    BY <1>5, <2>1, <2>2, <2>3 DEF LoadUser, Goes, Ends
  <2>5. /\ e \in UserRows /\ RowGood(e)'
        /\ r.op = "key" => SameFactor(e, a)
        /\ r.op = "enable" \/ (a.totp /\ r.op \in {"login2fa", "disable", "recovery", "key"})
              => CodeKnown(r.code)' /\ r.code \notin DOMAIN spent /\ CodeUsed(r.code, e)
    BY <1>1, <1>2, <2>1, <2>2, <2>4, EditedFits
  <2>6. n.op = r.op /\ n.pc = WriteOf(r, a) /\ n.code = r.code /\ n.was = a /\ n.u = e  BY <2>3
  <2>7. a \in UserRows /\ account' = a  BY <1>1, <2>1, <2>4, Running2FA
  <2>8. /\ n \in AccRequests /\ n.pc \in {"write", "cas", "key"}
        /\ (n.pc = "key" => r.op = "key" /\ e = a)
    <3>1. CASE r.op \in {"password", "profile"}
      <4>1. n.pc = "write"  BY <2>6, <3>1 DEF WriteOf
      <4>2. n \in EditReqs  BY <1>2, <2>3, <2>5, <2>6, <2>7, <3>1, <4>1 DEF EditReqs
      <4> QED  BY <4>1, <4>2 DEF AccRequests
    <3>2. CASE r.op = "key" /\ ~a.totp
      <4>1. n.pc = "key"  BY <2>6, <3>2 DEF WriteOf
      <4>2. n \in KeyReqs  BY <1>2, <2>3, <2>5, <2>6, <2>7, <3>2, <4>1 DEF KeyReqs
      <4>3. e = a  BY <1>2, <2>2, <2>4, <3>2, EditedCases
      <4> QED  BY <3>2, <4>1, <4>2, <4>3 DEF AccRequests
    <3>3. CASE r.op \notin {"password", "profile"} /\ ~(r.op = "key" /\ ~a.totp)
      <4>1. n.pc = "cas"  BY <2>6, <3>3 DEF WriteOf
      <4>2. r.op \in {"setup2fa", "enable", "disable", "recovery", "key"}  BY <1>2, <3>3 DEF SelfOps
      <4>3. n \in CasReqs  BY <1>2, <2>3, <2>5, <2>6, <2>7, <4>1, <4>2 DEF CasReqs
      <4> QED  BY <4>1, <4>3 DEF AccRequests
    <3> QED  BY <3>1, <3>2, <3>3
  <2>9. WriteFits(n)' 
    <3>1. RowRead(a)'  BY <2>7, UserFields DEF RowRead
    <3> QED  BY <2>5, <2>6, <3>1 DEF WriteFits
  <2>10. CodeFits(n)'  BY <1>1, <2>5, <2>6 DEF CodeFits, Accepts
  <2>11. n.op # "login" /\ n.op # "login2fa"  BY <1>2, <2>6 DEF SelfOps
  <2>12. n.pc = "key" => VersionFits(n.u)'  BY <2>6, <2>7, <2>8, UserFields DEF VersionFits
  <2>13. RequestFits(n)'  BY <2>5, <2>6, <2>8, <2>9, <2>10, <2>11, <2>12 DEF RequestFits, CasFits
  <2>14. ChallengeFits(n)' /\ ~Taken(n)  BY <2>11 DEF ChallengeFits, Taken
  <2> QED  BY <1>1, <1>2, <1>3, <2>4, <2>8, <2>13, <2>14, AccQuietOne, Running2FA
<1> QED  BY <1>4, <1>5

-----------------------------------------------------------------------------
(* Steps on sessions, keys and the row *)
LEMMA AccStart == ASSUME AccessInv, NEW r \in requests, StartSession(r) PROVE AccessInv'
<1>1. /\ r.pc = "session" /\ requests' = requests \ {r}
      /\ UNCHANGED <<account, initialized, challenges, apikeys, totpNow, serial, spent>>
  BY DEF StartSession, Ends
<1>2. r \in AccRequests /\ r \in LoginReqs \cup FreshReqs /\ initialized /\ RequestFits(r) /\ ChallengeFits(r)
  BY <1>1, Running2FA, RequestKinds DEF LoginReqs, FreshReqs
<1>3. r.op \in {"login", "enable", "disable"} /\ r.u \in UserRows /\ (r.op = "login" => r.chal \in Nat)
  BY <1>2 DEF LoginReqs, FreshReqs
<1>4. CASE UNCHANGED <<sessions, logins>>  BY <1>1, <1>2, <1>4, AccQuietNone, Running2FA
<1>5. CASE Authorized(r.u)
  <2>1. PICK s : s = [ver |-> account.ver, by |-> r.op, pw |-> r.u.pw, totp |-> r.u.totp]  OBVIOUS
  <2>2. sessions' = sessions \cup {s} /\ account # None /\ account.ver = r.u.ver
        /\ logins' = IF r.op = "login" /\ r.chal > 0 THEN Count(logins, r.chal) ELSE logins
    BY <1>5, <2>1 DEF StartSession, NewSession, Authorized
  <2>3. account \in UserRows /\ account.ver \in Nat  BY <2>2, Running2FA, UserFields
  <2>4. s \in SessionRows /\ s.ver = account.ver /\ s.by = r.op /\ s.pw = r.u.pw /\ s.totp = r.u.totp
    BY <1>3, <2>1, <2>3, UserFields DEF SessionRows
  <2>5. s.by = "login" => VersionFits(s)
    BY <1>2, <2>2, <2>3, <2>4 DEF RequestFits, VersionFits
  <2>6. AccTyped'  BY <1>1, <2>2, <2>4 DEF AccessInv, AccTyped
  <2>7. AccSpent' /\ AccRow'
    <3>1. serial' \in Nat /\ serial <= serial'  BY <1>1, Running2FA
    <3>2. AccSpent' /\ RowGood(account)'  BY <1>1, <2>2, <3>1, AccRowKept
    <3> QED  BY <1>1, <1>2, <3>2 DEF AccRow
  <2>8. AccIssued'
    <3>1. ActiveKeys' = ActiveKeys  BY <1>1 DEF ActiveKeys
    <3>2. s.ver <= account.ver  BY <2>3, <2>4
    <3> QED  BY <1>1, <2>2, <2>5, <3>1, <3>2 DEF AccessInv, AccIssued, VersionFits
  <2>9. AccReqs'
    <3>1. PICK N : N = {}  OBVIOUS
    <3>2. requests' \subseteq requests \cup N /\ \A n \in N : RequestFits(n)'  BY <1>1, <3>1
    <3>3. serial' \in Nat /\ serial <= serial'  BY <1>1, Running2FA
    <3>4. UNCHANGED <<account, spent>>  BY <1>1
    <3> QED  BY <3>2, <3>3, <3>4, AccReqsKept
  <2>10. AccChallenges'
    <3>1. DOMAIN logins' \subseteq DOMAIN logins \cup {r.chal} /\ \A c \in DOMAIN logins' : logins'[c] = 1
      <4>1. CASE r.op = "login" /\ r.chal > 0
        <5>1. Taken(r)  BY <1>3, <4>1 DEF Taken
        <5>2. r.chal \notin DOMAIN logins  BY <1>2, <5>1 DEF ChallengeFits
        <5>3. \A c \in DOMAIN logins : logins[c] = 1  BY DEF AccessInv, AccChallenges
        <5> QED  BY <2>2, <4>1, <5>2, <5>3 DEF Count
      <4>2. CASE ~(r.op = "login" /\ r.chal > 0)  BY <2>2, <4>2 DEF AccessInv, AccChallenges
      <4> QED  BY <4>1, <4>2
    <3>2. DOMAIN logins' # DOMAIN logins => r.op = "login" /\ r.chal > 0  BY <2>2
    <3>3. DOMAIN logins' # DOMAIN logins => r.chal \in 1 .. serial /\ Taken(r) /\ r.chal \notin DOMAIN challenges
      BY <1>2, <1>3, <3>2, Running2FA DEF ChallengeFits, Taken
    <3>4. \A c \in DOMAIN challenges' : c \in 1 .. serial' /\ c \notin DOMAIN logins'
      BY <1>1, <3>1, <3>3 DEF AccessInv, AccChallenges
    <3>5. \A c \in DOMAIN logins' : c \in 1 .. serial' /\ logins'[c] = 1
      BY <1>1, <3>1, <3>3 DEF AccessInv, AccChallenges
    <3>6. ASSUME NEW q \in requests' PROVE ChallengeFits(q)'
      <4>1. q \in requests /\ q # r /\ ChallengeFits(q)  BY <1>1, Running2FA
      <4>2. Taken(q) => q.chal \notin DOMAIN logins'
        BY <3>1, <3>3, <4>1 DEF AccessInv, AccChallenges, ChallengeFits
      <4> QED  BY <1>1, <4>1, <4>2 DEF ChallengeFits, Taken
    <3>7. \A p, q \in requests' : Taken(p) /\ Taken(q) /\ p.chal = q.chal => p = q
      BY <1>1 DEF AccessInv, AccChallenges
    <3> QED  BY <3>4, <3>5, <3>6, <3>7 DEF AccChallenges, Taken
  <2> QED  BY <2>6, <2>7, <2>8, <2>9, <2>10 DEF AccessInv
<1> QED  BY <1>4, <1>5 DEF StartSession

LEMMA AccClear == ASSUME AccessInv, NEW r \in requests, DeleteUserSessions(r) PROVE AccessInv'
<1>1. /\ r.pc \in {"clear", "before"} /\ sessions' = {}
      /\ UNCHANGED <<account, initialized, challenges, apikeys, totpNow, serial, spent, logins>>
  BY DEF DeleteUserSessions
<1>2. r \in ClearReqs \cup BeforeReqs /\ r \in AccRequests /\ initialized /\ RequestFits(r)
  BY <1>1, Running2FA, RequestKinds DEF ClearReqs, BeforeReqs
<1>3. CASE r.op = "password"
  <2>1. PICK n : n = [r EXCEPT !.pc = "own"]  OBVIOUS
  <2>2. requests' = (requests \ {r}) \cup {n}  BY <1>3, <2>1 DEF DeleteUserSessions, Goes
  <2>3. n \in ClearReqs /\ n.op = "password" /\ n.pc = "own"  BY <1>2, <1>3, <2>1 DEF ClearReqs, BeforeReqs
  <2>4. RequestFits(n)' /\ ChallengeFits(n)' /\ ~Taken(n)  BY <2>3 DEF RequestFits, ChallengeFits, Taken
  <2>5. n \in AccRequests  BY <2>3 DEF AccRequests
  <2> QED  BY <1>1, <1>2, <2>2, <2>4, <2>5, AccQuietOne, Running2FA
<1>4. CASE r.op # "password" /\ r.pc = "before"
  <2>1. PICK n : n = r.then  OBVIOUS
  <2>2. requests' = (requests \ {r}) \cup {n}  BY <1>4, <2>1 DEF DeleteUserSessions, Goes
  <2>3. n \in AdminReqs /\ n.op = "admin" /\ n.pc = "write"  BY <1>2, <1>4, <2>1, AccReqFields DEF AdminReqs
  <2>4. n \in AccRequests  BY <2>3 DEF AccRequests
  <2>5. RequestFits(n)
    <3>1. WriteFits(n)  BY <1>2, <1>4, <2>1 DEF RequestFits
    <3> QED  BY <2>3, <3>1 DEF RequestFits
  <2>6. RequestFits(n)'  BY <1>1, <2>4, <2>5, RequestKept, Running2FA
  <2>7. ChallengeFits(n)' /\ ~Taken(n)  BY <2>3 DEF ChallengeFits, Taken
  <2> QED  BY <1>1, <1>2, <2>2, <2>4, <2>6, <2>7, AccQuietOne, Running2FA
<1>5. CASE r.op # "password" /\ r.pc # "before"
  <2>1. requests' = requests \ {r}  BY <1>5 DEF DeleteUserSessions, Ends
  <2> QED  BY <1>1, <1>2, <2>1, AccQuietNone, Running2FA
<1> QED  BY <1>3, <1>4, <1>5

(* A step that only changes sessions or keys, and ends a request perhaps *)
LEMMA AccRest ==
  ASSUME AccessInv, UNCHANGED <<account, initialized, challenges, totpNow, spent, logins>>, requests' \subseteq requests,
         serial' \in Nat \ {0}, serial <= serial', initialized,
         sessions' \subseteq SessionRows, apikeys' \subseteq KeyRows, IsFiniteSet(apikeys'), AccIssued'
  PROVE  AccessInv'
<1>1. AccTyped'  BY DEF AccessInv, AccTyped
<1>2. AccSpent' /\ AccRow'  BY AccRowKept DEF AccessInv, AccRow
<1>3. PICK N : N = {}  OBVIOUS
<1>4. requests' \subseteq requests \cup N /\ \A n \in N : RequestFits(n)' /\ ChallengeFits(n)' /\ ~Taken(n)  BY <1>3
<1>5. AccReqs'  BY <1>4, AccReqsKept
<1>6. AccChallenges'  BY <1>4, AccChallengesKept
<1> QED  BY <1>1, <1>2, <1>5, <1>6 DEF AccessInv

LEMMA AccKeep == ASSUME AccessInv, NEW r \in requests, KeepSession(r) PROVE AccessInv'
<1>1. /\ r.pc = "own" /\ requests' = requests \ {r}
      /\ UNCHANGED <<account, initialized, challenges, apikeys, totpNow, serial, spent, logins>>
  BY DEF KeepSession, Ends
<1>2. r \in ClearReqs /\ r.u \in UserRows /\ initialized  BY <1>1, Running2FA, RequestKinds DEF ClearReqs
<1>3. CASE UNCHANGED sessions  BY <1>1, <1>2, <1>3, AccQuietNone, Running2FA
<1>4. CASE account # None /\ account.on
  <2>1. PICK s : s = [ver |-> account.ver, by |-> "password", pw |-> r.u.pw, totp |-> r.u.totp]  OBVIOUS
  <2>2. sessions' = sessions \cup {s}  BY <1>4, <2>1 DEF KeepSession, NewSession
  <2>3. account.ver \in Nat  BY <1>4, Running2FA, UserFields
  <2>4. s \in SessionRows /\ s.ver = account.ver /\ s.by = "password"  BY <1>2, <2>1, <2>3, UserFields DEF SessionRows
  <2>5. AccIssued'
    <3>1. ActiveKeys' = ActiveKeys  BY <1>1 DEF ActiveKeys
    <3>2. s.ver <= account.ver /\ s.by # "login"  BY <2>3, <2>4
    <3> QED  BY <1>1, <2>2, <3>1, <3>2 DEF AccessInv, AccIssued, VersionFits
  <2>6. sessions' \subseteq SessionRows /\ apikeys' \subseteq KeyRows /\ IsFiniteSet(apikeys')
    BY <1>1, <2>2, <2>4 DEF AccessInv, AccTyped
  <2> QED  BY <1>1, <1>2, <2>5, <2>6, AccRest, Running2FA
<1> QED  BY <1>3, <1>4 DEF KeepSession

LEMMA AccLogout == ASSUME AccessInv, Logout PROVE AccessInv'
<1>1. /\ account # None /\ sessions' \subseteq sessions
      /\ UNCHANGED <<account, initialized, challenges, apikeys, requests, totpNow, serial, spent, logins>>
  BY DEF Logout, SessionUsable
<1> QED  BY <1>1, AccQuietNone, Running2FA

(* Keys *)
LEMMA ActiveFinite == ASSUME AccessInv PROVE
  IsFiniteSet(ActiveKeys) /\ Cardinality(ActiveKeys) \in Nat
<1>1. ActiveKeys \subseteq apikeys /\ IsFiniteSet(apikeys)  BY DEF ActiveKeys, AccessInv, AccTyped
<1> QED  BY <1>1, FS_Subset, FS_CardinalityType

LEMMA AccCreateKey == ASSUME AccessInv, NEW r \in requests, CreateAPIKey(r) PROVE AccessInv'
<1>1. /\ r.pc = "key" /\ requests' = requests \ {r} /\ serial' = serial + 1
      /\ UNCHANGED <<account, initialized, challenges, sessions, totpNow, spent, logins>>
  BY DEF CreateAPIKey, Ends
<1>2. r \in KeyReqs /\ r.u \in UserRows /\ initialized /\ RequestFits(r) /\ serial' \in Nat \ {0} /\ serial <= serial'
  BY <1>1, Running2FA, RequestKinds DEF KeyReqs
<1>3. CASE apikeys' = apikeys  BY <1>1, <1>2, <1>3, AccQuietNone, Running2FA
<1>4. CASE apikeys' # apikeys
  <2>1. PICK k : k = [id |-> serial + 1, ver |-> account.ver, revoked |-> FALSE, expired |-> FALSE,
                      pw |-> r.u.pw, totp |-> r.u.totp]  OBVIOUS
  <2>2. apikeys' = apikeys \cup {k} /\ account # None /\ account.ver = r.u.ver /\ Cardinality(ActiveKeys) < MaxActiveAPIKeys
    BY <1>4, <2>1 DEF CreateAPIKey
  <2>3. account.ver \in Nat /\ serial + 1 \in Nat  BY <2>2, Running2FA, UserFields
  <2>4. /\ k \in KeyRows /\ k.ver = account.ver /\ k.pw = r.u.pw /\ k.totp = r.u.totp /\ k.revoked = FALSE
    BY <1>2, <2>1, <2>3, UserFields DEF KeyRows
  <2>5. VersionFits(k)  BY <1>1, <1>2, <2>2, <2>3, <2>4 DEF RequestFits, VersionFits
  <2>6. Cardinality(ActiveKeys') <= MaxActiveAPIKeys
    <3>1. ActiveKeys' \subseteq ActiveKeys \cup {k}  BY <1>1, <2>2 DEF ActiveKeys
    <3>2. IsFiniteSet(ActiveKeys \cup {k}) /\ Cardinality(ActiveKeys \cup {k}) <= Cardinality(ActiveKeys) + 1
          /\ Cardinality(ActiveKeys \cup {k}) \in Nat
      <4>1. PICK S : S = ActiveKeys  OBVIOUS
      <4>2. IsFiniteSet(S) /\ Cardinality(S) \in Nat  BY <4>1, ActiveFinite
      <4>3. IsFiniteSet(S \cup {k}) /\ (Cardinality(S \cup {k}) = Cardinality(S) \/ Cardinality(S \cup {k}) = Cardinality(S) + 1)
        BY <4>2, FS_AddElement
      <4>4. Cardinality(S \cup {k}) <= Cardinality(S) + 1 /\ Cardinality(S \cup {k}) \in Nat  BY <4>2, <4>3
      <4> QED  BY <4>1, <4>3, <4>4
    <3>3. Cardinality(ActiveKeys') <= Cardinality(ActiveKeys \cup {k}) /\ Cardinality(ActiveKeys') \in Nat
      BY <3>1, <3>2, FS_Subset, FS_CardinalityType
    <3> QED  BY <2>2, <3>2, <3>3, ActiveFinite, AccessAssumption
  <2>7. AccIssued'
    <3>1. k.ver <= account.ver  BY <2>3, <2>4
    <3> QED  BY <1>1, <2>2, <2>5, <2>6, <3>1 DEF AccessInv, AccIssued, VersionFits
  <2>8. sessions' \subseteq SessionRows /\ apikeys' \subseteq KeyRows  BY <1>1, <2>2, <2>4 DEF AccessInv, AccTyped
  <2>9. IsFiniteSet(apikeys')  BY <2>2, FS_AddElement DEF AccessInv, AccTyped
  <2> QED  BY <1>1, <1>2, <2>7, <2>8, <2>9, AccRest
<1> QED  BY <1>3, <1>4

LEMMA AccEndKey == ASSUME AccessInv, EndAPIKey PROVE AccessInv'
<1>1. UNCHANGED <<account, initialized, challenges, sessions, requests, totpNow, serial, spent, logins>>
  BY DEF EndAPIKey
<1>2. PICK k \in apikeys, f \in {"revoked", "expired"} : apikeys' = (apikeys \ {k}) \cup {[k EXCEPT ![f] = TRUE]}
  BY DEF EndAPIKey
<1>3. PICK n : n = [k EXCEPT ![f] = TRUE]  OBVIOUS
<1>4. k \in KeyRows /\ apikeys \subseteq KeyRows /\ IsFiniteSet(apikeys)  BY DEF AccessInv, AccTyped
<1>5. /\ n \in KeyRows /\ n.ver = k.ver /\ n.pw = k.pw /\ n.totp = k.totp
      /\ (n.revoked = TRUE \/ n.revoked = k.revoked) /\ (n.revoked = TRUE \/ n.expired = TRUE)
  <2>1. CASE f = "revoked"
    <3>1. n = [k EXCEPT !.revoked = TRUE]  BY <1>3, <2>1
    <3> QED  BY <1>4, <3>1 DEF KeyRows
  <2>2. CASE f = "expired"
    <3>1. n = [k EXCEPT !.expired = TRUE]  BY <1>3, <2>2
    <3> QED  BY <1>4, <3>1 DEF KeyRows
  <2> QED  BY <2>1, <2>2
<1>6. apikeys' = (apikeys \ {k}) \cup {n}  BY <1>2, <1>3
<1>7. AccIssued'
  <2>1. ActiveKeys' \subseteq ActiveKeys  BY <1>1, <1>5, <1>6 DEF ActiveKeys
  <2>2. Cardinality(ActiveKeys') <= Cardinality(ActiveKeys) /\ Cardinality(ActiveKeys') \in Nat /\ Cardinality(ActiveKeys) \in Nat
    BY <2>1, ActiveFinite, FS_Subset, FS_CardinalityType
  <2>3. account # None => Cardinality(ActiveKeys') <= MaxActiveAPIKeys
    BY <2>2, AccessAssumption DEF AccessInv, AccIssued
  <2>4. account # None => \A s \in sessions : s.ver <= account.ver /\ (s.by = "login" => VersionFits(s))
    BY DEF AccessInv, AccIssued
  <2>5. account # None => \A x \in apikeys : x.ver <= account.ver /\ (~x.revoked => VersionFits(x))
    BY DEF AccessInv, AccIssued
  <2>6. account # None => n.ver <= account.ver /\ (~n.revoked => VersionFits(n))
    BY <1>5, <2>5 DEF VersionFits
  <2> QED  BY <1>1, <1>6, <2>3, <2>4, <2>5, <2>6 DEF AccIssued, VersionFits
<1>8. apikeys' \subseteq KeyRows /\ IsFiniteSet(apikeys')
  BY <1>4, <1>5, <1>6, FS_AddElement, FS_Subset
<1>9. sessions' \subseteq SessionRows  BY <1>1 DEF AccessInv, AccTyped
<1>10. CASE initialized  BY <1>1, <1>7, <1>8, <1>9, <1>10, AccRest, Running2FA
<1>11. CASE ~initialized  BY <1>2, <1>11 DEF AccessInv, AccRow
<1> QED  BY <1>10, <1>11

(* Writes of the row *)
LEMMA RevokedFinite == ASSUME NEW S, IsFiniteSet(S) PROVE IsFiniteSet({[k EXCEPT !.revoked = TRUE] : k \in S})
<1>1. PICK T : T = {[k EXCEPT !.revoked = TRUE] : k \in S}  OBVIOUS
<1>2. PICK f : f = [k \in S |-> [k EXCEPT !.revoked = TRUE]]  OBVIOUS
<1>3. f \in Surjection(S, T)  BY <1>1, <1>2 DEF Surjection
<1>4. IsFiniteSet(T)  BY <1>3, FS_Surjection
<1> QED  BY <1>1, <1>4

LEMMA KeysWritten == ASSUME AccessInv, NEW new, WriteRow(new), RowWritten PROVE
  /\ apikeys' \subseteq KeyRows /\ IsFiniteSet(apikeys')
  /\ \A k \in apikeys' : k.ver <= account'.ver /\ (~k.revoked => VersionFits(k)')
  /\ Cardinality(ActiveKeys') <= MaxActiveAPIKeys
<1>1. apikeys \subseteq KeyRows /\ IsFiniteSet(apikeys)  BY DEF AccessInv, AccTyped
<1>2. /\ account \in UserRows /\ account' \in UserRows /\ account # None /\ account.ver \in Nat /\ account'.ver \in Nat
      /\ account.ver <= account'.ver /\ account' = new
  BY UserFields DEF RowWritten, WriteRow
<1>3. \A k \in apikeys : k.ver \in Nat /\ k.ver <= account.ver /\ (~k.revoked => VersionFits(k))
  BY <1>1, <1>2 DEF AccessInv, AccIssued, KeyRows
<1>4. CASE account'.ver = account.ver
  <2>1. apikeys' = apikeys  BY <1>2, <1>4 DEF WriteRow
  <2>2. ActiveKeys' = ActiveKeys  BY <1>4, <2>1 DEF ActiveKeys
  <2>3. Cardinality(ActiveKeys') <= MaxActiveAPIKeys  BY <1>2, <2>2 DEF AccessInv, AccIssued
  <2>4. \A k \in apikeys : ~k.revoked => VersionFits(k)'  BY <1>3, VersionKept
  <2> QED  BY <1>1, <1>3, <1>4, <2>1, <2>3, <2>4
<1>5. CASE account'.ver # account.ver
  <2>1. apikeys' = {[k EXCEPT !.revoked = TRUE] : k \in apikeys}  BY <1>2, <1>5 DEF WriteRow
  <2>2. ASSUME NEW n \in apikeys' PROVE n \in KeyRows /\ n.revoked = TRUE /\ n.ver <= account'.ver
    <3>1. PICK k \in apikeys : n = [k EXCEPT !.revoked = TRUE]  BY <2>1, <2>2
    <3>2. n \in KeyRows /\ n.revoked = TRUE /\ n.ver = k.ver  BY <1>1, <3>1 DEF KeyRows
    <3>3. k.ver \in Nat /\ k.ver <= account.ver  BY <1>3
    <3> QED  BY <1>2, <3>2, <3>3
  <2>3. IsFiniteSet(apikeys')  BY <1>1, <2>1, RevokedFinite
  <2>4. ActiveKeys' = {}  BY <2>2 DEF ActiveKeys
  <2>5. Cardinality(ActiveKeys') <= MaxActiveAPIKeys  BY <2>4, FS_EmptySet, AccessAssumption
  <2> QED  BY <2>2, <2>3, <2>5
<1> QED  BY <1>4, <1>5

(* The row is written: what the writer needs to know of the new row and of
   the request it goes on with *)
LEMMA AccWritten ==
  ASSUME AccessInv, NEW new, WriteRow(new), RowWritten, initialized, NEW N, requests' \subseteq requests \cup N,
         UNCHANGED <<initialized, challenges, sessions, totpNow, serial, logins>>,
         RowGood(account)', AccSpent', \A n \in N : n \in AccRequests /\ RequestFits(n)' /\ ChallengeFits(n)',
         \A n \in N : Taken(n) => \A q \in requests' : Taken(q) /\ q.chal = n.chal => q = n
  PROVE  AccessInv'
<1>1. /\ apikeys' \subseteq KeyRows /\ IsFiniteSet(apikeys')
      /\ \A k \in apikeys' : k.ver <= account'.ver /\ (~k.revoked => VersionFits(k)')
      /\ Cardinality(ActiveKeys') <= MaxActiveAPIKeys
  BY KeysWritten
<1>2. account \in UserRows /\ account' \in UserRows /\ account # None /\ account' # None /\ account.ver \in Nat /\ account'.ver \in Nat
      /\ account.ver <= account'.ver
  BY UserFields DEF RowWritten
<1>3. AccTyped'  BY <1>1, <1>2 DEF AccessInv, AccTyped
<1>4. AccRow'  BY DEF AccRow
<1>5. AccIssued'
  <2>1. ASSUME NEW s \in sessions PROVE s.ver <= account'.ver /\ (s.by = "login" => VersionFits(s)')
    <3>1. s.ver \in Nat /\ s.ver <= account.ver /\ (s.by = "login" => VersionFits(s))
      BY <1>2 DEF AccessInv, AccTyped, AccIssued, SessionRows
    <3>2. s.by = "login" => VersionFits(s)'  BY <3>1, VersionKept
    <3> QED  BY <1>2, <3>1, <3>2
  <2> QED  BY <1>1, <2>1 DEF AccIssued
<1>6. AccReqs'
  <2>1. \A r \in requests : RequestFits(r)'  BY RequestOutdated, Running2FA
  <2> QED  BY <2>1 DEF AccReqs
<1>7. AccChallenges'  BY AccChallengesKept, Running2FA
<1> QED  BY <1>3, <1>4, <1>5, <1>6, <1>7 DEF AccessInv

LEMMA AccUpdateUser == ASSUME AccessInv, NEW r \in requests, UpdateUser(r) PROVE AccessInv'
<1>1. r.pc = "write" /\ UNCHANGED <<initialized, challenges, sessions, totpNow, serial, spent, logins>>
  BY DEF UpdateUser
<1>2. r \in AccRequests /\ r \in EditReqs \cup AdminReqs /\ initialized /\ RequestFits(r)
  BY <1>1, Running2FA, RequestKinds DEF EditReqs, AdminReqs
<1>3. r.op \in {"password", "profile", "admin"} /\ r.was \in UserRows /\ r.u \in UserRows
  BY <1>2 DEF EditReqs, AdminReqs
<1>4. CASE ~UserUnchanged(r.was)
  <2>1. requests' = requests \ {r} /\ UNCHANGED <<account, apikeys>>  BY <1>4 DEF UpdateUser, Ends
  <2> QED  BY <1>1, <1>2, <2>1, AccQuietNone, Running2FA
<1>5. CASE UserUnchanged(r.was)
  <2>1. WriteRow(UpdatedUser(r.u)) /\ requests' = (requests \ {r}) \cup AfterWrite(r)  BY <1>5 DEF UpdateUser
  <2>2. account # None /\ account.upd = r.was.upd /\ account \in UserRows  BY <1>5, Running2FA DEF UserUnchanged
  <2>3. r.was = account /\ RowGood(r.u)  BY <1>1, <1>2, <2>2 DEF RequestFits, WriteFits, RowRead
  <2>4. PICK new : new = UpdatedUser(r.u)  OBVIOUS
  <2>5. WriteRow(new) /\ account' = new  BY <2>1, <2>4 DEF WriteRow
  <2>6. /\ new \in UserRows /\ new.upd = account.upd + 1 /\ new.pw = r.u.pw /\ new.totp = r.u.totp
        /\ new.secret = r.u.secret /\ new.last = r.u.last /\ new.codes = r.u.codes
        /\ account.ver <= new.ver
        /\ (new.ver = account.ver => account.pw = r.u.pw /\ account.totp = r.u.totp)
    <3>1. PICK b : b = IF account.pw # r.u.pw \/ account.role # r.u.role \/ account.on # r.u.on \/ account.totp # r.u.totp
                       THEN 1 ELSE 0  OBVIOUS
    <3>2. b \in {0, 1} /\ (b = 0 => account.pw = r.u.pw /\ account.totp = r.u.totp)  BY <3>1
    <3>3. account.ver \in Nat /\ account.upd \in Nat  BY <2>2, UserFields
    <3>4. PICK v, d : v = account.ver + b /\ d = account.upd + 1  OBVIOUS
    <3>5. v \in Nat /\ d \in Nat /\ account.ver <= v /\ (v = account.ver => b = 0)  BY <3>2, <3>3, <3>4
    <3>6. new = [r.u EXCEPT !.ver = v, !.upd = d]  BY <2>4, <3>1, <3>4 DEF UpdatedUser
    <3>7. /\ new \in UserRows /\ new.upd = d /\ new.ver = v /\ new.pw = r.u.pw /\ new.totp = r.u.totp
          /\ new.secret = r.u.secret /\ new.last = r.u.last /\ new.codes = r.u.codes
      BY <1>3, <3>5, <3>6 DEF UserRows
    <3> QED  BY <3>2, <3>4, <3>5, <3>7
  <2>7. RowWritten  BY <2>2, <2>5, <2>6 DEF RowWritten
  <2>8. RowGood(account)'
    <3>1. RowGood(new)  BY <2>3, <2>6, RowGoodSame
    <3>2. RowGood(new)'  BY <1>1, <2>6, <3>1, RowGoodKept, Running2FA
    <3> QED  BY <2>5, <3>2 DEF RowGood
  <2>9. AccSpent'  BY <1>1 DEF AccessInv, AccSpent, CodeKnown
  <2>10. PICK N : N = AfterWrite(r)  OBVIOUS
  <2>11. ASSUME NEW n \in N PROVE n \in ClearReqs /\ n.pc = "clear" /\ n.op \in {"password", "admin"}
    <3>1. n = [op |-> r.op, pc |-> "clear", u |-> r.u] /\ r.op # "profile"  BY <2>10, <2>11 DEF AfterWrite
    <3> QED  BY <1>3, <3>1 DEF ClearReqs
  <2>12. \A n \in N : n \in AccRequests /\ RequestFits(n)' /\ ChallengeFits(n)' /\ ~Taken(n)
    BY <2>11 DEF AccRequests, RequestFits, ChallengeFits, Taken
  <2>13. requests' \subseteq requests \cup N  BY <2>1, <2>10
  <2> QED  BY <1>1, <1>2, <2>5, <2>7, <2>8, <2>9, <2>12, <2>13, AccWritten
<1> QED  BY <1>4, <1>5

LEMMA AccUpdateSecurity == ASSUME AccessInv, NEW r \in requests, UpdateUserSecurity(r) PROVE AccessInv'
<1>1. r.pc = "cas" /\ UNCHANGED <<initialized, challenges, sessions, totpNow, serial, logins>>
  BY DEF UpdateUserSecurity
<1>2. r \in AccRequests /\ r \in FactorReqs \cup CasReqs /\ initialized /\ RequestFits(r) /\ ChallengeFits(r)
  BY <1>1, Running2FA, RequestKinds DEF FactorReqs, CasReqs
<1>3. /\ r.op \in {"login2fa", "setup2fa", "enable", "disable", "recovery", "key"} /\ r.was \in UserRows /\ r.u \in UserRows
      /\ r.code \in FactorCodes
  BY <1>2 DEF FactorReqs, CasReqs
<1>4. CASE ~SecurityUnchanged(r.was)
  <2>1. requests' = requests \ {r} /\ UNCHANGED <<account, apikeys, spent>>  BY <1>4 DEF UpdateUserSecurity, Ends
  <2> QED  BY <1>1, <1>2, <2>1, AccQuietNone, Running2FA
<1>5. CASE SecurityUnchanged(r.was)
  <2>1. /\ WriteRow(UpdatedSecurity(r.was, r.u)) /\ requests' = (requests \ {r}) \cup AfterCas(r)
        /\ spent' = IF Accepts(r) THEN Count(spent, r.code) ELSE spent
    BY <1>5 DEF UpdateUserSecurity
  <2>2. account # None /\ account.upd = r.was.upd /\ account \in UserRows  BY <1>5, Running2FA DEF SecurityUnchanged
  <2>3. r.was = account /\ RowGood(r.u) /\ CodeFits(r)  BY <1>1, <1>2, <2>2 DEF RequestFits, CasFits, WriteFits, RowRead
  <2>4. PICK new : new = UpdatedSecurity(r.was, r.u)  OBVIOUS
  <2>5. WriteRow(new) /\ account' = new  BY <2>1, <2>4 DEF WriteRow
  <2>6. /\ new \in UserRows /\ new.upd = account.upd + 1 /\ new.pw = account.pw /\ new.totp = r.u.totp
        /\ new.secret = r.u.secret /\ new.last = r.u.last /\ new.codes = r.u.codes
        /\ account.ver <= new.ver
        /\ (new.ver = account.ver => account.totp = r.u.totp)
        /\ (SameFactor(r.u, account) => new.ver = account.ver)
    <3>1. PICK b : b = IF r.was.totp # r.u.totp \/ (r.was.totp /\ r.was.secret # r.u.secret) THEN 1 ELSE 0  OBVIOUS
    <3>2. b \in {0, 1} /\ (b = 0 => r.was.totp = r.u.totp) /\ (SameFactor(r.u, account) => b = 0)
      BY <2>3, <3>1 DEF SameFactor
    <3>3. account.ver \in Nat /\ account.upd \in Nat  BY <2>2, UserFields
    <3>4. PICK v, d : v = account.ver + b /\ d = account.upd + 1  OBVIOUS
    <3>5. v \in Nat /\ d \in Nat /\ account.ver <= v /\ (v = account.ver <=> b = 0)  BY <3>2, <3>3, <3>4
    <3>6. PICK a : a = account  OBVIOUS
    <3>7. new = [a EXCEPT !.secret = r.u.secret, !.totp = r.u.totp, !.last = r.u.last, !.codes = r.u.codes,
                          !.ver = v, !.upd = d]
      BY <2>4, <3>1, <3>4, <3>6 DEF UpdatedSecurity
    <3>8. /\ new \in UserRows /\ new.upd = d /\ new.ver = v /\ new.pw = a.pw /\ new.totp = r.u.totp
          /\ new.secret = r.u.secret /\ new.last = r.u.last /\ new.codes = r.u.codes
      BY <1>3, <2>2, <3>5, <3>6, <3>7 DEF UserRows
    <3> QED  BY <2>3, <3>2, <3>4, <3>5, <3>6, <3>8
  <2>7. RowWritten  BY <2>2, <2>5, <2>6 DEF RowWritten
  <2>8. DOMAIN spent' \subseteq DOMAIN spent \cup {r.code} /\ (DOMAIN spent' # DOMAIN spent => Accepts(r))
    BY <2>1 DEF Count
  <2>9. AccSpent'
    <3>1. \A f \in DOMAIN spent : spent[f] = 1 /\ CodeKnown(f)'
      BY <1>1 DEF AccessInv, AccSpent, CodeKnown
    <3>2. CASE Accepts(r)
      <4>1. CodeKnown(r.code)' /\ r.code \notin DOMAIN spent  BY <1>1, <2>3, <3>2 DEF CodeFits, CodeKnown
      <4>2. spent' = Count(spent, r.code)  BY <2>1, <3>2
      <4>3. \A f \in DOMAIN spent' : spent'[f] = 1  BY <3>1, <4>1, <4>2 DEF Count
      <4> QED  BY <2>8, <3>1, <4>1, <4>3 DEF AccSpent
    <3>3. CASE ~Accepts(r)
      <4>1. spent' = spent  BY <2>1, <3>3
      <4> QED  BY <3>1, <4>1 DEF AccSpent
    <3> QED  BY <3>2, <3>3
  <2>10. RowGood(account)'
    <3>1. RowGood(new)  BY <2>3, <2>6, RowGoodSame
    <3>2. Accepts(r) => CodeUsed(r.code, new)  BY <2>3, <2>6 DEF CodeFits, CodeUsed
    <3>3. \A f \in DOMAIN spent' : CodeUsed(f, new)  BY <2>8, <3>1, <3>2 DEF RowGood
    <3>4. RowGood(new)'  BY <1>1, <3>1, <3>3 DEF RowGood
    <3> QED  BY <2>5, <3>4 DEF RowGood
  <2>11. r.op \in {"login2fa", "key"} => VersionFits(r.u)'
    <3>1. ASSUME SameFactor(r.u, account) PROVE VersionFits(r.u)'
      <4>1. r.u.ver = account'.ver /\ r.u.pw = account'.pw /\ r.u.totp = account'.totp  BY <2>5, <2>6, <3>1 DEF SameFactor
      <4>2. account'.ver \in Nat  BY <2>5, <2>6, UserFields
      <4> QED  BY <4>1, <4>2 DEF VersionFits
    <3> QED  BY <1>1, <1>2, <2>3, <3>1 DEF RequestFits
  <2>12. PICK N : N = AfterCas(r)  OBVIOUS
  <2>13. requests' = (requests \ {r}) \cup N  BY <2>1, <2>12
  <2>14. ASSUME NEW n \in N PROVE /\ n \in AccRequests /\ RequestFits(n)' /\ ChallengeFits(n)'
                                  /\ Taken(n) => \A q \in requests' : Taken(q) /\ q.chal = n.chal => q = n
    <3>1. CASE r.op = "login2fa"
      <4>1. N = {n} /\ n = [op |-> "login", pc |-> "finish", u |-> r.u, chal |-> r.chal]
        BY <2>12, <2>14, <3>1 DEF AfterCas
      <4>2. r.chal \in Nat  BY <1>2, <3>1, AccReqFields
      <4>3. n \in LoginReqs /\ n.op = "login" /\ n.pc = "finish" /\ n.u = r.u /\ n.chal = r.chal
        BY <1>3, <4>1, <4>2 DEF LoginReqs
      <4>4. Taken(r)  BY <1>1, <3>1 DEF Taken
      <4>5. ChallengeFits(n)'  BY <1>1, <1>2, <3>1, <4>3, <4>4 DEF ChallengeFits
      <4>6. RequestFits(n)'  BY <2>11, <3>1, <4>3 DEF RequestFits
      <4>7. \A q \in requests' : Taken(q) /\ q.chal = n.chal => q = n
        BY <2>13, <4>1, <4>3, <4>4 DEF AccessInv, AccChallenges
      <4> QED  BY <4>3, <4>5, <4>6, <4>7 DEF AccRequests
    <3>2. CASE r.op \in {"enable", "disable"}
      <4>1. n = [op |-> r.op, pc |-> "fresh", u |-> r.u]  BY <2>12, <2>14, <3>2 DEF AfterCas
      <4>2. n \in FreshReqs /\ n.op \in {"enable", "disable"} /\ n.pc = "fresh"  BY <1>3, <3>2, <4>1 DEF FreshReqs
      <4> QED  BY <4>2 DEF AccRequests, RequestFits, ChallengeFits, Taken
    <3>3. CASE r.op = "key"
      <4>1. n = [r EXCEPT !.pc = "key"]  BY <2>12, <2>14, <3>3 DEF AfterCas
      <4>2. r \in CasReqs  BY <1>2, <3>3 DEF FactorReqs
      <4>3. n \in KeyReqs /\ n.op = "key" /\ n.pc = "key" /\ n.u = r.u  BY <3>3, <4>1, <4>2 DEF CasReqs, KeyReqs
      <4> QED  BY <2>11, <3>3, <4>3 DEF AccRequests, RequestFits, ChallengeFits, Taken
    <3>4. CASE r.op \in {"setup2fa", "recovery"}
      BY <2>12, <2>14, <3>4 DEF AfterCas
    <3> QED  BY <1>3, <3>1, <3>2, <3>3, <3>4
  <2>15. requests' \subseteq requests \cup N  BY <2>13
  <2>16. /\ \A n \in N : n \in AccRequests /\ RequestFits(n)' /\ ChallengeFits(n)'
         /\ \A n \in N : Taken(n) => \A q \in requests' : Taken(q) /\ q.chal = n.chal => q = n
    BY <2>14
  <2> QED  BY <1>1, <1>2, <2>5, <2>7, <2>9, <2>10, <2>15, <2>16, AccWritten
<1> QED  BY <1>4, <1>5

LEMMA AccDelete == ASSUME AccessInv, DeleteUser PROVE AccessInv'
<1>1. /\ account' = None /\ sessions' = {} /\ apikeys' = {} /\ initialized
      /\ UNCHANGED <<initialized, challenges, requests, totpNow, serial, spent, logins>>
  BY Running2FA DEF DeleteUser
<1>2. AccTyped'  BY <1>1, FS_EmptySet DEF AccessInv, AccTyped
<1>3. AccRow' /\ AccIssued'  BY <1>1 DEF AccRow, AccIssued
<1>4. AccSpent'  BY <1>1 DEF AccessInv, AccSpent, CodeKnown
<1>5. AccReqs'  BY <1>1, RequestOrphaned, Running2FA DEF AccReqs
<1>6. AccChallenges'  BY <1>1 DEF AccessInv, AccChallenges, ChallengeFits, Taken
<1> QED  BY <1>2, <1>3, <1>4, <1>5, <1>6 DEF AccessInv

LEMMA AccCreate == ASSUME AccessInv, NEW r \in requests, CreateInitialAdmin(r) PROVE AccessInv'
<1>1. r.op = "setup" /\ UNCHANGED <<challenges, sessions, apikeys, totpNow, serial, spent, logins>>
  BY DEF CreateInitialAdmin
<1>2. r \in SetupReqs /\ r.pw \in Nat  BY <1>1, Running2FA, RequestKinds DEF SetupReqs
<1>3. CASE initialized
  <2>1. requests' = requests \ {r} /\ UNCHANGED <<account, initialized>>  BY <1>3 DEF CreateInitialAdmin, Ends
  <2> QED  BY <1>1, <1>3, <2>1, AccQuietNone, Running2FA
<1>4. CASE ~initialized
  <2>1. PICK a : a = NewUser(r.pw)  OBVIOUS
  <2>2. PICK n : n = [op |-> "login", pc |-> "finish", u |-> a, chal |-> 0]  OBVIOUS
  <2>3. account' = a /\ initialized' = TRUE /\ requests' = (requests \ {r}) \cup {n}
    BY <1>4, <2>1, <2>2 DEF CreateInitialAdmin, Goes
  <2>4. a \in UserRows /\ a.totp = FALSE /\ a.secret = 0 /\ a.last = 0 /\ a.codes = {} /\ a.ver = 0
    BY <1>2, <2>1 DEF NewUser, UserRows
  <2>5. n \in AccRequests /\ n.op = "login" /\ n.pc = "finish" /\ n.u = a /\ n.chal = 0
    BY <2>2, <2>4 DEF LoginReqs, AccRequests
  <2>6. /\ account = None /\ sessions = {} /\ apikeys = {} /\ DOMAIN challenges = {} /\ requests \subseteq SetupReqs
    BY <1>4 DEF AccessInv, AccRow
  <2>7. \A q \in requests : q.op = "setup" /\ q.pc = "create" /\ q \in AccRequests  BY <2>6 DEF SetupReqs, AccRequests
  <2>8. \A q \in requests' : q \in AccRequests /\ RequestFits(q)' /\ ChallengeFits(q)' /\ ~Taken(q)
    <3>1. VersionFits(a)'  BY <2>3, <2>4 DEF VersionFits
    <3>2. RequestFits(n)' /\ ChallengeFits(n)' /\ ~Taken(n)
      BY <1>1, <2>5, <3>1, Running2FA DEF RequestFits, ChallengeFits, Taken
    <3>3. \A q \in requests : RequestFits(q)' /\ ChallengeFits(q)' /\ ~Taken(q)
      BY <2>7 DEF RequestFits, ChallengeFits, Taken
    <3> QED  BY <2>3, <2>5, <2>7, <3>2, <3>3
  <2>9. AccTyped'  BY <1>1, <2>3, <2>4, <2>8 DEF AccessInv, AccTyped
  <2>10. AccSpent'  BY <1>1 DEF AccessInv, AccSpent, CodeKnown
  <2>11. AccRow'
    <3>1. RowGood(a)  BY <2>4, RowGoodCleared
    <3>2. RowGood(a)'  BY <1>1, <2>4, <3>1, RowGoodKept, Running2FA
    <3> QED  BY <2>3, <3>2 DEF AccRow, RowGood
  <2>12. AccIssued'
    <3>1. ActiveKeys' = {}  BY <1>1, <2>6 DEF ActiveKeys
    <3>2. Cardinality(ActiveKeys') <= MaxActiveAPIKeys  BY <3>1, FS_EmptySet, AccessAssumption
    <3> QED  BY <1>1, <2>6, <3>2 DEF AccIssued
  <2>13. AccReqs'  BY <2>8 DEF AccReqs
  <2>14. AccChallenges'  BY <1>1, <2>6, <2>8 DEF AccessInv, AccChallenges, Taken
  <2> QED  BY <2>9, <2>10, <2>11, <2>12, <2>13, <2>14 DEF AccessInv
<1> QED  BY <1>3, <1>4

LEMMA AccStutters == ASSUME AccessInv, UNCHANGED accessVars PROVE AccessInv'
  BY DEF accessVars, AccessInv, AccTyped, AccRow, AccSpent, AccIssued, AccReqs, AccChallenges, RowGood, CodeKnown, ActiveKeys,
         VersionFits, RequestFits, CasFits, WriteFits, CodeFits, RowRead, SameFactor, ChallengeFits, Taken, Accepts

LEMMA AccStarts == ASSUME AccessInit PROVE AccessInv
<1>1. /\ account \in {None, NewUser(1), [NewUser(1) EXCEPT !.totp = TRUE, !.secret = 1, !.codes = {1}]}
      /\ initialized = (account # None) /\ challenges = <<>> /\ apikeys = {} /\ requests = {}
      /\ sessions = IF account = None THEN {} ELSE {[ver |-> 0, by |-> "login", pw |-> 1, totp |-> account.totp]}
      /\ totpNow = 2 /\ serial = 1 /\ spent = <<>> /\ logins = <<>>
  BY DEF AccessInit
<1>2. DOMAIN challenges = {} /\ DOMAIN spent = {} /\ DOMAIN logins = {}  BY <1>1
<1>3. account # None => /\ account \in UserRows /\ account.ver = 0 /\ account.pw = 1 /\ account.last = 0
                        /\ account.codes \subseteq {1} /\ account.secret \in {0, 1} /\ (account.totp => account.secret = 1)
                        /\ account.totp \in BOOLEAN
  <2>1. PICK a : a = account  OBVIOUS
  <2>2. PICK w : w = NewUser(1)  OBVIOUS
  <2>3. w \in UserRows /\ w.ver = 0 /\ w.pw = 1 /\ w.last = 0 /\ w.codes = {} /\ w.secret = 0 /\ w.totp = FALSE
    BY <2>2 DEF NewUser, UserRows
  <2>4. CASE a = w  BY <2>1, <2>3, <2>4
  <2>5. CASE a = [w EXCEPT !.totp = TRUE, !.secret = 1, !.codes = {1}]
    <3>1. a \in UserRows /\ a.ver = 0 /\ a.pw = 1 /\ a.last = 0 /\ a.codes = {1} /\ a.secret = 1 /\ a.totp = TRUE
      BY <2>3, <2>5 DEF UserRows
    <3> QED  BY <2>1, <3>1
  <2> QED  BY <1>1, <2>1, <2>2, <2>4, <2>5
<1>4. account # None => RowGood(account)  BY <1>1, <1>2, <1>3 DEF RowGood
<1>5. \A s \in sessions : account # None /\ s.ver = 0 /\ s.pw = 1 /\ s.totp = account.totp /\ s \in SessionRows
  BY <1>1, <1>3 DEF SessionRows
<1>6. AccTyped  BY <1>1, <1>2, <1>3, <1>5, FS_EmptySet DEF AccTyped
<1>7. AccRow  BY <1>1, <1>2, <1>4 DEF AccRow
<1>8. AccIssued
  <2>1. ActiveKeys = {}  BY <1>1 DEF ActiveKeys
  <2>2. Cardinality(ActiveKeys) <= MaxActiveAPIKeys  BY <2>1, FS_EmptySet, AccessAssumption
  <2> QED  BY <1>1, <1>3, <1>5, <2>2 DEF AccIssued, VersionFits
<1>9. AccSpent /\ AccReqs /\ AccChallenges  BY <1>1, <1>2 DEF AccSpent, AccReqs, AccChallenges
<1> QED  BY <1>6, <1>7, <1>8, <1>9 DEF AccessInv

LEMMA AccessSteps == ASSUME AccessInv, AccessNext PROVE AccessInv'
<1>1. ASSUME NEW r \in requests,
             \/ CreateInitialAdmin(r) \/ Load2FA(r) \/ Drop(r) \/ FinishLogin(r) \/ StartSession(r)
             \/ LoadUser(r) \/ UpdateUserSecurity(r) \/ FreshUser(r) \/ UpdateUser(r)
             \/ DeleteUserSessions(r) \/ KeepSession(r) \/ CreateAPIKey(r)
      PROVE  AccessInv'
  BY <1>1, AccCreate, AccLoad2FA, AccDrop, AccFinish, AccStart, AccLoadUser, AccUpdateSecurity, AccFresh, AccUpdateUser,
     AccClear, AccKeep, AccCreateKey, Zenon
<1> QED  BY <1>1, AccSetup, AccLogin, AccLogin2FA, AccSelfRequest, AccAdminEdit, AccDelete, AccClock, AccEndKey, AccLogout, Zenon
         DEF AccessNext

LEMMA AccSafety == ASSUME AccessInv PROVE AccessSafe
<1>1. FactorOnce  BY DEF AccessInv, AccSpent, AccChallenges, FactorOnce
<1>2. NothingOutlives
  BY DEF AccessInv, AccIssued, NothingOutlives, SessionUsable, KeyUsable, IssuedForThis, VersionFits
<1>3. AccountWhole
  <2>1. ASSUME account # None PROVE account.totp => account.secret > 0
    BY <2>1, Running2FA, UserFields DEF RowGood
  <2> QED  BY <2>1 DEF AccountWhole, AccessInv, AccIssued
<1> QED  BY <1>1, <1>2, <1>3 DEF AccessSafe

LEMMA AccMoves == ASSUME SvcNext PROVE AccessNext \/ UNCHANGED accessVars
  BY DEF SvcNext, InSub, InTrust, InFleet, InImports, InSup, InMeter, InNat, InServing, AccessNext

(* The inductive invariant of accounts: a copy of the row is the row or is too old to be *)
(* written, what was issued is for this version or an older one, and an accepted code is *)
(* behind the last step or crossed off in every row that can still be written            *)
(* (UpdateUserSecurity, createSession, CreateAPIKey, challengeStore).                    *)
THEOREM AccessInvariance == SvcSpec => []AccessInv
<1>1. SvcInit => AccessInv
  BY AccStarts DEF SvcInit
<1>2. AccessInv /\ [SvcNext]_svcVars => AccessInv'
  BY AccMoves, AccessSteps, AccStutters DEF svcVars
<1> QED  BY <1>1, <1>2, PTL DEF SvcSpec

(* For all interleavings of sign-ins, edits by the owner and by an administrator, and    *)
(* deletions: a code is accepted once and a challenge leads to one sign-in, sessions and *)
(* keys work only under the password and factor they were opened with, keys stay within  *)
(* their limit, and an account with a second factor has its secret.                      *)
THEOREM AccessIsSafe == SvcSpec => []AccessSafe
<1>1. AccessInv => AccessSafe
  BY AccSafety
<1> QED  BY <1>1, AccessInvariance, PTL

-----------------------------------------------------------------------------
(* Receipts: what the parts of the state are *)
LEMMA AppFacts == ASSUME NEW f \in AppSets PROVE DOMAIN f \subseteq DNodes /\ \A n \in DOMAIN f : f[n] \in AppWords
<1>1. CASE f = <<>>  BY <1>1
<1>2. CASE f \in UNION {[S -> AppWords] : S \in SUBSET DNodes}
  <2>1. PICK S \in SUBSET DNodes : f \in [S -> AppWords]  BY <1>2
  <2> QED  BY <2>1
<1> QED  BY <1>1, <1>2 DEF AppSets

LEMMA AppSetMember == ASSUME NEW S \in SUBSET DNodes, NEW f \in [S -> AppWords] PROVE f \in AppSets
  BY DEF AppSets

LEMMA DocFacts == ASSUME NEW d \in SpecDocs
  PROVE DOMAIN d \subseteq DNodes /\ \A n \in DOMAIN d : d[n].cred \in Nat /\ d[n].blocked \in BOOLEAN
<1>1. PICK S \in SUBSET DNodes : d \in [S -> [cred : Nat, blocked : BOOLEAN]]  BY DEF SpecDocs
<1> QED  BY <1>1

LEMMA AgentFields == ASSUME NEW m \in AgentStates PROVE
  /\ m.rev \in Nat /\ m.seq \in Nat /\ m.apps \in AppSets /\ m.applied \in Nat /\ m.at \in Nat /\ m.pass \in Nat
  /\ m.status \in {"pending", "failed", "applied"} /\ m.renewed \in BOOLEAN /\ m.torn \in BOOLEAN
  BY DEF AgentStates

LEMMA MsgFields == ASSUME NEW m \in AgentMsgs PROVE
  /\ m.rev \in Nat /\ m.seq \in Nat /\ m.apps \in AppSets /\ m.tried \in Nat /\ m.at \in Nat
  /\ m.status \in {"pending", "failed", "applied", "busy"}
  BY DEF AgentMsgs

LEMMA ReceiptFields ==
  /\ \A a \in AppliedRows : a.rev \in Nat /\ a.seq \in Nat /\ a.status \in AppWords /\ a.cred \in Nat /\ a # None
  /\ \A a \in NewestRows : a.at \in Nat /\ a.rev \in Nat /\ a.status \in AppWords /\ a.cred \in Nat /\ a # None
  BY SubAssumption DEF AppliedRows, NewestRows, AppWords

LEMMA RowFields == \A r \in NodeRows : r.cred \in Nat /\ r.on \in BOOLEAN /\ r # None
  BY SubAssumption DEF NodeRows

(* Everything that may be spoken about is typed. *)
LEMMA SubRunning == ASSUME SubInv PROVE
  /\ Len(docs) \in Nat /\ \A i \in 1 .. Len(docs) : docs[i] \in SpecDocs /\ "b" \in DOMAIN docs[i]
  /\ \A n \in DNodes : /\ row[n] # None => row[n] \in NodeRows
                       /\ applied[n] # None => applied[n] \in AppliedRows
                       /\ newest[n] # None => newest[n] \in NewestRows
  /\ mem \in AgentStates /\ disk \in AgentStates /\ net \subseteq AgentMsgs
  /\ arow.rev \in Nat /\ arow.err \in BOOLEAN
<1>1. docs \in Seq(SpecDocs)  BY DEF SubInv, SubTyped
<1> QED  BY <1>1 DEF SubInv, SubTyped

LEMMA SpokenFields == ASSUME SubInv, NEW x \in Spoken PROVE
  /\ x.rev \in Nat /\ x.seq \in Nat /\ x.at \in Nat /\ x.apps \in AppSets /\ x.apps # <<>>
  BY SubRunning, AgentFields, MsgFields DEF Spoken

(* The rows are edited. *)
LEMMA SubEdited == ASSUME SubInv, UNCHANGED <<docs, mem, disk, ran, whole, net, applied, arow, newest>>,
    row' \in [DNodes -> NodeRows \cup {None}], \A n \in DNodes : row'[n] = None <=> row[n] = None,
    draft' \in Drafts \cup {None}, sharing' \in BOOLEAN, chain' \in [landing : DNodes \cup {None}] \cup {None}
  PROVE SubInv'
<1>1. SubTyped'  BY DEF SubInv, SubTyped, DNodes
<1>2. SubAgent' /\ SubTold'  BY DEF SubInv, SubAgent, SubTold, About, SaysApplied
<1>3. SubTables'  BY DEF SubInv, SubTables
<1>4. ~mem'.renewed => SubOrdered'  BY DEF SubInv, SubOrdered, Spoken, InOrder, Placed
<1>5. Heard' = Heard  BY DEF Heard
<1>6. ~mem'.renewed /\ ~mem'.torn => SubWhole'  BY <1>5 DEF SubInv, SubWhole, Clean, SaysApplied
<1> QED  BY <1>1, <1>2, <1>3, <1>4, <1>6 DEF SubInv

LEMMA SubRegenerate == ASSUME SubInv, NEW n \in DNodes, RegenerateNode(n) PROVE SubInv'
<1>1. row[n] \in NodeRows  BY SubRunning DEF RegenerateNode
<1>2. PICK r : r = [row[n] EXCEPT !.cred = @ + 1]  OBVIOUS
<1>3. r \in NodeRows  BY <1>1, <1>2 DEF NodeRows
<1>4. row' = [row EXCEPT ![n] = r] /\ row \in [DNodes -> NodeRows \cup {None}]
  BY <1>2 DEF RegenerateNode, SubInv, SubTyped
<1>5. row' \in [DNodes -> NodeRows \cup {None}] /\ \A m \in DNodes : row'[m] = None <=> row[m] = None
  BY <1>1, <1>3, <1>4, RowFields
<1> QED  BY <1>5, SubEdited DEF RegenerateNode, SubInv, SubTyped

LEMMA SubBeginUpdate == ASSUME SubInv, NEW n \in DNodes, BeginUpdate(n) PROVE SubInv'
<1>1. row[n] \in NodeRows  BY SubRunning DEF BeginUpdate
<1>2. draft' \in Drafts  BY <1>1 DEF BeginUpdate, Drafts
<1> QED  BY <1>2, SubEdited DEF BeginUpdate, SubInv, SubTyped

LEMMA SubCommit == ASSUME SubInv, CommitUpdate PROVE SubInv'
<1>1. draft \in Drafts  BY DEF CommitUpdate, SubInv, SubTyped
<1>2. draft.node \in DNodes /\ draft.read \in NodeRows  BY <1>1 DEF Drafts
<1>3. PICK on \in BOOLEAN :
        LET new == [draft.read EXCEPT !.on = on]
        IN  IF row[draft.node] = None \/ row[draft.node] = new THEN UNCHANGED <<row, unsent>>
            ELSE row' = [row EXCEPT ![draft.node] = new] /\ unsent' = TRUE
  BY DEF CommitUpdate
<1>4. PICK r : r = [draft.read EXCEPT !.on = on]  OBVIOUS
<1>5. r \in NodeRows  BY <1>2, <1>4 DEF NodeRows
<1>6. row' = row \/ (row[draft.node] # None /\ row' = [row EXCEPT ![draft.node] = r])  BY <1>3, <1>4
<1>7. row \in [DNodes -> NodeRows \cup {None}]  BY DEF SubInv, SubTyped
<1>8. row' \in [DNodes -> NodeRows \cup {None}] /\ \A m \in DNodes : row'[m] = None <=> row[m] = None
  BY <1>2, <1>5, <1>6, <1>7, RowFields
<1> QED  BY <1>8, SubEdited DEF CommitUpdate, SubInv, SubTyped

LEMMA SubChain == ASSUME SubInv, NEW n \in {"a", "c"}, SetNodeChain(n) PROVE SubInv'
<1>1. n \in DNodes  BY DEF DNodes
<1> QED  BY <1>1, SubEdited DEF SetNodeChain, SubInv, SubTyped

LEMMA SubSwitch == ASSUME SubInv, ShareSwitch PROVE SubInv'
  BY SubEdited DEF ShareSwitch, SubInv, SubTyped

LEMMA SubDelete == ASSUME SubInv, DeleteNode PROVE SubInv'
<1>1. PICK n \in {"a", "c"} :
       /\ row[n] # None /\ row' = [row EXCEPT ![n] = None]
       /\ applied' = [applied EXCEPT ![n] = None] /\ newest' = [newest EXCEPT ![n] = None]
       /\ chain' = IF chain # None /\ chain.landing = n THEN [landing |-> None] ELSE chain
  BY DEF DeleteNode
<1>2. UNCHANGED <<draft, sharing, docs, mem, disk, ran, whole, net, arow>>  BY DEF DeleteNode
<1>3. n \in DNodes /\ n # "b"  BY <1>1 DEF DNodes
<1>4. /\ row \in [DNodes -> NodeRows \cup {None}] /\ applied \in [DNodes -> AppliedRows \cup {None}]
      /\ newest \in [DNodes -> NewestRows \cup {None}]
  BY DEF SubInv, SubTyped
<1>5. \A m \in DNodes : /\ row'[m] = IF m = n THEN None ELSE row[m]
                        /\ applied'[m] = IF m = n THEN None ELSE applied[m]
                        /\ newest'[m] = IF m = n THEN None ELSE newest[m]
  BY <1>1, <1>3, <1>4
<1>6. SubTyped'
  <2>1. /\ row' \in [DNodes -> NodeRows \cup {None}] /\ applied' \in [DNodes -> AppliedRows \cup {None}]
        /\ newest' \in [DNodes -> NewestRows \cup {None}]
    BY <1>1, <1>3, <1>4
  <2>2. row'["b"] # None  BY <1>3, <1>5 DEF SubInv, SubTyped, DNodes
  <2>3. chain' \in [landing : DNodes \cup {None}] \cup {None}  BY <1>1 DEF SubInv, SubTyped
  <2> QED  BY <1>2, <2>1, <2>2, <2>3 DEF SubInv, SubTyped
<1>7. SubAgent' /\ SubTold'  BY <1>2 DEF SubInv, SubAgent, SubTold, About, SaysApplied
<1>8. SubTables'  BY <1>2, <1>5 DEF SubInv, SubTables
<1>9. ~mem'.renewed => SubOrdered'
  <2>1. Spoken' = Spoken  BY <1>2 DEF Spoken
  <2> QED  BY <1>2, <1>5, <2>1 DEF SubInv, SubOrdered, InOrder, Placed
<1>10. ~mem'.renewed /\ ~mem'.torn => SubWhole'
  <2>1. Heard' \subseteq Heard /\ n \notin Heard' /\ Heard \subseteq DNodes  BY <1>2, <1>5 DEF Heard
  <2>2. \A m \in Heard' : newest'[m] = newest[m]  BY <1>5, <2>1
  <2> QED  BY <1>2, <1>5, <2>1, <2>2 DEF SubInv, SubWhole, Clean, SaysApplied
<1> QED  BY <1>6, <1>7, <1>8, <1>9, <1>10 DEF SubInv

LEMMA SubDeploy == ASSUME SubInv, DeployReplacement PROVE SubInv'
<1>1. /\ row["c"] = None /\ \A i \in DOMAIN docs : "c" \notin DOMAIN docs[i]
      /\ UNCHANGED <<draft, sharing, chain, docs, mem, disk, ran, whole, net, applied, arow, newest>>
  BY DEF DeployReplacement
<1>2. PICK r : r = [cred |-> 1, on |-> TRUE]  OBVIOUS
<1>3. r \in NodeRows /\ row' = [row EXCEPT !["c"] = r]  BY <1>2 DEF NodeRows, DeployReplacement
<1>4. row \in [DNodes -> NodeRows \cup {None}] /\ "c" \in DNodes  BY DEF SubInv, SubTyped, DNodes
<1>5. \A m \in DNodes : row'[m] = IF m = "c" THEN r ELSE row[m]  BY <1>3, <1>4
<1>6. SubTyped'
  <2>1. row' \in [DNodes -> NodeRows \cup {None}]  BY <1>3, <1>4
  <2>2. row'["b"] # None  BY <1>5 DEF SubInv, SubTyped, DNodes
  <2> QED  BY <1>1, <2>1, <2>2 DEF SubInv, SubTyped
<1>7. SubAgent' /\ SubTold'  BY <1>1 DEF SubInv, SubAgent, SubTold, About, SaysApplied
<1>8. SubTables'
  <2>1. \A m \in DNodes : row[m] # None => row'[m] # None  BY <1>1, <1>5
  <2> QED  BY <1>1, <2>1 DEF SubInv, SubTables
<1>9. ~mem'.renewed => SubOrdered'  BY <1>1 DEF SubInv, SubOrdered, Spoken, InOrder, Placed
<1>10. ~mem'.renewed /\ ~mem'.torn => SubWhole'
  <2>1. arow.rev > 0 => arow.rev \in DOMAIN docs
    <3>1. arow.rev > 0 => arow.rev \in 1 .. Len(docs)  BY DEF SubInv, SubTyped, SubTables
    <3>2. DOMAIN docs = 1 .. Len(docs)  BY DEF SubInv, SubTyped
    <3> QED  BY <3>1, <3>2
  <2>2. arow.rev > 0 => "c" \notin DOMAIN docs[arow.rev]  BY <1>1, <2>1
  <2>3. arow.rev > 0 => Heard' = Heard  BY <1>1, <1>5, <2>2 DEF Heard
  <2> QED  BY <1>1, <2>3 DEF SubInv, SubWhole, Clean, SaysApplied
<1> QED  BY <1>6, <1>7, <1>8, <1>9, <1>10 DEF SubInv

LEMMA SubPublished == ASSUME SubInv, SubPublish PROVE SubInv'
<1>1. UNCHANGED <<row, draft, sharing, chain, mem, disk, ran, whole, net, applied, arow, newest>>  BY DEF SubPublish
<1>2. PICK d : d = NodeSpecs  OBVIOUS
<1>3. docs' = docs \/ docs' = Append(docs, d)  BY <1>2 DEF SubPublish
<1>4. d \in SpecDocs /\ "b" \in DOMAIN d
  <2>1. Live \in SUBSET DNodes /\ "b" \in Live  BY DEF Live, SubInv, SubTyped, DNodes
  <2>2. \A n \in Live : row[n].cred \in Nat /\ row[n].on \in BOOLEAN  BY SubRunning, RowFields DEF Live
  <2>3. sharing \in BOOLEAN  BY DEF SubInv, SubTyped
  <2>4. NodeSpecs \in [Live -> [cred : Nat, blocked : BOOLEAN]]  BY <2>2, <2>3 DEF NodeSpecs
  <2>5. PICK S \in SUBSET DNodes : S = Live  BY <2>1
  <2>6. d \in [S -> [cred : Nat, blocked : BOOLEAN]]  BY <1>2, <2>4, <2>5
  <2> QED  BY <2>1, <2>5, <2>6 DEF SpecDocs
<1>5. docs \in Seq(SpecDocs) /\ Len(docs) \in Nat  BY DEF SubInv, SubTyped
<1>6. docs' \in Seq(SpecDocs) /\ Len(docs') \in Nat /\ Len(docs) <= Len(docs') /\ \A i \in 1 .. Len(docs) : docs'[i] = docs[i]
  BY <1>3, <1>4, <1>5
<1>7. \A i \in 1 .. Len(docs') : "b" \in DOMAIN docs'[i]
  <2>1. \A i \in 1 .. Len(docs) : "b" \in DOMAIN docs[i]  BY DEF SubInv, SubTyped
  <2> QED  BY <1>3, <1>4, <1>5, <2>1
<1>8. \A i \in 1 .. Len(docs) : i \in 1 .. Len(docs')  BY <1>5, <1>6
<1>9. SubTyped'
  <2>1. whole' \subseteq 1 .. Len(docs')  BY <1>1, <1>8 DEF SubInv, SubTyped
  <2> QED  BY <1>1, <1>6, <1>7, <2>1 DEF SubInv, SubTyped
<1>10. \A x : About(x) => About(x)'  BY <1>1, <1>6, <1>8 DEF About
<1>11. \A k \in Nat : k <= Len(docs) => k <= Len(docs')  BY <1>5, <1>6
<1>12. SubAgent'
  <2>1. mem.applied \in Nat /\ disk.applied \in Nat /\ mem.pass \in Nat  BY SubRunning, AgentFields
  <2> QED  BY <1>1, <1>10, <1>11, <2>1 DEF SubInv, SubAgent
<1>13. SubTold'  BY <1>1, <1>10, <1>11, SubRunning, MsgFields DEF SubInv, SubTold, SaysApplied
<1>14. whole \subseteq 1 .. Len(docs)  BY DEF SubInv, SubTyped
<1>15. SubTables'  BY <1>1, <1>6, <1>8, <1>14 DEF SubInv, SubTables
<1>16. ~mem'.renewed => SubOrdered'  BY <1>1 DEF SubInv, SubOrdered, Spoken, InOrder, Placed
<1>17. ~mem'.renewed /\ ~mem'.torn => SubWhole'
  <2>1. arow.rev > 0 => Heard' = Heard  BY <1>1, <1>6, <1>14 DEF Heard, SubInv, SubTables
  <2>2. \A x : \A r \in whole : Clean(x, r) => Clean(x, r)'  BY <1>6, <1>14 DEF Clean
  <2>3. \A x \in {mem, disk} : x.status = "applied" => x.applied \in whole  BY DEF SubInv, SubAgent
  <2>4. \A x \in net : SaysApplied(x) => x.tried \in whole  BY DEF SubInv, SubTold
  <2> QED  BY <1>1, <2>1, <2>2, <2>3, <2>4 DEF SubInv, SubWhole, SaysApplied
<1> QED  BY <1>9, <1>12, <1>13, <1>15, <1>16, <1>17 DEF SubInv

(* The agent moves: what was started and what was applied as a whole only    *)
(* grows, and what it saves is what was saved or comes after it.             *)
SaysAfter(d, e) ==
  /\ e.at >= d.at /\ e.seq >= d.seq
  /\ e.apps # <<>> => \/ e.at = d.at /\ e.seq = d.seq /\ e.rev = d.rev /\ e.apps = d.apps
                      \/ e.at > d.at /\ e.seq > d.seq /\ (e.rev = Len(docs) \/ (d.apps # <<>> /\ e.rev = d.rev))

LEMMA AgentOrdered == ASSUME SubInv, ~mem.renewed, UNCHANGED <<docs, net, applied, newest>>, disk' \in AgentStates,
                             SaysAfter(disk, disk')
                      PROVE  SubOrdered'
<1> USE SubRunning, AgentFields
<1>1. PICK e : e = disk'  OBVIOUS
<1>2. /\ e \in AgentStates /\ e.at \in Nat /\ e.seq \in Nat /\ e.rev \in Nat /\ e.at >= disk.at /\ e.seq >= disk.seq
      /\ disk.at \in Nat /\ disk.seq \in Nat /\ disk.rev \in Nat
  BY <1>1 DEF SaysAfter
<1>3. SubOrdered  BY DEF SubInv
<1>4. \A x \in Spoken : x.rev <= Len(docs) /\ x.rev \in Nat /\ x.at \in Nat /\ x.seq \in Nat /\ x.at <= disk.at /\ x.seq <= disk.seq
  <2>1. \A x \in Spoken : About(x) /\ x.apps # <<>>  BY DEF Spoken, SubInv, SubAgent, SubTold
  <2>2. \A x \in Spoken : x.rev <= Len(docs)  BY <2>1 DEF About
  <2> QED  BY <1>3, <2>2, SpokenFields DEF SubOrdered
<1>5. \A x \in Spoken' : x = e \/ x \in Spoken  BY <1>1 DEF Spoken
<1>6. e.apps # <<>> => \/ e.at = disk.at /\ e.seq = disk.seq /\ e.rev = disk.rev /\ e.apps = disk.apps /\ disk \in Spoken
                       \/ e.at > disk.at /\ e.seq > disk.seq /\ (e.rev = Len(docs) \/ (disk \in Spoken /\ e.rev = disk.rev))
  BY <1>1 DEF SaysAfter, Spoken
<1>7. e \in Spoken' => e.apps # <<>>  BY DEF Spoken
<1>8. ASSUME e.apps # <<>>, e.at > disk.at, NEW x \in Spoken PROVE x.at < e.at /\ x.seq < e.seq /\ x.rev <= e.rev
  <2>1. e.seq > disk.seq /\ (e.rev = Len(docs) \/ (disk \in Spoken /\ e.rev = disk.rev))  BY <1>2, <1>6, <1>8
  <2>2. disk \in Spoken => InOrder(x, disk)  BY <1>3, <1>8 DEF SubOrdered
  <2>3. disk \in Spoken => x.rev <= disk.rev  BY <1>2, <1>4, <1>8, <2>2 DEF InOrder
  <2> QED  BY <1>2, <1>4, <1>8, <2>1, <2>3
<1>9. \A x \in Spoken' : x.at <= e.at /\ x.seq <= e.seq  BY <1>2, <1>4, <1>5
<1>10. \A x, y \in Spoken' : InOrder(x, y)
  <2>1. SUFFICES ASSUME NEW x \in Spoken', NEW y \in Spoken' PROVE InOrder(x, y)  OBVIOUS
  <2>2. CASE x \in Spoken /\ y \in Spoken  BY <1>3, <2>2 DEF SubOrdered
  <2>3. CASE x = e /\ y = e  BY <1>2, <2>3 DEF InOrder
  <2>4. CASE e.apps # <<>> /\ e.at = disk.at
    <3>1. e.seq = disk.seq /\ e.rev = disk.rev /\ e.apps = disk.apps /\ disk \in Spoken  BY <1>2, <1>6, <2>4
    <3>2. \A z \in Spoken : InOrder(z, disk) /\ InOrder(disk, z)  BY <1>3, <3>1 DEF SubOrdered
    <3>3. \A z \in Spoken : InOrder(z, e) /\ InOrder(e, z)  BY <2>4, <3>1, <3>2 DEF InOrder
    <3> QED  BY <1>5, <2>2, <2>3, <3>3
  <2>5. CASE e.apps # <<>> /\ e.at > disk.at
    <3>1. \A z \in Spoken : z.at < e.at /\ z.seq < e.seq /\ z.rev <= e.rev  BY <1>8, <2>5
    <3>2. \A z \in Spoken : InOrder(z, e) /\ InOrder(e, z)  BY <1>2, <1>4, <3>1 DEF InOrder
    <3> QED  BY <1>5, <2>2, <2>3, <3>2
  <2> QED  BY <1>2, <1>5, <1>7, <2>2, <2>3, <2>4, <2>5
<1>11. ASSUME NEW n \in DNodes, newest[n] # None
       PROVE  /\ newest[n].rev = applied[n].rev /\ newest[n].status = applied[n].status /\ newest[n].cred = applied[n].cred
              /\ newest[n].at <= e.at /\ applied[n].seq <= e.seq
              /\ \A x \in Spoken' : Placed(n, x)
  <2>1. /\ newest[n].rev = applied[n].rev /\ newest[n].status = applied[n].status /\ newest[n].cred = applied[n].cred
        /\ newest[n].at <= disk.at /\ applied[n].seq <= disk.seq /\ \A x \in Spoken : Placed(n, x)
    BY <1>3, <1>11 DEF SubOrdered
  <2>2. applied[n] # None /\ applied[n].rev \in 1 .. Len(docs)  BY <1>11 DEF SubInv, SubTables
  <2>3. applied[n].rev \in Nat /\ applied[n].seq \in Nat /\ newest[n].at \in Nat  BY <1>11, <2>2, ReceiptFields
  <2>4. CASE e.apps # <<>> /\ e.at = disk.at
    <3>1. e.seq = disk.seq /\ e.rev = disk.rev /\ e.apps = disk.apps /\ disk \in Spoken  BY <1>2, <1>6, <2>4
    <3>2. Placed(n, disk)  BY <2>1, <3>1
    <3>3. Placed(n, e)  BY <2>4, <3>1, <3>2 DEF Placed
    <3> QED  BY <1>2, <1>5, <2>1, <2>3, <3>3
  <2>5. CASE e.apps # <<>> /\ e.at > disk.at
    <3>1. e.seq > disk.seq  BY <1>2, <1>6, <2>5
    <3>2. e.rev >= applied[n].rev
      <4>1. CASE e.rev = Len(docs)  BY <2>2, <4>1
      <4>2. CASE disk \in Spoken /\ e.rev = disk.rev
        <5>1. Placed(n, disk)  BY <2>1, <4>2
        <5>2. disk.rev >= applied[n].rev  BY <1>2, <2>1, <2>3, <5>1 DEF Placed
        <5> QED  BY <4>2, <5>2
      <4> QED  BY <1>2, <1>6, <2>5, <4>1, <4>2
    <3>3. Placed(n, e)  BY <1>2, <2>1, <2>3, <2>5, <3>1, <3>2 DEF Placed
    <3> QED  BY <1>2, <1>5, <2>1, <2>3, <3>3
  <2> QED  BY <1>2, <1>5, <1>7, <2>1, <2>3, <2>4, <2>5
<1>12. \A n \in DNodes : \A x : Placed(n, x)' <=> Placed(n, x)  BY DEF Placed
<1>13. \A x, y : InOrder(x, y)' <=> InOrder(x, y)  BY DEF InOrder
<1> QED  BY <1>1, <1>9, <1>10, <1>11, <1>12, <1>13 DEF SubOrdered

LEMMA AgentMoved ==
  ASSUME SubInv, UNCHANGED <<row, draft, sharing, chain, docs, net, applied, arow, newest>>,
         \A n \in DNodes : ran[n] \subseteq ran'[n], whole \subseteq whole', whole' \subseteq 1 .. Len(docs),
         \A r \in whole' : r \notin whole => \A n \in DOMAIN docs[r] : docs[r][n].blocked \/ docs[r][n].cred \in ran'[n],
         mem' \in AgentStates, disk' \in AgentStates, SubAgent',
         ~mem'.renewed => ~mem.renewed /\ SaysAfter(disk, disk'),
         ~mem'.renewed /\ ~mem'.torn => ~mem.torn /\ mem.applied <= mem'.applied,
         ~mem'.renewed /\ ~mem'.torn => \A x \in {mem', disk'} : x.status = "applied" => Clean(x, x.applied)
  PROVE  SubInv'
<1> USE SubRunning, AgentFields
<1>1. SubTyped'  BY DEF SubInv, SubTyped
<1>2. \A x : About(x) /\ x.rev \in 1 .. Len(docs) /\ x.apps \in AppSets => About(x)'
  <2>1. SUFFICES ASSUME NEW x, About(x), x.rev \in 1 .. Len(docs), x.apps \in AppSets PROVE About(x)'  OBVIOUS
  <2>2. DOMAIN x.apps \subseteq DNodes  BY <2>1, AppFacts
  <2> QED  BY <2>1, <2>2 DEF About
<1>3. SubTold'
  <2>1. ASSUME NEW x \in net PROVE About(x)'
    <3>1. About(x) /\ x.apps \in AppSets  BY MsgFields DEF SubInv, SubTold
    <3>2. x.apps # <<>> => x.rev \in 1 .. Len(docs)  BY <3>1 DEF About
    <3> QED  BY <1>2, <3>1, <3>2 DEF About
  <2> QED  BY <2>1 DEF SubInv, SubTold, SaysApplied
<1>4. SubTables'
  <2>1. \A r \in whole' : \A n \in DOMAIN docs[r] : docs[r][n].blocked \/ docs[r][n].cred \in ran'[n]
    <3>1. SUFFICES ASSUME NEW r \in whole, NEW n \in DOMAIN docs[r] PROVE docs[r][n].blocked \/ docs[r][n].cred \in ran'[n]
      OBVIOUS
    <3>2. docs[r][n].blocked \/ docs[r][n].cred \in ran[n]  BY DEF SubInv, SubTables
    <3>3. r \in 1 .. Len(docs) /\ docs[r] \in SpecDocs  BY DEF SubInv, SubTyped
    <3>4. n \in DNodes  BY <3>3, DocFacts
    <3> QED  BY <3>2, <3>4
  <2>2. \A n \in DNodes : applied[n] # None => (applied[n].status = "applied" => applied[n].cred \in ran'[n])
    BY DEF SubInv, SubTables
  <2> QED  BY <2>1, <2>2 DEF SubInv, SubTables
<1>5. ~mem'.renewed => SubOrdered'  BY AgentOrdered
<1>6. ASSUME ~mem'.renewed, ~mem'.torn PROVE SubWhole'
  <2>1. SubWhole  BY <1>6 DEF SubInv
  <2>2. Heard' = Heard  BY DEF Heard
  <2>3. mem.applied \in Nat /\ mem'.applied \in Nat /\ mem.applied <= mem'.applied  BY <1>6
  <2>4. \A k \in Nat : k <= mem.applied => k <= mem'.applied  BY <2>3
  <2>5. \A x, r : Clean(x, r)' <=> Clean(x, r)  BY DEF Clean
  <2>6. \A x \in net : SaysApplied(x) => Clean(x, x.tried)' /\ x.tried <= mem'.applied
    BY <2>1, <2>4, <2>5, MsgFields DEF SubWhole
  <2>7. arow.rev <= mem'.applied  BY <2>1, <2>4 DEF SubWhole
  <2>8. \A x \in {mem', disk'} : x.status = "applied" => Clean(x, x.applied)'  BY <1>6, <2>5
  <2> QED  BY <2>1, <2>2, <2>6, <2>7, <2>8 DEF SubWhole, SaysApplied
<1> QED  BY <1>1, <1>3, <1>4, <1>5, <1>6 DEF SubInv

(* The receipts of a pass *)
LEMMA PassReceipts ==
  ASSUME SubInv, docs # <<>>, NEW out \in [DOMAIN docs[Len(docs)] -> {"ok", "failed", "pending"}]
  PROVE  /\ Len(docs) \in 1 .. Len(docs)
         /\ Receipts(docs[Len(docs)], out) \in AppSets
         /\ DOMAIN Receipts(docs[Len(docs)], out) \subseteq DOMAIN docs[Len(docs)]
         /\ \A n \in DOMAIN Receipts(docs[Len(docs)], out) :
              Receipts(docs[Len(docs)], out)[n] = "applied" => docs[Len(docs)][n].cred \in Started(out)[n]
         /\ \A n \in DNodes : ran[n] \subseteq Started(out)[n]
         /\ Outcome(out) \in {"pending", "failed", "applied"}
         /\ Outcome(out) = "applied" =>
              /\ DOMAIN Receipts(docs[Len(docs)], out) = DOMAIN docs[Len(docs)]
              /\ Receipts(docs[Len(docs)], out) # <<>>
              /\ \A n \in DOMAIN docs[Len(docs)] : /\ Receipts(docs[Len(docs)], out)[n] # "failed"
                                                   /\ docs[Len(docs)][n].blocked \/ docs[Len(docs)][n].cred \in Started(out)[n]
<1>1. Len(docs) \in 1 .. Len(docs)
  <2>1. docs \in Seq(SpecDocs)  BY DEF SubInv, SubTyped
  <2> QED  BY <2>1
<1>2. PICK d : d = docs[Len(docs)]  OBVIOUS
<1>3. d \in SpecDocs /\ "b" \in DOMAIN d  BY <1>1, <1>2, SubRunning
<1>4. DOMAIN d \subseteq DNodes /\ \A n \in DOMAIN d : d[n].blocked \in BOOLEAN  BY <1>3, DocFacts
<1>5. PICK S : S = {m \in DOMAIN d : out[m] # "pending"}  OBVIOUS
<1>6. PICK a : a = Receipts(d, out)  OBVIOUS
<1>7. a \in [S -> AppWords] /\ \A n \in S : a[n] = IF out[n] = "failed" THEN "failed" ELSE IF d[n].blocked THEN "blocked" ELSE "applied"
  BY <1>5, <1>6 DEF Receipts, AppWords
<1>8. a \in AppSets /\ DOMAIN a = S /\ S \subseteq DOMAIN d  BY <1>4, <1>5, <1>7, AppSetMember
<1>9. \A n \in DNodes : Started(out)[n] = IF n \in DOMAIN out /\ out[n] = "ok" /\ ~d[n].blocked THEN ran[n] \cup {d[n].cred} ELSE ran[n]
  BY <1>2 DEF Started
<1>10. DOMAIN out = DOMAIN d  BY <1>2
<1>11. \A n \in S : a[n] = "applied" => d[n].cred \in Started(out)[n]
  <2>1. \A n \in S : out[n] \in {"ok", "failed", "pending"} /\ out[n] # "pending" /\ n \in DNodes  BY <1>2, <1>4, <1>5
  <2> QED  BY <1>5, <1>7, <1>9, <1>10, <2>1
<1>12. Outcome(out) \in {"pending", "failed", "applied"}  BY DEF Outcome
<1>13. ASSUME Outcome(out) = "applied"
       PROVE  S = DOMAIN d /\ a # <<>> /\ \A n \in DOMAIN d : a[n] # "failed" /\ (d[n].blocked \/ d[n].cred \in Started(out)[n])
  <2>1. \A n \in DOMAIN d : out[n] = "ok"  BY <1>2, <1>10, <1>13 DEF Outcome
  <2>2. S = DOMAIN d  BY <1>5, <2>1
  <2>3. "b" \in DOMAIN a  BY <1>3, <1>8, <2>2
  <2>4. a # <<>>  BY <2>3
  <2>5. \A n \in DOMAIN d : a[n] # "failed"  BY <1>4, <1>7, <2>1, <2>2
  <2>6. \A n \in DOMAIN d : d[n].blocked \/ d[n].cred \in Started(out)[n]  BY <1>4, <1>9, <1>10, <2>1
  <2> QED  BY <2>2, <2>4, <2>5, <2>6
<1>14. \A n \in DNodes : ran[n] \subseteq Started(out)[n]  BY <1>9
<1> QED  BY <1>1, <1>2, <1>6, <1>8, <1>11, <1>12, <1>13, <1>14

(* What the agent saves *)
LEMMA SubSaved ==
  ASSUME SubInv, UNCHANGED <<row, draft, sharing, chain, docs, net, applied, arow, newest>>,
         \A n \in DNodes : ran[n] \subseteq ran'[n], whole \subseteq whole', whole' \subseteq 1 .. Len(docs),
         \A r \in whole' : r \notin whole => \A n \in DOMAIN docs[r] : docs[r][n].blocked \/ docs[r][n].cred \in ran'[n],
         NEW m \in AgentStates, mem' = m, disk' = [m EXCEPT !.pass = 0],
         m.applied <= Len(docs), m.pass <= Len(docs),
         m.pass > 0 => m.applied <= m.pass /\ (m.status = "applied" => m.pass = m.rev /\ m.applied = m.rev),
         About(m)', m.apps # <<>> => m.applied <= m.rev,
         m.status = "applied" => m.applied \in whole' /\ m.apps # <<>>,
         ~m.renewed => ~mem.renewed /\ SaysAfter(disk, m),
         ~m.renewed /\ ~m.torn => ~mem.torn /\ mem.applied <= m.applied,
         ~m.renewed /\ ~m.torn /\ m.status = "applied" => Clean(m, m.applied)
  PROVE  SubInv'
<1>1. PICK e : e = [m EXCEPT !.pass = 0]  OBVIOUS
<1>2. /\ e \in AgentStates /\ e.rev = m.rev /\ e.seq = m.seq /\ e.apps = m.apps /\ e.applied = m.applied /\ e.status = m.status
      /\ e.at = m.at /\ e.pass = 0 /\ e.renewed = m.renewed /\ e.torn = m.torn
  BY <1>1 DEF AgentStates
<1>3. disk' = e  BY <1>1
<1>4. m.at \in Nat /\ m.seq \in Nat  BY AgentFields
<1>5. About(e)'  BY <1>2 DEF About
<1>6. SubAgent'
  <2>1. \A x \in {m, e} : About(x)' /\ x.applied <= Len(docs) /\ (x.apps # <<>> => x.applied <= x.rev) /\ (x.status = "applied" => x.applied \in whole' /\ x.apps # <<>>)
    BY <1>2, <1>5
  <2> QED  BY <1>2, <1>3, <1>4, <2>1 DEF SubAgent
<1>7. ~m.renewed => SaysAfter(disk, e)  BY <1>2 DEF SaysAfter
<1>8. ~m.renewed /\ ~m.torn => \A x \in {m, e} : x.status = "applied" => Clean(x, x.applied)  BY <1>2 DEF Clean
<1>9. ~mem'.renewed => ~mem.renewed /\ SaysAfter(disk, disk')  BY <1>3, <1>7
<1>10. ~mem'.renewed /\ ~mem'.torn => \A x \in {mem', disk'} : x.status = "applied" => Clean(x, x.applied)  BY <1>3, <1>8
<1> QED  BY <1>2, <1>3, <1>6, <1>9, <1>10, AgentMoved

LEMMA ReceiptedFacts ==
  ASSUME SubInv, docs # <<>>, NEW out \in [DOMAIN docs[Len(docs)] -> {"ok", "failed", "pending"}], NEW r, r = Receipted(out)
  PROVE  /\ r \in AgentStates /\ r.applied = mem.applied /\ r.status = mem.status /\ r.pass = mem.pass
         /\ r.renewed = mem.renewed /\ r.torn = mem.torn
         /\ \/ r = mem /\ Receipts(docs[Len(docs)], out) = <<>>
            \/ /\ r.rev = Len(docs) /\ r.seq = mem.seq + 1 /\ r.at = mem.at + 1
               /\ r.apps = Receipts(docs[Len(docs)], out) /\ r.apps # <<>>
<1>1. PICK a : a = Receipts(docs[Len(docs)], out)  OBVIOUS
<1>2. a \in AppSets  BY <1>1, PassReceipts
<1>3. mem \in AgentStates /\ Len(docs) \in Nat  BY SubRunning
<1>4. CASE a = <<>>  BY <1>1, <1>3, <1>4 DEF Receipted
<1>5. CASE a # <<>>
  <2>0. PICK w : w = mem  OBVIOUS
  <2>1. r = [w EXCEPT !.rev = Len(docs), !.seq = @ + 1, !.apps = a, !.at = @ + 1]  BY <1>1, <1>5, <2>0 DEF Receipted
  <2>2. w \in AgentStates  BY <1>3, <2>0
  <2>3. /\ r \in AgentStates /\ r.applied = w.applied /\ r.status = w.status /\ r.pass = w.pass
        /\ r.renewed = w.renewed /\ r.torn = w.torn
        /\ r.rev = Len(docs) /\ r.seq = w.seq + 1 /\ r.at = w.at + 1 /\ r.apps = a
    <3>1. PICK k : k = Len(docs)  OBVIOUS
    <3>2. PICK q : q = w.seq + 1  OBVIOUS
    <3>3. PICK t : t = w.at + 1  OBVIOUS
    <3>4. k \in Nat /\ q \in Nat /\ t \in Nat  BY <1>3, <2>2, <3>1, <3>2, <3>3, AgentFields
    <3>5. r = [w EXCEPT !.rev = k, !.seq = q, !.apps = a, !.at = t]  BY <2>1, <3>1, <3>2, <3>3, Zenon
    <3>6. /\ r \in AgentStates /\ r.applied = w.applied /\ r.status = w.status /\ r.pass = w.pass
          /\ r.renewed = w.renewed /\ r.torn = w.torn /\ r.rev = k /\ r.seq = q /\ r.at = t /\ r.apps = a
      BY <1>2, <2>2, <3>4, <3>5 DEF AgentStates
    <3> QED  BY <3>1, <3>2, <3>3, <3>6
  <2> QED  BY <1>1, <1>5, <2>0, <2>3
<1> QED  BY <1>4, <1>5

(* What the receipts of a pass say, and that they come after what was saved *)
LEMMA ReceiptedSays ==
  ASSUME SubInv, docs # <<>>, UNCHANGED docs, NEW out \in [DOMAIN docs[Len(docs)] -> {"ok", "failed", "pending"}],
         NEW r, r = Receipted(out), ran' = Started(out)
  PROVE  /\ About(r)' /\ (r.apps # <<>> => mem.applied <= r.rev)
         /\ SaysAfter(disk, r)
<1> USE SubRunning, AgentFields
<1>1. PICK a : a = Receipts(docs[Len(docs)], out)  OBVIOUS
<1>2. /\ mem.applied <= Len(docs) /\ disk.at <= mem.at /\ disk.seq <= mem.seq /\ About(mem)
      /\ mem.apps # <<>> => /\ mem.at = disk.at /\ mem.seq = disk.seq /\ mem.rev = disk.rev /\ mem.apps = disk.apps
                            /\ mem.applied <= mem.rev
  BY DEF SubInv, SubAgent
<1>3. CASE r = mem
  <2>1. About(r) /\ DOMAIN r.apps \subseteq DNodes  BY <1>2, <1>3, AppFacts
  <2>2. \A n \in DNodes : ran[n] \subseteq ran'[n]  BY PassReceipts
  <2>3. About(r)'  BY <2>1, <2>2 DEF About
  <2>4. SaysAfter(disk, mem)  BY <1>2 DEF SaysAfter
  <2> QED  BY <1>2, <1>3, <2>3, <2>4
<1>4. CASE r.rev = Len(docs) /\ r.seq = mem.seq + 1 /\ r.at = mem.at + 1 /\ r.apps = a /\ r.apps # <<>>
  <2>1. About(r)'  BY <1>1, <1>4, PassReceipts DEF About
  <2>2. SaysAfter(disk, r)  BY <1>2, <1>4 DEF SaysAfter
  <2> QED  BY <1>2, <1>4, <2>1, <2>2
<1> QED  BY <1>1, <1>3, <1>4, ReceiptedFacts

(* What a pass adds to the revisions applied as a whole *)
WholeGrows ==
  /\ whole \subseteq whole' /\ whole' \subseteq 1 .. Len(docs)
  /\ \A r \in whole' : r \notin whole => \A n \in DOMAIN docs[r] : docs[r][n].blocked \/ docs[r][n].cred \in ran'[n]

LEMMA PassWhole ==
  ASSUME SubInv, docs # <<>>, NEW out \in [DOMAIN docs[Len(docs)] -> {"ok", "failed", "pending"}], ran' = Started(out),
         whole' = IF Outcome(out) = "applied" THEN whole \cup {Len(docs)} ELSE whole
  PROVE  WholeGrows /\ \A n \in DNodes : ran[n] \subseteq ran'[n]
<1>1. \A n \in DNodes : ran[n] \subseteq ran'[n]  BY PassReceipts
<1>2. Len(docs) \in 1 .. Len(docs) /\ whole \subseteq 1 .. Len(docs)  BY PassReceipts DEF SubInv, SubTyped
<1>3. Outcome(out) = "applied" =>
        \A n \in DOMAIN docs[Len(docs)] : docs[Len(docs)][n].blocked \/ docs[Len(docs)][n].cred \in ran'[n]
  BY PassReceipts
<1> QED  BY <1>1, <1>2, <1>3 DEF WholeGrows

LEMMA AfterPassFacts ==
  ASSUME SubInv, docs # <<>>, NEW out \in [DOMAIN docs[Len(docs)] -> {"ok", "failed", "pending"}],
         NEW r, r = Receipted(out), NEW o, o = Outcome(out), NEW m, m = AfterPass(out)
  PROVE  /\ m \in AgentStates /\ m.rev = r.rev /\ m.seq = r.seq /\ m.apps = r.apps /\ m.at = r.at /\ m.renewed = r.renewed
         /\ m.torn = r.torn /\ m.status = o /\ m.pass = Len(docs)
         /\ m.applied = IF o = "applied" THEN Len(docs) ELSE mem.applied
<1>1. r \in AgentStates /\ r.applied = mem.applied  BY ReceiptedFacts
<1>2. o \in {"pending", "failed", "applied"}  BY PassReceipts
<1>3. Len(docs) \in Nat  BY SubRunning
<1>4. PICK p : p = [r EXCEPT !.status = o, !.pass = Len(docs)]  OBVIOUS
<1>5. /\ p \in AgentStates /\ p.rev = r.rev /\ p.seq = r.seq /\ p.apps = r.apps /\ p.at = r.at /\ p.renewed = r.renewed
      /\ p.torn = r.torn /\ p.status = o /\ p.pass = Len(docs) /\ p.applied = r.applied
  BY <1>1, <1>2, <1>3, <1>4 DEF AgentStates
<1>6. m = IF o = "applied" THEN [p EXCEPT !.applied = Len(docs)] ELSE p  BY <1>4 DEF AfterPass
<1>7. CASE o = "applied"
  <2>1. m = [p EXCEPT !.applied = Len(docs)]  BY <1>6, <1>7
  <2> QED  BY <1>3, <1>5, <1>7, <2>1 DEF AgentStates
<1>8. CASE o # "applied"  BY <1>1, <1>5, <1>6, <1>8
<1> QED  BY <1>7, <1>8

LEMMA SubPass == ASSUME SubInv, AgentPass PROVE SubInv'
<1> USE SubRunning, AgentFields
<1>1. docs # <<>> /\ UNCHANGED <<row, draft, sharing, chain, unsent, docs, net, applied, arow, newest>>  BY DEF AgentPass
<1>2. PICK out \in [DOMAIN docs[Len(docs)] -> {"ok", "failed", "pending"}] :
        /\ Saved(AfterPass(out)) /\ ran' = Started(out)
        /\ whole' = IF Outcome(out) = "applied" THEN whole \cup {Len(docs)} ELSE whole
  BY DEF AgentPass
<1>3. PICK r : r = Receipted(out)  OBVIOUS
<1>4. PICK o : o = Outcome(out)  OBVIOUS
<1>5. PICK m : m = AfterPass(out)  OBVIOUS
<1>6. r \in AgentStates /\ r.applied = mem.applied /\ r.renewed = mem.renewed /\ r.torn = mem.torn  BY <1>1, <1>3, ReceiptedFacts
<1>7. o \in {"pending", "failed", "applied"}  BY <1>1, <1>4, PassReceipts
<1>8. /\ m \in AgentStates /\ m.rev = r.rev /\ m.seq = r.seq /\ m.apps = r.apps /\ m.at = r.at /\ m.renewed = r.renewed
      /\ m.torn = r.torn /\ m.status = o /\ m.pass = Len(docs)
      /\ m.applied = IF o = "applied" THEN Len(docs) ELSE mem.applied
  BY <1>1, <1>3, <1>4, <1>5, AfterPassFacts
<1>9. mem' = m /\ disk' = [m EXCEPT !.pass = 0]  BY <1>2, <1>5 DEF Saved
<1>10. /\ About(r)' /\ (r.apps # <<>> => mem.applied <= r.rev) /\ SaysAfter(disk, r)
  BY <1>1, <1>2, <1>3, ReceiptedSays
<1>11. About(m)' /\ SaysAfter(disk, m)  BY <1>8, <1>10 DEF About, SaysAfter
<1>12. mem.applied <= Len(docs)  BY DEF SubInv, SubAgent
<1>13. o = "applied" => /\ r.rev = Len(docs) /\ r.apps # <<>> /\ Clean(r, Len(docs))
                        /\ \A n \in DOMAIN docs[Len(docs)] : docs[Len(docs)][n].blocked \/ docs[Len(docs)][n].cred \in ran'[n]
  <2>1. SUFFICES ASSUME o = "applied"
                 PROVE  /\ r.rev = Len(docs) /\ r.apps # <<>> /\ Clean(r, Len(docs))
                        /\ \A n \in DOMAIN docs[Len(docs)] : docs[Len(docs)][n].blocked \/ docs[Len(docs)][n].cred \in ran'[n]
    OBVIOUS
  <2>2. PICK a : a = Receipts(docs[Len(docs)], out)  OBVIOUS
  <2>3. /\ DOMAIN a = DOMAIN docs[Len(docs)] /\ a # <<>>
        /\ \A n \in DOMAIN docs[Len(docs)] : a[n] # "failed" /\ (docs[Len(docs)][n].blocked \/ docs[Len(docs)][n].cred \in ran'[n])
    BY <1>1, <1>2, <1>4, <2>1, <2>2, PassReceipts
  <2>4. r.rev = Len(docs) /\ r.apps = a  BY <1>1, <1>3, <2>2, <2>3, ReceiptedFacts
  <2> QED  BY <2>3, <2>4 DEF Clean
<1>14. o = "applied" => Clean(m, Len(docs))  BY <1>8, <1>13 DEF Clean
<1>15. whole' = IF o = "applied" THEN whole \cup {Len(docs)} ELSE whole  BY <1>2, <1>4
<1>16. WholeGrows /\ \A n \in DNodes : ran[n] \subseteq ran'[n]  BY <1>1, <1>2, PassWhole
<1>19. m.applied <= Len(docs) /\ m.pass <= Len(docs) /\ mem.applied <= m.applied /\ m.applied <= m.pass  BY <1>8, <1>12
<1>20. m.status = "applied" => m.pass = m.rev /\ m.applied = m.rev /\ m.applied \in whole' /\ m.apps # <<>> /\ Clean(m, m.applied)
  BY <1>8, <1>13, <1>14, <1>15
<1>21. m.apps # <<>> => m.applied <= m.rev  BY <1>8, <1>10, <1>13
<1>22. ~m.renewed => ~mem.renewed  BY <1>6, <1>8
<1>23. ~m.torn => ~mem.torn  BY <1>6, <1>8
<1> HIDE <1>2
<1> QED  BY <1>1, <1>8, <1>9, <1>11, <1>16, <1>19, <1>20, <1>21, <1>22, <1>23, SubSaved DEF WholeGrows

(* The agent dies and comes back with the state m. *)
LEMMA SubRestarted ==
  ASSUME SubInv, UNCHANGED <<row, draft, sharing, chain, docs, net, applied, arow, newest>>, WholeGrows,
         \A n \in DNodes : ran[n] \subseteq ran'[n],
         NEW m \in AgentStates, NEW p, p = [m EXCEPT !.pass = 0], Saved(p),
         m.applied <= Len(docs), About(m)', m.apps # <<>> => m.applied <= m.rev,
         m.status = "applied" => m.applied \in whole /\ m.apps # <<>>,
         m.renewed = mem.renewed, SaysAfter(disk, m), ~m.torn => ~mem.torn /\ m.applied = mem.applied,
         ~m.renewed /\ ~m.torn /\ m.status = "applied" => Clean(m, m.applied)
  PROVE  SubInv'
<1>1. /\ p \in AgentStates /\ p.rev = m.rev /\ p.seq = m.seq /\ p.apps = m.apps /\ p.applied = m.applied /\ p.status = m.status
      /\ p.at = m.at /\ p.pass = 0 /\ p.renewed = m.renewed /\ p.torn = m.torn
  BY DEF AgentStates
<1>2. mem' = p /\ disk' = [p EXCEPT !.pass = 0]  BY DEF Saved
<1>3. mem.applied \in Nat /\ Len(docs) \in Nat  BY SubRunning, AgentFields
<1>4. p.applied <= Len(docs) /\ p.pass <= Len(docs) /\ (~p.torn => mem.applied <= p.applied) /\ ~(p.pass > 0)  BY <1>1, <1>3
<1>5. About(p)' /\ SaysAfter(disk, p)  BY <1>1 DEF About, SaysAfter
<1>6. ~p.renewed /\ ~p.torn /\ p.status = "applied" => Clean(p, p.applied)  BY <1>1 DEF Clean
<1>8. /\ p.apps # <<>> => p.applied <= p.rev
      /\ p.status = "applied" => p.applied \in whole' /\ p.apps # <<>>
      /\ ~p.renewed => ~mem.renewed
      /\ ~p.torn => ~mem.torn
  BY <1>1 DEF WholeGrows
<1> QED  BY <1>1, <1>2, <1>4, <1>5, <1>6, <1>8, SubSaved DEF WholeGrows

LEMMA AboutKept ==
  ASSUME NEW x, About(x), x.apps \in AppSets, UNCHANGED docs, \A n \in DNodes : ran[n] \subseteq ran'[n]
  PROVE  About(x)'
  BY AppFacts DEF About

(* The agent's state in memory or on disk is a state it may come back with. *)
LEMMA SubBack ==
  ASSUME SubInv, UNCHANGED <<row, draft, sharing, chain, docs, net, applied, arow, newest>>, WholeGrows,
         \A n \in DNodes : ran[n] \subseteq ran'[n], NEW m, m = mem \/ m = disk, Saved([m EXCEPT !.pass = 0])
  PROVE  SubInv'
<1> USE SubRunning, AgentFields
<1>1. /\ m \in AgentStates /\ m.applied <= Len(docs) /\ (~m.torn => m.applied = mem.applied) /\ m.renewed = mem.renewed /\ m.torn = mem.torn
      /\ About(m) /\ (m.apps # <<>> => m.applied <= m.rev) /\ (m.status = "applied" => m.applied \in whole /\ m.apps # <<>>)
  BY DEF SubInv, SubAgent
<1>2. SaysAfter(disk, m)
  <2>1. SaysAfter(disk, disk)  BY DEF SaysAfter
  <2>2. SaysAfter(disk, mem)  BY DEF SaysAfter, SubInv, SubAgent
  <2> QED  BY <2>1, <2>2
<1>3. ~m.renewed /\ ~m.torn /\ m.status = "applied" => Clean(m, m.applied)  BY <1>1 DEF SubInv, SubWhole
<1>4. About(m)'  BY <1>1, AboutKept
<1>5. PICK p : p = [m EXCEPT !.pass = 0]  OBVIOUS
<1> QED  BY <1>1, <1>2, <1>3, <1>4, <1>5, SubRestarted

(* Receipts are withdrawn in memory only. *)
Silent(m) == m.apps = <<>>
LEMMA SubWithdrawn ==
  ASSUME SubInv, UNCHANGED <<row, draft, sharing, chain, docs, net, applied, arow, newest, disk>>, WholeGrows,
         \A n \in DNodes : ran[n] \subseteq ran'[n],
         NEW m \in AgentStates, mem' = m, Silent(m), m.status = "failed", m.at >= mem.at, m.seq >= mem.seq,
         m.applied = mem.applied, m.pass = 0 \/ m.pass = Len(docs), m.renewed = mem.renewed, m.torn = mem.torn
  PROVE  SubInv'
<1> USE SubRunning, AgentFields
<1>1. /\ disk.renewed = mem.renewed /\ disk.torn = mem.torn /\ (~mem.torn => disk.applied = mem.applied) /\ disk.pass = 0
      /\ mem.applied <= Len(docs) /\ disk.applied <= Len(docs) /\ disk.at <= mem.at /\ disk.seq <= mem.seq /\ About(disk)
      /\ disk.apps # <<>> => disk.applied <= disk.rev
      /\ disk.status = "applied" => disk.applied \in whole /\ disk.apps # <<>>
  BY DEF SubInv, SubAgent
<1>2. PICK e : e = disk  OBVIOUS
<1>3. About(e)' /\ About(m)'
  <2>1. e.apps \in AppSets /\ About(e)  BY <1>1, <1>2
  <2> QED  BY <2>1, AboutKept DEF About, Silent
<1>4. SubAgent'
  <2>1. \A x \in {m, e} : About(x)' /\ x.applied <= Len(docs') /\ (x.apps # <<>> => x.applied <= x.rev) /\ (x.status = "applied" => x.applied \in whole' /\ x.apps # <<>>)
    BY <1>1, <1>2, <1>3 DEF Silent, WholeGrows
  <2>2. disk' = e /\ mem' = m  BY <1>2
  <2>3. m.applied <= Len(docs') /\ m.pass <= Len(docs') /\ (m.pass > 0 => m.applied <= m.pass) /\ e.at <= m.at /\ e.seq <= m.seq
    BY <1>1, <1>2
  <2> QED  BY <1>1, <1>2, <2>1, <2>2, <2>3 DEF SubAgent, Silent
<1>5. SaysAfter(disk, disk')  BY DEF SaysAfter
<1>6. ~mem'.renewed /\ ~mem'.torn => \A x \in {mem', disk'} : x.status = "applied" => Clean(x, x.applied)
  BY DEF SubInv, SubWhole
<1>7. mem.applied <= mem'.applied  BY <1>1
<1> QED  BY <1>4, <1>5, <1>6, <1>7, AgentMoved DEF WholeGrows

WithdrawnIn(w, k) == [Withdrawn(w) EXCEPT !.pass = k]
LEMMA WithdrawnFacts == ASSUME NEW w \in AgentStates, NEW k \in Nat, NEW m, m = WithdrawnIn(w, k) PROVE
  /\ m \in AgentStates /\ Silent(m) /\ m.status = "failed" /\ m.at = w.at + 1 /\ m.seq = w.seq /\ m.applied = w.applied
  /\ m.pass = k /\ m.renewed = w.renewed /\ m.torn = w.torn /\ m.rev = 0
<1>2. PICK a : a = <<>>  OBVIOUS
<1>1. <<>> \in AppSets  BY DEF AppSets
<1>3. PICK t : t = w.at + 1  OBVIOUS
<1>4. t \in Nat  BY <1>3, AgentFields
<1>5. PICK v : v = Withdrawn(w)  OBVIOUS
<1>6. v = [w EXCEPT !.rev = 0, !.apps = a, !.at = t, !.status = "failed"]  BY <1>2, <1>3, <1>5, Zenon DEF Withdrawn
<1>7. /\ v \in AgentStates /\ v.apps = a /\ v.status = "failed" /\ v.at = t /\ v.seq = w.seq /\ v.applied = w.applied
      /\ v.renewed = w.renewed /\ v.torn = w.torn /\ v.rev = 0
  BY <1>1, <1>2, <1>4, <1>6 DEF AgentStates
<1>8. m = [v EXCEPT !.pass = k]  BY <1>5 DEF WithdrawnIn
<1>9. /\ m \in AgentStates /\ m.apps = a /\ m.status = "failed" /\ m.at = t /\ m.seq = w.seq /\ m.applied = w.applied
      /\ m.pass = k /\ m.renewed = w.renewed /\ m.torn = w.torn /\ m.rev = 0
  BY <1>7, <1>8 DEF AgentStates
<1>10. Silent(m)  BY <1>2, <1>9 DEF Silent
<1> QED  BY <1>3, <1>9, <1>10


(* The receipts were saved and the result of the pass was not. *)
LEMMA SubTorn ==
  ASSUME SubInv, docs # <<>>, UNCHANGED <<row, draft, sharing, chain, docs, net, applied, arow, newest>>,
         NEW out \in [DOMAIN docs[Len(docs)] -> {"ok", "failed", "pending"}], ran' = Started(out),
         whole' = IF Outcome(out) = "applied" THEN whole \cup {Len(docs)} ELSE whole,
         NEW r, r = Receipted(out), NEW s, s = AfterPass(out), NEW m, NEW e, mem' = m, disk' = e,
         m = [s EXCEPT !.pass = 0, !.torn = TRUE], e = [r EXCEPT !.pass = 0, !.torn = TRUE]
  PROVE  SubInv'
<1>2. PICK o : o = Outcome(out)  OBVIOUS
<1>7. /\ r \in AgentStates /\ r.applied = mem.applied /\ r.status = mem.status /\ r.renewed = mem.renewed
      /\ r = mem \/ (r.rev = Len(docs) /\ r.apps # <<>>)
      /\ o = "applied" => r.rev = Len(docs) /\ r.apps # <<>>
  BY <1>2, PassReceipts, ReceiptedFacts
<1>8. /\ s \in AgentStates /\ s.rev = r.rev /\ s.seq = r.seq /\ s.apps = r.apps /\ s.at = r.at /\ s.renewed = r.renewed
      /\ s.status = o /\ s.applied = IF o = "applied" THEN Len(docs) ELSE mem.applied
  BY <1>2, AfterPassFacts
<1>9. /\ m \in AgentStates /\ m.rev = s.rev /\ m.seq = s.seq /\ m.apps = s.apps /\ m.at = s.at /\ m.renewed = s.renewed
      /\ m.status = s.status /\ m.applied = s.applied /\ m.pass = 0 /\ m.torn = TRUE
  BY <1>8 DEF AgentStates
<1>10. /\ e \in AgentStates /\ e.rev = r.rev /\ e.seq = r.seq /\ e.apps = r.apps /\ e.at = r.at /\ e.renewed = r.renewed
       /\ e.status = r.status /\ e.applied = r.applied /\ e.pass = 0 /\ e.torn = TRUE
  BY <1>7 DEF AgentStates
<1>11. About(r)' /\ (r.apps # <<>> => mem.applied <= r.rev) /\ SaysAfter(disk, r)  BY ReceiptedSays
<1>12. About(m)' /\ About(e)'  BY <1>8, <1>9, <1>10, <1>11 DEF About
<1>13. SaysAfter(disk, e)  BY <1>10, <1>11 DEF SaysAfter
<1>14. mem.applied <= Len(docs) /\ (mem.status = "applied" => mem.applied \in whole /\ mem.apps # <<>>)  BY DEF SubInv, SubAgent
<1>15. WholeGrows /\ \A n \in DNodes : ran[n] \subseteq ran'[n]  BY PassWhole
<1>16. o = "applied" => Len(docs) \in whole'  BY <1>2
<1>17. Len(docs) \in Nat /\ r.at \in Nat /\ r.seq \in Nat /\ mem.applied \in Nat  BY <1>7, SubRunning, AgentFields
<1>18. /\ m.applied <= Len(docs) /\ (m.apps # <<>> => m.applied <= m.rev)
       /\ m.status = "applied" => m.applied \in whole' /\ m.apps # <<>>
  BY <1>7, <1>8, <1>9, <1>11, <1>14, <1>16, <1>17
<1>19. /\ e.applied <= Len(docs) /\ (e.apps # <<>> => e.applied <= e.rev)
       /\ e.status = "applied" => e.applied \in whole' /\ e.apps # <<>>
  BY <1>7, <1>10, <1>11, <1>14, <1>15 DEF WholeGrows
<1>20. SubAgent'
  <2>1. \A x \in {m, e} : /\ About(x)' /\ x.applied <= Len(docs') /\ (x.apps # <<>> => x.applied <= x.rev)
                          /\ x.status = "applied" => x.applied \in whole' /\ x.apps # <<>>
    BY <1>12, <1>18, <1>19
  <2>2. /\ e.renewed = m.renewed /\ e.at = m.at /\ e.seq = m.seq /\ e.rev = m.rev /\ e.apps = m.apps
        /\ e.torn = m.torn /\ (~m.torn => e.applied = m.applied) /\ e.pass = 0 /\ m.pass = 0 /\ m.pass <= Len(docs') /\ e.at <= m.at /\ e.seq <= m.seq
    BY <1>8, <1>9, <1>10, <1>17
  <2> QED  BY <2>1, <2>2 DEF SubAgent
<1>21. ~m.renewed => ~mem.renewed  BY <1>7, <1>8, <1>9
<1>22. mem'.torn = TRUE /\ mem' \in AgentStates /\ disk' \in AgentStates /\ SaysAfter(disk, disk') /\ (~mem'.renewed => ~mem.renewed)
  BY <1>9, <1>10, <1>13, <1>21
<1> QED  BY <1>15, <1>20, <1>22, AgentMoved DEF WholeGrows

(* ... or the agent died between the two. *)
LEMMA SubTornRestart ==
  ASSUME SubInv, docs # <<>>, UNCHANGED <<row, draft, sharing, chain, docs, net, applied, arow, newest>>, WholeGrows,
         NEW out \in [DOMAIN docs[Len(docs)] -> {"ok", "failed", "pending"}], ran' = Started(out),
         \A n \in DNodes : ran[n] \subseteq ran'[n],
         NEW m, m = [Receipted(out) EXCEPT !.torn = TRUE], Saved([m EXCEPT !.pass = 0])
  PROVE  SubInv'
<1>1. PICK r : r = Receipted(out)  OBVIOUS
<1>2. /\ r \in AgentStates /\ r.applied = mem.applied /\ r.status = mem.status /\ r.renewed = mem.renewed
      /\ r = mem \/ r.apps # <<>>
  BY <1>1, ReceiptedFacts
<1>3. m = [r EXCEPT !.torn = TRUE]  BY <1>1
<1>4. /\ m \in AgentStates /\ m.rev = r.rev /\ m.seq = r.seq /\ m.apps = r.apps /\ m.at = r.at /\ m.renewed = r.renewed
      /\ m.status = r.status /\ m.applied = r.applied /\ m.torn = TRUE
  BY <1>2, <1>3 DEF AgentStates
<1>5. About(r)' /\ (r.apps # <<>> => mem.applied <= r.rev) /\ SaysAfter(disk, r)  BY <1>1, ReceiptedSays
<1>6. About(m)' /\ SaysAfter(disk, m)  BY <1>4, <1>5 DEF About, SaysAfter
<1>7. mem.applied <= Len(docs) /\ (mem.status = "applied" => mem.applied \in whole /\ mem.apps # <<>>)  BY DEF SubInv, SubAgent
<1>8. /\ m.applied <= Len(docs) /\ (m.apps # <<>> => m.applied <= m.rev) /\ m.renewed = mem.renewed
      /\ m.status = "applied" => m.applied \in whole /\ m.apps # <<>>
  BY <1>2, <1>4, <1>5, <1>7
<1>9. PICK p : p = [m EXCEPT !.pass = 0]  OBVIOUS
<1>10. Saved(p)  BY <1>9
<1> HIDE <1>3
<1> QED  BY <1>4, <1>6, <1>8, <1>9, <1>10, SubRestarted

(* The receipts could not be saved, and the result was ... *)
LEMMA SubWithdrawnSaved ==
  ASSUME SubInv, UNCHANGED <<row, draft, sharing, chain, docs, net, applied, arow, newest>>, WholeGrows,
         \A n \in DNodes : ran[n] \subseteq ran'[n],
         NEW w \in AgentStates, w = mem, NEW k \in Nat, k = Len(docs), NEW m, m = WithdrawnIn(w, k), Saved(m)
  PROVE  SubInv'
<1>1. /\ m \in AgentStates /\ Silent(m) /\ m.status = "failed" /\ m.at = w.at + 1 /\ m.seq = w.seq /\ m.applied = w.applied
      /\ m.pass = k /\ m.renewed = w.renewed /\ m.torn = w.torn
  BY WithdrawnFacts
<1>2. mem' = m /\ disk' = [m EXCEPT !.pass = 0]  BY DEF Saved
<1>3. /\ mem.applied <= Len(docs) /\ disk.at <= mem.at /\ disk.seq <= mem.seq /\ disk.at \in Nat /\ disk.seq \in Nat
      /\ mem.applied \in Nat /\ w.at \in Nat /\ w.seq \in Nat
  BY SubRunning, AgentFields DEF SubInv, SubAgent
<1>4. About(m)' /\ m.apps = <<>>  BY <1>1 DEF About, Silent
<1>5. SaysAfter(disk, m)  BY <1>1, <1>3, <1>4 DEF SaysAfter
<1>6. m.applied <= Len(docs) /\ m.pass <= Len(docs) /\ m.applied <= m.pass /\ mem.applied <= m.applied  BY <1>1, <1>3
<1>7. m.status # "applied" /\ (~m.renewed => ~mem.renewed) /\ (~m.torn => ~mem.torn)  BY <1>1
<1> QED  BY <1>1, <1>2, <1>4, <1>5, <1>6, <1>7, SubSaved DEF WholeGrows

(* ... or was not. *)
LEMMA SubWithdrawnKept ==
  ASSUME SubInv, UNCHANGED <<row, draft, sharing, chain, docs, net, applied, arow, newest, disk>>, WholeGrows,
         \A n \in DNodes : ran[n] \subseteq ran'[n],
         NEW w \in AgentStates, w = mem, NEW k \in Nat, k = 0, NEW m, m = WithdrawnIn(w, k), mem' = m
  PROVE  SubInv'
<1>1. /\ m \in AgentStates /\ Silent(m) /\ m.status = "failed" /\ m.at = w.at + 1 /\ m.seq = w.seq /\ m.applied = w.applied
      /\ m.pass = k /\ m.renewed = w.renewed /\ m.torn = w.torn
  BY WithdrawnFacts
<1>2. m.at >= mem.at /\ m.seq >= mem.seq /\ m.applied = mem.applied /\ m.renewed = mem.renewed /\ m.torn = mem.torn
  BY <1>1, AgentFields
<1> QED  BY <1>1, <1>2, SubWithdrawn

LEMMA SubPassUnsaved == ASSUME SubInv, AgentPassUnsaved PROVE SubInv'
<1>1. docs # <<>> /\ UNCHANGED <<row, draft, sharing, chain, docs, net, applied, arow, newest>>  BY DEF AgentPassUnsaved
<1>2. PICK out \in [DOMAIN docs[Len(docs)] -> {"ok", "failed", "pending"}] :
        /\ ran' = Started(out)
        /\ whole' = IF Outcome(out) = "applied" THEN whole \cup {Len(docs)} ELSE whole
        /\ \/ Saved([Withdrawn(mem) EXCEPT !.pass = Len(docs)])
           \/ mem' = [Withdrawn(mem) EXCEPT !.pass = 0] /\ UNCHANGED disk
           \/ /\ mem' = [AfterPass(out) EXCEPT !.pass = 0, !.torn = TRUE]
              /\ disk' = [Receipted(out) EXCEPT !.pass = 0, !.torn = TRUE]
           \/ \E m \in {disk, mem, [Receipted(out) EXCEPT !.torn = TRUE]} : Saved([m EXCEPT !.pass = 0])
  BY Zenon DEF AgentPassUnsaved
<1>3. WholeGrows /\ \A n \in DNodes : ran[n] \subseteq ran'[n]  BY <1>1, <1>2, PassWhole
<1>4. PICK w : w = mem  OBVIOUS
<1>5. w \in AgentStates /\ Len(docs) \in Nat /\ 0 \in Nat /\ w.at \in Nat /\ w.seq \in Nat  BY <1>4, SubRunning, AgentFields
<1>6. CASE Saved([Withdrawn(mem) EXCEPT !.pass = Len(docs)])
  <2>1. PICK k : k = Len(docs)  OBVIOUS
  <2>2. PICK m : m = WithdrawnIn(w, k)  OBVIOUS
  <2>3. Saved(m) /\ k \in Nat  BY <1>4, <1>5, <1>6, <2>1, <2>2 DEF WithdrawnIn
  <2> HIDE <1>2, <1>6
  <2> QED  BY <1>1, <1>3, <1>4, <1>5, <2>1, <2>2, <2>3, SubWithdrawnSaved
<1>7. CASE mem' = [Withdrawn(mem) EXCEPT !.pass = 0] /\ UNCHANGED disk
  <2>1. PICK k \in Nat : k = 0  OBVIOUS
  <2>2. PICK m : m = WithdrawnIn(w, k)  OBVIOUS
  <2>3. mem' = m /\ disk' = disk  BY <1>4, <1>7, <2>1, <2>2 DEF WithdrawnIn
  <2> HIDE <1>2, <1>7
  <2> QED  BY <1>1, <1>3, <1>4, <1>5, <2>1, <2>2, <2>3, SubWithdrawnKept
<1>8. CASE mem' = [AfterPass(out) EXCEPT !.pass = 0, !.torn = TRUE] /\ disk' = [Receipted(out) EXCEPT !.pass = 0, !.torn = TRUE]
  <2>1. PICK r : r = Receipted(out)  OBVIOUS
  <2>2. PICK s : s = AfterPass(out)  OBVIOUS
  <2>3. PICK m : m = [s EXCEPT !.pass = 0, !.torn = TRUE]  OBVIOUS
  <2>4. PICK e : e = [r EXCEPT !.pass = 0, !.torn = TRUE]  OBVIOUS
  <2>5. mem' = m /\ disk' = e  BY <1>8, <2>1, <2>2, <2>3, <2>4, Zenon
  <2>6. ran' = Started(out) /\ whole' = IF Outcome(out) = "applied" THEN whole \cup {Len(docs)} ELSE whole  BY <1>2
  <2> HIDE <1>2, <1>8
  <2> QED  BY <1>1, <2>1, <2>2, <2>3, <2>4, <2>5, <2>6, SubTorn
<1>9. ASSUME NEW m \in {disk, mem, [Receipted(out) EXCEPT !.torn = TRUE]}, Saved([m EXCEPT !.pass = 0]) PROVE SubInv'
  <2>1. CASE m = mem \/ m = disk  BY <1>1, <1>3, <1>9, <2>1, SubBack
  <2>2. CASE m = [Receipted(out) EXCEPT !.torn = TRUE]  BY <1>1, <1>2, <1>3, <1>9, <2>2, SubTornRestart
  <2> QED  BY <2>1, <2>2
<1> QED  BY <1>2, <1>6, <1>7, <1>8, <1>9

LEMMA SubInvalidate == ASSUME SubInv, InvalidateNATApplications PROVE SubInv'
<1> USE SubRunning, AgentFields
<1>1. UNCHANGED <<row, draft, sharing, chain, docs, net, applied, arow, newest, whole, ran>>
  BY DEF InvalidateNATApplications
<1>2. PICK w : w = mem  OBVIOUS
<1>3. PICK q : q = w.seq + 1  OBVIOUS
<1>4. PICK v : v = [w EXCEPT !.seq = q, !.status = "failed", !.pass = 0]  OBVIOUS
<1>5. w \in AgentStates /\ q \in Nat  BY <1>2, <1>3
<1>6. /\ v \in AgentStates /\ v.seq = q /\ v.status = "failed" /\ v.pass = 0 /\ v.rev = w.rev /\ v.apps = w.apps /\ v.at = w.at
      /\ v.applied = w.applied /\ v.renewed = w.renewed /\ v.torn = w.torn
  BY <1>4, <1>5 DEF AgentStates
<1>7. \E n \in DOMAIN mem.apps : mem.apps[n] # "failed"  BY DEF InvalidateNATApplications
<1>8. mem.apps # <<>>  BY <1>7
<1>9. /\ mem.at = disk.at /\ mem.seq = disk.seq /\ mem.rev = disk.rev /\ mem.apps = disk.apps /\ mem.applied <= mem.rev /\ About(mem)
      /\ mem.applied <= Len(docs)
  BY <1>8 DEF SubInv, SubAgent
<1>10. \/ Saved([v EXCEPT !.at = @ + 1, !.apps = [n \in DOMAIN mem.apps |-> "failed"]])
       \/ mem' = Withdrawn(v) /\ UNCHANGED disk
  BY <1>2, <1>3, <1>4, Zenon DEF InvalidateNATApplications
<1>11. \A n \in DNodes : ran[n] \subseteq ran'[n]  BY <1>1
<1>12. whole \subseteq 1 .. Len(docs)  BY DEF SubInv, SubTyped
<1>15. WholeGrows  BY <1>1, <1>12 DEF WholeGrows
<1>13. CASE Saved([v EXCEPT !.at = @ + 1, !.apps = [n \in DOMAIN mem.apps |-> "failed"]])
  <2>1. PICK a : a = [n \in DOMAIN mem.apps |-> "failed"]  OBVIOUS
  <2>2. PICK t : t = v.at + 1  OBVIOUS
  <2>3. PICK m : m = [v EXCEPT !.at = t, !.apps = a]  OBVIOUS
  <2>4. Saved(m)  BY <1>13, <2>1, <2>2, <2>3, Zenon
  <2>5. DOMAIN mem.apps \in SUBSET DNodes  BY AppFacts
  <2>6. PICK S \in SUBSET DNodes : S = DOMAIN mem.apps  BY <2>5
  <2>7. a \in [S -> AppWords] /\ \A n \in S : a[n] = "failed"  BY <2>1, <2>6 DEF AppWords
  <2>8. a \in AppSets /\ DOMAIN a = DOMAIN mem.apps  BY <2>6, <2>7, AppSetMember
  <2>9. t \in Nat  BY <1>6, <2>2
  <2>10. /\ m \in AgentStates /\ m.at = t /\ m.apps = a /\ m.seq = q /\ m.status = "failed" /\ m.pass = 0 /\ m.rev = v.rev
         /\ m.applied = v.applied /\ m.renewed = v.renewed /\ m.torn = v.torn
    BY <1>6, <2>3, <2>8, <2>9 DEF AgentStates
  <2>11. mem' = m /\ disk' = [m EXCEPT !.pass = 0]  BY <2>4 DEF Saved
  <2>12. m.rev = mem.rev /\ m.applied = mem.applied /\ m.renewed = mem.renewed /\ m.torn = mem.torn /\ m.at = mem.at + 1 /\ m.seq = mem.seq + 1
    BY <1>2, <1>3, <1>6, <2>2, <2>10
  <2>13. About(m)'
    <3>1. m.rev \in 1 .. Len(docs) /\ DOMAIN m.apps \subseteq DOMAIN docs[m.rev]  BY <1>8, <1>9, <2>8, <2>10, <2>12 DEF About
    <3>2. \A n \in DOMAIN m.apps : m.apps[n] # "applied"  BY <2>6, <2>7, <2>8, <2>10
    <3> QED  BY <1>1, <3>1, <3>2 DEF About
  <2>14. SaysAfter(disk, m)  BY <1>8, <1>9, <2>12 DEF SaysAfter
  <2>15. /\ m.applied <= Len(docs) /\ m.pass <= Len(docs) /\ ~(m.pass > 0) /\ mem.applied <= m.applied /\ m.applied <= m.rev
    BY <1>9, <2>10, <2>12
  <2>16. m.status # "applied" /\ (~m.renewed => ~mem.renewed) /\ (~m.torn => ~mem.torn)  BY <2>10, <2>12
  <2> HIDE <1>4, <1>13, <2>3
  <2> QED  BY <1>1, <1>11, <1>12, <2>10, <2>11, <2>13, <2>14, <2>15, <2>16, SubSaved
<1>14. CASE mem' = Withdrawn(v) /\ UNCHANGED disk
  <2>1. PICK m : m = Withdrawn(v)  OBVIOUS
  <2>2. m = WithdrawnIn(v, 0)
    <3>1. PICK t : t = v.at + 1  OBVIOUS
    <3>2. PICK a : a = <<>>  OBVIOUS
    <3>3. t \in Nat /\ a \in AppSets  BY <1>6, <3>1, <3>2 DEF AppSets
    <3>4. m = [v EXCEPT !.rev = 0, !.apps = a, !.at = t, !.status = "failed"]  BY <2>1, <3>1, <3>2, Zenon DEF Withdrawn
    <3>5. m \in AgentStates /\ m.pass = 0  BY <1>6, <3>3, <3>4 DEF AgentStates
    <3>6. m = [m EXCEPT !.pass = 0]  BY <3>5 DEF AgentStates
    <3> QED  BY <2>1, <3>6 DEF WithdrawnIn
  <2>3. 0 \in Nat /\ v \in AgentStates  BY <1>6
  <2>4. /\ m \in AgentStates /\ Silent(m) /\ m.status = "failed" /\ m.at = v.at + 1 /\ m.seq = v.seq /\ m.applied = v.applied
        /\ m.pass = 0 /\ m.renewed = v.renewed /\ m.torn = v.torn
    <3> HIDE SubRunning, AgentFields
    <3> QED  BY <2>2, <2>3, WithdrawnFacts
  <2>5. /\ m.at >= mem.at /\ m.seq >= mem.seq /\ m.applied = mem.applied /\ m.renewed = mem.renewed /\ m.torn = mem.torn
    BY <1>2, <1>3, <1>6, <2>4
  <2>6. mem' = m /\ disk' = disk  BY <1>14, <2>1
  <2> HIDE <1>4, <1>14, <2>1, <2>2
  <2> QED  BY <1>1, <1>11, <1>15, <2>4, <2>5, <2>6, SubWithdrawn
<1> QED  BY <1>10, <1>13, <1>14

LEMMA SubReinstall == ASSUME SubInv, Reinstall PROVE SubInv'
<1> USE SubRunning, AgentFields
<1>1. UNCHANGED <<row, draft, sharing, chain, docs, net, applied, arow, newest, whole, ran>>
  BY DEF Reinstall
<1>2. PICK t : t = mem.at  OBVIOUS
<1>3. PICK m : m = [FreshState EXCEPT !.at = t, !.renewed = TRUE]  OBVIOUS
<1>4. Saved(m)  BY <1>2, <1>3 DEF Reinstall
<1>5. mem' = m /\ disk' = [m EXCEPT !.pass = 0]  BY <1>4 DEF Saved
<1>6. <<>> \in AppSets /\ t \in Nat  BY <1>2 DEF AppSets
<1>7. PICK a : a = <<>>  OBVIOUS
<1>8. m = [rev |-> 0, seq |-> 0, apps |-> a, applied |-> 0, status |-> "pending", at |-> t, pass |-> 0, renewed |-> TRUE, torn |-> FALSE]
  BY <1>3, <1>7 DEF FreshState
<1>9. /\ m \in AgentStates /\ m.apps = a /\ m.status = "pending" /\ m.pass = 0 /\ m.renewed = TRUE /\ m.applied = 0
      /\ m.torn = FALSE /\ m.rev = 0
  BY <1>6, <1>7, <1>8 DEF AgentStates
<1>10. About(m)'  BY <1>7, <1>9 DEF About
<1>11. whole \subseteq 1 .. Len(docs) /\ \A n \in DNodes : ran[n] \subseteq ran'[n]  BY <1>1 DEF SubInv, SubTyped
<1>12. m.applied <= Len(docs) /\ m.pass <= Len(docs) /\ ~(m.pass > 0)  BY <1>9
<1> HIDE <1>3, <1>8
<1> QED  BY <1>1, <1>5, <1>7, <1>9, <1>10, <1>11, <1>12, SubSaved

(* The agent sends x. *)
LEMMA SubSends ==
  ASSUME SubInv, UNCHANGED <<row, draft, sharing, chain, docs, disk, ran, whole, applied, arow, newest>>,
         NEW x \in AgentMsgs, net' = net \cup {x}, x.at = mem.at,
         x.apps # <<>> => mem.apps # <<>> /\ x.rev = mem.rev /\ x.seq = mem.seq /\ x.apps = mem.apps,
         mem.applied <= x.tried, x.tried <= Len(docs), x.apps # <<>> => x.tried <= x.rev,
         SaysApplied(x) => mem.status = "applied" /\ x.tried = mem.applied /\ x.apps # <<>>,
         mem' = mem \/ mem' = [mem EXCEPT !.pass = 0]
  PROVE  SubInv'
<1> USE SubRunning, AgentFields, MsgFields
<1>1. PICK m : m = mem'  OBVIOUS
<1>2. PICK w : w = mem  OBVIOUS
<1>3. /\ m \in AgentStates /\ m.rev = w.rev /\ m.seq = w.seq /\ m.apps = w.apps /\ m.applied = w.applied /\ m.status = w.status
      /\ m.at = w.at /\ (m.pass = w.pass \/ m.pass = 0) /\ m.renewed = w.renewed /\ m.torn = w.torn
  <2>1. w \in AgentStates /\ (m = w \/ m = [w EXCEPT !.pass = 0])  BY <1>1, <1>2
  <2>2. CASE m = w  BY <2>1, <2>2
  <2>3. CASE m = [w EXCEPT !.pass = 0]  BY <2>1, <2>3 DEF AgentStates
  <2> QED  BY <2>1, <2>2, <2>3
<1>4. SubTyped'  BY <1>1, <1>3 DEF SubInv, SubTyped
<1>5. SubAgent'
  <2>1. About(w) /\ About(disk)  BY <1>2 DEF SubInv, SubAgent
  <2>2. About(m)'  BY <1>3, <2>1 DEF About
  <2>3. About(disk)'  BY <2>1 DEF About
  <2>4. 0 <= Len(docs) /\ ~(0 > 0)  OBVIOUS
  <2> QED  BY <1>1, <1>2, <1>3, <2>2, <2>3, <2>4 DEF SubInv, SubAgent
<1>6. SubTold'
  <2>1. \A y : About(y) => About(y)'  BY DEF About
  <2>2. mem.apps # <<>> => About(mem)  BY DEF SubInv, SubAgent
  <2>3. About(x)  BY <2>2 DEF About
  <2>4. SaysApplied(x) => x.tried \in whole  BY DEF SubInv, SubAgent
  <2> QED  BY <2>1, <2>3, <2>4 DEF SubInv, SubTold, SaysApplied
<1>7. SubTables'  BY DEF SubInv, SubTables
<1>8. x.apps # <<>> => x.at = disk.at /\ x.seq = disk.seq /\ x.rev = disk.rev /\ x.apps = disk.apps /\ disk \in Spoken
  BY DEF SubInv, SubAgent, Spoken
<1>9. ~mem.renewed => SubOrdered'
  <2>1. SUFFICES ASSUME ~mem.renewed PROVE SubOrdered'  OBVIOUS
  <2>2. SubOrdered  BY <2>1 DEF SubInv
  <2>3. \A y \in Spoken' : y \in Spoken \/ (y = x /\ x.apps # <<>>)  BY DEF Spoken
  <2>4. x.apps # <<>> => \A y \in Spoken : InOrder(x, y) /\ InOrder(y, x)  BY <1>8, <2>2 DEF SubOrdered, InOrder
  <2>5. InOrder(x, x)  BY DEF InOrder
  <2>6. \A y, z \in Spoken' : InOrder(y, z)  BY <2>2, <2>3, <2>4, <2>5 DEF SubOrdered
  <2>7. \A n \in DNodes : newest[n] # None /\ x.apps # <<>> => Placed(n, x)
    <3>1. SUFFICES ASSUME NEW n \in DNodes, newest[n] # None, x.apps # <<>> PROVE Placed(n, x)  OBVIOUS
    <3>2. Placed(n, disk)  BY <1>8, <2>2, <3>1 DEF SubOrdered
    <3> QED  BY <1>8, <3>1, <3>2 DEF Placed
  <2>8. \A n \in DNodes : newest[n] # None => \A y \in Spoken' : Placed(n, y)  BY <2>2, <2>3, <2>7 DEF SubOrdered
  <2>9. \A y \in Spoken' : y.at <= disk.at /\ y.seq <= disk.seq  BY <1>8, <2>2, <2>3 DEF SubOrdered
  <2>10. \A n \in DNodes : \A y : Placed(n, y)' <=> Placed(n, y)  BY DEF Placed
  <2>11. \A y, z : InOrder(y, z)' <=> InOrder(y, z)  BY DEF InOrder
  <2> QED  BY <2>2, <2>6, <2>8, <2>9, <2>10, <2>11 DEF SubOrdered
<1>10. ~mem.renewed /\ ~mem.torn => SubWhole'
  <2>1. SUFFICES ASSUME ~mem.renewed, ~mem.torn PROVE SubWhole'  OBVIOUS
  <2>2. SubWhole  BY <2>1 DEF SubInv
  <2>3. \A y, r : Clean(y, r)' <=> Clean(y, r)  BY DEF Clean
  <2>4. Heard' = Heard  BY DEF Heard
  <2>5. SaysApplied(x) => Clean(x, x.tried) /\ x.tried <= mem.applied  BY <2>2 DEF SubWhole, Clean
  <2>6. \A y \in {mem', disk'} : y.status = "applied" => Clean(y, y.applied)'
    <3>1. w.status = "applied" => Clean(w, w.applied)  BY <1>2, <2>2 DEF SubWhole
    <3>2. m.status = "applied" => Clean(m, m.applied)'  BY <1>3, <3>1 DEF Clean
    <3>3. disk.status = "applied" => Clean(disk, disk.applied)'  BY <2>2 DEF SubWhole, Clean
    <3> QED  BY <1>1, <3>2, <3>3
  <2>7. \A y \in net : y.apps # <<>> => y.at <= disk.at
    <3>1. \A y \in Spoken : y.at <= disk.at  BY <2>1 DEF SubInv, SubOrdered
    <3> QED  BY <3>1 DEF Spoken
  <2>8. \A y, z \in net' : y.status = "applied" /\ z.apps # <<>> /\ z.at > y.at => z.tried >= y.tried
    <3>1. SUFFICES ASSUME NEW y \in net', NEW z \in net', y.status = "applied", z.apps # <<>>, z.at > y.at PROVE z.tried >= y.tried
      OBVIOUS
    <3>2. CASE y \in net /\ z \in net  BY <2>2, <3>1, <3>2 DEF SubWhole
    <3>3. CASE y \in net /\ z = x
      <4>1. y.tried <= mem.applied  BY <2>2, <3>1, <3>3 DEF SubWhole, SaysApplied
      <4> QED  BY <3>3, <4>1
    <3>4. CASE y = x /\ z \in net
      <4>1. x.at = disk.at  BY <1>8, <3>1, <3>4 DEF SaysApplied
      <4>2. z.at <= disk.at /\ z.at \in Nat  BY <2>7, <3>1, <3>4
      <4> QED  BY <3>1, <3>4, <4>1, <4>2
    <3>5. CASE y = x /\ z = x  BY <3>1, <3>5
    <3> QED  BY <3>2, <3>3, <3>4, <3>5
  <2>9. arow.rev <= mem.applied /\ arow.rev <= x.tried  BY <2>2 DEF SubWhole
  <2>10. mem'.applied = mem.applied  BY <1>1, <1>2, <1>3
  <2>11. \A y \in net' : SaysApplied(y) => Clean(y, y.tried)' /\ y.tried <= mem'.applied
    BY <2>2, <2>3, <2>5, <2>10 DEF SubWhole
  <2>12. \A y \in net' : y.apps # <<>> => y.tried <= y.rev  BY <2>2 DEF SubWhole
  <2>13. arow.rev > 0 => \A n \in Heard : /\ newest[n] # None
                                          /\ \A y \in net' : y.apps # <<>> /\ y.at > newest[n].at => y.tried >= arow.rev
    BY <2>2, <2>9 DEF SubWhole
  <2>14. arow.rev > 0 /\ ~arow.err => \A k \in DNodes : applied[k] # None /\ applied[k].rev = arow.rev =>
            /\ applied[k].status # "failed"
            /\ \A n \in Heard : newest[k].at <= newest[n].at
    BY <2>2 DEF SubWhole
  <2> QED  BY <2>4, <2>6, <2>8, <2>9, <2>10, <2>11, <2>12, <2>13, <2>14 DEF SubWhole, SaysApplied
<1>11. mem'.renewed = mem.renewed /\ mem'.torn = mem.torn  BY <1>1, <1>2, <1>3
<1> QED  BY <1>4, <1>5, <1>6, <1>7, <1>9, <1>10, <1>11 DEF SubInv

LEMMA SubHeartbeat == ASSUME SubInv, AgentHeartbeat PROVE SubInv'
<1> USE SubRunning, AgentFields
<1>1. UNCHANGED <<row, draft, sharing, chain, docs, mem, disk, ran, whole, applied, arow, newest>>  BY DEF AgentHeartbeat
<1>2. PICK s \in {mem.status} \cup (IF mem.status = "applied" THEN {"busy"} ELSE {}) :
       net' = net \cup {[rev |-> mem.rev, seq |-> mem.seq, apps |-> mem.apps, tried |-> mem.applied,
                         status |-> s, at |-> mem.at]}
  BY DEF AgentHeartbeat
<1>3. PICK x : x = [rev |-> mem.rev, seq |-> mem.seq, apps |-> mem.apps, tried |-> mem.applied, status |-> s, at |-> mem.at]
  OBVIOUS
<1>4. s \in {"pending", "failed", "applied", "busy"} /\ (s = mem.status \/ (s = "busy" /\ mem.status = "applied"))  BY <1>2
<1>5. /\ x \in AgentMsgs /\ x.rev = mem.rev /\ x.seq = mem.seq /\ x.apps = mem.apps /\ x.tried = mem.applied /\ x.status = s
      /\ x.at = mem.at
  BY <1>3, <1>4 DEF AgentMsgs
<1>6. net' = net \cup {x}  BY <1>2, <1>3
<1>7. /\ mem.applied <= Len(docs) /\ (mem.apps # <<>> => mem.applied <= mem.rev)
      /\ mem.status = "applied" => mem.apps # <<>>
  BY DEF SubInv, SubAgent
<1>8. /\ mem.applied <= x.tried /\ x.tried <= Len(docs) /\ (x.apps # <<>> => x.tried <= x.rev)
      /\ SaysApplied(x) => mem.status = "applied" /\ x.tried = mem.applied /\ x.apps # <<>>
      /\ x.apps # <<>> => mem.apps # <<>> /\ x.rev = mem.rev /\ x.seq = mem.seq /\ x.apps = mem.apps
  BY <1>4, <1>5, <1>7 DEF SaysApplied
<1> HIDE <1>3
<1> QED  BY <1>1, <1>5, <1>6, <1>8, SubSends

LEMMA SubReport == ASSUME SubInv, SendReport PROVE SubInv'
<1> USE SubRunning, AgentFields
<1>1. /\ UNCHANGED <<row, draft, sharing, chain, docs, disk, ran, whole, applied, arow, newest>>
      /\ mem.pass > 0 /\ mem' = [mem EXCEPT !.pass = 0]
  BY DEF SendReport
<1>2. PICK own \in BOOLEAN : own = (mem.rev = mem.pass)  OBVIOUS
<1>3. PICK a : a = IF own THEN mem.apps ELSE <<>>  OBVIOUS
<1>4. PICK q : q = IF own THEN mem.seq ELSE 0  OBVIOUS
<1>5. PICK x : x = [rev |-> mem.pass, seq |-> q, apps |-> a, tried |-> mem.pass, status |-> mem.status, at |-> mem.at]
  OBVIOUS
<1>6. net' = net \cup {x}  BY <1>2, <1>3, <1>4, <1>5 DEF SendReport
<1>7. a \in AppSets /\ q \in Nat /\ (a # <<>> => own)  BY <1>2, <1>3, <1>4 DEF AppSets
<1>8. /\ x \in AgentMsgs /\ x.rev = mem.pass /\ x.seq = q /\ x.apps = a /\ x.tried = mem.pass /\ x.status = mem.status
      /\ x.at = mem.at
  BY <1>5, <1>7 DEF AgentMsgs
<1>9. /\ mem.pass <= Len(docs) /\ mem.applied <= mem.pass
      /\ mem.status = "applied" => mem.pass = mem.rev /\ mem.applied = mem.rev /\ mem.apps # <<>>
  BY <1>1 DEF SubInv, SubAgent
<1>10. /\ mem.applied <= x.tried /\ x.tried <= Len(docs) /\ (x.apps # <<>> => x.tried <= x.rev)
       /\ SaysApplied(x) => mem.status = "applied" /\ x.tried = mem.applied /\ x.apps # <<>>
       /\ x.apps # <<>> => mem.apps # <<>> /\ x.rev = mem.rev /\ x.seq = mem.seq /\ x.apps = mem.apps
  <2>1. x.tried <= x.rev  BY <1>8
  <2>2. SaysApplied(x) => mem.status = "applied"  BY <1>8 DEF SaysApplied
  <2>3. SaysApplied(x) => x.tried = mem.applied /\ own /\ mem.apps # <<>>  BY <1>2, <1>8, <1>9, <2>2
  <2>4. SaysApplied(x) => x.apps # <<>>  BY <1>3, <1>8, <2>3
  <2>5. x.apps # <<>> => own  BY <1>7, <1>8
  <2>6. own => x.rev = mem.rev /\ x.seq = mem.seq /\ x.apps = mem.apps  BY <1>2, <1>3, <1>4, <1>8
  <2> QED  BY <1>8, <1>9, <2>1, <2>2, <2>3, <2>4, <2>5, <2>6
<1> HIDE <1>5
<1> QED  BY <1>1, <1>6, <1>8, <1>10, SubSends

(* What the controller records of the message m *)
Reaches(m, n) == m.apps # <<>> /\ n \in DOMAIN m.apps /\ row[n] # None
ReceiptOf(m, n) == [rev |-> m.rev, seq |-> m.seq, status |-> m.apps[n], cred |-> docs[m.rev][n].cred]
HeadOf(m, n) == [at |-> m.at, rev |-> m.rev, status |-> m.apps[n], cred |-> docs[m.rev][n].cred]

LEMMA ReceiptFacts == ASSUME SubInv, NEW m \in net, NEW n \in DNodes, Reaches(m, n), NEW r, r = ReceiptOf(m, n), NEW h, h = HeadOf(m, n)
  PROVE /\ r \in AppliedRows /\ r.rev = m.rev /\ r.seq = m.seq /\ r.status = m.apps[n] /\ r.cred = docs[m.rev][n].cred
        /\ h \in NewestRows /\ h.at = m.at /\ h.rev = m.rev /\ h.status = m.apps[n] /\ h.cred = docs[m.rev][n].cred
        /\ m.rev \in 1 .. Len(docs) /\ n \in DOMAIN docs[m.rev]
        /\ m.apps[n] = "applied" => docs[m.rev][n].cred \in ran[n]
<1>1. m \in AgentMsgs /\ About(m)  BY SubRunning DEF SubInv, SubTold
<1>2. /\ m.rev \in 1 .. Len(docs) /\ n \in DOMAIN docs[m.rev]
      /\ m.apps[n] = "applied" => docs[m.rev][n].cred \in ran[n]
  BY <1>1 DEF About, Reaches
<1>3. PICK c : c = docs[m.rev][n].cred  OBVIOUS
<1>4. PICK s : s = m.apps[n]  OBVIOUS
<1>5. c \in Nat  BY <1>2, <1>3, SubRunning, DocFacts
<1>6. s \in AppWords  BY <1>1, <1>4, MsgFields, AppFacts DEF Reaches
<1>7. m.rev \in Nat /\ m.seq \in Nat /\ m.at \in Nat  BY <1>1, MsgFields
<1>8. r = [rev |-> m.rev, seq |-> m.seq, status |-> s, cred |-> c]  BY <1>3, <1>4 DEF ReceiptOf
<1>9. h = [at |-> m.at, rev |-> m.rev, status |-> s, cred |-> c]  BY <1>3, <1>4 DEF HeadOf
<1>10. r \in AppliedRows /\ r.rev = m.rev /\ r.seq = m.seq /\ r.status = s /\ r.cred = c
  BY <1>5, <1>6, <1>7, <1>8 DEF AppliedRows, AppWords
<1>11. h \in NewestRows /\ h.at = m.at /\ h.rev = m.rev /\ h.status = s /\ h.cred = c
  BY <1>5, <1>6, <1>7, <1>9 DEF NewestRows, AppWords
<1> QED  BY <1>2, <1>3, <1>4, <1>10, <1>11

LEMMA RecordedNodes ==
  ASSUME SubInv, NEW m \in net, RecordNodes(m)
  PROVE  /\ applied' = [n \in DNodes |-> IF Reaches(m, n) /\ (applied[n] = None \/ SameOrNewer(ReceiptOf(m, n), applied[n]))
                                         THEN ReceiptOf(m, n) ELSE applied[n]]
         /\ newest' = [n \in DNodes |-> IF Reaches(m, n) /\ (newest[n] = None \/ newest[n].at < m.at)
                                        THEN HeadOf(m, n) ELSE newest[n]]
<1>1. CASE m.apps # <<>>
  <2>1. PICK st : st = Statement(m)  OBVIOUS
  <2>2. st.rev = m.rev /\ st.seq = m.seq /\ st.apps = m.apps  BY <1>1, <2>1 DEF Statement
  <2>3. applied' = [n \in DNodes |-> IF (n \in DOMAIN st.apps /\ row[n] # None)
                                        /\ (applied[n] = None
                                            \/ SameOrNewer([rev |-> st.rev, seq |-> st.seq, status |-> st.apps[n], cred |-> docs[st.rev][n].cred], applied[n]))
                                     THEN [rev |-> st.rev, seq |-> st.seq, status |-> st.apps[n], cred |-> docs[st.rev][n].cred]
                                     ELSE applied[n]]
    BY <2>1, Zenon DEF RecordNodes, Snapshot
  <2>4. newest' = [n \in DNodes |-> IF (n \in DOMAIN st.apps /\ row[n] # None) /\ (newest[n] = None \/ newest[n].at < m.at)
                                    THEN [at |-> m.at, rev |-> st.rev, status |-> st.apps[n], cred |-> docs[st.rev][n].cred]
                                    ELSE newest[n]]
    BY <2>1, Zenon DEF RecordNodes
  <2>5. \A n \in DNodes : Reaches(m, n) <=> (n \in DOMAIN st.apps /\ row[n] # None)  BY <1>1, <2>2 DEF Reaches
  <2>6. \A n \in DNodes : ReceiptOf(m, n) = [rev |-> st.rev, seq |-> st.seq, status |-> st.apps[n], cred |-> docs[st.rev][n].cred]
    BY <2>2, Zenon DEF ReceiptOf
  <2>7. \A n \in DNodes : HeadOf(m, n) = [at |-> m.at, rev |-> st.rev, status |-> st.apps[n], cred |-> docs[st.rev][n].cred]
    BY <2>2, Zenon DEF HeadOf
  <2> QED  BY <2>3, <2>4, <2>5, <2>6, <2>7
<1>2. CASE ~(m.apps # <<>>)
  <2>1. m.status # "applied"  BY <1>2 DEF SubInv, SubTold, SaysApplied
  <2>2. PICK st : st = Statement(m)  OBVIOUS
  <2>3. st = [rev |-> 0, seq |-> 0, apps |-> <<>>]  BY <1>2, <2>1, <2>2 DEF Statement
  <2>4. st.apps = <<>>  BY <2>3
  <2>5. \A n \in DNodes : n \notin DOMAIN st.apps  BY <2>4 DEF DNodes
  <2>6. applied' = [n \in DNodes |-> IF (n \in DOMAIN st.apps /\ row[n] # None)
                                        /\ (applied[n] = None
                                            \/ SameOrNewer([rev |-> st.rev, seq |-> st.seq, status |-> st.apps[n], cred |-> docs[st.rev][n].cred], applied[n]))
                                     THEN [rev |-> st.rev, seq |-> st.seq, status |-> st.apps[n], cred |-> docs[st.rev][n].cred]
                                     ELSE applied[n]]
    BY <2>2, Zenon DEF RecordNodes, Snapshot
  <2>7. newest' = [n \in DNodes |-> IF (n \in DOMAIN st.apps /\ row[n] # None) /\ (newest[n] = None \/ newest[n].at < m.at)
                                    THEN [at |-> m.at, rev |-> st.rev, status |-> st.apps[n], cred |-> docs[st.rev][n].cred]
                                    ELSE newest[n]]
    BY <2>2, Zenon DEF RecordNodes
  <2>8. applied' = [n \in DNodes |-> applied[n]] /\ newest' = [n \in DNodes |-> newest[n]]
    <3> HIDE <2>2, <2>3
    <3> QED  BY <2>5, <2>6, <2>7
  <2>9. \A n \in DNodes : ~Reaches(m, n)  BY <1>2 DEF Reaches
  <2> QED  BY <2>8, <2>9
<1> QED  BY <1>1, <1>2

LEMMA RecordedTyped ==
  ASSUME SubInv, NEW m \in net, RecordNodes(m)
  PROVE  /\ applied' \in [DNodes -> AppliedRows \cup {None}] /\ newest' \in [DNodes -> NewestRows \cup {None}]
         /\ \A n \in DNodes :
              /\ applied'[n] = IF Reaches(m, n) /\ (applied[n] = None \/ SameOrNewer(ReceiptOf(m, n), applied[n]))
                               THEN ReceiptOf(m, n) ELSE applied[n]
              /\ newest'[n] = IF Reaches(m, n) /\ (newest[n] = None \/ newest[n].at < m.at) THEN HeadOf(m, n) ELSE newest[n]
<1>1. \A n \in DNodes : Reaches(m, n) => ReceiptOf(m, n) \in AppliedRows /\ HeadOf(m, n) \in NewestRows  BY ReceiptFacts
<1>2. applied \in [DNodes -> AppliedRows \cup {None}] /\ newest \in [DNodes -> NewestRows \cup {None}]  BY DEF SubInv, SubTyped
<1>3. applied' = [n \in DNodes |-> IF Reaches(m, n) /\ (applied[n] = None \/ SameOrNewer(ReceiptOf(m, n), applied[n]))
                                   THEN ReceiptOf(m, n) ELSE applied[n]]
  BY RecordedNodes
<1>4. newest' = [n \in DNodes |-> IF Reaches(m, n) /\ (newest[n] = None \/ newest[n].at < m.at) THEN HeadOf(m, n) ELSE newest[n]]
  BY RecordedNodes
<1> QED  BY <1>1, <1>2, <1>3, <1>4

LEMMA RecordedTables ==
  ASSUME SubInv, NEW m \in net, RecordNodes(m), UNCHANGED <<row, docs, ran, whole>>,
         arow'.rev = arow.rev \/ arow'.rev \in whole
  PROVE  SubTables'
<1>1. ASSUME NEW n \in DNodes
      PROVE  /\ newest'[n] = None <=> applied'[n] = None
             /\ applied'[n] # None =>
                  /\ row[n] # None
                  /\ applied'[n].rev \in 1 .. Len(docs) /\ n \in DOMAIN docs[applied'[n].rev]
                  /\ applied'[n].cred = docs[applied'[n].rev][n].cred
                  /\ applied'[n].status = "applied" => applied'[n].cred \in ran[n]
  <2>1. PICK r : r = ReceiptOf(m, n)  OBVIOUS
  <2>2. PICK h : h = HeadOf(m, n)  OBVIOUS
  <2>3. /\ newest[n] = None <=> applied[n] = None
        /\ applied[n] # None =>
             /\ row[n] # None
             /\ applied[n].rev \in 1 .. Len(docs) /\ n \in DOMAIN docs[applied[n].rev]
             /\ applied[n].cred = docs[applied[n].rev][n].cred
             /\ applied[n].status = "applied" => applied[n].cred \in ran[n]
    BY DEF SubInv, SubTables
  <2>4. /\ applied'[n] = IF Reaches(m, n) /\ (applied[n] = None \/ SameOrNewer(r, applied[n])) THEN r ELSE applied[n]
        /\ newest'[n] = IF Reaches(m, n) /\ (newest[n] = None \/ newest[n].at < m.at) THEN h ELSE newest[n]
    BY <2>1, <2>2, RecordedTyped
  <2>5. CASE Reaches(m, n)
    <3>1. /\ r \in AppliedRows /\ r.rev = m.rev /\ r.status = m.apps[n] /\ r.cred = docs[m.rev][n].cred /\ h \in NewestRows
          /\ m.rev \in 1 .. Len(docs) /\ n \in DOMAIN docs[m.rev]
          /\ m.apps[n] = "applied" => docs[m.rev][n].cred \in ran[n]
      BY <2>1, <2>2, <2>5, ReceiptFacts
    <3>2. r # None /\ h # None /\ row[n] # None  BY <2>5, <3>1, ReceiptFields DEF Reaches
    <3>3. CASE applied'[n] = r  BY <2>3, <2>4, <3>1, <3>2, <3>3
    <3>4. CASE applied'[n] = applied[n] /\ applied[n] # None  BY <2>3, <2>4, <3>2, <3>4
    <3> QED  BY <2>4, <2>5, <3>3, <3>4
  <2>6. CASE ~Reaches(m, n)
    <3>1. applied'[n] = applied[n] /\ newest'[n] = newest[n]  BY <2>4, <2>6
    <3> QED  BY <2>3, <3>1
  <2> QED  BY <2>5, <2>6
<1>2. arow'.rev > 0 => arow'.rev \in whole  BY DEF SubInv, SubTables
<1>3. \A r \in whole : \A n \in DOMAIN docs[r] : docs[r][n].blocked \/ docs[r][n].cred \in ran[n]  BY DEF SubInv, SubTables
<1> QED  BY <1>1, <1>2, <1>3 DEF SubTables

(* A message about a node is newer than all that was heard of it and is   *)
(* recorded, or it changes nothing.                                       *)
LEMMA RecordedInOrder ==
  ASSUME SubInv, ~mem.renewed, NEW m \in net, RecordNodes(m), NEW n \in DNodes
  PROVE  \/ /\ Reaches(m, n) /\ (newest[n] # None => newest[n].at < m.at)
            /\ applied'[n] = ReceiptOf(m, n) /\ newest'[n] = HeadOf(m, n)
         \/ /\ applied'[n] = applied[n] /\ newest'[n] = newest[n]
            /\ Reaches(m, n) => newest[n] # None /\ newest[n].at >= m.at
<1>1. PICK r : r = ReceiptOf(m, n)  OBVIOUS
<1>2. PICK h : h = HeadOf(m, n)  OBVIOUS
<1>3. /\ applied'[n] = IF Reaches(m, n) /\ (applied[n] = None \/ SameOrNewer(r, applied[n])) THEN r ELSE applied[n]
      /\ newest'[n] = IF Reaches(m, n) /\ (newest[n] = None \/ newest[n].at < m.at) THEN h ELSE newest[n]
  BY <1>1, <1>2, RecordedTyped
<1>4. CASE ~Reaches(m, n)  BY <1>3, <1>4
<1>5. CASE Reaches(m, n) /\ newest[n] = None
  <2>1. applied[n] = None  BY <1>5 DEF SubInv, SubTables
  <2> QED  BY <1>1, <1>2, <1>3, <1>5, <2>1
<1>6. CASE Reaches(m, n) /\ newest[n] # None
  <2>1. m \in Spoken /\ n \in DOMAIN m.apps  BY <1>6 DEF Spoken, Reaches
  <2>2. Placed(n, m)  BY <1>6, <2>1 DEF SubInv, SubOrdered
  <2>3. applied[n] # None /\ applied[n].cred = docs[applied[n].rev][n].cred  BY <1>6 DEF SubInv, SubTables
  <2>4. PICK a : a = applied[n]  OBVIOUS
  <2>5. PICK t : t = newest[n].at  OBVIOUS
  <2>6. a \in AppliedRows /\ a.rev \in Nat /\ a.seq \in Nat /\ t \in Nat  BY <1>6, <2>3, <2>4, <2>5, SubRunning, ReceiptFields
  <2>7. m.rev \in Nat /\ m.seq \in Nat /\ m.at \in Nat  BY SubRunning, MsgFields
  <2>8. r \in AppliedRows /\ r.rev = m.rev /\ r.seq = m.seq /\ r.status = m.apps[n] /\ r.cred = docs[m.rev][n].cred
    BY <1>1, <1>2, <1>6, ReceiptFacts
  <2>9. /\ m.at < t => m.rev <= a.rev /\ m.seq < a.seq
        /\ m.at > t => m.rev >= a.rev /\ m.seq > a.seq
        /\ m.at = t => m.rev = a.rev /\ m.seq = a.seq /\ m.apps[n] = a.status
    BY <2>1, <2>2, <2>4, <2>5 DEF Placed
  <2>10. CASE t < m.at
    <3>1. SameOrNewer(r, a)  BY <2>6, <2>7, <2>8, <2>9, <2>10 DEF SameOrNewer
    <3>2. applied'[n] = r /\ newest'[n] = h  BY <1>3, <1>6, <2>4, <2>5, <2>10, <3>1
    <3> QED  BY <1>1, <1>2, <1>6, <2>5, <2>10, <3>2
  <2>11. CASE t = m.at
    <3>1. r.rev = a.rev /\ r.seq = a.seq /\ r.status = a.status /\ r.cred = a.cred  BY <2>3, <2>4, <2>8, <2>9, <2>11
    <3>2. r = a  BY <2>6, <2>8, <3>1 DEF AppliedRows
    <3>3. applied'[n] = applied[n]  BY <1>3, <2>4, <3>2
    <3>4. ~(newest[n].at < m.at) /\ newest[n].at >= m.at  BY <2>5, <2>6, <2>7, <2>11
    <3>5. newest'[n] = newest[n]  BY <1>3, <1>6, <3>4
    <3> QED  BY <1>6, <3>3, <3>4, <3>5
  <2>12. CASE t > m.at
    <3>1. ~SameOrNewer(r, a)  BY <2>6, <2>7, <2>8, <2>9, <2>12 DEF SameOrNewer
    <3>2. applied'[n] = applied[n]  BY <1>3, <1>6, <2>3, <2>4, <3>1
    <3>3. ~(newest[n].at < m.at) /\ newest[n].at >= m.at  BY <2>5, <2>6, <2>7, <2>12
    <3>4. newest'[n] = newest[n]  BY <1>3, <1>6, <3>3
    <3> QED  BY <1>6, <3>2, <3>3, <3>4
  <2> QED  BY <2>6, <2>7, <2>10, <2>11, <2>12
<1> QED  BY <1>4, <1>5, <1>6

LEMMA RecordedOrdered ==
  ASSUME SubInv, ~mem.renewed, NEW m \in net, RecordNodes(m), net' \subseteq net, UNCHANGED <<docs, disk>>
  PROVE  SubOrdered'
<1>1. SubOrdered  BY DEF SubInv
<1>2. Spoken' \subseteq Spoken  BY DEF Spoken
<1>3. \A x \in Spoken' : x.at <= disk'.at /\ x.seq <= disk'.seq  BY <1>1, <1>2 DEF SubOrdered
<1>4. \A x, y \in Spoken' : InOrder(x, y)'  BY <1>1, <1>2 DEF SubOrdered, InOrder
<1>5. ASSUME NEW n \in DNodes, newest'[n] # None
      PROVE  /\ newest'[n].rev = applied'[n].rev /\ newest'[n].status = applied'[n].status /\ newest'[n].cred = applied'[n].cred
             /\ newest'[n].at <= disk'.at /\ applied'[n].seq <= disk'.seq
             /\ \A x \in Spoken' : Placed(n, x)'
  <2>1. PICK r : r = ReceiptOf(m, n)  OBVIOUS
  <2>2. PICK h : h = HeadOf(m, n)  OBVIOUS
  <2>3. CASE Reaches(m, n) /\ applied'[n] = r /\ newest'[n] = h
    <3>1. /\ r.rev = m.rev /\ r.seq = m.seq /\ r.status = m.apps[n] /\ r.cred = docs[m.rev][n].cred
          /\ h.at = m.at /\ h.rev = m.rev /\ h.status = m.apps[n] /\ h.cred = docs[m.rev][n].cred
      BY <2>1, <2>2, <2>3, ReceiptFacts
    <3>2. m \in Spoken  BY <2>3 DEF Spoken, Reaches
    <3>3. m.at <= disk.at /\ m.seq <= disk.seq /\ \A x \in Spoken : InOrder(x, m) /\ InOrder(m, x)  BY <1>1, <3>2 DEF SubOrdered
    <3>4. ASSUME NEW x \in Spoken' PROVE Placed(n, x)'
      <4>1. x \in Spoken /\ InOrder(x, m) /\ InOrder(m, x)  BY <1>2, <3>3
      <4>2. x.at \in Nat /\ m.at \in Nat /\ x.rev \in Nat /\ m.rev \in Nat /\ x.seq \in Nat /\ m.seq \in Nat
        BY <3>2, <4>1, SpokenFields
      <4>3. /\ x.at < h.at => x.rev <= r.rev /\ x.seq < r.seq
            /\ x.at > h.at => x.rev >= r.rev /\ x.seq > r.seq
            /\ x.at = h.at => x.rev = r.rev /\ x.seq = r.seq /\ (n \in DOMAIN x.apps => x.apps[n] = r.status)
        BY <3>1, <4>1, <4>2 DEF InOrder
      <4> QED  BY <2>3, <4>3 DEF Placed
    <3> QED  BY <2>3, <3>1, <3>3, <3>4
  <2>4. CASE applied'[n] = applied[n] /\ newest'[n] = newest[n]
    <3>1. newest[n] # None  BY <1>5, <2>4
    <3>2. \A x \in Spoken : Placed(n, x)  BY <1>1, <3>1 DEF SubOrdered
    <3>3. \A x \in Spoken' : Placed(n, x)'  BY <1>2, <2>4, <3>2 DEF Placed
    <3> QED  BY <1>1, <2>4, <3>1, <3>3 DEF SubOrdered
  <2> QED  BY <2>1, <2>2, <2>3, <2>4, RecordedInOrder
<1> QED  BY <1>3, <1>4, <1>5 DEF SubOrdered

(* The agent's row after a message: unchanged, clean, or in error *)
LEMMA RecordedAgent ==
  ASSUME SubInv, NEW m \in net, RecordAgent(m)
  PROVE  /\ arow' \in [rev : Nat, err : BOOLEAN]
         /\ \/ arow' = arow /\ (m.tried = 0 \/ m.status = "busy" \/ Stale(m))
            \/ arow'.rev = m.tried /\ ~arow'.err /\ m.status = "applied" /\ m.tried # 0 /\ ~Stale(m)
            \/ arow'.rev = arow.rev /\ arow'.err
<1>1. PICK a : a = arow  OBVIOUS
<1>2. a \in [rev : Nat, err : BOOLEAN] /\ m.tried \in Nat  BY <1>1, SubRunning, MsgFields DEF SubInv, SubTyped
<1>3. CASE m.tried = 0 \/ m.status = "busy" \/ Stale(m)
  <2>1. arow' = a  BY <1>1, <1>3, Zenon DEF RecordAgent
  <2> QED  BY <1>1, <1>2, <1>3, <2>1
<1>4. CASE ~(m.tried = 0 \/ m.status = "busy" \/ Stale(m)) /\ m.status = "applied"
  <2>1. arow' = [rev |-> m.tried, err |-> FALSE]  BY <1>4, Zenon DEF RecordAgent
  <2>2. arow' \in [rev : Nat, err : BOOLEAN] /\ arow'.rev = m.tried /\ ~arow'.err  BY <1>2, <2>1
  <2> QED  BY <1>4, <2>2, Zenon
<1>5. CASE ~(m.tried = 0 \/ m.status = "busy" \/ Stale(m)) /\ m.status # "applied"
  <2>1. arow' = [a EXCEPT !.err = TRUE]  BY <1>1, <1>5, Zenon DEF RecordAgent
  <2>2. arow' \in [rev : Nat, err : BOOLEAN] /\ arow'.rev = a.rev /\ arow'.err  BY <1>2, <2>1
  <2> QED  BY <1>1, <2>2
<1> QED  BY <1>3, <1>4, <1>5, Zenon

(* How far a node was heard *)
LEMMA RecordedLater ==
  ASSUME SubInv, ~mem.renewed, NEW m \in net, RecordNodes(m), NEW n \in DNodes
  PROVE  /\ newest[n] # None => newest'[n] # None /\ newest'[n].at \in Nat /\ newest'[n].at >= newest[n].at
         /\ Reaches(m, n) => newest'[n] # None /\ newest'[n].at \in Nat /\ newest'[n].at >= m.at
<1>1. PICK h : h = HeadOf(m, n)  OBVIOUS
<1>2. Reaches(m, n) => h \in NewestRows /\ h.at = m.at /\ h # None  BY <1>1, ReceiptFacts, ReceiptFields
<1>3. m.at \in Nat  BY SubRunning, MsgFields
<1>4. newest[n] # None => newest[n].at \in Nat  BY SubRunning, ReceiptFields
<1>5. CASE Reaches(m, n) /\ (newest[n] # None => newest[n].at < m.at) /\ newest'[n] = h  BY <1>2, <1>3, <1>4, <1>5
<1>6. CASE newest'[n] = newest[n] /\ (Reaches(m, n) => newest[n] # None /\ newest[n].at >= m.at)  BY <1>3, <1>4, <1>6
<1> QED  BY <1>1, <1>5, <1>6, RecordedInOrder

LEMMA RecordedWhole ==
  ASSUME SubInv, ~mem.renewed, ~mem.torn, NEW m \in net, RecordNodes(m), RecordAgent(m), net' \subseteq net,
         UNCHANGED <<row, docs, mem, disk>>
  PROVE  SubWhole'
<1> USE SubRunning
<1>1. SubWhole /\ SubOrdered  BY DEF SubInv
<1>2. m \in AgentMsgs /\ m.rev \in Nat /\ m.seq \in Nat /\ m.tried \in Nat /\ m.at \in Nat  BY MsgFields
<1>3. \A x, r : Clean(x, r)' <=> Clean(x, r)  BY DEF Clean
<1>4. /\ \A x \in {mem', disk'} : x.status = "applied" => Clean(x, x.applied)'
      /\ \A x \in net' : SaysApplied(x) => Clean(x, x.tried)' /\ x.tried <= mem'.applied
      /\ \A x \in net' : x.apps # <<>> => x.tried <= x.rev
      /\ \A x, y \in net' : x.status = "applied" /\ y.apps # <<>> /\ y.at > x.at => y.tried >= x.tried
  BY <1>1, <1>3 DEF SubWhole
<1>5. SaysApplied(m) => /\ m.apps # <<>> /\ Clean(m, m.tried) /\ m.tried <= mem.applied
                        /\ \A n \in DNodes : row[n] # None /\ n \in DOMAIN docs[m.tried] => Reaches(m, n)
  <2>1. SaysApplied(m) => m.apps # <<>> /\ Clean(m, m.tried) /\ m.tried <= mem.applied
    BY <1>1 DEF SubWhole, SubInv, SubTold
  <2> QED  BY <2>1 DEF Clean, Reaches
<1>6. arow'.rev <= mem'.applied  BY <1>1, <1>5, RecordedAgent DEF SubWhole, SaysApplied
<1>7. \A n \in Heard' : n \in DNodes /\ row[n] # None /\ n \in DOMAIN docs[arow'.rev]  BY DEF Heard
<1>8. arow'.rev = arow.rev => Heard' = Heard  BY DEF Heard
<1>9. Heard \subseteq DNodes  BY DEF Heard
<1>10. ASSUME arow.rev > 0, NEW n \in Heard
       PROVE  newest[n] # None /\ newest[n].at \in Nat /\ \A y \in net : y.apps # <<>> /\ y.at > newest[n].at => y.tried >= arow.rev
  BY <1>1, <1>9, <1>10, ReceiptFields DEF SubWhole
<1>11. CASE arow'.rev = m.tried /\ ~arow'.err /\ m.status = "applied" /\ m.tried # 0 /\ ~Stale(m)
  <2>1. SaysApplied(m)  BY <1>11 DEF SaysApplied
  <2>2. \A n \in Heard' : newest'[n] # None /\ newest'[n].at \in Nat /\ newest'[n].at >= m.at
    BY <1>5, <1>7, <1>11, <2>1, RecordedLater
  <2>3. \A n \in Heard' : \A y \in net' : y.apps # <<>> /\ y.at > newest'[n].at => y.tried >= arow'.rev
    <3>1. SUFFICES ASSUME NEW n \in Heard', NEW y \in net', y.apps # <<>>, y.at > newest'[n].at PROVE y.tried >= m.tried
      BY <1>11
    <3>2. y \in net /\ y.at \in Nat  BY MsgFields
    <3>3. y.at > m.at  BY <1>2, <2>2, <3>1, <3>2
    <3> QED  BY <1>1, <1>11, <3>1, <3>2, <3>3 DEF SubWhole
  <2>4. ASSUME NEW k \in DNodes, applied'[k] # None, applied'[k].rev = arow'.rev
        PROVE  applied'[k].status # "failed" /\ \A n \in Heard' : newest'[k].at <= newest'[n].at
    <3>1. k \in {n \in DNodes : applied'[n] # None /\ applied'[n].rev = m.tried}  BY <1>11, <2>4
    <3>2. ~(applied'[k].seq > m.seq) /\ applied'[k].status # "failed"  BY <1>11, <3>1 DEF Stale
    <3>3. newest'[k].at <= m.at /\ newest'[k].at \in Nat
      <4>1. PICK h : h = HeadOf(m, k)  OBVIOUS
      <4>2. CASE Reaches(m, k) /\ newest'[k] = h
        <5>1. h.at = m.at  BY <4>1, <4>2, ReceiptFacts
        <5> QED  BY <1>2, <4>2, <5>1
      <4>3. CASE applied'[k] = applied[k] /\ newest'[k] = newest[k]
        <5>1. applied[k] # None /\ newest[k] # None  BY <2>4, <4>3 DEF SubInv, SubTables
        <5>2. m \in Spoken  BY <1>5, <2>1 DEF Spoken
        <5>3. Placed(k, m)  BY <1>1, <5>1, <5>2 DEF SubOrdered
        <5>4. applied[k].seq \in Nat /\ newest[k].at \in Nat  BY <5>1, ReceiptFields
        <5>5. ~(applied[k].seq > m.seq)  BY <3>2, <4>3
        <5>6. newest[k].at <= m.at  BY <1>2, <5>3, <5>4, <5>5 DEF Placed
        <5> QED  BY <4>3, <5>4, <5>6
      <4> QED  BY <4>1, <4>2, <4>3, RecordedInOrder
    <3> QED  BY <1>2, <2>2, <3>2, <3>3
  <2> QED  BY <1>4, <1>6, <2>2, <2>3, <2>4 DEF SubWhole, SaysApplied
<1>12. ASSUME arow'.rev = arow.rev
       PROVE  arow'.rev > 0 => \A n \in Heard' : /\ newest'[n] # None
                                                 /\ \A y \in net' : y.apps # <<>> /\ y.at > newest'[n].at => y.tried >= arow'.rev
  <2>1. SUFFICES ASSUME arow.rev > 0, NEW n \in Heard
                 PROVE  /\ newest'[n] # None
                        /\ \A y \in net' : y.apps # <<>> /\ y.at > newest'[n].at => y.tried >= arow.rev
    BY <1>8, <1>12
  <2>2. newest[n] # None /\ newest[n].at \in Nat  BY <1>10, <2>1
  <2>3. newest'[n] # None /\ newest'[n].at \in Nat /\ newest'[n].at >= newest[n].at  BY <1>9, <2>2, RecordedLater
  <2>4. ASSUME NEW y \in net', y.apps # <<>>, y.at > newest'[n].at PROVE y.tried >= arow.rev
    <3>1. y \in net /\ y.at \in Nat  BY MsgFields
    <3>2. y.at > newest[n].at  BY <2>2, <2>3, <2>4, <3>1
    <3> QED  BY <1>10, <2>1, <2>4, <3>1, <3>2
  <2> QED  BY <2>3, <2>4
<1>13. CASE arow'.rev = arow.rev /\ arow'.err  BY <1>4, <1>6, <1>12, <1>13 DEF SubWhole, SaysApplied
<1>14. CASE arow' = arow /\ (m.tried = 0 \/ m.status = "busy" \/ Stale(m))
  <2>1. ASSUME arow.rev > 0, ~arow.err, NEW k \in DNodes, applied'[k] # None, applied'[k].rev = arow.rev
        PROVE  applied'[k].status # "failed" /\ \A n \in Heard : newest'[k].at <= newest'[n].at
    <3>1. PICK r : r = ReceiptOf(m, k)  OBVIOUS
    <3>2. PICK h : h = HeadOf(m, k)  OBVIOUS
    <3>3. \A j \in DNodes : applied[j] # None /\ applied[j].rev = arow.rev =>
            applied[j].status # "failed" /\ \A n \in Heard : newest[j].at <= newest[n].at
      BY <1>1, <2>1 DEF SubWhole
    <3>4. CASE applied'[k] = applied[k] /\ newest'[k] = newest[k]
      <4>1. applied[k].status # "failed" /\ newest[k] # None  BY <2>1, <3>3, <3>4 DEF SubInv, SubTables
      <4>2. newest[k].at \in Nat  BY <4>1, ReceiptFields
      <4>3. ASSUME NEW n \in Heard PROVE newest[k].at <= newest'[n].at
        <5>1. newest[k].at <= newest[n].at  BY <2>1, <3>3, <3>4
        <5>2. newest[n] # None /\ newest[n].at \in Nat  BY <1>10, <2>1
        <5>3. newest'[n].at \in Nat /\ newest'[n].at >= newest[n].at  BY <1>9, <5>2, RecordedLater
        <5> QED  BY <4>2, <5>1, <5>2, <5>3
      <4> QED  BY <3>4, <4>1, <4>3
    <3>5. CASE Reaches(m, k) /\ (newest[k] # None => newest[k].at < m.at) /\ applied'[k] = r /\ newest'[k] = h
      <4>1. /\ r.rev = m.rev /\ r.seq = m.seq /\ r.status = m.apps[k] /\ h.at = m.at /\ k \in DOMAIN docs[m.rev]
        BY <3>1, <3>2, <3>5, ReceiptFacts
      <4>2. m.rev = arow.rev /\ m.apps # <<>> /\ m \in Spoken  BY <2>1, <3>5, <4>1 DEF Reaches, Spoken
      <4>3. k \in Heard  BY <3>5, <4>1, <4>2 DEF Heard, Reaches
      <4>4. newest[k] # None /\ newest[k].at \in Nat /\ newest[k].at < m.at  BY <1>10, <2>1, <3>5, <4>3
      <4>5. m.tried >= arow.rev  BY <1>2, <1>10, <2>1, <4>2, <4>3, <4>4
      <4>6. m.tried <= m.rev  BY <1>1, <4>2 DEF SubWhole
      <4>7. m.tried = arow.rev /\ m.tried # 0 /\ ~(arow.rev > m.tried)  BY <1>2, <2>1, <4>2, <4>5, <4>6
      <4>8. SaysApplied(m) => \A n \in DOMAIN m.apps : m.apps[n] # "failed"  BY <1>5 DEF Clean
      <4>9. ~Stale(m)
        <5>1. ASSUME NEW j \in DNodes, applied'[j] # None, applied'[j].rev = m.tried PROVE ~(applied'[j].seq > m.seq)
          <6>1. PICK p : p = ReceiptOf(m, j)  OBVIOUS
          <6>2. CASE Reaches(m, j) /\ applied'[j] = p
            <7>1. p.seq = m.seq  BY <6>1, <6>2, ReceiptFacts
            <7> QED  BY <1>2, <6>2, <7>1
          <6>3. CASE applied'[j] = applied[j]
            <7>1. applied[j] # None /\ applied[j].rev = arow.rev  BY <4>7, <5>1, <6>3
            <7>2. newest[j] # None  BY <7>1 DEF SubInv, SubTables
            <7>3. newest[j].at \in Nat /\ applied[j].seq \in Nat  BY <7>1, <7>2, ReceiptFields
            <7>4. newest[j].at <= newest[k].at  BY <3>3, <4>3, <7>1
            <7>5. Placed(j, m)  BY <1>1, <4>2, <7>2 DEF SubOrdered
            <7>6. m.seq > applied[j].seq  BY <1>2, <4>4, <7>3, <7>4, <7>5 DEF Placed
            <7> QED  BY <1>2, <6>3, <7>3, <7>6
          <6> QED  BY <6>1, <6>2, <6>3, RecordedInOrder
        <5>2. ASSUME m.status = "applied", NEW j \in DNodes, applied'[j] # None, applied'[j].rev = m.tried
              PROVE  applied'[j].status # "failed"
          <6>1. PICK p : p = ReceiptOf(m, j)  OBVIOUS
          <6>2. CASE Reaches(m, j) /\ applied'[j] = p
            <7>1. p.status = m.apps[j] /\ j \in DOMAIN m.apps  BY <6>1, <6>2, ReceiptFacts DEF Reaches
            <7> QED  BY <4>8, <5>2, <6>2, <7>1 DEF SaysApplied
          <6>3. CASE applied'[j] = applied[j]  BY <3>3, <4>7, <5>2, <6>3
          <6> QED  BY <6>1, <6>2, <6>3, RecordedInOrder
        <5> QED  BY <4>7, <5>1, <5>2 DEF Stale
      <4>10. m.status = "busy"  BY <1>14, <4>7, <4>9
      <4>11. SaysApplied(m)  BY <4>10 DEF SaysApplied
      <4>12. applied'[k].status # "failed"  BY <3>5, <4>1, <4>8, <4>11 DEF Reaches
      <4>13. ASSUME NEW n \in Heard PROVE newest'[n].at >= m.at
        <5>1. n \in DNodes /\ row[n] # None /\ n \in DOMAIN docs[m.tried]  BY <4>7 DEF Heard
        <5>2. Reaches(m, n)  BY <1>5, <4>11, <5>1
        <5> QED  BY <5>1, <5>2, RecordedLater
      <4>14. \A n \in Heard : newest'[n].at \in Nat  BY <1>9, <1>10, <2>1, RecordedLater
      <4> QED  BY <1>2, <3>5, <4>1, <4>12, <4>13, <4>14
    <3> QED  BY <3>1, <3>2, <3>4, <3>5, RecordedInOrder
  <2>2. Heard' = Heard /\ arow' = arow  BY <1>8, <1>14
  <2>3. arow'.rev > 0 /\ ~arow'.err => \A k \in DNodes : applied'[k] # None /\ applied'[k].rev = arow'.rev =>
          applied'[k].status # "failed" /\ \A n \in Heard' : newest'[k].at <= newest'[n].at
    BY <2>1, <2>2
  <2> QED  BY <1>4, <1>6, <1>12, <1>14, <2>3 DEF SubWhole, SaysApplied
<1> QED  BY <1>11, <1>13, <1>14, RecordedAgent

LEMMA SubDeliver == ASSUME SubInv, Deliver PROVE SubInv'
<1>1. PICK m \in net : RecordNodes(m) /\ RecordAgent(m) /\ net' \in {net, net \ {m}}  BY DEF Deliver
<1>2. UNCHANGED <<row, draft, sharing, chain, unsent, docs, mem, disk, ran, whole>>  BY DEF Deliver
<1>3. net' \subseteq net  BY <1>1
<1>4. SubTyped'
  <2>1. arow' \in [rev : Nat, err : BOOLEAN]  BY <1>1, RecordedAgent
  <2>2. /\ applied' \in [DNodes -> AppliedRows \cup {None}] /\ newest' \in [DNodes -> NewestRows \cup {None}]
    BY <1>1, RecordedTyped
  <2> QED  BY <1>2, <1>3, <2>1, <2>2 DEF SubInv, SubTyped
<1>5. SubAgent'  BY <1>2 DEF SubInv, SubAgent, About
<1>6. SubTold'  BY <1>2, <1>3 DEF SubInv, SubTold, About, SaysApplied
<1>7. SubTables'
  <2>1. m.status = "applied" => m.tried \in whole  BY <1>1 DEF SubInv, SubTold, SaysApplied
  <2>2. arow'.rev = arow.rev \/ arow'.rev \in whole  BY <1>1, <2>1, RecordedAgent
  <2> QED  BY <1>1, <1>2, <2>2, RecordedTables
<1>8. ~mem'.renewed => SubOrdered'  BY <1>1, <1>2, <1>3, RecordedOrdered
<1>9. ~mem'.renewed /\ ~mem'.torn => SubWhole'  BY <1>1, <1>2, <1>3, RecordedWhole
<1> QED  BY <1>4, <1>5, <1>6, <1>7, <1>8, <1>9 DEF SubInv

LEMMA SubStutters == ASSUME SubInv, UNCHANGED subVars PROVE SubInv'
  BY SubEdited DEF subVars, SubInv, SubTyped

LEMMA SubStarts == ASSUME SubInit PROVE SubInv
<1>1. PICK r : r = [cred |-> 1, on |-> TRUE]  OBVIOUS
<1>2. r \in NodeRows /\ r # None /\ r.cred = 1 /\ r.on = TRUE  BY <1>1, RowFields DEF NodeRows
<1>3. row = [n \in DNodes |-> IF n = "c" THEN None ELSE r]  BY <1>1 DEF SubInit
<1>4. row \in [DNodes -> NodeRows \cup {None}] /\ Live = {"a", "b"} /\ row["b"] # None /\ row["a"] = r /\ row["b"] = r
  BY <1>2, <1>3 DEF DNodes, Live
<1>5. /\ draft = None /\ sharing = TRUE /\ chain = None /\ disk = mem /\ net = {} /\ arow = [rev |-> 0, err |-> FALSE]
      /\ applied = [n \in DNodes |-> None] /\ newest = [n \in DNodes |-> None]
  BY DEF SubInit
<1>6. /\ \A n \in DNodes : applied[n] = None /\ newest[n] = None
      /\ applied \in [DNodes -> AppliedRows \cup {None}] /\ newest \in [DNodes -> NewestRows \cup {None}]
      /\ arow \in [rev : Nat, err : BOOLEAN] /\ arow.rev = 0
  BY <1>5
<1>7. PICK e : e = <<>>  OBVIOUS
<1>8. e \in AppSets /\ ~(e # <<>>)  BY <1>7 DEF AppSets
<1>9. PICK d : d = NodeSpecs  OBVIOUS
<1>10. d \in SpecDocs /\ DOMAIN d = {"a", "b"} /\ \A n \in {"a", "b"} : d[n].cred = 1 /\ d[n].blocked = FALSE
  <2>1. d = [n \in {"a", "b"} |-> [cred |-> row[n].cred, blocked |-> ~row[n].on \/ (n = "b" /\ ~sharing)]]
    BY <1>4, <1>9 DEF NodeSpecs
  <2>2. \A n \in {"a", "b"} : d[n] = [cred |-> 1, blocked |-> FALSE]  BY <1>2, <1>4, <1>5, <2>1
  <2>3. PICK S \in SUBSET DNodes : S = {"a", "b"}  BY DEF DNodes
  <2>4. d \in [S -> [cred : Nat, blocked : BOOLEAN]]  BY <1>2, <1>4, <1>5, <2>1, <2>3
  <2> QED  BY <2>1, <2>2, <2>4 DEF SpecDocs
<1>11. CASE docs = <<>> /\ mem = FreshState /\ ran = [n \in DNodes |-> {}] /\ whole = {}
  <2>1. mem = [rev |-> 0, seq |-> 0, apps |-> e, applied |-> 0, status |-> "pending", at |-> 0, pass |-> 0, renewed |-> FALSE, torn |-> FALSE]
    BY <1>7, <1>11 DEF FreshState
  <2>2. /\ mem \in AgentStates /\ mem.apps = e /\ mem.applied = 0 /\ mem.status = "pending" /\ mem.pass = 0 /\ mem.at = 0 /\ mem.seq = 0
    BY <1>8, <2>1 DEF AgentStates
  <2>3. docs \in Seq(SpecDocs) /\ Len(docs) = 0  BY <1>11
  <2>4. SubTyped  BY <1>4, <1>5, <1>6, <1>11, <2>2, <2>3 DEF SubTyped
  <2>5. ~(mem.apps # <<>>)  BY <1>8, <2>2
  <2>6. About(mem)  BY <2>5 DEF About
  <2>7. SubAgent  BY <1>5, <2>2, <2>3, <2>5, <2>6 DEF SubAgent
  <2>8. SubTold /\ SubTables  BY <1>5, <1>6, <1>11 DEF SubTold, SubTables
  <2>9. Spoken = {}  BY <1>5, <2>5 DEF Spoken
  <2>10. SubOrdered  BY <1>6, <2>9 DEF SubOrdered
  <2>11. SubWhole  BY <1>5, <1>6, <2>2 DEF SubWhole
  <2> QED  BY <2>4, <2>7, <2>8, <2>10, <2>11 DEF SubInv
<1>12. CASE /\ docs = <<NodeSpecs>>
            /\ mem = [FreshState EXCEPT !.rev = 1, !.seq = 1, !.apps = [n \in Live |-> "applied"], !.applied = 1,
                                        !.status = "applied", !.at = 1]
            /\ ran = [n \in DNodes |-> IF n \in Live THEN {1} ELSE {}] /\ whole = {1}
  <2>1. PICK a : a = [n \in Live |-> "applied"]  OBVIOUS
  <2>2. PICK S \in SUBSET DNodes : S = {"a", "b"}  BY DEF DNodes
  <2>3. a \in [S -> AppWords] /\ \A n \in S : a[n] = "applied"  BY <1>4, <2>1, <2>2 DEF AppWords
  <2>4. a \in AppSets /\ DOMAIN a = {"a", "b"} /\ "b" \in DOMAIN a  BY <2>2, <2>3, AppSetMember
  <2>5. a # <<>>  BY <2>4
  <2>6. mem = [rev |-> 1, seq |-> 1, apps |-> a, applied |-> 1, status |-> "applied", at |-> 1, pass |-> 0, renewed |-> FALSE, torn |-> FALSE]
    BY <1>12, <2>1 DEF FreshState
  <2>7. /\ mem \in AgentStates /\ mem.apps = a /\ mem.applied = 1 /\ mem.pass = 0 /\ mem.at = 1 /\ mem.seq = 1 /\ mem.rev = 1
    BY <2>4, <2>6 DEF AgentStates
  <2>8. docs = <<d>>  BY <1>9, <1>12
  <2>9. docs \in Seq(SpecDocs) /\ Len(docs) = 1 /\ docs[1] = d  BY <1>10, <2>8
  <2>10. \A i \in 1 .. Len(docs) : "b" \in DOMAIN docs[i]  BY <1>10, <2>9
  <2>11. SubTyped  BY <1>4, <1>5, <1>6, <1>12, <2>7, <2>9, <2>10 DEF SubTyped
  <2>12. \A n \in {"a", "b"} : 1 \in ran[n]  BY <1>4, <1>12 DEF DNodes
  <2>13. About(mem)  BY <1>10, <2>4, <2>7, <2>9, <2>12 DEF About
  <2>14. mem.applied \in whole  BY <1>12, <2>7
  <2>15. SubAgent  BY <1>5, <2>5, <2>7, <2>9, <2>13, <2>14 DEF SubAgent
  <2>16. SubTold /\ SubTables
    <3>1. whole = {1}  BY <1>12
    <3>2. \A k \in whole : \A n \in DOMAIN docs[k] : docs[k][n].blocked \/ docs[k][n].cred \in ran[n]
      BY <1>10, <2>9, <2>12, <3>1
    <3> QED  BY <1>5, <1>6, <3>2 DEF SubTold, SubTables
  <2>17. Spoken \subseteq {disk}  BY <1>5 DEF Spoken
  <2>18. SubOrdered  BY <1>5, <1>6, <2>7, <2>17 DEF SubOrdered, InOrder
  <2>19. Clean(mem, mem.applied)  BY <1>10, <2>3, <2>2, <2>4, <2>7, <2>9 DEF Clean
  <2>20. SubWhole  BY <1>5, <1>6, <2>7, <2>19 DEF SubWhole
  <2> QED  BY <2>11, <2>15, <2>16, <2>18, <2>20 DEF SubInv
<1> QED  BY <1>11, <1>12 DEF SubInit

LEMMA SubSteps == ASSUME SubInv, SubNext PROVE SubInv'
<1>1. ASSUME NEW n \in DNodes, RegenerateNode(n) \/ BeginUpdate(n) PROVE SubInv'  BY <1>1, SubRegenerate, SubBeginUpdate
<1>2. ASSUME NEW n \in {"a", "c"}, SetNodeChain(n) PROVE SubInv'  BY <1>2, SubChain
<1> QED  BY <1>1, <1>2, SubCommit, SubDelete, SubDeploy, SubSwitch, SubPublished, SubPass, SubPassUnsaved, SubInvalidate,
            SubReinstall, SubHeartbeat, SubReport, SubDeliver, Zenon DEF SubNext

LEMMA SubSafety == ASSUME SubInv PROVE SubscriptionsSafe
<1>1. NewestReceiptWins  BY DEF SubInv, SubTables, SubOrdered, NewestReceiptWins
<1>2. \A n \in DNodes : Usable(n) => applied[n].cred \in ran[n] /\ row[n].cred = applied[n].cred
  BY DEF SubInv, SubTables, Usable
<1>3. ASSUME ChainShows # None PROVE ChainShows \in ran[chain.landing]
  <2>1. chain # None /\ chain.landing # None /\ Usable(chain.landing) /\ ChainShows = applied[chain.landing].cred
    BY <1>3 DEF ChainShows
  <2>2. chain.landing \in DNodes  BY <2>1 DEF SubInv, SubTyped
  <2> QED  BY <1>2, <2>1, <2>2
<1>4. ShownWasStarted  BY <1>2, <1>3 DEF ShownWasStarted
<1>5. ASSUME arow.rev > 0, ~arow.err, ~mem.renewed, ~mem.torn, NEW n \in DNodes, newest[n] # None, newest[n].rev = arow.rev
      PROVE  newest[n].status # "failed"
  <2>1. SubWhole /\ SubOrdered  BY <1>5 DEF SubInv
  <2>2. applied[n] # None /\ applied[n].rev = arow.rev /\ applied[n].status = newest[n].status
    BY <1>5, <2>1 DEF SubInv, SubTables, SubOrdered
  <2> QED  BY <1>5, <2>1, <2>2 DEF SubWhole
<1>6. AppliedRowHonest  BY <1>5 DEF AppliedRowHonest, SubInv, SubTables
<1> QED  BY <1>1, <1>4, <1>6 DEF SubscriptionsSafe

LEMMA SubMoves == ASSUME SvcNext PROVE SubNext \/ UNCHANGED subVars
  BY DEF SvcNext, InAccess, InTrust, InFleet, InImports, InSup, InMeter, InNat, InServing, SubNext

(* The inductive invariant of the receipts: what may still arrive and what the agent     *)
(* saved is ordered in time, revision and sequence alike, each row of the table has its  *)
(* place in that order, and a revision reported as applied was reported for every node   *)
(* of it (finishNodeApplications, RecordNodeApplications, RecordAgentApplication).       *)
THEOREM SubscriptionsInvariance == SvcSpec => []SubInv
<1>1. SvcInit => SubInv
  BY SubStarts DEF SvcInit
<1>2. SubInv /\ [SvcNext]_svcVars => SubInv'
  BY SubMoves, SubSteps, SubStutters DEF svcVars
<1> QED  BY <1>1, <1>2, PTL DEF SvcSpec

(* For all interleavings of edits, publications, passes, crashes, failed saves and       *)
(* reports that are repeated or overtaken: the table holds the newest statement about a  *)
(* node that was accepted, a subscription shows only credentials a core was started      *)
(* with, and the agent's row calls a revision applied only when all of it was and shows  *)
(* no clean result over a newer failure (appliedSubscriptionNode, RecordAgentApplication). *)
THEOREM SubscriptionsAreSafe == SvcSpec => []SubscriptionsSafe
<1>1. SubInv => SubscriptionsSafe
  BY SubSafety
<1> QED  BY <1>1, SubscriptionsInvariance, PTL

-----------------------------------------------------------------------------
(* Release trust. *)
LEMMA StartedKnows ==
  ASSUME NEW o \in OpRows, NEW n \in OpRows, n.r = o.r, n.conf = o.conf, n.known = o.known,
         TrustFiles, TrustFiles', StillKnown(o), TrustGrows
  PROVE  StillKnown(n)'
<1>1. o.known.min \in Nat /\ o.conf.min \in Nat /\ floor.agent \in Nat /\ floor'.agent \in Nat
  BY DEF StillKnown, KnownRows, TrustConfs, TrustFiles
<1>2. PolMin \in Nat /\ PolMin' \in Nat
  BY DEF PolMin, TrustFiles, PolicyRows
<1> QED  BY <1>1, <1>2 DEF StillKnown, TrustGrows

LEMMA StartedProgress ==
  ASSUME NEW o \in OpRows, TrustFiles, TrustFiles', StillKnown(o), Progress(o), TrustGrows,
         o.pc = "target" => pol' = pol
  PROVE  Progress(o)'
<1>1. o.known.min \in Nat /\ o.conf.min \in Nat /\ floor.agent \in Nat /\ floor'.agent \in Nat
  BY DEF StillKnown, KnownRows, TrustConfs, TrustFiles
<1>2. o.epoch \in Nat /\ Epoch[o.r] \in Nat
  BY TrustAssumption DEF OpRows, StillKnown, Releases
<1>3. \A e \in Nat : PolicyPassed(o, e) => PolicyPassed(o, e)'
  BY <1>1 DEF PolicyPassed, TrustGrows
<1>4. \A e \in Nat : BothPassed(o, e) => BothPassed(o, e)'
  BY DEF BothPassed
<1>5. o.gen \in gens => o.gen \in gens'
  BY DEF TrustGrows
<1>6. o.pc = "target" /\ pol = PolicyOfGen(o.gen) => pol' = PolicyOfGen(o.gen)'
  BY DEF PolicyOfGen
<1>7. pol # None => pol' # None
  BY DEF TrustGrows
<1> QED  BY <1>2, <1>3, <1>4, <1>5, <1>6, <1>7 DEF Progress, Replacing

(* One process moves: what has to be shown. *)
LEMMA TrustMove ==
  ASSUME TrustInv, NEW p \in Procs, NEW o \in OpRows, op' = [op EXCEPT ![p] = o],
         TrustFiles', FloorFirst', NeverDowngraded', TrustGrows,
         \A q \in Procs \ {p} : op[q].pc = "target" => pol' = pol,
         o.pc # "idle" => StillKnown(o)' /\ Progress(o)',
         o.pc \in Locking => vlock' = p,
         \A q \in Procs \ {p} : vlock = q => vlock' = q,
         conf'.openrc = conf.openrc, needs' = needs,
         p = "agent" => Fitting(o)
  PROVE  TrustInv'
<1>1. op' \in [Procs -> OpRows] /\ op'[p] = o /\ \A q \in Procs \ {p} : op'[q] = op[q] /\ op[q] \in OpRows
  BY DEF TrustInv
<1>2. Fitting(op["agent"])'
  <2>1. "agent" \in Procs  BY DEF Procs
  <2>2. op'["agent"] = IF p = "agent" THEN o ELSE op["agent"]
    BY <1>1, <2>1
  <2> QED  BY <2>2 DEF TrustInv, Fitting
<1>3. ASSUME NEW q \in Procs, op'[q].pc # "idle" PROVE StillKnown(op[q])' /\ Progress(op[q])'
  <2>1. CASE q = p  BY <1>1, <1>3, <2>1 DEF StillKnown, Progress, PolicyPassed, BothPassed, Replacing
  <2>2. CASE q # p
    <3>1. PICK n \in OpRows : n = op[q] /\ n = op'[q]  BY <1>1, <2>2
    <3>2. StillKnown(n) /\ Progress(n) /\ TrustFiles /\ (n.pc = "target" => pol' = pol)
      <4>1. StillKnown(op[q]) /\ Progress(op[q]) /\ TrustFiles  BY <1>3, <3>1 DEF TrustInv
      <4> QED  BY <2>2, <3>1, <4>1
    <3>3. StillKnown(n)' /\ Progress(n)'
      BY <3>2, StartedKnows, StartedProgress
    <3> QED  BY <3>1, <3>3 DEF StillKnown, Progress, PolicyPassed, BothPassed, Replacing
  <2> QED  BY <2>1, <2>2
<1>4. ASSUME NEW q \in Procs, op'[q].pc \in Locking PROVE vlock' = q
  BY <1>1, <1>4 DEF TrustInv
<1> QED  BY <1>1, <1>2, <1>3, <1>4 DEF TrustInv

(* The files stay, or the agent's program alone is replaced. *)
LEMMA TrustInstall ==
  ASSUME TrustInv, NEW p \in Procs, NEW o \in OpRows, op' = [op EXCEPT ![p] = o],
         UNCHANGED files, UNCHANGED <<gens, clock, conf, needs, permitted>>,
         vlock' = vlock \/ (vlock = p /\ vlock' = None) \/ (vlock = None /\ vlock' = p),
         agentBin' \in AgentReleases, ~conf.openrc => needs \subseteq Provides[agentBin'],
         o.pc # "idle" => StillKnown(o) /\ Progress(o),
         o.pc \in Locking => vlock' = p, p = "agent" => Fitting(o)
  PROVE  TrustInv'
<1> USE DEF files
<1>1. TrustFiles' /\ FloorFirst' /\ NeverDowngraded' /\ TrustFiles
  BY DEF TrustInv, TrustFiles, FloorFirst, NeverDowngraded
<1>2. PolMin' = PolMin /\ PolRevoked' = PolRevoked
  BY DEF PolMin, PolRevoked
<1>3. TrustGrows
  <2>1. PolMin \in Nat /\ floor.agent \in Nat  BY <1>1 DEF PolMin, TrustFiles, PolicyRows
  <2> QED  BY <1>2, <2>1 DEF TrustGrows
<1>4. o.pc # "idle" => StillKnown(o)' /\ Progress(o)'
  BY <1>1, <1>3, StartedKnows, StartedProgress
<1>5. \A q \in Procs \ {p} : vlock = q => vlock' = q
  BY TrustAssumption DEF Procs
<1> QED  BY <1>1, <1>3, <1>4, <1>5, TrustMove

LEMMA TrustQuiet ==
  ASSUME TrustInv, NEW p \in Procs, NEW o \in OpRows, op' = [op EXCEPT ![p] = o],
         UNCHANGED files, UNCHANGED <<gens, clock, conf, needs, permitted, agentBin>>,
         vlock' = vlock \/ (vlock = p /\ vlock' = None) \/ (vlock = None /\ vlock' = p),
         o.pc # "idle" => StillKnown(o) /\ Progress(o),
         o.pc \in Locking => vlock' = p, p = "agent" => Fitting(o)
  PROVE  TrustInv'
<1>1. agentBin' \in AgentReleases /\ (~conf.openrc => needs \subseteq Provides[agentBin'])
  BY DEF TrustInv, TrustFiles, NeverDowngraded
<1> QED  BY <1>1, TrustInstall

LEMMA OpStep ==
  ASSUME TrustInv, NEW p \in Procs, op[p].pc # "idle", NEW x \in TrustPcs, Step(p, x)
  PROVE  \E o \in OpRows :
           /\ op' = [op EXCEPT ![p] = o] /\ o.pc = x /\ o.kind = op[p].kind /\ o.r = op[p].r
           /\ o.conf = op[p].conf /\ o.gen = op[p].gen /\ o.known = op[p].known
           /\ o.epoch = op[p].epoch /\ o.rec = op[p].rec /\ StillKnown(o)
<1> DEFINE o == [op[p] EXCEPT !.pc = x]
<1>1. op[p] \in OpRows /\ StillKnown(op[p])  BY DEF TrustInv
<1>2. o \in OpRows /\ o.pc = x /\ o.kind = op[p].kind /\ o.r = op[p].r /\ o.conf = op[p].conf
      /\ o.gen = op[p].gen /\ o.known = op[p].known /\ o.epoch = op[p].epoch /\ o.rec = op[p].rec
  BY <1>1 DEF OpRows
<1>3. StillKnown(o)  BY <1>1, <1>2 DEF StillKnown
<1>4. op' = [op EXCEPT ![p] = o]  BY DEF Step, TrustInv
<1> QED  BY <1>2, <1>3, <1>4

(* An operation ends. *)
LEMMA NoOpRow == NoOp \in OpRows /\ NoOp.pc = "idle"
  BY DEF NoOp, OpRows, TrustPcs, OpKinds

LEMMA FailsStep == ASSUME TrustInv, NEW p \in Procs, Fails(p) PROVE TrustInv'
<1>1. PICK o \in OpRows : o = NoOp  BY NoOpRow
<1>2. op' = [op EXCEPT ![p] = o] /\ o.pc = "idle"  BY <1>1, NoOpRow DEF Fails
<1>3. UNCHANGED files /\ UNCHANGED <<gens, clock, conf, needs, permitted, agentBin>>  BY DEF Fails, rest
<1>4. vlock' = vlock \/ (vlock = p /\ vlock' = None)  BY DEF Fails
<1>5. Fitting(o) /\ o.pc \notin Locking  BY <1>2 DEF Fitting, Replacing, Locking
<1> QED  BY <1>2, <1>3, <1>4, <1>5, TrustQuiet

LEMMA EndsStep ==
  ASSUME TrustInv, NEW p \in Procs, op' = [op EXCEPT ![p] = NoOp], UNCHANGED files,
         UNCHANGED <<gens, clock, conf, needs, permitted, vlock>>,
         agentBin' \in AgentReleases, ~conf.openrc => needs \subseteq Provides[agentBin']
  PROVE  TrustInv'
<1>1. PICK o \in OpRows : o = NoOp  BY NoOpRow
<1>2. op' = [op EXCEPT ![p] = o] /\ o.pc = "idle"  BY <1>1, NoOpRow
<1>3. Fitting(o) /\ o.pc \notin Locking  BY <1>2 DEF Fitting, Replacing, Locking
<1> QED  BY <1>2, <1>3, TrustInstall

LEMMA TrustEnds ==
  ASSUME TrustInv, NEW p \in Procs, VerifyDone(p) \/ Healthy(p) \/ RestoreBinary(p) \/ CommitBinary
  PROVE  TrustInv'
<1>1. agentBin \in AgentReleases /\ (~conf.openrc => needs \subseteq Provides[agentBin])
      /\ Fitting(op["agent"])
  BY DEF TrustInv, TrustFiles, NeverDowngraded
<1>2. CASE VerifyDone(p) \/ Healthy(p)
  BY <1>1, <1>2, EndsStep DEF VerifyDone, Healthy, rest
<1>3. CASE RestoreBinary(p)
  <2>1. agentBin' \in AgentReleases /\ (~conf.openrc => needs \subseteq Provides[agentBin'])
    BY <1>1, <1>3 DEF RestoreBinary, Fitting, Replacing, At
  <2> QED  BY <1>3, <2>1, EndsStep DEF RestoreBinary
<1>4. CASE CommitBinary
  <2>1. agentBin' \in AgentReleases /\ needs \subseteq Provides[agentBin'] /\ "agent" \in Procs
    BY <1>1, <1>4 DEF CommitBinary, Fitting, At, Supports, Procs
  <2> QED  BY <1>4, <2>1, EndsStep DEF CommitBinary
<1> QED  BY <1>2, <1>3, <1>4

(* A check passes and nothing is written. *)
LEMMA CheckTargetStep == ASSUME TrustInv, NEW p \in Procs, CheckTarget(p) PROVE TrustInv'
<1> DEFINE x == IF op[p].r = "k" THEN "archive" ELSE "epoch"
<1>1. op[p].pc = "target" /\ op[p] \in OpRows /\ StillKnown(op[p]) /\ Progress(op[p])
      /\ (p = "agent" => Fitting(op[p])) /\ vlock = p /\ TrustFiles
  BY DEF TrustInv, CheckTarget, At, Locking
<1>2. PICK o \in OpRows :
        /\ op' = [op EXCEPT ![p] = o] /\ o.pc = x /\ o.r = op[p].r /\ o.conf = op[p].conf
        /\ o.known = op[p].known /\ StillKnown(o)
  BY <1>1, OpStep DEF TrustPcs, CheckTarget
<1>3. pol = PolicyOfGen(op[p].gen) /\ op[p].gen \in gens  BY <1>1 DEF Progress
<1>4. pol # None /\ pol.min \in Nat /\ PolMin = pol.min /\ PolRevoked = pol.revoked
  <2>1. op[p].gen \in GenRows  BY <1>1, <1>3 DEF TrustFiles
  <2>2. pol \in PolicyRows  BY <2>1, <1>3 DEF PolicyOfGen, PolicyRows, GenRows, Releases
  <2> QED  BY <2>2, TrustAssumption DEF PolicyRows, PolMin, PolRevoked
<1>5. PolicyPassed(o, Epoch[o.r])
  <2>1. o.r \notin pol.revoked /\ (o.r # "k" => Epoch[o.r] >= pol.min)
    BY <1>2, <1>3 DEF CheckTarget, Allows
  <2>2. Epoch[o.r] \in Nat /\ o.known.min \in Nat
    BY <1>2, TrustAssumption DEF StillKnown, Releases, KnownRows
  <2> QED  BY <1>2, <1>4, <2>1, <2>2 DEF StillKnown, PolicyPassed
<1>6. Progress(o)  BY <1>1, <1>2, <1>5 DEF Progress, Replacing
<1>7. p = "agent" => Fitting(o)  BY <1>1, <1>2 DEF Fitting, Replacing
<1>8. UNCHANGED files /\ UNCHANGED <<gens, clock, conf, needs, permitted, agentBin, vlock>>
  BY DEF CheckTarget, rest
<1> QED  BY <1>1, <1>2, <1>6, <1>7, <1>8, TrustQuiet

LEMMA ChecksumStep == ASSUME TrustInv, NEW p \in Procs, verifyChecksum(p) PROVE TrustInv'
<1> DEFINE x == IF op[p].r = "k" THEN "archive" ELSE "plain"
<1>1. op[p].pc = "checksum" /\ op[p] \in OpRows /\ StillKnown(op[p]) /\ Progress(op[p])
      /\ (p = "agent" => Fitting(op[p])) /\ vlock = p
  BY DEF TrustInv, verifyChecksum, At, Locking
<1>2. PICK o \in OpRows :
        /\ op' = [op EXCEPT ![p] = o] /\ o.pc = x /\ o.r = op[p].r /\ o.conf = op[p].conf /\ StillKnown(o)
  BY <1>1, OpStep DEF TrustPcs, verifyChecksum
<1>3. Progress(o)  BY <1>1, <1>2 DEF Progress, Replacing
<1>4. p = "agent" => Fitting(o)  BY <1>1, <1>2 DEF Fitting, Replacing
<1>5. UNCHANGED files /\ UNCHANGED <<gens, clock, conf, needs, permitted, agentBin, vlock>>
  BY DEF verifyChecksum, rest
<1> QED  BY <1>1, <1>2, <1>3, <1>4, <1>5, TrustQuiet

LEMMA ReadPolicyStep == ASSUME TrustInv, NEW p \in Procs, ReadPolicy(p) PROVE TrustInv'
<1>1. op[p].pc = "allowed" /\ op[p] \in OpRows /\ StillKnown(op[p]) /\ Progress(op[p])
      /\ (p = "agent" => Fitting(op[p])) /\ TrustFiles
  BY DEF TrustInv, ReadPolicy, At
<1>2. PICK o \in OpRows :
        /\ op' = [op EXCEPT ![p] = o] /\ o.pc = "above" /\ o.r = op[p].r /\ o.conf = op[p].conf
        /\ o.known = op[p].known /\ o.epoch = op[p].epoch /\ o.rec = op[p].rec /\ StillKnown(o)
        /\ o.kind = op[p].kind
  BY <1>1, OpStep DEF TrustPcs, ReadPolicy
<1>3. PolicyPassed(o, o.epoch)
  <2>1. o.r \notin pol.revoked /\ (o.r # "k" => o.epoch >= pol.min)
    BY <1>2 DEF ReadPolicy, Allows
  <2>2. pol.min \in Nat /\ PolMin = pol.min /\ PolRevoked = pol.revoked
    BY <1>1 DEF TrustFiles, PolicyRows, PolMin, PolRevoked, ReadPolicy
  <2>3. o.epoch \in Nat /\ o.known.min \in Nat
    BY <1>2 DEF StillKnown, OpRows, KnownRows
  <2> QED  BY <1>2, <2>1, <2>2, <2>3 DEF StillKnown, PolicyPassed
<1>4. Progress(o)
  <2>1. pol # None  BY DEF ReadPolicy
  <2> QED  BY <1>1, <1>2, <1>3, <2>1 DEF Progress, Replacing
<1>5. p = "agent" => Fitting(o)  BY <1>1, <1>2 DEF Fitting, Replacing
<1>6. UNCHANGED files /\ UNCHANGED <<gens, clock, conf, needs, permitted, agentBin, vlock>>
  BY DEF ReadPolicy, rest
<1>7. o.pc \notin Locking  BY <1>2 DEF Locking
<1> QED  BY <1>2, <1>4, <1>5, <1>6, <1>7, TrustQuiet

LEMMA ReadFloorStep == ASSUME TrustInv, NEW p \in Procs, ReadFloor(p) PROVE TrustInv'
<1> DEFINE x == IF op[p].rec # None /\ ~Recovering(p) THEN "sequence" ELSE "bytes"
<1>1. op[p].pc = "above" /\ op[p] \in OpRows /\ StillKnown(op[p]) /\ Progress(op[p])
      /\ (p = "agent" => Fitting(op[p])) /\ TrustFiles
  BY DEF TrustInv, ReadFloor, At
<1>2. PICK o \in OpRows :
        /\ op' = [op EXCEPT ![p] = o] /\ o.pc = x /\ o.r = op[p].r /\ o.conf = op[p].conf
        /\ o.known = op[p].known /\ o.epoch = op[p].epoch /\ o.rec = op[p].rec /\ StillKnown(o)
        /\ o.kind = op[p].kind
  BY <1>1, OpStep DEF TrustPcs, ReadFloor
<1>3. BothPassed(o, o.epoch)
  <2>1. PolicyPassed(o, o.epoch)  BY <1>1, <1>2 DEF Progress, PolicyPassed
  <2>2. floor.agent \in Nat /\ o.conf.min \in Nat /\ o.epoch \in Nat /\ o.known.min \in Nat
    BY <1>1, <1>2 DEF StillKnown, OpRows, KnownRows, TrustFiles, TrustConfs
  <2>3. o.r # "k" => o.epoch >= floor.agent /\ o.epoch >= o.conf.min
    BY <1>2, <2>2 DEF ReadFloor, FloorOf, Larger
  <2> QED  BY <2>1, <2>2, <2>3 DEF PolicyPassed, BothPassed
<1>4. Progress(o)  BY <1>1, <1>2, <1>3 DEF Progress, Replacing
<1>5. p = "agent" => Fitting(o)  BY <1>1, <1>2 DEF Fitting, Replacing
<1>6. UNCHANGED files /\ UNCHANGED <<gens, clock, conf, needs, permitted, agentBin, vlock>>
  BY DEF ReadFloor, rest
<1>7. o.pc \notin Locking  BY <1>2 DEF Locking
<1> QED  BY <1>2, <1>4, <1>5, <1>6, <1>7, TrustQuiet

LEMMA CheckBytesStep == ASSUME TrustInv, NEW p \in Procs, CheckBytes(p) PROVE TrustInv'
<1>1. op[p].pc = "bytes" /\ op[p] \in OpRows /\ StillKnown(op[p]) /\ Progress(op[p])
      /\ (p = "agent" => Fitting(op[p])) /\ TrustFiles
  BY DEF TrustInv, CheckBytes, At
<1>2. UNCHANGED files /\ UNCHANGED <<gens, clock, conf, needs, permitted, agentBin, vlock>>
  BY DEF CheckBytes, rest
<1>3. \/ op' = [op EXCEPT ![p] = NoOp]
      \/ op[p].rec # None /\ \E x \in {"restore", "prepared"} : Step(p, x)
  <2>1. op[p].kind # "rollback" => op[p].rec # None  BY <1>1 DEF Progress, Replacing
  <2> QED  BY <2>1 DEF CheckBytes
<1>4. CASE op' = [op EXCEPT ![p] = NoOp]
  BY <1>2, <1>4, EndsStep DEF TrustInv, TrustFiles, NeverDowngraded
<1>5. ASSUME NEW x \in {"restore", "prepared"}, Step(p, x), op[p].rec # None PROVE TrustInv'
  <2>1. PICK o \in OpRows :
          /\ op' = [op EXCEPT ![p] = o] /\ o.pc = x /\ o.r = op[p].r /\ o.conf = op[p].conf
          /\ o.known = op[p].known /\ o.epoch = op[p].epoch /\ o.rec = op[p].rec /\ StillKnown(o)
        /\ o.kind = op[p].kind
    BY <1>1, <1>5, OpStep DEF TrustPcs
  <2>2. ~o.conf.checksum => BothPassed(o, Epoch[o.r])
    <3>1. o.epoch \in Nat /\ o.known.min \in Nat /\ Epoch[o.r] \in Nat
      BY <2>1, TrustAssumption DEF StillKnown, OpRows, KnownRows, Releases
    <3> QED  BY <1>1, <2>1, <3>1 DEF Progress, BothPassed
  <2>3. Progress(o)  BY <1>5, <2>1, <2>2 DEF Progress, Replacing
  <2>4. p = "agent" => Fitting(o)  BY <1>1, <2>1 DEF Fitting, Replacing
  <2>5. o.pc \notin Locking  BY <2>1 DEF Locking
  <2> QED  BY <1>2, <2>1, <2>3, <2>4, <2>5, TrustQuiet
<1> QED  BY <1>3, <1>4, <1>5

LEMMA SwitchBinaryStep == ASSUME TrustInv, NEW p \in Procs, SwitchBinary(p) PROVE TrustInv'
<1>1. op[p].pc = "prepared" /\ op[p] \in OpRows /\ StillKnown(op[p]) /\ Progress(op[p]) /\ (p = "agent" => Fitting(op[p]))
  BY DEF TrustInv, SwitchBinary, At
<1>2. PICK o \in OpRows :
        /\ op' = [op EXCEPT ![p] = o] /\ o.pc = "switched" /\ o.r = op[p].r /\ o.conf = op[p].conf
        /\ o.rec = op[p].rec /\ StillKnown(o)
  BY <1>1, OpStep DEF TrustPcs, SwitchBinary
<1>3. agentBin' \in AgentReleases /\ (~conf.openrc => needs \subseteq Provides[agentBin'])
  BY <1>1 DEF SwitchBinary, Fitting, Replacing, TrustInv, TrustFiles, NeverDowngraded
<1>4. Progress(o) /\ o.pc \notin Locking  BY <1>1, <1>2 DEF Progress, Locking, Replacing
<1>5. p = "agent" => Fitting(o)  BY <1>1, <1>2 DEF Fitting, Replacing
<1>6. UNCHANGED files /\ UNCHANGED <<gens, clock, conf, needs, permitted, vlock>>  BY DEF SwitchBinary
<1> QED  BY <1>2, <1>3, <1>4, <1>5, <1>6, TrustInstall

(* An operation that begins knows what the host knows. *)
LEMMA KnownNow ==
  ASSUME TrustFiles, NEW o, o.r \in Releases, o.conf = conf, o.known = Known
  PROVE  StillKnown(o)
<1>1. conf.min \in Nat /\ floor.agent \in Nat /\ PolMin \in Nat /\ PolRevoked \subseteq Releases /\ conf \in TrustConfs
  BY DEF TrustFiles, TrustConfs, PolMin, PolRevoked, PolicyRows, Releases
<1>2. Known = [revoked |-> PolRevoked, min |-> Larger(conf.min, Larger(floor.agent, PolMin))]
  BY DEF Known, PolRevoked, PolMin
<1>3. /\ Larger(conf.min, Larger(floor.agent, PolMin)) \in {conf.min, floor.agent, PolMin}
  BY <1>1 DEF Larger
<1> QED  BY <1>1, <1>2, <1>3 DEF StillKnown, KnownRows

LEMMA ReadReceiptStep == ASSUME TrustInv, NEW p \in Procs, ReadReceipt(p) PROVE TrustInv'
<1> DEFINE x == IF op[p].conf.checksum THEN "bytes" ELSE "allowed"
           n == [op[p] EXCEPT !.epoch = receipts[op[p].r], !.pc = x]
<1>1. op[p].pc = "receipt" /\ op[p] \in OpRows /\ StillKnown(op[p]) /\ Progress(op[p])
      /\ (p = "agent" => Fitting(op[p])) /\ TrustFiles
  BY DEF TrustInv, ReadReceipt, At
<1>2. receipts[op[p].r] \in Nat /\ receipts[op[p].r] <= Epoch[op[p].r]
  BY <1>1 DEF TrustFiles, StillKnown
<1>3. x \in TrustPcs  BY DEF TrustPcs
<1>4. n \in OpRows /\ n.pc = x /\ n.r = op[p].r /\ n.conf = op[p].conf /\ n.known = op[p].known
      /\ n.epoch = receipts[op[p].r] /\ n.rec = op[p].rec /\ n.kind = op[p].kind
  BY <1>1, <1>2, <1>3 DEF OpRows
<1>5. op' = [op EXCEPT ![p] = n]  BY DEF ReadReceipt, TrustInv
<1>6. PICK o \in OpRows : o = n  BY <1>4
<1>7. op' = [op EXCEPT ![p] = o] /\ o.pc = x /\ o.r = op[p].r /\ o.conf = op[p].conf /\ o.known = op[p].known
      /\ o.epoch = receipts[op[p].r] /\ o.rec = op[p].rec /\ o.kind = op[p].kind
  BY <1>4, <1>5, <1>6
<1>8. StillKnown(o)  BY <1>1, <1>7 DEF StillKnown
<1>9. Progress(o) /\ o.pc \notin Locking  BY <1>1, <1>2, <1>7 DEF Progress, Locking, Replacing
<1>10. p = "agent" => Fitting(o)  BY <1>1, <1>7 DEF Fitting, Replacing
<1>11. UNCHANGED files /\ UNCHANGED <<gens, clock, conf, needs, permitted, agentBin, vlock>>
  BY DEF ReadReceipt, rest
<1> HIDE DEF n
<1> QED  BY <1>7, <1>8, <1>9, <1>10, <1>11, TrustQuiet

LEMMA ReadSequenceStep == ASSUME TrustInv, NEW p \in Procs, ReadSequence(p) PROVE TrustInv'
<1> DEFINE n == [op[p] EXCEPT !.pc = "bytes", !.rec = [op[p].rec EXCEPT !.seq = pol.seq]]
<1>1. op[p].pc = "sequence" /\ op[p] \in OpRows /\ StillKnown(op[p]) /\ Progress(op[p])
      /\ (p = "agent" => Fitting(op[p])) /\ TrustFiles
  BY DEF TrustInv, ReadSequence, At
<1>2. op[p].rec \in RecRows /\ pol.seq \in Nat
  BY <1>1 DEF Progress, Replacing, OpRows, TrustFiles, PolicyRows
<1>3. n.rec \in RecRows /\ n.rec.new = op[p].rec.new /\ n.rec # None
  BY <1>1, <1>2, TrustAssumption DEF OpRows, RecRows
<1>4. n \in OpRows /\ n.pc = "bytes" /\ n.r = op[p].r /\ n.conf = op[p].conf /\ n.known = op[p].known
      /\ n.epoch = op[p].epoch
  BY <1>1, <1>3 DEF OpRows, TrustPcs
<1>5. op' = [op EXCEPT ![p] = n]  BY DEF ReadSequence, TrustInv, OpRows
<1>6. PICK o \in OpRows : o = n  BY <1>4
<1>7. op' = [op EXCEPT ![p] = o] /\ o.pc = "bytes" /\ o.r = op[p].r /\ o.conf = op[p].conf
      /\ o.known = op[p].known /\ o.epoch = op[p].epoch
      /\ o.rec \in RecRows /\ o.rec # None /\ o.rec.new = op[p].rec.new
  BY <1>3, <1>4, <1>5, <1>6
<1> HIDE DEF n
<1>8. StillKnown(o)  BY <1>1, <1>7 DEF StillKnown
<1>9. Progress(o) /\ o.pc \notin Locking  BY <1>1, <1>7 DEF Progress, Locking, BothPassed
<1>10. p = "agent" => Fitting(o)  BY <1>1, <1>7 DEF Fitting, Replacing
<1>11. UNCHANGED files /\ UNCHANGED <<gens, clock, conf, needs, permitted, agentBin, vlock>>
  BY DEF ReadSequence, rest
<1> QED  BY <1>7, <1>8, <1>9, <1>10, <1>11, TrustQuiet

LEMMA CheckRecoveryStep == ASSUME TrustInv, NEW p \in Procs, CheckRecovery(p) PROVE TrustInv'
<1> DEFINE x == IF conf.checksum THEN "bytes" ELSE "receipt"
           n == [op[p] EXCEPT !.pc = x, !.conf = conf, !.known = Known,
                              !.rec = [op[p].rec EXCEPT !.phase = "check"]]
<1>1. op[p].pc = "switched" /\ op[p] \in OpRows /\ StillKnown(op[p]) /\ Progress(op[p])
      /\ (p = "agent" => Fitting(op[p])) /\ TrustFiles
  BY DEF TrustInv, CheckRecovery, At
<1>2. op[p].rec \in RecRows
  BY <1>1 DEF Progress, Replacing, OpRows
<1>3. n.rec \in RecRows /\ n.rec.new = op[p].rec.new /\ n.rec # None
  BY <1>1, <1>2, TrustAssumption DEF OpRows, RecRows
<1>4. n.r = op[p].r /\ n.conf = conf /\ n.known = Known /\ n.pc = x /\ n.epoch = op[p].epoch
  BY <1>1 DEF OpRows
<1>5. StillKnown(n)  BY <1>1, <1>4, KnownNow DEF StillKnown
<1>6. n \in OpRows  BY <1>1, <1>3, <1>4, <1>5 DEF OpRows, TrustPcs, StillKnown
<1>7. op' = [op EXCEPT ![p] = n]  BY DEF CheckRecovery, TrustInv, OpRows
<1>8. PICK o \in OpRows : o = n  BY <1>6
<1>9. op' = [op EXCEPT ![p] = o] /\ o.pc = x /\ o.r = op[p].r /\ o.conf = conf /\ StillKnown(o)
      /\ o.rec \in RecRows /\ o.rec # None /\ o.rec.new = op[p].rec.new
  BY <1>3, <1>4, <1>5, <1>7, <1>8
<1> HIDE DEF n
<1>10. Progress(o) /\ o.pc \notin Locking  BY <1>9 DEF Progress, Locking
<1>11. p = "agent" => Fitting(o)  BY <1>1, <1>9 DEF Fitting, Replacing
<1>12. UNCHANGED files /\ UNCHANGED <<gens, clock, conf, needs, permitted, agentBin, vlock>>
  BY DEF CheckRecovery, rest
<1> QED  BY <1>9, <1>10, <1>11, <1>12, TrustQuiet

LEMMA BeginRecoveryStep == ASSUME TrustInv, BeginRecovery PROVE TrustInv'
<1> DEFINE x == IF conf.checksum THEN "bytes" ELSE "receipt"
           c == [r |-> agentBin, new |-> op["agent"].r, seq |-> 1, deadline |-> clock + TrustLife,
                 phase |-> "prepare"]
           n == [op["agent"] EXCEPT !.pc = x, !.conf = conf, !.known = Known, !.rec = c, !.r = agentBin]
<1>1. op["agent"].pc = "verified" /\ op["agent"] \in OpRows /\ Fitting(op["agent"]) /\ TrustFiles
      /\ "agent" \in Procs /\ NeverDowngraded
  BY DEF TrustInv, BeginRecovery, At, Procs
<1>2. op["agent"].r \in AgentReleases /\ agentBin \in AgentReleases /\ agentBin \in Releases
  BY <1>1 DEF Fitting, TrustFiles, AgentReleases
<1>3. c \in RecRows /\ c # None /\ c.new = op["agent"].r
  BY <1>1, <1>2, TrustAssumption DEF RecRows, AgentReleases, Releases, TrustFiles
<1> HIDE DEF c
<1>4. n.r = agentBin /\ n.conf = conf /\ n.known = Known /\ n.pc = x /\ n.rec = c
  BY <1>1 DEF OpRows
<1>5. StillKnown(n)  BY <1>1, <1>2, <1>4, KnownNow
<1>6. n \in OpRows  BY <1>1, <1>2, <1>3, <1>4, <1>5 DEF OpRows, TrustPcs, StillKnown
<1>7. op' = [op EXCEPT !["agent"] = n]  BY DEF BeginRecovery, TrustInv, OpRows, c
<1>8. PICK o \in OpRows : o = n  BY <1>6
<1>9. op' = [op EXCEPT !["agent"] = o] /\ o.pc = x /\ o.r = agentBin /\ o.conf = conf /\ StillKnown(o)
      /\ o.rec = c
  BY <1>4, <1>5, <1>7, <1>8
<1> HIDE DEF n
<1>10. Progress(o) /\ o.pc \notin Locking  BY <1>3, <1>9 DEF Progress, Locking
<1>11. Fitting(o)
  <2>1. needs \subseteq Provides[op["agent"].r]  BY DEF BeginRecovery, Supports
  <2> QED  BY <1>1, <1>2, <1>3, <1>9, <2>1 DEF Fitting, Replacing, NeverDowngraded
<1>12. UNCHANGED files /\ UNCHANGED <<gens, clock, conf, needs, permitted, agentBin, vlock>>
  BY DEF BeginRecovery, rest
<1> QED  BY <1>1, <1>9, <1>10, <1>11, <1>12, TrustQuiet

(* What Begin writes down. *)
LEMMA BegunOp ==
  ASSUME TrustInv, NEW kind \in OpKinds, NEW pc \in TrustPcs, NEW r \in Releases, NEW rec \in RecRows \cup {None},
         NEW o, o = Begun(pc, kind, r, rec)
  PROVE  o \in OpRows /\ StillKnown(o)
<1>1. o.pc = pc /\ o.kind = kind /\ o.r = r /\ o.conf = conf /\ o.known = Known /\ o.rec = rec
      /\ o.gen = None /\ o.epoch = 0
  BY DEF Begun
<1>2. StillKnown(o)  BY <1>1, KnownNow DEF TrustInv
<1>3. Known \in KnownRows /\ conf \in TrustConfs  BY <1>1, <1>2 DEF StillKnown
<1> QED  BY <1>2, <1>3 DEF OpRows, Begun

LEMMA VerifyReaderStep == ASSUME TrustInv, NEW p \in Procs, VerifyReader(p) PROVE TrustInv'
<1> DEFINE x == IF conf.checksum THEN "checksum" ELSE "refresh"
<1>1. PICK r \in Releases, kind \in Kinds(p) : (r = "k") = (p = "ctl") /\ Begin(p, kind, x, r)
  BY DEF VerifyReader
<1>2. kind \in OpKinds /\ x \in TrustPcs  BY DEF Kinds, OpKinds, TrustPcs
<1>3. PICK o : o = Begun(x, kind, r, None)  OBVIOUS
<1>4. o \in OpRows /\ StillKnown(o)  BY <1>2, <1>3, BegunOp
<1>5. o.pc = x /\ o.r = r /\ o.conf = conf  BY <1>3 DEF Begun
<1>6. op' = [op EXCEPT ![p] = o]  BY <1>1, <1>3 DEF Begin
<1>7. Progress(o)  BY <1>5 DEF Progress, Replacing
<1>8. p = "agent" => Fitting(o)  BY <1>1, <1>5 DEF Fitting, Replacing, AgentReleases
<1>9. UNCHANGED files /\ UNCHANGED <<gens, clock, conf, needs, permitted, agentBin>> /\ vlock = None /\ vlock' = p
  BY <1>1 DEF VerifyReader, Begin
<1> QED  BY <1>4, <1>6, <1>7, <1>8, <1>9, TrustQuiet

LEMMA ControllerBegins == ASSUME TrustInv, PrepareRecovery \/ VerifyRollback PROVE TrustInv'
<1> DEFINE c == [r |-> "k", new |-> "k", seq |-> 1, deadline |-> clock + TrustLife, phase |-> "prepare"]
<1>1. "ctl" \in Procs /\ "k" \in Releases /\ clock + TrustLife \in Nat
  BY TrustAssumption DEF Procs, Releases, TrustInv, TrustFiles
<1>2. c \in RecRows /\ c # None  BY <1>1, TrustAssumption DEF RecRows, Releases
<1>3. \E kind \in OpKinds, r \in Releases, rec \in RecRows \cup {None} :
        /\ op' = [op EXCEPT !["ctl"] = Begun("receipt", kind, r, rec)]
        /\ kind # "rollback" => rec # None
  <2>1. CASE PrepareRecovery
    <3>1. op' = [op EXCEPT !["ctl"] = Begun("receipt", "recovery", "k", c)]
      BY <2>1 DEF PrepareRecovery
    <3>2. "recovery" \in OpKinds /\ "recovery" # "rollback" /\ c \in RecRows \cup {None}
      BY <1>2 DEF OpKinds
    <3> HIDE DEF c
    <3> USE <1>1, <3>2
    <3> WITNESS "recovery" \in OpKinds, "k" \in Releases, c \in RecRows \cup {None}
    <3> QED  BY <1>2, <3>1
  <2>2. CASE VerifyRollback
    <3>1. PICK r \in Releases : Begin("ctl", "rollback", "receipt", r)  BY <2>2 DEF VerifyRollback
    <3>2. op' = [op EXCEPT !["ctl"] = Begun("receipt", "rollback", r, None)]
      BY <3>1 DEF Begin
    <3> QED  BY <3>2 DEF OpKinds
  <2> QED  BY <2>1, <2>2
<1> HIDE DEF c
<1>4. PICK kind \in OpKinds, r \in Releases, rec \in RecRows \cup {None} :
        /\ op' = [op EXCEPT !["ctl"] = Begun("receipt", kind, r, rec)]
        /\ kind # "rollback" => rec # None
  BY <1>3
<1>5. PICK o : o = Begun("receipt", kind, r, rec)  OBVIOUS
<1>6. o \in OpRows /\ StillKnown(o) /\ op' = [op EXCEPT !["ctl"] = o]
  BY <1>4, <1>5, BegunOp DEF TrustPcs
<1>7. o.pc = "receipt" /\ (o.kind # "rollback" => o.rec # None)  BY <1>4, <1>5 DEF Begun
<1>8. Progress(o) /\ o.pc \notin Locking  BY <1>7 DEF Progress, Replacing, Locking
<1>9. UNCHANGED files /\ UNCHANGED <<gens, clock, conf, needs, permitted, agentBin, vlock>>
  BY DEF PrepareRecovery, VerifyRollback, Begin
<1> QED  BY <1>1, <1>6, <1>8, <1>9, TrustQuiet

(* The host writes.  Nobody else holds the lock, so nobody else is between the
   policy and the target. *)
LEMMA OtherWaits ==
  ASSUME TrustInv, NEW p \in Procs, op[p].pc \in Locking
  PROVE  \A q \in Procs \ {p} : op[q].pc # "target"
  BY DEF TrustInv, Locking

LEMMA RefreshStep == ASSUME TrustInv, NEW p \in Procs, Refresh(p) PROVE TrustInv'
<1>1. op[p].pc = "refresh" /\ op[p] \in OpRows /\ StillKnown(op[p]) /\ Progress(op[p])
      /\ (p = "agent" => Fitting(op[p])) /\ TrustFiles /\ vlock = p
  BY DEF TrustInv, Refresh, At, Locking
<1>2. PICK g \in gens : g.ver >= meta /\ meta' = g.ver /\ op' = [op EXCEPT ![p].pc = "policy", ![p].gen = g]
  BY DEF Refresh
<1> DEFINE n == [op[p] EXCEPT !.pc = "policy", !.gen = g]
<1>3. g \in GenRows /\ g.ver \in 1..Cardinality(gens)  BY <1>1 DEF TrustFiles
<1>4. n \in OpRows /\ n.pc = "policy" /\ n.gen = g /\ n.r = op[p].r /\ n.conf = op[p].conf /\ n.known = op[p].known
  BY <1>1, <1>3 DEF OpRows, TrustPcs
<1>5. op' = [op EXCEPT ![p] = n]  BY <1>2 DEF TrustInv
<1>6. PICK o \in OpRows : o = n  BY <1>4
<1>7. op' = [op EXCEPT ![p] = o] /\ o.pc = "policy" /\ o.gen = g /\ o.r = op[p].r /\ o.conf = op[p].conf
      /\ o.known = op[p].known
  BY <1>4, <1>5, <1>6
<1> HIDE DEF n
<1>8. UNCHANGED <<gens, clock, conf, agentBin, needs, pol, floor, receipts, vlock, permitted>>  BY DEF Refresh, rest
<1>9. TrustFiles' /\ FloorFirst' /\ NeverDowngraded'
  <2>1. Cardinality(gens) \in Nat  BY <1>1, FS_CardinalityType DEF TrustFiles
  <2>2. meta' \in 0..Cardinality(gens)  BY <1>2, <1>3, <2>1
  <2> QED  BY <1>8, <2>2 DEF TrustInv, TrustFiles, FloorFirst, NeverDowngraded
<1>10. TrustGrows
  <2>1. PolMin \in Nat /\ floor.agent \in Nat  BY <1>1 DEF PolMin, TrustFiles, PolicyRows
  <2>2. PolMin' = PolMin /\ PolRevoked' = PolRevoked  BY <1>8 DEF PolMin, PolRevoked
  <2> QED  BY <1>8, <2>1, <2>2 DEF TrustGrows
<1>11. StillKnown(o)'
  <2>1. StillKnown(o)  BY <1>1, <1>7 DEF StillKnown
  <2> QED  BY <1>1, <1>9, <1>10, <2>1, StartedKnows
<1>12. Progress(o)'  BY <1>1, <1>7, <1>8 DEF Progress, Replacing
<1>13. p = "agent" => Fitting(o)  BY <1>1, <1>7 DEF Fitting, Replacing
<1> QED  BY <1>1, <1>7, <1>8, <1>9, <1>10, <1>11, <1>12, <1>13, TrustMove

LEMMA AcceptPolicyStep == ASSUME TrustInv, NEW p \in Procs, acceptReleasePolicy(p) PROVE TrustInv'
<1>1. op[p].pc = "policy" /\ op[p] \in OpRows /\ StillKnown(op[p]) /\ Progress(op[p])
      /\ (p = "agent" => Fitting(op[p])) /\ TrustFiles /\ vlock = p /\ op[p].pc \in Locking
  BY DEF TrustInv, acceptReleasePolicy, At, Locking
<1>2. PICK o \in OpRows :
        /\ op' = [op EXCEPT ![p] = o] /\ o.pc = "target" /\ o.r = op[p].r /\ o.conf = op[p].conf
        /\ o.gen = op[p].gen /\ o.known = op[p].known /\ StillKnown(o)
  BY <1>1, OpStep DEF TrustPcs, acceptReleasePolicy
<1>3. o.gen \in gens /\ o.gen \in GenRows /\ o.gen.ver \in 1..Cardinality(gens)
  BY <1>1, <1>2 DEF Progress, TrustFiles
<1>4. pol' = PolicyOfGen(o.gen) /\ (pol # None => Supersedes(pol, pol'))
  BY <1>2 DEF acceptReleasePolicy
<1>5. pol' \in PolicyRows /\ pol'.seq = o.gen.ver /\ pol' # None
  BY <1>3, <1>4, TrustAssumption DEF PolicyOfGen, PolicyRows, GenRows, Releases
<1>6. UNCHANGED <<gens, clock, conf, agentBin, needs, meta, floor, receipts, vlock, permitted>>
  BY DEF acceptReleasePolicy, rest
<1>7. TrustFiles' /\ FloorFirst' /\ NeverDowngraded'
  BY <1>3, <1>5, <1>6 DEF TrustInv, TrustFiles, FloorFirst, NeverDowngraded
<1>8. TrustGrows
  <2>1. pol'.min \in Nat /\ floor.agent \in Nat /\ (pol # None => pol.min \in Nat)
    BY <1>1, <1>5 DEF TrustFiles, PolicyRows
  <2>2. pol # None => pol'.min >= pol.min /\ pol.revoked \subseteq pol'.revoked  BY <1>4 DEF Supersedes
  <2>3. PolMin' = pol'.min /\ PolRevoked' = pol'.revoked  BY <1>5 DEF PolMin, PolRevoked
  <2> QED  BY <1>5, <1>6, <2>1, <2>2, <2>3 DEF TrustGrows, PolMin, PolRevoked
<1>9. StillKnown(o)'  BY <1>1, <1>2, <1>7, <1>8, StartedKnows
<1>10. Progress(o)'  BY <1>1, <1>2, <1>3, <1>4, <1>6 DEF Progress, Replacing, PolicyOfGen
<1>11. p = "agent" => Fitting(o)  BY <1>1, <1>2 DEF Fitting, Replacing
<1> QED  BY <1>1, <1>2, <1>6, <1>7, <1>8, <1>9, <1>10, <1>11, OtherWaits, TrustMove

LEMMA RecordArchiveStep == ASSUME TrustInv, NEW p \in Procs, recordArchive(p) PROVE TrustInv'
<1> DEFINE x == IF op[p].conf.checksum THEN "plain" ELSE "epoch"
<1>1. op[p].pc = "archive" /\ op[p] \in OpRows /\ StillKnown(op[p]) /\ Progress(op[p])
      /\ (p = "agent" => Fitting(op[p])) /\ TrustFiles /\ vlock = p /\ op[p].pc \in Locking
  BY DEF TrustInv, recordArchive, At, Locking
<1>2. PICK o \in OpRows :
        /\ op' = [op EXCEPT ![p] = o] /\ o.pc = x /\ o.r = op[p].r /\ o.conf = op[p].conf
        /\ o.known = op[p].known /\ StillKnown(o)
  BY <1>1, OpStep DEF TrustPcs, recordArchive
<1>3. UNCHANGED <<gens, clock, conf, agentBin, needs, meta, pol, floor, receipts, vlock, permitted>>
  BY DEF recordArchive, rest
<1>4. TrustFiles' /\ FloorFirst' /\ NeverDowngraded'
  BY <1>3 DEF TrustInv, TrustFiles, FloorFirst, NeverDowngraded
<1>5. TrustGrows
  <2>1. PolMin \in Nat /\ floor.agent \in Nat  BY <1>1 DEF PolMin, TrustFiles, PolicyRows
  <2>2. PolMin' = PolMin /\ PolRevoked' = PolRevoked  BY <1>3 DEF PolMin, PolRevoked
  <2> QED  BY <1>3, <2>1, <2>2 DEF TrustGrows
<1>6. Progress(o)
  BY <1>1, <1>2 DEF Progress, Replacing, PolicyPassed
<1>7. StillKnown(o)' /\ Progress(o)'
  BY <1>1, <1>2, <1>4, <1>5, <1>6, StartedKnows, StartedProgress
<1>8. p = "agent" => Fitting(o)  BY <1>1, <1>2 DEF Fitting, Replacing
<1> QED  BY <1>1, <1>2, <1>3, <1>4, <1>5, <1>7, <1>8, OtherWaits, TrustMove

LEMMA WriteReceiptStep == ASSUME TrustInv, NEW p \in Procs, WriteReceipt(p) PROVE TrustInv'
<1>1. op[p].pc = "epoch" /\ op[p] \in OpRows /\ StillKnown(op[p]) /\ Progress(op[p])
      /\ (p = "agent" => Fitting(op[p])) /\ TrustFiles /\ vlock = p /\ op[p].pc \in Locking
  BY DEF TrustInv, WriteReceipt, At, Locking
<1>2. PICK o \in OpRows :
        /\ op' = [op EXCEPT ![p] = o] /\ o.pc = "floor" /\ o.r = op[p].r /\ o.conf = op[p].conf
        /\ o.known = op[p].known /\ StillKnown(o)
  BY <1>1, OpStep DEF TrustPcs, WriteReceipt
<1>3. UNCHANGED <<gens, clock, conf, agentBin, needs, meta, pol, floor, vlock, permitted>>
      /\ receipts' = [receipts EXCEPT ![o.r] = Epoch[o.r]]
  BY <1>2 DEF WriteReceipt, rest
<1>4. o.r \in Releases /\ Epoch[o.r] \in Nat /\ o.known.min \in Nat /\ o.conf.min \in Nat /\ floor.agent \in Nat
  BY <1>1, <1>2, TrustAssumption DEF StillKnown, Releases, KnownRows, TrustConfs, TrustFiles
<1>5. TrustFiles' /\ FloorFirst' /\ NeverDowngraded'
  <2>1. receipts' \in [Releases -> Nat] /\ \A r \in Releases : receipts'[r] <= Epoch[r]
    BY <1>1, <1>3, <1>4 DEF TrustFiles
  <2> QED  BY <1>3, <2>1 DEF TrustInv, TrustFiles, FloorFirst, NeverDowngraded
<1>6. TrustGrows
  <2>1. PolMin \in Nat  BY <1>1 DEF PolMin, TrustFiles, PolicyRows
  <2>2. PolMin' = PolMin /\ PolRevoked' = PolRevoked  BY <1>3 DEF PolMin, PolRevoked
  <2> QED  BY <1>3, <1>4, <2>1, <2>2 DEF TrustGrows
<1>7. BothPassed(o, Epoch[o.r])
  <2>1. PolicyPassed(o, Epoch[o.r])  BY <1>1, <1>2 DEF Progress, PolicyPassed
  <2>2. o.r # "k" => Epoch[o.r] >= floor.agent /\ Epoch[o.r] >= o.conf.min
    BY <1>2, <1>4 DEF WriteReceipt, FloorOf, Larger
  <2> QED  BY <1>4, <2>1, <2>2 DEF PolicyPassed, BothPassed
<1>8. Progress(o)  BY <1>1, <1>2, <1>7 DEF Progress, Replacing
<1>9. StillKnown(o)' /\ Progress(o)'
  BY <1>1, <1>2, <1>5, <1>6, <1>8, StartedKnows, StartedProgress
<1>10. p = "agent" => Fitting(o)  BY <1>1, <1>2 DEF Fitting, Replacing
<1> QED  BY <1>1, <1>2, <1>3, <1>5, <1>6, <1>9, <1>10, OtherWaits, TrustMove

LEMMA RecordChecksumStep == ASSUME TrustInv, NEW p \in Procs, recordChecksum(p) PROVE TrustInv'
<1>1. op[p].pc = "plain" /\ op[p] \in OpRows /\ StillKnown(op[p]) /\ Progress(op[p])
      /\ (p = "agent" => Fitting(op[p])) /\ TrustFiles /\ vlock = p /\ op[p].pc \in Locking
  BY DEF TrustInv, recordChecksum, At, Locking
<1>2. PICK o \in OpRows :
        /\ op' = [op EXCEPT ![p] = o] /\ o.pc = "verified" /\ o.r = op[p].r /\ o.conf = op[p].conf
        /\ o.known = op[p].known /\ StillKnown(o)
  BY <1>1, OpStep DEF TrustPcs, recordChecksum
<1>3. UNCHANGED <<gens, clock, conf, agentBin, needs, meta, pol, floor, permitted>> /\ vlock' = None
      /\ receipts' = [receipts EXCEPT ![o.r] = 1]
  BY <1>2 DEF recordChecksum, rest
<1>4. o.r \in Releases /\ Epoch[o.r] \in Nat /\ 1 <= Epoch[o.r] /\ floor.agent \in Nat
  BY <1>1, <1>2, TrustAssumption DEF StillKnown, Releases, TrustFiles
<1>5. TrustFiles' /\ FloorFirst' /\ NeverDowngraded'
  <2>1. receipts' \in [Releases -> Nat] /\ \A r \in Releases : receipts'[r] <= Epoch[r]
    BY <1>1, <1>3, <1>4 DEF TrustFiles
  <2> QED  BY <1>3, <2>1 DEF TrustInv, TrustFiles, FloorFirst, NeverDowngraded
<1>6. TrustGrows
  <2>1. PolMin \in Nat  BY <1>1 DEF PolMin, TrustFiles, PolicyRows
  <2>2. PolMin' = PolMin /\ PolRevoked' = PolRevoked  BY <1>3 DEF PolMin, PolRevoked
  <2> QED  BY <1>3, <1>4, <2>1, <2>2 DEF TrustGrows
<1>7. Progress(o)  BY <1>1, <1>2 DEF Progress, Replacing
<1>8. StillKnown(o)' /\ Progress(o)'
  BY <1>1, <1>2, <1>5, <1>6, <1>7, StartedKnows, StartedProgress
<1>9. (p = "agent" => Fitting(o)) /\ o.pc \notin Locking  BY <1>1, <1>2 DEF Fitting, Replacing, Locking
<1>10. \A q \in Procs \ {p} : vlock = q => vlock' = q  BY <1>1
<1> QED  BY <1>1, <1>2, <1>3, <1>5, <1>6, <1>8, <1>9, <1>10, OtherWaits, TrustMove

LEMMA WriteFloorStep == ASSUME TrustInv, NEW p \in Procs, WriteFloor(p) PROVE TrustInv'
<1>1. op[p].pc = "floor" /\ op[p] \in OpRows /\ StillKnown(op[p]) /\ Progress(op[p])
      /\ (p = "agent" => Fitting(op[p])) /\ TrustFiles /\ vlock = p /\ op[p].pc \in Locking
  BY DEF TrustInv, WriteFloor, At, Locking
<1>2. PICK o \in OpRows :
        /\ op' = [op EXCEPT ![p] = o] /\ o.pc = "verified" /\ o.r = op[p].r /\ o.conf = op[p].conf
        /\ o.known = op[p].known /\ StillKnown(o)
  BY <1>1, OpStep DEF TrustPcs, WriteFloor
<1> DEFINE e == Larger(FloorOf(p), Epoch[o.r])
<1>3. UNCHANGED <<gens, clock, conf, agentBin, needs, meta, pol, receipts>> /\ vlock' = None
      /\ permitted' = permitted \cup {o.r} /\ floor' = [floor EXCEPT ![Component(o.r)] = e]
  BY <1>2 DEF WriteFloor, rest
<1>4. o.r \in Releases /\ Epoch[o.r] \in Nat /\ o.conf.min \in Nat /\ floor \in [{"agent", "controller"} -> Nat]
      /\ Component(o.r) \in {"agent", "controller"}
  BY <1>1, <1>2, TrustAssumption DEF StillKnown, Releases, TrustConfs, TrustFiles, Component
<1>5. e \in Nat /\ e >= Epoch[o.r] /\ e >= floor[Component(o.r)]
  BY <1>2, <1>4 DEF FloorOf, Larger, Component
<1> HIDE DEF e
<1>6. floor' \in [{"agent", "controller"} -> Nat] /\ floor'[Component(o.r)] = e
      /\ \A c \in {"agent", "controller"} : floor'[c] >= floor[c]
  BY <1>3, <1>4, <1>5
<1>7. TrustFiles' /\ NeverDowngraded'
  BY <1>1, <1>3, <1>4, <1>6, TrustAssumption DEF TrustInv, TrustFiles, NeverDowngraded
<1>8. FloorFirst'
  <2> SUFFICES ASSUME NEW r \in permitted' PROVE floor'[Component(r)] >= Epoch[r]  BY DEF FloorFirst
  <2>1. CASE r = o.r  BY <1>5, <1>6, <2>1
  <2>2. CASE r # o.r
    <3>1. r \in permitted /\ r \in Releases  BY <1>1, <1>3, <2>2 DEF TrustFiles
    <3>2. floor[Component(r)] >= Epoch[r]  BY <3>1 DEF TrustInv, FloorFirst
    <3>3. Component(r) \in {"agent", "controller"} /\ Epoch[r] \in Nat
      BY <3>1, TrustAssumption DEF Component, Releases
    <3> QED  BY <1>4, <1>6, <3>2, <3>3
  <2> QED  BY <2>1, <2>2
<1>9. TrustGrows
  <2>1. PolMin \in Nat  BY <1>1 DEF PolMin, TrustFiles, PolicyRows
  <2>2. PolMin' = PolMin /\ PolRevoked' = PolRevoked  BY <1>3 DEF PolMin, PolRevoked
  <2> QED  BY <1>3, <1>6, <2>1, <2>2 DEF TrustGrows
<1>10. Progress(o)  BY <1>1, <1>2 DEF Progress, Replacing, BothPassed
<1>11. StillKnown(o)' /\ Progress(o)'
  BY <1>1, <1>2, <1>7, <1>9, <1>10, StartedKnows, StartedProgress
<1>12. (p = "agent" => Fitting(o)) /\ o.pc \notin Locking  BY <1>1, <1>2 DEF Fitting, Replacing, Locking
<1>13. \A q \in Procs \ {p} : vlock = q => vlock' = q  BY <1>1
<1> QED  BY <1>1, <1>2, <1>3, <1>7, <1>8, <1>9, <1>11, <1>12, <1>13, OtherWaits, TrustMove

(* No process moves. *)
LEMMA TrustWaits ==
  ASSUME TrustInv, TrustFiles', FloorFirst', NeverDowngraded', TrustGrows, UNCHANGED <<op, pol, vlock>>,
         Fitting(op["agent"])'
  PROVE  TrustInv'
<1>1. ASSUME NEW q \in Procs, op'[q].pc # "idle" PROVE StillKnown(op[q])' /\ Progress(op[q])'
  <2>1. PICK n \in OpRows : n = op[q] /\ n = op'[q]  BY DEF TrustInv
  <2>2. StillKnown(n) /\ Progress(n) /\ TrustFiles
    <3>1. StillKnown(op[q]) /\ Progress(op[q]) /\ TrustFiles  BY <1>1 DEF TrustInv
    <3> QED  BY <2>1, <3>1
  <2>3. StillKnown(n)' /\ Progress(n)'
    BY <2>2, StartedKnows, StartedProgress
  <2> QED  BY <2>1, <2>3 DEF StillKnown, Progress, PolicyPassed, BothPassed, Replacing
<1> QED  BY <1>1 DEF TrustInv

LEMMA PublishStep == ASSUME TrustInv, PublishRepository PROVE TrustInv'
<1>1. TrustFiles  BY DEF TrustInv
<1>2. PICK g \in Publications :
        gens' = gens \cup {[ver |-> Cardinality(gens) + 1, exp |-> clock + TrustLife,
                            targets |-> g.targets, revoked |-> g.revoked, min |-> g.min]}
  BY DEF PublishRepository
<1> DEFINE n == [ver |-> Cardinality(gens) + 1, exp |-> clock + TrustLife,
                 targets |-> g.targets, revoked |-> g.revoked, min |-> g.min]
<1>3. UNCHANGED <<clock, conf, vlock, op, agentBin, needs, permitted, meta, pol, floor, receipts>>
  BY DEF PublishRepository, files
<1>4. Cardinality(gens) \in Nat  BY <1>1, FS_CardinalityType DEF TrustFiles
<1>5. n \in GenRows /\ n.ver = Cardinality(gens) + 1
  BY <1>1, <1>4, TrustAssumption DEF GenRows, TrustFiles, Releases
<1> HIDE DEF n
<1>6. n \notin gens  BY <1>1, <1>4, <1>5 DEF TrustFiles
<1>7. gens' = gens \cup {n}  BY <1>2 DEF n
<1>8. IsFiniteSet(gens') /\ Cardinality(gens') = Cardinality(gens) + 1
  BY <1>1, <1>6, <1>7, FS_AddElement DEF TrustFiles
<1>9. TrustFiles'
  <2>1. gens' \subseteq GenRows /\ \A h \in gens' : h.ver \in 1..Cardinality(gens')
    BY <1>1, <1>4, <1>5, <1>7, <1>8 DEF TrustFiles
  <2> QED  BY <1>1, <1>3, <1>4, <1>8, <2>1 DEF TrustFiles
<1>10. TrustGrows
  <2>1. PolMin \in Nat /\ floor.agent \in Nat  BY <1>1 DEF PolMin, TrustFiles, PolicyRows
  <2>2. PolMin' = PolMin /\ PolRevoked' = PolRevoked  BY <1>3 DEF PolMin, PolRevoked
  <2> QED  BY <1>3, <1>7, <2>1, <2>2 DEF TrustGrows
<1>11. FloorFirst' /\ NeverDowngraded' /\ Fitting(op["agent"])'
  BY <1>3 DEF TrustInv, FloorFirst, NeverDowngraded, Fitting
<1> QED  BY <1>3, <1>9, <1>10, <1>11, TrustWaits

LEMMA HostChanges == ASSUME TrustInv, AcceptFeature \/ ConfigureTrust \/ TrustTick PROVE TrustInv'
<1>1. TrustFiles  BY DEF TrustInv
<1>2. UNCHANGED <<gens, vlock, op, agentBin, permitted, meta, pol, floor, receipts>>
  BY DEF AcceptFeature, ConfigureTrust, TrustTick, files
<1>3. TrustGrows
  <2>1. PolMin \in Nat /\ floor.agent \in Nat  BY <1>1 DEF PolMin, TrustFiles, PolicyRows
  <2>2. PolMin' = PolMin /\ PolRevoked' = PolRevoked  BY <1>2 DEF PolMin, PolRevoked
  <2> QED  BY <1>2, <2>1, <2>2 DEF TrustGrows
<1>4. clock' \in Nat /\ conf' \in TrustConfs /\ conf'.openrc = conf.openrc
  <2>1. clock \in Nat /\ conf \in TrustConfs  BY <1>1 DEF TrustFiles
  <2>2. CASE ConfigureTrust
    <3>1. PICK m \in {0, 2} : conf' = [conf EXCEPT !.checksum = FALSE, !.min = m]  BY <2>2 DEF ConfigureTrust
    <3>2. clock' = clock  BY <2>2 DEF ConfigureTrust
    <3>3. conf' = [checksum |-> FALSE, min |-> m, openrc |-> conf.openrc] /\ conf.openrc \in BOOLEAN
      BY <2>1, <3>1 DEF TrustConfs
    <3>4. FALSE \in BOOLEAN /\ m \in Nat  OBVIOUS
    <3>5. conf' \in TrustConfs  BY <3>3, <3>4 DEF TrustConfs
    <3> QED  BY <2>1, <3>2, <3>3, <3>5
  <2>3. CASE AcceptFeature \/ TrustTick
    BY <2>1, <2>3 DEF AcceptFeature, TrustTick
  <2> QED  BY <2>2, <2>3
<1>5. TrustFiles' /\ FloorFirst'
  BY <1>1, <1>2, <1>4 DEF TrustInv, TrustFiles, FloorFirst
<1>6. NeverDowngraded' /\ Fitting(op["agent"])'
  <2>1. CASE AcceptFeature
    <3>1. PICK f \in Provides[agentBin] \ needs : needs' = needs \cup {f}  BY <2>1 DEF AcceptFeature
    <3>2. NeverDowngraded'  BY <1>2, <1>4, <3>1 DEF TrustInv, NeverDowngraded
    <3>3. ~conf.openrc => op["agent"].pc \notin Replacing
      BY <2>1 DEF AcceptFeature, ConfigurationFree, At, Replacing
    <3> QED  BY <1>2, <1>4, <3>2, <3>3 DEF TrustInv, Fitting
  <2>2. CASE ConfigureTrust \/ TrustTick
    <3>1. needs' = needs  BY <2>2 DEF ConfigureTrust, TrustTick
    <3> QED  BY <1>2, <1>4, <3>1 DEF TrustInv, NeverDowngraded, Fitting
  <2> QED  BY <2>1, <2>2
<1> QED  BY <1>2, <1>3, <1>5, <1>6, TrustWaits

LEMMA TrustStarts == TrustInit => TrustInv
<1> SUFFICES ASSUME TrustInit PROVE TrustInv  OBVIOUS
<1>1. op \in [Procs -> OpRows] /\ \A p \in Procs : op[p].pc = "idle"
  BY NoOpRow DEF TrustInit
<1>2. TrustFiles
  <2>1. IsFiniteSet(gens) /\ Cardinality(gens) = 0  BY FS_EmptySet DEF TrustInit
  <2>2. conf \in TrustConfs /\ pol = None /\ vlock = None /\ meta = 0 /\ clock = 0 /\ gens = {} /\ permitted = {}
    BY DEF TrustInit, TrustConfs
  <2>3. floor \in [{"agent", "controller"} -> Nat] /\ receipts \in [Releases -> Nat]
        /\ \A r \in Releases : receipts[r] <= Epoch[r]
    BY TrustAssumption DEF TrustInit, Releases
  <2>4. agentBin \in AgentReleases
    BY TrustAssumption DEF TrustInit, AgentReleases, Releases
  <2> QED  BY <2>1, <2>2, <2>3, <2>4 DEF TrustFiles
<1>3. FloorFirst /\ NeverDowngraded  BY DEF TrustInit, FloorFirst, NeverDowngraded
<1>4. Fitting(op["agent"]) /\ \A p \in Procs : op[p].pc \notin Locking
  BY <1>1 DEF Fitting, Replacing, Locking, Procs
<1> QED  BY <1>1, <1>2, <1>3, <1>4 DEF TrustInv

LEMMA TrustSteps == ASSUME TrustInv, TrustNext PROVE TrustInv'
<1>1. CASE CommitBinary \/ BeginRecovery \/ PrepareRecovery \/ VerifyRollback
  <2>1. "agent" \in Procs  BY DEF Procs
  <2> QED  BY <1>1, <2>1, TrustEnds, BeginRecoveryStep, ControllerBegins
<1>2. CASE PublishRepository \/ AcceptFeature \/ ConfigureTrust \/ TrustTick
  BY <1>2, PublishStep, HostChanges
<1>3. ASSUME NEW p \in Procs,
             \/ VerifyReader(p) \/ Refresh(p) \/ acceptReleasePolicy(p) \/ CheckTarget(p) \/ recordArchive(p)
             \/ WriteReceipt(p) \/ WriteFloor(p) \/ verifyChecksum(p) \/ recordChecksum(p) \/ Fails(p)
      PROVE  TrustInv'
  BY <1>3, VerifyReaderStep, RefreshStep, AcceptPolicyStep, CheckTargetStep, RecordArchiveStep,
     WriteReceiptStep, WriteFloorStep, ChecksumStep, RecordChecksumStep, FailsStep
<1>4. ASSUME NEW p \in Procs,
             \/ VerifyDone(p) \/ ReadReceipt(p) \/ ReadPolicy(p) \/ ReadFloor(p) \/ ReadSequence(p)
             \/ CheckBytes(p) \/ SwitchBinary(p) \/ Healthy(p) \/ CheckRecovery(p) \/ RestoreBinary(p)
      PROVE  TrustInv'
  BY <1>4, TrustEnds, ReadReceiptStep, ReadPolicyStep, ReadFloorStep, ReadSequenceStep, CheckBytesStep,
     SwitchBinaryStep, CheckRecoveryStep
<1> QED  BY <1>1, <1>2, <1>3, <1>4 DEF TrustNext

LEMMA TrustStutters == ASSUME TrustInv, UNCHANGED trustVars PROVE TrustInv'
<1>1. UNCHANGED <<gens, clock, conf, meta, pol, floor, receipts, vlock, op, agentBin, needs, permitted>>
  BY DEF trustVars
<1>2. TrustFiles' /\ FloorFirst' /\ NeverDowngraded' /\ Fitting(op["agent"])'
  BY <1>1 DEF TrustInv, TrustFiles, FloorFirst, NeverDowngraded, Fitting
<1>3. TrustGrows
  <2>1. PolMin \in Nat /\ floor.agent \in Nat  BY DEF PolMin, TrustInv, TrustFiles, PolicyRows
  <2>2. PolMin' = PolMin /\ PolRevoked' = PolRevoked  BY <1>1 DEF PolMin, PolRevoked
  <2> QED  BY <1>1, <2>1, <2>2 DEF TrustGrows
<1> QED  BY <1>1, <1>2, <1>3, TrustWaits

LEMMA TrustHolds == ASSUME TrustInv PROVE TrustState
<1>1. TrustTypeOK  BY DEF TrustInv, TrustFiles, TrustTypeOK
<1>2. AllowedWhenBegun
  <2> SUFFICES ASSUME NEW p \in Procs, Permitted(p)
               PROVE  op[p].r \notin op[p].known.revoked /\ (op[p].r # "k" => Epoch[op[p].r] >= op[p].known.min)
    BY DEF AllowedWhenBegun
  <2>1. StillKnown(op[p]) /\ Progress(op[p])  BY DEF TrustInv, Permitted
  <2>2. BothPassed(op[p], Epoch[op[p].r])  BY <2>1 DEF Progress, Permitted
  <2>3. op[p].known.min \in Nat /\ Epoch[op[p].r] \in Nat
    BY <2>1, TrustAssumption DEF StillKnown, KnownRows, Releases
  <2> QED  BY <2>2, <2>3 DEF BothPassed
<1> QED  BY <1>1, <1>2 DEF TrustState, TrustInv

(* No step forgets. *)
LEMMA TrustRemembers == ASSUME TrustInv, TrustNext PROVE NeverForgets
<1>1. TrustFiles /\ meta \in Nat /\ floor \in [{"agent", "controller"} -> Nat] /\ (pol # None => pol \in PolicyRows)
      /\ op \in [Procs -> OpRows]
  <2>1. Cardinality(gens) \in Nat  BY FS_CardinalityType DEF TrustInv, TrustFiles
  <2> QED  BY <2>1 DEF TrustInv, TrustFiles
<1>2. CASE UNCHANGED <<meta, pol, floor>>
  BY <1>1, <1>2 DEF NeverForgets, PolicyRows
<1>3. ASSUME NEW p \in Procs, Refresh(p) PROVE NeverForgets
  <2>1. meta' >= meta /\ UNCHANGED <<pol, floor>>  BY <1>3 DEF Refresh
  <2> QED  BY <1>1, <2>1 DEF NeverForgets, PolicyRows
<1>4. ASSUME NEW p \in Procs, acceptReleasePolicy(p) PROVE NeverForgets
  <2>1. op[p].gen \in GenRows
    BY <1>4 DEF acceptReleasePolicy, At, TrustInv, Progress, TrustFiles
  <2>2. pol' = PolicyOfGen(op[p].gen) /\ (pol # None => Supersedes(pol, pol')) /\ UNCHANGED <<meta, floor>>
    BY <1>4 DEF acceptReleasePolicy
  <2>3. pol' # None
    BY <2>1, <2>2, TrustAssumption DEF PolicyOfGen, PolicyRows, GenRows, Releases
  <2>4. pol # None => pol'.seq >= pol.seq /\ pol'.min >= pol.min /\ pol.revoked \subseteq pol'.revoked
    BY <2>2 DEF Supersedes
  <2> QED  BY <1>1, <2>2, <2>3, <2>4 DEF NeverForgets
<1>5. ASSUME NEW p \in Procs, WriteFloor(p) PROVE NeverForgets
  <2>1. StillKnown(op[p])  BY <1>5 DEF WriteFloor, At, TrustInv
  <2>2. Epoch[op[p].r] \in Nat /\ op[p].conf.min \in Nat
    BY <2>1, TrustAssumption DEF StillKnown, Releases, TrustConfs
  <2> DEFINE e == Larger(FloorOf(p), Epoch[op[p].r])
  <2>3. e \in Nat /\ e >= floor[Component(op[p].r)] /\ Component(op[p].r) \in {"agent", "controller"}
    BY <1>1, <2>2 DEF FloorOf, Larger, Component
  <2>4. floor' = [floor EXCEPT ![Component(op[p].r)] = e] /\ UNCHANGED <<meta, pol>>  BY <1>5 DEF WriteFloor
  <2> HIDE DEF e
  <2>5. \A c \in DOMAIN floor : floor'[c] >= floor[c]  BY <1>1, <2>3, <2>4
  <2> QED  BY <1>1, <2>4, <2>5 DEF NeverForgets, PolicyRows
<1> QED
  <2>1. CASE \E p \in Procs : Refresh(p) \/ acceptReleasePolicy(p) \/ WriteFloor(p)
    BY <1>3, <1>4, <1>5, <2>1
  <2>2. CASE \E p \in Procs :
               \/ VerifyReader(p) \/ CheckTarget(p) \/ recordArchive(p) \/ WriteReceipt(p) \/ verifyChecksum(p)
               \/ recordChecksum(p) \/ Fails(p) \/ VerifyDone(p) \/ ReadReceipt(p) \/ ReadPolicy(p)
               \/ ReadFloor(p) \/ ReadSequence(p) \/ CheckBytes(p) \/ SwitchBinary(p) \/ Healthy(p)
               \/ CheckRecovery(p) \/ RestoreBinary(p)
    BY <1>2, <2>2 DEF files, VerifyReader, Begin, CheckTarget, recordArchive, WriteReceipt, verifyChecksum,
       recordChecksum, Fails, VerifyDone, ReadReceipt, ReadPolicy, ReadFloor, ReadSequence, CheckBytes,
       SwitchBinary, Healthy, CheckRecovery, RestoreBinary
  <2>3. CASE PublishRepository \/ CommitBinary \/ BeginRecovery \/ PrepareRecovery \/ VerifyRollback
             \/ AcceptFeature \/ ConfigureTrust \/ TrustTick
    BY <1>2, <2>3 DEF files, PublishRepository, CommitBinary, BeginRecovery, PrepareRecovery, VerifyRollback,
       Begin, AcceptFeature, ConfigureTrust, TrustTick
  <2> QED  BY <2>1, <2>2, <2>3 DEF TrustNext

LEMMA TrustMoves == ASSUME SvcNext PROVE TrustNext \/ UNCHANGED trustVars
  BY DEF SvcNext, InSub, InAccess, InFleet, InImports, InSup, InMeter, InNat, InServing, TrustNext

(* The inductive invariant of release trust: what an operation knew when it began is still  *)
(* known to the host, and how far it has come says which checks its release has passed      *)
(* (secureupdate/verify.go, recovery.go).                                                   *)
THEOREM TrustInvariance == SvcSpec => []TrustInv
<1>1. SvcInit => TrustInv
  BY TrustStarts DEF SvcInit
<1>2. TrustInv /\ [SvcNext]_svcVars => TrustInv'
  BY TrustMoves, TrustSteps, TrustStutters DEF svcVars
<1> QED  BY <1>1, <1>2, PTL DEF SvcSpec

(* For all releases, epochs, publications and interleavings: no step of an update, a        *)
(* rollback, a recovery or a crash forgets metadata, policy or floor, and what passes its   *)
(* checks was allowed by all the host knew when the operation began.                        *)
THEOREM TrustIsSafe == SvcSpec => TrustSafe
<1>1. TrustInv /\ [SvcNext]_svcVars => [NeverForgets]_trustVars
  BY TrustMoves, TrustRemembers DEF svcVars
<1>2. TrustInv => TrustState
  BY TrustHolds
<1> QED  BY <1>1, <1>2, TrustInvariance, PTL DEF SvcSpec, TrustSafe

-----------------------------------------------------------------------------
(* Servers are moved by their own steps only. *)
LEMMA FleetMoves == ASSUME SvcNext PROVE FleetNext \/ UNCHANGED fleetVars
  BY DEF SvcNext, InSub, InAccess, InTrust, InImports, InSup, InMeter, InNat, InServing, FleetNext

(* Beside the other services a server behaves as it does alone, so what ControllerProofs    *)
(* proves of FleetSpec holds of every behaviour of the composed specification.              *)
THEOREM ServersRunAlone == SvcSpec => FleetSpec
<1>1. SvcInit => FleetInit
  BY DEF SvcInit
<1>2. [SvcNext]_svcVars => [FleetNext]_fleetVars
  BY FleetMoves DEF svcVars
<1> QED  BY <1>1, <1>2, PTL DEF SvcSpec, FleetSpec
=============================================================================
