------------------------------ MODULE Serving ------------------------------
(***************************************************************************)
(* What a subscription link answers (internal/api/public,                  *)
(* internal/subscription/service, internal/api/subscriptions).  A request  *)
(* finds the subscription by its token and then reads the share, the nodes *)
(* and the receipts one after the other, in no common transaction, while   *)
(* administrators edit the rows and the agent's receipts arrive.           *)
(*                                                                         *)
(* "gen" is a generated subscription with every general node, "share" the  *)
(* one of the share.  "d" is a general node, "s" the share's own, "v" a    *)
(* virtual node that chains "d" in front of "s".  A receipt is the         *)
(* credentials it acknowledges, 0 for none or a fence.  Formats, groups,   *)
(* rules, bans, rate limits and access routes are left out.                *)
(***************************************************************************)
EXTENDS Naturals, Sequences

CONSTANTS Nothing, ServeBounds

Links == {"gen", "share"}
Dials == {"d", "s"}          \* nodes with credentials of their own
Origin(n) == IF n = "v" THEN "s" ELSE n

VARIABLES
  link,     \* subscriptions: token and enabled
  edits,    \* edits of one between the read of its row and the write
  cat,      \* nodes: credentials and enabled
  acked,    \* node_applied_states: the acknowledged credentials
  share,    \* status, used: its quota is used up
  overLimit,    \* the traffic limit of "gen" is reached
  expired,  \* the links whose expire_at is over
  shareOp,  \* Revoke or Reissue of the share: the steps left, the link's row once read
  req,      \* the request that is served, or Nothing
  fresh,    \* the next token
  lost,     \* history: tokens that were rotated away
  raced,    \* history: the links written while another edit held a row read earlier
  vleft     \* bounds

serveVars == <<link, edits, cat, acked, share, overLimit, expired, shareOp, req, fresh, lost, raced, vleft>>

ServeInit ==
  /\ link = [k \in Links |-> [tok |-> IF k = "gen" THEN 1 ELSE 2, on |-> TRUE]]
  /\ fresh = 3 /\ edits = {} /\ lost = {} /\ raced = {}
  /\ cat = [n \in Dials \cup {"v"} |-> [cred |-> 1, on |-> TRUE]]
  /\ acked = [n \in Dials |-> 1]
  /\ share = [status |-> "active", used |-> FALSE] /\ overLimit = FALSE /\ expired = {}
  /\ shareOp = [todo |-> << >>, row |-> Nothing] /\ req = Nothing /\ vleft \in ServeBounds

ServeSpend(k) == vleft[k] > 0 /\ vleft' = [vleft EXCEPT ![k] = @ - 1]

(* What the authorities allow at one moment. *)
ShareOpen(sh) == sh.status = "active" /\ ~ sh.used
Allowed(c, a, sh, sp) ==
  [rows |-> {<<n, c[n].cred>> : n \in {m \in Dials : c[m].on}}, chain |-> c["v"].on,
   receipts |-> {<<n, a[n]>> : n \in Dials}, share |-> ShareOpen(sh), quota |-> ~ sp]

(* History: what was allowed at any time since the request began. *)
Noted ==
  LET now == Allowed(cat', acked', share', overLimit') IN
  req' = IF req = Nothing \/ req.ph = "done" THEN req
         ELSE [req EXCEPT !.may = [rows |-> @.rows \cup now.rows, chain |-> @.chain \/ now.chain,
                                   receipts |-> @.receipts \cup now.receipts,
                                   share |-> @.share \/ now.share, quota |-> @.quota \/ now.quota]]
-----------------------------------------------------------------------------
(* Administrators, the share manager and the agents. *)

keepLinks == UNCHANGED <<link, edits, fresh, lost, raced>>

(* updateSubscription and rotateSubscriptionToken read the row ... *)
BeginLinkEdit(k) ==
  /\ ServeSpend("link") /\ edits' = edits \cup {[k |-> k, read |-> link[k], n |-> vleft["link"]]}
  /\ UNCHANGED <<link, cat, acked, share, overLimit, expired, shareOp, fresh, lost, raced>> /\ Noted

(* ... and write all of it. *)
WriteLink(k, new) ==
  /\ link' = [link EXCEPT ![k] = new]
  /\ lost' = IF new.tok = fresh THEN lost \cup {link[k].tok} ELSE lost
  /\ fresh' = IF new.tok = fresh THEN fresh + 1 ELSE fresh
  /\ raced' = IF (\E e \in edits' : e.k = k) \/ (k = "share" /\ shareOp'.row # Nothing) THEN raced \cup {k} ELSE raced

UpdateSubscription(e) ==
  /\ edits' = edits \ {e} /\ UNCHANGED shareOp
  /\ \E on \in BOOLEAN : WriteLink(e.k, [e.read EXCEPT !.on = on])
  /\ UNCHANGED <<cat, acked, share, overLimit, expired, vleft>> /\ Noted

RotateSubscriptionToken(e) ==
  /\ edits' = edits \ {e} /\ UNCHANGED shareOp
  /\ WriteLink(e.k, [e.read EXCEPT !.tok = fresh])
  /\ UNCHANGED <<cat, acked, share, overLimit, expired, vleft>> /\ Noted

(* Manager.Revoke and Manager.Reissue, write by write. *)
Revoking  == <<"nodes off", "revoked", "read link", "link off">>
Reissuing == <<"nodes new", "read link", "link new", "active">>

ShareOpSteps == {Revoking[i] : i \in 1 .. 4} \cup {Reissuing[i] : i \in 1 .. 4}

BeginShareOp(steps) ==
  /\ shareOp.todo = << >> /\ ServeSpend("share") /\ shareOp' = [shareOp EXCEPT !.todo = steps]
  /\ keepLinks /\ UNCHANGED <<cat, acked, share, overLimit, expired>> /\ Noted

ShareOpNodes(step) ==
  /\ cat' = [cat EXCEPT !["s"] = IF step = "nodes off" THEN [@ EXCEPT !.on = FALSE] ELSE [cred |-> @.cred + 1, on |-> TRUE]]
  /\ keepLinks /\ UNCHANGED share

ShareOpStatus(step) ==
  /\ share' = [share EXCEPT !.status = step]
  /\ keepLinks /\ UNCHANGED cat

ShareOpLink(step) ==
  /\ UNCHANGED <<edits, cat, share>>
  /\ WriteLink("share", IF step = "link off" THEN [shareOp.row EXCEPT !.on = FALSE] ELSE [tok |-> fresh, on |-> TRUE])

ShareOpStep(step) ==
  /\ shareOp.todo # << >> /\ step = Head(shareOp.todo)
  /\ shareOp' = [todo |-> Tail(shareOp.todo), row |-> IF step = "read link" THEN link["share"] ELSE Nothing]
  /\ CASE step \in {"nodes off", "nodes new"} -> ShareOpNodes(step)
       [] step \in {"revoked", "active"}      -> ShareOpStatus(step)
       [] step \in {"link off", "link new"}   -> ShareOpLink(step)
       [] OTHER                                -> keepLinks /\ UNCHANGED <<cat, share>>
  /\ UNCHANGED <<acked, overLimit, expired, vleft>> /\ Noted

(* Pause, Resume, usage that reaches the quota, a reset. *)
ShareChanges ==
  /\ share.status # "revoked" /\ ServeSpend("share")
  /\ share' \in {[share EXCEPT !.status = IF @ = "active" THEN "paused" ELSE "active"], [share EXCEPT !.used = ~ @]}
  /\ keepLinks /\ UNCHANGED <<cat, acked, overLimit, expired, shareOp>> /\ Noted

LimitChanges ==
  /\ ServeSpend("share") /\ overLimit' = ~ overLimit
  /\ keepLinks /\ UNCHANGED <<cat, acked, share, expired, shareOp>> /\ Noted

LinkExpires(k) ==
  /\ k \notin expired /\ ServeSpend("share") /\ expired' = expired \cup {k}
  /\ keepLinks /\ UNCHANGED <<cat, acked, share, overLimit, shareOp>> /\ Noted

EditNode(n) ==
  /\ ServeSpend("node") /\ cat' = [cat EXCEPT ![n].on = ~ @]
  /\ keepLinks /\ UNCHANGED <<acked, share, overLimit, expired, shareOp>> /\ Noted

NewCredentials(n) ==
  /\ ServeSpend("node") /\ cat' = [cat EXCEPT ![n].cred = @ + 1]
  /\ keepLinks /\ UNCHANGED <<acked, share, overLimit, expired, shareOp>> /\ Noted

Receipt(n) ==
  /\ ServeSpend("receipt") /\ acked' \in {[acked EXCEPT ![n] = c] : c \in {0, cat[n].cred} \ {acked[n]}}
  /\ keepLinks /\ UNCHANGED <<cat, share, overLimit, expired, shareOp>> /\ Noted
-----------------------------------------------------------------------------
(* The request. *)

keepWorld == UNCHANGED <<link, edits, cat, acked, share, overLimit, expired, shareOp, fresh, lost, raced>>
ReqAt(ph) == req # Nothing /\ req.ph = ph
Go(ph) == req' = [req EXCEPT !.ph = ph]

(* serve: the token finds the row. *)
Serve(k) ==
  /\ req # Nothing => req.ph = "done"
  /\ ServeSpend("fetch")
  /\ req' = [k |-> k, on |-> link[k].on, ph |-> "admit", rows |-> << >>, todo |-> {},
             ok |-> {}, cur |-> Nothing, tried |-> {}, may |-> Allowed(cat, acked, share, overLimit)]
  /\ keepWorld

(* serveSub: the row that was read, the clock, and a share that is revoked. *)
ServeSub ==
  /\ ReqAt("admit")
  /\ IF ~ req.on \/ req.k \in expired \/ (req.k = "share" /\ share.status = "revoked") THEN Go("done") ELSE Go("build")
  /\ keepWorld /\ UNCHANGED vleft

(* Build of a share subscription reads the share again. *)
BuildShare ==
  /\ ReqAt("build") /\ Go(IF req.k = "share" /\ ~ ShareOpen(share) THEN "done" ELSE "list")
  /\ keepWorld /\ UNCHANGED vleft

(* SelectNodes, and the nodes of the share; the filters of ListNodes. *)
SelectAll(c) == {n \in DOMAIN c : c[n].on}
SelectNodes(c) == {n \in DOMAIN c : c[n].on /\ n # "s"}

ListNodes ==
  LET chosen == IF req.k = "gen" THEN SelectNodes(cat) ELSE {n \in {"s"} : cat[n].on} IN
  /\ ReqAt("list")
  /\ req' = [req EXCEPT !.ph = IF req.k = "gen" THEN "quota" ELSE "node",
             !.rows = [n \in chosen |-> cat[n]], !.todo = chosen]
  /\ keepWorld /\ UNCHANGED vleft

(* subscriptionUserinfo: nothing is shown once the limit is reached. *)
CheckQuota ==
  /\ ReqAt("quota") /\ Go(IF overLimit THEN "done" ELSE "node")
  /\ keepWorld /\ UNCHANGED vleft

(* subscriptionNode of the next one; of a chain, its landing is read now. *)
Project(n, row) ==
  [req EXCEPT !.ph = IF Origin(n) = "s" THEN "share" ELSE "receipt", !.cur = [n |-> n, row |-> row], !.todo = @ \ {n}]

NextNode(n) ==
  /\ ReqAt("node") /\ n \in req.todo
  /\ req' = Project(n, IF n = "v" THEN cat["s"] ELSE req.rows[n])
  /\ keepWorld /\ UNCHANGED vleft

ShareOfNode ==
  /\ ReqAt("share")
  /\ req' = [req EXCEPT !.ph = IF ShareOpen(share) THEN "receipt" ELSE "node"]
  /\ keepWorld /\ UNCHANGED vleft

(* appliedSubscriptionNode: the row that was read and the receipt of now. *)
AppliedNode ==
  LET n == req.cur.n
      shown == req.cur.row.on /\ acked[Origin(n)] = req.cur.row.cred IN
  /\ ReqAt("receipt")
  /\ req' = [req EXCEPT !.ph = "node", !.ok = IF shown THEN @ \cup {<<n, acked[Origin(n)]>>} ELSE @]
  /\ keepWorld /\ UNCHANGED vleft

Has(n) == \E x \in req.ok : x[1] = n

(* appendChain: a front or a chain that was not shown is read once more. *)
AppendChain(n) ==
  /\ ReqAt("node") /\ req.todo = {} /\ "v" \in DOMAIN req.rows
  /\ n = (IF Has("d") THEN "v" ELSE "d") /\ ~ Has(n) /\ n \notin req.tried
  /\ req' = IF cat[n].on THEN [Project(n, cat[Origin(n)]) EXCEPT !.tried = @ \cup {n}]
            ELSE [req EXCEPT !.tried = @ \cup {n}]
  /\ keepWorld /\ UNCHANGED vleft

(* Without its front a chain is not shown. *)
Respond ==
  /\ ReqAt("node") /\ req.todo = {}
  /\ "v" \in DOMAIN req.rows => \/ Has("d") /\ (Has("v") \/ "v" \in req.tried)
                                \/ ~ Has("d") /\ "d" \in req.tried
  /\ req' = [req EXCEPT !.ph = "done", !.ok = IF Has("d") THEN @ ELSE {x \in @ : x[1] # "v"}]
  /\ keepWorld /\ UNCHANGED vleft

ServeNext ==
  \/ \E k \in Links : BeginLinkEdit(k) \/ LinkExpires(k) \/ Serve(k)
  \/ \E e \in edits : UpdateSubscription(e) \/ RotateSubscriptionToken(e)
  \/ \E steps \in {Revoking, Reissuing} : BeginShareOp(steps)
  \/ \E step \in ShareOpSteps : ShareOpStep(step)
  \/ ShareChanges \/ LimitChanges
  \/ \E n \in Dials \cup {"v"} : EditNode(n) \/ NextNode(n) \/ AppendChain(n)
  \/ \E n \in Dials : NewCredentials(n) \/ Receipt(n)
  \/ ServeSub \/ BuildShare \/ ListNodes \/ CheckQuota \/ ShareOfNode \/ AppliedNode \/ Respond
-----------------------------------------------------------------------------
(* Nothing is no row of a subscription. *)
ASSUME ServingAssumption == Nothing \notin [tok : Nat, on : BOOLEAN]

(* "Current authority always wins over an old successful receipt"
   (node_application.go): although the rows are read one by one, each
   credential in an answer was that of an enabled node, and acknowledged by
   its host, at some time since the request began; the share's were shown only
   if the share was usable since then, a general subscription's only below its
   limit; the share's inbound itself is never in a general subscription. *)
AnswerIsAuthorised ==
  req # Nothing /\ req.ph = "done" =>
    \A x \in req.ok : LET o == Origin(x[1]) IN
      /\ <<o, x[2]>> \in req.may.rows \cap req.may.receipts
      /\ x[1] = "v" => req.may.chain /\ \E y \in req.ok : y[1] = "d"
      /\ o = "s" => req.may.share
      /\ req.k = "gen" => x[1] # "s" /\ req.may.quota

(* A token that was rotated away finds no subscription again, unless an edit
   that read the row before the rotation wrote it back
   (updateSubscription, rotateSubscriptionToken, Reissue). *)
RotatedTokenIsDead == \A k \in Links : link[k].tok \in lost => k \in raced

(* Both of a subscription link: what it answers and which token finds it. *)
ServingSafe == AnswerIsAuthorised /\ RotatedTokenIsDead
=============================================================================
