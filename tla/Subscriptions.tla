--------------------------- MODULE Subscriptions ---------------------------
(* Application receipts and what a subscription may show.

   The controller keeps, per node, the newest receipt of the agent together
   with the snapshot of the node that was captured when the revision was
   published.  A subscription shows a node only while that snapshot is still
   what the tables say.  Reports are repeated, delayed and overtaken; rows are
   edited while they are on their way; the agent crashes, fails to save, or is
   installed anew.

   "a" and "b" are deployed nodes of one server, each with a core of its own;
   "b" belongs to a share; "c" is a node deployed later at the endpoint of "a".
   The chain is a virtual node in front of "a" or "c". *)
EXTENDS Integers, Sequences, FiniteSets, Outbox

CONSTANT SubBounds \* bounds to start from: edits, passes, messages, crashes,
                   \* failed saves, reinstallations

DNodes == {"a", "b", "c"}

VARIABLES
  row,      \* nodes: None or credentials and enabled
  draft,    \* an edit of a node between its read and its write
  sharing,  \* the share of "b" is active
  chain,    \* node_chain_origins: None or the landing (None: lost)
  unsent,   \* the rows changed since the last publication
  docs,     \* desired_states with node_application_candidates
  mem,      \* the agent's state (renewed: by a new installation; torn: receipts
            \* were saved and the result of their pass was not) ...
  disk,     \* ... and its saved copy
  ran,      \* history: node -> credentials its core was started with
  whole,    \* history: revisions applied as a whole
  net,      \* reports that may still arrive
  applied,  \* node_applied_states
  arow,     \* agents: applied_revision, apply_error
  newest,   \* history: newest statement about a node that was accepted
  subleft

subVars == <<row, draft, sharing, chain, unsent, docs, mem, disk, ran, whole, net,
             applied, arow, newest, subleft>>

NodeRows    == [cred : Nat, on : BOOLEAN]
AppliedRows == [rev : Nat, seq : Nat, status : {"failed", "blocked", "applied"}, cred : Nat]
NewestRows  == [at : Nat, rev : Nat, status : {"failed", "blocked", "applied"}, cred : Nat]
ASSUME SubAssumption == None \notin NodeRows \cup AppliedRows \cup NewestRows \cup DNodes

SubUse(k) == subleft[k] > 0 /\ subleft' = [subleft EXCEPT ![k] = @ - 1]
Live      == {n \in DNodes : row[n] # None}

(* The document: disabled nodes and those of an inactive share are blocked. *)
NodeSpecs == [n \in Live |-> [cred |-> row[n].cred,
                              blocked |-> ~row[n].on \/ (n = "b" /\ ~sharing)]]

FreshState == [rev |-> 0, seq |-> 0, apps |-> <<>>, applied |-> 0, status |-> "pending", at |-> 0,
               pass |-> 0, renewed |-> FALSE, torn |-> FALSE]

(* A host that was just enrolled, or one that has applied its first revision
   and has not reported it yet. *)
SubInit ==
  /\ row = [n \in DNodes |-> IF n = "c" THEN None ELSE [cred |-> 1, on |-> TRUE]]
  /\ draft = None /\ sharing = TRUE /\ chain = None
  /\ \/ unsent = TRUE /\ docs = <<>> /\ mem = FreshState /\ ran = [n \in DNodes |-> {}] /\ whole = {}
     \/ /\ unsent = FALSE /\ docs = <<NodeSpecs>>
        /\ mem = [FreshState EXCEPT !.rev = 1, !.seq = 1, !.apps = [n \in Live |-> "applied"], !.applied = 1,
                                     !.status = "applied", !.at = 1]
        /\ ran = [n \in DNodes |-> IF n \in Live THEN {1} ELSE {}] /\ whole = {1}
  /\ disk = mem /\ net = {}
  /\ applied = [n \in DNodes |-> None] /\ arow = [rev |-> 0, err |-> FALSE]
  /\ newest = [n \in DNodes |-> None]
  /\ subleft \in SubBounds
-----------------------------------------------------------------------------
(* UpdateNodeCredentials: the credentials alone, and those of virtual copies
   with them (the chain reads its landing's projection). *)
RegenerateNode(n) ==
  /\ SubUse("edit") /\ row[n] # None
  /\ row' = [row EXCEPT ![n].cred = @ + 1] /\ unsent' = TRUE
  /\ UNCHANGED <<draft, sharing, chain, docs, mem, disk, ran, whole, net, applied, arow, newest>>

(* updateNode reads the node ... *)
BeginUpdate(n) ==
  /\ SubUse("edit") /\ draft = None /\ row[n] # None
  /\ draft' = [node |-> n, read |-> row[n]]
  /\ UNCHANGED <<row, sharing, chain, unsent, docs, mem, disk, ran, whole, net, applied, arow, newest>>

(* ... and writes the whole row back, credentials included; the triggers see
   what changed. *)
CommitUpdate ==
  /\ draft # None /\ draft' = None
  /\ \E on \in BOOLEAN :
       LET new == [draft.read EXCEPT !.on = on]
       IN  IF row[draft.node] = None \/ row[draft.node] = new THEN UNCHANGED <<row, unsent>>
           ELSE row' = [row EXCEPT ![draft.node] = new] /\ unsent' = TRUE
  /\ UNCHANGED <<sharing, chain, docs, mem, disk, ran, whole, net, applied, arow, newest, subleft>>

(* DeleteNode: receipts go with the node, a chain loses its landing for good.
   A node of a share is managed by the share. *)
DeleteNode ==
  /\ SubUse("edit")
  /\ \E n \in {"a", "c"} :
       /\ row[n] # None /\ row' = [row EXCEPT ![n] = None]
       /\ applied' = [applied EXCEPT ![n] = None] /\ newest' = [newest EXCEPT ![n] = None]
       /\ chain' = IF chain # None /\ chain.landing = n THEN [landing |-> None] ELSE chain
  /\ unsent' = TRUE
  /\ UNCHANGED <<draft, sharing, docs, mem, disk, ran, whole, net, arow>>

(* A node that was deleted never comes back: its id is not used again. *)
DeployReplacement ==
  /\ SubUse("edit") /\ row["a"] = None /\ row["c"] = None
  /\ \A i \in DOMAIN docs : "c" \notin DOMAIN docs[i]
  /\ row' = [row EXCEPT !["c"] = [cred |-> 1, on |-> TRUE]] /\ unsent' = TRUE
  /\ UNCHANGED <<draft, sharing, chain, docs, mem, disk, ran, whole, net, applied, arow, newest>>

(* setNodeChain finds an existing chain by its endpoint and keeps it, also
   when it has lost its landing; otherwise CreateChainNode records the
   landing's identity.  Without a front the chains of the endpoint go. *)
SetNodeChain(n) ==
  /\ SubUse("edit") /\ row[n] # None
  /\ \/ chain = None /\ chain' = [landing |-> n]
     \/ chain # None /\ chain' = None
  /\ UNCHANGED <<row, draft, sharing, unsent, docs, mem, disk, ran, whole, net, applied, arow, newest>>

ShareSwitch ==
  /\ SubUse("edit") /\ sharing' = ~sharing /\ unsent' = TRUE
  /\ UNCHANGED <<row, draft, chain, docs, mem, disk, ran, whole, net, applied, arow, newest>>

(* PublishDesired with captureNodeCandidates in its transaction. *)
SubPublish ==
  /\ unsent /\ unsent' = FALSE
  /\ docs' = IF docs # <<>> /\ docs[Len(docs)] = NodeSpecs THEN docs ELSE Append(docs, NodeSpecs)
  /\ UNCHANGED <<row, draft, sharing, chain, mem, disk, ran, whole, net, applied, arow, newest, subleft>>
-----------------------------------------------------------------------------
(* finishNodeApplications: a core that was not attempted gives no receipt and
   keeps running what it ran; the others are finalised first. *)
Receipts(doc, out) ==
  [n \in {m \in DOMAIN doc : out[m] # "pending"} |->
     IF out[n] = "failed" THEN "failed" ELSE IF doc[n].blocked THEN "blocked" ELSE "applied"]
Outcome(out) ==
  IF \E n \in DOMAIN out : out[n] = "failed" THEN "failed"
  ELSE IF \E n \in DOMAIN out : out[n] = "pending" THEN "pending" ELSE "applied"

(* The receipts of a pass, if any core was attempted, and then its result; the
   next report is about this pass. *)
Receipted(out) ==
  LET apps == Receipts(docs[Len(docs)], out)
  IN  IF apps = <<>> THEN mem
      ELSE [mem EXCEPT !.rev = Len(docs), !.seq = @ + 1, !.apps = apps, !.at = @ + 1]
AfterPass(out) ==
  LET done == [Receipted(out) EXCEPT !.status = Outcome(out), !.pass = Len(docs)]
  IN  IF Outcome(out) = "applied" THEN [done EXCEPT !.applied = Len(docs)] ELSE done

(* Receipts that could not be saved are withdrawn. *)
Withdrawn(m) == [m EXCEPT !.rev = 0, !.apps = <<>>, !.at = @ + 1, !.status = "failed"]

Started(out) ==
  LET doc == docs[Len(docs)]
  IN  [n \in DNodes |-> IF n \in DOMAIN out /\ out[n] = "ok" /\ ~doc[n].blocked
                        THEN ran[n] \cup {doc[n].cred} ELSE ran[n]]

Saved(m) == mem' = m /\ disk' = [m EXCEPT !.pass = 0]

(* A pass of the agent that ends ... *)
AgentPass ==
  /\ docs # <<>> /\ SubUse("pass")
  /\ \E out \in [DOMAIN docs[Len(docs)] -> {"ok", "failed", "pending"}] :
       /\ Saved(AfterPass(out)) /\ ran' = Started(out)
       /\ whole' = IF Outcome(out) = "applied" THEN whole \cup {Len(docs)} ELSE whole
  /\ UNCHANGED <<row, draft, sharing, chain, unsent, docs, net, applied, arow, newest>>

(* ... or cannot save its receipts, and then saves the result or not; or cannot
   save the result; or dies: before it saves anything, before the receipts,
   before the result.  Only a pass whose result was saved is reported. *)
AgentPassUnsaved ==
  /\ docs # <<>>
  /\ \E out \in [DOMAIN docs[Len(docs)] -> {"ok", "failed", "pending"}] :
       /\ ran' = Started(out)
       /\ whole' = IF Outcome(out) = "applied" THEN whole \cup {Len(docs)} ELSE whole
       /\ \/ /\ SubUse("save") /\ Receipts(docs[Len(docs)], out) # <<>>
             /\ \/ Saved([Withdrawn(mem) EXCEPT !.pass = Len(docs)])
                \/ mem' = [Withdrawn(mem) EXCEPT !.pass = 0] /\ UNCHANGED disk
          \/ /\ SubUse("save") /\ mem' = [AfterPass(out) EXCEPT !.pass = 0, !.torn = TRUE]
             /\ disk' = [Receipted(out) EXCEPT !.pass = 0, !.torn = TRUE]
          \/ /\ SubUse("crash")
             /\ \E m \in {disk, mem, [Receipted(out) EXCEPT !.torn = TRUE]} : Saved([m EXCEPT !.pass = 0])
  /\ UNCHANGED <<row, draft, sharing, chain, unsent, docs, net, applied, arow, newest>>

(* invalidateNATApplications: a local failure gets a new sequence number. *)
InvalidateNATApplications ==
  /\ \E n \in DOMAIN mem.apps : mem.apps[n] # "failed"
  /\ LET next == [mem EXCEPT !.seq = @ + 1, !.status = "failed", !.pass = 0]
     IN  \/ /\ SubUse("pass")
            /\ Saved([next EXCEPT !.at = @ + 1, !.apps = [n \in DOMAIN mem.apps |-> "failed"]])
         \/ SubUse("save") /\ mem' = Withdrawn(next) /\ UNCHANGED disk
  /\ UNCHANGED <<row, draft, sharing, chain, unsent, docs, ran, whole, net, applied, arow, newest>>

(* A fresh installation knows nothing; it keeps the revision it is told. *)
Reinstall ==
  /\ SubUse("reinstall") /\ Saved([FreshState EXCEPT !.at = mem.at, !.renewed = TRUE])
  /\ UNCHANGED <<row, draft, sharing, chain, unsent, docs, ran, whole, net, applied, arow, newest>>

(* The heartbeat names the revision that is applied; while a worker runs it
   says pending ("busy": without an error) ... *)
AgentHeartbeat ==
  /\ SubUse("msg")
  /\ \E status \in {mem.status} \cup (IF mem.status = "applied" THEN {"busy"} ELSE {}) :
       net' = net \cup {[rev |-> mem.rev, seq |-> mem.seq, apps |-> mem.apps, tried |-> mem.applied,
                         status |-> status, at |-> mem.at]}
  /\ UNCHANGED <<row, draft, sharing, chain, unsent, docs, mem, disk, ran, whole, applied, arow, newest>>

(* ... and the report after a pass the one that was tried, with the receipts
   when they are about it. *)
SendReport ==
  /\ SubUse("msg") /\ mem.pass > 0 /\ mem' = [mem EXCEPT !.pass = 0]
  /\ LET own == mem.rev = mem.pass
     IN  net' = net \cup {[rev |-> mem.pass, seq |-> IF own THEN mem.seq ELSE 0,
                           apps |-> IF own THEN mem.apps ELSE <<>>, tried |-> mem.pass,
                           status |-> mem.status, at |-> mem.at]}
  /\ UNCHANGED <<row, draft, sharing, chain, unsent, docs, disk, ran, whole, applied, arow, newest>>
-----------------------------------------------------------------------------
(* RecordNodeApplications: a receipt is taken when its revision is newer, or
   its sequence, or when it repeats what is known. *)
SameOrNewerAny(r, old) == r.rev >= old.rev  \* mutant: no sequence
SameOrNewer(r, old) ==
  \/ r.rev > old.rev
  \/ r.rev = old.rev /\ (r.seq > old.seq \/ (r.seq = old.seq /\ r.status = old.status))

(* What a message says of the nodes: the receipts, or, when there are none
   and the configuration was applied, the whole revision. *)
Statement(m) ==
  IF m.apps # <<>> THEN [rev |-> m.rev, seq |-> m.seq, apps |-> m.apps]
  ELSE IF m.status = "applied" /\ m.tried > 0
  THEN [rev |-> m.tried, seq |-> 0,
        apps |-> [n \in DOMAIN docs[m.tried] |-> IF docs[m.tried][n].blocked THEN "blocked" ELSE "applied"]]
  ELSE [rev |-> 0, seq |-> 0, apps |-> <<>>]

(* The credentials come from the snapshot of the publication. *)
Snapshot(rev, n) == docs[rev][n].cred

RecordNodes(m) ==
  LET st == Statement(m)
      Taken(n) == n \in DOMAIN st.apps /\ row[n] # None
      New(n) == [rev |-> st.rev, seq |-> st.seq, status |-> st.apps[n], cred |-> Snapshot(st.rev, n)]
      Later(n) == newest[n] = None \/ newest[n].at < m.at
  IN  /\ applied' = [n \in DNodes |->
            IF Taken(n) /\ (applied[n] = None \/ SameOrNewer(New(n), applied[n])) THEN New(n) ELSE applied[n]]
      /\ newest' = [n \in DNodes |->
            IF Taken(n) /\ Later(n) THEN [at |-> m.at, rev |-> st.rev, status |-> st.apps[n],
                                          cred |-> docs[st.rev][n].cred]
            ELSE newest[n]]

(* RecordAgentApplication, which sees the receipts of the same request: a pending
   result carries an error like a failed one. *)
Stale(m) ==
  LET rows == {n \in DNodes : applied'[n] # None /\ applied'[n].rev = m.tried}
  IN  \/ arow.rev > m.tried
      \/ \E n \in rows : applied'[n].seq > m.seq
      \/ m.status = "applied" /\ \E n \in rows : applied'[n].status = "failed"

RecordAgent(m) ==
  arow' = IF m.tried = 0 \/ m.status = "busy" \/ Stale(m) THEN arow
          ELSE IF m.status = "applied" THEN [rev |-> m.tried, err |-> FALSE]
          ELSE [arow EXCEPT !.err = TRUE]

(* A report arrives; it may arrive again. *)
Deliver ==
  /\ \E m \in net : /\ RecordNodes(m) /\ RecordAgent(m)
                    /\ net' \in {net, net \ {m}}
  /\ UNCHANGED <<row, draft, sharing, chain, unsent, docs, mem, disk, ran, whole, subleft>>
-----------------------------------------------------------------------------
(* appliedSubscriptionNode and subscriptionNode *)
Usable(n) ==
  /\ row[n] # None /\ row[n].on /\ (n = "b" => sharing)
  /\ applied[n] # None /\ applied[n].status = "applied" /\ applied[n].cred = row[n].cred
ChainShows == IF chain = None \/ chain.landing = None THEN None
              ELSE IF Usable(chain.landing) THEN applied[chain.landing].cred ELSE None

SubNext ==
  \/ \E n \in DNodes : RegenerateNode(n) \/ BeginUpdate(n)
  \/ \E n \in {"a", "c"} : SetNodeChain(n)
  \/ CommitUpdate \/ DeleteNode \/ DeployReplacement \/ ShareSwitch \/ SubPublish
  \/ AgentPass \/ AgentPassUnsaved \/ InvalidateNATApplications \/ Reinstall
  \/ AgentHeartbeat \/ SendReport \/ Deliver
-----------------------------------------------------------------------------
(* However reports are repeated and overtaken, the table holds the newest
   statement that was accepted: an old success never undoes a newer fence -
   as long as the agent keeps its state. *)
NewestReceiptWins ==
  \A n \in DNodes : newest[n] # None /\ ~mem.renewed =>
    /\ applied[n] # None
    /\ applied[n].status = newest[n].status /\ applied[n].cred = newest[n].cred

(* A subscription never shows credentials that no core was started with,
   however edits, publications and receipts overlap. *)
ShownWasStarted ==
  /\ \A n \in DNodes : Usable(n) => row[n].cred \in ran[n]
  /\ ChainShows # None => ChainShows \in ran[chain.landing]

(* The agent's row says that a revision is applied only when all of it was,
   and shows no clean result while the newest receipt of a node says that it
   failed - unless the agent once lost the result of a pass. *)
AppliedRowHonest ==
  arow.rev > 0 =>
    /\ arow.rev \in whole
    /\ ~arow.err /\ ~mem.renewed /\ ~mem.torn => \A n \in DNodes :
         newest[n] # None /\ newest[n].rev = arow.rev => newest[n].status # "failed"

SubscriptionsSafe == NewestReceiptWins /\ ShownWasStarted /\ AppliedRowHonest
=============================================================================
