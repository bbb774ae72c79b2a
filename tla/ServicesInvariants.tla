-------------------------- MODULE ServicesInvariants --------------------------
(***************************************************************************)
(* The inductive invariants of the services that MCServices composes, and  *)
(* the row types they speak of; ServicesProofs proves them.                *)
(***************************************************************************)
EXTENDS MCServices

(* Subscription links. *)
LinkRow   == [tok : Nat, on : BOOLEAN]
NodeRow   == [cred : Nat, on : BOOLEAN]
NodeNames == Dials \cup {"v"}

ServeTyped ==
  /\ link \in [Links -> LinkRow]
  /\ \A e \in edits : e.k \in Links /\ e.read \in LinkRow
  /\ cat \in [NodeNames -> NodeRow]
  /\ acked \in [Dials -> Nat]
  /\ share \in [status : {"active", "paused", "revoked"}, used : BOOLEAN]
  /\ overLimit \in BOOLEAN /\ fresh \in Nat /\ lost \subseteq Nat
  /\ shareOp \in [todo : Seq(ShareOpSteps), row : LinkRow \cup {Nothing}]

(* The tokens that a link has or that someone may write back to it. *)
Held(k) ==
  {link[k].tok} \cup {e.read.tok : e \in {f \in edits : f.k = k}}
  \cup {r.tok : r \in {q \in {shareOp.row} : k = "share" /\ q # Nothing}}

TokenInv ==
  /\ \A k \in Links : \A t \in Held(k) : t < fresh
  /\ \A t \in lost : t < fresh
  /\ Held("gen") \cap Held("share") = {}
  /\ \A k \in Links \ raced : Held(k) = {link[k].tok} /\ link[k].tok \notin lost

(* The link is written back only after it was read. *)
Ordered(todo) == \A i \in 2..Len(todo) : todo[i] = "link off" => todo[i - 1] = "read link"
ReadFirst ==
  /\ Ordered(shareOp.todo)
  /\ shareOp.todo # << >> /\ Head(shareOp.todo) = "link off" => shareOp.row # Nothing

(* What a request has noted as allowed. *)
Grants == [rows : SUBSET (Dials \X Nat), chain : BOOLEAN, receipts : SUBSET (Dials \X Nat),
          share : BOOLEAN, quota : BOOLEAN]
Covers(may, now) ==
  /\ now.rows \subseteq may.rows /\ now.receipts \subseteq may.receipts
  /\ (now.chain => may.chain) /\ (now.share => may.share) /\ (now.quota => may.quota)

Phases   == {"admit", "build", "list", "quota", "node", "share", "receipt", "done"}
NodeSets == SUBSET NodeNames
RowLists == UNION {[S -> NodeRow] : S \in NodeSets}
Answers  == SUBSET (NodeNames \X Nat)
AtHand   == [n : NodeNames, row : NodeRow] \cup {Nothing}
Requests ==
  [k : Links, on : BOOLEAN, ph : Phases, rows : RowLists, todo : NodeSets, ok : Answers, cur : AtHand,
   tried : NodeSets, may : Grants]

(* The rows listed, the node at hand and the nodes shown were allowed. *)
ListOK(r) ==
  /\ r.todo \subseteq DOMAIN r.rows
  /\ \A n \in DOMAIN r.rows :
       /\ n = "v" => r.may.chain
       /\ r.k = "gen" => n # "s"
       /\ n # "v" /\ r.rows[n].on => <<n, r.rows[n].cred>> \in r.may.rows

AtHandOK(r) ==
  /\ r.ph \in {"share", "receipt"} =>
       /\ r.cur \in [n : NodeNames, row : NodeRow]
       /\ r.cur.row.on => <<Origin(r.cur.n), r.cur.row.cred>> \in r.may.rows
       /\ r.cur.n = "v" => r.may.chain
       /\ r.k = "gen" => r.cur.n # "s"
  /\ r.ph = "receipt" /\ Origin(r.cur.n) = "s" => r.may.share
  /\ r.k = "gen" /\ r.ph \in {"node", "share", "receipt"} => r.may.quota

ShownOK(r) ==
  /\ r.ph \in {"admit", "build", "list", "quota"} => r.ok = {}
  /\ \A x \in r.ok :
       /\ <<Origin(x[1]), x[2]>> \in r.may.rows /\ <<Origin(x[1]), x[2]>> \in r.may.receipts
       /\ x[1] = "v" => r.may.chain
       /\ Origin(x[1]) = "s" => r.may.share
       /\ r.k = "gen" => x[1] # "s" /\ r.may.quota
  /\ r.ph = "done" => \A x \in r.ok : x[1] = "v" => \E y \in r.ok : y[1] = "d"

Now == Allowed(cat, acked, share, overLimit)
ReqInv ==
  req # Nothing =>
    /\ req \in Requests /\ ListOK(req) /\ AtHandOK(req) /\ ShownOK(req)
    /\ req.ph # "done" => Covers(req.may, Now)

ServeInv == ServeTyped /\ TokenInv /\ ReadFirst /\ ReqInv

(* Port mappings. *)
DocOrNil    == NatDocs \cup {Nil}
KeyOrNil    == (NatSources \X NatCfgs) \cup {Nil}
StatusOrNil == NatChoices \cup {Nil}
CoreStates  == {"-", "up", "failed"}
NatAgents ==
  [desired : DocOrNil, ctl : NatCfgs, ready : BOOLEAN, key : KeyOrNil, status : StatusOrNil,
   work : DocOrNil, cores : CoreStates, beat : BOOLEAN]

NatTyped ==
  /\ natrow \in [rev : Nat, cfg : NatCfgs] /\ natview \in Nat /\ natview <= natrow.rev
  /\ nodes \in [NatPorts -> {"none", "off", "on"}] /\ natgen \in Nat
  /\ report \in NatReports /\ natmsg \in NatReports \cup {Nil}
  /\ natfile \in LocalFiles /\ natpause \in BOOLEAN
  /\ nag \in NatAgents /\ nst \in [gen : Nat, err : BOOLEAN, nat : BOOLEAN]

(* Without a file of root nothing speaks of one. *)
NothingLocal ==
  ~localUsed =>
    /\ natfile.kind = "none" /\ report.source # "local"
    /\ natmsg # Nil => natmsg.source # "local"
    /\ nag.status # Nil => nag.status.source # "local"

(* The core and the documents of the agent. *)
CoreInv ==
  /\ nag.cores = "up" => nag.work # Nil /\ listening = nag.work.nodes
  /\ nag.ready /\ ~nst.err => nag.desired # Nil
  /\ nag.work = Nil /\ nag.desired # Nil /\ ~nst.err => listening = nag.desired.nodes

(* An applied status is that of the table. *)
StatusTrue ==
  /\ nag.ready /\ nag.work = Nil /\ nag.desired # Nil /\ ~nst.err /\ nag.desired.gen = nst.gen
  /\ nag.status # Nil /\ nag.status.st = "applied"
  => table = NATRules(nag.status.cfg, nag.desired.nodes, FALSE)

NatInv == NatTyped /\ NothingLocal /\ NodesMapped /\ CoreInv /\ StatusTrue /\ NothingDiverted

(* Imported subscriptions. *)
NameSets == SUBSET ImportNames
FeedRows == [names : NameSets, ver : Nat, use : Nat]
SyncSteps == {"fetch", "nodes", "usage", "record"}
GotRows  == FeedRows \cup {None}

NodesTyped ==
  imported \subseteq ImportNodes /\ nextId \in Nat /\ edit \in ImportNodes \cup {None}

SyncsTyped ==
  /\ feed \in FeedRows /\ IsFiniteSet(feed.names) /\ ext \in ExtRows \cup {None}
  /\ \E N : syncs \subseteq [pc : SyncSteps, row : ExtRows, got : GotRows, n : N]
  /\ \A s \in syncs : s.pc # "fetch" => s.got \in FeedRows /\ IsFiniteSet(s.got.names)
  /\ counted \in Nat /\ grown \in Nat /\ overlaps \in BOOLEAN
  /\ base # None => base \in Nat /\ base <= grown

(* Identifiers are given out once. *)
IdsInv ==
  /\ \A m, n \in imported : m.id = n.id => m = n
  /\ \A n \in imported : n.id < nextId
  /\ \A i \in DOMAIN given : i \in Nat /\ i < nextId

(* What the provider counted from one reading to another. *)
Delta(u, v) == IF v < u THEN v ELSE v - u

(* As long as syncs do not overlap: at most one, and what it may still add is
   covered by what the provider has counted since the first reading. *)
SyncCovered(s) ==
  /\ s.pc = "fetch" =>
       /\ ext # None => ext = s.row
       /\ s.row.synced => counted + Delta(s.row.up, feed.use) <= grown - base
  /\ s.pc \in {"nodes", "usage"} =>
       counted + (IF s.row.synced THEN Delta(s.row.up, s.got.use) ELSE 0) + Delta(s.got.use, feed.use) <= grown - base
  /\ s.pc = "record" => counted + Delta(s.got.use, feed.use) <= grown - base

NotBegun ==
  /\ counted = 0 /\ (ext # None => ~ext.synced)
  /\ \A s \in syncs : s.pc = "fetch" /\ ~s.row.synced

CountInv ==
  ~overlaps =>
    /\ \A s, t \in syncs : s = t
    /\ base = None => NotBegun
    /\ base # None => counted <= grown - base
    /\ \A s \in syncs : SyncCovered(s)
    /\ syncs = {} /\ ext # None /\ ext.synced => counted + Delta(ext.up, feed.use) <= grown - base

IdentityInv == NodesTyped /\ IdsInv /\ IdentityKept /\ NothingTaken
UsageInv    == SyncsTyped /\ CountInv
ImportInv   == IdentityInv /\ UsageInv


(*************************************************************************)
(* OpenRC supervision.  A proxy that runs has a supervisor, because the   *)
(* service-host, whose cgroup holds the supervisors, is stopped last; and *)
(* what ran before an update still runs or is in the receipt.             *)
(*************************************************************************)
SupPhases == {"off", "look", "sync", "record", "stop", "ensure", "guard", "check", "start", "mark", "run"}
FromA == <<"a", "b", "host">>
FromB == <<"b", "host">>
LastHost == <<"host">>
SupTodo == {<<>>, StopOrder, FromA, FromB, LastHost}
SupAgents == [pc : SupPhases, todo : SupTodo, units : SUBSET Proxies, short : BOOLEAN]
SupTyped ==
  /\ launcher \in Nat \ {0}
  /\ proc \in [Units -> Nat] /\ script \in [Units -> Nat]
  /\ \A u \in Units : proc[u] <= launcher /\ script[u] <= launcher
  /\ home \in [Units -> {"none", "init", "host", "agent"}]
  /\ (receipt = NoReceipt \/ receipt \subseteq Proxies)
  /\ enabled \subseteq Proxies /\ paused \subseteq Proxies /\ owed \subseteq Proxies
  /\ aready \in {"none", "this", "earlier"}
  /\ sag \in SupAgents

(* What the agent works on at each step of the refresh. *)
SupAgentInv ==
  /\ sag.pc \in {"off", "look", "mark", "run"} => sag.units = {}
  /\ sag.pc \in {"mark", "run", "record"} => receipt = NoReceipt
  /\ sag.pc = "look" => sag = [NoAgent EXCEPT !.pc = "look"]
  /\ sag.short => receipt = NoReceipt /\ sag.units = {}
  /\ sag.pc \in {"sync", "record", "check", "start"} => ~sag.short
  /\ sag.pc = "record" => sag.todo = StopOrder
  /\ sag.pc = "stop" => ~sag.short /\ sag.todo # <<>> /\ receipt # NoReceipt

(* The ones already stopped stay stopped until the host is back. *)
Gone(u) == proc[u] = 0 /\ home[u] = "none"
StoppedInv ==
  sag.pc = "stop" =>
    /\ sag.todo # StopOrder => Gone("guard")
    /\ sag.todo \in {FromB, LastHost} => Gone("a")
    /\ sag.todo = LastHost => Gone("b")

(* Only proxies that are meant to run are started by anybody. *)
WantedInv ==
  /\ sag.units \subseteq enabled /\ paused \subseteq enabled
  /\ receipt # NoReceipt => receipt \subseteq enabled
  /\ \A u \in Proxies : proc[u] # 0 \/ home[u] # "none" => u \in enabled

(* Who runs is supervised; who is owed runs or is noted. *)
KeptInv ==
  /\ \A u \in Proxies : proc[u] # 0 => home[u] # "none"
  /\ \A u \in Proxies : home[u] # "agent"
  /\ IF receipt = NoReceipt THEN \A u \in owed : proc[u] # 0 ELSE owed \subseteq receipt

SupInv == SupTyped /\ SupAgentInv /\ StoppedInv /\ WantedInv /\ KeptInv

(*************************************************************************)
(* The byte counter.  Links are pinned after the map and unpinned before  *)
(* it, a proxy lives only under both links, so the slots always show what *)
(* has passed; and a new map has an inode no reading of this boot knows.  *)
(*************************************************************************)
Bytes == [Dirs -> Nat]
MeterPins == [map : Nat, rx : BOOLEAN, tx : BOOLEAN]
MeterReaders == [at : {"-", "rx", "tx", "stat"}, val : Bytes, from : Bytes]
MeterReadings == [n : Nat, epoch : Nat \X Nat, val : Bytes, from : Bytes, to : Bytes]
AllNames == {"rx", "tx", "map"}
TxAndMap == {"tx", "map"}
MeterTyped ==
  /\ pin \in MeterPins /\ cnt \in Bytes /\ passed \in Bytes /\ ino \in Nat /\ mboot \in Nat
  /\ maker \in [Creators -> {"-", "map", "rx", "tx", "exec"}]
  /\ remover \in {{}, AllNames, TxAndMap, {"map"}} /\ alive \in BOOLEAN
  /\ reader \in MeterReaders

PinInv ==
  /\ pin.rx \/ pin.tx => pin.map # 0
  /\ pin.map <= ino
  /\ remover # {} => ~alive /\ reader.at = "-" /\ \A c \in Creators : maker[c] = "-"
  /\ remover \in {TxAndMap, {"map"}} => ~pin.rx
  /\ remover = {"map"} => ~pin.tx
  /\ alive => pin.rx /\ pin.tx
  /\ \A c \in Creators : /\ maker[c] \in {"rx", "tx", "exec"} => pin.map # 0
                         /\ maker[c] \in {"tx", "exec"} => pin.rx
                         /\ maker[c] = "exec" => pin.tx
  /\ cnt = passed

ReaderInv ==
  reader.at # "-" =>
    /\ pin.rx /\ pin.tx
    /\ \A d \in Dirs : reader.from[d] <= passed[d]
    /\ reader.at \in {"tx", "stat"} => reader.from["rx"] <= reader.val["rx"] /\ reader.val["rx"] <= passed["rx"]
    /\ reader.at = "stat" => reader.from["tx"] <= reader.val["tx"] /\ reader.val["tx"] <= passed["tx"]

(* A reading of the present epoch is behind the one under way. *)
ReadingNow(r) ==
  r.epoch[1] = mboot /\ r.epoch[2] = pin.map =>
    \A d \in Dirs : r.to[d] <= passed[d] /\ (reader.at # "-" => r.to[d] <= reader.from[d])
ReadingKnown(r) ==
  /\ r.epoch[2] # 0 /\ r.epoch[1] <= mboot /\ (r.epoch[1] = mboot => r.epoch[2] <= ino)
ReadingExact(r) == \A d \in Dirs : r.from[d] <= r.val[d] /\ r.val[d] <= r.to[d]
ReadingsInOrder(r, s) == r.epoch = s.epoch /\ r.n < s.n => \A d \in Dirs : r.to[d] <= s.from[d]
ReadingsInv ==
  /\ readings \subseteq MeterReadings /\ IsFiniteSet(readings)
  /\ \A r \in readings : r.n < Cardinality(readings) /\ ReadingExact(r)
  /\ \A r, s \in readings : ReadingsInOrder(r, s)
ReadingsNowInv == \A r \in readings : ReadingKnown(r) /\ ReadingNow(r)

MeterInv == MeterTyped /\ PinInv /\ ReaderInv /\ ReadingsInv /\ ReadingsNowInv

(*************************************************************************)
(* Accounts.  A request works on a copy of the row; whatever is written   *)
(* in between makes the copy's upd too old for the guarded write, and any *)
(* change of password or factor makes its version too old for a session   *)
(* or a key.  A code stays behind the last accepted step, or is crossed   *)
(* off, in every row that can still be written.                           *)
(*************************************************************************)
FactorCodes == [kind : {"totp", "recovery"}, secret : Nat, step : Nat, id : Nat]
HeldCreds == [pw : Nat, secret : Nat, tries : Nat]
SessionRows == [ver : Nat, by : {"login", "enable", "disable", "password"}, pw : Nat, totp : BOOLEAN]
KeyRows == [id : Nat, ver : Nat, revoked : BOOLEAN, expired : BOOLEAN, pw : Nat, totp : BOOLEAN]

SetupReqs  == [op : {"setup"}, pc : {"create"}, pw : Nat]
LoginReqs  == [op : {"login"}, pc : {"finish", "session"}, u : UserRows, chal : Nat]
LoadReqs   == [op : {"login2fa"}, pc : {"load"}, chal : Nat \ {0}, held : HeldCreds, code : FactorCodes]
FactorReqs == [op : {"login2fa"}, pc : {"drop", "cas"}, chal : Nat \ {0}, code : FactorCodes, was : UserRows, u : UserRows]
OwnReqs    == [op : SelfOps, pc : {"user"}, code : FactorCodes, pw : Nat]
EditReqs   == [op : {"password", "profile"}, pc : {"write"}, code : FactorCodes, was : UserRows, u : UserRows]
CasReqs    == [op : {"setup2fa", "enable", "disable", "recovery", "key"}, pc : {"cas"}, code : FactorCodes, was : UserRows, u : UserRows]
KeyReqs    == [op : {"key"}, pc : {"key"}, code : FactorCodes, was : UserRows, u : UserRows]
FreshReqs  == [op : {"enable", "disable"}, pc : {"fresh", "session"}, u : UserRows]
AdminReqs  == [op : {"admin"}, pc : {"write"}, was : UserRows, u : UserRows, clear : BOOLEAN]
ClearReqs  == [op : {"password", "admin"}, pc : {"clear", "own"}, u : UserRows]
BeforeReqs == [op : {"admin"}, pc : {"before"}, u : UserRows, then : AdminReqs]
AccRequests == SetupReqs \cup LoginReqs \cup LoadReqs \cup FactorReqs \cup OwnReqs \cup EditReqs \cup CasReqs
               \cup KeyReqs \cup FreshReqs \cup AdminReqs \cup ClearReqs \cup BeforeReqs

(* A code that was accepted cannot be accepted under this row again. *)
CodeUsed(f, u) ==
  /\ f.kind = "totp" /\ f.secret = u.secret => f.step <= u.last
  /\ f.kind = "recovery" => f.id \notin u.codes
CodeKnown(f) ==
  /\ f \in FactorCodes
  /\ f.kind = "totp" => f.secret # 0 /\ f.secret <= serial
  /\ f.kind = "recovery" => f.id <= serial
RowGood(u) ==
  /\ u.totp => u.secret # 0
  /\ ~u.totp => u.last = 0
  /\ u.secret <= serial /\ \A c \in u.codes : c <= serial
  /\ \A f \in DOMAIN spent : CodeUsed(f, u)

(* A copy of the row is the row or is older; what was issued is for this version or an older one. *)
RowRead(w) == w.upd <= account.upd /\ (w.upd = account.upd => w = account)
VersionFits(x) == x.ver <= account.ver /\ (x.ver = account.ver => x.pw = account.pw /\ x.totp = account.totp)
SameFactor(u, w) == u.pw = w.pw /\ u.totp = w.totp /\ u.secret = w.secret /\ u.ver = w.ver

CodeFits(r) == Accepts(r) => CodeKnown(r.code) /\ r.code \notin DOMAIN spent /\ CodeUsed(r.code, r.u)
WriteFits(r) == account # None => RowRead(r.was) /\ (r.was = account => RowGood(r.u))
CasFits(r)   == /\ WriteFits(r)
                /\ account # None /\ r.was = account => CodeFits(r)
RequestFits(r) ==
  /\ r.op = "login" \/ r.pc = "key" => (account # None => VersionFits(r.u))
  /\ r.pc \in {"drop", "cas"} => CasFits(r)
  /\ r.pc \in {"drop", "cas"} /\ r.op \in {"login2fa", "key"} => SameFactor(r.u, r.was)
  /\ r.pc = "write" => WriteFits(r)
  /\ r.pc = "before" => WriteFits(r.then)

AccTyped ==
  /\ account \in UserRows \cup {None} /\ initialized \in BOOLEAN
  /\ \A c \in DOMAIN challenges : challenges[c] \in HeldCreds
  /\ sessions \subseteq SessionRows /\ apikeys \subseteq KeyRows /\ IsFiniteSet(apikeys)
  /\ requests \subseteq AccRequests /\ totpNow \in Nat \ {0} /\ serial \in Nat \ {0}
AccRow ==
  /\ account # None => initialized /\ RowGood(account)
  /\ ~initialized => /\ account = None /\ sessions = {} /\ apikeys = {} /\ DOMAIN challenges = {}
                     /\ requests \subseteq SetupReqs
AccSpent == \A f \in DOMAIN spent : spent[f] = 1 /\ CodeKnown(f)
AccIssued ==
  account # None =>
    /\ \A s \in sessions : s.ver <= account.ver /\ (s.by = "login" => VersionFits(s))
    /\ \A k \in apikeys : k.ver <= account.ver /\ (~k.revoked => VersionFits(k))
    /\ Cardinality(ActiveKeys) <= MaxActiveAPIKeys
AccReqs == \A r \in requests : RequestFits(r)

(* Requests that have taken a challenge out of the store *)
Taken(r) == (r.op = "login2fa" /\ r.pc = "cas") \/ (r.op = "login" /\ r.chal # 0)
ChallengeFits(r) ==
  /\ r.op \in {"login", "login2fa"} => r.chal <= serial
  /\ Taken(r) => r.chal \notin DOMAIN challenges /\ r.chal \notin DOMAIN logins
AccChallenges ==
  /\ \A c \in DOMAIN challenges : c \in 1 .. serial /\ c \notin DOMAIN logins
  /\ \A c \in DOMAIN logins : c \in 1 .. serial /\ logins[c] = 1
  /\ \A r \in requests : ChallengeFits(r)
  /\ \A r, q \in requests : Taken(r) /\ Taken(q) /\ r.chal = q.chal => r = q

AccessInv == AccTyped /\ AccRow /\ AccSpent /\ AccIssued /\ AccReqs /\ AccChallenges

(*************************************************************************)
(* Receipts per node.  Receipts are saved before they are sent, with a    *)
(* sequence of their own, so the statements that may still arrive and the *)
(* saved one are ordered in time, revision and sequence alike; what the   *)
(* tables hold of a node has its place in that order.  A revision that is *)
(* reported as applied was reported for all of its nodes.                 *)
(*************************************************************************)
AppWords == {"failed", "blocked", "applied"}
AppSets  == {<<>>} \cup UNION {[S -> AppWords] : S \in SUBSET DNodes}
SpecDocs == UNION {[S -> [cred : Nat, blocked : BOOLEAN]] : S \in SUBSET DNodes}
AgentStates == [rev : Nat, seq : Nat, apps : AppSets, applied : Nat, status : {"pending", "failed", "applied"},
                at : Nat, pass : Nat, renewed : BOOLEAN, torn : BOOLEAN]
AgentMsgs == [rev : Nat, seq : Nat, apps : AppSets, tried : Nat, status : {"pending", "failed", "applied", "busy"}, at : Nat]
Drafts == [node : DNodes, read : NodeRows]

SubTyped ==
  /\ row \in [DNodes -> NodeRows \cup {None}] /\ row["b"] # None
  /\ draft \in Drafts \cup {None} /\ sharing \in BOOLEAN
  /\ chain \in [landing : DNodes \cup {None}] \cup {None}
  /\ docs \in Seq(SpecDocs) /\ \A i \in 1 .. Len(docs) : "b" \in DOMAIN docs[i]
  /\ mem \in AgentStates /\ disk \in AgentStates /\ net \subseteq AgentMsgs
  /\ whole \subseteq 1 .. Len(docs)
  /\ applied \in [DNodes -> AppliedRows \cup {None}] /\ newest \in [DNodes -> NewestRows \cup {None}]
  /\ arow \in [rev : Nat, err : BOOLEAN]

(* Receipts are about nodes of a published revision; one that says applied
   names credentials that were started. *)
About(x) ==
  x.apps # <<>> =>
    /\ x.rev \in 1 .. Len(docs) /\ DOMAIN x.apps \subseteq DOMAIN docs[x.rev]
    /\ \A n \in DOMAIN x.apps : x.apps[n] = "applied" => docs[x.rev][n].cred \in ran[n]
SaysApplied(x) == x.status \in {"applied", "busy"}
SubAgent ==
  /\ disk.renewed = mem.renewed /\ disk.torn = mem.torn /\ (~mem.torn => disk.applied = mem.applied)
  /\ disk.pass = 0 /\ mem.pass <= Len(docs)
  /\ mem.pass > 0 => mem.applied <= mem.pass /\ (mem.status = "applied" => mem.pass = mem.rev /\ mem.applied = mem.rev)
  /\ disk.at <= mem.at /\ disk.seq <= mem.seq
  /\ mem.apps # <<>> => mem.at = disk.at /\ mem.seq = disk.seq /\ mem.rev = disk.rev /\ mem.apps = disk.apps
  /\ \A x \in {mem, disk} :
       /\ About(x) /\ x.applied <= Len(docs) /\ (x.apps # <<>> => x.applied <= x.rev)
       /\ x.status = "applied" => x.applied \in whole /\ x.apps # <<>>
SubTold ==
  \A x \in net : About(x) /\ x.tried <= Len(docs) /\ (SaysApplied(x) => x.tried \in whole /\ x.apps # <<>>)
SubTables ==
  /\ \A r \in whole : \A n \in DOMAIN docs[r] : docs[r][n].blocked \/ docs[r][n].cred \in ran[n]
  /\ arow.rev > 0 => arow.rev \in whole
  /\ \A n \in DNodes :
       /\ newest[n] = None <=> applied[n] = None
       /\ applied[n] # None =>
            /\ row[n] # None
            /\ applied[n].rev \in 1 .. Len(docs) /\ n \in DOMAIN docs[applied[n].rev]
            /\ applied[n].cred = docs[applied[n].rev][n].cred
            /\ applied[n].status = "applied" => applied[n].cred \in ran[n]

(* The order of the statements of one installation *)
Spoken == {x \in net \cup {disk} : x.apps # <<>>}
InOrder(x, y) ==
  /\ x.at < y.at => x.rev <= y.rev /\ x.seq < y.seq
  /\ x.at = y.at => x.rev = y.rev /\ x.seq = y.seq /\ x.apps = y.apps
Placed(n, x) ==
  /\ x.at < newest[n].at => x.rev <= applied[n].rev /\ x.seq < applied[n].seq
  /\ x.at > newest[n].at => x.rev >= applied[n].rev /\ x.seq > applied[n].seq
  /\ x.at = newest[n].at => x.rev = applied[n].rev /\ x.seq = applied[n].seq
                            /\ (n \in DOMAIN x.apps => x.apps[n] = applied[n].status)
SubOrdered ==
  /\ \A x \in Spoken : x.at <= disk.at /\ x.seq <= disk.seq
  /\ \A x, y \in Spoken : InOrder(x, y)
  /\ \A n \in DNodes : newest[n] # None =>
       /\ newest[n].rev = applied[n].rev /\ newest[n].status = applied[n].status /\ newest[n].cred = applied[n].cred
       /\ newest[n].at <= disk.at /\ applied[n].seq <= disk.seq
       /\ \A x \in Spoken : Placed(n, x)

(* Revisions that were applied as a whole *)
Clean(x, rev) ==
  /\ x.rev = rev /\ DOMAIN x.apps = DOMAIN docs[rev]
  /\ \A n \in DOMAIN x.apps : x.apps[n] # "failed"
Heard == {n \in DNodes : row[n] # None /\ n \in DOMAIN docs[arow.rev]}
SubWhole ==
  /\ \A x \in {mem, disk} : x.status = "applied" => Clean(x, x.applied)
  /\ \A x \in net : SaysApplied(x) => Clean(x, x.tried) /\ x.tried <= mem.applied
  /\ \A x \in net : x.apps # <<>> => x.tried <= x.rev
  /\ \A x, y \in net : x.status = "applied" /\ y.apps # <<>> /\ y.at > x.at => y.tried >= x.tried
  /\ arow.rev <= mem.applied
  /\ arow.rev > 0 =>
       /\ \A n \in Heard : /\ newest[n] # None
                           /\ \A y \in net : y.apps # <<>> /\ y.at > newest[n].at => y.tried >= arow.rev
       /\ ~arow.err => \A m \in DNodes : applied[m] # None /\ applied[m].rev = arow.rev =>
            /\ applied[m].status # "failed"
            /\ \A n \in Heard : newest[m].at <= newest[n].at

SubInv ==
  /\ SubTyped /\ SubAgent /\ SubTold /\ SubTables
  /\ ~mem.renewed => SubOrdered /\ (~mem.torn => SubWhole)
-----------------------------------------------------------------------------
(* Release trust: what an operation carries with it. *)
TrustPcs   == {"idle", "refresh", "policy", "target", "archive", "epoch", "floor", "checksum", "plain",
               "verified", "receipt", "allowed", "above", "sequence", "bytes", "prepared", "switched",
               "restore"}
TrustConfs == [checksum : BOOLEAN, min : Nat, openrc : BOOLEAN]
GenRows    == [ver : Nat, exp : Nat, targets : SUBSET Releases, revoked : SUBSET Releases, min : Nat]
KnownRows  == [revoked : SUBSET Releases, min : Nat]
OpKinds    == {"-", "self", "worker", "release", "recovery", "rollback"}
OpRows     == [pc : TrustPcs, kind : OpKinds, r : Releases \cup {"-"}, conf : TrustConfs \cup {None},
               gen : GenRows \cup {None}, known : KnownRows \cup {None}, epoch : Nat,
               rec : RecRows \cup {None}]

(* The files, and everything else but the operations. *)
TrustFiles ==
  /\ IsFiniteSet(gens) /\ gens \subseteq GenRows /\ \A g \in gens : g.ver \in 1..Cardinality(gens)
  /\ clock \in Nat /\ conf \in TrustConfs /\ meta \in 0..Cardinality(gens)
  /\ pol \in PolicyRows \cup {None} /\ (pol # None => pol.seq \in 1..Cardinality(gens))
  /\ floor \in [{"agent", "controller"} -> Nat] /\ receipts \in [Releases -> Nat]
  /\ \A r \in Releases : receipts[r] <= Epoch[r]
  /\ vlock \in Procs \cup {None} /\ agentBin \in AgentReleases /\ permitted \subseteq Releases

(* What an operation knew when it began is still known: by the policy and the
   floor of the moment, and by the configuration it works with. *)
PolMin == IF pol = None THEN 0 ELSE pol.min
PolRevoked == IF pol = None THEN {} ELSE pol.revoked
StillKnown(o) ==
  /\ o.r \in Releases /\ o.conf \in TrustConfs /\ o.known \in KnownRows
  /\ o.known.revoked \subseteq PolRevoked
  /\ \/ o.known.min <= o.conf.min \/ o.known.min <= floor.agent \/ o.known.min <= PolMin

(* The policy has been passed with epoch e, and the floor may still refuse; or
   both have been passed. *)
PolicyPassed(o, e) ==
  /\ o.r \notin o.known.revoked
  /\ o.r # "k" => o.known.min <= e \/ o.known.min <= floor.agent \/ o.known.min <= o.conf.min
BothPassed(o, e) == o.r \notin o.known.revoked /\ (o.r # "k" => o.known.min <= e)

(* How far an operation has come. *)
Locking == {"refresh", "policy", "target", "archive", "epoch", "floor", "checksum", "plain"}
Replacing == {"receipt", "allowed", "above", "sequence", "bytes", "prepared", "switched", "restore"}
Progress(o) ==
  /\ o.pc \in {"refresh", "policy", "target", "epoch", "floor"} => ~o.conf.checksum
  /\ o.pc \in {"checksum", "plain"} => o.conf.checksum
  /\ o.pc \in {"policy", "target"} => o.gen \in gens
  /\ o.pc = "target" => pol = PolicyOfGen(o.gen)
  /\ o.pc \in {"archive", "epoch"} /\ ~o.conf.checksum => PolicyPassed(o, Epoch[o.r])
  /\ o.pc \in {"floor", "verified", "prepared", "restore"} /\ ~o.conf.checksum => BothPassed(o, Epoch[o.r])
  /\ o.pc \in {"allowed", "above", "sequence", "bytes"} /\ ~o.conf.checksum => o.epoch <= Epoch[o.r]
  /\ o.pc = "allowed" => ~o.conf.checksum
  /\ o.pc = "above" => ~o.conf.checksum /\ PolicyPassed(o, o.epoch)
  /\ o.pc \in {"sequence", "bytes"} /\ ~o.conf.checksum => BothPassed(o, o.epoch)
  /\ o.pc \in {"above", "sequence"} => pol # None
  /\ o.pc \in Replacing /\ (o.kind # "rollback" \/ o.pc \in {"sequence", "prepared", "switched"}) => o.rec # None

(* The agent's own operation: what it may install supports what is relied on. *)
Fitting(o) ==
  /\ o.pc # "idle" => o.r \in AgentReleases
  /\ o.pc \in Replacing =>
       /\ o.rec \in RecRows /\ o.rec.new \in AgentReleases
       /\ ~conf.openrc => needs \subseteq Provides[o.rec.new] /\ needs \subseteq Provides[o.r]

TrustInv ==
  /\ TrustFiles /\ op \in [Procs -> OpRows] /\ FloorFirst /\ NeverDowngraded /\ Fitting(op["agent"])
  /\ \A p \in Procs : op[p].pc # "idle" => StillKnown(op[p]) /\ Progress(op[p])
  /\ \A p \in Procs : op[p].pc \in Locking => vlock = p

(* Nothing that an operation relies on is forgotten. *)
TrustGrows ==
  /\ gens \subseteq gens' /\ floor'.agent >= floor.agent
  /\ PolMin' >= PolMin /\ PolRevoked \subseteq PolRevoked' /\ (pol # None => pol' # None)
=============================================================================
