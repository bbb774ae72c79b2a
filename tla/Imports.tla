------------------------------ MODULE Imports ------------------------------
(* An external subscription: the nodes imported from its feed and the usage
   its provider reports.

   The scheduler, the administrator's "sync now" and a pasted body may apply
   feeds at the same time.  A sync reads the subscription's row, fetches the
   feed, replaces the nodes in one transaction, adds the usage since the row
   was read, and writes the row.  Meanwhile nodes are renamed and switched:
   an edit reads the node and writes the whole of it later. *)
EXTENDS Integers, FiniteSets, Outbox

CONSTANTS
  Feeds,        \* the sets of names the provider may list
  ImportBounds  \* bounds to start from

VARIABLES
  feed,      \* what the provider serves: names, endpoint version, usage
  imported,  \* nodes: id, name, original_name (None: as upstream), endpoint, enabled, revoked
  ext,       \* external_subscriptions: last usage, whether last_sync_at is set; or None
  counted,   \* traffic_daily of the subscription
  syncs,     \* syncs on their way
  edit,      \* an edit of a node between its read and its write, or None
  pinned,    \* nodes an access route refers to
  nextId,
  since,     \* history: upstream name -> id it has had in every feed applied since
  given,     \* history: id -> name the administrator gave it
  overlaps,  \* history: two syncs ran at once, or the first one failed
  grown,     \* history: everything the provider ever counted ...
  base,      \* ... and how much of it the first sync found, or None
  ileft

importVars == <<feed, imported, ext, counted, syncs, edit, pinned, nextId, since, given, overlaps,
                grown, base, ileft>>

IUse(k) == ileft[k] > 0 /\ ileft' = [ileft EXCEPT ![k] = @ - 1]

ImportInit ==
  /\ feed = [names |-> {"x", "y"}, ver |-> 1, use |-> 1]
  /\ imported = {} /\ ext = [up |-> 0, synced |-> FALSE] /\ counted = 0 /\ syncs = {} /\ edit = None
  /\ pinned = {} /\ nextId = 1 /\ since = <<>> /\ given = <<>> /\ overlaps = FALSE /\ grown = 1 /\ base = None
  /\ ileft \in ImportBounds
-----------------------------------------------------------------------------
(* The provider lists other names, moves its endpoints, and its counter grows
   or starts again. *)
ProviderChanges ==
  /\ IUse("feed")
  /\ \E f \in Feeds, u \in {1, feed.use + 1} :
       feed' = [names |-> f, ver |-> feed.ver + 1, use |-> u]
  /\ grown' = grown + 1
  /\ UNCHANGED <<imported, ext, counted, syncs, edit, pinned, nextId, since, given, overlaps, base>>

(* SyncDue, syncExternal: the row as the sync will know it *)
SyncExternal ==
  /\ IUse("sync") /\ ext # None
  /\ syncs' = syncs \cup {[pc |-> "fetch", row |-> ext, got |-> None, n |-> ileft.sync]}
  /\ overlaps' = (overlaps \/ syncs # {})
  /\ UNCHANGED <<feed, imported, ext, counted, edit, pinned, nextId, since, given, grown, base>>

(* Fetch fails, or lists nothing but banners: the error is recorded, the nodes
   stay, and last_sync_at is set although there is no usage to start from. *)
FetchFails(s) ==
  /\ s.pc = "fetch" /\ IUse("fail")
  /\ syncs' = syncs \ {s}
  /\ ext' = IF ext = None THEN None ELSE [ext EXCEPT !.synced = TRUE]
  /\ overlaps' = (overlaps \/ (ext # None /\ ~ext.synced))
  /\ UNCHANGED <<feed, imported, counted, edit, pinned, nextId, since, given, grown, base>>

FetchDone(s) ==
  /\ s.pc = "fetch" /\ feed.names # {}
  /\ syncs' = (syncs \ {s}) \cup {[s EXCEPT !.pc = "nodes", !.got = feed]}
  /\ base' = IF base = None THEN grown ELSE base
  /\ UNCHANGED <<feed, imported, ext, counted, edit, pinned, nextId, since, given, overlaps, grown, ileft>>

(* ReplaceExternalNodes: by the upstream name, which a local name hides. *)
LocalName(n)    == n.name  \* mutant
UpstreamName(n) == IF n.orig = None THEN n.name ELSE n.orig
Existing(name)    == {n \in imported : UpstreamName(n) = name}
Number(names)   == CHOOSE f \in [names -> nextId..(nextId + Cardinality(names) - 1)] :
                     \A a, b \in names : f[a] = f[b] => a = b
NewNodes(got) ==
  LET fresh == {x \in got.names : Existing(x) = {}}
      ids   == Number(fresh)
      Keep(n)  == [n EXCEPT !.ver = got.ver, !.revoked = FALSE]
      Tomb(n)  == [n EXCEPT !.on = FALSE, !.revoked = TRUE]
  IN  {Keep(n) : n \in {m \in imported : UpstreamName(m) \in got.names}}
      \cup {Tomb(n) : n \in {m \in imported : UpstreamName(m) \notin got.names /\ m.id \in pinned}}
      \cup {[id |-> ids[x], name |-> x, orig |-> None, ver |-> got.ver, on |-> TRUE, revoked |-> FALSE]
              : x \in fresh}

ReplaceExternalNodes(s) ==
  /\ s.pc = "nodes"
  /\ IF ext = None THEN syncs' = syncs \ {s} /\ UNCHANGED <<imported, nextId, since>>
     ELSE /\ imported' = NewNodes(s.got)
          /\ nextId' = nextId + Cardinality({x \in s.got.names : Existing(x) = {}})
          /\ since' = [x \in s.got.names |-> IF x \in DOMAIN since THEN since[x]
                                             ELSE (CHOOSE n \in NewNodes(s.got) : UpstreamName(n) = x).id]
          /\ syncs' = (syncs \ {s}) \cup {[s EXCEPT !.pc = "usage"]}
  /\ UNCHANGED <<feed, ext, counted, edit, pinned, given, overlaps, grown, base, ileft>>

(* The usage since the row was read; a smaller counter has started again. *)
AddUsage(s) ==
  /\ s.pc = "usage"
  /\ LET delta == IF s.got.use < s.row.up THEN s.got.use ELSE s.got.use - s.row.up
     IN  counted' = IF s.row.synced THEN counted + delta ELSE counted
  /\ syncs' = (syncs \ {s}) \cup {[s EXCEPT !.pc = "record"]}
  /\ UNCHANGED <<feed, imported, ext, edit, pinned, nextId, since, given, overlaps, grown, base, ileft>>

RecordExternalSync(s) ==
  /\ s.pc = "record" /\ syncs' = syncs \ {s}
  /\ ext' = IF ext = None THEN None ELSE [up |-> s.got.use, synced |-> TRUE]
  /\ UNCHANGED <<feed, imported, counted, edit, pinned, nextId, since, given, overlaps, grown, base, ileft>>
-----------------------------------------------------------------------------
(* updateNode reads the node ... *)
BeginEdit ==
  /\ IUse("edit") /\ edit = None
  /\ \E n \in imported, name \in {"x", "y", "z"}, on \in BOOLEAN :
       edit' = [n EXCEPT !.name = name, !.on = on]
  /\ UNCHANGED <<feed, imported, ext, counted, syncs, pinned, nextId, since, given, overlaps, grown, base>>

(* ... and writes it; the upstream name is taken from the row in place. *)
CommitEdit ==
  /\ edit # None /\ edit' = None
  /\ LET old == {n \in imported : n.id = edit.id} IN
     IF old = {} THEN UNCHANGED <<imported, given>>
     ELSE \E n \in old :
       LET orig == IF n.orig = None /\ n.name # edit.name THEN n.name ELSE n.orig IN
       /\ imported' = (imported \ old) \cup {[edit EXCEPT !.orig = orig]}
       /\ given' = IF n.name = edit.name THEN given
                   ELSE [i \in DOMAIN given \cup {n.id} |-> IF i = n.id THEN edit.name ELSE given[i]]
  /\ UNCHANGED <<feed, ext, counted, syncs, pinned, nextId, since, overlaps, grown, base, ileft>>

(* An access route takes a node for its landing, or gives it back. *)
PinNode ==
  /\ IUse("edit")
  /\ \E n \in imported : pinned' = IF n.id \in pinned THEN pinned \ {n.id} ELSE pinned \cup {n.id}
  /\ UNCHANGED <<feed, imported, ext, counted, syncs, edit, nextId, since, given, overlaps, grown, base>>

(* DeleteNode: not while a route needs it; DeleteExternal: not while any does. *)
DeleteImported ==
  /\ IUse("delete")
  /\ \E n \in imported : /\ n.id \notin pinned /\ imported' = imported \ {n}
                         /\ since' = [x \in DOMAIN since \ {UpstreamName(n)} |-> since[x]]
  /\ UNCHANGED <<feed, ext, counted, syncs, edit, pinned, nextId, given, overlaps, grown, base>>

DeleteExternal ==
  /\ IUse("delete") /\ ext # None /\ \A n \in imported : n.id \notin pinned
  /\ ext' = None /\ imported' = {} /\ since' = <<>>
  /\ UNCHANGED <<feed, counted, syncs, edit, pinned, nextId, given, overlaps, grown, base>>

ImportNext ==
  \/ ProviderChanges \/ SyncExternal \/ BeginEdit \/ CommitEdit \/ PinNode \/ DeleteImported \/ DeleteExternal
  \/ \E s \in syncs : FetchFails(s) \/ FetchDone(s) \/ ReplaceExternalNodes(s) \/ AddUsage(s) \/ RecordExternalSync(s)
-----------------------------------------------------------------------------
(* Names, rows and feeds.  None is none of them, and a feed is finite. *)
ImportNames == {"x", "y", "z"} \cup UNION Feeds
ImportNodes == [id : Nat, name : ImportNames, orig : ImportNames \cup {None}, ver : Nat,
                on : BOOLEAN, revoked : BOOLEAN]
ExtRows     == [up : Nat, synced : BOOLEAN]

ASSUME ImportsAssumption ==
  /\ None \notin ImportNames \cup Nat \cup ImportNodes \cup ExtRows
  /\ \A f \in Feeds : IsFiniteSet(f)

(* A node keeps its identity as long as the feeds list it, whatever it is
   called here: subscriptions refer to it by that identity. *)
IdentityKept ==
  /\ \A m, n \in imported : UpstreamName(m) = UpstreamName(n) => m = n
  /\ \A x \in DOMAIN since : \E n \in imported : n.id = since[x] /\ UpstreamName(n) = x

(* The name an administrator gave stays, and so does a landing in use. *)
NothingTaken ==
  /\ \A n \in imported : n.id \in DOMAIN given => n.name = given[n.id]
  /\ \A i \in pinned : \E n \in imported : n.id = i

(* Syncs that run one after the other never count more than the provider did
   since the first of them, also when its counter starts again. *)
CountedOnce == ~overlaps /\ base # None => counted <= grown - base

ImportsSafe == IdentityKept /\ NothingTaken /\ CountedOnce
=============================================================================
