---------------------------- MODULE UdpSessions ----------------------------
(***************************************************************************)
(* Idle UDP sessions of fixed forwards (internal/udpsession and the        *)
(* session loop of internal/agent).  The shared core keeps a session until *)
(* it is told to close it; the kernel forgets the flow after its idle time *)
(* or earlier.  A round reads the conntrack table, then the core's         *)
(* sessions, closes some and renews the UDP lease; packets arrive at any   *)
(* moment.  Durations are counted in ticks of half a second.               *)
(***************************************************************************)
EXTENDS Naturals, FiniteSets

CONSTANTS Sessions,        \* identities of sessions
          UdpIdle,         \* ticks after which a policy calls a session idle
          MaxExpiryBatch,  \* sessions closed in one round
          UdpLease,        \* ticks a renewed lease lives
          UdpBounds        \* packets, early evictions, errors and restarts

ASSUME UdpAssumption == UdpIdle \in Nat \ {0} /\ MaxExpiryBatch \in Nat \ {0} /\ UdpLease \in Nat

VARIABLES
  sess,    \* the core's sessions: open, counters, conntrack entry, ticks without a packet
  reaper,  \* what the loop remembers of sessions
  round,   \* the round under way
  uleft

udpVars == <<sess, reaper, round, uleft>>

None0 == [known |-> FALSE, age |-> 0, bytes |-> 0]       \* no entry in a map
Nothing0 == [s \in Sessions |-> None0]
NewReaper == [missing |-> Nothing0, activity |-> Nothing0, flows |-> {}]
NoRound == [pc |-> "idle", live |-> {}, expired |-> {}, next |-> NewReaper, err |-> FALSE,
            due |-> FALSE, reset |-> TRUE, renewed |-> UdpLease, fails |-> 0]

UdpInit ==
  /\ sess = [s \in Sessions |-> [open |-> TRUE, bytes |-> 0, ct |-> TRUE, quiet |-> 0]]
  /\ reaper = NewReaper /\ round = NoRound
  /\ uleft \in UdpBounds

USpend(k) == uleft[k] > 0 /\ uleft' = [uleft EXCEPT ![k] = @ - 1]
Open == {s \in Sessions : sess[s].open}
CloseAll(S) == [s \in Sessions |-> IF s \in S THEN [sess[s] EXCEPT !.open = FALSE] ELSE sess[s]]
-----------------------------------------------------------------------------
(* The ticker starts a round; after a change of process or an expired lease the
   old sessions are closed first. *)
BeginRound ==
  /\ round.pc = "idle" /\ round.due /\ Open # {}
  /\ LET again == round.reset \/ round.renewed >= UdpLease IN
     round' = [round EXCEPT !.pc = IF again THEN "reset" ELSE "live", !.err = FALSE,
                               !.due = FALSE, !.reset = again]
  /\ UNCHANGED <<sess, reaper, uleft>>

(* Reaper.Reset: every session of the snapshot, or an error and no memory lost. *)
Reset ==
  /\ round.pc = "reset"
  /\ \/ sess' = CloseAll(Open) /\ reaper' = NewReaper
        /\ round' = [round EXCEPT !.pc = "live"] /\ UNCHANGED uleft
     \/ USpend("fail") /\ (\E S \in SUBSET Open : sess' = CloseAll(S))
        /\ round' = [round EXCEPT !.pc = "end", !.err = TRUE] /\ UNCHANGED reaper

(* LiveFor: conntrack entries of the flows seen in the last snapshot. *)
LiveFor ==
  /\ round.pc = "live"
  /\ round' = [round EXCEPT !.pc = "sweep", !.live = {s \in reaper.flows : sess[s].ct}]
  /\ UNCHANGED <<sess, reaper, uleft>>

Seen(s) == [known |-> TRUE, age |-> 0, bytes |-> sess[s].bytes]
Same(s, e) == e.known /\ e.bytes = sess[s].bytes

(* Mutant: a session counts as active only when it is seen first. *)
LastOnce(s) == IF reaper.activity[s].known THEN reaper.activity[s] ELSE Seen(s)
Last(s) == IF Same(s, reaper.activity[s]) THEN reaper.activity[s] ELSE Seen(s)

Expirable ==
  {s \in Open \ round.live : /\ Same(s, reaper.missing[s]) /\ reaper.missing[s].age >= 1
                             /\ Last(s).age >= UdpIdle}

(* Sweep, up to the choice of what is closed. *)
Observe ==
  /\ round.pc = "sweep"
  /\ \E E \in SUBSET Expirable :
       /\ Cardinality(E) <= MaxExpiryBatch
       /\ E = Expirable \/ Cardinality(E) = MaxExpiryBatch
       /\ round' = [round EXCEPT !.pc = "close", !.expired = E,
            !.next = [missing |-> [s \in Sessions |->
                        IF s \notin Open \ (round.live \cup E) THEN None0
                        ELSE IF Same(s, reaper.missing[s]) THEN reaper.missing[s] ELSE Seen(s)],
                      activity |-> [s \in Sessions |-> IF s \in Open THEN Last(s) ELSE None0],
                      flows |-> Open]]
  /\ UNCHANGED <<sess, reaper, uleft>>

(* closeConnections: with an error some are closed and the observations of
   this round are not kept. *)
CloseConnections ==
  /\ round.pc = "close"
  /\ \/ /\ sess' = CloseAll(round.expired) /\ reaper' = round.next
        /\ round' = [round EXCEPT !.pc = "end", !.next = NewReaper, !.expired = {}, !.live = {}]
        /\ UNCHANGED uleft
     \/ /\ USpend("fail")
        /\ \E S \in SUBSET round.expired : sess' = CloseAll(S)
        /\ reaper' = [reaper EXCEPT !.flows = round.next.flows]
        /\ round' = [round EXCEPT !.pc = "end", !.err = TRUE, !.next = NewReaper, !.expired = {},
                                  !.live = {}]

(* The round renews the lease unless it failed; after three failures in a row
   it is revoked, and the next round starts from nothing. *)
EndRound ==
  /\ round.pc = "end"
  /\ round' = IF round.err
              THEN [round EXCEPT !.pc = "idle", !.err = FALSE, !.fails = IF @ < 3 THEN @ + 1 ELSE @,
                                 !.reset = @ \/ round.fails >= 2]
              ELSE [round EXCEPT !.pc = "idle", !.reset = FALSE, !.renewed = 0, !.fails = 0]
  /\ UNCHANGED <<sess, reaper, uleft>>
-----------------------------------------------------------------------------
Without(m, s) == [m EXCEPT !.missing[s] = None0, !.activity[s] = None0]

(* A packet of a client.  After a session was closed the next packet opens one
   with an identity of its own, of which nobody remembers anything. *)
Packet ==
  /\ USpend("packet")
  /\ \E s \in Sessions :
       /\ sess' = [sess EXCEPT ![s] = [open |-> TRUE, ct |-> TRUE, quiet |-> 0,
                                       bytes |-> IF @.open THEN @.bytes + 1 ELSE 0]]
       /\ IF sess[s].open THEN UNCHANGED <<reaper, round>>
          ELSE /\ reaper' = Without(reaper, s)
               /\ round' = [round EXCEPT !.next = Without(@, s), !.expired = @ \ {s}]

(* The kernel forgets a flow after its idle time, or early under pressure. *)
ConntrackForgets ==
  /\ \E s \in Sessions :
       /\ sess[s].ct
       /\ IF sess[s].quiet >= UdpIdle THEN UNCHANGED uleft ELSE USpend("evict")
       /\ sess' = [sess EXCEPT ![s].ct = FALSE]
  /\ UNCHANGED <<reaper, round>>

Older(e) == IF e.known /\ e.age < UdpIdle THEN [e EXCEPT !.age = @ + 1] ELSE e
Aged(r) == [r EXCEPT !.missing = [s \in Sessions |-> Older(@[s])],
                     !.activity = [s \in Sessions |-> Older(@[s])]]

(* A round may take long, but not without end. *)
UdpTick ==
  /\ IF round.pc = "idle" THEN UNCHANGED uleft ELSE USpend("slow")
  /\ sess' = [s \in Sessions |-> [sess[s] EXCEPT !.quiet = IF @ < UdpIdle THEN @ + 1 ELSE @]]
  /\ reaper' = Aged(reaper)
  /\ round' = [round EXCEPT !.next = Aged(@), !.due = TRUE, !.renewed = IF @ < UdpLease THEN @ + 1 ELSE @]

(* The agent restarts: sessions live on, its memory does not. *)
UdpRestart ==
  /\ USpend("restart")
  /\ reaper' = NewReaper /\ round' = NoRound
  /\ UNCHANGED sess

UdpRound == BeginRound \/ Reset \/ LiveFor \/ Observe \/ CloseConnections \/ EndRound
UdpNext == UdpRound \/ Packet \/ ConntrackForgets \/ UdpTick \/ UdpRestart
-----------------------------------------------------------------------------
UdpTypeOK ==
  /\ round.pc \in {"idle", "reset", "live", "sweep", "close", "end"}
  /\ \A s \in Sessions : sess[s].quiet \in 0..UdpIdle

(* A sweep chooses only sessions that carried nothing for the whole idle time
   of their policy up to its snapshot and that the kernel does not track, also
   when the kernel evicts flows early or packets arrive between the dumps. *)
ReapedWereIdle ==
  [][\A s \in Sessions : s \in round'.expired /\ s \notin round.expired
       => sess[s].quiet >= UdpIdle /\ ~sess[s].ct]_udpVars

(* A session that the kernel has forgotten and that stays silent is closed. *)
IdleIsReaped == []<>(\A s \in Sessions : sess[s].ct \/ ~sess[s].open)

(* Sessions end when they are idle, and only then. *)
UdpSound == ReapedWereIdle /\ IdleIsReaped
=============================================================================
