------------------------------ MODULE Connlog ------------------------------
(***************************************************************************)
(* Connection log of one share on one server: the tailers push events into *)
(* a bounded ring, the upload loop takes a batch and sends it under the    *)
(* next sequence number, and the controller filters, stores and remembers  *)
(* the number in two databases.                                            *)
(*                                                                         *)
(* An event is its production number.  An upload that failed is put back   *)
(* and sent again under the same number, together with whatever the ring   *)
(* holds by then.  Requests and answers may be lost or late, either side   *)
(* may stop between two steps, and the share may be switched or deleted    *)
(* while a batch is being handled.                                         *)
(***************************************************************************)
EXTENDS Integers, SequencesExt

CONSTANTS
  None,        \* absence of a request, an answer, a running handler
  QueueSlots,  \* agentbudget.QueueSlots
  BatchSize,   \* min(Connlog.BatchSize, 500)
  MaxEvents,   \* bound: events the cores log
  MaxSwitches, \* bound: changes of the share's log switch
  MaxFaults    \* bound: failures of each kind

FaultKinds == {"net", "late", "db", "save", "crash"}

ASSUME ConnlogAssumption ==
  /\ QueueSlots \in Nat \ {0} /\ BatchSize \in Nat \ {0} /\ MaxEvents \in Nat
  /\ MaxSwitches \in Nat /\ MaxFaults \in [FaultKinds -> Nat]

VARIABLES
  next,     \* number of the next event
  queue,    \* the shared ring of both tailers
  dropped,  \* events the full ring discarded
  enabled,  \* Connlog.Enabled of the document the agent applied
  phase,    \* upload loop: "idle", "half" (first Take done), "wait"
  taken,    \* events of the upload under way
  seq,      \* State.ConnlogSeq in memory
  saved,    \* State.ConnlogSeq in state.json
  req,      \* the request the agent waits for, not yet handled
  resp,     \* its answer
  late,     \* requests nobody waits for, not yet handled
  handler,  \* the running agentConnlog (batchMu admits one per agent)
  lastSeq,  \* agents.connlog_seq in ctlvps.db
  batchSeq, \* conn_batches.seq in connlog.db
  rows,     \* conn_events of the share
  share,    \* "on" / "off": its log switch, "gone": deleted, "wiped": and its log
  switches, \* changes of the switch so far
  delivered, stored, refused,  \* history: acknowledged, inserted, filtered events
  faults

agent  == <<queue, dropped, enabled, phase, taken, seq, saved>>
wire   == <<req, resp, late>>
db     == <<lastSeq, batchSeq, rows>>
hist   == <<delivered, stored, refused>>
vars   == <<next, agent, wire, handler, db, share, switches, hist, faults>>

Events == 1..MaxEvents

Init ==
  /\ next = 1 /\ queue = <<>> /\ dropped = {} /\ enabled = FALSE
  /\ phase = "idle" /\ taken = <<>> /\ seq = 0 /\ saved = 0
  /\ req = None /\ resp = None /\ late = {} /\ handler = None
  /\ lastSeq = 0 /\ batchSeq = 0 /\ rows = <<>>
  /\ share = "on" /\ switches = 0
  /\ delivered = {} /\ stored = {} /\ refused = {}
  /\ faults = [k \in FaultKinds |-> 0]

Fail(kind) ==
  faults[kind] < MaxFaults[kind] /\ faults' = [faults EXCEPT ![kind] = @ + 1]

-----------------------------------------------------------------------------
(* The ring.  pushLocked makes room by discarding the oldest event. *)
Pushed(q, e) == (IF Len(q) >= QueueSlots THEN Tail(q) ELSE q) \o <<e>>
Evicted(q)   == IF Len(q) >= QueueSlots THEN {Head(q)} ELSE {}

(* Take(n): the first events, and what remains. *)
Taken(q, n)  == SubSeq(q, 1, IF n < Len(q) THEN n ELSE Len(q))
Rest(q, n)   == SubSeq(q, n + 1, Len(q))

(* Requeue: as many of the newest events as there is room for go back to
   the front. *)
RequeuedUnbounded(q, evs) == evs \o q   \* mutant: no limit on a retry
RequeuedBehind(q, evs) ==        \* mutant: the batch is appended
  IF Len(q) + Len(evs) <= QueueSlots THEN q \o evs ELSE q
RequeuedOldest(q, evs) ==        \* mutant: the oldest ones are kept
  LET room == QueueSlots - Len(q)
  IN SubSeq(evs, 1, IF room < Len(evs) THEN room ELSE Len(evs)) \o q
Requeued(q, evs) ==
  LET room == QueueSlots - Len(q)
      k    == IF Len(evs) > room THEN Len(evs) - room ELSE 0
  IN SubSeq(evs, k + 1, Len(evs)) \o q

(* poll: a line of the share's node became an event. *)
Log ==
  /\ next <= MaxEvents /\ enabled
  /\ next' = next + 1
  /\ queue' = Pushed(queue, next)
  /\ dropped' = dropped \cup Evicted(queue)
  /\ UNCHANGED <<enabled, phase, taken, seq, saved, wire, handler, db, share, switches,
                 hist, faults>>

(* poll while logging is disabled: clearQueue. *)
ClearQueue ==
  /\ ~enabled /\ queue # <<>>
  /\ queue' = <<>>
  /\ UNCHANGED <<next, dropped, enabled, phase, taken, seq, saved, wire, handler, db,
                 share, switches, hist, faults>>

(* The agent applied a document built from the present switch. *)
Configure ==
  /\ enabled # (share = "on")
  /\ enabled' = (share = "on")
  /\ UNCHANGED <<next, queue, dropped, phase, taken, seq, saved, wire, handler, db,
                 share, switches, hist, faults>>

-----------------------------------------------------------------------------
(* connlogLoop: two separate Takes make up a batch. *)
TakeHalf ==
  /\ phase = "idle" /\ enabled /\ queue # <<>>
  /\ LET n == IF BatchSize \div 2 > 1 THEN BatchSize \div 2 ELSE 1
     IN taken' = Taken(queue, n) /\ queue' = Rest(queue, n)
  /\ phase' = "half"
  /\ UNCHANGED <<next, dropped, enabled, seq, saved, wire, handler, db, share, switches,
                 hist, faults>>

Upload ==
  /\ phase = "half"
  /\ LET n == BatchSize - Len(taken)
     IN taken' = taken \o Taken(queue, n) /\ queue' = Rest(queue, n)
  /\ req' = [seq |-> seq + 1, events |-> taken'] /\ resp' = None
  /\ phase' = "wait"
  /\ UNCHANGED <<next, dropped, enabled, seq, saved, late, handler, db, share, switches,
                 hist, faults>>

(* The sequence number after an acknowledgement. *)
AckedSeq(ack) == IF ack > seq + 1 THEN ack ELSE seq + 1

(* The acknowledgement; an error of Save is ignored. *)
Acked ==
  /\ phase = "wait" /\ resp # None /\ resp.ok
  /\ seq' = AckedSeq(resp.seq)
  /\ \/ saved' = seq' /\ UNCHANGED faults
     \/ UNCHANGED saved /\ Fail("save")
  /\ delivered' = delivered \cup Range(taken)
  /\ taken' = <<>> /\ phase' = "idle" /\ resp' = None
  /\ UNCHANGED <<next, queue, dropped, enabled, req, late, handler, db, share, switches,
                 stored, refused>>

Requeue ==
  /\ queue' = Requeued(queue, taken)
  /\ dropped' = dropped \cup (Range(taken) \ Range(queue'))
  /\ taken' = <<>> /\ phase' = "idle" /\ resp' = None

(* The request was refused, or lost before anyone handled it. *)
UploadFailed ==
  /\ phase = "wait"
  /\ \/ resp # None /\ ~resp.ok /\ UNCHANGED faults
     \/ req # None /\ Fail("net")
  /\ Requeue /\ req' = None
  /\ UNCHANGED <<next, enabled, seq, saved, late, handler, db, share, switches, hist>>

(* The client gave up although the request arrives, or was answered. *)
UploadTimedOut ==
  /\ phase = "wait" /\ Fail("late")
  /\ Requeue /\ req' = None
  /\ late' = IF req # None THEN late \cup {req} ELSE late
  /\ handler' = IF handler # None THEN [handler EXCEPT !.awaited = FALSE] ELSE None
  /\ UNCHANGED <<next, enabled, seq, saved, db, share, switches, hist>>

(* The agent restarts: ring and batch are gone, the number is the saved one. *)
AgentCrash ==
  /\ Fail("crash")
  /\ queue' = <<>> /\ taken' = <<>> /\ phase' = "idle" /\ enabled' = FALSE
  /\ seq' = saved
  /\ req' = None /\ resp' = None
  /\ handler' = IF handler # None THEN [handler EXCEPT !.awaited = FALSE] ELSE None
  /\ UNCHANGED <<next, dropped, saved, late, db, share, switches, hist>>

-----------------------------------------------------------------------------
(* agentConnlog.  The batch lock serialises the handlers of one agent. *)
AnswerNever(h, ok, n) == resp     \* mutant: the handler does not answer
Answer(h, ok, n) == IF h.awaited THEN [ok |-> ok, seq |-> n] ELSE resp

(* A number that was accepted before is acknowledged without a look at the
   events; otherwise the switches are read. *)
Duplicate(m) == m.seq <= lastSeq

Handle ==
  /\ handler = None
  /\ \E m \in late \cup ({req} \ {None}) :
       LET h == [msg |-> m, awaited |-> m = req, step |-> "store",
                 keep |-> IF share = "on" THEN m.events ELSE <<>>]
       IN /\ req' = IF m = req THEN None ELSE req
          /\ late' = IF m = req THEN late ELSE late \ {m}
          /\ IF Duplicate(m)
             THEN resp' = Answer(h, TRUE, lastSeq) /\ UNCHANGED <<handler, refused>>
             ELSE /\ handler' = h /\ UNCHANGED resp
                  /\ refused' = IF share = "on" THEN refused
                                ELSE refused \cup Range(m.events)
  /\ UNCHANGED <<next, agent, db, share, switches, delivered, stored, faults>>

(* Store.Ingest: one transaction of connlog.db, with its own number. *)
BatchSeenNever(h) == FALSE        \* mutant: conn_batches is not consulted
BatchSeen(h) == h.msg.seq <= batchSeq

Store ==
  /\ handler # None /\ handler.step = "store"
  /\ IF handler.keep = <<>> \/ BatchSeen(handler)
     THEN UNCHANGED <<rows, batchSeq, stored>>
     ELSE /\ rows' = rows \o handler.keep
          /\ batchSeq' = handler.msg.seq
          /\ stored' = stored \cup Range(handler.keep)
  /\ handler' = [handler EXCEPT !.step = "mark"]
  /\ UNCHANGED <<next, agent, wire, lastSeq, share, switches, delivered, refused, faults>>

(* SetAgentConnlogSeq, whose error is ignored, and the answer. *)
Mark ==
  /\ handler # None /\ handler.step = "mark"
  /\ \/ lastSeq' = handler.msg.seq /\ UNCHANGED faults
     \/ UNCHANGED lastSeq /\ Fail("db")
  /\ resp' = Answer(handler, TRUE, handler.msg.seq)
  /\ handler' = None
  /\ UNCHANGED <<next, agent, req, late, batchSeq, rows, share, switches, hist>>

(* A database error of Ingest, or the controller stops in the handler. *)
HandlerFails ==
  /\ handler # None /\ Fail("db")
  /\ resp' = Answer(handler, FALSE, 0)
  /\ handler' = None
  /\ UNCHANGED <<next, agent, req, late, db, share, switches, hist>>

-----------------------------------------------------------------------------
(* setShareConnlog. *)
Switch ==
  /\ share \in {"on", "off"} /\ switches < MaxSwitches
  /\ share' = IF share = "on" THEN "off" ELSE "on"
  /\ switches' = switches + 1
  /\ UNCHANGED <<next, agent, wire, handler, db, hist, faults>>

(* deleteShare: the nodes and the share, then its rows in connlog.db. *)
DeleteShare ==
  /\ share \in {"on", "off"} /\ switches < MaxSwitches
  /\ share' = "gone" /\ switches' = switches + 1
  /\ UNCHANGED <<next, agent, wire, handler, db, hist, faults>>

WipeShare ==
  /\ share = "gone"
  /\ share' = "wiped" /\ rows' = <<>>
  /\ UNCHANGED <<next, agent, wire, handler, lastSeq, batchSeq, switches, hist, faults>>

-----------------------------------------------------------------------------
AgentStep == ClearQueue \/ Configure \/ TakeHalf \/ Upload \/ Acked \/ UploadFailed
ControllerStep == Handle \/ Store \/ Mark

Next ==
  \/ Log \/ AgentStep \/ UploadTimedOut \/ AgentCrash
  \/ ControllerStep \/ HandlerFails \/ Switch \/ DeleteShare \/ WipeShare

Spec == Init /\ [][Next]_vars

(* The agent's loops and the controller's handlers keep running. *)
FairSpec ==
  /\ Spec /\ WF_vars(ControllerStep)
  /\ WF_vars(ClearQueue) /\ WF_vars(Configure)
  /\ WF_vars(TakeHalf \/ Upload \/ Acked \/ UploadFailed)

-----------------------------------------------------------------------------
Message == [seq : Nat, events : Seq(Events)]
Run     == [msg : Message, awaited : BOOLEAN, step : {"store", "mark"},
            keep : Seq(Events)]

Reply   == [ok : BOOLEAN, seq : Nat]

ASSUME NoneAssumption == None \notin Message /\ None \notin Run /\ None \notin Reply

Increasing(s) == \A i, j \in DOMAIN s : i < j => s[i] < s[j]

(* The shape of the ring, the upload loop, the handler and the databases; the
   ring never exceeds its slots, after a retry either. *)
TypeOK ==
  /\ next \in 1..(MaxEvents + 1) /\ queue \in Seq(Events) /\ Len(queue) <= QueueSlots
  /\ dropped \subseteq Events /\ enabled \in BOOLEAN
  /\ phase \in {"idle", "half", "wait"} /\ taken \in Seq(Events)
  /\ Len(taken) <= BatchSize /\ seq \in Nat /\ saved \in Nat
  /\ req \in Message \cup {None} /\ late \subseteq Message
  /\ resp \in Reply \cup {None}
  /\ handler \in Run \cup {None}
  /\ lastSeq \in Nat /\ batchSeq \in Nat /\ rows \in Seq(Events)
  /\ share \in {"on", "off", "gone", "wiped"} /\ switches \in Nat
  /\ delivered \subseteq Events /\ stored \subseteq Events /\ refused \subseteq Events
  /\ faults \in [FaultKinds -> Nat]

(* An event is stored at most once, whatever is resent, late, or marked in
   only one of the two databases, and in the order it was logged (agentConnlog,
   connlog.Store.Ingest).  An agent that restarts with a number older than the
   ones it used loses the order: a late batch of the life before may be stored
   behind newer events. *)
RowsInOrder ==
  /\ \A i, j \in DOMAIN rows : rows[i] = rows[j] => i = j
  /\ faults["save"] = 0 \/ faults["crash"] = 0 => Increasing(rows)

(* The batch being uploaded and the ring are in the order the events were
   logged, through any number of retries (Take, Requeue). *)
RingInOrder == Increasing(taken \o queue)

(* The full ring sacrifices the oldest events: nothing older than a
   discarded event stays in it ("keeps the newest events when retrying a
   full queue"). *)
KeepsNewest ==
  [][\A e \in dropped' \ dropped : \A x \in Range(queue') : x > e]_vars

(* What the agent was told is accepted was stored or filtered: a number that
   is acknowledged as a duplicate carries only events that are known. *)
NoSilentLoss == delivered \subseteq stored \cup refused

(* Every logged event eventually leaves the agent. *)
Drains == \A e \in Events : e \in Range(queue) ~> e \notin Range(queue \o taken)

(* Both ends keep the order of the events, within their bounds. *)
OrderKept == TypeOK /\ RowsInOrder /\ RingInOrder

(* The order is kept and what is given up is the oldest, through any number of
   retries of a full ring (Requeue) and repeated batches (ConnlogBatch). *)
RingIsFair == []OrderKept /\ KeepsNewest
=============================================================================
