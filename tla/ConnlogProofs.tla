---------------------------- MODULE ConnlogProofs ----------------------------
(***************************************************************************)
(* Proofs about Connlog, for any ring, batch size, number of events,       *)
(* switches and faults: the ring stays in order and gives up its oldest    *)
(* events, and the controller stores an event at most once, in the order   *)
(* it was logged as long as the agent has not restarted with an old number.*)
(***************************************************************************)
EXTENDS Connlog, SequenceTheorems, TLAPS

-----------------------------------------------------------------------------
(* The requests that are on their way or being handled. *)
Msgs ==
  late \cup ({req} \ {None}) \cup (IF handler = None THEN {} ELSE {handler.msg})

(* No number was lost: x may not follow e in the log when Clash(x, e). *)
Orderly     == faults["save"] = 0 \/ faults["crash"] = 0
Clash(x, e) == x = e \/ (Orderly /\ x < e)

Known == Range(rows) \cup UNION {Range(m.events) : m \in Msgs}

(* Everything that was logged is older than the next event, and every request
   is in order. *)
Past ==
  /\ \A x \in Known \cup Range(taken) \cup Range(queue) : x < next
  /\ \A m \in Msgs : Increasing(m.events)

(* Requests that carry the same event, or events out of order, have the same
   number, or numbers in the order of the events. *)
Numbered ==
  \A m, k \in Msgs : \A x \in Range(m.events), e \in Range(k.events) :
    Clash(x, e) => m.seq <= k.seq

(* A request with an event that is stored is recognised by its number. *)
Recognised ==
  \A m \in Msgs : \A x \in Range(m.events), e \in Range(rows) :
    Clash(x, e) => m.seq <= batchSeq

(* What the agent sends again, it sends under the same number. *)
Resent ==
  \A x \in Range(taken) \cup Range(queue) :
    /\ \A m \in Msgs : \A e \in Range(m.events) :
         /\ Clash(x, e) => seq + 1 <= m.seq
         /\ x = e => m.seq <= seq + 1
    /\ \A e \in Range(rows) : Clash(x, e) => seq + 1 <= batchSeq

(* What was sent before is at the front of the ring, so that the next batch
   holds all of it. *)
InFront ==
  \A i \in DOMAIN queue : \A e \in Known :
    Clash(queue[i], e) => phase # "wait" /\ Len(taken) + i <= BatchSize

(* No number is ahead of the agent's. *)
Ahead ==
  /\ faults["save"] = 0 => saved = seq
  /\ Orderly =>
       /\ \A m \in Msgs : m.seq <= seq + 1
       /\ lastSeq <= seq + 1 /\ batchSeq <= seq + 1
       /\ resp # None => resp.seq <= seq + 1

Running ==
  /\ phase = "idle" => taken = <<>>
  /\ handler # None => handler.keep \in {<<>>, handler.msg.events}

RingInv == TypeOK /\ Running /\ Past /\ RingInOrder

OrderInv ==
  RingInv /\ Numbered /\ Recognised /\ Resent /\ InFront /\ Ahead /\ RowsInOrder

-----------------------------------------------------------------------------
(* Sequences: what the ring's operations keep of them. *)
LEMMA Joined ==
  ASSUME NEW S, NEW s \in Seq(S), NEW t \in Seq(S)
  PROVE  /\ s \o t \in Seq(S) /\ Len(s \o t) = Len(s) + Len(t)
         /\ \A i \in 1..Len(s) : (s \o t)[i] = s[i]
         /\ \A i \in 1..Len(t) : (s \o t)[Len(s) + i] = t[i]
         /\ Range(s \o t) = Range(s) \cup Range(t)
<1>1. /\ s \o t \in Seq(S) /\ Len(s \o t) = Len(s) + Len(t)
      /\ \A i \in 1..Len(s) : (s \o t)[i] = s[i]
      /\ \A i \in 1..Len(t) : (s \o t)[Len(s) + i] = t[i]
  OBVIOUS
<1>2. DOMAIN (s \o t) = 1..(Len(s) + Len(t)) /\ DOMAIN s = 1..Len(s) /\ DOMAIN t = 1..Len(t)
      /\ Len(s) \in Nat /\ Len(t) \in Nat
  BY <1>1
<1>3. ASSUME NEW x \in Range(s \o t) PROVE x \in Range(s) \cup Range(t)
  <2>1. PICK i \in 1..(Len(s) + Len(t)) : x = (s \o t)[i]
    BY <1>2 DEF Range
  <2>2. CASE i <= Len(s)
    BY <1>1, <1>2, <2>1, <2>2 DEF Range
  <2>3. CASE i > Len(s)
    <3>1. PICK j \in 1..Len(t) : i = Len(s) + j
      BY <1>2, <2>1, <2>3
    <3> QED  BY <1>1, <1>2, <2>1, <3>1 DEF Range
  <2> QED  BY <1>2, <2>1, <2>2, <2>3
<1>4. ASSUME NEW x \in Range(s) \cup Range(t) PROVE x \in Range(s \o t)
  <2>1. CASE x \in Range(s)
    <3>1. PICK i \in 1..Len(s) : x = s[i]
      BY <1>2, <2>1 DEF Range
    <3>2. x = (s \o t)[i] /\ i \in 1..(Len(s) + Len(t))
      BY <1>1, <1>2, <3>1
    <3> QED  BY <1>2, <3>2 DEF Range
  <2>2. CASE x \in Range(t)
    <3>1. PICK i \in 1..Len(t) : x = t[i]
      BY <1>2, <2>2 DEF Range
    <3>2. x = (s \o t)[Len(s) + i] /\ Len(s) + i \in 1..(Len(s) + Len(t))
      BY <1>1, <1>2, <3>1
    <3> QED  BY <1>2, <3>2 DEF Range
  <2> QED  BY <2>1, <2>2
<1> QED  BY <1>1, <1>3, <1>4

LEMMA InRange ==
  ASSUME NEW S, NEW s \in Seq(S)
  PROVE  /\ Range(s) \subseteq S /\ DOMAIN s = 1..Len(s) /\ Len(s) \in Nat
         /\ \A i \in DOMAIN s : s[i] \in Range(s) /\ s[i] \in S
         /\ \A x \in Range(s) : \E i \in DOMAIN s : s[i] = x
  BY DEF Range

(* Two parts of a sequence. *)
LEMMA Split ==
  ASSUME NEW S, NEW q \in Seq(S), NEW n \in Nat
  PROVE  /\ Taken(q, n) \in Seq(S) /\ Len(Taken(q, n)) = IF n < Len(q) THEN n ELSE Len(q)
         /\ \A i \in 1..Len(Taken(q, n)) : Taken(q, n)[i] = q[i]
         /\ Rest(q, n) \in Seq(S) /\ Len(Rest(q, n)) = IF n < Len(q) THEN Len(q) - n ELSE 0
         /\ \A i \in 1..Len(Rest(q, n)) : Rest(q, n)[i] = q[n + i]
  BY DEF Taken, Rest

LEMMA SplitJoined ==
  ASSUME NEW S, NEW q \in Seq(S), NEW n \in Nat
  PROVE  Taken(q, n) \o Rest(q, n) = q
<1> DEFINE t == Taken(q, n)
           r == Rest(q, n)
<1>1. /\ t \in Seq(S) /\ Len(t) = IF n < Len(q) THEN n ELSE Len(q)
      /\ \A i \in 1..Len(t) : t[i] = q[i]
      /\ r \in Seq(S) /\ Len(r) = IF n < Len(q) THEN Len(q) - n ELSE 0
      /\ \A i \in 1..Len(r) : r[i] = q[n + i]
  BY Split
<1> HIDE DEF t, r
<1>2. /\ t \o r \in Seq(S) /\ Len(t \o r) = Len(t) + Len(r)
      /\ \A i \in 1..Len(t) : (t \o r)[i] = t[i]
      /\ \A i \in 1..Len(r) : (t \o r)[Len(t) + i] = r[i]
  BY <1>1, Joined
<1>3. Len(t \o r) = Len(q) /\ Len(q) \in Nat
  BY <1>1, <1>2
<1>4. ASSUME NEW i \in 1..Len(q) PROVE (t \o r)[i] = q[i]
  <2>1. CASE i <= Len(t)
    BY <1>1, <1>2, <1>3, <2>1
  <2>2. CASE i > Len(t)
    <3>1. n < Len(q) /\ Len(t) = n
      BY <1>1, <1>3, <2>2
    <3>2. PICK j \in 1..Len(r) : i = Len(t) + j
      BY <1>1, <1>3, <2>2, <3>1
    <3> QED  BY <1>1, <1>2, <3>1, <3>2
  <2> QED  BY <1>1, <1>3, <2>1, <2>2
<1>5. t \o r = q
  BY <1>2, <1>3, <1>4, SeqEqual
<1> QED  BY <1>5 DEF t, r

(* q is p without its first k elements. *)
Shift(p, q, k) ==
  /\ k \in 0..Len(p) /\ Len(q) = Len(p) - k
  /\ \A i \in 1..Len(q) : q[i] = p[k + i]

LEMMA PushedShifts ==
  ASSUME NEW S, NEW q \in Seq(S), NEW e \in S
  PROVE  /\ Pushed(q, e) \in Seq(S)
         /\ Shift(q \o <<e>>, Pushed(q, e), IF Len(q) >= QueueSlots THEN 1 ELSE 0)
         /\ Len(q) <= QueueSlots => Len(Pushed(q, e)) <= QueueSlots
<1>1. QueueSlots \in Nat \ {0} /\ <<e>> \in Seq(S) /\ Len(<<e>>) = 1 /\ <<e>>[1] = e
  BY ConnlogAssumption
<1>2. CASE Len(q) >= QueueSlots
  <2>1. PICK t \in Seq(S) : t = Tail(q) /\ Len(t) = Len(q) - 1 /\ \A i \in 1..Len(t) : t[i] = q[i + 1]
    <3>1. q # <<>>
      BY <1>1, <1>2
    <3> QED  BY <3>1, HeadTailProperties
  <2>2. Pushed(q, e) = t \o <<e>>
    BY <1>2, <2>1 DEF Pushed
  <2>3. /\ t \o <<e>> \in Seq(S) /\ Len(t \o <<e>>) = Len(q)
        /\ \A i \in 1..Len(q) : (t \o <<e>>)[i] = (q \o <<e>>)[1 + i]
    BY <1>1, <2>1
  <2>4. Len(q \o <<e>>) = Len(q) + 1 /\ Len(q) \in Nat
    BY <1>1
  <2> QED  BY <1>1, <1>2, <2>2, <2>3, <2>4 DEF Shift
<1>3. CASE ~(Len(q) >= QueueSlots)
  <2>1. Pushed(q, e) = q \o <<e>>
    BY <1>3 DEF Pushed
  <2> QED  BY <1>1, <1>3, <2>1 DEF Shift
<1> QED  BY <1>2, <1>3

LEMMA RequeuedShifts ==
  ASSUME NEW S, NEW q \in Seq(S), NEW evs \in Seq(S), Len(q) <= QueueSlots
  PROVE  /\ Requeued(q, evs) \in Seq(S) /\ Len(Requeued(q, evs)) <= QueueSlots
         /\ \E k \in 0..Len(evs) : Shift(evs \o q, Requeued(q, evs), k)
<1> DEFINE room == QueueSlots - Len(q)
           k    == IF Len(evs) > room THEN Len(evs) - room ELSE 0
           t    == SubSeq(evs, k + 1, Len(evs))
<1>1. QueueSlots \in Nat /\ Len(q) \in Nat /\ Len(evs) \in Nat
  BY ConnlogAssumption
<1>2. k \in 0..Len(evs) /\ Len(evs) - k + Len(q) <= QueueSlots
  BY <1>1
<1>3. Requeued(q, evs) = t \o q
  BY DEF Requeued
<1> HIDE DEF k
<1>4. t \in Seq(S) /\ Len(t) = Len(evs) - k /\ \A i \in 1..Len(t) : t[i] = evs[k + i]
  <2>1. k + 1 \in Int /\ Len(evs) \in Int /\ \A i \in (k + 1)..Len(evs) : evs[i] \in S
    BY <1>1, <1>2
  <2>2. /\ t \in Seq(S) /\ Len(t) = IF k + 1 <= Len(evs) THEN Len(evs) - (k + 1) + 1 ELSE 0
        /\ \A i \in 1..(Len(evs) - (k + 1) + 1) : t[i] = evs[k + 1 + i - 1]
    BY <2>1, SubSeqProperties
  <2> HIDE DEF t
  <2>3. Len(t) = Len(evs) - k
    BY <1>1, <1>2, <2>2
  <2> QED  BY <1>1, <1>2, <2>2, <2>3
<1> HIDE DEF t
<1>5. /\ t \o q \in Seq(S) /\ Len(t \o q) = Len(t) + Len(q)
      /\ \A i \in 1..Len(t) : (t \o q)[i] = t[i]
      /\ \A i \in 1..Len(q) : (t \o q)[Len(t) + i] = q[i]
  <2>1. t \in Seq(S) /\ q \in Seq(S)
    BY <1>4
  <2> QED  BY <2>1, Joined
<1>6. /\ Len(evs \o q) = Len(evs) + Len(q)
      /\ \A i \in 1..Len(evs) : (evs \o q)[i] = evs[i]
      /\ \A i \in 1..Len(q) : (evs \o q)[Len(evs) + i] = q[i]
  BY Joined
<1>7. ASSUME NEW i \in 1..Len(t \o q) PROVE (t \o q)[i] = (evs \o q)[k + i]
  <2>1. CASE i <= Len(t)
    <3>1. k + i \in 1..Len(evs)
      BY <1>1, <1>2, <1>4, <2>1
    <3> QED  BY <1>4, <1>5, <1>6, <2>1, <3>1
  <2>2. CASE i > Len(t)
    <3>0. i \in Nat /\ Len(t) \in Nat /\ i <= Len(t) + Len(q)
      BY <1>1, <1>4, <1>5
    <3>1. PICK j \in 1..Len(q) : i = Len(t) + j
      <4>1. i - Len(t) \in 1..Len(q) /\ i = Len(t) + (i - Len(t))
        BY <1>1, <2>2, <3>0
      <4> QED  BY <4>1
    <3>2. k + i = Len(evs) + j
      BY <1>1, <1>2, <1>4, <3>1
    <3> QED  BY <1>5, <1>6, <3>1, <3>2
  <2> QED  BY <1>1, <1>2, <1>4, <1>5, <2>1, <2>2
<1>8. Shift(evs \o q, t \o q, k)
  BY <1>1, <1>2, <1>4, <1>5, <1>6, <1>7 DEF Shift
<1> QED  BY <1>1, <1>2, <1>3, <1>4, <1>5, <1>8

-----------------------------------------------------------------------------
USE DEF agent, wire, db, hist, vars

LEMMA Constants ==
  /\ QueueSlots \in Nat \ {0} /\ BatchSize \in Nat \ {0} /\ MaxEvents \in Nat
  /\ Events \subseteq Nat /\ Events = 1..MaxEvents
  BY ConnlogAssumption DEF Events

LEMMA Failing ==
  ASSUME TypeOK, NEW k \in FaultKinds, Fail(k)
  PROVE  /\ faults' \in [FaultKinds -> Nat] /\ (Orderly' => Orderly) /\ faults'[k] # 0
         /\ \A f \in FaultKinds \ {k} : faults'[f] = faults[f]
  BY DEF TypeOK, Fail, Orderly, FaultKinds

LEMMA Messages ==
  ASSUME TypeOK
  PROVE  /\ Msgs \subseteq Message /\ (req # None => req \in Msgs) /\ late \subseteq Msgs
         /\ (handler # None => handler \in Run /\ handler.msg \in Msgs)
         /\ \A m \in Message : m.seq \in Nat /\ m.events \in Seq(Events)
  BY DEF TypeOK, Msgs, Message, Run

LEMMA Numerals ==
  ASSUME TypeOK
  PROVE  /\ Range(queue) \subseteq Events /\ Range(taken) \subseteq Events
         /\ Range(rows) \subseteq Events /\ Known \subseteq Events
         /\ \A m \in Msgs : Range(m.events) \subseteq Events
         /\ next \in Nat /\ seq \in Nat /\ batchSeq \in Nat /\ lastSeq \in Nat
         /\ Len(taken) \in Nat /\ Len(queue) \in Nat
<1>1. \A m \in Msgs : Range(m.events) \subseteq Events
  BY Messages, InRange
<1>2. Range(queue) \subseteq Events /\ Range(taken) \subseteq Events /\ Range(rows) \subseteq Events
  BY InRange DEF TypeOK
<1>3. Known \subseteq Events
  BY <1>1, <1>2 DEF Known
<1> QED  BY <1>1, <1>2, <1>3, Constants, InRange DEF TypeOK

LEMMA EmptyRange == Range(<<>>) = {}
  BY DEF Range

(* What is known only shrinks: requests are handled or lost, rows wiped. *)
Shrinks ==
  /\ Msgs' \subseteq Msgs /\ (rows' = rows \/ rows' = <<>>) /\ UNCHANGED batchSeq
  /\ Orderly' => Orderly

LEMMA Shrunk ==
  ASSUME OrderInv, Shrinks
  PROVE  /\ Numbered' /\ Recognised' /\ Known' \subseteq Known /\ Range(rows') \subseteq Range(rows)
         /\ \A x, e : Clash(x, e)' => Clash(x, e)
         /\ \A m \in Msgs' : Increasing(m.events)
         /\ RowsInOrder'
<1>1. \A x, e : Clash(x, e)' => Clash(x, e)
  BY DEF Shrinks, Clash
<1>2. Range(rows') \subseteq Range(rows)
  BY EmptyRange DEF Shrinks
<1>3. Known' \subseteq Known
  BY <1>2 DEF Known, Shrinks
<1>4. Numbered'
  BY <1>1 DEF OrderInv, Numbered, Shrinks
<1>5. Recognised'
  BY <1>1, <1>2 DEF OrderInv, Recognised, Shrinks
<1>6. RowsInOrder'
  <2>1. CASE rows' = rows
    BY <2>1 DEF OrderInv, RowsInOrder, Increasing, Shrinks, Orderly
  <2>2. CASE rows' = <<>>
    BY <2>2 DEF RowsInOrder, Increasing
  <2> QED  BY <2>1, <2>2 DEF Shrinks
<1>7. \A m \in Msgs' : Increasing(m.events)
  BY DEF OrderInv, RingInv, Past, Shrinks
<1> QED  BY <1>1, <1>2, <1>3, <1>4, <1>5, <1>6, <1>7

(* What the agent holds shrinks too. *)
LEMMA LessHeld ==
  ASSUME OrderInv, Shrinks, UNCHANGED seq,
         Range(taken') \cup Range(queue') \subseteq Range(taken) \cup Range(queue)
  PROVE  Resent'
<1>1. \A x, e : Clash(x, e)' => Clash(x, e)
  BY Shrunk
<1>2. Range(rows') \subseteq Range(rows)
  BY Shrunk
<1> QED  BY <1>1, <1>2 DEF OrderInv, Resent, Shrinks

LEMMA StillPast ==
  ASSUME OrderInv, Shrinks, UNCHANGED next,
         Range(taken') \cup Range(queue') \subseteq Range(taken) \cup Range(queue)
  PROVE  Past'
<1>1. Known' \subseteq Known /\ \A m \in Msgs' : Increasing(m.events)
  BY Shrunk
<1> QED  BY <1>1 DEF OrderInv, RingInv, Past

LEMMA StillAhead ==
  ASSUME OrderInv, Shrinks, UNCHANGED <<seq, saved>>, faults'["save"] = faults["save"],
         lastSeq' = lastSeq \/ \E m \in Msgs : lastSeq' = m.seq,
         resp' # None => resp' = resp \/ resp'.seq \in {0, lastSeq} \/ \E m \in Msgs : resp'.seq = m.seq
  PROVE  Ahead'
<1>1. Ahead /\ TypeOK
  BY DEF OrderInv, RingInv
<1>2. seq \in Nat
  BY <1>1 DEF TypeOK
<1>3. faults'["save"] = 0 => saved' = seq'
  BY <1>1 DEF Ahead
<1>4. ASSUME Orderly'
      PROVE  /\ \A m \in Msgs' : m.seq <= seq' + 1
             /\ lastSeq' <= seq' + 1 /\ batchSeq' <= seq' + 1
             /\ resp' # None => resp'.seq <= seq' + 1
  <2>1. Orderly
    BY <1>4 DEF Shrinks
  <2>2. /\ \A m \in Msgs : m.seq <= seq + 1
        /\ lastSeq <= seq + 1 /\ batchSeq <= seq + 1 /\ 0 <= seq + 1
        /\ resp # None => resp.seq <= seq + 1
    BY <1>1, <1>2, <2>1 DEF Ahead
  <2> QED  BY <2>2 DEF Shrinks
<1> QED  BY <1>3, <1>4 DEF Ahead

LEMMA RingKept == ASSUME RingInOrder, UNCHANGED <<taken, queue>> PROVE RingInOrder'
  BY DEF RingInOrder

LEMMA FrontKept ==
  ASSUME OrderInv, Shrinks, UNCHANGED <<taken, queue, phase>>
  PROVE  InFront'
<1>1. Known' \subseteq Known /\ \A x, e : Clash(x, e)' => Clash(x, e)
  BY Shrunk
<1> QED  BY <1>1 DEF OrderInv, InFront

(* A step that leaves the agent's ring and number alone. *)
LEMMA Aside ==
  ASSUME OrderInv, TypeOK', Running', Shrinks, UNCHANGED <<next, queue, taken, phase, seq, saved>>,
         faults'["save"] = faults["save"],
         lastSeq' = lastSeq \/ \E m \in Msgs : lastSeq' = m.seq,
         resp' # None => resp' = resp \/ resp'.seq \in {0, lastSeq} \/ \E m \in Msgs : resp'.seq = m.seq
  PROVE  OrderInv'
<1>1. Numbered' /\ Recognised' /\ RowsInOrder'
  BY Shrunk
<1>2. Resent' /\ Past' /\ Ahead' /\ InFront'
  BY LessHeld, StillPast, StillAhead, FrontKept
<1>3. RingInOrder'
  BY RingKept DEF OrderInv, RingInv
<1> QED  BY <1>1, <1>2, <1>3 DEF OrderInv, RingInv

-----------------------------------------------------------------------------
(* The steps of the controller and of the switches. *)
LEMMA SwitchOrder ==
  ASSUME OrderInv, Configure \/ Switch \/ DeleteShare \/ WipeShare
  PROVE  OrderInv'
<1> USE DEF Configure, Switch, DeleteShare, WipeShare
<1>1. TypeOK /\ Running
  BY DEF OrderInv, RingInv
<1>2. TypeOK'
  <2>1. rows' \in Seq(Events)
    BY <1>1, EmptySeq DEF TypeOK
  <2>2. share' \in {"on", "off", "gone", "wiped"} /\ switches' \in Nat
    BY <1>1 DEF TypeOK
  <2>3. enabled' \in BOOLEAN
    <3>1. enabled' = enabled \/ enabled' = (share = "on")
      OBVIOUS
    <3>2. enabled \in BOOLEAN /\ (share = "on") \in BOOLEAN
      BY <1>1 DEF TypeOK
    <3> QED  BY <3>1, <3>2, Zenon
  <2> QED  BY <1>1, <2>1, <2>2, <2>3 DEF TypeOK
<1>3. Running'
  BY <1>1 DEF Running
<1>4. Shrinks /\ faults' = faults /\ lastSeq' = lastSeq /\ resp' = resp
  BY DEF Shrinks, Msgs, Orderly
<1> QED  BY <1>2, <1>3, <1>4, Aside

LEMMA HandleOrder == ASSUME OrderInv, Handle PROVE OrderInv'
<1>1. TypeOK /\ Running /\ handler = None
  BY DEF OrderInv, RingInv, Handle
<1>2. PICK m \in late \cup ({req} \ {None}) :
        LET h == [msg |-> m, awaited |-> m = req, step |-> "store",
                  keep |-> IF share = "on" THEN m.events ELSE <<>>]
        IN /\ req' = IF m = req THEN None ELSE req
           /\ late' = IF m = req THEN late ELSE late \ {m}
           /\ IF Duplicate(m)
              THEN resp' = Answer(h, TRUE, lastSeq) /\ UNCHANGED <<handler, refused>>
              ELSE /\ handler' = h /\ UNCHANGED resp
                   /\ refused' = IF share = "on" THEN refused
                                 ELSE refused \cup Range(m.events)
  BY DEF Handle
<1>3. m \in Msgs /\ m \in Message /\ m.seq \in Nat /\ m.events \in Seq(Events) /\ Range(m.events) \subseteq Events
  <2>1. m \in Msgs
    BY <1>2 DEF Msgs
  <2> QED  BY <1>1, <2>1, Messages, InRange
<1>4. PICK h : h = [msg |-> m, awaited |-> m = req, step |-> "store",
                    keep |-> IF share = "on" THEN m.events ELSE <<>>]
  OBVIOUS
<1>5. h \in Run /\ h.msg = m /\ h.keep \in {<<>>, m.events}
  BY <1>3, <1>4 DEF Run
<1>6. /\ req' \in {req, None} /\ late' \subseteq late /\ handler' \in {None, h}
      /\ resp' = resp \/ resp' = [ok |-> TRUE, seq |-> lastSeq]
      /\ refused' \subseteq refused \cup Range(m.events)
  BY <1>1, <1>2, <1>4 DEF Answer
<1>7. UNCHANGED <<next, agent, db, share, switches, delivered, stored, faults>>
  BY DEF Handle
<1>8. TypeOK'
  <2>1. req' \in Message \cup {None} /\ late' \subseteq Message /\ handler' \in Run \cup {None}
    BY <1>1, <1>5, <1>6 DEF TypeOK
  <2>2. resp' \in Reply \cup {None} /\ refused' \subseteq Events
    <3>1. lastSeq \in Nat /\ resp \in Reply \cup {None} /\ refused \subseteq Events
      BY <1>1 DEF TypeOK
    <3>2. [ok |-> TRUE, seq |-> lastSeq] \in Reply
      BY <3>1 DEF Reply
    <3> QED  BY <1>3, <1>6, <3>1, <3>2
  <2> QED  BY <1>1, <1>7, <2>1, <2>2 DEF TypeOK
<1>9. Running'
  BY <1>1, <1>5, <1>6, <1>7 DEF Running
<1>10. Shrinks
  <2>1. Msgs' \subseteq Msgs
    BY <1>3, <1>5, <1>6 DEF Msgs
  <2> QED  BY <1>7, <2>1 DEF Shrinks, Orderly
<1>11. resp' # None => resp' = resp \/ resp'.seq = lastSeq
  BY <1>6
<1> QED  BY <1>7, <1>8, <1>9, <1>10, <1>11, Aside

LEMMA MarkOrder == ASSUME OrderInv, Mark \/ HandlerFails PROVE OrderInv'
<1>1. TypeOK /\ Running /\ handler # None /\ handler' = None
  BY DEF OrderInv, RingInv, Mark, HandlerFails
<1>2. handler.msg \in Msgs /\ handler.msg.seq \in Nat
  BY <1>1, Messages
<1>3. /\ UNCHANGED <<next, agent, req, late, batchSeq, rows, share, switches, hist>>
      /\ lastSeq' \in {lastSeq, handler.msg.seq} /\ (faults' = faults \/ Fail("db"))
      /\ resp' = resp \/ resp' = [ok |-> TRUE, seq |-> handler.msg.seq] \/ resp' = [ok |-> FALSE, seq |-> 0]
  BY DEF Mark, HandlerFails, Answer
<1>4. faults' \in [FaultKinds -> Nat] /\ (Orderly' => Orderly) /\ faults'["save"] = faults["save"]
  <2>1. CASE faults' = faults
    BY <1>1, <2>1 DEF TypeOK, Orderly
  <2>2. CASE Fail("db")
    BY <1>1, <2>2, Failing DEF FaultKinds
  <2> QED  BY <1>3, <2>1, <2>2
<1>5. TypeOK'
  <2>1. resp' \in Reply \cup {None} /\ lastSeq' \in Nat
    <3>1. lastSeq \in Nat /\ resp \in Reply \cup {None}
      BY <1>1 DEF TypeOK
    <3>2. \A b \in BOOLEAN, n \in Nat : [ok |-> b, seq |-> n] \in Reply
      BY DEF Reply
    <3> QED  BY <1>2, <1>3, <3>1, <3>2
  <2> QED  BY <1>1, <1>3, <1>4, <2>1 DEF TypeOK
<1>6. Running'
  BY <1>1, <1>3 DEF Running
<1>7. Shrinks
  <2>1. Msgs' \subseteq Msgs
    BY <1>1, <1>3 DEF Msgs
  <2> QED  BY <1>3, <1>4, <2>1 DEF Shrinks
<1>8. resp' # None => resp' = resp \/ resp'.seq = 0 \/ resp'.seq = handler.msg.seq
  BY <1>3
<1> QED  BY <1>2, <1>3, <1>4, <1>5, <1>6, <1>7, <1>8, Aside

-----------------------------------------------------------------------------
(* Order of sequences. *)
LEMMA IncreasingJoined ==
  ASSUME NEW s \in Seq(Events), NEW t \in Seq(Events)
  PROVE  Increasing(s \o t) <=>
           Increasing(s) /\ Increasing(t) /\ \A x \in Range(s), y \in Range(t) : x < y
<1> DEFINE u == s \o t
<1>1. /\ Len(s) \in Nat /\ Len(t) \in Nat /\ Len(u) = Len(s) + Len(t)
      /\ DOMAIN s = 1..Len(s) /\ DOMAIN t = 1..Len(t) /\ DOMAIN u = 1..(Len(s) + Len(t))
  OBVIOUS
<1>2. /\ \A i \in 1..Len(s) : u[i] = s[i]
      /\ \A i \in 1..Len(t) : u[Len(s) + i] = t[i]
  BY Joined
<1> HIDE DEF u
<1>3. ASSUME Increasing(u)
      PROVE  Increasing(s) /\ Increasing(t) /\ \A x \in Range(s), y \in Range(t) : x < y
  <2>1. Increasing(s)
    BY <1>1, <1>2, <1>3 DEF Increasing
  <2>2. ASSUME NEW i \in DOMAIN t, NEW j \in DOMAIN t, i < j PROVE t[i] < t[j]
    <3>1. Len(s) + i \in DOMAIN u /\ Len(s) + j \in DOMAIN u /\ Len(s) + i < Len(s) + j
      BY <1>1, <2>2
    <3> QED  BY <1>1, <1>2, <1>3, <3>1 DEF Increasing
  <2>3. ASSUME NEW x \in Range(s), NEW y \in Range(t) PROVE x < y
    <3>1. PICK i \in DOMAIN s, j \in DOMAIN t : s[i] = x /\ t[j] = y
      BY DEF Range
    <3>2. i \in DOMAIN u /\ Len(s) + j \in DOMAIN u /\ i < Len(s) + j
      BY <1>1
    <3> QED  BY <1>1, <1>2, <1>3, <3>1, <3>2 DEF Increasing
  <2> QED  BY <2>1, <2>2, <2>3 DEF Increasing
<1>4. ASSUME Increasing(s), Increasing(t), \A x \in Range(s), y \in Range(t) : x < y,
             NEW i \in DOMAIN u, NEW j \in DOMAIN u, i < j
      PROVE  u[i] < u[j]
  <2>1. CASE j <= Len(s)
    <3>1. i \in DOMAIN s /\ j \in DOMAIN s
      BY <1>1, <1>4, <2>1
    <3> QED  BY <1>1, <1>2, <1>4, <3>1 DEF Increasing
  <2>2. CASE j > Len(s)
    <3>1. PICK b \in DOMAIN t : j = Len(s) + b
      <4>1. j - Len(s) \in DOMAIN t /\ j = Len(s) + (j - Len(s))
        BY <1>1, <2>2
      <4> QED  BY <4>1
    <3>2. u[j] = t[b] /\ t[b] \in Range(t)
      BY <1>1, <1>2, <3>1 DEF Range
    <3>3. CASE i <= Len(s)
      <4>1. i \in DOMAIN s /\ u[i] = s[i] /\ s[i] \in Range(s)
        BY <1>1, <1>2, <3>3 DEF Range
      <4> QED  BY <1>4, <3>2, <4>1
    <3>4. CASE i > Len(s)
      <4>1. PICK a \in DOMAIN t : i = Len(s) + a
        <5>1. i - Len(s) \in DOMAIN t /\ i = Len(s) + (i - Len(s))
          BY <1>1, <3>4
        <5> QED  BY <5>1
      <4>2. a < b /\ u[i] = t[a]
        BY <1>1, <1>2, <1>4, <3>1, <4>1
      <4> QED  BY <1>4, <3>2, <4>2 DEF Increasing
    <3> QED  BY <1>1, <3>3, <3>4
  <2> QED  BY <1>1, <2>1, <2>2
<1>5. Increasing(u) <=> Increasing(s) /\ Increasing(t) /\ \A x \in Range(s), y \in Range(t) : x < y
  BY <1>3, <1>4 DEF Increasing
<1> QED  BY <1>5 DEF u

LEMMA ShiftIncreasing ==
  ASSUME NEW p \in Seq(Events), NEW q \in Seq(Events), NEW k, Shift(p, q, k)
  PROVE  Range(q) \subseteq Range(p) /\ (Increasing(p) => Increasing(q))
<1>1. /\ Len(p) \in Nat /\ Len(q) \in Nat /\ k \in 0..Len(p) /\ Len(q) = Len(p) - k
      /\ DOMAIN p = 1..Len(p) /\ DOMAIN q = 1..Len(q)
  BY DEF Shift
<1>2. \A i \in DOMAIN q : q[i] = p[k + i] /\ k + i \in DOMAIN p
  BY <1>1 DEF Shift
<1>3. Range(q) \subseteq Range(p)
  BY <1>2 DEF Range
<1>4. ASSUME Increasing(p), NEW i \in DOMAIN q, NEW j \in DOMAIN q, i < j PROVE q[i] < q[j]
  <2>1. k + i \in DOMAIN p /\ k + j \in DOMAIN p /\ k + i < k + j
    BY <1>1, <1>2, <1>4
  <2> QED  BY <1>2, <1>4, <2>1 DEF Increasing
<1> QED  BY <1>3, <1>4 DEF Increasing

LEMMA EmptyFront == ASSUME NEW q \in Seq(Events) PROVE <<>> \o q = q /\ <<>> \in Seq(Events) /\ Len(<<>>) = 0
  BY ConcatEmptySeq, EmptySeq

LEMMA DistinctJoined ==
  ASSUME NEW s \in Seq(Events), NEW t \in Seq(Events),
         \A i, j \in DOMAIN s : s[i] = s[j] => i = j,
         \A i, j \in DOMAIN t : t[i] = t[j] => i = j,
         \A x \in Range(s), y \in Range(t) : x # y
  PROVE  \A i, j \in DOMAIN (s \o t) : (s \o t)[i] = (s \o t)[j] => i = j
<1> DEFINE u == s \o t
<1>1. /\ Len(s) \in Nat /\ Len(t) \in Nat /\ Len(u) = Len(s) + Len(t)
      /\ DOMAIN s = 1..Len(s) /\ DOMAIN t = 1..Len(t) /\ DOMAIN u = 1..(Len(s) + Len(t))
  OBVIOUS
<1>2. /\ \A i \in 1..Len(s) : u[i] = s[i]
      /\ \A i \in 1..Len(t) : u[Len(s) + i] = t[i]
  BY Joined
<1> HIDE DEF u
<1>3. ASSUME NEW i \in DOMAIN u
      PROVE  \/ i \in DOMAIN s /\ u[i] = s[i] /\ s[i] \in Range(s)
             \/ \E a \in DOMAIN t : i = Len(s) + a /\ u[i] = t[a] /\ t[a] \in Range(t)
  <2>1. CASE i <= Len(s)
    BY <1>1, <1>2, <2>1 DEF Range
  <2>2. CASE i > Len(s)
    <3>1. i - Len(s) \in DOMAIN t /\ i = Len(s) + (i - Len(s))
      BY <1>1, <2>2
    <3> QED  BY <1>1, <1>2, <3>1 DEF Range
  <2> QED  BY <1>1, <2>1, <2>2
<1>4. ASSUME NEW i \in DOMAIN u, NEW j \in DOMAIN u, u[i] = u[j] PROVE i = j
  BY <1>3, <1>4
<1> QED  BY <1>4 DEF u

LEMMA StoreOrder == ASSUME OrderInv, Store PROVE OrderInv'
<1>1. TypeOK /\ Running /\ handler # None /\ handler \in Run /\ handler.msg \in Msgs
      /\ handler.msg \in Message
  BY Messages DEF OrderInv, RingInv, Store
<1>2. PICK msg : msg = handler.msg
  OBVIOUS
<1>3. /\ msg \in Msgs /\ msg.seq \in Nat /\ msg.events \in Seq(Events)
      /\ handler.keep \in {<<>>, msg.events}
  BY <1>1, <1>2, Messages DEF Running
<1>4. /\ handler' \in Run /\ handler'.msg = msg /\ handler'.keep = handler.keep
      /\ UNCHANGED <<next, agent, wire, lastSeq, share, switches, delivered, refused, faults>>
  BY <1>1, <1>2 DEF Store, Run
<1>5. handler' # None
  BY <1>4, NoneAssumption
<1>6. Msgs' = Msgs /\ Running' /\ (Orderly' <=> Orderly)
  BY <1>1, <1>2, <1>3, <1>4, <1>5 DEF Msgs, Running, Orderly
<1>7. CASE UNCHANGED <<rows, batchSeq, stored>>
  <2>1. TypeOK'
    BY <1>1, <1>4, <1>7 DEF TypeOK
  <2>2. Shrinks
    BY <1>6, <1>7 DEF Shrinks
  <2> QED  BY <1>4, <1>6, <2>1, <2>2, Aside
<1>8. CASE /\ handler.keep # <<>> /\ ~BatchSeen(handler)
           /\ rows' = rows \o handler.keep /\ batchSeq' = msg.seq
           /\ stored' = stored \cup Range(handler.keep)
  <2>1. /\ rows' = rows \o msg.events /\ msg.seq > batchSeq /\ batchSeq' = msg.seq
        /\ stored' = stored \cup Range(msg.events)
    <3>1. handler.keep = msg.events
      BY <1>3, <1>8
    <3>2. batchSeq \in Nat /\ ~(msg.seq <= batchSeq)
      BY <1>1, <1>2, <1>8 DEF BatchSeen, TypeOK
    <3> QED  BY <1>3, <1>8, <3>1, <3>2
  <2>2. rows \in Seq(Events) /\ batchSeq \in Nat /\ seq \in Nat
    BY <1>1 DEF TypeOK
  <2>3. Range(rows') = Range(rows) \cup Range(msg.events) /\ rows' \in Seq(Events)
    BY <1>3, <2>1, <2>2, Joined
  <2>4. Known' = Known
    BY <1>3, <1>6, <2>3 DEF Known
  <2>5. \A x, e : Clash(x, e)' <=> Clash(x, e)
    BY <1>6 DEF Clash
  <2>6. \A m \in Msgs : m.seq \in Nat /\ Range(m.events) \subseteq Events
    BY <1>1, Messages, Numerals
  <2>7. TypeOK'
    <3>1. stored' \subseteq Events
      BY <1>1, <1>3, <2>1, <2>6 DEF TypeOK
    <3> QED  BY <1>1, <1>3, <1>4, <2>1, <2>3, <3>1 DEF TypeOK
  <2>8. Past' /\ RingInOrder'
    BY <1>4, <1>6, <2>4 DEF OrderInv, RingInv, Past, RingInOrder
  <2>9. Numbered'
    BY <1>6, <2>5 DEF OrderInv, Numbered
  <2>10. Recognised'
    <3>1. ASSUME NEW m \in Msgs, NEW x \in Range(m.events), NEW e \in Range(rows'), Clash(x, e)
          PROVE  m.seq <= msg.seq
      <4>1. CASE e \in Range(rows)
        BY <1>3, <2>1, <2>2, <2>6, <3>1, <4>1 DEF OrderInv, Recognised
      <4>2. CASE e \in Range(msg.events)
        BY <1>3, <3>1, <4>2 DEF OrderInv, Numbered
      <4> QED  BY <2>3, <4>1, <4>2
    <3> QED  BY <1>6, <2>1, <2>5, <3>1 DEF Recognised
  <2>11. Resent'
    <3>1. ASSUME NEW x \in Range(taken) \cup Range(queue), NEW e \in Range(rows'), Clash(x, e)
          PROVE  seq + 1 <= msg.seq
      <4>1. CASE e \in Range(rows)
        <5>1. seq + 1 <= batchSeq
          BY <3>1, <4>1 DEF OrderInv, Resent
        <5> QED  BY <1>3, <2>1, <2>2, <5>1
      <4>2. CASE e \in Range(msg.events)
        BY <1>3, <3>1, <4>2 DEF OrderInv, Resent
      <4> QED  BY <2>3, <4>1, <4>2
    <3>2. Resent
      BY DEF OrderInv
    <3> QED  BY <1>4, <1>6, <2>1, <2>5, <3>1, <3>2 DEF Resent
  <2>12. InFront'
    BY <1>4, <2>4, <2>5 DEF OrderInv, InFront
  <2>13. Ahead'
    BY <1>3, <1>4, <1>6, <2>1 DEF OrderInv, Ahead
  <2>14. RowsInOrder'
    <3>1. ASSUME NEW x \in Range(msg.events), NEW e \in Range(rows) PROVE ~Clash(x, e)
      BY <1>3, <2>1, <2>2, <3>1 DEF OrderInv, Recognised
    <3>2. Increasing(msg.events)
      BY <1>3 DEF OrderInv, RingInv, Past
    <3>3. \A i, j \in DOMAIN msg.events : msg.events[i] = msg.events[j] => i = j
      <4>1. \A i \in DOMAIN msg.events : msg.events[i] \in Nat /\ i \in Nat
        BY <1>3, Constants
      <4> QED  BY <3>2, <4>1 DEF Increasing
    <3>4. \A i, j \in DOMAIN rows : rows[i] = rows[j] => i = j
      BY DEF OrderInv, RowsInOrder
    <3>5. \A x \in Range(rows), y \in Range(msg.events) : x # y
      BY <3>1 DEF Clash
    <3>6. \A i, j \in DOMAIN rows' : rows'[i] = rows'[j] => i = j
      BY <1>3, <2>1, <2>2, <3>3, <3>4, <3>5, DistinctJoined
    <3>7. ASSUME Orderly PROVE Increasing(rows')
      <4>1. Increasing(rows)
        BY <3>7 DEF OrderInv, RowsInOrder, Orderly
      <4>2. Range(rows) \subseteq Nat /\ Range(msg.events) \subseteq Nat
        BY <1>1, <1>3, <2>6, Numerals, Constants
      <4>3. \A x \in Range(rows), y \in Range(msg.events) : x < y
        BY <3>1, <3>7, <4>2 DEF Clash
      <4> QED  BY <1>3, <2>1, <2>2, <3>2, <4>1, <4>3, IncreasingJoined
    <3> QED  BY <1>4, <3>6, <3>7 DEF RowsInOrder, Orderly
  <2> QED  BY <1>6, <2>7, <2>8, <2>9, <2>10, <2>11, <2>12, <2>13, <2>14 DEF OrderInv, RingInv
<1> QED  BY <1>2, <1>7, <1>8 DEF Store

-----------------------------------------------------------------------------
(* The steps of the agent that send nothing.  What it holds stays the same or
   shrinks, and what was sent before stays in front. *)
LEMMA LocalStep ==
  ASSUME OrderInv, TypeOK', Shrinks, UNCHANGED <<rows, next, seq, saved, lastSeq>>,
         faults'["save"] = faults["save"], resp' \in {resp, None},
         Running', RingInOrder', InFront',
         Range(taken') \cup Range(queue') \subseteq Range(taken) \cup Range(queue)
  PROVE  OrderInv'
<1>1. Numbered' /\ Recognised' /\ RowsInOrder'
  BY Shrunk
<1>2. Resent' /\ Past' /\ Ahead'
  BY LessHeld, StillPast, StillAhead
<1> QED  BY <1>1, <1>2 DEF OrderInv, RingInv

LEMMA ClearQueueOrder == ASSUME OrderInv, ClearQueue PROVE OrderInv'
<1> USE DEF ClearQueue
<1>1. TypeOK /\ Running /\ RingInOrder /\ taken \in Seq(Events) /\ queue \in Seq(Events)
  BY DEF OrderInv, RingInv, TypeOK
<1>2. queue' = <<>> /\ queue' \in Seq(Events) /\ Len(queue') = 0 /\ Range(queue') = {}
  BY EmptyFront, EmptyRange
<1>3. TypeOK'
  BY <1>1, <1>2, Constants DEF TypeOK
<1>4. Shrinks /\ Msgs' = Msgs /\ Running'
  BY <1>1 DEF Shrinks, Msgs, Running, Orderly
<1>5. RingInOrder'
  <2>0. Increasing(queue')
    BY <1>2 DEF Increasing
  <2>1. Increasing(taken) /\ Increasing(queue')
    BY <1>1, <2>0, IncreasingJoined DEF RingInOrder
  <2>2. Increasing(taken \o queue')
    BY <1>1, <1>2, <2>1, IncreasingJoined
  <2> QED  BY <2>2 DEF RingInOrder
<1>6. InFront'
  BY <1>2 DEF InFront
<1> QED  BY <1>2, <1>3, <1>4, <1>5, <1>6, LocalStep

LEMMA TakeHalfOrder == ASSUME OrderInv, TakeHalf PROVE OrderInv'
<1> DEFINE n == IF BatchSize \div 2 > 1 THEN BatchSize \div 2 ELSE 1
<1>1. TypeOK /\ Running /\ RingInOrder /\ queue \in Seq(Events) /\ Len(queue) \in Nat
      /\ Len(queue) <= QueueSlots
  BY Numerals DEF OrderInv, RingInv, TypeOK
<1>2. n \in Nat /\ n <= BatchSize /\ n >= 1
  BY Constants
<1>3. /\ taken' = Taken(queue, n) /\ queue' = Rest(queue, n) /\ taken = <<>>
      /\ phase' = "half"
      /\ UNCHANGED <<next, dropped, enabled, seq, saved, wire, handler, db, share, switches,
                     hist, faults>>
  BY <1>1 DEF TakeHalf, Running
<1> HIDE DEF n
<1>4. /\ taken' \in Seq(Events) /\ queue' \in Seq(Events)
      /\ Len(taken') = IF n < Len(queue) THEN n ELSE Len(queue)
      /\ Len(queue') = IF n < Len(queue) THEN Len(queue) - n ELSE 0
      /\ \A i \in 1..Len(queue') : queue'[i] = queue[n + i]
  BY <1>1, <1>2, <1>3, Split
<1>5. taken' \o queue' = queue
  BY <1>1, <1>2, <1>3, SplitJoined
<1>6. TypeOK'
  <2>1. Len(taken') <= BatchSize /\ Len(queue') <= QueueSlots
    BY <1>1, <1>2, <1>4, Constants
  <2> QED  BY <1>1, <1>3, <1>4, <2>1 DEF TypeOK
<1>7. Shrinks /\ Msgs' = Msgs /\ Running'
  BY <1>1, <1>3 DEF Shrinks, Msgs, Running, Orderly
<1>8. RingInOrder'
  <2>1. taken \o queue = queue
    BY <1>1, <1>3, EmptyFront
  <2> QED  BY <1>1, <1>5, <2>1 DEF RingInOrder
<1>9. Range(taken') \cup Range(queue') = Range(queue)
  BY <1>4, <1>5, Joined
<1>10. InFront'
  <2>1. Known' = Known /\ \A x, e : Clash(x, e)' <=> Clash(x, e)
    BY <1>3, <1>7 DEF Known, Clash, Orderly
  <2>2. ASSUME NEW i \in DOMAIN queue', NEW e \in Known, Clash(queue'[i], e)
        PROVE  Len(taken') + i <= BatchSize
    <3>1. i \in 1..Len(queue') /\ n < Len(queue) /\ Len(taken') = n
      BY <1>1, <1>2, <1>4
    <3>2. queue'[i] = queue[n + i] /\ n + i \in DOMAIN queue
      BY <1>1, <1>2, <1>4, <3>1
    <3>3. Len(taken) + (n + i) <= BatchSize /\ Len(taken) = 0
      BY <1>3, <2>2, <3>2, EmptyFront DEF OrderInv, InFront
    <3> QED  BY <1>2, <3>1, <3>3, Constants
  <2> QED  BY <1>3, <2>1, <2>2 DEF InFront
<1> QED  BY <1>3, <1>6, <1>7, <1>8, <1>9, <1>10, LocalStep

LEMMA LogOrder == ASSUME OrderInv, Log PROVE OrderInv'
<1> DEFINE p == queue \o <<next>>
           k == IF Len(queue) >= QueueSlots THEN 1 ELSE 0
<1>1. /\ TypeOK /\ Running /\ RingInOrder /\ queue \in Seq(Events) /\ taken \in Seq(Events)
      /\ Len(queue) \in Nat /\ Len(taken) \in Nat /\ Len(queue) <= QueueSlots
  BY Numerals DEF OrderInv, RingInv, TypeOK
<1>2. next \in Events /\ next \in Nat /\ next' = next + 1 /\ queue' = Pushed(queue, next)
      /\ dropped' = dropped \cup Evicted(queue)
      /\ UNCHANGED <<enabled, phase, taken, seq, saved, wire, handler, db, share, switches,
                     hist, faults>>
  BY <1>1, Constants DEF Log, TypeOK
<1>3. queue' \in Seq(Events) /\ Shift(p, queue', k) /\ Len(queue') <= QueueSlots
  BY <1>1, <1>2, PushedShifts
<1>4. /\ p \in Seq(Events) /\ Len(p) = Len(queue) + 1 /\ p[Len(queue) + 1] = next
      /\ \A i \in 1..Len(queue) : p[i] = queue[i]
      /\ Range(p) = Range(queue) \cup {next} /\ <<next>> \in Seq(Events) /\ Range(<<next>>) = {next}
  <2>1. <<next>> \in Seq(Events) /\ Len(<<next>>) = 1 /\ <<next>>[1] = next /\ Range(<<next>>) = {next}
    BY <1>2 DEF Range
  <2> QED  BY <1>1, <2>1, Joined
<1>5. Range(queue') \subseteq Range(queue) \cup {next}
  BY <1>3, <1>4, ShiftIncreasing
<1>6. Msgs' = Msgs /\ Known' = Known /\ \A x, e : Clash(x, e)' <=> Clash(x, e)
  BY <1>2 DEF Msgs, Known, Clash, Orderly
<1>7. Past /\ \A x \in Known \cup Range(taken) \cup Range(queue) : x < next /\ x \in Nat
  BY <1>1, Numerals, Constants DEF OrderInv, RingInv, Past
<1>8. \A e \in Known : ~Clash(next, e)
  BY <1>2, <1>7 DEF Clash
<1>9. TypeOK' /\ Running'
  <2>1. dropped' \subseteq Events
    <3>1. queue # <<>> => Head(queue) \in Events
      BY <1>1
    <3>2. Len(queue) >= QueueSlots => queue # <<>>
      BY Constants
    <3> QED  BY <1>1, <1>2, <3>1, <3>2 DEF Evicted, TypeOK
  <2>2. next' \in 1..(MaxEvents + 1)
    BY <1>2, Constants
  <2> QED  BY <1>1, <1>2, <1>3, <2>1, <2>2 DEF TypeOK, Running
<1>10. Past'
  <2>1. \A x \in Known \cup Range(taken) \cup Range(queue') : x < next + 1
    BY <1>2, <1>5, <1>7
  <2> QED  BY <1>2, <1>6, <1>7, <2>1 DEF Past
<1>11. RingInOrder'
  <2>1. /\ Increasing(taken) /\ Increasing(queue)
        /\ \A x \in Range(taken), y \in Range(queue) : x < y
    BY <1>1, IncreasingJoined DEF RingInOrder
  <2>2. Increasing(<<next>>)
    BY DEF Increasing
  <2>3. Increasing(p)
    <3>1. \A x \in Range(queue), y \in Range(<<next>>) : x < y
      BY <1>4, <1>7
    <3> QED  BY <1>1, <1>4, <2>1, <2>2, <3>1, IncreasingJoined
  <2>4. Increasing(queue')
    BY <1>3, <1>4, <2>3, ShiftIncreasing
  <2>5. \A x \in Range(taken), y \in Range(queue') : x < y
    BY <1>5, <1>7, <2>1
  <2>6. Increasing(taken \o queue')
    BY <1>1, <1>3, <2>1, <2>4, <2>5, IncreasingJoined
  <2> QED  BY <1>2, <2>6 DEF RingInOrder
<1>12. Numbered' /\ Recognised' /\ RowsInOrder'
  BY <1>2, <1>6 DEF OrderInv, Numbered, Recognised, RowsInOrder
<1>13. Ahead'
  BY <1>2, <1>6 DEF OrderInv, Ahead, Orderly
<1>14. Resent'
  <2>1. Resent
    BY DEF OrderInv
  <2>2. /\ \A m \in Msgs : Range(m.events) \subseteq Known
        /\ Range(rows) \subseteq Known
    BY DEF Known
  <2>3. \A e \in Known : ~Clash(next, e) /\ next # e
    BY <1>8 DEF Clash
  <2> QED  BY <1>2, <1>5, <1>6, <2>1, <2>2, <2>3 DEF Resent
<1>15. InFront'
  <2>1. ASSUME NEW i \in DOMAIN queue', NEW e \in Known, Clash(queue'[i], e)
        PROVE  phase # "wait" /\ Len(taken) + i <= BatchSize
    <3>0. k \in {0, 1}
      OBVIOUS
    <3> HIDE DEF k, p
    <3>1. k \in Nat /\ i \in Nat /\ queue'[i] = p[k + i] /\ k + i \in 1..Len(p)
      <4>1. /\ i \in 1..Len(queue') /\ Len(queue') = Len(p) - k /\ Len(p) \in Nat
            /\ \A j \in 1..Len(queue') : queue'[j] = p[k + j]
        BY <1>3, <1>4 DEF Shift
      <4> QED  BY <3>0, <4>1
    <3>2. k + i # Len(queue) + 1
      BY <1>4, <1>8, <2>1, <3>1
    <3>3. k + i \in DOMAIN queue /\ queue'[i] = queue[k + i]
      BY <1>1, <1>4, <3>1, <3>2
    <3>4. phase # "wait" /\ Len(taken) + (k + i) <= BatchSize
      BY <2>1, <3>3 DEF OrderInv, InFront
    <3>5. Len(taken) \in Nat /\ BatchSize \in Nat
      BY <1>1, Constants
    <3> QED  BY <3>1, <3>4, <3>5
  <2> QED  BY <1>2, <1>6, <2>1 DEF InFront
<1> QED  BY <1>9, <1>10, <1>11, <1>12, <1>13, <1>14, <1>15 DEF OrderInv, RingInv

-----------------------------------------------------------------------------
(* The steps of an upload. *)
LEMMA UploadOrder == ASSUME OrderInv, Upload PROVE OrderInv'
<1> DEFINE n == BatchSize - Len(taken)
           new == [seq |-> seq + 1, events |-> taken']
<1>1. /\ TypeOK /\ Running /\ RingInOrder /\ queue \in Seq(Events) /\ taken \in Seq(Events)
      /\ Len(queue) \in Nat /\ Len(taken) \in Nat /\ Len(taken) <= BatchSize
      /\ Len(queue) <= QueueSlots /\ seq \in Nat
  BY Numerals DEF OrderInv, RingInv, TypeOK
<1>2. n \in Nat /\ Len(taken) + n = BatchSize
  BY <1>1, Constants
<1>3. /\ taken' = taken \o Taken(queue, n) /\ queue' = Rest(queue, n)
      /\ req' = new /\ resp' = None /\ phase' = "wait"
      /\ UNCHANGED <<next, dropped, enabled, seq, saved, late, handler, db, share, switches,
                     hist, faults>>
  BY DEF Upload
<1> HIDE DEF n
<1>4. /\ Taken(queue, n) \in Seq(Events) /\ queue' \in Seq(Events)
      /\ Len(Taken(queue, n)) = IF n < Len(queue) THEN n ELSE Len(queue)
      /\ Len(queue') = IF n < Len(queue) THEN Len(queue) - n ELSE 0
      /\ \A i \in 1..Len(queue') : queue'[i] = queue[n + i]
  BY <1>1, <1>2, <1>3, Split
<1>5. taken' \in Seq(Events) /\ Len(taken') <= BatchSize
  <2>1. taken' \in Seq(Events) /\ Len(taken') = Len(taken) + Len(Taken(queue, n))
    BY <1>1, <1>3, <1>4, Joined
  <2> QED  BY <1>1, <1>2, <1>4, <2>1, Constants
<1>6. taken' \o queue' = taken \o queue
  <2>1. Taken(queue, n) \o queue' = queue
    BY <1>1, <1>2, <1>3, SplitJoined
  <2>2. taken' \o queue' = taken \o (Taken(queue, n) \o queue')
    <3>1. \A a, b, c \in Seq(Events) : (a \o b) \o c = a \o (b \o c)
      BY ConcatAssociative
    <3> QED  BY <1>1, <1>3, <1>4, <3>1
  <2> QED  BY <2>1, <2>2
<1>7. Range(taken') \cup Range(queue') = Range(taken) \cup Range(queue)
  <2>1. /\ Range(taken' \o queue') = Range(taken') \cup Range(queue')
        /\ Range(taken \o queue) = Range(taken) \cup Range(queue)
    BY <1>1, <1>4, <1>5, Joined
  <2> QED  BY <1>6, <2>1
<1>8. /\ Increasing(taken' \o queue') /\ Increasing(taken')
      /\ \A x \in Range(taken'), y \in Range(queue') : x < y
  <2>1. Increasing(taken' \o queue')
    BY <1>1, <1>6 DEF RingInOrder
  <2> QED  BY <1>4, <1>5, <2>1, IncreasingJoined
<1>9. new \in Message /\ new.seq = seq + 1 /\ new.events = taken' /\ new # None
  <2>1. seq + 1 \in Nat
    BY <1>1
  <2>2. new \in Message
    BY <1>5, <2>1 DEF Message
  <2> QED  BY <2>2, NoneAssumption
<1> HIDE DEF new
<1>10. Msgs' \subseteq Msgs \cup {new} /\ \A x, e : Clash(x, e)' <=> Clash(x, e)
  BY <1>3 DEF Msgs, Clash, Orderly
<1>11. Known' \subseteq Known \cup Range(taken')
  BY <1>3, <1>9, <1>10 DEF Known
<1>12. TypeOK' /\ Running'
  <2>1. Len(queue') <= QueueSlots
    BY <1>1, <1>2, <1>4, Constants
  <2> QED  BY <1>1, <1>3, <1>4, <1>5, <1>9, <2>1 DEF TypeOK, Running
<1>13. Past' /\ RingInOrder' /\ RowsInOrder'
  <2>1. Past /\ RowsInOrder
    BY DEF OrderInv, RingInv
  <2>2. \A m \in Msgs' : Increasing(m.events)
    BY <1>8, <1>9, <1>10, <2>1 DEF Past
  <2>3. \A x \in Known' \cup Range(taken') \cup Range(queue') : x < next
    BY <1>7, <1>11, <2>1 DEF Past
  <2>4. Past'
    BY <1>3, <2>2, <2>3 DEF Past
  <2>5. RowsInOrder'
    BY <1>3, <2>1 DEF RowsInOrder
  <2> QED  BY <1>8, <2>4, <2>5 DEF RingInOrder
<1>14. \A m \in Msgs : \A x \in Range(taken'), e \in Range(m.events) :
         /\ Clash(x, e) => seq + 1 <= m.seq
         /\ Clash(e, x) => m.seq <= seq + 1
  <2> SUFFICES ASSUME NEW m \in Msgs, NEW x \in Range(taken'), NEW e \in Range(m.events)
               PROVE  /\ Clash(x, e) => seq + 1 <= m.seq
                      /\ Clash(e, x) => m.seq <= seq + 1
    OBVIOUS
  <2>1. x \in Range(taken) \cup Range(queue)
    BY <1>7
  <2>2. (Clash(x, e) => seq + 1 <= m.seq) /\ (x = e => m.seq <= seq + 1)
    BY <2>1 DEF OrderInv, Resent
  <2>3. Orderly => m.seq <= seq + 1
    BY DEF OrderInv, Ahead
  <2> QED  BY <2>2, <2>3 DEF Clash
<1>15. Numbered'
  <2>1. ASSUME NEW m \in Msgs', NEW k \in Msgs', NEW x \in Range(m.events), NEW e \in Range(k.events),
               Clash(x, e)
        PROVE  m.seq <= k.seq
    <3>1. CASE m \in Msgs /\ k \in Msgs
      BY <2>1, <3>1 DEF OrderInv, Numbered
    <3>2. CASE m = new /\ k \in Msgs
      BY <1>9, <1>14, <2>1, <3>2
    <3>3. CASE m \in Msgs /\ k = new
      BY <1>9, <1>14, <2>1, <3>3
    <3>4. CASE m = new /\ k = new
      BY <1>1, <1>9, <3>4
    <3> QED  BY <1>10, <3>1, <3>2, <3>3, <3>4
  <2> QED  BY <1>10, <2>1 DEF Numbered
<1>16. Recognised'
  <2>1. ASSUME NEW m \in Msgs', NEW x \in Range(m.events), NEW e \in Range(rows), Clash(x, e)
        PROVE  m.seq <= batchSeq
    <3>1. CASE m \in Msgs
      BY <2>1, <3>1 DEF OrderInv, Recognised
    <3>2. CASE m = new
      <4>1. x \in Range(taken) \cup Range(queue)
        BY <1>7, <1>9, <2>1, <3>2
      <4> QED  BY <1>9, <2>1, <3>2, <4>1 DEF OrderInv, Resent
    <3> QED  BY <1>10, <3>1, <3>2
  <2> QED  BY <1>3, <1>10, <2>1 DEF Recognised
<1>17. Resent'
  <2>1. ASSUME NEW x \in Range(taken') \cup Range(queue'), NEW m \in Msgs', NEW e \in Range(m.events)
        PROVE  (Clash(x, e) => seq + 1 <= m.seq) /\ (x = e => m.seq <= seq + 1)
    <3>1. CASE m \in Msgs
      BY <1>7, <2>1, <3>1 DEF OrderInv, Resent
    <3>2. CASE m = new
      BY <1>1, <1>9, <3>2
    <3> QED  BY <1>10, <3>1, <3>2
  <2>2. \A x \in Range(taken') \cup Range(queue'), e \in Range(rows) : Clash(x, e) => seq + 1 <= batchSeq
    BY <1>7 DEF OrderInv, Resent
  <2> QED  BY <1>3, <1>10, <2>1, <2>2 DEF Resent
<1>18. InFront'
  <2>1. ASSUME NEW i \in DOMAIN queue', NEW e \in Known' PROVE ~Clash(queue'[i], e)
    <3>1. i \in 1..Len(queue') /\ n < Len(queue) /\ queue'[i] \in Range(queue') /\ i \in Nat /\ i >= 1
      BY <1>1, <1>2, <1>4 DEF Range
    <3>2. queue'[i] = queue[n + i] /\ n + i \in DOMAIN queue
      BY <1>1, <1>2, <1>4, <3>1
    <3>3. CASE e \in Known
      <4>1. Clash(queue[n + i], e) => Len(taken) + (n + i) <= BatchSize
        BY <3>2, <3>3 DEF OrderInv, InFront
      <4>2. ~(Len(taken) + (n + i) <= BatchSize)
        BY <1>1, <1>2, <3>1
      <4> QED  BY <3>2, <4>1, <4>2
    <3>4. CASE e \in Range(taken')
      <4>1. e < queue'[i] /\ e \in Nat /\ queue'[i] \in Nat
        BY <1>4, <1>5, <1>8, <3>1, <3>4, InRange, Constants
      <4> QED  BY <4>1 DEF Clash
    <3> QED  BY <1>11, <3>3, <3>4
  <2> QED  BY <1>10, <2>1 DEF InFront
<1>19. Ahead'
  <2>1. Ahead
    BY DEF OrderInv
  <2>2. Orderly => \A m \in Msgs' : m.seq <= seq + 1
    BY <1>1, <1>9, <1>10, <2>1 DEF Ahead
  <2> QED  BY <1>3, <2>1, <2>2 DEF Ahead, Orderly
<1> QED  BY <1>12, <1>13, <1>15, <1>16, <1>17, <1>18, <1>19 DEF OrderInv, RingInv

LEMMA AckedOrder == ASSUME OrderInv, Acked PROVE OrderInv'
<1>1. /\ TypeOK /\ Running /\ RingInOrder /\ queue \in Seq(Events) /\ taken \in Seq(Events)
      /\ seq \in Nat /\ resp \in Reply /\ resp.seq \in Nat /\ phase = "wait"
  <2>1. TypeOK /\ Running /\ RingInOrder /\ phase = "wait" /\ resp # None
    BY DEF OrderInv, RingInv, Acked
  <2>2. resp \in Reply
    BY <2>1 DEF TypeOK
  <2> QED  BY <2>1, <2>2 DEF TypeOK, Reply
<1>2. /\ taken' = <<>> /\ phase' = "idle" /\ resp' = None /\ seq' = AckedSeq(resp.seq)
      /\ delivered' = delivered \cup Range(taken)
      /\ UNCHANGED <<next, queue, dropped, enabled, req, late, handler, db, share, switches,
                     stored, refused>>
      /\ (saved' = seq' /\ faults' = faults) \/ (saved' = saved /\ Fail("save"))
  BY DEF Acked
<1>3. seq' \in Nat /\ seq' >= seq + 1 /\ (resp.seq <= seq + 1 => seq' = seq + 1)
  BY <1>1, <1>2 DEF AckedSeq
<1>4. /\ faults' \in [FaultKinds -> Nat] /\ (Orderly' => Orderly) /\ saved' \in Nat
      /\ faults'["save"] = 0 => saved' = seq'
  <2>1. CASE saved' = seq' /\ faults' = faults
    BY <1>1, <1>3, <2>1 DEF TypeOK, Orderly
  <2>2. CASE saved' = saved /\ Fail("save")
    BY <1>1, <2>2, Failing DEF FaultKinds, TypeOK
  <2> QED  BY <1>2, <2>1, <2>2
<1>5. Shrinks
  BY <1>2, <1>4 DEF Shrinks, Msgs
<1>6. Range(taken') = {} /\ taken' \in Seq(Events) /\ Len(taken') = 0 /\ taken' \o queue' = queue
  BY <1>1, <1>2, EmptyRange, EmptyFront
<1>7. TypeOK' /\ Running'
  <2>1. delivered' \subseteq Events
    BY <1>1, <1>2, Numerals DEF TypeOK
  <2>2. Len(taken') <= BatchSize
    BY <1>6, Constants
  <2> QED  BY <1>1, <1>2, <1>3, <1>4, <1>6, <2>1, <2>2 DEF TypeOK, Running
<1>8. RingInOrder'
  <2>1. Increasing(queue)
    BY <1>1, IncreasingJoined DEF RingInOrder
  <2> QED  BY <1>6, <2>1 DEF RingInOrder
<1>9. /\ Numbered' /\ Recognised' /\ RowsInOrder' /\ Known' \subseteq Known
      /\ \A x, e : Clash(x, e)' => Clash(x, e)
  BY <1>5, Shrunk
<1>10. Past'
  BY <1>2, <1>5, <1>6, StillPast
<1>11. \A x \in Range(queue), e \in Known : ~Clash(x, e)
  <2>1. \A i \in DOMAIN queue, e \in Known : ~Clash(queue[i], e)
    BY <1>1 DEF OrderInv, InFront
  <2> QED  BY <1>1, <2>1, InRange
<1>12. Resent'
  <2>1. \A x \in Range(queue), e \in Known' : ~Clash(x, e)' /\ x # e
    BY <1>9, <1>11 DEF Clash
  <2>2. /\ \A m \in Msgs' : Range(m.events) \subseteq Known'
        /\ Range(rows') \subseteq Known'
    BY DEF Known
  <2> QED  BY <1>2, <1>6, <2>1, <2>2 DEF Resent
<1>13. InFront'
  <2>1. \A i \in DOMAIN queue : queue[i] \in Range(queue)
    BY DEF Range
  <2> QED  BY <1>2, <1>9, <1>11, <2>1 DEF InFront
<1>14. Ahead'
  <2>1. ASSUME Orderly'
        PROVE  /\ \A m \in Msgs' : m.seq <= seq' + 1
               /\ lastSeq' <= seq' + 1 /\ batchSeq' <= seq' + 1
    <3>1. /\ \A m \in Msgs : m.seq <= seq + 1 /\ m.seq \in Nat
          /\ lastSeq <= seq + 1 /\ batchSeq <= seq + 1 /\ lastSeq \in Nat /\ batchSeq \in Nat
      BY <1>1, <1>4, <2>1, Messages, Numerals DEF OrderInv, Ahead
    <3> QED  BY <1>1, <1>2, <1>3, <1>5, <3>1 DEF Shrinks
  <2> QED  BY <1>2, <1>4, <2>1 DEF Ahead
<1> QED  BY <1>7, <1>8, <1>9, <1>10, <1>12, <1>13, <1>14 DEF OrderInv, RingInv

(* A failed upload: the batch goes back to the front of the ring. *)
LEMMA RequeueOrder == ASSUME OrderInv, UploadFailed \/ UploadTimedOut PROVE OrderInv'
<1>1. /\ TypeOK /\ Running /\ RingInOrder /\ queue \in Seq(Events) /\ taken \in Seq(Events)
      /\ Len(queue) <= QueueSlots /\ Len(taken) <= BatchSize /\ phase = "wait"
      /\ Len(queue) \in Nat /\ Len(taken) \in Nat
  BY Numerals DEF OrderInv, RingInv, TypeOK, UploadFailed, UploadTimedOut
<1>2. /\ queue' = Requeued(queue, taken)
      /\ dropped' = dropped \cup (Range(taken) \ Range(queue'))
      /\ taken' = <<>> /\ phase' = "idle" /\ resp' = None /\ req' = None
      /\ UNCHANGED <<next, enabled, seq, saved, db, share, switches, hist>>
      /\ late' \subseteq late \cup ({req} \ {None})
      /\ handler' = handler \/ (handler # None /\ handler' = [handler EXCEPT !.awaited = FALSE])
      /\ faults' = faults \/ Fail("net") \/ Fail("late")
  BY DEF UploadFailed, UploadTimedOut, Requeue
<1>3. PICK k \in 0..Len(taken) : Shift(taken \o queue, queue', k)
  BY <1>1, <1>2, RequeuedShifts
<1>4. queue' \in Seq(Events) /\ Len(queue') <= QueueSlots
  BY <1>1, <1>2, RequeuedShifts
<1>5. /\ faults' \in [FaultKinds -> Nat] /\ (Orderly' => Orderly)
      /\ faults'["save"] = faults["save"]
  <2>1. CASE faults' = faults
    BY <1>1, <2>1 DEF TypeOK, Orderly
  <2>2. CASE Fail("net")
    BY <1>1, <2>2, Failing DEF FaultKinds
  <2>3. CASE Fail("late")
    BY <1>1, <2>3, Failing DEF FaultKinds
  <2> QED  BY <1>2, <2>1, <2>2, <2>3
<1>6. /\ handler' \in Run \cup {None} /\ (handler' = None <=> handler = None)
      /\ handler # None => handler'.msg = handler.msg /\ handler'.keep = handler.keep
  <2>1. CASE handler' = handler
    BY <1>1, <2>1 DEF TypeOK
  <2>2. CASE handler # None /\ handler' = [handler EXCEPT !.awaited = FALSE]
    <3>1. handler \in Run
      BY <1>1, <2>2 DEF TypeOK
    <3>2. handler' \in Run /\ handler'.msg = handler.msg /\ handler'.keep = handler.keep
      BY <2>2, <3>1 DEF Run
    <3> QED  BY <2>2, <3>2, NoneAssumption
  <2> QED  BY <1>2, <2>1, <2>2
<1>7. Shrinks
  <2>1. Msgs' \subseteq Msgs
    BY <1>2, <1>6 DEF Msgs
  <2> QED  BY <1>2, <1>5, <2>1 DEF Shrinks
<1>8. Range(taken') = {} /\ taken' \in Seq(Events) /\ Len(taken') = 0 /\ taken' \o queue' = queue'
  BY <1>2, <1>4, EmptyRange, EmptyFront
<1>9. /\ taken \o queue \in Seq(Events) /\ Range(taken \o queue) = Range(taken) \cup Range(queue)
      /\ Len(taken \o queue) = Len(taken) + Len(queue)
      /\ \A i \in 1..Len(queue) : (taken \o queue)[Len(taken) + i] = queue[i]
  BY <1>1, Joined
<1>10. Range(queue') \subseteq Range(taken) \cup Range(queue) /\ Increasing(queue')
  BY <1>1, <1>3, <1>4, <1>9, ShiftIncreasing DEF RingInOrder
<1>11. TypeOK' /\ Running'
  <2>1. late' \subseteq Message
    BY <1>1, <1>2 DEF TypeOK
  <2>2. dropped' \subseteq Events
    BY <1>1, <1>2, Numerals DEF TypeOK
  <2>3. Len(taken') <= BatchSize
    BY <1>8, Constants
  <2>4. TypeOK'
    BY <1>1, <1>2, <1>4, <1>5, <1>6, <1>8, <2>1, <2>2, <2>3 DEF TypeOK
  <2> QED  BY <1>1, <1>2, <1>6, <2>4 DEF Running
<1>12. RingInOrder'
  BY <1>8, <1>10 DEF RingInOrder
<1>13. InFront'
  <2>1. Known' \subseteq Known /\ \A x, e : Clash(x, e)' => Clash(x, e)
    BY <1>7, Shrunk
  <2>2. ASSUME NEW i \in DOMAIN queue', NEW e \in Known, Clash(queue'[i], e)
        PROVE  Len(taken') + i <= BatchSize
    <3>1. /\ i \in Nat /\ k \in Nat /\ k + i \in 1..(Len(taken) + Len(queue))
          /\ queue'[i] = (taken \o queue)[k + i]
      <4>1. /\ i \in 1..Len(queue') /\ Len(queue') = Len(taken \o queue) - k
            /\ \A j \in 1..Len(queue') : queue'[j] = (taken \o queue)[k + j]
        BY <1>3, <1>4, InRange DEF Shift
      <4>2. i \in 1..(Len(taken) + Len(queue) - k)
        BY <1>9, <4>1
      <4>3. i \in Nat /\ k \in Nat /\ k + i \in 1..(Len(taken) + Len(queue))
        BY <1>1, <4>2
      <4> QED  BY <4>1, <4>3
    <3>2. CASE k + i <= Len(taken)
      BY <1>1, <1>8, <3>1, <3>2, Constants
    <3>3. CASE k + i > Len(taken)
      <4>1. k + i - Len(taken) \in 1..Len(queue) /\ k + i = Len(taken) + (k + i - Len(taken))
        BY <1>1, <3>1, <3>3
      <4>2. PICK j \in 1..Len(queue) : k + i = Len(taken) + j
        BY <4>1
      <4>3. queue'[i] = queue[j] /\ j \in DOMAIN queue
        BY <1>1, <1>9, <3>1, <4>2
      <4>4. ~Clash(queue[j], e)
        BY <1>1, <4>3 DEF OrderInv, InFront
      <4> QED  BY <2>2, <4>3, <4>4
    <3> QED  BY <1>1, <3>1, <3>2, <3>3
  <2> QED  BY <1>2, <2>1, <2>2 DEF InFront
<1> QED  BY <1>2, <1>5, <1>7, <1>8, <1>10, <1>11, <1>12, <1>13, LocalStep

LEMMA CrashOrder == ASSUME OrderInv, AgentCrash PROVE OrderInv'
<1>1. TypeOK /\ Running /\ Fail("crash") /\ saved \in Nat
  BY DEF OrderInv, RingInv, AgentCrash, TypeOK
<1>2. /\ queue' = <<>> /\ taken' = <<>> /\ phase' = "idle" /\ enabled' = FALSE /\ seq' = saved
      /\ req' = None /\ resp' = None
      /\ handler' = IF handler # None THEN [handler EXCEPT !.awaited = FALSE] ELSE None
      /\ UNCHANGED <<next, dropped, saved, late, db, share, switches, hist>>
  BY DEF AgentCrash
<1>3. /\ faults' \in [FaultKinds -> Nat] /\ (Orderly' => Orderly /\ faults["save"] = 0)
      /\ faults'["save"] = faults["save"]
  <2>1. /\ faults' \in [FaultKinds -> Nat] /\ (Orderly' => Orderly) /\ faults'["crash"] # 0
        /\ faults'["save"] = faults["save"]
    BY <1>1, Failing DEF FaultKinds
  <2> QED  BY <2>1 DEF Orderly
<1>4. /\ handler' \in Run \cup {None} /\ (handler' = None <=> handler = None)
      /\ handler # None => handler'.msg = handler.msg /\ handler'.keep = handler.keep
  <2>1. CASE handler = None
    BY <1>2, <2>1
  <2>2. CASE handler # None
    <3>1. handler \in Run
      BY <1>1, <2>2 DEF TypeOK
    <3>2. handler' \in Run /\ handler'.msg = handler.msg /\ handler'.keep = handler.keep
      BY <1>2, <2>2, <3>1 DEF Run
    <3> QED  BY <2>2, <3>2, NoneAssumption
  <2> QED  BY <2>1, <2>2
<1>5. Shrinks
  <2>1. Msgs' \subseteq Msgs
    BY <1>2, <1>4 DEF Msgs
  <2> QED  BY <1>2, <1>3, <2>1 DEF Shrinks
<1>6. /\ Range(taken') = {} /\ Range(queue') = {} /\ taken' \in Seq(Events) /\ queue' \in Seq(Events)
      /\ Len(taken') = 0 /\ Len(queue') = 0 /\ taken' \o queue' = <<>>
  BY <1>2, EmptyRange, EmptyFront
<1>7. TypeOK' /\ Running'
  <2>1. Len(taken') <= BatchSize /\ Len(queue') <= QueueSlots
    BY <1>6, Constants
  <2>2. enabled' \in BOOLEAN
    BY <1>2
  <2> QED  BY <1>1, <1>2, <1>3, <1>4, <1>6, <2>1, <2>2 DEF TypeOK, Running
<1>8. RingInOrder'
  BY <1>6 DEF RingInOrder, Increasing
<1>9. Numbered' /\ Recognised' /\ RowsInOrder'
  BY <1>5, Shrunk
<1>10. Past'
  BY <1>2, <1>5, <1>6, StillPast
<1>11. Resent' /\ InFront'
  BY <1>2, <1>6 DEF Resent, InFront
<1>12. Ahead'
  <2>1. ASSUME Orderly'
        PROVE  /\ \A m \in Msgs' : m.seq <= seq' + 1
               /\ lastSeq' <= seq' + 1 /\ batchSeq' <= seq' + 1
    <3>1. seq' = seq /\ Orderly
      BY <1>2, <1>3, <2>1 DEF OrderInv, Ahead
    <3> QED  BY <1>2, <1>5, <3>1 DEF OrderInv, Ahead, Shrinks
  <2> QED  BY <1>2, <2>1 DEF Ahead
<1> QED  BY <1>7, <1>8, <1>9, <1>10, <1>11, <1>12 DEF OrderInv, RingInv

LEMMA OrderStep == ASSUME OrderInv, [Next]_vars PROVE OrderInv'
<1>1. CASE UNCHANGED vars
  <2>1. TypeOK' /\ Running'
    BY <1>1 DEF OrderInv, RingInv, TypeOK, Running
  <2>2. Shrinks /\ faults' = faults
    BY <1>1 DEF Shrinks, Msgs, Orderly
  <2> QED  BY <1>1, <2>1, <2>2, Aside
<1>2. CASE Next
  BY <1>2, SwitchOrder, HandleOrder, MarkOrder, StoreOrder, ClearQueueOrder, TakeHalfOrder,
     LogOrder, UploadOrder, AckedOrder, RequeueOrder, CrashOrder
     DEF Next, AgentStep, ControllerStep
<1> QED  BY <1>1, <1>2

LEMMA OrderInit == Init => OrderInv
<1> SUFFICES ASSUME Init PROVE OrderInv
  OBVIOUS
<1> USE DEF Init
<1>1. /\ Msgs = {} /\ Range(rows) = {} /\ Known = {} /\ Range(taken) = {} /\ Range(queue) = {}
      /\ <<>> \in Seq(Events) /\ Len(<<>>) = 0 /\ taken \o queue = <<>>
  <2>1. Msgs = {}
    BY DEF Msgs
  <2> QED  BY <2>1, EmptyRange, EmptyFront DEF Known
<1>2. TypeOK
  <2>1. faults \in [FaultKinds -> Nat]
    OBVIOUS
  <2>2. next \in 1..(MaxEvents + 1)
    BY Constants
  <2>3. Len(taken) <= BatchSize /\ Len(queue) <= QueueSlots
    BY <1>1, Constants
  <2> QED  BY <1>1, <2>1, <2>2, <2>3 DEF TypeOK
<1>3. Running /\ Past /\ RingInOrder
  BY <1>1 DEF Running, Past, RingInOrder, Increasing
<1>4. Numbered /\ Recognised /\ Resent /\ InFront
  BY <1>1 DEF Numbered, Recognised, Resent, InFront
<1>5. Ahead
  BY <1>1 DEF Ahead
<1>6. RowsInOrder
  BY DEF RowsInOrder, Increasing
<1> QED  BY <1>2, <1>3, <1>4, <1>5, <1>6 DEF OrderInv, RingInv

-----------------------------------------------------------------------------
(* What a shift leaves out is older than what it keeps. *)
LEMMA ShiftDropsOldest ==
  ASSUME NEW p \in Seq(Events), NEW q \in Seq(Events), NEW k \in Nat, Shift(p, q, k), Increasing(p),
         NEW e \in Range(p) \ Range(q), NEW x \in Range(q)
  PROVE  x > e
<1>1. /\ Len(p) \in Nat /\ Len(q) \in Nat /\ Len(q) = Len(p) - k
      /\ DOMAIN p = 1..Len(p) /\ DOMAIN q = 1..Len(q)
      /\ \A i \in 1..Len(q) : q[i] = p[k + i]
  BY DEF Shift
<1>2. PICK i \in DOMAIN q, j \in DOMAIN p : q[i] = x /\ p[j] = e
  BY InRange
<1>3. j <= k
  <2> SUFFICES ASSUME j > k PROVE FALSE
    BY <1>1
  <2>1. j - k \in 1..Len(q) /\ k + (j - k) = j
    BY <1>1
  <2>2. q[j - k] = e
    BY <1>1, <1>2, <2>1
  <2> QED  BY <1>1, <2>1, <2>2 DEF Range
<1>4. k + i \in DOMAIN p /\ j < k + i /\ p[k + i] = x
  BY <1>1, <1>2, <1>3
<1>5. p[j] < p[k + i] /\ p[j] \in Nat /\ p[k + i] \in Nat
  <2>1. p[j] < p[k + i]
    BY <1>4 DEF Increasing
  <2> QED  BY <1>4, <2>1, InRange, Constants
<1> QED  BY <1>2, <1>4, <1>5

LEMMA LogDropsOldest ==
  ASSUME OrderInv, Log, NEW e \in dropped' \ dropped, NEW x \in Range(queue')
  PROVE  x > e
<1> DEFINE p == queue \o <<next>>
<1>1. /\ TypeOK /\ RingInOrder /\ queue \in Seq(Events) /\ taken \in Seq(Events)
      /\ Len(queue) \in Nat /\ next \in Events /\ queue' = Pushed(queue, next)
      /\ dropped' = dropped \cup Evicted(queue)
  BY Numerals, Constants DEF OrderInv, RingInv, TypeOK, Log
<1>2. Len(queue) >= QueueSlots /\ e = Head(queue) /\ queue # <<>>
  <2>1. Len(queue) >= QueueSlots /\ e = Head(queue)
    BY <1>1 DEF Evicted
  <2> QED  BY <2>1, Constants
<1>3. queue' \in Seq(Events) /\ Shift(p, queue', 1)
  BY <1>1, <1>2, PushedShifts
<1>4. <<next>> \in Seq(Events) /\ Range(<<next>>) = {next} /\ Increasing(<<next>>)
  BY <1>1 DEF Range, Increasing
<1>5. p \in Seq(Events) /\ Increasing(p)
  <2>1. Increasing(queue)
    BY <1>1, IncreasingJoined DEF RingInOrder
  <2>2. \A y \in Range(queue), z \in Range(<<next>>) : y < z
    BY <1>4 DEF OrderInv, RingInv, Past
  <2> QED  BY <1>1, <1>4, <2>1, <2>2, IncreasingJoined, Joined
<1>6. p[1] = e /\ 1 \in DOMAIN p /\ e \in Range(p)
  BY <1>1, <1>2, <1>4 DEF Range
<1> HIDE DEF p
<1>7. e \notin Range(queue')
  <2> SUFFICES ASSUME e \in Range(queue') PROVE FALSE
    OBVIOUS
  <2>1. PICK i \in 1..Len(queue') : queue'[i] = e
    BY <1>3, InRange
  <2>2. p[1 + i] = e /\ 1 + i \in DOMAIN p /\ 1 < 1 + i
    BY <1>3, <1>5, <2>1 DEF Shift
  <2>3. p[1] < p[1 + i] /\ e \in Nat
    BY <1>5, <1>6, <2>2, InRange, Constants DEF Increasing
  <2> QED  BY <1>6, <2>2, <2>3
<1> QED  BY <1>3, <1>5, <1>6, <1>7, ShiftDropsOldest

LEMMA RequeueDropsOldest ==
  ASSUME OrderInv, Requeue, NEW e \in dropped' \ dropped, NEW x \in Range(queue')
  PROVE  x > e
<1>1. /\ queue \in Seq(Events) /\ taken \in Seq(Events) /\ Len(queue) <= QueueSlots
      /\ Increasing(taken \o queue) /\ Len(taken) \in Nat
  BY Numerals DEF OrderInv, RingInv, TypeOK, RingInOrder
<1>2. queue' = Requeued(queue, taken) /\ e \in Range(taken) \ Range(queue')
  BY DEF Requeue
<1>3. PICK k \in 0..Len(taken) : Shift(taken \o queue, queue', k)
  BY <1>1, <1>2, RequeuedShifts
<1>4. queue' \in Seq(Events) /\ taken \o queue \in Seq(Events) /\ e \in Range(taken \o queue)
  BY <1>1, <1>2, RequeuedShifts, Joined
<1>5. k \in Nat
  BY <1>1
<1> QED  BY <1>1, <1>2, <1>3, <1>4, <1>5, ShiftDropsOldest

LEMMA NewestStep ==
  ASSUME OrderInv, [Next]_vars
  PROVE  [\A e \in dropped' \ dropped : \A x \in Range(queue') : x > e]_vars
<1>1. CASE dropped' = dropped
  BY <1>1
<1>2. CASE Log
  BY <1>2, LogDropsOldest
<1>3. CASE UploadFailed \/ UploadTimedOut
  BY <1>3, RequeueDropsOldest DEF UploadFailed, UploadTimedOut
<1>4. Log \/ UploadFailed \/ UploadTimedOut \/ dropped' = dropped
  BY DEF Next, AgentStep, ControllerStep, ClearQueue, Configure, TakeHalf, Upload, Acked,
         AgentCrash, Handle, Store, Mark, HandlerFails, Switch, DeleteShare, WipeShare
<1> QED  BY <1>1, <1>2, <1>3, <1>4

(* The invariant the order of the log rests on: what is on its way, handled,
   stored or held by the agent carries numbers in the order of its events
   (connlogLoop, agentConnlog, Store.Ingest). *)
THEOREM OrderInvariance == Spec => []OrderInv
  BY OrderInit, OrderStep, PTL DEF Spec

(* The connection log keeps its order at both ends and gives up only its oldest
   events, for every ring, batch size and number of faults (Queue.Requeue,
   connlogLoop, agentConnlog, Store.Ingest). *)
THEOREM RingAlwaysFair == Spec => RingIsFair
<1>1. OrderInv => OrderKept
  BY DEF OrderInv, RingInv, OrderKept
<1>2. OrderInv /\ [Next]_vars => [\A e \in dropped' \ dropped : \A x \in Range(queue') : x > e]_vars
  BY NewestStep
<1> QED  BY <1>1, <1>2, OrderInvariance, PTL DEF Spec, RingIsFair, KeepsNewest
=============================================================================
