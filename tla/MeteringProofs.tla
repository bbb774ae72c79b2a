--------------------------- MODULE MeteringProofs ---------------------------
(***************************************************************************)
(* Proofs about Metering, for every set of nodes and every bound.          *)
(***************************************************************************)
EXTENDS Metering, FiniteSetTheorems, TLAPS

(* Every reading in a batch was really counted under its identity. *)
Honest(b) == \A c \in b.counters : c.val <= Counted(c.key)

(* The ledger holds exactly the baseline, and no more than was counted. *)
LedgerInv ==
  \A k \in DOMAIN base : usage[k] = base[k].val /\ base[k].val <= Counted(k)

WireInv ==
  /\ req # None => Honest(req.batch)
  /\ \A m \in late : Honest(m.batch)
  /\ mem.ret # NoRet => Honest(mem.ret.batch)

(* An existing counter has one identity, the same in memory and on disk. *)
CounterInv ==
  \A n \in Nodes : ctr[n] # Absent =>
    /\ table /\ mem.meters[n] # None
    /\ mem.nonce = disk.nonce /\ mem.meters[n] = disk.meters[n]
    /\ ctr[n] <= Counted(Key(n, mem))

(* A pending batch is on disk with the identities it refers to. *)
RetirementInv ==
  /\ mem.ret = disk.ret
  /\ mem.ret # NoRet =>
       /\ mem.nonce = disk.nonce /\ mem.meters = disk.meters
       /\ mem.v1 /\ disk.v1
       /\ mem.ret.remaining.all \subseteq Known(mem) \ mem.ret.nodes

(* Where the main loop can be. *)
PointInv ==
  /\ pc \in {"final", "waitFinal", "clean", "forget"} => mem.ret # NoRet
  /\ pc \in {"begin", "fetch", "remember", "ensure", "cores"} => mem.ret = NoRet
  /\ pc \in {"sample", "waitLive"} /\ ~retErr => mem.ret = NoRet
  /\ pc \in {"waitFinal", "waitLive"} => req # None
  /\ pc \in {"remember", "ensure", "cores"} => ds # None
  /\ pc = "ensure" => ds.nodes \subseteq Known(mem)
  /\ pc = "forget" => \A n \in mem.ret.nodes : ctr[n] = Absent
  /\ table \/ pc \in {"ensure", "cores"} => mem.v1 /\ disk.v1
  /\ InitV1 => mem.v1 /\ disk.v1

IInv == TypeOK /\ LedgerInv /\ WireInv /\ CounterInv /\ RetirementInv /\ PointInv

-----------------------------------------------------------------------------
(* The environment under which the accounting is exact: the Save that Run
   ignores succeeds, and the host counts per node from its first apply. *)
SoundHost == ~StartupSaveFails /\ (OpenRC \/ InitV1)

USE DEF NoRet, Absent, host, local, wire, ctl, vars

(* Every reading taken from the kernel is well formed and was counted under
   the identity it is reported with. *)
LEMMA ReadingsHonest ==
  ASSUME IInv, NEW S \in SUBSET Present
  PROVE  /\ Readings(S) \in SUBSET Readout
         /\ \A c \in Readings(S) : c.val <= Counted(c.key)
<1>1. \A n \in S : /\ [key |-> Key(n, mem), val |-> ctr[n]] \in Readout
                   /\ ctr[n] <= Counted(Key(n, mem))
  BY DEF IInv, TypeOK, Present, CounterInv, Readout, Key, Keys, HostTypes,
     StateTypes, State
<1> QED  BY <1>1 DEF Readings

(* One accepted or refused request: the ledger keeps to the baseline, and the
   baseline to what was counted. *)
LEMMA IngestKeepsLedger ==
  ASSUME IInv, NEW m \in Request, NEW ok \in BOOLEAN, Honest(m.batch),
         Ingest(m, ok), UNCHANGED produced
  PROVE  LedgerTypes' /\ LedgerInv'
<1> USE DEF IInv, TypeOK
<1>1. CASE UNCHANGED ctl
  BY <1>1 DEF LedgerTypes, LedgerInv, Counted
<1>2. CASE ~UNCHANGED ctl
  <2> DEFINE durable == m.type = "final"
             ts == m.batch.ts
             C  == {c \in m.batch.counters : ~Ignored(c, ts, durable)}
  <2>1. /\ base' = Baselines(C, ts) /\ usage' = Ledgers(C) /\ settled' = Receipts(m)
        /\ \A c \in m.batch.counters : ~Rejected(c, ts, durable)
    BY <1>2 DEF Ingest
  <2>2. \A k \in KeysOf(C) : Of(C, k) \in C /\ Of(C, k).key = k
    BY DEF KeysOf, Of
  <2>3. ts \in Nat /\ m.batch \in Batch
    BY MeteringAssumption DEF Request, Batch
  <2>4. \A c \in C : /\ c.key \in Keys /\ c.val \in Nat /\ c.val <= Counted(c.key)
                     /\ Found(c) => base[c.key].val <= c.val
    BY <2>1 DEF Honest, Rejected, Request, Batch, Readout, LedgerTypes, Found
  <2>5. settled' \in SUBSET Batch
    BY <2>1, <2>3 DEF Receipts, LedgerTypes
  <2>6. DOMAIN base' = DOMAIN base \cup KeysOf(C) /\ DOMAIN usage' = DOMAIN base'
    BY <2>1 DEF Baselines, Ledgers, LedgerTypes
  <2>7. KeysOf(C) \subseteq Keys
    BY <2>4 DEF KeysOf
  <2>8. ASSUME NEW k \in DOMAIN base'
        PROVE  /\ base'[k] \in [val : Nat, ts : Nat] /\ usage'[k] \in Nat
               /\ usage'[k] = base'[k].val /\ base'[k].val <= Counted(k)
    <3>1. CASE k \in KeysOf(C)
      <4> DEFINE c == Of(C, k)
      <4>1. /\ base'[k] = [val |-> c.val, ts |-> BaselineTS(c, ts)]
            /\ usage'[k] = RowOr0(usage, k) + Delta(c)
        BY <2>1, <3>1 DEF Baselines, Ledgers
      <4>2. /\ c.key = k /\ c.val \in Nat /\ c.val <= Counted(k)
            /\ Found(c) => base[k].val <= c.val
        BY <2>2, <2>4, <3>1
      <4>3. BaselineTS(c, ts) \in Nat
        BY <2>3, <4>2 DEF BaselineTS, Found, LedgerTypes
      <4>4. RowOr0(usage, k) + Delta(c) = c.val
        BY <4>2 DEF RowOr0, Delta, Found, LedgerTypes, LedgerInv
      <4> HIDE DEF c
      <4> QED  BY <4>1, <4>2, <4>3, <4>4
    <3>2. CASE k \notin KeysOf(C)
      <4>1. k \in DOMAIN base /\ base'[k] = base[k] /\ usage'[k] = usage[k]
        BY <2>1, <2>6, <3>2 DEF Baselines, Ledgers, LedgerTypes
      <4> QED  BY <4>1 DEF LedgerTypes, LedgerInv
    <3> QED  BY <3>1, <3>2
  <2>9. LedgerTypes'
    BY <2>5, <2>6, <2>7, <2>8 DEF LedgerTypes
  <2>10. LedgerInv'
    BY <2>8 DEF LedgerInv, Counted
  <2> QED  BY <2>9, <2>10
<1> QED  BY <1>1, <1>2

(* A packet raises the counter and what was counted by the same amount. *)
LEMMA TrafficStep == SoundHost /\ IInv /\ Traffic => IInv'
<1> SUFFICES ASSUME SoundHost, IInv, Traffic PROVE IInv'
  OBVIOUS
<1> USE DEF IInv, TypeOK, SoundHost
<1>0. \A k \in Keys : /\ Counted(k) \in Nat /\ Counted(k)' \in Nat
                      /\ Counted(k) <= Counted(k)'
  BY DEF Traffic, Counted, RowOr0, LedgerTypes
<1>u. HostTypes' /\ StateTypes' /\ LoopTypes' /\ WireTypes' /\ RetirementInv'
      /\ PointInv'
  BY DEF Traffic, HostTypes, StateTypes, LoopTypes, Points, FaultKinds,
     WireTypes, RetirementInv, Known, PointInv
<1>5. LedgerTypes'
  <2>1. PICK n \in live :
          LET k == Key(n, mem) IN
          produced' = [x \in DOMAIN produced \cup {k} |->
                         IF x = k THEN RowOr0(produced, k) + 1 ELSE produced[x]]
    BY DEF Traffic
  <2>2. Key(n, mem) \in Keys
    BY DEF Key, Keys, HostTypes, StateTypes, State
  <2> QED  BY <2>1, <2>2 DEF Traffic, LedgerTypes, RowOr0
<1>6. LedgerInv'
  BY MeteringAssumption, NoneAssumption DEF Traffic, RowOr0, PointInv,
     LedgerInv, LedgerTypes, Counted
<1>7. WireInv'
  <2>1. \A b \in Batch : Honest(b) => \A c \in b.counters : c.val <= Counted(c.key)'
    BY <1>0 DEF Honest, Batch, Readout
  <2>2. /\ req # None => req.batch \in Batch
        /\ \A m \in late : m.batch \in Batch
        /\ mem.ret # NoRet => mem.ret.batch \in Batch
    BY DEF WireTypes, Request, StateTypes, State, Plan
  <2> QED  BY <2>1, <2>2 DEF WireInv, Honest, Traffic
<1>8. CounterInv'
  BY MeteringAssumption, NoneAssumption DEF Traffic, RowOr0, PointInv,
     CounterInv, Counted, Key, Known, RetirementInv, HostTypes, LedgerTypes,
     StateTypes, State, Plan, Batch, Readout
<1> QED  BY <1>u, <1>5, <1>6, <1>7, <1>8

(* Publishing touches only the controller's document. *)
LEMMA PublishStep == SoundHost /\ IInv /\ Publish => IInv'
<1> SUFFICES ASSUME SoundHost, IInv, Publish PROVE IInv'
  OBVIOUS
<1> USE DEF IInv, TypeOK, SoundHost
<1>u. HostTypes' /\ StateTypes' /\ LoopTypes' /\ LedgerTypes' /\ LedgerInv' /\
      WireInv' /\ CounterInv' /\ RetirementInv' /\ PointInv'
  BY DEF Publish, HostTypes, StateTypes, LoopTypes, Points, FaultKinds,
     LedgerTypes, LedgerInv, Counted, WireInv, Honest, CounterInv, Key,
     RetirementInv, Known, PointInv
<1>4. WireTypes'
  BY MeteringAssumption, NoneAssumption DEF Publish, WireTypes, PointInv,
     HostTypes, StateTypes, State, Plan, Document, LoopTypes
<1> QED  BY <1>u, <1>4

(* On a sound host Run renews the nonce only while no counter exists. *)
LEMMA StartupStep == SoundHost /\ IInv /\ Startup => IInv'
<1> SUFFICES ASSUME SoundHost, IInv, Startup PROVE IInv'
  OBVIOUS
<1> USE DEF IInv, TypeOK, SoundHost
<1>u. HostTypes' /\ WireTypes' /\ LedgerTypes' /\ LedgerInv'
  BY DEF Startup, HostTypes, WireTypes, LedgerTypes, LedgerInv, Counted
<1>2. StateTypes'
  BY MeteringAssumption, NoneAssumption DEF Startup, StartPoint, FlushPoint,
     Saved, Unsaved, Fail, StateTypes, PointInv, HostTypes, State, Plan,
     WireTypes, Document, LoopTypes
<1>3. LoopTypes'
  BY DEF Startup, StartPoint, FlushPoint, Saved, Unsaved, Fail, LoopTypes,
     Points, FaultKinds
<1>7. WireInv'
  BY DEF Startup, StartPoint, FlushPoint, Saved, Unsaved, Fail, WireInv, Honest,
     Counted, StateTypes, State
<1>8. CounterInv'
  BY NoneAssumption DEF Startup, StartPoint, FlushPoint, Saved, Unsaved, Fail,
     CounterInv, Counted, Key, PointInv, StateTypes, State, WireTypes
<1>9. RetirementInv'
  BY DEF Startup, StartPoint, FlushPoint, Saved, Unsaved, Fail, RetirementInv,
     Known, StateTypes, State
<1>10. PointInv'
  BY DEF Startup, StartPoint, FlushPoint, Saved, Unsaved, Fail, PointInv, Known,
     StateTypes, State
<1> QED  BY <1>u, <1>2, <1>3, <1>7, <1>8, <1>9, <1>10

(* The heartbeat enters flushRetirement exactly when a batch is pending. *)
LEMMA HeartbeatStep == SoundHost /\ IInv /\ Heartbeat => IInv'
<1> SUFFICES ASSUME SoundHost, IInv, Heartbeat PROVE IInv'
  OBVIOUS
<1> USE DEF IInv, TypeOK, SoundHost
<1>u. HostTypes' /\ StateTypes' /\ WireTypes' /\ LedgerTypes' /\ LedgerInv' /\
      WireInv' /\ CounterInv' /\ RetirementInv'
  BY DEF Heartbeat, HostTypes, StateTypes, WireTypes, LedgerTypes, LedgerInv,
     Counted, WireInv, Honest, CounterInv, Key, RetirementInv, Known
<1>3. LoopTypes'
  BY DEF Heartbeat, FlushPoint, LoopTypes, Points, FaultKinds
<1>10. PointInv'
  BY DEF Heartbeat, FlushPoint, PointInv, Known
<1> QED  BY <1>u, <1>3, <1>10

(* The request carries the batch as it was persisted. *)
LEMMA SendFinalStep == SoundHost /\ IInv /\ SendFinal => IInv'
<1> SUFFICES ASSUME SoundHost, IInv, SendFinal PROVE IInv'
  OBVIOUS
<1> USE DEF IInv, TypeOK, SoundHost
<1>u. HostTypes' /\ StateTypes' /\ LoopTypes' /\ LedgerTypes' /\ LedgerInv' /\
      CounterInv' /\ RetirementInv'
  BY DEF SendFinal, HostTypes, StateTypes, LoopTypes, Points, FaultKinds,
     LedgerTypes, LedgerInv, Counted, CounterInv, Key, RetirementInv, Known
<1>4. WireTypes'
  BY MeteringAssumption, NoneAssumption DEF SendFinal, PointInv, WireTypes,
     Request, Response, Document, HostTypes, StateTypes, State, Plan, Batch,
     Readout
<1>7. WireInv'
  BY NoneAssumption DEF SendFinal, WireInv, Honest, Counted, PointInv,
     StateTypes, State, WireTypes
<1>10. PointInv'
  <2>1. req' # None
    BY <1>4, NoneAssumption DEF SendFinal, WireTypes, Request, PointInv, StateTypes, State, Plan
  <2> QED  BY <2>1 DEF SendFinal, PointInv, Known
<1> QED  BY <1>u, <1>4, <1>7, <1>10

(* The acknowledgement changes nothing else of the batch. *)
LEMMA FinalAckedStep == SoundHost /\ IInv /\ FinalAcked => IInv'
<1> SUFFICES ASSUME SoundHost, IInv, FinalAcked PROVE IInv'
  OBVIOUS
<1> USE DEF IInv, TypeOK, SoundHost
<1> DEFINE P == [mem.ret EXCEPT !.acked = TRUE]
<1>a. mem.ret \in Plan
  BY DEF FinalAcked, PointInv, StateTypes, State
<1>b. /\ P \in Plan /\ P # None
      /\ P.nodes = mem.ret.nodes /\ P.batch = mem.ret.batch
      /\ P.remaining = mem.ret.remaining
  BY <1>a, NoneAssumption DEF Plan
<1>c. \/ /\ mem' = [mem EXCEPT !.ret = P] /\ disk' = mem'
         /\ pc' = "clean" /\ retErr' = retErr
      \/ /\ mem' = mem /\ disk' = disk
         /\ pc' \in {"sample", "idle"} /\ (pc' = "sample" => retErr')
  BY DEF FinalAcked, Saved, Unsaved, FlushError, StateTypes, State
<1>u. HostTypes' /\ WireTypes' /\ LedgerTypes' /\ LedgerInv'
  BY DEF FinalAcked, HostTypes, WireTypes, LedgerTypes, LedgerInv, Counted
<1>2. StateTypes'
  BY <1>b, <1>c DEF StateTypes, State
<1>3. LoopTypes'
  BY MeteringAssumption, NoneAssumption DEF FinalAcked, Saved, Unsaved, Fail,
     FlushError, LoopTypes, Points, FaultKinds, PointInv, HostTypes, StateTypes,
     State, Plan, WireTypes, Document
<1>7. WireInv'
  BY MeteringAssumption, NoneAssumption DEF FinalAcked, Saved, Unsaved, Fail,
     FlushError, WireInv, Honest, Counted, PointInv, HostTypes, StateTypes,
     State, Plan, WireTypes, Document, LoopTypes
<1>8. CounterInv'
  BY DEF FinalAcked, Saved, Unsaved, Fail, FlushError, CounterInv, Counted, Key,
     StateTypes, State
<1>9. RetirementInv'
  <2>1. /\ mem'.ret = disk'.ret /\ mem'.ret.remaining = mem.ret.remaining
        /\ mem'.ret.nodes = mem.ret.nodes /\ mem'.nonce = disk'.nonce
        /\ mem'.meters = disk'.meters /\ mem'.meters = mem.meters
        /\ mem'.v1 = mem.v1 /\ disk'.v1
    BY <1>a, <1>b, <1>c, NoneAssumption DEF RetirementInv, StateTypes, State
  <2> QED  BY <2>1, <1>a, NoneAssumption DEF RetirementInv, Known
<1>10. PointInv'
  BY <1>a, <1>b, <1>c, NoneAssumption DEF FinalAcked, PointInv, Known, StateTypes, State
<1> QED  BY <1>u, <1>2, <1>3, <1>7, <1>8, <1>9, <1>10

(* A failed settlement leaves the batch pending. *)
LEMMA FinalFailedStep == SoundHost /\ IInv /\ FinalFailed => IInv'
<1> SUFFICES ASSUME SoundHost, IInv, FinalFailed PROVE IInv'
  OBVIOUS
<1> USE DEF IInv, TypeOK, SoundHost
<1>u. HostTypes' /\ StateTypes' /\ LedgerTypes' /\ LedgerInv' /\ CounterInv'
      /\ RetirementInv'
  BY DEF FinalFailed, HostTypes, StateTypes, LedgerTypes, LedgerInv, Counted,
     CounterInv, Key, RetirementInv, Known
<1>3. LoopTypes'
  BY DEF FinalFailed, Fail, Abandon, FlushError, LoopTypes, Points, FaultKinds
<1>4. WireTypes'
  BY NoneAssumption DEF FinalFailed, Fail, Abandon, FlushError, WireTypes,
     PointInv, StateTypes, State
<1>7. WireInv'
  BY NoneAssumption DEF FinalFailed, Fail, Abandon, FlushError, WireInv, Honest,
     Counted, PointInv, StateTypes, State, WireTypes
<1>10. PointInv'
  BY DEF FinalFailed, Fail, Abandon, FlushError, PointInv, Known
<1> QED  BY <1>u, <1>3, <1>4, <1>7, <1>10

(* Clean removes the batch's counters and keeps every other identity. *)
LEMMA CleanStep == SoundHost /\ IInv /\ Clean => IInv'
<1> SUFFICES ASSUME SoundHost, IInv, Clean PROVE IInv'
  OBVIOUS
<1> USE DEF IInv, TypeOK, SoundHost
<1>u. StateTypes' /\ WireTypes' /\ LedgerTypes' /\ LedgerInv' /\ WireInv' /\
      RetirementInv'
  BY DEF Clean, StateTypes, WireTypes, LedgerTypes, LedgerInv, Counted, WireInv,
     Honest, RetirementInv, Known
<1>1. HostTypes'
  <2>1. mem.ret.remaining.live \in SUBSET Nodes
    BY DEF Clean, PointInv, StateTypes, State, Plan
  <2>2. CASE PruneNodes(mem.ret)
    <3>1. ctr' \in [Nodes -> Nat \cup {Absent}]
      BY <2>2 DEF PruneNodes, HostTypes
    <3> QED  BY <2>1, <2>2, <3>1 DEF Clean, PruneNodes, HostTypes
  <2> QED  BY <2>2 DEF Clean, HostTypes
<1>3. LoopTypes'
  BY MeteringAssumption, NoneAssumption DEF Clean, PruneNodes, Fail, FlushError,
     LoopTypes, Points, FaultKinds, PointInv, HostTypes, StateTypes, State,
     Plan, WireTypes, Document
<1>8. CounterInv'
  BY MeteringAssumption, NoneAssumption DEF Clean, PruneNodes, Fail, FlushError,
     PointInv, CounterInv, Counted, RowOr0, Key, Known, RetirementInv,
     HostTypes, LedgerTypes, StateTypes, State, Plan, Batch, Readout
<1>10. PointInv'
  BY MeteringAssumption, NoneAssumption DEF Clean, PruneNodes, Fail, FlushError,
     PointInv, Known, CounterInv, RetirementInv, LoopTypes, WireTypes,
     HostTypes, Document, StateTypes, State, Plan, Batch, Readout
<1> QED  BY <1>u, <1>1, <1>3, <1>8, <1>10

(* Identities are dropped when their counters are gone. *)
LEMMA ForgetStep == SoundHost /\ IInv /\ Forget => IInv'
<1> SUFFICES ASSUME SoundHost, IInv, Forget PROVE IInv'
  OBVIOUS
<1> USE DEF IInv, TypeOK, SoundHost
<1> DEFINE kept == [n \in Nodes |-> IF n \in mem.ret.nodes THEN None
                                       ELSE mem.meters[n]]
<1>a. kept \in [Nodes -> Nat \cup {None}]
  BY DEF StateTypes, State
<1>b. \/ /\ mem' = [mem EXCEPT !.ret = None, !.meters = kept] /\ disk' = mem'
         /\ pc' \in {"sample", "begin"} /\ retErr' = retErr
      \/ /\ mem' = mem /\ disk' = disk
         /\ pc' \in {"sample", "idle"} /\ (pc' = "sample" => retErr')
  BY DEF Forget, Forgotten, Saved, Unsaved, FlushError, AfterFlush, StateTypes, State
<1>u. HostTypes' /\ WireTypes' /\ LedgerTypes' /\ LedgerInv'
  BY DEF Forget, HostTypes, WireTypes, LedgerTypes, LedgerInv, Counted
<1>2. StateTypes'
  BY <1>a, <1>b DEF StateTypes, State
<1>3. LoopTypes'
  BY MeteringAssumption, NoneAssumption DEF Forget, Forgotten, Saved, Unsaved,
     Fail, FlushError, AfterFlush, LoopTypes, Points, FaultKinds, PointInv,
     HostTypes, StateTypes, State, Plan, WireTypes, Document
<1>7. WireInv'
  BY DEF Forget, Forgotten, Saved, Unsaved, Fail, FlushError, AfterFlush,
     WireInv, Honest, Counted, StateTypes, State
<1>8. CounterInv'
  <2> SUFFICES ASSUME NEW n \in Nodes, ctr[n] # Absent
      PROVE  /\ table /\ mem'.meters[n] = mem.meters[n] /\ mem'.nonce = mem.nonce
             /\ disk'.meters[n] = mem.meters[n] /\ disk'.nonce = mem.nonce
             /\ mem.meters[n] # None /\ ctr[n] <= Counted(Key(n, mem))
    BY DEF Forget, CounterInv, Counted, Key
  <2>1. /\ table /\ mem.meters[n] # None /\ ctr[n] <= Counted(Key(n, mem))
        /\ mem.nonce = disk.nonce /\ mem.meters[n] = disk.meters[n]
    BY DEF CounterInv
  <2>2. kept[n] = mem.meters[n]
    BY DEF Forget, PointInv
  <2>3. \/ /\ mem'.meters = kept /\ mem'.nonce = mem.nonce /\ disk' = mem'
        \/ mem' = mem /\ disk' = disk
    BY <1>b DEF StateTypes, State
  <2> HIDE DEF kept
  <2> QED  BY <2>1, <2>2, <2>3
<1>9. RetirementInv'
  BY DEF Forget, Forgotten, Saved, Unsaved, Fail, FlushError, AfterFlush,
     RetirementInv, Known, StateTypes, State
<1>10. PointInv'
  BY <1>b DEF Forget, PointInv, Known, StateTypes, State
<1> QED  BY <1>u, <1>2, <1>3, <1>7, <1>8, <1>9, <1>10

(* Live readings are honest. *)
LEMMA SampleStep == SoundHost /\ IInv /\ Sample => IInv'
<1> SUFFICES ASSUME SoundHost, IInv, Sample PROVE IInv'
  OBVIOUS
<1> USE DEF IInv, TypeOK, SoundHost
<1>a. PICK t \in Clock, S \in SUBSET Present :
        req' = [type |-> "live", batch |-> [ts |-> t, counters |-> Readings(S)]]
  <2>1. Readings({}) = {}
    BY DEF Readings
  <2> QED  BY <2>1 DEF Sample, Present
<1>b. /\ Readings(S) \in SUBSET Readout
      /\ \A c \in Readings(S) : c.val <= Counted(c.key)
  BY ReadingsHonest
<1>c. req' \in Request /\ req' # None
  BY <1>a, <1>b, NoneAssumption DEF Request, Batch
<1>u. HostTypes' /\ LoopTypes' /\ LedgerTypes' /\ LedgerInv' /\ CounterInv' /\
      RetirementInv'
  BY DEF Sample, HostTypes, LoopTypes, Points, FaultKinds, LedgerTypes,
     LedgerInv, Counted, CounterInv, Key, RetirementInv, Known
<1>2. StateTypes'
  BY DEF Sample, Readings, Present, StateTypes, State
<1>4. WireTypes'
  BY <1>c DEF Sample, WireTypes
<1>7. WireInv'
  <2>1. Honest(req'.batch)
    BY <1>a, <1>b DEF Honest
  <2> QED  BY <2>1 DEF Sample, WireInv, Honest, Counted, StateTypes, State
<1>10. PointInv'
  BY <1>c DEF Sample, PointInv, Known, StateTypes, State
<1> QED  BY <1>u, <1>2, <1>4, <1>7, <1>10

(* An answered heartbeat. *)
LEMMA LiveOKStep == SoundHost /\ IInv /\ LiveOK => IInv'
<1> SUFFICES ASSUME SoundHost, IInv, LiveOK PROVE IInv'
  OBVIOUS
<1> USE DEF IInv, TypeOK, SoundHost
<1>u. HostTypes' /\ StateTypes' /\ WireTypes' /\ LedgerTypes' /\ LedgerInv' /\
      WireInv' /\ CounterInv' /\ RetirementInv' /\ PointInv'
  BY DEF LiveOK, HostTypes, StateTypes, WireTypes, LedgerTypes, LedgerInv,
     Counted, WireInv, Honest, CounterInv, Key, RetirementInv, Known, PointInv
<1>3. LoopTypes'
  BY MeteringAssumption, NoneAssumption DEF LiveOK, PointInv, StateTypes, State,
     Plan, Batch, Readout, LoopTypes, Points, Document, FaultKinds, WireTypes,
     Response
<1> QED  BY <1>u, <1>3

(* An answered heartbeat that asks for maintenance. *)
LEMMA LiveMaintenanceStep == SoundHost /\ IInv /\ LiveMaintenance => IInv'
<1> SUFFICES ASSUME SoundHost, IInv, LiveMaintenance PROVE IInv'
  OBVIOUS
<1> USE DEF IInv, TypeOK, SoundHost
<1>u. HostTypes' /\ StateTypes' /\ WireTypes' /\ LedgerTypes' /\ LedgerInv' /\
      WireInv' /\ CounterInv' /\ RetirementInv' /\ PointInv'
  BY DEF LiveMaintenance, HostTypes, StateTypes, WireTypes, LedgerTypes,
     LedgerInv, Counted, WireInv, Honest, CounterInv, Key, RetirementInv, Known,
     PointInv
<1>3. LoopTypes'
  BY MeteringAssumption, NoneAssumption DEF LiveMaintenance, PointInv,
     StateTypes, State, Plan, Batch, Readout, LoopTypes, Points, Document,
     FaultKinds, WireTypes, Response
<1> QED  BY <1>u, <1>3

(* A heartbeat that failed. *)
LEMMA LiveFailedStep == SoundHost /\ IInv /\ LiveFailed => IInv'
<1> SUFFICES ASSUME SoundHost, IInv, LiveFailed PROVE IInv'
  OBVIOUS
<1> USE DEF IInv, TypeOK, SoundHost
<1>u. HostTypes' /\ StateTypes' /\ LedgerTypes' /\ LedgerInv' /\ CounterInv'
      /\ RetirementInv' /\ PointInv'
  BY DEF LiveFailed, HostTypes, StateTypes, LedgerTypes, LedgerInv, Counted,
     CounterInv, Key, RetirementInv, Known, PointInv
<1>3. LoopTypes'
  BY DEF LiveFailed, Fail, Abandon, LoopTypes, Points, FaultKinds
<1>4. WireTypes'
  BY NoneAssumption DEF LiveFailed, Fail, Abandon, WireTypes, PointInv,
     StateTypes, State
<1>7. WireInv'
  BY NoneAssumption DEF LiveFailed, Fail, Abandon, WireInv, Honest, Counted,
     PointInv, StateTypes, State, WireTypes
<1> QED  BY <1>u, <1>3, <1>4, <1>7

(* beginRetirement returned early. *)
LEMMA NothingToRetireStep == SoundHost /\ IInv /\ NothingToRetire => IInv'
<1> SUFFICES ASSUME SoundHost, IInv, NothingToRetire PROVE IInv'
  OBVIOUS
<1> USE DEF IInv, TypeOK, SoundHost
<1>u. HostTypes' /\ StateTypes' /\ LoopTypes' /\ WireTypes' /\ LedgerTypes' /\
      LedgerInv' /\ WireInv' /\ CounterInv' /\ RetirementInv' /\ PointInv'
  BY DEF NothingToRetire, HostTypes, StateTypes, LoopTypes, Points, FaultKinds,
     WireTypes, LedgerTypes, LedgerInv, Counted, WireInv, Honest, CounterInv,
     Key, RetirementInv, Known, PointInv
<1> QED  BY <1>u

(* A failure to open the ports only marks the state for another apply. *)
LEMMA IngressFailsStep == SoundHost /\ IInv /\ IngressFails => IInv'
<1> SUFFICES ASSUME SoundHost, IInv, IngressFails PROVE IInv'
  OBVIOUS
<1> USE DEF IInv, TypeOK, SoundHost
<1>u. HostTypes' /\ WireTypes' /\ LedgerTypes' /\ LedgerInv'
  BY DEF IngressFails, HostTypes, WireTypes, LedgerTypes, LedgerInv, Counted
<1>2. StateTypes'
  BY DEF IngressFails, StateTypes, State
<1>3. LoopTypes'
  BY DEF IngressFails, Fail, LoopTypes, Points, FaultKinds
<1>7. WireInv' /\ CounterInv' /\ RetirementInv' /\ PointInv'
  BY DEF IngressFails, WireInv, Honest, Counted, CounterInv, Key, RetirementInv,
     Known, PointInv, StateTypes, State
<1> QED  BY <1>u, <1>2, <1>3, <1>7

(* The frozen batch is honest and refers to identities that are on disk. *)
LEMMA BeginRetirementStep == SoundHost /\ IInv /\ BeginRetirement => IInv'
<1> SUFFICES ASSUME SoundHost, IInv, BeginRetirement PROVE IInv'
  OBVIOUS
<1> USE DEF IInv, TypeOK, SoundHost
<1>a. mem.ret = NoRet /\ disk.ret = NoRet /\ pc' = "idle"
  BY DEF BeginRetirement, PointInv, RetirementInv
<1>b. /\ faults' \in [FaultKinds -> Nat]
      /\ UNCHANGED <<host, drawn, local, back, wire, pub, ctl, produced>>
  <2>1. \/ faults' = faults
        \/ faults' = [faults EXCEPT !["save"] = faults["save"] + 1]
    BY DEF BeginRetirement, Saved, Unsaved, Fail
  <2> QED  BY <2>1 DEF BeginRetirement, LoopTypes, FaultKinds
<1>1. CASE mem' = mem /\ disk' = disk
  BY <1>a, <1>b, <1>1 DEF HostTypes, StateTypes, LoopTypes, Points, WireTypes,
     LedgerTypes, LedgerInv, Counted, WireInv, Honest, CounterInv, Key,
     RetirementInv, Known, PointInv
<1>2. CASE table /\ \E S \in SUBSET Retirable, t \in Clock :
             /\ S \subseteq Present
             /\ Saved([mem EXCEPT !.ret =
                  Retiring(S, [ts |-> t, counters |-> Readings(S)],
                           [all  |-> Known(mem) \ S,
                            live |-> (Known(mem) \ S) \cap desired.nodes], FALSE)])
  <2>1. PICK S \in SUBSET Retirable, t \in Clock :
             /\ S \subseteq Present
             /\ Saved([mem EXCEPT !.ret =
                  Retiring(S, [ts |-> t, counters |-> Readings(S)],
                           [all  |-> Known(mem) \ S,
                            live |-> (Known(mem) \ S) \cap desired.nodes], FALSE)])
    BY <1>2
  <2> DEFINE b == [ts |-> t, counters |-> Readings(S)]
             P == Retiring(S, b, [all  |-> Known(mem) \ S,
                                  live |-> (Known(mem) \ S) \cap desired.nodes], FALSE)
  <2>2. /\ Readings(S) \in SUBSET Readout
        /\ \A c \in Readings(S) : c.val <= Counted(c.key)
    BY <2>1, ReadingsHonest
  <2>3. disk' = mem' /\ mem'.ret = P /\ mem'.ret \in Plan /\ mem'.ret # None
    <3>1. b \in Batch
      BY <2>2 DEF Batch
    <3>2. P \in Plan
      <4> HIDE DEF b
      <4> QED  BY <2>1, <3>1 DEF Retiring, Plan, Present, Known
    <3>3. disk' = mem' /\ mem'.ret = P
      BY <2>1 DEF Saved, StateTypes, State
    <3> HIDE DEF P
    <3> QED  BY <3>2, <3>3, NoneAssumption
  <2>4. /\ mem'.ret.nodes = S /\ mem'.ret.remaining.all = Known(mem) \ S
        /\ mem'.ret.batch.counters = Readings(S)
        /\ mem'.nonce = mem.nonce /\ mem'.meters = mem.meters /\ mem'.v1 = mem.v1
    BY <2>1, <2>3 DEF Retiring, Saved, StateTypes, State
  <2>5. mem.v1
    BY DEF BeginRetirement, Retirable
  <2>6. StateTypes'
    <3>1. mem' = [mem EXCEPT !.ret = P]
      BY <2>1 DEF Saved
    <3> HIDE DEF P
    <3> QED  BY <2>3, <3>1 DEF StateTypes, State
  <2>7. HostTypes' /\ LoopTypes' /\ WireTypes' /\ LedgerTypes' /\ LedgerInv'
    BY <1>a, <1>b DEF HostTypes, LoopTypes, Points, WireTypes, LedgerTypes,
       LedgerInv, Counted
  <2>8. WireInv'
    <3>1. Honest(mem.ret.batch)'
      BY <1>b, <2>2, <2>4 DEF Honest, Counted
    <3> QED  BY <3>1, <1>b DEF WireInv, Honest, Counted
  <2>9. CounterInv'
    BY <1>b, <2>3, <2>4 DEF CounterInv, Counted, Key
  <2>10. RetirementInv'
    BY <2>3, <2>4, <2>5 DEF RetirementInv, Known
  <2>11. PointInv'
    BY <1>a, <1>b, <2>3, <2>4, <2>5 DEF PointInv, Known
  <2> QED  BY <2>6, <2>7, <2>8, <2>9, <2>10, <2>11
<1> QED  BY <1>1, <1>2 DEF BeginRetirement, Saved, Unsaved

(* Fetching the document. *)
LEMMA FetchStep == SoundHost /\ IInv /\ Fetch => IInv'
<1> SUFFICES ASSUME SoundHost, IInv, Fetch PROVE IInv'
  OBVIOUS
<1> USE DEF IInv, TypeOK, SoundHost
<1>u. HostTypes' /\ StateTypes' /\ WireTypes' /\ LedgerTypes' /\ LedgerInv' /\
      WireInv' /\ CounterInv' /\ RetirementInv'
  BY DEF Fetch, HostTypes, StateTypes, WireTypes, LedgerTypes, LedgerInv,
     Counted, WireInv, Honest, CounterInv, Key, RetirementInv, Known
<1>3. LoopTypes'
  BY NoneAssumption DEF Fetch, Fail, LoopTypes, Points, FaultKinds, PointInv,
     StateTypes, State, WireTypes
<1>10. PointInv'
  BY NoneAssumption DEF Fetch, Fail, PointInv, Known, StateTypes, State,
     WireTypes
<1> QED  BY <1>u, <1>3, <1>10

(* New identities never replace one that has a counter. *)
LEMMA RememberStep == SoundHost /\ IInv /\ Remember => IInv'
<1> SUFFICES ASSUME SoundHost, IInv, Remember PROVE IInv'
  OBVIOUS
<1> USE DEF IInv, TypeOK, SoundHost
<1> DEFINE new == ds.nodes \ Known(mem)
           st0 == [mem EXCEPT !.v1 = @ \/ OpenRC]
           full == new # {} /\ Cardinality(Known(mem)) + Cardinality(new) > MaxMeters
<1>a. /\ mem.ret = NoRet /\ disk.ret = NoRet /\ ds \in Document /\ new \subseteq Nodes
      /\ UNCHANGED <<host, local, back, wire, pub, ctl, produced>>
  BY DEF Remember, PointInv, RetirementInv, LoopTypes, Document
<1>b. Cardinality(new) \in Nat
  BY <1>a, MeteringAssumption, FS_Subset, FS_CardinalityType
<1>c. st0 \in State /\ st0.v1 = (mem.v1 \/ OpenRC) /\ st0.meters = mem.meters
      /\ st0.nonce = mem.nonce /\ st0.ret = mem.ret
  BY MeteringAssumption DEF StateTypes, State
<1>d. PICK g \in [Nodes -> Nat \cup {None}] :
        /\ \A n \in Nodes : mem.meters[n] # None => g[n] = mem.meters[n]
        /\ \/ /\ mem' = [st0 EXCEPT !.meters = g] /\ disk' = mem'
              /\ \A n \in new : g[n] # None
              /\ pc' = "ensure"
           \/ /\ mem' = [st0 EXCEPT !.meters = g, !.err = TRUE]
              /\ disk' \in {mem', disk}
              /\ pc' = "idle"
        /\ drawn' \in Nat
        /\ \/ faults' = faults
           \/ faults' = [faults EXCEPT !["save"] = faults["save"] + 1]
  <2>1. CASE full
    <3>1. ApplyError(st0) /\ drawn' = drawn /\ faults' = faults
      BY <2>1 DEF Remember
    <3>2. /\ mem' = [st0 EXCEPT !.meters = mem.meters, !.err = TRUE]
          /\ disk' \in {mem', disk} /\ pc' = "idle"
      BY <3>1, <1>c DEF ApplyError, State
    <3>3. mem.meters \in [Nodes -> Nat \cup {None}] /\ new = new
      BY DEF StateTypes, State
    <3> QED  BY <3>1, <3>2, <3>3 DEF HostTypes
  <2>2. CASE ~full
    <3>1. PICK f \in [new -> (drawn + 1)..(drawn + Cardinality(new))] :
            /\ drawn' = drawn + Cardinality(new)
            /\ LET st == [st0 EXCEPT !.meters =
                            [n \in Nodes |-> IF n \in new THEN f[n] ELSE mem.meters[n]]]
               IN \/ Saved(st) /\ pc' = "ensure"
                  \/ Fail("save") /\ ApplyError(st)
      BY <2>2 DEF Remember
    <3> DEFINE h == [n \in Nodes |-> IF n \in new THEN f[n] ELSE mem.meters[n]]
    <3>2. /\ h \in [Nodes -> Nat \cup {None}]
          /\ \A n \in new : h[n] \in Nat
          /\ \A n \in Nodes : mem.meters[n] # None => h[n] = mem.meters[n]
      BY <1>a, <1>b, <3>1 DEF Known, HostTypes, StateTypes, State
    <3>3. \/ /\ mem' = [st0 EXCEPT !.meters = h] /\ disk' = mem'
             /\ pc' = "ensure" /\ faults' = faults
          \/ /\ mem' = [st0 EXCEPT !.meters = h, !.err = TRUE]
             /\ disk' \in {mem', disk} /\ pc' = "idle"
             /\ faults' = [faults EXCEPT !["save"] = faults["save"] + 1]
      BY <1>c, <3>1 DEF Saved, Fail, ApplyError, State
    <3>4. drawn' \in Nat
      BY <1>b, <3>1 DEF HostTypes
    <3>5. \A n \in new : h[n] # None
      BY <3>2, MeteringAssumption
    <3> HIDE DEF h, st0, new
    <3> QED  BY <3>2, <3>3, <3>4, <3>5
  <2> QED  BY <2>1, <2>2
<1> HIDE DEF st0
<1>e. /\ mem' \in State /\ disk' \in State
      /\ mem'.nonce = mem.nonce /\ mem'.meters = g /\ mem'.ret = NoRet
      /\ mem'.v1 = (mem.v1 \/ OpenRC)
  <2>1. /\ mem' \in State /\ mem'.nonce = st0.nonce /\ mem'.meters = g
        /\ mem'.ret = st0.ret /\ mem'.v1 = st0.v1
    BY <1>c, <1>d DEF State
  <2>2. disk' \in State
    BY <1>d, <2>1 DEF StateTypes
  <2> QED  BY <1>a, <1>c, <2>1, <2>2
<1>1. HostTypes' /\ StateTypes' /\ WireTypes' /\ LedgerTypes' /\ LedgerInv'
  BY <1>a, <1>d, <1>e DEF HostTypes, StateTypes, WireTypes, LedgerTypes, LedgerInv,
     Counted
<1>2. LoopTypes'
  BY <1>a, <1>d DEF LoopTypes, Points, FaultKinds
<1>3. WireInv'
  BY <1>a, <1>e DEF WireInv, Honest, Counted
<1>4. CounterInv'
  BY <1>a, <1>d, <1>e DEF CounterInv, Counted, Key
<1>5. RetirementInv'
  BY <1>a, <1>d, <1>e DEF RetirementInv
<1>6. PointInv'
  <2>1. table' \/ pc' = "ensure" => mem'.v1 /\ disk'.v1
    BY <1>a, <1>d, <1>e, MeteringAssumption DEF PointInv, StateTypes, State
  <2>2. pc' = "ensure" => ds'.nodes \subseteq Known(mem')
    BY <1>a, <1>d, <1>e DEF Known, Document
  <2> QED  BY <1>a, <1>d, <1>e, <2>1, <2>2, NoneAssumption DEF PointInv, Known
<1> QED  BY <1>1, <1>2, <1>3, <1>4, <1>5, <1>6

(* Counters are created only for identities that are on disk. *)
LEMMA EnsureStep == SoundHost /\ IInv /\ Ensure => IInv'
<1> SUFFICES ASSUME SoundHost, IInv, Ensure PROVE IInv'
  OBVIOUS
<1> USE DEF IInv, TypeOK, SoundHost
<1>a. /\ mem.ret = NoRet /\ disk.ret = NoRet /\ ds \in Document
      /\ ds.nodes \subseteq Known(mem) /\ mem.v1 /\ disk.v1
      /\ UNCHANGED <<local, back, wire, pub, ctl, produced>>
  BY DEF Ensure, PointInv, RetirementInv, LoopTypes
<1>b. /\ EpochState \in State /\ EpochState.meters = mem.meters
      /\ EpochState.ret = mem.ret /\ EpochState.v1 = mem.v1
      /\ table => EpochState = mem
  BY DEF EpochState, HostTypes, StateTypes, State
<1>c. \/ /\ EnsureNodes(ds.nodes, Known(mem) \ ds.nodes)
         /\ mem' = EpochState /\ disk' = EpochState
         /\ pc' = "cores" /\ faults' = faults
      \/ /\ mem' = [EpochState EXCEPT !.err = TRUE] /\ disk' \in {mem', disk}
         /\ pc' = "idle" /\ UNCHANGED host
         /\ \E k \in FaultKinds : faults' = [faults EXCEPT ![k] = faults[k] + 1]
  BY DEF Ensure, Saved, Fail, ApplyError, FaultKinds
<1>u. WireTypes' /\ LedgerTypes' /\ LedgerInv'
  BY DEF Ensure, WireTypes, LedgerTypes, LedgerInv, Counted
<1>1. HostTypes'
  <2>1. CASE EnsureNodes(ds.nodes, Known(mem) \ ds.nodes)
    <3>1. ctr' \in [Nodes -> Nat \cup {Absent}]
      BY <2>1 DEF EnsureNodes, HostTypes
    <3> QED  BY <1>a, <2>1, <3>1 DEF Ensure, EnsureNodes, HostTypes, Document
  <2>2. CASE UNCHANGED host
    BY <2>2 DEF Ensure, HostTypes
  <2> QED  BY <1>c, <2>1, <2>2
<1>2. StateTypes'
  BY <1>b, <1>c DEF StateTypes, State
<1>3. LoopTypes'
  BY DEF Ensure, EpochState, EnsureNodes, Saved, Fail, ApplyError, LoopTypes,
     Points, FaultKinds
<1>7. WireInv'
  BY DEF Ensure, EpochState, EnsureNodes, Saved, Fail, ApplyError, WireInv,
     Honest, Counted, StateTypes, State
<1>8. CounterInv'
  <2> SUFFICES ASSUME NEW n \in Nodes, ctr'[n] # Absent
      PROVE  /\ table' /\ mem'.meters[n] # None
             /\ mem'.nonce = disk'.nonce /\ mem'.meters[n] = disk'.meters[n]
             /\ ctr'[n] <= Counted(Key(n, mem))'
    BY DEF CounterInv
  <2>1. \A k : Counted(k)' = Counted(k) /\ Counted(k) \in Nat
    BY <1>a DEF Counted, RowOr0, LedgerTypes
  <2>2. ctr[n] # Absent => /\ table /\ mem' .nonce = mem.nonce
                           /\ mem.nonce = disk.nonce /\ mem.meters[n] = disk.meters[n]
                           /\ mem.meters[n] # None /\ ctr[n] <= Counted(Key(n, mem))
    BY <1>b, <1>c DEF CounterInv, StateTypes, State
  <2>3. mem'.meters = mem.meters
    BY <1>b, <1>c DEF State
  <2>4. CASE EnsureNodes(ds.nodes, Known(mem) \ ds.nodes) /\ disk' = mem'
    <3>1. table' /\ boot' = boot /\ mem.meters[n] # None
          /\ ((ctr'[n] = ctr[n] /\ ctr[n] # Absent) \/ ctr'[n] = 0)
      BY <1>a, <2>2, <2>4 DEF EnsureNodes, Known
    <3>2. CASE ctr'[n] = 0
      BY <2>1, <2>3, <2>4, <3>1, <3>2
    <3>3. CASE ctr'[n] = ctr[n] /\ ctr[n] # Absent
      BY <2>1, <2>2, <2>3, <2>4, <3>1, <3>3 DEF Key
    <3> QED  BY <3>1, <3>2, <3>3
  <2>5. CASE UNCHANGED host /\ disk' \in {mem', disk}
    BY <2>1, <2>2, <2>3, <2>5 DEF Key
  <2> QED  BY <1>c, <2>4, <2>5
<1>9. RetirementInv'
  BY NoneAssumption DEF Ensure, EpochState, EnsureNodes, Saved, Fail,
     ApplyError, RetirementInv, Known, PointInv, StateTypes, State, WireTypes
<1>10. PointInv'
  BY DEF Ensure, EpochState, EnsureNodes, Saved, Fail, ApplyError, PointInv,
     Known, StateTypes, State
<1> QED  BY <1>u, <1>1, <1>2, <1>3, <1>7, <1>8, <1>9, <1>10

(* The end of apply, successful or not. *)
LEMMA CoresStep == SoundHost /\ IInv /\ Cores => IInv'
<1> SUFFICES ASSUME SoundHost, IInv, Cores PROVE IInv'
  OBVIOUS
<1> USE DEF IInv, TypeOK, SoundHost
<1>a. /\ mem.ret = NoRet /\ disk.ret = NoRet /\ ds \in Document
      /\ mem.v1 /\ disk.v1
  BY DEF Cores, PointInv, RetirementInv, LoopTypes
<1>b. /\ mem' \in State /\ mem'.nonce = mem.nonce /\ mem'.meters = mem.meters
      /\ mem'.ret = mem.ret /\ mem'.v1 /\ disk' \in {mem', disk}
  <2>1. CASE \E st \in State : /\ Saved(st) \/ Unsaved(st)
                              /\ st = [mem EXCEPT !.v1 = TRUE, !.rev = ds.rev, !.err = FALSE]
    BY <2>1 DEF Saved, Unsaved, StateTypes, State
  <2>2. CASE \E v \in {mem.v1, TRUE} : ApplyError([mem EXCEPT !.v1 = v])
    BY <1>a, <2>2 DEF ApplyError, StateTypes, State
  <2>3. [mem EXCEPT !.v1 = TRUE, !.rev = ds.rev, !.err = FALSE] \in State
    BY <1>a DEF StateTypes, State, Document
  <2> QED  BY <2>1, <2>2, <2>3 DEF Cores
<1>u. HostTypes' /\ WireTypes' /\ LedgerTypes' /\ LedgerInv'
  BY DEF Cores, HostTypes, WireTypes, LedgerTypes, LedgerInv, Counted
<1>2. StateTypes'
  BY <1>b DEF StateTypes
<1>3. LoopTypes'
  BY DEF Cores, Saved, Unsaved, Fail, ApplyError, LoopTypes, Points, FaultKinds
<1>7. WireInv'
  BY <1>a, <1>b DEF Cores, WireInv, Honest, Counted
<1>8. CounterInv'
  BY <1>a, <1>b DEF Cores, CounterInv, Counted, Key
<1>9. RetirementInv'
  BY DEF Cores, Saved, Unsaved, Fail, ApplyError, RetirementInv, Known,
     StateTypes, State
<1>10. PointInv'
  BY <1>a, <1>b DEF Cores, PointInv, Known
<1> QED  BY <1>u, <1>2, <1>3, <1>7, <1>8, <1>9, <1>10

(* The table vanishes. *)
LEMMA TableLossStep == SoundHost /\ IInv /\ TableLoss => IInv'
<1> SUFFICES ASSUME SoundHost, IInv, TableLoss PROVE IInv'
  OBVIOUS
<1> USE DEF IInv, TypeOK, SoundHost
<1>u. StateTypes' /\ WireTypes' /\ LedgerTypes' /\ LedgerInv' /\ WireInv' /\
      RetirementInv'
  BY DEF TableLoss, StateTypes, WireTypes, LedgerTypes, LedgerInv, Counted,
     WireInv, Honest, RetirementInv, Known
<1>1. HostTypes'
  BY DEF TableLoss, Fail, Lose, HostTypes
<1>3. LoopTypes'
  BY DEF TableLoss, Fail, Lose, LoopTypes, Points, FaultKinds
<1>8. CounterInv'
  BY DEF TableLoss, Fail, Lose, CounterInv, Counted, Key
<1>10. PointInv'
  BY MeteringAssumption, NoneAssumption DEF TableLoss, Fail, Lose, PointInv,
     Known, HostTypes, StateTypes, State, Plan, WireTypes, Document, LoopTypes
<1> QED  BY <1>u, <1>1, <1>3, <1>8, <1>10

(* A restart from state.json. *)
LEMMA CrashStep == SoundHost /\ IInv /\ Crash => IInv'
<1> SUFFICES ASSUME SoundHost, IInv, Crash PROVE IInv'
  OBVIOUS
<1> USE DEF IInv, TypeOK, SoundHost
<1>a. /\ req' = None /\ resp' \in {None, resp} /\ late' \subseteq late \cup ({req} \ {None})
      /\ mem' = disk /\ disk' = disk /\ UNCHANGED <<pub, ctl, produced>>
  BY DEF Crash, Restart, Abandon
<1>b. faults' \in [FaultKinds -> Nat]
  BY DEF Crash, Fail, LoopTypes, FaultKinds
<1>u. HostTypes'
  BY DEF Crash, HostTypes
<1>2. StateTypes'
  BY DEF Crash, Fail, Restart, Abandon, StateTypes
<1>3. LoopTypes'
  BY <1>b DEF Crash, Restart, LoopTypes, Points
<1>4. WireTypes'
  BY DEF Crash, Fail, Restart, Abandon, WireTypes
<1>5. LedgerTypes'
  BY DEF Crash, Fail, Restart, Abandon, LedgerTypes
<1>6. LedgerInv'
  BY DEF Crash, Fail, Restart, Abandon, LedgerInv, Counted
<1>7. WireInv'
  BY <1>a DEF WireInv, Honest, Counted, RetirementInv
<1>8. CounterInv'
  BY DEF Crash, Fail, Restart, Abandon, CounterInv, Counted, Key
<1>9. RetirementInv'
  BY DEF Crash, Fail, Restart, Abandon, RetirementInv, Known
<1>10. PointInv'
  BY DEF Crash, Fail, Restart, Abandon, PointInv, Known
<1> QED  BY <1>u, <1>2, <1>3, <1>4, <1>5, <1>6, <1>7, <1>8, <1>9, <1>10

(* A reboot loses every counter with the boot id. *)
LEMMA RebootStep == SoundHost /\ IInv /\ Reboot => IInv'
<1> SUFFICES ASSUME SoundHost, IInv, Reboot PROVE IInv'
  OBVIOUS
<1> USE DEF IInv, TypeOK, SoundHost
<1>a. /\ req' = None /\ resp' \in {None, resp} /\ late' \subseteq late \cup ({req} \ {None})
      /\ mem' = disk /\ disk' = disk /\ UNCHANGED <<pub, ctl, produced>>
  BY DEF Reboot, Restart, Abandon
<1>b. faults' \in [FaultKinds -> Nat]
  BY DEF Reboot, Fail, LoopTypes, FaultKinds
<1>1. HostTypes'
  <2>1. ctr' \in [Nodes -> Nat \cup {Absent}] /\ live' = {} /\ table' = FALSE
    BY DEF Reboot, Lose
  <2>2. drawn' \in Nat /\ boot' \in Nat
    BY DEF Reboot, HostTypes
  <2> QED  BY <2>1, <2>2 DEF HostTypes
<1>2. StateTypes'
  BY DEF Reboot, Fail, Lose, Restart, Abandon, StateTypes
<1>3. LoopTypes'
  BY <1>b DEF Reboot, Restart, LoopTypes, Points
<1>4. WireTypes'
  BY DEF Reboot, Fail, Lose, Restart, Abandon, WireTypes
<1>5. LedgerTypes'
  BY DEF Reboot, Fail, Lose, Restart, Abandon, LedgerTypes
<1>6. LedgerInv'
  BY DEF Reboot, Fail, Lose, Restart, Abandon, LedgerInv, Counted
<1>7. WireInv'
  BY <1>a DEF WireInv, Honest, Counted, RetirementInv
<1>8. CounterInv'
  BY DEF Reboot, Fail, Lose, Restart, Abandon, CounterInv, Counted, Key
<1>9. RetirementInv'
  BY DEF Reboot, Fail, Lose, Restart, Abandon, RetirementInv, Known
<1>10. PointInv'
  BY DEF Reboot, Fail, Lose, Restart, Abandon, PointInv, Known
<1> QED  BY <1>1, <1>2, <1>3, <1>4, <1>5, <1>6, <1>7, <1>8, <1>9, <1>10

(* The controller's answer, awaited or not, preserves the invariant. *)
LEMMA ServeStep == SoundHost /\ IInv /\ Serve => IInv'
<1> SUFFICES ASSUME IInv, Serve PROVE IInv'
  OBVIOUS
<1> USE DEF IInv, TypeOK
<1>1. PICK m \in Request, ok \in BOOLEAN :
        m = req /\ Ingest(m, ok) /\ Honest(m.batch)
        /\ resp' = [ok |-> ok, rev |-> pub.rev]
  BY DEF Serve, WireTypes, WireInv
<1>2. LedgerTypes' /\ LedgerInv'
  BY <1>1, IngestKeepsLedger DEF Serve
<1>3. HostTypes' /\ StateTypes' /\ LoopTypes'
  BY DEF Serve, HostTypes, StateTypes, LoopTypes
<1>4. WireTypes'
  BY <1>1 DEF Serve, WireTypes, Response, Document
<1>5. WireInv' /\ CounterInv' /\ RetirementInv' /\ PointInv'
  BY <1>1 DEF Serve, WireInv, Honest, Counted, CounterInv, Key, RetirementInv, Known,
     PointInv
<1> QED  BY <1>2, <1>3, <1>4, <1>5

(* So does a request processed after the agent gave up on it. *)
LEMMA ServeLateStep == SoundHost /\ IInv /\ ServeLate => IInv'
<1> SUFFICES ASSUME IInv, ServeLate PROVE IInv'
  OBVIOUS
<1> USE DEF IInv, TypeOK
<1>1. PICK m \in Request, ok \in BOOLEAN :
        Ingest(m, ok) /\ Honest(m.batch) /\ late' \subseteq late
  BY DEF ServeLate, WireTypes, WireInv
<1>2. LedgerTypes' /\ LedgerInv'
  BY <1>1, IngestKeepsLedger DEF ServeLate
<1>3. HostTypes' /\ StateTypes' /\ LoopTypes'
  BY DEF ServeLate, HostTypes, StateTypes, LoopTypes
<1>4. WireTypes'
  BY <1>1 DEF ServeLate, WireTypes, Response, Document
<1>5. WireInv' /\ CounterInv' /\ RetirementInv' /\ PointInv'
  BY <1>1 DEF ServeLate, WireInv, Honest, Counted, CounterInv, Key, RetirementInv, Known,
     PointInv
<1> QED  BY <1>2, <1>3, <1>4, <1>5

(* The initial state satisfies the invariant. *)
LEMMA InitStep == Init => IInv
<1> SUFFICES ASSUME Init PROVE IInv
  OBVIOUS
<1>1. HostTypes /\ LoopTypes
  BY MeteringAssumption DEF Init, HostTypes, LoopTypes, Points, FaultKinds
<1>2. StateTypes
  BY MeteringAssumption DEF Init, StateTypes, State
<1>3. WireTypes /\ LedgerTypes /\ LedgerInv
  BY DEF Init, WireTypes, Document, LedgerTypes, LedgerInv
<1>4. WireInv /\ CounterInv /\ RetirementInv /\ PointInv
  BY DEF Init, WireInv, CounterInv, RetirementInv, PointInv
<1> QED  BY <1>1, <1>2, <1>3, <1>4 DEF IInv, TypeOK

(* Every step of the agent, the kernel, the controller and the environment
   preserves the invariant. *)
LEMMA NextStep == SoundHost /\ IInv /\ [Next]_vars => IInv'
<1> SUFFICES ASSUME SoundHost, IInv, [Next]_vars PROVE IInv'
  OBVIOUS
<1>1. CASE UNCHANGED vars
  BY <1>1 DEF IInv, TypeOK, HostTypes, StateTypes, LoopTypes, WireTypes, LedgerTypes,
     LedgerInv, WireInv, Honest, Counted, CounterInv, Key, RetirementInv, Known,
     PointInv
<1>2. CASE AgentStep
  BY <1>2, StartupStep, HeartbeatStep, SendFinalStep, FinalAckedStep, FinalFailedStep,
     CleanStep, ForgetStep, SampleStep, LiveOKStep, LiveMaintenanceStep, LiveFailedStep,
     NothingToRetireStep, IngressFailsStep, BeginRetirementStep, FetchStep, RememberStep, EnsureStep,
     CoresStep DEF AgentStep
<1>3. CASE Traffic \/ Publish \/ Serve \/ ServeLate \/ TableLoss \/ Crash \/ Reboot
  BY <1>3, TrafficStep, PublishStep, ServeStep, ServeLateStep, TableLossStep, CrashStep,
     RebootStep
<1> QED  BY <1>1, <1>2, <1>3 DEF Next

(* The inductive invariant holds in every reachable state, for any set of
   nodes, batch size, identity budget and number of failures. *)
THEOREM Invariance == SoundHost => (Spec => []IInv)
<1> SUFFICES ASSUME SoundHost PROVE Spec => []IInv
  OBVIOUS
<1>1. Init => IInv
  BY InitStep
<1>2. IInv /\ [Next]_vars => IInv'
  BY NextStep
<1> QED  BY <1>1, <1>2, PTL DEF Spec

(* Every variable keeps its shape, and a ledger row exists exactly where a
   baseline row does. *)
THEOREM TypeCorrect == SoundHost => (Spec => []TypeOK)
<1>1. IInv => TypeOK
  BY DEF IInv
<1> QED  BY <1>1, Invariance, PTL

(* traffic.Ingest never bills more bytes under a counter identity than the
   kernel counted under it, whatever is lost, replayed, late, crashed,
   rebooted or not saved. *)
THEOREM NeverOverbilled == SoundHost => (Spec => []NoOverbilling)
<1>1. IInv => NoOverbilling
  BY DEF IInv, TypeOK, LedgerTypes, LedgerInv, NoOverbilling
<1> QED  BY <1>1, Invariance, PTL

(* One request never lowers a ledger row, a baseline value or its timestamp. *)
LEMMA IngestMonotone ==
  ASSUME IInv, NEW m \in Request, NEW ok \in BOOLEAN, Ingest(m, ok)
  PROVE  LedgerStep
<1> USE DEF IInv, TypeOK
<1>1. CASE UNCHANGED ctl
  BY <1>1 DEF LedgerStep, LedgerTypes
<1>2. CASE ~UNCHANGED ctl
  <2> DEFINE durable == m.type = "final"
             ts == m.batch.ts
             C  == {c \in m.batch.counters : ~Ignored(c, ts, durable)}
  <2>1. /\ base' = Baselines(C, ts) /\ usage' = Ledgers(C)
        /\ \A c \in m.batch.counters : ~Rejected(c, ts, durable)
    BY <1>2 DEF Ingest
  <2> SUFFICES ASSUME NEW k \in DOMAIN usage
      PROVE  /\ k \in DOMAIN usage' /\ usage'[k] >= usage[k]
             /\ base'[k].val >= base[k].val /\ base'[k].ts >= base[k].ts
    BY DEF LedgerStep
  <2>2. /\ k \in DOMAIN base /\ k \in DOMAIN usage'
        /\ base[k].val \in Nat /\ base[k].ts \in Nat /\ usage[k] \in Nat
    BY <2>1 DEF LedgerTypes, Ledgers
  <2>3. CASE k \in KeysOf(C)
    <3> DEFINE c == Of(C, k)
    <3>1. c \in C /\ c.key = k
      BY <2>3 DEF KeysOf, Of
    <3>2. c \in Readout /\ ts \in Nat /\ Found(c) /\ base[k].val <= c.val
      <4>1. c \in Readout /\ ts \in Nat /\ Found(c)
        BY <2>2, <3>1, MeteringAssumption DEF Request, Batch, Found
      <4>2. ~(c.val < base[k].val)
        BY <2>1, <3>1, <4>1 DEF Rejected
      <4> HIDE DEF c
      <4> QED  BY <2>2, <4>1, <4>2 DEF Readout
    <3>3. /\ base'[k] = [val |-> c.val, ts |-> BaselineTS(c, ts)]
          /\ usage'[k] = usage[k] + (c.val - base[k].val)
      BY <2>1, <2>2, <2>3, <3>1, <3>2 DEF Baselines, Ledgers, RowOr0, Delta
    <3>4. BaselineTS(c, ts) >= base[k].ts
      BY <2>2, <3>1, <3>2 DEF BaselineTS
    <3> HIDE DEF c
    <3> QED  BY <2>2, <3>2, <3>3, <3>4 DEF Readout
  <2>4. CASE k \notin KeysOf(C)
    BY <2>1, <2>2, <2>4 DEF Baselines, Ledgers
  <2> QED  BY <2>3, <2>4
<1> QED  BY <1>1, <1>2

(* delta(): stale, replayed and late reports never rewind the ledger or the
   accounting baseline. *)
THEOREM LedgerNeverRewinds == SoundHost => (Spec => LedgerMonotone)
<1> SUFFICES ASSUME SoundHost PROVE Spec => LedgerMonotone
  OBVIOUS
<1>1. IInv /\ [Next]_vars => [LedgerStep]_vars
  <2> SUFFICES ASSUME IInv, Next PROVE LedgerStep
    OBVIOUS
  <2>1. CASE Serve
    <3>1. PICK m \in Request, ok \in BOOLEAN : Ingest(m, ok)
      BY <2>1 DEF Serve, IInv, TypeOK, WireTypes
    <3> QED  BY <3>1, IngestMonotone
  <2>2. CASE ServeLate
    <3>1. PICK m \in Request, ok \in BOOLEAN : Ingest(m, ok)
      BY <2>2 DEF ServeLate, IInv, TypeOK, WireTypes
    <3> QED  BY <3>1, IngestMonotone
  <2>3. CASE UNCHANGED ctl
    BY <2>3 DEF LedgerStep, IInv, TypeOK, LedgerTypes
  <2>4. CASE AgentStep
    <3>1. UNCHANGED ctl
      BY <2>4 DEF AgentStep, Startup, Heartbeat, SendFinal, FinalAcked, FinalFailed,
         Clean, Forget, Sample, LiveOK, LiveMaintenance, LiveFailed, NothingToRetire,
         IngressFails, BeginRetirement, Fetch, Remember, Ensure, Cores
    <3> QED  BY <2>3, <3>1
  <2>5. CASE Traffic \/ Publish \/ TableLoss \/ Crash \/ Reboot
    <3>1. UNCHANGED ctl
      BY <2>5 DEF Traffic, Publish, TableLoss, Crash, Reboot, Restart
    <3> QED  BY <2>3, <3>1
  <2> QED  BY <2>1, <2>2, <2>4, <2>5 DEF Next
<1> QED  BY <1>1, Invariance, PTL DEF Spec, LedgerMonotone

-----------------------------------------------------------------------------
(* Proofs about the settlement of removed nodes in Metering: the final
   readings are the last ones, a settlement is exact and final, and only
   billed counters are deleted.  The nft table must not be removed behind the
   agent's back while a batch is pending. *)
SoundTable == SoundHost /\ ~TableLossInRetirement

(* A counter shows exactly what was counted under its identity. *)
ExactInv == \A n \in Nodes : ctr[n] # Absent => ctr[n] = Counted(Key(n, mem))

(* Every identity is made of values that were drawn already. *)
DrawnState(st) ==
  st.nonce <= drawn /\ \A n \in Nodes : st.meters[n] # None => st.meters[n] <= drawn

DrawnInv ==
  /\ DrawnState(mem) /\ DrawnState(disk)
  /\ \A k \in DOMAIN produced : k[3] <= drawn /\ k[4] # None /\ k[4] <= drawn

(* A known node without a counter would get one under an unused identity;
   the nodes of the pending batch get none. *)
Settling(n) == mem.ret # NoRet /\ n \in mem.ret.nodes

Unused(st) ==
  \A n \in Nodes : st.meters[n] # None /\ ctr[n] = Absent /\ ~Settling(n) =>
    Key(n, st) \notin DOMAIN produced

FreshInv ==
  /\ table \/ (mem.ret # NoRet /\ pc # "boot") => Unused(mem)
  /\ table => Unused(disk)

(* The rules never count a node of the pending batch, nor one that
   beginRetirement could choose. *)
RulesInv ==
  /\ desired # None /\ ~mem.err /\ pc # "cores" => live \subseteq desired.nodes
  /\ pc = "cores" => live \subseteq ds.nodes
  /\ mem.ret # NoRet =>
       /\ live \cap mem.ret.nodes = {}
       /\ mem.ret.remaining.live \subseteq mem.ret.remaining.all
       /\ desired # None => mem.ret.remaining.live \subseteq desired.nodes

BatchInv ==
  mem.ret # NoRet =>
    /\ \A n \in mem.ret.nodes : ctr[n] # Absent =>
         [key |-> Key(n, mem), val |-> ctr[n]] \in mem.ret.batch.counters
    /\ \A c \in mem.ret.batch.counters : c.key[1] \in mem.ret.nodes

(* The final batches: the settled ones and the pending one. *)
Pending      == IF mem.ret = NoRet THEN {} ELSE {mem.ret.batch}
FinalBatches == settled \cup Pending

(* What a final batch says of an identity is all that was counted under it,
   and the identity is never used again. *)
FinalReading(c) ==
  /\ c.val = Counted(c.key) /\ c.key[4] # None /\ c.key[4] <= drawn
  /\ mem.meters[c.key[1]] = c.key[4] \/ disk.meters[c.key[1]] = c.key[4] =>
       Settling(c.key[1])

FinalInv == \A b \in FinalBatches : \A c \in b.counters : FinalReading(c)

(* Requests carry final batches, an acknowledged one is settled. *)
FlightInv ==
  /\ req # None /\ req.type = "final" => req.batch \in FinalBatches
  /\ \A m \in late : m.type = "final" => m.batch \in FinalBatches
  /\ pc = "waitFinal" => req.type = "final" /\ req.batch = mem.ret.batch
  /\ pc = "waitFinal" /\ resp # None /\ resp.ok => mem.ret.batch \in settled
  /\ pc \in {"clean", "forget"} => mem.ret.acked
  /\ AckedIsSettled

SettledInv ==
  \A b \in settled : \A c \in b.counters : c.key \in DOMAIN base /\ base[c.key].val = c.val

SInv == /\ ExactInv /\ DrawnInv /\ FreshInv /\ RulesInv /\ BatchInv /\ FinalInv
        /\ FlightInv /\ SettledInv

-----------------------------------------------------------------------------
USE DEF NoRet, Absent, host, local, wire, ctl, vars

LEMMA Shapes ==
  ASSUME IInv
  PROVE  /\ drawn \in Nat /\ None \notin Nat
         /\ ctr \in [Nodes -> Nat \cup {Absent}] /\ live \subseteq Nodes
         /\ mem \in State /\ mem.meters \in [Nodes -> Nat \cup {None}] /\ mem.nonce \in Nat
         /\ disk \in State /\ disk.meters \in [Nodes -> Nat \cup {None}] /\ disk.nonce \in Nat
         /\ mem.ret # NoRet => mem.ret \in Plan /\ mem.ret.nodes \subseteq Nodes
         /\ \A b \in FinalBatches : b \in Batch /\ \A c \in b.counters : c.key \in Keys /\ c.val \in Nat
<1>1. /\ drawn \in Nat /\ None \notin Nat /\ ctr \in [Nodes -> Nat \cup {Absent}]
      /\ live \subseteq Nodes
  BY MeteringAssumption DEF IInv, TypeOK, HostTypes
<1>2. mem \in State /\ disk \in State
  BY DEF IInv, TypeOK, StateTypes
<1>3. mem.ret # NoRet => mem.ret \in Plan /\ mem.ret.nodes \subseteq Nodes /\ mem.ret.batch \in Batch
  BY <1>2 DEF State, Plan
<1>4. \A b \in FinalBatches : b \in Batch
  BY <1>3 DEF FinalBatches, Pending, IInv, TypeOK, LedgerTypes
<1>5. \A b \in Batch : \A c \in b.counters : c.key \in Keys /\ c.val \in Nat
  BY DEF Batch, Readout
<1> QED  BY <1>1, <1>2, <1>3, <1>4, <1>5 DEF State

(* Steps that keep the counters and every identity; state.json may catch up
   with the memory. *)
SameIdentities ==
  /\ mem'.nonce = mem.nonce /\ mem'.meters = mem.meters
  /\ \/ disk'.nonce = disk.nonce /\ disk'.meters = disk.meters
     \/ disk'.nonce = mem.nonce /\ disk'.meters = mem.meters
  /\ mem'.ret = NoRet <=> mem.ret = NoRet
  /\ mem.ret # NoRet =>
       /\ mem'.ret.nodes = mem.ret.nodes /\ mem'.ret.batch = mem.ret.batch
       /\ mem'.ret.remaining = mem.ret.remaining

LEMMA IdentitiesKept ==
  ASSUME IInv, SInv, SameIdentities, UNCHANGED <<table, ctr, boot, drawn, produced, settled>>,
         pc = "boot" => table \/ pc' = "boot"
  PROVE  ExactInv' /\ DrawnInv' /\ FreshInv' /\ BatchInv' /\ FinalInv' /\ FinalBatches' = FinalBatches
<1> USE DEF SInv, SameIdentities
<1>1. /\ \A n : Key(n, mem)' = Key(n, mem)
      /\ \A n : Settling(n)' <=> Settling(n)
      /\ \A k : Counted(k)' = Counted(k)
  BY DEF Key, Settling, Counted
<1>2. FinalBatches' = FinalBatches
  BY DEF FinalBatches, Pending
<1>3. ExactInv' /\ DrawnInv'
  BY <1>1 DEF ExactInv, DrawnInv, DrawnState
<1>4. FreshInv'
  <2>1. Unused(mem) => Unused(mem)'
    BY <1>1 DEF Unused
  <2>2. Unused(mem) /\ Unused(disk) => Unused(disk)'
    BY <1>1 DEF Unused, Key
  <2> QED  BY <2>1, <2>2 DEF FreshInv
<1>5. BatchInv'
  BY <1>1 DEF BatchInv
<1>6. FinalInv'
  BY <1>1, <1>2 DEF FinalInv, FinalReading
<1> QED  BY <1>2, <1>3, <1>4, <1>5, <1>6

(* Baselines of settled batches do not move when the ledgers do not. *)
LEMMA LedgersKept ==
  ASSUME SInv, UNCHANGED <<base, settled>>
  PROVE  SettledInv'
  BY DEF SInv, SettledInv

(* The rules stay, and so does what the rules depend on. *)
LEMMA RulesKept ==
  ASSUME SInv, SameIdentities, UNCHANGED <<live, desired>>,
         pc # "cores", pc' # "cores", mem.err => mem'.err
  PROVE  RulesInv'
  BY DEF SInv, RulesInv, SameIdentities

(* Nothing new is sent and nothing is acknowledged. *)
LEMMA FlightKept ==
  ASSUME SInv, SameIdentities, UNCHANGED settled, FinalBatches' = FinalBatches,
         req' # None => req' = req \/ req'.type = "live",
         late' \subseteq late \cup ({req} \ {None}),
         mem.ret # NoRet => mem'.ret.acked = mem.ret.acked,
         pc' # "waitFinal", pc' \in {"clean", "forget"} => mem.ret # NoRet /\ mem.ret.acked
  PROVE  FlightInv'
<1>1. req' # None /\ req'.type = "final" => req'.batch \in FinalBatches'
  BY DEF SInv, FlightInv
<1>2. \A m \in late' : m.type = "final" => m.batch \in FinalBatches'
  BY DEF SInv, FlightInv
<1>3. AckedIsSettled'
  BY DEF SInv, FlightInv, AckedIsSettled, SameIdentities
<1> QED  BY <1>1, <1>2, <1>3 DEF FlightInv, SameIdentities
-----------------------------------------------------------------------------
(* The end of a heartbeat, of a failed settlement, of a fetch: the counters,
   the identities and the rules are left alone. *)
LEMMA LoopKeeps ==
  ASSUME IInv, SInv, SameIdentities,
         UNCHANGED <<table, ctr, boot, drawn, produced, base, settled, live, desired>>,
         pc # "boot", pc # "cores", pc' # "cores", mem.err => mem'.err,
         req' # None => req' = req \/ req'.type = "live",
         late' \subseteq late \cup ({req} \ {None}),
         mem.ret # NoRet => mem'.ret.acked = mem.ret.acked,
         pc' # "waitFinal", pc' \in {"clean", "forget"} => mem.ret # NoRet /\ mem.ret.acked
  PROVE  SInv'
<1>1. ExactInv' /\ DrawnInv' /\ FreshInv' /\ BatchInv' /\ FinalInv' /\ FinalBatches' = FinalBatches
  BY IdentitiesKept
<1>2. SettledInv' /\ RulesInv'
  BY LedgersKept, RulesKept
<1>3. FlightInv'
  BY <1>1, FlightKept
<1> QED  BY <1>1, <1>2, <1>3 DEF SInv

LEMMA HeartbeatKeeps == ASSUME IInv, SInv, Heartbeat PROVE SInv'
<1>1. SameIdentities
  BY DEF Heartbeat, SameIdentities
<1> QED  BY <1>1, LoopKeeps DEF Heartbeat, FlushPoint

LEMMA FinalFailedKeeps == ASSUME IInv, SInv, FinalFailed PROVE SInv'
<1>1. SameIdentities
  BY DEF FinalFailed, SameIdentities
<1>2. /\ req' = None /\ late' \subseteq late \cup ({req} \ {None})
  BY DEF FinalFailed, Abandon, IInv, PointInv
<1> QED  BY <1>1, <1>2, LoopKeeps DEF FinalFailed, FlushError

LEMMA SampleKeeps == ASSUME IInv, SInv, Sample PROVE SInv'
<1>1. /\ mem'.nonce = mem.nonce /\ mem'.meters = mem.meters /\ mem'.ret = mem.ret
      /\ mem'.err = (mem.err \/ (mem.v1 /\ ~table))
  BY DEF Sample, IInv, TypeOK, StateTypes, State
<1>2. SameIdentities
  BY <1>1 DEF Sample, SameIdentities
<1>3. req'.type = "live"
  BY DEF Sample
<1> QED  BY <1>1, <1>2, <1>3, LoopKeeps DEF Sample

LEMMA LiveKeeps == ASSUME IInv, SInv, LiveOK \/ LiveMaintenance PROVE SInv'
<1>1. SameIdentities
  BY DEF LiveOK, LiveMaintenance, SameIdentities
<1> QED  BY <1>1, LoopKeeps DEF LiveOK, LiveMaintenance

LEMMA LiveFailedKeeps == ASSUME IInv, SInv, LiveFailed PROVE SInv'
<1>1. SameIdentities
  BY DEF LiveFailed, SameIdentities
<1>2. /\ req' = None /\ late' \subseteq late \cup ({req} \ {None})
  BY DEF LiveFailed, Abandon, IInv, PointInv
<1> QED  BY <1>1, <1>2, LoopKeeps DEF LiveFailed

LEMMA NothingToRetireKeeps == ASSUME IInv, SInv, NothingToRetire PROVE SInv'
<1>1. SameIdentities
  BY DEF NothingToRetire, SameIdentities
<1> QED  BY <1>1, LoopKeeps DEF NothingToRetire

LEMMA IngressFailsKeeps == ASSUME IInv, SInv, IngressFails PROVE SInv'
<1>1. /\ mem'.nonce = mem.nonce /\ mem'.meters = mem.meters /\ mem'.ret = mem.ret /\ mem'.err
  BY DEF IngressFails, IInv, TypeOK, StateTypes, State
<1>2. SameIdentities
  BY <1>1 DEF IngressFails, SameIdentities
<1> QED  BY <1>1, <1>2, LoopKeeps DEF IngressFails

LEMMA FetchKeeps == ASSUME IInv, SInv, Fetch PROVE SInv'
<1>1. SameIdentities
  BY DEF Fetch, SameIdentities
<1> QED  BY <1>1, LoopKeeps DEF Fetch

LEMMA PublishKeeps == ASSUME IInv, SInv, Publish PROVE SInv'
<1>1. SameIdentities
  BY DEF Publish, SameIdentities
<1>2. ExactInv' /\ DrawnInv' /\ FreshInv' /\ BatchInv' /\ FinalInv' /\ FinalBatches' = FinalBatches
  BY <1>1, IdentitiesKept DEF Publish
<1>3. RulesInv' /\ FlightInv' /\ SettledInv'
  BY <1>2 DEF Publish, SInv, RulesInv, FlightInv, SettledInv, AckedIsSettled
<1> QED  BY <1>2, <1>3 DEF SInv

(* The request carries the pending batch. *)
LEMMA SendFinalKeeps == ASSUME IInv, SInv, SendFinal PROVE SInv'
<1>1. SameIdentities /\ mem.ret # NoRet
  BY DEF SendFinal, SameIdentities, IInv, PointInv
<1>2. ExactInv' /\ DrawnInv' /\ FreshInv' /\ BatchInv' /\ FinalInv' /\ FinalBatches' = FinalBatches
  BY <1>1, IdentitiesKept DEF SendFinal
<1>3. RulesInv' /\ SettledInv'
  BY <1>1, RulesKept, LedgersKept DEF SendFinal
<1>4. FlightInv'
  BY <1>1, <1>2 DEF SendFinal, SInv, FlightInv, AckedIsSettled, FinalBatches, Pending
<1> QED  BY <1>2, <1>3, <1>4 DEF SInv

(* An acknowledgement is saved only for a batch that is settled. *)
LEMMA FinalAckedKeeps == ASSUME IInv, SInv, FinalAcked PROVE SInv'
<1> DEFINE P == [mem.ret EXCEPT !.acked = TRUE]
<1>1. mem.ret # NoRet /\ mem.ret \in Plan /\ mem \in State /\ disk.ret = mem.ret
  BY DEF FinalAcked, IInv, PointInv, TypeOK, StateTypes, State, RetirementInv
<1>2. /\ P # None /\ P.nodes = mem.ret.nodes /\ P.batch = mem.ret.batch
      /\ P.remaining = mem.ret.remaining /\ P.acked
  <2>1. P \in Plan
    BY <1>1 DEF Plan
  <2> QED  BY <1>1, <2>1, NoneAssumption DEF Plan
<1>3. \/ mem' = [mem EXCEPT !.ret = P] /\ disk' = mem' /\ pc' = "clean"
      \/ mem' = mem /\ disk' = disk /\ pc' \in {"sample", "idle"}
  BY DEF FinalAcked, Saved, Unsaved, FlushError
<1> HIDE DEF P
<1>4. /\ mem'.nonce = mem.nonce /\ mem'.meters = mem.meters /\ mem'.err = mem.err
      /\ mem'.ret \in {P, mem.ret} /\ (pc' = "clean" => mem'.ret = P)
  BY <1>1, <1>3 DEF State
<1>5. SameIdentities
  BY <1>1, <1>2, <1>3, <1>4 DEF SameIdentities
<1>6. ExactInv' /\ DrawnInv' /\ FreshInv' /\ BatchInv' /\ FinalInv' /\ FinalBatches' = FinalBatches
  BY <1>5, IdentitiesKept DEF FinalAcked
<1>7. RulesInv' /\ SettledInv'
  BY <1>3, <1>4, <1>5, RulesKept, LedgersKept DEF FinalAcked
<1>8. FlightInv'
  <2>1. mem.ret.batch \in settled
    BY DEF FinalAcked, SInv, FlightInv
  <2> QED  BY <1>2, <1>3, <1>4, <1>6, <2>1 DEF FinalAcked, SInv, FlightInv, AckedIsSettled
<1> QED  BY <1>6, <1>7, <1>8 DEF SInv
-----------------------------------------------------------------------------
(* A packet: the counter and what was counted rise together, and the identity
   is not a final one. *)
LEMMA TrafficKeeps == ASSUME IInv, SInv, Traffic PROVE SInv'
<1> USE DEF SInv
<1>1. PICK n \in live :
        /\ ctr[n] \in 0..(MaxBytes - 1) /\ ctr' = [ctr EXCEPT ![n] = @ + 1]
        /\ LET k == Key(n, mem) IN
           produced' = [x \in DOMAIN produced \cup {k} |->
                          IF x = k THEN RowOr0(produced, k) + 1 ELSE produced[x]]
  BY DEF Traffic
<1>k. PICK k : k = Key(n, mem)
  OBVIOUS
<1>2. /\ n \in Nodes /\ ctr[n] \in Nat /\ ctr[n] # Absent /\ mem.meters[n] # None
      /\ UNCHANGED <<table, live, boot, drawn, mem, disk, desired, ds, pc, req, resp, late,
                     base, settled>>
  BY <1>1, MeteringAssumption, Shapes DEF IInv, CounterInv, Traffic
<1>2a. produced' = [x \in DOMAIN produced \cup {k} |->
                      IF x = k THEN RowOr0(produced, k) + 1 ELSE produced[x]]
  BY <1>1, <1>k
<1>3. /\ DOMAIN produced' = DOMAIN produced \cup {k}
      /\ Counted(k)' = Counted(k) + 1
      /\ \A x : x # k => Counted(x)' = Counted(x)
  <2>1. DOMAIN produced' = DOMAIN produced \cup {k} /\ k \in DOMAIN produced'
    BY <1>2a
  <2>2. produced'[k] = RowOr0(produced, k) + 1
    BY <1>2a
  <2>3. \A x \in DOMAIN produced' : x # k => x \in DOMAIN produced /\ produced'[x] = produced[x]
    BY <1>2a
  <2> QED  BY <2>1, <2>2, <2>3 DEF Counted, RowOr0
<1>4. /\ ctr' \in [Nodes -> Nat \cup {Absent}] /\ ctr'[n] = ctr[n] + 1
      /\ \A x \in Nodes : x # n => ctr'[x] = ctr[x]
      /\ \A x \in Nodes : ctr'[x] = Absent <=> ctr[x] = Absent
  BY <1>1, <1>2, Shapes
<1>5. /\ \A st : \A x : x # n => Key(x, st) # k
      /\ \A st : \A x : Key(x, st)' = Key(x, st)
      /\ \A x : Settling(x)' <=> Settling(x)
      /\ k[1] = n /\ k[3] = mem.nonce /\ k[4] = mem.meters[n]
  BY <1>2, <1>k DEF Key, Settling
<1>5a. Key(n, mem)' = k /\ \A x : Key(x, mem)' = Key(x, mem) /\ Key(x, disk)' = Key(x, disk)
  BY <1>2, <1>k DEF Key
<1>6. ExactInv'
  <2> SUFFICES ASSUME NEW x \in Nodes, ctr'[x] # Absent PROVE ctr'[x] = Counted(Key(x, mem))'
    BY DEF ExactInv
  <2>1. CASE x = n
    BY <1>2, <1>3, <1>4, <1>5a, <1>k, <2>1 DEF ExactInv
  <2>2. CASE x # n
    <3>1. ctr'[x] = ctr[x] /\ ctr[x] = Counted(Key(x, mem)) /\ Key(x, mem) # k
      BY <1>4, <1>5, <2>2 DEF ExactInv
    <3> QED  BY <1>3, <1>2, <3>1 DEF Key
  <2> QED  BY <2>1, <2>2
<1>7. DrawnInv'
  BY <1>2, <1>3, <1>5 DEF DrawnInv, DrawnState
<1>8. FreshInv'
  <2>1. ASSUME NEW x \in Nodes, ctr'[x] = Absent PROVE x # n /\ ctr[x] = Absent
    BY <1>2, <1>4, <2>1
  <2>2. Unused(mem) => Unused(mem)'
    BY <2>1, <1>2, <1>3, <1>5, <1>5a DEF Unused
  <2>3. Unused(disk) => Unused(disk)'
    BY <2>1, <1>2, <1>3, <1>5, <1>5a DEF Unused
  <2> QED  BY <1>2, <2>2, <2>3 DEF FreshInv
<1>9. RulesInv' /\ SettledInv'
  BY <1>2 DEF RulesInv, SettledInv
<1>10. mem.ret # NoRet => n \notin mem.ret.nodes
  BY DEF RulesInv
<1>11. BatchInv'
  BY <1>2, <1>4, <1>5a, <1>10, Shapes DEF BatchInv
<1>12. FinalBatches' = FinalBatches
  BY <1>2 DEF FinalBatches, Pending
<1>13. FinalInv'
  <2> SUFFICES ASSUME NEW b \in FinalBatches, NEW c \in b.counters PROVE FinalReading(c)'
    BY <1>12 DEF FinalInv
  <2>1. FinalReading(c)
    BY DEF FinalInv
  <2>2. c.key # k
    BY <1>5, <1>10, <2>1 DEF FinalReading, Settling
  <2> QED  BY <1>2, <1>3, <1>5, <2>1, <2>2 DEF FinalReading
<1>14. FlightInv'
  BY <1>2, <1>12 DEF FlightInv, AckedIsSettled
<1> QED  BY <1>6, <1>7, <1>8, <1>9, <1>11, <1>13, <1>14

(* Run starts a new epoch only where no counter is left. *)
LEMMA StartupKeeps == ASSUME SoundTable, IInv, SInv, Startup PROVE SInv'
<1> USE DEF SInv
<1>1. CASE table
  <2>1. mem' = mem /\ disk' = disk /\ drawn' = drawn
    BY <1>1 DEF Startup, IInv, PointInv
  <2>2. SameIdentities
    BY <2>1 DEF SameIdentities
  <2>3. ExactInv' /\ DrawnInv' /\ FreshInv' /\ BatchInv' /\ FinalInv' /\ FinalBatches' = FinalBatches
    BY <1>1, <2>1, <2>2, IdentitiesKept DEF Startup
  <2>4. pc' # "cores" /\ pc' # "waitFinal" /\ pc' # "forget"
        /\ (pc' = "clean" => mem.ret # NoRet /\ mem.ret.acked)
    BY DEF Startup, StartPoint, FlushPoint
  <2>5. RulesInv' /\ SettledInv'
    BY <2>1, <2>2, <2>4, RulesKept, LedgersKept DEF Startup
  <2>6. FlightInv'
    BY <2>1, <2>2, <2>3, <2>4, FlightKept DEF Startup
  <2> QED  BY <2>3, <2>5, <2>6
<1>2. CASE ~table
  <2>1. /\ drawn' = drawn + 1 /\ mem' = [mem EXCEPT !.nonce = drawn + 1] /\ disk' = mem'
        /\ UNCHANGED <<table, ctr, live, boot, desired, req, resp, late, base, settled, produced>>
    BY <1>2 DEF Startup, SoundTable, SoundHost, Saved
  <2>2. /\ mem'.nonce = drawn + 1 /\ mem'.meters = mem.meters /\ mem'.ret = mem.ret
        /\ mem'.err = mem.err /\ disk'.meters = mem.meters /\ disk'.nonce = drawn + 1
    BY <2>1, Shapes DEF State
  <2>3. \A n \in Nodes : ctr'[n] = Absent
    BY <1>2, <2>1 DEF IInv, CounterInv
  <2>4. drawn \in Nat /\ mem.meters \in [Nodes -> Nat \cup {None}]
        /\ DOMAIN produced \subseteq Keys
    BY Shapes DEF IInv, TypeOK, LedgerTypes
  <2>5. ExactInv' /\ BatchInv'
    BY <2>1, <2>2, <2>3, Shapes DEF ExactInv, BatchInv
  <2>6. DrawnInv'
    <3>1. \A n \in Nodes : mem.meters[n] # None => mem.meters[n] <= drawn + 1
      BY <2>4 DEF DrawnInv, DrawnState
    <3>2. \A x \in DOMAIN produced : x[3] <= drawn + 1 /\ x[4] # None /\ x[4] <= drawn + 1
      BY <2>4 DEF DrawnInv, Keys
    <3> QED  BY <2>1, <2>2, <2>4, <3>1, <3>2 DEF DrawnInv, DrawnState
  <2>7. FreshInv'
    <3>1. \A x \in DOMAIN produced : x[3] # drawn + 1
      BY <2>4 DEF DrawnInv, Keys
    <3>2. Unused(mem)'
      BY <2>1, <2>2, <3>1 DEF Unused, Key
    <3> QED  BY <1>2, <2>1, <3>2 DEF FreshInv
  <2>8. pc' # "cores" /\ pc' # "waitFinal" /\ pc' # "forget"
        /\ (pc' = "clean" => mem.ret # NoRet /\ mem.ret.acked)
    BY DEF Startup, StartPoint, FlushPoint
  <2>9. RulesInv' /\ SettledInv'
    BY <2>1, <2>2, <2>8 DEF RulesInv, SettledInv, Startup
  <2>10. FinalBatches' = FinalBatches
    BY <2>1, <2>2 DEF FinalBatches, Pending
  <2>11. FinalInv'
    <3>1. \A b \in FinalBatches : \A c \in b.counters : FinalReading(c) /\ c.key \in Keys
      BY Shapes DEF FinalInv
    <3>2. \A x : Counted(x)' = Counted(x) /\ (Settling(x)' <=> Settling(x))
      BY <2>1, <2>2 DEF Counted, Settling
    <3> QED  BY <2>1, <2>2, <2>4, <2>10, <3>1, <3>2 DEF FinalInv, FinalReading, Keys
  <2>12. FlightInv'
    BY <2>1, <2>2, <2>8, <2>10 DEF FlightInv, AckedIsSettled
  <2> QED  BY <2>5, <2>6, <2>7, <2>9, <2>11, <2>12
<1> QED  BY <1>1, <1>2

(* The rules and counters that the plan of the batch keeps. *)
LEMMA CleanKeeps == ASSUME IInv, SInv, Clean PROVE SInv'
<1> USE DEF SInv
<1>1. /\ mem.ret # NoRet /\ mem.ret \in Plan /\ mem.ret.acked
      /\ mem.nonce = disk.nonce /\ mem.meters = disk.meters
      /\ mem.ret.remaining.all \subseteq Known(mem) \ mem.ret.nodes
      /\ UNCHANGED <<drawn, boot, mem, disk, desired, req, resp, late, base, settled, produced>>
  BY Shapes DEF Clean, PruneNodes, IInv, PointInv, RetirementInv, FlightInv
<1>2. SameIdentities
  BY <1>1 DEF SameIdentities
<1>3. CASE UNCHANGED host
  <2>1. pc' \in {"sample", "idle", "forget"}
    BY DEF Clean, FlushError
  <2> QED  BY <1>1, <1>2, <1>3, <2>1, LoopKeeps DEF Clean
<1>4. CASE PruneNodes(mem.ret) /\ pc' = "forget"
  <2>1. /\ \A n : Key(n, mem)' = Key(n, mem) /\ Key(n, disk) = Key(n, mem)
                  /\ Key(n, disk)' = Key(n, disk)
        /\ \A n : Settling(n)' <=> Settling(n)
        /\ \A k : Counted(k)' = Counted(k)
    BY <1>1 DEF Key, Settling, Counted
  <2>2. Unused(mem)
    BY <1>1 DEF FreshInv, Clean
  <2>3. \A n \in Nodes :
          /\ n \in mem.ret.nodes => ctr'[n] = Absent
          /\ ctr'[n] # Absent /\ ctr'[n] # ctr[n] =>
               ctr'[n] = 0 /\ n \in mem.ret.remaining.all /\ ctr[n] = Absent
          /\ ctr'[n] = Absent /\ n \notin mem.ret.nodes => ctr[n] = Absent
    BY <1>4 DEF PruneNodes
  <2>4. ExactInv'
    <3> SUFFICES ASSUME NEW n \in Nodes, ctr'[n] # Absent PROVE ctr'[n] = Counted(Key(n, mem))
      BY <2>1 DEF ExactInv
    <3>1. CASE ctr'[n] = ctr[n]
      BY <3>1 DEF ExactInv
    <3>2. CASE ctr'[n] # ctr[n]
      <4>1. ctr'[n] = 0 /\ n \in mem.ret.remaining.all /\ ctr[n] = Absent
        BY <2>3, <3>2
      <4>2. mem.meters[n] # None /\ ~Settling(n)
        BY <1>1, <4>1 DEF Known, Settling
      <4>3. Key(n, mem) \notin DOMAIN produced
        BY <2>2, <4>1, <4>2 DEF Unused
      <4> QED  BY <4>1, <4>3 DEF Counted, RowOr0
    <3> QED  BY <3>1, <3>2
  <2>5. DrawnInv' /\ SettledInv'
    BY <1>1 DEF DrawnInv, DrawnState, SettledInv
  <2>6. FreshInv'
    <3>1. Unused(mem)'
      BY <1>1, <2>1, <2>2, <2>3 DEF Unused, Settling
    <3>2. Unused(disk)'
      BY <1>1, <2>1, <3>1 DEF Unused
    <3> QED  BY <3>1, <3>2 DEF FreshInv
  <2>7. RulesInv'
    BY <1>1, <1>4 DEF RulesInv, PruneNodes
  <2>8. BatchInv'
    BY <1>1, <2>1, <2>3, Shapes DEF BatchInv
  <2>9. FinalBatches' = FinalBatches
    BY <1>1 DEF FinalBatches, Pending
  <2>10. FinalInv'
    BY <1>1, <2>1, <2>9 DEF FinalInv, FinalReading
  <2>11. FlightInv'
    BY <1>1, <1>4, <2>9 DEF FlightInv, AckedIsSettled
  <2> QED  BY <2>4, <2>5, <2>6, <2>7, <2>8, <2>10, <2>11
<1> QED  BY <1>3, <1>4 DEF Clean

(* The identities of a settled batch are dropped for good. *)
LEMMA ForgetKeeps == ASSUME IInv, SInv, Forget PROVE SInv'
<1> USE DEF SInv
<1>1. /\ mem.ret # NoRet /\ mem.ret \in Plan /\ mem.ret.acked /\ mem.ret.batch \in settled
      /\ mem.nonce = disk.nonce /\ mem.meters = disk.meters
      /\ \A n \in mem.ret.nodes : ctr[n] = Absent
      /\ UNCHANGED <<table, ctr, live, drawn, boot, desired, req, resp, late, base, settled, produced>>
  BY Shapes DEF Forget, IInv, PointInv, RetirementInv, FlightInv, AckedIsSettled
<1>2. CASE mem' = mem /\ disk' = disk /\ pc' \in {"sample", "idle"}
  <2>1. SameIdentities
    BY <1>2 DEF SameIdentities
  <2> QED  BY <1>1, <1>2, <2>1, LoopKeeps DEF Forget
<1>3. CASE Saved(Forgotten) /\ pc' \in {"sample", "begin"}
  <2>1. /\ mem'.ret = NoRet /\ mem'.nonce = mem.nonce /\ mem'.err = mem.err /\ disk' = mem'
        /\ \A n \in Nodes : mem'.meters[n] = IF n \in mem.ret.nodes THEN None ELSE mem.meters[n]
    BY <1>3, Shapes DEF Saved, Forgotten, State
  <2>2. /\ \A n : ~Settling(n)'
        /\ \A k : Counted(k)' = Counted(k)
        /\ \A n \in Nodes \ mem.ret.nodes : Key(n, mem)' = Key(n, mem)
    BY <1>1, <2>1 DEF Key, Settling, Counted
  <2>3. ExactInv' /\ DrawnInv' /\ BatchInv' /\ SettledInv'
    BY <1>1, <2>1, <2>2, Shapes DEF ExactInv, DrawnInv, DrawnState, BatchInv, SettledInv
  <2>4. FreshInv'
    <3>1. Unused(mem)
      BY <1>1 DEF FreshInv, Forget
    <3>2. Unused(mem)'
      BY <1>1, <2>1, <2>2, <3>1 DEF Unused, Settling
    <3> QED  BY <2>1, <3>2 DEF FreshInv, Unused
  <2>5. RulesInv'
    BY <1>1, <1>3, <2>1 DEF RulesInv, Forget
  <2>6. FinalBatches' = FinalBatches
    BY <1>1, <2>1 DEF FinalBatches, Pending
  <2>7. FinalInv'
    <3> SUFFICES ASSUME NEW b \in FinalBatches, NEW c \in b.counters PROVE FinalReading(c)'
      BY <2>6 DEF FinalInv
    <3>1. FinalReading(c) /\ c.key[1] \in Nodes
      BY Shapes DEF FinalInv, Keys
    <3>2. mem'.meters[c.key[1]] # c.key[4]
      BY <2>1, <3>1 DEF FinalReading, Settling
    <3> QED  BY <1>1, <2>1, <2>2, <3>1, <3>2 DEF FinalReading
  <2>8. FlightInv'
    BY <1>1, <1>3, <2>1, <2>6 DEF FlightInv, AckedIsSettled
  <2> QED  BY <2>3, <2>4, <2>5, <2>7, <2>8
<1> QED  BY <1>2, <1>3 DEF Forget, Unsaved, FlushError, AfterFlush
(* The frozen readings are the last ones: the rules counted only configured
   nodes already. *)
LEMMA BeginRetirementKeeps == ASSUME IInv, SInv, BeginRetirement PROVE SInv'
<1> USE DEF SInv
<1>1. /\ mem.ret = NoRet /\ desired # None /\ ~mem.err /\ Retirable = Known(mem) \ desired.nodes
      /\ UNCHANGED <<table, ctr, live, boot, drawn, desired, req, resp, late, base, settled, produced>>
      /\ pc' = "idle" /\ live \subseteq desired.nodes
  BY DEF BeginRetirement, Retirable, RulesInv, IInv, PointInv
<1>2. CASE mem' = mem /\ disk' = disk
  <2>1. SameIdentities
    BY <1>2 DEF SameIdentities
  <2> QED  BY <1>1, <1>2, <2>1, LoopKeeps DEF BeginRetirement
<1>3. CASE table /\ \E S \in SUBSET Retirable, t \in Clock :
             /\ S \subseteq Present
             /\ Saved([mem EXCEPT !.ret =
                  Retiring(S, [ts |-> t, counters |-> Readings(S)],
                           [all  |-> Known(mem) \ S,
                            live |-> (Known(mem) \ S) \cap desired.nodes], FALSE)])
  <2>1. PICK S \in SUBSET Retirable, t \in Clock :
             /\ S \subseteq Present
             /\ Saved([mem EXCEPT !.ret =
                  Retiring(S, [ts |-> t, counters |-> Readings(S)],
                           [all  |-> Known(mem) \ S,
                            live |-> (Known(mem) \ S) \cap desired.nodes], FALSE)])
    BY <1>3
  <2> DEFINE P == Retiring(S, [ts |-> t, counters |-> Readings(S)],
                           [all  |-> Known(mem) \ S,
                            live |-> (Known(mem) \ S) \cap desired.nodes], FALSE)
  <2>2. /\ mem'.ret = P /\ mem'.nonce = mem.nonce /\ mem'.meters = mem.meters
        /\ mem'.err = mem.err /\ disk' = mem'
    <3>1. mem' = [mem EXCEPT !.ret = P] /\ disk' = mem'
      BY <2>1 DEF Saved
    <3> HIDE DEF P
    <3> QED  BY <3>1, Shapes DEF State
  <2>3. /\ mem'.ret.nodes = S /\ ~mem'.ret.acked /\ mem'.ret.batch.counters = Readings(S)
        /\ mem'.ret.remaining.all = Known(mem) \ S
        /\ mem'.ret.remaining.live = (Known(mem) \ S) \cap desired.nodes
    BY <2>2 DEF Retiring
  <2> HIDE DEF P
  <2>4. /\ \A n : Key(n, mem)' = Key(n, mem) /\ Key(n, disk)' = Key(n, mem)
        /\ \A k : Counted(k)' = Counted(k)
        /\ \A n : ~Settling(n)
        /\ S \subseteq Nodes \ desired.nodes
    BY <1>1, <2>1, <2>2 DEF Key, Counted, Settling, Known
  <2>5. ExactInv' /\ DrawnInv' /\ SettledInv'
    BY <1>1, <2>2, <2>4 DEF ExactInv, DrawnInv, DrawnState, SettledInv
  <2>6. FreshInv'
    <3>1. Unused(mem)
      BY <1>3 DEF FreshInv
    <3>2. Unused(mem)' /\ Unused(disk)'
      BY <1>1, <2>2, <2>4, <3>1 DEF Unused
    <3> QED  BY <3>2 DEF FreshInv
  <2>7. RulesInv'
    BY <1>1, <2>2, <2>3, <2>4 DEF RulesInv
  <2>8. BatchInv'
    <3>1. \A n \in S : [key |-> Key(n, mem), val |-> ctr[n]] \in Readings(S)
      BY DEF Readings
    <3>2. \A c \in Readings(S) : c.key[1] \in S
      BY DEF Readings, Key
    <3> QED  BY <1>1, <2>3, <2>4, <3>1, <3>2 DEF BatchInv
  <2>9. mem'.ret # NoRet
    <3>1. [ts |-> t, counters |-> Readings(S)] \in Batch
      BY <2>1, ReadingsHonest DEF Batch
    <3>2. P \in Plan
      <4> DEFINE b == [ts |-> t, counters |-> Readings(S)]
      <4>1. P = Retiring(S, b, [all  |-> Known(mem) \ S,
                                live |-> (Known(mem) \ S) \cap desired.nodes], FALSE)
        BY DEF P
      <4>2. b \in Batch
        BY <3>1
      <4> HIDE DEF b
      <4> QED  BY <2>4, <4>1, <4>2 DEF Retiring, Plan, Known
    <3> QED  BY <2>2, <3>2, NoneAssumption
  <2>10. FinalBatches = settled /\ FinalBatches' = settled \cup {mem'.ret.batch}
    BY <1>1, <2>9 DEF FinalBatches, Pending
  <2>11. FinalInv'
    <3>1. ASSUME NEW b \in settled, NEW c \in b.counters PROVE FinalReading(c)'
      BY <1>1, <2>2, <2>4, <2>10 DEF FinalInv, FinalReading
    <3>2. ASSUME NEW c \in Readings(S) PROVE FinalReading(c)'
      <4>1. PICK n \in S : c = [key |-> Key(n, mem), val |-> ctr[n]]
        BY DEF Readings
      <4>2. n \in Nodes /\ ctr[n] # Absent
        BY <2>1, <4>1 DEF Present
      <4>3. c.val = Counted(c.key) /\ mem.meters[n] # None /\ mem.meters[n] <= drawn
        BY <4>1, <4>2 DEF ExactInv, IInv, CounterInv, DrawnInv, DrawnState
      <4>4. c.key[1] = n /\ c.key[4] = mem.meters[n] /\ Settling(n)'
        BY <2>3, <2>9, <4>1 DEF Key, Settling
      <4> QED  BY <1>1, <2>4, <4>3, <4>4 DEF FinalReading
    <3> QED  BY <2>3, <2>10, <3>1, <3>2 DEF FinalInv
  <2>12. FlightInv'
    BY <1>1, <2>3, <2>10 DEF FlightInv, AckedIsSettled
  <2> QED  BY <2>5, <2>6, <2>7, <2>8, <2>11, <2>12
<1> QED  BY <1>2, <1>3 DEF BeginRetirement, Saved, Unsaved

(* New identities were never used. *)
LEMMA RememberKeeps == ASSUME IInv, SInv, Remember PROVE SInv'
<1> USE DEF SInv
<1> DEFINE new == ds.nodes \ Known(mem)
           st0 == [mem EXCEPT !.v1 = @ \/ OpenRC]
           full == new # {} /\ Cardinality(Known(mem)) + Cardinality(new) > MaxMeters
<1>1. /\ mem.ret = NoRet /\ disk.ret = NoRet /\ new \subseteq Nodes
      /\ UNCHANGED <<table, ctr, live, boot, desired, req, resp, late, base, settled, produced>>
  BY DEF Remember, IInv, TypeOK, PointInv, RetirementInv, LoopTypes, Document
<1>2. Cardinality(new) \in Nat
  BY <1>1, MeteringAssumption, FS_Subset, FS_CardinalityType
<1>3. /\ st0 \in State /\ st0.meters = mem.meters /\ st0.nonce = mem.nonce
      /\ st0.ret = mem.ret /\ st0.err = mem.err
  BY MeteringAssumption, Shapes DEF State
<1>4. PICK g \in [Nodes -> Nat \cup {None}] :
        /\ drawn' \in Nat /\ drawn <= drawn'
        /\ \A n \in Nodes : \/ g[n] = mem.meters[n]
                            \/ mem.meters[n] = None /\ g[n] \in (drawn + 1)..drawn'
        /\ \/ mem' = [st0 EXCEPT !.meters = g] /\ disk' = mem' /\ pc' = "ensure"
           \/ /\ mem' = [st0 EXCEPT !.meters = g, !.err = TRUE]
              /\ disk' \in {mem', disk} /\ pc' = "idle"
  <2>1. CASE full
    <3>1. ApplyError(st0) /\ drawn' = drawn
      BY <2>1 DEF Remember
    <3>2. /\ mem' = [st0 EXCEPT !.meters = mem.meters, !.err = TRUE]
          /\ disk' \in {mem', disk} /\ pc' = "idle"
      BY <3>1, <1>3 DEF ApplyError, State
    <3>3. /\ mem.meters \in [Nodes -> Nat \cup {None}] /\ drawn' \in Nat /\ drawn <= drawn'
          /\ \A n \in Nodes : mem.meters[n] = mem.meters[n]
      BY <3>1, Shapes
    <3> HIDE DEF st0, new, full
    <3> QED  BY <3>2, <3>3
  <2>2. CASE ~full
    <3>1. PICK f \in [new -> (drawn + 1)..(drawn + Cardinality(new))] :
            /\ drawn' = drawn + Cardinality(new)
            /\ LET st == [st0 EXCEPT !.meters =
                            [n \in Nodes |-> IF n \in new THEN f[n] ELSE mem.meters[n]]]
               IN \/ Saved(st) /\ pc' = "ensure"
                  \/ Fail("save") /\ ApplyError(st)
      BY <2>2 DEF Remember
    <3> DEFINE h == [n \in Nodes |-> IF n \in new THEN f[n] ELSE mem.meters[n]]
    <3>2. /\ drawn' \in Nat /\ drawn <= drawn'
          /\ \A n \in new : f[n] \in (drawn + 1)..drawn' /\ f[n] \in Nat
      <4>1. drawn \in Nat /\ drawn' = drawn + Cardinality(new)
        BY <3>1, Shapes
      <4>2. \A n \in new : f[n] \in (drawn + 1)..(drawn + Cardinality(new))
        BY <3>1
      <4> HIDE DEF new, st0, full
      <4> QED  BY <1>2, <4>1, <4>2
    <3>3. /\ h \in [Nodes -> Nat \cup {None}]
          /\ \A n \in Nodes : \/ h[n] = mem.meters[n]
                              \/ mem.meters[n] = None /\ h[n] \in (drawn + 1)..drawn'
      BY <1>1, <3>2, Shapes DEF Known
    <3>4. \/ mem' = [st0 EXCEPT !.meters = h] /\ disk' = mem' /\ pc' = "ensure"
          \/ /\ mem' = [st0 EXCEPT !.meters = h, !.err = TRUE]
             /\ disk' \in {mem', disk} /\ pc' = "idle"
      BY <1>3, <3>1 DEF Saved, ApplyError, State
    <3> HIDE DEF h, st0, new, full
    <3> QED  BY <3>2, <3>3, <3>4
  <2> QED  BY <2>1, <2>2
<1> HIDE DEF st0, new, full
<1>5. /\ mem'.nonce = mem.nonce /\ mem'.meters = g /\ mem'.ret = NoRet /\ disk'.ret = NoRet
      /\ disk' \in {mem', disk} /\ pc' \in {"ensure", "idle"}
      /\ mem.err => mem'.err
  BY <1>1, <1>3, <1>4 DEF State
<1>6. /\ \A k : Counted(k)' = Counted(k)
      /\ \A n : ~Settling(n) /\ ~Settling(n)'
      /\ \A n : Key(n, disk) = <<n, boot, disk.nonce, disk.meters[n]>>
      /\ drawn \in Nat
  BY <1>1, <1>5, Shapes DEF Counted, Settling, Key
<1>7. ExactInv'
  <2> SUFFICES ASSUME NEW n \in Nodes, ctr[n] # Absent PROVE Key(n, mem)' = Key(n, mem)
    BY <1>1, <1>6 DEF ExactInv
  <2>1. g[n] = mem.meters[n]
    BY <1>4 DEF IInv, CounterInv
  <2> QED  BY <1>1, <1>5, <2>1 DEF Key
<1>8. DrawnInv'
  <2>1. \A x \in Nat : x <= drawn => x <= drawn'
    BY <1>4, <1>6
  <2>2. \A n \in Nodes : g[n] # None => g[n] <= drawn'
    BY <1>4, <1>6, <2>1, Shapes DEF DrawnInv, DrawnState
  <2>3. \A n \in Nodes : disk.meters[n] # None => disk.meters[n] <= drawn'
    BY <2>1, Shapes DEF DrawnInv, DrawnState
  <2>4. mem.nonce <= drawn' /\ disk.nonce <= drawn'
    BY <2>1, Shapes DEF DrawnInv, DrawnState
  <2>5. \A k \in DOMAIN produced : k[3] <= drawn' /\ k[4] # None /\ k[4] <= drawn'
    BY <2>1 DEF DrawnInv, IInv, TypeOK, LedgerTypes, Keys
  <2> QED  BY <1>1, <1>5, <2>2, <2>3, <2>4, <2>5 DEF DrawnInv, DrawnState
<1>9. FreshInv'
  <2>1. ASSUME table PROVE Unused(mem)'
    <3> SUFFICES ASSUME NEW n \in Nodes, g[n] # None, ctr[n] = Absent
                 PROVE  <<n, boot, mem.nonce, g[n]>> \notin DOMAIN produced
      BY <1>1, <1>5 DEF Unused, Key
    <3>1. CASE g[n] = mem.meters[n]
      BY <2>1, <1>6, <3>1 DEF FreshInv, Unused, Key
    <3>2. CASE g[n] \in (drawn + 1)..drawn'
      <4>1. g[n] \in Nat /\ ~(g[n] <= drawn)
        BY <1>4, <1>6, <3>2
      <4> QED  BY <4>1 DEF DrawnInv
    <3> QED  BY <1>4, <3>1, <3>2
  <2>2. table /\ disk' = disk => Unused(disk)'
    BY <1>1, <1>6 DEF FreshInv, Unused, Key
  <2>3. table /\ disk' = mem' => Unused(disk)'
    BY <2>1 DEF Unused, Key
  <2> QED  BY <1>1, <1>5, <2>1, <2>2, <2>3 DEF FreshInv
<1>10. RulesInv' /\ BatchInv' /\ SettledInv'
  BY <1>1, <1>5 DEF RulesInv, BatchInv, SettledInv, Remember
<1>11. FinalBatches' = FinalBatches
  BY <1>1, <1>5 DEF FinalBatches, Pending
<1>12. FinalInv'
  <2> SUFFICES ASSUME NEW b \in FinalBatches, NEW c \in b.counters PROVE FinalReading(c)'
    BY <1>11 DEF FinalInv
  <2>1. FinalReading(c) /\ c.key[1] \in Nodes /\ c.key[4] \in Nat
    BY Shapes DEF FinalInv, FinalReading, Keys
  <2>2. mem.meters[c.key[1]] # c.key[4] /\ disk.meters[c.key[1]] # c.key[4]
    BY <1>6, <2>1 DEF FinalReading
  <2>3. g[c.key[1]] # c.key[4]
    <3>1. c.key[4] \notin (drawn + 1)..drawn'
      BY <1>4, <1>6, <2>1 DEF FinalReading
    <3> QED  BY <1>4, <2>1, <2>2, <3>1
  <2>4. c.key[4] <= drawn'
    BY <1>4, <1>6, <2>1 DEF FinalReading
  <2> QED  BY <1>5, <1>6, <2>1, <2>2, <2>3, <2>4 DEF FinalReading
<1>13. FlightInv'
  BY <1>1, <1>5, <1>11 DEF FlightInv, AckedIsSettled
<1> QED  BY <1>7, <1>8, <1>9, <1>10, <1>12, <1>13
(* Counters appear only under identities that counted nothing yet. *)
LEMMA EnsureKeeps == ASSUME IInv, SInv, Ensure PROVE SInv'
<1> USE DEF SInv
<1>1. /\ mem.ret = NoRet /\ disk.ret = NoRet /\ ds.nodes \subseteq Known(mem)
      /\ UNCHANGED <<boot, desired, ds, req, resp, late, base, settled, produced>>
      /\ drawn \in Nat /\ DOMAIN produced \subseteq Keys
  BY Shapes DEF Ensure, EnsureNodes, IInv, TypeOK, LedgerTypes, PointInv, RetirementInv
<1>2. /\ EpochState.meters = mem.meters /\ EpochState.ret = NoRet /\ EpochState.err = mem.err
      /\ table => EpochState = mem /\ drawn' = drawn
      /\ ~table => EpochState.nonce = drawn + 1 /\ drawn' = drawn + 1
      /\ EpochState \in State
  BY <1>1, Shapes DEF EpochState, State, Ensure
<1>3. \/ /\ EnsureNodes(ds.nodes, Known(mem) \ ds.nodes)
         /\ mem' = EpochState /\ disk' = EpochState /\ pc' = "cores"
      \/ /\ mem' = [EpochState EXCEPT !.err = TRUE] /\ disk' \in {mem', disk}
         /\ pc' = "idle" /\ UNCHANGED host
  BY DEF Ensure, Saved, ApplyError
<1>4. /\ mem'.meters = mem.meters /\ mem'.ret = NoRet /\ mem'.nonce = EpochState.nonce
      /\ mem.err => mem'.err
      /\ pc' = "idle" => mem'.err
      /\ disk' \in {mem', disk}
  BY <1>2, <1>3 DEF State
<1>5. /\ \A k : Counted(k)' = Counted(k)
      /\ \A n : ~Settling(n) /\ ~Settling(n)'
      /\ FinalBatches' = FinalBatches
  BY <1>1, <1>4 DEF Counted, Settling, FinalBatches, Pending
<1>6. CASE table /\ pc' = "idle"
  <2>1. SameIdentities
    BY <1>1, <1>2, <1>4, <1>6 DEF SameIdentities
  <2> QED  BY <1>1, <1>2, <1>3, <1>4, <1>6, <2>1, LoopKeeps DEF Ensure
<1>7. CASE ~table \/ pc' = "cores"
  <2>1. \A n \in Nodes : mem.meters[n] # None /\ ctr[n] = Absent =>
          <<n, boot, mem'.nonce, mem.meters[n]>> \notin DOMAIN produced
    <3>1. CASE table
      BY <1>2, <1>4, <1>5, <3>1 DEF FreshInv, Unused, Key
    <3>2. CASE ~table
      <4>1. \A k \in DOMAIN produced : k[3] # drawn + 1
        BY <1>1 DEF DrawnInv, Keys
      <4> QED  BY <1>2, <1>4, <3>2, <4>1
    <3> QED  BY <3>1, <3>2
  <2>2. ASSUME NEW n \in Nodes, ctr'[n] # Absent
        PROVE  ctr'[n] = RowOr0(produced, <<n, boot, mem'.nonce, mem.meters[n]>>)
    <3>1. CASE ctr[n] # Absent
      <4>1. table /\ ctr'[n] = ctr[n] /\ mem'.nonce = mem.nonce
        BY <1>2, <1>3, <1>4, <3>1 DEF IInv, CounterInv, EnsureNodes
      <4> QED  BY <3>1, <4>1 DEF ExactInv, Key, Counted
    <3>2. CASE ctr[n] = Absent
      <4>1. ctr'[n] = 0 /\ mem.meters[n] # None
        BY <1>1, <1>3, <2>2, <3>2 DEF EnsureNodes, Known
      <4> QED  BY <2>1, <3>2, <4>1 DEF RowOr0
    <3> QED  BY <3>1, <3>2
  <2>3. ExactInv'
    BY <1>1, <1>4, <2>2 DEF ExactInv, Key, Counted
  <2>4. DrawnInv'
    <3>1. drawn' \in Nat /\ drawn <= drawn' /\ mem'.nonce <= drawn'
      BY <1>1, <1>2, <1>4, Shapes DEF DrawnInv, DrawnState
    <3>2. \A n \in Nodes : mem.meters[n] # None => mem.meters[n] <= drawn'
      BY <1>1, <3>1, Shapes DEF DrawnInv, DrawnState
    <3>3. disk.nonce <= drawn' /\ \A n \in Nodes : disk.meters[n] # None => disk.meters[n] <= drawn'
      BY <1>1, <3>1, Shapes DEF DrawnInv, DrawnState
    <3>4. \A k \in DOMAIN produced : k[3] <= drawn' /\ k[4] # None /\ k[4] <= drawn'
      BY <1>1, <3>1 DEF DrawnInv, Keys
    <3> QED  BY <1>1, <1>4, <3>1, <3>2, <3>3, <3>4 DEF DrawnInv, DrawnState
  <2>5. FreshInv'
    <3>1. \A n \in Nodes : ctr'[n] = Absent => ctr[n] = Absent
      BY <1>3 DEF EnsureNodes
    <3>2. Unused(mem)'
      BY <1>1, <1>4, <1>5, <2>1, <3>1 DEF Unused, Key
    <3>3. table' => disk' = mem'
      BY <1>3, <1>7
    <3>4. table' => Unused(disk)'
      BY <3>2, <3>3 DEF Unused, Key
    <3> QED  BY <3>2, <3>4 DEF FreshInv
  <2>6. RulesInv'
    <3>1. pc' = "cores" => live' \subseteq ds'.nodes
      BY <1>1, <1>3 DEF EnsureNodes
    <3> QED  BY <1>3, <1>4, <3>1 DEF RulesInv
  <2>7. BatchInv' /\ SettledInv'
    BY <1>1, <1>4 DEF BatchInv, SettledInv
  <2>8. FinalInv'
    <3> SUFFICES ASSUME NEW b \in FinalBatches, NEW c \in b.counters PROVE FinalReading(c)'
      BY <1>5 DEF FinalInv
    <3>1. FinalReading(c) /\ c.key[4] \in Nat
      BY Shapes DEF FinalInv, FinalReading, Keys
    <3>2. c.key[4] <= drawn'
      BY <1>1, <1>2, <3>1 DEF FinalReading
    <3> QED  BY <1>4, <1>5, <3>1, <3>2 DEF FinalReading
  <2>9. FlightInv'
    BY <1>1, <1>3, <1>4, <1>5 DEF FlightInv, AckedIsSettled
  <2> QED  BY <2>3, <2>4, <2>5, <2>6, <2>7, <2>8, <2>9
<1> QED  BY <1>3, <1>6, <1>7

(* After a successful apply the rules are those of the applied document. *)
LEMMA CoresKeeps == ASSUME IInv, SInv, Cores PROVE SInv'
<1> USE DEF SInv
<1>1. /\ mem.ret = NoRet /\ disk.ret = NoRet /\ live \subseteq ds.nodes /\ pc' = "idle"
      /\ UNCHANGED <<table, ctr, boot, drawn, req, resp, late, base, settled, produced>>
  BY DEF Cores, IInv, PointInv, RetirementInv, RulesInv
<1>2. /\ mem'.nonce = mem.nonce /\ mem'.meters = mem.meters /\ mem'.ret = NoRet
      /\ disk' \in {mem', disk}
      /\ mem'.err \/ (desired' = ds /\ live' = live)
  <2>1. CASE \E v \in {mem.v1, TRUE} : ApplyError([mem EXCEPT !.v1 = v])
    BY <1>1, <2>1, Shapes DEF ApplyError, State
  <2>2. CASE /\ desired' = ds /\ live' = live
             /\ LET st == [mem EXCEPT !.v1 = TRUE, !.rev = ds.rev, !.err = FALSE]
                IN Saved(st) \/ Unsaved(st)
    BY <1>1, <2>2, Shapes DEF Saved, Unsaved, State
  <2> QED  BY <2>1, <2>2 DEF Cores
<1>3. SameIdentities
  BY <1>1, <1>2 DEF SameIdentities
<1>4. ExactInv' /\ DrawnInv' /\ FreshInv' /\ BatchInv' /\ FinalInv' /\ FinalBatches' = FinalBatches
  BY <1>1, <1>3, IdentitiesKept DEF Cores
<1>5. RulesInv' /\ SettledInv'
  BY <1>1, <1>2, LedgersKept DEF RulesInv
<1>6. FlightInv'
  BY <1>1, <1>3, <1>4, FlightKept
<1> QED  BY <1>4, <1>5, <1>6

(* Without counters there is nothing to compare; no batch is pending. *)
LEMMA TableLossKeeps == ASSUME SoundTable, IInv, SInv, TableLoss PROVE SInv'
<1> USE DEF SInv
<1>1. /\ mem.ret = NoRet /\ ~table' /\ live' = {} /\ \A n \in Nodes : ctr'[n] = Absent
      /\ UNCHANGED <<boot, drawn, mem, disk, desired, ds, pc, req, resp, late, base, settled, produced>>
  BY DEF TableLoss, Lose, SoundTable
<1>2. FinalBatches' = FinalBatches /\ \A n : ~Settling(n) /\ ~Settling(n)'
  BY <1>1 DEF FinalBatches, Pending, Settling
<1>3. ExactInv' /\ DrawnInv' /\ FreshInv' /\ RulesInv' /\ BatchInv' /\ SettledInv'
  BY <1>1 DEF ExactInv, DrawnInv, DrawnState, FreshInv, RulesInv, BatchInv, SettledInv
<1>4. FinalInv'
  BY <1>1, <1>2 DEF FinalInv, FinalReading, Counted
<1>5. FlightInv'
  BY <1>1, <1>2 DEF FlightInv, AckedIsSettled
<1> QED  BY <1>3, <1>4, <1>5

(* What every restart does, with or without the counters. *)
LEMMA RestartKeeps ==
  ASSUME IInv, SInv, Restart, drawn' \in Nat, drawn <= drawn'
  PROVE  /\ DrawnInv' /\ FinalInv' /\ FlightInv' /\ SettledInv'
         /\ mem' = disk /\ disk' = disk /\ mem'.ret = mem.ret /\ desired' = None /\ pc' = "boot"
         /\ UNCHANGED <<base, settled, produced>>
<1> USE DEF SInv
<1>1. /\ req' = None /\ late' \subseteq late \cup ({req} \ {None})
      /\ mem' = disk /\ disk' = disk /\ desired' = None /\ pc' = "boot"
      /\ UNCHANGED <<base, settled, produced>> /\ mem.ret = disk.ret
  BY DEF Restart, Abandon, IInv, RetirementInv
<1>2. /\ FinalBatches' = FinalBatches /\ \A k : Counted(k)' = Counted(k)
      /\ \A n : Settling(n)' <=> Settling(n)
  BY <1>1 DEF FinalBatches, Pending, Counted, Settling
<1>3. \A x \in Nat : x <= drawn => x <= drawn'
  BY Shapes
<1>4. DrawnInv'
  <2>1. disk.nonce <= drawn' /\ \A n \in Nodes : disk.meters[n] # None => disk.meters[n] <= drawn'
    BY <1>3, Shapes DEF DrawnInv, DrawnState
  <2>2. \A k \in DOMAIN produced : k[3] <= drawn' /\ k[4] # None /\ k[4] <= drawn'
    BY <1>3 DEF DrawnInv, IInv, TypeOK, LedgerTypes, Keys
  <2> QED  BY <1>1, <2>1, <2>2 DEF DrawnInv, DrawnState
<1>5. FinalInv'
  <2> SUFFICES ASSUME NEW b \in FinalBatches, NEW c \in b.counters PROVE FinalReading(c)'
    BY <1>2 DEF FinalInv
  <2>1. FinalReading(c) /\ c.key[4] \in Nat /\ c.key[4] <= drawn'
    BY <1>3, Shapes DEF FinalInv, FinalReading, Keys
  <2> QED  BY <1>1, <1>2, <2>1 DEF FinalReading
<1>6. FlightInv' /\ SettledInv'
  BY <1>1, <1>2, LedgersKept DEF FlightInv, AckedIsSettled
<1> QED  BY <1>1, <1>4, <1>5, <1>6

(* state.json names the identities of the counters that are there. *)
LEMMA CrashKeeps == ASSUME IInv, SInv, Crash PROVE SInv'
<1> USE DEF SInv
<1>1. UNCHANGED <<table, ctr, live, boot, drawn>> /\ drawn \in Nat /\ Restart
  BY Shapes DEF Crash
<1>2. /\ DrawnInv' /\ FinalInv' /\ FlightInv' /\ SettledInv'
      /\ mem' = disk /\ disk' = disk /\ mem'.ret = mem.ret /\ desired' = None /\ pc' = "boot"
      /\ UNCHANGED <<base, settled, produced>>
  BY <1>1, RestartKeeps
<1>3. \A n \in Nodes : ctr[n] # Absent => Key(n, mem)' = Key(n, mem)
  BY <1>1, <1>2 DEF Key, IInv, CounterInv
<1>4. ExactInv' /\ RulesInv' /\ BatchInv'
  BY <1>1, <1>2, <1>3, Shapes DEF ExactInv, Counted, RulesInv, BatchInv
<1>5. FreshInv'
  <2>1. \A n : Settling(n)' <=> Settling(n)
    BY <1>2 DEF Settling
  <2> QED  BY <1>1, <1>2, <2>1 DEF FreshInv, Unused, Key
<1> QED  BY <1>2, <1>4, <1>5

LEMMA RebootKeeps == ASSUME IInv, SInv, Reboot PROVE SInv'
<1> USE DEF SInv
<1>1. /\ ~table' /\ live' = {} /\ (\A n \in Nodes : ctr'[n] = Absent)
      /\ drawn' \in Nat /\ drawn <= drawn' /\ Restart
  BY Shapes DEF Reboot, Lose
<1>2. /\ DrawnInv' /\ FinalInv' /\ FlightInv' /\ SettledInv'
      /\ mem'.ret = mem.ret /\ desired' = None /\ pc' = "boot"
  BY <1>1, RestartKeeps
<1>3. ExactInv' /\ RulesInv' /\ BatchInv' /\ FreshInv'
  BY <1>1, <1>2, Shapes DEF ExactInv, RulesInv, BatchInv, FreshInv
<1> QED  BY <1>2, <1>3

-----------------------------------------------------------------------------
(* A committed request settles its batch, and moves no settled baseline: an
   honest reading of a final identity is the final reading. *)
LEMMA IngestSettles ==
  ASSUME IInv, SInv, NEW m \in Request, NEW ok \in BOOLEAN, Ingest(m, ok), Honest(m.batch),
         m.type = "final" => m.batch \in FinalBatches
  PROVE  /\ SettledInv' /\ settled \subseteq settled'
         /\ settled' \subseteq settled \cup (IF m.type = "final" THEN {m.batch} ELSE {})
         /\ m.type = "final" /\ ok => m.batch \in settled'
<1> USE DEF SInv
<1> DEFINE durable == m.type = "final"
           ts == m.batch.ts
           C  == {c \in m.batch.counters : ~Ignored(c, ts, durable)}
<1>1. CASE UNCHANGED ctl /\ (m.type = "final" /\ ok => m.batch \in settled)
  BY <1>1, LedgersKept
<1>2. CASE /\ base' = Baselines(C, ts) /\ settled' = Receipts(m)
           /\ \A c \in m.batch.counters : ~Rejected(c, ts, durable)
  <2>1. /\ settled \subseteq settled' /\ (m.type = "final" => m.batch \in settled')
        /\ settled' \subseteq settled \cup (IF m.type = "final" THEN {m.batch} ELSE {})
    BY <1>2 DEF Receipts
  <2>2. \A k \in KeysOf(C) : Of(C, k) \in C /\ Of(C, k).key = k
    BY DEF KeysOf, Of
  <2>3. /\ DOMAIN base' = DOMAIN base \cup KeysOf(C)
        /\ \A k \in KeysOf(C) : base'[k].val = Of(C, k).val
        /\ \A k \in DOMAIN base \ KeysOf(C) : base'[k] = base[k]
    BY <1>2 DEF Baselines
  <2>4. \A x \in C : /\ x.key \in Keys /\ x.val \in Nat /\ x.val <= Counted(x.key)
                     /\ x.key \in DOMAIN base => ~(x.val < base[x.key].val)
    BY <1>2 DEF Honest, Rejected, Found, Request, Batch, Readout
  <2>5. \A k \in Keys : Counted(k) \in Nat
    BY DEF Counted, RowOr0, IInv, TypeOK, LedgerTypes
  <2> HIDE DEF C
  <2>6. ASSUME NEW b \in settled, NEW c \in b.counters
        PROVE  c.key \in DOMAIN base' /\ base'[c.key].val = c.val
    <3>1. /\ c.key \in DOMAIN base /\ base[c.key].val = c.val /\ c.val = Counted(c.key)
          /\ c.val \in Nat /\ c.key \in Keys
      BY Shapes DEF SettledInv, FinalInv, FinalReading, FinalBatches
    <3>2. CASE c.key \in KeysOf(C)
      <4>1. PICK x \in C : x = Of(C, c.key) /\ x.key = c.key
        BY <2>2, <3>2
      <4>2. x.val \in Nat /\ x.val <= c.val /\ ~(x.val < c.val)
        BY <2>4, <3>1, <4>1
      <4>3. x.val = c.val
        BY <3>1, <4>2
      <4> QED  BY <2>3, <3>1, <3>2, <4>1, <4>3
    <3>3. CASE c.key \notin KeysOf(C)
      BY <2>3, <3>1, <3>3
    <3> QED  BY <3>2, <3>3
  <2>7. ASSUME m.type = "final", NEW c \in m.batch.counters
        PROVE  c.key \in DOMAIN base' /\ base'[c.key].val = c.val
    <3>1. C = m.batch.counters
      BY <2>7 DEF C, Ignored
    <3>2. c.key \in KeysOf(C)
      BY <3>1 DEF KeysOf
    <3>3. PICK x \in C : x = Of(C, c.key) /\ x.key = c.key
      BY <2>2, <3>2
    <3>4. x.val = Counted(x.key) /\ c.val = Counted(c.key)
      BY <2>7, <3>1, <3>3 DEF FinalInv, FinalReading
    <3> QED  BY <2>3, <3>2, <3>3, <3>4
  <2>8. SettledInv'
    BY <2>1, <2>6, <2>7 DEF SettledInv
  <2> QED  BY <2>1, <2>8
<1>3. \/ UNCHANGED ctl /\ (m.type = "final" /\ ok => m.batch \in settled)
      \/ /\ base' = Baselines(C, ts) /\ settled' = Receipts(m)
         /\ \A c \in m.batch.counters : ~Rejected(c, ts, durable)
  BY DEF Ingest
<1> QED  BY <1>1, <1>2, <1>3

(* A step of the controller: nothing moves on the host. *)
LEMMA ControllerKeeps ==
  ASSUME IInv, SInv, UNCHANGED <<table, ctr, live, boot, drawn, mem, disk, desired, ds, pc, produced>>,
         settled \subseteq settled', settled' \subseteq FinalBatches
  PROVE  /\ ExactInv' /\ DrawnInv' /\ FreshInv' /\ RulesInv' /\ BatchInv' /\ FinalInv'
         /\ FinalBatches' = FinalBatches /\ AckedIsSettled'
<1> USE DEF SInv
<1>1. /\ \A n : Key(n, mem)' = Key(n, mem) /\ Key(n, disk)' = Key(n, disk)
      /\ \A n : Settling(n)' <=> Settling(n)
      /\ \A k : Counted(k)' = Counted(k)
      /\ FinalBatches' = FinalBatches
  BY DEF Key, Settling, Counted, FinalBatches, Pending
<1>2. ExactInv' /\ DrawnInv' /\ RulesInv' /\ BatchInv'
  BY <1>1 DEF ExactInv, DrawnInv, DrawnState, RulesInv, BatchInv
<1>3. FreshInv'
  BY <1>1 DEF FreshInv, Unused
<1>4. FinalInv' /\ AckedIsSettled'
  BY <1>1 DEF FinalInv, FinalReading, AckedIsSettled, FlightInv
<1> QED  BY <1>1, <1>2, <1>3, <1>4

LEMMA ServeKeeps == ASSUME IInv, SInv, Serve PROVE SInv'
<1> USE DEF SInv
<1>1. PICK m \in Request, ok \in BOOLEAN :
        /\ m = req /\ Ingest(m, ok) /\ Honest(m.batch)
        /\ resp' = [ok |-> ok, rev |-> pub.rev]
        /\ m.type = "final" => m.batch \in FinalBatches
  BY DEF Serve, IInv, TypeOK, WireTypes, WireInv, FlightInv
<1>2. /\ SettledInv' /\ settled \subseteq settled' /\ settled' \subseteq FinalBatches
      /\ m.type = "final" /\ ok => m.batch \in settled'
  BY <1>1, IngestSettles DEF FinalBatches
<1>3. /\ ExactInv' /\ DrawnInv' /\ FreshInv' /\ RulesInv' /\ BatchInv' /\ FinalInv'
      /\ FinalBatches' = FinalBatches /\ AckedIsSettled'
  BY <1>2, ControllerKeeps DEF Serve
<1>4. FlightInv'
  BY <1>1, <1>2, <1>3 DEF FlightInv, Serve
<1> QED  BY <1>2, <1>3, <1>4

LEMMA ServeLateKeeps == ASSUME IInv, SInv, ServeLate PROVE SInv'
<1> USE DEF SInv
<1>1. PICK m \in Request, ok \in BOOLEAN :
        /\ Ingest(m, ok) /\ Honest(m.batch) /\ late' \subseteq late
        /\ m.type = "final" => m.batch \in FinalBatches
  BY DEF ServeLate, IInv, TypeOK, WireTypes, WireInv, FlightInv
<1>2. SettledInv' /\ settled \subseteq settled' /\ settled' \subseteq FinalBatches
  BY <1>1, IngestSettles DEF FinalBatches
<1>3. /\ ExactInv' /\ DrawnInv' /\ FreshInv' /\ RulesInv' /\ BatchInv' /\ FinalInv'
      /\ FinalBatches' = FinalBatches /\ AckedIsSettled'
  BY <1>2, ControllerKeeps DEF ServeLate
<1>4. FlightInv'
  BY <1>1, <1>2, <1>3 DEF FlightInv, ServeLate
<1> QED  BY <1>2, <1>3, <1>4

-----------------------------------------------------------------------------
LEMMA SettlementInit == Init => SInv
<1> SUFFICES ASSUME Init PROVE SInv
  OBVIOUS
<1>1. /\ \A n \in Nodes : ctr[n] = Absent /\ mem.meters[n] = None
      /\ mem.ret = NoRet /\ mem.nonce = 2 /\ disk = mem /\ DOMAIN produced = {}
      /\ ~table /\ live = {} /\ drawn = 2
  BY DEF Init
<1>2. ExactInv /\ DrawnInv /\ FreshInv /\ RulesInv /\ BatchInv
  BY <1>1 DEF Init, ExactInv, DrawnInv, DrawnState, FreshInv, RulesInv, BatchInv
<1>3. FinalInv /\ FlightInv /\ SettledInv
  BY <1>1 DEF Init, FinalInv, FinalBatches, Pending, FlightInv, AckedIsSettled, SettledInv
<1> QED  BY <1>2, <1>3 DEF SInv

LEMMA SettlementNext == SoundTable /\ IInv /\ SInv /\ [Next]_vars => SInv'
<1> SUFFICES ASSUME SoundTable, IInv, SInv, [Next]_vars PROVE SInv'
  OBVIOUS
<1>1. CASE UNCHANGED vars
  <2>1. SameIdentities
    BY <1>1 DEF SameIdentities
  <2>2. ExactInv' /\ DrawnInv' /\ FreshInv' /\ BatchInv' /\ FinalInv' /\ FinalBatches' = FinalBatches
    BY <1>1, <2>1, IdentitiesKept
  <2>3. RulesInv' /\ FlightInv' /\ SettledInv'
    BY <1>1, <2>2 DEF SInv, RulesInv, FlightInv, SettledInv, AckedIsSettled
  <2> QED  BY <2>2, <2>3 DEF SInv
<1>2. CASE AgentStep
  BY <1>2, StartupKeeps, HeartbeatKeeps, SendFinalKeeps, FinalAckedKeeps, FinalFailedKeeps,
     CleanKeeps, ForgetKeeps, SampleKeeps, LiveKeeps, LiveFailedKeeps, NothingToRetireKeeps,
     IngressFailsKeeps, BeginRetirementKeeps, FetchKeeps, RememberKeeps, EnsureKeeps,
     CoresKeeps DEF AgentStep
<1>3. CASE Traffic \/ Publish \/ Serve \/ ServeLate \/ TableLoss \/ Crash \/ Reboot
  BY <1>3, TrafficKeeps, PublishKeeps, ServeKeeps, ServeLateKeeps, TableLossKeeps, CrashKeeps,
     RebootKeeps
<1> QED  BY <1>1, <1>2, <1>3 DEF Next

(* On a host that keeps its nft table while a batch is pending, the counters,
   the identities, the batches and the settled baselines agree in every
   reachable state. *)
THEOREM SettlementInvariance == SoundTable => (Spec => [](IInv /\ SInv))
<1> SUFFICES ASSUME SoundTable PROVE Spec => [](IInv /\ SInv)
  OBVIOUS
<1>1. Init => IInv /\ SInv
  BY InitStep, SettlementInit
<1>2. IInv /\ SInv /\ [Next]_vars => IInv' /\ SInv'
  BY NextStep, SettlementNext DEF SoundTable
<1> QED  BY <1>1, <1>2, PTL DEF Spec

(* flushRetirement and FinalMeters: what the agent saved as acknowledged is in
   the ledger, and neither a replay, nor a late live report, nor the next life
   of the node adds to a settled identity. *)
THEOREM SettlementIsExact == SoundTable => (Spec => []Settlement)
<1>1. IInv /\ SInv => Settlement
  <2> SUFFICES ASSUME IInv, SInv, NEW b \in settled, NEW c \in b.counters
      PROVE  Billed(c.key) = c.val
    BY DEF Settlement, SettledIsFinal, SInv, FlightInv
  <2>1. c.key \in DOMAIN base /\ base[c.key].val = c.val
    BY DEF SInv, SettledInv
  <2> QED  BY <2>1 DEF IInv, TypeOK, LedgerTypes, LedgerInv, Billed, RowOr0
<1> QED  BY <1>1, SettlementInvariance, PTL

(* beginRetirement: no byte is counted after the final reading, and no counter
   ever falls behind its baseline, so no honest report is refused. *)
THEOREM FinalReadingsAreLast == SoundTable => (Spec => []FinalReadings)
<1>1. IInv /\ SInv => FinalReadings
  <2> SUFFICES ASSUME IInv, SInv PROVE FrozenBatch /\ NeverBehindBaseline
    BY DEF FinalReadings
  <2>1. FrozenBatch
    BY DEF FrozenBatch, Present, SInv, RulesInv, BatchInv
  <2>2. NeverBehindBaseline
    BY DEF NeverBehindBaseline, Present, SInv, ExactInv, IInv, LedgerInv
  <2> QED  BY <2>1, <2>2
<1> QED  BY <1>1, SettlementInvariance, PTL

(* Only Clean takes a counter away while the table stays, and every byte of it
   is billed by then. *)
THEOREM OnlyBilledIsCleaned == SoundTable => (Spec => CleanOnlyBilled)
<1> SUFFICES ASSUME SoundTable PROVE Spec => CleanOnlyBilled
  OBVIOUS
<1> DEFINE Step == \A n \in Present : table' /\ ctr'[n] = Absent => Billed(Key(n, mem)) = ctr[n]
<1>1. IInv /\ SInv /\ [Next]_vars => [Step]_vars
  <2> SUFFICES ASSUME IInv, SInv, Next, NEW n \in Present, table', ctr'[n] = Absent
      PROVE  Billed(Key(n, mem)) = ctr[n]
    OBVIOUS
  <2>1. n \in Nodes /\ ctr[n] # Absent /\ ctr[n] \in Nat
    BY Shapes DEF Present
  <2>2. CASE Clean
    <3>1. mem.ret # NoRet /\ mem.ret.batch \in settled /\ n \in mem.ret.nodes
      BY <2>1, <2>2 DEF Clean, PruneNodes, IInv, PointInv, SInv, FlightInv, AckedIsSettled
    <3>2. [key |-> Key(n, mem), val |-> ctr[n]] \in mem.ret.batch.counters
      BY <2>1, <3>1 DEF SInv, BatchInv
    <3>3. Key(n, mem) \in DOMAIN base /\ base[Key(n, mem)].val = ctr[n]
      BY <3>1, <3>2 DEF SInv, SettledInv
    <3> QED  BY <3>3 DEF IInv, TypeOK, LedgerTypes, LedgerInv, Billed, RowOr0
  <2>3. CASE Traffic
    BY <2>1, <2>3, Shapes DEF Traffic
  <2>4. CASE Ensure
    BY <2>1, <2>4 DEF Ensure, EnsureNodes
  <2>5. CASE TableLoss \/ Reboot
    BY <2>5 DEF TableLoss, Reboot, Lose
  <2>6. CASE UNCHANGED ctr
    BY <2>1, <2>6
  <2>7. CASE Cores
    BY <2>6, <2>7 DEF Cores
  <2>8. CASE Publish \/ Serve \/ ServeLate \/ Crash
    BY <2>6, <2>8 DEF Publish, Serve, ServeLate, Crash
  <2>9. CASE AgentStep
    BY <2>2, <2>4, <2>6, <2>7, <2>9 DEF AgentStep, Startup, Heartbeat, SendFinal, FinalAcked,
       FinalFailed, Forget, Sample, LiveOK, LiveMaintenance, LiveFailed, NothingToRetire,
       IngressFails, BeginRetirement, Fetch, Remember
  <2> QED  BY <2>3, <2>5, <2>8, <2>9 DEF Next
<1> QED  BY <1>1, SettlementInvariance, PTL DEF Spec, CleanOnlyBilled
=============================================================================
