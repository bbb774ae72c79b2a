---------------------------- MODULE CgroupMeter ----------------------------
(***************************************************************************)
(* The per-node byte counter of the Alpine backend (internal/openrc/       *)
(* meter_linux.go): an array map and two links pinned in bpffs, one link   *)
(* per direction, attached to the node's cgroup.  A launch ensures the     *)
(* meter before it becomes the proxy (Exec, ensureSlice); the agent        *)
(* ensures, reads and, after the final settlement, removes it.  Whoever    *)
(* creates may die between two pins.                                       *)
(*                                                                         *)
(* The creators exclude each other by a file lock.  Removal takes no lock: *)
(* it is not offered while a creator is at work, for the settlement of a   *)
(* retired node precedes it (module Metering).                             *)
(***************************************************************************)
EXTENDS Naturals, FiniteSets

CONSTANTS MeterBounds

Dirs == {"rx", "tx"}
Creators == {"launch", "agent"}

VARIABLES
  pin,     \* what is pinned: the map's inode (0: none) and the links
  cnt,     \* the map's two slots
  ino,     \* the last inode number bpffs handed out in this boot
  mboot,   \* boot id
  maker,   \* what each creator has to do next
  remover, \* the names RemoveMeter still has to delete, in its order
  alive,   \* the proxy process is in the cgroup
  reader,  \* a reading under way: the slots read so far
  passed,  \* bytes that went through the cgroup since the map was made
  readings, \* what ReadMeter has returned, with what had passed before and after it
  mleft

meterVars == <<pin, cnt, ino, mboot, maker, remover, alive, reader, passed, readings, mleft>>

NoPin == [map |-> 0, rx |-> FALSE, tx |-> FALSE]
Zero == [d \in Dirs |-> 0]
NoReader == [at |-> "-", val |-> Zero, from |-> Zero]

MeterInit ==
  /\ pin = NoPin /\ cnt = Zero /\ ino = 0 /\ mboot = 1
  /\ maker = [c \in Creators |-> "-"] /\ remover = {} /\ alive = FALSE
  /\ reader = NoReader /\ passed = Zero /\ readings = {} /\ mleft \in MeterBounds

MeterSpend(k) == mleft[k] > 0 /\ mleft' = [mleft EXCEPT ![k] = @ - 1]
keepCounts == UNCHANGED <<cnt, passed>>
keepReading == UNCHANGED <<reader, readings>>
Locked == \E c \in Creators : maker[c] # "-"
-----------------------------------------------------------------------------
(* EnsureMeter, under its lock. *)

EnsureMeter(c) ==
  /\ ~ Locked /\ remover = {} /\ MeterSpend("ensure")
  /\ (c = "launch" => ~ alive)
  /\ maker' = [maker EXCEPT ![c] = "map"]
  /\ keepCounts /\ keepReading /\ UNCHANGED <<pin, ino, mboot, remover, alive>>

PinMap(c) ==
  /\ maker[c] = "map" /\ maker' = [maker EXCEPT ![c] = "rx"]
  /\ IF pin.map # 0 THEN keepCounts /\ UNCHANGED <<pin, ino>>
     ELSE /\ ino' = ino + 1 /\ pin' = [pin EXCEPT !.map = ino + 1]
          /\ cnt' = Zero /\ passed' = Zero
  /\ keepReading /\ UNCHANGED <<mboot, remover, alive, mleft>>

(* A pinned link is verified and kept, a missing one is attached and pinned. *)
PinLink(c) ==
  /\ maker[c] \in Dirs
  /\ pin' = [pin EXCEPT ![maker[c]] = TRUE]
  /\ maker' = [maker EXCEPT ![c] = IF @ = "rx" THEN "tx" ELSE IF c = "launch" THEN "exec" ELSE "-"]
  /\ keepCounts /\ keepReading /\ UNCHANGED <<ino, mboot, remover, alive, mleft>>

(* Only with a complete meter the launch becomes the proxy. *)
ExecProxy ==
  /\ maker["launch"] = "exec" /\ alive' = TRUE /\ maker' = [maker EXCEPT !["launch"] = "-"]
  /\ keepCounts /\ keepReading /\ UNCHANGED <<pin, ino, mboot, remover, mleft>>

CreatorDies(c) ==
  /\ maker[c] # "-" /\ MeterSpend("crash") /\ maker' = [maker EXCEPT ![c] = "-"]
  /\ keepCounts /\ keepReading /\ UNCHANGED <<pin, ino, mboot, remover, alive>>
-----------------------------------------------------------------------------
ProxyEnds ==
  /\ alive /\ MeterSpend("crash") /\ alive' = FALSE
  /\ keepCounts /\ keepReading /\ UNCHANGED <<pin, ino, mboot, maker, remover>>

(* meterProgram: an attached direction adds the packet to its slot. *)
Packet(d) ==
  /\ alive /\ MeterSpend("packet")
  /\ passed' = [passed EXCEPT ![d] = @ + 1]
  /\ cnt' = [cnt EXCEPT ![d] = IF pin[d] THEN @ + 1 ELSE @]
  /\ keepReading /\ UNCHANGED <<pin, ino, mboot, maker, remover, alive>>

(* RemoveMeter: nothing while the cgroup is populated; rx, tx, then the map.
   It may stop in between and be called again. *)
RemoveMeter ==
  /\ ~ alive /\ ~ Locked /\ remover = {} /\ reader.at = "-" /\ pin # NoPin /\ MeterSpend("remove")
  /\ remover' = {"rx", "tx", "map"}
  /\ keepCounts /\ keepReading /\ UNCHANGED <<pin, ino, mboot, maker, alive>>

Unpin ==
  /\ remover # {}
  /\ LET n == IF "rx" \in remover THEN "rx" ELSE IF "tx" \in remover THEN "tx" ELSE "map" IN
     /\ pin' = [pin EXCEPT ![n] = IF n = "map" THEN 0 ELSE FALSE]
     /\ remover' = remover \ {n}
  /\ keepCounts /\ keepReading /\ UNCHANGED <<ino, mboot, maker, alive, mleft>>

RemoverDies ==
  /\ remover # {} /\ MeterSpend("crash") /\ remover' = {}
  /\ keepCounts /\ keepReading /\ UNCHANGED <<pin, ino, mboot, maker, alive>>
-----------------------------------------------------------------------------
(* ReadMeter: both links, then the slots one after the other, then the epoch. *)

(* The inode alone repeats after a reboot. *)
MeterEpochBare == <<0, pin.map>>

MeterEpoch == <<mboot, pin.map>>

ReadLinks ==
  /\ reader.at = "-" /\ remover = {} /\ pin.rx /\ pin.tx /\ MeterSpend("read")
  /\ reader' = [at |-> "rx", val |-> Zero, from |-> passed]
  /\ keepCounts /\ UNCHANGED <<pin, ino, mboot, maker, remover, alive, readings>>

ReadSlot ==
  /\ reader.at \in Dirs /\ pin.map # 0
  /\ reader' = [reader EXCEPT !.val[reader.at] = cnt[reader.at], !.at = IF @ = "rx" THEN "tx" ELSE "stat"]
  /\ keepCounts /\ UNCHANGED <<pin, ino, mboot, maker, remover, alive, readings, mleft>>

ReadEpoch ==
  /\ reader.at = "stat" /\ pin.map # 0
  /\ readings' = readings \cup {[n |-> Cardinality(readings), epoch |-> MeterEpoch, val |-> reader.val, from |-> reader.from, to |-> passed]}
  /\ reader' = NoReader
  /\ keepCounts /\ UNCHANGED <<pin, ino, mboot, maker, remover, alive, mleft>>

(* bpffs and the processes are gone; inode numbers start again. *)
MeterReboot ==
  /\ MeterSpend("boot") /\ mboot' = mboot + 1 /\ ino' = 0 /\ pin' = NoPin /\ alive' = FALSE
  /\ maker' = [c \in Creators |-> "-"] /\ remover' = {} /\ reader' = NoReader
  /\ cnt' = Zero /\ passed' = Zero /\ UNCHANGED readings

MeterNext ==
  \/ \E c \in Creators : EnsureMeter(c) \/ PinMap(c) \/ PinLink(c) \/ CreatorDies(c)
  \/ \E d \in Dirs : Packet(d)
  \/ ExecProxy \/ ProxyEnds \/ RemoveMeter \/ Unpin \/ RemoverDies
  \/ ReadLinks \/ ReadSlot \/ ReadEpoch \/ MeterReboot
-----------------------------------------------------------------------------
(* What the metering above relies on: a reading that is returned at all counts
   every byte, in both directions, that had passed under its epoch when the
   reading began, and none that had not passed when it ended, whatever died
   while the meter was made or removed; and of two readings of one epoch
   the later one continues the count of the earlier one. *)
MeterSound ==
  /\ \A r \in readings : \A d \in Dirs : r.val[d] \in r.from[d] .. r.to[d]
  /\ \A r, s \in readings : r.epoch = s.epoch /\ r.n < s.n =>
       \A d \in Dirs : r.val[d] <= s.val[d] /\ r.to[d] <= s.to[d]
=============================================================================
