---------------------------- MODULE MCMetering ----------------------------
(* Instances of Metering for TLC. *)
EXTENDS Metering, TLC

NodeSymmetry == Permutations(Nodes)

Budget(c, s, n, h) == [crash |-> c, save |-> s, net |-> n, host |-> h]

CrashSave    == Budget(1, 1, 0, 0)
CrashNetHost == Budget(1, 0, 1, 1)
=============================================================================
