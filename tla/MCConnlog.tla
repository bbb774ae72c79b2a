----------------------------- MODULE MCConnlog -----------------------------
(* Instances of Connlog for TLC. *)
EXTENDS Connlog

Budget(n, l, d, s, c) ==
  [net |-> n, late |-> l, db |-> d, save |-> s, crash |-> c]

EveryFault == Budget(1, 1, 1, 1, 1)
OneLate    == Budget(0, 1, 0, 0, 0)
=============================================================================
