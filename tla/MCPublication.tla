--------------------------- MODULE MCPublication ---------------------------
(* Instances of Publication for TLC. *)
EXTENDS Publication, TLC

BuildFault == [build |-> 1, crash |-> 0]
CrashOnce  == [build |-> 0, crash |-> 1]
=============================================================================
