------------------------------ MODULE MCShares ------------------------------
(* Instances of Shares for TLC. *)
EXTENDS Shares, TLC

ServerSymmetry == Permutations(Servers)
=============================================================================
