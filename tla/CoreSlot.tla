------------------------------ MODULE CoreSlot ------------------------------
(***************************************************************************)
(* What the activation of a proxy core promises: a host has one committed  *)
(* release of the core, all of its files belong together, and one release  *)
(* is replaced by another in a single step.                                *)
(***************************************************************************)
CONSTANTS None, Intents, Versions, PolicyOf, LiveIntents

VARIABLE committed

Files == {"bin", "trusted", "activate", "policy", "retained", "config", "unit"}

(* No activation is pending, configuration and unit were written for the same
   intent and need a binary, the recorded authorization is the one of the
   intent that was admitted, and if that intent has a live resource, the
   configuration is its own. *)
Release ==
  [bin : Versions \cup {None}, trusted : Versions \cup {None}, activate : {None},
   policy : {PolicyOf[i] : i \in Intents} \cup {None}, retained : Intents \cup {None},
   config : Intents \cup {None}, unit : Intents \cup {None}]

Whole(c) ==
  /\ c.unit = c.config
  /\ c.unit # None => c.bin # None
  /\ IF c.retained = None THEN c.policy = None
     ELSE /\ c.policy = PolicyOf[c.retained]
          /\ c.retained \in LiveIntents => c.config = c.retained

SlotInit == committed = [f \in Files |-> None]

Replace == committed' \in Release /\ Whole(committed')

SlotSpec == SlotInit /\ [][Replace]_committed
=============================================================================
