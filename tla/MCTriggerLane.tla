---------------------------- MODULE MCTriggerLane ----------------------------
(* TriggerLane with interchangeable helpers. *)
EXTENDS TriggerLane, TLC
CONSTANTS h1, h2
Symmetry == Permutations(Helper)
==============================================================================
