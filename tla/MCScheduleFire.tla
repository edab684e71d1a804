--------------------------- MODULE MCScheduleFire ---------------------------
(* ScheduleFire with interchangeable workers. *)
EXTENDS ScheduleFire, TLC
CONSTANTS w1, w2
Symmetry == Permutations(Worker)
=============================================================================
