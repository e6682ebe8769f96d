------------------------------ MODULE MCTraps -------------------------------
(* Traps with the sets of MCTraps.cfg, for TLC. *)
EXTENDS Traps, TLC

Symmetry == Permutations(Actions)
=============================================================================
