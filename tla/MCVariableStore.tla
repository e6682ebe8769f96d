--------------------------- MODULE MCVariableStore --------------------------
(* VariableStore with the sets of MCVariableStore.cfg, for TLC.  Names are
   interchangeable: their hashes are part of the state. *)
EXTENDS VariableStore, TLC

Symmetry == Permutations(Names)
=============================================================================
