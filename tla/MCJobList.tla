------------------------------ MODULE MCJobList ------------------------------
(* JobList with symmetric addresses, for TLC. *)
EXTENDS JobList, TLC

AddrSymmetry == Permutations(Addr)
=============================================================================
