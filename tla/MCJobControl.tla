---------------------------- MODULE MCJobControl ----------------------------
(* JobControl for TLC: the constants are given in the configurations. *)
EXTENDS JobControl
=============================================================================
