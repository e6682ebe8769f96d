--------------------------- MODULE MCRedirections ---------------------------
(* Redirections for TLC: stdin, stdout, one more descriptor, two backups. *)
EXTENDS Redirections
=============================================================================
