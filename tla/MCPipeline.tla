----------------------------- MODULE MCPipeline -----------------------------
(* Pipeline for TLC: descriptors for stdin, stdout and two pipes. *)
EXTENDS Pipeline
=============================================================================
