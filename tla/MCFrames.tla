------------------------------ MODULE MCFrames ------------------------------
(* Frames with its bounds given in MCFrames.cfg, for TLC. *)
EXTENDS Frames
=============================================================================
