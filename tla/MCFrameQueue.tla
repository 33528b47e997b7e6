---------------------------- MODULE MCFrameQueue ----------------------------
(* FrameQueue for TLC: the two and three position rings, a few frames. *)
EXTENDS FrameQueue
=============================================================================
