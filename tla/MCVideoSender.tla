---------------------------- MODULE MCVideoSender ----------------------------
(* VideoSender for TLC: rings of two positions, as in the program. *)
EXTENDS VideoSender
=============================================================================
