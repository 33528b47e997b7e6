--------------------------- MODULE MCAudioForwarder ---------------------------
(* AudioForwarder for TLC: a few frames of one or two parts, two bags. *)
EXTENDS AudioForwarder
=============================================================================
