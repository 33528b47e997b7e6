--------------------------- MODULE MCVideoReceiver ---------------------------
(* VideoReceiver for TLC: three or four frames of two packets. *)
EXTENDS VideoReceiver
=============================================================================
