-------------------------- MODULE MCH264Transport --------------------------
(* H264Transport for TLC. *)
EXTENDS H264Transport
=============================================================================
