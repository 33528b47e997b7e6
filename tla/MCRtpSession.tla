---------------------------- MODULE MCRtpSession ----------------------------
(* RtpSession for TLC. *)
EXTENDS RtpSession
=============================================================================
