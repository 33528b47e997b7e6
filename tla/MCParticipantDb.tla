--------------------------- MODULE MCParticipantDb ---------------------------
(* ParticipantDb for TLC. *)
EXTENDS ParticipantDb
=============================================================================
