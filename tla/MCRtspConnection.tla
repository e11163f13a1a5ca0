-------------------------- MODULE MCRtspConnection --------------------------
(* RtspConnection for TLC. *)
EXTENDS RtspConnection
=============================================================================
