---------------------------- MODULE MCWgSession ----------------------------
(* WgSession for TLC. *)
EXTENDS WgSession
=============================================================================
