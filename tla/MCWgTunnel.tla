----------------------------- MODULE MCWgTunnel -----------------------------
EXTENDS WgTunnel, TLC
CONSTANTS a, b
=============================================================================
