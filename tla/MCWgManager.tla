---------------------------- MODULE MCWgManager ----------------------------
(* WgManager for TLC.  Tasks are interchangeable, and so are host names. *)
EXTENDS WgManager, TLC

Symmetry == Permutations(Task) \cup Permutations(Host)
=============================================================================
