-------------------------- MODULE MCStreamHandoff --------------------------
(* StreamHandoff for TLC.  Tasks are interchangeable. *)
EXTENDS StreamHandoff, TLC

TaskSymmetry == Permutations(Task)
=============================================================================
