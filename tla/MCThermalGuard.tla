--------------------------- MODULE MCThermalGuard ---------------------------
(* ThermalGuard with two limits, one of them given between two steps.       *)
EXTENDS ThermalGuard
=============================================================================
