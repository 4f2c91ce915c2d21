------------------------------ MODULE MC_Repair ------------------------------
(* Model checking of Repair: all contents of the grid, at most MaxStrays    *)
(* magics off it.                                                           *)
EXTENDS Repair

CONSTANT MaxStrays

MCFound == [w \in 0 .. N - 1 |-> IF w < N - H THEN {H} ELSE {}]

MCInit == RepairInit /\ Cardinality(strays) <= MaxStrays

MCSpec == MCInit /\ [][RepairNext]_<<vars, repairVars>>
=============================================================================
