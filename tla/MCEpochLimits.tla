--------------------------- MODULE MCEpochLimits ---------------------------
(* Values of the constants of EpochLimits for TLC.                         *)
EXTENDS EpochLimits, TLC

CONSTANTS u1, u2

MCDeposits == [side \in Sides |-> IF side = "deposit" THEN {1, 2} ELSE {}]
MCBothSides == [side \in Sides |-> {1, 2}]

=============================================================================
