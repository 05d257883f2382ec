---------------------------- MODULE MCEnvironment ----------------------------
(* Values of the constants of Environment for TLC.                         *)
EXTENDS Environment, TLC

MCChanges == [checks \in {"rateCheck", "comparison"} |-> 1]

\* The aggregator treats its lists alike.
MCSymmetry == Permutations(BlocklistContracts)
=============================================================================
