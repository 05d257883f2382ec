---------------------------- MODULE MCDeployment ----------------------------
(* Values of the constants of Deployment and Verification for TLC.       *)
EXTENDS Verification, TLC

CONSTANTS safe, pausing

MCMinterOnly == {"MINTER_ROLE"}
MCMinterAndLists == {"MINTER_ROLE", "LIST_CONFIGURER_ROLE"}
=============================================================================
