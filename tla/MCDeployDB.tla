------------------------------ MODULE MCDeployDB ------------------------------
(***************************************************************************)
(* The instance of DeployDB for TLC.                                       *)
(***************************************************************************)
EXTENDS DeployDB, TLC

CONSTANTS p1, p2

MCPrograms == {p1, p2}
=============================================================================
