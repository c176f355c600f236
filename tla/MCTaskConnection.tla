-------------------------- MODULE MCTaskConnection --------------------------
(***************************************************************************)
(* The instance of TaskConnection for TLC.                                 *)
(***************************************************************************)
EXTENDS TaskConnection, TLC

CONSTANTS j1, j2, n1, n2

MCJobs == {j1, j2}
MCNames == {n1, n2}
=============================================================================
