-------------------------- MODULE MCWorkerRegistry --------------------------
(***************************************************************************)
(* The instance of WorkerRegistry for TLC.                                 *)
(***************************************************************************)
EXTENDS WorkerRegistry

CONSTANTS j1, j2, j3

MCJobs == {j1, j2, j3}
=============================================================================
