---------------------------- MODULE MCQtServiceWin ----------------------------
(***************************************************************************)
(* The instance of QtServiceWin for TLC.                                   *)
(***************************************************************************)
EXTENDS QtServiceWin, TLC

CONSTANT c1

AllControls == {"stop", "pause", "continue", "user", "interrogate", "shutdown"}
MCAllFlags == {"CanBeSuspended", "NeedsStopOnShutdown"}
=============================================================================
