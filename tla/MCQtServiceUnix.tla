--------------------------- MODULE MCQtServiceUnix ---------------------------
(***************************************************************************)
(* Instances of QtServiceUnix for TLC.                                     *)
(***************************************************************************)
EXTENDS QtServiceUnix, TLC

CONSTANTS i1, i2, i3, c1, c2

MCInstances == {i1, i2, i3}
MCTwoInstances == {i1, i2}
MCCallers == {c1, c2}
AllCommands == {"terminate", "pause", "resume", "num"}
=============================================================================
