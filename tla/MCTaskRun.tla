----------------------------- MODULE MCTaskRun -----------------------------
(***************************************************************************)
(* Instances of TaskRun for TLC: jobs that run every 2 ticks.              *)
(***************************************************************************)
EXTENDS TaskRun

EveryMinute == [freq |-> "minutely", interval |-> 1,
                byHour |-> 0, byMinute |-> 0, bySecond |-> 0]
=============================================================================
