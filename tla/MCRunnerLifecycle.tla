-------------------------- MODULE MCRunnerLifecycle --------------------------
(* TLC instance of RunnerLifecycle: a unit of time is a tenth of the        *)
(* interval, so an interval of 10 has a suicide timer of 11 and a lock of   *)
(* 20 units.                                                                *)
EXTENDS RunnerLifecycle, TLC

SlotSymmetry == Permutations(Slots)
=============================================================================
