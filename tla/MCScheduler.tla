----------------------------- MODULE MCScheduler -----------------------------
(* Small instances of Scheduler for TLC. *)
EXTENDS Scheduler, TLC

CONSTANTS s1, s2, i1, i2

OneSchedule  == {s1}
TwoSchedules == {s1, s2}
OneInstance  == {i1}
TwoInstances == {i1, i2}

\* Instances are not told apart.
InstanceSymmetry == Permutations(TwoInstances)
=============================================================================
