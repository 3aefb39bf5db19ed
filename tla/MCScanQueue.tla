----------------------------- MODULE MCScanQueue -----------------------------
(* Small instances of ScanQueue for TLC. *)
EXTENDS ScanQueue, TLC

CONSTANTS j1, j2, j3, j4

ThreeJobs == {j1, j2, j3}
FourJobs  == {j1, j2, j3, j4}

\* The ids are random: the safety properties treat them alike.
Symmetry == Permutations(FourJobs)

\* The order of acceptance is kept for ImplementsPool alone: no action reads it.
WithoutOrder == <<queueVars, serviceVars, status, phase, mode, finishes>>
=============================================================================
