------------------------------ MODULE MCScanJob ------------------------------
(* A small instance of ScanJob for TLC. *)
EXTENDS ScanJob, TLC

CONSTANTS r1, r2

TwoReaders == {r1, r2}

\* One step of each kind.
ShortPlan == <<"http", "whatweb", "waybackurls", "retire">>

=============================================================================
