---------------------------- MODULE MCScanHistory ----------------------------
(* A small instance of ScanHistory for TLC. *)
EXTENDS ScanHistory

CONSTANTS s1, s2

TwoScans == {s1, s2}
=============================================================================
