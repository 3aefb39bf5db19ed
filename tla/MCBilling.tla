------------------------------ MODULE MCBilling ------------------------------
(* A small instance of Billing for TLC. *)
EXTENDS Billing, TLC

CONSTANTS sub1, sub2, d1, d2

OneSub   == {sub1}
TwoSubs  == {sub1, sub2}
OneSlot  == {d1}
TwoSlots == {d1, d2}
=============================================================================
