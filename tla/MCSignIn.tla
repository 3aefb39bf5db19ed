------------------------------ MODULE MCSignIn -------------------------------
(* A small instance of SignIn for TLC. *)
EXTENDS SignIn, TLC

CONSTANTS r1, r2, c1, c2, s1

TwoRequests   == {r1, r2}
TwoChallenges == {c1, c2}
OneSession    == {s1}

Symmetry == Permutations(TwoRequests) \cup Permutations(TwoChallenges)
=============================================================================
