------------------------------ MODULE FifoPool -------------------------------
(***************************************************************************)
(* What the worker's scan queue promises: a pool of Servers that serves    *)
(* its customers first in, first out.  Those inside stand in one line, in  *)
(* order of arrival, with those being served in front; nobody waits while  *)
(* a server is free, nobody is admitted beyond the capacity, and each      *)
(* customer that leaves, served or not, is reported once.                  *)
(***************************************************************************)
EXTENDS Integers, SequencesExt, Filter

CONSTANTS Jobs, Capacity, Servers

VARIABLES line, running, reports

vars == <<line, running, reports>>

\* The first Servers jobs of the line l are the ones being served.
Served(l) == {l[i] : i \in {i \in 1..Len(l) : i <= Servers}}

Init ==
    /\ line = <<>>
    /\ running = {}
    /\ reports = [j \in Jobs |-> 0]

Admit(j) ==
    /\ Len(line) < Capacity
    /\ j \notin ToSet(line)
    /\ reports[j] = 0
    /\ line' = Append(line, j)
    /\ running' = Served(line')
    /\ UNCHANGED reports

\* The jobs in S leave together; a shutdown sends all who wait away at once.
Leave(S) ==
    /\ S # {}
    /\ line' = Keep(line, Jobs \ S)
    /\ running' = Served(line')
    /\ reports' = [j \in Jobs |-> IF j \in S THEN reports[j] + 1 ELSE reports[j]]

Next ==
    \/ \E j \in Jobs : Admit(j)
    \/ \E S \in SUBSET ToSet(line) : Leave(S)

Spec == Init /\ [][Next]_vars
=============================================================================
