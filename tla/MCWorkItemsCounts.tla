-------------------------- MODULE MCWorkItemsCounts -------------------------
(***************************************************************************)
(* Small instances of WorkItemsCounts for TLC.                             *)
(***************************************************************************)
EXTENDS WorkItemsCounts, TLC

CONSTANTS n1, n2, c1, c2, c3, l1, l2, l3

MCKeys == 0..MaxRevision

(* c1 and c2 share a process and its flight group, c3 only Redis.            *)
MCHome == [c \in Callers |-> IF c = c3 THEN n2 ELSE n1]

LoadSymmetry == Permutations(Loads)

HomeSymmetry == Permutations(Loads) \cup Permutations(Callers \ {c3})
=============================================================================
