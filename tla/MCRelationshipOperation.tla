---------------------- MODULE MCRelationshipOperation ----------------------
(***************************************************************************)
(* Small instances of RelationshipOperation for TLC.                       *)
(***************************************************************************)
EXTENDS RelationshipOperation, TLC

CONSTANTS m1, m2, k1, k2, e1, e2

(* A new target in m1, which cannot be restored; users moved out of m1 to m2. *)
Moves == {[primary |-> m1, maps |-> {m1}, restorable |-> FALSE],
          [primary |-> m2, maps |-> {m1, m2}, restorable |-> TRUE]}

OneMove == {[primary |-> m2, maps |-> {m1, m2}, restorable |-> TRUE]}

Symmetry == Permutations(Keys) \cup Permutations(Executors)
=============================================================================
