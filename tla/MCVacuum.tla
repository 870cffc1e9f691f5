------------------------------ MODULE MCVacuum ------------------------------
(***************************************************************************)
(* A small instance of Vacuum: the first rule sorts by creation timestamp  *)
(* with any count, the second by another field and keeps one object.       *)
(***************************************************************************)
EXTENDS Vacuum, TLC

Symmetry == Permutations(Item)

MCInit ==
    /\ Init
    /\ sortBy = [k \in Rule |-> IF k = 1 THEN "created" ELSE "field"]
    /\ \A k \in Rule : k > 1 => count[k] = 1
    /\ archive \in {{}, Item}

MCSpec == MCInit /\ [][Next]_vars
=============================================================================
