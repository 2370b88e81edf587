---------------------------- MODULE MCContainers ----------------------------
(* Eight keys, enough for every case of the red-black loops, five for the   *)
(* avl_tree, whose factors drift; two lists of three nodes; two-bit words; *)
(* two vectors with one inline slot.                                       *)
EXTENDS Containers

MCKeys      == 1..8
MCAvlKeys   == 1..5
MCValuesOf  == [k \in MCKeys |-> IF k = 3 THEN {0, 1} ELSE {0}]
MCKinds     == {"rb", "avl", "list", "bits", "vector"}
MCAvlKinds  == {"avl"}
=============================================================================
