----------------------------- MODULE Containers -----------------------------
(***************************************************************************)
(* The containers of Core, each under every sequence of calls of one       *)
(* thread.  A behaviour is about one kind of container.                    *)
(***************************************************************************)
EXTENDS RbTree, AvlTree, IntrusiveList, BitVector, FlatVector

CONSTANT Kinds   \* the kinds of container looked at

VARIABLE kind

containerVars == <<kind, treeVars, listVars, bitVars, vectorVars>>

ContainersInit ==
    /\ kind \in Kinds
    /\ TreeInit /\ ListInit /\ BitInit /\ VectorInit

ContainersNext ==
    /\ UNCHANGED kind
    /\ \/ kind = "rb"     /\ RbNext      /\ UNCHANGED <<listVars, bitVars, vectorVars>>
       \/ kind = "avl"    /\ AvlNext    /\ UNCHANGED <<listVars, bitVars, vectorVars>>
       \/ kind = "list"   /\ ListNext    /\ UNCHANGED <<treeVars, bitVars, vectorVars>>
       \/ kind = "bits"   /\ BitNext     /\ UNCHANGED <<treeVars, listVars, vectorVars>>
       \/ kind = "vector" /\ VectorNext  /\ UNCHANGED <<treeVars, listVars, bitVars>>

RbRuns ==
    /\ kind = "rb" /\ (RbFix \/ Return)
    /\ UNCHANGED <<kind, listVars, bitVars, vectorVars>>

(* A loop of rb_tree runs on: nothing else runs in its thread meanwhile. *)
ContainersSpec ==
    ContainersInit /\ [][ContainersNext]_containerVars /\ WF_containerVars(RbRuns)

(* SPEC-016: an rb_tree is a red-black tree whenever no fix-up loop runs. *)
RbBalanced == kind = "rb" /\ fix = NoFix => RedBlack

(* SPEC-015: for every node of an avl_tree, the heights of the left and     *)
(* right subtrees differ by at most one, whenever no loop runs.            *)
AvlBalanced == kind = "avl" /\ fix = NoFix => EvenHeights

(* Every call on an rb_tree returns: its fix-up loops end. *)
CallsReturn == kind = "rb" /\ asked # NoCall ~> asked = NoCall
=============================================================================
