------------------------------- MODULE RbTree -------------------------------
(***************************************************************************)
(* rb_tree: the red-black tree under every map of the runtime.  A round of *)
(* a fix-up loop is a step of its own.                                     *)
(***************************************************************************)
EXTENDS SearchTree

Red(n) == n # Nil /\ mark[n] = "red"

Blackened(m, n) == IF n = Nil THEN m ELSE [m EXCEPT ![n] = "black"]

RbOverwrite(k, v) == Overwrite(k, v)

(* insert of a new key *)
RbInsert(k, v) ==
    /\ Ready /\ ~HasKey(k)
    /\ tree' = Linked(k)
    /\ values' = With(values, k, v)
    /\ mark' = With(mark, k, IF tree.root = Nil THEN "black" ELSE "red")
    /\ fix' = IF tree.root = Nil THEN NoFix ELSE [loop |-> "insert", node |-> k]
    /\ asked' = <<"put", k, v>>

(* fix_insert: the root turns black when the node's parent is not red. *)
InsertFixed ==
    /\ fix.loop = "insert" /\ ~Red(Parent(fix.node))
    /\ mark' = Blackened(mark, tree.root)
    /\ fix' = NoFix
    /\ UNCHANGED <<tree, values, asked>>

Uncle(n) == Link(Parent(Parent(n)), -DirOf(tree, Parent(n)))

(* fix_insert with a red uncle. *)
Recolour ==
    LET n == fix.node
        p == Parent(n)
        g == Parent(p) IN
    /\ fix.loop = "insert" /\ Red(p) /\ Red(Uncle(n))
    /\ mark' = [mark EXCEPT ![p] = "black", ![Uncle(n)] = "black", ![g] = "red"]
    /\ fix' = [fix EXCEPT !.node = g]
    /\ UNCHANGED <<tree, values, asked>>

(* fix_insert with a black uncle: an inner node first trades places with   *)
(* its parent.                                                             *)
Restructure ==
    LET n  == fix.node
        p  == Parent(n)
        g  == Parent(p)
        d  == DirOf(tree, n)
        pd == DirOf(tree, p)
        inner == d # pd
        outward == IF inner THEN Rotated(tree, p, d) ELSE tree IN
    /\ fix.loop = "insert" /\ Red(p) /\ ~Red(Uncle(n))
    /\ tree' = Rotated(outward, g, pd)
    /\ mark' = [mark EXCEPT ![IF inner THEN n ELSE p] = "black", ![g] = "red"]
    /\ fix' = [fix EXCEPT !.node = IF inner THEN p ELSE n]
    /\ UNCHANGED <<values, asked>>

-----------------------------------------------------------------------------
(* erase, up to the fix-up loop that a black node needs. *)
RbErase(k) ==
    LET g == Gone(k)
        child == OnlyChild(g)
        marks == MarksWithout(k)
        loops == ~Red(g) /\ ~Red(child) IN
    /\ Ready /\ HasKey(k)
    /\ tree' = Unlinked(k)
    /\ values' = ValuesWithout(k)
    /\ mark' = IF loops THEN marks
               ELSE Blackened(IF Red(g) THEN marks ELSE Blackened(marks, child), tree'.root)
    /\ fix' = IF loops
              THEN [loop |-> "erase", child |-> child, parent |-> NewName(k, Parent(g)),
                    dir |-> DirOf(tree, g)]
              ELSE NoFix
    /\ asked' = <<"remove", k>>

RbEraseNothing(k) == EraseNothing(k)

Erasing == fix.loop = "erase" /\ fix.parent # Nil /\ ~Red(fix.child)
Sibling == Link(fix.parent, -fix.dir)
Near    == Link(Sibling, fix.dir)
Far     == Link(Sibling, -fix.dir)

(* Mutant: the loop does not end when it has come up to the root. *)
EraseFixed_RunsOn ==
    /\ fix.loop = "erase" /\ (fix.parent = Nil \/ Red(fix.child))
    /\ mark' = Blackened(Blackened(mark, fix.child), tree.root)
    /\ fix' = IF fix.parent = Nil THEN fix ELSE NoFix
    /\ UNCHANGED <<tree, values, asked>>

(* fix_erase ends at the root or at a red child. *)
EraseFixed ==
    /\ fix.loop = "erase" /\ (fix.parent = Nil \/ Red(fix.child))
    /\ mark' = Blackened(Blackened(mark, fix.child), tree.root)
    /\ fix' = NoFix
    /\ UNCHANGED <<tree, values, asked>>

(* A red sibling is rotated up; the round goes on with a black one. *)
RaiseRedSibling ==
    /\ Erasing /\ Red(Sibling)
    /\ tree' = Rotated(tree, fix.parent, -fix.dir)
    /\ mark' = [mark EXCEPT ![fix.parent] = "red", ![Sibling] = "black"]
    /\ UNCHANGED <<values, fix, asked>>

(* A sibling with black children turns red and the loop moves up. *)
MoveUp ==
    /\ Erasing /\ ~Red(Sibling) /\ ~Red(Near) /\ ~Red(Far)
    /\ mark' = [mark EXCEPT ![Sibling] = "red"]
    /\ fix' = [fix EXCEPT !.child = fix.parent, !.parent = Parent(fix.parent),
                          !.dir = DirOf(tree, fix.parent)]
    /\ UNCHANGED <<tree, values, asked>>

(* Mutant: the sibling that comes up does not take the parent's colour. *)
Borrow_StaysBlack ==
    LET p == fix.parent
        inner == ~Red(Far)
        top == IF inner THEN Near ELSE Sibling
        far == IF inner THEN Sibling ELSE Far
        straight == IF inner THEN Rotated(tree, Sibling, fix.dir) ELSE tree IN
    /\ Erasing /\ ~Red(Sibling) /\ (Red(Near) \/ Red(Far))
    /\ tree' = Rotated(straight, p, -fix.dir)
    /\ mark' = [mark EXCEPT ![p] = "black", ![far] = "black", ![top] = "black"]
    /\ fix' = NoFix
    /\ UNCHANGED <<values, asked>>

(* A red child of the sibling gives a node to the side that lacks one.     *)
Borrow ==
    LET p == fix.parent
        inner == ~Red(Far)
        top == IF inner THEN Near ELSE Sibling
        far == IF inner THEN Sibling ELSE Far
        straight == IF inner THEN Rotated(tree, Sibling, fix.dir) ELSE tree
        recoloured == [mark EXCEPT ![top] = mark[p], ![p] = "black", ![far] = "black"] IN
    /\ Erasing /\ ~Red(Sibling) /\ (Red(Near) \/ Red(Far))
    /\ tree' = Rotated(straight, p, -fix.dir)
    /\ mark' = Blackened(recoloured, tree'.root)
    /\ fix' = NoFix
    /\ UNCHANGED <<values, asked>>

-----------------------------------------------------------------------------
RbFix ==
    InsertFixed \/ Recolour \/ Restructure \/ EraseFixed \/ RaiseRedSibling \/ MoveUp \/ Borrow

RbCall ==
    \E k \in Keys :
        \/ \E v \in ValuesOf[k] : RbOverwrite(k, v) \/ RbInsert(k, v)
        \/ RbErase(k) \/ RbEraseNothing(k)

RbNext == RbCall \/ RbFix \/ Return

(* The number of black nodes from n up to the root. *)
BlackDepth ==
    LET depth[n \in Nodes \cup {Nil}] ==
          IF n = Nil THEN 0 ELSE depth[Parent(n)] + (IF Red(n) THEN 0 ELSE 1)
    IN  depth

(* What check_invariants checks: the root is black, no red node has a red   *)
(* child, every path down to a missing child has as many black nodes.      *)
RedBlack ==
    /\ ~Red(tree.root)
    /\ \A n \in Nodes : Red(n) => ~Red(Parent(n))
    /\ \A m, n \in {n \in Nodes : Nil \in {Link(n, -1), Link(n, 1)}} :
          BlackDepth[m] = BlackDepth[n]
=============================================================================
