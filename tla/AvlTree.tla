------------------------------ MODULE AvlTree -------------------------------
(***************************************************************************)
(* avl_tree: mark is the balance factor that each node stores.  A round of *)
(* a rebalancing loop is a step of its own.                                *)
(***************************************************************************)
EXTENDS SearchTree

CONSTANT AvlKeys   \* the keys used with an avl_tree

ASSUME AvlKeysAssumption == AvlKeys \subseteq Keys

(* rotate also rewrites the factors of the two nodes it turns. *)
Turned(marks, t, n, d) ==
    LET c == t.link[n][d]
        outward == d * marks[c] > 0 IN
    IF c = Nil THEN marks
    ELSE [marks EXCEPT ![n] = @ - d - (IF outward THEN marks[c] ELSE 0),
                       ![c] = IF outward THEN 0 ELSE @ - d]

(* The tree and the factors after the rotations for n, too heavy on side s. *)
Rebalanced(marks, n, s) ==
    LET c == Link(n, s)
        single == marks[c] = s
        t1 == IF single THEN tree ELSE Rotated(tree, c, -s)
        m1 == IF single THEN marks ELSE Turned(marks, tree, c, -s) IN
    [tree |-> Rotated(t1, n, s), marks |-> Turned(m1, t1, n, s)]

AvlOverwrite(k, v) == Overwrite(k, v)

(* insert of a new key *)
AvlInsert(k, v) ==
    /\ Ready /\ ~HasKey(k)
    /\ tree' = Linked(k)
    /\ values' = With(values, k, v)
    /\ mark' = With(mark, k, 0)
    /\ fix' = IF tree.root = Nil THEN NoFix
              ELSE [loop |-> "grown", node |-> Place(k), dir |-> Toward(k, Place(k))]
    /\ asked' = <<"put", k, v>>

(* erase, up to the loop *)
AvlErase(k) ==
    LET g == Gone(k) IN
    /\ Ready /\ HasKey(k)
    /\ tree' = Unlinked(k)
    /\ values' = ValuesWithout(k)
    /\ mark' = MarksWithout(k)
    /\ fix' = IF Parent(g) = Nil THEN NoFix
              ELSE [loop |-> "shrunk", node |-> NewName(k, Parent(g)), dir |-> DirOf(tree, g)]
    /\ asked' = <<"remove", k>>

AvlEraseNothing(k) == EraseNothing(k)

Climbing == fix.loop \in {"grown", "shrunk"}

(* The factor of the loop's node after this round's change. *)
Factor == mark[fix.node] + (IF fix.loop = "grown" THEN fix.dir ELSE -fix.dir)
Noted  == [mark EXCEPT ![fix.node] = Factor]

Onward(n, t) ==
    IF t.link[n][0] = Nil THEN NoFix
    ELSE [fix EXCEPT !.node = t.link[n][0], !.dir = DirOf(t, n)]

(* A round that only notes the factor: an insertion goes on upwards unless  *)
(* the node is now even, an erasure if it is.                              *)
NoteFactor ==
    /\ Climbing /\ Factor \notin {-2, 2}
    /\ mark' = Noted
    /\ fix' = IF (fix.loop = "grown") = (Factor = 0) THEN NoFix ELSE Onward(fix.node, tree)
    /\ UNCHANGED <<tree, values, asked>>

(* A round that rotates: an insertion is done, an erasure goes on if the    *)
(* node that came up is even.                                              *)
Rotate ==
    LET side == Factor \div 2
        turned == Rebalanced(Noted, fix.node, side)
        top == turned.tree.link[fix.node][0] IN
    /\ Climbing /\ Factor \in {-2, 2} /\ Link(fix.node, side) # Nil
    /\ tree' = turned.tree
    /\ mark' = turned.marks
    /\ fix' = IF fix.loop = "grown" \/ turned.marks[top] # 0 THEN NoFix
              ELSE Onward(top, turned.tree)
    /\ UNCHANGED <<values, asked>>

(* The factors can be wrong: the loops follow a null link where one says   *)
(* that there is a child, and the process ends.                            *)
Crashed == [loop |-> "crashed"]

Crash ==
    /\ Climbing /\ Factor \in {-2, 2} /\ Link(fix.node, Factor \div 2) = Nil
    /\ fix' = Crashed
    /\ UNCHANGED <<tree, mark, values, asked>>

Ended == fix = Crashed /\ UNCHANGED treeVars

-----------------------------------------------------------------------------
AvlFix == NoteFactor \/ Rotate \/ Crash

AvlCall ==
    \E k \in AvlKeys :
        \/ \E v \in ValuesOf[k] : AvlOverwrite(k, v) \/ AvlInsert(k, v)
        \/ AvlErase(k) \/ AvlEraseNothing(k)

AvlNext == AvlCall \/ AvlFix \/ Return \/ Ended

(* The height of the subtree at each node. *)
Height ==
    LET high[n \in Nodes \cup {Nil}] ==
          IF n = Nil THEN 0
          ELSE LET l == high[Link(n, -1)]
                   r == high[Link(n, 1)] IN 1 + (IF l >= r THEN l ELSE r)
    IN  high

(* The subtrees of every node differ by at most one in height. *)
EvenHeights ==
    \A n \in Nodes : Height[Link(n, 1)] - Height[Link(n, -1)] \in {-1, 0, 1}
=============================================================================
