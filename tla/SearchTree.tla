----------------------------- MODULE SearchTree -----------------------------
(***************************************************************************)
(* What rb_tree and avl_tree share: linked nodes, rotation, search, linking *)
(* in a new node, unlinking one, and iteration.  A node is named by its    *)
(* key; erasing a node with two children moves its successor's key into it, *)
(* so that node takes the successor's name.  The links of a node are, by   *)
(* direction, left (-1), parent (0) and right (1).                         *)
(***************************************************************************)
EXTENDS Integers, FiniteSets

CONSTANTS
    Keys,      \* the keys callers use
    ValuesOf   \* the values callers store under each key

ASSUME KeysAssumption == Keys \subseteq Nat \ {0} /\ DOMAIN ValuesOf = Keys

VARIABLES
    tree,    \* [root, link]: root_, and the links of every node
    mark,    \* node::col or node::balance
    values,  \* the second half of node::kv
    fix,     \* where the fix-up loop of the call in progress stands
    asked    \* the call in progress

treeVars == <<tree, mark, values, fix, asked>>

Nil    == 0
Sides  == {-1, 1}
NoFix  == [loop |-> "none"]
NoCall == <<"none">>

Nodes      == DOMAIN tree.link
Link(n, d) == tree.link[n][d]
Parent(n)  == Link(n, 0)

TreeInit ==
    /\ tree = [root |-> Nil, link |-> [n \in {} |-> Nil]]
    /\ mark = [n \in {} |-> 0]
    /\ values = [n \in {} |-> 0]
    /\ fix = NoFix
    /\ asked = NoCall

Ready == fix = NoFix /\ asked = NoCall

(* The call returns. *)
Return ==
    /\ fix = NoFix /\ asked # NoCall
    /\ asked' = NoCall
    /\ UNCHANGED <<tree, mark, values, fix>>

-----------------------------------------------------------------------------
(* dir_of, in tree t *)
DirOf(t, n) ==
    LET p == t.link[n][0] IN IF p = Nil THEN 0 ELSE IF t.link[p][-1] = n THEN -1 ELSE 1

(* c becomes the child of p on side d, or the root, and p its parent. *)
Hang(t, p, d, c) ==
    LET up == IF c = Nil THEN t.link ELSE [t.link EXCEPT ![c][0] = p] IN
    IF p = Nil THEN [root |-> c, link |-> up] ELSE [t EXCEPT !.link = [up EXCEPT ![p][d] = c]]

(* Mutant: the grandchild keeps its parent. *)
Rotated_LosesParent(t, n, d) ==
    LET c == t.link[n][d]
        inner == [t EXCEPT !.link[n][d] = t.link[c][-d]]
        up == Hang(inner, t.link[n][0], DirOf(t, n), c) IN
    IF c = Nil THEN t ELSE Hang(up, c, -d, n)

(* rotate: the child of n on side d takes the place of n. *)
Rotated(t, n, d) ==
    LET c == t.link[n][d]
        inner == Hang(t, n, d, t.link[c][-d])
        up == Hang(inner, t.link[n][0], DirOf(t, n), c) IN
    IF c = Nil THEN t ELSE Hang(up, c, -d, n)

(* The side of n on which key k is looked for. *)
Toward(k, n) == IF k < n THEN -1 ELSE 1

(* The loops of insert, erase and find: the node with key k, or the node   *)
(* under which it would be linked.                                         *)
Place(k) ==
    LET down[n \in Nodes] ==
          LET c == Link(n, Toward(k, n)) IN IF n = k \/ c = Nil THEN n ELSE down[c]
    IN  IF tree.root = Nil THEN Nil ELSE down[tree.root]

(* contains *)
HasKey(k) == tree.root # Nil /\ Place(k) = k

(* The end of the chain of links on side d that starts at n. *)
Extreme(n, d) ==
    LET down[m \in Nodes] == IF Link(m, d) = Nil THEN m ELSE down[Link(m, d)] IN down[n]

(* insert under a key that is there: only the value changes. *)
Overwrite(k, v) ==
    /\ Ready /\ HasKey(k)
    /\ values' = [values EXCEPT ![k] = v]
    /\ asked' = <<"put", k, v>>
    /\ UNCHANGED <<tree, mark, fix>>

(* The tree with a new node k, linked where the search ended. *)
Linked(k) ==
    LET leaf == [d \in {-1, 0, 1} |-> Nil]
        bare == [n \in Nodes \cup {k} |-> IF n = k THEN leaf ELSE tree.link[n]] IN
    Hang([tree EXCEPT !.link = bare], Place(k), Toward(k, Place(k)), k)

With(f, k, v) == [n \in DOMAIN f \cup {k} |-> IF n = k THEN v ELSE f[n]]

(* The node that erase takes out of the tree for key k. *)
Gone(k) ==
    IF Link(k, -1) # Nil /\ Link(k, 1) # Nil THEN Extreme(Link(k, 1), -1) ELSE k

OnlyChild(n) == IF Link(n, -1) # Nil THEN Link(n, -1) ELSE Link(n, 1)

(* The name, once k is erased, of the node x, and the old node that is y. *)
NewName(k, x) == IF x = k THEN Gone(k) ELSE x
OldNode(k, y) == IF y = Gone(k) THEN k ELSE y

(* The node goes, and its only child takes its place. *)
Unlinked(k) ==
    LET g   == Gone(k)
        cut == Hang(tree, Parent(g), DirOf(tree, g), OnlyChild(g)) IN
    [root |-> NewName(k, cut.root),
     link |-> [y \in Nodes \ {k} |->
                 [d \in {-1, 0, 1} |-> NewName(k, cut.link[OldNode(k, y)][d])]]]

(* The colour or balance of a node stays with the node, its value does not. *)
MarksWithout(k) == [y \in Nodes \ {k} |-> mark[OldNode(k, y)]]

(* Mutant: the successor's key moves into the node without its value. *)
ValuesWithout_KeepsOld(k) == [y \in Nodes \ {k} |-> values[OldNode(k, y)]]

ValuesWithout(k) == [y \in Nodes \ {k} |-> values[y]]

(* erase of a key that is not there. *)
EraseNothing(k) ==
    /\ Ready /\ ~HasKey(k)
    /\ asked' = <<"remove", k>>
    /\ UNCHANGED <<tree, mark, values, fix>>

(* iterator::next for d = 1 and prev for d = -1 *)
Neighbour(n, d) ==
    LET climb[m \in Nodes] ==
          IF Parent(m) = Nil THEN Nil
          ELSE IF Link(Parent(m), d) = m THEN climb[Parent(m)] ELSE Parent(m)
    IN  IF Link(n, d) # Nil THEN Extreme(Link(n, d), -d) ELSE climb[n]

-----------------------------------------------------------------------------
(* Insertion, rotation, unlinking and the fix-ups keep child and parent     *)
(* links consistent: from any node, at any moment, an iterator steps to the *)
(* next greater and the next smaller key, and begin is the least.          *)
IteratesInOrder ==
    /\ tree.root = Nil <=> Nodes = {}
    /\ tree.root # Nil => \A n \in Nodes : Extreme(tree.root, -1) <= n
    /\ \A n \in Nodes : \A d \in {-1, 1} :
         LET beyond == {m \in Nodes : d * m > d * n} IN
         IF beyond = {} THEN Neighbour(n, d) = Nil
         ELSE Neighbour(n, d) \in beyond /\ \A m \in beyond : d * m >= d * Neighbour(n, d)

(* What find finds. *)
Contents == [k \in {j \in Keys : HasKey(j)} |-> values[k]]

(* Insert, overwrite and erase do to the keys and values that find finds    *)
(* what they would do to a map, however the tree is rebuilt meanwhile.     *)
Abstract == INSTANCE Dictionary WITH contents <- Contents
ImplementsDictionary == Abstract!DictionarySpec
=============================================================================
