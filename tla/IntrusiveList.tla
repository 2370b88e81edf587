--------------------------- MODULE IntrusiveList ----------------------------
(***************************************************************************)
(* intrusive_list: two lists that link the callers' own nodes in rings     *)
(* through a head each, and hand all their nodes over when moved.          *)
(***************************************************************************)
EXTENDS Integers, FiniteSets

CONSTANTS ListNodes, Heads, Null

ASSUME ListAssumption == ListNodes \cap Heads = {} /\ Null \notin ListNodes \cup Heads

VARIABLES
    next, prev,   \* intrusive_node's links; a list's name is its head_
    length        \* size_

listVars == <<next, prev, length>>

Linkable == ListNodes \cup Heads

ListInit ==
    /\ next = [x \in Linkable |-> IF x \in Heads THEN x ELSE Null]
    /\ prev = next
    /\ length = [l \in Heads |-> 0]

(* The caller links a node that is in no list. *)
Free(n) == next[n] = Null

(* The nodes met from the head of a list, as far as its length. *)
Met(l) ==
    LET at[i \in 0..length[l]] == IF i = 0 THEN l ELSE next[at[i - 1]]
    IN  [i \in 1..length[l] |-> at[i]]

Members(l) == {Met(l)[i] : i \in 1..length[l]}

(* Mutant: the old successor keeps its predecessor. *)
LinkAfter_OneWay(l, pos, n) ==
    /\ next' = [next EXCEPT ![n] = next[pos], ![pos] = n]
    /\ prev' = [prev EXCEPT ![n] = pos]
    /\ length' = [length EXCEPT ![l] = @ + 1]

(* link_after *)
LinkAfter(l, pos, n) ==
    /\ next' = [next EXCEPT ![n] = next[pos], ![pos] = n]
    /\ prev' = [prev EXCEPT ![n] = pos, ![next[pos]] = n]
    /\ length' = [length EXCEPT ![l] = @ + 1]

(* unlink *)
Unlink(l, n) ==
    /\ next' = [next EXCEPT ![prev[n]] = next[n], ![n] = Null]
    /\ prev' = [prev EXCEPT ![next[n]] = prev[n], ![n] = Null]
    /\ length' = [length EXCEPT ![l] = @ - 1]

PushFront(l, n) == Free(n) /\ LinkAfter(l, l, n)
PushBack(l, n)  == Free(n) /\ LinkAfter(l, prev[l], n)
PopFront(l)     == length[l] > 0 /\ Unlink(l, next[l])
PopBack(l)      == length[l] > 0 /\ Unlink(l, prev[l])

(* insert before a position, which may be the end; erase at one. *)
InsertBefore(l, pos, n) == Free(n) /\ LinkAfter(l, prev[pos], n)
EraseAt(l, n)           == n \in Members(l) /\ Unlink(l, n)

(* clear pops the first node until none is left. *)
ClearList(l) ==
    /\ next' = [x \in Linkable |-> IF x \in Members(l) THEN Null ELSE IF x = l THEN l ELSE next[x]]
    /\ prev' = [x \in Linkable |-> IF x \in Members(l) THEN Null ELSE IF x = l THEN l ELSE prev[x]]
    /\ length' = [length EXCEPT ![l] = 0]

(* move_from, which the move assignment precedes with clear. *)
MoveList(to, from) ==
    LET swapped(x) == IF x = from THEN to ELSE x
        moved(f) ==
          [x \in Linkable |->
             IF x \in Members(to) THEN Null
             ELSE IF x = from THEN from
             ELSE IF x = to THEN swapped(f[from])
             ELSE IF x \in Members(from) THEN swapped(f[x]) ELSE f[x]] IN
    /\ to # from
    /\ next' = moved(next)
    /\ prev' = moved(prev)
    /\ length' = [length EXCEPT ![to] = length[from], ![from] = 0]

ListNext ==
    \E l \in Heads :
        \/ \E n \in ListNodes :
             \/ PushFront(l, n) \/ PushBack(l, n) \/ EraseAt(l, n)
             \/ \E pos \in Members(l) \cup {l} : InsertBefore(l, pos, n)
        \/ PopFront(l) \/ PopBack(l) \/ ClearList(l)
        \/ \E from \in Heads : MoveList(l, from)

(* Each list is one ring through its head, of as many nodes as it counts,   *)
(* the same forwards and backwards; no node is in two lists, and a node in *)
(* none has no links left to follow.                                       *)
RingsClosed ==
    /\ \A l \in Heads :
         /\ Members(l) \subseteq ListNodes /\ Cardinality(Members(l)) = length[l]
         /\ next[IF length[l] = 0 THEN l ELSE Met(l)[length[l]]] = l
         /\ \A x \in Members(l) \cup {l} : prev[next[x]] = x
         /\ \A m \in Heads \ {l} : Members(l) \cap Members(m) = {}
    /\ \A n \in ListNodes :
         (\A l \in Heads : n \notin Members(l)) => next[n] = Null /\ prev[n] = Null
=============================================================================
