--------------------------- MODULE Relationships ----------------------------
(***************************************************************************)
(* RelationshipManager: parents and children of blocks, kept in two maps   *)
(* of lists that are updated one after the other.                          *)
(***************************************************************************)
EXTENDS Integers, SequencesExt

CONSTANT MaxRelations   \* bound on the entries of parent_to_children_

ASSUME RelationsAssumption == MaxRelations \in Nat

VARIABLES
    childrenOf,   \* parent_to_children_: identity -> list of identities
    parentsOf     \* child_to_parents_

relationVars == <<childrenOf, parentsOf>>

RelationsInit ==
    /\ childrenOf = [i \in {} |-> << >>]
    /\ parentsOf = [i \in {} |-> << >>]

Entries(map, x) == IF x \in DOMAIN map THEN map[x] ELSE << >>

(* Append to the list of x, which the map may not have yet. *)
Listed(map, x, y) ==
    [z \in DOMAIN map \cup {x} |-> IF z = x THEN Append(Entries(map, x), y) ELSE map[z]]

(* The first entry of y leaves the list of x; a list that is empty leaves  *)
(* the map.                                                                *)
Unlisted(map, x, y) ==
    LET rest == RemoveFirst(Entries(map, x), y) IN
    IF y \notin ToSet(Entries(map, x)) THEN map
    ELSE [z \in {w \in DOMAIN map : w # x \/ rest # << >>} |-> IF z = x THEN rest ELSE map[z]]

Count(list, y) == Cardinality({n \in DOMAIN list : list[n] = y})

Related == MapThenSumSet(LAMBDA x : Len(childrenOf[x]), DOMAIN childrenOf)

(* relate, when present are the keys of the block map. *)
Relate(parent, child, present) ==
    /\ Related < MaxRelations
    /\ {parent, child} \subseteq present /\ parent # child
    /\ childrenOf' = Listed(childrenOf, parent, child)
    /\ parentsOf' = Listed(parentsOf, child, parent)

(* Mutant: all entries of the pair leave the first map, one the second. *)
Unrelate_EveryChild(parent, child) ==
    LET rest == SelectSeq(Entries(childrenOf, parent), LAMBDA e : e # child) IN
    /\ childrenOf' = [x \in {p \in DOMAIN childrenOf : p # parent \/ rest # << >>} |->
                        IF x = parent THEN rest ELSE childrenOf[x]]
    /\ parentsOf' = Unlisted(parentsOf, child, parent)

(* unrelate: neither block needs to exist. *)
Unrelate(parent, child) ==
    /\ childrenOf' = Unlisted(childrenOf, parent, child)
    /\ parentsOf' = Unlisted(parentsOf, child, parent)

-----------------------------------------------------------------------------
(* The two maps are updated apart, with duplicates, and a removal takes the *)
(* first entry it meets in each: they stay mirror images, entry for entry,  *)
(* and hold no empty list.                                                 *)
MapsMirror ==
    /\ \A x \in DOMAIN childrenOf \cup DOMAIN parentsOf :
         \A y \in DOMAIN childrenOf \cup DOMAIN parentsOf :
           Count(Entries(childrenOf, x), y) = Count(Entries(parentsOf, y), x)
    /\ \A x \in DOMAIN childrenOf : childrenOf[x] # << >>
    /\ \A x \in DOMAIN parentsOf : parentsOf[x] # << >>
=============================================================================
