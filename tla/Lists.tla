-------------------------------- MODULE Lists --------------------------------
(***************************************************************************)
(* What the code does to a whole flat_vector: elements are taken out of it, *)
(* and it is sorted by priority with std::stable_sort.                      *)
(***************************************************************************)
EXTENDS Integers, SequencesExt

(* TakingOut(list, out)[n] is what is left of the first n elements. *)
TakingOut(list, out) ==
    LET rest[n \in 0..Len(list)] ==
          IF n = 0 THEN << >>
          ELSE IF list[n] \in out THEN rest[n - 1] ELSE Append(rest[n - 1], list[n])
    IN rest

(* The list without its elements in out. *)
TakeOut(list, out) == TakingOut(list, out)[Len(list)]

(* Mutant: a tie puts the later entry first. *)
Placed_BeforeEquals(sorted, c) ==
    InsertAt(sorted, 1 + Cardinality({n \in DOMAIN sorted : sorted[n].priority > c.priority}), c)

(* A stable sort puts an entry behind those of higher or equal priority. *)
Placed(sorted, c) ==
    InsertAt(sorted, 1 + Cardinality({n \in DOMAIN sorted : sorted[n].priority >= c.priority}), c)

(* The entries placed one after the other: Sorting(entries)[n] holds n of them. *)
Sorting(entries) ==
    LET sorted[n \in 0..Len(entries)] ==
          IF n = 0 THEN << >> ELSE Placed(sorted[n - 1], entries[n])
    IN sorted

StableSort(entries) == Sorting(entries)[Len(entries)]
=============================================================================
