------------------------------ MODULE RangeFor ------------------------------
(***************************************************************************)
(* A range-for over a flat_vector whose body is user code.  begin() and    *)
(* end() are read once, so the loop runs over the slots that were in use   *)
(* when it began, whatever the body does to the vector.  A walk is the     *)
(* slot it is at and the last one; the body runs at that slot, or has yet  *)
(* to be called there.                                                     *)
(***************************************************************************)
EXTENDS Integers, Sequences

CONSTANTS
    InlineSlots    \* elements a vector holds before it first has to grow

ASSUME InlineAssumption == InlineSlots \in Nat \ {0}

VARIABLES
    wild           \* a loop is to read a slot without a live object

NoWalk == [at |-> 0, upto |-> 0, inside |-> FALSE]

WalkOver(list) == [at |-> 1, upto |-> Len(list), inside |-> FALSE]
Enter(w)       == [at |-> w.at, upto |-> w.upto, inside |-> TRUE]
Leave(w)       == [at |-> w.at + 1, upto |-> w.upto, inside |-> FALSE]

CanEnter(w) == ~w.inside /\ w.at # 0 /\ w.at <= w.upto
WalkedOut(w) == ~w.inside /\ w.at > w.upto

(* The body at slot w.at has the rest of the loop still before it. *)
HasMore(w) == w.inside /\ w.at < w.upto

(* push_back may have to grow: whether it does also depends on how long the *)
(* vector ever was.  A loop that goes on then reads the old buffer.         *)
PushMoves(list, walked) ==
    \E moves \in BOOLEAN :
        /\ moves => Len(list) >= InlineSlots
        /\ wild' = (wild \/ (moves /\ walked))
=============================================================================
