----------------------------- MODULE FlatVector -----------------------------
(***************************************************************************)
(* flat_vector of elements that are not trivially copyable: where each     *)
(* element lives, in the inline buffer or on the heap, and whether the     *)
(* slots hold objects, through growth, moves between vectors and erasure.  *)
(***************************************************************************)
EXTENDS Integers, Sequences

CONSTANTS
    Vectors,    \* the vectors
    Elements,   \* what callers store
    Fresh,      \* a default-constructed element
    InlineN,    \* the template parameter
    MaxLength   \* bound on the length callers give a vector

ASSUME VectorAssumption ==
    InlineN \in Nat \ {0} /\ MaxLength \in Nat /\ Fresh \in Elements

VARIABLES
    vector,     \* vector -> [inline, slots, used]: slots up to the capacity
    meant,      \* history variable: the list each vector should hold
    torn        \* history variable: vectors that had an element moved onto a
                \* destroyed one

vectorVars == <<vector, meant, torn>>

Raw    == "raw"      \* storage without an object
Hollow == "hollow"   \* an object that was moved from

RawSlots(n) == [k \in 1..n |-> Raw]
EmptyVector == [inline |-> TRUE, slots |-> RawSlots(InlineN), used |-> 0]

VectorInit ==
    /\ vector = [v \in Vectors |-> EmptyVector]
    /\ meant = [v \in Vectors |-> << >>]
    /\ torn = {}

Cap(x)  == Len(x.slots)
Held(x) == SubSeq(x.slots, 1, x.used)

(* grow: the elements move to a heap buffer twice as large, or as needed.  *)
Grow(x, needed) ==
    LET cap == IF 2 * Cap(x) >= needed THEN 2 * Cap(x) ELSE needed IN
    [inline |-> FALSE, slots |-> Held(x) \o RawSlots(cap - x.used), used |-> x.used]

(* reserve *)
Roomy(x, n) == IF n > Cap(x) THEN Grow(x, n) ELSE x

(* push_back and emplace_back *)
Pushed(x, e) ==
    LET y == Roomy(x, x.used + 1) IN
    [y EXCEPT !.slots[y.used + 1] = e, !.used = @ + 1]

(* The last elements are destroyed until n are left. *)
Cropped(x, n) ==
    [x EXCEPT !.slots = SubSeq(@, 1, n) \o RawSlots(x.used - n) \o SubSeq(@, x.used + 1, Cap(x)),
              !.used = n]

(* The elements list are pushed to an empty vector with room for them. *)
Loaded(x, list) ==
    LET y == Roomy(x, Len(list)) IN
    [y EXCEPT !.slots = list \o SubSeq(@, Len(list) + 1, Cap(y)), !.used = Len(list)]

Becomes(v, x, list) ==
    /\ vector' = [vector EXCEPT ![v] = x]
    /\ meant' = [meant EXCEPT ![v] = list]

PushBackElement(v, e) ==
    /\ Len(meant[v]) < MaxLength
    /\ Becomes(v, Pushed(vector[v], e), Append(meant[v], e))
    /\ UNCHANGED torn

PopBackElement(v) ==
    /\ vector[v].used > 0
    /\ Becomes(v, Cropped(vector[v], vector[v].used - 1), SubSeq(meant[v], 1, Len(meant[v]) - 1))
    /\ UNCHANGED torn

Reserve(v, n) == Becomes(v, Roomy(vector[v], n), meant[v]) /\ UNCHANGED torn

(* resize, and clear for n = 0 *)
ResizeVector(v, n) ==
    LET x == vector[v]
        y == Roomy(x, n)
        new == [k \in 1..(n - x.used) |-> Fresh] IN
    /\ IF n <= x.used THEN Becomes(v, Cropped(x, n), SubSeq(meant[v], 1, n))
       ELSE Becomes(v, Loaded([y EXCEPT !.used = n], Held(x) \o new), meant[v] \o new)
    /\ UNCHANGED torn

(* erase from position f up to l: those elements are destroyed, the ones    *)
(* behind are move-assigned over them, and what they leave stays an object. *)
(* Assigning to a destroyed element is undefined; this is the outcome for   *)
(* elements that can be assigned all the same, and torn marks the vector.  *)
EraseElements(v, f, l) ==
    LET x == vector[v]
        rest == SubSeq(x.slots, l, x.used)
        n == l - f
        left == f - 1 + Len(rest)
        hollows == IF n <= Len(rest) THEN n ELSE Len(rest) IN
    /\ 1 <= f /\ f < l /\ l <= x.used + 1
    /\ Becomes(v,
         [x EXCEPT !.slots = SubSeq(@, 1, f - 1) \o rest \o RawSlots(n - hollows)
                               \o [k \in 1..hollows |-> Hollow] \o SubSeq(@, x.used + 1, Cap(x)),
                   !.used = left],
         SubSeq(meant[v], 1, f - 1) \o SubSeq(meant[v], l, Len(meant[v])))
    /\ torn' = IF rest = << >> THEN torn ELSE torn \cup {v}

(* The copy assignment. *)
CopyVector(to, from) ==
    /\ to # from
    /\ Becomes(to, Loaded(Cropped(vector[to], 0), Held(vector[from])), meant[from])
    /\ UNCHANGED torn

(* Mutant: a heap buffer is taken over, and its old owner keeps it. *)
MoveVector_Shares(to, from) ==
    /\ to # from
    /\ vector' = [vector EXCEPT ![to] = vector[from]]
    /\ meant' = [meant EXCEPT ![to] = meant[from], ![from] = << >>]
    /\ torn' = IF from \in torn THEN torn \cup {to} ELSE torn

(* The move assignment: a heap buffer changes hands, inline elements move   *)
(* one by one; either way the source is empty and inline.                  *)
MoveVector(to, from) ==
    LET x == vector[from] IN
    /\ to # from
    /\ vector' = [vector EXCEPT
         ![to] = IF ~x.inline THEN x
                 ELSE Loaded(IF @.inline THEN Cropped(@, 0) ELSE EmptyVector, Held(x)),
         ![from] = IF x.inline THEN Cropped(x, 0) ELSE EmptyVector]
    /\ meant' = [meant EXCEPT ![to] = meant[from], ![from] = << >>]
    /\ torn' = IF from \in torn THEN torn \cup {to} ELSE torn

VectorNext ==
    \E v \in Vectors :
        \/ \E e \in Elements : PushBackElement(v, e)
        \/ PopBackElement(v)
        \/ \E n \in 0..MaxLength : Reserve(v, n) \/ ResizeVector(v, n)
        \/ \E f, l \in 1..(MaxLength + 1) : EraseElements(v, f, l)
        \/ \E w \in Vectors : CopyVector(v, w) \/ MoveVector(v, w)

(* SPEC-013: a vector holds the list its calls made, a moved-from one none; *)
(* each slot in use holds a live object, and no other slot holds any, which *)
(* would never be destroyed, until an erasure from the middle leaves one.  *)
SlotsLive ==
    \A v \in Vectors :
        /\ Held(vector[v]) = meant[v]
        /\ vector[v].inline => Cap(vector[v]) = InlineN
        /\ v \notin torn =>
             \A k \in (vector[v].used + 1)..Cap(vector[v]) : vector[v].slots[k] = Raw
=============================================================================
