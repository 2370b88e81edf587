------------------------- MODULE Containers_proofs --------------------------
(***************************************************************************)
(* Proofs about the containers, for every sequence of calls: the bits of a  *)
(* BitVector, for every width of a word; the slots of a flat_vector, for   *)
(* every inline size; the rings of an intrusive_list; the two trees, for    *)
(* any keys, down to the links and colours between rounds of their loops.  *)
(***************************************************************************)
EXTENDS Containers, SequenceTheorems, FiniteSetTheorems, WellFoundedInduction, TLAPS

LEMMA TimesMonotone ==
  ASSUME NEW a \in Nat, NEW b \in Nat, NEW w \in Nat, a <= b
  PROVE  a * w <= b * w
<1>1. PICK d \in Nat : b = a + d
  BY SMT
<1>2. b * w = a * w + d * w
  BY <1>1, SMT
<1>3. d * w >= 0
  BY SMT
<1> QED BY <1>2, <1>3, SMT

LEMMA TimesNat == \A a, b \in Nat : a * b \in Nat
BY SMT

(* words_needed gives words enough for the bits asked for. *)
LEMMA WordsNeededSuffice ==
  ASSUME NEW n \in Nat
  PROVE  WordsNeeded(n) \in Nat /\ n <= WordsNeeded(n) * WordBits
<1> DEFINE m == n + WordBits - 1
<1>1. WordBits \in Nat /\ WordBits > 0 /\ m \in Nat
  BY BitsAssumption
<1>2. m \div WordBits \in Nat /\ m = WordBits * (m \div WordBits) + (m % WordBits)
  BY <1>1, SMT
<1>3. m % WordBits \in 0..WordBits - 1
  BY <1>1, SMT
<1> QED BY <1>1, <1>2, <1>3, SMT DEF WordsNeeded

(* Where the bits are.  A bit outside cut reads as it was last written; one *)
(* past the end is set only if a resize cut it off.                        *)
BitInv ==
    /\ words \in Nat /\ bitCount \in Nat /\ bitCount <= words * WordBits
    /\ ones \subseteq Positions
    /\ \A p \in ones : p < words * WordBits /\ (p < bitCount \/ p \in cut)
    /\ \A p \in Positions \ cut : p \in ones <=> p \in wrote

LEMMA BitInvHoldsFirst == ContainersInit => BitInv
BY BitsAssumption DEF ContainersInit, BitInit, BitInv, Positions

(* Growing keeps every word and reaches the new end. *)
LEMMA SizeToSuffices ==
  ASSUME words \in Nat, NEW n \in Nat, SizeTo(n)
  PROVE  /\ words' \in Nat /\ bitCount' = n
         /\ n <= words' * WordBits
         /\ words * WordBits <= words' * WordBits
<1>1. WordsNeeded(n) \in Nat /\ n <= WordsNeeded(n) * WordBits
  BY WordsNeededSuffice
<1>2. words' \in Nat /\ words <= words' /\ WordsNeeded(n) <= words'
  BY <1>1 DEF SizeTo
<1>3. WordBits \in Nat
  BY BitsAssumption
<1>4. words * WordBits <= words' * WordBits /\ WordsNeeded(n) * WordBits <= words' * WordBits
  BY <1>1, <1>2, <1>3, TimesMonotone
<1>5. {words * WordBits, words' * WordBits, WordsNeeded(n) * WordBits} \subseteq Nat
  BY <1>1, <1>2, <1>3, TimesNat
<1> QED BY <1>1, <1>2, <1>4, <1>5 DEF SizeTo

(* Whatever grows the vector to n and rewrites bits below n keeps the rest. *)
LEMMA GrowingKeepsBits ==
  ASSUME BitInv, NEW n \in Nat, NEW pos \in Positions,
         SizeTo(n), bitCount <= n, pos < n,
         ones' \in {ones \cup {pos}, ones \ {pos}},
         cut' \in {cut, cut \ {pos}},
         \A p \in Positions : p # pos => (p \in wrote' <=> p \in wrote),
         pos \notin cut' => (pos \in ones' <=> pos \in wrote')
  PROVE  BitInv'
<1>1. /\ words' \in Nat /\ bitCount' = n /\ n <= words' * WordBits
      /\ words * WordBits <= words' * WordBits
  BY SizeToSuffices DEF BitInv
<1>2. {words * WordBits, words' * WordBits} \subseteq Nat /\ Positions \subseteq Nat
  <2>1. words \in Nat /\ words' \in Nat /\ WordBits \in Nat
    BY <1>1, BitsAssumption DEF BitInv
  <2>2. words * WordBits \in Nat /\ words' * WordBits \in Nat
    BY <2>1, TimesNat
  <2>3. Positions \subseteq Nat
    BY BitsAssumption DEF Positions
  <2> QED BY <2>2, <2>3
<1>3. ASSUME NEW p \in ones' PROVE p \in Positions /\ p < words' * WordBits /\ (p < n \/ p \in cut')
  <2>1. CASE p = pos
    BY <1>1, <1>2, <2>1
  <2>2. CASE p # pos
    <3>1. p \in ones
      BY <2>2
    <3>2. p \in Positions /\ p < words * WordBits /\ (p < bitCount \/ p \in cut) /\ bitCount \in Nat
      BY <3>1 DEF BitInv
    <3> QED BY <1>1, <1>2, <2>2, <3>2
  <2> QED BY <2>1, <2>2
<1>4. ASSUME NEW p \in Positions, p \notin cut' PROVE p \in ones' <=> p \in wrote'
  <2>1. CASE p = pos
    BY <1>4, <2>1
  <2>2. CASE p # pos
    BY <1>4, <2>2 DEF BitInv
  <2> QED BY <2>1, <2>2
<1>5. Positions' = Positions
  BY DEF Positions
<1> QED BY <1>1, <1>3, <1>4, <1>5 DEF BitInv

LEMMA BitStepKeeps == ASSUME BitInv, BitNext PROVE BitInv'
<1>1. MaxBits \in Nat /\ bitCount \in Nat /\ Positions = 0..MaxBits - 1
  BY BitsAssumption DEF BitInv, Positions
<1>2. ASSUME NEW one \in BOOLEAN, PushBit(one) PROVE BitInv'
  <2>1. bitCount \in Positions /\ SizeTo(bitCount + 1) /\ Write(bitCount, one)
    BY <1>1, <1>2 DEF PushBit
  <2>2. bitCount + 1 \in Nat /\ bitCount < bitCount + 1 /\ bitCount <= bitCount + 1
    BY <1>1
  <2> QED BY <2>1, <2>2, GrowingKeepsBits DEF Write
<1>3. ASSUME NEW pos \in Positions, SetBit(pos) PROVE BitInv'
  <2> DEFINE n == IF pos >= bitCount THEN pos + 1 ELSE bitCount
  <2>1. n \in Nat /\ bitCount <= n /\ pos < n /\ SizeTo(n)
    BY <1>1, <1>3 DEF SetBit, Reach
  <2> HIDE DEF n
  <2> QED BY <1>3, <2>1, GrowingKeepsBits DEF SetBit, Write
<1>4. ASSUME NEW pos \in Positions, FlipBit(pos) PROVE BitInv'
  <2> DEFINE n == IF pos >= bitCount THEN pos + 1 ELSE bitCount
  <2>1. n \in Nat /\ bitCount <= n /\ pos < n /\ SizeTo(n)
    BY <1>1, <1>4 DEF FlipBit, Reach
  <2>2. pos \notin cut => (pos \in ones' <=> pos \in wrote')
    BY <1>4 DEF FlipBit, Toggled, BitInv
  <2>3. \A p \in Positions : p # pos => (p \in wrote' <=> p \in wrote)
    BY <1>4 DEF FlipBit, Toggled
  <2>4. ones' \in {ones \cup {pos}, ones \ {pos}} /\ cut' = cut
    BY <1>4 DEF FlipBit, Toggled
  <2> HIDE DEF n
  <2> QED BY <2>1, <2>2, <2>3, <2>4, GrowingKeepsBits
<1>5. ASSUME NEW pos \in Positions, ResetBit(pos) PROVE BitInv'
  <2>1. words' = words /\ bitCount' = bitCount /\ ones' = ones \ {pos} /\ cut' = cut \ {pos}
    BY <1>5 DEF ResetBit, Write
  <2>2. wrote' = wrote \ {pos} /\ pos < bitCount
    BY <1>5 DEF ResetBit, Write
  <2>3. Positions' = Positions
    BY DEF Positions
  <2> QED BY <2>1, <2>2, <2>3 DEF BitInv
<1>6. ASSUME NEW n \in 0..MaxBits, ResizeBits(n) PROVE BitInv'
  <2>1. n \in Nat
    BY <1>1
  <2>2. /\ words' \in Nat /\ bitCount' = n /\ n <= words' * WordBits
        /\ words * WordBits <= words' * WordBits
    BY <1>6, <2>1, SizeToSuffices DEF ResizeBits, BitInv
  <2>3. {words * WordBits, words' * WordBits} \subseteq Nat /\ Positions \subseteq Nat
    <3>1. words \in Nat /\ words' \in Nat /\ WordBits \in Nat
      BY <2>2, BitsAssumption DEF BitInv
    <3>2. words * WordBits \in Nat /\ words' * WordBits \in Nat
      BY <3>1, TimesNat
    <3>3. Positions \subseteq Nat
      BY BitsAssumption DEF Positions
    <3> QED BY <3>2, <3>3
  <2>4. ASSUME NEW p \in ones' PROVE p \in Positions /\ p < words' * WordBits /\ (p < n \/ p \in cut')
    <3>1. p \in ones /\ p \in Positions /\ p < words * WordBits
      BY <1>6 DEF ResizeBits, BitInv
    <3>2. p < n \/ p \in cut'
      BY <1>6, <2>1, <2>3, <3>1 DEF ResizeBits
    <3> QED BY <2>2, <2>3, <3>1, <3>2
  <2>5. ASSUME NEW p \in Positions, p \notin cut' PROVE p \in ones' <=> p \in wrote'
    <3>1. p \notin cut /\ (p \in ones => p < n)
      BY <1>6, <2>1, <2>3, <2>5 DEF ResizeBits
    <3>2. p \in ones <=> p \in wrote
      BY <3>1 DEF BitInv
    <3> QED BY <1>6, <3>1, <3>2 DEF ResizeBits
  <2>6. Positions' = Positions
    BY DEF Positions
  <2> QED BY <2>2, <2>4, <2>5, <2>6 DEF BitInv
<1>7. CASE ClearBits
  BY <1>7, BitsAssumption DEF ClearBits, BitInv, Positions
<1> QED BY <1>2, <1>3, <1>4, <1>5, <1>6, <1>7 DEF BitNext

LEMMA NextKeepsBits == ASSUME BitInv, [ContainersNext]_containerVars PROVE BitInv'
<1>1. CASE UNCHANGED bitVars
  BY <1>1 DEF BitInv, bitVars, Positions
<1>2. CASE BitNext
  BY <1>2, BitStepKeeps
<1> QED BY <1>1, <1>2 DEF ContainersNext, containerVars

(* A bit reads as it was last written, and the words hold every bit, for   *)
(* words of any width.                                                     *)
THEOREM BitsAreKept == ContainersSpec => []BitsKept
<1>1. BitInv => BitsKept
  <2> SUFFICES ASSUME BitInv PROVE BitsKept
    OBVIOUS
  <2>1. words * WordBits \in Nat /\ Positions \subseteq Nat /\ bitCount \in Nat
    BY BitsAssumption, TimesNat DEF BitInv, Positions
  <2>2. ones \subseteq 0..(words * WordBits - 1) /\ bitCount <= words * WordBits
    BY <2>1 DEF BitInv
  <2>3. ASSUME NEW p \in Positions \ cut PROVE TestBit(p) <=> p \in wrote
    BY <2>1 DEF BitInv, TestBit
  <2>4. ones = {p \in Positions : TestBit(p)} \cup (cut \cap ones)
    BY DEF BitInv, TestBit
  <2> QED BY <2>2, <2>3, <2>4 DEF BitsKept, CountBits
<1> QED BY <1>1, BitInvHoldsFirst, NextKeepsBits, PTL DEF ContainersSpec

-----------------------------------------------------------------------------
(* What a slot may hold, and a vector that holds a list. *)
Slot == Elements \cup {Raw, Hollow}

IsVector(x) == x \in [inline : BOOLEAN, slots : Seq(Slot), used : Nat]

FitsInline(x) == x.inline => Cap(x) = InlineN

Shaped(x) ==
    /\ IsVector(x) /\ x.slots \in Seq(Slot)
    /\ x.used \in Nat /\ x.used <= Cap(x)
    /\ FitsInline(x)

Holds(x, list) ==
    /\ Shaped(x) /\ list \in Seq(Elements) /\ x.used = Len(list)
    /\ \A k \in 1..Len(list) : x.slots[k] = list[k]

(* No slot behind those in use holds an object. *)
Clean(x) == \A k \in (x.used + 1)..Cap(x) : x.slots[k] = Raw

VectorInv ==
    /\ DOMAIN vector = Vectors /\ DOMAIN meant = Vectors
    /\ \A v \in Vectors : Holds(vector[v], meant[v]) /\ (v \notin torn => Clean(vector[v]))

LEMMA IsVectorIf ==
  ASSUME NEW i \in BOOLEAN, NEW s \in Seq(Slot), NEW u \in Nat
  PROVE  IsVector([inline |-> i, slots |-> s, used |-> u])
BY DEF IsVector

Changed(x, slots, used) == [x EXCEPT !.slots = slots, !.used = used]

LEMMA VectorChanged ==
  ASSUME NEW x, IsVector(x), NEW s \in Seq(Slot), NEW u \in Nat
  PROVE  /\ IsVector(Changed(x, s, u)) /\ Changed(x, s, u).inline = x.inline
         /\ Changed(x, s, u).slots = s /\ Changed(x, s, u).used = u
<1> DEFINE y == Changed(x, s, u)
<1> DEFINE S == Seq(Slot)
<1>1. x \in [inline : BOOLEAN, slots : S, used : Nat] /\ s \in S
  BY DEF IsVector
<1> HIDE DEF S
<1>2. y \in [inline : BOOLEAN, slots : S, used : Nat] /\ y.inline = x.inline /\ y.slots = s /\ y.used = u
  BY <1>1 DEF Changed
<1> HIDE DEF y
<1> QED BY <1>2 DEF S, IsVector, y

LEMMA RawAre ==
  ASSUME NEW n \in Nat
  PROVE  RawSlots(n) \in Seq(Slot) /\ Len(RawSlots(n)) = n /\ \A k \in 1..n : RawSlots(n)[k] = Raw
BY DEF RawSlots, Slot

(* A stretch of the slots of a vector. *)
LEMMA Stretch ==
  ASSUME NEW T, NEW s \in Seq(T), NEW a \in Nat \ {0}, NEW b \in Nat, b <= Len(s)
  PROVE  /\ SubSeq(s, a, b) \in Seq(T)
         /\ Len(SubSeq(s, a, b)) = IF a <= b THEN b - a + 1 ELSE 0
         /\ \A k \in 1..(b - a + 1) : SubSeq(s, a, b)[k] = s[a + k - 1]
<1>1. \A k \in a..b : s[k] \in T
  OBVIOUS
<1> QED BY <1>1, SubSeqProperties

LEMMA HeldAre ==
  ASSUME NEW x, NEW list, Holds(x, list)
  PROVE  Held(x) = list
<1>1. /\ x.slots \in Seq(Slot) /\ x.used \in Nat /\ x.used <= Len(x.slots) /\ x.used = Len(list)
      /\ list \in Seq(Elements)
  BY DEF Holds, Shaped, Cap
<1> DEFINE h == SubSeq(x.slots, 1, x.used)
<1>2. h \in Seq(Slot) /\ Len(h) = x.used /\ \A k \in 1..x.used : h[k] = x.slots[1 + k - 1]
  <2>1. /\ h \in Seq(Slot) /\ Len(h) = IF 1 <= x.used THEN x.used - 1 + 1 ELSE 0
        /\ \A k \in 1..(x.used - 1 + 1) : h[k] = x.slots[1 + k - 1]
    BY <1>1, Stretch
  <2> HIDE DEF h
  <2> QED BY <1>1, <2>1
<1> HIDE DEF h
<1>3. list \in Seq(Slot)
  BY <1>1 DEF Slot
<1>4. \A k \in 1..Len(h) : h[k] = list[k]
  <2>1. \A k \in 1..x.used : 1 + k - 1 = k
    BY <1>1
  <2> QED BY <1>1, <1>2, <2>1 DEF Holds
<1>5. h = list
  BY <1>1, <1>2, <1>3, <1>4, SeqEqual
<1> QED BY <1>5 DEF Held, h

(* The list in the first slots, and the rest as it was. *)
LEMMA LaidOut ==
  ASSUME NEW x, IsVector(x), x.slots \in Seq(Slot), FitsInline(x),
         NEW list \in Seq(Elements), Len(list) <= Cap(x)
  PROVE  LET y == [x EXCEPT !.slots = list \o SubSeq(@, Len(list) + 1, Cap(x)), !.used = Len(list)] IN
         /\ Holds(y, list)
         /\ (\A k \in (Len(list) + 1)..Cap(x) : x.slots[k] = Raw) => Clean(y)
<1> DEFINE n == Len(list)
           c == Cap(x)
           rest == SubSeq(x.slots, n + 1, c)
           slots == list \o rest
           y == [x EXCEPT !.slots = list \o SubSeq(@, n + 1, c), !.used = n]
<1>1. n \in Nat /\ c \in Nat /\ n <= c /\ list \in Seq(Slot) /\ c = Len(x.slots)
  BY DEF Cap, Slot
<1>2. rest \in Seq(Slot) /\ Len(rest) = c - n /\ \A k \in 1..(c - n) : rest[k] = x.slots[n + k]
  <2> HIDE DEF n, c
  <2>1. /\ rest \in Seq(Slot) /\ Len(rest) = (IF n + 1 <= c THEN c - (n + 1) + 1 ELSE 0)
        /\ \A k \in 1..(c - (n + 1) + 1) : rest[k] = x.slots[n + 1 + k - 1]
    BY <1>1, Stretch
  <2>2. \A k \in 1..(c - n) : n + 1 + k - 1 = n + k
    BY <1>1
  <2> HIDE DEF rest
  <2> QED BY <1>1, <2>1, <2>2
<1> HIDE DEF rest, n, c
<1>3. /\ slots \in Seq(Slot) /\ Len(slots) = c
      /\ \A k \in 1..c : slots[k] = IF k <= n THEN list[k] ELSE rest[k - n]
  BY <1>1, <1>2 DEF n
<1> HIDE DEF slots
<1>4. y = Changed(x, slots, n)
  BY DEF slots, rest, Changed
<1> HIDE DEF y
<1>5. IsVector(y) /\ y.inline = x.inline /\ y.slots = slots /\ y.used = n /\ Cap(y) = c
  <2>1. IsVector(y) /\ y.inline = x.inline /\ y.slots = slots /\ y.used = n
    <3>1. IsVector(x) /\ slots \in Seq(Slot) /\ n \in Nat /\ y = Changed(x, slots, n)
      BY <1>1, <1>3, <1>4
    <3>2. /\ IsVector(Changed(x, slots, n)) /\ Changed(x, slots, n).inline = x.inline
          /\ Changed(x, slots, n).slots = slots /\ Changed(x, slots, n).used = n
      BY <3>1, VectorChanged
    <3> QED BY <3>1, <3>2
  <2> QED BY <1>3, <2>1 DEF Cap
<1>6. Holds(y, list)
  <2>1. FitsInline(y)
    <3>1. y.inline = x.inline /\ Cap(y) = Cap(x)
      BY <1>5 DEF c
    <3> QED BY <3>1, Zenon DEF FitsInline
  <2> QED BY <1>1, <1>3, <1>5, <2>1 DEF Holds, Shaped, c, n
<1>7. ASSUME \A k \in (n + 1)..c : x.slots[k] = Raw PROVE Clean(y)
  <2> SUFFICES ASSUME NEW k \in (n + 1)..c PROVE slots[k] = Raw
    BY <1>5 DEF Clean
  <2>1. k \in 1..c /\ ~(k <= n) /\ k - n \in 1..(c - n) /\ n + (k - n) = k
    BY <1>1
  <2> QED BY <1>2, <1>3, <1>7, <2>1
<1> QED BY <1>6, <1>7 DEF y, n, c

(* reserve *)
LEMMA RoomyHolds ==
  ASSUME NEW x, NEW list, Holds(x, list), NEW n \in Nat
  PROVE  LET y == Roomy(x, n) IN
         /\ Holds(y, list) /\ n <= Cap(y) /\ y.used = x.used
         /\ Clean(x) => Clean(y)
<1>1. CASE n <= Cap(x)
  <2>1. Roomy(x, n) = x
    BY <1>1 DEF Roomy, Cap, Holds, Shaped
  <2> QED BY <1>1, <2>1
<1>2. CASE n > Cap(x)
  <2> DEFINE cap == IF 2 * Cap(x) >= n THEN 2 * Cap(x) ELSE n
             u == x.used
             slots == Held(x) \o RawSlots(cap - u)
             y == [inline |-> FALSE, slots |-> slots, used |-> u]
  <2>1. Roomy(x, n) = y
    BY <1>2 DEF Roomy, Grow
  <2>2. u \in Nat /\ u = Len(list) /\ list \in Seq(Elements) /\ list \in Seq(Slot) /\ Cap(x) \in Nat /\ u <= Cap(x)
    BY DEF Holds, Shaped, Cap, Slot
  <2>3. cap \in Nat /\ u <= cap /\ n <= cap
    BY <1>2, <2>2
  <2>4. Held(x) = list
    BY HeldAre
  <2> HIDE DEF u, cap
  <2>5. RawSlots(cap - u) \in Seq(Slot) /\ Len(RawSlots(cap - u)) = cap - u
        /\ \A k \in 1..(cap - u) : RawSlots(cap - u)[k] = Raw
    <3>1. cap - u \in Nat
      BY <2>2, <2>3
    <3> QED BY <3>1, RawAre
  <2> DEFINE r == RawSlots(cap - u)
  <2> HIDE DEF r
  <2>6. /\ list \o r \in Seq(Slot) /\ Len(list \o r) = Len(list) + Len(r)
        /\ \A k \in 1..(Len(list) + Len(r)) :
             (list \o r)[k] = IF k <= Len(list) THEN list[k] ELSE r[k - Len(list)]
    BY <2>2, <2>5, ConcatProperties DEF r
  <2>7. slots = list \o r
    BY <2>4 DEF r
  <2> HIDE DEF slots
  <2>8. slots \in Seq(Slot) /\ Len(slots) = cap /\ \A k \in 1..cap : slots[k] = IF k <= u THEN list[k] ELSE r[k - u]
    BY <2>2, <2>3, <2>5, <2>6, <2>7 DEF r
  <2>9. Holds(y, list)
    <3>1. IsVector(y)
      BY <2>2, <2>8, IsVectorIf
    <3>2. FitsInline(y)
      BY DEF FitsInline
    <3> QED BY <3>1, <3>2, <2>2, <2>3, <2>8 DEF Holds, Shaped, Cap
  <2>10. \A k \in (u + 1)..cap : slots[k] = Raw
    <3>1. \A k \in (u + 1)..cap : k \in 1..cap /\ ~(k <= u) /\ k - u \in 1..(cap - u)
      BY <2>2, <2>3
    <3> QED BY <2>5, <2>8, <3>1 DEF r
  <2>11. Clean(y) /\ Cap(y) = cap
    BY <2>8, <2>10 DEF Clean, Cap
  <2> HIDE DEF y
  <2> QED BY <2>1, <2>3, <2>9, <2>11 DEF y, u
<1> QED BY <1>1, <1>2 DEF Holds, Shaped, Cap

(* Two lists one behind the other, the first n long, both m. *)
LEMMA OneBehindTheOther ==
  ASSUME NEW T, NEW a \in Seq(T), NEW b \in Seq(T), NEW n \in Nat, NEW m \in Nat, n <= m,
         Len(a) = n, Len(b) = m - n
  PROVE  /\ a \o b \in Seq(T) /\ Len(a \o b) = m
         /\ \A k \in 1..m : (a \o b)[k] = IF k <= n THEN a[k] ELSE b[k - n]
<1>1. n + (m - n) = m
  OBVIOUS
<1>2. /\ a \o b \in Seq(T) /\ Len(a \o b) = Len(a) + Len(b)
      /\ \A k \in 1..(Len(a) + Len(b)) : (a \o b)[k] = IF k <= Len(a) THEN a[k] ELSE b[k - Len(a)]
  BY ConcatProperties
<1>3. Len(a) + Len(b) = m
  BY <1>1
<1> QED BY <1>2, <1>3

(* Lists a and b, the first n long, both m. *)
Joinable(T, a, b, n, m) ==
    /\ a \in Seq(T) /\ b \in Seq(T) /\ n \in Nat /\ m \in Nat /\ n <= m
    /\ Len(a) = n /\ Len(b) = m - n

LEMMA Joined ==
  ASSUME NEW T, NEW a, NEW b, NEW n, NEW m, Joinable(T, a, b, n, m)
  PROVE  /\ a \o b \in Seq(T) /\ Len(a \o b) = m
         /\ \A k \in 1..m : (a \o b)[k] = IF k <= n THEN a[k] ELSE b[k - n]
BY OneBehindTheOther DEF Joinable

LEMMA HoldsMeans ==
  ASSUME NEW x, NEW list, Holds(x, list)
  PROVE  /\ IsVector(x) /\ FitsInline(x) /\ x.slots \in Seq(Slot) /\ list \in Seq(Elements)
         /\ Len(list) \in Nat /\ Cap(x) \in Nat /\ Len(list) <= Cap(x) /\ x.used = Len(list)
         /\ Cap(x) = Len(x.slots)
BY DEF Holds, Shaped, Cap

(* push_back *)
LEMMA PushedHolds ==
  ASSUME NEW x, NEW list, Holds(x, list), NEW e \in Elements
  PROVE  /\ Holds(Pushed(x, e), Append(list, e))
         /\ Clean(x) => Clean(Pushed(x, e))
<1> DEFINE n == Len(list)
           y == Roomy(x, x.used + 1)
           slots == [y.slots EXCEPT ![y.used + 1] = e]
           z == Changed(y, slots, n + 1)
           more == Append(list, e)
<1>1. n \in Nat /\ x.used = n /\ list \in Seq(Elements)
  BY HoldsMeans
<1>2. Holds(y, list) /\ n + 1 <= Cap(y) /\ y.used = n /\ (Clean(x) => Clean(y))
  <2>1. x.used + 1 \in Nat
    BY <1>1
  <2> QED BY <1>1, <2>1, RoomyHolds
<1> HIDE DEF y
<1>3. /\ IsVector(y) /\ FitsInline(y) /\ y.slots \in Seq(Slot) /\ Cap(y) \in Nat /\ Cap(y) = Len(y.slots)
  BY <1>2, HoldsMeans
<1>4. Pushed(x, e) = z
  <2>1. Pushed(x, e) = [y EXCEPT !.slots[y.used + 1] = e, !.used = @ + 1]
    BY DEF Pushed, y
  <2>2. y \in [inline : BOOLEAN, slots : Seq(Slot), used : Nat]
    BY <1>3 DEF IsVector
  <2>3. [y EXCEPT !.slots[y.used + 1] = e, !.used = @ + 1] = [y EXCEPT !.slots = slots, !.used = n + 1]
    BY <1>2, <2>2
  <2> QED BY <2>1, <2>3 DEF Changed
<1>5. /\ slots \in Seq(Slot) /\ Len(slots) = Cap(y)
      /\ \A k \in 1..Cap(y) : slots[k] = IF k = n + 1 THEN e ELSE y.slots[k]
  <2>1. n + 1 \in 1..Len(y.slots) /\ e \in Slot
    BY <1>1, <1>2, <1>3 DEF Slot
  <2> DEFINE s == y.slots
  <2>2. s \in Seq(Slot) /\ slots = [s EXCEPT ![n + 1] = e] /\ Len(s) = Cap(y) /\ n + 1 \in 1..Len(s)
    BY <1>2, <1>3, <2>1
  <2> HIDE DEF s, slots
  <2>3. /\ [s EXCEPT ![n + 1] = e] \in Seq(Slot) /\ Len([s EXCEPT ![n + 1] = e]) = Len(s)
        /\ \A k \in 1..Len(s) : [s EXCEPT ![n + 1] = e][k] = IF k = n + 1 THEN e ELSE s[k]
    BY <2>1, <2>2, ExceptSeq
  <2> QED BY <2>2, <2>3 DEF s
<1> HIDE DEF slots, z
<1>6. IsVector(z) /\ z.inline = y.inline /\ z.slots = slots /\ z.used = n + 1
  <2>1. IsVector(y) /\ slots \in Seq(Slot) /\ n + 1 \in Nat
    BY <1>1, <1>3, <1>5
  <2>2. /\ IsVector(Changed(y, slots, n + 1)) /\ Changed(y, slots, n + 1).inline = y.inline
        /\ Changed(y, slots, n + 1).slots = slots /\ Changed(y, slots, n + 1).used = n + 1
    BY <2>1, VectorChanged
  <2> QED BY <2>2 DEF z
<1>7. Cap(z) = Cap(y)
  BY <1>5, <1>6 DEF Cap
<1>8. FitsInline(z)
  BY <1>3, <1>6, <1>7, Zenon DEF FitsInline
<1>9. more \in Seq(Elements) /\ Len(more) = n + 1
      /\ \A k \in 1..(n + 1) : more[k] = IF k <= n THEN list[k] ELSE e
  BY <1>1
<1> HIDE DEF more
<1>10. \A k \in 1..(n + 1) : slots[k] = more[k]
  <2> SUFFICES ASSUME NEW k \in 1..(n + 1) PROVE slots[k] = more[k]
    OBVIOUS
  <2>1. k \in 1..Cap(y)
    BY <1>1, <1>2, <1>3
  <2>2. CASE k = n + 1
    BY <1>1, <1>5, <1>9, <2>1, <2>2
  <2>3. CASE k \in 1..n
    BY <1>1, <1>2, <1>5, <1>9, <2>1, <2>3 DEF Holds
  <2> QED BY <1>1, <2>2, <2>3
<1>11. Holds(z, more)
  BY <1>2, <1>5, <1>6, <1>7, <1>8, <1>9, <1>10 DEF Holds, Shaped
<1>12. ASSUME Clean(x) PROVE Clean(z)
  <2>1. Clean(y)
    BY <1>2, <1>12
  <2> SUFFICES ASSUME NEW k \in (n + 1 + 1)..Cap(y) PROVE slots[k] = Raw
    BY <1>6, <1>7 DEF Clean
  <2>2. k \in 1..Cap(y) /\ k # n + 1 /\ k \in (n + 1)..Cap(y)
    BY <1>1, <1>3
  <2> QED BY <1>2, <1>5, <2>1, <2>2 DEF Clean
<1> QED BY <1>4, <1>11, <1>12 DEF more

(* pop_back, clear, and resize to fewer. *)
LEMMA CroppedHolds ==
  ASSUME NEW x, NEW list, Holds(x, list), NEW n \in 0..Len(list)
  PROVE  /\ Holds(Cropped(x, n), SubSeq(list, 1, n))
         /\ Clean(x) => Clean(Cropped(x, n))
<1> DEFINE u == x.used
           c == Cap(x)
           a == SubSeq(x.slots, 1, n)
           b == RawSlots(u - n)
           d == SubSeq(x.slots, u + 1, c)
           slots == (a \o b) \o d
           z == Changed(x, slots, n)
           less == SubSeq(list, 1, n)
<1>1. /\ IsVector(x) /\ FitsInline(x) /\ x.slots \in Seq(Slot) /\ list \in Seq(Elements)
      /\ u \in Nat /\ c \in Nat /\ u <= c /\ u = Len(list) /\ c = Len(x.slots) /\ n \in Nat /\ n <= u
  BY HoldsMeans
<1>2. Cropped(x, n) = z
  <2>1. SubSeq(x.slots, 1, n) \o RawSlots(x.used - n) \o SubSeq(x.slots, x.used + 1, Cap(x)) = slots
    OBVIOUS
  <2> QED BY <2>1 DEF Cropped, Changed
<1> HIDE DEF u, c
<1>3. a \in Seq(Slot) /\ Len(a) = n /\ \A k \in 1..n : a[k] = x.slots[k]
  <2>1. /\ a \in Seq(Slot) /\ Len(a) = (IF 1 <= n THEN n - 1 + 1 ELSE 0)
        /\ \A k \in 1..(n - 1 + 1) : a[k] = x.slots[1 + k - 1]
    <3>1. 1 \in Nat \ {0} /\ n \in Nat /\ n <= Len(x.slots)
      BY <1>1
    <3> QED BY <1>1, <3>1, Stretch
  <2>2. \A k \in 1..n : 1 + k - 1 = k
    OBVIOUS
  <2> HIDE DEF a
  <2> QED BY <1>1, <2>1, <2>2
<1>4. b \in Seq(Slot) /\ Len(b) = u - n /\ \A k \in 1..(u - n) : b[k] = Raw
  <2>1. u - n \in Nat
    BY <1>1
  <2> QED BY <2>1, RawAre
<1>5. d \in Seq(Slot) /\ Len(d) = c - u /\ \A k \in 1..(c - u) : d[k] = x.slots[u + k]
  <2>1. /\ d \in Seq(Slot) /\ Len(d) = (IF u + 1 <= c THEN c - (u + 1) + 1 ELSE 0)
        /\ \A k \in 1..(c - (u + 1) + 1) : d[k] = x.slots[u + 1 + k - 1]
    <3>1. u + 1 \in Nat \ {0} /\ c \in Nat /\ c <= Len(x.slots)
      BY <1>1
    <3> QED BY <1>1, <3>1, Stretch
  <2>2. \A k \in 1..(c - u) : u + 1 + k - 1 = u + k
    BY <1>1
  <2> HIDE DEF d
  <2> QED BY <1>1, <2>1, <2>2
<1>6. less \in Seq(Elements) /\ Len(less) = n /\ \A k \in 1..n : less[k] = list[k]
  <2>1. /\ less \in Seq(Elements) /\ Len(less) = (IF 1 <= n THEN n - 1 + 1 ELSE 0)
        /\ \A k \in 1..(n - 1 + 1) : less[k] = list[1 + k - 1]
    <3>1. 1 \in Nat \ {0} /\ n \in Nat /\ n <= Len(list)
      BY <1>1
    <3> QED BY <1>1, <3>1, Stretch
  <2>2. \A k \in 1..n : 1 + k - 1 = k
    OBVIOUS
  <2> HIDE DEF less
  <2> QED BY <1>1, <2>1, <2>2
<1> HIDE DEF a, b, d, less
<1>7. /\ slots \in Seq(Slot) /\ Len(slots) = c
      /\ \A k \in 1..c : slots[k] = IF k <= n THEN a[k] ELSE IF k <= u THEN b[k - n] ELSE d[k - u]
  <2> DEFINE ab == a \o b
  <2>1. ab \in Seq(Slot) /\ Len(ab) = u /\ \A k \in 1..u : ab[k] = IF k <= n THEN a[k] ELSE b[k - n]
    <3>1. Joinable(Slot, a, b, n, u)
      BY <1>1, <1>3, <1>4 DEF Joinable
    <3> QED BY <3>1, Joined
  <2> HIDE DEF ab
  <2>2. /\ ab \o d \in Seq(Slot) /\ Len(ab \o d) = c
        /\ \A k \in 1..c : (ab \o d)[k] = IF k <= u THEN ab[k] ELSE d[k - u]
    <3>1. Joinable(Slot, ab, d, u, c)
      BY <1>1, <1>5, <2>1 DEF Joinable
    <3> QED BY <3>1, Joined
  <2>3. slots = ab \o d
    BY DEF ab
  <2> HIDE DEF slots
  <2>7. slots \in Seq(Slot) /\ Len(slots) = c /\ \A k \in 1..c : slots[k] = IF k <= u THEN ab[k] ELSE d[k - u]
    BY <2>2, <2>3
  <2> QED BY <1>1, <2>1, <2>7
<1> HIDE DEF slots, z
<1>8. IsVector(z) /\ z.inline = x.inline /\ z.slots = slots /\ z.used = n
  <2>1. IsVector(x) /\ slots \in Seq(Slot) /\ n \in Nat
    BY <1>1, <1>7
  <2>2. /\ IsVector(Changed(x, slots, n)) /\ Changed(x, slots, n).inline = x.inline
        /\ Changed(x, slots, n).slots = slots /\ Changed(x, slots, n).used = n
    BY <2>1, VectorChanged
  <2> QED BY <2>2 DEF z
<1>9. Cap(z) = c
  BY <1>7, <1>8 DEF Cap
<1>10. FitsInline(z)
  BY <1>1, <1>8, <1>9, Zenon DEF FitsInline, c
<1>11. \A k \in 1..n : slots[k] = less[k]
  <2> SUFFICES ASSUME NEW k \in 1..n PROVE slots[k] = less[k]
    OBVIOUS
  <2>1. k \in 1..c /\ k <= n /\ k \in 1..Len(list)
    BY <1>1
  <2>2. slots[k] = x.slots[k]
    BY <1>3, <1>7, <2>1
  <2> QED BY <1>6, <2>1, <2>2 DEF Holds
<1>12. Holds(z, less)
  BY <1>1, <1>6, <1>7, <1>8, <1>9, <1>10, <1>11 DEF Holds, Shaped
<1>13. ASSUME Clean(x) PROVE Clean(z)
  <2> SUFFICES ASSUME NEW k \in (n + 1)..c PROVE slots[k] = Raw
    BY <1>8, <1>9 DEF Clean
  <2>1. k \in 1..c /\ ~(k <= n)
    BY <1>1
  <2>2. CASE k <= u
    <3>1. k - n \in 1..(u - n)
      BY <1>1, <2>1, <2>2
    <3> QED BY <1>4, <1>7, <2>1, <2>2, <3>1
  <2>3. CASE ~(k <= u)
    <3>1. k - u \in 1..(c - u) /\ u + (k - u) = k /\ k \in (u + 1)..c
      BY <1>1, <2>1, <2>3
    <3>2. x.slots[k] = Raw
      BY <1>13, <3>1 DEF Clean, u, c
    <3> QED BY <1>5, <1>7, <2>1, <2>3, <3>1, <3>2
  <2> QED BY <2>2, <2>3
<1> QED BY <1>2, <1>12, <1>13 DEF less

(* A list pushed to a vector that holds none. *)
LEMMA LoadedHolds ==
  ASSUME NEW x, Holds(x, << >>), NEW list \in Seq(Elements)
  PROVE  /\ Holds(Loaded(x, list), list)
         /\ Clean(x) => Clean(Loaded(x, list))
<1> DEFINE y == Roomy(x, Len(list))
<1>1. Len(list) \in Nat /\ Len(<< >>) = 0
  OBVIOUS
<1>2. Holds(y, << >>) /\ Len(list) <= Cap(y) /\ y.used = x.used /\ (Clean(x) => Clean(y))
  BY <1>1, RoomyHolds
<1> HIDE DEF y
<1>3. IsVector(y) /\ y.slots \in Seq(Slot) /\ FitsInline(y) /\ y.used = 0 /\ Cap(y) \in Nat
  BY <1>1, <1>2, HoldsMeans
<1> DEFINE z == [y EXCEPT !.slots = list \o SubSeq(@, Len(list) + 1, Cap(y)), !.used = Len(list)]
<1>4. Holds(z, list) /\ ((\A k \in (Len(list) + 1)..Cap(y) : y.slots[k] = Raw) => Clean(z))
  BY <1>2, <1>3, LaidOut
<1>5. Loaded(x, list) = z
  BY DEF Loaded, y
<1> HIDE DEF z
<1>6. Clean(y) => Clean(z)
  <2>1. \A k \in (Len(list) + 1)..Cap(y) : k \in (0 + 1)..Cap(y)
    BY <1>1, <1>3
  <2> QED BY <1>3, <1>4, <2>1 DEF Clean
<1> QED BY <1>2, <1>4, <1>5, <1>6

(* The slots after an erasure: h of the n erased ones keep a hollow object. *)
ErasedSlots(x, f, l, h) ==
    SubSeq(x.slots, 1, f - 1) \o SubSeq(x.slots, l, x.used) \o RawSlots(l - f - h)
      \o [k \in 1..h |-> Hollow] \o SubSeq(x.slots, x.used + 1, Cap(x))

ErasedList(list, f, l) == SubSeq(list, 1, f - 1) \o SubSeq(list, l, Len(list))

(* Of u elements those from f up to l go: p stay where they are, m stay, and *)
(* the e first slots hold no hollow object.                                *)
CutsOut(u, f, l, h, p, m, e) ==
    /\ f \in Nat \ {0} /\ l \in Nat /\ u \in Nat /\ h \in Nat /\ m \in Int /\ p \in Int /\ e \in Int
    /\ f < l /\ l <= u + 1 /\ h <= l - f
    /\ p = f - 1 /\ m = p + (u - l + 1) /\ e = m + (l - f - h)

LEMMA ErasedCounts ==
  ASSUME NEW u, NEW f, NEW l, NEW h, NEW p, NEW m, NEW e, CutsOut(u, f, l, h, p, m, e)
  PROVE  /\ p \in Nat /\ m \in Nat /\ e \in Nat /\ l \in Nat \ {0}
         /\ p <= u /\ p <= m /\ m <= e /\ e <= u /\ m <= u
         /\ m - p = u - l + 1 /\ e - m = l - f - h /\ l - f - h \in Nat /\ u - e = h
BY DEF CutsOut

Changeable(x, s, u) == IsVector(x) /\ s \in Seq(Slot) /\ u \in Nat

LEMMA ChangedIs ==
  ASSUME NEW x, NEW s, NEW u, Changeable(x, s, u)
  PROVE  /\ IsVector(Changed(x, s, u)) /\ Changed(x, s, u).inline = x.inline
         /\ Changed(x, s, u).slots = s /\ Changed(x, s, u).used = u
BY VectorChanged DEF Changeable

(* The n values of s from a up to b. *)
Within(T, s, a, b, n) ==
    s \in Seq(T) /\ a \in Nat \ {0} /\ b \in Nat /\ n \in Nat /\ n = b - a + 1 /\ b <= Len(s)

LEMMA StretchOf ==
  ASSUME NEW T, NEW s, NEW a, NEW b, NEW n, Within(T, s, a, b, n)
  PROVE  /\ SubSeq(s, a, b) \in Seq(T) /\ Len(SubSeq(s, a, b)) = n
         /\ \A k \in 1..n : SubSeq(s, a, b)[k] = s[a + k - 1]
<1>1. s \in Seq(T) /\ a \in Nat \ {0} /\ b \in Nat /\ n \in Nat /\ n = b - a + 1 /\ b <= Len(s)
  BY DEF Within
<1>2. n = IF a <= b THEN b - a + 1 ELSE 0
  BY <1>1
<1>3. /\ SubSeq(s, a, b) \in Seq(T)
      /\ Len(SubSeq(s, a, b)) = IF a <= b THEN b - a + 1 ELSE 0
      /\ \A k \in 1..(b - a + 1) : SubSeq(s, a, b)[k] = s[a + k - 1]
  BY <1>1, Stretch
<1> QED BY <1>1, <1>2, <1>3

(* Five lists one behind the other. *)
Five(T, a, b, r, o, d, p, m, e, u, c) ==
    /\ p \in Nat /\ m \in Nat /\ e \in Nat /\ u \in Nat /\ c \in Nat
    /\ p <= m /\ m <= e /\ e <= u /\ u <= c
    /\ a \in Seq(T) /\ b \in Seq(T) /\ r \in Seq(T) /\ o \in Seq(T) /\ d \in Seq(T)
    /\ Len(a) = p /\ Len(b) = m - p /\ Len(r) = e - m /\ Len(o) = u - e /\ Len(d) = c - u

InARow(s, T, a, b, r, o, d, p, m, e, u, c) ==
    /\ s \in Seq(T) /\ Len(s) = c
    /\ \A k \in 1..c : s[k] = IF k <= p THEN a[k] ELSE IF k <= m THEN b[k - p]
                              ELSE IF k <= e THEN r[k - m] ELSE IF k <= u THEN o[k - e]
                              ELSE d[k - u]

LEMMA FiveInARow ==
  ASSUME NEW T, NEW a, NEW b, NEW r, NEW o, NEW d, NEW p, NEW m, NEW e, NEW u, NEW c,
         Five(T, a, b, r, o, d, p, m, e, u, c)
  PROVE  InARow(a \o b \o r \o o \o d, T, a, b, r, o, d, p, m, e, u, c)
<1> DEFINE s1 == a \o b
           s2 == s1 \o r
           s3 == s2 \o o
           s4 == s3 \o d
<1>1. s1 \in Seq(T) /\ Len(s1) = m /\ \A k \in 1..m : s1[k] = IF k <= p THEN a[k] ELSE b[k - p]
  <2>1. Joinable(T, a, b, p, m)
    BY DEF Joinable, Five
  <2> QED BY <2>1, Joined
<1> HIDE DEF s1
<1>2. s2 \in Seq(T) /\ Len(s2) = e /\ \A k \in 1..e : s2[k] = IF k <= m THEN s1[k] ELSE r[k - m]
  <2>1. Joinable(T, s1, r, m, e)
    BY <1>1 DEF Joinable, Five
  <2> QED BY <2>1, Joined
<1> HIDE DEF s2
<1>3. s3 \in Seq(T) /\ Len(s3) = u /\ \A k \in 1..u : s3[k] = IF k <= e THEN s2[k] ELSE o[k - e]
  <2>1. Joinable(T, s2, o, e, u)
    BY <1>2 DEF Joinable, Five
  <2> QED BY <2>1, Joined
<1> HIDE DEF s3
<1>4. s4 \in Seq(T) /\ Len(s4) = c /\ \A k \in 1..c : s4[k] = IF k <= u THEN s3[k] ELSE d[k - u]
  <2>1. Joinable(T, s3, d, u, c)
    BY <1>3 DEF Joinable, Five
  <2> QED BY <2>1, Joined
<1> HIDE DEF s4
<1>5. ASSUME NEW k \in 1..c
      PROVE  s4[k] = IF k <= p THEN a[k] ELSE IF k <= m THEN b[k - p]
                     ELSE IF k <= e THEN r[k - m] ELSE IF k <= u THEN o[k - e] ELSE d[k - u]
  <2>1. (k <= u => k \in 1..u) /\ (k <= e => k \in 1..e) /\ (k <= m => k \in 1..m)
        /\ (k <= p => k <= m) /\ (k <= m => k <= e) /\ (k <= e => k <= u)
    BY DEF Five
  <2> QED BY <1>1, <1>2, <1>3, <1>4, <2>1
<1>6. s4 = a \o b \o r \o o \o d
  BY DEF s1, s2, s3, s4
<1>7. InARow(s4, T, a, b, r, o, d, p, m, e, u, c)
  BY <1>4, <1>5 DEF InARow
<1> QED BY <1>6, <1>7

(* What an erasure leaves in the slots. *)
Sized(x, u, c) ==
    /\ x.slots \in Seq(Slot) /\ u \in Nat /\ c \in Nat /\ x.used = u /\ Cap(x) = c /\ Len(x.slots) = c
    /\ u <= c

Erased(s, x, u, c, l, p, m, e) ==
    /\ s \in Seq(Slot) /\ Len(s) = c
    /\ \A k \in 1..p : s[k] = x.slots[k]
    /\ \A k \in 1..c : k > p /\ k <= m => s[k] = x.slots[l + (k - p) - 1]
    /\ \A k \in 1..c : k > m /\ k <= e => s[k] = Raw
    /\ \A k \in 1..c : k > u => s[k] = x.slots[k]

LEMMA ErasedSlotsAre ==
  ASSUME NEW x, NEW u, NEW c, NEW f, NEW l, NEW h, NEW p, NEW m, NEW e, Sized(x, u, c),
         CutsOut(u, f, l, h, p, m, e)
  PROVE  Erased(ErasedSlots(x, f, l, h), x, u, c, l, p, m, e)
<1> DEFINE s == ErasedSlots(x, f, l, h)
           a == SubSeq(x.slots, 1, p)
           b == SubSeq(x.slots, l, u)
           r == RawSlots(l - f - h)
           o == [k \in 1..h |-> Hollow]
           d == SubSeq(x.slots, u + 1, c)
<1>1. /\ p \in Nat /\ m \in Nat /\ e \in Nat /\ l \in Nat \ {0}
      /\ p <= u /\ p <= m /\ m <= e /\ e <= u /\ m <= u
      /\ m - p = u - l + 1 /\ e - m = l - f - h /\ l - f - h \in Nat /\ u - e = h
  BY ErasedCounts
<1>2. /\ x.slots \in Seq(Slot) /\ u \in Nat /\ c \in Nat /\ x.used = u /\ Cap(x) = c /\ Len(x.slots) = c
      /\ u <= c /\ h \in Nat
  BY DEF Sized, CutsOut
<1>3. s = a \o b \o r \o o \o d
  BY <1>2 DEF ErasedSlots, CutsOut
<1> HIDE DEF s
<1>4. a \in Seq(Slot) /\ Len(a) = p /\ \A k \in 1..p : a[k] = x.slots[1 + k - 1]
  <2>1. p = p - 1 + 1 /\ p <= Len(x.slots) /\ 1 \in Nat \ {0}
    BY <1>2, <1>1
  <2> DEFINE g == 1
  <2>2. Within(Slot, x.slots, g, p, p)
    BY <1>2, <1>1, <2>1 DEF Within
  <2> HIDE DEF g
  <2>3. /\ SubSeq(x.slots, g, p) \in Seq(Slot) /\ Len(SubSeq(x.slots, g, p)) = p
        /\ \A k \in 1..p : SubSeq(x.slots, g, p)[k] = x.slots[g + k - 1]
    BY <2>2, StretchOf
  <2> QED BY <2>3 DEF g
<1>5. b \in Seq(Slot) /\ Len(b) = m - p /\ \A k \in 1..(m - p) : b[k] = x.slots[l + k - 1]
  <2> DEFINE n == m - p
  <2>1. n \in Nat /\ n = u - l + 1 /\ u <= Len(x.slots) /\ l \in Nat \ {0}
    BY <1>2, <1>1
  <2> HIDE DEF n
  <2>2. b \in Seq(Slot) /\ Len(b) = n /\ \A k \in 1..n : b[k] = x.slots[l + k - 1]
    <3>1. Within(Slot, x.slots, l, u, n)
      BY <1>2, <2>1 DEF Within
    <3> QED BY <3>1, StretchOf
  <2> HIDE DEF b
  <2> QED BY <2>2 DEF n
<1>6. r \in Seq(Slot) /\ Len(r) = e - m /\ \A k \in 1..(e - m) : r[k] = Raw
  <2> DEFINE n == l - f - h
  <2>1. n \in Nat /\ n = e - m
    BY <1>1
  <2> HIDE DEF n
  <2>2. RawSlots(n) \in Seq(Slot) /\ Len(RawSlots(n)) = n /\ \A k \in 1..n : RawSlots(n)[k] = Raw
    BY <2>1, RawAre
  <2> QED BY <2>1, <2>2 DEF n
<1>7. o \in Seq(Slot) /\ Len(o) = u - e
  BY <1>2, <1>1 DEF Slot
<1>8. d \in Seq(Slot) /\ Len(d) = c - u /\ \A k \in 1..(c - u) : d[k] = x.slots[u + 1 + k - 1]
  <2> DEFINE n == c - u
             g == u + 1
  <2>1. n \in Nat /\ n = c - g + 1 /\ c <= Len(x.slots) /\ g \in Nat \ {0}
    BY <1>2
  <2> HIDE DEF n, g
  <2>2. SubSeq(x.slots, g, c) \in Seq(Slot) /\ Len(SubSeq(x.slots, g, c)) = n
        /\ \A k \in 1..n : SubSeq(x.slots, g, c)[k] = x.slots[g + k - 1]
    <3>1. Within(Slot, x.slots, g, c, n)
      BY <1>2, <2>1 DEF Within
    <3> QED BY <3>1, StretchOf
  <2> QED BY <2>2 DEF n, g
<1> HIDE DEF a, b, r, o, d
<1>9. /\ s \in Seq(Slot) /\ Len(s) = c
      /\ \A k \in 1..c : s[k] = IF k <= p THEN a[k] ELSE IF k <= m THEN b[k - p]
                                ELSE IF k <= e THEN r[k - m] ELSE IF k <= u THEN o[k - e]
                                ELSE d[k - u]
  <2>1. Five(Slot, a, b, r, o, d, p, m, e, u, c)
    BY <1>2, <1>1, <1>4, <1>5, <1>6, <1>7, <1>8 DEF Five
  <2> DEFINE t == a \o b \o r \o o \o d
  <2>2. InARow(t, Slot, a, b, r, o, d, p, m, e, u, c)
    BY <2>1, FiveInARow
  <2> HIDE DEF t
  <2>3. s = t
    BY <1>3 DEF t
  <2> QED BY <2>2, <2>3 DEF InARow
<1>10. \A k \in 1..p : s[k] = x.slots[k]
  <2>1. \A k \in 1..p : k \in 1..c /\ k <= p /\ 1 + k - 1 = k
    BY <1>2, <1>1
  <2> QED BY <1>4, <1>9, <2>1
<1>11. \A k \in 1..c : k > p /\ k <= m => s[k] = x.slots[l + (k - p) - 1]
  <2>1. \A k \in 1..c : k > p /\ k <= m => ~(k <= p) /\ k - p \in 1..(m - p)
    BY <1>2, <1>1
  <2> QED BY <1>5, <1>9, <2>1
<1>12. \A k \in 1..c : k > m /\ k <= e => s[k] = Raw
  <2>1. \A k \in 1..c : k > m /\ k <= e => ~(k <= p) /\ ~(k <= m) /\ k - m \in 1..(e - m)
    BY <1>2, <1>1
  <2> QED BY <1>6, <1>9, <2>1
<1>13. \A k \in 1..c : k > u => s[k] = x.slots[k]
  <2>1. \A k \in 1..c : k > u => ~(k <= p) /\ ~(k <= m) /\ ~(k <= e) /\ ~(k <= u)
                                /\ k - u \in 1..(c - u) /\ u + 1 + (k - u) - 1 = k
    BY <1>2, <1>1
  <2> QED BY <1>8, <1>9, <2>1
<1>14. Erased(s, x, u, c, l, p, m, e)
  BY <1>9, <1>10, <1>11, <1>12, <1>13 DEF Erased
<1> QED BY <1>14 DEF s

LEMMA ErasedListIs ==
  ASSUME NEW list \in Seq(Elements), NEW u, NEW f, NEW l, NEW h, NEW p, NEW m, NEW e,
         CutsOut(u, f, l, h, p, m, e), Len(list) = u
  PROVE  LET s == ErasedList(list, f, l) IN
         /\ s \in Seq(Elements) /\ Len(s) = m
         /\ \A k \in 1..p : s[k] = list[k]
         /\ \A k \in 1..m : k > p => s[k] = list[l + (k - p) - 1]
<1> DEFINE s == ErasedList(list, f, l)
           a == SubSeq(list, 1, p)
           b == SubSeq(list, l, u)
<1>1. /\ p \in Nat /\ m \in Nat /\ u \in Nat /\ l \in Nat \ {0} /\ p <= u /\ p <= m
      /\ m - p = u - l + 1 /\ p = f - 1
  BY ErasedCounts DEF CutsOut
<1>2. s = a \o b
  BY <1>1 DEF ErasedList
<1> HIDE DEF s
<1>3. a \in Seq(Elements) /\ Len(a) = p /\ \A k \in 1..p : a[k] = list[1 + k - 1]
  <2>1. p = p - 1 + 1 /\ p <= Len(list) /\ 1 \in Nat \ {0}
    BY <1>1
  <2> DEFINE g == 1
  <2>2. Within(Elements, list, g, p, p)
    BY <1>1, <2>1 DEF Within
  <2> HIDE DEF g
  <2>3. /\ SubSeq(list, g, p) \in Seq(Elements) /\ Len(SubSeq(list, g, p)) = p
        /\ \A k \in 1..p : SubSeq(list, g, p)[k] = list[g + k - 1]
    BY <2>2, StretchOf
  <2> QED BY <2>3 DEF g
<1>4. b \in Seq(Elements) /\ Len(b) = m - p /\ \A k \in 1..(m - p) : b[k] = list[l + k - 1]
  <2> DEFINE n == m - p
  <2>1. n \in Nat /\ n = u - l + 1 /\ u <= Len(list)
    BY <1>1
  <2> HIDE DEF n
  <2>2. b \in Seq(Elements) /\ Len(b) = n /\ \A k \in 1..n : b[k] = list[l + k - 1]
    <3>1. Within(Elements, list, l, u, n)
      BY <1>1, <2>1 DEF Within
    <3> QED BY <3>1, StretchOf
  <2> HIDE DEF b
  <2> QED BY <2>2 DEF n
<1> HIDE DEF a, b
<1>5. s \in Seq(Elements) /\ Len(s) = m /\ \A k \in 1..m : s[k] = IF k <= p THEN a[k] ELSE b[k - p]
  <2>1. Joinable(Elements, a, b, p, m)
    BY <1>1, <1>3, <1>4 DEF Joinable
  <2> DEFINE t == a \o b
  <2>2. t \in Seq(Elements) /\ Len(t) = m /\ \A k \in 1..m : t[k] = IF k <= p THEN a[k] ELSE b[k - p]
    BY <2>1, Joined
  <2> HIDE DEF t
  <2>3. s = t
    BY <1>2 DEF t
  <2> QED BY <2>2, <2>3
<1>6. \A k \in 1..p : s[k] = list[k]
  <2>1. \A k \in 1..p : k \in 1..m /\ k <= p /\ 1 + k - 1 = k
    BY <1>1
  <2> QED BY <1>3, <1>5, <2>1
<1>7. \A k \in 1..m : k > p => s[k] = list[l + (k - p) - 1]
  <2>1. \A k \in 1..m : k > p => ~(k <= p) /\ k - p \in 1..(m - p)
    BY <1>1
  <2> QED BY <1>4, <1>5, <2>1
<1> QED BY <1>5, <1>6, <1>7 DEF s

LEMMA ErasedHolds ==
  ASSUME NEW x, NEW list, Holds(x, list), NEW f \in Nat \ {0}, NEW l \in Nat, f < l, l <= x.used + 1,
         NEW h \in Nat, h <= l - f, NEW m, m = f - 1 + (x.used - l + 1)
  PROVE  /\ Holds(Changed(x, ErasedSlots(x, f, l, h), m), ErasedList(list, f, l))
         /\ h = 0 /\ Clean(x) => Clean(Changed(x, ErasedSlots(x, f, l, h), m))
<1> DEFINE u == x.used
           c == Cap(x)
           p == f - 1
           e == m + (l - f - h)
           slots == ErasedSlots(x, f, l, h)
           less == ErasedList(list, f, l)
           z == Changed(x, slots, m)
<1>1. /\ IsVector(x) /\ FitsInline(x) /\ x.slots \in Seq(Slot) /\ list \in Seq(Elements)
      /\ u \in Nat /\ c \in Nat /\ u <= c /\ u = Len(list) /\ c = Len(x.slots)
  BY HoldsMeans
<1>2. x.used = u /\ Cap(x) = c
  OBVIOUS
<1> HIDE DEF u, c
<1>3. l <= u + 1 /\ m = p + (u - l + 1)
  BY DEF u
<1>4. m \in Int /\ p \in Int /\ p = f - 1 /\ e \in Int /\ e = m + (l - f - h)
  <2>1. p \in Int
    OBVIOUS
  <2>2. m \in Int
    BY <1>1, <1>3, <2>1
  <2> QED BY <2>1, <2>2
<1> HIDE DEF p, e
<1>5. CutsOut(u, f, l, h, p, m, e) /\ Sized(x, u, c)
  BY <1>1, <1>2, <1>3, <1>4 DEF CutsOut, Sized
<1>6. /\ p \in Nat /\ m \in Nat /\ e \in Nat /\ l \in Nat \ {0} /\ m - p = u - l + 1
      /\ p <= u /\ p <= m /\ m <= e /\ e <= u /\ m <= u /\ u - e = h
  BY <1>5, ErasedCounts
<1>7. Erased(slots, x, u, c, l, p, m, e)
  BY <1>5, ErasedSlotsAre
<1>8. /\ less \in Seq(Elements) /\ Len(less) = m
      /\ \A k \in 1..p : less[k] = list[k]
      /\ \A k \in 1..m : k > p => less[k] = list[l + (k - p) - 1]
  BY <1>1, <1>5, ErasedListIs
<1> HIDE DEF slots, less, z
<1>9. /\ slots \in Seq(Slot) /\ Len(slots) = c
      /\ \A k \in 1..p : slots[k] = x.slots[k]
      /\ \A k \in 1..c : k > p /\ k <= m => slots[k] = x.slots[l + (k - p) - 1]
      /\ \A k \in 1..c : k > m /\ k <= e => slots[k] = Raw
      /\ \A k \in 1..c : k > u => slots[k] = x.slots[k]
  BY <1>7 DEF Erased
<1>10. IsVector(z) /\ z.inline = x.inline /\ z.slots = slots /\ z.used = m
  <2>1. IsVector(x) /\ slots \in Seq(Slot) /\ m \in Nat
    BY <1>1, <1>6, <1>9
  <2>2. /\ IsVector(Changed(x, slots, m)) /\ Changed(x, slots, m).inline = x.inline
        /\ Changed(x, slots, m).slots = slots /\ Changed(x, slots, m).used = m
    <3>1. Changeable(x, slots, m)
      BY <2>1 DEF Changeable
    <3> QED BY <3>1, ChangedIs
  <2> QED BY <2>2 DEF z
<1>11. Cap(z) = c
  BY <1>9, <1>10 DEF Cap
<1>12. FitsInline(z)
  BY <1>1, <1>10, <1>11, Zenon DEF FitsInline, c
<1>13. ASSUME NEW k \in 1..m PROVE slots[k] = less[k]
  <2>1. \A j \in 1..u : x.slots[j] = list[j]
    BY <1>1 DEF Holds
  <2>2. CASE k <= p
    <3>1. k \in 1..p /\ k \in 1..u
      BY <1>1, <1>6, <2>2
    <3> QED BY <1>9, <1>8, <2>1, <3>1
  <2>3. CASE ~(k <= p)
    <3>1. k \in Nat /\ k > p /\ k <= m /\ m <= c
      BY <1>1, <1>6, <2>3
    <3>0. k \in 1..c /\ l + (k - p) - 1 \in 1..u
      BY <1>1, <1>6, <3>1
    <3> QED BY <1>9, <1>8, <2>1, <3>0, <3>1
  <2> QED BY <2>2, <2>3
<1>14. Holds(z, less)
  <2>1. m <= Cap(z)
    BY <1>1, <1>6, <1>11
  <2> QED BY <1>6, <1>9, <1>8, <1>10, <1>12, <1>13, <2>1 DEF Holds, Shaped
<1>15. ASSUME h = 0, Clean(x) PROVE Clean(z)
  <2> SUFFICES ASSUME NEW k \in (m + 1)..c PROVE slots[k] = Raw
    BY <1>10, <1>11 DEF Clean
  <2>1. k \in 1..c /\ k > m /\ e = u
    BY <1>1, <1>6, <1>15
  <2>2. CASE k <= u
    BY <1>9, <2>1, <2>2
  <2>3. CASE ~(k <= u)
    <3>1. k > u /\ k \in (u + 1)..c
      BY <1>1, <2>1, <2>3
    <3> QED BY <1>9, <1>15, <2>1, <3>1 DEF Clean, u, c
  <2> QED BY <2>2, <2>3
<1> QED BY <1>14, <1>15 DEF z, slots, less

(* A vector that holds nothing. *)
LEMMA EmptyHolds == Holds(EmptyVector, << >>) /\ Clean(EmptyVector)
<1> DEFINE s == RawSlots(InlineN)
<1>1. InlineN \in Nat
  BY VectorAssumption
<1>2. s \in Seq(Slot) /\ Len(s) = InlineN /\ \A k \in 1..InlineN : s[k] = Raw
  BY <1>1, RawAre
<1> HIDE DEF s
<1>3. EmptyVector = [inline |-> TRUE, slots |-> s, used |-> 0]
  BY DEF EmptyVector, s
<1>4. IsVector(EmptyVector)
  BY <1>2, <1>3, IsVectorIf
<1>5. EmptyVector.slots = s /\ EmptyVector.used = 0 /\ Cap(EmptyVector) = InlineN
  BY <1>2, <1>3 DEF Cap
<1>6. FitsInline(EmptyVector)
  BY <1>5 DEF FitsInline
<1>7. << >> \in Seq(Elements) /\ Len(<< >>) = 0
  OBVIOUS
<1>8. Holds(EmptyVector, << >>)
  BY <1>1, <1>2, <1>4, <1>5, <1>6, <1>7 DEF Holds, Shaped
<1>9. Clean(EmptyVector)
  BY <1>1, <1>2, <1>5 DEF Clean
<1> QED BY <1>8, <1>9

LEMMA EmptiedHolds ==
  ASSUME NEW x, NEW list, Holds(x, list)
  PROVE  Holds(Cropped(x, 0), << >>) /\ (Clean(x) => Clean(Cropped(x, 0)))
<1>1. 0 \in 0..Len(list) /\ list \in Seq(Elements)
  BY HoldsMeans
<1>2. Holds(Cropped(x, 0), SubSeq(list, 1, 0)) /\ (Clean(x) => Clean(Cropped(x, 0)))
  BY <1>1, CroppedHolds
<1>3. SubSeq(list, 1, 0) = << >>
  BY <1>1
<1> QED BY <1>2, <1>3

(* resize to more *)
LEMMA ResizedHolds ==
  ASSUME NEW x, NEW list, Holds(x, list), NEW n \in Nat, n > x.used
  PROVE  LET new == [k \in 1..(n - x.used) |-> Fresh]
             z == Loaded([Roomy(x, n) EXCEPT !.used = n], Held(x) \o new) IN
         Holds(z, list \o new) /\ (Clean(x) => Clean(z))
<1> DEFINE u == x.used
           y == Roomy(x, n)
           new == [k \in 1..(n - u) |-> Fresh]
           more == list \o new
           w == [y EXCEPT !.used = n]
           z == [w EXCEPT !.slots = more \o SubSeq(@, Len(more) + 1, Cap(w)), !.used = Len(more)]
<1>1. list \in Seq(Elements) /\ u = Len(list) /\ u \in Nat
  BY HoldsMeans
<1>2. Holds(y, list) /\ n <= Cap(y) /\ y.used = u /\ (Clean(x) => Clean(y))
  BY RoomyHolds
<1>3. u < n
  BY <1>1
<1> HIDE DEF u, y
<1>4. IsVector(y) /\ FitsInline(y) /\ y.slots \in Seq(Slot) /\ Cap(y) \in Nat
  BY <1>2, HoldsMeans
<1>5. more \in Seq(Elements) /\ Len(more) = n
  <2>1. new \in Seq(Elements) /\ Len(new) = n - u
    BY <1>1, <1>3, VectorAssumption
  <2> HIDE DEF new
  <2>2. Joinable(Elements, list, new, u, n)
    BY <1>1, <1>3, <2>1 DEF Joinable
  <2> QED BY <2>2, Joined
<1> HIDE DEF more
<1>6. IsVector(w) /\ w.inline = y.inline /\ w.slots = y.slots /\ w.used = n
  <2> DEFINE s == y.slots
  <2>1. Changeable(y, s, n)
    BY <1>4 DEF Changeable
  <2>2. /\ IsVector(Changed(y, s, n)) /\ Changed(y, s, n).inline = y.inline
        /\ Changed(y, s, n).slots = s /\ Changed(y, s, n).used = n
    BY <2>1, ChangedIs
  <2>3. w = Changed(y, s, n)
    BY <1>4 DEF Changed, IsVector
  <2> HIDE DEF w
  <2> QED BY <2>2, <2>3
<1> HIDE DEF w
<1>7. Cap(w) = Cap(y)
  BY <1>6 DEF Cap
<1>8. FitsInline(w)
  BY <1>4, <1>6, <1>7, Zenon DEF FitsInline
<1>9. Roomy(w, Len(more)) = w
  BY <1>2, <1>4, <1>5, <1>7 DEF Roomy
<1>10. Loaded(w, more) = z
  BY <1>9 DEF Loaded
<1>11. Holds(z, more) /\ ((\A k \in (Len(more) + 1)..Cap(w) : w.slots[k] = Raw) => Clean(z))
  <2>1. IsVector(w) /\ w.slots \in Seq(Slot) /\ FitsInline(w) /\ more \in Seq(Elements) /\ Len(more) <= Cap(w)
    BY <1>2, <1>4, <1>5, <1>6, <1>7, <1>8
  <2> QED BY <2>1, LaidOut
<1> HIDE DEF z
<1>12. Clean(y) => Clean(z)
  <2>1. \A k \in (n + 1)..Cap(y) : k \in (u + 1)..Cap(y)
    BY <1>1, <1>3, <1>4
  <2> QED BY <1>2, <1>5, <1>6, <1>7, <1>11, <2>1 DEF Clean
<1>13. Held(x) = list
  BY HeldAre
<1> QED BY <1>2, <1>10, <1>11, <1>12, <1>13 DEF u, y, w, more

LEMMA VectorInvHoldsFirst == ContainersInit => VectorInv
<1> SUFFICES ASSUME ContainersInit PROVE VectorInv
  OBVIOUS
<1>1. vector = [v \in Vectors |-> EmptyVector] /\ meant = [v \in Vectors |-> << >>]
  BY DEF ContainersInit, VectorInit
<1> DEFINE empty == EmptyVector
<1>2. Holds(empty, << >>) /\ Clean(empty)
  BY EmptyHolds
<1> HIDE DEF empty
<1>3. \A v \in Vectors : vector[v] = empty /\ meant[v] = << >>
  BY <1>1 DEF empty
<1>4. DOMAIN vector = Vectors /\ DOMAIN meant = Vectors
  BY <1>1
<1> QED BY <1>2, <1>3, <1>4 DEF VectorInv

(* One vector changes to one that holds the list meant. *)
LEMMA BecomesKeeps ==
  ASSUME VectorInv, NEW v \in Vectors, NEW x, NEW list, Becomes(v, x, list), Holds(x, list),
         torn \subseteq torn', v \notin torn' => Clean(x)
  PROVE  VectorInv'
<1>1. vector' = [vector EXCEPT ![v] = x] /\ meant' = [meant EXCEPT ![v] = list]
  BY DEF Becomes
<1>2. DOMAIN vector' = Vectors /\ DOMAIN meant' = Vectors /\ vector'[v] = x /\ meant'[v] = list
  BY <1>1 DEF VectorInv
<1>3. \A w \in Vectors \ {v} : vector'[w] = vector[w] /\ meant'[w] = meant[w]
  BY <1>1 DEF VectorInv
<1>4. ASSUME NEW w \in Vectors
      PROVE  Holds(vector'[w], meant'[w]) /\ (w \notin torn' => Clean(vector'[w]))
  <2>1. CASE w = v
    BY <1>2, <2>1
  <2>2. CASE w # v
    <3>1. Holds(vector[w], meant[w]) /\ (w \notin torn => Clean(vector[w]))
      BY DEF VectorInv
    <3>2. vector'[w] = vector[w] /\ meant'[w] = meant[w]
      BY <1>3, <2>2
    <3> QED BY <3>1, <3>2
  <2> QED BY <2>1, <2>2
<1> QED BY <1>2, <1>4 DEF VectorInv

LEMMA OneVector ==
  ASSUME VectorInv, NEW v \in Vectors
  PROVE  Holds(vector[v], meant[v]) /\ (v \notin torn => Clean(vector[v]))
BY DEF VectorInv

LEMMA PushBackKeeps ==
  ASSUME VectorInv, NEW v \in Vectors, NEW e \in Elements, PushBackElement(v, e) PROVE VectorInv'
<1> DEFINE x == vector[v]
           list == meant[v]
           y == Pushed(x, e)
           more == Append(list, e)
<1>1. Becomes(v, y, more) /\ torn' = torn
  BY DEF PushBackElement
<1>2. Holds(x, list) /\ (v \notin torn => Clean(x))
  BY OneVector
<1> HIDE DEF x, list
<1>3. Holds(y, more) /\ (Clean(x) => Clean(y))
  BY <1>2, PushedHolds
<1> HIDE DEF y, more
<1> QED BY <1>1, <1>2, <1>3, BecomesKeeps

LEMMA PopBackKeeps ==
  ASSUME VectorInv, NEW v \in Vectors, PopBackElement(v) PROVE VectorInv'
<1> DEFINE x == vector[v]
           list == meant[v]
           n == Len(list) - 1
           y == Cropped(x, n)
           less == SubSeq(list, 1, n)
<1>1. Holds(x, list) /\ (v \notin torn => Clean(x))
  BY OneVector
<1>2. x.used = Len(list) /\ Len(list) \in Nat
  BY <1>1, HoldsMeans
<1>3. Becomes(v, y, less) /\ torn' = torn /\ Len(list) > 0
  BY <1>2 DEF PopBackElement
<1>4. n \in 0..Len(list)
  BY <1>2, <1>3
<1> HIDE DEF x, list, n
<1>5. Holds(y, less) /\ (Clean(x) => Clean(y))
  BY <1>1, <1>4, CroppedHolds
<1> HIDE DEF y, less
<1> QED BY <1>1, <1>3, <1>5, BecomesKeeps

LEMMA ReserveKeeps ==
  ASSUME VectorInv, NEW v \in Vectors, NEW n \in Nat, Reserve(v, n) PROVE VectorInv'
<1> DEFINE x == vector[v]
           list == meant[v]
           y == Roomy(x, n)
<1>1. Becomes(v, y, list) /\ torn' = torn
  BY DEF Reserve
<1>2. Holds(x, list) /\ (v \notin torn => Clean(x))
  BY OneVector
<1> HIDE DEF x, list
<1>3. Holds(y, list) /\ (Clean(x) => Clean(y))
  BY <1>2, RoomyHolds
<1> HIDE DEF y
<1> QED BY <1>1, <1>2, <1>3, BecomesKeeps

LEMMA ResizeKeeps ==
  ASSUME VectorInv, NEW v \in Vectors, NEW n \in Nat, ResizeVector(v, n) PROVE VectorInv'
<1> DEFINE x == vector[v]
           list == meant[v]
<1>1. Holds(x, list) /\ (v \notin torn => Clean(x))
  BY OneVector
<1>2. x.used = Len(list) /\ Len(list) \in Nat
  BY <1>1, HoldsMeans
<1>3. CASE n <= x.used
  <2> DEFINE y == Cropped(x, n)
             less == SubSeq(list, 1, n)
  <2>1. Becomes(v, y, less) /\ torn' = torn
    BY <1>3 DEF ResizeVector
  <2>2. n \in 0..Len(list)
    BY <1>2, <1>3
  <2> HIDE DEF x, list
  <2>3. Holds(y, less) /\ (Clean(x) => Clean(y))
    BY <1>1, <2>2, CroppedHolds
  <2> HIDE DEF y, less
  <2> QED BY <1>1, <2>1, <2>3, BecomesKeeps
<1>4. CASE ~(n <= x.used)
  <2> DEFINE new == [k \in 1..(n - x.used) |-> Fresh]
             y == Loaded([Roomy(x, n) EXCEPT !.used = n], Held(x) \o new)
             more == list \o new
  <2>1. Becomes(v, y, more) /\ torn' = torn
    BY <1>4 DEF ResizeVector
  <2>2. n > x.used
    BY <1>2, <1>4
  <2> HIDE DEF x, list
  <2>3. Holds(y, more) /\ (Clean(x) => Clean(y))
    BY <1>1, <2>2, ResizedHolds
  <2> HIDE DEF y, more
  <2> QED BY <1>1, <2>1, <2>3, BecomesKeeps
<1> QED BY <1>3, <1>4

LEMMA EraseKeeps ==
  ASSUME VectorInv, NEW v \in Vectors, NEW f \in Nat, NEW l \in Nat, EraseElements(v, f, l) PROVE VectorInv'
<1> DEFINE x == vector[v]
           list == meant[v]
           u == x.used
           rest == SubSeq(x.slots, l, u)
           n == l - f
           h == IF n <= Len(rest) THEN n ELSE Len(rest)
           m == f - 1 + Len(rest)
           slots == SubSeq(x.slots, 1, f - 1) \o rest \o RawSlots(n - h)
                      \o [k \in 1..h |-> Hollow] \o SubSeq(x.slots, u + 1, Cap(x))
           y == Changed(x, slots, m)
           less == SubSeq(list, 1, f - 1) \o SubSeq(list, l, Len(list))
<1>1. Holds(x, list) /\ (v \notin torn => Clean(x))
  BY OneVector
<1>2. x.slots \in Seq(Slot) /\ u \in Nat /\ u <= Len(x.slots)
  BY <1>1, HoldsMeans
<1>3. 1 <= f /\ f < l /\ l <= u + 1 /\ l \in Nat \ {0} /\ f \in Nat \ {0}
  BY <1>2 DEF EraseElements
<1>4. /\ Becomes(v, y, less)
      /\ torn' = IF rest = << >> THEN torn ELSE torn \cup {v}
  BY DEF EraseElements, Changed
<1> HIDE DEF x, list, u
<1>5. Len(rest) = u - l + 1 /\ Len(rest) \in Nat /\ (rest = << >> => Len(rest) = 0)
  <2> DEFINE g == u - l + 1
  <2>1. Within(Slot, x.slots, l, u, g) /\ g \in Nat
    BY <1>2, <1>3 DEF Within
  <2> HIDE DEF g
  <2>2. Len(rest) = g
    BY <2>1, StretchOf
  <2> HIDE DEF rest
  <2>3. rest = << >> => Len(rest) = 0
    OBVIOUS
  <2> QED BY <2>1, <2>2, <2>3 DEF g
<1> HIDE DEF rest
<1>6. h \in Nat /\ h <= l - f /\ (rest = << >> => h = 0) /\ m = f - 1 + (u - l + 1)
  BY <1>3, <1>5
<1> HIDE DEF h, m
<1>7. slots = ErasedSlots(x, f, l, h) /\ less = ErasedList(list, f, l)
  BY DEF ErasedSlots, ErasedList, rest, u
<1> HIDE DEF slots, less
<1>8. Holds(y, less) /\ (h = 0 /\ Clean(x) => Clean(y))
  <2>1. x.used = u
    BY DEF u
  <2> QED BY <1>1, <1>3, <1>6, <1>7, <2>1, ErasedHolds
<1> HIDE DEF y
<1>9. torn \subseteq torn' /\ (v \notin torn' => Clean(y))
  BY <1>1, <1>4, <1>6, <1>8
<1> QED BY <1>4, <1>8, <1>9, BecomesKeeps

LEMMA CopyKeeps ==
  ASSUME VectorInv, NEW to \in Vectors, NEW from \in Vectors, CopyVector(to, from) PROVE VectorInv'
<1> DEFINE x == vector[to]
           list == meant[from]
           y == Loaded(Cropped(x, 0), list)
<1>1. Holds(x, meant[to]) /\ (to \notin torn => Clean(x)) /\ Holds(vector[from], list)
  BY OneVector
<1>2. Held(vector[from]) = list /\ list \in Seq(Elements)
  BY <1>1, HeldAre, HoldsMeans
<1>3. Becomes(to, y, list) /\ torn' = torn
  BY <1>2 DEF CopyVector
<1> HIDE DEF x, list
<1>4. Holds(Cropped(x, 0), << >>) /\ (Clean(x) => Clean(Cropped(x, 0)))
  BY <1>1, EmptiedHolds
<1>5. Holds(y, list) /\ (Clean(Cropped(x, 0)) => Clean(y))
  BY <1>2, <1>4, LoadedHolds
<1> HIDE DEF y
<1> QED BY <1>1, <1>3, <1>4, <1>5, BecomesKeeps

LEMMA MoveKeeps ==
  ASSUME VectorInv, NEW to \in Vectors, NEW from \in Vectors, MoveVector(to, from) PROVE VectorInv'
<1> DEFINE x == vector[from]
           t == vector[to]
           list == meant[from]
           empty == IF t.inline THEN Cropped(t, 0) ELSE EmptyVector
           y == IF ~x.inline THEN x ELSE Loaded(empty, Held(x))
           z == IF x.inline THEN Cropped(x, 0) ELSE EmptyVector
<1>1. Holds(x, list) /\ (from \notin torn => Clean(x)) /\ Holds(t, meant[to]) /\ (to \notin torn => Clean(t))
  BY OneVector
<1>2. /\ to # from
      /\ vector' = [vector EXCEPT ![to] = y, ![from] = z]
      /\ meant' = [meant EXCEPT ![to] = list, ![from] = << >>]
      /\ torn' = IF from \in torn THEN torn \cup {to} ELSE torn
  BY DEF MoveVector, VectorInv
<1> HIDE DEF x, t, list
<1>3. Holds(empty, << >>) /\ (Clean(t) => Clean(empty))
  BY <1>1, EmptyHolds, EmptiedHolds
<1> HIDE DEF empty
<1>4. Holds(y, list) /\ (Clean(x) /\ Clean(t) => Clean(y))
  <2>1. Held(x) = list /\ list \in Seq(Elements)
    BY <1>1, HeldAre, HoldsMeans
  <2>2. Holds(Loaded(empty, list), list) /\ (Clean(empty) => Clean(Loaded(empty, list)))
    BY <1>3, <2>1, LoadedHolds
  <2> QED BY <1>1, <1>3, <2>1, <2>2
<1>5. Holds(z, << >>) /\ (Clean(x) => Clean(z))
  BY <1>1, EmptyHolds, EmptiedHolds
<1> HIDE DEF y, z
<1>6. /\ DOMAIN vector' = Vectors /\ DOMAIN meant' = Vectors
      /\ vector'[to] = y /\ meant'[to] = list /\ vector'[from] = z /\ meant'[from] = << >>
  BY <1>2 DEF VectorInv
<1>7. \A w \in Vectors \ {to, from} : vector'[w] = vector[w] /\ meant'[w] = meant[w]
  BY <1>2 DEF VectorInv
<1>8. ASSUME NEW w \in Vectors
      PROVE  Holds(vector'[w], meant'[w]) /\ (w \notin torn' => Clean(vector'[w]))
  <2>1. CASE w = to
    BY <1>1, <1>2, <1>4, <1>6, <2>1
  <2>2. CASE w = from
    BY <1>1, <1>2, <1>5, <1>6, <2>2
  <2>3. CASE w \notin {to, from}
    <3>1. vector'[w] = vector[w] /\ meant'[w] = meant[w]
      BY <1>7, <2>3
    <3>2. Holds(vector[w], meant[w]) /\ (w \notin torn => Clean(vector[w]))
      BY OneVector
    <3> QED BY <1>2, <3>1, <3>2
  <2> QED BY <2>1, <2>2, <2>3
<1> QED BY <1>6, <1>8 DEF VectorInv

LEMMA VectorStepKeeps == ASSUME VectorInv, VectorNext PROVE VectorInv'
<1>1. PICK v \in Vectors :
        \/ \E e \in Elements : PushBackElement(v, e)
        \/ PopBackElement(v)
        \/ \E n \in 0..MaxLength : Reserve(v, n) \/ ResizeVector(v, n)
        \/ \E f, l \in 1..(MaxLength + 1) : EraseElements(v, f, l)
        \/ \E w \in Vectors : CopyVector(v, w) \/ MoveVector(v, w)
  BY DEF VectorNext
<1>2. CASE \E e \in Elements : PushBackElement(v, e)
  BY <1>2, PushBackKeeps
<1>3. CASE PopBackElement(v)
  BY <1>3, PopBackKeeps
<1>4. CASE \E n \in 0..MaxLength : Reserve(v, n) \/ ResizeVector(v, n)
  <2>1. PICK n \in Nat : Reserve(v, n) \/ ResizeVector(v, n)
    BY <1>4, VectorAssumption
  <2> QED BY <2>1, ReserveKeeps, ResizeKeeps
<1>5. CASE \E f, l \in 1..(MaxLength + 1) : EraseElements(v, f, l)
  <2>1. PICK f \in Nat, l \in Nat : EraseElements(v, f, l)
    BY <1>5, VectorAssumption
  <2> QED BY <2>1, EraseKeeps
<1>6. CASE \E w \in Vectors : CopyVector(v, w) \/ MoveVector(v, w)
  BY <1>6, CopyKeeps, MoveKeeps
<1> QED BY <1>1, <1>2, <1>3, <1>4, <1>5, <1>6

LEMMA NextKeepsVectors == ASSUME VectorInv, [ContainersNext]_containerVars PROVE VectorInv'
<1>1. CASE UNCHANGED vectorVars
  BY <1>1 DEF VectorInv, vectorVars
<1>2. CASE VectorNext
  BY <1>2, VectorStepKeeps
<1> QED BY <1>1, <1>2 DEF ContainersNext, containerVars

LEMMA VectorsLive == VectorInv => SlotsLive
<1> SUFFICES ASSUME VectorInv, NEW v \in Vectors
             PROVE  /\ Held(vector[v]) = meant[v]
                    /\ vector[v].inline => Cap(vector[v]) = InlineN
                    /\ v \notin torn => Clean(vector[v])
  BY DEF SlotsLive, Clean
<1>1. Holds(vector[v], meant[v]) /\ (v \notin torn => Clean(vector[v]))
  BY OneVector
<1>2. Held(vector[v]) = meant[v]
  BY <1>1, HeldAre
<1>3. FitsInline(vector[v])
  BY <1>1, HoldsMeans
<1> QED BY <1>1, <1>2, <1>3, Zenon DEF FitsInline

(* A flat_vector holds the list its calls made, its slots in use hold live  *)
(* objects and, until an erasure from the middle, no other slot does: for   *)
(* any inline size, any elements and any number of vectors.                *)
THEOREM SlotsStayLive == ContainersSpec => []SlotsLive
BY VectorInvHoldsFirst, NextKeepsVectors, VectorsLive, PTL DEF ContainersSpec

-----------------------------------------------------------------------------
(* A set of numbers that is not empty has a least one. *)
LEMMA Least ==
  ASSUME NEW T \in SUBSET Nat, T # {}
  PROVE  \E n \in T : \A m \in T : n <= m
<1> DEFINE R == OpToRel(<, Nat)
<1>1. IsWellFoundedOn(R, Nat)
  BY NatLessThanWellFounded
<1>2. \A m, n \in Nat : m < n => <<m, n>> \in R
  BY DEF OpToRel
<1> HIDE DEF R
<1>3. PICK n \in T : \A m \in T : ~ (<<m, n>> \in R)
  BY <1>1, WFMin
<1>4. ASSUME NEW m \in T PROVE n <= m
  <2>1. m \in Nat /\ n \in Nat
    OBVIOUS
  <2>2. ~(m < n)
    BY <1>2, <1>3, <2>1
  <2> QED BY <2>1, <2>2
<1> QED BY <1>3, <1>4

(* Induction on a set of numbers. *)
LEMMA SetInduction ==
  ASSUME NEW S, 0 \in S, \A n \in Nat : n \in S => n + 1 \in S
  PROVE  Nat \subseteq S
<1> SUFFICES ASSUME Nat \ S # {} PROVE FALSE
  OBVIOUS
<1>1. PICK n \in Nat \ S : \A m \in Nat \ S : n <= m
  BY Least
<1>2. n # 0 /\ n - 1 \in Nat /\ ~(n - 1 \in Nat \ S) /\ n - 1 + 1 = n
  BY <1>1
<1> QED BY <1>1, <1>2

(* The links nx and pv make a ring of the head l and n nodes, r[1] to r[n]. *)
RingOf(l, r, n, nx, pv) ==
    /\ l \in Heads /\ n \in Nat /\ r[0] = l /\ r[n + 1] = l
    /\ \A i \in 1..n : r[i] \in ListNodes
    /\ \A i, j \in 0..n : r[i] = r[j] => i = j
    /\ \A i \in 0..n : nx[r[i]] = r[i + 1] /\ pv[r[i + 1]] = r[i]

BodyOf(r, n) == {r[i] : i \in 1..n}

Disjoint(ring, len) ==
    \A l, m \in Heads : l # m => BodyOf(ring[l], len[l]) \cap BodyOf(ring[m], len[m]) = {}

OthersFree(ring, len, nx, pv) ==
    \A n \in ListNodes : (\A l \in Heads : n \notin BodyOf(ring[l], len[l])) => nx[n] = Null /\ pv[n] = Null

Rings(ring, len, nx, pv) ==
    /\ \A l \in Heads : RingOf(l, ring[l], len[l], nx, pv)
    /\ Disjoint(ring, len)
    /\ OthersFree(ring, len, nx, pv)

RingInv ==
    /\ DOMAIN next = Linkable /\ DOMAIN prev = Linkable /\ DOMAIN length = Heads
    /\ \E ring : DOMAIN ring = Heads /\ Rings(ring, length, next, prev)

(* What an iteration from the head meets is the ring. *)
LEMMA MetIs ==
  ASSUME NEW l, NEW r, RingOf(l, r, length[l], next, prev)
  PROVE  Met(l) = [i \in 1..length[l] |-> r[i]] /\ Members(l) = BodyOf(r, length[l])
<1> DEFINE n == length[l]
           Step(f) == [i \in 0..n |-> IF i = 0 THEN l ELSE next[f[i - 1]]]
           at == CHOOSE f : f = Step(f)
           g == [i \in 0..n |-> r[i]]
<1>1. n \in Nat /\ r[0] = l /\ \A i \in 0..n : next[r[i]] = r[i + 1]
  BY DEF RingOf
<1> HIDE DEF n
<1>2. g = Step(g)
  <2>1. \A i \in 0..n : g[i] = IF i = 0 THEN l ELSE next[g[i - 1]]
    <3> SUFFICES ASSUME NEW i \in 0..n PROVE r[i] = IF i = 0 THEN l ELSE next[g[i - 1]]
      OBVIOUS
    <3>1. CASE i = 0
      BY <1>1, <3>1
    <3>2. CASE i # 0
      <4>1. i - 1 \in 0..n /\ i - 1 + 1 = i
        BY <1>1, <3>2
      <4> QED BY <1>1, <3>2, <4>1
    <3> QED BY <3>1, <3>2
  <2> QED BY <2>1
<1>3. at = Step(at)
  BY <1>2
<1> HIDE DEF at, g
<1>4. \A i \in 0..n : at[i] = IF i = 0 THEN l ELSE next[at[i - 1]]
  BY <1>3
<1>5. \A i \in 0..n : at[i] = r[i]
  <2> DEFINE S == {i \in Nat : i <= n => at[i] = r[i]}
  <2>1. 0 \in S
    BY <1>1, <1>4
  <2>2. ASSUME NEW i \in Nat, i \in S PROVE i + 1 \in S
    <3> SUFFICES ASSUME i + 1 <= n PROVE at[i + 1] = r[i + 1]
      OBVIOUS
    <3>1. i \in 0..n /\ i + 1 \in 0..n /\ i + 1 # 0 /\ i + 1 - 1 = i
      BY <1>1
    <3> QED BY <1>1, <1>4, <2>2, <3>1
  <2> HIDE DEF S
  <2>3. Nat \subseteq S
    BY <2>1, <2>2, SetInduction
  <2> QED BY <1>1, <2>3 DEF S
<1>6. Met(l) = [i \in 1..n |-> at[i]]
  BY DEF Met, at, n
<1>7. Met(l) = [i \in 1..n |-> r[i]]
  <2>1. \A i \in 1..n : i \in 0..n
    BY <1>1
  <2> QED BY <1>5, <1>6, <2>1
<1>8. Members(l) = BodyOf(r, n)
  BY <1>7 DEF Members, BodyOf, n
<1> QED BY <1>7, <1>8 DEF n

(* A ring whose nodes keep their links stays one. *)
LEMMA RingKept ==
  ASSUME NEW l, NEW r, NEW n, NEW nx, NEW pv, NEW nx2, NEW pv2, RingOf(l, r, n, nx, pv),
         \A i \in 0..n : nx2[r[i]] = nx[r[i]] /\ pv2[r[i]] = pv[r[i]]
  PROVE  RingOf(l, r, n, nx2, pv2)
<1>1. n \in Nat /\ r[0] = l /\ r[n + 1] = l
  BY DEF RingOf
<1>2. ASSUME NEW i \in 0..n PROVE nx2[r[i]] = r[i + 1] /\ pv2[r[i + 1]] = r[i]
  <2>1. nx[r[i]] = r[i + 1] /\ pv[r[i + 1]] = r[i]
    BY DEF RingOf
  <2>2. i + 1 \in 0..n \/ i + 1 = n + 1
    BY <1>1
  <2>3. CASE i + 1 \in 0..n
    BY <2>1, <2>3
  <2>4. CASE i + 1 = n + 1
    <3>1. r[i + 1] = r[0] /\ 0 \in 0..n
      BY <1>1, <2>4
    <3> QED BY <2>1, <3>1
  <2> QED BY <2>2, <2>3, <2>4
<1> QED BY <1>2 DEF RingOf

(* No two nodes of a ring are the same, and the head is none of them. *)
LEMMA RingNodes ==
  ASSUME NEW l, NEW r, NEW n, NEW nx, NEW pv, RingOf(l, r, n, nx, pv)
  PROVE  /\ n \in Nat /\ l \in Heads /\ r[0] = l /\ r[n + 1] = l
         /\ \A i \in 1..n : r[i] \in ListNodes /\ r[i] # l
         /\ BodyOf(r, n) \subseteq ListNodes
         /\ \A i \in 0..(n + 1) : r[i] \in BodyOf(r, n) \cup {l} /\ r[i] \in Linkable
         /\ \A i \in 0..n : r[i + 1] \in Linkable
<1>1. /\ n \in Nat /\ l \in Heads /\ r[0] = l /\ r[n + 1] = l
      /\ \A i \in 1..n : r[i] \in ListNodes
  BY DEF RingOf
<1>2. \A i \in 1..n : r[i] # l
  BY <1>1, ListAssumption
<1>3. \A i \in 0..(n + 1) : i = 0 \/ i = n + 1 \/ i \in 1..n
  BY <1>1
<1>4. \A i \in 0..n : i + 1 \in 0..(n + 1)
  BY <1>1
<1> QED BY <1>1, <1>2, <1>3, <1>4 DEF BodyOf, Linkable

(* link_after: the new node stands behind r[i]. *)
LinkedNext(nx, pos, n) == [nx EXCEPT ![n] = nx[pos], ![pos] = n]
LinkedPrev(nx, pv, pos, n) == [pv EXCEPT ![n] = pos, ![nx[pos]] = n]
RingWith(r, i, n) == [k \in Nat |-> IF k <= i THEN r[k] ELSE IF k = i + 1 THEN n ELSE r[k - 1]]

LEMMA RingGrows ==
  ASSUME NEW l, NEW r, NEW n, NEW nx, NEW pv, RingOf(l, r, n, nx, pv), DOMAIN nx = Linkable,
         DOMAIN pv = Linkable, NEW i \in 0..n, NEW new \in ListNodes, new \notin BodyOf(r, n)
  PROVE  /\ RingOf(l, RingWith(r, i, new), n + 1, LinkedNext(nx, r[i], new), LinkedPrev(nx, pv, r[i], new))
         /\ BodyOf(RingWith(r, i, new), n + 1) = BodyOf(r, n) \cup {new}
<1> DEFINE q == RingWith(r, i, new)
           nx2 == LinkedNext(nx, r[i], new)
           pv2 == LinkedPrev(nx, pv, r[i], new)
<1>1. /\ n \in Nat /\ l \in Heads /\ r[0] = l /\ r[n + 1] = l
      /\ \A k \in 1..n : r[k] \in ListNodes /\ r[k] # l
      /\ \A k \in 0..n : r[k] \in Linkable /\ r[k + 1] \in Linkable
      /\ \A j, k \in 0..n : r[j] = r[k] => j = k
      /\ \A k \in 0..n : nx[r[k]] = r[k + 1] /\ pv[r[k + 1]] = r[k]
  <2>1. \A k \in 0..n : k \in 0..(n + 1)
    BY RingNodes
  <2> QED BY <2>1, RingNodes DEF RingOf
<1>2. new \in Linkable /\ new # l /\ \A k \in 0..(n + 1) : r[k] # new
  <2>1. new \in Linkable /\ new # l
    BY <1>1, ListAssumption DEF Linkable
  <2>2. ASSUME NEW k \in 0..(n + 1) PROVE r[k] # new
    <3>1. r[k] \in BodyOf(r, n) \cup {l}
      BY RingNodes
    <3> QED BY <2>1, <3>1
  <2> QED BY <2>1, <2>2
<1>3. /\ \A k \in 0..i : q[k] = r[k]
      /\ q[i + 1] = new
      /\ \A k \in (i + 1)..(n + 1) : q[k + 1] = r[k]
  <2>1. i + 1 \in Nat /\ ~(i + 1 <= i)
    OBVIOUS
  <2>2. \A k \in (i + 1)..(n + 1) : k + 1 \in Nat /\ ~(k + 1 <= i) /\ k + 1 # i + 1 /\ k + 1 - 1 = k
    BY <1>1
  <2>3. \A k \in 0..i : k \in Nat /\ k <= i
    OBVIOUS
  <2> QED BY <2>1, <2>2, <2>3 DEF RingWith
<1>4. /\ nx2[new] = r[i + 1] /\ nx2[r[i]] = new
      /\ \A x \in Linkable \ {new, r[i]} : nx2[x] = nx[x]
  BY <1>1, <1>2 DEF LinkedNext
<1>5. /\ pv2[new] = r[i] /\ pv2[r[i + 1]] = new
      /\ \A x \in Linkable \ {new, r[i + 1]} : pv2[x] = pv[x]
  <2>1. r[i + 1] # new /\ nx[r[i]] = r[i + 1] /\ r[i + 1] \in Linkable
    <3>1. i + 1 \in 0..(n + 1)
      BY <1>1
    <3> QED BY <1>1, <1>2, <3>1
  <2> QED BY <1>1, <1>2, <2>1 DEF LinkedPrev
<1> HIDE DEF q, nx2, pv2
<1>6. ASSUME NEW k \in 0..(n + 1) PROVE nx2[q[k]] = q[k + 1] /\ pv2[q[k + 1]] = q[k]
  <2>1. CASE k < i
    <3>1. k \in 0..n /\ k \in 0..i /\ k + 1 \in 0..i /\ k + 1 \in 0..n /\ k # i
      BY <1>1, <2>1
    <3>2. q[k] = r[k] /\ q[k + 1] = r[k + 1] /\ r[k] # r[i] /\ r[k] # new /\ r[k + 1] # new
      BY <1>1, <1>2, <1>3, <3>1
    <3>3. r[k + 1] # r[i + 1]
      <4>1. CASE i = n
        <5>1. k + 1 \in 1..n
          BY <2>1, <3>1
        <5> QED BY <1>1, <4>1, <5>1
      <4>2. CASE i # n
        <5>1. i + 1 \in 0..n /\ k + 1 # i + 1
          BY <1>1, <3>1, <4>2
        <5> QED BY <1>1, <3>1, <5>1
      <4> QED BY <4>1, <4>2
    <3> QED BY <1>1, <1>4, <1>5, <3>1, <3>2, <3>3
  <2>2. CASE k = i
    <3>1. k \in 0..i
      BY <2>2
    <3> QED BY <1>3, <1>4, <1>5, <2>2, <3>1
  <2>3. CASE k = i + 1
    <3>1. i + 1 \in (i + 1)..(n + 1)
      BY <1>1
    <3> QED BY <1>3, <1>4, <1>5, <2>3, <3>1
  <2>4. CASE k > i + 1
    <3> DEFINE j == k - 1
    <3>1. j \in 0..n /\ j \in (i + 1)..(n + 1) /\ j + 1 \in (i + 1)..(n + 1) /\ k = j + 1 /\ j # i /\ i \in 0..n
          /\ j \in 0..(n + 1) /\ j + 1 \in 0..(n + 1)
      BY <1>1, <2>4
    <3> HIDE DEF j
    <3>2. q[k] = r[j] /\ q[k + 1] = r[j + 1] /\ r[j] # r[i] /\ r[j] # new /\ r[j + 1] # new
      BY <1>1, <1>2, <1>3, <3>1
    <3>3. r[j + 1] # r[i + 1]
      <4>1. CASE j = n
        <5>1. i + 1 \in 1..n
          BY <1>1, <3>1, <4>1
        <5> QED BY <1>1, <4>1, <5>1
      <4>2. CASE j # n
        <5>1. i + 1 \in 0..n /\ j + 1 \in 0..n /\ j + 1 # i + 1
          BY <1>1, <3>1, <4>2
        <5> QED BY <1>1, <5>1
      <4> QED BY <4>1, <4>2
    <3> QED BY <1>1, <1>4, <1>5, <3>1, <3>2, <3>3
  <2>5. k < i \/ k = i \/ k = i + 1 \/ k > i + 1
    BY <1>1
  <2> QED BY <2>1, <2>2, <2>3, <2>4, <2>5
<1>7. ASSUME NEW k \in 0..(n + 1)
      PROVE  \/ k \in 0..i /\ k \in 0..n /\ q[k] = r[k]
             \/ k = i + 1 /\ q[k] = new
             \/ k - 1 \in (i + 1)..n /\ k - 1 \in 0..n /\ q[k] = r[k - 1]
  <2>1. CASE k <= i
    BY <1>1, <1>3, <2>1
  <2>2. CASE k = i + 1
    BY <1>3, <2>2
  <2>3. CASE k > i + 1
    <3>1. k - 1 \in (i + 1)..n /\ k - 1 \in 0..n /\ k - 1 \in (i + 1)..(n + 1) /\ k - 1 + 1 = k
      BY <1>1, <2>3
    <3> QED BY <1>3, <3>1
  <2> QED BY <1>1, <2>1, <2>2, <2>3
<1>8. ASSUME NEW j \in 0..(n + 1), NEW k \in 0..(n + 1), q[j] = q[k] PROVE j = k
  <2>1. \A a \in 0..n : r[a] # new
    BY <1>1, <1>2
  <2> QED BY <1>1, <1>7, <1>8, <2>1
<1>9. ASSUME NEW k \in 1..(n + 1) PROVE q[k] \in ListNodes
  <2>1. k \in 0..(n + 1)
    BY <1>1
  <2>2. CASE k \in 0..i /\ k \in 0..n /\ q[k] = r[k]
    <3>1. k \in 1..n
      BY <1>1, <2>2
    <3> QED BY <1>1, <2>2, <3>1
  <2>3. CASE k = i + 1 /\ q[k] = new
    BY <2>3
  <2>4. CASE k - 1 \in (i + 1)..n /\ k - 1 \in 0..n /\ q[k] = r[k - 1]
    <3>1. k - 1 \in 1..n
      BY <1>1, <2>4
    <3> QED BY <1>1, <2>4, <3>1
  <2> QED BY <1>7, <2>1, <2>2, <2>3, <2>4
<1>10. q[0] = l /\ q[n + 1 + 1] = l /\ n + 1 \in Nat
  <2>1. 0 \in 0..i /\ n + 1 \in (i + 1)..(n + 1)
    BY <1>1
  <2> QED BY <1>1, <1>3, <2>1
<1>11. RingOf(l, q, n + 1, nx2, pv2)
  BY <1>1, <1>6, <1>8, <1>9, <1>10 DEF RingOf
<1>12. BodyOf(q, n + 1) = BodyOf(r, n) \cup {new}
  <2>1. ASSUME NEW k \in 1..n PROVE r[k] \in BodyOf(q, n + 1)
    <3>1. CASE k <= i
      <4>1. k \in 0..i /\ k \in 1..(n + 1)
        BY <1>1, <3>1
      <4> QED BY <1>3, <4>1 DEF BodyOf
    <3>2. CASE ~(k <= i)
      <4>1. k \in (i + 1)..(n + 1) /\ k + 1 \in 1..(n + 1)
        BY <1>1, <3>2
      <4> QED BY <1>3, <4>1 DEF BodyOf
    <3> QED BY <3>1, <3>2
  <2>2. new \in BodyOf(q, n + 1)
    <3>1. i + 1 \in 1..(n + 1)
      BY <1>1
    <3> QED BY <1>3, <3>1 DEF BodyOf
  <2>3. ASSUME NEW k \in 1..(n + 1) PROVE q[k] \in BodyOf(r, n) \cup {new}
    <3>1. k \in 0..(n + 1)
      BY <1>1
    <3>2. CASE k \in 0..i /\ k \in 0..n /\ q[k] = r[k]
      <4>1. k \in 1..n
        BY <1>1, <3>2
      <4> QED BY <3>2, <4>1 DEF BodyOf
    <3>3. CASE k - 1 \in (i + 1)..n /\ k - 1 \in 0..n /\ q[k] = r[k - 1]
      <4>1. k - 1 \in 1..n
        BY <1>1, <3>3
      <4> QED BY <3>3, <4>1 DEF BodyOf
    <3> QED BY <1>7, <3>1, <3>2, <3>3
  <2> QED BY <2>1, <2>2, <2>3 DEF BodyOf
<1> QED BY <1>11, <1>12 DEF q, nx2, pv2

(* unlink: the node r[i] goes. *)
UnlinkedNext(nx, pv, x) == [nx EXCEPT ![pv[x]] = nx[x], ![x] = Null]
UnlinkedPrev(nx, pv, x) == [pv EXCEPT ![nx[x]] = pv[x], ![x] = Null]
RingWithout(r, i) == [k \in Nat |-> IF k < i THEN r[k] ELSE r[k + 1]]

LEMMA RingShrinks ==
  ASSUME NEW l, NEW r, NEW n, NEW nx, NEW pv, RingOf(l, r, n, nx, pv), DOMAIN nx = Linkable,
         DOMAIN pv = Linkable, NEW i \in 1..n
  PROVE  /\ RingOf(l, RingWithout(r, i), n - 1, UnlinkedNext(nx, pv, r[i]), UnlinkedPrev(nx, pv, r[i]))
         /\ BodyOf(RingWithout(r, i), n - 1) = BodyOf(r, n) \ {r[i]}
         /\ UnlinkedNext(nx, pv, r[i])[r[i]] = Null /\ UnlinkedPrev(nx, pv, r[i])[r[i]] = Null
         /\ \A x \in Linkable \ (BodyOf(r, n) \cup {l}) :
              UnlinkedNext(nx, pv, r[i])[x] = nx[x] /\ UnlinkedPrev(nx, pv, r[i])[x] = pv[x]
<1> DEFINE q == RingWithout(r, i)
           x == r[i]
           h == i - 1
           nx2 == UnlinkedNext(nx, pv, x)
           pv2 == UnlinkedPrev(nx, pv, x)
<1>1. /\ n \in Nat /\ l \in Heads /\ r[0] = l /\ r[n + 1] = l
      /\ \A k \in 1..n : r[k] \in ListNodes /\ r[k] # l
      /\ \A k \in 0..n : r[k] \in Linkable /\ r[k + 1] \in Linkable
      /\ \A j, k \in 0..n : r[j] = r[k] => j = k
      /\ \A k \in 0..n : nx[r[k]] = r[k + 1] /\ pv[r[k + 1]] = r[k]
  <2>1. /\ n \in Nat /\ l \in Heads /\ r[0] = l /\ r[n + 1] = l
        /\ \A k \in 1..n : r[k] \in ListNodes /\ r[k] # l
        /\ \A k \in 0..(n + 1) : r[k] \in Linkable
        /\ \A k \in 0..n : r[k + 1] \in Linkable
    BY RingNodes
  <2>2. \A k \in 0..n : k \in 0..(n + 1)
    BY <2>1
  <2>3. /\ \A j, k \in 0..n : r[j] = r[k] => j = k
        /\ \A k \in 0..n : nx[r[k]] = r[k + 1] /\ pv[r[k + 1]] = r[k]
    BY DEF RingOf
  <2> QED BY <2>1, <2>2, <2>3
<1>2. h \in Nat /\ i = h + 1 /\ h \in 0..n /\ i \in 0..n /\ h # i /\ i \in Nat
  BY <1>1
<1> HIDE DEF h
<1>3. nx[x] = r[i + 1] /\ pv[x] = r[h] /\ x \in Linkable /\ r[h] \in Linkable /\ r[i + 1] \in Linkable
  BY <1>1, <1>2
<1>4. r[h] # x /\ r[i + 1] # x
  <2>1. CASE i = n
    BY <1>1, <1>2, <2>1
  <2>2. CASE i # n
    <3>1. i + 1 \in 0..n /\ i + 1 # i
      BY <1>1, <2>2
    <3> QED BY <1>1, <1>2, <3>1
  <2> QED BY <2>1, <2>2
<1>5. /\ nx2[x] = Null /\ nx2[r[h]] = r[i + 1]
      /\ \A y \in Linkable \ {x, r[h]} : nx2[y] = nx[y]
  BY <1>3, <1>4 DEF UnlinkedNext
<1>6. /\ pv2[x] = Null /\ pv2[r[i + 1]] = r[h]
      /\ \A y \in Linkable \ {x, r[i + 1]} : pv2[y] = pv[y]
  BY <1>3, <1>4 DEF UnlinkedPrev
<1>7. \A y \in Linkable \ (BodyOf(r, n) \cup {l}) : nx2[y] = nx[y] /\ pv2[y] = pv[y]
  <2>1. h \in 0..(n + 1) /\ i + 1 \in 0..(n + 1) /\ i \in 0..(n + 1)
    BY <1>1, <1>2
  <2>2. {x, r[h], r[i + 1]} \subseteq BodyOf(r, n) \cup {l}
    BY <2>1, RingNodes
  <2> QED BY <1>5, <1>6, <2>2
<1>8. \A k \in Nat : q[k] = IF k < i THEN r[k] ELSE r[k + 1]
  BY DEF RingWithout
<1> HIDE DEF q, nx2, pv2
<1>9. ASSUME NEW k \in 0..(n - 1) PROVE nx2[q[k]] = q[k + 1] /\ pv2[q[k + 1]] = q[k]
  <2>1. CASE k < h
    <3>1. k \in 0..n /\ k \in Nat /\ k + 1 \in Nat /\ k < i /\ k + 1 < i /\ k + 1 \in 1..n /\ k + 1 \in 0..n
          /\ k # h /\ k # i /\ k + 1 # i
      BY <1>1, <1>2, <2>1
    <3>2. q[k] = r[k] /\ q[k + 1] = r[k + 1] /\ r[k] # r[h] /\ r[k] # x /\ r[k + 1] # x
      BY <1>1, <1>2, <1>8, <3>1
    <3>3. r[k + 1] # r[i + 1]
      <4>1. CASE i = n
        BY <1>1, <3>1, <4>1
      <4>2. CASE i # n
        <5>1. i + 1 \in 0..n /\ k + 1 # i + 1
          BY <1>1, <3>1, <4>2
        <5> QED BY <1>1, <3>1, <5>1
      <4> QED BY <4>1, <4>2
    <3> QED BY <1>1, <1>5, <1>6, <3>1, <3>2, <3>3
  <2>2. CASE k = h
    <3>1. k \in Nat /\ k + 1 \in Nat /\ k < i /\ ~(k + 1 < i) /\ k + 1 = i
      BY <1>2, <2>2
    <3>2. q[k] = r[h] /\ q[k + 1] = r[i + 1]
      BY <1>8, <2>2, <3>1
    <3> QED BY <1>5, <1>6, <3>2
  <2>3. CASE k > h
    <3> DEFINE j == k + 1
    <3>1. j \in Nat /\ k \in Nat /\ ~(k < i) /\ ~(j < i) /\ j \in 1..n /\ j \in 0..n /\ j # h /\ j # i /\ j > i
      BY <1>1, <1>2, <2>3
    <3>2. q[k] = r[j] /\ q[j] = r[j + 1]
      BY <1>8, <3>1
    <3> HIDE DEF j
    <3>3. r[j] # r[h] /\ r[j] # x
      BY <1>1, <1>2, <3>1
    <3>4. r[j + 1] # r[i + 1] /\ r[j + 1] # x
      <4>1. i + 1 \in 1..n /\ i + 1 \in 0..n
        BY <1>1, <1>2, <3>1
      <4>2. CASE j = n
        BY <1>1, <4>1, <4>2
      <4>3. CASE j # n
        <5>1. j + 1 \in 0..n /\ j + 1 # i + 1 /\ j + 1 # i
          BY <1>1, <1>2, <3>1, <4>3
        <5> QED BY <1>1, <1>2, <4>1, <5>1
      <4> QED BY <4>2, <4>3
    <3>5. nx2[r[j]] = r[j + 1] /\ pv2[r[j + 1]] = r[j]
      BY <1>1, <1>5, <1>6, <3>1, <3>3, <3>4
    <3> QED BY <3>2, <3>5 DEF j
  <2> QED BY <1>1, <1>2, <2>1, <2>2, <2>3
<1>10. ASSUME NEW k \in 0..(n - 1)
      PROVE  \/ k < i /\ k \in 0..n /\ q[k] = r[k]
             \/ k >= i /\ k + 1 \in 1..n /\ k + 1 \in 0..n /\ q[k] = r[k + 1]
  BY <1>1, <1>2, <1>8
<1>11. ASSUME NEW j \in 0..(n - 1), NEW k \in 0..(n - 1), q[j] = q[k] PROVE j = k
  BY <1>1, <1>2, <1>10, <1>11
<1>12. ASSUME NEW k \in 1..(n - 1) PROVE q[k] \in BodyOf(r, n) \ {x} /\ q[k] \in ListNodes
  <2>1. k \in 0..(n - 1)
    OBVIOUS
  <2>2. CASE k < i /\ k \in 0..n /\ q[k] = r[k]
    <3>1. k \in 1..n /\ k # i
      BY <1>1, <1>2, <2>2
    <3> QED BY <1>1, <1>2, <2>2, <3>1 DEF BodyOf
  <2>3. CASE k >= i /\ k + 1 \in 1..n /\ k + 1 \in 0..n /\ q[k] = r[k + 1]
    <3>1. k + 1 # i
      BY <1>2, <2>3
    <3> QED BY <1>1, <1>2, <2>3, <3>1 DEF BodyOf
  <2> QED BY <1>10, <2>1, <2>2, <2>3
<1>13. q[0] = l /\ q[n - 1 + 1] = l /\ n - 1 \in Nat
  <2>1. n \in Nat /\ ~(n < i) /\ n - 1 + 1 = n /\ n - 1 \in Nat /\ 0 < i
    BY <1>1, <1>2
  <2> QED BY <1>1, <1>8, <2>1
<1>14. RingOf(l, q, n - 1, nx2, pv2)
  BY <1>1, <1>9, <1>11, <1>12, <1>13 DEF RingOf
<1>15. BodyOf(q, n - 1) = BodyOf(r, n) \ {x}
  <2>1. ASSUME NEW k \in 1..n, r[k] # x PROVE r[k] \in BodyOf(q, n - 1)
    <3>1. CASE k < i
      <4>1. k \in 1..(n - 1) /\ k \in Nat
        BY <1>1, <1>2, <3>1
      <4> QED BY <1>8, <3>1, <4>1 DEF BodyOf
    <3>2. CASE ~(k < i)
      <4> DEFINE j == k - 1
      <4>1. j \in 1..(n - 1) /\ j \in Nat /\ ~(j < i) /\ j + 1 = k
        BY <1>1, <1>2, <2>1, <3>2
      <4> HIDE DEF j
      <4> QED BY <1>8, <4>1 DEF BodyOf
    <3> QED BY <3>1, <3>2
  <2> QED BY <1>12, <2>1 DEF BodyOf
<1> QED BY <1>5, <1>6, <1>7, <1>14, <1>15 DEF q, nx2, pv2

(* An empty ring. *)
LEMMA RingEmpty ==
  ASSUME NEW l \in Heads, NEW nx, NEW pv, nx[l] = l, pv[l] = l
  PROVE  RingOf(l, [k \in Nat |-> l], 0, nx, pv) /\ BodyOf([k \in Nat |-> l], 0) = {}
BY DEF RingOf, BodyOf

(* A ring under another head. *)
Swapped(x, from, to) == IF x = from THEN to ELSE x
Under(r, from, to) == [k \in Nat |-> Swapped(r[k], from, to)]

CarriedOver(r, n, from, to, nx, pv, nx2, pv2) ==
    /\ to \in Heads /\ to # from /\ RingOf(from, r, n, nx, pv)
    /\ \A x \in BodyOf(r, n) \cup {from} :
         /\ nx2[Swapped(x, from, to)] = Swapped(nx[x], from, to)
         /\ pv2[Swapped(x, from, to)] = Swapped(pv[x], from, to)

LEMMA RingMoved ==
  ASSUME NEW from, NEW to, NEW r, NEW n, NEW nx, NEW pv, NEW nx2, NEW pv2,
         CarriedOver(r, n, from, to, nx, pv, nx2, pv2)
  PROVE  RingOf(to, Under(r, from, to), n, nx2, pv2) /\ BodyOf(Under(r, from, to), n) = BodyOf(r, n)
<1> DEFINE q == Under(r, from, to)
<1>1. /\ to \in Heads /\ to # from /\ RingOf(from, r, n, nx, pv)
      /\ \A x \in BodyOf(r, n) \cup {from} :
           /\ nx2[Swapped(x, from, to)] = Swapped(nx[x], from, to)
           /\ pv2[Swapped(x, from, to)] = Swapped(pv[x], from, to)
  BY DEF CarriedOver
<1>2. /\ n \in Nat /\ from \in Heads /\ r[0] = from /\ r[n + 1] = from
      /\ \A k \in 1..n : r[k] \in ListNodes /\ r[k] # from
      /\ \A j, k \in 0..n : r[j] = r[k] => j = k
      /\ \A k \in 0..n : nx[r[k]] = r[k + 1] /\ pv[r[k + 1]] = r[k]
  BY <1>1, RingNodes DEF RingOf
<1>3. \A k \in 0..(n + 1) : q[k] = Swapped(r[k], from, to)
  BY <1>2 DEF Under
<1> HIDE DEF q
<1>4. \A k \in 0..n : k \in 0..(n + 1) /\ k + 1 \in 0..(n + 1)
  BY <1>2
<1>5. ASSUME NEW k \in 0..n PROVE nx2[q[k]] = q[k + 1] /\ pv2[q[k + 1]] = q[k]
  <2>1. r[k] \in BodyOf(r, n) \cup {from} /\ r[k + 1] \in BodyOf(r, n) \cup {from}
    BY <1>1, <1>4, RingNodes
  <2> QED BY <1>1, <1>2, <1>3, <1>4, <2>1
<1>6. \A k \in 1..n : k \in 0..(n + 1) /\ q[k] = r[k]
  BY <1>2, <1>3 DEF Swapped
<1>7. q[0] = to /\ q[n + 1] = to
  <2>1. 0 \in 0..(n + 1) /\ n + 1 \in 0..(n + 1)
    BY <1>2
  <2> QED BY <1>2, <1>3, <2>1 DEF Swapped
<1>8. ASSUME NEW j \in 0..n, NEW k \in 0..n, q[j] = q[k] PROVE j = k
  <2>1. to \notin ListNodes
    BY <1>1, ListAssumption
  <2>2. (j = 0 \/ j \in 1..n) /\ (k = 0 \/ k \in 1..n)
    BY <1>2
  <2> QED BY <1>2, <1>6, <1>7, <1>8, <2>1, <2>2
<1>9. RingOf(to, q, n, nx2, pv2)
  BY <1>1, <1>2, <1>5, <1>6, <1>7, <1>8 DEF RingOf
<1>10. BodyOf(q, n) = BodyOf(r, n)
  BY <1>6 DEF BodyOf
<1> QED BY <1>9, <1>10 DEF q

(* Rings are apart, heads and all. *)
LEMMA RingsApart ==
  ASSUME NEW ring, NEW len, NEW nx, NEW pv, Rings(ring, len, nx, pv), NEW l \in Heads, NEW m \in Heads, l # m
  PROVE  (BodyOf(ring[l], len[l]) \cup {l}) \cap (BodyOf(ring[m], len[m]) \cup {m}) = {}
<1>1. BodyOf(ring[l], len[l]) \cap BodyOf(ring[m], len[m]) = {}
  BY DEF Rings, Disjoint
<1>2. BodyOf(ring[l], len[l]) \subseteq ListNodes /\ BodyOf(ring[m], len[m]) \subseteq ListNodes
  <2>1. RingOf(l, ring[l], len[l], nx, pv) /\ RingOf(m, ring[m], len[m], nx, pv)
    BY DEF Rings
  <2> QED BY <2>1, RingNodes
<1> QED BY <1>1, <1>2, ListAssumption

(* The nodes of a ring have links that lead somewhere. *)
LEMMA FreeNodesOutside ==
  ASSUME NEW ring, NEW len, NEW nx, NEW pv, Rings(ring, len, nx, pv), NEW x, nx[x] = Null, NEW l \in Heads
  PROVE  x \notin BodyOf(ring[l], len[l])
<1>1. RingOf(l, ring[l], len[l], nx, pv)
  BY DEF Rings
<1>2. ASSUME NEW k \in 1..len[l] PROVE nx[ring[l][k]] # Null
  <2>1. len[l] \in Nat
    BY <1>1, RingNodes
  <2>2. k \in 0..len[l]
    BY <2>1
  <2>3. nx[ring[l][k]] = ring[l][k + 1]
    BY <1>1, <2>2 DEF RingOf
  <2>4. ring[l][k + 1] \in Linkable
    BY <1>1, <2>2, RingNodes
  <2> QED BY <2>3, <2>4, ListAssumption DEF Linkable
<1> QED BY <1>2 DEF BodyOf

(* Only the ring of l changes. *)
OneChanges(ring, len, nx, pv, l, q, n, nx2, pv2) ==
    /\ Rings(ring, len, nx, pv) /\ DOMAIN ring = Heads /\ DOMAIN len = Heads
    /\ l \in Heads /\ RingOf(l, q, n, nx2, pv2)
    /\ \A m \in Heads \ {l} :
         /\ BodyOf(q, n) \cap BodyOf(ring[m], len[m]) = {}
         /\ \A x \in BodyOf(ring[m], len[m]) \cup {m} : nx2[x] = nx[x] /\ pv2[x] = pv[x]
    /\ \A x \in ListNodes \ BodyOf(q, n) :
         (\A m \in Heads \ {l} : x \notin BodyOf(ring[m], len[m])) => nx2[x] = Null /\ pv2[x] = Null

LEMMA OneRingChanges ==
  ASSUME NEW ring, NEW len, NEW nx, NEW pv, NEW l, NEW q, NEW n, NEW nx2, NEW pv2,
         OneChanges(ring, len, nx, pv, l, q, n, nx2, pv2)
  PROVE  Rings([ring EXCEPT ![l] = q], [len EXCEPT ![l] = n], nx2, pv2)
<1> DEFINE ring2 == [ring EXCEPT ![l] = q]
           len2 == [len EXCEPT ![l] = n]
<1>1. /\ Rings(ring, len, nx, pv) /\ DOMAIN ring = Heads /\ DOMAIN len = Heads
      /\ l \in Heads /\ RingOf(l, q, n, nx2, pv2)
      /\ \A m \in Heads \ {l} :
           /\ BodyOf(q, n) \cap BodyOf(ring[m], len[m]) = {}
           /\ \A x \in BodyOf(ring[m], len[m]) \cup {m} : nx2[x] = nx[x] /\ pv2[x] = pv[x]
      /\ \A x \in ListNodes \ BodyOf(q, n) :
           (\A m \in Heads \ {l} : x \notin BodyOf(ring[m], len[m])) => nx2[x] = Null /\ pv2[x] = Null
  BY DEF OneChanges
<1>2. ring2[l] = q /\ len2[l] = n /\ \A m \in Heads \ {l} : ring2[m] = ring[m] /\ len2[m] = len[m]
  BY <1>1
<1> HIDE DEF ring2, len2
<1>3. ASSUME NEW m \in Heads PROVE RingOf(m, ring2[m], len2[m], nx2, pv2)
  <2>1. CASE m = l
    BY <1>1, <1>2, <2>1
  <2>2. CASE m # l
    <3> DEFINE r == ring[m]
               k == len[m]
    <3>1. RingOf(m, r, k, nx, pv)
      BY <1>1 DEF Rings
    <3>2. \A i \in 0..k : r[i] \in BodyOf(r, k) \cup {m}
      <4>1. k \in Nat /\ \A i \in 0..(k + 1) : r[i] \in BodyOf(r, k) \cup {m}
        BY <3>1, RingNodes
      <4>2. \A i \in 0..k : i \in 0..(k + 1)
        BY <4>1
      <4> QED BY <4>1, <4>2
    <3>3. \A i \in 0..k : nx2[r[i]] = nx[r[i]] /\ pv2[r[i]] = pv[r[i]]
      BY <1>1, <2>2, <3>2
    <3> HIDE DEF r, k
    <3>4. RingOf(m, r, k, nx2, pv2)
      BY <3>1, <3>3, RingKept
    <3> QED BY <1>2, <2>2, <3>4 DEF r, k
  <2> QED BY <2>1, <2>2
<1>4. Disjoint(ring2, len2)
  <2> SUFFICES ASSUME NEW a \in Heads, NEW b \in Heads, a # b
               PROVE  BodyOf(ring2[a], len2[a]) \cap BodyOf(ring2[b], len2[b]) = {}
    BY DEF Disjoint
  <2>1. CASE a = l
    <3>1. b \in Heads \ {l}
      BY <2>1
    <3> QED BY <1>1, <1>2, <2>1, <3>1
  <2>2. CASE b = l
    <3>1. a \in Heads \ {l}
      BY <2>2
    <3> QED BY <1>1, <1>2, <2>2, <3>1
  <2>3. CASE a # l /\ b # l
    BY <1>1, <1>2, <2>3 DEF Rings, Disjoint
  <2> QED BY <2>1, <2>2, <2>3
<1>5. OthersFree(ring2, len2, nx2, pv2)
  <2> SUFFICES ASSUME NEW x \in ListNodes, \A m \in Heads : x \notin BodyOf(ring2[m], len2[m])
               PROVE  nx2[x] = Null /\ pv2[x] = Null
    BY DEF OthersFree
  <2>1. x \notin BodyOf(q, n) /\ \A m \in Heads \ {l} : x \notin BodyOf(ring[m], len[m])
    BY <1>1, <1>2
  <2> QED BY <1>1, <2>1
<1> QED BY <1>3, <1>4, <1>5 DEF Rings, ring2, len2

(* The rings of a state, named. *)
RingsAre(ring) ==
    /\ DOMAIN next = Linkable /\ DOMAIN prev = Linkable /\ DOMAIN length = Heads
    /\ DOMAIN ring = Heads /\ Rings(ring, length, next, prev)

LEMMA ShapeHolds == RingInv => \E ring : RingsAre(ring)
BY DEF RingInv, RingsAre

LEMMA ShapeIsInv ==
  ASSUME NEW ring, DOMAIN next' = Linkable, DOMAIN prev' = Linkable, DOMAIN length' = Heads,
         DOMAIN ring = Heads, Rings(ring, length', next', prev')
  PROVE  RingInv'
BY DEF RingInv

LEMMA ShapeMeans ==
  ASSUME NEW ring, RingsAre(ring), NEW l \in Heads
  PROVE  /\ RingOf(l, ring[l], length[l], next, prev) /\ length[l] \in Nat
         /\ Members(l) = BodyOf(ring[l], length[l])
<1>1. RingOf(l, ring[l], length[l], next, prev)
  BY DEF RingsAre, Rings
<1> QED BY <1>1, MetIs, RingNodes

LEMMA LinkAfterKeeps ==
  ASSUME NEW ring, RingsAre(ring), NEW l \in Heads, NEW new \in ListNodes, Free(new), NEW i \in 0..length[l],
         LinkAfter(l, ring[l][i], new)
  PROVE  RingInv'
<1> DEFINE r == ring[l]
           n == length[l]
           pos == r[i]
           q == RingWith(r, i, new)
           nx == next
           pv == prev
           nx2 == LinkedNext(nx, pos, new)
           pv2 == LinkedPrev(nx, pv, pos, new)
           len == length
           own == BodyOf(r, n) \cup {l}
<1>1. RingOf(l, r, n, nx, pv) /\ n \in Nat
  BY ShapeMeans
<1>2. Rings(ring, len, nx, pv) /\ DOMAIN ring = Heads /\ DOMAIN len = Heads
      /\ DOMAIN nx = Linkable /\ DOMAIN pv = Linkable
  BY DEF RingsAre
<1>3. \A m \in Heads : new \notin BodyOf(ring[m], len[m])
  <2>1. nx[new] = Null
    BY DEF Free
  <2> HIDE DEF nx, len
  <2> QED BY <1>2, <2>1, FreeNodesOutside
<1>4. next' = nx2 /\ prev' = pv2 /\ length' = [len EXCEPT ![l] = n + 1]
  BY DEF LinkAfter, LinkedNext, LinkedPrev
<1>5. i \in 0..n /\ new \notin BodyOf(r, n) /\ own = BodyOf(ring[l], len[l]) \cup {l}
  BY <1>3
<1> HIDE DEF r, n, nx, pv, len
<1>6. RingOf(l, q, n + 1, nx2, pv2) /\ BodyOf(q, n + 1) = BodyOf(r, n) \cup {new}
  BY <1>1, <1>2, <1>5, RingGrows
<1>7. \A x \in Linkable \ (own \cup {new}) : nx2[x] = nx[x] /\ pv2[x] = pv[x]
  <2>1. pos \in own /\ nx[pos] \in own
    <3>1. i \in 0..(n + 1) /\ i + 1 \in 0..(n + 1) /\ nx[pos] = r[i + 1]
      BY <1>1, <1>5 DEF RingOf
    <3>2. \A k \in 0..(n + 1) : r[k] \in own
      BY <1>1, RingNodes
    <3> QED BY <3>1, <3>2
  <2> HIDE DEF pos
  <2> QED BY <1>2, <2>1 DEF LinkedNext, LinkedPrev
<1>8. \A m \in Heads \ {l} : own \cap (BodyOf(ring[m], len[m]) \cup {m}) = {}
  BY <1>2, <1>5, RingsApart
<1>9. new \notin Heads /\ Heads \subseteq Linkable /\ ListNodes \subseteq Linkable
      /\ ListNodes \cap Heads = {}
  BY ListAssumption DEF Linkable
<1>10. \A m \in Heads : BodyOf(ring[m], len[m]) \subseteq ListNodes
  <2>1. \A m \in Heads : RingOf(m, ring[m], len[m], nx, pv)
    BY <1>2 DEF Rings
  <2> QED BY <2>1, RingNodes
<1> HIDE DEF q, nx2, pv2, pos
<1>11. \A m \in Heads \ {l} : BodyOf(q, n + 1) \cap BodyOf(ring[m], len[m]) = {}
  BY <1>3, <1>6, <1>8
<1>12. \A m \in Heads \ {l} : \A x \in BodyOf(ring[m], len[m]) \cup {m} : nx2[x] = nx[x] /\ pv2[x] = pv[x]
  BY <1>3, <1>7, <1>8, <1>9, <1>10
<1>13. \A x \in ListNodes \ BodyOf(q, n + 1) :
         (\A m \in Heads \ {l} : x \notin BodyOf(ring[m], len[m])) => nx2[x] = Null /\ pv2[x] = Null
  <2> SUFFICES ASSUME NEW x \in ListNodes \ BodyOf(q, n + 1), \A m \in Heads \ {l} : x \notin BodyOf(ring[m], len[m])
               PROVE  nx2[x] = Null /\ pv2[x] = Null
    OBVIOUS
  <2>1. x \notin BodyOf(r, n) /\ x # new /\ x # l
    BY <1>6, <1>9
  <2>2. nx2[x] = nx[x] /\ pv2[x] = pv[x]
    BY <1>7, <1>9, <2>1
  <2>3. \A m \in Heads : x \notin BodyOf(ring[m], len[m])
    BY <2>1 DEF r, n, len
  <2> QED BY <1>2, <2>2, <2>3 DEF Rings, OthersFree
<1> DEFINE ring2 == [ring EXCEPT ![l] = q]
           len2 == [len EXCEPT ![l] = n + 1]
<1>14. Rings(ring2, len2, nx2, pv2)
  <2>1. OneChanges(ring, len, nx, pv, l, q, n + 1, nx2, pv2)
    BY <1>2, <1>6, <1>11, <1>12, <1>13 DEF OneChanges
  <2> QED BY <2>1, OneRingChanges
<1>15. DOMAIN ring2 = Heads /\ DOMAIN len2 = Heads
  BY <1>2
<1>16. DOMAIN nx2 = Linkable /\ DOMAIN pv2 = Linkable
  BY <1>2 DEF nx2, pv2, LinkedNext, LinkedPrev
<1> HIDE DEF ring2, len2
<1>17. next' = nx2 /\ prev' = pv2 /\ length' = len2
  BY <1>4 DEF len2
<1> QED BY <1>14, <1>15, <1>16, <1>17, ShapeIsInv

(* A state after a change of the ring of l alone. *)
LEMMA OneChangeKeeps ==
  ASSUME NEW ring, NEW l, NEW q, NEW n,
         OneChanges(ring, length, next, prev, l, q, n, next', prev'),
         DOMAIN next' = Linkable, DOMAIN prev' = Linkable, length' = [length EXCEPT ![l] = n]
  PROVE  RingInv'
<1> DEFINE ring2 == [ring EXCEPT ![l] = q]
           len2 == [length EXCEPT ![l] = n]
<1>1. Rings(ring2, len2, next', prev')
  BY OneRingChanges
<1>2. DOMAIN ring2 = Heads /\ DOMAIN len2 = Heads
  BY DEF OneChanges
<1> HIDE DEF ring2, len2
<1>3. length' = len2
  BY DEF len2
<1> QED BY <1>1, <1>2, <1>3, ShapeIsInv

LEMMA UnlinkKeeps ==
  ASSUME NEW ring, RingsAre(ring), NEW l \in Heads, NEW i \in 1..length[l], Unlink(l, ring[l][i])
  PROVE  RingInv'
<1> DEFINE r == ring[l]
           n == length[l]
           x == r[i]
           q == RingWithout(r, i)
           nx == next
           pv == prev
           nx2 == UnlinkedNext(nx, pv, x)
           pv2 == UnlinkedPrev(nx, pv, x)
           len == length
           own == BodyOf(r, n) \cup {l}
<1>1. RingOf(l, r, n, nx, pv) /\ n \in Nat
  BY ShapeMeans
<1>2. Rings(ring, len, nx, pv) /\ DOMAIN ring = Heads /\ DOMAIN len = Heads
      /\ DOMAIN nx = Linkable /\ DOMAIN pv = Linkable
  BY DEF RingsAre
<1>3. next' = nx2 /\ prev' = pv2 /\ length' = [len EXCEPT ![l] = n - 1]
  BY DEF Unlink, UnlinkedNext, UnlinkedPrev
<1>4. i \in 1..n /\ own = BodyOf(ring[l], len[l]) \cup {l}
  OBVIOUS
<1> HIDE DEF r, n, nx, pv, len
<1>5. /\ RingOf(l, q, n - 1, nx2, pv2) /\ BodyOf(q, n - 1) = BodyOf(r, n) \ {x}
      /\ nx2[x] = Null /\ pv2[x] = Null
      /\ \A y \in Linkable \ own : nx2[y] = nx[y] /\ pv2[y] = pv[y]
  BY <1>1, <1>2, <1>4, RingShrinks
<1>6. \A m \in Heads \ {l} : own \cap (BodyOf(ring[m], len[m]) \cup {m}) = {}
  BY <1>2, <1>4, RingsApart
<1>7. Heads \subseteq Linkable /\ ListNodes \subseteq Linkable /\ ListNodes \cap Heads = {}
  BY ListAssumption DEF Linkable
<1>8. \A m \in Heads : BodyOf(ring[m], len[m]) \subseteq ListNodes
  <2>1. \A m \in Heads : RingOf(m, ring[m], len[m], nx, pv)
    BY <1>2 DEF Rings
  <2> QED BY <2>1, RingNodes
<1>9. DOMAIN nx2 = Linkable /\ DOMAIN pv2 = Linkable
  BY <1>2 DEF UnlinkedNext, UnlinkedPrev
<1> HIDE DEF q, nx2, pv2, x
<1>10. \A m \in Heads \ {l} : BodyOf(q, n - 1) \cap BodyOf(ring[m], len[m]) = {}
  BY <1>5, <1>6
<1>11. \A m \in Heads \ {l} : \A y \in BodyOf(ring[m], len[m]) \cup {m} : nx2[y] = nx[y] /\ pv2[y] = pv[y]
  BY <1>5, <1>6, <1>7, <1>8
<1>12. \A y \in ListNodes \ BodyOf(q, n - 1) :
         (\A m \in Heads \ {l} : y \notin BodyOf(ring[m], len[m])) => nx2[y] = Null /\ pv2[y] = Null
  <2> SUFFICES ASSUME NEW y \in ListNodes \ BodyOf(q, n - 1), \A m \in Heads \ {l} : y \notin BodyOf(ring[m], len[m])
               PROVE  nx2[y] = Null /\ pv2[y] = Null
    OBVIOUS
  <2>1. CASE y = x
    BY <1>5, <2>1
  <2>2. CASE y # x
    <3>1. y \notin BodyOf(r, n) /\ y # l
      BY <1>5, <1>7, <2>2
    <3>2. nx2[y] = nx[y] /\ pv2[y] = pv[y]
      BY <1>5, <1>7, <3>1
    <3>3. \A m \in Heads : y \notin BodyOf(ring[m], len[m])
      BY <3>1 DEF r, n, len
    <3> QED BY <1>2, <3>2, <3>3 DEF Rings, OthersFree
  <2> QED BY <2>1, <2>2
<1>13. OneChanges(ring, len, nx, pv, l, q, n - 1, nx2, pv2)
  BY <1>2, <1>5, <1>10, <1>11, <1>12 DEF OneChanges
<1>14. OneChanges(ring, length, next, prev, l, q, n - 1, next', prev')
  BY <1>3, <1>13 DEF len, nx, pv
<1>15. DOMAIN next' = Linkable /\ DOMAIN prev' = Linkable /\ length' = [length EXCEPT ![l] = n - 1]
  BY <1>3, <1>9 DEF len
<1> QED BY <1>14, <1>15, OneChangeKeeps

LEMMA ClearKeeps ==
  ASSUME NEW ring, RingsAre(ring), NEW l \in Heads, ClearList(l) PROVE RingInv'
<1> DEFINE own == BodyOf(ring[l], length[l])
           q == [k \in Nat |-> l]
<1>1. /\ next' = [x \in Linkable |-> IF x \in own THEN Null ELSE IF x = l THEN l ELSE next[x]]
      /\ prev' = [x \in Linkable |-> IF x \in own THEN Null ELSE IF x = l THEN l ELSE prev[x]]
      /\ length' = [length EXCEPT ![l] = 0]
  BY ShapeMeans DEF ClearList
<1>2. Rings(ring, length, next, prev) /\ DOMAIN ring = Heads /\ DOMAIN length = Heads
  BY DEF RingsAre
<1>3. \A m \in Heads : BodyOf(ring[m], length[m]) \subseteq ListNodes
  <2>1. \A m \in Heads : RingOf(m, ring[m], length[m], next, prev)
    BY <1>2 DEF Rings
  <2> QED BY <2>1, RingNodes
<1>4. Heads \subseteq Linkable /\ ListNodes \subseteq Linkable /\ ListNodes \cap Heads = {}
  BY ListAssumption DEF Linkable
<1>5. \A m \in Heads \ {l} : (own \cup {l}) \cap (BodyOf(ring[m], length[m]) \cup {m}) = {}
  BY <1>2, RingsApart
<1>6. \A x \in Linkable \ (own \cup {l}) : next'[x] = next[x] /\ prev'[x] = prev[x]
  BY <1>1
<1>7. \A x \in own : next'[x] = Null /\ prev'[x] = Null
  BY <1>1, <1>3, <1>4
<1>8. next'[l] = l /\ prev'[l] = l
  BY <1>1, <1>3, <1>4
<1>9. RingOf(l, q, 0, next', prev') /\ BodyOf(q, 0) = {}
  BY <1>8, RingEmpty
<1> HIDE DEF q
<1>10. \A m \in Heads \ {l} : \A x \in BodyOf(ring[m], length[m]) \cup {m} : next'[x] = next[x] /\ prev'[x] = prev[x]
  BY <1>3, <1>4, <1>5, <1>6
<1>11. \A x \in ListNodes \ BodyOf(q, 0) :
         (\A m \in Heads \ {l} : x \notin BodyOf(ring[m], length[m])) => next'[x] = Null /\ prev'[x] = Null
  <2> SUFFICES ASSUME NEW x \in ListNodes, \A m \in Heads \ {l} : x \notin BodyOf(ring[m], length[m])
               PROVE  next'[x] = Null /\ prev'[x] = Null
    OBVIOUS
  <2>1. CASE x \in own
    BY <1>7, <2>1
  <2>2. CASE x \notin own
    <3>1. next'[x] = next[x] /\ prev'[x] = prev[x]
      BY <1>4, <1>6, <2>2
    <3>2. \A m \in Heads : x \notin BodyOf(ring[m], length[m])
      BY <2>2
    <3> QED BY <1>2, <3>1, <3>2 DEF Rings, OthersFree
  <2> QED BY <2>1, <2>2
<1>12. OneChanges(ring, length, next, prev, l, q, 0, next', prev')
  BY <1>2, <1>9, <1>10, <1>11 DEF OneChanges
<1>13. DOMAIN next' = Linkable /\ DOMAIN prev' = Linkable
  BY <1>1
<1> QED BY <1>1, <1>12, <1>13, OneChangeKeeps

LEMMA MoveListKeeps ==
  ASSUME NEW ring, RingsAre(ring), NEW to \in Heads, NEW from \in Heads, MoveList(to, from) PROVE RingInv'
<1> DEFINE old == BodyOf(ring[to], length[to])
           r == ring[from]
           n == length[from]
           own == BodyOf(r, n)
           Moved(f) == [x \in Linkable |->
                          IF x \in old THEN Null
                          ELSE IF x = from THEN from
                          ELSE IF x = to THEN Swapped(f[from], from, to)
                          ELSE IF x \in own THEN Swapped(f[x], from, to) ELSE f[x]]
           q == Under(r, from, to)
           e == [k \in Nat |-> from]
           ring2 == [ring EXCEPT ![to] = q, ![from] = e]
           len2 == [length EXCEPT ![to] = n, ![from] = 0]
<1>1. to # from /\ next' = Moved(next) /\ prev' = Moved(prev) /\ length' = len2
  BY ShapeMeans DEF MoveList, Swapped
<1>2. Rings(ring, length, next, prev) /\ DOMAIN ring = Heads /\ DOMAIN length = Heads
      /\ RingOf(from, r, n, next, prev)
  BY ShapeMeans DEF RingsAre
<1>3. \A m \in Heads : BodyOf(ring[m], length[m]) \subseteq ListNodes
  <2>1. \A m \in Heads : RingOf(m, ring[m], length[m], next, prev)
    BY <1>2 DEF Rings
  <2> QED BY <2>1, RingNodes
<1>4. Heads \subseteq Linkable /\ ListNodes \subseteq Linkable /\ ListNodes \cap Heads = {}
  BY ListAssumption DEF Linkable
<1>5. \A l, m \in Heads : l # m => (BodyOf(ring[l], length[l]) \cup {l}) \cap (BodyOf(ring[m], length[m]) \cup {m}) = {}
  BY <1>2, RingsApart
<1>6. own \subseteq ListNodes /\ old \subseteq ListNodes /\ (own \cup {from}) \cap (old \cup {to}) = {}
  BY <1>1, <1>3, <1>5
<1>7. /\ \A x \in old : next'[x] = Null /\ prev'[x] = Null
      /\ next'[from] = from /\ prev'[from] = from
      /\ next'[to] = Swapped(next[from], from, to) /\ prev'[to] = Swapped(prev[from], from, to)
      /\ \A x \in own : next'[x] = Swapped(next[x], from, to) /\ prev'[x] = Swapped(prev[x], from, to)
      /\ \A x \in Linkable \ (old \cup own \cup {to, from}) : next'[x] = next[x] /\ prev'[x] = prev[x]
  <2>1. /\ \A x \in old : x \in Linkable
        /\ from \in Linkable /\ from \notin old
        /\ to \in Linkable /\ to \notin old /\ to # from
        /\ \A x \in own : x \in Linkable /\ x \notin old /\ x # from /\ x # to
    BY <1>1, <1>4, <1>6
  <2> HIDE DEF old, own
  <2> QED BY <1>1, <2>1
<1>8. RingOf(from, e, 0, next', prev') /\ BodyOf(e, 0) = {}
  BY <1>7, RingEmpty
<1>9. RingOf(to, q, n, next', prev') /\ BodyOf(q, n) = own
  <2>1. \A x \in own \cup {from} :
           /\ next'[Swapped(x, from, to)] = Swapped(next[x], from, to)
           /\ prev'[Swapped(x, from, to)] = Swapped(prev[x], from, to)
    BY <1>4, <1>6, <1>7 DEF Swapped
  <2>2. CarriedOver(r, n, from, to, next, prev, next', prev')
    BY <1>1, <1>2, <2>1 DEF CarriedOver
  <2> HIDE DEF r, n
  <2> QED BY <2>2, RingMoved
<1> HIDE DEF q, e
<1>10. /\ ring2[to] = q /\ len2[to] = n /\ ring2[from] = e /\ len2[from] = 0
       /\ \A m \in Heads \ {to, from} : ring2[m] = ring[m] /\ len2[m] = length[m]
       /\ DOMAIN ring2 = Heads /\ DOMAIN len2 = Heads
  BY <1>1, <1>2
<1> HIDE DEF ring2, len2
<1>11. ASSUME NEW m \in Heads PROVE RingOf(m, ring2[m], len2[m], next', prev')
  <2>1. CASE m = to
    BY <1>9, <1>10, <2>1
  <2>2. CASE m = from
    BY <1>8, <1>10, <2>2
  <2>3. CASE m \notin {to, from}
    <3> DEFINE s == ring[m]
               k == length[m]
    <3>1. RingOf(m, s, k, next, prev)
      BY <1>2 DEF Rings
    <3>2. \A i \in 0..k : s[i] \in BodyOf(s, k) \cup {m}
      <4>1. k \in Nat /\ \A i \in 0..(k + 1) : s[i] \in BodyOf(s, k) \cup {m}
        BY <3>1, RingNodes
      <4>2. \A i \in 0..k : i \in 0..(k + 1)
        BY <4>1
      <4> QED BY <4>1, <4>2
    <3>3. \A x \in BodyOf(s, k) \cup {m} : next'[x] = next[x] /\ prev'[x] = prev[x]
      <4>1. BodyOf(s, k) \cup {m} \subseteq Linkable
        BY <1>3, <1>4
      <4>2. (BodyOf(s, k) \cup {m}) \cap (old \cup {to}) = {} /\ (BodyOf(s, k) \cup {m}) \cap (own \cup {from}) = {}
        BY <1>5, <2>3
      <4> HIDE DEF s, k, old, own
      <4> QED BY <1>7, <4>1, <4>2
    <3>4. \A i \in 0..k : next'[s[i]] = next[s[i]] /\ prev'[s[i]] = prev[s[i]]
      BY <3>2, <3>3
    <3> HIDE DEF s, k
    <3>5. RingOf(m, s, k, next', prev')
      BY <3>1, <3>4, RingKept
    <3> QED BY <1>10, <2>3, <3>5 DEF s, k
  <2> QED BY <2>1, <2>2, <2>3
<1>12. /\ BodyOf(ring2[to], len2[to]) = own /\ BodyOf(ring2[from], len2[from]) = {}
       /\ \A m \in Heads \ {to, from} : BodyOf(ring2[m], len2[m]) = BodyOf(ring[m], length[m])
  BY <1>8, <1>9, <1>10
<1>13. Disjoint(ring2, len2)
  <2> SUFFICES ASSUME NEW a \in Heads, NEW b \in Heads, a # b
               PROVE  BodyOf(ring2[a], len2[a]) \cap BodyOf(ring2[b], len2[b]) = {}
    BY DEF Disjoint
  <2>1. \A m \in Heads \ {to, from} : BodyOf(ring[m], length[m]) \cap own = {}
    BY <1>5
  <2>2. BodyOf(ring[a], length[a]) \cap BodyOf(ring[b], length[b]) = {}
    BY <1>5
  <2> HIDE DEF own
  <2> QED BY <1>12, <2>1, <2>2
<1>14. OthersFree(ring2, len2, next', prev')
  <2> SUFFICES ASSUME NEW x \in ListNodes, \A m \in Heads : x \notin BodyOf(ring2[m], len2[m])
               PROVE  next'[x] = Null /\ prev'[x] = Null
    BY DEF OthersFree
  <2>1. x \notin own /\ \A m \in Heads \ {to, from} : x \notin BodyOf(ring[m], length[m])
    BY <1>12
  <2>2. CASE x \in old
    BY <1>7, <2>2
  <2>3. CASE x \notin old
    <3>1. next'[x] = next[x] /\ prev'[x] = prev[x]
      BY <1>4, <1>7, <2>1, <2>3
    <3>2. \A m \in Heads : x \notin BodyOf(ring[m], length[m])
      BY <2>1, <2>3
    <3> QED BY <1>2, <3>1, <3>2 DEF Rings, OthersFree
  <2> QED BY <2>2, <2>3
<1>15. Rings(ring2, len2, next', prev')
  BY <1>11, <1>13, <1>14 DEF Rings
<1>16. DOMAIN next' = Linkable /\ DOMAIN prev' = Linkable
  BY <1>1
<1> QED BY <1>1, <1>10, <1>15, <1>16, ShapeIsInv

LEMMA RingInvHoldsFirst == ContainersInit => RingInv
<1> SUFFICES ASSUME ContainersInit PROVE RingInv
  OBVIOUS
<1> DEFINE ring == [l \in Heads |-> [k \in Nat |-> l]]
<1>1. /\ next = [x \in Linkable |-> IF x \in Heads THEN x ELSE Null] /\ prev = next
      /\ length = [l \in Heads |-> 0]
  BY DEF ContainersInit, ListInit
<1>2. \A l \in Heads : ring[l] = [k \in Nat |-> l] /\ length[l] = 0 /\ next[l] = l /\ prev[l] = l
  BY <1>1 DEF Linkable
<1>3. \A x \in ListNodes : next[x] = Null /\ prev[x] = Null
  BY <1>1, ListAssumption DEF Linkable
<1>4. DOMAIN ring = Heads /\ DOMAIN next = Linkable /\ DOMAIN prev = Linkable /\ DOMAIN length = Heads
  BY <1>1
<1> HIDE DEF ring
<1>5. \A l \in Heads : RingOf(l, ring[l], length[l], next, prev) /\ BodyOf(ring[l], length[l]) = {}
  BY <1>2, RingEmpty
<1>6. Rings(ring, length, next, prev)
  BY <1>3, <1>5 DEF Rings, Disjoint, OthersFree
<1> QED BY <1>4, <1>6 DEF RingInv

(* Where the links of a list lead. *)
LEMMA LinksOfList ==
  ASSUME NEW ring, RingsAre(ring), NEW l \in Heads
  PROVE  /\ length[l] \in Nat
         /\ ring[l][0] = l /\ prev[l] = ring[l][length[l]] /\ next[l] = ring[l][1]
         /\ \A x \in Members(l) : \E i \in 1..length[l] : x = ring[l][i] /\ prev[x] = ring[l][i - 1]
<1> DEFINE r == ring[l]
           n == length[l]
<1>1. RingOf(l, r, n, next, prev) /\ n \in Nat /\ Members(l) = BodyOf(r, n)
  BY ShapeMeans
<1> HIDE DEF r, n
<1>2. r[0] = l /\ r[n + 1] = l /\ \A i \in 0..n : next[r[i]] = r[i + 1] /\ prev[r[i + 1]] = r[i]
  BY <1>1 DEF RingOf
<1>3. prev[l] = r[n] /\ next[l] = r[1]
  <2>1. n \in 0..n /\ 0 \in 0..n /\ 0 + 1 = 1
    BY <1>1
  <2> QED BY <1>2, <2>1
<1>4. \A i \in 1..n : prev[r[i]] = r[i - 1]
  <2>1. \A i \in 1..n : i - 1 \in 0..n /\ i - 1 + 1 = i
    BY <1>1
  <2> QED BY <1>2, <2>1
<1> QED BY <1>1, <1>2, <1>3, <1>4 DEF BodyOf, r, n

LEMMA ListStepKeeps == ASSUME RingInv, ListNext PROVE RingInv'
<1>1. PICK ring : RingsAre(ring)
  BY ShapeHolds
<1>2. PICK l \in Heads :
        \/ \E n \in ListNodes :
             \/ PushFront(l, n) \/ PushBack(l, n) \/ EraseAt(l, n)
             \/ \E pos \in Members(l) \cup {l} : InsertBefore(l, pos, n)
        \/ PopFront(l) \/ PopBack(l) \/ ClearList(l)
        \/ \E from \in Heads : MoveList(l, from)
  BY DEF ListNext
<1>3. /\ length[l] \in Nat
      /\ ring[l][0] = l /\ prev[l] = ring[l][length[l]] /\ next[l] = ring[l][1]
      /\ \A x \in Members(l) : \E i \in 1..length[l] : x = ring[l][i] /\ prev[x] = ring[l][i - 1]
  BY <1>1, LinksOfList
<1>4. ASSUME NEW n \in ListNodes, NEW i \in 0..length[l], Free(n), LinkAfter(l, ring[l][i], n) PROVE RingInv'
  BY <1>1, <1>4, LinkAfterKeeps
<1>5. ASSUME NEW i \in 1..length[l], Unlink(l, ring[l][i]) PROVE RingInv'
  BY <1>1, <1>5, UnlinkKeeps
<1>6. ASSUME NEW n \in ListNodes, PushFront(l, n) PROVE RingInv'
  <2>1. Free(n) /\ LinkAfter(l, ring[l][0], n) /\ 0 \in 0..length[l]
    BY <1>3, <1>6 DEF PushFront
  <2> QED BY <1>4, <2>1
<1>7. ASSUME NEW n \in ListNodes, PushBack(l, n) PROVE RingInv'
  <2>1. Free(n) /\ LinkAfter(l, ring[l][length[l]], n) /\ length[l] \in 0..length[l]
    BY <1>3, <1>7 DEF PushBack
  <2> QED BY <1>4, <2>1
<1>8. ASSUME NEW n \in ListNodes, EraseAt(l, n) PROVE RingInv'
  <2>1. n \in Members(l) /\ Unlink(l, n)
    BY <1>8 DEF EraseAt
  <2>2. PICK i \in 1..length[l] : n = ring[l][i]
    BY <1>3, <2>1
  <2>3. Unlink(l, ring[l][i])
    BY <2>1, <2>2
  <2> QED BY <1>5, <2>3
<1>9. ASSUME NEW n \in ListNodes, NEW pos \in Members(l) \cup {l}, InsertBefore(l, pos, n) PROVE RingInv'
  <2>1. Free(n) /\ LinkAfter(l, prev[pos], n)
    BY <1>9 DEF InsertBefore
  <2>2. \E i \in 0..length[l] : prev[pos] = ring[l][i]
    <3>1. CASE pos \in Members(l)
      <4>1. PICK i \in 1..length[l] : prev[pos] = ring[l][i - 1]
        BY <1>3, <3>1
      <4>2. i - 1 \in 0..length[l]
        BY <1>3
      <4> QED BY <4>1, <4>2
    <3>2. CASE pos = l
      BY <1>3, <3>2
    <3> QED BY <3>1, <3>2
  <2>3. PICK i \in 0..length[l] : prev[pos] = ring[l][i]
    BY <2>2
  <2>4. LinkAfter(l, ring[l][i], n)
    BY <2>1, <2>3
  <2> QED BY <1>4, <2>1, <2>4
<1>10. CASE PopFront(l)
  <2>1. 1 \in 1..length[l] /\ Unlink(l, ring[l][1])
    BY <1>3, <1>10 DEF PopFront
  <2> QED BY <1>5, <2>1
<1>11. CASE PopBack(l)
  <2>1. length[l] \in 1..length[l] /\ Unlink(l, ring[l][length[l]])
    BY <1>3, <1>11 DEF PopBack
  <2> QED BY <1>5, <2>1
<1>12. CASE ClearList(l)
  BY <1>1, <1>12, ClearKeeps
<1>13. ASSUME NEW from \in Heads, MoveList(l, from) PROVE RingInv'
  BY <1>1, <1>13, MoveListKeeps
<1> QED BY <1>2, <1>6, <1>7, <1>8, <1>9, <1>10, <1>11, <1>12, <1>13

LEMMA NextKeepsRings == ASSUME RingInv, [ContainersNext]_containerVars PROVE RingInv'
<1>1. CASE UNCHANGED listVars
  BY <1>1 DEF RingInv, listVars
<1>2. CASE ListNext
  BY <1>2, ListStepKeeps
<1> QED BY <1>1, <1>2 DEF ContainersNext, containerVars

(* As many nodes as are counted. *)
LEMMA BodyCounts ==
  ASSUME NEW l, NEW r, NEW n, NEW nx, NEW pv, RingOf(l, r, n, nx, pv)
  PROVE  Cardinality(BodyOf(r, n)) = n
<1> DEFINE f == [i \in 1..n |-> r[i]]
<1>1. n \in Nat /\ \A i, j \in 1..n : r[i] = r[j] => i = j
  <2>1. n \in Nat /\ \A i, j \in 0..n : r[i] = r[j] => i = j
    BY DEF RingOf
  <2>2. \A i \in 1..n : i \in 0..n
    BY <2>1
  <2> QED BY <2>1, <2>2
<1>2. f \in Bijection(1..n, BodyOf(r, n))
  <2> DEFINE B == BodyOf(r, n)
  <2>1. (\A i \in 1..n : r[i] \in B) /\ (\A x \in B : \E i \in 1..n : r[i] = x)
    BY DEF BodyOf
  <2> HIDE DEF B
  <2>2. f \in [1..n -> B] /\ \A i \in 1..n : f[i] = r[i]
    BY <2>1
  <2> HIDE DEF f
  <2>3. f \in Injection(1..n, B)
    BY <1>1, <2>2 DEF Injection, IsInjective
  <2>4. f \in Surjection(1..n, B)
    BY <2>1, <2>2 DEF Surjection
  <2>5. f \in Bijection(1..n, B)
    BY <2>3, <2>4 DEF Bijection
  <2> QED BY <2>5 DEF B
<1>3. ExistsBijection(1..n, BodyOf(r, n))
  BY <1>2 DEF ExistsBijection
<1>4. IsFiniteSet(1..n) /\ Cardinality(1..n) = n
  BY <1>1, FS_Interval
<1> QED BY <1>3, <1>4, FS_Bijection

LEMMA RingsAreClosed == RingInv => RingsClosed
<1> SUFFICES ASSUME RingInv PROVE RingsClosed
  OBVIOUS
<1>1. PICK ring : RingsAre(ring)
  BY ShapeHolds
<1>2. Rings(ring, length, next, prev)
  BY <1>1 DEF RingsAre
<1>3. \A l \in Heads : Members(l) = BodyOf(ring[l], length[l]) /\ RingOf(l, ring[l], length[l], next, prev)
  BY <1>1, ShapeMeans
<1>4. ASSUME NEW l \in Heads
      PROVE  /\ Members(l) \subseteq ListNodes /\ Cardinality(Members(l)) = length[l]
             /\ next[IF length[l] = 0 THEN l ELSE Met(l)[length[l]]] = l
             /\ \A x \in Members(l) \cup {l} : prev[next[x]] = x
             /\ \A m \in Heads \ {l} : Members(l) \cap Members(m) = {}
  <2> DEFINE r == ring[l]
             n == length[l]
  <2>1. RingOf(l, r, n, next, prev) /\ Members(l) = BodyOf(r, n) /\ Met(l) = [i \in 1..n |-> r[i]]
    BY <1>3, MetIs
  <2>2. Members(l) \subseteq ListNodes /\ Cardinality(Members(l)) = n
    BY <2>1, BodyCounts, RingNodes
  <2>3. \A m \in Heads \ {l} : Members(l) \cap Members(m) = {}
    BY <1>2, <1>3 DEF Rings, Disjoint
  <2> HIDE DEF r, n
  <2>4. /\ n \in Nat /\ r[0] = l /\ r[n + 1] = l
        /\ \A i \in 0..n : next[r[i]] = r[i + 1] /\ prev[r[i + 1]] = r[i]
    BY <2>1 DEF RingOf
  <2>5. (IF n = 0 THEN l ELSE Met(l)[n]) = r[n]
    BY <2>1, <2>4
  <2>6. next[IF n = 0 THEN l ELSE Met(l)[n]] = l
    <3>1. n \in 0..n
      BY <2>4
    <3> QED BY <2>4, <2>5, <3>1
  <2>7. \A x \in Members(l) \cup {l} : prev[next[x]] = x
    <3> SUFFICES ASSUME NEW x \in Members(l) \cup {l} PROVE prev[next[x]] = x
      OBVIOUS
    <3>1. \E i \in 0..n : x = r[i]
      <4>1. \A i \in 1..n : i \in 0..n
        BY <2>4
      <4>2. 0 \in 0..n
        BY <2>4
      <4> QED BY <2>1, <2>4, <4>1, <4>2 DEF BodyOf
    <3> QED BY <2>4, <3>1
  <2> QED BY <2>2, <2>3, <2>6, <2>7 DEF n
<1>5. ASSUME NEW n \in ListNodes, \A l \in Heads : n \notin Members(l) PROVE next[n] = Null /\ prev[n] = Null
  BY <1>2, <1>3, <1>5 DEF Rings, OthersFree
<1> QED BY <1>4, <1>5 DEF RingsClosed

(* Each list is one ring through its head, of as many nodes as it counts,   *)
(* the same both ways; no node is in two, and one in none has no links:     *)
(* for any nodes, any lists and every sequence of calls, moves included.   *)
THEOREM RingsStayClosed == ContainersSpec => []RingsClosed
BY RingInvHoldsFirst, NextKeepsRings, RingsAreClosed, PTL DEF ContainersSpec

-----------------------------------------------------------------------------
(* Trees.  The loops of the code that go from node to node, down or up.    *)

(* Of the nodes in w, one has the least rank. *)
LEMMA LeastRank ==
  ASSUME NEW w, w # {}, NEW rank, \A n \in w : rank[n] \in Nat
  PROVE  \E n \in w : \A m \in w : rank[n] <= rank[m]
<1> DEFINE T == {rank[n] : n \in w}
<1>1. T \in SUBSET Nat /\ T # {}
  OBVIOUS
<1>2. PICK r \in T : \A q \in T : r <= q
  BY <1>1, Least
<1>3. PICK n \in w : rank[n] = r
  OBVIOUS
<1> QED BY <1>2, <1>3

(* f is what a loop returns that starts at a node of S, goes from n to      *)
(* step[n], and ends at a node of stop with last[n].                       *)
Walks(f, S, stop, step, last) ==
    f = [n \in S |-> IF n \in stop THEN last[n] ELSE f[step[n]]]

(* The loop stays in S and comes down in rank, from below top. *)
Falls(S, stop, step, rank, top) ==
    /\ top \in Nat
    /\ \A n \in S : rank[n] \in Nat /\ rank[n] < top
    /\ \A n \in S \ stop : step[n] \in S /\ rank[step[n]] < rank[n]

(* Such a loop ends, so that what it returns is well defined. *)
LEMMA WalkEnds ==
  ASSUME NEW S, NEW stop, NEW step, NEW last, NEW rank, NEW top, Falls(S, stop, step, rank, top)
  PROVE  \E f : Walks(f, S, stop, step, last)
<1> DEFINE Low(k) == {n \in S : rank[n] < k}
           K == {k \in Nat : \E f : Walks(f, Low(k), stop, step, last)}
<1>1. 0 \in K
  <2>1. Low(0) = {}
    BY DEF Falls
  <2> DEFINE f == [n \in {} |-> 0]
  <2>2. f = [n \in Low(0) |-> IF n \in stop THEN last[n] ELSE f[step[n]]]
    BY <2>1
  <2> QED BY <2>2 DEF Walks
<1>2. ASSUME NEW k \in Nat, k \in K PROVE k + 1 \in K
  <2>1. PICK f : Walks(f, Low(k), stop, step, last)
    BY <1>2
  <2> DEFINE g == [n \in Low(k + 1) |-> IF n \in stop THEN last[n] ELSE f[step[n]]]
  <2>2. ASSUME NEW n \in Low(k + 1), n \notin stop PROVE f[step[n]] = g[step[n]]
    <3> DEFINE m == step[n]
    <3>1. m \in Low(k) /\ m \in Low(k + 1)
      BY <2>2 DEF Falls
    <3>2. f[m] = IF m \in stop THEN last[m] ELSE f[step[m]]
      BY <2>1, <3>1 DEF Walks
    <3>3. g[m] = IF m \in stop THEN last[m] ELSE f[step[m]]
      BY <3>1
    <3> QED BY <3>2, <3>3
  <2>3. g = [n \in Low(k + 1) |-> IF n \in stop THEN last[n] ELSE g[step[n]]]
    BY <2>2
  <2> HIDE DEF g
  <2> QED BY <2>3 DEF Walks
<1>3. Nat \subseteq K
  <2> HIDE DEF K
  <2> QED BY <1>1, <1>2, SetInduction
<1>4. top \in K /\ Low(top) = S
  BY <1>3 DEF Falls
<1> QED BY <1>4

(* y lies beyond x on side d. *)
Past(d, x, y) == IF d = 1 THEN x < y ELSE y < x

(* The links of t go from nodes of N to nodes of N, and child and parent    *)
(* agree.                                                                  *)
Woven(t, N) ==
    /\ t \in [root : Nat, link : [DOMAIN t.link -> [{-1, 0, 1} -> Nat]]]
    /\ N \subseteq DOMAIN t.link /\ N \subseteq Nat \ {0} /\ IsFiniteSet(N)
    /\ IF N = {} THEN t.root = Nil ELSE t.root \in N
    /\ \A n \in N : \A d \in Sides :
         t.link[n][d] # Nil => t.link[n][d] \in N /\ t.link[t.link[n][d]][0] = n
    /\ \A n \in N : IF n = t.root THEN t.link[n][0] = Nil
                    ELSE /\ t.link[n][0] \in N
                         /\ \E d \in Sides : t.link[t.link[n][0]][d] = n

(* sub[n] are the nodes at and under n; those under its child on side d lie *)
(* beyond n on that side.                                                  *)
Sorted(t, N, sub) ==
    /\ sub \in [N \cup {Nil} -> SUBSET N] /\ sub[Nil] = {}
    /\ N # {} => sub[t.root] = N
    /\ \A n \in N : sub[n] = {n} \cup sub[t.link[n][-1]] \cup sub[t.link[n][1]]
    /\ \A n \in N : \A d \in Sides : \A m \in sub[t.link[n][d]] : Past(d, n, m)

Shape(t, N, sub) == Woven(t, N) /\ Sorted(t, N, sub)

LEMMA ChildIs ==
  ASSUME NEW t, NEW N, NEW sub, Shape(t, N, sub), NEW n \in N, NEW d \in Sides
  PROVE  LET c == t.link[n][d] IN
         /\ c \in N \cup {Nil} /\ c # n /\ sub[c] \subseteq sub[n] /\ n \notin sub[c] /\ n \in sub[n]
         /\ sub[n] \subseteq N
         /\ c # Nil => c \in N /\ t.link[c][0] = n /\ c # t.root /\ Past(d, n, c) /\ c \in sub[c]
         /\ -d \in Sides
         /\ \A m \in sub[c] : m \notin sub[t.link[n][-d]]
         /\ \A m \in sub[n] : m = n \/ m \in sub[c] \/ m \in sub[t.link[n][-d]]
<1> DEFINE c == t.link[n][d]
           o == t.link[n][-d]
<1>1. /\ d \in {-1, 1} /\ -d \in {-1, 1} /\ n \in Nat /\ n # Nil
      /\ {t.link[n][-1], t.link[n][1]} = {c, o}
  BY DEF Shape, Woven, Sides, Nil
<1>2. /\ c \in N \cup {Nil} /\ (c # Nil => c \in N /\ t.link[c][0] = n)
      /\ o \in N \cup {Nil}
  BY <1>1 DEF Shape, Woven, Sides
<1>3. sub[n] = {n} \cup sub[c] \cup sub[o] /\ sub[c] \subseteq N /\ sub[o] \subseteq N /\ sub[n] \subseteq N
  <2>1. sub[n] = {n} \cup sub[t.link[n][-1]] \cup sub[t.link[n][1]]
    BY DEF Shape, Sorted
  <2>2. sub[n] = {n} \cup sub[c] \cup sub[o]
    BY <1>1, <2>1 DEF Sides
  <2>3. sub \in [N \cup {Nil} -> SUBSET N]
    BY DEF Shape, Sorted
  <2> QED BY <1>2, <2>2, <2>3
<1>4. (\A m \in sub[c] : Past(d, n, m)) /\ (\A m \in sub[o] : Past(-d, n, m))
  BY <1>1 DEF Shape, Sorted, Sides
<1>5. N \subseteq Nat
  BY DEF Shape, Woven
<1>6. n \notin sub[c] /\ \A m \in sub[c] : m \notin sub[o]
  <2> HIDE DEF c, o
  <2>1. ASSUME NEW m \in N, Past(d, n, m), Past(-d, n, m) PROVE FALSE
    BY <1>1, <1>5, <2>1 DEF Past
  <2>2. ~Past(d, n, n)
    BY <1>1 DEF Past
  <2> QED BY <1>3, <1>4, <2>1, <2>2
<1>7. c # Nil => c \in sub[c]
  BY <1>2 DEF Shape, Sorted
<1>8. c # n /\ (c # Nil => c # t.root)
  <2>1. c # n
    BY <1>1, <1>6, <1>7
  <2>2. c # Nil => c # t.root
    BY <1>1, <1>2 DEF Shape, Woven
  <2> QED BY <2>1, <2>2
<1> QED BY <1>1, <1>2, <1>3, <1>4, <1>6, <1>7, <1>8 DEF Sides

(* c is the child of n on side d, and o the one on the other side. *)
Family(t, N, sub, n, d, c, o) ==
    Shape(t, N, sub) /\ n \in N /\ d \in Sides /\ c = t.link[n][d] /\ o = t.link[n][-d]

LEMMA FamilyIs ==
  ASSUME NEW t, NEW N, NEW sub, NEW n, NEW d, NEW c, NEW o, Family(t, N, sub, n, d, c, o)
  PROVE  /\ c \in N \cup {Nil} /\ o \in N \cup {Nil} /\ sub[c] \subseteq sub[n] /\ sub[o] \subseteq sub[n]
         /\ sub[n] \subseteq N /\ n \in sub[n] /\ n \notin sub[c] /\ n \notin sub[o]
         /\ \A m \in sub[c] : m \notin sub[o]
         /\ \A m \in sub[n] : m = n \/ m \in sub[c] \/ m \in sub[o]
         /\ (\A m \in sub[c] : Past(d, n, m)) /\ (\A m \in sub[o] : Past(-d, n, m))
         /\ -d \in Sides /\ sub[Nil] = {}
<1> USE DEF Family
<1>1. -d \in Sides /\ -(-d) = d
  BY DEF Sides
<1>2. /\ c \in N \cup {Nil} /\ sub[c] \subseteq sub[n]
      /\ sub[n] \subseteq N /\ n \in sub[n] /\ n \notin sub[c]
      /\ \A m \in sub[c] : m \notin sub[o]
      /\ \A m \in sub[n] : m = n \/ m \in sub[c] \/ m \in sub[o]
  BY ChildIs
<1>3. o \in N \cup {Nil} /\ sub[o] \subseteq sub[n] /\ n \notin sub[o]
  BY <1>1, ChildIs
<1> QED BY <1>1, <1>2, <1>3 DEF Shape, Sorted

LEMMA ParentIs ==
  ASSUME NEW t, NEW N, NEW sub, Shape(t, N, sub), NEW n \in N, n # t.root
  PROVE  LET p == t.link[n][0] IN
         /\ p \in N /\ p # n /\ p # Nil
         /\ \E d \in Sides : t.link[p][d] = n /\ \A e \in Sides : t.link[p][e] = n => e = d
<1> DEFINE p == t.link[n][0]
<1>1. p \in N /\ n # Nil /\ p # Nil
  BY DEF Shape, Woven, Nil
<1>2. PICK d \in Sides : t.link[p][d] = n
  BY DEF Shape, Woven
<1> HIDE DEF p
<1>3. p # n /\ n \in sub[t.link[p][d]] /\ \A m \in sub[t.link[p][d]] : m \notin sub[t.link[p][-d]]
  BY <1>1, <1>2, ChildIs
<1>4. t.link[p][-d] # n
  BY <1>2, <1>3
<1>5. \A e \in Sides : e = d \/ e = -d
  BY DEF Sides
<1> QED BY <1>1, <1>2, <1>3, <1>4, <1>5 DEF p

(* The subtree of a child is smaller. *)
LEMMA SubtreeSizes ==
  ASSUME NEW t, NEW N, NEW sub, Shape(t, N, sub)
  PROVE  /\ Cardinality(N) \in Nat
         /\ \A n \in N : Cardinality(sub[n]) \in Nat /\ Cardinality(sub[n]) <= Cardinality(N)
         /\ \A n \in N : \A d \in Sides : t.link[n][d] # Nil =>
              Cardinality(sub[t.link[n][d]]) < Cardinality(sub[n])
<1>1. IsFiniteSet(N)
  BY DEF Shape, Woven
<1>2. Cardinality(N) \in Nat
  BY <1>1, FS_CardinalityType
<1>3. ASSUME NEW n \in N
      PROVE  IsFiniteSet(sub[n]) /\ Cardinality(sub[n]) \in Nat /\ Cardinality(sub[n]) <= Cardinality(N)
  <2>1. sub[n] \subseteq N
    BY DEF Shape, Sorted
  <2> QED BY <1>1, <2>1, FS_Subset, FS_CardinalityType
<1>4. ASSUME NEW n \in N, NEW d \in Sides, t.link[n][d] # Nil
      PROVE  Cardinality(sub[t.link[n][d]]) < Cardinality(sub[n])
  <2> DEFINE c == t.link[n][d]
             a == sub[c]
             b == sub[n]
  <2>1. a \subseteq b /\ n \in b /\ n \notin a
    BY ChildIs
  <2>2. IsFiniteSet(b)
    BY <1>3
  <2> HIDE DEF a, b
  <2>3. Cardinality(a) < Cardinality(b)
    <3>1. a \in SUBSET b /\ a # b
      BY <2>1
    <3>2. Cardinality(a) <= Cardinality(b) /\ IsFiniteSet(a)
      BY <2>2, <3>1, FS_Subset
    <3>3. Cardinality(a) # Cardinality(b)
      BY <2>2, <3>1, FS_Subset
    <3>4. Cardinality(a) \in Nat /\ Cardinality(b) \in Nat
      BY <2>2, <3>2, FS_CardinalityType
    <3> QED BY <3>2, <3>3, <3>4
  <2> QED BY <2>3 DEF a, b
<1> QED BY <1>2, <1>3, <1>4

(* A node's subtree is inside that of each node above it. *)
LEMMA SubtreesNest ==
  ASSUME NEW t, NEW N, NEW sub, Shape(t, N, sub), NEW a \in N, NEW b \in N, a \in sub[b]
  PROVE  sub[a] \subseteq sub[b]
<1> DEFINE rank == [n \in N |-> Cardinality(sub[n])]
           Bad == {n \in N : a \in sub[n] /\ ~(sub[a] \subseteq sub[n])}
<1>1. \A n \in N : rank[n] \in Nat
  BY SubtreeSizes
<1> SUFFICES ASSUME Bad # {} PROVE FALSE
  OBVIOUS
<1>2. PICK n \in Bad : \A m \in Bad : rank[n] <= rank[m]
  <2> HIDE DEF rank
  <2> QED BY <1>1, LeastRank
<1>3. n # a /\ n \in N /\ a \in sub[n] /\ ~(sub[a] \subseteq sub[n])
  OBVIOUS
<1>4. PICK d \in Sides : a \in sub[t.link[n][d]]
  BY <1>3 DEF Shape, Sorted, Sides
<1> DEFINE c == t.link[n][d]
<1>5. sub[c] \subseteq sub[n] /\ c \in N /\ rank[c] < rank[n]
  <2>1. sub[c] \subseteq sub[n] /\ c \in N \cup {Nil}
    BY ChildIs
  <2>2. c # Nil
    BY <1>4 DEF Shape, Sorted
  <2> QED BY <2>1, <2>2, SubtreeSizes
<1>6. c \in Bad
  BY <1>3, <1>4, <1>5
<1>7. rank[c] \in Nat /\ rank[n] \in Nat
  BY <1>1, <1>5
<1> HIDE DEF rank
<1> QED BY <1>2, <1>5, <1>6, <1>7

LEMMA NoNodeUnderItself ==
  ASSUME NEW t, NEW N, NEW sub, Shape(t, N, sub), NEW a \in N, NEW b \in N, a \in sub[b], b \in sub[a]
  PROVE  a = b
<1> SUFFICES ASSUME a # b PROVE FALSE
  OBVIOUS
<1>1. PICK d \in Sides : b \in sub[t.link[a][d]]
  BY DEF Shape, Sorted, Sides
<1> DEFINE c == t.link[a][d]
<1>2. a \notin sub[c] /\ c \in N \cup {Nil}
  BY ChildIs
<1>3. c \in N
  BY <1>1, <1>2 DEF Shape, Sorted
<1>4. sub[b] \subseteq sub[c]
  BY <1>1, <1>3, SubtreesNest
<1> QED BY <1>2, <1>4

(* A node outside a subtree lies beyond all of it on one side. *)
LEMMA SubtreesConvex ==
  ASSUME NEW t, NEW N, NEW sub, Shape(t, N, sub), NEW n \in N, NEW m \in N, m \notin sub[n]
  PROVE  \E d \in Sides : \A x \in sub[n] : Past(d, x, m)
<1> DEFINE rank == [x \in N |-> Cardinality(N) - Cardinality(sub[x])]
           Apart(x) == \E d \in Sides : \A y \in sub[x] : Past(d, y, m)
           Bad == {x \in N : m \notin sub[x] /\ ~Apart(x)}
<1>1. \A x \in N : rank[x] \in Nat
  BY SubtreeSizes
<1> SUFFICES ASSUME Bad # {} PROVE FALSE
  OBVIOUS
<1>2. PICK c \in Bad : \A y \in Bad : rank[c] <= rank[y]
  <2> HIDE DEF rank, Bad
  <2> QED BY <1>1, LeastRank DEF Bad
<1>3. c \in N /\ m \notin sub[c] /\ ~Apart(c)
  OBVIOUS
<1>4. c # t.root
  BY <1>3 DEF Shape, Sorted
<1> DEFINE p == t.link[c][0]
<1>5. PICK d \in Sides : p \in N /\ t.link[p][d] = c
  BY <1>3, <1>4, ParentIs
<1>6. /\ sub[c] \subseteq sub[p] /\ -d \in Sides /\ c # Nil
      /\ \A y \in sub[p] : y = p \/ y \in sub[c] \/ y \in sub[t.link[p][-d]]
  BY <1>3, <1>5, ChildIs DEF Shape, Woven, Nil
<1>7. (\A y \in sub[c] : Past(d, p, y)) /\ (\A y \in sub[t.link[p][-d]] : Past(-d, p, y))
  BY <1>5, <1>6 DEF Shape, Sorted
<1>8. CASE m \in sub[p]
  <2>1. m = p \/ Past(-d, p, m)
    BY <1>3, <1>6, <1>7, <1>8
  <2>2. ASSUME NEW y \in sub[c] PROVE Past(-d, y, m)
    <3>1. y \in Nat /\ p \in Nat /\ m \in Nat /\ d \in {-1, 1}
      BY <1>3, <1>5 DEF Shape, Woven, Sorted, Sides
    <3>2. Past(d, p, y)
      BY <1>7
    <3> HIDE DEF p
    <3> QED BY <2>1, <3>1, <3>2 DEF Past
  <2> QED BY <1>3, <1>6, <2>2
<1>9. CASE m \notin sub[p]
  <2>1. rank[p] < rank[c] /\ rank[p] \in Nat /\ rank[c] \in Nat
    <3>1. Cardinality(sub[c]) < Cardinality(sub[p])
      BY <1>5, <1>6, SubtreeSizes
    <3> QED BY <1>1, <1>3, <1>5, <3>1, SubtreeSizes
  <2>2. p \notin Bad
    <3> HIDE DEF rank, Bad, p
    <3> QED BY <1>2, <2>1
  <2>3. Apart(p)
    BY <1>5, <1>9, <2>2
  <2> QED BY <1>3, <1>6, <2>3
<1> QED BY <1>8, <1>9

(* The chain of links down side d ends at the node furthest out.           *)
ExtremeWalk(f, d) == f = [m \in Nodes |-> IF Link(m, d) = Nil THEN m ELSE f[Link(m, d)]]

LEMMA ExtremeWalks ==
  ASSUME NEW sub, Shape(tree, Nodes, sub), NEW d \in Sides
  PROVE  \E f : ExtremeWalk(f, d) /\ \A n : Extreme(n, d) = f[n]
<1> DEFINE stop == {m \in Nodes : Link(m, d) = Nil}
           step == [m \in Nodes |-> Link(m, d)]
           last == [m \in Nodes |-> m]
           rank == [m \in Nodes |-> Cardinality(sub[m])]
           top == Cardinality(Nodes) + 1
           down == CHOOSE f : ExtremeWalk(f, d)
<1>1. Falls(Nodes, stop, step, rank, top)
  <2>1. \A n \in Nodes : Cardinality(sub[n]) \in Nat /\ Cardinality(sub[n]) <= Cardinality(Nodes)
    BY SubtreeSizes
  <2>2. \A n \in Nodes \ stop : Link(n, d) \in Nodes /\ Cardinality(sub[Link(n, d)]) < Cardinality(sub[n])
    BY SubtreeSizes, ChildIs DEF Link
  <2>3. Cardinality(Nodes) \in Nat
    BY SubtreeSizes
  <2> QED BY <2>1, <2>2, <2>3 DEF Falls
<1>2. PICK f : Walks(f, Nodes, stop, step, last)
  <2> HIDE DEF stop, step, last, rank, top
  <2> QED BY <1>1, WalkEnds
<1>3. ExtremeWalk(f, d)
  BY <1>2 DEF Walks, ExtremeWalk
<1>4. ExtremeWalk(down, d)
  BY <1>3
<1>5. \A n : Extreme(n, d) = down[n]
  BY DEF Extreme, ExtremeWalk
<1> QED BY <1>4, <1>5

LEMMA ExtremeIs ==
  ASSUME NEW sub, Shape(tree, Nodes, sub), NEW d \in Sides, NEW n \in Nodes
  PROVE  /\ Extreme(n, d) \in sub[n] /\ Extreme(n, d) \in Nodes /\ Link(Extreme(n, d), d) = Nil
         /\ \A x \in sub[n] : x = Extreme(n, d) \/ Past(d, x, Extreme(n, d))
<1>1. PICK f : ExtremeWalk(f, d) /\ \A m : Extreme(m, d) = f[m]
  BY ExtremeWalks
<1> DEFINE rank == [m \in Nodes |-> Cardinality(sub[m])]
           Good(m) == /\ f[m] \in sub[m] /\ Link(f[m], d) = Nil
                      /\ \A x \in sub[m] : x = f[m] \/ Past(d, x, f[m])
           Bad == {m \in Nodes : ~Good(m)}
<1>2. \A m \in Nodes : rank[m] \in Nat
  BY SubtreeSizes
<1>3. Bad = {}
  <2> SUFFICES ASSUME Bad # {} PROVE FALSE
    OBVIOUS
  <2>1. PICK m \in Bad : \A y \in Bad : rank[m] <= rank[y]
    <3> HIDE DEF rank, Bad
    <3> QED BY <1>2, LeastRank DEF Bad
  <2> DEFINE c == Link(m, d)
  <2>2. f[m] = IF c = Nil THEN m ELSE f[c]
    BY <1>1 DEF ExtremeWalk
  <2>3. /\ m \in Nodes /\ ~Good(m) /\ m \in sub[m] /\ c \in Nodes \cup {Nil} /\ sub[c] \subseteq sub[m]
        /\ \A y \in sub[m] : y = m \/ y \in sub[c] \/ y \in sub[Link(m, -d)]
        /\ -d \in Sides
    BY ChildIs DEF Link
  <2>4. /\ \A y \in sub[c] : Past(d, m, y)
        /\ \A y \in sub[Link(m, -d)] : Past(-d, m, y)
        /\ sub[Nil] = {}
    BY <2>3 DEF Shape, Sorted, Link
  <2>5. ASSUME NEW x \in Nodes, NEW y \in Nodes PROVE Past(-d, x, y) => Past(d, y, x)
    BY DEF Past, Sides, Shape, Woven
  <2>6. sub[m] \subseteq Nodes
    BY ChildIs
  <2>7. CASE c = Nil
    <3>1. \A x \in sub[m] : x = m \/ Past(d, x, m)
      BY <2>3, <2>4, <2>5, <2>6, <2>7
    <3> HIDE DEF c
    <3> QED BY <2>2, <2>3, <2>7, <3>1 DEF c
  <2>8. CASE c # Nil
    <3>1. c \in Nodes /\ rank[c] < rank[m]
      BY <2>3, <2>8, SubtreeSizes DEF Link
    <3>2. c \notin Bad
      <4>1. rank[c] \in Nat /\ rank[m] \in Nat
        BY <1>2, <2>3, <3>1
      <4> HIDE DEF rank, Bad
      <4> QED BY <2>1, <3>1, <4>1
    <3>3. Good(c)
      BY <3>1, <3>2
    <3>4. f[m] = f[c] /\ f[m] \in sub[c] /\ f[m] \in Nodes
      BY <2>2, <2>3, <2>6, <2>8, <3>3
    <3>5. ASSUME NEW x \in sub[m] PROVE x = f[m] \/ Past(d, x, f[m])
      <4>1. CASE x \in sub[c]
        BY <3>3, <3>4, <4>1
      <4>2. CASE x \notin sub[c]
        <5>1. x = m \/ Past(d, x, m)
          BY <2>3, <2>4, <2>5, <2>6, <4>2
        <5>2. Past(d, m, f[m])
          BY <2>4, <3>4
        <5> QED BY <2>3, <2>6, <3>4, <5>1, <5>2 DEF Past, Shape, Woven
      <4> QED BY <4>1, <4>2
    <3> QED BY <2>3, <3>3, <3>4, <3>5
  <2> QED BY <2>7, <2>8
<1>4. Good(n) /\ sub[n] \subseteq Nodes
  BY <1>3, ChildIs
<1> QED BY <1>1, <1>4

(* The search for k from n downwards. *)
PlaceWalk(f, k) ==
    f = [n \in Nodes |->
           LET c == Link(n, Toward(k, n)) IN IF n = k \/ c = Nil THEN n ELSE f[c]]

LEMMA TowardSides == \A k, n : Toward(k, n) \in Sides
BY DEF Toward, Sides

LEMMA PlaceWalks ==
  ASSUME NEW sub, Shape(tree, Nodes, sub), NEW k
  PROVE  \E f : PlaceWalk(f, k) /\ Place(k) = IF tree.root = Nil THEN Nil ELSE f[tree.root]
<1> DEFINE stop == {m \in Nodes : m = k \/ Link(m, Toward(k, m)) = Nil}
           step == [m \in Nodes |-> Link(m, Toward(k, m))]
           last == [m \in Nodes |-> m]
           rank == [m \in Nodes |-> Cardinality(sub[m])]
           top == Cardinality(Nodes) + 1
           down == CHOOSE f : PlaceWalk(f, k)
<1>1. Falls(Nodes, stop, step, rank, top)
  <2>1. \A n \in Nodes : Cardinality(sub[n]) \in Nat /\ Cardinality(sub[n]) <= Cardinality(Nodes)
    BY SubtreeSizes
  <2>2. ASSUME NEW n \in Nodes \ stop
        PROVE  /\ Link(n, Toward(k, n)) \in Nodes
               /\ Cardinality(sub[Link(n, Toward(k, n))]) < Cardinality(sub[n])
    <3>1. Toward(k, n) \in Sides /\ tree.link[n][Toward(k, n)] # Nil
      BY TowardSides DEF Link
    <3> QED BY <3>1, SubtreeSizes, ChildIs DEF Link
  <2>3. Cardinality(Nodes) \in Nat
    BY SubtreeSizes
  <2> QED BY <2>1, <2>2, <2>3 DEF Falls
<1>2. PICK f : Walks(f, Nodes, stop, step, last)
  <2> HIDE DEF stop, step, last, rank, top
  <2> QED BY <1>1, WalkEnds
<1>3. PlaceWalk(f, k)
  BY <1>2 DEF Walks, PlaceWalk
<1>4. PlaceWalk(down, k)
  BY <1>3
<1>5. Place(k) = IF tree.root = Nil THEN Nil ELSE down[tree.root]
  BY DEF Place, PlaceWalk
<1> QED BY <1>4, <1>5

(* k is to be looked for under a on the side where p is. *)
OnWay(sub, k, a, p) == p \in sub[a] => a = p \/ p \in sub[Link(a, Toward(k, a))]

(* The search for k from n ended at p. *)
FoundFrom(sub, k, n, p) ==
    /\ p \in sub[n]
    /\ k \in sub[n] => p = k
    /\ k \notin sub[n] => p # k /\ Link(p, Toward(k, p)) = Nil
    /\ \A a \in sub[n] : OnWay(sub, k, a, p)

LEMMA SearchFinds ==
  ASSUME NEW sub, Shape(tree, Nodes, sub), NEW k \in Nat, NEW f, PlaceWalk(f, k), NEW n \in Nodes
  PROVE  FoundFrom(sub, k, n, f[n])
<1> DEFINE rank == [m \in Nodes |-> Cardinality(sub[m])]
           Bad == {m \in Nodes : ~FoundFrom(sub, k, m, f[m])}
<1>1. \A m \in Nodes : rank[m] \in Nat
  BY SubtreeSizes
<1> SUFFICES ASSUME Bad # {} PROVE FALSE
  OBVIOUS
<1>2. PICK m \in Bad : \A y \in Bad : rank[m] <= rank[y]
  <2> HIDE DEF rank, Bad
  <2> QED BY <1>1, LeastRank DEF Bad
<1> DEFINE d == Toward(k, m)
           c == Link(m, d)
           o == Link(m, -d)
<1>3. f[m] = IF m = k \/ c = Nil THEN m ELSE f[c]
  BY DEF PlaceWalk
<1>4. d \in Sides /\ m \in Nodes /\ ~FoundFrom(sub, k, m, f[m])
  BY TowardSides
<1>5. /\ m \in sub[m] /\ c \in Nodes \cup {Nil} /\ sub[c] \subseteq sub[m] /\ sub[m] \subseteq Nodes
      /\ \A y \in sub[m] : y = m \/ y \in sub[c] \/ y \in sub[o]
      /\ \A y \in sub[c] : y \notin sub[o]
      /\ -d \in Sides /\ sub[o] \subseteq sub[m] /\ o \in Nodes \cup {Nil} /\ m \notin sub[c] /\ m \notin sub[o]
  <2>1. -d \in Sides /\ -(-d) = d
    BY <1>4 DEF Sides
  <2> HIDE DEF d
  <2> QED BY <1>4, <2>1, ChildIs, SMTT(30) DEF Link
<1>6. sub[Nil] = {} /\ \A y \in sub[o] : Past(-d, m, y)
  BY <1>4, <1>5 DEF Shape, Sorted, Link
<1>7. k \in sub[m] => k = m \/ k \in sub[c]
  <2> SUFFICES ASSUME k \in sub[o], k # m PROVE FALSE
    BY <1>5
  <2>1. Past(-d, m, k) /\ m \in Nat
    BY <1>4, <1>6 DEF Shape, Woven
  <2>2. IF k < m THEN d = -1 ELSE d = 1
    BY DEF Toward
  <2> HIDE DEF d
  <2> QED BY <2>1, <2>2 DEF Past
<1>8. CASE m = k \/ c = Nil
  <2>1. f[m] = m /\ m \in sub[m]
    BY <1>3, <1>5, <1>8
  <2>2. \A a \in sub[m] : OnWay(sub, k, a, m)
    BY <1>4, <1>5, NoNodeUnderItself DEF OnWay
  <2>3. (k \in sub[m] => m = k) /\ (k \notin sub[m] => m # k /\ c = Nil)
    BY <1>5, <1>6, <1>7, <1>8
  <2> QED BY <1>4, <2>1, <2>2, <2>3 DEF FoundFrom
<1>9. CASE m # k /\ c # Nil
  <2>1. f[m] = f[c] /\ c \in Nodes /\ rank[c] < rank[m]
    BY <1>3, <1>4, <1>5, <1>9, SubtreeSizes DEF Link
  <2>2. c \notin Bad
    <3>1. rank[c] \in Nat /\ rank[m] \in Nat
      BY <1>1, <1>4, <2>1
    <3> HIDE DEF rank, Bad, c
    <3> QED BY <1>2, <2>1, <3>1
  <2>3. FoundFrom(sub, k, c, f[m])
    BY <2>1, <2>2
  <2> DEFINE p == f[m]
  <2> HIDE DEF p, c, o, d
  <2>4. /\ p \in sub[c] /\ (k \in sub[c] => p = k) /\ (k \notin sub[c] => p # k /\ Link(p, Toward(k, p)) = Nil)
        /\ \A a \in sub[c] : OnWay(sub, k, a, p)
    BY <2>3 DEF FoundFrom, p
  <2>5. ASSUME NEW a \in sub[m] PROVE OnWay(sub, k, a, p)
    <3>1. CASE a = m
      BY <2>4, <3>1 DEF OnWay, c, d
    <3>2. CASE a \in sub[c]
      BY <2>4, <3>2
    <3>3. CASE a \in sub[o]
      <4>1. o \in Nodes /\ a \in Nodes
        BY <1>5, <1>6, <3>3
      <4>2. sub[a] \subseteq sub[o]
        BY <3>3, <4>1, SubtreesNest
      <4> QED BY <1>5, <2>4, <4>2 DEF OnWay
    <3> QED BY <1>5, <3>1, <3>2, <3>3
  <2>6. FoundFrom(sub, k, m, p)
    BY <1>5, <1>7, <1>9, <2>4, <2>5 DEF FoundFrom
  <2> QED BY <1>4, <2>6 DEF p
<1> QED BY <1>8, <1>9

(* Where the search ends, in the whole tree. *)
LEMMA PlaceIs ==
  ASSUME NEW sub, Shape(tree, Nodes, sub), NEW k \in Nat
  PROVE  /\ tree.root = Nil <=> Nodes = {}
         /\ Nodes = {} => Place(k) = Nil
         /\ Nodes # {} => Place(k) \in Nodes /\ FoundFrom(sub, k, tree.root, Place(k)) /\ sub[tree.root] = Nodes
<1>1. PICK f : PlaceWalk(f, k) /\ Place(k) = IF tree.root = Nil THEN Nil ELSE f[tree.root]
  BY PlaceWalks
<1>2. (tree.root = Nil <=> Nodes = {}) /\ (Nodes # {} => tree.root \in Nodes /\ sub[tree.root] = Nodes)
  BY DEF Shape, Woven, Sorted, Nil
<1>3. Nodes # {} => FoundFrom(sub, k, tree.root, f[tree.root])
  BY <1>1, <1>2, SearchFinds
<1> QED BY <1>1, <1>2, <1>3 DEF FoundFrom

(* contains answers by the nodes. *)
LEMMA ContainsIs ==
  ASSUME NEW sub, Shape(tree, Nodes, sub), NEW k \in Nat
  PROVE  HasKey(k) <=> k \in Nodes
BY PlaceIs DEF HasKey, FoundFrom

(* The climb of an iterator on side d: past the nodes that are children on  *)
(* that side.                                                              *)
ClimbWalk(f, d) ==
    f = [m \in Nodes |-> IF Parent(m) = Nil THEN Nil
                         ELSE IF Link(Parent(m), d) = m THEN f[Parent(m)] ELSE Parent(m)]

LEMMA ClimbWalks ==
  ASSUME NEW sub, Shape(tree, Nodes, sub), NEW d \in Sides
  PROVE  \E f : /\ ClimbWalk(f, d)
                /\ \A n : Neighbour(n, d) = IF Link(n, d) # Nil THEN Extreme(Link(n, d), -d) ELSE f[n]
<1> DEFINE stop == {m \in Nodes : Parent(m) = Nil \/ Link(Parent(m), d) # m}
           step == [m \in Nodes |-> Parent(m)]
           last == [m \in Nodes |-> Parent(m)]
           rank == [m \in Nodes |-> Cardinality(Nodes) - Cardinality(sub[m])]
           top == Cardinality(Nodes) + 1
           climb == CHOOSE f : ClimbWalk(f, d)
<1>1. Falls(Nodes, stop, step, rank, top)
  <2>1. \A n \in Nodes : Cardinality(sub[n]) \in Nat /\ Cardinality(sub[n]) <= Cardinality(Nodes)
    BY SubtreeSizes
  <2>2. Cardinality(Nodes) \in Nat
    BY SubtreeSizes
  <2>3. ASSUME NEW n \in Nodes \ stop
        PROVE  Parent(n) \in Nodes /\ Cardinality(sub[n]) < Cardinality(sub[Parent(n)])
    <3>1. n # tree.root /\ n # Nil
      BY DEF Shape, Woven, Parent, Link, Nil
    <3>2. Parent(n) \in Nodes /\ tree.link[Parent(n)][d] = n
      BY <3>1, ParentIs DEF Parent, Link
    <3> QED BY <3>1, <3>2, SubtreeSizes
  <2>4. \A n \in Nodes : rank[n] \in Nat /\ rank[n] < top
    BY <2>1, <2>2
  <2>5. \A n \in Nodes \ stop : step[n] \in Nodes /\ rank[step[n]] < rank[n]
    BY <2>1, <2>2, <2>3
  <2> QED BY <2>2, <2>4, <2>5 DEF Falls
<1>2. PICK f : Walks(f, Nodes, stop, step, last)
  <2> HIDE DEF stop, step, last, rank, top
  <2> QED BY <1>1, WalkEnds
<1>3. ClimbWalk(f, d)
  <2>1. f = [m \in Nodes |-> IF m \in stop THEN last[m] ELSE f[step[m]]]
    BY <1>2 DEF Walks
  <2>2. \A m \in Nodes : (IF m \in stop THEN last[m] ELSE f[step[m]])
          = IF Parent(m) = Nil THEN Nil ELSE IF Link(Parent(m), d) = m THEN f[Parent(m)] ELSE Parent(m)
    OBVIOUS
  <2> HIDE DEF stop, step, last
  <2> QED BY <2>1, <2>2 DEF ClimbWalk
<1>4. ClimbWalk(climb, d)
  BY <1>3
<1>5. \A n : Neighbour(n, d) = IF Link(n, d) # Nil THEN Extreme(Link(n, d), -d) ELSE climb[n]
  BY DEF Neighbour, ClimbWalk
<1> QED BY <1>4, <1>5

(* y is the first of the nodes that lie beyond a subtree s on side d. *)
NextTo(s, d, y) ==
    LET out == {z \in Nodes : \A x \in s : Past(d, x, z)} IN
    IF out = {} THEN y = Nil ELSE y \in out /\ \A z \in out : z = y \/ Past(d, y, z)

LEMMA ClimbIs ==
  ASSUME NEW sub, Shape(tree, Nodes, sub), NEW d \in Sides, NEW f, ClimbWalk(f, d), NEW n \in Nodes
  PROVE  NextTo(sub[n], d, f[n])
<1> DEFINE rank == [m \in Nodes |-> Cardinality(Nodes) - Cardinality(sub[m])]
           Bad == {m \in Nodes : ~NextTo(sub[m], d, f[m])}
<1>1. \A m \in Nodes : rank[m] \in Nat
  BY SubtreeSizes
<1> SUFFICES ASSUME Bad # {} PROVE FALSE
  OBVIOUS
<1>2. PICK m \in Bad : \A y \in Bad : rank[m] <= rank[y]
  <2> HIDE DEF rank, Bad
  <2> QED BY <1>1, LeastRank DEF Bad
<1> DEFINE p == Parent(m)
<1>3. f[m] = IF p = Nil THEN Nil ELSE IF Link(p, d) = m THEN f[p] ELSE p
  BY DEF ClimbWalk
<1>4. m \in Nodes /\ ~NextTo(sub[m], d, f[m]) /\ m \in sub[m] /\ m # Nil /\ Nodes \subseteq Nat
      /\ d \in {-1, 1}
  BY ChildIs DEF Shape, Woven, Nil, Sides
<1>5. ASSUME NEW x \in Nodes PROVE ~Past(d, x, x) /\ \A y \in Nodes : ~(Past(d, x, y) /\ Past(d, y, x))
  BY <1>4 DEF Past
<1>6. CASE m = tree.root
  <2>1. sub[m] = Nodes /\ f[m] = Nil
    BY <1>3, <1>6 DEF Shape, Woven, Sorted, Parent, Link
  <2>2. {z \in Nodes : \A x \in sub[m] : Past(d, x, z)} = {}
    BY <1>5, <2>1
  <2> QED BY <1>4, <2>1, <2>2 DEF NextTo
<1>7. CASE m # tree.root
  <2>1. p \in Nodes /\ p # Nil /\ \E e \in Sides : Link(p, e) = m /\ \A e2 \in Sides : Link(p, e2) = m => e2 = e
    BY <1>4, <1>7, ParentIs DEF Parent, Link
  <2>2. PICK e \in Sides : Link(p, e) = m
    BY <2>1
  <2>3. e = d \/ e = -d
    BY <1>4 DEF Sides
  <2> DEFINE o == Link(p, -e)
  <2>4. /\ sub[m] \subseteq sub[p] /\ sub[p] \subseteq Nodes /\ p \in sub[p] /\ p \notin sub[m]
        /\ \A y \in sub[p] : y = p \/ y \in sub[m] \/ y \in sub[o]
        /\ \A y \in sub[m] : y \notin sub[o]
        /\ -e \in Sides
    <3>1. Family(tree, Nodes, sub, p, e, m, o)
      BY <2>1, <2>2 DEF Link, Family
    <3> HIDE DEF p, o
    <3> QED BY <3>1, FamilyIs
  <2>5. (\A y \in sub[m] : Past(e, p, y)) /\ \A y \in sub[o] : Past(-e, p, y)
    BY <2>1, <2>2, <2>4 DEF Shape, Sorted, Link
  <2> DEFINE Out(x) == {z \in Nodes : \A y \in sub[x] : Past(d, y, z)}
  <2>6. ASSUME NEW z \in Out(m), z \notin sub[p] PROVE z \in Out(p)
    <3>1. PICK g \in Sides : \A x \in sub[p] : Past(g, x, z)
      BY <2>1, <2>6, SubtreesConvex
    <3>2. Past(g, m, z) /\ Past(d, m, z) /\ z \in Nat /\ m \in Nat
      BY <1>4, <2>4, <3>1
    <3>3. g = d
      BY <3>2, <1>4 DEF Past, Sides
    <3> QED BY <3>1, <3>3
  <2>7. ASSUME NEW z \in Nodes, NEW x \in Nodes
        PROVE  /\ Past(-d, x, z) <=> Past(d, z, x)
               /\ Past(d, x, p) /\ Past(d, p, z) => Past(d, x, z)
    <3>1. x \in Nat /\ z \in Nat /\ p \in Nat
      BY <1>4, <2>1
    <3> HIDE DEF p
    <3> QED BY <3>1, <1>4 DEF Past
  <2> HIDE DEF p, o
  <2>8. CASE e = d
    <3>1. f[m] = f[p]
      BY <1>3, <2>1, <2>2, <2>8
    <3>2. \A z \in Out(m) : z \notin sub[p]
      BY <1>4, <1>5, <2>1, <2>4, <2>5, <2>7, <2>8
    <3>3. Out(m) = Out(p)
      <4>1. Out(p) \subseteq Out(m)
        BY <2>4
      <4> QED BY <2>6, <3>2, <4>1
    <3>4. rank[p] < rank[m] /\ rank[p] \in Nat /\ rank[m] \in Nat
      <4>1. Cardinality(sub[m]) < Cardinality(sub[p])
        BY <1>4, <2>1, <2>2, SubtreeSizes DEF Link
      <4> QED BY <1>1, <1>4, <2>1, <4>1, SubtreeSizes
    <3>5. NextTo(sub[p], d, f[p])
      <4> HIDE DEF rank, Bad
      <4>1. p \notin Bad
        BY <1>2, <3>4
      <4> QED BY <2>1, <4>1 DEF Bad
    <3> QED BY <1>4, <3>1, <3>3, <3>5 DEF NextTo
  <2>9. CASE e = -d
    <3>1. f[m] = p
      <4>1. Link(p, d) # m
        <5>1. e # d
          BY <1>4, <2>9
        <5> QED BY <2>1, <2>2, <5>1
      <4> QED BY <1>3, <2>1, <4>1 DEF p
    <3>2. -e = d
      BY <1>4, <2>9
    <3>3. p \in Out(m)
      BY <2>1, <2>4, <2>5, <2>7, <2>9
    <3>4. ASSUME NEW z \in Out(m) PROVE z = p \/ Past(d, p, z)
      <4>1. CASE z \in sub[p]
        <5>1. z \notin sub[m]
          BY <1>5
        <5> QED BY <2>4, <2>5, <3>2, <4>1, <5>1
      <4>2. CASE z \notin sub[p]
        BY <2>4, <2>6, <4>2
      <4> QED BY <4>1, <4>2
    <3> QED BY <1>4, <3>1, <3>3, <3>4 DEF NextTo
  <2> QED BY <2>3, <2>8, <2>9
<1> QED BY <1>6, <1>7

(* Iteration over a tree in shape is in the order of the keys. *)
LEMMA ShapeIterates ==
  ASSUME NEW sub, Shape(tree, Nodes, sub)
  PROVE  IteratesInOrder
<1>1. /\ Nodes \subseteq Nat /\ Nil \notin Nodes /\ (tree.root = Nil <=> Nodes = {})
      /\ Nodes # {} => tree.root \in Nodes /\ sub[tree.root] = Nodes
  BY DEF Shape, Woven, Sorted, Nil
<1>2. ASSUME tree.root # Nil, NEW n \in Nodes PROVE Extreme(tree.root, -1) <= n
  <2>1. -1 \in Sides
    BY DEF Sides
  <2> DEFINE x == Extreme(tree.root, -1)
  <2>2. x \in Nodes /\ (n = x \/ Past(-1, n, x))
    BY <1>1, <2>1, ExtremeIs
  <2> HIDE DEF x
  <2>3. x <= n
    BY <1>1, <2>2 DEF Past
  <2> QED BY <2>3 DEF x
<1>3. ASSUME NEW n \in Nodes, NEW d \in Sides
      PROVE  LET y == Neighbour(n, d)
                 out == {z \in Nodes : Past(d, n, z)} IN
             IF out = {} THEN y = Nil ELSE y \in out /\ \A z \in out : z = y \/ Past(d, y, z)
  <2> DEFINE y == Neighbour(n, d)
             out == {z \in Nodes : Past(d, n, z)}
             c == Link(n, d)
  <2>1. PICK f : ClimbWalk(f, d) /\ \A m : Neighbour(m, d) = IF Link(m, d) # Nil THEN Extreme(Link(m, d), -d) ELSE f[m]
    BY ClimbWalks
  <2>2. /\ n \in sub[n] /\ sub[n] \subseteq Nodes /\ c \in Nodes \cup {Nil} /\ sub[c] \subseteq sub[n]
        /\ \A z \in sub[n] : z = n \/ z \in sub[c] \/ z \in sub[Link(n, -d)]
        /\ -d \in Sides /\ sub[Nil] = {}
    <3>1. Family(tree, Nodes, sub, n, d, c, Link(n, -d))
      BY DEF Link, Family
    <3> HIDE DEF c
    <3> QED BY <3>1, FamilyIs
  <2>3. (\A z \in sub[c] : Past(d, n, z)) /\ \A z \in sub[Link(n, -d)] : Past(-d, n, z)
    BY <2>2 DEF Shape, Sorted, Link
  <2>4. ASSUME NEW z \in Nodes, NEW x \in Nodes
        PROVE  /\ Past(-d, x, z) <=> Past(d, z, x)
               /\ ~(Past(d, x, z) /\ Past(d, z, x)) /\ ~Past(d, x, x)
               /\ \A w \in Nodes : Past(d, x, z) /\ Past(d, z, w) => Past(d, x, w)
    BY <1>1 DEF Past, Sides
  <2>5. ASSUME NEW z \in out, z \notin sub[n] PROVE \A x \in sub[n] : Past(d, x, z)
    <3>1. PICK g \in Sides : \A x \in sub[n] : Past(g, x, z)
      BY <2>5, SubtreesConvex
    <3>2. Past(g, n, z) /\ Past(d, n, z) /\ z \in Nat /\ n \in Nat
      BY <1>1, <2>2, <3>1
    <3>3. g = d
      BY <3>2 DEF Past, Sides
    <3> QED BY <3>1, <3>3
  <2>6. CASE c # Nil
    <3>1. y = Extreme(c, -d) /\ c \in Nodes /\ c \in sub[c]
      BY <2>1, <2>2, <2>6, ChildIs DEF Link
    <3>2. y \in sub[c] /\ \A x \in sub[c] : x = y \/ Past(-d, x, y)
      <4> HIDE DEF c
      <4> QED BY <2>2, <3>1, ExtremeIs
    <3>3. y \in out
      BY <2>2, <2>3, <3>2
    <3>4. ASSUME NEW z \in out PROVE z = y \/ Past(d, y, z)
      <4>1. CASE z \in sub[n]
        <5>1. z # n /\ z \notin sub[Link(n, -d)] /\ z \in Nodes
          BY <2>3, <2>4
        <5>2. z \in sub[c]
          BY <2>2, <4>1, <5>1
        <5> QED BY <2>2, <2>4, <3>2, <5>1, <5>2
      <4>2. CASE z \notin sub[n]
        BY <2>2, <2>5, <3>2, <4>2
      <4> QED BY <4>1, <4>2
    <3> QED BY <3>3, <3>4
  <2>7. CASE c = Nil
    <3>1. y = f[n] /\ NextTo(sub[n], d, f[n])
      BY <2>1, <2>7, ClimbIs
    <3>2. out = {z \in Nodes : \A x \in sub[n] : Past(d, x, z)}
      <4>1. ASSUME NEW z \in out PROVE z \notin sub[n]
        <5>1. z # n /\ z \notin sub[Link(n, -d)]
          BY <2>3, <2>4
        <5> QED BY <2>2, <2>7, <5>1
      <4> QED BY <2>2, <2>5, <4>1
    <3>3. IF out = {} THEN y = Nil ELSE y \in out /\ \A z \in out : z = y \/ Past(d, y, z)
      <4> HIDE DEF y, out
      <4> QED BY <3>1, <3>2 DEF NextTo
    <3> QED BY <3>3
  <2> QED BY <2>6, <2>7
<1>4. ASSUME NEW n \in Nodes, NEW d \in {-1, 1}
      PROVE  LET beyond == {m \in Nodes : d * m > d * n} IN
             IF beyond = {} THEN Neighbour(n, d) = Nil
             ELSE Neighbour(n, d) \in beyond /\ \A m \in beyond : d * m >= d * Neighbour(n, d)
  <2> DEFINE y == Neighbour(n, d)
             out == {z \in Nodes : Past(d, n, z)}
             beyond == {m \in Nodes : d * m > d * n}
  <2>1. \A m, k \in Nat : Past(d, m, k) <=> d * k > d * m
    <3>1. CASE d = 1
      BY <3>1 DEF Past
    <3>2. CASE d = -1
      BY <3>2 DEF Past
    <3> QED BY <3>1, <3>2
  <2>2. beyond = out
    BY <1>1, <2>1
  <2>3. IF out = {} THEN y = Nil ELSE y \in out /\ \A z \in out : z = y \/ Past(d, y, z)
    BY <1>3 DEF Sides
  <2> HIDE DEF y
  <2>4. ASSUME NEW z \in out, y \in out, z = y \/ Past(d, y, z) PROVE d * z >= d * y
    <3>1. z \in Nat /\ y \in Nat
      BY <1>1, <2>4
    <3>2. CASE d = 1
      BY <2>4, <3>1, <3>2 DEF Past
    <3>3. CASE d = -1
      BY <2>4, <3>1, <3>3 DEF Past
    <3> QED BY <3>2, <3>3
  <2> HIDE DEF out, beyond
  <2>5. IF beyond = {} THEN y = Nil ELSE y \in beyond /\ \A m \in beyond : d * m >= d * y
    BY <2>2, <2>3, <2>4
  <2> QED BY <2>5 DEF y, beyond
<1> QED BY <1>1, <1>2, <1>4 DEF IteratesInOrder

-----------------------------------------------------------------------------
(* Hanging a node somewhere else, and turning two. *)
Typed(t) ==
    /\ t \in [root : Nat, link : [DOMAIN t.link -> [{-1, 0, 1} -> Nat]]]
    /\ DOMAIN t.link \subseteq Nat \ {0}

(* z is t with c as the child of p on side d. *)
Hung(t, z, p, d, c) ==
    /\ Typed(z) /\ DOMAIN z.link = DOMAIN t.link
    /\ z.root = IF p = Nil THEN c ELSE t.root
    /\ \A n \in DOMAIN t.link : \A e \in {-1, 0, 1} :
         z.link[n][e] = IF p # Nil /\ n = p /\ e = d THEN c
                        ELSE IF n = c /\ e = 0 THEN p ELSE t.link[n][e]

Hangable(t, p, d, c) ==
    Typed(t) /\ p \in DOMAIN t.link \cup {Nil} /\ c \in DOMAIN t.link \cup {Nil} /\ (p # Nil => d \in Sides)

LEMMA HangIs ==
  ASSUME NEW t, NEW p, NEW d, NEW c, Hangable(t, p, d, c)
  PROVE  Hung(t, Hang(t, p, d, c), p, d, c)
<1> DEFINE D == DOMAIN t.link
           L == [D -> [{-1, 0, 1} -> Nat]]
           up == IF c = Nil THEN t.link ELSE [t.link EXCEPT ![c][0] = p]
           z == Hang(t, p, d, c)
<1>1. t.link \in L /\ t.root \in Nat /\ t \in [root : Nat, link : L] /\ D \subseteq Nat \ {0} /\ Nil \notin D
      /\ p \in Nat /\ c \in Nat
  BY DEF Hangable, Typed, Nil
<1>2. /\ up \in L /\ DOMAIN up = D
      /\ \A n \in D : \A e \in {-1, 0, 1} : up[n][e] = IF n = c /\ e = 0 THEN p ELSE t.link[n][e]
  <2>1. CASE c = Nil
    BY <1>1, <2>1
  <2>2. CASE c # Nil
    <3>1. c \in D /\ up = [t.link EXCEPT ![c] = [t.link[c] EXCEPT ![0] = p]]
      BY <2>2 DEF Hangable
    <3>2. t.link[c] \in [{-1, 0, 1} -> Nat] /\ 0 \in {-1, 0, 1}
      BY <1>1, <3>1
    <3>3. [t.link[c] EXCEPT ![0] = p] \in [{-1, 0, 1} -> Nat]
      BY <1>1, <3>2
    <3>4. ASSUME NEW n \in D, NEW e \in {-1, 0, 1}
          PROVE  up[n][e] = IF n = c /\ e = 0 THEN p ELSE t.link[n][e]
      BY <1>1, <3>1, <3>2
    <3> QED BY <1>1, <3>1, <3>3, <3>4
  <2> QED BY <2>1, <2>2
<1> HIDE DEF up, L
<1>3. CASE p = Nil
  <2>1. z = [root |-> c, link |-> up]
    BY <1>3 DEF Hang, up
  <2>2. z.root = c /\ z.link = up /\ z \in [root : Nat, link : L]
    BY <1>1, <1>2, <2>1
  <2> HIDE DEF z
  <2> QED BY <1>1, <1>2, <1>3, <2>2 DEF Hung, Typed, L, z
<1>4. CASE p # Nil
  <2> DEFINE down == [up EXCEPT ![p][d] = c]
  <2>1. z = [t EXCEPT !.link = down]
    BY <1>4 DEF Hang, up
  <2>2. p \in D /\ d \in {-1, 0, 1}
    BY <1>4 DEF Hangable, Sides
  <2>3. up[p] \in [{-1, 0, 1} -> Nat] /\ down = [up EXCEPT ![p] = [up[p] EXCEPT ![d] = c]]
    BY <1>2, <2>2 DEF L
  <2>4. [up[p] EXCEPT ![d] = c] \in [{-1, 0, 1} -> Nat]
    BY <1>1, <2>3
  <2>5. down \in L /\ DOMAIN down = D
    BY <1>2, <2>2, <2>3, <2>4 DEF L
  <2>6. ASSUME NEW n \in D, NEW e \in {-1, 0, 1}
        PROVE  down[n][e] = IF n = p /\ e = d THEN c ELSE up[n][e]
    BY <1>2, <2>2, <2>3 DEF L
  <2> HIDE DEF down
  <2>7. z.root = t.root /\ z.link = down /\ z \in [root : Nat, link : L]
    BY <1>1, <2>1, <2>5
  <2> HIDE DEF z
  <2>8. Typed(z) /\ DOMAIN z.link = D
    BY <1>1, <2>5, <2>7 DEF Typed, L
  <2> QED BY <1>1, <1>2, <1>4, <2>6, <2>7, <2>8 DEF Hung, z
<1> QED BY <1>3, <1>4

(* In z the child c of n on side d has taken the place of n, and n that of  *)
(* c's inner child i; o and w are the other children of n and c, and q was *)
(* the parent of n.                                                        *)
Spun(t, z, N, n, d, c, i, q) ==
    /\ Typed(z) /\ DOMAIN z.link = DOMAIN t.link
    /\ z.root = IF q = Nil THEN c ELSE t.root
    /\ \A x \in N : z.link[x][0] = IF x = n THEN c ELSE IF x = c THEN q
                                   ELSE IF x = i THEN n ELSE t.link[x][0]
    /\ \A x \in N : \A f \in Sides :
         z.link[x][f] = IF x = n /\ f = d THEN i ELSE IF x = c /\ f = -d THEN n
                        ELSE IF t.link[x][f] = n THEN c ELSE t.link[x][f]

Spinning(t, N, sub, n, d, c, i, o, w, q) ==
    /\ Shape(t, N, sub) /\ Typed(t) /\ n \in N /\ d \in Sides
    /\ c = t.link[n][d] /\ c # Nil /\ o = t.link[n][-d]
    /\ i = t.link[c][-d] /\ w = t.link[c][d] /\ q = t.link[n][0]

LEMMA SpinningIs ==
  ASSUME NEW t, NEW N, NEW sub, NEW n, NEW d, NEW c, NEW i, NEW o, NEW w, NEW q,
         Spinning(t, N, sub, n, d, c, i, o, w, q)
  PROVE  /\ n \in N /\ c \in N /\ {i, o, w, q} \subseteq N \cup {Nil}
         /\ n # c /\ i \notin {n, c, o, w, q} \ {Nil} /\ o \notin {n, c, w, q} \ {Nil}
         /\ w \notin {n, c, q} \ {Nil} /\ q \notin {n, c}
         /\ n # Nil /\ c # Nil /\ d \in Sides /\ -d \in Sides /\ -d # d /\ -(-d) = d /\ d # 0 /\ -d # 0
         /\ N \subseteq Nat \ {0} /\ N \subseteq DOMAIN t.link /\ Nil = 0
         /\ t.link[c][0] = n
         /\ i # Nil => i \in N /\ t.link[i][0] = c
         /\ \A x \in N : \A f \in Sides : t.link[x][f] = n => x = q
         /\ \A x \in N : \A f \in Sides : t.link[x][f] = c => x = n /\ f = d
         /\ \A x \in N : \A f \in Sides : t.link[x][f] = i /\ i # Nil => x = c /\ f = -d
         /\ q = Nil <=> n = t.root
         /\ q # Nil => \E e \in Sides : t.link[q][e] = n /\ \A f \in Sides : t.link[q][f] = n => f = e
<1>a. /\ n \in N /\ d \in Sides /\ c = t.link[n][d] /\ c # Nil /\ o = t.link[n][-d]
      /\ i = t.link[c][-d] /\ w = t.link[c][d] /\ q = t.link[n][0]
  BY DEF Spinning
<1>b. Shape(t, N, sub)
  BY DEF Spinning
<1>1. /\ d \in Sides /\ -d \in Sides /\ -d # d /\ -(-d) = d /\ d # 0 /\ -d # 0 /\ Nil = 0
      /\ N \subseteq Nat \ {0} /\ N \subseteq DOMAIN t.link
  BY <1>a, <1>b, SMTT(30) DEF Sides, Nil, Shape, Woven
<1>2. Family(t, N, sub, n, d, c, o) /\ c \in N
  BY <1>a, <1>b, ChildIs DEF Family
<1>3. Family(t, N, sub, c, d, w, i)
  BY <1>a, <1>2 DEF Family
<1>4. /\ c \in N /\ o \in N \cup {Nil} /\ sub[c] \subseteq sub[n] /\ sub[o] \subseteq sub[n]
      /\ n \in sub[n] /\ n \notin sub[c] /\ n \notin sub[o] /\ \A m \in sub[c] : m \notin sub[o]
  BY <1>2, FamilyIs
<1>5. /\ w \in N \cup {Nil} /\ i \in N \cup {Nil} /\ sub[w] \subseteq sub[c] /\ sub[i] \subseteq sub[c]
      /\ c \in sub[c] /\ c \notin sub[w] /\ c \notin sub[i] /\ \A m \in sub[w] : m \notin sub[i]
  BY <1>3, FamilyIs
<1>6. \A x \in N : x \in sub[x]
  BY <1>b DEF Shape, Sorted
<1>7. q # Nil => q \in N /\ q \notin sub[n]
  <2> SUFFICES ASSUME q # Nil PROVE q \in N /\ q \notin sub[n]
    OBVIOUS
  <2>1. n # t.root
    BY <1>a, <1>b, SMTT(30) DEF Shape, Woven
  <2>2. PICK e \in Sides : q \in N /\ t.link[q][e] = n
    BY <1>a, <1>b, <2>1, ParentIs
  <2>3. q \notin sub[t.link[q][e]]
    BY <1>b, <2>2, ChildIs
  <2> QED BY <2>2, <2>3
<1>8. q = Nil <=> n = t.root
  BY <1>a, <1>b, <1>1 DEF Shape, Woven
<1>9. ASSUME NEW x \in N, NEW f \in Sides, t.link[x][f] # Nil PROVE t.link[t.link[x][f]][0] = x
  BY <1>b, <1>9 DEF Shape, Woven
<1>10. /\ t.link[c][0] = n /\ (i # Nil => i \in N /\ t.link[i][0] = c)
       /\ \A x \in N : \A f \in Sides : t.link[x][f] = n => x = q
  <2>1. t.link[c][0] = n
    BY <1>a, <1>9
  <2>2. i # Nil => i \in N /\ t.link[i][0] = c
    BY <1>a, <1>1, <1>4, <1>5, <1>9
  <2>3. \A x \in N : \A f \in Sides : t.link[x][f] = n => x = q
    BY <1>a, <1>1, <1>9
  <2> QED BY <2>1, <2>2, <2>3
<1>11. ASSUME NEW x \in N, NEW f \in Sides, t.link[x][f] = c PROVE x = n /\ f = d
  <2>1. x = n
    BY <1>a, <1>9, <1>10, <1>11
  <2>2. f = d \/ f = -d
    BY <1>a DEF Sides
  <2>3. o # c
    BY <1>4, <1>6
  <2> QED BY <1>a, <1>11, <2>1, <2>2, <2>3
<1>12. ASSUME NEW x \in N, NEW f \in Sides, t.link[x][f] = i, i # Nil PROVE x = c /\ f = -d
  <2>1. x = c
    BY <1>9, <1>10, <1>12
  <2>2. f = d \/ f = -d
    BY <1>a DEF Sides
  <2>3. w # i
    BY <1>5, <1>6, <1>12
  <2> QED BY <1>a, <1>12, <2>1, <2>2, <2>3
<1>13. q # Nil => \E e \in Sides : t.link[q][e] = n /\ \A f \in Sides : t.link[q][f] = n => f = e
  BY <1>a, <1>b, <1>8, ParentIs, SMTT(30)
<1>14. {i, o, w, q} \subseteq N \cup {Nil} /\ n # c /\ n # Nil /\ c # Nil
  BY <1>a, <1>1, <1>4, <1>5, <1>7
<1>15. /\ i # Nil => i \in sub[i] /\ i \in sub[c] /\ i # c /\ i # n
       /\ o # Nil => o \in sub[o] /\ o # n /\ o # c
       /\ w # Nil => w \in sub[w] /\ w \in sub[c] /\ w # c /\ w # n
  BY <1>4, <1>5, <1>6, <1>14
<1>16. (i # Nil => i \notin {o, w, q}) /\ (o # Nil => o \notin {w, q}) /\ (w # Nil => w # q)
  BY <1>4, <1>5, <1>7, <1>15
<1>17. q \notin {n, c}
  BY <1>1, <1>4, <1>5, <1>7, <1>14
<1>18. i \notin {n, c, o, w, q} \ {Nil} /\ o \notin {n, c, w, q} \ {Nil} /\ w \notin {n, c, q} \ {Nil}
  BY <1>15, <1>16
<1> QED BY <1>a, <1>1, <1>4, <1>8, <1>10, <1>11, <1>12, <1>13, <1>14, <1>17, <1>18

LEMMA RotatedSpins ==
  ASSUME NEW t, NEW N, NEW sub, NEW n, NEW d, NEW c, NEW i, NEW o, NEW w, NEW q,
         Spinning(t, N, sub, n, d, c, i, o, w, q)
  PROVE  Spun(t, Rotated(t, n, d), N, n, d, c, i, q)
<1> DEFINE e == DirOf(t, n)
           a == Hang(t, n, d, i)
           b == Hang(a, q, e, c)
           z == Hang(b, c, -d, n)
<1>1. /\ n \in N /\ c \in N /\ i \in N \cup {Nil} /\ q \in N \cup {Nil} /\ n # Nil /\ c # Nil /\ n # c
      /\ d \in Sides /\ -d \in Sides /\ -d # d /\ d # 0 /\ -d # 0 /\ q \notin {n, c}
      /\ N \subseteq DOMAIN t.link /\ Typed(t) /\ i \notin {n, c}
      /\ \A x \in N : \A f \in Sides : t.link[x][f] = n => x = q
      /\ Sides \subseteq {-1, 0, 1} /\ 0 \in {-1, 0, 1} /\ 0 \notin Sides /\ Nil \notin N
  <2>1. Typed(t)
    BY DEF Spinning
  <2> QED BY <2>1, SpinningIs DEF Sides, Nil
<1>2. q # Nil => e \in Sides /\ \A f \in Sides : t.link[q][f] = n <=> f = e
  <2> SUFFICES ASSUME q # Nil PROVE e \in Sides /\ \A f \in Sides : t.link[q][f] = n <=> f = e
    OBVIOUS
  <2>1. PICK g \in Sides : t.link[q][g] = n /\ \A f \in Sides : t.link[q][f] = n => f = g
    BY SpinningIs
  <2>2. e = IF t.link[q][-1] = n THEN -1 ELSE 1
    BY DEF DirOf, Spinning
  <2>3. e = g
    BY <2>1, <2>2 DEF Sides
  <2> QED BY <2>1, <2>3
<1>3. Rotated(t, n, d) = z
  BY <1>1 DEF Rotated, Spinning
<1> HIDE DEF e
<1>4. Hung(t, a, n, d, i)
  <2>1. Hangable(t, n, d, i)
    BY <1>1 DEF Hangable
  <2> QED BY <2>1, HangIs
<1> HIDE DEF a
<1>5. Hung(a, b, q, e, c)
  <2>1. Hangable(a, q, e, c)
    BY <1>1, <1>2, <1>4 DEF Hangable, Hung
  <2> QED BY <2>1, HangIs
<1> HIDE DEF b
<1>6. Hung(b, z, c, -d, n)
  <2>1. Hangable(b, c, -d, n)
    BY <1>1, <1>4, <1>5 DEF Hangable, Hung
  <2> QED BY <2>1, HangIs
<1> HIDE DEF z
<1>7. Typed(z) /\ DOMAIN z.link = DOMAIN t.link /\ z.root = IF q = Nil THEN c ELSE t.root
  BY <1>1, <1>4, <1>5, <1>6 DEF Hung
<1>8. ASSUME NEW x \in N, NEW f \in {-1, 0, 1}
      PROVE  /\ a.link[x][f] = IF x = n /\ f = d THEN i ELSE IF x = i /\ f = 0 THEN n ELSE t.link[x][f]
             /\ b.link[x][f] = IF q # Nil /\ x = q /\ f = e THEN c ELSE IF x = c /\ f = 0 THEN q ELSE a.link[x][f]
             /\ z.link[x][f] = IF x = c /\ f = -d THEN n ELSE IF x = n /\ f = 0 THEN c ELSE b.link[x][f]
  BY <1>1, <1>4, <1>5, <1>6 DEF Hung
<1>9. ASSUME NEW x \in N
      PROVE  z.link[x][0] = IF x = n THEN c ELSE IF x = c THEN q ELSE IF x = i THEN n ELSE t.link[x][0]
  BY <1>1, <1>2, <1>8
<1>10. ASSUME NEW x \in N, NEW f \in Sides
       PROVE  z.link[x][f] = IF x = n /\ f = d THEN i ELSE IF x = c /\ f = -d THEN n
                             ELSE IF t.link[x][f] = n THEN c ELSE t.link[x][f]
  <2>1. t.link[x][f] = n <=> q # Nil /\ x = q /\ f = e
    BY <1>1, <1>2
  <2> QED BY <1>1, <1>8, <2>1
<1> QED BY <1>3, <1>7, <1>9, <1>10 DEF Spun

-----------------------------------------------------------------------------
(* A rotation keeps the shape. *)
SpunUnder(N, sub, n, c, i, o) ==
    [x \in N \cup {Nil} |-> IF x = c THEN sub[n] ELSE IF x = n THEN {n} \cup sub[o] \cup sub[i] ELSE sub[x]]

LEMMA PastFlips ==
  ASSUME NEW d \in Sides, NEW x \in Nat, NEW y \in Nat
  PROVE  /\ Past(-d, x, y) <=> Past(d, y, x)
         /\ \A z \in Nat : Past(d, x, y) /\ Past(d, y, z) => Past(d, x, z)
         /\ ~Past(d, x, x)
BY DEF Past, Sides

LEMMA SpunWoven ==
  ASSUME NEW t, NEW z, NEW N, NEW sub, NEW n, NEW d, NEW c, NEW i, NEW o, NEW w, NEW q,
         Spinning(t, N, sub, n, d, c, i, o, w, q), Spun(t, z, N, n, d, c, i, q)
  PROVE  Woven(z, N)
<1>1. /\ n \in N /\ c \in N /\ i \in N \cup {Nil} /\ q \in N \cup {Nil} /\ n # c /\ i \notin {n, c}
      /\ q \notin {n, c} /\ n # Nil /\ c # Nil /\ Nil \notin N /\ d \in Sides /\ -d \in Sides /\ -d # d
      /\ t.link[c][0] = n /\ (i # Nil => t.link[i][0] = c)
      /\ \A x \in N : \A f \in Sides : t.link[x][f] = n => x = q
      /\ \A x \in N : \A f \in Sides : t.link[x][f] = c => x = n /\ f = d
      /\ \A x \in N : \A f \in Sides : t.link[x][f] = i /\ i # Nil => x = c /\ f = -d
      /\ q = Nil <=> n = t.root
      /\ q # Nil => \E e \in Sides : t.link[q][e] = n
  BY SpinningIs
<1>2. /\ N \subseteq DOMAIN t.link /\ N \subseteq Nat \ {0} /\ IsFiniteSet(N) /\ t.root \in N
      /\ \A x \in N : \A f \in Sides :
           t.link[x][f] # Nil => t.link[x][f] \in N /\ t.link[t.link[x][f]][0] = x
      /\ t.link[t.root][0] = Nil
      /\ \A x \in N : x # t.root => t.link[x][0] \in N /\ \E f \in Sides : t.link[t.link[x][0]][f] = x
  <2>1. Woven(t, N) /\ N # {}
    BY <1>1 DEF Spinning, Shape
  <2> QED BY <2>1 DEF Woven
<1>3. /\ z \in [root : Nat, link : [DOMAIN z.link -> [{-1, 0, 1} -> Nat]]]
      /\ DOMAIN z.link = DOMAIN t.link
      /\ z.root = IF q = Nil THEN c ELSE t.root
  BY DEF Spun, Typed
<1>4. ASSUME NEW x \in N
      PROVE  z.link[x][0] = IF x = n THEN c ELSE IF x = c THEN q
                            ELSE IF x = i THEN n ELSE t.link[x][0]
  BY DEF Spun
<1>5. ASSUME NEW x \in N, NEW f \in Sides
      PROVE  z.link[x][f] = IF x = n /\ f = d THEN i ELSE IF x = c /\ f = -d THEN n
                            ELSE IF t.link[x][f] = n THEN c ELSE t.link[x][f]
  BY DEF Spun
<1>6. ASSUME NEW x \in N, NEW f \in Sides, z.link[x][f] # Nil
      PROVE  z.link[x][f] \in N /\ z.link[z.link[x][f]][0] = x
  <2> DEFINE y == t.link[x][f]
  <2>1. CASE x = n /\ f = d
    <3>1. z.link[x][f] = i
      BY <1>5, <2>1
    <3> QED BY <1>1, <1>4, <1>6, <2>1, <3>1
  <2>2. CASE x = c /\ f = -d
    <3>1. z.link[x][f] = n
      BY <1>1, <1>5, <2>2
    <3> QED BY <1>1, <1>4, <2>2, <3>1
  <2>3. CASE y = n
    <3>1. x = q
      BY <1>1, <2>3
    <3>2. z.link[x][f] = c
      BY <1>1, <1>5, <2>3, <3>1
    <3> QED BY <1>1, <1>4, <3>1, <3>2
  <2>4. CASE ~(x = n /\ f = d) /\ ~(x = c /\ f = -d) /\ y # n
    <3>1. z.link[x][f] = y
      BY <1>5, <2>4
    <3>2. y \in N /\ t.link[y][0] = x
      BY <1>2, <1>6, <3>1
    <3>3. y # c /\ y # i
      BY <1>1, <2>4, <3>2
    <3> QED BY <1>4, <2>4, <3>1, <3>2, <3>3
  <2> QED BY <2>1, <2>2, <2>3, <2>4
<1>7. ASSUME NEW x \in N
      PROVE  IF x = z.root THEN z.link[x][0] = Nil
             ELSE z.link[x][0] \in N /\ \E f \in Sides : z.link[z.link[x][0]][f] = x
  <2>1. CASE x = n
    <3>1. x # z.root
      BY <1>1, <1>3, <2>1
    <3>2. z.link[x][0] = c /\ z.link[c][-d] = x
      BY <1>1, <1>4, <1>5, <2>1
    <3> QED BY <1>1, <3>1, <3>2
  <2>2. CASE x = c
    <3>1. z.link[x][0] = q
      BY <1>1, <1>4, <2>2
    <3>2. CASE q = Nil
      BY <1>3, <2>2, <3>1, <3>2
    <3>3. CASE q # Nil
      <4>1. c # t.root
        BY <1>1, <1>2
      <4>2. PICK e \in Sides : t.link[q][e] = n
        BY <1>1, <3>3
      <4>3. q \in N /\ z.link[q][e] = c
        BY <1>1, <1>5, <3>3, <4>2
      <4> QED BY <1>3, <2>2, <3>1, <3>3, <4>1, <4>3
    <3> QED BY <3>2, <3>3
  <2>3. CASE x = i
    <3>1. x # z.root
      BY <1>1, <1>2, <1>3, <2>3
    <3>2. z.link[x][0] = n /\ z.link[n][d] = x
      BY <1>1, <1>4, <1>5, <2>3
    <3> QED BY <1>1, <3>1, <3>2
  <2>4. CASE x \notin {n, c, i}
    <3>1. z.link[x][0] = t.link[x][0]
      BY <1>4, <2>4
    <3>2. CASE x = t.root
      BY <1>1, <1>2, <1>3, <2>4, <3>1, <3>2
    <3>3. CASE x # t.root
      <4>1. x # z.root
        BY <1>3, <2>4, <3>3
      <4> DEFINE y == t.link[x][0]
      <4>2. y \in N
        BY <1>2, <3>3
      <4>3. PICK f \in Sides : t.link[y][f] = x
        BY <1>2, <3>3
      <4> HIDE DEF y
      <4>4. ~(y = n /\ f = d)
        BY <2>4, <4>3 DEF Spinning
      <4>5. ~(y = c /\ f = -d)
        BY <2>4, <4>3 DEF Spinning
      <4>6. z.link[y][f] = x
        BY <1>5, <2>4, <4>2, <4>3, <4>4, <4>5
      <4> QED BY <3>1, <4>1, <4>2, <4>6 DEF y
    <3> QED BY <3>2, <3>3
  <2> QED BY <2>1, <2>2, <2>3, <2>4
<1>8. z.root \in N
  BY <1>1, <1>2, <1>3
<1>9. N # {}
  BY <1>1
<1> QED BY <1>2, <1>3, <1>6, <1>7, <1>8, <1>9 DEF Woven

LEMMA SpunSorted ==
  ASSUME NEW t, NEW z, NEW N, NEW sub, NEW n, NEW d, NEW c, NEW i, NEW o, NEW w, NEW q,
         Spinning(t, N, sub, n, d, c, i, o, w, q), Spun(t, z, N, n, d, c, i, q)
  PROVE  Sorted(z, N, SpunUnder(N, sub, n, c, i, o))
<1> DEFINE under == SpunUnder(N, sub, n, c, i, o)
<1>1. /\ n \in N /\ c \in N /\ {i, o, w, q} \subseteq N \cup {Nil}
      /\ n # c /\ i \notin {n, c} /\ o \notin {n, c} /\ w \notin {n, c}
      /\ q \notin {n, c} /\ n # Nil /\ c # Nil /\ d \in Sides /\ -d \in Sides /\ -d # d /\ -(-d) = d
      /\ N \subseteq Nat \ {0}
      /\ \A x \in N : \A f \in Sides : t.link[x][f] = c => x = n /\ f = d
      /\ q = Nil <=> n = t.root
      /\ Nil = 0
  BY SpinningIs
<1>2. /\ Shape(t, N, sub) /\ t.link[n][d] = c /\ t.link[n][-d] = o /\ t.link[c][d] = w /\ t.link[c][-d] = i
  BY DEF Spinning
<1>3. /\ sub \in [N \cup {Nil} -> SUBSET N] /\ sub[Nil] = {} /\ sub[t.root] = N
      /\ \A x \in N : sub[x] = {x} \cup sub[t.link[x][-1]] \cup sub[t.link[x][1]]
      /\ \A x \in N : \A f \in Sides : \A m \in sub[t.link[x][f]] : Past(f, x, m)
      /\ \A x \in N : \A f \in Sides : t.link[x][f] \in N \cup {Nil}
      /\ t.root \in N /\ t.root # c
  <2>1. t.root \in N /\ (\A x \in N : \A f \in Sides : t.link[x][f] \in N \cup {Nil})
    BY <1>1, <1>2 DEF Shape, Woven
  <2>2. t.root # c
    BY <1>1, <1>2, ChildIs
  <2> QED BY <1>1, <1>2, <2>1, <2>2 DEF Shape, Sorted
<1>4. z.root = IF q = Nil THEN c ELSE t.root
  BY DEF Spun
<1>5. ASSUME NEW x \in N, NEW f \in Sides
      PROVE  z.link[x][f] = IF x = n /\ f = d THEN i ELSE IF x = c /\ f = -d THEN n
                            ELSE IF t.link[x][f] = n THEN c ELSE t.link[x][f]
  BY DEF Spun
<1>6. ASSUME NEW x \in N \cup {Nil}
      PROVE  under[x] = IF x = c THEN sub[n] ELSE IF x = n THEN {n} \cup sub[o] \cup sub[i] ELSE sub[x]
  BY DEF SpunUnder
<1>8. sub[n] = {n} \cup sub[c] \cup sub[o] /\ sub[c] = {c} \cup sub[w] \cup sub[i]
  BY <1>1, <1>2, <1>3 DEF Sides
<1>9. under \in [N \cup {Nil} -> SUBSET N] /\ under[Nil] = {}
  <2>1. under = [x \in N \cup {Nil} |-> under[x]]
    BY DEF SpunUnder
  <2>2. \A x \in N \cup {Nil} : under[x] \in SUBSET N
    BY <1>1, <1>3, <1>6
  <2>3. under[Nil] = {}
    BY <1>1, <1>3, <1>6
  <2> HIDE DEF under
  <2> QED BY <2>1, <2>2, <2>3
<1>10. under[z.root] = N
  BY <1>1, <1>3, <1>4, <1>6
<1> HIDE DEF under
<1>11. z.link[n][d] = i /\ z.link[n][-d] = o /\ z.link[c][-d] = n /\ z.link[c][d] = w
  BY <1>1, <1>2, <1>5
<1>12. under[i] = sub[i] /\ under[o] = sub[o] /\ under[w] = sub[w] /\ under[c] = sub[n]
       /\ under[n] = {n} \cup sub[o] \cup sub[i]
  BY <1>1, <1>6
<1>13. ASSUME NEW x \in N, x \notin {n, c}, NEW f \in Sides
       PROVE  under[z.link[x][f]] = sub[t.link[x][f]]
  <2>1. t.link[x][f] # c
    BY <1>1, <1>13
  <2>2. z.link[x][f] = IF t.link[x][f] = n THEN c ELSE t.link[x][f]
    BY <1>5, <1>13
  <2>3. t.link[x][f] \in N \cup {Nil}
    BY <1>3
  <2> QED BY <1>6, <1>12, <2>1, <2>2, <2>3
<1>14. ASSUME NEW x \in N PROVE under[x] = {x} \cup under[z.link[x][d]] \cup under[z.link[x][-d]]
  <2>1. CASE x = n
    BY <1>11, <1>12, <2>1
  <2>2. CASE x = c
    BY <1>8, <1>11, <1>12, <2>2
  <2>3. CASE x \notin {n, c}
    <3>1. under[x] = sub[x]
      BY <1>6, <2>3
    <3>2. under[z.link[x][d]] = sub[t.link[x][d]] /\ under[z.link[x][-d]] = sub[t.link[x][-d]]
      BY <1>1, <1>13, <2>3
    <3>3. sub[x] = {x} \cup sub[t.link[x][d]] \cup sub[t.link[x][-d]]
      <4>1. sub[x] = {x} \cup sub[t.link[x][-1]] \cup sub[t.link[x][1]]
        BY <1>3
      <4> QED BY <1>1, <4>1 DEF Sides
    <3> QED BY <3>1, <3>2, <3>3
  <2> QED BY <2>1, <2>2, <2>3
<1>15. ASSUME NEW x \in N PROVE under[x] = {x} \cup under[z.link[x][-1]] \cup under[z.link[x][1]]
  <2>1. under[x] = {x} \cup under[z.link[x][d]] \cup under[z.link[x][-d]]
    BY <1>14
  <2> QED BY <1>1, <2>1 DEF Sides
<1>16. \A m \in sub[c] : m \in Nat /\ Past(d, n, m)
  BY <1>1, <1>2, <1>3
<1>17. \A m \in sub[o] : m \in Nat /\ Past(-d, n, m)
  BY <1>1, <1>2, <1>3
<1>18. \A m \in sub[w] : Past(d, c, m)
  BY <1>1, <1>2, <1>3
<1>19. \A m \in sub[i] : Past(-d, c, m) /\ m \in sub[c]
  BY <1>1, <1>2, <1>3, <1>8
<1>20. Past(-d, c, n) /\ \A m \in sub[o] : Past(-d, c, m)
  <2>1. n \in Nat /\ c \in Nat /\ c \in sub[c]
    BY <1>1, <1>8
  <2>2. Past(d, n, c)
    BY <1>16, <2>1
  <2>3. Past(-d, c, n)
    BY <1>1, <2>1, <2>2, PastFlips
  <2>4. ASSUME NEW m \in sub[o] PROVE Past(-d, c, m)
    <3>1. m \in Nat /\ Past(-d, n, m)
      BY <1>17
    <3> QED BY <1>1, <2>1, <2>3, <3>1, PastFlips
  <2> QED BY <2>3, <2>4
<1>21. ASSUME NEW x \in N, NEW f \in Sides, NEW m \in under[z.link[x][f]] PROVE Past(f, x, m)
  <2>0. f = d \/ f = -d
    BY <1>1 DEF Sides
  <2>1. CASE x = n
    BY <1>11, <1>12, <1>16, <1>17, <1>19, <1>21, <2>0, <2>1
  <2>2. CASE x = c
    BY <1>11, <1>12, <1>18, <1>19, <1>20, <1>21, <2>0, <2>2
  <2>3. CASE x \notin {n, c}
    BY <1>3, <1>13, <1>21, <2>3
  <2> QED BY <2>1, <2>2, <2>3
<1>22. Sorted(z, N, under)
  BY <1>9, <1>10, <1>15, <1>21 DEF Sorted
<1> QED BY <1>22 DEF under

(* Rotating a node with a child keeps the shape. *)
LEMMA RotatedShape ==
  ASSUME NEW t, NEW N, NEW sub, Shape(t, N, sub), Typed(t), NEW n \in N, NEW d \in Sides
  PROVE  /\ Typed(Rotated(t, n, d)) /\ DOMAIN Rotated(t, n, d).link = DOMAIN t.link
         /\ \E under : Shape(Rotated(t, n, d), N, under)
<1> DEFINE c == t.link[n][d]
           i == t.link[c][-d]
           o == t.link[n][-d]
           w == t.link[c][d]
           q == t.link[n][0]
           z == Rotated(t, n, d)
<1>1. CASE c = Nil
  <2>1. z = t
    BY <1>1 DEF Rotated
  <2> QED BY <2>1
<1>2. CASE c # Nil
  <2>1. Spinning(t, N, sub, n, d, c, i, o, w, q)
    BY <1>2 DEF Spinning
  <2> HIDE DEF c, i, o, w, q
  <2>2. Spun(t, z, N, n, d, c, i, q)
    BY <2>1, RotatedSpins
  <2> HIDE DEF z
  <2>3. Shape(z, N, SpunUnder(N, sub, n, c, i, o))
    BY <2>1, <2>2, SpunWoven, SpunSorted DEF Shape
  <2>4. Typed(z) /\ DOMAIN z.link = DOMAIN t.link
    BY <2>2 DEF Spun
  <2> QED BY <2>3, <2>4 DEF z
<1> QED BY <1>1, <1>2

-----------------------------------------------------------------------------
(* Linking in a new node keeps the shape. *)

(* z is t with the new leaf k under p on side d. *)
Grafted(t, z, N, p, d, k) ==
    /\ Typed(z) /\ DOMAIN z.link = N \cup {k}
    /\ z.root = IF p = Nil THEN k ELSE t.root
    /\ \A x \in N \cup {k} : z.link[x][0] = IF x = k THEN p ELSE t.link[x][0]
    /\ \A x \in N \cup {k} : \A f \in Sides :
         z.link[x][f] = IF p # Nil /\ x = p /\ f = d THEN k ELSE IF x = k THEN Nil ELSE t.link[x][f]

LEMMA LinkedGrafts ==
  ASSUME NEW k \in Nat \ {0}, k \notin Nodes, Typed(tree), Place(k) \in Nodes \cup {Nil}
  PROVE  Grafted(tree, Linked(k), Nodes, Place(k), Toward(k, Place(k)), k)
<1> DEFINE p == Place(k)
           d == Toward(k, p)
           leaf == [e \in {-1, 0, 1} |-> Nil]
           bare == [n \in Nodes \cup {k} |-> IF n = k THEN leaf ELSE tree.link[n]]
           t == [tree EXCEPT !.link = bare]
           z == Hang(t, p, d, k)
<1>1. Linked(k) = z
  BY DEF Linked
<1>2. d \in Sides
  BY TowardSides
<1>3. leaf \in [{-1, 0, 1} -> Nat]
  BY DEF Nil
<1>4. tree.link \in [Nodes -> [{-1, 0, 1} -> Nat]] /\ tree = [root |-> tree.root, link |-> tree.link] /\ tree.root \in Nat
      /\ Nodes \subseteq Nat \ {0}
  BY DEF Typed, Nodes
<1>5. bare \in [Nodes \cup {k} -> [{-1, 0, 1} -> Nat]]
  BY <1>3, <1>4
<1>6. /\ DOMAIN bare = Nodes \cup {k}
      /\ \A x \in Nodes : bare[x] = tree.link[x]
      /\ bare[k] = leaf /\ \A e \in {-1, 0, 1} : leaf[e] = Nil
  OBVIOUS
<1> HIDE DEF bare, leaf
<1>7. t.root = tree.root /\ t.link = bare /\ t \in [root : Nat, link : [Nodes \cup {k} -> [{-1, 0, 1} -> Nat]]]
  BY <1>4, <1>5
<1> HIDE DEF t
<1>8. Hangable(t, p, d, k)
  BY <1>2, <1>4, <1>6, <1>7 DEF Hangable, Typed
<1>9. Hung(t, z, p, d, k)
  BY <1>8, HangIs
<1> HIDE DEF z
<1>10. k # Nil /\ p # k
  BY <1>4 DEF Nil
<1>11. ASSUME NEW x \in Nodes \cup {k}, NEW e \in {-1, 0, 1}
       PROVE  z.link[x][e] = IF p # Nil /\ x = p /\ e = d THEN k
                             ELSE IF x = k /\ e = 0 THEN p ELSE IF x = k THEN Nil ELSE tree.link[x][e]
  <2>1. z.link[x][e] = IF p # Nil /\ x = p /\ e = d THEN k ELSE IF x = k /\ e = 0 THEN p ELSE t.link[x][e]
    BY <1>6, <1>7, <1>9 DEF Hung
  <2>2. t.link[x][e] = IF x = k THEN Nil ELSE tree.link[x][e]
    BY <1>6, <1>7
  <2> QED BY <2>1, <2>2
<1>12. d # 0 /\ 0 \in {-1, 0, 1} /\ Sides \subseteq {-1, 0, 1} /\ 0 \notin Sides
  BY <1>2 DEF Sides
<1>13. Typed(z) /\ DOMAIN z.link = Nodes \cup {k} /\ z.root = IF p = Nil THEN k ELSE tree.root
  BY <1>6, <1>7, <1>9 DEF Hung
<1>14. ASSUME NEW x \in Nodes \cup {k} PROVE z.link[x][0] = IF x = k THEN p ELSE tree.link[x][0]
  BY <1>11, <1>12
<1>15. ASSUME NEW x \in Nodes \cup {k}, NEW f \in Sides
       PROVE  z.link[x][f] = IF p # Nil /\ x = p /\ f = d THEN k ELSE IF x = k THEN Nil ELSE tree.link[x][f]
  BY <1>11, <1>12
<1> QED BY <1>1, <1>13, <1>14, <1>15 DEF Grafted

(* The place of k: p has no child on k's side, and from every node above p *)
(* the search for k goes towards p.                                        *)
Vacant(t, N, sub, p, d, k) ==
    /\ Shape(t, N, sub) /\ p \in N /\ k \in Nat \ {0} /\ k \notin N
    /\ d = Toward(k, p) /\ t.link[p][d] = Nil
    /\ \A a \in N : p \in sub[a] => a = p \/ p \in sub[t.link[a][Toward(k, a)]]

UnderWith(N, sub, p, k) ==
    [x \in N \cup {k, Nil} |-> IF x = k THEN {k} ELSE IF p \in sub[x] THEN sub[x] \cup {k} ELSE sub[x]]

LEMMA GraftedWoven ==
  ASSUME NEW t, NEW z, NEW N, NEW sub, NEW p, NEW d, NEW k, Vacant(t, N, sub, p, d, k), Grafted(t, z, N, p, d, k)
  PROVE  Woven(z, N \cup {k})
<1>1. /\ p \in N /\ k \in Nat \ {0} /\ k \notin N /\ t.link[p][d] = Nil /\ p # k /\ k # Nil /\ p # Nil
      /\ N \subseteq Nat \ {0} /\ IsFiniteSet(N) /\ t.root \in N /\ d \in Sides
      /\ \A x \in N : \A f \in Sides : t.link[x][f] # Nil => t.link[x][f] \in N /\ t.link[t.link[x][f]][0] = x
      /\ \A x \in N : IF x = t.root THEN t.link[x][0] = Nil
                      ELSE t.link[x][0] \in N /\ \E f \in Sides : t.link[t.link[x][0]][f] = x
  <2>1. Woven(t, N) /\ p \in N /\ k \in Nat \ {0} /\ k \notin N /\ t.link[p][d] = Nil /\ d = Toward(k, p)
    BY DEF Vacant, Shape
  <2>2. d \in Sides
    BY <2>1, TowardSides
  <2> QED BY <2>1, <2>2 DEF Woven, Nil
<1>2. /\ z \in [root : Nat, link : [DOMAIN z.link -> [{-1, 0, 1} -> Nat]]]
      /\ DOMAIN z.link = N \cup {k} /\ z.root = t.root
  BY <1>1 DEF Grafted, Typed
<1>3. ASSUME NEW x \in N \cup {k} PROVE z.link[x][0] = IF x = k THEN p ELSE t.link[x][0]
  BY DEF Grafted
<1>4. ASSUME NEW x \in N \cup {k}, NEW f \in Sides
      PROVE  z.link[x][f] = IF x = p /\ f = d THEN k ELSE IF x = k THEN Nil ELSE t.link[x][f]
  BY <1>1 DEF Grafted
<1>5. ASSUME NEW x \in N \cup {k}, NEW f \in Sides, z.link[x][f] # Nil
      PROVE  z.link[x][f] \in N \cup {k} /\ z.link[z.link[x][f]][0] = x
  <2>1. CASE x = p /\ f = d
    <3>1. z.link[x][f] = k
      BY <1>4, <2>1
    <3> QED BY <1>3, <2>1, <3>1
  <2>2. CASE ~(x = p /\ f = d)
    <3>1. x # k /\ z.link[x][f] = t.link[x][f]
      BY <1>4, <1>5, <2>2
    <3>2. t.link[x][f] \in N /\ t.link[t.link[x][f]][0] = x
      BY <1>1, <1>5, <3>1
    <3>3. t.link[x][f] # k
      BY <1>1, <3>2
    <3>4. z.link[t.link[x][f]][0] = t.link[t.link[x][f]][0]
      BY <1>3, <3>2, <3>3
    <3> QED BY <3>1, <3>2, <3>4
  <2> QED BY <2>1, <2>2
<1>6. ASSUME NEW x \in N \cup {k}
      PROVE  IF x = z.root THEN z.link[x][0] = Nil
             ELSE z.link[x][0] \in N \cup {k} /\ \E f \in Sides : z.link[z.link[x][0]][f] = x
  <2>1. CASE x = k
    BY <1>1, <1>2, <1>3, <1>4, <2>1
  <2>2. CASE x = t.root
    BY <1>1, <1>2, <1>3, <2>2
  <2>3. CASE x # k /\ x # t.root
    <3> DEFINE y == t.link[x][0]
    <3>1. y \in N /\ z.link[x][0] = y
      BY <1>1, <1>3, <2>3
    <3>2. PICK f \in Sides : t.link[y][f] = x
      BY <1>1, <2>3
    <3> HIDE DEF y
    <3>3. x # Nil
      BY <1>1, <2>3 DEF Nil
    <3>4. z.link[y][f] = x
      BY <1>1, <1>4, <3>1, <3>2, <3>3
    <3> QED BY <1>2, <2>3, <3>1, <3>4
  <2> QED BY <2>1, <2>2, <2>3
<1>7. IsFiniteSet(N \cup {k}) /\ N \cup {k} \subseteq Nat \ {0} /\ N \cup {k} # {} /\ z.root \in N \cup {k}
  BY <1>1, <1>2, FS_AddElement
<1> QED BY <1>2, <1>5, <1>6, <1>7 DEF Woven

LEMMA GraftedSorted ==
  ASSUME NEW t, NEW z, NEW N, NEW sub, NEW p, NEW d, NEW k, Vacant(t, N, sub, p, d, k), Grafted(t, z, N, p, d, k)
  PROVE  Sorted(z, N \cup {k}, UnderWith(N, sub, p, k))
<1> DEFINE under == UnderWith(N, sub, p, k)
           M == N \cup {k}
<1>1. /\ p \in N /\ k \in Nat \ {0} /\ k \notin N /\ t.link[p][d] = Nil /\ p # k /\ k # Nil /\ p # Nil
      /\ N \subseteq Nat \ {0} /\ t.root \in N /\ d \in Sides /\ d = Toward(k, p) /\ Nil \notin N
      /\ \A x \in N : \A f \in Sides : t.link[x][f] \in N \cup {Nil}
      /\ \A a \in N : p \in sub[a] => a = p \/ p \in sub[t.link[a][Toward(k, a)]]
  <2>1. /\ Woven(t, N) /\ p \in N /\ k \in Nat \ {0} /\ k \notin N /\ t.link[p][d] = Nil /\ d = Toward(k, p)
        /\ \A a \in N : p \in sub[a] => a = p \/ p \in sub[t.link[a][Toward(k, a)]]
    BY DEF Vacant, Shape
  <2>2. d \in Sides
    BY <2>1, TowardSides
  <2>3. N \subseteq Nat \ {0} /\ t.root \in N /\ \A x \in N : \A f \in Sides : t.link[x][f] \in N \cup {Nil}
    BY <2>1 DEF Woven
  <2> QED BY <2>1, <2>2, <2>3 DEF Nil
<1>2. /\ sub \in [N \cup {Nil} -> SUBSET N] /\ sub[Nil] = {} /\ sub[t.root] = N
      /\ \A x \in N : sub[x] = {x} \cup sub[t.link[x][-1]] \cup sub[t.link[x][1]]
      /\ \A x \in N : \A f \in Sides : \A m \in sub[t.link[x][f]] : Past(f, x, m)
      /\ Shape(t, N, sub)
  <2>1. Sorted(t, N, sub) /\ Shape(t, N, sub) /\ N # {}
    BY <1>1 DEF Vacant, Shape
  <2> QED BY <2>1 DEF Sorted
<1>3. z.root = t.root
  BY <1>1 DEF Grafted
<1>4. ASSUME NEW x \in M, NEW f \in Sides
      PROVE  z.link[x][f] = IF x = p /\ f = d THEN k ELSE IF x = k THEN Nil ELSE t.link[x][f]
  BY <1>1 DEF Grafted
<1>5. ASSUME NEW x \in N \cup {Nil} PROVE under[x] = IF p \in sub[x] THEN sub[x] \cup {k} ELSE sub[x]
  BY <1>1 DEF UnderWith
<1>6. under[k] = {k}
  BY DEF UnderWith
<1>7. under \in [M \cup {Nil} -> SUBSET M] /\ under[Nil] = {}
  <2>1. under = [x \in M \cup {Nil} |-> under[x]]
    <3>1. M \cup {Nil} = N \cup {k, Nil}
      OBVIOUS
    <3> QED BY <3>1 DEF UnderWith
  <2>2. under[Nil] = {}
    BY <1>2, <1>5
  <2>3. \A x \in N \cup {Nil} : under[x] \in SUBSET M
    <3>1. \A x \in N \cup {Nil} : sub[x] \in SUBSET N
      BY <1>2
    <3> HIDE DEF under
    <3> QED BY <1>5, <3>1
  <2> HIDE DEF under
  <2> QED BY <1>6, <2>1, <2>2, <2>3
<1>8. under[z.root] = M
  BY <1>1, <1>2, <1>3, <1>5
<1> HIDE DEF under
<1>9. ASSUME NEW x \in N, NEW f \in Sides, p \in sub[t.link[x][f]]
      PROVE  f = Toward(k, x) /\ p # x /\ p \in sub[x] /\ Past(f, x, k)
  <2> DEFINE e == Toward(k, x)
  <2>1. e \in Sides
    BY TowardSides
  <2>2. p \in sub[x] /\ p # x /\ p \notin sub[t.link[x][-f]]
    BY <1>2, <1>9, ChildIs
  <2>3. p \in sub[t.link[x][e]]
    BY <1>1, <2>2
  <2>4. f = e \/ f = -e
    BY <2>1 DEF Sides
  <2>5. -(-e) = e
    BY <2>1 DEF Sides
  <2>6. f = e
    BY <2>2, <2>3, <2>4, <2>5
  <2>7. x # k /\ x \in Nat
    BY <1>1
  <2>8. Past(e, x, k)
    BY <1>1, <2>7 DEF Past, Toward
  <2> QED BY <2>2, <2>6, <2>8
<1>10. ASSUME NEW x \in N, NEW f \in Sides
       PROVE  under[z.link[x][f]] = IF (x = p /\ f = d) \/ p \in sub[t.link[x][f]] THEN sub[t.link[x][f]] \cup {k}
                                    ELSE sub[t.link[x][f]]
  <2>1. CASE x = p /\ f = d
    BY <1>1, <1>2, <1>4, <1>6, <2>1
  <2>2. CASE ~(x = p /\ f = d)
    <3>1. z.link[x][f] = t.link[x][f] /\ t.link[x][f] \in N \cup {Nil}
      BY <1>1, <1>4, <2>2
    <3> QED BY <1>5, <2>2, <3>1
  <2> QED BY <2>1, <2>2
<1>11. ASSUME NEW x \in N, p \in sub[x]
       PROVE  \E f \in Sides : (x = p /\ f = d) \/ p \in sub[t.link[x][f]]
  <2>1. CASE x = p
    BY <1>1, <2>1
  <2>2. CASE x # p
    BY <1>1, <1>11, <2>2, TowardSides
  <2> QED BY <2>1, <2>2
<1>12. ASSUME NEW x \in N PROVE under[x] = {x} \cup under[z.link[x][-1]] \cup under[z.link[x][1]]
  <2>1. -1 \in Sides /\ 1 \in Sides /\ \A f \in Sides : f = -1 \/ f = 1
    BY DEF Sides
  <2>2. sub[x] = {x} \cup sub[t.link[x][-1]] \cup sub[t.link[x][1]]
    BY <1>2
  <2>3. p \in sub[p]
    <3>1. sub[p] = {p} \cup sub[t.link[p][-1]] \cup sub[t.link[p][1]]
      BY <1>1, <1>2
    <3> QED BY <3>1
  <2>4. CASE p \in sub[x]
    <3>1. under[x] = sub[x] \cup {k}
      BY <1>5, <2>4
    <3>2. PICK f \in Sides : (x = p /\ f = d) \/ p \in sub[t.link[x][f]]
      BY <1>11, <2>4
    <3>3. under[z.link[x][f]] = sub[t.link[x][f]] \cup {k}
      BY <1>10, <3>2
    <3>4. \A e \in Sides : under[z.link[x][e]] \in {sub[t.link[x][e]], sub[t.link[x][e]] \cup {k}}
      BY <1>10
    <3>5. CASE f = 1
      BY <2>1, <2>2, <3>1, <3>3, <3>4, <3>5
    <3>6. CASE f = -1
      BY <2>1, <2>2, <3>1, <3>3, <3>4, <3>6
    <3> QED BY <2>1, <3>5, <3>6
  <2>5. CASE p \notin sub[x]
    <3>1. under[x] = sub[x]
      BY <1>5, <2>5
    <3>2. x # p /\ p \notin sub[t.link[x][-1]] /\ p \notin sub[t.link[x][1]]
      BY <2>2, <2>3, <2>5
    <3>3. under[z.link[x][-1]] = sub[t.link[x][-1]] /\ under[z.link[x][1]] = sub[t.link[x][1]]
      BY <1>10, <2>1, <3>2
    <3> QED BY <2>2, <3>1, <3>3
  <2> QED BY <2>4, <2>5
<1>13. \A f \in Sides : z.link[k][f] = Nil
  BY <1>1, <1>4
<1>14. under[k] = {k} \cup under[z.link[k][-1]] \cup under[z.link[k][1]]
  BY <1>6, <1>7, <1>13 DEF Sides
<1>15. ASSUME NEW x \in M, NEW f \in Sides, NEW m \in under[z.link[x][f]] PROVE Past(f, x, m)
  <2>1. CASE x = k
    BY <1>7, <1>13, <1>15, <2>1
  <2>2. CASE x # k
    <3>1. x \in N
      BY <2>2
    <3>2. CASE m \in sub[t.link[x][f]]
      BY <1>2, <3>1, <3>2
    <3>3. CASE m \notin sub[t.link[x][f]]
      <4>1. m = k /\ ((x = p /\ f = d) \/ p \in sub[t.link[x][f]])
        <5>1. under[z.link[x][f]] = IF (x = p /\ f = d) \/ p \in sub[t.link[x][f]] THEN sub[t.link[x][f]] \cup {k}
                                    ELSE sub[t.link[x][f]]
          BY <1>10, <3>1
        <5> QED BY <3>3, <5>1
      <4>2. CASE p \in sub[t.link[x][f]]
        BY <1>9, <3>1, <4>1, <4>2
      <4>3. CASE x = p /\ f = d
        BY <1>1, <4>1, <4>3 DEF Past, Toward
      <4> QED BY <4>1, <4>2, <4>3
    <3> QED BY <3>2, <3>3
  <2> QED BY <2>1, <2>2
<1>16. Sorted(z, M, under)
  BY <1>7, <1>8, <1>12, <1>14, <1>15 DEF Sorted
<1> QED BY <1>16 DEF under

(* insert keeps the shape. *)
LEMMA LinkedShape ==
  ASSUME NEW sub, Shape(tree, Nodes, sub), Typed(tree), NEW k \in Nat \ {0}, k \notin Nodes
  PROVE  /\ Typed(Linked(k)) /\ DOMAIN Linked(k).link = Nodes \cup {k}
         /\ Grafted(tree, Linked(k), Nodes, Place(k), Toward(k, Place(k)), k)
         /\ \E under : Shape(Linked(k), Nodes \cup {k}, under)
<1> DEFINE p == Place(k)
           d == Toward(k, p)
           z == Linked(k)
<1>1. /\ tree.root = Nil <=> Nodes = {}
      /\ Nodes = {} => p = Nil
      /\ Nodes # {} => p \in Nodes /\ FoundFrom(sub, k, tree.root, p) /\ sub[tree.root] = Nodes
  BY PlaceIs
<1>2. Grafted(tree, z, Nodes, p, d, k)
  BY <1>1, LinkedGrafts
<1>3. CASE Nodes # {}
  <2>1. k \notin sub[tree.root] /\ Link(p, d) = Nil /\ \A a \in Nodes : OnWay(sub, k, a, p)
    BY <1>1, <1>3 DEF FoundFrom
  <2>2. Vacant(tree, Nodes, sub, p, d, k)
    BY <1>1, <1>3, <2>1 DEF Vacant, OnWay, Link
  <2> HIDE DEF p, d, z
  <2>3. Shape(z, Nodes \cup {k}, UnderWith(Nodes, sub, p, k))
    BY <1>2, <2>2, GraftedWoven, GraftedSorted DEF Shape
  <2> QED BY <1>2, <2>3 DEF Grafted, p, d, z
<1>4. CASE Nodes = {}
  <2>1. p = Nil /\ Nodes \cup {k} = {k} /\ k # Nil
    BY <1>1, <1>4 DEF Nil
  <2> HIDE DEF p, d, z
  <2>2. /\ Typed(z) /\ DOMAIN z.link = {k} /\ z.root = k /\ z.link[k][0] = Nil
        /\ \A f \in Sides : z.link[k][f] = Nil
    BY <1>2, <2>1 DEF Grafted
  <2>3. Woven(z, {k})
    <3>1. IsFiniteSet({k})
      BY FS_Singleton
    <3> QED BY <2>2, <3>1 DEF Woven, Typed
  <2> DEFINE under == [x \in {k, Nil} |-> IF x = k THEN {k} ELSE {}]
  <2>4. Sorted(z, {k}, under)
    <3>1. under \in [{k} \cup {Nil} -> SUBSET {k}] /\ under[Nil] = {} /\ under[k] = {k}
      BY <2>1
    <3>2. z.link[k][-1] = Nil /\ z.link[k][1] = Nil
      BY <2>2 DEF Sides
    <3> HIDE DEF under
    <3> QED BY <2>2, <3>1, <3>2 DEF Sorted
  <2> HIDE DEF under
  <2>5. Shape(z, Nodes \cup {k}, under)
    BY <2>1, <2>3, <2>4 DEF Shape
  <2> QED BY <1>2, <2>5 DEF Grafted, p, d, z
<1> QED BY <1>3, <1>4

-----------------------------------------------------------------------------
(* Unlinking a node keeps the shape. *)

(* The one link that leads to n. *)
LEMMA DirIs ==
  ASSUME NEW t, NEW N, NEW sub, Shape(t, N, sub), NEW n \in N
  PROVE  /\ t.link[n][0] \in N \cup {Nil} /\ t.link[n][0] # n
         /\ t.link[n][0] = Nil <=> n = t.root
         /\ t.link[n][0] = Nil => DirOf(t, n) = 0
         /\ t.link[n][0] # Nil => DirOf(t, n) \in Sides /\ t.link[t.link[n][0]][DirOf(t, n)] = n
         /\ \A x \in N : \A f \in Sides : t.link[x][f] = n => x = t.link[n][0] /\ f = DirOf(t, n)
         /\ \A x \in N : \A f \in Sides : t.link[x][f] = n => x # n /\ n # t.root
<1> DEFINE q == t.link[n][0]
           e == DirOf(t, n)
<1>1. q \in N \cup {Nil} /\ n # Nil /\ (q = Nil <=> n = t.root) /\ Nil \notin N
  BY DEF Shape, Woven, Nil
<1>2. ASSUME NEW x \in N, NEW f \in Sides, t.link[x][f] = n PROVE x = q /\ x # n /\ n # t.root
  <2>1. x = q
    BY <1>1, <1>2 DEF Shape, Woven
  <2>2. n # t.root
    BY <1>1, <2>1
  <2>3. q # n
    BY <2>2, ParentIs
  <2> QED BY <2>1, <2>2, <2>3
<1>3. q = Nil => e = 0
  BY DEF DirOf
<1>4. q # Nil => /\ q # n /\ e \in Sides /\ t.link[q][e] = n
                 /\ \A f \in Sides : t.link[q][f] = n => f = e
  <2> SUFFICES ASSUME q # Nil
               PROVE  /\ q # n /\ e \in Sides /\ t.link[q][e] = n
                      /\ \A f \in Sides : t.link[q][f] = n => f = e
    OBVIOUS
  <2>1. q # n /\ \E g \in Sides : t.link[q][g] = n /\ \A f \in Sides : t.link[q][f] = n => f = g
    BY <1>1, ParentIs
  <2>2. PICK g \in Sides : t.link[q][g] = n /\ \A f \in Sides : t.link[q][f] = n => f = g
    BY <2>1
  <2>3. e = IF t.link[q][-1] = n THEN -1 ELSE 1
    BY DEF DirOf
  <2>4. e = g
    BY <2>2, <2>3 DEF Sides
  <2> QED BY <2>1, <2>2, <2>4
<1>5. ASSUME NEW x \in N, NEW f \in Sides, t.link[x][f] = n PROVE x = q /\ f = e
  <2>1. x = q /\ q # Nil
    BY <1>1, <1>2, <1>5
  <2> QED BY <1>4, <1>5, <2>1
<1>6. q # n
  BY <1>1, <1>4
<1> QED BY <1>1, <1>2, <1>3, <1>4, <1>5, <1>6

(* g has no child but c, on side s; q is its parent, on side -e.           *)
Severable(t, N, sub, g, s, c, q, e) ==
    /\ Shape(t, N, sub) /\ Typed(t) /\ g \in N /\ s \in Sides
    /\ c = t.link[g][s] /\ t.link[g][-s] = Nil /\ q = t.link[g][0] /\ e = DirOf(t, g)

LEMMA SeverableIs ==
  ASSUME NEW t, NEW N, NEW sub, NEW g, NEW s, NEW c, NEW q, NEW e, Severable(t, N, sub, g, s, c, q, e)
  PROVE  /\ g \in N /\ c \in N \cup {Nil} /\ q \in N \cup {Nil} /\ c # g /\ q # g /\ (c # Nil => c # q /\ t.link[c][0] = g)
         /\ g # Nil /\ Nil \notin N /\ (q = Nil <=> g = t.root) /\ (c # Nil => c # t.root)
         /\ q # Nil => e \in Sides /\ t.link[q][e] = g
         /\ \A x \in N : \A f \in Sides : t.link[x][f] = g => x = q /\ f = e
         /\ \A x \in N : \A f \in Sides : t.link[x][f] = c /\ c # Nil => x = g
         /\ \A f \in Sides : t.link[g][f] \in {c, Nil}
         /\ sub[g] = {g} \cup sub[c] /\ g \notin sub[c]
         /\ Hung(t, Hang(t, q, e, c), q, e, c)
<1>1. /\ Shape(t, N, sub) /\ Typed(t) /\ g \in N /\ s \in Sides
      /\ c = t.link[g][s] /\ t.link[g][-s] = Nil /\ q = t.link[g][0] /\ e = DirOf(t, g)
  BY DEF Severable
<1>2. /\ q \in N \cup {Nil} /\ q # g /\ (q = Nil <=> g = t.root)
      /\ q # Nil => e \in Sides /\ t.link[q][e] = g
      /\ \A x \in N : \A f \in Sides : t.link[x][f] = g => x = q /\ f = e
  BY <1>1, DirIs
<1>3. Family(t, N, sub, g, s, c, Nil)
  BY <1>1 DEF Family
<1>4. /\ c \in N \cup {Nil} /\ g \notin sub[c] /\ c # g /\ (c # Nil => t.link[c][0] = g /\ c # t.root /\ c \in sub[c])
      /\ sub[c] \subseteq sub[g]
  BY <1>1, ChildIs
<1>5. sub[g] = {g} \cup sub[c]
  <2>1. sub[Nil] = {} /\ g \in sub[g] /\ \A m \in sub[g] : m = g \/ m \in sub[c] \/ m \in sub[Nil]
    BY <1>3, FamilyIs
  <2> QED BY <1>4, <2>1
<1>6. Nil \notin N /\ g # Nil /\ N \subseteq DOMAIN t.link
  BY <1>1 DEF Shape, Woven, Nil
<1>7. \A x \in N : \A f \in Sides : t.link[x][f] = c /\ c # Nil => x = g
  <2> SUFFICES ASSUME NEW x \in N, NEW f \in Sides, t.link[x][f] = c, c # Nil PROVE x = g
    OBVIOUS
  <2>1. c \in N /\ t.link[c][0] = g
    BY <1>4
  <2> QED BY <1>1, <2>1, DirIs
<1>8. c # Nil => c # q
  <2> SUFFICES ASSUME c # Nil, c = q PROVE FALSE
    OBVIOUS
  <2>1. e \in Sides /\ t.link[q][e] = g /\ q \in N
    BY <1>2
  <2>2. g \in sub[c]
    <3>1. g \in sub[g] /\ sub[t.link[q][e]] \subseteq sub[q]
      BY <1>1, <1>5, <2>1, ChildIs
    <3> QED BY <2>1, <3>1
  <2> QED BY <1>4, <2>2
<1>9. \A f \in Sides : t.link[g][f] \in {c, Nil}
  BY <1>1 DEF Sides
<1>10. Hung(t, Hang(t, q, e, c), q, e, c)
  <2>1. Hangable(t, q, e, c)
    BY <1>1, <1>2, <1>4, <1>6 DEF Hangable
  <2> QED BY <2>1, HangIs
<1> QED BY <1>1, <1>2, <1>4, <1>5, <1>6, <1>7, <1>8, <1>9, <1>10

Without(N, sub, g) == [x \in (N \ {g}) \cup {Nil} |-> sub[x] \ {g}]

LEMMA SeveredShape ==
  ASSUME NEW t, NEW z, NEW N, NEW sub, NEW g, NEW s, NEW c, NEW q, NEW e,
         Severable(t, N, sub, g, s, c, q, e), Hung(t, z, q, e, c)
  PROVE  Shape(z, N \ {g}, Without(N, sub, g))
<1> DEFINE under == Without(N, sub, g)
           M == N \ {g}
<1>1. /\ g \in N /\ c \in N \cup {Nil} /\ q \in N \cup {Nil} /\ c # g /\ q # g /\ (c # Nil => c # q)
      /\ g # Nil /\ Nil \notin N /\ (q = Nil <=> g = t.root) /\ (c # Nil => c # t.root)
      /\ q # Nil => e \in Sides /\ t.link[q][e] = g
      /\ \A x \in N : \A f \in Sides : t.link[x][f] = g => x = q /\ f = e
      /\ \A x \in N : \A f \in Sides : t.link[x][f] = c /\ c # Nil => x = g
      /\ \A f \in Sides : t.link[g][f] \in {c, Nil}
      /\ sub[g] = {g} \cup sub[c] /\ g \notin sub[c]
  BY SeverableIs
<1>2. /\ N \subseteq DOMAIN t.link /\ N \subseteq Nat \ {0} /\ IsFiniteSet(N) /\ t.root \in N
      /\ \A x \in N : \A f \in Sides :
           t.link[x][f] # Nil => t.link[x][f] \in N /\ t.link[t.link[x][f]][0] = x
      /\ \A x \in N : IF x = t.root THEN t.link[x][0] = Nil
                      ELSE t.link[x][0] \in N /\ \E f \in Sides : t.link[t.link[x][0]][f] = x
  <2>1. Woven(t, N) /\ N # {}
    BY <1>1 DEF Severable, Shape
  <2> QED BY <2>1 DEF Woven
<1>3. /\ sub \in [N \cup {Nil} -> SUBSET N] /\ sub[Nil] = {} /\ sub[t.root] = N
      /\ \A x \in N : sub[x] = {x} \cup sub[t.link[x][-1]] \cup sub[t.link[x][1]]
      /\ \A x \in N : \A f \in Sides : \A m \in sub[t.link[x][f]] : Past(f, x, m)
  <2>1. Sorted(t, N, sub) /\ N # {}
    BY <1>1 DEF Severable, Shape
  <2> QED BY <2>1 DEF Sorted
<1>4. /\ z \in [root : Nat, link : [DOMAIN z.link -> [{-1, 0, 1} -> Nat]]]
      /\ M \subseteq DOMAIN z.link /\ z.root = IF q = Nil THEN c ELSE t.root
  BY <1>2 DEF Hung, Typed
<1>5. -1 \in Sides /\ 1 \in Sides /\ 0 \notin Sides /\ Sides \subseteq {-1, 0, 1} /\ 0 \in {-1, 0, 1}
  BY DEF Sides
<1>6. ASSUME NEW x \in M PROVE z.link[x][0] = IF x = c THEN q ELSE t.link[x][0]
  BY <1>1, <1>2, <1>5 DEF Hung
<1>7. ASSUME NEW x \in M, NEW f \in Sides
      PROVE  /\ z.link[x][f] = IF x = q /\ f = e THEN c ELSE t.link[x][f]
             /\ x = q /\ f = e <=> t.link[x][f] = g
  <2>1. z.link[x][f] = IF q # Nil /\ x = q /\ f = e THEN c ELSE t.link[x][f]
    BY <1>1, <1>2, <1>5 DEF Hung
  <2> QED BY <1>1, <2>1
<1>8. ASSUME NEW x \in M, NEW f \in Sides, z.link[x][f] # Nil
      PROVE  z.link[x][f] \in M /\ z.link[z.link[x][f]][0] = x
  <2>1. CASE x = q /\ f = e
    <3>1. z.link[x][f] = c
      BY <1>7, <2>1
    <3> QED BY <1>1, <1>6, <1>8, <2>1, <3>1
  <2>2. CASE ~(x = q /\ f = e)
    <3> DEFINE y == t.link[x][f]
    <3>1. z.link[x][f] = y /\ y # g
      BY <1>7, <2>2
    <3>2. y \in N /\ t.link[y][0] = x
      BY <1>2, <1>8, <3>1
    <3>3. y # c
      BY <1>1, <1>8, <3>1
    <3> HIDE DEF y
    <3> QED BY <1>6, <3>1, <3>2, <3>3
  <2> QED BY <2>1, <2>2
<1>9. ASSUME NEW x \in M
      PROVE  IF x = z.root THEN z.link[x][0] = Nil
             ELSE z.link[x][0] \in M /\ \E f \in Sides : z.link[z.link[x][0]][f] = x
  <2>1. CASE x = c
    <3>1. z.link[x][0] = q
      BY <1>6, <2>1
    <3>2. CASE q = Nil
      BY <1>4, <2>1, <3>1, <3>2
    <3>3. CASE q # Nil
      BY <1>1, <1>4, <1>7, <2>1, <3>1, <3>3
    <3> QED BY <3>2, <3>3
  <2>2. CASE x # c
    <3> DEFINE y == t.link[x][0]
    <3>1. z.link[x][0] = y
      BY <1>6, <2>2
    <3>2. CASE x = t.root
      BY <1>1, <1>2, <1>4, <2>2, <3>1, <3>2
    <3>3. CASE x # t.root
      <4>1. x # z.root
        BY <1>4, <2>2, <3>3
      <4>2. PICK f \in Sides : t.link[y][f] = x
        BY <1>2, <3>3
      <4>3. y \in N /\ x # Nil
        BY <1>1, <1>2, <3>3
      <4> HIDE DEF y
      <4>4. y # g
        BY <1>1, <2>2, <4>2, <4>3
      <4>5. z.link[y][f] = x
        BY <1>7, <4>2, <4>3, <4>4
      <4> QED BY <3>1, <4>1, <4>3, <4>4, <4>5
    <3> QED BY <3>2, <3>3
  <2> QED BY <2>1, <2>2
<1>10. IF M = {} THEN z.root = Nil ELSE z.root \in M
  <2>1. CASE q = Nil
    <3>1. N = {g} \cup sub[c] /\ z.root = c
      BY <1>1, <1>3, <1>4, <2>1
    <3> QED BY <1>1, <1>3, <3>1
  <2>2. CASE q # Nil
    BY <1>1, <1>2, <1>4, <2>2
  <2> QED BY <2>1, <2>2
<1>11. IsFiniteSet(M) /\ M \subseteq Nat \ {0}
  BY <1>2, FS_Subset
<1>12. Woven(z, M)
  BY <1>4, <1>8, <1>9, <1>10, <1>11 DEF Woven
<1>13. ASSUME NEW x \in M \cup {Nil} PROVE under[x] = sub[x] \ {g}
  BY DEF Without
<1>14. under \in [M \cup {Nil} -> SUBSET M] /\ under[Nil] = {}
  <2>1. under = [x \in M \cup {Nil} |-> sub[x] \ {g}]
    BY DEF Without
  <2>2. \A x \in M \cup {Nil} : sub[x] \ {g} \in SUBSET M
    BY <1>3
  <2> HIDE DEF under, M
  <2> QED BY <1>3, <1>13, <2>1, <2>2
<1> HIDE DEF under
<1>15. M # {} => under[z.root] = M
  <2>1. CASE q = Nil
    <3>1. N = {g} \cup sub[c] /\ z.root = c
      BY <1>1, <1>3, <1>4, <2>1
    <3> QED BY <1>1, <1>13, <3>1
  <2>2. CASE q # Nil
    BY <1>1, <1>2, <1>3, <1>4, <1>13, <2>2
  <2> QED BY <2>1, <2>2
<1>16. ASSUME NEW x \in M, NEW f \in Sides PROVE under[z.link[x][f]] = sub[t.link[x][f]] \ {g}
  <2>1. CASE t.link[x][f] = g
    <3>1. z.link[x][f] = c /\ c \in M \cup {Nil}
      BY <1>1, <1>7, <2>1
    <3> QED BY <1>1, <1>13, <2>1, <3>1
  <2>2. CASE t.link[x][f] # g
    <3>1. z.link[x][f] = t.link[x][f] /\ t.link[x][f] \in M \cup {Nil}
      BY <1>2, <1>7, <2>2
    <3> QED BY <1>13, <3>1
  <2> QED BY <2>1, <2>2
<1>17. ASSUME NEW x \in M PROVE under[x] = {x} \cup under[z.link[x][-1]] \cup under[z.link[x][1]]
  <2>1. sub[x] = {x} \cup sub[t.link[x][-1]] \cup sub[t.link[x][1]]
    BY <1>3
  <2>2. under[z.link[x][-1]] = sub[t.link[x][-1]] \ {g} /\ under[z.link[x][1]] = sub[t.link[x][1]] \ {g}
    BY <1>5, <1>16
  <2>3. under[x] = sub[x] \ {g}
    BY <1>13
  <2> QED BY <2>1, <2>2, <2>3
<1>18. ASSUME NEW x \in M, NEW f \in Sides, NEW m \in under[z.link[x][f]] PROVE Past(f, x, m)
  BY <1>3, <1>16
<1>19. Sorted(z, M, under)
  BY <1>14, <1>15, <1>17, <1>18 DEF Sorted
<1> QED BY <1>12, <1>19 DEF under, Shape

-----------------------------------------------------------------------------
(* A node takes another name, in the same place of the order. *)
Renamed(k, g, x) == IF x = k THEN g ELSE x

(* z is t, whose nodes are M, with g for k. *)
Renames(t, z, M, N, k, g) ==
    /\ k \in Nat \ {0} /\ g \in Nat \ {0} /\ g \notin M
    /\ N = {Renamed(k, g, x) : x \in M}
    /\ Typed(z) /\ DOMAIN z.link = N
    /\ z.root = Renamed(k, g, t.root)
    /\ \A x \in M : \A e \in {-1, 0, 1} :
         z.link[Renamed(k, g, x)][e] = Renamed(k, g, t.link[x][e])

RenamedUnder(M, sub, N, k, g) ==
    [y \in N \cup {Nil} |-> {Renamed(k, g, m) : m \in sub[Renamed(g, k, y)]}]

LEMMA RenamedIs ==
  ASSUME NEW t, NEW z, NEW M, NEW N, NEW k, NEW g, Renames(t, z, M, N, k, g), Nil \notin M
  PROVE  /\ Renamed(k, g, Nil) = Nil /\ Renamed(g, k, Nil) = Nil
         /\ \A x \in M : Renamed(k, g, x) \in N /\ Renamed(g, k, Renamed(k, g, x)) = x /\ Renamed(k, g, x) # Nil
         /\ \A y \in N : Renamed(g, k, y) \in M /\ Renamed(k, g, Renamed(g, k, y)) = y /\ y # Nil
BY DEF Renamed, Renames, Nil

LEMMA RenamedShape ==
  ASSUME NEW t, NEW z, NEW M, NEW N, NEW sub, NEW k, NEW g, Shape(t, M, sub), Renames(t, z, M, N, k, g),
         \A x \in M : \A y \in M : \A d \in Sides :
           Past(d, x, y) => Past(d, Renamed(k, g, x), Renamed(k, g, y))
  PROVE  Shape(z, N, RenamedUnder(M, sub, N, k, g))
<1> DEFINE new(x) == Renamed(k, g, x)
           old(y) == Renamed(g, k, y)
           under == RenamedUnder(M, sub, N, k, g)
<1>1. /\ M \subseteq DOMAIN t.link /\ M \subseteq Nat \ {0} /\ IsFiniteSet(M)
      /\ IF M = {} THEN t.root = Nil ELSE t.root \in M
      /\ \A x \in M : \A f \in Sides :
           t.link[x][f] # Nil => t.link[x][f] \in M /\ t.link[t.link[x][f]][0] = x
      /\ \A x \in M : IF x = t.root THEN t.link[x][0] = Nil
                      ELSE t.link[x][0] \in M /\ \E f \in Sides : t.link[t.link[x][0]][f] = x
  BY DEF Shape, Woven
<1>2. /\ sub \in [M \cup {Nil} -> SUBSET M] /\ sub[Nil] = {} /\ (M # {} => sub[t.root] = M)
      /\ \A x \in M : sub[x] = {x} \cup sub[t.link[x][-1]] \cup sub[t.link[x][1]]
      /\ \A x \in M : \A f \in Sides : \A m \in sub[t.link[x][f]] : Past(f, x, m)
  BY DEF Shape, Sorted
<1>3. /\ new(Nil) = Nil /\ old(Nil) = Nil /\ Nil \notin M
      /\ \A x \in M : new(x) \in N /\ old(new(x)) = x /\ new(x) # Nil
      /\ \A y \in N : old(y) \in M /\ new(old(y)) = y /\ y # Nil
  <2>1. Nil \notin M
    BY <1>1 DEF Nil
  <2> QED BY <2>1, RenamedIs
<1>4. /\ N = {new(x) : x \in M}
      /\ z \in [root : Nat, link : [DOMAIN z.link -> [{-1, 0, 1} -> Nat]]]
      /\ DOMAIN z.link = N /\ N \subseteq Nat \ {0}
      /\ z.root = new(t.root)
      /\ \A x \in M : \A e \in {-1, 0, 1} : z.link[new(x)][e] = new(t.link[x][e])
  BY DEF Renames, Typed
<1>5. -1 \in Sides /\ 1 \in Sides /\ Sides \subseteq {-1, 0, 1} /\ 0 \in {-1, 0, 1}
  BY DEF Sides
<1>6. \A x \in M \cup {Nil} : under[new(x)] = {new(m) : m \in sub[x]}
  <2>1. \A x \in M \cup {Nil} : new(x) \in N \cup {Nil} /\ old(new(x)) = x
    BY <1>3
  <2> QED BY <2>1 DEF RenamedUnder
<1>7. under = [y \in N \cup {Nil} |-> under[y]]
  BY DEF RenamedUnder
<1>o. \A x \in M : \A y \in M : \A d \in Sides : Past(d, x, y) => Past(d, new(x), new(y))
  OBVIOUS
<1> HIDE DEF new, old, under
<1>8. IsFiniteSet(N)
  <2>1. N \subseteq M \cup {g}
    BY DEF Renames, Renamed
  <2>2. IsFiniteSet(M \cup {g})
    BY <1>1, FS_AddElement
  <2> QED BY <2>1, <2>2, FS_Subset
<1>9. IF N = {} THEN z.root = Nil ELSE z.root \in N
  BY <1>1, <1>3, <1>4
<1>10. ASSUME NEW y \in N, NEW f \in Sides, z.link[y][f] # Nil
       PROVE  z.link[y][f] \in N /\ z.link[z.link[y][f]][0] = y
  <2> DEFINE x == old(y)
             c == t.link[x][f]
  <2>1. x \in M /\ new(x) = y
    BY <1>3
  <2>2. z.link[y][f] = new(c)
    BY <1>4, <1>5, <2>1
  <2>3. c # Nil
    BY <1>3, <1>10, <2>2
  <2>4. c \in M /\ t.link[c][0] = x
    BY <1>1, <2>1, <2>3
  <2> HIDE DEF c, x
  <2>5. z.link[new(c)][0] = new(x)
    BY <1>4, <1>5, <2>4
  <2> QED BY <1>3, <2>1, <2>2, <2>4, <2>5
<1>11. ASSUME NEW y \in N
       PROVE  IF y = z.root THEN z.link[y][0] = Nil
              ELSE z.link[y][0] \in N /\ \E f \in Sides : z.link[z.link[y][0]][f] = y
  <2> DEFINE x == old(y)
             p == t.link[x][0]
  <2>1. x \in M /\ new(x) = y
    BY <1>3
  <2>2. z.link[y][0] = new(p)
    BY <1>4, <1>5, <2>1
  <2>3. CASE x = t.root
    BY <1>1, <1>3, <1>4, <2>1, <2>2, <2>3
  <2>4. CASE x # t.root
    <3>1. p \in M
      BY <1>1, <2>1, <2>4
    <3>2. PICK f \in Sides : t.link[p][f] = x
      BY <1>1, <2>1, <2>4
    <3>3. t.root \in M
      BY <1>1, <2>1
    <3> HIDE DEF p, x
    <3>4. y # z.root
      BY <1>3, <1>4, <2>1, <2>4, <3>3
    <3>5. z.link[new(p)][f] = y
      BY <1>4, <1>5, <2>1, <3>1, <3>2
    <3> QED BY <1>3, <2>2, <3>1, <3>4, <3>5
  <2> QED BY <2>3, <2>4
<1>12. Woven(z, N)
  BY <1>4, <1>8, <1>9, <1>10, <1>11 DEF Woven
<1>13. under \in [N \cup {Nil} -> SUBSET N] /\ under[Nil] = {}
  <2>1. \A y \in N \cup {Nil} : \E x \in M \cup {Nil} : y = new(x)
    BY <1>3
  <2>2. \A x \in M \cup {Nil} : {new(m) : m \in sub[x]} \in SUBSET N
    BY <1>2, <1>3
  <2>3. {new(m) : m \in sub[Nil]} = {}
    BY <1>2
  <2>4. under[Nil] = {}
    BY <1>3, <1>6, <2>3
  <2>5. \A y \in N \cup {Nil} : under[y] \in SUBSET N
    BY <1>6, <2>1, <2>2
  <2> QED BY <1>7, <2>4, <2>5
<1>14. N # {} => under[z.root] = N
  BY <1>1, <1>2, <1>4, <1>6
<1>15. ASSUME NEW y \in N PROVE under[y] = {y} \cup under[z.link[y][-1]] \cup under[z.link[y][1]]
  <2> DEFINE x == old(y)
             a == t.link[x][-1]
             b == t.link[x][1]
  <2>1. x \in M /\ new(x) = y
    BY <1>3
  <2>2. z.link[y][-1] = new(a) /\ z.link[y][1] = new(b)
    BY <1>4, <1>5, <2>1
  <2>3. sub[x] = {x} \cup sub[a] \cup sub[b]
    BY <1>2, <2>1
  <2>4. a \in M \cup {Nil} /\ b \in M \cup {Nil}
    BY <1>1, <1>5, <2>1
  <2> HIDE DEF a, b, x
  <2>5. under[new(a)] = {new(m) : m \in sub[a]} /\ under[new(b)] = {new(m) : m \in sub[b]}
        /\ under[y] = {new(m) : m \in sub[x]}
    BY <1>6, <2>1, <2>4
  <2> QED BY <2>1, <2>2, <2>3, <2>5
<1>16. ASSUME NEW y \in N, NEW f \in Sides, NEW m \in under[z.link[y][f]] PROVE Past(f, y, m)
  <2> DEFINE x == old(y)
             c == t.link[x][f]
  <2>1. x \in M /\ new(x) = y
    BY <1>3
  <2>2. z.link[y][f] = new(c)
    BY <1>4, <1>5, <2>1
  <2>3. c \in M \cup {Nil}
    BY <1>1, <2>1
  <2>4. \A i \in sub[c] : i \in M /\ Past(f, x, i)
    BY <1>2, <2>1, <2>3
  <2> HIDE DEF c, x
  <2>5. PICK i \in sub[c] : m = new(i)
    BY <1>6, <1>16, <2>2, <2>3
  <2> QED BY <1>o, <2>1, <2>4, <2>5
<1>17. Sorted(z, N, under)
  BY <1>13, <1>14, <1>15, <1>16 DEF Sorted
<1> QED BY <1>12, <1>17 DEF under, Shape

GoneSide(k) == IF Link(Gone(k), -1) # Nil THEN -1 ELSE 1

(* The node that goes has at most one child, and has its key or the next.   *)
LEMMA GoneIs ==
  ASSUME NEW sub, Shape(tree, Nodes, sub), Typed(tree), NEW k \in Nodes
  PROVE  /\ Severable(tree, Nodes, sub, Gone(k), GoneSide(k), OnlyChild(Gone(k)), Parent(Gone(k)),
                      DirOf(tree, Gone(k)))
         /\ k # Gone(k) => k < Gone(k) /\ \A x \in Nodes : x > k => x >= Gone(k)
         /\ OnlyChild(Gone(k)) # k
<1> DEFINE g == Gone(k)
           r == Link(k, 1)
           s == GoneSide(k)
<1>1. /\ k \in sub[k] /\ r \in Nodes \cup {Nil} /\ sub[r] \subseteq sub[k] /\ k \notin sub[r]
      /\ \A x \in sub[k] : x = k \/ x \in sub[r] \/ x \in sub[Link(k, -1)]
      /\ 1 \in Sides /\ -1 \in Sides
  <2>1. -1 \in Sides /\ 1 \in Sides /\ -1 = -(1)
    BY DEF Sides
  <2>2. Family(tree, Nodes, sub, k, 1, r, Link(k, -1))
    BY <2>1 DEF Family, Link
  <2> QED BY <2>1, <2>2, FamilyIs
<1>2. CASE Link(k, -1) # Nil /\ r # Nil
  <2>1. g = Extreme(r, -1)
    BY <1>2 DEF Gone
  <2> HIDE DEF g
  <2>2. /\ g \in sub[r] /\ g \in Nodes /\ Link(g, -1) = Nil
        /\ \A x \in sub[r] : x = g \/ Past(-1, x, g)
    BY <1>1, <1>2, <2>1, ExtremeIs
  <2>3. \A x \in sub[r] : k < x
    BY <1>1 DEF Shape, Sorted, Past, Link
  <2>4. \A x \in sub[Link(k, -1)] : x < k
    BY <1>1 DEF Shape, Sorted, Past, Link
  <2>5. ASSUME NEW x \in Nodes, x > k PROVE x >= g
    <3>0. Nodes \subseteq Nat
      BY DEF Typed, Nodes
    <3>1. CASE x \in sub[k]
      <4>1. x \in sub[r]
        BY <1>1, <2>4, <2>5, <3>0, <3>1
      <4> QED BY <2>2, <3>0, <4>1 DEF Past
    <3>2. CASE x \notin sub[k]
      <4>1. PICK d \in Sides : \A y \in sub[k] : Past(d, y, x)
        BY <3>2, SubtreesConvex
      <4>2. Past(d, k, x) /\ Past(d, g, x)
        BY <1>1, <2>2, <4>1
      <4> QED BY <2>2, <2>5, <3>0, <4>2 DEF Past
    <3> QED BY <3>1, <3>2
  <2>6. k < g
    BY <2>2, <2>3
  <2>7. s = 1 /\ OnlyChild(g) = Link(g, 1)
    BY <2>2 DEF OnlyChild, GoneSide, g
  <2>8. OnlyChild(g) # k
    <3>1. Link(g, 1) # Nil => Link(g, 1) \in sub[g]
      <4>1. Link(g, 1) # Nil => Link(g, 1) \in sub[Link(g, 1)] /\ sub[Link(g, 1)] \subseteq sub[g]
        BY <1>1, <2>2, ChildIs DEF Link
      <4> QED BY <4>1
    <3>2. r \in Nodes
      BY <1>1, <1>2
    <3>3. sub[g] \subseteq sub[r]
      BY <2>2, <3>2, SubtreesNest
    <3>4. k # Nil
      BY DEF Typed, Nodes, Nil
    <3> QED BY <1>1, <2>7, <3>1, <3>3, <3>4
  <2>9. Severable(tree, Nodes, sub, g, s, OnlyChild(g), Parent(g), DirOf(tree, g))
    BY <1>1, <2>2, <2>7 DEF Severable, Link, Parent
  <2> QED BY <2>5, <2>6, <2>8, <2>9 DEF g
<1>3. CASE ~(Link(k, -1) # Nil /\ r # Nil)
  <2>1. g = k
    BY <1>3 DEF Gone
  <2>2. /\ s = IF Link(k, -1) # Nil THEN -1 ELSE 1
        /\ OnlyChild(g) = IF Link(k, -1) # Nil THEN Link(k, -1) ELSE Link(k, 1)
    BY <2>1 DEF GoneSide, OnlyChild
  <2> HIDE DEF s
  <2>3. s \in Sides /\ OnlyChild(g) = tree.link[k][s] /\ tree.link[k][-s] = Nil
    BY <1>1, <1>3, <2>2 DEF Link
  <2>4. OnlyChild(g) # k
    BY <2>3, ChildIs
  <2>5. Severable(tree, Nodes, sub, g, s, OnlyChild(g), Parent(g), DirOf(tree, g))
    BY <2>1, <2>3 DEF Severable, Parent, Link
  <2> QED BY <2>1, <2>4, <2>5 DEF s
<1> QED BY <1>2, <1>3

Severed(k) == Hang(tree, Parent(Gone(k)), DirOf(tree, Gone(k)), OnlyChild(Gone(k)))

LEMMA UnlinkedRenames ==
  ASSUME NEW sub, Shape(tree, Nodes, sub), Typed(tree), NEW k \in Nodes
  PROVE  Renames(Severed(k), Unlinked(k), Nodes \ {Gone(k)}, Nodes \ {k}, k, Gone(k))
<1> DEFINE g == Gone(k)
           c == OnlyChild(g)
           q == Parent(g)
           e == DirOf(tree, g)
           s == GoneSide(k)
           x == Severed(k)
           z == Unlinked(k)
           M == Nodes \ {g}
           N == Nodes \ {k}
<1>1. Severable(tree, Nodes, sub, g, s, c, q, e)
  BY GoneIs
<1>2. x = Hang(tree, q, e, c)
  BY DEF Severed
<1>3. z = [root |-> NewName(k, x.root), link |-> [y \in N |-> [d \in {-1, 0, 1} |-> NewName(k, x.link[OldNode(k, y)][d])]]]
  BY <1>2 DEF Unlinked
<1>4. (\A y : NewName(k, y) = Renamed(k, g, y)) /\ \A y : OldNode(k, y) = Renamed(g, k, y)
  BY DEF NewName, OldNode, Renamed
<1> HIDE DEF g, c, q, e, s, x, z
<1>5. Hung(tree, x, q, e, c) /\ g \in Nodes
  BY <1>1, <1>2, SeverableIs
<1>6. Nodes = DOMAIN x.link /\ x.link \in [Nodes -> [{-1, 0, 1} -> Nat]] /\ x.root \in Nat /\ Nodes \subseteq Nat \ {0}
  BY <1>5 DEF Hung, Typed, Nodes
<1>7. k \in Nat \ {0} /\ g \in Nat \ {0} /\ g \notin M
  BY <1>5, <1>6
<1>8. N = {Renamed(k, g, y) : y \in M}
  BY <1>5 DEF Renamed
<1>9. \A y \in N : Renamed(g, k, y) \in Nodes
  BY DEF Renamed
<1>10. \A y \in Nat : Renamed(k, g, y) \in Nat
  BY <1>7 DEF Renamed
<1>11. /\ z.root = Renamed(k, g, x.root)
       /\ DOMAIN z.link = N
       /\ \A y \in N : \A d \in {-1, 0, 1} : z.link[y][d] = Renamed(k, g, x.link[Renamed(g, k, y)][d])
  BY <1>3, <1>4
<1>12. Typed(z)
  <2> DEFINE row(y) == [d \in {-1, 0, 1} |-> NewName(k, x.link[OldNode(k, y)][d])]
             L == [y \in N |-> row(y)]
  <2>1. ASSUME NEW y \in N PROVE row(y) \in [{-1, 0, 1} -> Nat]
    <3>1. OldNode(k, y) \in Nodes
      BY <1>4, <1>9
    <3>2. \A d \in {-1, 0, 1} : x.link[OldNode(k, y)][d] \in Nat
      BY <1>6, <3>1
    <3> QED BY <1>4, <1>10, <3>2
  <2> HIDE DEF row
  <2>2. L \in [N -> [{-1, 0, 1} -> Nat]]
    BY <2>1
  <2>3. z = [root |-> Renamed(k, g, x.root), link |-> L]
    BY <1>3, <1>4 DEF row
  <2> HIDE DEF L
  <2>4. Renamed(k, g, x.root) \in Nat
    BY <1>6, <1>10
  <2>5. z \in [root : Nat, link : [N -> [{-1, 0, 1} -> Nat]]] /\ z.link = L
    BY <2>2, <2>3, <2>4
  <2>6. N \subseteq Nat \ {0} /\ DOMAIN z.link = N
    BY <1>6, <2>2, <2>5
  <2> QED BY <2>5, <2>6 DEF Typed
<1>13. \A y \in M : Renamed(k, g, y) \in N /\ Renamed(g, k, Renamed(k, g, y)) = y
  BY <1>5 DEF Renamed
<1>14. \A y \in M : \A d \in {-1, 0, 1} : z.link[Renamed(k, g, y)][d] = Renamed(k, g, x.link[y][d])
  BY <1>11, <1>13
<1>15. Renames(x, z, M, N, k, g)
  BY <1>7, <1>8, <1>11, <1>12, <1>14 DEF Renames
<1> QED BY <1>15 DEF x, z, g

(* erase keeps the shape. *)
LEMMA UnlinkedShape ==
  ASSUME NEW sub, Shape(tree, Nodes, sub), Typed(tree), NEW k \in Nodes
  PROVE  /\ Typed(Unlinked(k)) /\ DOMAIN Unlinked(k).link = Nodes \ {k}
         /\ \E under : Shape(Unlinked(k), Nodes \ {k}, under)
<1> DEFINE g == Gone(k)
           x == Severed(k)
           z == Unlinked(k)
           M == Nodes \ {g}
           N == Nodes \ {k}
           under == Without(Nodes, sub, g)
<1>1. /\ Severable(tree, Nodes, sub, g, GoneSide(k), OnlyChild(g), Parent(g), DirOf(tree, g))
      /\ k # g => k < g /\ \A m \in Nodes : m > k => m >= g
  BY GoneIs
<1>2. Hung(tree, x, Parent(g), DirOf(tree, g), OnlyChild(g)) /\ g \in Nodes
  BY <1>1, SeverableIs DEF Severed
<1>3. Shape(x, M, under)
  <2> HIDE DEF x, g
  <2> QED BY <1>1, <1>2, SeveredShape
<1>4. Renames(x, z, M, N, k, g)
  BY UnlinkedRenames
<1>5. Nodes \subseteq Nat
  BY DEF Typed, Nodes
<1> HIDE DEF g, x, z
<1>6. \A m \in M : \A y \in M : \A d \in Sides :
        Past(d, m, y) => Past(d, Renamed(k, g, m), Renamed(k, g, y))
  <2>1. CASE k = g
    BY <2>1 DEF Renamed
  <2>2. CASE k # g
    BY <1>1, <1>2, <1>5, <2>2 DEF Renamed, Past
  <2> QED BY <2>1, <2>2
<1> HIDE DEF under, M, N
<1>7. Shape(z, N, RenamedUnder(M, under, N, k, g))
  BY <1>3, <1>4, <1>6, RenamedShape
<1>8. Typed(z) /\ DOMAIN z.link = N
  BY <1>4 DEF Renames
<1> QED BY <1>7, <1>8 DEF z, N

-----------------------------------------------------------------------------
(* Colours.  h[n] is the number of black nodes on every way down from n.    *)
Weight(m, n) == IF m[n] = "red" THEN 0 ELSE 1

(* The ways through the child of x on side d lack one. *)
Owed(x, d, n, e) == IF n = x /\ e = d THEN 1 ELSE 0

Coloured(t, N, m, h, x, d) ==
    /\ m \in [N -> {"red", "black"}]
    /\ h \in [N \cup {Nil} -> Nat] /\ h[Nil] = 0
    /\ \A n \in N : \A e \in Sides : h[n] = h[t.link[n][e]] + Weight(m, n) + Owed(x, d, n, e)

(* No red node but a, and none but the children of b, has a red parent.    *)
RedRule(t, N, m, a, b) ==
    \A n \in N : m[n] = "red" /\ t.link[n][0] \in N /\ m[t.link[n][0]] = "red" => n = a \/ t.link[n][0] = b

LEMMA BlackenRoot ==
  ASSUME NEW t, NEW N, NEW sub, NEW m, NEW h, NEW x, NEW d, NEW a, NEW b,
         Shape(t, N, sub), Coloured(t, N, m, h, x, d), RedRule(t, N, m, a, b)
  PROVE  /\ \E under : Coloured(t, N, Blackened(m, t.root), under, x, d)
         /\ RedRule(t, N, Blackened(m, t.root), a, b)
         /\ t.root # Nil => Blackened(m, t.root)[t.root] = "black"
<1> DEFINE r == t.root
           m2 == Blackened(m, r)
<1>1. CASE r = Nil
  BY <1>1 DEF Blackened
<1>2. CASE r # Nil
  <2>1. r \in N /\ \A n \in N : \A e \in Sides : t.link[n][e] \in N \cup {Nil} /\ t.link[n][e] # r
    <3>1. r \in N
      BY <1>2 DEF Shape, Woven
    <3>2. ASSUME NEW n \in N, NEW e \in Sides PROVE t.link[n][e] \in N \cup {Nil} /\ t.link[n][e] # r
      BY <1>2, ChildIs
    <3> QED BY <3>1, <3>2
  <2>2. /\ m \in [N -> {"red", "black"}] /\ h \in [N \cup {Nil} -> Nat] /\ h[Nil] = 0
        /\ \A n \in N : \A e \in Sides : h[n] = h[t.link[n][e]] + Weight(m, n) + Owed(x, d, n, e)
    BY DEF Coloured
  <2>3. m2 = [m EXCEPT ![r] = "black"]
    BY <1>2 DEF Blackened
  <2>4. m2 \in [N -> {"red", "black"}] /\ m2[r] = "black" /\ \A n \in N : n # r => m2[n] = m[n]
    BY <2>1, <2>2, <2>3
  <2> HIDE DEF m2
  <2> DEFINE up == [h EXCEPT ![r] = h[r] + 1 - Weight(m, r)]
  <2>5. Weight(m, r) \in {0, 1}
    BY DEF Weight
  <2>6. h[r] \in Nat /\ h[r] + 1 - Weight(m, r) \in Nat
    BY <2>1, <2>2, <2>5
  <2>7. up \in [N \cup {Nil} -> Nat] /\ up[r] = h[r] + 1 - Weight(m, r) /\ \A n \in N \cup {Nil} : n # r => up[n] = h[n]
    BY <2>1, <2>2, <2>6
  <2> HIDE DEF up, r
  <2>8. ASSUME NEW n \in N, NEW e \in Sides
        PROVE  up[n] = up[t.link[n][e]] + Weight(m2, n) + Owed(x, d, n, e)
    <3>1. up[t.link[n][e]] = h[t.link[n][e]] /\ h[t.link[n][e]] \in Nat
      BY <2>1, <2>2, <2>7
    <3>2. h[n] = h[t.link[n][e]] + Weight(m, n) + Owed(x, d, n, e)
      BY <2>2
    <3>3. Owed(x, d, n, e) \in {0, 1}
      BY DEF Owed
    <3>4. CASE n = r
      <4>1. Weight(m2, n) = 1
        BY <2>4, <3>4 DEF Weight
      <4> QED BY <2>5, <2>7, <3>1, <3>2, <3>3, <3>4, <4>1
    <3>5. CASE n # r
      <4>1. Weight(m2, n) = Weight(m, n)
        BY <2>4, <3>5 DEF Weight
      <4> QED BY <2>7, <3>1, <3>2, <3>5, <4>1
    <3> QED BY <3>4, <3>5
  <2>9. up[Nil] = 0
    BY <1>2, <2>2, <2>7
  <2>10. Coloured(t, N, m2, up, x, d)
    BY <2>4, <2>7, <2>8, <2>9 DEF Coloured
  <2>11. RedRule(t, N, m2, a, b)
    BY <2>4 DEF RedRule
  <2> QED BY <2>4, <2>10, <2>11 DEF m2, r
<1> QED BY <1>1, <1>2

(* A red node under the link that lacks one turns black. *)
LEMMA PayRed ==
  ASSUME NEW t, NEW N, NEW sub, NEW m, NEW h, NEW x \in N, NEW d \in Sides, NEW c, NEW a, NEW b,
         Shape(t, N, sub), Coloured(t, N, m, h, x, d), RedRule(t, N, m, a, b),
         c = t.link[x][d], c # Nil, m[c] = "red", a \in {c, Nil}, b \in {c, Nil}
  PROVE  /\ \E under : Coloured(t, N, Blackened(m, c), under, Nil, 0)
         /\ RedRule(t, N, Blackened(m, c), Nil, Nil)
<1> DEFINE m2 == Blackened(m, c)
           up == [h EXCEPT ![c] = h[c] + 1]
<1>1. c \in N /\ t.link[c][0] = x /\ c # x /\ Nil \notin N
  BY ChildIs DEF Shape, Woven, Nil
<1>2. ASSUME NEW n \in N, NEW e \in Sides
      PROVE  t.link[n][e] \in N \cup {Nil} /\ t.link[n][e] # n /\ (t.link[n][e] = c => n = x /\ e = d)
  <2>1. t.link[n][e] \in N \cup {Nil} /\ t.link[n][e] # n
    BY ChildIs
  <2>2. t.link[n][e] = c => n = x /\ e = d
    BY <1>1, DirIs
  <2> QED BY <2>1, <2>2
<1>3. /\ m \in [N -> {"red", "black"}] /\ h \in [N \cup {Nil} -> Nat] /\ h[Nil] = 0
      /\ \A n \in N : \A e \in Sides : h[n] = h[t.link[n][e]] + Weight(m, n) + Owed(x, d, n, e)
  BY DEF Coloured
<1>4. m2 = [m EXCEPT ![c] = "black"]
  BY DEF Blackened
<1>5. m2 \in [N -> {"red", "black"}] /\ m2[c] = "black" /\ \A n \in N : n # c => m2[n] = m[n]
  BY <1>1, <1>3, <1>4
<1>6. up \in [N \cup {Nil} -> Nat] /\ up[c] = h[c] + 1 /\ \A n \in N \cup {Nil} : n # c => up[n] = h[n]
  BY <1>1, <1>3
<1> HIDE DEF m2, up
<1>7. ASSUME NEW n \in N, NEW e \in Sides
      PROVE  up[n] = up[t.link[n][e]] + Weight(m2, n) + Owed(Nil, 0, n, e)
  <2>1. h[n] = h[t.link[n][e]] + Weight(m, n) + Owed(x, d, n, e) /\ h[n] \in Nat /\ h[t.link[n][e]] \in Nat
    BY <1>2, <1>3
  <2>2. Owed(Nil, 0, n, e) = 0 /\ Owed(x, d, n, e) = IF n = x /\ e = d THEN 1 ELSE 0
    BY <1>1 DEF Owed
  <2>3. CASE n = c
    <3>1. up[t.link[n][e]] = h[t.link[n][e]] /\ up[n] = h[n] + 1
      BY <1>2, <1>6, <2>3
    <3>2. Weight(m2, n) = 1 /\ Weight(m, n) = 0 /\ Owed(x, d, n, e) = 0
      BY <1>1, <1>5, <2>2, <2>3 DEF Weight
    <3> QED BY <2>1, <2>2, <3>1, <3>2
  <2>4. CASE n # c
    <3>1. up[n] = h[n]
      BY <1>6, <2>4
    <3>2. Weight(m2, n) = Weight(m, n) /\ Weight(m, n) \in {0, 1}
      BY <1>5, <2>4 DEF Weight
    <3>3. CASE n = x /\ e = d
      <4>1. up[t.link[n][e]] = h[t.link[n][e]] + 1
        BY <1>6, <3>3
      <4> QED BY <2>1, <2>2, <3>1, <3>2, <3>3, <4>1
    <3>4. CASE ~(n = x /\ e = d)
      <4>1. up[t.link[n][e]] = h[t.link[n][e]]
        BY <1>2, <1>6, <3>4
      <4> QED BY <2>1, <2>2, <3>1, <3>2, <3>4, <4>1
    <3> QED BY <3>3, <3>4
  <2> QED BY <2>3, <2>4
<1>8. up[Nil] = 0
  BY <1>1, <1>3, <1>6
<1>9. Coloured(t, N, m2, up, Nil, 0)
  BY <1>5, <1>6, <1>7, <1>8 DEF Coloured
<1>10. RedRule(t, N, m2, Nil, Nil)
  BY <1>1, <1>5 DEF RedRule
<1> QED BY <1>9, <1>10 DEF m2

-----------------------------------------------------------------------------
(* Rotations that keep the colours right. *)
SwapMarks(m, m2, N, n, c) ==
    /\ m2 \in [N -> {"red", "black"}] /\ m2[n] = "red" /\ m2[c] = "black"
    /\ \A y \in N : y \notin {n, c} => m2[y] = m[y]

(* What changes for whom in a rotation. *)
LEMMA SpunLinks ==
  ASSUME NEW t, NEW z, NEW N, NEW sub, NEW n, NEW d, NEW c, NEW i, NEW o, NEW w, NEW q,
         Spinning(t, N, sub, n, d, c, i, o, w, q), Spun(t, z, N, n, d, c, i, q)
  PROVE  /\ \A y \in N : \A f \in Sides : y \notin {n, c} =>
              /\ t.link[y][f] = n => z.link[y][f] = c
              /\ t.link[y][f] # n => z.link[y][f] = t.link[y][f]
              /\ t.link[y][f] \in N \cup {Nil} /\ t.link[y][f] \notin {c, y}
         /\ z.link[n][d] = i /\ z.link[n][-d] = o /\ z.link[c][-d] = n /\ z.link[c][d] = w
         /\ t.link[n][d] = c /\ t.link[n][-d] = o /\ t.link[c][-d] = i /\ t.link[c][d] = w /\ t.link[n][0] = q
         /\ z.link[n][0] = c /\ z.link[c][0] = q /\ (i # Nil => z.link[i][0] = n /\ t.link[i][0] = c)
         /\ \A y \in N : y \notin {n, c, i} => z.link[y][0] = t.link[y][0]
         /\ t.link[c][0] = n /\ (o # Nil => t.link[o][0] = n) /\ (w # Nil => t.link[w][0] = c)
         /\ z.root = IF q = Nil THEN c ELSE t.root
         /\ q # Nil => t.root \notin {n, c}
<1>1. /\ n \in N /\ c \in N /\ {i, o, w, q} \subseteq N \cup {Nil}
      /\ n # c /\ i \notin {n, c} /\ o \notin {n, c} /\ w \notin {n, c} /\ q \notin {n, c}
      /\ n # Nil /\ c # Nil /\ d \in Sides /\ -d \in Sides /\ -d # d
      /\ \A x \in N : \A f \in Sides : t.link[x][f] = c => x = n /\ f = d
      /\ q = Nil <=> n = t.root
  BY SpinningIs
<1>2. /\ Shape(t, N, sub) /\ t.link[n][d] = c /\ t.link[n][-d] = o /\ t.link[c][d] = w /\ t.link[c][-d] = i
      /\ t.link[n][0] = q
  BY DEF Spinning
<1>3. ASSUME NEW y \in N, NEW f \in Sides
      PROVE  t.link[y][f] \in N \cup {Nil} /\ t.link[y][f] # y /\ (t.link[y][f] # Nil => t.link[t.link[y][f]][0] = y)
  BY <1>2, ChildIs
<1>4. ASSUME NEW y \in N, NEW f \in Sides
      PROVE  z.link[y][f] = IF y = n /\ f = d THEN i ELSE IF y = c /\ f = -d THEN n
                            ELSE IF t.link[y][f] = n THEN c ELSE t.link[y][f]
  BY DEF Spun
<1>5. ASSUME NEW y \in N
      PROVE  z.link[y][0] = IF y = n THEN c ELSE IF y = c THEN q ELSE IF y = i THEN n ELSE t.link[y][0]
  BY DEF Spun
<1>6. ASSUME NEW y \in N, NEW f \in Sides, y \notin {n, c}
      PROVE  /\ t.link[y][f] = n => z.link[y][f] = c
             /\ t.link[y][f] # n => z.link[y][f] = t.link[y][f]
             /\ t.link[y][f] \in N \cup {Nil} /\ t.link[y][f] \notin {c, y}
  BY <1>1, <1>3, <1>4, <1>6
<1>7. z.link[n][d] = i /\ z.link[n][-d] = o /\ z.link[c][-d] = n /\ z.link[c][d] = w
  BY <1>1, <1>2, <1>4
<1>8. z.link[n][0] = c /\ z.link[c][0] = q /\ (i # Nil => z.link[i][0] = n)
  BY <1>1, <1>5
<1>9. t.link[c][0] = n /\ (o # Nil => t.link[o][0] = n) /\ (w # Nil => t.link[w][0] = c) /\ (i # Nil => t.link[i][0] = c)
  <2>1. t.link[t.link[n][d]][0] = n
    BY <1>1, <1>2, <1>3
  <2>2. o # Nil => t.link[t.link[n][-d]][0] = n
    BY <1>1, <1>2, <1>3
  <2>3. w # Nil => t.link[t.link[c][d]][0] = c
    BY <1>1, <1>2, <1>3
  <2>4. i # Nil => t.link[t.link[c][-d]][0] = c
    BY <1>1, <1>2, <1>3
  <2> QED BY <1>2, <2>1, <2>2, <2>3, <2>4
<1>10. z.root = IF q = Nil THEN c ELSE t.root
  BY DEF Spun
<1>11. q # Nil => t.root \notin {n, c}
  <2>1. t.root # c
    BY <1>1, <1>2, ChildIs
  <2> QED BY <1>1, <2>1
<1>12. \A y \in N : y \notin {n, c, i} => z.link[y][0] = t.link[y][0]
  BY <1>5
<1> QED BY <1>2, <1>6, <1>7, <1>8, <1>9, <1>10, <1>11, <1>12

(* The child takes the node's black and the node the child's red. *)
LEMMA SwapColours ==
  ASSUME NEW t, NEW z, NEW N, NEW sub, NEW n, NEW d, NEW c, NEW i, NEW o, NEW w, NEW q,
         Spinning(t, N, sub, n, d, c, i, o, w, q), Spun(t, z, N, n, d, c, i, q),
         NEW m, NEW m2, NEW h, NEW x, NEW e, NEW a, NEW b,
         Coloured(t, N, m, h, x, e), RedRule(t, N, m, a, b), SwapMarks(m, m2, N, n, c),
         m[n] = "black", m[c] = "red", x \notin {n, c} \/ (x = n /\ e = -d),
         i # Nil => m[i] = "black", o # Nil => m[o] = "black"
  PROVE  /\ \E under : Coloured(z, N, m2, under, x, e)
         /\ RedRule(z, N, m2, a, b)
         /\ m2[z.root] = "red" => m[t.root] = "red" /\ z.root = t.root
<1>1. /\ n \in N /\ c \in N /\ {i, o, w, q} \subseteq N \cup {Nil}
      /\ n # c /\ i \notin {n, c} /\ o \notin {n, c} /\ w \notin {n, c} /\ q \notin {n, c}
      /\ n # Nil /\ c # Nil /\ d \in Sides /\ -d \in Sides /\ -d # d /\ \A f \in Sides : f = d \/ f = -d
  <2>1. d \in Sides
    BY SpinningIs
  <2>2. \A f \in Sides : f = d \/ f = -d
    BY <2>1 DEF Sides
  <2> QED BY <2>2, SpinningIs
<1>2. /\ \A y \in N : \A f \in Sides : y \notin {n, c} =>
           /\ t.link[y][f] = n => z.link[y][f] = c
           /\ t.link[y][f] # n => z.link[y][f] = t.link[y][f]
           /\ t.link[y][f] \in N \cup {Nil} /\ t.link[y][f] \notin {c, y}
      /\ z.link[n][d] = i /\ z.link[n][-d] = o /\ z.link[c][-d] = n /\ z.link[c][d] = w
      /\ t.link[n][d] = c /\ t.link[n][-d] = o /\ t.link[c][-d] = i /\ t.link[c][d] = w
      /\ z.link[n][0] = c /\ (i # Nil => z.link[i][0] = n)
      /\ \A y \in N : y \notin {n, c, i} => z.link[y][0] = t.link[y][0]
      /\ z.root = IF q = Nil THEN c ELSE t.root
      /\ q # Nil => t.root \notin {n, c}
  BY SpunLinks
<1>a. (o # Nil => t.link[o][0] = n) /\ (w # Nil => t.link[w][0] = c) /\ \A y \in N : t.link[y][0] = n => y \in {c, o}
  <2>1. (o # Nil => t.link[o][0] = n) /\ (w # Nil => t.link[w][0] = c)
    BY SpunLinks
  <2>2. ASSUME NEW y \in N, t.link[y][0] = n PROVE y \in {c, o}
    <3>1. Shape(t, N, sub)
      BY DEF Spinning
    <3>2. y # t.root
      BY <1>1, <2>2, <3>1 DEF Shape, Woven
    <3>3. PICK f \in Sides : t.link[n][f] = y
      BY <2>2, <3>1, <3>2 DEF Shape, Woven
    <3> QED BY <1>1, <1>2, <3>3
  <2> QED BY <2>1, <2>2
<1>3. /\ m \in [N -> {"red", "black"}] /\ h \in [N \cup {Nil} -> Nat] /\ h[Nil] = 0
      /\ \A y \in N : \A f \in Sides : h[y] = h[t.link[y][f]] + Weight(m, y) + Owed(x, e, y, f)
  BY DEF Coloured
<1>4. /\ m2 \in [N -> {"red", "black"}] /\ m2[n] = "red" /\ m2[c] = "black"
      /\ \A y \in N : y \notin {n, c} => m2[y] = m[y]
  BY DEF SwapMarks
<1> DEFINE up == [y \in N \cup {Nil} |-> IF y = n THEN h[c] ELSE IF y = c THEN h[n] ELSE h[y]]
<1>5. /\ up \in [N \cup {Nil} -> Nat] /\ up[n] = h[c] /\ up[c] = h[n]
      /\ \A y \in N \cup {Nil} : y \notin {n, c} => up[y] = h[y]
  BY <1>1, <1>3
<1>6. Owed(x, e, c, d) = 0 /\ Owed(x, e, c, -d) = 0 /\ Owed(x, e, n, d) = 0 /\ Owed(x, e, n, -d) \in {0, 1}
  BY <1>1 DEF Owed
<1>7. Weight(m, n) = 1 /\ Weight(m, c) = 0 /\ Weight(m2, n) = 0 /\ Weight(m2, c) = 1
  BY <1>4 DEF Weight
<1> HIDE DEF up
<1>8. /\ h[n] = h[c] + 1 + 0 /\ h[n] = h[o] + 1 + Owed(x, e, n, -d)
      /\ h[c] = h[w] + 0 + 0 /\ h[c] = h[i] + 0 + 0
      /\ {h[n], h[c], h[o], h[w], h[i]} \subseteq Nat
  BY <1>1, <1>2, <1>3, <1>6, <1>7
<1>9. ASSUME NEW y \in N, NEW f \in Sides
      PROVE  up[y] = up[z.link[y][f]] + Weight(m2, y) + Owed(x, e, y, f)
  <2>1. CASE y = n
    <3>1. up[i] = h[i] /\ up[o] = h[o]
      BY <1>1, <1>5
    <3>2. CASE f = d
      BY <1>2, <1>5, <1>6, <1>7, <1>8, <2>1, <3>1, <3>2
    <3>3. CASE f = -d
      <4>1. h[c] = h[o] + 0 + Owed(x, e, n, -d)
        BY <1>6, <1>8
      <4> QED BY <1>2, <1>5, <1>7, <2>1, <3>1, <3>3, <4>1
    <3> QED BY <1>1, <3>2, <3>3
  <2>2. CASE y = c
    <3>1. up[w] = h[w]
      BY <1>1, <1>5
    <3>2. CASE f = d
      BY <1>2, <1>5, <1>6, <1>7, <1>8, <2>2, <3>1, <3>2
    <3>3. CASE f = -d
      BY <1>2, <1>5, <1>6, <1>7, <1>8, <2>2, <3>3
    <3> QED BY <1>1, <3>2, <3>3
  <2>3. CASE y \notin {n, c}
    <3>1. up[y] = h[y] /\ Weight(m2, y) = Weight(m, y)
      BY <1>4, <1>5, <2>3 DEF Weight
    <3>2. up[z.link[y][f]] = h[t.link[y][f]]
      <4>1. CASE t.link[y][f] = n
        <5>1. z.link[y][f] = c
          BY <1>2, <2>3, <4>1
        <5> QED BY <1>5, <4>1, <5>1
      <4>2. CASE t.link[y][f] # n
        <5>1. z.link[y][f] = t.link[y][f] /\ t.link[y][f] \in N \cup {Nil} /\ t.link[y][f] \notin {n, c}
          BY <1>2, <2>3, <4>2
        <5> QED BY <1>5, <5>1
      <4> QED BY <4>1, <4>2
    <3>3. h[y] = h[t.link[y][f]] + Weight(m, y) + Owed(x, e, y, f)
      BY <1>3
    <3> QED BY <3>1, <3>2, <3>3
  <2> QED BY <2>1, <2>2, <2>3
<1>10. up[Nil] = 0 /\ Nil \notin N
  BY <1>1, <1>3, <1>5, SpinningIs
<1>11. Coloured(z, N, m2, up, x, e)
  BY <1>4, <1>5, <1>9, <1>10 DEF Coloured
<1>12. ASSUME NEW y \in N, m2[y] = "red", z.link[y][0] \in N, m2[z.link[y][0]] = "red"
       PROVE  y = a \/ z.link[y][0] = b
  <2>1. y # c /\ z.link[y][0] # c
    BY <1>4, <1>12
  <2>2. y # n
    BY <1>2, <2>1
  <2>3. y # i
    <3> SUFFICES ASSUME y = i PROVE FALSE
      OBVIOUS
    <3>1. i # Nil /\ i \in N
      BY <1>10
    <3> QED BY <1>1, <1>4, <1>12, <3>1
  <2>4. z.link[y][0] = t.link[y][0] /\ m[y] = "red"
    BY <1>2, <1>4, <1>12, <2>1, <2>2, <2>3
  <2>5. y # o
    BY <1>1, <1>10, <2>4
  <2>6. z.link[y][0] # n
    BY <1>a, <2>1, <2>4, <2>5
  <2>7. m[t.link[y][0]] = "red"
    BY <1>4, <1>12, <2>1, <2>4, <2>6
  <2> QED BY <1>12, <2>4, <2>7 DEF RedRule
<1>13. RedRule(z, N, m2, a, b)
  BY <1>12 DEF RedRule
<1>14. m2[z.root] = "red" => m[t.root] = "red" /\ z.root = t.root
  <2> SUFFICES ASSUME m2[z.root] = "red" PROVE m[t.root] = "red" /\ z.root = t.root
    OBVIOUS
  <2>1. q # Nil /\ z.root = t.root /\ t.root \notin {n, c}
    BY <1>2, <1>4
  <2>2. t.root \in N
    BY <1>1 DEF Spinning, Shape, Woven
  <2> QED BY <1>4, <2>1, <2>2
<1> QED BY <1>11, <1>13, <1>14

(* Of two red nodes the lower comes up: nothing is red over red but them.  *)
LEMMA RedTurn ==
  ASSUME NEW t, NEW z, NEW N, NEW sub, NEW n, NEW d, NEW c, NEW i, NEW o, NEW w, NEW q,
         Spinning(t, N, sub, n, d, c, i, o, w, q), Spun(t, z, N, n, d, c, i, q),
         NEW m, NEW h, Coloured(t, N, m, h, Nil, 0), RedRule(t, N, m, c, Nil), m[n] = "red", m[c] = "red"
  PROVE  Coloured(z, N, m, h, Nil, 0) /\ RedRule(z, N, m, n, Nil)
<1>1. /\ n \in N /\ c \in N /\ {i, o, w, q} \subseteq N \cup {Nil}
      /\ n # c /\ i \notin {n, c} /\ o \notin {n, c} /\ w \notin {n, c} /\ q \notin {n, c}
      /\ n # Nil /\ c # Nil /\ d \in Sides /\ -d \in Sides /\ -d # d /\ \A f \in Sides : f = d \/ f = -d
      /\ Nil \notin N
  <2>1. d \in Sides /\ N \subseteq Nat \ {0} /\ Nil = 0
    BY SpinningIs
  <2>2. \A f \in Sides : f = d \/ f = -d
    BY <2>1 DEF Sides
  <2> QED BY <2>1, <2>2, SpinningIs
<1>2. /\ \A y \in N : \A f \in Sides : y \notin {n, c} =>
           /\ t.link[y][f] = n => z.link[y][f] = c
           /\ t.link[y][f] # n => z.link[y][f] = t.link[y][f]
      /\ z.link[n][d] = i /\ z.link[n][-d] = o /\ z.link[c][-d] = n /\ z.link[c][d] = w
      /\ t.link[n][d] = c /\ t.link[n][-d] = o /\ t.link[c][-d] = i /\ t.link[c][d] = w /\ t.link[n][0] = q
      /\ z.link[c][0] = q /\ (i # Nil => t.link[i][0] = c)
      /\ \A y \in N : y \notin {n, c, i} => z.link[y][0] = t.link[y][0]
  BY SpunLinks
<1>3. /\ m \in [N -> {"red", "black"}] /\ h \in [N \cup {Nil} -> Nat] /\ h[Nil] = 0
      /\ \A y \in N : \A f \in Sides : h[y] = h[t.link[y][f]] + Weight(m, y) + Owed(Nil, 0, y, f)
  BY DEF Coloured
<1>4. Weight(m, n) = 0 /\ Weight(m, c) = 0 /\ \A y \in N : \A f : Owed(Nil, 0, y, f) = 0
  BY <1>1 DEF Weight, Owed
<1>5. h[n] = h[c] + 0 + 0 /\ h[n] = h[o] + 0 + 0 /\ h[c] = h[w] + 0 + 0 /\ h[c] = h[i] + 0 + 0
  BY <1>1, <1>2, <1>3, <1>4
<1>6. {h[n], h[c], h[o], h[w], h[i]} \subseteq Nat
  BY <1>1, <1>3
<1>7. h[n] = h[c] /\ h[o] = h[c] /\ h[w] = h[c] /\ h[i] = h[c]
  BY <1>5, <1>6
<1>8. ASSUME NEW y \in N, NEW f \in Sides
      PROVE  h[y] = h[z.link[y][f]] + Weight(m, y) + Owed(Nil, 0, y, f)
  <2>1. CASE y = n
    <3>1. h[z.link[y][f]] = h[c]
      BY <1>1, <1>2, <1>7, <2>1
    <3> QED BY <1>4, <1>6, <1>7, <2>1, <3>1
  <2>2. CASE y = c
    <3>1. h[z.link[y][f]] = h[c]
      BY <1>1, <1>2, <1>7, <2>2
    <3> QED BY <1>4, <1>6, <2>2, <3>1
  <2>3. CASE y \notin {n, c}
    <3>1. h[z.link[y][f]] = h[t.link[y][f]]
      BY <1>2, <1>7, <2>3
    <3> QED BY <1>3, <3>1
  <2> QED BY <2>1, <2>2, <2>3
<1>9. Coloured(z, N, m, h, Nil, 0)
  BY <1>3, <1>8 DEF Coloured
<1>10. ASSUME NEW y \in N, m[y] = "red", z.link[y][0] \in N, m[z.link[y][0]] = "red", y # n
       PROVE  FALSE
  <2>1. \A v \in N : m[v] = "red" /\ t.link[v][0] \in N /\ m[t.link[v][0]] = "red" => v = c
    BY <1>1 DEF RedRule
  <2>2. y # c
    <3> SUFFICES ASSUME y = c PROVE FALSE
      OBVIOUS
    <3>1. q \in N /\ m[q] = "red"
      BY <1>2, <1>10
    <3> QED BY <1>1, <1>2, <2>1, <3>1
  <2>3. y # i
    <3> SUFFICES ASSUME y = i PROVE FALSE
      OBVIOUS
    <3>1. t.link[y][0] = c
      BY <1>1, <1>2
    <3> QED BY <1>1, <1>10, <2>1, <2>2, <3>1
  <2>4. z.link[y][0] = t.link[y][0]
    BY <1>2, <1>10, <2>2, <2>3
  <2> QED BY <1>10, <2>1, <2>2, <2>4
<1>11. RedRule(z, N, m, n, Nil)
  BY <1>10 DEF RedRule
<1> QED BY <1>9, <1>11

(* The sibling c comes up in the colour of n, over two black nodes, and the *)
(* side of o has its black node back.                                      *)
BorrowMarks(m, m2, N, n, c, w) ==
    /\ m2 \in [N -> {"red", "black"}] /\ m2[c] = m[n] /\ m2[n] = "black" /\ m2[w] = "black"
    /\ \A y \in N : y \notin {n, c, w} => m2[y] = m[y]

LEMMA BorrowTurn ==
  ASSUME NEW t, NEW z, NEW N, NEW sub, NEW n, NEW d, NEW c, NEW i, NEW o, NEW w, NEW q,
         Spinning(t, N, sub, n, d, c, i, o, w, q), Spun(t, z, N, n, d, c, i, q),
         NEW m, NEW m2, NEW h,
         Coloured(t, N, m, h, n, -d), RedRule(t, N, m, Nil, o), BorrowMarks(m, m2, N, n, c, w),
         m[c] = "black", w # Nil, m[w] = "red", o # Nil => m[o] = "black"
  PROVE  /\ \E under : Coloured(z, N, m2, under, Nil, 0)
         /\ RedRule(z, N, m2, Nil, Nil)
<1>1. /\ n \in N /\ c \in N /\ w \in N /\ {i, o, w, q} \subseteq N \cup {Nil}
      /\ n # c /\ i \notin {n, c, w} /\ o \notin {n, c, w} /\ w \notin {n, c} /\ q \notin {n, c, w}
      /\ n # Nil /\ c # Nil /\ d \in Sides /\ -d \in Sides /\ -d # d /\ \A f \in Sides : f = d \/ f = -d
      /\ Nil \notin N /\ (o # Nil => q # o)
  <2>1. d \in Sides /\ N \subseteq Nat \ {0} /\ Nil = 0
    BY SpinningIs
  <2>2. \A f \in Sides : f = d \/ f = -d
    BY <2>1 DEF Sides
  <2> QED BY <2>1, <2>2, SpinningIs
<1>2. /\ \A y \in N : \A f \in Sides : y \notin {n, c} =>
           /\ t.link[y][f] = n => z.link[y][f] = c
           /\ t.link[y][f] # n => z.link[y][f] = t.link[y][f]
           /\ t.link[y][f] \in N \cup {Nil} /\ t.link[y][f] \notin {c, y}
      /\ z.link[n][d] = i /\ z.link[n][-d] = o /\ z.link[c][-d] = n /\ z.link[c][d] = w
      /\ t.link[n][d] = c /\ t.link[n][-d] = o /\ t.link[c][-d] = i /\ t.link[c][d] = w /\ t.link[n][0] = q
      /\ z.link[n][0] = c /\ z.link[c][0] = q /\ (i # Nil => z.link[i][0] = n)
      /\ \A y \in N : y \notin {n, c, i} => z.link[y][0] = t.link[y][0]
      /\ (o # Nil => t.link[o][0] = n) /\ (w # Nil => t.link[w][0] = c)
  BY SpunLinks
<1>a. /\ \A y \in N : t.link[y][0] = c => y \in {i, w}
      /\ \A y \in N : t.link[y][0] = n => y \in {c, o}
      /\ \A y \in N : \A f \in Sides : t.link[y][f] = w => y = c
  <2>1. Shape(t, N, sub)
    BY DEF Spinning
  <2>2. ASSUME NEW y \in N, NEW p \in N, t.link[y][0] = p PROVE \E f \in Sides : t.link[p][f] = y
    <3>1. y # t.root
      BY <1>1, <2>1, <2>2 DEF Shape, Woven
    <3> QED BY <2>1, <2>2, <3>1 DEF Shape, Woven
  <2>3. \A y \in N : \A f \in Sides : t.link[y][f] = w => y = c
    BY <1>1, <1>2, <2>1, DirIs
  <2> QED BY <1>1, <1>2, <2>2, <2>3
<1>3. /\ m \in [N -> {"red", "black"}] /\ h \in [N \cup {Nil} -> Nat] /\ h[Nil] = 0
      /\ \A y \in N : \A f \in Sides : h[y] = h[t.link[y][f]] + Weight(m, y) + Owed(n, -d, y, f)
  BY DEF Coloured
<1>4. /\ m2 \in [N -> {"red", "black"}] /\ m2[c] = m[n] /\ m2[n] = "black" /\ m2[w] = "black"
      /\ \A y \in N : y \notin {n, c, w} => m2[y] = m[y]
  BY DEF BorrowMarks
<1> DEFINE up == [y \in N \cup {Nil} |-> IF y = n THEN h[o] + 1 ELSE IF y = c THEN h[n]
                                         ELSE IF y = w THEN h[w] + 1 ELSE h[y]]
<1>5. /\ up \in [N \cup {Nil} -> Nat] /\ up[n] = h[o] + 1 /\ up[c] = h[n] /\ up[w] = h[w] + 1
      /\ \A y \in N \cup {Nil} : y \notin {n, c, w} => up[y] = h[y]
  BY <1>1, <1>3
<1>6. Owed(n, -d, n, d) = 0 /\ Owed(n, -d, n, -d) = 1 /\ \A y \in N : \A f : y # n => Owed(n, -d, y, f) = 0
  BY <1>1 DEF Owed
<1>7. /\ Weight(m, c) = 1 /\ Weight(m, w) = 0 /\ Weight(m2, n) = 1 /\ Weight(m2, w) = 1
      /\ Weight(m2, c) = Weight(m, n) /\ Weight(m, n) \in {0, 1}
  BY <1>4 DEF Weight
<1> HIDE DEF up
<1>8. /\ h[n] = h[c] + Weight(m, n) + 0 /\ h[n] = h[o] + Weight(m, n) + 1
      /\ h[c] = h[w] + 1 + 0 /\ h[c] = h[i] + 1 + 0
      /\ {h[n], h[c], h[o], h[w], h[i]} \subseteq Nat
  BY <1>1, <1>2, <1>3, <1>6, <1>7
<1>9. h[c] = h[o] + 1 /\ h[w] = h[o] /\ h[i] = h[o]
  BY <1>7, <1>8
<1>10. \A y \in N : \A f : Owed(Nil, 0, y, f) = 0
  BY <1>1 DEF Owed
<1>11. ASSUME NEW y \in N, NEW f \in Sides
       PROVE  up[y] = up[z.link[y][f]] + Weight(m2, y) + Owed(Nil, 0, y, f)
  <2>1. CASE y = n
    <3>1. up[i] = h[i] /\ up[o] = h[o]
      BY <1>1, <1>5
    <3>2. up[z.link[y][f]] = h[o]
      BY <1>1, <1>2, <1>9, <2>1, <3>1
    <3> QED BY <1>5, <1>7, <1>8, <1>10, <2>1, <3>2
  <2>2. CASE y = c
    <3>1. up[z.link[y][f]] = h[o] + 1
      BY <1>1, <1>2, <1>5, <1>9, <2>2
    <3> QED BY <1>5, <1>7, <1>8, <1>10, <2>2, <3>1
  <2>3. CASE y \notin {n, c}
    <3>1. h[y] = h[t.link[y][f]] + Weight(m, y) + 0
      BY <1>3, <1>6, <2>3
    <3>2. up[z.link[y][f]] = h[t.link[y][f]]
      <4>1. CASE t.link[y][f] = n
        <5>1. z.link[y][f] = c
          BY <1>2, <2>3, <4>1
        <5> QED BY <1>5, <4>1, <5>1
      <4>2. CASE t.link[y][f] # n
        <5>1. z.link[y][f] = t.link[y][f] /\ t.link[y][f] \in N \cup {Nil} /\ t.link[y][f] \notin {n, c, w}
          BY <1>2, <1>a, <2>3, <4>2
        <5> QED BY <1>5, <5>1
      <4> QED BY <4>1, <4>2
    <3>3. CASE y = w
      <4>1. h[w] = h[t.link[y][f]] + 0 + 0
        BY <1>7, <3>1, <3>3
      <4>2. h[t.link[y][f]] \in Nat
        BY <1>2, <1>3, <2>3
      <4> QED BY <1>5, <1>7, <1>10, <3>2, <3>3, <4>1, <4>2
    <3>4. CASE y # w
      <4>1. up[y] = h[y] /\ Weight(m2, y) = Weight(m, y)
        BY <1>4, <1>5, <2>3, <3>4 DEF Weight
      <4> QED BY <1>10, <3>1, <3>2, <4>1
    <3> QED BY <3>3, <3>4
  <2> QED BY <2>1, <2>2, <2>3
<1>12. up[Nil] = 0
  BY <1>1, <1>3, <1>5
<1>13. Coloured(z, N, m2, up, Nil, 0)
  BY <1>4, <1>5, <1>11, <1>12 DEF Coloured
<1>14. ASSUME NEW y \in N, m2[y] = "red", z.link[y][0] \in N, m2[z.link[y][0]] = "red"
       PROVE  FALSE
  <2>0. \A v \in N : m[v] = "red" /\ t.link[v][0] \in N /\ m[t.link[v][0]] = "red" => t.link[v][0] = o
    BY <1>1 DEF RedRule
  <2>1. y \notin {n, w} /\ z.link[y][0] \notin {n, w}
    BY <1>4, <1>14
  <2>2. y # i
    BY <1>1, <1>2, <2>1
  <2>3. y # c
    <3> SUFFICES ASSUME y = c PROVE FALSE
      OBVIOUS
    <3>1. m[n] = "red" /\ q \in N /\ m[q] = "red"
      BY <1>1, <1>2, <1>4, <1>14
    <3>2. q = o
      BY <1>1, <1>2, <2>0, <3>1
    <3> QED BY <1>1, <3>1, <3>2
  <2>4. z.link[y][0] = t.link[y][0] /\ m[y] = "red"
    BY <1>2, <1>4, <1>14, <2>1, <2>2, <2>3
  <2>5. t.link[y][0] \notin {n, c, w}
    BY <1>a, <2>1, <2>2, <2>3, <2>4
  <2>6. m[t.link[y][0]] = "red" /\ t.link[y][0] \in N
    BY <1>4, <1>14, <2>4, <2>5
  <2>7. t.link[y][0] = o
    BY <2>0, <2>4, <2>6
  <2> QED BY <1>1, <2>6, <2>7
<1>15. RedRule(z, N, m2, Nil, Nil)
  BY <1>14 DEF RedRule
<1> QED BY <1>13, <1>15

-----------------------------------------------------------------------------
LEMMA InItself ==
  ASSUME NEW t, NEW N, NEW sub, Shape(t, N, sub), NEW n \in N
  PROVE  n \in sub[n]
<1>1. sub[n] = {n} \cup sub[t.link[n][-1]] \cup sub[t.link[n][1]]
  BY DEF Shape, Sorted
<1> QED BY <1>1

(* Rounds that only change colours. *)
Uncles(t, N, sub, n, p, g, d, u) ==
    /\ Shape(t, N, sub) /\ n \in N /\ p \in N /\ g \in N /\ u \in N /\ d \in Sides
    /\ t.link[n][0] = p /\ t.link[p][0] = g /\ t.link[g][d] = p /\ t.link[g][-d] = u

UncleMarks(m, m2, N, p, u, g) ==
    /\ m2 \in [N -> {"red", "black"}] /\ m2[p] = "black" /\ m2[u] = "black" /\ m2[g] = "red"
    /\ \A y \in N : y \notin {p, u, g} => m2[y] = m[y]

LEMMA UncleTurnsBlack ==
  ASSUME NEW t, NEW N, NEW sub, NEW n, NEW p, NEW g, NEW d, NEW u, NEW m, NEW m2, NEW h,
         Uncles(t, N, sub, n, p, g, d, u), UncleMarks(m, m2, N, p, u, g),
         Coloured(t, N, m, h, Nil, 0), RedRule(t, N, m, n, Nil), m[n] = "red", m[p] = "red", m[u] = "red"
  PROVE  /\ \E under : Coloured(t, N, m2, under, Nil, 0)
         /\ RedRule(t, N, m2, g, Nil)
<1>1. /\ Shape(t, N, sub) /\ n \in N /\ p \in N /\ g \in N /\ u \in N /\ d \in Sides
      /\ t.link[n][0] = p /\ t.link[p][0] = g /\ t.link[g][d] = p /\ t.link[g][-d] = u
  BY DEF Uncles
<1>2. /\ Nil \notin N /\ \A f \in Sides : f = d \/ f = -d
      /\ \A y \in N : \A f \in Sides : t.link[y][f] # Nil => t.link[y][f] \in N /\ t.link[t.link[y][f]][0] = y
      /\ \A y \in N : t.link[y][0] = g => \E f \in Sides : t.link[g][f] = y
  <2>1. Nil \notin N /\ \A f \in Sides : f = d \/ f = -d
    BY <1>1 DEF Shape, Woven, Nil, Sides
  <2>2. \A y \in N : \A f \in Sides : t.link[y][f] # Nil => t.link[y][f] \in N /\ t.link[t.link[y][f]][0] = y
    BY <1>1 DEF Shape, Woven
  <2>3. ASSUME NEW y \in N, t.link[y][0] = g PROVE \E f \in Sides : t.link[g][f] = y
    <3>1. y # t.root
      BY <1>1, <2>1, <2>3 DEF Shape, Woven
    <3> QED BY <1>1, <2>3, <3>1 DEF Shape, Woven
  <2> QED BY <2>1, <2>2, <2>3
<1>3. /\ p # n /\ p # g /\ p # u /\ g # u /\ t.link[u][0] = g
  <2>1. Family(t, N, sub, g, d, p, u)
    BY <1>1 DEF Family
  <2>2. p \in sub[p] /\ u \in sub[u]
    BY <1>1, InItself
  <2>3. p # g /\ u # g /\ p # u
    BY <2>1, <2>2, FamilyIs
  <2>4. p # n
    BY <1>1, DirIs
  <2>5. t.link[u][0] = g
    <3>1. -d \in Sides
      BY <1>1 DEF Sides
    <3> QED BY <1>1, <1>2, <3>1
  <2> QED BY <2>3, <2>4, <2>5
<1>4. /\ m \in [N -> {"red", "black"}] /\ h \in [N \cup {Nil} -> Nat] /\ h[Nil] = 0
      /\ \A y \in N : \A f \in Sides : h[y] = h[t.link[y][f]] + Weight(m, y) + Owed(Nil, 0, y, f)
  BY DEF Coloured
<1>5. \A y \in N : \A f : Owed(Nil, 0, y, f) = 0
  BY <1>2 DEF Owed
<1>6. m[g] = "black"
  BY <1>1, <1>2, <1>3, <1>4 DEF RedRule
<1>7. /\ m2 \in [N -> {"red", "black"}] /\ m2[p] = "black" /\ m2[u] = "black" /\ m2[g] = "red"
      /\ \A y \in N : y \notin {p, u, g} => m2[y] = m[y]
  BY DEF UncleMarks
<1> DEFINE up == [y \in N \cup {Nil} |-> IF y \in {p, u} THEN h[y] + 1 ELSE h[y]]
<1>8. /\ up \in [N \cup {Nil} -> Nat] /\ up[p] = h[p] + 1 /\ up[u] = h[u] + 1
      /\ \A y \in N \cup {Nil} : y \notin {p, u} => up[y] = h[y]
  BY <1>1, <1>4
<1> HIDE DEF up
<1>9. ASSUME NEW y \in N, NEW f \in Sides
      PROVE  up[y] = up[t.link[y][f]] + Weight(m2, y) + Owed(Nil, 0, y, f)
  <2>1. h[y] = h[t.link[y][f]] + Weight(m, y) + 0 /\ h[t.link[y][f]] \in Nat
    BY <1>2, <1>4, <1>5
  <2>2. CASE y = g
    <3>1. up[t.link[y][f]] = h[t.link[y][f]] + 1
      BY <1>1, <1>2, <1>8, <2>2
    <3>2. Weight(m, y) = 1 /\ Weight(m2, y) = 0 /\ up[y] = h[y]
      BY <1>1, <1>3, <1>6, <1>7, <1>8, <2>2 DEF Weight
    <3> QED BY <1>5, <2>1, <3>1, <3>2
  <2>3. CASE y # g
    <3>1. t.link[y][f] \notin {p, u} /\ t.link[y][f] \in N \cup {Nil}
      BY <1>1, <1>2, <1>3, <2>3
    <3>2. up[t.link[y][f]] = h[t.link[y][f]]
      BY <1>8, <3>1
    <3>3. CASE y \in {p, u}
      <4>1. Weight(m, y) = 0 /\ Weight(m2, y) = 1 /\ up[y] = h[y] + 1
        BY <1>7, <1>8, <3>3 DEF Weight
      <4> QED BY <1>5, <2>1, <3>2, <4>1
    <3>4. CASE y \notin {p, u}
      <4>1. Weight(m2, y) = Weight(m, y) /\ up[y] = h[y]
        BY <1>7, <1>8, <2>3, <3>4 DEF Weight
      <4> QED BY <1>5, <2>1, <3>2, <4>1
    <3> QED BY <3>3, <3>4
  <2> QED BY <2>2, <2>3
<1>10. up[Nil] = 0
  BY <1>1, <1>2, <1>4, <1>8
<1>11. Coloured(t, N, m2, up, Nil, 0)
  BY <1>7, <1>8, <1>9, <1>10 DEF Coloured
<1>12. ASSUME NEW y \in N, m2[y] = "red", t.link[y][0] \in N, m2[t.link[y][0]] = "red", y # g
       PROVE  FALSE
  <2>1. y \notin {p, u} /\ t.link[y][0] \notin {p, u}
    BY <1>7, <1>12
  <2>2. t.link[y][0] # g
    BY <1>1, <1>2, <2>1
  <2>3. m[y] = "red" /\ m[t.link[y][0]] = "red"
    BY <1>7, <1>12, <2>1, <2>2
  <2>4. y = n
    BY <1>2, <1>12, <2>3 DEF RedRule
  <2> QED BY <1>1, <2>1, <2>4
<1>13. RedRule(t, N, m2, g, Nil)
  BY <1>12 DEF RedRule
<1> QED BY <1>11, <1>13

(* The sibling s turns red; the ways through p now lack one. *)
LEMMA SiblingTurnsRed ==
  ASSUME NEW t, NEW N, NEW sub, NEW p, NEW d, NEW c, NEW s, NEW m, NEW m2, NEW h,
         Family(t, N, sub, p, d, c, s), s # Nil, m[s] = "black",
         m2 \in [N -> {"red", "black"}], m2[s] = "red", \A y \in N : y # s => m2[y] = m[y],
         Coloured(t, N, m, h, p, d), RedRule(t, N, m, Nil, c), c # Nil => m[c] = "black",
         \A f \in Sides : t.link[s][f] # Nil => m[t.link[s][f]] = "black"
  PROVE  /\ \E under : Coloured(t, N, m2, under, t.link[p][0], DirOf(t, p))
         /\ RedRule(t, N, m2, Nil, p)
<1> DEFINE q == t.link[p][0]
           e == DirOf(t, p)
<1>1. Shape(t, N, sub) /\ p \in N /\ d \in Sides /\ -d \in Sides /\ c = t.link[p][d] /\ s = t.link[p][-d]
      /\ s \in N /\ c \in N \cup {Nil} /\ \A f \in Sides : f = d \/ f = -d
  <2>1. Shape(t, N, sub) /\ p \in N /\ d \in Sides /\ c = t.link[p][d] /\ s = t.link[p][-d]
    BY DEF Family
  <2>2. s \in N /\ c \in N \cup {Nil} /\ -d \in Sides
    BY FamilyIs
  <2>3. \A f \in Sides : f = d \/ f = -d
    BY <2>1 DEF Sides
  <2> QED BY <2>1, <2>2, <2>3
<1>2. /\ Nil \notin N
      /\ \A y \in N : \A f \in Sides : t.link[y][f] \in N \cup {Nil} /\ t.link[y][f] # y
      /\ \A y \in N : \A f \in Sides : t.link[y][f] = p => y = q /\ f = e
      /\ \A y \in N : \A f \in Sides : t.link[y][f] = s => y = p
      /\ q # Nil => e \in Sides /\ t.link[q][e] = p
      /\ t.link[s][0] = p
      /\ c # s /\ c # p /\ s # p /\ q \notin {p, s}
  <2>1. Nil \notin N
    BY <1>1 DEF Shape, Woven, Nil
  <2>2. \A y \in N : \A f \in Sides : t.link[y][f] \in N \cup {Nil} /\ t.link[y][f] # y
    BY <1>1, ChildIs
  <2>3. /\ \A y \in N : \A f \in Sides : t.link[y][f] = p => y = q /\ f = e
        /\ q # Nil => e \in Sides /\ t.link[q][e] = p
        /\ q # p
    BY <1>1, DirIs
  <2>4. t.link[s][0] = p /\ \A y \in N : \A f \in Sides : t.link[y][f] = s => y = p
    <3>1. t.link[s][0] = p
      BY <1>1 DEF Shape, Woven
    <3> QED BY <1>1, <3>1, DirIs
  <2>5. c # s
    <3>1. s \in sub[s] /\ \A y \in sub[c] : y \notin sub[s]
      BY <1>1, FamilyIs, InItself
    <3> QED BY <3>1
  <2>6. q # s
    <3> SUFFICES ASSUME q = s PROVE FALSE
      OBVIOUS
    <3>1. q # Nil /\ p \in sub[p] /\ p \in sub[t.link[q][e]]
      BY <1>1, <2>1, <2>3, InItself
    <3>2. p \in sub[s]
      BY <1>1, <2>3, <3>1, ChildIs, SMTT(30)
    <3> QED BY <3>2, FamilyIs
  <2> QED BY <1>1, <2>1, <2>2, <2>3, <2>4, <2>5, <2>6
<1>3. /\ m \in [N -> {"red", "black"}] /\ h \in [N \cup {Nil} -> Nat] /\ h[Nil] = 0
      /\ \A y \in N : \A f \in Sides : h[y] = h[t.link[y][f]] + Weight(m, y) + Owed(p, d, y, f)
  BY DEF Coloured
<1> HIDE DEF q, e
<1>4. /\ Weight(m, s) = 1 /\ Weight(m2, s) = 0
      /\ \A y \in N : Weight(m, y) \in {0, 1} /\ (y # s => Weight(m2, y) = Weight(m, y))
  BY DEF Weight
<1>5. /\ h[p] = h[c] + Weight(m, p) + 1 /\ h[p] = h[s] + Weight(m, p) + 0
      /\ h[c] \in Nat /\ h[p] \in Nat /\ h[s] \in Nat
  <2>1. Owed(p, d, p, d) = 1 /\ Owed(p, d, p, -d) = 0
    BY <1>1 DEF Owed, Sides
  <2> QED BY <1>1, <1>3, <2>1
<1>6. h[p] - 1 \in Nat /\ h[s] - 1 \in Nat /\ h[s] = h[c] + 1
  BY <1>1, <1>4, <1>5
<1> DEFINE up == [y \in N \cup {Nil} |-> IF y \in {p, s} THEN h[y] - 1 ELSE h[y]]
<1>7. /\ up \in [N \cup {Nil} -> Nat] /\ up[p] = h[p] - 1 /\ up[s] = h[s] - 1
      /\ \A y \in N \cup {Nil} : y \notin {p, s} => up[y] = h[y]
  BY <1>1, <1>3, <1>6
<1> HIDE DEF up
<1>8. ASSUME NEW y \in N, NEW f \in Sides
      PROVE  up[y] = up[t.link[y][f]] + Weight(m2, y) + Owed(q, e, y, f)
  <2>1. h[y] = h[t.link[y][f]] + Weight(m, y) + Owed(p, d, y, f) /\ h[t.link[y][f]] \in Nat
    BY <1>2, <1>3
  <2>2. CASE y = p
    <3>1. Owed(q, e, y, f) = 0
      BY <1>2, <2>2 DEF Owed
    <3>2. Weight(m2, y) = Weight(m, p) /\ Weight(m, p) \in {0, 1}
      BY <1>1, <1>2, <1>4, <2>2
    <3>3. up[t.link[y][f]] = h[c]
      <4>1. CASE f = d
        BY <1>1, <1>2, <1>7, <2>2, <4>1
      <4>2. CASE f = -d
        BY <1>1, <1>5, <1>6, <1>7, <2>2, <4>2
      <4> QED BY <1>1, <4>1, <4>2
    <3> QED BY <1>5, <1>7, <2>2, <3>1, <3>2, <3>3, SMTT(30)
  <2>3. CASE y = s
    <3>1. Owed(q, e, y, f) = 0 /\ Owed(p, d, y, f) = 0
      BY <1>2, <2>3 DEF Owed
    <3>2. t.link[y][f] \notin {p, s} /\ t.link[y][f] \in N \cup {Nil}
      BY <1>1, <1>2, <2>3
    <3>3. up[t.link[y][f]] = h[t.link[y][f]]
      BY <1>7, <3>2
    <3> QED BY <1>4, <1>7, <2>1, <2>3, <3>1, <3>3
  <2>4. CASE y \notin {p, s}
    <3>1. Owed(p, d, y, f) = 0 /\ up[y] = h[y] /\ Weight(m2, y) = Weight(m, y) /\ Weight(m, y) \in {0, 1}
      BY <1>4, <1>7, <2>4 DEF Owed
    <3>2. CASE t.link[y][f] = p
      <4>1. Owed(q, e, y, f) = 1
        BY <1>2, <3>2 DEF Owed
      <4> QED BY <1>5, <1>7, <2>1, <3>1, <3>2, <4>1
    <3>3. CASE t.link[y][f] # p
      <4>1. Owed(q, e, y, f) = 0
        BY <1>2, <3>3 DEF Owed
      <4>2. up[t.link[y][f]] = h[t.link[y][f]]
        BY <1>2, <1>7, <2>4, <3>3
      <4> QED BY <2>1, <3>1, <4>1, <4>2
    <3> QED BY <3>2, <3>3
  <2> QED BY <2>2, <2>3, <2>4
<1>9. up[Nil] = 0
  BY <1>1, <1>2, <1>3, <1>7
<1>10. Coloured(t, N, m2, up, q, e)
  BY <1>7, <1>8, <1>9 DEF Coloured
<1>11. ASSUME NEW y \in N, m2[y] = "red", t.link[y][0] \in N, m2[t.link[y][0]] = "red", t.link[y][0] # p
       PROVE  FALSE
  <2>1. y # s
    BY <1>2, <1>11
  <2>2. t.link[y][0] # s
    <3> SUFFICES ASSUME t.link[y][0] = s PROVE FALSE
      OBVIOUS
    <3>1. y # t.root
      BY <1>1, <1>2 DEF Shape, Woven
    <3>2. PICK f \in Sides : t.link[s][f] = y
      BY <1>1, <3>1 DEF Shape, Woven
    <3>3. m[y] = "black"
      BY <1>2, <3>2
    <3> QED BY <1>11, <2>1, <3>3
  <2>3. m[y] = "red" /\ m[t.link[y][0]] = "red"
    BY <1>11, <2>1, <2>2
  <2>4. t.link[y][0] = c
    BY <1>2, <1>11, <2>3 DEF RedRule
  <2> QED BY <1>2, <1>11, <2>3, <2>4
<1>12. RedRule(t, N, m2, Nil, p)
  BY <1>11 DEF RedRule
<1> QED BY <1>10, <1>12 DEF q, e

-----------------------------------------------------------------------------
(* The colours when a node is linked in, and when one goes. *)
LEMMA GraftedColours ==
  ASSUME NEW t, NEW z, NEW N, NEW sub, NEW p, NEW d, NEW k, NEW m, NEW h,
         Vacant(t, N, sub, p, d, k), Grafted(t, z, N, p, d, k),
         Coloured(t, N, m, h, Nil, 0), RedRule(t, N, m, Nil, Nil)
  PROVE  /\ \E under : Coloured(z, N \cup {k}, With(m, k, "red"), under, Nil, 0)
         /\ RedRule(z, N \cup {k}, With(m, k, "red"), k, Nil)
<1> DEFINE m2 == With(m, k, "red")
           up == [y \in N \cup {k, Nil} |-> IF y = k THEN 0 ELSE h[y]]
<1>1. /\ p \in N /\ k \in Nat \ {0} /\ k \notin N /\ t.link[p][d] = Nil /\ p # k /\ k # Nil /\ Nil \notin N
      /\ \A x \in N : t.link[x][0] \in N \cup {Nil}
      /\ \A x \in N : \A f \in Sides : t.link[x][f] \in N \cup {Nil}
  <2>1. Woven(t, N) /\ p \in N /\ k \in Nat \ {0} /\ k \notin N /\ t.link[p][d] = Nil
    BY DEF Vacant, Shape
  <2> QED BY <2>1 DEF Woven, Nil
<1>2. ASSUME NEW x \in N \cup {k} PROVE z.link[x][0] = IF x = k THEN p ELSE t.link[x][0]
  BY DEF Grafted
<1>3. ASSUME NEW x \in N \cup {k}, NEW f \in Sides
      PROVE  z.link[x][f] = IF x = p /\ f = d THEN k ELSE IF x = k THEN Nil ELSE t.link[x][f]
  BY <1>1 DEF Grafted
<1>4. /\ m \in [N -> {"red", "black"}] /\ h \in [N \cup {Nil} -> Nat] /\ h[Nil] = 0
      /\ \A y \in N : \A f \in Sides : h[y] = h[t.link[y][f]] + Weight(m, y) + Owed(Nil, 0, y, f)
  BY DEF Coloured
<1>5. m2 \in [N \cup {k} -> {"red", "black"}] /\ m2[k] = "red" /\ \A y \in N : m2[y] = m[y]
  BY <1>1, <1>4 DEF With
<1>6. /\ up \in [(N \cup {k}) \cup {Nil} -> Nat] /\ up[k] = 0 /\ up[Nil] = 0
      /\ \A y \in N \cup {Nil} : up[y] = h[y]
  <2>1. N \cup {k, Nil} = (N \cup {k}) \cup {Nil}
    OBVIOUS
  <2> QED BY <1>1, <1>4, <2>1
<1> HIDE DEF m2, up
<1>7. \A y \in N \cup {k} : \A f : Owed(Nil, 0, y, f) = 0
  BY <1>1 DEF Owed
<1>8. ASSUME NEW y \in N \cup {k}, NEW f \in Sides
      PROVE  up[y] = up[z.link[y][f]] + Weight(m2, y) + Owed(Nil, 0, y, f)
  <2>1. CASE y = k
    <3>1. z.link[y][f] = Nil /\ Weight(m2, y) = 0
      BY <1>1, <1>3, <1>5, <2>1 DEF Weight
    <3> QED BY <1>6, <1>7, <2>1, <3>1
  <2>2. CASE y # k
    <3>1. y \in N /\ up[y] = h[y] /\ Weight(m2, y) = Weight(m, y)
      BY <1>5, <1>6, <2>2 DEF Weight
    <3>2. up[z.link[y][f]] = h[t.link[y][f]]
      BY <1>1, <1>3, <1>4, <1>6, <2>2, <3>1
    <3> QED BY <1>4, <3>1, <3>2
  <2> QED BY <2>1, <2>2
<1>9. Coloured(z, N \cup {k}, m2, up, Nil, 0)
  BY <1>5, <1>6, <1>8 DEF Coloured
<1>10. ASSUME NEW y \in N \cup {k}, m2[y] = "red", z.link[y][0] \in N \cup {k}, m2[z.link[y][0]] = "red", y # k
       PROVE  FALSE
  <2>1. y \in N /\ z.link[y][0] = t.link[y][0] /\ t.link[y][0] \in N
    BY <1>1, <1>2, <1>10
  <2>2. m[y] = "red" /\ m[t.link[y][0]] = "red"
    BY <1>5, <1>10, <2>1
  <2> QED BY <1>1, <2>1, <2>2 DEF RedRule
<1>11. RedRule(z, N \cup {k}, m2, k, Nil)
  BY <1>10 DEF RedRule
<1> QED BY <1>9, <1>11 DEF m2

LEMMA SeveredColours ==
  ASSUME NEW t, NEW z, NEW N, NEW sub, NEW g, NEW s, NEW c, NEW q, NEW e, NEW m, NEW h,
         Severable(t, N, sub, g, s, c, q, e), Hung(t, z, q, e, c),
         Coloured(t, N, m, h, Nil, 0), RedRule(t, N, m, Nil, Nil),
         NEW M, NEW m2, M = N \ {g}, m2 = [y \in M |-> m[y]]
  PROVE  /\ \E under : IF m[g] = "red" THEN Coloured(z, M, m2, under, Nil, 0)
                       ELSE Coloured(z, M, m2, under, q, e)
         /\ RedRule(z, M, m2, c, Nil)
         /\ m[g] = "red" /\ c # Nil => m[c] = "black"
<1> DEFINE up == [y \in M \cup {Nil} |-> h[y]]
<1>1. /\ g \in N /\ c \in N \cup {Nil} /\ q \in N \cup {Nil} /\ c # g /\ q # g /\ (c # Nil => t.link[c][0] = g)
      /\ Nil \notin N
      /\ q # Nil => e \in Sides /\ t.link[q][e] = g
      /\ \A x \in N : \A f \in Sides : t.link[x][f] = g => x = q /\ f = e
      /\ \A f \in Sides : t.link[g][f] \in {c, Nil}
  BY SeverableIs
<1>2. /\ N \subseteq DOMAIN t.link /\ s \in Sides /\ c = t.link[g][s]
      /\ \A x \in N : \A f \in Sides : t.link[x][f] \in N \cup {Nil}
      /\ \A x \in N : t.link[x][0] \in N \cup {Nil}
      /\ \A x \in N : t.link[x][0] = g => \E f \in Sides : t.link[g][f] = x
  <2>1. Woven(t, N) /\ s \in Sides /\ c = t.link[g][s]
    BY DEF Severable, Shape
  <2> QED BY <1>1, <2>1 DEF Woven
<1>3. Sides \subseteq {-1, 0, 1} /\ 0 \notin Sides /\ 0 \in {-1, 0, 1}
  BY DEF Sides
<1>4. ASSUME NEW x \in M
      PROVE  /\ z.link[x][0] = IF x = c THEN q ELSE t.link[x][0]
             /\ \A f \in Sides : z.link[x][f] = IF t.link[x][f] = g THEN c ELSE t.link[x][f]
  <2>1. \A f \in {-1, 0, 1} : z.link[x][f] = IF q # Nil /\ x = q /\ f = e THEN c
                                             ELSE IF x = c /\ f = 0 THEN q ELSE t.link[x][f]
    BY <1>2 DEF Hung
  <2>2. z.link[x][0] = IF x = c THEN q ELSE t.link[x][0]
    BY <1>1, <1>3, <2>1
  <2>3. ASSUME NEW f \in Sides PROVE z.link[x][f] = IF t.link[x][f] = g THEN c ELSE t.link[x][f]
    <3>1. q # Nil /\ x = q /\ f = e <=> t.link[x][f] = g
      BY <1>1
    <3>2. z.link[x][f] = IF q # Nil /\ x = q /\ f = e THEN c ELSE t.link[x][f]
      BY <1>3, <2>1
    <3> QED BY <3>1, <3>2
  <2> QED BY <2>2, <2>3
<1>5. /\ m \in [N -> {"red", "black"}] /\ h \in [N \cup {Nil} -> Nat] /\ h[Nil] = 0
      /\ \A y \in N : \A f \in Sides : h[y] = h[t.link[y][f]] + Weight(m, y) + Owed(Nil, 0, y, f)
  BY DEF Coloured
<1>6. m2 \in [M -> {"red", "black"}] /\ (\A y \in M : m2[y] = m[y] /\ Weight(m2, y) = Weight(m, y))
  BY <1>5 DEF Weight
<1>7. up \in [M \cup {Nil} -> Nat] /\ up[Nil] = 0 /\ \A y \in M \cup {Nil} : up[y] = h[y]
  BY <1>5
<1>8. \A y \in N : \A f : Owed(Nil, 0, y, f) = 0
  BY <1>1 DEF Owed
<1>9. h[g] = h[c] + Weight(m, g) /\ h[c] \in Nat
  <2>1. h[g] = h[c] + Weight(m, g) + 0 /\ h[c] \in Nat
    BY <1>1, <1>2, <1>5, <1>8
  <2>2. Weight(m, g) \in Nat
    BY DEF Weight
  <2> QED BY <2>1, <2>2
<1> HIDE DEF up
<1>10. ASSUME NEW y \in M, NEW f \in Sides
       PROVE  up[y] = up[z.link[y][f]] + Weight(m2, y) + IF t.link[y][f] = g THEN Weight(m, g) ELSE 0
  <2>1. up[y] = h[t.link[y][f]] + Weight(m, y) + 0 /\ Weight(m, y) \in Nat /\ Weight(m, g) \in Nat /\ h[t.link[y][f]] \in Nat
    BY <1>2, <1>5, <1>7, <1>8 DEF Weight
  <2>2. CASE t.link[y][f] = g
    <3>1. up[z.link[y][f]] = h[c]
      BY <1>1, <1>4, <1>7, <2>2
    <3>2. Weight(m2, y) = Weight(m, y)
      BY <1>6
    <3>3. up[y] = h[g] + Weight(m, y) + 0
      BY <2>1, <2>2
    <3> QED BY <1>9, <2>1, <2>2, <3>1, <3>2, <3>3
  <2>3. CASE t.link[y][f] # g
    <3>1. up[z.link[y][f]] = h[t.link[y][f]]
      BY <1>2, <1>4, <1>7, <2>3
    <3> QED BY <1>6, <2>1, <2>3, <3>1
  <2> QED BY <2>2, <2>3
<1>11. m[g] = "red" => Coloured(z, M, m2, up, Nil, 0)
  <2> SUFFICES ASSUME m[g] = "red" PROVE Coloured(z, M, m2, up, Nil, 0)
    OBVIOUS
  <2>1. Weight(m, g) = 0
    BY DEF Weight
  <2>2. ASSUME NEW y \in M, NEW f \in Sides
        PROVE  up[y] = up[z.link[y][f]] + Weight(m2, y) + Owed(Nil, 0, y, f)
    BY <1>8, <1>10, <2>1
  <2> QED BY <1>6, <1>7, <2>2 DEF Coloured
<1>12. m[g] # "red" => Coloured(z, M, m2, up, q, e)
  <2> SUFFICES ASSUME m[g] # "red" PROVE Coloured(z, M, m2, up, q, e)
    OBVIOUS
  <2>1. Weight(m, g) = 1
    BY DEF Weight
  <2>2. ASSUME NEW y \in M, NEW f \in Sides
        PROVE  up[y] = up[z.link[y][f]] + Weight(m2, y) + Owed(q, e, y, f)
    <3>1. Owed(q, e, y, f) = IF t.link[y][f] = g THEN 1 ELSE 0
      BY <1>1 DEF Owed
    <3> QED BY <1>10, <2>1, <3>1
  <2> QED BY <1>6, <1>7, <2>2 DEF Coloured
<1>13. ASSUME NEW y \in M, m2[y] = "red", z.link[y][0] \in M, m2[z.link[y][0]] = "red", y # c
       PROVE  FALSE
  <2>1. z.link[y][0] = t.link[y][0]
    BY <1>4, <1>13
  <2>2. m[y] = "red" /\ m[t.link[y][0]] = "red" /\ t.link[y][0] \in N
    BY <1>6, <1>13, <2>1
  <2> QED BY <1>1, <2>2 DEF RedRule
<1>14. RedRule(z, M, m2, c, Nil)
  BY <1>13 DEF RedRule
<1>15. m[g] = "red" /\ c # Nil => m[c] = "black"
  BY <1>1, <1>5 DEF RedRule
<1> QED BY <1>11, <1>12, <1>14, <1>15

LEMMA RenamedColours ==
  ASSUME NEW t, NEW z, NEW M, NEW N, NEW sub, NEW k, NEW g, NEW m, NEW m2, NEW h, NEW x, NEW d, NEW a,
         Shape(t, M, sub), Renames(t, z, M, N, k, g), x \in M \cup {Nil}, a \in M \cup {Nil},
         Coloured(t, M, m, h, x, d), RedRule(t, M, m, a, Nil),
         m2 = [y \in N |-> m[Renamed(g, k, y)]]
  PROVE  /\ \E under : Coloured(z, N, m2, under, Renamed(k, g, x), d)
         /\ RedRule(z, N, m2, Renamed(k, g, a), Nil)
<1> DEFINE new(v) == Renamed(k, g, v)
           old(y) == Renamed(g, k, y)
           up == [y \in N \cup {Nil} |-> h[old(y)]]
<1>1. /\ Nil \notin M
      /\ \A v \in M : \A f \in Sides : t.link[v][f] \in M \cup {Nil}
      /\ \A v \in M : t.link[v][0] \in M \cup {Nil}
  BY DEF Shape, Woven, Nil
<1>2. /\ new(Nil) = Nil /\ old(Nil) = Nil
      /\ \A v \in M : new(v) \in N /\ old(new(v)) = v /\ new(v) # Nil
      /\ \A y \in N : old(y) \in M /\ new(old(y)) = y /\ y # Nil
  BY <1>1, RenamedIs
<1>3. \A v \in M : \A e \in {-1, 0, 1} : z.link[new(v)][e] = new(t.link[v][e])
  BY DEF Renames
<1>4. /\ m \in [M -> {"red", "black"}] /\ h \in [M \cup {Nil} -> Nat] /\ h[Nil] = 0
      /\ \A v \in M : \A f \in Sides : h[v] = h[t.link[v][f]] + Weight(m, v) + Owed(x, d, v, f)
  BY DEF Coloured
<1>5. Sides \subseteq {-1, 0, 1} /\ 0 \in {-1, 0, 1}
  BY DEF Sides
<1>m. m2 = [y \in N |-> m[old(y)]]
  OBVIOUS
<1> HIDE DEF new, old
<1>6. m2 \in [N -> {"red", "black"}] /\ \A v \in M : m2[new(v)] = m[v]
  BY <1>m, <1>2, <1>4
<1>7. up \in [N \cup {Nil} -> Nat] /\ up[Nil] = 0 /\ \A v \in M \cup {Nil} : up[new(v)] = h[v]
  BY <1>2, <1>4
<1> HIDE DEF up
<1>8. ASSUME NEW y \in N, NEW f \in Sides
      PROVE  up[y] = up[z.link[y][f]] + Weight(m2, y) + Owed(new(x), d, y, f)
  <2> DEFINE v == old(y)
  <2>1. v \in M /\ y = new(v)
    BY <1>2
  <2> HIDE DEF v
  <2>2. z.link[y][f] = new(t.link[v][f])
    BY <1>3, <1>5, <2>1
  <2>3. up[z.link[y][f]] = h[t.link[v][f]] /\ up[y] = h[v]
    BY <1>1, <1>7, <2>1, <2>2
  <2>4. Weight(m2, y) = Weight(m, v)
    BY <1>6, <2>1 DEF Weight
  <2>5. new(x) = y <=> x = v
    BY <1>2, <2>1
  <2>6. Owed(new(x), d, y, f) = Owed(x, d, v, f)
    BY <2>5 DEF Owed
  <2> QED BY <1>4, <2>1, <2>3, <2>4, <2>6
<1>9. Coloured(z, N, m2, up, new(x), d)
  BY <1>6, <1>7, <1>8 DEF Coloured
<1>10. ASSUME NEW y \in N, m2[y] = "red", z.link[y][0] \in N, m2[z.link[y][0]] = "red"
       PROVE  y = new(a)
  <2> DEFINE v == old(y)
  <2>1. v \in M /\ y = new(v)
    BY <1>2
  <2> HIDE DEF v
  <2>2. z.link[y][0] = new(t.link[v][0])
    BY <1>3, <1>5, <2>1
  <2>3. t.link[v][0] \in M
    BY <1>1, <1>2, <1>10, <2>1, <2>2
  <2>4. m[v] = "red" /\ m[t.link[v][0]] = "red"
    BY <1>6, <1>10, <2>1, <2>2, <2>3
  <2>5. v = a
    BY <1>1, <2>1, <2>3, <2>4 DEF RedRule
  <2> QED BY <2>1, <2>5
<1>11. RedRule(z, N, m2, new(a), Nil)
  BY <1>10 DEF RedRule
<1> QED BY <1>9, <1>11 DEF new

-----------------------------------------------------------------------------
(* The check of the invariants: what it counts on the way up is what h      *)
(* counts on the way down.                                                 *)
DepthWalk(f) ==
    f = [n \in Nodes \cup {Nil} |-> IF n = Nil THEN 0 ELSE f[Parent(n)] + (IF Red(n) THEN 0 ELSE 1)]

LEMMA BlackDepthIs ==
  ASSUME NEW sub, NEW h, Shape(tree, Nodes, sub), Coloured(tree, Nodes, mark, h, Nil, 0), NEW n \in Nodes
  PROVE  BlackDepth[n] = (h[tree.root] - h[n]) + Weight(mark, n)
<1> DEFINE depth == CHOOSE f : DepthWalk(f)
           r == tree.root
           D == [v \in Nodes \cup {Nil} |-> IF v = Nil THEN 0 ELSE (h[r] - h[v]) + Weight(mark, v)]
<1>1. /\ Nil \notin Nodes /\ r \in Nodes /\ Parent(r) = Nil
      /\ \A v \in Nodes : v # r => Parent(v) \in Nodes /\ \E f \in Sides : tree.link[Parent(v)][f] = v
  BY DEF Shape, Woven, Parent, Link, Nil
<1>2. /\ h \in [Nodes \cup {Nil} -> Nat]
      /\ \A v \in Nodes : \A f \in Sides : h[v] = h[tree.link[v][f]] + Weight(mark, v) + Owed(Nil, 0, v, f)
  BY DEF Coloured
<1>3. \A v \in Nodes : /\ (IF Red(v) THEN 0 ELSE 1) = Weight(mark, v) /\ Weight(mark, v) \in Nat
                       /\ \A f : Owed(Nil, 0, v, f) = 0
  BY <1>1 DEF Red, Weight, Owed
<1>4. ASSUME NEW v \in Nodes, v # r PROVE h[Parent(v)] = h[v] + Weight(mark, Parent(v))
  <2>1. PICK f \in Sides : tree.link[Parent(v)][f] = v
    BY <1>1, <1>4
  <2>2. h[Parent(v)] = h[v] + Weight(mark, Parent(v)) + 0
    BY <1>1, <1>2, <1>3, <1>4, <2>1
  <2>3. h[v] \in Nat /\ Weight(mark, Parent(v)) \in Nat
    BY <1>1, <1>2, <1>3, <1>4
  <2> QED BY <2>2, <2>3
<1>5. \A v \in Nodes : D[v] = (h[r] - h[v]) + Weight(mark, v)
  BY <1>1
<1>6. D[Nil] = 0 /\ D = [v \in Nodes \cup {Nil} |-> D[v]]
  OBVIOUS
<1> HIDE DEF D
<1>7. ASSUME NEW v \in Nodes PROVE D[v] = D[Parent(v)] + Weight(mark, v)
  <2>1. h[v] \in Nat /\ h[r] \in Nat /\ Weight(mark, v) \in Nat
    BY <1>1, <1>2, <1>3
  <2>2. CASE v = r
    BY <1>1, <1>5, <1>6, <2>1, <2>2
  <2>3. CASE v # r
    <3>1. Parent(v) \in Nodes
      BY <1>1, <2>3
    <3>2. h[Parent(v)] \in Nat /\ Weight(mark, Parent(v)) \in Nat
      BY <1>2, <1>3, <3>1
    <3>3. D[Parent(v)] = (h[r] - h[Parent(v)]) + Weight(mark, Parent(v)) /\ D[v] = (h[r] - h[v]) + Weight(mark, v)
      BY <1>5, <3>1
    <3> QED BY <1>4, <2>1, <2>3, <3>2, <3>3
  <2> QED BY <2>2, <2>3
<1>8. DepthWalk(D)
  <2>1. \A v \in Nodes \cup {Nil} : D[v] = IF v = Nil THEN 0 ELSE D[Parent(v)] + (IF Red(v) THEN 0 ELSE 1)
    BY <1>3, <1>6, <1>7
  <2> QED BY <1>6, <2>1 DEF DepthWalk
<1>9. DepthWalk(depth)
  BY <1>8
<1>10. BlackDepth = depth
  BY DEF BlackDepth, DepthWalk
<1> HIDE DEF depth
<1>11. depth[Nil] = 0 /\ \A v \in Nodes : depth[v] = depth[Parent(v)] + Weight(mark, v)
  BY <1>1, <1>3, <1>9 DEF DepthWalk
<1> DEFINE rank == [v \in Nodes |-> Cardinality(Nodes) - Cardinality(sub[v])]
           Bad == {v \in Nodes : depth[v] # D[v]}
<1>12. \A v \in Nodes : /\ Cardinality(sub[v]) \in Nat /\ Cardinality(Nodes) \in Nat
                        /\ Cardinality(sub[v]) <= Cardinality(Nodes)
  BY SubtreeSizes
<1>13. \A v \in Nodes : rank[v] \in Nat
  BY <1>12
<1>14. Bad = {}
  <2> SUFFICES ASSUME Bad # {} PROVE FALSE
    OBVIOUS
  <2>1. PICK v \in Bad : \A y \in Bad : rank[v] <= rank[y]
    <3> HIDE DEF rank, Bad
    <3> QED BY <1>13, LeastRank DEF Bad
  <2>2. v \in Nodes /\ depth[v] # D[v]
    OBVIOUS
  <2>3. v # r
    <3>1. D[r] = D[Parent(r)] + Weight(mark, r) /\ depth[r] = depth[Parent(r)] + Weight(mark, r)
      BY <1>1, <1>7, <1>11
    <3>2. D[r] = depth[r]
      BY <1>1, <1>6, <1>11, <3>1
    <3> QED BY <2>2, <3>2
  <2> DEFINE p == Parent(v)
  <2>4. p \in Nodes /\ Cardinality(sub[v]) < Cardinality(sub[p])
    <3>1. p \in Nodes /\ \E f \in Sides : tree.link[p][f] = v
      BY <1>1, <2>2, <2>3
    <3>2. v # Nil
      BY <1>1, <2>2
    <3> QED BY <3>1, <3>2, SubtreeSizes
  <2>5. rank[p] < rank[v] /\ rank[p] \in Nat /\ rank[v] \in Nat
    BY <1>12, <1>13, <2>2, <2>4
  <2>6. p \in Bad
    BY <1>7, <1>11, <2>2, <2>4
  <2> HIDE DEF rank, Bad
  <2> QED BY <2>1, <2>5, <2>6
<1>15. depth[n] = D[n]
  BY <1>14
<1> QED BY <1>5, <1>10, <1>15

LEMMA ColouredIsRedBlack ==
  ASSUME NEW sub, NEW h, Shape(tree, Nodes, sub), Coloured(tree, Nodes, mark, h, Nil, 0),
         RedRule(tree, Nodes, mark, Nil, Nil), ~Red(tree.root)
  PROVE  RedBlack
<1>1. Nil \notin Nodes /\ \A n \in Nodes : Parent(n) \in Nodes \cup {Nil}
  BY DEF Shape, Woven, Parent, Link, Nil
<1>2. ASSUME NEW n \in Nodes, Red(n) PROVE ~Red(Parent(n))
  BY <1>1, <1>2 DEF RedRule, Red, Parent, Link
<1>3. ASSUME NEW n \in Nodes, Nil \in {Link(n, -1), Link(n, 1)} PROVE BlackDepth[n] = h[tree.root]
  <2>1. PICK f \in Sides : tree.link[n][f] = Nil
    BY <1>3 DEF Link, Sides
  <2>2. Owed(Nil, 0, n, f) = 0 /\ Weight(mark, n) \in Nat
    BY <1>1 DEF Owed, Weight
  <2>3. h[n] = 0 + Weight(mark, n) + 0
    BY <2>1, <2>2 DEF Coloured
  <2>4. tree.root \in Nodes
    BY DEF Shape, Woven
  <2>5. h[tree.root] \in Nat
    BY <2>4 DEF Coloured
  <2>6. BlackDepth[n] = (h[tree.root] - h[n]) + Weight(mark, n)
    BY BlackDepthIs
  <2> QED BY <2>2, <2>3, <2>5, <2>6
<1> QED BY <1>2, <1>3 DEF RedBlack

-----------------------------------------------------------------------------
(* What holds of a red-black tree between two rounds of its loops. *)
WellFormed(t) == Typed(t) /\ \E sub : Shape(t, DOMAIN t.link, sub)

BlackRoot(t, m) == t.root # Nil => m[t.root] # "red"

Settled(t, N, m) ==
    (\E h : Coloured(t, N, m, h, Nil, 0)) /\ RedRule(t, N, m, Nil, Nil) /\ BlackRoot(t, m)

(* The loop of insert is at the red node n. *)
Inserting(t, N, m, n) ==
    /\ n \in N /\ m[n] = "red"
    /\ (\E h : Coloured(t, N, m, h, Nil, 0)) /\ RedRule(t, N, m, n, Nil)
    /\ t.root # n => BlackRoot(t, m)

(* The loop of erase is at c, the child of p on side d. *)
Lacking(t, N, m, c, p, d) ==
    /\ c \in N \cup {Nil} /\ p \in N \cup {Nil}
    /\ IF p = Nil THEN c = t.root ELSE d \in Sides /\ t.link[p][d] = c
    /\ (\E h : Coloured(t, N, m, h, p, d)) /\ RedRule(t, N, m, Nil, c) /\ BlackRoot(t, m)

Painted(t, N, m, f) ==
    \/ f = NoFix /\ Settled(t, N, m)
    \/ \E n \in N : f = [loop |-> "insert", node |-> n] /\ Inserting(t, N, m, n)
    \/ \E c, p \in N \cup {Nil} : \E d \in {-1, 0, 1} :
         f = [loop |-> "erase", child |-> c, parent |-> p, dir |-> d] /\ Lacking(t, N, m, c, p, d)

LEMMA LoopIs ==
  ASSUME NEW t, NEW N, NEW m, NEW f, Painted(t, N, m, f)
  PROVE  /\ f = NoFix => Settled(t, N, m)
         /\ f.loop = "insert" => f = [loop |-> "insert", node |-> f.node] /\ Inserting(t, N, m, f.node)
         /\ f.loop = "erase" =>
              /\ f = [loop |-> "erase", child |-> f.child, parent |-> f.parent, dir |-> f.dir]
              /\ Lacking(t, N, m, f.child, f.parent, f.dir) /\ f.dir \in {-1, 0, 1}
<1>1. CASE f = NoFix /\ Settled(t, N, m)
  BY <1>1 DEF NoFix
<1>2. ASSUME NEW n \in N, f = [loop |-> "insert", node |-> n] /\ Inserting(t, N, m, n)
      PROVE  /\ f # NoFix /\ f.loop = "insert" /\ f.node = n
  <2>1. f.loop = "insert" /\ f.node = n
    BY <1>2
  <2>2. NoFix.loop = "none"
    BY DEF NoFix
  <2> QED BY <2>1, <2>2
<1>3. ASSUME NEW c, NEW p, NEW d,
             f = [loop |-> "erase", child |-> c, parent |-> p, dir |-> d] /\ Lacking(t, N, m, c, p, d)
      PROVE  /\ f # NoFix /\ f.loop = "erase" /\ f.child = c /\ f.parent = p /\ f.dir = d
  <2>1. f.loop = "erase" /\ f.child = c /\ f.parent = p /\ f.dir = d
    BY <1>3
  <2>2. NoFix.loop = "none"
    BY DEF NoFix
  <2> QED BY <2>1, <2>2
<1> QED BY <1>1, <1>2, <1>3 DEF Painted

(* The last rotation of insert: the red c over the red w, on the same side. *)
LEMMA OuterTurn ==
  ASSUME NEW t, NEW N, NEW sub, NEW m, NEW m2, NEW h, NEW g \in N, NEW d \in Sides, NEW c \in N, NEW w \in N, NEW u,
         Shape(t, N, sub), Typed(t), c = t.link[g][d], w = t.link[c][d], u = t.link[g][-d],
         Coloured(t, N, m, h, Nil, 0), RedRule(t, N, m, w, Nil), BlackRoot(t, m),
         m[g] = "black", m[c] = "red", m[w] = "red", u # Nil => m[u] = "black", SwapMarks(m, m2, N, g, c)
  PROVE  Inserting(Rotated(t, g, d), N, m2, w)
<1> DEFINE i == t.link[c][-d]
           q == t.link[g][0]
           z == Rotated(t, g, d)
<1>0. c # Nil /\ Nil \notin N
  BY DEF Shape, Woven, Nil
<1>1. Spinning(t, N, sub, g, d, c, i, u, w, q)
  BY <1>0 DEF Spinning
<1> HIDE DEF i, q
<1>2. i # Nil => i \in N /\ t.link[i][0] = c
  BY <1>1, SpinningIs, SMTT(30)
<1>3. (i # w \/ i = Nil) /\ w \notin {g, c}
  BY <1>1, SpinningIs, SMTT(30)
<1>4. Spun(t, z, N, g, d, c, i, q)
  BY <1>1, RotatedSpins
<1>5. i # Nil => m[i] = "black"
  <2> SUFFICES ASSUME i # Nil, m[i] # "black" PROVE FALSE
    OBVIOUS
  <2>1. i \in N /\ t.link[i][0] = c
    BY <1>2
  <2>2. m[i] = "red"
    BY <2>1 DEF Coloured
  <2> QED BY <1>0, <1>3, <2>1, <2>2 DEF RedRule
<1> HIDE DEF z
<1>6. /\ \E under : Coloured(z, N, m2, under, Nil, 0)
      /\ RedRule(z, N, m2, w, Nil)
      /\ m2[z.root] = "red" => m[t.root] = "red" /\ z.root = t.root
  <2>1. Nil \notin {g, c}
    BY <1>0
  <2> QED BY <1>1, <1>4, <1>5, <2>1, SwapColours, SMTT(30)
<1>8. m2[w] = "red"
  BY <1>3 DEF SwapMarks
<1>9. BlackRoot(z, m2)
  <2>1. t.root \in N /\ t.root # Nil
    BY <1>0 DEF Shape, Woven
  <2> QED BY <1>6, <2>1 DEF BlackRoot
<1> QED BY <1>6, <1>8, <1>9 DEF Inserting, z

(* Where insert's loop is when the node's parent is red. *)
LEMMA RedOverRed ==
  ASSUME NEW sub, NEW n, Shape(tree, Nodes, sub), Inserting(tree, Nodes, mark, n), Red(Parent(n))
  PROVE  LET p == Parent(n)
             g == Parent(p)
             d == DirOf(tree, n)
             pd == DirOf(tree, p) IN
         /\ n \in Nodes /\ p \in Nodes /\ g \in Nodes /\ d \in Sides /\ pd \in Sides
         /\ tree.link[p][d] = n /\ tree.link[g][pd] = p /\ tree.link[n][0] = p /\ tree.link[p][0] = g
         /\ p # n /\ p # g /\ g # n /\ mark[n] = "red" /\ mark[p] = "red" /\ mark[g] = "black"
         /\ BlackRoot(tree, mark) /\ Uncle(n) = tree.link[g][-pd] /\ Uncle(n) \in Nodes \cup {Nil}
         /\ Uncle(n) \notin {n, p, g} /\ Nil \notin Nodes /\ (d = pd \/ d = -pd) /\ -d \in Sides /\ -pd \in Sides
         /\ RedRule(tree, Nodes, mark, n, Nil) /\ mark \in [Nodes -> {"red", "black"}]
<1> DEFINE p == Parent(n)
           g == Parent(p)
           d == DirOf(tree, n)
           pd == DirOf(tree, p)
           u == Uncle(n)
<1>1. /\ n \in Nodes /\ mark[n] = "red" /\ RedRule(tree, Nodes, mark, n, Nil) /\ (tree.root # n => BlackRoot(tree, mark))
      /\ mark \in [Nodes -> {"red", "black"}]
  BY DEF Inserting, Coloured
<1>2. p = tree.link[n][0] /\ g = tree.link[p][0] /\ u = tree.link[g][-pd] /\ p # Nil /\ mark[p] = "red"
      /\ Nil \notin Nodes
  BY DEF Parent, Link, Uncle, Red, Shape, Woven, Nil
<1>3. p \in Nodes /\ n # tree.root /\ d \in Sides /\ tree.link[p][d] = n /\ p # n
  BY <1>1, <1>2, DirIs
<1>4. BlackRoot(tree, mark) /\ p # tree.root
  BY <1>1, <1>2, <1>3 DEF BlackRoot
<1>5. g \in Nodes /\ pd \in Sides /\ tree.link[g][pd] = p /\ g # p
  BY <1>2, <1>3, <1>4, DirIs
<1>6. mark[g] = "black"
  BY <1>1, <1>2, <1>3, <1>5 DEF RedRule
<1>7. (d = pd \/ d = -pd) /\ -d \in Sides /\ -pd \in Sides
  BY <1>3, <1>5 DEF Sides
<1>8. Family(tree, Nodes, sub, g, pd, p, u)
  BY <1>2, <1>5 DEF Family
<1> HIDE DEF u, pd, d, g, p
<1>9. u \in Nodes \cup {Nil} /\ u # g /\ u # p /\ n # g /\ u # n
  <2>1. /\ u \in Nodes \cup {Nil} /\ \A v \in sub[p] : v \notin sub[u]
        /\ g \notin sub[p] /\ g \notin sub[u]
    BY <1>8, FamilyIs
  <2>2. p \in sub[p] /\ g \in sub[g] /\ (u \in Nodes => u \in sub[u]) /\ n \in sub[n]
    BY <1>1, <1>3, <1>5, InItself
  <2>3. sub[n] \subseteq sub[p]
    BY <1>3, ChildIs
  <2> QED BY <1>1, <1>2, <1>3, <1>5, <2>1, <2>2, <2>3
<1> QED BY <1>1, <1>2, <1>3, <1>4, <1>5, <1>6, <1>7, <1>9 DEF u, pd, d, g, p

-----------------------------------------------------------------------------
(* The rounds of insert. *)
LEMMA InsertFixedKeeps ==
  ASSUME WellFormed(tree), Painted(tree, Nodes, mark, fix), InsertFixed
  PROVE  WellFormed(tree') /\ Painted(tree', Nodes', mark', fix') /\ Nodes' = Nodes
<1> DEFINE n == fix.node
           m2 == Blackened(mark, tree.root)
<1>1. /\ fix.loop = "insert" /\ ~Red(Parent(n)) /\ mark' = m2 /\ fix' = NoFix /\ tree' = tree
  BY DEF InsertFixed
<1>2. Inserting(tree, Nodes, mark, n)
  BY <1>1, LoopIs
<1>3. PICK sub : Shape(tree, Nodes, sub)
  BY DEF WellFormed, Nodes
<1>4. PICK h : Coloured(tree, Nodes, mark, h, Nil, 0)
  BY <1>2 DEF Inserting
<1> HIDE DEF n
<1>5. RedRule(tree, Nodes, mark, Nil, Nil)
  <2>1. RedRule(tree, Nodes, mark, n, Nil) /\ Nil \notin Nodes
    BY <1>2, <1>3 DEF Inserting, Shape, Woven, Nil
  <2> QED BY <1>1, <2>1 DEF RedRule, Red, Parent, Link
<1>6. /\ \E under : Coloured(tree, Nodes, m2, under, Nil, 0)
      /\ RedRule(tree, Nodes, m2, Nil, Nil)
      /\ tree.root # Nil => m2[tree.root] = "black"
  BY <1>3, <1>4, <1>5, BlackenRoot
<1>7. Settled(tree, Nodes, m2)
  BY <1>6 DEF Settled, BlackRoot
<1>8. Nodes' = Nodes
  BY <1>1 DEF Nodes
<1> HIDE DEF m2
<1> QED BY <1>1, <1>7, <1>8 DEF Painted

LEMMA RecolourKeeps ==
  ASSUME WellFormed(tree), Painted(tree, Nodes, mark, fix), Recolour
  PROVE  WellFormed(tree') /\ Painted(tree', Nodes', mark', fix') /\ Nodes' = Nodes
<1> DEFINE n == fix.node
           p == Parent(n)
           g == Parent(p)
           d == DirOf(tree, p)
           u == Uncle(n)
<1>1. /\ fix.loop = "insert" /\ Red(p) /\ Red(u)
      /\ mark' = [mark EXCEPT ![p] = "black", ![u] = "black", ![g] = "red"]
      /\ fix' = [fix EXCEPT !.node = g] /\ tree' = tree
  BY DEF Recolour
<1>2. Inserting(tree, Nodes, mark, n) /\ fix = [loop |-> "insert", node |-> n]
  BY <1>1, LoopIs
<1>3. PICK sub : Shape(tree, Nodes, sub)
  BY DEF WellFormed, Nodes
<1>4. PICK h : Coloured(tree, Nodes, mark, h, Nil, 0)
  BY <1>2 DEF Inserting
<1> HIDE DEF n
<1>5. /\ n \in Nodes /\ p \in Nodes /\ g \in Nodes /\ d \in Sides
      /\ tree.link[n][0] = p /\ tree.link[p][0] = g /\ tree.link[g][d] = p /\ tree.link[g][-d] = u
      /\ p # g /\ u \in Nodes \cup {Nil} /\ u \notin {p, g} /\ mark[n] = "red" /\ mark[p] = "red"
      /\ BlackRoot(tree, mark) /\ RedRule(tree, Nodes, mark, n, Nil)
      /\ mark \in [Nodes -> {"red", "black"}]
  BY <1>1, <1>2, <1>3, RedOverRed
<1> HIDE DEF p, g, d, u
<1>6. u \in Nodes /\ mark[u] = "red"
  BY <1>1, <1>5 DEF Red
<1>7. Uncles(tree, Nodes, sub, n, p, g, d, u)
  BY <1>3, <1>5, <1>6 DEF Uncles
<1>8. UncleMarks(mark, mark', Nodes, p, u, g)
  BY <1>1, <1>5, <1>6 DEF UncleMarks
<1>9. /\ \E under : Coloured(tree, Nodes, mark', under, Nil, 0)
      /\ RedRule(tree, Nodes, mark', g, Nil)
  BY <1>4, <1>5, <1>6, <1>7, <1>8, UncleTurnsBlack
<1>10. mark'[g] = "red" /\ (tree.root # g => BlackRoot(tree, mark'))
  BY <1>3, <1>5, <1>8 DEF UncleMarks, BlackRoot, Shape, Woven
<1>11. Inserting(tree, Nodes, mark', g)
  BY <1>5, <1>9, <1>10 DEF Inserting
<1>12. fix' = [loop |-> "insert", node |-> g]
  BY <1>1, <1>2
<1>13. Nodes' = Nodes
  BY <1>1 DEF Nodes
<1>14. Painted(tree, Nodes, mark', fix')
  BY <1>5, <1>11, <1>12 DEF Painted
<1> QED BY <1>1, <1>13, <1>14

(* What a rotation of a well formed tree leaves. *)
LEMMA RotatedIs ==
  ASSUME NEW t, NEW N, NEW sub, Shape(t, N, sub), Typed(t), DOMAIN t.link = N, NEW n \in N, NEW d \in Sides
  PROVE  /\ WellFormed(Rotated(t, n, d)) /\ DOMAIN Rotated(t, n, d).link = N
         /\ Typed(Rotated(t, n, d)) /\ \E under : Shape(Rotated(t, n, d), N, under)
BY RotatedShape DEF WellFormed

LEMMA RestructureKeeps ==
  ASSUME WellFormed(tree), Painted(tree, Nodes, mark, fix), Restructure
  PROVE  WellFormed(tree') /\ Painted(tree', Nodes', mark', fix') /\ Nodes' = Nodes
<1> DEFINE n == fix.node
           p == Parent(n)
           g == Parent(p)
           d == DirOf(tree, n)
           pd == DirOf(tree, p)
           u == Uncle(n)
           inner == d # pd
           outward == IF inner THEN Rotated(tree, p, d) ELSE tree
           c == IF inner THEN n ELSE p
           w == IF inner THEN p ELSE n
<1>1. /\ fix.loop = "insert" /\ Red(p) /\ ~Red(u)
      /\ tree' = Rotated(outward, g, pd)
      /\ mark' = [mark EXCEPT ![c] = "black", ![g] = "red"]
      /\ fix' = [fix EXCEPT !.node = w]
  BY DEF Restructure
<1>2. Inserting(tree, Nodes, mark, n) /\ fix = [loop |-> "insert", node |-> n]
  BY <1>1, LoopIs
<1>3. PICK sub : Shape(tree, Nodes, sub)
  BY DEF WellFormed, Nodes
<1>4. PICK h : Coloured(tree, Nodes, mark, h, Nil, 0)
  BY <1>2 DEF Inserting
<1> HIDE DEF n
<1>5. /\ n \in Nodes /\ p \in Nodes /\ g \in Nodes /\ d \in Sides /\ pd \in Sides
      /\ tree.link[p][d] = n /\ tree.link[g][pd] = p /\ tree.link[n][0] = p /\ tree.link[p][0] = g
      /\ p # n /\ p # g /\ g # n /\ mark[n] = "red" /\ mark[p] = "red" /\ mark[g] = "black"
      /\ BlackRoot(tree, mark) /\ u = tree.link[g][-pd] /\ u \in Nodes \cup {Nil}
      /\ u \notin {n, p, g} /\ Nil \notin Nodes /\ (d = pd \/ d = -pd) /\ -d \in Sides /\ -pd \in Sides
      /\ RedRule(tree, Nodes, mark, n, Nil) /\ mark \in [Nodes -> {"red", "black"}]
  BY <1>1, <1>2, <1>3, RedOverRed
<1> HIDE DEF p, g, d, pd, u, outward
<1>6. u # Nil => mark[u] = "black"
  BY <1>1, <1>5 DEF Red
<1>7. Typed(tree) /\ DOMAIN tree.link = Nodes
  BY DEF WellFormed, Nodes
<1>8. /\ c \in Nodes /\ w \in Nodes /\ c # g /\ mark[c] = "red" /\ mark[w] = "red"
  BY <1>5
<1>9. SwapMarks(mark, mark', Nodes, g, c)
  <2> HIDE DEF c
  <2> QED BY <1>1, <1>5, <1>8 DEF SwapMarks
<1>10. fix' = [loop |-> "insert", node |-> w]
  <2> HIDE DEF w
  <2> QED BY <1>1, <1>2
<1>11. /\ Typed(outward) /\ DOMAIN outward.link = Nodes /\ \E under : Shape(outward, Nodes, under)
       /\ Coloured(outward, Nodes, mark, h, Nil, 0) /\ RedRule(outward, Nodes, mark, w, Nil)
       /\ BlackRoot(outward, mark)
       /\ c = outward.link[g][pd] /\ w = outward.link[c][pd] /\ u = outward.link[g][-pd]
  <2>1. CASE ~inner
    <3>1. outward = tree /\ c = p /\ w = n /\ d = pd
      BY <2>1 DEF outward
    <3> HIDE DEF c, w
    <3> QED BY <1>3, <1>4, <1>5, <1>7, <3>1
  <2>2. CASE inner
    <3> DEFINE i == tree.link[n][-d]
               o == tree.link[p][-d]
               e == tree.link[n][d]
    <3>1. outward = Rotated(tree, p, d) /\ c = n /\ w = p /\ pd = -d
      <4>1. -(-pd) = pd
        BY <1>5 DEF Sides
      <4> QED BY <1>5, <2>2, <4>1 DEF outward
    <3> HIDE DEF c, w, inner
    <3>2. Spinning(tree, Nodes, sub, p, d, n, i, o, e, g)
      BY <1>3, <1>5, <1>7 DEF Spinning
    <3> HIDE DEF i, o, e
    <3>3. Spun(tree, outward, Nodes, p, d, n, i, g)
      BY <3>1, <3>2, RotatedSpins
    <3>4. Coloured(outward, Nodes, mark, h, Nil, 0) /\ RedRule(outward, Nodes, mark, p, Nil)
      BY <1>4, <1>5, <3>2, <3>3, RedTurn
    <3>5. /\ \A f \in Sides : /\ tree.link[g][f] = p => outward.link[g][f] = n
                              /\ tree.link[g][f] # p => outward.link[g][f] = tree.link[g][f]
          /\ outward.link[n][-d] = p
          /\ outward.root = IF g = Nil THEN n ELSE tree.root
          /\ g # Nil => tree.root \notin {p, n}
      <4>1. g \notin {p, n}
        BY <1>5
      <4> QED BY <1>5, <3>2, <3>3, <4>1, SpunLinks
    <3>6. outward.link[g][pd] = n /\ outward.link[n][pd] = p /\ outward.link[g][-pd] = u
      BY <1>5, <3>1, <3>5
    <3>7. BlackRoot(outward, mark)
      BY <1>5, <3>5 DEF BlackRoot
    <3>8. Typed(outward) /\ DOMAIN outward.link = Nodes /\ \E under : Shape(outward, Nodes, under)
      BY <1>3, <1>5, <1>7, <3>1, RotatedIs
    <3> QED BY <3>1, <3>4, <3>6, <3>7, <3>8
  <2> QED BY <2>1, <2>2
<1> HIDE DEF c, w, inner
<1>12. PICK under : Shape(outward, Nodes, under)
  BY <1>11
<1>13. Inserting(tree', Nodes, mark', w)
  <2>1. /\ g \in Nodes /\ pd \in Sides /\ c \in Nodes /\ w \in Nodes /\ Typed(outward)
        /\ c = outward.link[g][pd] /\ w = outward.link[c][pd] /\ u = outward.link[g][-pd]
        /\ Coloured(outward, Nodes, mark, h, Nil, 0) /\ RedRule(outward, Nodes, mark, w, Nil)
        /\ BlackRoot(outward, mark)
        /\ mark[g] = "black" /\ mark[c] = "red" /\ mark[w] = "red" /\ (u # Nil => mark[u] = "black")
    BY <1>5, <1>6, <1>8, <1>11
  <2>2. Inserting(Rotated(outward, g, pd), Nodes, mark', w)
    BY <1>9, <1>12, <2>1, OuterTurn, ZenonT(60)
  <2> QED BY <1>1, <2>2
<1>14. WellFormed(tree') /\ DOMAIN tree'.link = Nodes
  BY <1>1, <1>5, <1>11, <1>12, RotatedIs
<1>15. Nodes' = Nodes
  BY <1>14 DEF Nodes
<1>16. Painted(tree', Nodes, mark', fix')
  BY <1>8, <1>10, <1>13 DEF Painted
<1> QED BY <1>14, <1>15, <1>16

-----------------------------------------------------------------------------
(* The rounds of erase. *)
LEMMA EraseFixedKeeps ==
  ASSUME WellFormed(tree), Painted(tree, Nodes, mark, fix), EraseFixed
  PROVE  WellFormed(tree') /\ Painted(tree', Nodes', mark', fix') /\ Nodes' = Nodes
<1> DEFINE c == fix.child
           p == fix.parent
           d == fix.dir
           r == tree.root
<1>1. /\ fix.loop = "erase" /\ (p = Nil \/ Red(c)) /\ mark' = Blackened(Blackened(mark, c), r)
      /\ fix' = NoFix /\ tree' = tree
  BY DEF EraseFixed
<1>2. Lacking(tree, Nodes, mark, c, p, d)
  BY <1>1, LoopIs
<1>3. PICK sub : Shape(tree, Nodes, sub)
  BY DEF WellFormed, Nodes
<1> HIDE DEF c, p, d
<1>4. PICK h : Coloured(tree, Nodes, mark, h, p, d)
  BY <1>2 DEF Lacking
<1>5. RedRule(tree, Nodes, mark, Nil, c) /\ c \in Nodes \cup {Nil} /\ p \in Nodes \cup {Nil} /\ Nil \notin Nodes
  BY <1>2, <1>3 DEF Lacking, Shape, Woven, Nil
<1>6. /\ \E under : Coloured(tree, Nodes, Blackened(mark, c), under, Nil, 0)
      /\ RedRule(tree, Nodes, Blackened(mark, c), Nil, Nil)
  <2>1. CASE p # Nil
    <3>1. p \in Nodes /\ d \in Sides /\ c = tree.link[p][d] /\ c # Nil /\ mark[c] = "red"
      BY <1>1, <1>2, <1>5, <2>1 DEF Lacking, Red
    <3> QED BY <1>3, <1>4, <1>5, <3>1, PayRed
  <2>2. CASE p = Nil
    <3>1. c = r
      BY <1>2, <2>2 DEF Lacking
    <3>2. Coloured(tree, Nodes, mark, h, Nil, 0)
      <4>1. \A n \in Nodes : \A e \in Sides : Owed(p, d, n, e) = 0 /\ Owed(Nil, 0, n, e) = 0
        BY <1>5, <2>2 DEF Owed
      <4> QED BY <1>4, <4>1 DEF Coloured
    <3>3. RedRule(tree, Nodes, mark, Nil, Nil)
      <4>1. BlackRoot(tree, mark)
        BY <1>2 DEF Lacking
      <4>2. c \in Nodes => mark[c] # "red"
        BY <1>5, <3>1, <4>1 DEF BlackRoot
      <4> QED BY <1>5, <4>2 DEF RedRule
    <3> QED BY <1>3, <3>1, <3>2, <3>3, BlackenRoot
  <2> QED BY <2>1, <2>2
<1>7. PICK up : Coloured(tree, Nodes, Blackened(mark, c), up, Nil, 0)
  BY <1>6
<1>8. /\ \E under : Coloured(tree, Nodes, mark', under, Nil, 0)
      /\ RedRule(tree, Nodes, mark', Nil, Nil)
      /\ r # Nil => mark'[r] = "black"
  BY <1>1, <1>3, <1>6, <1>7, BlackenRoot
<1>9. Settled(tree, Nodes, mark')
  BY <1>8 DEF Settled, BlackRoot
<1>10. Nodes' = Nodes
  BY <1>1 DEF Nodes
<1> QED BY <1>1, <1>9, <1>10 DEF Painted

(* Where erase's loop is when it has not come to its end. *)
LEMMA ErasingIs ==
  ASSUME NEW sub, Shape(tree, Nodes, sub), Painted(tree, Nodes, mark, fix), Erasing
  PROVE  LET c == fix.child
             p == fix.parent
             d == fix.dir
             s == Sibling IN
         /\ fix = [loop |-> "erase", child |-> c, parent |-> p, dir |-> d]
         /\ p \in Nodes /\ d \in Sides /\ c \in Nodes \cup {Nil} /\ s \in Nodes /\ Nil \notin Nodes
         /\ tree.link[p][d] = c /\ tree.link[p][-d] = s /\ tree.link[s][0] = p
         /\ Near = tree.link[s][d] /\ Far = tree.link[s][-d]
         /\ Near \in Nodes \cup {Nil} /\ Far \in Nodes \cup {Nil}
         /\ (Near # Nil => tree.link[Near][0] = s) /\ (Far # Nil => tree.link[Far][0] = s)
         /\ s # c /\ s # p /\ c # p /\ Near # p /\ Far # p /\ Near # s /\ Far # s
         /\ c # Nil => mark[c] = "black"
         /\ (\E h : Coloured(tree, Nodes, mark, h, p, d)) /\ RedRule(tree, Nodes, mark, Nil, c)
         /\ BlackRoot(tree, mark) /\ mark \in [Nodes -> {"red", "black"}]
         /\ -d \in Sides /\ d = -(-d) /\ tree.root \in Nodes
<1> DEFINE c == fix.child
           p == fix.parent
           d == fix.dir
           s == Sibling
<1>1. /\ fix = [loop |-> "erase", child |-> c, parent |-> p, dir |-> d]
      /\ Lacking(tree, Nodes, mark, c, p, d) /\ p # Nil /\ ~Red(c)
  BY LoopIs DEF Erasing
<1>2. s = tree.link[p][-d] /\ Near = tree.link[s][d] /\ Far = tree.link[s][-d]
  BY DEF Sibling, Near, Far, Link
<1> HIDE DEF c, p, d, s
<1>3. /\ p \in Nodes /\ d \in Sides /\ c \in Nodes \cup {Nil} /\ tree.link[p][d] = c
      /\ (\E h : Coloured(tree, Nodes, mark, h, p, d)) /\ RedRule(tree, Nodes, mark, Nil, c)
      /\ BlackRoot(tree, mark)
  BY <1>1 DEF Lacking
<1>4. -d \in Sides /\ d = -(-d) /\ d # -d
  BY <1>3 DEF Sides
<1>5. Nil \notin Nodes /\ tree.root \in Nodes
  BY <1>3 DEF Shape, Woven, Nil
<1>6. PICK h : Coloured(tree, Nodes, mark, h, p, d)
  BY <1>3
<1>7. mark \in [Nodes -> {"red", "black"}] /\ h \in [Nodes \cup {Nil} -> Nat] /\ h[Nil] = 0
  BY <1>6 DEF Coloured
<1>8. c # Nil => mark[c] = "black"
  BY <1>1, <1>3, <1>7 DEF Red
<1>9. s \in Nodes \cup {Nil} /\ s # p /\ (s # Nil => tree.link[s][0] = p) /\ c # p
  BY <1>2, <1>3, <1>4, ChildIs
<1>10. s # Nil
  <2>1. h[p] = h[c] + Weight(mark, p) + 1 /\ h[p] = h[s] + Weight(mark, p)
    <3>1. Owed(p, d, p, d) = 1 /\ Owed(p, d, p, -d) = 0
      BY <1>4 DEF Owed
    <3>2. /\ h[p] = h[tree.link[p][d]] + Weight(mark, p) + Owed(p, d, p, d)
          /\ h[p] = h[tree.link[p][-d]] + Weight(mark, p) + Owed(p, d, p, -d)
      BY <1>3, <1>4, <1>6 DEF Coloured
    <3>3. Weight(mark, p) \in {0, 1} /\ h[s] \in Nat
      BY <1>7, <1>9 DEF Weight
    <3> QED BY <1>2, <1>3, <3>1, <3>2, <3>3
  <2>2. Weight(mark, p) \in {0, 1} /\ h[c] \in Nat /\ h[s] \in Nat
    BY <1>3, <1>7, <1>9 DEF Weight
  <2> QED BY <1>7, <2>1, <2>2
<1>11. s \in Nodes /\ tree.link[s][0] = p
  BY <1>9, <1>10
<1>12. /\ Near \in Nodes \cup {Nil} /\ Near # s /\ (Near # Nil => tree.link[Near][0] = s)
       /\ Far \in Nodes \cup {Nil} /\ Far # s /\ (Far # Nil => tree.link[Far][0] = s)
  <2>1. Near \in Nodes \cup {Nil} /\ Near # s /\ (Near # Nil => tree.link[Near][0] = s)
    BY <1>2, <1>3, <1>11, ChildIs
  <2>2. Far \in Nodes \cup {Nil} /\ Far # s /\ (Far # Nil => tree.link[Far][0] = s)
    BY <1>2, <1>4, <1>11, ChildIs
  <2> QED BY <2>1, <2>2
<1>13. s # c
  <2>1. \A x \in Nodes : \A f \in Sides : tree.link[x][f] = s => f = DirOf(tree, s)
    BY <1>11, DirIs
  <2> QED BY <1>2, <1>3, <1>4, <2>1
<1>14. Near # p /\ Far # p
  <2>1. p \in sub[p] /\ s \in sub[s]
    BY <1>3, <1>11, InItself
  <2>2. p \notin sub[s]
    BY <1>2, <1>3, <1>4, ChildIs
  <2>3. /\ Near # Nil => Near \in sub[s]
        /\ Far # Nil => Far \in sub[s]
    <3>1. Near # Nil => Near \in sub[Near] /\ sub[Near] \subseteq sub[s]
      BY <1>2, <1>3, <1>11, ChildIs
    <3>2. Far # Nil => Far \in sub[Far] /\ sub[Far] \subseteq sub[s]
      BY <1>2, <1>4, <1>11, ChildIs
    <3> QED BY <3>1, <3>2
  <2> QED BY <1>3, <1>5, <2>2, <2>3
<1> QED BY <1>1, <1>2, <1>3, <1>4, <1>5, <1>7, <1>8, <1>9, <1>11, <1>12, <1>13, <1>14 DEF c, p, d, s

LEMMA MoveUpKeeps ==
  ASSUME WellFormed(tree), Painted(tree, Nodes, mark, fix), MoveUp
  PROVE  WellFormed(tree') /\ Painted(tree', Nodes', mark', fix') /\ Nodes' = Nodes
<1> DEFINE c == fix.child
           p == fix.parent
           d == fix.dir
           s == Sibling
           q == Parent(p)
           e == DirOf(tree, p)
<1>1. /\ Erasing /\ ~Red(s) /\ ~Red(Near) /\ ~Red(Far) /\ mark' = [mark EXCEPT ![s] = "red"]
      /\ fix' = [fix EXCEPT !.child = p, !.parent = q, !.dir = e] /\ tree' = tree
  BY DEF MoveUp
<1>2. PICK sub : Shape(tree, Nodes, sub)
  BY DEF WellFormed, Nodes
<1>3. /\ fix = [loop |-> "erase", child |-> c, parent |-> p, dir |-> d]
      /\ p \in Nodes /\ d \in Sides /\ s \in Nodes /\ Nil \notin Nodes
      /\ tree.link[p][d] = c /\ tree.link[p][-d] = s /\ s # p /\ d = -(-d)
      /\ Near = tree.link[s][d] /\ Far = tree.link[s][-d]
      /\ Near \in Nodes \cup {Nil} /\ Far \in Nodes \cup {Nil}
      /\ c # Nil => mark[c] = "black"
      /\ (\E h : Coloured(tree, Nodes, mark, h, p, d)) /\ RedRule(tree, Nodes, mark, Nil, c)
      /\ BlackRoot(tree, mark) /\ mark \in [Nodes -> {"red", "black"}] /\ tree.root \in Nodes
  BY <1>1, <1>2, ErasingIs
<1>4. fix' = [loop |-> "erase", child |-> p, parent |-> q, dir |-> e]
  <2> HIDE DEF c, p, d, q, e
  <2> QED BY <1>1, <1>3
<1>5. q = tree.link[p][0]
  BY DEF Parent, Link
<1> HIDE DEF c, p, d, s, q, e
<1>6. PICK h : Coloured(tree, Nodes, mark, h, p, d)
  BY <1>3
<1>7. /\ mark' \in [Nodes -> {"red", "black"}] /\ mark'[s] = "red" /\ mark[s] = "black"
      /\ \A y \in Nodes : y # s => mark'[y] = mark[y]
      /\ Near # Nil => mark[Near] = "black"
      /\ Far # Nil => mark[Far] = "black"
  BY <1>1, <1>3 DEF Red
<1>8. \A f \in Sides : tree.link[s][f] # Nil => mark[tree.link[s][f]] = "black"
  <2>1. \A f \in Sides : f = d \/ f = -d
    BY <1>3 DEF Sides
  <2> QED BY <1>3, <1>7, <2>1
<1>9. Family(tree, Nodes, sub, p, d, c, s)
  BY <1>2, <1>3 DEF Family
<1>10. /\ \E under : Coloured(tree, Nodes, mark', under, q, e)
       /\ RedRule(tree, Nodes, mark', Nil, p)
  BY <1>3, <1>5, <1>6, <1>7, <1>8, <1>9, SiblingTurnsRed DEF e
<1>11. /\ q \in Nodes \cup {Nil} /\ e \in {-1, 0, 1}
       /\ IF q = Nil THEN p = tree.root ELSE e \in Sides /\ tree.link[q][e] = p
       /\ s # tree.root
  <2>1. e = DirOf(tree, p)
    BY DEF e
  <2>2. \A x \in Nodes : \A f \in Sides : tree.link[x][f] = s => s # tree.root
    BY <1>2, <1>3, DirIs
  <2>3. -d \in Sides
    BY <1>3 DEF Sides
  <2> QED BY <1>2, <1>3, <1>5, <2>1, <2>2, <2>3, DirIs DEF Sides
<1>12. BlackRoot(tree, mark')
  BY <1>3, <1>7, <1>11 DEF BlackRoot
<1>13. Lacking(tree, Nodes, mark', p, q, e)
  BY <1>3, <1>10, <1>11, <1>12 DEF Lacking
<1>14. Nodes' = Nodes
  BY <1>1 DEF Nodes
<1>15. Painted(tree, Nodes, mark', fix')
  BY <1>3, <1>4, <1>11, <1>13 DEF Painted
<1> QED BY <1>1, <1>14, <1>15

LEMMA RaiseRedSiblingKeeps ==
  ASSUME WellFormed(tree), Painted(tree, Nodes, mark, fix), RaiseRedSibling
  PROVE  WellFormed(tree') /\ Painted(tree', Nodes', mark', fix') /\ Nodes' = Nodes
<1> DEFINE c == fix.child
           p == fix.parent
           d == fix.dir
           s == Sibling
           near == Near
           far == Far
           q == tree.link[p][0]
           e == -d
<1>1. /\ Erasing /\ Red(s) /\ tree' = Rotated(tree, p, e) /\ mark' = [mark EXCEPT ![p] = "red", ![s] = "black"]
      /\ fix' = fix
  BY DEF RaiseRedSibling
<1>2. PICK sub : Shape(tree, Nodes, sub)
  BY DEF WellFormed, Nodes
<1>3. Typed(tree) /\ DOMAIN tree.link = Nodes
  BY DEF WellFormed, Nodes
<1>4. /\ fix = [loop |-> "erase", child |-> c, parent |-> p, dir |-> d]
      /\ p \in Nodes /\ d \in Sides /\ c \in Nodes \cup {Nil} /\ s \in Nodes /\ Nil \notin Nodes
      /\ tree.link[p][d] = c /\ tree.link[p][e] = s /\ tree.link[s][0] = p
      /\ near = tree.link[s][d] /\ far = tree.link[s][e]
      /\ near \in Nodes \cup {Nil} /\ (near # Nil => tree.link[near][0] = s)
      /\ s # c /\ s # p /\ c # p
      /\ c # Nil => mark[c] = "black"
      /\ (\E h : Coloured(tree, Nodes, mark, h, p, d)) /\ RedRule(tree, Nodes, mark, Nil, c)
      /\ BlackRoot(tree, mark) /\ mark \in [Nodes -> {"red", "black"}]
      /\ e \in Sides /\ d = -e /\ tree.root \in Nodes
  BY <1>1, <1>2, ErasingIs
<1> HIDE DEF c, p, d, s, near, far, e
<1>5. PICK h : Coloured(tree, Nodes, mark, h, p, d)
  BY <1>4
<1>6. mark[s] = "red"
  BY <1>1 DEF Red
<1>7. mark[p] = "black" /\ (near # Nil => mark[near] = "black")
  BY <1>4, <1>6 DEF RedRule
<1>8. Spinning(tree, Nodes, sub, p, e, s, near, c, far, q)
  BY <1>2, <1>3, <1>4 DEF Spinning
<1> HIDE DEF q
<1>9. Spun(tree, tree', Nodes, p, e, s, near, q)
  BY <1>1, <1>8, RotatedSpins
<1>10. SwapMarks(mark, mark', Nodes, p, s)
  BY <1>1, <1>4 DEF SwapMarks
<1>11. /\ \E under : Coloured(tree', Nodes, mark', under, p, d)
       /\ RedRule(tree', Nodes, mark', Nil, c)
       /\ mark'[tree'.root] = "red" => mark[tree.root] = "red" /\ tree'.root = tree.root
  BY <1>4, <1>5, <1>6, <1>7, <1>8, <1>9, <1>10, SwapColours
<1>12. tree'.link[p][d] = c
  <2>1. tree'.link[p][-e] = c
    BY <1>8, <1>9, SpunLinks
  <2> QED BY <1>4, <2>1
<1>13. BlackRoot(tree', mark')
  BY <1>4, <1>11 DEF BlackRoot, Nil
<1>14. Lacking(tree', Nodes, mark', c, p, d)
  BY <1>4, <1>11, <1>12, <1>13 DEF Lacking
<1>15. WellFormed(tree') /\ DOMAIN tree'.link = Nodes
  <2>1. WellFormed(Rotated(tree, p, e)) /\ DOMAIN Rotated(tree, p, e).link = Nodes
    BY <1>2, <1>3, <1>4, RotatedIs
  <2> QED BY <1>1, <2>1
<1>16. Nodes' = Nodes
  BY <1>15 DEF Nodes
<1>17. Painted(tree', Nodes, mark', fix)
  <2>1. d \in {-1, 0, 1}
    BY <1>4 DEF Sides
  <2> QED BY <1>4, <1>14, <2>1 DEF Painted
<1> QED BY <1>1, <1>15, <1>16, <1>17

(* The last rotation of an erasure: the black s, with a red node w beyond. *)
LEMMA LastBorrow ==
  ASSUME NEW t, NEW N, NEW sub, NEW m, NEW m2, NEW h, NEW p \in N, NEW d \in Sides, NEW s \in N, NEW w \in N, NEW c,
         Shape(t, N, sub), Typed(t), t.link[p][-d] = s, t.link[s][-d] = w, t.link[p][d] = c,
         Coloured(t, N, m, h, p, d), RedRule(t, N, m, Nil, c), BorrowMarks(m, m2, N, p, s, w),
         m[s] = "black", m[w] = "red", c # Nil => m[c] = "black"
  PROVE  LET z == Rotated(t, p, -d) IN
         /\ \E under : Coloured(z, N, Blackened(m2, z.root), under, Nil, 0)
         /\ RedRule(z, N, Blackened(m2, z.root), Nil, Nil)
         /\ BlackRoot(z, Blackened(m2, z.root))
<1> DEFINE e == -d
           i == t.link[s][-e]
           q == t.link[p][0]
           z == Rotated(t, p, e)
<1>1. e \in Sides /\ d = -e /\ Nil \notin N
  BY DEF Sides, Shape, Woven, Nil
<1>2. t.link[p][e] = s /\ t.link[s][e] = w
  OBVIOUS
<1> HIDE DEF e
<1>3. Spinning(t, N, sub, p, e, s, i, c, w, q)
  BY <1>1, <1>2 DEF Spinning
<1> HIDE DEF i, q
<1>4. Spun(t, z, N, p, e, s, i, q)
  BY <1>3, RotatedSpins
<1>5. PICK under : Shape(z, N, under)
  BY <1>1, RotatedShape
<1> HIDE DEF z
<1>6. /\ \E up : Coloured(z, N, m2, up, Nil, 0)
      /\ RedRule(z, N, m2, Nil, Nil)
  <2>1. Coloured(t, N, m, h, p, -e)
    BY <1>1
  <2>2. w # Nil
    BY <1>1
  <2> QED BY <1>3, <1>4, <2>1, <2>2, BorrowTurn
<1>7. PICK up : Coloured(z, N, m2, up, Nil, 0)
  BY <1>6
<1>8. /\ \E up2 : Coloured(z, N, Blackened(m2, z.root), up2, Nil, 0)
      /\ RedRule(z, N, Blackened(m2, z.root), Nil, Nil)
      /\ z.root # Nil => Blackened(m2, z.root)[z.root] = "black"
  BY <1>5, <1>6, <1>7, BlackenRoot
<1> QED BY <1>8 DEF BlackRoot, z, e

LEMMA BorrowKeeps ==
  ASSUME WellFormed(tree), Painted(tree, Nodes, mark, fix), Borrow
  PROVE  WellFormed(tree') /\ Painted(tree', Nodes', mark', fix') /\ Nodes' = Nodes
<1> DEFINE c == fix.child
           p == fix.parent
           d == fix.dir
           s == Sibling
           near == Near
           beyond == Far
           inner == ~Red(beyond)
           top == IF inner THEN near ELSE s
           far == IF inner THEN s ELSE beyond
           straight == IF inner THEN Rotated(tree, s, d) ELSE tree
           m1 == IF inner THEN [mark EXCEPT ![near] = "black", ![s] = "red"] ELSE mark
           m2 == [mark EXCEPT ![top] = mark[p], ![p] = "black", ![far] = "black"]
<1>1. /\ Erasing /\ ~Red(s) /\ (Red(near) \/ Red(beyond))
      /\ tree' = Rotated(straight, p, -d) /\ mark' = Blackened(m2, tree'.root) /\ fix' = NoFix
  BY DEF Borrow
<1>2. PICK sub : Shape(tree, Nodes, sub)
  BY DEF WellFormed, Nodes
<1>3. Typed(tree) /\ DOMAIN tree.link = Nodes
  BY DEF WellFormed, Nodes
<1>4. /\ p \in Nodes /\ d \in Sides /\ c \in Nodes \cup {Nil} /\ s \in Nodes /\ Nil \notin Nodes
      /\ tree.link[p][d] = c /\ tree.link[p][-d] = s /\ tree.link[s][0] = p
      /\ near = tree.link[s][d] /\ beyond = tree.link[s][-d]
      /\ near \in Nodes \cup {Nil} /\ beyond \in Nodes \cup {Nil} /\ (near # Nil => tree.link[near][0] = s)
      /\ s # c /\ s # p /\ c # p /\ near # p /\ beyond # p /\ near # s /\ beyond # s
      /\ c # Nil => mark[c] = "black"
      /\ (\E h : Coloured(tree, Nodes, mark, h, p, d)) /\ RedRule(tree, Nodes, mark, Nil, c)
      /\ mark \in [Nodes -> {"red", "black"}]
      /\ -d \in Sides
  BY <1>1, <1>2, ErasingIs
<1> HIDE DEF c, p, d, s, near, beyond
<1>5. PICK h : Coloured(tree, Nodes, mark, h, p, d)
  BY <1>4
<1>6. mark[s] = "black"
  BY <1>1, <1>4 DEF Red
<1>7. (inner => near \in Nodes /\ mark[near] = "red") /\ (~inner => beyond \in Nodes /\ mark[beyond] = "red")
  BY <1>1, <1>4 DEF Red
<1>8. top \in Nodes /\ far \in Nodes
  BY <1>4, <1>7
<1>9. /\ Typed(straight) /\ DOMAIN straight.link = Nodes /\ \E under : Shape(straight, Nodes, under)
      /\ straight.link[p][-d] = top /\ straight.link[top][-d] = far /\ straight.link[p][d] = c
      /\ \E up : Coloured(straight, Nodes, m1, up, p, d)
      /\ RedRule(straight, Nodes, m1, Nil, c) /\ m1[top] = "black" /\ m1[far] = "red"
      /\ c # Nil => m1[c] = "black"
  <2>1. CASE ~inner
    <3>1. straight = tree /\ top = s /\ far = beyond /\ m1 = mark
      BY <2>1
    <3> HIDE DEF straight, top, far, m1
    <3> QED BY <1>2, <1>3, <1>4, <1>5, <1>6, <1>7, <2>1, <3>1
  <2>2. CASE inner
    <3>1. straight = Rotated(tree, s, d) /\ top = near /\ far = s /\ m1 = [mark EXCEPT ![near] = "black", ![s] = "red"]
      BY <2>2
    <3>2. near \in Nodes /\ mark[near] = "red" /\ near # Nil
      BY <1>4, <1>7, <2>2
    <3> HIDE DEF straight, top, far, m1, inner
    <3>3. SwapMarks(mark, m1, Nodes, s, near)
      BY <1>4, <3>1, <3>2 DEF SwapMarks
    <3> DEFINE i == tree.link[near][-d]
               w == tree.link[near][d]
    <3>4. Spinning(tree, Nodes, sub, s, d, near, i, beyond, w, p)
      BY <1>2, <1>3, <1>4, <3>2 DEF Spinning
    <3>5. i # Nil => i \in Nodes /\ tree.link[i][0] = near
      BY <3>4, SpinningIs
    <3> HIDE DEF i, w
    <3>6. near # c
      <4>1. c # Nil => tree.link[c][0] = p
        BY <1>2, <1>4, ChildIs
      <4> QED BY <1>4, <3>2, <4>1
    <3>7. i # Nil => mark[i] = "black"
      BY <1>4, <3>2, <3>5, <3>6 DEF RedRule
    <3>8. beyond # Nil => mark[beyond] = "black"
      <4>1. ~Red(beyond)
        BY <2>2 DEF inner
      <4> QED BY <1>4, <4>1 DEF Red
    <3>9. Spun(tree, straight, Nodes, s, d, near, i, p)
      BY <3>1, <3>4, RotatedSpins
    <3>10. /\ \E up : Coloured(straight, Nodes, m1, up, p, d)
           /\ RedRule(straight, Nodes, m1, Nil, c)
      <4>1. p \notin {s, near}
        BY <1>4
      <4> QED BY <1>4, <1>5, <1>6, <3>2, <3>3, <3>4, <3>7, <3>8, <3>9, <4>1, SwapColours
    <3>11. /\ \A f \in Sides : /\ tree.link[p][f] = s => straight.link[p][f] = near
                               /\ tree.link[p][f] # s => straight.link[p][f] = tree.link[p][f]
           /\ straight.link[near][-d] = s
      <4>1. p \notin {s, near}
        BY <1>4
      <4> QED BY <1>4, <3>4, <3>9, <4>1, SpunLinks
    <3>12. straight.link[p][-d] = near /\ straight.link[near][-d] = s /\ straight.link[p][d] = c
      BY <1>4, <3>11
    <3>13. Typed(straight) /\ DOMAIN straight.link = Nodes /\ \E under : Shape(straight, Nodes, under)
      <4>1. /\ Typed(Rotated(tree, s, d)) /\ DOMAIN Rotated(tree, s, d).link = Nodes
            /\ \E under : Shape(Rotated(tree, s, d), Nodes, under)
        BY <1>2, <1>3, <1>4, RotatedIs
      <4> QED BY <3>1, <4>1
    <3>14. m1[near] = "black" /\ m1[s] = "red" /\ (c # Nil => m1[c] = "black")
      BY <1>4, <3>3, <3>6 DEF SwapMarks
    <3> QED BY <3>1, <3>10, <3>12, <3>13, <3>14
  <2> QED BY <2>1, <2>2
<1>10. BorrowMarks(m1, m2, Nodes, p, top, far)
  <2>1. top # far /\ top # p /\ far # p
    BY <1>4
  <2>2. /\ m2 \in [Nodes -> {"red", "black"}] /\ m2[top] = mark[p] /\ m2[p] = "black" /\ m2[far] = "black"
        /\ \A y \in Nodes : y \notin {p, top, far} => m2[y] = mark[y]
    <3> HIDE DEF top, far
    <3> QED BY <1>4, <1>8, <2>1
  <2>3. m1[p] = mark[p] /\ \A y \in Nodes : y \notin {p, top, far} => m1[y] = mark[y]
    <3>1. CASE inner
      <4>1. m1 = [mark EXCEPT ![near] = "black", ![s] = "red"] /\ top = near /\ far = s
        BY <3>1
      <4> QED BY <1>4, <1>7, <3>1, <4>1
    <3>2. CASE ~inner
      BY <3>2
    <3> QED BY <3>1, <3>2
  <2> HIDE DEF m1, m2, top, far
  <2> QED BY <2>2, <2>3 DEF BorrowMarks
<1> HIDE DEF top, far, straight, m1, m2, inner
<1>11. PICK up : Coloured(straight, Nodes, m1, up, p, d)
  BY <1>9
<1>12. PICK under : Shape(straight, Nodes, under)
  BY <1>9
<1>13. /\ \E up2 : Coloured(tree', Nodes, mark', up2, Nil, 0)
       /\ RedRule(tree', Nodes, mark', Nil, Nil)
       /\ BlackRoot(tree', mark')
  <2> DEFINE z == Rotated(straight, p, -d)
  <2>1. /\ \E up2 : Coloured(z, Nodes, Blackened(m2, z.root), up2, Nil, 0)
        /\ RedRule(z, Nodes, Blackened(m2, z.root), Nil, Nil)
        /\ BlackRoot(z, Blackened(m2, z.root))
    <3>1. /\ p \in Nodes /\ d \in Sides /\ top \in Nodes /\ far \in Nodes
          /\ Typed(straight) /\ straight.link[p][-d] = top /\ straight.link[top][-d] = far /\ straight.link[p][d] = c
          /\ RedRule(straight, Nodes, m1, Nil, c) /\ m1[top] = "black" /\ m1[far] = "red"
          /\ c # Nil => m1[c] = "black"
      BY <1>4, <1>8, <1>9
    <3> QED BY <1>10, <1>11, <1>12, <3>1, LastBorrow
  <2> HIDE DEF z
  <2>2. tree' = z /\ mark' = Blackened(m2, z.root)
    BY <1>1 DEF z
  <2> QED BY <2>1, <2>2
<1>14. Settled(tree', Nodes, mark')
  BY <1>13 DEF Settled
<1>15. WellFormed(tree') /\ DOMAIN tree'.link = Nodes
  <2>1. WellFormed(Rotated(straight, p, -d)) /\ DOMAIN Rotated(straight, p, -d).link = Nodes
    BY <1>4, <1>9, <1>12, RotatedIs
  <2> QED BY <1>1, <2>1
<1>16. Nodes' = Nodes
  BY <1>15 DEF Nodes
<1> QED BY <1>1, <1>14, <1>15, <1>16 DEF Painted

-----------------------------------------------------------------------------
(* The calls. *)
LEMMA RootIs ==
  ASSUME NEW t, NEW N, NEW sub, Shape(t, N, sub)
  PROVE  /\ Nil \notin N
         /\ N # {} => t.root \in N
         /\ N = {} => t.root = Nil
BY DEF Shape, Woven, Nil

LEMMA RbInsertKeeps ==
  ASSUME WellFormed(tree), Painted(tree, Nodes, mark, fix), NEW k \in Nat \ {0}, NEW v, RbInsert(k, v)
  PROVE  WellFormed(tree') /\ Painted(tree', Nodes', mark', fix') /\ Nodes' = Nodes \cup {k}
<1> DEFINE p == Place(k)
           d == Toward(k, p)
<1>1. /\ fix = NoFix /\ ~HasKey(k) /\ tree' = Linked(k)
      /\ mark' = With(mark, k, IF tree.root = Nil THEN "black" ELSE "red")
      /\ fix' = IF tree.root = Nil THEN NoFix ELSE [loop |-> "insert", node |-> k]
  BY DEF RbInsert, Ready
<1>2. PICK sub : Shape(tree, Nodes, sub)
  BY DEF WellFormed, Nodes
<1>3. Typed(tree)
  BY DEF WellFormed
<1>4. k \notin Nodes
  BY <1>1, <1>2, ContainsIs
<1>5. Settled(tree, Nodes, mark)
  BY <1>1, LoopIs
<1>6. PICK h : Coloured(tree, Nodes, mark, h, Nil, 0)
  BY <1>5 DEF Settled
<1>7. /\ RedRule(tree, Nodes, mark, Nil, Nil) /\ BlackRoot(tree, mark) /\ DOMAIN mark = Nodes
      /\ mark \in [Nodes -> {"red", "black"}] /\ Nil \notin Nodes
  BY <1>2, <1>5, <1>6 DEF Settled, Coloured, Shape, Woven, Nil
<1>8. /\ Typed(tree') /\ DOMAIN tree'.link = Nodes \cup {k}
      /\ Grafted(tree, tree', Nodes, p, d, k)
      /\ \E under : Shape(tree', Nodes \cup {k}, under)
  <2> HIDE DEF p, d
  <2>1. /\ Typed(Linked(k)) /\ DOMAIN Linked(k).link = Nodes \cup {k}
        /\ Grafted(tree, Linked(k), Nodes, p, d, k)
        /\ \E under : Shape(Linked(k), Nodes \cup {k}, under)
    BY <1>2, <1>3, <1>4, LinkedShape DEF p, d
  <2> QED BY <1>1, <2>1
<1>9. WellFormed(tree') /\ Nodes' = Nodes \cup {k}
  BY <1>8 DEF WellFormed, Nodes
<1>10. /\ tree.root = Nil <=> Nodes = {}
       /\ Nodes = {} => p = Nil
       /\ Nodes # {} => p \in Nodes /\ FoundFrom(sub, k, tree.root, p) /\ sub[tree.root] = Nodes
  BY <1>2, PlaceIs
<1>11. CASE tree.root # Nil
  <2>1. k \notin sub[tree.root] /\ Link(p, d) = Nil /\ \A a \in Nodes : OnWay(sub, k, a, p)
    BY <1>4, <1>10, <1>11 DEF FoundFrom
  <2>2. Vacant(tree, Nodes, sub, p, d, k)
    BY <1>2, <1>4, <1>10, <1>11, <2>1 DEF Vacant, OnWay, Link
  <2> HIDE DEF p, d
  <2>3. /\ \E up : Coloured(tree', Nodes \cup {k}, With(mark, k, "red"), up, Nil, 0)
        /\ RedRule(tree', Nodes \cup {k}, With(mark, k, "red"), k, Nil)
    BY <1>6, <1>7, <1>8, <2>2, GraftedColours
  <2>4. mark' = With(mark, k, "red") /\ fix' = [loop |-> "insert", node |-> k]
    BY <1>1, <1>11
  <2>5. mark'[k] = "red" /\ \A y \in Nodes : mark'[y] = mark[y]
    BY <1>4, <1>7, <2>4 DEF With
  <2>6. BlackRoot(tree', mark')
    <3>1. p # Nil /\ tree.root \in Nodes
      BY <1>2, <1>7, <1>10, <1>11, RootIs
    <3>2. tree'.root = tree.root
      BY <1>8, <3>1 DEF Grafted
    <3> QED BY <1>7, <2>5, <3>1, <3>2 DEF BlackRoot
  <2>7. Inserting(tree', Nodes \cup {k}, mark', k)
    BY <2>3, <2>4, <2>5, <2>6 DEF Inserting
  <2> QED BY <1>9, <2>4, <2>7 DEF Painted
<1>12. CASE tree.root = Nil
  <2>1. p = Nil /\ Nodes \cup {k} = {k} /\ k # Nil /\ DOMAIN mark \cup {k} = {k}
    BY <1>7, <1>10, <1>12 DEF Nil
  <2> HIDE DEF p, d
  <2>2. /\ tree'.root = k /\ tree'.link[k][0] = Nil /\ \A f \in Sides : tree'.link[k][f] = Nil
    BY <1>8, <2>1 DEF Grafted
  <2>3. mark' = [n \in {k} |-> IF n = k THEN "black" ELSE mark[n]] /\ fix' = NoFix
    BY <1>1, <1>12, <2>1 DEF With
  <2>4. mark' \in [{k} -> {"red", "black"}] /\ mark'[k] = "black"
    BY <2>3
  <2> DEFINE up == [x \in {k} \cup {Nil} |-> IF x = k THEN 1 ELSE 0]
  <2>5. up \in [{k} \cup {Nil} -> Nat] /\ up[Nil] = 0 /\ up[k] = 1
    BY <2>1
  <2> HIDE DEF up
  <2>6. Coloured(tree', {k}, mark', up, Nil, 0)
    <3>1. \A e \in Sides : Owed(Nil, 0, k, e) = 0 /\ Weight(mark', k) = 1
      BY <2>1, <2>4 DEF Owed, Weight
    <3> QED BY <2>2, <2>4, <2>5, <3>1 DEF Coloured
  <2>7. RedRule(tree', {k}, mark', Nil, Nil) /\ BlackRoot(tree', mark')
    BY <2>2, <2>4 DEF RedRule, BlackRoot
  <2>8. Settled(tree', {k}, mark')
    BY <2>6, <2>7 DEF Settled
  <2> QED BY <1>9, <2>1, <2>3, <2>8 DEF Painted
<1> QED BY <1>9, <1>11, <1>12

(* The colours when the node of k is out and its loop has not begun. *)
LEMMA ErasedColours ==
  ASSUME NEW sub, Shape(tree, Nodes, sub), Typed(tree), Settled(tree, Nodes, mark), NEW k \in Nodes
  PROVE  LET g == Gone(k)
             c == OnlyChild(g)
             p == NewName(k, Parent(g))
             e == DirOf(tree, g)
             z == Unlinked(k)
             m2 == MarksWithout(k)
             N == Nodes \ {k} IN
         /\ g \in Nodes /\ c \in N \cup {Nil} /\ p \in N \cup {Nil} /\ e \in {-1, 0, 1} /\ Nil \notin Nodes
         /\ IF p = Nil THEN c = z.root ELSE e \in Sides /\ z.link[p][e] = c
         /\ mark \in [Nodes -> {"red", "black"}]
         /\ c # Nil => c \in Nodes /\ m2[c] = mark[c]
         /\ p # Nil => BlackRoot(z, m2)
         /\ \E under : IF mark[g] = "red" THEN Coloured(z, N, m2, under, Nil, 0)
                       ELSE Coloured(z, N, m2, under, p, e)
         /\ RedRule(z, N, m2, c, Nil)
         /\ mark[g] = "red" /\ c # Nil => mark[c] = "black"
<1> DEFINE g == Gone(k)
           c == OnlyChild(g)
           q == Parent(g)
           p == NewName(k, q)
           e == DirOf(tree, g)
           x == Severed(k)
           z == Unlinked(k)
           M == Nodes \ {g}
           N == Nodes \ {k}
           m1 == [y \in M |-> mark[y]]
           m2 == MarksWithout(k)
           under == Without(Nodes, sub, g)
<1>1. /\ Severable(tree, Nodes, sub, g, GoneSide(k), c, q, e)
      /\ c # k
  BY GoneIs
<1>2. Renames(x, z, M, N, k, g)
  BY UnlinkedRenames
<1>3. p = Renamed(k, g, q)
  BY DEF NewName, Renamed
<1>4. m2 = [y \in N |-> mark[Renamed(g, k, y)]]
  BY DEF MarksWithout, OldNode, Renamed
<1>5. x = Hang(tree, q, e, c)
  BY DEF Severed
<1>6. PICK h : Coloured(tree, Nodes, mark, h, Nil, 0)
  BY DEF Settled
<1>7. RedRule(tree, Nodes, mark, Nil, Nil) /\ BlackRoot(tree, mark) /\ mark \in [Nodes -> {"red", "black"}]
  BY <1>6 DEF Settled, Coloured
<1> HIDE DEF g, c, q, p, e, x, z, m1, m2, under
<1>8. /\ g \in Nodes /\ c \in Nodes \cup {Nil} /\ q \in Nodes \cup {Nil} /\ c # g /\ q # g
      /\ Nil \notin Nodes /\ (q = Nil <=> g = tree.root)
      /\ q # Nil => e \in Sides /\ tree.link[q][e] = g
      /\ Hung(tree, x, q, e, c)
  BY <1>1, <1>5, SeverableIs
<1>9. e \in {-1, 0, 1}
  <2>1. e = DirOf(tree, g)
    BY DEF e
  <2> QED BY <1>8, <2>1 DEF DirOf
<1>10. /\ \E up : IF mark[g] = "red" THEN Coloured(x, M, m1, up, Nil, 0)
                  ELSE Coloured(x, M, m1, up, q, e)
       /\ RedRule(x, M, m1, c, Nil)
       /\ mark[g] = "red" /\ c # Nil => mark[c] = "black"
  <2>1. M = Nodes \ {g} /\ m1 = [y \in M |-> mark[y]] /\ Hung(tree, x, q, e, c)
    BY <1>8 DEF m1
  <2> HIDE DEF M
  <2> QED BY <1>1, <1>6, <1>7, <2>1, SeveredColours
<1>11. Shape(x, M, under)
  BY <1>1, <1>8, SeveredShape DEF under
<1>12. /\ Renamed(k, g, Nil) = Nil
       /\ \A y \in M : Renamed(k, g, y) \in N /\ Renamed(g, k, Renamed(k, g, y)) = y /\ Renamed(k, g, y) # Nil
       /\ \A y \in N : Renamed(g, k, y) \in M
  <2>1. Nil \notin M
    BY <1>8
  <2> QED BY <1>2, <2>1, RenamedIs
<1>13. Renamed(k, g, c) = c /\ (c # Nil => c \in Nodes \ {k} /\ Renamed(g, k, c) = c)
  BY <1>1, <1>8 DEF Renamed
<1>14. m2 = [y \in N |-> m1[Renamed(g, k, y)]]
  BY <1>4, <1>12 DEF m1
<1>15. q \in M \cup {Nil} /\ c \in M \cup {Nil}
  BY <1>8
<1>16. /\ \E up : IF mark[g] = "red" THEN Coloured(z, N, m2, up, Nil, 0)
                  ELSE Coloured(z, N, m2, up, p, e)
       /\ RedRule(z, N, m2, c, Nil)
  <2>1. CASE mark[g] = "red"
    <3>1. PICK up : Coloured(x, M, m1, up, Nil, 0)
      BY <1>10, <2>1
    <3>2. Nil \in M \cup {Nil}
      OBVIOUS
    <3> HIDE DEF M, N
    <3>3. /\ \E up2 : Coloured(z, N, m2, up2, Renamed(k, g, Nil), 0)
          /\ RedRule(z, N, m2, Renamed(k, g, c), Nil)
      BY <1>2, <1>10, <1>11, <1>14, <1>15, <3>1, <3>2, RenamedColours
    <3> QED BY <1>12, <1>13, <2>1, <3>3
  <2>2. CASE mark[g] # "red"
    <3>1. PICK up : Coloured(x, M, m1, up, q, e)
      BY <1>10, <2>2
    <3> HIDE DEF M, N
    <3>3. /\ \E up2 : Coloured(z, N, m2, up2, Renamed(k, g, q), e)
          /\ RedRule(z, N, m2, Renamed(k, g, c), Nil)
      BY <1>2, <1>10, <1>11, <1>14, <1>15, <3>1, RenamedColours
    <3> QED BY <1>3, <1>13, <2>2, <3>3
  <2> QED BY <2>1, <2>2
<1>17. p \in N \cup {Nil} /\ (p = Nil <=> q = Nil)
  BY <1>3, <1>12, <1>15
<1>18. IF p = Nil THEN c = z.root ELSE e \in Sides /\ z.link[p][e] = c
  <2>1. /\ z.root = Renamed(k, g, x.root)
        /\ \A y \in M : \A f \in {-1, 0, 1} : z.link[Renamed(k, g, y)][f] = Renamed(k, g, x.link[y][f])
    BY <1>2 DEF Renames
  <2>2. CASE q = Nil
    <3>1. x.root = c
      BY <1>8, <2>2 DEF Hung
    <3> QED BY <1>13, <1>17, <2>1, <2>2, <3>1
  <2>3. CASE q # Nil
    <3>1. e \in Sides /\ x.link[q][e] = c
      BY <1>8, <1>9, <2>3 DEF Hung, Nodes
    <3>2. z.link[p][e] = Renamed(k, g, x.link[q][e])
      BY <1>3, <1>9, <1>15, <2>1, <2>3
    <3> QED BY <1>13, <1>17, <2>3, <3>1, <3>2
  <2> QED BY <2>2, <2>3
<1>19. p # Nil => BlackRoot(z, m2)
  <2> SUFFICES ASSUME p # Nil PROVE BlackRoot(z, m2)
    OBVIOUS
  <2>1. z.root = Renamed(k, g, tree.root) /\ tree.root # g
    BY <1>2, <1>8, <1>17 DEF Renames, Hung
  <2>2. tree.root \in M /\ tree.root # Nil
    <3>1. tree.root \in Nodes
      BY <1>8, RootIs
    <3> QED BY <1>8, <2>1, <3>1
  <2>3. z.root \in N /\ Renamed(g, k, z.root) = tree.root
    BY <1>12, <2>1, <2>2
  <2>4. m2[z.root] = mark[tree.root]
    BY <1>4, <2>3
  <2> QED BY <1>7, <2>2, <2>4 DEF BlackRoot
<1>20. c # Nil => c \in Nodes /\ m2[c] = mark[c]
  BY <1>4, <1>13
<1>21. c \in N \cup {Nil}
  BY <1>13
<1> QED BY <1>7, <1>8, <1>9, <1>10, <1>16, <1>17, <1>18, <1>19, <1>20, <1>21 DEF g, c, q, p, e, z, m2

LEMMA RbEraseKeeps ==
  ASSUME WellFormed(tree), Painted(tree, Nodes, mark, fix), NEW k \in Nat, RbErase(k)
  PROVE  WellFormed(tree') /\ Painted(tree', Nodes', mark', fix') /\ Nodes' = Nodes \ {k}
<1> DEFINE g == Gone(k)
           c == OnlyChild(g)
           p == NewName(k, Parent(g))
           e == DirOf(tree, g)
           z == Unlinked(k)
           m2 == MarksWithout(k)
           N == Nodes \ {k}
           loops == ~Red(g) /\ ~Red(c)
<1>1. /\ fix = NoFix /\ HasKey(k) /\ tree' = z
      /\ mark' = IF loops THEN m2 ELSE Blackened(IF Red(g) THEN m2 ELSE Blackened(m2, c), tree'.root)
      /\ fix' = IF loops THEN [loop |-> "erase", child |-> c, parent |-> p, dir |-> e] ELSE NoFix
  BY DEF RbErase, Ready
<1>2. PICK sub : Shape(tree, Nodes, sub)
  BY DEF WellFormed, Nodes
<1>3. Typed(tree)
  BY DEF WellFormed
<1>4. k \in Nodes
  BY <1>1, <1>2, ContainsIs
<1>5. Settled(tree, Nodes, mark)
  BY <1>1, LoopIs
<1>6. /\ g \in Nodes /\ c \in N \cup {Nil} /\ p \in N \cup {Nil} /\ e \in {-1, 0, 1} /\ Nil \notin Nodes
      /\ IF p = Nil THEN c = z.root ELSE e \in Sides /\ z.link[p][e] = c
      /\ mark \in [Nodes -> {"red", "black"}]
      /\ c # Nil => c \in Nodes /\ m2[c] = mark[c]
      /\ p # Nil => BlackRoot(z, m2)
      /\ \E under : IF mark[g] = "red" THEN Coloured(z, N, m2, under, Nil, 0)
                    ELSE Coloured(z, N, m2, under, p, e)
      /\ RedRule(z, N, m2, c, Nil)
      /\ mark[g] = "red" /\ c # Nil => mark[c] = "black"
  BY <1>2, <1>3, <1>4, <1>5, ErasedColours
<1>7. /\ Typed(z) /\ DOMAIN z.link = N
      /\ \E under : Shape(z, N, under)
  BY <1>2, <1>3, <1>4, UnlinkedShape
<1> HIDE DEF g, c, p, e, z, m2, N, loops
<1>8. WellFormed(tree') /\ Nodes' = N /\ N = Nodes \ {k}
  BY <1>1, <1>7 DEF WellFormed, Nodes, N
<1>9. Nil \notin N
  BY <1>6 DEF N
<1>10. PICK under : Shape(z, N, under)
  BY <1>7
<1>11. c # Nil => mark[c] = "red" \/ mark[c] = "black"
  BY <1>6
<1>12. mark[g] # "red" /\ c # Nil /\ mark[c] = "red" => ~loops
  BY DEF loops, Red
<1>13. CASE loops
  <2>1. mark' = m2 /\ fix' = [loop |-> "erase", child |-> c, parent |-> p, dir |-> e]
    BY <1>1, <1>13
  <2>2. mark[g] # "red" /\ (c # Nil => mark[c] # "red")
    BY <1>6, <1>13 DEF loops, Red
  <2>3. \E h : Coloured(z, N, m2, h, p, e)
    BY <1>6, <2>2
  <2>4. RedRule(z, N, m2, Nil, c)
    <3>1. \A n \in N : m2[n] = "red" => n # c
      BY <1>6, <1>9, <2>2
    <3>2. RedRule(z, N, m2, c, Nil)
      BY <1>6
    <3> QED BY <1>9, <3>1, <3>2 DEF RedRule
  <2>5. BlackRoot(z, m2)
    <3>1. CASE p = Nil
      <4>1. z.root = c
        BY <1>6, <3>1
      <4> QED BY <1>6, <2>2, <4>1 DEF BlackRoot
    <3> QED BY <1>6, <3>1
  <2>6. Lacking(z, N, m2, c, p, e)
    BY <1>6, <2>3, <2>4, <2>5 DEF Lacking
  <2> QED BY <1>1, <1>6, <1>8, <2>1, <2>6 DEF Painted
<1>14. CASE ~loops
  <2> DEFINE m3 == IF Red(g) THEN m2 ELSE Blackened(m2, c)
  <2>1. mark' = Blackened(m3, z.root) /\ fix' = NoFix
    BY <1>1, <1>14
  <2>2. /\ \E h : Coloured(z, N, m3, h, Nil, 0)
        /\ RedRule(z, N, m3, Nil, Nil)
    <3>1. CASE mark[g] = "red"
      <4>1. m3 = m2
        BY <1>6, <3>1 DEF Red
      <4>2. RedRule(z, N, m2, Nil, Nil)
        <5>1. \A n \in N : m2[n] = "red" => n # c
          BY <1>6, <1>9, <3>1
        <5>2. RedRule(z, N, m2, c, Nil)
          BY <1>6
        <5> QED BY <5>1, <5>2 DEF RedRule
      <4> HIDE DEF m3
      <4> QED BY <1>6, <3>1, <4>1, <4>2
    <3>2. CASE mark[g] # "red"
      <4>1. m3 = Blackened(m2, c) /\ c # Nil /\ mark[c] = "red"
        BY <1>14, <3>2 DEF loops, Red
      <4> HIDE DEF m3
      <4>2. PICK h : Coloured(z, N, m2, h, p, e)
        BY <1>6, <3>2
      <4>3. RedRule(z, N, m2, c, Nil) /\ m2[c] = "red"
        BY <1>6, <4>1
      <4>4. CASE p # Nil
        <5>1. p \in N /\ e \in Sides /\ c = z.link[p][e]
          BY <1>6, <4>4
        <5> QED BY <1>10, <4>1, <4>2, <4>3, <5>1, PayRed
      <4>5. CASE p = Nil
        <5>1. c = z.root
          BY <1>6, <4>5
        <5>2. Coloured(z, N, m2, h, Nil, 0)
          <6>1. \A n \in N : \A f \in Sides : Owed(p, e, n, f) = 0 /\ Owed(Nil, 0, n, f) = 0
            BY <1>9, <4>5 DEF Owed
          <6> QED BY <4>2, <6>1 DEF Coloured
        <5>3. /\ \E up : Coloured(z, N, Blackened(m2, z.root), up, Nil, 0)
              /\ RedRule(z, N, Blackened(m2, z.root), c, Nil)
              /\ z.root # Nil => Blackened(m2, z.root)[z.root] = "black"
          BY <1>10, <4>3, <5>2, BlackenRoot
        <5>4. (\E up : Coloured(z, N, m3, up, Nil, 0)) /\ RedRule(z, N, m3, c, Nil) /\ m3[c] = "black"
          BY <4>1, <5>1, <5>3
        <5> QED BY <5>4 DEF RedRule
      <4> QED BY <4>4, <4>5
    <3> QED BY <3>1, <3>2
  <2> HIDE DEF m3
  <2>3. PICK h : Coloured(z, N, m3, h, Nil, 0)
    BY <2>2
  <2>4. /\ \E up : Coloured(z, N, Blackened(m3, z.root), up, Nil, 0)
        /\ RedRule(z, N, Blackened(m3, z.root), Nil, Nil)
        /\ z.root # Nil => Blackened(m3, z.root)[z.root] = "black"
    BY <1>10, <2>2, <2>3, BlackenRoot
  <2>5. Settled(z, N, mark')
    BY <2>1, <2>4 DEF Settled, BlackRoot
  <2> QED BY <1>1, <1>8, <2>1, <2>5 DEF Painted
<1> QED BY <1>13, <1>14

-----------------------------------------------------------------------------
(* A loop of avl_tree is at a node of the tree. *)
Balancing(N, f) ==
    \/ f \in {NoFix, Crashed}
    \/ \E l \in {"grown", "shrunk"} : \E n \in N : \E d \in {-1, 0, 1} : f = [loop |-> l, node |-> n, dir |-> d]

LEMMA ClimbingIs ==
  ASSUME Balancing(Nodes, fix), Climbing
  PROVE  /\ fix = [loop |-> fix.loop, node |-> fix.node, dir |-> fix.dir]
         /\ fix.loop \in {"grown", "shrunk"} /\ fix.node \in Nodes
<1>1. NoFix.loop = "none" /\ Crashed.loop = "crashed"
  BY DEF NoFix, Crashed
<1>2. fix \notin {NoFix, Crashed}
  BY <1>1 DEF Climbing
<1> QED BY <1>2 DEF Balancing

LEMMA DirOfIs == \A t, n : DirOf(t, n) \in {-1, 0, 1}
BY DEF DirOf

(* A loop that goes on from n is at a node, or done. *)
LEMMA OnwardIs ==
  ASSUME Balancing(Nodes, fix), Climbing, NEW t, NEW sub, Shape(t, Nodes, sub), NEW n \in Nodes
  PROVE  Balancing(Nodes, Onward(n, t))
<1>1. /\ fix = [loop |-> fix.loop, node |-> fix.node, dir |-> fix.dir]
      /\ fix.loop \in {"grown", "shrunk"} /\ fix.node \in Nodes
  BY ClimbingIs
<1> DEFINE p == t.link[n][0]
           d == DirOf(t, n)
<1>2. p \in Nodes \cup {Nil} /\ d \in {-1, 0, 1}
  BY DirIs, DirOfIs
<1>3. CASE p = Nil
  BY <1>3 DEF Onward, Balancing
<1>4. CASE p # Nil
  <2>1. Onward(n, t) = [fix EXCEPT !.node = p, !.dir = d]
    BY <1>4 DEF Onward
  <2> HIDE DEF p, d
  <2>2. Onward(n, t) = [loop |-> fix.loop, node |-> p, dir |-> d]
    BY <1>1, <2>1
  <2> QED BY <1>1, <1>2, <1>4, <2>2 DEF Balancing
<1> QED BY <1>3, <1>4

LEMMA NoteFactorKeeps ==
  ASSUME WellFormed(tree), Balancing(Nodes, fix), NoteFactor
  PROVE  WellFormed(tree') /\ Balancing(Nodes', fix') /\ Nodes' = Nodes
<1>1. Climbing /\ tree' = tree /\ (fix' = NoFix \/ fix' = Onward(fix.node, tree))
  BY DEF NoteFactor
<1>2. PICK sub : Shape(tree, Nodes, sub)
  BY DEF WellFormed, Nodes
<1>3. fix.node \in Nodes
  BY <1>1, ClimbingIs
<1>4. Balancing(Nodes, Onward(fix.node, tree)) /\ Balancing(Nodes, NoFix)
  BY <1>1, <1>2, <1>3, OnwardIs DEF Balancing
<1>5. Nodes' = Nodes
  BY <1>1 DEF Nodes
<1> QED BY <1>1, <1>4, <1>5

(* A rotation under n leaves n a child on that side. *)
LEMMA StillChild ==
  ASSUME NEW t, NEW N, NEW sub, Shape(t, N, sub), Typed(t), NEW n \in N, NEW s \in Sides, NEW c, NEW e \in Sides,
         c = t.link[n][s], c # Nil
  PROVE  c \in N /\ Rotated(t, c, e).link[n][s] # Nil
<1>1. c \in N /\ t.link[c][0] = n /\ c # n
  BY ChildIs
<1> DEFINE i == t.link[c][e]
           z == Rotated(t, c, e)
<1>2. CASE i = Nil
  BY <1>1, <1>2 DEF Rotated
<1>3. CASE i # Nil
  <2> DEFINE a == t.link[i][-e]
             o == t.link[c][-e]
             w == t.link[i][e]
  <2>1. Spinning(t, N, sub, c, e, i, a, o, w, n)
    BY <1>1, <1>3 DEF Spinning
  <2> HIDE DEF i, a, o, w
  <2>2. Spun(t, z, N, c, e, i, a, n)
    BY <2>1, RotatedSpins
  <2> HIDE DEF z
  <2>3. n \notin {c, i}
    BY <2>1, SpinningIs
  <2>4. z.link[n][s] = i
    BY <2>1, <2>2, <2>3, SpunLinks
  <2> QED BY <1>1, <1>3, <2>4 DEF z
<1> QED BY <1>2, <1>3

LEMMA RotateKeeps ==
  ASSUME WellFormed(tree), Balancing(Nodes, fix), Rotate
  PROVE  WellFormed(tree') /\ Balancing(Nodes', fix') /\ Nodes' = Nodes
<1> DEFINE n == fix.node
           s == Factor \div 2
           c == Link(n, s)
           turned == Rebalanced(Noted, n, s)
           t1 == IF Noted[c] = s THEN tree ELSE Rotated(tree, c, -s)
           z == Rotated(t1, n, s)
           top == z.link[n][0]
<1>1. /\ Climbing /\ Factor \in {-2, 2} /\ c # Nil /\ tree' = turned.tree
      /\ fix' = NoFix \/ fix' = Onward(turned.tree.link[n][0], turned.tree)
  BY DEF Rotate
<1>2. turned.tree = z
  BY DEF Rebalanced
<1>3. PICK sub : Shape(tree, Nodes, sub)
  BY DEF WellFormed, Nodes
<1>4. Typed(tree) /\ DOMAIN tree.link = Nodes /\ Nil \notin Nodes
  BY <1>3, RootIs DEF WellFormed, Nodes
<1>5. n \in Nodes
  BY <1>1, ClimbingIs
<1>6. s \in Sides /\ -s \in Sides
  BY <1>1 DEF Sides
<1>7. c = tree.link[n][s]
  BY DEF Link
<1> HIDE DEF n, s, c, turned, t1
<1>8. /\ Typed(t1) /\ DOMAIN t1.link = Nodes /\ t1.link[n][s] # Nil /\ \E under : Shape(t1, Nodes, under)
  <2>1. CASE t1 = tree
    BY <1>1, <1>3, <1>4, <1>7, <2>1
  <2>2. CASE t1 = Rotated(tree, c, -s)
    <3>1. c \in Nodes /\ Rotated(tree, c, -s).link[n][s] # Nil
      BY <1>1, <1>3, <1>4, <1>5, <1>6, <1>7, StillChild
    <3>2. /\ Typed(Rotated(tree, c, -s)) /\ DOMAIN Rotated(tree, c, -s).link = Nodes
          /\ \E under : Shape(Rotated(tree, c, -s), Nodes, under)
      BY <1>3, <1>4, <1>6, <3>1, RotatedIs
    <3> QED BY <2>2, <3>1, <3>2
  <2> QED BY <2>1, <2>2 DEF t1
<1>9. PICK under : Shape(t1, Nodes, under)
  BY <1>8
<1>10. WellFormed(z) /\ DOMAIN z.link = Nodes /\ \E above : Shape(z, Nodes, above)
  BY <1>5, <1>6, <1>8, <1>9, RotatedIs
<1>11. top \in Nodes
  <2> DEFINE c1 == t1.link[n][s]
             i == t1.link[c1][-s]
             o == t1.link[n][-s]
             w == t1.link[c1][s]
             q == t1.link[n][0]
  <2>1. Spinning(t1, Nodes, under, n, s, c1, i, o, w, q)
    BY <1>5, <1>6, <1>8, <1>9 DEF Spinning
  <2> HIDE DEF c1, i, o, w, q
  <2>2. Spun(t1, z, Nodes, n, s, c1, i, q)
    BY <2>1, RotatedSpins
  <2> HIDE DEF z
  <2>3. z.link[n][0] = c1 /\ c1 \in Nodes
    BY <2>1, <2>2, SpunLinks, SpinningIs
  <2> QED BY <2>3
<1> HIDE DEF z, top
<1>12. PICK above : Shape(z, Nodes, above)
  BY <1>10
<1>13. Balancing(Nodes, Onward(top, z)) /\ Balancing(Nodes, NoFix)
  BY <1>1, <1>11, <1>12, OnwardIs DEF Balancing
<1>14. fix' = NoFix \/ fix' = Onward(top, z)
  BY <1>1, <1>2 DEF top
<1>15. tree' = z /\ Nodes' = Nodes
  BY <1>1, <1>2, <1>10 DEF Nodes
<1> QED BY <1>10, <1>13, <1>14, <1>15

LEMMA AvlInsertKeeps ==
  ASSUME WellFormed(tree), NEW k \in Nat \ {0}, NEW v, AvlInsert(k, v)
  PROVE  WellFormed(tree') /\ Balancing(Nodes', fix') /\ Nodes' = Nodes \cup {k}
<1> DEFINE p == Place(k)
           d == Toward(k, p)
<1>1. /\ ~HasKey(k) /\ tree' = Linked(k)
      /\ fix' = IF tree.root = Nil THEN NoFix ELSE [loop |-> "grown", node |-> p, dir |-> d]
  BY DEF AvlInsert
<1>2. PICK sub : Shape(tree, Nodes, sub)
  BY DEF WellFormed, Nodes
<1>3. Typed(tree)
  BY DEF WellFormed
<1>4. k \notin Nodes
  BY <1>1, <1>2, ContainsIs
<1>5. Typed(Linked(k)) /\ DOMAIN Linked(k).link = Nodes \cup {k} /\ \E under : Shape(Linked(k), Nodes \cup {k}, under)
  BY <1>2, <1>3, <1>4, LinkedShape
<1>6. WellFormed(tree') /\ Nodes' = Nodes \cup {k}
  BY <1>1, <1>5 DEF WellFormed, Nodes
<1>7. tree.root # Nil => p \in Nodes /\ d \in {-1, 0, 1}
  <2>1. d \in {-1, 0, 1}
    BY TowardSides DEF Sides
  <2> QED BY <1>2, <2>1, PlaceIs
<1> HIDE DEF p, d
<1> QED BY <1>1, <1>6, <1>7 DEF Balancing

LEMMA AvlEraseKeeps ==
  ASSUME WellFormed(tree), NEW k \in Nat, AvlErase(k)
  PROVE  WellFormed(tree') /\ Balancing(Nodes', fix') /\ Nodes' = Nodes \ {k}
<1> DEFINE g == Gone(k)
           q == Parent(g)
           e == DirOf(tree, g)
<1>1. /\ HasKey(k) /\ tree' = Unlinked(k)
      /\ fix' = IF q = Nil THEN NoFix ELSE [loop |-> "shrunk", node |-> NewName(k, q), dir |-> e]
  BY DEF AvlErase
<1>2. PICK sub : Shape(tree, Nodes, sub)
  BY DEF WellFormed, Nodes
<1>3. Typed(tree)
  BY DEF WellFormed
<1>4. k \in Nodes
  BY <1>1, <1>2, ContainsIs
<1>5. Typed(Unlinked(k)) /\ DOMAIN Unlinked(k).link = Nodes \ {k} /\ \E under : Shape(Unlinked(k), Nodes \ {k}, under)
  BY <1>2, <1>3, <1>4, UnlinkedShape
<1>6. WellFormed(tree') /\ Nodes' = Nodes \ {k}
  BY <1>1, <1>5 DEF WellFormed, Nodes
<1>7. Severable(tree, Nodes, sub, g, GoneSide(k), OnlyChild(g), q, e)
  BY <1>2, <1>3, <1>4, GoneIs
<1> DEFINE c == OnlyChild(g)
<1>8. g \in Nodes /\ q \in Nodes \cup {Nil} /\ q # g
  <2> HIDE DEF g, q, e, c
  <2> QED BY <1>7, SeverableIs DEF c
<1>9. q # Nil => NewName(k, q) \in Nodes \ {k}
  BY <1>8 DEF NewName
<1>10. e \in {-1, 0, 1}
  BY DirOfIs
<1> HIDE DEF g, q, e, c
<1> QED BY <1>1, <1>6, <1>9, <1>10 DEF Balancing

-----------------------------------------------------------------------------
(* The trees, whatever is called.  A tree is well formed even between two   *)
(* rounds of a loop; its nodes are the keys that have a value.             *)
TreeInv ==
    /\ WellFormed(tree) /\ Nodes \subseteq Keys
    /\ values = [n \in Nodes |-> values[n]]
    /\ kind = "rb" => Painted(tree, Nodes, mark, fix)
    /\ kind = "avl" => Balancing(Nodes, fix)

(* A step of the map that the trees are, on the values themselves. *)
Stores(k, v) ==
    /\ asked = NoCall /\ asked' = <<"put", k, v>>
    /\ values' = [j \in DOMAIN values \cup {k} |-> IF j = k THEN v ELSE values[j]]

Drops(k) ==
    /\ asked = NoCall /\ asked' = <<"remove", k>>
    /\ values' = [j \in DOMAIN values \ {k} |-> values[j]]

Serves ==
    \/ \E k \in Keys : Drops(k) \/ \E v \in ValuesOf[k] : Stores(k, v)
    \/ asked # NoCall /\ asked' = NoCall /\ UNCHANGED values
    \/ UNCHANGED <<values, asked>>

LEMMA KeysAre == \A k \in Keys : k \in Nat \ {0} /\ k \in Nat
BY KeysAssumption

LEMMA TreeInvHoldsFirst == ContainersInit => TreeInv
<1> SUFFICES ASSUME ContainersInit PROVE TreeInv
  OBVIOUS
<1>1. /\ tree = [root |-> Nil, link |-> [n \in {} |-> Nil]] /\ values = [n \in {} |-> 0] /\ fix = NoFix
      /\ mark = [n \in {} |-> 0]
  BY DEF ContainersInit, TreeInit
<1>2. tree.root = Nil /\ DOMAIN tree.link = {} /\ Nodes = {}
  BY <1>1 DEF Nodes
<1>3. tree \in [root : Nat, link : [{} -> [{-1, 0, 1} -> Nat]]]
  <2>1. [n \in {} |-> Nil] \in [{} -> [{-1, 0, 1} -> Nat]]
    OBVIOUS
  <2> QED BY <1>1, <2>1 DEF Nil
<1>4. Typed(tree)
  BY <1>2, <1>3 DEF Typed
<1>5. Woven(tree, {})
  <2>1. IsFiniteSet({})
    BY FS_EmptySet
  <2> QED BY <1>2, <1>3, <2>1 DEF Woven
<1> DEFINE sub == [n \in {Nil} |-> {}]
<1>6. Sorted(tree, {}, sub)
  BY DEF Sorted
<1>7. WellFormed(tree)
  <2> HIDE DEF sub
  <2> QED BY <1>2, <1>4, <1>5, <1>6 DEF WellFormed, Shape
<1>8. mark \in [{} -> {"red", "black"}]
  BY <1>1
<1> DEFINE h == [n \in {Nil} |-> 0]
<1>9. Coloured(tree, {}, mark, h, Nil, 0)
  BY <1>8 DEF Coloured
<1>10. Settled(tree, {}, mark)
  <2> HIDE DEF h
  <2> QED BY <1>2, <1>9 DEF Settled, RedRule, BlackRoot
<1>11. Painted(tree, Nodes, mark, fix) /\ Balancing(Nodes, fix)
  BY <1>1, <1>2, <1>10 DEF Painted, Balancing
<1>12. values = [n \in Nodes |-> values[n]]
  BY <1>1, <1>2
<1> QED BY <1>2, <1>7, <1>11, <1>12 DEF TreeInv

LEMMA HasShape ==
  ASSUME TreeInv
  PROVE  Typed(tree) /\ (\E sub : Shape(tree, Nodes, sub)) /\ \A k \in Keys : HasKey(k) <=> k \in Nodes
<1>1. PICK sub : Shape(tree, Nodes, sub)
  BY DEF TreeInv, WellFormed, Nodes
<1>2. \A k \in Keys : HasKey(k) <=> k \in Nodes
  BY <1>1, KeysAre, ContainsIs
<1> QED BY <1>1, <1>2 DEF TreeInv, WellFormed

LEMMA ContentsAreValues ==
  ASSUME TreeInv
  PROVE  Contents = values
<1>1. {j \in Keys : HasKey(j)} = Nodes
  BY HasShape DEF TreeInv
<1>2. Contents = [k \in Nodes |-> values[k]]
  BY <1>1 DEF Contents
<1> QED BY <1>2 DEF TreeInv

(* What every call does to the values. *)
LEMMA OverwriteStores ==
  ASSUME TreeInv, UNCHANGED kind, NEW k \in Keys, NEW v, Overwrite(k, v)
  PROVE  TreeInv' /\ Stores(k, v)
<1>1. /\ fix = NoFix /\ asked = NoCall /\ HasKey(k) /\ values' = [values EXCEPT ![k] = v]
      /\ asked' = <<"put", k, v>> /\ tree' = tree /\ mark' = mark /\ fix' = fix
  BY DEF Overwrite, Ready
<1>2. k \in Nodes
  BY <1>1, HasShape
<1>3. values = [n \in Nodes |-> values[n]]
  BY DEF TreeInv
<1>4. Nodes' = Nodes
  BY <1>1 DEF Nodes
<1>5. values' = [n \in Nodes |-> values'[n]]
  BY <1>1, <1>3
<1>6. Stores(k, v)
  <2>1. DOMAIN values \cup {k} = Nodes
    BY <1>2, <1>3
  <2>2. values' = [j \in Nodes |-> IF j = k THEN v ELSE values[j]]
    BY <1>1, <1>2, <1>3
  <2> QED BY <1>1, <2>1, <2>2 DEF Stores
<1> QED BY <1>1, <1>4, <1>5, <1>6 DEF TreeInv

LEMMA WithStores ==
  ASSUME TreeInv, Ready, NEW k \in Keys, NEW v, values' = With(values, k, v), asked' = <<"put", k, v>>,
         Nodes' = Nodes \cup {k}
  PROVE  values' = [n \in Nodes' |-> values'[n]] /\ Nodes' \subseteq Keys /\ Stores(k, v)
<1>1. values' = [j \in DOMAIN values \cup {k} |-> IF j = k THEN v ELSE values[j]]
  BY DEF With
<1>2. DOMAIN values = Nodes
  BY DEF TreeInv
<1>3. values' = [n \in Nodes' |-> values'[n]]
  BY <1>1, <1>2
<1>4. Nodes' \subseteq Keys
  BY DEF TreeInv
<1> QED BY <1>1, <1>3, <1>4 DEF Stores, Ready

LEMMA WithoutDrops ==
  ASSUME TreeInv, Ready, NEW k \in Keys, values' = ValuesWithout(k), asked' = <<"remove", k>>,
         Nodes' = Nodes \ {k}
  PROVE  values' = [n \in Nodes' |-> values'[n]] /\ Nodes' \subseteq Keys /\ Drops(k)
<1>1. values' = [j \in Nodes \ {k} |-> values[j]]
  BY DEF ValuesWithout
<1>2. DOMAIN values = Nodes
  BY DEF TreeInv
<1>3. values' = [n \in Nodes' |-> values'[n]]
  BY <1>1
<1>4. Nodes' \subseteq Keys
  BY DEF TreeInv
<1> QED BY <1>1, <1>2, <1>3, <1>4 DEF Drops, Ready

LEMMA EraseNothingDrops ==
  ASSUME TreeInv, UNCHANGED kind, NEW k \in Keys, EraseNothing(k)
  PROVE  TreeInv' /\ Drops(k)
<1>1. /\ asked = NoCall /\ ~HasKey(k) /\ asked' = <<"remove", k>>
      /\ tree' = tree /\ mark' = mark /\ fix' = fix /\ values' = values
  BY DEF EraseNothing, Ready
<1>2. k \notin Nodes
  BY <1>1, HasShape
<1>3. values = [n \in Nodes |-> values[n]] /\ DOMAIN values \ {k} = Nodes
  BY <1>2 DEF TreeInv
<1>4. Nodes' = Nodes
  BY <1>1 DEF Nodes
<1>5. values' = [j \in DOMAIN values \ {k} |-> values[j]]
  BY <1>1, <1>3
<1>6. values' = [n \in Nodes |-> values'[n]]
  BY <1>1, <1>3
<1> QED BY <1>1, <1>4, <1>5, <1>6 DEF TreeInv, Drops

LEMMA ReturnKeeps ==
  ASSUME TreeInv, UNCHANGED kind, Return
  PROVE  TreeInv' /\ Serves
<1>1. asked # NoCall /\ asked' = NoCall /\ tree' = tree /\ mark' = mark /\ fix' = fix /\ values' = values
  BY DEF Return
<1>2. Nodes' = Nodes
  BY <1>1 DEF Nodes
<1> QED BY <1>1, <1>2 DEF TreeInv, Serves

(* A round of a loop leaves the values alone. *)
LEMMA RbFixKeeps ==
  ASSUME TreeInv, UNCHANGED kind, kind = "rb", RbFix
  PROVE  TreeInv' /\ UNCHANGED <<values, asked>>
<1>1. UNCHANGED <<values, asked>>
  BY DEF RbFix, InsertFixed, Recolour, Restructure, EraseFixed, RaiseRedSibling, MoveUp, Borrow
<1>2. WellFormed(tree) /\ Painted(tree, Nodes, mark, fix)
  BY DEF TreeInv
<1>3. WellFormed(tree') /\ Painted(tree', Nodes', mark', fix') /\ Nodes' = Nodes
  BY <1>2, InsertFixedKeeps, RecolourKeeps, RestructureKeeps, EraseFixedKeeps, RaiseRedSiblingKeeps,
     MoveUpKeeps, BorrowKeeps DEF RbFix
<1> QED BY <1>1, <1>3 DEF TreeInv

LEMMA RbStepKeeps ==
  ASSUME TreeInv, UNCHANGED kind, kind = "rb", RbNext
  PROVE  TreeInv' /\ Serves
<1>1. CASE RbFix
  BY <1>1, RbFixKeeps DEF Serves
<1>2. CASE Return
  BY <1>2, ReturnKeeps
<1>3. CASE RbCall
  <2>1. PICK k \in Keys :
          \/ \E v \in ValuesOf[k] : RbOverwrite(k, v) \/ RbInsert(k, v)
          \/ RbErase(k) \/ RbEraseNothing(k)
    BY <1>3 DEF RbCall
  <2>2. ASSUME NEW v \in ValuesOf[k], RbOverwrite(k, v) PROVE TreeInv' /\ Serves
    BY <2>2, OverwriteStores DEF RbOverwrite, Serves
  <2>3. WellFormed(tree) /\ Painted(tree, Nodes, mark, fix) /\ k \in Nat \ {0} /\ k \in Nat
    BY KeysAre DEF TreeInv
  <2>4. ASSUME NEW v \in ValuesOf[k], RbInsert(k, v) PROVE TreeInv' /\ Serves
    <3>1. WellFormed(tree') /\ Painted(tree', Nodes', mark', fix') /\ Nodes' = Nodes \cup {k}
      BY <2>3, <2>4, RbInsertKeeps
    <3>2. Ready /\ values' = With(values, k, v) /\ asked' = <<"put", k, v>>
      BY <2>4 DEF RbInsert
    <3>3. values' = [n \in Nodes' |-> values'[n]] /\ Nodes' \subseteq Keys /\ Stores(k, v)
      BY <3>1, <3>2, WithStores
    <3> QED BY <3>1, <3>3 DEF TreeInv, Serves
  <2>5. CASE RbErase(k)
    <3>1. WellFormed(tree') /\ Painted(tree', Nodes', mark', fix') /\ Nodes' = Nodes \ {k}
      BY <2>3, <2>5, RbEraseKeeps
    <3>2. Ready /\ values' = ValuesWithout(k) /\ asked' = <<"remove", k>>
      BY <2>5 DEF RbErase
    <3>3. values' = [n \in Nodes' |-> values'[n]] /\ Nodes' \subseteq Keys /\ Drops(k)
      BY <3>1, <3>2, WithoutDrops
    <3> QED BY <3>1, <3>3 DEF TreeInv, Serves
  <2>6. CASE RbEraseNothing(k)
    BY <2>6, EraseNothingDrops DEF RbEraseNothing, Serves
  <2> QED BY <2>1, <2>2, <2>4, <2>5, <2>6
<1> QED BY <1>1, <1>2, <1>3 DEF RbNext

LEMMA AvlStepKeeps ==
  ASSUME TreeInv, UNCHANGED kind, kind = "avl", AvlNext
  PROVE  TreeInv' /\ Serves
<1>1. WellFormed(tree) /\ Balancing(Nodes, fix)
  BY DEF TreeInv
<1>2. CASE NoteFactor \/ Rotate
  <2>1. UNCHANGED <<values, asked>>
    BY <1>2 DEF NoteFactor, Rotate
  <2>2. WellFormed(tree') /\ Balancing(Nodes', fix') /\ Nodes' = Nodes
    BY <1>1, <1>2, NoteFactorKeeps, RotateKeeps
  <2> QED BY <2>1, <2>2 DEF TreeInv, Serves
<1>3. CASE Crash
  <2>1. UNCHANGED <<tree, values, asked>> /\ fix' = Crashed
    BY <1>3 DEF Crash
  <2>2. Nodes' = Nodes
    BY <2>1 DEF Nodes
  <2> QED BY <2>1, <2>2 DEF TreeInv, Serves, Balancing
<1>4. CASE Ended
  <2>1. UNCHANGED <<tree, values, asked, fix>>
    BY <1>4 DEF Ended, treeVars
  <2>2. Nodes' = Nodes
    BY <2>1 DEF Nodes
  <2> QED BY <2>1, <2>2 DEF TreeInv, Serves
<1>5. CASE Return
  BY <1>5, ReturnKeeps
<1>6. CASE AvlCall
  <2>1. PICK k \in AvlKeys :
          \/ \E v \in ValuesOf[k] : AvlOverwrite(k, v) \/ AvlInsert(k, v)
          \/ AvlErase(k) \/ AvlEraseNothing(k)
    BY <1>6 DEF AvlCall
  <2>2. k \in Keys /\ k \in Nat \ {0} /\ k \in Nat
    BY AvlKeysAssumption, KeysAre
  <2>3. ASSUME NEW v \in ValuesOf[k], AvlOverwrite(k, v) PROVE TreeInv' /\ Serves
    BY <2>2, <2>3, OverwriteStores DEF AvlOverwrite, Serves
  <2>4. ASSUME NEW v \in ValuesOf[k], AvlInsert(k, v) PROVE TreeInv' /\ Serves
    <3>1. WellFormed(tree') /\ Balancing(Nodes', fix') /\ Nodes' = Nodes \cup {k}
      BY <1>1, <2>2, <2>4, AvlInsertKeeps
    <3>2. Ready /\ values' = With(values, k, v) /\ asked' = <<"put", k, v>>
      BY <2>4 DEF AvlInsert
    <3>3. values' = [n \in Nodes' |-> values'[n]] /\ Nodes' \subseteq Keys /\ Stores(k, v)
      BY <2>2, <3>1, <3>2, WithStores
    <3> QED BY <2>2, <3>1, <3>3 DEF TreeInv, Serves
  <2>5. CASE AvlErase(k)
    <3>1. WellFormed(tree') /\ Balancing(Nodes', fix') /\ Nodes' = Nodes \ {k}
      BY <1>1, <2>2, <2>5, AvlEraseKeeps
    <3>2. Ready /\ values' = ValuesWithout(k) /\ asked' = <<"remove", k>>
      BY <2>5 DEF AvlErase
    <3>3. values' = [n \in Nodes' |-> values'[n]] /\ Nodes' \subseteq Keys /\ Drops(k)
      BY <2>2, <3>1, <3>2, WithoutDrops
    <3> QED BY <2>2, <3>1, <3>3 DEF TreeInv, Serves
  <2>6. CASE AvlEraseNothing(k)
    BY <2>2, <2>6, EraseNothingDrops DEF AvlEraseNothing, Serves
  <2> QED BY <2>1, <2>3, <2>4, <2>5, <2>6
<1> QED BY <1>2, <1>3, <1>4, <1>5, <1>6 DEF AvlNext, AvlFix

LEMMA NextKeepsTrees == ASSUME TreeInv, [ContainersNext]_containerVars PROVE TreeInv' /\ Serves
<1>1. CASE kind = "rb" /\ RbNext /\ UNCHANGED kind
  BY <1>1, RbStepKeeps
<1>2. CASE kind = "avl" /\ AvlNext /\ UNCHANGED kind
  BY <1>2, AvlStepKeeps
<1>3. CASE UNCHANGED <<treeVars, kind>>
  <2>1. UNCHANGED <<tree, mark, values, fix, asked, kind>>
    BY <1>3 DEF treeVars
  <2>2. Nodes' = Nodes
    BY <2>1 DEF Nodes
  <2> QED BY <2>1, <2>2 DEF TreeInv, Serves
<1> QED BY <1>1, <1>2, <1>3 DEF ContainersNext, containerVars

LEMMA TreeInvAlways == ContainersSpec => []TreeInv
BY TreeInvHoldsFirst, NextKeepsTrees, PTL DEF ContainersSpec

LEMMA TreesIterate == TreeInv => IteratesInOrder
<1> SUFFICES ASSUME TreeInv PROVE IteratesInOrder
  OBVIOUS
<1>1. PICK sub : Shape(tree, Nodes, sub)
  BY HasShape
<1> QED BY <1>1, ShapeIterates

LEMMA SettledIsBalanced == TreeInv => RbBalanced
<1> SUFFICES ASSUME TreeInv, kind = "rb", fix = NoFix PROVE RedBlack
  BY DEF RbBalanced
<1>1. PICK sub : Shape(tree, Nodes, sub)
  BY HasShape
<1>2. Settled(tree, Nodes, mark)
  BY LoopIs DEF TreeInv
<1>3. PICK h : Coloured(tree, Nodes, mark, h, Nil, 0)
  BY <1>2 DEF Settled
<1>4. ~Red(tree.root) /\ RedRule(tree, Nodes, mark, Nil, Nil)
  BY <1>2 DEF Settled, BlackRoot, Red
<1> QED BY <1>1, <1>3, <1>4, ColouredIsRedBlack

(* From any node of a tree, between any two rounds of a loop, an iterator   *)
(* steps to the next greater and the next smaller key, and begin is the    *)
(* least: for any keys and every sequence of calls.                        *)
THEOREM TreesIterateInOrder == ContainersSpec => []IteratesInOrder
BY TreeInvAlways, TreesIterate, PTL

(* An rb_tree is a red-black tree whenever no loop of insert or erase runs: *)
(* for any keys and every sequence of calls.                               *)
THEOREM RbTreeStaysBalanced == ContainersSpec => []RbBalanced
BY TreeInvAlways, SettledIsBalanced, PTL

LEMMA ServesIsDictionaryStep ==
  ASSUME TreeInv, TreeInv', Serves
  PROVE  [Abstract!DictionaryNext]_<<Contents, asked>>
<1>1. Contents = values /\ Contents' = values'
  <2>1. Contents = values
    BY ContentsAreValues
  <2>2. TreeInv' => (Contents = values)'
    BY ContentsAreValues, PTL
  <2> QED BY <2>1, <2>2
<1>2. CASE \E k \in Keys : Drops(k) \/ \E v \in ValuesOf[k] : Stores(k, v)
  BY <1>1, <1>2 DEF Drops, Stores, NoCall, Abstract!DictionaryNext, Abstract!Remove, Abstract!Put
<1>3. CASE asked # NoCall /\ asked' = NoCall /\ UNCHANGED values
  BY <1>1, <1>3 DEF NoCall, Abstract!DictionaryNext, Abstract!Answer
<1>4. CASE UNCHANGED <<values, asked>>
  BY <1>1, <1>4
<1> QED BY <1>2, <1>3, <1>4 DEF Serves

LEMMA EmptyDictionary == ContainersInit => Abstract!DictionaryInit
<1> SUFFICES ASSUME ContainersInit PROVE Abstract!DictionaryInit
  OBVIOUS
<1>1. Contents = values
  BY TreeInvHoldsFirst, ContentsAreValues
<1> QED BY <1>1 DEF ContainersInit, TreeInit, NoCall, Abstract!DictionaryInit

(* An rb_tree or avl_tree is a map: what find finds changes with a call as  *)
(* the call asks, and with no round of a rebalancing loop.                 *)
THEOREM TreesImplementDictionary == ContainersSpec => ImplementsDictionary
<1>1. TreeInv /\ TreeInv' /\ [ContainersNext]_containerVars => [Abstract!DictionaryNext]_<<Contents, asked>>
  BY NextKeepsTrees, ServesIsDictionaryStep
<1> QED BY <1>1, EmptyDictionary, TreeInvAlways, PTL
        DEF ContainersSpec, ImplementsDictionary, Abstract!DictionarySpec
=============================================================================
