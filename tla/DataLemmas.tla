----------------------------- MODULE DataLemmas ------------------------------
(***************************************************************************)
(* Induction over numbers, and what the loops of Lists return.  The        *)
(* library states it for a predicate; here it is stated for the set of the *)
(* values that satisfy one, which a proof can define and cite.             *)
(***************************************************************************)
EXTENDS Lists, FiniteSetTheorems, SequenceTheorems, WellFoundedInduction, TLAPS

LEMMA LessIsWellFounded == IsWellFoundedOn({p \in Nat \X Nat : p[1] < p[2]}, Nat)
BY NatLessThanWellFounded DEF OpToRel

(* A set of numbers that is not empty has a least one. *)
LEMMA LeastNumber ==
  ASSUME NEW S \in SUBSET Nat, S # {}
  PROVE  \E n \in S : \A m \in S : n <= m
<1> DEFINE R == {p \in Nat \X Nat : p[1] < p[2]}
<1>1. IsWellFoundedOn(R, Nat)
  BY LessIsWellFounded
<1> HIDE DEF R
<1>2. PICK n \in S : \A m \in S : <<m, n>> \notin R
  BY <1>1, WFMin
<1>3. ASSUME NEW m \in S PROVE n <= m
  <2>1. n \in Nat /\ m \in Nat
    OBVIOUS
  <2>2. m < n => <<m, n>> \in R
    BY <2>1 DEF R
  <2> QED BY <1>2, <2>1, <2>2
<1> QED BY <1>3

(* Max and Min are the greatest and the least member of a set of numbers.  *)
LEMMA LeastMember ==
  ASSUME NEW S \in SUBSET Nat, S # {}
  PROVE  Min(S) \in S /\ \A n \in S : Min(S) <= n
<1>1. \E n \in S : \A m \in S : n <= m
  BY LeastNumber
<1> QED BY <1>1 DEF Min

LEMMA GreatestMember ==
  ASSUME NEW b \in Nat, NEW S \in SUBSET (0..b), S # {}
  PROVE  Max(S) \in S /\ \A n \in S : n <= Max(S)
<1> DEFINE Below == {n \in 0..b : b - n \in S}
<1>1. Below \in SUBSET Nat
  OBVIOUS
<1>2. Below # {}
  <2>1. PICK n \in S : TRUE
    OBVIOUS
  <2>2. b - n \in 0..b /\ b - (b - n) = n
    OBVIOUS
  <2>3. b - n \in Below
    BY <2>2
  <2> QED BY <2>3
<1>3. PICK n \in Below : \A m \in Below : n <= m
  <2> HIDE DEF Below
  <2> QED BY <1>1, <1>2, LeastNumber
<1>4. b - n \in S /\ n \in 0..b
  BY <1>3
<1>5. ASSUME NEW m \in S PROVE b - n >= m
  <2>1. m \in 0..b /\ b - m \in 0..b /\ b - (b - m) = m
    OBVIOUS
  <2>2. n <= b - m
    BY <1>3, <2>1
  <2> QED BY <1>4, <2>1, <2>2
<1>6. \E x \in S : \A y \in S : x >= y
  BY <1>4, <1>5
<1> DEFINE x == CHOOSE x \in S : \A y \in S : x >= y
<1>7. x \in S /\ \A y \in S : x >= y
  BY <1>6
<1>8. Max(S) = x
  BY DEF Max
<1> HIDE DEF x
<1>9. \A y \in S : y \in Int /\ (x >= y => y <= x)
  BY <1>7
<1> QED BY <1>7, <1>8, <1>9

(* A set that holds 0 and with each number the next holds every number. *)
LEMMA NumberInduction ==
  ASSUME NEW S, 0 \in S, \A n \in Nat : n \in S => n + 1 \in S
  PROVE  \A n \in Nat : n \in S
<1> SUFFICES ASSUME NEW k \in Nat, k \notin S PROVE FALSE
  OBVIOUS
<1> DEFINE Missed == Nat \ S
<1>1. Missed \in SUBSET Nat /\ Missed # {}
  OBVIOUS
<1> HIDE DEF Missed
<1>2. PICK n \in Missed : \A m \in Missed : n <= m
  BY <1>1, LeastNumber
<1>3. n \in Nat \ {0} /\ n \notin S
  BY <1>2 DEF Missed
<1>4. n - 1 \in Nat /\ ~(n <= n - 1)
  BY <1>3
<1>5. n - 1 \in S
  BY <1>2, <1>4 DEF Missed
<1>6. (n - 1) + 1 \in S
  BY <1>4, <1>5
<1> QED BY <1>3, <1>6

-----------------------------------------------------------------------------
(* The stable sort. *)

LEMMA Appended ==
  ASSUME NEW T, NEW s \in Seq(T), NEW t \in Seq(T)
  PROVE  /\ s \o t \in Seq(T) /\ Len(s \o t) = Len(s) + Len(t)
         /\ \A n \in 1..(Len(s) + Len(t)) :
              (s \o t)[n] = IF n <= Len(s) THEN s[n] ELSE t[n - Len(s)]
OBVIOUS

LEMMA WiderSeq ==
  ASSUME NEW A, NEW B, A \subseteq B, NEW s \in Seq(A)
  PROVE  s \in Seq(B)
OBVIOUS

LEMMA ElementsOf ==
  ASSUME NEW T, NEW s \in Seq(T)
  PROVE  /\ Len(s) \in Nat /\ DOMAIN s = 1..Len(s)
         /\ \A n \in DOMAIN s : s[n] \in T /\ s[n] \in ToSet(s)
         /\ ToSet(s) \subseteq T
BY DEF ToSet

LEMMA InsertedAt ==
  ASSUME NEW T, NEW s \in Seq(T), NEW p \in 1..(Len(s) + 1), NEW c \in T
  PROVE  LET r == InsertAt(s, p, c) IN
         /\ r \in Seq(T) /\ Len(r) = Len(s) + 1
         /\ \A n \in 1..(Len(s) + 1) :
              r[n] = IF n < p THEN s[n] ELSE IF n = p THEN c ELSE s[n - 1]
<1> DEFINE front == SubSeq(s, 1, p - 1)
           back  == SubSeq(s, p, Len(s))
<1>1. /\ front \in Seq(T) /\ Len(front) = p - 1
      /\ \A n \in 1..(p - 1) : front[n] = s[n]
  OBVIOUS
<1>2. /\ back \in Seq(T) /\ Len(back) = Len(s) - p + 1
      /\ \A n \in 1..(Len(s) - p + 1) : back[n] = s[p + n - 1]
  OBVIOUS
<1> HIDE DEF front, back
<1> DEFINE head == front \o <<c>>
<1>3. /\ head \in Seq(T) /\ Len(head) = p
      /\ \A n \in 1..p : head[n] = IF n < p THEN s[n] ELSE c
  BY <1>1
<1> HIDE DEF head
<1>4. /\ head \o back \in Seq(T) /\ Len(head \o back) = Len(s) + 1
      /\ \A n \in 1..(Len(s) + 1) :
           (head \o back)[n] = IF n < p THEN s[n] ELSE IF n = p THEN c ELSE s[n - 1]
  <2>1. /\ head \o back \in Seq(T) /\ Len(head \o back) = Len(s) + 1
        /\ \A n \in 1..(Len(s) + 1) :
             (head \o back)[n] = IF n <= p THEN head[n] ELSE back[n - p]
    <3>1. Len(head) + Len(back) = Len(s) + 1 /\ Len(s) \in Nat
      BY <1>2, <1>3
    <3>2. /\ head \o back \in Seq(T) /\ Len(head \o back) = Len(head) + Len(back)
          /\ \A n \in 1..(Len(head) + Len(back)) :
               (head \o back)[n] = IF n <= Len(head) THEN head[n] ELSE back[n - Len(head)]
      BY <1>2, <1>3, Appended
    <3> QED BY <1>3, <3>1, <3>2
  <2>2. ASSUME NEW n \in (p + 1)..(Len(s) + 1) PROVE back[n - p] = s[n - 1]
    <3>1. n - p \in 1..(Len(s) - p + 1) /\ p + (n - p) - 1 = n - 1
      OBVIOUS
    <3> QED BY <1>2, <3>1
  <2> QED BY <1>3, <2>1, <2>2
<1>5. InsertAt(s, p, c) = head \o back
  BY DEF InsertAt, head, front, back
<1> QED BY <1>4, <1>5

Prioritized(T) == \A t \in T : t.priority \in Int

(* In a sequence of falling numbers, those that are at least x come first. *)
LEMMA AtLeastComeFirst ==
  ASSUME NEW T, NEW s \in Seq(T), Prioritized(T), NEW x \in Int,
         \A m, n \in DOMAIN s : m < n => s[m].priority >= s[n].priority
  PROVE  LET high == {n \in DOMAIN s : s[n].priority >= x} IN
         Cardinality(high) \in 0..Len(s) /\ high = 1..Cardinality(high)
<1> DEFINE high == {n \in DOMAIN s : s[n].priority >= x}
           rest == {n \in 1..(Len(s) + 1) : n = Len(s) + 1 \/ s[n].priority < x}
<1>1. Len(s) \in Nat /\ DOMAIN s = 1..Len(s) /\ \A n \in 1..Len(s) : s[n].priority \in Int
  <2>1. \A n \in 1..Len(s) : s[n] \in T
    OBVIOUS
  <2> QED BY <2>1 DEF Prioritized
<1>2. rest \in SUBSET Nat /\ rest # {}
  BY <1>1
<1>3. PICK k \in rest : \A m \in rest : k <= m
  <2> HIDE DEF rest
  <2> QED BY <1>2, LeastNumber
<1>4. high = 1..(k - 1)
  <2>1. k \in 1..(Len(s) + 1) /\ (k <= Len(s) => s[k].priority < x)
    BY <1>3
  <2>2. ASSUME NEW n \in 1..Len(s) PROVE s[n].priority >= x <=> n < k
    <3>1. CASE n < k
      <4>1. n \notin rest
        BY <1>3, <2>1, <3>1
      <4>2. ~(s[n].priority < x)
        BY <3>1, <4>1
      <4> QED BY <1>1, <3>1, <4>2
    <3>2. CASE n = k
      BY <1>1, <2>1, <3>2
    <3>3. CASE n > k
      <4>1. k \in 1..Len(s) /\ s[k].priority >= s[n].priority
        BY <1>1, <2>1, <3>3
      <4> QED BY <1>1, <2>1, <3>3, <4>1
    <3> QED BY <2>1, <3>1, <3>2, <3>3
  <2>3. high = {n \in 1..Len(s) : n < k}
    BY <1>1, <2>2
  <2> QED BY <1>1, <2>1, <2>3
<1>5. Cardinality(1..(k - 1)) = k - 1
  BY <1>3, FS_Interval
<1> HIDE DEF high
<1>6. Cardinality(high) = k - 1
  BY <1>4, <1>5
<1>7. k - 1 \in 0..Len(s)
  BY <1>1, <1>3
<1> QED BY <1>4, <1>6, <1>7 DEF high

(* a goes before b in the order that the sort keeps among entries of some   *)
(* rank: that in which they arrived.                                        *)
Precedes(rank, a, b) ==
    \/ a.priority > b.priority
    \/ a.priority = b.priority /\ rank[a] < rank[b]

InOrder(rank, s) == \A m, n \in DOMAIN s : m < n => Precedes(rank, s[m], s[n])

(* Among entries of equal priority, those of lower rank come first. *)
TiesInOrder(rank, s) ==
    \A m, n \in DOMAIN s : m < n /\ s[m].priority = s[n].priority => rank[s[m]] < rank[s[n]]

(* c has a higher rank than the entries of its priority. *)
EqualsBefore(rank, s, c) ==
    \A n \in DOMAIN s : s[n].priority = c.priority => rank[s[n]] < rank[c]

LEMMA PlacedKeepsOrder ==
  ASSUME NEW T, Prioritized(T), NEW rank,
         NEW s \in Seq(T), NEW c \in T, InOrder(rank, s),
         EqualsBefore(rank, s, c)
  PROVE  /\ Placed(s, c) \in Seq(T) /\ Len(Placed(s, c)) = Len(s) + 1
         /\ ToSet(Placed(s, c)) = ToSet(s) \cup {c}
         /\ InOrder(rank, Placed(s, c))
<1> DEFINE high == {n \in DOMAIN s : s[n].priority >= c.priority}
           p == 1 + Cardinality(high)
           r == Placed(s, c)
<1>1. /\ Len(s) \in Nat /\ DOMAIN s = 1..Len(s) /\ c.priority \in Int
      /\ \A n \in 1..Len(s) : s[n].priority \in Int
  <2>1. \A n \in 1..Len(s) : s[n] \in T
    OBVIOUS
  <2> QED BY <2>1 DEF Prioritized
<1>2. \A m, n \in DOMAIN s : m < n => s[m].priority >= s[n].priority
  BY <1>1 DEF InOrder, Precedes
<1>3. Cardinality(high) \in 0..Len(s) /\ high = 1..Cardinality(high)
  BY <1>1, <1>2, AtLeastComeFirst
<1>4. p \in 1..(Len(s) + 1)
  BY <1>1, <1>3
<1>5. ASSUME NEW n \in 1..Len(s) PROVE n < p <=> s[n].priority >= c.priority
  <2>1. n \in high <=> s[n].priority >= c.priority
    BY <1>1
  <2> HIDE DEF high
  <2>2. n \in high <=> n \in 1..Cardinality(high)
    BY <1>3
  <2> QED BY <1>3, <2>1, <2>2
<1>6. r = InsertAt(s, p, c)
  BY DEF Placed
<1> HIDE DEF p, r
<1>7. /\ r \in Seq(T) /\ Len(r) = Len(s) + 1
      /\ \A n \in 1..(Len(s) + 1) :
           r[n] = IF n < p THEN s[n] ELSE IF n = p THEN c ELSE s[n - 1]
  <2>1. LET i == InsertAt(s, p, c) IN
        /\ i \in Seq(T) /\ Len(i) = Len(s) + 1
        /\ \A n \in 1..(Len(s) + 1) :
             i[n] = IF n < p THEN s[n] ELSE IF n = p THEN c ELSE s[n - 1]
    BY <1>4, InsertedAt
  <2> QED BY <1>6, <2>1
<1>8. DOMAIN r = 1..(Len(s) + 1)
  BY <1>1, <1>7
<1>9. ToSet(r) = ToSet(s) \cup {c}
  <2>1. ASSUME NEW n \in DOMAIN r PROVE r[n] \in ToSet(s) \cup {c}
    <3>1. n < p => n \in DOMAIN s
      BY <1>1, <1>4, <1>8
    <3>2. n > p => n - 1 \in DOMAIN s
      BY <1>1, <1>4, <1>8
    <3>3. r[n] = c \/ (n < p /\ r[n] = s[n]) \/ (n > p /\ r[n] = s[n - 1])
      BY <1>4, <1>7, <1>8
    <3> QED BY <3>1, <3>2, <3>3 DEF ToSet
  <2>2. c \in ToSet(r)
    BY <1>4, <1>7, <1>8 DEF ToSet
  <2>3. ASSUME NEW n \in 1..Len(s) PROVE s[n] \in ToSet(r)
    <3>1. CASE n < p
      <4>1. n \in DOMAIN r /\ r[n] = s[n]
        BY <1>1, <1>7, <1>8, <3>1
      <4> QED BY <4>1 DEF ToSet
    <3>2. CASE n >= p
      <4>1. n + 1 \in DOMAIN r /\ r[n + 1] = s[n]
        BY <1>1, <1>4, <1>7, <1>8, <3>2
      <4> QED BY <4>1 DEF ToSet
    <3> QED BY <1>4, <3>1, <3>2
  <2> QED BY <1>1, <2>1, <2>2, <2>3 DEF ToSet
<1>10. ASSUME NEW m \in DOMAIN r, NEW n \in DOMAIN r, m < n
       PROVE  Precedes(rank, r[m], r[n])
  <2>1. CASE n < p
    <3>1. r[m] = s[m] /\ r[n] = s[n] /\ m \in DOMAIN s /\ n \in DOMAIN s
      BY <1>1, <1>4, <1>7, <1>8, <1>10, <2>1
    <3> QED BY <1>10, <3>1 DEF InOrder
  <2>2. CASE n = p
    <3>1. r[m] = s[m] /\ r[n] = c /\ m \in DOMAIN s /\ s[m].priority >= c.priority
      BY <1>1, <1>4, <1>5, <1>7, <1>8, <1>10, <2>2
    <3> QED BY <1>1, <3>1 DEF Precedes, EqualsBefore
  <2>3. CASE n > p
    <3>1. r[n] = s[n - 1] /\ n - 1 \in DOMAIN s /\ ~(n - 1 < p)
      BY <1>1, <1>4, <1>7, <1>8, <2>3
    <3>2. CASE m < p
      <4>1. r[m] = s[m] /\ m \in DOMAIN s /\ m < n - 1
        BY <1>1, <1>4, <1>7, <1>8, <1>10, <2>3, <3>2
      <4> QED BY <3>1, <4>1 DEF InOrder
    <3>3. CASE m = p
      <4>1. r[m] = c /\ c.priority > s[n - 1].priority
        BY <1>1, <1>4, <1>5, <1>7, <1>8, <3>1, <3>3
      <4> QED BY <3>1, <4>1 DEF Precedes
    <3>4. CASE m > p
      <4>1. r[m] = s[m - 1] /\ m - 1 \in DOMAIN s /\ m - 1 < n - 1
        BY <1>1, <1>4, <1>7, <1>8, <1>10, <3>4
      <4> QED BY <3>1, <4>1 DEF InOrder
    <3> QED BY <1>4, <1>8, <3>2, <3>3, <3>4
  <2> QED BY <1>4, <1>8, <2>1, <2>2, <2>3
<1> QED BY <1>7, <1>9, <1>10 DEF InOrder, r

(* The recursive function of Sorting exists, and so does what it says. *)
LEMMA SortingExists ==
  ASSUME NEW entries, Len(entries) \in Nat
  PROVE  Sorting(entries) = [n \in 0..Len(entries) |->
           IF n = 0 THEN << >> ELSE Placed(Sorting(entries)[n - 1], entries[n])]
<1> DEFINE Body(f, m) == [n \in 0..m |-> IF n = 0 THEN << >> ELSE Placed(f[n - 1], entries[n])]
           S == {m \in Nat : \E f : f = Body(f, m)}
<1>1. 0 \in S
  <2> DEFINE f == [n \in 0..0 |-> << >>]
  <2>1. f = Body(f, 0)
    OBVIOUS
  <2> QED BY <2>1
<1>2. ASSUME NEW m \in Nat, m \in S PROVE m + 1 \in S
  <2>1. PICK f : f = Body(f, m)
    BY <1>2
  <2> DEFINE g == [n \in 0..(m + 1) |-> IF n <= m THEN f[n] ELSE Placed(f[m], entries[m + 1])]
  <2>2. ASSUME NEW n \in 0..(m + 1)
        PROVE  g[n] = IF n = 0 THEN << >> ELSE Placed(g[n - 1], entries[n])
    <3>1. CASE n = 0
      BY <2>1, <3>1
    <3>2. CASE n \in 1..m
      <4>1. g[n] = f[n] /\ g[n - 1] = f[n - 1]
        BY <3>2
      <4>2. f[n] = Placed(f[n - 1], entries[n])
        BY <2>1, <3>2
      <4> QED BY <3>2, <4>1, <4>2
    <3>3. CASE n = m + 1
      <4>1. g[n] = Placed(f[m], entries[m + 1]) /\ g[n - 1] = f[m]
        BY <3>3
      <4> QED BY <3>3, <4>1
    <3> QED BY <3>1, <3>2, <3>3
  <2>3. g = Body(g, m + 1)
    BY <2>2
  <2> HIDE DEF g
  <2>4. \E f1 : f1 = Body(f1, m + 1)
    BY <2>3
  <2> QED BY <2>4
<1> HIDE DEF S
<1>3. Len(entries) \in S
  BY <1>1, <1>2, NumberInduction
<1>4. \E f : f = Body(f, Len(entries))
  BY <1>3 DEF S
<1> QED BY <1>4 DEF Sorting

(* The stable sort permutes the entries into order, provided that ties are *)
(* in order already.                                                       *)
LEMMA StableSortSorts ==
  ASSUME NEW T, Prioritized(T), NEW rank,
         NEW entries \in Seq(T), TiesInOrder(rank, entries)
  PROVE  /\ StableSort(entries) \in Seq(T)
         /\ Len(StableSort(entries)) = Len(entries)
         /\ ToSet(StableSort(entries)) = ToSet(entries)
         /\ InOrder(rank, StableSort(entries))
<1> DEFINE Sorted(s, n) ==
             /\ s \in Seq(T) /\ Len(s) = n
             /\ ToSet(s) = {entries[m] : m \in 1..n}
             /\ InOrder(rank, s)
           S == {n \in Nat : n <= Len(entries) => Sorted(Sorting(entries)[n], n)}
<1>1. Len(entries) \in Nat /\ DOMAIN entries = 1..Len(entries)
  OBVIOUS
<1>2. Sorting(entries) = [n \in 0..Len(entries) |->
        IF n = 0 THEN << >> ELSE Placed(Sorting(entries)[n - 1], entries[n])]
  BY <1>1, SortingExists
<1>3. 0 \in S
  <2>1. Sorting(entries)[0] = << >>
    BY <1>1, <1>2
  <2>2. Sorted(<< >>, 0)
    BY DEF ToSet, InOrder
  <2> QED BY <2>1, <2>2
<1>4. ASSUME NEW n \in Nat, n \in S PROVE n + 1 \in S
  <2> SUFFICES ASSUME n + 1 <= Len(entries) PROVE Sorted(Sorting(entries)[n + 1], n + 1)
    OBVIOUS
  <2> DEFINE s == Sorting(entries)[n]
             c == entries[n + 1]
  <2>1. Sorted(s, n)
    BY <1>1, <1>4
  <2>2. Sorting(entries)[n + 1] = Placed(s, c)
    BY <1>1, <1>2
  <2>3. c \in T
    BY <1>1
  <2> HIDE DEF s
  <2>4. ASSUME NEW k \in DOMAIN s, s[k].priority = c.priority PROVE rank[s[k]] < rank[c]
    <3>1. s[k] \in ToSet(s)
      BY DEF ToSet
    <3>2. PICK m \in 1..n : s[k] = entries[m]
      BY <2>1, <3>1
    <3>3. m \in DOMAIN entries /\ n + 1 \in DOMAIN entries /\ m < n + 1
      BY <1>1
    <3> QED BY <2>4, <3>2, <3>3 DEF TiesInOrder
  <2>5. /\ Placed(s, c) \in Seq(T) /\ Len(Placed(s, c)) = n + 1
        /\ ToSet(Placed(s, c)) = ToSet(s) \cup {c}
        /\ InOrder(rank, Placed(s, c))
    <3>1. s \in Seq(T) /\ InOrder(rank, s) /\ Len(s) = n
      BY <2>1
    <3>2. EqualsBefore(rank, s, c)
      BY <2>4 DEF EqualsBefore
    <3> HIDE DEF c
    <3> QED BY <2>3, <3>1, <3>2, PlacedKeepsOrder
  <2>6. {entries[m] : m \in 1..(n + 1)} = {entries[m] : m \in 1..n} \cup {c}
    OBVIOUS
  <2> QED BY <2>1, <2>2, <2>5, <2>6
<1> HIDE DEF S
<1>5. Len(entries) \in S
  BY <1>1, <1>3, <1>4, NumberInduction
<1>6. Sorted(Sorting(entries)[Len(entries)], Len(entries))
  BY <1>1, <1>5 DEF S
<1> QED BY <1>1, <1>6 DEF StableSort, ToSet

-----------------------------------------------------------------------------
(* Taking elements out of a list. *)

LEMMA TakingOutExists ==
  ASSUME NEW list, Len(list) \in Nat, NEW out
  PROVE  TakingOut(list, out) = [n \in 0..Len(list) |->
           IF n = 0 THEN << >>
           ELSE IF list[n] \in out THEN TakingOut(list, out)[n - 1]
           ELSE Append(TakingOut(list, out)[n - 1], list[n])]
<1> DEFINE More(s, n) == IF list[n] \in out THEN s ELSE Append(s, list[n])
           Body(f, m) == [n \in 0..m |-> IF n = 0 THEN << >> ELSE More(f[n - 1], n)]
           S == {m \in Nat : \E f : f = Body(f, m)}
<1>1. 0 \in S
  <2> DEFINE f == [n \in 0..0 |-> << >>]
  <2>1. f = Body(f, 0)
    OBVIOUS
  <2> QED BY <2>1
<1>2. ASSUME NEW m \in Nat, m \in S PROVE m + 1 \in S
  <2>1. PICK f : f = Body(f, m)
    BY <1>2
  <2> DEFINE g == [n \in 0..(m + 1) |-> IF n <= m THEN f[n] ELSE More(f[m], m + 1)]
  <2> HIDE DEF More
  <2>2. ASSUME NEW n \in 0..(m + 1)
        PROVE  g[n] = IF n = 0 THEN << >> ELSE More(g[n - 1], n)
    <3>1. CASE n = 0
      BY <2>1, <3>1
    <3>2. CASE n \in 1..m
      <4>1. g[n] = f[n] /\ g[n - 1] = f[n - 1]
        BY <3>2
      <4>2. f[n] = More(f[n - 1], n)
        BY <2>1, <3>2
      <4> QED BY <3>2, <4>1, <4>2
    <3>3. CASE n = m + 1
      <4>1. g[n] = More(f[m], m + 1) /\ g[n - 1] = f[m]
        BY <3>3
      <4> QED BY <3>3, <4>1
    <3> QED BY <3>1, <3>2, <3>3
  <2>3. g = Body(g, m + 1)
    BY <2>2
  <2> HIDE DEF g
  <2>4. \E f1 : f1 = Body(f1, m + 1)
    BY <2>3
  <2> QED BY <2>4
<1> HIDE DEF S
<1>3. Len(list) \in S
  BY <1>1, <1>2, NumberInduction
<1>4. \E f : f = Body(f, Len(list))
  BY <1>3 DEF S
<1> QED BY <1>4 DEF TakingOut, More

(* The entries of r stand in list in the same order. *)
InOrderOf(r, list) ==
    \A m, n \in DOMAIN r : m < n =>
        \E i, j \in DOMAIN list : i < j /\ r[m] = list[i] /\ r[n] = list[j]

LEMMA TakeOutLeaves ==
  ASSUME NEW T, NEW list \in Seq(T), NEW out
  PROVE  /\ TakeOut(list, out) \in Seq(T)
         /\ ToSet(TakeOut(list, out)) = ToSet(list) \ out
         /\ InOrderOf(TakeOut(list, out), list)
<1> DEFINE f == TakingOut(list, out)
           Good(s, n) ==
             /\ s \in Seq(T)
             /\ \A m \in DOMAIN s : \E i \in 1..n : s[m] = list[i] /\ s[m] \notin out
             /\ \A i \in 1..n : list[i] \in out \/ \E m \in DOMAIN s : s[m] = list[i]
             /\ InOrderOf(s, list)
           S == {n \in Nat : n <= Len(list) => Good(f[n], n)}
<1>1. Len(list) \in Nat /\ DOMAIN list = 1..Len(list)
  OBVIOUS
<1>2. f = [n \in 0..Len(list) |->
             IF n = 0 THEN << >>
             ELSE IF list[n] \in out THEN f[n - 1] ELSE Append(f[n - 1], list[n])]
  BY <1>1, TakingOutExists
<1> HIDE DEF f
<1>3. 0 \in S
  <2>1. f[0] = << >>
    BY <1>1, <1>2
  <2>2. Good(<< >>, 0)
    BY DEF InOrderOf
  <2> QED BY <2>1, <2>2
<1>4. ASSUME NEW n \in Nat, n \in S PROVE n + 1 \in S
  <2> SUFFICES ASSUME n + 1 <= Len(list) PROVE Good(f[n + 1], n + 1)
    OBVIOUS
  <2> DEFINE s == f[n]
             x == list[n + 1]
  <2>1. Good(s, n)
    BY <1>1, <1>4
  <2>2. f[n + 1] = IF x \in out THEN s ELSE Append(s, x)
    <3>1. n + 1 \in 0..Len(list) /\ n + 1 # 0 /\ (n + 1) - 1 = n
      BY <1>1
    <3> HIDE DEF Good, S
    <3>2. f[n + 1] = IF n + 1 = 0 THEN << >>
                     ELSE IF list[n + 1] \in out THEN f[(n + 1) - 1]
                     ELSE Append(f[(n + 1) - 1], list[n + 1])
      BY <1>2, <3>1, Zenon
    <3> QED BY <3>1, <3>2
  <2>3. x \in T /\ n + 1 \in DOMAIN list
    BY <1>1
  <2> HIDE DEF s, x
  <2>4. CASE x \in out
    BY <2>1, <2>2, <2>4 DEF x
  <2>5. CASE x \notin out
    <3> DEFINE t == Append(s, x)
    <3>1. /\ t \in Seq(T) /\ DOMAIN t = DOMAIN s \cup {Len(s) + 1}
          /\ DOMAIN s = 1..Len(s) /\ Len(s) \in Nat
          /\ \A m \in DOMAIN s : t[m] = s[m]
          /\ t[Len(s) + 1] = x
      BY <2>1, <2>3
    <3> HIDE DEF t
    <3>2. ASSUME NEW m \in DOMAIN t PROVE \E i \in 1..(n + 1) : t[m] = list[i] /\ t[m] \notin out
      BY <2>1, <2>5, <3>1 DEF x
    <3>3. ASSUME NEW i \in 1..(n + 1) PROVE list[i] \in out \/ \E m \in DOMAIN t : t[m] = list[i]
      BY <2>1, <3>1 DEF x
    <3>4. ASSUME NEW m \in DOMAIN t, NEW k \in DOMAIN t, m < k
          PROVE  \E i, j \in DOMAIN list : i < j /\ t[m] = list[i] /\ t[k] = list[j]
      <4>1. CASE k \in DOMAIN s
        <5>1. m \in DOMAIN s /\ t[m] = s[m] /\ t[k] = s[k]
          BY <3>1, <3>4, <4>1
        <5> QED BY <2>1, <3>4, <4>1, <5>1 DEF InOrderOf
      <4>2. CASE k = Len(s) + 1
        <5>1. m \in DOMAIN s /\ t[m] = s[m] /\ t[k] = list[n + 1]
          BY <3>1, <3>4, <4>2 DEF x
        <5>2. PICK i \in 1..n : s[m] = list[i]
          BY <2>1, <5>1
        <5>3. i < n + 1 /\ i \in DOMAIN list
          BY <1>1
        <5> QED BY <2>3, <5>1, <5>2, <5>3
      <4> QED BY <3>1, <4>1, <4>2
    <3>5. InOrderOf(t, list)
      BY <3>4 DEF InOrderOf
    <3>6. f[n + 1] = t
      BY <2>2, <2>5 DEF t
    <3> QED BY <3>1, <3>2, <3>3, <3>5, <3>6
  <2> QED BY <2>4, <2>5
<1> HIDE DEF S
<1>5. Len(list) \in S
  BY <1>1, <1>3, <1>4, NumberInduction
<1>6. Good(f[Len(list)], Len(list))
  BY <1>1, <1>5 DEF S
<1>7. TakeOut(list, out) = f[Len(list)]
  BY DEF TakeOut, f
<1> DEFINE e == TakeOut(list, out)
<1> HIDE DEF e
<1>8. e \in Seq(T) /\ InOrderOf(e, list)
  BY <1>6, <1>7 DEF e
<1>9. ASSUME NEW y PROVE y \in ToSet(e) <=> y \in ToSet(list) \ out
  <2>1. /\ \A m \in DOMAIN e : \E i \in 1..Len(list) : e[m] = list[i] /\ e[m] \notin out
        /\ \A i \in 1..Len(list) : list[i] \in out \/ \E m \in DOMAIN e : e[m] = list[i]
    BY <1>6, <1>7 DEF e
  <2>2. /\ ToSet(e) = {e[m] : m \in DOMAIN e}
        /\ ToSet(list) = {list[i] : i \in 1..Len(list)}
    BY <1>1 DEF ToSet
  <2>3. ASSUME y \in ToSet(e) PROVE y \in ToSet(list) /\ y \notin out
    BY <2>1, <2>2, <2>3
  <2>4. ASSUME y \in ToSet(list), y \notin out PROVE y \in ToSet(e)
    BY <2>1, <2>2, <2>4
  <2> QED BY <2>3, <2>4
<1> QED BY <1>8, <1>9 DEF e
-----------------------------------------------------------------------------
(* Lists put one behind the other: FlattenSeq by the number of its lists. *)
Flattening(lists) ==
    CHOOSE f : f = [n \in 1..Len(lists) |-> IF n = 1 THEN lists[n] ELSE f[n - 1] \o lists[n]]

LEMMA FlatteningExists ==
  ASSUME NEW lists, Len(lists) \in Nat
  PROVE  Flattening(lists) = [n \in 1..Len(lists) |->
           IF n = 1 THEN lists[n] ELSE Flattening(lists)[n - 1] \o lists[n]]
<1> DEFINE More(f, n) == IF n = 1 THEN lists[n] ELSE f[n - 1] \o lists[n]
           Body(f, m) == [n \in 1..m |-> More(f, n)]
           S == {m \in Nat : \E f : f = Body(f, m)}
<1>1. 0 \in S
  <2> DEFINE f == [n \in 1..0 |-> << >>]
  <2>1. f = Body(f, 0)
    OBVIOUS
  <2> QED BY <2>1
<1>2. ASSUME NEW m \in Nat, m \in S PROVE m + 1 \in S
  <2>1. PICK f : f = Body(f, m)
    BY <1>2
  <2> DEFINE g == [n \in 1..(m + 1) |-> IF n <= m THEN f[n] ELSE More(f, m + 1)]
  <2>2. ASSUME NEW n \in 1..(m + 1) PROVE g[n] = More(g, n)
    <3>1. g[n] = More(f, n)
      <4> HIDE DEF More
      <4>1. n <= m => f[n] = More(f, n)
        BY <2>1
      <4> QED BY <4>1
    <3>2. n # 1 => g[n - 1] = f[n - 1]
      <4> HIDE DEF More
      <4> QED OBVIOUS
    <3> HIDE DEF g
    <3> QED BY <3>1, <3>2
  <2> HIDE DEF More
  <2>3. g = [n \in 1..(m + 1) |-> g[n]]
    OBVIOUS
  <2> HIDE DEF g
  <2>4. g = Body(g, m + 1)
    BY <2>2, <2>3
  <2>5. \E f1 : f1 = Body(f1, m + 1)
    BY <2>4
  <2> QED BY <2>5
<1> HIDE DEF S
<1>3. Len(lists) \in S
  BY <1>1, <1>2, NumberInduction
<1>4. \E f : f = Body(f, Len(lists))
  BY <1>3 DEF S
<1> QED BY <1>4 DEF Flattening

(* FlattenSeq adds one list after the other. *)
Joins(f, lists) ==
    /\ f[0] = << >>
    /\ \A n \in 1..Len(lists) : f[n] = f[n - 1] \o lists[n]
    /\ FlattenSeq(lists) = f[Len(lists)]

LEMMA Flattens ==
  ASSUME NEW T, NEW lists \in Seq(Seq(T))
  PROVE  \E f : Joins(f, lists) /\ \A n \in 0..Len(lists) : f[n] \in Seq(T)
<1> DEFINE f == [n \in 0..Len(lists) |-> IF n = 0 THEN << >> ELSE Flattening(lists)[n]]
           S == {n \in Nat : n <= Len(lists) => f[n] \in Seq(T)}
<1>1. Len(lists) \in Nat /\ \A n \in 1..Len(lists) : lists[n] \in Seq(T)
  OBVIOUS
<1>2. Flattening(lists) = [n \in 1..Len(lists) |->
        IF n = 1 THEN lists[n] ELSE Flattening(lists)[n - 1] \o lists[n]]
  BY <1>1, FlatteningExists
<1>3. ASSUME NEW n \in 1..Len(lists) PROVE f[n] = f[n - 1] \o lists[n]
  <2>1. CASE n = 1
    <3>1. f[n] = lists[n] /\ f[n - 1] = << >>
      BY <1>1, <1>2, <2>1
    <3> QED BY <1>1, <3>1, ConcatEmptySeq
  <2>2. CASE n # 1
    <3>1. f[n] = Flattening(lists)[n] /\ f[n - 1] = Flattening(lists)[n - 1]
      BY <1>1, <2>2
    <3>2. Flattening(lists)[n] = Flattening(lists)[n - 1] \o lists[n]
      BY <1>2, <2>2
    <3> QED BY <3>1, <3>2
  <2> QED BY <2>1, <2>2
<1>4. f[0] = << >>
  <2>1. 0 \in 0..Len(lists)
    BY <1>1
  <2> QED BY <2>1
<1>5. FlattenSeq(lists) = f[Len(lists)]
  <2>1. Len(lists) # 0 => FlattenSeq(lists) = Flattening(lists)[Len(lists)]
    BY DEF FlattenSeq, Flattening
  <2>2. Len(lists) = 0 => FlattenSeq(lists) = << >>
    BY DEF FlattenSeq
  <2> QED BY <1>1, <2>1, <2>2
<1> HIDE DEF f
<1>6. 0 \in S
  BY <1>4, EmptySeq
<1>7. ASSUME NEW n \in Nat, n \in S PROVE n + 1 \in S
  <2> SUFFICES ASSUME n + 1 <= Len(lists) PROVE f[n + 1] \in Seq(T)
    OBVIOUS
  <2>1. n + 1 \in 1..Len(lists) /\ (n + 1) - 1 = n /\ f[n] \in Seq(T)
    BY <1>1, <1>7
  <2>2. f[n + 1] = f[n] \o lists[n + 1]
    BY <1>3, <2>1
  <2> QED BY <1>1, <2>1, <2>2, ConcatProperties
<1>8. \A n \in 0..Len(lists) : f[n] \in Seq(T)
  <2> HIDE DEF S
  <2>1. \A n \in Nat : n \in S
    BY <1>6, <1>7, NumberInduction
  <2> QED BY <1>1, <2>1 DEF S
<1> QED BY <1>3, <1>4, <1>5, <1>8 DEF Joins

(* The join of a and b is that of a followed by that of b. *)
LEMMA FlattenConcat ==
  ASSUME NEW T, NEW a \in Seq(Seq(T)), NEW b \in Seq(Seq(T))
  PROVE  /\ a \o b \in Seq(Seq(T))
         /\ FlattenSeq(a) \in Seq(T) /\ FlattenSeq(b) \in Seq(T)
         /\ FlattenSeq(a \o b) = FlattenSeq(a) \o FlattenSeq(b)
<1> DEFINE c == a \o b
<1>1. /\ c \in Seq(Seq(T)) /\ Len(c) = Len(a) + Len(b) /\ Len(a) \in Nat /\ Len(b) \in Nat
      /\ \A n \in 1..Len(a) : c[n] = a[n]
      /\ \A n \in 1..Len(b) : c[Len(a) + n] = b[n] /\ b[n] \in Seq(T)
  OBVIOUS
<1> HIDE DEF c
<1>2. PICK f : Joins(f, a) /\ \A n \in 0..Len(a) : f[n] \in Seq(T)
  BY Flattens
<1>3. PICK g : Joins(g, b) /\ \A n \in 0..Len(b) : g[n] \in Seq(T)
  BY Flattens
<1>4. PICK h : Joins(h, c)
  BY <1>1, Flattens
<1> DEFINE first == f[Len(a)]
           S == {n \in Nat : n <= Len(a) => h[n] = f[n]}
           R == {n \in Nat : n <= Len(b) => h[Len(a) + n] = first \o g[n]}
<1>5. 0 \in S
  BY <1>2, <1>4 DEF Joins
<1>6. ASSUME NEW n \in Nat, n \in S PROVE n + 1 \in S
  <2> SUFFICES ASSUME n + 1 <= Len(a) PROVE h[n + 1] = f[n + 1]
    OBVIOUS
  <2>1. n + 1 \in 1..Len(a) /\ n + 1 \in 1..Len(c) /\ (n + 1) - 1 = n /\ n <= Len(a)
    BY <1>1
  <2>2. f[n + 1] = f[(n + 1) - 1] \o a[n + 1]
    BY <1>2, <2>1 DEF Joins
  <2>3. h[n + 1] = h[(n + 1) - 1] \o c[n + 1]
    BY <1>4, <2>1 DEF Joins
  <2>4. h[n] = f[n]
    BY <1>6, <2>1
  <2>5. c[n + 1] = a[n + 1]
    BY <1>1, <2>1
  <2> QED BY <2>1, <2>2, <2>3, <2>4, <2>5
<1> HIDE DEF S
<1>7. h[Len(a)] = first
  <2>1. Len(a) \in S
    BY <1>1, <1>5, <1>6, NumberInduction
  <2> QED BY <1>1, <2>1 DEF S
<1>8. first \in Seq(T)
  BY <1>1, <1>2
<1> HIDE DEF first
<1>9. 0 \in R
  <2>1. g[0] = << >> /\ Len(a) + 0 = Len(a)
    BY <1>1, <1>3 DEF Joins
  <2>2. first \o << >> = first
    BY <1>8, ConcatEmptySeq
  <2> QED BY <1>7, <2>1, <2>2
<1>10. ASSUME NEW n \in Nat, n \in R PROVE n + 1 \in R
  <2> SUFFICES ASSUME n + 1 <= Len(b) PROVE h[Len(a) + (n + 1)] = first \o g[n + 1]
    OBVIOUS
  <2> DEFINE m == Len(a) + (n + 1)
  <2>1. /\ n + 1 \in 1..Len(b) /\ n \in 0..Len(b) /\ (n + 1) - 1 = n /\ n <= Len(b)
        /\ m \in 1..Len(c) /\ m - 1 = Len(a) + n
    BY <1>1
  <2>2. c[m] = b[n + 1] /\ b[n + 1] \in Seq(T)
    BY <1>1, <2>1
  <2>3. h[Len(a) + n] = first \o g[n]
    BY <1>10, <2>1
  <2> HIDE DEF m, R
  <2>4. h[m] = h[Len(a) + n] \o b[n + 1]
    <3>1. h[m] = h[m - 1] \o c[m]
      BY <1>4, <2>1 DEF Joins
    <3> QED BY <2>1, <2>2, <3>1
  <2>5. g[n + 1] = g[n] \o b[n + 1]
    <3>1. g[n + 1] = g[(n + 1) - 1] \o b[n + 1]
      BY <1>3, <2>1 DEF Joins
    <3> QED BY <2>1, <3>1
  <2>6. g[n] \in Seq(T)
    BY <1>3, <2>1
  <2>7. (first \o g[n]) \o b[n + 1] = first \o (g[n] \o b[n + 1])
    <3> DEFINE x == g[n]
               y == b[n + 1]
    <3>1. x \in Seq(T) /\ y \in Seq(T)
      BY <2>2, <2>6
    <3> HIDE DEF x, y
    <3>2. (first \o x) \o y = first \o (x \o y)
      BY <1>8, <3>1, ConcatAssociative, SMTT(30)
    <3> QED BY <3>2 DEF x, y
  <2> QED BY <2>3, <2>4, <2>5, <2>7 DEF m
<1> HIDE DEF R
<1>11. h[Len(a) + Len(b)] = first \o g[Len(b)]
  <2>1. Len(b) \in R
    BY <1>1, <1>9, <1>10, NumberInduction
  <2>2. R = {n \in Nat : n <= Len(b) => h[Len(a) + n] = first \o g[n]}
    BY DEF R
  <2> HIDE DEF first
  <2> QED BY <1>1, <2>1, <2>2
<1>12. FlattenSeq(a) = first /\ FlattenSeq(b) = g[Len(b)] /\ FlattenSeq(c) = h[Len(c)]
  BY <1>2, <1>3, <1>4 DEF Joins, first
<1>13. g[Len(b)] \in Seq(T)
  BY <1>1, <1>3
<1> QED BY <1>1, <1>8, <1>11, <1>12, <1>13 DEF c

LEMMA SetOfConcat ==
  ASSUME NEW T, NEW s \in Seq(T), NEW t \in Seq(T)
  PROVE  /\ s \o t \in Seq(T) /\ Len(s \o t) = Len(s) + Len(t)
         /\ ToSet(s \o t) = ToSet(s) \cup ToSet(t)
<1>1. s \o t \in Seq(T) /\ Len(s \o t) = Len(s) + Len(t)
  BY ConcatProperties
<1>2. Range(s \o t) = Range(s) \cup Range(t)
  BY RangeConcatenation
<1>3. \A r : Range(r) = ToSet(r)
  BY DEF ToSet, Range
<1> QED BY <1>1, <1>2, <1>3

(* The join of lists holds what the lists hold. *)
HeldBy(lists) == UNION {ToSet(lists[n]) : n \in DOMAIN lists}
HeldByFirst(lists, k) == UNION {ToSet(lists[n]) : n \in 1..k}

LEMMA JoinHolds ==
  ASSUME NEW T, NEW lists \in Seq(Seq(T))
  PROVE  /\ FlattenSeq(lists) \in Seq(T)
         /\ ToSet(FlattenSeq(lists)) = HeldBy(lists)
<1>1. Len(lists) \in Nat /\ DOMAIN lists = 1..Len(lists)
      /\ \A n \in 1..Len(lists) : lists[n] \in Seq(T)
  OBVIOUS
<1>2. PICK f : Joins(f, lists) /\ \A n \in 0..Len(lists) : f[n] \in Seq(T)
  BY <1>1, Flattens
<1> DEFINE S == {n \in Nat : n <= Len(lists) => ToSet(f[n]) = HeldByFirst(lists, n)}
<1>3. 0 \in S
  <2>1. f[0] = << >>
    BY <1>2 DEF Joins
  <2>2. ToSet(<< >>) = {}
    BY DEF ToSet
  <2> QED BY <2>1, <2>2 DEF HeldByFirst
<1>4. ASSUME NEW n \in Nat, n \in S PROVE n + 1 \in S
  <2> SUFFICES ASSUME n + 1 <= Len(lists) PROVE ToSet(f[n + 1]) = HeldByFirst(lists, n + 1)
    OBVIOUS
  <2>1. n + 1 \in 1..Len(lists) /\ n \in 0..Len(lists) /\ (n + 1) - 1 = n
    BY <1>1
  <2>2. f[n + 1] = f[n] \o lists[n + 1]
    <3>1. f[n + 1] = f[(n + 1) - 1] \o lists[n + 1]
      BY <1>2, <2>1 DEF Joins
    <3> QED BY <2>1, <3>1
  <2>3. ToSet(f[n + 1]) = ToSet(f[n]) \cup ToSet(lists[n + 1])
    <3> DEFINE a == f[n]
               b == lists[n + 1]
    <3>1. a \in Seq(T) /\ b \in Seq(T)
      BY <1>2, <1>1, <2>1
    <3> HIDE DEF a, b
    <3>2. ToSet(a \o b) = ToSet(a) \cup ToSet(b)
      BY <3>1, SetOfConcat
    <3> QED BY <2>2, <3>2 DEF a, b
  <2>4. ToSet(f[n]) = HeldByFirst(lists, n)
    BY <1>4, <2>1
  <2>5. HeldByFirst(lists, n + 1) = HeldByFirst(lists, n) \cup ToSet(lists[n + 1])
    <3>1. 1..(n + 1) = 1..n \cup {n + 1}
      OBVIOUS
    <3> QED BY <3>1, Zenon DEF HeldByFirst
  <2> QED BY <2>3, <2>4, <2>5
<1> HIDE DEF S
<1>5. Len(lists) \in S
  BY <1>1, <1>3, <1>4, NumberInduction
<1>6. ToSet(f[Len(lists)]) = HeldByFirst(lists, Len(lists))
  <2> QED BY <1>1, <1>5 DEF S
<1>7. FlattenSeq(lists) = f[Len(lists)]
  BY <1>2 DEF Joins
<1>8. f[Len(lists)] \in Seq(T)
  BY <1>2, <1>1
<1> QED BY <1>1, <1>6, <1>7, <1>8 DEF HeldBy, HeldByFirst

LEMMA JoinOne ==
  ASSUME NEW T, NEW s \in Seq(T)
  PROVE  FlattenSeq(<<s>>) = s
<1> DEFINE lists == <<s>>
<1>1. lists \in Seq(Seq(T)) /\ Len(lists) = 1 /\ lists[1] = s
  OBVIOUS
<1> HIDE DEF lists
<1>2. PICK f : Joins(f, lists)
  BY <1>1, Flattens
<1>3. f[1] = f[1 - 1] \o lists[1] /\ f[0] = << >> /\ FlattenSeq(lists) = f[1]
  BY <1>1, <1>2 DEF Joins
<1>4. << >> \o s = s
  BY ConcatEmptySeq
<1> QED BY <1>1, <1>3, <1>4, SMTT(30) DEF lists

(* A set of numbers has its members in order. *)
Rises(s) == \A m, n \in DOMAIN s : m < n => s[m] < s[n]

Enumerable(S) ==
    /\ IsFiniteSet(S) /\ Cardinality(S) \in Nat
    /\ \E s \in [1..Cardinality(S) -> S] : Rises(s) /\ ToSet(s) = S

LEMMA EnumerateOneMore ==
  ASSUME NEW k \in Nat, NEW S \in SUBSET (1..k), Enumerable(S)
  PROVE  Enumerable(S \cup {k + 1})
<1> DEFINE c == Cardinality(S)
           new == S \cup {k + 1}
<1>1. IsFiniteSet(S) /\ c \in Nat /\ k + 1 \notin S
  BY DEF Enumerable
<1>2. PICK s \in [1..c -> S] : Rises(s) /\ ToSet(s) = S
  BY DEF Enumerable
<1>3. IsFiniteSet(new) /\ Cardinality(new) = c + 1
  BY <1>1, FS_AddElement
<1> HIDE DEF c
<1> DEFINE t == [n \in 1..(c + 1) |-> IF n <= c THEN s[n] ELSE k + 1]
<1>4. t \in [1..(c + 1) -> new]
  BY <1>1, <1>2
<1>5. /\ DOMAIN s = 1..c /\ DOMAIN t = 1..(c + 1) /\ c + 1 \in 1..(c + 1)
      /\ t[c + 1] = k + 1 /\ \A n \in 1..c : t[n] = s[n] /\ s[n] \in 1..k
      /\ 1..(c + 1) = 1..c \cup {c + 1}
  <2>1. c + 1 \in 1..(c + 1) /\ 1..(c + 1) = 1..c \cup {c + 1} /\ ~(c + 1 <= c)
    BY <1>1
  <2>2. \A n \in 1..c : n \in 1..(c + 1) /\ n <= c /\ s[n] \in S
    BY <1>1, <1>2
  <2>3. DOMAIN s = 1..c
    BY <1>2
  <2> QED BY <2>1, <2>2, <2>3
<1> HIDE DEF t
<1>6. ASSUME NEW m \in 1..(c + 1), NEW n \in 1..(c + 1), m < n PROVE t[m] < t[n]
  <2>1. m \in 1..c /\ t[m] = s[m] /\ s[m] \in 1..k
    BY <1>1, <1>5, <1>6
  <2>2. CASE n \in 1..c
    BY <1>2, <1>5, <1>6, <2>1, <2>2 DEF Rises
  <2>3. CASE n = c + 1
    BY <1>5, <2>1, <2>3
  <2> QED BY <1>5, <2>2, <2>3
<1>7. ToSet(t) = ToSet(s) \cup {k + 1}
  BY <1>5 DEF ToSet
<1>8. Rises(t) /\ ToSet(t) = new
  BY <1>2, <1>5, <1>6, <1>7 DEF Rises
<1>9. Cardinality(new) \in Nat /\ t \in [1..Cardinality(new) -> new]
  <2> HIDE DEF new
  <2> QED BY <1>1, <1>3, <1>4
<1> HIDE DEF new
<1>10. Enumerable(new)
  BY <1>3, <1>8, <1>9 DEF Enumerable
<1> QED BY <1>10 DEF new

LEMMA Enumeration ==
  ASSUME NEW b \in Nat, NEW S \in SUBSET (1..b)
  PROVE  Enumerable(S)
<1> DEFINE Q == {k \in Nat : Enumerable(S \cap (1..k))}
<1>1. 0 \in Q
  <2> DEFINE s == [n \in 1..0 |-> 0]
  <2>1. s \in [1..0 -> {}] /\ Rises(s) /\ ToSet(s) = {}
    BY DEF Rises, ToSet
  <2> HIDE DEF s
  <2>2. IsFiniteSet({}) /\ Cardinality({}) = 0
    BY FS_EmptySet
  <2>3. Enumerable({})
    <3>1. 1..Cardinality({}) = 1..0 /\ Cardinality({}) \in Nat
      BY <2>2
    <3>2. s \in [1..Cardinality({}) -> {}]
      BY <2>1, <3>1
    <3> QED BY <2>1, <2>2, <3>1, <3>2 DEF Enumerable
  <2>4. S \cap (1..0) = {}
    OBVIOUS
  <2> QED BY <2>3, <2>4
<1>2. ASSUME NEW k \in Nat, k \in Q PROVE k + 1 \in Q
  <2> DEFINE old == S \cap (1..k)
             new == S \cap (1..(k + 1))
  <2>1. Enumerable(old) /\ old \in SUBSET (1..k)
    BY <1>2
  <2>2. new = old \/ new = old \cup {k + 1}
    OBVIOUS
  <2>3. Enumerable(old \cup {k + 1})
    <3> HIDE DEF old
    <3> QED BY <2>1, EnumerateOneMore
  <2>4. Enumerable(new)
    <3> HIDE DEF old, new
    <3> QED BY <2>1, <2>2, <2>3
  <2> QED BY <2>4
<1> HIDE DEF Q
<1>3. b \in Q
  BY <1>1, <1>2, NumberInduction
<1>4. S \cap (1..b) = S
  OBVIOUS
<1> QED BY <1>3, <1>4 DEF Q

-----------------------------------------------------------------------------
(* Division, and the growth of products. *)
LEMMA Division ==
  ASSUME NEW m \in Nat, NEW n \in Nat \ {0}
  PROVE  /\ m \div n \in Nat /\ m % n \in 0..(n - 1)
         /\ m = (m \div n) * n + (m % n)
<1>1. n \in Nat /\ n > 0
  OBVIOUS
<1>2. m \div n \in Nat /\ m = n * (m \div n) + (m % n)
  BY <1>1, SMT
<1>3. m % n \in 0..(n - 1)
  BY <1>1, SMT
<1>4. n * (m \div n) = (m \div n) * n
  BY <1>1, <1>2, SMT
<1> QED BY <1>2, <1>3, <1>4

LEMMA TimesGrows ==
  ASSUME NEW n \in Nat, NEW a \in Nat, NEW b \in Nat, a <= b
  PROVE  a * n \in Nat /\ b * n \in Nat /\ a * n <= b * n
         /\ (a + 1) * n = a * n + n
OBVIOUS

(* No entry is in a list twice. *)
Distinct(s) == \A m, n \in DOMAIN s : s[m] = s[n] => m = n

LEMMA ConcatDistinct ==
  ASSUME NEW T, NEW s \in Seq(T), NEW r \in Seq(T), Distinct(s \o r)
  PROVE  Distinct(s) /\ Distinct(r) /\ ToSet(s) \cap ToSet(r) = {}
<1> DEFINE q == s \o r
<1>1. /\ Len(s) \in Nat /\ Len(r) \in Nat /\ DOMAIN s = 1..Len(s) /\ DOMAIN r = 1..Len(r)
      /\ DOMAIN q = 1..(Len(s) + Len(r))
      /\ \A n \in 1..Len(s) : q[n] = s[n]
      /\ \A n \in 1..Len(r) : q[Len(s) + n] = r[n]
  OBVIOUS
<1> HIDE DEF q
<1>2. \A m, n \in DOMAIN q : q[m] = q[n] => m = n
  BY DEF Distinct, q
<1>3. \A n \in 1..Len(s) : n \in DOMAIN q
  BY <1>1
<1>4. \A n \in 1..Len(r) : Len(s) + n \in DOMAIN q
  BY <1>1
<1>5. Distinct(s)
  BY <1>1, <1>2, <1>3 DEF Distinct
<1>6. Distinct(r)
  BY <1>1, <1>2, <1>4 DEF Distinct
<1>7. ASSUME NEW m \in 1..Len(s), NEW n \in 1..Len(r), s[m] = r[n] PROVE FALSE
  <2>1. m = Len(s) + n
    BY <1>1, <1>2, <1>3, <1>4, <1>7
  <2> QED BY <1>1, <2>1
<1> QED BY <1>1, <1>5, <1>6, <1>7 DEF ToSet

(* The first k lists have no entry in common, and none twice. *)
Separate(lists, k) ==
    \A n \in 1..k :
        /\ Distinct(lists[n])
        /\ \A m \in 1..k : m # n => ToSet(lists[m]) \cap ToSet(lists[n]) = {}

LEMMA JoinDistinct ==
  ASSUME NEW T, NEW lists \in Seq(Seq(T)), Distinct(FlattenSeq(lists))
  PROVE  Separate(lists, Len(lists))
<1>1. Len(lists) \in Nat /\ \A n \in 1..Len(lists) : lists[n] \in Seq(T)
  OBVIOUS
<1>2. PICK f : Joins(f, lists) /\ \A n \in 0..Len(lists) : f[n] \in Seq(T)
  BY <1>1, Flattens
<1> DEFINE Covers(n) == \A m \in 1..n : ToSet(lists[m]) \subseteq ToSet(f[n])
           S == {n \in Nat : n <= Len(lists) => Covers(n) /\ (Distinct(f[n]) => Separate(lists, n))}
<1>3. 0 \in S
  BY DEF Separate
<1>4. ASSUME NEW n \in Nat, n \in S PROVE n + 1 \in S
  <2> SUFFICES ASSUME n + 1 <= Len(lists)
               PROVE  Covers(n + 1) /\ (Distinct(f[n + 1]) => Separate(lists, n + 1))
    OBVIOUS
  <2> DEFINE a == f[n]
             b == lists[n + 1]
  <2>1. n + 1 \in 1..Len(lists) /\ n \in 0..Len(lists) /\ (n + 1) - 1 = n /\ n <= Len(lists)
    BY <1>1
  <2>2. f[n + 1] = a \o b
    <3>1. f[n + 1] = f[(n + 1) - 1] \o lists[n + 1]
      BY <1>2, <2>1 DEF Joins
    <3> QED BY <2>1, <3>1
  <2>3. a \in Seq(T) /\ b \in Seq(T)
    BY <1>1, <1>2, <2>1
  <2>4. Covers(n) /\ (Distinct(a) => Separate(lists, n))
    BY <1>4, <2>1
  <2> HIDE DEF a
  <2>5. ToSet(f[n + 1]) = ToSet(a) \cup ToSet(b)
    <3> HIDE DEF b
    <3> QED BY <2>2, <2>3, SetOfConcat
  <2>6. \A m \in 1..(n + 1) : m \in 1..n \/ m = n + 1
    OBVIOUS
  <2>7. Covers(n + 1)
    BY <2>4, <2>5, <2>6 DEF a
  <2>8. ASSUME Distinct(f[n + 1]) PROVE Separate(lists, n + 1)
    <3>1. Distinct(a) /\ Distinct(b) /\ ToSet(a) \cap ToSet(b) = {}
      <4> HIDE DEF b
      <4> QED BY <2>2, <2>3, <2>8, ConcatDistinct
    <3>2. Separate(lists, n)
      BY <2>4, <3>1
    <3>3. \A m \in 1..n : ToSet(lists[m]) \cap ToSet(b) = {}
      BY <2>4, <3>1 DEF a
    <3>4. ASSUME NEW m \in 1..(n + 1), NEW l \in 1..(n + 1), l # m
          PROVE  ToSet(lists[l]) \cap ToSet(lists[m]) = {}
      <4>1. CASE m \in 1..n /\ l \in 1..n
        BY <3>2, <3>4, <4>1 DEF Separate
      <4>2. CASE m = n + 1
        BY <2>6, <3>3, <3>4, <4>2
      <4>3. CASE l = n + 1
        BY <2>6, <3>3, <3>4, <4>3
      <4> QED BY <2>6, <4>1, <4>2, <4>3
    <3>5. \A m \in 1..(n + 1) : Distinct(lists[m])
      BY <2>6, <3>1, <3>2 DEF Separate
    <3> QED BY <3>4, <3>5 DEF Separate
  <2> QED BY <2>7, <2>8
<1> HIDE DEF S
<1>5. Len(lists) \in S
  BY <1>1, <1>3, <1>4, NumberInduction
<1>6. Distinct(f[Len(lists)]) => Separate(lists, Len(lists))
  BY <1>1, <1>5 DEF S
<1> QED BY <1>2, <1>6 DEF Joins

(* The z entries behind position m of a list. *)
LEMMA Sliced ==
  ASSUME NEW T, NEW s \in Seq(T), NEW m \in Nat, NEW z \in Nat \ {0}, m + z <= Len(s)
  PROVE  /\ SubSeq(s, m + 1, m + z) \in Seq(T) /\ Len(SubSeq(s, m + 1, m + z)) = z
         /\ \A j \in 1..z : SubSeq(s, m + 1, m + z)[j] = s[m + j]
<1> DEFINE a == m + 1
           b == m + z
<1>1. a \in Int /\ b \in Int /\ a <= b /\ b - a + 1 = z /\ \A n \in a..b : s[n] \in T
  OBVIOUS
<1>2. \A j \in 1..z : a + j - 1 = m + j
  OBVIOUS
<1> HIDE DEF a, b
<1>3. /\ SubSeq(s, a, b) \in Seq(T)
      /\ Len(SubSeq(s, a, b)) = IF a <= b THEN b - a + 1 ELSE 0
      /\ \A j \in 1..(b - a + 1) : SubSeq(s, a, b)[j] = s[a + j - 1]
  BY <1>1, SubSeqProperties
<1>4. SubSeq(s, a, b) \in Seq(T) /\ Len(SubSeq(s, a, b)) = z
      /\ \A j \in 1..z : SubSeq(s, a, b)[j] = s[m + j]
  BY <1>1, <1>2, <1>3
<1> QED BY <1>4 DEF a, b
=============================================================================
