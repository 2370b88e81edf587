----------------------------- MODULE World_proofs -----------------------------
(***************************************************************************)
(* Proofs about the runtime's data, for every set of types, every field    *)
(* layout, every chunk size and every number of identities.                *)
(***************************************************************************)
EXTENDS World, BlockManager_proofs, DataLemmas

-----------------------------------------------------------------------------
(* Chunks of n elements: their number, and the chunk and row of a position. *)
Portions(l, n) == (l + n - 1) \div n

(* The portions cover all elements and none of them starts behind the last.*)
LEMMA PortionsFit ==
  ASSUME NEW l \in Nat, NEW n \in Nat \ {0}
  PROVE  LET c == Portions(l, n) IN
         /\ c \in Nat /\ l <= c * n
         /\ \A k \in 1..c : (k - 1) * n < l /\ (k - 1) * n \in Nat /\ k * n = (k - 1) * n + n
<1> DEFINE c == Portions(l, n)
           r == (l + n - 1) % n
<1>1. c \in Nat /\ r \in 0..(n - 1) /\ l + n - 1 = c * n + r
  <2> DEFINE m == l + n - 1
  <2>1. m \in Nat
    OBVIOUS
  <2>2. m \div n \in Nat /\ m % n \in 0..(n - 1) /\ m = (m \div n) * n + (m % n)
    <3> HIDE DEF m
    <3> QED BY <2>1, Division
  <2> QED BY <2>2 DEF Portions
<1> HIDE DEF c, r
<1>2. c * n \in Nat
  BY <1>1, TimesGrows
<1>3. l <= c * n
  BY <1>1, <1>2
<1>4. ASSUME NEW k \in 1..c
      PROVE  (k - 1) * n < l /\ (k - 1) * n \in Nat /\ k * n = (k - 1) * n + n
  <2> DEFINE j == k - 1
             d == c - 1
  <2>1. j \in Nat /\ d \in Nat /\ j <= d /\ j + 1 = k /\ d + 1 = c
    BY <1>1
  <2> HIDE DEF j, d
  <2>2. j * n \in Nat /\ j * n <= d * n /\ (j + 1) * n = j * n + n
    BY <2>1, TimesGrows
  <2>3. (d + 1) * n = d * n + n /\ d * n \in Nat
    BY <2>1, TimesGrows
  <2>4. d * n < l
    BY <1>1, <1>2, <2>1, <2>3
  <2>5. j * n < l
    BY <2>2, <2>3, <2>4
  <2> QED BY <2>1, <2>2, <2>5 DEF j
<1> QED BY <1>1, <1>3, <1>4 DEF c

(* Position p lies in portion p \div n, and p % n is its row there.        *)
LEMMA PositionFits ==
  ASSUME NEW l \in Nat, NEW n \in Nat \ {0}, NEW p \in 0..(l - 1)
  PROVE  p \div n + 1 \in 1..Portions(l, n)
<1> DEFINE c == Portions(l, n)
           q == p \div n
           r == p % n
<1>1. p \in Nat /\ q \in Nat /\ r \in 0..(n - 1) /\ p = q * n + r
  <2>1. p \in Nat
    OBVIOUS
  <2>2. p \div n \in Nat /\ p % n \in 0..(n - 1) /\ p = (p \div n) * n + (p % n)
    BY <2>1, Division
  <2> QED BY <2>1, <2>2
<1>2. c \in Nat /\ l <= c * n
  BY PortionsFit
<1> HIDE DEF c, q, r
<1>3. ASSUME c <= q PROVE FALSE
  <2>1. c * n <= q * n /\ c * n \in Nat /\ q * n \in Nat
    BY <1>1, <1>2, <1>3, TimesGrows
  <2>2. c * n <= p
    BY <1>1, <2>1
  <2> QED BY <1>2, <2>1, <2>2
<1> QED BY <1>1, <1>2, <1>3 DEF c, q

Part(ids, n, c) == SubSeq(ids, (c - 1) * n + 1, Least(c * n, Len(ids)))
Parts(ids, n) == [c \in 1..Portions(Len(ids), n) |-> Part(ids, n, c)]

(* Every part is full but the last, which is not empty. *)
LEMMA PartFits ==
  ASSUME NEW T, NEW ids \in Seq(T), NEW n \in Nat \ {0},
         NEW c \in 1..Portions(Len(ids), n)
  PROVE  LET p == Part(ids, n, c) IN
         /\ p \in Seq(T) /\ Len(p) \in 1..n
         /\ (c - 1) * n \in Nat /\ Len(p) = Least((c - 1) * n + n, Len(ids)) - (c - 1) * n
         /\ c < Portions(Len(ids), n) => Len(p) = n
         /\ \A k \in 1..Len(p) : p[k] = ids[(c - 1) * n + k]
<1> DEFINE l == Len(ids)
           m == (c - 1) * n
           e == Least(c * n, l)
<1>1. l \in Nat /\ n \in Nat /\ n > 0 /\ \A k \in 1..l : ids[k] \in T
  OBVIOUS
<1>2. Portions(l, n) \in Nat
      /\ \A k \in 1..Portions(l, n) :
           (k - 1) * n < l /\ (k - 1) * n \in Nat /\ k * n = (k - 1) * n + n
  BY <1>1, PortionsFit
<1>3. m < l /\ m \in Nat /\ c * n = m + n
  BY <1>2
<1>4. c < Portions(l, n) => m + n < l
  <2> SUFFICES ASSUME c < Portions(l, n) PROVE m + n < l
    OBVIOUS
  <2>1. c + 1 \in 1..Portions(l, n) /\ (c + 1) - 1 = c
    BY <1>2
  <2>2. ((c + 1) - 1) * n < l
    BY <1>2, <2>1
  <2>3. c * n < l
    BY <2>1, <2>2
  <2> QED BY <1>3, <2>3
<1>5. e = Least(m + n, l) /\ e \in (m + 1)..l /\ e - m <= n /\ (m + n < l => e - m = n)
  BY <1>1, <1>3 DEF Least
<1> HIDE DEF l, m, e
<1>6. /\ SubSeq(ids, m + 1, e) \in Seq(T) /\ Len(SubSeq(ids, m + 1, e)) = e - m
      /\ \A k \in 1..(e - m) : SubSeq(ids, m + 1, e)[k] = ids[m + k]
  <2>1. m + 1 \in 1..(l + 1) /\ e \in 0..l /\ e - (m + 1) + 1 = e - m /\ m + 1 <= e + 1
    BY <1>1, <1>3, <1>5
  <2>2. /\ SubSeq(ids, m + 1, e) \in Seq(T)
        /\ Len(SubSeq(ids, m + 1, e)) = IF m + 1 <= e THEN e - (m + 1) + 1 ELSE 0
        /\ \A k \in 1..(e - (m + 1) + 1) : SubSeq(ids, m + 1, e)[k] = ids[m + 1 + k - 1]
    <3>1. \A i \in (m + 1)..e : ids[i] \in T
      BY <1>1, <1>3, <1>5 DEF l
    <3>2. m + 1 \in Int /\ e \in Int
      BY <2>1
    <3> QED BY <3>1, <3>2, SubSeqProperties
  <2>3. \A k \in 1..(e - m) : m + 1 + k - 1 = m + k
    BY <1>3, <1>5
  <2> QED BY <1>1, <1>3, <1>5, <2>1, <2>2, <2>3, SMTT(30)
<1> QED BY <1>1, <1>3, <1>4, <1>5, <1>6 DEF Part, l, m, e

(* The parts, one behind the other, are the list. *)
LEMMA PartsJoin ==
  ASSUME NEW T, NEW ids \in Seq(T), NEW n \in Nat \ {0}
  PROVE  Parts(ids, n) \in Seq(Seq(T)) /\ FlattenSeq(Parts(ids, n)) = ids
<1> DEFINE l == Len(ids)
           all == Parts(ids, n)
           z == Portions(l, n)
<1>1. l \in Nat /\ n \in Nat /\ n > 0
  OBVIOUS
<1>2. /\ z \in Nat /\ l <= z * n /\ z * n \in Nat
      /\ \A k \in 1..z : (k - 1) * n < l /\ (k - 1) * n \in Nat /\ k * n = (k - 1) * n + n
  <2>1. Portions(l, n) \in Nat /\ l <= Portions(l, n) * n
        /\ \A k \in 1..Portions(l, n) :
             (k - 1) * n < l /\ (k - 1) * n \in Nat /\ k * n = (k - 1) * n + n
    BY <1>1, PortionsFit
  <2>2. Portions(l, n) * n \in Nat
    BY <1>1, <2>1, TimesGrows
  <2> QED BY <2>1, <2>2
<1>3. \A c \in 1..z : all[c] = Part(ids, n, c) /\ Part(ids, n, c) \in Seq(T)
  BY PartFits DEF Parts
<1>4. all \in Seq(Seq(T)) /\ Len(all) = z
  BY <1>2, <1>3 DEF Parts
<1> HIDE DEF l, all, z
<1>5. PICK f : Joins(f, all)
  BY <1>4, Flattens
<1> DEFINE Q == {c \in Nat : c <= z => f[c] = SubSeq(ids, 1, Least(c * n, l))}
<1>6. 0 \in Q
  <2>1. f[0] = << >>
    BY <1>5 DEF Joins
  <2>2. 0 * n = 0 /\ Least(0, l) = 0
    BY <1>1 DEF Least
  <2>3. SubSeq(ids, 1, 0) = << >>
    BY DEF l
  <2> QED BY <2>1, <2>2, <2>3
<1>7. ASSUME NEW c \in Nat, c \in Q PROVE c + 1 \in Q
  <2> SUFFICES ASSUME c + 1 <= z PROVE f[c + 1] = SubSeq(ids, 1, Least((c + 1) * n, l))
    OBVIOUS
  <2> DEFINE m == c * n
             e == Least((c + 1) * n, l)
  <2>1. c + 1 \in 1..z /\ (c + 1) - 1 = c /\ c <= z
    BY <1>2
  <2>2. m < l /\ m \in Nat /\ (c + 1) * n = m + n
    <3>1. ((c + 1) - 1) * n < l /\ ((c + 1) - 1) * n \in Nat
          /\ (c + 1) * n = ((c + 1) - 1) * n + n
      BY <1>2, <2>1
    <3> QED BY <2>1, <3>1
  <2>3. f[c + 1] = f[c] \o all[c + 1]
    <3>1. f[c + 1] = f[(c + 1) - 1] \o all[c + 1]
      BY <1>4, <1>5, <2>1 DEF Joins
    <3> QED BY <2>1, <3>1
  <2>4. f[c] = SubSeq(ids, 1, Least(m, l)) /\ Least(m, l) = m
    BY <1>7, <1>1, <2>1, <2>2 DEF Least
  <2>5. all[c + 1] = SubSeq(ids, m + 1, e)
    <3>1. all[c + 1] = SubSeq(ids, ((c + 1) - 1) * n + 1, Least((c + 1) * n, Len(ids)))
      BY <1>3, <2>1 DEF Part
    <3> QED BY <2>1, <3>1 DEF l
  <2>6. e \in m..l
    BY <1>1, <2>2 DEF Least
  <2> HIDE DEF m, e
  <2>7. SubSeq(ids, 1, m) \o SubSeq(ids, m + 1, e) = SubSeq(ids, 1, e)
    <3>1. m \in (1 - 1)..Len(ids) /\ e \in m..Len(ids) /\ 1 \in 1..(Len(ids) + 1)
      BY <1>1, <2>2, <2>6 DEF l
    <3> QED BY <3>1, ConcatAdjacentSubSeq
  <2> QED BY <2>3, <2>4, <2>5, <2>7 DEF e
<1>8. f[z] = SubSeq(ids, 1, Least(z * n, l))
  <2> HIDE DEF Q
  <2>1. z \in Q
    BY <1>2, <1>6, <1>7, NumberInduction
  <2> QED BY <1>2, <2>1 DEF Q
<1>9. Least(z * n, l) = Len(ids) /\ SubSeq(ids, 1, Len(ids)) = ids
  BY <1>1, <1>2, SubSeqFull DEF Least, l
<1>10. FlattenSeq(all) = f[z]
  BY <1>4, <1>5 DEF Joins
<1> QED BY <1>4, <1>8, <1>9, <1>10 DEF all

(* Row r of part c, both counted from 0, is position p of the list. *)
RowIs(ids, n, p, c, r) ==
    /\ c + 1 \in 1..Portions(Len(ids), n) /\ r + 1 \in 1..Len(Part(ids, n, c + 1))
    /\ Part(ids, n, c + 1)[r + 1] = ids[p + 1]

(* Each position of the list is found in its part, at its row.             *)
LEMMA PartHolds ==
  ASSUME NEW T, NEW ids \in Seq(T), NEW n \in Nat \ {0}, NEW p \in 0..(Len(ids) - 1)
  PROVE  RowIs(ids, n, p, p \div n, p % n)
<1> DEFINE c == p \div n + 1
           k == (p % n) + 1
           m == (c - 1) * n
<1>1. p \in Nat /\ Len(ids) \in Nat /\ p + 1 <= Len(ids)
  OBVIOUS
<1>2. /\ p \div n \in Nat /\ p % n \in 0..(n - 1) /\ p = (p \div n) * n + (p % n)
  BY <1>1, Division
<1>3. c \in 1..Portions(Len(ids), n)
  BY <1>1, PositionFits
<1>4. /\ (c - 1) * n \in Nat
      /\ Len(Part(ids, n, c)) = Least((c - 1) * n + n, Len(ids)) - (c - 1) * n
      /\ \A j \in 1..Len(Part(ids, n, c)) : Part(ids, n, c)[j] = ids[(c - 1) * n + j]
  <2> HIDE DEF c
  <2> QED BY <1>3, PartFits
<1>5. (c - 1) * n = (p \div n) * n
  <2>1. c - 1 = p \div n
    BY <1>2
  <2> HIDE DEF c
  <2> QED BY <2>1
<1>6. m + k = p + 1 /\ k \in 1..n /\ m \in Nat
  <2> HIDE DEF c
  <2> QED BY <1>1, <1>2, <1>4, <1>5, SMTT(30)
<1> HIDE DEF c, k
<1>7. k \in 1..Len(Part(ids, n, c))
  <2> DEFINE e == Least(m + n, Len(ids))
  <2> HIDE DEF m
  <2>1. e - m \in Nat /\ k <= e - m
    BY <1>1, <1>6 DEF Least
  <2>2. Len(Part(ids, n, c)) = e - m
    BY <1>4 DEF m
  <2> HIDE DEF e
  <2> QED BY <1>6, <2>1, <2>2
<1>8. Part(ids, n, c)[k] = ids[p + 1]
  BY <1>4, <1>6, <1>7
<1> QED BY <1>3, <1>7, <1>8 DEF RowIs, c, k

-----------------------------------------------------------------------------
(* What the calls and commands do to the block store: a block is inserted, *)
(* some are erased, or all keep their types.                               *)
Numbers == 1..MaxIdentity
Block   == [type : TypeIds, data : Data]

SameBlocks ==
    /\ blocks' \in [Identities -> Block]
    /\ \A i \in Identities : blocks'[i].type = blocks[i].type
    /\ UNCHANGED <<identityTypes, nextIdentity, dead>>

StoreMoves ==
    \/ \E t \in TypeIds, d \in Data : Insert(t, d)
    \/ \E S \in SUBSET Identities : Erase(S)
    \/ SameBlocks

LEMMA IdsAreNumbers ==
  ASSUME BMTypeOK, NEW t
  PROVE  /\ Ids(t) \in SUBSET Numbers
         /\ IsFiniteSet(Ids(t)) /\ Cardinality(Ids(t)) \in Nat
<1>1. Ids(t) \in SUBSET Numbers
  BY DEF BMTypeOK, Ids, Numbers
<1>2. IsFiniteSet(1..MaxIdentity)
  BY IdentityAssumption, FS_Interval
<1> QED BY <1>1, <1>2, FS_Subset, FS_CardinalityType DEF Numbers

LEMMA InsertTyped ==
  ASSUME BMTypeOK, NEW t \in TypeIds, NEW d \in Data, Insert(t, d),
         pools' \in [TypeIds -> Seq(Data)]
  PROVE  BMTypeOK' /\ StoreMoves
<1> DEFINE id == nextIdentity + 1
<1>1. id \in 1..MaxIdentity /\ nextIdentity' \in 0..MaxIdentity
  BY IdentityAssumption DEF BMTypeOK, Insert
<1>2. Identities' = Identities \cup {id} /\ DOMAIN identityTypes' = DOMAIN identityTypes \cup {id}
  BY DEF Insert, Extend, Identities
<1>3. blocks' \in [Identities' -> Block]
  <2>1. blocks' = [i \in Identities' |-> IF i = id THEN [type |-> t, data |-> d] ELSE blocks[i]]
    BY <1>2 DEF Insert, Extend, Identities
  <2>2. [type |-> t, data |-> d] \in Block
    BY DEF Block
  <2>3. \A i \in Identities : blocks[i] \in Block
    BY DEF BMTypeOK, Block
  <2> QED BY <1>2, <2>1, <2>2, <2>3
<1>4. identityTypes' \in [DOMAIN identityTypes' -> TypeIds]
  BY <1>2 DEF Insert, Extend, BMTypeOK
<1>5. typeCounts' \in [TypeIds -> Nat]
  BY DEF Insert, BMTypeOK
<1> QED BY <1>1, <1>2, <1>3, <1>4, <1>5 DEF BMTypeOK, Block, StoreMoves, Insert

LEMMA EraseTyped ==
  ASSUME BMTypeOK, NEW S \in SUBSET Identities, Erase(S),
         pools' \in [TypeIds -> Seq(Data)]
  PROVE  BMTypeOK' /\ StoreMoves
<1>1. Identities' = Identities \ S /\ DOMAIN identityTypes' = DOMAIN identityTypes \ S
  BY DEF Erase, Without, Identities
<1>2. blocks' \in [Identities' -> [type : TypeIds, data : Data]]
  BY <1>1 DEF Erase, Without, Identities, BMTypeOK
<1>3. identityTypes' \in [DOMAIN identityTypes' -> TypeIds]
  BY <1>1 DEF Erase, Without, BMTypeOK
<1>4. ASSUME NEW t \in TypeIds
      PROVE  Monus(typeCounts[t], Cardinality(S \cap Ids(t))) \in Nat
  <2>1. IsFiniteSet(Ids(t)) /\ S \cap Ids(t) \in SUBSET Ids(t)
    BY IdsAreNumbers
  <2>2. Cardinality(S \cap Ids(t)) \in Nat
    BY <2>1, FS_Subset, FS_CardinalityType
  <2> QED BY <2>2 DEF Monus, BMTypeOK
<1>5. typeCounts' \in [TypeIds -> Nat]
  <2>1. typeCounts' = [t \in TypeIds |-> Monus(typeCounts[t], Cardinality(S \cap Ids(t)))]
    BY DEF Erase
  <2> QED BY <1>4, <2>1, Zenon
<1>6. dead' \subseteq 1..MaxIdentity
  BY DEF Erase, BMTypeOK
<1> QED BY <1>1, <1>2, <1>3, <1>5, <1>6 DEF BMTypeOK, StoreMoves, Erase

LEMMA SameBlocksTyped ==
  ASSUME BMTypeOK, SameBlocks, typeCounts' \in [TypeIds -> Nat],
         pools' \in [TypeIds -> Seq(Data)]
  PROVE  BMTypeOK' /\ StoreMoves
<1>1. Identities' = Identities
  BY DEF SameBlocks, Identities
<1> QED BY <1>1 DEF BMTypeOK, SameBlocks, StoreMoves, Block

LEMMA CreateMoves ==
  ASSUME BMTypeOK, NEW t \in TypeIds, Create(t)
  PROVE  BMTypeOK' /\ StoreMoves
<1>1. Zeroed(SizeOf[t]) \in Data
  BY ZeroedType
<1>2. Insert(t, Zeroed(SizeOf[t]))
  BY DEF Create, Refilled
<1>3. pools' \in [TypeIds -> Seq(Data)]
  <2>1. pools[t] \in Seq(Data) /\ Len(pools[t]) \in Nat /\ pools \in [TypeIds -> Seq(Data)]
    BY DEF BMTypeOK
  <2>2. HasBuffer(t) => SubSeq(pools[t], 1, Len(pools[t]) - 1) \in Seq(Data)
    BY <2>1, SubSeqProperties DEF HasBuffer
  <2> QED BY <2>1, <2>2 DEF Create
<1> QED BY <1>1, <1>2, <1>3, InsertTyped

LEMMA DestroyMoves ==
  ASSUME BMTypeOK, NEW i, Destroy(i)
  PROVE  BMTypeOK' /\ StoreMoves
<1>1. i \in Identities /\ {i} \in SUBSET Identities /\ Erase({i})
  BY DEF Destroy
<1>2. blocks[i].type \in TypeIds /\ blocks[i].data \in Data
  BY <1>1 DEF BMTypeOK
<1>3. Recycled(pools[blocks[i].type], blocks[i].data) \in Seq(Data)
  BY <1>2 DEF Recycled, BMTypeOK
<1>4. pools' \in [TypeIds -> Seq(Data)]
  BY <1>2, <1>3 DEF Destroy, BMTypeOK
<1> QED BY <1>1, <1>4, EraseTyped

LEMMA ExecuteMoves ==
  ASSUME BMTypeOK, NEW p \in Payloads, Valid(p), Execute(p)
  PROVE  BMTypeOK' /\ StoreMoves
<1>1. p \in PayloadSpace
  BY PayloadAssumption
<1>2. /\ pools \in [TypeIds -> Seq(Data)] /\ typeCounts \in [TypeIds -> Nat]
      /\ \A i \in Identities : blocks[i] \in Block /\ blocks[i].data \in Data
      /\ blocks \in [Identities -> Block]
  BY DEF BMTypeOK, Block
<1>3. CASE p.op = "create"
  <2>1. p.type \in TypeIds /\ CommandCreate(p.type)
    BY <1>1, <1>3 DEF PayloadSpace, Execute
  <2>2. Insert(p.type, Zeroed(SizeOf[p.type])) /\ pools' \in [TypeIds -> Seq(Data)]
    BY <1>2, <2>1 DEF CommandCreate
  <2>3. Zeroed(SizeOf[p.type]) \in Data
    BY <2>1, ZeroedType
  <2> QED BY <2>1, <2>2, <2>3, InsertTyped
<1>4. CASE p.op = "destroy"
  <2>1. Erase(p.targets \cap Identities) /\ pools' \in [TypeIds -> Seq(Data)]
    BY <1>2, <1>4 DEF Execute, CommandDestroy
  <2>2. p.targets \cap Identities \in SUBSET Identities
    OBVIOUS
  <2> QED BY <2>1, <2>2, EraseTyped
<1>5. CASE p.op = "resize"
  <2>1. p.size \in Nat /\ CommandResize(p.targets, p.size)
    BY <1>1, <1>5, RangeAssumption DEF PayloadSpace, Execute
  <2>2. \A i \in Identities : Resized(blocks[i].data, p.size) \in Data
    BY <1>2, <2>1, ResizedType
  <2>3. SameBlocks
    BY <1>2, <2>1, <2>2 DEF CommandResize, Rewrite, SameBlocks, Block
  <2>4. pools' \in [TypeIds -> Seq(Data)] /\ typeCounts' \in [TypeIds -> Nat]
    BY <1>2, <2>1 DEF CommandResize, Rewrite
  <2> QED BY <2>3, <2>4, SameBlocksTyped
<1>6. CASE p.op = "set"
  <2>1. p.value \in Values /\ CommandSetField(p.targets, p.offset, p.value)
    BY <1>1, <1>6 DEF PayloadSpace, Execute
  <2>2. \A i \in Identities : [blocks[i].data EXCEPT ![p.offset] = p.value] \in Data
    BY <1>2, <2>1, WrittenType
  <2>3. SameBlocks
    BY <1>2, <2>1, <2>2 DEF CommandSetField, Rewrite, SameBlocks, Block
  <2>4. pools' \in [TypeIds -> Seq(Data)] /\ typeCounts' \in [TypeIds -> Nat]
    BY <1>2, <2>1 DEF CommandSetField, Rewrite
  <2> QED BY <2>3, <2>4, SameBlocksTyped
<1> QED BY <1>3, <1>4, <1>5, <1>6 DEF Execute

LEMMA RebuildMoves ==
  ASSUME BMTypeOK, RebuildCounts
  PROVE  BMTypeOK' /\ StoreMoves
<1>1. typeCounts' \in [TypeIds -> Nat]
  <2>1. typeCounts' = [t \in TypeIds |-> Cardinality(Ids(t))]
    BY DEF RebuildCounts
  <2>2. \A t \in TypeIds : Cardinality(Ids(t)) \in Nat
    BY IdsAreNumbers
  <2> QED BY <2>1, <2>2, Zenon
<1>2. SameBlocks /\ pools' \in [TypeIds -> Seq(Data)]
  BY DEF RebuildCounts, SameBlocks, BMTypeOK, Block
<1> QED BY <1>1, <1>2, SameBlocksTyped

(* The actions of the world that touch no more than the block store.       *)
StoreAction == HostCall \/ ExecuteCommand \/ FinishCommands \/ DropEphemeral

(* Every call, command and clean-up step is one of the three moves.        *)
LEMMA StoreActionMoves ==
  ASSUME BMTypeOK, registered \subseteq TypeIds, StoreAction
  PROVE  BMTypeOK' /\ StoreMoves
<1>1. CASE HostCall
  BY <1>1, CreateMoves, DestroyMoves DEF HostCall, CreateEphemeral
<1>2. CASE ExecuteCommand
  BY <1>2, ExecuteMoves DEF ExecuteCommand
<1>3. CASE FinishCommands
  BY <1>3, RebuildMoves DEF FinishCommands
<1>4. CASE DropEphemeral
  BY <1>4, DestroyMoves DEF DropEphemeral, DestroyLowestEphemeral
<1> QED BY <1>1, <1>2, <1>3, <1>4 DEF StoreAction

-----------------------------------------------------------------------------
(* The columns: what a copy of a field, or of a row, yields is made of      *)
(* cells.                                                                  *)
LEMMA ColumnsTyped ==
  ASSUME NEW t \in TypeIds
  PROVE  /\ ColumnsOf(t) \in Seq([offset : Nat, size : Nat])
         /\ SizeOf[t] \in Nat
         /\ \A k \in DOMAIN ColumnsOf(t) :
              /\ ColumnsOf(t)[k] \in ToSet(ColumnsOf(t))
              /\ ColumnsOf(t)[k].offset \in Nat /\ ColumnsOf(t)[k].size \in Nat
<1>1. SizeOf[t] \in Nat
  BY SizeAssumption
<1>2. Fields[t] \in Seq([offset : Nat, size : Nat])
  <2> DEFINE F == [offset : Nat, size : Nat \ {0}]
             G == [offset : Nat, size : Nat]
  <2>1. Fields[t] \in Seq(F)
    BY FieldsAssumption
  <2>2. F \subseteq G
    OBVIOUS
  <2> HIDE DEF F, G
  <2>3. Fields[t] \in Seq(G)
    BY <2>1, <2>2, WiderSeq
  <2> QED BY <2>3 DEF G
<1>3. << [offset |-> 0, size |-> SizeOf[t]] >> \in Seq([offset : Nat, size : Nat])
  BY <1>1
<1>4. ColumnsOf(t) \in Seq([offset : Nat, size : Nat])
  BY <1>2, <1>3 DEF ColumnsOf
<1>5. \A k \in DOMAIN ColumnsOf(t) :
        /\ ColumnsOf(t)[k] \in ToSet(ColumnsOf(t))
        /\ ColumnsOf(t)[k] \in [offset : Nat, size : Nat]
  <2> DEFINE columns == ColumnsOf(t)
             G == [offset : Nat, size : Nat]
  <2>1. columns \in Seq(G)
    BY <1>4
  <2> HIDE DEF columns, G
  <2>2. \A k \in DOMAIN columns : columns[k] \in ToSet(columns) /\ columns[k] \in G
    BY <2>1, ElementsOf
  <2> QED BY <2>2 DEF columns, G
<1> QED BY <1>1, <1>4, <1>5

LEMMA FieldBytesTyped ==
  ASSUME BMTypeOK, NEW t \in TypeIds, NEW i \in Ids(t), NEW k \in DOMAIN ColumnsOf(t),
         NEW junk \in [Beyond(t) -> Values]
  PROVE  FieldBytes(i, ColumnsOf(t)[k], junk) \in Data
<1> DEFINE f == ColumnsOf(t)[k]
           d == blocks[i].data
<1>1. f \in ToSet(ColumnsOf(t)) /\ f.offset \in Nat /\ f.size \in Nat
  BY ColumnsTyped
<1>2. d \in Data /\ Len(d) \in Nat /\ \A n \in 1..Len(d) : d[n] \in Values
  BY DEF BMTypeOK, Ids, Data
<1> HIDE DEF d, f
<1>3. CopySize(f, Len(d)) \in Nat
  BY <1>1, <1>2 DEF CopySize, Least
<1>4. ASSUME NEW n \in 1..CopySize(f, Len(d)), ~(f.offset + n <= Len(d))
      PROVE  junk[<<i, f.offset + n>>] \in Values
  <2>1. f.offset > Len(d) /\ n <= f.size
    BY <1>1, <1>2, <1>4 DEF CopySize, Least
  <2>2. f.offset + n \in (f.offset + 1)..(f.offset + f.size)
    BY <1>1, <1>3, <2>1
  <2>3. f.offset + n \in Past(i, t)
    BY <1>1, <2>1, <2>2 DEF Past, d
  <2>4. <<i, f.offset + n>> \in Beyond(t)
    BY <2>3 DEF Beyond
  <2> QED BY <2>4
<1>5. ASSUME NEW n \in 1..CopySize(f, Len(d)), f.offset + n <= Len(d)
      PROVE  d[f.offset + n] \in Values
  <2>1. f.offset + n \in 1..Len(d)
    BY <1>1, <1>2, <1>3, <1>5
  <2> QED BY <1>2, <2>1
<1>6. FieldBytes(i, f, junk) = [n \in 1..CopySize(f, Len(d)) |->
        IF f.offset + n <= Len(d) THEN d[f.offset + n] ELSE junk[<<i, f.offset + n>>]]
  BY DEF FieldBytes, d
<1> DEFINE c == CopySize(f, Len(d))
           cell(n) == IF f.offset + n <= Len(d) THEN d[f.offset + n] ELSE junk[<<i, f.offset + n>>]
<1>7. FieldBytes(i, f, junk) \in Seq(Values)
  <2>1. \A n \in 1..c : cell(n) \in Values
    BY <1>4, <1>5
  <2>2. FieldBytes(i, f, junk) = [n \in 1..c |-> cell(n)] /\ c \in Nat
    BY <1>3, <1>6
  <2> HIDE DEF c, cell
  <2>3. [n \in 1..c |-> cell(n)] \in Seq(Values)
    BY <2>1, <2>2
  <2> QED BY <2>2, <2>3
<1> QED BY <1>7 DEF Data, f

LEMMA StoreTyped ==
  ASSUME NEW column \in Data, NEW pos \in Nat, NEW bytes \in Data
  PROVE  Store(column, pos, bytes) \in Data
<1> DEFINE end == pos + Len(bytes)
           wide == IF Len(column) < end THEN Resized(column, end) ELSE column
<1>1. Len(bytes) \in Nat /\ \A n \in 1..Len(bytes) : bytes[n] \in Values
  BY DEF Data
<1>2. wide \in Data
  BY <1>1, ResizedType
<1>3. Len(wide) \in Nat /\ DOMAIN wide = 1..Len(wide) /\ \A n \in 1..Len(wide) : wide[n] \in Values
  <2> HIDE DEF wide
  <2> QED BY <1>2 DEF Data
<1> HIDE DEF end, wide
<1>4. \A k \in (pos + 1)..end : k - pos \in 1..Len(bytes)
  BY <1>1 DEF end
<1>5. Store(column, pos, bytes) =
        [k \in DOMAIN wide |-> IF k \in (pos + 1)..end THEN bytes[k - pos] ELSE wide[k]]
  BY DEF Store, end, wide
<1> QED BY <1>1, <1>3, <1>4, <1>5 DEF Data

(* The recursive column of Fill is defined by its recursion.               *)
LEMMA FillingExists ==
  ASSUME NEW column, NEW f, NEW ids, NEW junk, Len(ids) \in Nat
  PROVE  Filling(column, f, ids, junk) = [n \in 0..Len(ids) |->
           IF n = 0 THEN column
           ELSE Store(Filling(column, f, ids, junk)[n - 1], (n - 1) * f.size,
                      FieldBytes(ids[n], f, junk))]
<1> DEFINE More(c, n) == Store(c, (n - 1) * f.size, FieldBytes(ids[n], f, junk))
           Body(g, m) == [n \in 0..m |-> IF n = 0 THEN column ELSE More(g[n - 1], n)]
           S == {m \in Nat : \E g : g = Body(g, m)}
<1>1. 0 \in S
  <2> DEFINE g == [n \in 0..0 |-> column]
  <2>1. g = Body(g, 0)
    OBVIOUS
  <2> QED BY <2>1
<1>2. ASSUME NEW m \in Nat, m \in S PROVE m + 1 \in S
  <2>1. PICK g : g = Body(g, m)
    BY <1>2
  <2> DEFINE h == [n \in 0..(m + 1) |-> IF n <= m THEN g[n] ELSE More(g[m], m + 1)]
  <2> HIDE DEF More
  <2>2. ASSUME NEW n \in 0..(m + 1)
        PROVE  h[n] = IF n = 0 THEN column ELSE More(h[n - 1], n)
    <3>1. CASE n = 0
      BY <2>1, <3>1
    <3>2. CASE n \in 1..m
      <4>1. h[n] = g[n] /\ h[n - 1] = g[n - 1]
        BY <3>2
      <4>2. g[n] = More(g[n - 1], n)
        BY <2>1, <3>2
      <4> QED BY <3>2, <4>1, <4>2
    <3>3. CASE n = m + 1
      <4>1. h[n] = More(g[m], m + 1) /\ h[n - 1] = g[m]
        BY <3>3
      <4> QED BY <3>3, <4>1
    <3> QED BY <3>1, <3>2, <3>3
  <2>3. h = Body(h, m + 1)
    BY <2>2
  <2> HIDE DEF h
  <2>4. \E g1 : g1 = Body(g1, m + 1)
    BY <2>3
  <2> QED BY <2>4
<1> HIDE DEF S
<1>3. Len(ids) \in S
  BY <1>1, <1>2, NumberInduction
<1>4. \E g : g = Body(g, Len(ids))
  BY <1>3 DEF S
<1> QED BY <1>4 DEF Filling

LEMMA FillTyped ==
  ASSUME NEW column \in Data, NEW f, f.size \in Nat, NEW ids, Len(ids) \in Nat, NEW junk,
         \A n \in 1..Len(ids) : FieldBytes(ids[n], f, junk) \in Data
  PROVE  /\ Fill(column, f, ids, junk) \in Data
         /\ Len(ids) = 0 => Fill(column, f, ids, junk) = column
<1> DEFINE g == Filling(column, f, ids, junk)
           S == {n \in Nat : n <= Len(ids) => g[n] \in Data}
<1>1. g = [n \in 0..Len(ids) |->
        IF n = 0 THEN column ELSE Store(g[n - 1], (n - 1) * f.size, FieldBytes(ids[n], f, junk))]
  BY FillingExists
<1> HIDE DEF g
<1>2. g[0] = column
  BY <1>1
<1>3. 0 \in S
  BY <1>2
<1>4. ASSUME NEW n \in Nat, n \in S PROVE n + 1 \in S
  <2> SUFFICES ASSUME n + 1 <= Len(ids) PROVE g[n + 1] \in Data
    OBVIOUS
  <2>1. n + 1 \in 0..Len(ids) /\ n + 1 \in 1..Len(ids) /\ n + 1 # 0 /\ (n + 1) - 1 = n
    OBVIOUS
  <2> DEFINE bytes == FieldBytes(ids[n + 1], f, junk)
             pos == n * f.size
  <2>2. g[n + 1] = Store(g[n], pos, bytes)
    <3>1. g[n + 1] = Store(g[(n + 1) - 1], ((n + 1) - 1) * f.size, FieldBytes(ids[n + 1], f, junk))
      BY <1>1, <2>1
    <3> QED BY <2>1, <3>1
  <2>3. bytes \in Data
    BY <2>1
  <2>4. pos \in Nat
    BY TimesGrows
  <2>5. g[n] \in Data
    BY <1>4, <2>1
  <2> HIDE DEF bytes, pos
  <2> QED BY <2>2, <2>3, <2>4, <2>5, StoreTyped
<1> HIDE DEF S
<1>5. Len(ids) \in S
  BY <1>3, <1>4, NumberInduction
<1> QED BY <1>2, <1>5 DEF Fill, S, g

-----------------------------------------------------------------------------
(* The blocks of a type, in order, in chunks. *)
LEMMA IdsInOrderHold ==
  ASSUME BMTypeOK, NEW t
  PROVE  LET ids == IdsInOrder(t) IN
         /\ ids \in Seq(Ids(t)) /\ ids \in Seq(Numbers)
         /\ ToSet(ids) = Ids(t) /\ Cardinality(ToSet(ids)) = Len(ids)
         /\ \A m, n \in DOMAIN ids : ids[m] = ids[n] => m = n
<1> DEFINE S == Ids(t)
           c == Cardinality(S)
           ids == IdsInOrder(t)
<1>1. S \in SUBSET Numbers /\ IsFiniteSet(S) /\ c \in Nat
  BY IdsAreNumbers
<1>2. \E s \in [1..c -> S] : \A m, n \in DOMAIN s : m < n => s[m] < s[n]
  <2>1. MaxIdentity \in Nat /\ S \in SUBSET (1..MaxIdentity)
    BY <1>1, IdentityAssumption DEF Numbers
  <2> HIDE DEF S
  <2>2. Enumerable(S)
    BY <2>1, Enumeration
  <2> QED BY <2>2 DEF Enumerable, Rises
<1>3. ids \in [1..c -> S] /\ \A m, n \in DOMAIN ids : m < n => ids[m] < ids[n]
  BY <1>2 DEF IdsInOrder
<1> HIDE DEF ids, c, S
<1>4. DOMAIN ids = 1..c /\ \A n \in 1..c : ids[n] \in S /\ ids[n] \in Nat
  <2>1. \A i \in Numbers : i \in Nat
    BY IdentityAssumption DEF Numbers
  <2>2. DOMAIN ids = 1..c /\ \A n \in 1..c : ids[n] \in S
    BY <1>3
  <2> QED BY <1>1, <2>1, <2>2
<1>5. ASSUME NEW m \in DOMAIN ids, NEW n \in DOMAIN ids, ids[m] = ids[n] PROVE m = n
  BY <1>1, <1>3, <1>4, <1>5
<1>6. ids \in Seq(S) /\ Len(ids) = c
  BY <1>1, <1>3
<1>7. ids \in Seq(Numbers)
  BY <1>1, <1>6, WiderSeq
<1>8. ids \in Injection(1..c, S)
  BY <1>3, <1>4, <1>5 DEF Injection, IsInjective
<1>9. Cardinality(1..c) = c
  BY <1>1, FS_Interval
<1>10. ids \in Surjection(1..c, S)
  BY <1>1, <1>8, <1>9, FS_Injection DEF c
<1>11. ToSet(ids) = S
  BY <1>4, <1>10 DEF Surjection, ToSet
<1> QED BY <1>5, <1>6, <1>7, <1>11 DEF ids, S, c

(* What a chunk is made of; the store of structures of arrays is one chunk. *)
Chunk(t) == [ids : Seq(Numbers), columns : [DOMAIN ColumnsOf(t) -> Data]]
ChunkTyped(t, c) == c.ids \in Seq(Numbers) /\ c.columns \in [DOMAIN ColumnsOf(t) -> Data]

LEMMA ZeroedLength ==
  ASSUME NEW n \in Nat
  PROVE  Zeroed(n) \in Data
BY ResizedType, EmptySeq DEF Zeroed, Data

(* The chunks of a conversion hold the parts of its list.                  *)
LEMMA ChunksCut ==
  ASSUME BMTypeOK, NEW t \in TypeIds, NEW ids \in Seq(Ids(t)), NEW n \in Nat \ {0},
         NEW junk \in [Beyond(t) -> Values]
  PROVE  LET chunks == Chunks(t, ids, n, junk)
             z == Portions(Len(ids), n) IN
         /\ chunks \in Seq(Chunk(t)) /\ Len(chunks) = z
         /\ \A c \in 1..z : chunks[c].ids = Part(ids, n, c)
<1> DEFINE z == Portions(Len(ids), n)
           part(c) == Part(ids, n, c)
           column(c, k) == Fill(Zeroed(Len(part(c)) * ColumnsOf(t)[k].size), ColumnsOf(t)[k], part(c), junk)
           chunk(c) == [ids |-> part(c), columns |-> [k \in DOMAIN ColumnsOf(t) |-> column(c, k)]]
<1>1. Len(ids) \in Nat /\ z \in Nat
  <2>1. Len(ids) \in Nat
    OBVIOUS
  <2> QED BY <2>1, PortionsFit
<1>2. Chunks(t, ids, n, junk) = [c \in 1..z |-> chunk(c)]
  BY DEF Chunks, Portions, Part
<1>3. ASSUME NEW c \in 1..z PROVE chunk(c) \in Chunk(t)
  <2>1. part(c) \in Seq(Ids(t)) /\ Len(part(c)) \in Nat
    BY <1>1, <1>3, PartFits
  <2>2. part(c) \in Seq(Numbers)
    BY <2>1, IdsAreNumbers, WiderSeq
  <2>3. ASSUME NEW k \in DOMAIN ColumnsOf(t) PROVE column(c, k) \in Data
    <3>1. ColumnsOf(t)[k].size \in Nat
      BY ColumnsTyped
    <3> HIDE DEF part
    <3>2. Len(part(c)) * ColumnsOf(t)[k].size \in Nat
      BY <2>1, <3>1
    <3>3. Zeroed(Len(part(c)) * ColumnsOf(t)[k].size) \in Data
      BY <3>2, ZeroedLength
    <3>4. \A j \in 1..Len(part(c)) : FieldBytes(part(c)[j], ColumnsOf(t)[k], junk) \in Data
      BY <2>1, FieldBytesTyped
    <3> QED BY <2>1, <3>1, <3>3, <3>4, FillTyped
  <2> HIDE DEF part, column
  <2>4. [k \in DOMAIN ColumnsOf(t) |-> column(c, k)] \in [DOMAIN ColumnsOf(t) -> Data]
    BY <2>3
  <2> QED BY <2>2, <2>4 DEF Chunk
<1>4. \A c \in 1..z : chunk(c).ids = Part(ids, n, c)
  OBVIOUS
<1> HIDE DEF chunk, z
<1>5. [c \in 1..z |-> chunk(c)] \in Seq(Chunk(t)) /\ Len([c \in 1..z |-> chunk(c)]) = z
  BY <1>1, <1>3
<1> QED BY <1>2, <1>4, <1>5 DEF z

(* Concat of typed chunks. *)
HoldNumbers(chunks) ==
    /\ Len(chunks) \in Nat /\ DOMAIN chunks = 1..Len(chunks)
    /\ \A c \in DOMAIN chunks : chunks[c].ids \in Seq(Numbers)

IdsOf(chunks) == [c \in DOMAIN chunks |-> chunks[c].ids]

LEMMA ChunksHoldNumbers ==
  ASSUME NEW t, NEW chunks \in Seq(Chunk(t))
  PROVE  /\ HoldNumbers(chunks)
         /\ \A c \in DOMAIN chunks : ChunkTyped(t, chunks[c])
<1>1. Len(chunks) \in Nat /\ DOMAIN chunks = 1..Len(chunks) /\ \A c \in DOMAIN chunks : chunks[c] \in Chunk(t)
  BY ElementsOf
<1>2. \A x \in Chunk(t) : ChunkTyped(t, x) /\ x.ids \in Seq(Numbers)
  BY DEF Chunk, ChunkTyped
<1> QED BY <1>1, <1>2 DEF HoldNumbers

LEMMA IdsOfTyped ==
  ASSUME NEW chunks, HoldNumbers(chunks)
  PROVE  IdsOf(chunks) \in Seq(Seq(Numbers)) /\ Len(IdsOf(chunks)) = Len(chunks)
<1> DEFINE T == Seq(Numbers)
           z == Len(chunks)
<1>1. z \in Nat /\ DOMAIN chunks = 1..z /\ \A c \in 1..z : chunks[c].ids \in T
  BY DEF HoldNumbers
<1>2. IdsOf(chunks) = [c \in 1..z |-> chunks[c].ids]
  BY <1>1 DEF IdsOf
<1> HIDE DEF T, z
<1>3. [c \in 1..z |-> chunks[c].ids] \in Seq(T) /\ Len([c \in 1..z |-> chunks[c].ids]) = z
  BY <1>1
<1> QED BY <1>2, <1>3 DEF T, z

LEMMA ConcatHolds ==
  ASSUME NEW chunks, HoldNumbers(chunks)
  PROVE  /\ Concat(chunks) \in Seq(Numbers)
         /\ ToSet(Concat(chunks)) = UNION {ToSet(chunks[c].ids) : c \in DOMAIN chunks}
<1> DEFINE lists == IdsOf(chunks)
<1>1. lists \in Seq(Seq(Numbers)) /\ Concat(chunks) = FlattenSeq(lists)
  BY IdsOfTyped DEF Concat, IdsOf
<1>2. DOMAIN lists = DOMAIN chunks /\ \A c \in DOMAIN chunks : lists[c] = chunks[c].ids
  BY DEF IdsOf
<1> HIDE DEF lists
<1>3. FlattenSeq(lists) \in Seq(Numbers) /\ ToSet(FlattenSeq(lists)) = HeldBy(lists)
  BY <1>1, JoinHolds
<1>4. HeldBy(lists) = UNION {ToSet(chunks[c].ids) : c \in DOMAIN chunks}
  BY <1>2, Zenon DEF HeldBy
<1> QED BY <1>1, <1>3, <1>4

(* New chunks put their blocks behind those of the store.                  *)
LEMMA ConcatBehind ==
  ASSUME NEW t, NEW a \in Seq(Chunk(t)), NEW b \in Seq(Chunk(t))
  PROVE  a \o b \in Seq(Chunk(t)) /\ Concat(a \o b) = Concat(a) \o Concat(b)
<1> DEFINE c == a \o b
           la == IdsOf(a)
           lb == IdsOf(b)
           lc == IdsOf(c)
<1>1. /\ c \in Seq(Chunk(t)) /\ Len(c) = Len(a) + Len(b)
      /\ \A n \in 1..(Len(a) + Len(b)) : c[n] = IF n <= Len(a) THEN a[n] ELSE b[n - Len(a)]
      /\ DOMAIN c = 1..Len(c)
  <2>1. /\ c \in Seq(Chunk(t)) /\ Len(c) = Len(a) + Len(b)
        /\ \A n \in 1..(Len(a) + Len(b)) : c[n] = IF n <= Len(a) THEN a[n] ELSE b[n - Len(a)]
    BY Appended
  <2> HIDE DEF c
  <2> QED BY <2>1, ElementsOf
<1>2. HoldNumbers(a) /\ HoldNumbers(b) /\ HoldNumbers(c)
  <2> HIDE DEF c
  <2> QED BY <1>1, ChunksHoldNumbers
<1>3. /\ la \in Seq(Seq(Numbers)) /\ lb \in Seq(Seq(Numbers)) /\ lc \in Seq(Seq(Numbers))
      /\ Len(la) = Len(a) /\ Len(lb) = Len(b) /\ Len(lc) = Len(c)
  <2> HIDE DEF c
  <2> QED BY <1>2, IdsOfTyped
<1>4. /\ Len(a) \in Nat /\ Len(b) \in Nat
      /\ \A n \in 1..Len(a) : la[n] = a[n].ids
      /\ \A n \in 1..Len(b) : lb[n] = b[n].ids
      /\ \A n \in 1..Len(c) : lc[n] = c[n].ids
  <2> HIDE DEF c
  <2> QED BY <1>2 DEF HoldNumbers, IdsOf
<1> HIDE DEF c, la, lb, lc
<1> DEFINE ld == la \o lb
<1>5. /\ ld \in Seq(Seq(Numbers)) /\ Len(ld) = Len(la) + Len(lb)
      /\ \A n \in 1..(Len(la) + Len(lb)) : ld[n] = IF n <= Len(la) THEN la[n] ELSE lb[n - Len(la)]
  <2> DEFINE T == Seq(Numbers)
  <2> HIDE DEF T
  <2>1. la \in Seq(T) /\ lb \in Seq(T)
    BY <1>3 DEF T
  <2>2. /\ ld \in Seq(T) /\ Len(ld) = Len(la) + Len(lb)
        /\ \A n \in 1..(Len(la) + Len(lb)) : ld[n] = IF n <= Len(la) THEN la[n] ELSE lb[n - Len(la)]
    BY <2>1, Appended
  <2> QED BY <2>2 DEF T
<1> HIDE DEF ld
<1>6. ASSUME NEW n \in 1..Len(c) PROVE lc[n] = ld[n]
  <2>1. n <= Len(a) => n \in 1..Len(a)
    BY <1>1, <1>4
  <2>2. ~(n <= Len(a)) => n - Len(a) \in 1..Len(b)
    BY <1>1, <1>4
  <2>3. c[n] = IF n <= Len(a) THEN a[n] ELSE b[n - Len(a)]
    BY <1>1, <1>6
  <2>4. ld[n] = IF n <= Len(a) THEN la[n] ELSE lb[n - Len(a)]
    BY <1>1, <1>3, <1>5, <1>6
  <2> QED BY <1>4, <1>6, <2>1, <2>2, <2>3, <2>4
<1>7. lc = ld
  <2>1. Len(lc) = Len(ld) /\ \A n \in 1..Len(lc) : lc[n] = ld[n]
    BY <1>1, <1>3, <1>5, <1>6
  <2> DEFINE T == Seq(Numbers)
  <2>2. lc \in Seq(T) /\ ld \in Seq(T)
    BY <1>3, <1>5
  <2> HIDE DEF T
  <2> QED BY <2>1, <2>2, SeqEqual
<1>8. FlattenSeq(ld) = FlattenSeq(la) \o FlattenSeq(lb)
  BY <1>3, FlattenConcat DEF ld
<1>9. Concat(a) = FlattenSeq(la) /\ Concat(b) = FlattenSeq(lb) /\ Concat(c) = FlattenSeq(lc)
  BY DEF Concat, IdsOf, la, lb, lc
<1> QED BY <1>1, <1>7, <1>8, <1>9 DEF c

LEMMA ConcatOfFew ==
  /\ Concat(<< >>) = << >>
  /\ \A chunk : chunk.ids \in Seq(Numbers) => Concat(<<chunk>>) = chunk.ids
<1>1. Concat(<< >>) = << >>
  BY DEF Concat, FlattenSeq
<1>2. ASSUME NEW chunk, chunk.ids \in Seq(Numbers) PROVE Concat(<<chunk>>) = chunk.ids
  <2> DEFINE lists == [c \in DOMAIN <<chunk>> |-> <<chunk>>[c].ids]
             s == chunk.ids
  <2>1. lists = <<s>> /\ Concat(<<chunk>>) = FlattenSeq(lists)
    BY DEF Concat
  <2>2. s \in Seq(Numbers)
    BY <1>2
  <2> HIDE DEF lists, s
  <2>3. FlattenSeq(<<s>>) = s
    BY <2>2, JoinOne
  <2> QED BY <2>1, <2>3 DEF s
<1> QED BY <1>1, <1>2

(* All chunks together hold the list they were cut from, in order.         *)
LEMMA ConcatChunks ==
  ASSUME BMTypeOK, NEW t \in TypeIds, NEW ids \in Seq(Ids(t)), NEW n \in Nat \ {0},
         NEW junk \in [Beyond(t) -> Values]
  PROVE  Concat(Chunks(t, ids, n, junk)) = ids
<1> DEFINE chunks == Chunks(t, ids, n, junk)
           z == Portions(Len(ids), n)
<1>1. /\ chunks \in Seq(Chunk(t)) /\ Len(chunks) = z
      /\ \A c \in 1..z : chunks[c].ids = Part(ids, n, c)
  BY ChunksCut
<1> HIDE DEF chunks
<1>2. DOMAIN chunks = 1..z
  BY <1>1, ElementsOf
<1>3. [c \in DOMAIN chunks |-> chunks[c].ids] = Parts(ids, n)
  BY <1>1, <1>2 DEF Parts
<1> QED BY <1>3, PartsJoin DEF Concat, chunks

-----------------------------------------------------------------------------
(* Rows back into blocks. *)
LEMMA RowTyped ==
  ASSUME NEW t \in TypeIds, NEW columns \in [DOMAIN ColumnsOf(t) -> Data], NEW n \in Nat
  PROVE  Row(t, columns, n) \in Data
<1> DEFINE f(k) == ColumnsOf(t)[k]
           covering(cell) ==
             {k \in DOMAIN columns : /\ cell \in (f(k).offset + 1)..(f(k).offset + f(k).size)
                                     /\ (n + 1) * f(k).size <= Len(columns[k])}
           value(cell) ==
             IF covering(cell) = {} THEN Blank
             ELSE LET k == Max(covering(cell)) IN columns[k][n * f(k).size + cell - f(k).offset]
<1>1. /\ Len(ColumnsOf(t)) \in Nat /\ DOMAIN ColumnsOf(t) = 1..Len(ColumnsOf(t))
      /\ SizeOf[t] \in Nat
      /\ \A k \in DOMAIN columns : f(k).offset \in Nat /\ f(k).size \in Nat
  BY ColumnsTyped, ElementsOf
<1>2. \A k \in DOMAIN columns :
        /\ Len(columns[k]) \in Nat
        /\ \A m \in 1..Len(columns[k]) : columns[k][m] \in Values
  BY DEF Data
<1>3. ASSUME NEW cell \in 1..SizeOf[t] PROVE value(cell) \in Values
  <2>1. CASE covering(cell) = {}
    BY <2>1, BlankAssumption
  <2>2. CASE covering(cell) # {}
    <3> DEFINE k == Max(covering(cell))
    <3>1. covering(cell) \in SUBSET (0..Len(ColumnsOf(t)))
      BY <1>1
    <3>2. k \in covering(cell)
      <4> HIDE DEF covering
      <4> QED BY <1>1, <2>2, <3>1, GreatestMember
    <3>3. /\ k \in DOMAIN columns /\ cell \in (f(k).offset + 1)..(f(k).offset + f(k).size)
          /\ (n + 1) * f(k).size <= Len(columns[k])
      <4> HIDE DEF k
      <4> QED BY <3>2
    <3> DEFINE z == f(k).size
               o == f(k).offset
    <3>4. z \in Nat /\ o \in Nat
      <4> HIDE DEF k
      <4> QED BY <1>1, <3>3
    <3>5. n * z \in Nat /\ (n + 1) * z = n * z + z
      <4> HIDE DEF z
      <4> QED BY <3>4, TimesGrows
    <3>6. n * z + cell - o \in 1..Len(columns[k])
      <4>1. cell \in (o + 1)..(o + z) /\ (n + 1) * z <= Len(columns[k]) /\ Len(columns[k]) \in Nat
        <5> HIDE DEF k
        <5> QED BY <1>2, <3>3
      <4> HIDE DEF z, o, k
      <4> QED BY <3>4, <3>5, <4>1
    <3>7. columns[k][n * z + cell - o] \in Values
      <4> HIDE DEF k, z, o
      <4> QED BY <1>2, <3>3, <3>6
    <3> QED BY <2>2, <3>7
  <2> QED BY <2>1, <2>2
<1>4. Row(t, columns, n) = [cell \in 1..SizeOf[t] |-> value(cell)]
  BY DEF Row
<1> HIDE DEF value
<1>5. [cell \in 1..SizeOf[t] |-> value(cell)] \in Seq(Values)
  BY <1>1, <1>3
<1> QED BY <1>4, <1>5 DEF Data

(* A return to the map inserts exactly the blocks the chunks hold.         *)
LEMMA RowsReturned ==
  ASSUME BMTypeOK, NEW t \in TypeIds, NEW chunks, HoldNumbers(chunks),
         \A c \in DOMAIN chunks : ChunkTyped(t, chunks[c]),
         ReturnToMap(t, chunks)
  PROVE  /\ BMTypeOK'
         /\ Identities' = Identities \cup ToSet(Concat(chunks))
         /\ \A i \in Identities' :
              IF i \in ToSet(Concat(chunks)) THEN blocks'[i].type = t ELSE blocks'[i] = blocks[i]
         /\ UNCHANGED <<identityTypes, nextIdentity>>
<1> DEFINE held == ToSet(Concat(chunks))
           holding(i)  == {c \in DOMAIN chunks : i \in ToSet(chunks[c].ids)}
           last(i)     == chunks[Max(holding(i))]
           at(i)       == Max({n \in DOMAIN last(i).ids : last(i).ids[n] = i}) - 1
           returned(i) == Row(t, last(i).columns, at(i))
           map == [i \in Identities \cup held |->
                     IF holding(i) = {} THEN blocks[i] ELSE [type |-> t, data |-> returned(i)]]
<1>1. blocks' = map /\ UNCHANGED <<identityTypes, typeCounts, nextIdentity, pools, dead>>
  BY DEF ReturnToMap
<1>2. /\ held \subseteq Numbers
      /\ \A i : i \in held <=> holding(i) # {}
  <2>1. Concat(chunks) \in Seq(Numbers) /\ held = UNION {ToSet(chunks[c].ids) : c \in DOMAIN chunks}
    BY ConcatHolds
  <2>2. held \subseteq Numbers
    BY <2>1, ElementsOf
  <2> HIDE DEF held
  <2>3. \A i : i \in held <=> holding(i) # {}
    BY <2>1
  <2> QED BY <2>2, <2>3
<1>3. ASSUME NEW i, holding(i) # {} PROVE returned(i) \in Data
  <2>1. holding(i) \in SUBSET (0..Len(chunks)) /\ Len(chunks) \in Nat
    BY DEF HoldNumbers
  <2>2. Max(holding(i)) \in holding(i)
    <3> HIDE DEF holding
    <3> QED BY <1>3, <2>1, GreatestMember
  <2>3. Max(holding(i)) \in DOMAIN chunks /\ i \in ToSet(last(i).ids)
    <3> DEFINE c == Max(holding(i))
    <3>1. c \in holding(i)
      BY <2>2
    <3> HIDE DEF c
    <3>2. c \in DOMAIN chunks /\ i \in ToSet(chunks[c].ids)
      BY <3>1
    <3> QED BY <3>2 DEF c
  <2>4. last(i).ids \in Seq(Numbers) /\ last(i).columns \in [DOMAIN ColumnsOf(t) -> Data]
    <3> HIDE DEF holding
    <3> QED BY <2>3 DEF ChunkTyped
  <2> DEFINE ids == last(i).ids
             rows == {n \in DOMAIN ids : ids[n] = i}
  <2>5. at(i) \in Nat
    <3> HIDE DEF last
    <3>1. rows \in SUBSET (0..Len(ids)) /\ Len(ids) \in Nat
      BY <2>4, ElementsOf
    <3>2. rows # {}
      BY <2>3 DEF ToSet
    <3> HIDE DEF rows
    <3>3. Max(rows) \in rows
      BY <3>1, <3>2, GreatestMember
    <3>4. Max(rows) \in 1..Len(ids)
      BY <2>4, <3>3, ElementsOf DEF rows
    <3>5. Max(rows) - 1 \in Nat
      <4> DEFINE z == Max(rows)
      <4> HIDE DEF z
      <4>1. z \in 1..Len(ids) => z - 1 \in Nat
        BY <3>1
      <4> QED BY <3>4, <4>1 DEF z
    <3> QED BY <3>5 DEF rows
  <2> HIDE DEF last, at
  <2> QED BY <2>4, <2>5, RowTyped
<1> HIDE DEF held, holding, returned
<1>4. DOMAIN blocks' = Identities \cup held
  BY <1>1
<1>5. ASSUME NEW i \in Identities \cup held
      PROVE  /\ blocks'[i] \in Block
             /\ IF i \in held THEN blocks'[i].type = t ELSE blocks'[i] = blocks[i]
  <2>1. CASE i \in held
    <3>1. blocks'[i] = [type |-> t, data |-> returned(i)] /\ returned(i) \in Data
      BY <1>1, <1>2, <1>3, <2>1
    <3> QED BY <2>1, <3>1 DEF Block
  <2>2. CASE i \notin held
    <3>1. blocks'[i] = blocks[i] /\ i \in Identities
      BY <1>1, <1>2, <2>2
    <3> QED BY <2>2, <3>1 DEF BMTypeOK, Block
  <2> QED BY <2>1, <2>2
<1>6. Identities' = Identities \cup held
  BY <1>4 DEF Identities
<1>7. blocks' \in [Identities' -> Block]
  BY <1>1, <1>5, <1>6
<1>8. BMTypeOK'
  BY <1>1, <1>2, <1>6, <1>7 DEF BMTypeOK, Block, Numbers
<1> QED BY <1>1, <1>5, <1>6, <1>8 DEF held

LEMMA MapLeft ==
  ASSUME BMTypeOK, NEW t, LeaveMap(t)
  PROVE  /\ BMTypeOK'
         /\ Identities' = Identities \ Ids(t)
         /\ \A i \in Identities' : blocks'[i] = blocks[i]
         /\ UNCHANGED <<identityTypes, nextIdentity>>
<1>1. blocks' = [i \in Identities \ Ids(t) |-> blocks[i]]
  BY DEF LeaveMap, Without, Identities
<1>2. Identities' = Identities \ Ids(t) /\ \A i \in Identities' : blocks'[i] = blocks[i]
  BY <1>1 DEF Identities
<1> QED BY <1>1, <1>2 DEF BMTypeOK, LeaveMap
-----------------------------------------------------------------------------
(* How often an element is in a list. *)
LEMMA CountTyped ==
  ASSUME NEW T, NEW s \in Seq(T), NEW y
  PROVE  /\ Count(s, y) \in Nat /\ IsFiniteSet({n \in DOMAIN s : s[n] = y})
         /\ Count(s, y) = 0 <=> y \notin ToSet(s)
<1> DEFINE at == {n \in DOMAIN s : s[n] = y}
<1>1. Len(s) \in Nat /\ DOMAIN s = 1..Len(s)
  BY ElementsOf
<1>2. IsFiniteSet(1..Len(s))
  BY <1>1, FS_Interval
<1>3. at \in SUBSET (1..Len(s))
  BY <1>1
<1>4. IsFiniteSet(at) /\ Cardinality(at) \in Nat
  <2> HIDE DEF at
  <2> QED BY <1>2, <1>3, FS_Subset, FS_CardinalityType
<1>5. Cardinality(at) = 0 <=> at = {}
  <2> HIDE DEF at
  <2> QED BY <1>4, FS_EmptySet
<1>6. at = {} <=> y \notin ToSet(s)
  BY DEF ToSet
<1> QED BY <1>4, <1>5, <1>6 DEF Count

LEMMA CountJoined ==
  ASSUME NEW T, NEW s \in Seq(T), NEW t \in Seq(T), NEW y
  PROVE  Count(s \o t, y) = Count(s, y) + Count(t, y)
<1> DEFINE l == Len(s)
           u == s \o t
           A == {n \in DOMAIN s : s[n] = y}
           B == {n \in DOMAIN t : t[n] = y}
           C == {n \in DOMAIN u : u[n] = y}
           D == {m \in Nat : m - l \in B}
           f == [n \in B |-> l + n]
<1>1. /\ l \in Nat /\ Len(t) \in Nat
      /\ DOMAIN s = 1..l /\ DOMAIN t = 1..Len(t) /\ DOMAIN u = 1..(l + Len(t))
      /\ \A n \in 1..(l + Len(t)) : u[n] = IF n <= l THEN s[n] ELSE t[n - l]
  <2>1. /\ u \in Seq(T) /\ Len(u) = l + Len(t)
        /\ \A n \in 1..(l + Len(t)) : u[n] = IF n <= l THEN s[n] ELSE t[n - l]
    BY Appended
  <2> HIDE DEF u
  <2> QED BY <2>1, ElementsOf
<1>2. IsFiniteSet(A) /\ IsFiniteSet(B) /\ Cardinality(A) \in Nat /\ Cardinality(B) \in Nat
  BY CountTyped DEF Count
<1>3. A \in SUBSET (1..l) /\ B \in SUBSET (1..Len(t))
  BY <1>1
<1>4. C = A \cup D
  <2>1. ASSUME NEW n, n \in C PROVE n \in A \cup D
    <3> HIDE DEF u, l
    <3>1. n \in 1..(l + Len(t)) /\ u[n] = y
      BY <1>1, <2>1
    <3>2. CASE n <= l
      BY <1>1, <3>1, <3>2
    <3>3. CASE ~(n <= l)
      <4>1. n - l \in 1..Len(t) /\ n \in Nat /\ t[n - l] = y
        BY <1>1, <3>1, <3>3
      <4> QED BY <1>1, <4>1
    <3> QED BY <3>2, <3>3
  <2>2. ASSUME NEW n, n \in A PROVE n \in C
    <3> HIDE DEF u, l
    <3>1. n \in 1..l /\ s[n] = y
      BY <1>1, <2>2
    <3>2. n \in 1..(l + Len(t)) /\ n <= l
      BY <1>1, <3>1
    <3> QED BY <1>1, <3>1, <3>2
  <2>3. ASSUME NEW n, n \in D PROVE n \in C
    <3> HIDE DEF u, l
    <3>1. n \in Nat /\ n - l \in 1..Len(t) /\ t[n - l] = y
      BY <1>1, <2>3
    <3>2. n \in 1..(l + Len(t)) /\ ~(n <= l)
      BY <1>1, <3>1
    <3> QED BY <1>1, <3>1, <3>2
  <2> HIDE DEF A, C, D
  <2> QED BY <2>1, <2>2, <2>3
<1> HIDE DEF l, u, A, B, C
<1>5. f \in Bijection(B, D)
  <2>1. \A n \in B : l + n \in D /\ n \in Nat
    BY <1>1, <1>3
  <2>2. f \in [B -> D]
    BY <2>1
  <2>3. \A a, b \in B : f[a] = f[b] => a = b
    BY <1>1, <2>1
  <2>4. \A m \in D : \E n \in B : f[n] = m
    <3> TAKE m \in D
    <3>1. m - l \in B /\ f[m - l] = m
      BY <1>1
    <3> QED BY <3>1
  <2> HIDE DEF f, D
  <2> QED BY <2>2, <2>3, <2>4 DEF Bijection, Injection, Surjection, IsInjective
<1>6. IsFiniteSet(D) /\ Cardinality(D) = Cardinality(B)
  <2>1. ExistsBijection(B, D)
    BY <1>5 DEF ExistsBijection
  <2> HIDE DEF D
  <2> QED BY <1>2, <2>1, FS_Bijection
<1>7. A \cap D = {}
  BY <1>1, <1>3
<1>8. Cardinality(A \cup D) = Cardinality(A) + Cardinality(D)
  <2> HIDE DEF D
  <2>1. Cardinality(A \cup D) = Cardinality(A) + Cardinality(D) - Cardinality(A \cap D)
    BY <1>2, <1>6, FS_Union
  <2>2. Cardinality(A \cap D) = 0
    BY <1>7, FS_EmptySet
  <2> QED BY <1>2, <1>6, <2>1, <2>2
<1> QED BY <1>4, <1>6, <1>8 DEF Count, A, B, C, u

LEMMA CountOne ==
  ASSUME NEW e, NEW y
  PROVE  Count(<<e>>, y) = IF e = y THEN 1 ELSE 0
<1>1. CASE e = y
  <2>1. {n \in DOMAIN <<e>> : <<e>>[n] = y} = {1}
    BY <1>1
  <2> QED BY <1>1, <2>1, FS_Singleton DEF Count
<1>2. CASE e # y
  <2>1. {n \in DOMAIN <<e>> : <<e>>[n] = y} = {}
    BY <1>2
  <2> QED BY <1>2, <2>1, FS_EmptySet DEF Count
<1> QED BY <1>1, <1>2

(* One more entry counts once.                                             *)
LEMMA CountAppended ==
  ASSUME NEW T, NEW s \in Seq(T), NEW e \in T, NEW y
  PROVE  /\ Append(s, e) \in Seq(T) /\ Len(Append(s, e)) # 0
         /\ Count(Append(s, e), y) = Count(s, y) + (IF e = y THEN 1 ELSE 0)
<1>1. Append(s, e) \in Seq(T) /\ Len(Append(s, e)) # 0 /\ Append(s, e) = s \o <<e>>
  <2>1. Len(Append(s, e)) = Len(s) + 1 /\ Len(s) \in Nat
    BY AppendProperties
  <2> QED BY <2>1, AppendProperties, AppendIsConcat
<1>2. Count(s \o <<e>>, y) = Count(s, y) + Count(<<e>>, y)
  <2>1. <<e>> \in Seq(T)
    OBVIOUS
  <2> QED BY <2>1, CountJoined
<1> QED BY <1>1, <1>2, CountOne

(* Without its first occurrence an element counts once less.               *)
LEMMA CountRemoved ==
  ASSUME NEW T, NEW s \in Seq(T), NEW e \in ToSet(s), NEW y
  PROVE  /\ RemoveFirst(s, e) \in Seq(T)
         /\ Count(s, y) = Count(RemoveFirst(s, e), y) + (IF e = y THEN 1 ELSE 0)
<1> DEFINE I == {i \in 1..Len(s) : s[i] = e}
           k == Min(I)
           a == SubSeq(s, 1, k - 1)
           b == SubSeq(s, k + 1, Len(s))
<1>1. Len(s) \in Nat /\ DOMAIN s = 1..Len(s) /\ \A n \in 1..Len(s) : s[n] \in T
  OBVIOUS
<1>2. I # {} /\ I \in SUBSET Nat
  BY <1>1 DEF ToSet
<1>3. k \in I
  <2> HIDE DEF I
  <2> QED BY <1>2, LeastMember
<1>4. RemoveFirst(s, e) = a \o b
  BY <1>2 DEF RemoveFirst, RemoveAt, SelectInSeq
<1> HIDE DEF k
<1>5. k \in 1..Len(s) /\ s[k] = e
  BY <1>3
<1>6. a \in Seq(T) /\ b \in Seq(T) /\ a \o b \in Seq(T) /\ s = (a \o <<e>>) \o b
      /\ <<e>> \in Seq(T) /\ a \o <<e>> \in Seq(T)
  <2>1. a \in Seq(T) /\ b \in Seq(T) /\ <<e>> \in Seq(T)
    <3>1. 1 \in Int /\ k - 1 \in Int /\ k + 1 \in Int /\ Len(s) \in Int
      BY <1>1, <1>5
    <3>2. (\A i \in 1..(k - 1) : s[i] \in T) /\ (\A i \in (k + 1)..Len(s) : s[i] \in T)
      BY <1>1, <1>5
    <3>3. <<e>> \in Seq(T)
      BY <1>1, <1>5
    <3> QED BY <3>1, <3>2, <3>3, SubSeqProperties
  <2>2. SubSeq(s, 1, k) = a \o <<e>>
    <3>1. 1 \in 1..Len(s) /\ k \in 1..Len(s)
      BY <1>1, <1>5
    <3> QED BY <1>5, <3>1, SubSeqRecursiveSecond
  <2>3. SubSeq(s, 1, k) \o b = SubSeq(s, 1, Len(s))
    <3>1. 1 \in 1..(Len(s) + 1) /\ k \in (1 - 1)..Len(s) /\ Len(s) \in k..Len(s)
      BY <1>1, <1>5
    <3> QED BY <3>1, ConcatAdjacentSubSeq
  <2>4. SubSeq(s, 1, Len(s)) = s
    BY SubSeqFull
  <2> HIDE DEF a, b
  <2>5. a \o b \in Seq(T) /\ a \o <<e>> \in Seq(T)
    BY <2>1, ConcatProperties
  <2> QED BY <2>1, <2>2, <2>3, <2>4, <2>5
<1> HIDE DEF a, b
<1>7. Count(a \o b, y) = Count(a, y) + Count(b, y)
  BY <1>6, CountJoined
<1>8. Count((a \o <<e>>) \o b, y) = Count(a \o <<e>>, y) + Count(b, y)
  BY <1>6, CountJoined
<1>9. Count(a \o <<e>>, y) = Count(a, y) + Count(<<e>>, y)
  BY <1>6, CountJoined
<1>10. Count(<<e>>, y) \in Nat /\ Count(a, y) \in Nat /\ Count(b, y) \in Nat
  BY <1>6, CountTyped
<1>11. Count(<<e>>, y) = IF e = y THEN 1 ELSE 0
  BY CountOne
<1>12. RemoveFirst(s, e) \in Seq(T) /\ Count(RemoveFirst(s, e), y) = Count(a, y) + Count(b, y)
  BY <1>4, <1>6, <1>7
<1>13. Count(s, y) = Count(a \o <<e>>, y) + Count(b, y)
  BY <1>6, <1>8, Zenon
<1> QED BY <1>9, <1>10, <1>11, <1>12, <1>13

-----------------------------------------------------------------------------
(* The two maps of the relationships hold lists that are not empty, and    *)
(* for any two blocks they hold the same number of entries.                *)
ListsOver(map, S) ==
    /\ DOMAIN map \subseteq S
    /\ \A x \in DOMAIN map : map[x] \in Seq(S) /\ Len(map[x]) # 0

SameCounts(S) ==
    \A x, y \in S : Count(Entries(childrenOf, x), y) = Count(Entries(parentsOf, y), x)

MirrorInv(S) == ListsOver(childrenOf, S) /\ ListsOver(parentsOf, S) /\ SameCounts(S)

LEMMA EntriesTyped ==
  ASSUME NEW S, NEW map, ListsOver(map, S), NEW x
  PROVE  Entries(map, x) \in Seq(S)
BY DEF Entries, ListsOver

LEMMA ListedCounts ==
  ASSUME NEW S, NEW map, ListsOver(map, S), NEW x \in S, NEW y \in S
  PROVE  /\ ListsOver(Listed(map, x, y), S)
         /\ \A v, w \in S : Count(Entries(Listed(map, x, y), v), w)
                            = Count(Entries(map, v), w) + (IF v = x /\ w = y THEN 1 ELSE 0)
<1> DEFINE new == Listed(map, x, y)
           list == Entries(map, x)
<1>1. list \in Seq(S)
  BY EntriesTyped
<1> HIDE DEF list
<1>2. Append(list, y) \in Seq(S) /\ Len(Append(list, y)) # 0
      /\ \A w \in S : Count(Append(list, y), w) = Count(list, w) + (IF y = w THEN 1 ELSE 0)
  BY <1>1, CountAppended
<1>3. new = [z \in DOMAIN map \cup {x} |-> IF z = x THEN Append(list, y) ELSE map[z]]
  BY DEF Listed, list
<1> HIDE DEF new
<1>4. ListsOver(new, S)
  BY <1>2, <1>3 DEF ListsOver
<1>5. ASSUME NEW v \in S PROVE Entries(new, v) = IF v = x THEN Append(list, y) ELSE Entries(map, v)
  BY <1>3 DEF Entries
<1>6. \A v, w \in S : Count(Entries(map, v), w) \in Nat
  BY EntriesTyped, CountTyped
<1>7. ASSUME NEW v \in S, NEW w \in S
      PROVE  Count(Entries(new, v), w) = Count(Entries(map, v), w) + (IF v = x /\ w = y THEN 1 ELSE 0)
  <2>1. CASE v = x
    <3>1. Entries(new, v) = Append(list, y) /\ Entries(map, v) = list
      BY <1>5, <2>1 DEF list
    <3> QED BY <1>2, <2>1, <3>1
  <2>2. CASE v # x
    BY <1>5, <1>6, <2>2
  <2> QED BY <2>1, <2>2
<1> QED BY <1>4, <1>7 DEF new

LEMMA UnlistedCounts ==
  ASSUME NEW S, NEW map, ListsOver(map, S), NEW x \in S, NEW y \in S,
         y \in ToSet(Entries(map, x))
  PROVE  /\ ListsOver(Unlisted(map, x, y), S)
         /\ \A v, w \in S : Count(Entries(map, v), w)
              = Count(Entries(Unlisted(map, x, y), v), w) + (IF v = x /\ w = y THEN 1 ELSE 0)
<1> DEFINE new == Unlisted(map, x, y)
           list == Entries(map, x)
           rest == RemoveFirst(list, y)
<1>1. list \in Seq(S)
  BY EntriesTyped
<1> HIDE DEF list
<1>2. rest \in Seq(S)
      /\ \A w \in S : Count(list, w) = Count(rest, w) + (IF y = w THEN 1 ELSE 0)
  BY <1>1, CountRemoved DEF list
<1>3. new = [z \in {w \in DOMAIN map : w # x \/ rest # << >>} |-> IF z = x THEN rest ELSE map[z]]
  BY DEF Unlisted, list
<1>4. rest = << >> \/ Len(rest) # 0
  <2> HIDE DEF rest
  <2> QED BY <1>2
<1>5. x \in DOMAIN map
  BY DEF Entries, ToSet
<1> HIDE DEF new, rest
<1>6. ListsOver(new, S)
  BY <1>2, <1>3, <1>4 DEF ListsOver
<1>7. ASSUME NEW v \in S PROVE Entries(new, v) = IF v = x THEN rest ELSE Entries(map, v)
  BY <1>3, <1>4, <1>5 DEF Entries
<1>8. \A v, w \in S : Count(Entries(map, v), w) \in Nat
  BY EntriesTyped, CountTyped
<1>9. ASSUME NEW v \in S, NEW w \in S
      PROVE  Count(Entries(map, v), w) = Count(Entries(new, v), w) + (IF v = x /\ w = y THEN 1 ELSE 0)
  <2>1. CASE v = x
    <3>1. Entries(new, v) = rest /\ Entries(map, v) = list
      BY <1>7, <2>1 DEF list
    <3> QED BY <1>2, <2>1, <3>1
  <2>2. CASE v # x
    BY <1>7, <1>8, <2>2
  <2> QED BY <2>1, <2>2
<1> QED BY <1>6, <1>9 DEF new

(* Relating two blocks adds one entry to each map.                         *)
LEMMA RelateKeepsMirror ==
  ASSUME NEW S, MirrorInv(S), NEW i \in S, NEW j \in S, NEW present, Relate(i, j, present)
  PROVE  MirrorInv(S)'
<1>1. ListsOver(childrenOf, S) /\ ListsOver(parentsOf, S)
      /\ childrenOf' = Listed(childrenOf, i, j) /\ parentsOf' = Listed(parentsOf, j, i)
  BY DEF MirrorInv, Relate
<1>2. /\ ListsOver(childrenOf', S)
      /\ \A v, w \in S : Count(Entries(childrenOf', v), w)
                         = Count(Entries(childrenOf, v), w) + (IF v = i /\ w = j THEN 1 ELSE 0)
  <2> DEFINE new == Listed(childrenOf, i, j)
  <2>1. /\ ListsOver(new, S)
        /\ \A v, w \in S : Count(Entries(new, v), w)
                           = Count(Entries(childrenOf, v), w) + (IF v = i /\ w = j THEN 1 ELSE 0)
    <3>1. ListsOver(childrenOf, S)
      BY <1>1
    <3> QED BY <3>1, ListedCounts
  <2> HIDE DEF new
  <2> QED BY <1>1, <2>1 DEF new
<1>3. /\ ListsOver(parentsOf', S)
      /\ \A v, w \in S : Count(Entries(parentsOf', v), w)
                         = Count(Entries(parentsOf, v), w) + (IF v = j /\ w = i THEN 1 ELSE 0)
  <2> DEFINE new == Listed(parentsOf, j, i)
  <2>1. /\ ListsOver(new, S)
        /\ \A v, w \in S : Count(Entries(new, v), w)
                           = Count(Entries(parentsOf, v), w) + (IF v = j /\ w = i THEN 1 ELSE 0)
    <3>1. ListsOver(parentsOf, S)
      BY <1>1
    <3> QED BY <3>1, ListedCounts
  <2> HIDE DEF new
  <2> QED BY <1>1, <2>1 DEF new
<1> QED BY <1>2, <1>3 DEF MirrorInv, SameCounts, ListsOver

(* Unrelating two blocks takes the same entry out of both maps.            *)
LEMMA UnrelateKeepsMirror ==
  ASSUME NEW S, MirrorInv(S), NEW i \in S, NEW j \in S, Unrelate(i, j)
  PROVE  MirrorInv(S)'
<1>1. ListsOver(childrenOf, S) /\ ListsOver(parentsOf, S)
      /\ childrenOf' = Unlisted(childrenOf, i, j) /\ parentsOf' = Unlisted(parentsOf, j, i)
  BY DEF MirrorInv, Unrelate
<1>2. j \in ToSet(Entries(childrenOf, i)) <=> i \in ToSet(Entries(parentsOf, j))
  <2>1. Entries(childrenOf, i) \in Seq(S) /\ Entries(parentsOf, j) \in Seq(S)
    BY <1>1, EntriesTyped
  <2>2. Count(Entries(childrenOf, i), j) = 0 <=> j \notin ToSet(Entries(childrenOf, i))
    BY <2>1, CountTyped
  <2>3. Count(Entries(parentsOf, j), i) = 0 <=> i \notin ToSet(Entries(parentsOf, j))
    BY <2>1, CountTyped
  <2> QED BY <2>2, <2>3 DEF MirrorInv, SameCounts
<1>3. CASE j \in ToSet(Entries(childrenOf, i))
  <2>1. /\ ListsOver(childrenOf', S)
        /\ \A v, w \in S : Count(Entries(childrenOf, v), w)
                         = Count(Entries(childrenOf', v), w) + (IF v = i /\ w = j THEN 1 ELSE 0)
    BY <1>1, <1>3, UnlistedCounts
  <2>2. /\ ListsOver(parentsOf', S)
        /\ \A v, w \in S : Count(Entries(parentsOf, v), w)
                         = Count(Entries(parentsOf', v), w) + (IF v = j /\ w = i THEN 1 ELSE 0)
    BY <1>1, <1>2, <1>3, UnlistedCounts
  <2>3. \A v, w \in S : Count(Entries(childrenOf', v), w) \in Nat /\ Count(Entries(parentsOf', v), w) \in Nat
    BY <2>1, <2>2, EntriesTyped, CountTyped
  <2>4. \A v, w \in S : Count(Entries(childrenOf', v), w) = Count(Entries(parentsOf', w), v)
    <3>1. \A v, w \in S : Count(Entries(childrenOf, v), w) = Count(Entries(parentsOf, w), v)
      BY DEF MirrorInv, SameCounts
    <3> QED BY <2>1, <2>2, <2>3, <3>1
  <2>5. SameCounts(S)'
    BY <2>4 DEF SameCounts
  <2>6. ListsOver(childrenOf, S)' /\ ListsOver(parentsOf, S)'
    BY <2>1, <2>2 DEF ListsOver
  <2> QED BY <2>5, <2>6 DEF MirrorInv
<1>4. CASE j \notin ToSet(Entries(childrenOf, i))
  <2>1. UNCHANGED <<childrenOf, parentsOf>>
    BY <1>1, <1>2, <1>4 DEF Unlisted
  <2> QED BY <2>1, Zenon DEF MirrorInv, SameCounts, ListsOver, Entries
<1> QED BY <1>3, <1>4

LEMMA MirrorInvHolds ==
  ASSUME NEW S, MirrorInv(S)
  PROVE  MapsMirror
<1>1. \A x \in DOMAIN childrenOf : childrenOf[x] # << >>
  BY DEF MirrorInv, ListsOver
<1>2. \A x \in DOMAIN parentsOf : parentsOf[x] # << >>
  BY DEF MirrorInv, ListsOver
<1>3. DOMAIN childrenOf \cup DOMAIN parentsOf \subseteq S
  BY DEF MirrorInv, ListsOver
<1> QED BY <1>1, <1>2, <1>3 DEF MirrorInv, SameCounts, MapsMirror

LEMMA MirrorInvInit ==
  ASSUME NEW S, RelationsInit
  PROVE  MirrorInv(S)
<1>1. DOMAIN childrenOf = {} /\ DOMAIN parentsOf = {}
  BY DEF RelationsInit
<1>2. ListsOver(childrenOf, S) /\ ListsOver(parentsOf, S)
  BY <1>1 DEF ListsOver
<1>3. \A x \in S : Entries(childrenOf, x) = << >> /\ Entries(parentsOf, x) = << >>
  BY <1>1 DEF Entries
<1>4. SameCounts(S)
  <2> SUFFICES ASSUME NEW x \in S, NEW y \in S
               PROVE  Count(Entries(childrenOf, x), y) = Count(Entries(parentsOf, y), x)
    BY DEF SameCounts
  <2>1. Count(<< >>, x) = 0 /\ Count(<< >>, y) = 0
    <3>1. << >> \in Seq(S) /\ x \notin ToSet(<< >>) /\ y \notin ToSet(<< >>)
      BY DEF ToSet
    <3> QED BY <3>1, CountTyped
  <2>2. Entries(childrenOf, x) = << >> /\ Entries(parentsOf, y) = << >>
    BY <1>3
  <2> QED BY <2>1, <2>2
<1> QED BY <1>2, <1>4 DEF MirrorInv

LEMMA MirrorInvStarts == RelationsInit => MirrorInv(Numbers)
BY MirrorInvInit

RelationsKept == UNCHANGED relationVars

LEMMA RelationsMove ==
  ASSUME [WorldNext]_worldVars
  PROVE  RelationsKept \/ HostRelates \/ Restart
<1>1. CASE \E t \in TypeIds, l \in NewLayouts : RegisterNamed(t, l)
  BY <1>1 DEF RegisterNamed, RelationsKept
<1>2. CASE HostCall \/ HostConverts \/ ExecuteCommand \/ ConvertCommand \/ FinishCommands
           \/ DropEphemeral \/ FinishTick \/ Save
  BY <1>2 DEF HostCall, HostConverts, ExecuteCommand, ConvertCommand, FinishCommands,
              DropEphemeral, FinishTick, Save, RelationsKept
<1>3. CASE HostLoads
  BY <1>3 DEF HostLoads, Load, RelationsKept
<1>4. CASE UNCHANGED worldVars
  BY <1>4 DEF worldVars, RelationsKept
<1> QED BY <1>1, <1>2, <1>3, <1>4 DEF WorldNext

LEMMA MirrorInvStep == MirrorInv(Numbers) /\ [WorldNext]_worldVars => MirrorInv(Numbers)'
<1> SUFFICES ASSUME MirrorInv(Numbers), [WorldNext]_worldVars PROVE MirrorInv(Numbers)'
  OBVIOUS
<1> DEFINE S == Numbers
<1>1. CASE RelationsKept
  BY <1>1, Zenon DEF RelationsKept, relationVars, MirrorInv, SameCounts, ListsOver, Entries
<1>2. CASE HostRelates
  <2>1. PICK i \in Numbers, j \in Numbers : Relate(i, j, Identities) \/ Unrelate(i, j)
    BY <1>2 DEF HostRelates, Numbers
  <2>2. CASE Relate(i, j, Identities)
    <3> HIDE DEF S
    <3>1. MirrorInv(S) /\ i \in S /\ j \in S
      BY DEF S
    <3>2. MirrorInv(S)'
      BY <2>2, <3>1, RelateKeepsMirror
    <3> QED BY <3>2 DEF S
  <2>3. CASE Unrelate(i, j)
    BY <2>3, UnrelateKeepsMirror
  <2> QED BY <2>1, <2>2, <2>3
<1>3. CASE Restart
  <2>1. RelationsInit'
    BY <1>3 DEF Restart, RelationsInit
  <2>2. RelationsInit' => MirrorInv(Numbers)'
    BY MirrorInvStarts, PTL
  <2> QED BY <2>1, <2>2
<1> QED BY <1>1, <1>2, <1>3, RelationsMove

(* However calls that relate and unrelate blocks follow each other, in any *)
(* number and with duplicates, the two maps hold the same entries.         *)
THEOREM RelationsMirrored == WorldSpec => []MapsMirror
<1>1. WorldInit => MirrorInv(Numbers)
  BY MirrorInvInit DEF WorldInit
<1>2. MirrorInv(Numbers) => MapsMirror
  BY MirrorInvHolds
<1> QED BY <1>1, <1>2, MirrorInvStep, PTL DEF WorldSpec

-----------------------------------------------------------------------------
(* The dense stores.                                                       *)
StoresTyped ==
    /\ DOMAIN soa \subseteq TypeIds /\ DOMAIN aosoa \subseteq TypeIds /\ DOMAIN archetype \subseteq TypeIds
    /\ \A t \in DOMAIN soa : ChunkTyped(t, soa[t])
    /\ \A t \in DOMAIN aosoa : aosoa[t].size \in Nat \ {0} /\ aosoa[t].chunks \in Seq(Chunk(t))
    /\ \A t \in DOMAIN archetype :
         archetype[t].size \in Nat \ {0} /\ archetype[t].chunks \in Seq(Chunk(t))

LayoutsTyped ==
    /\ mixed \subseteq TypeIds
    /\ layout \in [TypeIds -> Layouts]
    /\ chunkSize \in [TypeIds -> [AoSoA : Nat, Archetype : Nat]]

Held(t) == ToSet(DenseIds(t))

LEMMA ExtendIs ==
  ASSUME NEW f, NEW x, NEW v
  PROVE  /\ DOMAIN Extend(f, x, v) = DOMAIN f \cup {x}
         /\ Extend(f, x, v)[x] = v
         /\ \A y \in DOMAIN f : y # x => Extend(f, x, v)[y] = f[y]
BY DEF Extend

LEMMA WithoutIs ==
  ASSUME NEW f, NEW S
  PROVE  /\ DOMAIN Without(f, S) = DOMAIN f \ S
         /\ \A y \in DOMAIN f \ S : Without(f, S)[y] = f[y]
BY DEF Without

LEMMA ChunksConcat ==
  ASSUME NEW t, NEW chunks \in Seq(Chunk(t))
  PROVE  /\ Concat(chunks) \in Seq(Numbers) /\ HoldNumbers(chunks)
         /\ ToSet(Concat(chunks)) = UNION {ToSet(chunks[c].ids) : c \in DOMAIN chunks}
<1>1. HoldNumbers(chunks)
  BY ChunksHoldNumbers
<1> QED BY <1>1, ConcatHolds

LEMMA DenseTyped ==
  ASSUME StoresTyped, NEW t
  PROVE  /\ SoAIds(t) \in Seq(Numbers) /\ AoSoAIds(t) \in Seq(Numbers)
         /\ ArchetypeIds(t) \in Seq(Numbers) /\ DenseIds(t) \in Seq(Numbers)
         /\ Held(t) = ToSet(SoAIds(t)) \cup ToSet(AoSoAIds(t)) \cup ToSet(ArchetypeIds(t))
         /\ Len(DenseIds(t)) = Len(SoAIds(t)) + Len(AoSoAIds(t)) + Len(ArchetypeIds(t))
<1> DEFINE a == SoAIds(t)
           b == AoSoAIds(t)
           c == ArchetypeIds(t)
<1>1. << >> \in Seq(Numbers)
  BY EmptySeq
<1>2. a \in Seq(Numbers)
  BY <1>1 DEF SoAIds, StoresTyped, ChunkTyped
<1>3. b \in Seq(Numbers)
  <2>1. t \in DOMAIN aosoa => Concat(aosoa[t].chunks) \in Seq(Numbers)
    BY ChunksConcat DEF StoresTyped
  <2> QED BY <1>1, <2>1 DEF AoSoAIds
<1>4. c \in Seq(Numbers)
  <2>1. t \in DOMAIN archetype => Concat(archetype[t].chunks) \in Seq(Numbers)
    BY ChunksConcat DEF StoresTyped
  <2> QED BY <1>1, <2>1 DEF ArchetypeIds
<1>5. DenseIds(t) = (a \o b) \o c
  BY DEF DenseIds
<1> HIDE DEF a, b, c
<1> DEFINE d == a \o b
<1>6. d \in Seq(Numbers) /\ Len(d) = Len(a) + Len(b) /\ ToSet(d) = ToSet(a) \cup ToSet(b)
  BY <1>2, <1>3, SetOfConcat
<1> HIDE DEF d
<1>7. d \o c \in Seq(Numbers) /\ Len(d \o c) = Len(d) + Len(c) /\ ToSet(d \o c) = ToSet(d) \cup ToSet(c)
  BY <1>4, <1>6, SetOfConcat
<1> QED BY <1>2, <1>3, <1>4, <1>5, <1>6, <1>7 DEF Held, a, b, c, d

(* The dense stores of a type are as they were. *)
SameStores(t) ==
    /\ t \in DOMAIN soa' <=> t \in DOMAIN soa
    /\ t \in DOMAIN soa => soa'[t] = soa[t]
    /\ t \in DOMAIN aosoa' <=> t \in DOMAIN aosoa
    /\ t \in DOMAIN aosoa => aosoa'[t] = aosoa[t]
    /\ t \in DOMAIN archetype' <=> t \in DOMAIN archetype
    /\ t \in DOMAIN archetype => archetype'[t] = archetype[t]

(* What the store of a layout says of the rows of a type. *)
SoAFits(t) ==
    t \in DOMAIN soa =>
        /\ DOMAIN soa[t].index = ToSet(soa[t].ids)
        /\ \A i \in ToSet(soa[t].ids) :
             soa[t].index[i] \in Nat /\ <<soa[t].index[i] + 1, i>> \in RowsOf(soa[t].ids)
        /\ Len(soa[t].ids) = 0 => \A k \in DOMAIN soa[t].columns : soa[t].columns[k] = << >>

AoSoAFits(t) == t \in DOMAIN aosoa => FullButLast(aosoa[t].chunks, aosoa[t].size)

SlotFits(chunks, at, i) ==
    /\ at[1] + 1 \in DOMAIN chunks
    /\ at[2] \in Nat /\ <<at[2] + 1, i>> \in RowsOf(chunks[at[1] + 1].ids)

ArchetypeFits(t) ==
    t \in DOMAIN archetype =>
        /\ FullButLast(archetype[t].chunks, archetype[t].size)
        /\ DOMAIN archetype[t].sparse = ToSet(ArchetypeIds(t))
        /\ \A i \in ToSet(ArchetypeIds(t)) :
             SlotFits(archetype[t].chunks, archetype[t].sparse[i], i)

LayoutFits(t) ==
    /\ Len(SoAIds(t)) # 0 => layout[t] = "SoA"
    /\ Len(AoSoAIds(t)) # 0 => layout[t] = "AoSoA"
    /\ Len(ArchetypeIds(t)) # 0 => layout[t] = "Archetype"

DenseFits(t) ==
    /\ SoAFits(t) /\ AoSoAFits(t) /\ ArchetypeFits(t) /\ LayoutFits(t)
    /\ Cardinality(Held(t)) = Len(DenseIds(t))

(* The chunks of a type in the store of its layout; an SoA store is one. *)
DenseChunks(t) ==
    IF layout[t] = "SoA" /\ t \in DOMAIN soa THEN <<soa[t]>>
    ELSE IF layout[t] = "AoSoA" /\ t \in DOMAIN aosoa THEN aosoa[t].chunks
    ELSE IF layout[t] = "Archetype" /\ t \in DOMAIN archetype THEN archetype[t].chunks
    ELSE << >>

(* Chunks whose columns were filled with the blocks of the map they name.  *)
CarriesRows(t, chunks) ==
    \E junk \in [Beyond(t) -> Values] : \A c \in DOMAIN chunks :
        /\ chunks[c].ids \in Seq(Ids(t))
        /\ \A k \in DOMAIN ColumnsOf(t) : \E column \in Data :
             chunks[c].columns[k] = Fill(column, ColumnsOf(t)[k], chunks[c].ids, junk)

LEMMA SameStoresKeep ==
  ASSUME NEW t, SameStores(t)
  PROVE  /\ SoAIds(t)' = SoAIds(t) /\ AoSoAIds(t)' = AoSoAIds(t) /\ ArchetypeIds(t)' = ArchetypeIds(t)
         /\ DenseIds(t)' = DenseIds(t) /\ Held(t)' = Held(t)
         /\ SoAFits(t)' <=> SoAFits(t)
         /\ AoSoAFits(t)' <=> AoSoAFits(t)
         /\ ArchetypeFits(t)' <=> ArchetypeFits(t)
<1>1. SoAIds(t)' = SoAIds(t) /\ AoSoAIds(t)' = AoSoAIds(t) /\ ArchetypeIds(t)' = ArchetypeIds(t)
  BY DEF SameStores, SoAIds, AoSoAIds, ArchetypeIds
<1>2. DenseIds(t)' = DenseIds(t)
  BY <1>1 DEF DenseIds
<1>3. Held(t)' = Held(t)
  BY <1>2 DEF Held
<1>4. SoAFits(t)' <=> SoAFits(t)
  BY DEF SameStores, SoAFits
<1>5. AoSoAFits(t)' <=> AoSoAFits(t)
  BY DEF SameStores, AoSoAFits
<1>6. ArchetypeFits(t)' <=> ArchetypeFits(t)
  BY <1>1 DEF SameStores, ArchetypeFits
<1> QED BY <1>1, <1>2, <1>3, <1>4, <1>5, <1>6

(* Stores that did not change fit as they did, unless a layout was set over*)
(* a held block.                                                           *)
LEMMA SameStoresFit ==
  ASSUME NEW t, SameStores(t), StoresTyped, DenseFits(t), layout'[t] = layout[t] \/ Len(DenseIds(t)) = 0
  PROVE  DenseFits(t)'
<1>1. LayoutFits(t)'
  <2>1. Len(SoAIds(t)) \in Nat /\ Len(AoSoAIds(t)) \in Nat /\ Len(ArchetypeIds(t)) \in Nat
        /\ Len(DenseIds(t)) = Len(SoAIds(t)) + Len(AoSoAIds(t)) + Len(ArchetypeIds(t))
    BY DenseTyped, ElementsOf
  <2> QED BY <2>1, SameStoresKeep DEF LayoutFits, DenseFits
<1> QED BY <1>1, SameStoresKeep DEF DenseFits

-----------------------------------------------------------------------------
(* Lists without repetitions. *)
NoneTwice(s) == Cardinality(ToSet(s)) = Len(s)

LEMMA ElementsCounted ==
  ASSUME NEW T, NEW s \in Seq(T)
  PROVE  /\ IsFiniteSet(ToSet(s)) /\ Cardinality(ToSet(s)) \in Nat
         /\ Len(s) \in Nat /\ Cardinality(ToSet(s)) <= Len(s)
<1>1. Len(s) \in Nat /\ DOMAIN s = 1..Len(s)
  BY ElementsOf
<1> DEFINE c == Len(s)
           I == 1..c
<1>2. IsFiniteSet(I) /\ Cardinality(I) = c
  <2> HIDE DEF c
  <2>1. c \in Nat
    BY <1>1 DEF c
  <2>2. 1 \in Int /\ c \in Int
    BY <2>1
  <2>3. IsFiniteSet(1..c)
    BY <2>2, FS_Interval
  <2>4. Cardinality(1..c) = c
    BY <2>1, <2>2, FS_Interval
  <2> QED BY <2>3, <2>4
<1>3. s \in Surjection(I, ToSet(s))
  <2>1. s \in [I -> ToSet(s)]
    BY <1>1 DEF ToSet
  <2> QED BY <1>1, <2>1 DEF Surjection, ToSet
<1>4. IsFiniteSet(ToSet(s)) /\ Cardinality(ToSet(s)) <= Cardinality(I)
  <2> HIDE DEF I
  <2> QED BY <1>2, <1>3, FS_Surjection
<1> QED BY <1>1, <1>2, <1>4, FS_CardinalityType

(* Two lists joined have no repetition just if neither has and they have no*)
(* element in common.                                                      *)
LEMMA JoinedOnce ==
  ASSUME NEW T, NEW a \in Seq(T), NEW b \in Seq(T)
  PROVE  NoneTwice(a \o b) <=> NoneTwice(a) /\ NoneTwice(b) /\ ToSet(a) \cap ToSet(b) = {}
<1> DEFINE A == ToSet(a)
           B == ToSet(b)
<1>1. Len(a \o b) = Len(a) + Len(b) /\ ToSet(a \o b) = A \cup B
  BY SetOfConcat
<1>2. /\ IsFiniteSet(A) /\ Cardinality(A) \in Nat /\ Len(a) \in Nat /\ Cardinality(A) <= Len(a)
      /\ IsFiniteSet(B) /\ Cardinality(B) \in Nat /\ Len(b) \in Nat /\ Cardinality(B) <= Len(b)
  BY ElementsCounted
<1> HIDE DEF A, B
<1>3. Cardinality(A \cup B) = Cardinality(A) + Cardinality(B) - Cardinality(A \cap B)
  BY <1>2, FS_Union
<1>4. /\ IsFiniteSet(A \cap B) /\ Cardinality(A \cap B) \in Nat
      /\ Cardinality(A \cap B) = 0 <=> A \cap B = {}
  <2>1. A \cap B \in SUBSET A
    OBVIOUS
  <2>2. IsFiniteSet(A \cap B)
    BY <1>2, <2>1, FS_Subset
  <2> QED BY <2>2, FS_CardinalityType, FS_EmptySet
<1>5. /\ NoneTwice(a \o b) <=> Cardinality(A \cup B) = Len(a) + Len(b)
      /\ NoneTwice(a) <=> Cardinality(A) = Len(a)
      /\ NoneTwice(b) <=> Cardinality(B) = Len(b)
  BY <1>1 DEF NoneTwice, A, B
<1> DEFINE x == Cardinality(A)
           y == Cardinality(B)
           z == Cardinality(A \cap B)
           m == Len(a)
           n == Len(b)
<1>6. x + y - z = m + n <=> x = m /\ y = n /\ z = 0
  <2>1. x \in Nat /\ y \in Nat /\ z \in Nat /\ m \in Nat /\ n \in Nat /\ x <= m /\ y <= n
    BY <1>2, <1>4
  <2> HIDE DEF x, y, z, m, n
  <2> QED BY <2>1
<1> QED BY <1>3, <1>4, <1>5, <1>6 DEF A, B

(* Of three lists joined without repetitions each two are too. *)
LEMMA ThreeOnce ==
  ASSUME NEW T, NEW a \in Seq(T), NEW b \in Seq(T), NEW c \in Seq(T), NoneTwice((a \o b) \o c)
  PROVE  /\ NoneTwice(a \o b) /\ NoneTwice(a \o c) /\ NoneTwice(b \o c)
         /\ ToSet(a) \cap (ToSet(b) \cup ToSet(c)) = {}
         /\ ToSet(b) \cap ToSet(c) = {}
<1>1. a \o b \in Seq(T) /\ ToSet(a \o b) = ToSet(a) \cup ToSet(b)
  BY SetOfConcat
<1>2. NoneTwice(a \o b) /\ NoneTwice(c) /\ ToSet(a \o b) \cap ToSet(c) = {}
  <2> DEFINE d == a \o b
  <2>1. d \in Seq(T) /\ NoneTwice(d \o c)
    BY <1>1
  <2> HIDE DEF d
  <2>2. NoneTwice(d) /\ NoneTwice(c) /\ ToSet(d) \cap ToSet(c) = {}
    BY <2>1, JoinedOnce
  <2> QED BY <2>2 DEF d
<1>3. NoneTwice(a) /\ NoneTwice(b) /\ ToSet(a) \cap ToSet(b) = {}
  BY <1>2, JoinedOnce
<1> QED BY <1>1, <1>2, <1>3, JoinedOnce

(* What is left when the rows of one of the three stores are taken out. *)
LeavesOf(t, back, left) ==
    /\ Held(t) = back \cup ToSet(left)
    /\ NoneTwice(DenseIds(t)) => NoneTwice(left) /\ back \cap ToSet(left) = {}

LEMMA StoreLeaves ==
  ASSUME StoresTyped, NEW t
  PROVE  /\ LeavesOf(t, ToSet(SoAIds(t)), AoSoAIds(t) \o ArchetypeIds(t))
         /\ LeavesOf(t, ToSet(AoSoAIds(t)), SoAIds(t) \o ArchetypeIds(t))
         /\ LeavesOf(t, ToSet(ArchetypeIds(t)), SoAIds(t) \o AoSoAIds(t))
<1> DEFINE a == SoAIds(t)
           b == AoSoAIds(t)
           c == ArchetypeIds(t)
<1>1. /\ a \in Seq(Numbers) /\ b \in Seq(Numbers) /\ c \in Seq(Numbers)
      /\ Held(t) = ToSet(a) \cup ToSet(b) \cup ToSet(c)
  BY DenseTyped
<1>2. DenseIds(t) = (a \o b) \o c
  BY DEF DenseIds
<1> HIDE DEF a, b, c
<1>3. /\ ToSet(a \o b) = ToSet(a) \cup ToSet(b) /\ ToSet(a \o c) = ToSet(a) \cup ToSet(c)
      /\ ToSet(b \o c) = ToSet(b) \cup ToSet(c)
  BY <1>1, SetOfConcat
<1>4. NoneTwice(DenseIds(t)) =>
        /\ NoneTwice(a \o b) /\ NoneTwice(a \o c) /\ NoneTwice(b \o c)
        /\ ToSet(a) \cap (ToSet(b) \cup ToSet(c)) = {}
        /\ ToSet(b) \cap ToSet(c) = {}
  BY <1>1, <1>2, ThreeOnce
<1>5. LeavesOf(t, ToSet(a), b \o c) /\ LeavesOf(t, ToSet(b), a \o c) /\ LeavesOf(t, ToSet(c), a \o b)
  BY <1>1, <1>3, <1>4 DEF LeavesOf
<1> QED BY <1>5 DEF a, b, c

-----------------------------------------------------------------------------
(* The conversions from the map to a store.                                *)
MovesOut(t) ==
    /\ LeaveMap(t)
    /\ ToSet(DenseIds(t)') = Held(t) \cup Ids(t)
    /\ Len(DenseIds(t)') = Len(DenseIds(t)) + Cardinality(Ids(t))
    /\ \A u \in TypeIds : u # t => SameStores(u) /\ layout'[u] = layout[u]
    /\ mixed \subseteq mixed' /\ mixed' \subseteq mixed \cup {t}
    /\ t \notin mixed' /\ DenseFits(t) =>
         DenseFits(t)' /\ Held(t) = {} /\ CarriesRows(t, DenseChunks(t)')

LEMMA ElsewhereEmpty ==
  ASSUME NEW t, NEW l, ~HeldElsewhere(t, l)
  PROVE  /\ l # "SoA" => SoAIds(t) = << >>
         /\ l # "AoSoA" => AoSoAIds(t) = << >>
         /\ l # "Archetype" => ArchetypeIds(t) = << >>
BY ConcatOfFew DEF HeldElsewhere, SoAIds, AoSoAIds, ArchetypeIds

LEMMA AdoptTyped ==
  ASSUME LayoutsTyped, NEW t \in TypeIds, NEW l \in Layouts, NEW d, Adopt(t, l, d)
  PROVE  /\ mixed' \subseteq TypeIds /\ layout' \in [TypeIds -> Layouts]
         /\ layout'[t] = l /\ \A u \in TypeIds : u # t => layout'[u] = layout[u]
         /\ mixed \subseteq mixed' /\ mixed' \subseteq mixed \cup {t}
         /\ t \notin mixed' => ~HeldElsewhere(t, d)
BY DEF LayoutsTyped, Adopt

LEMMA PositionIs ==
  ASSUME NEW T, NEW ids \in Seq(T), Cardinality(ToSet(ids)) = Len(ids), NEW i \in ToSet(ids)
  PROVE  /\ Position(i, ids) + 1 \in DOMAIN ids /\ ids[Position(i, ids) + 1] = i
         /\ Position(i, ids) \in 0..(Len(ids) - 1)
<1>1. Len(ids) \in Nat /\ DOMAIN ids = 1..Len(ids)
  BY ElementsOf
<1>2. \E n \in DOMAIN ids : ids[n] = i
  BY DEF ToSet
<1> DEFINE p == CHOOSE n \in DOMAIN ids : ids[n] = i
<1>3. p \in DOMAIN ids /\ ids[p] = i
  BY <1>2
<1> HIDE DEF p
<1>4. p \in 1..Len(ids) /\ p - 1 \in 0..(Len(ids) - 1) /\ (p - 1) + 1 = p
  BY <1>1, <1>3
<1>5. Position(i, ids) = p - 1
  BY DEF Position, p
<1> QED BY <1>3, <1>4, <1>5

(* A list of as many elements as entries has each of them once. *)
LEMMA EntriesDiffer ==
  ASSUME NEW T, NEW s \in Seq(T), Cardinality(ToSet(s)) = Len(s)
  PROVE  \A m, n \in DOMAIN s : s[m] = s[n] => m = n
<1>1. Len(s) \in Nat /\ DOMAIN s = 1..Len(s)
  BY ElementsOf
<1>2. IsFiniteSet(1..Len(s)) /\ Cardinality(1..Len(s)) = Len(s)
  <2> DEFINE c == Len(s)
  <2>1. c \in Nat
    BY <1>1
  <2> HIDE DEF c
  <2>2. 1 \in Int /\ c \in Int
    BY <2>1
  <2>3. IsFiniteSet(1..c)
    BY <2>2, FS_Interval
  <2>4. Cardinality(1..c) = c
    BY <2>1, <2>2, FS_Interval
  <2> QED BY <2>3, <2>4 DEF c
<1>3. s \in Surjection(1..Len(s), ToSet(s))
  <2>1. s \in [1..Len(s) -> ToSet(s)]
    BY DEF ToSet
  <2> QED BY <1>1, <2>1 DEF Surjection, ToSet
<1>4. s \in Injection(1..Len(s), ToSet(s))
  BY <1>2, <1>3, FS_Surjection
<1> QED BY <1>1, <1>4 DEF Injection, IsInjective

LEMMA IdsStored ==
  ASSUME BMTypeOK, NEW t \in TypeIds, NEW columns \in [DOMAIN ColumnsOf(t) -> Data],
         NEW junk \in [Beyond(t) -> Values]
  PROVE  LET ids == IdsInOrder(t)
             new == [k \in DOMAIN columns |-> Fill(columns[k], ColumnsOf(t)[k], ids, junk)] IN
         /\ new \in [DOMAIN ColumnsOf(t) -> Data]
         /\ Len(ids) = 0 => \A k \in DOMAIN columns : new[k] = columns[k]
<1> DEFINE ids == IdsInOrder(t)
           cell(k) == Fill(columns[k], ColumnsOf(t)[k], ids, junk)
<1>1. Len(ids) \in Nat /\ \A n \in 1..Len(ids) : ids[n] \in Ids(t)
  BY IdsInOrderHold
<1>2. ASSUME NEW k \in DOMAIN columns
      PROVE  cell(k) \in Data /\ (Len(ids) = 0 => cell(k) = columns[k])
  <2> HIDE DEF ids
  <2>1. columns[k] \in Data /\ ColumnsOf(t)[k].size \in Nat /\ k \in DOMAIN ColumnsOf(t)
    BY ColumnsTyped
  <2>2. \A n \in 1..Len(ids) : FieldBytes(ids[n], ColumnsOf(t)[k], junk) \in Data
    BY <1>1, <2>1, FieldBytesTyped
  <2> QED BY <1>1, <2>1, <2>2, FillTyped
<1>3. DOMAIN columns = DOMAIN ColumnsOf(t)
  OBVIOUS
<1> HIDE DEF cell, ids
<1> QED BY <1>2, <1>3 DEF cell, ids

LEMMA OverNothing ==
  ASSUME NEW f, NEW g, DOMAIN g = {}
  PROVE  DOMAIN Over(f, g) = DOMAIN f /\ \A x \in DOMAIN f : Over(f, g)[x] = f[x]
BY DEF Over

LEMMA OneCarries ==
  ASSUME NEW t, NEW junk \in [Beyond(t) -> Values], NEW new, new.ids \in Seq(Ids(t)),
         \A k \in DOMAIN ColumnsOf(t) : \E column \in Data :
           new.columns[k] = Fill(column, ColumnsOf(t)[k], new.ids, junk)
  PROVE  CarriesRows(t, <<new>>)
<1>1. DOMAIN <<new>> = {1} /\ <<new>>[1] = new
  OBVIOUS
<1> QED BY <1>1 DEF CarriesRows

(* convert_to_soa moves the blocks of a type out of the map.               *)
LEMMA ConvertToSoAMoves ==
  ASSUME BMTypeOK, StoresTyped, LayoutsTyped, NEW t \in TypeIds, ConvertToSoA(t)
  PROVE  StoresTyped' /\ LayoutsTyped' /\ MovesOut(t)
<1> DEFINE old == SoAStore(t)
           ids == IdsInOrder(t)
           index == Over([i \in Ids(t) |-> Position(i, ids)], old.index)
<1>1. PICK junk \in [Beyond(t) -> Values] :
        soa' = Extend(soa, t,
          [ids |-> old.ids \o ids, index |-> index,
           columns |-> [k \in DOMAIN old.columns |-> Fill(old.columns[k], ColumnsOf(t)[k], ids, junk)]])
  BY DEF ConvertToSoA
<1> DEFINE columns == [k \in DOMAIN old.columns |-> Fill(old.columns[k], ColumnsOf(t)[k], ids, junk)]
           new == [ids |-> old.ids \o ids, index |-> index, columns |-> columns]
<1>2. /\ old.ids \in Seq(Numbers) /\ old.columns \in [DOMAIN ColumnsOf(t) -> Data]
      /\ old.ids = SoAIds(t)
      /\ t \in DOMAIN soa => old = soa[t]
      /\ t \notin DOMAIN soa => DOMAIN old.index = {} /\ \A k \in DOMAIN old.columns : old.columns[k] = << >>
  BY EmptySeq DEF SoAStore, NoStore, StoresTyped, ChunkTyped, SoAIds, Data
<1>3. /\ ids \in Seq(Numbers) /\ ToSet(ids) = Ids(t) /\ Cardinality(ToSet(ids)) = Len(ids)
  BY IdsInOrderHold
<1>4. /\ columns \in [DOMAIN ColumnsOf(t) -> Data]
      /\ Len(ids) = 0 => \A k \in DOMAIN columns : columns[k] = old.columns[k]
  <2> HIDE DEF old
  <2> QED BY <1>2, IdsStored
<1>5. /\ layout[t] # "SoA" /\ Adopt(t, "SoA", "SoA") /\ LeaveMap(t)
      /\ UNCHANGED <<chunkSize, aosoa, archetype>>
  BY DEF ConvertToSoA
<1>6. /\ new.ids = old.ids \o ids /\ new.index = index /\ new.columns = columns
      /\ soa' = Extend(soa, t, new)
  BY <1>1
<1> HIDE DEF old, ids, index, columns, new
<1>7. new.ids \in Seq(Numbers) /\ ToSet(new.ids) = ToSet(old.ids) \cup Ids(t)
  BY <1>2, <1>3, <1>6, SetOfConcat
<1>8. /\ DOMAIN soa' = DOMAIN soa \cup {t} /\ soa'[t] = new
      /\ \A u \in DOMAIN soa : u # t => soa'[u] = soa[u]
  <2> DEFINE e == Extend(soa, t, new)
  <2>1. DOMAIN e = DOMAIN soa \cup {t} /\ e[t] = new /\ \A u \in DOMAIN soa : u # t => e[u] = soa[u]
    BY DEF Extend
  <2> HIDE DEF e
  <2> QED BY <1>6, <2>1 DEF e
<1>9. StoresTyped'
  <2>1. \A u \in DOMAIN soa' : ChunkTyped(u, soa'[u])
    BY <1>4, <1>6, <1>7, <1>8 DEF StoresTyped, ChunkTyped
  <2>2. DOMAIN soa' \subseteq TypeIds
    BY <1>8 DEF StoresTyped
  <2> QED BY <1>5, <2>1, <2>2 DEF StoresTyped
<1>10. /\ mixed' \subseteq TypeIds /\ layout' \in [TypeIds -> Layouts]
       /\ layout'[t] = "SoA" /\ \A u \in TypeIds : u # t => layout'[u] = layout[u]
       /\ mixed \subseteq mixed' /\ mixed' \subseteq mixed \cup {t}
       /\ t \notin mixed' => ~HeldElsewhere(t, "SoA")
  <2>1. "SoA" \in Layouts
    BY DEF Layouts
  <2> QED BY <1>5, <2>1, AdoptTyped
<1>11. LayoutsTyped'
  BY <1>5, <1>10 DEF LayoutsTyped
<1>12. \A u \in TypeIds : u # t => SameStores(u) /\ layout'[u] = layout[u]
  BY <1>5, <1>8, <1>10 DEF SameStores
<1>13. /\ SoAIds(t)' = new.ids /\ AoSoAIds(t)' = AoSoAIds(t) /\ ArchetypeIds(t)' = ArchetypeIds(t)
  BY <1>5, <1>8 DEF SoAIds, AoSoAIds, ArchetypeIds
<1>14. /\ ToSet(DenseIds(t)') = ToSet(new.ids) \cup ToSet(AoSoAIds(t)) \cup ToSet(ArchetypeIds(t))
       /\ Held(t) = ToSet(SoAIds(t)) \cup ToSet(AoSoAIds(t)) \cup ToSet(ArchetypeIds(t))
       /\ Len(DenseIds(t)') = Len(DenseIds(t)) + Cardinality(Ids(t))
  <2>1. AoSoAIds(t) \in Seq(Numbers) /\ ArchetypeIds(t) \in Seq(Numbers)
        /\ Held(t) = ToSet(SoAIds(t)) \cup ToSet(AoSoAIds(t)) \cup ToSet(ArchetypeIds(t))
    BY DenseTyped
  <2> DEFINE d == new.ids \o AoSoAIds(t)
  <2>2. d \in Seq(Numbers) /\ ToSet(d) = ToSet(new.ids) \cup ToSet(AoSoAIds(t))
    BY <1>7, <2>1, SetOfConcat
  <2>3. DenseIds(t)' = d \o ArchetypeIds(t)
    BY <1>13 DEF DenseIds
  <2>4. Len(d) = Len(new.ids) + Len(AoSoAIds(t)) /\ Len(new.ids) = Len(SoAIds(t)) + Cardinality(Ids(t))
    BY <1>2, <1>3, <1>6, <1>7, <2>1, SetOfConcat
  <2>5. Len(DenseIds(t)) = Len(SoAIds(t)) + Len(AoSoAIds(t)) + Len(ArchetypeIds(t))
    BY DenseTyped
  <2>6. /\ Len(SoAIds(t)) \in Nat /\ Len(AoSoAIds(t)) \in Nat /\ Len(ArchetypeIds(t)) \in Nat
        /\ Cardinality(Ids(t)) \in Nat
    BY <1>2, <1>3, <2>1, ElementsOf
  <2> HIDE DEF d
  <2>7. /\ ToSet(d \o ArchetypeIds(t)) = ToSet(d) \cup ToSet(ArchetypeIds(t))
        /\ Len(d \o ArchetypeIds(t)) = Len(d) + Len(ArchetypeIds(t))
    BY <2>1, <2>2, SetOfConcat
  <2>8. Len(DenseIds(t)') = Len(DenseIds(t)) + Cardinality(Ids(t))
    BY <2>3, <2>4, <2>5, <2>6, <2>7
  <2> QED BY <2>1, <2>2, <2>3, <2>7, <2>8
<1>15. /\ ToSet(DenseIds(t)') = Held(t) \cup Ids(t)
       /\ Len(DenseIds(t)') = Len(DenseIds(t)) + Cardinality(Ids(t))
  BY <1>2, <1>7, <1>14
<1>16. ASSUME t \notin mixed', DenseFits(t)
       PROVE  DenseFits(t)' /\ Held(t) = {} /\ CarriesRows(t, DenseChunks(t)')
  <2>1. AoSoAIds(t) = << >> /\ ArchetypeIds(t) = << >>
    BY <1>10, <1>16, ElsewhereEmpty
  <2>2. old.ids = << >> /\ DOMAIN old.index = {} /\ \A k \in DOMAIN old.columns : old.columns[k] = << >>
    <3>1. Len(old.ids) = 0
      BY <1>2, <1>5, <1>16 DEF DenseFits, LayoutFits
    <3>2. old.ids = << >>
      BY <1>2, <3>1
    <3>3. t \in DOMAIN soa => DOMAIN soa[t].index = {} /\ \A k \in DOMAIN soa[t].columns : soa[t].columns[k] = << >>
      <4> SUFFICES ASSUME t \in DOMAIN soa
                   PROVE  DOMAIN soa[t].index = {} /\ \A k \in DOMAIN soa[t].columns : soa[t].columns[k] = << >>
        OBVIOUS
      <4>1. soa[t].ids = << >> /\ Len(soa[t].ids) = 0
        BY <1>2, <3>1, <3>2
      <4>2. ToSet(soa[t].ids) = {}
        BY <4>1 DEF ToSet
      <4> QED BY <1>16, <4>1, <4>2 DEF DenseFits, SoAFits
    <3> QED BY <1>2, <3>2, <3>3
  <2>3. new.ids = ids
    BY <1>3, <1>6, <2>2, ConcatEmptySeq
  <2>4. DOMAIN new.index = Ids(t) /\ \A i \in Ids(t) : new.index[i] = Position(i, ids)
    <3> DEFINE f == [i \in Ids(t) |-> Position(i, ids)]
    <3>1. DOMAIN f = Ids(t) /\ \A i \in Ids(t) : f[i] = Position(i, ids)
      OBVIOUS
    <3>2. new.index = Over(f, old.index)
      BY <1>6 DEF index
    <3> HIDE DEF f
    <3>3. DOMAIN Over(f, old.index) = DOMAIN f /\ \A i \in DOMAIN f : Over(f, old.index)[i] = f[i]
      BY <2>2, OverNothing
    <3> QED BY <3>1, <3>2, <3>3
  <2>5. SoAFits(t)'
    <3>1. \A i \in ToSet(ids) : new.index[i] \in Nat /\ <<new.index[i] + 1, i>> \in RowsOf(ids)
      <4> TAKE i \in ToSet(ids)
      <4>1. Position(i, ids) + 1 \in DOMAIN ids /\ ids[Position(i, ids) + 1] = i
        BY <1>3, PositionIs
      <4>2. Position(i, ids) \in Nat
        <5>1. Position(i, ids) \in 0..(Len(ids) - 1)
          BY <1>3, PositionIs
        <5> QED BY <5>1
      <4> QED BY <1>3, <2>4, <4>1, <4>2 DEF RowsOf
    <3>2. Len(ids) = 0 => \A k \in DOMAIN new.columns : new.columns[k] = << >>
      <4>1. DOMAIN columns = DOMAIN old.columns
        BY <1>2, <1>4
      <4> QED BY <1>4, <1>6, <2>2, <4>1
    <3>3. DOMAIN new.index = ToSet(new.ids)
      BY <1>3, <2>3, <2>4
    <3> QED BY <1>8, <2>3, <3>1, <3>2, <3>3 DEF SoAFits
  <2>6. AoSoAFits(t)' /\ ArchetypeFits(t)'
    BY <1>5, <1>13, <1>16 DEF DenseFits, AoSoAFits, ArchetypeFits
  <2>7. LayoutFits(t)'
    BY <1>10, <1>13, <2>1 DEF LayoutFits
  <2>8. DenseIds(t)' = ids
    <3>1. DenseIds(t)' = (ids \o << >>) \o << >>
      BY <1>13, <2>1, <2>3 DEF DenseIds
    <3> QED BY <1>3, <3>1, ConcatEmptySeq
  <2>9. Cardinality(Held(t)') = Len(DenseIds(t)')
    BY <1>3, <2>8 DEF Held
  <2>10. Held(t) = {}
    BY <1>2, <1>14, <2>1, <2>2 DEF ToSet
  <2>11. CarriesRows(t, DenseChunks(t)')
    <3>1. DenseChunks(t)' = <<new>>
      BY <1>8, <1>10 DEF DenseChunks
    <3>2. \A k \in DOMAIN ColumnsOf(t) :
            old.columns[k] \in Data /\ columns[k] = Fill(old.columns[k], ColumnsOf(t)[k], ids, junk)
      BY <1>2 DEF columns
    <3>3. ids \in Seq(Ids(t))
      BY IdsInOrderHold DEF ids
    <3> QED BY <1>6, <2>3, <3>1, <3>2, <3>3, OneCarries
  <2> QED BY <2>5, <2>6, <2>7, <2>9, <2>10, <2>11 DEF DenseFits
<1> QED BY <1>5, <1>9, <1>10, <1>11, <1>12, <1>15, <1>16 DEF MovesOut

-----------------------------------------------------------------------------
(* The chunks of a conversion are full but for the last, and the slots are *)
(* rows of theirs.                                                         *)
LEMMA ChunksFull ==
  ASSUME BMTypeOK, NEW t \in TypeIds, NEW n \in Nat \ {0}, NEW junk \in [Beyond(t) -> Values]
  PROVE  LET cut == Chunks(t, IdsInOrder(t), n, junk) IN
         /\ cut \in Seq(Chunk(t)) /\ Concat(cut) = IdsInOrder(t) /\ FullButLast(cut, n)
         /\ \A i \in Ids(t) : SlotFits(cut, Slots(IdsInOrder(t), 0, n)[i], i)
<1> DEFINE ids == IdsInOrder(t)
           cut == Chunks(t, ids, n, junk)
           z == Portions(Len(ids), n)
<1>1. ids \in Seq(Ids(t)) /\ ToSet(ids) = Ids(t) /\ Cardinality(ToSet(ids)) = Len(ids)
  BY IdsInOrderHold
<1> HIDE DEF ids
<1>2. /\ cut \in Seq(Chunk(t)) /\ Len(cut) = z
      /\ \A c \in 1..z : cut[c].ids = Part(ids, n, c)
  BY <1>1, ChunksCut
<1>3. Concat(cut) = ids
  BY <1>1, ConcatChunks
<1> HIDE DEF cut
<1>4. DOMAIN cut = 1..z
  BY <1>2, ElementsOf
<1>5. FullButLast(cut, n)
  <2>1. \A c \in 1..z : Len(Part(ids, n, c)) \in 1..n /\ (c < z => Len(Part(ids, n, c)) = n)
    BY <1>1, PartFits
  <2> HIDE DEF z
  <2> QED BY <1>2, <1>4, <2>1 DEF FullButLast
<1>6. ASSUME NEW i \in Ids(t) PROVE SlotFits(cut, Slots(ids, 0, n)[i], i)
  <2> DEFINE p == Position(i, ids)
             c == p \div n
             r == p % n
  <2>1. p \in 0..(Len(ids) - 1) /\ ids[p + 1] = i
    BY <1>1, PositionIs
  <2>2. Slots(ids, 0, n)[i] = <<0 + c, r>>
    BY <1>1 DEF Slots
  <2> HIDE DEF p
  <2>3. /\ c + 1 \in 1..z /\ r + 1 \in 1..Len(Part(ids, n, c + 1))
        /\ Part(ids, n, c + 1)[r + 1] = ids[p + 1]
    <3>1. c = p \div n /\ r = p % n
      OBVIOUS
    <3> HIDE DEF c, r, z
    <3>2. ids \in Seq(Ids(t)) /\ p \in 0..(Len(ids) - 1) /\ n \in Nat \ {0}
      BY <1>1, <2>1
    <3>3. RowIs(ids, n, p, p \div n, p % n)
      BY <3>2, PartHolds, Zenon
    <3> QED BY <3>1, <3>3 DEF RowIs, z
  <2>4. c \in Nat /\ r \in Nat
    <3>1. p \in Nat
      BY <1>1, <2>1
    <3> QED BY <3>1, Division
  <2> HIDE DEF c, r, z
  <2>5. Part(ids, n, c + 1) \in Seq(Ids(t))
    BY <1>1, <2>3, PartFits DEF z
  <2>6. <<r + 1, i>> \in RowsOf(cut[c + 1].ids)
    <3>1. cut[c + 1].ids = Part(ids, n, c + 1)
      BY <1>2, <2>3
    <3> DEFINE q == Part(ids, n, c + 1)
    <3>2. DOMAIN q = 1..Len(q)
      BY <2>5, ElementsOf
    <3>3. r + 1 \in DOMAIN q /\ q[r + 1] = i
      BY <2>1, <2>3, <3>2
    <3> HIDE DEF q
    <3> QED BY <3>1, <3>3 DEF RowsOf, q
  <2>7. Slots(ids, 0, n)[i][1] + 1 = c + 1 /\ Slots(ids, 0, n)[i][2] = r
    BY <2>2, <2>4
  <2> DEFINE at == Slots(ids, 0, n)[i]
  <2>8. at[1] + 1 \in DOMAIN cut /\ at[2] \in Nat /\ <<at[2] + 1, i>> \in RowsOf(cut[at[1] + 1].ids)
    BY <1>4, <2>3, <2>4, <2>6, <2>7
  <2> HIDE DEF at
  <2> QED BY <2>8 DEF SlotFits, at
<1> QED BY <1>2, <1>3, <1>5, <1>6 DEF cut, ids

LEMMA ChunksCarry ==
  ASSUME BMTypeOK, NEW t \in TypeIds, NEW n \in Nat \ {0}, NEW junk \in [Beyond(t) -> Values]
  PROVE  CarriesRows(t, Chunks(t, IdsInOrder(t), n, junk))
<1> DEFINE ids == IdsInOrder(t)
           z == Portions(Len(ids), n)
           part(c) == Part(ids, n, c)
           start(c, k) == Zeroed(Len(part(c)) * ColumnsOf(t)[k].size)
           column(c, k) == Fill(start(c, k), ColumnsOf(t)[k], part(c), junk)
           chunk(c) == [ids |-> part(c), columns |-> [k \in DOMAIN ColumnsOf(t) |-> column(c, k)]]
           cut == Chunks(t, ids, n, junk)
<1>1. ids \in Seq(Ids(t))
  BY IdsInOrderHold
<1>2. cut = [c \in 1..z |-> chunk(c)]
  BY DEF Chunks, Portions, Part
<1> HIDE DEF ids
<1>3. ASSUME NEW c \in 1..z
      PROVE  /\ part(c) \in Seq(Ids(t))
             /\ \A k \in DOMAIN ColumnsOf(t) : start(c, k) \in Data
  <2>1. part(c) \in Seq(Ids(t)) /\ Len(part(c)) \in Nat
    BY <1>1, <1>3, PartFits
  <2> HIDE DEF part
  <2>2. ASSUME NEW k \in DOMAIN ColumnsOf(t) PROVE start(c, k) \in Data
    <3>1. ColumnsOf(t)[k].size \in Nat
      BY ColumnsTyped
    <3>2. Len(part(c)) * ColumnsOf(t)[k].size \in Nat
      BY <2>1, <3>1
    <3> QED BY <3>2, ZeroedLength
  <2> QED BY <2>1, <2>2
<1>4. \A c \in 1..z : /\ chunk(c).ids = part(c)
                      /\ \A k \in DOMAIN ColumnsOf(t) : chunk(c).columns[k] = column(c, k)
  OBVIOUS
<1> HIDE DEF z, part, start, chunk, cut
<1>5. /\ DOMAIN cut = 1..z
      /\ \A c \in DOMAIN cut :
           /\ cut[c].ids = part(c) /\ cut[c].ids \in Seq(Ids(t))
           /\ \A k \in DOMAIN ColumnsOf(t) : start(c, k) \in Data /\ cut[c].columns[k] = column(c, k)
  BY <1>2, <1>3, <1>4
<1>6. CarriesRows(t, cut)
  BY <1>5 DEF CarriesRows
<1> QED BY <1>6 DEF cut, ids

LEMMA NoRowsNoChunks ==
  ASSUME NEW t, NEW chunks \in Seq(Chunk(t)), NEW n \in Nat, FullButLast(chunks, n), Len(Concat(chunks)) = 0
  PROVE  chunks = << >>
<1>1. /\ Concat(chunks) \in Seq(Numbers) /\ HoldNumbers(chunks)
      /\ ToSet(Concat(chunks)) = UNION {ToSet(chunks[c].ids) : c \in DOMAIN chunks}
  BY ChunksConcat
<1>2. ToSet(Concat(chunks)) = {}
  <2>1. DOMAIN Concat(chunks) = {}
    BY <1>1, ElementsOf
  <2> QED BY <2>1 DEF ToSet
<1>3. ASSUME NEW c \in DOMAIN chunks PROVE FALSE
  <2> DEFINE s == chunks[c].ids
  <2>1. s \in Seq(Numbers) /\ Len(s) >= 1
    BY <1>1 DEF HoldNumbers, FullButLast
  <2> HIDE DEF s
  <2>2. 1 \in DOMAIN s /\ s[1] \in ToSet(s)
    BY <2>1, ElementsOf
  <2> QED BY <1>1, <1>2, <2>2 DEF s
<1>4. Len(chunks) = 0
  BY <1>1, <1>3 DEF HoldNumbers
<1> DEFINE K == Chunk(t)
<1>5. chunks \in Seq(K)
  OBVIOUS
<1> HIDE DEF K
<1> QED BY <1>4, <1>5

LEMMA NothingHeld ==
  ASSUME NEW t, SoAIds(t) = << >>, AoSoAIds(t) = << >>, ArchetypeIds(t) = << >>
  PROVE  /\ DenseIds(t) = << >> /\ Held(t) = {} /\ LayoutFits(t)
         /\ Cardinality(Held(t)) = Len(DenseIds(t))
<1>1. << >> \o << >> = << >>
  OBVIOUS
<1>2. DenseIds(t) = << >>
  BY <1>1 DEF DenseIds
<1>3. Held(t) = {} /\ Len(DenseIds(t)) = 0
  BY <1>2 DEF Held, ToSet
<1> QED BY <1>2, <1>3, FS_EmptySet DEF LayoutFits

(* convert_to_aosoa moves the blocks of a type out of the map.             *)
LEMMA ConvertToAoSoAMoves ==
  ASSUME BMTypeOK, StoresTyped, LayoutsTyped, NEW t \in TypeIds, NEW m \in Nat, ConvertToAoSoA(t, m)
  PROVE  StoresTyped' /\ LayoutsTyped' /\ MovesOut(t)
<1> DEFINE old == AoSoAStore(t, m)
           ids == IdsInOrder(t)
<1>1. PICK junk \in [Beyond(t) -> Values] :
        aosoa' = Extend(aosoa, t,
          [size |-> old.size, chunks |-> old.chunks \o Chunks(t, ids, old.size, junk)])
  BY DEF ConvertToAoSoA
<1> DEFINE cut == Chunks(t, ids, old.size, junk)
           all == old.chunks \o cut
           new == [size |-> old.size, chunks |-> all]
<1>2. /\ old.size \in Nat \ {0} /\ old.chunks \in Seq(Chunk(t))
      /\ Concat(old.chunks) = AoSoAIds(t)
      /\ t \in DOMAIN aosoa => old = aosoa[t]
      /\ t \notin DOMAIN aosoa => old.chunks = << >>
  BY EmptySeq, ConcatOfFew DEF AoSoAStore, NewChunkSize, DefaultChunks, StoresTyped, AoSoAIds
<1>3. /\ ids \in Seq(Numbers) /\ ToSet(ids) = Ids(t) /\ Cardinality(ToSet(ids)) = Len(ids)
  BY IdsInOrderHold
<1>4. cut \in Seq(Chunk(t)) /\ Concat(cut) = ids /\ FullButLast(cut, old.size)
      /\ CarriesRows(t, cut)
  <2> HIDE DEF old
  <2> QED BY <1>2, ChunksFull, ChunksCarry
<1>5. /\ layout[t] # "AoSoA" /\ Adopt(t, "AoSoA", "AoSoA") /\ LeaveMap(t)
      /\ chunkSize' = [chunkSize EXCEPT ![t].AoSoA = m]
      /\ UNCHANGED <<soa, archetype>>
  BY DEF ConvertToAoSoA
<1>6. new.size = old.size /\ new.chunks = all /\ aosoa' = Extend(aosoa, t, new)
  BY <1>1
<1> HIDE DEF old, ids, cut, new
<1>7. all \in Seq(Chunk(t)) /\ Concat(all) = AoSoAIds(t) \o ids
  BY <1>2, <1>4, ConcatBehind
<1> HIDE DEF all
<1>8. /\ DOMAIN aosoa' = DOMAIN aosoa \cup {t} /\ aosoa'[t] = new
      /\ \A u \in DOMAIN aosoa : u # t => aosoa'[u] = aosoa[u]
  <2> DEFINE e == Extend(aosoa, t, new)
  <2>1. DOMAIN e = DOMAIN aosoa \cup {t} /\ e[t] = new /\ \A u \in DOMAIN aosoa : u # t => e[u] = aosoa[u]
    BY DEF Extend
  <2> HIDE DEF e
  <2> QED BY <1>6, <2>1 DEF e
<1>9. StoresTyped'
  <2>1. \A u \in DOMAIN aosoa' : aosoa'[u].size \in Nat \ {0} /\ aosoa'[u].chunks \in Seq(Chunk(u))
    BY <1>2, <1>6, <1>7, <1>8 DEF StoresTyped
  <2>2. DOMAIN aosoa' \subseteq TypeIds
    BY <1>8 DEF StoresTyped
  <2> QED BY <1>5, <2>1, <2>2 DEF StoresTyped
<1>10. /\ mixed' \subseteq TypeIds /\ layout' \in [TypeIds -> Layouts]
       /\ layout'[t] = "AoSoA" /\ \A u \in TypeIds : u # t => layout'[u] = layout[u]
       /\ mixed \subseteq mixed' /\ mixed' \subseteq mixed \cup {t}
       /\ t \notin mixed' => ~HeldElsewhere(t, "AoSoA")
  <2>1. "AoSoA" \in Layouts
    BY DEF Layouts
  <2> QED BY <1>5, <2>1, AdoptTyped
<1>11. LayoutsTyped'
  <2>1. chunkSize' \in [TypeIds -> [AoSoA : Nat, Archetype : Nat]]
    BY <1>5 DEF LayoutsTyped
  <2> QED BY <1>10, <2>1 DEF LayoutsTyped
<1>12. \A u \in TypeIds : u # t => SameStores(u) /\ layout'[u] = layout[u]
  BY <1>5, <1>8, <1>10 DEF SameStores
<1>13. SoAIds(t)' = SoAIds(t) /\ AoSoAIds(t)' = AoSoAIds(t) \o ids /\ ArchetypeIds(t)' = ArchetypeIds(t)
  BY <1>5, <1>6, <1>7, <1>8 DEF SoAIds, AoSoAIds, ArchetypeIds
<1>14. /\ ToSet(DenseIds(t)') = Held(t) \cup Ids(t)
       /\ Len(DenseIds(t)') = Len(DenseIds(t)) + Cardinality(Ids(t))
  <2>1. /\ SoAIds(t) \in Seq(Numbers) /\ AoSoAIds(t) \in Seq(Numbers) /\ ArchetypeIds(t) \in Seq(Numbers)
        /\ Held(t) = ToSet(SoAIds(t)) \cup ToSet(AoSoAIds(t)) \cup ToSet(ArchetypeIds(t))
    BY DenseTyped
  <2> DEFINE b == AoSoAIds(t) \o ids
             d == SoAIds(t) \o b
  <2>2. b \in Seq(Numbers) /\ ToSet(b) = ToSet(AoSoAIds(t)) \cup Ids(t)
    BY <1>3, <2>1, SetOfConcat
  <2>3. DenseIds(t)' = d \o ArchetypeIds(t)
    BY <1>13 DEF DenseIds
  <2>4. Len(b) = Len(AoSoAIds(t)) + Len(ids)
    BY <1>3, <2>1, SetOfConcat
  <2> HIDE DEF b
  <2>5. /\ d \in Seq(Numbers) /\ ToSet(d) = ToSet(SoAIds(t)) \cup ToSet(b)
        /\ Len(d) = Len(SoAIds(t)) + Len(b)
    BY <2>1, <2>2, SetOfConcat
  <2> HIDE DEF d
  <2>6. /\ ToSet(d \o ArchetypeIds(t)) = ToSet(d) \cup ToSet(ArchetypeIds(t))
        /\ Len(d \o ArchetypeIds(t)) = Len(d) + Len(ArchetypeIds(t))
    <3> DEFINE c == ArchetypeIds(t)
    <3>1. d \in Seq(Numbers) /\ c \in Seq(Numbers)
      BY <2>1, <2>5
    <3> HIDE DEF c
    <3>2. ToSet(d \o c) = ToSet(d) \cup ToSet(c) /\ Len(d \o c) = Len(d) + Len(c)
      BY <3>1, SetOfConcat
    <3> QED BY <3>2 DEF c
  <2>7. /\ Len(SoAIds(t)) \in Nat /\ Len(AoSoAIds(t)) \in Nat /\ Len(ArchetypeIds(t)) \in Nat
        /\ Cardinality(Ids(t)) \in Nat /\ Len(ids) = Cardinality(Ids(t))
        /\ Len(DenseIds(t)) = Len(SoAIds(t)) + Len(AoSoAIds(t)) + Len(ArchetypeIds(t))
    BY <1>3, <2>1, DenseTyped, ElementsOf
  <2>8. Len(DenseIds(t)') = Len(DenseIds(t)) + Cardinality(Ids(t))
    BY <2>3, <2>4, <2>5, <2>6, <2>7
  <2> QED BY <2>1, <2>2, <2>3, <2>5, <2>6, <2>8
<1>15. ASSUME t \notin mixed', DenseFits(t)
       PROVE  DenseFits(t)' /\ Held(t) = {} /\ CarriesRows(t, DenseChunks(t)')
  <2>1. SoAIds(t) = << >> /\ ArchetypeIds(t) = << >>
    BY <1>10, <1>15, ElsewhereEmpty
  <2>2. Len(AoSoAIds(t)) = 0 /\ AoSoAIds(t) = << >>
    <3>1. Len(AoSoAIds(t)) = 0
      BY <1>5, <1>15 DEF DenseFits, LayoutFits
    <3>2. AoSoAIds(t) \in Seq(Numbers)
      BY DenseTyped
    <3> QED BY <3>1, <3>2
  <2>3. old.chunks = << >>
    <3>1. t \in DOMAIN aosoa => FullButLast(old.chunks, old.size)
      BY <1>2, <1>15 DEF DenseFits, AoSoAFits
    <3> QED BY <1>2, <2>2, <3>1, NoRowsNoChunks
  <2>4. all = cut
    <3> DEFINE K == Chunk(t)
    <3>1. cut \in Seq(K)
      BY <1>4
    <3> HIDE DEF K
    <3> QED BY <2>3, <3>1, ConcatEmptySeq DEF all
  <2>5. AoSoAFits(t)'
    BY <1>4, <1>6, <1>8, <2>4 DEF AoSoAFits
  <2>6. SoAFits(t)' /\ ArchetypeFits(t)'
    BY <1>5, <1>13, <1>15 DEF DenseFits, SoAFits, ArchetypeFits
  <2>7. LayoutFits(t)'
    BY <1>10, <1>13, <2>1 DEF LayoutFits
  <2>8. DenseIds(t)' = ids
    <3>1. DenseIds(t)' = (<< >> \o (<< >> \o ids)) \o << >>
      BY <1>13, <2>1, <2>2 DEF DenseIds
    <3>2. << >> \o ids = ids /\ ids \o << >> = ids
      BY <1>3, ConcatEmptySeq
    <3> QED BY <3>1, <3>2
  <2>9. Cardinality(Held(t)') = Len(DenseIds(t)')
    BY <1>3, <2>8 DEF Held
  <2>10. Held(t) = {}
    BY <2>1, <2>2, NothingHeld
  <2>11. CarriesRows(t, DenseChunks(t)')
    <3>1. DenseChunks(t)' = cut
      BY <1>6, <1>8, <1>10, <2>4 DEF DenseChunks
    <3> QED BY <1>4, <3>1
  <2> QED BY <2>5, <2>6, <2>7, <2>9, <2>10, <2>11 DEF DenseFits
<1> QED BY <1>5, <1>9, <1>10, <1>11, <1>12, <1>14, <1>15 DEF MovesOut

-----------------------------------------------------------------------------
(* convert_to_archetype moves the blocks of a type out of the map.         *)
LEMMA ConvertToArchetypeMoves ==
  ASSUME BMTypeOK, StoresTyped, LayoutsTyped, NEW t \in TypeIds, NEW m \in Nat, ConvertToArchetype(t, m)
  PROVE  StoresTyped' /\ LayoutsTyped' /\ MovesOut(t)
<1> DEFINE old == ArchetypeStore(t, m)
           ids == IdsInOrder(t)
<1>1. PICK junk \in [Beyond(t) -> Values] :
        archetype' = Extend(archetype, t,
          [size |-> old.size, chunks |-> old.chunks \o Chunks(t, ids, old.size, junk),
           sparse |-> Over(Slots(ids, Len(old.chunks), old.size), old.sparse)])
  BY DEF ConvertToArchetype
<1> DEFINE cut == Chunks(t, ids, old.size, junk)
           all == old.chunks \o cut
           sparse == Over(Slots(ids, Len(old.chunks), old.size), old.sparse)
           new == [size |-> old.size, chunks |-> all, sparse |-> sparse]
<1>2. /\ old.size \in Nat \ {0} /\ old.chunks \in Seq(Chunk(t))
      /\ Concat(old.chunks) = ArchetypeIds(t)
      /\ t \in DOMAIN archetype => old = archetype[t]
      /\ t \notin DOMAIN archetype => old.chunks = << >> /\ DOMAIN old.sparse = {}
  BY EmptySeq, ConcatOfFew DEF NoStore, ArchetypeStore, NewChunkSize, DefaultChunks, StoresTyped, ArchetypeIds
<1>3. /\ ids \in Seq(Numbers) /\ ToSet(ids) = Ids(t) /\ Cardinality(ToSet(ids)) = Len(ids)
  BY IdsInOrderHold
<1>4. /\ cut \in Seq(Chunk(t)) /\ Concat(cut) = ids /\ FullButLast(cut, old.size)
      /\ CarriesRows(t, cut)
      /\ \A i \in Ids(t) : SlotFits(cut, Slots(ids, 0, old.size)[i], i)
  <2> HIDE DEF old
  <2> QED BY <1>2, ChunksFull, ChunksCarry
<1>5. /\ layout[t] # "Archetype" /\ Adopt(t, "Archetype", "Archetype") /\ LeaveMap(t)
      /\ chunkSize' = [chunkSize EXCEPT ![t].Archetype = m]
      /\ UNCHANGED <<soa, aosoa>>
  BY DEF ConvertToArchetype
<1>6. new.size = old.size /\ new.chunks = all /\ new.sparse = sparse /\ archetype' = Extend(archetype, t, new)
  BY <1>1
<1> HIDE DEF old, ids, cut, sparse, new
<1>7. all \in Seq(Chunk(t)) /\ Concat(all) = ArchetypeIds(t) \o ids
  <2>1. all = old.chunks \o cut
    BY DEF all
  <2> QED BY <1>2, <1>4, <2>1, ConcatBehind, ZenonT(30)
<1> HIDE DEF all
<1>8. /\ DOMAIN archetype' = DOMAIN archetype \cup {t} /\ archetype'[t] = new
      /\ \A u \in DOMAIN archetype : u # t => archetype'[u] = archetype[u]
  <2> DEFINE e == Extend(archetype, t, new)
  <2>1. DOMAIN e = DOMAIN archetype \cup {t} /\ e[t] = new /\ \A u \in DOMAIN archetype : u # t => e[u] = archetype[u]
    BY DEF Extend
  <2> HIDE DEF e
  <2> QED BY <1>6, <2>1 DEF e
<1>9. StoresTyped'
  <2>1. \A u \in DOMAIN archetype' : archetype'[u].size \in Nat \ {0} /\ archetype'[u].chunks \in Seq(Chunk(u))
    BY <1>2, <1>6, <1>7, <1>8 DEF StoresTyped
  <2>2. DOMAIN archetype' \subseteq TypeIds
    BY <1>8 DEF StoresTyped
  <2> QED BY <1>5, <2>1, <2>2 DEF StoresTyped
<1>10. /\ mixed' \subseteq TypeIds /\ layout' \in [TypeIds -> Layouts]
       /\ layout'[t] = "Archetype" /\ \A u \in TypeIds : u # t => layout'[u] = layout[u]
       /\ mixed \subseteq mixed' /\ mixed' \subseteq mixed \cup {t}
       /\ t \notin mixed' => ~HeldElsewhere(t, "Archetype")
  <2>1. "Archetype" \in Layouts
    BY DEF Layouts
  <2> QED BY <1>5, <2>1, AdoptTyped
<1>11. LayoutsTyped'
  <2>1. chunkSize' \in [TypeIds -> [AoSoA : Nat, Archetype : Nat]]
    BY <1>5 DEF LayoutsTyped
  <2> QED BY <1>10, <2>1 DEF LayoutsTyped
<1>12. \A u \in TypeIds : u # t => SameStores(u) /\ layout'[u] = layout[u]
  BY <1>5, <1>8, <1>10 DEF SameStores
<1>13. SoAIds(t)' = SoAIds(t) /\ ArchetypeIds(t)' = ArchetypeIds(t) \o ids /\ AoSoAIds(t)' = AoSoAIds(t)
  BY <1>5, <1>6, <1>7, <1>8 DEF SoAIds, ArchetypeIds, AoSoAIds
<1>14. /\ ToSet(DenseIds(t)') = Held(t) \cup Ids(t)
       /\ Len(DenseIds(t)') = Len(DenseIds(t)) + Cardinality(Ids(t))
  <2>1. /\ SoAIds(t) \in Seq(Numbers) /\ AoSoAIds(t) \in Seq(Numbers) /\ ArchetypeIds(t) \in Seq(Numbers)
        /\ Held(t) = ToSet(SoAIds(t)) \cup ToSet(AoSoAIds(t)) \cup ToSet(ArchetypeIds(t))
    BY DenseTyped
  <2> DEFINE b == ArchetypeIds(t) \o ids
             d == SoAIds(t) \o AoSoAIds(t)
  <2>2. b \in Seq(Numbers) /\ ToSet(b) = ToSet(ArchetypeIds(t)) \cup Ids(t)
    BY <1>3, <2>1, SetOfConcat
  <2>3. DenseIds(t)' = d \o b
    BY <1>13 DEF DenseIds
  <2>4. Len(b) = Len(ArchetypeIds(t)) + Len(ids)
    BY <1>3, <2>1, SetOfConcat
  <2> HIDE DEF b
  <2>5. /\ d \in Seq(Numbers) /\ ToSet(d) = ToSet(SoAIds(t)) \cup ToSet(AoSoAIds(t))
        /\ Len(d) = Len(SoAIds(t)) + Len(AoSoAIds(t))
    BY <2>1, SetOfConcat
  <2> HIDE DEF d
  <2>6. ToSet(d \o b) = ToSet(d) \cup ToSet(b) /\ Len(d \o b) = Len(d) + Len(b)
    BY <2>2, <2>5, SetOfConcat
  <2>7. /\ Len(SoAIds(t)) \in Nat /\ Len(AoSoAIds(t)) \in Nat /\ Len(ArchetypeIds(t)) \in Nat
        /\ Cardinality(Ids(t)) \in Nat /\ Len(ids) = Cardinality(Ids(t))
        /\ Len(DenseIds(t)) = Len(SoAIds(t)) + Len(AoSoAIds(t)) + Len(ArchetypeIds(t))
    BY <1>3, <2>1, DenseTyped, ElementsOf
  <2>8. Len(DenseIds(t)') = Len(DenseIds(t)) + Cardinality(Ids(t))
    BY <2>3, <2>4, <2>5, <2>6, <2>7
  <2> QED BY <2>1, <2>2, <2>3, <2>5, <2>6, <2>8
<1>15. ASSUME t \notin mixed', DenseFits(t)
       PROVE  DenseFits(t)' /\ Held(t) = {} /\ CarriesRows(t, DenseChunks(t)')
  <2>1. SoAIds(t) = << >> /\ AoSoAIds(t) = << >>
    BY <1>10, <1>15, ElsewhereEmpty
  <2>2. Len(ArchetypeIds(t)) = 0 /\ ArchetypeIds(t) = << >>
    <3>1. Len(ArchetypeIds(t)) = 0
      BY <1>5, <1>15 DEF DenseFits, LayoutFits
    <3>2. ArchetypeIds(t) \in Seq(Numbers)
      BY DenseTyped
    <3> QED BY <3>1, <3>2
  <2>3. old.chunks = << >>
    <3>1. t \in DOMAIN archetype => FullButLast(old.chunks, old.size)
      BY <1>2, <1>15 DEF DenseFits, ArchetypeFits
    <3> QED BY <1>2, <2>2, <3>1, NoRowsNoChunks
  <2>4. all = cut
    <3> DEFINE K == Chunk(t)
    <3>1. cut \in Seq(K)
      BY <1>4
    <3> HIDE DEF K
    <3> QED BY <2>3, <3>1, ConcatEmptySeq DEF all
  <2>5. ArchetypeFits(t)'
    <3>1. DOMAIN old.sparse = {}
      <4>1. t \in DOMAIN archetype => DOMAIN archetype[t].sparse = {}
        <5>1. ToSet(ArchetypeIds(t)) = {}
          BY <2>2 DEF ToSet
        <5> QED BY <1>15, <5>1 DEF DenseFits, ArchetypeFits
      <4> QED BY <1>2, <4>1
    <3> DEFINE slots == Slots(ids, 0, old.size)
    <3>2. new.sparse = Over(slots, old.sparse)
      <4>1. Len(old.chunks) = 0
        BY <2>3
      <4> QED BY <1>6, <4>1 DEF sparse
    <3>3. DOMAIN slots = Ids(t)
      BY <1>3 DEF Slots
    <3>4. DOMAIN new.sparse = Ids(t) /\ \A i \in Ids(t) : new.sparse[i] = slots[i]
      <4> HIDE DEF slots
      <4>1. DOMAIN Over(slots, old.sparse) = DOMAIN slots
            /\ \A i \in DOMAIN slots : Over(slots, old.sparse)[i] = slots[i]
        BY <3>1, OverNothing
      <4> QED BY <3>2, <3>3, <4>1
    <3>5. \A i \in Ids(t) : SlotFits(all, new.sparse[i], i)
      BY <1>4, <2>4, <3>4
    <3>6. ToSet(ArchetypeIds(t)') = Ids(t)
      <4>1. ArchetypeIds(t)' = ids
        BY <1>3, <1>13, <2>2, ConcatEmptySeq
      <4> QED BY <1>3, <4>1
    <3>7. FullButLast(all, new.size)
      BY <1>4, <1>6, <2>4
    <3> QED BY <1>6, <1>8, <3>4, <3>5, <3>6, <3>7 DEF ArchetypeFits
  <2>6. SoAFits(t)' /\ AoSoAFits(t)'
    BY <1>5, <1>15 DEF DenseFits, SoAFits, AoSoAFits
  <2>7. LayoutFits(t)'
    BY <1>10, <1>13, <2>1 DEF LayoutFits
  <2>8. DenseIds(t)' = ids
    <3>1. DenseIds(t)' = (<< >> \o << >>) \o (<< >> \o ids)
      BY <1>13, <2>1, <2>2 DEF DenseIds
    <3>2. << >> \o ids = ids /\ << >> \o << >> = << >>
      BY <1>3, ConcatEmptySeq
    <3> QED BY <3>1, <3>2
  <2>9. Cardinality(Held(t)') = Len(DenseIds(t)')
    BY <1>3, <2>8 DEF Held
  <2>10. Held(t) = {}
    BY <2>1, <2>2, NothingHeld
  <2>11. CarriesRows(t, DenseChunks(t)')
    <3>1. DenseChunks(t)' = cut
      BY <1>6, <1>8, <1>10, <2>4 DEF DenseChunks
    <3> QED BY <1>4, <3>1
  <2> QED BY <2>5, <2>6, <2>7, <2>9, <2>10, <2>11 DEF DenseFits
<1> QED BY <1>5, <1>9, <1>10, <1>11, <1>12, <1>14, <1>15 DEF MovesOut

-----------------------------------------------------------------------------
(* The conversions from a store to the map.                                *)
Returns(t, back) ==
    /\ back \subseteq Held(t)
    /\ Identities' = Identities \cup back
    /\ \A i \in Identities' : IF i \in back THEN blocks'[i].type = t ELSE blocks'[i] = blocks[i]
    /\ LeavesOf(t, back, DenseIds(t)')
    /\ t \notin mixed' => back = Held(t) /\ DenseIds(t)' = << >>

MovesBack(t) ==
    /\ BMTypeOK'
    /\ \E back \in SUBSET Numbers : Returns(t, back)
    /\ UNCHANGED <<identityTypes, nextIdentity>>
    /\ \A u \in TypeIds : u # t => SameStores(u) /\ layout'[u] = layout[u]
    /\ mixed \subseteq mixed' /\ mixed' \subseteq mixed \cup {t}
    /\ ReturnToMap(t, DenseChunks(t))
    /\ t \notin mixed' /\ DenseFits(t) => DenseFits(t)'

LEMMA NothingHeldThen ==
  ASSUME NEW t, SoAIds(t)' = << >>, AoSoAIds(t)' = << >>, ArchetypeIds(t)' = << >>
  PROVE  /\ DenseIds(t)' = << >> /\ Held(t)' = {} /\ LayoutFits(t)'
         /\ Cardinality(Held(t)') = Len(DenseIds(t)')
<1>1. << >> \o << >> = << >>
  OBVIOUS
<1>2. DenseIds(t)' = << >>
  BY <1>1 DEF DenseIds
<1>3. Held(t)' = {} /\ Len(DenseIds(t)') = 0
  BY <1>2 DEF Held, ToSet
<1> QED BY <1>2, <1>3, FS_EmptySet DEF LayoutFits

(* convert_from_soa moves the blocks of a type back.                       *)
LEMMA ConvertFromSoAMoves ==
  ASSUME BMTypeOK, StoresTyped, LayoutsTyped, NEW t \in TypeIds, ConvertFromSoA(t)
  PROVE  StoresTyped' /\ LayoutsTyped' /\ MovesBack(t)
<1> DEFINE chunks == <<soa[t]>>
           back == ToSet(Concat(chunks))
<1>1. /\ t \in DOMAIN soa /\ ReturnToMap(t, chunks) /\ soa' = Without(soa, {t})
      /\ Adopt(t, "AoS", "SoA") /\ chunks = DenseChunks(t)
      /\ UNCHANGED <<chunkSize, aosoa, archetype>>
  BY DEF ConvertFromSoA, DenseChunks
<1>2. /\ HoldNumbers(chunks) /\ \A c \in DOMAIN chunks : ChunkTyped(t, chunks[c])
      /\ Concat(chunks) = SoAIds(t)
  <2>1. ChunkTyped(t, soa[t]) /\ soa[t].ids \in Seq(Numbers)
    BY <1>1 DEF StoresTyped, ChunkTyped
  <2>2. DOMAIN chunks = 1..1 /\ Len(chunks) = 1 /\ chunks[1] = soa[t]
    OBVIOUS
  <2>3. Concat(<<soa[t]>>) = soa[t].ids
    BY <2>1, ConcatOfFew
  <2> QED BY <1>1, <2>1, <2>2, <2>3 DEF HoldNumbers, SoAIds
<1> HIDE DEF chunks
<1>3. /\ DOMAIN soa' = DOMAIN soa \ {t}
      /\ \A u \in DOMAIN soa : u # t => soa'[u] = soa[u]
  BY <1>1 DEF Without
<1>4. StoresTyped'
  BY <1>1, <1>3 DEF StoresTyped, ChunkTyped
<1>5. /\ mixed' \subseteq TypeIds /\ layout' \in [TypeIds -> Layouts]
      /\ layout'[t] = "AoS" /\ \A u \in TypeIds : u # t => layout'[u] = layout[u]
      /\ mixed \subseteq mixed' /\ mixed' \subseteq mixed \cup {t}
      /\ t \notin mixed' => ~HeldElsewhere(t, "SoA")
  <2>1. "AoS" \in Layouts
    BY DEF Layouts
  <2> QED BY <1>1, <2>1, AdoptTyped
<1>6. LayoutsTyped'
  BY <1>1, <1>5 DEF LayoutsTyped
<1>7. \A u \in TypeIds : u # t => SameStores(u) /\ layout'[u] = layout[u]
  BY <1>1, <1>3, <1>5 DEF SameStores
<1>8. SoAIds(t)' = << >> /\ AoSoAIds(t)' = AoSoAIds(t) /\ ArchetypeIds(t)' = ArchetypeIds(t)
  BY <1>1, <1>3 DEF SoAIds, AoSoAIds, ArchetypeIds
<1>9. /\ BMTypeOK' /\ Identities' = Identities \cup back
      /\ \A i \in Identities' : IF i \in back THEN blocks'[i].type = t ELSE blocks'[i] = blocks[i]
      /\ UNCHANGED <<identityTypes, nextIdentity>>
  BY <1>1, <1>2, RowsReturned
<1>10. /\ SoAIds(t) \in Seq(Numbers) /\ AoSoAIds(t) \in Seq(Numbers) /\ ArchetypeIds(t) \in Seq(Numbers)
       /\ Held(t) = ToSet(SoAIds(t)) \cup ToSet(AoSoAIds(t)) \cup ToSet(ArchetypeIds(t))
  BY DenseTyped
<1>11. back = ToSet(SoAIds(t)) /\ back \subseteq Held(t) /\ back \subseteq Numbers
  <2>1. back = ToSet(SoAIds(t))
    BY <1>2
  <2>2. ToSet(SoAIds(t)) \subseteq Numbers
    BY <1>10, ElementsOf
  <2> QED BY <1>10, <2>1, <2>2
<1> HIDE DEF back
<1>12. LeavesOf(t, back, DenseIds(t)')
  <2> DEFINE d == AoSoAIds(t) \o ArchetypeIds(t)
  <2>1. d \in Seq(Numbers) /\ LeavesOf(t, back, d)
    BY <1>10, <1>11, SetOfConcat, StoreLeaves
  <2>2. DenseIds(t)' = d
    <3>1. \A s \in Seq(Numbers) : << >> \o s = s /\ s \o << >> = s
      BY ConcatEmptySeq
    <3>2. DenseIds(t)' = (SoAIds(t)' \o AoSoAIds(t)') \o ArchetypeIds(t)'
      BY DEF DenseIds
    <3> QED BY <1>8, <1>10, <2>1, <3>1, <3>2
  <2> HIDE DEF d
  <2> QED BY <2>1, <2>2
<1>13. ASSUME t \notin mixed'
       PROVE  /\ back = Held(t) /\ SoAIds(t)' = << >> /\ AoSoAIds(t)' = << >> /\ ArchetypeIds(t)' = << >>
  <2>1. AoSoAIds(t) = << >> /\ ArchetypeIds(t) = << >>
    BY <1>5, <1>13, ElsewhereEmpty
  <2>2. ToSet(AoSoAIds(t)) = {} /\ ToSet(ArchetypeIds(t)) = {}
    BY <2>1 DEF ToSet
  <2> QED BY <1>8, <1>10, <1>11, <2>1, <2>2
<1>14. t \notin mixed' => back = Held(t) /\ DenseIds(t)' = << >>
  BY <1>13, NothingHeldThen
<1>15. ASSUME t \notin mixed', DenseFits(t) PROVE DenseFits(t)'
  <2>1. LayoutFits(t)' /\ Cardinality(Held(t)') = Len(DenseIds(t)')
    BY <1>13, <1>15, NothingHeldThen
  <2>2. SoAFits(t)' /\ AoSoAFits(t)' /\ ArchetypeFits(t)'
    BY <1>1, <1>3, <1>8, <1>15 DEF DenseFits, SoAFits, AoSoAFits, ArchetypeFits
  <2> QED BY <2>1, <2>2 DEF DenseFits
<1>16. \E b \in SUBSET Numbers : Returns(t, b)
  BY <1>9, <1>11, <1>12, <1>14 DEF Returns
<1>17. ReturnToMap(t, DenseChunks(t))
  BY <1>1
<1> QED BY <1>4, <1>5, <1>6, <1>7, <1>9, <1>15, <1>16, <1>17 DEF MovesBack

(* convert_from_aosoa moves the blocks of a type back.                     *)
LEMMA ConvertFromAoSoAMoves ==
  ASSUME BMTypeOK, StoresTyped, LayoutsTyped, NEW t \in TypeIds, ConvertFromAoSoA(t)
  PROVE  StoresTyped' /\ LayoutsTyped' /\ MovesBack(t)
<1> DEFINE chunks == aosoa[t].chunks
           back == ToSet(Concat(chunks))
<1>1. /\ t \in DOMAIN aosoa /\ ReturnToMap(t, chunks) /\ aosoa' = Without(aosoa, {t})
      /\ Adopt(t, "AoS", "AoSoA") /\ chunks = DenseChunks(t)
      /\ UNCHANGED <<chunkSize, soa, archetype>>
  BY DEF ConvertFromAoSoA, DenseChunks
<1>2. /\ HoldNumbers(chunks) /\ \A c \in DOMAIN chunks : ChunkTyped(t, chunks[c])
      /\ Concat(chunks) = AoSoAIds(t)
  <2>1. chunks \in Seq(Chunk(t))
    BY <1>1 DEF StoresTyped
  <2> QED BY <1>1, <2>1, ChunksHoldNumbers DEF AoSoAIds
<1> HIDE DEF chunks
<1>3. /\ DOMAIN aosoa' = DOMAIN aosoa \ {t}
      /\ \A u \in DOMAIN aosoa : u # t => aosoa'[u] = aosoa[u]
  BY <1>1 DEF Without
<1>4. StoresTyped'
  BY <1>1, <1>3 DEF StoresTyped, ChunkTyped
<1>5. /\ mixed' \subseteq TypeIds /\ layout' \in [TypeIds -> Layouts]
      /\ layout'[t] = "AoS" /\ \A u \in TypeIds : u # t => layout'[u] = layout[u]
      /\ mixed \subseteq mixed' /\ mixed' \subseteq mixed \cup {t}
      /\ t \notin mixed' => ~HeldElsewhere(t, "AoSoA")
  <2>1. "AoS" \in Layouts
    BY DEF Layouts
  <2> QED BY <1>1, <2>1, AdoptTyped
<1>6. LayoutsTyped'
  BY <1>1, <1>5 DEF LayoutsTyped
<1>7. \A u \in TypeIds : u # t => SameStores(u) /\ layout'[u] = layout[u]
  BY <1>1, <1>3, <1>5 DEF SameStores
<1>8. AoSoAIds(t)' = << >> /\ SoAIds(t)' = SoAIds(t) /\ ArchetypeIds(t)' = ArchetypeIds(t)
  BY <1>1, <1>3 DEF SoAIds, AoSoAIds, ArchetypeIds
<1>9. /\ BMTypeOK' /\ Identities' = Identities \cup back
      /\ \A i \in Identities' : IF i \in back THEN blocks'[i].type = t ELSE blocks'[i] = blocks[i]
      /\ UNCHANGED <<identityTypes, nextIdentity>>
  BY <1>1, <1>2, RowsReturned
<1>10. /\ SoAIds(t) \in Seq(Numbers) /\ AoSoAIds(t) \in Seq(Numbers) /\ ArchetypeIds(t) \in Seq(Numbers)
       /\ Held(t) = ToSet(SoAIds(t)) \cup ToSet(AoSoAIds(t)) \cup ToSet(ArchetypeIds(t))
  BY DenseTyped
<1>11. back = ToSet(AoSoAIds(t)) /\ back \subseteq Held(t) /\ back \subseteq Numbers
  <2>1. back = ToSet(AoSoAIds(t))
    BY <1>2
  <2>2. ToSet(AoSoAIds(t)) \subseteq Numbers
    BY <1>10, ElementsOf
  <2> QED BY <1>10, <2>1, <2>2
<1> HIDE DEF back
<1>12. LeavesOf(t, back, DenseIds(t)')
  <2> DEFINE d == SoAIds(t) \o ArchetypeIds(t)
  <2>1. d \in Seq(Numbers) /\ LeavesOf(t, back, d)
    BY <1>10, <1>11, SetOfConcat, StoreLeaves
  <2>2. DenseIds(t)' = d
    <3>1. \A s \in Seq(Numbers) : << >> \o s = s /\ s \o << >> = s
      BY ConcatEmptySeq
    <3>2. DenseIds(t)' = (SoAIds(t)' \o AoSoAIds(t)') \o ArchetypeIds(t)'
      BY DEF DenseIds
    <3> QED BY <1>8, <1>10, <2>1, <3>1, <3>2
  <2> HIDE DEF d
  <2> QED BY <2>1, <2>2
<1>13. ASSUME t \notin mixed'
       PROVE  /\ back = Held(t) /\ SoAIds(t)' = << >> /\ AoSoAIds(t)' = << >> /\ ArchetypeIds(t)' = << >>
  <2>1. SoAIds(t) = << >> /\ ArchetypeIds(t) = << >>
    BY <1>5, <1>13, ElsewhereEmpty
  <2>2. ToSet(SoAIds(t)) = {} /\ ToSet(ArchetypeIds(t)) = {}
    BY <2>1 DEF ToSet
  <2> QED BY <1>8, <1>10, <1>11, <2>1, <2>2
<1>14. t \notin mixed' => back = Held(t) /\ DenseIds(t)' = << >>
  BY <1>13, NothingHeldThen
<1>15. ASSUME t \notin mixed', DenseFits(t) PROVE DenseFits(t)'
  <2>1. LayoutFits(t)' /\ Cardinality(Held(t)') = Len(DenseIds(t)')
    BY <1>13, <1>15, NothingHeldThen
  <2>2. SoAFits(t)' /\ AoSoAFits(t)' /\ ArchetypeFits(t)'
    BY <1>1, <1>3, <1>8, <1>15 DEF DenseFits, SoAFits, AoSoAFits, ArchetypeFits
  <2> QED BY <2>1, <2>2 DEF DenseFits
<1>16. \E b \in SUBSET Numbers : Returns(t, b)
  BY <1>9, <1>11, <1>12, <1>14 DEF Returns
<1>17. ReturnToMap(t, DenseChunks(t))
  BY <1>1
<1> QED BY <1>4, <1>5, <1>6, <1>7, <1>9, <1>15, <1>16, <1>17 DEF MovesBack

(* convert_from_archetype moves the blocks of a type back.                 *)
LEMMA ConvertFromArchetypeMoves ==
  ASSUME BMTypeOK, StoresTyped, LayoutsTyped, NEW t \in TypeIds, ConvertFromArchetype(t)
  PROVE  StoresTyped' /\ LayoutsTyped' /\ MovesBack(t)
<1> DEFINE chunks == archetype[t].chunks
           back == ToSet(Concat(chunks))
<1>1. /\ t \in DOMAIN archetype /\ ReturnToMap(t, chunks) /\ archetype' = Without(archetype, {t})
      /\ Adopt(t, "AoS", "Archetype") /\ chunks = DenseChunks(t)
      /\ UNCHANGED <<chunkSize, soa, aosoa>>
  BY DEF ConvertFromArchetype, DenseChunks
<1>2. /\ HoldNumbers(chunks) /\ \A c \in DOMAIN chunks : ChunkTyped(t, chunks[c])
      /\ Concat(chunks) = ArchetypeIds(t)
  <2>1. chunks \in Seq(Chunk(t))
    BY <1>1 DEF StoresTyped
  <2> QED BY <1>1, <2>1, ChunksHoldNumbers DEF ArchetypeIds
<1> HIDE DEF chunks
<1>3. /\ DOMAIN archetype' = DOMAIN archetype \ {t}
      /\ \A u \in DOMAIN archetype : u # t => archetype'[u] = archetype[u]
  BY <1>1 DEF Without
<1>4. StoresTyped'
  BY <1>1, <1>3 DEF StoresTyped, ChunkTyped
<1>5. /\ mixed' \subseteq TypeIds /\ layout' \in [TypeIds -> Layouts]
      /\ layout'[t] = "AoS" /\ \A u \in TypeIds : u # t => layout'[u] = layout[u]
      /\ mixed \subseteq mixed' /\ mixed' \subseteq mixed \cup {t}
      /\ t \notin mixed' => ~HeldElsewhere(t, "Archetype")
  <2>1. "AoS" \in Layouts
    BY DEF Layouts
  <2> QED BY <1>1, <2>1, AdoptTyped
<1>6. LayoutsTyped'
  BY <1>1, <1>5 DEF LayoutsTyped
<1>7. \A u \in TypeIds : u # t => SameStores(u) /\ layout'[u] = layout[u]
  BY <1>1, <1>3, <1>5 DEF SameStores
<1>8. ArchetypeIds(t)' = << >> /\ SoAIds(t)' = SoAIds(t) /\ AoSoAIds(t)' = AoSoAIds(t)
  BY <1>1, <1>3 DEF SoAIds, AoSoAIds, ArchetypeIds
<1>9. /\ BMTypeOK' /\ Identities' = Identities \cup back
      /\ \A i \in Identities' : IF i \in back THEN blocks'[i].type = t ELSE blocks'[i] = blocks[i]
      /\ UNCHANGED <<identityTypes, nextIdentity>>
  BY <1>1, <1>2, RowsReturned
<1>10. /\ SoAIds(t) \in Seq(Numbers) /\ AoSoAIds(t) \in Seq(Numbers) /\ ArchetypeIds(t) \in Seq(Numbers)
       /\ Held(t) = ToSet(SoAIds(t)) \cup ToSet(AoSoAIds(t)) \cup ToSet(ArchetypeIds(t))
  BY DenseTyped
<1>11. back = ToSet(ArchetypeIds(t)) /\ back \subseteq Held(t) /\ back \subseteq Numbers
  <2>1. back = ToSet(ArchetypeIds(t))
    BY <1>2
  <2>2. ToSet(ArchetypeIds(t)) \subseteq Numbers
    BY <1>10, ElementsOf
  <2> QED BY <1>10, <2>1, <2>2
<1> HIDE DEF back
<1>12. LeavesOf(t, back, DenseIds(t)')
  <2> DEFINE d == SoAIds(t) \o AoSoAIds(t)
  <2>1. d \in Seq(Numbers) /\ LeavesOf(t, back, d)
    BY <1>10, <1>11, SetOfConcat, StoreLeaves
  <2>2. DenseIds(t)' = d
    <3>1. \A s \in Seq(Numbers) : << >> \o s = s /\ s \o << >> = s
      BY ConcatEmptySeq
    <3>2. DenseIds(t)' = (SoAIds(t)' \o AoSoAIds(t)') \o ArchetypeIds(t)'
      BY DEF DenseIds
    <3> QED BY <1>8, <1>10, <2>1, <3>1, <3>2
  <2> HIDE DEF d
  <2> QED BY <2>1, <2>2
<1>13. ASSUME t \notin mixed'
       PROVE  /\ back = Held(t) /\ SoAIds(t)' = << >> /\ AoSoAIds(t)' = << >> /\ ArchetypeIds(t)' = << >>
  <2>1. SoAIds(t) = << >> /\ AoSoAIds(t) = << >>
    BY <1>5, <1>13, ElsewhereEmpty
  <2>2. ToSet(SoAIds(t)) = {} /\ ToSet(AoSoAIds(t)) = {}
    BY <2>1 DEF ToSet
  <2> QED BY <1>8, <1>10, <1>11, <2>1, <2>2
<1>14. t \notin mixed' => back = Held(t) /\ DenseIds(t)' = << >>
  BY <1>13, NothingHeldThen
<1>15. ASSUME t \notin mixed', DenseFits(t) PROVE DenseFits(t)'
  <2>1. LayoutFits(t)' /\ Cardinality(Held(t)') = Len(DenseIds(t)')
    BY <1>13, <1>15, NothingHeldThen
  <2>2. SoAFits(t)' /\ AoSoAFits(t)' /\ ArchetypeFits(t)'
    BY <1>1, <1>3, <1>8, <1>15 DEF DenseFits, SoAFits, AoSoAFits, ArchetypeFits
  <2> QED BY <2>1, <2>2 DEF DenseFits
<1>16. \E b \in SUBSET Numbers : Returns(t, b)
  BY <1>9, <1>11, <1>12, <1>14 DEF Returns
<1>17. ReturnToMap(t, DenseChunks(t))
  BY <1>1
<1> QED BY <1>4, <1>5, <1>6, <1>7, <1>9, <1>15, <1>16, <1>17 DEF MovesBack

(* A conversion moves the blocks of one type, out of the map or back.      *)
Converted(t) == StoresTyped' /\ LayoutsTyped' /\ BMTypeOK' /\ (MovesOut(t) \/ MovesBack(t))

LEMMA ConvertsFrom ==
  ASSUME BMTypeOK, StoresTyped, LayoutsTyped, NEW t \in TypeIds, ConvertFrom(t)
  PROVE  Converted(t)
<1>1. StoresTyped' /\ LayoutsTyped' /\ MovesBack(t)
  BY ConvertFromSoAMoves, ConvertFromAoSoAMoves, ConvertFromArchetypeMoves DEF ConvertFrom
<1> QED BY <1>1 DEF Converted, MovesBack

LEMMA ConvertsTo ==
  ASSUME BMTypeOK, StoresTyped, LayoutsTyped, NEW t \in TypeIds, NEW n \in Nat,
         ConvertToSoA(t) \/ ConvertToAoSoA(t, n) \/ ConvertToArchetype(t, n)
  PROVE  Converted(t)
<1>1. StoresTyped' /\ LayoutsTyped' /\ MovesOut(t)
  BY ConvertToSoAMoves, ConvertToAoSoAMoves, ConvertToArchetypeMoves
<1>2. BMTypeOK'
  BY <1>1, MapLeft DEF MovesOut
<1> QED BY <1>1, <1>2 DEF Converted

LEMMA DirectConverts ==
  ASSUME BMTypeOK, StoresTyped, LayoutsTyped, NEW t \in TypeIds, DirectConversion(t)
  PROVE  Converted(t)
<1>1. chunkSize[t].AoSoA \in Nat /\ chunkSize[t].Archetype \in Nat
  BY DEF LayoutsTyped
<1> QED BY <1>1, ConvertsTo, ConvertsFrom DEF DirectConversion

LEMMA CommandConverts ==
  ASSUME BMTypeOK, StoresTyped, LayoutsTyped, NEW t \in TypeIds, NEW l, NEW n \in ChunkSizes,
         CommandConvert(t, l, n)
  PROVE  Converted(t)
<1>1. chunkSize[t].AoSoA \in Nat /\ chunkSize[t].Archetype \in Nat /\ n \in Nat
  BY ChunkAssumption DEF LayoutsTyped
<1>2. Asked(n, chunkSize[t].AoSoA) \in Nat /\ Asked(n, chunkSize[t].Archetype) \in Nat
  BY <1>1 DEF Asked
<1>3. CASE ConvertToSoA(t)
  BY <1>1, <1>3, ConvertsTo
<1> QED BY <1>2, <1>3, ConvertsTo, ConvertsFrom DEF CommandConvert

-----------------------------------------------------------------------------
(* The types of everything.                                                *)
SnapshotTyped(s) ==
    /\ s.blocks \in [DOMAIN s.blocks -> Block] /\ DOMAIN s.blocks \subseteq Numbers
    /\ s.registered \subseteq TypeIds
    /\ s.layout \in [TypeIds -> Layouts] /\ s.aosoa \in [TypeIds -> Nat]
    /\ s.nextIdentity \in 0..MaxIdentity /\ s.mixed \subseteq TypeIds

SavedTyped == saved = {} \/ \E s : saved = {s} /\ SnapshotTyped(s.snapshot)

TypeInv ==
    /\ BMTypeOK /\ StoresTyped /\ LayoutsTyped /\ SavedTyped
    /\ registered \subseteq TypeIds /\ names \subseteq TypeIds
    /\ phase \in {"host", "tick", "cleanup"} /\ loads \in Nat

LEMMA TypeInvHolds == TypeInv => WorldTypeOK
<1> SUFFICES ASSUME TypeInv PROVE WorldTypeOK
  OBVIOUS
<1>1. Cardinality(saved) <= 1
  <2>1. Cardinality({}) = 0 /\ \A s : Cardinality({s}) = 1
    BY FS_EmptySet, FS_Singleton
  <2>2. CASE saved = {}
    BY <2>1, <2>2
  <2>3. CASE \E s : saved = {s}
    <3>1. PICK s : saved = {s}
      BY <2>3
    <3>2. Cardinality(saved) = 1
      BY <2>1, <3>1
    <3> QED BY <3>2
  <2> QED BY <2>2, <2>3 DEF TypeInv, SavedTyped
<1> QED BY <1>1 DEF TypeInv, WorldTypeOK, LayoutsTyped, StoresTyped

LEMMA StartTyped ==
  ASSUME blocks = [i \in {} |-> Blank], identityTypes = [i \in {} |-> Blank],
         typeCounts = [t \in TypeIds |-> 0], nextIdentity = 0,
         pools = [t \in TypeIds |-> << >>], dead = {}
  PROVE  BMTypeOK
<1>1. << >> \in Seq(Data)
  BY EmptySeq
<1> QED BY <1>1, IdentityAssumption DEF BMTypeOK, Identities

LEMMA StartLaid ==
  ASSUME layout = [t \in TypeIds |-> "AoS"], chunkSize = [t \in TypeIds |-> DefaultChunks],
         soa = NoStore, aosoa = NoStore, archetype = NoStore, mixed = {}
  PROVE  StoresTyped /\ LayoutsTyped
BY DEF NoStore, StoresTyped, LayoutsTyped, Layouts, DefaultChunks

LEMMA StartTypedLemma ==
  BMInit /\ LayoutInit => BMTypeOK /\ StoresTyped /\ LayoutsTyped
BY StartTyped, StartLaid DEF BMInit, LayoutInit

(* A snapshot is typed, and what it is loaded into.                        *)
LEMMA SnapshotIs ==
  ASSUME TypeInv
  PROVE  SnapshotTyped(Snapshot)
<1>1. Persistent \subseteq Identities
  BY DEF Persistent
<1>2. [i \in Persistent |-> blocks[i]] \in [Persistent -> Block]
  BY <1>1 DEF TypeInv, BMTypeOK, Block
<1>3. [t \in TypeIds |-> chunkSize[t].AoSoA] \in [TypeIds -> Nat]
  BY DEF TypeInv, LayoutsTyped
<1>4. /\ Snapshot.blocks = [i \in Persistent |-> blocks[i]] /\ Snapshot.registered = registered
      /\ Snapshot.layout = layout /\ Snapshot.aosoa = [t \in TypeIds |-> chunkSize[t].AoSoA]
      /\ Snapshot.nextIdentity = nextIdentity /\ Snapshot.mixed = mixed
  BY DEF Snapshot
<1> HIDE DEF Snapshot
<1> QED BY <1>1, <1>2, <1>3, <1>4 DEF TypeInv, BMTypeOK, LayoutsTyped, SnapshotTyped, Numbers

LEMMA LoadTyped ==
  ASSUME TypeInv, NEW s, SnapshotTyped(s), Load(s)
  PROVE  BMTypeOK' /\ StoresTyped' /\ LayoutsTyped' /\ registered' \subseteq TypeIds
<1>1. /\ blocks' = s.blocks /\ identityTypes' = [i \in DOMAIN s.blocks |-> s.blocks[i].type]
      /\ nextIdentity' = s.nextIdentity /\ registered' = s.registered
      /\ layout' = s.layout /\ mixed' \in {TypeIds, mixed \cup s.mixed}
      /\ UNCHANGED <<dead, pools, soa, aosoa, archetype>>
  BY DEF Load
<1>2. typeCounts' \in [TypeIds -> Nat]
  <2>1. \A t \in TypeIds : Cardinality({i \in DOMAIN s.blocks : s.blocks[i].type = t}) \in Nat
    <3> TAKE t \in TypeIds
    <3> DEFINE S == {i \in DOMAIN s.blocks : s.blocks[i].type = t}
    <3>1. S \in SUBSET (1..MaxIdentity)
      BY DEF SnapshotTyped, Numbers
    <3> HIDE DEF S
    <3>2. IsFiniteSet(1..MaxIdentity)
      BY IdentityAssumption, FS_Interval
    <3> QED BY <3>1, <3>2, FS_Subset, FS_CardinalityType DEF S
  <2>2. typeCounts' = [t \in TypeIds |-> Cardinality({i \in DOMAIN s.blocks : s.blocks[i].type = t})]
    BY DEF Load
  <2> QED BY <2>1, <2>2, Zenon
<1>3. chunkSize' \in [TypeIds -> [AoSoA : Nat, Archetype : Nat]]
  <2>1. chunkSize' = [t \in TypeIds |-> [DefaultChunks EXCEPT !.AoSoA = s.aosoa[t]]]
    BY DEF Load
  <2> QED BY <2>1 DEF DefaultChunks, SnapshotTyped
<1>4. BMTypeOK'
  <2>1. \A i \in DOMAIN s.blocks : s.blocks[i].type \in TypeIds
    BY DEF SnapshotTyped, Block
  <2>2. identityTypes' \in [DOMAIN identityTypes' -> TypeIds] /\ DOMAIN identityTypes' = DOMAIN s.blocks
    BY <1>1, <2>1
  <2> QED BY <1>1, <1>2, <2>2 DEF TypeInv, BMTypeOK, SnapshotTyped, Block, Numbers, Identities
<1>5. LayoutsTyped'
  BY <1>1, <1>3 DEF TypeInv, LayoutsTyped, SnapshotTyped
<1>6. StoresTyped'
  BY <1>1 DEF TypeInv, StoresTyped, ChunkTyped
<1> QED BY <1>1, <1>4, <1>5, <1>6 DEF SnapshotTyped

StoreOnly == StoreAction /\ UNCHANGED <<registered, layoutVars, names, saved, loads>>

ConvertAction == HostConverts \/ ConvertCommand

LEMMA StoreActionOnly ==
  ASSUME StoreAction
  PROVE  StoreOnly
BY DEF StoreAction, StoreOnly, HostCall, ExecuteCommand, FinishCommands, DropEphemeral

LEMMA ConvertActionMoves ==
  ASSUME TypeInv, ConvertAction
  PROVE  /\ \E t \in registered : Converted(t)
         /\ UNCHANGED <<registered, names, saved, loads>>
<1>1. ASSUME NEW t \in registered, DirectConversion(t) PROVE Converted(t)
  BY <1>1, DirectConverts DEF TypeInv
<1>2. ASSUME NEW t \in registered, NEW l, NEW n \in ChunkSizes, CommandConvert(t, l, n) PROVE Converted(t)
  BY <1>2, CommandConverts DEF TypeInv
<1> QED BY <1>1, <1>2 DEF ConvertAction, HostConverts, ConvertCommand

(* Every step keeps the types.                                             *)
LEMMA TypeInvStep == TypeInv /\ [WorldNext]_worldVars => TypeInv'
<1> SUFFICES ASSUME TypeInv, [WorldNext]_worldVars PROVE TypeInv'
  OBVIOUS
<1>1. CASE \E t \in TypeIds, l \in NewLayouts : RegisterNamed(t, l)
  <2>1. PICK t \in TypeIds, l \in NewLayouts : RegisterNamed(t, l)
    BY <1>1
  <2>2. LayoutsTyped'
    BY <2>1, HostAssumption DEF RegisterNamed, TypeInv, LayoutsTyped, DefaultChunks
  <2>3. BMTypeOK' /\ StoresTyped' /\ SavedTyped'
    BY <2>1 DEF RegisterNamed, TypeInv, BMTypeOK, Identities, storeVars, StoresTyped, ChunkTyped, SavedTyped
  <2> QED BY <2>1, <2>2, <2>3 DEF RegisterNamed, RegisterBlockType, TypeInv
<1>2. CASE StoreAction
  <2>1. BMTypeOK'
    BY <1>2, StoreActionMoves DEF TypeInv
  <2>2. StoreOnly
    BY <1>2, StoreActionOnly
  <2>3. phase' \in {"host", "tick", "cleanup"}
    BY <1>2 DEF TypeInv, StoreAction, HostCall, ExecuteCommand, FinishCommands, DropEphemeral
  <2> QED BY <2>1, <2>2, <2>3 DEF StoreOnly, layoutVars, TypeInv, StoresTyped, ChunkTyped, LayoutsTyped, SavedTyped
<1>3. CASE ConvertAction
  <2>1. /\ BMTypeOK' /\ StoresTyped' /\ LayoutsTyped'
        /\ UNCHANGED <<registered, names, saved, loads>>
    BY <1>3, ConvertActionMoves DEF Converted
  <2>2. phase' \in {"host", "tick", "cleanup"}
    BY <1>3 DEF TypeInv, ConvertAction, HostConverts, ConvertCommand
  <2> QED BY <2>1, <2>2 DEF TypeInv, SavedTyped
<1>4. CASE Save
  <2>1. SavedTyped'
    <3> DEFINE z == [snapshot |-> Snapshot, reads |-> Reads, stored |-> Stored]
    <3>1. saved' = {z} /\ z.snapshot = Snapshot
      BY <1>4 DEF Save
    <3> HIDE DEF z
    <3> QED BY <3>1, SnapshotIs DEF SavedTyped
  <2> QED BY <1>4, <2>1 DEF Save, TypeInv, storeVars, BMTypeOK, Identities, layoutVars, StoresTyped,
                            ChunkTyped, LayoutsTyped
<1>5. CASE HostLoads
  <2>1. PICK s \in saved : Load(s.snapshot)
    BY <1>5 DEF HostLoads
  <2>2. SnapshotTyped(s.snapshot)
    BY <2>1 DEF TypeInv, SavedTyped
  <2>3. BMTypeOK' /\ StoresTyped' /\ LayoutsTyped' /\ registered' \subseteq TypeIds
    BY <2>1, <2>2, LoadTyped
  <2>4. names' = names /\ phase' = phase /\ saved' = {} /\ loads' = loads + 1
    BY <1>5, <2>1 DEF HostLoads, Load
  <2> QED BY <2>3, <2>4 DEF TypeInv, SavedTyped
<1>6. CASE Restart
  <2>1. BMInit' /\ LayoutInit'
    BY <1>6 DEF Restart, BMInit, LayoutInit
  <2>2. BMInit' /\ LayoutInit' => BMTypeOK' /\ StoresTyped' /\ LayoutsTyped'
    BY StartTypedLemma, PTL
  <2> QED BY <1>6, <2>1, <2>2 DEF Restart, TypeInv, SavedTyped
<1>7. CASE HostRelates \/ FinishTick \/ UNCHANGED worldVars
  BY <1>7 DEF HostRelates, FinishTick, worldVars, TypeInv, storeVars, BMTypeOK, Identities, layoutVars,
              StoresTyped, ChunkTyped, LayoutsTyped, SavedTyped
<1> QED BY <1>1, <1>2, <1>3, <1>4, <1>5, <1>6, <1>7 DEF WorldNext, StoreAction, ConvertAction

LEMMA TypeInvAlways == WorldSpec => []TypeInv
<1>1. WorldInit => TypeInv
  BY StartTypedLemma DEF WorldInit, TypeInv, SavedTyped
<1> QED BY <1>1, TypeInvStep, PTL DEF WorldSpec

(* Every state of the runtime's data has its type.                         *)
THEOREM WorldTyped == WorldSpec => []WorldTypeOK
BY TypeInvAlways, TypeInvHolds, PTL

-----------------------------------------------------------------------------
(* Where the blocks of a type are.                                         *)
HeldOnce(t) ==
    /\ Identities \cap Held(t) = {}
    /\ Known(t) = Ids(t) \cup Held(t)
    /\ Cardinality(Held(t)) = Len(DenseIds(t))

OwnPlace(t) ==
    /\ HeldOnce(t)
    /\ DenseFits(t)
    /\ t \notin registered => Len(DenseIds(t)) = 0

(* As long as some type is not mixed, the identities in use were issued,   *)
(* and the map, the stores and the identity-to-type map agree on types.    *)
IssuedInv ==
    /\ \A i \in Identities \cup DOMAIN identityTypes : i <= nextIdentity
    /\ \A i \in Identities \cap DOMAIN identityTypes : identityTypes[i] = blocks[i].type
    /\ \A t \in TypeIds : \A i \in Held(t) :
         i <= nextIdentity /\ (i \in DOMAIN identityTypes => identityTypes[i] = t)

PlaceInv == mixed # TypeIds => IssuedInv /\ \A t \in Unmixed : OwnPlace(t)

(* Before the first load that is so of every type, mixed or not. *)
OnceInv == loads = 0 => IssuedInv /\ \A t \in TypeIds : HeldOnce(t)

SavedInv ==
    \A s \in saved : s.snapshot.mixed # TypeIds =>
        \A i \in DOMAIN s.snapshot.blocks : i <= s.snapshot.nextIdentity

LEMMA HeldNumbers ==
  ASSUME StoresTyped, NEW t
  PROVE  Held(t) \subseteq Numbers
<1>1. DenseIds(t) \in Seq(Numbers)
  BY DenseTyped
<1> QED BY <1>1, ElementsOf DEF Held

LEMMA NumbersAreNat == \A i \in Numbers : i \in Nat
BY IdentityAssumption DEF Numbers

LEMMA AllSameStores ==
  ASSUME UNCHANGED <<soa, aosoa, archetype>>, NEW t
  PROVE  SameStores(t)
BY DEF SameStores

(* A new block has an identity that no block in use has.                   *)
LEMMA InsertKeepsOnce ==
  ASSUME TypeInv, IssuedInv, NEW t \in TypeIds, NEW d, Insert(t, d), UNCHANGED layoutVars
  PROVE  IssuedInv' /\ \A u \in TypeIds : HeldOnce(u) => HeldOnce(u)'
<1> DEFINE id == nextIdentity + 1
<1>2. nextIdentity \in Nat /\ id \in Nat /\ nextIdentity' = id
  BY IdentityAssumption DEF TypeInv, BMTypeOK, Insert
<1>3. /\ Identities' = Identities \cup {id} /\ DOMAIN identityTypes' = DOMAIN identityTypes \cup {id}
      /\ blocks'[id].type = t /\ identityTypes'[id] = t
      /\ \A i \in Identities : i # id => blocks'[i] = blocks[i]
      /\ \A i \in DOMAIN identityTypes : i # id => identityTypes'[i] = identityTypes[i]
  BY DEF Insert, Extend, Identities
<1>4. \A i : i \in Identities \/ i \in DOMAIN identityTypes \/ (\E u \in TypeIds : i \in Held(u))
             => i \in Nat /\ i <= nextIdentity /\ i # id
  <2>1. Identities \subseteq Numbers /\ DOMAIN identityTypes \subseteq Numbers
        /\ \A u \in TypeIds : Held(u) \subseteq Numbers
    BY HeldNumbers DEF TypeInv, BMTypeOK, Numbers
  <2>2. \A i : i \in Identities \/ i \in DOMAIN identityTypes \/ (\E u \in TypeIds : i \in Held(u))
               => i \in Numbers /\ i <= nextIdentity
    BY <2>1 DEF IssuedInv
  <2> HIDE DEF id
  <2>3. \A i \in Nat : i <= nextIdentity => i # id
    BY <1>2 DEF id
  <2> QED BY <2>2, <2>3, NumbersAreNat
<1> HIDE DEF id
<1>5. \A u : SameStores(u)
  BY AllSameStores DEF layoutVars
<1>6. \A u : Held(u)' = Held(u) /\ DenseIds(u)' = DenseIds(u)
  BY <1>5, SameStoresKeep
<1>7. IssuedInv'
  <2>1. \A i \in Identities' \cup DOMAIN identityTypes' : i <= nextIdentity'
    BY <1>2, <1>3, <1>4 DEF id
  <2>2. \A i \in Identities' \cap DOMAIN identityTypes' : identityTypes'[i] = blocks'[i].type
    BY <1>3, <1>4 DEF IssuedInv
  <2>3. ASSUME NEW u \in TypeIds, NEW i \in Held(u)
        PROVE  i <= nextIdentity' /\ (i \in DOMAIN identityTypes' => identityTypes'[i] = u)
    <3>1. i \in Nat /\ i <= nextIdentity /\ i # id /\ (i \in DOMAIN identityTypes => identityTypes[i] = u)
      BY <1>4, <2>3 DEF IssuedInv
    <3> QED BY <1>2, <1>3, <3>1 DEF id
  <2> QED BY <1>6, <2>1, <2>2, <2>3 DEF IssuedInv
<1>8. ASSUME NEW u \in TypeIds, HeldOnce(u) PROVE HeldOnce(u)'
  <2>1. id \notin Held(u)
    BY <1>4
  <2>2. Known(u)' = Known(u) \cup (IF u = t THEN {id} ELSE {})
    BY <1>3, <1>4 DEF Known
  <2>3. Ids(u)' = Ids(u) \cup (IF u = t THEN {id} ELSE {})
    BY <1>3, <1>4 DEF Ids
  <2> QED BY <1>3, <1>6, <1>8, <2>1, <2>2, <2>3 DEF HeldOnce
<1> QED BY <1>7, <1>8

(* An erased block leaves the map and the identity-to-type map together.   *)
LEMMA EraseKeepsOnce ==
  ASSUME TypeInv, IssuedInv, NEW S \in SUBSET Identities, Erase(S), UNCHANGED layoutVars
  PROVE  IssuedInv' /\ \A u \in TypeIds : HeldOnce(u) => HeldOnce(u)'
<1>2. /\ Identities' = Identities \ S /\ DOMAIN identityTypes' = DOMAIN identityTypes \ S
      /\ nextIdentity' = nextIdentity
      /\ \A i \in Identities' : blocks'[i] = blocks[i]
      /\ \A i \in DOMAIN identityTypes' : identityTypes'[i] = identityTypes[i]
  BY DEF Erase, Without, Identities
<1>3. \A u : SameStores(u)
  BY AllSameStores DEF layoutVars
<1>4. \A u : Held(u)' = Held(u) /\ DenseIds(u)' = DenseIds(u)
  BY <1>3, SameStoresKeep
<1>5. IssuedInv'
  BY <1>2, <1>4 DEF IssuedInv
<1>6. ASSUME NEW u \in TypeIds, HeldOnce(u) PROVE HeldOnce(u)'
  <2>1. Known(u)' = Known(u) \ S /\ Ids(u)' = Ids(u) \ S
    BY <1>2 DEF Known, Ids
  <2> QED BY <1>2, <1>4, <1>6, <2>1 DEF HeldOnce
<1> QED BY <1>5, <1>6

(* Nothing moves: the types of the blocks stay, and so do the stores.      *)
SamePlaces ==
    /\ Identities' = Identities /\ \A i \in Identities : blocks'[i].type = blocks[i].type
    /\ UNCHANGED <<identityTypes, nextIdentity, soa, aosoa, archetype, mixed>>
    /\ \A t \in TypeIds : t \in registered => t \in registered' /\ layout'[t] = layout[t]

LEMMA SamePlacesKeepOnce ==
  ASSUME IssuedInv, SamePlaces
  PROVE  IssuedInv' /\ \A u \in TypeIds : HeldOnce(u) => HeldOnce(u)'
<1>1. \A u : SameStores(u)
  BY AllSameStores DEF SamePlaces
<1>2. \A u : Held(u)' = Held(u) /\ DenseIds(u)' = DenseIds(u)
  BY <1>1, SameStoresKeep
<1>3. IssuedInv'
  BY <1>2 DEF IssuedInv, SamePlaces
<1>4. ASSUME NEW u \in TypeIds, HeldOnce(u) PROVE HeldOnce(u)'
  <2>1. Known(u)' = Known(u) /\ Ids(u)' = Ids(u)
    BY DEF Known, Ids, SamePlaces
  <2> QED BY <1>2, <1>4, <2>1 DEF HeldOnce, SamePlaces
<1> QED BY <1>3, <1>4

(* Every block that leaves the map is in a store.                          *)
LEMMA MovesOutKeepsOnce ==
  ASSUME TypeInv, IssuedInv, NEW t \in TypeIds, MovesOut(t)
  PROVE  IssuedInv' /\ \A u \in TypeIds : HeldOnce(u) => HeldOnce(u)'
<1>3. /\ Identities' = Identities \ Ids(t) /\ \A i \in Identities' : blocks'[i] = blocks[i]
      /\ UNCHANGED <<identityTypes, nextIdentity>>
  BY MapLeft DEF MovesOut, TypeInv
<1>4. Held(t)' = Held(t) \cup Ids(t)
  BY DEF MovesOut, Held
<1>5. ASSUME NEW u \in TypeIds, u # t
      PROVE  Held(u)' = Held(u) /\ DenseIds(u)' = DenseIds(u)
  <2>1. SameStores(u)
    BY <1>5 DEF MovesOut
  <2> QED BY <2>1, SameStoresKeep
<1>6. IssuedInv'
  <2>1. \A i \in Held(t)' : i <= nextIdentity /\ (i \in DOMAIN identityTypes => identityTypes[i] = t)
    BY <1>4 DEF IssuedInv, Ids
  <2>2. \A u \in TypeIds : \A i \in Held(u)' :
          i <= nextIdentity /\ (i \in DOMAIN identityTypes => identityTypes[i] = u)
    BY <1>5, <2>1 DEF IssuedInv
  <2> QED BY <1>3, <2>2 DEF IssuedInv
<1>7. ASSUME NEW u \in TypeIds, HeldOnce(u) PROVE HeldOnce(u)'
  <2>1. Known(u)' = Known(u)
    BY <1>3 DEF Known
  <2>2. CASE u = t
    <3>1. Ids(t)' = {}
      BY <1>3 DEF Ids
    <3>2. Cardinality(Held(t)') = Len(DenseIds(t)')
      <4>1. Held(t) \cap Ids(t) = {} /\ Cardinality(Held(t)) = Len(DenseIds(t))
        BY <1>7, <2>2 DEF HeldOnce, Ids
      <4>2. IsFiniteSet(Held(t)) /\ Cardinality(Held(t)) \in Nat
        BY DenseTyped, ElementsCounted DEF Held, TypeInv
      <4>3. IsFiniteSet(Ids(t)) /\ Cardinality(Ids(t)) \in Nat
        BY IdsAreNumbers DEF TypeInv
      <4>4. Cardinality(Held(t) \cup Ids(t)) =
              Cardinality(Held(t)) + Cardinality(Ids(t)) - Cardinality(Held(t) \cap Ids(t))
        BY <4>2, <4>3, FS_Union
      <4>5. Cardinality(Held(t) \cap Ids(t)) = 0
        BY <4>1, FS_EmptySet
      <4>6. Cardinality(Held(t)') = Len(DenseIds(t)) + Cardinality(Ids(t))
        BY <1>4, <4>1, <4>2, <4>3, <4>4, <4>5
      <4> QED BY <4>6 DEF MovesOut
    <3> QED BY <1>3, <1>4, <1>7, <2>1, <2>2, <3>1, <3>2 DEF HeldOnce
  <2>3. CASE u # t
    <3>1. Ids(u)' = Ids(u)
      BY <1>3, <2>3 DEF Ids
    <3> QED BY <1>3, <1>5, <1>7, <2>1, <2>3, <3>1 DEF HeldOnce
  <2> QED BY <2>2, <2>3
<1> QED BY <1>6, <1>7

(* Every block that leaves a store is in the map.                          *)
LEMMA MovesBackKeepsOnce ==
  ASSUME TypeInv, IssuedInv, NEW t \in TypeIds, MovesBack(t)
  PROVE  IssuedInv' /\ \A u \in TypeIds : HeldOnce(u) => HeldOnce(u)'
<1>3. PICK back \in SUBSET Numbers : Returns(t, back)
  BY DEF MovesBack
<1>4. /\ Identities' = Identities \cup back
      /\ \A i \in Identities' : IF i \in back THEN blocks'[i].type = t ELSE blocks'[i] = blocks[i]
      /\ UNCHANGED <<identityTypes, nextIdentity>>
      /\ Held(t) = back \cup Held(t)'
      /\ HeldOnce(t) => back \cap Held(t)' = {} /\ Cardinality(Held(t)') = Len(DenseIds(t)')
  BY <1>3 DEF MovesBack, Returns, LeavesOf, NoneTwice, Held, HeldOnce
<1>5. ASSUME NEW u \in TypeIds, u # t
      PROVE  Held(u)' = Held(u) /\ DenseIds(u)' = DenseIds(u)
  <2>1. SameStores(u)
    BY <1>5 DEF MovesBack
  <2> QED BY <2>1, SameStoresKeep
<1>6. IssuedInv'
  <2>1. \A u \in TypeIds : \A i \in Held(u)' :
          i <= nextIdentity /\ (i \in DOMAIN identityTypes => identityTypes[i] = u)
    BY <1>4, <1>5 DEF IssuedInv
  <2>2. \A i \in Identities' \cup DOMAIN identityTypes : i <= nextIdentity
    BY <1>4 DEF IssuedInv
  <2>3. \A i \in Identities' \cap DOMAIN identityTypes : identityTypes[i] = blocks'[i].type
    BY <1>4 DEF IssuedInv
  <2> QED BY <1>4, <2>1, <2>2, <2>3 DEF IssuedInv
<1>7. ASSUME NEW u \in TypeIds, HeldOnce(u) PROVE HeldOnce(u)'
  <2>1. Known(u)' = Known(u)
    BY <1>4 DEF Known
  <2>2. CASE u = t
    <3>1. Ids(t)' = Ids(t) \cup back
      BY <1>4, <1>7, <2>2 DEF Ids, HeldOnce
    <3>2. Identities' \cap Held(t)' = {} /\ Known(t)' = Ids(t)' \cup Held(t)'
      BY <1>4, <1>7, <2>1, <2>2, <3>1 DEF HeldOnce
    <3> QED BY <1>4, <1>7, <2>2, <3>2 DEF HeldOnce
  <2>3. CASE u # t
    <3>1. \A i \in back : i \notin Known(u)
      BY <1>4, <2>3 DEF Known, IssuedInv
    <3>2. \A i \in back : i \notin Ids(u) /\ i \notin Held(u)
      BY <1>7, <3>1 DEF HeldOnce
    <3>3. Ids(u)' = Ids(u)
      BY <1>4, <2>3, <3>2 DEF Ids
    <3> QED BY <1>4, <1>5, <1>7, <2>1, <2>3, <3>2, <3>3 DEF HeldOnce
  <2> QED BY <2>2, <2>3
<1> QED BY <1>6, <1>7

-----------------------------------------------------------------------------
(* The same with the layouts and the stores' own order.                    *)

(* Steps that leave the stores and the layouts of types in use alone.      *)
LEMMA StoresKeepPlace ==
  ASSUME TypeInv, NEW u \in TypeIds, OwnPlace(u), HeldOnce(u)', SameStores(u),
         u \in registered => u \in registered' /\ layout'[u] = layout[u]
  PROVE  OwnPlace(u)'
<1>1. DenseFits(u)'
  BY SameStoresFit DEF OwnPlace, TypeInv
<1>2. DenseIds(u)' = DenseIds(u)
  BY SameStoresKeep
<1> QED BY <1>1, <1>2 DEF OwnPlace

LEMMA SamePlacesKeep ==
  ASSUME TypeInv, PlaceInv, UNCHANGED <<soa, aosoa, archetype, mixed>>,
         \A t \in TypeIds : t \in registered => t \in registered' /\ layout'[t] = layout[t],
         mixed # TypeIds => IssuedInv' /\ \A u \in TypeIds : HeldOnce(u) => HeldOnce(u)'
  PROVE  PlaceInv'
<1> SUFFICES ASSUME mixed # TypeIds PROVE PlaceInv'
  BY DEF PlaceInv
<1>1. ASSUME NEW u \in Unmixed PROVE OwnPlace(u)'
  <2>1. OwnPlace(u) /\ u \in TypeIds /\ HeldOnce(u)'
    BY DEF PlaceInv, OwnPlace, Unmixed
  <2> QED BY <2>1, AllSameStores, StoresKeepPlace
<1>2. Unmixed' = Unmixed
  BY DEF Unmixed
<1> QED BY <1>1, <1>2 DEF PlaceInv

LEMMA MovesKeepPlace ==
  ASSUME TypeInv, PlaceInv, NEW t \in registered, MovesOut(t) \/ MovesBack(t), mixed' # TypeIds,
         UNCHANGED registered
  PROVE  PlaceInv'
<1>1. /\ mixed # TypeIds /\ mixed \subseteq mixed' /\ mixed' \subseteq mixed \cup {t} /\ t \in TypeIds
      /\ \A u \in TypeIds : u # t => SameStores(u) /\ layout'[u] = layout[u]
      /\ t \notin mixed' /\ DenseFits(t) => DenseFits(t)'
  BY DEF MovesOut, MovesBack, TypeInv, LayoutsTyped
<1>2. IssuedInv /\ \A u \in Unmixed : OwnPlace(u) /\ HeldOnce(u)
  BY <1>1 DEF PlaceInv, OwnPlace
<1>3. IssuedInv' /\ \A u \in Unmixed' : HeldOnce(u)'
  <2>1. Unmixed' \subseteq Unmixed /\ Unmixed \subseteq TypeIds
    BY <1>1 DEF Unmixed
  <2>2. CASE MovesOut(t)
    BY <1>1, <1>2, <2>1, <2>2, MovesOutKeepsOnce
  <2>3. CASE MovesBack(t)
    BY <1>1, <1>2, <2>1, <2>3, MovesBackKeepsOnce
  <2> QED BY <2>2, <2>3
<1>4. ASSUME NEW u \in Unmixed' PROVE OwnPlace(u)'
  <2>1. u \in Unmixed /\ u \in TypeIds /\ OwnPlace(u) /\ HeldOnce(u)'
    BY <1>1, <1>2, <1>3 DEF Unmixed
  <2>2. CASE u = t
    BY <1>1, <1>4, <2>1, <2>2 DEF OwnPlace, Unmixed
  <2>3. CASE u # t
    BY <1>1, <2>1, <2>3, StoresKeepPlace
  <2> QED BY <2>2, <2>3
<1> QED BY <1>3, <1>4 DEF PlaceInv

-----------------------------------------------------------------------------
LEMMA StartPlaces == BMInit /\ LayoutInit => PlaceInv /\ OnceInv
<1> SUFFICES ASSUME BMInit, LayoutInit PROVE IssuedInv /\ \A t \in TypeIds : OwnPlace(t)
  BY DEF PlaceInv, OnceInv, OwnPlace, Unmixed
<1>1. Identities = {} /\ DOMAIN identityTypes = {}
  BY DEF BMInit, Identities
<1>2. DOMAIN soa = {} /\ DOMAIN aosoa = {} /\ DOMAIN archetype = {}
  BY DEF LayoutInit, NoStore
<1>3. \A t : SoAIds(t) = << >> /\ AoSoAIds(t) = << >> /\ ArchetypeIds(t) = << >>
  BY <1>2 DEF SoAIds, AoSoAIds, ArchetypeIds
<1>4. \A t : /\ DenseIds(t) = << >> /\ Held(t) = {} /\ LayoutFits(t)
             /\ Cardinality(Held(t)) = Len(DenseIds(t))
  BY <1>3, NothingHeld
<1>5. IssuedInv
  BY <1>1, <1>4 DEF IssuedInv
<1>6. ASSUME NEW t \in TypeIds PROVE OwnPlace(t)
  <2>1. DenseFits(t)
    BY <1>2, <1>4 DEF DenseFits, SoAFits, AoSoAFits, ArchetypeFits
  <2>2. Known(t) = {} /\ Ids(t) = {} /\ Held(t) = {} /\ Len(DenseIds(t)) = 0
    BY <1>1, <1>4 DEF Known, Ids
  <2>3. Cardinality(Held(t)) = Len(DenseIds(t))
    BY <1>4
  <2> QED BY <1>1, <2>1, <2>2, <2>3 DEF OwnPlace, HeldOnce
<1> QED BY <1>5, <1>6

(* A load over empty stores leaves the map of the snapshot alone.          *)
LEMMA LoadKeepsPlace ==
  ASSUME TypeInv, PlaceInv, NEW s, SnapshotTyped(s), Load(s),
         s.mixed # TypeIds => \A i \in DOMAIN s.blocks : i <= s.nextIdentity
  PROVE  PlaceInv'
<1> SUFFICES ASSUME mixed' # TypeIds PROVE IssuedInv' /\ \A u \in Unmixed' : OwnPlace(u)'
  BY DEF PlaceInv
<1>1. \A t \in TypeIds : DenseIds(t) = << >>
  BY DEF Load
<1>2. mixed' = mixed \cup s.mixed /\ mixed # TypeIds /\ s.mixed # TypeIds
  BY <1>1 DEF Load, TypeInv, LayoutsTyped, SnapshotTyped
<1>3. /\ blocks' = s.blocks /\ identityTypes' = [i \in DOMAIN s.blocks |-> s.blocks[i].type]
      /\ nextIdentity' = s.nextIdentity /\ UNCHANGED <<soa, aosoa, archetype>>
  BY DEF Load
<1>4. /\ Identities' = DOMAIN s.blocks /\ DOMAIN identityTypes' = DOMAIN s.blocks
      /\ \A i \in DOMAIN s.blocks : identityTypes'[i] = blocks'[i].type
  BY <1>3 DEF Identities
<1>5. \A u : SameStores(u)
  BY <1>3, AllSameStores
<1>6. \A u \in TypeIds : DenseIds(u)' = << >> /\ Len(DenseIds(u)') = 0 /\ Held(u)' = {}
  <2>1. \A u : DenseIds(u)' = DenseIds(u)
    BY <1>5, SameStoresKeep
  <2> QED BY <1>1, <2>1 DEF Held, ToSet
<1>7. IssuedInv'
  BY <1>2, <1>3, <1>4, <1>6 DEF IssuedInv
<1>8. ASSUME NEW u \in Unmixed' PROVE OwnPlace(u)'
  <2>1. u \in TypeIds /\ u \in Unmixed
    BY <1>2 DEF Unmixed
  <2>2. DenseFits(u)
    BY <1>2, <2>1 DEF PlaceInv, OwnPlace
  <2>3. DenseFits(u)'
    BY <1>1, <1>5, <2>1, <2>2, SameStoresFit DEF TypeInv
  <2>4. Known(u)' = Ids(u)'
    BY <1>4 DEF Known, Ids
  <2> QED BY <1>6, <2>1, <2>3, <2>4, FS_EmptySet DEF OwnPlace, HeldOnce
<1> QED BY <1>7, <1>8

WorldInv == TypeInv /\ PlaceInv /\ OnceInv /\ SavedInv

(* What a step may do to the blocks' places.                               *)
Stays ==
    /\ UNCHANGED <<soa, aosoa, archetype, mixed, loads>>
    /\ \A t \in TypeIds : t \in registered => t \in registered' /\ layout'[t] = layout[t]
    /\ IssuedInv => IssuedInv' /\ \A u \in TypeIds : HeldOnce(u) => HeldOnce(u)'

LEMMA StoreActionStays ==
  ASSUME TypeInv, StoreAction
  PROVE  Stays
<1>1. StoreMoves /\ StoreOnly
  BY StoreActionMoves, StoreActionOnly DEF TypeInv
<1>2. UNCHANGED <<registered, layoutVars, loads>>
  BY <1>1 DEF StoreOnly
<1> SUFFICES ASSUME IssuedInv
             PROVE  IssuedInv' /\ \A u \in TypeIds : HeldOnce(u) => HeldOnce(u)'
  BY <1>2 DEF Stays, layoutVars
<1>3. CASE SameBlocks
  <2>1. Identities' = Identities
    BY <1>3 DEF SameBlocks, Identities
  <2>2. SamePlaces
    BY <1>2, <1>3, <2>1 DEF SameBlocks, layoutVars, SamePlaces
  <2> QED BY <2>2, SamePlacesKeepOnce
<1>4. CASE ~SameBlocks
  BY <1>1, <1>2, <1>4, InsertKeepsOnce, EraseKeepsOnce DEF StoreMoves
<1> QED BY <1>3, <1>4

LEMMA QuietStays ==
  ASSUME TypeInv,
         \/ \E t \in TypeIds, l \in NewLayouts : RegisterNamed(t, l)
         \/ Save \/ HostRelates \/ FinishTick \/ UNCHANGED worldVars
  PROVE  Stays
<1>1. SamePlaces /\ UNCHANGED loads
  <2>1. CASE \E t \in TypeIds, l \in NewLayouts : RegisterNamed(t, l)
    BY <2>1 DEF RegisterNamed, RegisterBlockType, storeVars, Identities, SamePlaces, TypeInv, LayoutsTyped
  <2>2. CASE Save \/ HostRelates \/ FinishTick \/ UNCHANGED worldVars
    BY <2>2 DEF Save, HostRelates, FinishTick, worldVars, storeVars, layoutVars, Identities, SamePlaces
  <2> QED BY <2>1, <2>2
<1> QED BY <1>1, SamePlacesKeepOnce DEF SamePlaces, Stays

(* The steps that leave the blocks where they are, the conversions, and the*)
(* steps that replace the blocks.                                          *)
LEMMA StepKinds ==
  ASSUME TypeInv, [WorldNext]_worldVars
  PROVE  \/ Stays
         \/ ConvertAction
         \/ HostLoads
         \/ Restart
BY StoreActionStays, QuietStays DEF WorldNext, StoreAction, ConvertAction

(* Every step keeps the blocks in their places.                            *)
LEMMA PlaceInvStep ==
  ASSUME WorldInv, [WorldNext]_worldVars
  PROVE  PlaceInv'
<1>1. CASE Stays
  <2>1. mixed # TypeIds => IssuedInv
    BY DEF WorldInv, PlaceInv
  <2> QED BY <1>1, <2>1, SamePlacesKeep DEF WorldInv, Stays
<1>2. CASE ConvertAction
  <2>1. PICK t \in registered : Converted(t)
    BY <1>2, ConvertActionMoves DEF WorldInv
  <2>2. UNCHANGED registered
    BY <1>2, ConvertActionMoves DEF WorldInv
  <2> SUFFICES ASSUME mixed' # TypeIds PROVE PlaceInv'
    BY DEF PlaceInv
  <2> QED BY <2>1, <2>2, MovesKeepPlace DEF WorldInv, Converted
<1>3. CASE HostLoads
  <2>1. PICK s \in saved : Load(s.snapshot)
    BY <1>3 DEF HostLoads
  <2>2. SnapshotTyped(s.snapshot)
    BY <2>1 DEF WorldInv, TypeInv, SavedTyped
  <2>3. s.snapshot.mixed # TypeIds => \A i \in DOMAIN s.snapshot.blocks : i <= s.snapshot.nextIdentity
    BY <2>1 DEF WorldInv, SavedInv
  <2> QED BY <2>1, <2>2, <2>3, LoadKeepsPlace DEF WorldInv
<1>4. CASE Restart
  <2>1. BMInit' /\ LayoutInit'
    BY <1>4 DEF Restart, BMInit, LayoutInit
  <2>2. BMInit' /\ LayoutInit' => PlaceInv'
    BY StartPlaces, PTL
  <2> QED BY <2>1, <2>2
<1> QED BY <1>1, <1>2, <1>3, <1>4, StepKinds DEF WorldInv

LEMMA OnceInvStep ==
  ASSUME WorldInv, [WorldNext]_worldVars
  PROVE  OnceInv'
<1>1. CASE Stays
  BY <1>1 DEF WorldInv, OnceInv, Stays
<1>2. CASE ConvertAction
  <2>1. PICK t \in registered : Converted(t)
    BY <1>2, ConvertActionMoves DEF WorldInv
  <2>2. UNCHANGED loads /\ t \in TypeIds
    BY <1>2, ConvertActionMoves DEF WorldInv, TypeInv
  <2> SUFFICES ASSUME loads = 0 PROVE IssuedInv' /\ \A u \in TypeIds : HeldOnce(u)'
    BY <2>2 DEF OnceInv
  <2>3. IssuedInv /\ \A u \in TypeIds : HeldOnce(u)
    BY DEF WorldInv, OnceInv
  <2> QED BY <2>1, <2>2, <2>3, MovesOutKeepsOnce, MovesBackKeepsOnce DEF WorldInv, Converted
<1>3. CASE HostLoads
  <2>1. loads \in Nat /\ loads' = loads + 1
    BY <1>3 DEF HostLoads, WorldInv, TypeInv
  <2> QED BY <2>1 DEF OnceInv
<1>4. CASE Restart
  <2>1. BMInit' /\ LayoutInit'
    BY <1>4 DEF Restart, BMInit, LayoutInit
  <2>2. BMInit' /\ LayoutInit' => OnceInv'
    BY StartPlaces, PTL
  <2> QED BY <2>1, <2>2
<1> QED BY <1>1, <1>2, <1>3, <1>4, StepKinds DEF WorldInv

LEMMA SavedInvStep ==
  ASSUME WorldInv, [WorldNext]_worldVars
  PROVE  SavedInv'
<1>1. CASE saved' = saved
  BY <1>1 DEF WorldInv, SavedInv
<1>2. CASE saved' = {}
  BY <1>2 DEF SavedInv
<1>3. CASE Save
  <2>1. /\ Snapshot.blocks = [i \in Persistent |-> blocks[i]]
        /\ Snapshot.nextIdentity = nextIdentity /\ Snapshot.mixed = mixed
    BY DEF Snapshot
  <2>2. Persistent \subseteq Identities
    BY DEF Persistent
  <2> DEFINE z == [snapshot |-> Snapshot, reads |-> Reads, stored |-> Stored]
  <2>3. saved' = {z} /\ z.snapshot = Snapshot
    BY <1>3 DEF Save
  <2> HIDE DEF z
  <2>4. Snapshot.mixed # TypeIds => \A i \in DOMAIN Snapshot.blocks : i <= Snapshot.nextIdentity
    BY <2>1, <2>2 DEF WorldInv, PlaceInv, IssuedInv
  <2> QED BY <2>3, <2>4 DEF SavedInv
<1>4. CASE StoreAction
  BY <1>1, <1>4, StoreActionOnly DEF StoreOnly
<1>5. CASE ConvertAction
  BY <1>1, <1>5, ConvertActionMoves DEF WorldInv
<1>6. CASE HostLoads
  BY <1>2, <1>6 DEF HostLoads
<1>7. CASE (\E t \in TypeIds, l \in NewLayouts : RegisterNamed(t, l)) \/ HostRelates \/ FinishTick
           \/ Restart \/ UNCHANGED worldVars
  BY <1>1, <1>7 DEF RegisterNamed, HostRelates, FinishTick, Restart, worldVars
<1> QED BY <1>3, <1>4, <1>5, <1>6, <1>7 DEF WorldNext, StoreAction, ConvertAction

LEMMA WorldInvAlways == WorldSpec => []WorldInv
<1>1. WorldInit => WorldInv
  BY StartTypedLemma, StartPlaces DEF WorldInit, WorldInv, TypeInv, SavedTyped, SavedInv
<1>2. WorldInv /\ [WorldNext]_worldVars => WorldInv'
  BY TypeInvStep, PlaceInvStep, OnceInvStep, SavedInvStep DEF WorldInv
<1> QED BY <1>1, <1>2, PTL DEF WorldSpec

LEMMA PlaceInvSays == WorldInv => NothingLost /\ OnePlace
<1> SUFFICES ASSUME WorldInv PROVE NothingLost /\ OnePlace
  OBVIOUS
<1>1. \A t \in Unmixed : OwnPlace(t) /\ t \in TypeIds
  BY DEF WorldInv, PlaceInv, Unmixed
<1>2. NothingLost
  <2>1. loads = 0 \/ mixed = {} => \A i \in DOMAIN identityTypes : i <= nextIdentity
    <3>1. CASE mixed # TypeIds \/ loads = 0
      BY <3>1 DEF WorldInv, PlaceInv, OnceInv, IssuedInv
    <3>2. CASE mixed = TypeIds
      BY <3>2 DEF WorldInv, TypeInv, BMTypeOK, OnceInv, IssuedInv
    <3> QED BY <3>1, <3>2
  <2>2. ASSUME NEW t \in TypeIds, loads = 0 \/ t \notin mixed PROVE HeldOnce(t)
    BY <1>1, <2>2 DEF WorldInv, OnceInv, OwnPlace, Unmixed
  <2> QED BY <2>1, <2>2 DEF NothingLost, HeldOnce, Held
<1>3. OnePlace
  <2> SUFFICES ASSUME NEW t \in Unmixed
               PROVE  /\ Identities \cap ToSet(DenseIds(t)) = {}
                      /\ Cardinality(ToSet(DenseIds(t))) = Len(DenseIds(t))
                      /\ SoAIds(t) # << >> => layout[t] = "SoA"
                      /\ AoSoAIds(t) # << >> => layout[t] = "AoSoA"
                      /\ ArchetypeIds(t) # << >> => layout[t] = "Archetype"
                      /\ t \in DOMAIN soa =>
                           /\ DOMAIN soa[t].index = ToSet(soa[t].ids)
                           /\ \A i \in ToSet(soa[t].ids) : <<soa[t].index[i] + 1, i>> \in RowsOf(soa[t].ids)
                      /\ t \in DOMAIN aosoa => FullButLast(aosoa[t].chunks, aosoa[t].size)
                      /\ t \in DOMAIN archetype =>
                           /\ FullButLast(archetype[t].chunks, archetype[t].size)
                           /\ DOMAIN archetype[t].sparse = ToSet(ArchetypeIds(t))
                           /\ \A i \in ToSet(ArchetypeIds(t)) :
                                SlotFits(archetype[t].chunks, archetype[t].sparse[i], i)
    BY DEF OnePlace, SlotFits
  <2>1. DenseFits(t) /\ Identities \cap ToSet(DenseIds(t)) = {} /\ StoresTyped
    BY <1>1 DEF OwnPlace, HeldOnce, Held, WorldInv, TypeInv
  <2>2. /\ SoAIds(t) # << >> => layout[t] = "SoA"
        /\ AoSoAIds(t) # << >> => layout[t] = "AoSoA"
        /\ ArchetypeIds(t) # << >> => layout[t] = "Archetype"
    <3>1. SoAIds(t) \in Seq(Numbers) /\ AoSoAIds(t) \in Seq(Numbers) /\ ArchetypeIds(t) \in Seq(Numbers)
      BY <2>1, DenseTyped
    <3>2. \A q \in Seq(Numbers) : q # << >> => Len(q) # 0
      OBVIOUS
    <3> QED BY <2>1, <3>1, <3>2 DEF DenseFits, LayoutFits
  <2> QED BY <2>1, <2>2 DEF DenseFits, SoAFits, AoSoAFits, ArchetypeFits, Held
<1> QED BY <1>2, <1>3

(* A block of a type that was never moved between two dense stores is held *)
(* once, by the block map or by the one store of its type's layout, and    *)
(* that store's index, sparse set or chunks lead to its row                *)
(* (layout_manager.h).                                                     *)
THEOREM BlocksHeldOnce == WorldSpec => []OnePlace
BY WorldInvAlways, PlaceInvSays, PTL

(* Until the first load, through any creations, destructions, commands,    *)
(* clean-ups and conversions, those from one dense layout to another too,  *)
(* the identity-to-type map lists exactly the blocks that the block map    *)
(* and the stores hold, and each of them is held once; identities in use   *)
(* were issued.  After a load the same holds of the types that are not     *)
(* mixed; a load that finds rows in a dense store makes all types mixed,   *)
(* so that of them nothing is said (layout_manager.h, block_manager.h).    *)
THEOREM BlocksKept == WorldSpec => []NothingLost
BY WorldInvAlways, PlaceInvSays, PTL

-----------------------------------------------------------------------------
(* Reading a column as a whole. *)

(* Row by row, column holds what can be read of the row's block.           *)
RowMatches(column, n, row, v) ==
    /\ row * n <= Len(column)
    /\ v = SubSeq(column, (row - 1) * n + 1, row * n)

(* What is read in a row is the row's stretch of the column.               *)
LEMMA CellsAreRow ==
  ASSUME NEW t \in TypeIds, NEW k \in DOMAIN Fields[t], NEW columns, NEW row \in Nat \ {0},
         NEW p, p + 1 = row, p \in Int, NEW v \in Cells(t, columns, k, p)
  PROVE  RowMatches(columns[k], Fields[t][k].size, row, v)
<1> DEFINE n == Fields[t][k].size
<1>1. ColumnsOf(t) = Fields[t]
  BY DEF ColumnsOf
<1>2. p = row - 1
  OBVIOUS
<1> HIDE DEF n
<1>3. /\ (p + 1) * n <= Len(columns[k])
      /\ v = SubSeq(columns[k], p * n + 1, (p + 1) * n)
  BY <1>1 DEF Cells, n
<1> QED BY <1>2, <1>3 DEF RowMatches, n

LEMMA SameRow ==
  ASSUME NEW T, NEW ids \in Seq(T), Cardinality(ToSet(ids)) = Len(ids), NEW row \in DOMAIN ids,
         NEW m, <<m, ids[row]>> \in RowsOf(ids)
  PROVE  m = row
<1>1. m \in DOMAIN ids /\ ids[m] = ids[row]
  BY DEF RowsOf
<1> QED BY <1>1, EntriesDiffer

LEMMA OneChunk ==
  ASSUME NEW t, NEW chunks \in Seq(Chunk(t)), Len(chunks) = 1
  PROVE  Concat(chunks) = chunks[1].ids /\ chunks[1].ids \in Seq(Numbers) /\ DOMAIN chunks = {1}
<1> DEFINE C == Chunk(t)
<1>1. 1 \in DOMAIN chunks /\ DOMAIN chunks = {1}
  <2> HIDE DEF C
  <2> QED BY DEF C
<1>2. chunks[1] \in Chunk(t)
  <2>1. \A c \in DOMAIN chunks : chunks[c] \in C
    BY ElementsOf
  <2> QED BY <1>1, <2>1
<1>3. chunks[1].ids \in Seq(Numbers)
  BY <1>2 DEF Chunk
<1>4. chunks = <<chunks[1]>>
  <2> HIDE DEF C
  <2> DEFINE x == chunks[1]
  <2>1. chunks \in Seq(C) /\ x = chunks[1]
    BY DEF C
  <2> HIDE DEF x
  <2> QED BY <2>1
<1>5. Concat(<<chunks[1]>>) = chunks[1].ids
  BY <1>3, ConcatOfFew
<1> QED BY <1>1, <1>3, <1>4, <1>5

(* Some store holds a chunk that is not empty. *)
LEMMA FullChunk ==
  ASSUME StoresTyped, NEW t \in TypeIds, NEW chunks \in Seq(Chunk(t)), Len(chunks) = 1, NEW n,
         FullButLast(chunks, n)
  PROVE  Len(Concat(chunks)) # 0
<1>1. Concat(chunks) = chunks[1].ids /\ 1 \in DOMAIN chunks
  BY OneChunk
<1>2. Len(chunks[1].ids) \in 1..n
  BY <1>1 DEF FullButLast
<1>3. \A x \in 1..n : x # 0
  OBVIOUS
<1> QED BY <1>1, <1>2, <1>3

(* What read_field finds of row row of the blocks in a dense store. *)
InRow(t, k, row) ==
    LET i == DenseIds(t)[row] IN
    FieldSpan(t, k) # << >> =>
      \A v \in ReadSoA(i, t, k) \cup ReadAoSoA(i, t, k) \cup ReadArchetype(i, t, k) :
         RowMatches(FieldSpan(t, k), Fields[t][k].size, row, v)

(* The rows of an SoA store.                                               *)
LEMMA SoARow ==
  ASSUME StoresTyped, NEW t \in registered, t \in TypeIds, DenseFits(t), NEW k \in DOMAIN Fields[t],
         NEW row \in DOMAIN DenseIds(t), Len(SoAIds(t)) # 0
  PROVE  InRow(t, k, row)
<1> DEFINE i == DenseIds(t)[row]
<1>1. AoSoAIds(t) = << >> /\ ArchetypeIds(t) = << >> /\ SoAIds(t) \in Seq(Numbers)
  <2>1. /\ SoAIds(t) \in Seq(Numbers) /\ AoSoAIds(t) \in Seq(Numbers) /\ ArchetypeIds(t) \in Seq(Numbers)
    BY DenseTyped
  <2>2. \A q \in Seq(Numbers) : Len(q) = 0 => q = << >>
    OBVIOUS
  <2> QED BY <2>1, <2>2 DEF DenseFits, LayoutFits
<1>2. DenseIds(t) = SoAIds(t)
  BY <1>1 DEF DenseIds
<1>3. t \in DOMAIN soa /\ SoAIds(t) = soa[t].ids
  <2>1. Len(<< >>) = 0
    OBVIOUS
  <2> QED BY <2>1 DEF SoAIds
<1>4. FieldSpan(t, k) = soa[t].columns[k]
  BY <1>3 DEF FieldSpan, BulkFieldData
<1>5. i \in ToSet(soa[t].ids)
  BY <1>2, <1>3 DEF ToSet
<1>6. ReadAoSoA(i, t, k) = {} /\ ReadArchetype(i, t, k) = {}
  <2>1. \A x : x \notin ToSet(<< >>)
    BY DEF ToSet
  <2> QED BY <1>1, <2>1 DEF ReadAoSoA, ReadArchetype, DenseFits, ArchetypeFits
<1>7. soa[t].index[i] + 1 = row /\ ReadSoA(i, t, k) = Cells(t, soa[t].columns, k, soa[t].index[i])
  <2>1. /\ i \in DOMAIN soa[t].index /\ <<soa[t].index[i] + 1, i>> \in RowsOf(soa[t].ids)
    BY <1>3, <1>5 DEF DenseFits, SoAFits
  <2> QED BY <1>1, <1>2, <1>3, <2>1, SameRow DEF ReadSoA, DenseFits, Held
<1>8. DenseIds(t) \in Seq(Numbers) /\ DOMAIN DenseIds(t) = 1..Len(DenseIds(t))
  BY DenseTyped, ElementsOf
<1>9. row \in Nat \ {0} /\ soa[t].index[i] \in Int
  <2>1. row \in 1..Len(DenseIds(t)) /\ Len(DenseIds(t)) \in Nat
    BY <1>8
  <2>2. soa[t].index[i] \in Nat
    BY <1>3, <1>5 DEF DenseFits, SoAFits
  <2> QED BY <2>1, <2>2
<1>10. \A v \in ReadSoA(i, t, k) : RowMatches(soa[t].columns[k], Fields[t][k].size, row, v)
  BY <1>7, <1>9, CellsAreRow
<1> HIDE DEF i
<1>11. \A v \in ReadSoA(i, t, k) \cup ReadAoSoA(i, t, k) \cup ReadArchetype(i, t, k) :
          RowMatches(FieldSpan(t, k), Fields[t][k].size, row, v)
  BY <1>4, <1>6, <1>10
<1> QED BY <1>11 DEF InRow, i

(* The rows of the chunked stores that field_span gives at all. *)
LEMMA OneChunkSpan ==
  ASSUME StoresTyped, NEW t \in TypeIds, DenseFits(t), NEW k \in DOMAIN Fields[t],
         Len(SoAIds(t)) = 0, FieldSpan(t, k) # << >>
  PROVE  /\ t \notin DOMAIN soa
         /\ \/ /\ t \in DOMAIN aosoa /\ Len(aosoa[t].chunks) = 1 /\ Len(AoSoAIds(t)) # 0
               /\ FieldSpan(t, k) = aosoa[t].chunks[1].columns[k]
            \/ /\ t \in DOMAIN archetype /\ Len(archetype[t].chunks) = 1 /\ Len(ArchetypeIds(t)) # 0
               /\ FieldSpan(t, k) = archetype[t].chunks[1].columns[k]
<1>1. FieldSpan(t, k) = BulkFieldData(t, k)
  BY DEF FieldSpan
<1>2. t \notin DOMAIN soa
  <2> SUFFICES ASSUME t \in DOMAIN soa PROVE FALSE
    OBVIOUS
  <2>1. Len(soa[t].ids) = 0 /\ FieldSpan(t, k) = soa[t].columns[k]
    BY <1>1 DEF SoAIds, BulkFieldData
  <2>2. DOMAIN soa[t].columns = DOMAIN Fields[t]
    <3>1. soa[t].columns \in [DOMAIN ColumnsOf(t) -> Data]
      BY DEF StoresTyped, ChunkTyped
    <3>2. ColumnsOf(t) = Fields[t]
      BY DEF ColumnsOf
    <3> QED BY <3>1, <3>2
  <2> QED BY <2>1, <2>2 DEF DenseFits, SoAFits
<1>3. CASE t \in DOMAIN aosoa /\ Len(aosoa[t].chunks) = 1
  <2>1. Len(Concat(aosoa[t].chunks)) # 0
    BY <1>3, FullChunk DEF DenseFits, AoSoAFits, StoresTyped
  <2> QED BY <1>1, <1>2, <1>3, <2>1 DEF BulkFieldData, AoSoAIds
<1>4. CASE ~(t \in DOMAIN aosoa /\ Len(aosoa[t].chunks) = 1)
  <2>1. t \in DOMAIN archetype /\ Len(archetype[t].chunks) = 1
    BY <1>1, <1>2, <1>4 DEF BulkFieldData
  <2>2. Len(Concat(archetype[t].chunks)) # 0
    BY <2>1, FullChunk DEF DenseFits, ArchetypeFits, StoresTyped
  <2> QED BY <1>1, <1>2, <1>4, <2>1, <2>2 DEF BulkFieldData, ArchetypeIds
<1> QED BY <1>2, <1>3, <1>4

(* The rows of a store of one chunk.                                       *)
LEMMA ChunkRow ==
  ASSUME StoresTyped, NEW t \in TypeIds, DenseFits(t), NEW k \in DOMAIN Fields[t],
         NEW row \in DOMAIN DenseIds(t), Len(SoAIds(t)) = 0
  PROVE  InRow(t, k, row)
<1> SUFFICES ASSUME FieldSpan(t, k) # << >> PROVE InRow(t, k, row)
  BY DEF InRow
<1> DEFINE i == DenseIds(t)[row]
           d == DenseIds(t)
<1>1. /\ SoAIds(t) = << >> /\ AoSoAIds(t) \in Seq(Numbers) /\ ArchetypeIds(t) \in Seq(Numbers)
      /\ d \in Seq(Numbers) /\ Cardinality(ToSet(d)) = Len(d)
  <2>1. \A q \in Seq(Numbers) : Len(q) = 0 => q = << >>
    OBVIOUS
  <2> QED BY <2>1, DenseTyped DEF DenseFits, Held
<1>2. /\ t \notin DOMAIN soa
      /\ \/ /\ t \in DOMAIN aosoa /\ Len(aosoa[t].chunks) = 1 /\ Len(AoSoAIds(t)) # 0
            /\ FieldSpan(t, k) = aosoa[t].chunks[1].columns[k]
         \/ /\ t \in DOMAIN archetype /\ Len(archetype[t].chunks) = 1 /\ Len(ArchetypeIds(t)) # 0
            /\ FieldSpan(t, k) = archetype[t].chunks[1].columns[k]
  BY OneChunkSpan
<1>3. ReadSoA(i, t, k) = {}
  BY <1>2 DEF ReadSoA
<1>4. DOMAIN d = 1..Len(d) /\ Len(d) \in Nat /\ row \in Nat \ {0}
  <2>1. DOMAIN d = 1..Len(d) /\ Len(d) \in Nat
    BY <1>1, ElementsOf
  <2> QED BY <2>1
<1>5. i \in ToSet(d)
  BY DEF ToSet
<1>6. \A x : x \notin ToSet(<< >>)
  BY DEF ToSet
<1>7. << >> \o << >> = << >> /\ \A q \in Seq(Numbers) : << >> \o q = q /\ q \o << >> = q
  BY ConcatEmptySeq
<1>8. CASE /\ t \in DOMAIN aosoa /\ Len(aosoa[t].chunks) = 1 /\ Len(AoSoAIds(t)) # 0
           /\ FieldSpan(t, k) = aosoa[t].chunks[1].columns[k]
  <2> DEFINE chunk == aosoa[t].chunks[1]
  <2>1. Len(ArchetypeIds(t)) = 0
    BY <1>8 DEF DenseFits, LayoutFits
  <2>2. ArchetypeIds(t) = << >>
    BY <1>1, <2>1
  <2>3. d = AoSoAIds(t)
    BY <1>1, <1>7, <2>2 DEF DenseIds
  <2>4. AoSoAIds(t) = chunk.ids /\ DOMAIN aosoa[t].chunks = {1}
    BY <1>8, OneChunk DEF AoSoAIds, StoresTyped
  <2>5. ReadArchetype(i, t, k) = {}
    BY <1>6, <2>2 DEF ReadArchetype, DenseFits, ArchetypeFits
  <2>6. ReadAoSoA(i, t, k) = Cells(t, chunk.columns, k, Position(i, chunk.ids))
    <3>1. i \in ToSet(chunk.ids) /\ i \in ToSet(AoSoAIds(t))
      BY <1>5, <2>3, <2>4
    <3>2. {c \in DOMAIN aosoa[t].chunks : i \in ToSet(aosoa[t].chunks[c].ids)} = {1}
      BY <2>4, <3>1
    <3>3. Min({1}) = 1
      BY LeastMember
    <3> QED BY <3>1, <3>2, <3>3 DEF ReadAoSoA
  <2>7. Position(i, chunk.ids) \in Int /\ Position(i, chunk.ids) + 1 = row
    <3>1. /\ Position(i, d) + 1 \in DOMAIN d /\ d[Position(i, d) + 1] = i
          /\ Position(i, d) \in 0..(Len(d) - 1)
      BY <1>1, <1>5, PositionIs
    <3>2. Position(i, d) + 1 = row
      BY <1>1, <3>1, EntriesDiffer
    <3> QED BY <2>3, <2>4, <3>1, <3>2
  <2>8. \A v \in ReadAoSoA(i, t, k) : RowMatches(FieldSpan(t, k), Fields[t][k].size, row, v)
    BY <1>4, <1>8, <2>6, <2>7, CellsAreRow
  <2> HIDE DEF i
  <2>9. \A v \in ReadSoA(i, t, k) \cup ReadAoSoA(i, t, k) \cup ReadArchetype(i, t, k) :
          RowMatches(FieldSpan(t, k), Fields[t][k].size, row, v)
    BY <1>3, <2>5, <2>8
  <2> QED BY <2>9 DEF InRow, i
<1>9. CASE /\ t \in DOMAIN archetype /\ Len(archetype[t].chunks) = 1 /\ Len(ArchetypeIds(t)) # 0
           /\ FieldSpan(t, k) = archetype[t].chunks[1].columns[k]
  <2> DEFINE chunks == archetype[t].chunks
             at == archetype[t].sparse[i]
  <2>1. Len(AoSoAIds(t)) = 0
    BY <1>9 DEF DenseFits, LayoutFits
  <2>2. AoSoAIds(t) = << >>
    BY <1>1, <2>1
  <2>3. d = ArchetypeIds(t)
    BY <1>1, <1>7, <2>2 DEF DenseIds
  <2>4. ArchetypeIds(t) = chunks[1].ids /\ DOMAIN chunks = {1}
    BY <1>9, OneChunk DEF ArchetypeIds, StoresTyped
  <2>5. ReadAoSoA(i, t, k) = {}
    BY <1>6, <2>2 DEF ReadAoSoA
  <2>6. i \in DOMAIN archetype[t].sparse /\ SlotFits(chunks, at, i)
    BY <1>5, <1>9, <2>3 DEF DenseFits, ArchetypeFits
  <2>7. at[1] + 1 = 1 /\ at[2] \in Nat /\ <<at[2] + 1, i>> \in RowsOf(d)
    BY <2>3, <2>4, <2>6 DEF SlotFits
  <2>8. ReadArchetype(i, t, k) = Cells(t, chunks[1].columns, k, at[2])
    BY <1>9, <2>4, <2>6, <2>7 DEF ReadArchetype
  <2>9. at[2] + 1 = row
    BY <1>1, <2>7, SameRow
  <2>10. \A v \in ReadArchetype(i, t, k) : RowMatches(FieldSpan(t, k), Fields[t][k].size, row, v)
    BY <1>4, <1>9, <2>7, <2>8, <2>9, CellsAreRow
  <2> HIDE DEF i
  <2>11. \A v \in ReadSoA(i, t, k) \cup ReadAoSoA(i, t, k) \cup ReadArchetype(i, t, k) :
          RowMatches(FieldSpan(t, k), Fields[t][k].size, row, v)
    BY <1>3, <2>5, <2>10
  <2> QED BY <2>11 DEF InRow, i
<1> QED BY <1>2, <1>8, <1>9

LEMMA SpansMatch == WorldInv => BulkMatches
<1> SUFFICES ASSUME WorldInv, NEW t \in Unmixed, NEW k \in DOMAIN Fields[t],
                    FieldSpan(t, k) # << >>, NEW row \in DOMAIN DenseIds(t),
                    NEW v \in FieldOf(DenseIds(t)[row], k)
             PROVE  RowMatches(FieldSpan(t, k), Fields[t][k].size, row, v)
  BY DEF BulkMatches, RowMatches
<1> DEFINE i == DenseIds(t)[row]
<1>1. OwnPlace(t) /\ t \in TypeIds /\ StoresTyped
  BY DEF WorldInv, PlaceInv, TypeInv, Unmixed
<1>2. i \in Held(t)
  BY DEF Held, ToSet
<1>3. i \notin Identities /\ i \in DOMAIN identityTypes /\ identityTypes[i] = t
  BY <1>1, <1>2 DEF OwnPlace, HeldOnce, Known
<1>4. v \in ReadField(i, t, k)
  BY <1>3 DEF FieldOf
<1>5. v \in ReadSoA(i, t, k) \cup ReadAoSoA(i, t, k) \cup ReadArchetype(i, t, k)
  BY <1>3, <1>4 DEF ReadField
<1>6. t \in registered
  BY DEF FieldSpan
<1>7. InRow(t, k, row)
  BY <1>1, <1>6, SoARow, ChunkRow DEF OwnPlace
<1> QED BY <1>5, <1>7 DEF InRow

(* Where field_span gives a column, each row of it is what field gives of  *)
(* the block in that row (state_view.h).                                   *)
THEOREM BulkAccessMatches == WorldSpec => []BulkMatches
BY WorldInvAlways, SpansMatch, PTL

-----------------------------------------------------------------------------
(* Loads. *)

(* r is what field k of block b is read as where the types known are.      *)
ReadAs(r, b, k, known) ==
    LET f == ColumnsOf(b.type)[k] IN
    /\ b.type \in known /\ k \in DOMAIN Fields[b.type]
    /\ r = {SubSeq(b.data, f.offset + 1, Least(f.offset + f.size, Len(b.data)))}

(* What could be read when the snapshot was taken is in its blocks, if none*)
(* was in a dense store.                                                   *)
ReadsKept(s) ==
  s.stored = {} =>
    /\ DOMAIN s.reads = DOMAIN s.snapshot.blocks
    /\ s.snapshot.mixed # TypeIds =>
         \A i \in DOMAIN s.reads : \A k \in DOMAIN s.reads[i] :
           s.reads[i][k] # {} =>
             ReadAs(s.reads[i][k], s.snapshot.blocks[i], k, s.snapshot.registered)

ReadsInv == \A s \in saved : ReadsKept(s)

LEMMA SaveKeepsReads ==
  ASSUME WorldInv, NEW s, s = [snapshot |-> Snapshot, reads |-> Reads, stored |-> Stored]
  PROVE  ReadsKept(s)
<1> SUFFICES ASSUME Stored = {} PROVE ReadsKept(s)
  BY DEF ReadsKept
<1>1. /\ s.snapshot.blocks = [i \in Persistent |-> blocks[i]] /\ s.snapshot.registered = registered
      /\ s.snapshot.mixed = mixed
      /\ s.reads = [i \in Persistent |-> [k \in DOMAIN Fields[blocks[i].type] |-> FieldOf(i, k)]]
  <2>1. s.reads = [i \in Persistent |-> [k \in DOMAIN Fields[TypeAt(i)] |-> FieldOf(i, k)]]
    BY DEF Reads
  <2>2. \A i \in Persistent : TypeAt(i) = blocks[i].type
    BY DEF TypeAt, Persistent
  <2> QED BY <2>1, <2>2 DEF Snapshot
<1>2. Persistent \subseteq Identities
  BY DEF Persistent
<1>3. ASSUME mixed # TypeIds, NEW i \in Persistent, NEW k \in DOMAIN Fields[blocks[i].type], FieldOf(i, k) # {}
      PROVE  ReadAs(FieldOf(i, k), blocks[i], k, registered)
  <2>1. i \in DOMAIN identityTypes /\ identityTypes[i] \in registered
    BY <1>3 DEF FieldOf
  <2>2. identityTypes[i] = blocks[i].type
    BY <1>2, <1>3, <2>1 DEF WorldInv, PlaceInv, IssuedInv
  <2> QED BY <1>2, <1>3, <2>1, <2>2 DEF FieldOf, ReadField, ReadAs
<1>4. DOMAIN s.reads = Persistent /\ DOMAIN s.snapshot.blocks = Persistent
      /\ \A i \in Persistent : /\ s.snapshot.blocks[i] = blocks[i]
                               /\ DOMAIN s.reads[i] = DOMAIN Fields[blocks[i].type]
                               /\ \A k \in DOMAIN s.reads[i] : s.reads[i][k] = FieldOf(i, k)
  BY <1>1
<1> QED BY <1>1, <1>3, <1>4 DEF ReadsKept

(* The snapshot the host holds changes when it is taken or loaded only.    *)
LEMMA SavedChanges ==
  ASSUME WorldInv, [WorldNext]_worldVars
  PROVE  Save \/ HostLoads \/ saved' = saved
<1>1. CASE StoreAction
  BY <1>1, StoreActionOnly DEF StoreOnly
<1>2. CASE ConvertAction
  BY <1>2, ConvertActionMoves DEF WorldInv
<1>3. CASE (\E t \in TypeIds, l \in NewLayouts : RegisterNamed(t, l)) \/ HostRelates \/ FinishTick
           \/ Restart \/ UNCHANGED worldVars
  BY <1>3 DEF RegisterNamed, HostRelates, FinishTick, Restart, worldVars
<1> QED BY <1>1, <1>2, <1>3 DEF WorldNext, StoreAction, ConvertAction

LEMMA ReadsInvStep ==
  ASSUME WorldInv, ReadsInv, [WorldNext]_worldVars
  PROVE  ReadsInv'
<1>1. CASE saved' = saved
  BY <1>1 DEF ReadsInv, ReadsKept
<1>2. CASE Save
  <2> DEFINE z == [snapshot |-> Snapshot, reads |-> Reads, stored |-> Stored]
  <2>1. saved' = {z} /\ ReadsKept(z)
    BY <1>2, SaveKeepsReads DEF Save
  <2> HIDE DEF z
  <2>2. \A s \in saved' : ReadsKept(s)
    BY <2>1
  <2> QED BY <2>2, ZenonT(30) DEF ReadsInv, ReadsKept
<1>3. CASE HostLoads
  BY <1>3 DEF HostLoads, ReadsInv
<1> QED BY <1>1, <1>2, <1>3, SavedChanges

Restores(s) ==
    /\ Identities' = DOMAIN s.reads
    /\ DOMAIN identityTypes' = DOMAIN s.reads
    /\ s.snapshot.mixed # TypeIds =>
         \A i \in DOMAIN s.reads : \A k \in DOMAIN s.reads[i] :
           s.reads[i][k] \subseteq FieldOf(i, k)'
    /\ \A t \in TypeIds : typeCounts'[t] = Cardinality(Ids(t))'

LEMMA LoadBringsBack ==
  ASSUME ReadsInv, NEW s \in saved, s.stored = {}, Load(s.snapshot)
  PROVE  Restores(s)
<1>1. /\ blocks' = s.snapshot.blocks
      /\ identityTypes' = [i \in DOMAIN s.snapshot.blocks |-> s.snapshot.blocks[i].type]
      /\ typeCounts' = [t \in TypeIds |->
           Cardinality({i \in DOMAIN s.snapshot.blocks : s.snapshot.blocks[i].type = t})]
      /\ registered' = s.snapshot.registered
  BY DEF Load
<1>2. ReadsKept(s)
  BY DEF ReadsInv
<1>3. /\ Identities' = DOMAIN s.snapshot.blocks /\ DOMAIN identityTypes' = DOMAIN s.snapshot.blocks
      /\ DOMAIN s.reads = DOMAIN s.snapshot.blocks
      /\ \A i \in DOMAIN s.reads : identityTypes'[i] = s.snapshot.blocks[i].type
  BY <1>1, <1>2 DEF Identities, ReadsKept
<1>4. ASSUME NEW t \in TypeIds PROVE typeCounts'[t] = Cardinality(Ids(t))'
  <2>1. Ids(t)' = {i \in DOMAIN s.snapshot.blocks : s.snapshot.blocks[i].type = t}
    BY <1>1, <1>3 DEF Ids
  <2> QED BY <1>1, <2>1
<1>5. ASSUME s.snapshot.mixed # TypeIds, NEW i \in DOMAIN s.reads, NEW k \in DOMAIN s.reads[i]
      PROVE  s.reads[i][k] \subseteq FieldOf(i, k)'
  <2> DEFINE t == s.snapshot.blocks[i].type
             d == s.snapshot.blocks[i].data
             f == ColumnsOf(t)[k]
             cells == SubSeq(d, f.offset + 1, Least(f.offset + f.size, Len(d)))
  <2> SUFFICES ASSUME s.reads[i][k] # {} PROVE s.reads[i][k] \subseteq FieldOf(i, k)'
    OBVIOUS
  <2>1. t \in s.snapshot.registered /\ k \in DOMAIN Fields[t] /\ s.reads[i][k] = {cells}
    <3>1. ReadAs(s.reads[i][k], s.snapshot.blocks[i], k, s.snapshot.registered)
      BY <1>2, <1>5 DEF ReadsKept
    <3> DEFINE b == s.snapshot.blocks[i]
               r == s.reads[i][k]
               known == s.snapshot.registered
               g == ColumnsOf(b.type)[k]
               read == SubSeq(b.data, g.offset + 1, Least(g.offset + g.size, Len(b.data)))
    <3>2. ReadAs(r, b, k, known)
      BY <3>1
    <3> HIDE DEF b, r, known
    <3>3. b.type \in known /\ k \in DOMAIN Fields[b.type] /\ r = {read}
      BY <3>2 DEF ReadAs
    <3> QED BY <3>3 DEF b, r, known
  <2>2. FieldOf(i, k)' = ReadField(i, t, k)'
    BY <1>1, <1>3, <2>1 DEF FieldOf
  <2>3. ReadField(i, t, k)' = {cells}
    BY <1>1, <1>3 DEF ReadField
  <2> QED BY <2>1, <2>2, <2>3
<1> QED BY <1>3, <1>4, <1>5 DEF Restores

LEMMA ReadsInvAlways == WorldSpec => [](WorldInv /\ ReadsInv)
<1>1. WorldInit => ReadsInv
  BY DEF WorldInit, ReadsInv
<1>2. WorldInv /\ ReadsInv /\ [WorldNext]_worldVars => ReadsInv'
  BY ReadsInvStep
<1> QED BY <1>1, <1>2, WorldInvAlways, PTL DEF WorldSpec

(* Loading a snapshot, in this runtime or in a new one, that was saved     *)
(* while no block was in a dense store brings back the blocks that the     *)
(* host had and that are not ephemeral, and nothing else, counts them, and *)
(* leaves what could be read of each as it was (Runtime::save,             *)
(* Runtime::load).  Of other snapshots, for which SnapshotIsWhole fails,    *)
(* and of the stores and relationships that a load leaves in place this    *)
(* says nothing.                                                           *)
THEOREM LoadsRestore == WorldSpec => LoadRestores
<1>1. WorldInv /\ ReadsInv /\ [WorldNext]_worldVars =>
        [\A s \in saved : saved' = {} /\ s.stored = {} => Restores(s)]_worldVars
  <2> SUFFICES ASSUME WorldInv, ReadsInv, [WorldNext]_worldVars, NEW s \in saved, saved' = {}, s.stored = {}
               PROVE  Restores(s)
    OBVIOUS
  <2>1. HostLoads
    <3>1. ~Save
      BY DEF Save
    <3> QED BY <3>1, SavedChanges
  <2>2. saved = {s}
    BY DEF WorldInv, TypeInv, SavedTyped
  <2>3. Load(s.snapshot)
    BY <2>1, <2>2 DEF HostLoads
  <2> QED BY <2>3, LoadBringsBack
<1>2. [\A s \in saved : saved' = {} /\ s.stored = {} => Restores(s)]_worldVars =>
      [\A s \in saved : saved' = {} /\ s.stored = {} =>
         /\ Identities' = DOMAIN s.reads
         /\ DOMAIN identityTypes' = DOMAIN s.reads
         /\ s.snapshot.mixed # TypeIds =>
              \A i \in DOMAIN s.reads : \A k \in DOMAIN s.reads[i] :
                s.reads[i][k] \subseteq FieldOf(i, k)'
         /\ \A t \in TypeIds : typeCounts'[t] = Cardinality(Ids(t))']_worldVars
  BY DEF Restores
<1> QED BY <1>1, <1>2, ReadsInvAlways, PTL DEF WorldSpec, LoadRestores

-----------------------------------------------------------------------------
(* What the columns hold.                                                  *)

(* Cells (row - 1) * size + 1 .. row * size of a column are bytes.         *)
RowHolds(column, row, size, bytes) ==
    /\ (row - 1) * size + size <= Len(column)
    /\ \A j \in 1..size : column[(row - 1) * size + j] = bytes[j]

(* A copy changes the cells it is made to, and none before them.           *)
LEMMA StoreHolds ==
  ASSUME NEW column \in Data, NEW pos \in Nat, NEW bytes \in Data
  PROVE  LET new == Store(column, pos, bytes) IN
         /\ Len(column) <= Len(new) /\ pos + Len(bytes) <= Len(new)
         /\ \A j \in 1..Len(bytes) : new[pos + j] = bytes[j]
         /\ \A m \in 1..Len(column) : m <= pos => new[m] = column[m]
<1> DEFINE end == pos + Len(bytes)
           wide == IF Len(column) < end THEN Resized(column, end) ELSE column
           new == Store(column, pos, bytes)
<1>1. Len(bytes) \in Nat /\ Len(column) \in Nat /\ DOMAIN column = 1..Len(column)
  BY DEF Data
<1>2. end \in Nat /\ pos <= end /\ Len(bytes) = end - pos
  BY <1>1
<1> HIDE DEF end
<1>3. DOMAIN wide = 1..Len(wide) /\ Len(wide) \in Nat /\ Len(column) <= Len(wide) /\ end <= Len(wide)
      /\ \A m \in 1..Len(column) : wide[m] = column[m]
  <2>1. CASE Len(column) < end
    <3>1. wide = [k \in 1..end |-> IF k <= Len(column) THEN column[k] ELSE Blank]
      BY <2>1 DEF Resized
    <3> HIDE DEF wide
    <3>2. DOMAIN wide = 1..end /\ Len(wide) = end
      <4>1. wide \in Seq({wide[k] : k \in 1..end})
        BY <1>2, <3>1
      <4> QED BY <1>2, <3>1, <4>1
    <3> QED BY <1>1, <1>2, <2>1, <3>1, <3>2
  <2>2. CASE ~(Len(column) < end)
    BY <1>1, <1>2, <2>2
  <2> QED BY <2>1, <2>2
<1> HIDE DEF wide
<1>4. new = [k \in 1..Len(wide) |-> IF k \in (pos + 1)..end THEN bytes[k - pos] ELSE wide[k]]
  BY <1>3 DEF Store, wide, end
<1>5. Len(new) = Len(wide)
  <2>1. new \in Seq({new[k] : k \in 1..Len(wide)})
    BY <1>3, <1>4
  <2> QED BY <1>3, <1>4, <2>1
<1> HIDE DEF new
<1>6. ASSUME NEW j \in 1..Len(bytes) PROVE new[pos + j] = bytes[j]
  <2>1. pos + j \in (pos + 1)..end /\ pos + j \in 1..Len(wide) /\ (pos + j) - pos = j
    BY <1>1, <1>2, <1>3
  <2> QED BY <1>4, <2>1
<1>7. ASSUME NEW m \in 1..Len(column), m <= pos PROVE new[m] = column[m]
  <2>1. m \in 1..Len(wide) /\ m \notin (pos + 1)..end
    BY <1>1, <1>3, <1>7
  <2> QED BY <1>3, <1>4, <2>1
<1> QED BY <1>1, <1>2, <1>3, <1>5, <1>6, <1>7 DEF new

LEMMA FillHolds ==
  ASSUME NEW column \in Data, NEW f, f.size \in Nat, NEW ids, Len(ids) \in Nat, NEW junk,
         \A n \in 1..Len(ids) :
           FieldBytes(ids[n], f, junk) \in Data /\ Len(FieldBytes(ids[n], f, junk)) <= f.size
  PROVE  \A p \in 1..Len(ids) :
           Len(FieldBytes(ids[p], f, junk)) = f.size =>
             RowHolds(Fill(column, f, ids, junk), p, f.size, FieldBytes(ids[p], f, junk))
<1> DEFINE g == Filling(column, f, ids, junk)
           bytes(n) == FieldBytes(ids[n], f, junk)
           size == f.size
           Rows(n) == \A p \in 1..n : Len(bytes(p)) = size => RowHolds(g[n], p, size, bytes(p))
           S == {n \in Nat : n <= Len(ids) => g[n] \in Data /\ Rows(n)}
<1>1. g = [n \in 0..Len(ids) |->
        IF n = 0 THEN column ELSE Store(g[n - 1], (n - 1) * size, bytes(n))]
  BY FillingExists
<1>2. \A n \in 1..Len(ids) : bytes(n) \in Data /\ Len(bytes(n)) <= size
  OBVIOUS
<1>3. size \in Nat
  OBVIOUS
<1> HIDE DEF g, bytes, size
<1>4. 0 \in S
  BY <1>1
<1>5. ASSUME NEW n \in Nat, n \in S PROVE n + 1 \in S
  <2> SUFFICES ASSUME n + 1 <= Len(ids) PROVE g[n + 1] \in Data /\ Rows(n + 1)
    OBVIOUS
  <2>1. n + 1 \in 0..Len(ids) /\ n + 1 \in 1..Len(ids) /\ n + 1 # 0 /\ (n + 1) - 1 = n
    OBVIOUS
  <2> DEFINE pos == n * size
             new == g[n + 1]
             old == g[n]
  <2>2. new = Store(old, pos, bytes(n + 1))
    <3>1. g[n + 1] = Store(g[(n + 1) - 1], ((n + 1) - 1) * size, bytes(n + 1))
      BY <1>1, <2>1
    <3> QED BY <2>1, <3>1
  <2>3. bytes(n + 1) \in Data /\ pos \in Nat /\ old \in Data /\ Rows(n)
    BY <1>2, <1>3, <1>5, <2>1, TimesGrows
  <2> HIDE DEF Rows
  <2>4. new \in Data
    BY <2>2, <2>3, StoreTyped
  <2>5. /\ Len(old) <= Len(new) /\ pos + Len(bytes(n + 1)) <= Len(new)
        /\ \A j \in 1..Len(bytes(n + 1)) : new[pos + j] = bytes(n + 1)[j]
        /\ \A m \in 1..Len(old) : m <= pos => new[m] = old[m]
    <3> DEFINE y == bytes(n + 1)
    <3>1. y \in Data /\ new = Store(old, pos, y)
      BY <2>2, <2>3
    <3> HIDE DEF y, new, old, pos
    <3>2. LET z == Store(old, pos, y) IN
          /\ Len(old) <= Len(z) /\ pos + Len(y) <= Len(z)
          /\ \A j \in 1..Len(y) : z[pos + j] = y[j]
          /\ \A m \in 1..Len(old) : m <= pos => z[m] = old[m]
      BY <2>3, <3>1, StoreHolds, ZenonT(30)
    <3> QED BY <3>1, <3>2 DEF y
  <2>6. Len(old) \in Nat /\ Len(new) \in Nat
    BY <2>3, <2>4 DEF Data
  <2>7. ASSUME NEW p \in 1..(n + 1), Len(bytes(p)) = size PROVE RowHolds(new, p, size, bytes(p))
    <3>1. CASE p = n + 1
      <4>1. (p - 1) * size = pos
        BY <3>1
      <4> HIDE DEF pos, new
      <4> QED BY <2>5, <2>7, <3>1, <4>1 DEF RowHolds
    <3>2. CASE p \in 1..n
      <4> DEFINE at == (p - 1) * size
      <4>1. at + size <= pos /\ at \in Nat
        <5>1. p * size <= n * size /\ p * size \in Nat
          BY <1>3, <3>2, TimesGrows
        <5>2. p - 1 \in Nat /\ p - 1 <= p - 1 /\ (p - 1) + 1 = p
          BY <3>2
        <5> DEFINE q == p - 1
        <5>3. q * size \in Nat /\ (q + 1) * size = q * size + size
          <6> HIDE DEF q
          <6>1. q \in Nat
            BY <5>2 DEF q
          <6> QED BY <1>3, <6>1, TimesGrows
        <5> QED BY <5>1, <5>2, <5>3
      <4>2. RowHolds(old, p, size, bytes(p))
        BY <2>3, <2>7, <3>2 DEF Rows
      <4>3. at + size <= Len(old) /\ \A j \in 1..size : old[at + j] = bytes(p)[j]
        BY <4>2 DEF RowHolds
      <4> HIDE DEF at, old, new, pos
      <4>4. at + size <= Len(new)
        BY <1>3, <2>5, <2>6, <4>1, <4>3
      <4>5. ASSUME NEW j \in 1..size PROVE new[at + j] = bytes(p)[j]
        <5>1. at + j \in 1..Len(old) /\ at + j <= pos
          BY <1>3, <2>3, <2>6, <4>1, <4>3
        <5> QED BY <2>5, <4>3, <5>1
      <4> QED BY <4>4, <4>5 DEF RowHolds, at
    <3> QED BY <2>7, <3>1, <3>2
  <2> QED BY <2>4, <2>7 DEF Rows
<1> HIDE DEF S
<1>6. Len(ids) \in S
  BY <1>4, <1>5, NumberInduction
<1>7. Rows(Len(ids))
  BY <1>6 DEF S
<1>8. g[Len(ids)] = Fill(column, f, ids, junk)
  BY DEF Fill, g
<1> QED BY <1>7, <1>8 DEF bytes, size

(* The cells of field k that the block map holds of block i.               *)
MapCells(i, t, k) ==
    LET f == ColumnsOf(t)[k]
        d == blocks[i].data IN
    SubSeq(d, f.offset + 1, Least(f.offset + f.size, Len(d)))

LEMMA FieldIs ==
  ASSUME NEW t \in TypeIds, NEW k \in DOMAIN Fields[t]
  PROVE  /\ ColumnsOf(t) = Fields[t] /\ k \in DOMAIN ColumnsOf(t)
         /\ Fields[t][k].offset \in Nat /\ Fields[t][k].size \in Nat \ {0}
         /\ Fields[t][k].offset + Fields[t][k].size <= SizeOf[t]
<1>1. ColumnsOf(t) = Fields[t]
  BY DEF ColumnsOf
<1> DEFINE F == [offset : Nat, size : Nat \ {0}]
           fields == Fields[t]
<1>2. fields \in Seq(F) /\ k \in DOMAIN fields
  BY FieldsAssumption
<1> HIDE DEF F, fields
<1>3. fields[k] \in F
  BY <1>2, ElementsOf
<1>4. fields[k].offset \in Nat /\ fields[k].size \in Nat \ {0}
  BY <1>3 DEF F
<1> QED BY <1>1, <1>4, FieldsAssumption DEF fields


LEMMA BytesFit ==
  ASSUME BMTypeOK, NEW t \in TypeIds, NEW i \in Ids(t), NEW k \in DOMAIN Fields[t],
         NEW junk \in [Beyond(t) -> Values]
  PROVE  LET f == ColumnsOf(t)[k]
             bytes == FieldBytes(i, f, junk) IN
         /\ bytes \in Data /\ Len(bytes) <= f.size
         /\ Len(MapCells(i, t, k)) = f.size => bytes = MapCells(i, t, k)
<1> DEFINE f == ColumnsOf(t)[k]
           d == blocks[i].data
           bytes == FieldBytes(i, f, junk)
           c == CopySize(f, Len(d))
           e == Least(f.offset + f.size, Len(d))
<1>1. f.offset \in Nat /\ f.size \in Nat \ {0} /\ k \in DOMAIN ColumnsOf(t)
  BY FieldIs
<1>2. d \in Data /\ Len(d) \in Nat /\ \A n \in 1..Len(d) : d[n] \in Values
  BY DEF BMTypeOK, Ids, Data
<1>3. bytes \in Data
  BY <1>1, FieldBytesTyped
<1>4. bytes = [n \in 1..c |->
        IF f.offset + n <= Len(d) THEN d[f.offset + n] ELSE junk[<<i, f.offset + n>>]]
  BY DEF FieldBytes
<1>5. MapCells(i, t, k) = SubSeq(d, f.offset + 1, e)
  BY DEF MapCells
<1> HIDE DEF f, d, bytes
<1>6. c \in Nat /\ c <= f.size
  BY <1>1, <1>2 DEF CopySize, Least
<1>7. Len(bytes) = c
  BY <1>3, <1>4, <1>6 DEF Data
<1>8. ASSUME Len(MapCells(i, t, k)) = f.size PROVE bytes = MapCells(i, t, k)
  <2>1. e \in Nat /\ f.offset + 1 \in Nat /\ e <= Len(d)
    BY <1>1, <1>2 DEF Least
  <2>2. /\ SubSeq(d, f.offset + 1, e) \in Seq(Values)
        /\ Len(SubSeq(d, f.offset + 1, e)) = IF f.offset + 1 <= e THEN e - (f.offset + 1) + 1 ELSE 0
        /\ \A n \in 1..(e - (f.offset + 1) + 1) :
             SubSeq(d, f.offset + 1, e)[n] = d[f.offset + 1 + n - 1]
    <3> DEFINE m == f.offset + 1
    <3>1. m \in Int /\ e \in Int /\ \A n \in m..e : d[n] \in Values
      BY <1>1, <1>2, <2>1
    <3> HIDE DEF m, e
    <3>2. /\ SubSeq(d, m, e) \in Seq(Values)
          /\ Len(SubSeq(d, m, e)) = IF m <= e THEN e - m + 1 ELSE 0
          /\ \A n \in 1..(e - m + 1) : SubSeq(d, m, e)[n] = d[m + n - 1]
      BY <3>1, SubSeqProperties
    <3> QED BY <3>2 DEF m
  <2>3. e = f.offset + f.size /\ c = f.size
    <3>1. Len(SubSeq(d, f.offset + 1, e)) = f.size
      BY <1>5, <1>8
    <3> HIDE DEF e
    <3>2. e = f.offset + f.size
      BY <1>1, <2>1, <2>2, <3>1
    <3>3. c = f.size
      BY <1>1, <1>2, <2>1, <3>2 DEF CopySize, Least
    <3> QED BY <3>2, <3>3
  <2> HIDE DEF e, c
  <2>4. ASSUME NEW n \in 1..f.size PROVE bytes[n] = SubSeq(d, f.offset + 1, e)[n]
    <3>1. f.offset + n <= Len(d) /\ n \in 1..(e - (f.offset + 1) + 1) /\ f.offset + 1 + n - 1 = f.offset + n
      <4> DEFINE o == f.offset
                 z == f.size
                 l == Len(d)
      <4>1. o \in Nat /\ z \in Nat /\ l \in Nat /\ n \in 1..z /\ e = o + z /\ e <= l
        BY <1>1, <1>2, <2>1, <2>3
      <4> HIDE DEF o, z, l
      <4>2. o + n <= l /\ n \in 1..(e - (o + 1) + 1) /\ o + 1 + n - 1 = o + n
        BY <4>1
      <4> QED BY <4>2 DEF o, l
    <3>2. bytes[n] = d[f.offset + n]
      BY <1>4, <2>3, <3>1
    <3> QED BY <2>2, <3>1, <3>2
  <2> DEFINE s == SubSeq(d, f.offset + 1, e)
  <2>5. s \in Seq(Values) /\ bytes \in Seq(Values) /\ Len(s) = Len(bytes) /\ Len(s) = f.size
        /\ \A n \in 1..f.size : bytes[n] = s[n]
    BY <1>3, <1>5, <1>7, <1>8, <2>2, <2>3, <2>4 DEF Data
  <2> HIDE DEF s
  <2>6. bytes = s
    <3> DEFINE m == f.size
    <3>1. /\ s \in Seq(Values) /\ bytes \in Seq(Values) /\ Len(s) = m /\ Len(bytes) = m
          /\ \A n \in 1..m : bytes[n] = s[n]
      BY <2>5
    <3> HIDE DEF m
    <3> QED BY <3>1, SeqEqual
  <2> QED BY <1>5, <2>6 DEF s
<1> QED BY <1>3, <1>6, <1>7, <1>8 DEF f, bytes

(* A row that holds v is read as v. *)
LEMMA RowRead ==
  ASSUME NEW t \in TypeIds, NEW k \in DOMAIN Fields[t], NEW columns, columns[k] \in Data,
         NEW p \in Nat \ {0}, NEW v \in Data, Len(v) = Fields[t][k].size,
         RowHolds(columns[k], p, Fields[t][k].size, v)
  PROVE  Cells(t, columns, k, p - 1) = {v}
<1> DEFINE size == Fields[t][k].size
           column == columns[k]
           q == p - 1
           m == q * size
<1>1. size \in Nat \ {0} /\ ColumnsOf(t) = Fields[t]
  BY FieldIs
<1>2. q \in Nat
  OBVIOUS
<1> HIDE DEF size, q
<1>3. m \in Nat /\ (q + 1) * size = m + size
  BY <1>1, <1>2, TimesGrows
<1> HIDE DEF m
<1>4. m + size <= Len(column) /\ \A j \in 1..size : column[m + j] = v[j]
  BY DEF RowHolds, size, m, q
<1> HIDE DEF column
<1>5. column \in Data /\ Len(column) \in Nat /\ \A n \in 1..Len(column) : column[n] \in Values
  BY DEF column, Data
<1> DEFINE s == SubSeq(column, m + 1, m + size)
<1>6. s \in Seq(Values) /\ Len(s) = size /\ \A j \in 1..size : s[j] = column[m + j]
  <2> DEFINE a == m + 1
             b == m + size
  <2>1. a \in Int /\ b \in Int /\ a <= b /\ b - a + 1 = size /\ \A n \in a..b : column[n] \in Values
    BY <1>1, <1>3, <1>4, <1>5
  <2>2. \A j \in 1..size : a + j - 1 = m + j
    BY <1>1, <1>3
  <2> HIDE DEF a, b
  <2>3. /\ SubSeq(column, a, b) \in Seq(Values)
        /\ Len(SubSeq(column, a, b)) = IF a <= b THEN b - a + 1 ELSE 0
        /\ \A j \in 1..(b - a + 1) : SubSeq(column, a, b)[j] = column[a + j - 1]
    BY <2>1, SubSeqProperties
  <2>4. SubSeq(column, a, b) \in Seq(Values) /\ Len(SubSeq(column, a, b)) = size
        /\ \A j \in 1..size : SubSeq(column, a, b)[j] = column[m + j]
    BY <2>1, <2>2, <2>3
  <2> QED BY <2>4 DEF a, b
<1>7. v \in Seq(Values) /\ Len(v) = size
  BY DEF Data, size
<1>8. s = v
  <2> HIDE DEF s
  <2> QED BY <1>1, <1>4, <1>6, <1>7
<1>9. Cells(t, columns, k, q) = {s}
  <2> DEFINE f == ColumnsOf(t)[k]
  <2>1. f.size = size
    BY <1>1 DEF size
  <2>2. Cells(t, columns, k, q) = IF (q + 1) * f.size <= Len(columns[k])
                                  THEN {SubSeq(columns[k], q * f.size + 1, (q + 1) * f.size)} ELSE {}
    BY DEF Cells
  <2> HIDE DEF f
  <2>3. (q + 1) * f.size = m + size /\ q * f.size = m
    BY <1>3, <2>1 DEF m
  <2>4. Cells(t, columns, k, q) = IF m + size <= Len(columns[k])
                                  THEN {SubSeq(columns[k], m + 1, m + size)} ELSE {}
    BY <2>2, <2>3
  <2> QED BY <1>4, <2>4 DEF column
<1> QED BY <1>8, <1>9 DEF q

(* A field that was whole in the map is read from the column it was moved  *)
(* to.                                                                     *)
LEMMA MovedRead ==
  ASSUME BMTypeOK, NEW t \in TypeIds, NEW ids \in Seq(Ids(t)), NEW k \in DOMAIN Fields[t],
         NEW junk \in [Beyond(t) -> Values], NEW column \in Data, NEW columns,
         columns[k] = Fill(column, ColumnsOf(t)[k], ids, junk),
         NEW q \in Int, q + 1 \in DOMAIN ids,
         Len(MapCells(ids[q + 1], t, k)) = Fields[t][k].size
  PROVE  Cells(t, columns, k, q) = {MapCells(ids[q + 1], t, k)}
<1> DEFINE f == ColumnsOf(t)[k]
           p == q + 1
           v == MapCells(ids[p], t, k)
<1>1. f = Fields[t][k] /\ f.size \in Nat
  BY FieldIs
<1>2. Len(ids) \in Nat /\ DOMAIN ids = 1..Len(ids) /\ \A n \in 1..Len(ids) : ids[n] \in Ids(t)
  BY ElementsOf
<1>3. \A n \in 1..Len(ids) : /\ FieldBytes(ids[n], f, junk) \in Data
                             /\ Len(FieldBytes(ids[n], f, junk)) <= f.size
  BY <1>2, BytesFit
<1>4. p \in 1..Len(ids) /\ p \in Nat \ {0} /\ p - 1 = q
  BY <1>2
<1>5. FieldBytes(ids[p], f, junk) = v
  <2>1. ids[p] \in Ids(t) /\ Len(v) = f.size
    BY <1>1, <1>2, <1>4
  <2> HIDE DEF p
  <2> QED BY <2>1, BytesFit
<1>6. columns[k] \in Data
  <2> HIDE DEF f
  <2>1. Fill(column, f, ids, junk) \in Data
    BY <1>1, <1>2, <1>3, FillTyped
  <2> QED BY <2>1 DEF f
<1>7. v \in Data /\ Len(v) = f.size
  BY <1>1, <1>3, <1>4, <1>5
<1> HIDE DEF f, p, v
<1>8. RowHolds(Fill(column, f, ids, junk), p, f.size, v)
  BY <1>1, <1>2, <1>3, <1>4, <1>5, <1>7, FillHolds
<1>9. RowHolds(columns[k], p, Fields[t][k].size, v)
  BY <1>1, <1>8 DEF f
<1>10. Cells(t, columns, k, p - 1) = {v}
  BY <1>1, <1>4, <1>6, <1>7, <1>9, RowRead
<1> QED BY <1>4, <1>10 DEF p, v

(* Block i is in row p of chunk c. *)
RowOf(chunks, c, p, i) ==
    c \in DOMAIN chunks /\ p \in DOMAIN chunks[c].ids /\ chunks[c].ids[p] = i

LEMMA RowsUnique ==
  ASSUME NEW chunks, HoldNumbers(chunks), Cardinality(ToSet(Concat(chunks))) = Len(Concat(chunks)),
         NEW c, NEW p, NEW i, RowOf(chunks, c, p, i)
  PROVE  /\ {d \in DOMAIN chunks : i \in ToSet(chunks[d].ids)} = {c}
         /\ {n \in DOMAIN chunks[c].ids : chunks[c].ids[n] = i} = {p}
<1> DEFINE lists == IdsOf(chunks)
<1>1. lists \in Seq(Seq(Numbers)) /\ Len(lists) = Len(chunks) /\ Concat(chunks) = FlattenSeq(lists)
  BY IdsOfTyped DEF Concat, IdsOf
<1>2. /\ DOMAIN chunks = 1..Len(chunks)
      /\ \A d \in DOMAIN chunks : lists[d] = chunks[d].ids
  BY DEF IdsOf, HoldNumbers
<1> HIDE DEF lists
<1>3. Concat(chunks) \in Seq(Numbers)
  BY ConcatHolds
<1>4. Distinct(FlattenSeq(lists))
  BY <1>1, <1>3, EntriesDiffer DEF Distinct
<1>5. Separate(lists, Len(lists))
  BY <1>1, <1>4, JoinDistinct
<1>6. /\ Distinct(chunks[c].ids)
      /\ \A d \in DOMAIN chunks : d # c => ToSet(chunks[d].ids) \cap ToSet(chunks[c].ids) = {}
  BY <1>1, <1>2, <1>5 DEF Separate, RowOf
<1>7. i \in ToSet(chunks[c].ids)
  BY DEF RowOf, ToSet
<1>8. {d \in DOMAIN chunks : i \in ToSet(chunks[d].ids)} = {c}
  BY <1>6, <1>7 DEF RowOf
<1>9. {n \in DOMAIN chunks[c].ids : chunks[c].ids[n] = i} = {p}
  BY <1>6 DEF RowOf, Distinct
<1> QED BY <1>8, <1>9

LEMMA DenseChunksAre ==
  ASSUME StoresTyped, LayoutsTyped, NEW t \in TypeIds, DenseFits(t)
  PROVE  /\ HoldNumbers(DenseChunks(t)) /\ \A c \in DOMAIN DenseChunks(t) : ChunkTyped(t, DenseChunks(t)[c])
         /\ Concat(DenseChunks(t)) = DenseIds(t)
<1> DEFINE chunks == DenseChunks(t)
           Good(list, ids) == /\ HoldNumbers(list) /\ \A c \in DOMAIN list : ChunkTyped(t, list[c])
                              /\ Concat(list) = ids
<1>1. /\ SoAIds(t) \in Seq(Numbers) /\ AoSoAIds(t) \in Seq(Numbers) /\ ArchetypeIds(t) \in Seq(Numbers)
      /\ \A q \in Seq(Numbers) : (Len(q) = 0 => q = << >>) /\ << >> \o q = q /\ q \o << >> = q
  BY DenseTyped, ConcatEmptySeq
<1>2. /\ layout[t] # "SoA" => SoAIds(t) = << >>
      /\ layout[t] # "AoSoA" => AoSoAIds(t) = << >>
      /\ layout[t] # "Archetype" => ArchetypeIds(t) = << >>
  BY <1>1 DEF DenseFits, LayoutFits
<1>3. << >> \o << >> = << >>
  OBVIOUS
<1>4. DenseIds(t) = (SoAIds(t) \o AoSoAIds(t)) \o ArchetypeIds(t)
  BY DEF DenseIds
<1>5. Good(<< >>, << >>)
  BY ConcatOfFew DEF HoldNumbers
<1>6. ASSUME t \in DOMAIN soa PROVE Good(<<soa[t]>>, SoAIds(t))
  <2>1. ChunkTyped(t, soa[t]) /\ soa[t].ids \in Seq(Numbers)
    BY <1>6 DEF StoresTyped, ChunkTyped
  <2>2. DOMAIN <<soa[t]>> = 1..1 /\ Len(<<soa[t]>>) = 1 /\ <<soa[t]>>[1] = soa[t]
    OBVIOUS
  <2>3. Concat(<<soa[t]>>) = soa[t].ids
    BY <2>1, ConcatOfFew
  <2> QED BY <1>6, <2>1, <2>2, <2>3 DEF HoldNumbers, SoAIds
<1>7. ASSUME t \in DOMAIN aosoa PROVE Good(aosoa[t].chunks, AoSoAIds(t))
  BY <1>7, ChunksHoldNumbers DEF StoresTyped, AoSoAIds
<1>8. ASSUME t \in DOMAIN archetype PROVE Good(archetype[t].chunks, ArchetypeIds(t))
  BY <1>8, ChunksHoldNumbers DEF StoresTyped, ArchetypeIds
<1> HIDE DEF Good
<1>9. Good(DenseChunks(t), DenseIds(t))
  <2>1. CASE layout[t] = "SoA"
    <3>1. DenseIds(t) = SoAIds(t)
      BY <1>1, <1>2, <1>4, <2>1
    <3>2. CASE t \in DOMAIN soa
      BY <1>6, <2>1, <3>1, <3>2 DEF DenseChunks
    <3>3. CASE t \notin DOMAIN soa
      BY <1>5, <2>1, <3>1, <3>3 DEF DenseChunks, SoAIds
    <3> QED BY <3>2, <3>3
  <2>2. CASE layout[t] = "AoSoA"
    <3>1. DenseIds(t) = AoSoAIds(t)
      BY <1>1, <1>2, <1>4, <2>2
    <3>2. CASE t \in DOMAIN aosoa
      BY <1>7, <2>2, <3>1, <3>2 DEF DenseChunks
    <3>3. CASE t \notin DOMAIN aosoa
      BY <1>5, <2>2, <3>1, <3>3 DEF DenseChunks, AoSoAIds
    <3> QED BY <3>2, <3>3
  <2>3. CASE layout[t] = "Archetype"
    <3>1. DenseIds(t) = ArchetypeIds(t)
      BY <1>1, <1>2, <1>3, <1>4, <2>3
    <3>2. CASE t \in DOMAIN archetype
      BY <1>8, <2>3, <3>1, <3>2 DEF DenseChunks
    <3>3. CASE t \notin DOMAIN archetype
      BY <1>5, <2>3, <3>1, <3>3 DEF DenseChunks, ArchetypeIds
    <3> QED BY <3>2, <3>3
  <2>4. CASE layout[t] \notin {"SoA", "AoSoA", "Archetype"}
    BY <1>2, <1>3, <1>4, <1>5, <2>4 DEF DenseChunks
  <2> QED BY <2>1, <2>2, <2>3, <2>4
<1> QED BY <1>9 DEF Good

(* A block outside the map is read from its row.                           *)
LEMMA DenseRead ==
  ASSUME StoresTyped, LayoutsTyped, NEW t \in TypeIds, DenseFits(t), NEW k \in DOMAIN Fields[t],
         NEW c, NEW p, NEW i, i \notin Identities, RowOf(DenseChunks(t), c, p, i)
  PROVE  ReadField(i, t, k) = Cells(t, DenseChunks(t)[c].columns, k, p - 1)
<1> DEFINE chunks == DenseChunks(t)
           cells == Cells(t, chunks[c].columns, k, p - 1)
<1>1. HoldNumbers(chunks) /\ Concat(chunks) = DenseIds(t) /\ Cardinality(ToSet(DenseIds(t))) = Len(DenseIds(t))
  BY DenseChunksAre DEF DenseFits, Held
<1>2. /\ {d \in DOMAIN chunks : i \in ToSet(chunks[d].ids)} = {c}
      /\ {n \in DOMAIN chunks[c].ids : chunks[c].ids[n] = i} = {p}
  <2> HIDE DEF chunks
  <2> QED BY <1>1, RowsUnique DEF chunks
<1>3. c \in DOMAIN chunks /\ p \in DOMAIN chunks[c].ids /\ chunks[c].ids[p] = i
  BY DEF RowOf
<1>4. chunks[c].ids \in Seq(Numbers) /\ p \in Nat
  <2>1. chunks[c].ids \in Seq(Numbers)
    BY <1>1, <1>3 DEF HoldNumbers
  <2> DEFINE ids == chunks[c].ids
  <2> HIDE DEF ids
  <2>2. ids \in Seq(Numbers) /\ p \in DOMAIN ids
    BY <1>3, <2>1 DEF ids
  <2>3. p \in 1..Len(ids) /\ Len(ids) \in Nat
    BY <2>2, ElementsOf
  <2> QED BY <2>1, <2>3
<1>5. i \in ToSet(chunks[c].ids) /\ i \in ToSet(DenseIds(t))
  <2>1. i \in ToSet(chunks[c].ids)
    BY <1>3 DEF ToSet
  <2>2. ToSet(Concat(chunks)) = UNION {ToSet(chunks[d].ids) : d \in DOMAIN chunks}
    BY <1>1, ConcatHolds
  <2> QED BY <1>1, <1>3, <2>1, <2>2
<1>6. ReadField(i, t, k) = IF ReadSoA(i, t, k) # {} THEN ReadSoA(i, t, k)
                           ELSE IF ReadAoSoA(i, t, k) # {} THEN ReadAoSoA(i, t, k)
                           ELSE ReadArchetype(i, t, k)
  BY DEF ReadField
<1>7. /\ SoAIds(t) \in Seq(Numbers) /\ AoSoAIds(t) \in Seq(Numbers) /\ ArchetypeIds(t) \in Seq(Numbers)
      /\ \A q \in Seq(Numbers) : Len(q) = 0 => ToSet(q) = {}
  <2>1. \A q \in Seq(Numbers) : Len(q) = 0 => ToSet(q) = {}
    BY DEF ToSet
  <2> QED BY <2>1, DenseTyped
<1>8. layout[t] # "SoA" => ReadSoA(i, t, k) = {}
  <2> SUFFICES ASSUME layout[t] # "SoA", t \in DOMAIN soa PROVE i \notin DOMAIN soa[t].index
    BY DEF ReadSoA
  <2>1. ToSet(soa[t].ids) = {}
    BY <1>7 DEF SoAIds, DenseFits, LayoutFits
  <2> QED BY <2>1 DEF DenseFits, SoAFits
<1>9. layout[t] # "AoSoA" => ReadAoSoA(i, t, k) = {}
  BY <1>7 DEF DenseFits, LayoutFits, ReadAoSoA
<1>10. layout[t] # "Archetype" => ReadArchetype(i, t, k) = {}
  BY <1>7 DEF DenseFits, LayoutFits, ReadArchetype, ArchetypeFits
<1>11. CASE layout[t] = "SoA" /\ t \in DOMAIN soa
  <2>1. chunks = <<soa[t]>>
    BY <1>11 DEF DenseChunks
  <2>2. c = 1 /\ chunks[c] = soa[t]
    <3>1. DOMAIN <<soa[t]>> = {1} /\ <<soa[t]>>[1] = soa[t]
      OBVIOUS
    <3> QED BY <1>3, <2>1, <3>1
  <2>3. i \in DOMAIN soa[t].index /\ soa[t].index[i] \in Nat /\ <<soa[t].index[i] + 1, i>> \in RowsOf(soa[t].ids)
    BY <1>5, <1>11, <2>2 DEF DenseFits, SoAFits
  <2>4. soa[t].index[i] + 1 = p
    <3>1. soa[t].index[i] + 1 \in DOMAIN soa[t].ids /\ soa[t].ids[soa[t].index[i] + 1] = i
      BY <2>3 DEF RowsOf
    <3> QED BY <1>2, <2>2, <3>1
  <2>5. ReadSoA(i, t, k) = cells
    <3>1. soa[t].index[i] = p - 1
      BY <1>4, <2>3, <2>4
    <3> QED BY <1>11, <2>2, <2>3, <3>1 DEF ReadSoA
  <2> QED BY <1>6, <1>9, <1>10, <1>11, <2>5
<1>12. CASE layout[t] = "AoSoA" /\ t \in DOMAIN aosoa
  <2>1. chunks = aosoa[t].chunks
    BY <1>12 DEF DenseChunks
  <2>2. i \in ToSet(AoSoAIds(t))
    BY <1>1, <1>5, <1>12, <2>1 DEF AoSoAIds
  <2>3. Min({c}) = c
    <3>1. c \in Nat
      BY <1>1, <1>3 DEF HoldNumbers
    <3>2. {c} \in SUBSET Nat /\ {c} # {}
      BY <3>1
    <3> QED BY <3>2, LeastMember
  <2>4. Position(i, chunks[c].ids) = p - 1
    <3>1. (CHOOSE n \in DOMAIN chunks[c].ids : chunks[c].ids[n] = i) = p
      BY <1>2
    <3> QED BY <3>1 DEF Position
  <2>5. ReadAoSoA(i, t, k) = cells
    <3> HIDE DEF chunks
    <3> QED BY <1>2, <2>1, <2>2, <2>3, <2>4 DEF ReadAoSoA
  <2> QED BY <1>6, <1>8, <1>10, <1>12, <2>5
<1>13. CASE layout[t] = "Archetype" /\ t \in DOMAIN archetype
  <2> DEFINE at == archetype[t].sparse[i]
  <2>1. chunks = archetype[t].chunks
    BY <1>13 DEF DenseChunks
  <2>2. i \in ToSet(ArchetypeIds(t))
    BY <1>1, <1>5, <1>13, <2>1 DEF ArchetypeIds
  <2>3. i \in DOMAIN archetype[t].sparse /\ SlotFits(chunks, at, i)
    BY <1>13, <2>1, <2>2 DEF DenseFits, ArchetypeFits
  <2>4. at[1] + 1 \in DOMAIN chunks /\ at[2] \in Nat
        /\ at[2] + 1 \in DOMAIN chunks[at[1] + 1].ids /\ chunks[at[1] + 1].ids[at[2] + 1] = i
    BY <2>3 DEF SlotFits, RowsOf
  <2>5. at[1] + 1 = c
    <3>1. i \in ToSet(chunks[at[1] + 1].ids)
      BY <2>4 DEF ToSet
    <3> QED BY <1>2, <2>4, <3>1
  <2>6. at[2] + 1 = p /\ at[2] = p - 1
    <3> DEFINE q == at[2]
    <3>1. q \in Nat /\ q + 1 \in DOMAIN chunks[c].ids /\ chunks[c].ids[q + 1] = i
      BY <2>4, <2>5
    <3> HIDE DEF q, at
    <3>2. q + 1 = p
      BY <1>2, <3>1
    <3>3. q = p - 1
      BY <1>4, <3>1, <3>2
    <3> QED BY <3>2, <3>3 DEF q
  <2>7. ReadArchetype(i, t, k) = cells
    BY <1>13, <2>1, <2>3, <2>4, <2>5, <2>6 DEF ReadArchetype
  <2> QED BY <1>6, <1>8, <1>9, <1>13, <2>7
<1>14. CASE chunks = << >>
  BY <1>3, <1>14
<1> QED BY <1>11, <1>12, <1>13, <1>14 DEF DenseChunks

-----------------------------------------------------------------------------
(* A block in a store is read from a row of its own. *)
ReadsRow(i, t, k) ==
    \E c, p : /\ RowOf(DenseChunks(t), c, p, i)
              /\ p \in Nat \ {0}
              /\ ChunkTyped(t, DenseChunks(t)[c])
              /\ ReadField(i, t, k) = Cells(t, DenseChunks(t)[c].columns, k, p - 1)

DenseReads(t) == \A i \in Held(t) \ Identities : \A k \in DOMAIN Fields[t] : ReadsRow(i, t, k)

AllDenseRead == \A t \in TypeIds : DenseFits(t) => DenseReads(t)

LEMMA DenseReadsHold == StoresTyped /\ LayoutsTyped => AllDenseRead
<1> SUFFICES ASSUME StoresTyped, LayoutsTyped, NEW t \in TypeIds, DenseFits(t),
                    NEW i \in Held(t) \ Identities, NEW k \in DOMAIN Fields[t]
             PROVE  ReadsRow(i, t, k)
  BY DEF AllDenseRead, DenseReads
<1> DEFINE chunks == DenseChunks(t)
<1>1. /\ HoldNumbers(chunks) /\ \A c \in DOMAIN chunks : ChunkTyped(t, chunks[c])
      /\ ToSet(Concat(chunks)) = Held(t)
  BY DenseChunksAre DEF Held
<1> HIDE DEF chunks
<1>2. PICK c \in DOMAIN chunks : i \in ToSet(chunks[c].ids)
  BY <1>1, ConcatHolds
<1>3. PICK p \in DOMAIN chunks[c].ids : chunks[c].ids[p] = i
  BY <1>2 DEF ToSet
<1>4. p \in Nat \ {0}
  <2> DEFINE ids == chunks[c].ids
  <2>1. ids \in Seq(Numbers)
    BY <1>1, <1>2 DEF ChunkTyped
  <2> HIDE DEF ids
  <2>2. p \in 1..Len(ids) /\ Len(ids) \in Nat
    BY <1>3, <2>1, ElementsOf DEF ids
  <2> QED BY <2>2
<1>5. RowOf(chunks, c, p, i)
  BY <1>2, <1>3 DEF RowOf
<1>6. ReadField(i, t, k) = Cells(t, chunks[c].columns, k, p - 1)
  BY <1>5, DenseRead DEF chunks
<1> QED BY <1>1, <1>2, <1>4, <1>5, <1>6 DEF ReadsRow, chunks

(* A block that left the map reads as it did there. *)
LEMMA OutReads ==
  ASSUME BMTypeOK, NEW t \in TypeIds, MovesOut(t), DenseFits(t), t \notin mixed',
         StoresTyped', LayoutsTyped',
         NEW i \in Ids(t), NEW k \in DOMAIN Fields[t], Len(MapCells(i, t, k)) = Fields[t][k].size
  PROVE  ReadField(i, t, k)' = {MapCells(i, t, k)}
<1> DEFINE chunks == DenseChunks(t)'
<1>1. DenseFits(t)' /\ CarriesRows(t, chunks)
  BY DEF MovesOut
<1>2. DenseReads(t)'
  <2>1. StoresTyped' /\ LayoutsTyped' => AllDenseRead'
    BY DenseReadsHold, PTL
  <2> QED BY <1>1, <2>1 DEF AllDenseRead
<1>3. i \in Held(t)' /\ i \notin Identities'
  BY MapLeft DEF MovesOut, Held
<1>4. ReadsRow(i, t, k)'
  BY <1>2, <1>3 DEF DenseReads
<1> HIDE DEF chunks
<1>5. PICK c, p : /\ RowOf(chunks, c, p, i) /\ p \in Nat \ {0}
                  /\ ReadField(i, t, k)' = Cells(t, chunks[c].columns, k, p - 1)
  BY <1>4 DEF ReadsRow, RowOf, Cells, chunks
<1>6. c \in DOMAIN chunks /\ p \in DOMAIN chunks[c].ids /\ chunks[c].ids[p] = i
  BY <1>5 DEF RowOf
<1>7. k \in DOMAIN ColumnsOf(t)
  BY FieldIs
<1>8. PICK junk \in [Beyond(t) -> Values], column \in Data :
        /\ chunks[c].ids \in Seq(Ids(t))
        /\ chunks[c].columns[k] = Fill(column, ColumnsOf(t)[k], chunks[c].ids, junk)
  BY <1>1, <1>6, <1>7 DEF CarriesRows
<1> DEFINE ids == chunks[c].ids
           columns == chunks[c].columns
           q == p - 1
<1>9. q \in Int /\ q + 1 = p
  BY <1>5
<1>10. ids \in Seq(Ids(t)) /\ columns[k] = Fill(column, ColumnsOf(t)[k], ids, junk)
       /\ q + 1 \in DOMAIN ids /\ ids[q + 1] = i
  BY <1>6, <1>8, <1>9
<1> HIDE DEF ids, columns, q
<1>11. Cells(t, columns, k, q) = {MapCells(ids[q + 1], t, k)}
  <2>1. Len(MapCells(ids[q + 1], t, k)) = Fields[t][k].size
    BY <1>10
  <2> QED BY <1>9, <1>10, <2>1, MovedRead
<1> QED BY <1>5, <1>10, <1>11 DEF columns, q

-----------------------------------------------------------------------------
(* A row made a block again shows a field that shares no byte with another *)
(* as its column has it.                                                   *)
LEMMA RowShows ==
  ASSUME NEW t \in TypeIds, NEW columns \in [DOMAIN ColumnsOf(t) -> Data], NEW n \in Nat,
         NEW k \in DOMAIN Fields[t], Alone(t, k), NEW v, Cells(t, columns, k, n) = {v}
  PROVE  LET f == ColumnsOf(t)[k]
             d == Row(t, columns, n) IN
         SubSeq(d, f.offset + 1, Least(f.offset + f.size, Len(d))) = v
<1> DEFINE f(j) == ColumnsOf(t)[j]
           covering(cell) ==
             {j \in DOMAIN columns : /\ cell \in (f(j).offset + 1)..(f(j).offset + f(j).size)
                                     /\ (n + 1) * f(j).size <= Len(columns[j])}
           value(cell) ==
             IF covering(cell) = {} THEN Blank
             ELSE LET j == Max(covering(cell)) IN columns[j][n * f(j).size + cell - f(j).offset]
           d == Row(t, columns, n)
           o == f(k).offset
           z == f(k).size
           m == n * z
           column == columns[k]
<1>1. d = [cell \in 1..SizeOf[t] |-> value(cell)]
  BY DEF Row
<1>2. /\ o \in Nat /\ z \in Nat \ {0} /\ o + z <= SizeOf[t] /\ SizeOf[t] \in Nat
      /\ ColumnsOf(t) = Fields[t] /\ k \in Nat /\ DOMAIN columns = DOMAIN Fields[t]
  <2>1. ColumnsOf(t) = Fields[t] /\ Fields[t][k].offset \in Nat /\ Fields[t][k].size \in Nat \ {0}
        /\ Fields[t][k].offset + Fields[t][k].size <= SizeOf[t]
    BY FieldIs
  <2>2. Len(ColumnsOf(t)) \in Nat /\ DOMAIN ColumnsOf(t) = 1..Len(ColumnsOf(t)) /\ SizeOf[t] \in Nat
    BY ColumnsTyped, ElementsOf
  <2>3. DOMAIN columns = DOMAIN ColumnsOf(t)
    OBVIOUS
  <2> QED BY <2>1, <2>2, <2>3
<1>3. d \in Data
  BY RowTyped
<1>4. column \in Data /\ Len(column) \in Nat /\ \A j \in 1..Len(column) : column[j] \in Values
  BY <1>2 DEF Data
<1>5. m \in Nat /\ (n + 1) * z = m + z
  <2> HIDE DEF z
  <2> QED BY <1>2, TimesGrows
<1>6. m + z <= Len(column) /\ v = SubSeq(column, m + 1, m + z)
  <2>1. Cells(t, columns, k, n) = IF (n + 1) * z <= Len(column)
                                  THEN {SubSeq(column, n * z + 1, (n + 1) * z)} ELSE {}
    BY DEF Cells
  <2> HIDE DEF z, column, m
  <2>2. Cells(t, columns, k, n) = IF m + z <= Len(column)
                                  THEN {SubSeq(column, m + 1, m + z)} ELSE {}
    BY <1>5, <2>1 DEF m
  <2>3. {v} # {}
    OBVIOUS
  <2> QED BY <2>2, <2>3
<1>7. ASSUME NEW j \in 1..z PROVE d[o + j] = column[m + j]
  <2> DEFINE cell == o + j
  <2>1. cell \in 1..SizeOf[t] /\ cell \in (o + 1)..(o + z) /\ cell - o = j
    BY <1>2
  <2>2. k \in covering(cell)
    <3>1. (n + 1) * z <= Len(column)
      BY <1>5, <1>6
    <3> QED BY <1>2, <2>1, <3>1
  <2>3. ASSUME NEW l \in covering(cell), l # k PROVE FALSE
    <3>1. l \in DOMAIN Fields[t] /\ cell \in (f(l).offset + 1)..(f(l).offset + f(l).size)
      BY <1>2, <2>3
    <3>2. Apart(f(l), f(k))
      BY <1>2, <2>3, <3>1 DEF Alone
    <3> DEFINE a == f(l).offset
               b == f(l).size
    <3>3. a \in Nat /\ b \in Nat
      BY <1>2, <3>1, FieldIs
    <3>4. a + b <= o \/ o + z <= a
      BY <3>2 DEF Apart
    <3>5. cell \in (a + 1)..(a + b)
      BY <3>1
    <3> HIDE DEF a, b, o, z, cell
    <3> QED BY <1>2, <2>1, <3>3, <3>4, <3>5
  <2>4. covering(cell) = {k}
    <3> HIDE DEF covering
    <3> QED BY <2>2, <2>3
  <2>5. Max({k}) = k
    <3>1. {k} \in SUBSET (0..k) /\ {k} # {} /\ k \in Nat
      BY <1>2
    <3> QED BY <3>1, GreatestMember
  <2>6. value(cell) = column[m + cell - o]
    BY <2>4, <2>5
  <2>7. m + cell - o = m + j
    <3> HIDE DEF m, o
    <3> QED BY <1>2, <1>5
  <2>8. d[cell] = value(cell)
    <3> HIDE DEF value, d, cell
    <3> QED BY <1>1, <2>1
  <2> HIDE DEF value, d
  <2> QED BY <2>6, <2>7, <2>8
<1>8. Len(d) = SizeOf[t]
  <2> HIDE DEF d, value
  <2> QED BY <1>1, <1>2, <1>3 DEF Data
<1>9. Least(o + z, Len(d)) = o + z
  <2> HIDE DEF d, o, z
  <2> QED BY <1>2, <1>8 DEF Least
<1> HIDE DEF d, o, z, m, column
<1>10. /\ SubSeq(d, o + 1, o + z) \in Seq(Values) /\ Len(SubSeq(d, o + 1, o + z)) = z
       /\ \A j \in 1..z : SubSeq(d, o + 1, o + z)[j] = d[o + j]
  BY <1>2, <1>3, <1>8, Sliced DEF Data
<1>11. /\ SubSeq(column, m + 1, m + z) \in Seq(Values) /\ Len(SubSeq(column, m + 1, m + z)) = z
       /\ \A j \in 1..z : SubSeq(column, m + 1, m + z)[j] = column[m + j]
  BY <1>2, <1>4, <1>5, <1>6, Sliced DEF Data
<1> DEFINE a == SubSeq(d, o + 1, o + z)
           b == SubSeq(column, m + 1, m + z)
<1>12. a \in Seq(Values) /\ b \in Seq(Values) /\ Len(a) = z /\ Len(b) = z /\ \A j \in 1..z : a[j] = b[j]
  BY <1>7, <1>10, <1>11
<1> HIDE DEF a, b
<1>13. a = b
  BY <1>2, <1>12, SeqEqual
<1> QED BY <1>6, <1>9, <1>13 DEF a, b, d, o, z

(* A block that returned to the map reads as it did in its row. *)
LEMMA BackReads ==
  ASSUME StoresTyped, LayoutsTyped, NEW t \in TypeIds, MovesBack(t), DenseFits(t),
         NEW i \in Held(t) \ Identities, NEW k \in DOMAIN Fields[t], Alone(t, k),
         ReadField(i, t, k) # {}
  PROVE  ReadField(i, t, k)' = ReadField(i, t, k)
<1> DEFINE chunks == DenseChunks(t)
           holding(j)  == {c \in DOMAIN chunks : j \in ToSet(chunks[c].ids)}
           last(j)     == chunks[Max(holding(j))]
           rows(j)     == {n \in DOMAIN last(j).ids : last(j).ids[n] = j}
           returned(j) == Row(t, last(j).columns, Max(rows(j)) - 1)
           map == [j \in Identities \cup ToSet(Concat(chunks)) |->
                     IF holding(j) = {} THEN blocks[j] ELSE [type |-> t, data |-> returned(j)]]
<1>1. blocks' = map
  <2>1. ReturnToMap(t, chunks)
    BY DEF MovesBack
  <2> QED BY <2>1 DEF ReturnToMap
<1>2. /\ HoldNumbers(chunks) /\ ToSet(Concat(chunks)) = Held(t)
      /\ Cardinality(ToSet(Concat(chunks))) = Len(Concat(chunks))
  BY DenseChunksAre DEF Held, DenseFits
<1>3. AllDenseRead
  BY DenseReadsHold
<1>4. PICK c, p : /\ RowOf(chunks, c, p, i) /\ p \in Nat \ {0} /\ ChunkTyped(t, chunks[c])
                  /\ ReadField(i, t, k) = Cells(t, chunks[c].columns, k, p - 1)
  BY <1>3 DEF AllDenseRead, DenseReads, ReadsRow
<1> HIDE DEF chunks
<1>5. holding(i) = {c} /\ {n \in DOMAIN chunks[c].ids : chunks[c].ids[n] = i} = {p}
  BY <1>2, <1>4, RowsUnique
<1>6. Max({c}) = c /\ Max({p}) = p
  <2>1. c \in Nat /\ p \in Nat
    BY <1>2, <1>4 DEF HoldNumbers, RowOf
  <2>2. {c} \in SUBSET (0..c) /\ {p} \in SUBSET (0..p)
    BY <2>1
  <2> QED BY <2>1, <2>2, GreatestMember
<1> DEFINE columns == chunks[c].columns
           n == p - 1
<1>7. returned(i) = Row(t, columns, n)
  <2>1. last(i) = chunks[c]
    BY <1>5, <1>6
  <2>2. rows(i) = {p}
    BY <1>5, <2>1
  <2> HIDE DEF rows, last
  <2> QED BY <1>6, <2>1, <2>2
<1>8. i \in Identities' /\ blocks'[i].data = Row(t, columns, n)
  <2>1. i \in ToSet(Concat(chunks))
    BY <1>2
  <2>2. holding(i) # {}
    BY <1>5
  <2> HIDE DEF holding, returned
  <2> QED BY <1>1, <1>7, <2>1, <2>2 DEF Identities
<1>9. n \in Nat /\ columns \in [DOMAIN ColumnsOf(t) -> Data]
  BY <1>4 DEF ChunkTyped
<1>10. PICK v : Cells(t, columns, k, n) = {v}
  BY <1>4 DEF Cells
<1> HIDE DEF columns, n
<1> DEFINE f == ColumnsOf(t)[k]
           d == Row(t, columns, n)
<1>11. SubSeq(d, f.offset + 1, Least(f.offset + f.size, Len(d))) = v
  BY <1>9, <1>10, RowShows
<1>12. ReadField(i, t, k)' = {SubSeq(d, f.offset + 1, Least(f.offset + f.size, Len(d)))}
  <2> HIDE DEF d
  <2>1. ReadField(i, t, k)' = {SubSeq(blocks'[i].data, f.offset + 1,
                                      Least(f.offset + f.size, Len(blocks'[i].data)))}
    BY <1>8 DEF ReadField
  <2> QED BY <1>8, <2>1 DEF d
<1> QED BY <1>4, <1>10, <1>11, <1>12 DEF columns, n

(* What stays where it is reads as it did. *)
LEMMA SameReads ==
  ASSUME NEW t, NEW i, NEW k,
         \/ i \in Identities /\ i \in Identities' /\ blocks'[i] = blocks[i]
         \/ i \notin Identities /\ i \notin Identities' /\ SameStores(t)
  PROVE  ReadField(i, t, k)' = ReadField(i, t, k)
<1>1. CASE i \in Identities /\ i \in Identities' /\ blocks'[i] = blocks[i]
  BY <1>1 DEF ReadField
<1>2. CASE i \notin Identities /\ i \notin Identities' /\ SameStores(t)
  <2>1. ReadSoA(i, t, k)' = ReadSoA(i, t, k)
    BY <1>2 DEF SameStores, ReadSoA, Cells
  <2>2. ReadAoSoA(i, t, k)' = ReadAoSoA(i, t, k)
    <3>1. AoSoAIds(t)' = AoSoAIds(t)
      BY <1>2, SameStoresKeep
    <3>2. CASE t \in DOMAIN aosoa
      BY <1>2, <3>1, <3>2 DEF SameStores, ReadAoSoA, Cells
    <3>3. CASE t \notin DOMAIN aosoa
      <4>1. AoSoAIds(t) = << >> /\ ToSet(<< >>) = {}
        BY <3>3 DEF AoSoAIds, ToSet
      <4> QED BY <3>1, <4>1 DEF ReadAoSoA
    <3> QED BY <3>2, <3>3
  <2>3. ReadArchetype(i, t, k)' = ReadArchetype(i, t, k)
    BY <1>2 DEF SameStores, ReadArchetype, Cells
  <2> QED BY <1>2, <2>1, <2>2, <2>3 DEF ReadField
<1> QED BY <1>1, <1>2

(* A conversion shows of the blocks of every type what could be read.      *)
LEMMA ConvertedReads ==
  ASSUME TypeInv, PlaceInv, NEW t \in registered, Converted(t),
         NEW u \in TypeIds \ mixed', NEW i \in Ids(u) \cup Held(u), NEW k \in DOMAIN Fields[u],
         Alone(u, k), NEW v \in ReadField(i, u, k), Len(v) = Fields[u][k].size
  PROVE  ReadField(i, u, k)' = ReadField(i, u, k) /\ UNCHANGED identityTypes
<1>1. /\ BMTypeOK /\ StoresTyped /\ LayoutsTyped /\ StoresTyped' /\ LayoutsTyped'
      /\ MovesOut(t) \/ MovesBack(t)
      /\ t \in TypeIds
  BY DEF TypeInv, Converted
<1>2. mixed \subseteq mixed' /\ u \in Unmixed /\ mixed # TypeIds
  BY <1>1 DEF MovesOut, MovesBack, Unmixed
<1>3. IssuedInv /\ OwnPlace(u) /\ DenseFits(u)
  BY <1>2 DEF PlaceInv, OwnPlace
<1>4. CASE MovesOut(t)
  <2>1. /\ Identities' = Identities \ Ids(t) /\ \A j \in Identities' : blocks'[j] = blocks[j]
        /\ UNCHANGED identityTypes
    BY <1>1, <1>4, MapLeft DEF MovesOut
  <2>2. CASE u = t
    <3>1. i \in Ids(t) /\ t \notin mixed' /\ DenseFits(t)
      BY <1>3, <1>4, <2>2 DEF MovesOut
    <3>2. ReadField(i, t, k) = {MapCells(i, t, k)}
      BY <3>1 DEF ReadField, MapCells, Ids
    <3>3. Len(MapCells(i, t, k)) = Fields[t][k].size
      BY <2>2, <3>2
    <3>4. ReadField(i, t, k)' = {MapCells(i, t, k)}
      BY <1>1, <1>4, <2>2, <3>1, <3>3, OutReads
    <3> QED BY <2>1, <2>2, <3>2, <3>4
  <2>3. CASE u # t
    <3>1. SameStores(u)
      BY <1>4, <2>3 DEF MovesOut
    <3>2. \/ i \in Identities /\ i \in Identities' /\ blocks'[i] = blocks[i]
          \/ i \notin Identities /\ i \notin Identities' /\ SameStores(u)
      BY <1>3, <2>1, <2>3, <3>1 DEF Ids, OwnPlace, HeldOnce
    <3> QED BY <2>1, <3>2, SameReads
  <2> QED BY <2>2, <2>3
<1>5. CASE MovesBack(t)
  <2>1. PICK back \in SUBSET Numbers : Returns(t, back)
    BY <1>5 DEF MovesBack
  <2>2. /\ Identities' = Identities \cup back /\ back \subseteq Held(t)
        /\ \A j \in Identities' : j \notin back => blocks'[j] = blocks[j]
        /\ UNCHANGED identityTypes
    BY <1>5, <2>1 DEF Returns, MovesBack
  <2>3. CASE i \in Ids(u)
    <3>1. i \in Identities /\ i \notin Held(u) /\ blocks[i].type = u
      BY <1>3, <2>3 DEF Ids, OwnPlace, HeldOnce
    <3>2. i \notin back
      <4>1. i \in DOMAIN identityTypes /\ identityTypes[i] = u
        BY <1>3, <2>3 DEF OwnPlace, HeldOnce, Known
      <4>2. i \in Held(t) => u = t
        BY <1>1, <1>3, <4>1 DEF IssuedInv
      <4> QED BY <2>2, <3>1, <4>2
    <3> QED BY <2>2, <3>1, <3>2, SameReads
  <2>4. CASE i \notin Ids(u)
    <3>1. i \in Held(u) /\ i \notin Identities /\ i \in DOMAIN identityTypes /\ identityTypes[i] = u
      BY <1>3, <2>4 DEF OwnPlace, HeldOnce, Known
    <3>2. CASE u = t
      BY <1>1, <1>3, <1>5, <2>2, <3>1, <3>2, BackReads
    <3>3. CASE u # t
      <4>1. i \notin back
        BY <1>1, <1>3, <2>2, <3>1, <3>3 DEF IssuedInv
      <4>2. SameStores(u)
        BY <1>5, <3>3 DEF MovesBack
      <4> QED BY <2>2, <3>1, <4>1, <4>2, SameReads
    <3> QED BY <3>2, <3>3
  <2> QED BY <2>3, <2>4
<1> QED BY <1>1, <1>4, <1>5

LEMMA ConversionStepKeeps ==
  ASSUME WorldInv, ConvertAction, NEW t \in TypeIds \ mixed'
  PROVE  KeepsFields(t)
<1> SUFFICES ASSUME NEW i \in Ids(t) \cup ToSet(DenseIds(t)), NEW k \in DOMAIN Fields[t],
                    Alone(t, k), Whole(i, t, k)
             PROVE  FieldOf(i, k)' = FieldOf(i, k)
  BY DEF KeepsFields
<1>1. TypeInv /\ PlaceInv
  BY DEF WorldInv
<1>2. PICK c \in registered : Converted(c)
  BY <1>1, ConvertActionMoves
<1>3. registered' = registered
  BY <1>1, ConvertActionMoves
<1>4. i \in DOMAIN identityTypes /\ identityTypes[i] = t
  <2>1. mixed \subseteq mixed'
    BY <1>2 DEF Converted, MovesOut, MovesBack
  <2>2. OwnPlace(t)
    BY <1>1, <2>1 DEF PlaceInv, Unmixed
  <2> QED BY <2>2 DEF OwnPlace, HeldOnce, Known, Held
<1>5. PICK v \in FieldOf(i, k) : Len(v) = Fields[t][k].size
  BY DEF Whole
<1>6. t \in registered /\ FieldOf(i, k) = ReadField(i, t, k)
  BY <1>4, <1>5 DEF FieldOf
<1>7. ReadField(i, t, k)' = ReadField(i, t, k) /\ UNCHANGED identityTypes
  BY <1>1, <1>2, <1>5, <1>6, ConvertedReads DEF Held
<1>8. FieldOf(i, k)' = ReadField(i, t, k)'
  BY <1>3, <1>4, <1>6, <1>7 DEF FieldOf
<1> QED BY <1>6, <1>7, <1>8

(* A conversion between the block map and a dense store does not change   *)
(* what read_field gives of a field that was whole, of any block of any     *)
(* type that never passed from one dense store to another, if no other      *)
(* field shares its bytes (SPEC-018, layout_manager.h).                     *)
THEOREM FieldsKept == WorldSpec => ConversionKeepsFields
<1> DEFINE Kept == Converts => \A t \in TypeIds \ mixed' : KeepsFields(t)
<1>1. WorldInv /\ [WorldNext]_worldVars => [Kept]_worldVars
  <2> SUFFICES ASSUME WorldInv, [WorldNext]_worldVars, Converts, NEW t \in TypeIds \ mixed'
               PROVE  KeepsFields(t)
    OBVIOUS
  <2>1. layout' # layout /\ registered' = registered /\ saved' = saved
    BY DEF Converts
  <2>2. CASE ConvertAction
    BY <2>2, ConversionStepKeeps
  <2>3. ~StoreAction
    BY <2>1, StoreActionOnly DEF StoreOnly, layoutVars
  <2>4. ~(HostRelates \/ FinishTick \/ Save \/ UNCHANGED worldVars)
    BY <2>1 DEF HostRelates, FinishTick, Save, worldVars, layoutVars
  <2>5. ASSUME NEW u \in TypeIds, NEW l \in NewLayouts, RegisterNamed(u, l) PROVE FALSE
    BY <2>1, <2>5 DEF RegisterNamed, RegisterBlockType
  <2>6. ~HostLoads
    BY <2>1 DEF HostLoads
  <2>7. CASE Restart
    <3>1. registered = {}
      BY <2>1, <2>7 DEF Restart
    <3>2. \A i, k : ~Whole(i, t, k)
      BY <3>1 DEF Whole, FieldOf
    <3> QED BY <3>2 DEF KeepsFields
  <2> QED BY <2>2, <2>3, <2>4, <2>5, <2>6, <2>7 DEF WorldNext, StoreAction, ConvertAction
<1> QED BY <1>1, WorldInvAlways, PTL DEF WorldSpec, ConversionKeepsFields
=============================================================================
