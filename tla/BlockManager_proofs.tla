------------------------- MODULE BlockManager_proofs ------------------------
(***************************************************************************)
(* Proofs about the block store, for every set of types, every size and    *)
(* every number of identities.                                             *)
(***************************************************************************)
EXTENDS BlockManager, FiniteSetTheorems, SequenceTheorems, TLAPS

(* The inductive invariant.  Identities and dead lie at or below the       *)
(* counter and apart from one another, so the next identity is fresh for   *)
(* both; the two indexes are those of the block map.                       *)
IndexInv ==
    /\ nextIdentity \in 0..MaxIdentity
    /\ blocks \in [Identities -> [type : TypeIds, data : Data]]
    /\ Identities \subseteq 1..nextIdentity
    /\ dead \subseteq 1..nextIdentity
    /\ IdentitiesNotReused
    /\ typeCounts \in [TypeIds -> Nat]
    /\ IndexesAgree

PoolInv == pools \in [TypeIds -> Seq(Data)]

-----------------------------------------------------------------------------
(* The identities of a type are finitely many: they are at most the        *)
(* counter.  Every counting step rests on this.                            *)
LEMMA IdsFinite ==
  ASSUME IndexInv, NEW t \in TypeIds
  PROVE  IsFiniteSet(Ids(t)) /\ Cardinality(Ids(t)) \in Nat
<1>1. IsFiniteSet(1..nextIdentity)
  BY IdentityAssumption, FS_Interval DEF IndexInv
<1>2. Ids(t) \in SUBSET (1..nextIdentity)
  BY DEF IndexInv, Ids, Identities
<1> QED BY <1>1, <1>2, FS_Subset, FS_CardinalityType

(* Resized always yields a sequence of cells, whatever the two sizes. *)
LEMMA ResizedType ==
  ASSUME NEW d \in Data, NEW n \in Nat
  PROVE  Resized(d, n) \in Data
<1>1. \A k \in 1..n : k <= Len(d) => d[k] \in Values
  BY DEF Data
<1> QED BY <1>1, BlankAssumption DEF Resized, Data

(* A block built from scratch is a sequence of cells. *)
LEMMA ZeroedType ==
  ASSUME NEW t \in TypeIds
  PROVE  Zeroed(SizeOf[t]) \in Data
<1>1. << >> \in Data
  BY DEF Data
<1> QED BY <1>1, ResizedType, SizeAssumption DEF Zeroed

-----------------------------------------------------------------------------
(* Every creation path: the counter of the new block's type, and no other, *)
(* grows by one, because the new identity names no block yet.              *)
LEMMA InsertKeepsIndexInv ==
  ASSUME IndexInv, NEW t \in TypeIds, NEW d \in Data, Insert(t, d)
  PROVE  IndexInv'
<1> DEFINE id == nextIdentity + 1
<1>1. id \in 1..MaxIdentity /\ nextIdentity' = id /\ id \notin Identities /\ id \notin dead
  BY IdentityAssumption DEF IndexInv, Insert
<1>2. Identities' = Identities \cup {id}
  BY DEF Insert, Extend, Identities
<1>3. \A i \in Identities' :
        blocks'[i] = IF i = id THEN [type |-> t, data |-> d] ELSE blocks[i]
  BY DEF Insert, Extend, Identities
<1>4. blocks' \in [Identities' -> [type : TypeIds, data : Data]]
  <2>1. blocks' = [i \in Identities' |-> blocks'[i]]
    BY DEF Insert, Extend, Identities
  <2>2. \A i \in Identities' : blocks'[i] \in [type : TypeIds, data : Data]
    BY <1>2, <1>3 DEF IndexInv
  <2> QED BY <2>1, <2>2
<1>5. identityTypes' = [i \in Identities' |-> blocks'[i].type]
  <2>1. identityTypes' = [i \in Identities \cup {id} |->
                            IF i = id THEN t ELSE identityTypes[i]]
    BY DEF Insert, Extend, IndexInv, IndexesAgree
  <2>2. \A i \in Identities : identityTypes[i] = blocks[i].type
    BY DEF IndexInv, IndexesAgree
  <2> QED BY <2>1, <2>2, <1>1, <1>2, <1>3
<1>6. typeCounts' \in [TypeIds -> Nat]
  BY DEF IndexInv, Insert
<1>7. ASSUME NEW u \in TypeIds PROVE typeCounts'[u] = Cardinality(Ids(u)')
  <2>1. IsFiniteSet(Ids(u)) /\ Cardinality(Ids(u)) \in Nat
    BY IdsFinite
  <2>2. typeCounts[u] = Cardinality(Ids(u))
    BY DEF IndexInv, IndexesAgree
  <2>3. CASE u = t
    <3>1. Ids(u)' = Ids(u) \cup {id}
      BY <1>1, <1>2, <1>3, <2>3 DEF Ids
    <3>2. id \notin Ids(u)
      BY <1>1 DEF Ids
    <3>3. Cardinality(Ids(u) \cup {id}) = Cardinality(Ids(u)) + 1
      BY <2>1, <3>2, FS_AddElement
    <3> QED BY <2>2, <2>3, <3>1, <3>3 DEF Insert, IndexInv
  <2>4. CASE u # t
    <3>1. Ids(u)' = Ids(u)
      BY <1>1, <1>2, <1>3, <2>4 DEF Ids
    <3> QED BY <2>2, <2>4, <3>1 DEF Insert, IndexInv
  <2> QED BY <2>3, <2>4
<1>8. /\ nextIdentity' \in 0..MaxIdentity
      /\ Identities' \subseteq 1..nextIdentity'
      /\ dead' \subseteq 1..nextIdentity'
      /\ IdentitiesNotReused'
  BY <1>1, <1>2 DEF IndexInv, IdentitiesNotReused, Insert
<1> QED BY <1>4, <1>5, <1>6, <1>7, <1>8 DEF IndexInv, IndexesAgree

(* Every destruction path: the counter of each type drops by the number of *)
(* its blocks among the targets, and the clamp at zero is never taken.     *)
LEMMA EraseKeepsIndexInv ==
  ASSUME IndexInv, NEW S \in SUBSET Identities, Erase(S)
  PROVE  IndexInv'
<1>1. Identities' = Identities \ S /\ \A i \in Identities' : blocks'[i] = blocks[i]
  BY DEF Erase, Without, Identities
<1>2. blocks' \in [Identities' -> [type : TypeIds, data : Data]]
  BY <1>1 DEF Erase, Without, Identities, IndexInv
<1>3. identityTypes' = [i \in Identities' |-> blocks'[i].type]
  BY <1>1 DEF Erase, Without, IndexInv, IndexesAgree
<1>4. ASSUME NEW u \in TypeIds
      PROVE  typeCounts'[u] \in Nat /\ typeCounts'[u] = Cardinality(Ids(u)')
  <2> DEFINE gone == S \cap Ids(u)
  <2>1. IsFiniteSet(Ids(u)) /\ Cardinality(Ids(u)) \in Nat
    BY IdsFinite
  <2>2. Ids(u)' = Ids(u) \ gone
    BY <1>1 DEF Ids
  <2>3. /\ Cardinality(Ids(u) \ gone) = Cardinality(Ids(u)) - Cardinality(Ids(u) \cap gone)
        /\ IsFiniteSet(Ids(u) \ gone)
    BY <2>1, FS_Difference
  <2>4. Ids(u) \cap gone = gone
    OBVIOUS
  <2>5. gone \in SUBSET Ids(u)
    OBVIOUS
  <2>6. /\ Cardinality(gone) \in Nat
        /\ Cardinality(gone) <= Cardinality(Ids(u))
    BY <2>1, <2>5, FS_Subset, FS_CardinalityType
  <2>7. typeCounts[u] = Cardinality(Ids(u))
    BY DEF IndexInv, IndexesAgree
  <2>8. typeCounts'[u] = Monus(typeCounts[u], Cardinality(gone))
    BY DEF Erase
  <2> QED BY <2>1, <2>2, <2>3, <2>4, <2>6, <2>7, <2>8 DEF Monus
<1>5. typeCounts' \in [TypeIds -> Nat]
  <2>1. typeCounts' = [u \in TypeIds |-> typeCounts'[u]]
    BY DEF Erase
  <2> QED BY <2>1, <1>4
<1>6. /\ nextIdentity' \in 0..MaxIdentity
      /\ Identities' \subseteq 1..nextIdentity'
      /\ dead' \subseteq 1..nextIdentity'
      /\ IdentitiesNotReused'
  BY <1>1 DEF IndexInv, IdentitiesNotReused, Erase
<1> QED BY <1>2, <1>3, <1>4, <1>5, <1>6 DEF IndexInv, IndexesAgree

(* A step that keeps every block and its type keeps the invariant. *)
LEMMA SameTypesKeepIndexInv ==
  ASSUME IndexInv,
         blocks' \in [Identities -> [type : TypeIds, data : Data]],
         \A i \in Identities : blocks'[i].type = blocks[i].type,
         UNCHANGED <<identityTypes, nextIdentity, dead>>,
         \A t \in TypeIds : typeCounts'[t] = Cardinality(Ids(t)),
         typeCounts' = [t \in TypeIds |-> typeCounts'[t]]
  PROVE  IndexInv'
<1>1. Identities' = Identities
  BY DEF Identities
<1>2. \A t \in TypeIds : Ids(t)' = Ids(t)
  BY <1>1 DEF Ids
<1>3. typeCounts' \in [TypeIds -> Nat]
  BY IdsFinite
<1>4. IndexesAgree'
  BY <1>1, <1>2 DEF IndexesAgree, IndexInv
<1> QED BY <1>1, <1>3, <1>4 DEF IndexInv, IdentitiesNotReused

-----------------------------------------------------------------------------
StoreInv == IndexInv /\ PoolInv

(* create takes its buffer from the pool of the type or from nowhere. *)
LEMMA CreateKeepsStoreInv ==
  ASSUME StoreInv, NEW t \in TypeIds, Create(t)
  PROVE  StoreInv'
<1>1. CASE /\ HasBuffer(t)
           /\ Insert(t, Refilled(pools[t][Len(pools[t])], SizeOf[t]))
           /\ pools' = [pools EXCEPT ![t] = SubSeq(@, 1, Len(@) - 1)]
  <2>1. IndexInv'
    BY <1>1, ZeroedType, InsertKeepsIndexInv DEF Refilled, StoreInv
  <2>2. pools[t] \in Seq(Data) /\ Len(pools[t]) \in Nat
    BY DEF StoreInv, PoolInv
  <2>3. SubSeq(pools[t], 1, Len(pools[t]) - 1) \in Seq(Data)
    BY <2>2, SubSeqProperties
  <2> QED BY <1>1, <2>1, <2>3 DEF StoreInv, PoolInv
<1>2. CASE ~HasBuffer(t) /\ Insert(t, Zeroed(SizeOf[t])) /\ UNCHANGED pools
  BY <1>2, ZeroedType, InsertKeepsIndexInv DEF StoreInv, PoolInv
<1> QED BY <1>1, <1>2 DEF Create

(* destroy erases one live identity and keeps its bytes in the pool. *)
LEMMA DestroyKeepsStoreInv ==
  ASSUME StoreInv, NEW id, Destroy(id)
  PROVE  StoreInv'
<1>1. id \in Identities /\ {id} \in SUBSET Identities /\ Erase({id})
  BY DEF Destroy
<1>2. IndexInv'
  BY <1>1, EraseKeepsIndexInv DEF StoreInv
<1>3. blocks[id].type \in TypeIds /\ blocks[id].data \in Data
  BY <1>1 DEF StoreInv, IndexInv
<1>4. Recycled(pools[blocks[id].type], blocks[id].data) \in Seq(Data)
  BY <1>3 DEF Recycled, StoreInv, PoolInv
<1>5. PoolInv'
  BY <1>3, <1>4 DEF Destroy, StoreInv, PoolInv
<1> QED BY <1>2, <1>5 DEF StoreInv

(* The handlers that rewrite bytes leave both indexes alone. *)
LEMMA ResizeKeepsStoreInv ==
  ASSUME StoreInv, NEW targets, NEW n \in Nat, CommandResize(targets, n)
  PROVE  StoreInv'
<1>1. \A i \in Identities : Resized(blocks[i].data, n) \in Data
  BY ResizedType DEF StoreInv, IndexInv
<1>2. /\ blocks' \in [Identities -> [type : TypeIds, data : Data]]
      /\ \A i \in Identities : blocks'[i].type = blocks[i].type
  BY <1>1 DEF CommandResize, Rewrite, StoreInv, IndexInv
<1>3. /\ \A t \in TypeIds : typeCounts'[t] = Cardinality(Ids(t))
      /\ typeCounts' = [t \in TypeIds |-> typeCounts'[t]]
  BY DEF CommandResize, Rewrite, StoreInv, IndexInv, IndexesAgree
<1>4. IndexInv'
  BY <1>2, <1>3, SameTypesKeepIndexInv DEF CommandResize, Rewrite, StoreInv
<1> QED BY <1>4 DEF CommandResize, Rewrite, StoreInv, PoolInv

(* Writing a cell keeps a sequence of cells, even at no cell of it. *)
LEMMA WrittenType ==
  ASSUME NEW d \in Data, NEW k, NEW v \in Values
  PROVE  [d EXCEPT ![k] = v] \in Data
<1>1. d \in [1..Len(d) -> Values] /\ Len(d) \in Nat
  BY DEF Data
<1>2. [d EXCEPT ![k] = v] \in [1..Len(d) -> Values]
  BY <1>1
<1> QED BY <1>1, <1>2 DEF Data

LEMMA SetFieldKeepsStoreInv ==
  ASSUME StoreInv, NEW targets, NEW k \in Nat, NEW v \in Values,
         CommandSetField(targets, k, v)
  PROVE  StoreInv'
<1>1. \A i \in Identities : [blocks[i].data EXCEPT ![k] = v] \in Data
  BY WrittenType DEF StoreInv, IndexInv
<1>2. /\ blocks' \in [Identities -> [type : TypeIds, data : Data]]
      /\ \A i \in Identities : blocks'[i].type = blocks[i].type
  BY <1>1 DEF CommandSetField, Rewrite, StoreInv, IndexInv
<1>3. /\ \A t \in TypeIds : typeCounts'[t] = Cardinality(Ids(t))
      /\ typeCounts' = [t \in TypeIds |-> typeCounts'[t]]
  BY DEF CommandSetField, Rewrite, StoreInv, IndexInv, IndexesAgree
<1>4. IndexInv'
  BY <1>2, <1>3, SameTypesKeepIndexInv DEF CommandSetField, Rewrite, StoreInv
<1> QED BY <1>4 DEF CommandSetField, Rewrite, StoreInv, PoolInv

(* rebuild_counts finds the counters as they are. *)
LEMMA RebuildKeepsStoreInv ==
  ASSUME StoreInv, RebuildCounts
  PROVE  StoreInv'
<1>1. IndexInv'
  BY SameTypesKeepIndexInv DEF RebuildCounts, StoreInv, IndexInv
<1> QED BY <1>1 DEF RebuildCounts, StoreInv, PoolInv

-----------------------------------------------------------------------------
LEMMA StoreInvInit == BMInit => StoreInv
<1> SUFFICES ASSUME BMInit PROVE StoreInv
  OBVIOUS
<1>1. Identities = {} /\ \A t \in TypeIds : Ids(t) = {}
  BY DEF BMInit, Identities, Ids
<1>2. IndexesAgree /\ IdentitiesNotReused
  BY <1>1, FS_EmptySet DEF BMInit, IndexesAgree, IdentitiesNotReused
<1>3. blocks \in [Identities -> [type : TypeIds, data : Data]]
  BY <1>1 DEF BMInit
<1> QED BY <1>1, <1>2, <1>3, IdentityAssumption DEF BMInit, StoreInv, IndexInv, PoolInv

LEMMA StoreInvStep == StoreInv /\ [BMNext]_storeVars => StoreInv'
<1> SUFFICES ASSUME StoreInv, [BMNext]_storeVars PROVE StoreInv'
  OBVIOUS
<1>1. CASE \E t \in TypeIds : Create(t) \/ CreateEphemeral(t)
  BY <1>1, CreateKeepsStoreInv DEF CreateEphemeral
<1>2. CASE \E t \in TypeIds : CommandCreate(t)
  BY <1>2, ZeroedType, InsertKeepsIndexInv DEF CommandCreate, StoreInv, PoolInv
<1>3. CASE \/ \E id \in Identities : Destroy(id)
           \/ \E types \in SUBSET TypeIds : DestroyLowestEphemeral(types)
  BY <1>3, DestroyKeepsStoreInv DEF DestroyLowestEphemeral
<1>4. CASE RebuildCounts
  BY <1>4, RebuildKeepsStoreInv
<1>5. ASSUME NEW targets, CommandDestroy(targets) PROVE StoreInv'
  <2>1. targets \cap Identities \in SUBSET Identities
    OBVIOUS
  <2> QED BY <1>5, <2>1, EraseKeepsIndexInv DEF CommandDestroy, StoreInv, PoolInv
<1>6. ASSUME NEW targets, NEW n \in Sizes, CommandResize(targets, n) PROVE StoreInv'
  BY <1>6, ResizeKeepsStoreInv, RangeAssumption
<1>7. ASSUME NEW targets, NEW k \in Offsets, NEW v \in Values,
             CommandSetField(targets, k, v)
      PROVE  StoreInv'
  BY <1>7, SetFieldKeepsStoreInv, RangeAssumption
<1>8. CASE UNCHANGED storeVars
  BY <1>8 DEF storeVars, StoreInv, IndexInv, PoolInv, IndexesAgree, Identities,
              IdentitiesNotReused, Ids
<1> QED BY <1>1, <1>2, <1>3, <1>4, <1>5, <1>6, <1>7, <1>8 DEF BMNext

LEMMA StoreInvAlways == BMSpec => []StoreInv
BY StoreInvInit, StoreInvStep, PTL DEF BMSpec

-----------------------------------------------------------------------------
(* The type invariant of the store holds in every reachable state. *)
THEOREM StoreTypeCorrect == BMSpec => []BMTypeOK
<1>1. StoreInv => BMTypeOK
  BY IdentityAssumption DEF StoreInv, IndexInv, PoolInv, BMTypeOK, IndexesAgree
<1> QED BY <1>1, StoreInvAlways, PTL

(* Whatever the order of API calls, commands and cleanups, the identity     *)
(* map and the counters are those of the block map.                        *)
THEOREM StoreIndexesAgree == BMSpec => []IndexesAgree
<1>1. StoreInv => IndexesAgree
  BY DEF StoreInv, IndexInv
<1> QED BY <1>1, StoreInvAlways, PTL

(* A destroyed identity never names a live block again. *)
THEOREM StoreIdentitiesNotReused == BMSpec => []IdentitiesNotReused
<1>1. StoreInv => IdentitiesNotReused
  BY DEF StoreInv, IndexInv
<1> QED BY <1>1, StoreInvAlways, PTL

-----------------------------------------------------------------------------
(* A creation adds one identity and gives it the bytes it was handed. *)
LEMMA InsertAddsOne ==
  ASSUME NEW t \in TypeIds, NEW d, Insert(t, d)
  PROVE  \A i \in Identities' \ Identities : blocks'[i] = [type |-> t, data |-> d]
BY DEF Insert, Extend, Identities

(* A block is born zeroed, from a recycled buffer or from a new one. *)
THEOREM StoreBlocksBornBlank == BMSpec => FreshBlocksAreBlank
<1> DEFINE Fresh == \A i \in Identities' \ Identities :
                        blocks'[i].data = Zeroed(SizeOf[blocks'[i].type])
<1>1. ASSUME [BMNext]_storeVars PROVE Fresh
  <2>1. ASSUME NEW t \in TypeIds, Create(t) \/ CreateEphemeral(t) \/ CommandCreate(t)
        PROVE  Fresh
    <3>1. Insert(t, Zeroed(SizeOf[t]))
      BY <2>1 DEF Create, CreateEphemeral, CommandCreate, Refilled
    <3> DEFINE born == [type |-> t, data |-> Zeroed(SizeOf[t])]
    <3>2. \A i \in Identities' \ Identities : blocks'[i] = born
      BY <3>1, InsertAddsOne
    <3>3. born.data = Zeroed(SizeOf[born.type])
      OBVIOUS
    <3> HIDE DEF born
    <3> QED BY <3>2, <3>3
  <2>2. ASSUME NEW S, Erase(S) PROVE Fresh
    BY <2>2 DEF Erase, Without, Identities
  <2>3. ASSUME NEW targets, NEW n, CommandResize(targets, n) PROVE Fresh
    BY <2>3 DEF CommandResize, Rewrite, Identities
  <2>4. ASSUME NEW targets, NEW k, NEW v, CommandSetField(targets, k, v) PROVE Fresh
    BY <2>4 DEF CommandSetField, Rewrite, Identities
  <2>5. CASE UNCHANGED blocks
    BY <2>5 DEF Identities
  <2> QED BY <1>1, <2>1, <2>2, <2>3, <2>4, <2>5
          DEF BMNext, Destroy, DestroyLowestEphemeral, CommandDestroy, RebuildCounts, storeVars
<1>2. BMSpec => [][Fresh]_storeVars
  BY <1>1, PTL DEF BMSpec
<1> QED BY <1>2 DEF FreshBlocksAreBlank
=============================================================================
