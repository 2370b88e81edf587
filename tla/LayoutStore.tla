---------------------------- MODULE LayoutStore -----------------------------
(***************************************************************************)
(* LayoutManager: the dense stores that hold the blocks of a type outside  *)
(* the block map, field by field, and the conversions between them and the *)
(* map, which ConvertLayout commands and the host call.                    *)
(*                                                                         *)
(* A store's column is the byte array of one field (FieldArray::data), in  *)
(* cells.  Positions are counted from 0, as in the code.                   *)
(***************************************************************************)
EXTENDS RuntimeCommands, SequencesExt

CONSTANTS
    Fields,       \* the field descriptors of each type: [offset, size]
    ChunkSizes    \* the chunk sizes a conversion may ask for; 0 asks for none

ASSUME FieldsAssumption ==
    /\ Fields \in [TypeIds -> Seq([offset : Nat, size : Nat \ {0}])]
    /\ \A t \in TypeIds : \A k \in DOMAIN Fields[t] :
         Fields[t][k].offset + Fields[t][k].size <= SizeOf[t]
ASSUME ChunkAssumption == ChunkSizes \subseteq Nat

VARIABLES
    layout,      \* BlockTypeDescriptor::layout
    chunkSize,   \* BlockTypeDescriptor's aosoa_config and archetype_config
    soa,         \* layout_storage_: type -> [ids, index, columns]
    aosoa,       \* layout_storage_aosoa_: type -> [size, chunks]
    archetype,   \* layout_storage_archetype_: type -> [size, chunks, sparse]
    mixed        \* history variable: types moved from one dense store towards
                 \* another, or reloaded while a dense store held blocks

layoutVars == <<layout, chunkSize, soa, aosoa, archetype, mixed>>

Layouts == {"AoS", "SoA", "AoSoA", "Archetype"}
NoStore == [t \in {} |-> 0]

DefaultChunks == [AoSoA |-> 8, Archetype |-> 64]

LayoutInit ==
    /\ layout = [t \in TypeIds |-> "AoS"]
    /\ chunkSize = [t \in TypeIds |-> DefaultChunks]
    /\ soa = NoStore
    /\ aosoa = NoStore
    /\ archetype = NoStore
    /\ mixed = {}

Least(a, b) == IF a <= b THEN a ELSE b

(* A type without field descriptors has one column of whole blocks. *)
ColumnsOf(t) ==
    IF Fields[t] = << >> THEN << [offset |-> 0, size |-> SizeOf[t]] >> ELSE Fields[t]

-----------------------------------------------------------------------------
(* Moving blocks into columns. *)

(* min(field_size, size - offset), where the subtraction wraps: of a block  *)
(* that ends before the field, the whole field is read.                    *)
CopySize(f, n) == IF f.offset <= n THEN Least(f.size, n - f.offset) ELSE f.size

(* The cells of the blocks of type t that a copy reads past their end.     *)
Past(i, t) ==
    UNION {(f.offset + 1)..(f.offset + f.size) :
             f \in {g \in ToSet(ColumnsOf(t)) : g.offset > Len(blocks[i].data)}}

Beyond(t) == UNION {{i} \X Past(i, t) : i \in Ids(t)}

(* Mutant: every field is read from the start of the block. *)
FieldBytes_NoOffset(i, f, junk) ==
    LET d == blocks[i].data IN
    [k \in 1..CopySize(f, Len(d)) |-> IF k <= Len(d) THEN d[k] ELSE junk[<<i, f.offset + k>>]]

(* junk gives what the memory past the end of a block happens to hold. *)
FieldBytes(i, f, junk) ==
    LET d == blocks[i].data IN
    [k \in 1..CopySize(f, Len(d)) |->
       IF f.offset + k <= Len(d) THEN d[f.offset + k] ELSE junk[<<i, f.offset + k>>]]

(* memcpy to cell pos of a column, grown first if it is too short. *)
Store(column, pos, bytes) ==
    LET end == pos + Len(bytes)
        wide == IF Len(column) < end THEN Resized(column, end) ELSE column IN
    [k \in DOMAIN wide |-> IF k \in (pos + 1)..end THEN bytes[k - pos] ELSE wide[k]]

(* The blocks ids, in order, as rows 0, 1, .. of the column of field f:     *)
(* Filling(column, f, ids, junk)[n] is the column with n of them.          *)
Filling(column, f, ids, junk) ==
    LET col[n \in 0..Len(ids)] ==
          IF n = 0 THEN column
          ELSE Store(col[n - 1], (n - 1) * f.size, FieldBytes(ids[n], f, junk))
    IN col

Fill(column, f, ids, junk) == Filling(column, f, ids, junk)[Len(ids)]

(* The blocks of a type, in the order in which the map is iterated. *)
IdsInOrder(t) ==
    CHOOSE ids \in [1..Cardinality(Ids(t)) -> Ids(t)] :
        \A m, n \in DOMAIN ids : m < n => ids[m] < ids[n]

(* Mutant: the blocks leave the map as destroyed ones do. *)
LeaveMap_Unlists(t) ==
    /\ blocks' = Without(blocks, Ids(t))
    /\ identityTypes' = Without(identityTypes, Ids(t))
    /\ UNCHANGED <<typeCounts, nextIdentity, pools, dead>>

(* The blocks leave the map; identity_types_ and type_counts_ stay. *)
LeaveMap(t) ==
    /\ blocks' = Without(blocks, Ids(t))
    /\ UNCHANGED <<identityTypes, typeCounts, nextIdentity, pools, dead>>

(* Does a dense store other than that of layout l hold blocks of type t? *)
HeldElsewhere(t, l) ==
    \/ l # "SoA" /\ t \in DOMAIN soa /\ soa[t].ids # << >>
    \/ l # "AoSoA" /\ t \in DOMAIN aosoa /\ aosoa[t].chunks # << >>
    \/ l # "Archetype" /\ t \in DOMAIN archetype /\ archetype[t].chunks # << >>

(* desc.layout = l, by way of the store of layout dense. *)
Adopt(t, l, dense) ==
    /\ layout' = [layout EXCEPT ![t] = l]
    /\ mixed' = IF HeldElsewhere(t, dense) THEN mixed \cup {t} ELSE mixed

-----------------------------------------------------------------------------
(* ensure_soa_storage *)
SoAStore(t) ==
    IF t \in DOMAIN soa THEN soa[t]
    ELSE [ids |-> << >>, index |-> NoStore, columns |-> [k \in DOMAIN ColumnsOf(t) |-> << >>]]

Position(i, ids) == (CHOOSE n \in DOMAIN ids : ids[n] = i) - 1

(* new, and what old says of the rest. *)
Over(new, old) ==
    [x \in DOMAIN new \cup DOMAIN old |-> IF x \in DOMAIN new THEN new[x] ELSE old[x]]

(* convert_to_soa.  The rows of the moved blocks are counted from 0 even    *)
(* when the store holds rows already.                                      *)
ConvertToSoA(t) ==
    LET old == SoAStore(t)
        ids == IdsInOrder(t) IN
    /\ layout[t] # "SoA"
    /\ \E junk \in [Beyond(t) -> Values] :
         soa' = Extend(soa, t,
           [ids     |-> old.ids \o ids,
            index   |-> Over([i \in Ids(t) |-> Position(i, ids)], old.index),
            columns |-> [k \in DOMAIN old.columns |->
                           Fill(old.columns[k], ColumnsOf(t)[k], ids, junk)]])
    /\ LeaveMap(t)
    /\ Adopt(t, "SoA", "SoA")
    /\ UNCHANGED <<chunkSize, aosoa, archetype>>

(* ids cut into chunks of n, with the columns of each. *)
Chunks(t, ids, n, junk) ==
    LET part(c) == SubSeq(ids, (c - 1) * n + 1, Least(c * n, Len(ids))) IN
    [c \in 1..((Len(ids) + n - 1) \div n) |->
       [ids     |-> part(c),
        columns |-> [k \in DOMAIN ColumnsOf(t) |->
          LET f == ColumnsOf(t)[k] IN
          Fill(Zeroed(Len(part(c)) * f.size), f, part(c), junk)]]]

(* A new store takes the descriptor's chunk size, or the default for 0. *)
NewChunkSize(n, default) == IF n = 0 THEN default ELSE n

(* ensure_aosoa_storage *)
AoSoAStore(t, n) ==
    IF t \in DOMAIN aosoa THEN aosoa[t]
    ELSE [size |-> NewChunkSize(n, DefaultChunks.AoSoA), chunks |-> << >>]

(* convert_to_aosoa, the descriptor's chunk size being n: whole new chunks,  *)
(* behind those of the store.                                              *)
ConvertToAoSoA(t, n) ==
    LET old == AoSoAStore(t, n) IN
    /\ layout[t] # "AoSoA"
    /\ \E junk \in [Beyond(t) -> Values] :
         aosoa' = Extend(aosoa, t,
           [size   |-> old.size,
            chunks |-> old.chunks \o Chunks(t, IdsInOrder(t), old.size, junk)])
    /\ LeaveMap(t)
    /\ Adopt(t, "AoSoA", "AoSoA")
    /\ chunkSize' = [chunkSize EXCEPT ![t].AoSoA = n]
    /\ UNCHANGED <<soa, archetype>>

(* ensure_archetype_storage *)
ArchetypeStore(t, n) ==
    IF t \in DOMAIN archetype THEN archetype[t]
    ELSE [size |-> NewChunkSize(n, DefaultChunks.Archetype), chunks |-> << >>, sparse |-> NoStore]

(* Mutant: slots are counted over all chunks of the conversion. *)
Slots_NotPerChunk(ids, first, n) ==
    [i \in ToSet(ids) |-> <<first + (Position(i, ids) \div n), Position(i, ids)>>]

(* The sparse set: the chunk and the slot of each block. *)
Slots(ids, first, n) ==
    [i \in ToSet(ids) |-> <<first + (Position(i, ids) \div n), Position(i, ids) % n>>]

(* convert_to_archetype, the descriptor's chunk size being n *)
ConvertToArchetype(t, n) ==
    LET old == ArchetypeStore(t, n)
        ids == IdsInOrder(t) IN
    /\ layout[t] # "Archetype"
    /\ \E junk \in [Beyond(t) -> Values] :
         archetype' = Extend(archetype, t,
           [size   |-> old.size,
            chunks |-> old.chunks \o Chunks(t, ids, old.size, junk),
            sparse |-> Over(Slots(ids, Len(old.chunks), old.size), old.sparse)])
    /\ LeaveMap(t)
    /\ Adopt(t, "Archetype", "Archetype")
    /\ chunkSize' = [chunkSize EXCEPT ![t].Archetype = n]
    /\ UNCHANGED <<soa, aosoa>>

-----------------------------------------------------------------------------
(* Moving rows back into blocks. *)

Concat(chunks) == FlattenSeq([c \in DOMAIN chunks |-> chunks[c].ids])

(* Row n of the columns as a block of the descriptor's size.  The fields   *)
(* are copied one after the other, so that a cell has its value from the   *)
(* last field that covers it; a field whose column ends too early stays    *)
(* zero.                                                                   *)
Row(t, columns, n) ==
    LET f(k) == ColumnsOf(t)[k]
        covering(cell) ==
            {k \in DOMAIN columns : /\ cell \in (f(k).offset + 1)..(f(k).offset + f(k).size)
                                    /\ (n + 1) * f(k).size <= Len(columns[k])} IN
    [cell \in 1..SizeOf[t] |->
       IF covering(cell) = {} THEN Blank
       ELSE LET k == Max(covering(cell)) IN columns[k][n * f(k).size + cell - f(k).offset]]

(* Every row of every chunk is inserted; the last one of an identity wins. *)
ReturnToMap(t, chunks) ==
    LET holding(i)  == {c \in DOMAIN chunks : i \in ToSet(chunks[c].ids)}
        last(i)     == chunks[Max(holding(i))]
        returned(i) == Row(t, last(i).columns, Max({n \in DOMAIN last(i).ids : last(i).ids[n] = i}) - 1)
    IN /\ blocks' = [i \in Identities \cup ToSet(Concat(chunks)) |->
                        IF holding(i) = {} THEN blocks[i]
                        ELSE [type |-> t, data |-> returned(i)]]
       /\ UNCHANGED <<identityTypes, typeCounts, nextIdentity, pools, dead>>

(* convert_from_soa *)
ConvertFromSoA(t) ==
    /\ layout[t] = "SoA" /\ t \in DOMAIN soa
    /\ ReturnToMap(t, <<soa[t]>>)
    /\ soa' = Without(soa, {t})
    /\ Adopt(t, "AoS", "SoA")
    /\ UNCHANGED <<chunkSize, aosoa, archetype>>

(* convert_from_aosoa *)
ConvertFromAoSoA(t) ==
    /\ layout[t] = "AoSoA" /\ t \in DOMAIN aosoa
    /\ ReturnToMap(t, aosoa[t].chunks)
    /\ aosoa' = Without(aosoa, {t})
    /\ Adopt(t, "AoS", "AoSoA")
    /\ UNCHANGED <<chunkSize, soa, archetype>>

(* convert_from_archetype *)
ConvertFromArchetype(t) ==
    /\ layout[t] = "Archetype" /\ t \in DOMAIN archetype
    /\ ReturnToMap(t, archetype[t].chunks)
    /\ archetype' = Without(archetype, {t})
    /\ Adopt(t, "AoS", "Archetype")
    /\ UNCHANGED <<chunkSize, soa, aosoa>>

ConvertFrom(t) == ConvertFromSoA(t) \/ ConvertFromAoSoA(t) \/ ConvertFromArchetype(t)

(* The six conversions of the runtime's interface, where they do something. *)
DirectConversion(t) ==
    \/ ConvertToSoA(t)
    \/ ConvertToAoSoA(t, chunkSize[t].AoSoA)
    \/ ConvertToArchetype(t, chunkSize[t].Archetype)
    \/ ConvertFrom(t)

(* A chunk size of 0 in the command leaves the descriptor's. *)
Asked(n, old) == IF n > 0 THEN n ELSE old

(* ConvertLayoutHandler::execute towards layout l. *)
CommandConvert(t, l, n) ==
    \/ l = "SoA" /\ ConvertToSoA(t)
    \/ l = "AoSoA" /\ ConvertToAoSoA(t, Asked(n, chunkSize[t].AoSoA))
    \/ l = "Archetype" /\ ConvertToArchetype(t, Asked(n, chunkSize[t].Archetype))
    \/ l = "AoS" /\ ConvertFrom(t)

-----------------------------------------------------------------------------
(* What the stores hold, and what can be read of a block. *)

(* soa_block_count and its kind count these. *)
SoAIds(t)       == IF t \in DOMAIN soa THEN soa[t].ids ELSE << >>
AoSoAIds(t)     == IF t \in DOMAIN aosoa THEN Concat(aosoa[t].chunks) ELSE << >>
ArchetypeIds(t) == IF t \in DOMAIN archetype THEN Concat(archetype[t].chunks) ELSE << >>

DenseIds(t) == SoAIds(t) \o AoSoAIds(t) \o ArchetypeIds(t)

(* The value of field k in row n of some columns, if they reach that far:  *)
(* a set of at most one value, as a pointer that may be null.              *)
Cells(t, columns, k, n) ==
    LET f == ColumnsOf(t)[k] IN
    IF (n + 1) * f.size <= Len(columns[k])
    THEN {SubSeq(columns[k], n * f.size + 1, (n + 1) * f.size)} ELSE {}

(* What read_field's three searches of the dense stores find. *)
ReadSoA(i, t, k) ==
    IF t \in DOMAIN soa /\ i \in DOMAIN soa[t].index
    THEN Cells(t, soa[t].columns, k, soa[t].index[i]) ELSE {}

ReadAoSoA(i, t, k) ==
    IF i \in ToSet(AoSoAIds(t))
    THEN LET chunks == aosoa[t].chunks
             chunk  == chunks[Min({c \in DOMAIN chunks : i \in ToSet(chunks[c].ids)})] IN
         Cells(t, chunk.columns, k, Position(i, chunk.ids))
    ELSE {}

ReadArchetype(i, t, k) ==
    IF t \in DOMAIN archetype /\ i \in DOMAIN archetype[t].sparse
    THEN LET at == archetype[t].sparse[i] IN
         IF at[1] + 1 \in DOMAIN archetype[t].chunks
         THEN Cells(t, archetype[t].chunks[at[1] + 1].columns, k, at[2]) ELSE {}
    ELSE {}

(* read_field: the block map first, then each store. *)
ReadField(i, t, k) ==
    IF i \in Identities
    THEN LET f == ColumnsOf(t)[k]
             d == blocks[i].data IN
         {SubSeq(d, f.offset + 1, Least(f.offset + f.size, Len(d)))}
    ELSE IF ReadSoA(i, t, k) # {} THEN ReadSoA(i, t, k)
    ELSE IF ReadAoSoA(i, t, k) # {} THEN ReadAoSoA(i, t, k)
    ELSE ReadArchetype(i, t, k)

(* Mutant: the first of several chunks is taken for the whole column. *)
BulkFieldData_FirstChunk(t, k) ==
    IF t \in DOMAIN soa THEN soa[t].columns[k]
    ELSE IF t \in DOMAIN aosoa /\ aosoa[t].chunks # << >>
    THEN aosoa[t].chunks[1].columns[k]
    ELSE IF t \in DOMAIN archetype /\ Len(archetype[t].chunks) = 1
    THEN archetype[t].chunks[1].columns[k]
    ELSE << >>

(* bulk_field_data: SoA, then a store of exactly one chunk. *)
BulkFieldData(t, k) ==
    IF t \in DOMAIN soa THEN soa[t].columns[k]
    ELSE IF t \in DOMAIN aosoa /\ Len(aosoa[t].chunks) = 1
    THEN aosoa[t].chunks[1].columns[k]
    ELSE IF t \in DOMAIN archetype /\ Len(archetype[t].chunks) = 1
    THEN archetype[t].chunks[1].columns[k]
    ELSE << >>
=============================================================================
