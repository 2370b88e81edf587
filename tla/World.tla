------------------------------- MODULE World --------------------------------
(***************************************************************************)
(* The runtime's data: the block store, the dense layout stores, the       *)
(* relationships, and the snapshots that save and load take and restore,   *)
(* under calls of the host and ticks that execute commands.                *)
(***************************************************************************)
EXTENDS LayoutStore, Relationships

CONSTANTS
    NewLayouts,   \* the layouts a descriptor may be registered with
    MaxSaved,     \* bound on the identities issued by a host that reloads
    MaxLoads,     \* bound on the loads of a behaviour
    Uses          \* sets of the facilities a host uses: each behaviour has one

VARIABLES
    uses,       \* what the host of this behaviour uses
    phase,      \* "host" between ticks, "tick" while commands are processed,
                \* "cleanup" from the counters' rebuild to the end of the tick
    loads,      \* the number of loads so far
    names,      \* the keys of type_name_to_id_
    saved       \* a set of at most one: the snapshot the host holds, with what
                \* could be read of its blocks when it was taken (history)

worldVars == <<storeVars, registered, layoutVars, relationVars, uses, loads, phase, names, saved>>

Facilities == {"write", "convert", "order", "mix", "ephemeral", "relate", "reload"}

ASSUME HostAssumption ==
    /\ NewLayouts \subseteq Layouts /\ MaxSaved \in Nat /\ MaxLoads \in Nat
    /\ Uses \subseteq SUBSET Facilities

WorldInit ==
    /\ uses \in Uses
    /\ BMInit
    /\ registered = {}
    /\ LayoutInit
    /\ RelationsInit
    /\ phase = "host"
    /\ names = {}
    /\ saved = {}
    /\ loads = 0

-----------------------------------------------------------------------------
(* register_block_type, for a descriptor of layout l.  A name that is taken *)
(* is refused, even when its type is no longer registered.                 *)
RegisterNamed(t, l) ==
    /\ phase = "host"
    /\ t \notin names
    /\ t \in Ephemeral => "ephemeral" \in uses
    /\ RegisterBlockType(t)
    /\ names' = names \cup {t}
    /\ layout' = [layout EXCEPT ![t] = l]
    /\ chunkSize' = [chunkSize EXCEPT ![t] = DefaultChunks]
    /\ UNCHANGED <<storeVars, soa, aosoa, archetype, mixed, relationVars, uses, loads, phase, saved>>

HostCall ==
    /\ phase = "host"
    /\ \/ /\ "reload" \in uses => nextIdentity < MaxSaved
          /\ \E t \in registered : Create(t) \/ CreateEphemeral(t)
       \/ \E i \in Identities : Destroy(i)
    /\ UNCHANGED <<registered, layoutVars, relationVars, uses, loads, phase, names, saved>>

(* Without "mix", no host converts a type whose rows would be mixed up. *)
KeepsApart(t) == "mix" \in uses \/ t \notin mixed'

HostConverts ==
    /\ phase = "host" /\ "convert" \in uses
    /\ \E t \in registered : DirectConversion(t) /\ KeepsApart(t)
    /\ UNCHANGED <<registered, relationVars, uses, loads, phase, names, saved>>

HostRelates ==
    /\ phase = "host" /\ "relate" \in uses
    /\ \E i, j \in 1..MaxIdentity : Relate(i, j, Identities) \/ Unrelate(i, j)
    /\ UNCHANGED <<storeVars, registered, layoutVars, uses, loads, phase, names, saved>>

(* process_pending on the next command. *)
ExecuteCommand ==
    /\ "write" \in uses /\ phase \in {"host", "tick"}
    /\ phase' = "tick"
    /\ \E p \in Payloads : Valid(p) /\ Execute(p)
    /\ UNCHANGED <<registered, layoutVars, relationVars, uses, loads, names, saved>>

ConvertCommand ==
    /\ "order" \in uses /\ phase \in {"host", "tick"}
    /\ phase' = "tick"
    /\ \E t \in registered, l \in Layouts, n \in ChunkSizes :
         CommandConvert(t, l, n) /\ KeepsApart(t)
    /\ UNCHANGED <<registered, relationVars, uses, loads, names, saved>>

FinishCommands ==
    /\ phase = "tick"
    /\ phase' = "cleanup"
    /\ RebuildCounts
    /\ UNCHANGED <<registered, layoutVars, relationVars, uses, loads, names, saved>>

DropEphemeral ==
    /\ phase = "cleanup"
    /\ DestroyLowestEphemeral(registered)
    /\ UNCHANGED <<registered, layoutVars, relationVars, uses, loads, phase, names, saved>>

FinishTick ==
    /\ phase = "cleanup" /\ EphemeralIds(registered) = {}
    /\ phase' = "host"
    /\ UNCHANGED <<storeVars, registered, layoutVars, relationVars, uses, loads, names, saved>>

-----------------------------------------------------------------------------
(* StateView::field and field_span, of the k-th field. *)
FieldOf(i, k) ==
    IF /\ i \in DOMAIN identityTypes
       /\ identityTypes[i] \in registered
       /\ k \in DOMAIN Fields[identityTypes[i]]
    THEN ReadField(i, identityTypes[i], k) ELSE {}

FieldSpan(t, k) ==
    IF t \in registered /\ k \in DOMAIN Fields[t] THEN BulkFieldData(t, k) ELSE << >>

-----------------------------------------------------------------------------
Persistent == {i \in Identities : blocks[i].type \notin registered \cap Ephemeral}

(* Mutant: blocks of ephemeral types are saved too. *)
Snapshot_Everything ==
    [blocks |-> blocks, registered |-> registered, layout |-> layout,
     aosoa |-> [t \in TypeIds |-> chunkSize[t].AoSoA],
     nextIdentity |-> nextIdentity, mixed |-> mixed]

(* What save copies: the block map without ephemeral blocks, the types but *)
(* for their archetype chunk sizes, and next_identity_.                    *)
Snapshot ==
    [blocks |-> [i \in Persistent |-> blocks[i]], registered |-> registered, layout |-> layout,
     aosoa |-> [t \in TypeIds |-> chunkSize[t].AoSoA],
     nextIdentity |-> nextIdentity, mixed |-> mixed]

(* History: the blocks that a save should keep but whose bytes are in a     *)
(* dense store, and the fields that can be read of each block to keep.     *)
Stored == {i \in DOMAIN identityTypes :
             \E t \in TypeIds \ (registered \cap Ephemeral) : i \in ToSet(DenseIds(t))}

TypeAt(i) == IF i \in Identities THEN blocks[i].type ELSE identityTypes[i]

Reads == [i \in Persistent \cup Stored |-> [k \in DOMAIN Fields[TypeAt(i)] |-> FieldOf(i, k)]]

Save ==
    /\ "reload" \in uses /\ phase = "host"
    /\ saved' = {[snapshot |-> Snapshot, reads |-> Reads, stored |-> Stored]}
    /\ UNCHANGED <<storeVars, registered, layoutVars, relationVars, uses, loads, phase, names>>

(* load, which consumes the snapshot.  set_blocks rebuilds the counters and *)
(* the identity-to-type map; the dense stores, the relationships and the   *)
(* names are left as they are.                                             *)
Load(s) ==
    /\ blocks' = s.blocks
    /\ identityTypes' = [i \in DOMAIN s.blocks |-> s.blocks[i].type]
    /\ typeCounts' = [t \in TypeIds |->
                        Cardinality({i \in DOMAIN s.blocks : s.blocks[i].type = t})]
    /\ registered' = s.registered
    /\ layout' = s.layout
    /\ chunkSize' = [t \in TypeIds |-> [DefaultChunks EXCEPT !.AoSoA = s.aosoa[t]]]
    /\ nextIdentity' = s.nextIdentity
    /\ mixed' = IF \E t \in TypeIds : DenseIds(t) # << >> THEN TypeIds ELSE mixed \cup s.mixed
    /\ UNCHANGED <<dead, pools, soa, aosoa, archetype, relationVars, names>>

HostLoads ==
    /\ phase = "host" /\ loads < MaxLoads
    /\ loads' = loads + 1
    /\ \E s \in saved : Load(s.snapshot)
    /\ saved' = {}
    /\ UNCHANGED <<uses, phase>>

(* The process ends and a new runtime is made; the snapshot survives.       *)
(* Bound: no process ends but to load in the next.                         *)
Restart ==
    /\ saved # {} /\ loads < MaxLoads
    /\ phase' = "host"
    /\ blocks' = [i \in {} |-> Blank] /\ identityTypes' = [i \in {} |-> Blank]
    /\ typeCounts' = [t \in TypeIds |-> 0] /\ nextIdentity' = 0
    /\ pools' = [t \in TypeIds |-> << >>] /\ dead' = {}
    /\ registered' = {} /\ names' = {}
    /\ layout' = [t \in TypeIds |-> "AoS"]
    /\ chunkSize' = [t \in TypeIds |-> DefaultChunks]
    /\ soa' = NoStore /\ aosoa' = NoStore /\ archetype' = NoStore
    /\ mixed' = {}
    /\ childrenOf' = [i \in {} |-> << >>] /\ parentsOf' = [i \in {} |-> << >>]
    /\ UNCHANGED <<uses, loads, saved>>

WorldNext ==
    \/ \E t \in TypeIds, l \in NewLayouts : RegisterNamed(t, l)
    \/ HostCall \/ HostConverts \/ HostRelates
    \/ ExecuteCommand \/ ConvertCommand \/ FinishCommands \/ DropEphemeral \/ FinishTick
    \/ Save \/ HostLoads \/ Restart

WorldSpec == WorldInit /\ [][WorldNext]_worldVars

-----------------------------------------------------------------------------
Unmixed == TypeIds \ mixed

(* Type invariant of the runtime's data. *)
WorldTypeOK ==
    /\ BMTypeOK
    /\ registered \subseteq TypeIds /\ names \subseteq TypeIds /\ mixed \subseteq TypeIds
    /\ layout \in [TypeIds -> Layouts]
    /\ chunkSize \in [TypeIds -> [AoSoA : Nat, Archetype : Nat]]
    /\ DOMAIN soa \cup DOMAIN aosoa \cup DOMAIN archetype \subseteq TypeIds
    /\ phase \in {"host", "tick", "cleanup"}
    /\ Cardinality(saved) <= 1

RowsOf(ids) == {<<n, ids[n]>> : n \in DOMAIN ids}

FullButLast(chunks, n) ==
    \A c \in DOMAIN chunks :
        /\ Len(chunks[c].ids) \in 1..n
        /\ c < Len(chunks) => Len(chunks[c].ids) = n

(* A block of a type that always passed through the block map between two  *)
(* dense layouts is held once, by the map or by the store of its type's    *)
(* layout, and the row that the store's index gives for it is its own.     *)
OnePlace ==
    \A t \in Unmixed :
        /\ Identities \cap ToSet(DenseIds(t)) = {}
        /\ Cardinality(ToSet(DenseIds(t))) = Len(DenseIds(t))
        /\ SoAIds(t) # << >> => layout[t] = "SoA"
        /\ AoSoAIds(t) # << >> => layout[t] = "AoSoA"
        /\ ArchetypeIds(t) # << >> => layout[t] = "Archetype"
        /\ t \in DOMAIN soa =>
             /\ DOMAIN soa[t].index = ToSet(soa[t].ids)
             /\ \A i \in ToSet(soa[t].ids) : <<soa[t].index[i] + 1, i>> \in RowsOf(soa[t].ids)
        /\ t \in DOMAIN aosoa => FullButLast(aosoa[t].chunks, aosoa[t].size)
        /\ t \in DOMAIN archetype =>
             /\ FullButLast(archetype[t].chunks, archetype[t].size)
             /\ DOMAIN archetype[t].sparse = ToSet(ArchetypeIds(t))
             /\ \A i \in ToSet(ArchetypeIds(t)) :
                  LET at == archetype[t].sparse[i] IN
                  /\ at[1] + 1 \in DOMAIN archetype[t].chunks
                  /\ <<at[2] + 1, i>> \in RowsOf(archetype[t].chunks[at[1] + 1].ids)

Known(t) == {i \in DOMAIN identityTypes : identityTypes[i] = t}

(* Creations, destructions, commands, cleanup and conversions, from one     *)
(* dense layout to another too, lose no block, invent none and duplicate   *)
(* none: the identities that the identity-to-type map gives a type are the *)
(* ones that the block map and the stores hold, each once, and all were    *)
(* issued.  After a load this is said of the types that are not mixed (no  *)
(* load found rows in a dense store).  The blocks that a save leaves out    *)
(* are the subject of SnapshotIsWhole.                                     *)
NothingLost ==
    /\ \A t \in TypeIds : loads = 0 \/ t \notin mixed =>
         /\ Known(t) = Ids(t) \cup ToSet(DenseIds(t))
         /\ Identities \cap ToSet(DenseIds(t)) = {}
         /\ Cardinality(ToSet(DenseIds(t))) = Len(DenseIds(t))
    /\ loads = 0 \/ mixed = {} => \A i \in DOMAIN identityTypes : i <= nextIdentity

(* SPEC-018: a conversion does not change what can be read of a block: a   *)
(* field that was read whole is read with the same value in the new layout.*)
(* This excepts fields that share bytes: of a block that was shortened      *)
(* their columns disagree about the bytes past its end.                    *)
Whole(i, t, k) == \E v \in FieldOf(i, k) : Len(v) = Fields[t][k].size

Apart(f, g) == f.offset + f.size <= g.offset \/ g.offset + g.size <= f.offset

Alone(t, k) == \A j \in DOMAIN Fields[t] \ {k} : Apart(Fields[t][j], Fields[t][k])

KeepsFields(t) ==
    \A i \in Ids(t) \cup ToSet(DenseIds(t)) : \A k \in DOMAIN Fields[t] :
        Alone(t, k) /\ Whole(i, t, k) => FieldOf(i, k)' = FieldOf(i, k)

Converts == layout' # layout /\ registered' = registered /\ saved' = saved

ConversionKeepsFields ==
    [][Converts => \A t \in TypeIds \ mixed' : KeepsFields(t)]_worldVars

(* The same of every type, as SPEC-018 has it: fails once a type has passed *)
(* from one dense layout to another.                                       *)
ConversionInvisible == [][Converts => \A t \in TypeIds : KeepsFields(t)]_worldVars

(* When no block was in a dense store at the save, a load, in this runtime  *)
(* or in a new one, brings back the blocks of the save that are not        *)
(* ephemeral: nothing else is in the map, the counters are those of the    *)
(* blocks, and what could be read of a block reads as it did.  (The last   *)
(* excepts a save after a load that itself left rows behind: they bring    *)
(* back blocks under identities that were issued again, to other types.)   *)
(* SnapshotIsWhole has no such condition.                                  *)
LoadRestores ==
    [][\A s \in saved : saved' = {} /\ s.stored = {} =>
         /\ Identities' = DOMAIN s.reads
         /\ DOMAIN identityTypes' = DOMAIN s.reads
         /\ s.snapshot.mixed # TypeIds =>
              \A i \in DOMAIN s.reads : \A k \in DOMAIN s.reads[i] :
                s.reads[i][k] \subseteq FieldOf(i, k)'
         /\ \A t \in TypeIds : typeCounts'[t] = Cardinality(Ids(t))']_worldVars

(* SPEC-009 has a snapshot capture the full simulation state, the bytes of *)
(* all data blocks included: after a load every block of the save reads as *)
(* it did.  Fails for a block that was in a dense store at the save.       *)
SnapshotIsWhole ==
    [][\A s \in saved : saved' = {} =>
         \A i \in DOMAIN s.reads :
           /\ i \in DOMAIN identityTypes'
           /\ \A k \in DOMAIN s.reads[i] : s.reads[i][k] \subseteq FieldOf(i, k)']_worldVars

(* StateView promises that field_span works across layouts: where it gives *)
(* the column of a type, cell by cell it is what field gives of the blocks *)
(* the type's store holds, in their order.                                 *)
BulkMatches ==
    \A t \in Unmixed : \A k \in DOMAIN Fields[t] :
        LET n == Fields[t][k].size IN
        FieldSpan(t, k) # << >> =>
          \A row \in DOMAIN DenseIds(t) : \A v \in FieldOf(DenseIds(t)[row], k) :
             /\ row * n <= Len(FieldSpan(t, k))
             /\ v = SubSeq(FieldSpan(t, k), (row - 1) * n + 1, row * n)
=============================================================================
