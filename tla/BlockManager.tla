---------------------------- MODULE BlockManager ----------------------------
(***************************************************************************)
(* The block store of the runtime: class BlockManager and the direct       *)
(* mutations that command handlers make on its maps through                *)
(* CommandContext.  A block's bytes are a sequence of cells; a cell is the *)
(* unit a SetField command writes.                                         *)
(*                                                                         *)
(* type_counts_ is a map in the code.  Every reader treats a missing entry *)
(* as zero (count(), the decrements), so typeCounts is total here.         *)
(***************************************************************************)
EXTENDS Integers, Sequences, FiniteSets

CONSTANTS
    TypeIds,       \* every type id that may ever be registered
    Ephemeral,     \* the type ids whose descriptor has ephemeral = true
    SizeOf,        \* descriptor size (in cells) of each type id
    Values,        \* what a cell may hold
    Blank,         \* the value of a zero-initialised cell
    Sizes,         \* the sizes a resize may ask for
    Offsets,       \* the cells a SetField may write
    MaxIdentity    \* bound on next_identity_

ASSUME EphemeralAssumption == Ephemeral \subseteq TypeIds
ASSUME SizeAssumption      == SizeOf \in [TypeIds -> Nat]
ASSUME BlankAssumption     == Blank \in Values
ASSUME RangeAssumption     == Sizes \subseteq Nat /\ Offsets \subseteq Nat \ {0}
ASSUME IdentityAssumption  == MaxIdentity \in Nat

VARIABLES
    blocks,         \* blocks_: identity -> [type, data]
    identityTypes,  \* identity_types_: identity -> type id
    typeCounts,     \* type_counts_
    nextIdentity,   \* Runtime::next_identity_, passed by reference
    pools,          \* buffer_pools_: released buffers of each type, newest last
    dead            \* history variable: identities that were once destroyed

storeVars == <<blocks, identityTypes, typeCounts, nextIdentity, pools, dead>>

Identities == DOMAIN blocks
Data       == Seq(Values)

Ids(t) == {i \in Identities : blocks[i].type = t}

-----------------------------------------------------------------------------
(* DataBlock::resize and flat_vector::resize: keep the prefix, zero the rest. *)
Resized(d, n) == [k \in 1..n |-> IF k <= Len(d) THEN d[k] ELSE Blank]

(* DataBlock's size constructor. *)
Zeroed(n) == Resized(<<>>, n)

(* Mutant: the recycled buffer is resized without being cleared. *)
Refilled_KeepsBytes(buf, n) == Resized(buf, n)

(* acquire_buffer clears the recycled buffer before it resizes it. *)
Refilled(buf, n) == Zeroed(n)

HasBuffer(t) == pools[t] # <<>>

Extend(f, x, v) == [y \in DOMAIN f \cup {x} |-> IF y = x THEN v ELSE f[y]]
Without(f, S)   == [y \in DOMAIN f \ S |-> f[y]]

(* The decrements `if (tc->second > 0) tc->second--`, once for each block. *)
Monus(a, b) == IF a >= b THEN a - b ELSE 0

-----------------------------------------------------------------------------
BMInit ==
    /\ blocks = [i \in {} |-> Blank]
    /\ identityTypes = [i \in {} |-> Blank]
    /\ typeCounts = [t \in TypeIds |-> 0]
    /\ nextIdentity = 0
    /\ pools = [t \in TypeIds |-> << >>]
    /\ dead = {}

(* Mutant: next_identity++ for ++next_identity. *)
Insert_PostIncrement(t, d) ==
    /\ nextIdentity < MaxIdentity
    /\ nextIdentity' = nextIdentity + 1
    /\ blocks' = Extend(blocks, nextIdentity, [type |-> t, data |-> d])
    /\ identityTypes' = Extend(identityTypes, nextIdentity, t)
    /\ typeCounts' = [typeCounts EXCEPT ![t] = @ + 1]
    /\ dead' = dead

(* The insertions every creation path makes, for a block whose bytes are d. *)
Insert(t, d) ==
    LET id == nextIdentity + 1 IN
    /\ nextIdentity < MaxIdentity
    /\ nextIdentity' = id
    /\ blocks' = Extend(blocks, id, [type |-> t, data |-> d])
    /\ identityTypes' = Extend(identityTypes, id, t)
    /\ typeCounts' = [typeCounts EXCEPT ![t] = @ + 1]
    /\ dead' = dead

(* Mutant: the counter of a type drops once however many targets are erased. *)
Erase_OneDecrement(S) ==
    /\ blocks' = Without(blocks, S)
    /\ identityTypes' = Without(identityTypes, S)
    /\ typeCounts' =
         [t \in TypeIds |-> Monus(typeCounts[t], IF S \cap Ids(t) = {} THEN 0 ELSE 1)]
    /\ dead' = dead \cup S
    /\ UNCHANGED nextIdentity

(* Mutant: destroying blocks gives their identities back. *)
Erase_GivesBack(S) ==
    /\ blocks' = Without(blocks, S)
    /\ identityTypes' = Without(identityTypes, S)
    /\ typeCounts' =
         [t \in TypeIds |-> Monus(typeCounts[t], Cardinality(S \cap Ids(t)))]
    /\ dead' = dead \cup S
    /\ nextIdentity' = nextIdentity - Cardinality(S)

(* The erasures every destruction path makes, for the found targets S. *)
Erase(S) ==
    /\ blocks' = Without(blocks, S)
    /\ identityTypes' = Without(identityTypes, S)
    /\ typeCounts' =
         [t \in TypeIds |-> Monus(typeCounts[t], Cardinality(S \cap Ids(t)))]
    /\ dead' = dead \cup S
    /\ UNCHANGED nextIdentity

(* create: reuses the newest recycled buffer of the type when there is one. *)
Create(t) ==
    \/ /\ HasBuffer(t)
       /\ Insert(t, Refilled(pools[t][Len(pools[t])], SizeOf[t]))
       /\ pools' = [pools EXCEPT ![t] = SubSeq(@, 1, Len(@) - 1)]
    \/ /\ ~HasBuffer(t)
       /\ Insert(t, Zeroed(SizeOf[t]))
       /\ UNCHANGED pools

(* create_ephemeral: the same, refused for a type that is not ephemeral. *)
CreateEphemeral(t) == t \in Ephemeral /\ Create(t)

(* recycle_buffer drops empty buffers. *)
Recycled(pool, d) == IF d = << >> THEN pool ELSE Append(pool, d)

(* destroy: only this path and DestroyEphemeral recycle the buffer. *)
Destroy(id) ==
    /\ id \in Identities
    /\ Erase({id})
    /\ pools' = [pools EXCEPT ![blocks[id].type] = Recycled(@, blocks[id].data)]

(* One round of destroy_all_ephemeral's second loop: the lowest identity   *)
(* first.  types is the set of registered types.                           *)
EphemeralIds(types) == {i \in Identities : blocks[i].type \in types \cap Ephemeral}

DestroyLowestEphemeral(types) ==
    \E id \in EphemeralIds(types) :
        /\ \A other \in EphemeralIds(types) : id <= other
        /\ Destroy(id)

(* rebuild_counts *)
RebuildCounts ==
    /\ typeCounts' = [t \in TypeIds |-> Cardinality(Ids(t))]
    /\ UNCHANGED <<blocks, identityTypes, nextIdentity, pools, dead>>

-----------------------------------------------------------------------------
(* What the command handlers do to the maps of CommandContext. *)

(* CreateBlockHandler::execute: never takes a recycled buffer. *)
CommandCreate(t) == Insert(t, Zeroed(SizeOf[t])) /\ UNCHANGED pools

(* DestroyBlockHandler::execute: skips targets already gone; no recycling. *)
CommandDestroy(targets) == Erase(targets \cap Identities) /\ UNCHANGED pools

(* The handlers that rewrite the bytes of their targets. *)
Rewrite(targets, New(_)) ==
    /\ blocks' = [i \in Identities |->
                    IF i \in targets
                    THEN [blocks[i] EXCEPT !.data = New(@)] ELSE blocks[i]]
    /\ UNCHANGED <<identityTypes, typeCounts, nextIdentity, pools, dead>>

CommandResize(targets, n) == Rewrite(targets, LAMBDA d : Resized(d, n))

(* The caller has validated that the field fits every target. *)
FieldFits(targets, offset) == \A i \in targets : offset <= Len(blocks[i].data)

CommandSetField(targets, offset, v) ==
    Rewrite(targets, LAMBDA d : [d EXCEPT ![offset] = v])

-----------------------------------------------------------------------------
(* The store on its own: any caller, any registry, any targets. *)
BMNext ==
    \/ \E t \in TypeIds : Create(t) \/ CreateEphemeral(t) \/ CommandCreate(t)
    \/ \E id \in Identities : Destroy(id)
    \/ \E types \in SUBSET TypeIds : DestroyLowestEphemeral(types)
    \/ RebuildCounts
    \/ \E targets \in SUBSET (1..MaxIdentity) :
         \/ CommandDestroy(targets)
         \/ \E n \in Sizes : CommandResize(targets, n)
         \/ \E k \in Offsets, v \in Values :
              FieldFits(targets \cap Identities, k) /\ CommandSetField(targets, k, v)

BMSpec == BMInit /\ [][BMNext]_storeVars

-----------------------------------------------------------------------------
(* Type invariant of the block store. *)
BMTypeOK ==
    /\ nextIdentity \in 0..MaxIdentity
    /\ Identities \subseteq 1..MaxIdentity
    /\ blocks \in [Identities -> [type : TypeIds, data : Data]]
    /\ DOMAIN identityTypes \subseteq 1..MaxIdentity
    /\ identityTypes \in [DOMAIN identityTypes -> TypeIds]
    /\ typeCounts \in [TypeIds -> Nat]
    /\ pools \in [TypeIds -> Seq(Data)]
    /\ dead \subseteq 1..MaxIdentity

(* The block map, the identity-to-type map and the per-type counters are   *)
(* written at five places (create, create_ephemeral, destroy, the cleanup  *)
(* loop and two command handlers); they never disagree, and the clamp at   *)
(* zero in the decrements never hides a lost count.                        *)
IndexesAgree ==
    /\ identityTypes = [i \in Identities |-> blocks[i].type]
    /\ \A t \in TypeIds : typeCounts[t] = Cardinality(Ids(t))

(* SPEC-005: destroyed identities are not reused.  Whatever the order of   *)
(* creations and destructions by the API, by commands and by the cleanup,  *)
(* an identity that was destroyed never names a live block again.          *)
IdentitiesNotReused == dead \cap Identities = {}

(* A block is born with zeroed bytes of its descriptor's size, whether or  *)
(* not its buffer was recycled from a block that held data or was resized. *)
FreshBlocksAreBlank ==
    [][\A i \in Identities' \ Identities :
          blocks'[i].data = Zeroed(SizeOf[blocks'[i].type])]_storeVars
=============================================================================
