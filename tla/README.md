# GameAK runtime: TLA+ models and proofs

GameAK is a C++ library for game worlds. A `Runtime` keeps *data blocks* (typed byte buffers with an identity); *controllers* look at them and produce *commands*; a *tick* runs the controllers, processes the commands, announces what changed and removes ephemeral blocks. This directory models the runtime in TLA+, checks the models with TLC and proves the central invariants with TLAPS.

Sources are named relative to the repository root; `runtime.h` and the other headers without a path are in `Include/GameAk/Runtime/`.

## Inventory

| Component | State | Operations | Hard parts | What makes it correct |
|---|---|---|---|---|
| Block store (`block_manager.h`, `data_block.h`) | `blocks_`, `identity_types_`, `type_counts_`, `buffer_pools_`, `next_identity_` | create, create_ephemeral, destroy, destroy_all_ephemeral, rebuild_counts, set_blocks | one fact kept in three maps, written at five places; recycled buffers; counters clamped at zero | the maps agree; identities are not reused; a new block is blank |
| Commands and handlers (`command*.h`, `cmd_*_handler.h`) | none of their own; they write the store through `CommandContext` | validate and execute for CreateBlock, DestroyBlock, ResizeBlock, SetField, ConvertLayout | several targets per command, validated during the tick | all targets or none |
| FIFO scheduler (`scheduler_base.h`, `fifo_scheduler.h`) | `pending_`, `cancelled_`, `rejected_details_`, `history_`, counters | enqueue, cancel, process_pending, take_rejected, reset_counts | cancellation of ids in any state; lists that outlive the tick | each command is settled once, in order |
| Runtime tick (`runtime.h` 600-827) | `paused_`, the tick's locals | tick, pause, resume, submit, cancel, replay | callbacks and controllers that call back in the middle of it; order of snapshot, commands, diff, cleanup, callbacks | results and events tell what happened |
| Controller dispatch (`runtime.h` 648-761) | `controllers_`, the groups of a tick | register_controller, stable sort, group formation, executor | order over several ticks; data races in a parallel group | conflicting controllers do not run together; order; no submission lost |
| Block types (`runtime.h` 504-548, `block_type.h`) | `types_`, `type_name_to_id_`, `next_block_type_id_` | register_block_type, define().done() | automatic ids meeting explicit ones | one descriptor per id and per name |
| Event bus and after_tick (`event_bus.h`) | handler lists, two id counters | listen, unlisten, fire, after_tick | handlers that register or unregister during iteration; two counters in one id space | unlisten removes the handler it names |
| Layouts (`layout_manager.h`, `cmd_convert_layout_handler.h`) | SoA, AoSoA and Archetype stores | convert_to_x, convert_from_x | blocks leave the block map; conversions one after the other | no block is lost; layout is invisible to commands |
| Snapshot (`runtime.h` 831-872) | a copy of blocks, types and next identity | save, load | state that the copy leaves out | load restores what was saved |
| Fixed timestep (`runtime.h` 606-634) | `fixed_timestep_`, `accumulator_` | tick | the loop rereads members that callbacks may set | no time is lost; the loop ends |
| Priority scheduler (`priority_scheduler.h`) | as FIFO, and a priority function | process_pending | unstable sort | order by priority, then by submission |
| Relationships (`relationship_manager.h`) | two maps of lists | relate, unrelate | two maps updated one after the other; duplicates | the maps mirror each other |
| Event loop, Fsm, rules, pipeline | queues and tables shared by a built controller | enqueue, on, off, build | events queued during dispatch; a second build | no event is lost |
| Containers (`Core/rb_tree.h`, `avl_tree.h`, `flat_vector.h`, bit containers, `semantic.h`) | trees, arrays, words | insert, erase, find, resize | fix-ups; boundaries at word size | behave as the mathematical map, sequence or set |
| Result, Error, builder, configuration, platform, SIMD, logging | none that changes | | | |

How they interact: the host calls the runtime between ticks. `tick` fires TickBegin (handlers call back), resets the scheduler's counters, runs the controllers (they submit commands and create ephemeral blocks at once), copies the block map if a block event has a listener, lets the scheduler process its queue (the handlers write the store's maps directly through `CommandContext`), fires the difference as BlockCreated and BlockDestroyed, takes the rejection list, rebuilds the counters, destroys the ephemeral blocks, calls the after_tick callbacks with the result and fires TickEnd. Everything runs on one thread, except a group of controllers handed to a parallel executor.

## Modules

| Module | Models | Correspondence |
|---|---|---|
| `BlockManager` | the block store and what command handlers do to its maps | a variable for each member; `Create`, `CreateEphemeral`, `Destroy`, `DestroyLowestEphemeral` (one round of the cleanup loop), `RebuildCounts`, and `Command...` for the handlers' `execute` |
| `RuntimeCommands` | type registration, payloads, `validate` (`Valid`) and `execute` (`Execute`) | extends `BlockManager` |
| `CommandScheduler` | `FifoScheduler`, `process_command`, `submit_command`, `cancel_command`, `replay_command` | extends `RuntimeCommands`; `Skip`, `Reject` and `Run` are the three ways through `process_command` |
| `GameRuntime` | `execute_single_tick` in phases, and the calls around and inside it | extends `CommandScheduler`; `phase` is the place in the function where code outside the runtime, or the next command, is about to run |
| `CommandLedger` | abstract specification of command submission | ids issued in order, settled once, oldest first, skipped exactly if withdrawn in time |
| `CommandLog` | the refinement `GameRuntime` => `CommandLedger`, the history as a log, liveness | the refinement mapping hides `cancelled_` entries whose command is settled |
| `LayoutStore` | `LayoutManager`: three dense stores, six conversions, `ConvertLayoutHandler::execute`, `read_field`, `bulk_field_data` | extends `RuntimeCommands`; a variable for each storage map, columns cell by cell |
| `Relationships` | `RelationshipManager` | the two maps of lists |
| `World` | the runtime's data as a whole: store, layouts, relationships, named registration, `save`, `load`, restart | extends the two above; a tick is its commands, the rebuild of the counters and the cleanup |
| `RangeFor` | a range-for over a `flat_vector` whose body is user code | used by the next five; `wild` is set when a loop is to read a slot without a live object |
| `EventHandlers` | `EventBus::listen`, `after_tick`, `Runtime::unlisten` | a list per event and the list of callbacks, two counters |
| `TickLoop` | `Runtime::tick` with a fixed timestep, and the handlers of a sub-tick | `phase` and `walk` are the place where user code runs |
| `EventLoop`, `Fsm`, `RuleSystem`, `Pipeline` | the ready-made controllers | the builder's members, and the loop of a run; what builder and controller share is one variable |
| `Callbacks` | the loops of `TickLoop`, `EventLoop`, `Fsm`, `RuleSystem` and `Pipeline`, one in each behaviour | |
| `SearchTree` | what `rb_tree` and `avl_tree` share: links, rotation, search, unlinking, iteration | a node is named by its key; its links are indexed by direction |
| `RbTree`, `AvlTree` | insert and erase, a round of a fix-up loop as one action | extend `SearchTree` |
| `Dictionary` | abstract specification of both trees | a map under put and remove |
| `IntrusiveList` | `intrusive_list` | `next`, `prev` and the sizes of two lists over the callers' nodes |
| `BitVector` | `BitVector` | the number of words and the set of one bits |
| `FlatVector` | `flat_vector` of elements with destructors | slots that are raw, live or moved from, inline or on the heap |
| `Containers` | those five, one kind in each behaviour | |
| `ControllerDispatch` | sort, groups, sequential and parallel execution of one tick's controllers | stands alone; `submit_command` is split into the loads and stores that can interleave |
| `Lists` | what the code does to a whole `flat_vector`: the stable sort, elements taken out | recursive functions; used by `ControllerDispatch`, `EventHandlers`, `EventLoop`, `Pipeline` and `RuleSystem` |
| `BlockManager_proofs`, `GameRuntime_proofs`, `CommandLog_proofs`, `ControllerDispatch_proofs`, `World_proofs`, `Callbacks_proofs`, `Containers_proofs` | theorems, each about the module of its name | |
| `DataLemmas` | lemmas on numbers, lists and products that these share | |
| `MC...` | constants for TLC | `MCDataAndDispatch` puts `World` and `ControllerDispatch`, `MCParts` puts `Callbacks` and `Containers` into one run each, one of the two in each behaviour, because they share no state |

Abstractions. A block's bytes are a few cells, and a SetField writes one; offsets are small numbers, so the code's sum of offset and length never wraps here. `type_counts_` is total, with 0 for a missing entry, which is how every reader treats it. Identity 0 is the invalid identity and never live. A list of targets is a set: the handlers skip a target met a second time. `cancelled_` is the number of entries for each id, because only one matching entry is looked for and erased. `rb_tree` is a function. `dead`, `outcome`, `batch`, `made`, `killed`, `joined`, `started` and `sent` are history variables: no guard of an action reads them. Handlers of block events are assumed not to modify the runtime, as SPEC-017 demands. Which controller does what is not distinguished in `GameRuntime`: in the phase `controllers`, anything a controller may do can happen any number of times.

In `ControllerDispatch` the unlocked accesses of a parallel group are a data race, undefined in C++; the outcomes modelled are those of the loads and stores in program order, with `++end_` using a fresh or an earlier load. The queue stays within its inline capacity (4 in the code), so the reallocation that a race could also disturb is left out.

In `World` a behaviour is about a host that uses a certain set of facilities (`uses`): field writes and resizes by command, conversions by call or by command, ephemeral blocks, relationships, save and load. The sets that TLC explores pair those that touch each other's state; all of them at once would be too many states. A type passes into `mixed` (a history variable) when it goes from one dense layout to another, or when a snapshot is loaded while dense stores hold blocks; the code then loses or mixes rows, which `layout_conversion` shows of the conversions. `OnePlace`, `ConversionKeepsFields` and `BulkMatches` speak of the other types; `NothingLost` speaks of every type until the first load, so that a conversion from one dense layout straight to another is covered by it too (it leaves blocks behind, but loses and duplicates none), and of the types that are not mixed after that. A restart discards the process: what a snapshot then lacks is gone, and `NothingLost`, which compares the identity-to-type map with the map and the stores of one process, cannot tell; `SnapshotIsWhole` does. `saved` holds, beside the snapshot, what could be read of each block at the save (`Reads`) and which blocks lay in a dense store (`Stored`): both are history, and `SnapshotIsWhole` and `LoadRestores` measure by them, not by the block map. `LoadRestores` is about saves with nothing in a dense store. It demands the fields' values only while some type is not mixed: with more than one load, rows that an earlier load left behind in a dense store bring back blocks under identities that have been issued again to another type, and a second save and load reads those with other fields. `dead` records destructions of the process and is not rolled back by a load. Relationships are not among the contents that SPEC-009 lists for a snapshot, so nothing is demanded of them across a restart. A host without the facility `mix` never converts from one dense layout to another. The bytes that a copy reads past the end of a block shortened by a resize are arbitrary (`junk`). Types are registered with layout AoS in the run (`NewLayouts`); a type registered with a dense layout has no store until it is converted, and no conversion to that same layout does anything.

In `Callbacks`, `tick` is not called from within a tick. Time is integral, so the rounding of `float` sums is left out; a timestep that is not positive means none, as in the code. `PushMoves` lets a push beyond the inline slots keep or move the buffer, because the capacity depends on how long the vector ever was; if a loop is still to read the old buffer the behaviour becomes `wild` and nothing is said of what follows. The closure that is running is assumed to survive the move of the slot it lies in. The owner of a handler calls `unlisten` once for it. A state of `Fsm` without an entry or exit action has one that does nothing, and the machine followed is the one built last. The member `initial_state_` of an `Fsm` that was given none has one value, `DefaultState`; of a scalar type it is indeterminate in the code, and the theorems hold for every value it may have.

In `Containers`, erasing a node with two children moves the successor's key into it, so the node takes the successor's name in the model; colours and factors stay with the node. `FlatVector` records in `torn` that `erase` assigned to destroyed elements, which is undefined, and follows the outcome for elements that bear it. A `push_back` of an element of the vector itself, which a growth moves from before it is copied, is left out: no caller does it.

## Runs

| Run | Bounds | Shows |
|---|---|---|
| `runtime` | 2 types (one ephemeral), 4 identities, 2 commands, 1 cancellation per id, direct calls allowed | `IndexesAgree`, `IdentitiesNotReused`, `FreshBlocksAreBlank`, `ResultTellsTheBatch`, `EventsTellNetEffect`, `NoEphemeralAfterTick`, `AllOrNothing`. Two commands in one tick or in two, on one or two targets that exist, do not exist yet or have just been destroyed or shrunk; blocks written or resized by a command, destroyed, and their buffers used again by the host |
| `command_log` | 1 persistent type, 3 identities, 3 commands, 1 cancellation per id, commands only | `ImplementsLedger`, `HistoryRebuildsBlocks`, `EveryCommandSettles` under `FairSpec` |
| `data_and_dispatch`, the data | a type of two one-cell fields and an ephemeral type without fields, 3 identities, 2 relations, chunks of 8, 64 or 2, 1 load | `OnePlace`, `NothingLost`, `ConversionKeepsFields`, `BulkMatches`, `MapsMirror`, `LoadRestores`. Three blocks fill more than one chunk of two; a block can be resized to end before its second field; one set of facilities has conversions from one dense layout straight to another, and mixed types are then left to `NothingLost` |
| `data_and_dispatch`, the dispatch | 5 controllers that overlap pairwise, in a chain or not at all, 2 submissions | `NoConflict`, `RunOnceInOrder`, `SequentialSubmissions`, over every order of registration between ticks |
| `parts`, the loops | 1 bus handler and 2 callbacks, timestep 2 with deltas of 3, 3 events of 2 types, 3 event handlers and 2 built loops, machines of 2 states and 2 events with 4 calls of the builder, 4 rules of 2 priorities, 3 stages | `TimeAccounted`, `TickEnds`, `WorstStatusWins`, `HandlersCalledOnce`, `EventsHandled`, `FsmFollowsTable`, `RulesInOrder`, `StagesReported` |
| `parts`, the containers | `rb_tree` with 8 keys, `avl_tree` with 5, two lists of 3 nodes, 5 bits in words of 2, two vectors of up to 3 elements with 1 inline slot | `IteratesInOrder`, `ImplementsDictionary`, `RbBalanced`, `CallsReturn`, `RingsClosed`, `BitsKept`, `SlotsLive`. Eight keys reach every case of both red-black loops |
| `ephemeral_events` | as `runtime` | violation: `NoEventForEphemeral` |
| `dispatch_priority` | as in `data_and_dispatch` | violation: `OverlapInPriorityOrder` |
| `dispatch_parallel` | as in `data_and_dispatch` | violation: `ParallelSubmissions` |
| `layout_conversion` | the types of `data_and_dispatch`, 2 identities, the facility `mix` | violation: `ConversionInvisible` |
| `snapshot_save` | the types of `data_and_dispatch`, a host that converts, saves and loads | violation: `SnapshotIsWhole` |
| `handler_ids` | as in `parts`, the tick loop only; the bus handler has the number of the second callback | violation: `RemovedByOwner` |
| `event_loop` | as in `parts`, the event loop only | violation: `EveryEventSeen` |
| `avl_balance` | as in `parts`, `avl_tree` only | violation: `AvlBalanced` |

The bounds, by name: `MaxIdentity` caps `next_identity_`, `MaxCommands` and `MaxCommandId` cap `next_command_id_`, `MaxCancels` caps the `cancel_command` calls for one id, `Room` keeps an identity back for each command that may still create a block, so that the identity bound never stops a tick, and `Capacity` is the queue's storage. `MaxSaved` and `MaxLoads` bound a host that saves and reloads (a process ends only to load in the next), `MaxRelations` the entries of the relationship maps; `MaxListen`, `MaxAfter`, `MaxOn`, `MaxEvents`, `MaxLoops`, `MaxFsmCalls`, `MaxRules` and `MaxStages` cap the calls that add something to a loop, `MaxTime` the accumulator; `MaxBits` and `MaxLength` the lengths that callers ask of a container. Removals, runs and conversions are not bounded. Ticks are not bounded. Deadlock is checked in every run.

Fairness. In `GameRuntime!Fairness`: `WF_vars(TickStep)`: a tick that has begun goes on, because it is straight code and its callbacks return. `SF_vars(BeginTick)`: the host goes on calling `tick`, and a call made while the runtime is not paused begins a tick; strong fairness is needed because a host may pause and resume between its calls. Nothing is assumed of the calls that submit, cancel, pause or fail. `EveryCommandSettles` is conditional on the runtime not being left paused. `Callbacks` has `WF(TickRuns)`: a tick that has begun goes on, for the same reason; nothing says that its handlers stop setting the timestep. `TickEnds` excepts a tick that clears its own timestep, see below. The two specifications keep their fairness where they are put into one run. `Containers` has `WF(RbRuns)`: a fix-up loop is straight code that nothing interrupts.

### Disagreements with the documents

* *Ephemeral blocks by command.* SPEC-024:137-147 says that ephemeral blocks cannot be created by a command and fire no block events. `CreateBlockHandler::validate` looks only for the type, so such a command runs, enters the history and is announced as created; the cleanup then destroys the block without an event.
* *Priority among overlapping controllers.* SPEC-034:35-39 promises that controllers touching the same type keep their priority order. With A {1}, B {1,2}, C {2} in falling priority, the first-fit groups are {A, C}, {B}: C runs before B.
* *Layout conversions.* SPEC-018:101 says that a conversion does not change observable state, SPEC-033:131 that any layout converts to any other. A conversion to a dense layout collects blocks from the block map only. From one dense layout to another the blocks stay behind in the old store; a second conversion to SoA gives the new blocks the row numbers of the old ones.
* *AVL balance.* SPEC-015:28 demands that sibling subtrees differ by at most one in height. `avl_tree::rotate` works out the new factor of the node that comes up without the new factor of the node that goes down, and `rebalance_erase` rotates twice where the child is even. The factors drift from the heights. With the compiled header, putting 2, 1, 4, 6, 3, erasing 1, 3, 4, putting and erasing 3 twice and erasing 6 follows a null child; `AvlTree!Crash` is that step. The tree is still a search tree at every moment before it (`ImplementsDictionary`, `IteratesInOrder`).
* *Parallel submissions.* SPEC-034:75-79 says that the commands of two parallel controllers are both submitted. `submit_command` takes no lock, and one can be lost.
* *Snapshots and dense layouts.* SPEC-009:117 speaks of "capturing the full simulation state", SPEC-009:120 of "All Data Blocks (identity, type_id, raw data)". `save` copies the block map, so a block that a conversion has moved to a dense store is not in the snapshot, and is lost across a save and a load (`SnapshotIsWhole`).
* *Unique event ids.* SPEC-017:56 says that `listen()` returns a unique `EventId`, SPEC-017:59 that `unlisten()` removes the handler registered under it; SPEC-032:107 and :120 say the same of callbacks. `after_tick` and the bus number from two counters, and `unlisten` looks among the callbacks first: the unlisten of a bus handler removes the callback of the same number (`RemovedByOwner`).
* *Events from a running loop.* SPEC-023:83-87 has an event that a controller enqueues processed in the same tick or in the next, and :134 allows events to be enqueued during the controller phase. An event that a handler of a running `EventLoop` enqueues lies behind the end that the loop has read and is cleared with the queue (`EveryEventSeen`).

The following are in the models too, or follow from them, but no run is about them:

* *Undeclared controllers.* SPEC-034:69 and :109 say that a controller registered without type access "runs sequentially (conservative default)". Its empty list overlaps with none, so it joins the first group (`ControllerDispatch!Join`) and an executor may run it beside any member. `NoConflict` is about declared access.
* *What a load leaves.* SPEC-009:135: "`load()` replaces all current state with the snapshot's state". The relationships, the rows of the dense stores and the table of type names stay (`World!Load`). With `next_identity_` taken back they may name identities that are yet to be issued: a re-issued identity inherits the relationships of an abandoned block.
* *Identities after a load.* SPEC-008:35: "Destroyed identities must not be reused." An identity issued and destroyed after the save is issued again after the load. `IdentitiesNotReused` is about a runtime without loads.
* *Clearing the fixed timestep.* SPEC-009:58: "The fixed timestep can be cleared to revert to variable timestep mode." Cleared from within a sub-tick it makes the tick endless: the accumulator is reset to 0 and is never below a step of 0. `TickEnds` excepts this.
* *A second build of an `Fsm`.* The comment at `fsm.h`:90 calls `build()` idempotent; the first build has moved the transitions out of the builder, at `fsm.h`:82, and the second machine has none. `FsmFollowsTable` is about the table that the machine has.
* *Stages of a pipeline.* SPEC-022:33-37: when stage A creates a block, "stage B sees the block created by stage A". A block asked for by command is made when all controllers are done; only an ephemeral block is there at once. `Tests/test_pipeline.h`:28 has such a stage and passes, because its failure stays in its `StageResult`. `Pipeline` does not model what stages do to blocks.

Behaviour met while modelling that no document speaks about, and that the models contain:

* A handler that sets another timestep in mid-loop, which also resets the accumulator, makes the loop subtract a step it has not run (`TimeAccounted` excepts this).
* A handler that adds a handler to the list being iterated, or removes one from it, may leave the loop in freed storage (`wild`). The same holds for rules, stages and queued events.
* `flat_vector::erase` destroys the element and then assigns the following ones onto it. For elements with a destructor, as the callbacks of `after_tick`, this reads freed storage; an address sanitizer reports it.
* Of a block that a resize made shorter than its descriptor, a store keeps what each field had and fills up the rest. Where two fields share bytes, their columns then disagree, and the block that comes back has the bytes of the last one: `ConversionKeepsFields` speaks of fields that share no byte with another (`Alone`).
* A second `build` of an `EventLoop` has no handlers, and an `Fsm` handles events in its first run only.
* Blocks in a dense store have no count after the next rebuild, and survive the cleanup if their type is ephemeral. A load into a new runtime leaves the table of type names empty, so that a type of the snapshot can not be looked up by name, and relationships, which are not among the contents of a snapshot, are not there.
* `BitVector::resize` to a smaller size leaves the bits beyond it set: `count` sees them and a growth brings them back (`BitsKept` excepts the bits cut off).

## Proofs

Each theorem is about the specification of its module for every value of the constants that satisfies the named assumptions: any number of block types, identities, controllers, handlers, stages, fields, chunk sizes. The assumptions stand in the modules that declare the constants. `RoomAssumption` (`MaxCommands <= MaxIdentity`) and `IdentityAssumption` concern bounds that exist only in the model.

`BlockManager_proofs`, for `BMSpec`:

* `StoreTypeCorrect`, `StoreIndexesAgree`, `StoreIdentitiesNotReused`: invariants.
* `StoreBlocksBornBlank`: the action property `FreshBlocksAreBlank`.

`BMTypeOK`, index agreement and identity safety are not inductive one by one: a destruction keeps the counts right only if the counter it decrements equals the number of blocks, and an insertion keeps the identities apart only if no live or dead identity lies above `nextIdentity`. The inductive invariant is `StoreInv`, the conjunction of `IndexInv` and `PoolInv`. The lemmas about `Cardinality(Ids(t))` under an extension and a removal rest on `FiniteSetTheorems`; they show in passing that the clamp at zero (`Monus`) is never taken.

`GameRuntime_proofs`, for `Spec`, for any number of commands and cancellations:

* `RuntimeTypeCorrect`: `TypeOK`.
* `RuntimeImplementsStore`: `Spec => BMSpec`. Every step of the runtime is a step of the store or leaves it alone, so the store's theorems carry over: `RuntimeStoreSafe`.
* `RuntimeDropsEphemerals`: `NoEphemeralAfterTick`. The invariant adds to `TypeOK` that the type of every live block is registered, which is why a cleanup that looks types up in the registry cannot overlook a block.
* `RuntimeAllOrNothing`: `AllOrNothing`. A command that ran passed `Valid` in the same state, so each of its targets exists and its range lies inside the block; the lemma `ExecuteAppliesToAll` takes the handlers one by one.
* `RuntimeResultTells`: `ResultTellsTheBatch`. The property speaks of the end of a tick; the inductive `BatchInv` speaks of every state. While commands are processed, the counters and the rejection list tell the settled part of the batch and the queue holds the rest; the queue's ids increase and are all still pending, which is why no command is counted twice; between ticks the rejection list is empty, which is why nothing is carried over.
* `RuntimeEventsTell`: `EventsTellNetEffect`. While commands are processed, the live identities are those of the copy and those made since, less those killed, and none of the made ones is in the copy (`NetEffect`): an identity is new in each step that adds one (`FreshOrGone`), so none is killed and made again, and the difference of the two maps is the net effect.

`CommandLog_proofs`, for the same `Spec`:

* `RuntimeImplementsLedger`: `ImplementsLedger`, the refinement step by step. Each action of the runtime is an action of the ledger under the mapping or leaves the ledger alone. `LedgerInv` says what the ledger's state cannot: an issued id that is not settled is in the queue, and the queue rises, so its head is the oldest one, which is what `Settle` demands.
* `RuntimeHistoryRebuilds`: `HistoryRebuildsBlocks`. What `Rebuilt` makes of a history with one more entry is one `Execute` further.

`ControllerDispatch_proofs`, for any list of controllers and either executor:

* `DispatchTypeCorrect`: `DispatchTypeOK`.
* `DispatchNoConflict`: `NoConflict`. First-fit puts a controller into a group whose members it does not overlap, or into a new one (`Join`), by induction over the controllers already placed.
* `DispatchRunsInOrder`: `RunOnceInOrder`. The stable sort of a list whose ties are in order of registration is in order, and a list that was sorted in an earlier tick and appended to since is such a list. That is why the order survives ticks.
* `DispatchSubmitsAll`: `SequentialSubmissions`, for the sequential executor.

The inductive invariant is `DispatchInv`: what is known of the sorted list, of the groups done and to come, of the order of starts, of the queue, and of the one submission under way.

`World_proofs`, for `WorldSpec`, for any fields, chunk sizes and relations, and any number of saves:

* `WorldTyped`: `WorldTypeOK`.
* `BlocksHeldOnce`: `OnePlace`. A type that is not mixed has its blocks in the block map or in the one store of its layout, no identity in two of them, and `identity_types_` names exactly these (`OwnPlace`). The six conversions are abstracted to two moves, from the map to a dense store (`MovesOut`) and back (`MovesBack`); the lemmas `Part...` and `Portions...` say that the code cuts a list of blocks into chunks that are full but for the last and lose none. Conversions of one type must not take blocks of another: identities in use were issued, and map and stores agree on their types. This `IssuedInv` fails once every type is mixed, because a load can then issue an identity again while a store still holds it, hence the premise of `PlaceInv`.
* `BlocksKept`: `NothingLost`, which until the first load covers the mixed types as well. A type may then have rows in all three stores at once, so `OwnPlace` is of no use; `HeldOnce` says instead that the rows of the three stores and the blocks of the map are together the known blocks of the type, none of them twice (`OnceInv`). A move out takes over all that the block map has of the type, which is disjoint from what the stores hold (`MovesOutKeepsOnce`); a move back empties one store, whose rows are disjoint from those of the other two (`MovesBackKeepsOnce`, `JoinedOnce`, `ThreeOnce`). After a load `PlaceInv` gives the rest. The theorem says nothing of what a save leaves out: see `SnapshotIsWhole`.
* `BulkAccessMatches`: `BulkMatches`, from the same invariant: the column that `field_span` gives lines up with the identities of the store, row by row and, for AoSoA and archetypes, chunk by chunk.
* `FieldsKept`: the action property `ConversionKeepsFields`. On the way out (`OutReads`), each row of each new chunk holds the block's bytes: a copy changes no row before its own (`FillHolds`), and the index, the chunk search and the sparse set of the three stores all lead to that one row, because no identity is stored twice (`RowsUnique`, `DenseRead`). On the way back (`BackReads`), the fields are written over each other into one block, so a field is sure to come back only if no other field shares its bytes (`Alone`, `RowShows`). Blocks of other types are not touched, by `IssuedInv`.
* `LoadsRestore`: the action property `LoadRestores`, for snapshots taken while no block to keep was in a dense store; for others the blocks are gone, as `snapshot_save` shows; of the stores and relationships that a load leaves in place it says nothing. The snapshot's blocks have identities not above its `nextIdentity` (`SavedInv`), and what could be read of a field at the save is what the copied bytes give (`ReadsInv`).
* `RelationsMirrored`: `MapsMirror`, under removals, repeated entries and a relation of an identity with itself.

`Callbacks_proofs`, for `CallbacksSpec`, whatever the number of handlers, the timesteps and the deltas:

* `TimeIsAccounted`: `TimeAccounted`. It speaks of the host's phase only; the inductive `TimeInv` says what holds inside a tick, where the running sub-tick has been taken from `due` and not yet from the accumulator.
* `WorstStatusReported`: `WorstStatusWins`, from `StatusInv`, which keeps the worst of the statuses seen so far, the last one not yet combined; the lemma `WorseIsWorst` is the table of `Worse`.
* `TickLoopTyped`: `LoopTypeOK`.
* `SubTickCallsOnce`: `HandlersCalledOnce`. Numbers rise within each list (`HandlerInv`), so what a loop is still to call is above all it has called (`LoopRises`); and every handler that was registered throughout has been called or lies ahead (`KeptCalled`).
* `PipelineReports`: `StagesReported`; `PipeInv` relates the results so far to the stages that the run set out with.
* `MachineFollowsTable`: `FsmFollowsTable`; `FsmInv` counts the acts of the events dealt with and says where the run stands between exit and entry.
* `RulesAreOrdered`: `RulesInOrder`; ids rise with registration, so the ties are in order before and after each stable sort (`RuleInv`).
* `LoopHandlesEvents`: `EventsHandled`; `LoopInv` follows the two nested loops: the handlers called are those of the events before the current one and those of the current event that the inner loop has reached, and every event enqueued between two runs has been looked at or lies ahead. Of events that a handler enqueues it says nothing: `EveryEventSeen` is false of them.

`Containers_proofs`, for `ContainersSpec`, for every word size, inline size, length and number of nodes:

* `BitsAreKept`: `BitsKept`. `BitInv` adds that a bit set past the end is one that a resize cut off; `SizeToSuffices` shows that the rounded number of words reaches the new end, and `GrowingKeepsBits` is shared by every call that may grow.
* `SlotsStayLive`: `SlotsLive`. `VectorInv` says of each vector that it is well shaped and holds the list meant (`Holds`), and that the slots behind are empty (`Clean`) unless the vector is torn. One lemma for each thing that the code does to the buffer (`RoomyHolds`, `PushedHolds`, `CroppedHolds`, `LoadedHolds`, `ResizedHolds`, `ErasedHolds`) says which list comes out; the actions follow from these. A range erased at the end leaves no hollow object, one erased in the middle does, hence `torn`.
* `RingsStayClosed`: `RingsClosed`. The invariant `RingInv` names for each list the nodes in their order: the ring `r` with the head at both ends (`RingOf`). Linking in puts a node behind `r[i]` (`RingGrows`), unlinking takes `r[i]` out (`RingShrinks`), a move puts the other head in the old one's place (`RingMoved`); the rings of the other lists share no node with it, so none of their links changes (`RingsApart`, `RingKept`). That an iteration from the head meets just this ring (`MetIs`) is an induction over its positions.
* `TreesIterateInOrder`: `IteratesInOrder`; `TreesImplementDictionary`: the refinement of `Dictionary`; `RbTreeStaysBalanced`: `RbBalanced`; for any set of positive keys, whatever the number of nodes. `IteratesInOrder` and `RbBalanced` say nothing of the links that the next rotation relies on, so neither is inductive; `TreeInv` is. It speaks of the tree through two things that the code does not have:
  * `Shape` names the set of nodes under each node, and says that links down and up agree and that the sets on both sides of a node are its lesser and its greater keys. A rotation changes two of these sets (`RotatedShape`), a link at the bottom adds a member to those on the way down (`LinkedShape`), `unlink_node` takes one out (`SeveredShape`) and, where the node has two children, lets its neighbour take its name (`RenamedShape`); together `UnlinkedShape`. That searches and iterators arrive where they should (`PlaceIs`, `ContainsIs`, `ShapeIterates`) is a least counterexample over the sizes of these sets.
  * `Coloured` names the number of black nodes below each node, and lets at most one link of the tree lack one (`Owed`): the one where the erase loop stands. `Painted` says for each round of the two loops what may be amiss: a red root or one red node under a red one while inserting, one missing black node, and a red child under a red parent at the same link, while erasing. One lemma for each round (`InsertFixedKeeps`, `RecolourKeeps`, `RestructureKeeps`, `EraseFixedKeeps`, `MoveUpKeeps`, `RaiseRedSiblingKeeps`, `BorrowKeeps`) and for each call that starts a loop (`RbInsertKeeps`, `RbEraseKeeps`).

  Of `avl_tree` only `Balancing` is needed, that the loop stands at a node of the tree: its factors may be wrong, and the order of its keys does not depend on them.

`DataLemmas` holds what these share. Induction over data is done over the set of the numbers for which a statement holds, by its least counterexample (`NumberInduction`, from the well-foundedness of `<`), because the library's induction takes an operator as a parameter. With it follow what the recursive functions of `Lists` return (`StableSortSorts`, `TakeOutLeaves`), what joining a list of lists gives (`FlattenConcat`, `JoinHolds`, `JoinDistinct`), and that a finite set of numbers has its members in order (`Enumeration`).

Model-checked only: liveness (`EveryCommandSettles`, `TickEnds`, `CallsReturn`) and with it `ENABLED`, which are out of TLAPS's reach. The violation runs show that the documented properties fail, so there is nothing to prove of them.

## Plan

Done, in this order: the block store, commands, scheduler, tick, ledger and log; controller dispatch; layouts, relationships and snapshots; handlers, fixed timestep and the ready-made controllers; the containers.

Left: a priority variant of `CommandScheduler`; automatic type ids; whole-tree operations; `BitSet` and `DynamicBitFlags`.

## Not modelled

Result and error types, builder and configuration, platform selection, SIMD, logging, the vendored test framework (`Libs/cest`) and the tests: they keep no state that a property could be about, or are no part of the program. The queries of `StateView` and `BlockQuery` other than `field` and `field_span` only filter the block map. `PriorityScheduler` is `FifoScheduler` with a sort in front, whose order among equals is unspecified. `BitSet`, `BitFlags`, `DynamicBitFlags` and bit packing are single expressions on words. Semantic sizes are constants. Automatic type ids, `clear_history`, and clearing, moving and destroying a whole tree are left for later.
