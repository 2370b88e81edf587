------------------------- MODULE GameRuntime_proofs -------------------------
(***************************************************************************)
(* Proofs about the runtime.  Each of its steps is one step of the block   *)
(* store or none, so what was proved of the store holds of the runtime.    *)
(***************************************************************************)
EXTENDS GameRuntime, BlockManager_proofs

(* A command's effect is one operation of the store.  Targets outside the  *)
(* store's bound name no block.                                            *)
LEMMA ExecuteIsStoreStep ==
  ASSUME StoreInv, NEW p \in Payloads, Valid(p), Execute(p)
  PROVE  BMNext
<1>1. p \in PayloadSpace
  BY PayloadAssumption
<1>2. Identities \subseteq 1..MaxIdentity
  BY IdentityAssumption DEF StoreInv, IndexInv
<1>3. CASE p.op = "create"
  <2>1. p.type \in TypeIds /\ CommandCreate(p.type)
    BY <1>1, <1>3 DEF PayloadSpace, Execute
  <2> QED BY <2>1 DEF BMNext
<1>4. CASE p.op = "destroy"
  <2>1. p.targets \in SUBSET (1..MaxIdentity) /\ CommandDestroy(p.targets)
    BY <1>2, <1>4 DEF Valid, Execute
  <2> QED BY <2>1 DEF BMNext
<1>5. CASE p.op = "resize"
  <2>1. p.targets \in SUBSET (1..MaxIdentity) /\ CommandResize(p.targets, p.size)
    BY <1>2, <1>5 DEF Valid, Execute
  <2>2. p.size \in Sizes
    BY <1>1, <1>5 DEF PayloadSpace
  <2> QED BY <2>1, <2>2 DEF BMNext
<1>6. CASE p.op = "set"
  <2>1. /\ p.targets \in SUBSET (1..MaxIdentity)
        /\ FieldFits(p.targets \cap Identities, p.offset)
        /\ CommandSetField(p.targets, p.offset, p.value)
    BY <1>2, <1>6 DEF Valid, Execute, FieldFits
  <2>2. p.offset \in Offsets /\ p.value \in Values
    BY <1>1, <1>6 DEF PayloadSpace
  <2> QED BY <2>1, <2>2 DEF BMNext
<1> QED BY <1>3, <1>4, <1>5, <1>6 DEF Execute

-----------------------------------------------------------------------------
(* What the queues hold has the type of what callers submit, and the cancel *)
(* list, the counters and the outcomes stay in range.                      *)
SchedInv == SchedulerTypeOK

LEMMA SchedulerInitType == SchedulerInit => SchedInv
BY CommandBounds DEF SchedulerInit, SchedInv, SchedulerTypeOK, NoCounts, CommandIds, Outcomes

LEMMA EnqueueKeepsType ==
  ASSUME SchedInv, NEW p \in Payloads, Enqueue(p)
  PROVE  SchedInv'
<1> DEFINE id == nextCommandId + 1
<1>1. id \in CommandIds /\ nextCommandId' = id /\ id \in 0..MaxCommands
  BY CommandBounds DEF Enqueue, SchedInv, SchedulerTypeOK, CommandIds
<1>2. [id |-> id, payload |-> p] \in Commands
  BY <1>1 DEF Commands
<1>3. pending' \in Seq(Commands)
  BY <1>2 DEF Enqueue, SchedInv, SchedulerTypeOK
<1>4. outcome' \in [CommandIds -> Outcomes]
  BY DEF Enqueue, SchedInv, SchedulerTypeOK, Outcomes
<1> QED BY <1>1, <1>3, <1>4 DEF Enqueue, SchedInv, SchedulerTypeOK

LEMMA ReplayKeepsType ==
  ASSUME SchedInv, Replay
  PROVE  SchedInv'
<1>1. PICK k \in DOMAIN history : Enqueue(history[k].payload)
  BY DEF Replay
<1>2. history[k] \in Commands
  BY DEF SchedInv, SchedulerTypeOK
<1>3. history[k].payload \in Payloads
  BY <1>2 DEF Commands
<1> QED BY <1>1, <1>3, EnqueueKeepsType

LEMMA CancelKeepsType ==
  ASSUME SchedInv, NEW id \in CommandIds, Cancel(id)
  PROVE  SchedInv'
BY CommandBounds DEF Cancel, SchedInv, SchedulerTypeOK

(* The command being processed is one that was submitted. *)
LEMMA OldestIsCommand ==
  ASSUME SchedInv, pending # << >>
  PROVE  /\ Next1 \in Commands
         /\ Tail(pending) \in Seq(Commands)
BY HeadTailProperties DEF SchedInv, SchedulerTypeOK, Next1

LEMMA ProcessKeepsType ==
  ASSUME SchedInv, ProcessCommand
  PROVE  SchedInv'
<1>1. /\ Next1.id \in CommandIds /\ Next1 \in Commands
      /\ Tail(pending) \in Seq(Commands)
  BY OldestIsCommand DEF ProcessCommand, Commands
<1>2. ASSUME NEW o \in {"executed", "rejected", "skipped"}, Settle(o)
      PROVE  /\ pending' \in Seq(Commands)
             /\ outcome' \in [CommandIds -> Outcomes]
             /\ counts' \in [{"executed", "rejected", "skipped"} -> Nat]
             /\ nextCommandId' \in 0..MaxCommands
  BY <1>1, <1>2 DEF Settle, SchedInv, SchedulerTypeOK, Outcomes
<1>3. CASE Skip
  <2>1. cancelled' \in [CommandIds -> 0..MaxCancels]
    BY <1>1, <1>3, CommandBounds DEF Skip, SchedInv, SchedulerTypeOK
  <2> QED BY <1>2, <1>3, <2>1 DEF Skip, SchedInv, SchedulerTypeOK
<1>4. CASE Reject
  <2>1. rejected' \in Seq(CommandIds)
    BY <1>1, <1>4 DEF Reject, SchedInv, SchedulerTypeOK
  <2> QED BY <1>2, <1>4, <2>1 DEF Reject, SchedInv, SchedulerTypeOK
<1>5. CASE Run
  <2>1. history' \in Seq(Commands)
    BY <1>1, <1>5 DEF Run, SchedInv, SchedulerTypeOK
  <2> QED BY <1>2, <1>5, <2>1 DEF Run, SchedInv, SchedulerTypeOK
<1> QED BY <1>3, <1>4, <1>5 DEF ProcessCommand

-----------------------------------------------------------------------------
(* The variables of the tick itself. *)
TickInv ==
    /\ registered \subseteq TypeIds
    /\ phase \in Phases
    /\ paused \in BOOLEAN /\ listening \in BOOLEAN
    /\ failed \in BOOLEAN /\ tracking \in BOOLEAN
    /\ DOMAIN before \subseteq 1..MaxIdentity
    /\ before \in [DOMAIN before -> TypeIds]
    /\ fired.created \subseteq (1..MaxIdentity) \X TypeIds
    /\ fired.destroyed \subseteq 1..MaxIdentity
    /\ result.executed \in Nat /\ result.rejected \in Seq(CommandIds)
    /\ result.status \in {"Success", "PartialFailure"}
    /\ batch \subseteq CommandIds
    /\ made \subseteq 1..MaxIdentity /\ killed \subseteq 1..MaxIdentity

(* Every block's type is registered: the cleanup after a tick goes by the  *)
(* registry and would pass over any other block.                           *)
BlocksRegistered == \A i \in Identities : blocks[i].type \in registered

(* The values the tick's variables have between ticks. *)
LEMMA IdleValuesTyped ==
  /\ DOMAIN NoBlocks = {} /\ NoBlocks \in [DOMAIN NoBlocks -> TypeIds]
  /\ NoEvents.created = {} /\ NoEvents.destroyed = {}
  /\ NoResult.executed \in Nat /\ NoResult.rejected \in Seq(CommandIds)
  /\ NoResult.status \in {"Success", "PartialFailure"}
<1>1. << >> \in Seq(CommandIds)
  OBVIOUS
<1>2. NoResult.executed = 0 /\ NoResult.rejected = << >> /\ NoResult.status = "Success"
  BY DEF NoResult
<1> QED BY <1>1, <1>2 DEF NoBlocks, NoEvents

RuntimeInv == StoreInv /\ SchedInv /\ TickInv /\ BlocksRegistered /\ NoEphemeralAfterTick

LEMMA RuntimeInvInit == Init => RuntimeInv
<1> SUFFICES ASSUME Init PROVE RuntimeInv
  OBVIOUS
<1>1. StoreInv /\ SchedInv
  BY StoreInvInit, SchedulerInitType DEF Init
<1>2. TickInv
  BY IdleValuesTyped DEF Init, TickInv, Phases
<1>3. BlocksRegistered /\ NoEphemeralAfterTick
  BY DEF Init, BMInit, BlocksRegistered, NoEphemeralAfterTick, Identities
<1> QED BY <1>1, <1>2, <1>3 DEF RuntimeInv

(* Every step of the runtime is a step of the store or leaves it alone. *)
LEMMA RuntimeStepIsStoreStep ==
  ASSUME RuntimeInv, [Next]_vars
  PROVE  [BMNext]_storeVars
<1>1. registered \in SUBSET TypeIds
  BY DEF RuntimeInv, TickInv
<1>2. CASE DirectCall
  BY <1>1, <1>2 DEF DirectCall, BMNext
<1>3. CASE ControllerSignals
  BY <1>1, <1>3 DEF ControllerSignals, BMNext
<1>4. CASE ProcessNext
  <2>1. CASE Skip \/ Reject
    BY <2>1 DEF Skip, Reject
  <2>2. CASE Run
    <3>1. Next1.payload \in Payloads
      BY <1>4, OldestIsCommand DEF ProcessNext, ProcessCommand, RuntimeInv, Commands
    <3>2. Valid(Next1.payload) /\ Execute(Next1.payload)
      BY <2>2 DEF Run
    <3> QED BY <3>1, <3>2, ExecuteIsStoreStep DEF RuntimeInv
  <2> QED BY <1>4, <2>1, <2>2 DEF ProcessNext, ProcessCommand
<1>5. CASE FinishProcessing
  BY <1>5 DEF FinishProcessing, BMNext
<1>6. CASE CleanUp
  BY <1>1, <1>6 DEF CleanUp, BMNext
<1>7. CASE Submit \/ CancelCommand \/ PauseOrResume \/ Listen \/ RegisterType
  BY <1>7 DEF Submit, CancelCommand, PauseOrResume, Listen, RegisterType
<1>8. CASE \/ BeginTick \/ StartControllers \/ ControllerFails \/ StartProcessing
           \/ CallAfterTick \/ EndTick
  BY <1>8 DEF BeginTick, StartControllers, ControllerFails, StartProcessing,
              CallAfterTick, EndTick
<1>9. CASE UNCHANGED vars
  BY <1>9 DEF vars
<1> QED BY <1>2, <1>3, <1>4, <1>5, <1>6, <1>7, <1>8, <1>9 DEF Next, HostStep, TickStep

LEMMA SchedInvStep ==
  ASSUME RuntimeInv, [Next]_vars
  PROVE  SchedInv'
<1> USE DEF RuntimeInv
<1>1. CASE Submit
  BY <1>1, EnqueueKeepsType, ReplayKeepsType DEF Submit
<1>2. CASE CancelCommand
  BY <1>2, CancelKeepsType DEF CancelCommand
<1>3. CASE StartControllers
  BY <1>3 DEF StartControllers, ResetCounts, NoCounts, SchedInv, SchedulerTypeOK
<1>4. CASE ProcessNext
  BY <1>4, ProcessKeepsType DEF ProcessNext
<1>5. CASE FinishProcessing
  BY <1>5 DEF FinishProcessing, TakeRejected, SchedInv, SchedulerTypeOK
<1>6. CASE UNCHANGED schedulerVars
  BY <1>6 DEF schedulerVars, SchedInv, SchedulerTypeOK
<1> QED BY <1>1, <1>2, <1>3, <1>4, <1>5, <1>6
        DEF Next, HostStep, TickStep, PauseOrResume, Listen, RegisterType, DirectCall,
            BeginTick, ControllerSignals, ControllerFails, StartProcessing, CleanUp,
            CallAfterTick, EndTick, vars

LEMMA TickInvStep ==
  ASSUME RuntimeInv, [Next]_vars
  PROVE  TickInv'
<1> USE DEF RuntimeInv
<1>1. /\ Identities \subseteq 1..MaxIdentity
      /\ identityTypes \in [Identities -> TypeIds]
      /\ \A i \in Identities : blocks[i].type \in TypeIds
  BY IdentityAssumption DEF StoreInv, IndexInv, IndexesAgree
<1>2. CASE UNCHANGED <<registered, tickVars>>
  BY <1>2 DEF TickInv, tickVars
<1>3. CASE \/ PauseOrResume \/ Listen \/ RegisterType \/ BeginTick \/ StartControllers
           \/ ControllerFails \/ CallAfterTick
  BY <1>3 DEF PauseOrResume, Listen, RegisterType, RegisterBlockType, BeginTick,
              StartControllers, ControllerFails, CallAfterTick, TickInv, Phases, tickVars
<1>4. CASE StartProcessing
  <2>1. IdsOf(pending) \subseteq CommandIds
    <3>1. \A k \in DOMAIN pending : pending[k] \in Commands
      BY DEF SchedInv, SchedulerTypeOK
    <3> QED BY <3>1 DEF IdsOf, Commands
  <2>2. DOMAIN before' \subseteq 1..MaxIdentity /\ before' \in [DOMAIN before' -> TypeIds]
    BY <1>1, <1>4 DEF StartProcessing, Snapshot, NoBlocks
  <2> QED BY <1>4, <2>1, <2>2 DEF StartProcessing, TickInv, Phases
<1>5. CASE ProcessNext
  <2>1. Identities' \subseteq 1..MaxIdentity
    BY RuntimeStepIsStoreStep, StoreInvStep, IdentityAssumption DEF StoreInv, IndexInv
  <2> QED BY <1>1, <1>5, <2>1 DEF ProcessNext, TickInv
<1>6. CASE FinishProcessing
  <2>1. /\ fired'.created \subseteq (1..MaxIdentity) \X TypeIds
        /\ fired'.destroyed \subseteq 1..MaxIdentity
    BY <1>1, <1>6 DEF FinishProcessing, BlockEvents, NoEvents, TickInv
  <2>2. /\ result'.executed \in Nat /\ result'.rejected \in Seq(CommandIds)
        /\ result'.status \in {"Success", "PartialFailure"}
    BY <1>6 DEF FinishProcessing, Status, SchedInv, SchedulerTypeOK
  <2> QED BY <1>6, <2>1, <2>2 DEF FinishProcessing, TickInv, Phases
<1>7. CASE EndTick
  BY <1>7, IdleValuesTyped DEF EndTick, TickInv, Phases
<1> QED BY <1>2, <1>3, <1>4, <1>5, <1>6, <1>7
        DEF Next, HostStep, TickStep, Submit, CancelCommand, DirectCall,
            ControllerSignals, CleanUp, vars

-----------------------------------------------------------------------------
(* Types are never unregistered, and every creation looks the type up. *)
LEMMA BlocksRegisteredStep ==
  ASSUME RuntimeInv, [Next]_vars
  PROVE  BlocksRegistered'
<1> USE DEF RuntimeInv
<1>1. ASSUME NEW t \in registered, NEW d, Insert(t, d), UNCHANGED registered
      PROVE  BlocksRegistered'
  BY <1>1 DEF Insert, Extend, Identities, BlocksRegistered
<1>2. ASSUME NEW S, Erase(S), UNCHANGED registered
      PROVE  BlocksRegistered'
  BY <1>2 DEF Erase, Without, Identities, BlocksRegistered
<1>3. CASE UNCHANGED blocks /\ registered \subseteq registered'
  BY <1>3 DEF Identities, BlocksRegistered
<1>4. CASE DirectCall \/ ControllerSignals \/ CleanUp
  BY <1>1, <1>2, <1>4 DEF DirectCall, ControllerSignals, CleanUp, Create,
                          CreateEphemeral, Destroy, DestroyLowestEphemeral
<1>5. CASE ProcessNext
  <2>1. CASE Skip \/ Reject
    BY <1>3, <1>5, <2>1 DEF Skip, Reject, storeVars, ProcessNext
  <2>2. CASE Run
    <3> DEFINE p == Next1.payload
    <3>1. Valid(p) /\ Execute(p) /\ UNCHANGED registered
      BY <1>5, <2>2 DEF Run, ProcessNext
    <3>2. CASE p.op = "create" /\ CommandCreate(p.type)
      BY <1>1, <3>1, <3>2 DEF Valid, CommandCreate
    <3>3. CASE CommandDestroy(p.targets)
      BY <1>2, <3>1, <3>3 DEF CommandDestroy
    <3>4. CASE CommandResize(p.targets, p.size)
      BY <3>1, <3>4 DEF CommandResize, Rewrite, Identities, BlocksRegistered,
                        StoreInv, IndexInv
    <3>5. CASE CommandSetField(p.targets, p.offset, p.value)
      BY <3>1, <3>5 DEF CommandSetField, Rewrite, Identities, BlocksRegistered,
                        StoreInv, IndexInv
    <3> QED BY <3>1, <3>2, <3>3, <3>4, <3>5 DEF Execute
  <2> QED BY <1>5, <2>1, <2>2 DEF ProcessNext, ProcessCommand
<1>6. CASE \/ (HostStep /\ ~DirectCall) \/ BeginTick \/ ControllerFails \/ StartControllers
           \/ StartProcessing \/ FinishProcessing \/ CallAfterTick \/ EndTick
           \/ UNCHANGED vars
  BY <1>3, <1>6 DEF HostStep, Submit, CancelCommand, PauseOrResume, Listen, RegisterType,
       RegisterBlockType, BeginTick, ControllerFails, StartControllers, StartProcessing,
       FinishProcessing, RebuildCounts, CallAfterTick, EndTick, storeVars, vars
<1> QED BY <1>4, <1>5, <1>6 DEF Next, HostStep, TickStep

(* after_tick is entered with no ephemeral block left, and no call made     *)
(* from a callback creates a block.                                        *)
LEMMA NoEphemeralStep ==
  ASSUME RuntimeInv, [Next]_vars
  PROVE  NoEphemeralAfterTick'
<1> USE DEF RuntimeInv
<1>1. CASE CallAfterTick
  BY <1>1 DEF CallAfterTick, EphemeralIds, BlocksRegistered, NoEphemeralAfterTick,
              Identities, storeVars
<1>2. CASE UNCHANGED <<phase, blocks>>
  BY <1>2 DEF NoEphemeralAfterTick, Identities
<1>3. CASE phase' # "after"
  BY <1>3 DEF NoEphemeralAfterTick
<1> QED BY <1>1, <1>2, <1>3
        DEF Next, HostStep, TickStep, Submit, CancelCommand, PauseOrResume, Listen,
            RegisterType, DirectCall, BeginTick, StartControllers, ControllerSignals,
            ControllerFails, StartProcessing, ProcessNext, FinishProcessing, CleanUp,
            EndTick, storeVars, tickVars, vars

LEMMA ResizedLength ==
  ASSUME NEW d, NEW n \in Nat
  PROVE  Len(Resized(d, n)) = n
BY DEF Resized

(* A valid command that runs does to every one of its targets what it says, *)
(* and leaves the other blocks alone.                                      *)
LEMMA ExecuteAppliesToAll ==
  ASSUME StoreInv, NEW p \in Payloads, Valid(p), Execute(p), p.op # "create"
  PROVE  AppliedToAll(p)
<1>1. p \in PayloadSpace /\ p.targets \subseteq Identities
  BY PayloadAssumption DEF PayloadSpace, Valid
<1>2. \A i \in Identities : /\ blocks[i] \in [type : TypeIds, data : Data]
                             /\ blocks[i].data \in Seq(Values)
  BY DEF StoreInv, IndexInv, Data
<1>3. CASE p.op = "destroy"
  <2>1. blocks' = Without(blocks, p.targets \cap Identities)
    BY <1>3 DEF Execute, CommandDestroy, Erase
  <2> QED BY <1>1, <1>3, <2>1 DEF AppliedToAll, Without, Identities
<1>4. CASE p.op = "resize"
  <2>1. /\ DOMAIN blocks' = Identities
        /\ \A i \in Identities \ p.targets : blocks'[i] = blocks[i]
        /\ \A i \in p.targets : blocks'[i].data = Resized(blocks[i].data, p.size)
    BY <1>1, <1>2, <1>4 DEF Execute, CommandResize, Rewrite
  <2>2. p.size \in Nat
    BY <1>1, <1>4, RangeAssumption DEF PayloadSpace
  <2>3. \A i \in p.targets : Len(blocks'[i].data) = p.size
    BY <2>1, <2>2, ResizedLength
  <2> QED BY <1>1, <1>4, <2>1, <2>3 DEF AppliedToAll, Identities
<1>5. CASE p.op = "set"
  <2>1. /\ DOMAIN blocks' = Identities
        /\ \A i \in Identities \ p.targets : blocks'[i] = blocks[i]
        /\ \A i \in p.targets : blocks'[i].data = [blocks[i].data EXCEPT ![p.offset] = p.value]
    BY <1>1, <1>2, <1>5 DEF Execute, CommandSetField, Rewrite
  <2>2. \A i \in p.targets : p.offset \in DOMAIN blocks[i].data
    <3>1. p.offset \in Nat \ {0} /\ \A i \in p.targets : p.offset <= Len(blocks[i].data)
      BY <1>1, <1>5, RangeAssumption DEF Valid, FieldFits, PayloadSpace
    <3>2. \A i \in p.targets : blocks[i].data \in Seq(Values)
      BY <1>1, <1>2
    <3> QED BY <3>1, <3>2
  <2>3. \A i \in p.targets : blocks'[i].data[p.offset] = p.value
    BY <2>1, <2>2
  <2> QED BY <1>1, <1>5, <2>1, <2>3 DEF AppliedToAll, Identities
<1> QED BY <1>1, <1>3, <1>4, <1>5 DEF PayloadSpace

LEMMA RuntimeInvAlways == Spec => []RuntimeInv
<1>1. RuntimeInv /\ [Next]_vars => RuntimeInv'
  <2>1. ASSUME RuntimeInv, [Next]_vars PROVE StoreInv'
    BY <2>1, RuntimeStepIsStoreStep, StoreInvStep DEF RuntimeInv
  <2> QED BY <2>1, SchedInvStep, TickInvStep, BlocksRegisteredStep, NoEphemeralStep
          DEF RuntimeInv
<1> QED BY RuntimeInvInit, <1>1, PTL DEF Spec

-----------------------------------------------------------------------------
(* The runtime's type invariant. *)
THEOREM RuntimeTypeCorrect == Spec => []TypeOK
<1>1. RuntimeInv => TypeOK
  <2>1. StoreInv => BMTypeOK
    BY IdentityAssumption DEF StoreInv, IndexInv, PoolInv, BMTypeOK, IndexesAgree
  <2> QED BY <2>1 DEF RuntimeInv, SchedInv, TickInv, TypeOK
<1> QED BY <1>1, RuntimeInvAlways, PTL

(* Ticks, controllers, commands and direct calls use the block store only  *)
(* through its operations: the runtime implements the store's              *)
(* specification.                                                          *)
THEOREM RuntimeImplementsStore == Spec => BMSpec
<1>1. Init => BMInit
  BY DEF Init
<1>2. RuntimeInv /\ [Next]_vars => [BMNext]_storeVars
  BY RuntimeStepIsStoreStep
<1> QED BY <1>1, <1>2, RuntimeInvAlways, PTL DEF Spec, BMSpec

(* So, in every reachable state of the runtime, the identity map and the   *)
(* counters match the block map, and no destroyed identity is live again.  *)
THEOREM RuntimeStoreSafe == Spec => [](IndexesAgree /\ IdentitiesNotReused)
BY RuntimeImplementsStore, StoreIndexesAgree, StoreIdentitiesNotReused, PTL

(* No ephemeral block is left when the after_tick callbacks run. *)
THEOREM RuntimeDropsEphemerals == Spec => []NoEphemeralAfterTick
<1>1. RuntimeInv => NoEphemeralAfterTick
  BY DEF RuntimeInv
<1> QED BY <1>1, RuntimeInvAlways, PTL

(* A processed command changes every one of its targets or no block: what   *)
(* validate has accepted execute carries out to the end.                   *)
THEOREM RuntimeAllOrNothing == Spec => AllOrNothing
<1> DEFINE Whole == phase = "processing" /\ pending' # pending =>
                      \/ blocks' = blocks
                      \/ Next1.payload.op = "create"
                      \/ AppliedToAll(Next1.payload)
<1>1. ASSUME RuntimeInv, [Next]_vars PROVE Whole
  <2>1. CASE ProcessNext
    <3>1. CASE Skip \/ Reject
      BY <3>1 DEF Skip, Reject, storeVars
    <3>2. CASE Run
      <4>1. Next1.payload \in Payloads
        BY <1>1, <2>1, OldestIsCommand DEF ProcessNext, ProcessCommand, RuntimeInv, Commands
      <4>2. Valid(Next1.payload) /\ Execute(Next1.payload) /\ StoreInv
        BY <1>1, <3>2 DEF Run, RuntimeInv
      <4> QED BY <4>1, <4>2, ExecuteAppliesToAll
    <3> QED BY <2>1, <3>1, <3>2 DEF ProcessNext, ProcessCommand
  <2>2. CASE phase # "processing" \/ pending' = pending
    BY <2>2
  <2> QED BY <1>1, <2>1, <2>2
          DEF Next, HostStep, TickStep, Submit, CancelCommand, PauseOrResume, Listen,
              RegisterType, DirectCall, BeginTick, StartControllers, ControllerSignals,
              ControllerFails, StartProcessing, FinishProcessing, CleanUp, CallAfterTick,
              EndTick, CallOut, TakeRejected, schedulerVars, vars
<1>2. RuntimeInv /\ [Next]_vars => [Whole]_vars
  BY <1>1
<1> QED BY <1>2, RuntimeInvAlways, PTL DEF Spec, AllOrNothing

-----------------------------------------------------------------------------
(* The result of a tick.  The counters and the rejection list are compared  *)
(* with the outcomes while the commands are processed, so the invariant     *)
(* counts the settled part of the batch in every state in between.         *)

Settled == {"executed", "rejected", "skipped"}
Ended(o) == {id \in batch : outcome[id] = o}

(* list names each element of S once. *)
Lists(list, S) == {list[k] : k \in DOMAIN list} = S /\ Len(list) = Cardinality(S)

(* The pending commands are in order of their ids and not yet settled. *)
QueueInv ==
    /\ \A k \in DOMAIN pending : pending[k].id \in 1..nextCommandId /\ outcome[pending[k].id] = "pending"
    /\ \A j, k \in DOMAIN pending : j < k => pending[j].id < pending[k].id

(* The counters and the list tell the part of the batch that is settled. *)
TallyInv ==
    /\ batch \subseteq 1..nextCommandId
    /\ phase # "processing" => rejected = << >>
    /\ phase = "controllers" => counts = NoCounts
    /\ phase = "processing" =>
         /\ \A id \in batch : outcome[id] \in Settled \/ id \in IdsOf(pending)
         /\ IdsOf(pending) \subseteq batch
         /\ counts.executed = Cardinality(Ended("executed"))
         /\ counts.skipped = Cardinality(Ended("skipped"))
         /\ Lists(rejected, Ended("rejected"))
    /\ Reporting =>
         /\ \A id \in batch : outcome[id] \in Settled
         /\ result.executed = Cardinality(Ended("executed"))
         /\ counts.skipped = Cardinality(Ended("skipped"))
         /\ Lists(result.rejected, Ended("rejected"))
         /\ result.status = "Success" <=> Ended("rejected") = {} /\ ~failed

BatchInv == QueueInv /\ TallyInv

LEMMA EmptyLists == Lists(<< >>, {})
BY FS_EmptySet DEF Lists

LEMMA BatchInvInit == Init => BatchInv
<1> SUFFICES ASSUME Init PROVE BatchInv
  OBVIOUS
<1>1. pending = << >> /\ rejected = << >> /\ batch = {} /\ phase = "idle"
  BY DEF Init, SchedulerInit
<1> QED BY <1>1 DEF BatchInv, QueueInv, TallyInv, Reporting

(* A command that is submitted gets an id above all that were issued. *)
LEMMA EnqueueKeepsBatch ==
  ASSUME SchedInv, BatchInv, NEW p \in Payloads, Enqueue(p), phase # "processing",
         UNCHANGED tickVars
  PROVE  BatchInv'
<1> DEFINE id == nextCommandId + 1
<1>1. /\ nextCommandId \in Nat /\ id \in CommandIds /\ nextCommandId' = id
      /\ pending \in Seq(Commands) /\ outcome \in [CommandIds -> Outcomes]
  BY CommandBounds DEF Enqueue, SchedInv, SchedulerTypeOK, CommandIds
<1>2. pending' = Append(pending, [id |-> id, payload |-> p])
  BY DEF Enqueue
<1>3. \A n \in 1..nextCommandId : outcome'[n] = outcome[n]
  BY <1>1 DEF Enqueue
<1>4. outcome'[id] = "pending"
  BY <1>1 DEF Enqueue
<1>5. QueueInv'
  <2>1. /\ DOMAIN pending' = 1..(Len(pending) + 1) /\ Len(pending) \in Nat
        /\ \A k \in 1..Len(pending) : pending'[k] = pending[k]
        /\ pending'[Len(pending) + 1].id = id
    BY <1>1, <1>2
  <2>2. \A k \in 1..Len(pending) : pending[k].id \in 1..nextCommandId /\ outcome[pending[k].id] = "pending"
    BY <1>1 DEF BatchInv, QueueInv
  <2>3. \A k \in DOMAIN pending' : pending'[k].id \in 1..id /\ outcome'[pending'[k].id] = "pending"
    BY <1>1, <1>3, <1>4, <2>1, <2>2
  <2>4. \A j, k \in DOMAIN pending' : j < k => pending'[j].id < pending'[k].id
    <3> SUFFICES ASSUME NEW j \in DOMAIN pending', NEW k \in DOMAIN pending', j < k
                 PROVE  pending'[j].id < pending'[k].id
      OBVIOUS
    <3>1. j \in 1..Len(pending)
      BY <2>1
    <3>2. CASE k = Len(pending) + 1
      BY <1>1, <2>1, <2>2, <3>1, <3>2
    <3>3. CASE k \in 1..Len(pending)
      BY <1>1, <2>1, <3>1, <3>3, SMTT(30) DEF BatchInv, QueueInv
    <3> QED BY <2>1, <3>2, <3>3
  <2> QED BY <1>1, <2>3, <2>4 DEF QueueInv
<1>6. TallyInv'
  <2>1. batch' = batch /\ phase' = phase /\ failed' = failed /\ result' = result
        /\ rejected' = rejected /\ counts' = counts
    BY DEF Enqueue, tickVars
  <2>2. \A n \in batch : outcome'[n] = outcome[n]
    BY <1>3 DEF BatchInv, TallyInv
  <2>3. \A o : Ended(o)' = Ended(o)
    BY <2>1, <2>2 DEF Ended
  <2> QED BY <1>1, <2>1, <2>2, <2>3 DEF BatchInv, TallyInv, Reporting, Lists
<1> QED BY <1>5, <1>6 DEF BatchInv

(* Settling the oldest command takes it from the queue into the tally. *)
LEMMA SettleMovesOne ==
  ASSUME SchedInv, BatchInv, phase = "processing", pending # << >>, batch' = batch,
         NEW o \in Settled, Settle(o)
  PROVE  /\ QueueInv'
         /\ IdsOf(pending)' \subseteq batch'
         /\ \A id \in batch : outcome'[id] \in Settled \/ id \in IdsOf(pending)'
         /\ Next1.id \notin Ended(o) /\ Ended(o)' = Ended(o) \cup {Next1.id}
         /\ \A q \in Settled : q # o => Ended(q)' = Ended(q)
<1>1. /\ pending \in Seq(Commands) /\ outcome \in [CommandIds -> Outcomes]
      /\ Len(pending) \in Nat \ {0} /\ Next1 = pending[1]
      /\ Next1.id \in CommandIds /\ nextCommandId' = nextCommandId
  <2>1. pending \in Seq(Commands) /\ outcome \in [CommandIds -> Outcomes]
    BY DEF SchedInv, SchedulerTypeOK
  <2>2. Len(pending) \in Nat \ {0} /\ Next1 = pending[1]
    BY <2>1 DEF Next1
  <2>3. Next1.id \in CommandIds
    BY OldestIsCommand DEF Commands
  <2> QED BY <2>1, <2>2, <2>3 DEF Settle
<1>2. /\ DOMAIN pending' = 1..(Len(pending) - 1)
      /\ \A k \in 1..(Len(pending) - 1) : pending'[k] = pending[k + 1]
  BY <1>1 DEF Settle
<1>3. /\ outcome'[Next1.id] = o
      /\ \A id \in CommandIds : id # Next1.id => outcome'[id] = outcome[id]
  BY <1>1 DEF Settle
<1>4. /\ \A k \in 1..Len(pending) : /\ pending[k].id \in 1..nextCommandId
                                   /\ outcome[pending[k].id] = "pending"
      /\ \A j, k \in 1..Len(pending) : j < k => pending[j].id < pending[k].id
      /\ \A k \in 1..Len(pending) : pending[k].id \in CommandIds
      /\ CommandIds \subseteq Nat
  <2>1. DOMAIN pending = 1..Len(pending) /\ \A k \in 1..Len(pending) : pending[k] \in Commands
    BY <1>1
  <2>2. \A k \in 1..Len(pending) : pending[k].id \in CommandIds
    BY <2>1 DEF Commands
  <2>3. CommandIds \subseteq Nat
    BY CommandBounds DEF CommandIds
  <2> QED BY <2>1, <2>2, <2>3 DEF BatchInv, QueueInv
<1>5. \A k \in DOMAIN pending' : /\ k + 1 \in 1..Len(pending) /\ pending'[k] = pending[k + 1]
                                 /\ pending[k + 1].id # Next1.id
  BY <1>1, <1>2, <1>4
<1>6. QueueInv'
  <2>1. \A k \in DOMAIN pending' : /\ pending'[k].id \in 1..nextCommandId
                                   /\ outcome'[pending'[k].id] = "pending"
    BY <1>3, <1>4, <1>5
  <2>2. ASSUME NEW j \in DOMAIN pending', NEW k \in DOMAIN pending', j < k
        PROVE  pending'[j].id < pending'[k].id
    <3>1. j + 1 \in 1..Len(pending) /\ k + 1 \in 1..Len(pending) /\ j + 1 < k + 1
      BY <1>1, <1>2, <2>2
    <3>2. pending[j + 1].id < pending[k + 1].id
      BY <1>4, <3>1
    <3> QED BY <1>5, <3>2
  <2> QED BY <1>1, <2>1, <2>2 DEF QueueInv
<1>7. batch \subseteq CommandIds
  BY <1>1, CommandBounds DEF BatchInv, TallyInv, SchedInv, SchedulerTypeOK, CommandIds
<1>8. Next1.id \in batch /\ outcome[Next1.id] = "pending"
  BY <1>1, <1>4 DEF BatchInv, TallyInv, IdsOf
<1>9. IdsOf(pending)' \subseteq batch'
  BY <1>1, <1>5 DEF BatchInv, TallyInv, IdsOf
<1>10. ASSUME NEW id \in batch PROVE outcome'[id] \in Settled \/ id \in IdsOf(pending)'
  <2>1. CASE id = Next1.id \/ outcome[id] \in Settled
    BY <1>3, <1>7, <2>1
  <2>2. CASE id # Next1.id /\ id \in IdsOf(pending)
    <3>1. PICK k \in 1..Len(pending) : id = pending[k].id
      BY <1>1, <2>2 DEF IdsOf
    <3>2. k # 1 /\ k - 1 \in DOMAIN pending' /\ pending'[k - 1] = pending[k]
      BY <1>1, <1>2, <2>2, <3>1
    <3> QED BY <3>1, <3>2 DEF IdsOf
  <2> QED BY <2>1, <2>2 DEF BatchInv, TallyInv
<1>11. Next1.id \notin Ended(o) /\ Ended(o)' = Ended(o) \cup {Next1.id}
  BY <1>3, <1>7, <1>8 DEF Ended, Settled
<1>12. \A q \in Settled : q # o => Ended(q)' = Ended(q)
  BY <1>3, <1>7, <1>8 DEF Ended, Settled
<1> QED BY <1>6, <1>9, <1>10, <1>11, <1>12

LEMMA EndedFinite ==
  ASSUME SchedInv, BatchInv, NEW o
  PROVE  IsFiniteSet(Ended(o)) /\ Cardinality(Ended(o)) \in Nat
<1>1. nextCommandId \in Nat
  BY DEF SchedInv, SchedulerTypeOK
<1>2. IsFiniteSet(1..nextCommandId)
  BY <1>1, FS_Interval
<1>3. Ended(o) \subseteq 1..nextCommandId
  BY DEF Ended, BatchInv, TallyInv
<1> QED BY <1>2, <1>3, FS_Subset, FS_CardinalityType

LEMMA OneMore ==
  ASSUME NEW S, IsFiniteSet(S), NEW x, x \notin S
  PROVE  Cardinality(S \cup {x}) = Cardinality(S) + 1
BY FS_AddElement

(* Each of the three ways through process_command adds one to its tally. *)
LEMMA ProcessKeepsBatch ==
  ASSUME SchedInv, BatchInv, ProcessNext
  PROVE  BatchInv'
<1> DEFINE id == Next1.id
<1>1. /\ phase = "processing" /\ phase' = phase /\ batch' = batch /\ pending # << >>
      /\ Skip \/ Reject \/ Run
  BY DEF ProcessNext, ProcessCommand
<1>2. /\ counts \in [Settled -> Nat] /\ rejected \in Seq(CommandIds)
      /\ counts.executed = Cardinality(Ended("executed"))
      /\ counts.skipped = Cardinality(Ended("skipped"))
      /\ Lists(rejected, Ended("rejected"))
      /\ batch \subseteq 1..nextCommandId
  BY <1>1 DEF SchedInv, SchedulerTypeOK, BatchInv, TallyInv, Settled
<1>3. \A o : IsFiniteSet(Ended(o)) /\ Cardinality(Ended(o)) \in Nat
  BY EndedFinite
<1>4. ASSUME NEW o \in Settled, Settle(o)
      PROVE  /\ QueueInv'
             /\ IdsOf(pending)' \subseteq batch'
             /\ \A n \in batch' : outcome'[n] \in Settled \/ n \in IdsOf(pending)'
             /\ batch' \subseteq 1..nextCommandId'
             /\ Ended(o)' = Ended(o) \cup {id}
             /\ Cardinality(Ended(o)') = Cardinality(Ended(o)) + 1
             /\ counts' = [counts EXCEPT ![o] = @ + 1]
             /\ \A q \in Settled : q # o => Ended(q)' = Ended(q)
  <2>1. id \notin Ended(o) /\ Ended(o)' = Ended(o) \cup {id}
    BY <1>1, <1>4, SettleMovesOne
  <2>2. Cardinality(Ended(o) \cup {id}) = Cardinality(Ended(o)) + 1
    BY <1>3, <2>1, OneMore
  <2>3. batch' \subseteq 1..nextCommandId' /\ counts' = [counts EXCEPT ![o] = @ + 1]
    BY <1>1, <1>2, <1>4 DEF Settle
  <2> QED BY <1>1, <1>4, <2>1, <2>2, <2>3, SettleMovesOne
<1>5. CASE Skip
  <2>1. Settle("skipped") /\ rejected' = rejected
    BY <1>5 DEF Skip
  <2>2. /\ counts'.skipped = counts.skipped + 1 /\ counts'.executed = counts.executed
    BY <1>2, <1>4, <2>1 DEF Settled
  <2> QED BY <1>1, <1>2, <1>4, <2>1, <2>2 DEF BatchInv, TallyInv, Reporting, Lists, Settled
<1>6. CASE Run
  <2>1. Settle("executed") /\ rejected' = rejected
    BY <1>6 DEF Run
  <2>2. /\ counts'.executed = counts.executed + 1 /\ counts'.skipped = counts.skipped
    BY <1>2, <1>4, <2>1 DEF Settled
  <2> QED BY <1>1, <1>2, <1>4, <2>1, <2>2 DEF BatchInv, TallyInv, Reporting, Lists, Settled
<1>7. CASE Reject
  <2>1. Settle("rejected") /\ rejected' = Append(rejected, id)
    BY <1>7 DEF Reject
  <2>2. /\ counts'.executed = counts.executed /\ counts'.skipped = counts.skipped
    BY <1>2, <1>4, <2>1 DEF Settled
  <2>3. /\ DOMAIN rejected = 1..Len(rejected) /\ Len(rejected) \in Nat
        /\ DOMAIN rejected' = 1..(Len(rejected) + 1) /\ Len(rejected') = Len(rejected) + 1
        /\ \A k \in 1..Len(rejected) : rejected'[k] = rejected[k]
        /\ rejected'[Len(rejected) + 1] = id
    BY <1>2, <2>1
  <2>4. {rejected'[k] : k \in DOMAIN rejected'} = {rejected[k] : k \in DOMAIN rejected} \cup {id}
    BY <2>3
  <2>5. Lists(rejected', Ended("rejected")')
    BY <1>2, <1>4, <2>1, <2>3, <2>4 DEF Lists, Settled
  <2> QED BY <1>1, <1>2, <1>4, <2>1, <2>2, <2>5 DEF BatchInv, TallyInv, Reporting, Settled
<1> QED BY <1>1, <1>5, <1>6, <1>7

(* The tallies of an empty batch are those of reset counters. *)
LEMMA StartKeepsBatch ==
  ASSUME SchedInv, BatchInv, StartProcessing
  PROVE  BatchInv'
<1>1. /\ phase = "controllers" /\ phase' = "processing" /\ batch' = IdsOf(pending)
      /\ UNCHANGED schedulerVars /\ counts = NoCounts /\ rejected = << >>
  BY DEF StartProcessing, BatchInv, TallyInv
<1>2. \A o \in Settled : Ended(o)' = {}
  BY <1>1 DEF Ended, IdsOf, BatchInv, QueueInv, Settled, schedulerVars
<1>3. counts.executed = 0 /\ counts.skipped = 0 /\ Cardinality({}) = 0
  BY <1>1, FS_EmptySet DEF NoCounts
<1>4. IdsOf(pending) \subseteq 1..nextCommandId
  BY DEF IdsOf, BatchInv, QueueInv
<1>5. UNCHANGED <<pending, outcome, counts, rejected, nextCommandId>>
  BY <1>1 DEF schedulerVars
<1>6. QueueInv'
  BY <1>5 DEF BatchInv, QueueInv
<1>7. IdsOf(pending)' = IdsOf(pending)
  BY <1>5 DEF IdsOf
<1>8. /\ counts'.executed = Cardinality(Ended("executed")')
      /\ counts'.skipped = Cardinality(Ended("skipped")')
  BY <1>2, <1>3, <1>5 DEF Settled
<1>9. Lists(rejected', Ended("rejected")')
  BY <1>1, <1>2, <1>5, EmptyLists DEF Settled
<1>10. TallyInv'
  BY <1>1, <1>4, <1>5, <1>7, <1>8, <1>9 DEF TallyInv, Reporting, Lists
<1> QED BY <1>6, <1>10 DEF BatchInv

(* What the counters and the list say is what the result is made of. *)
LEMMA FinishKeepsBatch ==
  ASSUME SchedInv, BatchInv, FinishProcessing
  PROVE  BatchInv'
<1>1. /\ phase = "processing" /\ phase' = "cleanup" /\ pending = << >> /\ batch' = batch
      /\ UNCHANGED <<pending, outcome, counts, nextCommandId, failed>> /\ rejected' = << >>
      /\ result' = [executed |-> counts.executed, rejected |-> rejected, status |-> Status]
  BY DEF FinishProcessing, TakeRejected
<1>2. \A o : Ended(o)' = Ended(o)
  BY <1>1 DEF Ended
<1>3. IdsOf(pending) = {}
  BY <1>1 DEF IdsOf
<1>4. rejected = << >> <=> Ended("rejected") = {}
  <2>1. Lists(rejected, Ended("rejected")) /\ rejected \in Seq(CommandIds)
    BY <1>1 DEF BatchInv, TallyInv, SchedInv, SchedulerTypeOK
  <2> QED BY <2>1 DEF Lists
<1>5. Status = "Success" <=> Ended("rejected") = {} /\ ~failed
  BY <1>4 DEF Status
<1> QED BY <1>1, <1>2, <1>3, <1>5 DEF BatchInv, QueueInv, TallyInv, Reporting, Lists

LEMMA BatchInvStep == RuntimeInv /\ BatchInv /\ [Next]_vars => BatchInv'
<1> SUFFICES ASSUME RuntimeInv, BatchInv, [Next]_vars PROVE BatchInv'
  OBVIOUS
<1>1. SchedInv
  BY DEF RuntimeInv
<1>2. CASE Submit
  <2>1. phase # "processing" /\ UNCHANGED tickVars
    BY <1>2 DEF Submit, CallOut
  <2>2. PICK p \in Payloads : Enqueue(p)
    <3>1. CASE Replay
      <4>1. PICK k \in DOMAIN history : Enqueue(history[k].payload)
        BY <3>1 DEF Replay
      <4>2. history[k].payload \in Payloads
        <5>1. history[k] \in Commands
          BY <1>1 DEF SchedInv, SchedulerTypeOK
        <5> QED BY <5>1 DEF Commands
      <4> QED BY <4>1, <4>2
    <3> QED BY <1>2, <3>1 DEF Submit
  <2> QED BY <1>1, <2>1, <2>2, EnqueueKeepsBatch
<1>3. CASE ProcessNext
  BY <1>1, <1>3, ProcessKeepsBatch
<1>4. CASE StartProcessing
  BY <1>1, <1>4, StartKeepsBatch
<1>5. CASE FinishProcessing
  BY <1>1, <1>5, FinishKeepsBatch
<1>6. CASE \/ CancelCommand \/ PauseOrResume \/ Listen \/ RegisterType \/ DirectCall
           \/ ControllerSignals \/ CleanUp \/ CallAfterTick \/ UNCHANGED vars
  <2>1. /\ UNCHANGED <<pending, outcome, counts, rejected, nextCommandId, batch, result, failed>>
        /\ phase' = phase \/ (phase = "cleanup" /\ phase' = "after")
    BY <1>6 DEF CancelCommand, Cancel, PauseOrResume, Listen, RegisterType, DirectCall,
         ControllerSignals, CleanUp, CallAfterTick, schedulerVars, tickVars, vars
  <2> QED BY <2>1 DEF BatchInv, QueueInv, TallyInv, Reporting, Ended, IdsOf, Lists
<1>7. CASE BeginTick \/ StartControllers \/ ControllerFails
  <2>1. /\ UNCHANGED <<pending, outcome, rejected, nextCommandId, batch>>
        /\ phase # "processing" /\ phase' \in {"begin", "controllers"}
        /\ phase' = "controllers" => counts' = NoCounts
    BY <1>7 DEF BeginTick, StartControllers, ControllerFails, ResetCounts, schedulerVars,
         BatchInv, TallyInv
  <2> QED BY <2>1 DEF BatchInv, QueueInv, TallyInv, Reporting, IdsOf
<1>8. CASE EndTick
  <2>1. /\ UNCHANGED <<pending, outcome, rejected, nextCommandId>>
        /\ phase = "after" /\ phase' = "idle" /\ batch' = {}
    BY <1>8 DEF EndTick, schedulerVars
  <2> QED BY <2>1 DEF BatchInv, QueueInv, TallyInv, Reporting, IdsOf
<1> QED BY <1>2, <1>3, <1>4, <1>5, <1>6, <1>7, <1>8 DEF Next, HostStep, TickStep

LEMMA BatchInvAlways == Spec => []BatchInv
<1>1. BatchInv /\ RuntimeInv /\ [Next]_vars => BatchInv'
  BY BatchInvStep
<1> QED BY <1>1, BatchInvInit, RuntimeInvAlways, PTL DEF Spec

-----------------------------------------------------------------------------
(* The TickResult reports the tick: its counters, its list and its status   *)
(* tell what became of each command of the batch.                          *)
THEOREM RuntimeResultTells == Spec => []ResultTellsTheBatch
<1>1. BatchInv => ResultTellsTheBatch
  <2> SUFFICES ASSUME BatchInv, Reporting PROVE ResultTellsTheBatch
    BY DEF ResultTellsTheBatch
  <2>1. /\ \A id \in batch : outcome[id] \in Settled
        /\ result.executed = Cardinality(Ended("executed"))
        /\ counts.skipped = Cardinality(Ended("skipped"))
        /\ Lists(result.rejected, Ended("rejected"))
        /\ result.status = "Success" <=> Ended("rejected") = {} /\ ~failed
    BY DEF BatchInv, TallyInv
  <2> QED BY <2>1 DEF ResultTellsTheBatch, Ended, Lists, Settled
<1> QED BY <1>1, BatchInvAlways, PTL

-----------------------------------------------------------------------------
(* The events of a tick.  While commands are processed the block map is     *)
(* what it was at their start, with what they made and without what they   *)
(* killed, and no identity is made that was there before.                  *)
NetEffect ==
    /\ made \cap DOMAIN before = {}
    /\ killed \subseteq DOMAIN before \cup made
    /\ DOMAIN before \cup made \subseteq 1..nextIdentity
    /\ Identities = (DOMAIN before \cup made) \ killed

EventInv ==
    /\ phase \notin {"processing", "cleanup", "after"} => made = {} /\ killed = {}
    /\ phase = "processing" /\ tracking => NetEffect
    /\ EventsTellNetEffect

(* An insertion takes the next identity, every other operation takes none. *)
FreshOrGone ==
    /\ nextIdentity \in Nat /\ nextIdentity' \in Nat /\ nextIdentity <= nextIdentity'
    /\ \A i \in Identities' \ Identities : i \in (nextIdentity + 1)..nextIdentity'

LEMMA StoreStepIsFresh ==
  ASSUME StoreInv, [BMNext]_storeVars
  PROVE  FreshOrGone
<1>1. nextIdentity \in Nat
  BY IdentityAssumption DEF StoreInv, IndexInv
<1>2. ASSUME NEW t, NEW d, Insert(t, d) PROVE FreshOrGone
  BY <1>1, <1>2 DEF Insert, Extend, Identities, FreshOrGone
<1>3. ASSUME NEW S, Erase(S) PROVE FreshOrGone
  BY <1>1, <1>3 DEF Erase, Without, Identities, FreshOrGone
<1>4. ASSUME UNCHANGED nextIdentity, Identities' = Identities PROVE FreshOrGone
  BY <1>1, <1>4 DEF FreshOrGone
<1>5. ASSUME NEW t \in TypeIds, Create(t) \/ CreateEphemeral(t) \/ CommandCreate(t)
      PROVE  FreshOrGone
  BY <1>2, <1>5 DEF Create, CreateEphemeral, CommandCreate
<1>6. ASSUME NEW id, Destroy(id) PROVE FreshOrGone
  BY <1>3, <1>6 DEF Destroy
<1>7. ASSUME NEW targets, CommandDestroy(targets) PROVE FreshOrGone
  BY <1>3, <1>7 DEF CommandDestroy
<1>8. ASSUME NEW targets, NEW n, CommandResize(targets, n) PROVE FreshOrGone
  BY <1>4, <1>8 DEF CommandResize, Rewrite, Identities
<1>9. ASSUME NEW targets, NEW k, NEW v, CommandSetField(targets, k, v) PROVE FreshOrGone
  BY <1>4, <1>9 DEF CommandSetField, Rewrite, Identities
<1>10. CASE RebuildCounts \/ UNCHANGED storeVars
  BY <1>4, <1>10 DEF RebuildCounts, storeVars, Identities
<1> QED BY <1>5, <1>6, <1>7, <1>8, <1>9, <1>10 DEF BMNext, DestroyLowestEphemeral

(* A command's makings and killings are added to those of the tick. *)
LEMMA ProcessKeepsNetEffect ==
  ASSUME RuntimeInv, EventInv, ProcessNext, tracking
  PROVE  NetEffect'
<1>1. /\ NetEffect /\ before' = before
      /\ made' = made \cup (Identities' \ Identities)
      /\ killed' = killed \cup (Identities \ Identities')
  BY DEF ProcessNext, EventInv
<1>2. FreshOrGone
  <2>1. [Next]_vars
    BY DEF Next, TickStep
  <2> QED BY <2>1, RuntimeStepIsStoreStep, StoreStepIsFresh DEF RuntimeInv
<1>3. (Identities' \ Identities) \cap (DOMAIN before \cup made) = {}
  <2> SUFFICES ASSUME NEW i \in Identities' \ Identities, i \in DOMAIN before \cup made
               PROVE  FALSE
    OBVIOUS
  <2>1. i \in 1..nextIdentity /\ i \in (nextIdentity + 1)..nextIdentity' /\ nextIdentity \in Nat
    BY <1>1, <1>2 DEF NetEffect, FreshOrGone
  <2> QED BY <2>1
<1>4. DOMAIN before' \cup made' \subseteq 1..nextIdentity'
  <2>1. \A i \in Identities' \ Identities : i \in 1..nextIdentity'
    BY <1>2 DEF FreshOrGone
  <2>2. 1..nextIdentity \subseteq 1..nextIdentity'
    BY <1>2 DEF FreshOrGone
  <2> QED BY <1>1, <2>1, <2>2 DEF NetEffect
<1>5. made' \cap DOMAIN before' = {} /\ killed' \subseteq DOMAIN before' \cup made'
  BY <1>1, <1>3 DEF NetEffect
<1>6. Identities' = (DOMAIN before' \cup made') \ killed'
  BY <1>1, <1>3 DEF NetEffect
<1> QED BY <1>4, <1>5, <1>6 DEF NetEffect

(* The diff of the block map against before_blocks is the net effect. *)
LEMMA DiffIsNetEffect ==
  ASSUME NetEffect
  PROVE  /\ {e[1] : e \in BlockEvents.created} = made \ killed
         /\ BlockEvents.destroyed = killed \ made
<1>1. {e[1] : e \in BlockEvents.created} = Identities \ DOMAIN before
  <2>1. BlockEvents.created = {<<i, blocks[i].type>> : i \in Identities \ DOMAIN before}
    BY DEF BlockEvents
  <2>2. \A i \in Identities \ DOMAIN before :
           <<i, blocks[i].type>> \in BlockEvents.created /\ <<i, blocks[i].type>>[1] = i
    BY <2>1
  <2>3. \A e \in BlockEvents.created : e[1] \in Identities \ DOMAIN before
    BY <2>1
  <2> QED BY <2>2, <2>3
<1>2. BlockEvents.destroyed = DOMAIN before \ Identities
  BY DEF BlockEvents
<1> QED BY <1>1, <1>2 DEF NetEffect

LEMMA EventInvStep ==
  ASSUME RuntimeInv, EventInv, [Next]_vars
  PROVE  EventInv'
<1>1. CASE ProcessNext
  <2>1. phase = "processing" /\ phase' = phase /\ tracking' = tracking
    BY <1>1 DEF ProcessNext
  <2> QED BY <1>1, <2>1, ProcessKeepsNetEffect DEF EventInv, EventsTellNetEffect, Reporting
<1>2. CASE StartProcessing
  <2>1. /\ phase = "controllers" /\ phase' = "processing" /\ UNCHANGED storeVars
        /\ made' = {} /\ killed' = {} /\ tracking' = listening
        /\ listening => before' = identityTypes
    BY <1>2 DEF StartProcessing, Snapshot, EventInv
  <2>2. DOMAIN identityTypes = Identities /\ Identities \subseteq 1..nextIdentity
    BY DEF RuntimeInv, StoreInv, IndexInv, IndexesAgree
  <2>3. tracking' => NetEffect'
    BY <2>1, <2>2 DEF NetEffect, storeVars, Identities
  <2> QED BY <2>1, <2>3 DEF EventInv, EventsTellNetEffect, Reporting
<1>3. CASE FinishProcessing
  <2>1. /\ phase = "processing" /\ phase' = "cleanup"
        /\ UNCHANGED <<tracking, made, killed>>
        /\ tracking => fired' = BlockEvents
    BY <1>3 DEF FinishProcessing
  <2>2. tracking => /\ {e[1] : e \in BlockEvents.created} = made \ killed
                    /\ BlockEvents.destroyed = killed \ made
    BY <2>1, DiffIsNetEffect DEF EventInv
  <2> QED BY <2>1, <2>2 DEF EventInv, EventsTellNetEffect, Reporting
<1>4. CASE EndTick
  BY <1>4 DEF EndTick, EventInv, EventsTellNetEffect, Reporting
<1>5. CASE CleanUp \/ CallAfterTick
  BY <1>5 DEF CleanUp, CallAfterTick, EventInv, EventsTellNetEffect, Reporting, tickVars
<1>6. CASE BeginTick \/ StartControllers
  BY <1>6 DEF BeginTick, StartControllers, EventInv, EventsTellNetEffect, Reporting
<1>7. CASE \/ Submit \/ CancelCommand \/ PauseOrResume \/ Listen \/ RegisterType \/ DirectCall
           \/ ControllerSignals \/ ControllerFails \/ UNCHANGED vars
  <2>1. UNCHANGED <<phase, before, tracking, fired, made, killed>>
    BY <1>7 DEF Submit, CancelCommand, PauseOrResume, Listen, RegisterType, DirectCall,
         ControllerSignals, ControllerFails, tickVars, vars
  <2>2. phase = "processing" => UNCHANGED storeVars
    BY <1>7 DEF Submit, CancelCommand, PauseOrResume, Listen, RegisterType, DirectCall,
         ControllerSignals, ControllerFails, vars
  <2> QED BY <2>1, <2>2 DEF EventInv, EventsTellNetEffect, Reporting, NetEffect, storeVars, Identities
<1> QED BY <1>1, <1>2, <1>3, <1>4, <1>5, <1>6, <1>7 DEF Next, HostStep, TickStep

(* The block events fired at the end of a tick are the net effect of its    *)
(* commands, however they create and destroy.                              *)
THEOREM RuntimeEventsTell == Spec => []EventsTellNetEffect
<1>1. Init => EventInv
  BY DEF Init, EventInv, EventsTellNetEffect, Reporting
<1>2. RuntimeInv /\ EventInv /\ [Next]_vars => EventInv'
  BY EventInvStep
<1>3. EventInv => EventsTellNetEffect
  BY DEF EventInv
<1> QED BY <1>1, <1>2, <1>3, RuntimeInvAlways, PTL DEF Spec
=============================================================================
