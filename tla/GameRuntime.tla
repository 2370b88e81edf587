---------------------------- MODULE GameRuntime -----------------------------
(***************************************************************************)
(* Runtime<FifoScheduler>: one tick as the steps of execute_single_tick,   *)
(* and the calls the host and its callbacks make around and during it.     *)
(*                                                                         *)
(* The runtime is single threaded.  Host calls happen between ticks;       *)
(* callbacks and controllers run inside one, at the phases where the tick  *)
(* calls out, and may queue or cancel commands and pause the runtime.      *)
(* Which controller runs when is not distinguished here.                   *)
(***************************************************************************)
EXTENDS CommandScheduler

CONSTANT DirectApi     \* whether the host calls create_block and its kind

ASSUME DirectApiAssumption == DirectApi \in BOOLEAN
ASSUME RoomAssumption      == MaxCommands <= MaxIdentity

VARIABLES
    phase,       \* where execute_single_tick stands; "idle" between ticks
    paused,      \* paused_
    listening,   \* event_bus_ has an entry for a block event
    failed,      \* a controller of this tick returned an error
    before,      \* before_blocks: identity -> type, when track_blocks
    tracking,    \* track_blocks
    fired,       \* the block events fired in this tick
    result,      \* the TickResult handed to after_tick
    batch,       \* history variable: ids pending when processing started
    made,        \* history variable: identities made by commands this tick
    killed       \* history variable: identities destroyed by commands this tick

tickVars == <<phase, paused, listening, failed, before, tracking, fired, result, batch, made, killed>>
vars == <<storeVars, registered, schedulerVars, tickVars>>

Phases    == {"idle", "begin", "controllers", "processing", "cleanup", "after"}
NoBlocks  == [i \in {} |-> Blank]
NoEvents  == [created |-> {}, destroyed |-> {}]
NoResult  == [executed |-> 0, rejected |-> << >>, status |-> "Success"]

Init ==
    /\ BMInit
    /\ SchedulerInit
    /\ registered = {}
    /\ phase = "idle"
    /\ paused = FALSE
    /\ listening = FALSE
    /\ failed = FALSE
    /\ before = NoBlocks
    /\ tracking = FALSE
    /\ fired = NoEvents
    /\ result = NoResult
    /\ batch = {}
    /\ made = {}
    /\ killed = {}

-----------------------------------------------------------------------------
(* Calls from outside. *)

(* The phases in which code other than the runtime's is on the stack. *)
CallOut == {"idle", "begin", "controllers", "after"}

Submit ==
    /\ phase \in CallOut
    /\ (\E p \in Payloads : Enqueue(p)) \/ Replay
    /\ UNCHANGED <<storeVars, registered, tickVars>>

CancelCommand ==
    /\ phase \in CallOut
    /\ \E id \in CommandIds : Cancel(id)
    /\ UNCHANGED <<storeVars, registered, tickVars>>

PauseOrResume ==
    /\ phase \in CallOut
    /\ paused' = ~paused
    /\ UNCHANGED <<storeVars, registered, schedulerVars, phase, listening, failed,
                   before, tracking, fired, result, batch, made, killed>>

(* listen, or a callback registration that ends in it.  A handler list is  *)
(* never dropped from the bus again, even when it becomes empty.           *)
Listen ==
    /\ phase = "idle" /\ ~listening
    /\ listening' = TRUE
    /\ UNCHANGED <<storeVars, registered, schedulerVars, phase, paused, failed,
                   before, tracking, fired, result, batch, made, killed>>

RegisterType ==
    /\ phase = "idle"
    /\ \E t \in TypeIds : RegisterBlockType(t)
    /\ UNCHANGED <<storeVars, schedulerVars, tickVars>>

(* Bound: an identity is kept back for each command not executed yet, so   *)
(* that the bound on identities never blocks a tick.                       *)
Room == nextIdentity + (MaxCommands - Len(history)) < MaxIdentity

(* create_block, create_ephemeral_block, destroy_block and the public       *)
(* destroy_all_ephemeral, called by the host between ticks.                *)
DirectCall ==
    /\ DirectApi /\ phase = "idle"
    /\ \/ Room /\ \E t \in registered : Create(t) \/ CreateEphemeral(t)
       \/ \E id \in Identities : Destroy(id)
       \/ DestroyLowestEphemeral(registered)
    /\ UNCHANGED <<registered, schedulerVars, tickVars>>

-----------------------------------------------------------------------------
(* tick(); a paused runtime returns an empty result and changes nothing. *)
BeginTick ==
    /\ phase = "idle" /\ ~paused
    /\ phase' = "begin"
    /\ UNCHANGED <<storeVars, registered, schedulerVars, paused, listening, failed,
                   before, tracking, fired, result, batch, made, killed>>

StartControllers ==
    /\ phase = "begin"
    /\ phase' = "controllers"
    /\ ResetCounts
    /\ UNCHANGED <<storeVars, registered, paused, listening, failed,
                   before, tracking, fired, result, batch, made, killed>>

(* EphemeralProducer::create, at once and without a command. *)
ControllerSignals ==
    /\ phase = "controllers" /\ Room
    /\ \E t \in registered : CreateEphemeral(t)
    /\ UNCHANGED <<registered, schedulerVars, tickVars>>

ControllerFails ==
    /\ phase = "controllers" /\ ~failed
    /\ failed' = TRUE
    /\ UNCHANGED <<storeVars, registered, schedulerVars, phase, paused, listening,
                   before, tracking, fired, result, batch, made, killed>>

(* Mutant: the snapshot leaves ephemeral blocks out. *)
Snapshot_PersistentOnly ==
    [i \in {j \in DOMAIN identityTypes : identityTypes[j] \notin Ephemeral} |-> identityTypes[i]]

(* before_blocks, taken after the controllers and before the commands. *)
Snapshot == identityTypes

(* Mutant: commands wait while the runtime is paused. *)
StartProcessing_UnlessPaused ==
    /\ phase = "controllers" /\ ~paused
    /\ phase' = "processing"
    /\ tracking' = listening
    /\ before' = IF listening THEN Snapshot ELSE NoBlocks
    /\ batch' = IdsOf(pending)
    /\ UNCHANGED <<storeVars, registered, schedulerVars, paused, listening, failed,
                   fired, result, made, killed>>

StartProcessing ==
    /\ phase = "controllers"
    /\ phase' = "processing"
    /\ tracking' = listening
    /\ before' = IF listening THEN Snapshot ELSE NoBlocks
    /\ batch' = IdsOf(pending)
    /\ UNCHANGED <<storeVars, registered, schedulerVars, paused, listening, failed,
                   fired, result, made, killed>>

ProcessNext ==
    /\ phase = "processing"
    /\ ProcessCommand
    /\ made' = made \cup (Identities' \ Identities)
    /\ killed' = killed \cup (Identities \ Identities')
    /\ UNCHANGED <<registered, phase, paused, listening, failed, before, tracking,
                   fired, result, batch>>

(* The diff of the block map against before_blocks. *)
BlockEvents ==
    [created   |-> {<<i, blocks[i].type>> : i \in Identities \ DOMAIN before},
     destroyed |-> DOMAIN before \ Identities]

Status ==
    IF rejected # << >> \/ failed THEN "PartialFailure" ELSE "Success"

FinishProcessing ==
    /\ phase = "processing" /\ pending = << >>
    /\ phase' = "cleanup"
    /\ fired' = IF tracking THEN BlockEvents ELSE NoEvents
    /\ result' = [executed |-> counts.executed, rejected |-> rejected, status |-> Status]
    /\ TakeRejected
    /\ RebuildCounts
    /\ UNCHANGED <<registered, paused, listening, failed, before, tracking, batch, made, killed>>

CleanUp ==
    /\ phase = "cleanup"
    /\ DestroyLowestEphemeral(registered)
    /\ UNCHANGED <<registered, schedulerVars, tickVars>>

(* Mutant: after_tick runs before the ephemeral blocks are destroyed. *)
CallAfterTick_TooEarly ==
    /\ phase = "cleanup"
    /\ phase' = "after"
    /\ UNCHANGED <<storeVars, registered, schedulerVars, paused, listening, failed,
                   before, tracking, fired, result, batch, made, killed>>

CallAfterTick ==
    /\ phase = "cleanup" /\ EphemeralIds(registered) = {}
    /\ phase' = "after"
    /\ UNCHANGED <<storeVars, registered, schedulerVars, paused, listening, failed,
                   before, tracking, fired, result, batch, made, killed>>

(* TickEnd and the return: the tick's locals are gone. *)
EndTick ==
    /\ phase = "after"
    /\ phase' = "idle"
    /\ failed' = FALSE
    /\ before' = NoBlocks
    /\ tracking' = FALSE
    /\ fired' = NoEvents
    /\ result' = NoResult
    /\ batch' = {}
    /\ made' = {}
    /\ killed' = {}
    /\ UNCHANGED <<storeVars, registered, schedulerVars, paused, listening>>

-----------------------------------------------------------------------------
HostStep == Submit \/ CancelCommand \/ PauseOrResume \/ Listen \/ RegisterType \/ DirectCall

TickStep ==
    \/ StartControllers \/ StartProcessing \/ ProcessNext \/ FinishProcessing
    \/ CleanUp \/ CallAfterTick \/ EndTick

Next == HostStep \/ BeginTick \/ ControllerSignals \/ ControllerFails \/ TickStep

Spec == Init /\ [][Next]_vars

(* A tick, once begun, runs to its end: the controllers and callbacks      *)
(* return.  The host keeps calling tick, and each call made while the      *)
(* runtime is not paused begins one.                                       *)
Fairness == WF_vars(TickStep) /\ SF_vars(BeginTick)

FairSpec == Spec /\ Fairness

-----------------------------------------------------------------------------
(* Type invariant of the runtime. *)
TypeOK ==
    /\ BMTypeOK
    /\ SchedulerTypeOK
    /\ registered \subseteq TypeIds
    /\ phase \in Phases
    /\ paused \in BOOLEAN /\ listening \in BOOLEAN
    /\ failed \in BOOLEAN /\ tracking \in BOOLEAN
    /\ DOMAIN before \subseteq 1..MaxIdentity
    /\ before \in [DOMAIN before -> TypeIds]
    /\ fired.created \subseteq (1..MaxIdentity) \X TypeIds
    /\ fired.destroyed \subseteq 1..MaxIdentity
    /\ result.executed \in Nat /\ result.rejected \in Seq(CommandIds)
    /\ result.status \in {"Success", "PartialFailure"}
    /\ batch \subseteq CommandIds
    /\ made \subseteq 1..MaxIdentity /\ killed \subseteq 1..MaxIdentity

Reporting == phase \in {"cleanup", "after"}

(* SPEC-011: the TickResult reports the tick.  Every command that was      *)
(* pending when processing started is settled once, and the counters, the  *)
(* rejection list and the status handed to after_tick tell exactly what    *)
(* became of that batch, with nothing carried over from an earlier tick.   *)
ResultTellsTheBatch ==
    LET Ended(o) == {id \in batch : outcome[id] = o} IN
    Reporting =>
        /\ \A id \in batch : outcome[id] \in {"executed", "rejected", "skipped"}
        /\ result.executed = Cardinality(Ended("executed"))
        /\ {result.rejected[k] : k \in DOMAIN result.rejected} = Ended("rejected")
        /\ Len(result.rejected) = Cardinality(Ended("rejected"))
        /\ counts.skipped = Cardinality(Ended("skipped"))
        /\ result.status = "Success" <=> Ended("rejected") = {} /\ ~failed

(* SPEC-017 and SPEC-024: block events are found by diffing the block map, *)
(* and the diff is the net effect of the tick's commands: a block made and *)
(* kept is announced once, a block destroyed that was there before is      *)
(* announced once, and what controllers make without a command is silent.  *)
EventsTellNetEffect ==
    Reporting /\ tracking =>
        /\ {e[1] : e \in fired.created} = made \ killed
        /\ fired.destroyed = killed \ made

(* SPEC-024: when the after_tick callbacks run no ephemeral block is left, *)
(* whoever created it: a controller, the host before the tick, a command.  *)
NoEphemeralAfterTick ==
    phase = "after" => \A i \in Identities : blocks[i].type \notin Ephemeral

(* SPEC-024, line 139: ephemeral blocks fire no BlockCreated or            *)
(* BlockDestroyed events.  A CreateBlock command of an ephemeral type is   *)
(* accepted, announced, and the block's destruction is silent.             *)
NoEventForEphemeral == \A e \in fired.created : e[2] \notin Ephemeral

(* SPEC-005: if validation fails for any target the entire command fails.  *)
(* Processing a command changes every one of its targets or no block.      *)
AppliedToAll(p) ==
    /\ p.targets \subseteq Identities
    /\ \A i \in Identities \ p.targets : i \in Identities' /\ blocks'[i] = blocks[i]
    /\ \A i \in p.targets :
         \/ p.op = "destroy" /\ i \notin Identities'
         \/ p.op = "resize"  /\ Len(blocks'[i].data) = p.size
         \/ p.op = "set"     /\ blocks'[i].data[p.offset] = p.value

AllOrNothing ==
    [][phase = "processing" /\ pending' # pending =>
          \/ blocks' = blocks
          \/ Next1.payload.op = "create"
          \/ AppliedToAll(Next1.payload)]_vars
=============================================================================
