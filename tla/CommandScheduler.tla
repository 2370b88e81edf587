-------------------------- MODULE CommandScheduler --------------------------
(***************************************************************************)
(* FifoScheduler with the per-command processing of SchedulerBase, and     *)
(* Runtime's submit_command and cancel_command in front of it.             *)
(*                                                                         *)
(* cancelled_ is a vector of ids in the code; process_command erases one   *)
(* entry that equals the command's id, so only the number of entries of    *)
(* each id matters.                                                        *)
(***************************************************************************)
EXTENDS RuntimeCommands

CONSTANTS
    MaxCommands,   \* bound on next_command_id_
    MaxCancels     \* bound on the cancel_command calls naming one id

ASSUME CommandBounds == MaxCommands \in Nat /\ MaxCancels \in Nat

VARIABLES
    pending,        \* pending_: commands in submission order
    cancelled,      \* cancelled_: entries held for each command id
    rejected,       \* rejected_details_: ids of the commands rejected so far
    history,        \* history_: executed commands
    counts,         \* executed_, rejected_ and skipped_
    nextCommandId,  \* Runtime::next_command_id_
    outcome         \* history variable: what became of each command id

CommandIds == 1..MaxCommands

schedulerVars ==
    <<pending, cancelled, rejected, history, counts, nextCommandId, outcome>>

Commands == [id : CommandIds, payload : Payloads]
Outcomes == {"none", "pending", "executed", "rejected", "skipped"}

IdsOf(commands) == {commands[k].id : k \in DOMAIN commands}

NoCounts == [executed |-> 0, rejected |-> 0, skipped |-> 0]

SchedulerInit ==
    /\ pending = << >>
    /\ cancelled = [id \in CommandIds |-> 0]
    /\ rejected = << >>
    /\ history = << >>
    /\ counts = NoCounts
    /\ nextCommandId = 0
    /\ outcome = [id \in CommandIds |-> "none"]

-----------------------------------------------------------------------------
(* Mutant: next_command_id_++ for ++next_command_id_. *)
Enqueue_PostIncrement(p) ==
    /\ nextCommandId < MaxCommands
    /\ nextCommandId' = nextCommandId + 1
    /\ pending' = Append(pending, [id |-> nextCommandId, payload |-> p])
    /\ outcome' = [outcome EXCEPT ![nextCommandId + 1] = "pending"]
    /\ UNCHANGED <<cancelled, rejected, history, counts>>

(* submit_command and enqueue.  Nothing is validated here. *)
Enqueue(p) ==
    LET id == nextCommandId + 1 IN
    /\ nextCommandId < MaxCommands
    /\ nextCommandId' = id
    /\ pending' = Append(pending, [id |-> id, payload |-> p])
    /\ outcome' = [outcome EXCEPT ![id] = "pending"]
    /\ UNCHANGED <<cancelled, rejected, history, counts>>

(* replay_command submits the payload of an executed command anew. *)
Replay == \E k \in DOMAIN history : Enqueue(history[k].payload)

(* cancel_command: the id is noted, whatever has become of the command and *)
(* whether or not it has been issued.                                      *)
Cancel(id) ==
    /\ cancelled[id] < MaxCancels
    /\ cancelled' = [cancelled EXCEPT ![id] = @ + 1]
    /\ UNCHANGED <<pending, rejected, history, counts, nextCommandId, outcome>>

(* Mutant: the counters run on from tick to tick. *)
ResetCounts_Never == UNCHANGED schedulerVars

(* reset_counts *)
ResetCounts ==
    /\ counts' = NoCounts
    /\ UNCHANGED <<pending, cancelled, rejected, history, nextCommandId, outcome>>

(* take_rejected moves the list out. *)
TakeRejected ==
    /\ rejected' = << >>
    /\ UNCHANGED <<pending, cancelled, history, counts, nextCommandId, outcome>>

-----------------------------------------------------------------------------
(* process_command on the oldest pending command. *)
Next1 == Head(pending)

Settle(o) ==
    /\ pending' = Tail(pending)
    /\ outcome' = [outcome EXCEPT ![Next1.id] = o]
    /\ counts' = [counts EXCEPT ![o] = @ + 1]
    /\ UNCHANGED nextCommandId

(* Mutant: a hit clears the whole cancel list. *)
Skip_ClearsList ==
    /\ cancelled[Next1.id] > 0
    /\ cancelled' = [id \in CommandIds |-> 0]
    /\ Settle("skipped")
    /\ UNCHANGED <<rejected, history, storeVars>>

Skip ==
    /\ cancelled[Next1.id] > 0
    /\ cancelled' = [cancelled EXCEPT ![Next1.id] = @ - 1]
    /\ Settle("skipped")
    /\ UNCHANGED <<rejected, history, storeVars>>

(* Mutant: the command enters the history before it is validated. *)
Reject_Logged ==
    /\ cancelled[Next1.id] = 0
    /\ ~Valid(Next1.payload)
    /\ rejected' = Append(rejected, Next1.id)
    /\ history' = Append(history, Next1)
    /\ Settle("rejected")
    /\ UNCHANGED <<cancelled, storeVars>>

Reject ==
    /\ cancelled[Next1.id] = 0
    /\ ~Valid(Next1.payload)
    /\ rejected' = Append(rejected, Next1.id)
    /\ Settle("rejected")
    /\ UNCHANGED <<cancelled, history, storeVars>>

Run ==
    /\ cancelled[Next1.id] = 0
    /\ Valid(Next1.payload)
    /\ Execute(Next1.payload)
    /\ history' = Append(history, Next1)
    /\ Settle("executed")
    /\ UNCHANGED <<cancelled, rejected>>

ProcessCommand == pending # << >> /\ (Skip \/ Reject \/ Run)

-----------------------------------------------------------------------------
SchedulerTypeOK ==
    /\ pending \in Seq(Commands)
    /\ cancelled \in [CommandIds -> 0..MaxCancels]
    /\ rejected \in Seq(CommandIds)
    /\ history \in Seq(Commands)
    /\ counts \in [{"executed", "rejected", "skipped"} -> Nat]
    /\ nextCommandId \in 0..MaxCommands
    /\ outcome \in [CommandIds -> Outcomes]
=============================================================================
