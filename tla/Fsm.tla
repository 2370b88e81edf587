-------------------------------- MODULE Fsm ---------------------------------
(***************************************************************************)
(* Fsm: a table of transitions that is filled and then built into a         *)
(* controller, which works off the events that were queued before build()   *)
(* in its first run; events enqueued later stay with the builder.  Entry    *)
(* and exit actions are user code; a state without one has one that does    *)
(* nothing.                                                                 *)
(***************************************************************************)
EXTENDS Integers, Sequences

CONSTANTS
    FsmStates,     \* numbers: the order of the tree of states
    FsmEvents,
    DefaultState,  \* StateT{}
    MaxFsmCalls    \* bound on calls to the builder

ASSUME FsmAssumption ==
    FsmStates \subseteq Nat /\ DefaultState \in Nat /\ MaxFsmCalls \in Nat

VARIABLES
    builder,       \* the Fsm; initial holds initial_state_ once has_initial_ is set
    fsmCalls,      \* calls made to it
    machine,       \* the controller built last
    fsmPc,         \* where its run is
    fsmAt,         \* the event it is at
    given,         \* history variable: the events the machine was built with
    acts,          \* history variable: its start, exits and entries, in order
    passed         \* history variable: <<state, event>> met without a transition

fsmVars == <<builder, fsmCalls, machine, fsmPc, fsmAt, given, acts, passed>>

NoTable == [moves |-> << >>, states |-> {}]
NoMachine == [moves |-> << >>, current |-> DefaultState, queue |-> << >>]

FsmInit ==
    /\ builder = [table |-> NoTable, initial |-> {}, queue |-> << >>]
    /\ fsmCalls = 0
    /\ machine = NoMachine /\ fsmPc = "idle" /\ fsmAt = 0
    /\ given = << >> /\ acts = << >> /\ passed = << >>

FsmCall(b) ==
    /\ fsmCalls < MaxFsmCalls
    /\ fsmCalls' = fsmCalls + 1
    /\ builder' = b
    /\ UNCHANGED <<machine, fsmPc, fsmAt, acts, passed, given>>

InitialState(s) == FsmCall([builder EXCEPT !.initial = {s}])
AddState(s)     == FsmCall([builder EXCEPT !.table.states = @ \cup {s}])
EnqueueFsm(e)   == FsmCall([builder EXCEPT !.queue = Append(@, e)])

(* add_transition overwrites an earlier one. *)
AddTransition(s, e, t) ==
    LET moves == builder.table.moves IN
    FsmCall([builder EXCEPT !.table.moves =
        [k \in DOMAIN moves \cup {<<s, e>>} |-> IF k = <<s, e>> THEN t ELSE moves[k]]])

(* The state a machine starts in: the one given, the first in the tree, or  *)
(* a default-constructed one.                                               *)
StartState ==
    LET states == builder.table.states IN
    IF builder.initial # {} THEN CHOOSE s \in builder.initial : TRUE
    ELSE IF states # {} THEN CHOOSE s \in states : \A t \in states : s <= t
    ELSE DefaultState

(* build: the table and the queue go to the controller. *)
BuildFsm ==
    /\ fsmPc = "idle"
    /\ machine' = [moves |-> builder.table.moves, current |-> StartState,
                   queue |-> builder.queue]
    /\ builder' = [table |-> NoTable, initial |-> builder.initial, queue |-> << >>]
    /\ fsmAt' = 0 /\ passed' = << >>
    /\ given' = builder.queue /\ acts' = << <<"start", StartState>> >>
    /\ UNCHANGED <<fsmCalls, fsmPc>>

RunFsm ==
    /\ fsmPc = "idle"
    /\ fsmPc' = "loop" /\ fsmAt' = 1
    /\ UNCHANGED <<builder, fsmCalls, machine, acts, passed, given>>

Here == <<machine.current, machine.queue[fsmAt]>>

(* Mutant: an event without a transition ends the run. *)
PassEvent_Stops ==
    /\ fsmPc = "loop" /\ fsmAt <= Len(machine.queue) /\ Here \notin DOMAIN machine.moves
    /\ passed' = Append(passed, Here)
    /\ fsmAt' = Len(machine.queue) + 1
    /\ UNCHANGED <<builder, fsmCalls, machine, fsmPc, acts, given>>

PassEvent ==
    /\ fsmPc = "loop" /\ fsmAt <= Len(machine.queue) /\ Here \notin DOMAIN machine.moves
    /\ passed' = Append(passed, Here)
    /\ fsmAt' = fsmAt + 1
    /\ UNCHANGED <<builder, fsmCalls, machine, fsmPc, acts, given>>

ExitState ==
    /\ fsmPc = "loop" /\ fsmAt <= Len(machine.queue) /\ Here \in DOMAIN machine.moves
    /\ fsmPc' = "exit"
    /\ acts' = Append(acts, <<"exit", machine.current, machine.queue[fsmAt]>>)
    /\ UNCHANGED <<builder, fsmCalls, machine, fsmAt, passed, given>>

EnterState ==
    /\ fsmPc = "exit"
    /\ fsmPc' = "entry"
    /\ machine' = [machine EXCEPT !.current = machine.moves[Here]]
    /\ acts' = Append(acts, <<"entry", machine'.current>>)
    /\ UNCHANGED <<builder, fsmCalls, fsmAt, passed, given>>

EntryReturns ==
    /\ fsmPc = "entry"
    /\ fsmPc' = "loop" /\ fsmAt' = fsmAt + 1
    /\ UNCHANGED <<builder, fsmCalls, machine, acts, passed, given>>

FsmReturns ==
    /\ fsmPc = "loop" /\ fsmAt > Len(machine.queue)
    /\ fsmPc' = "idle" /\ fsmAt' = 0
    /\ machine' = [machine EXCEPT !.queue = << >>]
    /\ UNCHANGED <<builder, fsmCalls, acts, passed, given>>

FsmNext ==
    \/ PassEvent \/ ExitState \/ EnterState \/ EntryReturns \/ FsmReturns \/ RunFsm
    \/ /\ fsmPc # "loop"
       /\ \/ BuildFsm
          \/ \E s \in FsmStates : InitialState(s) \/ AddState(s)
          \/ \E e \in FsmEvents : EnqueueFsm(e)
          \/ \E s, t \in FsmStates, e \in FsmEvents : AddTransition(s, e, t)
-----------------------------------------------------------------------------
(* SPEC-020: a machine is in one state; it leaves that state before it      *)
(* enters the one its table names for the event, which is where it stays    *)
(* until the next exit; and a run works off every event it was built with,  *)
(* passing over those without a transition.                                 *)
FsmFollowsTable ==
    /\ \A i \in 1..Len(acts) - 1 :
         IF acts[i][1] = "exit"
         THEN acts[i + 1] = <<"entry", machine.moves[<<acts[i][2], acts[i][3]>>]>>
         ELSE acts[i + 1][1] = "exit" /\ acts[i + 1][2] = acts[i][2]
    /\ acts # << >> => acts[Len(acts)][2] = machine.current
    /\ \A i \in DOMAIN passed : passed[i] \notin DOMAIN machine.moves
    /\ fsmPc = "idle" /\ machine.queue = << >> =>
         Len(given) = Len(passed) + Len(acts) \div 2
=============================================================================
