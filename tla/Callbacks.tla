----------------------------- MODULE Callbacks ------------------------------
(***************************************************************************)
(* The places where the runtime and its ready-made controllers loop over    *)
(* user code, which may call back.  A behaviour is about one of them.       *)
(***************************************************************************)
EXTENDS TickLoop, EventLoop, Fsm, RuleSystem, Pipeline

CONSTANT Loops   \* the loops looked at

VARIABLE loop

callbackVars == <<wild, loop, tickVars, eventVars, fsmVars, ruleVars, pipeVars>>

CallbacksInit ==
    /\ loop \in Loops
    /\ wild = FALSE
    /\ TickInit /\ EventInit /\ FsmInit /\ RuleInit /\ PipeInit

(* Undefined behaviour: nothing is said about what follows. *)
Undefined == wild /\ UNCHANGED callbackVars

CallbacksNext ==
    \/ /\ UNCHANGED loop
       /\ \/ loop = "tick"     /\ TickNext  /\ UNCHANGED <<eventVars, fsmVars, ruleVars, pipeVars>>
          \/ loop = "events"   /\ EventNext /\ UNCHANGED <<tickVars, fsmVars, ruleVars, pipeVars>>
          \/ loop = "fsm"      /\ FsmNext   /\ UNCHANGED <<wild, tickVars, eventVars, ruleVars, pipeVars>>
          \/ loop = "rules"    /\ RuleNext  /\ UNCHANGED <<tickVars, eventVars, fsmVars, pipeVars>>
          \/ loop = "pipeline" /\ PipeNext  /\ UNCHANGED <<tickVars, eventVars, fsmVars, ruleVars>>
    \/ Undefined

TickRuns ==
    /\ ~wild /\ TickStep
    /\ UNCHANGED <<wild, loop, eventVars, fsmVars, ruleVars, pipeVars>>

(* A tick that has begun goes on: its handlers and controllers return. *)
CallbacksSpec == CallbacksInit /\ [][CallbacksNext]_callbackVars /\ WF_callbackVars(TickRuns)

(* SPEC-009: a tick ends, unless one of its sub-ticks clears the timestep,  *)
(* for which the accumulator, reset to 0, then never is too short.          *)
TickEnds == phase # "host" ~> (phase = "host" \/ wild \/ (looping /\ fixed = 0))
=============================================================================
