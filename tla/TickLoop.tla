------------------------------ MODULE TickLoop ------------------------------
(***************************************************************************)
(* Runtime::tick: one tick or, with a fixed timestep, as many sub-ticks as  *)
(* the accumulated time holds, and the handlers each of them calls.  What a *)
(* sub-tick does to blocks is GameRuntime's; here it only has a status.     *)
(* Handlers, controllers and the host may change the timestep, pause, and   *)
(* register and remove handlers; tick itself is not called from within.     *)
(***************************************************************************)
EXTENDS EventHandlers

CONSTANTS
    Steps,      \* timesteps that are set
    Deltas,     \* time_delta of a call to tick
    MaxTime     \* bound on accumulator_

ASSUME TimeAssumption ==
    Steps \subseteq Nat \ {0} /\ Deltas \subseteq Nat /\ MaxTime \in Nat

VARIABLES
    paused,     \* paused_
    fixed,      \* fixed_timestep_, 0 when there is none
    acc,        \* accumulator_
    phase,      \* where the tick is
    walk,       \* the loop over the handlers, in a phase that has one
    looping,    \* the tick runs sub-ticks of a fixed length
    sub,        \* status of the running sub-tick
    combined,   \* status of the result
    due,        \* history variable: time given to tick since the timestep was
                \* set that no sub-tick has been run for
    disturbed,  \* history variable: the timestep was changed by a sub-tick
    seen,       \* history variable: statuses of the sub-ticks of this tick
    called,     \* history variable: handlers this sub-tick called, in order
    kept        \* history variable: handlers registered when this sub-tick
                \* began and not removed since

timeVars == <<paused, fixed, acc, due, disturbed>>
stepVars == <<phase, walk, looping, sub, combined, seen, called>>
tickVars == <<handlerVars, timeVars, stepVars, kept>>

Statuses == {"Success", "PartialFailure", "CriticalFailure"}
Phases   == {"host", "work"} \cup Lists

TickInit ==
    /\ HandlersInit
    /\ paused = FALSE /\ fixed = 0 /\ acc = 0
    /\ phase = "host" /\ walk = NoWalk /\ looping = FALSE
    /\ sub = "Success" /\ combined = "Success"
    /\ due = 0 /\ disturbed = FALSE /\ seen = {} /\ called = << >> /\ kept = {}

Fire(l) == phase' = l /\ walk' = WalkOver(handlers[l])

(* The first thing execute_single_tick does is to fire TickBegin. *)
BeginSubTick ==
    /\ Fire("TickBegin")
    /\ called' = << >>
    /\ kept' = {h \in issued : Registered(h)}
    /\ sub' = "Success"

(* tick, not paused.  With a timestep and too little time it only counts;   *)
(* accumulator_ may be short by a step that a handler put there.            *)
Tick(delta) ==
    /\ phase = "host" /\ ~paused
    /\ acc + delta <= MaxTime
    /\ combined' = "Success" /\ seen' = {}
    /\ looping' = (fixed > 0 /\ acc + delta >= fixed)
    /\ IF fixed > 0
       THEN /\ acc' = acc + delta
            /\ IF acc + delta >= fixed
               THEN BeginSubTick /\ due' = due + delta - fixed
               ELSE due' = due + delta /\ UNCHANGED <<phase, walk, called, kept, sub>>
       ELSE BeginSubTick /\ UNCHANGED <<acc, due>>
    /\ UNCHANGED <<handlerVars, paused, fixed, disturbed>>

CallHandler ==
    /\ phase \in Lists /\ CanEnter(walk)
    /\ walk' = Enter(walk)
    /\ called' = Append(called, <<phase, handlers[phase][walk.at]>>)
    /\ UNCHANGED <<handlerVars, timeVars, kept, phase, looping, sub, combined, seen>>

HandlerReturns ==
    /\ walk.inside
    /\ walk' = Leave(walk)
    /\ UNCHANGED <<handlerVars, timeVars, kept, phase, looping, sub, combined, seen, called>>

(* Controllers run, commands are processed, ephemeral blocks destroyed. *)
Work ==
    /\ phase = "TickBegin" /\ WalkedOut(walk)
    /\ phase' = "work" /\ walk' = NoWalk
    /\ UNCHANGED <<handlerVars, timeVars, kept, looping, sub, combined, seen, called>>

(* Mutant: a critical failure skips the callbacks. *)
WorkDone_SkipsCallbacks ==
    /\ phase = "work"
    /\ sub' \in Statuses
    /\ seen' = seen \cup {sub'}
    /\ Fire(IF sub' = "CriticalFailure" THEN "TickEnd" ELSE "AfterTick")
    /\ UNCHANGED <<handlerVars, timeVars, kept, looping, combined, called>>

WorkDone ==
    /\ phase = "work"
    /\ sub' \in Statuses
    /\ seen' = seen \cup {sub'}
    /\ Fire("AfterTick")
    /\ UNCHANGED <<handlerVars, timeVars, kept, looping, combined, called>>

FireTickEnd ==
    /\ phase = "AfterTick" /\ WalkedOut(walk)
    /\ Fire("TickEnd")
    /\ UNCHANGED <<handlerVars, timeVars, kept, looping, sub, combined, seen, called>>

(* Mutant: the status of the last sub-tick wins. *)
Worse_Latest(status, latest) == latest

Worse(status, latest) ==
    IF latest = "CriticalFailure" THEN latest
    ELSE IF latest = "PartialFailure" /\ status # "CriticalFailure" THEN latest
    ELSE status

(* Mutant: the time of a critical sub-tick is given back. *)
EndSubTick_KeepsTime ==
    /\ phase = "TickEnd" /\ WalkedOut(walk)
    /\ combined' = IF looping THEN Worse(combined, sub) ELSE sub
    /\ acc' = IF looping /\ sub # "CriticalFailure" THEN acc - fixed ELSE acc
    /\ IF looping /\ sub # "CriticalFailure" /\ acc' >= fixed
       THEN BeginSubTick /\ due' = due - fixed /\ UNCHANGED looping
       ELSE /\ phase' = "host" /\ walk' = NoWalk /\ looping' = FALSE
            /\ called' = << >> /\ kept' = {} /\ UNCHANGED <<due, sub>>
    /\ UNCHANGED <<handlerVars, paused, fixed, disturbed, seen>>

(* Mutant: a handler that pauses the runtime stops its time, not the loop. *)
EndSubTick_PauseStopsTime ==
    /\ phase = "TickEnd" /\ WalkedOut(walk)
    /\ combined' = IF looping THEN Worse(combined, sub) ELSE sub
    /\ acc' = IF looping /\ ~paused THEN acc - fixed ELSE acc
    /\ IF looping /\ sub # "CriticalFailure" /\ acc' >= fixed
       THEN BeginSubTick /\ due' = (IF paused THEN due ELSE due - fixed) /\ UNCHANGED looping
       ELSE /\ phase' = "host" /\ walk' = NoWalk /\ looping' = FALSE
            /\ called' = << >> /\ kept' = {} /\ UNCHANGED <<due, sub>>
    /\ UNCHANGED <<handlerVars, paused, fixed, disturbed, seen>>

(* The sub-tick returns to the loop of tick, which goes on while there is   *)
(* time; fixed_timestep_ is whatever the handlers left.                     *)
EndSubTick ==
    /\ phase = "TickEnd" /\ WalkedOut(walk)
    /\ combined' = IF looping THEN Worse(combined, sub) ELSE sub
    /\ acc' = IF looping THEN acc - fixed ELSE acc
    /\ IF looping /\ sub # "CriticalFailure" /\ acc' >= fixed
       THEN BeginSubTick /\ due' = due - fixed /\ UNCHANGED looping
       ELSE /\ phase' = "host" /\ walk' = NoWalk /\ looping' = FALSE
            /\ called' = << >> /\ kept' = {} /\ UNCHANGED <<due, sub>>
    /\ UNCHANGED <<handlerVars, paused, fixed, disturbed, seen>>
-----------------------------------------------------------------------------
(* The host, a controller or a handler is running. *)
UserCode == phase \in {"host", "work"} \/ walk.inside

(* pause and resume *)
Pause(on) == paused' = on /\ UNCHANGED <<handlerVars, fixed, acc, due, disturbed, stepVars, kept>>

(* set_fixed_timestep, and clear_fixed_timestep for 0. *)
SetTimestep(dt) ==
    /\ fixed' = dt /\ acc' = 0
    /\ due' = 0 /\ disturbed' = looping
    /\ UNCHANGED <<handlerVars, paused, stepVars, kept>>

ChangeTime ==
    \/ \E on \in BOOLEAN : Pause(on)
    \/ \E dt \in Steps \cup {0} : SetTimestep(dt)

(* The list whose loop would be disturbed by a change. *)
Walked == IF HasMore(walk) THEN phase ELSE "none"

ChangeHandlers ==
    /\ \/ \E l \in BusLists : Listen(l, Walked)
       \/ AfterTick(Walked)
       \/ \E h \in issued : Unlisten(h[1], h[2], Walked)
    /\ kept' = {h \in kept : Registered(h)'}
    /\ UNCHANGED <<timeVars, stepVars>>

TickStep == CallHandler \/ HandlerReturns \/ Work \/ WorkDone \/ FireTickEnd \/ EndSubTick

TickNext ==
    /\ ~wild
    /\ \/ UNCHANGED wild /\ (TickStep \/ \E delta \in Deltas : Tick(delta))
       \/ UNCHANGED wild /\ UserCode /\ ChangeTime
       \/ UserCode /\ ChangeHandlers
-----------------------------------------------------------------------------
LoopTypeOK ==
    /\ \A l \in BusLists : handlers[l] \in Seq(2..nextId)
    /\ handlers["AfterTick"] \in Seq(1..nextAfterId)
    /\ nextId \in 1..MaxListen + 1 /\ nextAfterId \in 0..MaxAfter
    /\ disowned \subseteq issued /\ issued \subseteq Lists \X Nat
    /\ paused \in BOOLEAN /\ fixed \in Steps \cup {0} /\ acc \in Int
    /\ phase \in Phases /\ (walk.inside => phase \in Lists)
    /\ looping \in BOOLEAN /\ (looping => phase # "host")
    /\ sub \in Statuses /\ combined \in Statuses /\ seen \subseteq Statuses
    /\ wild \in BOOLEAN

(* SPEC-009: the time given to tick is either in accumulator_ or has been   *)
(* run in sub-ticks, and less than a step of it is left, unless a critical  *)
(* failure stopped the loop or a sub-tick changed the timestep under it.    *)
TimeAccounted ==
    phase = "host" /\ ~disturbed /\ fixed > 0 =>
        /\ acc = due
        /\ "CriticalFailure" \notin seen => acc \in 0..fixed - 1

Severity == [Success |-> 0, PartialFailure |-> 1, CriticalFailure |-> 2]

(* The result of a tick has the worst status of its sub-ticks, and no       *)
(* sub-tick follows a critical one.                                         *)
WorstStatusWins ==
    /\ phase = "host" /\ seen # {} =>
         combined = CHOOSE s \in seen : \A t \in seen : Severity[t] <= Severity[s]
    /\ phase \in {"TickBegin", "work"} => "CriticalFailure" \notin seen

Rank == [TickBegin |-> 1, AfterTick |-> 2, TickEnd |-> 3]

(* SPEC-017, SPEC-032: a sub-tick calls no handler twice, TickBegin before  *)
(* after_tick before TickEnd and each list in order of registration, and it *)
(* calls each one that was there when it began and was not removed.         *)
HandlersCalledOnce ==
    /\ \A i, j \in DOMAIN called : i < j =>
         \/ Rank[called[i][1]] < Rank[called[j][1]]
         \/ called[i][1] = called[j][1] /\ called[i][2] < called[j][2]
    /\ ~wild /\ phase = "TickEnd" /\ WalkedOut(walk) => kept \subseteq ToSet(called)

(* SPEC-017 and SPEC-032: registration returns a unique EventId, and       *)
(* unlisten removes the handler that it names: a handler is registered      *)
(* until its own owner removes it, and no longer.  Fails where the bus and  *)
(* after_tick gave out the same number: unlisten then takes the callback,   *)
(* whoever asks.                                                            *)
RemovedByOwner ==
    ~wild => \A h \in issued : Registered(h) <=> h \notin disowned
=============================================================================
