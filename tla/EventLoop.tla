----------------------------- MODULE EventLoop ------------------------------
(***************************************************************************)
(* EventLoop: handlers by event type, a queue that the builder shares with  *)
(* every controller it built, and the double loop of such a controller.     *)
(* build() takes the handlers out of the builder: on and off reach only     *)
(* controllers built later.                                                 *)
(***************************************************************************)
EXTENDS RangeFor, Lists

CONSTANTS
    EventTypes,
    MaxEvents,    \* bound on events enqueued
    MaxOn,        \* bound on handlers registered
    MaxLoops      \* bound on calls of build

ASSUME EventAssumption == MaxEvents \in Nat /\ MaxOn \in Nat /\ MaxLoops \in Nat

VARIABLES
    onHandlers,   \* handlers_: type -> handler ids
    nextHandler,  \* next_id_
    loops,        \* the handler maps of the controllers that were built
    pending,      \* pending_: events, numbered as they are enqueued
    posted,       \* how many events were enqueued
    running,      \* the controller that runs, 0 for none
    eventWalk,    \* its loop over pending_
    handlerWalk,  \* its loop over the handlers of one event
    insider,      \* history variable: events enqueued by a handler of the loop
    offered,      \* history variable: events that a controller has looked at
    handled,      \* history variable: <<event, handler>> called, in order
    expected      \* history variable: what the last run is to call

eventVars == <<onHandlers, nextHandler, loops, pending, posted, running,
               eventWalk, handlerWalk, insider, offered, handled, expected>>

NoHandlers == [t \in EventTypes |-> << >>]

EventInit ==
    /\ onHandlers = NoHandlers /\ nextHandler = 1 /\ loops = << >>
    /\ pending = << >> /\ posted = 0
    /\ running = 0 /\ eventWalk = NoWalk /\ handlerWalk = NoWalk
    /\ insider = {} /\ offered = {} /\ handled = << >> /\ expected = << >>

runVars == <<running, eventWalk, handlerWalk, offered, handled, expected>>

On(t) ==
    /\ nextHandler <= MaxOn
    /\ onHandlers' = [onHandlers EXCEPT ![t] = Append(@, nextHandler)]
    /\ nextHandler' = nextHandler + 1
    /\ UNCHANGED <<wild, loops, pending, posted, insider, runVars>>

Off(id) ==
    /\ onHandlers' = [t \in EventTypes |-> TakeOut(onHandlers[t], {id})]
    /\ UNCHANGED <<wild, nextHandler, loops, pending, posted, insider, runVars>>

BuildLoop ==
    /\ Len(loops) < MaxLoops
    /\ loops' = Append(loops, onHandlers)
    /\ onHandlers' = NoHandlers
    /\ UNCHANGED <<wild, nextHandler, pending, posted, insider, runVars>>

(* enqueue.  A handler that makes the queue grow pulls it from under both   *)
(* loops: the event that is being handled lies in it.                       *)
EnqueueEvent(t) ==
    /\ posted < MaxEvents
    /\ posted' = posted + 1
    /\ pending' = Append(pending, [number |-> posted + 1, type |-> t])
    /\ PushMoves(pending, HasMore(eventWalk) \/ HasMore(handlerWalk))
    /\ insider' = IF running = 0 THEN insider ELSE insider \cup {posted + 1}
    /\ UNCHANGED <<onHandlers, nextHandler, loops, runVars>>

(* What the handlers by are to be called with for the events in list:       *)
(* Calls(by, list)[n] has the calls for the first n.                        *)
Calls(by, list) ==
    LET calls[n \in 0..Len(list)] ==
          IF n = 0 THEN << >>
          ELSE calls[n - 1] \o
                 [j \in 1..Len(by[list[n].type]) |-> <<list[n].number, by[list[n].type][j]>>]
    IN calls

Unbuilt == <<onHandlers, nextHandler, loops>>

RunLoop(c) ==
    /\ running = 0
    /\ running' = c
    /\ eventWalk' = WalkOver(pending)
    /\ handled' = << >> /\ expected' = Calls(loops[c], pending)[Len(pending)]
    /\ UNCHANGED <<wild, Unbuilt, pending, posted, insider, offered, handlerWalk>>

(* Mutant: an event nobody handles ends the loop. *)
NextEvent_StopsAtUnknown ==
    /\ running # 0 /\ CanEnter(eventWalk)
    /\ LET e == pending[eventWalk.at] IN
       /\ offered' = offered \cup {e.number}
       /\ handlerWalk' = WalkOver(loops[running][e.type])
       /\ eventWalk' = IF loops[running][e.type] = << >>
                       THEN [Enter(eventWalk) EXCEPT !.upto = eventWalk.at]
                       ELSE Enter(eventWalk)
    /\ UNCHANGED <<wild, Unbuilt, pending, posted, insider, running, handled, expected>>

NextEvent ==
    /\ running # 0 /\ CanEnter(eventWalk)
    /\ LET e == pending[eventWalk.at] IN
       /\ offered' = offered \cup {e.number}
       /\ handlerWalk' = WalkOver(loops[running][e.type])
    /\ eventWalk' = Enter(eventWalk)
    /\ UNCHANGED <<wild, Unbuilt, pending, posted, insider, running, handled, expected>>

CallOn ==
    /\ eventWalk.inside /\ CanEnter(handlerWalk)
    /\ LET e == pending[eventWalk.at] IN
       handled' = Append(handled, <<e.number, loops[running][e.type][handlerWalk.at]>>)
    /\ handlerWalk' = Enter(handlerWalk)
    /\ UNCHANGED <<wild, Unbuilt, pending, posted, insider, running, eventWalk, offered, expected>>

OnReturns ==
    /\ handlerWalk.inside
    /\ handlerWalk' = Leave(handlerWalk)
    /\ UNCHANGED <<wild, Unbuilt, pending, posted, insider, running, eventWalk, offered, handled, expected>>

EventDone ==
    /\ eventWalk.inside /\ WalkedOut(handlerWalk)
    /\ eventWalk' = Leave(eventWalk) /\ handlerWalk' = NoWalk
    /\ UNCHANGED <<wild, Unbuilt, pending, posted, insider, running, offered, handled, expected>>

(* The queue is cleared, with what the handlers put behind the loop's end. *)
LoopReturns ==
    /\ running # 0 /\ WalkedOut(eventWalk)
    /\ pending' = << >>
    /\ running' = 0 /\ eventWalk' = NoWalk
    /\ UNCHANGED <<wild, Unbuilt, posted, insider, handlerWalk, offered, handled, expected>>

EventNext ==
    /\ ~wild
    /\ \/ NextEvent \/ CallOn \/ OnReturns \/ EventDone \/ LoopReturns
       \/ \E c \in 1..Len(loops) : RunLoop(c)
       \/ /\ running = 0 \/ handlerWalk.inside
          /\ \/ \E t \in EventTypes : On(t) \/ EnqueueEvent(t)
             \/ \E id \in 1..MaxOn : Off(id)
             \/ BuildLoop

(* SPEC-023: a run calls the handlers of each event that was queued when it *)
(* began, in order of arrival and then of registration; and an event that   *)
(* was enqueued between two runs is queued until a run has looked at it.    *)
(* Of events that a handler of a running loop enqueues, see EveryEventSeen. *)
EventsHandled ==
    /\ IsPrefix(handled, expected)
    /\ running = 0 => handled = expected
    /\ \A n \in 1..posted : n \in insider \cup offered \cup {pending[i].number : i \in DOMAIN pending}

(* SPEC-023: events may be enqueued while controllers execute, and are      *)
(* processed in the same tick or in the next: an event that no run has      *)
(* looked at is still queued, whoever enqueued it.  Fails for a handler of  *)
(* the loop itself: its event lies behind the end that the loop has read,   *)
(* and the queue is cleared after the loop.                                 *)
EveryEventSeen ==
    ~wild => \A n \in 1..posted : n \in offered \cup {pending[i].number : i \in DOMAIN pending}
=============================================================================
