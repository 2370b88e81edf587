--------------------------- MODULE EventHandlers ----------------------------
(***************************************************************************)
(* The handler lists of EventBus for the two tick events, and the list of  *)
(* after_tick callbacks that Runtime keeps beside them.  The two number     *)
(* their handlers from counters of their own, and Runtime::unlisten takes a *)
(* number of either.                                                        *)
(***************************************************************************)
EXTENDS RangeFor, Lists

CONSTANTS MaxListen, MaxAfter   \* bounds: handlers registered with each counter

ASSUME MaxHandlersAssumption == MaxListen \in Nat /\ MaxAfter \in Nat

VARIABLES
    handlers,       \* list -> the numbers of its handlers, in order
    nextId,         \* EventBus::next_id_
    nextAfterId,    \* next_after_tick_id_
    issued,         \* history variable: every <<list, number>> handed out
    disowned        \* history variable: the ones whose owner has called unlisten

handlerVars == <<handlers, nextId, nextAfterId, issued, disowned>>

BusLists == {"TickBegin", "TickEnd"}
Lists    == BusLists \cup {"AfterTick"}

HandlersInit ==
    /\ handlers = [l \in Lists |-> << >>]
    /\ nextId = 1 /\ nextAfterId = 0
    /\ issued = {} /\ disowned = {}

Has(l, id) == id \in ToSet(handlers[l])

Registering(l, id, walked) ==
    /\ handlers' = [handlers EXCEPT ![l] = Append(@, id)]
    /\ issued' = issued \cup {<<l, id>>}
    /\ PushMoves(handlers[l], walked = l)

(* Mutant: the number is taken before the counter moves. *)
Listen_PostIncrement(l, walked) ==
    /\ nextId <= MaxListen
    /\ nextId' = nextId + 1
    /\ Registering(l, nextId, walked)
    /\ UNCHANGED <<nextAfterId, disowned>>

(* EventBus::listen; before_tick, on_tick_begin and on_tick_end call it.    *)
Listen(l, walked) ==
    /\ nextId <= MaxListen
    /\ nextId' = nextId + 1
    /\ Registering(l, nextId + 1, walked)
    /\ UNCHANGED <<nextAfterId, disowned>>

AfterTick(walked) ==
    /\ nextAfterId < MaxAfter
    /\ nextAfterId' = nextAfterId + 1
    /\ Registering("AfterTick", nextAfterId + 1, walked)
    /\ UNCHANGED <<nextId, disowned>>

(* Runtime::unlisten: a callback with that number, or else a handler of the *)
(* bus; a number is in at most one list of the bus.                         *)
Without(id) ==
    IF Has("AfterTick", id)
    THEN [handlers EXCEPT !["AfterTick"] = TakeOut(@, {id})]
    ELSE [l \in Lists |-> TakeOut(handlers[l], {id})]

(* The owner of a handler calls unlisten with its number.  A loop over the  *)
(* list that goes on reads the slot that was given up.  flat_vector::erase  *)
(* destroys a callback before it moves the next one onto it, which only     *)
(* closures without a destructor survive.                                   *)
Unlisten(l, id, walked) ==
    /\ <<l, id>> \in issued \ disowned
    /\ disowned' = disowned \cup {<<l, id>>}
    /\ handlers' = Without(id)
    /\ LET inMiddle == Has("AfterTick", id) /\ Last(handlers["AfterTick"]) # id IN
       \E survives \in BOOLEAN :
           /\ ~survives => inMiddle
           /\ wild' = (wild \/ ~survives
                         \/ (walked \in Lists /\ handlers'[walked] # handlers[walked]))
    /\ UNCHANGED <<nextId, nextAfterId, issued>>
Registered(h) == Has(h[1], h[2])
=============================================================================
