---------------------------- MODULE MCCallbacks -----------------------------
(* A timestep of 2 and calls with 3: one sub-tick or two, and a remainder.  *)
(* Two after_tick callbacks and a handler of the bus, which has the number  *)
(* of the second.                                                           *)
EXTENDS Callbacks

MCLoops      == {"tick", "events", "fsm", "rules", "pipeline"}
MCTickOnly   == {"tick"}
MCEventsOnly == {"events"}
MCFsmStates  == {1, 2}
MCPriorities == {0, 1}
=============================================================================
