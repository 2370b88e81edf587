------------------------ MODULE MCControllerDispatch ------------------------
(* Controllers that overlap pairwise, in a chain, or not at all, one that   *)
(* declares no access, equal and different priorities.                      *)
EXTENDS ControllerDispatch

MCCandidates ==
    { [name |-> "A", priority |-> 2, access |-> {1},    sends |-> 1],
      [name |-> "B", priority |-> 1, access |-> {1, 2}, sends |-> 0],
      [name |-> "C", priority |-> 0, access |-> {2},    sends |-> 1],
      [name |-> "D", priority |-> 0, access |-> {2},    sends |-> 0],
      [name |-> "E", priority |-> 1, access |-> {},     sends |-> 0] }
=============================================================================
