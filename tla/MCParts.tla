------------------------------ MODULE MCParts -------------------------------
(* The loops over user code and the containers share no state: a behaviour  *)
(* is about the ones or the others.                                        *)
EXTENDS MCCallbacks, MCContainers

VARIABLE part

partsVars == <<part, callbackVars, containerVars>>

PartsInit ==
    /\ part \in {"callbacks", "containers"}
    /\ CallbacksInit /\ ContainersInit
    /\ part # "callbacks" => loop = "tick"
    /\ part # "containers" => kind = "bits"

PartsNext ==
    /\ UNCHANGED part
    /\ \/ part = "callbacks"  /\ CallbacksNext  /\ UNCHANGED containerVars
       \/ part = "containers" /\ ContainersNext /\ UNCHANGED callbackVars

(* The fairness of both; what does not move enables none of it. *)
PartsSpec ==
    /\ PartsInit /\ [][PartsNext]_partsVars
    /\ WF_callbackVars(TickRuns) /\ WF_containerVars(RbRuns)
=============================================================================
