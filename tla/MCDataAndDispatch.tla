------------------------- MODULE MCDataAndDispatch --------------------------
(* The data that calls and commands change, and the order in which a tick  *)
(* runs its controllers, share no state: a behaviour is about one of them.  *)
EXTENDS MCWorld, MCControllerDispatch

VARIABLE half

halvesVars == <<half, worldVars, vars>>

HalvesInit ==
    /\ half \in {"data", "dispatch"}
    /\ WorldInit /\ Init
    /\ half # "data" => uses = {"relate"}
    /\ half # "dispatch" => ~executor

HalvesNext ==
    /\ UNCHANGED half
    /\ \/ half = "data"     /\ WorldNext /\ UNCHANGED vars
       \/ half = "dispatch" /\ Next      /\ UNCHANGED worldVars

HalvesSpec == HalvesInit /\ [][HalvesNext]_halvesVars
=============================================================================
