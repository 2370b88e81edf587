--------------------------- MODULE MCGameRuntime ----------------------------
(* A persistent type with two-cell blocks and an ephemeral one; commands    *)
(* that create, destroy, resize and write, also on identities not issued    *)
(* yet and on several targets at once.                                      *)
EXTENDS GameRuntime

MCTypeIds   == {"Unit", "Signal"}
MCEphemeral == {"Signal"}
MCSizeOf    == [t \in MCTypeIds |-> IF t = "Unit" THEN 2 ELSE 1]
MCValues    == {0, 1}
MCSizes     == {1}
MCOffsets   == {2}

MCPayloads ==
    { [op |-> "create", type |-> "Unit"],
      [op |-> "create", type |-> "Signal"],
      [op |-> "destroy", targets |-> {1, 2}],
      [op |-> "resize", targets |-> {1}, size |-> 1],
      [op |-> "set", targets |-> {1, 2}, offset |-> 2, value |-> 1] }
=============================================================================
