------------------------------ MODULE MCWorld -------------------------------
(* A persistent type of two one-cell fields and an ephemeral one without   *)
(* field descriptors; chunks of two blocks, so that three blocks fill more  *)
(* than one; a short block, whose second field lies past its end.          *)
EXTENDS World

MCTypeIds   == {"Unit", "Signal"}
MCEphemeral == {"Signal"}
MCSizeOf    == [t \in MCTypeIds |-> IF t = "Unit" THEN 2 ELSE 1]
MCValues    == {0, 1}
MCSizes     == {1}
MCOffsets   == {2}
MCChunks    == {0, 2}
MCUses ==
    { {"write", "convert", "order"}, {"convert", "ephemeral"}, {"write", "convert", "reload"},
      {"write", "ephemeral", "reload"}, {"relate"}, {"relate", "reload"}, {"convert", "mix"} }
MCMixed == { {"write", "convert", "mix"} }
MCReloads == { {"convert", "reload"} }
MCNewLayouts == {"AoS"}
MCFields    ==
    [t \in MCTypeIds |->
       IF t = "Unit" THEN <<[offset |-> 0, size |-> 1], [offset |-> 1, size |-> 1]>> ELSE << >>]

MCPayloads ==
    { [op |-> "resize", targets |-> {1}, size |-> 1],
      [op |-> "set", targets |-> {1}, offset |-> 2, value |-> 1] }
=============================================================================
