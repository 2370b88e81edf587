---------------------------- MODULE MCCommandLog ----------------------------
(* Blocks made and changed by commands only. *)
EXTENDS CommandLog

MCTypeIds == {"Unit"}
MCSizeOf  == [t \in MCTypeIds |-> 2]
MCValues  == {0, 1}
MCSizes   == {3}
MCOffsets == {3}

MCPayloads ==
    { [op |-> "create", type |-> "Unit"],
      [op |-> "destroy", targets |-> {1}],
      [op |-> "resize", targets |-> {1}, size |-> 3],
      [op |-> "set", targets |-> {1}, offset |-> 3, value |-> 1] }
=============================================================================
