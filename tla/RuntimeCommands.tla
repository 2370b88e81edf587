-------------------------- MODULE RuntimeCommands ---------------------------
(***************************************************************************)
(* The registered block types and the command handlers: what a command     *)
(* payload asks for, when CommandDispatcher::validate accepts it and what  *)
(* execute does.  ConvertLayout commands are modelled apart.  A target     *)
(* list is a set: a repeated target is validated twice and then skipped.   *)
(***************************************************************************)
EXTENDS BlockManager

CONSTANT Payloads      \* the command payloads callers submit

VARIABLE registered    \* the keys of Runtime::types_

PayloadSpace ==
    [op : {"create"},  type : TypeIds]
    \cup [op : {"destroy"}, targets : SUBSET Nat]
    \cup [op : {"resize"},  targets : SUBSET Nat, size : Sizes]
    \cup [op : {"set"},     targets : SUBSET Nat, offset : Offsets, value : Values]

ASSUME PayloadAssumption == Payloads \subseteq PayloadSpace

(* register_block_type refuses a type id it already knows. *)
RegisterBlockType(t) ==
    /\ t \notin registered
    /\ registered' = registered \cup {t}

-----------------------------------------------------------------------------
(* Mutant: one live target is enough. *)
Valid_AnyTarget(p) ==
    \/ p.op = "create" /\ p.type \in registered
    \/ p.op \in {"destroy", "resize"} /\ p.targets \cap Identities # {}
    \/ p.op = "set" /\ p.targets \subseteq Identities /\ FieldFits(p.targets, p.offset)

(* The handlers' validate: every target is looked at before any is touched. *)
Valid(p) ==
    \/ p.op = "create" /\ p.type \in registered
    \/ p.op \in {"destroy", "resize"} /\ p.targets \subseteq Identities
    \/ p.op = "set" /\ p.targets \subseteq Identities /\ FieldFits(p.targets, p.offset)

(* The handlers' execute. *)
Execute(p) ==
    \/ p.op = "create"  /\ CommandCreate(p.type)
    \/ p.op = "destroy" /\ CommandDestroy(p.targets)
    \/ p.op = "resize"  /\ CommandResize(p.targets, p.size)
    \/ p.op = "set"     /\ CommandSetField(p.targets, p.offset, p.value)
=============================================================================
