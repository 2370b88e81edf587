----------------------------- MODULE CommandLog -----------------------------
(***************************************************************************)
(* Two views of the runtime from the side of its commands: the ledger that *)
(* submission promises, and the command history as a log from which the    *)
(* blocks can be rebuilt.                                                  *)
(***************************************************************************)
EXTENDS GameRuntime

(* An id that was cancelled and has not been settled is withdrawn; entries *)
(* of cancelled_ that outlive their command no longer matter.              *)
Withdrawn == {id \in CommandIds : cancelled[id] > 0 /\ outcome[id] \in {"none", "pending"}}

Ledger == INSTANCE CommandLedger WITH issued <- nextCommandId, withdrawn <- Withdrawn

(* SPEC-007 and SPEC-011: the tick loop, its queue and the cancel list     *)
(* implement the ledger.  No command is lost, run twice or overtaken, and  *)
(* a command cancelled in time never runs, however submissions, cancels,   *)
(* replays, pauses and ticks interleave.                                   *)
ImplementsLedger == Ledger!Spec

-----------------------------------------------------------------------------
(* What each command says, with neither indexes nor pools: log is the pair *)
(* of the last identity given and the bytes and type of the live blocks.   *)
Edited(live, targets, New(_)) ==
    [i \in DOMAIN live |->
       IF i \in targets THEN [type |-> live[i].type, data |-> New(live[i].data)] ELSE live[i]]

Apply(log, c) ==
    LET p    == c.payload
        id   == log.last + 1
        live == log.live IN
    CASE p.op = "create" ->
           [last |-> id,
            live |-> [i \in DOMAIN live \cup {id} |->
                        IF i \in DOMAIN live THEN live[i]
                        ELSE [type |-> p.type, data |-> [k \in 1..SizeOf[p.type] |-> Blank]]]]
      [] p.op = "destroy" ->
           [last |-> log.last, live |-> [i \in DOMAIN live \ p.targets |-> live[i]]]
      [] p.op = "set" ->
           [last |-> log.last,
            live |-> Edited(live, p.targets, LAMBDA d : [d EXCEPT ![p.offset] = p.value])]
      [] p.op = "resize" ->
           [last |-> log.last,
            live |-> Edited(live, p.targets,
                       LAMBDA d : SubSeq(d \o [k \in 1..p.size |-> Blank], 1, p.size))]

(* The logs of the prefixes of h, from the empty one to h itself. *)
Progress(h) ==
    LET at[n \in 0..Len(h)] ==
          IF n = 0 THEN [last |-> 0, live |-> NoBlocks] ELSE Apply(at[n - 1], h[n])
    IN at

Rebuilt == Progress(history)[Len(history)]

(* SPEC-007: replaying commands preserves deterministic behaviour.  When   *)
(* blocks are changed by commands only, applying command_history() to an   *)
(* empty runtime gives the blocks, their bytes and the next identity: no   *)
(* rejected or cancelled command left a trace and none is missing.         *)
HistoryRebuildsBlocks ==
    ~DirectApi /\ Ephemeral = {} =>
        Rebuilt = [last |-> nextIdentity, live |-> blocks]

-----------------------------------------------------------------------------
(* SPEC-007: a command does not expire.  As long as the runtime is not     *)
(* left paused, every command submitted is executed, rejected or skipped.  *)
EveryCommandSettles ==
    []<>(~paused) =>
        \A id \in CommandIds :
            outcome[id] = "pending" ~> outcome[id] \in {"executed", "rejected", "skipped"}
=============================================================================
