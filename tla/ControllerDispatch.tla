------------------------- MODULE ControllerDispatch -------------------------
(***************************************************************************)
(* The controller phase of a tick: the stable sort by priority, the groups *)
(* of controllers with disjoint type access, and their execution, one at a *)
(* time or by an executor that may run a group's tasks at the same time.   *)
(*                                                                         *)
(* What a controller does to the runtime is submit commands, and nothing   *)
(* in submit_command is locked: it is modelled load by load and store by   *)
(* store.  The queue stays within its inline capacity, so it never moves.  *)
(***************************************************************************)
EXTENDS Lists

CONSTANTS
    Candidates,    \* controllers that may be registered: records of type Entry
    Capacity,      \* inline capacity of pending_
    MaxCommandId   \* bound on next_command_id_

(* sends bounds the commands that a controller produces in a tick. *)
Entry == [name : STRING, priority : Int, access : SUBSET Nat, sends : Nat]

ASSUME CandidatesAssumption ==
    /\ Candidates \subseteq Entry
    /\ \A a, b \in Candidates : a.name = b.name => a = b

(* Every command that the candidates can send in a tick, by name and number. *)
Sendable == UNION {{c.name} \X (1..c.sends) : c \in Candidates}

ASSUME CapacityAssumption ==
    /\ Capacity \in Nat /\ MaxCommandId \in Nat
    /\ IsFiniteSet(Sendable) /\ Cardinality(Sendable) <= Capacity

VARIABLES
    controllers,    \* controllers_
    executor,       \* config_.parallel_executor is set
    groups,         \* the groups of the tick under way: [members, types]
    current,        \* the group being executed; 0 between ticks
    task,           \* what each controller of the current group is doing
    nextCommandId,  \* next_command_id_
    slots,          \* the storage of pending_
    used,           \* end_ - begin_ of pending_
    joined,         \* history variable: registrations in order
    started,        \* history variable: controllers started in this tick
    sent            \* history variable: submissions completed in this tick

planVars  == <<controllers, executor, groups, current, joined>>
queueVars == <<nextCommandId, slots, used>>
vars      == <<planVars, queueVars, task, started, sent>>

Overlap(a, b) == a.access \cap b.access # {}
Indices       == DOMAIN controllers
Members       == IF current \in DOMAIN groups THEN ToSet(groups[current].members) ELSE {}

Garbage == [id |-> 0, from |-> "nobody", k |-> 0]
Empty   == [n \in 1..Capacity |-> Garbage]

-----------------------------------------------------------------------------
(* Mutant: the types of a controller that joins a group are not added to it. *)
Join_ForgetsTypes(plan, entries, i) ==
    LET open == {g \in DOMAIN plan : plan[g].types \cap entries[i].access = {}} IN
    IF open = {}
    THEN Append(plan, [members |-> <<i>>, types |-> entries[i].access])
    ELSE [plan EXCEPT ![Min(open)].members = Append(@, i)]

(* A controller joins the first group that uses none of its types. *)
Join(plan, entries, i) ==
    LET open == {g \in DOMAIN plan : plan[g].types \cap entries[i].access = {}} IN
    IF open = {}
    THEN Append(plan, [members |-> <<i>>, types |-> entries[i].access])
    ELSE [plan EXCEPT ![Min(open)] =
            [members |-> Append(@.members, i), types |-> @.types \cup entries[i].access]]

Grouping(entries) ==
    LET plan[n \in 0..Len(entries)] ==
          IF n = 0 THEN << >> ELSE Join(plan[n - 1], entries, n)
    IN plan

Groups(entries) == Grouping(entries)[Len(entries)]

-----------------------------------------------------------------------------
Ready == [i \in Indices' |-> [pc |-> "ready", left |-> controllers'[i].sends, id |-> 0, slot |-> 0]]

Init ==
    /\ controllers = << >>
    /\ executor \in BOOLEAN
    /\ groups = << >>
    /\ current = 0
    /\ task = << >>
    /\ nextCommandId = 0
    /\ slots = Empty
    /\ used = 0
    /\ joined = << >>
    /\ started = << >>
    /\ sent = << >>

(* register_controller, between ticks. *)
Register(c) ==
    /\ current = 0
    /\ c \notin ToSet(controllers)
    /\ controllers' = Append(controllers, c)
    /\ joined' = Append(joined, c)
    /\ UNCHANGED <<executor, groups, current, queueVars, task, started, sent>>

PlanTick ==
    /\ current = 0
    /\ controllers' = StableSort(controllers)
    /\ groups' = Groups(controllers')
    /\ current' = 1
    /\ task' = Ready
    /\ UNCHANGED <<executor, joined, queueVars, started, sent>>

(* Mutant: the size of the group alone decides. *)
Parallel_WithoutExecutor == Cardinality(Members) > 1

(* The executor gets a group of two or more controllers; without it, or    *)
(* for a single controller, they run one after the other.                  *)
Parallel == executor /\ Cardinality(Members) > 1

Turn(i) == Parallel \/ \A j \in Members : j < i => task[j].pc = "done"

Start(i) ==
    /\ task[i].pc = "ready" /\ Turn(i)
    /\ task' = [task EXCEPT ![i].pc = "body"]
    /\ started' = Append(started, i)
    /\ UNCHANGED <<planVars, queueVars, sent>>

(* CommandId id = ++next_command_id_: a load ... *)
LoadId(i) ==
    /\ task[i].pc = "body" /\ task[i].left > 0
    /\ nextCommandId < MaxCommandId
    /\ task' = [task EXCEPT ![i].pc = "loaded", ![i].id = nextCommandId + 1]
    /\ UNCHANGED <<planVars, queueVars, started, sent>>

(* ... and a store. *)
StoreId(i) ==
    /\ task[i].pc = "loaded"
    /\ nextCommandId' = task[i].id
    /\ task' = [task EXCEPT ![i].pc = "numbered"]
    /\ UNCHANGED <<planVars, slots, used, started, sent>>

(* pending_.push_back: the command is constructed at end_ ... *)
Construct(i) ==
    /\ task[i].pc = "numbered"
    /\ slots' = [slots EXCEPT ![used + 1] =
                   [id |-> task[i].id, from |-> controllers[i].name, k |-> task[i].left]]
    /\ task' = [task EXCEPT ![i].pc = "constructed", ![i].slot = used + 1]
    /\ UNCHANGED <<planVars, nextCommandId, used, started, sent>>

(* ... and end_ is incremented, loaded anew or as it was before. *)
Advance(i) ==
    /\ task[i].pc = "constructed"
    /\ used' \in {used + 1, task[i].slot}
    /\ task' = [task EXCEPT ![i].pc = "body", ![i].left = @ - 1]
    /\ sent' = Append(sent, <<controllers[i].name, task[i].left>>)
    /\ UNCHANGED <<planVars, nextCommandId, slots, started>>

(* The controller returns, whatever number of commands it has produced. *)
Finish(i) ==
    /\ task[i].pc = "body"
    /\ task' = [task EXCEPT ![i].pc = "done"]
    /\ UNCHANGED <<planVars, queueVars, started, sent>>

(* The executor returns when all tasks are complete. *)
NextGroup ==
    /\ current \in DOMAIN groups
    /\ \A i \in Members : task[i].pc = "done"
    /\ current' = current + 1
    /\ UNCHANGED <<controllers, executor, groups, joined, queueVars, task, started, sent>>

Finished == current = Len(groups) + 1

(* Mutant: the queue is not cleared after it was processed. *)
EndTick_KeepsQueue ==
    /\ Finished
    /\ groups' = << >>
    /\ current' = 0
    /\ task' = << >>
    /\ started' = << >>
    /\ sent' = << >>
    /\ UNCHANGED <<controllers, executor, joined, queueVars>>

(* The rest of the tick: process_pending empties the queue. *)
EndTick ==
    /\ Finished
    /\ groups' = << >>
    /\ current' = 0
    /\ task' = << >>
    /\ slots' = Empty
    /\ used' = 0
    /\ started' = << >>
    /\ sent' = << >>
    /\ UNCHANGED <<controllers, executor, joined, nextCommandId>>

RunStep(i) == Start(i) \/ LoadId(i) \/ StoreId(i) \/ Construct(i) \/ Advance(i) \/ Finish(i)

Next ==
    \/ \E c \in Candidates : Register(c)
    \/ PlanTick
    \/ \E i \in Members : RunStep(i)
    \/ NextGroup
    \/ EndTick

Spec == Init /\ [][Next]_vars

-----------------------------------------------------------------------------
Steps == {"ready", "body", "loaded", "numbered", "constructed", "done"}

(* Type invariant of the controller phase. *)
DispatchTypeOK ==
    /\ controllers \in Seq(Candidates) /\ joined \in Seq(Candidates)
    /\ executor \in BOOLEAN
    /\ \A g \in DOMAIN groups : ToSet(groups[g].members) \subseteq Indices
    /\ current \in 0..(Len(groups) + 1)
    /\ \A i \in DOMAIN task : task[i].pc \in Steps /\ task[i].left \in 0..controllers[i].sends
    /\ nextCommandId \in 0..MaxCommandId
    /\ used \in 0..Capacity
    /\ started \in Seq(Indices)

Running(i) == task[i].pc \notin {"ready", "done"}

(* SPEC-034: controllers of overlapping declared access never run at the   *)
(* same time, whatever the executor does.                                  *)
NoConflict ==
    \A i, j \in DOMAIN task :
        i # j /\ Running(i) /\ Running(j) => ~Overlap(controllers[i], controllers[j])

Rank(c) == CHOOSE n \in DOMAIN joined : joined[n] = c

(* SPEC-034 and the comment on stable_sort: each registered controller is  *)
(* run once in a tick, and those that declare the same types run in order  *)
(* of priority, those of equal priority in order of registration, in every *)
(* tick and however often the list was sorted with later arrivals in it.   *)
RunOnceInOrder ==
    Finished =>
        /\ Len(started) = Len(joined)
        /\ {controllers[started[m]] : m \in DOMAIN started} = ToSet(joined)
        /\ \A m, n \in DOMAIN started :
             LET a == controllers[started[m]]
                 b == controllers[started[n]] IN
             (m < n /\ a.access = b.access /\ (~executor \/ a.access # {}))
                => \/ a.priority > b.priority
                   \/ a.priority = b.priority /\ Rank(a) < Rank(b)

(* Without an executor the queue holds every command the controllers sent, *)
(* in the order they ran and sent them, under consecutive ids.             *)
SequentialSubmissions ==
    Finished /\ ~executor =>
        /\ used = Len(sent)
        /\ \A n \in 1..used :
             /\ <<slots[n].from, slots[n].k>> = sent[n]
             /\ slots[n].id = nextCommandId - used + n

(* SPEC-034, line 39: controllers that touch the same type run one after   *)
(* the other, in order of priority.  First-fit lets a controller that was  *)
(* kept out of an early group be overtaken by one that fits there.         *)
OverlapInPriorityOrder ==
    \A m, n \in DOMAIN started :
        LET a == controllers[started[m]]
            b == controllers[started[n]] IN
        m < n /\ Overlap(a, b) => a.priority >= b.priority

(* SPEC-034, line 79: the commands that two controllers produce in         *)
(* parallel are both submitted to the scheduler.                           *)
ParallelSubmissions ==
    Finished =>
        \A m \in DOMAIN sent :
            \E n \in 1..used : <<slots[n].from, slots[n].k>> = sent[m]
=============================================================================
