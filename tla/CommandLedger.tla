--------------------------- MODULE CommandLedger ----------------------------
(***************************************************************************)
(* What command submission promises, without queues, ticks or blocks:      *)
(* command ids are issued in order; each is settled once, oldest first;    *)
(* it is skipped if it was withdrawn before it was settled and executed or *)
(* rejected if it was not.                                                 *)
(***************************************************************************)
EXTENDS Integers

CONSTANT MaxCommands

VARIABLES
    issued,      \* number of ids issued
    outcome,     \* what became of each id
    withdrawn    \* unsettled ids, issued or not, that a caller cancelled

CommandIds == 1..MaxCommands
Unsettled(id) == outcome[id] \in {"none", "pending"}

Init ==
    /\ issued = 0
    /\ outcome = [id \in CommandIds |-> "none"]
    /\ withdrawn = {}

Issue ==
    /\ issued + 1 \in CommandIds
    /\ issued' = issued + 1
    /\ outcome' = [outcome EXCEPT ![issued'] = "pending"]
    /\ UNCHANGED withdrawn

Withdraw(id) ==
    /\ Unsettled(id)
    /\ withdrawn' = withdrawn \cup {id}
    /\ UNCHANGED <<issued, outcome>>

Settle(id, o) ==
    /\ outcome[id] = "pending"
    /\ \A older \in 1..(id - 1) : ~Unsettled(older)
    /\ id \in withdrawn <=> o = "skipped"
    /\ outcome' = [outcome EXCEPT ![id] = o]
    /\ withdrawn' = withdrawn \ {id}
    /\ UNCHANGED issued

Next ==
    \/ Issue
    \/ \E id \in CommandIds :
        Withdraw(id) \/ \E o \in {"executed", "rejected", "skipped"} : Settle(id, o)

Spec == Init /\ [][Next]_<<issued, outcome, withdrawn>>
=============================================================================
