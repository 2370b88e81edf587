----------------------------- MODULE RuleSystem -----------------------------
(***************************************************************************)
(* RuleSystem: rules that the builder shares with its controllers, sorted   *)
(* in place by each run and then evaluated one by one.  The condition and   *)
(* the action of a rule are user code.                                      *)
(***************************************************************************)
EXTENDS RangeFor, Lists

CONSTANTS Priorities, MaxRules   \* bound: rules added

ASSUME RuleAssumption == Priorities \subseteq Int /\ MaxRules \in Nat

VARIABLES
    rules,       \* rules_
    nextRule,    \* next_id_
    ruleWalk,    \* the loop of a run, NoWalk between runs
    evaluated,   \* history variable: rules this run evaluated, in order
    present      \* history variable: rules there when the run began and not
                 \* removed since

ruleVars == <<rules, nextRule, ruleWalk, evaluated, present>>

RuleInit ==
    /\ rules = << >> /\ nextRule = 1
    /\ ruleWalk = NoWalk /\ evaluated = << >> /\ present = {}

AddRule(p) ==
    /\ nextRule <= MaxRules
    /\ nextRule' = nextRule + 1
    /\ rules' = Append(rules, [id |-> nextRule, priority |-> p])
    /\ PushMoves(rules, HasMore(ruleWalk))
    /\ UNCHANGED <<ruleWalk, evaluated, present>>

(* remove_rule takes out the ids given, clear_rules all of them. *)
RemoveRules(ids) ==
    /\ rules' = TakeOut(rules, {r \in ToSet(rules) : r.id \in ids})
    /\ present' = present \ ids
    /\ wild' = (wild \/ (HasMore(ruleWalk) /\ rules' # rules))
    /\ UNCHANGED <<nextRule, ruleWalk, evaluated>>

(* Mutant: std::sort, which may turn rules of one priority around. *)
ByPriority_Unstable(list) ==
    LET order == SetToSortSeq(DOMAIN list, LAMBDA i, j :
                   \/ list[i].priority > list[j].priority
                   \/ list[i].priority = list[j].priority /\ i > j)
    IN  [k \in DOMAIN list |-> list[order[k]]]

ByPriority(list) == StableSort(list)

RunRules ==
    /\ ruleWalk = NoWalk
    /\ rules' = ByPriority(rules)
    /\ ruleWalk' = WalkOver(rules')
    /\ evaluated' = << >>
    /\ present' = {rules[i].id : i \in DOMAIN rules}
    /\ UNCHANGED <<wild, nextRule>>

(* A rule whose condition does not hold is a body that does nothing. *)
EvaluateRule ==
    /\ CanEnter(ruleWalk)
    /\ ruleWalk' = Enter(ruleWalk)
    /\ evaluated' = Append(evaluated, rules[ruleWalk.at])
    /\ UNCHANGED <<wild, rules, nextRule, present>>

RuleDone ==
    /\ ruleWalk.inside
    /\ ruleWalk' = Leave(ruleWalk)
    /\ UNCHANGED <<wild, rules, nextRule, evaluated, present>>

RulesReturn ==
    /\ ruleWalk.at # 0 /\ WalkedOut(ruleWalk)
    /\ ruleWalk' = NoWalk
    /\ UNCHANGED <<wild, rules, nextRule, evaluated, present>>

RuleNext ==
    /\ ~wild
    /\ \/ RunRules \/ EvaluateRule \/ RuleDone \/ RulesReturn
       \/ /\ ruleWalk = NoWalk \/ ruleWalk.inside
          /\ \/ \E p \in Priorities : AddRule(p)
             \/ \E ids \in {{i} : i \in 1..MaxRules} \cup {1..MaxRules} : RemoveRules(ids)

(* SPEC-021: a run evaluates its rules by falling priority, those of one    *)
(* priority in the order they were added, none twice, and leaves out none   *)
(* but those removed while it ran.                                          *)
RulesInOrder ==
    /\ \A i, j \in DOMAIN evaluated : i < j =>
         \/ evaluated[i].priority > evaluated[j].priority
         \/ /\ evaluated[i].priority = evaluated[j].priority
            /\ evaluated[i].id < evaluated[j].id
    /\ ~wild /\ ruleWalk.at # 0 /\ WalkedOut(ruleWalk) =>
         present \subseteq {evaluated[i].id : i \in DOMAIN evaluated}

=============================================================================
