------------------------------ MODULE Pipeline ------------------------------
(***************************************************************************)
(* Pipeline: stages, which are controllers, run one after the other, each   *)
(* with its result recorded; the pipeline itself always succeeds.  Stages   *)
(* and results are shared by the builder and the controllers it built.      *)
(***************************************************************************)
EXTENDS RangeFor, Lists

CONSTANT MaxStages   \* bound: stages added

ASSUME StageAssumption == MaxStages \in Nat

VARIABLES
    stages,      \* stages_, the ids
    nextStage,   \* next_id_
    stageWalk,   \* the loop of a run, NoWalk between runs
    results,     \* *results_ptr_
    lineup,      \* history variable: the stages when the run began
    outcomes     \* history variable: what the stages of the run returned

pipeVars == <<stages, nextStage, stageWalk, results, lineup, outcomes>>

PipeInit ==
    /\ stages = << >> /\ nextStage = 1 /\ stageWalk = NoWalk
    /\ results = << >> /\ lineup = << >> /\ outcomes = << >>

(* The loop reads the stage again after its controller returned, so a stage *)
(* that moves the stages does harm even as the last.                        *)
AddStage ==
    /\ nextStage <= MaxStages
    /\ nextStage' = nextStage + 1
    /\ stages' = Append(stages, nextStage)
    /\ PushMoves(stages, stageWalk.inside)
    /\ UNCHANGED <<stageWalk, results, lineup, outcomes>>

(* remove_stage takes out the ids given, clear_stages all of them. *)
RemoveStages(ids) ==
    /\ stages' = TakeOut(stages, ids)
    /\ wild' = (wild \/ (stageWalk.inside /\ stages' # stages))
    /\ UNCHANGED <<nextStage, stageWalk, results, lineup, outcomes>>

RunStages ==
    /\ stageWalk = NoWalk
    /\ stageWalk' = WalkOver(stages)
    /\ results' = << >>
    /\ lineup' = stages /\ outcomes' = << >>
    /\ UNCHANGED <<wild, stages, nextStage>>

CallStage ==
    /\ CanEnter(stageWalk)
    /\ stageWalk' = Enter(stageWalk)
    /\ UNCHANGED <<wild, stages, nextStage, results, lineup, outcomes>>

(* Mutant: a failure ends the run, without a result of its own. *)
StageReturns_FailsFast(ok) ==
    /\ stageWalk.inside
    /\ results' = IF ok THEN Append(results, [id |-> stages[stageWalk.at], success |-> ok]) ELSE results
    /\ outcomes' = Append(outcomes, ok)
    /\ stageWalk' = IF ok THEN Leave(stageWalk) ELSE [Leave(stageWalk) EXCEPT !.at = @ + stageWalk.upto]
    /\ UNCHANGED <<wild, stages, nextStage, lineup>>

StageReturns(ok) ==
    /\ stageWalk.inside
    /\ results' = Append(results, [id |-> stages[stageWalk.at], success |-> ok])
    /\ outcomes' = Append(outcomes, ok)
    /\ stageWalk' = Leave(stageWalk)
    /\ UNCHANGED <<wild, stages, nextStage, lineup>>

PipelineReturns ==
    /\ stageWalk.at # 0 /\ WalkedOut(stageWalk)
    /\ stageWalk' = NoWalk
    /\ UNCHANGED <<wild, stages, nextStage, results, lineup, outcomes>>

PipeNext ==
    /\ ~wild
    /\ \/ RunStages \/ CallStage \/ PipelineReturns
       \/ \E ok \in BOOLEAN : StageReturns(ok)
       \/ /\ stageWalk = NoWalk \/ stageWalk.inside
          /\ \/ AddStage
             \/ \E ids \in {{s} : s \in 1..MaxStages} \cup {1..MaxStages} : RemoveStages(ids)

(* SPEC-022: whatever the stages return, a run runs each of its stages and  *)
(* last_results() tells the outcome of each, in order.                      *)
StagesReported ==
    stageWalk = NoWalk =>
        /\ Len(results) = Len(lineup) /\ Len(outcomes) = Len(lineup)
        /\ \A i \in DOMAIN results :
             results[i] = [id |-> lineup[i], success |-> outcomes[i]]

=============================================================================
