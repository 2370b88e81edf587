-------------------------- MODULE Callbacks_proofs ---------------------------
(***************************************************************************)
(* Proofs about the loops over user code: the time and the status of a     *)
(* tick, whatever timestep, calls and handlers there are.                  *)
(***************************************************************************)
EXTENDS Callbacks, DataLemmas

(* What the loop of tick keeps about time.  Inside the loop a step of the   *)
(* accumulator is already spent; outside it, a tick without a timestep     *)
(* finds the accumulator empty, because whoever clears the timestep does.  *)
TimeInv ==
    /\ acc \in Int /\ due \in Int /\ fixed \in Nat
    /\ disturbed \in BOOLEAN /\ looping \in BOOLEAN
    /\ fixed = 0 => acc = 0
    /\ phase = "host" => ~looping
    /\ phase # "host" /\ ~looping => acc = 0
    /\ looping /\ ~disturbed => fixed > 0 /\ acc >= fixed /\ acc = due + fixed
    /\ ~looping /\ ~disturbed => acc >= 0 /\ (fixed > 0 => acc = due)
    /\ phase \in {"AfterTick", "TickEnd"} => sub \in seen
    /\ phase = "host" /\ ~disturbed /\ fixed > 0 /\ "CriticalFailure" \notin seen => acc < fixed

LEMMA TimeInvHoldsFirst == CallbacksInit => TimeInv
<1> SUFFICES ASSUME CallbacksInit PROVE TimeInv
  OBVIOUS
<1>1. acc = 0 /\ due = 0 /\ fixed = 0 /\ phase = "host"
  BY DEF CallbacksInit, TickInit
<1>2. disturbed \in BOOLEAN /\ looping \in BOOLEAN /\ ~disturbed /\ ~looping
  BY DEF CallbacksInit, TickInit
<1> QED BY <1>1, <1>2 DEF TimeInv

LEMMA TickKeepsTime ==
  ASSUME TimeInv, NEW delta \in Deltas, Tick(delta)
  PROVE  TimeInv'
<1>1. delta \in Nat
  BY TimeAssumption
<1>2. CASE fixed = 0
  BY <1>1, <1>2 DEF TimeInv, Tick, BeginSubTick, Fire
<1>3. CASE fixed > 0 /\ acc + delta >= fixed
  <2>1. phase = "host" /\ ~looping /\ looping' = TRUE /\ phase' = "TickBegin"
    BY <1>3 DEF TimeInv, Tick, BeginSubTick, Fire
  <2>2. /\ acc' = acc + delta /\ due' = due + delta - fixed
        /\ UNCHANGED <<fixed, disturbed>>
    BY <1>3 DEF TimeInv, Tick
  <2> QED BY <1>1, <1>3, <2>1, <2>2 DEF TimeInv
<1>4. CASE fixed > 0 /\ acc + delta < fixed
  BY <1>1, <1>4 DEF TimeInv, Tick
<1> QED BY <1>2, <1>3, <1>4, <1>1 DEF TimeInv

LEMMA StepKeepsTime == ASSUME TimeInv, TickStep PROVE TimeInv'
<1>1. CASE CallHandler
  BY <1>1 DEF TimeInv, CallHandler, timeVars
<1>2. CASE HandlerReturns
  BY <1>2 DEF TimeInv, HandlerReturns, timeVars
<1>3. CASE Work
  BY <1>3 DEF TimeInv, Work, timeVars
<1>4. CASE WorkDone
  BY <1>4 DEF TimeInv, WorkDone, Fire, timeVars
<1>5. CASE FireTickEnd
  BY <1>5 DEF TimeInv, FireTickEnd, Fire, timeVars
<1>6. CASE EndSubTick
  <2>1. CASE looping /\ sub # "CriticalFailure" /\ acc - fixed >= fixed
    <3>1. /\ phase' = "TickBegin" /\ acc' = acc - fixed /\ due' = due - fixed
          /\ UNCHANGED <<fixed, disturbed, looping>>
      BY <1>6, <2>1 DEF TimeInv, EndSubTick, BeginSubTick, Fire
    <3>2. phase # "host"
      BY <1>6 DEF EndSubTick
    <3>3. acc \in Int /\ due \in Int /\ fixed \in Nat /\ (~disturbed => acc = due + fixed)
      BY <2>1 DEF TimeInv
    <3>4. /\ acc' \in Int /\ due' \in Int /\ fixed' \in Nat
          /\ acc' >= fixed' /\ (~disturbed' => acc' = due' + fixed' /\ fixed' > 0)
      BY <2>1, <3>1, <3>3 DEF TimeInv
    <3>5. looping' /\ {disturbed, looping}' \subseteq BOOLEAN /\ (fixed' = 0 => acc' = 0)
      BY <2>1, <3>1 DEF TimeInv
    <3> QED BY <3>1, <3>4, <3>5 DEF TimeInv
  <2>2. CASE looping /\ ~(sub # "CriticalFailure" /\ acc - fixed >= fixed)
    <3>1. /\ phase = "TickEnd" /\ phase' = "host" /\ acc' = acc - fixed
          /\ looping' \in BOOLEAN /\ ~looping'
          /\ UNCHANGED <<fixed, disturbed, due, seen>>
      BY <1>6, <2>2 DEF EndSubTick
    <3>2. /\ acc \in Int /\ due \in Int /\ fixed \in Nat /\ sub \in seen
          /\ disturbed \in BOOLEAN /\ (fixed = 0 => acc = 0)
          /\ (~disturbed => acc >= fixed /\ acc = due + fixed)
      BY <2>2, <3>1 DEF TimeInv
    <3>3. "CriticalFailure" \notin seen => acc' < fixed
      BY <2>2, <3>1, <3>2
    <3> QED BY <3>1, <3>2, <3>3 DEF TimeInv
  <2>3. CASE ~looping
    BY <1>6, <2>3 DEF TimeInv, EndSubTick
  <2> QED BY <2>1, <2>2, <2>3 DEF TimeInv
<1> QED BY <1>1, <1>2, <1>3, <1>4, <1>5, <1>6 DEF TickStep

LEMMA UserCodeKeepsTime ==
  ASSUME TimeInv, ChangeTime \/ ChangeHandlers
  PROVE  TimeInv'
<1>1. CASE ChangeHandlers
  BY <1>1 DEF TimeInv, ChangeHandlers, timeVars, stepVars
<1>2. ASSUME NEW on \in BOOLEAN, Pause(on) PROVE TimeInv'
  BY <1>2 DEF TimeInv, Pause, stepVars
<1>3. ASSUME NEW dt \in Steps \cup {0}, SetTimestep(dt) PROVE TimeInv'
  <2>1. dt \in Nat
    BY TimeAssumption
  <2> QED BY <1>3, <2>1 DEF TimeInv, SetTimestep, stepVars
<1> QED BY <1>1, <1>2, <1>3 DEF ChangeTime

LEMMA NextKeepsTime == ASSUME TimeInv, [CallbacksNext]_callbackVars PROVE TimeInv'
<1>1. CASE UNCHANGED tickVars
  BY <1>1 DEF TimeInv, tickVars, timeVars, stepVars
<1>2. CASE TickNext
  BY <1>2, TickKeepsTime, StepKeepsTime, UserCodeKeepsTime DEF TickNext
<1> QED BY <1>1, <1>2 DEF CallbacksNext, Undefined, callbackVars

(* SPEC-009: no time given to tick is lost or counted twice, for every set  *)
(* of timesteps and calls, in any mix with handlers that pause the runtime, *)
(* fail or change the timestep.                                            *)
THEOREM TimeIsAccounted == CallbacksSpec => []TimeAccounted
<1>1. TimeInv => TimeAccounted
  BY DEF TimeInv, TimeAccounted
<1> QED BY <1>1, TimeInvHoldsFirst, NextKeepsTime, PTL DEF CallbacksSpec

-----------------------------------------------------------------------------
(* c is the worst of the statuses S. *)
Worst(c, S) == c \in S /\ \A t \in S : Severity[t] <= Severity[c]

(* What the result knows while sub-ticks run: it is the worst of those that *)
(* have ended, a success before the first, and not yet a critical failure. *)
Collecting ==
    /\ combined # "CriticalFailure"
    /\ combined \in seen \/ combined = "Success"

StatusInv ==
    /\ sub \in Statuses /\ combined \in Statuses /\ seen \subseteq Statuses
    /\ phase = "host" /\ seen # {} => Worst(combined, seen)
    /\ phase \in {"TickBegin", "work"} =>
         /\ Collecting /\ "CriticalFailure" \notin seen
         /\ \A t \in seen : Severity[t] <= Severity[combined]
         /\ ~looping => seen = {}
    /\ phase \in {"AfterTick", "TickEnd"} =>
         /\ Collecting /\ sub \in seen
         /\ \A t \in seen : t = sub \/ Severity[t] <= Severity[combined]
         /\ ~looping => seen = {sub}

LEMMA SeverityValues ==
  /\ Severity["Success"] = 0
  /\ Severity["PartialFailure"] = 1
  /\ Severity["CriticalFailure"] = 2
BY DEF Severity

(* Worst status wins: the comparisons of tick pick the worse of the two. *)
LEMMA WorseIsWorst ==
  ASSUME NEW c \in Statuses, NEW s \in Statuses, NEW S \in SUBSET Statuses,
         s \in S, c # "CriticalFailure", c \in S \/ c = "Success",
         \A t \in S : t = s \/ Severity[t] <= Severity[c]
  PROVE  Worst(Worse(c, s), S)
<1>1. CASE s = "CriticalFailure"
  BY <1>1, SeverityValues DEF Worst, Worse, Statuses
<1>2. CASE s = "PartialFailure"
  BY <1>2, SeverityValues DEF Worst, Worse, Statuses
<1>3. CASE s = "Success"
  BY <1>3, SeverityValues DEF Worst, Worse, Statuses
<1> QED BY <1>1, <1>2, <1>3 DEF Statuses

LEMMA StatusInvHoldsFirst == CallbacksInit => StatusInv
BY DEF CallbacksInit, TickInit, StatusInv, Statuses

LEMMA TickKeepsStatus ==
  ASSUME StatusInv, NEW delta \in Deltas, Tick(delta)
  PROVE  StatusInv'
<1>1. combined' = "Success" /\ seen' = {}
  BY DEF Tick
<1>2. CASE phase' = "TickBegin" /\ sub' = "Success"
  BY <1>1, <1>2 DEF StatusInv, Collecting, Statuses
<1>3. CASE phase' = "host" /\ sub' = sub
  BY <1>1, <1>3 DEF StatusInv, Statuses
<1> QED BY <1>2, <1>3 DEF Tick, BeginSubTick, Fire

LEMMA EndSubTickKeepsStatus == ASSUME StatusInv, EndSubTick PROVE StatusInv'
<1>1. /\ phase = "TickEnd" /\ sub \in seen /\ seen' = seen
      /\ combined \in Statuses /\ sub \in Statuses /\ seen \in SUBSET Statuses
      /\ combined # "CriticalFailure" /\ (combined \in seen \/ combined = "Success")
      /\ \A t \in seen : t = sub \/ Severity[t] <= Severity[combined]
      /\ ~looping => seen = {sub}
  BY DEF EndSubTick, StatusInv, Collecting
<1>2. Worst(combined', seen)
  <2>1. CASE looping
    <3>1. Worst(Worse(combined, sub), seen)
      BY <1>1, WorseIsWorst
    <3> QED BY <2>1, <3>1 DEF EndSubTick
  <2>2. CASE ~looping
    BY <1>1, <2>2, SeverityValues DEF EndSubTick, Worst, Statuses
  <2> QED BY <2>1, <2>2
<1>3. combined' \in Statuses
  BY <1>1, <1>2 DEF Worst
<1>4. CASE phase' = "host" /\ sub' = sub
  BY <1>1, <1>2, <1>3, <1>4 DEF StatusInv
<1>5. CASE looping /\ looping' = looping /\ sub # "CriticalFailure" /\ phase' = "TickBegin" /\ sub' = "Success"
  <2>1. "CriticalFailure" \notin seen
    BY <1>1, <1>5, SeverityValues DEF Statuses
  <2> QED BY <1>1, <1>2, <1>3, <1>5, <2>1 DEF StatusInv, Collecting, Worst, Statuses
<1> QED BY <1>4, <1>5 DEF EndSubTick, BeginSubTick, Fire

LEMMA StepKeepsStatus == ASSUME StatusInv, TickStep PROVE StatusInv'
<1>1. CASE CallHandler \/ HandlerReturns
  BY <1>1 DEF StatusInv, Collecting, CallHandler, HandlerReturns
<1>2. CASE Work
  BY <1>2 DEF StatusInv, Collecting, Work
<1>3. CASE WorkDone
  <2>1. /\ phase' = "AfterTick" /\ sub' \in Statuses /\ seen' = seen \cup {sub'}
        /\ combined' = combined /\ looping' = looping
    BY <1>3 DEF WorkDone, Fire
  <2>2. /\ Collecting /\ (\A t \in seen : Severity[t] <= Severity[combined])
        /\ (~looping => seen = {}) /\ combined \in Statuses /\ seen \subseteq Statuses
    BY <1>3 DEF StatusInv, WorkDone
  <2> QED BY <2>1, <2>2 DEF StatusInv, Collecting
<1>4. CASE FireTickEnd
  BY <1>4 DEF StatusInv, Collecting, FireTickEnd, Fire
<1> QED BY <1>1, <1>2, <1>3, <1>4, EndSubTickKeepsStatus DEF TickStep

LEMMA NextKeepsStatus == ASSUME StatusInv, [CallbacksNext]_callbackVars PROVE StatusInv'
<1>1. CASE UNCHANGED stepVars
  BY <1>1 DEF StatusInv, Collecting, stepVars
<1>2. CASE TickNext
  <2>1. ChangeTime \/ ChangeHandlers => UNCHANGED stepVars
    BY DEF ChangeTime, ChangeHandlers, Pause, SetTimestep
  <2> QED BY <1>1, <1>2, <2>1, TickKeepsStatus, StepKeepsStatus DEF TickNext
<1> QED BY <1>1, <1>2 DEF CallbacksNext, Undefined, callbackVars, tickVars

(* The result of a tick has the worst status of its sub-ticks, and no      *)
(* sub-tick is run after a critical failure.                               *)
THEOREM WorstStatusReported == CallbacksSpec => []WorstStatusWins
<1>1. StatusInv => WorstStatusWins
  <2>1. ASSUME NEW S \in SUBSET Statuses, NEW c \in S, Worst(c, S)
        PROVE  c = CHOOSE s \in S : \A t \in S : Severity[t] <= Severity[s]
    <3> DEFINE w == CHOOSE s \in S : \A t \in S : Severity[t] <= Severity[s]
    <3>1. w \in S /\ Worst(w, S)
      BY <2>1, Zenon DEF Worst
    <3>2. ASSUME NEW s \in S, Worst(s, S) PROVE s = c
      BY <2>1, <3>2, SeverityValues DEF Worst, Statuses
    <3> QED BY <3>1, <3>2
  <2>2. StatusInv /\ phase = "host" /\ seen # {} => Worst(combined, seen) /\ seen \in SUBSET Statuses
    BY DEF StatusInv
  <2>3. StatusInv /\ phase \in {"TickBegin", "work"} => "CriticalFailure" \notin seen
    BY DEF StatusInv
  <2> QED BY <2>1, <2>2, <2>3 DEF WorstStatusWins, Worst
<1> QED BY <1>1, StatusInvHoldsFirst, NextKeepsStatus, PTL DEF CallbacksSpec

-----------------------------------------------------------------------------
(* What is known of a loop: it is at one of its slots, or past the last. *)
WalkOK(w) ==
    /\ w \in [at : Nat, upto : Nat, inside : BOOLEAN]
    /\ w = NoWalk \/ (w.at \in 1..w.upto + 1 /\ (w.inside => w.at <= w.upto))

LEMMA StandStill == WalkOK(NoWalk) /\ ~NoWalk.inside
BY DEF WalkOK, NoWalk

LEMMA SetOut ==
  ASSUME NEW T, NEW s \in Seq(T)
  PROVE  /\ WalkOK(WalkOver(s)) /\ WalkOver(s) # NoWalk
         /\ WalkOver(s).at = 1 /\ WalkOver(s).upto = Len(s) /\ ~WalkOver(s).inside
BY DEF WalkOK, WalkOver, NoWalk

LEMMA StepIn ==
  ASSUME NEW w, WalkOK(w), CanEnter(w)
  PROVE  /\ WalkOK(Enter(w)) /\ Enter(w) # NoWalk /\ w # NoWalk
         /\ Enter(w).at = w.at /\ Enter(w).upto = w.upto /\ Enter(w).inside
         /\ w.at \in 1..w.upto
<1>1. w = [at |-> w.at, upto |-> w.upto, inside |-> FALSE] /\ w.at \in Nat /\ w.upto \in Nat
  BY DEF WalkOK, CanEnter
<1>2. Enter(w) = [at |-> w.at, upto |-> w.upto, inside |-> TRUE]
  BY <1>1 DEF Enter, WalkOK
<1> QED BY <1>1, <1>2 DEF WalkOK, CanEnter, NoWalk

LEMMA StepOut ==
  ASSUME NEW w, WalkOK(w), w.inside
  PROVE  /\ WalkOK(Leave(w)) /\ Leave(w) # NoWalk /\ w # NoWalk
         /\ Leave(w).at = w.at + 1 /\ Leave(w).upto = w.upto /\ ~Leave(w).inside
         /\ w.at \in 1..w.upto
<1>1. w = [at |-> w.at, upto |-> w.upto, inside |-> TRUE] /\ w.at \in Nat /\ w.upto \in Nat
  BY DEF WalkOK
<1>2. Leave(w) = [at |-> w.at + 1, upto |-> w.upto, inside |-> FALSE]
  BY <1>1 DEF Leave, WalkOK
<1> QED BY <1>1, <1>2 DEF WalkOK, NoWalk

Outcome == [id : Nat, success : BOOLEAN]

(* A run that goes on has a result for every stage before the one it is at, *)
(* and the stages are still those it set out with.                          *)
PipeInv ==
    /\ stages \in Seq(Nat) /\ nextStage \in Nat /\ WalkOK(stageWalk)
    /\ lineup \in Seq(Nat) /\ outcomes \in Seq(BOOLEAN) /\ results \in Seq(Outcome)
    /\ Len(outcomes) = Len(results) /\ Len(results) <= Len(lineup)
    /\ \A i \in DOMAIN results : results[i] = [id |-> lineup[i], success |-> outcomes[i]]
    /\ stageWalk = NoWalk => Len(results) = Len(lineup)
    /\ stageWalk # NoWalk =>
         /\ stageWalk.upto = Len(lineup) /\ Len(results) = stageWalk.at - 1
         /\ ~wild => Len(lineup) <= Len(stages) /\ \A i \in 1..Len(lineup) : stages[i] = lineup[i]

LEMMA PipeInvHoldsFirst == CallbacksInit => PipeInv
<1> SUFFICES ASSUME CallbacksInit PROVE PipeInv
  OBVIOUS
<1>1. stages = << >> /\ nextStage = 1 /\ results = << >> /\ lineup = << >> /\ outcomes = << >>
  BY DEF CallbacksInit, PipeInit
<1>2. stageWalk = NoWalk
  BY DEF CallbacksInit, PipeInit
<1> QED BY <1>1, <1>2, StandStill DEF PipeInv

(* Outside a run the stages may be changed at will; inside, a change moves  *)
(* the list from under the loop, or comes behind the stages it set out with.*)
LEMMA AddStageKeepsPipe == ASSUME PipeInv, AddStage PROVE PipeInv'
<1>1. /\ UNCHANGED <<stageWalk, results, lineup, outcomes>> /\ (wild => wild')
      /\ stages' = Append(stages, nextStage) /\ nextStage' = nextStage + 1
  BY DEF AddStage, PushMoves
<1>2. stages \in Seq(Nat) /\ nextStage \in Nat
  BY DEF PipeInv
<1>3. /\ stages' \in Seq(Nat) /\ nextStage' \in Nat /\ Len(stages') = Len(stages) + 1
      /\ \A i \in 1..Len(stages) : stages'[i] = stages[i]
  BY <1>1, <1>2
<1>4. ASSUME stageWalk # NoWalk, ~wild'
      PROVE  Len(lineup) <= Len(stages') /\ \A i \in 1..Len(lineup) : stages'[i] = lineup[i]
  <2>1. Len(lineup) <= Len(stages) /\ \A i \in 1..Len(lineup) : stages[i] = lineup[i]
    BY <1>1, <1>4 DEF PipeInv
  <2>2. lineup \in Seq(Nat)
    BY DEF PipeInv
  <2> QED BY <1>2, <1>3, <2>1, <2>2
<1> QED BY <1>1, <1>3, <1>4 DEF PipeInv, WalkOK

LEMMA RemoveStagesKeepsPipe ==
  ASSUME PipeInv, NEW ids, RemoveStages(ids), stageWalk = NoWalk \/ stageWalk.inside
  PROVE  PipeInv'
<1>1. /\ UNCHANGED <<nextStage, stageWalk, results, lineup, outcomes>> /\ (wild => wild')
      /\ stageWalk.inside /\ ~wild' => stages' = stages
  BY DEF RemoveStages
<1>2. stages' \in Seq(Nat)
  BY TakeOutLeaves DEF PipeInv, RemoveStages
<1>3. ASSUME stageWalk # NoWalk, ~wild'
      PROVE  Len(lineup) <= Len(stages') /\ \A i \in 1..Len(lineup) : stages'[i] = lineup[i]
  BY <1>1, <1>3 DEF PipeInv
<1> QED BY <1>1, <1>2, <1>3 DEF PipeInv, WalkOK

LEMMA RunStagesKeepsPipe == ASSUME PipeInv, RunStages PROVE PipeInv'
<1>1. stages \in Seq(Nat) /\ nextStage \in Nat
  BY DEF PipeInv
<1>2. /\ results' = << >> /\ outcomes' = << >> /\ lineup' = stages /\ stages' = stages
      /\ nextStage' = nextStage /\ stageWalk' = WalkOver(stages)
  BY DEF RunStages
<1>3. /\ WalkOK(stageWalk)' /\ stageWalk' # NoWalk' /\ stageWalk' # NoWalk
      /\ stageWalk'.at = 1 /\ stageWalk'.upto = Len(stages)
  <2>1. /\ WalkOK(WalkOver(stages)) /\ WalkOver(stages) # NoWalk
        /\ WalkOver(stages).at = 1 /\ WalkOver(stages).upto = Len(stages)
    BY <1>1, SetOut
  <2> QED BY <1>2, <2>1 DEF WalkOK
<1> QED BY <1>1, <1>2, <1>3 DEF PipeInv

LEMMA CallStageKeepsPipe == ASSUME PipeInv, CallStage PROVE PipeInv'
<1>1. /\ UNCHANGED <<wild, stages, nextStage, results, lineup, outcomes>>
      /\ stageWalk' = Enter(stageWalk) /\ CanEnter(stageWalk)
  BY DEF CallStage
<1>2. /\ WalkOK(Enter(stageWalk)) /\ Enter(stageWalk) # NoWalk /\ stageWalk # NoWalk
      /\ Enter(stageWalk).at = stageWalk.at /\ Enter(stageWalk).upto = stageWalk.upto
  BY <1>1, StepIn DEF PipeInv
<1>3. WalkOK(stageWalk)' /\ stageWalk' # NoWalk
  BY <1>1, <1>2 DEF WalkOK
<1> QED BY <1>1, <1>2, <1>3 DEF PipeInv

(* The result of a stage is the next in the list, under the stage's id.     *)
LEMMA StageReturnsKeepsPipe ==
  ASSUME PipeInv, NEW ok \in BOOLEAN, StageReturns(ok), ~wild
  PROVE  PipeInv'
<1>1. /\ UNCHANGED <<wild, stages, nextStage, lineup>> /\ stageWalk.inside
      /\ stageWalk' = Leave(stageWalk)
      /\ results' = Append(results, [id |-> stages[stageWalk.at], success |-> ok])
      /\ outcomes' = Append(outcomes, ok)
  BY DEF StageReturns
<1>2. /\ WalkOK(Leave(stageWalk)) /\ Leave(stageWalk) # NoWalk /\ stageWalk # NoWalk
      /\ Leave(stageWalk).at = stageWalk.at + 1 /\ Leave(stageWalk).upto = stageWalk.upto
      /\ stageWalk.at \in 1..stageWalk.upto
  BY <1>1, StepOut DEF PipeInv
<1>3. WalkOK(stageWalk)' /\ stageWalk' # NoWalk
  BY <1>1, <1>2 DEF WalkOK
<1>4. /\ lineup \in Seq(Nat) /\ outcomes \in Seq(BOOLEAN) /\ results \in Seq(Outcome)
      /\ stages \in Seq(Nat)
      /\ stageWalk.upto = Len(lineup) /\ Len(results) = stageWalk.at - 1
      /\ Len(outcomes) = Len(results)
      /\ Len(lineup) <= Len(stages) /\ \A i \in 1..Len(lineup) : stages[i] = lineup[i]
      /\ \A i \in DOMAIN results : results[i] = [id |-> lineup[i], success |-> outcomes[i]]
  BY <1>2 DEF PipeInv
<1> DEFINE n == stageWalk.at
<1>5. n \in 1..Len(lineup) /\ n = Len(results) + 1
  BY <1>2, <1>4
<1> DEFINE o == [id |-> lineup[n], success |-> ok]
<1> HIDE DEF n
<1>6. lineup[n] = stages[n] /\ o \in Outcome /\ results' = Append(results, o)
  <2>1. lineup[n] = stages[n] /\ lineup[n] \in Nat
    BY <1>4, <1>5, SMTT(30)
  <2> QED BY <1>1, <2>1 DEF Outcome, n
<1> HIDE DEF o
<1>7. /\ results' \in Seq(Outcome) /\ Len(results') = n /\ DOMAIN results' = 1..n
      /\ outcomes' \in Seq(BOOLEAN) /\ Len(outcomes') = n
      /\ \A i \in 1..(n - 1) : results'[i] = results[i] /\ outcomes'[i] = outcomes[i]
      /\ results'[n] = o /\ outcomes'[n] = ok
  <2>1. /\ results' \in Seq(Outcome) /\ Len(results') = n
        /\ \A i \in 1..(n - 1) : results'[i] = results[i]
        /\ results'[n] = o
    <3>1. results \in Seq(Outcome) /\ o \in Outcome /\ results' = Append(results, o)
      BY <1>4, <1>6
    <3>2. Len(results) = n - 1 /\ n \in Nat \ {0}
      BY <1>4, <1>5
    <3> QED BY <3>1, <3>2
  <2>2. /\ outcomes' \in Seq(BOOLEAN) /\ Len(outcomes') = n
        /\ \A i \in 1..(n - 1) : outcomes'[i] = outcomes[i]
        /\ outcomes'[n] = ok
    <3>1. outcomes \in Seq(BOOLEAN) /\ ok \in BOOLEAN /\ outcomes' = Append(outcomes, ok)
      BY <1>1, <1>4
    <3>2. Len(outcomes) = n - 1 /\ n \in Nat \ {0}
      BY <1>4, <1>5, SMTT(30)
    <3> QED BY <3>1, <3>2
  <2> QED BY <1>5, <2>1, <2>2
<1>8. ASSUME NEW i \in 1..n
      PROVE  results'[i] = [id |-> lineup[i], success |-> outcomes'[i]]
  <2>1. CASE i = n
    BY <1>7, <2>1 DEF o
  <2>2. CASE i < n
    <3>1. i \in 1..(n - 1)
      BY <1>5, <2>2
    <3>2. i \in DOMAIN results
      <4>1. DOMAIN results = 1..Len(results)
        BY <1>4
      <4> QED BY <1>5, <3>1, <4>1
    <3> QED BY <1>4, <1>7, <3>1, <3>2
  <2> QED BY <1>5, <1>7, <2>1, <2>2
<1>9. stageWalk'.upto = Len(lineup) /\ stageWalk'.at = n + 1
  BY <1>1, <1>2, <1>4 DEF n
<1>10. /\ stages' \in Seq(Nat) /\ nextStage' \in Nat /\ lineup' \in Seq(Nat)
       /\ UNCHANGED <<wild, stages, lineup>>
  BY <1>1 DEF PipeInv
<1>11. \A i \in DOMAIN results' : results'[i] = [id |-> lineup'[i], success |-> outcomes'[i]]
  BY <1>7, <1>8, <1>10
<1>12. Len(outcomes') = Len(results') /\ Len(results') <= Len(lineup')
  BY <1>4, <1>5, <1>7, <1>10
<1>13. stageWalk'.upto = Len(lineup') /\ Len(results') = stageWalk'.at - 1
  BY <1>4, <1>5, <1>7, <1>9, <1>10
<1> QED BY <1>3, <1>4, <1>7, <1>10, <1>11, <1>12, <1>13, StandStill DEF PipeInv

LEMMA PipelineReturnsKeepsPipe == ASSUME PipeInv, PipelineReturns PROVE PipeInv'
<1>1. /\ UNCHANGED <<wild, stages, nextStage, results, lineup, outcomes>>
      /\ stageWalk' = NoWalk /\ stageWalk.at # 0 /\ WalkedOut(stageWalk)
  BY DEF PipelineReturns
<1>2. stageWalk # NoWalk /\ stageWalk.at \in 1..stageWalk.upto + 1 /\ stageWalk.upto \in Nat
  BY <1>1 DEF PipeInv, WalkOK, NoWalk
<1>3. Len(results) = Len(lineup)
  BY <1>1, <1>2 DEF PipeInv, WalkedOut
<1>4. WalkOK(stageWalk)'
  BY <1>1, StandStill DEF WalkOK
<1> QED BY <1>1, <1>3, <1>4 DEF PipeInv

LEMMA WildForGood == CallbacksNext => (wild => wild')
BY DEF CallbacksNext, TickNext, EventNext, RuleNext, PipeNext, Undefined, callbackVars

LEMMA NextKeepsPipe == ASSUME PipeInv, [CallbacksNext]_callbackVars PROVE PipeInv'
<1>1. CASE UNCHANGED pipeVars /\ (wild => wild')
  BY <1>1 DEF PipeInv, WalkOK, pipeVars
<1>2. CASE PipeNext
  BY <1>2, AddStageKeepsPipe, RemoveStagesKeepsPipe, RunStagesKeepsPipe, CallStageKeepsPipe,
     StageReturnsKeepsPipe, PipelineReturnsKeepsPipe DEF PipeNext
<1> QED BY <1>1, <1>2, WildForGood DEF CallbacksNext, Undefined, callbackVars

(* SPEC-022: for every pipeline and whatever its stages return or do to it, *)
(* each stage of a run is reported, under its id and in order, by the time  *)
(* the run is over.                                                        *)
THEOREM PipelineReports == CallbacksSpec => []StagesReported
<1>1. PipeInv => StagesReported
  BY DEF PipeInv, StagesReported
<1> QED BY <1>1, PipeInvHoldsFirst, NextKeepsPipe, PTL DEF CallbacksSpec

-----------------------------------------------------------------------------
(* The state machine. *)

Tables   == UNION {[pairs -> FsmStates] : pairs \in SUBSET (FsmStates \X FsmEvents)}
Builders == [table : [moves : Tables, states : SUBSET FsmStates],
             initial : SUBSET FsmStates, queue : Seq(FsmEvents)]
Machines == [moves : Tables, current : Nat, queue : Seq(FsmEvents)]
Acts     == ({"start", "entry"} \X Nat) \cup ({"exit"} \X Nat \X FsmEvents)

FsmTypes ==
    /\ builder \in Builders /\ machine \in Machines
    /\ fsmPc \in {"idle", "loop", "exit", "entry"} /\ fsmAt \in Nat
    /\ given \in Seq(FsmEvents) /\ acts \in Seq(Acts) /\ passed \in Seq(Nat \X FsmEvents)

(* b is an act that may follow a. *)
Follows(a, b, moves) ==
    IF a[1] = "exit" THEN b = <<"entry", moves[<<a[2], a[3]>>]>>
    ELSE b[1] = "exit" /\ b[2] = a[2]

(* A start, and then exits and entries that alternate along the table. *)
ActsFollow(list, moves) == \A i \in 1..Len(list) - 1 : Follows(list[i], list[i + 1], moves)

(* How many events the run has dealt with. *)
Dealt == IF fsmPc = "idle" THEN 0 ELSE IF fsmPc = "loop" THEN fsmAt - 1 ELSE fsmAt

(* Where the acts of a run stand: a start and two acts for every event that *)
(* was not passed over, the last without its entry between exit and entry.  *)
FsmInv ==
    /\ FsmTypes
    /\ ActsFollow(acts, machine.moves)
    /\ \A i \in DOMAIN passed : passed[i] \notin DOMAIN machine.moves
    /\ acts # << >> =>
         /\ acts[Len(acts)][2] = machine.current
         /\ acts[Len(acts)][1] = "exit" <=> fsmPc = "exit"
    /\ fsmPc = "exit" => Here \in DOMAIN machine.moves /\ acts[Len(acts)][3] = machine.queue[fsmAt]
    /\ fsmPc # "idle" => fsmAt \in 1..Len(machine.queue) + 1
    /\ fsmPc \in {"exit", "entry"} => fsmAt <= Len(machine.queue)
    /\ machine.queue = << >> =>
         \/ given = << >> /\ acts = << >> /\ passed = << >>
         \/ Len(acts) = 2 * (Len(given) - Len(passed)) + 1
    /\ machine.queue # << >> =>
         /\ given = machine.queue /\ acts # << >>
         /\ Len(acts) = 2 * (Dealt - Len(passed)) + (IF fsmPc = "exit" THEN 0 ELSE 1)

LEMMA FsmInvHoldsFirst == CallbacksInit => FsmInv
<1> SUFFICES ASSUME CallbacksInit PROVE FsmInv
  OBVIOUS
<1>1. /\ builder = [table |-> NoTable, initial |-> {}, queue |-> << >>] /\ machine = NoMachine
      /\ fsmPc = "idle" /\ fsmAt = 0 /\ given = << >> /\ acts = << >> /\ passed = << >>
  BY DEF CallbacksInit, FsmInit
<1>2. << >> \in Tables
  <2>1. << >> \in [{} -> FsmStates] /\ {} \in SUBSET (FsmStates \X FsmEvents)
    OBVIOUS
  <2> QED BY <2>1 DEF Tables
<1>3. builder \in Builders /\ machine \in Machines
  BY <1>1, <1>2, FsmAssumption DEF Builders, Machines, NoTable, NoMachine
<1>4. FsmTypes
  BY <1>1, <1>3 DEF FsmTypes
<1>5. ActsFollow(acts, machine.moves) /\ machine.queue = << >>
  BY <1>1 DEF ActsFollow, NoMachine
<1> QED BY <1>1, <1>4, <1>5 DEF FsmInv

(* The builder may be called in an exit or entry action: the machine that   *)
(* runs is not the builder's any more.                                     *)
LEMMA CallsKeepFsm ==
  ASSUME FsmInv, NEW b \in Builders, FsmCall(b)
  PROVE  FsmInv'
BY DEF FsmInv, FsmTypes, FsmCall, Dealt, Here

LEMMA TablesGrow ==
  ASSUME NEW moves \in Tables, NEW s \in FsmStates, NEW e \in FsmEvents, NEW t \in FsmStates
  PROVE  [k \in DOMAIN moves \cup {<<s, e>>} |-> IF k = <<s, e>> THEN t ELSE moves[k]] \in Tables
<1>1. PICK pairs \in SUBSET (FsmStates \X FsmEvents) : moves \in [pairs -> FsmStates]
  BY DEF Tables
<1> DEFINE grown == DOMAIN moves \cup {<<s, e>>}
<1>2. grown \in SUBSET (FsmStates \X FsmEvents)
  BY <1>1
<1>3. [k \in grown |-> IF k = <<s, e>> THEN t ELSE moves[k]] \in [grown -> FsmStates]
  BY <1>1
<1> QED BY <1>2, <1>3 DEF Tables

LEMMA StateCallsKeepFsm ==
  ASSUME FsmInv, NEW s \in FsmStates, InitialState(s) \/ AddState(s)
  PROVE  FsmInv'
<1>1. builder \in Builders
  BY DEF FsmInv, FsmTypes
<1>2. [builder EXCEPT !.initial = {s}] \in Builders
  BY <1>1 DEF Builders
<1>3. [builder EXCEPT !.table.states = @ \cup {s}] \in Builders
  BY <1>1 DEF Builders
<1> QED BY <1>2, <1>3, CallsKeepFsm DEF InitialState, AddState

LEMMA AddTransitionKeepsFsm ==
  ASSUME FsmInv, NEW s \in FsmStates, NEW t \in FsmStates, NEW e \in FsmEvents,
         AddTransition(s, e, t)
  PROVE  FsmInv'
<1>1. builder \in Builders
  BY DEF FsmInv, FsmTypes
<1>2. ASSUME NEW moves \in Tables PROVE [builder EXCEPT !.table.moves = moves] \in Builders
  BY <1>1 DEF Builders
<1>3. builder.table.moves \in Tables
  BY <1>1 DEF Builders
<1> QED BY <1>2, <1>3, TablesGrow, CallsKeepFsm DEF AddTransition

LEMMA EnqueueKeepsFsm == ASSUME FsmInv, NEW e \in FsmEvents, EnqueueFsm(e) PROVE FsmInv'
<1>1. builder \in Builders
  BY DEF FsmInv, FsmTypes
<1>2. Append(builder.queue, e) \in Seq(FsmEvents)
  BY <1>1 DEF Builders
<1>3. ASSUME NEW q \in Seq(FsmEvents) PROVE [builder EXCEPT !.queue = q] \in Builders
  BY <1>1 DEF Builders
<1> QED BY <1>2, <1>3, CallsKeepFsm DEF EnqueueFsm

LEMMA StartIsState == ASSUME builder \in Builders PROVE StartState \in Nat
<1> DEFINE states == builder.table.states
<1>1. builder.initial \in SUBSET FsmStates /\ states \in SUBSET Nat
  BY FsmAssumption DEF Builders
<1>2. CASE builder.initial # {}
  <2>1. (CHOOSE s \in builder.initial : TRUE) \in builder.initial
    BY <1>2
  <2> QED BY <1>1, <1>2, <2>1, FsmAssumption DEF StartState
<1>3. CASE builder.initial = {} /\ states # {}
  <2>1. \E s \in states : \A t \in states : s <= t
    BY <1>1, <1>3, LeastNumber
  <2>2. (CHOOSE s \in states : \A t \in states : s <= t) \in states
    BY <2>1
  <2> QED BY <1>1, <1>3, <2>2 DEF StartState
<1>4. CASE builder.initial = {} /\ states = {}
  BY <1>4, FsmAssumption DEF StartState
<1> QED BY <1>2, <1>3, <1>4

LEMMA BuildKeepsFsm == ASSUME FsmInv, BuildFsm PROVE FsmInv'
<1> DEFINE s == StartState
<1>1. builder \in Builders /\ s \in Nat
  BY StartIsState DEF FsmInv, FsmTypes
<1>2. /\ machine' = [moves |-> builder.table.moves, current |-> s, queue |-> builder.queue]
      /\ builder' = [table |-> NoTable, initial |-> builder.initial, queue |-> << >>]
      /\ fsmAt' = 0 /\ passed' = << >> /\ given' = builder.queue
      /\ acts' = << <<"start", s>> >> /\ fsmPc = "idle" /\ fsmPc' = "idle"
  BY DEF BuildFsm
<1> HIDE DEF s
<1>3. << >> \in Tables
  <2>1. << >> \in [{} -> FsmStates] /\ {} \in SUBSET (FsmStates \X FsmEvents)
    OBVIOUS
  <2> QED BY <2>1 DEF Tables
<1>4. builder' \in Builders /\ machine' \in Machines
  BY <1>1, <1>2, <1>3 DEF Builders, Machines, NoTable
<1>5. <<"start", s>> \in Acts
  BY <1>1 DEF Acts
<1>6. /\ acts' \in Seq(Acts) /\ Len(acts') = 1 /\ acts'[1] = <<"start", s>>
  BY <1>2, <1>5
<1>7. FsmTypes'
  BY <1>1, <1>2, <1>4, <1>6 DEF FsmTypes, Builders
<1>8. ActsFollow(acts', machine'.moves)
  BY <1>6 DEF ActsFollow
<1>9. machine'.current = s /\ machine'.queue = given' /\ Len(passed') = 0 /\ Dealt' = 0
  BY <1>2 DEF Dealt
<1>10. CASE given' = << >>
  BY <1>2, <1>6, <1>7, <1>8, <1>9, <1>10 DEF FsmInv
<1>11. CASE given' # << >>
  BY <1>2, <1>6, <1>7, <1>8, <1>9, <1>11 DEF FsmInv
<1> QED BY <1>10, <1>11

LEMMA RunKeepsFsm == ASSUME FsmInv, RunFsm PROVE FsmInv'
<1>1. /\ fsmPc = "idle" /\ fsmPc' = "loop" /\ fsmAt' = 1
      /\ UNCHANGED <<builder, machine, acts, passed, given>>
  BY DEF RunFsm
<1>2. Len(machine.queue) \in Nat
  BY DEF FsmInv, FsmTypes, Machines
<1>3. Dealt = 0 /\ Dealt' = 0
  BY <1>1 DEF Dealt
<1>4. FsmTypes'
  BY <1>1 DEF FsmInv, FsmTypes
<1> QED BY <1>1, <1>2, <1>3, <1>4 DEF FsmInv

LEMMA PassKeepsFsm == ASSUME FsmInv, PassEvent PROVE FsmInv'
<1>1. /\ fsmPc = "loop" /\ fsmPc' = "loop" /\ fsmAt <= Len(machine.queue)
      /\ Here \notin DOMAIN machine.moves
      /\ passed' = Append(passed, Here) /\ fsmAt' = fsmAt + 1
      /\ UNCHANGED <<builder, machine, acts, given>>
  BY DEF PassEvent
<1>2. /\ machine.current \in Nat /\ machine.queue \in Seq(FsmEvents)
      /\ fsmAt \in 1..Len(machine.queue) /\ passed \in Seq(Nat \X FsmEvents)
  BY <1>1 DEF FsmInv, FsmTypes, Machines
<1>3. Here \in Nat \X FsmEvents
  BY <1>2 DEF Here
<1>4. /\ passed' \in Seq(Nat \X FsmEvents) /\ Len(passed') = Len(passed) + 1
      /\ \A i \in DOMAIN passed' : (i \in DOMAIN passed /\ passed'[i] = passed[i]) \/ passed'[i] = Here
  BY <1>1, <1>2, <1>3
<1>5. Dealt = fsmAt - 1 /\ Dealt' = fsmAt /\ Len(passed) \in Nat
  BY <1>1, <1>2 DEF Dealt
<1>6. machine.queue # << >>
  BY <1>2
<1>7. FsmTypes'
  BY <1>1, <1>2, <1>4 DEF FsmInv, FsmTypes
<1>8. \A i \in DOMAIN passed' : passed'[i] \notin DOMAIN machine'.moves
  BY <1>1, <1>4 DEF FsmInv
<1>9. Len(acts') = 2 * (Dealt' - Len(passed')) + 1
  <2>1. Len(acts) = 2 * (Dealt - Len(passed)) + 1
    BY <1>1, <1>6 DEF FsmInv
  <2> QED BY <1>1, <1>2, <1>4, <1>5, <2>1
<1> QED BY <1>1, <1>2, <1>6, <1>7, <1>8, <1>9 DEF FsmInv

(* One more act, the one that has to follow the last. *)
LEMMA ActsGoOn ==
  ASSUME NEW list \in Seq(Acts), Len(list) # 0, NEW moves, ActsFollow(list, moves), NEW a \in Acts,
         Follows(list[Len(list)], a, moves)
  PROVE  /\ ActsFollow(Append(list, a), moves) /\ Append(list, a) \in Seq(Acts)
         /\ Len(Append(list, a)) = Len(list) + 1 /\ Append(list, a)[Len(list) + 1] = a
<1> DEFINE bs == Append(list, a)
<1>1. /\ bs \in Seq(Acts) /\ Len(bs) = Len(list) + 1 /\ bs[Len(list) + 1] = a
      /\ Len(list) \in Nat \ {0} /\ \A i \in 1..Len(list) : bs[i] = list[i]
  OBVIOUS
<1> HIDE DEF bs
<1>2. ASSUME NEW i \in 1..Len(bs) - 1 PROVE Follows(bs[i], bs[i + 1], moves)
  <2>1. CASE i = Len(list)
    <3>1. bs[i] = list[Len(list)] /\ bs[i + 1] = a
      BY <1>1, <2>1
    <3> QED BY <3>1
  <2>2. CASE i < Len(list)
    <3>1. bs[i] = list[i] /\ bs[i + 1] = list[i + 1] /\ i \in 1..Len(list) - 1
      BY <1>1, <2>2
    <3> QED BY <3>1 DEF ActsFollow
  <2> QED BY <1>1, <2>1, <2>2
<1>3. ActsFollow(bs, moves)
  BY <1>1, <1>2 DEF ActsFollow
<1> QED BY <1>1, <1>3 DEF bs

LEMMA ExitKeepsFsm == ASSUME FsmInv, ExitState PROVE FsmInv'
<1> DEFINE a == <<"exit", machine.current, machine.queue[fsmAt]>>
<1>1. /\ fsmPc = "loop" /\ fsmPc' = "exit" /\ fsmAt <= Len(machine.queue)
      /\ Here \in DOMAIN machine.moves /\ acts' = Append(acts, a)
      /\ UNCHANGED <<builder, machine, fsmAt, passed, given>>
  BY DEF ExitState
<1>2. /\ machine.current \in Nat /\ machine.queue \in Seq(FsmEvents)
      /\ fsmAt \in 1..Len(machine.queue) /\ acts \in Seq(Acts) /\ passed \in Seq(Nat \X FsmEvents)
  BY <1>1 DEF FsmInv, FsmTypes, Machines
<1>3. machine.queue # << >> /\ machine.queue[fsmAt] \in FsmEvents
  BY <1>2
<1>4. a \in Acts /\ a[1] = "exit" /\ a[2] = machine.current /\ a[3] = machine.queue[fsmAt]
  BY <1>2, <1>3 DEF Acts
<1> HIDE DEF a
<1>5. /\ acts # << >> /\ acts[Len(acts)][1] # "exit" /\ acts[Len(acts)][2] = machine.current
      /\ ActsFollow(acts, machine.moves)
  BY <1>1, <1>3 DEF FsmInv
<1>6. /\ ActsFollow(acts', machine.moves) /\ acts' \in Seq(Acts) /\ acts' # << >>
      /\ Len(acts') = Len(acts) + 1 /\ acts'[Len(acts')] = a
  <2>1. Follows(acts[Len(acts)], a, machine.moves)
    BY <1>4, <1>5 DEF Follows
  <2>2. Len(acts) # 0
    BY <1>2, <1>5
  <2>3. /\ ActsFollow(acts', machine.moves) /\ acts' \in Seq(Acts)
        /\ Len(acts') = Len(acts) + 1 /\ acts'[Len(acts')] = a
    BY <1>1, <1>2, <1>4, <1>5, <2>1, <2>2, ActsGoOn
  <2> QED BY <1>2, <2>3
<1>7. Dealt = fsmAt - 1 /\ Dealt' = fsmAt /\ Len(passed) \in Nat
  BY <1>1, <1>2 DEF Dealt
<1>8. FsmTypes'
  BY <1>1, <1>6 DEF FsmInv, FsmTypes
<1>9. Len(acts') = 2 * (Dealt' - Len(passed')) + 0
  BY <1>1, <1>2, <1>3, <1>6, <1>7 DEF FsmInv
<1>10. Here' \in DOMAIN machine'.moves
  BY <1>1 DEF Here
<1> QED BY <1>1, <1>2, <1>3, <1>4, <1>6, <1>8, <1>9, <1>10 DEF FsmInv

LEMMA EnterKeepsFsm == ASSUME FsmInv, EnterState PROVE FsmInv'
<1> DEFINE t == machine.moves[Here]
           a == <<"entry", t>>
<1>1. /\ fsmPc = "exit" /\ fsmPc' = "entry"
      /\ machine' = [machine EXCEPT !.current = t] /\ acts' = Append(acts, <<"entry", machine'.current>>)
      /\ UNCHANGED <<builder, fsmAt, passed, given>>
  BY DEF EnterState
<1>2. /\ machine \in Machines /\ fsmAt \in 1..Len(machine.queue) /\ machine.queue \in Seq(FsmEvents)
      /\ acts \in Seq(Acts) /\ passed \in Seq(Nat \X FsmEvents) /\ Here \in DOMAIN machine.moves
      /\ Here = <<machine.current, machine.queue[fsmAt]>>
  BY <1>1 DEF FsmInv, FsmTypes, Machines, Here
<1>3. t \in Nat
  <2>1. machine.moves \in Tables
    BY <1>2 DEF Machines
  <2>2. PICK pairs : machine.moves \in [pairs -> FsmStates]
    BY <2>1 DEF Tables
  <2> QED BY <1>2, <2>2, FsmAssumption
<1> HIDE DEF t
<1>4. /\ machine' \in Machines /\ machine'.current = t
      /\ machine'.moves = machine.moves /\ machine'.queue = machine.queue
  BY <1>1, <1>2, <1>3 DEF Machines
<1>5. a \in Acts /\ a[1] = "entry" /\ a[2] = t /\ acts' = Append(acts, a)
  BY <1>1, <1>3, <1>4 DEF Acts
<1>6. machine.queue # << >>
  BY <1>2
<1>7. /\ acts # << >> /\ acts[Len(acts)][1] = "exit" /\ acts[Len(acts)][2] = machine.current
      /\ acts[Len(acts)][3] = machine.queue[fsmAt] /\ ActsFollow(acts, machine.moves)
  BY <1>1, <1>6 DEF FsmInv
<1>8. a = <<"entry", machine.moves[<<acts[Len(acts)][2], acts[Len(acts)][3]>>]>>
  BY <1>2, <1>7 DEF t
<1> HIDE DEF a
<1>9. /\ ActsFollow(acts', machine.moves) /\ acts' \in Seq(Acts) /\ acts' # << >>
      /\ Len(acts') = Len(acts) + 1 /\ acts'[Len(acts')] = a
  <2>1. Follows(acts[Len(acts)], a, machine.moves)
    BY <1>7, <1>8 DEF Follows
  <2>2. Len(acts) # 0
    BY <1>2, <1>7
  <2>3. /\ ActsFollow(acts', machine.moves) /\ acts' \in Seq(Acts)
        /\ Len(acts') = Len(acts) + 1 /\ acts'[Len(acts')] = a
    BY <1>2, <1>5, <1>7, <2>1, <2>2, ActsGoOn
  <2> QED BY <1>2, <2>3
<1>10. Dealt = fsmAt /\ Dealt' = fsmAt /\ Len(passed) \in Nat
  BY <1>1, <1>2 DEF Dealt
<1>11. FsmTypes'
  BY <1>1, <1>4, <1>9 DEF FsmInv, FsmTypes
<1>12. Len(acts') = 2 * (Dealt' - Len(passed')) + 1
  BY <1>1, <1>2, <1>6, <1>9, <1>10 DEF FsmInv
<1>13. /\ \A i \in DOMAIN passed' : passed'[i] \notin DOMAIN machine'.moves
       /\ given' = machine'.queue
  BY <1>1, <1>4, <1>6 DEF FsmInv
<1> QED BY <1>1, <1>2, <1>4, <1>5, <1>6, <1>9, <1>11, <1>12, <1>13 DEF FsmInv

LEMMA EntryKeepsFsm == ASSUME FsmInv, EntryReturns PROVE FsmInv'
<1>1. /\ fsmPc = "entry" /\ fsmPc' = "loop" /\ fsmAt' = fsmAt + 1
      /\ UNCHANGED <<builder, machine, acts, passed, given>>
  BY DEF EntryReturns
<1>2. /\ machine.queue \in Seq(FsmEvents) /\ fsmAt \in 1..Len(machine.queue)
  BY <1>1 DEF FsmInv, FsmTypes, Machines
<1>3. Dealt = fsmAt /\ Dealt' = fsmAt
  BY <1>1, <1>2 DEF Dealt
<1>4. FsmTypes'
  BY <1>1, <1>2 DEF FsmInv, FsmTypes
<1> QED BY <1>1, <1>2, <1>3, <1>4 DEF FsmInv

LEMMA FsmReturnKeepsFsm == ASSUME FsmInv, FsmReturns PROVE FsmInv'
<1>1. /\ fsmPc = "loop" /\ fsmPc' = "idle" /\ fsmAt > Len(machine.queue) /\ fsmAt' = 0
      /\ machine' = [machine EXCEPT !.queue = << >>]
      /\ UNCHANGED <<builder, acts, passed, given>>
  BY DEF FsmReturns
<1>2. /\ machine \in Machines /\ machine.queue \in Seq(FsmEvents) /\ acts \in Seq(Acts)
      /\ passed \in Seq(Nat \X FsmEvents) /\ given \in Seq(FsmEvents)
      /\ fsmAt = Len(machine.queue) + 1
  BY <1>1 DEF FsmInv, FsmTypes, Machines
<1>3. /\ machine' \in Machines /\ machine'.current = machine.current
      /\ machine'.moves = machine.moves /\ machine'.queue = << >>
  <2>1. ASSUME NEW q \in Seq(FsmEvents)
        PROVE  LET m == [machine EXCEPT !.queue = q] IN
               /\ m \in Machines /\ m.current = machine.current
               /\ m.moves = machine.moves /\ m.queue = q
    BY <1>2 DEF Machines
  <2>2. << >> \in Seq(FsmEvents)
    OBVIOUS
  <2> QED BY <1>1, <2>1, <2>2
<1>4. Dealt = Len(machine.queue)
  BY <1>1, <1>2 DEF Dealt
<1>5. \/ given = << >> /\ acts = << >> /\ passed = << >>
      \/ Len(acts) = 2 * (Len(given) - Len(passed)) + 1
  BY <1>1, <1>2, <1>4 DEF FsmInv
<1>6. FsmTypes'
  BY <1>1, <1>3 DEF FsmInv, FsmTypes
<1> QED BY <1>1, <1>3, <1>5, <1>6 DEF FsmInv

LEMMA NextKeepsFsm == ASSUME FsmInv, [CallbacksNext]_callbackVars PROVE FsmInv'
<1>1. CASE UNCHANGED fsmVars
  BY <1>1 DEF FsmInv, FsmTypes, Dealt, Here, fsmVars
<1>2. CASE FsmNext
  BY <1>2, PassKeepsFsm, ExitKeepsFsm, EnterKeepsFsm, EntryKeepsFsm, FsmReturnKeepsFsm, RunKeepsFsm,
     BuildKeepsFsm, EnqueueKeepsFsm, StateCallsKeepFsm,
     AddTransitionKeepsFsm DEF FsmNext
<1> QED BY <1>1, <1>2 DEF CallbacksNext, Undefined, callbackVars

(* SPEC-020: for every table, every queue and every mix of calls to the     *)
(* builder, a machine leaves a state before it enters the one its table    *)
(* names, and a run deals with every event the machine was built with.      *)
THEOREM MachineFollowsTable == CallbacksSpec => []FsmFollowsTable
<1>1. ASSUME FsmInv PROVE FsmFollowsTable
  <2>1. acts \in Seq(Acts) /\ given \in Seq(FsmEvents) /\ passed \in Seq(Nat \X FsmEvents)
    BY <1>1 DEF FsmInv, FsmTypes
  <2>2. ASSUME machine.queue = << >>
        PROVE  Len(given) = Len(passed) + Len(acts) \div 2
    <3>1. /\ Len(given) \in Nat /\ Len(passed) \in Nat /\ Len(acts) \in Nat
      BY <2>1
    <3>2. CASE given = << >> /\ acts = << >> /\ passed = << >>
      BY <3>2
    <3>3. CASE Len(acts) = 2 * (Len(given) - Len(passed)) + 1
      BY <3>1, <3>3
    <3> QED BY <1>1, <2>2, <3>2, <3>3 DEF FsmInv
  <2> QED BY <1>1, <2>2 DEF FsmInv, FsmFollowsTable, ActsFollow, Follows
<1> QED BY <1>1, FsmInvHoldsFirst, NextKeepsFsm, PTL DEF CallbacksSpec

-----------------------------------------------------------------------------
(* The rule system. *)

Rule == [id : Nat, priority : Int]
ById == [r \in Rule |-> r.id]

(* How many slots the loop has been at. *)
Reached(w) == IF w.inside THEN w.at ELSE w.at - 1

(* Ids are given out in order, so rules of one priority stand in the order  *)
(* of their ids before and after every sort.  While the loop has slots to  *)
(* read, the list it sorted is there, and what it has evaluated is its      *)
(* beginning.                                                              *)
RuleInv ==
    /\ rules \in Seq(Rule) /\ nextRule \in Nat /\ WalkOK(ruleWalk) /\ evaluated \in Seq(Rule)
    /\ \A i \in DOMAIN rules : rules[i].id < nextRule
    /\ TiesInOrder(ById, rules)
    /\ InOrder(ById, evaluated)
    /\ ruleWalk # NoWalk =>
         /\ Len(evaluated) = Reached(ruleWalk)
         /\ ~wild /\ Reached(ruleWalk) < ruleWalk.upto =>
              /\ ruleWalk.upto <= Len(rules)
              /\ \A i, j \in 1..ruleWalk.upto : i < j => Precedes(ById, rules[i], rules[j])
              /\ \A i \in 1..Reached(ruleWalk) : evaluated[i] = rules[i]
         /\ ~wild => \A id \in present :
              \/ \E i \in DOMAIN evaluated : evaluated[i].id = id
              \/ \E i \in Reached(ruleWalk) + 1..ruleWalk.upto : rules[i].id = id

LEMMA RuleInvHoldsFirst == CallbacksInit => RuleInv
<1> SUFFICES ASSUME CallbacksInit PROVE RuleInv
  OBVIOUS
<1>1. rules = << >> /\ nextRule = 1 /\ evaluated = << >> /\ ruleWalk = NoWalk
  BY DEF CallbacksInit, RuleInit
<1>2. TiesInOrder(ById, rules) /\ InOrder(ById, evaluated)
  BY <1>1 DEF TiesInOrder, InOrder
<1> QED BY <1>1, <1>2, StandStill DEF RuleInv

LEMMA AddRuleKeepsRules == ASSUME RuleInv, NEW p \in Priorities, AddRule(p) PROVE RuleInv'
<1> DEFINE r == [id |-> nextRule, priority |-> p]
<1>1. /\ rules' = Append(rules, r) /\ nextRule' = nextRule + 1
      /\ UNCHANGED <<ruleWalk, evaluated, present>> /\ (wild => wild')
  BY DEF AddRule, PushMoves
<1>2. /\ rules \in Seq(Rule) /\ nextRule \in Nat /\ r \in Rule /\ r.id = nextRule
      /\ \A i \in DOMAIN rules : rules[i].id < nextRule /\ rules[i].id \in Nat /\ rules[i] \in Rule
  <2>1. rules \in Seq(Rule) /\ nextRule \in Nat /\ \A i \in DOMAIN rules : rules[i].id < nextRule
    BY DEF RuleInv
  <2>2. r \in Rule /\ r.id = nextRule
    BY <2>1, RuleAssumption DEF Rule
  <2>3. \A i \in DOMAIN rules : rules[i] \in Rule
    BY <2>1
  <2>4. \A s \in Rule : s.id \in Nat
    BY DEF Rule
  <2> QED BY <2>1, <2>2, <2>3, <2>4
<1> HIDE DEF r
<1>3. /\ rules' \in Seq(Rule) /\ Len(rules') = Len(rules) + 1 /\ rules'[Len(rules) + 1] = r
      /\ \A i \in 1..Len(rules) : rules'[i] = rules[i]
      /\ Len(rules) \in Nat /\ DOMAIN rules = 1..Len(rules) /\ DOMAIN rules' = 1..Len(rules) + 1
  BY <1>1, <1>2
<1>4. \A i \in DOMAIN rules' : rules'[i].id < nextRule'
  BY <1>1, <1>2, <1>3
<1>5. ASSUME NEW m \in DOMAIN rules', NEW n \in DOMAIN rules', m < n,
             rules'[m].priority = rules'[n].priority
      PROVE  ById[rules'[m]] < ById[rules'[n]]
  <2>1. m \in DOMAIN rules /\ rules'[m] = rules[m]
    BY <1>3, <1>5
  <2>2. CASE n = Len(rules) + 1
    BY <1>2, <1>3, <2>1, <2>2 DEF ById
  <2>3. CASE n \in DOMAIN rules
    BY <1>3, <1>5, <2>1, <2>3 DEF RuleInv, TiesInOrder
  <2> QED BY <1>3, <2>2, <2>3
<1>6. TiesInOrder(ById, rules')
  BY <1>5 DEF TiesInOrder
<1>7. ASSUME ruleWalk # NoWalk, ~wild', Reached(ruleWalk) < ruleWalk.upto
      PROVE  /\ ruleWalk.upto <= Len(rules')
             /\ \A i, j \in 1..ruleWalk.upto : i < j => Precedes(ById, rules'[i], rules'[j])
             /\ \A i \in 1..Reached(ruleWalk) : evaluated[i] = rules'[i]
  <2>1. /\ ruleWalk.upto <= Len(rules) /\ ruleWalk.upto \in Nat /\ Reached(ruleWalk) \in Nat
        /\ \A i, j \in 1..ruleWalk.upto : i < j => Precedes(ById, rules[i], rules[j])
        /\ \A i \in 1..Reached(ruleWalk) : evaluated[i] = rules[i]
    BY <1>1, <1>7 DEF RuleInv, WalkOK, Reached
  <2>2. \A i \in 1..ruleWalk.upto : rules'[i] = rules[i]
    BY <1>3, <2>1
  <2> QED BY <1>3, <1>7, <2>1, <2>2
<1>8. ASSUME ruleWalk # NoWalk, ~wild', NEW id \in present
      PROVE  \/ \E i \in DOMAIN evaluated : evaluated[i].id = id
             \/ \E i \in Reached(ruleWalk) + 1..ruleWalk.upto : rules'[i].id = id
  <2>1. CASE \E i \in DOMAIN evaluated : evaluated[i].id = id
    BY <2>1
  <2>2. CASE \E i \in Reached(ruleWalk) + 1..ruleWalk.upto : rules[i].id = id
    <3>1. PICK i \in Reached(ruleWalk) + 1..ruleWalk.upto : rules[i].id = id
      BY <2>2
    <3>2. Reached(ruleWalk) \in Nat /\ ruleWalk.upto \in Nat
      BY <1>8 DEF RuleInv, WalkOK, Reached
    <3>3. ruleWalk.upto <= Len(rules)
      BY <1>1, <1>8, <3>1, <3>2 DEF RuleInv
    <3>4. rules'[i] = rules[i]
      BY <1>3, <3>1, <3>2, <3>3
    <3> QED BY <3>1, <3>4
  <2> QED BY <1>1, <1>8, <2>1, <2>2 DEF RuleInv
<1>9. nextRule' \in Nat
  BY <1>1, <1>2
<1> QED BY <1>1, <1>3, <1>4, <1>6, <1>7, <1>8, <1>9 DEF RuleInv, WalkOK, Reached

LEMMA TiesStayInOrder ==
  ASSUME NEW rank, NEW T, NEW list \in Seq(T), NEW out, TiesInOrder(rank, list)
  PROVE  TiesInOrder(rank, TakeOut(list, out))
<1> DEFINE r == TakeOut(list, out)
<1>1. InOrderOf(r, list)
  BY TakeOutLeaves
<1> HIDE DEF r
<1>2. ASSUME NEW m \in DOMAIN r, NEW n \in DOMAIN r, m < n, r[m].priority = r[n].priority
      PROVE  rank[r[m]] < rank[r[n]]
  <2>1. PICK i, j \in DOMAIN list : i < j /\ r[m] = list[i] /\ r[n] = list[j]
    BY <1>1, <1>2 DEF InOrderOf
  <2> QED BY <1>2, <2>1 DEF TiesInOrder
<1> QED BY <1>2 DEF TiesInOrder, r

LEMMA RemoveRulesKeepsRules ==
  ASSUME RuleInv, NEW ids, RemoveRules(ids), ruleWalk = NoWalk \/ ruleWalk.inside
  PROVE  RuleInv'
<1> DEFINE out == {r \in ToSet(rules) : r.id \in ids}
<1>1. /\ rules' = TakeOut(rules, out) /\ present' = present \ ids
      /\ UNCHANGED <<nextRule, ruleWalk, evaluated>> /\ (wild => wild')
      /\ HasMore(ruleWalk) /\ ~wild' => rules' = rules
  BY DEF RemoveRules
<1> HIDE DEF out
<1>2. rules \in Seq(Rule) /\ TiesInOrder(ById, rules) /\ evaluated \in Seq(Rule)
  BY DEF RuleInv
<1>3. rules' \in Seq(Rule) /\ ToSet(rules') \subseteq ToSet(rules) /\ TiesInOrder(ById, rules')
  BY <1>1, <1>2, TakeOutLeaves, TiesStayInOrder
<1>4. \A i \in DOMAIN rules' : rules'[i].id < nextRule
  <2>1. ASSUME NEW i \in DOMAIN rules' PROVE \E j \in DOMAIN rules : rules'[i] = rules[j]
    BY <1>3 DEF ToSet
  <2> QED BY <2>1 DEF RuleInv
<1>5. ASSUME ruleWalk # NoWalk, ~wild', Reached(ruleWalk) < ruleWalk.upto
      PROVE  rules' = rules
  <2>1. HasMore(ruleWalk)
    BY <1>5 DEF HasMore, Reached
  <2> QED BY <1>1, <1>5, <2>1
<1>6. ASSUME ruleWalk # NoWalk, ~wild', NEW id \in present'
      PROVE  \/ \E i \in DOMAIN evaluated : evaluated[i].id = id
             \/ \E i \in Reached(ruleWalk) + 1..ruleWalk.upto : rules'[i].id = id
  <2>1. Reached(ruleWalk) \in Nat /\ ruleWalk.upto \in Nat
    BY <1>6 DEF RuleInv, WalkOK, Reached
  <2>2. CASE Reached(ruleWalk) < ruleWalk.upto
    BY <1>1, <1>5, <1>6, <2>2 DEF RuleInv
  <2>3. CASE ~(Reached(ruleWalk) < ruleWalk.upto)
    <3>1. Reached(ruleWalk) + 1..ruleWalk.upto = {}
      BY <2>1, <2>3
    <3> QED BY <1>1, <1>6, <3>1 DEF RuleInv
  <2> QED BY <2>2, <2>3
<1>7. ASSUME ruleWalk # NoWalk, ~wild', Reached(ruleWalk) < ruleWalk.upto
      PROVE  /\ ruleWalk.upto <= Len(rules')
             /\ \A i, j \in 1..ruleWalk.upto : i < j => Precedes(ById, rules'[i], rules'[j])
             /\ \A i \in 1..Reached(ruleWalk) : evaluated[i] = rules'[i]
  BY <1>1, <1>5, <1>7 DEF RuleInv
<1> QED BY <1>1, <1>3, <1>4, <1>6, <1>7 DEF RuleInv, WalkOK, Reached

LEMMA SortedRules ==
  ASSUME NEW list \in Seq(Rule), TiesInOrder(ById, list)
  PROVE  /\ StableSort(list) \in Seq(Rule) /\ Len(StableSort(list)) = Len(list)
         /\ ToSet(StableSort(list)) = ToSet(list)
         /\ InOrder(ById, StableSort(list))
BY StableSortSorts DEF Prioritized, Rule

LEMMA RunRulesKeepsRules == ASSUME RuleInv, RunRules PROVE RuleInv'
<1>1. /\ rules' = StableSort(rules) /\ ruleWalk' = WalkOver(rules') /\ evaluated' = << >>
      /\ present' = {rules[i].id : i \in DOMAIN rules} /\ UNCHANGED <<wild, nextRule>>
  BY DEF RunRules, ByPriority
<1>2. rules \in Seq(Rule) /\ TiesInOrder(ById, rules) /\ nextRule \in Nat
  BY DEF RuleInv
<1>3. /\ rules' \in Seq(Rule) /\ Len(rules') = Len(rules)
      /\ ToSet(rules') = ToSet(rules) /\ InOrder(ById, rules')
  BY <1>1, <1>2, SortedRules
<1>4. /\ WalkOK(ruleWalk') /\ ruleWalk' # NoWalk
      /\ ruleWalk'.at = 1 /\ ruleWalk'.upto = Len(rules') /\ ~ruleWalk'.inside
  BY <1>1, <1>3, SetOut
<1>5. Reached(ruleWalk') = 0
  BY <1>4 DEF Reached
<1>6. \A i \in DOMAIN rules' : rules'[i].id < nextRule
  <2>1. ASSUME NEW i \in DOMAIN rules' PROVE \E j \in DOMAIN rules : rules'[i] = rules[j]
    BY <1>3 DEF ToSet
  <2> QED BY <2>1 DEF RuleInv
<1>7. TiesInOrder(ById, rules')
  <2>1. ASSUME NEW m \in DOMAIN rules', NEW n \in DOMAIN rules', m < n,
               rules'[m].priority = rules'[n].priority
        PROVE  ById[rules'[m]] < ById[rules'[n]]
    <3>1. Precedes(ById, rules'[m], rules'[n])
      BY <1>3, <2>1 DEF InOrder
    <3>2. rules'[m].priority \in Int
      <4>1. rules'[m] \in Rule
        BY <1>3
      <4>2. \A x \in Rule : x.priority \in Int
        BY DEF Rule
      <4> QED BY <4>1, <4>2
    <3> QED BY <2>1, <3>1, <3>2 DEF Precedes
  <2> QED BY <2>1 DEF TiesInOrder
<1>8. /\ DOMAIN rules' = 1..Len(rules')
      /\ \A i, j \in 1..Len(rules') : i < j => Precedes(ById, rules'[i], rules'[j])
  BY <1>3 DEF InOrder
<1>9. ASSUME NEW id \in present' PROVE \E i \in 1..Len(rules') : rules'[i].id = id
  <2>1. PICK i \in DOMAIN rules : rules[i].id = id
    BY <1>1
  <2>2. \E j \in DOMAIN rules' : rules'[j] = rules[i]
    BY <1>3 DEF ToSet
  <2> QED BY <1>8, <2>1, <2>2
<1>10. Len(evaluated') = 0 /\ evaluated' \in Seq(Rule) /\ InOrder(ById, evaluated')
  BY <1>1 DEF InOrder
<1>11. 0 + 1 = 1 /\ 1..0 = {}
  OBVIOUS
<1>12. \A i \in 1..Reached(ruleWalk') : evaluated'[i] = rules'[i]
  BY <1>5, <1>11
<1>13. \A id \in present' : \E i \in Reached(ruleWalk') + 1..ruleWalk'.upto : rules'[i].id = id
  BY <1>4, <1>5, <1>9, <1>11
<1>14. NoWalk' = NoWalk /\ Reached(ruleWalk)' = Reached(ruleWalk') /\ WalkOK(ruleWalk)'
  BY <1>4 DEF WalkOK, Reached
<1> QED BY <1>1, <1>2, <1>3, <1>4, <1>5, <1>6, <1>7, <1>8, <1>10, <1>12, <1>13, <1>14 DEF RuleInv

(* The rule that is evaluated comes, in the sorted list, behind all that    *)
(* have been.                                                              *)
LEMMA EvaluateKeepsRules == ASSUME RuleInv, EvaluateRule, ~wild PROVE RuleInv'
<1> DEFINE n == ruleWalk.at
<1>1. /\ evaluated' = Append(evaluated, rules[n]) /\ ruleWalk' = Enter(ruleWalk)
      /\ CanEnter(ruleWalk) /\ UNCHANGED <<wild, rules, nextRule, present>>
  BY DEF EvaluateRule
<1>2. /\ WalkOK(ruleWalk') /\ ruleWalk' # NoWalk /\ ruleWalk # NoWalk
      /\ ruleWalk'.at = n /\ ruleWalk'.upto = ruleWalk.upto /\ ruleWalk'.inside
      /\ n \in 1..ruleWalk.upto /\ ~ruleWalk.inside /\ ruleWalk.upto \in Nat
  BY <1>1, StepIn DEF RuleInv, CanEnter, WalkOK
<1> HIDE DEF n
<1>3. Reached(ruleWalk) = n - 1 /\ Reached(ruleWalk') = n
  BY <1>2 DEF Reached, n
<1>4. /\ rules \in Seq(Rule) /\ evaluated \in Seq(Rule) /\ Len(evaluated) = n - 1
      /\ ruleWalk.upto <= Len(rules) /\ InOrder(ById, evaluated)
      /\ \A i, j \in 1..ruleWalk.upto : i < j => Precedes(ById, rules[i], rules[j])
      /\ \A i \in 1..n - 1 : evaluated[i] = rules[i]
  BY <1>2, <1>3 DEF RuleInv
<1>5. rules[n] \in Rule
  BY <1>2, <1>4
<1>6. /\ evaluated' \in Seq(Rule) /\ Len(evaluated') = n /\ DOMAIN evaluated' = 1..n
      /\ \A i \in 1..n : evaluated'[i] = rules[i]
  BY <1>1, <1>2, <1>4, <1>5
<1>7. InOrder(ById, evaluated')
  <2>1. \A i \in 1..n : i \in 1..ruleWalk.upto
    BY <1>2
  <2> QED BY <1>4, <1>6, <2>1 DEF InOrder
<1>8. ASSUME NEW id \in present'
      PROVE  \/ \E i \in DOMAIN evaluated' : evaluated'[i].id = id
             \/ \E i \in n + 1..ruleWalk.upto : rules'[i].id = id
  <2>1. \/ \E i \in DOMAIN evaluated : evaluated[i].id = id
        \/ \E i \in n..ruleWalk.upto : rules[i].id = id
    <3>1. (n - 1) + 1 = n
      BY <1>2
    <3> QED BY <1>1, <1>2, <1>3, <3>1 DEF RuleInv
  <2>2. CASE \E i \in DOMAIN evaluated : evaluated[i].id = id
    <3>1. PICK i \in 1..n - 1 : evaluated[i].id = id
      BY <1>4, <2>2
    <3>2. i \in 1..n /\ evaluated'[i] = evaluated[i]
      BY <1>2, <1>4, <1>6, <3>1
    <3> QED BY <1>6, <3>1, <3>2
  <2>3. CASE \E i \in n..ruleWalk.upto : rules[i].id = id
    <3>1. PICK i \in n..ruleWalk.upto : rules[i].id = id
      BY <2>3
    <3>2. CASE i = n
      BY <1>2, <1>6, <3>1, <3>2
    <3>3. CASE i # n
      <4>1. i \in n + 1..ruleWalk.upto
        BY <1>2, <3>1, <3>3
      <4> QED BY <1>1, <3>1, <4>1
    <3> QED BY <3>2, <3>3
  <2> QED BY <2>1, <2>2, <2>3
<1>9. NoWalk' = NoWalk /\ Reached(ruleWalk)' = Reached(ruleWalk') /\ WalkOK(ruleWalk)'
  BY <1>2 DEF WalkOK, Reached
<1>10. \A i \in DOMAIN rules' : rules'[i].id < nextRule'
  BY <1>1 DEF RuleInv
<1>11. TiesInOrder(ById, rules') /\ nextRule' \in Nat /\ rules' \in Seq(Rule)
  BY <1>1 DEF RuleInv
<1> QED BY <1>1, <1>2, <1>3, <1>4, <1>6, <1>7, <1>8, <1>9, <1>10, <1>11 DEF RuleInv

LEMMA DoneKeepsRules == ASSUME RuleInv, RuleDone PROVE RuleInv'
<1>1. /\ ruleWalk' = Leave(ruleWalk) /\ ruleWalk.inside
      /\ UNCHANGED <<wild, rules, nextRule, evaluated, present>>
  BY DEF RuleDone
<1>2. /\ WalkOK(ruleWalk') /\ ruleWalk' # NoWalk /\ ruleWalk # NoWalk
      /\ ruleWalk'.at = ruleWalk.at + 1 /\ ruleWalk'.upto = ruleWalk.upto /\ ~ruleWalk'.inside
      /\ ruleWalk.at \in 1..ruleWalk.upto
  BY <1>1, StepOut DEF RuleInv
<1>3. Reached(ruleWalk') = Reached(ruleWalk)
  BY <1>1, <1>2 DEF Reached
<1>4. NoWalk' = NoWalk /\ Reached(ruleWalk)' = Reached(ruleWalk') /\ WalkOK(ruleWalk)'
  BY <1>2 DEF WalkOK, Reached
<1> QED BY <1>1, <1>2, <1>3, <1>4 DEF RuleInv

LEMMA ReturnKeepsRules == ASSUME RuleInv, RulesReturn PROVE RuleInv'
BY StandStill DEF RuleInv, RulesReturn, WalkOK

LEMMA NextKeepsRules == ASSUME RuleInv, [CallbacksNext]_callbackVars PROVE RuleInv'
<1>1. CASE UNCHANGED ruleVars /\ (wild => wild')
  BY <1>1 DEF RuleInv, WalkOK, Reached, ruleVars
<1>2. CASE RuleNext
  BY <1>2, AddRuleKeepsRules, RemoveRulesKeepsRules, RunRulesKeepsRules, EvaluateKeepsRules,
     DoneKeepsRules, ReturnKeepsRules DEF RuleNext
<1> QED BY <1>1, <1>2, WildForGood DEF CallbacksNext, Undefined, callbackVars

(* SPEC-021: for every list of rules and whatever their actions add and     *)
(* remove, a run evaluates by falling priority and age, none twice, and    *)
(* leaves out only rules that were removed meanwhile.                       *)
THEOREM RulesAreOrdered == CallbacksSpec => []RulesInOrder
<1>1. ASSUME RuleInv PROVE RulesInOrder
  <2>1. evaluated \in Seq(Rule) /\ InOrder(ById, evaluated)
    BY <1>1 DEF RuleInv
  <2>2. ASSUME NEW i \in DOMAIN evaluated, NEW j \in DOMAIN evaluated, i < j
        PROVE  \/ evaluated[i].priority > evaluated[j].priority
               \/ /\ evaluated[i].priority = evaluated[j].priority
                  /\ evaluated[i].id < evaluated[j].id
    <3>1. evaluated[i] \in Rule /\ evaluated[j] \in Rule
      BY <2>1
    <3>2. Precedes(ById, evaluated[i], evaluated[j])
      BY <2>1, <2>2 DEF InOrder
    <3> QED BY <3>1, <3>2 DEF Precedes, ById
  <2>3. ASSUME ~wild, ruleWalk.at # 0, WalkedOut(ruleWalk)
        PROVE  present \subseteq {evaluated[i].id : i \in DOMAIN evaluated}
    <3>1. ruleWalk # NoWalk
      BY <2>3 DEF NoWalk
    <3>2. Reached(ruleWalk) + 1..ruleWalk.upto = {}
      BY <1>1, <2>3, <3>1 DEF RuleInv, WalkOK, WalkedOut, Reached
    <3>3. \A id \in present : \E i \in DOMAIN evaluated : evaluated[i].id = id
      BY <1>1, <2>3, <3>1, <3>2 DEF RuleInv
    <3> QED BY <3>3
  <2> QED BY <2>2, <2>3 DEF RulesInOrder
<1> QED BY <1>1, RuleInvHoldsFirst, NextKeepsRules, PTL DEF CallbacksSpec

-----------------------------------------------------------------------------
(* The event loop. *)

Event    == [number : Nat, type : EventTypes]
Handlers == [EventTypes -> Seq(Nat)]
CallSeqs == Seq(Nat \X Nat)

(* The calls for the event e. *)
CallsFor(by, e) == [j \in 1..Len(by[e.type]) |-> <<e.number, by[e.type][j]>>]

LEMMA CallsExist ==
  ASSUME NEW by, NEW list, Len(list) \in Nat
  PROVE  Calls(by, list) = [n \in 0..Len(list) |->
           IF n = 0 THEN << >> ELSE Calls(by, list)[n - 1] \o CallsFor(by, list[n])]
<1> DEFINE More(s, n) == s \o CallsFor(by, list[n])
           Body(f, m) == [n \in 0..m |-> IF n = 0 THEN << >> ELSE More(f[n - 1], n)]
           S == {m \in Nat : \E f : f = Body(f, m)}
<1>1. 0 \in S
  <2> DEFINE f == [n \in 0..0 |-> << >>]
  <2>1. f = Body(f, 0)
    OBVIOUS
  <2> QED BY <2>1
<1>2. ASSUME NEW m \in Nat, m \in S PROVE m + 1 \in S
  <2>1. PICK f : f = Body(f, m)
    BY <1>2
  <2> DEFINE g == [n \in 0..(m + 1) |-> IF n <= m THEN f[n] ELSE More(f[m], m + 1)]
  <2> HIDE DEF More
  <2>2. ASSUME NEW n \in 0..(m + 1)
        PROVE  g[n] = IF n = 0 THEN << >> ELSE More(g[n - 1], n)
    <3>1. CASE n = 0
      BY <2>1, <3>1
    <3>2. CASE n \in 1..m
      <4>1. g[n] = f[n] /\ g[n - 1] = f[n - 1]
        BY <3>2
      <4>2. f[n] = More(f[n - 1], n)
        BY <2>1, <3>2
      <4> QED BY <3>2, <4>1, <4>2
    <3>3. CASE n = m + 1
      <4>1. g[n] = More(f[m], m + 1) /\ g[n - 1] = f[m]
        BY <3>3
      <4> QED BY <3>3, <4>1
    <3> QED BY <3>1, <3>2, <3>3
  <2>3. g = Body(g, m + 1)
    BY <2>2
  <2> HIDE DEF g
  <2>4. \E f1 : f1 = Body(f1, m + 1)
    BY <2>3
  <2> QED BY <2>4
<1> HIDE DEF S
<1>3. Len(list) \in S
  BY <1>1, <1>2, NumberInduction
<1>4. \E f : f = Body(f, Len(list))
  BY <1>3 DEF S
<1> QED BY <1>4 DEF Calls, CallsFor, More

(* The calls for n events are those for n - 1 and then those for the n-th. *)
CallsGrow(by, list, n) ==
    LET before == Calls(by, list)[n - 1]
        after  == Calls(by, list)[n]
    IN /\ Len(after) = Len(before) + Len(by[list[n].type])
       /\ \A k \in 1..Len(before) : after[k] = before[k]
       /\ \A j \in 1..Len(by[list[n].type]) :
            after[Len(before) + j] = <<list[n].number, by[list[n].type][j]>>

LEMMA CallsAreCalls ==
  ASSUME NEW by \in Handlers, NEW list \in Seq(Event)
  PROVE  /\ Calls(by, list)[0] = << >>
         /\ \A n \in 0..Len(list) : Calls(by, list)[n] \in CallSeqs
         /\ \A n \in 1..Len(list) : CallsGrow(by, list, n)
<1> DEFINE f == Calls(by, list)
           S == {n \in Nat : n <= Len(list) => f[n] \in CallSeqs}
<1>1. Len(list) \in Nat
  OBVIOUS
<1>2. f = [n \in 0..Len(list) |-> IF n = 0 THEN << >> ELSE f[n - 1] \o CallsFor(by, list[n])]
  BY <1>1, CallsExist
<1> HIDE DEF f
<1>3. f[0] = << >>
  BY <1>1, <1>2
<1>4. ASSUME NEW n \in 1..Len(list)
      PROVE  /\ f[n] = f[n - 1] \o CallsFor(by, list[n])
             /\ CallsFor(by, list[n]) \in CallSeqs
             /\ Len(CallsFor(by, list[n])) = Len(by[list[n].type])
             /\ \A j \in 1..Len(by[list[n].type]) :
                  CallsFor(by, list[n])[j] = <<list[n].number, by[list[n].type][j]>>
  <2> DEFINE e == list[n]
  <2>1. f[n] = f[n - 1] \o CallsFor(by, e)
    BY <1>1, <1>2
  <2>2. e \in Event
    BY <1>1
  <2> HIDE DEF e
  <2>3. e.number \in Nat /\ by[e.type] \in Seq(Nat)
    BY <2>2 DEF Event, Handlers
  <2> DEFINE h == by[e.type]
             c == [j \in 1..Len(h) |-> <<e.number, h[j]>>]
  <2>4. h \in Seq(Nat) /\ Len(h) \in Nat /\ \A j \in 1..Len(h) : h[j] \in Nat
    BY <2>3
  <2> HIDE DEF h
  <2>5. c \in CallSeqs /\ Len(c) = Len(h) /\ \A j \in 1..Len(h) : c[j] = <<e.number, h[j]>>
    BY <2>3, <2>4 DEF CallSeqs
  <2>6. CallsFor(by, e) = c
    BY DEF CallsFor, h
  <2> QED BY <2>1, <2>5, <2>6 DEF e, h
<1>5. 0 \in S
  <2>1. << >> \in CallSeqs
    BY DEF CallSeqs
  <2> QED BY <1>3, <2>1
<1>6. ASSUME NEW n \in Nat, n \in S PROVE n + 1 \in S
  <2> SUFFICES ASSUME n + 1 <= Len(list) PROVE f[n + 1] \in CallSeqs
    OBVIOUS
  <2>1. f[n] \in CallSeqs /\ n + 1 \in 1..Len(list) /\ (n + 1) - 1 = n
    BY <1>1, <1>6
  <2>2. f[n + 1] = f[n] \o CallsFor(by, list[n + 1]) /\ CallsFor(by, list[n + 1]) \in CallSeqs
    BY <1>4, <2>1
  <2> QED BY <2>1, <2>2 DEF CallSeqs
<1> HIDE DEF S
<1>7. \A n \in Nat : n \in S
  BY <1>5, <1>6, NumberInduction
<1>8. \A n \in 0..Len(list) : f[n] \in CallSeqs
  BY <1>1, <1>7 DEF S
<1>9. ASSUME NEW n \in 1..Len(list) PROVE CallsGrow(by, list, n)
  <2> DEFINE before == f[n - 1]
             own == CallsFor(by, list[n])
  <2>1. before \in CallSeqs /\ own \in CallSeqs /\ f[n] = before \o own
    <3>1. n - 1 \in 0..Len(list)
      BY <1>1
    <3> QED BY <1>4, <1>8, <3>1
  <2>2. /\ Len(own) = Len(by[list[n].type])
        /\ \A j \in 1..Len(own) : own[j] = <<list[n].number, by[list[n].type][j]>>
    BY <1>4
  <2> HIDE DEF before, own
  <2>3. /\ Len(before) \in Nat /\ Len(own) \in Nat
        /\ Len(before \o own) = Len(before) + Len(own)
        /\ \A k \in 1..(Len(before) + Len(own)) :
             (before \o own)[k] = IF k <= Len(before) THEN before[k] ELSE own[k - Len(before)]
    <3>1. before \in Seq(Nat \X Nat) /\ own \in Seq(Nat \X Nat)
      BY <2>1 DEF CallSeqs
    <3>2. Len(before) \in Nat /\ Len(own) \in Nat
      BY <3>1
    <3> QED BY <3>1, <3>2, Appended
  <2>4. \A k \in 1..Len(before) : (before \o own)[k] = before[k]
    BY <2>3
  <2>5. ASSUME NEW j \in 1..Len(own) PROVE (before \o own)[Len(before) + j] = own[j]
    <3>1. Len(before) + j \in 1..(Len(before) + Len(own)) /\ ~(Len(before) + j <= Len(before))
      BY <2>3
    <3>2. (Len(before) + j) - Len(before) = j
      BY <2>3
    <3> QED BY <2>3, <3>1, <3>2
  <2> QED BY <2>1, <2>2, <2>3, <2>4, <2>5 DEF CallsGrow, before, f
<1> QED BY <1>3, <1>8, <1>9 DEF f

(* What is to be called for the first n events is the beginning of what is *)
(* to be called for m.                                                     *)
LEMMA CallsArePrefixes ==
  ASSUME NEW by \in Handlers, NEW list \in Seq(Event), NEW n \in 0..Len(list), NEW m \in n..Len(list)
  PROVE  /\ Len(Calls(by, list)[n]) <= Len(Calls(by, list)[m])
         /\ \A k \in 1..Len(Calls(by, list)[n]) : Calls(by, list)[m][k] = Calls(by, list)[n][k]
<1> DEFINE f == Calls(by, list)
           Within(i) == /\ Len(f[n]) <= Len(f[i])
                        /\ \A k \in 1..Len(f[n]) : f[i][k] = f[n][k]
           S == {d \in Nat : n + d <= Len(list) => Within(n + d)}
<1>1. /\ Len(list) \in Nat /\ \A i \in 0..Len(list) : f[i] \in CallSeqs /\ Len(f[i]) \in Nat
      /\ \A i \in 1..Len(list) : CallsGrow(by, list, i)
  BY CallsAreCalls DEF CallSeqs
<1>2. \A i \in 1..Len(list) :
        /\ Len(f[i - 1]) <= Len(f[i])
        /\ \A k \in 1..Len(f[i - 1]) : f[i][k] = f[i - 1][k]
  <2> SUFFICES ASSUME NEW i \in 1..Len(list)
               PROVE  /\ Len(f[i - 1]) <= Len(f[i])
                      /\ \A k \in 1..Len(f[i - 1]) : f[i][k] = f[i - 1][k]
    OBVIOUS
  <2>1. list[i] \in Event
    BY <1>1
  <2>2. Len(by[list[i].type]) \in Nat
    BY <2>1 DEF Event, Handlers
  <2>3. i - 1 \in 0..Len(list) /\ Len(f[i - 1]) \in Nat
    BY <1>1
  <2>4. CallsGrow(by, list, i)
    BY <1>1
  <2>5. /\ Len(f[i]) = Len(f[i - 1]) + Len(by[list[i].type])
        /\ \A k \in 1..Len(f[i - 1]) : f[i][k] = f[i - 1][k]
    BY <2>4 DEF CallsGrow
  <2> DEFINE more == Len(by[list[i].type])
             less == Len(f[i - 1])
             all  == Len(f[i])
  <2>6. more \in Nat /\ less \in Nat /\ all = less + more
    BY <2>2, <2>3, <2>5
  <2> HIDE DEF more, less, all
  <2>7. less <= all
    BY <2>6
  <2> QED BY <2>5, <2>7 DEF less, all
<1> HIDE DEF f
<1>3. 0 \in S
  BY <1>1
<1>4. ASSUME NEW d \in Nat, d \in S PROVE d + 1 \in S
  <2> SUFFICES ASSUME n + (d + 1) <= Len(list) PROVE Within(n + (d + 1))
    OBVIOUS
  <2> DEFINE i == n + (d + 1)
  <2>1. i \in 1..Len(list) /\ i - 1 = n + d /\ i - 1 \in 0..Len(list)
    BY <1>1
  <2>2. Within(i - 1)
    BY <1>1, <1>4, <2>1
  <2> HIDE DEF i
  <2>3. /\ Len(f[i - 1]) <= Len(f[i]) /\ Len(f[i - 1]) \in Nat /\ Len(f[i]) \in Nat /\ Len(f[n]) \in Nat
        /\ \A k \in 1..Len(f[i - 1]) : f[i][k] = f[i - 1][k]
    <3>1. i \in 0..Len(list)
      BY <1>1, <2>1
    <3>2. \A h \in 0..Len(list) : Len(f[h]) \in Nat
      BY <1>1
    <3> QED BY <1>2, <2>1, <3>1, <3>2
  <2>4. Within(i)
    <3> DEFINE first == f[n]
               before == f[i - 1]
               after == f[i]
    <3>1. /\ Len(first) <= Len(before)
          /\ \A k \in 1..Len(first) : before[k] = first[k]
      BY <2>2
    <3>2. /\ Len(before) <= Len(after) /\ Len(before) \in Nat /\ Len(after) \in Nat
          /\ Len(first) \in Nat
          /\ \A k \in 1..Len(before) : after[k] = before[k]
      BY <2>3
    <3> HIDE DEF first, before, after
    <3>3. Len(first) <= Len(after)
      BY <3>1, <3>2
    <3>4. ASSUME NEW k \in 1..Len(first) PROVE after[k] = first[k]
      <4>1. k \in 1..Len(before)
        BY <3>1, <3>2
      <4> QED BY <3>1, <3>2, <4>1
    <3> QED BY <3>3, <3>4 DEF first, after
  <2> QED BY <2>4 DEF i
<1> HIDE DEF S, Within
<1>5. m - n \in Nat /\ n + (m - n) = m
  BY <1>1
<1>6. m - n \in S
  BY <1>3, <1>4, <1>5, NumberInduction
<1>7. Within(m)
  BY <1>1, <1>5, <1>6 DEF S
<1> QED BY <1>7 DEF Within, f

(* An event that is put behind others does not change what they are to call.*)
LEMMA CallsOfLonger ==
  ASSUME NEW by \in Handlers, NEW list \in Seq(Event), NEW e \in Event, NEW n \in 0..Len(list)
  PROVE  Calls(by, Append(list, e))[n] = Calls(by, list)[n]
<1> DEFINE more == Append(list, e)
           f == Calls(by, list)
           g == Calls(by, more)
           S == {i \in Nat : i <= Len(list) => g[i] = f[i]}
<1>1. /\ more \in Seq(Event) /\ Len(more) = Len(list) + 1 /\ Len(list) \in Nat
      /\ \A i \in 1..Len(list) : more[i] = list[i]
  OBVIOUS
<1> HIDE DEF more
<1>2. f = [i \in 0..Len(list) |-> IF i = 0 THEN << >> ELSE f[i - 1] \o CallsFor(by, list[i])]
  <2>1. Len(list) \in Nat
    BY <1>1
  <2> QED BY <2>1, CallsExist
<1>3. g = [i \in 0..Len(more) |-> IF i = 0 THEN << >> ELSE g[i - 1] \o CallsFor(by, more[i])]
  <2>1. Len(more) \in Nat
    BY <1>1
  <2> QED BY <2>1, CallsExist
<1> HIDE DEF f, g
<1>4. 0 \in S
  BY <1>1, <1>2, <1>3
<1>5. ASSUME NEW i \in Nat, i \in S PROVE i + 1 \in S
  <2> SUFFICES ASSUME i + 1 <= Len(list) PROVE g[i + 1] = f[i + 1]
    OBVIOUS
  <2>1. i + 1 \in 0..Len(list) /\ i + 1 \in 0..Len(more) /\ i + 1 # 0 /\ (i + 1) - 1 = i
    BY <1>1
  <2>2. f[i + 1] = f[i] \o CallsFor(by, list[i + 1])
    BY <1>2, <2>1
  <2>3. g[i + 1] = g[i] \o CallsFor(by, more[i + 1])
    BY <1>3, <2>1
  <2>4. more[i + 1] = list[i + 1] /\ g[i] = f[i]
    BY <1>1, <1>5, <2>1
  <2> QED BY <2>2, <2>3, <2>4
<1> HIDE DEF S
<1>6. n \in S
  <2>1. n \in Nat
    BY <1>1
  <2> QED BY <1>4, <1>5, <2>1, NumberInduction
<1> QED BY <1>1, <1>6 DEF S, f, g, more

CallsNow == Calls(loops[running], pending)

EventKinds ==
    /\ onHandlers \in Handlers /\ loops \in Seq(Handlers) /\ nextHandler \in Nat
    /\ pending \in Seq(Event) /\ posted \in Nat /\ running \in 0..Len(loops)
    /\ handled \in CallSeqs /\ expected \in CallSeqs

(* How the two loops stand: the inner one is over the handlers of the event *)
(* that the outer one is at.                                               *)
LoopsNest ==
    /\ WalkOK(eventWalk) /\ WalkOK(handlerWalk)
    /\ running = 0 => eventWalk = NoWalk
    /\ ~eventWalk.inside => handlerWalk = NoWalk
    /\ running # 0 => eventWalk # NoWalk /\ eventWalk.upto <= Len(pending)
    /\ eventWalk.inside =>
         /\ handlerWalk # NoWalk
         /\ handlerWalk.upto = Len(loops[running][pending[eventWalk.at].type])

(* The handlers called are those of the events before the one the loop is  *)
(* at, and those of this one that the inner loop has reached.              *)
CalledSoFar ==
    /\ Len(handled) <= Len(expected)
    /\ \A k \in 1..Len(handled) : handled[k] = expected[k]
    /\ running = 0 => handled = expected
    /\ running # 0 =>
         /\ expected = CallsNow[eventWalk.upto]
         /\ Len(handled) = Len(CallsNow[eventWalk.at - 1])
                             + (IF eventWalk.inside THEN Reached(handlerWalk) ELSE 0)

(* No event is forgotten: those in the queue of a running loop have been   *)
(* looked at, are still before it, or were enqueued by its handlers.       *)
LookedAfter ==
    /\ \A n \in 1..posted :
         n \in insider \cup offered \cup {pending[i].number : i \in DOMAIN pending}
    /\ running # 0 => \A i \in DOMAIN pending :
         /\ i > eventWalk.upto => pending[i].number \in insider
         /\ i < eventWalk.at \/ (i = eventWalk.at /\ eventWalk.inside)
              => pending[i].number \in offered

LoopInv == EventKinds /\ LoopsNest /\ CalledSoFar /\ LookedAfter
LEMMA LoopInvHoldsFirst == CallbacksInit => LoopInv
<1> SUFFICES ASSUME CallbacksInit PROVE LoopInv
  OBVIOUS
<1>1. /\ onHandlers = NoHandlers /\ nextHandler = 1 /\ loops = << >> /\ pending = << >> /\ posted = 0
      /\ running = 0 /\ eventWalk = NoWalk /\ handlerWalk = NoWalk
      /\ handled = << >> /\ expected = << >>
  BY DEF CallbacksInit, EventInit
<1>2. EventKinds
  BY <1>1 DEF EventKinds, Handlers, NoHandlers, CallSeqs
<1>3. LoopsNest
  BY <1>1, StandStill DEF LoopsNest
<1>4. CalledSoFar /\ LookedAfter
  BY <1>1 DEF CalledSoFar, LookedAfter
<1> QED BY <1>2, <1>3, <1>4 DEF LoopInv

(* What a running loop has: the handlers of its controller, and the event  *)
(* it is at.                                                               *)
LEMMA InLoop ==
  ASSUME EventKinds, LoopsNest, running # 0
  PROVE  /\ loops[running] \in Handlers
         /\ eventWalk.upto \in 0..Len(pending) /\ eventWalk.at \in 1..eventWalk.upto + 1
         /\ eventWalk.at - 1 \in 0..Len(pending)
         /\ eventWalk.at <= eventWalk.upto =>
              /\ eventWalk.at \in 1..Len(pending) /\ pending[eventWalk.at] \in Event
              /\ loops[running][pending[eventWalk.at].type] \in Seq(Nat)
<1>1. loops[running] \in Handlers /\ pending \in Seq(Event) /\ Len(pending) \in Nat
  <2>1. loops \in Seq(Handlers) /\ running \in 1..Len(loops) /\ pending \in Seq(Event)
    BY DEF EventKinds
  <2> QED BY <2>1
<1>2. /\ eventWalk.upto \in 0..Len(pending) /\ eventWalk.at \in 1..eventWalk.upto + 1
      /\ eventWalk.at - 1 \in 0..Len(pending)
  BY <1>1 DEF LoopsNest, WalkOK
<1>3. ASSUME eventWalk.at <= eventWalk.upto
      PROVE  /\ eventWalk.at \in 1..Len(pending) /\ pending[eventWalk.at] \in Event
             /\ loops[running][pending[eventWalk.at].type] \in Seq(Nat)
  <2>1. eventWalk.at \in 1..Len(pending)
    BY <1>1, <1>2, <1>3
  <2>2. pending[eventWalk.at] \in Event
    BY <1>1, <2>1
  <2>3. pending[eventWalk.at].type \in EventTypes
    BY <2>2 DEF Event
  <2> QED BY <1>1, <2>1, <2>2, <2>3 DEF Handlers
<1> QED BY <1>1, <1>2, <1>3

(* Steps that leave the loop and its queue alone. *)
LEMMA LoopStays ==
  ASSUME LoopInv, EventKinds', UNCHANGED <<pending, posted, insider, runVars>>,
         running # 0 => loops'[running] = loops[running]
  PROVE  LoopInv'
<1>1. UNCHANGED <<running, eventWalk, handlerWalk, offered, handled, expected>>
  BY DEF runVars
<1>2. running # 0 => CallsNow' = CallsNow
  BY <1>1 DEF CallsNow
<1>3. LoopsNest'
  <2>1. eventWalk.inside => running # 0
    BY StandStill DEF LoopInv, LoopsNest
  <2> QED BY <1>1, <2>1 DEF LoopInv, LoopsNest, WalkOK
<1>4. CalledSoFar'
  BY <1>1, <1>2 DEF LoopInv, CalledSoFar, Reached
<1>5. LookedAfter'
  BY <1>1 DEF LoopInv, LookedAfter
<1> QED BY <1>3, <1>4, <1>5 DEF LoopInv

LEMMA RegisteringKeepsLoop ==
  ASSUME LoopInv,
         \/ \E t \in EventTypes : On(t)
         \/ \E id \in 1..MaxOn : Off(id)
         \/ BuildLoop
  PROVE  LoopInv'
<1>1. /\ onHandlers \in Handlers /\ loops \in Seq(Handlers) /\ nextHandler \in Nat
      /\ pending \in Seq(Event) /\ posted \in Nat /\ running \in 0..Len(loops)
      /\ handled \in CallSeqs /\ expected \in CallSeqs
  BY DEF LoopInv, EventKinds
<1>2. ASSUME NEW t \in EventTypes, On(t) PROVE LoopInv'
  <2>1. /\ onHandlers' = [onHandlers EXCEPT ![t] = Append(@, nextHandler)]
        /\ nextHandler' = nextHandler + 1
        /\ UNCHANGED <<loops, pending, posted, insider, runVars>>
    BY <1>2 DEF On
  <2>2. onHandlers' \in Handlers
    <3>1. onHandlers[t] \in Seq(Nat)
      BY <1>1 DEF Handlers
    <3>2. Append(onHandlers[t], nextHandler) \in Seq(Nat)
      BY <1>1, <3>1
    <3> QED BY <1>1, <2>1, <3>2 DEF Handlers
  <2>3. EventKinds'
    BY <1>1, <2>1, <2>2 DEF EventKinds, runVars
  <2> QED BY <2>1, <2>3, LoopStays
<1>3. ASSUME NEW id \in 1..MaxOn, Off(id) PROVE LoopInv'
  <2>1. /\ onHandlers' = [t \in EventTypes |-> TakeOut(onHandlers[t], {id})]
        /\ UNCHANGED <<nextHandler, loops, pending, posted, insider, runVars>>
    BY <1>3 DEF Off
  <2>2. onHandlers' \in Handlers
    <3>1. ASSUME NEW t \in EventTypes PROVE TakeOut(onHandlers[t], {id}) \in Seq(Nat)
      <4>1. onHandlers[t] \in Seq(Nat)
        BY <1>1 DEF Handlers
      <4> QED BY <4>1, TakeOutLeaves
    <3> QED BY <2>1, <3>1 DEF Handlers
  <2>3. EventKinds'
    BY <1>1, <2>1, <2>2 DEF EventKinds, runVars
  <2> QED BY <2>1, <2>3, LoopStays
<1>4. ASSUME BuildLoop PROVE LoopInv'
  <2>1. /\ loops' = Append(loops, onHandlers) /\ onHandlers' = NoHandlers
        /\ UNCHANGED <<nextHandler, pending, posted, insider, runVars>>
    BY <1>4 DEF BuildLoop
  <2>2. /\ loops' \in Seq(Handlers) /\ Len(loops') = Len(loops) + 1 /\ Len(loops) \in Nat
        /\ \A i \in 1..Len(loops) : loops'[i] = loops[i]
    BY <1>1, <2>1
  <2>3. onHandlers' \in Handlers
    BY <2>1 DEF Handlers, NoHandlers
  <2>4. running \in 0..Len(loops')
    BY <1>1, <2>2
  <2>5. EventKinds'
    BY <1>1, <2>1, <2>2, <2>3, <2>4 DEF EventKinds, runVars
  <2>6. running # 0 => loops'[running] = loops[running]
    BY <1>1, <2>2
  <2> QED BY <2>1, <2>5, <2>6, LoopStays
<1> QED BY <1>2, <1>3, <1>4

(* A running loop does not see what is enqueued meanwhile. *)
LEMMA EnqueueKeepsLoop ==
  ASSUME LoopInv, NEW t \in EventTypes, EnqueueEvent(t)
  PROVE  LoopInv'
<1> DEFINE e == [number |-> posted + 1, type |-> t]
<1>1. /\ posted' = posted + 1 /\ pending' = Append(pending, e)
      /\ insider' = IF running = 0 THEN insider ELSE insider \cup {posted + 1}
      /\ UNCHANGED <<onHandlers, nextHandler, loops, running, eventWalk, handlerWalk,
                     offered, handled, expected>>
  BY DEF EnqueueEvent, runVars
<1>2. /\ onHandlers \in Handlers /\ loops \in Seq(Handlers) /\ nextHandler \in Nat
      /\ pending \in Seq(Event) /\ posted \in Nat /\ running \in 0..Len(loops)
      /\ handled \in CallSeqs /\ expected \in CallSeqs
  BY DEF LoopInv, EventKinds
<1>3. e \in Event /\ e.number = posted + 1
  BY <1>2 DEF Event
<1> HIDE DEF e
<1>4. /\ pending' \in Seq(Event) /\ Len(pending') = Len(pending) + 1 /\ Len(pending) \in Nat
      /\ \A i \in 1..Len(pending) : pending'[i] = pending[i]
      /\ pending'[Len(pending) + 1] = e
      /\ DOMAIN pending = 1..Len(pending) /\ DOMAIN pending' = 1..Len(pending) + 1
  BY <1>1, <1>2, <1>3
<1>5. EventKinds'
  BY <1>1, <1>2, <1>4 DEF EventKinds
<1>6. ASSUME running # 0
      PROVE  /\ loops[running] \in Handlers
             /\ eventWalk.upto \in 0..Len(pending) /\ eventWalk.at \in 1..eventWalk.upto + 1
             /\ eventWalk.at - 1 \in 0..Len(pending)
             /\ eventWalk.at <= eventWalk.upto => eventWalk.at \in 1..Len(pending)
  BY <1>6, InLoop DEF LoopInv
<1>7. LoopsNest'
  <2>1. ASSUME eventWalk.inside PROVE pending'[eventWalk.at] = pending[eventWalk.at]
    <3>1. running # 0 /\ eventWalk.at <= eventWalk.upto
      BY <2>1, StandStill DEF LoopInv, LoopsNest, WalkOK
    <3> QED BY <1>4, <1>6, <3>1
  <2>2. running # 0 => eventWalk.upto <= Len(pending')
    BY <1>4, <1>6
  <2> QED BY <1>1, <2>1, <2>2 DEF LoopInv, LoopsNest, WalkOK
<1>8. CalledSoFar'
  <2>1. ASSUME running # 0
        PROVE  /\ CallsNow'[eventWalk.upto] = CallsNow[eventWalk.upto]
               /\ CallsNow'[eventWalk.at - 1] = CallsNow[eventWalk.at - 1]
    <3>1. \A n \in 0..Len(pending) :
            Calls(loops[running], Append(pending, e))[n] = Calls(loops[running], pending)[n]
      BY <1>2, <1>3, <1>6, <2>1, CallsOfLonger
    <3> QED BY <1>1, <1>6, <2>1, <3>1 DEF CallsNow
  <2> QED BY <1>1, <2>1 DEF LoopInv, CalledSoFar, Reached
<1>9. \A n \in 1..posted' :
        n \in insider' \cup offered' \cup {pending'[i].number : i \in DOMAIN pending'}
  <2>1. ASSUME NEW n \in 1..posted
        PROVE  n \in insider' \cup offered' \cup {pending'[i].number : i \in DOMAIN pending'}
    <3>1. CASE n \in insider \cup offered
      BY <1>1, <3>1
    <3>2. CASE \E i \in DOMAIN pending : n = pending[i].number
      BY <1>4, <3>2
    <3> QED BY <2>1, <3>1, <3>2 DEF LoopInv, LookedAfter
  <2>2. posted' \in {pending'[i].number : i \in DOMAIN pending'}
    <3>1. pending'[Len(pending) + 1].number = posted' /\ Len(pending) + 1 \in DOMAIN pending'
      BY <1>1, <1>3, <1>4
    <3> QED BY <3>1
  <2>3. \A n \in 1..posted' : n \in 1..posted \/ n = posted'
    BY <1>1, <1>2
  <2> QED BY <2>1, <2>2, <2>3
<1>10. ASSUME running # 0, NEW i \in DOMAIN pending'
       PROVE  /\ i > eventWalk.upto => pending'[i].number \in insider'
              /\ i < eventWalk.at \/ (i = eventWalk.at /\ eventWalk.inside)
                   => pending'[i].number \in offered
  <2>1. CASE i \in DOMAIN pending
    <3>1. /\ i > eventWalk.upto => pending[i].number \in insider
          /\ i < eventWalk.at \/ (i = eventWalk.at /\ eventWalk.inside)
               => pending[i].number \in offered
      BY <1>10, <2>1 DEF LoopInv, LookedAfter
    <3> QED BY <1>1, <1>4, <2>1, <3>1
  <2>2. CASE i = Len(pending) + 1
    <3>1. pending'[i].number \in insider'
      BY <1>1, <1>3, <1>4, <1>10, <2>2
    <3>2. ~(i < eventWalk.at)
      BY <1>4, <1>6, <1>10, <2>2
    <3>3. ~(i = eventWalk.at /\ eventWalk.inside)
      <4>1. eventWalk.inside => eventWalk.at <= eventWalk.upto
        BY <1>10 DEF LoopInv, LoopsNest, WalkOK
      <4> QED BY <1>4, <1>6, <1>10, <2>2, <4>1
    <3> QED BY <3>1, <3>2, <3>3
  <2> QED BY <1>4, <2>1, <2>2
<1>11. LookedAfter'
  BY <1>1, <1>9, <1>10 DEF LookedAfter
<1> QED BY <1>5, <1>7, <1>8, <1>11 DEF LoopInv
LEMMA RunLoopKeepsLoop ==
  ASSUME LoopInv, NEW c \in 1..Len(loops), RunLoop(c)
  PROVE  LoopInv'
<1>1. /\ running = 0 /\ running' = c /\ eventWalk' = WalkOver(pending) /\ handlerWalk' = handlerWalk
      /\ handled' = << >> /\ expected' = Calls(loops[c], pending)[Len(pending)]
      /\ UNCHANGED <<onHandlers, nextHandler, loops, pending, posted, insider, offered>>
  BY DEF RunLoop, Unbuilt
<1>2. /\ onHandlers \in Handlers /\ loops \in Seq(Handlers) /\ nextHandler \in Nat
      /\ pending \in Seq(Event) /\ posted \in Nat
  BY DEF LoopInv, EventKinds
<1>3. /\ loops[c] \in Handlers /\ Len(loops) \in Nat /\ Len(pending) \in Nat
      /\ DOMAIN pending = 1..Len(pending) /\ c \in 0..Len(loops) /\ c # 0
  BY <1>2
<1>4. handlerWalk = NoWalk
  BY <1>1, StandStill DEF LoopInv, LoopsNest
<1>5. /\ WalkOK(eventWalk') /\ eventWalk' # NoWalk /\ eventWalk'.at = 1
      /\ eventWalk'.upto = Len(pending) /\ ~eventWalk'.inside
  BY <1>1, <1>2, SetOut
<1>6. /\ Calls(loops[c], pending)[0] = << >>
      /\ \A n \in 0..Len(pending) : Calls(loops[c], pending)[n] \in CallSeqs
  BY <1>2, <1>3, CallsAreCalls
<1>7. EventKinds'
  <2>1. expected' \in CallSeqs
    BY <1>1, <1>3, <1>6
  <2>2. handled' \in CallSeqs
    BY <1>1 DEF CallSeqs
  <2> QED BY <1>1, <1>2, <1>3, <2>1, <2>2 DEF EventKinds
<1>8. LoopsNest'
  <2>1. WalkOK(handlerWalk') /\ handlerWalk' = NoWalk /\ NoWalk' = NoWalk
    BY <1>1, <1>4, StandStill DEF NoWalk
  <2>2. WalkOK(eventWalk)' /\ WalkOK(handlerWalk)'
    BY <1>5, <2>1 DEF WalkOK
  <2> QED BY <1>1, <1>3, <1>5, <2>1, <2>2 DEF LoopsNest
<1>9. CalledSoFar'
  <2>1. Len(expected') \in Nat
    BY <1>7 DEF EventKinds, CallSeqs
  <2>2. CallsNow' = Calls(loops[c], pending)
    BY <1>1 DEF CallsNow
  <2>3. CallsNow'[eventWalk'.upto] = expected' /\ CallsNow'[eventWalk'.at - 1] = << >>
    BY <1>1, <1>5, <1>6, <2>2
  <2>4. Len(handled') = 0 /\ Len(<< >>) + 0 = 0
    BY <1>1
  <2> QED BY <1>1, <1>3, <1>5, <2>1, <2>3, <2>4 DEF CalledSoFar
<1>10. LookedAfter'
  <2>1. \A n \in 1..posted :
          n \in insider \cup offered \cup {pending[i].number : i \in DOMAIN pending}
    BY DEF LoopInv, LookedAfter
  <2>2. \A i \in 1..Len(pending) :
          ~(i > eventWalk'.upto) /\ ~(i < eventWalk'.at) /\ ~(i = eventWalk'.at /\ eventWalk'.inside)
    BY <1>5
  <2> QED BY <1>1, <1>3, <2>1, <2>2 DEF LookedAfter
<1> QED BY <1>7, <1>8, <1>9, <1>10 DEF LoopInv

LEMMA NextEventKeepsLoop == ASSUME LoopInv, NextEvent PROVE LoopInv'
<1> DEFINE a == eventWalk.at
           e == pending[a]
<1>1. /\ running # 0 /\ CanEnter(eventWalk) /\ eventWalk' = Enter(eventWalk)
      /\ offered' = offered \cup {e.number} /\ handlerWalk' = WalkOver(loops[running][e.type])
      /\ UNCHANGED <<onHandlers, nextHandler, loops, pending, posted, insider, running, handled, expected>>
  BY DEF NextEvent, Unbuilt
<1>2. /\ WalkOK(eventWalk') /\ eventWalk' # NoWalk /\ eventWalk'.at = a
      /\ eventWalk'.upto = eventWalk.upto /\ eventWalk'.inside /\ ~eventWalk.inside
      /\ a \in 1..eventWalk.upto /\ eventWalk.upto \in Nat
  <2>1. WalkOK(eventWalk)
    BY DEF LoopInv, LoopsNest
  <2> QED BY <1>1, <2>1, StepIn DEF CanEnter, WalkOK
<1>3. a \in 1..Len(pending) /\ loops[running][e.type] \in Seq(Nat)
  BY <1>1, <1>2, InLoop DEF LoopInv
<1>4. /\ WalkOK(handlerWalk') /\ handlerWalk' # NoWalk /\ handlerWalk'.at = 1
      /\ handlerWalk'.upto = Len(loops[running][e.type]) /\ ~handlerWalk'.inside
  BY <1>1, <1>3, SetOut
<1>5. EventKinds'
  BY <1>1 DEF LoopInv, EventKinds
<1>6. LoopsNest'
  <2>1. WalkOK(eventWalk)' /\ WalkOK(handlerWalk)' /\ NoWalk' = NoWalk
    BY <1>2, <1>4 DEF WalkOK, NoWalk
  <2> QED BY <1>1, <1>2, <1>4, <2>1 DEF LoopInv, LoopsNest
<1>7. CalledSoFar'
  <2>1. CallsNow' = CallsNow
    BY <1>1 DEF CallsNow
  <2>2. Reached(handlerWalk)' = 0
    BY <1>4 DEF Reached
  <2> QED BY <1>1, <1>2, <2>1, <2>2 DEF LoopInv, CalledSoFar
<1>8. LookedAfter'
  <2>1. /\ \A n \in 1..posted :
             n \in insider \cup offered \cup {pending[i].number : i \in DOMAIN pending}
        /\ \A i \in DOMAIN pending :
             /\ i > eventWalk.upto => pending[i].number \in insider
             /\ i < a => pending[i].number \in offered
    BY <1>1 DEF LoopInv, LookedAfter
  <2> QED BY <1>1, <1>2, <2>1 DEF LookedAfter
<1> QED BY <1>5, <1>6, <1>7, <1>8 DEF LoopInv

(* What is to be called up to the event the loop is at, and for it. *)
LEMMA CallsHere ==
  ASSUME LoopInv, running # 0, eventWalk.at <= eventWalk.upto
  PROVE  LET a    == eventWalk.at
             e    == pending[a]
             here == loops[running][e.type] IN
         /\ here \in Seq(Nat) /\ e \in Event /\ a \in 1..Len(pending)
         /\ Len(CallsNow[a - 1]) \in Nat
         /\ Len(CallsNow[a]) = Len(CallsNow[a - 1]) + Len(here)
         /\ Len(CallsNow[a]) <= Len(expected) /\ Len(expected) \in Nat
         /\ \A j \in 1..Len(here) :
              expected[Len(CallsNow[a - 1]) + j] = <<e.number, here[j]>>
<1> DEFINE by == loops[running]
           a == eventWalk.at
           e == pending[a]
           here == by[e.type]
           f == CallsNow
<1>1. /\ by \in Handlers /\ pending \in Seq(Event) /\ Len(pending) \in Nat
      /\ a \in 1..Len(pending) /\ e \in Event /\ here \in Seq(Nat)
      /\ eventWalk.upto \in 0..Len(pending) /\ eventWalk.upto \in a..Len(pending)
  <2>1. pending \in Seq(Event) /\ Len(pending) \in Nat
    BY DEF LoopInv, EventKinds
  <2> QED BY <2>1, InLoop DEF LoopInv
<1>2. f = Calls(by, pending)
  BY DEF CallsNow
<1>3. expected = f[eventWalk.upto]
  BY DEF LoopInv, CalledSoFar
<1> HIDE DEF by, here, e, a, f
<1>4. /\ \A n \in 0..Len(pending) : f[n] \in CallSeqs
      /\ \A n \in 1..Len(pending) : CallsGrow(by, pending, n)
  BY <1>1, <1>2, CallsAreCalls
<1>5. a - 1 \in 0..Len(pending) /\ a \in 0..Len(pending)
  BY <1>1
<1>6. Len(f[a - 1]) \in Nat /\ Len(expected) \in Nat /\ Len(here) \in Nat
  BY <1>1, <1>3, <1>4, <1>5 DEF CallSeqs
<1>7. /\ Len(f[a]) = Len(f[a - 1]) + Len(here)
      /\ \A j \in 1..Len(here) : f[a][Len(f[a - 1]) + j] = <<e.number, here[j]>>
  <2>1. CallsGrow(by, pending, a)
    BY <1>1, <1>4
  <2> QED BY <1>2, <2>1 DEF CallsGrow, here, e
<1>8. /\ Len(f[a]) <= Len(expected)
      /\ \A k \in 1..Len(f[a]) : expected[k] = f[a][k]
  BY <1>1, <1>2, <1>3, <1>5, CallsArePrefixes
<1>9. ASSUME NEW j \in 1..Len(here) PROVE expected[Len(f[a - 1]) + j] = <<e.number, here[j]>>
  <2>1. Len(f[a - 1]) + j \in 1..Len(f[a])
    BY <1>6, <1>7
  <2> QED BY <1>7, <1>8, <2>1
<1> QED BY <1>1, <1>6, <1>7, <1>8, <1>9 DEF by, here, e, a, f

LEMMA CallOnKeepsLoop == ASSUME LoopInv, CallOn PROVE LoopInv'
<1> DEFINE a == eventWalk.at
           e == pending[a]
           here == loops[running][e.type]
           j == handlerWalk.at
           c == <<e.number, here[j]>>
           done == Len(CallsNow[a - 1])
<1>1. /\ eventWalk.inside /\ CanEnter(handlerWalk) /\ handlerWalk' = Enter(handlerWalk)
      /\ handled' = Append(handled, c)
      /\ UNCHANGED <<onHandlers, nextHandler, loops, pending, posted, insider, running, eventWalk,
                     offered, expected>>
  BY DEF CallOn, Unbuilt
<1>2. /\ running # 0 /\ a <= eventWalk.upto /\ handlerWalk # NoWalk
      /\ handlerWalk.upto = Len(here) /\ WalkOK(handlerWalk)
  BY <1>1, StandStill DEF LoopInv, LoopsNest, WalkOK
<1>3. /\ WalkOK(handlerWalk') /\ handlerWalk' # NoWalk /\ handlerWalk'.at = j
      /\ handlerWalk'.upto = Len(here) /\ handlerWalk'.inside /\ ~handlerWalk.inside
      /\ j \in 1..Len(here)
  BY <1>1, <1>2, StepIn DEF CanEnter
<1>4. /\ here \in Seq(Nat) /\ e \in Event /\ done \in Nat
      /\ done + Len(here) <= Len(expected) /\ Len(expected) \in Nat
      /\ expected[done + j] = c
  BY <1>2, <1>3, CallsHere
<1>5. c \in Nat \X Nat
  <2>1. here[j] \in Nat
    <3> HIDE DEF here, j
    <3> QED BY <1>3, <1>4
  <2>2. e.number \in Nat
    BY <1>4 DEF Event
  <2> QED BY <2>1, <2>2
<1>6. Len(handled) = done + (j - 1)
  BY <1>1, <1>2, <1>3 DEF LoopInv, CalledSoFar, Reached
<1> HIDE DEF c, done
<1>7. handled \in CallSeqs
  BY DEF LoopInv, EventKinds
<1>8. /\ handled' \in CallSeqs /\ Len(handled') = Len(handled) + 1 /\ Len(handled) \in Nat
      /\ handled'[Len(handled) + 1] = c
      /\ \A k \in 1..Len(handled) : handled'[k] = handled[k]
  BY <1>1, <1>5, <1>7 DEF CallSeqs
<1>9. EventKinds'
  BY <1>1, <1>8 DEF LoopInv, EventKinds
<1>10. LoopsNest'
  <2>1. WalkOK(eventWalk)' /\ WalkOK(handlerWalk)' /\ NoWalk' = NoWalk
    BY <1>1, <1>3 DEF LoopInv, LoopsNest, WalkOK, NoWalk
  <2> QED BY <1>1, <1>2, <1>3, <2>1 DEF LoopInv, LoopsNest
<1>11. CalledSoFar'
  <2>1. CallsNow' = CallsNow
    BY <1>1 DEF CallsNow
  <2>2. Reached(handlerWalk)' = j
    BY <1>3 DEF Reached
  <2>3. Len(handled') = done + j /\ Len(handled') <= Len(expected)
    <3> DEFINE there == Len(here)
    <3>1. /\ there \in Nat /\ j \in 1..there /\ done \in Nat
          /\ done + there <= Len(expected) /\ Len(expected) \in Nat
      BY <1>3, <1>4
    <3>2. Len(handled') = (done + (j - 1)) + 1
      BY <1>6, <1>8
    <3> HIDE DEF there, j
    <3> QED BY <3>1, <3>2
  <2>4. \A k \in 1..Len(handled') : handled'[k] = expected[k]
    <3>1. \A k \in 1..Len(handled) : handled[k] = expected[k]
      BY DEF LoopInv, CalledSoFar
    <3>2. Len(handled) + 1 = done + j
      BY <1>3, <1>4, <1>6
    <3> QED BY <1>4, <1>8, <3>1, <3>2
  <2>5. expected = CallsNow[eventWalk.upto]
    BY <1>2 DEF LoopInv, CalledSoFar
  <2> QED BY <1>1, <1>2, <2>1, <2>2, <2>3, <2>4, <2>5 DEF CalledSoFar, done
<1>12. LookedAfter'
  BY <1>1 DEF LoopInv, LookedAfter
<1> QED BY <1>9, <1>10, <1>11, <1>12 DEF LoopInv

LEMMA OnReturnsKeepsLoop == ASSUME LoopInv, OnReturns PROVE LoopInv'
<1>1. /\ handlerWalk.inside /\ handlerWalk' = Leave(handlerWalk)
      /\ UNCHANGED <<onHandlers, nextHandler, loops, pending, posted, insider, running, eventWalk,
                     offered, handled, expected>>
  BY DEF OnReturns, Unbuilt
<1>2. WalkOK(handlerWalk) /\ eventWalk.inside
  BY <1>1, StandStill DEF LoopInv, LoopsNest
<1>3. /\ WalkOK(handlerWalk') /\ handlerWalk' # NoWalk /\ handlerWalk'.at = handlerWalk.at + 1
      /\ handlerWalk'.upto = handlerWalk.upto /\ ~handlerWalk'.inside /\ handlerWalk.at \in Nat
  BY <1>1, <1>2, StepOut DEF WalkOK
<1>4. EventKinds' /\ LookedAfter'
  BY <1>1 DEF LoopInv, EventKinds, LookedAfter
<1>5. LoopsNest'
  <2>1. WalkOK(eventWalk)' /\ WalkOK(handlerWalk)' /\ NoWalk' = NoWalk
    BY <1>1, <1>3 DEF LoopInv, LoopsNest, WalkOK, NoWalk
  <2> QED BY <1>1, <1>2, <1>3, <2>1 DEF LoopInv, LoopsNest
<1>6. CalledSoFar'
  <2>1. Reached(handlerWalk)' = Reached(handlerWalk)
    BY <1>1, <1>3 DEF Reached
  <2>2. CallsNow' = CallsNow
    BY <1>1 DEF CallsNow
  <2> QED BY <1>1, <2>1, <2>2 DEF LoopInv, CalledSoFar
<1> QED BY <1>4, <1>5, <1>6 DEF LoopInv

LEMMA EventDoneKeepsLoop == ASSUME LoopInv, EventDone PROVE LoopInv'
<1> DEFINE a == eventWalk.at
           here == loops[running][pending[a].type]
<1>1. /\ eventWalk.inside /\ WalkedOut(handlerWalk)
      /\ eventWalk' = Leave(eventWalk) /\ handlerWalk' = NoWalk
      /\ UNCHANGED <<onHandlers, nextHandler, loops, pending, posted, insider, running,
                     offered, handled, expected>>
  BY DEF EventDone, Unbuilt
<1>2. /\ running # 0 /\ a <= eventWalk.upto /\ handlerWalk # NoWalk
      /\ handlerWalk.upto = Len(here) /\ WalkOK(handlerWalk) /\ WalkOK(eventWalk)
  BY <1>1, StandStill DEF LoopInv, LoopsNest, WalkOK
<1>3. /\ WalkOK(eventWalk') /\ eventWalk' # NoWalk /\ eventWalk'.at = a + 1
      /\ eventWalk'.upto = eventWalk.upto /\ ~eventWalk'.inside /\ a \in 1..eventWalk.upto
  BY <1>1, <1>2, StepOut
<1>4. Reached(handlerWalk) = Len(here)
  BY <1>1, <1>2 DEF WalkedOut, Reached, WalkOK
<1>5. /\ Len(CallsNow[a]) = Len(CallsNow[a - 1]) + Len(here) /\ Len(here) \in Nat
      /\ Len(CallsNow[a - 1]) \in Nat
  <2>1. /\ here \in Seq(Nat) /\ Len(CallsNow[a - 1]) \in Nat
        /\ Len(CallsNow[a]) = Len(CallsNow[a - 1]) + Len(here)
    BY <1>2, CallsHere
  <2> HIDE DEF here
  <2> QED BY <2>1
<1>6. EventKinds'
  BY <1>1 DEF LoopInv, EventKinds
<1>7. LoopsNest'
  <2>1. WalkOK(eventWalk)' /\ WalkOK(handlerWalk)' /\ NoWalk' = NoWalk
    BY <1>1, <1>3, StandStill DEF WalkOK, NoWalk
  <2> QED BY <1>1, <1>2, <1>3, <2>1 DEF LoopInv, LoopsNest
<1>8. CalledSoFar'
  <2>1. CallsNow' = CallsNow
    BY <1>1 DEF CallsNow
  <2>2. Len(handled) = Len(CallsNow[a])
    BY <1>1, <1>2, <1>4, <1>5 DEF LoopInv, CalledSoFar
  <2>3. (a + 1) - 1 = a /\ Len(handled) + 0 = Len(handled)
    BY <1>3, <1>5, <2>2
  <2> QED BY <1>1, <1>2, <1>3, <2>1, <2>2, <2>3 DEF LoopInv, CalledSoFar
<1>9. LookedAfter'
  <2>1. /\ \A n \in 1..posted :
             n \in insider \cup offered \cup {pending[i].number : i \in DOMAIN pending}
        /\ \A i \in DOMAIN pending :
             /\ i > eventWalk.upto => pending[i].number \in insider
             /\ i < a \/ i = a => pending[i].number \in offered
    BY <1>1, <1>2 DEF LoopInv, LookedAfter
  <2>2. \A i \in DOMAIN pending : i < a + 1 => i < a \/ i = a
    <3>1. DOMAIN pending = 1..Len(pending)
      BY DEF LoopInv, EventKinds
    <3> QED BY <1>3, <3>1
  <2> QED BY <1>1, <1>3, <2>1, <2>2 DEF LookedAfter
<1> QED BY <1>6, <1>7, <1>8, <1>9 DEF LoopInv

LEMMA SameSequence ==
  ASSUME NEW T, NEW s \in Seq(T), NEW t \in Seq(T), Len(s) = Len(t),
         \A k \in 1..Len(s) : s[k] = t[k]
  PROVE  s = t
OBVIOUS

LEMMA LoopReturnsKeepsLoop == ASSUME LoopInv, LoopReturns PROVE LoopInv'
<1>1. /\ running # 0 /\ WalkedOut(eventWalk) /\ pending' = << >> /\ running' = 0 /\ eventWalk' = NoWalk
      /\ UNCHANGED <<onHandlers, nextHandler, loops, posted, insider, handlerWalk, offered, handled, expected>>
  BY DEF LoopReturns, Unbuilt
<1>2. /\ eventWalk # NoWalk /\ ~eventWalk.inside /\ handlerWalk = NoWalk
      /\ eventWalk.at = eventWalk.upto + 1 /\ eventWalk.upto \in Nat
  BY <1>1 DEF LoopInv, LoopsNest, WalkOK, WalkedOut
<1>3. EventKinds'
  <2>1. 0 \in 0..Len(loops)
    BY DEF LoopInv, EventKinds
  <2> QED BY <1>1, <2>1 DEF LoopInv, EventKinds
<1>4. LoopsNest'
  <2>1. WalkOK(eventWalk)' /\ WalkOK(handlerWalk)' /\ NoWalk' = NoWalk /\ ~NoWalk.inside
    BY <1>1, <1>2, StandStill DEF WalkOK, NoWalk
  <2> QED BY <1>1, <1>2, <2>1 DEF LoopsNest
<1>5. CalledSoFar'
  <2>1. /\ Len(handled) <= Len(expected) /\ \A k \in 1..Len(handled) : handled[k] = expected[k]
        /\ expected = CallsNow[eventWalk.upto] /\ Len(handled) = Len(CallsNow[eventWalk.at - 1]) + 0
    BY <1>1, <1>2 DEF LoopInv, CalledSoFar
  <2>2. eventWalk.at - 1 = eventWalk.upto
    BY <1>2
  <2>3. handled \in CallSeqs /\ expected \in CallSeqs
    BY DEF LoopInv, EventKinds
  <2>4. Len(handled) = Len(expected)
    BY <2>1, <2>2, <2>3 DEF CallSeqs
  <2>5. handled = expected
    BY <2>1, <2>3, <2>4, SameSequence DEF CallSeqs
  <2> QED BY <1>1, <2>1, <2>5 DEF CalledSoFar
<1>6. LookedAfter'
  <2>1. ASSUME NEW n \in 1..posted PROVE n \in insider \cup offered
    <3>1. ASSUME NEW i \in DOMAIN pending PROVE pending[i].number \in insider \cup offered
      <4>1. i \in Nat
        BY DEF LoopInv, EventKinds
      <4>2. i > eventWalk.upto \/ i < eventWalk.at
        BY <1>2, <4>1
      <4> QED BY <1>1, <4>2 DEF LoopInv, LookedAfter
    <3> QED BY <2>1, <3>1 DEF LoopInv, LookedAfter
  <2> QED BY <1>1, <2>1 DEF LookedAfter
<1> QED BY <1>3, <1>4, <1>5, <1>6 DEF LoopInv

LEMMA NextKeepsLoop == ASSUME LoopInv, [CallbacksNext]_callbackVars PROVE LoopInv'
<1>1. CASE UNCHANGED eventVars
  <2>1. /\ UNCHANGED <<pending, posted, insider, runVars>> /\ EventKinds'
        /\ (running # 0 => loops'[running] = loops[running])
    BY <1>1 DEF eventVars, runVars, LoopInv, EventKinds
  <2> QED BY <2>1, LoopStays
<1>2. CASE EventNext
  BY <1>2, NextEventKeepsLoop, CallOnKeepsLoop, OnReturnsKeepsLoop, EventDoneKeepsLoop,
     LoopReturnsKeepsLoop, RunLoopKeepsLoop, RegisteringKeepsLoop, EnqueueKeepsLoop DEF EventNext
<1> QED BY <1>1, <1>2 DEF CallbacksNext, Undefined, callbackVars

(* SPEC-023: whatever the handlers of a running event loop do - register    *)
(* and take out handlers, build further loops, enqueue events - the loop   *)
(* calls what it set out to call, in order, and an event that was enqueued *)
(* between two runs is queued until a run looks at it.                     *)
THEOREM LoopHandlesEvents == CallbacksSpec => []EventsHandled
<1>1. ASSUME LoopInv PROVE EventsHandled
  <2>1. /\ Len(handled) <= Len(expected) /\ \A k \in 1..Len(handled) : handled[k] = expected[k]
        /\ handled \in CallSeqs /\ expected \in CallSeqs
    BY <1>1 DEF LoopInv, CalledSoFar, EventKinds
  <2>2. IsPrefix(handled, expected)
    <3>1. /\ SubSeq(handled, 1, Len(handled)) \in Seq(Nat \X Nat)
          /\ SubSeq(expected, 1, Len(handled)) \in Seq(Nat \X Nat)
          /\ Len(SubSeq(handled, 1, Len(handled))) = Len(handled)
          /\ Len(SubSeq(expected, 1, Len(handled))) = Len(handled)
          /\ \A k \in 1..Len(handled) :
               SubSeq(handled, 1, Len(handled))[k] = SubSeq(expected, 1, Len(handled))[k]
      BY <2>1 DEF CallSeqs
    <3> QED BY <2>1, <3>1 DEF IsPrefix
  <2> QED BY <1>1, <2>2 DEF LoopInv, CalledSoFar, LookedAfter, EventsHandled
<1> QED BY <1>1, LoopInvHoldsFirst, NextKeepsLoop, PTL DEF CallbacksSpec
-----------------------------------------------------------------------------
(* The handlers of a tick. *)

Rising(s) == \A m, n \in DOMAIN s : m < n => s[m] < s[n]

Given(l) == IF l = "AfterTick" THEN 1..nextAfterId ELSE 2..nextId

(* Each list has numbers that were handed out for it, in rising order, and  *)
(* the lists of the bus never share one.                                    *)
HandlerInv ==
    /\ handlers \in [Lists -> Seq(Nat)] /\ nextId \in 1..MaxListen + 1 /\ nextAfterId \in 0..MaxAfter
    /\ issued \subseteq Lists \X Nat /\ disowned \subseteq issued
    /\ \A l \in Lists : Rising(handlers[l]) /\ \A id \in ToSet(handlers[l]) : <<l, id>> \in issued
    /\ \A h \in issued : h[2] \in Given(h[1])
    /\ \A g, h \in issued : g[1] # "AfterTick" /\ h[1] # "AfterTick" /\ g[2] = h[2] => g = h

LEMMA HandlersHoldFirst == CallbacksInit => HandlerInv
<1> SUFFICES ASSUME CallbacksInit PROVE HandlerInv
  OBVIOUS
<1>1. /\ handlers = [l \in Lists |-> << >>] /\ nextId = 1 /\ nextAfterId = 0
      /\ issued = {} /\ disowned = {}
  BY DEF CallbacksInit, TickInit, HandlersInit
<1>2. \A l \in Lists : handlers[l] = << >> /\ Rising(handlers[l]) /\ ToSet(handlers[l]) = {}
  BY <1>1 DEF Rising, ToSet
<1> QED BY <1>1, <1>2, MaxHandlersAssumption DEF HandlerInv

(* A number that is higher than all before it, at the end of its list. *)
LEMMA RegisteringKeepsHandlers ==
  ASSUME HandlerInv, NEW l \in Lists, NEW id \in Nat,
         handlers' = [handlers EXCEPT ![l] = Append(@, id)], issued' = issued \cup {<<l, id>>},
         disowned' = disowned, nextId' \in 1..MaxListen + 1, nextAfterId' \in 0..MaxAfter,
         nextId <= nextId', nextAfterId <= nextAfterId',
         IF l = "AfterTick" THEN nextAfterId < id /\ id = nextAfterId'
                            ELSE nextId < id /\ id = nextId'
  PROVE  HandlerInv'
<1> DEFINE new == <<l, id>>
<1>1. /\ handlers \in [Lists -> Seq(Nat)] /\ nextId \in 1..MaxListen + 1 /\ nextAfterId \in 0..MaxAfter
      /\ issued \subseteq Lists \X Nat /\ disowned \subseteq issued
      /\ \A h \in issued : h[2] \in Given(h[1]) /\ h = <<h[1], h[2]>> /\ h[2] \in Nat /\ h[1] \in Lists
  BY DEF HandlerInv
<1>2. /\ handlers[l] \in Seq(Nat) /\ Len(handlers[l]) \in Nat /\ DOMAIN handlers[l] = 1..Len(handlers[l])
      /\ Rising(handlers[l]) /\ \A i \in ToSet(handlers[l]) : <<l, i>> \in issued
  BY <1>1 DEF HandlerInv
<1> DEFINE s == handlers[l]
<1>3. /\ handlers' \in [Lists -> Seq(Nat)] /\ handlers'[l] = Append(s, id)
      /\ \A k \in Lists \ {l} : handlers'[k] = handlers[k]
  <2>1. Append(s, id) \in Seq(Nat)
    BY <1>2
  <2> QED BY <1>1, <2>1
<1>4. \A h \in issued : h[1] = l => h[2] < id
  <2>1. ASSUME NEW h \in issued, h[1] = l PROVE h[2] < id
    BY <1>1, <2>1 DEF Given
  <2> QED BY <2>1
<1>5. \A n \in 1..Len(s) : s[n] < id /\ s[n] \in ToSet(s)
  <2>1. ASSUME NEW n \in 1..Len(s) PROVE s[n] < id /\ s[n] \in ToSet(s)
    <3>1. s[n] \in ToSet(s)
      BY <1>2 DEF ToSet
    <3>2. <<l, s[n]>> \in issued
      BY <1>2, <3>1
    <3> QED BY <1>4, <3>1, <3>2
  <2> QED BY <2>1
<1> HIDE DEF s
<1>6. /\ s \in Seq(Nat) /\ Len(s) \in Nat /\ DOMAIN s = 1..Len(s) /\ Rising(s)
      /\ \A i \in ToSet(s) : <<l, i>> \in issued
  BY <1>2 DEF s
<1>7. /\ DOMAIN Append(s, id) = 1..Len(s) + 1 /\ Append(s, id)[Len(s) + 1] = id
      /\ \A n \in 1..Len(s) : Append(s, id)[n] = s[n]
  BY <1>6
<1>8. Rising(Append(s, id))
  <2>1. ASSUME NEW m \in 1..Len(s) + 1, NEW n \in 1..Len(s) + 1, m < n
        PROVE  Append(s, id)[m] < Append(s, id)[n]
    <3>1. m \in 1..Len(s) /\ Append(s, id)[m] = s[m]
      BY <1>6, <1>7, <2>1
    <3>2. CASE n = Len(s) + 1
      BY <1>5, <1>7, <3>1, <3>2
    <3>3. CASE n \in 1..Len(s)
      BY <1>6, <1>7, <2>1, <3>1, <3>3 DEF Rising
    <3> QED BY <1>6, <3>2, <3>3
  <2> QED BY <1>7, <2>1 DEF Rising
<1>9. ToSet(Append(s, id)) = ToSet(s) \cup {id}
  <2> DEFINE t == Append(s, id)
  <2>1. /\ DOMAIN t = 1..Len(s) + 1 /\ t[Len(s) + 1] = id /\ Len(s) + 1 \in 1..Len(s) + 1
        /\ \A n \in 1..Len(s) : t[n] = s[n] /\ n \in 1..Len(s) + 1
        /\ \A n \in 1..Len(s) + 1 : n \in 1..Len(s) \/ n = Len(s) + 1
    BY <1>6, <1>7
  <2> HIDE DEF t
  <2>2. ToSet(t) = ToSet(s) \cup {id}
    BY <1>6, <2>1 DEF ToSet
  <2> QED BY <2>2 DEF t
<1>10. ASSUME NEW k \in Lists
       PROVE  Rising(handlers'[k]) /\ \A i \in ToSet(handlers'[k]) : <<k, i>> \in issued'
  <2>1. CASE k = l
    BY <1>3, <1>6, <1>8, <1>9, <2>1
  <2>2. CASE k # l
    BY <1>3, <2>2 DEF HandlerInv
  <2> QED BY <2>1, <2>2
<1>11. \A h \in issued' : h[2] \in Given(h[1])'
  <2>1. ASSUME NEW h \in issued PROVE h[2] \in Given(h[1])'
    BY <1>1 DEF Given
  <2>2. new[2] \in Given(new[1])'
    BY <1>1 DEF Given
  <2> QED BY <2>1, <2>2
<1>12. ASSUME NEW g \in issued', NEW h \in issued', g[1] # "AfterTick", h[1] # "AfterTick", g[2] = h[2]
       PROVE  g = h
  <2>1. ASSUME NEW i \in issued, i[1] # "AfterTick", l # "AfterTick" PROVE i[2] < id
    BY <1>1, <2>1 DEF Given
  <2>2. CASE g \in issued /\ h \in issued
    BY <1>12, <2>2 DEF HandlerInv
  <2>3. CASE g = new /\ h = new
    BY <2>3
  <2>4. CASE g = new /\ h \in issued
    BY <1>1, <1>12, <2>1, <2>4
  <2>5. CASE h = new /\ g \in issued
    BY <1>1, <1>12, <2>1, <2>5
  <2> QED BY <2>2, <2>3, <2>4, <2>5
<1>13. HandlerInv'
  <2>1. issued' \subseteq Lists \X Nat /\ disowned' \subseteq issued'
    BY <1>1
  <2> QED BY <1>3, <1>10, <1>11, <1>12, <2>1 DEF HandlerInv
<1> QED BY <1>13

LEMMA TakeOutKeepsRising ==
  ASSUME NEW s \in Seq(Nat), Rising(s), NEW out
  PROVE  /\ TakeOut(s, out) \in Seq(Nat) /\ Rising(TakeOut(s, out))
         /\ ToSet(TakeOut(s, out)) = ToSet(s) \ out
<1> DEFINE r == TakeOut(s, out)
<1>1. r \in Seq(Nat) /\ ToSet(r) = ToSet(s) \ out /\ InOrderOf(r, s)
  BY TakeOutLeaves
<1> HIDE DEF r
<1>2. ASSUME NEW m \in DOMAIN r, NEW n \in DOMAIN r, m < n PROVE r[m] < r[n]
  <2>1. PICK i, j \in DOMAIN s : i < j /\ r[m] = s[i] /\ r[n] = s[j]
    BY <1>1, <1>2 DEF InOrderOf
  <2> QED BY <2>1 DEF Rising
<1>3. Rising(r)
  BY <1>2 DEF Rising
<1> QED BY <1>1, <1>3 DEF r

(* unlisten adds to no list and leaves each in order. *)
LEMMA WithoutTakesOut ==
  ASSUME HandlerInv, NEW id, handlers' = Without(id)
  PROVE  /\ handlers' \in [Lists -> Seq(Nat)]
         /\ \A k \in Lists : Rising(handlers'[k]) /\ ToSet(handlers'[k]) \subseteq ToSet(handlers[k])
<1>1. /\ handlers \in [Lists -> Seq(Nat)] /\ \A k \in Lists : handlers[k] \in Seq(Nat) /\ Rising(handlers[k])
      /\ "AfterTick" \in Lists
  BY DEF HandlerInv, Lists
<1>2. ASSUME NEW k \in Lists
      PROVE  /\ TakeOut(handlers[k], {id}) \in Seq(Nat) /\ Rising(TakeOut(handlers[k], {id}))
             /\ ToSet(TakeOut(handlers[k], {id})) = ToSet(handlers[k]) \ {id}
  BY <1>1, TakeOutKeepsRising
<1>3. ASSUME NEW k \in Lists
      PROVE  /\ handlers'[k] \in Seq(Nat) /\ Rising(handlers'[k])
             /\ ToSet(handlers'[k]) \subseteq ToSet(handlers[k])
  <2>1. CASE Has("AfterTick", id) /\ k # "AfterTick"
    <3>1. handlers'[k] = handlers[k]
      BY <1>1, <2>1 DEF Without
    <3> QED BY <1>1, <2>1, <3>1
  <2>2. CASE ~(Has("AfterTick", id) /\ k # "AfterTick")
    <3>1. handlers'[k] = TakeOut(handlers[k], {id})
      BY <1>1, <2>2 DEF Without
    <3> QED BY <1>2, <2>2, <3>1
  <2> QED BY <2>1, <2>2
<1>4. handlers' \in [Lists -> Seq(Nat)]
  <2>1. CASE Has("AfterTick", id)
    BY <1>1, <1>2, <2>1 DEF Without
  <2>2. CASE ~Has("AfterTick", id)
    BY <1>2, <2>2 DEF Without
  <2> QED BY <2>1, <2>2
<1> QED BY <1>3, <1>4

LEMMA UnlistenKeepsHandlers ==
  ASSUME HandlerInv, NEW l, NEW id, NEW walked, Unlisten(l, id, walked)
  PROVE  HandlerInv'
<1>1. /\ <<l, id>> \in issued /\ disowned' = disowned \cup {<<l, id>>}
      /\ handlers' = Without(id) /\ UNCHANGED <<nextId, nextAfterId, issued>>
  BY DEF Unlisten
<1>2. /\ issued \subseteq Lists \X Nat /\ disowned \subseteq issued
      /\ \A h \in issued : h \in Lists \X Nat /\ h = <<h[1], h[2]>>
      /\ \A k \in Lists : \A i \in ToSet(handlers[k]) : <<k, i>> \in issued
      /\ \A h \in issued : h[2] \in Given(h[1])
      /\ \A g, h \in issued : g[1] # "AfterTick" /\ h[1] # "AfterTick" /\ g[2] = h[2] => g = h
      /\ nextId \in 1..MaxListen + 1 /\ nextAfterId \in 0..MaxAfter
  BY DEF HandlerInv
<1>3. /\ handlers' \in [Lists -> Seq(Nat)]
      /\ \A k \in Lists : Rising(handlers'[k]) /\ ToSet(handlers'[k]) \subseteq ToSet(handlers[k])
  BY <1>1, WithoutTakesOut
<1>4. HandlerInv'
  <2>1. \A h \in issued : h[2] \in Given(h[1])'
    BY <1>1, <1>2 DEF Given
  <2>2. \A k \in Lists : \A i \in ToSet(handlers'[k]) : <<k, i>> \in issued
    BY <1>2, <1>3
  <2>3. issued' = issued /\ nextId' = nextId /\ nextAfterId' = nextAfterId /\ disowned' \subseteq issued'
    BY <1>1, <1>2
  <2>4. \A h \in issued' : h[2] \in Given(h[1])'
    BY <2>1, <2>3
  <2> QED BY <1>2, <1>3, <2>2, <2>3, <2>4 DEF HandlerInv
<1> QED BY <1>4

LEMMA NextKeepsHandlers ==
  ASSUME HandlerInv, [CallbacksNext]_callbackVars
  PROVE  HandlerInv'
<1>1. CASE UNCHANGED handlerVars
  BY <1>1 DEF HandlerInv, handlerVars, Given
<1>2. ASSUME NEW l \in BusLists, Listen(l, Walked) PROVE HandlerInv'
  <2>1. /\ nextId <= MaxListen /\ nextId' = nextId + 1 /\ UNCHANGED <<nextAfterId, disowned>>
        /\ handlers' = [handlers EXCEPT ![l] = Append(@, nextId + 1)]
        /\ issued' = issued \cup {<<l, nextId + 1>>}
    BY <1>2 DEF Listen, Registering
  <2>2. /\ nextId \in 1..MaxListen + 1 /\ nextAfterId \in 0..MaxAfter
        /\ l \in Lists /\ l # "AfterTick" /\ nextId + 1 \in Nat
    BY MaxHandlersAssumption DEF HandlerInv, BusLists, Lists
  <2>3. /\ nextId' \in 1..MaxListen + 1 /\ nextAfterId' \in 0..MaxAfter /\ nextId <= nextId'
        /\ nextAfterId <= nextAfterId' /\ nextId < nextId + 1
    BY <2>1, <2>2, MaxHandlersAssumption
  <2> QED BY <2>1, <2>2, <2>3, RegisteringKeepsHandlers
<1>3. ASSUME AfterTick(Walked) PROVE HandlerInv'
  <2>1. /\ nextAfterId < MaxAfter /\ nextAfterId' = nextAfterId + 1 /\ UNCHANGED <<nextId, disowned>>
        /\ handlers' = [handlers EXCEPT !["AfterTick"] = Append(@, nextAfterId + 1)]
        /\ issued' = issued \cup {<<"AfterTick", nextAfterId + 1>>}
    BY <1>3 DEF AfterTick, Registering
  <2>2. /\ nextId \in 1..MaxListen + 1 /\ nextAfterId \in 0..MaxAfter
        /\ "AfterTick" \in Lists /\ nextAfterId + 1 \in Nat
    BY MaxHandlersAssumption DEF HandlerInv, Lists
  <2>3. /\ nextId' \in 1..MaxListen + 1 /\ nextAfterId' \in 0..MaxAfter /\ nextId <= nextId'
        /\ nextAfterId <= nextAfterId' /\ nextAfterId < nextAfterId + 1
    BY <2>1, <2>2, MaxHandlersAssumption
  <2> QED BY <2>1, <2>2, <2>3, RegisteringKeepsHandlers
<1>4. CASE ChangeHandlers
  BY <1>2, <1>3, <1>4, UnlistenKeepsHandlers DEF ChangeHandlers
<1>5. CASE TickNext
  BY <1>1, <1>4, <1>5 DEF TickNext, TickStep, Tick, CallHandler, HandlerReturns, Work, WorkDone, FireTickEnd,
     EndSubTick, ChangeTime, Pause, SetTimestep
<1>6. UNCHANGED tickVars => UNCHANGED handlerVars
  BY DEF tickVars
<1> QED BY <1>1, <1>5, <1>6 DEF CallbacksNext, Undefined, callbackVars

-----------------------------------------------------------------------------
(* The calls of a sub-tick. *)

(* The place of the phase in the order of the lists. *)
RankNow == IF phase = "work" THEN 1 ELSE Rank[phase]

(* The slots that the loop over the handlers has not been at. *)
Before == Reached(walk) + 1..walk.upto

CallsRise ==
    \A i, j \in DOMAIN called : i < j =>
         \/ Rank[called[i][1]] < Rank[called[j][1]]
         \/ called[i][1] = called[j][1] /\ called[i][2] < called[j][2]

(* The handlers that stay registered have been called when their list has  *)
(* been walked, and the loop has the others of its list still before it.   *)
KeptCalled ==
    \A h \in kept :
         /\ Rank[h[1]] < RankNow \/ (phase = "work" /\ h[1] = "TickBegin") => h \in ToSet(called)
         /\ phase = h[1] /\ ~wild => h \in ToSet(called) \/ \E j \in Before : handlers[phase][j] = h[2]

(* What the loop is to call is higher than what it has called. *)
LoopRises ==
    phase \in Lists /\ ~wild /\ Reached(walk) < walk.upto =>
         /\ walk.upto <= Len(handlers[phase])
         /\ \A i \in DOMAIN called : \A j \in Before :
              called[i][1] = phase => called[i][2] < handlers[phase][j]

CallInv ==
    /\ WalkOK(walk) /\ phase \in Phases /\ (phase \in Lists <=> walk # NoWalk)
    /\ called \in Seq(Lists \X Nat) /\ kept \subseteq Lists \X Nat
    /\ \A h \in kept : Registered(h)
    /\ phase = "host" => called = << >> /\ kept = {}
    /\ phase # "host" => \A i \in DOMAIN called : Rank[called[i][1]] <= RankNow
    /\ CallsRise
    /\ phase # "host" => KeptCalled
    /\ LoopRises

LEMMA Ranks ==
    /\ \A l \in Lists : Rank[l] \in 1..3
    /\ \A k, l \in Lists : Rank[k] = Rank[l] => k = l
    /\ Rank["TickBegin"] = 1 /\ Rank["AfterTick"] = 2 /\ Rank["TickEnd"] = 3
    /\ Lists = {"TickBegin", "AfterTick", "TickEnd"} /\ "work" \notin Lists /\ "host" \notin Lists
BY DEF Rank, Lists, BusLists

LEMMA CallsHoldFirst == CallbacksInit => CallInv
<1> SUFFICES ASSUME CallbacksInit PROVE CallInv
  OBVIOUS
<1>1. phase = "host" /\ walk = NoWalk /\ called = << >> /\ kept = {}
  BY DEF CallbacksInit, TickInit
<1> QED BY <1>1, StandStill, Ranks DEF CallInv, CallsRise, LoopRises, Phases

LEMMA BeginningKeepsCalls ==
  ASSUME HandlerInv, BeginSubTick, UNCHANGED <<wild, handlerVars>>
  PROVE  CallInv'
<1>1. /\ phase' = "TickBegin" /\ walk' = WalkOver(handlers["TickBegin"]) /\ called' = << >>
      /\ kept' = {h \in issued : Registered(h)}
      /\ handlers' = handlers /\ issued' = issued /\ wild' = wild
  BY DEF BeginSubTick, Fire, handlerVars
<1> DEFINE s == handlers["TickBegin"]
<1>2. /\ s \in Seq(Nat) /\ Len(s) \in Nat /\ issued \subseteq Lists \X Nat
  BY Ranks DEF HandlerInv
<1>3. /\ WalkOK(walk') /\ walk' # NoWalk /\ walk'.at = 1 /\ walk'.upto = Len(s) /\ ~walk'.inside
  BY <1>1, <1>2, SetOut
<1>4. /\ WalkOK(walk)' /\ NoWalk' = NoWalk /\ Reached(walk)' = 0 /\ RankNow' = 1
      /\ Before' = 1..Len(s)
  <2>1. Reached(walk)' = 0
    BY <1>3 DEF Reached
  <2> QED BY <1>1, <1>3, <2>1, Ranks DEF WalkOK, NoWalk, RankNow, Before
<1>5. ASSUME NEW h \in kept', h[1] = "TickBegin" PROVE \E j \in 1..Len(s) : s[j] = h[2]
  <2>1. h[2] \in ToSet(s)
    BY <1>1, <1>5 DEF Registered, Has
  <2> HIDE DEF s
  <2>2. DOMAIN s = 1..Len(s)
    BY <1>2
  <2> QED BY <2>1, <2>2 DEF ToSet
<1>6. KeptCalled'
  <2>1. \A h \in kept' : ~(Rank[h[1]] < 1)
    <3>1. \A h \in kept' : h[1] \in Lists
      BY <1>1, <1>2
    <3> QED BY <3>1, Ranks
  <2> QED BY <1>1, <1>4, <1>5, <2>1 DEF KeptCalled
<1>7. \A h \in kept' : Registered(h)'
  BY <1>1 DEF Registered, Has
<1>8. CallsRise' /\ LoopRises' /\ \A i \in DOMAIN called' : Rank[called'[i][1]] <= RankNow'
  <2>1. DOMAIN called' = {}
    BY <1>1
  <2> QED BY <1>1, <1>3, <1>4, <2>1 DEF CallsRise, LoopRises
<1>9. called' \in Seq(Lists \X Nat) /\ kept' \subseteq Lists \X Nat
  BY <1>1, <1>2
<1>10. phase' \in Phases /\ phase' \in Lists /\ phase' # "host"
  BY <1>1, Ranks DEF Phases
<1> QED BY <1>3, <1>4, <1>6, <1>7, <1>8, <1>9, <1>10 DEF CallInv

(* What holds of every handler on a list that has been walked to its end. *)
LEMMA WalkedCalled ==
  ASSUME CallInv, ~wild, phase \in Lists, WalkedOut(walk), NEW h \in kept, h[1] = phase
  PROVE  h \in ToSet(called)
<1>1. Before = {}
  BY DEF CallInv, WalkOK, WalkedOut, Before, Reached
<1>2. phase # "host"
  BY Ranks
<1> QED BY <1>1, <1>2 DEF CallInv, KeptCalled

(* The loop over the next list. *)
LEMMA FiringKeepsCalls ==
  ASSUME HandlerInv, CallInv, NEW l \in Lists, phase # "host", Rank[l] = RankNow + 1,
         UNCHANGED <<wild, handlerVars, kept, called>>, Fire(l),
         \A h \in kept : Rank[h[1]] = RankNow => h \in ToSet(called)
  PROVE  CallInv'
<1>1. /\ phase' = l /\ walk' = WalkOver(handlers[l]) /\ called' = called /\ kept' = kept
      /\ handlers' = handlers /\ wild' = wild
  BY DEF Fire, handlerVars
<1> DEFINE s == handlers[l]
<1>2. s \in Seq(Nat) /\ Len(s) \in Nat
  BY DEF HandlerInv
<1>3. /\ WalkOK(walk') /\ walk' # NoWalk /\ walk'.at = 1 /\ walk'.upto = Len(s) /\ ~walk'.inside
  BY <1>1, <1>2, SetOut
<1>4. l # "work" /\ l # "host" /\ l \in Phases
  BY Ranks DEF Phases
<1>5. /\ WalkOK(walk)' /\ NoWalk' = NoWalk /\ Reached(walk)' = 0 /\ RankNow' = Rank[l]
      /\ Before' = 1..Len(s)
  <2>1. Reached(walk)' = 0
    BY <1>3 DEF Reached
  <2> QED BY <1>1, <1>3, <1>4, <2>1, Ranks DEF WalkOK, NoWalk, RankNow, Before
<1>6. RankNow \in Int /\ \A h \in kept : Rank[h[1]] \in Int /\ h[1] \in Lists
  <2>1. RankNow \in Int
    <3>1. phase \in Lists \/ phase = "work"
      BY DEF CallInv, Phases
    <3> QED BY <3>1, Ranks DEF RankNow
  <2>2. \A h \in kept : h[1] \in Lists
    BY DEF CallInv
  <2> QED BY <2>1, <2>2, Ranks
<1>7. KeptCalled'
  <2>1. ASSUME NEW h \in kept, Rank[h[1]] < Rank[l] PROVE h \in ToSet(called)
    <3>1. Rank[h[1]] < RankNow \/ Rank[h[1]] = RankNow
      BY <1>6, <2>1
    <3> QED BY <3>1 DEF CallInv, KeptCalled
  <2>2. ASSUME NEW h \in kept, h[1] = l PROVE \E j \in 1..Len(s) : s[j] = h[2]
    <3>1. h[2] \in ToSet(s)
      BY <2>2 DEF CallInv, Registered, Has
    <3> HIDE DEF s
    <3>2. DOMAIN s = 1..Len(s)
      BY <1>2
    <3> QED BY <3>1, <3>2 DEF ToSet
  <2> QED BY <1>1, <1>4, <1>5, <2>1, <2>2 DEF KeptCalled
<1>8. \A i \in DOMAIN called : called[i][1] \in Lists /\ Rank[called[i][1]] <= RankNow /\ called[i][1] # l
  <2>1. ASSUME NEW i \in DOMAIN called PROVE called[i][1] \in Lists /\ Rank[called[i][1]] <= RankNow
    BY DEF CallInv
  <2> QED BY <1>6, <2>1, Ranks
<1>9. \A i \in DOMAIN called' : Rank[called'[i][1]] <= RankNow'
  BY <1>1, <1>5, <1>6, <1>8, Ranks
<1>10. LoopRises'
  BY <1>1, <1>3, <1>5, <1>8 DEF LoopRises
<1>11. CallsRise' /\ \A h \in kept' : Registered(h)'
  BY <1>1 DEF CallInv, CallsRise, Registered, Has
<1> QED BY <1>1, <1>3, <1>4, <1>5, <1>7, <1>9, <1>10, <1>11 DEF CallInv

LEMMA CallHandlerKeepsCalls ==
  ASSUME HandlerInv, CallInv, ~wild, CallHandler, UNCHANGED wild
  PROVE  CallInv'
<1> DEFINE n == walk.at
           s == handlers[phase]
           c == <<phase, s[n]>>
<1>1. /\ phase \in Lists /\ CanEnter(walk) /\ walk' = Enter(walk) /\ called' = Append(called, c)
      /\ UNCHANGED <<wild, handlers, kept, phase>>
  BY DEF CallHandler, handlerVars
<1>2. /\ WalkOK(walk') /\ walk' # NoWalk /\ walk # NoWalk
      /\ walk'.at = n /\ walk'.upto = walk.upto /\ walk'.inside
      /\ n \in 1..walk.upto /\ ~walk.inside /\ walk.upto \in Nat
  <2>1. WalkOK(walk)
    BY DEF CallInv
  <2> QED BY <1>1, <2>1, StepIn DEF CanEnter, WalkOK
<1>3. /\ Reached(walk) = n - 1 /\ Reached(walk)' = n /\ RankNow' = RankNow /\ RankNow = Rank[phase]
      /\ Before = n..walk.upto /\ Before' = n + 1..walk.upto
  BY <1>1, <1>2, Ranks DEF Reached, RankNow, Before
<1>4. /\ s \in Seq(Nat) /\ Len(s) \in Nat /\ Rising(s) /\ DOMAIN s = 1..Len(s)
  BY <1>1 DEF HandlerInv
<1>5. /\ walk.upto <= Len(s)
      /\ \A i \in DOMAIN called : \A j \in n..walk.upto : called[i][1] = phase => called[i][2] < s[j]
  BY <1>1, <1>2, <1>3 DEF CallInv, LoopRises
<1> HIDE DEF s
<1>6. c \in Lists \X Nat /\ c[1] = phase /\ c[2] = s[n] /\ n \in 1..Len(s) /\ s[n] \in Nat
  BY <1>1, <1>2, <1>4, <1>5
<1> HIDE DEF c
<1>7. called \in Seq(Lists \X Nat) /\ Len(called) \in Nat /\ DOMAIN called = 1..Len(called)
  BY DEF CallInv
<1>8. /\ called' \in Seq(Lists \X Nat) /\ DOMAIN called' = 1..Len(called) + 1
      /\ called'[Len(called) + 1] = c /\ \A i \in 1..Len(called) : called'[i] = called[i]
  BY <1>1, <1>6, <1>7
<1>9. \A i \in 1..Len(called) : called[i][1] \in Lists /\ Rank[called[i][1]] <= Rank[phase]
  <2>1. phase # "host"
    BY <1>1, Ranks
  <2> QED BY <1>3, <1>7, <2>1 DEF CallInv
<1>10. CallsRise'
  <2>1. ASSUME NEW i \in 1..Len(called) + 1, NEW j \in 1..Len(called) + 1, i < j
        PROVE  \/ Rank[called'[i][1]] < Rank[called'[j][1]]
               \/ called'[i][1] = called'[j][1] /\ called'[i][2] < called'[j][2]
    <3>1. i \in 1..Len(called) /\ called'[i] = called[i]
      BY <1>7, <1>8, <2>1
    <3>2. CASE j \in 1..Len(called)
      <4>1. /\ i \in DOMAIN called /\ j \in DOMAIN called /\ called'[j] = called[j]
        BY <1>7, <1>8, <3>1, <3>2
      <4>2. CallsRise
        BY DEF CallInv
      <4>3. \/ Rank[called[i][1]] < Rank[called[j][1]]
            \/ called[i][1] = called[j][1] /\ called[i][2] < called[j][2]
        BY <2>1, <4>1, <4>2 DEF CallsRise
      <4> QED BY <3>1, <4>1, <4>3
    <3>3. CASE j = Len(called) + 1
      <4>1. called'[j] = c
        BY <1>8, <3>3
      <4>2. Rank[called[i][1]] < Rank[phase] \/ called[i][1] = phase
        BY <1>1, <1>9, <3>1, Ranks
      <4>3. called[i][1] = phase => called[i][2] < s[n]
        <5>1. n \in n..walk.upto /\ i \in DOMAIN called
          BY <1>2, <1>7, <3>1
        <5> QED BY <1>5, <5>1
      <4> QED BY <1>6, <3>1, <4>1, <4>2, <4>3
    <3> QED BY <1>7, <3>2, <3>3
  <2> QED BY <1>8, <2>1 DEF CallsRise
<1>11. \A h : h \in ToSet(called) \/ h = c => h \in ToSet(called')
  <2>1. ToSet(called) \subseteq ToSet(called')
    BY <1>7, <1>8 DEF ToSet
  <2>2. c \in ToSet(called')
    <3>1. Len(called) + 1 \in DOMAIN called'
      BY <1>7, <1>8
    <3> QED BY <1>8, <3>1 DEF ToSet
  <2> QED BY <2>1, <2>2
<1>12. KeptCalled'
  <2>1. phase # "host" /\ phase # "work"
    BY <1>1, Ranks
  <2>2. ASSUME NEW h \in kept, Rank[h[1]] < Rank[phase] PROVE h \in ToSet(called')
    BY <1>3, <1>11, <2>1, <2>2 DEF CallInv, KeptCalled
  <2>3. ASSUME NEW h \in kept, h[1] = phase
        PROVE  h \in ToSet(called') \/ \E j \in n + 1..walk.upto : s[j] = h[2]
    <3>1. h \in ToSet(called) \/ \E j \in n..walk.upto : s[j] = h[2]
      BY <1>3, <2>1, <2>3 DEF CallInv, KeptCalled, s
    <3>2. h = <<h[1], h[2]>>
      BY DEF CallInv
    <3>3. ASSUME NEW j \in n..walk.upto, s[j] = h[2], ~(j \in n + 1..walk.upto) PROVE h = c
      <4>1. j = n
        BY <1>2, <3>3
      <4> QED BY <2>3, <3>2, <3>3, <4>1 DEF c
    <3> QED BY <1>11, <3>1, <3>3
  <2> QED BY <1>1, <1>2, <1>3, <2>1, <2>2, <2>3 DEF KeptCalled, s
<1>13. LoopRises'
  <2>1. ASSUME NEW i \in 1..Len(called) + 1, NEW j \in n + 1..walk.upto, called'[i][1] = phase
        PROVE  called'[i][2] < s[j]
    <3>1. j \in 1..Len(s) /\ n < j /\ j \in n..walk.upto
      BY <1>2, <1>4, <1>5, SMTT(30)
    <3>2. CASE i \in 1..Len(called)
      BY <1>5, <1>7, <1>8, <2>1, <3>1, <3>2
    <3>3. CASE i = Len(called) + 1
      BY <1>4, <1>6, <1>8, <3>1, <3>3 DEF Rising
    <3> QED BY <1>7, <3>2, <3>3
  <2> QED BY <1>1, <1>2, <1>3, <1>5, <1>8, <2>1 DEF LoopRises, s
<1>14. \A i \in DOMAIN called' : Rank[called'[i][1]] <= RankNow'
  BY <1>1, <1>3, <1>6, <1>7, <1>8, <1>9, Ranks, SMTT(30)
<1>15. /\ WalkOK(walk)' /\ phase' \in Phases /\ (phase \in Lists <=> walk # NoWalk)'
       /\ kept' \subseteq Lists \X Nat /\ (\A h \in kept' : Registered(h)') /\ phase' # "host"
  BY <1>1, <1>2, Ranks DEF CallInv, WalkOK, NoWalk, Registered, Has
<1> QED BY <1>8, <1>10, <1>12, <1>13, <1>14, <1>15 DEF CallInv

(* A list of handlers is only made longer. *)
Lengthened(l) ==
    /\ Len(handlers'[l]) \in Nat /\ Len(handlers[l]) <= Len(handlers'[l])
    /\ \A n \in 1..Len(handlers[l]) : handlers'[l][n] = handlers[l][n]

LEMMA ReachedIsNat == ASSUME NEW w, WalkOK(w), w # NoWalk PROVE Reached(w) \in Nat
BY DEF WalkOK, Reached

(* User code leaves the list that a loop goes on with as it is, or makes it *)
(* longer, unless it breaks the loop.                                      *)
LEMMA UserCodeKeepsCalls ==
  ASSUME HandlerInv, CallInv, UserCode, UNCHANGED stepVars, kept' = {h \in kept : Registered(h)'},
         wild => wild', ~wild' /\ HasMore(walk) => Lengthened(phase)
  PROVE  CallInv'
<1>1. phase' = phase /\ walk' = walk /\ called' = called
  BY DEF stepVars
<1>2. Reached(walk)' = Reached(walk) /\ RankNow' = RankNow /\ Before' = Before
  BY <1>1 DEF Reached, RankNow, Before
<1>3. WalkOK(walk) /\ (phase \in Lists <=> walk # NoWalk) /\ walk.upto \in Nat /\ Reached(walk) \in Int
  BY DEF CallInv, WalkOK, Reached
<1>4. ASSUME phase \in Lists, ~wild', Reached(walk) < walk.upto
      PROVE  /\ walk.upto <= Len(handlers[phase]) /\ walk.upto <= Len(handlers'[phase])
             /\ \A j \in Before : handlers'[phase][j] = handlers[phase][j]
  <2>1. HasMore(walk)
    BY <1>3, <1>4, Ranks DEF UserCode, HasMore, Reached
  <2>2. walk.upto <= Len(handlers[phase])
    BY <1>4 DEF CallInv, LoopRises
  <2>3. Lengthened(phase)
    BY <1>4, <2>1
  <2>4. Reached(walk) \in Nat
    BY <1>3, <1>4, ReachedIsNat
  <2>5. Len(handlers[phase]) \in Nat
    BY <1>4 DEF HandlerInv
  <2> DEFINE most == Len(handlers[phase])
  <2> HIDE DEF most
  <2>6. \A j \in Before : j \in 1..most
    BY <1>3, <2>2, <2>4, <2>5 DEF Before, most
  <2>7. walk.upto <= Len(handlers'[phase])
    <3> DEFINE more == Len(handlers'[phase])
    <3>1. most <= more /\ most \in Nat /\ walk.upto <= most
      BY <2>2, <2>3, <2>5 DEF Lengthened, most
    <3> HIDE DEF more
    <3>2. more \in Nat
      BY <2>3 DEF Lengthened, more
    <3> QED BY <1>3, <3>1, <3>2 DEF more
  <2> QED BY <2>2, <2>3, <2>6, <2>7 DEF Lengthened, most
<1>5. ~(Reached(walk) < walk.upto) => Before = {}
  BY <1>3 DEF Before
<1>6. phase # "host" => KeptCalled'
  <2> SUFFICES ASSUME phase # "host" PROVE KeptCalled'
    OBVIOUS
  <2>1. ASSUME NEW h \in kept', phase = h[1], ~wild'
        PROVE  h \in ToSet(called) \/ \E j \in Before : handlers'[phase][j] = h[2]
    <3>1. h \in kept /\ h[1] \in Lists
      BY DEF CallInv
    <3>2. h \in ToSet(called) \/ \E j \in Before : handlers[phase][j] = h[2]
      BY <2>1, <3>1 DEF CallInv, KeptCalled
    <3> QED BY <1>4, <1>5, <2>1, <3>1, <3>2
  <2>2. kept' \subseteq kept
    OBVIOUS
  <2>3. \A h \in kept : Rank[h[1]] < RankNow \/ (phase = "work" /\ h[1] = "TickBegin") => h \in ToSet(called)
    BY DEF CallInv, KeptCalled
  <2> QED BY <1>1, <1>2, <2>1, <2>2, <2>3 DEF KeptCalled
<1>7. LoopRises'
  <2>1. ASSUME phase \in Lists, ~wild', Reached(walk) < walk.upto
        PROVE  /\ walk.upto <= Len(handlers'[phase])
               /\ \A i \in DOMAIN called : \A j \in Before :
                    called[i][1] = phase => called[i][2] < handlers'[phase][j]
    BY <1>4, <2>1 DEF CallInv, LoopRises
  <2> QED BY <1>1, <1>2, <2>1 DEF LoopRises
<1>8. CallsRise' /\ (phase' = "host" => called' = << >> /\ kept' = {})
  BY <1>1 DEF CallInv, CallsRise
<1>9. \A h \in kept' : Registered(h)'
  OBVIOUS
<1>10. /\ WalkOK(walk)' /\ phase' \in Phases /\ (phase \in Lists <=> walk # NoWalk)'
       /\ called' \in Seq(Lists \X Nat) /\ kept' \subseteq Lists \X Nat
       /\ phase' # "host" => \A i \in DOMAIN called' : Rank[called'[i][1]] <= RankNow'
  BY <1>1, <1>2 DEF CallInv, WalkOK, NoWalk
<1> QED BY <1>1, <1>6, <1>7, <1>8, <1>9, <1>10 DEF CallInv

LEMMA ChangeKeepsCalls ==
  ASSUME HandlerInv, CallInv, UserCode, ChangeHandlers
  PROVE  CallInv'
<1>1. UNCHANGED stepVars /\ kept' = {h \in kept : Registered(h)'}
  BY DEF ChangeHandlers
<1>2. /\ handlers \in [Lists -> Seq(Nat)] /\ nextId \in Nat /\ nextAfterId \in Nat
      /\ \A l \in Lists : Len(handlers[l]) \in Nat
  BY MaxHandlersAssumption DEF HandlerInv
<1>3. ASSUME NEW l \in Lists, NEW id \in Nat, handlers' = [handlers EXCEPT ![l] = Append(@, id)]
      PROVE  \A k \in Lists : Lengthened(k)
  <2>1. /\ Append(handlers[l], id) \in Seq(Nat) /\ Len(Append(handlers[l], id)) = Len(handlers[l]) + 1
        /\ \A n \in 1..Len(handlers[l]) : Append(handlers[l], id)[n] = handlers[l][n]
    BY <1>2
  <2> QED BY <1>2, <1>3, <2>1 DEF Lengthened
<1>4. HasMore(walk) => phase \in Lists
  BY StandStill DEF CallInv, HasMore
<1>5. ASSUME NEW l \in BusLists, Listen(l, Walked) PROVE CallInv'
  <2>1. handlers' = [handlers EXCEPT ![l] = Append(@, nextId + 1)]
    BY <1>5 DEF Listen, Registering
  <2>2. wild => wild'
    BY <1>5 DEF Listen, Registering, PushMoves
  <2>3. l \in Lists /\ nextId + 1 \in Nat
    BY <1>2 DEF Lists
  <2> QED BY <1>1, <1>3, <1>4, <2>1, <2>2, <2>3, UserCodeKeepsCalls
<1>6. ASSUME AfterTick(Walked) PROVE CallInv'
  <2>1. handlers' = [handlers EXCEPT !["AfterTick"] = Append(@, nextAfterId + 1)]
    BY <1>6 DEF AfterTick, Registering
  <2>2. wild => wild'
    BY <1>6 DEF AfterTick, Registering, PushMoves
  <2>3. "AfterTick" \in Lists /\ nextAfterId + 1 \in Nat
    BY <1>2 DEF Lists
  <2> QED BY <1>1, <1>3, <1>4, <2>1, <2>2, <2>3, UserCodeKeepsCalls
<1>7. ASSUME NEW h \in issued, Unlisten(h[1], h[2], Walked) PROVE CallInv'
  <2>1. (wild => wild') /\ (~wild' => (Walked \in Lists => handlers'[Walked] = handlers[Walked]))
    BY <1>7 DEF Unlisten
  <2>2. ASSUME ~wild', HasMore(walk) PROVE Lengthened(phase)
    <3>1. phase \in Lists /\ handlers'[phase] = handlers[phase]
      BY <1>4, <2>1, <2>2 DEF Walked
    <3> QED BY <1>2, <3>1 DEF Lengthened
  <2> QED BY <1>1, <2>1, <2>2, UserCodeKeepsCalls
<1> QED BY <1>5, <1>6, <1>7 DEF ChangeHandlers

LEMMA StepKeepsCalls ==
  ASSUME HandlerInv, CallInv, ~wild, UNCHANGED wild, TickStep
  PROVE  CallInv'
<1>1. CASE CallHandler
  BY <1>1, CallHandlerKeepsCalls
<1>2. CASE HandlerReturns
  <2>1. /\ walk.inside /\ walk' = Leave(walk)
        /\ UNCHANGED <<wild, handlers, kept, phase, called>>
    BY <1>2 DEF HandlerReturns, handlerVars
  <2>2. WalkOK(walk)
    BY DEF CallInv
  <2>3. /\ WalkOK(walk') /\ walk' # NoWalk /\ walk # NoWalk /\ walk'.at = walk.at + 1
        /\ walk'.upto = walk.upto /\ ~walk'.inside /\ walk.at \in Nat
    BY <2>1, <2>2, StepOut DEF WalkOK
  <2>4. Reached(walk)' = Reached(walk) /\ RankNow' = RankNow /\ Before' = Before
    BY <2>1, <2>3 DEF Reached, RankNow, Before
  <2>5. WalkOK(walk)' /\ (phase \in Lists <=> walk # NoWalk)'
    BY <2>1, <2>3 DEF CallInv, WalkOK, NoWalk
  <2>6. KeptCalled' <=> KeptCalled
    BY <2>1, <2>4 DEF KeptCalled
  <2>7. LoopRises' <=> LoopRises
    BY <2>1, <2>3, <2>4 DEF LoopRises
  <2> QED BY <2>1, <2>4, <2>5, <2>6, <2>7 DEF CallInv, CallsRise, Registered, Has
<1>3. CASE Work
  <2>1. /\ phase = "TickBegin" /\ WalkedOut(walk) /\ phase' = "work" /\ walk' = NoWalk
        /\ UNCHANGED <<wild, handlers, kept, called>>
    BY <1>3 DEF Work, handlerVars
  <2>2. \A h \in kept : h[1] \in Lists /\ (h[1] = "TickBegin" => h \in ToSet(called))
    BY <2>1, WalkedCalled, Ranks DEF CallInv
  <2>3. RankNow = 1 /\ RankNow' = 1
    BY <2>1, Ranks DEF RankNow
  <2>4. KeptCalled'
    <3>1. \A h \in kept : ~(Rank[h[1]] < 1) /\ h[1] # "work"
      BY <2>2, Ranks
    <3> QED BY <2>1, <2>2, <2>3, <3>1 DEF KeptCalled
  <2>5. LoopRises' /\ WalkOK(walk)' /\ (phase \in Lists <=> walk # NoWalk)' /\ phase' \in Phases
    BY <2>1, StandStill, Ranks DEF LoopRises, WalkOK, NoWalk, Phases
  <2>6. phase # "host" /\ phase' # "host"
    BY <2>1
  <2> QED BY <2>1, <2>3, <2>4, <2>5, <2>6 DEF CallInv, CallsRise, Registered, Has
<1>4. CASE WorkDone
  <2>1. /\ phase = "work" /\ Fire("AfterTick") /\ UNCHANGED <<wild, handlerVars, kept, called>>
    BY <1>4 DEF WorkDone
  <2>2. ASSUME NEW h \in kept, Rank[h[1]] = RankNow PROVE h \in ToSet(called)
    <3>1. h[1] = "TickBegin"
      <4>1. h[1] \in Lists /\ Rank[h[1]] = 1
        BY <2>1, <2>2 DEF CallInv, RankNow
      <4> QED BY <4>1, Ranks
    <3> QED BY <2>1, <3>1 DEF CallInv, KeptCalled
  <2>3. Rank["AfterTick"] = RankNow + 1 /\ "AfterTick" \in Lists
    BY <2>1, Ranks DEF RankNow
  <2> QED BY <2>1, <2>2, <2>3, FiringKeepsCalls
<1>5. CASE FireTickEnd
  <2>1. /\ phase = "AfterTick" /\ WalkedOut(walk) /\ Fire("TickEnd")
        /\ UNCHANGED <<wild, handlerVars, kept, called>>
    BY <1>5 DEF FireTickEnd
  <2>2. ASSUME NEW h \in kept, Rank[h[1]] = RankNow PROVE h \in ToSet(called)
    <3>1. h[1] = "AfterTick"
      <4>1. h[1] \in Lists /\ Rank[h[1]] = 2
        BY <2>1, <2>2, Ranks DEF CallInv, RankNow
      <4> QED BY <4>1, Ranks
    <3> QED BY <2>1, <3>1, WalkedCalled, Ranks
  <2>3. Rank["TickEnd"] = RankNow + 1 /\ "TickEnd" \in Lists /\ phase # "host"
    BY <2>1, Ranks DEF RankNow
  <2> QED BY <2>1, <2>2, <2>3, FiringKeepsCalls
<1>6. CASE EndSubTick
  <2>1. CASE BeginSubTick
    BY <1>6, <2>1, BeginningKeepsCalls DEF EndSubTick
  <2>2. CASE phase' = "host" /\ walk' = NoWalk /\ called' = << >> /\ kept' = {}
    <3>1. WalkOK(walk)' /\ (phase \in Lists <=> walk # NoWalk)' /\ phase' \in Phases
      BY <2>2, StandStill, Ranks DEF WalkOK, NoWalk, Phases
    <3>2. phase' = "host" /\ phase' \notin Lists /\ DOMAIN called' = {} /\ called' \in Seq(Lists \X Nat)
      BY <2>2, Ranks
    <3> QED BY <2>2, <3>1, <3>2 DEF CallInv, CallsRise, LoopRises
  <2> QED BY <1>6, <2>1, <2>2 DEF EndSubTick
<1> QED BY <1>1, <1>2, <1>3, <1>4, <1>5, <1>6 DEF TickStep

LEMMA NextKeepsCalls ==
  ASSUME HandlerInv, CallInv, [CallbacksNext]_callbackVars
  PROVE  CallInv'
<1>1. CASE UNCHANGED <<handlers, phase, walk, called, kept>> /\ (wild => wild')
  <2>1. Reached(walk)' = Reached(walk) /\ RankNow' = RankNow /\ Before' = Before
    BY <1>1 DEF Reached, RankNow, Before
  <2>2. (phase # "host" => KeptCalled) => (phase' # "host" => KeptCalled')
    BY <1>1, <2>1 DEF KeptCalled
  <2>3. LoopRises => LoopRises'
    BY <1>1, <2>1 DEF LoopRises
  <2>4. WalkOK(walk)' /\ (phase \in Lists <=> walk # NoWalk)' /\ CallsRise'
    BY <1>1 DEF CallInv, WalkOK, NoWalk, CallsRise
  <2> QED BY <1>1, <2>1, <2>2, <2>3, <2>4 DEF CallInv, Registered, Has
<1>2. CASE TickNext /\ ~wild
  <2>1. ASSUME NEW delta \in Deltas, Tick(delta), UNCHANGED wild PROVE CallInv'
    <3>1. CASE BeginSubTick
      BY <2>1, <3>1, BeginningKeepsCalls DEF Tick
    <3>2. CASE UNCHANGED <<phase, walk, called, kept>>
      BY <1>1, <2>1, <3>2 DEF Tick, handlerVars
    <3> QED BY <2>1, <3>1, <3>2 DEF Tick
  <2>2. ASSUME ChangeTime, UNCHANGED wild PROVE CallInv'
    BY <1>1, <2>2 DEF ChangeTime, Pause, SetTimestep, handlerVars, stepVars
  <2> QED BY <1>2, <2>1, <2>2, StepKeepsCalls, ChangeKeepsCalls DEF TickNext
<1>3. UNCHANGED tickVars => UNCHANGED <<handlers, phase, walk, called, kept>>
  BY DEF tickVars, handlerVars, stepVars
<1>4. TickNext => ~wild
  BY DEF TickNext
<1> QED BY <1>1, <1>2, <1>3, <1>4, WildForGood DEF CallbacksNext, Undefined, callbackVars

(* SPEC-017, SPEC-032: however many handlers there are and whatever they do *)
(* to the lists, a sub-tick calls none twice and those of a list in order,  *)
(* and all that were there when it began and stay.                         *)
THEOREM SubTickCallsOnce == CallbacksSpec => []HandlersCalledOnce
<1>1. ASSUME CallInv PROVE HandlersCalledOnce
  <2>1. ASSUME ~wild, phase = "TickEnd", WalkedOut(walk), NEW h \in kept PROVE h \in ToSet(called)
    <3>1. h[1] \in Lists /\ phase # "host" /\ phase # "work"
      BY <1>1, <2>1 DEF CallInv
    <3>2. CASE h[1] = phase
      BY <1>1, <2>1, <3>2, WalkedCalled, Ranks
    <3>3. CASE Rank[h[1]] < RankNow
      BY <1>1, <3>1, <3>3 DEF CallInv, KeptCalled
    <3> QED BY <2>1, <3>1, <3>2, <3>3, Ranks DEF RankNow
  <2> QED BY <1>1, <2>1 DEF CallInv, CallsRise, HandlersCalledOnce
<1> QED BY <1>1, HandlersHoldFirst, NextKeepsHandlers, CallsHoldFirst, NextKeepsCalls, PTL DEF CallbacksSpec

(* The parts of LoopTypeOK that no other invariant has. *)
TickTypes == paused \in BOOLEAN /\ fixed \in Steps \cup {0} /\ wild \in BOOLEAN

LEMMA TypesHoldFirst == CallbacksInit => TickTypes
BY DEF CallbacksInit, TickInit, TickTypes

LEMMA NextKeepsTypes == ASSUME TickTypes, [CallbacksNext]_callbackVars PROVE TickTypes'
<1>1. paused \in BOOLEAN /\ fixed \in Steps \cup {0} /\ wild \in BOOLEAN
  BY DEF TickTypes
<1>2. wild' \in BOOLEAN
  <2>1. ASSUME NEW list, NEW walked, PushMoves(list, walked) PROVE wild' \in BOOLEAN
    BY <2>1 DEF PushMoves
  <2>2. CASE EventNext
    BY <1>1, <2>1, <2>2 DEF EventNext, NextEvent, CallOn, OnReturns, EventDone, LoopReturns, RunLoop,
       On, EnqueueEvent, Off, BuildLoop
  <2>3. CASE RuleNext
    BY <1>1, <2>1, <2>3 DEF RuleNext, AddRule, RemoveRules, RunRules, EvaluateRule, RuleDone, RulesReturn
  <2>4. CASE PipeNext
    BY <1>1, <2>1, <2>4 DEF PipeNext, RunStages, CallStage, StageReturns, PipelineReturns, AddStage, RemoveStages
  <2>5. CASE TickNext
    BY <1>1, <2>1, <2>5 DEF TickNext, ChangeHandlers, Listen, AfterTick, Registering, Unlisten
  <2> QED BY <1>1, <2>2, <2>3, <2>4, <2>5 DEF CallbacksNext, Undefined, callbackVars
<1>3. paused' \in BOOLEAN /\ fixed' \in Steps \cup {0}
  <2>1. CASE TickNext
    BY <1>1, <2>1 DEF TickNext, TickStep, Tick, CallHandler, HandlerReturns, Work, WorkDone, FireTickEnd,
       EndSubTick, ChangeTime, Pause, SetTimestep, ChangeHandlers, timeVars
  <2>2. CASE UNCHANGED tickVars
    BY <1>1, <2>2 DEF tickVars, timeVars
  <2> QED BY <2>1, <2>2 DEF CallbacksNext, Undefined, callbackVars
<1> QED BY <1>2, <1>3 DEF TickTypes

(* The state of the tick loop has its types: the handlers of a list are     *)
(* numbers that were handed out for it, whatever the counters have reached. *)
THEOREM TickLoopTyped == CallbacksSpec => []LoopTypeOK
<1>1. ASSUME HandlerInv, CallInv, StatusInv, TimeInv, TickTypes PROVE LoopTypeOK
  <2>1. /\ handlers \in [Lists -> Seq(Nat)] /\ issued \subseteq Lists \X Nat
        /\ \A l \in Lists : \A id \in ToSet(handlers[l]) : <<l, id>> \in issued
        /\ \A h \in issued : h[2] \in Given(h[1])
    BY <1>1 DEF HandlerInv
  <2>2. ASSUME NEW l \in Lists PROVE handlers[l] \in Seq(Given(l))
    <3> DEFINE s == handlers[l]
    <3>1. s \in Seq(Nat) /\ DOMAIN s = 1..Len(s) /\ Len(s) \in Nat
      BY <2>1
    <3>2. ASSUME NEW n \in 1..Len(s) PROVE s[n] \in Given(l)
      <4>1. s[n] \in ToSet(s)
        <5> HIDE DEF s
        <5> QED BY <3>1 DEF ToSet
      <4>2. <<l, s[n]>> \in issued
        BY <2>1, <4>1
      <4> QED BY <2>1, <4>2
    <3> HIDE DEF s
    <3>3. s \in Seq(Given(l))
      BY <3>1, <3>2
    <3> QED BY <3>3 DEF s
  <2>3. /\ \A l \in BusLists : handlers[l] \in Seq(2..nextId)
        /\ handlers["AfterTick"] \in Seq(1..nextAfterId)
    BY <2>2, Ranks DEF Given, BusLists, Lists
  <2>4. walk.inside => phase \in Lists
    BY <1>1, StandStill DEF CallInv
  <2> QED BY <1>1, <2>3, <2>4 DEF HandlerInv, CallInv, StatusInv, TimeInv, TickTypes, LoopTypeOK
<1> QED BY <1>1, TypesHoldFirst, NextKeepsTypes, HandlersHoldFirst, NextKeepsHandlers, CallsHoldFirst,
   NextKeepsCalls, StatusInvHoldsFirst, NextKeepsStatus, TimeInvHoldsFirst, NextKeepsTime, PTL
   DEF CallbacksSpec
=============================================================================
