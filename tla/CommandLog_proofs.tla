------------------------- MODULE CommandLog_proofs -------------------------
(***************************************************************************)
(* Proofs that the runtime implements the ledger of its commands, and that *)
(* its history is a log from which the blocks can be rebuilt.              *)
(***************************************************************************)
EXTENDS CommandLog, GameRuntime_proofs, DataLemmas

(* Ids above the last one issued are untouched, and every issued one that  *)
(* is not settled is in the queue.                                         *)
LedgerInv ==
    /\ \A id \in CommandIds : id > nextCommandId => outcome[id] = "none"
    /\ \A id \in 1..nextCommandId : outcome[id] \in Settled \/ id \in IdsOf(pending)

LogInv == SchedInv /\ QueueInv /\ LedgerInv

(* What of the scheduler the ledger sees. *)
ledgerVars == <<nextCommandId, outcome, Withdrawn>>

LEMMA LedgerInitial == Init => Ledger!Init /\ LedgerInv
<1> SUFFICES ASSUME Init PROVE Ledger!Init /\ LedgerInv
  OBVIOUS
<1>1. nextCommandId = 0 /\ outcome = [id \in CommandIds |-> "none"] /\ cancelled = [id \in CommandIds |-> 0]
  BY DEF Init, SchedulerInit
<1>2. Withdrawn = {}
  BY <1>1 DEF Withdrawn
<1>3. LedgerInv
  BY <1>1 DEF LedgerInv
<1> QED BY <1>1, <1>2, <1>3 DEF Ledger!Init, Ledger!CommandIds, CommandIds

(* submit_command and replay_command issue the next id. *)
LEMMA EnqueueIsIssue ==
  ASSUME LogInv, NEW p \in Payloads, Enqueue(p)
  PROVE  Ledger!Issue /\ LedgerInv'
<1> DEFINE id == nextCommandId + 1
<1>1. /\ nextCommandId \in Nat /\ nextCommandId' = id /\ id \in CommandIds
      /\ pending \in Seq(Commands) /\ outcome \in [CommandIds -> Outcomes]
      /\ outcome' = [outcome EXCEPT ![id] = "pending"] /\ cancelled' = cancelled
      /\ pending' = Append(pending, [id |-> id, payload |-> p])
  BY CommandBounds DEF Enqueue, LogInv, SchedInv, SchedulerTypeOK, CommandIds
<1>2. CommandIds \subseteq Nat /\ \A n \in 1..nextCommandId : n \in CommandIds /\ n # id
  BY <1>1, CommandBounds DEF CommandIds
<1>3. outcome[id] = "none"
  BY <1>1 DEF LogInv, LedgerInv
<1>4. \A n \in CommandIds : /\ n # id => outcome'[n] = outcome[n]
                           /\ outcome'[n] \in {"none", "pending"} <=> outcome[n] \in {"none", "pending"}
  BY <1>1, <1>3
<1>5. Withdrawn' = Withdrawn
  BY <1>1, <1>4 DEF Withdrawn
<1>6. Ledger!Issue
  BY <1>1, <1>5 DEF Ledger!Issue, Ledger!CommandIds, CommandIds
<1>7. IdsOf(pending)' = IdsOf(pending) \cup {id}
  <2>1. /\ DOMAIN pending = 1..Len(pending) /\ Len(pending) \in Nat
        /\ DOMAIN pending' = 1..(Len(pending) + 1)
        /\ \A k \in 1..Len(pending) : pending'[k] = pending[k]
        /\ pending'[Len(pending) + 1].id = id
    BY <1>1
  <2> QED BY <2>1 DEF IdsOf
<1>8. \A n \in CommandIds : n > nextCommandId' => outcome'[n] = "none"
  BY <1>1, <1>2, <1>4 DEF LogInv, LedgerInv
<1>9. \A n \in 1..nextCommandId' : outcome'[n] \in Settled \/ n \in IdsOf(pending)'
  <2> SUFFICES ASSUME NEW n \in 1..nextCommandId', n # id
               PROVE  outcome'[n] \in Settled \/ n \in IdsOf(pending)'
    BY <1>7
  <2>1. n \in 1..nextCommandId
    BY <1>1
  <2>2. outcome[n] \in Settled \/ n \in IdsOf(pending)
    BY <2>1 DEF LogInv, LedgerInv
  <2>3. outcome'[n] = outcome[n]
    <3>1. n \in CommandIds /\ n # id
      BY <1>2, <2>1
    <3> QED BY <1>1, <3>1
  <2> QED BY <1>7, <2>2, <2>3
<1> QED BY <1>6, <1>8, <1>9 DEF LedgerInv

(* cancel_command withdraws an id that is not settled, and is nothing to   *)
(* the ledger otherwise.                                                   *)
LEMMA CancelIsWithdraw ==
  ASSUME LogInv, NEW id \in CommandIds, Cancel(id)
  PROVE  (Ledger!Withdraw(id) \/ UNCHANGED ledgerVars) /\ LedgerInv'
<1>1. /\ cancelled \in [CommandIds -> 0..MaxCancels] /\ MaxCancels \in Nat
      /\ cancelled' = [cancelled EXCEPT ![id] = @ + 1]
      /\ UNCHANGED <<pending, nextCommandId, outcome>>
  BY CommandBounds DEF Cancel, LogInv, SchedInv, SchedulerTypeOK
<1>2. \A n \in CommandIds : n # id => cancelled'[n] = cancelled[n]
  BY <1>1
<1>3. cancelled'[id] > 0
  BY <1>1
<1>4. CASE outcome[id] \in {"none", "pending"}
  <2>1. Withdrawn' = Withdrawn \cup {id}
    BY <1>1, <1>2, <1>3, <1>4 DEF Withdrawn
  <2> QED BY <1>1, <1>4, <2>1 DEF Ledger!Withdraw, Ledger!Unsettled, LogInv, LedgerInv, IdsOf
<1>5. CASE outcome[id] \notin {"none", "pending"}
  <2>1. Withdrawn' = Withdrawn
    BY <1>1, <1>2, <1>5 DEF Withdrawn
  <2> QED BY <1>1, <2>1 DEF ledgerVars, LogInv, LedgerInv, IdsOf
<1> QED BY <1>4, <1>5

(* Every command before the oldest pending one is settled. *)
LEMMA OlderAreSettled ==
  ASSUME LogInv, pending # << >>
  PROVE  /\ Next1.id \in 1..nextCommandId /\ Next1.id \in CommandIds
         /\ outcome[Next1.id] = "pending"
         /\ \A older \in 1..(Next1.id - 1) : outcome[older] \in Settled
<1>1. /\ pending \in Seq(Commands) /\ nextCommandId \in Nat
      /\ Len(pending) \in Nat \ {0} /\ DOMAIN pending = 1..Len(pending) /\ Next1 = pending[1]
  BY DEF LogInv, SchedInv, SchedulerTypeOK, Next1
<1>2. /\ Next1.id \in 1..nextCommandId /\ outcome[Next1.id] = "pending"
      /\ \A k \in DOMAIN pending : pending[k].id \in 1..nextCommandId
      /\ \A k \in DOMAIN pending : 1 < k => Next1.id < pending[k].id
  BY <1>1 DEF LogInv, QueueInv
<1>3. Next1.id \in CommandIds
  BY OldestIsCommand DEF LogInv, Commands
<1>4. ASSUME NEW older \in 1..(Next1.id - 1) PROVE outcome[older] \in Settled
  <2>1. older \in 1..nextCommandId
    BY <1>1, <1>2
  <2>2. older \notin IdsOf(pending)
    <3> SUFFICES ASSUME NEW k \in DOMAIN pending, older = pending[k].id PROVE FALSE
      BY DEF IdsOf
    <3>1. Next1.id <= pending[k].id
      BY <1>1, <1>2
    <3> QED BY <1>1, <1>2, <3>1
  <2> QED BY <2>1, <2>2 DEF LogInv, LedgerInv
<1> QED BY <1>2, <1>3, <1>4

(* process_command settles the oldest command: skipped if it was withdrawn, *)
(* executed or rejected if not.                                            *)
LEMMA ProcessIsSettle ==
  ASSUME LogInv, ProcessCommand
  PROVE  /\ \E id \in CommandIds, o \in Settled : Ledger!Settle(id, o)
         /\ LedgerInv'
<1> DEFINE id == Next1.id
<1>1. /\ pending # << >> /\ cancelled \in [CommandIds -> 0..MaxCancels] /\ MaxCancels \in Nat
      /\ outcome \in [CommandIds -> Outcomes] /\ pending \in Seq(Commands) /\ nextCommandId \in Nat
  BY CommandBounds DEF ProcessCommand, LogInv, SchedInv, SchedulerTypeOK
<1>2. /\ id \in 1..nextCommandId /\ id \in CommandIds /\ outcome[id] = "pending"
      /\ \A older \in 1..(id - 1) : outcome[older] \in Settled
  BY <1>1, OlderAreSettled
<1>3. PICK o \in Settled : /\ Settle(o)
                           /\ o = "skipped" <=> cancelled[id] > 0
                           /\ \A n \in CommandIds : n # id => cancelled'[n] = cancelled[n]
  <2>1. CASE Skip
    BY <1>1, <1>2, <2>1 DEF Skip, Settled
  <2>2. CASE Reject
    BY <1>1, <1>2, <2>2 DEF Reject, Settled
  <2>3. CASE Run
    BY <1>1, <1>2, <2>3 DEF Run, Settled
  <2> QED BY <2>1, <2>2, <2>3 DEF ProcessCommand
<1>4. /\ outcome' = [outcome EXCEPT ![id] = o] /\ pending' = Tail(pending)
      /\ nextCommandId' = nextCommandId
  BY <1>3 DEF Settle
<1>5. \A n \in CommandIds : n # id => outcome'[n] = outcome[n]
  BY <1>1, <1>4
<1>6. outcome'[id] = o /\ o \notin {"none", "pending"}
  BY <1>1, <1>2, <1>4 DEF Settled
<1>7. Withdrawn' = Withdrawn \ {id}
  BY <1>3, <1>5, <1>6 DEF Withdrawn
<1>8. id \in Withdrawn <=> o = "skipped"
  BY <1>2, <1>3 DEF Withdrawn
<1>9. \A older \in 1..(id - 1) : ~Ledger!Unsettled(older)
  BY <1>2 DEF Settled, Ledger!Unsettled
<1>10. Ledger!Settle(id, o)
  BY <1>2, <1>4, <1>7, <1>8, <1>9 DEF Ledger!Settle
<1>11. IdsOf(pending) \subseteq IdsOf(pending)' \cup {id}
  <2> SUFFICES ASSUME NEW k \in DOMAIN pending, k # 1
               PROVE  pending[k].id \in IdsOf(pending)'
    BY <1>1 DEF IdsOf, Next1
  <2>1. k - 1 \in DOMAIN pending' /\ pending'[k - 1] = pending[k]
    BY <1>1, <1>4
  <2> QED BY <2>1 DEF IdsOf
<1>12. LedgerInv'
  <2>1. \A n \in CommandIds : n > nextCommandId' => outcome'[n] = "none"
    BY <1>1, <1>2, <1>4, <1>5 DEF LogInv, LedgerInv
  <2>2. 1..nextCommandId \subseteq CommandIds
    BY CommandBounds DEF LogInv, SchedInv, SchedulerTypeOK, CommandIds
  <2>3. \A n \in 1..nextCommandId' : outcome'[n] \in Settled \/ n \in IdsOf(pending)'
    BY <1>4, <1>5, <1>6, <1>11, <2>2 DEF LogInv, LedgerInv
  <2> QED BY <2>1, <2>3 DEF LedgerInv
<1> QED BY <1>2, <1>10, <1>12

LEMMA StepIsLedgerStep ==
  RuntimeInv /\ BatchInv /\ LedgerInv /\ [Next]_vars => [Ledger!Next]_ledgerVars /\ LedgerInv'
<1> SUFFICES ASSUME RuntimeInv, BatchInv, LedgerInv, [Next]_vars
             PROVE  [Ledger!Next]_ledgerVars /\ LedgerInv'
  OBVIOUS
<1>1. LogInv
  BY DEF LogInv, RuntimeInv, BatchInv
<1>2. CASE Submit
  <2>1. PICK p \in Payloads : Enqueue(p)
    <3>1. CASE Replay
      <4>1. PICK k \in DOMAIN history : Enqueue(history[k].payload)
        BY <3>1 DEF Replay
      <4>2. history[k] \in Commands
        BY <1>1 DEF LogInv, SchedInv, SchedulerTypeOK
      <4> QED BY <4>1, <4>2 DEF Commands
    <3> QED BY <1>2, <3>1 DEF Submit
  <2> QED BY <1>1, <2>1, EnqueueIsIssue DEF Ledger!Next
<1>3. CASE CancelCommand
  <2>1. PICK id \in CommandIds : Cancel(id)
    BY <1>3 DEF CancelCommand
  <2> QED BY <1>1, <2>1, CancelIsWithdraw DEF Ledger!Next, Ledger!CommandIds, CommandIds
<1>4. CASE ProcessNext
  <2>1. /\ \E id \in CommandIds, o \in Settled : Ledger!Settle(id, o)
        /\ LedgerInv'
    BY <1>1, <1>4, ProcessIsSettle DEF ProcessNext
  <2> QED BY <2>1 DEF Ledger!Next, Ledger!CommandIds, CommandIds, Settled
<1>5. CASE ~(Submit \/ CancelCommand \/ ProcessNext)
  <2>1. UNCHANGED <<pending, cancelled, nextCommandId, outcome>>
    BY <1>5 DEF Next, HostStep, TickStep, PauseOrResume, Listen, RegisterType, DirectCall,
         BeginTick, StartControllers, ControllerSignals, ControllerFails, StartProcessing,
         FinishProcessing, CleanUp, CallAfterTick, EndTick, ResetCounts, TakeRejected,
         schedulerVars, vars
  <2> QED BY <2>1 DEF ledgerVars, Withdrawn, LedgerInv, IdsOf
<1> QED BY <1>2, <1>3, <1>4, <1>5

-----------------------------------------------------------------------------
(* The tick loop, its queue and the cancel list implement the ledger: each  *)
(* command is settled once and in order, and not executed if withdrawn.    *)
THEOREM RuntimeImplementsLedger == Spec => ImplementsLedger
<1>1. RuntimeInv /\ BatchInv /\ LedgerInv /\ [Next]_vars
        => [Ledger!Next]_<<nextCommandId, outcome, Withdrawn>> /\ LedgerInv'
  BY StepIsLedgerStep DEF ledgerVars
<1> QED BY <1>1, LedgerInitial, RuntimeInvAlways, BatchInvAlways, PTL
        DEF Spec, ImplementsLedger, Ledger!Spec
-----------------------------------------------------------------------------
(* The recursive function of Progress exists, and so does what it says.    *)
LEMMA ProgressExists ==
  ASSUME NEW h, Len(h) \in Nat
  PROVE  Progress(h) = [n \in 0..Len(h) |->
           IF n = 0 THEN [last |-> 0, live |-> NoBlocks] ELSE Apply(Progress(h)[n - 1], h[n])]
<1> DEFINE Body(f, m) == [n \in 0..m |->
             IF n = 0 THEN [last |-> 0, live |-> NoBlocks] ELSE Apply(f[n - 1], h[n])]
           S == {m \in Nat : \E f : f = Body(f, m)}
<1>1. 0 \in S
  <2> DEFINE f == [n \in 0..0 |-> [last |-> 0, live |-> NoBlocks]]
  <2>1. f = Body(f, 0)
    OBVIOUS
  <2> QED BY <2>1
<1>2. ASSUME NEW m \in Nat, m \in S PROVE m + 1 \in S
  <2>1. PICK f : f = Body(f, m)
    BY <1>2
  <2> DEFINE g == [n \in 0..(m + 1) |-> IF n <= m THEN f[n] ELSE Apply(f[m], h[m + 1])]
  <2>2. ASSUME NEW n \in 0..(m + 1)
        PROVE  g[n] = IF n = 0 THEN [last |-> 0, live |-> NoBlocks] ELSE Apply(g[n - 1], h[n])
    <3>1. CASE n = 0
      BY <2>1, <3>1
    <3>2. CASE n \in 1..m
      <4>1. g[n] = f[n] /\ g[n - 1] = f[n - 1]
        BY <3>2
      <4>2. f[n] = Apply(f[n - 1], h[n])
        BY <2>1, <3>2
      <4> QED BY <3>2, <4>1, <4>2
    <3>3. CASE n = m + 1
      <4>1. g[n] = Apply(f[m], h[m + 1]) /\ g[n - 1] = f[m]
        BY <3>3
      <4> QED BY <3>3, <4>1
    <3> QED BY <3>1, <3>2, <3>3
  <2>3. g = Body(g, m + 1)
    BY <2>2
  <2> HIDE DEF g
  <2>4. \E f1 : f1 = Body(f1, m + 1)
    BY <2>3
  <2> QED BY <2>4
<1> HIDE DEF S
<1>3. Len(h) \in S
  BY <1>1, <1>2, NumberInduction
<1>4. \E f : f = Body(f, Len(h))
  BY <1>3 DEF S
<1> QED BY <1>4 DEF Progress

(* A longer history passes through the same logs. *)
LEMMA ProgressOfAppend ==
  ASSUME NEW T, NEW h \in Seq(T), NEW c
  PROVE  LET k == Append(h, c) IN
         Progress(k)[Len(k)] = Apply(Progress(h)[Len(h)], c)
<1> DEFINE k == Append(h, c)
           P == Progress(h)
           Q == Progress(k)
           S == {n \in Nat : n <= Len(h) => Q[n] = P[n]}
<1>1. /\ Len(h) \in Nat /\ Len(k) = Len(h) + 1 /\ k[Len(k)] = c
      /\ \A n \in 1..Len(h) : k[n] = h[n]
  OBVIOUS
<1>2. /\ P = [n \in 0..Len(h) |->
               IF n = 0 THEN [last |-> 0, live |-> NoBlocks] ELSE Apply(P[n - 1], h[n])]
      /\ Q = [n \in 0..Len(k) |->
               IF n = 0 THEN [last |-> 0, live |-> NoBlocks] ELSE Apply(Q[n - 1], k[n])]
  BY <1>1, ProgressExists
<1> HIDE DEF P, Q, k
<1>3. 0 \in S
  BY <1>1, <1>2
<1>4. ASSUME NEW n \in Nat, n \in S PROVE n + 1 \in S
  <2> SUFFICES ASSUME n + 1 <= Len(h) PROVE Q[n + 1] = P[n + 1]
    OBVIOUS
  <2>1. Q[n] = P[n] /\ k[n + 1] = h[n + 1]
    BY <1>1, <1>4
  <2>2. P[n + 1] = Apply(P[n], h[n + 1])
    BY <1>1, <1>2
  <2>3. Q[n + 1] = Apply(Q[n], k[n + 1])
    BY <1>1, <1>2
  <2> QED BY <2>1, <2>2, <2>3
<1> HIDE DEF S
<1>5. Len(h) \in S
  BY <1>1, <1>3, <1>4, NumberInduction
<1>6. Q[Len(h)] = P[Len(h)]
  BY <1>1, <1>5 DEF S
<1>7. Q[Len(k)] = Apply(Q[Len(h)], c)
  BY <1>1, <1>2
<1> QED BY <1>6, <1>7 DEF P, Q, k

-----------------------------------------------------------------------------
(* Filling up with blanks and cutting off is resizing. *)
LEMMA PaddedPrefix ==
  ASSUME NEW d \in Seq(Values), NEW n \in Nat, Blank \in Values
  PROVE  Resized(d, n) = SubSeq(d \o [k \in 1..n |-> Blank], 1, n)
<1> DEFINE b == [k \in 1..n |-> Blank]
<1>1. b \in Seq(Values) /\ Len(b) = n
  OBVIOUS
<1>2. d \o b \in Seq(Values) /\ Len(d \o b) = Len(d) + n /\ Len(d) \in Nat
  BY <1>1
<1>3. ASSUME NEW k \in 1..n PROVE (d \o b)[k] = IF k <= Len(d) THEN d[k] ELSE Blank
  BY <1>1, <1>2
<1>4. SubSeq(d \o b, 1, n) = [k \in 1..n |-> (d \o b)[k]]
  BY <1>1, <1>2
<1> QED BY <1>3, <1>4 DEF Resized

(* What a handler does to the blocks is what its command says. *)
LEMMA ExecuteIsApply ==
  ASSUME StoreInv, NEW c \in Commands, Valid(c.payload), Execute(c.payload)
  PROVE  Apply([last |-> nextIdentity, live |-> blocks], c)
           = [last |-> nextIdentity, live |-> blocks]'
<1> DEFINE p   == c.payload
           log == [last |-> nextIdentity, live |-> blocks]
<1>1. p \in PayloadSpace
  BY PayloadAssumption DEF Commands
<1>2. /\ nextIdentity \in Nat /\ nextIdentity + 1 \notin Identities
      /\ Identities = DOMAIN blocks /\ blocks = [i \in DOMAIN blocks |-> blocks[i]]
      /\ blocks \in [Identities -> [type : TypeIds, data : Seq(Values)]]
      /\ \A i \in Identities : blocks[i].data \in Seq(Values)
  BY IdentityAssumption DEF StoreInv, IndexInv, Identities, Data
<1>3. CASE p.op = "create"
  <2>1. /\ nextIdentity' = nextIdentity + 1
        /\ blocks' = Extend(blocks, nextIdentity + 1, [type |-> p.type, data |-> Zeroed(SizeOf[p.type])])
    BY <1>3 DEF Execute, CommandCreate, Insert
  <2>2. Zeroed(SizeOf[p.type]) = [k \in 1..SizeOf[p.type] |-> Blank]
    BY DEF Zeroed, Resized
  <2> QED BY <1>2, <1>3, <2>1, <2>2 DEF Apply, Extend
<1>4. CASE p.op = "destroy"
  <2>1. nextIdentity' = nextIdentity /\ blocks' = [i \in Identities \ (p.targets \cap Identities) |-> blocks[i]]
    BY <1>4 DEF Execute, CommandDestroy, Erase, Without, Identities
  <2>2. Identities \ (p.targets \cap Identities) = DOMAIN blocks \ p.targets
    BY DEF Identities
  <2> QED BY <1>2, <1>4, <2>1, <2>2 DEF Apply
<1>5. CASE p.op = "resize"
  <2> DEFINE New(d)  == Resized(d, p.size)
             Said(d) == SubSeq(d \o [k \in 1..p.size |-> Blank], 1, p.size)
  <2>1. nextIdentity' = nextIdentity /\ Rewrite(p.targets, New)
    BY <1>5 DEF Execute, CommandResize, Rewrite
  <2>2. p.size \in Nat
    BY <1>1, <1>5, RangeAssumption DEF PayloadSpace
  <2>3. ASSUME NEW i \in Identities PROVE New(blocks[i].data) = Said(blocks[i].data)
    BY <1>2, <2>2, PaddedPrefix, BlankAssumption
  <2>4. Apply(log, c) = [last |-> nextIdentity, live |-> Edited(blocks, p.targets, Said)]
    BY <1>5 DEF Apply
  <2> HIDE DEF New, Said
  <2>5. blocks' = Edited(blocks, p.targets, Said)
    BY <1>2, <2>1, <2>3 DEF Rewrite, Edited
  <2> QED BY <2>1, <2>4, <2>5
<1>6. CASE p.op = "set"
  <2> DEFINE New(d) == [d EXCEPT ![p.offset] = p.value]
  <2>1. nextIdentity' = nextIdentity /\ Rewrite(p.targets, New)
    BY <1>6 DEF Execute, CommandSetField, Rewrite
  <2>2. Apply(log, c) = [last |-> nextIdentity, live |-> Edited(blocks, p.targets, New)]
    BY <1>6 DEF Apply
  <2> HIDE DEF New
  <2>3. blocks' = Edited(blocks, p.targets, New)
    BY <1>2, <2>1 DEF Rewrite, Edited
  <2> QED BY <2>1, <2>2, <2>3
<1> QED BY <1>3, <1>4, <1>5, <1>6 DEF Execute

LEMMA LogStep ==
  RuntimeInv /\ BatchInv /\ HistoryRebuildsBlocks /\ [Next]_vars => HistoryRebuildsBlocks'
<1> SUFFICES ASSUME RuntimeInv, BatchInv, HistoryRebuildsBlocks, [Next]_vars,
                    ~DirectApi, Ephemeral = {}
             PROVE  Rebuilt' = [last |-> nextIdentity, live |-> blocks]'
  BY DEF HistoryRebuildsBlocks
<1>1. /\ history \in Seq(Commands) /\ StoreInv /\ SchedInv
      /\ Rebuilt = [last |-> nextIdentity, live |-> blocks]
  BY DEF HistoryRebuildsBlocks, RuntimeInv, SchedInv, SchedulerTypeOK
<1>2. CASE phase = "processing" /\ pending # << >> /\ Run
  <2>1. Next1 \in Commands /\ Valid(Next1.payload) /\ Execute(Next1.payload)
    BY <1>1, <1>2, OldestIsCommand DEF Run
  <2>2. Apply(Rebuilt, Next1) = [last |-> nextIdentity, live |-> blocks]'
    BY <1>1, <2>1, ExecuteIsApply
  <2>3. history' = Append(history, Next1)
    BY <1>2 DEF Run
  <2>4. Rebuilt' = Progress(Append(history, Next1))[Len(Append(history, Next1))]
    BY <2>3 DEF Rebuilt
  <2>5. Rebuilt' = Apply(Rebuilt, Next1)
    BY <1>1, <2>4, ProgressOfAppend DEF Rebuilt
  <2> QED BY <2>2, <2>5
<1>3. CASE ~(phase = "processing" /\ pending # << >> /\ Run)
  <2>1. UNCHANGED <<history, blocks, nextIdentity>>
    BY <1>3 DEF Next, HostStep, TickStep, PauseOrResume, Listen, RegisterType, DirectCall, Submit,
         Replay, Enqueue, CancelCommand, Cancel, ProcessNext, ProcessCommand, Skip, Reject,
         BeginTick, StartControllers, ControllerSignals, ControllerFails, StartProcessing,
         FinishProcessing, CleanUp, CallAfterTick, EndTick, ResetCounts, TakeRejected, RebuildCounts,
         CreateEphemeral, DestroyLowestEphemeral, EphemeralIds, schedulerVars, storeVars, vars
  <2> QED BY <1>1, <2>1 DEF Rebuilt
<1> QED BY <1>2, <1>3

(* When blocks are changed by commands only, the commands executed so far,  *)
(* applied to an empty runtime, give its blocks, bytes and next identity.   *)
THEOREM RuntimeHistoryRebuilds == Spec => []HistoryRebuildsBlocks
<1>1. Init => HistoryRebuildsBlocks
  <2> SUFFICES ASSUME Init PROVE Rebuilt = [last |-> nextIdentity, live |-> blocks]
    BY DEF HistoryRebuildsBlocks
  <2>1. history = << >> /\ blocks = NoBlocks /\ nextIdentity = 0
    BY DEF Init, SchedulerInit, BMInit, NoBlocks
  <2>2. Progress(history)[0] = [last |-> 0, live |-> NoBlocks]
    BY <2>1, ProgressExists
  <2> QED BY <2>1, <2>2 DEF Rebuilt
<1> QED BY <1>1, LogStep, RuntimeInvAlways, BatchInvAlways, PTL DEF Spec
=============================================================================
