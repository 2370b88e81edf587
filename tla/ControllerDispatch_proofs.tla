--------------------- MODULE ControllerDispatch_proofs ----------------------
(***************************************************************************)
(* Proofs about the controller phase: what the sort and the grouping       *)
(* return for every list of controllers, and from that which controllers   *)
(* may run together and in which order they start.                         *)
(***************************************************************************)
EXTENDS ControllerDispatch, FiniteSetTheorems, DataLemmas

-----------------------------------------------------------------------------
(* The stable sort. *)

(* a goes before b in the order that the sort keeps. *)
Before(a, b) ==
    \/ a.priority > b.priority
    \/ a.priority = b.priority /\ Rank(a) < Rank(b)

Ordered(s) == \A m, n \in DOMAIN s : m < n => Before(s[m], s[n])

(* Among entries of equal priority, those that joined first come first. *)
TiesOrdered(s) ==
    \A m, n \in DOMAIN s : m < n /\ s[m].priority = s[n].priority => Rank(s[m]) < Rank(s[n])

(* The generic order, for the ranks of controllers. *)
LEMMA StableSortOrders ==
  ASSUME NEW entries \in Seq(Candidates), TiesOrdered(entries)
  PROVE  /\ StableSort(entries) \in Seq(Candidates)
         /\ Len(StableSort(entries)) = Len(entries)
         /\ ToSet(StableSort(entries)) = ToSet(entries)
         /\ Ordered(StableSort(entries))
<1> DEFINE rank == [c \in Candidates |-> Rank(c)]
<1>1. Prioritized(Candidates)
  BY CandidatesAssumption DEF Entry, Prioritized
<1>2. TiesInOrder(rank, entries)
  <2>1. \A n \in DOMAIN entries : entries[n] \in Candidates
    OBVIOUS
  <2> QED BY <2>1 DEF TiesInOrder, TiesOrdered
<1> HIDE DEF rank
<1>3. /\ StableSort(entries) \in Seq(Candidates)
      /\ Len(StableSort(entries)) = Len(entries)
      /\ ToSet(StableSort(entries)) = ToSet(entries)
      /\ InOrder(rank, StableSort(entries))
  BY <1>1, <1>2, StableSortSorts
<1>4. Ordered(StableSort(entries))
  <2>1. \A n \in DOMAIN StableSort(entries) : StableSort(entries)[n] \in Candidates
    BY <1>3
  <2> QED BY <1>3, <2>1 DEF InOrder, Precedes, Ordered, Before, rank
<1> QED BY <1>3, <1>4

-----------------------------------------------------------------------------
(* The grouping. *)

LEMMA GroupingExists ==
  ASSUME NEW entries, Len(entries) \in Nat
  PROVE  Grouping(entries) = [n \in 0..Len(entries) |->
           IF n = 0 THEN << >> ELSE Join(Grouping(entries)[n - 1], entries, n)]
<1> DEFINE Body(f, m) == [n \in 0..m |-> IF n = 0 THEN << >> ELSE Join(f[n - 1], entries, n)]
           S == {m \in Nat : \E f : f = Body(f, m)}
<1>1. 0 \in S
  <2> DEFINE f == [n \in 0..0 |-> << >>]
  <2>1. f = Body(f, 0)
    OBVIOUS
  <2> QED BY <2>1
<1>2. ASSUME NEW m \in Nat, m \in S PROVE m + 1 \in S
  <2>1. PICK f : f = Body(f, m)
    BY <1>2
  <2> DEFINE g == [n \in 0..(m + 1) |-> IF n <= m THEN f[n] ELSE Join(f[m], entries, m + 1)]
  <2>2. ASSUME NEW n \in 0..(m + 1)
        PROVE  g[n] = IF n = 0 THEN << >> ELSE Join(g[n - 1], entries, n)
    <3>1. CASE n = 0
      BY <2>1, <3>1
    <3>2. CASE n \in 1..m
      <4>1. g[n] = f[n] /\ g[n - 1] = f[n - 1]
        BY <3>2
      <4>2. f[n] = Join(f[n - 1], entries, n)
        BY <2>1, <3>2
      <4> QED BY <3>2, <4>1, <4>2
    <3>3. CASE n = m + 1
      <4>1. g[n] = Join(f[m], entries, m + 1) /\ g[n - 1] = f[m]
        BY <3>3
      <4> QED BY <3>3, <4>1
    <3> QED BY <3>1, <3>2, <3>3
  <2>3. g = Body(g, m + 1)
    BY <2>2
  <2> HIDE DEF g
  <2>4. \E f1 : f1 = Body(f1, m + 1)
    BY <2>3
  <2> QED BY <2>4
<1> HIDE DEF S
<1>3. Len(entries) \in S
  BY <1>1, <1>2, NumberInduction
<1>4. \E f : f = Body(f, Len(entries))
  BY <1>3 DEF S
<1> QED BY <1>4 DEF Grouping

In(plan, g) == ToSet(plan[g].members)

PlanOf(n) == [members : Seq(1..n), types : SUBSET Nat]

(* A controller joins the first group that uses none of its types, or a    *)
(* new one behind all others.                                              *)
JoinsAt(m, plan, new, i, access) ==
    /\ Len(new) = IF m = Len(plan) + 1 THEN m ELSE Len(plan)
    /\ \A g \in 1..Len(plan) : g # m => In(new, g) = In(plan, g) /\ new[g].types = plan[g].types
    /\ m \in 1..Len(plan) => /\ In(new, m) = In(plan, m) \cup {i}
                             /\ new[m].types = plan[m].types \cup access
                             /\ plan[m].types \cap access = {}
    /\ m = Len(plan) + 1 => In(new, m) = {i} /\ new[m].types = access
    /\ \A g \in 1..(m - 1) : plan[g].types \cap access # {}

LEMMA SetOfAppend ==
  ASSUME NEW T, NEW s \in Seq(T), NEW x
  PROVE  ToSet(Append(s, x)) = ToSet(s) \cup {x}
<1>1. /\ Len(s) \in Nat /\ DOMAIN s = 1..Len(s) /\ DOMAIN Append(s, x) = 1..(Len(s) + 1)
      /\ \A n \in 1..Len(s) : Append(s, x)[n] = s[n]
      /\ Append(s, x)[Len(s) + 1] = x
  OBVIOUS
<1> QED BY <1>1 DEF ToSet

LEMMA JoinsFirstOpen ==
  ASSUME NEW n \in Nat, NEW entries, entries[n + 1].access \in SUBSET Nat,
         NEW plan \in Seq(PlanOf(n))
  PROVE  LET new == Join(plan, entries, n + 1) IN
         /\ new \in Seq(PlanOf(n + 1))
         /\ \E m \in 1..(Len(plan) + 1) : JoinsAt(m, plan, new, n + 1, entries[n + 1].access)
<1> DEFINE i      == n + 1
           access == entries[n + 1].access
           open   == {g \in DOMAIN plan : plan[g].types \cap access = {}}
           new    == Join(plan, entries, n + 1)
<1>1. /\ Len(plan) \in Nat /\ DOMAIN plan = 1..Len(plan) /\ i \in 1..i /\ 1..n \subseteq 1..i
      /\ access \in SUBSET Nat
  OBVIOUS
<1>2. ASSUME NEW g \in 1..Len(plan)
      PROVE  /\ plan[g] \in PlanOf(i) /\ plan[g].members \in Seq(1..n)
             /\ plan[g].members \in Seq(1..i) /\ plan[g].types \in SUBSET Nat
  <2>1. plan[g].members \in Seq(1..n) /\ plan[g].types \in SUBSET Nat /\ plan[g] \in PlanOf(n)
    <3>1. plan[g] \in PlanOf(n)
      BY <1>1
    <3> QED BY <3>1 DEF PlanOf
  <2>2. plan[g].members \in Seq(1..i)
    BY <1>1, <2>1
  <2> QED BY <2>1, <2>2 DEF PlanOf
<1>3. plan \in Seq(PlanOf(i))
  BY <1>1, <1>2
<1> HIDE DEF access
<1>4. CASE open = {}
  <2> DEFINE group == [members |-> <<i>>, types |-> access]
  <2>1. new = Append(plan, group)
    BY <1>4 DEF Join, access
  <2>2. group \in PlanOf(i)
    BY <1>1 DEF PlanOf
  <2>3. ToSet(group.members) = {i}
    BY DEF ToSet
  <2> HIDE DEF group
  <2>4. group.types = access
    BY DEF group
  <2>5. /\ new \in Seq(PlanOf(i)) /\ Len(new) = Len(plan) + 1
        /\ \A g \in 1..Len(plan) : new[g] = plan[g]
        /\ new[Len(plan) + 1] = group
    BY <1>3, <2>1, <2>2
  <2>6. JoinsAt(Len(plan) + 1, plan, new, i, access)
    BY <1>1, <1>4, <2>3, <2>4, <2>5, SMTT(30) DEF JoinsAt, In
  <2> QED BY <1>1, <2>5, <2>6 DEF access
<1>5. CASE open # {}
  <2> DEFINE m     == Min(open)
             group == [members |-> Append(plan[m].members, i), types |-> plan[m].types \cup access]
  <2>1. m \in open /\ \A g \in open : m <= g
    <3>1. open \in SUBSET Nat
      BY <1>1
    <3> HIDE DEF open
    <3>2. \E g \in open : \A h \in open : g <= h
      BY <1>5, <3>1, LeastNumber
    <3> QED BY <3>2 DEF Min
  <2>2. m \in 1..Len(plan) /\ plan[m].types \cap access = {}
    BY <1>1, <2>1
  <2>3. ASSUME NEW g \in 1..(m - 1) PROVE plan[g].types \cap access # {}
    <3>1. g \in DOMAIN plan /\ ~(m <= g)
      BY <1>1, <2>2
    <3>2. g \notin open
      BY <2>1, <3>1
    <3> QED BY <3>1, <3>2
  <2>4. new = [plan EXCEPT ![m] = group]
    BY <1>5 DEF Join, access
  <2>5. group \in PlanOf(i) /\ ToSet(group.members) = ToSet(plan[m].members) \cup {i}
    <3>1. Append(plan[m].members, i) \in Seq(1..i)
      BY <1>1, <1>2, <2>2
    <3>2. ToSet(Append(plan[m].members, i)) = ToSet(plan[m].members) \cup {i}
      BY <1>2, <2>2, SetOfAppend
    <3> QED BY <1>1, <1>2, <2>2, <3>1, <3>2 DEF PlanOf
  <2>6. group.types = plan[m].types \cup access
    OBVIOUS
  <2> HIDE DEF m, group
  <2>7. /\ new \in Seq(PlanOf(i)) /\ Len(new) = Len(plan)
        /\ \A g \in 1..Len(plan) : g # m => new[g] = plan[g]
        /\ new[m] = group
    BY <1>3, <2>2, <2>4, <2>5
  <2>8. JoinsAt(m, plan, new, i, access)
    BY <1>1, <2>2, <2>3, <2>5, <2>6, <2>7 DEF JoinsAt, In
  <2> QED BY <1>1, <2>2, <2>7, <2>8 DEF access
<1> QED BY <1>4, <1>5

(* What the groups of the first n controllers are like. *)
GoodPlan(plan, entries, n) ==
    /\ plan \in Seq(PlanOf(n))
    /\ \A i \in 1..n : \E g \in DOMAIN plan : i \in In(plan, g)
    /\ \A g, h \in DOMAIN plan : In(plan, g) \cap In(plan, h) # {} => g = h
    /\ \A g \in DOMAIN plan : \A i \in In(plan, g) : entries[i].access \subseteq plan[g].types
    /\ \A g \in DOMAIN plan : \A i, j \in In(plan, g) :
         i # j => entries[i].access \cap entries[j].access = {}
    /\ \A g, h \in DOMAIN plan : \A i \in In(plan, g) :
         h < g => plan[h].types \cap entries[i].access # {}
    /\ \A g, h \in DOMAIN plan : \A i \in In(plan, g), j \in In(plan, h) :
         i < j /\ entries[i].access = entries[j].access
           => g < h \/ (g = h /\ entries[i].access = {})

LEMMA JoinKeepsPlan ==
  ASSUME NEW n \in Nat, NEW entries \in Seq(Entry), n + 1 <= Len(entries),
         NEW plan, GoodPlan(plan, entries, n)
  PROVE  GoodPlan(Join(plan, entries, n + 1), entries, n + 1)
<1> DEFINE i      == n + 1
           access == entries[i].access
           new    == Join(plan, entries, i)
<1>1. access \in SUBSET Nat
  <2>1. entries[i] \in Entry
    OBVIOUS
  <2> QED BY <2>1 DEF Entry
<1>2. plan \in Seq(PlanOf(n)) /\ Len(plan) \in Nat /\ DOMAIN plan = 1..Len(plan)
  BY DEF GoodPlan
<1>3. PICK m \in 1..(Len(plan) + 1) : new \in Seq(PlanOf(i)) /\ JoinsAt(m, plan, new, i, access)
  BY <1>1, <1>2, JoinsFirstOpen
<1> HIDE DEF new
<1>4. DOMAIN new = 1..Len(plan) \cup {m}
  <2>1. DOMAIN new = 1..Len(new) /\ Len(new) = IF m = Len(plan) + 1 THEN m ELSE Len(plan)
    BY <1>3 DEF JoinsAt
  <2> QED BY <1>2, <2>1
<1>5. ASSUME NEW g \in 1..Len(plan) PROVE In(plan, g) \subseteq 1..n
  <2>1. plan[g].members \in Seq(1..n)
    <3>1. plan[g] \in PlanOf(n)
      BY <1>2
    <3> QED BY <3>1 DEF PlanOf
  <2> QED BY <2>1 DEF In, ToSet
<1> DEFINE Old(g) == IF g \in 1..Len(plan) THEN In(plan, g) ELSE {}
<1>6. /\ In(new, m) = Old(m) \cup {i}
      /\ access \subseteq new[m].types
      /\ \A g \in DOMAIN new : g # m => In(new, g) = Old(g)
      /\ \A g \in 1..Len(plan) : plan[g].types \subseteq new[g].types
  BY <1>2, <1>3, <1>4 DEF JoinsAt
<1>7. /\ \A g \in 1..(m - 1) : g \in 1..Len(plan) /\ plan[g].types \cap access # {}
      /\ m \in 1..Len(plan) => plan[m].types \cap access = {}
  BY <1>2, <1>3 DEF JoinsAt
<1>8. \A g \in DOMAIN new : Old(g) \subseteq 1..n /\ i \notin Old(g)
  BY <1>5
<1>9. \A k \in 1..i : \E g \in DOMAIN new : k \in In(new, g)
  <2>1. \A k \in 1..n : \E g \in 1..Len(plan) : k \in Old(g)
    BY <1>2 DEF GoodPlan
  <2>2. ASSUME NEW k \in 1..n PROVE \E g \in DOMAIN new : k \in In(new, g)
    <3>1. PICK g \in 1..Len(plan) : k \in Old(g)
      BY <2>1
    <3>2. g \in DOMAIN new /\ k \in In(new, g)
      BY <1>4, <1>6, <3>1
    <3> QED BY <3>2
  <2> QED BY <1>4, <1>6, <2>2, SMTT(30)
<1>10. ASSUME NEW g \in DOMAIN new, NEW h \in DOMAIN new, In(new, g) \cap In(new, h) # {}
       PROVE  g = h
  <2>1. g = m \/ h = m \/ (g \in 1..Len(plan) /\ h \in 1..Len(plan))
    BY <1>4
  <2>2. \A a, b \in 1..Len(plan) : In(plan, a) \cap In(plan, b) # {} => a = b
    BY <1>2 DEF GoodPlan
  <2> QED BY <1>4, <1>6, <1>8, <1>10, <2>1, <2>2
<1>11. ASSUME NEW g \in DOMAIN new, NEW k \in In(new, g)
       PROVE  entries[k].access \subseteq new[g].types
  <2>1. CASE k \in Old(g)
    <3>1. g \in 1..Len(plan) /\ k \in In(plan, g)
      BY <2>1
    <3> QED BY <1>2, <1>6, <3>1 DEF GoodPlan
  <2>2. CASE k \notin Old(g)
    BY <1>6, <2>2
  <2> QED BY <2>1, <2>2
<1>12. ASSUME NEW g \in DOMAIN new, NEW k \in Old(g), NEW j \in In(new, g), k # j
       PROVE  entries[k].access \cap entries[j].access = {}
  <2>1. g \in 1..Len(plan) /\ k \in In(plan, g)
    OBVIOUS
  <2>2. CASE j \in Old(g)
    BY <1>2, <1>12, <2>1, <2>2 DEF GoodPlan
  <2>3. CASE j \notin Old(g)
    <3>1. g = m /\ j = i
      BY <1>6, <2>3
    <3>2. entries[k].access \subseteq plan[m].types
      BY <1>2, <2>1, <3>1 DEF GoodPlan
    <3> QED BY <1>7, <2>1, <3>1, <3>2
  <2> QED BY <2>2, <2>3
<1>13. \A g \in DOMAIN new : \A k, j \in In(new, g) :
         k # j => entries[k].access \cap entries[j].access = {}
  BY <1>6, <1>12
<1>14. ASSUME NEW g \in DOMAIN new, NEW h \in DOMAIN new, NEW k \in In(new, g), h < g
       PROVE  new[h].types \cap entries[k].access # {}
  <2>1. CASE k \in Old(g)
    <3>1. g \in 1..Len(plan) /\ h \in 1..Len(plan) /\ k \in In(plan, g)
      BY <1>2, <1>3, <1>4, <1>14, <2>1
    <3>2. plan[h].types \cap entries[k].access # {}
      BY <1>2, <1>14, <3>1, SMTT(30) DEF GoodPlan
    <3> QED BY <1>6, <3>1, <3>2
  <2>2. CASE k \notin Old(g)
    <3>1. g = m /\ k = i /\ h \in 1..(m - 1)
      BY <1>2, <1>3, <1>4, <1>6, <1>14, <2>2
    <3> QED BY <1>6, <1>7, <3>1
  <2> QED BY <2>1, <2>2
<1>15. ASSUME NEW g \in DOMAIN new, NEW h \in DOMAIN new, NEW k \in In(new, g), NEW j \in In(new, h),
              k < j, entries[k].access = entries[j].access
       PROVE  g < h \/ (g = h /\ entries[k].access = {})
  <2>1. k \in Old(g)
    <3> SUFFICES ASSUME k \notin Old(g) PROVE FALSE
      OBVIOUS
    <3>1. k = i
      BY <1>6
    <3>2. j \in 1..i
      BY <1>6, <1>8
    <3> QED BY <1>15, <3>1, <3>2
  <2>2. g \in 1..Len(plan) /\ k \in In(plan, g)
    BY <2>1
  <2>3. CASE j \in Old(h)
    <3>1. h \in 1..Len(plan) /\ j \in In(plan, h)
      BY <2>3
    <3> QED BY <1>2, <1>15, <2>2, <3>1 DEF GoodPlan
  <2>4. CASE j \notin Old(h)
    <3>1. h = m /\ j = i
      BY <1>6, <2>4
    <3>2. entries[k].access = access /\ access \subseteq plan[g].types
      BY <1>2, <1>15, <2>2, <3>1 DEF GoodPlan
    <3>3. ~(m < g)
      <4> SUFFICES ASSUME m < g PROVE FALSE
        OBVIOUS
      <4>1. m \in 1..Len(plan)
        BY <1>3, <2>2
      <4>2. plan[m].types \cap access # {}
        BY <1>2, <2>2, <3>2, <4>1, SMTT(30) DEF GoodPlan
      <4> QED BY <1>7, <4>1, <4>2
    <3>4. g = m => access = {}
      BY <1>7, <2>2, <3>2
    <3> QED BY <1>3, <2>2, <3>1, <3>2, <3>3, <3>4
  <2> QED BY <2>3, <2>4
<1> HIDE DEF Old, access, i
<1> QED BY <1>3, <1>9, <1>10, <1>11, <1>13, <1>14, <1>15 DEF GoodPlan, new, i

(* The groups of any list of controllers. *)
LEMMA GroupsAreGood ==
  ASSUME NEW entries \in Seq(Entry)
  PROVE  GoodPlan(Groups(entries), entries, Len(entries))
<1> DEFINE S == {n \in Nat : n <= Len(entries) => GoodPlan(Grouping(entries)[n], entries, n)}
<1>1. Len(entries) \in Nat
  OBVIOUS
<1>2. Grouping(entries) = [n \in 0..Len(entries) |->
        IF n = 0 THEN << >> ELSE Join(Grouping(entries)[n - 1], entries, n)]
  BY <1>1, GroupingExists
<1>3. 0 \in S
  <2>1. Grouping(entries)[0] = << >>
    BY <1>1, <1>2
  <2>2. GoodPlan(<< >>, entries, 0)
    BY DEF GoodPlan
  <2> QED BY <2>1, <2>2
<1>4. ASSUME NEW n \in Nat, n \in S PROVE n + 1 \in S
  <2> SUFFICES ASSUME n + 1 <= Len(entries)
               PROVE  GoodPlan(Grouping(entries)[n + 1], entries, n + 1)
    OBVIOUS
  <2>1. Grouping(entries)[n + 1] = Join(Grouping(entries)[n], entries, n + 1)
    BY <1>1, <1>2
  <2> QED BY <1>1, <1>4, <2>1, JoinKeepsPlan
<1> HIDE DEF S
<1>5. Len(entries) \in S
  BY <1>1, <1>3, <1>4, NumberInduction
<1> QED BY <1>1, <1>5 DEF S, Groups

-----------------------------------------------------------------------------
(* The registered controllers, sorted while a tick is under way. *)
SortInv ==
    /\ controllers \in Seq(Candidates) /\ joined \in Seq(Candidates)
    /\ ToSet(controllers) = ToSet(joined) /\ Len(controllers) = Len(joined)
    /\ \A m, n \in DOMAIN joined : joined[m] = joined[n] => m = n
    /\ TiesOrdered(controllers)
    /\ current # 0 => Ordered(controllers)

TaskState == [pc : Steps, left : Nat, id : 0..MaxCommandId, slot : Nat]

(* Groups are executed in order: those before the current one are done,    *)
(* those behind it have not begun.                                         *)
PlanInv ==
    /\ executor \in BOOLEAN
    /\ current \in 0..(Len(groups) + 1)
    /\ current = 0 => groups = << >> /\ task = << >>
    /\ current # 0 => groups = Groups(controllers) /\ task \in [Indices -> TaskState]
    /\ \A g \in DOMAIN groups : \A i \in In(groups, g) :
         /\ g < current => task[i].pc = "done"
         /\ g > current => task[i].pc = "ready"
    /\ \A i \in DOMAIN task :
         /\ task[i].left <= controllers[i].sends
         /\ task[i].pc \in {"loaded", "numbered", "constructed"} => task[i].left > 0

(* Controllers start in the order of their groups, and without an executor *)
(* in their own order within a group.                                      *)
StartInv ==
    /\ current = 0 => started = << >>
    /\ started \in Seq(Indices)
    /\ \A m, n \in DOMAIN started : started[m] = started[n] => m = n
    /\ \A i \in DOMAIN task : task[i].pc # "ready" <=> i \in ToSet(started)
    /\ \A m, n \in DOMAIN started, g, h \in DOMAIN groups :
         m < n /\ started[m] \in In(groups, g) /\ started[n] \in In(groups, h)
           => g < h \/ (g = h /\ (executor \/ started[m] < started[n]))
    /\ ~executor => \A i, j \in Members :
         j < i /\ task[i].pc # "ready" => task[j].pc = "done"

(* A controller's commands are numbered down to 1, so each is sent once.   *)
QueueInv ==
    /\ current = 0 => sent = << >> /\ used = 0
    /\ nextCommandId \in 0..MaxCommandId
    /\ used \in 0..Len(sent)
    /\ sent \in Seq(Sendable)
    /\ \A m, n \in DOMAIN sent : sent[m] = sent[n] => m = n
    /\ \A n \in DOMAIN sent, i \in DOMAIN task :
         sent[n][1] = controllers[i].name => sent[n][2] > task[i].left
    /\ \A i \in DOMAIN task : task[i].pc = "constructed" => task[i].slot <= Len(sent) + 1

(* Without an executor one controller at a time is between a command's     *)
(* number and the end of its submission.                                   *)
Numbered == \E i \in DOMAIN task : task[i].pc \in {"numbered", "constructed"}
LastId   == IF Numbered THEN nextCommandId - 1 ELSE nextCommandId

SubmitInv ==
    /\ DOMAIN slots = 1..Capacity
    /\ ~executor =>
         /\ used = Len(sent)
         /\ \A n \in 1..used :
              /\ <<slots[n].from, slots[n].k>> = sent[n]
              /\ slots[n].id = LastId - used + n
         /\ \A i \in DOMAIN task :
              /\ task[i].pc = "loaded" => task[i].id = nextCommandId + 1
              /\ task[i].pc = "numbered" => task[i].id = nextCommandId
              /\ task[i].pc = "constructed" =>
                   /\ task[i].slot = used + 1
                   /\ slots[used + 1] = [id   |-> nextCommandId,
                                         from |-> controllers[i].name,
                                         k    |-> task[i].left]

DispatchInv == SortInv /\ PlanInv /\ StartInv /\ QueueInv /\ SubmitInv

LEMMA CandidateTypes ==
  ASSUME NEW c \in Candidates
  PROVE  c \in Entry /\ c.priority \in Int /\ c.access \in SUBSET Nat /\ c.sends \in Nat
<1>1. c \in Entry
  BY CandidatesAssumption
<1> QED BY <1>1 DEF Entry

-----------------------------------------------------------------------------
(* The order of registration. *)

RankIn(arrivals, c) == CHOOSE n \in DOMAIN arrivals : arrivals[n] = c

LEMMA RankIsPosition ==
  ASSUME NEW arrivals, \A m, n \in DOMAIN arrivals : arrivals[m] = arrivals[n] => m = n,
         NEW n \in DOMAIN arrivals
  PROVE  RankIn(arrivals, arrivals[n]) = n
BY DEF RankIn

LEMMA RegisterKeepsSort ==
  ASSUME SortInv, NEW c \in Candidates, Register(c)
  PROVE  SortInv'
<1>1. /\ controllers \in Seq(Candidates) /\ controllers' = Append(controllers, c)
      /\ joined \in Seq(Candidates) /\ joined' = Append(joined, c)
      /\ ToSet(controllers) = ToSet(joined) /\ Len(controllers) = Len(joined)
      /\ c \notin ToSet(joined) /\ current = 0 /\ current' = 0
      /\ \A m, n \in DOMAIN joined : joined[m] = joined[n] => m = n
  BY DEF SortInv, Register
<1>2. /\ Len(joined) \in Nat /\ DOMAIN joined = 1..Len(joined) /\ DOMAIN joined' = 1..(Len(joined) + 1)
      /\ joined'[Len(joined) + 1] = c /\ \A n \in 1..Len(joined) : joined'[n] = joined[n]
      /\ DOMAIN controllers = 1..Len(joined) /\ DOMAIN controllers' = 1..(Len(joined) + 1)
      /\ controllers'[Len(joined) + 1] = c
      /\ \A n \in 1..Len(joined) : controllers'[n] = controllers[n]
  BY <1>1
<1>3. \A n \in DOMAIN joined : joined[n] # c
  BY <1>1 DEF ToSet
<1>4. \A m, n \in DOMAIN joined' : joined'[m] = joined'[n] => m = n
  BY <1>1, <1>2, <1>3
<1>5. /\ \A n \in DOMAIN joined : RankIn(joined, joined[n]) = n
      /\ \A n \in DOMAIN joined' : RankIn(joined', joined'[n]) = n
  BY <1>1, <1>4, RankIsPosition
<1>6. \A n \in DOMAIN controllers : \E m \in DOMAIN joined : controllers[n] = joined[m]
  BY <1>1 DEF ToSet
<1>7. ASSUME NEW n \in DOMAIN controllers
      PROVE  /\ RankIn(joined', controllers[n]) = RankIn(joined, controllers[n])
             /\ RankIn(joined, controllers[n]) \in 1..Len(joined)
  <2>1. PICK m \in DOMAIN joined : controllers[n] = joined[m]
    BY <1>6
  <2>2. m \in DOMAIN joined' /\ joined'[m] = controllers[n]
    BY <1>2, <2>1
  <2>3. RankIn(joined', controllers[n]) = m
    BY <1>5, <2>2
  <2> QED BY <1>2, <1>5, <2>1, <2>3
<1>8. RankIn(joined', c) = Len(joined) + 1
  <2>1. Len(joined) + 1 \in DOMAIN joined'
    BY <1>2
  <2> QED BY <1>2, <1>5, <2>1
<1>9. ASSUME NEW m \in DOMAIN controllers', NEW n \in DOMAIN controllers', m < n,
             controllers'[m].priority = controllers'[n].priority
      PROVE  RankIn(joined', controllers'[m]) < RankIn(joined', controllers'[n])
  <2>1. m \in DOMAIN controllers /\ controllers'[m] = controllers[m]
    BY <1>2, <1>9
  <2>2. CASE n \in DOMAIN controllers
    <3>1. controllers'[n] = controllers[n]
      BY <1>2, <2>2
    <3>2. RankIn(joined, controllers[m]) < RankIn(joined, controllers[n])
      BY <1>9, <2>1, <2>2, <3>1 DEF SortInv, TiesOrdered, Rank, RankIn
    <3> QED BY <1>7, <2>1, <2>2, <3>1, <3>2
  <2>3. CASE n \notin DOMAIN controllers
    <3>1. n = Len(joined) + 1 /\ controllers'[n] = c
      BY <1>2, <2>3
    <3> QED BY <1>2, <1>7, <1>8, <2>1, <3>1
  <2> QED BY <2>2, <2>3
<1>10. TiesOrdered(controllers)'
  BY <1>9 DEF TiesOrdered, Rank, RankIn
<1>11. ToSet(controllers') = ToSet(joined')
  <2>1. /\ ToSet(Append(controllers, c)) = ToSet(controllers) \cup {c}
        /\ ToSet(Append(joined, c)) = ToSet(joined) \cup {c}
    BY <1>1, SetOfAppend
  <2> QED BY <1>1, <2>1
<1>12. Len(controllers') = Len(joined') /\ controllers' \in Seq(Candidates) /\ joined' \in Seq(Candidates)
  BY <1>1
<1>13. (ToSet(controllers) = ToSet(joined))'
  BY <1>11 DEF ToSet
<1> QED BY <1>1, <1>4, <1>10, <1>12, <1>13 DEF SortInv

LEMMA RanksAreNumbers ==
  ASSUME SortInv, NEW n \in DOMAIN controllers
  PROVE  Rank(controllers[n]) \in DOMAIN joined
<1>1. \E m \in DOMAIN joined : controllers[n] = joined[m]
  BY DEF SortInv, ToSet
<1> QED BY <1>1 DEF Rank

LEMMA PlanKeepsSort ==
  ASSUME SortInv, PlanTick
  PROVE  SortInv'
<1>1. /\ controllers \in Seq(Candidates) /\ controllers' = StableSort(controllers)
      /\ joined' = joined /\ TiesOrdered(controllers)
  BY DEF SortInv, PlanTick
<1>2. /\ controllers' \in Seq(Candidates) /\ Len(controllers') = Len(controllers)
      /\ ToSet(controllers') = ToSet(controllers) /\ Ordered(controllers')
  BY <1>1, StableSortOrders
<1>3. Ordered(controllers)'
  BY <1>1, <1>2 DEF Ordered, Before, Rank
<1>4. TiesOrdered(controllers)'
  <2> SUFFICES ASSUME NEW m \in DOMAIN controllers', NEW n \in DOMAIN controllers', m < n,
                      controllers'[m].priority = controllers'[n].priority
               PROVE  Rank(controllers'[m]) < Rank(controllers'[n])
    BY <1>1 DEF TiesOrdered, Rank
  <2>1. controllers'[m] \in Candidates /\ controllers'[n] \in Candidates
    BY <1>2
  <2>2. controllers'[m].priority \in Int
    BY <2>1, CandidateTypes
  <2>3. Before(controllers'[m], controllers'[n])
    BY <1>2 DEF Ordered
  <2> QED BY <2>2, <2>3 DEF Before
<1> QED BY <1>1, <1>2, <1>3, <1>4 DEF SortInv, ToSet

LEMMA RunStepKeepsPlan ==
  ASSUME NEW i, RunStep(i)
  PROVE  UNCHANGED <<controllers, executor, groups, current, joined>>
BY DEF RunStep, Start, LoadId, StoreId, Construct, Advance, Finish, planVars

LEMMA SortStep ==
  ASSUME SortInv, PlanInv, [Next]_vars
  PROVE  SortInv'
<1>1. CASE \E c \in Candidates : Register(c)
  BY <1>1, RegisterKeepsSort
<1>2. CASE PlanTick
  BY <1>2, PlanKeepsSort
<1>3. CASE \/ \E i \in Members : RunStep(i)
           \/ NextGroup \/ EndTick \/ UNCHANGED vars
  <2>1. /\ controllers' = controllers /\ joined' = joined
        /\ current' # 0 => current # 0
    <3>1. CASE \E i \in Members : RunStep(i)
      BY <3>1, RunStepKeepsPlan
    <3>2. CASE NextGroup
      BY <3>2 DEF NextGroup, PlanInv
    <3>3. CASE EndTick
      BY <3>3 DEF EndTick
    <3>4. CASE UNCHANGED vars
      BY <3>4 DEF vars, planVars
    <3> QED BY <1>3, <3>1, <3>2, <3>3, <3>4
  <2>2. /\ TiesOrdered(controllers)' <=> TiesOrdered(controllers)
        /\ Ordered(controllers)' <=> Ordered(controllers)
    BY <2>1 DEF TiesOrdered, Ordered, Before, Rank
  <2>3. (ToSet(controllers) = ToSet(joined))' <=> ToSet(controllers) = ToSet(joined)
    BY <2>1 DEF ToSet
  <2> QED BY <2>1, <2>2, <2>3 DEF SortInv
<1> QED BY <1>1, <1>2, <1>3 DEF Next

-----------------------------------------------------------------------------
(* Groups and tasks. *)

(* While a tick is under way its groups partition the controllers. *)
LEMMA GroupsPartition ==
  ASSUME SortInv, PlanInv
  PROVE  /\ Indices = 1..Len(controllers) /\ Len(controllers) \in Nat
         /\ DOMAIN groups = 1..Len(groups) /\ Len(groups) \in Nat
         /\ \A i \in Indices : controllers[i] \in Candidates
         /\ current # 0 => GoodPlan(groups, controllers, Len(controllers))
         /\ \A g \in DOMAIN groups : In(groups, g) \subseteq Indices
         /\ \A g, h \in DOMAIN groups : In(groups, g) \cap In(groups, h) # {} => g = h
<1>1. /\ controllers \in Seq(Candidates) /\ Indices = 1..Len(controllers) /\ Len(controllers) \in Nat
      /\ \A i \in Indices : controllers[i] \in Candidates
  BY DEF SortInv, Indices
<1>2. CASE current = 0
  <2>1. groups = << >>
    BY <1>2 DEF PlanInv
  <2> QED BY <1>1, <1>2, <2>1
<1>3. CASE current # 0
  <2>1. controllers \in Seq(Entry)
    BY <1>1, CandidatesAssumption
  <2>2. GoodPlan(groups, controllers, Len(controllers))
    BY <1>3, <2>1, GroupsAreGood DEF PlanInv
  <2>3. groups \in Seq(PlanOf(Len(controllers)))
    BY <2>2 DEF GoodPlan
  <2>4. ASSUME NEW g \in DOMAIN groups PROVE In(groups, g) \subseteq Indices
    <3>1. groups[g] \in PlanOf(Len(controllers))
      BY <2>3
    <3>2. groups[g].members \in Seq(1..Len(controllers))
      BY <3>1 DEF PlanOf
    <3> QED BY <1>1, <3>2 DEF In, ToSet
  <2>5. \A g, h \in DOMAIN groups : In(groups, g) \cap In(groups, h) # {} => g = h
    BY <2>2 DEF GoodPlan
  <2> QED BY <1>1, <2>2, <2>3, <2>4, <2>5
<1> QED BY <1>2, <1>3

(* Where a controller that takes a step stands. *)
LEMMA MemberIsCurrent ==
  ASSUME SortInv, PlanInv, NEW i \in Members
  PROVE  /\ current \in DOMAIN groups /\ current # 0 /\ Members = In(groups, current)
         /\ i \in Indices /\ DOMAIN task = Indices /\ task[i] \in TaskState
         /\ controllers[i] \in Candidates
         /\ \A g \in DOMAIN groups : i \in In(groups, g) => g = current
<1>1. current \in DOMAIN groups /\ Members = In(groups, current)
  BY DEF Members, In
<1>2. current # 0
  BY <1>1, GroupsPartition
<1>3. i \in Indices /\ controllers[i] \in Candidates
  BY <1>1, GroupsPartition
<1>4. task \in [Indices -> TaskState]
  BY <1>2 DEF PlanInv
<1>5. \A g \in DOMAIN groups : i \in In(groups, g) => g = current
  BY <1>1, GroupsPartition
<1> QED BY <1>1, <1>2, <1>3, <1>4, <1>5

(* What a step of a controller does to the tasks. *)
LEMMA RunStepMovesOne ==
  ASSUME SortInv, PlanInv, QueueInv, NEW i \in Members, RunStep(i)
  PROVE  /\ task' \in [Indices -> TaskState]
         /\ \A j \in Indices : j # i => task'[j] = task[j]
         /\ task'[i].left <= task[i].left
         /\ task'[i].pc \in {"loaded", "numbered", "constructed"} => task'[i].left > 0
         /\ task[i].pc # "done" /\ task'[i].pc # "ready"
<1>1. i \in Indices /\ task \in [Indices -> TaskState] /\ task[i] \in TaskState
  <2>1. current # 0 /\ i \in Indices
    BY MemberIsCurrent
  <2> QED BY <2>1 DEF PlanInv
<1>2. /\ task[i].pc \in Steps /\ task[i].left \in Nat
      /\ task[i].id \in 0..MaxCommandId /\ task[i].slot \in Nat
  BY <1>1 DEF TaskState
<1>3. nextCommandId \in 0..MaxCommandId /\ used \in Nat /\ MaxCommandId \in Nat
  BY CapacityAssumption DEF QueueInv
<1>4. task[i].pc \in {"loaded", "numbered", "constructed"} => task[i].left > 0
  BY <1>1 DEF PlanInv
<1> DEFINE new == task'[i]
<1>5. /\ task' = [task EXCEPT ![i] = new]
      /\ new \in TaskState /\ new.left <= task[i].left
      /\ new.pc \in {"loaded", "numbered", "constructed"} => new.left > 0
      /\ task[i].pc # "done" /\ new.pc # "ready"
  <2>1. CASE Start(i)
    <3>1. /\ task' = [task EXCEPT ![i].pc = "body"]
          /\ task[i].pc = "ready"
      BY <2>1 DEF Start
    <3>2. new = [task[i] EXCEPT !.pc = "body"]
      BY <1>1, <3>1
    <3>3. new \in TaskState /\ new.pc = "body" /\ new.left = task[i].left
      BY <1>1, <1>2, <3>1, <3>2 DEF TaskState, Steps
    <3>4. task' = [task EXCEPT ![i] = new]
      BY <1>1, <3>1
    <3>5. task[i].pc # "done" /\ (new.pc \in {"loaded", "numbered", "constructed"} => task[i].left > 0)
      BY <1>4, <3>1, <3>3
    <3> HIDE DEF new
    <3> QED BY <1>2, <3>3, <3>4, <3>5
  <2>2. CASE LoadId(i)
    <3>1. /\ task' = [task EXCEPT ![i].pc = "loaded", ![i].id = nextCommandId + 1]
          /\ task[i].pc = "body" /\ task[i].left > 0 /\ nextCommandId + 1 \in 0..MaxCommandId
      BY <1>3, <2>2 DEF LoadId
    <3>2. new = [task[i] EXCEPT !.pc = "loaded", !.id = nextCommandId + 1]
      BY <1>1, <3>1
    <3>3. new \in TaskState /\ new.pc = "loaded" /\ new.left = task[i].left
      BY <1>1, <1>2, <3>1, <3>2 DEF TaskState, Steps
    <3>4. task' = [task EXCEPT ![i] = new]
      BY <1>1, <3>1
    <3>5. task[i].pc # "done" /\ (new.pc \in {"loaded", "numbered", "constructed"} => task[i].left > 0)
      BY <1>4, <3>1, <3>3
    <3> HIDE DEF new
    <3> QED BY <1>2, <3>3, <3>4, <3>5
  <2>3. CASE StoreId(i)
    <3>1. /\ task' = [task EXCEPT ![i].pc = "numbered"]
          /\ task[i].pc = "loaded"
      BY <2>3 DEF StoreId
    <3>2. new = [task[i] EXCEPT !.pc = "numbered"]
      BY <1>1, <3>1
    <3>3. new \in TaskState /\ new.pc = "numbered" /\ new.left = task[i].left
      BY <1>1, <1>2, <3>1, <3>2 DEF TaskState, Steps
    <3>4. task' = [task EXCEPT ![i] = new]
      BY <1>1, <3>1
    <3>5. task[i].pc # "done" /\ (new.pc \in {"loaded", "numbered", "constructed"} => task[i].left > 0)
      BY <1>4, <3>1, <3>3
    <3> HIDE DEF new
    <3> QED BY <1>2, <3>3, <3>4, <3>5
  <2>4. CASE Construct(i)
    <3>1. /\ task' = [task EXCEPT ![i].pc = "constructed", ![i].slot = used + 1]
          /\ task[i].pc = "numbered" /\ used + 1 \in Nat
      BY <1>3, <2>4 DEF Construct
    <3>2. new = [task[i] EXCEPT !.pc = "constructed", !.slot = used + 1]
      BY <1>1, <3>1
    <3>3. new \in TaskState /\ new.pc = "constructed" /\ new.left = task[i].left
      BY <1>1, <1>2, <3>1, <3>2 DEF TaskState, Steps
    <3>4. task' = [task EXCEPT ![i] = new]
      BY <1>1, <3>1
    <3>5. task[i].pc # "done" /\ (new.pc \in {"loaded", "numbered", "constructed"} => task[i].left > 0)
      BY <1>4, <3>1, <3>3
    <3> HIDE DEF new
    <3> QED BY <1>2, <3>3, <3>4, <3>5
  <2>5. CASE Advance(i)
    <3>1. /\ task' = [task EXCEPT ![i].pc = "body", ![i].left = @ - 1]
          /\ task[i].pc = "constructed" /\ task[i].left - 1 \in Nat
      BY <1>2, <1>4, <2>5 DEF Advance
    <3>2. new = [task[i] EXCEPT !.pc = "body", !.left = @ - 1]
      BY <1>1, <3>1
    <3>3. new \in TaskState /\ new.pc = "body" /\ new.left = task[i].left - 1
      BY <1>1, <1>2, <3>1, <3>2 DEF TaskState, Steps
    <3>4. task' = [task EXCEPT ![i] = new]
      BY <1>1, <3>1
    <3>5. task[i].pc # "done" /\ (new.pc \in {"loaded", "numbered", "constructed"} => task[i].left > 0)
      BY <1>4, <3>1, <3>3
    <3> HIDE DEF new
    <3> QED BY <1>2, <3>3, <3>4, <3>5
  <2>6. CASE Finish(i)
    <3>1. /\ task' = [task EXCEPT ![i].pc = "done"]
          /\ task[i].pc = "body"
      BY <2>6 DEF Finish
    <3>2. new = [task[i] EXCEPT !.pc = "done"]
      BY <1>1, <3>1
    <3>3. new \in TaskState /\ new.pc = "done" /\ new.left = task[i].left
      BY <1>1, <1>2, <3>1, <3>2 DEF TaskState, Steps
    <3>4. task' = [task EXCEPT ![i] = new]
      BY <1>1, <3>1
    <3>5. task[i].pc # "done" /\ (new.pc \in {"loaded", "numbered", "constructed"} => task[i].left > 0)
      BY <1>4, <3>1, <3>3
    <3> HIDE DEF new
    <3> QED BY <1>2, <3>3, <3>4, <3>5
  <2> QED BY <2>1, <2>2, <2>3, <2>4, <2>5, <2>6 DEF RunStep
<1> HIDE DEF new
<1> QED BY <1>1, <1>5 DEF new

LEMMA PlanTickKeepsPlan ==
  ASSUME SortInv, PlanInv, QueueInv, PlanTick
  PROVE  PlanInv'
<1>1. /\ current = 0 /\ current' = 1 /\ executor' = executor /\ groups' = Groups(controllers')
      /\ task' = [i \in DOMAIN controllers' |->
                    [pc |-> "ready", left |-> controllers'[i].sends, id |-> 0, slot |-> 0]]
      /\ SortInv'
  BY PlanKeepsSort DEF PlanTick, Ready, Indices
<1>2. /\ controllers' \in Seq(Candidates) /\ DOMAIN controllers' = 1..Len(controllers')
      /\ \A i \in DOMAIN controllers' : controllers'[i].sends \in Nat
  <2>1. controllers' \in Seq(Candidates)
    BY <1>1 DEF SortInv
  <2>2. \A i \in DOMAIN controllers' : controllers'[i] \in Candidates
    BY <2>1
  <2> QED BY <2>1, <2>2, CandidateTypes
<1>3. GoodPlan(groups', controllers', Len(controllers'))
  <2>1. controllers' \in Seq(Entry)
    BY <1>2, CandidatesAssumption
  <2> QED BY <1>1, <2>1, GroupsAreGood
<1>4. groups' \in Seq(PlanOf(Len(controllers')))
  BY <1>3 DEF GoodPlan
<1>5. ASSUME NEW g \in DOMAIN groups', NEW i \in In(groups', g)
      PROVE  i \in DOMAIN controllers'
  <2>1. groups'[g] \in PlanOf(Len(controllers'))
    BY <1>4
  <2>2. groups'[g].members \in Seq(1..Len(controllers'))
    BY <2>1 DEF PlanOf
  <2> QED BY <1>2, <2>2 DEF In, ToSet
<1>6. task' \in [DOMAIN controllers' -> TaskState]
  <2>1. 0 \in 0..MaxCommandId
    BY CapacityAssumption
  <2> QED BY <1>1, <1>2, <2>1 DEF TaskState, Steps
<1>7. /\ DOMAIN task' = DOMAIN controllers'
      /\ \A i \in DOMAIN task' : task'[i].pc = "ready" /\ task'[i].left = controllers'[i].sends
  BY <1>1
<1>8. \A g \in DOMAIN groups' : g \in Nat /\ g >= 1
  BY <1>4
<1>9. \A g \in DOMAIN groups' : \A i \in In(groups', g) :
        /\ g < current' => task'[i].pc = "done"
        /\ g > current' => task'[i].pc = "ready"
  BY <1>1, <1>5, <1>7, <1>8
<1>10. \A i \in DOMAIN task' :
         /\ task'[i].left <= controllers'[i].sends
         /\ task'[i].pc \in {"loaded", "numbered", "constructed"} => task'[i].left > 0
  BY <1>2, <1>7
<1>11. current' \in 0..(Len(groups') + 1)
  BY <1>1, <1>4
<1>12. executor' \in BOOLEAN /\ current' # 0 /\ Indices' = DOMAIN controllers'
  BY <1>1 DEF PlanInv, Indices
<1>13. \A g : In(groups, g)' = In(groups', g)
  BY DEF In, ToSet
<1>14. groups' = Groups(controllers)'
  BY <1>1
<1> QED BY <1>6, <1>9, <1>10, <1>11, <1>12, <1>13, <1>14 DEF PlanInv

LEMMA RunStepKeepsTasks ==
  ASSUME SortInv, PlanInv, QueueInv, NEW i \in Members, RunStep(i)
  PROVE  PlanInv'
<1>1. UNCHANGED <<controllers, executor, groups, current, joined>>
  BY RunStepKeepsPlan
<1>2. /\ task' \in [Indices -> TaskState]
      /\ \A j \in Indices : j # i => task'[j] = task[j]
      /\ task'[i].left <= task[i].left
      /\ task'[i].pc \in {"loaded", "numbered", "constructed"} => task'[i].left > 0
  BY RunStepMovesOne
<1>3. /\ current # 0 /\ i \in Indices /\ DOMAIN task = Indices /\ task[i] \in TaskState
      /\ controllers[i] \in Candidates
      /\ \A g \in DOMAIN groups : i \in In(groups, g) => g = current
  BY MemberIsCurrent
<1>4. \A g \in DOMAIN groups : g \in Nat /\ In(groups, g) \subseteq Indices
  BY GroupsPartition
<1>5. \A g \in DOMAIN groups : \A j \in In(groups, g) :
        /\ g < current => task'[j].pc = "done"
        /\ g > current => task'[j].pc = "ready"
  <2> SUFFICES ASSUME NEW g \in DOMAIN groups, NEW j \in In(groups, g), g # current
               PROVE  /\ g < current => task'[j].pc = "done"
                      /\ g > current => task'[j].pc = "ready"
    BY <1>4 DEF PlanInv
  <2>1. task'[j] = task[j]
    BY <1>2, <1>3, <1>4
  <2> QED BY <2>1 DEF PlanInv
<1>6. \A j \in Indices :
        /\ task'[j].left <= controllers[j].sends
        /\ task'[j].pc \in {"loaded", "numbered", "constructed"} => task'[j].left > 0
  <2>1. task'[i].left <= controllers[i].sends
    <3>1. task[i].left <= controllers[i].sends
      BY <1>3 DEF PlanInv
    <3>2. task[i].left \in Nat /\ task'[i].left \in Nat
      BY <1>2, <1>3 DEF TaskState
    <3>3. controllers[i].sends \in Nat
      BY <1>3, CandidateTypes
    <3> QED BY <1>2, <3>1, <3>2, <3>3
  <2> QED BY <1>2, <1>3, <2>1 DEF PlanInv
<1> QED BY <1>1, <1>2, <1>3, <1>5, <1>6 DEF PlanInv, In, Indices, ToSet

LEMMA NextGroupKeepsPlan ==
  ASSUME SortInv, PlanInv, NextGroup
  PROVE  PlanInv'
<1>1. /\ current \in DOMAIN groups /\ current' = current + 1
      /\ UNCHANGED <<controllers, executor, groups, task>>
      /\ \A i \in In(groups, current) : task[i].pc = "done"
  BY DEF NextGroup, Members, In
<1>2. DOMAIN groups = 1..Len(groups) /\ Len(groups) \in Nat
  BY GroupsPartition
<1>3. current' \in 0..(Len(groups) + 1) /\ current # 0 /\ current' # 0
  BY <1>1, <1>2
<1>4. \A g \in DOMAIN groups : \A i \in In(groups, g) :
        /\ g < current' => task[i].pc = "done"
        /\ g > current' => task[i].pc = "ready"
  <2> SUFFICES ASSUME NEW g \in DOMAIN groups, NEW i \in In(groups, g)
               PROVE  /\ g < current' => task[i].pc = "done"
                      /\ g > current' => task[i].pc = "ready"
    OBVIOUS
  <2>1. CASE g = current
    BY <1>1, <1>2, <2>1
  <2>2. CASE g < current
    BY <1>1, <1>2, <2>2 DEF PlanInv
  <2>3. CASE g > current
    BY <1>1, <1>2, <2>3 DEF PlanInv
  <2> QED BY <1>1, <1>2, <2>1, <2>2, <2>3
<1> QED BY <1>1, <1>3, <1>4 DEF PlanInv, In, Indices, ToSet

LEMMA PlanStep ==
  ASSUME SortInv, PlanInv, QueueInv, [Next]_vars
  PROVE  PlanInv'
<1>1. CASE \E c \in Candidates : Register(c)
  <2>1. /\ current' = 0 /\ groups' = << >> /\ task' = << >> /\ executor' = executor
    BY <1>1 DEF Register, PlanInv
  <2> QED BY <2>1 DEF PlanInv
<1>2. CASE PlanTick
  BY <1>2, PlanTickKeepsPlan
<1>3. CASE \E i \in Members : RunStep(i)
  BY <1>3, RunStepKeepsTasks
<1>4. CASE NextGroup
  BY <1>4, NextGroupKeepsPlan
<1>5. CASE EndTick
  <2>1. /\ current' = 0 /\ groups' = << >> /\ task' = << >> /\ executor' = executor
    BY <1>5 DEF EndTick
  <2> QED BY <2>1 DEF PlanInv
<1>6. CASE UNCHANGED vars
  BY <1>6 DEF vars, planVars, PlanInv, In, Indices, ToSet
<1> QED BY <1>1, <1>2, <1>3, <1>4, <1>5, <1>6 DEF Next

-----------------------------------------------------------------------------
(* The order in which controllers start. *)

LEMMA StartKeepsOrder ==
  ASSUME SortInv, PlanInv, StartInv, NEW i \in Members, Start(i)
  PROVE  \A m, n \in DOMAIN started', g, h \in DOMAIN groups :
           m < n /\ started'[m] \in In(groups, g) /\ started'[n] \in In(groups, h)
             => g < h \/ (g = h /\ (executor \/ started'[m] < started'[n]))
<1>1. started' = Append(started, i) /\ task[i].pc = "ready" /\ Turn(i)
  BY DEF Start
<1>2. /\ current \in DOMAIN groups /\ current # 0 /\ Members = In(groups, current)
      /\ i \in Indices /\ DOMAIN task = Indices
      /\ \A g \in DOMAIN groups : i \in In(groups, g) => g = current
  BY MemberIsCurrent
<1>3. /\ Indices \subseteq Nat /\ DOMAIN groups \subseteq Nat
      /\ \A g \in DOMAIN groups : In(groups, g) \subseteq Indices
  BY GroupsPartition
<1>4. /\ started \in Seq(Indices) /\ Len(started) \in Nat /\ DOMAIN started = 1..Len(started)
      /\ DOMAIN started' = 1..(Len(started) + 1) /\ started'[Len(started) + 1] = i
      /\ \A n \in DOMAIN started : started'[n] = started[n]
  BY <1>1 DEF StartInv
<1>5. SUFFICES ASSUME NEW m \in DOMAIN started', NEW n \in DOMAIN started',
                      NEW g \in DOMAIN groups, NEW h \in DOMAIN groups,
                      m < n, started'[m] \in In(groups, g), started'[n] \in In(groups, h)
               PROVE  g < h \/ (g = h /\ (executor \/ started'[m] < started'[n]))
  OBVIOUS
<1>6. m \in DOMAIN started /\ started'[m] = started[m]
  BY <1>4, <1>5
<1>7. CASE n \in DOMAIN started
  BY <1>4, <1>5, <1>6, <1>7 DEF StartInv
<1>8. CASE n \notin DOMAIN started
  <2> DEFINE j == started[m]
  <2>1. started'[n] = i /\ h = current
    BY <1>2, <1>4, <1>5, <1>8
  <2>2. j \in Indices /\ j \in In(groups, g) /\ task[j].pc # "ready"
    <3>1. j \in ToSet(started) /\ j \in Indices
      BY <1>4, <1>6 DEF ToSet
    <3> QED BY <1>2, <1>5, <1>6, <3>1 DEF StartInv
  <2>3. ~(g > current)
    BY <2>2 DEF PlanInv
  <2>4. CASE g = current /\ ~executor
    <3>1. j \in Members /\ j # i /\ j \in Nat /\ i \in Nat
      BY <1>1, <1>2, <1>3, <2>2, <2>4
    <3>2. ~(i < j)
      <4> SUFFICES ASSUME i < j PROVE FALSE
        OBVIOUS
      <4>1. task[i].pc = "done"
        BY <2>2, <2>4, <3>1 DEF StartInv
      <4> QED BY <1>1, <4>1
    <3> QED BY <1>6, <2>1, <2>4, <3>1, <3>2
  <2> HIDE DEF j
  <2>5. g \in Nat /\ current \in Nat
    BY <1>2, <1>3
  <2> QED BY <2>1, <2>3, <2>4, <2>5
<1> QED BY <1>7, <1>8

LEMMA RunStepKeepsStarts ==
  ASSUME SortInv, PlanInv, QueueInv, StartInv, NEW i \in Members, RunStep(i)
  PROVE  StartInv'
<1>1. UNCHANGED <<controllers, executor, groups, current, joined>>
  BY RunStepKeepsPlan
<1>2. /\ task' \in [Indices -> TaskState]
      /\ \A j \in Indices : j # i => task'[j] = task[j]
      /\ task[i].pc # "done" /\ task'[i].pc # "ready"
  BY RunStepMovesOne
<1>3. /\ current \in DOMAIN groups /\ current # 0 /\ Members = In(groups, current)
      /\ i \in Indices /\ DOMAIN task = Indices
  BY MemberIsCurrent
<1>4. Members \subseteq Indices /\ Indices \subseteq Nat
  BY <1>3, GroupsPartition
<1>5. /\ task[i].pc = "ready" => Start(i)
      /\ ~Start(i) => started' = started
  BY DEF RunStep, LoadId, StoreId, Construct, Advance, Finish
<1>6. /\ started \in Seq(Indices)
      /\ \A m, n \in DOMAIN started : started[m] = started[n] => m = n
      /\ \A j \in Indices : task[j].pc # "ready" <=> j \in ToSet(started)
  BY <1>3 DEF StartInv
<1>7. /\ started' \in Seq(Indices)
      /\ \A m, n \in DOMAIN started' : started'[m] = started'[n] => m = n
      /\ \A j \in Indices : task'[j].pc # "ready" <=> j \in ToSet(started')
  <2>1. CASE Start(i)
    <3>1. started' = Append(started, i) /\ i \notin ToSet(started)
      BY <1>3, <1>6, <2>1 DEF Start
    <3>2. ToSet(started') = ToSet(started) \cup {i}
      BY <1>6, <3>1, SetOfAppend
    <3>3. /\ Len(started) \in Nat /\ DOMAIN started = 1..Len(started)
          /\ DOMAIN started' = 1..(Len(started) + 1) /\ started'[Len(started) + 1] = i
          /\ \A n \in DOMAIN started : started'[n] = started[n] /\ started[n] # i
          /\ started' \in Seq(Indices)
      BY <1>3, <1>6, <3>1 DEF ToSet
    <3>4. \A m, n \in DOMAIN started' : started'[m] = started'[n] => m = n
      BY <1>6, <3>3
    <3> QED BY <1>2, <1>6, <3>2, <3>3, <3>4
  <2>2. CASE ~Start(i)
    BY <1>2, <1>3, <1>5, <1>6, <2>2
  <2> QED BY <2>1, <2>2
<1>8. \A m, n \in DOMAIN started', g, h \in DOMAIN groups :
        m < n /\ started'[m] \in In(groups, g) /\ started'[n] \in In(groups, h)
          => g < h \/ (g = h /\ (executor \/ started'[m] < started'[n]))
  <2>1. CASE Start(i)
    BY <2>1, StartKeepsOrder
  <2>2. CASE ~Start(i)
    BY <1>5, <2>2 DEF StartInv
  <2> QED BY <2>1, <2>2
<1>9. ASSUME ~executor, NEW a \in Members, NEW b \in Members, b < a, task'[a].pc # "ready"
      PROVE  task'[b].pc = "done"
  <2>1. a \in Indices /\ b \in Indices
    BY <1>4
  <2>2. \A x, y \in Members : y < x /\ task[x].pc # "ready" => task[y].pc = "done"
    BY <1>9 DEF StartInv
  <2>3. CASE a = i
    <3>1. a \in Nat /\ b \in Nat
      BY <1>4
    <3>2. b # i
      BY <1>9, <2>3, <3>1
    <3>3. CASE Start(i)
      <4>1. task[b].pc = "done"
        BY <1>9, <2>3, <3>3 DEF Start, Turn, Parallel
      <4> QED BY <1>2, <2>1, <3>2, <4>1
    <3>4. CASE ~Start(i)
      <4>1. task[b].pc = "done"
        BY <1>5, <1>9, <2>2, <2>3, <3>4
      <4> QED BY <1>2, <2>1, <3>2, <4>1
    <3> QED BY <3>3, <3>4
  <2>4. CASE a # i
    <3>1. task[b].pc = "done"
      BY <1>2, <1>9, <2>1, <2>2, <2>4
    <3>2. b # i
      BY <1>2, <3>1
    <3> QED BY <1>2, <2>1, <3>1, <3>2
  <2> QED BY <2>3, <2>4
<1>10. DOMAIN task' = Indices /\ Indices' = Indices /\ Members' = Members
  BY <1>1, <1>2 DEF Indices, Members, ToSet
<1> QED BY <1>1, <1>3, <1>7, <1>8, <1>9, <1>10 DEF StartInv, In, ToSet

LEMMA StartStep ==
  ASSUME SortInv, PlanInv, QueueInv, StartInv, [Next]_vars
  PROVE  StartInv'
<1>1. CASE \E c \in Candidates : Register(c)
  <2>1. /\ current' = 0 /\ started' = << >> /\ task' = << >> /\ groups' = << >> /\ executor' = executor
    BY <1>1 DEF Register, PlanInv, StartInv
  <2>2. Members' = {}
    BY <2>1 DEF Members
  <2> QED BY <2>1, <2>2 DEF StartInv, ToSet
<1>2. CASE PlanTick
  <2>1. /\ current' = 1 /\ started' = << >> /\ executor' = executor
        /\ \A i \in DOMAIN task' : task'[i].pc = "ready"
    BY <1>2 DEF PlanTick, Ready, StartInv
  <2>2. PlanInv' /\ SortInv'
    BY <1>2, PlanTickKeepsPlan, PlanKeepsSort
  <2>3. \A i \in Members' : i \in DOMAIN task'
    <3>1. /\ DOMAIN task' = Indices'
          /\ groups' = Groups(controllers') /\ controllers' \in Seq(Candidates)
      BY <2>1, <2>2 DEF PlanInv, SortInv
    <3>2. controllers' \in Seq(Entry)
      BY <3>1, CandidatesAssumption
    <3>3. groups' \in Seq(PlanOf(Len(controllers')))
      BY <3>1, <3>2, GroupsAreGood DEF GoodPlan
    <3>4. ASSUME NEW i \in Members' PROVE i \in Indices'
      <4>1. current' \in DOMAIN groups' /\ i \in ToSet(groups'[current'].members)
        BY <3>4 DEF Members, ToSet
      <4>2. groups'[current'] \in PlanOf(Len(controllers'))
        BY <3>3, <4>1
      <4>3. groups'[current'].members \in Seq(1..Len(controllers'))
        BY <4>2 DEF PlanOf
      <4> QED BY <3>1, <4>1, <4>3 DEF ToSet, Indices
    <3> QED BY <3>1, <3>4
  <2> QED BY <2>1, <2>3 DEF StartInv, ToSet
<1>3. CASE \E i \in Members : RunStep(i)
  BY <1>3, RunStepKeepsStarts
<1>4. CASE NextGroup
  <2>1. /\ current \in DOMAIN groups /\ current' = current + 1
        /\ UNCHANGED <<controllers, executor, groups, task, started>>
    BY <1>4 DEF NextGroup
  <2>2. DOMAIN groups = 1..Len(groups) /\ Len(groups) \in Nat
    BY GroupsPartition
  <2>3. \A i \in Members' : task[i].pc = "ready"
    BY <2>1, <2>2 DEF Members, PlanInv, In, ToSet
  <2>4. current # 0 /\ current' # 0
    BY <2>1, <2>2
  <2> QED BY <2>1, <2>3, <2>4 DEF StartInv, In, Indices, ToSet
<1>5. CASE EndTick
  <2>1. /\ current' = 0 /\ started' = << >> /\ task' = << >> /\ groups' = << >> /\ executor' = executor
    BY <1>5 DEF EndTick
  <2>2. Members' = {}
    BY <2>1 DEF Members
  <2> QED BY <2>1, <2>2 DEF StartInv, ToSet
<1>6. CASE UNCHANGED vars
  BY <1>6 DEF vars, planVars, StartInv, In, Indices, Members, ToSet
<1> QED BY <1>1, <1>2, <1>3, <1>4, <1>5, <1>6 DEF Next

-----------------------------------------------------------------------------
(* The queue of commands. *)

(* Commands sent once each fit into the queue. *)
LEMMA DistinctFits ==
  ASSUME NEW s \in Seq(Sendable), \A m, n \in DOMAIN s : s[m] = s[n] => m = n
  PROVE  Len(s) <= Capacity
<1>1. Len(s) \in Nat /\ DOMAIN s = 1..Len(s) /\ s \in [1..Len(s) -> Sendable]
  OBVIOUS
<1>2. s \in Injection(1..Len(s), Sendable)
  BY <1>1 DEF Injection, IsInjective
<1>3. Cardinality(1..Len(s)) = Len(s)
  BY <1>1, FS_Interval, SMTT(30)
<1>4. Cardinality(1..Len(s)) <= Cardinality(Sendable)
  BY <1>2, CapacityAssumption, FS_Injection
<1>5. Cardinality(Sendable) \in Nat
  BY CapacityAssumption, FS_CardinalityType
<1> QED BY <1>1, <1>3, <1>4, <1>5, CapacityAssumption

(* Controllers are told apart by their names. *)
LEMMA NamesDiffer ==
  ASSUME SortInv, NEW i \in Indices, NEW j \in Indices, controllers[i].name = controllers[j].name
  PROVE  i = j
<1>1. /\ controllers \in Seq(Candidates) /\ Indices = 1..Len(controllers) /\ Len(controllers) \in Nat
      /\ controllers[i] \in Candidates /\ controllers[j] \in Candidates
  BY DEF SortInv, Indices
<1>2. controllers[i] = controllers[j]
  BY <1>1, CandidatesAssumption
<1>3. Rank(controllers[i]) \in Nat
  <2>1. Rank(controllers[i]) \in DOMAIN joined
    BY RanksAreNumbers DEF Indices
  <2>2. DOMAIN joined \subseteq Nat
    BY DEF SortInv
  <2> QED BY <2>1, <2>2
<1>4. ASSUME NEW m \in Indices, NEW n \in Indices, controllers[m] = controllers[n],
             controllers[m] = controllers[i]
      PROVE  ~(m < n)
  <2> SUFFICES ASSUME m < n PROVE FALSE
    OBVIOUS
  <2>1. Rank(controllers[m]) < Rank(controllers[n])
    BY <1>4 DEF SortInv, TiesOrdered, Indices
  <2> QED BY <1>3, <1>4, <2>1
<1> QED BY <1>1, <1>2, <1>4

(* A command about to be sent has not been sent yet. *)
LEMMA SendsAnew ==
  ASSUME SortInv, PlanInv, QueueInv, NEW i \in Members,
         task[i].pc \in {"loaded", "numbered", "constructed"}
  PROVE  LET x == <<controllers[i].name, task[i].left>> IN
         /\ x \in Sendable /\ Append(sent, x) \in Seq(Sendable)
         /\ \A m, n \in DOMAIN Append(sent, x) : Append(sent, x)[m] = Append(sent, x)[n] => m = n
         /\ Len(sent) + 1 <= Capacity
<1> DEFINE x == <<controllers[i].name, task[i].left>>
<1>1. i \in DOMAIN task /\ controllers[i] \in Candidates /\ task[i].left \in Nat
  <2>1. i \in Indices /\ DOMAIN task = Indices /\ task[i] \in TaskState /\ controllers[i] \in Candidates
    BY MemberIsCurrent
  <2> QED BY <2>1 DEF TaskState
<1>2. task[i].left \in 1..controllers[i].sends
  <2>1. task[i].left > 0 /\ task[i].left <= controllers[i].sends
    BY <1>1 DEF PlanInv
  <2>2. controllers[i].sends \in Nat
    BY <1>1, CandidateTypes
  <2> QED BY <1>1, <2>1, <2>2
<1>3. x \in Sendable
  <2>1. x \in {controllers[i].name} \X (1..controllers[i].sends)
    BY <1>2
  <2> QED BY <1>1, <2>1 DEF Sendable
<1>4. /\ sent \in Seq(Sendable) /\ Len(sent) \in Nat /\ DOMAIN sent = 1..Len(sent)
      /\ \A m, n \in DOMAIN sent : sent[m] = sent[n] => m = n
  BY DEF QueueInv
<1>5. ASSUME NEW n \in DOMAIN sent PROVE sent[n] # x
  <2> SUFFICES ASSUME sent[n] = x PROVE FALSE
    OBVIOUS
  <2>1. sent[n][1] = controllers[i].name /\ sent[n][2] = task[i].left
    OBVIOUS
  <2>2. sent[n][2] > task[i].left
    BY <1>1, <2>1 DEF QueueInv
  <2> QED BY <1>1, <2>1, <2>2
<1> HIDE DEF x
<1> DEFINE more == Append(sent, x)
<1>6. /\ more \in Seq(Sendable) /\ Len(more) = Len(sent) + 1
      /\ DOMAIN more = 1..(Len(sent) + 1) /\ more[Len(sent) + 1] = x
      /\ \A n \in DOMAIN sent : more[n] = sent[n]
  BY <1>3, <1>4
<1>7. \A m, n \in DOMAIN more : more[m] = more[n] => m = n
  BY <1>4, <1>5, <1>6
<1> HIDE DEF more
<1>8. Len(more) <= Capacity
  BY <1>6, <1>7, DistinctFits
<1> QED BY <1>3, <1>6, <1>7, <1>8 DEF x, more

LEMMA SendableTypes == \A x \in Sendable : x[2] \in Nat
<1> SUFFICES ASSUME NEW x \in Sendable PROVE x[2] \in Nat
  OBVIOUS
<1>1. PICK c \in Candidates : x \in {c.name} \X (1..c.sends)
  BY DEF Sendable
<1>2. c.sends \in Nat
  BY CandidateTypes
<1> QED BY <1>1, <1>2

LEMMA AdvanceKeepsQueue ==
  ASSUME SortInv, PlanInv, QueueInv, NEW i \in Members, Advance(i)
  PROVE  /\ used' \in 0..Len(sent')
         /\ sent' \in Seq(Sendable) /\ Len(sent') = Len(sent) + 1
         /\ \A m, n \in DOMAIN sent' : sent'[m] = sent'[n] => m = n
         /\ \A n \in DOMAIN sent', j \in Indices :
              sent'[n][1] = controllers[j].name => sent'[n][2] > task'[j].left
<1> DEFINE x == <<controllers[i].name, task[i].left>>
<1>1. /\ task[i].pc = "constructed" /\ used' \in {used + 1, task[i].slot} /\ sent' = Append(sent, x)
      /\ task' = [task EXCEPT ![i].pc = "body", ![i].left = @ - 1]
  BY DEF Advance
<1>2. /\ sent \in Seq(Sendable) /\ Len(sent) \in Nat /\ DOMAIN sent = 1..Len(sent)
      /\ used \in 0..Len(sent)
  BY DEF QueueInv
<1>3. i \in Indices /\ task \in [Indices -> TaskState] /\ DOMAIN task = Indices
  <2>1. current # 0 /\ i \in Indices
    BY MemberIsCurrent
  <2> QED BY <2>1 DEF PlanInv
<1>4. \A j \in Indices : task[j].left \in Nat /\ task[j].slot \in Nat
  BY <1>3 DEF TaskState
<1>5. task'[i].left = task[i].left - 1 /\ \A j \in Indices : j # i => task'[j] = task[j]
  BY <1>1, <1>3
<1>6. /\ sent' \in Seq(Sendable) /\ \A m, n \in DOMAIN sent' : sent'[m] = sent'[n] => m = n
  BY <1>1, SendsAnew
<1>7. task[i].slot <= Len(sent) + 1
  BY <1>1, <1>3 DEF QueueInv
<1>8. /\ Len(sent') = Len(sent) + 1 /\ DOMAIN sent' = 1..(Len(sent) + 1)
      /\ sent'[Len(sent) + 1] = x
      /\ \A n \in DOMAIN sent : sent'[n] = sent[n]
  BY <1>1, <1>2
<1>9. used' \in 0..Len(sent')
  BY <1>1, <1>2, <1>3, <1>4, <1>7, <1>8
<1>10. ASSUME NEW n \in DOMAIN sent', NEW j \in Indices, sent'[n][1] = controllers[j].name
       PROVE  sent'[n][2] > task'[j].left
  <2>1. CASE n \in DOMAIN sent
    <3>1. sent[n] \in Sendable /\ sent'[n] = sent[n]
      BY <1>2, <1>8, <2>1
    <3>2. sent[n][2] > task[j].left
      BY <1>3, <1>10, <2>1, <3>1 DEF QueueInv
    <3>3. sent[n][2] \in Nat
      BY <3>1, SendableTypes
    <3> QED BY <1>4, <1>5, <3>1, <3>2, <3>3
  <2>2. CASE n \notin DOMAIN sent
    <3>1. sent'[n] = x
      BY <1>2, <1>8, <2>2
    <3>2. controllers[i].name = controllers[j].name
      BY <1>10, <3>1
    <3>3. j = i
      BY <1>3, <3>2, NamesDiffer
    <3> QED BY <1>3, <1>4, <1>5, <3>1, <3>3
  <2> QED BY <2>1, <2>2
<1> QED BY <1>6, <1>8, <1>9, <1>10

LEMMA RunStepKeepsQueue ==
  ASSUME SortInv, PlanInv, QueueInv, NEW i \in Members, RunStep(i)
  PROVE  QueueInv'
<1>1. UNCHANGED <<controllers, executor, groups, current, joined>>
  BY RunStepKeepsPlan
<1>2. /\ task' \in [Indices -> TaskState]
      /\ \A j \in Indices : j # i => task'[j] = task[j]
      /\ task'[i].left <= task[i].left
  BY RunStepMovesOne
<1>3. /\ i \in Indices /\ DOMAIN task = Indices /\ current # 0
      /\ \A j \in Indices : task[j] \in TaskState
  <2>1. i \in Indices /\ DOMAIN task = Indices /\ current # 0
    BY MemberIsCurrent
  <2>2. task \in [Indices -> TaskState]
    BY <2>1 DEF PlanInv
  <2> QED BY <2>1, <2>2
<1>4. /\ sent \in Seq(Sendable) /\ Len(sent) \in Nat /\ used \in 0..Len(sent)
      /\ nextCommandId \in 0..MaxCommandId
      /\ \A n \in DOMAIN sent : sent[n] \in Sendable
  BY DEF QueueInv
<1>5. nextCommandId' \in 0..MaxCommandId
  <2>1. task[i].id \in 0..MaxCommandId
    BY <1>3 DEF TaskState
  <2> QED BY <1>4, <2>1 DEF RunStep, Start, LoadId, StoreId, Construct, Advance, Finish, queueVars
<1>6. /\ used' \in 0..Len(sent') /\ sent' \in Seq(Sendable)
      /\ Len(sent') \in Nat /\ Len(sent) <= Len(sent')
      /\ \A m, n \in DOMAIN sent' : sent'[m] = sent'[n] => m = n
      /\ \A n \in DOMAIN sent', j \in Indices :
           sent'[n][1] = controllers[j].name => sent'[n][2] > task'[j].left
  <2>1. CASE Advance(i)
    BY <1>4, <2>1, AdvanceKeepsQueue
  <2>2. CASE ~Advance(i)
    <3>1. sent' = sent /\ used' = used
      BY <2>2 DEF RunStep, Start, LoadId, StoreId, Construct, Finish, queueVars
    <3>2. \A m, n \in DOMAIN sent : sent[m] = sent[n] => m = n
      BY DEF QueueInv
    <3>3. ASSUME NEW n \in DOMAIN sent, NEW j \in Indices, sent[n][1] = controllers[j].name
          PROVE  sent[n][2] > task'[j].left
      <4>1. sent[n][2] > task[j].left
        BY <1>3, <3>3 DEF QueueInv
      <4>2. sent[n][2] \in Nat
        BY <1>4, SendableTypes
      <4>3. task[j].left \in Nat /\ task'[j].left \in Nat
        BY <1>2, <1>3 DEF TaskState
      <4>4. task'[j].left <= task[j].left
        BY <1>2, <4>3
      <4> QED BY <4>1, <4>2, <4>3, <4>4
    <3> QED BY <1>4, <3>1, <3>2, <3>3
  <2> QED BY <2>1, <2>2
<1>7. ASSUME NEW j \in Indices, task'[j].pc = "constructed" PROVE task'[j].slot <= Len(sent') + 1
  <2>1. task[j].slot \in Nat /\ used \in Nat
    BY <1>3, <1>4 DEF TaskState
  <2>2. CASE task[j].pc = "constructed" /\ task'[j].slot = task[j].slot
    <3>1. task[j].slot <= Len(sent) + 1
      BY <1>3, <2>2 DEF QueueInv
    <3> QED BY <1>4, <1>6, <2>1, <2>2, <3>1
  <2>3. CASE ~(task[j].pc = "constructed" /\ task'[j].slot = task[j].slot)
    <3>1. j = i
      BY <1>2, <1>7, <2>3
    <3>2. Construct(i)
      <4>1. task \in [Indices -> TaskState]
        BY <1>3 DEF PlanInv
      <4>2. ~Start(i) /\ ~LoadId(i) /\ ~StoreId(i) /\ ~Advance(i) /\ ~Finish(i)
        BY <1>3, <1>7, <3>1, <4>1 DEF Start, LoadId, StoreId, Advance, Finish, TaskState
      <4> QED BY <4>2 DEF RunStep
    <3>3. task'[i].slot = used + 1
      BY <1>3, <3>2 DEF Construct, PlanInv, TaskState
    <3> QED BY <1>4, <1>6, <2>1, <3>1, <3>3
  <2> QED BY <2>2, <2>3
<1>8. DOMAIN task' = Indices
  BY <1>2
<1> QED BY <1>1, <1>3, <1>5, <1>6, <1>7, <1>8 DEF QueueInv

LEMMA QueueStep ==
  ASSUME SortInv, PlanInv, QueueInv, [Next]_vars
  PROVE  QueueInv'
<1>1. CASE (\E c \in Candidates : Register(c)) \/ PlanTick \/ EndTick
  <2>1. current = 0 \/ EndTick
    BY <1>1 DEF Register, PlanTick
  <2>2. /\ sent' = << >> /\ used' = 0 /\ nextCommandId' = nextCommandId
        /\ \A i \in DOMAIN task' : task'[i].pc # "constructed"
    <3>1. CASE \E c \in Candidates : Register(c)
      BY <3>1 DEF Register, PlanInv, QueueInv, queueVars
    <3>2. CASE PlanTick
      BY <3>2 DEF PlanTick, Ready, QueueInv, queueVars
    <3>3. CASE EndTick
      BY <3>3 DEF EndTick
    <3> QED BY <1>1, <3>1, <3>2, <3>3
  <2> QED BY <2>2 DEF QueueInv
<1>2. CASE \E i \in Members : RunStep(i)
  BY <1>2, RunStepKeepsQueue
<1>3. CASE NextGroup \/ UNCHANGED vars
  <2>1. /\ UNCHANGED <<controllers, task, nextCommandId, used, sent>>
        /\ current' = 0 => current = 0
    <3>1. CASE NextGroup
      <4>1. current' = current + 1 /\ current \in DOMAIN groups
        BY <3>1 DEF NextGroup
      <4>2. current \in Nat
        BY <4>1, GroupsPartition
      <4> QED BY <3>1, <4>1, <4>2 DEF NextGroup, queueVars
    <3>2. CASE UNCHANGED vars
      BY <3>2 DEF vars, planVars, queueVars
    <3> QED BY <1>3, <3>1, <3>2
  <2> QED BY <2>1 DEF QueueInv
<1> QED BY <1>1, <1>2, <1>3 DEF Next

-----------------------------------------------------------------------------
(* Submission without an executor. *)

(* While a controller takes a step no other one is running. *)
LEMMA OthersRest ==
  ASSUME SortInv, PlanInv, QueueInv, StartInv, ~executor, NEW i \in Members, RunStep(i),
         NEW j \in Indices, j # i
  PROVE  task[j].pc \in {"ready", "done"}
<1>1. /\ current \in DOMAIN groups /\ current # 0 /\ Members = In(groups, current)
      /\ i \in Indices /\ DOMAIN task = Indices
  BY MemberIsCurrent
<1>2. /\ Indices \subseteq Nat /\ DOMAIN groups \subseteq Nat /\ Indices = 1..Len(controllers)
      /\ GoodPlan(groups, controllers, Len(controllers))
  BY <1>1, GroupsPartition
<1>3. PICK g \in DOMAIN groups : j \in In(groups, g)
  BY <1>2 DEF GoodPlan
<1>4. g \in Nat /\ current \in Nat /\ i \in Nat /\ j \in Nat
  BY <1>1, <1>2
<1>5. CASE g # current
  BY <1>3, <1>4, <1>5 DEF PlanInv
<1>6. CASE g = current
  <2>1. j \in Members
    BY <1>1, <1>3, <1>6
  <2>2. \A a, b \in Members : b < a /\ task[a].pc # "ready" => task[b].pc = "done"
    BY DEF StartInv
  <2>3. task[i].pc # "done"
    BY RunStepMovesOne
  <2>4. CASE j < i
    <3>1. CASE Start(i)
      BY <2>1, <2>4, <3>1 DEF Start, Turn, Parallel
    <3>2. CASE ~Start(i)
      <4>1. task[i].pc # "ready"
        BY <3>2 DEF RunStep, LoadId, StoreId, Construct, Advance, Finish
      <4> QED BY <2>1, <2>2, <2>4, <4>1
    <3> QED BY <3>1, <3>2
  <2>5. CASE i < j
    BY <2>1, <2>2, <2>3, <2>5
  <2> QED BY <1>4, <2>4, <2>5
<1> QED BY <1>5, <1>6

(* What SubmitInv says of the queue, given the last id that is in it. *)
Submitted(queue, last, n, log) ==
    /\ n = Len(log)
    /\ \A k \in 1..n : /\ <<queue[k].from, queue[k].k>> = log[k]
                       /\ queue[k].id = last - n + k

LEMMA SubmitRunStep ==
  ASSUME SortInv, PlanInv, QueueInv, StartInv, SubmitInv, ~executor, NEW i \in Members, RunStep(i)
  PROVE  SubmitInv'
<1>1. UNCHANGED <<controllers, executor, groups, current, joined>>
  BY RunStepKeepsPlan
<1>2. /\ task' \in [Indices -> TaskState] /\ DOMAIN task' = Indices
      /\ \A j \in Indices : j # i => task'[j] = task[j]
  BY RunStepMovesOne
<1>3. /\ i \in Indices /\ DOMAIN task = Indices /\ task \in [Indices -> TaskState]
      /\ task[i] \in TaskState
  <2>1. i \in Indices /\ DOMAIN task = Indices /\ current # 0 /\ task[i] \in TaskState
    BY MemberIsCurrent
  <2> QED BY <2>1 DEF PlanInv
<1>4. \A j \in Indices : j # i => task[j].pc \in {"ready", "done"}
  BY OthersRest
<1>5. /\ Numbered <=> task[i].pc \in {"numbered", "constructed"}
      /\ Numbered' <=> task'[i].pc \in {"numbered", "constructed"}
  BY <1>2, <1>3, <1>4 DEF Numbered
<1>6. /\ used \in Nat /\ nextCommandId \in Nat /\ Len(sent) \in Nat /\ Capacity \in Nat
      /\ sent \in Seq(Sendable)
  BY CapacityAssumption DEF QueueInv
<1>7. DOMAIN slots = 1..Capacity /\ Submitted(slots, LastId, used, sent)
  BY DEF SubmitInv, Submitted
<1> DEFINE Held == /\ task'[i].pc = "loaded" => task'[i].id = nextCommandId' + 1
                   /\ task'[i].pc = "numbered" => task'[i].id = nextCommandId'
                   /\ task'[i].pc = "constructed" =>
                        /\ task'[i].slot = used' + 1
                        /\ slots'[used' + 1] = [id   |-> nextCommandId',
                                                from |-> controllers[i].name,
                                                k    |-> task'[i].left]
<1>8. /\ DOMAIN slots' = 1..Capacity /\ Submitted(slots', LastId', used', sent') /\ Held
  <2>1. CASE Start(i) \/ Finish(i)
    <3>1. /\ task[i].pc \notin {"numbered", "constructed"}
          /\ task'[i].pc \notin {"loaded", "numbered", "constructed"}
          /\ UNCHANGED <<slots, used, sent, nextCommandId>>
      BY <1>3, <2>1 DEF Start, Finish, TaskState, queueVars
    <3>2. LastId' = LastId
      BY <1>5, <3>1 DEF LastId
    <3> QED BY <1>7, <3>1, <3>2
  <2>2. CASE LoadId(i)
    <3>1. /\ task[i].pc = "body" /\ task'[i].pc = "loaded" /\ task'[i].id = nextCommandId + 1
          /\ UNCHANGED <<slots, used, sent, nextCommandId>>
      BY <1>3, <2>2 DEF LoadId, TaskState, queueVars
    <3>2. LastId' = LastId
      BY <1>5, <3>1 DEF LastId
    <3> QED BY <1>7, <3>1, <3>2
  <2>3. CASE StoreId(i)
    <3>1. /\ task[i].pc = "loaded" /\ task'[i].pc = "numbered" /\ task'[i].id = task[i].id
          /\ nextCommandId' = task[i].id
          /\ UNCHANGED <<slots, used, sent>>
      BY <1>3, <2>3 DEF StoreId, TaskState
    <3>2. nextCommandId' = nextCommandId + 1
      BY <1>3, <3>1 DEF SubmitInv
    <3>3. LastId' = LastId
      BY <1>5, <1>6, <3>1, <3>2 DEF LastId
    <3> QED BY <1>7, <3>1, <3>3
  <2>4. CASE Construct(i)
    <3> DEFINE x == [id |-> task[i].id, from |-> controllers[i].name, k |-> task[i].left]
    <3>1. /\ task[i].pc = "numbered" /\ task'[i].pc = "constructed"
          /\ task'[i].slot = used + 1 /\ task'[i].left = task[i].left
          /\ slots' = [slots EXCEPT ![used + 1] = x]
          /\ UNCHANGED <<used, sent, nextCommandId>>
      BY <1>3, <2>4 DEF Construct, TaskState
    <3>2. task[i].id = nextCommandId
      BY <1>3, <3>1 DEF SubmitInv
    <3>3. used + 1 \in 1..Capacity /\ used = Len(sent)
      <4>1. Len(sent) + 1 <= Capacity
        BY <3>1, SendsAnew
      <4> QED BY <1>6, <1>7, <4>1 DEF Submitted
    <3>4. LastId' = LastId
      BY <1>5, <3>1 DEF LastId
    <3> HIDE DEF x
    <3>5. slots'[used + 1] = x /\ \A n \in 1..used : slots'[n] = slots[n]
      BY <1>6, <1>7, <3>1, <3>3
    <3>6. Submitted(slots', LastId', used', sent')
      BY <1>7, <3>1, <3>4, <3>5 DEF Submitted
    <3> QED BY <1>7, <3>1, <3>2, <3>5, <3>6 DEF x
  <2>5. CASE Advance(i)
    <3> DEFINE c == <<controllers[i].name, task[i].left>>
    <3>1. /\ task[i].pc = "constructed" /\ task'[i].pc = "body"
          /\ used' \in {used + 1, task[i].slot} /\ sent' = Append(sent, c)
          /\ UNCHANGED <<slots, nextCommandId>>
      BY <1>3, <2>5 DEF Advance, TaskState
    <3>2. /\ task[i].slot = used + 1
          /\ slots[used + 1] = [id |-> nextCommandId, from |-> controllers[i].name, k |-> task[i].left]
      BY <1>3, <3>1 DEF SubmitInv
    <3>3. LastId = nextCommandId - 1 /\ LastId' = nextCommandId /\ used' = used + 1
      BY <1>5, <3>1, <3>2 DEF LastId
    <3>4. <<slots[used + 1].from, slots[used + 1].k>> = c /\ slots[used + 1].id = nextCommandId
      BY <3>2
    <3> HIDE DEF c
    <3>5. /\ Len(sent') = Len(sent) + 1 /\ sent'[Len(sent) + 1] = c
          /\ \A n \in 1..Len(sent) : sent'[n] = sent[n]
      BY <1>6, <3>1
    <3>6. ASSUME NEW n \in 1..(used + 1)
          PROVE  <<slots[n].from, slots[n].k>> = sent'[n] /\ slots[n].id = nextCommandId - (used + 1) + n
      <4>1. CASE n = used + 1
        BY <1>6, <1>7, <3>4, <3>5, <4>1 DEF Submitted
      <4>2. CASE n # used + 1
        <5>1. n \in 1..used /\ n \in 1..Len(sent)
          BY <1>6, <1>7, <4>2 DEF Submitted
        <5>2. /\ <<slots[n].from, slots[n].k>> = sent[n]
              /\ slots[n].id = (nextCommandId - 1) - used + n
          BY <1>7, <3>3, <5>1 DEF Submitted
        <5> QED BY <1>6, <3>5, <5>1, <5>2
      <4> QED BY <4>1, <4>2
    <3>7. Submitted(slots', LastId', used', sent')
      BY <1>7, <3>1, <3>3, <3>5, <3>6 DEF Submitted
    <3> QED BY <1>7, <3>1, <3>7
  <2> QED BY <2>1, <2>2, <2>3, <2>4, <2>5 DEF RunStep
<1>9. \A j \in Indices : j # i => task'[j].pc \notin {"loaded", "numbered", "constructed"}
  BY <1>2, <1>4
<1> QED BY <1>1, <1>2, <1>8, <1>9 DEF SubmitInv, Submitted

LEMMA SubmitStep ==
  ASSUME SortInv, PlanInv, QueueInv, StartInv, SubmitInv, [Next]_vars
  PROVE  SubmitInv'
<1>1. CASE (\E c \in Candidates : Register(c)) \/ PlanTick \/ EndTick
  <2>1. /\ sent' = << >> /\ used' = 0 /\ DOMAIN slots' = 1..Capacity
        /\ \A i \in DOMAIN task' : task'[i].pc = "ready"
    <3>1. CASE \E c \in Candidates : Register(c)
      BY <3>1 DEF Register, PlanInv, QueueInv, SubmitInv, queueVars
    <3>2. CASE PlanTick
      BY <3>2 DEF PlanTick, Ready, QueueInv, SubmitInv, queueVars
    <3>3. CASE EndTick
      BY <3>3 DEF EndTick, Empty
    <3> QED BY <1>1, <3>1, <3>2, <3>3
  <2> QED BY <2>1 DEF SubmitInv
<1>2. CASE \E i \in Members : RunStep(i)
  <2>1. PICK i \in Members : RunStep(i)
    BY <1>2
  <2>2. CASE executor
    <3>1. executor' = executor
      BY <2>1, RunStepKeepsPlan
    <3>2. DOMAIN slots' = DOMAIN slots
      BY <2>1 DEF RunStep, Start, LoadId, StoreId, Construct, Advance, Finish, queueVars
    <3> QED BY <2>2, <3>1, <3>2 DEF SubmitInv
  <2>3. CASE ~executor
    BY <2>1, <2>3, SubmitRunStep
  <2> QED BY <2>2, <2>3
<1>3. CASE NextGroup \/ UNCHANGED vars
  <2>1. UNCHANGED <<controllers, executor, task, nextCommandId, slots, used, sent>>
    BY <1>3 DEF NextGroup, vars, planVars, queueVars
  <2> QED BY <2>1 DEF SubmitInv, LastId, Numbered
<1> QED BY <1>1, <1>2, <1>3 DEF Next

-----------------------------------------------------------------------------
LEMMA DispatchInvInit == Init => DispatchInv
<1> SUFFICES ASSUME Init PROVE DispatchInv
  OBVIOUS
<1>1. /\ controllers = << >> /\ joined = << >> /\ groups = << >> /\ current = 0 /\ task = << >>
      /\ nextCommandId = 0 /\ used = 0 /\ started = << >> /\ sent = << >>
      /\ slots = Empty /\ executor \in BOOLEAN
  BY DEF Init
<1>2. SortInv
  BY <1>1 DEF SortInv, TiesOrdered, ToSet
<1>3. PlanInv
  BY <1>1 DEF PlanInv
<1>4. StartInv
  <2>1. Members = {}
    BY <1>1 DEF Members
  <2> QED BY <1>1, <2>1 DEF StartInv
<1>5. QueueInv
  BY <1>1, CapacityAssumption DEF QueueInv
<1>6. SubmitInv
  BY <1>1, CapacityAssumption DEF SubmitInv, Empty
<1> QED BY <1>2, <1>3, <1>4, <1>5, <1>6 DEF DispatchInv

LEMMA DispatchInvAlways == Spec => []DispatchInv
<1>1. DispatchInv /\ [Next]_vars => DispatchInv'
  BY SortStep, PlanStep, StartStep, QueueStep, SubmitStep DEF DispatchInv
<1> QED BY <1>1, DispatchInvInit, PTL DEF Spec

(* The state of the controller phase has its types, and the queue never    *)
(* outgrows its inline capacity.                                           *)
THEOREM DispatchTypeCorrect == Spec => []DispatchTypeOK
<1>1. DispatchInv => DispatchTypeOK
  <2> SUFFICES ASSUME DispatchInv PROVE DispatchTypeOK
    OBVIOUS
  <2>1. /\ controllers \in Seq(Candidates) /\ joined \in Seq(Candidates) /\ executor \in BOOLEAN
        /\ current \in 0..(Len(groups) + 1)
        /\ nextCommandId \in 0..MaxCommandId /\ started \in Seq(Indices)
    BY DEF DispatchInv, SortInv, PlanInv, StartInv, QueueInv
  <2>2. \A g \in DOMAIN groups : ToSet(groups[g].members) \subseteq Indices
    BY GroupsPartition DEF DispatchInv, In
  <2>3. ASSUME NEW i \in DOMAIN task
        PROVE  task[i].pc \in Steps /\ task[i].left \in 0..controllers[i].sends
    <3>1. current # 0 /\ task \in [Indices -> TaskState]
      BY DEF DispatchInv, PlanInv
    <3>2. /\ i \in Indices /\ task[i].pc \in Steps /\ task[i].left \in Nat
          /\ task[i].left <= controllers[i].sends
      BY <3>1 DEF DispatchInv, PlanInv, TaskState
    <3>3. controllers[i].sends \in Nat
      BY <3>2, GroupsPartition, CandidateTypes DEF DispatchInv
    <3> QED BY <3>2, <3>3
  <2>4. used \in 0..Capacity
    <3>1. /\ used \in 0..Len(sent) /\ sent \in Seq(Sendable) /\ Len(sent) \in Nat
          /\ \A m, n \in DOMAIN sent : sent[m] = sent[n] => m = n
      BY DEF DispatchInv, QueueInv
    <3>2. Len(sent) <= Capacity
      BY <3>1, DistinctFits
    <3> QED BY <3>1, <3>2, CapacityAssumption
  <2> QED BY <2>1, <2>2, <2>3, <2>4 DEF DispatchTypeOK
<1> QED BY <1>1, DispatchInvAlways, PTL

(* Two controllers that declare a common type never run at the same time,  *)
(* whatever the executor does: only members of the current group run, and  *)
(* first-fit puts no two of them into one group.                           *)
THEOREM DispatchNoConflict == Spec => []NoConflict
<1>1. DispatchInv => NoConflict
  <2> SUFFICES ASSUME DispatchInv, NEW i \in DOMAIN task, NEW j \in DOMAIN task, i # j,
                      Running(i), Running(j)
               PROVE  ~Overlap(controllers[i], controllers[j])
    BY DEF NoConflict
  <2>1. current # 0 /\ i \in Indices /\ j \in Indices
    BY DEF DispatchInv, PlanInv
  <2>2. /\ GoodPlan(groups, controllers, Len(controllers)) /\ Indices = 1..Len(controllers)
        /\ DOMAIN groups = 1..Len(groups) /\ Len(groups) \in Nat
    BY <2>1, GroupsPartition DEF DispatchInv
  <2>3. current \in Nat
    BY <2>2 DEF DispatchInv, PlanInv
  <2>4. ASSUME NEW k \in Indices, Running(k)
        PROVE  current \in DOMAIN groups /\ k \in In(groups, current)
    <3>1. PICK g \in DOMAIN groups : k \in In(groups, g)
      BY <2>2 DEF GoodPlan
    <3>2. ~(g < current) /\ ~(g > current)
      BY <2>4, <3>1 DEF Running, DispatchInv, PlanInv
    <3> QED BY <2>2, <2>3, <3>1, <3>2
  <2>5. controllers[i].access \cap controllers[j].access = {}
    BY <2>1, <2>2, <2>4 DEF GoodPlan
  <2> QED BY <2>5 DEF Overlap
<1> QED BY <1>1, DispatchInvAlways, PTL

(* When all groups are done every controller is done. *)
LEMMA AllAreDone ==
  ASSUME DispatchInv, Finished
  PROVE  /\ current # 0 /\ DOMAIN task = Indices
         /\ GoodPlan(groups, controllers, Len(controllers)) /\ Indices = 1..Len(controllers)
         /\ \A i \in Indices : task[i].pc = "done"
<1>1. Len(groups) \in Nat /\ DOMAIN groups = 1..Len(groups)
  BY GroupsPartition DEF DispatchInv
<1>2. current # 0 /\ current = Len(groups) + 1
  BY <1>1 DEF Finished
<1>3. GoodPlan(groups, controllers, Len(controllers)) /\ Indices = 1..Len(controllers)
  BY <1>2, GroupsPartition DEF DispatchInv
<1>4. ASSUME NEW i \in Indices PROVE task[i].pc = "done"
  <2>1. PICK g \in DOMAIN groups : i \in In(groups, g)
    BY <1>3 DEF GoodPlan
  <2>2. g < current
    BY <1>1, <1>2, <2>1
  <2> QED BY <2>1, <2>2 DEF DispatchInv, PlanInv
<1>5. DOMAIN task = Indices
  BY <1>2 DEF DispatchInv, PlanInv
<1> QED BY <1>2, <1>3, <1>4, <1>5

(* Without an executor the queue holds every command sent, in order and    *)
(* under consecutive ids.                                                  *)
THEOREM DispatchSubmitsAll == Spec => []SequentialSubmissions
<1>1. DispatchInv => SequentialSubmissions
  <2> SUFFICES ASSUME DispatchInv, Finished, ~executor
               PROVE  /\ used = Len(sent)
                      /\ \A n \in 1..used :
                           /\ <<slots[n].from, slots[n].k>> = sent[n]
                           /\ slots[n].id = nextCommandId - used + n
    BY DEF SequentialSubmissions
  <2>1. LastId = nextCommandId
    BY AllAreDone DEF LastId, Numbered
  <2> QED BY <2>1 DEF DispatchInv, SubmitInv
<1> QED BY <1>1, DispatchInvAlways, PTL

(* Every registered controller runs once in a tick, and those of the same  *)
(* declared access in order of priority and then of registration.          *)
THEOREM DispatchRunsInOrder == Spec => []RunOnceInOrder
<1>1. DispatchInv => RunOnceInOrder
  <2> SUFFICES ASSUME DispatchInv, Finished
               PROVE  /\ Len(started) = Len(joined)
                      /\ {controllers[started[m]] : m \in DOMAIN started} = ToSet(joined)
                      /\ \A m, n \in DOMAIN started :
                           LET a == controllers[started[m]]
                               b == controllers[started[n]] IN
                           (m < n /\ a.access = b.access /\ (~executor \/ a.access # {}))
                              => \/ a.priority > b.priority
                                 \/ a.priority = b.priority /\ Rank(a) < Rank(b)
    BY DEF RunOnceInOrder
  <2>1. /\ current # 0 /\ DOMAIN task = Indices /\ Indices = 1..Len(controllers)
        /\ GoodPlan(groups, controllers, Len(controllers))
        /\ \A i \in Indices : task[i].pc = "done"
    BY AllAreDone
  <2>2. /\ started \in Seq(Indices) /\ Len(started) \in Nat /\ DOMAIN started = 1..Len(started)
        /\ started \in [1..Len(started) -> Indices]
        /\ \A m, n \in DOMAIN started : started[m] = started[n] => m = n
        /\ ToSet(started) = Indices
    BY <2>1 DEF DispatchInv, StartInv, ToSet
  <2>3. Len(controllers) = Len(joined) /\ ToSet(controllers) = ToSet(joined) /\ Len(controllers) \in Nat
    BY DEF DispatchInv, SortInv
  <2>4. Len(started) = Len(joined)
    <3>1. started \in Injection(1..Len(started), Indices)
      BY <2>2 DEF Injection, IsInjective
    <3>2. started \in Surjection(1..Len(started), Indices)
      BY <2>2 DEF Surjection, ToSet
    <3>3. /\ IsFiniteSet(Indices) /\ Cardinality(Indices) = Len(controllers)
          /\ IsFiniteSet(1..Len(started)) /\ Cardinality(1..Len(started)) = Len(started)
      <4>1. \A n \in Nat : IsFiniteSet(1..n) /\ Cardinality(1..n) = n
        BY FS_Interval
      <4> QED BY <2>1, <2>2, <2>3, <4>1
    <3>4. Cardinality(1..Len(started)) = Cardinality(Indices)
      BY <3>1, <3>2, <3>3, FS_Injection
    <3> QED BY <2>3, <3>3, <3>4
  <2>5. {controllers[started[m]] : m \in DOMAIN started} = ToSet(joined)
    <3>1. {controllers[started[m]] : m \in DOMAIN started} \subseteq ToSet(controllers)
      BY <2>2 DEF ToSet, Indices
    <3>2. ASSUME NEW i \in Indices PROVE \E m \in DOMAIN started : started[m] = i
      BY <2>2 DEF ToSet
    <3>3. ToSet(controllers) = {controllers[i] : i \in Indices}
      BY DEF ToSet, Indices
    <3>4. ToSet(controllers) \subseteq {controllers[started[m]] : m \in DOMAIN started}
      BY <3>2, <3>3
    <3> QED BY <2>3, <3>1, <3>4
  <2>6. ASSUME NEW m \in DOMAIN started, NEW n \in DOMAIN started, m < n,
               controllers[started[m]].access = controllers[started[n]].access,
               ~executor \/ controllers[started[m]].access # {}
        PROVE  Before(controllers[started[m]], controllers[started[n]])
    <3> DEFINE i == started[m]
               j == started[n]
    <3>1. i \in Indices /\ j \in Indices /\ i # j /\ i \in Nat /\ j \in Nat
      BY <2>1, <2>2, <2>6
    <3>2. PICK g \in DOMAIN groups : i \in In(groups, g)
      BY <2>1, <3>1 DEF GoodPlan
    <3>3. PICK h \in DOMAIN groups : j \in In(groups, h)
      BY <2>1, <3>1 DEF GoodPlan
    <3>4. g < h \/ (g = h /\ (executor \/ i < j))
      BY <2>6, <3>2, <3>3 DEF DispatchInv, StartInv
    <3>5. j < i => h < g \/ (h = g /\ controllers[j].access = {})
      BY <2>1, <2>6, <3>2, <3>3 DEF GoodPlan
    <3>6. g \in Nat /\ h \in Nat
      BY GroupsPartition DEF DispatchInv
    <3>7. i < j
      BY <2>6, <3>1, <3>4, <3>5, <3>6
    <3> QED BY <2>1, <3>1, <3>7 DEF DispatchInv, SortInv, Ordered, Indices
  <2> QED BY <2>4, <2>5, <2>6 DEF Before
<1> QED BY <1>1, DispatchInvAlways, PTL
=============================================================================
