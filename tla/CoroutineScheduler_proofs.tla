--------------------- MODULE CoroutineScheduler_proofs ---------------------
(***************************************************************************)
(* Proofs about the five owning schedulers, for any number of tasks,       *)
(* bodies of any length and any priorities: every frame has one owner,     *)
(* nothing is resumed that is done, and coroutines have their turns in the *)
(* order that the container promises.                                      *)
(***************************************************************************)
EXTENDS CoroutineScheduler, FiniteSetTheorems, SequenceTheorems, WellFoundedInduction, TLAPS

Jobs == [task : Tasks, prio : Int]

TypeOK == /\ policy \in Policies
          /\ rounds \in [Tasks -> Nat]
          /\ initPrio \in [Tasks -> 0..MaxPrio]
          /\ address \in [Tasks -> Tasks]
          /\ emplaced \in 0..NumTasks
          /\ tasks \in Seq(Jobs)
          /\ active = <<>> \/ \E j \in Jobs : active = <<j>>
          /\ resumed \in [Tasks -> Nat]
          /\ frames \subseteq 1..emplaced

\* What the containers that order by priority can compare: the updater only lowers
\* a priority, and the program that takes the smallest does not update.
InRange(p) == p <= MaxPrio /\ (policy # "update" => p >= 0)

Comparable == /\ \A i \in 1..Len(tasks) : InRange(tasks[i].prio)
              /\ active # <<>> => InRange(active[1].prio)

\* No task is in the container twice.
QueuedOnce == \A i, k \in 1..Len(tasks) : tasks[i].task = tasks[k].task => i = k

Owned == frames = Queued \cup Active /\ Queued \cap Active = {}

Progress == \A t \in Tasks : /\ resumed[t] <= rounds[t]
                             /\ t \in Queued => resumed[t] < rounds[t]
                             /\ t > emplaced => resumed[t] = 0 /\ rounds[t] > 0

IInv == TypeOK /\ Comparable /\ QueuedOnce /\ Owned /\ Progress
-----------------------------------------------------------------------------
(* The containers *)

LEMMA LeastNumber == ASSUME NEW T \in SUBSET Nat, T # {}
                     PROVE  \E m \in T : \A n \in T : m <= n
<1>1. PICK m \in T : \A n \in T : ~(<<n, m>> \in OpToRel(<, Nat))
  BY NatLessThanWellFounded, WFMin
<1>2. \A n \in T : ~(n < m)
  BY <1>1 DEF OpToRel
<1> QED
  BY <1>2

LEMMA RemoveProperties == ASSUME NEW S, NEW s \in Seq(S), NEW i \in 1..Len(s)
                          PROVE  /\ RemoveAt(s, i) \in Seq(S)
                                 /\ Len(RemoveAt(s, i)) = Len(s) - 1
                                 /\ \A k \in 1..(Len(s) - 1) :
                                       RemoveAt(s, i)[k] = IF k < i THEN s[k] ELSE s[k + 1]
<1> DEFINE a == SubSeq(s, 1, i - 1)
           b == SubSeq(s, i + 1, Len(s))
<1>1. /\ a \in Seq(S) /\ Len(a) = i - 1
      /\ \A k \in 1..(i - 1) : a[k] = s[k]
  <2>1. \A k \in 1..(i - 1) : s[k] \in S
    OBVIOUS
  <2>2. /\ a \in Seq(S) /\ Len(a) = IF 1 <= i - 1 THEN (i - 1) - 1 + 1 ELSE 0
        /\ \A k \in 1..((i - 1) - 1 + 1) : a[k] = s[1 + k - 1]
    BY <2>1, SubSeqProperties
  <2> QED
    BY <2>2
<1>2. /\ b \in Seq(S) /\ Len(b) = Len(s) - i
      /\ \A k \in 1..(Len(s) - i) : b[k] = s[i + k]
  <2>1. \A k \in (i + 1)..Len(s) : s[k] \in S
    OBVIOUS
  <2>2. /\ b \in Seq(S) /\ Len(b) = IF i + 1 <= Len(s) THEN Len(s) - (i + 1) + 1 ELSE 0
        /\ \A k \in 1..(Len(s) - (i + 1) + 1) : b[k] = s[i + 1 + k - 1]
    BY <2>1, SubSeqProperties
  <2> QED
    BY <2>2
<1>3. RemoveAt(s, i) = a \o b
  BY DEF RemoveAt
<1> HIDE DEF a, b
<1>4. /\ a \o b \in Seq(S) /\ Len(a \o b) = Len(a) + Len(b)
      /\ \A k \in 1..(Len(a) + Len(b)) : (a \o b)[k] = IF k <= Len(a) THEN a[k] ELSE b[k - Len(a)]
  BY <1>1, <1>2, ConcatProperties
<1>5. ASSUME NEW k \in 1..(Len(s) - 1) PROVE (a \o b)[k] = IF k < i THEN s[k] ELSE s[k + 1]
  <2> k \in Nat /\ i \in Nat /\ Len(s) \in Nat /\ k \in 1..(Len(a) + Len(b))
    BY <1>1, <1>2
  <2>1. CASE k < i
    <3>1. k <= Len(a) /\ k \in 1..(i - 1)
      BY <1>1, <2>1
    <3>2. (a \o b)[k] = a[k]
      BY <1>4, <3>1
    <3> QED
      BY <1>1, <2>1, <3>1, <3>2
  <2>2. CASE k >= i
    <3>1. k - Len(a) \in 1..(Len(s) - i) /\ i + (k - Len(a)) = k + 1
      BY <1>1, <2>2
    <3>2. (a \o b)[k] = b[k - Len(a)]
      BY <1>1, <1>4, <2>2
    <3>3. b[k - Len(a)] = s[i + (k - Len(a))]
      BY <1>2, <3>1
    <3>4. b[k - Len(a)] = s[k + 1]
      BY <3>1, <3>3
    <3> QED
      BY <2>2, <3>2, <3>4
  <2> QED
    BY <2>1, <2>2
<1> QED
  BY <1>1, <1>2, <1>3, <1>4, <1>5

\* Among jobs that are bounded on one side there is a first one: the one of the
\* extreme priority whose frame has the extreme address.
LEMMA PriorityTopExists ==
    ASSUME BoundsAssumption, TypeOK, Len(tasks) > 0, \A i \in 1..Len(tasks) : tasks[i].prio <= MaxPrio
    PROVE  /\ PriorityTop \in 1..Len(tasks)
           /\ \E i \in 1..Len(tasks) : \A k \in 1..Len(tasks) : ~Less(tasks[i], tasks[k])
<1> DEFINE P == {MaxPrio - tasks[i].prio : i \in 1..Len(tasks)}
<1>1. Len(tasks) \in Nat /\ \A i \in 1..Len(tasks) : tasks[i] \in Jobs
  BY DEF TypeOK
<1>2. ASSUME NEW i \in 1..Len(tasks)
      PROVE  /\ tasks[i].prio \in Int /\ MaxPrio - tasks[i].prio \in Nat
             /\ address[tasks[i].task] \in Nat /\ NumTasks - address[tasks[i].task] \in Nat
  <2>1. tasks[i].prio \in Int /\ tasks[i].task \in Tasks
    BY <1>1 DEF Jobs
  <2>2. address[tasks[i].task] \in 1..NumTasks
    BY <2>1 DEF TypeOK, Tasks
  <2> QED
    BY <2>1, <2>2 DEF BoundsAssumption
<1>3. P \in SUBSET Nat /\ P # {}
  <2>1. MaxPrio - tasks[1].prio \in P
    BY <1>1
  <2> QED
    BY <1>2, <2>1
<1>4. PICK p \in P : \A n \in P : p <= n
  BY <1>3, LeastNumber
<1> DEFINE I == {i \in 1..Len(tasks) : MaxPrio - tasks[i].prio = p}
           A == {NumTasks - address[tasks[i].task] : i \in I}
<1>5. A \in SUBSET Nat /\ A # {}
  <2>1. PICK i \in 1..Len(tasks) : p = MaxPrio - tasks[i].prio
    BY <1>4
  <2>2. NumTasks - address[tasks[i].task] \in A
    BY <2>1
  <2> QED
    BY <1>2, <2>2
<1>6. PICK a \in A : \A n \in A : a <= n
  <2> HIDE DEF A
  <2> QED
    BY <1>5, LeastNumber
<1>7. PICK i \in I : a = NumTasks - address[tasks[i].task]
  BY <1>6
<1>8. ASSUME NEW k \in 1..Len(tasks) PROVE ~Less(tasks[i], tasks[k])
  <2>1. MaxPrio - tasks[i].prio <= MaxPrio - tasks[k].prio
    BY <1>4, <1>7
  <2>2. CASE tasks[i].prio # tasks[k].prio
    BY <1>2, <1>7, <2>1, <2>2 DEF Less, BoundsAssumption
  <2>3. CASE tasks[i].prio = tasks[k].prio
    <3>1. k \in I
      BY <1>7, <2>3
    <3>2. NumTasks - address[tasks[i].task] <= NumTasks - address[tasks[k].task]
      BY <1>6, <1>7, <3>1
    <3>3. i \in 1..Len(tasks) /\ NumTasks \in Nat
      BY <1>7 DEF BoundsAssumption
    <3>4. tasks[i].prio \in Int /\ address[tasks[i].task] \in Nat
      BY <1>2, <3>3
    <3>5. tasks[k].prio \in Int /\ address[tasks[k].task] \in Nat
      BY <1>2
    <3>6. ~(address[tasks[i].task] < address[tasks[k].task])
      BY <3>2, <3>3, <3>4, <3>5
    <3> QED
      BY <2>3, <3>4, <3>6 DEF Less
  <2> QED
    BY <2>2, <2>3
<1>9. i \in 1..Len(tasks)
  BY <1>7
<1> QED
  BY <1>8, <1>9 DEF PriorityTop

LEMMA ComparatorTopExists ==
    ASSUME BoundsAssumption, TypeOK, Len(tasks) > 0, \A i \in 1..Len(tasks) : tasks[i].prio >= 0
    PROVE  /\ ComparatorTop \in 1..Len(tasks)
           /\ \E i \in 1..Len(tasks) : \A k \in 1..Len(tasks) : ~Less(tasks[k], tasks[i])
<1> DEFINE P == {tasks[i].prio : i \in 1..Len(tasks)}
<1>1. Len(tasks) \in Nat /\ \A i \in 1..Len(tasks) : tasks[i] \in Jobs
  BY DEF TypeOK
<1>2. ASSUME NEW i \in 1..Len(tasks)
      PROVE  tasks[i].prio \in Nat /\ address[tasks[i].task] \in Nat
  <2>1. tasks[i].prio \in Nat /\ tasks[i].task \in Tasks
    BY <1>1 DEF Jobs
  <2>2. address[tasks[i].task] \in 1..NumTasks
    BY <2>1 DEF TypeOK, Tasks
  <2> QED
    BY <2>1, <2>2 DEF BoundsAssumption
<1>3. P \in SUBSET Nat /\ P # {}
  <2>1. tasks[1].prio \in P
    BY <1>1
  <2> QED
    BY <1>2, <2>1
<1>4. PICK p \in P : \A n \in P : p <= n
  BY <1>3, LeastNumber
<1> DEFINE I == {i \in 1..Len(tasks) : tasks[i].prio = p}
           A == {address[tasks[i].task] : i \in I}
<1>5. A \in SUBSET Nat /\ A # {}
  <2>1. PICK i \in 1..Len(tasks) : p = tasks[i].prio
    BY <1>4
  <2>2. address[tasks[i].task] \in A
    BY <2>1
  <2> QED
    BY <1>2, <2>2
<1>6. PICK a \in A : \A n \in A : a <= n
  <2> HIDE DEF A
  <2> QED
    BY <1>5, LeastNumber
<1>7. PICK i \in I : a = address[tasks[i].task]
  BY <1>6
<1>8. ASSUME NEW k \in 1..Len(tasks) PROVE ~Less(tasks[k], tasks[i])
  <2>1. tasks[i].prio <= tasks[k].prio
    BY <1>4, <1>7
  <2>2. CASE tasks[i].prio # tasks[k].prio
    BY <1>2, <1>7, <2>1, <2>2 DEF Less
  <2>3. CASE tasks[i].prio = tasks[k].prio
    <3>1. k \in I
      BY <1>7, <2>3
    <3>2. address[tasks[i].task] <= address[tasks[k].task]
      BY <1>6, <1>7, <3>1
    <3> QED
      BY <1>2, <1>7, <2>3, <3>2 DEF Less
  <2> QED
    BY <2>2, <2>3
<1>9. i \in 1..Len(tasks)
  BY <1>7
<1> QED
  BY <1>8, <1>9 DEF ComparatorTop

LEMMA TopExists == ASSUME BoundsAssumption, TypeOK, Comparable, tasks # <<>>
                   PROVE  Top \in 1..Len(tasks)
<1>1. Len(tasks) \in Nat \ {0}
  BY DEF TypeOK
<1>2. CASE policy \in {"queue", "stack"}
  BY <1>1, <1>2 DEF Top, QueueFront, StackTop
<1>3. CASE policy \in {"priority", "update"}
  BY <1>1, <1>3, PriorityTopExists DEF Top, Comparable, InRange
<1>4. CASE policy = "comparator"
  BY <1>1, <1>4, ComparatorTopExists DEF Top, Comparable, InRange
<1> QED
  BY <1>2, <1>3, <1>4 DEF TypeOK, Policies
-----------------------------------------------------------------------------
(* Every action preserves the invariant *)

LEMMA InitHolds == ASSUME BoundsAssumption, Init PROVE IInv
<1>1. rounds \in [Tasks -> 1..MaxRounds] /\ resumed = [t \in Tasks |-> 0]
  BY DEF Init
<1>2. initPrio \in [Tasks -> 0..MaxPrio]
  <2>1. CASE Ordered
    BY <2>1 DEF Init
  <2>2. CASE ~Ordered
    BY <2>2 DEF Init, BoundsAssumption
  <2> QED
    BY <2>1, <2>2
<1>3. address \in [Tasks -> Tasks]
  <2>1. CASE Ordered
    BY <2>1 DEF Init, Bijection, Injection
  <2>2. CASE ~Ordered
    BY <2>2 DEF Init
  <2> QED
    BY <2>1, <2>2
<1>4. tasks = <<>> /\ active = <<>> /\ frames = {} /\ emplaced = 0 /\ policy \in Policies
  BY DEF Init
<1>5. Queued = {} /\ Active = {}
  BY <1>4 DEF Queued, Active
<1>6. TypeOK
  BY <1>1, <1>2, <1>3, <1>4 DEF TypeOK, BoundsAssumption
<1>7. Comparable /\ QueuedOnce /\ Owned
  BY <1>4, <1>5 DEF Comparable, QueuedOnce, Owned
<1>8. Progress
  BY <1>1, <1>4, <1>5 DEF Progress, BoundsAssumption
<1> QED
  BY <1>6, <1>7, <1>8 DEF IInv

\* A job that is appended to the container.
LEMMA AppendJob ==
    ASSUME tasks \in Seq(Jobs), NEW j \in Jobs, tasks' = Append(tasks, j), j.task \notin Queued, QueuedOnce
    PROVE  /\ tasks' \in Seq(Jobs) /\ QueuedOnce' /\ Queued' = Queued \cup {j.task}
           /\ (\A i \in 1..Len(tasks) : InRange(tasks[i].prio)) /\ InRange(j.prio)
                 => \A i \in 1..Len(tasks') : InRange(tasks'[i].prio)
<1>1. /\ tasks' \in Seq(Jobs) /\ Len(tasks') = Len(tasks) + 1 /\ Len(tasks) \in Nat
      /\ tasks'[Len(tasks) + 1] = j
      /\ \A i \in 1..Len(tasks) : tasks'[i] = tasks[i]
  OBVIOUS
<1>2. 1..Len(tasks') = 1..Len(tasks) \cup {Len(tasks) + 1}
  BY <1>1
<1>3. \A i \in 1..Len(tasks) : tasks[i].task # j.task
  BY DEF Queued
<1>4. QueuedOnce'
  BY <1>1, <1>2, <1>3 DEF QueuedOnce
<1>5. Queued' = Queued \cup {j.task}
  BY <1>1, <1>2 DEF Queued
<1> QED
  BY <1>1, <1>2, <1>4, <1>5

\* The job that is taken out of the container.
LEMMA RemoveJob ==
    ASSUME tasks \in Seq(Jobs), NEW n \in 1..Len(tasks), tasks' = RemoveAt(tasks, n), QueuedOnce
    PROVE  /\ tasks' \in Seq(Jobs) /\ QueuedOnce' /\ Queued' = Queued \ {tasks[n].task}
           /\ tasks[n] \in Jobs /\ tasks[n].task \in Queued
           /\ \A i \in 1..Len(tasks') : \E k \in 1..Len(tasks) : tasks'[i] = tasks[k]
<1>1. /\ Len(tasks) \in Nat /\ n \in Nat /\ tasks' \in Seq(Jobs) /\ Len(tasks') = Len(tasks) - 1
      /\ \A k \in 1..(Len(tasks) - 1) : tasks'[k] = IF k < n THEN tasks[k] ELSE tasks[k + 1]
  BY RemoveProperties
<1> DEFINE old(k) == IF k < n THEN k ELSE k + 1
<1>2. ASSUME NEW k \in 1..Len(tasks')
      PROVE  old(k) \in 1..Len(tasks) /\ old(k) # n /\ tasks'[k] = tasks[old(k)]
  BY <1>1
<1>3. ASSUME NEW m \in 1..Len(tasks), m # n PROVE \E k \in 1..Len(tasks') : old(k) = m
  <2>1. CASE m < n
    <3>1. m \in 1..Len(tasks') /\ old(m) = m
      BY <1>1, <2>1
    <3> QED
      BY <3>1
  <2>2. CASE m > n
    <3>1. m - 1 \in 1..Len(tasks') /\ old(m - 1) = m
      BY <1>1, <2>2
    <3> QED
      BY <3>1
  <2>3. m < n \/ m > n
    BY <1>1, <1>3
  <2> QED
    BY <2>1, <2>2, <2>3
<1>4. \A i, k \in 1..Len(tasks') : old(i) = old(k) => i = k
  BY <1>1
<1> HIDE DEF old
<1>5. QueuedOnce'
  BY <1>2, <1>4 DEF QueuedOnce
<1>6. \A k \in 1..Len(tasks') : tasks'[k].task # tasks[n].task
  BY <1>2 DEF QueuedOnce
<1>7. Queued' = Queued \ {tasks[n].task}
  <2>1. ASSUME NEW t \in Queued, t # tasks[n].task PROVE t \in Queued'
    <3>1. PICK m \in 1..Len(tasks) : t = tasks[m].task
      BY DEF Queued
    <3>2. PICK k \in 1..Len(tasks') : old(k) = m
      BY <1>3, <2>1, <3>1
    <3> QED
      BY <1>2, <3>1, <3>2 DEF Queued
  <2>2. ASSUME NEW t \in Queued' PROVE t \in Queued /\ t # tasks[n].task
    BY <1>2, <1>6 DEF Queued
  <2> QED
    BY <2>1, <2>2
<1>8. tasks[n] \in Jobs /\ tasks[n].task \in Queued
  BY <1>1 DEF Queued
<1> QED
  BY <1>1, <1>2, <1>5, <1>7, <1>8

LEMMA EmplaceKeeps == ASSUME BoundsAssumption, IInv, Emplace PROVE IInv'
<1> DEFINE t == emplaced + 1
           j == Job(t, initPrio[t])
<1>1. /\ emplaced \in Nat /\ NumTasks \in Nat /\ t \in Tasks /\ t \in 1..NumTasks
      /\ emplaced' = t /\ frames' = frames \cup {t}
      /\ UNCHANGED <<policy, rounds, initPrio, address, active, resumed>>
  BY DEF Emplace, choices, IInv, TypeOK, Tasks, BoundsAssumption
<1>2. j \in Jobs /\ j.task = t /\ InRange(j.prio)
  BY <1>1 DEF Job, Jobs, InRange, IInv, TypeOK, BoundsAssumption
<1>3. t \notin frames
  BY <1>1 DEF IInv, TypeOK
<1>4. tasks \in Seq(Jobs) /\ tasks' = Append(tasks, j) /\ QueuedOnce /\ j.task \notin Queued
  BY <1>2, <1>3 DEF Emplace, IInv, TypeOK, Owned
<1>5. Active' = Active
  BY <1>1 DEF Active
<1> HIDE DEF j
<1>6. /\ tasks' \in Seq(Jobs) /\ QueuedOnce' /\ Queued' = Queued \cup {t}
      /\ \A i \in 1..Len(tasks') : InRange(tasks'[i].prio)
  BY <1>2, <1>4, AppendJob DEF IInv, Comparable
<1>7. TypeOK'
  <2>1. frames' \subseteq 1..emplaced'
    BY <1>1 DEF IInv, TypeOK
  <2> QED
    BY <1>1, <1>6, <2>1 DEF IInv, TypeOK
<1>8. Comparable'
  BY <1>1, <1>6 DEF IInv, Comparable, InRange
<1>9. Owned'
  BY <1>1, <1>3, <1>5, <1>6 DEF IInv, Owned
<1>10. Progress'
  <2> SUFFICES ASSUME NEW u \in Tasks
               PROVE  /\ resumed'[u] <= rounds'[u]
                      /\ u \in Queued' => resumed'[u] < rounds'[u]
                      /\ u > emplaced' => resumed'[u] = 0 /\ rounds'[u] > 0
    BY <1>1 DEF Progress, Tasks
  <2>1. resumed[u] \in Nat /\ rounds[u] \in Nat /\ u \in Nat
    BY DEF IInv, TypeOK, Tasks
  <2>2. /\ resumed[u] <= rounds[u] /\ (u \in Queued => resumed[u] < rounds[u])
        /\ (u > emplaced => resumed[u] = 0 /\ rounds[u] > 0)
    BY DEF IInv, Progress
  <2> HIDE DEF t
  <2>3. u = t => resumed[u] < rounds[u]
    BY <1>1, <2>1, <2>2 DEF t
  <2>4. u > t => u > emplaced
    BY <1>1, <2>1 DEF t
  <2> QED
    BY <1>1, <1>6, <2>2, <2>3, <2>4
<1> QED
  BY <1>6, <1>7, <1>8, <1>9, <1>10 DEF IInv

LEMMA ResumeKeeps == ASSUME BoundsAssumption, IInv, Resume PROVE IInv'
<1> DEFINE n == Top
           j == tasks[n]
<1>1. Top \in 1..Len(tasks)
  BY TopExists DEF Resume, IInv
<1> HIDE DEF n
<1>2. /\ tasks' \in Seq(Jobs) /\ QueuedOnce' /\ Queued' = Queued \ {j.task}
      /\ j \in Jobs /\ j.task \in Queued
      /\ \A i \in 1..Len(tasks') : \E k \in 1..Len(tasks) : tasks'[i] = tasks[k]
  <2>1. n \in 1..Len(tasks) /\ tasks' = RemoveAt(tasks, n) /\ tasks \in Seq(Jobs) /\ QueuedOnce
    BY <1>1 DEF n, Resume, IInv, TypeOK
  <2> QED
    BY <2>1, RemoveJob
<1>3. n \in 1..Len(tasks) /\ InRange(j.prio)
  BY <1>1 DEF n, IInv, Comparable
<1>4. /\ active = <<>> /\ active' = <<j>> /\ resumed' = [resumed EXCEPT ![j.task] = @ + 1]
      /\ UNCHANGED <<policy, rounds, initPrio, address, emplaced, frames>>
  BY DEF n, Resume, choices
<1> HIDE DEF j
<1>5. Active = {} /\ Active' = {j.task}
  BY <1>4 DEF Active
<1>6. j.task \in Tasks /\ resumed[j.task] \in Nat /\ resumed \in [Tasks -> Nat]
  BY <1>2 DEF Jobs, IInv, TypeOK
<1>7. TypeOK'
  BY <1>2, <1>4, <1>6 DEF IInv, TypeOK
<1>8. Comparable'
  <2>1. active'[1] = j
    BY <1>4
  <2> QED
    BY <1>2, <1>3, <1>4, <2>1 DEF IInv, Comparable, InRange
<1>9. Owned'
  BY <1>2, <1>4, <1>5 DEF IInv, Owned
<1>10. Progress'
  <2>1. resumed[j.task] < rounds[j.task] /\ j.task <= emplaced /\ rounds \in [Tasks -> Nat]
    BY <1>2, <1>6 DEF IInv, Progress, TypeOK, Owned
  <2> SUFFICES ASSUME NEW u \in Tasks
               PROVE  /\ resumed'[u] <= rounds[u]
                      /\ u \in Queued' => resumed'[u] < rounds[u]
                      /\ u > emplaced => resumed'[u] = 0 /\ rounds[u] > 0
    BY <1>4 DEF Progress
  <2>2. /\ resumed[u] <= rounds[u] /\ (u \in Queued => resumed[u] < rounds[u])
        /\ (u > emplaced => resumed[u] = 0 /\ rounds[u] > 0)
    BY DEF IInv, Progress
  <2>3. CASE u = j.task
    <3>1. resumed'[u] = resumed[u] + 1 /\ resumed[u] \in Nat /\ rounds[u] \in Nat
      BY <1>4, <1>6, <2>1, <2>3
    <3>2. emplaced \in Nat /\ u \in Nat
      BY DEF IInv, TypeOK, Tasks
    <3> QED
      BY <1>2, <2>1, <2>3, <3>1, <3>2
  <2>4. CASE u # j.task
    <3>1. resumed'[u] = resumed[u]
      BY <1>4, <1>6, <2>4
    <3> QED
      BY <1>2, <2>2, <2>4, <3>1
  <2> QED
    BY <2>3, <2>4
<1> QED
  BY <1>2, <1>7, <1>8, <1>9, <1>10 DEF IInv

LEMMA RequeueKeeps == ASSUME BoundsAssumption, IInv, Requeue PROVE IInv'
<1>1. PICK a \in Jobs : active = <<a>>
  BY DEF Requeue, IInv, TypeOK
<1> DEFINE j == Job(a.task, Update(a.prio))
<1>2. /\ active[1] = a /\ resumed[a.task] # rounds[a.task]
      /\ tasks' = Append(tasks, j) /\ active' = <<>>
      /\ UNCHANGED <<policy, rounds, initPrio, address, emplaced, resumed, frames>>
  BY <1>1 DEF Requeue, done, choices
<1>3. Active = {a.task} /\ Active' = {}
  BY <1>1, <1>2 DEF Active
<1>4. j \in Jobs /\ j.task = a.task /\ InRange(j.prio)
  <2>1. a.prio \in Int /\ a.task \in Tasks /\ InRange(a.prio)
    BY <1>1, <1>2 DEF Jobs, IInv, Comparable
  <2> QED
    BY <2>1 DEF Job, Jobs, Update, InRange, BoundsAssumption
<1>5. tasks \in Seq(Jobs) /\ QueuedOnce /\ j.task \notin Queued
  BY <1>3, <1>4 DEF IInv, TypeOK, Owned
<1> HIDE DEF j
<1>6. /\ tasks' \in Seq(Jobs) /\ QueuedOnce' /\ Queued' = Queued \cup {a.task}
      /\ \A i \in 1..Len(tasks') : InRange(tasks'[i].prio)
  BY <1>2, <1>4, <1>5, AppendJob DEF IInv, Comparable
<1>7. TypeOK' /\ Comparable'
  BY <1>2, <1>6 DEF IInv, TypeOK, Comparable, InRange
<1>8. Owned'
  BY <1>2, <1>3, <1>6 DEF IInv, Owned
<1>9. Progress'
  <2>1. a.task \in Tasks /\ resumed \in [Tasks -> Nat] /\ rounds \in [Tasks -> Nat]
    BY <1>1 DEF Jobs, IInv, TypeOK
  <2> QED
    BY <1>2, <1>6, <2>1 DEF IInv, Progress
<1> QED
  BY <1>6, <1>7, <1>8, <1>9 DEF IInv

LEMMA DestroyKeeps == ASSUME BoundsAssumption, IInv, Destroy PROVE IInv'
<1>1. PICK a \in Jobs : active = <<a>>
  BY DEF Destroy, IInv, TypeOK
<1>2. /\ active[1] = a /\ frames' = frames \ {a.task} /\ active' = <<>>
      /\ UNCHANGED <<policy, rounds, initPrio, address, emplaced, tasks, resumed>>
  BY <1>1 DEF Destroy, choices
<1>3. Active = {a.task} /\ Active' = {} /\ Queued' = Queued
  BY <1>1, <1>2 DEF Active, Queued
<1>4. TypeOK' /\ Comparable' /\ QueuedOnce'
  BY <1>2 DEF IInv, TypeOK, Comparable, InRange, QueuedOnce
<1>5. Owned'
  BY <1>2, <1>3 DEF IInv, Owned
<1>6. Progress'
  BY <1>2, <1>3 DEF IInv, Progress
<1> QED
  BY <1>4, <1>5, <1>6 DEF IInv

LEMMA StepKeeps == ASSUME BoundsAssumption, IInv, [Next]_vars PROVE IInv'
<1>1. CASE UNCHANGED vars
  <2>1. UNCHANGED <<policy, rounds, initPrio, address, emplaced, tasks, active, resumed, frames>>
    BY <1>1 DEF vars
  <2>2. TypeOK' /\ Comparable' /\ QueuedOnce'
    BY <2>1 DEF IInv, TypeOK, Comparable, InRange, QueuedOnce
  <2>3. Owned' /\ Progress'
    BY <2>1 DEF IInv, Owned, Progress, Queued, Active
  <2> QED
    BY <2>2, <2>3 DEF IInv
<1> QED
  BY <1>1, EmplaceKeeps, ResumeKeeps, RequeueKeeps, DestroyKeeps DEF Next

LEMMA Invariance == ASSUME BoundsAssumption PROVE Spec => []IInv
BY InitHolds, StepKeeps, PTL DEF Spec
-----------------------------------------------------------------------------
(* What the invariant says *)

LEMMA FramesOwnedNow == ASSUME IInv PROVE FramesOwned
<1> DEFINE f == [i \in 1..Len(tasks) |-> tasks[i].task]
<1>1. Len(tasks) \in Nat
  BY DEF IInv, TypeOK
<1>2. f \in Bijection(1..Len(tasks), Queued)
  BY DEF IInv, QueuedOnce, Queued, Bijection, Injection, Surjection, IsInjective
<1>3. Cardinality(Queued) = Len(tasks)
  BY <1>1, <1>2, FS_CountingElements DEF ExistsBijection
<1> QED
  BY <1>3 DEF IInv, Owned, FramesOwned

LEMMA NoneResumedWhenDoneNow == ASSUME IInv PROVE NeverResumedWhenDone
BY DEF IInv, Progress, NeverResumedWhenDone, done, TypeOK

\* For any number of tasks, whatever container the scheduler has: a frame is in the
\* container or active, and once, so none is destroyed twice, resumed after that,
\* or leaked.
THEOREM EveryFrameOwned == ASSUME BoundsAssumption PROVE Spec => []FramesOwned
BY Invariance, FramesOwnedNow, PTL

\* For any number of tasks no coroutine is resumed at its final suspension point.
THEOREM NoneResumedWhenDone == ASSUME BoundsAssumption PROVE Spec => []NeverResumedWhenDone
BY Invariance, NoneResumedWhenDoneNow, PTL

-----------------------------------------------------------------------------
(* The order of turns *)

\* main() emplaces every task before the first is resumed.
Idle == emplaced < NumTasks => active = <<>> /\ \A t \in Tasks : resumed[t] = 0

\* A frame is destroyed only when its body has come to its end.
Ended == \A t \in 1..emplaced : t \notin frames => resumed[t] = rounds[t]

\* The priority in the container: that of the start, or what the updater has left
\* of it; the active job was resumed and is not yet lowered.
PrioQueued(t) == IF policy = "update" THEN PrioNow(t) ELSE initPrio[t]

PrioActive(t) == IF policy = "update" THEN PrioNow(t) + 1 ELSE initPrio[t]

PriosKept == /\ \A i \in 1..Len(tasks) : tasks[i].prio = PrioQueued(tasks[i].task)
             /\ active # <<>> => active[1].prio = PrioActive(active[1].task)

\* Of two tasks in the queue t has its turn first: both have had as many and it was
\* emplaced first, or it has had one less and was emplaced later.
HasTurnFirst(t, u) == \/ resumed[u] = resumed[t] /\ t < u
                      \/ resumed[u] = resumed[t] + 1 /\ u < t

\* first(t, u) along the container, and for whatever is there and the active job.
QueueSorted ==
    /\ \A i, k \in 1..Len(tasks) : i < k => HasTurnFirst(tasks[i].task, tasks[k].task)
    /\ active # <<>> => \A i \in 1..Len(tasks) : HasTurnFirst(tasks[i].task, active[1].task)

StackSorted ==
    /\ \A i, k \in 1..Len(tasks) : i < k => tasks[i].task < tasks[k].task
    /\ active # <<>> => \A i \in 1..Len(tasks) : tasks[i].task < active[1].task

Turns == /\ policy = "queue" => QueueSorted
         /\ policy = "stack" => StackSorted /\ RunsToCompletion
         /\ policy = "priority" => HighestFirst
         /\ policy = "comparator" => LowestFirst
         /\ policy = "update" => CatchUp

TurnInv == IInv /\ Idle /\ Ended /\ PriosKept /\ Turns

-----------------------------------------------------------------------------
(* What the actions do to the order *)

\* The job taken out leaves the others in their order.
LEMMA RemoveOrder ==
    ASSUME tasks \in Seq(Jobs), NEW n \in 1..Len(tasks), tasks' = RemoveAt(tasks, n)
    PROVE  \E old \in [1..Len(tasks') -> 1..Len(tasks)] :
              /\ \A i \in 1..Len(tasks') : old[i] # n /\ tasks'[i] = tasks[old[i]]
              /\ \A i, k \in 1..Len(tasks') : i < k => old[i] < old[k]
<1>1. /\ Len(tasks) \in Nat /\ n \in Nat /\ Len(tasks') = Len(tasks) - 1
      /\ \A k \in 1..(Len(tasks) - 1) : tasks'[k] = IF k < n THEN tasks[k] ELSE tasks[k + 1]
  BY RemoveProperties
<1> DEFINE old == [k \in 1..Len(tasks') |-> IF k < n THEN k ELSE k + 1]
<1>2. old \in [1..Len(tasks') -> 1..Len(tasks)]
  BY <1>1
<1>3. \A i \in 1..Len(tasks') : old[i] # n /\ tasks'[i] = tasks[old[i]]
  BY <1>1
<1>4. \A i, k \in 1..Len(tasks') : i < k => old[i] < old[k]
  BY <1>1
<1> HIDE DEF old
<1> QED
  BY <1>2, <1>3, <1>4

\* The job appended is the last one.
LEMMA AppendOrder ==
    ASSUME tasks \in Seq(Jobs), NEW j \in Jobs, tasks' = Append(tasks, j)
    PROVE  /\ Len(tasks) \in Nat /\ Len(tasks') = Len(tasks) + 1
           /\ 1..Len(tasks') = 1..Len(tasks) \cup {Len(tasks')} /\ tasks'[Len(tasks')] = j
           /\ \A i \in 1..Len(tasks) : tasks'[i] = tasks[i] /\ i < Len(tasks') /\ ~(Len(tasks') < i)
<1>1. /\ Len(tasks) \in Nat /\ Len(tasks') = Len(tasks) + 1 /\ tasks'[Len(tasks) + 1] = j
      /\ \A i \in 1..Len(tasks) : tasks'[i] = tasks[i]
  OBVIOUS
<1>2. 1..Len(tasks') = 1..Len(tasks) \cup {Len(tasks')}
  BY <1>1
<1>3. \A i \in 1..Len(tasks) : i < Len(tasks') /\ ~(Len(tasks') < i)
  BY <1>1
<1> QED
  BY <1>1, <1>2, <1>3

\* Who is at the top: nobody is of higher, or of lower, priority.
LEMMA TopIsExtreme ==
    ASSUME BoundsAssumption, TypeOK, Comparable, tasks # <<>>, NEW k \in 1..Len(tasks)
    PROVE  /\ policy \in {"priority", "update"} => tasks[k].prio <= tasks[Top].prio
           /\ policy = "comparator" => tasks[Top].prio <= tasks[k].prio
<1>1. /\ Top \in 1..Len(tasks) /\ Len(tasks) \in Nat \ {0}
      /\ \A i \in 1..Len(tasks) : tasks[i].prio \in Int
  <2>1. \A i \in 1..Len(tasks) : tasks[i] \in Jobs
    BY DEF TypeOK
  <2>2. Top \in 1..Len(tasks)
    BY TopExists
  <2>3. Len(tasks) \in Nat \ {0}
    BY DEF TypeOK
  <2> QED
    BY <2>1, <2>2, <2>3 DEF Jobs
<1>2. CASE policy \in {"priority", "update"}
  <2>1. Top = PriorityTop
    BY <1>2 DEF Top
  <2>2. PriorityTop = CHOOSE i \in 1..Len(tasks) :
                         \A m \in 1..Len(tasks) : ~Less(tasks[i], tasks[m])
    BY DEF PriorityTop
  <2>3. \E i \in 1..Len(tasks) : \A m \in 1..Len(tasks) : ~Less(tasks[i], tasks[m])
    <3>1. Len(tasks) > 0 /\ \A i \in 1..Len(tasks) : tasks[i].prio <= MaxPrio
      BY <1>1 DEF Comparable, InRange
    <3> QED
      BY <3>1, PriorityTopExists
  <2>4. ~Less(tasks[Top], tasks[k])
    BY <2>1, <2>2, <2>3
  <2> QED
    BY <1>1, <1>2, <2>4 DEF Less
<1>3. CASE policy = "comparator"
  <2>1. Top = ComparatorTop
    BY <1>3 DEF Top
  <2>2. ComparatorTop = CHOOSE i \in 1..Len(tasks) :
                           \A m \in 1..Len(tasks) : ~Less(tasks[m], tasks[i])
    BY DEF ComparatorTop
  <2>3. \E i \in 1..Len(tasks) : \A m \in 1..Len(tasks) : ~Less(tasks[m], tasks[i])
    <3>1. Len(tasks) > 0 /\ \A i \in 1..Len(tasks) : tasks[i].prio >= 0
      BY <1>1, <1>3 DEF Comparable, InRange
    <3> QED
      BY <3>1, ComparatorTopExists
  <2>4. ~Less(tasks[k], tasks[Top])
    BY <2>1, <2>2, <2>3
  <2> QED
    BY <1>1, <1>3, <2>4 DEF Less
<1> QED
  BY <1>2, <1>3

\* What Resume does to the order: the job at n, of task t, becomes active and has
\* had one turn more; old says where each of the others was.
Takes(n, t, old) ==
    /\ n = Top /\ n \in 1..Len(tasks) /\ t = tasks[n].task /\ t \in Tasks
    /\ active = <<>> /\ active' # <<>> /\ active'[1] = tasks[n]
    /\ emplaced = NumTasks /\ frames = Queued
    /\ resumed'[t] = resumed[t] + 1
    /\ \A u \in Tasks : u # t => resumed'[u] = resumed[u]
    /\ old \in [1..Len(tasks') -> 1..Len(tasks)]
    /\ \A i \in 1..Len(tasks') : old[i] # n /\ tasks'[i] = tasks[old[i]]
    /\ \A i, k \in 1..Len(tasks') : i < k => old[i] < old[k]
    /\ UNCHANGED <<policy, rounds, initPrio, emplaced, frames>>

LEMMA ResumeTakes == ASSUME BoundsAssumption, IInv, Resume
                     PROVE  \E n, t, old : Takes(n, t, old)
<1>1. Top \in 1..Len(tasks)
  BY TopExists DEF Resume, IInv
<1>2. PICK n : n = Top
  OBVIOUS
<1>3. /\ active = <<>> /\ active' = <<tasks[n]>> /\ emplaced = NumTasks
      /\ tasks' = RemoveAt(tasks, n) /\ resumed' = [resumed EXCEPT ![tasks[n].task] = @ + 1]
      /\ UNCHANGED <<policy, rounds, initPrio, emplaced, frames>>
  BY <1>2 DEF Resume, choices
<1>4. n \in 1..Len(tasks) /\ tasks \in Seq(Jobs)
  BY <1>1, <1>2 DEF IInv, TypeOK
<1>5. PICK old \in [1..Len(tasks') -> 1..Len(tasks)] :
              /\ \A i \in 1..Len(tasks') : old[i] # n /\ tasks'[i] = tasks[old[i]]
              /\ \A i, k \in 1..Len(tasks') : i < k => old[i] < old[k]
  BY <1>3, <1>4, RemoveOrder
<1>6. PICK t : t = tasks[n].task
  OBVIOUS
<1>7. t \in Tasks
  <2>1. tasks[n] \in Jobs
    BY <1>4
  <2> QED
    BY <1>6, <2>1 DEF Jobs
<1>8. resumed'[t] = resumed[t] + 1 /\ \A u \in Tasks : u # t => resumed'[u] = resumed[u]
  BY <1>3, <1>6, <1>7 DEF IInv, TypeOK
<1>9. frames = Queued
  BY <1>3 DEF IInv, Owned, Active
<1>10. active' # <<>> /\ active'[1] = tasks[n]
  BY <1>3
<1>11. Takes(n, t, old)
  BY <1>2, <1>3, <1>4, <1>5, <1>6, <1>7, <1>8, <1>9, <1>10 DEF Takes
<1> QED
  BY <1>11

\* What Emplace and Requeue do: the job j comes last, and nothing is active then.
Puts(j) == /\ Len(tasks) \in Nat /\ Len(tasks') = Len(tasks) + 1
           /\ 1..Len(tasks') = 1..Len(tasks) \cup {Len(tasks')} /\ tasks'[Len(tasks')] = j
           /\ \A i \in 1..Len(tasks) : /\ tasks'[i] = tasks[i]
                                       /\ i < Len(tasks') /\ ~(Len(tasks') < i)
           /\ active' = <<>>
           /\ UNCHANGED <<policy, rounds, initPrio, resumed>>

LEMMA EmplacePuts ==
    ASSUME BoundsAssumption, IInv, Idle, Emplace
    PROVE  /\ Puts(Job(emplaced + 1, initPrio[emplaced + 1]))
           /\ active = <<>> /\ \A u \in Tasks : resumed[u] = 0
           /\ emplaced + 1 \in Tasks /\ emplaced' = emplaced + 1 /\ emplaced \in Nat
           /\ frames' = frames \cup {emplaced + 1} /\ frames = Queued
           /\ \A u \in frames : u \in Tasks /\ u < emplaced + 1
<1>1. /\ emplaced < NumTasks /\ emplaced \in Nat /\ NumTasks \in Nat /\ emplaced + 1 \in Tasks
      /\ emplaced' = emplaced + 1 /\ frames' = frames \cup {emplaced + 1}
      /\ tasks' = Append(tasks, Job(emplaced + 1, initPrio[emplaced + 1]))
      /\ UNCHANGED <<policy, rounds, initPrio, active, resumed>>
  BY DEF Emplace, choices, IInv, TypeOK, Tasks, BoundsAssumption
<1>2. Job(emplaced + 1, initPrio[emplaced + 1]) \in Jobs /\ tasks \in Seq(Jobs)
  BY <1>1 DEF Job, Jobs, IInv, TypeOK, BoundsAssumption
<1>3. active = <<>> /\ \A u \in Tasks : resumed[u] = 0
  BY <1>1 DEF Idle
<1>4. Puts(Job(emplaced + 1, initPrio[emplaced + 1]))
  BY <1>1, <1>2, <1>3, AppendOrder DEF Puts
<1>5. frames = Queued
  BY <1>3 DEF IInv, Owned, Active
<1>6. \A u \in frames : u \in Tasks /\ u < emplaced + 1
  BY <1>1 DEF IInv, TypeOK, Tasks
<1> QED
  BY <1>1, <1>3, <1>4, <1>5, <1>6

LEMMA RequeuePuts ==
    ASSUME BoundsAssumption, IInv, Requeue
    PROVE  /\ Puts(Job(active[1].task, Update(active[1].prio)))
           /\ active # <<>> /\ active[1] \in Jobs
           /\ UNCHANGED <<emplaced, frames>>
<1>1. /\ active # <<>> /\ active' = <<>>
      /\ tasks' = Append(tasks, Job(active[1].task, Update(active[1].prio)))
      /\ UNCHANGED <<policy, rounds, initPrio, resumed, emplaced, frames>>
  BY DEF Requeue, choices
<1>2. active[1] \in Jobs /\ tasks \in Seq(Jobs)
  BY <1>1 DEF IInv, TypeOK
<1>3. Job(active[1].task, Update(active[1].prio)) \in Jobs
  BY <1>2 DEF Job, Jobs, Update
<1>4. Puts(Job(active[1].task, Update(active[1].prio)))
  BY <1>1, <1>2, <1>3, AppendOrder DEF Puts
<1> QED
  BY <1>1, <1>2, <1>4

\* What Destroy does: the active job is gone, and it was done.
LEMMA DestroyFacts ==
    ASSUME IInv, Destroy
    PROVE  /\ active # <<>> /\ active[1].task \in Tasks /\ active' = <<>>
           /\ resumed[active[1].task] = rounds[active[1].task]
           /\ frames' = frames \ {active[1].task}
           /\ UNCHANGED <<policy, rounds, initPrio, emplaced, tasks, resumed>>
<1>1. active # <<>> /\ active[1] \in Jobs
  BY DEF Destroy, IInv, TypeOK
<1> QED
  BY <1>1 DEF Destroy, choices, done, Jobs

LEMMA IdleKeeps == ASSUME BoundsAssumption, IInv, Idle, Next PROVE Idle'
<1>0. emplaced \in Nat /\ NumTasks \in Nat
  BY DEF IInv, TypeOK, BoundsAssumption
<1>1. CASE Emplace
  BY <1>0, <1>1, EmplacePuts DEF Idle, Puts, Tasks
<1>2. CASE Resume
  BY <1>0, <1>2, ResumeTakes DEF Idle, Takes
<1>3. CASE Requeue
  BY <1>0, <1>3, RequeuePuts DEF Idle, Puts, Tasks
<1>4. CASE Destroy
  BY <1>0, <1>4, DestroyFacts DEF Idle, Tasks
<1>5. CASE UNCHANGED vars
  BY <1>5 DEF Idle, vars, Tasks
<1> QED
  BY <1>1, <1>2, <1>3, <1>4, <1>5 DEF Next

LEMMA EndedKeeps == ASSUME BoundsAssumption, IInv, Idle, Ended, Next PROVE Ended'
<1>0. emplaced \in 0..NumTasks /\ NumTasks \in Nat
  BY DEF IInv, TypeOK, BoundsAssumption
<1>1. CASE Emplace
  <2>1. 1..emplaced' = 1..emplaced \cup {emplaced'}
    BY <1>0, <1>1, EmplacePuts
  <2> QED
    BY <1>1, <2>1, EmplacePuts DEF Ended, Puts
<1>2. CASE Resume
  <2>1. PICK n, t, old : Takes(n, t, old)
    BY <1>2, ResumeTakes
  <2>2. t \in frames /\ \A u \in 1..emplaced : u \in Tasks
    BY <1>0, <2>1 DEF Takes, Queued, Tasks
  <2> QED
    BY <2>1, <2>2 DEF Ended, Takes
<1>3. CASE Requeue
  BY <1>3, RequeuePuts DEF Ended, Puts
<1>4. CASE Destroy
  BY <1>4, DestroyFacts DEF Ended
<1>5. CASE UNCHANGED vars
  BY <1>5 DEF Ended, vars
<1> QED
  BY <1>1, <1>2, <1>3, <1>4, <1>5 DEF Next

LEMMA PriosKeptKeeps == ASSUME BoundsAssumption, IInv, IInv', Idle, PriosKept, Next PROVE PriosKept'
<1>0. /\ \A i \in 1..Len(tasks) : tasks[i] \in Jobs /\ tasks[i].task \in Tasks
      /\ resumed \in [Tasks -> Nat] /\ \A u \in Tasks : initPrio[u] \in Nat
  <2>1. \A i \in 1..Len(tasks) : tasks[i] \in Jobs
    BY DEF IInv, TypeOK
  <2>2. \A i \in 1..Len(tasks) : tasks[i].task \in Tasks
    BY <2>1 DEF Jobs
  <2>3. \A u \in Tasks : initPrio[u] \in Nat
    BY DEF IInv, TypeOK, BoundsAssumption
  <2> QED
    BY <2>1, <2>2, <2>3 DEF IInv, TypeOK
<1>1. CASE Emplace
  <2>1. PrioQueued(emplaced + 1) = initPrio[emplaced + 1]
    BY <1>0, <1>1, EmplacePuts DEF PrioQueued, PrioNow
  <2> QED
    BY <1>1, <2>1, EmplacePuts DEF PriosKept, PrioQueued, PrioNow, Puts, Job
<1>2. CASE Resume
  <2>1. PICK n, t, old : Takes(n, t, old)
    BY <1>2, ResumeTakes
  <2>2. \A i \in 1..Len(tasks) : i # n => tasks[i].task # t
    BY <2>1 DEF Takes, IInv, QueuedOnce
  <2>3. ASSUME NEW i \in 1..Len(tasks') PROVE (tasks[i].prio = PrioQueued(tasks[i].task))'
    <3>1. old[i] \in 1..Len(tasks) /\ old[i] # n /\ tasks'[i] = tasks[old[i]]
      BY <2>1 DEF Takes
    <3>2. resumed'[tasks[old[i]].task] = resumed[tasks[old[i]].task]
      BY <1>0, <2>1, <2>2, <3>1 DEF Takes
    <3>3. tasks[old[i]].prio = PrioQueued(tasks[old[i]].task)
      BY <3>1 DEF PriosKept
    <3>4. policy' = policy /\ initPrio' = initPrio
      BY <2>1 DEF Takes
    <3> QED
      BY <3>1, <3>2, <3>3, <3>4 DEF PrioQueued, PrioNow
  <2>4. (active[1].prio = PrioActive(active[1].task))'
    <3>1. /\ active'[1] = tasks[n] /\ t = tasks[n].task /\ t \in Tasks
          /\ resumed'[t] = resumed[t] + 1 /\ policy' = policy /\ initPrio' = initPrio
      BY <2>1 DEF Takes
    <3>2. tasks[n].prio = PrioQueued(t)
      BY <2>1, <3>1 DEF PriosKept, Takes
    <3>3. initPrio[t] \in Nat /\ resumed[t] \in Nat
      BY <1>0, <3>1
    <3>4. initPrio[t] - (resumed[t] + 1) + 1 = initPrio[t] - resumed[t]
      BY <3>3
    <3> QED
      BY <3>1, <3>2, <3>4 DEF PrioQueued, PrioActive, PrioNow
  <2> QED
    BY <2>3, <2>4 DEF PriosKept
<1>3. CASE Requeue
  <2>1. /\ active[1].prio = PrioActive(active[1].task) /\ active[1].task \in Tasks
        /\ active[1].prio \in Int
    BY <1>3, RequeuePuts DEF PriosKept, Jobs
  <2>2. Update(active[1].prio) = PrioQueued(active[1].task)
    BY <1>0, <2>1 DEF PrioQueued, PrioActive, PrioNow, Update
  <2> QED
    BY <1>3, <2>2, RequeuePuts DEF PriosKept, PrioQueued, PrioNow, Puts, Job
<1>4. CASE Destroy
  BY <1>4, DestroyFacts DEF PriosKept, PrioQueued, PrioNow
<1>5. CASE UNCHANGED vars
  BY <1>5 DEF PriosKept, PrioQueued, PrioActive, PrioNow, vars
<1> QED
  BY <1>1, <1>2, <1>3, <1>4, <1>5 DEF Next

-----------------------------------------------------------------------------
(* Each container keeps its order *)

\* Tasks are numbers, and every frame is that of a task in the container or active.
LEMMA TaskFacts ==
    ASSUME BoundsAssumption, IInv
    PROVE  /\ \A u \in Tasks : u \in Nat /\ resumed[u] \in Nat /\ rounds[u] \in Nat
                               /\ initPrio[u] \in Nat
           /\ \A i \in 1..Len(tasks) : tasks[i].task \in Tasks /\ tasks[i].task \in frames
           /\ \A u \in frames : u \in Tasks
           /\ \A u \in frames : \/ \E i \in 1..Len(tasks) : u = tasks[i].task
                                \/ active # <<>> /\ u = active[1].task
           /\ active # <<>> => active[1].task \in Tasks /\ active[1].task \in frames
           /\ active = <<>> \/ active = <<active[1]>>
<1>1. \A i \in 1..Len(tasks) : tasks[i] \in Jobs
  BY DEF IInv, TypeOK
<1>2. \A i \in 1..Len(tasks) : tasks[i].task \in Tasks /\ tasks[i].task \in Queued
  BY <1>1 DEF Jobs, Queued
<1>3. active = <<>> \/ (active = <<active[1]>> /\ active[1] \in Jobs)
  BY DEF IInv, TypeOK
<1>4. active # <<>> => Active = {active[1].task} /\ active[1].task \in Tasks
  BY <1>3 DEF Active, Jobs
<1>5. active = <<>> => Active = {}
  BY DEF Active
<1>6. \A u \in Tasks : u \in Nat /\ resumed[u] \in Nat /\ rounds[u] \in Nat /\ initPrio[u] \in Nat
  BY DEF IInv, TypeOK, Tasks, BoundsAssumption
<1>7. \A u \in frames : u \in Tasks
  BY DEF IInv, TypeOK, Tasks, BoundsAssumption
<1>8. \A u \in Queued : \E i \in 1..Len(tasks) : u = tasks[i].task
  BY DEF Queued
<1>9. frames = Queued \cup Active
  BY DEF IInv, Owned
<1>10. \A u \in frames : \/ \E i \in 1..Len(tasks) : u = tasks[i].task
                         \/ active # <<>> /\ u = active[1].task
  BY <1>4, <1>5, <1>8, <1>9
<1>11. active # <<>> => active[1].task \in Tasks /\ active[1].task \in frames
  BY <1>4, <1>9
<1>12. active = <<>> \/ active = <<active[1]>>
  BY <1>3
<1> QED
  BY <1>2, <1>6, <1>7, <1>9, <1>10, <1>11, <1>12

\* Whoever is put back, or in for the first time, comes last.
LEMMA QueuePut ==
    ASSUME QueueSorted, NEW j, Puts(j),
           \A i \in 1..Len(tasks) : HasTurnFirst(tasks[i].task, j.task)
    PROVE  QueueSorted'
<1>1. \A t, u : HasTurnFirst(t, u) => HasTurnFirst(t, u)'
  BY DEF HasTurnFirst, Puts
<1>2. ASSUME NEW i \in 1..Len(tasks'), NEW k \in 1..Len(tasks'), i < k
      PROVE  (HasTurnFirst(tasks[i].task, tasks[k].task))'
  <2>1. i \in 1..Len(tasks) /\ tasks'[i] = tasks[i]
    <3>1. i = Len(tasks') => ~(i < k)
      BY DEF Puts
    <3> QED
      BY <1>2, <3>1 DEF Puts
  <2>2. CASE k = Len(tasks')
    <3>1. HasTurnFirst(tasks[i].task, j.task) /\ tasks'[k] = j
      BY <2>1, <2>2 DEF Puts
    <3> QED
      BY <2>1, <3>1 DEF HasTurnFirst, Puts
  <2>3. CASE k \in 1..Len(tasks)
    <3>1. HasTurnFirst(tasks[i].task, tasks[k].task) /\ tasks'[k] = tasks[k]
      BY <1>2, <2>1, <2>3 DEF QueueSorted, Puts
    <3> QED
      BY <2>1, <3>1 DEF HasTurnFirst, Puts
  <2> QED
    BY <2>2, <2>3 DEF Puts
<1> QED
  BY <1>2 DEF QueueSorted, Puts

\* Whoever has had its turn goes behind the others.
LEMMA QueueKeeps ==
    ASSUME BoundsAssumption, IInv, Idle, QueueSorted, policy = "queue", Next
    PROVE  QueueSorted'
<1>0. /\ \A u \in Tasks : u \in Nat /\ resumed[u] \in Nat
      /\ \A i \in 1..Len(tasks) : tasks[i].task \in Tasks /\ tasks[i].task \in frames
      /\ Len(tasks) \in Nat
  BY TaskFacts DEF IInv, TypeOK
<1>1. CASE Emplace
  <2>1. \A i \in 1..Len(tasks) : HasTurnFirst(tasks[i].task, emplaced + 1)
    BY <1>0, <1>1, EmplacePuts DEF HasTurnFirst
  <2>2. Job(emplaced + 1, initPrio[emplaced + 1]).task = emplaced + 1
    BY DEF Job
  <2> QED
    BY <1>1, <2>1, <2>2, QueuePut, EmplacePuts
<1>2. CASE Requeue
  <2>1. \A i \in 1..Len(tasks) : HasTurnFirst(tasks[i].task, active[1].task)
    BY <1>2, RequeuePuts DEF QueueSorted
  <2>2. Job(active[1].task, Update(active[1].prio)).task = active[1].task
    BY DEF Job
  <2> QED
    BY <1>2, <2>1, <2>2, QueuePut, RequeuePuts
<1>3. CASE Resume
  <2>1. PICK n, t, old : Takes(n, t, old)
    BY <1>3, ResumeTakes
  <2>2. n = 1 /\ t \in Tasks /\ t = tasks[n].task /\ active' # <<>> /\ active'[1] = tasks[n]
    BY <2>1 DEF Takes, Top, QueueFront
  <2>3. ASSUME NEW i \in 1..Len(tasks')
        PROVE  /\ old[i] \in 1..Len(tasks) /\ tasks'[i] = tasks[old[i]]
               /\ tasks[old[i]].task \in Tasks
               /\ HasTurnFirst(t, tasks[old[i]].task) /\ tasks[old[i]].task # t
               /\ resumed'[tasks[old[i]].task] = resumed[tasks[old[i]].task]
    <3>1. old[i] \in 1..Len(tasks) /\ old[i] # n /\ tasks'[i] = tasks[old[i]]
      BY <2>1 DEF Takes
    <3>2. n \in 1..Len(tasks) /\ n < old[i]
      BY <2>1, <2>2, <3>1 DEF Takes
    <3>3. HasTurnFirst(t, tasks[old[i]].task) /\ tasks[old[i]].task \in Tasks
      BY <1>0, <2>2, <3>1, <3>2 DEF QueueSorted
    <3>4. tasks[old[i]].task # t
      BY <1>0, <2>2, <3>3 DEF HasTurnFirst
    <3>5. resumed'[tasks[old[i]].task] = resumed[tasks[old[i]].task]
      BY <2>1, <3>3, <3>4 DEF Takes
    <3> QED
      BY <3>1, <3>3, <3>4, <3>5
  <2>4. ASSUME NEW i \in 1..Len(tasks'), NEW k \in 1..Len(tasks'), i < k
        PROVE  (HasTurnFirst(tasks[i].task, tasks[k].task))'
    <3>1. old[i] < old[k]
      BY <2>1, <2>4 DEF Takes
    <3>2. HasTurnFirst(tasks[old[i]].task, tasks[old[k]].task)
      BY <2>3, <3>1 DEF QueueSorted
    <3>3. /\ resumed'[tasks[old[i]].task] = resumed[tasks[old[i]].task]
          /\ resumed'[tasks[old[k]].task] = resumed[tasks[old[k]].task]
          /\ tasks'[i] = tasks[old[i]] /\ tasks'[k] = tasks[old[k]]
      BY <2>3
    <3> QED
      BY <3>2, <3>3 DEF HasTurnFirst
  <2>5. ASSUME NEW i \in 1..Len(tasks') PROVE (HasTurnFirst(tasks[i].task, active[1].task))'
    <3>1. PICK u \in Tasks : u = tasks[old[i]].task
      BY <2>3
    <3>2. /\ u \in Nat /\ t \in Nat /\ resumed[u] \in Nat /\ resumed[t] \in Nat
          /\ resumed'[u] = resumed[u] /\ resumed'[t] = resumed[t] + 1 /\ HasTurnFirst(t, u)
          /\ tasks'[i].task = u /\ active'[1].task = t
      BY <1>0, <2>1, <2>2, <2>3, <3>1 DEF Takes
    <3>3. \/ resumed'[t] = resumed'[u] + 1 /\ t < u
          \/ resumed'[t] = resumed'[u] /\ u < t
      BY <3>2 DEF HasTurnFirst
    <3> QED
      BY <3>2, <3>3 DEF HasTurnFirst
  <2> QED
    BY <2>4, <2>5 DEF QueueSorted
<1>4. CASE Destroy
  BY <1>4, DestroyFacts DEF QueueSorted, HasTurnFirst
<1>5. CASE UNCHANGED vars
  BY <1>5 DEF QueueSorted, HasTurnFirst, vars
<1> QED
  BY <1>1, <1>2, <1>3, <1>4, <1>5 DEF Next

\* Tasks come back to the place from which they were taken, the top.
LEMMA StackPut ==
    ASSUME StackSorted, NEW j, Puts(j), \A i \in 1..Len(tasks) : tasks[i].task < j.task
    PROVE  StackSorted'
<1>1. ASSUME NEW i \in 1..Len(tasks'), NEW k \in 1..Len(tasks'), i < k
      PROVE  tasks'[i].task < tasks'[k].task
  <2>1. i \in 1..Len(tasks) /\ tasks'[i] = tasks[i]
    <3>1. i = Len(tasks') => ~(i < k)
      BY DEF Puts
    <3> QED
      BY <1>1, <3>1 DEF Puts
  <2>2. CASE k = Len(tasks')
    BY <2>1, <2>2 DEF Puts
  <2>3. CASE k \in 1..Len(tasks)
    BY <1>1, <2>1, <2>3 DEF StackSorted, Puts
  <2> QED
    BY <2>2, <2>3 DEF Puts
<1> QED
  BY <1>1 DEF StackSorted, Puts

\* The task on top is the last one emplaced of those that are left, so it runs to
\* its end before the one below it begins.
LEMMA StackKeeps ==
    ASSUME BoundsAssumption, IInv, Idle, StackSorted, RunsToCompletion, policy = "stack", Next
    PROVE  StackSorted' /\ RunsToCompletion'
<1>0. /\ \A u \in Tasks : u \in Nat /\ resumed[u] \in Nat
      /\ \A i \in 1..Len(tasks) : tasks[i].task \in Tasks /\ tasks[i].task \in frames
      /\ Len(tasks) \in Nat /\ \A u \in frames : u \in Tasks
  BY TaskFacts DEF IInv, TypeOK
<1>1. CASE Emplace
  <2>1. \A i \in 1..Len(tasks) : tasks[i].task < emplaced + 1
    BY <1>0, <1>1, EmplacePuts
  <2>2. Job(emplaced + 1, initPrio[emplaced + 1]).task = emplaced + 1
    BY DEF Job
  <2>3. StackSorted'
    BY <1>1, <2>1, <2>2, StackPut, EmplacePuts
  <2>4. \A u \in frames' : resumed'[u] = 0
    BY <1>0, <1>1, EmplacePuts DEF Puts
  <2> QED
    BY <2>3, <2>4 DEF RunsToCompletion
<1>2. CASE Requeue
  <2>1. \A i \in 1..Len(tasks) : tasks[i].task < active[1].task
    BY <1>2, RequeuePuts DEF StackSorted
  <2>2. Job(active[1].task, Update(active[1].prio)).task = active[1].task
    BY DEF Job
  <2>3. StackSorted'
    BY <1>2, <2>1, <2>2, StackPut, RequeuePuts
  <2> QED
    BY <1>2, <2>3, RequeuePuts DEF RunsToCompletion, Puts
<1>3. CASE Resume
  <2>1. PICK n, t, old : Takes(n, t, old)
    BY <1>3, ResumeTakes
  <2>2. /\ n = Len(tasks) /\ n \in 1..Len(tasks) /\ t = tasks[n].task /\ t \in Tasks
        /\ active' # <<>> /\ active'[1] = tasks[n]
    BY <2>1 DEF Takes, Top, StackTop
  <2>3. ASSUME NEW i \in 1..Len(tasks), i # n PROVE tasks[i].task < t
    <3>1. i < n
      BY <1>0, <2>2, <2>3
    <3> QED
      BY <2>2, <3>1 DEF StackSorted
  <2>4. StackSorted'
    <3>1. \A i, k \in 1..Len(tasks') : i < k => tasks'[i].task < tasks'[k].task
      BY <2>1 DEF StackSorted, Takes
    <3>2. \A i \in 1..Len(tasks') : tasks'[i].task < active'[1].task
      BY <2>1, <2>2, <2>3 DEF Takes
    <3> QED
      BY <3>1, <3>2 DEF StackSorted
  <2>5. ASSUME NEW u \in frames', NEW v \in frames', u < v PROVE resumed'[u] = 0
    <3>1. u \in frames /\ v \in frames /\ u \in Nat /\ v \in Nat /\ t \in Nat /\ u \in Tasks
      BY <1>0, <2>1, <2>2 DEF Takes
    <3>2. PICK k \in 1..Len(tasks) : v = tasks[k].task
      BY <2>1, <3>1 DEF Takes, Queued
    <3>3. v = t \/ v < t
      BY <2>2, <2>3, <3>2
    <3>4. u # t
      BY <2>5, <3>1, <3>3
    <3>5. resumed[u] = 0
      BY <2>5, <3>1 DEF RunsToCompletion
    <3> QED
      BY <2>1, <3>1, <3>4, <3>5 DEF Takes
  <2> QED
    BY <2>4, <2>5 DEF RunsToCompletion
<1>4. CASE Destroy
  BY <1>4, DestroyFacts DEF StackSorted, RunsToCompletion
<1>5. CASE UNCHANGED vars
  BY <1>5 DEF StackSorted, RunsToCompletion, vars
<1> QED
  BY <1>1, <1>2, <1>3, <1>4, <1>5 DEF Next

\* When the task at the top is resumed, every task of higher priority has left the
\* container, and the one that was resumed had not come to its end.
LEMMA PriorityKeeps ==
    ASSUME BoundsAssumption, IInv, Idle, Ended, PriosKept, HighestFirst,
           policy = "priority", Next
    PROVE  HighestFirst'
<1>0. /\ \A u \in Tasks : u \in Nat /\ resumed[u] \in Nat /\ initPrio[u] \in Nat
      /\ \A i \in 1..Len(tasks) : tasks[i].task \in Tasks
  BY TaskFacts
<1>1. CASE Emplace
  BY <1>1, EmplacePuts DEF HighestFirst, Puts
<1>2. CASE Requeue
  BY <1>2, RequeuePuts DEF HighestFirst, Puts
<1>3. CASE Resume
  <2>1. PICK n, t, old : Takes(n, t, old)
    BY <1>3, ResumeTakes
  <2>2. /\ t \in Tasks /\ resumed'[t] = resumed[t] + 1 /\ rounds' = rounds /\ initPrio' = initPrio
        /\ \A u \in Tasks : u # t => resumed'[u] = resumed[u]
    BY <2>1 DEF Takes
  <2>3. \A u \in frames : initPrio[u] <= initPrio[t]
    <3> SUFFICES ASSUME NEW u \in frames PROVE initPrio[u] <= initPrio[t]
      OBVIOUS
    <3>1. PICK k \in 1..Len(tasks) : u = tasks[k].task
      BY <2>1 DEF Takes, Queued
    <3>2. tasks[k].prio <= tasks[Top].prio
      BY <1>3, TopIsExtreme DEF IInv, Resume
    <3>3. n \in 1..Len(tasks) /\ n = Top /\ t = tasks[n].task
      BY <2>1 DEF Takes
    <3>4. tasks[k].prio = initPrio[u] /\ tasks[n].prio = initPrio[t]
      BY <3>1, <3>3 DEF PriosKept, PrioQueued
    <3> QED
      BY <3>2, <3>3, <3>4
  <2>4. t \in frames /\ resumed[t] < rounds[t]
    BY <2>1, <2>2 DEF Takes, Queued, IInv, Progress
  <2>5. \A u \in Tasks : u \in 1..emplaced
    BY <2>1 DEF Takes, Tasks
  <2>6. ASSUME NEW v \in Tasks, NEW u \in Tasks, resumed'[v] > 0, initPrio[v] < initPrio[u]
        PROVE  resumed'[u] = rounds[u]
    <3>1. CASE v = t
      <4>1. u \notin frames /\ u # t
        BY <1>0, <2>2, <2>3, <2>6, <3>1
      <4> QED
        BY <2>2, <2>5, <4>1 DEF Ended
    <3>2. CASE v # t
      <4>1. resumed[v] > 0
        BY <2>2, <2>6, <3>2
      <4>2. resumed[u] = rounds[u]
        BY <2>6, <4>1 DEF HighestFirst
      <4>3. u # t
        BY <1>0, <2>4, <4>2
      <4> QED
        BY <2>2, <4>2, <4>3
    <3> QED
      BY <3>1, <3>2
  <2> QED
    BY <2>2, <2>6 DEF HighestFirst
<1>4. CASE Destroy
  BY <1>4, DestroyFacts DEF HighestFirst
<1>5. CASE UNCHANGED vars
  BY <1>5 DEF HighestFirst, vars
<1> QED
  BY <1>1, <1>2, <1>3, <1>4, <1>5 DEF Next

\* The same with the order turned round.
LEMMA ComparatorKeeps ==
    ASSUME BoundsAssumption, IInv, Idle, Ended, PriosKept, LowestFirst,
           policy = "comparator", Next
    PROVE  LowestFirst'
<1>0. /\ \A u \in Tasks : u \in Nat /\ resumed[u] \in Nat /\ initPrio[u] \in Nat
      /\ \A i \in 1..Len(tasks) : tasks[i].task \in Tasks
  BY TaskFacts
<1>1. CASE Emplace
  BY <1>1, EmplacePuts DEF LowestFirst, Puts
<1>2. CASE Requeue
  BY <1>2, RequeuePuts DEF LowestFirst, Puts
<1>3. CASE Resume
  <2>1. PICK n, t, old : Takes(n, t, old)
    BY <1>3, ResumeTakes
  <2>2. /\ t \in Tasks /\ resumed'[t] = resumed[t] + 1 /\ rounds' = rounds /\ initPrio' = initPrio
        /\ \A u \in Tasks : u # t => resumed'[u] = resumed[u]
    BY <2>1 DEF Takes
  <2>3. \A u \in frames : initPrio[t] <= initPrio[u]
    <3> SUFFICES ASSUME NEW u \in frames PROVE initPrio[t] <= initPrio[u]
      OBVIOUS
    <3>1. PICK k \in 1..Len(tasks) : u = tasks[k].task
      BY <2>1 DEF Takes, Queued
    <3>2. tasks[Top].prio <= tasks[k].prio
      BY <1>3, TopIsExtreme DEF IInv, Resume
    <3>3. n \in 1..Len(tasks) /\ n = Top /\ t = tasks[n].task
      BY <2>1 DEF Takes
    <3>4. tasks[k].prio = initPrio[u] /\ tasks[n].prio = initPrio[t]
      BY <3>1, <3>3 DEF PriosKept, PrioQueued
    <3> QED
      BY <3>2, <3>3, <3>4
  <2>4. t \in frames /\ resumed[t] < rounds[t]
    BY <2>1, <2>2 DEF Takes, Queued, IInv, Progress
  <2>5. \A u \in Tasks : u \in 1..emplaced
    BY <2>1 DEF Takes, Tasks
  <2>6. ASSUME NEW v \in Tasks, NEW u \in Tasks, resumed'[v] > 0, initPrio[v] > initPrio[u]
        PROVE  resumed'[u] = rounds[u]
    <3>1. CASE v = t
      <4>1. u \notin frames /\ u # t
        BY <1>0, <2>2, <2>3, <2>6, <3>1
      <4> QED
        BY <2>2, <2>5, <4>1 DEF Ended
    <3>2. CASE v # t
      <4>1. resumed[v] > 0
        BY <2>2, <2>6, <3>2
      <4>2. resumed[u] = rounds[u]
        BY <2>6, <4>1 DEF LowestFirst
      <4>3. u # t
        BY <1>0, <2>4, <4>2
      <4> QED
        BY <2>2, <4>2, <4>3
    <3> QED
      BY <3>1, <3>2
  <2> QED
    BY <2>2, <2>6 DEF LowestFirst
<1>4. CASE Destroy
  BY <1>4, DestroyFacts DEF LowestFirst
<1>5. CASE UNCHANGED vars
  BY <1>5 DEF LowestFirst, vars
<1> QED
  BY <1>1, <1>2, <1>3, <1>4, <1>5 DEF Next

\* The task resumed was at the top: at most the others are now one above it.
LEMMA UpdateKeeps ==
    ASSUME BoundsAssumption, IInv, Idle, PriosKept, CatchUp, policy = "update", Next
    PROVE  CatchUp'
<1>0. /\ \A u \in Tasks : resumed[u] \in Nat /\ initPrio[u] \in Nat
      /\ \A u \in frames : u \in Tasks
  BY TaskFacts
<1>1. CASE Emplace
  <2>1. \A u \in frames' : u \in Tasks /\ resumed'[u] = 0
    BY <1>0, <1>1, EmplacePuts DEF Puts
  <2> QED
    BY <2>1 DEF CatchUp
<1>2. CASE Requeue
  BY <1>2, RequeuePuts DEF CatchUp, PrioNow, Puts
<1>3. CASE Resume
  <2>1. PICK n, t, old : Takes(n, t, old)
    BY <1>3, ResumeTakes
  <2>2. /\ t \in Tasks /\ resumed'[t] = resumed[t] + 1 /\ initPrio' = initPrio /\ frames' = frames
        /\ \A u \in Tasks : u # t => resumed'[u] = resumed[u]
    BY <2>1 DEF Takes
  <2>3. \A u \in frames : PrioNow(u) <= PrioNow(t)
    <3> SUFFICES ASSUME NEW u \in frames PROVE PrioNow(u) <= PrioNow(t)
      OBVIOUS
    <3>1. PICK k \in 1..Len(tasks) : u = tasks[k].task
      BY <2>1 DEF Takes, Queued
    <3>2. tasks[k].prio <= tasks[Top].prio
      BY <1>3, TopIsExtreme DEF IInv, Resume
    <3>3. n \in 1..Len(tasks) /\ n = Top /\ t = tasks[n].task
      BY <2>1 DEF Takes
    <3>4. tasks[k].prio = PrioNow(u) /\ tasks[n].prio = PrioNow(t)
      BY <3>1, <3>3 DEF PriosKept, PrioQueued
    <3> QED
      BY <3>2, <3>3, <3>4
  <2>4. ASSUME NEW v \in frames, NEW u \in frames, resumed'[v] > 0
        PROVE  initPrio[u] - resumed'[u] <= (initPrio[v] - resumed'[v]) + 1
    <3>1. /\ resumed[u] \in Nat /\ resumed[v] \in Nat /\ initPrio[u] \in Nat
          /\ initPrio[v] \in Nat /\ u \in Tasks /\ v \in Tasks
      BY <1>0
    <3>2. resumed'[u] = resumed[u] \/ resumed'[u] = resumed[u] + 1
      BY <2>2, <3>1
    <3>3. CASE v = t
      <4>1. initPrio[u] - resumed[u] <= initPrio[v] - resumed[v] /\ resumed'[v] = resumed[v] + 1
        BY <2>2, <2>3, <3>3 DEF PrioNow
      <4> QED
        BY <3>1, <3>2, <4>1
    <3>4. CASE v # t
      <4>1. resumed'[v] = resumed[v] /\ resumed[v] > 0
        BY <2>2, <2>4, <3>1, <3>4
      <4>2. initPrio[u] - resumed[u] <= (initPrio[v] - resumed[v]) + 1
        BY <4>1 DEF CatchUp, PrioNow
      <4> QED
        BY <3>1, <3>2, <4>1, <4>2
    <3> QED
      BY <3>3, <3>4
  <2> QED
    BY <2>2, <2>4 DEF CatchUp, PrioNow
<1>4. CASE Destroy
  BY <1>4, DestroyFacts DEF CatchUp, PrioNow
<1>5. CASE UNCHANGED vars
  BY <1>5 DEF CatchUp, PrioNow, vars
<1> QED
  BY <1>1, <1>2, <1>3, <1>4, <1>5 DEF Next

LEMMA TurnsStart == ASSUME BoundsAssumption, Init PROVE TurnInv
<1>1. /\ tasks = <<>> /\ active = <<>> /\ frames = {} /\ emplaced = 0
      /\ \A u \in Tasks : resumed[u] = 0
  BY DEF Init
<1>2. Idle /\ Ended /\ PriosKept
  BY <1>1 DEF Idle, Ended, PriosKept
<1>3. QueueSorted /\ StackSorted /\ RunsToCompletion /\ CatchUp
  BY <1>1 DEF QueueSorted, StackSorted, RunsToCompletion, CatchUp
<1>4. HighestFirst /\ LowestFirst
  BY <1>1 DEF HighestFirst, LowestFirst
<1> QED
  BY <1>2, <1>3, <1>4, InitHolds DEF TurnInv, Turns

LEMMA TurnsKeep == ASSUME BoundsAssumption, TurnInv, [Next]_vars PROVE TurnInv'
<1>1. IInv'
  BY StepKeeps DEF TurnInv
<1>2. CASE Next
  <2>1. Idle' /\ Ended' /\ PriosKept'
    BY <1>1, <1>2, IdleKeeps, EndedKeeps, PriosKeptKeeps DEF TurnInv
  <2>2. policy' = policy
    BY <1>2 DEF Next, Emplace, Resume, Requeue, Destroy, choices, vars
  <2>3. Turns'
    BY <1>2, <2>2, QueueKeeps, StackKeeps, PriorityKeeps, ComparatorKeeps, UpdateKeeps
       DEF TurnInv, Turns
  <2> QED
    BY <1>1, <2>1, <2>3 DEF TurnInv
<1>3. CASE UNCHANGED vars
  <2>2. Idle' /\ Ended' /\ PriosKept'
    BY <1>3 DEF TurnInv, Idle, Ended, PriosKept, PrioQueued, PrioActive, PrioNow, vars
  <2>3. Turns'
    BY <1>3 DEF TurnInv, Turns, QueueSorted, HasTurnFirst, StackSorted, RunsToCompletion,
       HighestFirst, LowestFirst, CatchUp, PrioNow, vars
  <2> QED
    BY <1>1, <2>2, <2>3 DEF TurnInv
<1> QED
  BY <1>2, <1>3

LEMMA TurnInvariance == ASSUME BoundsAssumption PROVE Spec => []TurnInv
BY TurnsStart, TurnsKeep, PTL DEF Spec

\* Where the queue is sorted the tasks that are alive have had the same number of
\* turns, give or take one.
LEMMA TurnOrderNow == ASSUME BoundsAssumption, TurnInv PROVE TurnOrder
<1>1. ASSUME QueueSorted PROVE RoundRobin
  <2> SUFFICES ASSUME NEW t \in frames, NEW u \in frames, t < u
               PROVE  resumed[t] - resumed[u] \in {0, 1}
    BY DEF RoundRobin
  <2>1. /\ t \in Nat /\ u \in Nat /\ resumed[t] \in Nat /\ resumed[u] \in Nat
    BY TaskFacts DEF TurnInv
  <2>2. HasTurnFirst(t, u) \/ HasTurnFirst(u, t)
    <3>1. ASSUME NEW i \in 1..Len(tasks), NEW k \in 1..Len(tasks), t = tasks[i].task, u = tasks[k].task
          PROVE  HasTurnFirst(t, u) \/ HasTurnFirst(u, t)
      <4>1. i < k \/ k < i
        BY <2>1, <3>1
      <4> QED
        BY <1>1, <3>1, <4>1 DEF QueueSorted
    <3>2. \A v \in frames : \/ \E i \in 1..Len(tasks) : v = tasks[i].task
                            \/ active # <<>> /\ v = active[1].task
      BY TaskFacts DEF TurnInv
    <3>3. t # u
      BY <2>1
    <3> QED
      BY <1>1, <3>1, <3>2, <3>3 DEF QueueSorted
  <2> QED
    BY <2>1, <2>2 DEF HasTurnFirst
<1> QED
  BY <1>1 DEF TurnInv, Turns, TurnOrder

\* For any number of tasks, bodies of any length and any priorities each scheduler
\* resumes its coroutines in the order its container promises: in turn, the last
\* one to its end, by priority, or so that those of lower priority catch up.
THEOREM TurnsInOrder == ASSUME BoundsAssumption PROVE Spec => []TurnOrder
BY TurnInvariance, TurnOrderNow, PTL
=============================================================================
