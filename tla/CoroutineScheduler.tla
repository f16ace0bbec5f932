------------------------- MODULE CoroutineScheduler -------------------------
(***************************************************************************)
(* The schedulers of concurrency/ that own their coroutines: one loop,     *)
(* schedule(), over five containers.                                       *)
(*                                                                         *)
(*   "queue"       queueScheduler.cpp                      std::queue      *)
(*   "stack"       stackScheduler.cpp                      std::stack      *)
(*   "priority"    problems/priority_queueScheduler.cpp    largest first   *)
(*   "comparator"  solutions/priority_queueSchedulerComperator.cpp         *)
(*                                                         smallest first  *)
(*   "update"      solutions/priority_queueSchedulerUpdatePriority.cpp     *)
(*                                    largest first, lowered by one a turn *)
(*                                                                         *)
(* A coroutine body is the number of resumptions after which it is done;   *)
(* the bodies of the programs need 3 (TaskA, TaskB) or 7 (createTask of    *)
(* the last program), the model takes all combinations up to MaxRounds.    *)
(* Jobs of equal priority are ordered by the address of their frame.       *)
(***************************************************************************)
EXTENDS Integers, Sequences, SequencesExt

CONSTANTS NumTasks,    \* main() emplaces tasks 1..NumTasks in this order
          MaxRounds,   \* bound on the resumptions a body needs
          MaxPrio      \* bound on the priorities given to emplace()

BoundsAssumption == NumTasks \in Nat /\ MaxRounds \in Nat \ {0} /\ MaxPrio \in Nat

Tasks == 1..NumTasks

Policies == {"queue", "stack", "priority", "comparator", "update"}

VARIABLES policy,      \* which of the programs runs
          rounds,      \* the resumptions each body needs, chosen at the start
          initPrio,    \* the priority each task is emplaced with
          address,     \* where each frame is allocated
          emplaced,    \* how many tasks main() has emplaced
          tasks,       \* the container, in order of insertion
          active,      \* the job schedule() has taken out, as <<job>>, or <<>>
          resumed,     \* how often each coroutine was resumed
          frames       \* the coroutine frames that exist

vars == <<policy, rounds, initPrio, address, emplaced, tasks, active, resumed, frames>>

choices == <<policy, rounds, initPrio, address>>

Job(t, p) == [task |-> t, prio |-> p]

\* A queue or a stack looks neither at priorities nor at addresses.
Ordered == policy \in {"priority", "comparator", "update"}

Init == /\ policy \in Policies
        /\ rounds \in [Tasks -> 1..MaxRounds]
        /\ initPrio \in [Tasks -> IF Ordered THEN 0..MaxPrio ELSE {0}]
        /\ address \in IF Ordered THEN Bijection(Tasks, Tasks) ELSE {[t \in Tasks |-> t]}
        /\ emplaced = 0
        /\ tasks = <<>>
        /\ active = <<>>
        /\ resumed = [t \in Tasks |-> 0]
        /\ frames = {}

\* A coroutine at its final suspension point.
done(t) == resumed[t] = rounds[t]

-----------------------------------------------------------------------------
(* The containers: the position of front() or top() in order of insertion *)

QueueFront == 1

StackTop == Len(tasks)

\* The order of std::pair: by priority, then by handle.
Less(j, k) == \/ j.prio < k.prio
              \/ j.prio = k.prio /\ address[j.task] < address[k.task]

PriorityTop == CHOOSE i \in 1..Len(tasks) :
                  \A k \in 1..Len(tasks) : ~Less(tasks[i], tasks[k])

ComparatorTop == CHOOSE i \in 1..Len(tasks) :
                    \A k \in 1..Len(tasks) : ~Less(tasks[k], tasks[i])

Top == CASE policy = "queue" -> QueueFront
         [] policy = "stack" -> StackTop
         [] policy \in {"priority", "update"} -> PriorityTop
         [] policy = "comparator" -> ComparatorTop

\* Mutant: the updater raises the priority.
Raise(p) == IF policy = "update" THEN p + 1 ELSE p

\* upd(prio): only the last program changes the priority of a task.
Update(p) == IF policy = "update" THEN p - 1 ELSE p

-----------------------------------------------------------------------------

\* emplace(): the coroutine is created suspended, its frame handed over.
Emplace == /\ emplaced < NumTasks
           /\ LET t == emplaced + 1
              IN  /\ emplaced' = t
                  /\ tasks' = Append(tasks, Job(t, initPrio[t]))
                  /\ frames' = frames \cup {t}
           /\ UNCHANGED <<choices, active, resumed>>

\* Mutant: top() without pop().
ResumeKept == /\ emplaced = NumTasks /\ active = <<>> /\ tasks # <<>>
              /\ LET j == tasks[Top]
                 IN  /\ active' = <<j>>
                     /\ resumed' = [resumed EXCEPT ![j.task] = @ + 1]
              /\ UNCHANGED <<choices, emplaced, tasks, frames>>

\* front() or top(), pop(), task.resume(): the body runs to its next
\* suspension point.
Resume == /\ emplaced = NumTasks /\ active = <<>> /\ tasks # <<>>
          /\ LET j == tasks[Top]
             IN  /\ active' = <<j>>
                 /\ tasks' = RemoveAt(tasks, Top)
                 /\ resumed' = [resumed EXCEPT ![j.task] = @ + 1]
          /\ UNCHANGED <<choices, emplaced, frames>>

\* if (!task.done()): back into the container.
Requeue == /\ active # <<>> /\ ~done(active[1].task)
           /\ tasks' = Append(tasks, Job(active[1].task, Update(active[1].prio)))
           /\ active' = <<>>
           /\ UNCHANGED <<choices, emplaced, resumed, frames>>

\* Mutant: a finished coroutine is dropped, its frame leaks.
Forget == /\ active # <<>> /\ done(active[1].task)
          /\ active' = <<>>
          /\ UNCHANGED <<choices, emplaced, tasks, resumed, frames>>

\* else: the frame is destroyed.
Destroy == /\ active # <<>> /\ done(active[1].task)
           /\ frames' = frames \ {active[1].task}
           /\ active' = <<>>
           /\ UNCHANGED <<choices, emplaced, tasks, resumed>>

\* schedule() has returned.
Returned == emplaced = NumTasks /\ tasks = <<>> /\ active = <<>>

Next == Emplace \/ Resume \/ Requeue \/ Destroy \/ (Returned /\ UNCHANGED vars)

\* One thread, which runs until it is done.
Spec == Init /\ [][Next]_vars /\ WF_vars(Next)
-----------------------------------------------------------------------------
(* Properties of every scheduler *)

Queued == {tasks[i].task : i \in 1..Len(tasks)}

Active == {active[i].task : i \in 1..Len(active)}

\* A frame is owned by one place: every existing frame is in the container or
\* active, once, and nothing else is.  So no coroutine is resumed after it was
\* destroyed, none is destroyed twice, and none is leaked.
FramesOwned == /\ frames = Queued \cup Active
               /\ Queued \cap Active = {}
               /\ Cardinality(Queued) = Len(tasks)

\* A coroutine is never resumed at its final suspension point.
NeverResumedWhenDone == \A t \in Tasks : /\ resumed[t] <= rounds[t]
                                         /\ t \in Queued => ~done(t)

\* What schedule() must come to: every body has run to its end, its frame is gone.
Finished == /\ Returned /\ frames = {}
            /\ \A t \in Tasks : resumed[t] = rounds[t]

-----------------------------------------------------------------------------
(* Properties of one scheduler *)

\* The queue is fair: tasks that are still alive have had the same number of
\* turns, give or take one, and the earlier task is never behind.
RoundRobin == \A t, u \in frames :
                 t < u => resumed[t] - resumed[u] \in {0, 1}

\* The stack is not: a task that has begun runs to its end before another one
\* begins, and the last one emplaced comes first.
RunsToCompletion == \A t, u \in frames : t < u => resumed[t] = 0

\* A task runs only when all tasks of higher priority have ended.
HighestFirst == \A t, u \in Tasks :
    resumed[t] > 0 /\ initPrio[t] < initPrio[u] => resumed[u] = rounds[u]

\* With the other comparator, only when all tasks of lower priority have ended.
LowestFirst == \A t, u \in Tasks :
    resumed[t] > 0 /\ initPrio[t] > initPrio[u] => resumed[u] = rounds[u]

PrioNow(t) == initPrio[t] - resumed[t]

\* Lowering the priority at every turn lets the others catch up: once a task
\* has run, no task that is alive is more than one above it.
CatchUp == \A t, u \in frames :
    resumed[t] > 0 => PrioNow(u) <= PrioNow(t) + 1

\* Each program resumes its coroutines in the order its container promises.
TurnOrder == /\ policy = "queue" => RoundRobin
             /\ policy = "stack" => RunsToCompletion
             /\ policy = "priority" => HighestFirst
             /\ policy = "comparator" => LowestFirst
             /\ policy = "update" => CatchUp
=============================================================================
