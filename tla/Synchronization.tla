--------------------------- MODULE Synchronization ---------------------------
(***************************************************************************)
(* The programs in which threads wait for each other's work, in one state  *)
(* space: the crews of module Workers, the pairs of SharedWork, the        *)
(* clients and servant of ActiveObject, and the adders and the one getter  *)
(* of MonitorObject.  The initial state chooses the program; the variables *)
(* the others have keep the value Absent.                                  *)
(***************************************************************************)
EXTENDS Integers, Sequences, FiniteSets

CONSTANTS FullTime, PartTime,      \* the crew
          MaxSpurious,             \* bound on the spurious wake-ups
          NumClients, NumTasks,    \* of the active object
          Adders, Getter, NumGets, \* of the monitor object
          NoThread, NoValue, Garbage

ASSUME SynchronizationAssumption ==
    /\ FullTime # {}
    /\ MaxSpurious \in Nat
    /\ IsFiniteSet(Adders) /\ Getter \notin Adders
    /\ NumGets \in 1..Cardinality(Adders)
    /\ NoThread \notin Adders \cup {Getter}
    /\ NoValue \notin Adders /\ Garbage \notin Adders \cup {NoValue}

VARIABLES program,    \* "crew", "pair", "active object" or "monitor object"
          team, pc, boss, worked, workDone, expected, phase, token, prepared, goHome,
          means, data, ready, owner, stop, ret, waiter, sender, spurious,
          deferred, activationList, lockHolder, at, enqueued, servant, myTask, results,
          pushed, popped, got

\* boss is main() in Workers and in ActiveObject; owner, pc and spurious are shared
\* by name.
crew    == <<team, worked, workDone, expected, phase, token, prepared, goHome>>
pair    == <<means, data, ready, stop, ret, waiter, sender>>
object  == <<deferred, activationList, lockHolder, at, enqueued, servant, myTask, results>>
monitor == <<pushed, popped, got>>

variables == <<program, boss, pc, owner, spurious, crew, pair, object, monitor>>

Crews   == INSTANCE Workers
Pairs   == INSTANCE SharedWork
Objects == INSTANCE ActiveObject
Monitor == INSTANCE MonitorObject WITH Getters <- {Getter}

ASSUME CrewsAssumption   == Crews!CrewAssumption
ASSUME ObjectsAssumption == Objects!NumbersAssumption

\* The value of a variable in the programs that do not have it.
Absent == "absent"

NoCrew == /\ team = Absent /\ worked = Absent /\ workDone = Absent /\ expected = Absent
          /\ phase = Absent /\ token = Absent /\ prepared = Absent /\ goHome = Absent

NoPair == /\ means = Absent /\ data = Absent /\ ready = Absent /\ stop = Absent
          /\ ret = Absent /\ waiter = Absent /\ sender = Absent

NoObject == /\ deferred = Absent /\ activationList = Absent /\ lockHolder = Absent
            /\ at = Absent /\ enqueued = Absent /\ servant = Absent /\ myTask = Absent
            /\ results = Absent

NoMonitor == pushed = Absent /\ popped = Absent /\ got = Absent

Init == \/ /\ program = "crew" /\ Crews!Init /\ NoPair /\ NoObject /\ NoMonitor
           /\ owner = Absent /\ spurious = Absent
        \/ /\ program = "pair" /\ Pairs!Init /\ NoCrew /\ NoObject /\ NoMonitor
           /\ boss = Absent /\ pc = Absent
        \/ /\ program = "active object" /\ Objects!Init /\ NoCrew /\ NoPair /\ NoMonitor
           /\ pc = Absent /\ owner = Absent /\ spurious = Absent
        \/ /\ program = "monitor object" /\ Monitor!Init /\ NoCrew /\ NoPair /\ NoObject
           /\ boss = Absent

InCrew(step)    == program = "crew" /\ step
                      /\ UNCHANGED <<program, owner, spurious, pair, object, monitor>>
InPair(step)    == program = "pair" /\ step /\ UNCHANGED <<program, boss, pc, crew, object, monitor>>
InObject(step)  == program = "active object" /\ step
                      /\ UNCHANGED <<program, pc, owner, spurious, crew, pair, monitor>>
InMonitor(step) == program = "monitor object" /\ step
                      /\ UNCHANGED <<program, boss, crew, pair, object>>

Next == \/ InCrew(Crews!Next) \/ InPair(Pairs!Next) \/ InObject(Objects!Next)
        \/ InMonitor(Monitor!Next)

\* As in the modules of the programs: the scheduler runs every thread.
Fairness ==
    /\ WF_variables(InCrew(Crews!BossStep))
    /\ \A w \in FullTime \cup PartTime : WF_variables(InCrew(Crews!WorkerStep(w)))
    /\ WF_variables(InPair(Pairs!SenderStep))
    /\ WF_variables(InPair(Pairs!WaiterStep))
    /\ WF_variables(InPair(Pairs!RequestStop))
    /\ \A c \in 1..NumClients : WF_variables(InObject(Objects!ClientStep(c)))
    /\ WF_variables(InObject(Objects!BossStep))
    /\ WF_variables(InObject(Objects!ServantStep))
    /\ \A a \in Adders : WF_variables(InMonitor(Monitor!AdderStep(a)))
    /\ WF_variables(InMonitor(Monitor!GetterStep(Getter)))

Spec == Init /\ [][Next]_variables /\ Fairness
-----------------------------------------------------------------------------
(* Properties *)

\* Nobody of a crew goes on before everybody has done the work to wait for.
NobodyAhead == program = "crew" => Crews!NobodyAhead

\* Latch and barrier expect exactly the workers that have not arrived, so they
\* are never counted below zero.
CountersExact == program = "crew" => Crews!CountersExact

\* The waiter of a pair works on prepared data only, or knows it was stopped.
WorksOnData == program = "pair" => Pairs!WorksOnData

\* A blocked waiter whose condition holds is still owed a notification.
WakeUpOwed == program = "pair" => Pairs!WakeUpOwed

\* The active object neither drops nor repeats a task, and leaves none in its
\* list when the servant has left.
TaskInOnePlace == program = "active object" => Objects!TaskInOnePlace /\ Objects!NoTaskLeftBehind

\* Its servant never takes a task out of an empty list.
DequeueFindsTask == program = "active object" => Objects!DequeueFindsTask

\* With a single getter nobody can empty the queue between the wait() and the
\* lock() of the monitor object, so that every call of get() takes the oldest
\* element, and no two calls the same.  A getter of QueueSpec is one call; the
\* other programs leave its queue as it is.
valuesRead == [k \in 1..NumGets |-> IF k <= Len(got[Getter]) THEN got[Getter][k] ELSE NoValue]

Queue == INSTANCE QueueSpec
    WITH Getters <- 1..NumGets,
         items <- IF program = "monitor object" THEN Monitor!items ELSE <<>>,
         put   <- IF program = "monitor object" THEN Monitor!put ELSE {},
         taken <- IF program = "monitor object" THEN valuesRead
                                                ELSE [k \in 1..NumGets |-> NoValue]

ImplementsQueue == Queue!Safe

\* In every program main() gets past all its joins and gets.
MainReturns == <>(CASE program = "crew" -> Crews!Home
                    [] program = "pair" -> Pairs!Joined
                    [] program = "active object" -> Objects!Answered
                    [] program = "monitor object" -> Monitor!Returned)
=============================================================================
