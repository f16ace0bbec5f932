----------------------------- MODULE Schedulers -----------------------------
(***************************************************************************)
(* Every single-threaded scheduler of the repository, in one state space:  *)
(* the five of module CoroutineScheduler, the list of TaskScheduler, the   *)
(* list and the timed queue of CooperativeTasks, and the one of            *)
(* NestedAsync, which holds the innermost of nested functions.  The        *)
(* initial state chooses the program; the variables the others have keep   *)
(* the value Absent.                                                       *)
(***************************************************************************)
EXTENDS Integers, Sequences, FiniteSets

CONSTANTS NumTasks,      \* the tasks of every program
          MaxRounds, MaxPrio, MaxSuspends, MaxWaits, MaxTime,  \* bounds
          Addresses, Root, Null, Values, None, MaxSteps        \* of NestedAsync

ASSUME SchedulersAssumption ==
    NumTasks # 0 /\ MaxSuspends \in Nat \ {0} /\ MaxWaits \in Nat /\ MaxTime \in Nat

ASSUME NestedAssumption ==
    /\ IsFiniteSet(Addresses) /\ Addresses # {} /\ Root \notin Addresses
    /\ Null \notin Addresses \cup {Root} /\ None \notin Values /\ MaxSteps \in Nat

VARIABLES program,                                              \* the program
          frames, tasks, active, address, main,                 \* shared by name
          policy, rounds, initPrio, emplaced, resumed,          \* CoroutineScheduler
          suspends, called, passed, again,                      \* TaskScheduler
          timed, waits, task, handle, pending, awaited, clock,  \* CooperativeTasks
          pc, parent, child, scheduler, value, got, running,    \* NestedAsync
          to_resume, resume_value, steps

owning   == <<policy, rounds, initPrio, emplaced, resumed>>
listed   == <<suspends, called, passed, again>>
detached == <<timed, waits, task, handle, pending, awaited, clock>>
nested   == <<pc, parent, child, scheduler, value, got, running, to_resume, resume_value, steps>>

variables == <<program, frames, tasks, active, address, main, owning, listed, detached, nested>>

Owning   == INSTANCE CoroutineScheduler

ASSUME OwningAssumption == Owning!BoundsAssumption

Listed   == INSTANCE TaskScheduler
Detached == INSTANCE CooperativeTasks
Nested   == INSTANCE NestedAsync

\* The value of a variable in the programs that do not have it.
Absent == "absent"

NoOwning == /\ policy = Absent /\ rounds = Absent /\ initPrio = Absent
            /\ emplaced = Absent /\ resumed = Absent

NoListed == suspends = Absent /\ called = Absent /\ passed = Absent /\ again = Absent

NoDetached == /\ timed = Absent /\ waits = Absent /\ task = Absent /\ handle = Absent
              /\ pending = Absent /\ awaited = Absent /\ clock = Absent

NoNested == /\ pc = Absent /\ parent = Absent /\ child = Absent /\ scheduler = Absent
            /\ value = Absent /\ got = Absent /\ running = Absent /\ to_resume = Absent
            /\ resume_value = Absent /\ steps = Absent

Init == \/ /\ program = "owning" /\ Owning!Init /\ NoListed /\ NoDetached /\ NoNested
           /\ main = Absent
        \/ /\ program = "listed" /\ Listed!Init /\ NoOwning /\ NoDetached /\ NoNested
           /\ active = Absent /\ address = Absent /\ main = Absent
        \/ /\ program = "detached" /\ Detached!Init /\ NoOwning /\ NoListed /\ NoNested
           /\ tasks = Absent
        \/ /\ program = "nested" /\ Nested!Init /\ NoOwning /\ NoListed /\ NoDetached
           /\ tasks = Absent /\ active = Absent /\ address = Absent

OwningOthers   == UNCHANGED <<program, main, listed, detached, nested>>
ListedOthers   == UNCHANGED <<program, active, address, main, owning, detached, nested>>
DetachedOthers == UNCHANGED <<program, tasks, owning, listed, nested>>
NestedOthers   == UNCHANGED <<program, tasks, active, address, owning, listed, detached>>

OwningNext   == program = "owning" /\ Owning!Next /\ OwningOthers
ListedNext   == program = "listed" /\ Listed!Next /\ ListedOthers
DetachedStep == program = "detached" /\ Detached!Step /\ DetachedOthers
DetachedTick == program = "detached" /\ Detached!Tick /\ DetachedOthers
DetachedNext == program = "detached" /\ Detached!Next /\ DetachedOthers
NestedNext   == program = "nested" /\ Nested!Next /\ NestedOthers

Next == OwningNext \/ ListedNext \/ DetachedNext \/ NestedNext

\* As in the modules of the programs: one thread that runs until it is done,
\* and a clock that does not stop.
Spec == /\ Init /\ [][Next]_variables
        /\ WF_variables(OwningNext) /\ WF_variables(ListedNext)
        /\ WF_variables(DetachedStep) /\ WF_variables(DetachedTick)
        /\ WF_variables(NestedNext)
-----------------------------------------------------------------------------
(* Properties *)

\* In every program a coroutine frame has one owner at any time: nothing is
\* resumed or destroyed after it was destroyed, nothing is queued twice, and
\* nothing leaks.
FramesOwned == /\ program = "owning" => Owning!FramesOwned
               /\ program = "listed" => Listed!ListIsAlive
               /\ program = "detached" => Detached!FramesOwned

\* Whatever schedule() takes from its container can be resumed: the owning
\* schedulers hold no coroutine at its final suspension point, and the list
\* program never calls front() on an empty list.
ResumesLiveTask == /\ program = "owning" => Owning!NeverResumedWhenDone
                   /\ program = "listed" => Listed!FrontExists

\* Every program resumes its coroutines in the order its container promises.
TurnOrder == /\ program = "owning" => Owning!TurnOrder
             /\ program = "listed" => Listed!RoundRobin
             /\ program = "detached" => Detached!RoundRobin

\* In the timed program no coroutine is resumed before the time it waits for,
\* and none while another one waits for an earlier time.
WakesInOrder == [][program = "detached" => Detached!WakeUp]_variables

\* What the source asserts of nested functions holds: whichever body has control
\* finds its scheduler, nobody else is registered there, no function calls while
\* it has a callee, and none returns twice.
AssertionsHold == program = "nested" => Nested!AssertionsHold

\* No handle is resumed and no link of the chain of callers followed after its
\* frame was freed, also where the address of a frame is used again.
LinksAreAlive == program = "nested" => Nested!LinksAreAlive

\* result() has a result when main() asks for it, and then no frame is left.
EndsWithResult == program = "nested" => Nested!EndsWithResult

\* The other programs leave the call stack of nested functions as it starts.
Calls == INSTANCE CallStack
    WITH stack  <- IF program = "nested" THEN Nested!stack ELSE <<>>,
         mode   <- IF program = "nested" THEN Nested!mode ELSE "idle",
         result <- IF program = "nested" THEN got[Root] ELSE None

\* Links, handles and transfers of nested functions together behave as a call
\* stack: a value goes to the caller, data to the function that asked for it.
ImplementsCallStack == Calls!Spec

\* Every scheduler returns, when, and only when, every body has run to its end,
\* and then no frame is left; the last of nested functions returns to main().
AllFinished == <>[](/\ program = "owning" => Owning!Finished
                    /\ program = "listed" => Listed!Finished
                    /\ program = "detached" => Detached!Finished
                    /\ program = "nested" => main = "over")
=============================================================================
