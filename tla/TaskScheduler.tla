---------------------------- MODULE TaskScheduler ----------------------------
(***************************************************************************)
(* coroutines/task_scheduler/main.cpp: coroutines that put themselves on   *)
(* the scheduler's list.  A task starts running when it is called and      *)
(* co_await sched.suspend() pushes its own handle; nobody owns it, its     *)
(* frame is freed when the body ends (final_suspend never suspends).       *)
(*                                                                         *)
(* schedule() calls front() without a test, and main() calls it before it  *)
(* knows whether anything was pushed: the bodies are assumed to contain at *)
(* least one suspension point between them, as taskA and taskB do.         *)
(***************************************************************************)
EXTENDS Integers, Sequences, FiniteSets

CONSTANTS NumTasks,     \* main() calls tasks 1..NumTasks in this order
          MaxSuspends   \* bound on the suspension points of a body

Tasks == 1..NumTasks

VARIABLES suspends,   \* the suspension points of each body, chosen at the start
          called,     \* how many tasks main() has called
          tasks,      \* _tasks
          passed,     \* the suspension points each body has reached
          frames,     \* the coroutine frames that exist
          again       \* the last result of schedule(), TRUE before the first

vars == <<suspends, called, tasks, passed, frames, again>>

Init == /\ suspends \in {f \in [Tasks -> 0..MaxSuspends] : \E t \in Tasks : f[t] > 0}
        /\ called = 0
        /\ tasks = <<>>
        /\ passed = [t \in Tasks |-> 0]
        /\ frames = {}
        /\ again = TRUE

\* The body of t runs, from where it is, with s the list and f the frames: it
\* comes to a co_await and pushes itself, or to its end and is freed.
RunsTo(t, s, f) ==
    IF passed[t] < suspends[t]
      THEN /\ tasks' = Append(s, t)
           /\ passed' = [passed EXCEPT ![t] = @ + 1]
           /\ frames' = f
      ELSE /\ tasks' = s
           /\ frames' = f \ {t}
           /\ UNCHANGED passed

Call == /\ called < NumTasks
        /\ called' = called + 1
        /\ RunsTo(called + 1, tasks, frames \cup {called + 1})
        /\ UNCHANGED <<suspends, again>>

\* front(), pop_front(); a coroutine that pushed itself is suspended, so the
\* test of task.done() holds as long as its frame exists: see ListIsAlive.
schedule == /\ called = NumTasks /\ again
            /\ RunsTo(Head(tasks), Tail(tasks), frames)
            /\ again' = (tasks' # <<>>)
            /\ UNCHANGED <<suspends, called>>

Returned == called = NumTasks /\ ~again

Next == Call \/ schedule \/ (Returned /\ UNCHANGED vars)

\* One thread, which runs until it is done.
Spec == Init /\ [][Next]_vars /\ WF_vars(Next)
-----------------------------------------------------------------------------
(* Properties *)

InList == {tasks[i] : i \in 1..Len(tasks)}

\* The list holds every frame that exists, once, and no other handle: done()
\* and resume() are never called on a freed frame and no task is forgotten.
ListIsAlive == InList = frames /\ Cardinality(InList) = Len(tasks)

\* front() is never called on an empty list.
FrontExists == called = NumTasks /\ again => tasks # <<>>

\* Tasks that are still alive have come equally far, give or take one
\* suspension point, and the task called first is never behind.
RoundRobin == \A t, u \in frames :
                 called = NumTasks /\ t < u => passed[t] - passed[u] \in {0, 1}

\* main()'s loop ends when, and only when, all bodies have run to their end.
Finished == Returned /\ frames = {} /\ passed = suspends
=============================================================================
