-------------------------- MODULE CooperativeTasks --------------------------
(***************************************************************************)
(* coroutines/utils/cooperative_tasks_with_asynchrony/main.cpp, and, with  *)
(* every wake-up time equal, coroutines/utils/cooperative_tasks/main.cpp.  *)
(*                                                                         *)
(* A Task owns its suspended coroutine until detach() hands the handle to  *)
(* the scheduler; ~Task destroys what it still owns.  run() takes the      *)
(* earliest pair of time and handle, sleeps until that time, resumes the   *)
(* coroutine, and destroys it if it is done.  A body that co_awaits a time *)
(* puts itself back, from inside resume().  The first program has a list   *)
(* in place of the priority queue and no times.                            *)
(***************************************************************************)
EXTENDS Integers, Sequences, SequencesExt

CONSTANTS NumTasks,   \* main() creates and detaches tasks 1..NumTasks
          MaxWaits,   \* bound on the co_awaits of a body
          MaxTime     \* bound on the clock

Tasks == 1..NumTasks

VARIABLES timed,      \* FALSE: the list, TRUE: the priority queue of times
          waits,      \* the times each body waits for, chosen at the start
          address,    \* where each frame is allocated
          main,       \* what main() does next: "create", "detach", "drop", "run"
          task,       \* the Task object main() is concerned with
          handle,     \* what the handle_ of that Task holds: {} or {task}
          pending,    \* pending_coroutines_, pairs <<time, handle>> in order of
                      \* insertion
          active,     \* the handle run() has resumed and not asked yet, {} if none
          awaited,    \* how often each body has run up to a co_await or its end
          frames,     \* the coroutine frames that exist
          clock       \* system_clock::now()

vars == <<timed, waits, address, main, task, handle, pending, active, awaited, frames, clock>>

choices == <<timed, waits, address>>

Times == 0..MaxTime

\* Bodies of any number of waits; in the list every time is the same.
Init == /\ timed \in BOOLEAN
        /\ waits \in [Tasks -> UNION {[1..n -> IF timed THEN Times ELSE {0}] :
                                         n \in 0..MaxWaits}]
        /\ address \in IF timed THEN Bijection(Tasks, Tasks) ELSE {[t \in Tasks |-> t]}
        /\ main = "create"
        /\ task = 1
        /\ handle = {}
        /\ pending = <<>>
        /\ active = {}
        /\ awaited = [t \in Tasks |-> 0]
        /\ frames = {}
        /\ clock = 0

\* awaited counts the end of the body, too.
done(t) == awaited[t] > Len(waits[t])

-----------------------------------------------------------------------------
(* main(): coro().detach(), once per task *)

\* coro(): the frame is allocated and suspended; the Task owns the handle.
Create == /\ main = "create"
          /\ main' = "detach"
          /\ frames' = frames \cup {task}
          /\ handle' = {task}
          /\ UNCHANGED <<choices, task, pending, active, awaited, clock>>

\* Mutant: the handle is copied, not exchanged for null.
DetachCopy == /\ main = "detach"
              /\ main' = "drop"
              /\ pending' = Append(pending, <<clock, task>>)
              /\ UNCHANGED <<choices, task, handle, active, awaited, frames, clock>>

\* detach(): exchange and enqueue, with the present time.
Detach == /\ main = "detach"
          /\ main' = "drop"
          /\ pending' = Append(pending, <<clock, task>>)
          /\ handle' = {}
          /\ UNCHANGED <<choices, task, active, awaited, frames, clock>>

\* The temporary Task is destroyed at the end of the statement.
DropTask == /\ main = "drop"
            /\ frames' = frames \ handle
            /\ handle' = {}
            /\ IF task = NumTasks THEN main' = "run" /\ UNCHANGED task
                                  ELSE main' = "create" /\ task' = task + 1
            /\ UNCHANGED <<choices, pending, active, awaited, clock>>

-----------------------------------------------------------------------------
(* run() *)

\* The order of std::pair: by time, then by handle.
Before(p, q) == p[1] < q[1] \/ (p[1] = q[1] /\ address[p[2]] < address[q[2]])

\* The position of front() or top() in order of insertion.
Top == IF timed THEN CHOOSE i \in 1..Len(pending) :
                        \A k \in 1..Len(pending) : ~Before(pending[k], pending[i])
                ELSE 1

\* The body of t runs, with s the container: to its next co_await, whose
\* await_suspend enqueues it, or to its end.
RunsTo(t, s) ==
    /\ awaited' = [awaited EXCEPT ![t] = @ + 1]
    /\ pending' = IF awaited[t] < Len(waits[t])
                    THEN Append(s, <<waits[t][awaited[t] + 1], t>>)
                    ELSE s

\* Mutant: the sleep is forgotten.
ResumeEarly == /\ main = "run" /\ active = {} /\ pending # <<>>
               /\ active' = {pending[Top][2]}
               /\ RunsTo(pending[Top][2], RemoveAt(pending, Top))
               /\ UNCHANGED <<choices, main, task, handle, frames, clock>>

\* sleep_until(top().first) when that is in the future, then top() and pop(),
\* then active.resume().
Resume == /\ main = "run" /\ active = {} /\ pending # <<>>
          /\ pending[Top][1] <= clock
          /\ active' = {pending[Top][2]}
          /\ RunsTo(pending[Top][2], RemoveAt(pending, Top))
          /\ UNCHANGED <<choices, main, task, handle, frames, clock>>

\* if (active.done()) active.destroy(): a coroutine that is not done has put
\* itself back already.
CheckDone == /\ active # {}
             /\ frames' = frames \ {t \in active : done(t)}
             /\ active' = {}
             /\ UNCHANGED <<choices, main, task, handle, pending, awaited, clock>>

\* Time passes at any moment; the clock is taken to be monotonic.
Tick == /\ timed /\ clock < MaxTime
        /\ clock' = clock + 1
        /\ UNCHANGED <<choices, main, task, handle, pending, active, awaited, frames>>

Returned == main = "run" /\ active = {} /\ pending = <<>>

Step == Create \/ Detach \/ DropTask \/ Resume \/ CheckDone

Next == Step \/ Tick \/ (Returned /\ UNCHANGED vars)

\* One thread that runs until it is done, and a clock that does not stop.
Spec == Init /\ [][Next]_vars /\ WF_vars(Step) /\ WF_vars(Tick)
-----------------------------------------------------------------------------
(* Properties *)

Queued == {pending[i][2] : i \in 1..Len(pending)}

\* Every frame has one owner: the Task object, or the scheduler, which has it in
\* its container once or is about to see that it is done.  So nothing is
\* resumed or destroyed after it was destroyed, and nothing leaks.
FramesOwned ==
    /\ frames = handle \cup Queued \cup active
    /\ handle \cap (Queued \cup active) = {}
    /\ Cardinality(Queued) = Len(pending)
    /\ \A t \in active : t \in Queued <=> ~done(t)

\* The list is fair: tasks that are alive have come equally far, give or take
\* one co_await, and the task detached first is never behind.
RoundRobin == \A t, u \in frames :
                 ~timed /\ main = "run" /\ t < u => awaited[t] - awaited[u] \in {0, 1}

\* A coroutine is not resumed before the time it waits for, and never while
\* another one waits for an earlier time.
WakeUp ==
    \A t \in Tasks : timed /\ awaited'[t] > awaited[t] =>
        \E i \in 1..Len(pending) :
            /\ pending[i][2] = t
            /\ pending[i][1] <= clock
            /\ \A k \in 1..Len(pending) : pending[i][1] <= pending[k][1]

\* run() returns when all bodies have run to their end, and no frame is left.
Finished == Returned /\ frames = {} /\ \A t \in Tasks : done(t)
=============================================================================
