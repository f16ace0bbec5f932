----------------------------- MODULE NestedAsync -----------------------------
(***************************************************************************)
(* coroutines/nested/main.cpp: asynchronous functions that call each       *)
(* other, suspend all together in the innermost one, and are resumed there *)
(* by a scheduler only the outermost one was told about.                   *)
(*                                                                         *)
(* A frame is an address out of a small pool, so that a destroyed frame's  *)
(* address can be used again.  Frame Root is the coroutine spawn_task; the *)
(* others are Async functions, whose bodies are any sequence of calls and  *)
(* requests for data, ended by a co_return.  main() is the scheduler's     *)
(* user: it resumes while a coroutine is registered.                       *)
(***************************************************************************)
EXTENDS Naturals, Sequences, FiniteSets

CONSTANTS Addresses,   \* where Async frames can be allocated
          Root,        \* the frame of spawn_task
          Null,        \* nullptr
          Values,      \* data and return values
          None,        \* std::nullopt
          MaxSteps     \* bound on the calls and requests of all bodies

Frames == Addresses \cup {Root}

VARIABLES frames,       \* the frames that exist
          pc,           \* where each frame is suspended, or "run"
          parent,       \* promise_base::parent (and parentHandle)
          child,        \* promise_base::child
          scheduler,    \* promise_base::scheduler is set
          value,        \* opt_return_value, and the result of Root
          got,          \* the last value co_await gave the body
          running,      \* the frame that has control, Null: main()
          to_resume,    \* Scheduler::to_resume
          resume_value, \* Scheduler::resume_value, None for -1
          main,         \* "create", "spawn", "resume", "over"
          steps         \* calls and requests so far

vars == <<frames, pc, parent, child, scheduler, value, got, running, to_resume,
          resume_value, main, steps>>

promises == <<parent, child, scheduler, value, got>>

Init == /\ frames = {}
        /\ pc = [f \in Frames |-> "none"]
        /\ parent = [f \in Frames |-> Null]
        /\ child = [f \in Frames |-> Null]
        /\ scheduler = [f \in Frames |-> FALSE]
        /\ value = [f \in Frames |-> None]
        /\ got = [f \in Frames |-> None]
        /\ running = Null
        /\ to_resume = Null
        /\ resume_value = None
        /\ main = "create"
        /\ steps = 0

-----------------------------------------------------------------------------
(* main(): outer_function(11), spawn_task, and the call of the body *)

\* The frame of outer_function is created, suspended at the start of its body.
CreateTask(f) == /\ main = "create"
                 /\ main' = "spawn"
                 /\ frames' = {f}
                 /\ pc' = [pc EXCEPT ![f] = "start"]
                 /\ UNCHANGED <<promises, running, to_resume, resume_value, steps>>

\* Mutant: the task is not told about its scheduler.
SpawnUntold == /\ main = "spawn"
               /\ main' = "resume"
               /\ \E f \in frames :
                     /\ parent' = [parent EXCEPT ![f] = Root]
                     /\ child' = [child EXCEPT ![Root] = f]
                     /\ pc' = [pc EXCEPT ![Root] = "await", ![f] = "run"]
                     /\ running' = f
               /\ frames' = frames \cup {Root}
               /\ UNCHANGED <<scheduler, value, got, to_resume, resume_value, steps>>

\* spawn_task runs at once: setScheduler on the task, which has no child yet,
\* then co_await task, which links the two frames and transfers control.
SpawnTask == /\ main = "spawn"
             /\ main' = "resume"
             /\ \E f \in frames :
                   /\ scheduler' = [scheduler EXCEPT ![f] = TRUE]
                   /\ parent' = [parent EXCEPT ![f] = Root]
                   /\ child' = [child EXCEPT ![Root] = f]
                   /\ pc' = [pc EXCEPT ![Root] = "await", ![f] = "run"]
                   /\ running' = f
             /\ frames' = frames \cup {Root}
             /\ UNCHANGED <<value, got, to_resume, resume_value, steps>>

-----------------------------------------------------------------------------
(* The bodies *)

Body(f) == f \in Addresses /\ running = f /\ pc[f] = "run"

\* co_await callee(...): a new frame c with fresh promise, linked to f by
\* Async::await_suspend, which transfers control to it.
Call(f, c) == /\ Body(f) /\ c \notin frames
              /\ steps < MaxSteps /\ steps' = steps + 1
              /\ frames' = frames \cup {c}
              /\ parent' = [parent EXCEPT ![c] = f]
              /\ child' = [child EXCEPT ![c] = Null, ![f] = c]
              /\ scheduler' = [scheduler EXCEPT ![c] = FALSE]
              /\ value' = [value EXCEPT ![c] = None]
              /\ got' = [got EXCEPT ![c] = None]
              /\ pc' = [pc EXCEPT ![c] = "run", ![f] = "await"]
              /\ running' = c
              /\ UNCHANGED <<to_resume, resume_value, main>>

\* up(f)[n]: the promise n links above f, Null above the top.
up(f) == LET p[n \in 0..Cardinality(Frames)] ==
                 IF n = 0 THEN f ELSE IF p[n - 1] = Null THEN Null ELSE parent[p[n - 1]]
         IN  p

\* How far above f the nearest promise with a scheduler is.
Nearest(f) == {n \in 0..Cardinality(Frames) :
                  /\ up(f)[n] # Null /\ scheduler[up(f)[n]]
                  /\ \A m \in 0..(n - 1) : ~scheduler[up(f)[m]]}

\* GetData::await_suspend: find the scheduler, propagate it to the promises on
\* the way, register, and return control to whoever resumed the stack.
GetData(f) == /\ Body(f)
              /\ steps < MaxSteps /\ steps' = steps + 1
              /\ \E n \in Nearest(f) :
                    scheduler' = [g \in Frames |-> \/ scheduler[g]
                                                   \/ \E m \in 0..n : up(f)[m] = g]
              /\ to_resume' = f
              /\ pc' = [pc EXCEPT ![f] = "data"]
              /\ running' = Null
              /\ UNCHANGED <<frames, parent, child, value, got, resume_value, main>>

\* co_return v, or spawn_task's co_return of what it got; final_suspend
\* transfers control to the parent, if there is one.
Return(f, v) == /\ running = f /\ pc[f] = "run"
                /\ f = Root => v = got[Root]
                /\ value' = [value EXCEPT ![f] = v]
                /\ pc' = [pc EXCEPT ![f] = "final"]
                /\ running' = parent[f]
                /\ UNCHANGED <<frames, parent, child, scheduler, got, to_resume,
                               resume_value, main, steps>>

\* Mutant: the parent keeps its link to the child that has ended.
KeepLink(f) == /\ running = f /\ pc[f] = "await"
               /\ got' = [got EXCEPT ![f] = value[child[f]]]
               /\ frames' = IF f = Root THEN frames ELSE frames \ {child[f]}
               /\ pc' = [pc EXCEPT ![f] = "run"]
               /\ UNCHANGED <<parent, child, scheduler, value, running, to_resume,
                              resume_value, main, steps>>

\* Async::await_resume in the parent: unlink, take the value; the temporary
\* Async dies at the end of the expression and its frame with it, while the
\* task of spawn_task is a parameter and lives as long as Root.
AwaitResume(f) == /\ running = f /\ pc[f] = "await"
                  /\ got' = [got EXCEPT ![f] = value[child[f]]]
                  /\ child' = [child EXCEPT ![f] = Null]
                  /\ frames' = IF f = Root THEN frames ELSE frames \ {child[f]}
                  /\ pc' = [pc EXCEPT ![f] = "run"]
                  /\ UNCHANGED <<parent, scheduler, value, running, to_resume,
                                 resume_value, main, steps>>

\* GetData::await_resume.
DataResume(f) == /\ running = f /\ pc[f] = "data"
                 /\ got' = [got EXCEPT ![f] = resume_value]
                 /\ pc' = [pc EXCEPT ![f] = "run"]
                 /\ UNCHANGED <<frames, parent, child, scheduler, value, running,
                                to_resume, resume_value, main, steps>>

-----------------------------------------------------------------------------
(* main() again *)

\* Mutant: the coroutine is resumed before the data is stored.
ResumeStale(d) == /\ main = "resume" /\ running = Null /\ to_resume # Null
                  /\ running' = to_resume
                  /\ to_resume' = Null
                  /\ UNCHANGED <<frames, pc, promises, resume_value, main, steps>>

resumeWithData(d) == /\ main = "resume" /\ running = Null /\ to_resume # Null
                     /\ resume_value' = d
                     /\ running' = to_resume
                     /\ to_resume' = Null
                     /\ UNCHANGED <<frames, pc, promises, main, steps>>

\* Mutant: ~AsyncResult is missing.
ExitLeaking == /\ main = "resume" /\ running = Null /\ to_resume = Null
               /\ main' = "over"
               /\ UNCHANGED <<frames, pc, promises, running, to_resume, resume_value, steps>>

\* async_result.result(), and ~AsyncResult at the end of main(): Root is
\* destroyed and its parameter task with it.
Exit == /\ main = "resume" /\ running = Null /\ to_resume = Null
        /\ main' = "over"
        /\ frames' = frames \ ({Root} \cup {f \in frames : parent[f] = Root})
        /\ UNCHANGED <<pc, promises, running, to_resume, resume_value, steps>>

Next == \/ \E f \in Addresses : CreateTask(f) \/ GetData(f)
        \/ SpawnTask
        \/ \E f, c \in Addresses : Call(f, c)
        \/ \E f \in Frames : \/ AwaitResume(f) \/ DataResume(f)
                             \/ \E v \in Values : Return(f, v)
        \/ \E d \in Values : resumeWithData(d)
        \/ Exit
        \/ main = "over" /\ UNCHANGED vars

\* One thread, which runs until it is done.
Spec == Init /\ [][Next]_vars /\ WF_vars(Next)
-----------------------------------------------------------------------------
(* Properties *)

\* What GetData asserts (lines 75 and 82): whichever body has control can find
\* the scheduler above it, and nobody else is registered there.  What Async
\* asserts (lines 139, 162 and 166): a body that can call has no child, and one
\* that can return has returned nothing yet.
AssertionsHold ==
    /\ \A f \in Addresses : Body(f) => Nearest(f) # {} /\ to_resume = Null
    /\ \A f \in Frames :
          running = f /\ pc[f] = "run" => child[f] = Null /\ value[f] = None

\* Nobody has control, is registered, or is linked into the stack, without a
\* frame: no handle is resumed and no link followed after its frame was freed.
\* After the propagation in GetData every promise of the stack, from the one that
\* waits up to the task, has the scheduler await_resume reads.
LinksAreAlive ==
    /\ running # Null => running \in frames
    /\ to_resume # Null => to_resume \in frames
    /\ \A f \in frames : /\ child[f] # Null => child[f] \in frames
                         /\ parent[f] # Null => parent[f] \in frames
    /\ to_resume # Null =>
          \A n \in 0..Cardinality(Frames) :
              LET g == up(to_resume)[n] IN g \notin {Null, Root} => scheduler[g]

\* result() asserts that there is a result (line 220); at the end no frame is left.
EndsWithResult == /\ main = "over" => value[Root] # None /\ frames = {}

\* The activations: the Async frames from the task down to the innermost one.
stack == LET down[n \in 0..Cardinality(Frames)] ==
                 IF n = 0 THEN child[Root]
                          ELSE IF down[n - 1] = Null THEN Null ELSE child[down[n - 1]]
             depth == Cardinality({n \in 0..Cardinality(Frames) : down[n] # Null})
         IN  [n \in 1..depth |-> got[down[n - 1]]]

\* What its scheduler and result say of the stack.
mode == CASE main \in {"create", "spawn"} -> "idle"
          [] got[Root] # None -> "done"
          [] to_resume # Null \/ (running # Null /\ pc[running] = "data") -> "wait"
          [] OTHER -> "run"
=============================================================================
