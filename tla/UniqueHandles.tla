---------------------------- MODULE UniqueHandles ----------------------------
(***************************************************************************)
(* coroutines/basic_examples/co_return_custom_handle/main.cpp: Task, whose *)
(* UniqueCoroHandle owns a coroutine frame, is moved from but never        *)
(* copied, and destroys its frame.  main() moves tasks in one order; here  *)
(* tasks are created, moved, assigned, also to themselves, and destroyed   *)
(* in any order, and the memory of a frame is used again.                  *)
(***************************************************************************)
CONSTANTS Tasks,     \* the variables of type Task
          Frames,    \* where a coroutine frame can be allocated
          Null,      \* a coroutine_handle that is null
          Unborn     \* instead of the handle of a task outside its lifetime

\* The handles that stand for no frame are no addresses of frames.
HandlesDistinct == Null \notin Frames /\ Unborn \notin Frames /\ Null # Unborn

VARIABLES handle,    \* Task::handle
          live       \* the frames that exist, each of f() at its final suspension

hvars == <<handle, live>>

Born(t) == handle[t] # Unborn

Init == /\ handle = [t \in Tasks |-> Unborn]
        /\ live = {}

\* Task t = f(): the body of f runs to its end before the call returns.
f(t, frame) == /\ ~Born(t) /\ frame \notin live
               /\ handle' = [handle EXCEPT ![t] = frame]
               /\ live' = live \cup {frame}

\* Task t{{}}
Empty(t) == /\ ~Born(t)
            /\ handle' = [handle EXCEPT ![t] = Null]
            /\ UNCHANGED live

\* Task t = std::move(other)
MoveConstruct(t, other) ==
    /\ ~Born(t) /\ Born(other)
    /\ handle' = [handle EXCEPT ![t] = handle[other], ![other] = Null]
    /\ UNCHANGED live

\* Mutant: operator= does not compare the handles.
AssignUnchecked(t, other) ==
    /\ Born(t) /\ Born(other)
    /\ handle' = [handle EXCEPT ![other] = Null, ![t] = handle[other]]
    /\ live' = live \ {handle[t]}

\* t = std::move(other): nothing happens when the handles are equal; they are so
\* when t and other are the same task.
MoveAssign(t, other) ==
    /\ Born(t) /\ Born(other)
    /\ IF handle[t] # handle[other]
         THEN /\ handle' = [handle EXCEPT ![other] = Null, ![t] = handle[other]]
              /\ live' = live \ {handle[t]}
         ELSE UNCHANGED hvars

\* ~ScopedCoroHandle: destroy() unless the handle is null.
Destroy(t) == /\ Born(t)
              /\ handle' = [handle EXCEPT ![t] = Unborn]
              /\ live' = live \ {handle[t]}

Next == \E t \in Tasks : \/ \E frame \in Frames : f(t, frame)
                         \/ Empty(t) \/ Destroy(t)
                         \/ \E other \in Tasks : MoveConstruct(t, other) \/ MoveAssign(t, other)

Spec == Init /\ [][Next]_hvars
-----------------------------------------------------------------------------
(* Properties *)

Owns(t) == handle[t] \notin {Null, Unborn}

\* Every frame has one owner: no handle is left of a frame that was destroyed, so
\* none is destroyed twice; no two tasks would destroy the same; and none leaks.
OneOwner == /\ \A t \in Tasks : Owns(t) => handle[t] \in live
            /\ \A t, other \in Tasks : Owns(t) /\ handle[t] = handle[other] => t = other
            /\ \A frame \in live : \E t \in Tasks : handle[t] = frame
=============================================================================
