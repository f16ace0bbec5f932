------------------------------ MODULE CallStack ------------------------------
(***************************************************************************)
(* What nested asynchronous functions promise their authors                *)
(* (coroutines/nested/main.cpp): calls and returns as on an ordinary call  *)
(* stack, where the function on top may also ask for data and goes on when *)
(* the scheduler supplies it.                                              *)
(***************************************************************************)
EXTENDS Naturals, Sequences

CONSTANTS Values,   \* data and return values
          None      \* no value yet

VARIABLES stack,    \* the activations, each the last value it received
          mode,     \* "idle", "run", "wait" or "done"
          result    \* what the outermost function returned

cvars == <<stack, mode, result>>

Init == stack = <<>> /\ mode = "idle" /\ result = None

Start == /\ mode = "idle"
         /\ mode' = "run"
         /\ stack' = <<None>>
         /\ UNCHANGED result

Call == /\ mode = "run"
        /\ stack' = Append(stack, None)
        /\ UNCHANGED <<mode, result>>

\* co_await GetData{}: the whole stack is suspended.
Ask == mode = "run" /\ mode' = "wait" /\ UNCHANGED <<stack, result>>

\* resumeWithData(d): the function that asked receives d.
Supply(d) == /\ mode = "wait"
             /\ mode' = "run"
             /\ stack' = [stack EXCEPT ![Len(stack)] = d]
             /\ UNCHANGED result

\* The caller receives what the callee returned.
Return(v) == /\ mode = "run"
             /\ \/ /\ Len(stack) > 1
                   /\ stack' = [SubSeq(stack, 1, Len(stack) - 1) EXCEPT ![Len(stack) - 1] = v]
                   /\ UNCHANGED <<mode, result>>
                \/ /\ Len(stack) = 1
                   /\ stack' = <<>>
                   /\ mode' = "done"
                   /\ result' = v

Next == Start \/ Call \/ Ask \/ \E v \in Values : Supply(v) \/ Return(v)

Spec == Init /\ [][Next]_cvars
=============================================================================
