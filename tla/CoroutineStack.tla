--------------------------- MODULE CoroutineStack ---------------------------
(***************************************************************************)
(* The programs in which a coroutine co_awaits another one:                *)
(*                                                                         *)
(*   "crsm"       the coroutine state machine of crsm/main.cpp             *)
(*   "awaitable"  utils/awaitable_coroutines/main.cpp                      *)
(*   "recursion"  recursion/main.cpp                                       *)
(*                                                                         *)
(* The first two transfer control: the awaiting coroutine starts the       *)
(* awaited one, whose final suspension resumes the one that awaits it.  In *)
(* "recursion" every suspension returns to main(), and nextStep() finds    *)
(* the coroutine to resume by following nextHandle from the root.          *)
(*                                                                         *)
(* A frame is named by its place in the order of creation.  An awaited     *)
(* coroutine is a temporary of the co_await expression, so its frame is    *)
(* destroyed when the awaiting one is resumed.                             *)
(***************************************************************************)
EXTENDS Integers, Sequences, SequencesExt

CONSTANT Nums    \* the numbers main() calls the first function with

VARIABLES kind,       \* which of the programs runs
          frames,     \* the frames, in the order of their creation
          running,    \* the frame that runs, 0 for main()
          trace       \* where bodies began and ended, as <<function, "begin">>

cvars == <<kind, frames, running, trace>>

Transfers == kind \in {"crsm", "awaitable"}

\* The functions, each with its argument.
Functions == {"fun1", "fun2", "fun3", "parent", "other_parent", "child", "child_func"} \X Int

\* The functions each body co_awaits, in order.
Calls(f) ==
    CASE f[1] = "fun1" -> IF f[2] > 3 THEN <<<<"fun2", f[2] - 3>>>> ELSE <<<<"fun3", 7>>>>
      [] f[1] = "fun2" -> IF kind = "crsm" THEN <<<<"fun1", f[2] - 2>>>>
                                           ELSE <<<<"fun1", f[2] - 2>>, <<"fun3", f[2]>>>>
      [] f[1] = "fun3" -> IF f[2] > 0 THEN <<<<"fun3", f[2] - 2>>>> ELSE <<>>
      [] f[1] = "parent" -> <<<<"child", 0>>>>
      [] f[1] = "other_parent" -> <<<<"child_func", 0>>>>
      [] f[1] \in {"child", "child_func"} -> <<>>

\* A frame: its function, how many of its co_awaits it has begun, its state, the
\* frame it awaits, and its nextHandle or continuation_; 0 where there is none.
Frame(f, next) == [function |-> f, begun |-> 0, state |-> "live", awaits |-> 0, next |-> next]

Root == 1

Init == /\ kind \in {"crsm", "awaitable", "recursion"}
        /\ \E f \in IF kind = "awaitable" THEN {"parent", "other_parent"} \X {0} ELSE {"fun1"} \X Nums :
              frames = <<Frame(f, 0)>>
        /\ running = 0
        /\ trace = <<>>

-----------------------------------------------------------------------------
(* Resuming a coroutine *)

\* The frames fs when f is resumed: a co_await expression ends, and with it the
\* temporary it awaited.
Destroyed(fs, f) == IF fs[f].awaits = 0 THEN fs
                    ELSE [fs EXCEPT ![fs[f].awaits].state = "freed", ![f].awaits = 0]

\* f runs, where fs are the frames; a body begins when it is resumed first.
Resume(fs, f, log) ==
    /\ running' = f
    /\ frames' = Destroyed(fs, f)
    /\ trace' = IF fs[f].begun = 0 THEN Append(log, <<fs[f].function, "begin">>) ELSE log

BackToMain(fs, log) == running' = 0 /\ frames' = fs /\ trace' = log

\* The loop in nextStep(): the deepest coroutine that is not done.
Deepest[f \in DOMAIN frames] ==
    IF frames[f].next = 0 \/ frames[frames[f].next].state = "done" THEN f
    ELSE Deepest[frames[f].next]

\* main(): start(), run_until_completion() or nextStep().
MainResumes == /\ running = 0 /\ frames[Root].state = "live"
               /\ Resume(frames, IF Transfers THEN Root ELSE Deepest[Root], trace)
               /\ UNCHANGED kind

\* The destructor of machine, or of the temporary that main() ran.
MainLeaves == /\ running = 0 /\ frames[Root].state = "done"
              /\ frames' = [frames EXCEPT ![Root].state = "freed"]
              /\ UNCHANGED <<kind, running, trace>>

-----------------------------------------------------------------------------
(* The body that runs *)

\* The next co_await: the awaited coroutine is created, and await_suspend links
\* the two.
Await == /\ running # 0
         /\ LET f    == running
                sub  == Len(frames) + 1
                mine == [frames[f] EXCEPT !.begun = @ + 1, !.awaits = sub]
                todo == Calls(frames[f].function)
            IN  /\ mine.begun <= Len(todo)
                /\ IF Transfers
                     THEN Resume(Append([frames EXCEPT ![f] = mine], Frame(todo[mine.begun], f)), sub, trace)
                     ELSE BackToMain(Append([frames EXCEPT ![f] = [mine EXCEPT !.next = sub]],
                                            Frame(todo[mine.begun], 0)), trace)
         /\ UNCHANGED kind

\* Mutant: final_suspend returns suspend_always in place of a FinalAwaiter.
FinishAlone == /\ running # 0
               /\ frames[running].begun = Len(Calls(frames[running].function))
               /\ BackToMain([frames EXCEPT ![running].state = "done"],
                             Append(trace, <<frames[running].function, "end">>))
               /\ UNCHANGED kind

\* Mutant: final_suspend does not suspend, and the frame frees itself.
FinishFreeing ==
    /\ running # 0
    /\ frames[running].begun = Len(Calls(frames[running].function))
    /\ LET caller == frames[running].next
           gone   == [frames EXCEPT ![running].state = "freed"]
           log    == Append(trace, <<frames[running].function, "end">>)
       IN  IF Transfers /\ caller # 0 THEN Resume(gone, caller, log) ELSE BackToMain(gone, log)
    /\ UNCHANGED kind

\* The end of the body: the FinalAwaiter resumes the coroutine that awaits this
\* one; without one, and in "recursion", control goes back to main().
Finish == /\ running # 0
          /\ frames[running].begun = Len(Calls(frames[running].function))
          /\ LET caller == frames[running].next
                 done   == [frames EXCEPT ![running].state = "done"]
                 log    == Append(trace, <<frames[running].function, "end">>)
             IN  IF Transfers /\ caller # 0 THEN Resume(done, caller, log) ELSE BackToMain(done, log)
          /\ UNCHANGED kind

Next == MainResumes \/ MainLeaves \/ Await \/ Finish

\* main() and the coroutines go on.
Spec == Init /\ [][Next]_cvars /\ WF_cvars(Next)
-----------------------------------------------------------------------------
(* Properties *)

\* The frames nextStep() looks at on its way from f.
Visited[f \in DOMAIN frames] ==
    {f} \cup IF frames[f].next = 0 THEN {}
             ELSE IF frames[frames[f].next].state = "live" THEN Visited[frames[f].next]
             ELSE {frames[f].next}

\* A nextHandle may point to a frame that is gone, but neither nextStep() nor a
\* final suspension ever follows it, and no finished coroutine is resumed.
HandlesAlive ==
    /\ running # 0 => /\ frames[running].state = "live"
                      /\ Transfers /\ frames[running].next # 0 => frames[frames[running].next].state = "live"
    /\ running = 0 /\ ~Transfers /\ frames[Root].state = "live" =>
          \A f \in Visited[Root] : frames[f].state # "freed"

\* The trace of the same functions as ordinary recursive ones.
Called[f \in Functions] ==
    <<<<f, "begin">>>> \o FlattenSeq([i \in DOMAIN Calls(f) |-> Called[Calls(f)[i]]])
                       \o <<<<f, "end">>>>

\* co_await on a coroutine is a call: bodies begin and end as those of ordinary
\* functions would, whichever way control is passed on.
AwaitsAreCalls == frames[Root].state = "freed" => trace = Called[frames[Root].function]

\* An awaited coroutine is destroyed before its caller's next co_await, and in
\* the end no frame is left.
FramesNested ==
    /\ \A f \in DOMAIN frames : frames[f].state # "freed" /\ f # Root
          => \E g \in DOMAIN frames : frames[g].awaits = f /\ frames[g].state # "freed"
    /\ frames[Root].state = "freed" => \A f \in DOMAIN frames : frames[f].state = "freed"

\* What every program must come to.
MachineLeft == frames[Root].state = "freed"
=============================================================================
