-------------------------- MODULE LifetimePrograms --------------------------
(***************************************************************************)
(* Programs about threads that use what belongs to others: arguments by    *)
(* reference, results through promises, coroutines that are resumed by     *)
(* another thread than the one that owns their frames, and a default       *)
(* memory resource that outlives the function it belongs to.               *)
(***************************************************************************)
EXTENDS ThreadCode

-----------------------------------------------------------------------------
(* Threads and their objects *)

threadCreate ==
    [Program EXCEPT !.code = ForkJoin(<<>>, <<<<Say(1)>>, <<Say(2)>>, <<Say(3)>>>>, <<>>),
                    !.prints = 2 :> {<<1>>} @@ 3 :> {<<2>>} @@ 4 :> {<<3>>}]

\* t = std::move(t2), while t is joinable, and after it was joined.
threadMoved == [Program EXCEPT !.code = <<<<Start(2), Start(3), Drop(2), Join(3)>>, <<>>, <<>>>>,
                               !.ends = {"terminates"}]

threadMovedSolved == [Program EXCEPT !.code = <<<<Start(2), Start(3), Join(2), Drop(2), Join(3)>>, <<>>, <<>>>>]

threadJoinable  == [Program EXCEPT !.code = <<<<Start(2), Drop(2)>>, <<>>>>, !.ends = {"terminates"}]
jthreadJoinable == [Program EXCEPT !.code = <<<<Start(2), Join(2), Drop(2)>>, <<>>>>]

\* The detached thread adds to a variable of main(), which prints it.  Six
\* additions there, here two.
threadArguments ==
    [Program EXCEPT !.code = <<<<Start(2), Detach(2), Show(Load("valSleeper", "plain")),
                                 Free("valSleeper"), Exit>>,
                               Times(2, Add("valSleeper", 5))>>,
                    !.mem = [valSleeper |-> 1000, statics |-> 0], !.unsafe = {"valSleeper"},
                    !.prints = 1 :> {<<1000>>, <<1005>>, <<1010>>}]

\* The detached thread prints a string of main().
lifetimeIssues ==
    [Program EXCEPT !.code = <<<<Start(2), Detach(2), Free("mess"), Exit>>, <<Load("mess", "plain")>>>>,
                    !.mem = [mess |-> 0, statics |-> 0], !.unsafe = {"mess"}]

\* The first thread has a copy of the variable, the others refer to it.
copiedValueDataRace ==
    [Program EXCEPT !.code = <<<<Start(2), Start(3), Start(4), Store("shared", "plain", 1),
                                 Join(2), Join(3), Join(4)>>,
                               <<Say(0)>>, <<Show(Load("shared", "plain"))>>, <<Show(Load("shared", "plain"))>>>>,
                    !.mem = [shared |-> 0], !.unsafe = {"shared"}, !.always = {"shared"},
                    !.prints = 2 :> {<<0>>} @@ 3 :> {<<0>>, <<1>>} @@ 4 :> {<<0>>, <<1>>}]

-----------------------------------------------------------------------------
(* Promises and futures *)

promiseFuture ==
    [Program EXCEPT !.code = <<<<Start(2), Start(3), Show(Get("prodResult")), Show(Get("divResult")),
                                 Join(2), Join(3)>>,
                               <<SetValue("prodResult", 200)>>, <<SetValue("divResult", 2)>>>>,
                    !.mem = [prodResult |-> 0, divResult |-> 0], !.prints = 1 :> {<<200, 2>>}]

\* A divisor of 0 makes the result an exception.
Exception == -1

Div(a, b) == <<SetValue("divResult", IF b = 0 THEN Exception ELSE a \div b)>>

promiseFutureException ==
    [Program EXCEPT !.code = <<<<Start(2), Show(Get("divResult")), Join(2)>>, Div(20, 0)>>,
                    !.mem = [divResult |-> 0], !.prints = 1 :> {<<Exception>>}]

\* Five requestors there; each waits while it has locked the output.
Requestor == Guarded("coutMutex", <<Show(Get("divResult"))>>)

\* Mutant: the divider locks the output, too.
divider_locking == Guarded("coutMutex", Div(20, 10))

divider == Div(20, 10)

sharedFuture ==
    [Program EXCEPT !.code = ForkJoin(<<>>, <<divider, Requestor, Requestor, Requestor>>, <<>>),
                    !.mem = [divResult |-> 0], !.locks = {"coutMutex"},
                    !.prints = [t \in 3..5 |-> {<<2>>}]]

\* At most two timeouts here; it says something else after each, and once more
\* when the result is there.
waitFor ==
    [Program EXCEPT
        !.code = <<<<Start(2)>> \o If("fut", "acquire", {0}, <<Say(0)>> \o If("fut", "acquire", {0}, <<Say(0)>>))
                      \o <<Get("fut"), Say(0), Show(Get("fut")), Join(2)>>,
                   <<SetValue("fut", 42)>>>>,
        !.mem = [fut |-> 0], !.prints = 1 :> {<<0, 42>>, <<0, 0, 42>>, <<0, 0, 0, 42>>}]

\* atomicBool.wait(false)
atomicWait ==
    [Program EXCEPT !.code = ForkJoin(<<>>, <<<<Await("atomicBool", "seq_cst", {0}), Say(1)>>,
                                              <<Store("atomicBool", "seq_cst", 1)>>>>, <<>>),
                    !.mem = [atomicBool |-> 0], !.prints = 2 :> {<<1>>}]

\* get_future() throws when it is called twice without a reset(); four pairs
\* there.
calcProduct(result) ==
    If("retrieved", "plain", {1}, <<Throw>>)
        \o <<Store("retrieved", "plain", 1), SetValue("task", result), Show(Get("task")),
             Store("task", "plain", 0), Store("retrieved", "plain", 0)>>

packagedTaskReuse ==
    [Program EXCEPT !.code = <<calcProduct(2) \o calcProduct(6) \o <<Start(2), Join(2)>>,
                               calcProduct(2) \o calcProduct(6)>>,
                    !.mem = [retrieved |-> 0, task |-> 0],
                    !.prints = 1 :> {<<2, 6>>} @@ 2 :> {<<2, 6>>}]

-----------------------------------------------------------------------------
(* Coroutines *)

\* await_suspend() detaches a thread that resumes the coroutine, which returns a
\* value and waits finally; main() sleeps, reads the value and destroys the frame.
ResumedByDetached(order) ==
    [Program EXCEPT
        !.code = <<<<Store("frame", "plain", 1), Start(2), Detach(2), Show(Load("mReturnedValue", order)),
                     Free("mReturnedValue"), Free("frame"), Exit>>,
                   <<Load("frame", "plain"), Store("mReturnedValue", order, 42), Store("frame", "plain", 2)>>>>,
        !.mem = [frame |-> 0, mReturnedValue |-> 0, statics |-> 0],
        !.unsafe = {"frame", "mReturnedValue"}, !.prints = 1 :> {<<0>>, <<42>>}]

co_await_external  == ResumedByDetached("plain")
co_await_transform == ResumedByDetached("seq_cst")

\* await_suspend() assigns the new thread to the reference that its awaiter holds,
\* in the frame, which the new thread destroys when it has resumed the coroutine.
\* Two of the eight jobs, both of which suspend.
Suspended(frame, t) == <<Store(frame, "plain", 1), Start(t), Load(frame, "plain")>>
Resumed(frame)      == <<Load(frame, "plain"), Free(frame)>>

startJobWithAutomaticResumptionOnThread ==
    [Program EXCEPT
        !.code = <<Suspended("frame2", 2) \o Suspended("frame3", 3) \o <<Join(2), Join(3)>>,
                   Resumed("frame2"), Resumed("frame3")>>,
        !.mem = [frame2 |-> 0, frame3 |-> 0],
        !.unsafe = {"frame2", "frame3"}, !.always = {"frame2", "frame3"}]

\* createTask() keeps a reference to its argument, a temporary string, which is
\* gone when the scheduler resumes it for the first time.
createTask ==
    [Program EXCEPT
        !.code = <<<<Store("TaskA", "plain", 1), Free("TaskA"), Store("TaskB", "plain", 1), Free("TaskB")>>
                      \o Times(3, <<Load("TaskB", "plain")>>) \o Times(3, <<Load("TaskA", "plain")>>)>>,
        !.mem = [TaskA |-> 0, TaskB |-> 0],
        !.unsafe = {"TaskA", "TaskB"}, !.always = {"TaskA", "TaskB"}]

-----------------------------------------------------------------------------
(* Memory resources.  The default one is 0 for the null resource, 1 for the *)
(* pool, 2 for new and delete, and 3 for the monotonic one.                 *)

\* The vector of 1729 ints grows by doubling, and its buffer is not used twice.
Allocated == 4 * (2^12 - 1)

\* using_memory_arenas() leaves the default resource pointing to its pool, which
\* is gone when the next function makes it the upstream of its monotonic
\* resource: that uses it when its buffer of a megabyte is exhausted.
memory_arena ==
    [Program EXCEPT
        !.code = <<<<Store("default", "plain", 1), Load("default", "plain"), Free("pool"),
                     Load("default", "plain")>>
                      \o (IF Allocated > 2^20 THEN <<Load("pool", "plain")>> ELSE <<>>)
                      \o <<Store("default", "plain", 0)>>
                      \o If("default", "plain", {0}, <<Say(0)>>)
                      \o <<Store("default", "plain", 2), Load("default", "plain"),
                           Store("default", "plain", 3), Store("monotonic", "plain", 1),
                           Free("monotonic"), Exit>>>>,
        !.mem = [default |-> 2, pool |-> 0, monotonic |-> 0, statics |-> 0],
        !.prints = 1 :> {<<0>>}]

LifetimeCatalogue ==
    <<threadCreate, threadMoved, threadMovedSolved, threadJoinable,
      jthreadJoinable, threadArguments, lifetimeIssues, copiedValueDataRace,
      promiseFuture, promiseFutureException, sharedFuture, waitFor,
      atomicWait, packagedTaskReuse, co_await_external, co_await_transform,
      startJobWithAutomaticResumptionOnThread, createTask, memory_arena>>
=============================================================================
