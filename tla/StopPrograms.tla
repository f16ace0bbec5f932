---------------------------- MODULE StopPrograms ----------------------------
(***************************************************************************)
(* Threads that are asked to stop: by polling a stop token, or with a      *)
(* callback.  A stop state is a flag; request_stop() executes the callback *)
(* in the thread that calls it, and a stop_callback that is destroyed      *)
(* meanwhile waits for its end.  One that is constructed after the request *)
(* executes the callback itself.                                           *)
(***************************************************************************)
EXTENDS ThreadCode

\* A request nobody has a callback for, and the destructor of a jthread.
RequestStop(stop)  == Exchange(stop, "acq_rel", 1)
StopAndJoin(stop, t) == <<RequestStop(stop), Join(t)>>

\* A loop of bodies that is left when the token says so.
UntilStopped(stop, bodies) ==
    FoldRight(LAMBDA body, rest : If(stop, "acquire", {0}, body \o rest), bodies, <<>>)

-----------------------------------------------------------------------------
(* Polling *)

\* Ten iterations of two threads; here two.
interruptJthread ==
    [Program EXCEPT
        !.code = <<<<Start(2), Start(3), RequestStop("stop2"), RequestStop("stop3")>>
                      \o StopAndJoin("stop3", 3) \o StopAndJoin("stop2", 2),
                   <<Say(0), Say(1)>>,
                   UntilStopped("stop3", <<<<Say(0)>>, <<Say(1)>>>>)>>,
        !.mem = [stop2 |-> 0, stop3 |-> 0],
        !.prints = 2 :> {<<0, 1>>} @@ 3 :> {<<>>, <<0>>, <<0, 1>>}]

interrupt_jthread == interruptJthread

\* The threads add to the elements until they are stopped, which the
\* destructor of the vector of threads does one after the other.
AddToAll(stop) == UntilStopped(stop, <<<<FetchAdd("v0", "seq_cst", 1)>>, <<FetchAdd("v1", "seq_cst", 1)>>>>)

randomInitStopToken ==
    [Program EXCEPT
        !.code = <<<<Start(2), Start(3)>> \o StopAndJoin("stop2", 2) \o StopAndJoin("stop3", 3)
                      \o <<Show(Load("v0", "plain")), Show(Load("v1", "plain"))>>,
                   AddToAll("stop2"), AddToAll("stop3")>>,
        !.mem = [v0 |-> 0, v1 |-> 0, stop2 |-> 0, stop3 |-> 0],
        !.prints = 1 :> {ab \in (0..2) \X (0..2) : ab[2] <= ab[1]}]

-----------------------------------------------------------------------------
(* Callbacks.  A callback is not there yet (0), registered (1), executed   *)
(* (2), done (3), or to be executed by the constructor (4).                *)

Register(stop, cb, body) ==
    Guarded("stopState", If(stop, "relaxed", {0}, <<Store(cb, "relaxed", 1)>>)
                            \o If(stop, "relaxed", {1}, <<Store(cb, "relaxed", 4)>>))
        \o If(cb, "relaxed", {4}, body)

RequestWithCallback(stop, cb, body) ==
    Guarded("stopState", <<Store(stop, "release", 1)>>
                            \o If(cb, "relaxed", {1}, <<Store(cb, "relaxed", 2)>>))
        \o If(cb, "relaxed", {2}, body \o <<Store(cb, "release", 3)>>)

Deregister(cb) ==
    Guarded("stopState", If(cb, "relaxed", {1}, <<Store(cb, "relaxed", 0)>>))
        \o <<Await(cb, "acquire", {2})>>

\* The callback reads a counter of the function that registers it.
Callback(counter) == <<Show(Load(counter, "seq_cst"))>>

\* Mutant: the counter is declared after the stop_callback, and goes before it.
free_first(counter, stop, cb) ==
    Register(stop, cb, Callback(counter)) \o Times(2, <<FetchAdd(counter, "seq_cst", 1)>>)
        \o <<Free(counter)>> \o Deregister(cb)

func(counter, stop, cb) ==
    Register(stop, cb, Callback(counter)) \o Times(2, <<FetchAdd(counter, "seq_cst", 1)>>)
        \o Deregister(cb) \o <<Free(counter)>>

\* Ten threads there, each with a stop state of its own.
invokeCallback ==
    [Program EXCEPT
        !.code = <<<<Start(2)>> \o RequestWithCallback("stop", "cb", Callback("counter"))
                      \o StopAndJoin("stop", 2),
                   func("counter", "stop", "cb")>>,
        !.mem = [counter |-> 0, stop |-> 0, cb |-> 0], !.locks = {"stopState"},
        !.prints = 1 :> {<<>>, <<0>>, <<1>>, <<2>>} @@ 2 :> {<<>>, <<0>>}]

\* One stop state for two functions that poll, a task and a callback.
function1 == If("stop", "acquire", {1}, <<Say(1)>>)

SayStopped == <<Store("called", "relaxed", 1), Show(Load("str", "plain"))>>

\* Mutant: the function polls the token too, as function1 does.
say_twice == <<Store("str", "plain", 2)>> \o Register("stop", "cb", SayStopped)
                \o If("stop", "acquire", {1}, SayStopped)
                \o <<SetValue("prom", 1)>> \o Deregister("cb") \o <<Free("str")>>

function2 == <<Store("str", "plain", 2)>> \o Register("stop", "cb", SayStopped)
                \o <<SetValue("prom", 1)>> \o Deregister("cb") \o <<Free("str")>>

signalStopRequests ==
    [Program EXCEPT
        !.code = <<<<Start(2), Start(3), Start(4), Start(5)>>
                      \o RequestWithCallback("stop", "cb", SayStopped) \o function1
                      \o <<Join(2), Join(5), Join(4), Join(3)>>,
                   function1, function1, function1, function2>>,
        !.mem = [stop |-> 0, cb |-> 0, str |-> 0, prom |-> 0, called |-> 0],
        !.locks = {"stopState"}, !.once = {"called"},
        !.prints = [t \in 2..4 |-> {<<>>, <<1>>}] @@ 1 :> {<<1>>, <<2, 1>>} @@ 5 :> {<<>>, <<2>>}]

stop_jthread == signalStopRequests

\* interrupt_jthread and stop_jthread are the same here as two of these.
StopCatalogue ==
    <<interruptJthread, randomInitStopToken, invokeCallback,
      signalStopRequests>>
=============================================================================
