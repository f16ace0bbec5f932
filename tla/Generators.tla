----------------------------- MODULE Generators -----------------------------
(***************************************************************************)
(* The programs in which main() drives one coroutine: generators, futures, *)
(* jobs and the basic examples.  Each is a record that says                *)
(*                                                                         *)
(*   initial, final   what initial_suspend and final_suspend return        *)
(*   owned            the return object's destructor destroys the frame    *)
(*   shared           the result lies outside the frame                    *)
(*   bodies           what the coroutine does, for each way it is called:  *)
(*      "yield"       store the next value and suspend                     *)
(*      "queue"       push the next value and go on                        *)
(*      "store"       store the next value and go on                       *)
(*      "wait"        suspend                                              *)
(*      "receive"     suspend, then read what the caller has sent          *)
(*      "take"        read what the caller has sent, without suspending    *)
(*      "ready"       a co_await that does not suspend                     *)
(*      "throw"       an exception, handed to unhandled_exception          *)
(*   before, loop, after   what main() does with the return object         *)
(*      "resume"      resume()          "resume?"  resume() unless done()  *)
(*      "read"        read the value    "result"   read what co_return set *)
(*      "send"        set what the coroutine is to read                    *)
(*      "exit?"       leave the loop if done()                             *)
(*   counted          main() runs its loop a number of times, not until     *)
(*                   it is left                                            *)
(*                                                                         *)
(* A yielded value is its number, 0 the value of a fresh promise.  Two     *)
(* bodies, of generator and simple, end without a return_void() in the     *)
(* promise, which C++ leaves undefined; as built by g++ they suspend       *)
(* finally like the others, and so do they here.                           *)
(***************************************************************************)
EXTENDS Naturals, Sequences, FiniteSets, FiniteSetsExt, SequencesExt

CONSTANT MaxValues    \* bound: values a generator is called to yield

VARIABLES program,   \* which of the programs runs, as its record
          body,      \* the body of its coroutine
          rounds,    \* how often main() runs a counted loop
          frame,     \* "none", "suspended", "done" or "freed"
          pos,       \* steps of the body that were executed
          values,    \* the value, or queue of values, in the promise
          result,    \* what co_return set: "unset", "returned", "exception"
          sent,      \* what main() has stored for the coroutine
          heard,     \* what the coroutine has read of that
          todo,      \* what main() still does, as far as it is known
          seen,      \* the values main() has read
          got        \* the results main() has read

gvars == <<program, body, rounds, frame, pos, values, result, sent, heard, todo, seen, got>>

-----------------------------------------------------------------------------
(* The programs *)

Task == [initial |-> "always", final |-> "always", owned |-> TRUE, shared |-> FALSE,
         bodies |-> {<<>>}, before |-> <<>>, loop |-> <<>>, after |-> <<>>, counted |-> FALSE]

Eager == [Task EXCEPT !.initial = "never"]

Times(n, step) == [i \in 1..n |-> step]

\* A generator's body, called to yield any number of values.
AnyNumberOf(step) == {Times(n, step) : n \in 0..MaxValues}

co_yield_simple ==
    [Eager EXCEPT !.bodies = {<<"yield">>}, !.before = <<"read", "resume", "result">>]

\* Mutant: initial_suspend returns suspend_always.
yield_lazily == [Task EXCEPT !.bodies = {Times(3, "yield")},
                             !.loop = <<"read", "resume", "exit?">>, !.after = <<"result">>]

co_yield_suspended_loop ==
    [Eager EXCEPT !.bodies = {Times(3, "yield")},
                  !.loop = <<"read", "resume", "exit?">>, !.after = <<"result">>]

co_yield_unsuspended_loop ==
    [Eager EXCEPT !.bodies = {Times(3, "queue")},
                  !.loop = <<"read", "exit?">>, !.after = <<"result">>]

\* f(5, 1) yields once and then once for every repetition.
Fibonacci == [Task EXCEPT !.bodies = AnyNumberOf("yield") \ {<<>>},
                          !.loop = <<"resume", "exit?", "read">>]

co_yield_alloc_heap  == Fibonacci
co_yield_alloc_pmr   == Fibonacci
co_yield_alloc_stack == Fibonacci

co_await_simple == [Eager EXCEPT !.bodies = {<<"receive">>},
                                 !.before = <<"send", "resume", "result">>]

co_await_simple_instant == [Eager EXCEPT !.bodies = {<<"ready">>}, !.before = <<"send", "result">>]

value_co_return == [Eager EXCEPT !.before = <<"result">>]

\* Mutant: the coroutine is not resumed.
promise_unresumed == [Task EXCEPT !.before = <<"result">>]

value_co_return_custom_promise == [Task EXCEPT !.before = <<"resume", "result">>]

\* The return value is never set, as its comment says.
value_co_return_final_suspend_never == [Task EXCEPT !.final = "never", !.before = <<"result">>]

\* An empty return object: the frame stays.
void_co_return           == [Eager EXCEPT !.owned = FALSE]
void_co_return_exception == [Eager EXCEPT !.owned = FALSE, !.bodies = {<<"throw">>}]

\* Mutant: main() goes on until it is told to stop, and nobody tells it.
endless_task == [Task EXCEPT !.bodies = AnyNumberOf("wait"), !.loop = <<"resume?">>]

basic_task == [Task EXCEPT !.bodies = AnyNumberOf("wait"), !.loop = <<"resume?", "exit?">>]

\* An endless body; main() asks rounds times.
generate_primes == [Task EXCEPT !.counted = TRUE, !.final = "never",
                                !.bodies = {Times(MaxValues + 1, "yield")},
                                !.loop = <<"resume?", "read">>]

generator == [Task EXCEPT !.bodies = AnyNumberOf("yield"), !.loop = <<"resume", "exit?", "read">>]

coroutine_chat ==
    [Task EXCEPT !.bodies = {<<"yield", "take", "store">>},
                 !.before = <<"resume?", "read", "send", "resume?", "resume?", "read">>]

\* await_ready() of its awaiter returns true, in initial_ and final_suspend too.
simple == [Eager EXCEPT !.final = "never", !.owned = FALSE, !.bodies = {Times(3, "ready")}]

\* The conversion to int rethrows what unhandled_exception has stored.
function == [Eager EXCEPT !.bodies = {<<"throw">>}, !.before = <<"result">>]

utils_generator == [Task EXCEPT !.bodies = AnyNumberOf("yield"),
                                !.loop = <<"resume?", "exit?", "read">>]

\* begin() resumes, operator++ too; operator== is done().
generator_range == [Task EXCEPT !.bodies = AnyNumberOf("yield"), !.before = <<"resume">>,
                                !.loop = <<"exit?", "read", "resume">>]

\* get() twice; the second one does not run the coroutine again.
lazy_function == [Task EXCEPT !.before = <<"resume?", "result", "resume?", "result">>]

routine == [Eager EXCEPT !.final = "never", !.owned = FALSE]

\* main() asks for no more values than the container has.
coroutineGetElements == [Task EXCEPT !.counted = TRUE, !.bodies = {Times(MaxValues, "yield")},
                                     !.loop = <<"resume", "read">>]

infiniteDataStream         == [Task EXCEPT !.counted = TRUE, !.bodies = {Times(MaxValues + 1, "yield")},
                                           !.loop = <<"resume", "read">>]
infiniteDataStreamComments == infiniteDataStream

\* The second one resumes on a thread that it joins at once.
lazyFuture              == [Task EXCEPT !.before = <<"resume", "result">>]
lazyFutureOnOtherThread == lazyFuture

\* The result lies behind a shared_ptr and outlives the frame.
eagerFuture == [Eager EXCEPT !.final = "never", !.owned = FALSE, !.shared = TRUE,
                             !.before = <<"result">>]

\* The awaiter of initial_suspend is ready, or resumes the job itself.
startJobWithAutomaticResumption == [Eager EXCEPT !.bodies = {<<"ready">>}]

startJobWithComments == [Task EXCEPT !.bodies = {<<"ready">>}, !.before = <<"resume">>]

Programs == {co_yield_simple, co_yield_suspended_loop, co_yield_unsuspended_loop,
    co_yield_alloc_heap, co_yield_alloc_pmr, co_yield_alloc_stack, co_await_simple,
    co_await_simple_instant, value_co_return, value_co_return_custom_promise,
    value_co_return_final_suspend_never, void_co_return, void_co_return_exception,
    basic_task, generate_primes, generator, coroutine_chat, simple, function,
    utils_generator, generator_range, lazy_function, routine, coroutineGetElements,
    infiniteDataStream, infiniteDataStreamComments, lazyFuture, lazyFutureOnOtherThread,
    eagerFuture, startJobWithAutomaticResumption, startJobWithComments}

-----------------------------------------------------------------------------
(* The coroutine *)

Suspending == {"yield", "wait", "receive"}
Yielding   == {"yield", "queue", "store"}

\* The number of values in the first n steps of the body.
Yielded(n) == Cardinality({i \in 1..n : body[i] \in Yielding})

\* Where the coroutine stops next: a step that suspends or leaves the body, or
\* the end of the body.
Stop == Min({i \in (pos + 1)..Len(body) : body[i] \in Suspending \cup {"throw"}} \cup {Len(body) + 1})

\* The coroutine runs until it suspends; at the end of its body the result is
\* set, and the frame waits finally or is freed.
Run == LET ran   == {i \in (pos + 1)..Len(body) : i <= Stop}
           ended == Stop > Len(body) \/ body[Stop] = "throw"
       IN  /\ pos' = Max({pos} \cup ran)
           /\ values' = IF \E i \in ran : body[i] = "queue"
                          THEN values \o [i \in 1..(Yielded(Max(ran)) - Yielded(pos)) |-> Yielded(pos) + i]
                          ELSE IF \E i \in ran : body[i] \in Yielding
                          THEN <<Yielded(Max(ran))>> ELSE values
           /\ heard' = IF (pos > 0 /\ body[pos] = "receive") \/ \E i \in ran : body[i] = "take"
                         THEN sent ELSE heard
           /\ result' = CASE ended /\ Stop > Len(body) -> "returned"
                          [] ended /\ Stop <= Len(body) -> "exception"
                          [] OTHER -> result
           /\ frame' = CASE ~ended -> "suspended"
                         [] ended /\ program.final = "always" -> "done"
                         [] ended /\ program.final = "never" -> "freed"

-----------------------------------------------------------------------------
(* main() *)

\* Does main() repeat its loop until it leaves it on done()?
UntilDone == program.loop # <<>> /\ ~program.counted

Repeat(n, ops) == FlattenSeq(Times(n, ops))

Init == /\ program \in Programs
        /\ body \in program.bodies
        /\ rounds \in IF program.loop = <<>> \/ UntilDone THEN {0} ELSE 1..MaxValues
        /\ frame = "none"
        /\ pos = 0
        /\ values = IF "queue" \in ToSet(body) THEN <<>> ELSE <<0>>
        /\ result = "unset"
        /\ sent = "nothing"
        /\ heard = "nothing"
        /\ todo = <<"call">> \o program.before \o
                     IF UntilDone THEN program.loop
                     ELSE Repeat(rounds, program.loop) \o program.after \o <<"leave">>
        /\ seen = <<>>
        /\ got = {}

\* main() does its next operation; a loop that is not left starts again.
Do(op) == /\ todo # <<>>
          /\ Head(todo) = op
          /\ todo' = IF UntilDone /\ Tail(todo) = <<>> /\ op # "leave" THEN program.loop ELSE Tail(todo)
          /\ UNCHANGED <<program, body, rounds>>

\* The call makes the frame, and runs the coroutine unless it suspends at once.
Call == /\ Do("call")
        /\ IF program.initial = "always"
             THEN frame' = "suspended" /\ UNCHANGED <<pos, values, result, heard>>
             ELSE Run
        /\ UNCHANGED <<sent, seen, got>>

Resume == /\ Do("resume")
          /\ Run
          /\ UNCHANGED <<sent, seen, got>>

ResumeUnlessDone == /\ Do("resume?")
                    /\ IF frame = "done" THEN UNCHANGED <<frame, pos, values, result, heard>> ELSE Run
                    /\ UNCHANGED <<sent, seen, got>>

Read == /\ Do("read")
        /\ seen' = seen \o values
        /\ UNCHANGED <<frame, pos, values, result, sent, heard, got>>

ReadResult == /\ Do("result")
              /\ got' = got \cup {result}
              /\ UNCHANGED <<frame, pos, values, result, sent, heard, seen>>

Send == /\ Do("send")
        /\ sent' = "message"
        /\ UNCHANGED <<frame, pos, values, result, heard, seen, got>>

ExitIfDone == /\ IF frame = "done"
                   THEN /\ todo # <<>> /\ Head(todo) = "exit?"
                        /\ todo' = program.after \o <<"leave">>
                        /\ UNCHANGED <<program, body, rounds>>
                   ELSE Do("exit?")
              /\ UNCHANGED <<frame, pos, values, result, sent, heard, seen, got>>

\* The return object, if it owns the frame, destroys it.
Leave == /\ Do("leave")
         /\ frame' = IF program.owned THEN "freed" ELSE frame
         /\ UNCHANGED <<pos, values, result, sent, heard, seen, got>>

Next == \/ Call \/ Resume \/ ResumeUnlessDone \/ Read \/ ReadResult \/ Send
        \/ ExitIfDone \/ Leave

\* main() goes on.
Spec == Init /\ [][Next]_gvars /\ WF_gvars(Next)
-----------------------------------------------------------------------------
(* Properties *)

\* main() never touches a frame that is gone, resumes none that waits finally,
\* and destroys none twice.
FrameInUse ==
    todo # <<>> =>
      CASE Head(todo) = "resume" -> frame = "suspended"
        [] Head(todo) \in {"resume?", "read", "send", "exit?"} -> frame \in {"suspended", "done"}
        [] Head(todo) = "result" -> program.shared \/ frame \in {"suspended", "done"}
        [] Head(todo) = "leave" -> program.owned => frame # "freed"
        [] OTHER -> frame = "none"

\* main() reads the values in the order they are yielded, none twice, none
\* before it is there, and none is overwritten before main() has read it.
ReadInOrder == seen = [i \in 1..Len(seen) |-> i]

\* In the end main() has read every value that was yielded, or as many as it
\* asked for.
AllRead == todo = <<>> => Len(seen) = IF rounds = 0 THEN Yielded(Len(body)) ELSE rounds

\* A result is read only after co_return or an exception has set it, however
\* often it is read; only value_co_return_final_suspend_never goes without.
ResultIsSet == got \subseteq IF program = value_co_return_final_suspend_never
                               THEN {"unset"} ELSE {"returned", "exception"}

\* What the coroutine reads is what main() has sent before.
HearsMessage == \A i \in 1..pos : body[i] \in {"receive", "take"} /\ (i < pos \/ frame = "done")
                    => heard = "message"

\* No frame outlives main()'s use of it but those of the two void examples,
\* whose return object is empty while final_suspend waits.
NoFrameLeft == todo = <<>> =>
    (frame = "freed") # (program \in {void_co_return, void_co_return_exception})

\* What every program must come to.
Left == todo = <<>>
=============================================================================
