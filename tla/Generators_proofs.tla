-------------------------- MODULE Generators_proofs --------------------------
(***************************************************************************)
(* Proofs about the examples in which main() drives one coroutine.  They   *)
(* hold for generators that yield any number of values.                    *)
(***************************************************************************)
EXTENDS CoroutinePrograms_proofs

-----------------------------------------------------------------------------
(* Where a coroutine stops *)

\* A body, and how much of it was executed.
Executing == Len(body) \in Nat /\ pos \in 0..Len(body)

\* The next step that suspends or leaves the body, or its end, is at s.
StopsAt(s) == /\ s \in (pos + 1)..(Len(body) + 1)
              /\ s <= Len(body) => body[s] \in One!Suspending \cup {"throw"}
              /\ \A i \in (pos + 1)..(s - 1) : body[i] \notin One!Suspending \cup {"throw"}

\* What is executed when it stops at s.
Upto(s) == IF s <= Len(body) THEN s ELSE Len(body)

LEMMA StopFound == ASSUME Executing, NEW s, StopsAt(s) PROVE One!Stop = s
<1> DEFINE n == Len(body)
           S == {i \in (pos + 1)..n : body[i] \in One!Suspending \cup {"throw"}} \cup {n + 1}
<1>1. s \in S /\ \A i \in S : s <= i
  <2>1. n \in Nat /\ pos \in 0..n
    BY DEF Executing
  <2>2. s \in S
    BY <2>1 DEF StopsAt
  <2>3. ASSUME NEW i \in S, ~(s <= i) PROVE FALSE
    BY <2>1, <2>3 DEF StopsAt
  <2> QED
    BY <2>2, <2>3
<1>2. S \subseteq Nat
  BY DEF Executing
<1>3. One!Stop = One!Min(S)
  BY DEF One!Stop
<1> HIDE DEF S
<1>4. One!Min(S) = s
  <2>1. \A i \in S : i \in Nat /\ s \in Nat
    BY <1>1, <1>2
  <2>2. One!Min(S) = CHOOSE x \in S : \A y \in S : x <= y
    BY DEF One!Min
  <2> QED
    BY <1>1, <2>1, <2>2
<1> QED
  BY <1>3, <1>4

\* The largest of an interval.
LEMMA LargestOf == ASSUME NEW a \in Nat, NEW b \in Nat, a <= b
                   PROVE  /\ One!Max({a} \cup (a + 1)..b) = b
                          /\ a < b => One!Max((a + 1)..b) = b
<1>1. ASSUME NEW S, S \subseteq Nat, b \in S, \A i \in S : i <= b PROVE One!Max(S) = b
  <2>1. One!Max(S) = CHOOSE x \in S : \A y \in S : x >= y
    BY DEF One!Max
  <2>2. ASSUME NEW x \in S, \A y \in S : x >= y PROVE x = b
    <3>1. x \in Nat /\ x <= b /\ x >= b
      BY <1>1, <2>2
    <3> QED
      BY <3>1
  <2>3. b \in S /\ \A y \in S : b >= y
    <3>1. ASSUME NEW y \in S PROVE b >= y
      <4>1. y \in Nat /\ y <= b
        BY <1>1
      <4> QED
        BY <4>1
    <3> QED
      BY <1>1, <3>1
  <2> QED
    BY <2>1, <2>2, <2>3
<1>2. One!Max({a} \cup (a + 1)..b) = b
  <2> DEFINE S == {a} \cup (a + 1)..b
  <2>1. S \subseteq Nat /\ b \in S /\ \A i \in S : i <= b
    OBVIOUS
  <2> HIDE DEF S
  <2> QED
    BY <1>1, <2>1
<1>3. ASSUME a < b PROVE One!Max((a + 1)..b) = b
  <2> DEFINE S == (a + 1)..b
  <2>1. S \subseteq Nat /\ b \in S /\ \A i \in S : i <= b
    BY <1>3
  <2>2. One!Max(S) = b
    <3> HIDE DEF S
    <3> QED
      BY <1>1, <2>1
  <2> QED
    BY <2>2
<1> QED
  BY <1>2, <1>3

LEMMA RunEffect ==
    ASSUME Executing, NEW s, StopsAt(s), One!Run
    PROVE  LET ran   == (pos + 1)..Upto(s)
               ended == s > Len(body) \/ body[s] = "throw"
           IN  /\ pos' = Upto(s)
               /\ ~ended => frame' = "suspended"
               /\ ended /\ program.final = "always" => frame' = "done"
               /\ ended /\ program.final = "never" => frame' = "freed"
               /\ result' = IF s > Len(body) THEN "returned"
                            ELSE IF body[s] = "throw" THEN "exception" ELSE result
               /\ values' = IF \E i \in ran : body[i] = "queue"
                              THEN values \o [i \in 1..(One!Yielded(Upto(s)) - One!Yielded(pos))
                                                 |-> One!Yielded(pos) + i]
                            ELSE IF \E i \in ran : body[i] \in One!Yielding
                              THEN <<One!Yielded(Upto(s))>> ELSE values
               /\ heard' = IF (pos > 0 /\ body[pos] = "receive") \/ \E i \in ran : body[i] = "take"
                             THEN sent ELSE heard
<1> DEFINE n == Len(body)
           ran == (pos + 1)..Upto(s)
           is == {i \in (pos + 1)..n : i <= s}
           ended == s > n \/ body[s] = "throw"
<1>1. n \in Nat /\ pos \in Nat /\ pos <= n /\ s \in Nat /\ pos < s /\ s <= n + 1
  BY DEF Executing, StopsAt
<1>2. is = ran /\ Upto(s) \in Nat /\ pos <= Upto(s)
  BY <1>1 DEF Upto
<1>3. One!Max({pos} \cup ran) = Upto(s) /\ (pos < Upto(s) => One!Max(ran) = Upto(s))
  BY <1>1, <1>2, LargestOf
<1>4. One!Stop = s
  BY StopFound
<1>5. /\ pos' = One!Max({pos} \cup is)
      /\ values' = IF \E i \in is : body[i] = "queue"
                     THEN values \o [i \in 1..(One!Yielded(One!Max(is)) - One!Yielded(pos))
                                        |-> One!Yielded(pos) + i]
                   ELSE IF \E i \in is : body[i] \in One!Yielding
                     THEN <<One!Yielded(One!Max(is))>> ELSE values
      /\ heard' = IF (pos > 0 /\ body[pos] = "receive") \/ \E i \in is : body[i] = "take"
                    THEN sent ELSE heard
      /\ result' = CASE ended /\ s > n -> "returned" [] ended /\ s <= n -> "exception"
                     [] OTHER -> result
      /\ frame' = CASE ~ended -> "suspended" [] ended /\ program.final = "always" -> "done"
                    [] ended /\ program.final = "never" -> "freed"
  BY <1>4 DEF One!Run
<1> HIDE DEF is
<1>6. (\E i \in ran : TRUE) => pos < Upto(s)
  BY <1>1, <1>2
<1>7. values' = IF \E i \in ran : body[i] = "queue"
                  THEN values \o [i \in 1..(One!Yielded(Upto(s)) - One!Yielded(pos))
                                     |-> One!Yielded(pos) + i]
                ELSE IF \E i \in ran : body[i] \in One!Yielding
                  THEN <<One!Yielded(Upto(s))>> ELSE values
  <2> HIDE DEF ran
  <2>1. CASE \E i \in ran : TRUE
    <3>1. One!Max(is) = Upto(s)
      BY <1>2, <1>3, <1>6, <2>1
    <3> QED
      BY <1>2, <1>5, <3>1
  <2>2. CASE ~ \E i \in ran : TRUE
    BY <1>2, <1>5, <2>2
  <2> QED
    BY <2>1, <2>2
<1>8. result' = IF s > n THEN "returned" ELSE IF body[s] = "throw" THEN "exception" ELSE result
  BY <1>1, <1>5
<1>9. /\ ~ended => frame' = "suspended"
      /\ ended /\ program.final = "always" => frame' = "done"
      /\ ended /\ program.final = "never" => frame' = "freed"
  <2>1. CASE ended
    BY <1>5, <2>1
  <2>2. CASE ~ended
    BY <1>5, <2>2
  <2> QED
    BY <2>1, <2>2
<1> QED
  BY <1>2, <1>3, <1>5, <1>7, <1>8, <1>9

\* A coroutine that is to suspend next executes one step.
LEMMA RunSuspends ==
    ASSUME Executing, pos < Len(body), body[pos + 1] \in One!Suspending, One!Run
    PROVE  /\ pos' = pos + 1 /\ frame' = "suspended" /\ result' = result
           /\ values' = IF body[pos + 1] = "yield" THEN <<One!Yielded(pos + 1)>> ELSE values
           /\ heard' = IF pos > 0 /\ body[pos] = "receive" THEN sent ELSE heard
<1>1. /\ Len(body) \in Nat /\ pos \in Nat /\ pos + 1 <= Len(body)
      /\ body[pos + 1] \in {"yield", "wait", "receive"}
  BY DEF Executing, One!Suspending
<1>2. StopsAt(pos + 1)
  BY <1>1 DEF StopsAt
<1>3. Upto(pos + 1) = pos + 1 /\ (pos + 1)..(pos + 1) = {pos + 1} /\ ~(pos + 1 > Len(body))
  BY <1>1 DEF Upto
<1>4. body[pos + 1] \in One!Yielding <=> body[pos + 1] = "yield"
  BY <1>1 DEF One!Yielding
<1>5. /\ body[pos + 1] # "throw" /\ body[pos + 1] # "queue" /\ body[pos + 1] # "take"
  BY <1>1
<1> DEFINE s == pos + 1
<1>6. s = pos + 1
  OBVIOUS
<1> HIDE DEF s
<1>7. /\ pos' = s /\ frame' = "suspended" /\ result' = result
      /\ values' = IF body[s] \in One!Yielding THEN <<One!Yielded(s)>> ELSE values
      /\ heard' = IF pos > 0 /\ body[pos] = "receive" THEN sent ELSE heard
  <2>1. /\ StopsAt(s) /\ Upto(s) = s /\ ~(s > Len(body)) /\ (pos + 1)..s = {s}
        /\ body[s] # "throw" /\ body[s] # "queue" /\ body[s] # "take"
    BY <1>2, <1>3, <1>5, <1>6
  <2>2. \A i \in (pos + 1)..s : i = s
    BY <2>1
  <2> QED
    BY <2>1, <2>2, RunEffect
<1> QED
  BY <1>4, <1>6, <1>7

\* One that neither suspends nor throws any more comes to its end.
LEMMA RunEnds ==
    ASSUME Executing, One!Run,
           \A i \in (pos + 1)..Len(body) : body[i] \notin One!Suspending \cup {"throw"}
    PROVE  /\ pos' = Len(body) /\ result' = "returned"
           /\ program.final = "always" => frame' = "done"
           /\ program.final = "never" => frame' = "freed"
           /\ values' = IF \E i \in (pos + 1)..Len(body) : body[i] = "queue"
                          THEN values \o [i \in 1..(One!Yielded(Len(body)) - One!Yielded(pos))
                                             |-> One!Yielded(pos) + i]
                        ELSE IF \E i \in (pos + 1)..Len(body) : body[i] \in One!Yielding
                          THEN <<One!Yielded(Len(body))>> ELSE values
           /\ heard' = IF (pos > 0 /\ body[pos] = "receive")
                            \/ \E i \in (pos + 1)..Len(body) : body[i] = "take"
                         THEN sent ELSE heard
<1>1. Len(body) \in Nat /\ pos \in Nat /\ pos <= Len(body)
  BY DEF Executing
<1>2. StopsAt(Len(body) + 1)
  BY <1>1 DEF StopsAt
<1>3. Upto(Len(body) + 1) = Len(body) /\ Len(body) + 1 > Len(body)
  BY <1>1 DEF Upto
<1> QED
  BY <1>2, <1>3, RunEffect

\* A step of main() is its next operation.
Onward == todo' = IF One!UntilDone /\ Tail(todo) = <<>> /\ Head(todo) # "leave"
                THEN program.loop ELSE Tail(todo)

LEMMA Operation ==
    ASSUME One!Next
    PROVE  /\ UNCHANGED <<program, body, rounds>> /\ todo # <<>>
           /\ Head(todo) \in {"call", "resume", "resume?", "read", "result", "send", "exit?",
                              "leave"}
           /\ ~(Head(todo) = "exit?" /\ frame = "done") => Onward
           /\ Head(todo) = "call" =>
                 /\ program.initial = "always" =>
                       frame' = "suspended" /\ UNCHANGED <<pos, values, result, heard>>
                 /\ program.initial # "always" => One!Run
                 /\ UNCHANGED <<sent, seen, got>>
           /\ Head(todo) \in {"resume", "resume?"} =>
                 /\ Head(todo) = "resume?" /\ frame = "done" =>
                       UNCHANGED <<frame, pos, values, result, heard>>
                 /\ ~(Head(todo) = "resume?" /\ frame = "done") => One!Run
                 /\ UNCHANGED <<sent, seen, got>>
           /\ Head(todo) \notin {"call", "resume", "resume?", "leave"} =>
                 UNCHANGED <<frame, pos, values, result, heard>>
           /\ Head(todo) = "read" => seen' = seen \o values /\ UNCHANGED <<sent, got>>
           /\ Head(todo) = "result" => got' = got \cup {result} /\ UNCHANGED <<sent, seen>>
           /\ Head(todo) = "send" => sent' = "message" /\ UNCHANGED <<seen, got>>
           /\ Head(todo) = "exit?" =>
                 /\ frame = "done" => todo' = program.after \o <<"leave">>
                 /\ UNCHANGED <<sent, seen, got>>
           /\ Head(todo) = "leave" =>
                 /\ frame' = IF program.owned THEN "freed" ELSE frame
                 /\ UNCHANGED <<pos, values, result, sent, heard, seen, got>>
<1>1. CASE One!Call
  BY <1>1 DEF One!Call, One!Do, Onward
<1>2. CASE One!Resume
  BY <1>2 DEF One!Resume, One!Do, Onward
<1>3. CASE One!ResumeUnlessDone
  BY <1>3 DEF One!ResumeUnlessDone, One!Do, Onward
<1>4. CASE One!Read
  BY <1>4 DEF One!Read, One!Do, Onward
<1>5. CASE One!ReadResult
  BY <1>5 DEF One!ReadResult, One!Do, Onward
<1>6. CASE One!Send
  BY <1>6 DEF One!Send, One!Do, Onward
<1>7. CASE One!ExitIfDone
  BY <1>7 DEF One!ExitIfDone, One!Do, Onward
<1>8. CASE One!Leave
  BY <1>8 DEF One!Leave, One!Do, Onward
<1> QED
  BY <1>1, <1>2, <1>3, <1>4, <1>5, <1>6, <1>7, <1>8 DEF One!Next

-----------------------------------------------------------------------------
(* What the programs are *)

\* A program that does its operations once, and one that repeats some of them.
Straight(p, initial, final, owned, shared, bodies, before) ==
    /\ p.initial = initial /\ p.final = final /\ p.owned = owned /\ p.shared = shared
    /\ p.bodies = bodies /\ p.before = before
    /\ p.loop = <<>> /\ p.after = <<>> /\ p.counted = FALSE
Looping(p, initial, final, bodies, before, loop, after, counted) ==
    /\ p.initial = initial /\ p.final = final /\ p.bodies = bodies
    /\ p.before = before /\ p.loop = loop /\ p.after = after /\ p.counted = counted
    /\ p.owned = TRUE /\ p.shared = FALSE

LEMMA StraightOnes ==
    /\ Straight(One!co_await_simple_instant, "never", "always", TRUE, FALSE,
                {<<"ready">>}, <<"send", "result">>)
    /\ Straight(One!value_co_return, "never", "always", TRUE, FALSE, {<<>>}, <<"result">>)
    /\ Straight(One!value_co_return_custom_promise, "always", "always", TRUE, FALSE,
                {<<>>}, <<"resume", "result">>)
    /\ Straight(One!void_co_return, "never", "always", FALSE, FALSE, {<<>>}, <<>>)
    /\ Straight(One!void_co_return_exception, "never", "always", FALSE, FALSE,
                {<<"throw">>}, <<>>)
    /\ Straight(One!simple, "never", "never", FALSE, FALSE, {One!Times(3, "ready")}, <<>>)
    /\ Straight(One!function, "never", "always", TRUE, FALSE, {<<"throw">>}, <<"result">>)
    /\ Straight(One!lazy_function, "always", "always", TRUE, FALSE,
                {<<>>}, <<"resume?", "result", "resume?", "result">>)
    /\ Straight(One!routine, "never", "never", FALSE, FALSE, {<<>>}, <<>>)
    /\ Straight(One!lazyFuture, "always", "always", TRUE, FALSE,
                {<<>>}, <<"resume", "result">>)
    /\ Straight(One!lazyFutureOnOtherThread, "always", "always", TRUE, FALSE,
                {<<>>}, <<"resume", "result">>)
    /\ Straight(One!eagerFuture, "never", "never", FALSE, TRUE, {<<>>}, <<"result">>)
    /\ Straight(One!startJobWithAutomaticResumption, "never", "always", TRUE, FALSE,
                {<<"ready">>}, <<>>)
    /\ Straight(One!startJobWithComments, "always", "always", TRUE, FALSE,
                {<<"ready">>}, <<"resume">>)
    /\ Straight(One!value_co_return_final_suspend_never, "always", "never", TRUE, FALSE,
                {<<>>}, <<"result">>)
    /\ Straight(One!co_yield_simple, "never", "always", TRUE, FALSE,
                {<<"yield">>}, <<"read", "resume", "result">>)
    /\ Straight(One!co_await_simple, "never", "always", TRUE, FALSE,
                {<<"receive">>}, <<"send", "resume", "result">>)
    /\ Straight(One!coroutine_chat, "always", "always", TRUE, FALSE,
                {<<"yield", "take", "store">>}, <<"resume?", "read", "send", "resume?", "resume?", "read">>)
BY DEF One!Task, One!Eager, Straight, One!co_await_simple_instant, One!value_co_return,
       One!value_co_return_custom_promise, One!void_co_return, One!void_co_return_exception,
       One!simple, One!function, One!lazy_function, One!routine, One!lazyFuture,
       One!lazyFutureOnOtherThread, One!eagerFuture, One!startJobWithAutomaticResumption,
       One!startJobWithComments, One!value_co_return_final_suspend_never, One!co_yield_simple,
       One!co_await_simple, One!coroutine_chat

LEMMA LoopingOnes ==
    /\ Looping(One!co_yield_suspended_loop, "never", "always", {One!Times(3, "yield")},
               <<>>, <<"read", "resume", "exit?">>, <<"result">>, FALSE)
    /\ Looping(One!co_yield_unsuspended_loop, "never", "always", {One!Times(3, "queue")},
               <<>>, <<"read", "exit?">>, <<"result">>, FALSE)
    /\ Looping(One!Fibonacci, "always", "always", One!AnyNumberOf("yield") \ {<<>>},
               <<>>, <<"resume", "exit?", "read">>, <<>>, FALSE)
    /\ Looping(One!basic_task, "always", "always", One!AnyNumberOf("wait"),
               <<>>, <<"resume?", "exit?">>, <<>>, FALSE)
    /\ Looping(One!generator, "always", "always", One!AnyNumberOf("yield"),
               <<>>, <<"resume", "exit?", "read">>, <<>>, FALSE)
    /\ Looping(One!utils_generator, "always", "always", One!AnyNumberOf("yield"),
               <<>>, <<"resume?", "exit?", "read">>, <<>>, FALSE)
    /\ Looping(One!generator_range, "always", "always", One!AnyNumberOf("yield"),
               <<"resume">>, <<"exit?", "read", "resume">>, <<>>, FALSE)
    /\ Looping(One!generate_primes, "always", "never", {One!Times(MaxValues + 1, "yield")},
               <<>>, <<"resume?", "read">>, <<>>, TRUE)
    /\ Looping(One!coroutineGetElements, "always", "always", {One!Times(MaxValues, "yield")},
               <<>>, <<"resume", "read">>, <<>>, TRUE)
    /\ Looping(One!infiniteDataStream, "always", "always", {One!Times(MaxValues + 1, "yield")},
               <<>>, <<"resume", "read">>, <<>>, TRUE)
BY DEF One!Task, One!Eager, Looping, One!co_yield_suspended_loop, One!co_yield_unsuspended_loop,
       One!Fibonacci, One!basic_task, One!generator, One!utils_generator, One!generator_range,
       One!generate_primes, One!coroutineGetElements, One!infiniteDataStream

-----------------------------------------------------------------------------
(* What main() still does *)

Ops == {"call", "resume", "resume?", "read", "result", "send", "exit?", "leave"}

\* todo is what is left of a script.
LeftOf(script) == /\ todo \in Seq(Ops) /\ Len(todo) <= Len(script)
                  /\ \A i \in 1..Len(todo) : todo[i] = script[Len(script) - Len(todo) + i]

LEMMA TailOf == ASSUME NEW S, NEW s \in Seq(S), s # <<>>
                PROVE  /\ Len(s) \in Nat \ {0} /\ Head(s) = s[1] /\ s[1] \in S
                       /\ Tail(s) \in Seq(S) /\ Len(Tail(s)) = Len(s) - 1
                       /\ \A i \in 1..Len(Tail(s)) : Tail(s)[i] = s[i + 1]
<1>1. Len(s) \in Nat \ {0} /\ Head(s) = s[1]
  OBVIOUS
<1>2. s[1] \in S
  BY <1>1
<1> QED
  BY <1>1, <1>2, HeadTailProperties

LEMMA NotEmpty == ASSUME NEW S, NEW s \in Seq(S) PROVE Len(s) \in Nat /\ (s = <<>> <=> Len(s) = 0)
OBVIOUS

\* Operations in a row.
LEMMA Joined ==
    \A s, t \in Seq(Ops) :
        /\ s \o t \in Seq(Ops) /\ Len(s) \in Nat /\ Len(t) \in Nat /\ Len(s \o t) = Len(s) + Len(t)
        /\ \A i \in 1..Len(s) : (s \o t)[i] = s[i]
        /\ \A i \in 1..Len(t) : (s \o t)[Len(s) + i] = t[i]
<1> HIDE DEF Ops
<1> SUFFICES ASSUME NEW s \in Seq(Ops), NEW t \in Seq(Ops)
             PROVE  /\ s \o t \in Seq(Ops) /\ Len(s) \in Nat /\ Len(t) \in Nat
                    /\ Len(s \o t) = Len(s) + Len(t)
                    /\ \A i \in 1..Len(s) : (s \o t)[i] = s[i]
                    /\ \A i \in 1..Len(t) : (s \o t)[Len(s) + i] = t[i]
  OBVIOUS
<1> QED
  OBVIOUS

LEMMA OneOp == \A a \in Ops : <<a>> \in Seq(Ops) /\ Len(<<a>>) = 1 /\ <<a>>[1] = a
OBVIOUS

\* A call, what comes before the loop, and what follows.
LEMMA Opening ==
    ASSUME NEW b \in Seq(Ops), NEW r \in Seq(Ops)
    PROVE  LET s == <<"call">> \o b \o r
           IN  /\ s \in Seq(Ops) /\ Len(b) \in Nat /\ Len(r) \in Nat /\ Len(s) = 1 + Len(b) + Len(r)
               /\ s[1] = "call" /\ \A i \in 1..Len(b) : s[1 + i] = b[i]
               /\ \A i \in 1..Len(r) : s[1 + Len(b) + i] = r[i]
<1> DEFINE c == <<"call">>
<1>1. c \in Seq(Ops) /\ Len(c) = 1 /\ c[1] = "call"
  BY OneOp DEF Ops
<1> HIDE DEF c, Ops
<1>2. /\ c \o b \in Seq(Ops) /\ Len(c \o b) = 1 + Len(b) /\ Len(b) \in Nat
      /\ (c \o b)[1] = "call" /\ \A i \in 1..Len(b) : (c \o b)[1 + i] = b[i]
  BY <1>1, Joined
<1> DEFINE cb == c \o b
<1>3. cb \in Seq(Ops) /\ Len(cb) = 1 + Len(b) /\ cb[1] = "call" /\ \A i \in 1..Len(b) : cb[1 + i] = b[i]
  BY <1>2
<1> HIDE DEF cb
<1>4. /\ cb \o r \in Seq(Ops) /\ Len(r) \in Nat /\ Len(cb \o r) = Len(cb) + Len(r)
      /\ \A i \in 1..Len(cb) : (cb \o r)[i] = cb[i]
      /\ \A i \in 1..Len(r) : (cb \o r)[Len(cb) + i] = r[i]
  BY <1>3, Joined
<1>5. 1 \in 1..Len(cb) /\ \A i \in 1..Len(b) : 1 + i \in 1..Len(cb)
  BY <1>2, <1>3
<1>6. /\ cb \o r \in Seq(Ops) /\ Len(cb \o r) = 1 + Len(b) + Len(r)
      /\ (cb \o r)[1] = "call" /\ \A i \in 1..Len(b) : (cb \o r)[1 + i] = b[i]
      /\ \A i \in 1..Len(r) : (cb \o r)[1 + Len(b) + i] = r[i]
  BY <1>3, <1>4, <1>5
<1> QED
  BY <1>2, <1>4, <1>6 DEF cb, c

\* Where no loop starts again, main() comes to the next operation.
LEMMA Advance ==
    ASSUME todo \in Seq(Ops), One!Next, ~(Head(todo) = "exit?" /\ frame = "done"),
           ~(One!UntilDone /\ Tail(todo) = <<>> /\ Head(todo) # "leave")
    PROVE  /\ Len(todo) \in Nat \ {0} /\ Head(todo) = todo[1]
           /\ todo' \in Seq(Ops) /\ Len(todo') = Len(todo) - 1
           /\ \A i \in 1..Len(todo') : todo'[i] = todo[i + 1]
           /\ \A s \in Seq(Ops) : LeftOf(s) => LeftOf(s)' /\ todo[1] = s[Len(s) - Len(todo) + 1]
<1>1. todo' = Tail(todo) /\ todo # <<>>
  BY Operation DEF Onward
<1> HIDE DEF Ops
<1>2. /\ Len(todo) \in Nat \ {0} /\ Head(todo) = todo[1]
      /\ todo' \in Seq(Ops) /\ Len(todo') = Len(todo) - 1
      /\ \A i \in 1..Len(todo') : todo'[i] = todo[i + 1]
  BY <1>1, TailOf
<1>3. ASSUME NEW s \in Seq(Ops), LeftOf(s)
      PROVE  LeftOf(s)' /\ todo[1] = s[Len(s) - Len(todo) + 1]
  <2>1. Len(s) \in Nat /\ Len(todo) <= Len(s)
        /\ \A i \in 1..Len(todo) : todo[i] = s[Len(s) - Len(todo) + i]
    BY <1>3 DEF LeftOf
  <2>2. ASSUME NEW i \in 1..Len(todo') PROVE todo'[i] = s[Len(s) - Len(todo') + i]
    <3>1. i \in Nat /\ i + 1 \in 1..Len(todo) /\ Len(s) - Len(todo') + i = Len(s) - Len(todo) + (i + 1)
      BY <1>2, <2>1
    <3> QED
      BY <1>2, <2>1, <3>1
  <2> QED
    BY <1>2, <2>1, <2>2 DEF LeftOf
<1> QED
  BY <1>2, <1>3

-----------------------------------------------------------------------------
(* Programs whose coroutine runs at once to its end *)

\* Nobody owns the frames of these.
Voids == {One!void_co_return, One!void_co_return_exception}

QuietProgram ==
    /\ program.loop = <<>> /\ ~program.counted
    /\ program # One!value_co_return_final_suspend_never
    /\ program.initial \in {"always", "never"} /\ program.final \in {"always", "never"}
    /\ program.final = "always" => (program.owned <=> program \notin Voids)
    /\ program.final = "never" => ~program.owned /\ program \notin Voids /\ program.initial = "never"
    /\ body \in {<<>>, <<"ready">>, <<"throw">>, One!Times(3, "ready")}

\* From its n-th operation on, main() uses only what is still there, and leaves.
UsesFrom(n) == \A i \in 1..Len(todo) : i >= n =>
                  IF i = Len(todo) THEN todo[i] = "leave"
                  ELSE IF program.final = "always" THEN todo[i] \in {"result", "send", "resume?"}
                       ELSE todo[i] = "result" /\ program.shared

Fresh == pos = 0 /\ result = "unset" /\ got = {}
Ran   == /\ pos = Len(body) /\ result \in {"returned", "exception"}
         /\ got \subseteq {"returned", "exception"}

QuietInv ==
    /\ QuietProgram /\ rounds = 0 /\ values = <<0>> /\ heard = "nothing" /\ seen = <<>>
    /\ todo \in Seq(Ops)
    /\ \/ /\ frame = "none" /\ Fresh /\ Len(todo) >= 2 /\ todo[1] = "call"
          /\ program.initial = "never" => UsesFrom(2)
          /\ program.initial = "always" =>
                Len(todo) >= 3 /\ todo[2] \in {"resume", "resume?"} /\ UsesFrom(3)
       \/ /\ frame = "suspended" /\ Fresh /\ program.final = "always"
          /\ Len(todo) >= 2 /\ todo[1] \in {"resume", "resume?"} /\ UsesFrom(2)
       \/ /\ frame = IF program.final = "always" THEN "done" ELSE "freed"
          /\ Ran /\ Len(todo) >= 1 /\ UsesFrom(1)
       \/ /\ frame = IF program \in Voids THEN "done" ELSE "freed"
          /\ Ran /\ Len(todo) = 0

LEMMA QuietBody ==
    ASSUME QuietProgram
    PROVE  /\ Len(body) \in Nat /\ \A i \in 1..Len(body) : body[i] \in {"ready", "throw"}
           /\ body = <<"throw">> \/ \A i \in 1..Len(body) : body[i] # "throw"
<1>1. One!Times(3, "ready") = [i \in 1..3 |-> "ready"]
  BY DEF One!Times
<1> QED
  BY <1>1 DEF QuietProgram

LEMMA QuietRun ==
    ASSUME QuietProgram, pos = 0, One!Run
    PROVE  /\ pos' = Len(body) /\ result' \in {"returned", "exception"}
           /\ frame' = IF program.final = "always" THEN "done" ELSE "freed"
           /\ UNCHANGED <<values, heard>>
<1>1. Len(body) \in Nat /\ \A i \in 1..Len(body) : body[i] \in {"ready", "throw"}
  BY QuietBody
<1>2. Executing
  BY <1>1 DEF Executing
<1>3. program.final \in {"always", "never"}
  BY DEF QuietProgram
<1>4. CASE body = <<"throw">>
  <2>1. StopsAt(1) /\ Upto(1) = 1 /\ Len(body) = 1 /\ body[1] = "throw"
    BY <1>4 DEF StopsAt, Upto
  <2>2. \A i \in (pos + 1)..Upto(1) : body[i] = "throw"
    BY <2>1
  <2>3. "throw" # "queue" /\ "throw" # "take" /\ "throw" \notin One!Yielding
    BY DEF One!Yielding
  <2> QED
    BY <1>2, <1>3, <2>1, <2>2, <2>3, RunEffect
<1>5. CASE \A i \in 1..Len(body) : body[i] # "throw"
  <2>1. \A i \in (pos + 1)..Len(body) : body[i] = "ready"
    BY <1>1, <1>5
  <2>2. /\ "ready" \notin One!Suspending \cup {"throw"} /\ "ready" \notin One!Yielding
        /\ "ready" # "queue" /\ "ready" # "take"
    BY DEF One!Suspending, One!Yielding
  <2> QED
    BY <1>2, <1>3, <2>1, <2>2, RunEnds
<1> QED
  BY <1>4, <1>5, QuietBody

\* What follows an operation is what it was before, one place nearer.
LEMMA UsesMore ==
    ASSUME NEW n \in Nat \ {0}, UsesFrom(n + 1), program' = program, Len(todo) \in Nat \ {0},
           Len(todo') = Len(todo) - 1, \A i \in 1..Len(todo') : todo'[i] = todo[i + 1]
    PROVE  UsesFrom(n)'
<1>1. ASSUME NEW i \in 1..Len(todo'), i >= n
      PROVE  IF i = Len(todo') THEN todo'[i] = "leave"
             ELSE IF program.final = "always" THEN todo'[i] \in {"result", "send", "resume?"}
                  ELSE todo'[i] = "result" /\ program.shared
  <2>1. /\ i + 1 \in 1..Len(todo) /\ i + 1 >= n + 1 /\ todo'[i] = todo[i + 1]
        /\ i = Len(todo') <=> i + 1 = Len(todo)
    BY <1>1
  <2> QED
    BY <2>1 DEF UsesFrom
<1> QED
  BY <1>1 DEF UsesFrom

LEMMA UsesNow ==
    ASSUME UsesFrom(1), Len(todo) \in Nat \ {0}, program.final \in {"always", "never"}
    PROVE  /\ UsesFrom(2) /\ todo[1] \in {"result", "send", "resume?", "leave"}
           /\ todo[1] = "leave" <=> Len(todo) = 1
           /\ program.final = "never" /\ todo[1] # "leave" => todo[1] = "result" /\ program.shared
<1>1. /\ Len(todo) = 1 => todo[1] = "leave"
      /\ Len(todo) # 1 /\ program.final = "always" => todo[1] \in {"result", "send", "resume?"}
      /\ Len(todo) # 1 /\ program.final = "never" => todo[1] = "result" /\ program.shared
  BY DEF UsesFrom
<1>2. UsesFrom(2)
  BY DEF UsesFrom
<1> QED
  BY <1>1, <1>2

LEMMA QuietStep == ASSUME QuietInv, One!Next PROVE QuietInv'
<1>1. /\ UNCHANGED <<program, body, rounds>> /\ QuietProgram' /\ ~One!UntilDone
      /\ program.initial \in {"always", "never"} /\ program.final \in {"always", "never"}
  BY Operation DEF QuietInv, QuietProgram, One!UntilDone
<1>2. todo \in Seq(Ops) /\ Len(todo) \in Nat \ {0} /\ Head(todo) = todo[1]
  BY Operation, TailOf DEF QuietInv
<1>3. Head(todo) # "exit?"
  BY <1>2, UsesNow, <1>1 DEF QuietInv
<1>4. /\ todo' \in Seq(Ops) /\ Len(todo') = Len(todo) - 1
      /\ \A i \in 1..Len(todo') : todo'[i] = todo[i + 1]
  BY <1>1, <1>2, <1>3, Advance
<1>5. CASE frame = "none"
  <2>1. /\ Head(todo) = "call" /\ Fresh /\ Len(todo) >= 2
        /\ program.initial = "never" => UsesFrom(2)
        /\ program.initial = "always" =>
              Len(todo) >= 3 /\ todo[2] \in {"resume", "resume?"} /\ UsesFrom(3)
    BY <1>2, <1>5 DEF QuietInv, Ran
  <2>2. CASE program.initial = "always"
    <3>1. /\ frame' = "suspended" /\ Fresh' /\ UNCHANGED <<values, heard, seen>>
      BY <2>1, <2>2, Operation DEF Fresh
    <3>2. UsesFrom(2)'
      <4>1. UsesFrom(2 + 1)
        BY <2>1, <2>2
      <4> QED
        BY <1>1, <1>2, <1>4, <4>1, UsesMore
    <3>3. Len(todo') >= 2 /\ todo'[1] \in {"resume", "resume?"} /\ program.final = "always"
      BY <1>1, <1>2, <1>4, <2>1, <2>2 DEF QuietInv, QuietProgram
    <3> QED
      BY <1>1, <1>4, <3>1, <3>2, <3>3 DEF QuietInv
  <2>3. CASE program.initial = "never"
    <3>1. One!Run /\ UNCHANGED <<sent, seen, got>>
      BY <2>1, <2>3, Operation
    <3>2. /\ Ran' /\ UNCHANGED <<values, heard>>
          /\ frame' = IF program.final = "always" THEN "done" ELSE "freed"
      BY <1>1, <2>1, <3>1, QuietRun DEF QuietInv, Ran, Fresh
    <3>3. UsesFrom(1)'
      <4>1. UsesFrom(1 + 1)
        BY <2>1, <2>3
      <4> QED
        BY <1>1, <1>2, <1>4, <4>1, UsesMore
    <3> QED
      BY <1>1, <1>2, <1>4, <2>1, <3>1, <3>2, <3>3 DEF QuietInv
  <2> QED
    BY <1>1, <2>2, <2>3
<1>6. CASE frame = "suspended"
  <2>1. /\ Head(todo) \in {"resume", "resume?"} /\ Fresh /\ program.final = "always"
        /\ Len(todo) >= 2 /\ UsesFrom(2)
    BY <1>2, <1>6 DEF QuietInv
  <2>2. One!Run /\ UNCHANGED <<sent, seen, got>>
    BY <1>6, <2>1, Operation
  <2>3. Ran' /\ UNCHANGED <<values, heard>> /\ frame' = "done"
    BY <1>1, <2>1, <2>2, QuietRun DEF QuietInv, Ran, Fresh
  <2>4. UsesFrom(1)'
    <3>1. UsesFrom(1 + 1)
      BY <2>1
    <3> QED
      BY <1>1, <1>2, <1>4, <3>1, UsesMore
  <2> QED
    BY <1>1, <1>2, <1>4, <2>1, <2>2, <2>3, <2>4 DEF QuietInv
<1>7. CASE frame \notin {"none", "suspended"}
  <2>1. /\ frame = IF program.final = "always" THEN "done" ELSE "freed"
        /\ Ran /\ UsesFrom(1)
    BY <1>2, <1>7 DEF QuietInv
  <2>2. /\ UsesFrom(2) /\ todo[1] \in {"result", "send", "resume?", "leave"}
        /\ todo[1] = "leave" <=> Len(todo) = 1
        /\ program.final = "never" /\ todo[1] # "leave" => todo[1] = "result" /\ program.shared
    BY <1>1, <1>2, <2>1, UsesNow
  <2>3. CASE todo[1] = "leave"
    <3>1. /\ frame' = IF program.owned THEN "freed" ELSE frame
          /\ UNCHANGED <<pos, values, result, heard, seen, got>>
      BY <1>2, <2>3, Operation
    <3>2. frame' = IF program \in Voids THEN "done" ELSE "freed"
      BY <1>1, <2>1, <3>1 DEF QuietInv, QuietProgram
    <3>3. Ran' /\ Len(todo') = 0
      BY <1>1, <1>2, <1>4, <2>1, <2>2, <2>3, <3>1 DEF Ran
    <3>4. UNCHANGED Voids
      BY DEF Voids
    <3> QED
      BY <1>1, <1>4, <3>1, <3>2, <3>3, <3>4 DEF QuietInv
  <2>4. CASE todo[1] # "leave"
    <3>1. /\ UNCHANGED <<frame, pos, values, result, heard, seen>>
          /\ got' = got \/ got' = got \cup {result}
      <4>1. CASE todo[1] = "resume?"
        <5>1. frame = "done"
          BY <1>1, <2>1, <2>2, <4>1
        <5> QED
          BY <1>2, <4>1, <5>1, Operation
      <4>2. CASE todo[1] \in {"result", "send"}
        BY <1>2, <4>2, Operation
      <4> QED
        BY <2>2, <2>4, <4>1, <4>2
    <3>2. UsesFrom(1)'
      <4>1. UsesFrom(1 + 1)
        BY <2>2
      <4> QED
        BY <1>1, <1>2, <1>4, <4>1, UsesMore
    <3>3. Ran'
      BY <1>1, <2>1, <3>1 DEF Ran
    <3> QED
      BY <1>1, <1>2, <1>4, <2>1, <2>2, <2>4, <3>1, <3>2, <3>3 DEF QuietInv
  <2> QED
    BY <2>3, <2>4
<1> QED
  BY <1>5, <1>6, <1>7

\* Where a program without a loop starts.
LEMMA StartsStraight ==
    ASSUME One!Init, NEW initial, NEW final, NEW owned, NEW shared, NEW bodies,
           NEW before \in Seq(Ops), Straight(program, initial, final, owned, shared, bodies, before)
    PROVE  /\ body \in bodies /\ rounds = 0 /\ frame = "none" /\ Fresh /\ heard = "nothing"
           /\ sent = "nothing" /\ seen = <<>>
           /\ (\A i \in 1..Len(body) : body[i] # "queue") => values = <<0>>
           /\ todo \in Seq(Ops) /\ Len(before) \in Nat /\ Len(todo) = Len(before) + 2
           /\ todo[1] = "call" /\ \A i \in 1..Len(before) : todo[1 + i] = before[i]
           /\ todo[Len(before) + 2] = "leave"
<1>1. /\ body \in bodies /\ rounds = 0 /\ frame = "none" /\ Fresh /\ heard = "nothing"
      /\ sent = "nothing" /\ seen = <<>>
  BY DEF One!Init, Fresh, Straight, One!UntilDone
<1>2. ASSUME \A i \in 1..Len(body) : body[i] # "queue" PROVE values = <<0>>
  BY <1>2 DEF One!Init, One!ToSet
<1>3. todo = <<"call">> \o before \o <<"leave">>
  <2>1. One!Repeat(0, <<>>) = <<>>
    <3>1. One!Times(0, <<>>) = <<>>
      BY DEF One!Times
    <3>2. Parse!FlattenSeq(<<>>) = <<>>
      BY DEF Parse!FlattenSeq
    <3> QED
      BY <3>1, <3>2 DEF One!Repeat, One!FlattenSeq, Parse!FlattenSeq
  <2>2. todo = <<"call">> \o before \o (<<>> \o <<>> \o <<"leave">>)
    BY <1>1, <2>1 DEF One!Init, Straight, One!UntilDone
  <2>3. <<>> \o <<>> \o <<"leave">> = <<"leave">>
    OBVIOUS
  <2> QED
    BY <2>2, <2>3
<1>4. "leave" \in Ops
  BY DEF Ops
<1> HIDE DEF Ops
<1>5. <<"leave">> \in Seq(Ops) /\ Len(<<"leave">>) = 1 /\ <<"leave">>[1] = "leave"
  BY <1>4, OneOp
<1> DEFINE r == <<"leave">>
<1>6. r \in Seq(Ops) /\ Len(r) = 1 /\ r[1] = "leave" /\ todo = <<"call">> \o before \o r
  BY <1>3, <1>5
<1> HIDE DEF r
<1>7. /\ todo \in Seq(Ops) /\ Len(before) \in Nat /\ Len(todo) = 1 + Len(before) + Len(r)
      /\ todo[1] = "call" /\ \A i \in 1..Len(before) : todo[1 + i] = before[i]
      /\ \A i \in 1..Len(r) : todo[1 + Len(before) + i] = r[i]
  BY <1>6, Opening
<1>8. todo[Len(before) + 2] = "leave" /\ Len(todo) = Len(before) + 2
  BY <1>6, <1>7
<1> QED
  BY <1>1, <1>2, <1>7, <1>8

\* What the programs say whose coroutine runs at once to its end.
QuietBefore(initial, final, shared, before) ==
    /\ initial \in {"always", "never"} /\ final \in {"always", "never"} /\ before \in Seq(Ops)
    /\ initial = "always" => /\ final = "always"
                             /\ Len(before) > 0 /\ before[1] \in {"resume", "resume?"}
    /\ \A i \in 1..Len(before) : (i > 1 \/ initial = "never") =>
          IF final = "always" THEN before[i] \in {"result", "send", "resume?"}
          ELSE before[i] = "result" /\ shared
QuietScript ==
    /\ QuietBefore(program.initial, program.final, program.shared, program.before)
    /\ program.owned \in BOOLEAN
    /\ program.bodies \in {{<<>>}, {<<"ready">>}, {<<"throw">>}, {One!Times(3, "ready")}}
    /\ program.loop = <<>> /\ program.after = <<>> /\ program.counted = FALSE
    /\ program.final = "never" => ~program.owned

LEMMA QuietStarts ==
    ASSUME One!Init, QuietScript, program # One!value_co_return_final_suspend_never,
           program \in Voids <=> program.final = "always" /\ ~program.owned
    PROVE  QuietInv
<1> DEFINE initial == program.initial
           final == program.final
           shared == program.shared
           before == program.before
<1>0. PICK b \in {<<>>, <<"ready">>, <<"throw">>, One!Times(3, "ready")} : program.bodies = {b}
  BY DEF QuietScript
<1>1. /\ body = b /\ rounds = 0 /\ frame = "none" /\ Fresh /\ heard = "nothing" /\ seen = <<>>
      /\ (\A i \in 1..Len(body) : body[i] # "queue") => values = <<0>>
      /\ todo \in Seq(Ops) /\ Len(before) \in Nat /\ Len(todo) = Len(before) + 2
      /\ todo[1] = "call" /\ \A i \in 1..Len(before) : todo[1 + i] = before[i]
      /\ todo[Len(before) + 2] = "leave"
  <2>1. Straight(program, initial, final, program.owned, shared, {b}, before)
    BY <1>0 DEF Straight, QuietScript
  <2>2. before \in Seq(Ops)
    BY DEF QuietScript, QuietBefore
  <2> HIDE DEF initial, final, shared, before
  <2> QED
    BY <2>1, <2>2, StartsStraight
<1>2. initial \in {"always", "never"} /\ final \in {"always", "never"}
  BY DEF QuietScript, QuietBefore
<1>3. QuietProgram
  BY <1>0, <1>1 DEF QuietProgram, QuietScript, QuietBefore
<1>4. values = <<0>>
  BY <1>1, <1>3, QuietBody
<1>5. ASSUME NEW i \in 1..Len(todo), i >= 3 \/ (i >= 2 /\ initial = "never")
      PROVE  IF i = Len(todo) THEN todo[i] = "leave"
             ELSE IF program.final = "always" THEN todo[i] \in {"result", "send", "resume?"}
                  ELSE todo[i] = "result" /\ program.shared
  <2>1. CASE i = Len(todo)
    BY <1>1, <2>1
  <2>2. CASE i # Len(todo)
    <3>1. i - 1 \in 1..Len(before) /\ 1 + (i - 1) = i /\ (i - 1 > 1 \/ initial = "never")
      BY <1>1, <1>5, <2>2
    <3>2. todo[i] = before[i - 1]
      BY <1>1, <3>1
    <3> QED
      BY <1>2, <2>2, <3>1, <3>2 DEF QuietScript, QuietBefore
  <2> QED
    BY <2>1, <2>2
<1>6. /\ initial = "never" => UsesFrom(2)
      /\ UsesFrom(3)
  BY <1>1, <1>5 DEF UsesFrom
<1>7. initial = "always" => Len(todo) >= 3 /\ todo[2] \in {"resume", "resume?"}
  <2>1. initial = "always" => Len(before) > 0 /\ todo[1 + 1] = before[1]
    BY <1>1 DEF QuietScript, QuietBefore
  <2> QED
    BY <1>1, <2>1 DEF QuietScript, QuietBefore
<1> QED
  BY <1>1, <1>2, <1>3, <1>4, <1>6, <1>7 DEF QuietInv

\* The programs whose coroutine runs at once to its end.
Quiets == {One!co_await_simple_instant, One!value_co_return, One!value_co_return_custom_promise,
    One!void_co_return, One!void_co_return_exception, One!simple, One!function,
    One!lazy_function, One!routine, One!lazyFuture, One!lazyFutureOnOtherThread,
    One!eagerFuture, One!startJobWithAutomaticResumption, One!startJobWithComments}

\* What main() does between the call and the end, in these programs.
LEMMA QuietBefores ==
    /\ QuietBefore("never", "always", FALSE, <<>>)
    /\ QuietBefore("never", "never", FALSE, <<>>)
    /\ QuietBefore("never", "always", FALSE, <<"result">>)
    /\ QuietBefore("never", "never", TRUE, <<"result">>)
    /\ QuietBefore("never", "always", FALSE, <<"send", "result">>)
    /\ QuietBefore("always", "always", FALSE, <<"resume">>)
    /\ QuietBefore("always", "always", FALSE, <<"resume", "result">>)
    /\ QuietBefore("always", "always", FALSE, <<"resume?", "result", "resume?", "result">>)
BY DEF Ops, QuietBefore

LEMMA QuietInit == ASSUME One!Init, program \in Quiets PROVE QuietInv
<1>1. /\ program.initial = "always" /\ program.final = "never" => program \notin Quiets
      /\ Straight(One!value_co_return_final_suspend_never, "always", "never", TRUE, FALSE,
                  {<<>>}, <<"result">>)
  BY StraightOnes DEF Straight, Quiets
<1>2. program # One!value_co_return_final_suspend_never
  BY <1>1 DEF Straight
<1>3. program \in Voids <=> program.final = "always" /\ ~program.owned
  BY StraightOnes DEF Straight, Quiets, Voids
<1>4. ASSUME program = One!co_await_simple_instant PROVE QuietScript
  BY <1>4, StraightOnes, QuietBefores DEF Straight, QuietScript
<1>5. ASSUME program = One!value_co_return PROVE QuietScript
  BY <1>5, StraightOnes, QuietBefores DEF Straight, QuietScript
<1>6. ASSUME program = One!value_co_return_custom_promise PROVE QuietScript
  BY <1>6, StraightOnes, QuietBefores DEF Straight, QuietScript
<1>7. ASSUME program = One!void_co_return PROVE QuietScript
  BY <1>7, StraightOnes, QuietBefores DEF Straight, QuietScript
<1>8. ASSUME program = One!void_co_return_exception PROVE QuietScript
  BY <1>8, StraightOnes, QuietBefores DEF Straight, QuietScript
<1>9. ASSUME program = One!simple PROVE QuietScript
  BY <1>9, StraightOnes, QuietBefores DEF Straight, QuietScript
<1>10. ASSUME program = One!function PROVE QuietScript
  BY <1>10, StraightOnes, QuietBefores DEF Straight, QuietScript
<1>11. ASSUME program = One!lazy_function PROVE QuietScript
  BY <1>11, StraightOnes, QuietBefores DEF Straight, QuietScript
<1>12. ASSUME program = One!routine PROVE QuietScript
  BY <1>12, StraightOnes, QuietBefores DEF Straight, QuietScript
<1>13. ASSUME program = One!lazyFuture PROVE QuietScript
  BY <1>13, StraightOnes, QuietBefores DEF Straight, QuietScript
<1>14. ASSUME program = One!lazyFutureOnOtherThread PROVE QuietScript
  BY <1>14, StraightOnes, QuietBefores DEF Straight, QuietScript
<1>15. ASSUME program = One!eagerFuture PROVE QuietScript
  BY <1>15, StraightOnes, QuietBefores DEF Straight, QuietScript
<1>16. ASSUME program = One!startJobWithAutomaticResumption PROVE QuietScript
  BY <1>16, StraightOnes, QuietBefores DEF Straight, QuietScript
<1>17. ASSUME program = One!startJobWithComments PROVE QuietScript
  BY <1>17, StraightOnes, QuietBefores DEF Straight, QuietScript
<1> QED
  BY <1>2, <1>3, QuietStarts, <1>4, <1>5, <1>6, <1>7, <1>8, <1>9, <1>10, <1>11, <1>12, <1>13, <1>14, <1>15, <1>16, <1>17 DEF Quiets

-----------------------------------------------------------------------------
(* What the invariants are for *)

\* What is claimed of a program with one coroutine.
Sound == /\ One!FrameInUse /\ One!NoFrameLeft
         /\ One!ReadInOrder /\ One!AllRead
         /\ One!ResultIsSet /\ One!HearsMessage

\* A body that yields nothing has nothing to read.
LEMMA YieldsNothing ==
    ASSUME \A i \in 1..Len(body) : body[i] \notin One!Yielding PROVE One!Yielded(Len(body)) = 0
<1>1. {i \in 1..Len(body) : body[i] \in One!Yielding} = {}
  OBVIOUS
<1>2. One!Yielded(Len(body)) = Cardinality({})
  BY <1>1 DEF One!Yielded, One!Cardinality, Cardinality
<1> QED
  BY <1>2, FS_EmptySet

LEMMA EmptyInOrder == ASSUME seen = <<>> PROVE One!ReadInOrder /\ Len(seen) = 0
BY DEF One!ReadInOrder

\* A frame that is freed is not one of those that stay.
LEMMA LeftOver ==
    ASSUME todo = <<>> => frame = IF program \in Voids THEN "done" ELSE "freed" PROVE One!NoFrameLeft
<1>1. CASE program \in Voids
  BY <1>1 DEF One!NoFrameLeft, Voids
<1>2. CASE program \notin Voids
  BY <1>2 DEF One!NoFrameLeft, Voids
<1> QED
  BY <1>1, <1>2

LEMMA QuietMeans == ASSUME QuietInv PROVE Sound
<1>1. /\ program.final \in {"always", "never"}
      /\ program.final = "always" => (program.owned <=> program \notin Voids)
      /\ program.final = "never" => ~program.owned /\ program \notin Voids
      /\ Len(todo) \in Nat /\ (todo = <<>> <=> Len(todo) = 0)
  BY NotEmpty DEF QuietInv, QuietProgram
<1>2. /\ Len(body) \in Nat /\ \A i \in 1..Len(body) : body[i] \in {"ready", "throw"}
  BY QuietBody DEF QuietInv
<1>3. One!HearsMessage
  <2>1. pos \in 0..Len(body)
    BY <1>2 DEF QuietInv, Fresh, Ran
  <2> QED
    BY <1>2, <2>1 DEF One!HearsMessage
<1>4. One!ReadInOrder /\ One!AllRead
  <2>1. One!Yielded(Len(body)) = 0
    BY <1>2, YieldsNothing DEF One!Yielding
  <2> QED
    BY <2>1, EmptyInOrder DEF QuietInv, One!AllRead
<1>5. One!ResultIsSet
  BY DEF QuietInv, QuietProgram, Fresh, Ran, One!ResultIsSet
<1>6. One!NoFrameLeft
  BY <1>1, LeftOver DEF QuietInv
<1>7. One!FrameInUse
  <2> SUFFICES ASSUME todo # <<>>
               PROVE  CASE Head(todo) = "resume" -> frame = "suspended"
                        [] Head(todo) \in {"resume?", "read", "send", "exit?"} -> frame \in {"suspended", "done"}
                        [] Head(todo) = "result" -> program.shared \/ frame \in {"suspended", "done"}
                        [] Head(todo) = "leave" -> program.owned => frame # "freed"
                        [] OTHER -> frame = "none"
    BY DEF One!FrameInUse
  <2>1. Head(todo) = todo[1] /\ Len(todo) \in Nat \ {0}
    BY TailOf DEF QuietInv
  <2>2. CASE frame = "none"
    BY <2>1, <2>2 DEF QuietInv
  <2>3. CASE frame = "suspended"
    BY <2>1, <2>3 DEF QuietInv
  <2>4. CASE frame \notin {"none", "suspended"}
    <3>1. frame = (IF program.final = "always" THEN "done" ELSE "freed") /\ UsesFrom(1)
      BY <1>1, <2>1, <2>4 DEF QuietInv
    <3>2. /\ todo[1] \in {"result", "send", "resume?", "leave"}
          /\ program.final = "never" /\ todo[1] # "leave" => todo[1] = "result" /\ program.shared
      BY <1>1, <2>1, <3>1, UsesNow
    <3> QED
      BY <1>1, <2>1, <3>1, <3>2
  <2> QED
    BY <2>2, <2>3, <2>4
<1> QED
  BY <1>3, <1>4, <1>5, <1>6, <1>7 DEF Sound

-----------------------------------------------------------------------------
(* Programs whose coroutine stops on its way: their state is told by how many *)
(* operations main() has left                                                 *)

\* Which operation is next, and that one fewer is left after it.
LEMMA NextOfScript ==
    ASSUME NEW s \in Seq(Ops), LeftOf(s), One!Next, program.loop = <<>> \/ program.counted,
           \A i \in 1..Len(s) : s[i] # "exit?"
    PROVE  /\ Len(todo) \in Nat \ {0} /\ Len(s) \in Nat /\ Len(todo) <= Len(s)
           /\ Head(todo) = s[Len(s) - Len(todo) + 1]
           /\ LeftOf(s)' /\ Len(todo') = Len(todo) - 1
           /\ UNCHANGED <<program, body, rounds>>
<1>1. UNCHANGED <<program, body, rounds>> /\ todo # <<>> /\ ~One!UntilDone
  BY Operation DEF One!UntilDone
<1>2. todo \in Seq(Ops) /\ Len(todo) <= Len(s) /\ \A i \in 1..Len(todo) : todo[i] = s[Len(s) - Len(todo) + i]
  BY DEF LeftOf
<1> HIDE DEF Ops
<1>3. Len(todo) \in Nat \ {0} /\ Head(todo) = todo[1] /\ Len(s) \in Nat
  BY <1>1, <1>2, TailOf, NotEmpty
<1>4. Head(todo) = s[Len(s) - Len(todo) + 1] /\ Len(s) - Len(todo) + 1 \in 1..Len(s)
  BY <1>2, <1>3
<1>5. Head(todo) # "exit?"
  BY <1>4
<1> QED
  BY <1>1, <1>2, <1>3, <1>4, <1>5, Advance

\* The use of a frame, by the number of operations left.
LEMMA LeftUses ==
    ASSUME NEW s \in Seq(Ops), LeftOf(s), program \notin Voids,
           Len(todo) # 0 => LET op == s[Len(s) - Len(todo) + 1]
                            IN  /\ op = "call" => frame = "none"
                                /\ op = "resume" => frame = "suspended"
                                /\ op \notin {"call", "resume"} => frame \in {"suspended", "done"},
           Len(todo) = 0 => frame = "freed"
    PROVE  One!FrameInUse /\ One!NoFrameLeft
<1>1. /\ todo \in Seq(Ops) /\ Len(todo) \in Nat /\ (todo = <<>> <=> Len(todo) = 0)
      /\ todo # <<>> => Head(todo) = s[Len(s) - Len(todo) + 1]
  <2>1. todo \in Seq(Ops) /\ Len(todo) <= Len(s) /\ \A i \in 1..Len(todo) : todo[i] = s[Len(s) - Len(todo) + i]
    BY DEF LeftOf
  <2>2. Len(todo) \in Nat /\ (todo = <<>> <=> Len(todo) = 0)
    BY <2>1, NotEmpty
  <2>3. todo # <<>> => Head(todo) = todo[1]
    BY <2>1, TailOf
  <2> QED
    BY <2>1, <2>2, <2>3
<1>2. One!NoFrameLeft
  BY <1>1, LeftOver
<1> DEFINE op == Head(todo)
<1>3. ASSUME todo # <<>>
      PROVE  /\ op = "call" => frame = "none"
             /\ op = "resume" => frame = "suspended"
             /\ op \notin {"call", "resume"} => frame \in {"suspended", "done"}
  BY <1>1, <1>3
<1>4. op \in Ops \/ todo = <<>>
  BY <1>1, TailOf
<1> HIDE DEF op
<1>5. One!FrameInUse
  <2>1. todo # <<>> =>
          CASE op = "resume" -> frame = "suspended"
            [] op \in {"resume?", "read", "send", "exit?"} -> frame \in {"suspended", "done"}
            [] op = "result" -> program.shared \/ frame \in {"suspended", "done"}
            [] op = "leave" -> program.owned => frame # "freed"
            [] OTHER -> frame = "none"
    BY <1>3, <1>4 DEF Ops
  <2> QED
    BY <2>1 DEF op, One!FrameInUse
<1> QED
  BY <1>2, <1>5

\* A program starts with its whole script.
LEMMA ScriptStarts ==
    ASSUME One!Init, NEW s \in Seq(Ops), program.before \in Seq(Ops),
           Straight(program, program.initial, program.final, program.owned, program.shared,
                    program.bodies, program.before),
           Len(s) = Len(program.before) + 2, s[1] = "call",
           \A i \in 1..Len(program.before) : s[1 + i] = program.before[i],
           s[Len(program.before) + 2] = "leave"
    PROVE  /\ LeftOf(s) /\ Len(todo) = Len(s) /\ body \in program.bodies /\ rounds = 0
           /\ frame = "none" /\ Fresh /\ heard = "nothing" /\ sent = "nothing" /\ seen = <<>>
           /\ (\A i \in 1..Len(body) : body[i] # "queue") => values = <<0>>
<1> DEFINE b == program.before
<1>1. /\ body \in program.bodies /\ rounds = 0 /\ frame = "none" /\ Fresh /\ heard = "nothing"
      /\ sent = "nothing" /\ seen = <<>>
      /\ (\A i \in 1..Len(body) : body[i] # "queue") => values = <<0>>
      /\ todo \in Seq(Ops) /\ Len(b) \in Nat /\ Len(todo) = Len(b) + 2
      /\ todo[1] = "call" /\ \A i \in 1..Len(b) : todo[1 + i] = b[i]
      /\ todo[Len(b) + 2] = "leave"
  BY StartsStraight
<1>2. Len(s) = Len(b) + 2 /\ s[1] = "call" /\ s[Len(b) + 2] = "leave"
      /\ \A i \in 1..Len(b) : s[1 + i] = b[i]
  OBVIOUS
<1> HIDE DEF b
<1>3. ASSUME NEW i \in 1..Len(todo) PROVE todo[i] = s[i]
  <2>1. CASE i = 1 \/ i = Len(b) + 2
    BY <1>1, <1>2, <2>1
  <2>2. CASE ~(i = 1 \/ i = Len(b) + 2)
    <3>1. i - 1 \in 1..Len(b) /\ 1 + (i - 1) = i
      BY <1>1, <2>2
    <3> QED
      BY <1>1, <1>2, <3>1
  <2> QED
    BY <2>1, <2>2
<1>4. LeftOf(s)
  <2>1. Len(s) \in Nat /\ Len(todo) = Len(s)
    BY <1>1, <1>2
  <2>2. ASSUME NEW i \in 1..Len(todo) PROVE todo[i] = s[Len(s) - Len(todo) + i]
    <3>1. i \in Nat /\ \A m \in Nat : m - m + i = i
      BY <1>1
    <3> QED
      BY <1>3, <2>1, <3>1
  <2> QED
    BY <1>1, <2>1, <2>2 DEF LeftOf
<1> QED
  BY <1>1, <1>2, <1>4

LEMMA FewLeft == ASSUME NEW s \in Seq(Ops), LeftOf(s)
                 PROVE  Len(todo) \in 0..Len(s)
<1>1. Len(todo) \in Nat /\ Len(s) \in Nat /\ Len(todo) <= Len(s)
  BY NotEmpty DEF LeftOf
<1> QED
  BY <1>1

\* value_co_return_final_suspend_never reads a result that is never set.
UnsetScript == <<"call", "result", "leave">>
UnsetInv ==
    /\ program = One!value_co_return_final_suspend_never /\ body = <<>> /\ rounds = 0
    /\ LeftOf(UnsetScript) /\ pos = 0 /\ seen = <<>> /\ result = "unset" /\ got \subseteq {"unset"}
    /\ frame = IF Len(todo) = 3 THEN "none" ELSE IF Len(todo) = 0 THEN "freed" ELSE "suspended"

LEMMA UnsetOps == /\ UnsetScript \in Seq(Ops) /\ Len(UnsetScript) = 3
                  /\ UnsetScript[1] = "call" /\ UnsetScript[2] = "result" /\ UnsetScript[3] = "leave"
                  /\ \A i \in 1..Len(UnsetScript) : UnsetScript[i] # "exit?"
BY DEF Ops, UnsetScript

LEMMA UnsetProgram ==
    LET p == One!value_co_return_final_suspend_never
    IN  /\ Straight(p, "always", "never", TRUE, FALSE, {<<>>}, <<"result">>)
        /\ p.initial = "always" /\ p.owned = TRUE /\ p.loop = <<>> /\ p \notin Voids
BY StraightOnes DEF Straight, Voids

LEMMA UnsetStep == ASSUME UnsetInv, One!Next PROVE UnsetInv'
<1>1. /\ Len(todo) \in Nat \ {0} /\ Len(todo) <= 3 /\ Head(todo) = UnsetScript[3 - Len(todo) + 1]
      /\ LeftOf(UnsetScript)' /\ Len(todo') = Len(todo) - 1
      /\ UNCHANGED <<program, body, rounds>>
      /\ program.initial = "always" /\ program.owned = TRUE
  BY UnsetOps, UnsetProgram, NextOfScript DEF UnsetInv
<1>2. Len(todo) \in {1, 2, 3}
  BY <1>1
<1>3. CASE Len(todo) = 3
  <2>1. Head(todo) = "call"
    BY <1>1, <1>3, UnsetOps
  <2>2. frame' = "suspended" /\ UNCHANGED <<pos, result, seen, got>>
    BY <1>1, <2>1, Operation
  <2> QED
    BY <1>1, <1>3, <2>2 DEF UnsetInv
<1>4. CASE Len(todo) = 2
  <2>1. Head(todo) = "result"
    BY <1>1, <1>4, UnsetOps
  <2>2. got' = got \cup {result} /\ UNCHANGED <<frame, pos, result, seen>>
    BY <1>1, <2>1, Operation
  <2> QED
    BY <1>1, <1>4, <2>2 DEF UnsetInv
<1>5. CASE Len(todo) = 1
  <2>1. Head(todo) = "leave"
    BY <1>1, <1>5, UnsetOps
  <2>2. frame' = "freed" /\ UNCHANGED <<pos, result, seen, got>>
    BY <1>1, <2>1, Operation
  <2> QED
    BY <1>1, <1>5, <2>2 DEF UnsetInv
<1> QED
  BY <1>2, <1>3, <1>4, <1>5

LEMMA UnsetMeans == ASSUME UnsetInv PROVE Sound
<1>1. Len(body) = 0 /\ \A i \in 1..Len(body) : FALSE
  BY DEF UnsetInv
<1>2. One!HearsMessage /\ One!ReadInOrder /\ One!AllRead /\ One!ResultIsSet
  BY <1>1, EmptyInOrder, YieldsNothing DEF UnsetInv, One!HearsMessage, One!AllRead, One!ResultIsSet
<1>3. One!FrameInUse /\ One!NoFrameLeft
  <2>1. Len(todo) \in 0..3
    BY FewLeft, UnsetOps DEF UnsetInv
  <2>2. Len(todo) # 0 => LET op == UnsetScript[3 - Len(todo) + 1]
                         IN  /\ op = "call" => frame = "none"
                             /\ op = "resume" => frame = "suspended"
                             /\ op \notin {"call", "resume"} => frame \in {"suspended", "done"}
    <3>1. CASE Len(todo) = 3
      BY <3>1, UnsetOps DEF UnsetInv
    <3>2. CASE Len(todo) = 2
      BY <3>2, UnsetOps DEF UnsetInv
    <3>3. CASE Len(todo) = 1
      BY <3>3, UnsetOps DEF UnsetInv
    <3> QED
      BY <2>1, <3>1, <3>2, <3>3
  <2>3. Len(todo) = 0 => frame = "freed"
    BY DEF UnsetInv
  <2>4. LeftOf(UnsetScript) /\ program \notin Voids
    BY UnsetProgram DEF UnsetInv
  <2> QED
    BY <2>2, <2>3, <2>4, UnsetOps, LeftUses
<1> QED
  BY <1>2, <1>3 DEF Sound

LEMMA UnsetInit ==
    ASSUME One!Init, program = One!value_co_return_final_suspend_never PROVE UnsetInv
<1>1. /\ program.before \in Seq(Ops) /\ Len(program.before) = 1 /\ program.before[1] = "result"
      /\ program.bodies = {<<>>}
      /\ Straight(program, program.initial, program.final, program.owned, program.shared,
                  program.bodies, program.before)
  BY UnsetProgram DEF Ops, Straight
<1>2. /\ LeftOf(UnsetScript) /\ Len(todo) = 3 /\ body \in {<<>>} /\ rounds = 0
      /\ frame = "none" /\ Fresh /\ seen = <<>>
  BY <1>1, UnsetOps, ScriptStarts
<1> QED
  BY <1>2 DEF UnsetInv, Fresh

\* Where every step yields, as many values are yielded as steps executed.
LEMMA YieldsEach ==
    ASSUME NEW k \in Nat, \A i \in 1..k : body[i] \in One!Yielding PROVE One!Yielded(k) = k
<1>1. {i \in 1..k : body[i] \in One!Yielding} = 1..k
  OBVIOUS
<1>2. One!Yielded(k) = Cardinality(1..k)
  BY <1>1 DEF One!Yielded, One!Cardinality, Cardinality
<1>3. Cardinality(1..k) = IF 1 > k THEN 0 ELSE k - 1 + 1
  BY FS_Interval
<1> QED
  BY <1>2, <1>3

LEMMA OneYielded == ASSUME body = <<"yield">> PROVE One!Yielded(1) = 1 /\ Len(body) = 1
<1>1. \A i \in 1..1 : body[i] \in One!Yielding
  BY DEF One!Yielding
<1> QED
  BY <1>1, YieldsEach

\* co_yield_simple and co_await_simple stop once in the middle.
YieldScript == <<"call", "read", "resume", "result", "leave">>
AwaitScript == <<"call", "send", "resume", "result", "leave">>

HaltsAt(n) ==
    /\ rounds = 0 /\ got \subseteq {"returned"}
    /\ pos = IF n = 5 THEN 0 ELSE 1
    /\ result = IF n >= 3 THEN "unset" ELSE "returned"
    /\ frame = CASE n = 5 -> "none" [] n \in {3, 4} -> "suspended" [] n \in {1, 2} -> "done"
                 [] n = 0 -> "freed"

YieldAt(n) ==
    /\ program = One!co_yield_simple /\ body = <<"yield">> /\ heard = "nothing" /\ HaltsAt(n)
    /\ values = <<IF n = 5 THEN 0 ELSE 1>> /\ seen = IF n >= 4 THEN <<>> ELSE <<1>>
YieldInv == LeftOf(YieldScript) /\ YieldAt(Len(todo))

AwaitAt(n) ==
    /\ program = One!co_await_simple /\ body = <<"receive">> /\ HaltsAt(n)
    /\ values = <<0>> /\ seen = <<>>
    /\ n \in {0, 1, 2, 3} => sent = "message"
    /\ n \in {0, 1, 2} => heard = "message"
AwaitInv == LeftOf(AwaitScript) /\ AwaitAt(Len(todo))

LEMMA HaltOps ==
    /\ YieldScript \in Seq(Ops) /\ Len(YieldScript) = 5
    /\ YieldScript[1] = "call" /\ YieldScript[2] = "read" /\ YieldScript[3] = "resume"
    /\ YieldScript[4] = "result" /\ YieldScript[5] = "leave"
    /\ \A i \in 1..Len(YieldScript) : YieldScript[i] # "exit?"
    /\ AwaitScript \in Seq(Ops) /\ Len(AwaitScript) = 5
    /\ AwaitScript[1] = "call" /\ AwaitScript[2] = "send" /\ AwaitScript[3] = "resume"
    /\ AwaitScript[4] = "result" /\ AwaitScript[5] = "leave"
    /\ \A i \in 1..Len(AwaitScript) : AwaitScript[i] # "exit?"
BY DEF Ops, YieldScript, AwaitScript

LEMMA HaltPrograms ==
    ASSUME NEW p \in {One!co_yield_simple, One!co_await_simple}
    PROVE  p.initial = "never" /\ p.final = "always" /\ p.owned = TRUE /\ p.loop = <<>> /\ p \notin Voids
           /\ p # One!value_co_return_final_suspend_never
BY StraightOnes DEF Straight, Voids

LEMMA YieldStep == ASSUME YieldInv, One!Next PROVE YieldInv'
<1>1. /\ Len(todo) \in Nat \ {0} /\ Len(todo) <= 5 /\ Head(todo) = YieldScript[5 - Len(todo) + 1]
      /\ LeftOf(YieldScript)' /\ Len(todo') = Len(todo) - 1
      /\ UNCHANGED <<program, body, rounds>>
      /\ program.initial = "never" /\ program.final = "always" /\ program.owned = TRUE
  BY HaltOps, HaltPrograms, NextOfScript DEF YieldInv, YieldAt
<1>2. Len(todo) \in {1, 2, 3, 4, 5} /\ Len(body) = 1 /\ One!Yielded(1) = 1 /\ body[1] = "yield"
  BY <1>1, OneYielded DEF YieldInv, YieldAt
<1>3. CASE Len(todo) = 5
  <2>0. YieldAt(5)
    BY <1>3 DEF YieldInv
  <2>1. Head(todo) = "call" /\ pos = 0 /\ Executing
    BY <2>0, <1>1, <1>2, <1>3, HaltOps DEF YieldAt, HaltsAt, Executing
  <2>2. One!Run /\ UNCHANGED <<sent, seen, got>>
    BY <1>1, <2>1, Operation
  <2>3. pos' = 1 /\ frame' = "suspended" /\ UNCHANGED <<result, heard>> /\ values' = <<1>>
    BY <1>2, <2>1, <2>2, RunSuspends DEF One!Suspending
  <2>4. Len(todo') = 4
    BY <1>1, <1>3
  <2>5. YieldAt(4)'
    BY <1>1, <2>0, <1>3, <2>2, <2>3 DEF YieldAt, HaltsAt
  <2> QED
    BY <1>1, <2>5, <2>4 DEF YieldInv
<1>4. CASE Len(todo) = 4
  <2>0. YieldAt(4)
    BY <1>4 DEF YieldInv
  <2>1. Head(todo) = "read"
    BY <1>1, <1>4, HaltOps
  <2>2. seen' = seen \o values /\ UNCHANGED <<frame, pos, values, result, heard, got>>
    BY <2>1, Operation
  <2>3. seen = <<>> /\ values = <<1>> /\ <<>> \o <<1>> = <<1>>
    BY <2>0, <1>4 DEF YieldAt, HaltsAt
  <2>4. Len(todo') = 3
    BY <1>1, <1>4
  <2>5. YieldAt(3)'
    BY <1>1, <2>0, <1>4, <2>2, <2>3 DEF YieldAt, HaltsAt
  <2> QED
    BY <1>1, <2>5, <2>4 DEF YieldInv
<1>5. CASE Len(todo) = 3
  <2>0. YieldAt(3)
    BY <1>5 DEF YieldInv
  <2>1. Head(todo) = "resume" /\ pos = 1 /\ Executing /\ frame = "suspended"
    BY <2>0, <1>1, <1>2, <1>5, HaltOps DEF YieldAt, HaltsAt, Executing
  <2>2. One!Run /\ UNCHANGED <<sent, seen, got>>
    BY <2>1, Operation
  <2>3. /\ pos' = 1 /\ result' = "returned" /\ frame' = "done" /\ UNCHANGED <<values, heard>>
    BY <1>1, <1>2, <2>1, <2>2, RunEnds
  <2>4. Len(todo') = 2
    BY <1>1, <1>5
  <2>5. YieldAt(2)'
    BY <1>1, <2>0, <1>5, <2>2, <2>3 DEF YieldAt, HaltsAt
  <2> QED
    BY <1>1, <2>5, <2>4 DEF YieldInv
<1>6. CASE Len(todo) = 2
  <2>0. YieldAt(2)
    BY <1>6 DEF YieldInv
  <2>1. Head(todo) = "result"
    BY <1>1, <1>6, HaltOps
  <2>2. got' = got \cup {result} /\ UNCHANGED <<frame, pos, values, result, heard, seen>>
    BY <2>1, Operation
  <2>4. Len(todo') = 1
    BY <1>1, <1>6
  <2>5. YieldAt(1)'
    BY <1>1, <2>0, <1>6, <2>2 DEF YieldAt, HaltsAt
  <2> QED
    BY <1>1, <2>5, <2>4 DEF YieldInv
<1>7. CASE Len(todo) = 1
  <2>0. YieldAt(1)
    BY <1>7 DEF YieldInv
  <2>1. Head(todo) = "leave"
    BY <1>1, <1>7, HaltOps
  <2>2. frame' = "freed" /\ UNCHANGED <<pos, values, result, heard, seen, got>>
    BY <1>1, <2>1, Operation
  <2>4. Len(todo') = 0
    BY <1>1, <1>7
  <2>5. YieldAt(0)'
    BY <1>1, <2>0, <1>7, <2>2 DEF YieldAt, HaltsAt
  <2> QED
    BY <1>1, <2>5, <2>4 DEF YieldInv
<1> QED
  BY <1>2, <1>3, <1>4, <1>5, <1>6, <1>7

LEMMA AwaitingStep == ASSUME AwaitInv, One!Next PROVE AwaitInv'
<1>1. /\ Len(todo) \in Nat \ {0} /\ Len(todo) <= 5 /\ Head(todo) = AwaitScript[5 - Len(todo) + 1]
      /\ LeftOf(AwaitScript)' /\ Len(todo') = Len(todo) - 1
      /\ UNCHANGED <<program, body, rounds>>
      /\ program.initial = "never" /\ program.final = "always" /\ program.owned = TRUE
  BY HaltOps, HaltPrograms, NextOfScript DEF AwaitInv, AwaitAt
<1>2. Len(todo) \in {1, 2, 3, 4, 5} /\ Len(body) = 1 /\ body[1] = "receive"
  BY <1>1 DEF AwaitInv, AwaitAt
<1>3. CASE Len(todo) = 5
  <2>0. AwaitAt(5)
    BY <1>3 DEF AwaitInv
  <2>1. Head(todo) = "call" /\ pos = 0 /\ Executing
    BY <2>0, <1>1, <1>2, <1>3, HaltOps DEF AwaitAt, HaltsAt, Executing
  <2>2. One!Run /\ UNCHANGED <<sent, seen, got>>
    BY <1>1, <2>1, Operation
  <2>3. pos' = 1 /\ frame' = "suspended" /\ UNCHANGED <<result, heard, values>>
    BY <1>2, <2>1, <2>2, RunSuspends DEF One!Suspending
  <2>4. Len(todo') = 4
    BY <1>1, <1>3
  <2>5. AwaitAt(4)'
    BY <1>1, <2>0, <1>3, <2>2, <2>3 DEF AwaitAt, HaltsAt
  <2> QED
    BY <1>1, <2>5, <2>4 DEF AwaitInv
<1>4. CASE Len(todo) = 4
  <2>0. AwaitAt(4)
    BY <1>4 DEF AwaitInv
  <2>1. Head(todo) = "send"
    BY <1>1, <1>4, HaltOps
  <2>2. sent' = "message" /\ UNCHANGED <<frame, pos, values, result, heard, seen, got>>
    BY <2>1, Operation
  <2>4. Len(todo') = 3
    BY <1>1, <1>4
  <2>5. AwaitAt(3)'
    BY <1>1, <2>0, <1>4, <2>2 DEF AwaitAt, HaltsAt
  <2> QED
    BY <1>1, <2>5, <2>4 DEF AwaitInv
<1>5. CASE Len(todo) = 3
  <2>0. AwaitAt(3)
    BY <1>5 DEF AwaitInv
  <2>1. Head(todo) = "resume" /\ pos = 1 /\ Executing /\ frame = "suspended" /\ sent = "message"
    BY <2>0, <1>1, <1>2, <1>5, HaltOps DEF AwaitAt, HaltsAt, Executing
  <2>2. One!Run /\ UNCHANGED <<sent, seen, got>>
    BY <2>1, Operation
  <2>3. /\ pos' = 1 /\ result' = "returned" /\ frame' = "done" /\ values' = values
        /\ heard' = "message"
    BY <1>1, <1>2, <2>1, <2>2, RunEnds
  <2>4. Len(todo') = 2
    BY <1>1, <1>5
  <2>5. AwaitAt(2)'
    BY <1>1, <2>0, <1>5, <2>1, <2>2, <2>3 DEF AwaitAt, HaltsAt
  <2> QED
    BY <1>1, <2>5, <2>4 DEF AwaitInv
<1>6. CASE Len(todo) = 2
  <2>0. AwaitAt(2)
    BY <1>6 DEF AwaitInv
  <2>1. Head(todo) = "result"
    BY <1>1, <1>6, HaltOps
  <2>2. got' = got \cup {result} /\ UNCHANGED <<frame, pos, values, result, heard, sent, seen>>
    BY <2>1, Operation
  <2>4. Len(todo') = 1
    BY <1>1, <1>6
  <2>5. AwaitAt(1)'
    BY <1>1, <2>0, <1>6, <2>2 DEF AwaitAt, HaltsAt
  <2> QED
    BY <1>1, <2>5, <2>4 DEF AwaitInv
<1>7. CASE Len(todo) = 1
  <2>0. AwaitAt(1)
    BY <1>7 DEF AwaitInv
  <2>1. Head(todo) = "leave"
    BY <1>1, <1>7, HaltOps
  <2>2. frame' = "freed" /\ UNCHANGED <<pos, values, result, heard, sent, seen, got>>
    BY <1>1, <2>1, Operation
  <2>4. Len(todo') = 0
    BY <1>1, <1>7
  <2>5. AwaitAt(0)'
    BY <1>1, <2>0, <1>7, <2>2 DEF AwaitAt, HaltsAt
  <2> QED
    BY <1>1, <2>5, <2>4 DEF AwaitInv
<1> QED
  BY <1>2, <1>3, <1>4, <1>5, <1>6, <1>7

LEMMA HaltUses ==
    ASSUME HaltsAt(Len(todo)), program \in {One!co_yield_simple, One!co_await_simple},
           NEW s \in {YieldScript, AwaitScript}, LeftOf(s)
    PROVE  One!FrameInUse /\ One!NoFrameLeft
<1>1. Len(todo) \in 0..5 /\ s \in Seq(Ops) /\ Len(s) = 5 /\ program \notin Voids
  BY FewLeft, HaltOps, HaltPrograms
<1>2. Len(todo) # 0 => LET op == s[5 - Len(todo) + 1]
                       IN  /\ op = "call" => frame = "none"
                           /\ op = "resume" => frame = "suspended"
                           /\ op \notin {"call", "resume"} => frame \in {"suspended", "done"}
  <2>1. CASE Len(todo) = 5
    BY <2>1, HaltOps DEF HaltsAt
  <2>2. CASE Len(todo) = 4
    BY <2>2, HaltOps DEF HaltsAt
  <2>3. CASE Len(todo) = 3
    BY <2>3, HaltOps DEF HaltsAt
  <2>4. CASE Len(todo) = 2
    BY <2>4, HaltOps DEF HaltsAt
  <2>5. CASE Len(todo) = 1
    BY <2>5, HaltOps DEF HaltsAt
  <2> QED
    BY <1>1, <2>1, <2>2, <2>3, <2>4, <2>5
<1>3. Len(todo) = 0 => frame = "freed"
  BY DEF HaltsAt
<1> QED
  BY <1>1, <1>2, <1>3, LeftUses

LEMMA YieldMeans == ASSUME YieldInv PROVE Sound
<1>1. One!FrameInUse /\ One!NoFrameLeft
  BY HaltUses DEF YieldInv, YieldAt
<1>2. One!ResultIsSet
  BY HaltPrograms DEF YieldInv, YieldAt, HaltsAt, One!ResultIsSet
<1>3. One!ReadInOrder
  <2>1. <<1>> = [i \in 1..Len(<<1>>) |-> i] /\ <<>> = [i \in 1..Len(<<>>) |-> i]
    OBVIOUS
  <2> QED
    BY <2>1 DEF YieldInv, YieldAt, One!ReadInOrder
<1>4. One!AllRead
  <2>1. todo = <<>> => Len(todo) = 0
    OBVIOUS
  <2> QED
    BY <2>1, OneYielded DEF YieldInv, YieldAt, HaltsAt, One!AllRead
<1>5. One!HearsMessage
  BY DEF YieldInv, YieldAt, HaltsAt, One!HearsMessage
<1> QED
  BY <1>1, <1>2, <1>3, <1>4, <1>5 DEF Sound

LEMMA AwaitMeans == ASSUME AwaitInv PROVE Sound
<1>1. One!FrameInUse /\ One!NoFrameLeft
  BY HaltUses DEF AwaitInv, AwaitAt
<1>2. One!ResultIsSet
  BY HaltPrograms DEF AwaitInv, AwaitAt, HaltsAt, One!ResultIsSet
<1>3. One!ReadInOrder /\ One!AllRead
  <2>1. \A i \in 1..Len(body) : body[i] \notin One!Yielding
    BY DEF AwaitInv, AwaitAt, One!Yielding
  <2> QED
    BY <2>1, YieldsNothing, EmptyInOrder DEF AwaitInv, AwaitAt, HaltsAt, One!AllRead
<1>4. One!HearsMessage
  <2>1. Len(todo) \in 0..5
    BY FewLeft, HaltOps DEF AwaitInv
  <2>2. pos \in {0, 1} /\ (frame = "done" => Len(todo) \in {1, 2})
    BY <2>1 DEF AwaitInv, AwaitAt, HaltsAt
  <2>3. frame = "done" => heard = "message"
    BY <2>1, <2>2 DEF AwaitInv, AwaitAt, HaltsAt
  <2> QED
    BY <2>2, <2>3 DEF One!HearsMessage
<1> QED
  BY <1>1, <1>2, <1>3, <1>4 DEF Sound

LEMMA HaltInit ==
    ASSUME One!Init, program \in {One!co_yield_simple, One!co_await_simple}
    PROVE  YieldInv \/ AwaitInv
<1>1. CASE program = One!co_yield_simple
  <2>1. /\ program.before \in Seq(Ops) /\ Len(program.before) = 3 /\ program.before[1] = "read"
        /\ program.before[2] = "resume" /\ program.before[3] = "result"
        /\ program.bodies = {<<"yield">>}
        /\ Straight(program, program.initial, program.final, program.owned, program.shared,
                    program.bodies, program.before)
    BY <1>1, StraightOnes DEF Ops, Straight
  <2>2. /\ LeftOf(YieldScript) /\ Len(todo) = 5 /\ body = <<"yield">> /\ rounds = 0
        /\ frame = "none" /\ Fresh /\ heard = "nothing" /\ sent = "nothing" /\ seen = <<>>
        /\ (\A i \in 1..Len(body) : body[i] # "queue") => values = <<0>>
    BY <2>1, HaltOps, ScriptStarts
  <2> QED
    BY <1>1, <2>2 DEF YieldInv, YieldAt, HaltsAt, Fresh
<1>2. CASE program = One!co_await_simple
  <2>1. /\ program.before \in Seq(Ops) /\ Len(program.before) = 3 /\ program.before[1] = "send"
        /\ program.before[2] = "resume" /\ program.before[3] = "result"
        /\ program.bodies = {<<"receive">>}
        /\ Straight(program, program.initial, program.final, program.owned, program.shared,
                    program.bodies, program.before)
    BY <1>2, StraightOnes DEF Ops, Straight
  <2>2. /\ LeftOf(AwaitScript) /\ Len(todo) = 5 /\ body = <<"receive">> /\ rounds = 0
        /\ frame = "none" /\ Fresh /\ heard = "nothing" /\ sent = "nothing" /\ seen = <<>>
        /\ (\A i \in 1..Len(body) : body[i] # "queue") => values = <<0>>
    BY <2>1, HaltOps, ScriptStarts
  <2> QED
    BY <1>2, <2>2 DEF AwaitInv, AwaitAt, HaltsAt, Fresh
<1> QED
  BY <1>1, <1>2

\* coroutine_chat: the caller reads, answers, and reads again.
ChatScript == <<"call", "resume?", "read", "send", "resume?", "resume?", "read", "leave">>

ChatAt(n) ==
    /\ program = One!coroutine_chat /\ body = <<"yield", "take", "store">> /\ rounds = 0 /\ got = {}
    /\ frame = CASE n = 8 -> "none" [] n \in {4, 5, 6, 7} -> "suspended" [] n \in {1, 2, 3} -> "done"
                 [] n = 0 -> "freed"
    /\ pos = IF n \in {7, 8} THEN 0 ELSE IF n \in {4, 5, 6} THEN 1 ELSE 3
    /\ values = IF n \in {7, 8} THEN <<0>> ELSE IF n \in {4, 5, 6} THEN <<1>> ELSE <<2>>
    /\ seen = IF n \in {6, 7, 8} THEN <<>> ELSE IF n \in {2, 3, 4, 5} THEN <<1>> ELSE <<1, 2>>
    /\ result = IF n \in {4, 5, 6, 7, 8} THEN "unset" ELSE "returned"
    /\ n \in {0, 1, 2, 3, 4} => sent = "message"
    /\ n \in {0, 1, 2, 3} => heard = "message"
ChatInv == LeftOf(ChatScript) /\ ChatAt(Len(todo))

LEMMA ChatOps ==
    /\ ChatScript \in Seq(Ops) /\ Len(ChatScript) = 8
    /\ ChatScript[1] = "call" /\ ChatScript[2] = "resume?" /\ ChatScript[3] = "read"
    /\ ChatScript[4] = "send" /\ ChatScript[5] = "resume?" /\ ChatScript[6] = "resume?"
    /\ ChatScript[7] = "read" /\ ChatScript[8] = "leave"
    /\ \A i \in 1..Len(ChatScript) : ChatScript[i] # "exit?"
BY DEF Ops, ChatScript

LEMMA ChatProgram ==
    LET p == One!coroutine_chat
    IN  /\ p.initial = "always" /\ p.final = "always" /\ p.owned = TRUE /\ p.loop = <<>>
        /\ p \notin Voids /\ p # One!value_co_return_final_suspend_never
BY StraightOnes DEF Straight, Voids

LEMMA ChatYields ==
    ASSUME body = <<"yield", "take", "store">>
    PROVE  /\ Len(body) = 3 /\ body[1] = "yield" /\ body[2] = "take" /\ body[3] = "store"
           /\ One!Yielded(1) = 1 /\ One!Yielded(3) = 2
<1>1. Len(body) = 3 /\ body[1] = "yield" /\ body[2] = "take" /\ body[3] = "store"
  OBVIOUS
<1>2. \A i \in 1..1 : body[i] \in One!Yielding
  BY <1>1 DEF One!Yielding
<1>3. {i \in 1..3 : body[i] \in One!Yielding} = {1, 3}
  BY <1>1 DEF One!Yielding
<1>4. Cardinality({1, 3}) = 2
  <2>1. IsFiniteSet({}) /\ Cardinality({}) = 0
    BY FS_EmptySet
  <2>2. IsFiniteSet({} \cup {1}) /\ Cardinality({} \cup {1}) = 1
    BY <2>1, FS_AddElement
  <2>3. Cardinality(({} \cup {1}) \cup {3}) = 2
    BY <2>2, FS_AddElement
  <2>4. ({} \cup {1}) \cup {3} = {1, 3}
    OBVIOUS
  <2> QED
    BY <2>3, <2>4
<1>5. One!Yielded(3) = Cardinality({1, 3})
  BY <1>3 DEF One!Yielded, One!Cardinality, Cardinality
<1> QED
  BY <1>1, <1>2, <1>4, <1>5, YieldsEach

LEMMA ChatStep == ASSUME ChatInv, One!Next PROVE ChatInv'
<1>1. /\ Len(todo) \in Nat \ {0} /\ Len(todo) <= 8 /\ Head(todo) = ChatScript[8 - Len(todo) + 1]
      /\ LeftOf(ChatScript)' /\ Len(todo') = Len(todo) - 1
      /\ UNCHANGED <<program, body, rounds>>
      /\ program.initial = "always" /\ program.final = "always" /\ program.owned = TRUE
  BY ChatOps, ChatProgram, NextOfScript DEF ChatInv, ChatAt
<1>2. Len(todo) \in {1, 2, 3, 4, 5, 6, 7, 8}
  <2>1. \A k \in Nat \ {0} : k <= 8 => k \in {1, 2, 3, 4, 5, 6, 7, 8}
    OBVIOUS
  <2> QED
    BY <1>1, <2>1
<1>3. /\ Len(body) = 3 /\ body[1] = "yield" /\ body[2] = "take" /\ body[3] = "store"
      /\ One!Yielded(1) = 1 /\ One!Yielded(3) = 2
  BY ChatYields DEF ChatInv, ChatAt
<1>4. CASE Len(todo) = 8
  <2>1. ChatAt(8) /\ Head(todo) = "call" /\ Len(todo') = 7
    BY <1>1, <1>4, ChatOps DEF ChatInv
  <2>2. frame' = "suspended" /\ UNCHANGED <<pos, values, result, sent, heard, seen, got>>
    BY <1>1, <2>1, Operation
  <2>3. ChatAt(7)'
    BY <1>1, <2>1, <2>2 DEF ChatAt
  <2> QED
    BY <1>1, <2>1, <2>3 DEF ChatInv
<1>5. CASE Len(todo) = 7
  <2>1. ChatAt(7) /\ Head(todo) = "resume?" /\ Len(todo') = 6
    BY <1>1, <1>5, ChatOps DEF ChatInv
  <2>2. frame = "suspended" /\ pos = 0 /\ Executing
    BY <1>3, <2>1 DEF ChatAt, Executing
  <2>3. One!Run /\ UNCHANGED <<sent, seen, got>>
    BY <2>1, <2>2, Operation
  <2>4. /\ pos' = 1 /\ values' = <<1>> /\ UNCHANGED <<frame, result, sent, heard, seen, got>>
    BY <1>3, <2>2, <2>3, RunSuspends DEF One!Suspending
  <2>5. ChatAt(6)'
    BY <1>1, <2>1, <2>4 DEF ChatAt
  <2> QED
    BY <1>1, <2>1, <2>5 DEF ChatInv
<1>6. CASE Len(todo) = 6
  <2>1. ChatAt(6) /\ Head(todo) = "read" /\ Len(todo') = 5
    BY <1>1, <1>6, ChatOps DEF ChatInv
  <2>2. seen' = <<1>> /\ UNCHANGED <<frame, pos, values, result, sent, heard, got>>
    BY <2>1, Operation DEF ChatAt
  <2>3. ChatAt(5)'
    BY <1>1, <2>1, <2>2 DEF ChatAt
  <2> QED
    BY <1>1, <2>1, <2>3 DEF ChatInv
<1>7. CASE Len(todo) = 5
  <2>1. ChatAt(5) /\ Head(todo) = "send" /\ Len(todo') = 4
    BY <1>1, <1>7, ChatOps DEF ChatInv
  <2>2. sent' = "message" /\ UNCHANGED <<frame, pos, values, result, heard, seen, got>>
    BY <2>1, Operation
  <2>3. ChatAt(4)'
    BY <1>1, <2>1, <2>2 DEF ChatAt
  <2> QED
    BY <1>1, <2>1, <2>3 DEF ChatInv
<1>8. CASE Len(todo) = 4
  <2>1. ChatAt(4) /\ Head(todo) = "resume?" /\ Len(todo') = 3
    BY <1>1, <1>8, ChatOps DEF ChatInv
  <2>2. frame = "suspended" /\ pos = 1 /\ sent = "message" /\ Executing
    BY <1>3, <2>1 DEF ChatAt, Executing
  <2>3. One!Run /\ UNCHANGED <<sent, seen, got>>
    BY <2>1, <2>2, Operation
  <2>4. \A i \in 2..3 : body[i] \notin One!Suspending \cup {"throw"} /\ body[i] # "queue"
    BY <1>3 DEF One!Suspending
  <2>5. body[3] \in One!Yielding /\ 2 \in 2..3 /\ 3 \in 2..3
    BY <1>3 DEF One!Yielding
  <2>6. /\ pos' = 3 /\ values' = <<2>> /\ result' = "returned" /\ frame' = "done"
        /\ heard' = "message" /\ UNCHANGED <<sent, seen, got>>
    BY <1>1, <1>3, <2>2, <2>3, <2>4, <2>5, RunEnds
  <2>7. ChatAt(3)'
    BY <1>1, <2>1, <2>6 DEF ChatAt
  <2> QED
    BY <1>1, <2>1, <2>7 DEF ChatInv
<1>9. CASE Len(todo) = 3
  <2>1. ChatAt(3) /\ Head(todo) = "resume?" /\ Len(todo') = 2
    BY <1>1, <1>9, ChatOps DEF ChatInv
  <2>2. UNCHANGED <<frame, pos, values, result, sent, heard, seen, got>>
    BY <2>1, Operation DEF ChatAt
  <2>3. ChatAt(2)'
    BY <1>1, <2>1, <2>2 DEF ChatAt
  <2> QED
    BY <1>1, <2>1, <2>3 DEF ChatInv
<1>10. CASE Len(todo) = 2
  <2>1. ChatAt(2) /\ Head(todo) = "read" /\ Len(todo') = 1
    BY <1>1, <1>10, ChatOps DEF ChatInv
  <2>2. seen' = <<1, 2>> /\ UNCHANGED <<frame, pos, values, result, sent, heard, got>>
    BY <2>1, Operation DEF ChatAt
  <2>3. ChatAt(1)'
    BY <1>1, <2>1, <2>2 DEF ChatAt
  <2> QED
    BY <1>1, <2>1, <2>3 DEF ChatInv
<1>11. CASE Len(todo) = 1
  <2>1. ChatAt(1) /\ Head(todo) = "leave" /\ Len(todo') = 0
    BY <1>1, <1>11, ChatOps DEF ChatInv
  <2>2. frame' = "freed" /\ UNCHANGED <<pos, values, result, sent, heard, seen, got>>
    BY <1>1, <2>1, Operation
  <2>3. ChatAt(0)'
    BY <1>1, <2>1, <2>2 DEF ChatAt
  <2> QED
    BY <1>1, <2>1, <2>3 DEF ChatInv
<1> QED
  BY <1>2, <1>4, <1>5, <1>6, <1>7, <1>8, <1>9, <1>10, <1>11

LEMMA ChatMeans == ASSUME ChatInv PROVE Sound
<1>1. Len(todo) \in 0..8 /\ program \notin Voids
  BY FewLeft, ChatOps, ChatProgram DEF ChatInv, ChatAt
<1>2. One!FrameInUse /\ One!NoFrameLeft
  <2>1. Len(todo) # 0 => LET op == ChatScript[8 - Len(todo) + 1]
                         IN  /\ op = "call" => frame = "none"
                             /\ op = "resume" => frame = "suspended"
                             /\ op \notin {"call", "resume"} => frame \in {"suspended", "done"}
    <3>1. CASE Len(todo) = 8
      BY <3>1, ChatOps DEF ChatInv, ChatAt
    <3>2. CASE Len(todo) = 7
      BY <3>2, ChatOps DEF ChatInv, ChatAt
    <3>3. CASE Len(todo) = 6
      BY <3>3, ChatOps DEF ChatInv, ChatAt
    <3>4. CASE Len(todo) = 5
      BY <3>4, ChatOps DEF ChatInv, ChatAt
    <3>5. CASE Len(todo) = 4
      BY <3>5, ChatOps DEF ChatInv, ChatAt
    <3>6. CASE Len(todo) = 3
      BY <3>6, ChatOps DEF ChatInv, ChatAt
    <3>7. CASE Len(todo) = 2
      BY <3>7, ChatOps DEF ChatInv, ChatAt
    <3>8. CASE Len(todo) = 1
      BY <3>8, ChatOps DEF ChatInv, ChatAt
    <3> QED
      BY <1>1, <3>1, <3>2, <3>3, <3>4, <3>5, <3>6, <3>7, <3>8
  <2>2. Len(todo) = 0 => frame = "freed"
    BY DEF ChatInv, ChatAt
  <2>3. LeftOf(ChatScript)
    BY DEF ChatInv
  <2> QED
    BY <1>1, <2>1, <2>2, <2>3, ChatOps, LeftUses
<1>3. One!ResultIsSet
  BY ChatProgram DEF ChatInv, ChatAt, One!ResultIsSet
<1>4. One!ReadInOrder
  <2>1. /\ <<1>> = [i \in 1..Len(<<1>>) |-> i] /\ <<>> = [i \in 1..Len(<<>>) |-> i]
        /\ <<1, 2>> = [i \in 1..Len(<<1, 2>>) |-> i]
    OBVIOUS
  <2>2. seen = <<>> \/ seen = <<1>> \/ seen = <<1, 2>>
    BY DEF ChatInv, ChatAt
  <2> QED
    BY <2>1, <2>2 DEF One!ReadInOrder
<1>5. One!AllRead
  <2>1. todo = <<>> => Len(todo) = 0
    OBVIOUS
  <2>2. Len(todo) = 0 => seen = <<1, 2>> /\ rounds = 0
    BY DEF ChatInv, ChatAt
  <2>3. One!Yielded(Len(body)) = 2
    BY ChatYields DEF ChatInv, ChatAt
  <2> QED
    BY <2>1, <2>2, <2>3 DEF One!AllRead
<1>6. One!HearsMessage
  <2>1. /\ pos \in {0, 1, 3} /\ (pos = 3 => heard = "message")
        /\ body[1] = "yield" /\ body[2] = "take" /\ body[3] = "store"
    BY <1>1 DEF ChatInv, ChatAt
  <2> QED
    BY <2>1 DEF One!HearsMessage
<1> QED
  BY <1>2, <1>3, <1>4, <1>5, <1>6 DEF Sound

LEMMA ChatInit == ASSUME One!Init, program = One!coroutine_chat PROVE ChatInv
<1>1. /\ program.before \in Seq(Ops) /\ Len(program.before) = 6
      /\ program.before[1] = "resume?" /\ program.before[2] = "read" /\ program.before[3] = "send"
      /\ program.before[4] = "resume?" /\ program.before[5] = "resume?" /\ program.before[6] = "read"
      /\ program.bodies = {<<"yield", "take", "store">>}
  BY StraightOnes DEF Ops, Straight
<1>2. Straight(program, program.initial, program.final, program.owned, program.shared,
               program.bodies, program.before)
  BY StraightOnes DEF Straight
<1>3. /\ LeftOf(ChatScript) /\ Len(todo) = 8 /\ body = <<"yield", "take", "store">> /\ rounds = 0
      /\ frame = "none" /\ Fresh /\ heard = "nothing" /\ sent = "nothing" /\ seen = <<>>
      /\ (\A i \in 1..Len(body) : body[i] # "queue") => values = <<0>>
  <2>1. /\ ChatScript \in Seq(Ops) /\ Len(ChatScript) = Len(program.before) + 2
        /\ ChatScript[1] = "call" /\ ChatScript[Len(program.before) + 2] = "leave"
    BY <1>1, ChatOps
  <2>2. \A i \in 1..Len(program.before) : ChatScript[1 + i] = program.before[i]
    BY <1>1, ChatOps
  <2>3. /\ LeftOf(ChatScript) /\ Len(todo) = Len(ChatScript) /\ body \in program.bodies /\ rounds = 0
        /\ frame = "none" /\ Fresh /\ heard = "nothing" /\ sent = "nothing" /\ seen = <<>>
        /\ (\A i \in 1..Len(body) : body[i] # "queue") => values = <<0>>
    <3>1. program.before \in Seq(Ops)
      BY <1>1
    <3> QED
      BY <1>2, <2>1, <2>2, <3>1, ScriptStarts
  <2> QED
    BY <1>1, <2>3, ChatOps
<1>4. values = <<0>>
  BY <1>3, ChatYields
<1>5. ChatAt(8)
  BY <1>3, <1>4 DEF ChatAt, Fresh
<1> QED
  BY <1>3, <1>5 DEF ChatInv

-----------------------------------------------------------------------------
(* Programs that repeat their operations until the coroutine is done: which  *)
(* operation follows which one                                               *)

\* These read one value a round.
Cyclics == {One!co_yield_suspended_loop, One!Fibonacci, One!generator,
            One!utils_generator, One!generator_range}

\* After a, main() does b in program p.
Comes(p, a, b) ==
    \/ a = "result" /\ b = "leave"
    \/ /\ p = One!co_yield_unsuspended_loop
       /\ (a \in {"call", "exit?"} /\ b = "read") \/ (a = "read" /\ b = "exit?")
    \/ /\ p = One!basic_task
       /\ (a \in {"call", "exit?"} /\ b = "resume?") \/ (a = "resume?" /\ b = "exit?")
    \/ /\ p \in Cyclics
       /\ \/ a = "call" /\ p.initial = "never" /\ b = "read"
          \/ a = "call" /\ p.initial = "always" /\ b \in {"resume", "resume?"}
          \/ a \in {"resume", "resume?"} /\ b = "exit?"
          \/ a = "exit?" /\ b = "read"
          \/ a = "read" /\ b \in {"resume", "resume?"}

\* The operations t of p follow each other so, and where they end the loop starts again.
Ordered(p, t) ==
    /\ t \in Seq(Ops)
    /\ \A i \in 1..Len(t) : i < Len(t) => Comes(p, t[i], t[i + 1])
    /\ Len(t) > 0 => t[Len(t)] = "leave" \/ Comes(p, t[Len(t)], p.loop[1])

InOrder == Ordered(program, todo)

\* The operation that main() does next.
Op == IF todo = <<>> THEN "left" ELSE Head(todo)

LoopProgram ==
    /\ One!UntilDone /\ program.final = "always" /\ program.owned = TRUE
    /\ program.initial \in {"always", "never"} /\ program.after \in {<<>>, <<"result">>}
    /\ program \notin Voids /\ program # One!value_co_return_final_suspend_never
    /\ Ordered(program, program.loop) /\ program.loop # <<>>

LEMMA OrderedTail ==
    ASSUME NEW p, NEW t, Ordered(p, t), t # <<>>, Tail(t) # <<>>
    PROVE  Ordered(p, Tail(t)) /\ Comes(p, Head(t), Head(Tail(t))) /\ Head(t) # "leave"
<1>1. /\ t \in Seq(Ops) /\ \A i \in 1..Len(t) : i < Len(t) => Comes(p, t[i], t[i + 1])
      /\ Len(t) > 0 => t[Len(t)] = "leave" \/ Comes(p, t[Len(t)], p.loop[1])
  BY DEF Ordered
<1> DEFINE u == Tail(t)
<1> HIDE DEF Ops
<1>2. /\ Len(t) \in Nat \ {0} /\ Head(t) = t[1] /\ u \in Seq(Ops) /\ Len(u) = Len(t) - 1
      /\ \A i \in 1..Len(u) : u[i] = t[i + 1]
  BY <1>1, TailOf
<1>3. u # <<>>
  OBVIOUS
<1> HIDE DEF u
<1>4. Len(u) \in Nat \ {0} /\ Head(u) = u[1]
  BY <1>2, <1>3, TailOf
<1>5. ASSUME NEW i \in 1..Len(u), i < Len(u) PROVE Comes(p, u[i], u[i + 1])
  <2>1. i + 1 \in 1..Len(t) /\ i + 1 < Len(t) /\ i + 1 \in 1..Len(u)
    BY <1>2, <1>4, <1>5
  <2> QED
    BY <1>1, <1>2, <2>1
<1>6. u[Len(u)] = t[Len(t)] /\ Len(t) > 0
  <2>1. Len(u) \in 1..Len(u) /\ Len(u) + 1 = Len(t)
    BY <1>2, <1>4
  <2> QED
    BY <1>2, <2>1
<1>7. Ordered(p, u)
  BY <1>1, <1>2, <1>5, <1>6 DEF Ordered
<1>8. Comes(p, t[1], t[2]) /\ u[1] = t[2]
  <2>1. 1 \in 1..Len(t) /\ 1 < Len(t) /\ 1 \in 1..Len(u) /\ 1 + 1 = 2
    BY <1>2, <1>4
  <2>2. Comes(p, t[1], t[1 + 1]) /\ u[1] = t[1 + 1]
    BY <1>1, <1>2, <2>1
  <2> QED
    BY <2>1, <2>2
<1>9. t[1] # "leave"
  BY <1>8 DEF Comes
<1> QED
  BY <1>2, <1>4, <1>7, <1>8, <1>9 DEF u

LEMMA OneLeft == ASSUME NEW t \in Seq(Ops), t # <<>>, Tail(t) = <<>> PROVE Len(t) = 1
<1> DEFINE u == Tail(t)
<1> HIDE DEF Ops
<1>1. Len(t) \in Nat \ {0} /\ Len(u) = Len(t) - 1 /\ u \in Seq(Ops)
  BY TailOf
<1>2. u = <<>>
  OBVIOUS
<1> HIDE DEF u
<1>3. Len(u) = 0
  BY <1>1, <1>2, NotEmpty
<1> QED
  BY <1>1, <1>3

\* What every operation but a last exit leads to.
LEMMA NextOp ==
    ASSUME InOrder, LoopProgram, One!Next, ~(Op = "exit?" /\ frame = "done")
    PROVE  /\ InOrder' /\ Op = Head(todo) /\ todo # <<>> /\ Op \in Ops
           /\ Op = "leave" => Op' = "left" /\ todo' = <<>>
           /\ Op # "leave" => Comes(program, Op, Op') /\ todo' # <<>>
<1>1. /\ UNCHANGED <<program, body, rounds>> /\ todo # <<>> /\ Op = Head(todo)
      /\ todo' = IF Tail(todo) = <<>> /\ Op # "leave" THEN program.loop ELSE Tail(todo)
  BY Operation DEF Onward, Op, LoopProgram
<1>2. todo \in Seq(Ops) /\ Len(todo) \in Nat \ {0} /\ Op = todo[1] /\ Op \in Ops
      /\ Len(Tail(todo)) = Len(todo) - 1 /\ Tail(todo) \in Seq(Ops)
  <2> HIDE DEF Ops
  <2>1. todo \in Seq(Ops)
    BY DEF InOrder, Ordered
  <2> QED
    BY <1>1, <2>1, TailOf
<1>3. CASE Tail(todo) # <<>>
  <2>1. Ordered(program, todo') /\ Comes(program, Op, Head(todo')) /\ Op # "leave"
    BY <1>1, <1>3, OrderedTail DEF InOrder
  <2> QED
    BY <1>1, <1>2, <1>3, <2>1 DEF InOrder, Op
<1>4. CASE Tail(todo) = <<>> /\ Op # "leave"
  <2>1. todo' = program.loop /\ Ordered(program, program.loop) /\ program.loop # <<>>
    BY <1>1, <1>4 DEF LoopProgram
  <2>2. Len(todo) = 1
    BY <1>1, <1>2, <1>4, OneLeft
  <2>3. Comes(program, Op, program.loop[1])
    BY <1>2, <1>4, <2>2 DEF InOrder, Ordered
  <2>4. Head(program.loop) = program.loop[1]
    BY <2>1, TailOf DEF Ordered
  <2> QED
    BY <1>1, <1>2, <1>4, <2>1, <2>3, <2>4 DEF InOrder, Op
<1>5. CASE Tail(todo) = <<>> /\ Op = "leave"
  <2>1. todo' = <<>> /\ Op' = "left"
    BY <1>1, <1>5 DEF Op
  <2>2. Ordered(program', <<>>)
    BY DEF Ordered
  <2> QED
    BY <1>1, <1>2, <1>5, <2>1, <2>2 DEF InOrder
<1> QED
  BY <1>3, <1>4, <1>5

\* A last exit leads to the end of main().
LEMMA LastExit ==
    ASSUME LoopProgram, One!Next, Op = "exit?", frame = "done"
    PROVE  /\ InOrder' /\ Op' \in {"result", "leave"}
           /\ UNCHANGED <<program, body, rounds, frame, pos, values, result, sent, heard, seen, got>>
<1>1. /\ UNCHANGED <<program, body, rounds, frame, pos, values, result, sent, heard, seen, got>>
      /\ todo' = program.after \o <<"leave">>
  BY Operation DEF Op
<1>2. CASE program.after = <<>>
  <2>1. <<>> \o <<"leave">> = <<"leave">>
    OBVIOUS
  <2>2. <<"leave">> \in Seq(Ops) /\ Len(<<"leave">>) = 1 /\ <<"leave">>[1] = "leave"
        /\ <<"leave">> # <<>> /\ Head(<<"leave">>) = "leave"
    BY DEF Ops
  <2>3. Ordered(program', <<"leave">>)
    BY <2>2 DEF Ordered
  <2> QED
    BY <1>1, <1>2, <2>1, <2>2, <2>3 DEF InOrder, Op
<1>3. CASE program.after = <<"result">>
  <2>1. "result" \in Ops /\ "leave" \in Ops
    BY DEF Ops
  <2> DEFINE s == <<"result">>
             t == <<"leave">>
  <2>2. s \in Seq(Ops) /\ Len(s) = 1 /\ s[1] = "result" /\ t \in Seq(Ops) /\ Len(t) = 1 /\ t[1] = "leave"
    BY <2>1, OneOp
  <2>3. todo' = s \o t
    BY <1>1, <1>3
  <2> HIDE DEF s, t, Ops
  <2> DEFINE z == s \o t
  <2>4. z \in Seq(Ops) /\ Len(z) = 2 /\ z[1] = "result" /\ z[2] = "leave"
    BY <2>2, Joined
  <2> HIDE DEF z
  <2>5. \A p : Comes(p, "result", "leave")
    BY DEF Comes
  <2>6. Ordered(program', z) /\ z # <<>> /\ Head(z) = "result"
    <3>1. z # <<>> /\ Head(z) = z[1]
      BY <2>4, TailOf, NotEmpty
    <3> QED
      BY <2>4, <2>5, <3>1 DEF Ordered
  <2> QED
    BY <1>1, <2>3, <2>4, <2>6 DEF InOrder, Op, z
<1> QED
  BY <1>2, <1>3 DEF LoopProgram

\* What main() does from the beginning to its first repetition.
LEMMA StartsLooping ==
    ASSUME One!Init, One!UntilDone, program.before \in Seq(Ops), program.loop \in Seq(Ops)
    PROVE  LET b == program.before
               l == program.loop
           IN  /\ body \in program.bodies /\ rounds = 0 /\ frame = "none" /\ Fresh
               /\ heard = "nothing" /\ seen = <<>>
               /\ (\A i \in 1..Len(body) : body[i] # "queue") => values = <<0>>
               /\ body = One!Times(3, "queue") => values = <<>>
               /\ todo \in Seq(Ops) /\ Len(b) \in Nat /\ Len(l) \in Nat
               /\ Len(todo) = 1 + Len(b) + Len(l)
               /\ todo[1] = "call" /\ \A i \in 1..Len(b) : todo[1 + i] = b[i]
               /\ \A i \in 1..Len(l) : todo[1 + Len(b) + i] = l[i]
<1>1. /\ body \in program.bodies /\ rounds = 0 /\ frame = "none" /\ Fresh
      /\ heard = "nothing" /\ seen = <<>>
      /\ todo = <<"call">> \o program.before \o program.loop
  BY DEF One!Init, Fresh
<1>2. ASSUME \A i \in 1..Len(body) : body[i] # "queue" PROVE values = <<0>>
  BY <1>2 DEF One!Init, One!ToSet
<1>3. ASSUME body = One!Times(3, "queue") PROVE values = <<>>
  <2>1. body = [i \in 1..3 |-> "queue"]
    BY <1>3 DEF One!Times
  <2>2. 1 \in DOMAIN body /\ body[1] = "queue"
    BY <2>1
  <2> QED
    BY <2>2 DEF One!Init, One!ToSet
<1> QED
  BY <1>1, <1>2, <1>3, Opening

\* Few operations that follow each other.
LEMMA OrderedTwo ==
    ASSUME NEW p, NEW t \in Seq(Ops), Len(t) = 2, Comes(p, t[2], p.loop[1]),
           Comes(p, t[1], t[2])
    PROVE  Ordered(p, t)
<1>1. ASSUME NEW i \in 1..Len(t), i < Len(t) PROVE Comes(p, t[i], t[i + 1])
  <2>1. i \in {1}
    BY <1>1
  <2> QED
    BY <2>1
<1> QED
  BY <1>1 DEF Ordered

LEMMA OrderedThree ==
    ASSUME NEW p, NEW t \in Seq(Ops), Len(t) = 3, Comes(p, t[3], p.loop[1]),
           Comes(p, t[1], t[2]), Comes(p, t[2], t[3])
    PROVE  Ordered(p, t)
<1>1. ASSUME NEW i \in 1..Len(t), i < Len(t) PROVE Comes(p, t[i], t[i + 1])
  <2>1. i \in {1, 2}
    BY <1>1
  <2> QED
    BY <2>1
<1> QED
  BY <1>1 DEF Ordered

LEMMA OrderedFour ==
    ASSUME NEW p, NEW t \in Seq(Ops), Len(t) = 4, Comes(p, t[4], p.loop[1]),
           Comes(p, t[1], t[2]), Comes(p, t[2], t[3]), Comes(p, t[3], t[4])
    PROVE  Ordered(p, t)
<1>1. ASSUME NEW i \in 1..Len(t), i < Len(t) PROVE Comes(p, t[i], t[i + 1])
  <2>1. i \in {1, 2, 3}
    BY <1>1
  <2> QED
    BY <2>1
<1> QED
  BY <1>1 DEF Ordered

LEMMA OrderedFive ==
    ASSUME NEW p, NEW t \in Seq(Ops), Len(t) = 5, Comes(p, t[5], p.loop[1]),
           Comes(p, t[1], t[2]), Comes(p, t[2], t[3]), Comes(p, t[3], t[4]), Comes(p, t[4], t[5])
    PROVE  Ordered(p, t)
<1>1. ASSUME NEW i \in 1..Len(t), i < Len(t) PROVE Comes(p, t[i], t[i + 1])
  <2>1. i \in {1, 2, 3, 4}
    BY <1>1
  <2> QED
    BY <2>1
<1> QED
  BY <1>1 DEF Ordered

\* The programs that loop until the coroutine is done.
Loops == Cyclics \cup {One!co_yield_unsuspended_loop, One!basic_task}

LEMMA LoopFields ==
    ASSUME NEW p \in Loops
    PROVE  /\ p.final = "always" /\ p.owned = TRUE /\ p.shared = FALSE /\ p.counted = FALSE
           /\ p.initial \in {"always", "never"} /\ p.after \in {<<>>, <<"result">>}
           /\ p \notin Voids /\ p # One!value_co_return_final_suspend_never
           /\ p.loop # <<>> /\ p.loop \in Seq(Ops) /\ p.before \in Seq(Ops)
<1>0. /\ <<>> \in Seq(Ops) /\ <<"resume">> \in Seq(Ops)
      /\ \A l \in {<<"read", "resume", "exit?">>, <<"read", "exit?">>, <<"resume", "exit?", "read">>,
                  <<"resume?", "exit?">>, <<"resume?", "exit?", "read">>,
                  <<"exit?", "read", "resume">>} : l # <<>> /\ l \in Seq(Ops)
  BY DEF Ops
<1>1. ASSUME p.owned = TRUE, p.final = "always"
      PROVE  p \notin Voids /\ p # One!value_co_return_final_suspend_never
  BY <1>1, StraightOnes DEF Straight, Voids
<1>2. CASE p = One!co_yield_suspended_loop
  BY <1>0, <1>1, <1>2, LoopingOnes DEF Looping
<1>3. CASE p = One!co_yield_unsuspended_loop
  BY <1>0, <1>1, <1>3, LoopingOnes DEF Looping
<1>4. CASE p = One!Fibonacci
  BY <1>0, <1>1, <1>4, LoopingOnes DEF Looping
<1>5. CASE p = One!basic_task
  BY <1>0, <1>1, <1>5, LoopingOnes DEF Looping
<1>6. CASE p = One!generator
  BY <1>0, <1>1, <1>6, LoopingOnes DEF Looping
<1>7. CASE p = One!utils_generator
  BY <1>0, <1>1, <1>7, LoopingOnes DEF Looping
<1>8. CASE p = One!generator_range
  BY <1>0, <1>1, <1>8, LoopingOnes DEF Looping
<1> QED
  BY <1>2, <1>3, <1>4, <1>5, <1>6, <1>7, <1>8 DEF Loops, Cyclics

\* The loop of each program, and all it does before the first repetition, in their order.
LEMMA LoopOrder ==
    ASSUME One!Init, program \in Loops
    PROVE  /\ Ordered(program, program.loop) /\ InOrder /\ Op = "call"
<1> DEFINE b == program.before
           l == program.loop
<1>1. One!UntilDone /\ b \in Seq(Ops) /\ l \in Seq(Ops)
  BY LoopFields DEF One!UntilDone
<1>2. /\ todo \in Seq(Ops) /\ Len(b) \in Nat /\ Len(l) \in Nat /\ Len(todo) = 1 + Len(b) + Len(l)
      /\ todo[1] = "call" /\ \A i \in 1..Len(b) : todo[1 + i] = b[i]
      /\ \A i \in 1..Len(l) : todo[1 + Len(b) + i] = l[i]
  BY <1>1, StartsLooping
<1> HIDE DEF b, l
<1>3. Op = "call"
  <2>1. todo # <<>> /\ Head(todo) = todo[1]
    BY <1>2, TailOf, NotEmpty
  <2> QED
    BY <1>2, <2>1 DEF Op
<1>4. CASE program = One!co_yield_suspended_loop
  <2>1. /\ Len(b) = 0 /\ Len(l) = 3 /\ program.initial = "never"
        /\ l[1] = "read" /\ l[2] = "resume" /\ l[3] = "exit?"
    BY <1>4, LoopingOnes DEF Looping, b, l
  <2>2. /\ Len(todo) = 4
        /\ todo[2] = "read" /\ todo[3] = "resume" /\ todo[4] = "exit?"
    BY <1>2, <2>1
  <2>3. /\ Comes(program, "call", "read")
        /\ Comes(program, "read", "resume")
        /\ Comes(program, "resume", "exit?")
        /\ Comes(program, "exit?", "read")
    BY <1>4, <2>1 DEF Comes, Cyclics
  <2>4. program.loop[1] = "read" /\ l \in Seq(Ops)
    BY <1>1, <2>1 DEF l
  <2>5. Ordered(program, l)
    <3>1. /\ Comes(program, l[1], l[2])
          /\ Comes(program, l[2], l[3])
          /\ Comes(program, l[3], program.loop[1])
      BY <1>2, <2>1, <2>2, <2>3, <2>4
    <3>2. l \in Seq(Ops) /\ Len(l) = 3
      BY <1>2, <2>1, <2>2, <2>4
    <3> QED
      BY <3>1, <3>2, OrderedThree
  <2>6. Ordered(program, todo)
    <3>1. /\ Comes(program, todo[1], todo[2])
          /\ Comes(program, todo[2], todo[3])
          /\ Comes(program, todo[3], todo[4])
          /\ Comes(program, todo[4], program.loop[1])
      BY <1>2, <2>1, <2>2, <2>3, <2>4
    <3>2. todo \in Seq(Ops) /\ Len(todo) = 4
      BY <1>2, <2>1, <2>2, <2>4
    <3> QED
      BY <3>1, <3>2, OrderedFour
  <2> QED
    BY <1>3, <2>5, <2>6 DEF InOrder, l
<1>5. CASE program = One!co_yield_unsuspended_loop
  <2>1. /\ Len(b) = 0 /\ Len(l) = 2 /\ program.initial = "never"
        /\ l[1] = "read" /\ l[2] = "exit?"
    BY <1>5, LoopingOnes DEF Looping, b, l
  <2>2. /\ Len(todo) = 3
        /\ todo[2] = "read" /\ todo[3] = "exit?"
    BY <1>2, <2>1
  <2>3. /\ Comes(program, "call", "read")
        /\ Comes(program, "read", "exit?")
        /\ Comes(program, "exit?", "read")
    BY <1>5, <2>1 DEF Comes
  <2>4. program.loop[1] = "read" /\ l \in Seq(Ops)
    BY <1>1, <2>1 DEF l
  <2>5. Ordered(program, l)
    <3>1. /\ Comes(program, l[1], l[2])
          /\ Comes(program, l[2], program.loop[1])
      BY <1>2, <2>1, <2>2, <2>3, <2>4
    <3>2. l \in Seq(Ops) /\ Len(l) = 2
      BY <1>2, <2>1, <2>2, <2>4
    <3> QED
      BY <3>1, <3>2, OrderedTwo
  <2>6. Ordered(program, todo)
    <3>1. /\ Comes(program, todo[1], todo[2])
          /\ Comes(program, todo[2], todo[3])
          /\ Comes(program, todo[3], program.loop[1])
      BY <1>2, <2>1, <2>2, <2>3, <2>4
    <3>2. todo \in Seq(Ops) /\ Len(todo) = 3
      BY <1>2, <2>1, <2>2, <2>4
    <3> QED
      BY <3>1, <3>2, OrderedThree
  <2> QED
    BY <1>3, <2>5, <2>6 DEF InOrder, l
<1>6. CASE program = One!Fibonacci
  <2>1. /\ Len(b) = 0 /\ Len(l) = 3 /\ program.initial = "always"
        /\ l[1] = "resume" /\ l[2] = "exit?" /\ l[3] = "read"
    BY <1>6, LoopingOnes DEF Looping, b, l
  <2>2. /\ Len(todo) = 4
        /\ todo[2] = "resume" /\ todo[3] = "exit?" /\ todo[4] = "read"
    BY <1>2, <2>1
  <2>3. /\ Comes(program, "call", "resume")
        /\ Comes(program, "resume", "exit?")
        /\ Comes(program, "exit?", "read")
        /\ Comes(program, "read", "resume")
    BY <1>6, <2>1 DEF Comes, Cyclics
  <2>4. program.loop[1] = "resume" /\ l \in Seq(Ops)
    BY <1>1, <2>1 DEF l
  <2>5. Ordered(program, l)
    <3>1. /\ Comes(program, l[1], l[2])
          /\ Comes(program, l[2], l[3])
          /\ Comes(program, l[3], program.loop[1])
      BY <1>2, <2>1, <2>2, <2>3, <2>4
    <3>2. l \in Seq(Ops) /\ Len(l) = 3
      BY <1>2, <2>1, <2>2, <2>4
    <3> QED
      BY <3>1, <3>2, OrderedThree
  <2>6. Ordered(program, todo)
    <3>1. /\ Comes(program, todo[1], todo[2])
          /\ Comes(program, todo[2], todo[3])
          /\ Comes(program, todo[3], todo[4])
          /\ Comes(program, todo[4], program.loop[1])
      BY <1>2, <2>1, <2>2, <2>3, <2>4
    <3>2. todo \in Seq(Ops) /\ Len(todo) = 4
      BY <1>2, <2>1, <2>2, <2>4
    <3> QED
      BY <3>1, <3>2, OrderedFour
  <2> QED
    BY <1>3, <2>5, <2>6 DEF InOrder, l
<1>7. CASE program = One!basic_task
  <2>1. /\ Len(b) = 0 /\ Len(l) = 2 /\ program.initial = "always"
        /\ l[1] = "resume?" /\ l[2] = "exit?"
    BY <1>7, LoopingOnes DEF Looping, b, l
  <2>2. /\ Len(todo) = 3
        /\ todo[2] = "resume?" /\ todo[3] = "exit?"
    BY <1>2, <2>1
  <2>3. /\ Comes(program, "call", "resume?")
        /\ Comes(program, "resume?", "exit?")
        /\ Comes(program, "exit?", "resume?")
    BY <1>7, <2>1 DEF Comes
  <2>4. program.loop[1] = "resume?" /\ l \in Seq(Ops)
    BY <1>1, <2>1 DEF l
  <2>5. Ordered(program, l)
    <3>1. /\ Comes(program, l[1], l[2])
          /\ Comes(program, l[2], program.loop[1])
      BY <1>2, <2>1, <2>2, <2>3, <2>4
    <3>2. l \in Seq(Ops) /\ Len(l) = 2
      BY <1>2, <2>1, <2>2, <2>4
    <3> QED
      BY <3>1, <3>2, OrderedTwo
  <2>6. Ordered(program, todo)
    <3>1. /\ Comes(program, todo[1], todo[2])
          /\ Comes(program, todo[2], todo[3])
          /\ Comes(program, todo[3], program.loop[1])
      BY <1>2, <2>1, <2>2, <2>3, <2>4
    <3>2. todo \in Seq(Ops) /\ Len(todo) = 3
      BY <1>2, <2>1, <2>2, <2>4
    <3> QED
      BY <3>1, <3>2, OrderedThree
  <2> QED
    BY <1>3, <2>5, <2>6 DEF InOrder, l
<1>8. CASE program = One!generator
  <2>1. /\ Len(b) = 0 /\ Len(l) = 3 /\ program.initial = "always"
        /\ l[1] = "resume" /\ l[2] = "exit?" /\ l[3] = "read"
    BY <1>8, LoopingOnes DEF Looping, b, l
  <2>2. /\ Len(todo) = 4
        /\ todo[2] = "resume" /\ todo[3] = "exit?" /\ todo[4] = "read"
    BY <1>2, <2>1
  <2>3. /\ Comes(program, "call", "resume")
        /\ Comes(program, "resume", "exit?")
        /\ Comes(program, "exit?", "read")
        /\ Comes(program, "read", "resume")
    BY <1>8, <2>1 DEF Comes, Cyclics
  <2>4. program.loop[1] = "resume" /\ l \in Seq(Ops)
    BY <1>1, <2>1 DEF l
  <2>5. Ordered(program, l)
    <3>1. /\ Comes(program, l[1], l[2])
          /\ Comes(program, l[2], l[3])
          /\ Comes(program, l[3], program.loop[1])
      BY <1>2, <2>1, <2>2, <2>3, <2>4
    <3>2. l \in Seq(Ops) /\ Len(l) = 3
      BY <1>2, <2>1, <2>2, <2>4
    <3> QED
      BY <3>1, <3>2, OrderedThree
  <2>6. Ordered(program, todo)
    <3>1. /\ Comes(program, todo[1], todo[2])
          /\ Comes(program, todo[2], todo[3])
          /\ Comes(program, todo[3], todo[4])
          /\ Comes(program, todo[4], program.loop[1])
      BY <1>2, <2>1, <2>2, <2>3, <2>4
    <3>2. todo \in Seq(Ops) /\ Len(todo) = 4
      BY <1>2, <2>1, <2>2, <2>4
    <3> QED
      BY <3>1, <3>2, OrderedFour
  <2> QED
    BY <1>3, <2>5, <2>6 DEF InOrder, l
<1>9. CASE program = One!utils_generator
  <2>1. /\ Len(b) = 0 /\ Len(l) = 3 /\ program.initial = "always"
        /\ l[1] = "resume?" /\ l[2] = "exit?" /\ l[3] = "read"
    BY <1>9, LoopingOnes DEF Looping, b, l
  <2>2. /\ Len(todo) = 4
        /\ todo[2] = "resume?" /\ todo[3] = "exit?" /\ todo[4] = "read"
    BY <1>2, <2>1
  <2>3. /\ Comes(program, "call", "resume?")
        /\ Comes(program, "resume?", "exit?")
        /\ Comes(program, "exit?", "read")
        /\ Comes(program, "read", "resume?")
    BY <1>9, <2>1 DEF Comes, Cyclics
  <2>4. program.loop[1] = "resume?" /\ l \in Seq(Ops)
    BY <1>1, <2>1 DEF l
  <2>5. Ordered(program, l)
    <3>1. /\ Comes(program, l[1], l[2])
          /\ Comes(program, l[2], l[3])
          /\ Comes(program, l[3], program.loop[1])
      BY <1>2, <2>1, <2>2, <2>3, <2>4
    <3>2. l \in Seq(Ops) /\ Len(l) = 3
      BY <1>2, <2>1, <2>2, <2>4
    <3> QED
      BY <3>1, <3>2, OrderedThree
  <2>6. Ordered(program, todo)
    <3>1. /\ Comes(program, todo[1], todo[2])
          /\ Comes(program, todo[2], todo[3])
          /\ Comes(program, todo[3], todo[4])
          /\ Comes(program, todo[4], program.loop[1])
      BY <1>2, <2>1, <2>2, <2>3, <2>4
    <3>2. todo \in Seq(Ops) /\ Len(todo) = 4
      BY <1>2, <2>1, <2>2, <2>4
    <3> QED
      BY <3>1, <3>2, OrderedFour
  <2> QED
    BY <1>3, <2>5, <2>6 DEF InOrder, l
<1>10. CASE program = One!generator_range
  <2>1. /\ Len(b) = 1 /\ Len(l) = 3 /\ program.initial = "always"
        /\ b[1] = "resume"
        /\ l[1] = "exit?" /\ l[2] = "read" /\ l[3] = "resume"
    BY <1>10, LoopingOnes DEF Looping, b, l
  <2>2. /\ Len(todo) = 5
        /\ todo[2] = "resume" /\ todo[3] = "exit?" /\ todo[4] = "read" /\ todo[5] = "resume"
    BY <1>2, <2>1
  <2>3. /\ Comes(program, "call", "resume")
        /\ Comes(program, "resume", "exit?")
        /\ Comes(program, "exit?", "read")
        /\ Comes(program, "read", "resume")
    BY <1>10, <2>1 DEF Comes, Cyclics
  <2>4. program.loop[1] = "exit?" /\ l \in Seq(Ops)
    BY <1>1, <2>1 DEF l
  <2>5. Ordered(program, l)
    <3>1. /\ Comes(program, l[1], l[2])
          /\ Comes(program, l[2], l[3])
          /\ Comes(program, l[3], program.loop[1])
      BY <1>2, <2>1, <2>2, <2>3, <2>4
    <3>2. l \in Seq(Ops) /\ Len(l) = 3
      BY <1>2, <2>1, <2>2, <2>4
    <3> QED
      BY <3>1, <3>2, OrderedThree
  <2>6. Ordered(program, todo)
    <3>1. /\ Comes(program, todo[1], todo[2])
          /\ Comes(program, todo[2], todo[3])
          /\ Comes(program, todo[3], todo[4])
          /\ Comes(program, todo[4], todo[5])
          /\ Comes(program, todo[5], program.loop[1])
      BY <1>2, <2>1, <2>2, <2>3, <2>4
    <3>2. todo \in Seq(Ops) /\ Len(todo) = 5
      BY <1>2, <2>1, <2>2, <2>4
    <3> QED
      BY <3>1, <3>2, OrderedFive
  <2> QED
    BY <1>3, <2>5, <2>6 DEF InOrder, l
<1> QED
  BY <1>4, <1>5, <1>6, <1>7, <1>8, <1>9, <1>10 DEF Loops, Cyclics

-----------------------------------------------------------------------------
(* Generators that are read once a round                                     *)

\* The first k values.
Upward(k) == [i \in 1..k |-> i]

LEMMA UpwardGrows ==
    ASSUME NEW k \in Nat
    PROVE  /\ Len(Upward(k)) = k /\ Upward(k) \o <<k + 1>> = Upward(k + 1)
           /\ Upward(k) \o <<>> = Upward(k)
<1>1. Upward(k) \in Seq(Nat) /\ Len(Upward(k)) = k /\ \A i \in 1..k : Upward(k)[i] = i
  BY DEF Upward
<1>2. Upward(k + 1) \in Seq(Nat) /\ Len(Upward(k + 1)) = k + 1
      /\ \A i \in 1..(k + 1) : Upward(k + 1)[i] = i
  BY DEF Upward
<1> DEFINE u == Upward(k)
           v == Upward(k + 1)
<1>3. u \in Seq(Nat) /\ Len(u) = k /\ \A i \in 1..k : u[i] = i
  BY <1>1
<1>4. v \in Seq(Nat) /\ Len(v) = k + 1 /\ \A i \in 1..(k + 1) : v[i] = i
  BY <1>2
<1> HIDE DEF u, v
<1>5. u \o <<k + 1>> = v
  <2>1. u \o <<k + 1>> \in Seq(Nat) /\ Len(u \o <<k + 1>>) = k + 1
        /\ \A i \in 1..(k + 1) : (u \o <<k + 1>>)[i] = i
    BY <1>3
  <2> QED
    BY <1>4, <2>1
<1>6. u \o <<>> = u
  BY <1>3
<1> QED
  BY <1>3, <1>5, <1>6 DEF u, v

CycleInv ==
    /\ program \in Cyclics /\ LoopProgram /\ InOrder /\ rounds = 0
    /\ Len(body) \in Nat /\ \A i \in 1..Len(body) : body[i] = "yield"
    /\ program.initial = "never" => Len(body) > 0
    /\ pos \in 0..Len(body) /\ values = <<pos>>
    /\ Len(seen) \in Nat /\ seen = Upward(Len(seen)) /\ got \subseteq {"returned"}
    /\ Op \in {"call", "resume", "resume?", "exit?", "read", "result", "leave", "left"}
    /\ Op = "call" => frame = "none" /\ pos = 0 /\ Len(seen) = 0
    /\ Op \in {"resume", "resume?"} => frame = "suspended" /\ Len(seen) = pos
    /\ Op = "read" => frame = "suspended" /\ pos = Len(seen) + 1
    /\ Op = "exit?" => \/ frame = "suspended" /\ pos = Len(seen) + 1
                       \/ /\ frame = "done" /\ result = "returned"
                          /\ pos = Len(body) /\ Len(seen) = Len(body)
    /\ Op \in {"result", "leave"} => /\ frame = "done" /\ result = "returned"
                                     /\ pos = Len(body) /\ Len(seen) = Len(body)
    /\ Op = "left" => todo = <<>> /\ frame = "freed" /\ Len(seen) = Len(body)

\* resume() yields the next value, or comes to the end.
LEMMA CycleRun ==
    ASSUME CycleInv, One!Run
    PROVE  /\ pos < Len(body) => /\ pos' = pos + 1 /\ values' = <<pos + 1>>
                                 /\ frame' = "suspended" /\ result' = result
           /\ pos = Len(body) => /\ UNCHANGED <<pos, values>>
                                 /\ frame' = "done" /\ result' = "returned"
<1>1. /\ Len(body) \in Nat /\ pos \in 0..Len(body) /\ \A i \in 1..Len(body) : body[i] = "yield"
      /\ program.final = "always" /\ Executing
  BY DEF CycleInv, LoopProgram, Executing
<1>2. CASE pos < Len(body)
  <2>1. pos \in Nat /\ pos + 1 \in 1..Len(body) /\ body[pos + 1] = "yield"
    BY <1>1, <1>2
  <2>2. One!Yielded(pos + 1) = pos + 1
    <3>1. \A i \in 1..(pos + 1) : body[i] \in One!Yielding
      BY <1>1, <1>2 DEF One!Yielding
    <3>2. pos + 1 \in Nat
      BY <2>1
    <3> QED
      BY <3>1, <3>2, YieldsEach
  <2>3. "yield" \in One!Suspending
    BY DEF One!Suspending
  <2> QED
    BY <1>1, <1>2, <2>1, <2>2, <2>3, RunSuspends
<1>3. CASE pos = Len(body)
  <2>1. \A i \in (pos + 1)..Len(body) : FALSE
    BY <1>1, <1>3
  <2> QED
    BY <1>1, <1>3, <2>1, RunEnds
<1> QED
  BY <1>1, <1>2, <1>3

LEMMA CyclicLength == \A p \in Cyclics : Len(p.loop) = 3
<1> SUFFICES ASSUME NEW p \in Cyclics PROVE Len(p.loop) = 3
  OBVIOUS
<1>1. p.loop \in {<<"read", "resume", "exit?">>, <<"resume", "exit?", "read">>,
                  <<"resume?", "exit?", "read">>, <<"exit?", "read", "resume">>}
  <2>1. CASE p = One!co_yield_suspended_loop
    BY <2>1, LoopingOnes DEF Looping
  <2>2. CASE p = One!Fibonacci
    BY <2>2, LoopingOnes DEF Looping
  <2>3. CASE p = One!generator
    BY <2>3, LoopingOnes DEF Looping
  <2>4. CASE p = One!utils_generator
    BY <2>4, LoopingOnes DEF Looping
  <2>5. CASE p = One!generator_range
    BY <2>5, LoopingOnes DEF Looping
  <2> QED
    BY <2>1, <2>2, <2>3, <2>4, <2>5 DEF Cyclics
<1> QED
  BY <1>1

LEMMA CycleStep == ASSUME CycleInv, One!Next PROVE CycleInv'
<1>1. /\ UNCHANGED <<program, body, rounds>> /\ LoopProgram' /\ LoopProgram
      /\ program.initial \in {"always", "never"} /\ program.owned = TRUE /\ InOrder
      /\ Op \in {"call", "resume", "resume?", "exit?", "read", "result", "leave", "left"}
  <2>1. UNCHANGED <<program, body, rounds>>
    BY Operation
  <2> QED
    BY <2>1 DEF CycleInv, LoopProgram, One!UntilDone
<1>2. ~(Op = "exit?" /\ frame = "done") =>
         /\ InOrder' /\ Op = Head(todo) /\ todo # <<>>
         /\ Op = "leave" => Op' = "left" /\ todo' = <<>>
         /\ Op # "leave" => Comes(program, Op, Op') /\ todo' # <<>>
  BY <1>1, NextOp
<1>3. program \in Cyclics /\ program # One!co_yield_unsuspended_loop /\ program # One!basic_task
  <2>1. \A p \in Cyclics : Len(p.loop) = 3
    BY CyclicLength
  <2>2. Len(One!co_yield_unsuspended_loop.loop) = 2 /\ Len(One!basic_task.loop) = 2
    BY LoopingOnes DEF Looping
  <2>3. program \in Cyclics
    BY DEF CycleInv
  <2> QED
    BY <2>1, <2>2, <2>3
<1>4. \A b : Comes(program, Op, b) =>
         \/ Op = "result" /\ b = "leave"
         \/ Op = "call" /\ program.initial = "never" /\ b = "read"
         \/ Op = "call" /\ program.initial = "always" /\ b \in {"resume", "resume?"}
         \/ Op \in {"resume", "resume?"} /\ b = "exit?"
         \/ Op = "exit?" /\ b = "read"
         \/ Op = "read" /\ b \in {"resume", "resume?"}
  BY <1>3 DEF Comes
<1>5. InOrder'
  <2>1. CASE Op = "exit?" /\ frame = "done"
    BY <1>1, <2>1, LastExit
  <2> QED
    BY <1>2, <2>1
<1>6. /\ program' \in Cyclics /\ rounds' = 0 /\ Len(body') \in Nat
      /\ \A i \in 1..Len(body') : body'[i] = "yield"
      /\ program'.initial = "never" => Len(body') > 0
      /\ Len(body') = Len(body) /\ Len(body) \in Nat /\ pos \in 0..Len(body)
      /\ Len(seen) \in Nat /\ got \subseteq {"returned"} /\ values = <<pos>>
      /\ seen = Upward(Len(seen))
  BY <1>1 DEF CycleInv
<1>7. CASE Op = "call"
  <2>1. frame = "none" /\ pos = 0 /\ Len(seen) = 0 /\ Head(todo) = "call"
    BY <1>2, <1>7 DEF CycleInv
  <2>2. UNCHANGED <<seen, got>>
    BY <2>1, Operation
  <2>3. CASE program.initial = "always"
    <3>1. frame' = "suspended" /\ UNCHANGED <<pos, values, result>>
      BY <2>1, <2>3, Operation
    <3>2. Op' \in {"resume", "resume?"}
      BY <1>2, <1>4, <1>7, <2>3
    <3> QED
      BY <1>1, <1>5, <1>6, <2>1, <2>2, <3>1, <3>2 DEF CycleInv
  <2>4. CASE program.initial = "never"
    <3>1. One!Run
      BY <2>1, <2>4, Operation
    <3>2. pos < Len(body)
      BY <2>1, <2>4, <1>6 DEF CycleInv
    <3>3. pos' = 1 /\ values' = <<1>> /\ frame' = "suspended"
      BY <2>1, <3>1, <3>2, CycleRun
    <3>4. Op' = "read"
      BY <1>2, <1>4, <1>7, <2>4
    <3> QED
      BY <1>1, <1>5, <1>6, <2>1, <2>2, <3>2, <3>3, <3>4 DEF CycleInv
  <2> QED
    BY <1>1, <2>3, <2>4
<1>8. CASE Op \in {"resume", "resume?"}
  <2>1. frame = "suspended" /\ Len(seen) = pos /\ Head(todo) \in {"resume", "resume?"}
    BY <1>2, <1>8 DEF CycleInv
  <2>2. UNCHANGED <<seen, got>> /\ One!Run
    BY <2>1, Operation
  <2>3. Op' = "exit?"
    BY <1>2, <1>4, <1>8
  <2>4. CASE pos < Len(body)
    <3>1. pos' = pos + 1 /\ values' = <<pos + 1>> /\ frame' = "suspended"
      BY <2>2, <2>4, CycleRun
    <3> QED
      BY <1>1, <1>5, <1>6, <2>1, <2>2, <2>3, <2>4, <3>1 DEF CycleInv
  <2>5. CASE pos = Len(body)
    <3>1. UNCHANGED <<pos, values>> /\ frame' = "done" /\ result' = "returned"
      BY <2>2, <2>5, CycleRun
    <3> QED
      BY <1>1, <1>5, <1>6, <2>1, <2>2, <2>3, <2>5, <3>1 DEF CycleInv
  <2> QED
    BY <1>6, <2>4, <2>5
<1>9. CASE Op = "exit?"
  <2>1. CASE frame = "done"
    <3>1. /\ Op' \in {"result", "leave"}
          /\ UNCHANGED <<frame, pos, values, result, seen, got>>
      BY <1>1, <1>9, <2>1, LastExit
    <3> QED
      BY <1>1, <1>5, <1>6, <1>9, <2>1, <3>1 DEF CycleInv
  <2>2. CASE frame # "done"
    <3>1. Head(todo) = "exit?" /\ Op' = "read"
      BY <1>2, <1>4, <1>9, <2>2
    <3>2. UNCHANGED <<frame, pos, values, result, seen, got>>
      BY <3>1, Operation
    <3> QED
      BY <1>1, <1>5, <1>6, <1>9, <2>2, <3>1, <3>2 DEF CycleInv
  <2> QED
    BY <2>1, <2>2
<1>10. CASE Op = "read"
  <2>1. frame = "suspended" /\ pos = Len(seen) + 1 /\ Head(todo) = "read"
    BY <1>2, <1>10 DEF CycleInv
  <2>2. UNCHANGED <<frame, pos, values, result, got>> /\ seen' = seen \o values
    BY <2>1, Operation
  <2>3. seen' = Upward(pos) /\ Len(seen') = pos
    <3> DEFINE k == Len(seen)
    <3>1. k \in Nat /\ seen = Upward(k) /\ values = <<k + 1>> /\ k + 1 = pos /\ pos \in Nat
      BY <1>6, <2>1
    <3> HIDE DEF k
    <3>2. seen' = Upward(k + 1)
      BY <2>2, <3>1, UpwardGrows
    <3> QED
      BY <3>1, <3>2, UpwardGrows
  <2>4. Op' \in {"resume", "resume?"}
    BY <1>2, <1>4, <1>10
  <2> QED
    BY <1>1, <1>5, <1>6, <2>1, <2>2, <2>3, <2>4 DEF CycleInv
<1>11. CASE Op = "result"
  <2>1. Head(todo) = "result" /\ Op' = "leave"
    BY <1>2, <1>4, <1>11
  <2>2. UNCHANGED <<frame, pos, values, result, seen>> /\ got' = got \cup {result}
    BY <2>1, Operation
  <2> QED
    BY <1>1, <1>5, <1>6, <1>11, <2>1, <2>2 DEF CycleInv
<1>12. CASE Op = "leave"
  <2>1. Head(todo) = "leave" /\ Op' = "left" /\ todo' = <<>>
    BY <1>2, <1>12
  <2>2. frame' = "freed" /\ UNCHANGED <<pos, values, result, seen, got>>
    BY <1>1, <2>1, Operation
  <2> QED
    BY <1>1, <1>5, <1>6, <1>12, <2>1, <2>2 DEF CycleInv
<1>13. Op # "left"
  BY <1>2, <1>1 DEF CycleInv
<1> QED
  BY <1>1, <1>7, <1>8, <1>9, <1>10, <1>11, <1>12, <1>13

\* What main() uses, by its next operation.
LEMMA OpUses ==
    ASSUME todo \in Seq(Ops), program \notin Voids,
           Op = "call" => frame = "none", Op = "resume" => frame = "suspended",
           Op \in {"resume?", "read", "send", "exit?", "result"} => frame \in {"suspended", "done"},
           Op = "leave" => frame # "freed", Op = "left" => frame = "freed"
    PROVE  One!FrameInUse /\ One!NoFrameLeft
<1>1. One!NoFrameLeft
  BY LeftOver DEF Op
<1>2. One!FrameInUse
  <2> SUFFICES ASSUME todo # <<>>
               PROVE  CASE Head(todo) = "resume" -> frame = "suspended"
                        [] Head(todo) \in {"resume?", "read", "send", "exit?"} -> frame \in {"suspended", "done"}
                        [] Head(todo) = "result" -> program.shared \/ frame \in {"suspended", "done"}
                        [] Head(todo) = "leave" -> program.owned => frame # "freed"
                        [] OTHER -> frame = "none"
    BY DEF One!FrameInUse
  <2>1. Head(todo) = Op
    BY DEF Op
  <2>2. Op \in Ops
    BY <2>1, TailOf
  <2> QED
    BY <2>1, <2>2 DEF Ops
<1> QED
  BY <1>1, <1>2

LEMMA CycleMeans == ASSUME CycleInv PROVE Sound
<1>1. One!FrameInUse /\ One!NoFrameLeft
  <2>1. todo \in Seq(Ops) /\ program \notin Voids
    BY DEF CycleInv, LoopProgram, InOrder, Ordered
  <2> QED
    BY <2>1, OpUses DEF CycleInv
<1>2. One!ReadInOrder
  BY DEF CycleInv, One!ReadInOrder, Upward
<1>3. One!AllRead
  <2>1. \A i \in 1..Len(body) : body[i] \in One!Yielding
    BY DEF CycleInv, One!Yielding
  <2>2. One!Yielded(Len(body)) = Len(body)
    BY <2>1, YieldsEach DEF CycleInv
  <2>3. todo = <<>> => Op = "left"
    BY DEF Op
  <2> QED
    BY <2>2, <2>3 DEF CycleInv, One!AllRead
<1>4. One!ResultIsSet
  BY DEF CycleInv, LoopProgram, One!ResultIsSet
<1>5. One!HearsMessage
  BY DEF CycleInv, One!HearsMessage
<1> QED
  BY <1>1, <1>2, <1>3, <1>4, <1>5 DEF Sound

LEMMA TimesOf ==
    ASSUME NEW n \in Nat, NEW step
    PROVE  Len(One!Times(n, step)) = n /\ \A i \in 1..n : One!Times(n, step)[i] = step
BY DEF One!Times

\* The programs that repeat a loop start so.
LEMMA LoopStarts ==
    ASSUME One!Init, program \in Loops
    PROVE  /\ LoopProgram /\ InOrder /\ Op = "call" /\ rounds = 0 /\ frame = "none" /\ Fresh
           /\ seen = <<>> /\ body \in program.bodies
           /\ (\A i \in 1..Len(body) : body[i] # "queue") => values = <<0>>
           /\ body = One!Times(3, "queue") => values = <<>>
<1>1. /\ program.final = "always" /\ program.owned = TRUE /\ ~program.counted
      /\ program.initial \in {"always", "never"} /\ program.after \in {<<>>, <<"result">>}
      /\ program \notin Voids /\ program # One!value_co_return_final_suspend_never
      /\ program.loop # <<>> /\ program.loop \in Seq(Ops) /\ program.before \in Seq(Ops)
  BY LoopFields
<1>2. One!UntilDone
  BY <1>1 DEF One!UntilDone
<1>3. LoopProgram /\ InOrder /\ Op = "call"
  BY <1>1, <1>2, LoopOrder DEF LoopProgram
<1> QED
  BY <1>1, <1>2, <1>3, StartsLooping

LEMMA CycleInit == ASSUME One!Init, program \in Cyclics PROVE CycleInv
<1>1. /\ LoopProgram /\ InOrder /\ Op = "call" /\ rounds = 0 /\ frame = "none" /\ Fresh
      /\ seen = <<>> /\ body \in program.bodies
      /\ (\A i \in 1..Len(body) : body[i] # "queue") => values = <<0>>
  BY LoopStarts DEF Loops
<1>2. /\ program = One!co_yield_suspended_loop => body = One!Times(3, "yield")
      /\ program # One!co_yield_suspended_loop => /\ body \in One!AnyNumberOf("yield")
                                                  /\ program.initial = "always"
  <2>1. CASE program = One!co_yield_suspended_loop
    BY <1>1, <2>1, LoopingOnes DEF Looping
  <2>2. CASE program = One!Fibonacci
    BY <1>1, <2>2, LoopingOnes DEF Looping
  <2>3. CASE program = One!generator
    BY <1>1, <2>3, LoopingOnes DEF Looping
  <2>4. CASE program = One!utils_generator
    BY <1>1, <2>4, LoopingOnes DEF Looping
  <2>5. CASE program = One!generator_range
    BY <1>1, <2>5, LoopingOnes DEF Looping
  <2> QED
    BY <2>1, <2>2, <2>3, <2>4, <2>5 DEF Cyclics
<1>3. PICK n \in Nat : body = One!Times(n, "yield") /\ (program.initial = "never" => n = 3)
  <2>1. CASE program = One!co_yield_suspended_loop
    BY <1>2, <2>1
  <2>2. CASE program # One!co_yield_suspended_loop
    <3>1. body \in One!AnyNumberOf("yield") /\ program.initial = "always"
      BY <1>2, <2>2
    <3>2. PICK n \in 0..MaxValues : body = One!Times(n, "yield")
      BY <3>1 DEF One!AnyNumberOf
    <3> QED
      BY <3>1, <3>2
  <2> QED
    BY <2>1, <2>2
<1>4. /\ Len(body) \in Nat /\ \A i \in 1..Len(body) : body[i] = "yield"
      /\ program.initial = "never" => Len(body) > 0
  BY <1>3, TimesOf
<1>5. values = <<0>>
  BY <1>1, <1>4
<1>6. Len(seen) = 0 /\ seen = Upward(0)
  BY <1>1 DEF Upward
<1> QED
  BY <1>1, <1>4, <1>5, <1>6 DEF CycleInv, Fresh

-----------------------------------------------------------------------------
(* The task that is resumed until it is done                                 *)

BasicInv ==
    /\ program = One!basic_task /\ LoopProgram /\ InOrder /\ rounds = 0
    /\ Len(body) \in Nat /\ \A i \in 1..Len(body) : body[i] = "wait"
    /\ program.initial = "always" /\ pos \in 0..Len(body) /\ seen = <<>> /\ got \subseteq {"returned"}
    /\ Op \in {"call", "resume?", "exit?", "result", "leave", "left"}
    /\ Op = "call" => frame = "none" /\ pos = 0
    /\ Op = "resume?" => frame = "suspended"
    /\ Op = "exit?" => frame = "suspended" \/ (frame = "done" /\ result = "returned")
    /\ Op \in {"result", "leave"} => frame = "done" /\ result = "returned"
    /\ Op = "left" => todo = <<>> /\ frame = "freed"

LEMMA BasicRun ==
    ASSUME BasicInv, One!Run
    PROVE  pos' \in 0..Len(body) /\ (frame' = "suspended" \/ (frame' = "done" /\ result' = "returned"))
<1>1. /\ Len(body) \in Nat /\ pos \in 0..Len(body) /\ \A i \in 1..Len(body) : body[i] = "wait"
      /\ program.final = "always" /\ Executing
  BY DEF BasicInv, LoopProgram, Executing
<1>2. CASE pos < Len(body)
  <2>1. pos + 1 \in 1..Len(body) /\ body[pos + 1] \in One!Suspending
    BY <1>1, <1>2 DEF One!Suspending
  <2> QED
    BY <1>1, <1>2, <2>1, RunSuspends
<1>3. CASE pos = Len(body)
  <2>1. \A i \in (pos + 1)..Len(body) : FALSE
    BY <1>1, <1>3
  <2> QED
    BY <1>1, <2>1, RunEnds
<1> QED
  BY <1>1, <1>2, <1>3

LEMMA BasicStep == ASSUME BasicInv, One!Next PROVE BasicInv'
<1>1. /\ UNCHANGED <<program, body, rounds>> /\ LoopProgram' /\ LoopProgram
      /\ program.initial = "always" /\ program.owned = TRUE /\ InOrder
      /\ Op \in {"call", "resume?", "exit?", "result", "leave", "left"}
  <2>1. UNCHANGED <<program, body, rounds>>
    BY Operation
  <2> QED
    BY <2>1 DEF BasicInv, LoopProgram, One!UntilDone
<1>2. ~(Op = "exit?" /\ frame = "done") =>
         /\ InOrder' /\ Op = Head(todo) /\ todo # <<>>
         /\ Op = "leave" => Op' = "left" /\ todo' = <<>>
         /\ Op # "leave" => Comes(program, Op, Op') /\ todo' # <<>>
  BY <1>1, NextOp
<1>3. program \notin Cyclics /\ program # One!co_yield_unsuspended_loop
  <2>1. One!basic_task.loop[1] = "resume?" /\ Len(One!basic_task.loop) = 2
    BY LoopingOnes DEF Looping
  <2>2. One!co_yield_unsuspended_loop.loop[1] = "read"
    BY LoopingOnes DEF Looping
  <2>3. \A p \in Cyclics : Len(p.loop) = 3
    BY CyclicLength
  <2>4. One!basic_task # One!co_yield_unsuspended_loop
    BY <2>1, <2>2
  <2>5. One!basic_task \notin Cyclics
    BY <2>1, <2>3
  <2> HIDE DEF Cyclics
  <2>6. program = One!basic_task
    BY DEF BasicInv
  <2> QED
    BY <2>4, <2>5, <2>6
<1>4. \A b : Comes(program, Op, b) => \/ Op = "result" /\ b = "leave"
                                      \/ Op \in {"call", "exit?"} /\ b = "resume?"
                                      \/ Op = "resume?" /\ b = "exit?"
  BY <1>3 DEF Comes
<1>5. InOrder'
  <2>1. CASE Op = "exit?" /\ frame = "done"
    BY <1>1, <2>1, LastExit
  <2> QED
    BY <1>2, <2>1
<1>6. /\ program' = One!basic_task /\ rounds' = 0 /\ Len(body') \in Nat
      /\ \A i \in 1..Len(body') : body'[i] = "wait"
      /\ program'.initial = "always" /\ Len(body') = Len(body) /\ pos \in 0..Len(body)
      /\ seen = <<>> /\ got \subseteq {"returned"}
  BY <1>1 DEF BasicInv
<1>7. CASE Op = "call"
  <2>1. frame = "none" /\ Head(todo) = "call" /\ Op' = "resume?"
    BY <1>2, <1>4, <1>7 DEF BasicInv
  <2>2. frame' = "suspended" /\ UNCHANGED <<pos, seen, got>>
    BY <1>1, <2>1, Operation
  <2> QED
    BY <1>1, <1>5, <1>6, <2>1, <2>2 DEF BasicInv
<1>8. CASE Op = "resume?"
  <2>1. frame = "suspended" /\ Head(todo) = "resume?" /\ Op' = "exit?"
    BY <1>2, <1>4, <1>8 DEF BasicInv
  <2>2. One!Run /\ UNCHANGED <<seen, got>>
    BY <2>1, Operation
  <2>3. pos' \in 0..Len(body) /\ (frame' = "suspended" \/ (frame' = "done" /\ result' = "returned"))
    BY <2>2, BasicRun
  <2> QED
    BY <1>1, <1>5, <1>6, <2>1, <2>2, <2>3 DEF BasicInv
<1>9. CASE Op = "exit?"
  <2>1. CASE frame = "done"
    <3>1. Op' \in {"result", "leave"} /\ UNCHANGED <<frame, pos, result, seen, got>>
      BY <1>1, <1>9, <2>1, LastExit
    <3> QED
      BY <1>1, <1>5, <1>6, <1>9, <2>1, <3>1 DEF BasicInv
  <2>2. CASE frame # "done"
    <3>1. Head(todo) = "exit?" /\ Op' = "resume?"
      BY <1>2, <1>4, <1>9, <2>2
    <3>2. UNCHANGED <<frame, pos, result, seen, got>>
      BY <3>1, Operation
    <3> QED
      BY <1>1, <1>5, <1>6, <1>9, <2>2, <3>1, <3>2 DEF BasicInv
  <2> QED
    BY <2>1, <2>2
<1>10. CASE Op = "result"
  <2>1. Head(todo) = "result" /\ Op' = "leave"
    BY <1>2, <1>4, <1>10
  <2>2. UNCHANGED <<frame, pos, result, seen>> /\ got' = got \cup {result}
    BY <2>1, Operation
  <2> QED
    BY <1>1, <1>5, <1>6, <1>10, <2>1, <2>2 DEF BasicInv
<1>11. CASE Op = "leave"
  <2>1. Head(todo) = "leave" /\ Op' = "left" /\ todo' = <<>>
    BY <1>2, <1>11
  <2>2. frame' = "freed" /\ UNCHANGED <<pos, seen, got>>
    BY <1>1, <2>1, Operation
  <2> QED
    BY <1>1, <1>5, <1>6, <2>1, <2>2 DEF BasicInv
<1>12. Op # "left"
  BY <1>1, <1>2 DEF BasicInv
<1> QED
  BY <1>1, <1>7, <1>8, <1>9, <1>10, <1>11, <1>12

LEMMA BasicMeans == ASSUME BasicInv PROVE Sound
<1>1. One!FrameInUse /\ One!NoFrameLeft
  <2>1. todo \in Seq(Ops) /\ program \notin Voids
    BY DEF BasicInv, LoopProgram, InOrder, Ordered
  <2> QED
    BY <2>1, OpUses DEF BasicInv
<1>2. One!ReadInOrder /\ One!AllRead
  <2>1. \A i \in 1..Len(body) : body[i] \notin One!Yielding
    BY DEF BasicInv, One!Yielding
  <2> QED
    BY <2>1, YieldsNothing, EmptyInOrder DEF BasicInv, One!AllRead
<1>3. One!ResultIsSet
  BY DEF BasicInv, LoopProgram, One!ResultIsSet
<1>4. One!HearsMessage
  BY DEF BasicInv, One!HearsMessage
<1> QED
  BY <1>1, <1>2, <1>3, <1>4 DEF Sound

LEMMA BasicInit == ASSUME One!Init, program = One!basic_task PROVE BasicInv
<1>1. /\ LoopProgram /\ InOrder /\ Op = "call" /\ rounds = 0 /\ frame = "none" /\ Fresh
      /\ seen = <<>> /\ body \in program.bodies
  BY LoopStarts DEF Loops
<1>2. body \in One!AnyNumberOf("wait") /\ program.initial = "always"
  BY <1>1, LoopingOnes DEF Looping
<1>3. PICK n \in 0..MaxValues : body = One!Times(n, "wait")
  BY <1>2 DEF One!AnyNumberOf
<1>4. Len(body) \in Nat /\ \A i \in 1..Len(body) : body[i] = "wait"
  BY <1>3, TimesOf
<1> QED
  BY <1>1, <1>2, <1>4 DEF BasicInv, Fresh

-----------------------------------------------------------------------------
(* The generator that does not suspend: its values wait in a queue           *)

QueueInv ==
    /\ program = One!co_yield_unsuspended_loop /\ LoopProgram /\ InOrder /\ rounds = 0
    /\ body = One!Times(3, "queue") /\ program.initial = "never" /\ got \subseteq {"returned"}
    /\ pos \in 0..3 /\ Op \in {"call", "read", "exit?", "result", "leave", "left"}
    /\ Op = "call" => frame = "none" /\ pos = 0 /\ values = <<>>
    /\ Op = "read" => values = Upward(3)
    /\ Op \in {"call", "read"} => seen = Upward(0)
    /\ Op \in {"exit?", "result", "leave", "left"} => seen = Upward(3)
    /\ Op \in {"read", "exit?", "result", "leave"} => frame = "done" /\ result = "returned"
    /\ Op = "left" => todo = <<>> /\ frame = "freed"

LEMMA QueueBody ==
    ASSUME body = One!Times(3, "queue")
    PROVE  /\ Len(body) = 3 /\ \A i \in 1..3 : body[i] = "queue"
           /\ One!Yielded(0) = 0 /\ One!Yielded(3) = 3
<1>1. Len(body) = 3 /\ \A i \in 1..3 : body[i] = "queue"
  BY TimesOf
<1>2. \A i \in 1..3 : body[i] \in One!Yielding
  BY <1>1 DEF One!Yielding
<1>3. \A i \in 1..0 : body[i] \in One!Yielding
  OBVIOUS
<1> QED
  BY <1>1, <1>2, <1>3, YieldsEach

\* The call runs it to its end.
LEMMA QueueRun ==
    ASSUME QueueInv, Op = "call", One!Run
    PROVE  pos' = 3 /\ values' = Upward(3) /\ frame' = "done" /\ result' = "returned"
<1>1. /\ Len(body) = 3 /\ \A i \in 1..3 : body[i] = "queue"
      /\ One!Yielded(0) = 0 /\ One!Yielded(3) = 3
  BY QueueBody DEF QueueInv
<1>2. pos = 0 /\ values = <<>> /\ Executing /\ program.final = "always"
  BY <1>1 DEF QueueInv, LoopProgram, Executing
<1>3. \A i \in (pos + 1)..Len(body) : body[i] \notin One!Suspending \cup {"throw"}
  BY <1>1, <1>2 DEF One!Suspending
<1>4. 1 \in (pos + 1)..Len(body) /\ body[1] = "queue"
  BY <1>1, <1>2
<1>5. /\ frame' = "done" /\ result' = "returned" /\ pos' = 3
      /\ values' = values \o [i \in 1..(One!Yielded(3) - One!Yielded(0)) |-> One!Yielded(0) + i]
  BY <1>1, <1>2, <1>3, <1>4, RunEnds
<1>6. [i \in 1..(One!Yielded(3) - One!Yielded(0)) |-> One!Yielded(0) + i] = Upward(3)
  BY <1>1 DEF Upward
<1>7. <<>> \o Upward(3) = Upward(3)
  <2> DEFINE u == Upward(3)
  <2>1. u \in Seq(Nat)
    BY DEF Upward
  <2> HIDE DEF u
  <2> QED
    BY <2>1
<1> QED
  BY <1>2, <1>5, <1>6, <1>7

LEMMA QueueStep == ASSUME QueueInv, One!Next PROVE QueueInv'
<1>1. /\ UNCHANGED <<program, body, rounds>> /\ LoopProgram' /\ LoopProgram
      /\ program.initial = "never" /\ program.owned = TRUE /\ InOrder
      /\ Op \in {"call", "read", "exit?", "result", "leave", "left"}
  <2>1. UNCHANGED <<program, body, rounds>>
    BY Operation
  <2> QED
    BY <2>1 DEF QueueInv, LoopProgram, One!UntilDone
<1>2. Op # "exit?" =>
         /\ InOrder' /\ Op = Head(todo) /\ todo # <<>>
         /\ Op = "leave" => Op' = "left" /\ todo' = <<>>
         /\ Op # "leave" => Comes(program, Op, Op') /\ todo' # <<>>
  BY <1>1, NextOp
<1>3. program \notin Cyclics /\ program # One!basic_task
  <2>1. One!co_yield_unsuspended_loop.loop[1] = "read" /\ Len(One!co_yield_unsuspended_loop.loop) = 2
    BY LoopingOnes DEF Looping
  <2>2. One!basic_task.loop[1] = "resume?"
    BY LoopingOnes DEF Looping
  <2>3. \A p \in Cyclics : Len(p.loop) = 3
    BY CyclicLength
  <2> QED
    BY <2>1, <2>2, <2>3 DEF QueueInv
<1>4. \A b : Comes(program, Op, b) => \/ Op = "result" /\ b = "leave"
                                      \/ Op \in {"call", "exit?"} /\ b = "read"
                                      \/ Op = "read" /\ b = "exit?"
  BY <1>3 DEF Comes
<1>5. /\ program' = One!co_yield_unsuspended_loop /\ rounds' = 0 /\ body' = One!Times(3, "queue")
      /\ program'.initial = "never" /\ got \subseteq {"returned"} /\ pos \in 0..3
  BY <1>1 DEF QueueInv
<1>6. CASE Op = "call"
  <2>1. Head(todo) = "call" /\ Op' = "read" /\ InOrder' /\ seen = Upward(0)
    BY <1>2, <1>4, <1>6 DEF QueueInv
  <2>2. One!Run /\ UNCHANGED <<seen, got>>
    BY <1>1, <2>1, Operation
  <2>3. pos' = 3 /\ values' = Upward(3) /\ frame' = "done" /\ result' = "returned"
    BY <1>6, <2>2, QueueRun
  <2> QED
    BY <1>1, <1>5, <2>1, <2>2, <2>3 DEF QueueInv
<1>7. CASE Op = "read"
  <2>1. /\ Head(todo) = "read" /\ Op' = "exit?" /\ InOrder'
        /\ seen = Upward(0) /\ values = Upward(3) /\ frame = "done" /\ result = "returned"
    BY <1>2, <1>4, <1>7 DEF QueueInv
  <2>2. UNCHANGED <<frame, pos, result, got>> /\ seen' = seen \o values
    BY <2>1, Operation
  <2>3. Upward(0) \o Upward(3) = Upward(3)
    <3> DEFINE u == Upward(3)
    <3>1. u \in Seq(Nat) /\ Upward(0) = <<>>
      BY DEF Upward
    <3> HIDE DEF u
    <3>2. <<>> \o u = u
      BY <3>1
    <3> QED
      BY <3>1, <3>2 DEF u
  <2> QED
    BY <1>1, <1>5, <2>1, <2>2, <2>3 DEF QueueInv
<1>8. CASE Op = "exit?"
  <2>1. frame = "done" /\ result = "returned" /\ seen = Upward(3)
    BY <1>8 DEF QueueInv
  <2>2. Op' \in {"result", "leave"} /\ UNCHANGED <<frame, pos, result, seen, got>> /\ InOrder'
    BY <1>1, <1>8, <2>1, LastExit
  <2> QED
    BY <1>1, <1>5, <2>1, <2>2 DEF QueueInv
<1>9. CASE Op = "result"
  <2>1. Head(todo) = "result" /\ Op' = "leave" /\ InOrder'
        /\ frame = "done" /\ result = "returned" /\ seen = Upward(3)
    BY <1>2, <1>4, <1>9 DEF QueueInv
  <2>2. UNCHANGED <<frame, pos, result, seen>> /\ got' = got \cup {result}
    BY <2>1, Operation
  <2> QED
    BY <1>1, <1>5, <2>1, <2>2 DEF QueueInv
<1>10. CASE Op = "leave"
  <2>1. Head(todo) = "leave" /\ Op' = "left" /\ todo' = <<>> /\ InOrder' /\ seen = Upward(3)
    BY <1>2, <1>10 DEF QueueInv
  <2>2. frame' = "freed" /\ UNCHANGED <<pos, seen, got>>
    BY <1>1, <2>1, Operation
  <2> QED
    BY <1>1, <1>5, <2>1, <2>2 DEF QueueInv
<1>11. Op # "left"
  BY <1>1, <1>2 DEF QueueInv
<1> QED
  BY <1>1, <1>6, <1>7, <1>8, <1>9, <1>10, <1>11

LEMMA QueueMeans == ASSUME QueueInv PROVE Sound
<1>0. /\ Len(body) = 3 /\ \A i \in 1..3 : body[i] = "queue"
      /\ One!Yielded(3) = 3
  BY QueueBody DEF QueueInv
<1>1. One!FrameInUse /\ One!NoFrameLeft
  <2>1. todo \in Seq(Ops) /\ program \notin Voids
    BY DEF QueueInv, LoopProgram, InOrder, Ordered
  <2> QED
    BY <2>1, OpUses DEF QueueInv
<1>2. Len(Upward(3)) = 3 /\ Len(Upward(0)) = 0
  BY UpwardGrows
<1>3. One!ReadInOrder
  <2>1. seen = Upward(Len(seen))
    BY <1>2 DEF QueueInv
  <2> QED
    BY <2>1 DEF One!ReadInOrder, Upward
<1>4. One!AllRead
  <2>1. todo = <<>> => Op = "left"
    BY DEF Op
  <2> QED
    BY <1>0, <1>2, <2>1 DEF QueueInv, One!AllRead
<1>5. One!ResultIsSet
  BY DEF QueueInv, LoopProgram, One!ResultIsSet
<1>6. One!HearsMessage
  <2>1. \A i \in 1..pos : i <= 3 => body[i] \notin {"receive", "take"}
    BY <1>0 DEF QueueInv
  <2> QED
    BY <1>0, <2>1 DEF QueueInv, One!HearsMessage
<1> QED
  BY <1>1, <1>3, <1>4, <1>5, <1>6 DEF Sound

LEMMA QueueInit == ASSUME One!Init, program = One!co_yield_unsuspended_loop PROVE QueueInv
<1>1. /\ LoopProgram /\ InOrder /\ Op = "call" /\ rounds = 0 /\ frame = "none" /\ Fresh
      /\ seen = <<>> /\ body \in program.bodies
      /\ body = One!Times(3, "queue") => values = <<>>
  BY LoopStarts DEF Loops
<1>2. body = One!Times(3, "queue") /\ program.initial = "never"
  BY <1>1, LoopingOnes DEF Looping
<1>3. seen = Upward(0)
  BY <1>1 DEF Upward
<1> QED
  BY <1>1, <1>2, <1>3 DEF QueueInv, Fresh

-----------------------------------------------------------------------------
(* Programs that ask for a number of values                                  *)

Counteds == {One!generate_primes, One!coroutineGetElements, One!infiniteDataStream}

\* n rounds in which main() does a and reads.
Rounds(t, a, n) == /\ t \in Seq(Ops) /\ Len(t) = 2 * n
                   /\ \A j \in 1..n : t[2 * j - 1] = a /\ t[2 * j] = "read"

\* The same between the call and the end of main().
CountedScript(s, a, n) ==
    /\ s \in Seq(Ops) /\ Len(s) = 2 * n + 2 /\ s[1] = "call" /\ s[2 * n + 2] = "leave"
    /\ \A j \in 1..n : s[2 * j] = a /\ s[2 * j + 1] = "read"

LEMMA OneMoreRound ==
    ASSUME NEW a \in Ops, NEW n \in Nat, NEW t, Rounds(t, a, n)
    PROVE  Rounds(t \o <<a, "read">>, a, n + 1)
<1> DEFINE r == <<a, "read">>
           u == t \o r
<1>1. r \in Seq(Ops) /\ Len(r) = 2 /\ r[1] = a /\ r[2] = "read"
  BY DEF Ops
<1>2. t \in Seq(Ops) /\ Len(t) = 2 * n /\ \A j \in 1..n : t[2 * j - 1] = a /\ t[2 * j] = "read"
  BY DEF Rounds
<1> HIDE DEF r, Ops
<1>3. /\ u \in Seq(Ops) /\ Len(u) = 2 * n + 2
      /\ \A i \in 1..(2 * n) : u[i] = t[i]
      /\ u[2 * n + 1] = a /\ u[2 * n + 2] = "read"
  <2>1. /\ u \in Seq(Ops) /\ Len(u) = Len(t) + Len(r)
        /\ \A i \in 1..Len(t) : u[i] = t[i]
        /\ \A i \in 1..Len(r) : u[Len(t) + i] = r[i]
    BY <1>1, <1>2, Joined
  <2> HIDE DEF u
  <2> QED
    BY <1>1, <1>2, <2>1
<1> HIDE DEF u
<1>4. ASSUME NEW j \in 1..(n + 1) PROVE u[2 * j - 1] = a /\ u[2 * j] = "read"
  <2>1. CASE j <= n
    <3>1. j \in 1..n /\ 2 * j - 1 \in 1..(2 * n) /\ 2 * j \in 1..(2 * n)
      BY <2>1
    <3> QED
      BY <1>2, <1>3, <3>1
  <2>2. CASE j = n + 1
    <3>1. 2 * j - 1 = 2 * n + 1 /\ 2 * j = 2 * n + 2
      BY <2>2
    <3> QED
      BY <1>3, <3>1
  <2> QED
    BY <2>1, <2>2
<1>5. 2 * (n + 1) = 2 * n + 2
  OBVIOUS
<1> QED
  BY <1>3, <1>4, <1>5 DEF Rounds, u, r

LEMMA RepeatOne ==
    ASSUME NEW ops \in Seq(Ops), NEW n \in Nat
    PROVE  /\ One!Repeat(0, ops) = <<>>
           /\ One!Repeat(n + 1, ops) = One!Repeat(n, ops) \o ops
<1> HIDE DEF Ops
<1>1. \A s : One!FlattenSeq(s) = Parse!FlattenSeq(s)
  BY DEF One!FlattenSeq, Parse!FlattenSeq
<1>2. One!Times(0, ops) = <<>> /\ Parse!FlattenSeq(<<>>) = <<>>
  BY DEF One!Times, Parse!FlattenSeq
<1> DEFINE s == One!Times(n, ops)
           t == One!Times(n + 1, ops)
<1>3. s \in Seq(Seq(Ops)) /\ t = Append(s, ops)
  <2>1. /\ s \in Seq(Seq(Ops)) /\ Len(s) = n /\ \A i \in 1..n : s[i] = ops
        /\ t \in Seq(Seq(Ops)) /\ Len(t) = n + 1 /\ \A i \in 1..(n + 1) : t[i] = ops
    BY DEF One!Times
  <2> DEFINE v == Append(s, ops)
  <2> HIDE DEF s, t
  <2>2. v \in Seq(Seq(Ops)) /\ Len(v) = n + 1 /\ \A i \in 1..(n + 1) : v[i] = ops
    BY <2>1
  <2> HIDE DEF v
  <2>3. t = v
    BY <2>1, <2>2
  <2> QED
    BY <2>1, <2>3 DEF v
<1> HIDE DEF s, t
<1>4. Parse!FlattenSeq(t) = Parse!FlattenSeq(s) \o ops
  BY <1>3, FlattenAppend
<1> QED
  BY <1>1, <1>2, <1>4 DEF One!Repeat, s, t

LEMMA RepeatRounds ==
    ASSUME NEW a \in Ops, NEW n \in Nat PROVE Rounds(One!Repeat(n, <<a, "read">>), a, n)
<1> DEFINE r == <<a, "read">>
           T == {m \in Nat : ~Rounds(One!Repeat(m, r), a, m)}
<1>1. r \in Seq(Ops)
  BY DEF Ops
<1>2. Rounds(One!Repeat(0, r), a, 0)
  <2>1. One!Repeat(0, r) = <<>>
    BY <1>1, RepeatOne
  <2>2. <<>> \in Seq(Ops) /\ Len(<<>>) = 2 * 0
    OBVIOUS
  <2> HIDE DEF Ops
  <2>3. \A j \in 1..0 : FALSE
    OBVIOUS
  <2>4. Rounds(<<>>, a, 0)
    BY <2>2, <2>3 DEF Rounds
  <2> QED
    BY <2>1, <2>4
<1>3. ASSUME NEW m \in Nat, Rounds(One!Repeat(m, r), a, m)
      PROVE  Rounds(One!Repeat(m + 1, r), a, m + 1)
  <2>1. One!Repeat(m + 1, r) = One!Repeat(m, r) \o r
    BY <1>1, RepeatOne
  <2>2. Rounds(One!Repeat(m, r) \o r, a, m + 1)
    BY <1>3, OneMoreRound
  <2> QED
    BY <2>1, <2>2
<1>4. ASSUME T # {} PROVE FALSE
  <2>1. T \in SUBSET Nat
    OBVIOUS
  <2>2. PICK m \in T : \A k \in T : m <= k
    <3> HIDE DEF T
    <3> QED
      BY <1>4, <2>1, LeastNumber
  <2>3. m \in Nat /\ ~Rounds(One!Repeat(m, r), a, m) /\ m # 0
    BY <1>2, <2>2
  <2>4. m - 1 \in Nat /\ m - 1 \notin T /\ (m - 1) + 1 = m
    <3> HIDE DEF T
    <3> QED
      BY <2>2, <2>3
  <2>5. Rounds(One!Repeat(m - 1, r), a, m - 1)
    BY <2>4
  <2> QED
    BY <1>3, <2>3, <2>4, <2>5
<1> QED
  BY <1>4

\* How a counted program goes: j counts its rounds.
CountedInv ==
    /\ program \in Counteds /\ program.counted = TRUE /\ program.initial = "always"
    /\ program.owned = TRUE /\ program.loop # <<>>
    /\ rounds \in Nat \ {0} /\ Len(body) \in Nat /\ rounds <= Len(body)
    /\ \A i \in 1..Len(body) : body[i] = "yield"
    /\ got = {} /\ values = <<pos>>
    /\ \E a \in {"resume", "resume?"}, s \in Seq(Ops) : CountedScript(s, a, rounds) /\ LeftOf(s)
    /\ \/ Len(todo) = 2 * rounds + 2 /\ frame = "none" /\ pos = 0 /\ seen = Upward(0)
       \/ \E j \in 1..rounds : /\ Len(todo) = 2 * (rounds - j) + 3 /\ frame = "suspended"
                               /\ pos = j - 1 /\ seen = Upward(j - 1)
       \/ \E j \in 1..rounds : /\ Len(todo) = 2 * (rounds - j) + 2 /\ frame = "suspended"
                               /\ pos = j /\ seen = Upward(j - 1)
       \/ Len(todo) = 1 /\ frame = "suspended" /\ pos = rounds /\ seen = Upward(rounds)
       \/ Len(todo) = 0 /\ frame = "freed" /\ pos = rounds /\ seen = Upward(rounds)

\* The operations it consists of.
LEMMA CountedOps ==
    ASSUME NEW n \in Nat \ {0}, NEW a \in {"resume", "resume?"}, NEW s, CountedScript(s, a, n)
    PROVE  /\ Len(s) = 2 * n + 2 /\ \A i \in 1..Len(s) : s[i] # "exit?"
<1>1. Len(s) = 2 * n + 2 /\ s[1] = "call" /\ s[2 * n + 2] = "leave"
      /\ \A j \in 1..n : s[2 * j] = a /\ s[2 * j + 1] = "read"
  BY DEF CountedScript
<1>2. ASSUME NEW i \in 1..Len(s) PROVE s[i] # "exit?"
  <2>1. i = 1 \/ i = 2 * n + 2 \/ \E j \in 1..n : i = 2 * j \/ i = 2 * j + 1
    <3>1. i \in 1..(2 * n + 2)
      BY <1>1
    <3>2. CASE i % 2 = 0
      <4>1. i = 2 * (i \div 2) /\ i \div 2 \in Nat
        BY <3>1, <3>2
      <4>2. i = 2 * n + 2 \/ i \div 2 \in 1..n
        BY <3>1, <4>1
      <4> QED
        BY <4>1, <4>2
    <3>3. CASE i % 2 = 1
      <4>1. i = 2 * (i \div 2) + 1 /\ i \div 2 \in Nat
        BY <3>1, <3>3
      <4>2. i = 1 \/ i \div 2 \in 1..n
        BY <3>1, <4>1
      <4> QED
        BY <4>1, <4>2
    <3> QED
      BY <3>1, <3>2, <3>3
  <2> QED
    BY <1>1, <2>1
<1> QED
  BY <1>1, <1>2

LEMMA CountedStep == ASSUME CountedInv, One!Next PROVE CountedInv'
<1> DEFINE n == rounds
<1>1. PICK a \in {"resume", "resume?"}, s \in Seq(Ops) : CountedScript(s, a, n) /\ LeftOf(s)
  BY DEF CountedInv
<1>2. /\ n \in Nat \ {0} /\ Len(body) \in Nat /\ n <= Len(body)
      /\ program.counted = TRUE /\ program.initial = "always" /\ program.owned = TRUE
      /\ \A i \in 1..Len(body) : body[i] = "yield"
  BY DEF CountedInv
<1>3. Len(s) = 2 * n + 2 /\ \A i \in 1..Len(s) : s[i] # "exit?"
  BY <1>1, <1>2, CountedOps
<1>4. /\ Len(todo) \in Nat \ {0} /\ Head(todo) = s[Len(s) - Len(todo) + 1]
      /\ LeftOf(s)' /\ Len(todo') = Len(todo) - 1
      /\ UNCHANGED <<program, body, rounds>>
  BY <1>1, <1>2, <1>3, NextOfScript
<1>5. /\ s[1] = "call" /\ s[2 * n + 2] = "leave"
      /\ \A j \in 1..n : s[2 * j] = a /\ s[2 * j + 1] = "read"
  BY <1>1 DEF CountedScript
<1>6. /\ program' \in Counteds /\ program'.counted = TRUE /\ program'.initial = "always"
      /\ program'.owned = TRUE /\ program'.loop # <<>>
      /\ rounds' \in Nat \ {0} /\ Len(body') \in Nat /\ rounds' <= Len(body')
      /\ \A i \in 1..Len(body') : body'[i] = "yield"
      /\ \E c \in {"resume", "resume?"}, z \in Seq(Ops) : CountedScript(z, c, rounds') /\ LeftOf(z)'
  <2>1. CountedScript(s, a, rounds')
    BY <1>1, <1>4
  <2> QED
    BY <1>4, <2>1 DEF CountedInv
<1>7. got = {} /\ values = <<pos>> /\ rounds' = n
  BY <1>4 DEF CountedInv
<1>8. CASE Len(todo) = 2 * n + 2 /\ frame = "none" /\ pos = 0 /\ seen = Upward(0)
  <2>1. Head(todo) = "call"
    BY <1>2, <1>3, <1>4, <1>5, <1>8
  <2>2. frame' = "suspended" /\ UNCHANGED <<pos, values, seen, got>>
    BY <1>2, <2>1, Operation
  <2>3. \E j \in 1..n : /\ Len(todo') = 2 * (n - j) + 3 /\ frame' = "suspended"
                        /\ pos' = j - 1 /\ seen' = Upward(j - 1)
    <3>1. 1 \in 1..n /\ Len(todo') = 2 * (n - 1) + 3 /\ 1 - 1 = 0
      BY <1>2, <1>4, <1>8
    <3> QED
      BY <1>8, <2>2, <3>1
  <2> QED
    BY <1>6, <1>7, <2>2, <2>3 DEF CountedInv
<1>9. CASE \E j \in 1..n : /\ Len(todo) = 2 * (n - j) + 3 /\ frame = "suspended"
                           /\ pos = j - 1 /\ seen = Upward(j - 1)
  <2>1. PICK j \in 1..n : /\ Len(todo) = 2 * (n - j) + 3 /\ frame = "suspended"
                          /\ pos = j - 1 /\ seen = Upward(j - 1)
    BY <1>9
  <2>2. Head(todo) = a
    <3>1. Len(s) - Len(todo) + 1 = 2 * j
      BY <1>2, <1>3, <2>1
    <3> QED
      BY <1>4, <1>5, <3>1
  <2>3. One!Run /\ UNCHANGED <<seen, got>>
    <3>1. Head(todo) \in {"resume", "resume?"} /\ frame # "done"
      BY <2>1, <2>2
    <3> QED
      BY <3>1, Operation
  <2>4. pos' = j /\ frame' = "suspended" /\ values' = <<j>>
    <3>1. Executing /\ pos + 1 = j /\ pos < Len(body) /\ j \in Nat
      BY <1>2, <2>1 DEF Executing
    <3>2. j \in 1..Len(body) /\ body[j] = "yield"
      BY <1>2
    <3>3. One!Yielded(j) = j
      <4>1. \A i \in 1..j : body[i] \in One!Yielding
        BY <1>2 DEF One!Yielding
      <4> QED
        BY <3>1, <4>1, YieldsEach
    <3>4. body[pos + 1] \in One!Suspending
      BY <3>1, <3>2 DEF One!Suspending
    <3>5. /\ pos' = pos + 1 /\ frame' = "suspended"
          /\ values' = IF body[pos + 1] = "yield" THEN <<One!Yielded(pos + 1)>> ELSE values
      BY <2>3, <3>1, <3>4, RunSuspends
    <3> QED
      BY <3>1, <3>2, <3>3, <3>5
  <2>5. Len(todo') = 2 * (n - j) + 2
    BY <1>2, <1>4, <2>1
  <2>6. values' = <<pos'>> /\ got' = {}
    BY <1>7, <2>3, <2>4
  <2>7. \E k \in 1..n : /\ Len(todo') = 2 * (n - k) + 2 /\ frame' = "suspended"
                        /\ pos' = k /\ seen' = Upward(k - 1)
    BY <2>1, <2>3, <2>4, <2>5
  <2> QED
    BY <1>6, <1>7, <2>6, <2>7 DEF CountedInv
<1>10. CASE \E j \in 1..n : /\ Len(todo) = 2 * (n - j) + 2 /\ frame = "suspended"
                            /\ pos = j /\ seen = Upward(j - 1)
  <2>1. PICK j \in 1..n : /\ Len(todo) = 2 * (n - j) + 2 /\ frame = "suspended"
                          /\ pos = j /\ seen = Upward(j - 1)
    BY <1>10
  <2>2. Head(todo) = "read"
    <3>1. Len(s) - Len(todo) + 1 = 2 * j + 1
      BY <1>2, <1>3, <2>1
    <3> QED
      BY <1>4, <1>5, <3>1
  <2>3. UNCHANGED <<frame, pos, values, got>> /\ seen' = seen \o values
    BY <2>2, Operation
  <2>4. seen' = Upward(j)
    <3>1. j - 1 \in Nat /\ (j - 1) + 1 = j /\ j \in Nat
      OBVIOUS
    <3>2. seen' = Upward(j - 1) \o <<(j - 1) + 1>>
      BY <1>7, <2>1, <2>3, <3>1
    <3>3. Upward(j - 1) \o <<(j - 1) + 1>> = Upward((j - 1) + 1)
      BY <3>1, UpwardGrows
    <3> QED
      BY <3>1, <3>2, <3>3
  <2>5. got' = {} /\ values' = <<pos'>>
    BY <1>7, <2>3
  <2>6. CASE j = n
    <3>1. Len(todo') = 1
      BY <1>2, <1>4, <2>1, <2>6
    <3> QED
      BY <1>6, <1>7, <2>1, <2>3, <2>4, <2>5, <2>6, <3>1 DEF CountedInv
  <2>7. CASE j # n
    <3>1. j + 1 \in 1..n /\ Len(todo') = 2 * (n - (j + 1)) + 3 /\ (j + 1) - 1 = j
      BY <1>2, <1>4, <2>1, <2>7
    <3>2. \E k \in 1..n : /\ Len(todo') = 2 * (n - k) + 3 /\ frame' = "suspended"
                          /\ pos' = k - 1 /\ seen' = Upward(k - 1)
      BY <2>1, <2>3, <2>4, <3>1
    <3> QED
      BY <1>6, <1>7, <2>5, <3>2 DEF CountedInv
  <2> QED
    BY <2>6, <2>7
<1>11. CASE Len(todo) = 1 /\ frame = "suspended" /\ pos = n /\ seen = Upward(n)
  <2>1. Head(todo) = "leave"
    BY <1>2, <1>3, <1>4, <1>5, <1>11
  <2>2. frame' = "freed" /\ UNCHANGED <<pos, values, seen, got>>
    BY <1>2, <2>1, Operation
  <2>3. Len(todo') = 0
    BY <1>4, <1>11
  <2> QED
    BY <1>6, <1>7, <1>11, <2>2, <2>3 DEF CountedInv
<1> QED
  BY <1>4, <1>8, <1>9, <1>10, <1>11 DEF CountedInv

LEMMA CountedPrograms ==
    ASSUME NEW p \in Counteds
    PROVE  /\ p.counted = TRUE /\ p.initial = "always" /\ p.owned = TRUE /\ p.loop # <<>>
           /\ p.before = <<>> /\ p.after = <<>> /\ p \notin Voids
           /\ p # One!value_co_return_final_suspend_never
           /\ p.loop \in {<<"resume", "read">>, <<"resume?", "read">>}
           /\ p.bodies \in {{One!Times(MaxValues + 1, "yield")}, {One!Times(MaxValues, "yield")}}
<1>1. p.counted = TRUE => p \notin Voids /\ p # One!value_co_return_final_suspend_never
  BY StraightOnes DEF Straight, Voids
<1>2. CASE p = One!generate_primes
  BY <1>1, <1>2, LoopingOnes DEF Looping
<1>3. CASE p = One!coroutineGetElements
  BY <1>1, <1>3, LoopingOnes DEF Looping
<1>4. CASE p = One!infiniteDataStream
  BY <1>1, <1>4, LoopingOnes DEF Looping
<1> QED
  BY <1>2, <1>3, <1>4 DEF Counteds

LEMMA CountedMeans == ASSUME CountedInv PROVE Sound
<1> DEFINE n == rounds
<1>1. PICK a \in {"resume", "resume?"}, s \in Seq(Ops) : CountedScript(s, a, n) /\ LeftOf(s)
  BY DEF CountedInv
<1>2. /\ n \in Nat \ {0} /\ program \notin Voids
      /\ program # One!value_co_return_final_suspend_never
      /\ \A i \in 1..Len(body) : body[i] = "yield"
  BY CountedPrograms DEF CountedInv
<1>3. Len(s) = 2 * n + 2 /\ s[1] = "call" /\ s[2 * n + 2] = "leave"
      /\ \A j \in 1..n : s[2 * j] = a /\ s[2 * j + 1] = "read"
  BY <1>1 DEF CountedScript
<1>4. \/ Len(todo) = 2 * n + 2 /\ frame = "none" /\ pos = 0 /\ seen = Upward(0)
      \/ \E j \in 1..n : /\ Len(todo) = 2 * (n - j) + 3 /\ frame = "suspended"
                         /\ pos = j - 1 /\ seen = Upward(j - 1)
      \/ \E j \in 1..n : /\ Len(todo) = 2 * (n - j) + 2 /\ frame = "suspended"
                         /\ pos = j /\ seen = Upward(j - 1)
      \/ Len(todo) = 1 /\ frame = "suspended" /\ pos = n /\ seen = Upward(n)
      \/ Len(todo) = 0 /\ frame = "freed" /\ pos = n /\ seen = Upward(n)
  BY DEF CountedInv
<1>5. One!FrameInUse /\ One!NoFrameLeft
  <2> DEFINE op == s[Len(s) - Len(todo) + 1]
  <2>1. Len(todo) # 0 => \/ op = "call" /\ frame = "none"
                         \/ op \in {"resume", "resume?", "read", "leave"} /\ frame = "suspended"
    <3>1. CASE Len(todo) = 2 * n + 2 /\ frame = "none"
      <4>1. Len(s) - Len(todo) + 1 = 1
        BY <1>2, <1>3, <3>1
      <4> QED
        BY <1>3, <3>1, <4>1
    <3>2. CASE \E j \in 1..n : Len(todo) = 2 * (n - j) + 3 /\ frame = "suspended"
      <4>1. PICK j \in 1..n : Len(todo) = 2 * (n - j) + 3 /\ frame = "suspended"
        BY <3>2
      <4>2. Len(s) - Len(todo) + 1 = 2 * j
        BY <1>2, <1>3, <4>1
      <4> QED
        BY <1>3, <4>1, <4>2
    <3>3. CASE \E j \in 1..n : Len(todo) = 2 * (n - j) + 2 /\ frame = "suspended"
      <4>1. PICK j \in 1..n : Len(todo) = 2 * (n - j) + 2 /\ frame = "suspended"
        BY <3>3
      <4>2. Len(s) - Len(todo) + 1 = 2 * j + 1
        BY <1>2, <1>3, <4>1
      <4> QED
        BY <1>3, <4>1, <4>2
    <3>4. CASE Len(todo) = 1 /\ frame = "suspended"
      <4>1. Len(s) - Len(todo) + 1 = 2 * n + 2
        BY <1>2, <1>3, <3>4
      <4> QED
        BY <1>3, <3>4, <4>1
    <3> QED
      BY <1>4, <3>1, <3>2, <3>3, <3>4
  <2>2. Len(todo) = 0 => frame = "freed"
    <3>1. \A j \in 1..n : 2 * (n - j) + 3 # 0 /\ 2 * (n - j) + 2 # 0
      BY <1>2
    <3> QED
      BY <1>2, <1>4, <3>1
  <2> QED
    BY <1>1, <1>2, <2>1, <2>2, LeftUses
<1>6. \E k \in Nat : seen = Upward(k)
  <2>1. \A j \in 1..n : j - 1 \in Nat
    OBVIOUS
  <2> QED
    BY <1>2, <1>4, <2>1
<1>7. One!ReadInOrder
  <2>1. PICK k \in Nat : seen = Upward(k)
    BY <1>6
  <2>2. Len(seen) = k
    BY <2>1, UpwardGrows
  <2> QED
    BY <2>1, <2>2 DEF One!ReadInOrder, Upward
<1>8. One!AllRead
  <2>1. todo = <<>> => Len(todo) = 0
    OBVIOUS
  <2>2. Len(todo) = 0 => seen = Upward(n)
    <3>1. \A j \in 1..n : 2 * (n - j) + 3 # 0 /\ 2 * (n - j) + 2 # 0
      BY <1>2
    <3> QED
      BY <1>2, <1>4, <3>1
  <2>3. Len(Upward(n)) = n
    BY <1>2, UpwardGrows
  <2> QED
    BY <1>2, <2>1, <2>2, <2>3 DEF One!AllRead
<1>9. One!ResultIsSet
  BY <1>2 DEF CountedInv, One!ResultIsSet
<1>10. One!HearsMessage
  <2>1. pos \in 0..n /\ n <= Len(body) /\ Len(body) \in Nat
    BY <1>2, <1>4 DEF CountedInv
  <2>2. \A i \in 1..pos : body[i] = "yield"
    BY <1>2, <2>1
  <2> QED
    BY <2>2 DEF One!HearsMessage
<1> QED
  BY <1>5, <1>7, <1>8, <1>9, <1>10 DEF Sound

LEMMA CountedInit == ASSUME One!Init, program \in Counteds PROVE CountedInv
<1> DEFINE n == rounds
<1>1. /\ program.counted = TRUE /\ program.initial = "always" /\ program.owned = TRUE
      /\ program.loop # <<>> /\ program.before = <<>> /\ program.after = <<>>
      /\ program.loop \in {<<"resume", "read">>, <<"resume?", "read">>}
      /\ program.bodies \in {{One!Times(MaxValues + 1, "yield")}, {One!Times(MaxValues, "yield")}}
  BY CountedPrograms
<1>2. MaxValues \in Nat
  BY BoundsAssumption
<1>3. /\ body \in program.bodies /\ rounds \in 1..MaxValues /\ frame = "none" /\ pos = 0
      /\ seen = <<>> /\ got = {}
      /\ todo = <<"call">> \o <<>> \o (One!Repeat(rounds, program.loop) \o <<>> \o <<"leave">>)
      /\ (\A i \in 1..Len(body) : body[i] # "queue") => values = <<0>>
  <2>1. ~One!UntilDone
    BY <1>1 DEF One!UntilDone
  <2>2. ASSUME \A i \in 1..Len(body) : body[i] # "queue" PROVE values = <<0>>
    BY <2>2 DEF One!Init, One!ToSet
  <2>3. /\ body \in program.bodies /\ frame = "none" /\ pos = 0 /\ seen = <<>> /\ got = {}
        /\ rounds \in 1..MaxValues
    BY <1>1, <2>1 DEF One!Init
  <2>4. todo = <<"call">> \o program.before
                 \o (One!Repeat(rounds, program.loop) \o program.after \o <<"leave">>)
    BY <2>1 DEF One!Init
  <2> QED
    BY <1>1, <2>2, <2>3, <2>4
<1>4. /\ n \in Nat \ {0} /\ Len(body) \in Nat /\ n <= Len(body)
      /\ \A i \in 1..Len(body) : body[i] = "yield"
  <2>1. body = One!Times(MaxValues + 1, "yield") \/ body = One!Times(MaxValues, "yield")
    BY <1>1, <1>3
  <2>2. PICK m \in Nat : body = One!Times(m, "yield") /\ m >= MaxValues
    BY <1>2, <2>1
  <2>3. Len(body) = m /\ \A i \in 1..m : body[i] = "yield"
    BY <2>2, TimesOf
  <2>4. rounds \in 1..MaxValues
    BY <1>3
  <2>5. m >= MaxValues
    BY <2>2
  <2>6. n \in Nat \ {0} /\ n <= m
    BY <1>2, <2>4, <2>5
  <2> QED
    BY <2>3, <2>6
<1>5. PICK a \in {"resume", "resume?"} : program.loop = <<a, "read">>
  BY <1>1
<1> DEFINE r == One!Repeat(n, program.loop)
           t == <<"leave">>
<1>6. Rounds(r, a, n)
  <2>1. a \in Ops /\ n \in Nat
    BY <1>4 DEF Ops
  <2> QED
    BY <1>5, <2>1, RepeatRounds
<1>7. "call" \in Ops /\ "leave" \in Ops
  BY DEF Ops
<1> HIDE DEF Ops
<1>8. t \in Seq(Ops) /\ Len(t) = 1 /\ t[1] = "leave"
  BY <1>7, OneOp
<1>9. todo = <<"call">> \o <<>> \o (r \o <<>> \o t)
  BY <1>3
<1> HIDE DEF r, t
<1>10. r \in Seq(Ops) /\ Len(r) = 2 * n /\ \A j \in 1..n : r[2 * j - 1] = a /\ r[2 * j] = "read"
  BY <1>6 DEF Rounds
<1>11. r \o <<>> = r
  BY <1>10
<1> DEFINE u == r \o t
<1>12. /\ u \in Seq(Ops) /\ Len(u) = 2 * n + 1
       /\ \A i \in 1..(2 * n) : u[i] = r[i]
       /\ u[2 * n + 1] = "leave"
  <2>1. /\ u \in Seq(Ops) /\ Len(u) = Len(r) + Len(t)
        /\ \A i \in 1..Len(r) : u[i] = r[i]
        /\ \A i \in 1..Len(t) : u[Len(r) + i] = t[i]
    BY <1>8, <1>10, Joined
  <2> HIDE DEF u
  <2> QED
    BY <1>8, <1>10, <2>1
<1>13. todo = <<"call">> \o <<>> \o u
  BY <1>9, <1>11
<1> HIDE DEF u
<1> DEFINE b == <<>>
<1>14. b \in Seq(Ops) /\ Len(b) = 0 /\ todo = <<"call">> \o b \o u
  BY <1>13
<1> HIDE DEF b
<1>15. /\ todo \in Seq(Ops) /\ Len(todo) = 2 * n + 2 /\ todo[1] = "call"
       /\ \A i \in 1..(2 * n + 1) : todo[1 + i] = u[i]
  <2>1. /\ todo \in Seq(Ops) /\ Len(todo) = 1 + Len(b) + Len(u) /\ todo[1] = "call"
        /\ \A i \in 1..Len(u) : todo[1 + Len(b) + i] = u[i]
    BY <1>12, <1>14, Opening
  <2> QED
    BY <1>4, <1>12, <1>14, <2>1
<1>16. CountedScript(todo, a, n)
  <2>1. ASSUME NEW j \in 1..n PROVE todo[2 * j] = a /\ todo[2 * j + 1] = "read"
    <3>1. 2 * j - 1 \in 1..(2 * n) /\ 2 * j \in 1..(2 * n) /\ 1 + (2 * j - 1) = 2 * j /\ 1 + 2 * j = 2 * j + 1
          /\ 2 * j - 1 \in 1..(2 * n + 1) /\ 2 * j \in 1..(2 * n + 1)
      BY <1>4
    <3>2. u[2 * j - 1] = a /\ u[2 * j] = "read"
      BY <1>10, <1>12, <3>1
    <3>3. todo[1 + (2 * j - 1)] = a /\ todo[1 + 2 * j] = "read"
      BY <1>15, <3>1, <3>2
    <3> QED
      BY <3>1, <3>3
  <2>2. todo[2 * n + 2] = "leave"
    <3>1. 2 * n + 1 \in 1..(2 * n + 1) /\ 1 + (2 * n + 1) = 2 * n + 2
      BY <1>4
    <3>2. todo[1 + (2 * n + 1)] = u[2 * n + 1]
      BY <1>15, <3>1
    <3> QED
      BY <1>12, <3>1, <3>2
  <2> QED
    BY <1>15, <2>1, <2>2 DEF CountedScript
<1>17. LeftOf(todo)
  <2>1. \A i \in 1..Len(todo) : Len(todo) - Len(todo) + i = i
    BY <1>4, <1>15
  <2>2. \A i \in 1..Len(todo) : todo[i] = todo[Len(todo) - Len(todo) + i]
    BY <2>1
  <2>3. Len(todo) <= Len(todo)
    BY <1>4, <1>15
  <2> QED
    BY <1>15, <2>2, <2>3 DEF LeftOf
<1>18. values = <<0>> /\ seen = Upward(0)
  <2>1. \A i \in 1..Len(body) : body[i] # "queue"
    BY <1>4
  <2> QED
    BY <1>3, <2>1 DEF Upward
<1> QED
  BY <1>1, <1>3, <1>4, <1>15, <1>16, <1>17, <1>18 DEF CountedInv

-----------------------------------------------------------------------------
(* All of them together                                                      *)

\* Where each of the programs with one coroutine is.
OneProgram == \/ QuietInv \/ UnsetInv \/ YieldInv \/ AwaitInv \/ ChatInv
              \/ CycleInv \/ BasicInv \/ QueueInv \/ CountedInv

OneInv == example = "one" => OneProgram

LEMMA OneStarts == ASSUME One!Init PROVE OneProgram
<1>1. program \in One!Programs
  BY DEF One!Init
<1>2. \/ program \in Quiets \/ program = One!value_co_return_final_suspend_never
      \/ program \in {One!co_yield_simple, One!co_await_simple} \/ program = One!coroutine_chat
      \/ program \in Cyclics \/ program = One!basic_task
      \/ program = One!co_yield_unsuspended_loop \/ program \in Counteds
  BY <1>1 DEF One!Programs, Quiets, Cyclics, Counteds, One!co_yield_alloc_heap,
              One!co_yield_alloc_pmr, One!co_yield_alloc_stack, One!infiniteDataStreamComments
<1> QED
  BY <1>2, QuietInit, UnsetInit, HaltInit, ChatInit, CycleInit, BasicInit, QueueInit, CountedInit
     DEF OneProgram

LEMMA OneSteps == ASSUME OneProgram, One!Next PROVE OneProgram'
BY QuietStep, UnsetStep, YieldStep, AwaitingStep, ChatStep, CycleStep, BasicStep, QueueStep,
   CountedStep DEF OneProgram

LEMMA OneStays == ASSUME OneProgram, UNCHANGED single PROVE OneProgram'
<1>1. UNCHANGED <<program, body, rounds, frame, pos, values, result, sent, heard, todo, seen, got>>
  BY DEF single
<1>2. ASSUME QuietInv PROVE QuietInv'
  BY <1>1, <1>2 DEF QuietInv, QuietProgram, UsesFrom, Fresh, Ran
<1>3. ASSUME UnsetInv PROVE UnsetInv'
  BY <1>1, <1>3 DEF UnsetInv, LeftOf
<1>4. ASSUME YieldInv PROVE YieldInv'
  BY <1>1, <1>4 DEF YieldInv, YieldAt, HaltsAt, LeftOf
<1>5. ASSUME AwaitInv PROVE AwaitInv'
  BY <1>1, <1>5 DEF AwaitInv, AwaitAt, HaltsAt, LeftOf
<1>6. ASSUME ChatInv PROVE ChatInv'
  BY <1>1, <1>6 DEF ChatInv, ChatAt, LeftOf
<1>7. LoopProgram /\ InOrder => LoopProgram' /\ InOrder' /\ Op' = Op
  BY <1>1 DEF LoopProgram, InOrder, Op, One!UntilDone
<1>8. ASSUME CycleInv PROVE CycleInv'
  BY <1>1, <1>7, <1>8 DEF CycleInv
<1>9. ASSUME BasicInv PROVE BasicInv'
  BY <1>1, <1>7, <1>9 DEF BasicInv
<1>10. ASSUME QueueInv PROVE QueueInv'
  BY <1>1, <1>7, <1>10 DEF QueueInv
<1>11. ASSUME CountedInv PROVE CountedInv'
  BY <1>1, <1>11 DEF CountedInv, LeftOf
<1> QED
  BY <1>2, <1>3, <1>4, <1>5, <1>6, <1>8, <1>9, <1>10, <1>11 DEF OneProgram

LEMMA OneMeans == ASSUME OneProgram PROVE Sound
BY QuietMeans, UnsetMeans, YieldMeans, AwaitMeans, ChatMeans, CycleMeans, BasicMeans, QueueMeans,
   CountedMeans DEF OneProgram

LEMMA OneInvariance == Spec => []OneInv
<1>1. Init => OneInv
  BY OneStarts DEF Init, OneInv
<1>2. OneInv /\ [Next]_variables => OneInv'
  <2> SUFFICES ASSUME OneInv, [Next]_variables, example' = "one" PROVE OneProgram'
    BY DEF OneInv
  <2>1. example = "one" /\ OneProgram
    BY DEF Next, In, variables, OneInv
  <2>2. One!Next \/ UNCHANGED single
    BY <2>1 DEF Next, In, variables
  <2> QED
    BY <2>1, <2>2, OneSteps, OneStays
<1> QED
  BY <1>1, <1>2, PTL DEF Spec

\* FrameLifetimes, of main() and the frame of its coroutine, and of tasks that are moved:
\* main() never uses a frame that is gone, resumes none that waits finally, destroys none
\* twice and leaves none, however many values are yielded and however often it asks.
THEOREM FramesLiveAsUsed == Spec => []FrameLifetimes
<1>1. OneInv /\ (example = "own" => Own!OneOwner) => FrameLifetimes
  BY OneMeans DEF OneInv, Sound, FrameLifetimes
<1> QED
  BY <1>1, OneInvariance, UniqueOwnership, PTL

\* ValuesInOrder, of every generator and its caller: main() reads the values in the order in
\* which they are yielded, none twice, none too early, and in the end as many as there are
\* or as it asked for.
THEOREM ReadsInOrder == Spec => []ValuesInOrder
<1>1. OneInv => ValuesInOrder
  BY OneMeans DEF OneInv, Sound, ValuesInOrder
<1> QED
  BY <1>1, OneInvariance, PTL

\* NothingReadEarly, of the results that co_return or an exception sets and of the message to a
\* coroutine that waits for it: each is there before it is read.
THEOREM ReadsWhatIsThere == Spec => []NothingReadEarly
<1>1. OneInv => NothingReadEarly
  BY OneMeans DEF OneInv, Sound, NothingReadEarly
<1> QED
  BY <1>1, OneInvariance, PTL
=============================================================================
