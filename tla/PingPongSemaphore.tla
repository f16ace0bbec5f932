-------------------------- MODULE PingPongSemaphore --------------------------
(***************************************************************************)
(* concurrency/ping_pong_performance_test/pingPongSemaphore.cpp: a         *)
(* counting_semaphore<1> per direction.  A release() that has no acquire() *)
(* waiting for it is kept, and releasing past the maximum of 1 would be    *)
(* undefined behaviour.                                                    *)
(***************************************************************************)
EXTENDS Naturals

CONSTANT countlimit

Players == {"ping", "pong"}

VARIABLES signal,    \* signal2Ping is signal["ping"], signal2Pong signal["pong"]
          counter,   \* rounds played
          pc         \* where ping, pong and main are

vars == <<signal, counter, pc>>

\* main() starts both threads after its release(), the first serve.
Init == /\ signal = [t \in Players |-> IF t = "ping" THEN 1 ELSE 0]
        /\ counter = 0
        /\ pc = [t \in Players |-> "loop"]

Goto(t, from, to) == pc[t] = from /\ pc' = [pc EXCEPT ![t] = to]

Other(t) == IF t = "ping" THEN "pong" ELSE "ping"

Loop(t) == /\ \/ counter <= countlimit /\ Goto(t, "loop", "acquire")
              \/ counter > countlimit /\ Goto(t, "loop", "done")
           /\ UNCHANGED <<signal, counter>>

Acquire(t) == /\ signal[t] > 0
              /\ Goto(t, "acquire", IF t = "ping" THEN "count" ELSE "release")
              /\ signal' = [signal EXCEPT ![t] = @ - 1]
              /\ UNCHANGED counter

Count == /\ Goto("ping", "count", "release")
         /\ counter' = counter + 1
         /\ UNCHANGED signal

Release(t) == /\ Goto(t, "release", "loop")
              /\ signal' = [signal EXCEPT ![Other(t)] = @ + 1]
              /\ UNCHANGED counter

PlayerStep(t) == Loop(t) \/ Acquire(t) \/ Release(t) \/ (t = "ping" /\ Count)

Joined == (\A t \in Players : pc[t] = "done") /\ UNCHANGED vars

Next == (\E t \in Players : PlayerStep(t)) \/ Joined

Spec == Init /\ [][Next]_vars /\ \A t \in Players : WF_vars(PlayerStep(t))
-----------------------------------------------------------------------------
(* Properties *)

\* There is one serve: it is in one semaphore or in the hands of one thread, so
\* a counting_semaphore<1> never exceeds its maximum.
OneServe ==
    LET held(t) == IF pc[t] \in {"count", "release"} THEN 1 ELSE 0
    IN  signal["ping"] + signal["pong"] + held("ping") + held("pong") = 1

\* The game as PingPong sees it.
Turn == IF signal["ping"] > 0 \/ pc["pong"] = "release" THEN "ping" ELSE "pong"
Hits == counter + IF pc["ping"] = "count" THEN 1 ELSE 0

\* main() joins both threads: the count is raised before the release that lets
\* pong look at it for the last time.
BothReturn == <>(\A t \in Players : pc[t] = "done")
=============================================================================
