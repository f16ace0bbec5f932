------------------------- MODULE PingPongAtomicBool -------------------------
(***************************************************************************)
(* concurrency/ping_pong_performance_test/pingPongAtomicBool.cpp: one      *)
(* atomic flag, on which both threads wait.  pingPongAtomicFlag.cpp is the *)
(* same program with test_and_set() and clear() for the two stores.        *)
(*                                                                         *)
(* atomic::wait(old) returns once it has read a value other than old.      *)
(* Otherwise it blocks; a notify makes it read again, and it may read      *)
(* again without one, but is not bound to.                                 *)
(***************************************************************************)
EXTENDS Naturals

CONSTANT countlimit

VARIABLES atomicBool,   \* the flag
          counter,      \* rounds played, as the threads can read it
          pc            \* where ping and pong are

vars == <<atomicBool, counter, pc>>

Init == /\ atomicBool = TRUE
        /\ counter = 0
        /\ pc = [t \in {"ping", "pong"} |-> "loop"]

Goto(t, from, to) == pc[t] = from /\ pc' = [pc EXCEPT ![t] = to]

\* The value on which a thread's wait() blocks.
Old(t) == t = "ping"

Other(t) == IF t = "ping" THEN "pong" ELSE "ping"

\* while (counter <= countlimit)
Loop(t) == /\ \/ counter <= countlimit /\ Goto(t, "loop", "wait")
              \/ counter > countlimit /\ Goto(t, "loop", "done")
           /\ UNCHANGED <<atomicBool, counter>>

WaitPasses(t) == /\ atomicBool # Old(t)
                 /\ Goto(t, "wait", "store")
                 /\ UNCHANGED <<atomicBool, counter>>

WaitBlocks(t) == /\ atomicBool = Old(t)
                 /\ Goto(t, "wait", "blocked")
                 /\ UNCHANGED <<atomicBool, counter>>

\* A blocked wait() reads the flag again although nobody notified.
WakesUnnotified(t) == Goto(t, "blocked", "wait") /\ UNCHANGED <<atomicBool, counter>>

StorePing == /\ Goto("ping", "store", "count")
             /\ atomicBool' = TRUE
             /\ UNCHANGED counter

Count == /\ Goto("ping", "count", "notify")
         /\ counter' = counter + 1
         /\ UNCHANGED atomicBool

\* Mutant: the notify is forgotten.
NotifyNobody(t) == Goto(t, "notify", "loop") /\ UNCHANGED <<atomicBool, counter>>

StorePong == /\ Goto("pong", "store", "notify")
             /\ atomicBool' = FALSE
             /\ UNCHANGED counter

\* notify_one(): the other thread is the only one that can be blocked.
Notify(t) == /\ pc[t] = "notify"
             /\ pc' = [pc EXCEPT ![t] = "loop",
                                 ![Other(t)] = IF @ = "blocked" THEN "wait" ELSE @]
             /\ UNCHANGED <<atomicBool, counter>>

PingStep == \/ Loop("ping") \/ WaitPasses("ping") \/ WaitBlocks("ping")
            \/ StorePing \/ Count \/ Notify("ping")

PongStep == \/ Loop("pong") \/ WaitPasses("pong") \/ WaitBlocks("pong")
            \/ StorePong \/ Notify("pong")

Next == PingStep \/ PongStep \/ \E t \in {"ping", "pong"} : WakesUnnotified(t)

\* The scheduler runs both threads; unnotified wake-ups are not owed.
Spec == Init /\ [][Next]_vars /\ WF_vars(PingStep) /\ WF_vars(PongStep)
-----------------------------------------------------------------------------
(* Properties *)

\* The game as PingPong sees it: between its store and its ++counter ping has
\* played a round the counter does not show yet.
Turn == IF atomicBool THEN "pong" ELSE "ping"
Hits == counter + IF pc["ping"] = "count" THEN 1 ELSE 0

\* Who has passed his wait() and is about to store has the turn: not both have.
OneStores == \A t \in {"ping", "pong"} : pc[t] = "store" => Turn = t

\* main() joins both threads and prints the duration.
BothReturn == <>(\A t \in {"ping", "pong"} : pc[t] = "done")
=============================================================================
