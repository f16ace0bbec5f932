---------------------- MODULE PingPongConditionVariable ----------------------
(***************************************************************************)
(* concurrency/ping_pong_performance_test/pingPongConditionVariable.cpp:   *)
(* dataReady under a mutex and a condition variable per direction.  ping   *)
(* publishes dataReady and leaves the lock before it counts the round, so  *)
(* pong can pass its predicate without having been notified and read the   *)
(* old count.  Condition variables are modelled as in ThreadSafeQueue.     *)
(***************************************************************************)
EXTENDS Naturals

CONSTANTS countlimit,
          MaxSpurious    \* bound: how many spurious wake-ups may happen

Players == {"ping", "pong"}

VARIABLES dataReady,   \* whose turn it is: FALSE is ping's
          owner,       \* holder of mutex_, or "none"
          counter,     \* rounds played, as the threads can read it
          spurious,    \* spurious wake-ups so far
          pc           \* where ping and pong are

vars == <<dataReady, owner, counter, spurious, pc>>

Init == /\ dataReady = FALSE
        /\ owner = "none"
        /\ counter = 0
        /\ spurious = 0
        /\ pc = [t \in Players |-> "loop"]

Goto(t, from, to) == pc[t] = from /\ pc' = [pc EXCEPT ![t] = to]

Other(t) == IF t = "ping" THEN "pong" ELSE "ping"

\* The predicates of the two waits.
MyTurn(t) == dataReady = (t = "pong")

Loop(t) == /\ \/ counter <= countlimit /\ Goto(t, "loop", "lock")
              \/ counter > countlimit /\ Goto(t, "loop", "done")
           /\ UNCHANGED <<dataReady, owner, counter, spurious>>

\* Taken on entry, and again by a wait() that has been woken.
Lock(t) == /\ Goto(t, "lock", "check")
           /\ owner = "none"
           /\ owner' = t
           /\ UNCHANGED <<dataReady, counter, spurious>>

\* Mutant: wait() without a predicate, when dataReady happens to be set.
PassAnyway(t) == /\ Goto(t, "check", "write")
                 /\ UNCHANGED <<dataReady, owner, counter, spurious>>

WaitPasses(t) == /\ MyTurn(t)
                 /\ Goto(t, "check", "write")
                 /\ UNCHANGED <<dataReady, owner, counter, spurious>>

WaitBlocks(t) == /\ ~MyTurn(t)
                 /\ Goto(t, "check", "blocked")
                 /\ owner' = "none"
                 /\ UNCHANGED <<dataReady, counter, spurious>>

SpuriousWake(t) == /\ Goto(t, "blocked", "lock")
                   /\ spurious < MaxSpurious
                   /\ spurious' = spurious + 1
                   /\ UNCHANGED <<dataReady, owner, counter>>

Write(t) == /\ Goto(t, "write", "unlock")
            /\ dataReady' = (t = "ping")
            /\ UNCHANGED <<owner, counter, spurious>>

Unlock(t) == /\ Goto(t, "unlock", IF t = "ping" THEN "count" ELSE "notify")
             /\ owner' = "none"
             /\ UNCHANGED <<dataReady, counter, spurious>>

Count == /\ Goto("ping", "count", "notify")
         /\ counter' = counter + 1
         /\ UNCHANGED <<dataReady, owner, spurious>>

\* ping signals condVar2 and pong condVar1, on which only the other one waits.
Notify(t) == /\ pc[t] = "notify"
             /\ pc' = [pc EXCEPT ![t] = "loop",
                                 ![Other(t)] = IF @ = "blocked" THEN "lock" ELSE @]
             /\ UNCHANGED <<dataReady, owner, counter, spurious>>

PlayerStep(t) == \/ Loop(t) \/ Lock(t) \/ WaitPasses(t) \/ WaitBlocks(t)
                 \/ Write(t) \/ Unlock(t) \/ Notify(t)
                 \/ t = "ping" /\ Count

Next == \E t \in Players : PlayerStep(t) \/ SpuriousWake(t)

\* The scheduler runs both threads; spurious wake-ups are not owed.
Spec == Init /\ [][Next]_vars /\ \A t \in Players : WF_vars(PlayerStep(t))
-----------------------------------------------------------------------------
(* Properties *)

\* The game as PingPong sees it: the counter shows a round late.
Turn == IF dataReady THEN "pong" ELSE "ping"
Hits == counter + IF pc["ping"] \in {"unlock", "count"} THEN 1 ELSE 0

\* Who has passed his wait() and is about to write has the turn, and the mutex.
OneWrites == \A t \in Players : pc[t] = "write" => Turn = t /\ owner = t
=============================================================================
