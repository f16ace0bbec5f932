---------------------- MODULE ConditionVariablePingPong ----------------------
(***************************************************************************)
(* concurrency/problems/solutions/conditionVariablePingPong.cpp: setTrue   *)
(* and setFalse flip dataReady in turn.  Everything but the loop tests is  *)
(* done under the mutex; the tests read the plain int counter without it,  *)
(* and compare it with COUNTLIMIT by <= in one thread and < in the other.  *)
(* A test takes the value of the counter at some moment between the        *)
(* thread's unlock and its next lock: all that a load of an aligned int    *)
(* can yield here, although the race makes it undefined.                   *)
(***************************************************************************)
EXTENDS Naturals

CONSTANTS COUNTLIMIT,
          MaxSpurious    \* bound: how many spurious wake-ups may happen

Threads == {"setTrue", "setFalse"}

VARIABLES dataReady,   \* the value to be flipped
          owner,       \* holder of mutex_, or "none"
          counter,     \* how often dataReady was set
          spurious,    \* spurious wake-ups so far
          pc           \* where the two threads are

vars == <<dataReady, owner, counter, spurious, pc>>

Init == /\ dataReady = FALSE
        /\ owner = "none"
        /\ counter = 0
        /\ spurious = 0
        /\ pc = [t \in Threads |-> "loop"]

Goto(t, from, to) == pc[t] = from /\ pc' = [pc EXCEPT ![t] = to]

Other(t) == IF t = "setTrue" THEN "setFalse" ELSE "setTrue"

\* The loop tests, line 15 and line 26.
Again(t) == IF t = "setTrue" THEN counter <= COUNTLIMIT ELSE counter < COUNTLIMIT

Loop(t) == /\ Goto(t, "loop", IF Again(t) THEN "lock" ELSE "done")
           /\ UNCHANGED <<dataReady, owner, counter, spurious>>

\* Taken on entry, and again by a wait() that has been woken.
Lock(t) == /\ Goto(t, "lock", "check")
           /\ owner = "none"
           /\ owner' = t
           /\ UNCHANGED <<dataReady, counter, spurious>>

\* The predicates of the two waits.
MyTurn(t) == dataReady = (t = "setFalse")

\* wait() passes; dataReady and the counter are written under the mutex.
Flip(t) == /\ MyTurn(t)
           /\ Goto(t, "check", "notify")
           /\ dataReady' = (t = "setTrue")
           /\ counter' = IF t = "setTrue" THEN counter + 1 ELSE counter
           /\ UNCHANGED <<owner, spurious>>

Block(t) == /\ ~MyTurn(t)
            /\ Goto(t, "check", "blocked")
            /\ owner' = "none"
            /\ UNCHANGED <<dataReady, counter, spurious>>

SpuriousWake(t) == /\ Goto(t, "blocked", "lock")
                   /\ spurious < MaxSpurious
                   /\ spurious' = spurious + 1
                   /\ UNCHANGED <<dataReady, owner, counter>>

\* notify_one() while the mutex is still held.
Notify(t) == /\ pc[t] = "notify"
             /\ pc' = [pc EXCEPT ![t] = "unlock",
                                 ![Other(t)] = IF @ = "blocked" THEN "lock" ELSE @]
             /\ UNCHANGED <<dataReady, owner, counter, spurious>>

Unlock(t) == /\ Goto(t, "unlock", "loop")
             /\ owner' = "none"
             /\ UNCHANGED <<dataReady, counter, spurious>>

ThreadStep(t) == \/ Loop(t) \/ Lock(t) \/ Flip(t) \/ Block(t)
                 \/ Notify(t) \/ Unlock(t)

Next == \E t \in Threads : ThreadStep(t) \/ SpuriousWake(t)

\* The scheduler runs both threads; spurious wake-ups are not owed.
Spec == Init /\ [][Next]_vars /\ \A t \in Threads : WF_vars(ThreadStep(t))
-----------------------------------------------------------------------------
(* Properties *)

\* The game as PingPong sees it: setTrue plays first.
Turn == IF dataReady THEN "pong" ELSE "ping"
Hits == counter

\* Who has tested the value and not yet unlocked holds the mutex: not both have.
OneInside == \A t \in Threads : pc[t] \in {"check", "notify", "unlock"} => owner = t

\* main() joins both threads and prints "End: ".
BothReturn == <>(\A t \in Threads : pc[t] = "done")
=============================================================================
