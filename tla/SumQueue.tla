------------------------------ MODULE SumQueue ------------------------------
(***************************************************************************)
(* src/concurrency/threadSafeQueue.cpp: the program that checks its own    *)
(* monitor queue.  Every adder draws the next number from an atomic        *)
(* counter and adds it to the queue, every remover adds what it removed to *)
(* an atomic sum, and main() throws std::logic_error unless the sum is the *)
(* sum of all numbers.                                                     *)
(*                                                                         *)
(* ThreadQueue is the queue of module ThreadSafeQueue: addNumber() pushes  *)
(* under a lock whose unlock() first unlocks the mutex and then notifies   *)
(* one waiter, removeNumber() keeps the mutex from the wait to pop_front().*)
(* That module's steps are reused; an element of its myQueue is the adder  *)
(* that pushed it, and number maps the adder to the integer it drew.       *)
(***************************************************************************)
EXTENDS ThreadSafeQueue

VARIABLES sharedCounter,   \* the last number handed out
          number,          \* the number each adder drew, 0 before
          sharedSum,       \* the sum of the removed numbers
          summed           \* the removers that have added theirs

svars == <<vars, sharedCounter, number, sharedSum, summed>>

SumInit == /\ Init
           /\ sharedCounter = 0
           /\ number = [a \in Adders |-> 0]
           /\ sharedSum = 0
           /\ summed = {}

\* The argument of addNumber(++sharedCounter), evaluated before the call.
Draw(a) == /\ pc[a] = "add" /\ number[a] = 0
           /\ sharedCounter' = sharedCounter + 1
           /\ number' = [number EXCEPT ![a] = sharedCounter']
           /\ UNCHANGED <<vars, sharedSum, summed>>

addNumber(a) == /\ number[a] # 0
                /\ AdderStep(a)
                /\ UNCHANGED <<sharedCounter, number, sharedSum, summed>>

removeNumber(g) == /\ GetterStep(g) \/ SpuriousWake(g)
                   /\ UNCHANGED <<sharedCounter, number, sharedSum, summed>>

\* Mutant: the sum is overwritten, not added to.
AssignSum(g) == /\ pc[g] = "done" /\ g \notin summed
                /\ sharedSum' = number[got[g]]
                /\ summed' = summed \cup {g}
                /\ UNCHANGED <<vars, sharedCounter, number>>

\* sharedSum += removeNumber(), after removeNumber() has returned.
AddToSum(g) == /\ pc[g] = "done" /\ g \notin summed
               /\ sharedSum' = sharedSum + number[got[g]]
               /\ summed' = summed \cup {g}
               /\ UNCHANGED <<vars, sharedCounter, number>>

\* threads.clear() has joined every jthread.
AllJoined == /\ \A a \in Adders : pc[a] = "done"
             /\ summed = Getters

SumNext == \/ \E a \in Adders : Draw(a) \/ addNumber(a)
           \/ \E g \in Getters : removeNumber(g) \/ AddToSum(g)
           \/ AllJoined /\ UNCHANGED svars

SumFairness ==
    /\ \A a \in Adders : WF_svars(Draw(a) \/ addNumber(a))
    /\ \A g \in Getters :
          WF_svars(AddToSum(g) \/ (removeNumber(g) /\ GetterStep(g)))

SumSpec == SumInit /\ [][SumNext]_svars /\ SumFairness
-----------------------------------------------------------------------------
(* Properties *)

SumTo(n) == (n * (n + 1)) \div 2

\* The check of main(): once all threads have ended, the sum of the removed
\* numbers is 1 + ... + n, so every number was removed exactly once.
SumOfAllNumbers == AllJoined => sharedSum = SumTo(Cardinality(Adders))
=============================================================================
