----------------------------- MODULE SharedWork -----------------------------
(***************************************************************************)
(* Six programs in which one thread, the sender, prepares something and    *)
(* another one, the waiter, must not go on before:                         *)
(*                                                                         *)
(*   "condition"  condition_variables/conditionVariable.cpp                *)
(*   "stoppable"  conditionVariableAny.cpp, where main() requests a stop   *)
(*   "polling"    atomicCondition.cpp                                      *)
(*   "flag"       atomics/atomicFlagWait.cpp                               *)
(*   "semaphore"  semaphores/threadSynchronizationSemaphore.cpp            *)
(*   "promise"    promiseFutureSynchronize.cpp                             *)
(*                                                                         *)
(* ready is the condition the waiter waits for: dataReady, atomicFlag, a   *)
(* semaphore with a count of one, a fulfilled promise.  data is            *)
(* mySharedWork or myVec, which the last two and "stoppable" do without.   *)
(***************************************************************************)
EXTENDS Naturals

CONSTANT MaxSpurious    \* bound: how many spurious wake-ups may happen

VARIABLES means,      \* which of the programs runs
          data,       \* "empty", then "prepared", then "complete"
          ready,      \* what the waiter waits for
          owner,      \* holder of the mutex, or "none"
          stop,       \* request_stop() was called
          ret,        \* what the stoppable wait returned, "none" before
          waiter, sender,   \* where the threads are
          spurious    \* spurious wake-ups so far

svars == <<means, data, ready, owner, stop, ret, waiter, sender, spurious>>

Means == {"condition", "stoppable", "polling", "flag", "semaphore", "promise"}

\* The programs that wait with a mutex.
Locked == means \in {"condition", "stoppable"}

Init == /\ means \in Means
        /\ data = "empty"
        /\ ready = FALSE
        /\ owner = "none"
        /\ stop = FALSE
        /\ ret = "none"
        /\ waiter = IF Locked THEN "lock" ELSE "check"
        /\ sender = "prepare"
        /\ spurious = 0

-----------------------------------------------------------------------------
(* The sender *)

\* Mutant: the condition is announced before anything is prepared.
SetFirst == /\ sender = "prepare"
            /\ sender' = IF Locked THEN "lock" ELSE "set"
            /\ UNCHANGED <<means, data, ready, owner, stop, ret, waiter, spurious>>

\* The work is prepared before, and outside, the critical section.
Prepare == /\ sender = "prepare"
           /\ data' = "prepared"
           /\ sender' = IF Locked THEN "lock" ELSE "set"
           /\ UNCHANGED <<means, ready, owner, stop, ret, waiter, spurious>>

SenderLock == /\ sender = "lock" /\ owner = "none"
              /\ owner' = "sender"
              /\ sender' = "set"
              /\ UNCHANGED <<means, data, ready, stop, ret, waiter, spurious>>

\* dataReady = true, test_and_set(), release() and set_value(); the last two
\* wake the waiter themselves.
Set == /\ sender = "set"
       /\ ready' = TRUE
       /\ sender' = CASE Locked -> "unlock" [] means = "flag" -> "notify" [] OTHER -> "done"
       /\ UNCHANGED <<means, data, owner, stop, ret, waiter, spurious>>

SenderUnlock == /\ sender = "unlock"
                /\ owner' = "none"
                /\ sender' = "notify"
                /\ UNCHANGED <<means, data, ready, stop, ret, waiter, spurious>>

\* Mutant: nobody is notified.
NotifyNobody == /\ sender = "notify"
                /\ sender' = "done"
                /\ UNCHANGED <<means, data, ready, owner, stop, ret, waiter, spurious>>

\* What a blocked waiter does when it is woken.
Woken == IF waiter = "blocked" THEN (IF Locked THEN "lock" ELSE "check") ELSE waiter

Notify == /\ sender = "notify"
          /\ sender' = "done"
          /\ waiter' = Woken
          /\ UNCHANGED <<means, data, ready, owner, stop, ret, spurious>>

-----------------------------------------------------------------------------
(* The waiter *)

WaiterLock == /\ waiter = "lock" /\ owner = "none"
              /\ owner' = "waiter"
              /\ waiter' = "check"
              /\ UNCHANGED <<means, data, ready, stop, ret, sender, spurious>>

\* The wait is over: load(), wait(false), acquire(), fut.wait() or a predicate
\* that is true.
Pass == /\ waiter = "check" /\ ready
        /\ waiter' = "work"
        /\ ret' = IF means = "stoppable" THEN "true" ELSE ret
        /\ UNCHANGED <<means, data, ready, owner, stop, sender, spurious>>

\* condition_variable_any::wait with a stop_token returns pred() once a stop
\* has been requested.
PassStopped == /\ means = "stoppable" /\ waiter = "check" /\ stop /\ ~ready
               /\ waiter' = "work"
               /\ ret' = "false"
               /\ UNCHANGED <<means, data, ready, owner, stop, sender, spurious>>

\* A condition variable or an atomic_flag blocks; the others simply wait for
\* ready, the polling one in rounds of 5 ms.
Block == /\ waiter = "check" /\ ~ready /\ ~stop
         /\ Locked \/ means = "flag"
         /\ owner' = IF Locked THEN "none" ELSE owner
         /\ waiter' = "blocked"
         /\ UNCHANGED <<means, data, ready, stop, ret, sender, spurious>>

SpuriousWake == /\ waiter = "blocked"
                /\ spurious < MaxSpurious
                /\ spurious' = spurious + 1
                /\ waiter' = Woken
                /\ UNCHANGED <<means, data, ready, owner, stop, ret, sender>>

\* mySharedWork[1] = 2, myVec[2] = 2, doTheWork(), or a line on the console.
DoWork == /\ waiter = "work"
          /\ data' = IF means = "stoppable" \/ data = "empty" THEN data ELSE "complete"
          /\ owner' = IF Locked THEN "none" ELSE owner
          /\ waiter' = "done"
          /\ UNCHANGED <<means, ready, stop, ret, sender, spurious>>

\* t1.request_stop() in main(): it wakes the waiter through a stop_callback,
\* which takes the lock the wait registered under.
RequestStop == /\ means = "stoppable" /\ ~stop
               /\ stop' = TRUE
               /\ waiter' = Woken
               /\ UNCHANGED <<means, data, ready, owner, ret, sender, spurious>>

SenderStep == Prepare \/ SenderLock \/ Set \/ SenderUnlock \/ Notify

WaiterStep == WaiterLock \/ Pass \/ PassStopped \/ Block \/ DoWork

Next == SenderStep \/ WaiterStep \/ RequestStop \/ SpuriousWake

\* The scheduler runs every thread; spurious wake-ups are not owed.
Spec == /\ Init /\ [][Next]_svars
        /\ WF_svars(SenderStep) /\ WF_svars(WaiterStep) /\ WF_svars(RequestStop)
-----------------------------------------------------------------------------
(* Properties *)

\* The waiter works on what the sender has prepared, unless it was stopped, and
\* then it says so: a result of true means that the data is ready, one of
\* false that a stop was requested.
WorksOnData == waiter = "work" \/ waiter = "done" =>
    IF ret = "false" THEN stop ELSE data # "empty" /\ ready

\* No notification is lost: a blocked waiter whose condition holds, or who is to
\* stop, is still owed a wake-up.
WakeUpOwed == waiter = "blocked" => ~stop /\ (ready => sender \in {"unlock", "notify"})

\* What every program must come to: main() has joined both threads.
Joined == waiter = "done" /\ sender = "done"
=============================================================================
