---------------------------- MODULE MonitorObject ----------------------------
(***************************************************************************)
(* The monitor queue of src/concurrency/monitorObject.cpp.  Unlike the     *)
(* later versions of the program (ThreadSafeQueue), Monitor::wait owns its *)
(* lock: it returns with the mutex free again, and get() takes the mutex a *)
(* second time for front() and pop() without looking at the queue again.   *)
(* std::condition_variable is modelled by its contract, as there.          *)
(*                                                                         *)
(* std::queue on std::deque is modelled as libstdc++ builds it: pushed     *)
(* holds everything ever pushed, popped counts the pops, and empty()       *)
(* compares the two positions.  pop() on an empty queue is undefined       *)
(* behaviour; in this build it moves the front past the back, and front()  *)
(* reads whatever lies there.                                              *)
(***************************************************************************)
EXTENDS Naturals, Sequences, FiniteSets

CONSTANTS Adders,        \* threads that run addLambda
          Getters,       \* threads that run getLambda
          NumGets,       \* how often each of them calls get(); once in main()
          NoThread,      \* owner of a free mutex
          Garbage,       \* what front() reads outside the queue
          MaxSpurious    \* bound: how many spurious wake-ups may happen

Threads == Adders \cup Getters

VARIABLES pushed,   \* the elements pushed so far, in order
          popped,   \* how many times pop() was called
          owner,    \* the thread that holds monitMutex, or NoThread
          pc,       \* where each thread is in add() or get()
          got,      \* what each getter's calls of get() have read, in order
          spurious  \* spurious wake-ups so far

vars == <<pushed, popped, owner, pc, got, spurious>>

AdderPC  == {"lock", "push", "unlock", "notify", "done"}
GetterPC == {"wait_lock", "check", "blocked", "relock", "wait_unlock",
             "lock", "front", "unlock", "done"}

empty == popped = Len(pushed)

Init == /\ pushed = <<>>
        /\ popped = 0
        /\ owner = NoThread
        /\ pc = [t \in Threads |-> IF t \in Adders THEN "lock" ELSE "wait_lock"]
        /\ got = [g \in Getters |-> <<>>]
        /\ spurious = 0

Goto(t, from, to) == pc[t] = from /\ pc' = [pc EXCEPT ![t] = to]

lock(t) == owner = NoThread /\ owner' = t

unlock(t) == owner' = NoThread

queue == <<pushed, popped, got, spurious>>

Blocked == {g \in Getters : pc[g] = "blocked"}

-----------------------------------------------------------------------------
(* add(val): lock(); push; unlock(); notify_one() *)

AddLock(a) == Goto(a, "lock", "push") /\ lock(a) /\ UNCHANGED queue

AddPush(a) == /\ Goto(a, "push", "unlock")
              /\ pushed' = Append(pushed, a)
              /\ UNCHANGED <<popped, owner, got, spurious>>

AddUnlock(a) == Goto(a, "unlock", "notify") /\ unlock(a) /\ UNCHANGED queue

AddNotify(a) == /\ pc[a] = "notify"
                /\ \/ /\ Blocked = {}
                      /\ pc' = [pc EXCEPT ![a] = "done"]
                   \/ \E g \in Blocked :
                         pc' = [pc EXCEPT ![a] = "done", ![g] = "relock"]
                /\ UNCHANGED <<queue, owner>>

-----------------------------------------------------------------------------
(* get(): wait(pred); lock(); front; pop; unlock() *)

WaitLock(g) == /\ \/ Goto(g, "wait_lock", "check")
                  \/ Goto(g, "relock", "check")
               /\ lock(g)
               /\ UNCHANGED queue

WaitBlock(g) == /\ Goto(g, "check", "blocked")
                /\ empty
                /\ unlock(g)
                /\ UNCHANGED queue

WaitReady(g) == /\ Goto(g, "check", "wait_unlock")
                /\ ~empty
                /\ UNCHANGED <<queue, owner>>

\* A blocked thread may wake for no reason.
SpuriousWake(g) == /\ Goto(g, "blocked", "relock")
                   /\ spurious < MaxSpurious
                   /\ spurious' = spurious + 1
                   /\ UNCHANGED <<pushed, popped, owner, got>>

\* monitLock goes out of scope: the mutex is free between wait() and lock().
WaitUnlock(g) == Goto(g, "wait_unlock", "lock") /\ unlock(g) /\ UNCHANGED queue

GetLock(g) == Goto(g, "lock", "front") /\ lock(g) /\ UNCHANGED queue

\* Mutant: the newest element is read, the oldest popped.
ReadBack(g) == /\ Goto(g, "front", "unlock")
               /\ got' = [got EXCEPT ![g] = Append(@, pushed[Len(pushed)])]
               /\ popped' = popped + 1
               /\ UNCHANGED <<pushed, owner, spurious>>

GetFront(g) == /\ Goto(g, "front", "unlock")
               /\ got' = [got EXCEPT ![g] =
                            Append(@, IF popped < Len(pushed) THEN pushed[popped + 1]
                                                              ELSE Garbage)]
               /\ popped' = popped + 1
               /\ UNCHANGED <<pushed, owner, spurious>>

\* get() returns; the thread ends or calls it again.
GetUnlock(g) == /\ Goto(g, "unlock", IF Len(got[g]) = NumGets THEN "done" ELSE "wait_lock")
                /\ unlock(g)
                /\ UNCHANGED queue

-----------------------------------------------------------------------------

AdderStep(a) == AddLock(a) \/ AddPush(a) \/ AddUnlock(a) \/ AddNotify(a)

GetterStep(g) == \/ WaitLock(g) \/ WaitBlock(g) \/ WaitReady(g)
                 \/ WaitUnlock(g) \/ GetLock(g) \/ GetFront(g) \/ GetUnlock(g)

\* Every thread that can return has returned.
Quiet == /\ \A a \in Adders : pc[a] = "done"
         /\ \A g \in Getters : pc[g] = "done"
         /\ UNCHANGED vars

Next == \/ \E a \in Adders : AdderStep(a)
        \/ \E g \in Getters : GetterStep(g) \/ SpuriousWake(g)
        \/ Quiet

\* The scheduler runs every thread; spurious wake-ups are not owed.
Fairness == /\ \A a \in Adders : WF_vars(AdderStep(a))
            /\ \A g \in Getters : WF_vars(GetterStep(g))

Spec == Init /\ [][Next]_vars /\ Fairness
-----------------------------------------------------------------------------
(* Properties *)

\* get() is documented by its own code to wait until the queue is not empty:
\* it must not call front() and pop() on an empty queue.
NeverPopsEmpty == \A g \in Getters : pc[g] = "front" => ~empty

\* The queue of the abstract specification, and the adders whose element is in it.
items == SubSeq(pushed, popped + 1, Len(pushed))
put   == {a \in Adders : pc[a] \in {"unlock", "notify", "done"}}

\* main() has joined every thread.
Returned == \A t \in Threads : pc[t] = "done"
=============================================================================
