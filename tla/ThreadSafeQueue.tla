--------------------------- MODULE ThreadSafeQueue ---------------------------
(***************************************************************************)
(* The monitor queue of src/concurrency/threadsafequeue1.cpp, thread by    *)
(* thread.  add() holds a SendGuard: the mutex is taken for the push,      *)
(* released when the guard's lock_guard member is destroyed, and only then *)
(* does the notifier member signal the condition variable.  get() takes    *)
(* the mutex, waits until the queue is not empty, and keeps the mutex for  *)
(* front() and pop().                                                      *)
(*                                                                         *)
(* std::condition_variable is modelled by its contract: wait releases the  *)
(* mutex and blocks in one step, notify_one wakes one blocked thread if    *)
(* there is one and is forgotten otherwise, a thread may also wake for no  *)
(* reason, and a woken thread takes the mutex again and re-evaluates the   *)
(* predicate.                                                              *)
(***************************************************************************)
EXTENDS Naturals, Sequences, FiniteSets

CONSTANTS Adders,        \* threads that run addLambda
          Getters,       \* threads that run getLambda
          NoThread,      \* owner of a free mutex
          NoValue,       \* result of a get that has not read the front
          MaxSpurious    \* bound: how many spurious wake-ups may happen

Threads == Adders \cup Getters

ASSUME ThreadsAssumption == /\ Adders \cap Getters = {}
                            /\ IsFiniteSet(Adders) /\ IsFiniteSet(Getters)
                            /\ NoThread \notin Threads
                            /\ NoValue \notin Adders
ASSUME SpuriousAssumption == MaxSpurious \in Nat

VARIABLES myQueue,    \* std::queue<T>; an element is the adder that pushed it
          owner,      \* the thread that holds monitMutex, or NoThread
          pc,         \* where each thread is in add() or get()
          got,        \* val in get(): what each getter read from the front
          spurious    \* spurious wake-ups so far

vars == <<myQueue, owner, pc, got, spurious>>

AdderPC  == {"add", "push", "unlock", "notify", "done"}
GetterPC == {"get", "check", "wait", "relock", "take", "release", "done"}

TypeOK == /\ myQueue \in Seq(Adders)
          /\ owner \in Threads \cup {NoThread}
          /\ pc \in [Threads -> AdderPC \cup GetterPC]
          /\ \A a \in Adders : pc[a] \in AdderPC
          /\ \A g \in Getters : pc[g] \in GetterPC
          /\ got \in [Getters -> Adders \cup {NoValue}]
          /\ spurious \in 0..MaxSpurious

Init == /\ myQueue = <<>>
        /\ owner = NoThread
        /\ pc = [t \in Threads |-> IF t \in Adders THEN "add" ELSE "get"]
        /\ got = [g \in Getters |-> NoValue]
        /\ spurious = 0

Goto(t, from, to) == /\ pc[t] = from
                     /\ pc' = [pc EXCEPT ![t] = to]

Lock(t) == /\ owner = NoThread
           /\ owner' = t

Unlock(t) == owner' = NoThread

\* The getters blocked on monitCond.
Waiting == {g \in Getters : pc[g] = "wait"}

-----------------------------------------------------------------------------
(* add(val) *)

\* Mutant: add() touches the queue without taking the guard.
AddWithoutGuard(a) == /\ Goto(a, "add", "push")
                      /\ UNCHANGED <<myQueue, owner, got, spurious>>

AddLock(a) == /\ Goto(a, "add", "push")
              /\ Lock(a)
              /\ UNCHANGED <<myQueue, got, spurious>>

\* Mutant: add() pushes a default value in place of val.
PushDefault(a) == /\ Goto(a, "push", "unlock")
                  /\ myQueue' = Append(myQueue, NoValue)
                  /\ UNCHANGED <<owner, got, spurious>>

AddPush(a) == /\ Goto(a, "push", "unlock")
              /\ myQueue' = Append(myQueue, a)
              /\ UNCHANGED <<owner, got, spurious>>

\* Mutant: a plain lock_guard in add(), so nobody is notified.
UnlockWithoutNotify(a) == /\ Goto(a, "unlock", "done")
                          /\ Unlock(a)
                          /\ UNCHANGED <<myQueue, got, spurious>>

\* ~SendGuard destroys kerberos before notifier: unlock, then notify.
AddUnlock(a) == /\ Goto(a, "unlock", "notify")
                /\ Unlock(a)
                /\ UNCHANGED <<myQueue, got, spurious>>

AddNotify(a) == /\ pc[a] = "notify"
                /\ \/ /\ Waiting = {}
                      /\ pc' = [pc EXCEPT ![a] = "done"]
                   \/ \E g \in Waiting :
                         pc' = [pc EXCEPT ![a] = "done", ![g] = "relock"]
                /\ UNCHANGED <<myQueue, owner, got, spurious>>

-----------------------------------------------------------------------------
(* get() *)

GetLock(g) == /\ Goto(g, "get", "check")
              /\ Lock(g)
              /\ UNCHANGED <<myQueue, got, spurious>>

\* monitCond.wait(kerberos, pred): the predicate is false, so block.
GetBlock(g) == /\ Goto(g, "check", "wait")
               /\ myQueue = <<>>
               /\ Unlock(g)
               /\ UNCHANGED <<myQueue, got, spurious>>

GetReady(g) == /\ Goto(g, "check", "take")
               /\ myQueue # <<>>
               /\ UNCHANGED <<myQueue, owner, got, spurious>>

SpuriousWake(g) == /\ Goto(g, "wait", "relock")
                   /\ spurious < MaxSpurious
                   /\ spurious' = spurious + 1
                   /\ UNCHANGED <<myQueue, owner, got>>

\* Mutant: "if (empty) wait" in place of a wait with a predicate.
RelockUnchecked(g) == /\ Goto(g, "relock", "take")
                      /\ Lock(g)
                      /\ UNCHANGED <<myQueue, got, spurious>>

GetRelock(g) == /\ Goto(g, "relock", "check")
                /\ Lock(g)
                /\ UNCHANGED <<myQueue, got, spurious>>

\* Mutant: a stack in place of a queue.
TakeNewest(g) == /\ Goto(g, "take", "release")
                 /\ got' = [got EXCEPT ![g] = myQueue[Len(myQueue)]]
                 /\ myQueue' = SubSeq(myQueue, 1, Len(myQueue) - 1)
                 /\ UNCHANGED <<owner, spurious>>

GetTake(g) == /\ Goto(g, "take", "release")
              /\ got' = [got EXCEPT ![g] = Head(myQueue)]
              /\ myQueue' = Tail(myQueue)
              /\ UNCHANGED <<owner, spurious>>

GetUnlock(g) == /\ Goto(g, "release", "done")
                /\ Unlock(g)
                /\ UNCHANGED <<myQueue, got, spurious>>

-----------------------------------------------------------------------------

AdderStep(a) == AddLock(a) \/ AddPush(a) \/ AddUnlock(a) \/ AddNotify(a)

GetterStep(g) == \/ GetLock(g) \/ GetBlock(g) \/ GetReady(g)
                 \/ GetRelock(g) \/ GetTake(g) \/ GetUnlock(g)

\* main() has joined every thread.
Joined == /\ \A t \in Threads : pc[t] = "done"
          /\ UNCHANGED vars

Next == \/ \E a \in Adders : AdderStep(a)
        \/ \E g \in Getters : GetterStep(g) \/ SpuriousWake(g)
        \/ Joined

\* Every runnable thread is scheduled; spurious wake-ups are not owed.
Fairness == /\ \A a \in Adders : WF_vars(AdderStep(a))
            /\ \A g \in Getters : WF_vars(GetterStep(g))

Safe == Init /\ [][Next]_vars

Spec == Safe /\ Fairness
-----------------------------------------------------------------------------
(* Properties *)

Critical(t) == pc[t] \in {"push", "unlock", "check", "take", "release"}

\* The comments (2), (4), (5) and (6) of the source mark the four places that
\* touch the queue: whoever is at one of them, or still inside the guard, owns
\* the mutex, so no two threads are.
LockDiscipline == \A t \in Threads : Critical(t) <=> owner = t

\* get() pops what its own wait() saw: the queue cannot have been emptied by
\* another getter between the predicate and front().
TakeFindsElement == \A g \in Getters : pc[g] = "take" => myQueue # <<>>

\* Getters that will look at the queue again before they block or return.
Awake == {g \in Getters : pc[g] \in {"get", "check", "relock", "take"}}

\* Adders that have pushed and still owe a notify_one.
OweNotify == {a \in Adders : pc[a] \in {"unlock", "notify"}}

\* Because add() notifies after it unlocked, a getter can take the element the
\* notification stands for before it is sent.  No wake-up is lost all the same:
\* while somebody is blocked, every element in the queue is spoken for by a
\* getter that is awake or by a notify_one still to come.
NoLostWakeup ==
    Waiting # {} => Len(myQueue) <= Cardinality(Awake) + Cardinality(OweNotify)

\* The refinement mapping to the abstract queue.
Abstract == INSTANCE QueueSpec
               WITH items <- myQueue,
                    put   <- {a \in Adders : pc[a] \in {"unlock", "notify", "done"}},
                    taken <- got

\* Seen from outside, add() and get() are the indivisible operations of a FIFO
\* queue, and neither is starved by the other's waiting and waking.
ImplementsQueue == Abstract!Spec

\* An element is in the queue or was returned by one get(), once: two gets never
\* return the same element, and none is dropped.
DeliveredOnce == Abstract!NeverTwice /\ Abstract!NothingLost
=============================================================================
