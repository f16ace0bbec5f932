---------------------------- MODULE ActiveObject ----------------------------
(***************************************************************************)
(* concurrency/activeObject.cpp: clients started with std::async enqueue   *)
(* tasks and keep their futures; main() collects the futures, lets the     *)
(* servant thread of run() work off the activation list, and gets every    *)
(* result.                                                                 *)
(*                                                                         *)
(* std::async without a policy may start a thread or wait until get() is   *)
(* called; Init chooses for every client.  A task <<c, i>> is the i-th     *)
(* number of client c.  isEmpty() and dequeueTask() lock separately.       *)
(***************************************************************************)
EXTENDS Naturals, Sequences, SequencesExt

CONSTANTS NumClients,   \* main() starts clients 1..NumClients
          NumTasks      \* how many tasks each client enqueues

NumbersAssumption == NumClients \in Nat \ {0} /\ NumTasks \in Nat

Clients == 1..NumClients

Tasks == Clients \X (1..NumTasks)

VARIABLES deferred,         \* the clients that std::async defers
          activationList,   \* the tasks to be done
          lockHolder,       \* who holds activationListMutex, 0: nobody
          at,               \* where each client is
          enqueued,         \* the tasks each client has enqueued
          boss,             \* where main() is
          servant,          \* where the servant is
          myTask,           \* the task the servant has taken out, as <<task>>
          results           \* the tasks whose futures are fulfilled

avars == <<deferred, activationList, lockHolder, at, enqueued, boss, servant,
           myTask, results>>

\* main() calls get() on the clients' futures in order: <<"get", c>>.
Init == /\ deferred \in SUBSET Clients
        /\ activationList = <<>>
        /\ lockHolder = 0
        /\ at = [c \in Clients |-> IF c \in deferred THEN "deferred" ELSE "enqueue"]
        /\ enqueued = [c \in Clients |-> 0]
        /\ boss = <<"get", 1>>
        /\ servant = "none"
        /\ myTask = <<>>
        /\ results = {}

Goto(c, from, to) == at[c] = from /\ at' = [at EXCEPT ![c] = to]

-----------------------------------------------------------------------------
(* A client: enqueueTask() NumTasks times *)

LockList(c) == /\ enqueued[c] < NumTasks
               /\ Goto(c, "enqueue", "push")
               /\ lockHolder = 0
               /\ lockHolder' = c
               /\ UNCHANGED <<deferred, activationList, enqueued, boss, servant, myTask, results>>

\* Mutant: the lock_guard is missing and two push_back race: one is lost.
PushRaced(c) == /\ Goto(c, "push", "enqueue")
                /\ \/ activationList' = Append(activationList, <<c, enqueued[c] + 1>>)
                   \/ UNCHANGED activationList
                /\ enqueued' = [enqueued EXCEPT ![c] = @ + 1]
                /\ lockHolder' = 0
                /\ UNCHANGED <<deferred, boss, servant, myTask, results>>

\* push_back and the end of the lock_guard's scope.
Push(c) == /\ Goto(c, "push", "enqueue")
           /\ activationList' = Append(activationList, <<c, enqueued[c] + 1>>)
           /\ enqueued' = [enqueued EXCEPT ![c] = @ + 1]
           /\ lockHolder' = 0
           /\ UNCHANGED <<deferred, boss, servant, myTask, results>>

ReturnFutures(c) == /\ enqueued[c] = NumTasks
                    /\ Goto(c, "enqueue", "done")
                    /\ UNCHANGED <<deferred, activationList, lockHolder, enqueued, boss,
                                   servant, myTask, results>>

-----------------------------------------------------------------------------
(* main() *)

\* client.get() of a deferred client runs it in main()'s thread.
StartDeferred(c) == /\ boss = <<"get", c>>
                    /\ Goto(c, "deferred", "enqueue")
                    /\ UNCHANGED <<deferred, activationList, lockHolder, enqueued, boss,
                                   servant, myTask, results>>

GetFutures(c) == /\ boss = <<"get", c>> /\ at[c] = "done"
                 /\ boss' = IF c = NumClients THEN <<"run", 0>> ELSE <<"get", c + 1>>
                 /\ UNCHANGED <<deferred, activationList, lockHolder, at, enqueued,
                                servant, myTask, results>>

StartServant == /\ boss = <<"run", 0>> /\ servant = "none"
                /\ servant' = "isEmpty"
                /\ UNCHANGED <<deferred, activationList, lockHolder, at, enqueued, boss,
                               myTask, results>>

\* servant.join(), the end of run().
JoinServant == /\ boss = <<"run", 0>> /\ servant = "done"
               /\ boss' = <<"results", 0>>
               /\ UNCHANGED <<deferred, activationList, lockHolder, at, enqueued,
                              servant, myTask, results>>

\* fut.get() for every future blocks until the promise is fulfilled.
GetResults == /\ boss = <<"results", 0>> /\ results = Tasks
              /\ boss' = <<"done", 0>>
              /\ UNCHANGED <<deferred, activationList, lockHolder, at, enqueued,
                             servant, myTask, results>>

-----------------------------------------------------------------------------
(* The servant *)

\* Mutant: the test is made only once, before the first task.
TestOnce == /\ servant = "isEmpty" /\ lockHolder = 0
            /\ servant' = IF activationList = <<>> /\ results = {} THEN "done" ELSE "dequeue"
            /\ UNCHANGED <<deferred, activationList, lockHolder, at, enqueued, boss,
                           myTask, results>>

\* isEmpty() locks, reads and unlocks.
IsEmpty == /\ servant = "isEmpty" /\ lockHolder = 0
           /\ servant' = IF activationList = <<>> THEN "done" ELSE "dequeue"
           /\ UNCHANGED <<deferred, activationList, lockHolder, at, enqueued, boss,
                          myTask, results>>

\* dequeueTask() locks, moves the front out, pops it and unlocks.
DequeueTask == /\ servant = "dequeue" /\ lockHolder = 0
               /\ myTask' = <<Head(activationList)>>
               /\ activationList' = Tail(activationList)
               /\ servant' = "call"
               /\ UNCHANGED <<deferred, lockHolder, at, enqueued, boss, results>>

\* myTask.first(myTask.second): the packaged_task fulfills its promise.
CallTask == /\ servant = "call"
            /\ results' = results \cup ToSet(myTask)
            /\ myTask' = <<>>
            /\ servant' = "isEmpty"
            /\ UNCHANGED <<deferred, activationList, lockHolder, at, enqueued, boss>>

ClientStep(c) == LockList(c) \/ Push(c) \/ ReturnFutures(c)

BossStep == \/ \E c \in Clients : StartDeferred(c) \/ GetFutures(c)
            \/ StartServant \/ JoinServant \/ GetResults

ServantStep == IsEmpty \/ DequeueTask \/ CallTask

Next == (\E c \in Clients : ClientStep(c)) \/ BossStep \/ ServantStep

\* The scheduler runs every thread; a deferred client runs in main()'s.
Spec == /\ Init /\ [][Next]_avars
        /\ \A c \in Clients : WF_avars(ClientStep(c))
        /\ WF_avars(BossStep) /\ WF_avars(ServantStep)
-----------------------------------------------------------------------------
(* Properties *)

\* A task is in one place: still with its client, in the list, with the
\* servant, or done.  None is dropped, none is called twice.
TaskInOnePlace ==
    LET listed == ToSet(activationList)
        taken  == ToSet(myTask)
    IN  /\ Len(activationList) = Cardinality(listed)
        /\ {listed, taken, results} \subseteq SUBSET Tasks
        /\ listed \cap taken = {} /\ listed \cap results = {} /\ taken \cap results = {}
        /\ listed \cup taken \cup results = {t \in Tasks : t[2] <= enqueued[t[1]]}

\* isEmpty() and dequeueTask() lock separately; the list is not emptied in
\* between, for only one servant takes tasks out.
DequeueFindsTask == servant = "dequeue" => activationList # <<>>

\* When the servant has seen the list empty and run() returns, no task is left
\* that nobody would ever do: every later fut.get() finds its result.
NoTaskLeftBehind == boss = <<"results", 0>> => results = Tasks

\* What main() must come to: it has the value of every future.
Answered == boss = <<"done", 0>>
=============================================================================
