# Specifications of Cpp20examples

`src/` is a collection of some two hundred small C++20 programs. Most show one
feature of the language or the library and keep no state. The ones with logic of
their own are the concurrent programs of `src/concurrency` and the coroutine
programs of `src/coroutines`: monitor queues, ping-pong games, coroutine
schedulers, crews that meet at latches and barriers, an active object, programs
that race for, lock or publish shared memory, generators, nested asynchronous
calls, a data-stream parser. They are the subject of these TLA+ modules. TLC
checks every module on small instances; TLAPS proves the main results about the
queues, games, crews, active object, schedulers, nested calls and coroutine
examples for any number of threads, rounds, tasks, frames and bytes, and about
the programs with shared memory, whatever they look like.

`tlc -config X.cfg M` checks one run (the table under "Runs" names M where it is
not X), `tlapm X_proofs.tla` one module of proofs.

## Inventory

A component is a program or a group of programs that do the same in different
ways. `main()` and its threads are part of it.

### Modelled

| Component | State | Operations | What makes it correct | Modules |
|---|---|---|---|---|
| Monitor queue (`concurrency/threadsafequeue1.cpp`, `threadsafequeue2.cpp`, `threadSafeQueue.cpp`) | queue, mutex, condition variable | `add`, `get`, `addNumber`, `removeNumber`; counter and sum of the test program | mutual exclusion, no `pop()` on an empty queue, no lost wake-up, FIFO order, every element delivered once, the sum comes out right | QueueSpec, ThreadSafeQueue, SumQueue |
| First monitor object (`monitorObject.cpp`, `monitorObjectCpp20.cpp`) | the same, with a lock inside `wait()` | `add`, `get` | the same; `get()` takes the mutex twice | MonitorObject |
| Ping-pong tests (`ping_pong_performance_test/*`) | a flag, two flags, a flag with mutex, two semaphores; a counter | `ping`, `pong` | turns alternate, both threads return | PingPong, PingPong*, PingPongPrograms |
| Ping-pong exercise (`problems/solutions/conditionVariablePingPong.cpp`) | flag, mutex, plain counter | `setTrue`, `setFalse` | as above | ConditionVariablePingPong |
| Owning schedulers (`queueScheduler`, `stackScheduler`, four priority queues) | container of handles | `emplace`, `schedule` | one owner per frame, nothing done is resumed, the order of turns, all end | CoroutineScheduler |
| Self-enqueuing scheduler (`coroutines/task_scheduler`) | list of handles | `suspend`, `schedule`, tasks | as above; `front()` finds a handle | TaskScheduler |
| Cooperative tasks (`coroutines/utils/cooperative_tasks*`) | Task objects, queue of times | `detach`, `run`, the awaitable | one owner per frame, wake-ups in time order | CooperativeTasks |
| Nested asynchronous calls (`coroutines/nested`) | promises linked to a stack, scheduler | `Async` calls, `GetData`, `resumeWithData`, destructors | it is a call stack; no dangling link; no leak | CallStack, NestedAsync |
| Crews and bosses (`bossWorkers`, `bossWorker`, `workers`, `fullTimePartTimeWorkers`) | latches, promises, barrier | hire, work, arrive, wait, release | nobody goes ahead, counters never below zero | Workers |
| One sender, one waiter (`conditionVariable`, `conditionVariableAny`, `atomicCondition`, `atomicFlagWait`, `threadSynchronizationSemaphore`, `promiseFutureSynchronize`, two of `2023`) | data, condition, mutex, stop state | prepare, notify, wait, stop | work on prepared data only, no lost wake-up | SharedWork |
| Active object (`activeObject.cpp`) | activation list, mutex, futures | `enqueueTask`, `run`, `getFutures` | no task lost, repeated or left behind | ActiveObject |
| Memory-order experiments (`ongoingOptimisation*`, `acquireConsume`, `transitivity`, `relaxed`, `fetch_mult`, ...) | two or three plain and atomic variables | loads, stores, increments in each memory order | what the order promises is what can be read and printed | MemoryOrderPrograms, SumPrograms, LockPrograms |
| Singletons and one-time initialization (`singleton*`, `safeInitializationCallOnce`) | instance pointer, object, mutex or once flag | `getInstance` | constructed once, seen complete by whoever skips the lock | SingletonPrograms |
| Stop tokens (`interruptJthread`, `stop_jthread`, `38_*`, `invokeCallback`, `signalStopRequests`, ...) | stop state, callbacks, what they refer to | poll, request, register, deregister | the callback runs once, and not on a frame that is gone | StopPrograms, SharedWork |
| Coroutines resumed by another thread (`co_await_external`, `co_await_transform`, `startJobWithAutomaticResumptionOnThread`) | frame, value in its promise | resume on a thread, read, destroy | nobody reads or destroys what another thread resumes | LifetimePrograms |
| Unique coroutine handle (`co_return_custom_handle`) | handles, frames | construct, move, assign, destroy | one owner per frame | UniqueHandles |
| Programs with one coroutine (31 of them) | frame, promise, what `main()` still does | call, resume, read, send, destroy | no use of a frame that is gone, no value lost, no leak | Generators |
| Coroutines that await each other (`crsm`, `recursion`, `awaitable_coroutines`) | frames with `nextHandle` / `continuation_` | `co_await`, final suspension, `nextStep` | awaiting is calling; no dangling handle is followed | CoroutineStack |
| Interleaved generator (`generator_2`) | two positions, one value | resume, read | the order, nothing lost at unequal lengths | InterleavedGenerator |
| Producer and consumer coroutine (`producerConsumer.cpp`) | data, `data_ready_` | `co_yield`, `co_await`, `resume` | all data arrives once, the spin loop is never reached | ProducerConsumer |
| Data-stream parser (`datastream_parser`) | where `Parse` waits, its frame, last byte | `SendData`, `operator()` | frames sent are frames handled | DatastreamParser |

### Partly modelled

| Component | Modelled | Left out |
|---|---|---|
| Locks and invariants (`breakingInvariant*`, `spinLock*`, `readerWriterLock`, `uniqueLock`, `lockTwice`, ..., LockPrograms, SumPrograms) | mutexes, spin locks, shared locks, what is read between two critical sections | `threadSafeInterfaceVirtual.cpp` takes no lock: it is about virtual functions |
| Futures, promises and packaged tasks (`promiseFuture`, `sharedFuture`, `waitFor`, `packagedTask*`, ..., LifetimePrograms, SumPrograms) | a promise is a value that is set once and waited for | `asyncLazyEager.cpp` shows when a clock is read; `countDown.cpp` sleeps in a loop |
| Sums and algorithms in parallel (`calculateWith*`, `synchronization*`, `localVariable*`, `tasksSummation`, ..., SumPrograms) | every program whose threads share something, of `parallelAlgorithmsHazards` its two `par` loops | its `unseq` and `par_unseq` loops (lines 20 to 33), whose lambdas lock a mutex, which these policies forbid; `calculateWithLoop`, `calculateWithStd`, `newAlgorithm`, `parallelSTLPerformance`, `reduce`, `exceptionExecutionPolicy`, `problems/dotProduct` measure library algorithms |
| Thread lifetime (`threadArguments`, `threadMoved`, `lifetimeIssues`, ..., LifetimePrograms) | what a thread refers to, and when that ends; `~thread` of a joinable thread | `sequenced_output_streams` is about the layout of output |
| Random-number threads (`37_*`, `38_*`, SumPrograms, StopPrograms) | the raced vector, the polled token | `36_*` has one thread and no state that outlives a statement |
| Memory arena (`pmr/memory_arena`, LifetimePrograms) | which resource is the default one, how long each lives | the blocks of a pool and their alignment are the library's |

### Not modelled

Language and library snippets (`00_*` to `35_*`, `39_*`, most of `2023/*`):
straight-line programs that evaluate an expression of the language or the
library and print it. No state survives a statement, nothing interleaves, fails
or repeats.

`PROJECT.json` names the files of every component.

### How the parts interact, and what is hard

The programs do not call each other: each is a `main()` of its own. Inside a
program the parts interact through shared variables under a mutex or atomic
(queues, ping-pong, pairs, crews, shared memory), through handles passed on
(schedulers: who holds a handle must resume or destroy it), through transfers of
control at a suspension (stacks of coroutines), and through the order of
`main()`'s calls (generators). The hard behaviours are accordingly

* interleavings between two critical sections that were meant to be one
  (`monitorObject.cpp:39`, `activeObject.cpp:62`, `problems/breakingInvariant.cpp:12`);
* notifications that come before, or long after, the wait they are for;
* a counter that is read outside the lock and decides who plays the last round;
* stores that other threads see late, or in another order than they were made;
* an instance that is tested outside the lock that creates it;
* a variable, frame or string that ends while another thread still refers to it;
* a frame that has two owners, or none, or is resumed once too often;
* pointers to frames that are gone but must not be followed;
* values that are overwritten before, or read after, they are meant to be.

`PROJECT.json` lists each one at its line, with the properties that cover it.

## Modules

| Module | Code | Correspondence |
|---|---|---|
| QueueSpec | the promise of the monitor queues | add and get are one step each |
| ThreadSafeQueue | `threadsafequeue1.cpp`, `threadsafequeue2.cpp` | one action per lock, push, unlock, notify, wait, take; an element is the adder that pushed it. `SendGuard` destroys its members in reverse order, so unlocking precedes notifying |
| SumQueue | `threadSafeQueue.cpp` | reuses ThreadSafeQueue's steps and adds the counter, the sum and `main()`'s check |
| MonitorObject | `monitorObject.cpp` | `get()` in its five steps and a spurious wake-up; a getter calls it `NumGets` times, once in `main()`; `std::queue` by the two positions of libstdc++, so that a `pop()` too many has the effect it has in this build. `monitorObjectCpp20.cpp` has the same monitor, but its `main()`, which assigns a `jthread` to a `thread`, does not compile |
| PingPong | the game of all five programs | a turn and a count |
| PingPongAtomicBool, PingPongAtomicFlags, PingPongConditionVariable, PingPongSemaphore, ConditionVariablePingPong | one program each | one action per atomic operation or lock operation; each states `TakesTurns`, its refinement of PingPong |
| PingPongPrograms | | the five in one state space |
| CoroutineScheduler, TaskScheduler, CooperativeTasks | the eight schedulers | one action per emplacement, resumption, requeueing and destruction; a body is the number of its suspensions |
| CallStack | the promise of `nested/main.cpp` | calls, returns and requests for data |
| NestedAsync | `nested/main.cpp` | frames at reusable addresses, links, the registered handle; bodies are any sequence of calls and requests |
| Schedulers | | the eight and NestedAsync in one state space |
| Workers, SharedWork, ActiveObject | crews, pairs, active object | one action per operation on a latch, promise, barrier, lock, future or stop source |
| Synchronization | | these three, and MonitorObject with one getter, in one state space |
| ThreadCode | | the vocabulary of the next six: what a thread does, as instructions; a program is a record of its threads' instructions, its memory and locks, and what is expected of it |
| MemoryOrderPrograms, SumPrograms, LockPrograms, SingletonPrograms, StopPrograms, LifetimePrograms | 72 programs | one definition per program, named as the file (`breakingInvariant` has two, as the sum it prints may read either account first), with one instruction per access to shared memory, lock, thread operation or output |
| SharedMemory | the machine they run on | an object is the sequence of values it ever had; a thread knows how far back it may still read each object, and what of the other threads happened before |
| Discipline | | what the code of a program must look like for its accesses to be ordered and its objects to be constructed once: the premises of the theorems about SharedMemory |
| SharedState | | all 72 on the machine, and the properties |
| UniqueHandles | `co_return_custom_handle` | one action per constructor, move, assignment and destructor; `main()`'s order is one of all orders |
| Generators | the programs with one coroutine | a program is a record: what its suspension points return, what its body does, what `main()` calls; one machine runs them all |
| CoroutineStack, InterleavedGenerator, ProducerConsumer, DatastreamParser | the other coroutine programs | one action per resumption, suspension and destruction |
| CoroutinePrograms | | these four, Generators and UniqueHandles in one state space |
| ThreadSafeQueue_proofs, PingPongPrograms_proofs, SharedState_proofs, Synchronization_proofs, CoroutineScheduler_proofs, Schedulers_proofs, CoroutinePrograms_proofs, Generators_proofs | | the theorems |

A module that puts several programs in one state space has a variable for the
choice of the program, made by `Init`; the variables of the other programs hold
the value `Absent`. SharedState needs none: its programs are data for one machine.

Library classes are modelled by their contract. `condition_variable`: waiting
releases the mutex and blocks in one step, `notify_one` wakes one waiter if there
is one and is forgotten otherwise, a waiter may wake for no reason, and then
takes the mutex and tests again. `atomic::wait(old)`: returns once it has read
another value, blocks otherwise, may read again unnotified but need not. `latch`,
`barrier`, `counting_semaphore`, `promise`: a count or a flag; stepping outside
the contract is a violation of an invariant, not a silent no-op. `std::async`
without a policy may defer: ActiveObject tries both; in `signalStopRequests` and
`dotProductAsync` the task is a thread, whose outputs include those of a task that
is deferred. A `stop_callback` that is destroyed
while another thread executes it waits for its end; one constructed after the
request executes at once. Destroying or assigning to a joinable `thread`, or
leaving a thread by an exception, calls `std::terminate()`.

The machine of SharedMemory follows the C++ memory model. A relaxed load may
read any value from the one the thread knows of; a release store publishes what
the thread knows and an acquire load that reads it takes that over; mutexes,
starting and joining do the same; a seq_cst access does not look behind the last
seq_cst access to the object; an increment reads the last value. Two accesses to
the same object of which one is a write, one is not atomic, and neither happens
before the other, are a race, and so is an access after the object's lifetime:
both are recorded in `undefined`, and the execution goes on.

## Runs

| Run | Question and answer | Bounds |
|---|---|---|
| SumQueue | Does the monitor queue work, and does the program's own test? Lock, wake-ups, delivery, refinement of QueueSpec with its fairness, and the sum | 2 adders, 2 getters, 2 spurious wake-ups: two getters compete for one element, and one can sleep while the other is notified. 3 and 3 were run by hand (370 959 states) |
| MonitorObjectRace (MonitorObject) | With two consumers, does `get()` find an element? No: the second pops an empty queue (finding) | 2 adders, 2 getters that call `get()` once, as `main()` has it; 2 spurious wake-ups |
| PingPongPrograms | Do all programs play the same game, and who returns? | limit 3, 2 spurious wake-ups; the last round is where they differ, and an earlier round already repeats |
| PingPongAtomicBool | Does `pong` always return? No (finding; `pingPongAtomicFlag.cpp` and `pingPongConditionVariable.cpp` count late in the same way) | limit 2 |
| ConditionVariablePingPong | Does `setTrue`? No (finding) | limit 2 |
| Schedulers | Ownership, order and termination of the eight schedulers; are nested calls a call stack, do the assertions hold, does anything leak? | 3 tasks, every choice of up to 3 turns, 3 priorities, 2 deadlines: all ties and overtakings of three; 3 addresses above the root, 2 values, 5 calls or requests: enough to reuse an address at another depth |
| Workers | Do part-time workers wait, as the comment beside `arrive_and_drop` says? No (finding) | the crew of the program, 3 and 3 |
| Synchronization | Does everybody wait for what they should, and does everybody get on? With one consumer, is the gap in the monitor object's `get()` harmless? Yes | the same crew; 3 clients with 2 tasks; 4 adders and 1 getter that calls `get()` 3 times, with an element more than it takes; 2 spurious wake-ups, of a pair or of the getter |
| SharedState | What may the 72 programs print, which objects do they race for or use too late, what happens once, which of them end? | 1 to 7 threads (where a program starts ten or a hundred, three), 1 or 2 iterations, sums over vectors of powers of two, which tell what was added |
| UniqueLock (SharedState) | Does `main()` of `uniqueLock.cpp` return? No (finding) | its two threads |
| CoroutinePrograms | Frames, values, messages and transfers of all coroutine examples | up to 3 values, vectors up to 3, arguments 0 to 10 (every branch of `fun1` to `fun3`, up to four levels), all streams of 12 bytes, among them two frames of one byte each, with any byte before each; 4 tasks and 5 frames in any order |
| DatastreamParser | Does `Parse` read every byte it is sent? No (finding) | 6 bytes |

Deadlock is checked except where a configuration says that its programs end, or
that one of their threads may hang.

### Properties

* **Queues.** `LockDiscipline`: exactly the owner of the mutex is in a critical
  section. `TakeFindsElement`: no `front()` on an empty queue. `NoLostWakeup`:
  while a getter is blocked, every queued element is spoken for by an awake
  getter or a notification to come. `SumOfAllNumbers`: the check of the program.
  `ImplementsQueue`: the monitor is a FIFO queue that starves nobody (SumQueue),
  and so is the first monitor object with one getter, however often it calls
  `get()`, but for the fairness, which `MainReturns` covers (Synchronization).
* **Ping-pong.** `TakesTurns`: each program plays the game of PingPong.
  `OneMover`: never may both threads move: there is one ball or one serve, and who is
  about to flip the only flag has the turn or the mutex. `Returns`: both threads return in
  the programs with two flags or semaphores, one of them in the others.
* **Schedulers.** `FramesOwned`: a frame has one owner at any time.
  `ResumesLiveTask`: what the container holds can be resumed. `TurnOrder` and
  `WakesInOrder`: what the container promises. `AllFinished`: every body ends, and
  only then does the scheduler.
* **Nested calls.** `AssertionsHold`: the assertions of the source.
  `LinksAreAlive`: no link dangles, and the scheduler reaches every level.
  `EndsWithResult`: a result, and nothing leaks. `ImplementsCallStack`; that they
  end is part of `AllFinished`.
* **Waiting for each other.** `NobodyAhead`: nobody goes on before the work to
  wait for is done. `CountersExact`: latch and barrier expect exactly those who
  will come. `WorksOnData`, `WakeUpOwed`: the pairs. `TaskInOnePlace`,
  `DequeueFindsTask`: the active object. `MainReturns`: all end.
* **Shared memory.** `AccessesOrdered`: no object is raced for or used after its
  end, except those a program declares `unsafe`; and those it declares `always`
  are, in every execution. `OutputPossible`: at the end every thread has printed
  one of the outputs its program lists. `ConstructedOnce`: singletons and stop
  callbacks. `EndsAsKnown`: `main()` returns, but for the programs listed below.
* **Coroutines.** `FrameLifetimes`: no frame is used when it is gone, none is left,
  none has two owners. `ValuesInOrder`: each value is read once, in order.
  `NothingReadEarly`: results and messages are there when they are read.
  `HandlesAlive`: frames form a stack and no stale handle is followed.
  `AwaitsAreCalls`: bodies begin and end as those of ordinary recursive functions
  would. `YieldsFramesSent`: a frame that `Parse` yields is what was just
  sent. `FramesHandled`: when the encodings of some frames, with a byte before each,
  were sent, exactly these frames were handled. `Interleaves`, `ReceivesAll`, `Ends`:
  the rest by name.

Every property of a passing run has a mutant: a definition prefixed by
"Mutant" in its comment, which repeats a definition with a plausible mistake and,
put in its place, violates the property.

### What the programs with shared memory are wrong about

The `unsafe` objects are what the run found, each one confirmed in the source.
Most of the programs say so themselves and are there to show it.

| Program | Object |
|---|---|
| `ongoingOptimisation` | `x` and `y`, neither locked nor atomic |
| `ongoingOptimisationAcquireReleaseBroken` | `x`, since the load of `y` does not wait for the store |
| `parallelAlgorithmsHazards`, `addMoney`, `37_random_numbers_init_threads` | the sum, the balance, the vector's elements: `+=` by several threads |
| `readerWriterLock` | the map: readers use `operator[]`, which inserts a missing key, under a shared lock |
| `threadSafeInterfaceStatic` | the static member that one mutex per object guards |
| `threadArguments`, `lifetimeIssues` | a local variable of `main()` that a detached thread still uses |
| `copiedValueDataRace` | the variable that `main()` writes while two threads read it through a reference |
| `co_await_external`, `co_await_transform` | the frame and the value in its promise: `main()` sleeps, which orders nothing, and reads and destroys them |
| `startJobWithAutomaticResumptionOnThread` | the frame that a new thread resumes while the old one is not done suspending |
| `priority_queueSchedulerSimplified` (`createTask`) | the name, a reference to a temporary string |

Ends other than a return from `main()`: `uniqueLock` hangs or is terminated,
`lockTwice` hangs, `threadMoved` and `threadJoinable` are terminated.
`parallelAlgorithmsHazards` may deadlock in the `unseq` and `par_unseq` loops at its
end, which are not modelled; its first two loops end.

### Fairness

Every thread has weak fairness on its steps: the operating system schedules every
runnable thread, and no step is disabled for ever by others that only pass by. No
strong fairness is assumed. A mutex that is contended for ever could starve a
thread under weak fairness; here every thread locks a bounded number of times, so
it cannot. Spurious wake-ups get no fairness (they need not happen), and they are
bounded, because a thread that is woken for no reason again and again would make
no progress and no library does that. A blocked `atomic::wait` may read again
unnotified, but no liveness rests on it. In single-threaded programs `WF(Next)`
says that `main()` goes on.

SharedMemory has `WF(Next)`, which is weaker than fairness for every thread and
enough: every step takes some thread to a later instruction, since a polling loop
that reads a value to wait for again is no step, and the instructions are finitely
many. That an atomic store becomes visible to such a loop in finite time is what
the standard asks of implementations.

### Bounds

`MaxSpurious` bounds spurious wake-ups; two can hit one thread twice, or two
threads between the same notification and its delivery. `MaxRounds`,
`MaxSuspends`, `MaxWaits`, `MaxSteps`, `MaxValues`, `MaxLength`, `MaxBytes` bound
what a body, a vector or a stream does; `MaxPrio` and `MaxTime` the numbers
things are ordered by. The programs have fixed counts, mostly five or ten; the
hazards are between neighbours (two competitors, a predecessor and a successor),
which the bounds include with one to spare.

## Proofs

All theorems hold for every value of the constants that satisfies the named
assumption of its module: finite, disjoint sets of threads, numbers that are
natural. 17994 obligations, by module:

**ThreadSafeQueue_proofs** (`ThreadsAssumption`, `SpuriousAssumption`).
`TypeCorrect`, `MutualExclusion`, `NeverPopsEmpty`, `WakeupsSuffice` are the
invariants `TypeOK`, `LockDiscipline`, `TakeFindsElement`, `NoLostWakeup`;
`Refinement` says that every behaviour is one of QueueSpec, and `DeliversOnce`
carries that module's invariant `FifoInv` over. The inductive invariant is

    Inv == TypeOK /\ LockDiscipline /\ TakeFindsElement /\ NoLostWakeup /\ GotWhenRead

`TakeFindsElement` (a getter about to take finds an element) is not inductive
alone: another getter could empty the queue between the test and the take.
`LockDiscipline` rules that out, as only the owner of the mutex is there.
`NoLostWakeup` compares cardinalities: the queued elements against the awake
getters and the pending notifications. Its proof moves one thread from one set
to another per action (lemmas `Joins` and `Leaves`, from FiniteSetTheorems), and
needs `TakeFindsElement` for the step that takes. `GotWhenRead` says that a getter
that has not read the front has no value yet; the refinement mapping needs it,
because it reads the abstract result off that variable.

`SumsAllNumbers` is SumQueue's property, with as many removers as adders. That
program takes only steps of the queue (`SumUsesTheQueue`), so the queue's
invariants hold in it. The sum of the numbers drawn is the number of cells
`(a, k)` with `k` at most the number of `a`; `SumCounted` says that what was
added so far is the number of such cells of the getters that have added, and at
the end these are half of a rectangle of n by n + 1 (`Below`): a Gauss sum by a
bijection instead of an induction. `Numbered` (numbers drawn are distinct and
below the counter) and `ReadWhenTaken` carry it.

**Synchronization_proofs** (`SynchronizationAssumption`, `CrewsAssumption`,
`ObjectsAssumption`) is about the composition of all programs: `NobodyGoesAhead`,
`CountersStayExact`, `TasksInOnePlace`, `AlwaysFindsTask`, `AlwaysWorksOnData`,
`NoLostWakeUp` are the properties of the run, and so is `OneGetterHasAQueue`, the
refinement of QueueSpec's safety. A step of the composition is a step of one
program and leaves the others' variables alone.

* The crews, of any size: `CrewOrdered` ties the counter of a latch or barrier to
  the positions of the workers. `CountsMissing` says that it is the cardinality of
  those who have not arrived, `GateOpens` that a gate is open only when it has come
  to zero, `WorksOnce`, `PartTimeOnce` and `FullTimeTwice` who arrives how often.
* The active object: `ObjectOrdered` says where every task is (`OnePlace`,
  `ListDistinct`, `ServantHolds`), how many the clients have put there
  (`ClientsCount`) and that `main()` goes in order (`ServesInTurn`). A client is done
  when its tasks are in the list, the servant ends when `main()` has joined the
  clients and the list is empty, hence every future is fulfilled.
* The pairs: `PairOrdered`, in terms of the positions of sender and waiter.
* The monitor object: `GetterAlone` is what its gap needs. Nobody but the one
  getter takes, so the element it waited for is still there, whoever woke it. The
  refinement maps call `k` of `get()` to getter `k` of QueueSpec, whose value is the
  `k`th one read (`ValueRead`), for any number of calls.

**PingPongPrograms_proofs** (`PingPongAssumption`). `OneMoverOnly` and
`PlaysTheGame`, the safety of `TakesTurns`, for any limit and all five programs. Each has an
invariant of its own (`BoolInv`, `FlagsInv`, `CondVarInv`, `SemaphoreInv`,
`ExerciseInv`) that says whose turn it is in terms of the flag, the semaphores
or the positions of both players.

**CoroutineScheduler_proofs, Schedulers_proofs** (`BoundsAssumption`,
`SchedulersAssumption`, `NestedAssumption`, `OwningAssumption`).

*Ownership.* `EveryFrameOwned` and `ResumesOnlyLiveTasks` for all eight
schedulers, for bodies of any length. For the owning ones the invariant is that
handles in the container are distinct (`QueuedOnce`), what is there is not
destroyed (`Owned`) and the body's remaining suspensions agree with where it is
(`Progress`); for the priority queues `top()` must be shown to exist, by
well-foundedness of the order on the priorities used. For the list and the
detached tasks: `ListFilled` and `ListOnce`, `TaskHolds` and `DetachedOwned`.

*Order.* `TurnsInOrder` and `WakesUpInOrder` are the properties `TurnOrder` and
`WakesInOrder`, which compare the numbers of turns that coroutines have had.
Nothing about those numbers is inductive without the container: `QueueSorted`
says that whoever stands earlier in the queue `HasTurnFirst` (has had as many
turns and was emplaced before, or one fewer and was emplaced later), and all of
them before the active one; `StackSorted` that the stack is in the order of
emplacement; `PriosKept` what priority a job has while it is queued or active,
which the updating program lowers with every turn.
`ListTurns` and `MomentTurns` say the same of the list and of the deque of
detached tasks.

*Nested calls.* `NestedAssertionsHold`, `NestedLinksAlive`, `NestedEndsWithResult`
and the refinement `NestedIsCallStack` rest on one invariant, `NestedInv`: while
`main()` runs the tree there is a sequence `s` of distinct addresses, the stack
of frames, such that `child` and `parent` link its neighbours (`Linked`), the
promises of `s[1]` and on, as far as anyone asked, know the scheduler
(`Informed`), all but the last await their callee and hold no value (`Waiting`),
and the last one runs, suspends or is done (`Inner`, `Outer`). The properties
follow links over the frames; `StackShape` and `CallersWait` say that what they
find is `s`. Under the refinement mapping the abstract stack is the sequence of
frames with the value each last received, and each action is one of `Stays`,
`Pushes`, `Pops`, `Asks`, `Supplies`, ... of it (`CallStep`).

**CoroutinePrograms_proofs** (`BoundsAssumption`, `HandlesAssumption`). An
invariant for each example, `...Inv == example = "..." => ...`; a step of one
leaves the variables of the others alone.

* `TakesTurns` (`Interleaves`): the positions of the two vectors determine how
  many elements were output (`Reads`) and where each of them stands (`InPlace`).
* `GetsAllData` (`ReceivesAll`): `Exchanged` says, for each point at which the
  two coroutines hand over, what was produced and received.
* `UniqueOwnership`: `OneOwner`, the part of `FrameLifetimes` about
  `co_return_custom_handle`, is inductive with the types alone.
* `FollowsLiveHandles` (`HandlesAlive`): a frame other than the first that is not freed is
  awaited by exactly one earlier frame (`AwaitsOne`), the one that runs awaits nobody
  (`RunsAlone`), and `nextHandle` or `continuation_` point to the awaited or the
  awaiting frame (`LeadsOn`, `LeadsBack`).
* `CallsLikeFunctions` (`AwaitsAreCalls`): `LoggedInv` keeps, for each frame, the
  trace that its call found, its base. The trace is the base of the running frame,
  its begin and the calls that have returned to it (`Goes`, `Sofar`); the base of
  an awaited frame is the same of the one that awaits it (`Waits`); only one frame
  awaits nobody (`Innermost`). That the reference, a recursive function on calls,
  exists and is the only one is shown by a `Rank` that falls from call to call
  (`CalleesBelow`, `CallingExists`, `CalledExpands`).
* `YieldsWhatWasSent` (`YieldsFramesSent`): the frame in progress and the state
  of `Parse` determine what the last bytes sent are (`Framing`).
* `HandlesAllFrames` (`FramesHandled`): conversely, whenever what was sent is a
  beginning of the encoding of some frames, each after any byte, the state of
  `Parse`, the frame in progress and what was handled are functions of it
  (`Follows`). The theorem states it for all sequences of frames, of which those of
  `FramesHandled` are a few.

**Generators_proofs** (`BoundsAssumption`). `FramesLiveAsUsed` (`FrameLifetimes`),
`ReadsInOrder` (`ValuesInOrder`) and `ReadsWhatIsThere` (`NothingReadEarly`), of the
31 programs with one coroutine, for generators that yield any number of values and
callers that ask for any number. None of the three is inductive: what is safe to
do next depends on what `main()` still does. The invariant `OneInv` is a
disjunction, one disjunct for each way in which `main()` and the coroutine go
together:

* `QuietInv`: the coroutine runs to its end at once, or when it is resumed first;
  from then on `main()` does only what a finished frame, or none, allows
  (`UsesFrom`).
* `UnsetInv`, `YieldInv`, `AwaitInv`, `ChatInv`: scripts of fixed length, where the
  number of operations left determines everything else.
* `CycleInv`, `BasicInv`, `QueueInv`: `main()` goes on until `done()`. Which
  operation may follow which one is determined by the loop (`InOrder`, `NextOp`);
  `CycleInv` relates the next operation to how many values were yielded, `pos`, and
  read, `Len(seen)`.
* `CountedInv`: `main()` asks a number of times; the operations left are a tail of
  `CountedScript`, and how many are left says in which round it is.

What a resumption does is said once for all of them: `Stop` is the first step that
suspends or throws (`StopFound`), and a resumption comes to the next value
(`RunSuspends`) or to the end of the body (`RunEnds`). `FrameLifetimes` is also
about tasks that are moved, and takes `UniqueOwnership` for that.

**SharedState_proofs** (`ProgramsDisciplined`). These are theorems about SharedMemory
for every program it can run, with any number of threads, objects, mutexes and
instructions, hence about the vocabulary the 72 programs are written in:

* `LocksExclude`: a critical section excludes all others of its mutex, but for readers.
* `NoRaceIfDisciplined`: an object is raced for, or used after its end, only if the
  program's code leaves it unprotected. `Disciplined`, in module Discipline, is a
  condition on code alone: of any two accesses that would conflict, both are made
  under one mutex (`Excluded`) or one spin lock (`ExcludedBySpin`), or one comes
  before the other (`Before`) because `main()` starts a thread after it, joins its
  thread before the other, or because one thread stores a flag after it, with release,
  that the other awaits, with acquire, itself or through a third one (`RelayedBefore`);
  or one writes what is written once, and the other has found that it was or has
  written it itself (`Initialized`); and an object's lifetime ends after all its uses.
* `OnceIfFilled`: an object is constructed at most once if who constructs it has
  tested, alone under a mutex, that this was not done, and says before leaving that
  it is now (`ConstructsOnce`). This is what double-checked locking, `call_once` and
  static locals have in common, and `Sets`, `Fills` and `Checks` say it of
  instructions: the test, the block it guards, and the first test outside the lock,
  which must acquire what the block has released.
* `CatalogueOrdered`, `CatalogueConstructed`: so `AccessesOrdered` and
  `ConstructedOnce` hold of those programs of the catalogue that are disciplined.
  `ProgramsDisciplined` says that all 72 are well formed, and that all but the two of
  `DecidedByValues` are disciplined and construct once; it is about definitions, not
  parameters, and TLC evaluates it on the runs SharedState and UniqueLock.

A race is an access that a thread does not know of. What it knows is a vector of
times, and nothing about one such vector is inductive without the places where the
others publish theirs. The invariant `Ordered` has a part for each of them: `Started`
and `Joined` relate `main()` and its threads, `FlagStored` says that every value of
a flag but the first carries the knowledge of its writer, `FlagSeen` that who has
awaited it has taken that over, `RelayStored` and `RelaySeen` the same of what
the writer had awaited. For locks, `HoldsLock` says that
who is in a critical section holds its mutex, `HolderKnows` that who holds it
knows what was published with it, and `Published` that an access made under
it is by somebody who is still there or was published since; `SpinsAlone` and
`SpinPublished` say this of a spin lock, whose last value alone tells whether it is
free. For initialization, `SetOnly` says that the flag has two values at most, the
first one while a thread is in the block that sets it, and that who is alone
there reads the last one; `FilledOnly` that what is filled has two values at most and gets
the second one in that block; `FillPublished` that a flag that is set carries the
knowledge of who filled, and `CheckedKnows` that who has found it set, or set it, knows that. `Accessed` says that what
is remembered of an object are instructions executed, `RaceFree` is the result;
it follows from the others for an access that is made next (`KnownBefore`,
`KnownExcluded`, `KnownSpinning`, `KnownInitialized`). TLC checked `Ordered` on the programs first,
and its parts for spin locks, relays and initialization on those that have them. What each step
contributes is said in four sentences that know nothing of the invariant, `Moves`,
`AccessesAs`, `Executes` and `LocksAs` (`StepEffects`); each part is preserved by
those it needs.

`FlattenSeq`, and the walks along the handles, are recursive functions. A
recursive function is an arbitrary choice of a function that satisfies its
equation, so what it computes can only be used when there is one:
`DefinedFromLater` and `Flattens` construct it (`Repeat`, a counted loop's operations,
is a `FlattenSeq` too: `RepeatRounds`), and where one would argue by
induction the proofs take a least counterexample (`LeastNumber`, from
WellFoundedInduction).

### Only model-checked

* Liveness, and with it the fairness of the refinements (`Returns`, `AllFinished`,
  `MainReturns`, `EndsAsKnown`, `Ends`, ...): out of the prover's reach.
* `AccessesOrdered` and `ConstructedOnce` of the two programs of `DecidedByValues`,
  `invokeCallback` and `signalStopRequests`. Who executes a stop callback, and
  whether its object still exists then, depends on a stop state that is registered,
  requested and deregistered, and not on the order of instructions. Also that objects
  declared `always` are wrong in every execution, which is about reaching a state.
* `OutputPossible`: what each of 72 finite programs may print is what a model checker decides.

## Findings

1. `concurrency/monitorObject.cpp:39`: with two consumers `get()` calls `front()`
   and `pop()` on an empty queue (run MonitorObjectRace).
2. `concurrency/ping_pong_performance_test/pingPongAtomicBool.cpp:13`: the flag
   is stored before the round is counted, so `pong` may wait for ever (run
   PingPongAtomicBool). `pingPongAtomicFlag.cpp` and
   `pingPongConditionVariable.cpp` have the same order; with two flags or
   semaphores nothing hangs.
3. `concurrency/problems/solutions/conditionVariablePingPong.cpp:26`: the two
   loops compare the counter by `<=` and `<`, outside the lock; `setTrue` may wait
   for ever (run ConditionVariablePingPong).
4. `concurrency/latches_barriers/fullTimePartTimeWorkers.cpp:36`: "Wait until
   morning work is done" stands beside `arrive_and_drop()`, which does not wait
   (run Workers).
5. `coroutines/datastream_parser/main.cpp:58`: the byte `Parse` is resumed with
   at its start, or after a frame, is never read (run DatastreamParser).
6. `concurrency/uniqueLock.cpp:11`: the guards that are to be "deferred" lock at
   once and in opposite orders; the threads lock each other out, or `std::lock`
   throws because its arguments are locked already (run UniqueLock).

## Limits

* In SharedMemory a store comes last in the modification order of its object and
  no load reads a later store; consume is treated as acquire, as compilers do.
  Executions of C++ that need the opposite are not explored.
* In the other modules steps interleave sequentially consistently; the
  repository's default atomics have that order, and where a plain variable is
  raced on (the exercise's counter) it is said in the module.
* A program that differs from another one only in names or in the library class
  that does the same is mapped to the one definition of both.
* Undefined behaviour: a race or a use after the end is recorded and the program
  goes on with some value; finding 1 is modelled as this build behaves; the end
  of two coroutine bodies without a `return_void()` is taken as the final
  suspension that g++ generates.
* Values, formatting, timing measurements, allocators and primality tests are
  left out. Exceptions occur only in the examples about them and in `uniqueLock`.
* What `CooperativeTasks` calls time only orders; sleeping is waiting for the
  clock, which moves on its own. In SharedState sleeping is nothing at all.
* The memory arena's default resource outlives its use at the sizes modelled.
* The frames that `void_co_return` and its neighbour leave behind are stated in
  `NoFrameLeft`, a part of `FrameLifetimes`, as they are: nothing frees them before the program ends.

## Plan

Done, in order of importance: queues, games and schedulers; nested calls; crews,
pairs and the active object; coroutine examples; the programs with shared memory;
proofs of safety for all of them.

Left: the two programs of `DecidedByValues`. They need an invariant of the stop
state: which of its values says that the callback is registered, being executed or
gone, and who has written it.
