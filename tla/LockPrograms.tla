---------------------------- MODULE LockPrograms ----------------------------
(***************************************************************************)
(* Programs about locks, what they protect and what they leave             *)
(* unprotected.                                                            *)
(***************************************************************************)
EXTENDS ThreadCode

-----------------------------------------------------------------------------
(* Two accounts of 100, and a third thread that prints the sum             *)

Accounts == [Program EXCEPT !.mem = [acc1 |-> 100, acc2 |-> 100]]

\* main() prints the sum, and both balances and the sum in the end.
Transfers(thr1, thr2, thr3, order, printSum) ==
    ForkJoin(printSum, <<thr1, thr2, thr3>>,
             <<Show(Load("acc1", order)), Show(Load("acc2", order))>> \o printSum)

PrintsOfMain == {<<200, 108, 92, 200>>}

transferMoney(amount, from, to) ==
    If(from, "seq_cst", amount..200,
       <<FetchAdd(from, "seq_cst", -amount), FetchAdd(to, "seq_cst", amount)>>)

printSum(first, second) == <<Load(first, "seq_cst"), Show(Plus(Load(second, "seq_cst")))>>

\* Either operand of a1.balance + a2.balance may be evaluated first.
SumIsPrinted(first, second, sums) ==
    [Accounts EXCEPT !.code = Transfers(transferMoney(5, "acc1", "acc2"),
                                        transferMoney(13, "acc2", "acc1"), printSum(first, second),
                                        "seq_cst", printSum(first, second)),
                     !.prints = 1 :> PrintsOfMain @@ 4 :> {<<sum>> : sum \in sums}]

\* The third thread may miss either amount, or see that one twice which leaves
\* the account it reads first.
breakingInvariant        == SumIsPrinted("acc1", "acc2", {182, 187, 192, 195, 200, 205})
breakingInvariantSwapped == SumIsPrinted("acc2", "acc1", {182, 187, 195, 200, 208, 213})

transferLocked(amount, from, to) ==
    Guarded("mutAccount", If(from, "plain", amount..200, Add(from, -amount) \o Add(to, amount)))

\* Under the lock the order of the operands shows nowhere.
printLocked == Guarded("mutAccount", <<Load("acc1", "plain"), Show(Plus(Load("acc2", "plain")))>>)

breakingInvariantSolved ==
    [Accounts EXCEPT !.code = Transfers(transferLocked(5, "acc1", "acc2"),
                                        transferLocked(13, "acc2", "acc1"), printLocked, "plain", printLocked),
                     !.locks = {"mutAccount"}, !.prints = 1 :> PrintsOfMain @@ 4 :> {<<200>>}]

-----------------------------------------------------------------------------
(* Spin locks *)

\* Two threads that work on a resource under the lock.
Spinning(acquire, release) ==
    [Program EXCEPT !.code = ForkJoin(<<>>, Times(2, <<<<TestAndSet("flag", acquire)>>
                                          \o Add("resource", 1) \o <<Store("flag", release, 0)>>>>),
                                      <<Show(Load("resource", "plain"))>>),
                    !.mem = [flag |-> 0, resource |-> 0], !.prints = 1 :> {<<2>>}]

spinLock      == Spinning("seq_cst", "seq_cst")
spinLockBreak == Spinning("acq_rel", "release")

-----------------------------------------------------------------------------
(* A telephone book, which is a map: operator[] inserts a missing entry    *)

\* tree holds whether there is an entry of Bjarne.
Entry(name) == IF name = "Bjarne" THEN If("tree", "plain", {0}, <<Store("tree", "plain", 1)>>)
                                  ELSE <<Load("tree", "plain")>>

addToTeleBook(name, tele) == Guarded("teleBookMutex", Entry(name) \o <<Store(name, "plain", tele)>>)

printNumber(name) == <<LockShared("teleBookMutex")>> \o Entry(name)
                        \o <<Show(Load(name, "plain")), UnlockShared("teleBookMutex")>>

\* Eight readers there; the one of Bjarne may insert while others read.
readerWriterLock ==
    [Program EXCEPT
        !.code = ForkJoin(<<>>, <<printNumber("Scott"), addToTeleBook("Scott", 1968),
                                  addToTeleBook("Bjarne", 1965), printNumber("Bjarne")>>,
                          <<Show(Load("Scott", "plain")), Show(Load("Bjarne", "plain"))>>),
        !.mem = [tree |-> 0, Scott |-> 1976, Bjarne |-> 0], !.locks = {"teleBookMutex"},
        !.unsafe = {"tree"},
        !.prints = 1 :> {<<1968, 1965>>} @@ 2 :> {<<1976>>, <<1968>>} @@ 5 :> {<<0>>, <<1965>>}]

-----------------------------------------------------------------------------
(* Who locks what, and in which order *)

\* Its texts promise to defer the locking, but both guards lock at once; and
\* std::lock throws when a guard owns its mutex.
deadLock(a, b) == <<Lock(a), Lock(b), Throw>>

uniqueLock ==
    [Program EXCEPT !.code = ForkJoin(<<>>, <<deadLock("c1", "c2"), deadLock("c2", "c1")>>, <<>>),
                    !.locks = {"c1", "c2"}, !.ends = {"hangs", "terminates"}]

lockTwice == [Program EXCEPT !.code = <<<<Lock("mut"), Lock("mut")>>>>,
                             !.locks = {"mut"}, !.ends = {"hangs"}]

\* The third scope is left by an exception.
scopedLocking ==
    [Program EXCEPT !.code = <<Guarded("mutex1", Guarded("mutex2", <<>>) \o Guarded("mutex3", <<>>))>>,
                    !.locks = {"mutex1", "mutex2", "mutex3"}]

\* The first of its three locks does nothing.
StrategizedLocking ==
    [Program EXCEPT
        !.code = <<Guarded("exLock", <<LockShared("sharLock"), UnlockShared("sharLock")>>)>>,
        !.locks = {"exLock", "sharLock"}]

strategizedLockingCompileTime == StrategizedLocking
strategizedLockingRuntime     == StrategizedLocking

\* Both interfaces of an object lock its mutex, and neither calls the other.
Interfaces(n, mut) == Times(n, Guarded(mut, <<>>))

threadSafeInterface ==
    [Program EXCEPT
        !.code = <<<<Start(2), Start(3)>> \o Interfaces(2, "crit1") \o <<Join(2), Join(3)>>,
                   Interfaces(1, "crit2"), Interfaces(2, "crit3")>>,
        !.locks = {"crit1", "crit2", "crit3"}]

\* A static member of theirs is written outside.
threadSafeInterfaceStatic ==
    [threadSafeInterface EXCEPT
        !.code = [@ EXCEPT ![2] = @ \o <<Store("mem", "plain", 10)>>,
                           ![3] = @ \o <<Store("mem", "plain", 20)>>],
        !.mem = [mem |-> 0], !.unsafe = {"mem"}, !.always = {"mem"}]

\* The lock around the output is commented out; six workers there.
mutexWorkers ==
    [Program EXCEPT !.code = ForkJoin(<<>>, Times(3, <<<<Say(1), Say(2), Say(3)>>>>), <<>>),
                    !.prints = [t \in 2..4 |-> {<<1, 2, 3>>}]]

\* Only the output is protected; each thread has a string of its own.
addThreadLocal(s, name) ==
    <<Load(s, "plain"), Write(s, "plain", 10, name)>> \o Guarded("coutMutex", <<Show(Load(s, "plain"))>>)

threadLocal ==
    [Program EXCEPT !.code = ForkJoin(<<>>, <<addThreadLocal("s1", 1), addThreadLocal("s2", 2),
                                              addThreadLocal("s3", 3)>>, <<>>),
                    !.mem = [s1 |-> 9, s2 |-> 9, s3 |-> 9], !.locks = {"coutMutex"},
                    !.prints = 2 :> {<<91>>} @@ 3 :> {<<92>>} @@ 4 :> {<<93>>}]

-----------------------------------------------------------------------------
(* Operations on atomics that are not atomic together *)

\* Five threads there: each loads the string and stores it with its name
\* appended.  No name is appended twice, but some may be missing.
Append1(name) == <<Load("sharString", "seq_cst"), Write("sharString", "seq_cst", 10, name)>>

atomicSharedPtr ==
    [Program EXCEPT !.code = ForkJoin(<<>>, [name \in 1..3 |-> Append1(name)],
                                      <<Show(Load("sharString", "seq_cst"))>>),
                    !.mem = [sharString |-> 0],
                    !.prints = 1 :> {<<n>> : n \in 1..3 \union {12, 13, 21, 23, 31, 32}
                                                \union {123, 132, 213, 231, 312, 321}}]

\* compare_exchange_strong in a loop multiplies atomically.
fetch_mult ==
    [Program EXCEPT !.code = <<<<Show(Load("myInt", "seq_cst")),
                                 [FetchAdd("myInt", "seq_cst", 0) EXCEPT !.times = 5],
                                 Show(Load("myInt", "seq_cst"))>>>>,
                    !.mem = [myInt |-> 5], !.prints = 1 :> {<<5, 25>>}]

\* strategizedLockingRuntime is the same here as strategizedLockingCompileTime.
LockCatalogue ==
    <<breakingInvariant, breakingInvariantSwapped, breakingInvariantSolved,
      spinLock, spinLockBreak, readerWriterLock, uniqueLock, lockTwice, scopedLocking,
      strategizedLockingCompileTime, threadSafeInterface,
      threadSafeInterfaceStatic, mutexWorkers, threadLocal, atomicSharedPtr,
      fetch_mult>>
=============================================================================
