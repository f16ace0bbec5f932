----------------------------- MODULE SumPrograms -----------------------------
(***************************************************************************)
(* Programs that add up a vector, most of them with four threads that take *)
(* a quarter each, and other ones in which threads add to shared numbers.  *)
(* The vector has a hundred million random numbers there, and a few powers *)
(* of two here, so that a sum tells which of them were added.              *)
(***************************************************************************)
EXTENDS ThreadCode

val(i) == 2^i

SumOf(beg, end) == MapThenSumSet(val, beg..(end - 1))

\* for (it = beg; it < end; ++it) add val[it]
ForAll(beg, end, add(_)) == FlattenSeq([k \in 1..(end - beg) |-> add(val(beg + k - 1))])

\* Four threads of sumUp, which the boundaries fir, sec, thi and fou divide into
\* parts of n elements; main() prints the sum.
Quarters(n, sumUp(_, _)) ==
    [Program EXCEPT !.code = ForkJoin(<<>>, [k \in 1..4 |-> sumUp((k - 1) * n, k * n)],
                                      <<Show(Load("sum", "seq_cst"))>>),
                    !.mem = [sum |-> 0], !.locks = {"myMutex"},
                    !.prints = 1 :> {<<SumOf(0, 4 * n)>>}]

sumUp(beg, end) == ForAll(beg, end, LAMBDA v : Guarded("myMutex", Add("sum", v)))

\* Mutant: sum = sum + val[it] in place of sum += val[it].
sum_and_store(beg, end) == ForAll(beg, end, LAMBDA v : <<Load("sum", "seq_cst"), Write("sum", "seq_cst", 1, v)>>)

sumUpAtomic(beg, end)  == ForAll(beg, end, LAMBDA v : <<FetchAdd("sum", "seq_cst", v)>>)
sumUpRelaxed(beg, end) == ForAll(beg, end, LAMBDA v : <<FetchAdd("sum", "relaxed", v)>>)

\* A sum of its own in every thread, and one access to the shared one.
sumUpLocal(beg, end)        == Guarded("myMutex", Add("sum", SumOf(beg, end)))
sumUpLocalAtomic(beg, end)  == <<FetchAdd("sum", "seq_cst", SumOf(beg, end))>>
sumUpLocalRelaxed(beg, end) == <<FetchAdd("sum", "relaxed", SumOf(beg, end))>>

synchronizationWithLock            == Quarters(1, sumUp)
synchronizationWithAtomic          == Quarters(1, sumUpAtomic)
synchronizationWithFetchAdd        == Quarters(1, sumUpAtomic)
synchroniuationWithFetchAddRelaxed == Quarters(1, sumUpRelaxed)
localVariable                      == Quarters(2, sumUpLocal)
localVariableAtomic                == Quarters(2, sumUpLocalAtomic)
localVariableAtomicRelaxed         == Quarters(2, sumUpLocalRelaxed)
threadLocalSummation               == Quarters(2, sumUpLocalAtomic)

\* Every thread fulfils a promise with its part, and main() adds the futures;
\* afterwards it joins the threads, in dotProductAsync by the futures.
Futures == <<"fut1", "fut2", "fut3", "fut4">>

AddFutures == <<Get("fut1"), Plus(Get("fut2")), Plus(Get("fut3")), Show(Plus(Get("fut4")))>>

Fulfil(n, part(_, _)) == [k \in 1..4 |-> <<SetValue(Futures[k], part((k - 1) * n, k * n))>>]

WithFutures(parts) ==
    [Program EXCEPT !.code = <<StartAll(parts) \o AddFutures \o JoinAll(parts)>> \o parts,
                    !.mem = [fut1 |-> 0, fut2 |-> 0, fut3 |-> 0, fut4 |-> 0],
                    !.prints = 1 :> {<<SumOf(0, 8)>>}]

tasksSummation  == WithFutures(Fulfil(2, SumOf))
dotProductAsync == WithFutures(Fulfil(2, SumOf))

\* Parts of 2500 numbers; the threads are detached.
packagedTask ==
    LET tasks == Fulfil(2500, LAMBDA beg, end : ((beg + end + 1) * (end - beg)) \div 2)
    IN  [WithFutures(tasks) EXCEPT
            !.code = <<FlattenSeq([k \in 1..4 |-> <<Start(k + 1), Detach(k + 1)>>]) \o AddFutures>> \o tasks,
            !.prints = 1 :> {<<50005000>>}]

\* Two threads write next to each other, but not to the same object.
falseSharing ==
    [Program EXCEPT !.code = ForkJoin(<<>>, <<Add("a", 1) \o Add("a", 2), Add("b", 1) \o Add("b", 2)>>,
                                      <<Show(Load("a", "plain")), Show(Load("b", "plain"))>>),
                    !.mem = [a |-> 0, b |-> 0], !.prints = 1 :> {<<3, 3>>}]

falseSharingSolved == falseSharing

calculateWithAtomic ==
    [Program EXCEPT !.code = <<Times(2, <<Store("sum", "seq_cst", 0)>> \o sumUpAtomic(0, 4)
                                          \o <<Show(Load("sum", "seq_cst"))>>)>>,
                    !.mem = [sum |-> 0], !.prints = 1 :> {<<SumOf(0, 4), SumOf(0, 4)>>}]

calculateWithLock ==
    [Program EXCEPT !.code = <<sumUp(0, 4) \o <<Show(Load("sum", "plain"))>>>>,
                    !.mem = [sum |-> 0], !.locks = {"myMutex"}, !.prints = 1 :> {<<SumOf(0, 4)>>}]

\* The first two of its for_each loops, under the execution policy par.
parallelAlgorithmsHazards ==
    LET unprotected == [i \in 1..3 |-> Add("sum", i + i)]
        protected   == [i \in 1..3 |-> Guarded("m2", Add("sum2", i + i))]
    IN  [Program EXCEPT
            !.code = <<StartAll(unprotected) \o JoinAll(unprotected)
                          \o [i \in 1..3 |-> Start(i + 4)] \o [i \in 1..3 |-> Join(i + 4)]
                          \o <<Show(Load("sum2", "plain"))>>>> \o unprotected \o protected,
            !.mem = [sum |-> 0, sum2 |-> 0], !.locks = {"m2"},
            !.unsafe = {"sum"}, !.always = {"sum"}, !.prints = 1 :> {<<12>>}]

\* A hundred threads there.
addMoney ==
    [Program EXCEPT !.code = ForkJoin(<<>>, Times(3, <<Add("balance", 50)>>),
                                      <<Show(Load("balance", "plain"))>>),
                    !.mem = [balance |-> 100], !.unsafe = {"balance"}, !.always = {"balance"},
                    !.prints = 1 :> {<<150>>, <<200>>, <<250>>}]

\* Ten threads with a thousand additions each; here three with two.
relaxed ==
    [Program EXCEPT !.code = ForkJoin(<<>>, Times(3, <<Times(2, <<FetchAdd("count", "relaxed", 1)>>)>>),
                                      <<Show(Load("count", "seq_cst"))>>),
                    !.mem = [count |-> 0], !.prints = 1 :> {<<6>>}]

\* Ten threads there that add a random number of times.
atomicRef ==
    [Program EXCEPT !.code = ForkJoin(<<>>, [n \in 1..3 |-> Times(n, <<FetchAdd("counter", "seq_cst", 1)>>)],
                                      <<Show(Load("counter", "plain"))>>),
                    !.mem = [counter |-> 0], !.prints = 1 :> {<<6>>}]

\* Five threads add to the elements of a vector, here two to two elements.
Elements == <<Show(Load("v0", "plain")), Show(Load("v1", "plain"))>>

randomInitThreads ==
    [Program EXCEPT !.code = ForkJoin(<<>>, Times(2, <<Add("v0", 1) \o Add("v1", 1)>>), Elements),
                    !.mem = [v0 |-> 0, v1 |-> 0], !.unsafe = {"v0", "v1"}, !.always = {"v0", "v1"},
                    !.prints = 1 :> ((1..2) \X (1..2))]

\* Without the programs that are the same here as another one:
\* synchronizationWithFetchAdd, threadLocalSummation, dotProductAsync and
\* falseSharingSolved.
SumCatalogue ==
    <<synchronizationWithLock, synchronizationWithAtomic,
      synchroniuationWithFetchAddRelaxed, localVariable,
      localVariableAtomic, localVariableAtomicRelaxed, tasksSummation,
      packagedTask, falseSharing, calculateWithAtomic, calculateWithLock,
      parallelAlgorithmsHazards, addMoney, relaxed, atomicRef,
      randomInitThreads>>
=============================================================================
