------------------------ MODULE MemoryOrderPrograms ------------------------
(***************************************************************************)
(* The experiments with memory orders: one thread writes two objects, and  *)
(* another one reads them in the other order; a producer publishes a       *)
(* string; and work is handed on from thread to thread.                    *)
(***************************************************************************)
EXTENDS ThreadCode

\* The two threads of the ongoing optimisation print y, then x.
TwoThreads(writing, reading) ==
    [Program EXCEPT !.code = ForkJoin(<<>>, <<writing, reading>>, <<>>),
                    !.mem = [x |-> 0, y |-> 0]]

Writing(ofX, ofY) == <<Store("x", ofX, 2000), Store("y", ofY, 11)>>
Reading(ofX, ofY) == <<Show(Load("y", ofY)), Show(Load("x", ofX))>>

AnyValues == {0, 11} \X {0, 2000}
InOrder   == AnyValues \ {<<11, 0>>}

ongoingOptimisation ==
    [TwoThreads(Writing("plain", "plain"), Reading("plain", "plain"))
        EXCEPT !.unsafe = {"x", "y"}, !.always = {"x", "y"}, !.prints = 3 :> AnyValues]

ongoingOptimisationLock ==
    [TwoThreads(Guarded("mut", Writing("plain", "plain")), Guarded("mut", Reading("plain", "plain")))
        EXCEPT !.locks = {"mut"}, !.prints = 3 :> {<<0, 0>>, <<11, 2000>>}]

ongoingOptimisationSequentialConsistency ==
    [TwoThreads(Writing("seq_cst", "seq_cst"), Reading("seq_cst", "seq_cst"))
        EXCEPT !.prints = 3 :> InOrder]

ongoingOptimisationAcquireRelease ==
    [TwoThreads(Writing("relaxed", "release"), Reading("relaxed", "acquire"))
        EXCEPT !.prints = 3 :> InOrder]

\* What is read of x is not ordered when y is not seen yet.
ongoingOptimisationAcquireReleaseBroken ==
    [TwoThreads(Writing("plain", "release"), Reading("plain", "acquire"))
        EXCEPT !.unsafe = {"x"}, !.prints = 3 :> InOrder]

ongoingOptimisationRelaxedSemantic ==
    [TwoThreads(Writing("relaxed", "relaxed"), Reading("relaxed", "relaxed"))
        EXCEPT !.prints = 3 :> AnyValues]

producer == <<Store("string", "plain", 11), Store("data", "plain", 2011),
              Store("atoData", "relaxed", 2014), Store("ptr", "release", 1)>>

consumer == <<Await("ptr", "consume", {0}), Show(Load("string", "plain")),
              Show(Load("data", "plain")), Show(Load("atoData", "relaxed"))>>

acquireConsume ==
    [Program EXCEPT !.code = ForkJoin(<<>>, <<producer, consumer>>, <<>>),
                    !.mem = [string |-> 0, data |-> 0, atoData |-> 0, ptr |-> 0],
                    !.prints = 3 :> {<<11, 2011, 2014>>}]

dataProducer == <<Store("mySharedWork", "plain", 103), Store("dataProduced", "release", 1)>>

deliveryBoy == <<Await("dataProduced", "acquire", {0}), Store("dataConsumed", "release", 1)>>

\* mySharedWork[1] = 2
dataConsumer == <<Await("dataConsumed", "acquire", {0}),
                  Load("mySharedWork", "plain"), Write("mySharedWork", "plain", 1, 20)>>

transitivity ==
    [Program EXCEPT !.code = ForkJoin(<<>>, <<dataConsumer, deliveryBoy, dataProducer>>,
                                      <<Show(Load("mySharedWork", "plain"))>>),
                    !.mem = [mySharedWork |-> 0, dataProduced |-> 0, dataConsumed |-> 0],
                    !.prints = 1 :> {<<123>>}]

MemoryOrderCatalogue ==
    <<ongoingOptimisation, ongoingOptimisationLock,
      ongoingOptimisationSequentialConsistency,
      ongoingOptimisationAcquireRelease,
      ongoingOptimisationAcquireReleaseBroken,
      ongoingOptimisationRelaxedSemantic, acquireConsume, transitivity>>
=============================================================================
