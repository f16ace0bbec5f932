----------------------------- MODULE SharedState -----------------------------
(***************************************************************************)
(* The programs whose threads share memory, one by one on the machine of   *)
(* module SharedMemory.  Every program says how it may end, what it may    *)
(* print and which of its objects are not safe to use; the properties      *)
(* compare that with what the machine can do.                              *)
(***************************************************************************)
EXTENDS Discipline, MemoryOrderPrograms, SumPrograms, LockPrograms,
        SingletonPrograms, StopPrograms, LifetimePrograms

Programs == MemoryOrderCatalogue \o SumCatalogue \o LockCatalogue
               \o SingletonCatalogue \o StopCatalogue \o LifetimeCatalogue

\* The program with the deadlock.
UniqueLock == <<uniqueLock>>

\* The stop callback: who executes it, and whether the object that it reads is still
\* there, depends on the values of a state that changes more than once.
DecidedByValues == {invokeCallback, signalStopRequests}

ASSUME ProgramsDisciplined ==
    \A i \in DOMAIN Programs :
       /\ WellFormed(Programs[i])
       /\ Programs[i] \notin DecidedByValues => Disciplined(Programs[i]) /\ ConstructsOnce(Programs[i])

-----------------------------------------------------------------------------
(* Properties *)

\* Two threads never access an object at once, and none after its lifetime, but
\* for the objects the program is known to be wrong about; and where it is wrong
\* in every execution, no interleaving hides it.
AccessesOrdered ==
    /\ undefined \subseteq program.unsafe
    /\ Finished(Main) => program.always \subseteq undefined

\* A thread that prints nothing has printed the empty sequence.
MayPrint(t) == LET prints == program.prints
               IN  IF t \in DOMAIN prints THEN prints[t] ELSE {<<>>}

\* When main() returns every thread has printed what its synchronization lets it
\* see: sums are complete where updates are atomic or locked, no value is stale
\* that was published by a release store, a mutex, a promise or a join, and each
\* anomaly of the weaker programs is one of those they list.
OutputPossible == Finished(Main) => \A t \in Threads : output[t] \in MayPrint(t)

\* A singleton is constructed once, and a stop callback executed once, whoever
\* comes first and whatever he sees without the lock.
ConstructedOnce == \A x \in program.once : Len(mem[x]) <= 2

\* Every program comes to an end of a kind it is known for: no other one hangs or
\* is terminated, and these do not get away.
EndsAsKnown == <>[](Ending \in program.ends)

\* main() joins its threads and returns.
MainReturns == <>[](Ending = "returns")
=============================================================================
