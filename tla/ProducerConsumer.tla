-------------------------- MODULE ProducerConsumer --------------------------
(***************************************************************************)
(* concurrency/producerConsumer.cpp: one coroutine yields data, another    *)
(* one, on a thread of its own, awaits the data and resumes the first.     *)
(* The flag data_ready_ is set by yield_value and reset only by            *)
(* await_suspend, which a ready awaiter never calls.  Data sets are their  *)
(* numbers; 0 is the empty one that ends the exchange.                     *)
(***************************************************************************)
EXTENDS Naturals, Sequences

CONSTANT NumData    \* how many data sets the producer yields before the empty one

VARIABLES produced,      \* co_yields executed
          data,          \* data_ in the promise, 0 when it is moved from
          dataReady,     \* data_ready_
          producer, consumer,   \* where the coroutines are
          received,      \* what the consumer has got
          main           \* where main() is

pvars == <<produced, data, dataReady, producer, consumer, received, main>>

\* main() calls producer(data), which starts eagerly; then it starts the thread.
Init == /\ produced = 0
        /\ data = 0
        /\ dataReady = FALSE
        /\ producer = "created"
        /\ consumer = "none"
        /\ received = <<>>
        /\ main = "produce"

\* The producer runs to its next co_yield, the last of which yields data_type{}.
YieldValue == /\ produced' = produced + 1
              /\ data' = IF produced < NumData THEN produced + 1 ELSE 0
              /\ producer' = "suspended"
              /\ dataReady' = TRUE

CallProducer == /\ main = "produce"
                /\ YieldValue
                /\ main' = "start"
                /\ UNCHANGED <<consumer, received>>

StartThread == /\ main = "start"
               /\ main' = "join"
               /\ consumer' = "await"
               /\ UNCHANGED <<produced, data, dataReady, producer, received>>

\* co_await audioDataResult: when await_ready() finds the flag set,
\* await_resume() moves the data out.  Otherwise await_suspend() spins until the
\* flag is set, which only a co_yield of the producer could do.
AwaitData == /\ consumer = "await"
             /\ IF dataReady
                  THEN /\ received' = Append(received, data)
                       /\ data' = 0
                       /\ consumer' = IF data = 0 THEN "freed" ELSE "resume"
                  ELSE consumer' = "spin" /\ UNCHANGED <<data, received>>
             /\ UNCHANGED <<produced, dataReady, producer, main>>

\* Mutant: the consumer goes on without resuming the producer.
SkipResume == /\ consumer = "resume"
              /\ consumer' = "await"
              /\ UNCHANGED <<produced, data, dataReady, producer, received, main>>

\* audioDataResult.resume(): unless the producer is done.
ResumeProducer == /\ consumer = "resume"
                  /\ IF produced <= NumData THEN YieldValue
                     ELSE producer' = "done" /\ UNCHANGED <<produced, data, dataReady>>
                  /\ consumer' = "await"
                  /\ UNCHANGED <<received, main>>

\* The thread ends with the destructor of audioRecorded; then the producer's.
JoinThread == /\ main = "join" /\ consumer = "freed"
              /\ producer' = "freed"
              /\ main' = "left"
              /\ UNCHANGED <<produced, data, dataReady, consumer, received>>

Next == CallProducer \/ StartThread \/ AwaitData \/ ResumeProducer \/ JoinThread

\* main() and its thread go on.
Spec == Init /\ [][Next]_pvars /\ WF_pvars(Next)
-----------------------------------------------------------------------------
(* Properties *)

\* Although the flag stays set, the consumer gets every data set once, in the
\* order of their production, and nothing that was moved from: it exits on the
\* producer's last data set and no other.
ReceivesAll == /\ \A i \in DOMAIN received : received[i] = IF i > NumData THEN 0 ELSE i
               /\ consumer = "freed" => Len(received) = NumData + 1

\* The consumer never comes to await_suspend(), which it would not leave.
NeverSpins == consumer # "spin"

\* What main() must come to.
Joined == main = "left"
=============================================================================
