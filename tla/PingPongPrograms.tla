-------------------------- MODULE PingPongPrograms --------------------------
(***************************************************************************)
(* The four programs of concurrency/ping_pong_performance_test and the     *)
(* exercise solved in conditionVariablePingPong.cpp, against the one game  *)
(* they play.  The initial state chooses the program; the variables the    *)
(* other programs do not have keep the value they start with.              *)
(***************************************************************************)
EXTENDS Naturals

CONSTANTS countlimit,
          MaxSpurious    \* bound: how many spurious wake-ups may happen

ASSUME PingPongAssumption == countlimit \in Nat \ {0} /\ MaxSpurious \in Nat

VARIABLES program,      \* the program that runs
          atomicBool,   \* PingPongAtomicBool
          flag,         \* PingPongAtomicFlags
          dataReady, owner, spurious,   \* the two with a condition variable
          signal,       \* PingPongSemaphore
          counter, pc   \* every program

variables == <<program, atomicBool, flag, dataReady, owner, spurious, signal,
               counter, pc>>

Bool      == INSTANCE PingPongAtomicBool
Flags     == INSTANCE PingPongAtomicFlags
CondVar   == INSTANCE PingPongConditionVariable
Semaphore == INSTANCE PingPongSemaphore
Exercise  == INSTANCE ConditionVariablePingPong WITH COUNTLIMIT <- countlimit

\* The value of a variable in the programs that do not have it.
Absent == "absent"

NoBool      == atomicBool = Absent
NoFlags     == flag = Absent
NoCondVar   == dataReady = Absent /\ owner = Absent /\ spurious = Absent
NoSemaphore == signal = Absent

Init == \/ program = "atomicBool" /\ Bool!Init /\ NoFlags /\ NoCondVar /\ NoSemaphore
        \/ program = "atomicFlags" /\ Flags!Init /\ NoBool /\ NoCondVar /\ NoSemaphore
        \/ program = "conditionVariable" /\ CondVar!Init /\ NoBool /\ NoFlags /\ NoSemaphore
        \/ program = "semaphore" /\ Semaphore!Init /\ NoBool /\ NoFlags /\ NoCondVar
        \/ program = "exercise" /\ Exercise!Init /\ NoBool /\ NoFlags /\ NoSemaphore

\* Whatever the program that runs does not have stays absent.
Others(vs) == UNCHANGED <<program, vs>>

BoolOthers      == Others(<<flag, dataReady, owner, spurious, signal>>)
FlagsOthers     == Others(<<atomicBool, dataReady, owner, spurious, signal>>)
CondVarOthers   == Others(<<atomicBool, flag, signal>>)
SemaphoreOthers == Others(<<atomicBool, flag, dataReady, owner, spurious>>)

Next == \/ program = "atomicBool" /\ Bool!Next /\ BoolOthers
        \/ program = "atomicFlags" /\ Flags!Next /\ FlagsOthers
        \/ program = "conditionVariable" /\ CondVar!Next /\ CondVarOthers
        \/ program = "semaphore" /\ Semaphore!Next /\ SemaphoreOthers
        \/ program = "exercise" /\ Exercise!Next /\ CondVarOthers

\* The step of one thread of the program that runs.
ThreadStep(t) ==
    \/ program = "atomicBool" /\ t = "ping" /\ Bool!PingStep /\ BoolOthers
    \/ program = "atomicBool" /\ t = "pong" /\ Bool!PongStep /\ BoolOthers
    \/ program = "atomicFlags" /\ t \in Flags!Players
          /\ Flags!PlayerStep(t) /\ FlagsOthers
    \/ program = "conditionVariable" /\ t \in CondVar!Players
          /\ CondVar!PlayerStep(t) /\ CondVarOthers
    \/ program = "semaphore" /\ t \in Semaphore!Players
          /\ Semaphore!PlayerStep(t) /\ SemaphoreOthers
    \/ program = "exercise" /\ t \in Exercise!Threads
          /\ Exercise!ThreadStep(t) /\ CondVarOthers

Threads == {"ping", "pong", "setTrue", "setFalse"}

\* As in the modules of the programs: the scheduler runs both threads.
Spec == /\ Init /\ [][Next]_variables
        /\ \A t \in Threads : WF_variables(ThreadStep(t))
-----------------------------------------------------------------------------
(* Properties *)

\* Never may both threads move.  With two flags there is one ball, and with two
\* semaphores one serve: never two, which would release a counting_semaphore<1>
\* past its maximum, and never none.  With one flag, who has passed his wait()
\* and not yet flipped it has the turn, or holds the mutex of the condition
\* variable.
OneMover == /\ program = "atomicBool" => Bool!OneStores
            /\ program = "atomicFlags" => Flags!OneBall
            /\ program = "conditionVariable" => CondVar!OneWrites
            /\ program = "semaphore" => Semaphore!OneServe
            /\ program = "exercise" => Exercise!OneInside

Game == INSTANCE PingPong
    WITH turn <- CASE program = "atomicBool" -> Bool!Turn
                   [] program = "atomicFlags" -> Flags!Turn
                   [] program = "conditionVariable" -> CondVar!Turn
                   [] program = "semaphore" -> Semaphore!Turn
                   [] program = "exercise" -> Exercise!Turn,
         hits <- CASE program = "atomicBool" -> Bool!Hits
                   [] program = "atomicFlags" -> Flags!Hits
                   [] program = "conditionVariable" -> CondVar!Hits
                   [] program = "semaphore" -> Semaphore!Hits
                   [] program = "exercise" -> Exercise!Hits

\* In every program the two threads take turns, and the game does not stop
\* before the limit is reached, however the waits and wake-ups interleave.
TakesTurns == Game!Spec

\* With two flags or two semaphores main() always joins both threads: ping
\* counts the round before it does what lets pong look at the count.  Elsewhere
\* one thread may wait for ever, but never ping, nor, in the exercise, the one
\* with the stricter test.
Returns == <>(IF program \in {"atomicFlags", "semaphore"}
                THEN \A t \in DOMAIN pc : pc[t] = "done"
                ELSE \E t \in {"ping", "setFalse"} \cap DOMAIN pc : pc[t] = "done")
=============================================================================
