---------------------- MODULE PingPongPrograms_proofs ----------------------
(***************************************************************************)
(* Proofs about the ping-pong programs and the exercise, for any number of *)
(* rounds and of spurious wake-ups: there is one ball, or one serve, and   *)
(* every program plays the game of module PingPong.  Each program has an   *)
(* invariant of its own, and plays the game with its own turn and hits.    *)
(***************************************************************************)
EXTENDS PingPongPrograms, TLAPS

BoolGame      == INSTANCE PingPong WITH turn <- Bool!Turn, hits <- Bool!Hits
FlagsGame     == INSTANCE PingPong WITH turn <- Flags!Turn, hits <- Flags!Hits
CondVarGame   == INSTANCE PingPong WITH turn <- CondVar!Turn, hits <- CondVar!Hits
SemaphoreGame == INSTANCE PingPong WITH turn <- Semaphore!Turn, hits <- Semaphore!Hits
ExerciseGame  == INSTANCE PingPong WITH turn <- Exercise!Turn, hits <- Exercise!Hits

-----------------------------------------------------------------------------
(* One atomic flag *)

BoolTypes == /\ atomicBool \in BOOLEAN
             /\ counter \in Nat
             /\ pc \in [{"ping", "pong"} ->
                           {"loop", "wait", "blocked", "store", "count", "notify", "done"}]

\* Who is about to store has read the value it waits for, and nobody but the
\* other one changes it; ping still sees the counter it has tested.
BoolTurns == /\ pc["ping"] = "store" => atomicBool = FALSE
             /\ pc["pong"] = "store" => atomicBool = TRUE
             /\ pc["ping"] \in {"wait", "blocked", "store"} => counter <= countlimit
             /\ pc["pong"] # "count"

BoolInv == BoolTypes /\ BoolTurns

LEMMA BoolInit == ASSUME Bool!Init PROVE BoolInv /\ BoolGame!Init
<1>1. BoolInv
  BY DEF Bool!Init, BoolInv, BoolTypes, BoolTurns
<1>2. BoolGame!Init
  BY DEF Bool!Init, BoolGame!Init, Bool!Turn, Bool!Hits
<1> QED
  BY <1>1, <1>2

LEMMA BoolKeeps == ASSUME BoolInv, Bool!Next PROVE BoolInv'
<1> USE PingPongAssumption DEF BoolInv, BoolTypes, BoolTurns, Bool!Goto, Bool!Old
<1>1. ASSUME NEW t \in {"ping", "pong"},
             Bool!Loop(t) \/ Bool!WaitBlocks(t) \/ Bool!WakesUnnotified(t)
      PROVE  BoolInv'
  BY <1>1 DEF Bool!Loop, Bool!WaitBlocks, Bool!WakesUnnotified
<1>2. ASSUME NEW t \in {"ping", "pong"}, Bool!WaitPasses(t) PROVE BoolInv'
  BY <1>2 DEF Bool!WaitPasses
<1>3. CASE Bool!StorePing \/ Bool!StorePong
  BY <1>3 DEF Bool!StorePing, Bool!StorePong
<1>4. CASE Bool!Count
  BY <1>4 DEF Bool!Count
<1>5. ASSUME NEW t \in {"ping", "pong"}, Bool!Notify(t) PROVE BoolInv'
  BY <1>5 DEF Bool!Notify, Bool!Other
<1> QED
  BY <1>1, <1>2, <1>3, <1>4, <1>5 DEF Bool!Next, Bool!PingStep, Bool!PongStep

\* Storing is playing.
LEMMA BoolPlays == ASSUME BoolInv, Bool!Next
                   PROVE  [BoolGame!Next]_(BoolGame!gvars)
<1> USE PingPongAssumption DEF BoolInv, BoolTypes, BoolTurns, Bool!Goto, Bool!Turn,
        Bool!Hits, BoolGame!gvars
<1>1. ASSUME NEW t \in {"ping", "pong"}, \/ Bool!Loop(t) \/ Bool!WaitBlocks(t)
                                         \/ Bool!WaitPasses(t) \/ Bool!WakesUnnotified(t)
      PROVE  UNCHANGED BoolGame!gvars
  BY <1>1 DEF Bool!Loop, Bool!WaitPasses, Bool!WaitBlocks, Bool!WakesUnnotified
<1>2. CASE Bool!StorePing
  BY <1>2 DEF Bool!StorePing, BoolGame!Next, BoolGame!Ping
<1>3. CASE Bool!StorePong
  BY <1>3 DEF Bool!StorePong, BoolGame!Next, BoolGame!Pong
<1>4. CASE Bool!Count
  BY <1>4 DEF Bool!Count
<1>5. ASSUME NEW t \in {"ping", "pong"}, Bool!Notify(t) PROVE UNCHANGED BoolGame!gvars
  BY <1>5 DEF Bool!Notify, Bool!Other
<1> QED
  BY <1>1, <1>2, <1>3, <1>4, <1>5 DEF Bool!Next, Bool!PingStep, Bool!PongStep

-----------------------------------------------------------------------------
(* Two atomic flags *)

FlagsTypes == /\ flag \in [Flags!Players -> BOOLEAN]
              /\ counter \in Nat
              /\ pc \in [Flags!Players -> {"loop", "wait", "blocked", "clear", "count", "set",
                                           "notify", "done"}]

Holds(t) == flag[t]
Plays(t) == pc[t] \in {"count", "set"}

\* The ball is in one place, and who is about to clear his flag has it there.
OneBallExactly == /\ Holds("ping") => ~Holds("pong") /\ ~Plays("ping") /\ ~Plays("pong")
                  /\ Holds("pong") => ~Plays("ping") /\ ~Plays("pong")
                  /\ Plays("ping") => ~Plays("pong")
                  /\ Holds("ping") \/ Holds("pong") \/ Plays("ping") \/ Plays("pong")
                  /\ \A t \in Flags!Players : pc[t] = "clear" => Holds(t)

\* Nobody but ping raises the counter, so it is still what ping has seen.
FlagsTurns == /\ pc["ping"] \in {"wait", "blocked", "clear", "count"} => counter <= countlimit
              /\ pc["pong"] # "count"

FlagsInv == FlagsTypes /\ OneBallExactly /\ FlagsTurns

LEMMA FlagsInit == ASSUME Flags!Init PROVE FlagsInv /\ FlagsGame!Init
<1>1. FlagsInv
  BY PingPongAssumption DEF Flags!Init, FlagsInv, FlagsTypes, OneBallExactly, Holds, Plays,
      FlagsTurns, Flags!Players
<1>2. FlagsGame!Init
  BY DEF Flags!Init, FlagsGame!Init, Flags!Turn, Flags!Hits, Flags!Players
<1> QED
  BY <1>1, <1>2

LEMMA FlagsKeeps == ASSUME FlagsInv, Flags!Next PROVE FlagsInv'
<1> USE DEF FlagsInv, FlagsTypes, OneBallExactly, Holds, Plays, FlagsTurns, Flags!Goto,
        Flags!Players
<1>1. ASSUME NEW t \in Flags!Players, Flags!Loop(t) PROVE FlagsInv'
  BY <1>1 DEF Flags!Loop
<1>2. ASSUME NEW t \in Flags!Players, Flags!WaitPasses(t) PROVE FlagsInv'
  BY <1>2 DEF Flags!WaitPasses
<1>3. ASSUME NEW t \in Flags!Players, Flags!WaitBlocks(t) PROVE FlagsInv'
  BY <1>3 DEF Flags!WaitBlocks
<1>4. ASSUME NEW t \in Flags!Players, Flags!WakesUnnotified(t) PROVE FlagsInv'
  BY <1>4 DEF Flags!WakesUnnotified
<1>5. ASSUME NEW t \in Flags!Players, Flags!Clear(t) PROVE FlagsInv'
  BY <1>5 DEF Flags!Clear
<1>6. CASE Flags!Count
  BY <1>6 DEF Flags!Count
<1>7. ASSUME NEW t \in Flags!Players, Flags!Set(t) PROVE FlagsInv'
  BY <1>7 DEF Flags!Set, Flags!Other
<1>8. ASSUME NEW t \in Flags!Players, Flags!Notify(t) PROVE FlagsInv'
  BY <1>8 DEF Flags!Notify, Flags!Other
<1>9. CASE Flags!Joined
  BY <1>9 DEF Flags!Joined, Flags!vars
<1> QED
  BY <1>1, <1>2, <1>3, <1>4, <1>5, <1>6, <1>7, <1>8, <1>9 DEF Flags!Next, Flags!PlayerStep

LEMMA OneBallNow == ASSUME FlagsInv PROVE Flags!OneBall
<1> USE DEF FlagsInv, FlagsTypes, OneBallExactly, Holds, Plays, Flags!Players, Flags!OneBall
<1>1. CASE Plays("ping") \/ Plays("pong")
  BY <1>1
<1>2. CASE ~Plays("ping") /\ ~Plays("pong")
  BY <1>2
<1> QED
  BY <1>1, <1>2

\* Clearing one's flag is playing: every step of a thread is a step of the game or
\* none.
LEMMA FlagsPlays == ASSUME FlagsInv, Flags!Next
                    PROVE  [FlagsGame!Next]_(FlagsGame!gvars)
<1> USE DEF FlagsInv, FlagsTypes, OneBallExactly, Holds, Plays, FlagsTurns, Flags!Goto,
        Flags!Players, Flags!Turn, Flags!Hits, FlagsGame!gvars
<1>1. ASSUME NEW t \in Flags!Players,
             Flags!Loop(t) \/ Flags!WaitPasses(t) \/ Flags!WaitBlocks(t) \/ Flags!WakesUnnotified(t)
      PROVE  UNCHANGED FlagsGame!gvars
  BY <1>1 DEF Flags!Loop, Flags!WaitPasses, Flags!WaitBlocks, Flags!WakesUnnotified
<1>2. CASE Flags!Clear("ping")
  BY <1>2 DEF Flags!Clear, FlagsGame!Next, FlagsGame!Ping
<1>3. CASE Flags!Clear("pong")
  BY <1>3 DEF Flags!Clear, FlagsGame!Next, FlagsGame!Pong
<1>4. CASE Flags!Count
  BY <1>4 DEF Flags!Count
<1>5. ASSUME NEW t \in Flags!Players, Flags!Set(t) PROVE UNCHANGED FlagsGame!gvars
  BY <1>5 DEF Flags!Set, Flags!Other
<1>6. ASSUME NEW t \in Flags!Players, Flags!Notify(t) PROVE UNCHANGED FlagsGame!gvars
  BY <1>6 DEF Flags!Notify, Flags!Other
<1>7. CASE Flags!Joined
  BY <1>7 DEF Flags!Joined, Flags!vars
<1> QED
  BY <1>1, <1>2, <1>3, <1>4, <1>5, <1>6, <1>7 DEF Flags!Next, Flags!PlayerStep

-----------------------------------------------------------------------------
(* A condition variable per direction *)

CondVarTypes == /\ dataReady \in BOOLEAN
                /\ owner \in {"none", "ping", "pong"}
                /\ counter \in Nat
                /\ pc \in [{"ping", "pong"} -> {"loop", "lock", "check", "blocked", "write", "unlock",
                                                "count", "notify", "done"}]

\* The owner of the mutex is in its critical section, alone, and writes in its
\* turn; ping still sees the counter it has tested.
CondVarTurns == /\ \A t \in {"ping", "pong"} : /\ pc[t] \in {"check", "write", "unlock"} => owner = t
                                               /\ pc[t] = "write" => dataReady = (t = "pong")
                /\ pc["ping"] \in {"lock", "check", "blocked", "write"} => counter <= countlimit
                /\ pc["pong"] # "count"

CondVarInv == CondVarTypes /\ CondVarTurns

LEMMA CondVarInit == ASSUME CondVar!Init PROVE CondVarInv /\ CondVarGame!Init
<1>1. CondVarInv
  BY DEF CondVar!Init, CondVar!Players, CondVarInv, CondVarTypes, CondVarTurns
<1>2. CondVarGame!Init
  BY DEF CondVar!Init, CondVar!Players, CondVarGame!Init, CondVar!Turn, CondVar!Hits
<1> QED
  BY <1>1, <1>2

LEMMA CondVarKeeps == ASSUME CondVarInv, CondVar!Next PROVE CondVarInv'
<1> USE PingPongAssumption DEF CondVarInv, CondVarTypes, CondVarTurns, CondVar!Goto,
        CondVar!MyTurn
<1>1. ASSUME NEW t \in {"ping", "pong"}, CondVar!Loop(t) \/ CondVar!Lock(t) PROVE CondVarInv'
  BY <1>1 DEF CondVar!Loop, CondVar!Lock
<1>2. ASSUME NEW t \in {"ping", "pong"}, CondVar!WaitPasses(t) PROVE CondVarInv'
  BY <1>2 DEF CondVar!WaitPasses
<1>3. ASSUME NEW t \in {"ping", "pong"}, CondVar!WaitBlocks(t) \/ CondVar!SpuriousWake(t)
      PROVE  CondVarInv'
  BY <1>3 DEF CondVar!WaitBlocks, CondVar!SpuriousWake
<1>4. ASSUME NEW t \in {"ping", "pong"}, CondVar!Write(t) PROVE CondVarInv'
  BY <1>4 DEF CondVar!Write
<1>5. ASSUME NEW t \in {"ping", "pong"}, CondVar!Unlock(t) PROVE CondVarInv'
  BY <1>5 DEF CondVar!Unlock
<1>6. CASE CondVar!Count
  BY <1>6 DEF CondVar!Count
<1>7. ASSUME NEW t \in {"ping", "pong"}, CondVar!Notify(t) PROVE CondVarInv'
  BY <1>7 DEF CondVar!Notify, CondVar!Other
<1> QED
  BY <1>1, <1>2, <1>3, <1>4, <1>5, <1>6, <1>7 DEF CondVar!Next, CondVar!PlayerStep,
      CondVar!Players

\* Writing dataReady is playing.
LEMMA CondVarPlays == ASSUME CondVarInv, CondVar!Next
                      PROVE  [CondVarGame!Next]_(CondVarGame!gvars)
<1> USE PingPongAssumption DEF CondVarInv, CondVarTypes, CondVarTurns, CondVar!Goto,
        CondVar!Turn,
            CondVar!Hits, CondVarGame!gvars
<1>1. ASSUME NEW t \in {"ping", "pong"}, \/ CondVar!Loop(t) \/ CondVar!Lock(t) \/ CondVar!WaitPasses(t)
                                         \/ CondVar!WaitBlocks(t) \/ CondVar!SpuriousWake(t)
      PROVE  UNCHANGED CondVarGame!gvars
  BY <1>1 DEF CondVar!Loop, CondVar!Lock, CondVar!WaitPasses, CondVar!WaitBlocks,
      CondVar!SpuriousWake
<1>2. CASE CondVar!Write("ping")
  <2>1. /\ pc["ping"] = "write" /\ pc' = [pc EXCEPT !["ping"] = "unlock"]
        /\ dataReady' = ("ping" = "ping") /\ counter' = counter
    BY <1>2, Zenon DEF CondVar!Write
  <2>2. CondVar!Turn = "ping" /\ CondVar!Turn' = "pong" /\ CondVar!Hits = counter
    <3>1. dataReady = ("ping" = "pong")
      BY <2>1
    <3>2. ~dataReady /\ dataReady'
      BY <2>1, <3>1
    <3>3. CondVar!Hits = counter
      BY <2>1
    <3> QED
      BY <3>2, <3>3
  <2>3. CondVar!Hits' = counter + 1
    BY <2>1
  <2> QED
    BY <2>1, <2>2, <2>3 DEF CondVarGame!Next, CondVarGame!Ping
<1>3. CASE CondVar!Write("pong")
  <2>1. /\ pc["pong"] = "write" /\ pc' = [pc EXCEPT !["pong"] = "unlock"]
        /\ dataReady' = FALSE /\ counter' = counter
    BY <1>3 DEF CondVar!Write
  <2>2. CondVar!Turn = "pong" /\ CondVar!Turn' = "ping" /\ CondVar!Hits' = CondVar!Hits
    BY <2>1
  <2> QED
    BY <2>2 DEF CondVarGame!Next, CondVarGame!Pong
<1>4. ASSUME NEW t \in {"ping", "pong"}, CondVar!Unlock(t) PROVE UNCHANGED CondVarGame!gvars
  BY <1>4 DEF CondVar!Unlock
<1>5. CASE CondVar!Count
  BY <1>5 DEF CondVar!Count
<1>6. ASSUME NEW t \in {"ping", "pong"}, CondVar!Notify(t) PROVE UNCHANGED CondVarGame!gvars
  BY <1>6 DEF CondVar!Notify, CondVar!Other
<1> QED
  BY <1>1, <1>2, <1>3, <1>4, <1>5, <1>6 DEF CondVar!Next, CondVar!PlayerStep,
      CondVar!Players

-----------------------------------------------------------------------------
(* The exercise *)

ExerciseTypes == /\ dataReady \in BOOLEAN
                 /\ owner \in {"none", "setTrue", "setFalse"}
                 /\ counter \in Nat
                 /\ pc \in [{"setTrue", "setFalse"} -> {"loop", "lock", "check", "blocked", "notify",
                                                        "unlock", "done"}]

\* The owner of the mutex is in its critical section, alone; setTrue still sees the
\* counter it has tested.
ExerciseTurns == /\ \A t \in {"setTrue", "setFalse"} :
                        pc[t] \in {"check", "notify", "unlock"} => owner = t
                 /\ pc["setTrue"] \in {"lock", "check", "blocked"} => counter <= countlimit

ExerciseInv == ExerciseTypes /\ ExerciseTurns

LEMMA ExerciseInit == ASSUME Exercise!Init PROVE ExerciseInv /\ ExerciseGame!Init
<1>1. ExerciseInv
  BY DEF Exercise!Init, Exercise!Threads, ExerciseInv, ExerciseTypes, ExerciseTurns
<1>2. ExerciseGame!Init
  BY DEF Exercise!Init, ExerciseGame!Init, Exercise!Turn, Exercise!Hits
<1> QED
  BY <1>1, <1>2

LEMMA ExerciseKeeps == ASSUME ExerciseInv, Exercise!Next PROVE ExerciseInv'
<1> USE PingPongAssumption DEF ExerciseInv, ExerciseTypes, ExerciseTurns, Exercise!Goto
<1>1. ASSUME NEW t \in {"setTrue", "setFalse"}, Exercise!Loop(t) PROVE ExerciseInv'
  BY <1>1 DEF Exercise!Loop, Exercise!Again
<1>2. ASSUME NEW t \in {"setTrue", "setFalse"}, \/ Exercise!Lock(t) \/ Exercise!Block(t)
                                                \/ Exercise!SpuriousWake(t) \/ Exercise!Unlock(t)
      PROVE  ExerciseInv'
  BY <1>2 DEF Exercise!Lock, Exercise!Block, Exercise!SpuriousWake, Exercise!Unlock
<1>3. ASSUME NEW t \in {"setTrue", "setFalse"}, Exercise!Flip(t) PROVE ExerciseInv'
  BY <1>3 DEF Exercise!Flip
<1>4. ASSUME NEW t \in {"setTrue", "setFalse"}, Exercise!Notify(t) PROVE ExerciseInv'
  BY <1>4 DEF Exercise!Notify, Exercise!Other
<1> QED
  BY <1>1, <1>2, <1>3, <1>4 DEF Exercise!Next, Exercise!ThreadStep, Exercise!Threads

\* Flipping dataReady is playing.
LEMMA ExercisePlays == ASSUME ExerciseInv, Exercise!Next
                       PROVE  [ExerciseGame!Next]_(ExerciseGame!gvars)
<1> USE PingPongAssumption DEF ExerciseInv, ExerciseTypes, ExerciseTurns, Exercise!Goto,
        Exercise!Turn,
            Exercise!Hits, ExerciseGame!gvars
<1>1. ASSUME NEW t \in {"setTrue", "setFalse"}, \/ Exercise!Loop(t) \/ Exercise!Lock(t) \/ Exercise!Block(t)
                                                \/ Exercise!SpuriousWake(t) \/ Exercise!Unlock(t)
                                                \/ Exercise!Notify(t)
      PROVE  UNCHANGED ExerciseGame!gvars
  BY <1>1 DEF Exercise!Loop, Exercise!Lock, Exercise!Block, Exercise!SpuriousWake,
      Exercise!Unlock, Exercise!Notify
<1>2. CASE Exercise!Flip("setTrue")
  BY <1>2 DEF Exercise!Flip, Exercise!MyTurn, ExerciseGame!Next, ExerciseGame!Ping
<1>3. CASE Exercise!Flip("setFalse")
  BY <1>3 DEF Exercise!Flip, Exercise!MyTurn, ExerciseGame!Next, ExerciseGame!Pong
<1> QED
  BY <1>1, <1>2, <1>3 DEF Exercise!Next, Exercise!ThreadStep, Exercise!Threads

-----------------------------------------------------------------------------
(* Two semaphores *)

SemaphoreTypes == /\ signal \in [Semaphore!Players -> Nat]
                  /\ counter \in Nat
                  /\ pc \in [Semaphore!Players -> {"loop", "acquire", "count", "release", "done"}]

\* Nobody but ping raises the counter, so it is still what ping has seen.
SemaphoreTurns == /\ pc["ping"] \in {"acquire", "count"} => counter <= countlimit
                  /\ pc["pong"] # "count"

SemaphoreInv == SemaphoreTypes /\ Semaphore!OneServe /\ SemaphoreTurns

LEMMA SemaphoreInit == ASSUME Semaphore!Init PROVE SemaphoreInv /\ SemaphoreGame!Init
<1>1. SemaphoreInv
  BY PingPongAssumption DEF Semaphore!Init, SemaphoreInv, SemaphoreTypes,
      Semaphore!OneServe, SemaphoreTurns, Semaphore!Players
<1>2. SemaphoreGame!Init
  BY DEF Semaphore!Init, SemaphoreGame!Init, Semaphore!Turn, Semaphore!Hits,
      Semaphore!Players
<1> QED
  BY <1>1, <1>2

LEMMA SemaphoreKeeps == ASSUME SemaphoreInv, Semaphore!Next PROVE SemaphoreInv'
<1> USE DEF SemaphoreInv, SemaphoreTypes, Semaphore!OneServe, SemaphoreTurns,
        Semaphore!Goto, Semaphore!Players
<1>1. ASSUME NEW t \in Semaphore!Players, Semaphore!Loop(t) PROVE SemaphoreInv'
  BY <1>1 DEF Semaphore!Loop
<1>2. ASSUME NEW t \in Semaphore!Players, Semaphore!Acquire(t) PROVE SemaphoreInv'
  <2>1. CASE t = "ping"
    <3>1. /\ pc' = [pc EXCEPT !["ping"] = "count"] /\ pc["ping"] = "acquire"
          /\ signal["ping"] > 0 /\ signal' = [signal EXCEPT !["ping"] = @ - 1] /\ counter' = counter
      BY <1>2, <2>1 DEF Semaphore!Acquire
    <3>2. /\ pc'["ping"] = "count" /\ pc'["pong"] = pc["pong"]
          /\ signal'["ping"] = signal["ping"] - 1 /\ signal'["pong"] = signal["pong"]
      BY <3>1
    <3>3. signal["ping"] - 1 \in Nat
      BY <3>1
    <3>4. signal' \in [Semaphore!Players -> Nat]
      BY <3>1, <3>3
    <3>5. SemaphoreTypes'
      BY <3>1, <3>4
    <3>6. SemaphoreTurns'
      BY <3>1, <3>2
    <3>7. Semaphore!OneServe'
      BY <3>1, <3>2
    <3> QED
      BY <3>5, <3>6, <3>7
  <2>2. CASE t = "pong"
    <3>1. /\ pc' = [pc EXCEPT !["pong"] = "release"] /\ pc["pong"] = "acquire"
          /\ signal["pong"] > 0 /\ signal' = [signal EXCEPT !["pong"] = @ - 1] /\ counter' = counter
      BY <1>2, <2>2 DEF Semaphore!Acquire
    <3>2. /\ pc'["pong"] = "release" /\ pc'["ping"] = pc["ping"]
          /\ signal'["pong"] = signal["pong"] - 1 /\ signal'["ping"] = signal["ping"]
      BY <3>1
    <3>3. signal["pong"] - 1 \in Nat
      BY <3>1
    <3>4. signal' \in [Semaphore!Players -> Nat]
      BY <3>1, <3>3
    <3>5. SemaphoreTypes'
      BY <3>1, <3>4
    <3>6. SemaphoreTurns'
      BY <3>1, <3>2
    <3>7. Semaphore!OneServe'
      BY <3>1, <3>2
    <3> QED
      BY <3>5, <3>6, <3>7
  <2> QED
    BY <2>1, <2>2
<1>3. CASE Semaphore!Count
  BY <1>3 DEF Semaphore!Count
<1>4. ASSUME NEW t \in Semaphore!Players, Semaphore!Release(t) PROVE SemaphoreInv'
  <2>1. CASE t = "ping"
    BY <1>4, <2>1 DEF Semaphore!Release, Semaphore!Other
  <2>2. CASE t = "pong"
    BY <1>4, <2>2 DEF Semaphore!Release, Semaphore!Other
  <2> QED
    BY <2>1, <2>2
<1>5. CASE Semaphore!Joined
  BY <1>5 DEF Semaphore!Joined, Semaphore!vars
<1> QED
  BY <1>1, <1>2, <1>3, <1>4, <1>5 DEF Semaphore!Next, Semaphore!PlayerStep

\* Acquiring is playing: every step of a thread is a step of the game or none.
LEMMA SemaphorePlays == ASSUME SemaphoreInv, Semaphore!Next
                        PROVE  [SemaphoreGame!Next]_(SemaphoreGame!gvars)
<1> USE DEF SemaphoreInv, SemaphoreTypes, Semaphore!OneServe, SemaphoreTurns,
        Semaphore!Goto, Semaphore!Players, Semaphore!Turn, Semaphore!Hits,
        SemaphoreGame!gvars
<1>1. ASSUME NEW t \in Semaphore!Players, Semaphore!Loop(t) PROVE UNCHANGED SemaphoreGame!gvars
  BY <1>1 DEF Semaphore!Loop
<1>2. CASE Semaphore!Acquire("ping")
  BY <1>2 DEF Semaphore!Acquire, SemaphoreGame!Next, SemaphoreGame!Ping
<1>3. CASE Semaphore!Acquire("pong")
  BY <1>3 DEF Semaphore!Acquire, SemaphoreGame!Next, SemaphoreGame!Pong
<1>4. CASE Semaphore!Count
  BY <1>4 DEF Semaphore!Count
<1>5. ASSUME NEW t \in Semaphore!Players, Semaphore!Release(t) PROVE UNCHANGED SemaphoreGame!gvars
  BY <1>5 DEF Semaphore!Release, Semaphore!Other
<1>6. CASE Semaphore!Joined
  BY <1>6 DEF Semaphore!Joined, Semaphore!vars
<1> QED
  BY <1>1, <1>2, <1>3, <1>4, <1>5, <1>6 DEF Semaphore!Next, Semaphore!PlayerStep

-----------------------------------------------------------------------------
(* Whichever program runs *)

Inv == /\ program \in {"atomicBool", "atomicFlags", "conditionVariable", "semaphore", "exercise"}
       /\ program = "atomicBool" => BoolInv
       /\ program = "atomicFlags" => FlagsInv
       /\ program = "conditionVariable" => CondVarInv
       /\ program = "semaphore" => SemaphoreInv
       /\ program = "exercise" => ExerciseInv

LEMMA Invariance == Spec => []Inv
<1>1. Init => Inv
  BY BoolInit, FlagsInit, CondVarInit, SemaphoreInit, ExerciseInit DEF Init, Inv
<1>2. Inv /\ [Next]_variables => Inv'
  <2> SUFFICES ASSUME Inv, [Next]_variables PROVE Inv'
    OBVIOUS
  <2> USE DEF Inv, Others
  <2>1. CASE program = "atomicBool" /\ Bool!Next /\ BoolOthers
    BY <2>1, BoolKeeps DEF BoolOthers
  <2>2. CASE program = "atomicFlags" /\ Flags!Next /\ FlagsOthers
    BY <2>2, FlagsKeeps DEF FlagsOthers
  <2>3. CASE program = "conditionVariable" /\ CondVar!Next /\ CondVarOthers
    BY <2>3, CondVarKeeps DEF CondVarOthers
  <2>4. CASE program = "semaphore" /\ Semaphore!Next /\ SemaphoreOthers
    BY <2>4, SemaphoreKeeps DEF SemaphoreOthers
  <2>5. CASE program = "exercise" /\ Exercise!Next /\ CondVarOthers
    BY <2>5, ExerciseKeeps DEF CondVarOthers
  <2>6. CASE UNCHANGED variables
    BY <2>6 DEF variables, BoolInv, BoolTypes, BoolTurns, FlagsInv, FlagsTypes,
        OneBallExactly, Holds,
        Plays, FlagsTurns, Flags!Players, CondVarInv, CondVarTypes, CondVarTurns, SemaphoreInv,
        SemaphoreTypes, SemaphoreTurns, Semaphore!OneServe, Semaphore!Players, ExerciseInv,
        ExerciseTypes, ExerciseTurns
  <2> QED
    BY <2>1, <2>2, <2>3, <2>4, <2>5, <2>6 DEF Next
<1> QED
  BY <1>1, <1>2, PTL DEF Spec

\* For any number of rounds, in each of the five programs, never may both threads
\* move: two flags hold one ball, two semaphores one serve, so that no release()
\* exceeds the maximum of counting_semaphore<1>, and who is about to flip the one
\* flag has the turn or the mutex.
THEOREM OneMoverOnly == Spec => []OneMover
<1>1. Inv => OneMover
  <2> SUFFICES ASSUME Inv PROVE OneMover
    OBVIOUS
  <2>1. program = "atomicBool" => Bool!OneStores
    BY DEF Inv, BoolInv, BoolTypes, BoolTurns, Bool!OneStores, Bool!Turn
  <2>2. program = "conditionVariable" => CondVar!OneWrites
    BY DEF Inv, CondVarInv, CondVarTypes, CondVarTurns, CondVar!OneWrites, CondVar!Turn,
           CondVar!Players
  <2>3. program = "exercise" => Exercise!OneInside
    BY DEF Inv, ExerciseInv, ExerciseTurns, Exercise!OneInside, Exercise!Threads
  <2> QED
    BY <2>1, <2>2, <2>3, OneBallNow DEF Inv, SemaphoreInv, OneMover
<1> QED
  BY <1>1, Invariance, PTL

\* The turn and the hits of the program that runs.
LEMMA SameGame ==
    /\ program = "atomicBool" => (Game!Init <=> BoolGame!Init)
    /\ program = "atomicFlags" => (Game!Init <=> FlagsGame!Init)
    /\ program = "conditionVariable" => (Game!Init <=> CondVarGame!Init)
    /\ program = "semaphore" => (Game!Init <=> SemaphoreGame!Init)
    /\ program = "exercise" => (Game!Init <=> ExerciseGame!Init)
BY DEF Game!Init, BoolGame!Init, FlagsGame!Init, CondVarGame!Init, SemaphoreGame!Init,
    ExerciseGame!Init

LEMMA StepPlays == ASSUME Inv, [Next]_variables PROVE [Game!Next]_(Game!gvars)
<1> USE DEF Inv, Others, Game!Next, Game!Ping, Game!Pong, Game!gvars
<1>1. CASE program = "atomicBool" /\ Bool!Next /\ BoolOthers
  <2>1. program = "atomicBool" /\ program' = "atomicBool"
    BY <1>1 DEF BoolOthers
  <2>2. [BoolGame!Next]_(BoolGame!gvars)
    BY <1>1, BoolPlays
  <2> QED
    BY <2>1, <2>2 DEF BoolGame!Next, BoolGame!Ping, BoolGame!Pong, BoolGame!gvars
<1>2. CASE program = "atomicFlags" /\ Flags!Next /\ FlagsOthers
  <2>1. program = "atomicFlags" /\ program' = "atomicFlags"
    BY <1>2 DEF FlagsOthers
  <2>2. [FlagsGame!Next]_(FlagsGame!gvars)
    BY <1>2, FlagsPlays
  <2> QED
    BY <2>1, <2>2 DEF FlagsGame!Next, FlagsGame!Ping, FlagsGame!Pong, FlagsGame!gvars
<1>3. CASE program = "conditionVariable" /\ CondVar!Next /\ CondVarOthers
  <2>1. program = "conditionVariable" /\ program' = "conditionVariable"
    BY <1>3 DEF CondVarOthers
  <2>2. [CondVarGame!Next]_(CondVarGame!gvars)
    BY <1>3, CondVarPlays
  <2> QED
    BY <2>1, <2>2 DEF CondVarGame!Next, CondVarGame!Ping, CondVarGame!Pong,
        CondVarGame!gvars
<1>4. CASE program = "semaphore" /\ Semaphore!Next /\ SemaphoreOthers
  <2>1. program = "semaphore" /\ program' = "semaphore"
    BY <1>4 DEF SemaphoreOthers
  <2>2. [SemaphoreGame!Next]_(SemaphoreGame!gvars)
    BY <1>4, SemaphorePlays
  <2> QED
    BY <2>1, <2>2 DEF SemaphoreGame!Next, SemaphoreGame!Ping, SemaphoreGame!Pong,
        SemaphoreGame!gvars
<1>5. CASE program = "exercise" /\ Exercise!Next /\ CondVarOthers
  <2>1. program = "exercise" /\ program' = "exercise"
    BY <1>5 DEF CondVarOthers
  <2>2. [ExerciseGame!Next]_(ExerciseGame!gvars)
    BY <1>5, ExercisePlays
  <2> QED
    BY <2>1, <2>2 DEF ExerciseGame!Next, ExerciseGame!Ping, ExerciseGame!Pong,
        ExerciseGame!gvars
<1>6. CASE UNCHANGED variables
  BY <1>6 DEF variables, Bool!Turn, Bool!Hits, Flags!Turn, Flags!Hits, CondVar!Turn,
      CondVar!Hits,
      Semaphore!Turn, Semaphore!Hits, Exercise!Turn, Exercise!Hits
<1> QED
  BY <1>1, <1>2, <1>3, <1>4, <1>5, <1>6 DEF Next

\* In every program the two threads take turns, whatever the limit and however
\* often they wake for nothing.
THEOREM PlaysTheGame == Spec => Game!Safe
<1>1. Init => Game!Init
  BY BoolInit, FlagsInit, CondVarInit, SemaphoreInit, ExerciseInit, SameGame DEF Init
<1> QED
  BY <1>1, Invariance, StepPlays, PTL DEF Spec, Game!Safe
=============================================================================
