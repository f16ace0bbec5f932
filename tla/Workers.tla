------------------------------- MODULE Workers -------------------------------
(***************************************************************************)
(* Four programs in which a crew finishes a piece of work before anybody   *)
(* goes on.  They differ in what the crew synchronises with:               *)
(*                                                                         *)
(*   "latch"     latches_barriers/workers.cpp     latch, arrive_and_wait   *)
(*   "latches"   bossWorkers.cpp                  latch to the boss, latch *)
(*                                                back to the crew         *)
(*   "promises"  bossWorker.cpp                   promise per worker,      *)
(*                                                shared_future back       *)
(*   "barrier"   latches_barriers/fullTimePartTimeWorkers.cpp              *)
(*                                                barrier with             *)
(*                                                arrive_and_drop          *)
(*                                                                         *)
(* main(), the boss, starts the threads one after the other, so the first  *)
(* workers run while the last are not hired yet.  Only "barrier" tells     *)
(* full-time from part-time workers.                                       *)
(***************************************************************************)
EXTENDS Integers, FiniteSets

CONSTANTS FullTime, PartTime

Crew == FullTime \cup PartTime

\* Nobody works both full-time and part-time.
CrewAssumption == /\ IsFiniteSet(FullTime) /\ IsFiniteSet(PartTime)
                  /\ FullTime \cap PartTime = {}

VARIABLES team,       \* which of the programs runs
          pc,         \* where each worker is
          boss,       \* where main() is
          worked,     \* the pieces of work each worker has finished
          workDone,   \* count of the latch workDone; arrivals the barrier's
                      \* present phase still expects
          expected,   \* arrivals the barrier expects in a phase
          phase,      \* phases the barrier has completed
          token,      \* the phase each worker arrived in
          prepared,   \* the workers whose promise is fulfilled
          goHome      \* latch goHome counted down; startWorkPromise fulfilled

wvars == <<team, pc, boss, worked, workDone, expected, phase, token, prepared, goHome>>

gates == <<workDone, expected, phase, token, prepared, goHome>>

Teams == {"latch", "latches", "promises", "barrier"}

\* Mutant: the count of the latch or barrier is one short.
OneShort == Cardinality(Crew) - 1

\* latch workDone(6), barrier workDone(6): one for every worker.
Count == Cardinality(Crew)

Init == /\ team \in Teams
        /\ pc = [w \in Crew |-> "unhired"]
        /\ boss = "hire"
        /\ worked = [w \in Crew |-> 0]
        /\ workDone = Count
        /\ expected = Count
        /\ phase = 0
        /\ token = [w \in Crew |-> 0]
        /\ prepared = {}
        /\ goHome = FALSE

Goto(w, from, to) == pc[w] = from /\ pc' = [pc EXCEPT ![w] = to]

-----------------------------------------------------------------------------
(* The crew *)

\* The work itself: the first line a worker prints, or its sleep; and the
\* afternoon work of a full-time worker.
Work(w) == /\ Goto(w, "work", "arrive")
           /\ worked' = [worked EXCEPT ![w] = @ + 1]
           /\ UNCHANGED <<team, boss, gates>>

\* workDone.count_down(), or the first half of arrive_and_wait().
CountDown(w) == /\ team \in {"latch", "latches"}
                /\ Goto(w, "arrive", "wait")
                /\ workDone' = workDone - 1
                /\ UNCHANGED <<team, boss, worked, expected, phase, token, prepared, goHome>>

\* preparedWork.set_value()
SetValue(w) == /\ team = "promises"
               /\ Goto(w, "arrive", "wait")
               /\ prepared' = prepared \cup {w}
               /\ UNCHANGED <<team, boss, worked, workDone, expected, phase, token, goHome>>

\* An arrival at the barrier when later phases expect n: the last one of a
\* phase completes it.
Arrive(n) == IF workDone = 1
               THEN phase' = phase + 1 /\ workDone' = n
               ELSE workDone' = workDone - 1 /\ UNCHANGED phase

ArriveAndWait(w) == /\ team = "barrier" /\ w \in FullTime
                    /\ Goto(w, "arrive", "wait")
                    /\ token' = [token EXCEPT ![w] = phase]
                    /\ Arrive(expected)
                    /\ UNCHANGED <<team, boss, worked, expected, prepared, goHome>>

\* Mutant: arrive() in place of arrive_and_drop().
ArriveKept(w) == /\ team = "barrier" /\ w \in PartTime
                 /\ Goto(w, "arrive", "home")
                 /\ Arrive(expected)
                 /\ UNCHANGED <<team, boss, worked, expected, token, prepared, goHome>>

ArriveAndDrop(w) == /\ team = "barrier" /\ w \in PartTime
                    /\ Goto(w, "arrive", "home")
                    /\ expected' = expected - 1
                    /\ Arrive(expected - 1)
                    /\ UNCHANGED <<team, boss, worked, token, prepared, goHome>>

\* What a worker waits for after it has arrived.
Open(w) == CASE team = "latch" -> workDone = 0
             [] team \in {"latches", "promises"} -> goHome
             [] team = "barrier" -> phase > token[w]

\* The wait returns: home, or the afternoon work of the barrier program.
GoOn(w) == /\ Open(w)
           /\ Goto(w, "wait", IF team = "barrier" /\ worked[w] = 1 THEN "work" ELSE "home")
           /\ UNCHANGED <<team, boss, worked, gates>>

-----------------------------------------------------------------------------
(* main() *)

\* The full-time workers first; otherwise any order will do.
Hire(w) == /\ boss = "hire"
           /\ w \in PartTime => \A v \in FullTime : pc[v] # "unhired"
           /\ Goto(w, "unhired", "work")
           /\ UNCHANGED <<team, boss, worked, gates>>

\* Which programs' main() waits for the crew before it joins the threads.
HasBoss == team \in {"latches", "promises"}

AllHired == /\ boss = "hire"
            /\ \A w \in Crew : pc[w] # "unhired"
            /\ boss' = IF HasBoss THEN "wait" ELSE "join"
            /\ UNCHANGED <<team, pc, worked, gates>>

\* Mutant: main() waits for one of the workers only.
WaitForOne == /\ boss = "wait"
              /\ IF team = "latches" THEN workDone = 0 ELSE prepared # {}
              /\ boss' = "release"
              /\ UNCHANGED <<team, pc, worked, gates>>

\* workDone.wait(), or the waits for every worker's future.
WaitForCrew == /\ boss = "wait"
               /\ IF team = "latches" THEN workDone = 0 ELSE prepared = Crew
               /\ boss' = "release"
               /\ UNCHANGED <<team, pc, worked, gates>>

\* goHome.count_down(), or startWorkPromise.set_value().
Release == /\ boss = "release"
           /\ goHome' = TRUE
           /\ boss' = "join"
           /\ UNCHANGED <<team, pc, worked, workDone, expected, phase, token, prepared>>

Join == /\ boss = "join"
        /\ \A w \in Crew : pc[w] = "home"
        /\ boss' = "home"
        /\ UNCHANGED <<team, pc, worked, gates>>

WorkerStep(w) == \/ Work(w) \/ CountDown(w) \/ SetValue(w)
                 \/ ArriveAndWait(w) \/ ArriveAndDrop(w) \/ GoOn(w)

BossStep == (\E w \in Crew : Hire(w)) \/ AllHired \/ WaitForCrew \/ Release \/ Join

Next == (\E w \in Crew : WorkerStep(w)) \/ BossStep

\* The scheduler runs every thread.
Spec == Init /\ [][Next]_wvars /\ WF_wvars(BossStep) /\ \A w \in Crew : WF_wvars(WorkerStep(w))
-----------------------------------------------------------------------------
(* Properties *)

\* A worker that has got past its first wait, or gone home from it.
PastTheGate(w) == \/ pc[w] = "home" /\ ~(team = "barrier" /\ w \in PartTime)
                  \/ pc[w] = "work" /\ worked[w] = 1
                  \/ worked[w] = 2

\* Nobody gets past the gate while anybody's work is unfinished, also those who
\* are not hired yet; and no full-time worker goes home while another one still
\* has afternoon work.
NobodyAhead ==
    /\ \A w \in Crew : PastTheGate(w) => \A v \in Crew : worked[v] >= 1
    /\ team = "barrier" =>
          \A w, v \in FullTime : pc[w] = "home" => worked[v] = 2

\* What the comment on arrive_and_drop() says: a part-time worker, too, waits
\* until the morning work is done.
PartTimeWaits == team = "barrier" =>
    \A w \in PartTime : pc[w] = "home" => \A v \in Crew : worked[v] >= 1

\* Counting below zero would be undefined behaviour: latch and barrier expect
\* exactly the workers that have not arrived in the present phase.
CountersExact ==
    LET arrived == {w \in Crew : pc[w] = "wait" \/ (pc[w] = "home" /\ worked[w] = 1)}
    IN  /\ team \in {"latch", "latches"} => workDone = Cardinality(Crew \ arrived)
        /\ team = "barrier" =>
              LET dropped == {w \in PartTime : pc[w] = "home"}
                  here    == {w \in FullTime : pc[w] = "wait" /\ token[w] = phase}
              IN  /\ expected = Cardinality(Crew \ dropped)
                  /\ workDone = Cardinality(
                        (IF phase = 0 THEN Crew \ dropped ELSE FullTime) \ here)

\* What every program must come to: main() has joined all threads.
Home == boss = "home"
=============================================================================
