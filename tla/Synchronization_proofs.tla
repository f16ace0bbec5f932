----------------------- MODULE Synchronization_proofs -----------------------
(***************************************************************************)
(* Proofs about the programs that wait for each other's work: the crews,   *)
(* the active object, the pairs and the monitor object with one getter.    *)
(***************************************************************************)
EXTENDS Synchronization, SequenceTheorems, FiniteSetTheorems, TLAPS

-----------------------------------------------------------------------------
(* The crews: nobody goes on before everybody has done the work, and latch   *)
(* and barrier expect exactly those who have not arrived, so that they are   *)
(* never counted below zero.                                                 *)

\* The sizes of sets that module Workers speaks of.
LEMMA SameSizes == ASSUME NEW S
                   PROVE  /\ Crews!IsFiniteSet(S) <=> IsFiniteSet(S)
                          /\ Crews!Cardinality(S) = Cardinality(S)
<1>1. Crews!IsFiniteSet(S) <=> IsFiniteSet(S)
  BY DEF Crews!IsFiniteSet, IsFiniteSet
<1>2. Crews!Cardinality(S) = Cardinality(S)
  BY DEF Crews!Cardinality, Cardinality
<1> QED
  BY <1>1, <1>2

CrewTypes == /\ team \in Crews!Teams
             /\ pc \in [Crews!Crew -> {"unhired", "work", "arrive", "wait", "home"}]
             /\ boss \in {"hire", "wait", "release", "join", "home"}
             /\ worked \in [Crews!Crew -> 0..2]
             /\ workDone \in Int /\ expected \in Int
             /\ phase \in 0..2
             /\ token \in [Crews!Crew -> 0..1]
             /\ prepared \subseteq Crews!Crew
             /\ goHome \in BOOLEAN

NotArrived(w) == pc[w] \in {"unhired", "work", "arrive"}

\* Those who still have to arrive in the present phase; a latch has only one.
Missing == IF phase = 0 THEN {w \in Crews!Crew : NotArrived(w)}
                        ELSE {w \in FullTime : ~(pc[w] = "wait" /\ token[w] = phase)}

WorkedOnce(w) == /\ pc[w] \in {"unhired", "work"} => worked[w] = 0
                 /\ pc[w] \in {"arrive", "wait", "home"} => worked[w] = 1

\* Without a barrier everybody works once, before he arrives.
WorksOnce == team # "barrier" =>
    /\ phase = 0
    /\ \A w \in Crews!Crew : WorkedOnce(w)

\* Part-time workers of the barrier program work once and do not wait.  The
\* first phase ends when they have left.
PartTimeOnce == team = "barrier" =>
    \A w \in PartTime : /\ pc[w] # "wait"
                        /\ phase > 0 => pc[w] = "home"
                        /\ WorkedOnce(w)

\* Full-time workers are in the phase in which they wait, or one ahead of it.
FullTimeTwice == team = "barrier" =>
    \A w \in FullTime :
       /\ pc[w] = "unhired" => phase = 0 /\ worked[w] = 0
       /\ pc[w] = "work"      => worked[w] = phase /\ phase < 2
       /\ pc[w] = "arrive"    => worked[w] = phase + 1
       /\ pc[w] = "wait"      => worked[w] = token[w] + 1 /\ token[w] <= phase /\ phase <= token[w] + 1
       /\ pc[w] = "home"      => worked[w] = 2 /\ phase = 2

\* The counts.
CountsMissing ==
    /\ team # "promises" => workDone = Cardinality(Missing)
    /\ team = "barrier" => expected = Cardinality(Crews!Crew \ {w \in PartTime : pc[w] = "home"})

\* What opens the gate of the other programs.
GateOpens ==
    /\ team = "promises" => prepared = {w \in Crews!Crew : ~NotArrived(w)}
    /\ team = "latch" /\ (\E w \in Crews!Crew : pc[w] = "home") => workDone = 0
    /\ Crews!HasBoss /\ (\E w \in Crews!Crew : pc[w] = "home") => goHome
    /\ boss = "wait" => Crews!HasBoss
    /\ goHome \/ boss = "release" => Crews!HasBoss /\ \A w \in Crews!Crew : ~NotArrived(w)

CrewOrdered == CrewTypes /\ WorksOnce /\ PartTimeOnce /\ FullTimeTwice /\ CountsMissing /\ GateOpens
-----------------------------------------------------------------------------
(* Sets of workers and their cardinalities *)

LEMMA CrewFinite == ASSUME Crews!CrewAssumption
                    PROVE  /\ IsFiniteSet(Crews!Crew) /\ Cardinality(Crews!Crew) \in Nat
                           /\ \A S \in SUBSET Crews!Crew : IsFiniteSet(S) /\ Cardinality(S) \in Nat
<1>1. IsFiniteSet(Crews!Crew)
  BY SameSizes, FS_Union DEF Crews!CrewAssumption, Crews!Crew
<1> QED
  BY <1>1, FS_Subset, FS_CardinalityType

LEMMA OneLess == ASSUME NEW S, NEW x \in S, IsFiniteSet(S)
                 PROVE  Cardinality(S \ {x}) = Cardinality(S) - 1
BY FS_RemoveElement

LEMMA OnlyOne == ASSUME NEW S, NEW x \in S, IsFiniteSet(S), Cardinality(S) = 1
                 PROVE  S = {x}
BY FS_Singleton

LEMMA NoneLeft == ASSUME NEW S, IsFiniteSet(S), Cardinality(S) = 0
                  PROVE  S = {}
BY FS_EmptySet

\* Missing is a set of workers.
LEMMA MissingFinite == ASSUME Crews!CrewAssumption, CrewOrdered
                       PROVE  /\ Missing \subseteq Crews!Crew
                              /\ IsFiniteSet(Missing) /\ Cardinality(Missing) \in Nat
<1>1. Missing \subseteq Crews!Crew
  BY DEF Missing, Crews!Crew
<1> QED
  BY <1>1, CrewFinite

-----------------------------------------------------------------------------
(* Every action of a crew preserves its invariant *)

LEMMA CrewInit == ASSUME Crews!CrewAssumption, Crews!Init PROVE CrewOrdered
<1>1. Missing = Crews!Crew
  BY DEF Crews!Init, Missing, NotArrived
<1>2. Crews!Crew \ {w \in PartTime : pc[w] = "home"} = Crews!Crew
  BY DEF Crews!Init, Crews!Crew
<1>3. Crews!Count \in Nat
  BY SameSizes, CrewFinite DEF Crews!Count
<1>4. CrewTypes
  <2>1. pc \in [Crews!Crew -> {"unhired", "work", "arrive", "wait", "home"}]
    BY DEF Crews!Init
  <2>2. worked \in [Crews!Crew -> 0..2]
    BY DEF Crews!Init
  <2>3. token \in [Crews!Crew -> 0..1]
    BY DEF Crews!Init
  <2>4. goHome \in BOOLEAN
    BY DEF Crews!Init
  <2> QED
    BY <1>3, <2>1, <2>2, <2>3, <2>4 DEF Crews!Init, CrewTypes
<1>5. WorksOnce /\ PartTimeOnce /\ FullTimeTwice
  BY DEF Crews!Init, WorksOnce, WorkedOnce, PartTimeOnce, FullTimeTwice, Crews!Crew
<1>6. CountsMissing
  BY <1>1, <1>2, SameSizes DEF Crews!Init, CountsMissing, Crews!Count
<1>7. GateOpens
  BY DEF Crews!Init, GateOpens, NotArrived, Crews!HasBoss
<1> QED
  BY <1>4, <1>5, <1>6, <1>7 DEF CrewOrdered

\* Working leaves everybody where the counts see him.
LEMMA WorkKeeps ==
    ASSUME Crews!CrewAssumption, CrewOrdered, NEW w \in Crews!Crew, Crews!Work(w)
    PROVE  CrewOrdered'
<1> USE DEF CrewOrdered, CrewTypes, Crews!Work, Crews!Goto, Crews!gates
<1>1. Missing' = Missing
  BY DEF Missing, NotArrived, Crews!Crew
<1>2. (Crews!Crew \ {v \in PartTime : pc[v] = "home"})' =
        Crews!Crew \ {v \in PartTime : pc[v] = "home"}
  BY DEF Crews!Crew
<1>3. pc[w] = "work" /\ worked[w] \in 0..1
  <2>1. CASE team # "barrier"
    BY <2>1 DEF WorksOnce, WorkedOnce
  <2>2. CASE team = "barrier" /\ w \in PartTime
    BY <2>2 DEF PartTimeOnce, WorkedOnce
  <2>3. CASE team = "barrier" /\ w \in FullTime
    BY <2>3 DEF FullTimeTwice
  <2> QED
    BY <2>1, <2>2, <2>3 DEF Crews!Crew
<1>4. CrewTypes'
  BY <1>3 DEF Crews!Teams
<1>5. WorksOnce'
  BY <1>3 DEF WorksOnce, WorkedOnce
<1>6. PartTimeOnce'
  BY <1>3 DEF PartTimeOnce, WorkedOnce, Crews!Crew
<1>7. FullTimeTwice'
  BY <1>3 DEF FullTimeTwice, Crews!Crew
<1>8. CountsMissing' /\ GateOpens'
  BY <1>1, <1>2 DEF CountsMissing, GateOpens, NotArrived, Crews!HasBoss
<1> QED
  BY <1>4, <1>5, <1>6, <1>7, <1>8

LEMMA CountDownKeeps ==
    ASSUME Crews!CrewAssumption, CrewOrdered, NEW w \in Crews!Crew, Crews!CountDown(w)
    PROVE  CrewOrdered'
<1> USE DEF CrewOrdered, CrewTypes, Crews!CountDown, Crews!Goto
<1>1. Missing' = Missing \ {w} /\ w \in Missing
  BY DEF Missing, NotArrived, WorksOnce
<1>2. Cardinality(Missing') = Cardinality(Missing) - 1
  BY <1>1, OneLess, MissingFinite
<1>3. CrewTypes'
  BY DEF Crews!Teams
<1>4. WorksOnce' /\ PartTimeOnce' /\ FullTimeTwice'
  BY DEF WorksOnce, WorkedOnce, PartTimeOnce, FullTimeTwice
<1>5. CountsMissing'
  BY <1>2 DEF CountsMissing
<1>6. GateOpens'
  BY <1>1, MissingFinite, NoneLeft DEF GateOpens, CountsMissing, NotArrived, Crews!HasBoss
<1> QED
  BY <1>3, <1>4, <1>5, <1>6

LEMMA SetValueKeeps ==
    ASSUME Crews!CrewAssumption, CrewOrdered, NEW w \in Crews!Crew, Crews!SetValue(w)
    PROVE  CrewOrdered'
<1> USE DEF CrewOrdered, CrewTypes, Crews!SetValue, Crews!Goto
<1>1. CrewTypes'
  BY DEF Crews!Teams
<1>2. WorksOnce' /\ PartTimeOnce' /\ FullTimeTwice' /\ CountsMissing'
  BY DEF WorksOnce, WorkedOnce, PartTimeOnce, FullTimeTwice, CountsMissing
<1>3. GateOpens'
  BY DEF GateOpens, NotArrived, Crews!HasBoss
<1> QED
  BY <1>1, <1>2, <1>3

\* When one worker is missing, the others wait in the present phase.
LEMMA OthersWait == ASSUME Crews!CrewAssumption, CrewOrdered, team = "barrier", workDone = 1,
                           NEW w \in Missing, pc[w] = "arrive"
                    PROVE  /\ phase \in 0..1
                           /\ expected = Cardinality(Crews!Crew \ {v \in PartTime : pc[v] = "home"})
                           /\ \A v \in FullTime \ {w} : pc[v] = "wait" /\ token[v] = phase
                           /\ \A v \in PartTime \ {w} : pc[v] = "home"
<1> USE DEF CrewOrdered, CrewTypes
<1>1. Missing = {w}
  BY OnlyOne, MissingFinite DEF CountsMissing
<1>2. phase \in 0..1
  <2>1. CASE w \in FullTime
    BY <2>1 DEF FullTimeTwice, Crews!Crew
  <2>2. CASE w \in PartTime
    BY <2>2 DEF PartTimeOnce, Crews!Crew
  <2> QED
    BY <1>1, <2>1, <2>2, MissingFinite DEF Crews!Crew
<1>3. ASSUME NEW v \in FullTime \ {w} PROVE pc[v] = "wait" /\ token[v] = phase
  <2>1. v \notin Missing
    BY <1>1
  <2>2. CASE phase = 0
    BY <2>1, <2>2 DEF Missing, NotArrived, FullTimeTwice, Crews!Crew
  <2>3. CASE phase = 1
    BY <2>1, <2>3 DEF Missing
  <2> QED
    BY <1>2, <2>2, <2>3
<1>4. ASSUME NEW v \in PartTime \ {w} PROVE pc[v] = "home"
  <2>1. v \notin Missing
    BY <1>1
  <2>2. CASE phase = 0
    BY <2>1, <2>2 DEF Missing, NotArrived, PartTimeOnce, Crews!Crew
  <2>3. CASE phase = 1
    BY <2>3 DEF PartTimeOnce
  <2> QED
    BY <1>2, <2>2, <2>3
<1> QED
  BY <1>2, <1>3, <1>4 DEF CountsMissing

\* The last arrival of the barrier's phase opens the next one, in which only the
\* full-time workers, who all wait, are missing.
LEMMA ArriveAndWaitKeeps ==
    ASSUME Crews!CrewAssumption, CrewOrdered, NEW w \in Crews!Crew, Crews!ArriveAndWait(w)
    PROVE  CrewOrdered'
<1> USE DEF CrewOrdered, CrewTypes, Crews!ArriveAndWait, Crews!Goto
<1>1. /\ w \in FullTime /\ w \notin PartTime /\ pc[w] = "arrive" /\ worked[w] = phase + 1
      /\ phase \in 0..1 /\ team = "barrier"
  BY DEF FullTimeTwice, Crews!CrewAssumption
<1>2. w \in Missing /\ workDone = Cardinality(Missing)
  BY <1>1 DEF Missing, NotArrived, CountsMissing
<1>3. (Crews!Crew \ {v \in PartTime : pc[v] = "home"})' =
        Crews!Crew \ {v \in PartTime : pc[v] = "home"}
  BY <1>1 DEF Crews!Crew
<1>4. CrewTypes'
  BY <1>1 DEF Crews!Arrive
<1>5. WorksOnce' /\ GateOpens'
  BY <1>1 DEF WorksOnce, GateOpens, Crews!HasBoss
<1>6. PartTimeOnce' /\ FullTimeTwice' /\ CountsMissing'
  <2>1. CASE workDone = 1
    <3>1. /\ \A v \in FullTime \ {w} : pc[v] = "wait" /\ token[v] = phase
          /\ \A v \in PartTime : pc[v] = "home"
      BY <1>1, <1>2, <2>1, OthersWait
    <3>2. phase' = phase + 1 /\ workDone' = expected
      BY <2>1 DEF Crews!Arrive
    <3>3. PartTimeOnce'
      BY <1>1, <3>1 DEF PartTimeOnce, WorkedOnce, Crews!Crew
    <3>4. FullTimeTwice'
      BY <1>1, <3>1, <3>2 DEF FullTimeTwice, Crews!Crew
    <3>5. Missing' = FullTime
      BY <1>1, <3>1, <3>2 DEF Missing, Crews!Crew
    <3>6. Crews!Crew \ {v \in PartTime : pc[v] = "home"} = FullTime
      BY <3>1 DEF Crews!Crew, Crews!CrewAssumption
    <3> QED
      BY <1>1, <1>3, <3>2, <3>3, <3>4, <3>5, <3>6 DEF CountsMissing
  <2>2. CASE workDone # 1
    <3>1. phase' = phase /\ workDone' = workDone - 1
      BY <2>2 DEF Crews!Arrive
    <3>2. PartTimeOnce' /\ FullTimeTwice'
      BY <1>1, <3>1 DEF PartTimeOnce, FullTimeTwice, WorkedOnce, Crews!Crew
    <3>3. Missing' = Missing \ {w}
      BY <1>1, <3>1 DEF Missing, NotArrived, Crews!Crew
    <3> QED
      BY <1>1, <1>2, <1>3, <3>1, <3>2, <3>3, OneLess, MissingFinite DEF CountsMissing
  <2> QED
    BY <2>1, <2>2
<1> QED
  BY <1>4, <1>5, <1>6

\* Those who drop are expected neither in this phase nor in later ones.
LEMMA ArriveAndDropKeeps ==
    ASSUME Crews!CrewAssumption, CrewOrdered, NEW w \in Crews!Crew, Crews!ArriveAndDrop(w)
    PROVE  CrewOrdered'
<1> USE DEF CrewOrdered, CrewTypes, Crews!ArriveAndDrop, Crews!Goto
<1>1. /\ w \in PartTime /\ w \notin FullTime /\ pc[w] = "arrive" /\ worked[w] = 1
      /\ phase = 0 /\ team = "barrier"
  BY DEF PartTimeOnce, WorkedOnce, Crews!CrewAssumption
<1>2. w \in Missing /\ workDone = Cardinality(Missing)
  BY <1>1 DEF Missing, NotArrived, CountsMissing
<1>3. (Crews!Crew \ {v \in PartTime : pc[v] = "home"})' =
        (Crews!Crew \ {v \in PartTime : pc[v] = "home"}) \ {w}
  BY <1>1 DEF Crews!Crew
<1>4. expected' = Cardinality((Crews!Crew \ {v \in PartTime : pc[v] = "home"})')
  <2>1. /\ w \in Crews!Crew \ {v \in PartTime : pc[v] = "home"}
        /\ IsFiniteSet(Crews!Crew \ {v \in PartTime : pc[v] = "home"})
    BY <1>1, CrewFinite DEF Crews!Crew
  <2> QED
    BY <1>1, <1>3, <2>1, OneLess DEF CountsMissing
<1>5. CrewTypes'
  BY <1>1 DEF Crews!Arrive
<1>6. WorksOnce' /\ GateOpens'
  BY <1>1 DEF WorksOnce, GateOpens, Crews!HasBoss
<1>7. PartTimeOnce' /\ FullTimeTwice' /\ CountsMissing'
  <2>1. CASE workDone = 1
    <3>1. /\ \A v \in FullTime : pc[v] = "wait" /\ token[v] = phase
          /\ \A v \in PartTime \ {w} : pc[v] = "home"
      BY <1>1, <1>2, <2>1, OthersWait
    <3>2. phase' = 1 /\ workDone' = expected'
      BY <1>1, <2>1 DEF Crews!Arrive
    <3>3. PartTimeOnce'
      BY <1>1, <3>1 DEF PartTimeOnce, WorkedOnce, Crews!Crew
    <3>4. FullTimeTwice'
      BY <1>1, <3>1, <3>2 DEF FullTimeTwice, Crews!Crew
    <3>5. Missing' = FullTime
      BY <1>1, <3>1, <3>2 DEF Missing, Crews!Crew
    <3>6. (Crews!Crew \ {v \in PartTime : pc[v] = "home"})' = FullTime
      BY <1>1, <3>1 DEF Crews!Crew, Crews!CrewAssumption
    <3> QED
      BY <1>1, <1>4, <3>2, <3>3, <3>4, <3>5, <3>6 DEF CountsMissing
  <2>2. CASE workDone # 1
    <3>1. phase' = phase /\ workDone' = workDone - 1
      BY <2>2 DEF Crews!Arrive
    <3>2. PartTimeOnce' /\ FullTimeTwice'
      BY <1>1, <3>1 DEF PartTimeOnce, FullTimeTwice, WorkedOnce, Crews!Crew
    <3>3. Missing' = Missing \ {w}
      BY <1>1, <3>1 DEF Missing, NotArrived, Crews!Crew
    <3> QED
      BY <1>1, <1>2, <1>4, <3>1, <3>2, <3>3, OneLess, MissingFinite DEF CountsMissing
  <2> QED
    BY <2>1, <2>2
<1> QED
  BY <1>5, <1>6, <1>7

\* Who goes on is no longer missing: the gate opens for him after he arrived.
LEMMA GoOnKeeps ==
    ASSUME Crews!CrewAssumption, CrewOrdered, NEW w \in Crews!Crew, Crews!GoOn(w)
    PROVE  CrewOrdered'
<1> USE DEF CrewOrdered, CrewTypes, Crews!GoOn, Crews!Goto, Crews!gates
<1>1. pc[w] = "wait"
  OBVIOUS
<1>2. CASE team = "barrier"
  <2>1. /\ w \in FullTime /\ w \notin PartTime
        /\ token[w] = phase - 1 /\ worked[w] = phase /\ phase \in 1..2
    BY <1>1, <1>2 DEF Crews!Open, PartTimeOnce, FullTimeTwice, Crews!Crew
  <2>2. pc' = [pc EXCEPT ![w] = IF phase = 1 THEN "work" ELSE "home"]
    BY <1>2, <2>1
  <2>3. CrewTypes'
    BY <2>2
  <2>4. WorksOnce' /\ PartTimeOnce' /\ GateOpens'
    BY <1>2, <2>1, <2>2 DEF WorksOnce, PartTimeOnce, WorkedOnce, GateOpens, Crews!HasBoss,
       Crews!Crew
  <2>5. FullTimeTwice'
    BY <1>2, <2>1, <2>2 DEF FullTimeTwice, Crews!Crew
  <2>6. Missing' = Missing
    <3>1. phase # 0 /\ phase' = phase
      BY <2>1
    <3>2. \A v \in FullTime : (pc[v] = "wait" /\ token[v] = phase)'
                               <=> pc[v] = "wait" /\ token[v] = phase
      BY <2>1, <2>2 DEF Crews!Crew
    <3> QED
      BY <3>1, <3>2 DEF Missing
  <2>7. (Crews!Crew \ {v \in PartTime : pc[v] = "home"})' = Crews!Crew \ {v \in PartTime : pc[v] = "home"}
    BY <2>1, <2>2 DEF Crews!Crew
  <2> QED
    BY <1>2, <2>3, <2>4, <2>5, <2>6, <2>7 DEF CountsMissing
<1>3. CASE team # "barrier"
  <2>1. pc' = [pc EXCEPT ![w] = "home"]
    BY <1>3
  <2>2. CrewTypes'
    BY <2>1
  <2>3. WorksOnce' /\ PartTimeOnce' /\ FullTimeTwice'
    BY <1>1, <1>3, <2>1 DEF WorksOnce, WorkedOnce, PartTimeOnce, FullTimeTwice
  <2>4. Missing' = Missing
    BY <1>1, <1>3, <2>1 DEF Missing, NotArrived, WorksOnce
  <2>5. CountsMissing'
    BY <1>3, <2>4 DEF CountsMissing
  <2>6. GateOpens'
    BY <1>1, <1>3, <2>1 DEF GateOpens, NotArrived, Crews!HasBoss, Crews!Open, Crews!Teams
  <2> QED
    BY <2>2, <2>3, <2>5, <2>6
<1> QED
  BY <1>2, <1>3

LEMMA HireKeeps ==
    ASSUME Crews!CrewAssumption, CrewOrdered, NEW w \in Crews!Crew, Crews!Hire(w)
    PROVE  CrewOrdered'
<1> USE DEF CrewOrdered, CrewTypes, Crews!Hire, Crews!Goto, Crews!gates
<1>1. pc[w] = "unhired" /\ pc' = [pc EXCEPT ![w] = "work"]
  OBVIOUS
<1>2. CrewTypes'
  BY <1>1
<1>3. WorksOnce' /\ PartTimeOnce' /\ FullTimeTwice'
  BY <1>1 DEF WorksOnce, WorkedOnce, PartTimeOnce, FullTimeTwice, Crews!Crew
<1>4. Missing' = Missing
  BY <1>1 DEF Missing, NotArrived, Crews!Crew
<1>5. (Crews!Crew \ {v \in PartTime : pc[v] = "home"})' =
        Crews!Crew \ {v \in PartTime : pc[v] = "home"}
  BY <1>1 DEF Crews!Crew
<1>6. CountsMissing' /\ GateOpens'
  BY <1>1, <1>4, <1>5 DEF CountsMissing, GateOpens, NotArrived, Crews!HasBoss
<1> QED
  BY <1>2, <1>3, <1>6

\* main() opens the other latch, or fulfils the other promise, when all are there.
LEMMA CrewBossKeeps ==
    ASSUME Crews!CrewAssumption, CrewOrdered, Crews!AllHired \/ Crews!WaitForCrew \/ Crews!Release \/ Crews!Join
    PROVE  CrewOrdered'
<1> USE DEF CrewOrdered, CrewTypes, Crews!gates
<1>1. UNCHANGED <<team, pc, worked, workDone, expected, phase, token, prepared>>
  BY DEF Crews!AllHired, Crews!WaitForCrew, Crews!Release, Crews!Join
<1>2. WorksOnce' /\ PartTimeOnce' /\ FullTimeTwice' /\ CountsMissing'
  BY <1>1 DEF WorksOnce, WorkedOnce, PartTimeOnce, FullTimeTwice, CountsMissing, Missing,
     NotArrived
<1>3. CrewTypes' /\ GateOpens'
  <2>1. CASE Crews!AllHired
    BY <1>1, <2>1 DEF Crews!AllHired, GateOpens, NotArrived, Crews!HasBoss
  <2>2. CASE Crews!WaitForCrew
    <3>1. Crews!HasBoss
      BY <2>2 DEF Crews!WaitForCrew, GateOpens
    <3>2. \A v \in Crews!Crew : ~NotArrived(v)
      <4>1. CASE team = "latches"
        <5>1. Missing = {}
          BY <2>2, <4>1, MissingFinite, NoneLeft DEF Crews!WaitForCrew, CountsMissing
        <5> QED
          BY <4>1, <5>1 DEF Missing, WorksOnce
      <4>2. CASE team = "promises"
        BY <2>2, <4>2 DEF Crews!WaitForCrew, GateOpens
      <4> QED
        BY <3>1, <4>1, <4>2 DEF Crews!HasBoss
    <3> QED
      BY <1>1, <2>2, <3>1, <3>2 DEF Crews!WaitForCrew, GateOpens, NotArrived, Crews!HasBoss
  <2>3. CASE Crews!Release
    BY <1>1, <2>3 DEF Crews!Release, GateOpens, NotArrived, Crews!HasBoss
  <2>4. CASE Crews!Join
    BY <1>1, <2>4 DEF Crews!Join, GateOpens, NotArrived, Crews!HasBoss
  <2> QED
    BY <2>1, <2>2, <2>3, <2>4
<1> QED
  BY <1>2, <1>3

LEMMA CrewKeeps ==
    ASSUME Crews!CrewAssumption, CrewOrdered, [Crews!Next]_(Crews!wvars)
    PROVE  CrewOrdered'
<1>1. CASE \E w \in Crews!Crew : Crews!WorkerStep(w)
  BY <1>1, WorkKeeps, CountDownKeeps, SetValueKeeps, ArriveAndWaitKeeps, ArriveAndDropKeeps,
     GoOnKeeps DEF Crews!WorkerStep
<1>2. CASE Crews!BossStep
  BY <1>2, HireKeeps, CrewBossKeeps DEF Crews!BossStep
<1>3. CASE UNCHANGED Crews!wvars
  BY <1>3 DEF Crews!wvars, CrewOrdered, CrewTypes, WorksOnce, WorkedOnce, PartTimeOnce,
     FullTimeTwice,
     CountsMissing, Missing, NotArrived, GateOpens, Crews!HasBoss
<1> QED
  BY <1>1, <1>2, <1>3 DEF Crews!Next

-----------------------------------------------------------------------------
(* What the invariant of a crew says *)

LEMMA NobodyAheadNow == ASSUME Crews!CrewAssumption, CrewOrdered PROVE Crews!NobodyAhead
<1> USE DEF CrewOrdered, CrewTypes
<1>1. ASSUME NEW w \in Crews!Crew, Crews!PastTheGate(w), NEW v \in Crews!Crew PROVE worked[v] >= 1
  <2>1. CASE team = "barrier"
    <3>1. w \in FullTime /\ phase > 0
      BY <1>1, <2>1 DEF Crews!PastTheGate, PartTimeOnce, WorkedOnce, FullTimeTwice, Crews!Crew
    <3>2. CASE v \in PartTime
      BY <2>1, <3>1, <3>2 DEF PartTimeOnce, WorkedOnce
    <3>3. CASE v \in FullTime
      BY <2>1, <3>1, <3>3 DEF FullTimeTwice, Crews!Crew
    <3> QED
      BY <3>2, <3>3 DEF Crews!Crew
  <2>2. CASE team # "barrier"
    <3>1. pc[w] = "home"
      BY <1>1, <2>2 DEF Crews!PastTheGate, WorksOnce, WorkedOnce
    <3>2. ~NotArrived(v)
      <4>1. CASE team = "latch"
        <5>1. Missing = {}
          BY <3>1, <4>1, MissingFinite, NoneLeft DEF GateOpens, CountsMissing
        <5> QED
          BY <2>2, <5>1 DEF Missing, WorksOnce
      <4>2. CASE Crews!HasBoss
        BY <3>1, <4>2 DEF GateOpens
      <4> QED
        BY <2>2, <4>1, <4>2 DEF Crews!Teams, Crews!HasBoss
    <3> QED
      BY <2>2, <3>2 DEF NotArrived, WorksOnce, WorkedOnce
  <2> QED
    BY <2>1, <2>2
<1>2. ASSUME team = "barrier", NEW w \in FullTime, NEW v \in FullTime, pc[w] = "home"
      PROVE  worked[v] = 2
  BY <1>2 DEF FullTimeTwice, Crews!Crew
<1> QED
  BY <1>1, <1>2 DEF Crews!NobodyAhead

LEMMA CountersExactNow == ASSUME Crews!CrewAssumption, CrewOrdered PROVE Crews!CountersExact
<1> USE DEF CrewOrdered, CrewTypes
<1> DEFINE arrived == {w \in Crews!Crew : pc[w] = "wait" \/ (pc[w] = "home" /\ worked[w] = 1)}
           dropped == {w \in PartTime : pc[w] = "home"}
           here    == {w \in FullTime : pc[w] = "wait" /\ token[w] = phase}
<1>1. ASSUME team \in {"latch", "latches"} PROVE workDone = Cardinality(Crews!Crew \ arrived)
  <2>1. Missing = Crews!Crew \ arrived
    BY <1>1 DEF Missing, NotArrived, WorksOnce, WorkedOnce
  <2> QED
    BY <1>1, <2>1 DEF CountsMissing
<1>2. ASSUME team = "barrier"
      PROVE  workDone = Cardinality((IF phase = 0 THEN Crews!Crew \ dropped ELSE FullTime) \ here)
  <2>1. CASE phase = 0
    <3>1. ASSUME NEW w \in Crews!Crew PROVE NotArrived(w) <=> w \notin dropped /\ w \notin here
      <4>1. CASE w \in PartTime
        BY <1>2, <4>1 DEF NotArrived, PartTimeOnce, Crews!CrewAssumption, Crews!Crew
      <4>2. CASE w \in FullTime
        BY <1>2, <2>1, <4>2 DEF NotArrived, FullTimeTwice, Crews!CrewAssumption, Crews!Crew
      <4> QED
        BY <4>1, <4>2 DEF Crews!Crew
    <3>2. Missing = (Crews!Crew \ dropped) \ here
      BY <2>1, <3>1 DEF Missing
    <3> QED
      BY <1>2, <2>1, <3>2 DEF CountsMissing
  <2>2. CASE phase # 0
    <3>1. Missing = FullTime \ here
      BY <2>2 DEF Missing
    <3> QED
      BY <1>2, <2>2, <3>1 DEF CountsMissing
  <2> QED
    BY <2>1, <2>2
<1>3. team = "barrier" => expected = Cardinality(Crews!Crew \ dropped)
  BY DEF CountsMissing
<1> QED
  BY <1>1, <1>2, <1>3, SameSizes DEF Crews!CountersExact

CrewInv == program = "crew" => CrewOrdered

LEMMA CrewInvariance == Spec => []CrewInv
<1>1. Init => CrewInv
  BY CrewsAssumption, CrewInit DEF Init, CrewInv
<1>2. CrewInv /\ [Next]_variables => CrewInv'
  <2> SUFFICES ASSUME CrewInv, [Next]_variables, program' = "crew"
               PROVE  CrewOrdered'
    BY DEF CrewInv
  <2>1. program = "crew" /\ CrewOrdered
    BY DEF CrewInv, Next, InCrew, InPair, InObject, InMonitor, variables
  <2>2. [Crews!Next]_(Crews!wvars)
    <3>1. CASE UNCHANGED variables
      BY <3>1 DEF variables, crew, Crews!wvars
    <3> QED
      BY <2>1, <3>1 DEF Next, InCrew, InPair, InObject, InMonitor
  <2> QED
    BY CrewsAssumption, <2>1, <2>2, CrewKeeps
<1> QED
  BY <1>1, <1>2, PTL DEF Spec

\* For any finite crew nobody goes on before all the work is done.
THEOREM NobodyGoesAhead == Spec => []NobodyAhead
<1>1. CrewInv => NobodyAhead
  BY CrewsAssumption, NobodyAheadNow DEF CrewInv, NobodyAhead
<1> QED
  BY <1>1, CrewInvariance, PTL

\* For any finite crew latch and barrier are never counted below zero.
THEOREM CountersStayExact == Spec => []CountersExact
<1>1. CrewInv => CountersExact
  BY CrewsAssumption, CountersExactNow DEF CrewInv, CountersExact
<1> QED
  BY <1>1, CrewInvariance, PTL

-----------------------------------------------------------------------------
(* The active object, for any number of clients and tasks and any choice of *)
(* std::async: every task is in one place, the servant never takes one out   *)
(* of an empty list, and it leaves none behind.                              *)

ObjectTypes ==
    /\ activationList \in Seq(Objects!Tasks)
    /\ at \in [Objects!Clients -> {"deferred", "enqueue", "push", "done"}]
    /\ enqueued \in [Objects!Clients -> 0..NumTasks]
    /\ boss \in {"get", "run", "results", "done"} \X (0..NumClients)
    /\ servant \in {"none", "isEmpty", "dequeue", "call", "done"}
    /\ results \subseteq Objects!Tasks

\* The servant holds a task while it calls it.
ServantHolds == IF servant = "call" THEN \E t \in Objects!Tasks : myTask = <<t>> ELSE myTask = <<>>

\* The tasks in the list are different ones.
ListDistinct == \A i,
   j \in 1..Len(activationList) : activationList[i] = activationList[j] => i = j

Enqueued == {t \in Objects!Tasks : t[2] <= enqueued[t[1]]}

OnePlace ==
    LET listed == Objects!ToSet(activationList)
        taken  == Objects!ToSet(myTask)
    IN  /\ listed \cap taken = {} /\ listed \cap results = {} /\ taken \cap results = {}
        /\ listed \cup taken \cup results = Enqueued

\* A client is done when it has enqueued all its tasks.
ClientsCount ==
    \A c \in Objects!Clients : /\ at[c] = "push" => enqueued[c] < NumTasks
                               /\ at[c] = "done" => enqueued[c] = NumTasks

\* The servant runs when the clients are done, and main() goes on when it is.
ServesInTurn ==
    /\ \A c \in Objects!Clients : boss[1] # "get" \/ c < boss[2] => at[c] = "done"
    /\ boss[1] = "get" => servant = "none"
    /\ boss[1] \in {"results", "done"} => servant = "done"
    /\ servant = "dequeue" => activationList # <<>>
    /\ servant = "done" => activationList = <<>>

ObjectOrdered ==
    ObjectTypes /\ ServantHolds /\ ListDistinct /\ OnePlace /\ ClientsCount /\ ServesInTurn
-----------------------------------------------------------------------------
(* Sequences, of the active object and others *)

LEMMA SetOfNone == Objects!ToSet(<<>>) = {}
BY DEF Objects!ToSet

LEMMA SetOfOne == ASSUME NEW t PROVE Objects!ToSet(<<t>>) = {t}
BY DEF Objects!ToSet

LEMMA SetOfAppend == ASSUME NEW S, NEW s \in Seq(S), NEW e \in S
                     PROVE  Objects!ToSet(Append(s, e)) = Objects!ToSet(s) \cup {e}
<1>1. /\ Len(Append(s, e)) = Len(s) + 1 /\ Len(s) \in Nat
      /\ DOMAIN s = 1..Len(s) /\ DOMAIN Append(s, e) = 1..(Len(s) + 1)
      /\ Append(s, e)[Len(s) + 1] = e
      /\ \A i \in 1..Len(s) : Append(s, e)[i] = s[i]
  OBVIOUS
<1>2. 1..(Len(s) + 1) = 1..Len(s) \cup {Len(s) + 1}
  BY <1>1
<1> QED
  BY <1>1, <1>2 DEF Objects!ToSet

LEMMA SetOfTail == ASSUME NEW S, NEW s \in Seq(S), s # <<>>
                   PROVE  Objects!ToSet(s) = Objects!ToSet(Tail(s)) \cup {Head(s)}
<1>1. /\ Len(s) \in Nat \ {0} /\ Tail(s) \in Seq(S) /\ Head(s) = s[1]
      /\ DOMAIN s = 1..Len(s) /\ DOMAIN Tail(s) = 1..(Len(s) - 1)
      /\ \A i \in 1..(Len(s) - 1) : Tail(s)[i] = s[i + 1]
  OBVIOUS
<1>2. ASSUME NEW i \in 1..Len(s)
      PROVE  s[i] = s[1] \/ \E j \in 1..(Len(s) - 1) : s[i] = Tail(s)[j]
  <2>1. CASE i = 1
    BY <2>1
  <2>2. CASE i # 1
    <3>1. i - 1 \in 1..(Len(s) - 1) /\ Tail(s)[i - 1] = s[i]
      BY <1>1, <2>2
    <3> QED
      BY <3>1
  <2> QED
    BY <2>1, <2>2
<1>3. 1 \in 1..Len(s) /\ \A j \in 1..(Len(s) - 1) : j + 1 \in 1..Len(s)
  BY <1>1
<1>4. Head(s) \in Objects!ToSet(s) /\ \A e \in Objects!ToSet(Tail(s)) : e \in Objects!ToSet(s)
  BY <1>1, <1>3 DEF Objects!ToSet
<1>5. ASSUME NEW i \in 1..Len(s) PROVE s[i] = Head(s) \/ s[i] \in Objects!ToSet(Tail(s))
  <2>1. CASE s[i] = s[1]
    BY <1>1, <2>1
  <2>2. CASE \E j \in 1..(Len(s) - 1) : s[i] = Tail(s)[j]
    BY <1>1, <2>2 DEF Objects!ToSet
  <2> QED
    BY <1>2, <2>1, <2>2
<1>6. \A e \in Objects!ToSet(s) : e = Head(s) \/ e \in Objects!ToSet(Tail(s))
  <2> SUFFICES ASSUME NEW e \in Objects!ToSet(s) PROVE e = Head(s) \/ e \in Objects!ToSet(Tail(s))
    OBVIOUS
  <2>1. PICK i \in 1..Len(s) : e = s[i]
    BY <1>1 DEF Objects!ToSet
  <2> QED
    BY <1>5, <2>1
<1> QED
  BY <1>4, <1>6

\* A sequence of different elements is as long as it has elements.
LEMMA LengthIsCardinality ==
    ASSUME NEW S, NEW s \in Seq(S), \A i, j \in 1..Len(s) : s[i] = s[j] => i = j
    PROVE  Objects!Cardinality(Objects!ToSet(s)) = Len(s)
<1>1. s \in Bijection(1..Len(s), Objects!ToSet(s))
  BY DEF Objects!ToSet, Bijection, Injection, Surjection, IsInjective
<1>2. ExistsBijection(1..Len(s), Objects!ToSet(s))
  BY <1>1 DEF ExistsBijection
<1> QED
  <2>1. Objects!Cardinality(Objects!ToSet(s)) = Cardinality(Objects!ToSet(s))
    BY DEF Objects!Cardinality, Cardinality
  <2> QED
    BY <1>2, <2>1, FS_CountingElements
-----------------------------------------------------------------------------
(* Every action of the active object preserves its invariant *)

LEMMA ObjectInit == ASSUME Objects!NumbersAssumption, Objects!Init PROVE ObjectOrdered
<1> USE DEF Objects!NumbersAssumption, Objects!Init, Objects!Clients, Objects!Tasks
<1>1. ObjectTypes
  BY DEF ObjectTypes
<1>2. Enqueued = {}
  BY DEF Enqueued
<1>3. OnePlace
  BY <1>2, SetOfNone DEF OnePlace
<1>4. ServantHolds /\ ListDistinct
  BY DEF ServantHolds, ListDistinct
<1>5. ClientsCount /\ ServesInTurn
  BY DEF ClientsCount, ServesInTurn
<1> QED
  BY <1>1, <1>3, <1>4, <1>5 DEF ObjectOrdered

\* The locks and moves that concern no task.
LEMMA LockListKeeps ==
    ASSUME Objects!NumbersAssumption, ObjectOrdered, NEW c \in Objects!Clients, Objects!LockList(c)
    PROVE  ObjectOrdered'
<1> USE DEF ObjectOrdered, ObjectTypes, Objects!LockList, Objects!Goto
<1>1. ObjectTypes' /\ ServantHolds' /\ ListDistinct' /\ OnePlace'
  BY DEF ServantHolds, ListDistinct, OnePlace, Enqueued
<1>2. ClientsCount' /\ ServesInTurn'
  BY DEF ClientsCount, ServesInTurn
<1> QED
  BY <1>1, <1>2

\* A client pushes the task after those it has enqueued: one that is nowhere.
LEMMA PushKeeps ==
    ASSUME Objects!NumbersAssumption, ObjectOrdered, NEW c \in Objects!Clients, Objects!Push(c)
    PROVE  ObjectOrdered'
<1> DEFINE t == <<c, enqueued[c] + 1>>
<1>1. /\ enqueued[c] < NumTasks /\ enqueued[c] \in 0..NumTasks /\ NumTasks \in Nat
      /\ enqueued \in [Objects!Clients -> 0..NumTasks]
      /\ enqueued' = [enqueued EXCEPT ![c] = enqueued[c] + 1]
  BY DEF ObjectOrdered, ObjectTypes, ClientsCount, Objects!NumbersAssumption, Objects!Push,
     Objects!Goto
<1>2. t \in Objects!Tasks /\ t \notin Enqueued
  BY <1>1 DEF Objects!Tasks, Enqueued
<1>3. Enqueued' = Enqueued \cup {t}
  <2>1. ASSUME NEW u \in Objects!Tasks PROVE u[2] <= enqueued'[u[1]] <=> u[2] <= enqueued[u[1]] \/ u = t
    <3>1. PICK d \in Objects!Clients, n \in 1..NumTasks : u = <<d, n>>
      BY DEF Objects!Tasks
    <3>2. CASE d = c
      BY <1>1, <3>1, <3>2
    <3>3. CASE d # c
      BY <1>1, <3>1, <3>3
    <3> QED
      BY <3>2, <3>3
  <2> QED
    BY <1>2, <2>1 DEF Enqueued
<1>4. activationList' = Append(activationList, t) /\ activationList \in Seq(Objects!Tasks)
  BY DEF ObjectOrdered, ObjectTypes, Objects!Push
<1> HIDE DEF t
<1>5. Objects!ToSet(activationList') = Objects!ToSet(activationList) \cup {t}
  BY <1>2, <1>4, SetOfAppend
<1>6. OnePlace'
  BY <1>2, <1>3, <1>5 DEF ObjectOrdered, OnePlace, Objects!Push
<1>7. ListDistinct'
  <2>1. /\ Len(activationList') = Len(activationList) + 1 /\ Len(activationList) \in Nat
        /\ activationList'[Len(activationList) + 1] = t
        /\ \A i \in 1..Len(activationList) : activationList'[i] = activationList[i]
    BY <1>2, <1>4
  <2>2. ASSUME NEW i \in 1..Len(activationList) PROVE activationList[i] # t
    <3>1. activationList[i] \in Objects!ToSet(activationList)
      BY <1>4 DEF Objects!ToSet
    <3> QED
      BY <1>2, <3>1 DEF ObjectOrdered, OnePlace
  <2> QED
    BY <2>1, <2>2 DEF ObjectOrdered, ListDistinct
<1>8. ObjectTypes'
  <2>1. activationList' \in Seq(Objects!Tasks)
    BY <1>2, <1>4
  <2>2. enqueued' \in [Objects!Clients -> 0..NumTasks]
    BY <1>1
  <2> QED
    BY <2>1, <2>2 DEF ObjectOrdered, ObjectTypes, Objects!Push, Objects!Goto
<1>9. ServantHolds' /\ ClientsCount'
  BY <1>1 DEF ObjectOrdered, ObjectTypes, Objects!Push, Objects!Goto, ServantHolds, ClientsCount
<1>10. ServesInTurn'
  <2>1. activationList' # <<>>
    BY <1>2, <1>4
  <2> QED
    BY <2>1 DEF ObjectOrdered, ObjectTypes, Objects!Push, Objects!Goto, ServesInTurn
<1> QED
  BY <1>6, <1>7, <1>8, <1>9, <1>10 DEF ObjectOrdered

LEMMA ReturnFuturesKeeps ==
    ASSUME Objects!NumbersAssumption, ObjectOrdered, NEW c \in Objects!Clients, Objects!ReturnFutures(c)
    PROVE  ObjectOrdered'
<1> USE DEF ObjectOrdered, ObjectTypes, Objects!ReturnFutures, Objects!Goto
<1>1. ObjectTypes' /\ ServantHolds' /\ ListDistinct' /\ OnePlace'
  BY DEF ServantHolds, ListDistinct, OnePlace, Enqueued
<1>2. ClientsCount' /\ ServesInTurn'
  BY DEF ClientsCount, ServesInTurn
<1> QED
  BY <1>1, <1>2

LEMMA BossKeeps ==
    ASSUME Objects!NumbersAssumption, ObjectOrdered, Objects!BossStep
    PROVE  ObjectOrdered'
<1> USE DEF ObjectOrdered, ObjectTypes
<1>1. UNCHANGED <<activationList, enqueued, myTask, results>>
  BY DEF Objects!BossStep, Objects!StartDeferred, Objects!GetFutures, Objects!StartServant,
     Objects!JoinServant, Objects!GetResults
<1>2. ListDistinct' /\ OnePlace'
  BY <1>1 DEF ListDistinct, OnePlace, Enqueued
<1>3. ASSUME NEW c \in Objects!Clients, Objects!StartDeferred(c)
      PROVE  (ObjectTypes /\ ServantHolds /\ ClientsCount /\ ServesInTurn)'
  BY <1>3 DEF Objects!StartDeferred, Objects!Goto, ServantHolds, ClientsCount, ServesInTurn
<1>4. ASSUME NEW c \in Objects!Clients, Objects!GetFutures(c)
      PROVE  (ObjectTypes /\ ServantHolds /\ ClientsCount /\ ServesInTurn)'
  BY <1>4 DEF Objects!GetFutures, ServantHolds, ClientsCount, ServesInTurn, Objects!Clients,
     Objects!NumbersAssumption
<1>5. CASE Objects!StartServant
  BY <1>2, <1>5 DEF Objects!StartServant, ServantHolds, ClientsCount, ServesInTurn
<1>6. CASE Objects!JoinServant
  BY <1>2, <1>6 DEF Objects!JoinServant, ServantHolds, ClientsCount, ServesInTurn,
     Objects!NumbersAssumption
<1>7. CASE Objects!GetResults
  BY <1>2, <1>7 DEF Objects!GetResults, ServantHolds, ClientsCount, ServesInTurn,
     Objects!NumbersAssumption
<1> QED
  BY <1>2, <1>3, <1>4, <1>5, <1>6, <1>7 DEF Objects!BossStep

LEMMA IsEmptyKeeps ==
    ASSUME Objects!NumbersAssumption, ObjectOrdered, Objects!IsEmpty
    PROVE  ObjectOrdered'
<1> USE DEF ObjectOrdered, ObjectTypes, Objects!IsEmpty
<1>1. ObjectTypes' /\ ServantHolds' /\ ListDistinct' /\ OnePlace'
  BY DEF ServantHolds, ListDistinct, OnePlace, Enqueued
<1>2. ClientsCount' /\ ServesInTurn'
  BY DEF ClientsCount, ServesInTurn
<1> QED
  BY <1>1, <1>2

\* The servant takes out a task that is nowhere else in the list.
LEMMA DequeueKeeps ==
    ASSUME Objects!NumbersAssumption, ObjectOrdered, Objects!DequeueTask
    PROVE  ObjectOrdered'
<1> USE DEF ObjectOrdered, ObjectTypes, Objects!DequeueTask
<1> DEFINE list == activationList
<1>1. /\ list # <<>> /\ myTask = <<>> /\ boss[1] # "get"
  BY DEF ServesInTurn, ServantHolds
<1>2. /\ Len(list) \in Nat \ {0} /\ list' = Tail(list) /\ Len(list') = Len(list) - 1
      /\ list' \in Seq(Objects!Tasks) /\ Head(list) \in Objects!Tasks /\ Head(list) = list[1]
      /\ \A i \in 1..Len(list') : list'[i] = list[i + 1]
  BY <1>1
<1>3. Head(list) \notin Objects!ToSet(list')
  BY <1>2 DEF ListDistinct, Objects!ToSet
<1>4. Objects!ToSet(list) = Objects!ToSet(list') \cup {Head(list)}
  BY <1>1, SetOfTail
<1>5. Objects!ToSet(myTask') = {Head(list)} /\ Objects!ToSet(myTask) = {}
  BY <1>1, SetOfOne, SetOfNone
<1>6. OnePlace'
  BY <1>3, <1>4, <1>5 DEF OnePlace, Enqueued
<1>7. ListDistinct'
  BY <1>2 DEF ListDistinct
<1>8. ObjectTypes' /\ ServantHolds'
  BY <1>2 DEF ServantHolds
<1>9. ClientsCount' /\ ServesInTurn'
  BY <1>1 DEF ClientsCount, ServesInTurn
<1> QED
  BY <1>6, <1>7, <1>8, <1>9

LEMMA CallKeeps ==
    ASSUME Objects!NumbersAssumption, ObjectOrdered, Objects!CallTask
    PROVE  ObjectOrdered'
<1> USE DEF ObjectOrdered, ObjectTypes, Objects!CallTask
<1>1. PICK t \in Objects!Tasks : myTask = <<t>>
  BY DEF ServantHolds
<1>2. Objects!ToSet(myTask) = {t} /\ Objects!ToSet(myTask') = {}
  BY <1>1, SetOfOne, SetOfNone
<1>3. OnePlace'
  BY <1>2 DEF OnePlace, Enqueued
<1>4. ObjectTypes' /\ ServantHolds' /\ ListDistinct'
  BY <1>2 DEF ServantHolds, ListDistinct
<1>5. ClientsCount' /\ ServesInTurn'
  BY DEF ClientsCount, ServesInTurn
<1> QED
  BY <1>3, <1>4, <1>5

LEMMA ObjectKeeps ==
    ASSUME Objects!NumbersAssumption, ObjectOrdered, [Objects!Next]_(Objects!avars)
    PROVE  ObjectOrdered'
<1>1. CASE \E c \in Objects!Clients : Objects!ClientStep(c)
  BY <1>1, LockListKeeps, PushKeeps, ReturnFuturesKeeps DEF Objects!ClientStep
<1>2. CASE Objects!BossStep
  BY <1>2, BossKeeps
<1>3. CASE Objects!ServantStep
  BY <1>3, IsEmptyKeeps, DequeueKeeps, CallKeeps DEF Objects!ServantStep
<1>4. CASE UNCHANGED Objects!avars
  BY <1>4 DEF Objects!avars, ObjectOrdered, ObjectTypes, ServantHolds, ListDistinct, OnePlace,
     Enqueued, ClientsCount, ServesInTurn
<1> QED
  BY <1>1, <1>2, <1>3, <1>4 DEF Objects!Next

-----------------------------------------------------------------------------
(* What the invariant of the active object says *)

LEMMA TaskInOnePlaceNow == ASSUME ObjectOrdered PROVE Objects!TaskInOnePlace
<1>1. Objects!Cardinality(Objects!ToSet(activationList)) = Len(activationList)
  BY LengthIsCardinality DEF ObjectOrdered, ObjectTypes, ListDistinct
<1>2. Objects!ToSet(activationList) \subseteq Objects!Tasks
  BY DEF ObjectOrdered, ObjectTypes, Objects!ToSet
<1>3. Objects!ToSet(myTask) \subseteq Objects!Tasks
  BY SetOfOne, SetOfNone DEF ObjectOrdered, ServantHolds
<1> QED
  BY <1>1, <1>2, <1>3 DEF ObjectOrdered, ObjectTypes, OnePlace, Enqueued, Objects!TaskInOnePlace

LEMMA DequeueFindsTaskNow == ASSUME ObjectOrdered PROVE Objects!DequeueFindsTask
BY DEF ObjectOrdered, ServesInTurn, Objects!DequeueFindsTask

LEMMA NoTaskLeftBehindNow ==
    ASSUME Objects!NumbersAssumption, ObjectOrdered
    PROVE  Objects!NoTaskLeftBehind
<1> SUFFICES ASSUME boss = <<"results", 0>> PROVE results = Objects!Tasks
  BY DEF Objects!NoTaskLeftBehind
<1>1. activationList = <<>> /\ myTask = <<>>
  BY DEF ObjectOrdered, ServesInTurn, ServantHolds
<1>2. results = Enqueued
  BY <1>1, SetOfNone DEF ObjectOrdered, OnePlace
<1>3. \A c \in Objects!Clients : enqueued[c] = NumTasks
  BY DEF ObjectOrdered, ServesInTurn, ClientsCount
<1>4. Enqueued = Objects!Tasks
  BY <1>3 DEF Enqueued, Objects!Tasks, Objects!NumbersAssumption
<1> QED
  BY <1>2, <1>4

ObjectInv == program = "active object" => ObjectOrdered

LEMMA ObjectInvariance == Spec => []ObjectInv
<1>1. Init => ObjectInv
  BY ObjectsAssumption, ObjectInit DEF Init, ObjectInv
<1>2. ObjectInv /\ [Next]_variables => ObjectInv'
  <2> SUFFICES ASSUME ObjectInv, [Next]_variables, program' = "active object"
               PROVE  ObjectOrdered'
    BY DEF ObjectInv
  <2>1. program = "active object" /\ ObjectOrdered
    BY DEF ObjectInv, Next, InCrew, InPair, InObject, InMonitor, variables
  <2>2. [Objects!Next]_(Objects!avars)
    <3>1. CASE UNCHANGED variables
      BY <3>1 DEF variables, object, Objects!avars
    <3> QED
      BY <2>1, <3>1 DEF Next, InCrew, InPair, InObject, InMonitor
  <2> QED
    BY ObjectsAssumption, <2>1, <2>2, ObjectKeeps
<1> QED
  BY <1>1, <1>2, PTL DEF Spec

\* For any number of clients and tasks, a task is still to be enqueued, in the list,
\* with the servant or done, and in one of these places only; none is left behind
\* when the servant has been joined.
THEOREM TasksInOnePlace == Spec => []TaskInOnePlace
<1>1. ObjectInv => TaskInOnePlace
  BY ObjectsAssumption, TaskInOnePlaceNow, NoTaskLeftBehindNow DEF ObjectInv, TaskInOnePlace
<1> QED
  BY <1>1, ObjectInvariance, PTL

\* Though isEmpty() and dequeueTask() lock separately, dequeueTask() finds a task.
THEOREM AlwaysFindsTask == Spec => []DequeueFindsTask
<1>1. ObjectInv => DequeueFindsTask
  BY DequeueFindsTaskNow DEF ObjectInv, DequeueFindsTask
<1> QED
  BY <1>1, ObjectInvariance, PTL

-----------------------------------------------------------------------------
(* The pairs *)

PairTypes == /\ means \in Pairs!Means
             /\ data \in {"empty", "prepared", "complete"}
             /\ ready \in BOOLEAN /\ stop \in BOOLEAN
             /\ ret \in {"none", "true", "false"}
             /\ waiter \in {"lock", "check", "blocked", "work", "done"}
             /\ sender \in {"prepare", "lock", "set", "unlock", "notify", "done"}

\* The condition says where the sender is, and the data before it.
SenderInOrder == /\ ready <=> sender \in {"unlock", "notify", "done"}
                 /\ data = "empty" => sender = "prepare"

\* Who may be blocked is notified; who may be stopped is in one program only.
WaitersKind == /\ waiter = "blocked" => Pairs!Locked \/ means = "flag"
               /\ stop => means = "stoppable"
               /\ ret # "none" => waiter \in {"work", "done"}

PairOrdered == /\ PairTypes /\ SenderInOrder /\ WaitersKind
               /\ Pairs!WorksOnData /\ Pairs!WakeUpOwed

PairInv == program = "pair" => PairOrdered

LEMMA PairInit == ASSUME Pairs!Init PROVE PairOrdered
BY DEF Pairs!Init, PairOrdered, PairTypes, SenderInOrder, WaitersKind, Pairs!WorksOnData,
       Pairs!WakeUpOwed, Pairs!Locked, Pairs!Means

LEMMA PairKeeps == ASSUME PairOrdered, Pairs!Next PROVE PairOrdered'
<1> USE DEF PairOrdered, PairTypes, SenderInOrder, WaitersKind, Pairs!WorksOnData,
            Pairs!WakeUpOwed, Pairs!Locked, Pairs!Means
<1>1. CASE Pairs!Prepare \/ Pairs!SenderLock \/ Pairs!SenderUnlock
  BY <1>1 DEF Pairs!Prepare, Pairs!SenderLock, Pairs!SenderUnlock
<1>2. CASE Pairs!Set
  BY <1>2 DEF Pairs!Set
<1>3. CASE Pairs!Notify
  BY <1>3 DEF Pairs!Notify, Pairs!Woken
<1>4. CASE Pairs!WaiterLock \/ Pairs!Pass
  BY <1>4 DEF Pairs!WaiterLock, Pairs!Pass
<1>5. CASE Pairs!PassStopped
  BY <1>5 DEF Pairs!PassStopped
<1>6. CASE Pairs!Block
  BY <1>6 DEF Pairs!Block
<1>7. CASE Pairs!DoWork
  BY <1>7 DEF Pairs!DoWork
<1>8. CASE Pairs!RequestStop
  BY <1>8 DEF Pairs!RequestStop, Pairs!Woken
<1>9. CASE Pairs!SpuriousWake
  BY <1>9 DEF Pairs!SpuriousWake, Pairs!Woken
<1> HIDE DEF PairOrdered
<1> QED
  BY <1>1, <1>2, <1>3, <1>4, <1>5, <1>6, <1>7, <1>8, <1>9 DEF Pairs!Next, Pairs!SenderStep, Pairs!WaiterStep

LEMMA PairInvariance == Spec => []PairInv
<1>1. Init => PairInv
  BY PairInit DEF Init, PairInv
<1>2. PairInv /\ [Next]_variables => PairInv'
  <2> SUFFICES ASSUME PairInv, [Next]_variables, program' = "pair" PROVE PairOrdered'
    BY DEF PairInv
  <2>1. program = "pair" /\ PairOrdered
    BY DEF PairInv, Next, InCrew, InPair, InObject, InMonitor, variables
  <2>2. CASE Pairs!Next
    BY <2>1, <2>2, PairKeeps
  <2>3. CASE UNCHANGED variables
    BY <2>1, <2>3 DEF variables, pair, PairOrdered, PairTypes, SenderInOrder, WaitersKind,
       Pairs!WorksOnData, Pairs!WakeUpOwed, Pairs!Locked
  <2> QED
    BY <2>1, <2>2, <2>3 DEF Next, InCrew, InPair, InObject, InMonitor
<1> QED
  BY <1>1, <1>2, PTL DEF Spec

\* However often a waiter wakes for nothing, it works on prepared data or knows that
\* it was stopped.
THEOREM AlwaysWorksOnData == Spec => []WorksOnData
<1>1. PairInv => WorksOnData
  BY DEF PairInv, PairOrdered, WorksOnData
<1> QED
  BY <1>1, PairInvariance, PTL

\* No notification is lost, with any of the six means.
THEOREM NoLostWakeUp == Spec => []WakeUpOwed
<1>1. PairInv => WakeUpOwed
  BY DEF PairInv, PairOrdered, WakeUpOwed
<1> QED
  BY <1>1, PairInvariance, PTL

-----------------------------------------------------------------------------
(* The monitor object with one getter *)

MonitorTypes == /\ pushed \in Seq(Adders)
                /\ popped \in 0..Len(pushed)
                /\ pc \in [Monitor!Threads -> Monitor!AdderPC \cup Monitor!GetterPC]
                /\ \A a \in Adders : pc[a] \in Monitor!AdderPC
                /\ got \in [{Getter} -> Seq(Adders)]

\* Nobody but the getter takes elements out: what it has seen is still there.
GetterAlone == /\ pc[Getter] \in {"wait_unlock", "lock", "front"} => popped < Len(pushed)
               /\ Len(got[Getter]) <= NumGets
               /\ pc[Getter] \notin {"unlock", "done"} => Len(got[Getter]) < NumGets

MonitorOrdered == MonitorTypes /\ GetterAlone

MonitorInv == program = "monitor object" => MonitorOrdered

LEMMA MonitorInit == ASSUME Monitor!Init PROVE MonitorOrdered
BY SynchronizationAssumption
   DEF Monitor!Init, MonitorOrdered, MonitorTypes, GetterAlone, Monitor!Threads,
       Monitor!AdderPC, Monitor!GetterPC

LEMMA MonitorKeeps == ASSUME MonitorOrdered, Monitor!Next PROVE MonitorOrdered'
<1> USE SynchronizationAssumption
    DEF MonitorOrdered, MonitorTypes, GetterAlone, Monitor!Threads, Monitor!AdderPC,
        Monitor!GetterPC, Monitor!Goto, Monitor!queue, Monitor!empty
<1>1. ASSUME NEW a \in Adders, Monitor!AddLock(a) \/ Monitor!AddUnlock(a) PROVE MonitorOrdered'
  BY <1>1 DEF Monitor!AddLock, Monitor!AddUnlock
<1>2. ASSUME NEW a \in Adders, Monitor!AddPush(a) PROVE MonitorOrdered'
  <2>1. pushed' \in Seq(Adders) /\ Len(pushed') = Len(pushed) + 1 /\ Len(pushed) \in Nat
    BY <1>2 DEF Monitor!AddPush
  <2> QED
    BY <1>2, <2>1 DEF Monitor!AddPush
<1>3. ASSUME NEW a \in Adders, Monitor!AddNotify(a) PROVE MonitorOrdered'
  BY <1>3 DEF Monitor!AddNotify, Monitor!Blocked
<1>4. CASE Monitor!WaitLock(Getter) \/ Monitor!WaitBlock(Getter) \/ Monitor!WaitReady(Getter)
  BY <1>4 DEF Monitor!WaitLock, Monitor!WaitBlock, Monitor!WaitReady
<1>5. CASE Monitor!WaitUnlock(Getter) \/ Monitor!GetLock(Getter) \/ Monitor!SpuriousWake(Getter)
  BY <1>5 DEF Monitor!WaitUnlock, Monitor!GetLock, Monitor!SpuriousWake
<1>6. CASE Monitor!GetUnlock(Getter)
  <2>1. /\ pc[Getter] = "unlock" /\ UNCHANGED <<pushed, popped, got>>
        /\ pc' = [pc EXCEPT ![Getter] = IF Len(got[Getter]) = NumGets THEN "done" ELSE "wait_lock"]
    BY <1>6 DEF Monitor!GetUnlock
  <2>2. Len(got[Getter]) \in Nat
    OBVIOUS
  <2> QED
    BY <2>1, <2>2
<1>7. CASE Monitor!GetFront(Getter)
  <2>1. /\ popped < Len(pushed) /\ pushed[popped + 1] \in Adders /\ Len(got[Getter]) < NumGets
        /\ pc' = [pc EXCEPT ![Getter] = "unlock"] /\ pushed' = pushed /\ popped' = popped + 1
        /\ got' = [got EXCEPT ![Getter] = Append(@, pushed[popped + 1])]
    BY <1>7 DEF Monitor!GetFront
  <2>2. /\ Append(got[Getter], pushed[popped + 1]) \in Seq(Adders)
        /\ Len(Append(got[Getter], pushed[popped + 1])) <= NumGets
    BY <2>1
  <2> QED
    BY <2>1, <2>2
<1>8. CASE Monitor!Quiet
  BY <1>8 DEF Monitor!Quiet, Monitor!vars
<1> QED
  BY <1>1, <1>2, <1>3, <1>4, <1>5, <1>6, <1>7, <1>8
  DEF Monitor!Next, Monitor!AdderStep, Monitor!GetterStep

LEMMA MonitorInvariance == Spec => []MonitorInv
<1>1. Init => MonitorInv
  BY MonitorInit DEF Init, MonitorInv
<1>2. MonitorInv /\ [Next]_variables => MonitorInv'
  <2> SUFFICES ASSUME MonitorInv, [Next]_variables, program' = "monitor object"
               PROVE  MonitorOrdered'
    BY DEF MonitorInv
  <2>1. program = "monitor object" /\ MonitorOrdered
    BY DEF MonitorInv, Next, InCrew, InPair, InObject, InMonitor, variables
  <2>2. CASE Monitor!Next
    BY <2>1, <2>2, MonitorKeeps
  <2>3. CASE UNCHANGED variables
    BY <2>1, <2>3 DEF variables, monitor, MonitorOrdered, MonitorTypes, GetterAlone
  <2> QED
    BY <2>1, <2>2, <2>3 DEF Next, InCrew, InPair, InObject, InMonitor
<1> QED
  BY <1>1, <1>2, PTL DEF Spec

\* The part of the queue that is left.
LEMMA Rest == ASSUME NEW S, NEW s \in Seq(S), NEW n \in 0..Len(s)
              PROVE  /\ SubSeq(s, n + 1, Len(s)) \in Seq(S)
                     /\ Len(SubSeq(s, n + 1, Len(s))) = Len(s) - n
                     /\ \A i \in 1..(Len(s) - n) : SubSeq(s, n + 1, Len(s))[i] = s[n + i]
<1> DEFINE rest == SubSeq(s, n + 1, Len(s))
<1>1. \A i \in (n + 1)..Len(s) : s[i] \in S
  OBVIOUS
<1>2. /\ rest \in Seq(S) /\ Len(rest) = IF n + 1 <= Len(s) THEN Len(s) - (n + 1) + 1 ELSE 0
      /\ \A i \in 1..(Len(s) - (n + 1) + 1) : rest[i] = s[n + 1 + i - 1]
  BY <1>1, SubSeqProperties
<1> QED
  BY <1>2

LEMMA AppendLater == ASSUME NEW S, NEW s \in Seq(S), NEW n \in 0..Len(s), NEW e \in S
                     PROVE  SubSeq(Append(s, e), n + 1, Len(s) + 1)
                               = Append(SubSeq(s, n + 1, Len(s)), e)
<1> DEFINE longer == Append(s, e)
           rest   == SubSeq(s, n + 1, Len(s))
           whole  == SubSeq(longer, n + 1, Len(longer))
<1>1. /\ Len(s) \in Nat /\ longer \in Seq(S) /\ Len(longer) = Len(s) + 1
      /\ \A i \in 1..(Len(s) + 1) : longer[i] = IF i <= Len(s) THEN s[i] ELSE e
  OBVIOUS
<1>2. /\ rest \in Seq(S) /\ Len(rest) = Len(s) - n
      /\ \A i \in 1..(Len(s) - n) : rest[i] = s[n + i]
  BY Rest
<1> HIDE DEF longer
<1>3. n \in 0..Len(longer)
  BY <1>1
<1>4. /\ whole \in Seq(S) /\ Len(whole) = Len(s) + 1 - n
      /\ \A i \in 1..(Len(s) + 1 - n) : whole[i] = longer[n + i]
  BY <1>1, <1>3, Rest
<1> HIDE DEF whole, rest
<1>5. /\ Append(rest, e) \in Seq(S) /\ Len(Append(rest, e)) = Len(rest) + 1
      /\ \A i \in 1..(Len(rest) + 1) : Append(rest, e)[i] = IF i <= Len(rest) THEN rest[i] ELSE e
  BY <1>2
<1>6. ASSUME NEW i \in 1..Len(whole) PROVE whole[i] = Append(rest, e)[i]
  <2>1. /\ i \in 1..(Len(s) + 1 - n) /\ n + i \in 1..(Len(s) + 1) /\ i \in 1..(Len(rest) + 1)
        /\ whole[i] = longer[n + i]
    BY <1>1, <1>2, <1>4
  <2>2. CASE i <= Len(s) - n
    <3>1. whole[i] = s[n + i] /\ i \in 1..(Len(s) - n)
      BY <1>1, <2>1, <2>2
    <3> QED
      BY <1>2, <1>5, <2>1, <2>2, <3>1
  <2>3. CASE i > Len(s) - n
    <3>1. whole[i] = e
      BY <1>1, <2>1, <2>3
    <3> QED
      BY <1>2, <1>5, <2>1, <2>3, <3>1
  <2> QED
    BY <1>1, <2>1, <2>2, <2>3
<1>7. Len(whole) = Len(Append(rest, e))
  BY <1>1, <1>2, <1>4, <1>5
<1>8. whole = Append(rest, e)
  BY <1>4, <1>5, <1>6, <1>7, SeqEqual
<1> QED
  BY <1>1, <1>8 DEF whole, rest, longer

LEMMA FirstOfRest == ASSUME NEW S, NEW s \in Seq(S), NEW n \in Nat, n < Len(s)
                     PROVE  /\ SubSeq(s, n + 1, Len(s)) # <<>>
                            /\ Head(SubSeq(s, n + 1, Len(s))) = s[n + 1]
                            /\ Tail(SubSeq(s, n + 1, Len(s))) = SubSeq(s, n + 2, Len(s))
<1>1. /\ n + 1 \in 1..Len(s) /\ Len(s) \in (n + 1)..Len(s) /\ n + 1 + 1 = n + 2
      /\ n \in 0..Len(s)
  OBVIOUS
<1>2. Len(SubSeq(s, n + 1, Len(s))) = Len(s) - n
  BY <1>1, Rest
<1> DEFINE rest == SubSeq(s, n + 1, Len(s))
<1>3. Len(rest) > 0
  BY <1>1, <1>2
<1>4. rest # <<>>
  <2> HIDE DEF rest
  <2> QED
    BY <1>3
<1>5. Head(rest) = s[n + 1] /\ Tail(rest) = SubSeq(s, n + 1 + 1, Len(s))
  BY <1>1, HeadTailOfSubSeq
<1> QED
  BY <1>1, <1>4, <1>5

MonitorQueue == INSTANCE QueueSpec
    WITH Getters <- 1..NumGets, items <- Monitor!items, put <- Monitor!put, taken <- valuesRead

\* A call that has read its value keeps it; the next one has none yet.
LEMMA ValueRead ==
    ASSUME got \in [{Getter} -> Seq(Adders)], Len(got[Getter]) < NumGets,
           NEW a \in Adders, got' = [got EXCEPT ![Getter] = Append(@, a)]
    PROVE  LET k == Len(got[Getter]) + 1
           IN  /\ k \in 1..NumGets /\ valuesRead[k] = NoValue
               /\ valuesRead' = [valuesRead EXCEPT ![k] = a]
<1> DEFINE s == got[Getter]
           k == Len(s) + 1
<1>1. s \in Seq(Adders) /\ Len(s) \in Nat /\ got'[Getter] = Append(s, a)
  OBVIOUS
<1>2. k \in 1..NumGets
  BY <1>1, SynchronizationAssumption
<1>3. valuesRead[k] = NoValue
  BY <1>1, <1>2 DEF valuesRead
<1> HIDE DEF s
<1>4. Len(Append(s, a)) = Len(s) + 1 /\ Append(s, a)[Len(s) + 1] = a
      /\ \A i \in 1..Len(s) : Append(s, a)[i] = s[i]
  BY <1>1
<1>5. ASSUME NEW i \in 1..NumGets
      PROVE  (IF i <= Len(Append(s, a)) THEN Append(s, a)[i] ELSE NoValue)
                = IF i = k THEN a ELSE IF i <= Len(s) THEN s[i] ELSE NoValue
  <2>1. i <= Len(s) => i \in 1..Len(s)
    BY <1>1, SynchronizationAssumption
  <2>2. i <= Len(Append(s, a)) <=> i <= Len(s) \/ i = k
    BY <1>1, <1>4, SynchronizationAssumption
  <2> QED
    BY <1>1, <1>4, <2>1, <2>2
<1>6. valuesRead = [i \in 1..NumGets |-> IF i <= Len(s) THEN s[i] ELSE NoValue]
  BY DEF valuesRead, s
<1>7. valuesRead' = [i \in 1..NumGets |-> IF i <= Len(Append(s, a)) THEN Append(s, a)[i] ELSE NoValue]
  BY <1>1 DEF valuesRead
<1>8. valuesRead' = [valuesRead EXCEPT ![k] = a]
  BY <1>2, <1>5, <1>6, <1>7
<1> QED
  BY <1>2, <1>3, <1>8 DEF s

\* Pushing is putting, and reading the front is taking.
LEMMA MonitorImplements == ASSUME MonitorOrdered, Monitor!Next
                           PROVE  [MonitorQueue!Next]_(MonitorQueue!qvars)
<1> USE SynchronizationAssumption
    DEF Monitor!Threads, Monitor!Goto, Monitor!queue
<1>0. /\ pushed \in Seq(Adders) /\ Len(pushed) \in Nat /\ popped \in 0..Len(pushed)
      /\ pc \in [Adders \cup {Getter} -> Monitor!AdderPC \cup Monitor!GetterPC]
      /\ \A a \in Adders : pc[a] \in Monitor!AdderPC
      /\ got \in [{Getter} -> Seq(Adders)]
      /\ pc[Getter] = "front" => popped < Len(pushed) /\ Len(got[Getter]) < NumGets
  <2>1. pushed \in Seq(Adders) /\ popped \in 0..Len(pushed)
    BY DEF MonitorOrdered, MonitorTypes
  <2>2. Len(pushed) \in Nat
    BY <2>1
  <2>3. /\ pc \in [Adders \cup {Getter} -> Monitor!AdderPC \cup Monitor!GetterPC]
        /\ \A a \in Adders : pc[a] \in Monitor!AdderPC
        /\ got \in [{Getter} -> Seq(Adders)]
    BY DEF MonitorOrdered, MonitorTypes
  <2>4. pc[Getter] = "front" => popped < Len(pushed) /\ Len(got[Getter]) < NumGets
    BY DEF MonitorOrdered, GetterAlone
  <2> QED
    BY <2>1, <2>2, <2>3, <2>4
<1>1. ASSUME NEW a \in Adders, Monitor!AddLock(a) \/ Monitor!AddUnlock(a)
      PROVE  UNCHANGED MonitorQueue!qvars
  BY <1>0, <1>1 DEF Monitor!AddLock, Monitor!AddUnlock, Monitor!items, Monitor!put, MonitorQueue!qvars,
     valuesRead
<1>2. ASSUME NEW a \in Adders, Monitor!AddPush(a) PROVE MonitorQueue!Put(a)
  <2>1. /\ pushed' = Append(pushed, a) /\ popped' = popped /\ got' = got
        /\ pc' = [pc EXCEPT ![a] = "unlock"] /\ pc[a] = "push"
    BY <1>0, <1>2 DEF Monitor!AddPush
  <2>2. Monitor!items' = Append(Monitor!items, a)
    <3>1. Len(pushed') = Len(pushed) + 1
      BY <1>0, <2>1
    <3>2. SubSeq(Append(pushed, a), popped + 1, Len(pushed) + 1)
             = Append(SubSeq(pushed, popped + 1, Len(pushed)), a)
      <4>1. pushed \in Seq(Adders) /\ popped \in 0..Len(pushed) /\ a \in Adders
        BY <1>0
      <4> QED
        BY <4>1, AppendLater, ZenonT(120)
    <3> QED
      BY <2>1, <3>1, <3>2 DEF Monitor!items
  <2>3. Monitor!put' = Monitor!put \cup {a} /\ a \notin Monitor!put
    BY <1>0, <2>1 DEF Monitor!put
  <2> QED
    BY <2>1, <2>2, <2>3 DEF MonitorQueue!Put, valuesRead
<1>3. ASSUME NEW a \in Adders, Monitor!AddNotify(a) PROVE UNCHANGED MonitorQueue!qvars
  BY <1>0, <1>3 DEF Monitor!AddNotify, Monitor!Blocked, Monitor!items, Monitor!put, MonitorQueue!qvars,
     valuesRead
<1>4. CASE Monitor!WaitLock(Getter) \/ Monitor!WaitBlock(Getter) \/ Monitor!WaitReady(Getter)
  BY <1>0, <1>4 DEF Monitor!WaitLock, Monitor!WaitBlock, Monitor!WaitReady, Monitor!items,
     Monitor!put, MonitorQueue!qvars, valuesRead
<1>5. CASE \/ Monitor!WaitUnlock(Getter) \/ Monitor!GetLock(Getter) \/ Monitor!GetUnlock(Getter)
           \/ Monitor!SpuriousWake(Getter)
  BY <1>0, <1>5 DEF Monitor!WaitUnlock, Monitor!GetLock, Monitor!GetUnlock, Monitor!SpuriousWake,
     Monitor!items, Monitor!put, MonitorQueue!qvars, valuesRead
<1>6. CASE Monitor!GetFront(Getter)
  <2>1. /\ popped \in Nat /\ popped < Len(pushed) /\ pc[Getter] = "front"
        /\ pc' = [pc EXCEPT ![Getter] = "unlock"] /\ pushed' = pushed /\ popped' = popped + 1
        /\ got' = [got EXCEPT ![Getter] = Append(@, pushed[popped + 1])]
        /\ pushed[popped + 1] \in Adders /\ Len(got[Getter]) < NumGets
    BY <1>0, <1>6 DEF Monitor!GetFront
  <2>2. /\ Monitor!items # <<>> /\ Head(Monitor!items) = pushed[popped + 1]
        /\ Monitor!items' = Tail(Monitor!items)
    <3>1. /\ SubSeq(pushed, popped + 1, Len(pushed)) # <<>>
          /\ Head(SubSeq(pushed, popped + 1, Len(pushed))) = pushed[popped + 1]
          /\ Tail(SubSeq(pushed, popped + 1, Len(pushed))) = SubSeq(pushed, popped + 2, Len(pushed))
      BY <1>0, <2>1, FirstOfRest
    <3>2. popped' + 1 = popped + 2
      BY <1>0, <2>1
    <3> QED
      BY <2>1, <3>1, <3>2 DEF Monitor!items
  <2>3. Monitor!put' = Monitor!put
    BY <1>0, <2>1 DEF Monitor!put
  <2> QED
    <3> DEFINE k == Len(got[Getter]) + 1
    <3>1. /\ k \in 1..NumGets /\ valuesRead[k] = NoValue
          /\ valuesRead' = [valuesRead EXCEPT ![k] = Head(Monitor!items)]
      BY <1>0, <2>1, <2>2, ValueRead
    <3> HIDE DEF k
    <3>2. MonitorQueue!Take(k)
      BY <2>2, <2>3, <3>1 DEF MonitorQueue!Take
    <3> QED
      BY <3>1, <3>2 DEF MonitorQueue!Next
<1>7. CASE Monitor!Quiet
  BY <1>0, <1>7 DEF Monitor!Quiet, Monitor!vars, Monitor!items, Monitor!put, MonitorQueue!qvars,
     valuesRead
<1> QED
  BY <1>1, <1>2, <1>3, <1>4, <1>5, <1>6, <1>7
  DEF Monitor!Next, Monitor!AdderStep, Monitor!GetterStep, MonitorQueue!Next

LEMMA QueueStays == ASSUME UNCHANGED <<program, monitor>>, program = "monitor object" => UNCHANGED pc
                    PROVE  UNCHANGED Queue!qvars
BY DEF Queue!qvars, monitor, Monitor!items, Monitor!put, valuesRead

\* With one getter, however often it calls get() and wakes for nothing, the monitor
\* object is a queue, though wait() gives the mutex back before get() takes it again.
THEOREM OneGetterHasAQueue == Spec => ImplementsQueue
<1>1. Init => Queue!Init
  <2> SUFFICES ASSUME Init PROVE Queue!Init
    OBVIOUS
  <2>1. CASE program # "monitor object"
    BY <2>1 DEF Queue!Init
  <2>2. CASE program = "monitor object"
    <3>1. Monitor!Init
      BY <2>2 DEF Init
    <3>2. SubSeq(<<>>, 0 + 1, Len(<<>>)) = <<>> /\ Len(<<>>) = 0
      OBVIOUS
    <3>3. Monitor!items = <<>> /\ Monitor!put = {}
      BY <3>1, <3>2, SynchronizationAssumption DEF Monitor!Init, Monitor!items, Monitor!put, Monitor!Threads
    <3>4. got[Getter] = <<>>
      BY <3>1 DEF Monitor!Init
    <3>5. \A k \in 1..NumGets : ~(k <= 0)
      BY SynchronizationAssumption
    <3>6. valuesRead = [k \in 1..NumGets |-> NoValue]
      BY <3>2, <3>4, <3>5 DEF valuesRead
    <3> QED
      BY <2>2, <3>3, <3>6 DEF Queue!Init
  <2> QED
    BY <2>1, <2>2
<1>2. MonitorInv /\ [Next]_variables => [Queue!Next]_(Queue!qvars)
  <2> SUFFICES ASSUME MonitorInv, [Next]_variables PROVE [Queue!Next]_(Queue!qvars)
    OBVIOUS
  <2>1. CASE InMonitor(Monitor!Next)
    <3>1. [MonitorQueue!Next]_(MonitorQueue!qvars)
      BY <2>1, MonitorImplements DEF InMonitor, MonitorInv
    <3>2. program = "monitor object" /\ program' = "monitor object"
      BY <2>1 DEF InMonitor
    <3> QED
      BY <3>1, <3>2, Zenon DEF MonitorQueue!Next, MonitorQueue!Put, MonitorQueue!Take,
         MonitorQueue!qvars, Queue!Next, Queue!Put, Queue!Take, Queue!qvars
  <2>2. CASE InCrew(Crews!Next) \/ InPair(Pairs!Next) \/ InObject(Objects!Next)
    BY <2>2, QueueStays DEF InCrew, InPair, InObject
  <2>3. CASE UNCHANGED variables
    BY <2>3, QueueStays DEF variables
  <2> QED
    BY <2>1, <2>2, <2>3 DEF Next
<1> QED
  BY <1>1, <1>2, MonitorInvariance, PTL DEF Spec, ImplementsQueue, Queue!Safe
=============================================================================
