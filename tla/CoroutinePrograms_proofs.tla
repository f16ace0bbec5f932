---------------------- MODULE CoroutinePrograms_proofs ----------------------
(***************************************************************************)
(* Proofs about the coroutine examples where they are put together: an     *)
(* interleaved generator takes turns and loses nothing, a consumer gets    *)
(* all data, a task owns its frame alone, coroutines that await each other *)
(* follow live handles only and begin and end like ordinary calls, and a   *)
(* parser yields what was sent as a frame, and all of it.  They hold for   *)
(* vectors, streams and data of any length and for any arguments.          *)
(***************************************************************************)
EXTENDS CoroutinePrograms, FiniteSetTheorems, SequenceTheorems, WellFoundedInduction, TLAPS

-----------------------------------------------------------------------------
(* Numbers and recursive functions *)

\* A set of numbers that is not empty has a least one: what stands for an induction
\* below is the least counterexample.
LEMMA LeastNumber == ASSUME NEW T \in SUBSET Nat, T # {}
                     PROVE  \E m \in T : \A n \in T : m <= n
<1>1. PICK m \in T : \A n \in T : ~(<<n, m>> \in OpToRel(<, Nat))
  BY NatLessThanWellFounded, WFMin
<1>2. \A n \in T : ~(n < m)
  BY <1>1 DEF OpToRel
<1> QED
  BY <1>2

\* What a function g on 1..n is defined by: its value at a later place, or where it stops
\* a value of its own.
Leads(n, V, later, stop, base, step) ==
    /\ n \in Nat /\ later \in [1..n -> Nat] /\ stop \in [1..n -> BOOLEAN]
    /\ base \in [1..n -> V] /\ step \in [1..n -> [V -> V]]
    /\ \A f \in 1..n : ~stop[f] => later[f] \in 1..n /\ f < later[f]
Solves(g, n, V, later, stop, base, step) ==
    /\ g \in [1..n -> V]
    /\ \A f \in 1..n : g[f] = IF stop[f] THEN base[f] ELSE step[f][g[later[f]]]

\* There is such a function.
LEMMA DefinedFromLater ==
    ASSUME NEW n, NEW V, NEW later, NEW stop, NEW base, NEW step,
           Leads(n, V, later, stop, base, step)
    PROVE  \E g : Solves(g, n, V, later, stop, base, step)
<1> USE DEF Leads
<1> DEFINE Holds(g, f) == g[f] = IF stop[f] THEN base[f] ELSE step[f][g[later[f]]]
           Defined(k) == \E g \in [1..n -> V] : \A f \in 1..n : n - k < f => Holds(g, f)
           T == {k \in 0..n : ~Defined(k)}
<1>1. T = {}
  <2> SUFFICES ASSUME T # {} PROVE FALSE
    OBVIOUS
  <2>1. PICK k \in T : \A m \in T : k <= m
    <3>1. T \in SUBSET Nat
      OBVIOUS
    <3> HIDE DEF T
    <3> QED
      BY <3>1, LeastNumber
  <2>2. k # 0
    <3>1. Defined(0)
      OBVIOUS
    <3> QED
      BY <2>1, <3>1
  <2>3. k - 1 \in 0..n /\ Defined(k - 1)
    <3>1. k \in 0..n /\ \A m \in T : k <= m
      BY <2>1
    <3>2. k - 1 \in 0..n /\ ~(k <= k - 1)
      BY <2>2, <3>1
    <3>3. k - 1 \notin T
      <4> HIDE DEF T
      <4> QED
        BY <3>1, <3>2
    <3> HIDE DEF Defined
    <3> QED
      BY <3>2, <3>3
  <2>4. PICK g \in [1..n -> V] : \A f \in 1..n : n - (k - 1) < f => Holds(g, f)
    BY <2>3
  <2> DEFINE p == n - (k - 1)
             v == IF stop[p] THEN base[p] ELSE step[p][g[later[p]]]
             h == [g EXCEPT ![p] = v]
  <2>5. p \in 1..n
    BY <2>1, <2>2
  <2>6. v \in V
    <3>1. CASE stop[p]
      BY <2>5, <3>1
    <3>2. CASE ~stop[p]
      <4>1. later[p] \in 1..n
        BY <2>5, <3>2
      <4>2. g[later[p]] \in V /\ step[p] \in [V -> V]
        BY <2>5, <4>1
      <4> QED
        BY <3>2, <4>2
    <3> QED
      BY <3>1, <3>2
  <2>7. h \in [1..n -> V] /\ h[p] = v /\ \A f \in 1..n : f # p => h[f] = g[f]
    <3> HIDE DEF v, p, Holds
    <3> QED
      BY <2>5, <2>6
  <2>8. ASSUME NEW f \in 1..n, n - k < f PROVE Holds(h, f)
    <3>1. f = p \/ (p < f /\ n - (k - 1) < f)
      BY <2>1, <2>8
    <3>2. ~stop[f] => later[f] # p /\ later[f] \in 1..n
      BY <2>5, <3>1
    <3>3. ~stop[f] => h[later[f]] = g[later[f]]
      <4> HIDE DEF h
      <4> QED
        BY <2>7, <3>2
    <3>4. CASE f = p
      <4>1. h[f] = IF stop[f] THEN base[f] ELSE step[f][g[later[f]]]
        <5> HIDE DEF h
        <5> QED
          BY <2>7, <3>4
      <4> HIDE DEF h
      <4> QED
        BY <3>3, <4>1
    <3>5. CASE f # p
      <4>1. h[f] = IF stop[f] THEN base[f] ELSE step[f][g[later[f]]]
        <5>1. h[f] = g[f]
          <6> HIDE DEF h
          <6> QED
            BY <2>7, <3>5
        <5>2. Holds(g, f)
          BY <2>4, <3>1, <3>5
        <5> HIDE DEF h
        <5> QED
          BY <5>1, <5>2
      <4> HIDE DEF h
      <4> QED
        BY <3>3, <4>1
    <3> QED
      BY <3>4, <3>5
  <2>9. Defined(k)
    <3> HIDE DEF h, Holds
    <3> QED
      BY <2>7, <2>8
  <2> QED
    BY <2>1, <2>9
<1>2. Defined(n)
  <2> HIDE DEF Defined
  <2> QED
    BY <1>1
<1>3. \A f \in 1..n : n - n < f
  OBVIOUS
<1> QED
  BY <1>2, <1>3 DEF Solves

-----------------------------------------------------------------------------
(* The interleaved generator *)

Uncalled == turn = "uncalled" => /\ next = [c \in Weave!Vectors |-> 1]
                                 /\ output = <<>> /\ value = <<>>

\* Where next is: the one whose turn it is has as many values behind it as the
\* other one, or the other one has no more.
Turns == /\ turn = "a" => /\ next["a"] <= lengths["a"]
                          /\ next["b"] - 1 = Weave!Shorter(next["a"] - 1, lengths["b"])
         /\ turn = "b" => /\ next["b"] <= lengths["b"]
                          /\ next["a"] - 1 = Weave!Shorter(next["b"], lengths["a"])
         /\ turn = "none" => \A c \in Weave!Vectors : next[c] = lengths[c] + 1
         /\ turn \in Weave!Vectors => value = <<turn, next[turn]>>
         /\ finished <=> turn = "none"

\* The values before the present ones, which are all read.
Passed == next["a"] + next["b"] - 2

\* What main() has read, and whether it has read the present value.
Reads == /\ Len(output) = Passed \/ (turn \in Weave!Vectors /\ Len(output) = Passed + 1)
         /\ Len(output) = Passed + 1 => output[Len(output)] = value
         /\ \A p \in 1..Len(output) :
               p <= Passed => output[p][2] < next[output[p][1]]

\* The part of Interleaves that is about the values.
InPlace == \A c \in Weave!Vectors : \A i \in 1..lengths[c] :
              Weave!Place(c, i) <= Len(output) => output[Weave!Place(c, i)] = <<c, i>>

WeaveTypes == /\ lengths \in [Weave!Vectors -> Nat]
              /\ next \in [Weave!Vectors -> Nat \ {0}]
              /\ turn \in {"uncalled", "a", "b", "none"}
              /\ output \in Seq(Weave!Vectors \X Nat)

WeaveOrdered == WeaveTypes /\ Uncalled /\ Turns /\ Reads /\ InPlace

WeaveInv == example = "weave" => WeaveOrdered

LEMMA PlaceProperties ==
    ASSUME lengths \in [Weave!Vectors -> Nat]
    PROVE  /\ \A c \in Weave!Vectors, i \in Nat \ {0} : Weave!Place(c, i) \in Nat \ {0}
           /\ \A c, d \in Weave!Vectors : \A i \in 1..lengths[c], k \in 1..lengths[d] :
                 Weave!Place(c, i) = Weave!Place(d, k) => c = d /\ i = k
<1>1. /\ lengths["a"] \in Nat /\ lengths["b"] \in Nat
      /\ \A i : Weave!Place("a", i) = i + Weave!Shorter(i - 1, lengths["b"])
      /\ \A i : Weave!Place("b", i) = i + Weave!Shorter(i, lengths["a"])
  BY DEF Weave!Vectors, Weave!Place
<1>2. \A i \in Nat, n \in Nat : Weave!Shorter(i, n) \in Nat
  BY DEF Weave!Shorter
<1>3. ASSUME NEW c \in Weave!Vectors, NEW i \in Nat \ {0} PROVE Weave!Place(c, i) \in Nat \ {0}
  <2>1. /\ i \in Nat \ {0} /\ Weave!Shorter(i - 1, lengths["b"]) \in Nat
        /\ Weave!Shorter(i, lengths["a"]) \in Nat
    <3>1. i \in Nat /\ i - 1 \in Nat
      OBVIOUS
    <3> QED
      BY <1>1, <1>2, <3>1
  <2>2. Weave!Place("a", i) \in Nat \ {0} /\ Weave!Place("b", i) \in Nat \ {0}
    BY <1>1, <2>1
  <2> QED
    BY <2>2 DEF Weave!Vectors
<1>4. ASSUME NEW i \in 1..lengths["a"], NEW k \in 1..lengths["a"],
             Weave!Place("a", i) = Weave!Place("a", k)
      PROVE  i = k
  BY <1>1, <1>4 DEF Weave!Shorter
<1>5. ASSUME NEW i \in 1..lengths["b"], NEW k \in 1..lengths["b"],
             Weave!Place("b", i) = Weave!Place("b", k)
      PROVE  i = k
  BY <1>1, <1>5 DEF Weave!Shorter
<1>6. ASSUME NEW i \in 1..lengths["a"], NEW k \in 1..lengths["b"]
      PROVE  Weave!Place("a", i) # Weave!Place("b", k)
  BY <1>1 DEF Weave!Shorter
<1> QED
  BY <1>3, <1>4, <1>5, <1>6 DEF Weave!Vectors

LEMMA NextTurns ==
    ASSUME WeaveTypes, NEW n \in [Weave!Vectors -> Nat \ {0}],
           NEW last \in {"none", "a", "b"}, Weave!YieldFrom(n, last)
    PROVE  /\ turn' = IF last = "a"
                        THEN IF n["b"] <= lengths["b"] THEN "b"
                             ELSE IF n["a"] <= lengths["a"] THEN "a" ELSE "none"
                        ELSE IF n["a"] <= lengths["a"] THEN "a"
                             ELSE IF n["b"] <= lengths["b"] THEN "b" ELSE "none"
           /\ finished' <=> turn' = "none"
           /\ turn' # "none" => value' = <<turn', n[turn']>>
<1>1. /\ lengths["a"] \in Nat /\ lengths["b"] \in Nat /\ n["a"] \in Nat /\ n["b"] \in Nat
  BY DEF WeaveTypes, Weave!Vectors
<1>2. /\ Weave!Finished(n, "a") <=> ~(n["a"] <= lengths["a"])
      /\ Weave!Finished(n, "b") <=> ~(n["b"] <= lengths["b"])
  BY <1>1 DEF Weave!Finished
<1>3. Weave!NextTurn(n, last) =
         IF last = "a" THEN IF ~Weave!Finished(n, "b") THEN "b"
                            ELSE IF ~Weave!Finished(n, "a") THEN "a" ELSE "none"
                       ELSE IF ~Weave!Finished(n, "a") THEN "a"
                            ELSE IF ~Weave!Finished(n, "b") THEN "b" ELSE "none"
  BY DEF Weave!NextTurn
<1>4. /\ turn' = Weave!NextTurn(n, last)
      /\ finished' <=> turn' = "none"
      /\ turn' # "none" => value' = <<turn', n[turn']>>
  BY DEF Weave!YieldFrom
<1> QED
  BY <1>2, <1>3, <1>4

LEMMA WeaveCall == ASSUME WeaveOrdered, Weave!Call PROVE WeaveOrdered'
<1>1. /\ turn = "uncalled" /\ Weave!YieldFrom(next, "none") /\ UNCHANGED <<lengths, next, output>>
      /\ next = [c \in Weave!Vectors |-> 1] /\ output = <<>>
  BY DEF Weave!Call, WeaveOrdered, Uncalled
<1>2. /\ next["a"] = 1 /\ next["b"] = 1 /\ lengths["a"] \in Nat /\ lengths["b"] \in Nat
  BY <1>1 DEF Weave!Vectors, WeaveOrdered, WeaveTypes
<1>3. /\ turn' = IF next["a"] <= lengths["a"] THEN "a"
                 ELSE IF next["b"] <= lengths["b"] THEN "b" ELSE "none"
      /\ finished' <=> turn' = "none"
      /\ turn' # "none" => value' = <<turn', next[turn']>>
  BY <1>1, NextTurns DEF WeaveOrdered, WeaveTypes
<1>4. WeaveTypes' /\ Uncalled'
  BY <1>1, <1>3 DEF WeaveOrdered, WeaveTypes, Uncalled
<1>5. Turns'
  BY <1>1, <1>2, <1>3 DEF Turns, Weave!Shorter, Weave!Vectors
<1>6. Reads'
  BY <1>1, <1>2 DEF Reads, Passed
<1>7. InPlace'
  BY <1>1 DEF WeaveOrdered, InPlace, Weave!Place
<1> QED
  BY <1>4, <1>5, <1>6, <1>7 DEF WeaveOrdered

\* The place of the present value is the next one.
LEMMA PresentPlace ==
    ASSUME WeaveOrdered, turn \in Weave!Vectors
    PROVE  Weave!Place(turn, next[turn]) = Passed + 1 /\ next[turn] \in 1..lengths[turn]
<1>1. /\ lengths["a"] \in Nat /\ lengths["b"] \in Nat /\ next["a"] \in Nat \ {0}
      /\ next["b"] \in Nat \ {0}
  BY DEF WeaveOrdered, WeaveTypes, Weave!Vectors
<1>2. CASE turn = "a"
  BY <1>1, <1>2 DEF WeaveOrdered, Turns, Weave!Place, Passed
<1>3. CASE turn = "b"
  BY <1>1, <1>3 DEF WeaveOrdered, Turns, Weave!Place, Passed
<1> QED
  BY <1>2, <1>3 DEF Weave!Vectors

LEMMA NotYetRead ==
    ASSUME WeaveOrdered, turn \in Weave!Vectors
    PROVE  /\ Passed \in Nat /\ Len(output) \in Nat
           /\ Weave!WasRead <=> Len(output) = Passed + 1
<1>1. Passed \in Nat /\ Len(output) \in Nat
  BY DEF WeaveOrdered, WeaveTypes, Passed, Weave!Vectors
<1>2. value = <<turn, next[turn]>> /\ next[turn] \in Nat
  BY DEF WeaveOrdered, WeaveTypes, Turns
<1>3. ASSUME Len(output) = Passed, Weave!WasRead PROVE FALSE
  <2>1. Len(output) \in 1..Len(output) /\ output[Len(output)] = value
    BY <1>1, <1>3 DEF Weave!WasRead, WeaveOrdered, WeaveTypes
  <2>2. output[Len(output)][2] < next[output[Len(output)][1]]
    BY <1>1, <1>3, <2>1 DEF WeaveOrdered, Reads
  <2> QED
    BY <1>2, <2>1, <2>2
<1>4. ASSUME Len(output) = Passed + 1 PROVE Weave!WasRead
  BY <1>1, <1>4 DEF Weave!WasRead, WeaveOrdered, Reads
<1> QED
  BY <1>1, <1>3, <1>4 DEF WeaveOrdered, Reads

LEMMA WeaveRead == ASSUME WeaveOrdered, Weave!Read PROVE WeaveOrdered'
<1>1. /\ turn \in Weave!Vectors /\ output' = Append(output, value)
      /\ UNCHANGED <<lengths, next, turn, value, finished>> /\ ~Weave!WasRead
  BY DEF Weave!Read
<1>2. /\ Len(output) = Passed /\ Passed \in Nat /\ Len(output) \in Nat
      /\ value = <<turn, next[turn]>> /\ value \in Weave!Vectors \X Nat
  BY <1>1, NotYetRead DEF WeaveOrdered, WeaveTypes, Turns, Reads
<1>3. /\ output' \in Seq(Weave!Vectors \X Nat) /\ Len(output') = Passed + 1
      /\ output'[Passed + 1] = value /\ \A p \in 1..Passed : output'[p] = output[p]
  BY <1>1, <1>2 DEF WeaveOrdered, WeaveTypes
<1>4. WeaveTypes' /\ Uncalled' /\ Turns'
  BY <1>1, <1>3 DEF WeaveOrdered, WeaveTypes, Uncalled, Turns, Weave!Vectors
<1>5. Reads'
  <2>1. Passed' = Passed
    BY <1>1 DEF Passed
  <2>2. \A p \in 1..Len(output') : p <= Passed => p \in 1..Len(output)
    BY <1>2, <1>3
  <2> QED
    BY <1>1, <1>2, <1>3, <2>1, <2>2 DEF WeaveOrdered, Reads
<1>6. InPlace'
  <2> SUFFICES ASSUME NEW c \in Weave!Vectors, NEW i \in 1..lengths[c],
                      Weave!Place(c, i) <= Passed + 1
               PROVE  output'[Weave!Place(c, i)] = <<c, i>>
    BY <1>1, <1>3 DEF InPlace, Weave!Place
  <2>1. lengths[c] \in Nat /\ lengths \in [Weave!Vectors -> Nat] /\ i \in Nat \ {0}
    BY DEF WeaveOrdered, WeaveTypes
  <2>2. Weave!Place(c, i) \in Nat \ {0}
    BY <2>1, PlaceProperties
  <2>3. CASE Weave!Place(c, i) = Passed + 1
    <3>1. /\ Weave!Place(turn, next[turn]) = Weave!Place(c, i)
          /\ next[turn] \in 1..lengths[turn]
      BY <1>1, <2>3, PresentPlace
    <3>2. c = turn /\ i = next[turn]
      BY <1>1, <2>1, <3>1, PlaceProperties
    <3> QED
      BY <1>2, <1>3, <2>3, <3>2
  <2>4. CASE Weave!Place(c, i) # Passed + 1
    <3>1. Weave!Place(c, i) \in 1..Passed
      BY <1>2, <2>2, <2>4
    <3> QED
      BY <1>2, <1>3, <3>1 DEF WeaveOrdered, InPlace
  <2> QED
    BY <2>3, <2>4
<1> QED
  BY <1>4, <1>5, <1>6 DEF WeaveOrdered

LEMMA WeaveResume == ASSUME WeaveOrdered, Weave!Resume PROVE WeaveOrdered'
<1>1. /\ turn \in Weave!Vectors /\ Weave!WasRead /\ next' = [next EXCEPT ![turn] = @ + 1]
      /\ Weave!YieldFrom(next', turn) /\ UNCHANGED <<lengths, output>>
  BY DEF Weave!Resume
<1>2. /\ Len(output) = Passed + 1 /\ Passed \in Nat /\ output[Len(output)] = <<turn, next[turn]>>
      /\ next[turn] \in Nat
  BY <1>1, NotYetRead DEF WeaveOrdered, WeaveTypes, Turns, Reads
<1>3. /\ next' \in [Weave!Vectors -> Nat \ {0}] /\ next'[turn] = next[turn] + 1
      /\ \A c \in Weave!Vectors : c # turn => next'[c] = next[c]
  BY <1>1 DEF WeaveOrdered, WeaveTypes
<1>4. /\ turn' = IF turn = "a"
                   THEN IF next'["b"] <= lengths["b"] THEN "b"
                        ELSE IF next'["a"] <= lengths["a"] THEN "a" ELSE "none"
                   ELSE IF next'["a"] <= lengths["a"] THEN "a"
                        ELSE IF next'["b"] <= lengths["b"] THEN "b" ELSE "none"
      /\ finished' <=> turn' = "none"
      /\ turn' # "none" => value' = <<turn', next'[turn']>>
  <2>1. turn \in {"none", "a", "b"} /\ WeaveTypes
    BY <1>1 DEF Weave!Vectors, WeaveOrdered
  <2> QED
    BY <1>1, <1>3, <2>1, NextTurns
<1>5. WeaveTypes' /\ Uncalled'
  BY <1>1, <1>3, <1>4 DEF WeaveOrdered, WeaveTypes, Uncalled
<1>6. /\ lengths["a"] \in Nat /\ lengths["b"] \in Nat /\ next["a"] \in Nat \ {0}
      /\ next["b"] \in Nat \ {0} /\ Passed = next["a"] + next["b"] - 2
      /\ next'["a"] = IF turn = "a" THEN next["a"] + 1 ELSE next["a"]
      /\ next'["b"] = IF turn = "b" THEN next["b"] + 1 ELSE next["b"]
  BY <1>1, <1>3 DEF WeaveOrdered, WeaveTypes, Weave!Vectors, Passed
<1>7. Passed' = Passed + 1
  BY <1>1, <1>6 DEF Passed, Weave!Vectors
<1>8. Turns'
  <2>1. CASE turn = "a"
    <3>1. next["a"] <= lengths["a"] /\ next["b"] - 1 = Weave!Shorter(next["a"] - 1, lengths["b"])
      BY <2>1 DEF WeaveOrdered, Turns
    <3> QED
      BY <1>1, <1>4, <1>6, <2>1, <3>1 DEF Turns, Weave!Shorter, Weave!Vectors
  <2>2. CASE turn = "b"
    <3>1. next["b"] <= lengths["b"] /\ next["a"] - 1 = Weave!Shorter(next["b"], lengths["a"])
      BY <2>2 DEF WeaveOrdered, Turns
    <3> QED
      BY <1>1, <1>4, <1>6, <2>2, <3>1 DEF Turns, Weave!Shorter, Weave!Vectors
  <2> QED
    BY <1>1, <2>1, <2>2 DEF Weave!Vectors
<1>9. Reads'
  <2>1. Len(output') = Passed'
    BY <1>1, <1>2, <1>7
  <2>2. ASSUME NEW p \in 1..Len(output) PROVE output[p][2] < next'[output[p][1]]
    <3>1. output[p] \in Weave!Vectors \X Nat
      BY DEF WeaveOrdered, WeaveTypes
    <3>2. output[p][1] \in Weave!Vectors /\ output[p][2] \in Nat /\ next[output[p][1]] \in Nat
      BY <3>1 DEF WeaveOrdered, WeaveTypes
    <3>3. CASE p <= Passed
      <4>1. output[p][2] < next[output[p][1]]
        BY <3>3 DEF WeaveOrdered, Reads
      <4> QED
        BY <1>3, <3>2, <4>1
    <3>4. CASE ~(p <= Passed)
      <4>1. p = Len(output)
        BY <1>2, <3>4
      <4> QED
        BY <1>2, <1>3, <4>1
    <3> QED
      BY <3>3, <3>4
  <2> QED
    BY <1>1, <1>2, <1>7, <2>1, <2>2 DEF Reads
<1>10. InPlace'
  BY <1>1 DEF WeaveOrdered, InPlace, Weave!Place
<1> QED
  BY <1>5, <1>8, <1>9, <1>10 DEF WeaveOrdered

LEMMA WeaveInvariance == Spec => []WeaveInv
<1>1. Init => WeaveInv
  <2> SUFFICES ASSUME Weave!Init PROVE WeaveOrdered
    BY DEF Init, WeaveInv
  <2>1. /\ lengths \in [Weave!Vectors -> Nat] /\ next = [c \in Weave!Vectors |-> 1]
        /\ turn = "uncalled" /\ value = <<>> /\ finished = FALSE /\ output = <<>>
    BY BoundsAssumption DEF Weave!Init
  <2>2. WeaveTypes /\ Uncalled /\ Turns
    BY <2>1 DEF WeaveTypes, Uncalled, Turns, Weave!Vectors
  <2>3. Reads
    BY <2>1 DEF Reads, Passed, Weave!Vectors
  <2>4. InPlace
    <3>1. \A c \in Weave!Vectors : \A i \in 1..lengths[c] : Weave!Place(c, i) \in Nat \ {0}
      BY <2>1, PlaceProperties
    <3> QED
      BY <2>1, <3>1 DEF InPlace
  <2> QED
    BY <2>2, <2>3, <2>4 DEF WeaveOrdered
<1>2. WeaveInv /\ [Next]_variables => WeaveInv'
  <2> SUFFICES ASSUME WeaveInv, [Next]_variables, example' = "weave" PROVE WeaveOrdered'
    BY DEF WeaveInv
  <2>1. example = "weave" /\ WeaveOrdered
    BY DEF WeaveInv, Next, In, variables
  <2>2. Weave!Next \/ UNCHANGED woven
    BY <2>1 DEF Next, In, variables
  <2>3. CASE UNCHANGED woven
    BY <2>1, <2>3 DEF woven, WeaveOrdered, WeaveTypes, Uncalled, Turns, Reads, InPlace, Passed,
       Weave!Place
  <2> QED
    BY <2>1, <2>2, <2>3, WeaveCall, WeaveRead, WeaveResume DEF Weave!Next
<1> QED
  BY <1>1, <1>2, PTL DEF Spec

\* interleaved() takes turns between its generators and loses no value, for vectors of
\* any length, also when one is longer than the other.
THEOREM TakesTurns == Spec => []Interleaves
<1>1. WeaveInv => Interleaves
  <2> SUFFICES ASSUME WeaveOrdered PROVE Weave!Interleaves
    BY DEF WeaveInv, Interleaves
  <2>1. ASSUME finished PROVE Len(output) = lengths["a"] + lengths["b"]
    <3>1. turn = "none" /\ next["a"] = lengths["a"] + 1 /\ next["b"] = lengths["b"] + 1
      BY <2>1 DEF WeaveOrdered, Turns, Weave!Vectors
    <3>2. Len(output) = Passed /\ lengths["a"] \in Nat /\ lengths["b"] \in Nat
      BY <3>1 DEF WeaveOrdered, Reads, WeaveTypes, Weave!Vectors
    <3> QED
      BY <3>1, <3>2 DEF Passed
  <2> QED
    BY <2>1 DEF WeaveOrdered, InPlace, Weave!Interleaves
<1> QED
  BY <1>1, WeaveInvariance, PTL

-----------------------------------------------------------------------------
(* The producer and its consumer *)

\* The data of the n-th co_yield.
Yielded(n) == IF n <= NumData THEN n ELSE 0

\* Where the consumer is says how many of the data sets it has.
Exchanged ==
    \/ /\ main = "produce" /\ consumer = "none" /\ produced = 0 /\ received = <<>>
    \/ /\ main = "start" /\ consumer = "none" /\ produced = 1 /\ received = <<>>
       /\ dataReady /\ data = Yielded(1)
    \/ /\ main = "join" /\ consumer = "await" /\ produced \in 1..(NumData + 1)
       /\ Len(received) = produced - 1 /\ dataReady /\ data = Yielded(produced)
    \/ /\ main = "join" /\ consumer = "resume" /\ produced \in 1..NumData
       /\ Len(received) = produced
    \/ /\ main \in {"join", "left"} /\ consumer = "freed" /\ Len(received) = NumData + 1

PassOrdered == /\ received \in Seq(Nat)
               /\ \A i \in 1..Len(received) : received[i] = Yielded(i)
               /\ Exchanged

PassInv == example = "pass" => PassOrdered

LEMMA PassStep == ASSUME PassOrdered, Pass!Next PROVE PassOrdered'
<1> USE BoundsAssumption
<1>1. CASE Pass!CallProducer
  BY <1>1 DEF Pass!CallProducer, Pass!YieldValue, PassOrdered, Exchanged, Yielded
<1>2. CASE Pass!StartThread
  BY <1>2 DEF Pass!StartThread, PassOrdered, Exchanged
<1>3. CASE Pass!AwaitData
  <2>1. /\ consumer = "await" /\ main = "join" /\ produced \in 1..(NumData + 1)
        /\ Len(received) = produced - 1 /\ dataReady /\ data = Yielded(produced)
    BY <1>3 DEF Pass!AwaitData, PassOrdered, Exchanged
  <2>2. /\ received' = Append(received, data) /\ UNCHANGED <<produced, dataReady, main>>
        /\ consumer' = IF data = 0 THEN "freed" ELSE "resume"
    BY <1>3, <2>1 DEF Pass!AwaitData
  <2>3. data \in Nat /\ (data = 0 <=> produced = NumData + 1)
    BY <2>1 DEF Yielded
  <2>4. /\ received' \in Seq(Nat) /\ Len(received') = produced /\ received'[produced] = data
        /\ \A i \in 1..(produced - 1) : received'[i] = received[i]
    BY <2>1, <2>2, <2>3 DEF PassOrdered
  <2>5. \A i \in 1..Len(received') : received'[i] = Yielded(i)
    BY <2>1, <2>4 DEF PassOrdered
  <2>6. Exchanged'
    BY <2>1, <2>2, <2>3, <2>4 DEF Exchanged
  <2> QED
    BY <2>4, <2>5, <2>6 DEF PassOrdered
<1>4. CASE Pass!ResumeProducer
  BY <1>4 DEF Pass!ResumeProducer, Pass!YieldValue, PassOrdered, Exchanged, Yielded
<1>5. CASE Pass!JoinThread
  BY <1>5 DEF Pass!JoinThread, PassOrdered, Exchanged
<1> QED
  BY <1>1, <1>2, <1>3, <1>4, <1>5 DEF Pass!Next

LEMMA PassInvariance == Spec => []PassInv
<1>1. Init => PassInv
  BY DEF Init, PassInv, PassOrdered, Exchanged, Pass!Init
<1>2. PassInv /\ [Next]_variables => PassInv'
  <2> SUFFICES ASSUME PassInv, [Next]_variables, example' = "pass" PROVE PassOrdered'
    BY DEF PassInv
  <2>1. example = "pass" /\ PassOrdered
    BY DEF PassInv, Next, In, variables
  <2>2. Pass!Next \/ UNCHANGED exchange
    BY <2>1 DEF Next, In, variables
  <2>3. CASE UNCHANGED exchange
    BY <2>1, <2>3 DEF exchange, PassOrdered, Exchanged
  <2> QED
    BY <2>1, <2>2, <2>3, PassStep
<1> QED
  BY <1>1, <1>2, PTL DEF Spec

\* The consumer gets any number of data sets, each once and in order, and leaves on the
\* empty one; it never comes to await_suspend(), though nothing resets data_ready_.
THEOREM GetsAllData == Spec => []ReceivesAll
<1>1. PassInv => ReceivesAll
  <2> SUFFICES ASSUME PassOrdered PROVE Pass!ReceivesAll /\ Pass!NeverSpins
    BY DEF PassInv, ReceivesAll
  <2>1. DOMAIN received = 1..Len(received)
    BY DEF PassOrdered
  <2>2. \A i \in 1..Len(received) : received[i] = IF i > NumData THEN 0 ELSE i
    BY BoundsAssumption DEF PassOrdered, Yielded
  <2>3. Pass!NeverSpins /\ (consumer = "freed" => Len(received) = NumData + 1)
    BY DEF PassOrdered, Exchanged, Pass!NeverSpins
  <2> QED
    BY <2>1, <2>2, <2>3 DEF Pass!ReceivesAll
<1> QED
  BY <1>1, PassInvariance, PTL

-----------------------------------------------------------------------------
(* Tasks that own their frames *)

\* The variables hold handles and frames.
HandleTypes == /\ handle \in [Tasks -> Frames \cup {Null, Unborn}]
               /\ live \subseteq Frames

\* OneOwner is inductive with the types alone: the frame that an operation takes
\* from one task it gives to one other task or destroys.
Owned == HandleTypes /\ Own!OneOwner

\* A new task owns a frame that nobody owned, since all owned frames are live.
LEMMA CallKeeps ==
    ASSUME Owned, NEW t \in Tasks, NEW fr \in Frames, Own!f(t, fr)
    PROVE  Owned'
BY HandlesAssumption
   DEF Own!HandlesDistinct, Owned, HandleTypes, Own!OneOwner, Own!Owns, Own!Born, Own!f

\* A move hands the frame over: the old owner is left with a null handle.
LEMMA MoveConstructKeeps ==
    ASSUME Owned, NEW t \in Tasks, NEW other \in Tasks, Own!MoveConstruct(t, other)
    PROVE  Owned'
BY HandlesAssumption
   DEF Own!HandlesDistinct, Owned, HandleTypes, Own!OneOwner, Own!Owns, Own!Born, Own!MoveConstruct

\* An assignment destroys the frame of t, which only t owned, and takes the other
\* one over; when both handles are equal it must not destroy anything.
LEMMA MoveAssignKeeps ==
    ASSUME Owned, NEW t \in Tasks, NEW other \in Tasks, Own!MoveAssign(t, other)
    PROVE  Owned'
<1>1. CASE handle[t] = handle[other]
  BY <1>1 DEF Owned, HandleTypes, Own!OneOwner, Own!Owns, Own!MoveAssign, Own!hvars
<1>2. CASE handle[t] # handle[other]
  BY <1>2, HandlesAssumption
     DEF Own!HandlesDistinct, Owned, HandleTypes, Own!OneOwner, Own!Owns, Own!Born, Own!MoveAssign
<1> QED
  BY <1>1, <1>2

\* The destructor takes with it the frame that nobody else owned.
LEMMA DestroyKeeps ==
    ASSUME Owned, NEW t \in Tasks, Own!Destroy(t)
    PROVE  Owned'
BY HandlesAssumption
   DEF Own!HandlesDistinct, Owned, HandleTypes, Own!OneOwner, Own!Owns, Own!Born, Own!Destroy

LEMMA OwnStep == ASSUME Owned, Own!Next PROVE Owned'
<1>1. ASSUME NEW t \in Tasks, NEW fr \in Frames, Own!f(t, fr) PROVE Owned'
  BY <1>1, CallKeeps
<1>2. ASSUME NEW t \in Tasks, Own!Empty(t) PROVE Owned'
  BY <1>2, HandlesAssumption
     DEF Own!HandlesDistinct, Owned, HandleTypes, Own!OneOwner, Own!Owns, Own!Born, Own!Empty
<1>3. ASSUME NEW t \in Tasks, Own!Destroy(t) PROVE Owned'
  BY <1>3, DestroyKeeps
<1>4. ASSUME NEW t \in Tasks, NEW other \in Tasks, Own!MoveConstruct(t, other) PROVE Owned'
  BY <1>4, MoveConstructKeeps
<1>5. ASSUME NEW t \in Tasks, NEW other \in Tasks, Own!MoveAssign(t, other) PROVE Owned'
  BY <1>5, MoveAssignKeeps
<1> QED
  BY <1>1, <1>2, <1>3, <1>4, <1>5 DEF Own!Next

\* Every frame has exactly one owner as long as it exists: moving, assigning and
\* destroying tasks neither leaks a frame nor destroys one twice, and the
\* assignment of a task to itself does no harm.
THEOREM UniqueOwnership == Spec => [](example = "own" => Own!OneOwner)
<1> DEFINE OwnInv == example = "own" => Owned
<1>1. Init => OwnInv
  BY HandlesAssumption
     DEF Own!HandlesDistinct, Init, Own!Init, Owned, HandleTypes, Own!OneOwner, Own!Owns
<1>2. OwnInv /\ [Next]_variables => OwnInv'
  <2> SUFFICES ASSUME OwnInv, [Next]_variables, example' = "own" PROVE Owned'
    OBVIOUS
  <2>1. example = "own" /\ Owned
    BY DEF Next, In, variables
  <2>2. Own!Next \/ UNCHANGED owners
    BY <2>1 DEF Next, In, variables
  <2>3. CASE UNCHANGED owners
    BY <2>1, <2>3 DEF owners, Owned, HandleTypes, Own!OneOwner, Own!Owns
  <2> QED
    BY <2>1, <2>2, <2>3, OwnStep
<1>3. OwnInv => (example = "own" => Own!OneOwner)
  BY DEF Owned
<1> HIDE DEF OwnInv
<1> QED
  BY <1>1, <1>2, <1>3, PTL DEF Spec

-----------------------------------------------------------------------------
(* Coroutines that await each other *)

Records == [function : Many!Functions, begun : Nat, state : {"live", "done", "freed"},
            awaits : Nat, next : Nat]

StackTypes == /\ kind \in {"crsm", "awaitable", "recursion"}
              /\ frames \in Seq(Records) /\ Len(frames) > 0
              /\ running \in 0..Len(frames)

\* A frame that is awaited was made after the one that awaits it, and exists; it is
\* awaited by one frame, and every frame but the root is, until it is freed.
AwaitsOne ==
    /\ \A f \in 1..Len(frames) :
          frames[f].awaits # 0 => /\ frames[f].state = "live"
                                  /\ frames[f].awaits \in 1..Len(frames) /\ f < frames[f].awaits
                                  /\ frames[frames[f].awaits].state # "freed"
    /\ \A f, g \in 1..Len(frames) :
          frames[f].awaits = frames[g].awaits /\ frames[f].awaits # 0 => f = g
    /\ \A f \in 1..Len(frames) :
          f # 1 /\ frames[f].state # "freed" => \E g \in 1..Len(frames) : frames[g].awaits = f

\* Whoever runs awaits nobody.
RunsAlone == running # 0 => frames[running].state = "live" /\ frames[running].awaits = 0

\* Where control is transferred next leads to the frame that awaits this one, and a
\* frame is done only when it is the root and main() runs.
LeadsBack ==
    Many!Transfers =>
        /\ \A f \in 1..Len(frames) :
              frames[f].state = "live" /\ f # 1 => /\ frames[f].next \in 1..Len(frames)
                                                   /\ frames[frames[f].next].awaits = f
        /\ frames[1].next = 0
        /\ \A f \in 1..Len(frames) : frames[f].state = "done" => f = 1 /\ running = 0
        /\ running = 0 /\ frames[1].state = "live" => frames[1].awaits = 0

\* In "recursion" next leads to the frame that is awaited, except while the body runs,
\* and never back.
LeadsOn ==
    ~Many!Transfers =>
        \A f \in 1..Len(frames) :
           /\ frames[f].state = "live" /\ f # running => frames[f].next = frames[f].awaits
           /\ frames[f].next # 0 => frames[f].next \in 1..Len(frames) /\ f < frames[f].next

StackOrdered == StackTypes /\ AwaitsOne /\ RunsAlone /\ LeadsBack /\ LeadsOn

ManyInv == example = "many" => StackOrdered

LEMMA CallsTypes == ASSUME kind \in {"crsm", "awaitable", "recursion"}, NEW f \in Many!Functions
                    PROVE  Many!Calls(f) \in Seq(Many!Functions)
<1> DEFINE Names == {"fun1", "fun2", "fun3", "parent", "other_parent", "child", "child_func"}
<1>1. PICK name \in Names, n \in Int : f = <<name, n>>
  BY DEF Many!Functions
<1>2. f[1] = name /\ f[2] = n
  BY <1>1
<1>3. /\ \A k \in Int : <<"fun1", k>> \in Many!Functions /\ <<"fun2", k>> \in Many!Functions
                        /\ <<"fun3", k>> \in Many!Functions
      /\ <<"child", 0>> \in Many!Functions /\ <<"child_func", 0>> \in Many!Functions
  BY DEF Many!Functions
<1>4. n - 3 \in Int /\ n - 2 \in Int /\ 7 \in Int /\ n \in Int
  OBVIOUS
<1>5. /\ <<<<"fun2", n - 3>>>> \in Seq(Many!Functions) /\ <<<<"fun3", 7>>>> \in Seq(Many!Functions)
      /\ <<<<"fun1", n - 2>>>> \in Seq(Many!Functions)
      /\ <<<<"fun1", n - 2>>, <<"fun3", n>>>> \in Seq(Many!Functions)
      /\ <<<<"fun3", n - 2>>>> \in Seq(Many!Functions) /\ <<>> \in Seq(Many!Functions)
      /\ <<<<"child", 0>>>> \in Seq(Many!Functions)
      /\ <<<<"child_func", 0>>>> \in Seq(Many!Functions)
  <2> HIDE DEF Many!Functions
  <2>1. \A x, y \in Many!Functions :
           <<x>> \in Seq(Many!Functions) /\ <<x, y>> \in Seq(Many!Functions)
    OBVIOUS
  <2>2. /\ <<"fun2", n - 3>> \in Many!Functions /\ <<"fun3", 7>> \in Many!Functions
        /\ <<"fun1", n - 2>> \in Many!Functions /\ <<"fun3", n>> \in Many!Functions
        /\ <<"fun3", n - 2>> \in Many!Functions
    BY <1>3, <1>4
  <2> QED
    BY <1>3, <2>1, <2>2
<1>6. CASE name = "fun1"
  BY <1>2, <1>5, <1>6 DEF Many!Calls
<1>7. CASE name = "fun2"
  BY <1>2, <1>5, <1>7 DEF Many!Calls
<1>8. CASE name = "fun3"
  BY <1>2, <1>5, <1>8 DEF Many!Calls
<1>9. CASE name = "parent" \/ name = "other_parent"
  BY <1>2, <1>5, <1>9 DEF Many!Calls
<1>10. CASE name = "child" \/ name = "child_func"
  BY <1>2, <1>5, <1>10 DEF Many!Calls
<1> QED
  BY <1>6, <1>7, <1>8, <1>9, <1>10

LEMMA FrameTypes ==
    ASSUME StackTypes
    PROVE  /\ Len(frames) \in Nat \ {0} /\ DOMAIN frames = 1..Len(frames)
           /\ \A f \in 1..Len(frames) :
                 /\ frames[f] \in Records /\ frames[f].function \in Many!Functions
                 /\ frames[f].begun \in Nat /\ frames[f].state \in {"live", "done", "freed"}
                 /\ frames[f].awaits \in Nat /\ frames[f].next \in Nat
<1>1. Len(frames) \in Nat \ {0} /\ DOMAIN frames = 1..Len(frames)
  BY DEF StackTypes
<1>2. ASSUME NEW f \in 1..Len(frames) PROVE frames[f] \in Records
  BY DEF StackTypes
<1>3. ASSUME NEW r \in Records
      PROVE  /\ r.function \in Many!Functions /\ r.begun \in Nat /\ r.awaits \in Nat
             /\ r.state \in {"live", "done", "freed"} /\ r.next \in Nat
  BY DEF Records
<1> QED
  BY <1>1, <1>2, <1>3

\* No frame but the root is left when nobody awaits: the first of the others would be
\* awaited by the root.
LEMMA OnlyRoot ==
    ASSUME StackTypes, AwaitsOne, frames[1].awaits = 0
    PROVE  \A f \in 1..Len(frames) : f # 1 => frames[f].state = "freed"
<1> DEFINE Left == {f \in 1..Len(frames) : f # 1 /\ frames[f].state # "freed"}
<1> SUFFICES ASSUME Left # {} PROVE FALSE
  OBVIOUS
<1>1. Left \in SUBSET Nat
  BY DEF StackTypes
<1>2. PICK f \in Left : \A g \in Left : f <= g
  <2> HIDE DEF Left
  <2> QED
    BY <1>1, LeastNumber
<1>3. f \in 1..Len(frames) /\ f # 1 /\ frames[f].state # "freed" /\ Len(frames) \in Nat
  BY DEF StackTypes
<1>4. PICK g \in 1..Len(frames) : frames[g].awaits = f
  BY <1>3 DEF AwaitsOne
<1>5. g # 1 /\ frames[g].state = "live" /\ g < f
  BY <1>3, <1>4 DEF AwaitsOne
<1>6. g \in Left
  BY <1>5
<1> QED
  BY <1>2, <1>3, <1>5, <1>6

-----------------------------------------------------------------------------
(* The way of nextStep() *)

\* Deepest, and below Visited, have the values they are defined to have.
LEMMA DeepestDefined ==
    ASSUME StackTypes, LeadsOn, ~Many!Transfers, NEW f \in 1..Len(frames)
    PROVE  Many!Deepest[f] = IF \/ frames[f].next = 0
                                \/ frames[frames[f].next].state = "done"
                             THEN f ELSE Many!Deepest[frames[f].next]
<1> DEFINE n == Len(frames)
           V == 1..n
           later == [p \in 1..n |-> frames[p].next]
           stop == [p \in 1..n |-> frames[p].next = 0 \/ frames[frames[p].next].state = "done"]
           base == [p \in 1..n |-> p]
           step == [p \in 1..n |-> [v \in V |-> v]]
<1>1. n \in Nat /\ DOMAIN frames = 1..n /\ \A p \in 1..n : frames[p].next \in Nat
  BY FrameTypes
<1>2. /\ later \in [1..n -> Nat] /\ base \in [1..n -> V]
      /\ step \in [1..n -> [V -> V]] /\ stop \in [1..n -> BOOLEAN]
  <2> HIDE DEF n
  <2> QED
    BY <1>1
<1>3. \A p \in 1..n : ~stop[p] => later[p] \in 1..n /\ p < later[p]
  BY DEF LeadsOn
<1>4. PICK g \in [1..n -> V] :
         \A p \in 1..n : g[p] = IF stop[p] THEN base[p] ELSE step[p][g[later[p]]]
  <2> HIDE DEF n, V, later, stop, base, step
  <2>1. n \in Nat
    BY <1>1
  <2>2. Leads(n, V, later, stop, base, step)
    BY <2>1, <1>2, <1>3 DEF Leads
  <2>3. PICK g : Solves(g, n, V, later, stop, base, step)
    BY <2>2, DefinedFromLater
  <2> QED
    BY <2>3 DEF Solves
<1>5. ASSUME NEW p \in 1..n
      PROVE  g[p] = IF frames[p].next = 0 \/ frames[frames[p].next].state = "done"
                    THEN p ELSE g[frames[p].next]
  BY <1>3, <1>4
<1>6. g = [p \in DOMAIN frames |->
             IF frames[p].next = 0 \/ frames[frames[p].next].state = "done"
             THEN p ELSE g[frames[p].next]]
  <2> HIDE DEF n
  <2> QED
    BY <1>1, <1>5
<1>7. Many!Deepest = [p \in DOMAIN frames |->
                        IF frames[p].next = 0 \/ frames[frames[p].next].state = "done"
                        THEN p ELSE Many!Deepest[frames[p].next]]
  BY <1>6 DEF Many!Deepest
<1>8. f \in DOMAIN frames
  BY <1>1
<1> QED
  BY <1>7, <1>8

LEMMA VisitedDefined ==
    ASSUME StackTypes, LeadsOn, ~Many!Transfers, NEW f \in 1..Len(frames)
    PROVE  Many!Visited[f] = {f} \cup IF frames[f].next = 0 THEN {}
                                      ELSE IF frames[frames[f].next].state = "live"
                                      THEN Many!Visited[frames[f].next] ELSE {frames[f].next}
<1> DEFINE n == Len(frames)
           V == SUBSET Nat
           later == [p \in 1..n |-> frames[p].next]
           stop == [p \in 1..n |-> ~(frames[p].next # 0 /\ frames[frames[p].next].state = "live")]
           base == [p \in 1..n |-> {p} \cup IF frames[p].next = 0 THEN {} ELSE {frames[p].next}]
           step == [p \in 1..n |-> [v \in V |-> {p} \cup v]]
<1>1. n \in Nat /\ DOMAIN frames = 1..n /\ \A p \in 1..n : frames[p].next \in Nat
  BY FrameTypes
<1>2. /\ later \in [1..n -> Nat] /\ base \in [1..n -> V]
      /\ step \in [1..n -> [V -> V]] /\ stop \in [1..n -> BOOLEAN]
  <2> HIDE DEF n
  <2> QED
    BY <1>1
<1>3. \A p \in 1..n : ~stop[p] => later[p] \in 1..n /\ p < later[p]
  BY DEF LeadsOn
<1>4. PICK g \in [1..n -> V] :
         \A p \in 1..n : g[p] = IF stop[p] THEN base[p] ELSE step[p][g[later[p]]]
  <2> HIDE DEF n, V, later, stop, base, step
  <2>1. n \in Nat
    BY <1>1
  <2>2. Leads(n, V, later, stop, base, step)
    BY <2>1, <1>2, <1>3 DEF Leads
  <2>3. PICK g : Solves(g, n, V, later, stop, base, step)
    BY <2>2, DefinedFromLater
  <2> QED
    BY <2>3 DEF Solves
<1>5. ASSUME NEW p \in 1..n
      PROVE  g[p] = {p} \cup IF frames[p].next = 0 THEN {}
                             ELSE IF frames[frames[p].next].state = "live"
                             THEN g[frames[p].next] ELSE {frames[p].next}
  <2>1. CASE stop[p]
    BY <1>4, <2>1
  <2>2. CASE ~stop[p]
    <3>1. later[p] = frames[p].next /\ later[p] \in 1..n /\ frames[p].next # 0
          /\ frames[frames[p].next].state = "live"
      BY <1>3, <2>2
    <3>2. g[later[p]] \in V
      BY <3>1
    <3>3. step[p][g[later[p]]] = {p} \cup g[later[p]]
      BY <3>2
    <3>4. g[p] = {p} \cup g[later[p]]
      BY <1>4, <2>2, <3>3
    <3> QED
      BY <3>1, <3>4
  <2> QED
    BY <2>1, <2>2
<1>6. g = [p \in DOMAIN frames |->
             {p} \cup IF frames[p].next = 0 THEN {}
                      ELSE IF frames[frames[p].next].state = "live"
                      THEN g[frames[p].next] ELSE {frames[p].next}]
  <2> HIDE DEF n
  <2> QED
    BY <1>1, <1>5
<1>7. Many!Visited = [p \in DOMAIN frames |->
             {p} \cup IF frames[p].next = 0 THEN {}
                      ELSE IF frames[frames[p].next].state = "live"
                      THEN Many!Visited[frames[p].next] ELSE {frames[p].next}]
  BY <1>6 DEF Many!Visited
<1>8. f \in DOMAIN frames
  BY <1>1
<1> QED
  BY <1>7, <1>8

\* Where next leads from a live frame: to the one it awaits.
LEMMA DownTheStack ==
    ASSUME StackOrdered, ~Many!Transfers, running = 0
    PROVE  \A f \in 1..Len(frames) :
              frames[f].state = "live" /\ frames[f].next # 0 =>
                 /\ frames[f].next \in 1..Len(frames) /\ f < frames[f].next
                 /\ frames[frames[f].next].state # "freed"
                 /\ frames[f].next = frames[f].awaits
<1> SUFFICES ASSUME NEW f \in 1..Len(frames), frames[f].state = "live", frames[f].next # 0
             PROVE  /\ frames[f].next \in 1..Len(frames) /\ f < frames[f].next
                    /\ frames[frames[f].next].state # "freed"
                    /\ frames[f].next = frames[f].awaits
  OBVIOUS
<1>1. f # running /\ frames[f].next = frames[f].awaits
  BY DEF StackOrdered, LeadsOn, StackTypes
<1> QED
  BY <1>1 DEF StackOrdered, AwaitsOne

\* nextStep() resumes a live coroutine, which awaits nobody or one that is done.
LEMMA DeepestEnds ==
    ASSUME StackOrdered, ~Many!Transfers, running = 0, frames[1].state = "live"
    PROVE  /\ Many!Deepest[1] \in 1..Len(frames) /\ frames[Many!Deepest[1]].state = "live"
           /\ \/ frames[Many!Deepest[1]].next = 0
              \/ frames[frames[Many!Deepest[1]].next].state = "done"
<1> DEFINE n == Len(frames)
           Good(f) == /\ Many!Deepest[f] \in 1..n /\ frames[Many!Deepest[f]].state = "live"
                      /\ \/ frames[Many!Deepest[f]].next = 0
                         \/ frames[frames[Many!Deepest[f]].next].state = "done"
<1>1. n \in Nat \ {0} /\ StackTypes /\ LeadsOn
  BY FrameTypes DEF StackOrdered
<1>2. ASSUME NEW f \in 1..n, frames[f].state = "live", ~Good(f)
      PROVE  /\ frames[f].next \in 1..n /\ f < frames[f].next
             /\ frames[frames[f].next].state = "live" /\ ~Good(frames[f].next)
  <2>1. Many!Deepest[f] = IF \/ frames[f].next = 0
                             \/ frames[frames[f].next].state = "done"
                          THEN f ELSE Many!Deepest[frames[f].next]
    BY <1>1, DeepestDefined
  <2>2. frames[f].next # 0 /\ frames[frames[f].next].state # "done"
    BY <1>2, <2>1
  <2>3. /\ frames[f].next \in 1..n /\ f < frames[f].next
        /\ frames[frames[f].next].state # "freed"
    BY <1>2, <2>2, DownTheStack
  <2>4. frames[frames[f].next].state = "live"
    <3> HIDE DEF Good
    <3> QED
      BY <1>1, <2>2, <2>3, FrameTypes
  <2>5. ~Good(frames[f].next)
    BY <1>2, <2>1, <2>2
  <2> QED
    BY <2>3, <2>4, <2>5
<1> HIDE DEF Good
<1> DEFINE T == {k \in 0..n : \E f \in 1..n : f = n - k /\ frames[f].state = "live" /\ ~Good(f)}
<1>3. T = {}
  <2> SUFFICES ASSUME T # {} PROVE FALSE
    OBVIOUS
  <2>1. PICK k \in T : \A m \in T : k <= m
    <3>1. T \in SUBSET Nat
      OBVIOUS
    <3> HIDE DEF T
    <3> QED
      BY <3>1, LeastNumber
  <2>2. PICK f \in 1..n : k \in 0..n /\ f = n - k /\ frames[f].state = "live" /\ ~Good(f)
    OBVIOUS
  <2> DEFINE g == frames[f].next
  <2>3. g \in 1..n /\ f < g /\ frames[g].state = "live" /\ ~Good(g)
    <3> HIDE DEF T
    <3> QED
      BY <1>2, <2>2
  <2> HIDE DEF g, n
  <2>4. n - g \in 0..n /\ g = n - (n - g)
    BY <1>1, <2>3
  <2>5. n - g \in T
    BY <2>3, <2>4
  <2> HIDE DEF T
  <2>6. ~(k <= n - g)
    BY <1>1, <2>2, <2>3
  <2> QED
    BY <2>1, <2>5, <2>6
<1>4. 1 \in 1..n /\ n - 1 \in 0..n /\ 1 = n - (n - 1)
  BY <1>1
<1>5. Good(1)
  BY <1>3, <1>4
<1> QED
  BY <1>5 DEF Good

\* On its way it comes by no frame that is freed.
LEMMA VisitsUnfreed ==
    ASSUME StackOrdered, ~Many!Transfers, running = 0, frames[1].state = "live"
    PROVE  \A f \in Many!Visited[1] : f \in 1..Len(frames) /\ frames[f].state # "freed"
<1> DEFINE n == Len(frames)
           Good(f) == \A g \in Many!Visited[f] : g \in 1..n /\ frames[g].state # "freed"
           T == {k \in 0..n : \E f \in 1..n : f = n - k /\ frames[f].state = "live" /\ ~Good(f)}
<1>1. n \in Nat \ {0} /\ StackTypes /\ LeadsOn
  BY FrameTypes DEF StackOrdered
<1>2. T = {}
  <2> SUFFICES ASSUME T # {} PROVE FALSE
    OBVIOUS
  <2>1. PICK k \in T : \A m \in T : k <= m
    <3>1. T \in SUBSET Nat
      OBVIOUS
    <3> HIDE DEF T
    <3> QED
      BY <3>1, LeastNumber
  <2>2. PICK f \in 1..n : f = n - k /\ frames[f].state = "live" /\ ~Good(f)
    BY <2>1
  <2>3. Many!Visited[f] = {f} \cup IF frames[f].next = 0 THEN {}
                                   ELSE IF frames[frames[f].next].state = "live"
                                   THEN Many!Visited[frames[f].next] ELSE {frames[f].next}
    BY <1>1, <2>2, VisitedDefined
  <2>4. frames[f].next # 0
    BY <2>2, <2>3
  <2>5. /\ frames[f].next \in 1..n /\ f < frames[f].next
        /\ frames[frames[f].next].state # "freed"
    BY <2>2, <2>4, DownTheStack
  <2>6. frames[frames[f].next].state = "live" /\ ~Good(frames[f].next)
    BY <2>2, <2>3, <2>4, <2>5
  <2>7. n - frames[f].next \in T
    <3>1. /\ n - frames[f].next \in 0..n
          /\ frames[f].next = n - (n - frames[f].next)
      <4>1. \A m \in 1..n : n - m \in 0..n /\ m = n - (n - m)
        BY <1>1
      <4> HIDE DEF n
      <4> QED
        BY <2>5, <4>1
    <3> HIDE DEF Good
    <3> QED
      BY <2>5, <2>6, <3>1
  <2>8. ~(k <= n - frames[f].next)
    BY <1>1, <2>1, <2>2, <2>5
  <2> QED
    BY <2>1, <2>7, <2>8
<1>3. 1 \in 1..n /\ n - 1 \in 0..n /\ 1 = n - (n - 1)
  BY <1>1
<1>4. Good(1)
  <2> HIDE DEF Good
  <2> QED
    BY <1>2, <1>3
<1> QED
  BY <1>4

-----------------------------------------------------------------------------
(* The steps of the stack *)

LEMMA FrameIsRecord == ASSUME NEW f \in Many!Functions, NEW n \in Nat
                       PROVE  Many!Frame(f, n) \in Records
BY DEF Many!Frame, Records

LEMMA AwaitingRecord ==
    ASSUME NEW r \in Records, NEW k \in Nat
    PROVE  LET m == [r EXCEPT !.begun = @ + 1, !.awaits = k]
           IN  /\ m \in Records /\ m.begun = r.begun + 1 /\ m.state = r.state
               /\ m.awaits = k /\ m.next = r.next
               /\ [m EXCEPT !.next = k] \in Records
               /\ [m EXCEPT !.next = k].state = r.state
               /\ [m EXCEPT !.next = k].awaits = k /\ [m EXCEPT !.next = k].next = k
<1> DEFINE m == [r EXCEPT !.begun = @ + 1, !.awaits = k]
<1>1. r.begun + 1 \in Nat
  BY DEF Records
<1>2. /\ m \in Records /\ m.begun = r.begun + 1 /\ m.state = r.state /\ m.awaits = k
      /\ m.next = r.next
  <2> DEFINE b == r.begun + 1
  <2>1. b \in Nat
    BY <1>1
  <2> HIDE DEF b
  <2>2. [r EXCEPT !.begun = b, !.awaits = k] \in Records
    BY <2>1 DEF Records
  <2>3. m = [r EXCEPT !.begun = b, !.awaits = k]
    BY DEF b
  <2> QED
    BY <2>2, <2>3 DEF b, Records
<1>3. /\ [m EXCEPT !.next = k] \in Records /\ [m EXCEPT !.next = k].state = m.state
      /\ [m EXCEPT !.next = k].awaits = m.awaits /\ [m EXCEPT !.next = k].next = k
  <2> HIDE DEF m
  <2> QED
    BY <1>2 DEF Records
<1> HIDE DEF m
<1> QED
  BY <1>2, <1>3 DEF m

\* What co_await does to the frames.
LEMMA AwaitEffect ==
    ASSUME StackOrdered, Many!Await
    PROVE  /\ running \in 1..Len(frames) /\ kind' = kind
           /\ frames' \in Seq(Records) /\ Len(frames') = Len(frames) + 1
           /\ frames'[running].state = "live" /\ frames'[running].awaits = Len(frames) + 1
           /\ frames'[running].next = IF Many!Transfers THEN frames[running].next
                                                        ELSE Len(frames) + 1
           /\ \A g \in 1..Len(frames) : g # running => frames'[g] = frames[g]
           /\ frames'[Len(frames) + 1].state = "live" /\ frames'[Len(frames) + 1].awaits = 0
           /\ frames'[Len(frames) + 1].next = IF Many!Transfers THEN running ELSE 0
           /\ running' = IF Many!Transfers THEN Len(frames) + 1 ELSE 0
<1> DEFINE n == Len(frames)
           f == running
           calls == Many!Calls(frames[f].function)
           mine == [frames[f] EXCEPT !.begun = @ + 1, !.awaits = n + 1]
           called == calls[mine.begun]
<1>1. StackTypes
  BY DEF StackOrdered
<1>2. /\ n \in Nat \ {0} /\ f \in 1..n /\ frames[f] \in Records /\ frames[f].state = "live"
      /\ frames[f].function \in Many!Functions /\ frames[f].begun \in Nat
      /\ frames[f].next \in Nat
  BY <1>1, FrameTypes DEF StackOrdered, StackTypes, RunsAlone, Many!Await
<1>3. /\ mine \in Records /\ mine.begun = frames[f].begun + 1 /\ mine.state = "live"
      /\ mine.awaits = n + 1 /\ mine.next = frames[f].next
      /\ [mine EXCEPT !.next = n + 1] \in Records /\ [mine EXCEPT !.next = n + 1].state = "live"
      /\ [mine EXCEPT !.next = n + 1].awaits = n + 1
      /\ [mine EXCEPT !.next = n + 1].next = n + 1
  <2> DEFINE r == frames[f]
             k == n + 1
             m == [r EXCEPT !.begun = @ + 1, !.awaits = k]
             l == [m EXCEPT !.next = k]
  <2>1. r \in Records /\ k \in Nat /\ r.state = "live"
    <3> HIDE DEF n, f
    <3> QED
      BY <1>2
  <2>2. /\ m \in Records /\ m.begun = r.begun + 1 /\ m.state = r.state
        /\ m.awaits = k /\ m.next = r.next
        /\ l \in Records /\ l.state = r.state /\ l.awaits = k /\ l.next = k
    <3> HIDE DEF r, k
    <3> QED
      BY <2>1, AwaitingRecord
  <2>3. mine = m /\ [mine EXCEPT !.next = n + 1] = l
    OBVIOUS
  <2> HIDE DEF m, l, mine
  <2> QED
    BY <2>1, <2>2, <2>3
<1>4. mine.begun <= Len(calls) /\ kind' = kind
  BY DEF Many!Await
<1>5. called \in Many!Functions
  <2>1. calls \in Seq(Many!Functions)
    BY <1>1, <1>2, CallsTypes DEF StackTypes
  <2>2. mine.begun \in 1..Len(calls)
    <3>1. Len(calls) \in Nat
      BY <2>1
    <3> HIDE DEF calls, mine
    <3> QED
      BY <1>2, <1>3, <1>4, <3>1
  <2> HIDE DEF calls, mine
  <2> QED
    BY <2>1, <2>2
<1>6. ASSUME NEW r \in Records, NEW c \in Records
      PROVE  LET fs == Append([frames EXCEPT ![f] = r], c)
             IN  /\ fs \in Seq(Records) /\ Len(fs) = n + 1 /\ fs[f] = r /\ fs[n + 1] = c
                 /\ \A g \in 1..n : g # f => fs[g] = frames[g]
  <2>1. frames \in Seq(Records)
    BY <1>1 DEF StackTypes
  <2>2. /\ [frames EXCEPT ![f] = r] \in Seq(Records) /\ Len([frames EXCEPT ![f] = r]) = n
        /\ [frames EXCEPT ![f] = r][f] = r
        /\ \A g \in 1..n : g # f => [frames EXCEPT ![f] = r][g] = frames[g]
    BY <1>2, <2>1
  <2> DEFINE es == [frames EXCEPT ![f] = r]
  <2>3. /\ Append(es, c) \in Seq(Records) /\ Len(Append(es, c)) = n + 1
        /\ Append(es, c)[n + 1] = c /\ \A g \in 1..n : Append(es, c)[g] = es[g]
    <3> HIDE DEF es, n
    <3>1. es \in Seq(Records) /\ Len(es) = n
      BY <2>2 DEF es, n
    <3> QED
      BY <1>2, <3>1
  <2> QED
    BY <1>2, <2>2, <2>3
<1>7. CASE Many!Transfers
  <2> DEFINE c == Many!Frame(called, f)
             fs == Append([frames EXCEPT ![f] = mine], c)
  <2>1. c \in Records /\ c.state = "live" /\ c.awaits = 0 /\ c.next = f
    BY <1>2, <1>5, FrameIsRecord DEF Many!Frame
  <2>2. /\ fs \in Seq(Records) /\ Len(fs) = n + 1 /\ fs[f] = mine /\ fs[n + 1] = c
        /\ \A g \in 1..n : g # f => fs[g] = frames[g]
    <3> HIDE DEF c, mine
    <3> QED
      BY <1>3, <1>6, <2>1
  <2>3. Many!Resume(fs, n + 1, trace)
    BY <1>7 DEF Many!Await
  <2>4. running' = n + 1 /\ frames' = fs
    <3> HIDE DEF fs
    <3> QED
      BY <2>1, <2>2, <2>3 DEF Many!Resume, Many!Destroyed
  <2> HIDE DEF fs, c, mine
  <2> QED
    BY <1>2, <1>3, <1>4, <1>7, <2>1, <2>2, <2>4
<1>8. CASE ~Many!Transfers
  <2> DEFINE c == Many!Frame(called, 0)
             linked == [mine EXCEPT !.next = n + 1]
             fs == Append([frames EXCEPT ![f] = linked], c)
  <2>1. c \in Records /\ c.state = "live" /\ c.awaits = 0 /\ c.next = 0
    BY <1>2, <1>5, FrameIsRecord DEF Many!Frame
  <2>2. /\ fs \in Seq(Records) /\ Len(fs) = n + 1 /\ fs[f] = linked /\ fs[n + 1] = c
        /\ \A g \in 1..n : g # f => fs[g] = frames[g]
    <3>1. linked \in Records
      BY <1>3
    <3> HIDE DEF c, linked
    <3> QED
      BY <1>6, <2>1, <3>1
  <2>3. running' = 0 /\ frames' = fs
    BY <1>8 DEF Many!Await, Many!BackToMain
  <2> HIDE DEF fs, c, mine, linked
  <2> QED
    BY <1>2, <1>3, <1>4, <1>8, <2>1, <2>2, <2>3 DEF linked
<1> QED
  BY <1>7, <1>8

LEMMA AwaitStep == ASSUME StackOrdered, Many!Await PROVE StackOrdered'
<1> DEFINE n == Len(frames)
           f == running
<1>1. /\ f \in 1..n /\ kind' = kind
      /\ frames' \in Seq(Records) /\ Len(frames') = n + 1
      /\ frames'[f].state = "live" /\ frames'[f].awaits = n + 1
      /\ frames'[f].next = IF Many!Transfers THEN frames[f].next ELSE n + 1
      /\ \A g \in 1..n : g # f => frames'[g] = frames[g]
      /\ frames'[n + 1].state = "live" /\ frames'[n + 1].awaits = 0
      /\ frames'[n + 1].next = IF Many!Transfers THEN f ELSE 0
      /\ running' = IF Many!Transfers THEN n + 1 ELSE 0
  BY AwaitEffect
<1>2. /\ n \in Nat \ {0} /\ \A g \in 1..n : frames[g].awaits \in Nat /\ frames[g].next \in Nat
      /\ kind \in {"crsm", "awaitable", "recursion"}
  BY FrameTypes DEF StackOrdered, StackTypes
<1>3. /\ frames[f].state = "live" /\ frames[f].awaits = 0
      /\ \A g \in 1..n : frames[g].awaits # 0 =>
            /\ frames[g].state = "live" /\ frames[g].awaits \in 1..n /\ g < frames[g].awaits
            /\ frames[frames[g].awaits].state # "freed"
      /\ \A g, h \in 1..n : frames[g].awaits = frames[h].awaits /\ frames[g].awaits # 0 => g = h
      /\ \A g \in 1..n : g # 1 /\ frames[g].state # "freed"
            => \E h \in 1..n : frames[h].awaits = g
  <2>1. frames[f].state = "live" /\ frames[f].awaits = 0
    BY <1>1 DEF StackOrdered, RunsAlone
  <2>2. AwaitsOne
    BY DEF StackOrdered
  <2> QED
    BY <2>1, <2>2 DEF AwaitsOne
<1>4. Many!Transfers' = Many!Transfers
  BY <1>1 DEF Many!Transfers
<1>5. \A g \in 1..n : frames'[g].state = frames[g].state
  BY <1>1, <1>3
<1> HIDE DEF n, f
<1>6. StackTypes'
  BY <1>1, <1>2 DEF StackTypes
<1>7. 1..Len(frames') = 1..n \cup {n + 1} /\ n + 1 \notin 1..n
  BY <1>1, <1>2
<1>8. AwaitsOne'
  <2>1. ASSUME NEW g \in 1..n \cup {n + 1}, frames'[g].awaits # 0
        PROVE  /\ frames'[g].state = "live" /\ frames'[g].awaits \in 1..n \cup {n + 1}
               /\ g < frames'[g].awaits /\ frames'[frames'[g].awaits].state # "freed"
    <3>1. CASE g = f
      BY <1>1, <1>2, <3>1
    <3>2. CASE g # f
      <4>1. g \in 1..n /\ frames'[g] = frames[g]
        BY <1>1, <2>1, <3>2
      <4> QED
        BY <1>3, <1>5, <2>1, <4>1
    <3> QED
      BY <3>1, <3>2
  <2>2. ASSUME NEW g \in 1..n \cup {n + 1}, NEW h \in 1..n \cup {n + 1},
               frames'[g].awaits = frames'[h].awaits, frames'[g].awaits # 0
        PROVE  g = h
    <3>1. ASSUME NEW e \in 1..n \cup {n + 1}, frames'[e].awaits # 0, e # f
          PROVE  e \in 1..n /\ frames'[e] = frames[e] /\ frames[e].awaits # n + 1
      BY <1>1, <1>3, <1>7, <3>1
    <3> QED
      BY <1>1, <1>3, <2>2, <3>1
  <2>3. ASSUME NEW g \in 1..n \cup {n + 1}, g # 1, frames'[g].state # "freed"
        PROVE  \E h \in 1..n \cup {n + 1} : frames'[h].awaits = g
    <3>1. CASE g = n + 1
      BY <1>1, <3>1
    <3>2. CASE g \in 1..n
      <4>1. PICK h \in 1..n : frames[h].awaits = g
        BY <1>3, <1>5, <2>3, <3>2
      <4>2. h # f
        BY <1>2, <1>3, <3>2, <4>1
      <4> QED
        BY <1>1, <4>1, <4>2
    <3> QED
      BY <3>1, <3>2
  <2> QED
    BY <1>7, <2>1, <2>2, <2>3 DEF AwaitsOne
<1>9. RunsAlone'
  BY <1>1, <1>2 DEF RunsAlone
<1>10. LeadsBack'
  <2> SUFFICES ASSUME Many!Transfers PROVE LeadsBack'
    BY <1>4 DEF LeadsBack
  <2>1. /\ \A g \in 1..n : frames[g].state = "live" /\ g # 1 =>
              frames[g].next \in 1..n /\ frames[frames[g].next].awaits = g
        /\ frames[1].next = 0
        /\ \A g \in 1..n : frames[g].state = "done" => g = 1 /\ running = 0
    BY DEF StackOrdered, LeadsBack, n
  <2>2. \A g \in 1..n : frames'[g].next = frames[g].next
    BY <1>1
  <2>3. ASSUME NEW g \in 1..n \cup {n + 1}, frames'[g].state = "live", g # 1
        PROVE  frames'[g].next \in 1..n \cup {n + 1} /\ frames'[frames'[g].next].awaits = g
    <3>1. CASE g = n + 1
      BY <1>1, <3>1
    <3>2. CASE g \in 1..n
      <4>1. frames[g].next \in 1..n /\ frames[frames[g].next].awaits = g
        BY <1>5, <2>1, <2>3, <3>2
      <4>2. frames[g].next # f
        BY <1>2, <1>3, <3>2, <4>1
      <4> QED
        BY <1>1, <2>2, <3>2, <4>1, <4>2
    <3> QED
      BY <3>1, <3>2
  <2>4. \A g \in 1..n \cup {n + 1} : frames'[g].state # "done"
    <3>1. running # 0
      BY <1>1, <1>2 DEF f
    <3>2. \A g \in 1..n : frames'[g].state # "done"
      BY <1>5, <2>1, <3>1
    <3> QED
      BY <1>1, <3>2
  <2>5. frames'[1].next = 0 /\ running' # 0
    BY <1>1, <1>2, <2>1, <2>2
  <2> QED
    BY <1>7, <2>3, <2>4, <2>5 DEF LeadsBack
<1>11. LeadsOn'
  <2> SUFFICES ASSUME ~Many!Transfers PROVE LeadsOn'
    BY <1>4 DEF LeadsOn
  <2>1. \A g \in 1..n :
           /\ frames[g].state = "live" /\ g # f => frames[g].next = frames[g].awaits
           /\ frames[g].next # 0 => frames[g].next \in 1..n /\ g < frames[g].next
    BY DEF StackOrdered, LeadsOn, n, f
  <2>2. ASSUME NEW g \in 1..n \cup {n + 1}
        PROVE  /\ frames'[g].state = "live" => frames'[g].next = frames'[g].awaits
               /\ frames'[g].next # 0 => /\ frames'[g].next \in 1..n \cup {n + 1}
                                         /\ g < frames'[g].next
    <3>1. CASE g = n + 1
      BY <1>1, <3>1
    <3>2. CASE g = f
      BY <1>1, <1>2, <3>2
    <3>3. CASE g \in 1..n /\ g # f
      BY <1>1, <2>1, <3>3
    <3> QED
      BY <3>1, <3>2, <3>3
  <2> QED
    BY <1>1, <1>7, <2>2 DEF LeadsOn
<1> QED
  BY <1>6, <1>8, <1>9, <1>10, <1>11 DEF StackOrdered

\* What is left of fs when f is resumed that awaits another frame.
LEMMA DestroyedFrames ==
    ASSUME NEW fs \in Seq(Records), NEW f \in 1..Len(fs), fs[f].awaits \in 1..Len(fs),
           fs[f].awaits # f
    PROVE  LET ds == Many!Destroyed(fs, f)
           IN  /\ ds \in Seq(Records) /\ Len(ds) = Len(fs)
               /\ \A g \in 1..Len(fs) :
                     /\ ds[g].state = IF g = fs[f].awaits THEN "freed" ELSE fs[g].state
                     /\ ds[g].awaits = IF g = f THEN 0 ELSE fs[g].awaits
                     /\ ds[g].next = fs[g].next
<1> DEFINE n == Len(fs)
           e == fs[f].awaits
           me == [fs[e] EXCEPT !.state = "freed"]
           mf == [fs[f] EXCEPT !.awaits = 0]
           ds == [fs EXCEPT ![e] = me, ![f] = mf]
<1>1. n \in Nat /\ e \in 1..n /\ fs[e] \in Records /\ fs[f] \in Records
  OBVIOUS
<1>2. /\ me \in Records /\ me.state = "freed" /\ me.awaits = fs[e].awaits /\ me.next = fs[e].next
      /\ mf \in Records /\ mf.state = fs[f].state /\ mf.awaits = 0 /\ mf.next = fs[f].next
  <2> HIDE DEF e
  <2> QED
    BY <1>1 DEF Records
<1>3. Many!Destroyed(fs, f) = ds
  <2>1. Many!Destroyed(fs, f) = [fs EXCEPT ![e].state = "freed", ![f].awaits = 0]
    BY DEF Many!Destroyed
  <2>2. [fs EXCEPT ![e].state = "freed", ![f].awaits = 0] = ds
    <3>1. e # f /\ e \in DOMAIN fs /\ f \in DOMAIN fs
      OBVIOUS
    <3> HIDE DEF e
    <3> QED
      BY <3>1
  <2> QED
    BY <2>1, <2>2
<1>4. /\ ds \in Seq(Records) /\ Len(ds) = n /\ ds[e] = me /\ ds[f] = mf
      /\ \A g \in 1..n : g # e /\ g # f => ds[g] = fs[g]
  <2>1. e # f
    OBVIOUS
  <2> HIDE DEF e, me, mf
  <2> QED
    BY <1>1, <1>2, <2>1
<1> HIDE DEF ds, me, mf
<1> QED
  BY <1>2, <1>3, <1>4

\* What the end of a body does to the frames: the one that ends is done, and where a
\* coroutine awaits it that one goes on and its frame is freed.
LEMMA FinishEffect ==
    ASSUME StackOrdered, Many!Finish
    PROVE  LET c == IF Many!Transfers THEN frames[running].next ELSE 0
           IN  /\ running \in 1..Len(frames) /\ kind' = kind
               /\ frames' \in Seq(Records) /\ Len(frames') = Len(frames)
               /\ c # 0 => c \in 1..Len(frames) /\ c # running /\ frames[c].awaits = running
               /\ running' = c
               /\ \A g \in 1..Len(frames) :
                     /\ frames'[g].state = IF g # running THEN frames[g].state
                                           ELSE IF c = 0 THEN "done" ELSE "freed"
                     /\ frames'[g].awaits = IF g = c THEN 0 ELSE frames[g].awaits
                     /\ frames'[g].next = frames[g].next
<1> DEFINE n == Len(frames)
           r == running
           c == IF Many!Transfers THEN frames[r].next ELSE 0
           done == [frames EXCEPT ![r].state = "done"]
<1>1. StackTypes
  BY DEF StackOrdered
<1>2. /\ n \in Nat \ {0} /\ r \in 1..n /\ frames[r].state = "live" /\ frames[r].awaits = 0
      /\ frames \in Seq(Records) /\ kind' = kind
  BY <1>1, FrameTypes DEF StackOrdered, StackTypes, RunsAlone, Many!Finish
<1>3. c # 0 => c \in 1..n /\ c # r /\ frames[c].awaits = r
  <2> SUFFICES ASSUME c # 0 PROVE c \in 1..n /\ c # r /\ frames[c].awaits = r
    OBVIOUS
  <2>1. Many!Transfers /\ c = frames[r].next
    OBVIOUS
  <2>2. r # 1
    BY <1>2, <2>1 DEF StackOrdered, LeadsBack
  <2>3. c \in 1..n /\ frames[c].awaits = r
    BY <1>2, <2>1, <2>2 DEF StackOrdered, LeadsBack
  <2> QED
    BY <1>2, <2>3
<1>4. /\ done \in Seq(Records) /\ Len(done) = n
      /\ done[r] = [frames[r] EXCEPT !.state = "done"]
      /\ \A g \in 1..n : g # r => done[g] = frames[g]
  <2>1. [frames[r] EXCEPT !.state = "done"] \in Records
    BY <1>2, FrameTypes, <1>1 DEF Records
  <2>2. done = [frames EXCEPT ![r] = [frames[r] EXCEPT !.state = "done"]]
    OBVIOUS
  <2> DEFINE m == [frames[r] EXCEPT !.state = "done"]
  <2> HIDE DEF m, n, r
  <2>3. m \in Records
    BY <2>1 DEF m
  <2>4. [frames EXCEPT ![r] = m] \in Seq(Records)
        /\ Len([frames EXCEPT ![r] = m]) = n /\ [frames EXCEPT ![r] = m][r] = m
        /\ \A g \in 1..n : g # r => [frames EXCEPT ![r] = m][g] = frames[g]
    BY <1>2, <2>3 DEF n
  <2> QED
    BY <2>2, <2>4 DEF m
<1>5. /\ \A g \in 1..n : done[g].state = IF g = r THEN "done" ELSE frames[g].state
      /\ \A g \in 1..n : done[g].awaits = frames[g].awaits /\ done[g].next = frames[g].next
  <2>1. frames[r] \in Records
    BY <1>1, <1>2, FrameTypes
  <2>2. /\ done[r].state = "done" /\ done[r].awaits = frames[r].awaits
        /\ done[r].next = frames[r].next
    <3> HIDE DEF done
    <3> QED
      BY <1>4, <2>1 DEF Records
  <2> HIDE DEF done
  <2> QED
    BY <1>4, <2>2
<1>6. CASE c = 0
  <2>1. running' = 0 /\ frames' = done
    BY <1>6 DEF Many!Finish, Many!BackToMain
  <2> HIDE DEF done
  <2> QED
    BY <1>2, <1>4, <1>5, <1>6, <2>1
<1>7. CASE c # 0
  <2>1. Many!Resume(done, c, Append(trace, <<frames[running].function, "end">>))
    BY <1>7 DEF Many!Finish
  <2>2. running' = c /\ frames' = Many!Destroyed(done, c)
    <3> HIDE DEF done, c
    <3> QED
      BY <2>1 DEF Many!Resume
  <2>3. c \in 1..Len(done) /\ c # r /\ done[c].awaits = r /\ r \in 1..Len(done)
    BY <1>2, <1>3, <1>4, <1>5, <1>7
  <2>4. /\ frames' \in Seq(Records) /\ Len(frames') = n
        /\ \A g \in 1..n : /\ frames'[g].state = IF g = r THEN "freed" ELSE done[g].state
                           /\ frames'[g].awaits = IF g = c THEN 0 ELSE done[g].awaits
                           /\ frames'[g].next = done[g].next
    <3> HIDE DEF done, c, r
    <3> QED
      BY <1>4, <2>2, <2>3, DestroyedFrames
  <2> HIDE DEF done, c
  <2> QED
    BY <1>2, <1>3, <1>5, <1>7, <2>2, <2>4 DEF c
<1> QED
  BY <1>6, <1>7

LEMMA FinishStep == ASSUME StackOrdered, Many!Finish PROVE StackOrdered'
<1> DEFINE n == Len(frames)
           r == running
           c == IF Many!Transfers THEN frames[r].next ELSE 0
<1>1. /\ r \in 1..n /\ kind' = kind /\ frames' \in Seq(Records) /\ Len(frames') = n
      /\ c # 0 => c \in 1..n /\ c # r /\ frames[c].awaits = r
      /\ running' = c
      /\ \A g \in 1..n :
            /\ frames'[g].state = IF g # r THEN frames[g].state
                                  ELSE IF c = 0 THEN "done" ELSE "freed"
            /\ frames'[g].awaits = IF g = c THEN 0 ELSE frames[g].awaits
            /\ frames'[g].next = frames[g].next
  BY FinishEffect
<1>2. /\ n \in Nat \ {0} /\ kind \in {"crsm", "awaitable", "recursion"}
  BY FrameTypes DEF StackOrdered, StackTypes
<1>3. /\ frames[r].state = "live" /\ frames[r].awaits = 0
      /\ \A g \in 1..n : frames[g].awaits # 0 =>
            /\ frames[g].state = "live" /\ frames[g].awaits \in 1..n /\ g < frames[g].awaits
            /\ frames[frames[g].awaits].state # "freed"
      /\ \A g, h \in 1..n : frames[g].awaits = frames[h].awaits /\ frames[g].awaits # 0 => g = h
      /\ \A g \in 1..n : g # 1 /\ frames[g].state # "freed"
            => \E h \in 1..n : frames[h].awaits = g
  <2>1. r # 0 /\ RunsAlone /\ AwaitsOne
    BY <1>1, <1>2 DEF StackOrdered
  <2> QED
    BY <2>1 DEF RunsAlone, AwaitsOne
<1>4. Many!Transfers' = Many!Transfers
  BY <1>1 DEF Many!Transfers
<1>5. Many!Transfers =>
        /\ \A g \in 1..n : frames[g].state = "live" /\ g # 1 =>
              frames[g].next \in 1..n /\ frames[frames[g].next].awaits = g
        /\ frames[1].next = 0
        /\ \A g \in 1..n : frames[g].state # "done"
  BY <1>1, <1>2 DEF StackOrdered, LeadsBack
<1>6. Many!Transfers => (c = 0 <=> r = 1)
  BY <1>1, <1>3, <1>5
<1>7. ~Many!Transfers =>
        /\ c = 0
        /\ \A g \in 1..n :
              /\ frames[g].state = "live" /\ g # r => frames[g].next = frames[g].awaits
              /\ frames[g].next # 0 => frames[g].next \in 1..n /\ g < frames[g].next
  BY DEF StackOrdered, LeadsOn
<1> HIDE DEF n, r, c
<1>8. StackTypes'
  BY <1>1, <1>2 DEF StackTypes
<1>9. AwaitsOne'
  <2>1. ASSUME NEW g \in 1..n, frames'[g].awaits # 0
        PROVE  /\ frames'[g].state = "live" /\ frames'[g].awaits \in 1..n
               /\ g < frames'[g].awaits /\ frames'[frames'[g].awaits].state # "freed"
    <3>1. frames'[g].awaits = frames[g].awaits /\ g # c /\ g # r
      BY <1>1, <1>3, <2>1
    <3>2. c # 0 => frames[g].awaits # r
      BY <1>1, <1>2, <1>3, <3>1
    <3> QED
      BY <1>1, <1>3, <2>1, <3>1, <3>2
  <2>2. \A g, h \in 1..n : frames'[g].awaits = frames'[h].awaits /\ frames'[g].awaits # 0 => g = h
    BY <1>1, <1>3
  <2>3. ASSUME NEW g \in 1..n, g # 1, frames'[g].state # "freed"
        PROVE  \E h \in 1..n : frames'[h].awaits = g
    <3>1. frames[g].state # "freed" /\ (c # 0 => g # r)
      BY <1>1, <1>3, <2>3
    <3>2. PICK h \in 1..n : frames[h].awaits = g
      BY <1>3, <2>3, <3>1
    <3>3. h # c
      BY <1>1, <1>2, <3>1, <3>2
    <3> QED
      BY <1>1, <3>2, <3>3
  <2> QED
    BY <1>1, <2>1, <2>2, <2>3 DEF AwaitsOne
<1>10. RunsAlone'
  <2>1. c # 0 => frames[c].state = "live" /\ frames'[c].state = "live" /\ frames'[c].awaits = 0
    BY <1>1, <1>2, <1>3
  <2> QED
    BY <1>1, <2>1 DEF RunsAlone
<1>11. LeadsBack'
  <2> SUFFICES ASSUME Many!Transfers PROVE LeadsBack'
    BY <1>4 DEF LeadsBack
  <2>1. ASSUME NEW g \in 1..n, frames'[g].state = "live", g # 1
        PROVE  frames'[g].next \in 1..n /\ frames'[frames'[g].next].awaits = g
    <3>1. g # r /\ frames[g].state = "live" /\ frames'[g].next = frames[g].next
      BY <1>1, <2>1
    <3>2. frames[g].next \in 1..n /\ frames[frames[g].next].awaits = g
      BY <1>5, <2>1, <3>1
    <3>3. frames[g].next # c
      BY <1>1, <1>2, <3>1, <3>2
    <3> QED
      BY <1>1, <3>1, <3>2, <3>3
  <2>2. \A g \in 1..n : frames'[g].state = "done" => g = 1 /\ running' = 0
    BY <1>1, <1>5, <1>6
  <2>3. frames'[1].next = 0 /\ (running' = 0 => frames'[1].state # "live")
    BY <1>1, <1>2, <1>5, <1>6
  <2> QED
    BY <1>1, <2>1, <2>2, <2>3 DEF LeadsBack
<1>12. LeadsOn'
  <2> SUFFICES ASSUME ~Many!Transfers PROVE LeadsOn'
    BY <1>4 DEF LeadsOn
  <2>1. c = 0
    BY <1>7
  <2> QED
    BY <1>1, <1>2, <1>7, <2>1 DEF LeadsOn
<1> QED
  BY <1>8, <1>9, <1>10, <1>11, <1>12 DEF StackOrdered

\* What main() does to the frames when it resumes one: the one that this one awaited is
\* done and is freed.
LEMMA ResumeEffect ==
    ASSUME StackOrdered, Many!MainResumes
    PROVE  LET d == IF Many!Transfers THEN 1 ELSE Many!Deepest[1]
               e == frames[d].awaits
           IN  /\ d \in 1..Len(frames) /\ frames[d].state = "live" /\ running' = d
               /\ e # 0 => /\ e \in 1..Len(frames) /\ e # d /\ frames[e].state = "done"
                           /\ ~Many!Transfers
               /\ running = 0 /\ kind' = kind
               /\ frames' \in Seq(Records) /\ Len(frames') = Len(frames)
               /\ \A g \in 1..Len(frames) :
                     /\ frames'[g].state = IF g = e /\ e # 0 THEN "freed" ELSE frames[g].state
                     /\ frames'[g].awaits = IF g = d THEN 0 ELSE frames[g].awaits
                     /\ frames'[g].next = frames[g].next
<1> DEFINE d == IF Many!Transfers THEN 1 ELSE Many!Deepest[1]
           e == frames[d].awaits
<1>1. /\ running = 0 /\ frames[1].state = "live" /\ kind' = kind
      /\ Many!Resume(frames, d, trace)
  BY DEF Many!MainResumes, Many!Root
<1>2. /\ Len(frames) \in Nat \ {0} /\ frames \in Seq(Records)
      /\ AwaitsOne /\ LeadsBack /\ LeadsOn
  BY FrameTypes DEF StackOrdered, StackTypes
<1>3. d \in 1..Len(frames) /\ frames[d].state = "live" /\ (Many!Transfers => e = 0)
      /\ (e # 0 => frames[e].state = "done")
  <2>1. CASE Many!Transfers
    BY <1>1, <1>2, <2>1 DEF LeadsBack
  <2>2. CASE ~Many!Transfers
    <3>1. /\ d \in 1..Len(frames) /\ frames[d].state = "live"
          /\ frames[d].next = 0 \/ frames[frames[d].next].state = "done"
      BY <1>1, <2>2, DeepestEnds
    <3>2. frames[d].next = frames[d].awaits
      <4> HIDE DEF d
      <4> QED
        BY <1>1, <1>2, <2>2, <3>1 DEF LeadsOn
    <3> QED
      BY <2>2, <3>1, <3>2
  <2> QED
    BY <2>1, <2>2
<1>4. e # 0 => e \in 1..Len(frames) /\ e # d
  <2> HIDE DEF d
  <2> QED
    BY <1>2, <1>3 DEF AwaitsOne
<1>5. running' = d /\ frames' = Many!Destroyed(frames, d)
  <2> HIDE DEF d
  <2> QED
    BY <1>1 DEF Many!Resume
<1> HIDE DEF d
<1>6. CASE e = 0
  <2>1. frames' = frames
    BY <1>5, <1>6 DEF Many!Destroyed
  <2> QED
    BY <1>1, <1>2, <1>3, <1>5, <1>6, <2>1 DEF d
<1>7. CASE e # 0
  <2>1. /\ frames' \in Seq(Records) /\ Len(frames') = Len(frames)
        /\ \A g \in 1..Len(frames) :
              /\ frames'[g].state = IF g = e THEN "freed" ELSE frames[g].state
              /\ frames'[g].awaits = IF g = d THEN 0 ELSE frames[g].awaits
              /\ frames'[g].next = frames[g].next
    BY <1>2, <1>3, <1>4, <1>5, <1>7, DestroyedFrames
  <2> QED
    BY <1>1, <1>2, <1>3, <1>4, <1>5, <1>7, <2>1 DEF d
<1> QED
  BY <1>6, <1>7

LEMMA ResumeStep == ASSUME StackOrdered, Many!MainResumes PROVE StackOrdered'
<1> DEFINE n == Len(frames)
           d == IF Many!Transfers THEN 1 ELSE Many!Deepest[1]
           e == frames[d].awaits
<1>1. /\ d \in 1..n /\ frames[d].state = "live" /\ running' = d
      /\ e # 0 => e \in 1..n /\ e # d /\ frames[e].state = "done" /\ ~Many!Transfers
      /\ running = 0 /\ kind' = kind /\ frames' \in Seq(Records) /\ Len(frames') = n
      /\ \A g \in 1..n :
            /\ frames'[g].state = IF g = e /\ e # 0 THEN "freed" ELSE frames[g].state
            /\ frames'[g].awaits = IF g = d THEN 0 ELSE frames[g].awaits
            /\ frames'[g].next = frames[g].next
  BY ResumeEffect
<1>2. /\ n \in Nat \ {0} /\ kind \in {"crsm", "awaitable", "recursion"}
      /\ AwaitsOne /\ LeadsBack /\ LeadsOn
  BY FrameTypes DEF StackOrdered, StackTypes
<1>3. Many!Transfers' = Many!Transfers
  BY <1>1 DEF Many!Transfers
<1>4. Many!Transfers => d = 1
  OBVIOUS
<1> HIDE DEF d
<1>5. StackTypes'
  BY <1>1, <1>2 DEF StackTypes
<1> HIDE DEF n
<1>6. /\ \A g \in 1..n : frames[g].awaits # 0 =>
            /\ frames[g].state = "live" /\ frames[g].awaits \in 1..n /\ g < frames[g].awaits
            /\ frames[frames[g].awaits].state # "freed"
      /\ \A g, h \in 1..n : frames[g].awaits = frames[h].awaits /\ frames[g].awaits # 0 => g = h
      /\ \A g \in 1..n : g # 1 /\ frames[g].state # "freed"
            => \E h \in 1..n : frames[h].awaits = g
  BY <1>2 DEF AwaitsOne, n
<1>7. AwaitsOne'
  <2>1. ASSUME NEW g \in 1..n, frames'[g].awaits # 0
        PROVE  /\ frames'[g].state = "live" /\ frames'[g].awaits \in 1..n
               /\ g < frames'[g].awaits /\ frames'[frames'[g].awaits].state # "freed"
    <3>1. frames'[g].awaits = frames[g].awaits /\ g # d
      BY <1>1, <2>1
    <3>2. /\ frames[g].awaits # e /\ frames[g].state = "live" /\ (g # e \/ e = 0)
          /\ frames[g].awaits \in 1..n
      BY <1>1, <1>6, <2>1, <3>1
    <3> QED
      BY <1>1, <1>6, <2>1, <3>1, <3>2
  <2>2. \A g, h \in 1..n : frames'[g].awaits = frames'[h].awaits /\ frames'[g].awaits # 0 => g = h
    <3> HIDE DEF e
    <3>1. \A g \in 1..n : frames'[g].awaits # 0 => frames'[g].awaits = frames[g].awaits
      BY <1>1
    <3> QED
      BY <1>6, <3>1
  <2>3. ASSUME NEW g \in 1..n, g # 1, frames'[g].state # "freed"
        PROVE  \E h \in 1..n : frames'[h].awaits = g
    <3>1. frames[g].state # "freed" /\ g # e
      BY <1>1, <1>2, <2>3 DEF n
    <3>2. PICK h \in 1..n : frames[h].awaits = g
      BY <1>6, <2>3, <3>1
    <3>3. h # d
      BY <3>1, <3>2
    <3> QED
      BY <1>1, <3>2, <3>3
  <2> HIDE DEF e
  <2> QED
    BY <1>1, <2>1, <2>2, <2>3 DEF AwaitsOne
<1>8. RunsAlone'
  <2> HIDE DEF e
  <2> QED
    BY <1>1 DEF RunsAlone
<1>9. LeadsBack'
  <2> SUFFICES ASSUME Many!Transfers PROVE LeadsBack'
    BY <1>3 DEF LeadsBack
  <2>1. e = 0 /\ d = 1
    BY <1>1, <1>4
  <2>2. \A g \in 1..n : /\ frames'[g].state = frames[g].state
                        /\ frames'[g].awaits = frames[g].awaits
                        /\ frames'[g].next = frames[g].next
    BY <1>1, <2>1
  <2>3. running' # 0 /\ 1 \in 1..n /\ frames[1].state = "live"
    BY <1>1, <2>1
  <2> HIDE DEF e
  <2>4. \A g \in 1..n : frames'[g].state = "live" /\ g # 1 =>
                          /\ frames'[g].next \in 1..n
                          /\ frames'[frames'[g].next].awaits = g
    BY <1>2, <2>2 DEF LeadsBack, n
  <2>5. \A g \in 1..n : frames'[g].state # "done"
    BY <1>2, <2>2, <2>3 DEF LeadsBack, n
  <2>6. frames'[1].next = 0
    BY <1>2, <2>2, <2>3 DEF LeadsBack
  <2> QED
    BY <1>1, <2>3, <2>4, <2>5, <2>6 DEF LeadsBack
<1>10. LeadsOn'
  <2> SUFFICES ASSUME ~Many!Transfers PROVE LeadsOn'
    BY <1>3 DEF LeadsOn
  <2>1. \A g \in 1..n :
           /\ frames[g].state = "live" => frames[g].next = frames[g].awaits
           /\ frames[g].next # 0 => frames[g].next \in 1..n /\ g < frames[g].next
    BY <1>1, <1>2 DEF LeadsOn, n
  <2> HIDE DEF e
  <2> QED
    BY <1>1, <2>1 DEF LeadsOn
<1> QED
  BY <1>1, <1>5, <1>7, <1>8, <1>9, <1>10 DEF StackOrdered

\* main() frees the root when it is done.
LEMMA LeaveStep == ASSUME StackOrdered, Many!MainLeaves PROVE StackOrdered'
<1> DEFINE n == Len(frames)
           m == [frames[1] EXCEPT !.state = "freed"]
<1>1. /\ running = 0 /\ frames[1].state = "done" /\ running' = running /\ kind' = kind
      /\ frames' = [frames EXCEPT ![1].state = "freed"]
  BY DEF Many!MainLeaves, Many!Root
<1>2. /\ n \in Nat \ {0} /\ kind \in {"crsm", "awaitable", "recursion"}
      /\ frames \in Seq(Records) /\ frames[1] \in Records /\ 1 \in 1..n
      /\ AwaitsOne /\ LeadsBack /\ LeadsOn
  BY FrameTypes DEF StackOrdered, StackTypes
<1>3. /\ m \in Records /\ m.state = "freed" /\ m.awaits = frames[1].awaits
      /\ m.next = frames[1].next
  BY <1>2 DEF Records
<1>4. frames' = [frames EXCEPT ![1] = m]
  BY <1>1
<1>5. /\ frames' \in Seq(Records) /\ Len(frames') = n
      /\ \A g \in 1..n : /\ frames'[g].state = IF g = 1 THEN "freed" ELSE frames[g].state
                         /\ frames'[g].awaits = frames[g].awaits
                         /\ frames'[g].next = frames[g].next
  <2> HIDE DEF m
  <2> QED
    BY <1>2, <1>3, <1>4
<1>6. Many!Transfers' = Many!Transfers
  BY <1>1 DEF Many!Transfers
<1> HIDE DEF m
<1>7. StackTypes'
  BY <1>1, <1>2, <1>5 DEF StackTypes
<1>8. AwaitsOne'
  <2> HIDE DEF n
  <2>1. /\ \A g \in 1..n : frames[g].awaits # 0 =>
              /\ frames[g].state = "live" /\ frames[g].awaits \in 1..n /\ g < frames[g].awaits
              /\ frames[frames[g].awaits].state # "freed"
        /\ \A g, h \in 1..n : frames[g].awaits = frames[h].awaits /\ frames[g].awaits # 0 => g = h
        /\ \A g \in 1..n : g # 1 /\ frames[g].state # "freed"
              => \E h \in 1..n : frames[h].awaits = g
    BY <1>2 DEF AwaitsOne, n
  <2>2. \A g \in 1..n : frames[g].awaits # 1
    BY <1>2, <2>1
  <2> QED
    BY <1>1, <1>5, <2>1, <2>2 DEF AwaitsOne
<1>9. RunsAlone' /\ LeadsBack' /\ LeadsOn'
  <2>1. RunsAlone'
    BY <1>1 DEF RunsAlone
  <2>2. LeadsBack'
    BY <1>1, <1>2, <1>5, <1>6 DEF LeadsBack
  <2>3. LeadsOn'
    BY <1>1, <1>2, <1>5, <1>6 DEF LeadsOn
  <2> QED
    BY <2>1, <2>2, <2>3
<1> QED
  BY <1>7, <1>8, <1>9 DEF StackOrdered

LEMMA StackStarts == Init => ManyInv
<1> SUFFICES ASSUME Many!Init PROVE StackOrdered
  BY DEF Init, ManyInv
<1>1. PICK f \in Many!Functions : frames = <<Many!Frame(f, 0)>>
  <2>1. \A k \in Int : <<"fun1", k>> \in Many!Functions
    BY DEF Many!Functions
  <2>2. PICK f : /\ f \in {"parent", "other_parent"} \X {0} \/ f \in {"fun1"} \X Nums
                 /\ frames = <<Many!Frame(f, 0)>>
    BY DEF Many!Init
  <2>3. \A k \in Nums : k \in Int
    BY BoundsAssumption
  <2>4. CASE f \in {"fun1"} \X Nums
    <3>1. PICK k \in Nums : f = <<"fun1", k>>
      BY <2>4
    <3> QED
      BY <2>1, <2>2, <2>3, <3>1
  <2>5. CASE f \in {"parent", "other_parent"} \X {0}
    <3>1. f = <<"parent", 0>> \/ f = <<"other_parent", 0>>
      BY <2>5
    <3>2. <<"parent", 0>> \in Many!Functions /\ <<"other_parent", 0>> \in Many!Functions
      BY DEF Many!Functions
    <3>3. f \in Many!Functions
      BY <3>1, <3>2
    <3> QED
      BY <2>2, <3>3
  <2> QED
    BY <2>2, <2>4, <2>5
<1>2. /\ kind \in {"crsm", "awaitable", "recursion"} /\ running = 0 /\ Len(frames) = 1
      /\ frames \in Seq(Records) /\ frames[1].state = "live" /\ frames[1].awaits = 0
      /\ frames[1].next = 0
  <2>1. Many!Frame(f, 0) \in Records
    BY FrameIsRecord
  <2> QED
    BY <1>1, <2>1 DEF Many!Init, Many!Frame
<1>3. 1..Len(frames) = {1}
  BY <1>2
<1> QED
  BY <1>2, <1>3 DEF StackOrdered, StackTypes, AwaitsOne, RunsAlone, LeadsBack, LeadsOn

LEMMA StackInvariance == Spec => []ManyInv
<1>1. Init => ManyInv
  BY StackStarts
<1>2. ManyInv /\ [Next]_variables => ManyInv'
  <2> SUFFICES ASSUME ManyInv, [Next]_variables, example' = "many" PROVE StackOrdered'
    BY DEF ManyInv
  <2>1. example = "many" /\ StackOrdered
    BY DEF ManyInv, Next, In, variables
  <2>2. Many!Next \/ UNCHANGED stacked
    BY <2>1 DEF Next, In, variables
  <2>3. CASE UNCHANGED stacked
    BY <2>1, <2>3 DEF stacked, StackOrdered, StackTypes, AwaitsOne, RunsAlone, LeadsBack,
       LeadsOn, Many!Transfers
  <2> QED
    BY <2>1, <2>2, <2>3, ResumeStep, LeaveStep, AwaitStep, FinishStep DEF Many!Next
<1> QED
  BY <1>1, <1>2, PTL DEF Spec

\* Nobody follows a handle of a freed frame or resumes a finished coroutine, whichever way
\* control is passed on, and for any number the first function is called with; frames come
\* and go like a stack.
THEOREM FollowsLiveHandles == Spec => []HandlesAlive
<1>1. ManyInv => HandlesAlive
  <2> SUFFICES ASSUME StackOrdered PROVE Many!HandlesAlive /\ Many!FramesNested
    BY DEF ManyInv, HandlesAlive
  <2>1. /\ StackTypes /\ AwaitsOne /\ RunsAlone /\ LeadsBack /\ DOMAIN frames = 1..Len(frames)
        /\ Len(frames) \in Nat \ {0} /\ Many!Root = 1
        /\ \A f \in 1..Len(frames) : frames[f].state \in {"live", "done", "freed"}
    BY FrameTypes DEF StackOrdered, Many!Root
  <2>2. ASSUME running # 0
        PROVE  /\ frames[running].state = "live"
               /\ Many!Transfers /\ frames[running].next # 0
                    => frames[frames[running].next].state = "live"
    <3>1. running \in 1..Len(frames) /\ frames[running].state = "live"
      BY <2>1, <2>2 DEF StackTypes, RunsAlone
    <3>2. ASSUME Many!Transfers, frames[running].next # 0
          PROVE  frames[frames[running].next].state = "live"
      <4>1. frames[running].next \in 1..Len(frames)
            /\ frames[frames[running].next].awaits = running
        BY <2>1, <3>1, <3>2 DEF LeadsBack
      <4> QED
        BY <2>1, <2>2, <4>1 DEF AwaitsOne
    <3> QED
      BY <3>1, <3>2
  <2>3. ASSUME running = 0, ~Many!Transfers, frames[1].state = "live"
        PROVE  \A f \in Many!Visited[1] : frames[f].state # "freed"
    BY <2>3, VisitsUnfreed
  <2>4. Many!HandlesAlive
    BY <2>1, <2>2, <2>3 DEF Many!HandlesAlive
  <2>5. ASSUME NEW f \in 1..Len(frames), frames[f].state # "freed", f # 1
        PROVE  \E g \in 1..Len(frames) : frames[g].awaits = f /\ frames[g].state # "freed"
    <3>1. PICK g \in 1..Len(frames) : frames[g].awaits = f
      BY <2>1, <2>5 DEF AwaitsOne
    <3>2. f # 0
      BY <2>1
    <3> QED
      BY <2>1, <3>1, <3>2 DEF AwaitsOne
  <2>6. ASSUME frames[1].state = "freed" PROVE \A f \in 1..Len(frames) : frames[f].state = "freed"
    <3>1. frames[1].awaits = 0
      BY <2>1, <2>6 DEF AwaitsOne
    <3> QED
      BY <2>1, <2>6, <3>1, OnlyRoot
  <2>7. Many!FramesNested
    BY <2>1, <2>5, <2>6 DEF Many!FramesNested
  <2> QED
    BY <2>4, <2>7
<1> QED
  BY <1>1, StackInvariance, PTL

-----------------------------------------------------------------------------
(* Flattening a sequence of sequences *)

Flattens(fl, seqs) ==
    fl = [i \in 1..Len(seqs) |-> IF i = 1 THEN seqs[i] ELSE fl[i - 1] \o seqs[i]]

\* FlattenSeq has the value it is defined to have: from its end, a prefix is defined by
\* the next shorter one.
LEMMA FlattenExists ==
    ASSUME NEW S, NEW seqs \in Seq(Seq(S))
    PROVE  \E fl \in [1..Len(seqs) -> Seq(S)] : Flattens(fl, seqs)
<1> DEFINE n == Len(seqs)
           V == Seq(S)
           later == [p \in 1..n |-> p + 1]
           stop == [p \in 1..n |-> p = n]
           base == [p \in 1..n |-> seqs[n + 1 - p]]
           step == [p \in 1..n |-> [v \in V |-> v \o seqs[n + 1 - p]]]
<1>1. /\ n \in Nat /\ \A i \in 1..n : seqs[i] \in V
      /\ \A p \in 1..n : n + 1 - p \in 1..n
  OBVIOUS
<1>2. \A p \in 1..n : \A v \in V : seqs[n + 1 - p] \in V /\ v \o seqs[n + 1 - p] \in V
  <2>1. \A u, v \in V : v \o u \in V
    OBVIOUS
  <2> HIDE DEF n, V
  <2> QED
    BY <1>1, <2>1
<1>3. Leads(n, V, later, stop, base, step)
  <2>1. later \in [1..n -> Nat] /\ stop \in [1..n -> BOOLEAN]
    OBVIOUS
  <2>2. base \in [1..n -> V] /\ step \in [1..n -> [V -> V]]
    <3> HIDE DEF n, V
    <3> QED
      BY <1>2, <1>1
  <2>3. \A p \in 1..n : ~stop[p] => later[p] \in 1..n /\ p < later[p]
    <3>1. \A p \in 1..n : p # n => p + 1 \in 1..n /\ p < p + 1
      BY <1>1
    <3> HIDE DEF n
    <3> QED
      BY <3>1
  <2> HIDE DEF n, V, later, stop, base, step
  <2> QED
    BY <1>1, <2>1, <2>2, <2>3 DEF Leads
<1>4. PICK g : Solves(g, n, V, later, stop, base, step)
  <2> HIDE DEF n, V, later, stop, base, step
  <2> QED
    BY <1>3, DefinedFromLater
<1> DEFINE fl == [i \in 1..n |-> g[n + 1 - i]]
<1>5. g \in [1..n -> V]
  BY <1>4 DEF Solves
<1>6. fl \in [1..n -> V]
  <2> HIDE DEF V, n
  <2> QED
    BY <1>1, <1>5
<1>7. ASSUME NEW i \in 1..n
      PROVE  fl[i] = IF i = 1 THEN seqs[i] ELSE fl[i - 1] \o seqs[i]
  <2> DEFINE p == n + 1 - i
  <2>1. p \in 1..n /\ n + 1 - p = i /\ (p = n <=> i = 1)
        /\ (i # 1 => i - 1 \in 1..n /\ n + 1 - (i - 1) = p + 1 /\ p + 1 \in 1..n)
    BY <1>1
  <2>2. g[p] = IF stop[p] THEN base[p] ELSE step[p][g[later[p]]]
    <3> HIDE DEF p, n, V, later, stop, base, step
    <3> QED
      BY <1>4, <2>1 DEF Solves
  <2>3. fl[i] = g[p]
    OBVIOUS
  <2>4. CASE i = 1
    <3>1. stop[p] /\ base[p] = seqs[i]
      <4> HIDE DEF n, p
      <4> QED
        BY <2>1, <2>4
    <3> QED
      BY <2>2, <2>3, <2>4, <3>1
  <2>5. CASE i # 1
    <3>1. ~stop[p] /\ later[p] = p + 1
      <4> HIDE DEF n, p
      <4> QED
        BY <2>1, <2>5
    <3>2. g[p + 1] \in V /\ fl[i - 1] = g[p + 1]
      <4> HIDE DEF p, n, V
      <4> QED
        BY <1>5, <2>1, <2>5
    <3>3. step[p][g[p + 1]] = g[p + 1] \o seqs[i]
      <4> HIDE DEF p, n, V
      <4> QED
        BY <2>1, <3>2
    <3> HIDE DEF p, n, V, later, stop, base, step, fl
    <3> QED
      BY <2>2, <2>3, <2>5, <3>1, <3>2, <3>3
  <2> QED
    BY <2>4, <2>5
<1>8. Flattens(fl, seqs)
  <2>1. fl = [i \in 1..n |-> IF i = 1 THEN seqs[i] ELSE fl[i - 1] \o seqs[i]]
    <3>1. fl = [i \in 1..n |-> fl[i]]
      OBVIOUS
    <3> HIDE DEF fl
    <3> QED
      BY <1>7, <3>1
  <2> HIDE DEF fl
  <2> QED
    BY <2>1 DEF Flattens
<1> HIDE DEF fl
<1> QED
  BY <1>6, <1>8

Begins(seqs, more) == /\ Len(seqs) \in Nat /\ Len(more) \in Nat /\ Len(seqs) <= Len(more)
                      /\ \A i \in 1..Len(seqs) : more[i] = seqs[i]

\* Two functions that flatten the same sequence have the same value where both are
\* defined, also when one of the sequences goes on.
LEMMA FlattensAgree ==
    ASSUME NEW seqs, NEW more, Begins(seqs, more),
           NEW fl, NEW fm, Flattens(fl, seqs), Flattens(fm, more)
    PROVE  \A i \in 1..Len(seqs) : fm[i] = fl[i]
<1> USE DEF Begins
<1> DEFINE T == {i \in 1..Len(seqs) : fm[i] # fl[i]}
<1> SUFFICES ASSUME T # {} PROVE FALSE
  OBVIOUS
<1>1. PICK i \in T : \A k \in T : i <= k
  <2>1. T \in SUBSET Nat
    OBVIOUS
  <2> HIDE DEF T
  <2> QED
    BY <2>1, LeastNumber
<1>2. i \in 1..Len(seqs) /\ i \in 1..Len(more) /\ more[i] = seqs[i] /\ fm[i] # fl[i]
  BY <1>1
<1>3. /\ fl[i] = IF i = 1 THEN seqs[i] ELSE fl[i - 1] \o seqs[i]
      /\ fm[i] = IF i = 1 THEN more[i] ELSE fm[i - 1] \o more[i]
  BY <1>2 DEF Flattens
<1>4. i # 1 /\ fm[i - 1] # fl[i - 1]
  BY <1>2, <1>3
<1>5. i - 1 \in 1..Len(seqs) /\ ~(i <= i - 1)
  BY <1>2, <1>4
<1>6. i - 1 \in T
  BY <1>4, <1>5
<1> HIDE DEF T
<1> QED
  BY <1>1, <1>5, <1>6

LEMMA FlattenAppend ==
    ASSUME NEW S, NEW seqs \in Seq(Seq(S)), NEW x \in Seq(S)
    PROVE  /\ Parse!FlattenSeq(seqs) \in Seq(S)
           /\ Parse!FlattenSeq(Append(seqs, x)) = Parse!FlattenSeq(seqs) \o x
<1> DEFINE n == Len(seqs)
           longer == Append(seqs, x)
<1>1. n \in Nat /\ longer \in Seq(Seq(S)) /\ Len(longer) = n + 1 /\ longer[n + 1] = x
      /\ \A i \in 1..n : longer[i] = seqs[i]
  OBVIOUS
<1>2. ASSUME NEW s \in Seq(Seq(S)), Len(s) # 0
      PROVE  \E fl \in [1..Len(s) -> Seq(S)] : Flattens(fl, s) /\ Parse!FlattenSeq(s) = fl[Len(s)]
  <2>1. PICK f0 \in [1..Len(s) -> Seq(S)] : Flattens(f0, s)
    BY FlattenExists
  <2> DEFINE fl == CHOOSE fl : fl = [i \in 1..Len(s) |-> IF i = 1 THEN s[i] ELSE fl[i - 1] \o s[i]]
  <2>2. f0 = [i \in 1..Len(s) |-> IF i = 1 THEN s[i] ELSE f0[i - 1] \o s[i]]
    BY <2>1 DEF Flattens
  <2>3. fl = [i \in 1..Len(s) |-> IF i = 1 THEN s[i] ELSE fl[i - 1] \o s[i]]
    BY <2>2
  <2>4. Parse!FlattenSeq(s) = fl[Len(s)]
    BY <1>2 DEF Parse!FlattenSeq
  <2> HIDE DEF fl
  <2>5. Flattens(fl, s)
    BY <2>3 DEF Flattens
  <2>6. \A i \in 1..Len(s) : fl[i] = f0[i]
    <3>1. Begins(s, s)
      BY DEF Begins
    <3> QED
      BY <2>1, <2>5, <3>1, FlattensAgree
  <2>7. fl = [i \in 1..Len(s) |-> fl[i]]
    BY <2>3
  <2>8. fl \in [1..Len(s) -> Seq(S)]
    BY <2>1, <2>6, <2>7
  <2> QED
    BY <2>4, <2>5, <2>8
<1>3. PICK fm \in [1..(n + 1) -> Seq(S)] :
         Flattens(fm, longer) /\ Parse!FlattenSeq(longer) = fm[n + 1]
  <2>1. longer \in Seq(Seq(S)) /\ Len(longer) = n + 1 /\ Len(longer) # 0
    BY <1>1
  <2> HIDE DEF longer, n
  <2>2. PICK fm \in [1..Len(longer) -> Seq(S)] :
           Flattens(fm, longer) /\ Parse!FlattenSeq(longer) = fm[Len(longer)]
    BY <2>1, <1>2
  <2> QED
    BY <2>1, <2>2
<1>4. CASE n = 0
  <2>1. seqs = <<>> /\ Parse!FlattenSeq(seqs) = <<>>
    BY <1>4 DEF Parse!FlattenSeq
  <2>2. fm[1] = x
    BY <1>1, <1>3, <1>4 DEF Flattens
  <2>3. Parse!FlattenSeq(longer) = x
    BY <1>3, <1>4, <2>2
  <2>4. <<>> \o x = x /\ <<>> \in Seq(S)
    OBVIOUS
  <2> HIDE DEF longer, n
  <2>5. Parse!FlattenSeq(longer) = Parse!FlattenSeq(seqs) \o x /\ Parse!FlattenSeq(seqs) \in Seq(S)
    BY <2>1, <2>3, <2>4
  <2> QED
    BY <2>5 DEF longer
<1>5. CASE n # 0
  <2>1. PICK fl \in [1..n -> Seq(S)] : Flattens(fl, seqs) /\ Parse!FlattenSeq(seqs) = fl[n]
    BY <1>2, <1>5
  <2>2. fm[n] = fl[n]
    <3>1. \A i \in 1..Len(seqs) : fm[i] = fl[i]
      <4>1. Begins(seqs, longer)
        BY <1>1 DEF Begins
      <4>2. Flattens(fl, seqs) /\ Flattens(fm, longer)
        BY <1>3, <2>1
      <4>3. ASSUME NEW t, Begins(seqs, t), Flattens(fm, t)
            PROVE  \A i \in 1..Len(seqs) : fm[i] = fl[i]
        BY <4>2, <4>3, FlattensAgree
      <4> QED
        BY <4>1, <4>2, <4>3
    <3> QED
      BY <1>1, <1>5, <3>1
  <2>3. fm[n + 1] = fm[n] \o x
    <3>1. /\ n + 1 \in 1..Len(longer) /\ n + 1 # 1 /\ (n + 1) - 1 = n
      BY <1>1, <1>5
    <3>2. fm[n + 1] = fm[(n + 1) - 1] \o longer[n + 1]
      <4> HIDE DEF n, longer
      <4> QED
        BY <1>3, <3>1 DEF Flattens
    <3> HIDE DEF n, longer
    <3> QED
      BY <1>1, <3>1, <3>2
  <2> QED
    BY <1>1, <1>3, <1>5, <2>1, <2>2, <2>3
<1> QED
  BY <1>4, <1>5

-----------------------------------------------------------------------------
(* The calls that coroutines are compared with *)

Events == Many!Functions \X {"begin", "end"}

\* The events of a call of f, where c has those of other calls.
Inner(c, f) == [i \in DOMAIN Many!Calls(f) |-> c[Many!Calls(f)[i]]]
Expand(c, f) == <<<<f, "begin">>>> \o Many!FlattenSeq(Inner(c, f)) \o <<<<f, "end">>>>

\* No function calls one of the same rank or a higher one.
Positive(n) == IF n > 0 THEN n ELSE 0
Rank(f) == CASE f[1] = "fun3" -> Positive(f[2])
             [] f[1] = "fun1" -> 10 + 2 * Positive(f[2])
             [] f[1] = "fun2" -> 11 + 2 * Positive(f[2])
             [] f[1] \in {"parent", "other_parent"} -> 1
             [] f[1] \in {"child", "child_func"} -> 0

Kinds == {"crsm", "awaitable", "recursion"}

\* c has the events of every call of a rank below k.
Expands(c, k) == \A f \in Many!Functions : Rank(f) < k => c[f] = Expand(c, f)

\* Every call is to a function of a lower rank.
LEMMA CalleesBelow ==
    ASSUME kind \in Kinds, NEW f \in Many!Functions
    PROVE  /\ Rank(f) \in Nat /\ Len(Many!Calls(f)) \in Nat
           /\ DOMAIN Many!Calls(f) = 1..Len(Many!Calls(f))
           /\ \A i \in DOMAIN Many!Calls(f) :
                 /\ Many!Calls(f)[i] \in Many!Functions
                 /\ Rank(Many!Calls(f)[i]) \in Nat /\ Rank(Many!Calls(f)[i]) < Rank(f)
<1> DEFINE Names == {"fun1", "fun2", "fun3", "parent", "other_parent", "child", "child_func"}
           calls == Many!Calls(f)
<1>1. PICK name \in Names, n \in Int : f = <<name, n>>
  BY DEF Many!Functions
<1>2. \A m \in Int :
         /\ Rank(<<"fun3", m>>) = Positive(m) /\ Rank(<<"fun1", m>>) = 10 + 2 * Positive(m)
         /\ Rank(<<"fun2", m>>) = 11 + 2 * Positive(m) /\ Rank(<<"parent", m>>) = 1
         /\ Rank(<<"other_parent", m>>) = 1 /\ Rank(<<"child", m>>) = 0
         /\ Rank(<<"child_func", m>>) = 0
  BY DEF Rank
<1>3. \A m \in Int : Positive(m) \in Nat /\ (m > 0 => Positive(m) = m) /\ (m <= 0 => Positive(m) = 0)
  BY DEF Positive
<1>4. \A m \in Int, o \in Names : <<o, m>> \in Many!Functions
  BY DEF Many!Functions
<1>5. ASSUME NEW e \in Names, NEW m \in Int, NEW o \in Names, NEW p \in Int,
             Rank(<<e, m>>) \in Nat, Rank(<<o, p>>) \in Nat,
             Rank(<<e, m>>) < Rank(<<o, p>>), f = <<o, p>>, calls = <<<<e, m>>>>
      PROVE  /\ Len(calls) \in Nat /\ DOMAIN calls = 1..Len(calls)
             /\ \A i \in DOMAIN calls : /\ calls[i] \in Many!Functions
                                       /\ Rank(calls[i]) \in Nat /\ Rank(calls[i]) < Rank(f)
  <2>1. DOMAIN calls = {1} /\ Len(calls) = 1 /\ calls[1] = <<e, m>> /\ 1..1 = {1}
    BY <1>5
  <2>2. calls[1] \in Many!Functions
    BY <1>4, <2>1
  <2> HIDE DEF calls
  <2> QED
    BY <1>5, <2>1, <2>2
<1>6. CASE name = "fun1"
  <2>1. f[1] = "fun1" /\ f[2] = n
    BY <1>1, <1>6
  <2>2. CASE n > 3
    <3>1. calls = <<<<"fun2", n - 3>>>>
      BY <2>1, <2>2 DEF Many!Calls
    <3>2. Rank(<<"fun2", n - 3>>) = 11 + 2 * (n - 3) /\ Rank(<<"fun1", n>>) = 10 + 2 * n
      <4>1. n - 3 \in Int /\ n - 3 > 0 /\ n > 0
        BY <2>2
      <4>2. Positive(n - 3) = n - 3 /\ Positive(n) = n
        BY <1>3, <4>1
      <4> QED
        BY <1>2, <4>1, <4>2
    <3> HIDE DEF calls
    <3>3. Rank(<<"fun2", n - 3>>) < Rank(<<"fun1", n>>) /\ Rank(<<"fun2", n - 3>>) \in Nat /\ n - 3 \in Int
          /\ Rank(<<"fun1", n>>) \in Nat
      BY <2>2, <3>2
    <3> QED
      BY <1>1, <1>5, <1>6, <3>1, <3>3 DEF calls
  <2>3. CASE ~(n > 3)
    <3>1. calls = <<<<"fun3", 7>>>>
      BY <2>1, <2>3 DEF Many!Calls
    <3>2. Rank(<<"fun3", 7>>) = 7 /\ Rank(<<"fun1", n>>) = 10 + 2 * Positive(n)
      <4>1. 7 \in Int /\ 7 > 0
        OBVIOUS
      <4> QED
        BY <1>2, <1>3, <4>1
    <3>3. Rank(<<"fun3", 7>>) < Rank(<<"fun1", n>>) /\ Rank(<<"fun3", 7>>) \in Nat
          /\ Rank(<<"fun1", n>>) \in Nat
      BY <1>3, <3>2
    <3> QED
      BY <1>1, <1>5, <1>6, <3>1, <3>3
  <2> QED
    BY <2>2, <2>3
<1>7. CASE name = "fun2"
  <2>1. f[1] = "fun2" /\ f[2] = n /\ n - 2 \in Int
    BY <1>1, <1>7
  <2>2. /\ Rank(<<"fun1", n - 2>>) \in Nat /\ Rank(<<"fun3", n>>) \in Nat
        /\ Rank(<<"fun2", n>>) \in Nat
        /\ Rank(<<"fun1", n - 2>>) < Rank(<<"fun2", n>>) /\ Rank(<<"fun3", n>>) < Rank(<<"fun2", n>>)
    <3>1. /\ Rank(<<"fun1", n - 2>>) = 10 + 2 * Positive(n - 2) /\ Rank(<<"fun3", n>>) = Positive(n)
          /\ Rank(<<"fun2", n>>) = 11 + 2 * Positive(n)
      BY <1>2, <2>1
    <3>2. Positive(n - 2) \in Nat /\ Positive(n) \in Nat /\ Positive(n - 2) <= Positive(n)
      BY <1>3, <2>1
    <3> QED
      BY <3>1, <3>2
  <2>3. CASE kind = "crsm"
    <3>1. calls = <<<<"fun1", n - 2>>>>
      BY <2>1, <2>3 DEF Many!Calls
    <3> QED
      BY <1>1, <1>5, <1>7, <2>1, <2>2, <3>1
  <2>4. CASE kind # "crsm"
    <3>1. calls = <<<<"fun1", n - 2>>, <<"fun3", n>>>>
      BY <2>1, <2>4 DEF Many!Calls
    <3>2. /\ DOMAIN calls = {1, 2} /\ Len(calls) = 2 /\ calls[1] = <<"fun1", n - 2>>
          /\ calls[2] = <<"fun3", n>> /\ 1..2 = {1, 2}
      BY <3>1
    <3>3. calls[1] \in Many!Functions /\ calls[2] \in Many!Functions
      BY <1>4, <2>1, <3>2
    <3>4. f = <<"fun2", n>>
      BY <1>1, <1>7
    <3> HIDE DEF calls
    <3>5. /\ Len(calls) \in Nat /\ DOMAIN calls = 1..Len(calls) /\ Rank(f) \in Nat
          /\ \A i \in DOMAIN calls : /\ calls[i] \in Many!Functions
                                    /\ Rank(calls[i]) \in Nat /\ Rank(calls[i]) < Rank(f)
      BY <2>2, <3>2, <3>3, <3>4
    <3> QED
      BY <3>5 DEF calls
  <2> QED
    BY <2>3, <2>4
<1>8. CASE name = "fun3"
  <2>1. f[1] = "fun3" /\ f[2] = n /\ n - 2 \in Int
    BY <1>1, <1>8
  <2>2. CASE n > 0
    <3>1. calls = <<<<"fun3", n - 2>>>>
      BY <2>1, <2>2 DEF Many!Calls
    <3>2. Rank(<<"fun3", n - 2>>) = Positive(n - 2) /\ Rank(<<"fun3", n>>) = n
      BY <1>2, <1>3, <2>1, <2>2
    <3>3. Rank(<<"fun3", n - 2>>) < Rank(<<"fun3", n>>) /\ Rank(<<"fun3", n - 2>>) \in Nat
          /\ Rank(<<"fun3", n>>) \in Nat
      BY <1>3, <2>1, <2>2, <3>2
    <3> QED
      BY <1>1, <1>5, <1>8, <2>1, <3>1, <3>3
  <2>3. CASE ~(n > 0)
    <3>1. calls = <<>>
      BY <2>1, <2>3 DEF Many!Calls
    <3>2. Rank(f) \in Nat
      BY <1>1, <1>2, <1>3, <1>8
    <3> QED
      BY <3>1, <3>2
  <2> QED
    BY <2>2, <2>3
<1>9. CASE name = "parent"
  <2>1. calls = <<<<"child", 0>>>>
    BY <1>1, <1>9 DEF Many!Calls
  <2>2. Rank(<<"child", 0>>) = 0 /\ Rank(<<"parent", n>>) = 1
    BY DEF Rank
  <2> QED
    BY <1>1, <1>5, <1>9, <2>1, <2>2
<1>10. CASE name = "other_parent"
  <2>1. calls = <<<<"child_func", 0>>>>
    BY <1>1, <1>10 DEF Many!Calls
  <2>2. Rank(<<"child_func", 0>>) = 0 /\ Rank(<<"other_parent", n>>) = 1
    BY DEF Rank
  <2> QED
    BY <1>1, <1>5, <1>10, <2>1, <2>2
<1>11. CASE name \in {"child", "child_func"}
  <2>1. calls = <<>>
    BY <1>1, <1>11 DEF Many!Calls
  <2>2. Rank(f) \in Nat
    <3>1. Rank(f) = 0
      BY <1>1, <1>2, <1>11
    <3> QED
      BY <3>1
  <2> QED
    BY <2>1, <2>2
<1> QED
  BY <1>1, <1>6, <1>7, <1>8, <1>9, <1>10, <1>11

LEMMA SameFlatten == ASSUME NEW s PROVE Many!FlattenSeq(s) = Parse!FlattenSeq(s)
BY DEF Many!FlattenSeq, Parse!FlattenSeq

LEMMA ManyFlattens ==
    ASSUME NEW S, NEW seqs \in Seq(Seq(S)), NEW x \in Seq(S)
    PROVE  /\ Many!FlattenSeq(seqs) \in Seq(S)
           /\ Many!FlattenSeq(Append(seqs, x)) = Many!FlattenSeq(seqs) \o x
BY FlattenAppend, SameFlatten

LEMMA EventTypes ==
    ASSUME NEW f \in Many!Functions
    PROVE  <<<<f, "begin">>>> \in Seq(Events) /\ <<<<f, "end">>>> \in Seq(Events)
           /\ <<f, "begin">> \in Events /\ <<f, "end">> \in Events
BY DEF Events

LEMMA ExpandTypes ==
    ASSUME kind \in Kinds, NEW c \in [Many!Functions -> Seq(Events)], NEW f \in Many!Functions
    PROVE  /\ Inner(c, f) \in Seq(Seq(Events)) /\ Len(Inner(c, f)) = Len(Many!Calls(f))
           /\ Expand(c, f) \in Seq(Events)
<1>1. Inner(c, f) \in Seq(Seq(Events)) /\ Len(Inner(c, f)) = Len(Many!Calls(f))
  <2> DEFINE V == Seq(Events)
             F == Many!Functions
             calls == Many!Calls(f)
  <2>1. /\ Len(calls) \in Nat /\ DOMAIN calls = 1..Len(calls)
        /\ \A i \in DOMAIN calls : calls[i] \in F
    BY CalleesBelow
  <2>2. c \in [F -> V]
    OBVIOUS
  <2> HIDE DEF V, F, calls
  <2>3. /\ [i \in DOMAIN calls |-> c[calls[i]]] \in Seq(V)
        /\ Len([i \in DOMAIN calls |-> c[calls[i]]]) = Len(calls)
    BY <2>1, <2>2
  <2> QED
    BY <2>3 DEF Inner, V, calls
<1>2. <<>> \in Seq(Events)
  OBVIOUS
<1>3. Many!FlattenSeq(Inner(c, f)) \in Seq(Events)
  BY <1>1, <1>2, ManyFlattens
<1>4. \A u, v, w \in Seq(Events) : u \o v \o w \in Seq(Events)
  OBVIOUS
<1>5. Expand(c, f) \in Seq(Events)
  BY <1>3, <1>4, EventTypes DEF Expand
<1> QED
  BY <1>1, <1>5

\* A call depends on the calls below it only.
LEMMA ExpandLocal ==
    ASSUME kind \in Kinds, NEW f \in Many!Functions, NEW c, NEW d,
           \A g \in Many!Functions : Rank(g) < Rank(f) => c[g] = d[g]
    PROVE  Expand(c, f) = Expand(d, f)
<1>1. \A i \in DOMAIN Many!Calls(f) : c[Many!Calls(f)[i]] = d[Many!Calls(f)[i]]
  BY CalleesBelow
<1>2. Inner(c, f) = Inner(d, f)
  BY <1>1 DEF Inner
<1> QED
  BY <1>2 DEF Expand

\* Two functions that have the events of the calls below a rank agree there.
LEMMA ExpandsAgree ==
    ASSUME kind \in Kinds, NEW c, NEW d, NEW k \in Nat, NEW l \in Nat, Expands(c, k), Expands(d, l)
    PROVE  \A f \in Many!Functions : Rank(f) < k /\ Rank(f) < l => c[f] = d[f]
<1> DEFINE Differs(m) == \E f \in Many!Functions : /\ Rank(f) = m /\ m < k /\ m < l
                                                   /\ c[f] # d[f]
           T == {m \in Nat : Differs(m)}
<1> SUFFICES ASSUME NEW e \in Many!Functions, Rank(e) < k, Rank(e) < l, c[e] # d[e] PROVE FALSE
  OBVIOUS
<1>1. Rank(e) \in T
  BY CalleesBelow
<1>2. PICK m \in T : \A n \in T : m <= n
  <2>1. T \in SUBSET Nat /\ T # {}
    BY <1>1
  <2> HIDE DEF T
  <2> QED
    BY <2>1, LeastNumber
<1>3. PICK f \in Many!Functions : Rank(f) = m /\ m < k /\ m < l /\ c[f] # d[f]
  BY <1>2
<1>4. ASSUME NEW g \in Many!Functions, Rank(g) < Rank(f) PROVE c[g] = d[g]
  <2>1. Rank(g) \in Nat /\ Rank(g) < k /\ Rank(g) < l /\ ~(m <= Rank(g))
    BY <1>2, <1>3, <1>4, CalleesBelow
  <2>2. Rank(g) \notin T
    <3> HIDE DEF T
    <3> QED
      BY <1>2, <2>1
  <2> QED
    BY <2>1, <2>2
<1>5. Expand(c, f) = Expand(d, f)
  BY <1>4, ExpandLocal
<1>6. c[f] = Expand(c, f) /\ d[f] = Expand(d, f)
  BY <1>3 DEF Expands
<1> QED
  BY <1>3, <1>5, <1>6

\* There is one for every rank.
LEMMA ExpandsUpTo ==
    ASSUME kind \in Kinds, NEW k \in Nat
    PROVE  \E c \in [Many!Functions -> Seq(Events)] : Expands(c, k)
<1> DEFINE F == Many!Functions
           V == Seq(Events)
           There(n) == \E c \in [F -> V] : Expands(c, n)
           T == {n \in Nat : ~There(n)}
<1> SUFFICES ASSUME T # {} PROVE FALSE
  OBVIOUS
<1>1. PICK m \in T : \A n \in T : m <= n
  <2>1. T \in SUBSET Nat
    OBVIOUS
  <2> HIDE DEF T
  <2> QED
    BY <2>1, LeastNumber
<1>2. m # 0
  <2>1. [f \in F |-> <<>>] \in [F -> V]
    OBVIOUS
  <2>2. Expands([f \in F |-> <<>>], 0)
    BY CalleesBelow DEF Expands
  <2>3. There(0)
    BY <2>1, <2>2
  <2> QED
    BY <1>1, <2>3
<1>3. m \in Nat /\ m - 1 \in Nat /\ There(m - 1)
  <2>1. m \in Nat /\ m - 1 \in Nat /\ ~(m <= m - 1)
    BY <1>1, <1>2
  <2>2. m - 1 \notin T
    <3> HIDE DEF T
    <3> QED
      BY <1>1, <2>1
  <2> HIDE DEF There
  <2> QED
    BY <2>1, <2>2
<1>4. PICK c \in [F -> V] : Expands(c, m - 1)
  BY <1>3
<1> DEFINE d == [f \in F |-> Expand(c, f)]
<1>5. d \in [F -> V]
  BY ExpandTypes
<1>6. ASSUME NEW f \in F, Rank(f) < m PROVE d[f] = Expand(d, f)
  <2>1. ASSUME NEW g \in F, Rank(g) < Rank(f) PROVE d[g] = c[g]
    <3>1. Rank(g) \in Nat /\ Rank(f) \in Nat
      BY CalleesBelow
    <3>2. Rank(g) < m - 1
      BY <1>3, <1>6, <2>1, <3>1
    <3>3. c[g] = Expand(c, g)
      BY <1>4, <3>2 DEF Expands
    <3> QED
      BY <3>3
  <2> HIDE DEF d
  <2>2. Expand(d, f) = Expand(c, f)
    BY <2>1, ExpandLocal
  <2> QED
    BY <2>2 DEF d
<1>7. Expands(d, m)
  <2> HIDE DEF d
  <2> QED
    BY <1>6 DEF Expands
<1>8. There(m)
  <2> HIDE DEF d
  <2> QED
    BY <1>5, <1>7
<1> QED
  BY <1>1, <1>8

\* Every call, of whatever depth, has its events.
Calling(c) == /\ c \in [Many!Functions -> Seq(Events)]
              /\ \A f \in Many!Functions : c[f] = Expand(c, f)

\* There is one for all ranks.
LEMMA CallingExists == ASSUME kind \in Kinds PROVE \E c : Calling(c)
<1> DEFINE F == Many!Functions
           V == Seq(Events)
           Level(k) == CHOOSE c \in [F -> V] : Expands(c, k)
           h == [f \in F |-> Level(Rank(f) + 1)[f]]
<1>1. \A k \in Nat : Level(k) \in [F -> V] /\ Expands(Level(k), k)
  BY ExpandsUpTo
<1>2. \A f \in F : Rank(f) \in Nat /\ Rank(f) + 1 \in Nat /\ Rank(f) < Rank(f) + 1
  BY CalleesBelow
<1> HIDE DEF Level
<1>3. h \in [F -> V]
  BY <1>1, <1>2
<1>4. ASSUME NEW f \in F PROVE h[f] = Expand(h, f)
  <2> DEFINE c == Level(Rank(f) + 1)
  <2>1. Expands(c, Rank(f) + 1)
    BY <1>1, <1>2
  <2>2. ASSUME NEW g \in F, Rank(g) < Rank(f) PROVE h[g] = c[g]
    <3> DEFINE d == Level(Rank(g) + 1)
    <3>1. Expands(d, Rank(g) + 1)
      BY <1>1, <1>2
    <3>2. Rank(g) < Rank(g) + 1 /\ Rank(g) < Rank(f) + 1
      BY <1>2, <2>2
    <3> HIDE DEF c, d
    <3>3. c[g] = d[g]
      BY <1>2, <2>1, <3>1, <3>2, ExpandsAgree
    <3> QED
      BY <3>3 DEF d
  <2>3. h[f] = c[f]
    OBVIOUS
  <2>4. c[f] = Expand(c, f)
    <3> HIDE DEF c
    <3> QED
      BY <1>2, <2>1 DEF Expands
  <2> HIDE DEF c, h
  <2>5. Expand(h, f) = Expand(c, f)
    BY <2>2, ExpandLocal
  <2> QED
    BY <2>3, <2>4, <2>5
<1>5. Calling(h)
  <2> HIDE DEF h
  <2> QED
    BY <1>3, <1>4 DEF Calling
<1> QED
  BY <1>5

\* The recursive function of the model has them.
LEMMA CalledExpands == ASSUME kind \in Kinds, NEW c, Calling(c) PROVE Many!Called = c
<1> DEFINE F == Many!Functions
           d == Many!Called
<1>1. c = [f \in F |-> <<<<f, "begin">>>>
                       \o Many!FlattenSeq([i \in DOMAIN Many!Calls(f) |-> c[Many!Calls(f)[i]]])
                       \o <<<<f, "end">>>>]
  <2>1. c = [f \in F |-> c[f]]
    BY DEF Calling
  <2>2. \A f \in F : c[f] = <<<<f, "begin">>>>
                       \o Many!FlattenSeq([i \in DOMAIN Many!Calls(f) |-> c[Many!Calls(f)[i]]])
                       \o <<<<f, "end">>>>
    BY DEF Calling, Expand, Inner
  <2> QED
    BY <2>1, <2>2
<1>2. d = [f \in F |-> <<<<f, "begin">>>>
                       \o Many!FlattenSeq([i \in DOMAIN Many!Calls(f) |-> d[Many!Calls(f)[i]]])
                       \o <<<<f, "end">>>>]
  BY <1>1, Zenon DEF Many!Called
<1> HIDE DEF d
<1>3. \A f \in F : d[f] = Expand(d, f)
  BY <1>2 DEF Expand, Inner
<1>4. d = [f \in F |-> d[f]] /\ c = [f \in F |-> c[f]]
  BY <1>2 DEF Calling
<1>5. ASSUME NEW f \in F PROVE d[f] = c[f]
  <2>1. Rank(f) + 1 \in Nat /\ Rank(f) < Rank(f) + 1
    BY CalleesBelow
  <2>2. Expands(d, Rank(f) + 1) /\ Expands(c, Rank(f) + 1)
    BY <1>3 DEF Expands, Calling
  <2> QED
    BY <2>1, <2>2, ExpandsAgree
<1>6. d = c
  BY <1>4, <1>5
<1> QED
  BY <1>6 DEF d

-----------------------------------------------------------------------------
(* What the trace has to be *)

\* The calls of each function; and c, the events of a call, in terms of them.
Bodies == [f \in Many!Functions |-> Many!Calls(f)]

\* c has the events of every call, where m are the calls in the bodies.  The proofs about steps
\* use nothing else of the programs.
Code(c, m) ==
    /\ c \in [Many!Functions -> Seq(Events)] /\ m \in [Many!Functions -> Seq(Many!Functions)]
    /\ \A f \in Many!Functions :
          c[f] = <<<<f, "begin">>>> \o Many!FlattenSeq([i \in 1..Len(m[f]) |-> c[m[f][i]]])
                                   \o <<<<f, "end">>>>

\* The trace when the first k calls of f have returned, whose call found b.
Sofar(c, m, b, f, k) ==
    (b \o <<<<f, "begin">>>>) \o Many!FlattenSeq([i \in 1..k |-> c[m[f][i]]])

LEMMA CodeIsCalling == ASSUME kind \in Kinds, NEW c PROVE Calling(c) <=> Code(c, Bodies)
<1>1. Bodies \in [Many!Functions -> Seq(Many!Functions)]
  BY CallsTypes DEF Bodies, Kinds
<1>2. ASSUME NEW f \in Many!Functions
      PROVE  Expand(c, f) = <<<<f, "begin">>>>
                            \o Many!FlattenSeq([i \in 1..Len(Bodies[f]) |-> c[Bodies[f][i]]])
                            \o <<<<f, "end">>>>
  <2>1. Bodies[f] = Many!Calls(f) /\ DOMAIN Many!Calls(f) = 1..Len(Many!Calls(f))
    BY CalleesBelow DEF Bodies
  <2> QED
    BY <2>1 DEF Expand, Inner
<1> QED
  BY <1>1, <1>2 DEF Code, Calling

LEMMA SameBodies == ASSUME kind' = kind PROVE Bodies' = Bodies
<1>1. ASSUME NEW f PROVE Many!Calls(f)' = Many!Calls(f)
  BY DEF Many!Calls
<1> QED
  BY <1>1 DEF Bodies

\* It begins with the body, grows with every call that returns, and ends with the body.
Grows(c, m, b, f) ==
    /\ \A k \in 0..Len(m[f]) : Sofar(c, m, b, f, k) \in Seq(Events)
    /\ \A k \in 1..Len(m[f]) :
          Sofar(c, m, b, f, k) = Sofar(c, m, b, f, k - 1) \o c[m[f][k]]
    /\ Sofar(c, m, b, f, 0) = Append(b, <<f, "begin">>)
    /\ Append(Sofar(c, m, b, f, Len(m[f])), <<f, "end">>) = b \o c[f]

LEMMA SofarGrows ==
    ASSUME NEW c, NEW m, Code(c, m), NEW b \in Seq(Events), NEW f \in Many!Functions
    PROVE  Grows(c, m, b, f)
<1> DEFINE V == Seq(Events)
           Part(k) == [i \in 1..k |-> c[m[f][i]]]
           n == Len(m[f])
           start == b \o <<<<f, "begin">>>>
<1>1. /\ n \in Nat /\ \A i \in 1..n : m[f][i] \in Many!Functions /\ c[m[f][i]] \in V
  <2>1. m[f] \in Seq(Many!Functions)
    BY DEF Code
  <2> QED
    BY <2>1 DEF Code
<1>2. \A k \in 0..n : Part(k) \in Seq(V) /\ Len(Part(k)) = k
  <2> HIDE DEF V, n
  <2> QED
    BY <1>1
<1>3. \A k \in 1..n : Part(k) = Append(Part(k - 1), c[m[f][k]])
  <2> SUFFICES ASSUME NEW k \in 1..n PROVE Part(k) = Append(Part(k - 1), c[m[f][k]])
    OBVIOUS
  <2> DEFINE p == Part(k - 1)
             x == c[m[f][k]]
  <2>1. k - 1 \in 0..n /\ k - 1 \in Nat /\ k \in Nat /\ (k - 1) + 1 = k
    BY <1>1
  <2>2. p \in Seq(V) /\ Len(p) = k - 1 /\ x \in V
    BY <1>1, <1>2, <2>1
  <2>3. \A i \in 1..(k - 1) : p[i] = Part(k)[i]
    BY <2>1
  <2>4. Part(k)[k] = x
    BY <2>1
  <2> HIDE DEF p, x, V, n
  <2>5. /\ Append(p, x) \in Seq(V) /\ Len(Append(p, x)) = k /\ Append(p, x)[k] = x
        /\ \A i \in 1..(k - 1) : Append(p, x)[i] = p[i]
    BY <2>1, <2>2
  <2>6. Append(p, x) = [i \in 1..k |-> Append(p, x)[i]]
    <3>1. \A s \in Seq(V) : s = [i \in 1..Len(s) |-> s[i]]
      OBVIOUS
    <3> DEFINE q == Append(p, x)
    <3> HIDE DEF q
    <3>2. q \in Seq(V) /\ Len(q) = k
      BY <2>5 DEF q
    <3> QED
      BY <3>1, <3>2 DEF q
  <2>7. \A i \in 1..k : Append(p, x)[i] = Part(k)[i]
    <3> SUFFICES ASSUME NEW i \in 1..k PROVE Append(p, x)[i] = Part(k)[i]
      OBVIOUS
    <3>1. i = k \/ i \in 1..(k - 1)
      BY <2>1
    <3> HIDE DEF Part
    <3> QED
      BY <2>3, <2>4, <2>5, <3>1
  <2>8. Part(k) = [i \in 1..k |-> Part(k)[i]]
    OBVIOUS
  <2> HIDE DEF Part
  <2>9. Append(p, x) = Part(k)
    BY <2>6, <2>7, <2>8
  <2> QED
    BY <2>9 DEF p, x
<1>4. \A k \in 0..n : Many!FlattenSeq(Part(k)) \in V
  <2>1. <<>> \in V
    OBVIOUS
  <2> HIDE DEF Part, V, n
  <2> QED
    BY <1>2, <2>1, ManyFlattens DEF V
<1>5. \A k \in 1..n : Many!FlattenSeq(Part(k)) = Many!FlattenSeq(Part(k - 1)) \o c[m[f][k]]
  <2> SUFFICES ASSUME NEW k \in 1..n
               PROVE  Many!FlattenSeq(Part(k)) = Many!FlattenSeq(Part(k - 1)) \o c[m[f][k]]
    OBVIOUS
  <2>1. k - 1 \in 0..n
    BY <1>1
  <2> HIDE DEF Part, n
  <2>2. Part(k - 1) \in Seq(V) /\ c[m[f][k]] \in V /\ Part(k) = Append(Part(k - 1), c[m[f][k]])
    BY <1>1, <1>2, <1>3, <2>1
  <2> QED
    BY <2>2, ManyFlattens
<1>6. start \in V /\ <<<<f, "end">>>> \in V /\ start = Append(b, <<f, "begin">>)
  BY EventTypes
<1>7. \A k \in 0..n : Sofar(c, m, b, f, k) = start \o Many!FlattenSeq(Part(k))
  BY DEF Sofar
<1> HIDE DEF Part, start, n
<1>8. \A k \in 0..n : Sofar(c, m, b, f, k) \in V
  <2>1. \A u, v \in V : u \o v \in V
    OBVIOUS
  <2> HIDE DEF V
  <2> QED
    BY <1>4, <1>6, <1>7, <2>1
<1>9. ASSUME NEW k \in 1..n
      PROVE  Sofar(c, m, b, f, k) = Sofar(c, m, b, f, k - 1) \o c[m[f][k]]
  <2>1. k - 1 \in 0..n /\ k \in 0..n
    BY <1>1
  <2> DEFINE fl == Many!FlattenSeq(Part(k - 1))
             x == c[m[f][k]]
  <2>2. fl \in V /\ x \in V /\ start \in V
    BY <1>1, <1>4, <1>6, <2>1
  <2>3. Sofar(c, m, b, f, k) = start \o (fl \o x) /\ Sofar(c, m, b, f, k - 1) = start \o fl
    BY <1>5, <1>7, <2>1
  <2> HIDE DEF fl, x
  <2>4. start \o (fl \o x) = (start \o fl) \o x
    BY <2>2, ConcatAssociative, SMTT(20)
  <2> QED
    BY <2>3, <2>4 DEF x
<1>10. Sofar(c, m, b, f, 0) = Append(b, <<f, "begin">>)
  <2>1. Many!FlattenSeq(Part(0)) = <<>>
    <3>1. Part(0) = <<>>
      BY DEF Part
    <3> QED
      BY <3>1 DEF Many!FlattenSeq
  <2>2. start \o <<>> = start
    BY <1>6
  <2> QED
    BY <1>1, <1>6, <1>7, <2>1, <2>2
<1>11. Append(Sofar(c, m, b, f, n), <<f, "end">>) = b \o c[f]
  <2> DEFINE fl == Many!FlattenSeq(Part(n))
             begin == <<<<f, "begin">>>>
             end == <<<<f, "end">>>>
  <2>1. n \in 0..n /\ fl \in V /\ begin \in V /\ end \in V /\ b \in V
    BY <1>1, <1>4, EventTypes
  <2>2. Sofar(c, m, b, f, n) = (b \o begin) \o fl
    BY <1>7, <2>1 DEF start
  <2>3. c[f] = (begin \o fl) \o end
    BY DEF Code, Part, n
  <2> HIDE DEF fl, begin
  <2>4. Append((b \o begin) \o fl, <<f, "end">>) = ((b \o begin) \o fl) \o end
    <3>1. \A s \in V, e \in Events : Append(s, e) = s \o <<e>>
      OBVIOUS
    <3>2. \A s, t \in V : s \o t \in V
      OBVIOUS
    <3>3. (b \o begin) \o fl \in V /\ <<f, "end">> \in Events
      <4> HIDE DEF V
      <4> QED
        BY <2>1, <3>2, EventTypes
    <3> DEFINE s == (b \o begin) \o fl
    <3> HIDE DEF s, V
    <3> QED
      BY <3>1, <3>3 DEF s, end
  <2> HIDE DEF end
  <2>5. ((b \o begin) \o fl) \o end = b \o ((begin \o fl) \o end)
    <3>1. /\ (b \o begin) \o fl = b \o (begin \o fl) /\ begin \o fl \in V
      BY <2>1, ConcatAssociative, SMTT(20)
    <3> DEFINE bf == begin \o fl
    <3> HIDE DEF bf
    <3>2. bf \in V => (b \o bf) \o end = b \o (bf \o end)
      BY <2>1, ConcatAssociative, SMTT(20)
    <3> QED
      BY <3>1, <3>2 DEF bf
  <2> QED
    BY <2>2, <2>3, <2>4, <2>5
<1> QED
  BY <1>8, <1>9, <1>10, <1>11 DEF n, Grows

\* What a step keeps of each frame.
Keeps(fs, gs) == \A g \in 1..Len(fs) : gs[g].function = fs[g].function /\ gs[g].begun = fs[g].begun

\* Destroying an awaited frame changes no function and no count.
LEMMA DestroyedKeeps ==
    ASSUME NEW fs \in Seq(Records), NEW f \in 1..Len(fs), fs[f].awaits \in 0..Len(fs)
    PROVE  Keeps(fs, Many!Destroyed(fs, f))
<1> DEFINE n == Len(fs)
           e == fs[f].awaits
           ds == [fs EXCEPT ![e].state = "freed", ![f].awaits = 0]
<1>1. n \in Nat /\ \A g \in 1..n : fs[g] \in Records
  OBVIOUS
<1>2. CASE e = 0
  <2>1. Many!Destroyed(fs, f) = fs
    BY <1>2 DEF Many!Destroyed
  <2> QED
    BY <2>1 DEF Keeps
<1>3. CASE e # 0
  <2>1. Many!Destroyed(fs, f) = ds
    BY <1>3 DEF Many!Destroyed
  <2> DEFINE es == [fs EXCEPT ![e].state = "freed"]
  <2>2. es = [fs EXCEPT ![e] = [fs[e] EXCEPT !.state = "freed"]] /\ e \in 1..n
        /\ ds = [es EXCEPT ![f] = [es[f] EXCEPT !.awaits = 0]]
    BY <1>3
  <2>3. ASSUME NEW r \in Records
        PROVE  /\ [r EXCEPT !.state = "freed"] \in Records /\ [r EXCEPT !.awaits = 0] \in Records
               /\ [r EXCEPT !.state = "freed"].function = r.function
               /\ [r EXCEPT !.state = "freed"].begun = r.begun
               /\ [r EXCEPT !.awaits = 0].function = r.function
               /\ [r EXCEPT !.awaits = 0].begun = r.begun
    BY DEF Records
  <2>4. ASSUME NEW g \in 1..n
        PROVE  es[g] \in Records /\ es[g].function = fs[g].function /\ es[g].begun = fs[g].begun
    <3>1. CASE g = e
      <4>1. es[g] = [fs[g] EXCEPT !.state = "freed"]
        BY <2>2, <3>1
      <4> QED
        BY <1>1, <2>3, <4>1
    <3>2. CASE g # e
      <4>1. es[g] = fs[g]
        BY <2>2, <3>2
      <4> QED
        BY <1>1, <4>1
    <3> QED
      BY <3>1, <3>2
  <2>5. DOMAIN es = 1..n
    BY <2>2
  <2> HIDE DEF es
  <2>6. ASSUME NEW g \in 1..n
        PROVE  ds[g].function = es[g].function /\ ds[g].begun = es[g].begun
    <3>1. CASE g = f
      <4>1. ds[g] = [es[g] EXCEPT !.awaits = 0]
        BY <2>2, <2>5, <3>1
      <4> QED
        BY <2>3, <2>4, <4>1
    <3>2. CASE g # f
      <4>1. ds[g] = es[g]
        BY <2>2, <2>5, <3>2
      <4> QED
        BY <4>1
    <3> QED
      BY <3>1, <3>2
  <2> HIDE DEF ds
  <2> QED
    BY <2>1, <2>4, <2>6 DEF Keeps
<1> QED
  BY <1>2, <1>3

\* What each action of main() or of a coroutine does to the trace and to the counts.
LEMMA LeaveLogs ==
    ASSUME StackOrdered, Many!MainLeaves
    PROVE  Keeps(frames, frames') /\ trace' = trace
<1>1. frames' = [frames EXCEPT ![1].state = "freed"] /\ trace' = trace
  BY DEF Many!MainLeaves, Many!Root
<1>2. frames \in Seq(Records) /\ Len(frames) \in Nat /\ 1 \in 1..Len(frames)
      /\ \A g \in 1..Len(frames) : frames[g] \in Records
  BY FrameTypes DEF StackOrdered, StackTypes
<1>3. ASSUME NEW r \in Records
      PROVE  /\ [r EXCEPT !.state = "freed"].function = r.function
             /\ [r EXCEPT !.state = "freed"].begun = r.begun
  BY DEF Records
<1>4. frames'[1] = [frames[1] EXCEPT !.state = "freed"]
      /\ \A g \in 1..Len(frames) : g # 1 => frames'[g] = frames[g]
  BY <1>1, <1>2
<1> QED
  BY <1>1, <1>2, <1>3, <1>4 DEF Keeps

LEMMA ResumeLogs ==
    ASSUME StackOrdered, Many!MainResumes
    PROVE  /\ Keeps(frames, frames')
           /\ trace' = IF frames[running'].begun = 0
                       THEN Append(trace, <<frames[running'].function, "begin">>) ELSE trace
<1> DEFINE d == IF Many!Transfers THEN 1 ELSE Many!Deepest[1]
<1>1. Many!Resume(frames, d, trace)
  BY DEF Many!MainResumes, Many!Root
<1>2. /\ d \in 1..Len(frames) /\ running' = d
      /\ frames[d].awaits # 0 => frames[d].awaits \in 1..Len(frames)
  BY ResumeEffect
<1>3. frames \in Seq(Records) /\ Len(frames) \in Nat
  BY FrameTypes DEF StackOrdered, StackTypes
<1> HIDE DEF d
<1>4. frames[d].awaits \in 0..Len(frames)
  BY <1>2, <1>3
<1>5. frames' = Many!Destroyed(frames, d)
      /\ trace' = IF frames[d].begun = 0 THEN Append(trace, <<frames[d].function, "begin">>)
                                         ELSE trace
  BY <1>1 DEF Many!Resume
<1> QED
  BY <1>2, <1>3, <1>4, <1>5, DestroyedKeeps

LEMMA FinishLogs ==
    ASSUME StackOrdered, Many!Finish,
           running' # 0 => frames[running'].begun # 0
    PROVE  /\ Keeps(frames, frames')
           /\ frames[running].begun = Len(Many!Calls(frames[running].function))
           /\ trace' = Append(trace, <<frames[running].function, "end">>)
<1> DEFINE n == Len(frames)
           r == running
           c == IF Many!Transfers THEN frames[r].next ELSE 0
           done == [frames EXCEPT ![r].state = "done"]
           log == Append(trace, <<frames[r].function, "end">>)
<1>1. /\ r \in 1..n /\ running' = c
      /\ c # 0 => c \in 1..n /\ c # r /\ frames[c].awaits = r
  BY FinishEffect
<1>2. frames \in Seq(Records) /\ n \in Nat /\ \A g \in 1..n : frames[g] \in Records
  BY FrameTypes DEF StackOrdered, StackTypes
<1>3. frames[r].begun = Len(Many!Calls(frames[r].function))
  BY DEF Many!Finish
<1>4. ASSUME NEW q \in Records
      PROVE  /\ [q EXCEPT !.state = "done"] \in Records
             /\ [q EXCEPT !.state = "done"].function = q.function
             /\ [q EXCEPT !.state = "done"].begun = q.begun
             /\ [q EXCEPT !.state = "done"].awaits = q.awaits
  BY DEF Records
<1>5. /\ done \in Seq(Records) /\ Len(done) = n
      /\ \A g \in 1..n : /\ done[g].function = frames[g].function
                         /\ done[g].begun = frames[g].begun /\ done[g].awaits = frames[g].awaits
  <2> DEFINE m == [frames[r] EXCEPT !.state = "done"]
  <2>1. /\ m \in Records /\ m.function = frames[r].function /\ m.begun = frames[r].begun
        /\ m.awaits = frames[r].awaits
    <3> HIDE DEF r
    <3> QED
      BY <1>1, <1>2, <1>4
  <2>2. done = [frames EXCEPT ![r] = m]
    OBVIOUS
  <2> HIDE DEF m, r, n
  <2>3. /\ [frames EXCEPT ![r] = m] \in Seq(Records) /\ Len([frames EXCEPT ![r] = m]) = n
        /\ [frames EXCEPT ![r] = m][r] = m
        /\ \A g \in 1..n : g # r => [frames EXCEPT ![r] = m][g] = frames[g]
    BY <1>1, <1>2, <2>1 DEF n
  <2> QED
    BY <2>1, <2>2, <2>3
<1>6. CASE c = 0
  <2>1. frames' = done /\ trace' = log
    BY <1>6 DEF Many!Finish, Many!BackToMain
  <2> HIDE DEF done
  <2> QED
    BY <1>3, <1>5, <2>1 DEF Keeps
<1>7. CASE c # 0
  <2>1. Many!Resume(done, c, log)
    BY <1>7 DEF Many!Finish
  <2> HIDE DEF done, c, log, r, n
  <2>2. done[c].begun # 0 /\ c \in 1..n /\ done[c].awaits \in 0..n
    BY <1>1, <1>2, <1>5, <1>7
  <2>3. frames' = Many!Destroyed(done, c) /\ trace' = log
    BY <2>1, <2>2 DEF Many!Resume
  <2>4. Keeps(done, frames')
    BY <1>5, <2>2, <2>3, DestroyedKeeps
  <2>5. Keeps(frames, frames')
    BY <1>5, <2>4 DEF Keeps, n
  <2> QED
    BY <1>3, <2>3, <2>5 DEF log, r
<1> QED
  BY <1>6, <1>7

LEMMA AwaitLogs ==
    ASSUME StackOrdered, Many!Await
    PROVE  LET n == Len(frames)
               r == frames[running]
               called == Many!Calls(r.function)[r.begun + 1]
           IN  /\ r.begun + 1 \in 1..Len(Many!Calls(r.function))
               /\ frames'[running].function = r.function /\ frames'[running].begun = r.begun + 1
               /\ frames'[n + 1].function = called /\ frames'[n + 1].begun = 0
               /\ trace' = IF Many!Transfers THEN Append(trace, <<called, "begin">>) ELSE trace
<1> DEFINE n == Len(frames)
           f == running
           calls == Many!Calls(frames[f].function)
           mine == [frames[f] EXCEPT !.begun = @ + 1, !.awaits = n + 1]
           linked == IF Many!Transfers THEN mine ELSE [mine EXCEPT !.next = n + 1]
           called == calls[mine.begun]
           new == Many!Frame(called, IF Many!Transfers THEN f ELSE 0)
           fs == Append([frames EXCEPT ![f] = linked], new)
<1>1. /\ StackTypes /\ f \in 1..n /\ n \in Nat /\ frames \in Seq(Records)
      /\ frames[f] \in Records /\ frames[f].function \in Many!Functions
      /\ frames[f].begun \in Nat
  BY FrameTypes, AwaitEffect DEF StackOrdered, StackTypes
<1>2. /\ mine.begun = frames[f].begun + 1 /\ mine.function = frames[f].function
      /\ linked.begun = mine.begun /\ linked.function = mine.function
  <2> DEFINE k == n + 1
             r == frames[f]
  <2> HIDE DEF k, r
  <2>1. r \in Records
    BY <1>1 DEF r
  <2>2. /\ [r EXCEPT !.begun = @ + 1, !.awaits = k].begun = r.begun + 1
        /\ [r EXCEPT !.begun = @ + 1, !.awaits = k].function = r.function
        /\ [[r EXCEPT !.begun = @ + 1, !.awaits = k] EXCEPT !.next = k].begun = r.begun + 1
        /\ [[r EXCEPT !.begun = @ + 1, !.awaits = k] EXCEPT !.next = k].function = r.function
    BY <2>1 DEF Records
  <2>3. /\ mine = [r EXCEPT !.begun = @ + 1, !.awaits = k]
        /\ linked = IF Many!Transfers THEN mine ELSE [mine EXCEPT !.next = k]
    BY DEF k, r
  <2> HIDE DEF mine, linked
  <2> QED
    BY <2>2, <2>3 DEF r
<1>3. mine.begun <= Len(calls)
  BY DEF Many!Await
<1>4. Len(calls) \in Nat
  <2>1. calls \in Seq(Many!Functions)
    BY <1>1, CallsTypes DEF StackTypes
  <2> QED
    BY <2>1
<1>5. new.function = called /\ new.begun = 0 /\ new.awaits = 0
  BY DEF Many!Frame
<1>6. /\ fs[n + 1] = new /\ fs[f] = linked /\ f # n + 1
  <2> HIDE DEF new, linked, f
  <2> DEFINE es == [frames EXCEPT ![f] = linked]
  <2>1. Len(es) = n /\ es[f] = linked /\ f # n + 1
    BY <1>1
  <2>2. es \in Seq(Records \cup {linked})
    BY <1>1
  <2> HIDE DEF es, n
  <2>3. Append(es, new)[n + 1] = new /\ Append(es, new)[f] = es[f]
    BY <1>1, <2>1, <2>2
  <2> QED
    BY <2>1, <2>3 DEF es
<1>7. /\ frames' = fs
      /\ trace' = IF Many!Transfers THEN Append(trace, <<called, "begin">>) ELSE trace
  <2>1. CASE Many!Transfers
    <3>1. Many!Resume(fs, n + 1, trace)
      BY <2>1 DEF Many!Await
    <3> HIDE DEF fs, called, new
    <3> QED
      BY <1>5, <1>6, <2>1, <3>1 DEF Many!Resume, Many!Destroyed
  <2>2. CASE ~Many!Transfers
    <3>1. Many!BackToMain(fs, trace)
      BY <2>2 DEF Many!Await
    <3> HIDE DEF fs
    <3> QED
      BY <2>2, <3>1 DEF Many!BackToMain
  <2> QED
    BY <2>1, <2>2
<1>8. called = Many!Calls(frames[running].function)[frames[running].begun + 1]
  BY <1>2
<1> HIDE DEF fs, new, called, linked, mine, calls
<1> QED
  BY <1>1, <1>2, <1>3, <1>4, <1>5, <1>6, <1>7, <1>8 DEF calls

\* The frame f of fs, with what its call found in the trace in base: it runs, or is still
\* to begin; or it waits for a call, or it has returned.
Goes(c, m, base, fs, run, tr, f) ==
    fs[f].state = "live" /\ fs[f].awaits = 0 =>
       \/ run = f /\ tr = Sofar(c, m, base[f], fs[f].function, fs[f].begun)
       \/ run # f /\ fs[f].begun = 0 /\ tr = base[f]

\* A frame that awaits another one: where that one began the earlier calls have returned.
Waits(c, m, base, fs, f) ==
    fs[f].awaits # 0 =>
       /\ fs[f].begun # 0 /\ fs[fs[f].awaits].function = m[fs[f].function][fs[f].begun]
       /\ base[fs[f].awaits] = Sofar(c, m, base[f], fs[f].function, fs[f].begun - 1)

\* A frame that is done: its own call is the last that the trace has.
Returned(c, base, fs, tr, f) == fs[f].state = "done" => tr = base[f] \o c[fs[f].function]

\* Only one frame awaits none.
Innermost(fs, f) == fs[f].state # "freed" /\ fs[f].awaits = 0

Logged(c, m, base, fs, run, tr) ==
    /\ base \in Seq(Seq(Events)) /\ Len(base) = Len(fs) /\ base[1] = <<>> /\ tr \in Seq(Events)
    /\ \A f \in 1..Len(fs) :
          /\ fs[f].begun <= Len(m[fs[f].function])
          /\ Goes(c, m, base, fs, run, tr, f) /\ Waits(c, m, base, fs, f)
          /\ Returned(c, base, fs, tr, f)
    /\ \A f, g \in 1..Len(fs) : Innermost(fs, f) /\ Innermost(fs, g) => f = g
    /\ fs[1].state = "freed" => tr = c[fs[1].function]

\* The invariant.  It holds for some reference function c; there is no other (CalledExpands).
LoggedInv == example = "many" =>
                \E c, base : Code(c, Bodies) /\ Logged(c, Bodies, base, frames, running, trace)

\* When the root is freed every frame is.
LEMMA RootGoesLast ==
    ASSUME StackTypes, AwaitsOne, frames[1].state # "live"
    PROVE  \A f \in 1..Len(frames) : frames[f].awaits = 0 /\ (f # 1 => frames[f].state = "freed")
<1>1. Len(frames) \in Nat \ {0}
  BY FrameTypes
<1>2. frames[1].awaits = 0
  BY <1>1 DEF AwaitsOne
<1>3. \A f \in 1..Len(frames) : f # 1 => frames[f].state = "freed"
  BY <1>2, OnlyRoot
<1>4. \A f \in 1..Len(frames) : frames[f].awaits = 0
  BY <1>2, <1>3 DEF AwaitsOne
<1> QED
  BY <1>3, <1>4

\* Every action keeps to this, with the base of a new frame added when a coroutine awaits one.
LEMMA LeaveLogged ==
    ASSUME StackOrdered, Many!MainLeaves, NEW c, NEW m, NEW base, Code(c, m),
           Logged(c, m, base, frames, running, trace)
    PROVE  Logged(c, m, base, frames', running', trace')
<1> DEFINE n == Len(frames)
<1>1. /\ running' = running /\ frames[1].state = "done"
      /\ frames' = [frames EXCEPT ![1].state = "freed"]
  BY DEF Many!MainLeaves, Many!Root
<1>2. /\ n \in Nat \ {0} /\ frames \in Seq(Records) /\ StackTypes /\ AwaitsOne
      /\ \A f \in 1..n : frames[f] \in Records
  BY FrameTypes DEF StackOrdered, StackTypes
<1>3. ASSUME NEW r \in Records
      PROVE  [r EXCEPT !.state = "freed"].state = "freed"
             /\ [r EXCEPT !.state = "freed"].awaits = r.awaits
  BY DEF Records
<1>4. Len(frames') = n /\ \A f \in 1..n : frames'[f].state = "freed" /\ frames'[f].awaits = 0
  <2>1. /\ Len(frames') = n /\ frames'[1] = [frames[1] EXCEPT !.state = "freed"]
        /\ \A f \in 1..n : f # 1 => frames'[f] = frames[f]
    BY <1>1, <1>2
  <2>2. \A f \in 1..n : frames[f].awaits = 0 /\ (f # 1 => frames[f].state = "freed")
    BY <1>1, <1>2, RootGoesLast
  <2>3. frames'[1].state = "freed" /\ frames'[1].awaits = frames[1].awaits
    BY <1>2, <1>3, <2>1
  <2>4. 1 \in 1..n
    BY <1>2
  <2> HIDE DEF n
  <2> QED
    BY <2>1, <2>2, <2>3, <2>4
<1>5. Keeps(frames, frames') /\ trace' = trace
  BY LeaveLogs
<1>6. /\ base \in Seq(Seq(Events)) /\ Len(base) = n /\ base[1] = <<>> /\ trace \in Seq(Events)
      /\ trace = base[1] \o c[frames[1].function]
      /\ \A f \in 1..n : frames[f].begun <= Len(m[frames[f].function])
  <2>1. 1 \in 1..n
    BY <1>2
  <2>2. Returned(c, base, frames, trace, 1)
    BY <2>1 DEF Logged
  <2> QED
    BY <1>1, <2>2 DEF Logged, Returned
<1>7. trace' = c[frames'[1].function]
  <2>1. frames'[1].function = frames[1].function /\ frames[1].function \in Many!Functions
    BY <1>2, <1>5, FrameTypes DEF Keeps
  <2>2. c[frames[1].function] \in Seq(Events)
    BY <2>1 DEF Code
  <2>3. \A s \in Seq(Events) : <<>> \o s = s
    OBVIOUS
  <2> QED
    BY <1>5, <1>6, <2>1, <2>2, <2>3
<1>8. ASSUME NEW f \in 1..n
      PROVE  /\ frames'[f].begun <= Len(m[frames'[f].function])
             /\ Goes(c, m, base, frames', running', trace', f) /\ Waits(c, m, base, frames', f)
             /\ Returned(c, base, frames', trace', f) /\ ~Innermost(frames', f)
  <2>1. frames'[f].begun <= Len(m[frames'[f].function])
    BY <1>5, <1>6 DEF Keeps
  <2> QED
    BY <1>4, <2>1 DEF Goes, Waits, Returned, Innermost
<1> QED
  BY <1>4, <1>5, <1>6, <1>7, <1>8 DEF Logged

\* The frames of a step that keeps functions and the number of calls begun: whoever waits
\* for the same frame as before still does.
LEMMA StillWaits ==
    ASSUME NEW c, NEW m, NEW base, NEW fs, NEW gs, NEW f \in 1..Len(fs),
           Keeps(fs, gs), Waits(c, m, base, fs, f), fs[f].awaits \in 0..Len(fs),
           gs[f].awaits = fs[f].awaits \/ gs[f].awaits = 0
    PROVE  Waits(c, m, base, gs, f)
<1>1. gs[f].function = fs[f].function /\ gs[f].begun = fs[f].begun
  BY DEF Keeps
<1>2. CASE gs[f].awaits = 0
  BY <1>2 DEF Waits
<1>3. CASE gs[f].awaits # 0
  <2>1. gs[f].awaits = fs[f].awaits /\ fs[f].awaits # 0 /\ fs[f].awaits \in 1..Len(fs)
    BY <1>3
  <2>2. gs[fs[f].awaits].function = fs[fs[f].awaits].function
    BY <2>1 DEF Keeps
  <2> QED
    BY <1>1, <2>1, <2>2 DEF Waits
<1> QED
  BY <1>2, <1>3

LEMMA ResumeLogged ==
    ASSUME StackOrdered, Many!MainResumes, NEW c, NEW m, NEW base, Code(c, m),
           Logged(c, m, base, frames, running, trace)
    PROVE  Logged(c, m, base, frames', running', trace')
<1> DEFINE n == Len(frames)
           d == running'
           e == frames[d].awaits
           fn == frames[d].function
<1>1. /\ d \in 1..n /\ frames[d].state = "live" /\ running = 0 /\ Len(frames') = n
      /\ e # 0 => e \in 1..n /\ e # d /\ frames[e].state = "done"
      /\ \A g \in 1..n :
            /\ frames'[g].state = IF g = e /\ e # 0 THEN "freed" ELSE frames[g].state
            /\ frames'[g].awaits = IF g = d THEN 0 ELSE frames[g].awaits
  BY ResumeEffect
<1>2. /\ Keeps(frames, frames')
      /\ trace' = IF frames[d].begun = 0 THEN Append(trace, <<fn, "begin">>) ELSE trace
  BY ResumeLogs
<1>3. /\ n \in Nat \ {0} /\ fn \in Many!Functions /\ frames[d].begun \in Nat
      /\ \A g \in 1..n : /\ frames[g].awaits # 0 => frames[g].state = "live"
                         /\ frames[g].awaits \in 0..n
  <2>1. AwaitsOne /\ StackTypes
    BY DEF StackOrdered
  <2> QED
    BY <1>1, <2>1, FrameTypes DEF AwaitsOne
<1>4. /\ base \in Seq(Seq(Events)) /\ Len(base) = n /\ base[1] = <<>> /\ trace \in Seq(Events)
      /\ \A g \in 1..n : /\ frames[g].begun <= Len(m[frames[g].function])
                         /\ Goes(c, m, base, frames, running, trace, g)
                         /\ Waits(c, m, base, frames, g) /\ Returned(c, base, frames, trace, g)
      /\ \A f, g \in 1..n : Innermost(frames, f) /\ Innermost(frames, g) => f = g
  BY DEF Logged
<1>5. base[d] \in Seq(Events) /\ d # 0
  BY <1>1, <1>4
<1>6. d = running' /\ frames'[d].function = fn /\ frames'[d].begun = frames[d].begun
  BY <1>1, <1>2 DEF Keeps
<1> HIDE DEF d, n, fn
<1>7. Grows(c, m, base[d], fn)
  BY <1>3, <1>5, SofarGrows
<1>8. /\ trace' = Sofar(c, m, base[d], fn, frames[d].begun)
      /\ \A g \in 1..n : Innermost(frames, g) => g = d \/ (g = e /\ e # 0)
  <2>1. CASE e = 0
    <3>1. Innermost(frames, d)
      BY <1>1, <2>1 DEF Innermost
    <3>2. frames[d].begun = 0 /\ trace = base[d]
      BY <1>1, <1>4, <1>5, <2>1 DEF Goes
    <3>3. trace' = Append(base[d], <<fn, "begin">>)
      BY <1>2, <3>2
    <3>4. trace' = Sofar(c, m, base[d], fn, 0)
      BY <1>7, <3>3, Zenon DEF Grows
    <3> QED
      BY <1>1, <1>4, <3>1, <3>2, <3>4
  <2>2. CASE e # 0
    <3>1. /\ frames[d].begun # 0 /\ frames[e].function = m[fn][frames[d].begun]
          /\ base[e] = Sofar(c, m, base[d], fn, frames[d].begun - 1)
      BY <1>1, <1>4, <2>2 DEF Waits, fn
    <3>2. frames[d].begun \in 1..Len(m[fn])
      <4>1. m[fn] \in Seq(Many!Functions) /\ frames[d].begun <= Len(m[fn])
        BY <1>1, <1>3, <1>4 DEF Code, fn
      <4>2. Len(m[fn]) \in Nat
        BY <4>1
      <4> QED
        BY <1>3, <3>1, <4>1, <4>2
    <3>3. trace = base[e] \o c[frames[e].function]
      BY <1>1, <1>4, <2>2 DEF Returned
    <3>4. trace' = trace
      BY <1>2, <3>1
    <3>5. Sofar(c, m, base[d], fn, frames[d].begun)
             = Sofar(c, m, base[d], fn, frames[d].begun - 1) \o c[m[fn][frames[d].begun]]
      BY <1>7, <3>2 DEF Grows
    <3>6. Innermost(frames, e)
      BY <1>1, <1>3, <2>2 DEF Innermost
    <3> QED
      BY <1>1, <1>4, <2>2, <3>1, <3>3, <3>4, <3>5, <3>6, Zenon
  <2> QED
    BY <2>1, <2>2
<1>9. \A g \in 1..n : Innermost(frames', g) => g = d
  <2> SUFFICES ASSUME NEW g \in 1..n, Innermost(frames', g), g # d PROVE FALSE
    OBVIOUS
  <2>1. frames'[g].awaits = frames[g].awaits /\ frames'[g].state = frames[g].state
        /\ ~(g = e /\ e # 0)
    BY <1>1 DEF Innermost
  <2>2. Innermost(frames, g)
    BY <2>1 DEF Innermost
  <2> QED
    BY <1>8, <2>1, <2>2
<1>10. trace' \in Seq(Events)
  <2>1. \A s \in Seq(Events), x \in Events : Append(s, x) \in Seq(Events)
    OBVIOUS
  <2> QED
    BY <1>2, <1>3, <1>4, <2>1, EventTypes
<1>11. ASSUME NEW g \in 1..n
       PROVE  /\ frames'[g].begun <= Len(m[frames'[g].function])
              /\ Goes(c, m, base, frames', running', trace', g) /\ Waits(c, m, base, frames', g)
              /\ Returned(c, base, frames', trace', g)
  <2>1. frames'[g].begun <= Len(m[frames'[g].function])
    BY <1>2, <1>4 DEF Keeps, n
  <2>2. Waits(c, m, base, frames', g)
    BY <1>1, <1>2, <1>3, <1>4, StillWaits DEF n
  <2>3. CASE g = d
    BY <1>1, <1>6, <1>8, <2>1, <2>2, <2>3 DEF Goes, Returned
  <2>4. CASE g # d
    <3>1. ~Innermost(frames', g)
      BY <1>9, <2>4
    <3>2. frames'[g].awaits = 0 => frames'[g].state = "freed"
      BY <3>1 DEF Innermost
    <3>3. frames'[g].awaits # 0 => frames'[g].state # "done"
      BY <1>1, <1>3
    <3> QED
      BY <2>1, <2>2, <3>2, <3>3 DEF Goes, Returned
  <2> QED
    BY <2>3, <2>4
<1>12. frames'[1].state # "freed"
  <2> SUFFICES ASSUME frames'[1].state = "freed" PROVE FALSE
    OBVIOUS
  <2>1. StackTypes /\ AwaitsOne /\ 1 \in 1..n
    BY <1>3 DEF StackOrdered
  <2>2. CASE frames[1].state = "freed"
    <3>1. \A f \in 1..n : f # 1 => frames[f].state = "freed"
      BY <2>1, <2>2, RootGoesLast DEF n
    <3>2. d = 1
      BY <1>1, <3>1
    <3> QED
      BY <1>1, <2>2, <3>2
  <2>3. CASE frames[1].state # "freed"
    <3>1. e = 1 /\ e # 0 /\ frames[d].awaits = 1
      BY <1>1, <2>1, <2>3
    <3>2. d < 1
      BY <1>1, <2>1, <3>1 DEF AwaitsOne, n
    <3> QED
      BY <1>1, <1>3, <3>2
  <2> QED
    BY <2>2, <2>3
<1> QED
  BY <1>1, <1>4, <1>9, <1>10, <1>11, <1>12 DEF Logged

\* A trace with one more event.
LEMMA MoreEvents ==
    ASSUME NEW s \in Seq(Events), NEW f \in Many!Functions
    PROVE  Append(s, <<f, "begin">>) \in Seq(Events) /\ Append(s, <<f, "end">>) \in Seq(Events)
<1>1. \A x \in Events : Append(s, x) \in Seq(Events)
  OBVIOUS
<1> QED
  BY <1>1, EventTypes

LEMMA FinishLogged ==
    ASSUME StackOrdered, Many!Finish, NEW c, NEW base, Code(c, Bodies),
           Logged(c, Bodies, base, frames, running, trace)
    PROVE  Logged(c, Bodies, base, frames', running', trace')
<1> DEFINE n == Len(frames)
           m == Bodies
           r == running
           a == running'
           fn == frames[r].function
           fa == frames[a].function
<1>1. /\ r \in 1..n /\ Len(frames') = n /\ a \in 0..n
      /\ a # 0 => a # r /\ frames[a].awaits = r
      /\ \A g \in 1..n :
            /\ frames'[g].state = IF g # r THEN frames[g].state
                                  ELSE IF a = 0 THEN "done" ELSE "freed"
            /\ frames'[g].awaits = IF g = a THEN 0 ELSE frames[g].awaits
  BY FinishEffect
<1>2. /\ n \in Nat \ {0} /\ fn \in Many!Functions /\ frames[r].begun \in Nat
      /\ frames[r].state = "live" /\ frames[r].awaits = 0 /\ r # 0
      /\ \A g \in 1..n : /\ frames[g].awaits # 0 => frames[g].state = "live" /\ g < frames[g].awaits
                         /\ frames[g].awaits \in 0..n /\ frames[g].function \in Many!Functions
                         /\ frames[g].begun \in Nat
  <2>1. AwaitsOne /\ StackTypes /\ RunsAlone
    BY DEF StackOrdered
  <2> QED
    BY <1>1, <2>1, FrameTypes DEF AwaitsOne, RunsAlone
<1>3. /\ base \in Seq(Seq(Events)) /\ Len(base) = n /\ base[1] = <<>> /\ trace \in Seq(Events)
      /\ \A g \in 1..n : /\ frames[g].begun <= Len(m[frames[g].function])
                         /\ Goes(c, m, base, frames, running, trace, g)
                         /\ Waits(c, m, base, frames, g) /\ Returned(c, base, frames, trace, g)
      /\ \A f, g \in 1..n : Innermost(frames, f) /\ Innermost(frames, g) => f = g
  <2> HIDE DEF m
  <2> QED
    BY DEF Logged, m
<1>4. a # 0 => /\ a \in 1..n /\ frames[a].begun # 0 /\ frames[r].function = m[fa][frames[a].begun]
               /\ base[r] = Sofar(c, m, base[a], fa, frames[a].begun - 1)
  <2> SUFFICES ASSUME a # 0
               PROVE  /\ a \in 1..n /\ frames[a].begun # 0 /\ frames[r].function = m[fa][frames[a].begun]
                      /\ base[r] = Sofar(c, m, base[a], fa, frames[a].begun - 1)
    OBVIOUS
  <2>1. a \in 1..n /\ frames[a].awaits = r /\ Waits(c, m, base, frames, a)
    BY <1>1, <1>2, <1>3
  <2> QED
    BY <1>2, <2>1 DEF Waits
<1>5. /\ Keeps(frames, frames') /\ frames[r].begun = Len(Many!Calls(fn))
      /\ trace' = Append(trace, <<fn, "end">>)
  BY <1>4, FinishLogs
<1>6. frames[r].begun = Len(m[fn])
  BY <1>2, <1>5 DEF Bodies
<1>7. Innermost(frames, r) /\ Code(c, m)
  BY <1>1, <1>2 DEF Innermost
<1> HIDE DEF n, m, r, a, fn, fa
<1>8. base[r] \in Seq(Events) /\ (a # 0 => base[a] \in Seq(Events) /\ fa \in Many!Functions)
  BY <1>1, <1>2, <1>3, <1>4 DEF fa
<1>9. trace' = base[r] \o c[fn]
  <2>1. Goes(c, m, base, frames, r, trace, r)
    BY <1>1, <1>3 DEF r
  <2>2. trace = Sofar(c, m, base[r], fn, Len(m[fn]))
    BY <1>2, <1>6, <2>1 DEF Goes, fn
  <2>3. Grows(c, m, base[r], fn)
    BY <1>2, <1>7, <1>8, SofarGrows, Zenon
  <2> QED
    BY <1>5, <2>2, <2>3 DEF Grows
<1>10. a # 0 => trace' = Sofar(c, m, base[a], fa, frames[a].begun)
  <2> SUFFICES ASSUME a # 0 PROVE trace' = Sofar(c, m, base[a], fa, frames[a].begun)
    OBVIOUS
  <2>1. Grows(c, m, base[a], fa)
    BY <1>7, <1>8, SofarGrows
  <2>2. frames[a].begun \in 1..Len(m[fa])
    <3>1. m[fa] \in Seq(Many!Functions) /\ frames[a].begun <= Len(m[fa])
      BY <1>3, <1>4, <1>7, <1>8 DEF Code, fa
    <3>2. Len(m[fa]) \in Nat
      BY <3>1
    <3> QED
      BY <1>2, <1>4, <3>1, <3>2
  <2>3. Sofar(c, m, base[a], fa, frames[a].begun)
           = Sofar(c, m, base[a], fa, frames[a].begun - 1) \o c[m[fa][frames[a].begun]]
    BY <2>1, <2>2 DEF Grows
  <2> QED
    BY <1>4, <1>9, <2>3, Zenon DEF fn
<1>11. trace' \in Seq(Events)
  BY <1>2, <1>3, <1>5, MoreEvents
<1>12. \A g \in 1..n : Innermost(frames', g) => g = (IF a = 0 THEN r ELSE a)
  <2> SUFFICES ASSUME NEW g \in 1..n, Innermost(frames', g), g # a PROVE a = 0 /\ g = r
    BY <1>1
  <2>1. frames'[g].awaits = 0 /\ frames[g].awaits = 0 /\ (g # r => frames[g].state # "freed")
    BY <1>1 DEF Innermost
  <2>2. g = r
    BY <1>1, <1>3, <1>7, <2>1 DEF Innermost
  <2> QED
    BY <1>1, <2>2 DEF Innermost
<1>13. ASSUME NEW g \in 1..n
       PROVE  /\ frames'[g].begun <= Len(m[frames'[g].function])
              /\ Goes(c, m, base, frames', a, trace', g) /\ Waits(c, m, base, frames', g)
              /\ Returned(c, base, frames', trace', g)
  <2>1. frames'[g].begun = frames[g].begun /\ frames'[g].function = frames[g].function
    BY <1>5 DEF Keeps, n
  <2>2. frames'[g].begun <= Len(m[frames'[g].function])
    BY <1>3, <2>1
  <2>3. Waits(c, m, base, frames', g)
    BY <1>1, <1>2, <1>3, <1>5, StillWaits DEF n
  <2>4. CASE g = a
    <3>1. a # 0 /\ a # r /\ frames[a].state = "live"
      BY <1>1, <1>2, <2>4
    <3>2. frames'[g].state = "live"
      BY <1>1, <2>4, <3>1
    <3> QED
      BY <1>10, <2>1, <2>2, <2>3, <2>4, <3>1, <3>2 DEF Goes, Returned, fa
  <2>5. CASE g = r /\ g # a
    <3>1. frames'[g].state # "live"
      BY <1>1, <2>5
    <3> QED
      BY <1>9, <2>1, <2>2, <2>3, <2>5, <3>1 DEF Goes, Returned, fn
  <2>6. CASE g # r /\ g # a
    <3>1. ~Innermost(frames', g)
      BY <1>12, <2>6
    <3>2. frames'[g].awaits = 0 => frames'[g].state = "freed"
      BY <3>1 DEF Innermost
    <3>3. frames'[g].awaits # 0 => frames'[g].state # "done"
      BY <1>1, <1>2, <2>6
    <3> QED
      BY <2>2, <2>3, <3>2, <3>3 DEF Goes, Returned
  <2> QED
    BY <2>4, <2>5, <2>6
<1>14. frames'[1].state # "freed"
  <2> SUFFICES ASSUME frames'[1].state = "freed" PROVE FALSE
    OBVIOUS
  <2>1. StackTypes /\ AwaitsOne /\ 1 \in 1..n
    BY <1>2 DEF StackOrdered
  <2>2. CASE r = 1
    <3>1. a \in 1..n /\ frames[a].awaits = 1
      BY <1>1, <2>1, <2>2
    <3>2. a < 1
      BY <1>2, <3>1
    <3> QED
      BY <3>1, <3>2
  <2>3. CASE r # 1
    <3>1. frames[1].state = "freed"
      BY <1>1, <2>1, <2>3
    <3>2. \A f \in 1..n : f # 1 => frames[f].state = "freed"
      BY <2>1, <3>1, RootGoesLast DEF n
    <3> QED
      BY <1>1, <1>2, <2>3, <3>2
  <2> QED
    BY <2>2, <2>3
<1>15. \A f, g \in 1..n : Innermost(frames', f) /\ Innermost(frames', g) => f = g
  BY <1>12
<1>16. Logged(c, m, base, frames', a, trace')
  BY <1>1, <1>3, <1>11, <1>13, <1>14, <1>15 DEF Logged
<1> QED
  BY <1>16 DEF m, a

LEMMA AwaitLogged ==
    ASSUME StackOrdered, Many!Await, NEW c, NEW base, Code(c, Bodies),
           Logged(c, Bodies, base, frames, running, trace)
    PROVE  Logged(c, Bodies, Append(base, trace), frames', running', trace')
<1> DEFINE n == Len(frames)
           m == Bodies
           r == running
           fn == frames[r].function
           k == frames[r].begun
           s == n + 1
           bs == Append(base, trace)
<1>1. /\ r \in 1..n /\ Len(frames') = s
      /\ frames'[r].state = "live" /\ frames'[r].awaits = s
      /\ \A g \in 1..n : g # r => frames'[g] = frames[g]
      /\ frames'[s].state = "live" /\ frames'[s].awaits = 0
      /\ running' = IF Many!Transfers THEN s ELSE 0
  BY AwaitEffect
<1>2. /\ n \in Nat \ {0} /\ fn \in Many!Functions /\ k \in Nat
      /\ frames[r].state = "live" /\ frames[r].awaits = 0 /\ r # 0
      /\ \A g \in 1..n : /\ frames[g].awaits # 0 => frames[g].state = "live"
                         /\ frames[g].awaits \in 0..n
  <2>1. AwaitsOne /\ StackTypes /\ RunsAlone
    BY DEF StackOrdered
  <2> QED
    BY <1>1, <2>1, FrameTypes DEF AwaitsOne, RunsAlone
<1>3. /\ base \in Seq(Seq(Events)) /\ Len(base) = n /\ base[1] = <<>> /\ trace \in Seq(Events)
      /\ \A g \in 1..n : /\ frames[g].begun <= Len(m[frames[g].function])
                         /\ Goes(c, m, base, frames, running, trace, g)
                         /\ Waits(c, m, base, frames, g) /\ Returned(c, base, frames, trace, g)
      /\ \A f, g \in 1..n : Innermost(frames, f) /\ Innermost(frames, g) => f = g
  <2> HIDE DEF m
  <2> QED
    BY DEF Logged, m
<1>4. /\ k + 1 \in 1..Len(m[fn])
      /\ frames'[r].function = fn /\ frames'[r].begun = k + 1
      /\ frames'[s].function = m[fn][k + 1] /\ frames'[s].begun = 0
      /\ trace' = IF Many!Transfers THEN Append(trace, <<m[fn][k + 1], "begin">>) ELSE trace
  <2>1. m[fn] = Many!Calls(fn)
    BY <1>2 DEF Bodies
  <2>2. /\ k + 1 \in 1..Len(Many!Calls(fn))
        /\ frames'[r].function = fn /\ frames'[r].begun = k + 1
        /\ frames'[s].function = Many!Calls(fn)[k + 1] /\ frames'[s].begun = 0
        /\ trace' = IF Many!Transfers THEN Append(trace, <<Many!Calls(fn)[k + 1], "begin">>) ELSE trace
    BY AwaitLogs
  <2> HIDE DEF m
  <2> QED
    BY <2>1, <2>2
<1>5. /\ bs \in Seq(Seq(Events)) /\ Len(bs) = s /\ bs[1] = <<>> /\ bs[s] = trace
      /\ \A g \in 1..n : bs[g] = base[g]
  <2> DEFINE V == Seq(Events)
  <2> HIDE DEF V, n
  <2> QED
    BY <1>2, <1>3 DEF V
<1>6. Innermost(frames, r) /\ s # r /\ s \notin 1..n /\ s # 0
  BY <1>1, <1>2 DEF Innermost
<1>7. trace = Sofar(c, m, base[r], fn, k)
  <2>1. Goes(c, m, base, frames, r, trace, r)
    BY <1>1, <1>3
  <2> QED
    BY <1>2, <2>1 DEF Goes
<1>8. m[fn][k + 1] \in Many!Functions /\ 0 <= Len(m[m[fn][k + 1]])
  <2>1. m[fn] \in Seq(Many!Functions)
    BY <1>2 DEF Code
  <2>2. m[fn][k + 1] \in Many!Functions
    BY <1>4, <2>1
  <2>3. m[m[fn][k + 1]] \in Seq(Many!Functions)
    BY <2>2 DEF Code
  <2>4. \A q \in Seq(Many!Functions) : 0 <= Len(q)
    OBVIOUS
  <2> HIDE DEF m
  <2> QED
    BY <2>2, <2>3, <2>4
<1>9. trace' \in Seq(Events)
  BY <1>3, <1>4, <1>8, MoreEvents
<1> HIDE DEF n, m, r, fn, k, s, bs
<1>10. \A g \in 1..s : g = s \/ g \in 1..n
  BY <1>2 DEF s
<1>11. \A g \in 1..s : Innermost(frames', g) => g = s
  <2> SUFFICES ASSUME NEW g \in 1..n, Innermost(frames', g) PROVE FALSE
    BY <1>10
  <2>1. g # r
    BY <1>1, <1>6 DEF Innermost
  <2>2. Innermost(frames, g)
    BY <1>1, <2>1 DEF Innermost
  <2> QED
    BY <1>1, <1>3, <1>6, <2>1, <2>2
<1>12. ASSUME NEW g \in 1..n, g # r
       PROVE  /\ frames'[g].begun <= Len(m[frames'[g].function])
              /\ Goes(c, m, bs, frames', running', trace', g) /\ Waits(c, m, bs, frames', g)
              /\ Returned(c, bs, frames', trace', g)
  <2>1. frames'[g] = frames[g] /\ bs[g] = base[g]
    BY <1>1, <1>5, <1>12
  <2>2. ~Innermost(frames, g)
    BY <1>1, <1>3, <1>6, <1>12
  <2>3. frames[g].awaits = 0 => frames[g].state = "freed"
    BY <2>2 DEF Innermost
  <2>4. frames[g].awaits # 0 => frames[g].state = "live"
    BY <1>2
  <2>5. Waits(c, m, bs, frames', g)
    <3>1. CASE frames[g].awaits = 0
      BY <2>1, <3>1 DEF Waits
    <3>2. CASE frames[g].awaits # 0
      <4>1. frames[g].awaits \in 1..n /\ bs[frames[g].awaits] = base[frames[g].awaits]
        BY <1>2, <1>5, <3>2
      <4>2. frames'[frames[g].awaits].function = frames[frames[g].awaits].function
        <5>1. CASE frames[g].awaits = r
          BY <1>4, <5>1 DEF fn
        <5>2. CASE frames[g].awaits # r
          BY <1>1, <4>1, <5>2
        <5> QED
          BY <5>1, <5>2
      <4>3. Waits(c, m, base, frames, g)
        BY <1>3
      <4> QED
        BY <2>1, <3>2, <4>1, <4>2, <4>3 DEF Waits
    <3> QED
      BY <3>1, <3>2
  <2> QED
    BY <1>3, <2>1, <2>3, <2>4, <2>5 DEF Goes, Returned
<1>13. /\ frames'[r].begun <= Len(m[frames'[r].function])
       /\ Goes(c, m, bs, frames', running', trace', r) /\ Waits(c, m, bs, frames', r)
       /\ Returned(c, bs, frames', trace', r)
  <2> HIDE DEF fn, k, r
  <2>1. k + 1 <= Len(m[fn]) /\ k + 1 # 0 /\ (k + 1) - 1 = k
    BY <1>2, <1>4
  <2>2. bs[r] = base[r]
    BY <1>1, <1>5
  <2> QED
    BY <1>1, <1>4, <1>5, <1>6, <1>7, <2>1, <2>2 DEF Goes, Waits, Returned
<1>14. /\ frames'[s].begun <= Len(m[frames'[s].function])
       /\ Goes(c, m, bs, frames', running', trace', s) /\ Waits(c, m, bs, frames', s)
       /\ Returned(c, bs, frames', trace', s)
  <2> DEFINE fs == m[fn][k + 1]
  <2>1. Goes(c, m, bs, frames', running', trace', s)
    <3>1. CASE Many!Transfers
      <4>1. Grows(c, m, trace, fs)
        <5>1. fs \in Many!Functions /\ Code(c, m)
          BY <1>8, Zenon DEF m
        <5> HIDE DEF fs
        <5> QED
          BY <1>3, <5>1, SofarGrows
      <4>2. trace' = Sofar(c, m, trace, fs, 0)
        BY <1>4, <3>1, <4>1, Zenon DEF Grows
      <4> QED
        BY <1>1, <1>4, <1>5, <3>1, <4>2 DEF Goes
    <3>2. CASE ~Many!Transfers
      BY <1>1, <1>4, <1>5, <1>6, <3>2 DEF Goes
    <3> QED
      BY <3>1, <3>2
  <2> QED
    BY <1>1, <1>4, <1>8, <2>1 DEF Waits, Returned
<1>15. frames'[1].state # "freed"
  <2> SUFFICES ASSUME frames'[1].state = "freed" PROVE FALSE
    OBVIOUS
  <2>1. StackTypes /\ AwaitsOne /\ 1 \in 1..n
    BY <1>2 DEF StackOrdered
  <2>2. r # 1 /\ frames[1].state = "freed"
    BY <1>1, <2>1
  <2>3. \A f \in 1..n : f # 1 => frames[f].state = "freed"
    BY <2>1, <2>2, RootGoesLast DEF n
  <2> QED
    BY <1>1, <1>2, <2>2, <2>3
<1>16. \A g \in 1..s : /\ frames'[g].begun <= Len(m[frames'[g].function])
                       /\ Goes(c, m, bs, frames', running', trace', g)
                       /\ Waits(c, m, bs, frames', g) /\ Returned(c, bs, frames', trace', g)
  BY <1>10, <1>12, <1>13, <1>14
<1>17. Logged(c, m, bs, frames', running', trace')
  BY <1>1, <1>5, <1>9, <1>11, <1>15, <1>16 DEF Logged
<1> QED
  BY <1>17 DEF m, bs

LEMMA LoggedInvariance == Spec => []LoggedInv
<1>1. Init => LoggedInv
  <2> SUFFICES ASSUME Many!Init, ManyInv, example = "many"
               PROVE  \E c, base : Code(c, Bodies)
                                   /\ Logged(c, Bodies, base, frames, running, trace)
    BY StackStarts DEF Init, LoggedInv
  <2>1. StackOrdered /\ kind \in Kinds /\ running = 0 /\ trace = <<>>
    BY DEF ManyInv, Many!Init, Kinds
  <2>2. PICK c : Code(c, Bodies)
    BY <2>1, CallingExists, CodeIsCalling
  <2>3. PICK f : frames = <<Many!Frame(f, 0)>>
    BY DEF Many!Init
  <2>4. /\ Len(frames) = 1 /\ frames[1].state = "live" /\ frames[1].awaits = 0
        /\ frames[1].begun = 0 /\ frames[1].function \in Many!Functions /\ 1..1 = {1}
    <3>1. Len(frames) = 1 /\ frames[1] = Many!Frame(f, 0)
      BY <2>3
    <3>2. frames[1].function \in Many!Functions
      BY <2>1, <3>1, FrameTypes DEF StackOrdered
    <3> QED
      BY <3>1, <3>2 DEF Many!Frame
  <2> DEFINE base == << <<>> >>
  <2>5. base \in Seq(Seq(Events)) /\ Len(base) = 1 /\ base[1] = <<>> /\ <<>> \in Seq(Events)
    OBVIOUS
  <2>6. 0 <= Len(Bodies[frames[1].function])
    <3>1. Bodies[frames[1].function] \in Seq(Many!Functions)
      BY <2>2, <2>4 DEF Code
    <3>2. \A q \in Seq(Many!Functions) : 0 <= Len(q)
      OBVIOUS
    <3> HIDE DEF Bodies
    <3> QED
      BY <3>1, <3>2
  <2> HIDE DEF base
  <2>7. Logged(c, Bodies, base, frames, running, trace)
    BY <2>1, <2>4, <2>5, <2>6 DEF Logged, Goes, Waits, Returned
  <2> QED
    BY <2>2, <2>7
<1>2. ManyInv /\ LoggedInv /\ [Next]_variables => LoggedInv'
  <2> SUFFICES ASSUME ManyInv, LoggedInv, [Next]_variables, example' = "many"
               PROVE  \E c, base : (Code(c, Bodies)
                                    /\ Logged(c, Bodies, base, frames, running, trace))'
    BY DEF LoggedInv
  <2>1. example = "many" /\ StackOrdered
    BY DEF ManyInv, Next, In, variables
  <2>2. PICK c, base : Code(c, Bodies) /\ Logged(c, Bodies, base, frames, running, trace)
    BY <2>1 DEF LoggedInv
  <2>3. Many!Next \/ UNCHANGED stacked
    BY <2>1 DEF Next, In, variables
  <2>4. kind' = kind
    BY <2>3 DEF stacked, Many!Next, Many!MainResumes, Many!MainLeaves, Many!Await, Many!Finish
  <2>5. Bodies' = Bodies
    BY <2>4, SameBodies
  <2>6. \E bs : Logged(c, Bodies, bs, frames', running', trace')
    <3>1. CASE UNCHANGED stacked
      BY <2>2, <3>1 DEF stacked
    <3>2. CASE Many!MainResumes
      BY <2>1, <2>2, <3>2, ResumeLogged
    <3>3. CASE Many!MainLeaves
      BY <2>1, <2>2, <3>3, LeaveLogged
    <3>4. CASE Many!Await
      BY <2>1, <2>2, <3>4, AwaitLogged
    <3>5. CASE Many!Finish
      BY <2>1, <2>2, <3>5, FinishLogged
    <3> QED
      BY <2>3, <3>1, <3>2, <3>3, <3>4, <3>5 DEF Many!Next
  <2> QED
    BY <2>2, <2>5, <2>6
<1> QED
  BY <1>1, <1>2, StackInvariance, PTL DEF Spec

\* For any arguments, and so for calls of any depth, bodies begin and end in the order in
\* which those of ordinary recursive functions would, whether control is transferred from
\* coroutine to coroutine or main() looks for the one to resume.
THEOREM CallsLikeFunctions == Spec => []AwaitsAreCalls
<1>1. ManyInv /\ LoggedInv => AwaitsAreCalls
  <2> SUFFICES ASSUME StackOrdered, LoggedInv, example = "many", frames[1].state = "freed"
               PROVE  trace = Many!Called[frames[1].function]
    BY DEF ManyInv, AwaitsAreCalls, Many!AwaitsAreCalls, Many!Root
  <2>1. PICK c, base : Code(c, Bodies) /\ Logged(c, Bodies, base, frames, running, trace)
    BY DEF LoggedInv
  <2>2. trace = c[frames[1].function]
    BY <2>1 DEF Logged
  <2>3. kind \in Kinds
    BY DEF StackOrdered, StackTypes, Kinds
  <2>4. Calling(c)
    BY <2>1, <2>3, CodeIsCalling
  <2> QED
    BY <2>2, <2>3, <2>4, CalledExpands
<1> QED
  BY <1>1, StackInvariance, LoggedInvariance, PTL

-----------------------------------------------------------------------------
(* The parser of a data stream *)

Byte == Parse!Bytes

\* How a byte of a frame is encoded, and all of them.
Escaped(b) == IF b = Parse!ESC THEN <<Parse!ESC, Parse!ESC>> ELSE <<b>>
Content(f) == Parse!FlattenSeq([i \in DOMAIN f |-> Escaped(f[i])])

\* The bytes when p was sent, and then a frame was begun with the bytes of f.
Begun(p, f) == Append(Append(p, Parse!ESC), Parse!SOF) \o Content(f)

LEMMA ByteTypes == Parse!ESC \in Byte /\ Parse!SOF \in Byte /\ Parse!Other \in Byte
                   /\ Parse!ESC # Parse!SOF /\ Parse!ESC # Parse!Other
                   /\ \A b \in Byte : Escaped(b) \in Seq(Byte)
BY DEF Byte, Parse!Bytes, Parse!ESC, Parse!SOF, Parse!Other, Escaped

\* A sequence without its last element, and that element.
AllButLast(w) == SubSeq(w, 1, Len(w) - 1)
LastIn(w)     == w[Len(w)]

LEMMA LastApart == ASSUME NEW s \in Seq(Byte), NEW b \in Byte
                   PROVE  AllButLast(Append(s, b)) = s /\ LastIn(Append(s, b)) = b
<1> DEFINE w == Append(s, b)
<1>1. w \in Seq(Byte) /\ Len(w) = Len(s) + 1 /\ Len(s) \in Nat /\ w[Len(s) + 1] = b
      /\ \A i \in 1..Len(s) : w[i] = s[i]
  OBVIOUS
<1> HIDE DEF w
<1>2. Len(w) - 1 = Len(s) /\ LastIn(w) = b
  BY <1>1 DEF LastIn
<1>3. /\ SubSeq(w, 1, Len(s)) \in Seq(Byte) /\ Len(SubSeq(w, 1, Len(s))) = Len(s)
      /\ \A i \in 1..Len(s) : SubSeq(w, 1, Len(s))[i] = w[i]
  BY <1>1
<1>4. SubSeq(w, 1, Len(s)) = s
  BY <1>1, <1>3, SeqEqual
<1> QED
  BY <1>2, <1>4 DEF AllButLast, w

LEMMA Appends == ASSUME NEW S, NEW s \in Seq(S), NEW a \in S, NEW b \in S
                 PROVE  /\ Append(s, a) = s \o <<a>> /\ Append(Append(s, a), b) = s \o <<a, b>>
                        /\ Append(s, a) \in Seq(S) /\ <<a>> \in Seq(S) /\ <<a, b>> \in Seq(S)
OBVIOUS

LEMMA EscapedTypes ==
    ASSUME NEW f \in Seq(Byte)
    PROVE  LET es == [i \in DOMAIN f |-> Escaped(f[i])]
           IN  /\ es \in Seq(Seq(Byte)) /\ Len(es) = Len(f)
               /\ \A i \in 1..Len(f) : es[i] = Escaped(f[i])
<1> DEFINE n == Len(f)
           es == [i \in 1..n |-> Escaped(f[i])]
<1>1. n \in Nat /\ DOMAIN f = 1..n /\ \A i \in 1..n : f[i] \in Byte
  OBVIOUS
<1>2. \A i \in 1..n : Escaped(f[i]) \in Seq(Byte)
  BY <1>1, ByteTypes
<1>3. es \in [1..n -> Seq(Byte)]
  <2> HIDE DEF n
  <2> QED
    BY <1>2
<1>4. es \in Seq(Seq(Byte)) /\ Len(es) = n
  <2> HIDE DEF n, es
  <2> QED
    BY <1>1, <1>3
<1>5. \A i \in 1..n : es[i] = Escaped(f[i])
  OBVIOUS
<1> HIDE DEF n
<1> QED
  BY <1>1, <1>4, <1>5 DEF n

LEMMA ContentAppend ==
    ASSUME NEW f \in Seq(Byte)
    PROVE  /\ Content(f) \in Seq(Byte)
           /\ \A b \in Byte : Content(Append(f, b)) = Content(f) \o Escaped(b)
           /\ Content(<<>>) = <<>>
<1> DEFINE es == [i \in DOMAIN f |-> Escaped(f[i])]
<1>1. es \in Seq(Seq(Byte))
  BY EscapedTypes
<1>2. Content(f) \in Seq(Byte)
  <2>1. <<>> \in Seq(Byte)
    OBVIOUS
  <2>2. Parse!FlattenSeq(es) \in Seq(Byte)
    <3> HIDE DEF es
    <3> QED
      BY <1>1, <2>1, FlattenAppend
  <2> QED
    BY <2>2 DEF Content
<1>3. ASSUME NEW b \in Byte PROVE Content(Append(f, b)) = Content(f) \o Escaped(b)
  <2> DEFINE g == Append(f, b)
             eg == [i \in DOMAIN g |-> Escaped(g[i])]
  <2>1. /\ g \in Seq(Byte) /\ DOMAIN g = 1..(Len(f) + 1) /\ DOMAIN f = 1..Len(f) /\ Len(f) \in Nat
        /\ g[Len(f) + 1] = b /\ \A i \in 1..Len(f) : g[i] = f[i]
    OBVIOUS
  <2>2. eg = Append(es, Escaped(b))
    <3>1. /\ Len(es) = Len(f) /\ es \in Seq(Seq(Byte)) /\ Escaped(b) \in Seq(Byte)
          /\ \A i \in 1..Len(f) : es[i] = Escaped(f[i])
      BY EscapedTypes, ByteTypes
    <3>2. /\ Len(eg) = Len(g) /\ eg \in Seq(Seq(Byte))
          /\ \A i \in 1..Len(g) : eg[i] = Escaped(g[i])
      <4> HIDE DEF g
      <4> QED
        BY <2>1, EscapedTypes
    <3>3. Len(g) = Len(f) + 1
      BY <2>1
    <3> HIDE DEF eg, es, g
    <3>4. /\ Append(es, Escaped(b)) \in Seq(Seq(Byte)) /\ Len(Append(es, Escaped(b))) = Len(f) + 1
          /\ Append(es, Escaped(b))[Len(f) + 1] = Escaped(b)
          /\ \A i \in 1..Len(f) : Append(es, Escaped(b))[i] = es[i]
      BY <3>1
    <3>5. \A i \in 1..(Len(f) + 1) : eg[i] = Append(es, Escaped(b))[i]
      BY <2>1, <3>1, <3>2, <3>3, <3>4
    <3> QED
      BY <3>2, <3>3, <3>4, <3>5, SeqEqual
  <2>3. Parse!FlattenSeq(Append(es, Escaped(b))) = Parse!FlattenSeq(es) \o Escaped(b)
    <3>1. Escaped(b) \in Seq(Byte)
      BY ByteTypes
    <3> HIDE DEF es
    <3> QED
      BY <1>1, <3>1, FlattenAppend
  <2> QED
    BY <2>2, <2>3 DEF Content
<1>4. Content(<<>>) = <<>>
  <2>1. [i \in DOMAIN <<>> |-> Escaped(<<>>[i])] = <<>>
    OBVIOUS
  <2>2. Parse!FlattenSeq(<<>>) = <<>>
    BY DEF Parse!FlattenSeq
  <2> QED
    BY <2>1, <2>2 DEF Content
<1> QED
  BY <1>2, <1>3, <1>4

LEMMA ConcatAppend ==
    ASSUME NEW x \in Seq(Byte), NEW c \in Seq(Byte), NEW b \in Byte
    PROVE  /\ x \o Append(c, b) = Append(x \o c, b)
           /\ Append(c, b) = c \o <<b>> /\ Append(c, b) \in Seq(Byte)
           /\ Append(Append(c, b), b) = c \o <<b, b>>
<1>1. \A u \in Seq(Byte) : (x \o c) \o u = x \o (c \o u)
  BY ConcatAssociative
<1>2. x \o c \in Seq(Byte) /\ <<b>> \in Seq(Byte)
  OBVIOUS
<1>3. ASSUME NEW y \in Seq(Byte) PROVE Append(y, b) = y \o <<b>>
  OBVIOUS
<1>4. Append(c, b) \in Seq(Byte)
  OBVIOUS
<1>5. Append(Append(c, b), b) = c \o <<b, b>>
  BY Appends
<1> QED
  BY <1>1, <1>2, <1>3, <1>4, <1>5

LEMMA BegunAppend ==
    ASSUME NEW p \in Seq(Byte), NEW f \in Seq(Byte)
    PROVE  /\ Begun(p, f) \in Seq(Byte)
           /\ Begun(p, <<>>) = Append(Append(p, Parse!ESC), Parse!SOF)
           /\ Begun(p, Append(f, Parse!ESC)) = Append(Append(Begun(p, f), Parse!ESC), Parse!ESC)
           /\ \A b \in Byte : b # Parse!ESC => Begun(p, Append(f, b)) = Append(Begun(p, f), b)
           /\ Append(Append(Begun(p, f), Parse!ESC), Parse!SOF) = p \o Parse!Packet(f)
<1> DEFINE e == Parse!ESC
           o == Parse!SOF
           q == Append(Append(p, e), o)
           c == Content(f)
<1>1. e \in Byte /\ o \in Byte
  BY ByteTypes
<1> HIDE DEF e, o
<1>2. q \in Seq(Byte) /\ q = p \o <<e, o>> /\ <<e, o>> \in Seq(Byte)
  BY <1>1
<1>3. c \in Seq(Byte) /\ Content(<<>>) = <<>>
      /\ \A b \in Byte : Content(Append(f, b)) = c \o Escaped(b)
  BY ContentAppend
<1> HIDE DEF c
<1>4. /\ Begun(p, f) = q \o c /\ Begun(p, <<>>) = q \o Content(<<>>)
      /\ \A b : Begun(p, Append(f, b)) = q \o Content(Append(f, b))
  BY DEF Begun, q, e, o, c
<1>5. Parse!Packet(f) = <<e, o>> \o c \o <<e, o>>
  BY DEF Parse!Packet, Content, Escaped, e, o, c
<1>6. /\ Escaped(e) = <<e, e>> /\ \A b \in Byte : b # e => Escaped(b) = <<b>>
  BY DEF Escaped, e
<1>7. ASSUME NEW b \in Byte PROVE q \o (c \o <<b>>) = Append(q \o c, b)
  <2> HIDE DEF q
  <2>1. q \in Seq(Byte) /\ c \in Seq(Byte)
    BY <1>2, <1>3
  <2>2. Append(c, b) = c \o <<b>>
    BY <2>1, ConcatAppend
  <2>3. q \o Append(c, b) = Append(q \o c, b)
    BY <2>1, ConcatAppend
  <2> QED
    BY <2>2, <2>3
<1>8. q \o (c \o <<e, e>>) = Append(Append(q \o c, e), e)
  <2> HIDE DEF q
  <2>1. c \o <<e, e>> = Append(Append(c, e), e) /\ Append(c, e) \in Seq(Byte)
    BY <1>1, <1>3, ConcatAppend
  <2>2. q \o Append(Append(c, e), e) = Append(q \o Append(c, e), e)
    BY <1>1, <1>2, <2>1, ConcatAppend
  <2>3. q \o Append(c, e) = Append(q \o c, e)
    BY <1>1, <1>2, <1>3, ConcatAppend
  <2> QED
    BY <2>1, <2>2, <2>3
<1>9. q \o <<>> = q
  <2> HIDE DEF q
  <2> QED
    BY <1>2
<1>10. Append(Append(q \o c, e), o) = p \o (<<e, o>> \o c \o <<e, o>>)
  <2>1. Append(Append(q \o c, e), o) = (q \o c) \o <<e, o>>
    <3> HIDE DEF q
    <3>1. q \o c \in Seq(Byte)
      BY <1>2, <1>3
    <3> QED
      BY <1>1, <3>1, Appends
  <2>2. q \o c = p \o (<<e, o>> \o c)
    BY <1>2, <1>3, ConcatAssociative, SMTT(20)
  <2>3. (p \o (<<e, o>> \o c)) \o <<e, o>> = p \o ((<<e, o>> \o c) \o <<e, o>>)
    <3>1. <<e, o>> \o c \in Seq(Byte)
      BY <1>2, <1>3
    <3> QED
      BY <1>2, <3>1, ConcatAssociative, SMTT(20)
  <2> HIDE DEF q
  <2> QED
    BY <2>1, <2>2, <2>3
<1>11. q \o c \in Seq(Byte)
  <2> HIDE DEF q
  <2> QED
    BY <1>2, <1>3
<1> HIDE DEF q
<1> QED
  BY <1>1, <1>3, <1>4, <1>5, <1>6, <1>7, <1>8, <1>9, <1>10, <1>11 DEF q, e, o

ParseTypes == /\ wait \in {"start", "idle", "escape", "frame", "frame escape", "yield"}
              /\ bytes \in Seq(Byte) /\ assembled \in Seq(Byte)
              /\ mValue \in Seq(Seq(Byte)) /\ handled \in Seq(Seq(Byte))
              /\ stream \in {"send", "check", "over"}
              /\ stream = "send" => mValue = <<>>

\* What the last bytes were, as far as Parse has assembled them.
Framing ==
    /\ wait = "escape" => \E p \in Seq(Byte) : bytes = Append(p, Parse!ESC)
    /\ wait = "frame" => \E p \in Seq(Byte) : bytes = Begun(p, assembled)
    /\ wait = "frame escape" => \E p \in Seq(Byte) : bytes = Append(Begun(p, assembled), Parse!ESC)
    /\ mValue # <<>> => \E p \in Seq(Byte), f \in Seq(Byte) :
                           mValue = <<f>> /\ bytes = p \o Parse!Packet(f)

FramingInv == example = "parse" => ParseTypes /\ Framing

LEMMA FramingSend ==
    ASSUME ParseTypes, Framing, NEW b \in Byte, Parse!SendData(b)
    PROVE  ParseTypes' /\ Framing'
<1> DEFINE e == Parse!ESC
           o == Parse!SOF
<1>1. /\ stream = "send" /\ mValue = <<>> /\ stream' = "check" /\ handled' = handled
      /\ wait' = Parse!After(b) /\ bytes' = Append(bytes, b)
      /\ assembled' = CASE wait = "escape" /\ b = o -> <<>>
                        [] (wait = "frame" /\ b # e) \/ (wait = "frame escape" /\ b = e)
                             -> Append(assembled, b)
                        [] OTHER -> assembled
      /\ mValue' = IF wait' = "yield" THEN <<assembled>> ELSE <<>>
  BY DEF Parse!SendData, ParseTypes, Parse!NoValue
<1>2. /\ wait \in {"start", "idle", "escape", "frame", "frame escape", "yield"}
      /\ bytes \in Seq(Byte) /\ assembled \in Seq(Byte) /\ handled \in Seq(Seq(Byte))
  BY DEF ParseTypes
<1>3. e \in Byte /\ o \in Byte /\ e # o
  BY ByteTypes
<1>4. /\ wait \in {"start", "yield"} => wait' = "idle"
      /\ wait = "idle" => wait' = IF b = e THEN "escape" ELSE "idle"
      /\ wait = "escape" => wait' = IF b = o THEN "frame" ELSE "idle"
      /\ wait = "frame" => wait' = IF b = e THEN "frame escape" ELSE "frame"
      /\ wait = "frame escape" =>
            wait' = IF b = o THEN "yield" ELSE IF b = e THEN "frame" ELSE "idle"
  BY <1>1, <1>3 DEF Parse!After
<1> HIDE DEF e, o
<1>5. ParseTypes'
  <2>1. bytes' \in Seq(Byte) /\ assembled' \in Seq(Byte)
    <3>1. \A s \in Seq(Byte) : Append(s, b) \in Seq(Byte)
      OBVIOUS
    <3>2. <<>> \in Seq(Byte)
      OBVIOUS
    <3>3. assembled' = <<>> \/ assembled' = Append(assembled, b) \/ assembled' = assembled
      BY <1>1
    <3> QED
      BY <1>1, <1>2, <3>1, <3>2, <3>3
  <2>2. mValue' \in Seq(Seq(Byte)) /\ handled' \in Seq(Seq(Byte))
    <3>1. <<>> \in Seq(Seq(Byte)) /\ \A f \in Seq(Byte) : <<f>> \in Seq(Seq(Byte))
      OBVIOUS
    <3> QED
      BY <1>1, <1>2, <3>1
  <2>3. wait' \in {"start", "idle", "escape", "frame", "frame escape", "yield"}
    BY <1>2, <1>4
  <2> QED
    BY <1>1, <2>1, <2>2, <2>3 DEF ParseTypes
<1>6. CASE wait \in {"start", "yield", "idle"}
  <2>1. wait' \in {"idle", "escape"} /\ mValue' = <<>> /\ (wait' = "escape" => b = e)
    BY <1>1, <1>2, <1>4, <1>6
  <2> QED
    BY <1>1, <1>2, <1>5, <2>1 DEF Framing, e
<1>7. CASE wait = "escape"
  <2>1. mValue' = <<>> /\ wait' = IF b = o THEN "frame" ELSE "idle"
    BY <1>1, <1>4, <1>7
  <2>2. ASSUME b = o PROVE \E p \in Seq(Byte) : bytes' = Begun(p, assembled')
    <3>1. PICK p \in Seq(Byte) : bytes = Append(p, e)
      BY <1>7 DEF Framing, e
    <3>2. assembled' = <<>> /\ bytes' = Append(Append(p, e), o)
      BY <1>1, <1>7, <2>2, <3>1
    <3>3. Begun(p, <<>>) = Append(Append(p, e), o)
      <4>1. <<>> \in Seq(Byte)
        OBVIOUS
      <4> QED
        BY <4>1, BegunAppend DEF e, o
    <3> QED
      BY <3>2, <3>3
  <2> QED
    BY <1>5, <2>1, <2>2 DEF Framing
<1>8. CASE wait = "frame"
  <2>1. mValue' = <<>> /\ wait' = IF b = e THEN "frame escape" ELSE "frame"
    BY <1>1, <1>4, <1>8
  <2>2. PICK p \in Seq(Byte) : bytes = Begun(p, assembled)
    BY <1>8 DEF Framing
  <2>3. CASE b = e
    <3>1. assembled' = assembled /\ bytes' = Append(Begun(p, assembled), e)
      BY <1>1, <1>3, <1>8, <2>2, <2>3
    <3> QED
      BY <1>5, <2>1, <2>3, <3>1 DEF Framing, e
  <2>4. CASE b # e
    <3>1. assembled' = Append(assembled, b) /\ bytes' = Append(Begun(p, assembled), b)
      BY <1>1, <1>8, <2>2, <2>4
    <3>2. Begun(p, Append(assembled, b)) = Append(Begun(p, assembled), b)
      BY <1>2, <2>4, BegunAppend DEF e
    <3> QED
      BY <1>5, <2>1, <2>4, <3>1, <3>2 DEF Framing
  <2> QED
    BY <2>3, <2>4
<1>9. CASE wait = "frame escape"
  <2>1. PICK p \in Seq(Byte) : bytes = Append(Begun(p, assembled), e)
    BY <1>9 DEF Framing, e
  <2>2. wait' = IF b = o THEN "yield" ELSE IF b = e THEN "frame" ELSE "idle"
    BY <1>4, <1>9
  <2>3. CASE b = o
    <3>1. mValue' = <<assembled>> /\ bytes' = Append(Append(Begun(p, assembled), e), o)
      BY <1>1, <2>1, <2>2, <2>3
    <3>2. bytes' = p \o Parse!Packet(assembled)
      BY <1>2, <3>1, BegunAppend DEF e, o
    <3>3. wait' = "yield" /\ mValue' # <<>>
      BY <2>2, <2>3, <3>1
    <3>4. \E p1 \in Seq(Byte), f \in Seq(Byte) :
             mValue' = <<f>> /\ bytes' = p1 \o Parse!Packet(f)
      BY <1>2, <3>1, <3>2
    <3> QED
      BY <1>5, <3>3, <3>4 DEF Framing
  <2>4. CASE b = e
    <3>1. mValue' = <<>> /\ wait' = "frame" /\ assembled' = Append(assembled, e)
          /\ bytes' = Append(Append(Begun(p, assembled), e), e)
      BY <1>1, <1>3, <1>9, <2>1, <2>2, <2>4
    <3>2. Begun(p, Append(assembled, e)) = Append(Append(Begun(p, assembled), e), e)
      BY <1>2, BegunAppend DEF e
    <3> QED
      BY <1>5, <3>1, <3>2 DEF Framing
  <2>5. CASE b # o /\ b # e
    <3>1. mValue' = <<>> /\ wait' = "idle"
      BY <1>1, <2>2, <2>5
    <3> QED
      BY <1>5, <3>1 DEF Framing
  <2> QED
    BY <2>3, <2>4, <2>5
<1> QED
  BY <1>2, <1>6, <1>7, <1>8, <1>9

LEMMA FramingInvariance == Spec => []FramingInv
<1>1. Init => FramingInv
  BY DEF Init, FramingInv, ParseTypes, Framing, Parse!Init, Parse!NoValue
<1>2. FramingInv /\ [Next]_variables => FramingInv'
  <2> SUFFICES ASSUME FramingInv, [Next]_variables, example' = "parse"
               PROVE  ParseTypes' /\ Framing'
    BY DEF FramingInv
  <2>1. example = "parse" /\ ParseTypes /\ Framing
    BY DEF FramingInv, Next, In, variables
  <2>2. Parse!Next \/ UNCHANGED parser
    BY <2>1 DEF Next, In, variables
  <2>3. CASE UNCHANGED parser
    BY <2>1, <2>3 DEF parser, ParseTypes, Framing
  <2>4. CASE Parse!Check
    <3>1. /\ stream' = "send" /\ mValue' = <<>> /\ handled' = handled \o mValue
          /\ wait' = wait /\ assembled' = assembled /\ bytes' = bytes
      BY <2>4 DEF Parse!Check, Parse!NoValue
    <3>2. handled' \in Seq(Seq(Byte))
      <4>1. handled \in Seq(Seq(Byte)) /\ mValue \in Seq(Seq(Byte))
        BY <2>1 DEF ParseTypes
      <4>2. handled \o mValue \in Seq(Seq(Byte))
        BY <4>1, ConcatProperties
      <4> QED
        BY <3>1, <4>2
    <3>3. <<>> \in Seq(Seq(Byte))
      OBVIOUS
    <3> QED
      BY <2>1, <3>1, <3>2, <3>3 DEF ParseTypes, Framing
  <2>5. CASE Parse!EndOfStream
    BY <2>1, <2>5 DEF Parse!EndOfStream, ParseTypes, Framing
  <2>6. ASSUME NEW b \in Parse!Bytes, Parse!SendData(b) PROVE ParseTypes' /\ Framing'
    BY <2>1, <2>6, FramingSend DEF Byte
  <2> QED
    BY <2>2, <2>3, <2>4, <2>5, <2>6 DEF Parse!Next
<1> QED
  BY <1>1, <1>2, PTL DEF Spec

LEMMA ReverseTypes ==
    ASSUME NEW S, NEW t \in Seq(S)
    PROVE  /\ Parse!Reverse(t) \in Seq(S) /\ Len(Parse!Reverse(t)) = Len(t)
           /\ \A i \in 1..Len(t) : Parse!Reverse(t)[i] = t[Len(t) - i + 1]
<1> DEFINE n == Len(t)
           r == [i \in 1..n |-> t[n - i + 1]]
<1>1. n \in Nat /\ \A i \in 1..n : t[i] \in S
  OBVIOUS
<1>2. \A i \in 1..n : r[i] = t[n - i + 1]
  OBVIOUS
<1>3. Parse!Reverse(t) = r
  BY DEF Parse!Reverse
<1>4. r \in [1..n -> S]
  <2> HIDE DEF n
  <2>1. \A i \in 1..n : n - i + 1 \in 1..n
    BY <1>1
  <2> QED
    BY <1>1, <2>1
<1> HIDE DEF n, r
<1>5. r \in Seq(S) /\ Len(r) = n
  BY <1>1, <1>4
<1> QED
  BY <1>2, <1>3, <1>5 DEF n

\* What follows p in p \o s is a suffix.
LEMMA Suffix == ASSUME NEW S, NEW p \in Seq(S), NEW s \in Seq(S)
                PROVE  Parse!IsSuffix(s, p \o s)
<1> DEFINE t == p \o s
           m == Len(p)
           n == Len(s)
           rs == Parse!Reverse(s)
           rt == Parse!Reverse(t)
<1>1. /\ m \in Nat /\ n \in Nat /\ t \in Seq(S) /\ Len(t) = m + n
      /\ \A i \in 1..n : t[m + i] = s[i]
  OBVIOUS
<1> HIDE DEF t
<1>2. rs \in Seq(S) /\ Len(rs) = n /\ \A i \in 1..n : rs[i] = s[n - i + 1]
  BY ReverseTypes
<1>3. rt \in Seq(S) /\ Len(rt) = m + n /\ \A i \in 1..(m + n) : rt[i] = t[(m + n) - i + 1]
  <2>1. t \in Seq(S) /\ Len(t) = m + n
    BY <1>1
  <2>2. rt \in Seq(S) /\ Len(rt) = Len(t) /\ \A i \in 1..Len(t) : rt[i] = t[Len(t) - i + 1]
    BY <2>1, ReverseTypes
  <2> HIDE DEF m, n, rt
  <2> QED
    BY <2>1, <2>2
<1> HIDE DEF m, n, rs, rt
<1>4. \A i \in 1..n : rs[i] = rt[i]
  <2> SUFFICES ASSUME NEW i \in 1..n PROVE rs[i] = rt[i]
    OBVIOUS
  <2>1. n - i + 1 \in 1..n /\ (m + n) - i + 1 = m + (n - i + 1) /\ i \in 1..(m + n)
    BY <1>1
  <2>2. t[m + (n - i + 1)] = s[n - i + 1]
    BY <1>1, <2>1
  <2>3. rt[i] = t[(m + n) - i + 1] /\ rs[i] = s[n - i + 1]
    BY <1>2, <1>3, <2>1
  <2> QED
    BY <2>1, <2>2, <2>3
<1>5. SubSeq(rs, 1, n) = SubSeq(rt, 1, n) /\ n <= m + n
  BY <1>1, <1>2, <1>3, <1>4
<1> QED
  BY <1>2, <1>3, <1>5 DEF Parse!IsSuffix, Parse!IsPrefix, rs, rt, t

LEMMA PacketTypes == ASSUME NEW f \in Seq(Byte) PROVE Parse!Packet(f) \in Seq(Byte)
<1>1. Content(f) \in Seq(Byte) /\ <<Parse!ESC, Parse!SOF>> \in Seq(Byte)
  BY ByteTypes, ContentAppend, Appends
<1>2. Parse!Packet(f) = <<Parse!ESC, Parse!SOF>> \o Content(f) \o <<Parse!ESC, Parse!SOF>>
  BY DEF Parse!Packet, Content, Escaped
<1> QED
  BY <1>1, <1>2

\* What Parse yields was just sent, encoded as a frame, whatever came before and however
\* long the frame is.
THEOREM YieldsWhatWasSent == Spec => []YieldsFramesSent
<1>1. FramingInv => YieldsFramesSent
  <2> SUFFICES ASSUME Framing, ParseTypes, mValue # <<>>
               PROVE  Parse!IsSuffix(Parse!Packet(mValue[1]), bytes)
    BY DEF FramingInv, YieldsFramesSent, Parse!YieldsFramesSent, Parse!NoValue
  <2>1. PICK p \in Seq(Byte), f \in Seq(Byte) : mValue = <<f>> /\ bytes = p \o Parse!Packet(f)
    BY DEF Framing
  <2>2. Parse!Packet(f) \in Seq(Byte) /\ mValue[1] = f
    BY <2>1, PacketTypes
  <2> QED
    BY <2>1, <2>2, Suffix
<1> QED
  BY <1>1, FramingInvariance, PTL

-----------------------------------------------------------------------------
(* The frames of a stream *)

\* The frames that were handled, or are yielded and will be at the next check.
Taken == handled \o mValue

\* A frame with any byte before it.
Piece == Parse!Pieces(Seq(Byte))

\* The bytes when ps was sent, and then a byte that stands before the next frame.
Apart(ps, x) == Append(Parse!Sent(ps), x)

\* What Parse is doing when, after ps and the byte x, a part of a frame was sent.
Within(ps, x) ==
    /\ bytes = Apart(ps, x) => wait = "idle" /\ Taken = Parse!FramesOf(ps)
    /\ bytes = Append(Apart(ps, x), Parse!ESC) => wait = "escape" /\ Taken = Parse!FramesOf(ps)
    /\ \A g \in Seq(Byte) :
          /\ bytes = Begun(Apart(ps, x), g) =>
                wait = "frame" /\ assembled = g /\ Taken = Parse!FramesOf(ps)
          /\ bytes = Append(Begun(Apart(ps, x), g), Parse!ESC) =>
                wait = "frame escape" /\ assembled = g /\ Taken = Parse!FramesOf(ps)

\* Parse's state follows from what was sent: whole frames, or whole frames and a part of the
\* next one.
Follows(ps) ==
    /\ bytes = Parse!Sent(ps) =>
          wait = (IF ps = <<>> THEN "start" ELSE "yield") /\ Taken = Parse!FramesOf(ps)
    /\ \A x \in Byte : Within(ps, x)

HandlingInv == example = "parse" => \A ps \in Seq(Piece) : Follows(ps)

LEMMA PieceTypes == /\ \A p \in Piece : p.before \in Byte /\ p.frame \in Seq(Byte)
                    /\ Piece = Parse!Pieces(Seq(Parse!Bytes))
BY DEF Piece, Parse!Pieces, Byte

LEMMA LastOf == ASSUME NEW S, NEW s \in Seq(S), s # <<>>
                PROVE  \E t \in Seq(S), x \in S : s = Append(t, x)
<1> DEFINE n == Len(s)
           t == [i \in 1..(n - 1) |-> s[i]]
<1>1. n \in Nat /\ n # 0 /\ n - 1 \in Nat /\ (n - 1) + 1 = n /\ n \in 1..n
      /\ \A i \in 1..n : s[i] \in S
  OBVIOUS
<1>2. t \in Seq(S) /\ Len(t) = n - 1 /\ \A i \in 1..(n - 1) : t[i] = s[i]
  <2>1. t \in [1..(n - 1) -> S] /\ n - 1 \in Nat
    <3>1. \A i \in 1..(n - 1) : i \in 1..n
      BY <1>1
    <3> HIDE DEF n
    <3> QED
      BY <1>1, <3>1
  <2>2. \A i \in 1..(n - 1) : t[i] = s[i]
    OBVIOUS
  <2> HIDE DEF t, n
  <2> QED
    BY <2>1, <2>2
<1>3. s = Append(t, s[n])
  <2> DEFINE u == Append(t, s[n])
  <2>1. u \in Seq(S) /\ Len(u) = n /\ u[n] = s[n] /\ \A i \in 1..(n - 1) : u[i] = t[i]
    <3> HIDE DEF t, n
    <3> QED
      BY <1>1, <1>2
  <2>2. \A i \in 1..n : i = n \/ i \in 1..(n - 1)
    <3> HIDE DEF n
    <3> QED
      BY <1>1
  <2>3. \A i \in 1..n : u[i] = s[i]
    <3> HIDE DEF u, t, n
    <3> QED
      BY <1>2, <2>1, <2>2
  <2>4. Len(s) = Len(u)
    BY <2>1
  <2> HIDE DEF u
  <2>5. s = u
    BY <2>1, <2>3, <2>4, SeqEqual
  <2> QED
    BY <2>5 DEF u
<1> HIDE DEF t, n
<1> QED
  BY <1>1, <1>2, <1>3

\* The frames of one more piece come last.
LEMMA FramesAppend ==
    /\ Parse!FramesOf(<<>>) = <<>>
    /\ \A ps \in Seq(Piece) :
          /\ Parse!FramesOf(ps) \in Seq(Seq(Byte))
          /\ \A p \in Piece : Parse!FramesOf(Append(ps, p)) = Append(Parse!FramesOf(ps), p.frame)
<1>1. Parse!FramesOf(<<>>) = <<>>
  BY DEF Parse!FramesOf
<1>2. ASSUME NEW ps \in Seq(Piece)
      PROVE  /\ Parse!FramesOf(ps) \in Seq(Seq(Byte)) /\ Len(Parse!FramesOf(ps)) = Len(ps)
             /\ \A i \in 1..Len(ps) : Parse!FramesOf(ps)[i] = ps[i].frame
  <2> DEFINE n == Len(ps)
             fs == [i \in 1..n |-> ps[i].frame]
  <2>1. n \in Nat /\ DOMAIN ps = 1..n /\ \A i \in 1..n : ps[i] \in Piece
    OBVIOUS
  <2>2. \A i \in 1..n : ps[i].frame \in Seq(Byte)
    BY <2>1, PieceTypes
  <2>3. fs \in [1..n -> Seq(Byte)] /\ \A i \in 1..n : fs[i] = ps[i].frame
    <3> HIDE DEF n
    <3> QED
      BY <2>2
  <2>4. fs \in Seq(Seq(Byte)) /\ Len(fs) = n
    <3> HIDE DEF n, fs
    <3> QED
      BY <2>1, <2>3
  <2>5. Parse!FramesOf(ps) = fs
    BY <2>1 DEF Parse!FramesOf
  <2> HIDE DEF n, fs
  <2> QED
    BY <2>3, <2>4, <2>5 DEF n
<1>3. ASSUME NEW ps \in Seq(Piece), NEW p \in Piece
      PROVE  Parse!FramesOf(Append(ps, p)) = Append(Parse!FramesOf(ps), p.frame)
  <2> DEFINE qs == Append(ps, p)
             fs == Append(Parse!FramesOf(ps), p.frame)
             n == Len(ps)
  <2>1. /\ qs \in Seq(Piece) /\ Len(qs) = n + 1 /\ n \in Nat
        /\ qs[n + 1] = p /\ \A i \in 1..n : qs[i] = ps[i]
    OBVIOUS
  <2>2. /\ Parse!FramesOf(ps) \in Seq(Seq(Byte)) /\ Len(Parse!FramesOf(ps)) = n
        /\ \A i \in 1..n : Parse!FramesOf(ps)[i] = ps[i].frame
    BY <1>2
  <2>3. p.frame \in Seq(Byte)
    BY PieceTypes
  <2> HIDE DEF qs, n
  <2>4. /\ fs \in Seq(Seq(Byte)) /\ Len(fs) = n + 1
        /\ fs[n + 1] = p.frame /\ \A i \in 1..n : fs[i] = Parse!FramesOf(ps)[i]
    BY <2>1, <2>2, <2>3
  <2>5. /\ Parse!FramesOf(qs) \in Seq(Seq(Byte)) /\ Len(Parse!FramesOf(qs)) = Len(qs)
        /\ \A i \in 1..Len(qs) : Parse!FramesOf(qs)[i] = qs[i].frame
    BY <1>2, <2>1
  <2>6. Parse!FramesOf(qs) = fs
    <3> HIDE DEF fs
    <3>1. n + 1 \in 1..Len(qs) /\ \A i \in 1..n : i \in 1..Len(qs)
      BY <2>1
    <3>2. Parse!FramesOf(qs)[n + 1] = fs[n + 1]
      BY <2>1, <2>4, <2>5, <3>1
    <3>3. ASSUME NEW i \in 1..n PROVE Parse!FramesOf(qs)[i] = fs[i]
      <4>1. Parse!FramesOf(qs)[i] = qs[i].frame
        BY <2>5, <3>1
      <4>2. fs[i] = ps[i].frame
        BY <2>2, <2>4
      <4> QED
        BY <2>1, <4>1, <4>2
    <3>4. \A i \in 1..(n + 1) : i = n + 1 \/ i \in 1..n
      BY <2>1
    <3>5. \A i \in 1..(n + 1) : Parse!FramesOf(qs)[i] = fs[i]
      BY <3>2, <3>3, <3>4
    <3> QED
      BY <2>1, <2>4, <2>5, <3>5, SeqEqual
  <2> QED
    BY <2>6 DEF qs
<1> QED
  BY <1>1, <1>2, <1>3

\* The bytes of one more piece come last.
LEMMA SentAppend ==
    /\ Parse!Sent(<<>>) = <<>>
    /\ \A ps \in Seq(Piece) :
          /\ Parse!Sent(ps) \in Seq(Byte) /\ \A x \in Byte : Apart(ps, x) \in Seq(Byte)
          /\ \A p \in Piece :
                Parse!Sent(Append(ps, p)) =
                   Append(Append(Begun(Apart(ps, p.before), p.frame), Parse!ESC), Parse!SOF)
<1> DEFINE Part(p) == <<p.before>> \o Parse!Packet(p.frame)
           parts(ps) == [i \in DOMAIN ps |-> Part(ps[i])]
<1>1. Parse!Sent(<<>>) = <<>>
  <2>1. [i \in DOMAIN <<>> |-> <<<<>>[i].before>> \o Parse!Packet(<<>>[i].frame)] = <<>>
    OBVIOUS
  <2>2. Parse!FlattenSeq(<<>>) = <<>>
    BY DEF Parse!FlattenSeq
  <2> QED
    BY <2>1, <2>2 DEF Parse!Sent
<1>2. ASSUME NEW p \in Piece PROVE Part(p) \in Seq(Byte)
  <2>1. <<p.before>> \in Seq(Byte) /\ Parse!Packet(p.frame) \in Seq(Byte)
    BY PieceTypes, PacketTypes, Appends
  <2> QED
    BY <2>1, ConcatProperties
<1>3. \A ps : Parse!Sent(ps) = Parse!FlattenSeq(parts(ps))
  BY DEF Parse!Sent
<1> HIDE DEF Part
<1>4. ASSUME NEW ps \in Seq(Piece)
      PROVE  /\ parts(ps) \in Seq(Seq(Byte)) /\ Len(parts(ps)) = Len(ps)
             /\ \A i \in 1..Len(ps) : parts(ps)[i] = Part(ps[i])
  <2> DEFINE n == Len(ps)
             us == [i \in 1..n |-> Part(ps[i])]
  <2>1. n \in Nat /\ DOMAIN ps = 1..n /\ \A i \in 1..n : ps[i] \in Piece
    OBVIOUS
  <2>2. \A i \in 1..n : Part(ps[i]) \in Seq(Byte)
    BY <1>2, <2>1
  <2>3. us \in [1..n -> Seq(Byte)] /\ \A i \in 1..n : us[i] = Part(ps[i])
    <3> HIDE DEF n
    <3> QED
      BY <2>2
  <2>4. us \in Seq(Seq(Byte)) /\ Len(us) = n
    <3> HIDE DEF n, us
    <3> QED
      BY <2>1, <2>3
  <2>5. parts(ps) = us
    BY <2>1
  <2> HIDE DEF n, us, parts
  <2> QED
    BY <2>3, <2>4, <2>5 DEF n
<1> HIDE DEF parts
<1>5. ASSUME NEW ps \in Seq(Piece)
      PROVE  Parse!Sent(ps) \in Seq(Byte) /\ \A x \in Byte : Apart(ps, x) \in Seq(Byte)
  <2>1. <<>> \in Seq(Byte) /\ parts(ps) \in Seq(Seq(Byte))
    BY <1>4
  <2>2. Parse!Sent(ps) \in Seq(Byte)
    BY <1>3, <2>1, FlattenAppend
  <2>3. \A s \in Seq(Byte), x \in Byte : Append(s, x) \in Seq(Byte)
    BY Appends
  <2> QED
    BY <2>2, <2>3 DEF Apart
<1>6. ASSUME NEW ps \in Seq(Piece), NEW p \in Piece
      PROVE  Parse!Sent(Append(ps, p)) =
                Append(Append(Begun(Apart(ps, p.before), p.frame), Parse!ESC), Parse!SOF)
  <2> DEFINE qs == Append(ps, p)
             more == Append(parts(ps), Part(p))
             n == Len(ps)
             x == p.before
             g == p.frame
  <2>1. /\ qs \in Seq(Piece) /\ Len(qs) = n + 1 /\ n \in Nat
        /\ qs[n + 1] = p /\ \A i \in 1..n : qs[i] = ps[i]
    OBVIOUS
  <2>2. /\ parts(ps) \in Seq(Seq(Byte)) /\ Len(parts(ps)) = n
        /\ \A i \in 1..n : parts(ps)[i] = Part(ps[i])
    BY <1>4
  <2>3. Part(p) \in Seq(Byte) /\ x \in Byte /\ g \in Seq(Byte)
    BY <1>2, PieceTypes
  <2> HIDE DEF qs, n, x, g
  <2>4. /\ more \in Seq(Seq(Byte)) /\ Len(more) = n + 1
        /\ more[n + 1] = Part(p) /\ \A i \in 1..n : more[i] = parts(ps)[i]
    BY <2>2, <2>3
  <2>5. /\ parts(qs) \in Seq(Seq(Byte)) /\ Len(parts(qs)) = Len(qs)
        /\ \A i \in 1..Len(qs) : parts(qs)[i] = Part(qs[i])
    BY <1>4, <2>1
  <2>6. parts(qs) = more
    <3> HIDE DEF more
    <3>1. n + 1 \in 1..Len(qs) /\ \A i \in 1..n : i \in 1..Len(qs)
      BY <2>1
    <3>2. parts(qs)[n + 1] = more[n + 1]
      BY <2>1, <2>4, <2>5, <3>1
    <3>3. \A i \in 1..n : parts(qs)[i] = more[i]
      BY <2>1, <2>2, <2>4, <2>5, <3>1
    <3>4. \A i \in 1..(n + 1) : i = n + 1 \/ i \in 1..n
      BY <2>1
    <3>5. \A i \in 1..(n + 1) : parts(qs)[i] = more[i]
      BY <3>2, <3>3, <3>4
    <3> QED
      BY <2>1, <2>4, <2>5, <3>5, SeqEqual
  <2>7. Parse!FlattenSeq(more) = Parse!FlattenSeq(parts(ps)) \o Part(p)
    BY <2>2, <2>3, FlattenAppend
  <2>8. Parse!Sent(qs) = Parse!Sent(ps) \o Part(p)
    BY <1>3, <2>6, <2>7
  <2>9. Parse!Sent(ps) \o Part(p) = Apart(ps, x) \o Parse!Packet(g)
    <3>1. /\ Parse!Sent(ps) \in Seq(Byte) /\ <<x>> \in Seq(Byte)
          /\ Parse!Packet(g) \in Seq(Byte)
      BY <1>5, <2>3, PacketTypes, Appends
    <3>2. Apart(ps, x) = Parse!Sent(ps) \o <<x>>
      BY <2>3, <3>1, ConcatAppend DEF Apart
    <3>3. (Parse!Sent(ps) \o <<x>>) \o Parse!Packet(g)
             = Parse!Sent(ps) \o (<<x>> \o Parse!Packet(g))
      BY <3>1, ConcatAssociative, SMTT(20)
    <3> QED
      BY <3>2, <3>3 DEF Part, x, g
  <2>10. Apart(ps, x) \o Parse!Packet(g) =
            Append(Append(Begun(Apart(ps, x), g), Parse!ESC), Parse!SOF)
    BY <1>5, <2>3, BegunAppend
  <2> QED
    BY <2>8, <2>9, <2>10 DEF qs, x, g
<1> QED
  BY <1>1, <1>5, <1>6

LEMMA FollowsSend ==
    ASSUME ParseTypes, \A ps \in Seq(Piece) : Follows(ps),
           NEW b \in Byte, Parse!SendData(b)
    PROVE  \A ps \in Seq(Piece) : Follows(ps)'
<1> DEFINE e == Parse!ESC
           o == Parse!SOF
<1>1. /\ mValue = <<>> /\ handled' = handled
      /\ wait' = Parse!After(b) /\ bytes' = Append(bytes, b)
      /\ assembled' = CASE wait = "escape" /\ b = o -> <<>>
                        [] (wait = "frame" /\ b # e) \/ (wait = "frame escape" /\ b = e)
                             -> Append(assembled, b)
                        [] OTHER -> assembled
      /\ mValue' = IF wait' = "yield" THEN <<assembled>> ELSE <<>>
  BY DEF Parse!SendData, ParseTypes, Parse!NoValue
<1>2. bytes \in Seq(Byte) /\ assembled \in Seq(Byte) /\ handled \in Seq(Seq(Byte))
  BY DEF ParseTypes
<1>3. e \in Byte /\ o \in Byte /\ e # o
  BY ByteTypes
<1>4. /\ wait \in {"start", "yield"} => wait' = "idle"
      /\ wait = "idle" /\ b = e => wait' = "escape"
      /\ wait = "escape" /\ b = o => wait' = "frame" /\ assembled' = <<>>
      /\ wait = "frame" /\ b = e => wait' = "frame escape" /\ assembled' = assembled
      /\ wait = "frame" /\ b # e => wait' = "frame" /\ assembled' = Append(assembled, b)
      /\ wait = "frame escape" /\ b = e => wait' = "frame" /\ assembled' = Append(assembled, b)
      /\ wait = "frame escape" /\ b = o => wait' = "yield"
  BY <1>1, <1>3 DEF Parse!After
<1>5. Taken = handled /\ (wait' # "yield" => Taken' = handled)
      /\ (wait' = "yield" => Taken' = Append(handled, assembled))
  <2>1. \A h \in Seq(Seq(Byte)) : h \o <<>> = h
    OBVIOUS
  <2>2. \A h \in Seq(Seq(Byte)), g \in Seq(Byte) : h \o <<g>> = Append(h, g)
    OBVIOUS
  <2>3. handled \o <<>> = handled /\ handled \o <<assembled>> = Append(handled, assembled)
    BY <1>2, <2>1, <2>2
  <2> QED
    BY <1>1, <2>3 DEF Taken
<1> HIDE DEF e, o
<1> SUFFICES ASSUME NEW ps \in Seq(Piece) PROVE Follows(ps)'
  OBVIOUS
<1> DEFINE gs == Parse!FramesOf(ps)
<1>7. ASSUME NEW t \in Seq(Byte), NEW c \in Byte, bytes' = Append(t, c)
      PROVE  bytes = t /\ b = c
  <2>1. AllButLast(bytes') = bytes /\ LastIn(bytes') = b
    BY <1>1, <1>2, LastApart
  <2>2. AllButLast(bytes') = t /\ LastIn(bytes') = c
    BY <1>7, LastApart
  <2> QED
    BY <2>1, <2>2
<1>8. ASSUME bytes' = Parse!Sent(ps)
      PROVE  wait' = (IF ps = <<>> THEN "start" ELSE "yield") /\ Taken' = gs
  <2>1. ps # <<>>
    <3>1. \A s \in Seq(Byte) : \A v : Append(s, v) # <<>>
      OBVIOUS
    <3> QED
      BY <1>1, <1>2, <1>8, <3>1, SentAppend
  <2>2. PICK qs \in Seq(Piece), p \in Piece : ps = Append(qs, p)
    BY <2>1, LastOf
  <2> DEFINE r == Begun(Apart(qs, p.before), p.frame)
             q == Append(r, e)
  <2>3. Parse!Sent(ps) = Append(q, o) /\ q \in Seq(Byte)
    <3>1. Parse!Sent(ps) = Append(q, o)
      BY <2>2, SentAppend DEF e, o
    <3>2. r \in Seq(Byte)
      BY SentAppend, BegunAppend, PieceTypes
    <3> HIDE DEF r
    <3> QED
      BY <1>3, <3>1, <3>2, ConcatAppend
  <2> HIDE DEF q
  <2>4. bytes = q /\ b = o
    BY <1>3, <1>7, <1>8, <2>3
  <2>5. wait = "frame escape" /\ assembled = p.frame /\ Taken = Parse!FramesOf(qs)
    <3>1. Within(qs, p.before) /\ p.frame \in Seq(Byte)
      BY PieceTypes DEF Follows
    <3> QED
      BY <2>4, <3>1 DEF Within, q, r, e
  <2>6. wait' = "yield" /\ Taken' = Append(Parse!FramesOf(qs), p.frame)
    BY <1>4, <1>5, <2>4, <2>5
  <2>7. gs = Append(Parse!FramesOf(qs), p.frame)
    BY <2>2, FramesAppend
  <2> QED
    BY <2>1, <2>6, <2>7
<1> HIDE DEF gs
<1>9. ASSUME NEW x \in Byte PROVE Within(ps, x)'
  <2> DEFINE a == Apart(ps, x)
  <2>1. Parse!Sent(ps) \in Seq(Byte) /\ a \in Seq(Byte)
    BY SentAppend
  <2>2. Within(ps, x)
    BY DEF Follows
  <2> HIDE DEF a
  <2>3. ASSUME bytes' = a PROVE wait' = "idle" /\ Taken' = gs
    <3>1. bytes = Parse!Sent(ps)
      BY <1>7, <2>1, <2>3 DEF Apart, a
    <3>2. wait \in {"start", "yield"} /\ Taken = gs
      BY <3>1 DEF Follows, gs
    <3> QED
      BY <1>4, <1>5, <3>2
  <2>4. ASSUME bytes' = Append(a, e) PROVE wait' = "escape" /\ Taken' = gs
    <3>1. bytes = a /\ b = e
      BY <1>3, <1>7, <2>1, <2>4
    <3>2. wait = "idle" /\ Taken = gs
      BY <2>2, <3>1 DEF Within, a, gs
    <3> QED
      BY <1>4, <1>5, <3>1, <3>2
  <2>5. ASSUME NEW g \in Seq(Byte), bytes' = Begun(a, g)
        PROVE  wait' = "frame" /\ assembled' = g /\ Taken' = gs
    <3>1. CASE g = <<>>
      <4>1. Begun(a, <<>>) = Append(Append(a, e), o)
        BY <2>1, BegunAppend DEF e, o
      <4>2. Append(a, e) \in Seq(Byte)
        BY <1>3, <2>1, ConcatAppend
      <4>3. bytes = Append(a, e) /\ b = o
        BY <1>3, <1>7, <2>5, <3>1, <4>1, <4>2
      <4>4. wait = "escape" /\ Taken = gs
        BY <2>2, <4>3 DEF Within, a, e, gs
      <4> QED
        BY <1>4, <1>5, <3>1, <4>3, <4>4
    <3>2. CASE g # <<>>
      <4>1. PICK h \in Seq(Byte), c \in Byte : g = Append(h, c)
        BY <3>2, LastOf
      <4>2. Begun(a, h) \in Seq(Byte)
        BY <2>1, BegunAppend
      <4>3. CASE c = e
        <5>1. Begun(a, g) = Append(Append(Begun(a, h), e), e)
          BY <2>1, <4>1, <4>3, BegunAppend DEF e
        <5>2. Append(Begun(a, h), e) \in Seq(Byte)
          BY <1>3, <4>2, ConcatAppend
        <5>3. bytes = Append(Begun(a, h), e) /\ b = e
          BY <1>3, <1>7, <2>5, <5>1, <5>2
        <5>4. wait = "frame escape" /\ assembled = h /\ Taken = gs
          BY <2>2, <5>3 DEF Within, a, e, gs
        <5> QED
          BY <1>4, <1>5, <4>1, <4>3, <5>3, <5>4
      <4>4. CASE c # e
        <5>1. Begun(a, g) = Append(Begun(a, h), c)
          BY <2>1, <4>1, <4>4, BegunAppend DEF e
        <5>2. bytes = Begun(a, h) /\ b = c
          BY <1>7, <2>5, <4>1, <4>2, <5>1
        <5>3. wait = "frame" /\ assembled = h /\ Taken = gs
          BY <2>2, <5>2 DEF Within, a, gs
        <5> QED
          BY <1>4, <1>5, <4>1, <4>4, <5>2, <5>3
      <4> QED
        BY <4>3, <4>4
    <3> QED
      BY <3>1, <3>2
  <2>6. ASSUME NEW g \in Seq(Byte), bytes' = Append(Begun(a, g), e)
        PROVE  wait' = "frame escape" /\ assembled' = g /\ Taken' = gs
    <3>1. Begun(a, g) \in Seq(Byte)
      BY <2>1, BegunAppend
    <3>2. bytes = Begun(a, g) /\ b = e
      BY <1>3, <1>7, <2>6, <3>1
    <3>3. wait = "frame" /\ assembled = g /\ Taken = gs
      BY <2>2, <3>2 DEF Within, a, gs
    <3> QED
      BY <1>4, <1>5, <3>2, <3>3
  <2> QED
    BY <2>3, <2>4, <2>5, <2>6 DEF Within, Apart, Begun, Content, a, e, gs
<1> QED
  BY <1>8, <1>9 DEF Follows, gs

\* Frames with any byte before each are all handled, once and in order, however many they
\* are and whatever their bytes; those that the run checks are among them.
THEOREM HandlesAllFrames ==
    Spec => [](/\ FramesHandled
               /\ example = "parse" =>
                     Parse!Handles(Parse!Streams(Seq(Parse!Pieces(Seq(Parse!Bytes))))))
<1> DEFINE AllHandled == example = "parse" => Parse!Handles(Parse!Streams(Seq(Piece)))
<1>1. Init /\ FramingInv => HandlingInv
  <2> SUFFICES ASSUME Init, example = "parse", FramingInv, NEW ps \in Seq(Piece)
               PROVE  Follows(ps)
    BY DEF HandlingInv
  <2>1. /\ bytes = <<>> /\ wait = "start" /\ handled = <<>> /\ mValue = <<>>
    BY DEF Init, Parse!Init, Parse!NoValue
  <2>2. Taken = <<>>
    BY <2>1 DEF Taken
  <2>3. \A s \in Seq(Byte) : \A b : Append(s, b) # <<>>
    OBVIOUS
  <2>4. ASSUME NEW x \in Byte
        PROVE  Apart(ps, x) # <<>> /\ Append(Apart(ps, x), Parse!ESC) # <<>>
    BY <2>3, SentAppend DEF Apart
  <2>5. ASSUME NEW x \in Byte, NEW g \in Seq(Byte)
        PROVE  /\ Begun(Apart(ps, x), g) # <<>>
               /\ Append(Begun(Apart(ps, x), g), Parse!ESC) # <<>>
    <3> DEFINE a == Apart(ps, x)
    <3>1. a \in Seq(Byte) /\ Begun(a, g) \in Seq(Byte)
      BY SentAppend, BegunAppend
    <3> HIDE DEF a
    <3>2. Append(Append(a, Parse!ESC), Parse!SOF) \in Seq(Byte)
          /\ Append(Append(a, Parse!ESC), Parse!SOF) # <<>> /\ Content(g) \in Seq(Byte)
      BY <2>3, <3>1, ByteTypes, ConcatAppend, ContentAppend
    <3>3. \A s, t \in Seq(Byte) : s # <<>> => s \o t # <<>>
      OBVIOUS
    <3>4. Begun(a, g) # <<>>
      BY <3>2, <3>3 DEF Begun
    <3> QED
      BY <2>3, <3>1, <3>4 DEF a
  <2>6. Parse!Sent(ps) = <<>> => ps = <<>>
    <3> SUFFICES ASSUME ps # <<>> PROVE Parse!Sent(ps) # <<>>
      OBVIOUS
    <3>1. PICK qs \in Seq(Piece), p \in Piece : ps = Append(qs, p)
      BY LastOf
    <3> DEFINE r == Begun(Apart(qs, p.before), p.frame)
    <3>2. r \in Seq(Byte) /\ Parse!Sent(ps) = Append(Append(r, Parse!ESC), Parse!SOF)
      BY <3>1, SentAppend, BegunAppend, PieceTypes
    <3> HIDE DEF r
    <3>3. Append(r, Parse!ESC) \in Seq(Byte)
      BY <3>2, ByteTypes, ConcatAppend
    <3> QED
      BY <2>3, <3>2, <3>3
  <2>7. ps = <<>> => Parse!FramesOf(ps) = <<>>
    BY FramesAppend
  <2>8. ASSUME NEW x \in Byte PROVE Within(ps, x)
    BY <2>1, <2>4, <2>5 DEF Within
  <2> QED
    BY <2>1, <2>2, <2>6, <2>7, <2>8 DEF Follows
<1>2. HandlingInv /\ FramingInv /\ [Next]_variables => HandlingInv'
  <2> SUFFICES ASSUME HandlingInv, FramingInv, [Next]_variables, example' = "parse"
               PROVE  \A ps \in Seq(Piece) : Follows(ps)'
    BY DEF HandlingInv
  <2>1. example = "parse" /\ ParseTypes /\ \A ps \in Seq(Piece) : Follows(ps)
    BY DEF HandlingInv, FramingInv, Next, In, variables
  <2>2. Parse!Next \/ UNCHANGED parser
    BY <2>1 DEF Next, In, variables
  <2>3. ASSUME bytes' = bytes, wait' = wait, assembled' = assembled, Taken' = Taken
        PROVE  \A ps \in Seq(Piece) : Follows(ps)'
    BY <2>1, <2>3 DEF Follows, Within, Apart, Begun, Content
  <2>4. CASE UNCHANGED parser
    BY <2>3, <2>4 DEF parser, Taken
  <2>5. CASE Parse!Check
    <3>1. /\ handled' = handled \o mValue /\ mValue' = <<>>
          /\ wait' = wait /\ assembled' = assembled /\ bytes' = bytes
      BY <2>5 DEF Parse!Check, Parse!NoValue
    <3>2. handled \o mValue \in Seq(Seq(Byte))
      BY <2>1, ConcatProperties DEF ParseTypes
    <3>3. \A h \in Seq(Seq(Byte)) : h \o <<>> = h
      OBVIOUS
    <3>4. Taken' = Taken
      BY <3>1, <3>2, <3>3 DEF Taken
    <3> QED
      BY <2>3, <3>1, <3>4
  <2>6. CASE Parse!EndOfStream
    BY <2>3, <2>6 DEF Parse!EndOfStream, Taken
  <2>7. ASSUME NEW b \in Parse!Bytes, Parse!SendData(b)
        PROVE  \A ps \in Seq(Piece) : Follows(ps)'
    BY <2>1, <2>7, FollowsSend DEF Byte
  <2> QED
    BY <2>2, <2>4, <2>5, <2>6, <2>7 DEF Parse!Next
<1>3. FramingInv /\ HandlingInv => AllHandled
  <2> SUFFICES ASSUME ParseTypes, stream = "send", NEW ps \in Seq(Piece),
                      Follows(ps), bytes = Parse!Sent(ps)
               PROVE  handled = Parse!FramesOf(ps)
    BY DEF FramingInv, HandlingInv, Parse!Handles, Parse!Streams
  <2>1. Taken = Parse!FramesOf(ps)
    BY DEF Follows
  <2>2. \A h \in Seq(Seq(Byte)) : h \o <<>> = h
    OBVIOUS
  <2> QED
    BY <2>1, <2>2 DEF Taken, ParseTypes
<1>4. AllHandled => FramesHandled
  <2>1. \A S, n : BoundedSeq(S, n) = UNION {[1..m -> S] : m \in 0..n}
    BY DEF BoundedSeq, SeqOf
  <2>2. ASSUME NEW S, NEW T, S \subseteq T PROVE BoundedSeq(S, 2) \subseteq Seq(T)
    <3> SUFFICES ASSUME NEW s \in UNION {[1..m -> S] : m \in 0..2} PROVE s \in Seq(T)
      BY <2>1
    <3>1. PICK m \in 0..2 : s \in [1..m -> S]
      OBVIOUS
    <3>2. m \in Nat /\ s \in [1..m -> T]
      BY <2>2, <3>1
    <3> QED
      BY <3>2
  <2>3. BoundedSeq(Parse!Bytes, 2) \subseteq Seq(Byte)
    BY <2>2 DEF Byte
  <2>4. Parse!Pieces(BoundedSeq(Parse!Bytes, 2)) \subseteq Piece
    BY <2>3 DEF Piece, Parse!Pieces
  <2>5. BoundedSeq(Parse!Pieces(BoundedSeq(Parse!Bytes, 2)), 2) \subseteq Seq(Piece)
    BY <2>2, <2>4
  <2>6. ShortStreams \subseteq Parse!Streams(Seq(Piece))
    BY <2>5 DEF ShortStreams, Parse!Streams
  <2> QED
    BY <2>6 DEF FramesHandled, Parse!Handles
<1>5. AllHandled => (example = "parse" =>
                        Parse!Handles(Parse!Streams(Seq(Parse!Pieces(Seq(Parse!Bytes))))))
  BY PieceTypes
<1> HIDE DEF AllHandled
<1> QED
  BY <1>1, <1>2, <1>3, <1>4, <1>5, FramingInvariance, PTL DEF Spec
=============================================================================
