------------------------ MODULE ThreadSafeQueue_proofs ------------------------
(***************************************************************************)
(* Proofs about the monitor queue for any finite sets of threads: mutual   *)
(* exclusion, get() never pops an empty queue, no wake-up is lost, and     *)
(* every behaviour is, seen from outside, one of the abstract FIFO queue.  *)
(* From this follows that the program of module SumQueue gets its sum.     *)
(***************************************************************************)
EXTENDS SumQueue, FiniteSetTheorems, TLAPS

\* val in get() is unset until front() has been read.
GotWhenRead == \A g \in Getters :
                  pc[g] \notin {"release", "done"} => got[g] = NoValue

\* LockDiscipline is what makes TakeFindsElement inductive: whoever pops is the
\* only thread past its predicate.
Inv == TypeOK /\ LockDiscipline /\ TakeFindsElement /\ NoLostWakeup /\ GotWhenRead

-----------------------------------------------------------------------------
(* The actions preserve typing *)

LEMMA TypeStep == ASSUME TypeOK, TakeFindsElement, [Next]_vars PROVE TypeOK'
<1> USE ThreadsAssumption, SpuriousAssumption
    DEF TypeOK, Threads, AdderPC, GetterPC, Goto, Lock, Unlock
<1>1. CASE UNCHANGED vars
  BY <1>1 DEF vars
<1>2. CASE \E a \in Adders : AdderStep(a)
  <2> PICK a \in Adders : AdderStep(a)
    BY <1>2
  <2>1. CASE AddLock(a) BY <2>1 DEF AddLock
  <2>2. CASE AddPush(a) BY <2>2 DEF AddPush
  <2>3. CASE AddUnlock(a) BY <2>3 DEF AddUnlock
  <2>4. CASE AddNotify(a) BY <2>4 DEF AddNotify, Waiting
  <2> QED BY <2>1, <2>2, <2>3, <2>4 DEF AdderStep
<1>3. CASE \E g \in Getters : GetterStep(g) \/ SpuriousWake(g)
  <2> PICK g \in Getters : GetterStep(g) \/ SpuriousWake(g)
    BY <1>3
  <2>1. CASE GetLock(g) BY <2>1 DEF GetLock
  <2>2. CASE GetBlock(g) BY <2>2 DEF GetBlock
  <2>3. CASE GetReady(g) BY <2>3 DEF GetReady
  <2>4. CASE SpuriousWake(g) BY <2>4 DEF SpuriousWake
  <2>5. CASE GetRelock(g) BY <2>5 DEF GetRelock
  <2>6. CASE GetTake(g)
    <3>1. myQueue # <<>>
      BY <2>6 DEF GetTake, TakeFindsElement
    <3> QED BY <2>6, <3>1 DEF GetTake
  <2>7. CASE GetUnlock(g) BY <2>7 DEF GetUnlock
  <2> QED BY <2>1, <2>2, <2>3, <2>4, <2>5, <2>6, <2>7 DEF GetterStep
<1>4. CASE Joined
  BY <1>4 DEF Joined, vars
<1> QED BY <1>1, <1>2, <1>3, <1>4 DEF Next

-----------------------------------------------------------------------------
(* The actions preserve mutual exclusion *)

LEMMA LockStep == ASSUME TypeOK, LockDiscipline, [Next]_vars
                  PROVE  LockDiscipline'
<1> USE ThreadsAssumption
    DEF TypeOK, LockDiscipline, Critical, Threads, AdderPC, GetterPC, Goto, Lock, Unlock
<1>1. CASE UNCHANGED vars
  BY <1>1 DEF vars
<1>2. CASE \E a \in Adders : AdderStep(a)
  <2> PICK a \in Adders : AdderStep(a)
    BY <1>2
  <2>1. CASE AddLock(a) BY <2>1 DEF AddLock
  <2>2. CASE AddPush(a) BY <2>2 DEF AddPush
  <2>3. CASE AddUnlock(a) BY <2>3 DEF AddUnlock
  <2>4. CASE AddNotify(a) BY <2>4 DEF AddNotify, Waiting
  <2> QED BY <2>1, <2>2, <2>3, <2>4 DEF AdderStep
<1>3. CASE \E g \in Getters : GetterStep(g) \/ SpuriousWake(g)
  <2> PICK g \in Getters : GetterStep(g) \/ SpuriousWake(g)
    BY <1>3
  <2>1. CASE GetLock(g) BY <2>1 DEF GetLock
  <2>2. CASE GetBlock(g) BY <2>2 DEF GetBlock
  <2>3. CASE GetReady(g) BY <2>3 DEF GetReady
  <2>4. CASE SpuriousWake(g) BY <2>4 DEF SpuriousWake
  <2>5. CASE GetRelock(g) BY <2>5 DEF GetRelock
  <2>6. CASE GetTake(g) BY <2>6 DEF GetTake
  <2>7. CASE GetUnlock(g) BY <2>7 DEF GetUnlock
  <2> QED BY <2>1, <2>2, <2>3, <2>4, <2>5, <2>6, <2>7 DEF GetterStep
<1>4. CASE Joined
  BY <1>4 DEF Joined, vars
<1> QED BY <1>1, <1>2, <1>3, <1>4 DEF Next

-----------------------------------------------------------------------------
(* The element a getter saw is still there when it pops *)

LEMMA TakeStep == ASSUME TypeOK, LockDiscipline, TakeFindsElement, [Next]_vars
                  PROVE  TakeFindsElement'
<1> USE ThreadsAssumption DEF TypeOK, TakeFindsElement, Threads, Goto, Lock, Unlock
<1>1. CASE UNCHANGED vars
  BY <1>1 DEF vars
<1>2. CASE \E a \in Adders : AdderStep(a)
  <2> PICK a \in Adders : AdderStep(a)
    BY <1>2
  <2>1. CASE AddLock(a) BY <2>1 DEF AddLock
  <2>2. CASE AddPush(a) BY <2>2 DEF AddPush
  <2>3. CASE AddUnlock(a) BY <2>3 DEF AddUnlock
  <2>4. CASE AddNotify(a) BY <2>4 DEF AddNotify, Waiting
  <2> QED BY <2>1, <2>2, <2>3, <2>4 DEF AdderStep
<1>3. CASE \E g \in Getters : GetterStep(g) \/ SpuriousWake(g)
  <2> PICK g \in Getters : GetterStep(g) \/ SpuriousWake(g)
    BY <1>3
  <2>1. CASE GetLock(g) BY <2>1 DEF GetLock
  <2>2. CASE GetBlock(g) BY <2>2 DEF GetBlock
  <2>3. CASE GetReady(g) BY <2>3 DEF GetReady
  <2>4. CASE SpuriousWake(g) BY <2>4 DEF SpuriousWake
  <2>5. CASE GetRelock(g) BY <2>5 DEF GetRelock
  <2>6. CASE GetTake(g)
    <3>1. \A h \in Getters : pc[h] = "take" => h = g
      BY <2>6 DEF GetTake, LockDiscipline, Critical
    <3> QED BY <2>6, <3>1 DEF GetTake
  <2>7. CASE GetUnlock(g) BY <2>7 DEF GetUnlock
  <2> QED BY <2>1, <2>2, <2>3, <2>4, <2>5, <2>6, <2>7 DEF GetterStep
<1>4. CASE Joined
  BY <1>4 DEF Joined, vars
<1> QED BY <1>1, <1>2, <1>3, <1>4 DEF Next

LEMMA GotStep == ASSUME TypeOK, GotWhenRead, [Next]_vars PROVE GotWhenRead'
  BY ThreadsAssumption
  DEF TypeOK, GotWhenRead, Next, AdderStep, GetterStep, Threads, Goto, Joined,
      vars, Waiting, AddLock, AddPush, AddUnlock, AddNotify, GetLock, GetBlock,
      GetReady, SpuriousWake, GetRelock, GetTake, GetUnlock

-----------------------------------------------------------------------------
(* No wake-up is lost *)

\* One more thread in a finite set, one fewer in another.
LEMMA Joins == ASSUME NEW S, NEW x, IsFiniteSet(S), x \notin S
               PROVE  Cardinality(S \cup {x}) = Cardinality(S) + 1
  BY FS_AddElement

LEMMA Leaves == ASSUME NEW S, NEW x, IsFiniteSet(S), x \in S
                PROVE  Cardinality(S \ {x}) = Cardinality(S) - 1
  BY FS_RemoveElement

LEMMA WakeStep == ASSUME TypeOK, TakeFindsElement, NoLostWakeup, [Next]_vars
                  PROVE  NoLostWakeup'
<1> USE ThreadsAssumption DEF TypeOK, Threads, Goto, AdderPC, GetterPC
<1>1. /\ IsFiniteSet(Awake) /\ IsFiniteSet(OweNotify)
      /\ Cardinality(Awake) \in Nat /\ Cardinality(OweNotify) \in Nat
  <2>1. IsFiniteSet(Awake) /\ IsFiniteSet(OweNotify)
    BY FS_Subset DEF Awake, OweNotify
  <2> QED BY <2>1, FS_CardinalityType
\* Steps that leave the queue alone and move no thread between the sets.
<1>2. ASSUME Waiting' = Waiting, Awake' = Awake, OweNotify' = OweNotify,
             UNCHANGED myQueue
      PROVE  NoLostWakeup'
  BY <1>2 DEF NoLostWakeup
<1>3. CASE UNCHANGED vars
  BY <1>2, <1>3 DEF vars, Waiting, Awake, OweNotify
<1>4. ASSUME NEW a \in Adders, AdderStep(a) PROVE NoLostWakeup'
  <2>1. CASE AddLock(a)
    BY <1>2, <2>1 DEF AddLock, Waiting, Awake, OweNotify
  <2>2. CASE AddPush(a)
    <3>1. /\ Waiting' = Waiting /\ Awake' = Awake
          /\ OweNotify' = OweNotify \cup {a} /\ a \notin OweNotify
      BY <2>2 DEF AddPush, Waiting, Awake, OweNotify
    <3>2. Cardinality(OweNotify') = Cardinality(OweNotify) + 1
      BY <1>1, <3>1, Joins
    <3>3. Len(myQueue') = Len(myQueue) + 1 /\ Len(myQueue) \in Nat
      BY <2>2 DEF AddPush
    <3> QED BY <1>1, <3>1, <3>2, <3>3 DEF NoLostWakeup
  <2>3. CASE AddUnlock(a)
    BY <1>2, <2>3 DEF AddUnlock, Waiting, Awake, OweNotify
  <2>4. CASE AddNotify(a)
    <3>1. a \in OweNotify /\ UNCHANGED myQueue /\ Len(myQueue) \in Nat
      BY <2>4 DEF AddNotify, OweNotify
    <3>2. CASE Waiting = {} /\ pc' = [pc EXCEPT ![a] = "done"]
      BY <3>2 DEF Waiting, NoLostWakeup
    <3>3. ASSUME NEW g \in Waiting, pc' = [pc EXCEPT ![a] = "done", ![g] = "relock"]
          PROVE  NoLostWakeup'
      <4>1. /\ OweNotify' = OweNotify \ {a}
            /\ Awake' = Awake \cup {g} /\ g \notin Awake
        BY <3>1, <3>3 DEF Waiting, Awake, OweNotify
      <4>2. /\ Cardinality(OweNotify') = Cardinality(OweNotify) - 1
            /\ Cardinality(Awake') = Cardinality(Awake) + 1
        BY <1>1, <3>1, <4>1, Joins, Leaves
      <4>3. Waiting # {}
        BY <3>3
      <4> QED BY <1>1, <3>1, <4>2, <4>3 DEF NoLostWakeup
    <3> QED BY <2>4, <3>2, <3>3 DEF AddNotify
  <2> QED BY <1>4, <2>1, <2>2, <2>3, <2>4 DEF AdderStep
<1>5. ASSUME NEW g \in Getters, GetterStep(g) \/ SpuriousWake(g)
      PROVE  NoLostWakeup'
  <2>1. CASE GetLock(g)
    BY <1>2, <2>1 DEF GetLock, Waiting, Awake, OweNotify
  <2>2. CASE GetBlock(g)
    <3>1. Len(myQueue') = 0
      BY <2>2 DEF GetBlock
    <3>2. IsFiniteSet(Awake') /\ IsFiniteSet(OweNotify')
      BY FS_Subset DEF Awake, OweNotify
    <3>3. Cardinality(Awake') \in Nat /\ Cardinality(OweNotify') \in Nat
      BY <3>2, FS_CardinalityType
    <3> QED BY <3>1, <3>3 DEF NoLostWakeup
  <2>3. CASE GetReady(g)
    BY <1>2, <2>3 DEF GetReady, Waiting, Awake, OweNotify
  <2>4. CASE SpuriousWake(g)
    <3>1. /\ Awake' = Awake \cup {g} /\ g \notin Awake
          /\ OweNotify' = OweNotify /\ UNCHANGED myQueue /\ Len(myQueue) \in Nat
          /\ Waiting # {}
      BY <2>4 DEF SpuriousWake, Waiting, Awake, OweNotify
    <3>2. Cardinality(Awake') = Cardinality(Awake) + 1
      BY <1>1, <3>1, Joins
    <3> QED BY <1>1, <3>1, <3>2 DEF NoLostWakeup
  <2>5. CASE GetRelock(g)
    BY <1>2, <2>5 DEF GetRelock, Waiting, Awake, OweNotify
  <2>6. CASE GetTake(g)
    <3>1. /\ Waiting' = Waiting /\ OweNotify' = OweNotify
          /\ Awake' = Awake \ {g} /\ g \in Awake
      BY <2>6 DEF GetTake, Waiting, Awake, OweNotify
    <3>2. Cardinality(Awake') = Cardinality(Awake) - 1
      BY <1>1, <3>1, Leaves
    <3>3. Len(myQueue') = Len(myQueue) - 1 /\ Len(myQueue) \in Nat
      BY <2>6 DEF GetTake, TakeFindsElement
    <3> QED BY <1>1, <3>1, <3>2, <3>3 DEF NoLostWakeup
  <2>7. CASE GetUnlock(g)
    BY <1>2, <2>7 DEF GetUnlock, Waiting, Awake, OweNotify
  <2> QED BY <1>5, <2>1, <2>2, <2>3, <2>4, <2>5, <2>6, <2>7 DEF GetterStep
<1>6. CASE Joined
  BY <1>2, <1>6 DEF Joined, vars, Waiting, Awake, OweNotify
<1> QED BY <1>3, <1>4, <1>5, <1>6 DEF Next

-----------------------------------------------------------------------------
(* The invariant and what follows from it *)

LEMMA InitInv == Init => Inv
<1> SUFFICES ASSUME Init PROVE Inv
  OBVIOUS
<1>1. TypeOK
  BY ThreadsAssumption, SpuriousAssumption DEF Init, TypeOK, Threads, AdderPC, GetterPC
<1>2. Waiting = {}
  BY ThreadsAssumption DEF Init, Waiting, Threads
<1>3. LockDiscipline /\ TakeFindsElement /\ GotWhenRead
  BY ThreadsAssumption
  DEF Init, LockDiscipline, Critical, TakeFindsElement, GotWhenRead, Threads
<1> QED BY <1>1, <1>2, <1>3 DEF Inv, NoLostWakeup

LEMMA InvStep == ASSUME Inv, [Next]_vars PROVE Inv'
  BY TypeStep, LockStep, TakeStep, WakeStep, GotStep DEF Inv

\* Inv holds in every reachable state.
THEOREM Invariance == Safe => []Inv
  BY InitInv, InvStep, PTL DEF Safe

\* The variables keep their types; in particular what get() read is an element.
THEOREM TypeCorrect == Safe => []TypeOK
  BY Invariance, PTL DEF Inv

\* Only the owner of monitMutex is inside the guard or past the predicate.
THEOREM MutualExclusion == Safe => []LockDiscipline
  BY Invariance, PTL DEF Inv

\* get() never calls front() and pop() on an empty queue.
THEOREM NeverPopsEmpty == Safe => []TakeFindsElement
  BY Invariance, PTL DEF Inv

\* While a getter is blocked, every element in the queue is spoken for.
THEOREM WakeupsSuffice == Safe => []NoLostWakeup
  BY Invariance, PTL DEF Inv

-----------------------------------------------------------------------------
(* Refinement: AddPush is Put, GetTake is Take, all else stutters *)

LEMMA RefineInit == Init => Abstract!Init
  BY ThreadsAssumption DEF Init, Abstract!Init, Threads

LEMMA RefineStep == ASSUME Inv, [Next]_vars PROVE [Abstract!Next]_(Abstract!qvars)
<1> USE ThreadsAssumption DEF Inv, TypeOK, Threads, Goto, AdderPC, GetterPC
<1> DEFINE put == {a \in Adders : pc[a] \in {"unlock", "notify", "done"}}
<1>1. ASSUME UNCHANGED <<myQueue, got>>, put' = put
      PROVE  UNCHANGED Abstract!qvars
  BY <1>1 DEF Abstract!qvars
<1>2. CASE UNCHANGED vars
  BY <1>1, <1>2 DEF vars
<1>3. ASSUME NEW a \in Adders, AdderStep(a)
      PROVE  Abstract!Next \/ UNCHANGED Abstract!qvars
  <2>1. CASE AddLock(a) BY <1>1, <2>1 DEF AddLock
  <2>2. CASE AddPush(a)
    <3>1. put' = put \cup {a} /\ a \notin put
      BY <2>2 DEF AddPush
    <3>2. Abstract!Put(a)
      BY <2>2, <3>1 DEF AddPush, Abstract!Put
    <3> QED BY <3>2 DEF Abstract!Next
  <2>3. CASE AddUnlock(a) BY <1>1, <2>3 DEF AddUnlock
  <2>4. CASE AddNotify(a) BY <1>1, <2>4 DEF AddNotify, Waiting
  <2> QED BY <1>3, <2>1, <2>2, <2>3, <2>4 DEF AdderStep
<1>4. ASSUME NEW g \in Getters, GetterStep(g) \/ SpuriousWake(g)
      PROVE  Abstract!Next \/ UNCHANGED Abstract!qvars
  <2>1. CASE GetLock(g) BY <1>1, <2>1 DEF GetLock
  <2>2. CASE GetBlock(g) BY <1>1, <2>2 DEF GetBlock
  <2>3. CASE GetReady(g) BY <1>1, <2>3 DEF GetReady
  <2>4. CASE SpuriousWake(g) BY <1>1, <2>4 DEF SpuriousWake
  <2>5. CASE GetRelock(g) BY <1>1, <2>5 DEF GetRelock
  <2>6. CASE GetTake(g)
    <3>1. put' = put
      BY <2>6 DEF GetTake
    <3>2. myQueue # <<>> /\ got[g] = NoValue
      BY <2>6 DEF GetTake, TakeFindsElement, GotWhenRead
    <3>3. Abstract!Take(g)
      BY <2>6, <3>1, <3>2 DEF GetTake, Abstract!Take
    <3> QED BY <3>3 DEF Abstract!Next
  <2>7. CASE GetUnlock(g) BY <1>1, <2>7 DEF GetUnlock
  <2> QED BY <1>4, <2>1, <2>2, <2>3, <2>4, <2>5, <2>6, <2>7 DEF GetterStep
<1>5. CASE Joined
  BY <1>1, <1>5 DEF Joined, vars
<1> QED BY <1>2, <1>3, <1>4, <1>5 DEF Next

\* Every behaviour of the monitor queue is a behaviour of the FIFO queue: the
\* safety part of ImplementsQueue.  Its fairness part is checked by TLC.
THEOREM Refinement == Safe => Abstract!Safe
<1>1. Inv /\ [Next]_vars => [Abstract!Next]_(Abstract!qvars)
  BY RefineStep
<1> QED BY RefineInit, Invariance, <1>1, PTL DEF Safe, Abstract!Safe

-----------------------------------------------------------------------------
(* What the FIFO queue promises its callers, under the refinement mapping *)

\* The elements that have entered the queue.
Added == {a \in Adders : pc[a] \in {"unlock", "notify", "done"}}

\* NothingLost, with a name for these elements.
AllThere == Added = {myQueue[i] : i \in 1..Len(myQueue)}
                    \cup {got[g] : g \in {h \in Getters : got[h] # NoValue}}

\* The inductive invariant of the FIFO queue.  AllThere is what makes NeverTwice
\* inductive: an adder that has not put yet is nowhere, so putting it cannot
\* duplicate it.
FifoInv == Abstract!TypeOK /\ Abstract!NeverTwice /\ AllThere

LEMMA FifoInit == Abstract!Init => FifoInv
  BY DEF Abstract!Init, FifoInv, Abstract!TypeOK, Abstract!NeverTwice, AllThere, Added

LEMMA FifoPut == ASSUME NEW a \in Adders, FifoInv, Abstract!Put(a)
                PROVE  FifoInv'
<1> USE ThreadsAssumption DEF FifoInv
<1>1. Abstract!TypeOK'
  BY DEF Abstract!TypeOK, Abstract!Put
<1>2. /\ myQueue \in Seq(Adders)
      /\ myQueue' = Append(myQueue, a)
      /\ Len(myQueue') = Len(myQueue) + 1 /\ Len(myQueue) \in Nat
      /\ myQueue'[Len(myQueue) + 1] = a
      /\ \A i \in 1..Len(myQueue) : myQueue'[i] = myQueue[i]
      /\ a \notin Added /\ Added' = Added \cup {a} /\ got' = got
  BY DEF Abstract!TypeOK, Abstract!Put, Added
<1>3. /\ \A i \in 1..Len(myQueue) : myQueue[i] # a
      /\ \A g \in Getters : got[g] # a
  BY <1>2 DEF AllThere
<1>4. Abstract!NeverTwice'
  BY <1>2, <1>3 DEF Abstract!NeverTwice
<1>5. {myQueue'[i] : i \in 1..Len(myQueue')} = {myQueue[i] : i \in 1..Len(myQueue)} \cup {a}
  BY <1>2
<1>6. AllThere'
  BY <1>2, <1>5 DEF AllThere
<1> QED BY <1>1, <1>4, <1>6

LEMMA FifoTake == ASSUME NEW g \in Getters, FifoInv, Abstract!Take(g)
                 PROVE  FifoInv'
<1> USE ThreadsAssumption DEF FifoInv
<1> DEFINE e == myQueue[1]
<1>1. /\ myQueue \in Seq(Adders) /\ Len(myQueue) \in Nat \ {0}
      /\ myQueue' = Tail(myQueue) /\ Len(myQueue') = Len(myQueue) - 1
      /\ \A i \in 1..Len(myQueue') : myQueue'[i] = myQueue[i + 1]
      /\ e \in Adders
      /\ got' = [got EXCEPT ![g] = e] /\ got[g] = NoValue
      /\ Added' = Added
  BY DEF Abstract!TypeOK, Abstract!Take, Added
<1>2. got \in [Getters -> Adders \cup {NoValue}]
  BY DEF Abstract!TypeOK
<1>3. Abstract!TypeOK'
  BY <1>1, <1>2 DEF Abstract!TypeOK
<1>4. Abstract!NeverTwice'
  <2>1. ASSUME NEW i \in 1..Len(myQueue'), NEW j \in 1..Len(myQueue'),
               myQueue'[i] = myQueue'[j]
        PROVE  i = j
    <3>1. i + 1 \in 1..Len(myQueue) /\ j + 1 \in 1..Len(myQueue)
      BY <1>1
    <3> QED BY <1>1, <2>1, <3>1 DEF Abstract!NeverTwice
  <2>2. ASSUME NEW h \in Getters, NEW i \in 1..Len(myQueue')
        PROVE  got'[h] # myQueue'[i]
    <3>1. i + 1 \in 1..Len(myQueue) /\ 1 \in 1..Len(myQueue) /\ i + 1 # 1
      BY <1>1
    <3>2. myQueue'[i] = myQueue[i + 1] /\ myQueue[i + 1] # myQueue[1]
      BY <1>1, <3>1 DEF Abstract!NeverTwice
    <3> QED BY <1>1, <1>2, <3>1, <3>2 DEF Abstract!NeverTwice
  <2>3. ASSUME NEW h \in Getters, NEW k \in Getters,
               got'[h] = got'[k], got'[h] # NoValue
        PROVE  h = k
    <3>1. \A f \in Getters : got[f] # e
      BY <1>1 DEF Abstract!NeverTwice
    <3> QED BY <1>1, <1>2, <2>3, <3>1 DEF Abstract!NeverTwice
  <2> QED BY <2>1, <2>2, <2>3 DEF Abstract!NeverTwice
<1>5. AllThere'
  <2> DEFINE In == {myQueue[i] : i \in 1..Len(myQueue)}
             Out == {got[h] : h \in {f \in Getters : got[f] # NoValue}}
  <2>1. In = {e} \cup {myQueue'[i] : i \in 1..Len(myQueue')}
    <3>1. ASSUME NEW i \in 1..Len(myQueue)
          PROVE  myQueue[i] = e \/ \E j \in 1..Len(myQueue') : myQueue[i] = myQueue'[j]
      <4>1. CASE i = 1 BY <4>1
      <4>2. CASE i # 1
        <5>1. i - 1 \in 1..Len(myQueue') /\ myQueue'[i - 1] = myQueue[i]
          BY <1>1, <4>2
        <5> QED BY <5>1
      <4> QED BY <4>1, <4>2
    <3>2. \A j \in 1..Len(myQueue') : j + 1 \in 1..Len(myQueue)
      BY <1>1
    <3>3. 1 \in 1..Len(myQueue)
      BY <1>1
    <3> QED BY <1>1, <3>1, <3>2, <3>3
  <2>2. Out \cup {e} = {got'[h] : h \in {f \in Getters : got'[f] # NoValue}}
    BY <1>1, <1>2
  <2>3. Added = In \cup Out
    BY DEF AllThere
  <2> QED BY <1>1, <2>1, <2>2, <2>3 DEF AllThere
<1> QED BY <1>3, <1>4, <1>5

LEMMA FifoStep == ASSUME Inv, FifoInv, [Next]_vars PROVE FifoInv'
<1>1. CASE UNCHANGED Abstract!qvars
  BY <1>1 DEF FifoInv, Abstract!qvars, Abstract!TypeOK, Abstract!NeverTwice, AllThere, Added
<1> QED
  BY <1>1, RefineStep, FifoPut, FifoTake DEF Abstract!Next

\* No two get() calls return the same element, none returns one that is still
\* queued, and none is dropped: what the FIFO queue promises holds of this code.
THEOREM DeliversOnce == Safe => []DeliveredOnce
<1>1. Init => FifoInv
  BY RefineInit, FifoInit
<1>2. Inv /\ FifoInv /\ [Next]_vars => FifoInv'
  BY FifoStep
<1>3. FifoInv => DeliveredOnce
  BY DEF FifoInv, DeliveredOnce, AllThere, Added, Abstract!NothingLost
<1> QED BY <1>1, <1>2, <1>3, Invariance, PTL DEF Safe

-----------------------------------------------------------------------------
(* The program that sums what goes through the queue *)

\* Every number handed out so far was drawn by one adder, before it called add().
Numbered == /\ sharedCounter \in Nat
            /\ number \in [Adders -> Nat]
            /\ \A a \in Adders : number[a] <= sharedCounter
            /\ \A a, b \in Adders : number[a] = number[b] /\ number[a] # 0 => a = b
            /\ \A k \in 1..sharedCounter : \E a \in Adders : number[a] = k
            /\ \A a \in Adders : pc[a] # "add" => number[a] # 0

\* A getter past front() has read an element.
ReadWhenTaken == \A g \in Getters : pc[g] \in {"release", "done"} => got[g] \in Adders

\* The numbers in the sum, drawn as columns of that many cells.
Cells == {c \in summed \X Nat : c[2] \in 1..number[got[c[1]]]}

SumCounted == /\ summed \subseteq {g \in Getters : pc[g] = "done"}
              /\ IsFiniteSet(Cells)
              /\ sharedSum = Cardinality(Cells)

SumInv == Numbered /\ ReadWhenTaken /\ SumCounted

\* A one-to-one function between two sets, in terms of its arguments.
LEMMA OneToOne ==
    ASSUME NEW S, IsFiniteSet(S), NEW T, NEW f \in [S -> T],
           \A x, y \in S : f[x] = f[y] => x = y,
           \A t \in T : \E x \in S : f[x] = t
    PROVE  IsFiniteSet(T) /\ Cardinality(T) = Cardinality(S)
<1>1. f \in Bijection(S, T)
  BY DEF Bijection, Injection, Surjection, IsInjective
<1> QED
  BY <1>1, FS_Bijection DEF ExistsBijection

\* Columns of 1, ..., n cells fill one half of a rectangle.
Below(n) == {c \in (1..n) \X (1..(n + 1)) : c[2] <= c[1]}

LEMMA HalfRectangle ==
    ASSUME NEW n \in Nat
    PROVE  IsFiniteSet(Below(n)) /\ Cardinality(Below(n)) = SumTo(n)
<1> DEFINE All   == (1..n) \X (1..(n + 1))
           Above == All \ Below(n)
<1>1. IsFiniteSet(All) /\ Cardinality(All) = n * (n + 1)
  <2>1. /\ IsFiniteSet(1..n) /\ Cardinality(1..n) = n
        /\ IsFiniteSet(1..(n + 1)) /\ Cardinality(1..(n + 1)) = n + 1
    BY FS_Interval
  <2>2. IsFiniteSet(All) /\ Cardinality(All) = Cardinality(1..n) * Cardinality(1..(n + 1))
    BY <2>1, FS_Product, Zenon
  <2> QED
    BY <2>1, <2>2, Zenon
<1>2. IsFiniteSet(Below(n)) /\ Cardinality(Below(n)) \in Nat
  <2>1. IsFiniteSet(Below(n))
    BY <1>1, FS_Subset DEF Below
  <2> QED
    BY <2>1, FS_CardinalityType
<1>3. IsFiniteSet(Above) /\ Cardinality(Above) = Cardinality(Below(n))
  <2>1. PICK f : f = [c \in Below(n) |-> <<(n + 1) - c[1], (n + 2) - c[2]>>]
    OBVIOUS
  <2>2. ASSUME NEW c \in Below(n) PROVE f[c] \in Above
    <3>1. f[c] = <<(n + 1) - c[1], (n + 2) - c[2]>>
      BY <2>1
    <3>2. c[1] \in 1..n /\ c[2] \in 1..(n + 1) /\ c[2] <= c[1]
      BY DEF Below
    <3>3. /\ (n + 1) - c[1] \in 1..n /\ (n + 2) - c[2] \in 1..(n + 1)
          /\ ~((n + 2) - c[2] <= (n + 1) - c[1])
      BY <3>2
    <3> QED
      BY <3>1, <3>3 DEF Below
  <2>3. ASSUME NEW c \in Below(n), NEW d \in Below(n), f[c] = f[d] PROVE c = d
    <3>1. (n + 1) - c[1] = (n + 1) - d[1] /\ (n + 2) - c[2] = (n + 2) - d[2]
      BY <2>1, <2>3
    <3>2. c[1] = d[1] /\ c[2] = d[2]
      BY <3>1 DEF Below
    <3> QED
      BY <3>2 DEF Below
  <2>4. ASSUME NEW d \in Above PROVE \E c \in Below(n) : f[c] = d
    <3>1. d \in (1..n) \X (1..(n + 1)) /\ d[1] \in 1..n /\ d[2] \in 1..(n + 1) /\ ~(d[2] <= d[1])
      BY DEF Below
    <3>2. PICK c : c = <<(n + 1) - d[1], (n + 2) - d[2]>>
      OBVIOUS
    <3>3. /\ (n + 1) - d[1] \in 1..n /\ (n + 2) - d[2] \in 1..(n + 1)
          /\ (n + 2) - d[2] <= (n + 1) - d[1]
      BY <3>1
    <3>4. c \in Below(n)
      BY <3>2, <3>3 DEF Below
    <3>5. (n + 1) - c[1] = d[1] /\ (n + 2) - c[2] = d[2]
      BY <3>1, <3>2
    <3>6. f[c] = <<d[1], d[2]>>
      BY <2>1, <3>4, <3>5
    <3> QED
      BY <3>1, <3>4, <3>6
  <2>5. f \in [Below(n) -> Above]
    BY <2>1, <2>2
  <2> HIDE DEF Above
  <2> QED
    BY <1>2, <2>3, <2>4, <2>5, OneToOne
<1>4. n * (n + 1) = Cardinality(Below(n)) + Cardinality(Above)
  <2>1. Below(n) \subseteq All /\ All \cap Below(n) = Below(n)
    BY DEF Below
  <2> HIDE DEF All
  <2>2. Cardinality(Above) = Cardinality(All) - Cardinality(All \cap Below(n))
    BY <1>1, FS_Difference, Zenon
  <2>3. Cardinality(All) \in Nat
    BY <1>1, FS_CardinalityType
  <2>4. Cardinality(Above) = Cardinality(All) - Cardinality(Below(n))
    BY <2>1, <2>2
  <2> HIDE DEF Above
  <2>5. Cardinality(All) = Cardinality(Below(n)) + Cardinality(Above)
    BY <1>2, <2>3, <2>4
  <2> QED
    BY <1>1, <2>5
<1> HIDE DEF All, Above
<1>5. PICK m \in Nat : m = Cardinality(Below(n))
  BY <1>2
<1>6. n * (n + 1) = 2 * m
  BY <1>3, <1>4, <1>5
<1>7. (2 * m) \div 2 = m
  OBVIOUS
<1> QED
  BY <1>2, <1>5, <1>6, <1>7 DEF SumTo

\* One more removed number is one more column.
LEMMA ColumnAdded ==
    ASSUME NEW x, NEW n \in Nat,
           NEW C, IsFiniteSet(C), \A c \in C : c[1] # x
    PROVE  /\ IsFiniteSet(C \cup ({x} \X (1..n)))
           /\ Cardinality(C \cup ({x} \X (1..n))) = Cardinality(C) + n
<1> DEFINE K == {x} \X (1..n)
<1>1. IsFiniteSet(K) /\ Cardinality(K) = n
  <2>1. IsFiniteSet({x}) /\ Cardinality({x}) = 1
    BY FS_Singleton, Zenon
  <2>2. IsFiniteSet(1..n) /\ Cardinality(1..n) = n
    BY FS_Interval
  <2>3. IsFiniteSet(K) /\ Cardinality(K) = Cardinality({x}) * Cardinality(1..n)
    BY <2>1, <2>2, FS_Product, Zenon
  <2>4. IsFiniteSet(K) /\ Cardinality(K) = 1 * n
    BY <2>1, <2>2, <2>3, Zenon
  <2> QED
    BY <2>4
<1>2. C \cap K = {}
  OBVIOUS
<1> HIDE DEF K
<1>3. Cardinality(C \cap K) = 0
  BY <1>2, FS_EmptySet
<1>4. Cardinality(C) \in Nat
  BY FS_CardinalityType
<1>5. /\ IsFiniteSet(C \cup K)
      /\ Cardinality(C \cup K) = Cardinality(C) + Cardinality(K) - Cardinality(C \cap K)
  BY <1>1, FS_Union, Zenon
<1> QED
  BY <1>1, <1>3, <1>4, <1>5 DEF K

LEMMA SumStart == SumInit => Inv /\ FifoInv /\ SumInv
<1> SUFFICES ASSUME SumInit PROVE Inv /\ FifoInv /\ SumInv
  OBVIOUS
<1>1. Inv /\ FifoInv
  BY InitInv, RefineInit, FifoInit DEF SumInit
<1>2. Numbered
  BY ThreadsAssumption DEF SumInit, Init, Numbered, Threads
<1>3. ReadWhenTaken
  BY ThreadsAssumption DEF SumInit, Init, ReadWhenTaken, Threads
<1>4. SumCounted
  <2>1. Cells = {} /\ summed = {} /\ sharedSum = 0
    BY DEF SumInit, Cells
  <2> QED
    BY <2>1, FS_EmptySet DEF SumCounted
<1> QED
  BY <1>1, <1>2, <1>3, <1>4 DEF SumInv

LEMMA SumStepIsStep == ASSUME [SumNext]_svars PROVE [Next]_vars
BY DEF SumNext, svars, Draw, addNumber, removeNumber, AddToSum, Next

\* The program does nothing to its queue but what the threads of ThreadSafeQueue do:
\* all that is proved of them above holds of this program.
THEOREM SumUsesTheQueue == SumSpec => Safe
<1>1. SumInit => Init
  BY DEF SumInit
<1> QED
  BY <1>1, SumStepIsStep, PTL DEF SumSpec, Safe

LEMMA TakenStep == ASSUME TypeOK, TakeFindsElement, ReadWhenTaken, [Next]_vars PROVE ReadWhenTaken'
<1> USE ThreadsAssumption DEF TypeOK, ReadWhenTaken, Threads, Goto
<1>1. ASSUME NEW g \in Getters, GetTake(g) PROVE ReadWhenTaken'
  <2>1. myQueue # <<>>
    BY <1>1 DEF GetTake, TakeFindsElement
  <2>2. Head(myQueue) \in Adders
    BY <2>1
  <2> QED
    BY <1>1, <2>2 DEF GetTake
<1> QED
  BY <1>1 DEF Next, AdderStep, GetterStep, Joined, vars, Waiting, AddLock, AddPush, AddUnlock,
     AddNotify, GetLock, GetBlock, GetReady, SpuriousWake, GetRelock, GetUnlock

\* What a getter has read was pushed, so its adder has drawn its number.
LEMMA NumberRead ==
    ASSUME TypeOK, FifoInv, SumInv, NEW g \in Getters, pc[g] = "done"
    PROVE  /\ got[g] \in Adders /\ got[g] \in Added
           /\ pc[got[g]] # "add" /\ number[got[g]] \in 1..sharedCounter
<1>1. got[g] \in Adders /\ got[g] # NoValue
  BY ThreadsAssumption DEF SumInv, ReadWhenTaken
<1>2. got[g] \in Added
  BY <1>1 DEF FifoInv, AllThere
<1>3. pc[got[g]] # "add"
  BY <1>2 DEF Added
<1> QED
  BY <1>1, <1>2, <1>3 DEF SumInv, Numbered

LEMMA CellsStay ==
    ASSUME TypeOK, FifoInv, SumInv, summed' = summed,
           \A g \in summed : got'[g] = got[g] /\ number'[got[g]] = number[got[g]]
    PROVE  Cells' = Cells
<1>1. Cells' = {c \in summed' \X Nat : c[2] \in 1..number'[got'[c[1]]]}
  BY DEF Cells
<1>2. \A c \in summed \X Nat : number'[got'[c[1]]] = number[got[c[1]]]
  OBVIOUS
<1> QED
  BY <1>1, <1>2 DEF Cells

LEMMA SumKeeps ==
    ASSUME TypeOK, TakeFindsElement, FifoInv, SumInv, [SumNext]_svars
    PROVE  SumInv'
<1>1. ReadWhenTaken'
  BY SumStepIsStep, TakenStep DEF SumInv
<1>2. ASSUME NEW a \in Adders, Draw(a) PROVE SumInv'
  <2>1. /\ number' = [number EXCEPT ![a] = sharedCounter + 1] /\ sharedCounter' = sharedCounter + 1
        /\ number[a] = 0 /\ pc[a] = "add" /\ UNCHANGED <<pc, got, sharedSum, summed>>
    BY <1>2 DEF Draw, vars
  <2>2. Numbered'
    <3>1. /\ sharedCounter \in Nat /\ number \in [Adders -> Nat]
          /\ \A b \in Adders : number[b] <= sharedCounter
          /\ \A b \in Adders : b # a => number'[b] = number[b]
          /\ number'[a] = sharedCounter + 1
      BY <2>1 DEF SumInv, Numbered
    <3>2. \A b, c \in Adders : number'[b] = number'[c] /\ number'[b] # 0 => b = c
      BY <3>1 DEF SumInv, Numbered
    <3>3. ASSUME NEW k \in 1..(sharedCounter + 1) PROVE \E b \in Adders : number'[b] = k
      <4>1. CASE k = sharedCounter + 1
        BY <3>1, <4>1
      <4>2. CASE k # sharedCounter + 1
        <5>1. k \in 1..sharedCounter
          BY <3>1, <4>2
        <5>2. PICK b \in Adders : number[b] = k
          BY <5>1 DEF SumInv, Numbered
        <5>3. b # a
          BY <2>1, <5>1, <5>2
        <5> QED
          BY <3>1, <5>2, <5>3
      <4> QED
        BY <4>1, <4>2
    <3>4. \A b \in Adders : pc'[b] # "add" => number'[b] # 0
      BY <2>1, <3>1 DEF SumInv, Numbered
    <3>5. /\ sharedCounter' \in Nat /\ number' \in [Adders -> Nat]
          /\ \A b \in Adders : number'[b] <= sharedCounter'
      BY <2>1, <3>1
    <3> QED
      BY <2>1, <3>2, <3>3, <3>4, <3>5 DEF Numbered
  <2>3. Cells' = Cells
    <3>1. ASSUME NEW g \in summed PROVE got'[g] = got[g] /\ number'[got[g]] = number[got[g]]
      <4>1. g \in Getters /\ pc[g] = "done"
        BY DEF SumInv, SumCounted
      <4>2. got[g] \in Adders /\ pc[got[g]] # "add"
        BY <4>1, NumberRead
      <4> QED
        BY <2>1, <4>2 DEF SumInv, Numbered
    <3> QED
      BY <2>1, <3>1, CellsStay
  <2>4. SumCounted'
    BY <2>1, <2>3 DEF SumInv, SumCounted
  <2> QED
    BY <1>1, <2>2, <2>4 DEF SumInv
<1>3. ASSUME UNCHANGED <<sharedCounter, number, sharedSum, summed>>,
             \A a \in Adders : number[a] # 0 \/ pc'[a] = pc[a],
             \A g \in Getters : pc[g] = "done" => pc'[g] = "done" /\ got'[g] = got[g]
      PROVE  SumInv'
  <2>1. Numbered'
    BY <1>3 DEF SumInv, Numbered
  <2>2. \A g \in summed : g \in Getters /\ pc[g] = "done"
    BY DEF SumInv, SumCounted
  <2>3. Cells' = Cells
    BY <1>3, <2>2, CellsStay
  <2>4. SumCounted'
    BY <1>3, <2>3 DEF SumInv, SumCounted
  <2> QED
    BY <1>1, <2>1, <2>4 DEF SumInv
<1>4. ASSUME NEW a \in Adders, addNumber(a) PROVE SumInv'
  <2>1. /\ number[a] # 0 /\ UNCHANGED <<sharedCounter, number, sharedSum, summed>> /\ got' = got
        /\ AdderStep(a)
    BY <1>4 DEF addNumber, AdderStep, AddLock, AddPush, AddUnlock, AddNotify
  <2>2. /\ \A b \in Adders : b # a => pc'[b] = pc[b]
        /\ \A g \in Getters : pc[g] = "done" => pc'[g] = "done"
    BY <2>1, ThreadsAssumption DEF AdderStep, AddLock, AddPush, AddUnlock, AddNotify, Goto, Waiting,
       TypeOK, Threads
  <2> QED
    BY <1>3, <2>1, <2>2
<1>5. ASSUME NEW g \in Getters, removeNumber(g) PROVE SumInv'
  <2>1. /\ UNCHANGED <<sharedCounter, number, sharedSum, summed>>
        /\ GetterStep(g) \/ SpuriousWake(g)
    BY <1>5 DEF removeNumber
  <2>2. /\ \A a \in Adders : pc'[a] = pc[a]
        /\ \A h \in Getters : pc[h] = "done" => pc'[h] = "done" /\ got'[h] = got[h]
    BY <2>1, ThreadsAssumption DEF GetterStep, SpuriousWake, GetLock, GetBlock, GetReady, GetRelock,
       GetTake, GetUnlock, Goto, TypeOK, Threads
  <2> QED
    BY <1>3, <2>1, <2>2
<1>6. ASSUME NEW g \in Getters, AddToSum(g) PROVE SumInv'
  <2>1. /\ pc[g] = "done" /\ g \notin summed /\ summed' = summed \cup {g}
        /\ sharedSum' = sharedSum + number[got[g]]
        /\ UNCHANGED <<pc, got, sharedCounter, number>>
    BY <1>6 DEF AddToSum, vars
  <2>2. Numbered'
    BY <2>1 DEF SumInv, Numbered
  <2>3. number[got[g]] \in Nat
    BY <2>1, NumberRead DEF SumInv, Numbered
  <2>4. Cells' = Cells \cup ({g} \X (1..number[got[g]]))
    <3>1. Cells' = {c \in (summed \cup {g}) \X Nat : c[2] \in 1..number[got[c[1]]]}
      BY <2>1 DEF Cells
    <3> QED
      BY <2>3, <3>1 DEF Cells
  <2>5. IsFiniteSet(Cells) /\ \A c \in Cells : c[1] # g
    BY <2>1 DEF SumInv, SumCounted, Cells
  <2>6. IsFiniteSet(Cells') /\ Cardinality(Cells') = Cardinality(Cells) + number[got[g]]
    BY <2>3, <2>4, <2>5, ColumnAdded
  <2>7. SumCounted'
    BY <2>1, <2>6 DEF SumInv, SumCounted
  <2> QED
    BY <1>1, <2>2, <2>7 DEF SumInv
<1>7. CASE UNCHANGED svars
  BY <1>3, <1>7 DEF svars, vars
<1> QED
  BY <1>2, <1>4, <1>5, <1>6, <1>7 DEF SumNext

\* When all threads have ended every number was drawn, read and added once.
LEMMA AllSummed ==
    ASSUME Cardinality(Getters) = Cardinality(Adders), TypeOK, FifoInv, SumInv, AllJoined
    PROVE  sharedSum = SumTo(Cardinality(Adders))
<1> DEFINE n == Cardinality(Adders)
<1>1. n \in Nat /\ IsFiniteSet(Adders) /\ IsFiniteSet(Getters)
  BY ThreadsAssumption, FS_CardinalityType
<1>2. summed = Getters /\ \A a \in Adders : number[a] \in 1..sharedCounter
  <2>1. summed = Getters /\ \A a \in Adders : pc[a] = "done"
    BY DEF AllJoined
  <2> QED
    BY <2>1 DEF SumInv, Numbered
<1>3. sharedCounter = n
  <2>1. sharedCounter \in Nat
    BY DEF SumInv, Numbered
  <2>2. number \in [Adders -> 1..sharedCounter]
    BY <1>2 DEF SumInv, Numbered
  <2>3. /\ \A a, b \in Adders : number[a] = number[b] => a = b
        /\ \A k \in 1..sharedCounter : \E a \in Adders : number[a] = k
    BY <1>2, <2>1 DEF SumInv, Numbered
  <2>4. Cardinality(1..sharedCounter) = n
    BY <1>1, <2>2, <2>3, OneToOne
  <2> QED
    BY <2>1, <2>4, FS_Interval
<1> HIDE DEF n
<1>4. PICK read : read = [g \in Getters |-> number[got[g]]]
  OBVIOUS
<1>5. \A g \in Getters : /\ pc[g] = "done" /\ got[g] \in Adders
                       /\ read[g] = number[got[g]] /\ read[g] \in 1..n
  <2>1. \A g \in Getters : pc[g] = "done"
    BY <1>2 DEF SumInv, SumCounted
  <2> QED
    BY <1>3, <1>4, <2>1, NumberRead
<1>6. \A g, h \in Getters : read[g] = read[h] => g = h
  <2> SUFFICES ASSUME NEW g \in Getters, NEW h \in Getters, read[g] = read[h] PROVE g = h
    OBVIOUS
  <2>1. /\ got[g] \in Adders /\ got[h] \in Adders
        /\ number[got[g]] = number[got[h]] /\ number[got[g]] # 0
    BY <1>1, <1>5
  <2>2. got[g] = got[h] /\ got[g] # NoValue
    BY <2>1, ThreadsAssumption DEF SumInv, Numbered
  <2> QED
    BY <2>2 DEF FifoInv, Abstract!NeverTwice
<1>7. \A k \in 1..n : \E g \in Getters : read[g] = k
  <2>1. read \in Injection(Getters, 1..n)
    BY <1>4, <1>5, <1>6 DEF Injection, IsInjective
  <2>2. IsFiniteSet(1..n) /\ Cardinality(1..n) = Cardinality(Getters)
    BY <1>1, FS_Interval DEF n
  <2>3. read \in Surjection(Getters, 1..n)
    BY <2>1, <2>2, FS_Injection
  <2> QED
    BY <2>3 DEF Surjection
<1>8. \A c : c \in Cells <=> c \in Getters \X Nat /\ c[2] \in 1..read[c[1]]
  BY <1>2, <1>5 DEF Cells
<1>9. PICK f : f = [c \in Cells |-> <<read[c[1]], c[2]>>]
  OBVIOUS
<1>10. f \in [Cells -> Below(n)]
  <2>1. ASSUME NEW c \in Cells PROVE <<read[c[1]], c[2]>> \in Below(n)
    <3>1. c[1] \in Getters /\ c[2] \in 1..read[c[1]] /\ read[c[1]] \in 1..n
      BY <1>5, <1>8
    <3>2. c[2] \in 1..(n + 1) /\ c[2] <= read[c[1]]
      BY <1>1, <3>1
    <3> QED
      BY <3>1, <3>2 DEF Below
  <2> QED
    BY <1>9, <2>1
<1>11. ASSUME NEW c \in Cells, NEW d \in Cells, f[c] = f[d] PROVE c = d
  <2>1. /\ c \in Getters \X Nat /\ d \in Getters \X Nat
        /\ read[c[1]] = read[d[1]] /\ c[2] = d[2]
    BY <1>8, <1>9, <1>11
  <2>2. c[1] = d[1]
    BY <1>6, <2>1
  <2> QED
    BY <2>1, <2>2
<1>12. ASSUME NEW d \in Below(n) PROVE \E c \in Cells : f[c] = d
  <2>1. d \in (1..n) \X (1..(n + 1)) /\ d[1] \in 1..n /\ d[2] \in 1..(n + 1) /\ d[2] <= d[1]
    BY DEF Below
  <2>2. PICK g \in Getters : read[g] = d[1]
    BY <1>7, <2>1
  <2>3. PICK c : c = <<g, d[2]>>
    OBVIOUS
  <2>4. c \in Cells
    <3>1. d[2] \in Nat /\ d[2] \in 1..read[g]
      BY <1>1, <2>1, <2>2
    <3> QED
      BY <1>8, <2>3, <3>1
  <2>5. f[c] = <<d[1], d[2]>>
    BY <1>9, <2>2, <2>3, <2>4
  <2> QED
    BY <2>1, <2>4, <2>5
<1>13. IsFiniteSet(Cells) /\ sharedSum = Cardinality(Cells)
  BY DEF SumInv, SumCounted
<1>14. Cardinality(Below(n)) = Cardinality(Cells)
  BY <1>10, <1>11, <1>12, <1>13, OneToOne
<1>15. Cardinality(Below(n)) = SumTo(n)
  BY <1>1, HalfRectangle
<1> QED
  BY <1>13, <1>14, <1>15 DEF n

\* The check of main() succeeds with any number of threads, if there are as many
\* removers as adders, as main() starts them.
THEOREM SumsAllNumbers == ASSUME Cardinality(Getters) = Cardinality(Adders)
                          PROVE  SumSpec => []SumOfAllNumbers
<1>1. SumInit => Inv /\ FifoInv /\ SumInv
  BY SumStart
<1>2. Inv /\ FifoInv /\ SumInv /\ [SumNext]_svars => Inv' /\ FifoInv' /\ SumInv'
  <2> SUFFICES ASSUME Inv, FifoInv, SumInv, [SumNext]_svars PROVE Inv' /\ FifoInv' /\ SumInv'
    OBVIOUS
  <2>1. [Next]_vars
    BY SumStepIsStep
  <2> QED
    BY <2>1, SumKeeps, InvStep, FifoStep DEF Inv
<1>3. Inv /\ FifoInv /\ SumInv => SumOfAllNumbers
  BY AllSummed DEF Inv, SumOfAllNumbers
<1> QED
  BY <1>1, <1>2, <1>3, PTL DEF SumSpec
=============================================================================
