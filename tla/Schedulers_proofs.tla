------------------------- MODULE Schedulers_proofs -------------------------
(***************************************************************************)
(* Proofs about the single-threaded schedulers where they are put          *)
(* together: in whichever program runs every frame has one owner, what the *)
(* scheduler takes from its container can be resumed, the coroutines run   *)
(* in the order the container promises, none wakes up before its time, and *)
(* nested functions are a call stack.  What is proved about the owning     *)
(* schedulers in a module of their own holds here; nested functions, the   *)
(* list and the queue of times are dealt with below.                       *)
(***************************************************************************)
EXTENDS Schedulers, FiniteSetTheorems, SequenceTheorems, WellFoundedInduction, TLAPS

-----------------------------------------------------------------------------
(* Sequences in which nothing occurs twice *)

\* Taking the first element of a list away, and adding one at its end.
LEMMA TailOfDistinct ==
    ASSUME NEW S, NEW s \in Seq(S), s # <<>>, \A i, k \in 1..Len(s) : s[i] = s[k] => i = k
    PROVE  /\ Head(s) \in S /\ Head(s) = s[1] /\ 1 \in 1..Len(s)
           /\ Tail(s) \in Seq(S) /\ Len(Tail(s)) = Len(s) - 1
           /\ \A i, k \in 1..Len(Tail(s)) : Tail(s)[i] = Tail(s)[k] => i = k
           /\ {Tail(s)[i] : i \in 1..Len(Tail(s))} = {s[i] : i \in 1..Len(s)} \ {Head(s)}
<1>1. /\ Len(s) \in Nat \ {0} /\ Head(s) = s[1] /\ s[1] \in S
      /\ Tail(s) \in Seq(S) /\ Len(Tail(s)) = Len(s) - 1
      /\ \A i \in 1..Len(Tail(s)) : Tail(s)[i] = s[i + 1]
  OBVIOUS
<1>2. \A i \in 1..Len(Tail(s)) : i + 1 \in 1..Len(s) /\ i + 1 # 1 /\ 1 \in 1..Len(s)
  BY <1>1
<1>3. \A i, k \in 1..Len(Tail(s)) : Tail(s)[i] = Tail(s)[k] => i = k
  BY <1>1, <1>2
<1>4. ASSUME NEW i \in 1..Len(s), s[i] # s[1]
      PROVE  i - 1 \in 1..Len(Tail(s)) /\ s[i] = Tail(s)[i - 1]
  <2>1. i # 1 /\ i \in Nat
    BY <1>4
  <2> QED
    BY <1>1, <2>1
<1>5. \A i \in 1..Len(Tail(s)) : Tail(s)[i] # s[1]
  BY <1>1, <1>2
<1>6. {Tail(s)[i] : i \in 1..Len(Tail(s))} = {s[i] : i \in 1..Len(s)} \ {s[1]}
  <2> DEFINE z == Tail(s)
  <2>1. /\ \A i \in 1..Len(z) : z[i] = s[i + 1] /\ i + 1 \in 1..Len(s) /\ z[i] # s[1]
        /\ \A i \in 1..Len(s) : s[i] # s[1] => i - 1 \in 1..Len(z) /\ s[i] = z[i - 1]
    BY <1>1, <1>2, <1>4, <1>5, Zenon
  <2> HIDE DEF z
  <2>2. ASSUME NEW i \in 1..Len(z) PROVE z[i] \in {s[k] : k \in 1..Len(s)} /\ z[i] # s[1]
    BY <2>1
  <2>3. ASSUME NEW i \in 1..Len(s), s[i] # s[1] PROVE s[i] \in {z[k] : k \in 1..Len(z)}
    BY <2>1, <2>3
  <2>4. {z[i] : i \in 1..Len(z)} = {s[i] : i \in 1..Len(s)} \ {s[1]}
    BY <2>2, <2>3
  <2> QED
    BY <2>4 DEF z
<1>7. 1 \in 1..Len(s)
  BY <1>1
<1> QED
  BY <1>1, <1>3, <1>6, <1>7, Zenon

LEMMA AppendOfDistinct ==
    ASSUME NEW S, NEW s \in Seq(S), NEW e \in S,
           \A i, k \in 1..Len(s) : s[i] = s[k] => i = k, e \notin {s[i] : i \in 1..Len(s)}
    PROVE  /\ Append(s, e) \in Seq(S) /\ Append(s, e) # <<>>
           /\ \A i, k \in 1..Len(Append(s, e)) : Append(s, e)[i] = Append(s, e)[k] => i = k
           /\ {Append(s, e)[i] : i \in 1..Len(Append(s, e))} = {s[i] : i \in 1..Len(s)} \cup {e}
<1> DEFINE a == Append(s, e)
<1>1. /\ a \in Seq(S) /\ Len(a) = Len(s) + 1 /\ Len(s) \in Nat /\ a[Len(s) + 1] = e
      /\ \A i \in 1..Len(s) : a[i] = s[i]
  OBVIOUS
<1>2. 1..Len(a) = 1..Len(s) \cup {Len(s) + 1}
  BY <1>1
<1>3. a # <<>>
  BY <1>1
<1> HIDE DEF a
<1>4. \A i, k \in 1..Len(a) : a[i] = a[k] => i = k
  BY <1>1, <1>2
<1>5. {a[i] : i \in 1..Len(a)} = {s[i] : i \in 1..Len(s)} \cup {e}
  BY <1>1, <1>2
<1> QED
  BY <1>1, <1>3, <1>4, <1>5 DEF a

LEMMA SizeOfDistinct ==
    ASSUME NEW n \in Nat, NEW f, \A i, k \in 1..n : f[i] = f[k] => i = k
    PROVE  Cardinality({f[i] : i \in 1..n}) = n
<1> DEFINE g == [i \in 1..n |-> f[i]]
           T == {f[i] : i \in 1..n}
<1>1. g \in Bijection(1..n, T)
  BY DEF Bijection, Injection, Surjection, IsInjective
<1>2. ExistsBijection(1..n, T)
  BY <1>1 DEF ExistsBijection
<1> QED
  BY <1>2, FS_CountingElements

\* A set of numbers that is not empty has a least one: what stands for an induction
\* below is the least counterexample.
LEMMA LeastNumber == ASSUME NEW T \in SUBSET Nat, T # {}
                     PROVE  \E m \in T : \A n \in T : m <= n
<1>1. PICK m \in T : \A n \in T : ~(<<n, m>> \in OpToRel(<, Nat))
  BY NatLessThanWellFounded, WFMin
<1>2. \A n \in T : ~(n < m)
  BY <1>1 DEF OpToRel
<1> QED
  BY <1>2

-----------------------------------------------------------------------------
(* Nested functions: the chain of their frames *)

Links == Nested!Frames \cup {Null}

NestedTypes == /\ frames \subseteq Nested!Frames
               /\ pc \in [Nested!Frames -> {"none", "start", "run", "await", "data", "final"}]
               /\ parent \in [Nested!Frames -> Links]
               /\ child \in [Nested!Frames -> Links]
               /\ scheduler \in [Nested!Frames -> BOOLEAN]
               /\ value \in [Nested!Frames -> Values \cup {None}]
               /\ got \in [Nested!Frames -> Values \cup {None}]
               /\ resume_value \in Values \cup {None}

\* Who waits for the i-th function of the stack s.
Caller(s, i) == IF i = 1 THEN Root ELSE s[i - 1]

\* The frames are those of the stack, the task first, below that of spawn_task,
\* and linked in both directions.
Linked(s) == /\ s # <<>>
             /\ \A i, k \in 1..Len(s) : s[i] = s[k] => i = k
             /\ frames = {Root} \cup {s[i] : i \in 1..Len(s)}
             /\ parent[Root] = Null
             /\ \A i \in 1..Len(s) : parent[s[i]] = Caller(s, i)
             /\ \A i \in 1..(Len(s) - 1) : child[s[i]] = s[i + 1]
             /\ child[s[Len(s)]] = Null

\* The task knows the scheduler, and whoever knows it was told through all the
\* functions above.
Informed(s) == /\ ~scheduler[Root] /\ scheduler[s[1]]
               /\ \A i, k \in 1..Len(s) : k < i /\ scheduler[s[i]] => scheduler[s[k]]

\* All functions but the innermost wait and have returned nothing.
Waiting(s) == \A i \in 1..(Len(s) - 1) : pc[s[i]] = "await" /\ value[s[i]] = None

\* The innermost function f runs, or waits for data, or has it, or has returned.
Inner(s) == LET f == s[Len(s)] IN
    /\ pc[Root] = "await" /\ child[Root] = s[1] /\ got[Root] = None /\ value[Root] = None
    /\ \/ running = f /\ pc[f] = "run" /\ to_resume = Null /\ value[f] = None
       \/ /\ running = Null /\ pc[f] = "data" /\ to_resume = f /\ value[f] = None
          /\ \A i \in 1..Len(s) : scheduler[s[i]]
       \/ /\ running = f /\ pc[f] = "data" /\ to_resume = Null /\ value[f] = None
          /\ resume_value \in Values
       \/ /\ running = Caller(s, Len(s)) /\ pc[f] = "final" /\ to_resume = Null
          /\ value[f] \in Values

\* The task has returned to spawn_task, which keeps its frame.
Outer(s) == /\ Len(s) = 1 /\ pc[s[1]] = "final" /\ value[s[1]] \in Values
            /\ child[Root] = Null /\ got[Root] \in Values /\ to_resume = Null
            /\ \/ running = Root /\ pc[Root] = "run" /\ value[Root] = None
               \/ running = Null /\ pc[Root] = "final" /\ value[Root] = got[Root]

Chain(s) == Linked(s) /\ Informed(s) /\ Waiting(s) /\ (Inner(s) \/ Outer(s))

\* Before the task is spawned nothing is linked or registered.
Unlinked == /\ running = Null /\ to_resume = Null /\ pc[Root] = "none"
            /\ \A f \in Nested!Frames : /\ parent[f] = Null /\ child[f] = Null /\ ~scheduler[f]
                                        /\ value[f] = None /\ got[f] = None

NestedPhase == \/ main = "create" /\ frames = {} /\ Unlinked
               \/ main = "spawn" /\ (\E f \in Addresses : frames = {f}) /\ Unlinked
               \/ main = "resume" /\ \E s \in Seq(Addresses) : Chain(s)
               \/ /\ main = "over" /\ frames = {} /\ running = Null /\ to_resume = Null
                  /\ child[Root] = Null /\ got[Root] \in Values /\ value[Root] = got[Root]

NestedOrdered == NestedTypes /\ NestedPhase

NestedInv == program = "nested" => NestedOrdered

\* All but the last of a sequence.
LEMMA FirstPart == ASSUME NEW S, NEW s \in Seq(S), Len(s) # 0
                   PROVE  /\ SubSeq(s, 1, Len(s) - 1) \in Seq(S)
                          /\ Len(SubSeq(s, 1, Len(s) - 1)) = Len(s) - 1
                          /\ \A i \in 1..(Len(s) - 1) : SubSeq(s, 1, Len(s) - 1)[i] = s[i]
<1> DEFINE n == Len(s)
           z == SubSeq(s, 1, n - 1)
<1>1. n \in Nat \ {0} /\ \A i \in 1..(n - 1) : s[i] \in S
  OBVIOUS
<1>2. /\ z \in Seq(S) /\ Len(z) = IF 1 <= n - 1 THEN (n - 1) - 1 + 1 ELSE 0
      /\ \A i \in 1..((n - 1) - 1 + 1) : z[i] = s[1 + i - 1]
  BY <1>1, SubSeqProperties
<1>3. /\ (n - 1) - 1 + 1 = n - 1 /\ (~(1 <= n - 1) => n - 1 = 0)
      /\ \A i \in 1..(n - 1) : 1 + i - 1 = i
  <2> HIDE DEF n
  <2> QED
    BY <1>1
<1> HIDE DEF z, n
<1>4. z \in Seq(S) /\ Len(z) = n - 1 /\ \A i \in 1..(n - 1) : z[i] = s[i]
  BY <1>2, <1>3, Zenon
<1> QED
  BY <1>4 DEF z, n

Depth == Cardinality(Nested!Frames)

LEMMA NestedConstants == /\ Nested!Frames = Addresses \cup {Root}
                         /\ Null \notin Nested!Frames /\ Root \notin Addresses
                         /\ None \notin Values /\ Depth \in Nat
                         /\ Depth = Cardinality(Addresses) + 1 /\ Cardinality(Addresses) \in Nat
<1>1. /\ Nested!Frames = Addresses \cup {Root} /\ Null \notin Nested!Frames
      /\ Root \notin Addresses /\ None \notin Values
  BY NestedAssumption DEF Nested!Frames
<1>2. IsFiniteSet(Addresses)
  BY NestedAssumption
<1>3. /\ Cardinality(Addresses) \in Nat
      /\ Cardinality(Addresses \cup {Root}) = Cardinality(Addresses) + 1
  BY <1>1, <1>2, FS_CardinalityType, FS_AddElement
<1> QED
  BY <1>1, <1>3 DEF Depth

\* p follows a link from each of N places to the next, up to the end.
Follows(p, start, link, end, N) ==
    p = [n \in 0..N |-> IF n = 0 THEN start ELSE IF p[n - 1] = end THEN end ELSE link[p[n - 1]]]

Path(start, link, end, N) == CHOOSE p : Follows(p, start, link, end, N)

LEMMA OnePath == ASSUME NEW N \in Nat, NEW start, NEW link, NEW end,
                        NEW w, Follows(w, start, link, end, N)
                 PROVE  Path(start, link, end, N) = w
<1>1. ASSUME NEW p, Follows(p, start, link, end, N) PROVE p = w
  <2> DEFINE T == {n \in 0..N : p[n] # w[n]}
  <2>1. /\ p = [n \in 0..N |->
                 IF n = 0 THEN start ELSE IF p[n - 1] = end THEN end ELSE link[p[n - 1]]]
        /\ w = [n \in 0..N |->
                 IF n = 0 THEN start ELSE IF w[n - 1] = end THEN end ELSE link[w[n - 1]]]
    BY <1>1 DEF Follows
  <2>2. p = [n \in 0..N |-> p[n]] /\ w = [n \in 0..N |-> w[n]]
    BY <2>1
  <2>3. ASSUME T # {} PROVE FALSE
    <3>1. PICK m \in T : \A n \in T : m <= n
      <4>1. T \in SUBSET Nat
        OBVIOUS
      <4> HIDE DEF T
      <4> QED
        BY <2>3, <4>1, LeastNumber
    <3>2. m # 0
      BY <2>1, <3>1
    <3>3. m \in 0..N /\ m - 1 \in 0..N /\ m - 1 \notin T
      BY <3>1, <3>2
    <3>4. p[m - 1] = w[m - 1]
      BY <3>3
    <3>5. /\ p[m] = IF p[m - 1] = end THEN end ELSE link[p[m - 1]]
          /\ w[m] = IF w[m - 1] = end THEN end ELSE link[w[m - 1]]
      BY <2>1, <3>2, <3>3
    <3> QED
      BY <3>1, <3>4, <3>5
  <2>4. \A n \in 0..N : p[n] = w[n]
    BY <2>3
  <2> QED
    BY <2>2, <2>4
<1>2. Follows(Path(start, link, end, N), start, link, end, N)
  BY DEF Path
<1> QED
  BY <1>1, <1>2

\* A stack has no more functions than there are addresses.
LEMMA StackFits == ASSUME NEW s \in Seq(Addresses), \A i, k \in 1..Len(s) : s[i] = s[k] => i = k
                   PROVE  Len(s) \in Nat /\ Len(s) < Depth
<1>1. Len(s) \in Nat /\ {s[i] : i \in 1..Len(s)} \subseteq Addresses
  OBVIOUS
<1>2. Cardinality({s[i] : i \in 1..Len(s)}) = Len(s)
  BY <1>1, SizeOfDistinct
<1>3. Cardinality({s[i] : i \in 1..Len(s)}) <= Cardinality(Addresses)
  BY <1>1, FS_Subset, NestedAssumption
<1>4. Len(s) <= Cardinality(Addresses)
  BY <1>2, <1>3
<1> QED
  BY <1>1, <1>4, NestedConstants

SameDepth == Nested!Cardinality(Nested!Frames) = Depth
LEMMA SameDepthHolds == SameDepth
BY DEF SameDepth, Depth, Cardinality, Nested!Cardinality

\* Above the i-th function of a stack are those it was called from, then spawn_task.
UpTheStack == \A s \in Seq(Addresses), i \in Nat :
    Linked(s) /\ i \in 1..Len(s) => 
        Nested!up(s[i]) =
            [n \in 0..Depth |-> IF n < i THEN s[i - n] ELSE IF n = i THEN Root ELSE Null]

LEMMA UpTheStackHolds == UpTheStack
<1> SUFFICES ASSUME NEW s \in Seq(Addresses), NEW i \in 1..Len(s), Linked(s)
             PROVE  Nested!up(s[i]) = [n \in 0..Depth |-> IF n < i THEN s[i - n]
                                                          ELSE IF n = i THEN Root ELSE Null]
  BY DEF UpTheStack
<1> DEFINE w == [n \in 0..Depth |-> IF n < i THEN s[i - n] ELSE IF n = i THEN Root ELSE Null]
<1>1. Len(s) \in Nat /\ \A k \in 1..Len(s) : s[k] \in Addresses /\ s[k] # Null
  BY NestedConstants
<1>2. Depth \in Nat /\ i \in Nat /\ i < Depth
  BY <1>1, NestedConstants, StackFits DEF Linked
<1>3. ASSUME NEW n \in 0..Depth
      PROVE  w[n] = IF n = 0 THEN s[i] ELSE IF w[n - 1] = Null THEN Null ELSE parent[w[n - 1]]
  <2>1. CASE n = 0
    BY <1>2, <2>1
  <2>2. CASE n # 0 /\ n <= i
    <3>1. n - 1 \in 0..Depth /\ n - 1 < i /\ i - (n - 1) \in 1..Len(s)
      BY <1>1, <1>2, <2>2
    <3>2. w[n - 1] = s[i - (n - 1)] /\ w[n - 1] # Null
      BY <1>1, <3>1
    <3>3. parent[s[i - (n - 1)]] = IF i - (n - 1) = 1 THEN Root ELSE s[(i - (n - 1)) - 1]
      BY <3>1 DEF Linked, Caller
    <3>4. CASE n = i
      BY <1>2, <2>2, <3>2, <3>3, <3>4
    <3>5. CASE n < i
      <4>1. (i - (n - 1)) - 1 = i - n /\ i - (n - 1) # 1
        BY <1>2, <3>5
      <4> QED
        BY <2>2, <3>2, <3>3, <3>5, <4>1
    <3> QED
      BY <1>2, <2>2, <3>4, <3>5
  <2>3. CASE n = i + 1
    <3>1. w[n - 1] = Root /\ n - 1 \in 0..Depth
      BY <1>2, <2>3
    <3>2. Root # Null /\ parent[Root] = Null
      BY NestedConstants DEF Linked
    <3> QED
      BY <1>2, <2>3, <3>1, <3>2
  <2>4. CASE n > i + 1
    <3>1. w[n - 1] = Null
      BY <1>2, <2>4
    <3> QED
      BY <1>2, <2>4, <3>1
  <2> QED
    BY <1>2, <2>1, <2>2, <2>3, <2>4
<1>4. Follows(w, s[i], parent, Null, Depth)
  <2>1. w = [n \in 0..Depth |-> w[n]]
    OBVIOUS
  <2> HIDE DEF w
  <2> QED
    BY <1>3, <2>1 DEF Follows
<1> HIDE DEF w
<1>5. Path(s[i], parent, Null, Depth) = w
  BY <1>2, <1>4, OnePath
<1>6. Nested!up(s[i]) = w
  BY <1>5, SameDepthHolds DEF Nested!up, SameDepth, Path, Follows
<1> QED
  BY <1>6 DEF w

LEMMA UpTheStackNext == UpTheStack'
BY UpTheStackHolds, PTL

SameNestedSize == \A S : Nested!Cardinality(S) = Cardinality(S)
LEMMA SameNestedSizeHolds == SameNestedSize
BY DEF SameNestedSize, Cardinality, Nested!Cardinality

\* While spawn_task waits for its task the stack of activations is that of the
\* frames, and empty otherwise.
StackShape == /\ \A s \in Seq(Addresses) : Linked(s) /\ child[Root] = s[1] =>
                    Nested!stack = [i \in 1..Len(s) |-> got[s[i]]]
              /\ child[Root] = Null => Nested!stack = <<>>

Shown(w) == [n \in 1..Cardinality({n \in 0..Depth : w[n] # Null}) |-> got[w[n - 1]]]

LEMMA StackFromPath == Nested!stack = Shown(Path(child[Root], child, Null, Depth))
<1>1. /\ Nested!Cardinality(Nested!Frames) = Depth
      /\ \A S : Nested!Cardinality(S) = Cardinality(S)
  BY SameDepthHolds, SameNestedSizeHolds DEF SameDepth, SameNestedSize
<1> QED
  BY <1>1 DEF Nested!stack, Shown, Path, Follows

LEMMA StackShapeHolds == StackShape
<1>1. ASSUME NEW s \in Seq(Addresses), Linked(s), child[Root] = s[1]
      PROVE  Nested!stack = [i \in 1..Len(s) |-> got[s[i]]]
  <2> DEFINE w == [n \in 0..Depth |-> IF n < Len(s) THEN s[n + 1] ELSE Null]
             first == child[Root]
  <2>1. /\ Len(s) \in Nat \ {0} /\ Len(s) < Depth /\ Depth \in Nat
        /\ \A k \in 1..Len(s) : s[k] \in Addresses /\ s[k] # Null
    BY <1>1, StackFits, NestedConstants DEF Linked
  <2>2. ASSUME NEW n \in 0..Depth
        PROVE  w[n] = IF n = 0 THEN first ELSE IF w[n - 1] = Null THEN Null ELSE child[w[n - 1]]
    <3>1. CASE n = 0
      BY <1>1, <2>1, <3>1
    <3>2. CASE n # 0 /\ n <= Len(s)
      <4>1. w[n - 1] = s[n] /\ s[n] # Null
        BY <2>1, <3>2
      <4>2. n < Len(s) => child[s[n]] = s[n + 1]
        BY <1>1, <2>1, <3>2 DEF Linked
      <4>3. n = Len(s) => child[s[n]] = Null
        BY <1>1 DEF Linked
      <4> QED
        BY <2>1, <3>2, <4>1, <4>2, <4>3
    <3>3. CASE n > Len(s)
      <4>1. w[n - 1] = Null
        BY <2>1, <3>3
      <4> QED
        BY <2>1, <3>3, <4>1
    <3> QED
      BY <2>1, <3>1, <3>2, <3>3
  <2>3. Follows(w, first, child, Null, Depth)
    <3>1. w = [n \in 0..Depth |-> w[n]]
      OBVIOUS
    <3> HIDE DEF w, first
    <3> QED
      BY <2>2, <3>1 DEF Follows
  <2>4. {n \in 0..Depth : w[n] # Null} = 0..(Len(s) - 1)
    BY <2>1
  <2>5. Cardinality(0..(Len(s) - 1)) = Len(s)
    <3>1. Cardinality(0..(Len(s) - 1)) = IF 0 > Len(s) - 1 THEN 0 ELSE (Len(s) - 1) - 0 + 1
      BY <2>1, FS_Interval
    <3> QED
      BY <2>1, <3>1
  <2>6. \A i \in 1..Len(s) : w[i - 1] = s[i]
    BY <2>1
  <2> HIDE DEF w, first
  <2>7. Path(first, child, Null, Depth) = w
    BY <2>1, <2>3, OnePath
  <2>8. Shown(w) = [i \in 1..Len(s) |-> got[s[i]]]
    BY <2>4, <2>5, <2>6 DEF Shown
  <2> QED
    BY <2>7, <2>8, StackFromPath DEF first
<1>2. ASSUME child[Root] = Null PROVE Nested!stack = <<>>
  <2> DEFINE w == [n \in 0..Depth |-> Null]
             first == child[Root]
  <2>1. Follows(w, first, child, Null, Depth)
    BY <1>2, NestedConstants DEF Follows
  <2>2. {n \in 0..Depth : w[n] # Null} = {}
    OBVIOUS
  <2> HIDE DEF w, first
  <2>3. Path(first, child, Null, Depth) = w
    BY <2>1, NestedConstants, OnePath
  <2>4. Shown(w) = <<>>
    <3>1. Cardinality({n \in 0..Depth : w[n] # Null}) = 0
      BY <2>2, FS_EmptySet
    <3>2. 1..Cardinality({n \in 0..Depth : w[n] # Null}) = {}
      BY <3>1
    <3>3. \A F : [n \in {} |-> F[w[n - 1]]] = <<>>
      OBVIOUS
    <3> QED
      BY <3>2, <3>3 DEF Shown
  <2> QED
    BY <2>3, <2>4, StackFromPath DEF first
<1> QED
  BY <1>1, <1>2 DEF StackShape

LEMMA StackShapeNext == StackShape'
BY StackShapeHolds, PTL

LEMMA NestedStart == ASSUME Nested!Init PROVE NestedOrdered
<1> USE NestedConstants
<1>1. NestedTypes
  BY DEF Nested!Init, NestedTypes, Links
<1>2. NestedPhase
  BY DEF Nested!Init, NestedPhase, Unlinked
<1> QED
  BY <1>1, <1>2 DEF NestedOrdered

\* A function that has control is the innermost of the stack, or the caller that
\* the innermost has returned to, or spawn_task at its end.
LEMMA InControl ==
    ASSUME NestedOrdered, running # Null \/ to_resume # Null \/ main = "resume"
    PROVE  main = "resume" /\ \E s \in Seq(Addresses) : Chain(s)
BY DEF NestedOrdered, NestedPhase, Unlinked

\* The caller that the innermost function has returned to still waits.
CallersWait == \A s \in Seq(Addresses) : Chain(s) /\ Inner(s) =>
                  pc[Caller(s, Len(s))] = "await" /\ value[Caller(s, Len(s))] = None

LEMMA CallerWaits == CallersWait
<1> SUFFICES ASSUME NEW s \in Seq(Addresses), Chain(s), Inner(s)
             PROVE  pc[Caller(s, Len(s))] = "await" /\ value[Caller(s, Len(s))] = None
  BY DEF CallersWait
<1>1. Len(s) \in Nat \ {0}
  BY DEF Chain, Linked
<1>2. CASE Len(s) = 1
  BY <1>2 DEF Caller, Inner
<1>3. CASE Len(s) # 1
  <2>1. \A n \in Nat \ {0} : n # 1 => n - 1 \in 1..(n - 1)
    OBVIOUS
  <2> QED
    BY <1>1, <1>3, <2>1 DEF Chain, Waiting, Caller
<1> QED
  BY <1>2, <1>3

LEMMA CallerWaitsNext == CallersWait'
BY CallerWaits, PTL

LEMMA RunsBody ==
    ASSUME NEW s \in Seq(Addresses), Chain(s), running # Null, pc[running] = "run"
    PROVE  /\ to_resume = Null /\ value[running] = None
           /\ \/ running = s[Len(s)] /\ Inner(s)
              \/ running = Root /\ Outer(s)
<1>1. CASE Inner(s)
  <2>1. running # Caller(s, Len(s))
    BY <1>1, CallerWaits DEF CallersWait
  <2> QED
    BY <1>1, <2>1 DEF Inner
<1>2. CASE Outer(s)
  BY <1>2 DEF Outer
<1> QED
  BY <1>1, <1>2 DEF Chain

LEMMA CreateTaskKeeps == ASSUME NestedOrdered, NEW f \in Addresses, Nested!CreateTask(f)
                         PROVE  NestedOrdered'
<1> USE NestedConstants
<1>1. /\ main = "create" /\ main' = "spawn" /\ frames' = {f} /\ pc' = [pc EXCEPT ![f] = "start"]
      /\ UNCHANGED <<parent, child, scheduler, value, got, running, to_resume, resume_value>>
  BY DEF Nested!CreateTask, Nested!promises
<1>2. NestedTypes'
  BY <1>1 DEF NestedOrdered, NestedTypes, Links
<1>3. Unlinked
  BY <1>1 DEF NestedOrdered, NestedPhase
<1>4. Unlinked'
  BY <1>1, <1>3 DEF NestedOrdered, NestedTypes, Unlinked
<1> QED
  BY <1>1, <1>2, <1>4 DEF NestedOrdered, NestedPhase

LEMMA SpawnTaskKeeps == ASSUME NestedOrdered, Nested!SpawnTask
                        PROVE  /\ NestedTypes' /\ main' = "resume" /\ Unlinked /\ main = "spawn"
                               /\ \E f \in Addresses :
                                     /\ Chain(<<f>>)' /\ Inner(<<f>>)' /\ running' = f
                                     /\ pc'[f] = "run" /\ to_resume' = Null /\ got' = got
<1> USE NestedConstants
<1>1. PICK f \in frames : /\ scheduler' = [scheduler EXCEPT ![f] = TRUE]
                          /\ parent' = [parent EXCEPT ![f] = Root]
                          /\ child' = [child EXCEPT ![Root] = f]
                          /\ pc' = [pc EXCEPT ![Root] = "await", ![f] = "run"]
                          /\ running' = f
  BY DEF Nested!SpawnTask
<1>2. /\ main = "spawn" /\ main' = "resume" /\ frames' = frames \cup {Root}
      /\ UNCHANGED <<value, got, to_resume, resume_value>>
  BY DEF Nested!SpawnTask
<1>3. f \in Addresses /\ frames = {f} /\ Unlinked
  BY <1>2 DEF NestedOrdered, NestedPhase
<1>4. NestedTypes'
  BY <1>1, <1>2, <1>3 DEF NestedOrdered, NestedTypes, Links
<1> DEFINE s == <<f>>
<1>5. /\ s \in Seq(Addresses) /\ Len(s) = 1 /\ s[1] = f /\ s # <<>>
      /\ 1..Len(s) = {1} /\ 1..(Len(s) - 1) = {}
  BY <1>3
<1> HIDE DEF s
<1>6. /\ f # Root /\ Root \in Nested!Frames /\ f \in Nested!Frames
      /\ parent'[f] = Root /\ child'[Root] = f /\ scheduler'[f] /\ running' = f
      /\ pc'[Root] = "await" /\ pc'[f] = "run" /\ parent'[Root] = Null /\ child'[f] = Null
      /\ ~scheduler'[Root] /\ value'[f] = None /\ value'[Root] = None /\ got'[Root] = None
      /\ to_resume' = Null
  BY <1>1, <1>2, <1>3 DEF NestedOrdered, NestedTypes, Unlinked
<1>7. Linked(s)'
  BY <1>2, <1>3, <1>5, <1>6 DEF Linked, Caller
<1>8. Informed(s)' /\ Waiting(s)' /\ Inner(s)'
  BY <1>5, <1>6 DEF Informed, Waiting, Inner
<1>9. Chain(s)' /\ Inner(s)'
  BY <1>7, <1>8 DEF Chain
<1> QED
  BY <1>2, <1>3, <1>4, <1>6, <1>9 DEF s

LEMMA CallKeepsStack ==
    ASSUME NestedOrdered, NEW s \in Seq(Addresses), Chain(s), NEW f \in Addresses,
           NEW c \in Addresses, Nested!Call(f, c)
    PROVE  /\ NestedTypes' /\ main' = "resume" /\ Chain(Append(s, c))'
           /\ Inner(s) /\ f = s[Len(s)] /\ Inner(Append(s, c))'
<1> USE NestedConstants
<1>1. /\ running = f /\ pc[f] = "run" /\ c \notin frames
      /\ frames' = frames \cup {c}
      /\ parent' = [parent EXCEPT ![c] = f]
      /\ child' = [child EXCEPT ![c] = Null, ![f] = c]
      /\ scheduler' = [scheduler EXCEPT ![c] = FALSE]
      /\ value' = [value EXCEPT ![c] = None]
      /\ got' = [got EXCEPT ![c] = None]
      /\ pc' = [pc EXCEPT ![c] = "run", ![f] = "await"]
      /\ running' = c
      /\ UNCHANGED <<to_resume, resume_value, main>>
  BY DEF Nested!Call, Nested!Body
<1>2. main = "resume"
  BY <1>1, InControl
<1>3. Chain(s)
  OBVIOUS
<1> DEFINE n == Len(s)
           z == Append(s, c)
<1>4. /\ n \in Nat \ {0} /\ \A i \in 1..n : s[i] \in Addresses
      /\ z \in Seq(Addresses) /\ Len(z) = n + 1 /\ z[n + 1] = c /\ \A i \in 1..n : z[i] = s[i]
  BY <1>3 DEF Chain, Linked
<1>5. f = s[n] /\ Inner(s) /\ to_resume = Null /\ value[f] = None
  BY <1>1, <1>3, RunsBody
<1>6. c # Root /\ c # f /\ \A i \in 1..n : s[i] # c
  BY <1>1, <1>3, <1>4, <1>5 DEF Chain, Linked
<1>7. /\ parent'[c] = f /\ child'[c] = Null /\ child'[f] = c /\ ~scheduler'[c]
      /\ value'[c] = None /\ pc'[c] = "run" /\ pc'[f] = "await"
      /\ \A g \in Nested!Frames : g # c =>
            /\ parent'[g] = parent[g] /\ scheduler'[g] = scheduler[g] /\ value'[g] = value[g]
            /\ got'[g] = got[g] /\ (g # f => child'[g] = child[g] /\ pc'[g] = pc[g])
  BY <1>1, <1>6 DEF NestedOrdered, NestedTypes
<1>8. NestedTypes'
  <2>1. frames' \subseteq Nested!Frames /\ resume_value' \in Values \cup {None}
    BY <1>1 DEF NestedOrdered, NestedTypes
  <2>2. /\ pc' \in [Nested!Frames -> {"none", "start", "run", "await", "data", "final"}]
        /\ parent' \in [Nested!Frames -> Links] /\ child' \in [Nested!Frames -> Links]
    BY <1>1 DEF NestedOrdered, NestedTypes, Links
  <2>3. /\ scheduler' \in [Nested!Frames -> BOOLEAN]
        /\ value' \in [Nested!Frames -> Values \cup {None}]
        /\ got' \in [Nested!Frames -> Values \cup {None}]
    BY <1>1 DEF NestedOrdered, NestedTypes
  <2> QED
    BY <2>1, <2>2, <2>3 DEF NestedTypes
<1> HIDE DEF z
<1>9. Linked(z)'
  <2>1. z # <<>> /\ \A i, k \in 1..Len(z) : z[i] = z[k] => i = k
    BY <1>3, <1>4, <1>6 DEF Chain, Linked
  <2>2. frames' = {Root} \cup {z[i] : i \in 1..Len(z)}
    <3>1. 1..Len(z) = 1..n \cup {n + 1}
      BY <1>4
    <3>2. {z[i] : i \in 1..Len(z)} = {s[i] : i \in 1..n} \cup {c}
      BY <1>4, <3>1
    <3> QED
      BY <1>1, <1>3, <3>2 DEF Chain, Linked
  <2>3. parent'[Root] = Null
    BY <1>3, <1>6, <1>7 DEF Chain, Linked
  <2>4. ASSUME NEW i \in 1..Len(z) PROVE parent'[z[i]] = Caller(z, i)
    <3>1. CASE i = n + 1
      BY <1>4, <1>5, <1>7, <3>1 DEF Caller
    <3>2. CASE i \in 1..n
      <4>1. parent'[z[i]] = parent[s[i]]
        BY <1>4, <1>6, <1>7, <3>2
      <4>2. Caller(z, i) = Caller(s, i)
        BY <1>4, <3>2 DEF Caller
      <4> QED
        BY <1>3, <3>2, <4>1, <4>2 DEF Chain, Linked
    <3> QED
      BY <1>4, <3>1, <3>2
  <2>5. ASSUME NEW i \in 1..(Len(z) - 1) PROVE child'[z[i]] = z[i + 1]
    <3>1. CASE i = n
      BY <1>4, <1>5, <1>7, <3>1
    <3>2. CASE i \in 1..(n - 1)
      <4>1. s[i] # f
        BY <1>3, <1>4, <1>5, <3>2 DEF Chain, Linked
      <4>2. child'[z[i]] = child[s[i]]
        BY <1>4, <1>6, <1>7, <3>2, <4>1
      <4> QED
        BY <1>3, <1>4, <3>2, <4>2 DEF Chain, Linked
    <3> QED
      BY <1>4, <3>1, <3>2
  <2>6. child'[z[Len(z)]] = Null
    BY <1>4, <1>7
  <2> QED
    BY <2>1, <2>2, <2>3, <2>4, <2>5, <2>6 DEF Linked, Caller
<1>10. Informed(z)'
  <2>1. ~scheduler'[Root] /\ scheduler'[z[1]]
    BY <1>3, <1>4, <1>6, <1>7 DEF Chain, Informed
  <2>2. ASSUME NEW i \in 1..Len(z), NEW k \in 1..Len(z), k < i, scheduler'[z[i]]
        PROVE  scheduler'[z[k]]
    <3>1. i # n + 1
      BY <1>4, <1>7, <2>2
    <3>2. i \in 1..n /\ k \in 1..n
      BY <1>4, <2>2, <3>1
    <3>3. scheduler'[z[i]] = scheduler[s[i]] /\ scheduler'[z[k]] = scheduler[s[k]]
      BY <1>4, <1>6, <1>7, <3>2
    <3> QED
      BY <1>3, <2>2, <3>2, <3>3 DEF Chain, Informed
  <2> QED
    BY <2>1, <2>2 DEF Informed
<1>11. Waiting(z)'
  <2>1. ASSUME NEW i \in 1..(Len(z) - 1) PROVE pc'[z[i]] = "await" /\ value'[z[i]] = None
    <3>1. i \in 1..n /\ z[i] = s[i] /\ s[i] # c /\ s[i] \in Nested!Frames
      BY <1>4, <1>6
    <3>2. CASE s[i] = f
      BY <1>5, <1>7, <3>1, <3>2
    <3>3. CASE s[i] # f
      <4>1. i \in 1..(n - 1)
        BY <1>4, <1>5, <3>1, <3>3
      <4>2. pc'[z[i]] = pc[s[i]] /\ value'[z[i]] = value[s[i]]
        BY <1>7, <3>1, <3>3
      <4> QED
        BY <1>3, <4>1, <4>2 DEF Chain, Waiting
    <3> QED
      BY <3>2, <3>3
  <2> QED
    BY <2>1 DEF Waiting
<1>12. Inner(z)'
  <2>1. z[1] = s[1] /\ z[Len(z)] = c /\ Root # c /\ Root # f /\ Root \in Nested!Frames
    BY <1>4, <1>6
  <2>2. /\ pc'[Root] = "await" /\ child'[Root] = z[1] /\ got'[Root] = None /\ value'[Root] = None
    BY <1>5, <1>7, <2>1 DEF Inner
  <2>3. running' = c /\ pc'[c] = "run" /\ to_resume' = Null /\ value'[c] = None
    BY <1>1, <1>5, <1>7
  <2> QED
    BY <2>1, <2>2, <2>3 DEF Inner
<1>13. Chain(z)'
  BY <1>9, <1>10, <1>11, <1>12 DEF Chain
<1> QED
  BY <1>1, <1>2, <1>5, <1>8, <1>12, <1>13 DEF z

\* The steps that leave the stack, its links and its schedulers as they are.
SameStack == UNCHANGED <<frames, parent, child, main>>

LEMMA LinksStay == ASSUME NEW s, Linked(s), SameStack PROVE Linked(s)'
BY DEF Linked, SameStack, Caller

LEMMA GetDataKeeps ==
    ASSUME NestedOrdered, NEW s \in Seq(Addresses), Chain(s), NEW f \in Addresses,
           Nested!GetData(f)
                      PROVE  /\ NestedTypes' /\ main' = "resume" /\ Chain(s)' /\ Inner(s)
                             /\ f = s[Len(s)] /\ Inner(s)'
<1> USE NestedConstants
<1>1. /\ running = f /\ pc[f] = "run"
      /\ to_resume' = f /\ pc' = [pc EXCEPT ![f] = "data"] /\ running' = Null
      /\ UNCHANGED <<frames, parent, child, value, got, resume_value, main>>
  BY DEF Nested!GetData, Nested!Body
<1>2. PICK n \in Nested!Nearest(f) :
         scheduler' = [g \in Nested!Frames |-> \/ scheduler[g]
                                               \/ \E m \in 0..n : Nested!up(f)[m] = g]
  BY DEF Nested!GetData
<1>3. main = "resume"
  BY <1>1, InControl
<1>4. Chain(s)
  OBVIOUS
<1>5. Len(s) \in Nat \ {0} /\ Len(s) < Depth /\ \A i \in 1..Len(s) : s[i] \in Addresses
  BY <1>4, StackFits DEF Chain, Linked
<1>6. f = s[Len(s)] /\ Inner(s) /\ to_resume = Null /\ value[f] = None
  BY <1>1, <1>4, RunsBody
<1>7. Nested!up(f) = [m \in 0..Depth |-> IF m < Len(s) THEN s[Len(s) - m]
                                         ELSE IF m = Len(s) THEN Root ELSE Null]
  <2>1. Linked(s) /\ Len(s) \in 1..Len(s) /\ Len(s) \in Nat
    BY <1>4, <1>5 DEF Chain
  <2> QED
    BY <1>6, <2>1, UpTheStackHolds DEF UpTheStack
<1>8. n \in 0..Depth /\ Nested!up(f)[n] # Null /\ scheduler[Nested!up(f)[n]]
  BY <1>2, SameDepthHolds DEF Nested!Nearest, SameDepth
<1>9. n < Len(s) /\ scheduler[s[Len(s) - n]] /\ Len(s) - n \in 1..Len(s)
  BY <1>4, <1>5, <1>7, <1>8 DEF Chain, Informed
<1>10. \A i \in 1..Len(s) : scheduler'[s[i]]
  <2> SUFFICES ASSUME NEW i \in 1..Len(s) PROVE scheduler'[s[i]]
    OBVIOUS
  <2>1. s[i] \in Nested!Frames
    BY <1>5
  <2>2. CASE i <= Len(s) - n
    <3>1. scheduler[s[i]]
      BY <1>4, <1>9, <2>2 DEF Chain, Informed
    <3> QED
      BY <1>2, <2>1, <3>1
  <2>3. CASE i > Len(s) - n
    <3>1. Len(s) - i \in 0..n /\ Len(s) - i < Len(s) /\ Len(s) - (Len(s) - i) = i
      BY <1>5, <1>8, <2>3
    <3>2. Nested!up(f)[Len(s) - i] = s[i]
      BY <1>5, <1>7, <3>1
    <3> QED
      BY <1>2, <2>1, <3>1, <3>2
  <2> QED
    BY <1>5, <1>8, <2>2, <2>3
<1>11. ~scheduler'[Root]
  <2>1. \A m \in 0..n : Nested!up(f)[m] # Root
    <3> TAKE m \in 0..n
    <3>1. m < Len(s) /\ m \in 0..Depth /\ Len(s) - m \in 1..Len(s)
      BY <1>5, <1>8, <1>9
    <3> QED
      BY <1>5, <1>7, <3>1
  <2> QED
    BY <1>2, <1>4, <2>1 DEF Chain, Informed
<1>12. NestedTypes'
  BY <1>1, <1>2 DEF NestedOrdered, NestedTypes
<1>13. Linked(s)'
  BY <1>1, <1>4, LinksStay DEF SameStack, Chain
<1>14. Informed(s)'
  BY <1>5, <1>10, <1>11 DEF Informed
<1>15. /\ pc'[f] = "data" /\ \A g \in Nested!Frames : g # f => pc'[g] = pc[g]
  BY <1>1 DEF NestedOrdered, NestedTypes
<1>16. Waiting(s)'
  <2>1. ASSUME NEW i \in 1..(Len(s) - 1) PROVE s[i] # f /\ s[i] \in Nested!Frames
    BY <1>4, <1>5, <1>6 DEF Chain, Linked
  <2> QED
    BY <1>1, <1>4, <1>15, <2>1 DEF Chain, Waiting
<1>17. Inner(s)'
  BY <1>1, <1>6, <1>10, <1>15 DEF Inner
<1> QED
  BY <1>1, <1>3, <1>6, <1>12, <1>13, <1>14, <1>16, <1>17 DEF Chain

LEMMA ReturnKeeps ==
    ASSUME NestedOrdered, NEW s \in Seq(Addresses), Chain(s), NEW f \in Nested!Frames,
           NEW v \in Values, Nested!Return(f, v)
                     PROVE  /\ NestedTypes' /\ main' = "resume" /\ Chain(s)'
                            /\ \/ f = s[Len(s)] /\ Inner(s) /\ Inner(s)'
                               \/ f = Root /\ Outer(s) /\ Outer(s)'
<1> USE NestedConstants
<1>1. /\ running = f /\ pc[f] = "run" /\ (f = Root => v = got[Root])
      /\ value' = [value EXCEPT ![f] = v]
      /\ pc' = [pc EXCEPT ![f] = "final"]
      /\ running' = parent[f]
      /\ UNCHANGED <<frames, parent, child, scheduler, got, to_resume, resume_value, main>>
  BY DEF Nested!Return
<1>2. main = "resume"
  BY <1>1, InControl
<1>3. Chain(s)
  OBVIOUS
<1>4. Len(s) \in Nat \ {0} /\ \A i \in 1..Len(s) : s[i] \in Addresses
  BY <1>3 DEF Chain, Linked
<1>5. /\ to_resume = Null
      /\ \/ f = s[Len(s)] /\ Inner(s)
         \/ f = Root /\ Outer(s)
  BY <1>1, <1>3, RunsBody
<1>6. NestedTypes'
  BY <1>1 DEF NestedOrdered, NestedTypes
<1>7. Linked(s)'
  BY <1>1, <1>3, LinksStay DEF SameStack, Chain
<1>8. Informed(s)'
  BY <1>1, <1>3 DEF Chain, Informed
<1>9. /\ pc'[f] = "final" /\ value'[f] = v
      /\ \A g \in Nested!Frames : g # f => pc'[g] = pc[g] /\ value'[g] = value[g]
  BY <1>1 DEF NestedOrdered, NestedTypes
<1>10. Waiting(s)'
  <2>1. ASSUME NEW i \in 1..(Len(s) - 1) PROVE s[i] # f /\ s[i] \in Nested!Frames
    BY <1>3, <1>4, <1>5 DEF Chain, Linked
  <2> QED
    BY <1>3, <1>9, <2>1 DEF Chain, Waiting
<1>11. CASE f = s[Len(s)] /\ Inner(s)
  <2>1. running' = Caller(s, Len(s))
    BY <1>1, <1>3, <1>4, <1>11 DEF Chain, Linked
  <2>2. Root # f /\ Root \in Nested!Frames
    BY <1>4, <1>11
  <2>3. /\ pc'[Root] = "await" /\ child'[Root] = s[1] /\ got'[Root] = None /\ value'[Root] = None
    BY <1>1, <1>9, <1>11, <2>2 DEF Inner
  <2>4. Inner(s)'
    BY <1>1, <1>5, <1>9, <1>11, <2>1, <2>3 DEF Inner, Caller
  <2> QED
    BY <1>1, <1>2, <1>6, <1>7, <1>8, <1>10, <1>11, <2>4 DEF Chain
<1>12. CASE f = Root /\ Outer(s)
  <2>1. s[1] \in Nested!Frames /\ s[1] # f
    BY <1>4, <1>12
  <2>2. running' = Null
    BY <1>1, <1>3, <1>12 DEF Chain, Linked
  <2>3. Outer(s)'
    BY <1>1, <1>9, <1>12, <2>1, <2>2 DEF Outer
  <2> QED
    BY <1>1, <1>2, <1>6, <1>7, <1>8, <1>10, <1>12, <2>3 DEF Chain
<1> QED
  BY <1>5, <1>11, <1>12

\* The frame that runs and awaits is the caller of the innermost function, which
\* has returned.
LEMMA AwaitingCaller ==
    ASSUME NEW s \in Seq(Addresses), Chain(s), running # Null, pc[running] = "await"
    PROVE  /\ Inner(s) /\ running = Caller(s, Len(s)) /\ pc[s[Len(s)]] = "final"
           /\ to_resume = Null /\ value[s[Len(s)]] \in Values
BY DEF Chain, Inner, Outer

LEMMA AwaitResumeKeeps ==
    ASSUME NestedOrdered, NEW s \in Seq(Addresses), Chain(s), NEW f \in Nested!Frames,
           Nested!AwaitResume(f)
                          PROVE  /\ NestedTypes' /\ main' = "resume" /\ Inner(s)
                                 /\ f = Caller(s, Len(s)) /\ value[s[Len(s)]] \in Values
                                 /\ got' = [got EXCEPT ![f] = value[s[Len(s)]]]
                                 /\ IF Len(s) = 1 THEN Chain(s)' /\ Outer(s)'
                                    ELSE /\ Chain(SubSeq(s, 1, Len(s) - 1))'
                                         /\ Inner(SubSeq(s, 1, Len(s) - 1))'
<1> USE NestedConstants
<1>1. /\ running = f /\ pc[f] = "await"
      /\ got' = [got EXCEPT ![f] = value[child[f]]]
      /\ child' = [child EXCEPT ![f] = Null]
      /\ frames' = IF f = Root THEN frames ELSE frames \ {child[f]}
      /\ pc' = [pc EXCEPT ![f] = "run"]
      /\ UNCHANGED <<parent, scheduler, value, running, to_resume, resume_value, main>>
  BY DEF Nested!AwaitResume
<1>2. main = "resume"
  BY <1>1, InControl
<1>3. Chain(s)
  OBVIOUS
<1> DEFINE n == Len(s)
<1>4. n \in Nat \ {0} /\ \A i \in 1..n : s[i] \in Addresses /\ s[i] \in Nested!Frames
  BY <1>3 DEF Chain, Linked
<1>5. /\ Inner(s) /\ f = Caller(s, n) /\ pc[s[n]] = "final"
      /\ to_resume = Null /\ value[s[n]] \in Values
  BY <1>1, <1>3, AwaitingCaller
<1>6. child[f] = s[n]
  <2>1. CASE n = 1
    BY <1>5, <2>1 DEF Caller, Inner
  <2>2. CASE n # 1
    <3>1. n - 1 \in 1..(n - 1) /\ (n - 1) + 1 = n
      <4> HIDE DEF n
      <4> QED
        BY <1>4, <2>2
    <3>2. f = s[n - 1]
      BY <1>5, <2>2 DEF Caller
    <3>3. child[s[n - 1]] = s[(n - 1) + 1]
      BY <1>3, <3>1 DEF Chain, Linked
    <3> QED
      BY <3>1, <3>2, <3>3
  <2> QED
    BY <2>1, <2>2
<1>7. NestedTypes'
  BY <1>1, <1>5, <1>6 DEF NestedOrdered, NestedTypes, Links
<1>8. /\ got'[f] = value[s[n]] /\ child'[f] = Null /\ pc'[f] = "run"
      /\ \A g \in Nested!Frames : g # f => got'[g] = got[g] /\ child'[g] = child[g] /\ pc'[g] = pc[g]
  BY <1>1, <1>6 DEF NestedOrdered, NestedTypes
<1>9. CASE n = 1
  <2>1. f = Root /\ s[1] # Root /\ s[1] \in Nested!Frames /\ 1 \in 1..n
    BY <1>4, <1>5, <1>9 DEF Caller
  <2>2. Outer(s)'
    BY <1>1, <1>5, <1>8, <1>9, <2>1 DEF Outer, Inner
  <2>3. child'[s[1]] = child[s[1]]
    BY <1>8, <2>1
  <2>4. Linked(s)'
    BY <1>1, <1>3, <1>9, <2>1, <2>3 DEF Chain, Linked, Caller
  <2>5. Informed(s)'
    BY <1>1, <1>3 DEF Chain, Informed
  <2>6. Waiting(s)'
    BY <1>9 DEF Waiting
  <2> QED
    BY <1>1, <1>2, <1>7, <1>5, <1>6, <1>9, <2>2, <2>4, <2>5, <2>6 DEF Chain
<1>10. CASE n # 1
  <2> DEFINE z == SubSeq(s, 1, n - 1)
  <2>1. /\ n - 1 \in Nat \ {0} /\ z \in Seq(Addresses) /\ Len(z) = n - 1
        /\ \A i \in 1..(n - 1) : z[i] = s[i]
    <3>1. n \in Nat /\ n - 1 \in Nat \ {0}
      <4> HIDE DEF n
      <4> QED
        BY <1>4, <1>10
    <3>2. \A i \in 1..(n - 1) : s[i] \in Addresses
      BY <1>4
    <3>3. /\ z \in Seq(Addresses) /\ Len(z) = IF 1 <= n - 1 THEN (n - 1) - 1 + 1 ELSE 0
          /\ \A i \in 1..((n - 1) - 1 + 1) : z[i] = s[1 + i - 1]
      BY <3>1, <3>2, SubSeqProperties
    <3>4. \A m \in Nat \ {0} : 1 <= m /\ (m - 1) + 1 = m /\ \A i \in 1..m : 1 + i - 1 = i
      OBVIOUS
    <3>5. (n - 1) - 1 + 1 = n - 1 /\ 1 <= n - 1 /\ \A i \in 1..(n - 1) : 1 + i - 1 = i
      BY <3>1, <3>4
    <3> HIDE DEF z
    <3> QED
      BY <3>1, <3>3, <3>5, Zenon
  <2>2. f = s[n - 1] /\ f # Root /\ f = z[n - 1]
    BY <1>4, <1>5, <1>10, <2>1 DEF Caller
  <2>3. \A i \in 1..(n - 1) : s[i] # s[n] /\ s[i] \in Nested!Frames
    BY <1>3, <1>4 DEF Chain, Linked
  <2>4. \A i, k \in 1..n : s[i] = s[k] => i = k
    BY <1>3 DEF Chain, Linked
  <2>5. frames = {Root} \cup {s[i] : i \in 1..n} /\ frames' = frames \ {s[n]} /\ s[n] # Root
    <3>1. n \in 1..n /\ s[n] \in Addresses
      BY <1>4
    <3> QED
      BY <1>1, <1>3, <1>6, <2>2, <3>1 DEF Chain, Linked
  <2> HIDE DEF z
  <2>6. Linked(z)'
    <3>1. z # <<>> /\ \A i, k \in 1..Len(z) : z[i] = z[k] => i = k
      BY <2>1, <2>4
    <3>2. frames' = {Root} \cup {z[i] : i \in 1..Len(z)}
      <4>1. 1..n = 1..(n - 1) \cup {n}
        <5> HIDE DEF n
        <5> QED
          BY <1>4
      <4>2. {z[i] : i \in 1..Len(z)} = {s[i] : i \in 1..n} \ {s[n]}
        BY <2>1, <2>3, <4>1
      <4> QED
        BY <2>5, <4>2
    <3>3. parent'[Root] = Null
      BY <1>1, <1>3 DEF Chain, Linked
    <3>4. ASSUME NEW i \in 1..Len(z) PROVE parent'[z[i]] = Caller(z, i)
      <4>1. i \in 1..n /\ z[i] = s[i]
        BY <1>4, <2>1
      <4>2. Caller(z, i) = Caller(s, i)
        BY <2>1, <3>4 DEF Caller
      <4> QED
        BY <1>1, <1>3, <4>1, <4>2 DEF Chain, Linked
    <3>5. ASSUME NEW i \in 1..(Len(z) - 1) PROVE child'[z[i]] = z[i + 1]
      <4>1. /\ i \in 1..(n - 1) /\ i + 1 \in 1..(n - 1) /\ i # n - 1
        BY <2>1
      <4>2. s[i] # f /\ s[i] \in Nested!Frames
        BY <1>4, <2>1, <2>2, <2>3, <2>4, <4>1
      <4>3. child[s[i]] = s[i + 1]
        BY <1>3, <4>1 DEF Chain, Linked
      <4> QED
        BY <1>8, <2>1, <4>1, <4>2, <4>3
    <3>6. child'[z[Len(z)]] = Null
      BY <1>8, <2>1, <2>2
    <3> QED
      BY <3>1, <3>2, <3>3, <3>4, <3>5, <3>6 DEF Linked, Caller
  <2>7. Informed(z)'
    <3>1. \A i \in 1..Len(z) : i \in 1..n /\ z[i] = s[i]
      BY <1>4, <2>1
    <3>2. z[1] = s[1]
      BY <2>1
    <3> QED
      BY <1>1, <1>3, <3>1, <3>2 DEF Chain, Informed
  <2>8. Waiting(z)'
    <3>1. ASSUME NEW i \in 1..(Len(z) - 1) PROVE pc'[z[i]] = "await" /\ value'[z[i]] = None
      <4>1. i \in 1..(n - 1) /\ i # n - 1 /\ z[i] = s[i]
        BY <2>1
      <4>2. s[i] # f /\ s[i] \in Nested!Frames
        BY <1>4, <2>1, <2>2, <2>3, <2>4, <4>1
      <4>3. pc[s[i]] = "await" /\ value[s[i]] = None
        BY <1>3, <4>1 DEF Chain, Waiting
      <4> QED
        BY <1>1, <1>8, <4>1, <4>2, <4>3
    <3> QED
      BY <3>1 DEF Waiting
  <2>9. value[f] = None
    BY <1>3, <1>5, CallerWaits DEF CallersWait
  <2>10. Inner(z)'
    <3>1. z[1] = s[1] /\ z[Len(z)] = f /\ Root # f /\ Root \in Nested!Frames
      BY <2>1, <2>2
    <3>2. /\ pc'[Root] = "await" /\ child'[Root] = z[1] /\ got'[Root] = None /\ value'[Root] = None
      BY <1>1, <1>5, <1>8, <3>1 DEF Inner
    <3>3. running' = f /\ pc'[f] = "run" /\ to_resume' = Null /\ value'[f] = None
      BY <1>1, <1>5, <1>8, <2>9
    <3> QED
      BY <3>1, <3>2, <3>3 DEF Inner
  <2> QED
    BY <1>1, <1>2, <1>7, <1>5, <1>6, <1>10, <2>6, <2>7, <2>8, <2>10 DEF Chain, z
<1> QED
  BY <1>9, <1>10

LEMMA DataResumeKeeps ==
    ASSUME NestedOrdered, NEW s \in Seq(Addresses), Chain(s), NEW f \in Nested!Frames,
           Nested!DataResume(f)
                         PROVE  /\ NestedTypes' /\ main' = "resume" /\ Chain(s)' /\ Inner(s)
                                /\ f = s[Len(s)] /\ Inner(s)' /\ resume_value \in Values
<1> USE NestedConstants
<1>1. /\ running = f /\ pc[f] = "data"
      /\ got' = [got EXCEPT ![f] = resume_value]
      /\ pc' = [pc EXCEPT ![f] = "run"]
      /\ UNCHANGED <<frames, parent, child, scheduler, value, running, to_resume, resume_value, main>>
  BY DEF Nested!DataResume
<1>2. main = "resume"
  BY <1>1, InControl
<1>3. Chain(s)
  OBVIOUS
<1>4. Len(s) \in Nat \ {0} /\ \A i \in 1..Len(s) : s[i] \in Addresses
  BY <1>3 DEF Chain, Linked
<1>5. Inner(s) /\ f = s[Len(s)] /\ to_resume = Null /\ value[f] = None /\ resume_value \in Values
  <2>1. Inner(s)
    BY <1>1, <1>3 DEF Chain, Outer
  <2>2. f # Caller(s, Len(s))
    BY <1>1, <1>3, <2>1, CallerWaits DEF CallersWait
  <2> QED
    BY <1>1, <2>1, <2>2 DEF Inner
<1>6. NestedTypes'
  BY <1>1 DEF NestedOrdered, NestedTypes
<1>7. Linked(s)'
  BY <1>1, <1>3, LinksStay DEF SameStack, Chain
<1>8. Informed(s)'
  BY <1>1, <1>3 DEF Chain, Informed
<1>9. pc'[f] = "run" /\ \A g \in Nested!Frames : g # f => pc'[g] = pc[g] /\ got'[g] = got[g]
  BY <1>1 DEF NestedOrdered, NestedTypes
<1>10. Waiting(s)'
  <2>1. ASSUME NEW i \in 1..(Len(s) - 1) PROVE s[i] # f /\ s[i] \in Nested!Frames
    BY <1>3, <1>4, <1>5 DEF Chain, Linked
  <2> QED
    BY <1>1, <1>3, <1>9, <2>1 DEF Chain, Waiting
<1>11. Inner(s)'
  <2>1. Root # f /\ Root \in Nested!Frames
    BY <1>4, <1>5
  <2> QED
    BY <1>1, <1>5, <1>9, <2>1 DEF Inner
<1> QED
  BY <1>1, <1>2, <1>5, <1>6, <1>7, <1>8, <1>10, <1>11 DEF Chain

LEMMA ResumeWithDataKeeps ==
    ASSUME NestedOrdered, NEW s \in Seq(Addresses), Chain(s), NEW d \in Values,
           Nested!resumeWithData(d)
                             PROVE  /\ NestedTypes' /\ main' = "resume" /\ Chain(s)' /\ Inner(s)
                                    /\ pc[to_resume] = "data" /\ Inner(s)'
<1> USE NestedConstants
<1>1. /\ running = Null /\ to_resume # Null /\ resume_value' = d
      /\ running' = to_resume /\ to_resume' = Null
      /\ UNCHANGED <<frames, pc, parent, child, scheduler, value, got, main>>
  BY DEF Nested!resumeWithData, Nested!promises
<1>2. main = "resume"
  BY <1>1, InControl
<1>3. Chain(s)
  OBVIOUS
<1>4. /\ Inner(s) /\ to_resume = s[Len(s)] /\ pc[s[Len(s)]] = "data" /\ value[s[Len(s)]] = None
  BY <1>1, <1>3 DEF Chain, Inner, Outer
<1>5. NestedTypes'
  BY <1>1 DEF NestedOrdered, NestedTypes
<1>6. Linked(s)'
  BY <1>1, <1>3, LinksStay DEF SameStack, Chain
<1>7. Informed(s)' /\ Waiting(s)'
  BY <1>1, <1>3 DEF Chain, Informed, Waiting
<1>8. Inner(s)'
  BY <1>1, <1>4 DEF Inner
<1> QED
  BY <1>1, <1>2, <1>4, <1>5, <1>6, <1>7, <1>8 DEF Chain

LEMMA ExitKeeps ==
    ASSUME NestedOrdered, NEW s \in Seq(Addresses), Chain(s), Nested!Exit
    PROVE NestedOrdered' /\ Outer(s)
<1> USE NestedConstants
<1>1. /\ main = "resume" /\ running = Null /\ to_resume = Null /\ main' = "over"
      /\ frames' = frames \ ({Root} \cup {f \in frames : parent[f] = Root})
      /\ UNCHANGED <<pc, parent, child, scheduler, value, got, running, to_resume, resume_value>>
  BY DEF Nested!Exit, Nested!promises
<1>2. Chain(s)
  OBVIOUS
<1>3. Len(s) \in Nat \ {0} /\ \A i \in 1..Len(s) : s[i] \in Addresses
  BY <1>2 DEF Chain, Linked
<1>4. Outer(s) /\ value[Root] = got[Root]
  <2>1. Caller(s, Len(s)) # Null /\ s[Len(s)] # Null
    <3>1. \A n \in Nat \ {0} : n \in 1..n /\ (n # 1 => n - 1 \in 1..n)
      OBVIOUS
    <3> QED
      BY <1>3, <3>1 DEF Caller
  <2> QED
    BY <1>1, <1>2, <2>1 DEF Chain, Inner, Outer
<1>5. frames' = {}
  BY <1>1, <1>2, <1>3, <1>4 DEF Chain, Linked, Outer, Caller
<1>6. NestedTypes'
  BY <1>1, <1>5 DEF NestedOrdered, NestedTypes
<1> QED
  BY <1>1, <1>4, <1>5, <1>6 DEF NestedOrdered, NestedPhase, Outer

LEMMA NestedStepKeeps == ASSUME NestedOrdered, Nested!Next PROVE NestedOrdered'
<1>1. CASE main = "over" /\ UNCHANGED Nested!vars
  BY <1>1 DEF Nested!vars, NestedOrdered, NestedTypes, NestedPhase
<1>2. ASSUME main' = "resume", NestedTypes', NEW s \in Seq(Addresses), Chain(s)' PROVE NestedOrdered'
  BY <1>2 DEF NestedOrdered, NestedPhase
<1>3. CASE main = "resume"
  <2>1. PICK s \in Seq(Addresses) : Chain(s)
    BY <1>3, InControl
  <2>2. ASSUME NEW f \in Addresses, NEW c \in Addresses, Nested!Call(f, c) PROVE NestedOrdered'
    <3>1. Append(s, c) \in Seq(Addresses)
      OBVIOUS
    <3> QED
      BY <1>2, <2>1, <2>2, <3>1, CallKeepsStack
  <2>3. ASSUME NEW f \in Nested!Frames, Nested!AwaitResume(f) PROVE NestedOrdered'
    <3>1. CASE Len(s) = 1
      BY <1>2, <2>1, <2>3, <3>1, AwaitResumeKeeps
    <3>2. CASE Len(s) # 1
      <4>1. SubSeq(s, 1, Len(s) - 1) \in Seq(Addresses)
        <5>1. Len(s) \in Nat /\ \A i \in 1..(Len(s) - 1) : s[i] \in Addresses
          OBVIOUS
        <5> QED
          BY <2>1, <5>1, SubSeqProperties DEF Chain, Linked
      <4> QED
        BY <1>2, <2>1, <2>3, <3>2, <4>1, AwaitResumeKeeps
    <3> QED
      BY <3>1, <3>2
  <2>4. ASSUME NEW f \in Addresses, Nested!GetData(f) PROVE NestedOrdered'
    BY <1>2, <2>1, <2>4, GetDataKeeps
  <2>5. ASSUME NEW f \in Nested!Frames, NEW v \in Values, Nested!Return(f, v) PROVE NestedOrdered'
    BY <1>2, <2>1, <2>5, ReturnKeeps
  <2>6. ASSUME NEW f \in Nested!Frames, Nested!DataResume(f) PROVE NestedOrdered'
    BY <1>2, <2>1, <2>6, DataResumeKeeps
  <2>7. ASSUME NEW d \in Values, Nested!resumeWithData(d) PROVE NestedOrdered'
    BY <1>2, <2>1, <2>7, ResumeWithDataKeeps
  <2>8. ASSUME Nested!Exit PROVE NestedOrdered'
    BY <2>1, <2>8, ExitKeeps
  <2>9. ASSUME NEW f \in Addresses PROVE ~Nested!CreateTask(f) /\ ~Nested!SpawnTask
    BY <1>3 DEF Nested!CreateTask, Nested!SpawnTask
  <2> QED
    BY <1>1, <2>2, <2>3, <2>4, <2>5, <2>6, <2>7, <2>8, <2>9, NestedAssumption DEF Nested!Next
<1>4. CASE main # "resume"
  <2>1. running = Null /\ to_resume = Null
    BY <1>4, InControl
  <2>2. ASSUME NEW f \in Nested!Frames PROVE running # f
    BY <2>1, NestedConstants
  <2>3. \/ \E f \in Addresses : Nested!CreateTask(f)
        \/ Nested!SpawnTask
        \/ main = "over" /\ UNCHANGED Nested!vars
    BY <1>4, <2>1, <2>2, NestedConstants DEF Nested!Next, Nested!GetData, Nested!Call,
       Nested!Body, Nested!AwaitResume,
       Nested!DataResume, Nested!Return, Nested!resumeWithData, Nested!Exit
  <2>4. ASSUME Nested!SpawnTask PROVE NestedOrdered'
    <3>1. /\ NestedTypes' /\ main' = "resume" /\ \E f \in Addresses : Chain(<<f>>)'
      BY <2>4, SpawnTaskKeeps
    <3>2. \A f \in Addresses : <<f>> \in Seq(Addresses)
      OBVIOUS
    <3> QED
      BY <1>2, <3>1, <3>2
  <2> QED
    BY <1>1, <2>3, <2>4, CreateTaskKeeps
<1> QED
  BY <1>3, <1>4

LEMMA NestedInvariance == Spec => []NestedInv
<1>1. Init => NestedInv
  BY NestedStart DEF Init, NestedInv
<1>2. NestedInv /\ [Next]_variables => NestedInv'
  <2> SUFFICES ASSUME NestedInv, [Next]_variables, program' = "nested" PROVE NestedOrdered'
    BY DEF NestedInv
  <2>1. program = "nested" /\ NestedOrdered
    BY DEF NestedInv, Next, OwningNext, ListedNext, DetachedNext, NestedNext, OwningOthers,
       ListedOthers, DetachedOthers, variables
  <2>2. CASE Nested!Next
    BY <2>1, <2>2, NestedStepKeeps
  <2>3. CASE UNCHANGED variables
    <3>1. /\ UNCHANGED <<frames, main>>
          /\ UNCHANGED <<pc, parent, child, scheduler, value, got, running, to_resume, resume_value>>
      BY <2>3 DEF variables, nested
    <3>2. NestedTypes'
      BY <2>1, <3>1 DEF NestedOrdered, NestedTypes
    <3>3. Unlinked => Unlinked'
      BY <3>1 DEF Unlinked
    <3>4. ASSUME NEW s \in Seq(Addresses), Chain(s) PROVE Chain(s)'
      <4>1. Linked(s)'
        BY <3>1, <3>4, LinksStay DEF SameStack, Chain
      <4>2. Informed(s)' /\ Waiting(s)'
        BY <3>1, <3>4 DEF Chain, Informed, Waiting
      <4>3. (Inner(s) => Inner(s)') /\ (Outer(s) => Outer(s)')
        BY <3>1 DEF Inner, Outer, Caller
      <4> QED
        BY <3>4, <4>1, <4>2, <4>3 DEF Chain
    <3> QED
      BY <2>1, <3>1, <3>2, <3>3, <3>4 DEF NestedOrdered, NestedPhase
  <2> QED
    BY <2>1, <2>2, <2>3 DEF Next, OwningNext, ListedNext, DetachedNext, NestedNext
<1> QED
  BY <1>1, <1>2, PTL DEF Spec

-----------------------------------------------------------------------------
(* Nested functions: the properties *)

\* Whoever walks up from the innermost function finds the scheduler.
LEMMA SchedulerFound ==
    ASSUME NestedOrdered, NEW s \in Seq(Addresses), Chain(s)
    PROVE  Nested!Nearest(s[Len(s)]) # {}
<1> DEFINE f == s[Len(s)]
           T == {n \in 0..Depth : Nested!up(f)[n] # Null /\ scheduler[Nested!up(f)[n]]}
<1>1. Len(s) \in Nat \ {0} /\ Len(s) < Depth /\ \A i \in 1..Len(s) : s[i] \in Addresses
  BY StackFits DEF Chain, Linked
<1>2. Nested!up(f) = [n \in 0..Depth |-> IF n < Len(s) THEN s[Len(s) - n]
                                         ELSE IF n = Len(s) THEN Root ELSE Null]
  <2>1. Linked(s) /\ Len(s) \in 1..Len(s) /\ Len(s) \in Nat
    BY <1>1 DEF Chain
  <2> QED
    BY <2>1, UpTheStackHolds DEF UpTheStack
<1>3. Len(s) - 1 \in T
  <2>1. /\ Depth \in Nat /\ Len(s) - 1 \in 0..Depth /\ Len(s) - 1 < Len(s)
        /\ Len(s) - (Len(s) - 1) = 1 /\ 1 \in 1..Len(s)
    BY <1>1, NestedConstants
  <2>2. Nested!up(f)[Len(s) - 1] = s[1]
    BY <1>2, <2>1
  <2>3. s[1] # Null /\ scheduler[s[1]]
    BY <1>1, <2>1, NestedConstants DEF Chain, Informed
  <2> QED
    BY <2>1, <2>2, <2>3
<1>4. T \in SUBSET Nat
  OBVIOUS
<1> HIDE DEF f
<1>5. PICK m \in T : \A n \in T : m <= n
  <2> HIDE DEF T
  <2> QED
    BY <1>3, <1>4, LeastNumber
<1>6. m \in 0..Depth /\ Nested!up(f)[m] # Null /\ scheduler[Nested!up(f)[m]] /\ m <= Len(s) - 1
  BY <1>3, <1>5
<1>7. ASSUME NEW k \in 0..(m - 1) PROVE ~scheduler[Nested!up(f)[k]]
  <2>1. /\ k \in 0..Depth /\ k < m /\ k < Len(s) /\ Len(s) - k \in 1..Len(s)
        /\ m \in Nat /\ k \in Nat
    BY <1>1, <1>6, NestedConstants
  <2>2. Nested!up(f)[k] # Null
    BY <1>1, <1>2, <2>1, NestedConstants
  <2>3. k \notin T
    BY <1>5, <2>1
  <2> QED
    BY <2>1, <2>2, <2>3
<1>8. m \in Nested!Nearest(f)
  BY <1>6, <1>7, SameDepthHolds DEF Nested!Nearest, SameDepth
<1> QED
  BY <1>8 DEF f

\* What the source asserts holds: whichever body has control finds its scheduler,
\* nobody else is registered there, no function calls while it has a callee, and
\* none returns twice.
THEOREM NestedAssertionsHold == Spec => []AssertionsHold
<1>1. NestedInv => AssertionsHold
  <2> SUFFICES ASSUME NestedOrdered PROVE Nested!AssertionsHold
    BY DEF NestedInv, AssertionsHold
  <2>1. ASSUME NEW f \in Nested!Frames, running = f, pc[f] = "run"
        PROVE  /\ to_resume = Null /\ child[f] = Null /\ value[f] = None
               /\ f # Root => Nested!Nearest(f) # {}
    <3>1. f # Null
      BY NestedConstants
    <3>2. PICK s \in Seq(Addresses) : Chain(s)
      BY <2>1, <3>1, InControl
    <3>3. /\ to_resume = Null /\ value[f] = None
          /\ \/ f = s[Len(s)] /\ Inner(s)
             \/ f = Root /\ Outer(s)
      BY <2>1, <3>1, <3>2, RunsBody
    <3>4. CASE f = s[Len(s)] /\ Inner(s)
      BY <3>2, <3>3, <3>4, SchedulerFound DEF Chain, Linked
    <3>5. CASE f = Root /\ Outer(s)
      BY <3>3, <3>5 DEF Outer
    <3> QED
      BY <3>3, <3>4, <3>5
  <2> QED
    BY <2>1, NestedConstants DEF Nested!AssertionsHold, Nested!Body
<1> QED
  BY <1>1, NestedInvariance, PTL

\* No handle is resumed and no link of the chain of callers followed after its
\* frame was freed; and while data is awaited every promise of the stack has the
\* scheduler.
THEOREM NestedLinksAlive == Spec => []LinksAreAlive
<1> USE NestedConstants
<1>1. NestedInv => LinksAreAlive
  <2> SUFFICES ASSUME NestedOrdered PROVE Nested!LinksAreAlive
    BY DEF NestedInv, LinksAreAlive
  <2>1. ASSUME main = "resume" PROVE Nested!LinksAreAlive
    <3>1. PICK s \in Seq(Addresses) : Chain(s)
      BY <2>1, InControl
    <3>2. /\ Len(s) \in Nat \ {0} /\ frames = {Root} \cup {s[i] : i \in 1..Len(s)}
          /\ \A i \in 1..Len(s) : s[i] \in Addresses /\ s[i] \in frames
      BY <3>1 DEF Chain, Linked
    <3>3. /\ Len(s) \in 1..Len(s) /\ 1 \in 1..Len(s)
          /\ \A i \in 1..Len(s) : i # 1 => i - 1 \in 1..Len(s)
          /\ \A i \in 1..Len(s) : i # Len(s) => i \in 1..(Len(s) - 1) /\ i + 1 \in 1..Len(s)
      <4>1. \A n \in Nat \ {0} : /\ n \in 1..n /\ 1 \in 1..n
                                 /\ \A i \in 1..n : i # 1 => i - 1 \in 1..n
                                 /\ \A i \in 1..n : i # n => i \in 1..(n - 1) /\ i + 1 \in 1..n
        OBVIOUS
      <4> QED
        BY <3>2, <4>1
    <3>4. \A i \in 1..Len(s) : Caller(s, i) \in frames
      BY <3>2, <3>3 DEF Caller
    <3>5. /\ running # Null => running \in frames
          /\ to_resume # Null => to_resume = s[Len(s)] /\ Inner(s)
      BY <3>1, <3>2, <3>3, <3>4 DEF Chain, Inner, Outer
    <3>6. ASSUME NEW f \in frames
          PROVE  /\ child[f] # Null => child[f] \in frames
                 /\ parent[f] # Null => parent[f] \in frames
      <4>1. CASE f = Root
        <5>1. parent[f] = Null
          BY <3>1, <4>1 DEF Chain, Linked
        <5>2. child[f] \in {s[1], Null}
          BY <3>1, <4>1 DEF Chain, Inner, Outer
        <5> QED
          BY <3>2, <3>3, <5>1, <5>2
      <4>2. CASE f # Root
        <5>1. PICK i \in 1..Len(s) : f = s[i]
          BY <3>2, <4>2
        <5>2. parent[f] \in frames
          BY <3>1, <3>4, <5>1 DEF Chain, Linked
        <5>3. child[f] # Null => child[f] \in frames
          BY <3>1, <3>2, <3>3, <5>1 DEF Chain, Linked
        <5> QED
          BY <5>2, <5>3
      <4> QED
        BY <4>1, <4>2
    <3>7. ASSUME to_resume # Null, NEW n \in 0..Depth, Nested!up(to_resume)[n] \notin {Null, Root}
          PROVE  scheduler[Nested!up(to_resume)[n]]
      <4>1. \A i \in 1..Len(s) : scheduler[s[i]]
        BY <3>1, <3>2, <3>3, <3>5, <3>7 DEF Inner
      <4>2. Nested!up(to_resume) = [m \in 0..Depth |-> IF m < Len(s) THEN s[Len(s) - m]
                                                       ELSE IF m = Len(s) THEN Root ELSE Null]
        <5>1. Linked(s) /\ Len(s) \in 1..Len(s) /\ Len(s) \in Nat /\ to_resume = s[Len(s)]
          BY <3>1, <3>2, <3>3, <3>5, <3>7 DEF Chain
        <5> QED
          BY <5>1, UpTheStackHolds DEF UpTheStack
      <4>3. n < Len(s)
        BY <3>2, <3>7, <4>2
      <4>4. Len(s) - n \in 1..Len(s) /\ Nested!up(to_resume)[n] = s[Len(s) - n]
        BY <3>2, <4>2, <4>3
      <4> QED
        BY <4>1, <4>4
    <3> QED
      BY <3>2, <3>3, <3>5, <3>6, <3>7, SameDepthHolds DEF Nested!LinksAreAlive, SameDepth
  <2>2. ASSUME main # "resume" PROVE Nested!LinksAreAlive
    <3>1. /\ running = Null /\ to_resume = Null
          /\ frames = {} \/ \A f \in Nested!Frames : child[f] = Null /\ parent[f] = Null
          /\ frames \subseteq Nested!Frames
      BY <2>2 DEF NestedOrdered, NestedPhase, NestedTypes, Unlinked
    <3> QED
      BY <3>1 DEF Nested!LinksAreAlive
  <2> QED
    BY <2>1, <2>2
<1> QED
  BY <1>1, NestedInvariance, PTL

\* result() has a result when main() asks for it, and then no frame is left.
THEOREM NestedEndsWithResult == Spec => []EndsWithResult
<1>1. NestedInv => EndsWithResult
  BY NestedConstants DEF NestedInv, NestedOrdered, NestedPhase, EndsWithResult, Nested!EndsWithResult
<1> QED
  BY <1>1, NestedInvariance, PTL

-----------------------------------------------------------------------------
(* Nested functions are a call stack *)

\* What the abstract state is at each place of the program.
CallShape ==
    /\ main \in {"create", "spawn"} /\ Unlinked =>
          Nested!stack = <<>> /\ Nested!mode = "idle" /\ got[Root] = None
    /\ main \in {"resume", "over"} /\ child[Root] = Null /\ got[Root] \in Values
          /\ to_resume = Null /\ (running # Null => pc[running] # "data") =>
          Nested!stack = <<>> /\ Nested!mode = "done"
    /\ \A s \in Seq(Addresses) : main = "resume" /\ Linked(s) /\ Inner(s) =>
          /\ Nested!stack = [i \in 1..Len(s) |-> got[s[i]]]
          /\ Nested!mode = IF to_resume # Null \/ (running # Null /\ pc[running] = "data")
                           THEN "wait" ELSE "run"
          /\ got[Root] = None

LEMMA CallShapeHolds == CallShape
<1> USE NestedConstants
<1>1. ASSUME main \in {"create", "spawn"}, Unlinked
      PROVE  Nested!stack = <<>> /\ Nested!mode = "idle" /\ got[Root] = None
  BY <1>1, StackShapeHolds DEF Unlinked, StackShape, Nested!mode
<1>2. ASSUME main \in {"resume", "over"}, child[Root] = Null, got[Root] \in Values,
             to_resume = Null, running # Null => pc[running] # "data"
      PROVE  Nested!stack = <<>> /\ Nested!mode = "done"
  BY <1>2, StackShapeHolds DEF StackShape, Nested!mode
<1>3. ASSUME NEW s \in Seq(Addresses), main = "resume", Linked(s), Inner(s)
      PROVE  /\ Nested!stack = [i \in 1..Len(s) |-> got[s[i]]]
             /\ Nested!mode = IF to_resume # Null \/ (running # Null /\ pc[running] = "data")
                              THEN "wait" ELSE "run"
             /\ got[Root] = None
  <2>1. child[Root] = s[1] /\ got[Root] = None
    BY <1>3 DEF Inner
  <2> QED
    BY <1>3, <2>1, StackShapeHolds DEF StackShape, Nested!mode
<1> QED
  BY <1>1, <1>2, <1>3 DEF CallShape

LEMMA CallShapeNext == CallShape'
BY CallShapeHolds, PTL

\* A step of the call stack, in the terms of the nested functions.
Stays == Nested!stack' = Nested!stack /\ Nested!mode' = Nested!mode /\ got'[Root] = got[Root]

StartsTask == /\ Nested!mode = "idle" /\ Nested!mode' = "run"
              /\ Nested!stack' = <<None>> /\ got'[Root] = got[Root]

Pushes == /\ Nested!mode = "run" /\ Nested!mode' = "run"
          /\ Nested!stack' = Append(Nested!stack, None) /\ got'[Root] = got[Root]

Asks == /\ Nested!mode = "run" /\ Nested!mode' = "wait"
        /\ Nested!stack' = Nested!stack /\ got'[Root] = got[Root]

Supplies(d) == /\ Nested!mode = "wait" /\ Nested!mode' = "run" /\ got'[Root] = got[Root]
               /\ Nested!stack' = [Nested!stack EXCEPT ![Len(Nested!stack)] = d]

Pops(v) == /\ Nested!mode = "run" /\ Nested!mode' = "run" /\ Len(Nested!stack) > 1
           /\ Nested!stack' = [SubSeq(Nested!stack, 1, Len(Nested!stack) - 1)
                                  EXCEPT ![Len(Nested!stack) - 1] = v]
           /\ got'[Root] = got[Root]

Ends(v) == /\ Nested!mode = "run" /\ Nested!mode' = "done"
           /\ Len(Nested!stack) = 1 /\ Nested!stack' = <<>> /\ got'[Root] = v

CallStep == \/ Stays \/ StartsTask \/ Pushes \/ Asks
            \/ \E v \in Values : Supplies(v) \/ Pops(v) \/ Ends(v)

LEMMA CallStepIsStep == ASSUME program = "nested", program' = "nested", CallStep
                        PROVE  [Calls!Next]_(Calls!cvars)
<1>3. CASE Stays
  BY <1>3 DEF Stays, Calls!cvars
<1>4. CASE StartsTask
  BY <1>4 DEF StartsTask, Calls!Next, Calls!Start
<1>5. CASE Pushes
  BY <1>5 DEF Pushes, Calls!Next, Calls!Call
<1>6. CASE Asks
  BY <1>6 DEF Asks, Calls!Next, Calls!Ask
<1>7. ASSUME NEW v \in Values, Supplies(v) PROVE Calls!Next
  BY <1>7 DEF Supplies, Calls!Next, Calls!Supply
<1>8. ASSUME NEW v \in Values, Pops(v) PROVE Calls!Next
  BY <1>8 DEF Pops, Calls!Next, Calls!Return
<1>9. ASSUME NEW v \in Values, Ends(v) PROVE Calls!Next
  BY <1>9 DEF Ends, Calls!Next, Calls!Return
<1> QED
  BY <1>3, <1>4, <1>5, <1>6, <1>7, <1>8, <1>9 DEF CallStep

LEMMA StackFunction == ASSUME NEW S, NEW f \in [Nested!Frames -> S], NEW s \in Seq(Addresses)
                       PROVE  /\ [i \in 1..Len(s) |-> f[s[i]]] \in Seq(S)
                              /\ Len([i \in 1..Len(s) |-> f[s[i]]]) = Len(s)
<1>1. Len(s) \in Nat /\ \A i \in 1..Len(s) : f[s[i]] \in S
  BY NestedConstants
<1> QED
  BY <1>1

LEMMA AppendFunction ==
    ASSUME NEW S, NEW t \in Seq(S), NEW e \in S
    PROVE  Append(t, e) = [i \in 1..(Len(t) + 1) |-> IF i = Len(t) + 1 THEN e ELSE t[i]]
<1> DEFINE a == Append(t, e)
           m == Len(t) + 1
<1>1. /\ a \in Seq(S) /\ Len(a) = m /\ m \in Nat /\ a[m] = e
      /\ \A i \in 1..Len(t) : a[i] = t[i]
  OBVIOUS
<1>2. \A i \in 1..m : i # m => i \in 1..Len(t)
  OBVIOUS
<1> HIDE DEF a, m
<1>3. a = [i \in 1..m |-> a[i]]
  BY <1>1
<1>4. a = [i \in 1..m |-> IF i = m THEN e ELSE t[i]]
  BY <1>1, <1>2, <1>3
<1> QED
  BY <1>4 DEF a, m

LEMMA CallPushes == ASSUME NestedOrdered, NestedOrdered', NEW s \in Seq(Addresses), Chain(s),
                           NEW f \in Addresses, NEW c \in Addresses, Nested!Call(f, c)
                    PROVE  Pushes
<1> USE NestedConstants
<1> DEFINE n == Len(s)
           z == Append(s, c)
           A == [i \in 1..n |-> got[s[i]]]
<1>1. /\ running = f /\ pc[f] = "run" /\ c \notin frames /\ running' = c
      /\ got' = [got EXCEPT ![c] = None] /\ to_resume' = to_resume
      /\ pc' = [pc EXCEPT ![c] = "run", ![f] = "await"]
  BY DEF Nested!Call, Nested!Body
<1>2. main = "resume" /\ to_resume = Null
  BY <1>1, InControl, RunsBody
<1>3. main' = "resume" /\ Inner(s) /\ f = s[n] /\ Chain(z)' /\ Inner(z)'
  BY CallKeepsStack
<1>4. /\ n \in Nat \ {0} /\ \A i \in 1..n : s[i] \in frames
      /\ z \in Seq(Addresses) /\ Len(z) = n + 1 /\ z[n + 1] = c /\ \A i \in 1..n : z[i] = s[i]
  BY DEF Chain, Linked
<1>5. c # Root /\ c # f /\ \A i \in 1..n : s[i] # c /\ s[i] \in Nested!Frames
  BY <1>1, <1>3, <1>4 DEF NestedOrdered, NestedTypes
<1>6. /\ got \in [Nested!Frames -> Values \cup {None}] /\ pc'[c] = "run"
      /\ got'[c] = None /\ got'[Root] = got[Root] /\ \A i \in 1..n : got'[s[i]] = got[s[i]]
  BY <1>1, <1>5 DEF NestedOrdered, NestedTypes
<1>7. Nested!stack = A /\ Nested!mode = "run"
  BY <1>1, <1>2, <1>3, CallShapeHolds DEF CallShape, Chain
<1> HIDE DEF z
<1>8. Nested!stack' = [i \in 1..Len(z) |-> got'[z[i]]] /\ Nested!mode' = "run"
  <2>1. /\ Nested!stack' = [i \in 1..Len(z) |-> got'[z[i]]]
        /\ Nested!mode' = IF to_resume' # Null \/ (running' # Null /\ pc'[running'] = "data")
                          THEN "wait" ELSE "run"
    BY <1>3, <1>4, CallShapeNext DEF CallShape, Chain
  <2> QED
    BY <1>1, <1>2, <1>6, <2>1
<1>9. A \in Seq(Values \cup {None}) /\ Len(A) = n
  BY <1>6, StackFunction
<1>10. [i \in 1..Len(z) |-> got'[z[i]]] = Append(A, None)
  <2>1. Append(A, None) = [i \in 1..(n + 1) |-> IF i = n + 1 THEN None ELSE A[i]]
    <3> HIDE DEF A
    <3> QED
      BY <1>9, AppendFunction
  <2>2. \A i \in 1..(n + 1) : got'[z[i]] = IF i = n + 1 THEN None ELSE A[i]
    BY <1>4, <1>6
  <2> QED
    BY <1>4, <2>1, <2>2
<1> QED
  BY <1>6, <1>7, <1>8, <1>10 DEF Pushes

LEMMA DataAsks == ASSUME NestedOrdered, NEW s \in Seq(Addresses), Chain(s),
                         NEW f \in Addresses, Nested!GetData(f)
                  PROVE  Asks
<1> USE NestedConstants
<1>1. /\ running = f /\ pc[f] = "run" /\ got' = got /\ to_resume' = f
  BY DEF Nested!GetData, Nested!Body
<1>2. main = "resume" /\ to_resume = Null
  BY <1>1, InControl, RunsBody
<1>3. main' = "resume" /\ Inner(s) /\ Chain(s)' /\ Inner(s)'
  BY GetDataKeeps
<1>4. Nested!stack = [i \in 1..Len(s) |-> got[s[i]]] /\ Nested!mode = "run"
  BY <1>1, <1>2, <1>3, CallShapeHolds DEF CallShape, Chain
<1>5. Nested!stack' = [i \in 1..Len(s) |-> got'[s[i]]] /\ Nested!mode' = "wait"
  BY <1>1, <1>3, CallShapeNext DEF CallShape, Chain
<1> QED
  BY <1>1, <1>4, <1>5 DEF Asks

LEMMA DataStays == ASSUME NestedOrdered, NEW s \in Seq(Addresses), Chain(s),
                          NEW d \in Values, Nested!resumeWithData(d)
                   PROVE  Stays
<1> USE NestedConstants
<1>1. /\ to_resume # Null /\ running' = to_resume /\ got' = got /\ pc' = pc /\ to_resume' = Null
  BY DEF Nested!resumeWithData, Nested!promises
<1>2. main = "resume"
  BY DEF Nested!resumeWithData
<1>3. main' = "resume" /\ Inner(s) /\ Chain(s)' /\ Inner(s)' /\ pc[to_resume] = "data"
  BY ResumeWithDataKeeps
<1>4. Nested!stack = [i \in 1..Len(s) |-> got[s[i]]] /\ Nested!mode = "wait"
  BY <1>1, <1>2, <1>3, CallShapeHolds DEF CallShape, Chain
<1>5. Nested!stack' = [i \in 1..Len(s) |-> got'[s[i]]] /\ Nested!mode' = "wait"
  BY <1>1, <1>3, CallShapeNext DEF CallShape, Chain
<1> QED
  BY <1>1, <1>4, <1>5 DEF Stays

LEMMA DataSupplied == ASSUME NestedOrdered, NEW s \in Seq(Addresses), Chain(s),
                             NEW f \in Nested!Frames, Nested!DataResume(f)
                      PROVE  resume_value \in Values /\ Supplies(resume_value)
<1> USE NestedConstants
<1> DEFINE n == Len(s)
           A == [i \in 1..n |-> got[s[i]]]
<1>1. /\ running = f /\ pc[f] = "data" /\ got' = [got EXCEPT ![f] = resume_value]
      /\ pc' = [pc EXCEPT ![f] = "run"] /\ UNCHANGED <<running, to_resume>>
  BY DEF Nested!DataResume
<1>2. main = "resume"
  BY <1>1, InControl
<1>3. /\ main' = "resume" /\ Inner(s) /\ Chain(s)' /\ Inner(s)' /\ f = s[n]
      /\ resume_value \in Values
  BY DataResumeKeeps
<1>4. /\ n \in Nat \ {0} /\ n \in 1..n /\ \A i \in 1..n : s[i] \in Addresses
      /\ \A i \in 1..n : s[i] = f => i = n
  BY <1>3 DEF Chain, Linked
<1>5. /\ got \in [Nested!Frames -> Values \cup {None}] /\ got'[f] = resume_value
      /\ \A g \in Nested!Frames : g # f => got'[g] = got[g]
      /\ pc'[f] = "run" /\ f # Root
  BY <1>1, <1>3, <1>4 DEF NestedOrdered, NestedTypes
<1>6. to_resume = Null
  BY <1>1, <1>3 DEF Inner
<1>7. Nested!stack = A /\ Nested!mode = "wait"
  BY <1>1, <1>2, <1>3, CallShapeHolds DEF CallShape, Chain
<1>8. Nested!stack' = [i \in 1..n |-> got'[s[i]]] /\ Nested!mode' = "run"
  BY <1>1, <1>3, <1>5, <1>6, CallShapeNext DEF CallShape, Chain
<1>9. A \in Seq(Values \cup {None}) /\ Len(A) = n /\ DOMAIN A = 1..n
  BY <1>5, StackFunction
<1>10. [i \in 1..n |-> got'[s[i]]] = [A EXCEPT ![n] = resume_value]
  <2>1. \A i \in 1..n : got'[s[i]] = IF i = n THEN resume_value ELSE A[i]
    BY <1>3, <1>4, <1>5
  <2> QED
    BY <1>9, <2>1
<1> QED
  BY <1>3, <1>5, <1>7, <1>8, <1>9, <1>10 DEF Supplies

LEMMA ReturnStays == ASSUME NestedOrdered, NEW s \in Seq(Addresses), Chain(s),
                            NEW f \in Nested!Frames, NEW v \in Values, Nested!Return(f, v)
                     PROVE  Stays
<1> USE NestedConstants
<1>1. /\ running = f /\ pc[f] = "run" /\ got' = got /\ to_resume' = to_resume /\ child' = child
  BY DEF Nested!Return
<1>2. main = "resume" /\ to_resume = Null
  BY <1>1, InControl, RunsBody
<1>3. /\ main' = "resume" /\ Chain(s)'
      /\ \/ f = s[Len(s)] /\ Inner(s) /\ Inner(s)'
         \/ f = Root /\ Outer(s) /\ Outer(s)'
  BY ReturnKeeps
<1>4. CASE f = s[Len(s)] /\ Inner(s) /\ Inner(s)'
  <2>1. Nested!stack = [i \in 1..Len(s) |-> got[s[i]]] /\ Nested!mode = "run"
    BY <1>1, <1>2, <1>4, CallShapeHolds DEF CallShape, Chain
  <2>2. running' # Null => pc'[running'] # "data"
    <3>1. running' = parent[f] /\ pc' = [pc EXCEPT ![f] = "final"]
      BY DEF Nested!Return
    <3>2. pc'[f] = "final"
      BY <3>1 DEF NestedOrdered, NestedTypes
    <3> QED
      BY <1>1, <1>2, <1>3, <1>4, <3>2, CallerWaitsNext DEF CallersWait, Inner
  <2>3. Nested!stack' = [i \in 1..Len(s) |-> got'[s[i]]] /\ Nested!mode' = "run"
    BY <1>1, <1>2, <1>3, <1>4, <2>2, CallShapeNext DEF CallShape, Chain
  <2> QED
    BY <1>1, <2>1, <2>3 DEF Stays
<1>5. CASE f = Root /\ Outer(s) /\ Outer(s)'
  <2>1. Nested!stack = <<>> /\ Nested!mode = "done"
    BY <1>1, <1>2, <1>5, CallShapeHolds DEF CallShape, Outer
  <2>2. Nested!stack' = <<>> /\ Nested!mode' = "done"
    BY <1>3, <1>5, CallShapeNext DEF CallShape, Outer
  <2> QED
    BY <1>1, <2>1, <2>2 DEF Stays
<1> QED
  BY <1>3, <1>4, <1>5

LEMMA ResumePops == ASSUME NestedOrdered, NEW s \in Seq(Addresses), Chain(s),
                           NEW f \in Nested!Frames, Nested!AwaitResume(f)
                    PROVE  \E v \in Values : Pops(v) \/ Ends(v)
<1> USE NestedConstants
<1> DEFINE n == Len(s)
           v == value[s[n]]
           z == SubSeq(s, 1, n - 1)
           A == [i \in 1..n |-> got[s[i]]]
<1>1. /\ running = f /\ pc[f] = "await" /\ pc' = [pc EXCEPT ![f] = "run"]
      /\ UNCHANGED <<running, to_resume>>
  BY DEF Nested!AwaitResume
<1>2. main = "resume" /\ to_resume = Null
  BY <1>1, InControl, AwaitingCaller
<1>3. /\ main' = "resume" /\ Inner(s) /\ f = Caller(s, n) /\ v \in Values
      /\ got' = [got EXCEPT ![f] = v]
      /\ IF n = 1 THEN Chain(s)' /\ Outer(s)' ELSE Chain(z)' /\ Inner(z)'
  BY AwaitResumeKeeps
<1>4. /\ n \in Nat \ {0} /\ \A i \in 1..n : s[i] \in Addresses
      /\ \A i, k \in 1..n : s[i] = s[k] => i = k
  BY DEF Chain, Linked
<1>5. /\ got \in [Nested!Frames -> Values \cup {None}] /\ got'[f] = v /\ pc'[f] = "run"
      /\ \A g \in Nested!Frames : g # f => got'[g] = got[g]
  BY <1>1, <1>3 DEF NestedOrdered, NestedTypes
<1>6. Nested!stack = A /\ Nested!mode = "run"
  BY <1>1, <1>2, <1>3, CallShapeHolds DEF CallShape, Chain
<1>7. A \in Seq(Values \cup {None}) /\ Len(A) = n
  BY <1>5, StackFunction
<1>8. CASE n = 1
  <2>1. f = Root
    BY <1>3, <1>8 DEF Caller
  <2>2. Nested!stack' = <<>> /\ Nested!mode' = "done"
    BY <1>1, <1>2, <1>3, <1>5, <1>8, CallShapeNext DEF CallShape, Outer
  <2>3. Ends(v)
    BY <1>5, <1>6, <1>7, <1>8, <2>1, <2>2 DEF Ends
  <2> QED
    BY <1>3, <2>3
<1>9. CASE n # 1
  <2>1. n - 1 \in Nat \ {0} /\ n > 1 /\ n - 1 \in 1..(n - 1) /\ 1..(n - 1) \subseteq 1..n
    <3>1. \A m \in Nat \ {0} : m # 1 =>
             m - 1 \in Nat \ {0} /\ m > 1 /\ m - 1 \in 1..(m - 1) /\ 1..(m - 1) \subseteq 1..m
      OBVIOUS
    <3> QED
      BY <1>4, <1>9, <3>1
  <2>2. \A S : \A t \in Seq(S) : Len(t) = n =>
           /\ SubSeq(t, 1, n - 1) \in Seq(S) /\ Len(SubSeq(t, 1, n - 1)) = n - 1
           /\ \A i \in 1..(n - 1) : SubSeq(t, 1, n - 1)[i] = t[i]
    BY <2>1, FirstPart
  <2>3. z \in Seq(Addresses) /\ Len(z) = n - 1 /\ \A i \in 1..(n - 1) : z[i] = s[i]
    BY <2>2
  <2>4. f = s[n - 1] /\ f # Root
    BY <1>3, <1>4, <1>9, <2>1 DEF Caller
  <2> DEFINE B == SubSeq(A, 1, n - 1)
  <2>5. B \in Seq(Values \cup {None}) /\ Len(B) = n - 1 /\ \A i \in 1..(n - 1) : B[i] = A[i]
    <3> HIDE DEF A
    <3> QED
      BY <1>7, <2>2
  <2> HIDE DEF z, B
  <2>6. /\ Nested!stack' = [i \in 1..(n - 1) |-> got'[z[i]]]
        /\ Nested!mode' = IF to_resume' # Null \/ (running' # Null /\ pc'[running'] = "data")
                          THEN "wait" ELSE "run"
    BY <1>3, <1>9, <2>3, CallShapeNext DEF CallShape, Chain
  <2>7. Nested!mode' = "run"
    BY <1>1, <1>2, <1>5, <2>6
  <2>8. \A i \in 1..(n - 1) : got'[z[i]] = IF i = n - 1 THEN v ELSE B[i]
    <3> TAKE i \in 1..(n - 1)
    <3>1. i \in 1..n /\ n - 1 \in 1..n /\ z[i] = s[i] /\ B[i] = got[s[i]] /\ s[i] \in Nested!Frames
      BY <1>4, <2>1, <2>3, <2>5
    <3>2. i # n - 1 => s[i] # f
      BY <1>4, <2>4, <3>1
    <3> QED
      BY <1>5, <2>4, <3>1, <3>2
  <2>9. [i \in 1..(n - 1) |-> got'[z[i]]] = [B EXCEPT ![n - 1] = v]
    <3>1. B = [i \in 1..(n - 1) |-> B[i]]
      BY <2>5
    <3> QED
      BY <2>8, <3>1
  <2>10. got'[Root] = got[Root]
    BY <1>5, <2>4
  <2>11. Pops(v)
    <3>1. Len(Nested!stack) = n /\ SubSeq(Nested!stack, 1, Len(Nested!stack) - 1) = B
      BY <1>6, <1>7 DEF B
    <3> QED
      BY <1>6, <2>1, <2>6, <2>7, <2>9, <2>10, <3>1 DEF Pops
  <2> QED
    BY <1>3, <2>11
<1> QED
  BY <1>8, <1>9

LEMMA NestedStepIsCallStep == ASSUME NestedOrdered, NestedOrdered', Nested!Next PROVE CallStep
<1> USE NestedConstants
<1>1. ASSUME NEW f \in Addresses, Nested!CreateTask(f) PROVE Stays
  <2>1. main = "create" /\ main' = "spawn" /\ got' = got
    BY <1>1 DEF Nested!CreateTask, Nested!promises
  <2>2. Unlinked /\ Unlinked'
    BY <2>1 DEF NestedOrdered, NestedPhase
  <2> QED
    BY <2>1, <2>2, CallShapeHolds, CallShapeNext DEF CallShape, Stays
<1>2. ASSUME Nested!SpawnTask PROVE StartsTask
  <2>1. /\ main' = "resume" /\ Unlinked /\ main = "spawn"
        /\ \E f \in Addresses : /\ Chain(<<f>>)' /\ Inner(<<f>>)' /\ running' = f
                                /\ pc'[f] = "run" /\ to_resume' = Null /\ got' = got
    BY <1>2, SpawnTaskKeeps
  <2>2. PICK f \in Addresses : /\ Chain(<<f>>)' /\ Inner(<<f>>)' /\ running' = f
                               /\ pc'[f] = "run" /\ to_resume' = Null /\ got' = got
    BY <2>1
  <2>3. Nested!stack = <<>> /\ Nested!mode = "idle"
    BY <2>1, CallShapeHolds DEF CallShape
  <2> DEFINE s == <<f>>
  <2>4. s \in Seq(Addresses) /\ Len(s) = 1 /\ s[1] = f
    OBVIOUS
  <2> HIDE DEF s
  <2>5. Nested!stack' = [i \in 1..Len(s) |-> got'[s[i]]] /\ Nested!mode' = "run"
    <3>1. Chain(s)' /\ Inner(s)'
      BY <2>2 DEF s
    <3> QED
      BY <2>1, <2>2, <2>4, <3>1, CallShapeNext DEF CallShape, Chain
  <2>6. got[f] = None
    BY <2>1 DEF Unlinked
  <2>7. [i \in 1..Len(s) |-> got'[s[i]]] = <<None>>
    <3>1. [i \in 1..Len(s) |-> got'[s[i]]] = [i \in 1..1 |-> None]
      BY <2>2, <2>4, <2>6
    <3>2. [i \in 1..1 |-> None] = <<None>>
      OBVIOUS
    <3> QED
      BY <3>1, <3>2
  <2> QED
    BY <2>2, <2>3, <2>5, <2>7 DEF StartsTask
<1>3. ASSUME Nested!Exit PROVE Stays
  <2>1. main = "resume" /\ main' = "over" /\ UNCHANGED <<child, got, running, pc, to_resume>>
    BY <1>3 DEF Nested!Exit, Nested!promises
  <2>2. PICK s \in Seq(Addresses) : Chain(s)
    BY <2>1, InControl
  <2>3. Outer(s)
    BY <1>3, <2>2, ExitKeeps
  <2>4. running = Null
    BY <1>3 DEF Nested!Exit
  <2> QED
    BY <2>1, <2>3, <2>4, CallShapeHolds, CallShapeNext DEF CallShape, Outer, Stays
<1>4. CASE main = "over" /\ UNCHANGED Nested!vars
  <2>1. /\ main = "over" /\ main' = "over" /\ got' = got
        /\ running = Null /\ to_resume = Null /\ child[Root] = Null /\ got[Root] \in Values
        /\ running' = Null /\ to_resume' = Null /\ child'[Root] = Null
    BY <1>4 DEF Nested!vars, NestedOrdered, NestedPhase
  <2> QED
    BY <2>1, CallShapeHolds, CallShapeNext DEF CallShape, Stays, CallStep
<1>5. CASE main = "resume"
  <2>1. PICK s \in Seq(Addresses) : Chain(s)
    BY <1>5, InControl
  <2>2. ASSUME NEW f \in Addresses, NEW c \in Addresses, Nested!Call(f, c) PROVE CallStep
    BY <2>1, <2>2, CallPushes DEF CallStep
  <2>3. ASSUME NEW f \in Nested!Frames, Nested!AwaitResume(f) PROVE CallStep
    BY <2>1, <2>3, ResumePops DEF CallStep
  <2>4. ASSUME NEW f \in Addresses, Nested!GetData(f) PROVE CallStep
    BY <2>1, <2>4, DataAsks DEF CallStep
  <2>5. ASSUME NEW f \in Nested!Frames, NEW v \in Values, Nested!Return(f, v) PROVE CallStep
    BY <2>1, <2>5, ReturnStays DEF CallStep
  <2>6. ASSUME NEW f \in Nested!Frames, Nested!DataResume(f) PROVE CallStep
    BY <2>1, <2>6, DataSupplied DEF CallStep
  <2>7. ASSUME NEW d \in Values, Nested!resumeWithData(d) PROVE CallStep
    BY <2>1, <2>7, DataStays DEF CallStep
  <2> QED
    BY <1>1, <1>2, <1>3, <1>4, <2>2, <2>3, <2>4, <2>5, <2>6, <2>7 DEF Nested!Next, CallStep
<1>6. CASE main # "resume"
  <2>1. running = Null /\ to_resume = Null
    BY <1>6, InControl
  <2>2. \/ \E f \in Addresses : Nested!CreateTask(f)
        \/ Nested!SpawnTask
        \/ main = "over" /\ UNCHANGED Nested!vars
    <3>1. ASSUME NEW f \in Nested!Frames PROVE running # f
      BY <2>1
    <3> QED
      BY <1>6, <2>1, <3>1 DEF Nested!Next, Nested!GetData, Nested!Call, Nested!Body,
         Nested!AwaitResume, Nested!DataResume, Nested!Return, Nested!resumeWithData, Nested!Exit
  <2> QED
    BY <1>1, <1>2, <1>4, <2>2 DEF CallStep
<1> QED
  BY <1>5, <1>6

\* Links, handles and transfers of nested functions together behave as a call
\* stack: a value goes to the caller, data to the function that asked for it.
THEOREM NestedIsCallStack == Spec => ImplementsCallStack
<1>1. Init => Calls!Init
  <2> SUFFICES ASSUME Init PROVE Calls!Init
    OBVIOUS
  <2>1. CASE program = "nested"
    <3>1. Nested!Init
      BY <2>1 DEF Init
    <3>2. main = "create" /\ Unlinked
      BY <3>1, NestedConstants DEF Nested!Init, Unlinked
    <3> QED
      BY <2>1, <3>2, CallShapeHolds DEF CallShape, Calls!Init
  <2>2. CASE program # "nested"
    BY <2>2 DEF Calls!Init
  <2> QED
    BY <2>1, <2>2
<1>2. NestedInv /\ NestedInv' /\ [Next]_variables => [Calls!Next]_(Calls!cvars)
  <2> SUFFICES ASSUME NestedInv, NestedInv', [Next]_variables PROVE [Calls!Next]_(Calls!cvars)
    OBVIOUS
  <2>1. program' = program
    BY DEF Next, OwningNext, ListedNext, DetachedNext, NestedNext, OwningOthers, ListedOthers,
       DetachedOthers, NestedOthers, variables
  <2>2. CASE program # "nested"
    BY <2>1, <2>2 DEF Calls!cvars
  <2>3. CASE program = "nested" /\ Nested!Next
    <3>1. NestedOrdered /\ NestedOrdered'
      BY <2>1, <2>3 DEF NestedInv
    <3> QED
      BY <2>1, <2>3, <3>1, NestedStepIsCallStep, CallStepIsStep
  <2>4. CASE program = "nested" /\ UNCHANGED variables
    <3>1. UNCHANGED <<frames, main, pc, parent, child, scheduler, value, got, running, to_resume>>
      BY <2>4 DEF variables, nested
    <3>2. Nested!stack' = Nested!stack /\ Nested!mode' = Nested!mode
      BY <3>1 DEF Nested!stack, Nested!mode
    <3> QED
      BY <2>1, <3>1, <3>2 DEF Calls!cvars
  <2> QED
    BY <2>2, <2>3, <2>4 DEF Next, OwningNext, ListedNext, DetachedNext, NestedNext
<1> QED
  BY <1>1, <1>2, NestedInvariance, PTL DEF Spec, ImplementsCallStack, Calls!Spec

-----------------------------------------------------------------------------
(* The owning schedulers: the instance with the proofs is that of Schedulers *)

OwningProofs == INSTANCE CoroutineScheduler_proofs

LEMMA SameSize == ASSUME NEW S PROVE /\ Cardinality(S) = Owning!Cardinality(S)
                                     /\ Cardinality(S) = OwningProofs!Cardinality(S)
                                     /\ Cardinality(S) = Listed!Cardinality(S)
                                     /\ Cardinality(S) = Detached!Cardinality(S)
BY DEF Cardinality, Owning!Cardinality, OwningProofs!Cardinality, Listed!Cardinality,
       Detached!Cardinality

LEMMA SameRemoval == ASSUME NEW s, NEW i PROVE /\ Owning!RemoveAt(s, i) = OwningProofs!RemoveAt(s, i)
                                               /\ Detached!RemoveAt(s, i) = OwningProofs!RemoveAt(s, i)
BY DEF Owning!RemoveAt, OwningProofs!RemoveAt, Detached!RemoveAt

LEMMA SameBounds == /\ Owning!BoundsAssumption <=> OwningProofs!BoundsAssumption
                    /\ Owning!Tasks = OwningProofs!Tasks
BY DEF Owning!BoundsAssumption, OwningProofs!BoundsAssumption, Owning!Tasks, OwningProofs!Tasks

LEMMA SameTop == Owning!Top = OwningProofs!Top
<1>1. ASSUME NEW j, NEW k PROVE Owning!Less(j, k) <=> OwningProofs!Less(j, k)
  BY DEF Owning!Less, OwningProofs!Less
<1>2. /\ Owning!PriorityTop = OwningProofs!PriorityTop
      /\ Owning!ComparatorTop = OwningProofs!ComparatorTop
  BY <1>1, Zenon DEF Owning!PriorityTop, OwningProofs!PriorityTop, Owning!ComparatorTop,
     OwningProofs!ComparatorTop
<1> QED
  BY <1>2 DEF Owning!Top, OwningProofs!Top, Owning!QueueFront, OwningProofs!QueueFront,
     Owning!StackTop, OwningProofs!StackTop

LEMMA SameInit == Owning!Init <=> OwningProofs!Init
<1>1. Owning!Bijection(1..NumTasks, 1..NumTasks) = OwningProofs!Bijection(1..NumTasks, 1..NumTasks)
  BY DEF Owning!Bijection, OwningProofs!Bijection, Owning!Injection, OwningProofs!Injection,
     Owning!Surjection, OwningProofs!Surjection, Owning!IsInjective, OwningProofs!IsInjective
<1> QED
  BY <1>1 DEF Owning!Init, OwningProofs!Init, Owning!Policies, OwningProofs!Policies,
     Owning!Tasks, OwningProofs!Tasks, Owning!Ordered, OwningProofs!Ordered

LEMMA SameNext == Owning!Next <=> OwningProofs!Next
<1>1. Owning!Emplace <=> OwningProofs!Emplace
  BY DEF Owning!Emplace, OwningProofs!Emplace, Owning!Job, OwningProofs!Job, Owning!choices,
     OwningProofs!choices
<1>2. Owning!Resume <=> OwningProofs!Resume
  BY SameTop, SameRemoval DEF Owning!Resume, OwningProofs!Resume, Owning!choices,
     OwningProofs!choices
<1>3. /\ Owning!Requeue <=> OwningProofs!Requeue
      /\ Owning!Destroy <=> OwningProofs!Destroy
  BY DEF Owning!Requeue, OwningProofs!Requeue, Owning!Destroy, OwningProofs!Destroy, Owning!done,
     OwningProofs!done, Owning!Job, OwningProofs!Job, Owning!Update, OwningProofs!Update,
     Owning!choices, OwningProofs!choices
<1> QED
  BY <1>1, <1>2, <1>3 DEF Owning!Next, OwningProofs!Next, Owning!Returned, OwningProofs!Returned,
     Owning!vars, OwningProofs!vars

LEMMA SameProperties == /\ Owning!FramesOwned <=> OwningProofs!FramesOwned
                        /\ Owning!NeverResumedWhenDone <=> OwningProofs!NeverResumedWhenDone
                        /\ Owning!TurnOrder <=> OwningProofs!TurnOrder
<1>1. Owning!Queued = OwningProofs!Queued /\ Owning!Active = OwningProofs!Active
  BY DEF Owning!Queued, OwningProofs!Queued, Owning!Active, OwningProofs!Active
<1>2. ASSUME NEW t PROVE Owning!done(t) <=> OwningProofs!done(t)
  BY DEF Owning!done, OwningProofs!done
<1>3. Owning!Cardinality(Owning!Queued) = OwningProofs!Cardinality(OwningProofs!Queued)
  BY <1>1, SameSize
<1>4. Owning!FramesOwned <=> OwningProofs!FramesOwned
  BY <1>1, <1>3 DEF Owning!FramesOwned, OwningProofs!FramesOwned
<1>5. Owning!NeverResumedWhenDone <=> OwningProofs!NeverResumedWhenDone
  BY <1>1, <1>2, SameBounds DEF Owning!NeverResumedWhenDone, OwningProofs!NeverResumedWhenDone
<1>6. Owning!CatchUp <=> OwningProofs!CatchUp
  BY DEF Owning!CatchUp, OwningProofs!CatchUp, Owning!PrioNow, OwningProofs!PrioNow
<1>7. Owning!TurnOrder <=> OwningProofs!TurnOrder
  BY <1>6, SameBounds DEF Owning!TurnOrder, OwningProofs!TurnOrder, Owning!RoundRobin,
     OwningProofs!RoundRobin, Owning!RunsToCompletion, OwningProofs!RunsToCompletion,
     Owning!HighestFirst, OwningProofs!HighestFirst, Owning!LowestFirst, OwningProofs!LowestFirst
<1> QED
  BY <1>4, <1>5, <1>7

OwningInv == program = "owning" => OwningProofs!TurnInv

LEMMA OwningInvariance == Spec => []OwningInv
<1> USE OwningAssumption, SameBounds
<1>1. Init => OwningInv
  BY SameInit, OwningProofs!TurnsStart DEF Init, OwningInv
<1>2. OwningInv /\ [Next]_variables => OwningInv'
  <2> SUFFICES ASSUME OwningInv, [Next]_variables, program' = "owning"
               PROVE  OwningProofs!TurnInv'
    BY DEF OwningInv
  <2>1. program = "owning" /\ OwningProofs!TurnInv
    BY DEF OwningInv, Next, OwningNext, ListedNext, DetachedNext, NestedNext, ListedOthers,
       DetachedOthers, NestedOthers, variables
  <2>2. [OwningProofs!Next]_(OwningProofs!vars)
    <3>1. CASE Owning!Next
      BY <3>1, SameNext
    <3>2. CASE UNCHANGED variables
      BY <3>2 DEF variables, owning, OwningProofs!vars
    <3> QED
      BY <2>1, <3>1, <3>2 DEF Next, OwningNext, ListedNext, DetachedNext, NestedNext
  <2> QED
    BY <2>1, <2>2, OwningProofs!TurnsKeep
<1> QED
  BY <1>1, <1>2, PTL DEF Spec

-----------------------------------------------------------------------------
(* The list on which tasks put themselves *)

ListTypes == /\ suspends \in [Listed!Tasks -> Nat]
             /\ \E t \in Listed!Tasks : suspends[t] > 0
             /\ called \in 0..NumTasks
             /\ tasks \in Seq(Listed!Tasks)
             /\ passed \in [Listed!Tasks -> Nat]
             /\ again \in BOOLEAN
             /\ frames \subseteq 1..called

\* While main() calls tasks, whoever comes to a co_await stays in the list, and
\* some task comes to one: the first schedule() finds it.
ListFilled == /\ \A t \in Listed!Tasks : t > called => passed[t] = 0
              /\ called < NumTasks =>
                    again /\ \A t \in 1..called : suspends[t] > 0 => t \in frames
              /\ Listed!FrontExists

ListOnce == /\ \A i, k \in 1..Len(tasks) : tasks[i] = tasks[k] => i = k
            /\ Listed!InList = frames

ListOrdered == ListTypes /\ ListFilled /\ ListOnce

ListedInv == program = "listed" => ListOrdered

LEMMA ListInit == ASSUME Listed!Init PROVE ListOrdered
<1>1. NumTasks \in Nat \ {0}
  BY SchedulersAssumption, OwningAssumption DEF Owning!BoundsAssumption
<1>2. /\ suspends \in [Listed!Tasks -> 0..MaxSuspends]
      /\ \E t \in Listed!Tasks : suspends[t] > 0
      /\ called = 0 /\ tasks = <<>> /\ passed = [t \in Listed!Tasks |-> 0]
      /\ frames = {} /\ again = TRUE
  BY DEF Listed!Init
<1>3. ListTypes
  BY <1>1, <1>2, SchedulersAssumption DEF ListTypes
<1>4. ListFilled
  BY <1>1, <1>2 DEF ListFilled, Listed!FrontExists, Listed!Tasks
<1>5. ListOnce
  BY <1>2 DEF ListOnce, Listed!InList
<1> QED
  BY <1>3, <1>4, <1>5 DEF ListOrdered

LEMMA CallKeeps == ASSUME ListOrdered, Listed!Call PROVE ListOrdered'
<1> DEFINE t == called + 1
           F == frames \cup {t}
<1>1. /\ called < NumTasks /\ called' = t /\ UNCHANGED <<suspends, again>>
      /\ Listed!RunsTo(t, tasks, F)
  BY DEF Listed!Call
<1>2. NumTasks \in Nat /\ called \in Nat /\ t \in Listed!Tasks /\ t \in 1..t /\ t \notin 1..called
  BY <1>1, OwningAssumption DEF ListOrdered, ListTypes, Owning!BoundsAssumption, Listed!Tasks
<1>3. t \notin frames /\ passed[t] = 0 /\ suspends[t] \in Nat
  BY <1>2 DEF ListOrdered, ListTypes, ListFilled
<1>4. CASE suspends[t] > 0
  <2>1. tasks' = Append(tasks, t) /\ passed' = [passed EXCEPT ![t] = @ + 1] /\ frames' = F
    BY <1>1, <1>3, <1>4 DEF Listed!RunsTo
  <2>2. /\ tasks' \in Seq(Listed!Tasks) /\ tasks' # <<>>
        /\ \A i, k \in 1..Len(tasks') : tasks'[i] = tasks'[k] => i = k
        /\ {tasks'[i] : i \in 1..Len(tasks')} = {tasks[i] : i \in 1..Len(tasks)} \cup {t}
    <3>1. /\ tasks \in Seq(Listed!Tasks) /\ t \notin {tasks[i] : i \in 1..Len(tasks)}
          /\ \A i, k \in 1..Len(tasks) : tasks[i] = tasks[k] => i = k
      BY <1>3 DEF ListOrdered, ListTypes, ListOnce, Listed!InList
    <3> HIDE DEF t
    <3> QED
      BY <1>2, <2>1, <3>1, AppendOfDistinct
  <2>3. ListOnce'
    BY <2>1, <2>2 DEF ListOrdered, ListOnce, Listed!InList
  <2>4. ListTypes'
    <3>1. /\ suspends' \in [Listed!Tasks -> Nat] /\ \E u \in Listed!Tasks : suspends'[u] > 0
          /\ called' \in 0..NumTasks /\ tasks' \in Seq(Listed!Tasks)
      BY <1>1, <1>2, <2>2 DEF ListOrdered, ListTypes
    <3>2. passed' \in [Listed!Tasks -> Nat] /\ again' \in BOOLEAN /\ frames' \subseteq 1..called'
      BY <1>1, <1>2, <2>1 DEF ListOrdered, ListTypes
    <3> QED
      BY <3>1, <3>2 DEF ListTypes
  <2>5. ListFilled'
    <3>1. \A u \in Listed!Tasks : u > called' => passed'[u] = 0
      BY <1>1, <1>2, <2>1 DEF ListOrdered, ListTypes, ListFilled, Listed!Tasks
    <3>2. called' < NumTasks => again' /\ \A u \in 1..called' : suspends'[u] > 0 => u \in frames'
      BY <1>1, <1>2, <2>1 DEF ListOrdered, ListFilled
    <3> QED
      BY <2>2, <3>1, <3>2 DEF ListFilled, Listed!FrontExists, Listed!Tasks
  <2> QED
    BY <2>3, <2>4, <2>5 DEF ListOrdered
<1>5. CASE suspends[t] = 0
  <2>1. tasks' = tasks /\ passed' = passed /\ frames' = frames
    BY <1>1, <1>3, <1>5 DEF Listed!RunsTo
  <2>2. ListOnce'
    BY <2>1 DEF ListOrdered, ListOnce, Listed!InList
  <2>3. ListTypes'
    BY <1>1, <1>2, <2>1 DEF ListOrdered, ListTypes
  <2>4. called' = NumTasks => tasks' # <<>>
    <3>1. SUFFICES ASSUME called' = NumTasks PROVE tasks # <<>>
      BY <2>1
    <3>2. PICK u \in Listed!Tasks : suspends[u] > 0
      BY DEF ListOrdered, ListTypes
    <3>3. u \in 1..called
      BY <1>1, <1>2, <1>5, <3>1, <3>2 DEF Listed!Tasks
    <3>4. u \in frames
      BY <1>1, <3>2, <3>3 DEF ListOrdered, ListFilled
    <3>5. \E i \in 1..Len(tasks) : tasks[i] = u
      BY <3>4 DEF ListOrdered, ListOnce, Listed!InList
    <3> QED
      BY <3>5
  <2>5. ListFilled'
    <3>1. \A u \in Listed!Tasks : u > called' => passed'[u] = 0
      BY <1>1, <1>2, <2>1 DEF ListOrdered, ListTypes, ListFilled, Listed!Tasks
    <3>2. called' < NumTasks => again' /\ \A u \in 1..called' : suspends'[u] > 0 => u \in frames'
      BY <1>1, <1>2, <1>5, <2>1 DEF ListOrdered, ListFilled
    <3> QED
      BY <2>4, <3>1, <3>2 DEF ListFilled, Listed!FrontExists, Listed!Tasks
  <2> QED
    BY <2>2, <2>3, <2>5 DEF ListOrdered
<1> QED
  BY <1>3, <1>4, <1>5

LEMMA ScheduleKeeps == ASSUME ListOrdered, Listed!schedule PROVE ListOrdered'
<1> DEFINE t == Head(tasks)
           s == Tail(tasks)
<1>1. /\ called = NumTasks /\ again /\ again' = (tasks' # <<>>) /\ UNCHANGED <<suspends, called>>
      /\ Listed!RunsTo(t, s, frames)
  BY DEF Listed!schedule
<1>2. tasks # <<>>
  BY <1>1 DEF ListOrdered, ListFilled, Listed!FrontExists
<1>3. /\ t \in Listed!Tasks /\ s \in Seq(Listed!Tasks)
      /\ \A i, k \in 1..Len(s) : s[i] = s[k] => i = k
      /\ {s[i] : i \in 1..Len(s)} = frames \ {t} /\ t \in frames
  BY <1>2, TailOfDistinct DEF ListOrdered, ListTypes, ListOnce, Listed!InList
<1>4. passed[t] \in Nat /\ suspends[t] \in Nat /\ NumTasks \in Nat
  BY <1>3, OwningAssumption DEF ListOrdered, ListTypes, Owning!BoundsAssumption
<1> HIDE DEF t, s
<1>5. ListFilled'
  <2>1. called' = NumTasks /\ \A u \in Listed!Tasks : ~(u > called')
    BY <1>1, <1>4 DEF Listed!Tasks
  <2>2. again' => tasks' # <<>>
    BY <1>1, Zenon
  <2> QED
    BY <1>4, <2>1, <2>2 DEF ListFilled, Listed!FrontExists
<1>6. CASE passed[t] < suspends[t]
  <2>1. tasks' = Append(s, t) /\ passed' = [passed EXCEPT ![t] = @ + 1] /\ frames' = frames
    BY <1>1, <1>6 DEF Listed!RunsTo
  <2>2. /\ tasks' \in Seq(Listed!Tasks)
        /\ \A i, k \in 1..Len(tasks') : tasks'[i] = tasks'[k] => i = k
        /\ {tasks'[i] : i \in 1..Len(tasks')} = (frames \ {t}) \cup {t}
    BY <1>3, <2>1, AppendOfDistinct
  <2>3. ListOnce'
    BY <1>3, <2>1, <2>2 DEF ListOnce, Listed!InList
  <2>4. ListTypes'
    BY <1>1, <1>4, <2>1, <2>2 DEF ListOrdered, ListTypes
  <2>5. ListFilled'
    BY <1>5 DEF ListFilled
  <2> QED
    BY <2>3, <2>4, <2>5 DEF ListOrdered
<1>7. CASE ~(passed[t] < suspends[t])
  <2>1. tasks' = s /\ passed' = passed /\ frames' = frames \ {t}
    BY <1>1, <1>7 DEF Listed!RunsTo
  <2>2. ListOnce'
    BY <1>3, <2>1 DEF ListOnce, Listed!InList
  <2>3. ListTypes'
    BY <1>1, <1>3, <2>1 DEF ListOrdered, ListTypes
  <2>4. ListFilled'
    BY <1>5 DEF ListFilled
  <2> QED
    BY <2>2, <2>3, <2>4 DEF ListOrdered
<1> QED
  BY <1>6, <1>7

LEMMA ListedInvariance == Spec => []ListedInv
<1>1. Init => ListedInv
  BY ListInit DEF Init, ListedInv
<1>2. ListedInv /\ [Next]_variables => ListedInv'
  <2> SUFFICES ASSUME ListedInv, [Next]_variables, program' = "listed" PROVE ListOrdered'
    BY DEF ListedInv
  <2>1. program = "listed" /\ ListOrdered
    BY DEF ListedInv, Next, OwningNext, ListedNext, DetachedNext, NestedNext, OwningOthers,
       DetachedOthers, NestedOthers, variables
  <2>2. CASE Listed!Call \/ Listed!schedule
    BY <2>1, <2>2, CallKeeps, ScheduleKeeps
  <2>3. CASE UNCHANGED <<suspends, called, tasks, passed, frames, again>>
    BY <2>1, <2>3 DEF ListOrdered, ListTypes, ListFilled, ListOnce, Listed!FrontExists,
       Listed!InList
  <2>4. CASE UNCHANGED variables
    BY <2>3, <2>4 DEF variables, listed
  <2> QED
    BY <2>1, <2>2, <2>3, <2>4 DEF Next, OwningNext, ListedNext, DetachedNext, NestedNext,
       Listed!Next, Listed!vars
<1> QED
  BY <1>1, <1>2, PTL DEF Spec

\* A scheduler that owns its coroutines never resumes one that is done, and the list
\* on which tasks put themselves is not empty when front() is called: for any number
\* of tasks, of which one at least comes to a co_await.
THEOREM ResumesOnlyLiveTasks == Spec => []ResumesLiveTask
<1>1. OwningInv /\ ListedInv => ResumesLiveTask
  BY SameProperties, OwningProofs!NoneResumedWhenDoneNow DEF OwningInv, OwningProofs!TurnInv,
     ListedInv, ListOrdered, ListFilled, ResumesLiveTask
<1> QED
  BY <1>1, OwningInvariance, ListedInvariance, PTL

-----------------------------------------------------------------------------
(* Tasks that are detached, and the list or the queue of times *)

Moments == Nat \X Detached!Tasks

\* The handles in a container of pairs, and that none is there twice.
Handles(s) == {s[i][2] : i \in 1..Len(s)}

HandledOnce(s) == \A i, k \in 1..Len(s) : s[i][2] = s[k][2] => i = k

DetachedTypes == /\ timed \in BOOLEAN
                 /\ waits \in [Detached!Tasks -> Seq(Nat)]
                 /\ address \in [Detached!Tasks -> Detached!Tasks]
                 /\ main \in {"create", "detach", "drop", "run"}
                 /\ task \in Detached!Tasks
                 /\ pending \in Seq(Moments)
                 /\ active \subseteq Detached!Tasks
                 /\ awaited \in [Detached!Tasks -> Nat]
                 /\ frames \subseteq 1..task
                 /\ clock \in Nat

\* Where main() is says what the Task object holds.
TaskHolds == /\ handle = IF main = "detach" THEN {task} ELSE {}
             /\ main = "create" => task \notin frames
             /\ main # "run" => active = {}

\* The part of FramesOwned that is not about numbers.
DetachedOwned == /\ frames = handle \cup Detached!Queued \cup active
                 /\ handle \cap (Detached!Queued \cup active) = {}
                 /\ HandledOnce(pending)
                 /\ \A t \in active : active = {t} /\ (t \in Detached!Queued <=> ~Detached!done(t))

DetachedOrdered == DetachedTypes /\ TaskHolds /\ DetachedOwned

DetachedInv == program = "detached" => DetachedOrdered

LEMMA DetachedInit == ASSUME Detached!Init PROVE DetachedOrdered
<1>1. NumTasks \in Nat \ {0} /\ 1 \in Detached!Tasks
  BY SchedulersAssumption, OwningAssumption DEF Owning!BoundsAssumption, Detached!Tasks
<1>2. waits \in [Detached!Tasks -> Seq(Nat)]
  <2> DEFINE T == IF timed THEN Detached!Times ELSE {0}
             W == UNION {[1..n -> T] : n \in 0..MaxWaits}
  <2>1. waits \in [Detached!Tasks -> W]
    BY DEF Detached!Init
  <2>2. T \subseteq Nat
    BY SchedulersAssumption DEF Detached!Times
  <2>3. ASSUME NEW w \in W PROVE w \in Seq(Nat)
    <3>1. PICK n \in 0..MaxWaits : w \in [1..n -> T]
      OBVIOUS
    <3>2. n \in Nat /\ w \in [1..n -> Nat]
      BY <2>2, <3>1, SchedulersAssumption
    <3> QED
      BY <3>2
  <2> QED
    BY <2>1, <2>3
<1>3. address \in [Detached!Tasks -> Detached!Tasks]
  BY DEF Detached!Init, Detached!Bijection, Detached!Injection
<1>4. /\ timed \in BOOLEAN /\ main = "create" /\ task = 1 /\ handle = {} /\ pending = <<>>
      /\ active = {} /\ awaited = [t \in Detached!Tasks |-> 0] /\ frames = {} /\ clock = 0
  BY DEF Detached!Init
<1>5. DetachedTypes
  BY <1>1, <1>2, <1>3, <1>4 DEF DetachedTypes
<1>6. TaskHolds
  BY <1>4 DEF TaskHolds
<1>7. DetachedOwned
  BY <1>4 DEF DetachedOwned, Detached!Queued, HandledOnce
<1> QED
  BY <1>5, <1>6, <1>7 DEF DetachedOrdered

\* A pair that is appended, and one that is taken out.
LEMMA AppendMoment ==
    ASSUME NEW s \in Seq(Moments), NEW e \in Moments, HandledOnce(s), e[2] \notin Handles(s)
    PROVE  /\ Append(s, e) \in Seq(Moments) /\ HandledOnce(Append(s, e))
           /\ Handles(Append(s, e)) = Handles(s) \cup {e[2]}
<1> DEFINE a == Append(s, e)
<1>1. /\ a \in Seq(Moments) /\ Len(a) = Len(s) + 1 /\ Len(s) \in Nat /\ a[Len(s) + 1] = e
      /\ \A i \in 1..Len(s) : a[i] = s[i]
  OBVIOUS
<1>2. 1..Len(a) = 1..Len(s) \cup {Len(s) + 1}
  BY <1>1
<1> HIDE DEF a
<1>3. HandledOnce(a)
  BY <1>1, <1>2 DEF HandledOnce, Handles
<1>4. Handles(a) = Handles(s) \cup {e[2]}
  BY <1>1, <1>2 DEF Handles
<1> QED
  BY <1>1, <1>3, <1>4 DEF a

LEMMA RemoveMoment ==
    ASSUME NEW s \in Seq(Moments), NEW n \in 1..Len(s), HandledOnce(s),
           NEW r, r = Detached!RemoveAt(s, n)
    PROVE  /\ r \in Seq(Moments) /\ HandledOnce(r) /\ Handles(r) = Handles(s) \ {s[n][2]}
           /\ Len(r) = Len(s) - 1
           /\ \A k \in 1..(Len(s) - 1) : r[k] = IF k < n THEN s[k] ELSE s[k + 1]
<1> DEFINE old(k) == IF k < n THEN k ELSE k + 1
<1>1. /\ Len(s) \in Nat /\ n \in Nat /\ r \in Seq(Moments) /\ Len(r) = Len(s) - 1
      /\ \A k \in 1..(Len(s) - 1) : r[k] = IF k < n THEN s[k] ELSE s[k + 1]
  <2>1. r = OwningProofs!RemoveAt(s, n)
    BY SameRemoval
  <2>2. /\ r \in Seq(Moments) /\ Len(r) = Len(s) - 1
        /\ \A k \in 1..(Len(s) - 1) : r[k] = IF k < n THEN s[k] ELSE s[k + 1]
    BY <2>1, OwningProofs!RemoveProperties
  <2> QED
    BY <2>2
<1>2. ASSUME NEW k \in 1..Len(r)
      PROVE  old(k) \in 1..Len(s) /\ old(k) # n /\ r[k] = s[old(k)]
  BY <1>1
<1>3. ASSUME NEW m \in 1..Len(s), m # n PROVE \E k \in 1..Len(r) : old(k) = m
  <2>1. CASE m < n
    <3>1. m \in 1..Len(r) /\ old(m) = m
      BY <1>1, <2>1
    <3> QED
      BY <3>1
  <2>2. CASE m > n
    <3>1. m - 1 \in 1..Len(r) /\ old(m - 1) = m
      BY <1>1, <2>2
    <3> QED
      BY <3>1
  <2>3. m < n \/ m > n
    BY <1>1, <1>3
  <2> QED
    BY <2>1, <2>2, <2>3
<1>4. \A i, k \in 1..Len(r) : old(i) = old(k) => i = k
  BY <1>1
<1> HIDE DEF old
<1>5. ASSUME NEW i \in 1..Len(r), NEW k \in 1..Len(r), r[i][2] = r[k][2] PROVE i = k
  <2>1. s[old(i)][2] = s[old(k)][2] /\ old(i) \in 1..Len(s) /\ old(k) \in 1..Len(s)
    BY <1>2, <1>5
  <2> QED
    BY <1>4, <2>1 DEF HandledOnce
<1>6. \A k \in 1..Len(r) : r[k][2] # s[n][2]
  BY <1>2 DEF HandledOnce
<1>7. ASSUME NEW m \in 1..Len(s), s[m][2] # s[n][2] PROVE \E k \in 1..Len(r) : r[k][2] = s[m][2]
  <2>1. PICK k \in 1..Len(r) : old(k) = m
    BY <1>3, <1>7
  <2> QED
    BY <1>2, <2>1
<1>8. ASSUME NEW k \in 1..Len(r) PROVE \E m \in 1..Len(s) : r[k][2] = s[m][2]
  BY <1>2
<1>9. Handles(r) = Handles(s) \ {s[n][2]}
  <2>1. ASSUME NEW t \in Handles(r) PROVE t \in Handles(s) /\ t # s[n][2]
    BY <1>6, <1>8 DEF Handles
  <2>2. ASSUME NEW t \in Handles(s), t # s[n][2] PROVE t \in Handles(r)
    BY <1>7, <2>2 DEF Handles
  <2> QED
    BY <2>1, <2>2
<1> QED
  BY <1>1, <1>5, <1>9 DEF HandledOnce

\* In terms of the module of the programs.
LEMMA QueuedHandles == Detached!Queued = Handles(pending) /\ Detached!Queued' = Handles(pending')
BY DEF Detached!Queued, Handles

\* The queue of times has a first pair: of those of the least time the one whose
\* frame has the least address.
LEMMA FirstMoment ==
    ASSUME DetachedTypes, pending # <<>>
    PROVE  /\ Detached!Top \in 1..Len(pending)
           /\ timed => \A k \in 1..Len(pending) :
                          ~Detached!Before(pending[k], pending[Detached!Top])
<1>1. /\ Len(pending) \in Nat \ {0} /\ 1 \in 1..Len(pending)
      /\ \A i \in 1..Len(pending) : pending[i][1] \in Nat /\ address[pending[i][2]] \in Nat
  <2>1. Len(pending) \in Nat \ {0} /\ \A i \in 1..Len(pending) : pending[i] \in Nat \X Detached!Tasks
    BY DEF DetachedTypes, Moments
  <2>2. \A t \in Detached!Tasks : address[t] \in Nat
    BY DEF DetachedTypes, Detached!Tasks
  <2> QED
    BY <2>1, <2>2
<1>2. CASE ~timed
  BY <1>1, <1>2 DEF Detached!Top
<1>3. CASE timed
  <2> DEFINE P == {pending[i][1] : i \in 1..Len(pending)}
  <2>1. PICK p \in P : \A n \in P : p <= n
    <3>1. P \in SUBSET Nat /\ P # {}
      BY <1>1
    <3> HIDE DEF P
    <3> QED
      BY <3>1, LeastNumber
  <2> DEFINE I == {i \in 1..Len(pending) : pending[i][1] = p}
             A == {address[pending[i][2]] : i \in I}
  <2>2. PICK a \in A : \A n \in A : a <= n
    <3>1. A \in SUBSET Nat
      BY <1>1
    <3>2. A # {}
      <4>1. PICK i \in 1..Len(pending) : p = pending[i][1]
        BY <2>1
      <4>2. address[pending[i][2]] \in A
        BY <4>1
      <4> QED
        BY <4>2
    <3> HIDE DEF A
    <3> QED
      BY <3>1, <3>2, LeastNumber
  <2>3. PICK i \in 1..Len(pending) : pending[i][1] = p /\ a = address[pending[i][2]]
    BY <2>2
  <2>4. ASSUME NEW k \in 1..Len(pending) PROVE ~Detached!Before(pending[k], pending[i])
    <3>1. p <= pending[k][1] /\ pending[k][1] \in Nat /\ pending[i][1] \in Nat
      BY <1>1, <2>1
    <3>2. pending[k][1] = p => a <= address[pending[k][2]]
      BY <2>2
    <3> QED
      BY <1>1, <2>3, <3>1, <3>2 DEF Detached!Before
  <2>5. \E m \in 1..Len(pending) :
           \A k \in 1..Len(pending) : ~Detached!Before(pending[k], pending[m])
    BY <2>4
  <2>6. Detached!Top = CHOOSE m \in 1..Len(pending) :
           \A k \in 1..Len(pending) : ~Detached!Before(pending[k], pending[m])
    BY <1>3 DEF Detached!Top
  <2> QED
    BY <2>5, <2>6
<1> QED
  BY <1>2, <1>3

LEMMA CreateKeeps == ASSUME DetachedOrdered, Detached!Create PROVE DetachedOrdered'
<1>1. /\ main = "create" /\ main' = "detach" /\ frames' = frames \cup {task} /\ handle' = {task}
      /\ UNCHANGED <<timed, waits, address, task, pending, active, awaited, clock>>
      /\ handle = {} /\ active = {} /\ task \notin frames
  BY DEF Detached!Create, Detached!choices, DetachedOrdered, TaskHolds
<1>2. task \in 1..task
  BY OwningAssumption DEF DetachedOrdered, DetachedTypes, Detached!Tasks, Owning!BoundsAssumption
<1>3. DetachedTypes'
  BY <1>1, <1>2 DEF DetachedOrdered, DetachedTypes
<1>4. TaskHolds'
  BY <1>1 DEF TaskHolds
<1>5. DetachedOwned'
  BY <1>1 DEF DetachedOrdered, DetachedOwned, Detached!Queued
<1> QED
  BY <1>3, <1>4, <1>5 DEF DetachedOrdered

LEMMA DetachKeeps == ASSUME DetachedOrdered, Detached!Detach PROVE DetachedOrdered'
<1> DEFINE e == <<clock, task>>
<1>1. /\ main = "detach" /\ main' = "drop" /\ pending' = Append(pending, e) /\ handle' = {}
      /\ UNCHANGED <<timed, waits, address, task, active, awaited, frames, clock>>
      /\ handle = {task} /\ active = {}
  BY DEF Detached!Detach, Detached!choices, DetachedOrdered, TaskHolds
<1>2. e \in Moments /\ e[2] = task /\ pending \in Seq(Moments)
  BY DEF DetachedOrdered, DetachedTypes, Moments
<1>3. HandledOnce(pending) /\ task \notin Handles(pending)
  BY <1>1, QueuedHandles DEF DetachedOrdered, DetachedOwned
<1> HIDE DEF e
<1>4. /\ pending' \in Seq(Moments) /\ HandledOnce(pending')
      /\ Detached!Queued' = Detached!Queued \cup {task}
  BY <1>1, <1>2, <1>3, AppendMoment, QueuedHandles
<1>5. DetachedTypes' /\ TaskHolds'
  BY <1>1, <1>4 DEF DetachedOrdered, DetachedTypes, TaskHolds
<1>6. DetachedOwned'
  BY <1>1, <1>4 DEF DetachedOrdered, DetachedOwned
<1> QED
  BY <1>5, <1>6 DEF DetachedOrdered

LEMMA DropKeeps == ASSUME DetachedOrdered, Detached!DropTask PROVE DetachedOrdered'
<1>1. /\ main = "drop" /\ handle = {} /\ frames' = frames /\ handle' = {} /\ active = {}
      /\ UNCHANGED <<timed, waits, address, pending, active, awaited, clock>>
      /\ IF task = NumTasks THEN main' = "run" /\ task' = task ELSE main' = "create" /\ task' = task + 1
  BY DEF Detached!DropTask, Detached!choices, DetachedOrdered, TaskHolds
<1>2. /\ task' \in Detached!Tasks /\ 1..task \subseteq 1..task'
      /\ main' = "create" => task' \notin 1..task
  <2>1. NumTasks \in Nat /\ task \in 1..NumTasks
    BY OwningAssumption
       DEF DetachedOrdered, DetachedTypes, Detached!Tasks, Owning!BoundsAssumption
  <2>2. CASE task = NumTasks
    BY <1>1, <2>1, <2>2 DEF Detached!Tasks
  <2>3. CASE task # NumTasks
    <3>1. main' = "create" /\ task' = task + 1 /\ task + 1 \in 1..NumTasks
      BY <1>1, <2>1, <2>3
    <3> QED
      BY <2>1, <3>1 DEF Detached!Tasks
  <2> QED
    BY <2>2, <2>3
<1>3. DetachedTypes' /\ TaskHolds'
  BY <1>1, <1>2 DEF DetachedOrdered, DetachedTypes, TaskHolds
<1>4. DetachedOwned'
  BY <1>1 DEF DetachedOrdered, DetachedOwned, Detached!Queued, Detached!done
<1> QED
  BY <1>3, <1>4 DEF DetachedOrdered

LEMMA ResumeKeeps == ASSUME DetachedOrdered, Detached!Resume PROVE DetachedOrdered'
<1>1. PICK n \in 1..Len(pending) : n = Detached!Top
  BY FirstMoment DEF Detached!Resume, DetachedOrdered
<1>2. PICK t \in Detached!Tasks : t = pending[n][2]
  BY DEF DetachedOrdered, DetachedTypes, Moments
<1>3. PICK s : s = Detached!RemoveAt(pending, n)
  OBVIOUS
<1>4. s \in Seq(Moments) /\ HandledOnce(s) /\ Handles(s) = Detached!Queued \ {t}
  BY <1>2, <1>3, RemoveMoment, QueuedHandles DEF DetachedOrdered, DetachedTypes, DetachedOwned
<1>5. /\ main = "run" /\ active = {} /\ active' = {t} /\ Detached!RunsTo(t, s)
      /\ UNCHANGED <<timed, waits, address, main, task, handle, frames, clock>>
      /\ handle = {}
  BY <1>1, <1>2, <1>3 DEF Detached!Resume, Detached!choices, DetachedOrdered, TaskHolds
<1>6. /\ waits[t] \in Seq(Nat) /\ Len(waits[t]) \in Nat /\ awaited[t] \in Nat
      /\ awaited' = [awaited EXCEPT ![t] = @ + 1] /\ awaited'[t] = awaited[t] + 1
      /\ awaited' \in [Detached!Tasks -> Nat]
  <2>1. awaited' = [awaited EXCEPT ![t] = @ + 1]
    BY <1>5 DEF Detached!RunsTo
  <2>2. waits[t] \in Seq(Nat) /\ awaited[t] \in Nat /\ awaited \in [Detached!Tasks -> Nat]
    BY <1>2 DEF DetachedOrdered, DetachedTypes
  <2> QED
    BY <2>1, <2>2
<1>7. frames = Detached!Queued /\ t \in frames
  BY <1>2, <1>5 DEF DetachedOrdered, DetachedOwned, Detached!Queued
<1>8. CASE awaited[t] < Len(waits[t])
  <2> DEFINE e == <<waits[t][awaited[t] + 1], t>>
  <2>1. pending' = Append(s, e)
    BY <1>5, <1>8 DEF Detached!RunsTo
  <2>2. e \in Moments /\ e[2] = t
    <3>1. waits[t][awaited[t] + 1] \in Nat
      BY <1>6, <1>8
    <3> QED
      BY <1>2, <3>1 DEF Moments
  <2> HIDE DEF e
  <2>3. /\ pending' \in Seq(Moments) /\ HandledOnce(pending')
        /\ Detached!Queued' = (Detached!Queued \ {t}) \cup {t}
    BY <1>4, <2>1, <2>2, AppendMoment, QueuedHandles
  <2>4. ~Detached!done(t)'
    BY <1>5, <1>6, <1>8 DEF Detached!done
  <2>5. DetachedTypes' /\ TaskHolds'
    BY <1>2, <1>5, <1>6, <2>3 DEF DetachedOrdered, DetachedTypes, TaskHolds
  <2>6. DetachedOwned'
    BY <1>5, <1>7, <2>3, <2>4 DEF DetachedOwned
  <2> QED
    BY <2>5, <2>6 DEF DetachedOrdered
<1>9. CASE ~(awaited[t] < Len(waits[t]))
  <2>1. pending' = s
    BY <1>5, <1>9 DEF Detached!RunsTo
  <2>2. /\ pending' \in Seq(Moments) /\ HandledOnce(pending')
        /\ Detached!Queued' = Detached!Queued \ {t}
    BY <1>4, <2>1, QueuedHandles
  <2>3. Detached!done(t)'
    BY <1>5, <1>6, <1>9 DEF Detached!done
  <2>4. DetachedTypes' /\ TaskHolds'
    BY <1>2, <1>5, <1>6, <2>2 DEF DetachedOrdered, DetachedTypes, TaskHolds
  <2>5. DetachedOwned'
    BY <1>5, <1>7, <2>2, <2>3 DEF DetachedOwned
  <2> QED
    BY <2>4, <2>5 DEF DetachedOrdered
<1> QED
  BY <1>8, <1>9

LEMMA CheckKeeps == ASSUME DetachedOrdered, Detached!CheckDone PROVE DetachedOrdered'
<1>1. /\ active # {} /\ frames' = frames \ {t \in active : Detached!done(t)} /\ active' = {}
      /\ UNCHANGED <<timed, waits, address, main, task, handle, pending, awaited, clock>>
  BY DEF Detached!CheckDone, Detached!choices
<1>2. DetachedTypes' /\ TaskHolds'
  BY <1>1 DEF DetachedOrdered, DetachedTypes, TaskHolds
<1>3. DetachedOwned'
  BY <1>1 DEF DetachedOrdered, DetachedOwned, Detached!Queued
<1> QED
  BY <1>2, <1>3 DEF DetachedOrdered

LEMMA DetachedInvariance == Spec => []DetachedInv
<1>1. Init => DetachedInv
  BY DetachedInit DEF Init, DetachedInv
<1>2. DetachedInv /\ [Next]_variables => DetachedInv'
  <2> SUFFICES ASSUME DetachedInv, [Next]_variables, program' = "detached" PROVE DetachedOrdered'
    BY DEF DetachedInv
  <2>1. program = "detached" /\ DetachedOrdered
    BY DEF DetachedInv, Next, OwningNext, ListedNext, DetachedNext, NestedNext, OwningOthers,
       ListedOthers, NestedOthers, variables
  <2>2. CASE Detached!Step
    BY <2>1, <2>2, CreateKeeps, DetachKeeps, DropKeeps, ResumeKeeps, CheckKeeps DEF Detached!Step
  <2>3. CASE Detached!Tick
    BY <2>1, <2>3 DEF Detached!Tick, Detached!choices, DetachedOrdered, DetachedTypes, TaskHolds,
       DetachedOwned, Detached!Queued, Detached!done
  <2>4. CASE UNCHANGED Detached!vars
    BY <2>1, <2>4 DEF Detached!vars, DetachedOrdered, DetachedTypes, TaskHolds, DetachedOwned,
       Detached!Queued, Detached!done
  <2>5. CASE UNCHANGED variables
    BY <2>4, <2>5 DEF variables, detached, Detached!vars
  <2> QED
    BY <2>1, <2>2, <2>3, <2>4, <2>5 DEF Next, OwningNext, ListedNext, DetachedNext, NestedNext,
       Detached!Next
<1> QED
  BY <1>1, <1>2, PTL DEF Spec

\* In every program a frame has one owner: for any number of tasks, whatever they wait
\* for, and whichever container their handles are in.
THEOREM EveryFrameOwned == Spec => []FramesOwned
<1>1. OwningInv => (program = "owning" => Owning!FramesOwned)
  BY SameProperties, OwningProofs!FramesOwnedNow DEF OwningInv, OwningProofs!TurnInv
<1>2. ListedInv => (program = "listed" => Listed!ListIsAlive)
  <2> SUFFICES ASSUME ListOrdered PROVE Listed!ListIsAlive
    BY DEF ListedInv
  <2>1. Len(tasks) \in Nat
    BY DEF ListOrdered, ListTypes
  <2>2. Cardinality(Listed!InList) = Len(tasks)
    BY <2>1, SizeOfDistinct DEF ListOrdered, ListOnce, Listed!InList
  <2> QED
    BY <2>2, SameSize DEF ListOrdered, ListOnce, Listed!ListIsAlive
<1>3. DetachedInv => (program = "detached" => Detached!FramesOwned)
  <2> SUFFICES ASSUME DetachedOrdered PROVE Detached!FramesOwned
    BY DEF DetachedInv
  <2>1. PICK n \in Nat : n = Len(pending)
    BY DEF DetachedOrdered, DetachedTypes
  <2>2. PICK key : key = [i \in 1..n |-> pending[i][2]]
    OBVIOUS
  <2>3. \A i, k \in 1..n : key[i] = key[k] => i = k
    BY <2>1, <2>2 DEF DetachedOrdered, DetachedOwned, HandledOnce
  <2>4. Cardinality({key[i] : i \in 1..n}) = n
    BY <2>3, SizeOfDistinct
  <2>5. Detached!Queued = {key[i] : i \in 1..n}
    BY <2>1, <2>2 DEF Detached!Queued
  <2> QED
    BY <2>1, <2>4, <2>5, SameSize DEF DetachedOrdered, DetachedOwned, Detached!FramesOwned
<1>4. OwningInv /\ ListedInv /\ DetachedInv => FramesOwned
  BY <1>1, <1>2, <1>3 DEF FramesOwned
<1> QED
  BY <1>4, OwningInvariance, ListedInvariance, DetachedInvariance, PTL

-----------------------------------------------------------------------------
(* The order of turns *)

\* Of two coroutines t goes first: both have had c turns and t is the earlier task,
\* or it has had one less and is the later one.
TurnFirst(c, t, u) == \/ c[u] = c[t] /\ t < u
                      \/ c[u] = c[t] + 1 /\ u < t

\* Among f[1], ..., f[n] each has its turn before those behind it.
Sorted(f, n, c) == \A i, k \in 1..n : i < k => TurnFirst(c, f[i], f[k])

\* Without the first one the others are sorted, and it goes before all of them.
LEMMA SortedRest ==
    ASSUME NEW n \in Nat \ {0}, NEW f, NEW g, NEW c, Sorted(f, n, c),
           \A i \in 1..(n - 1) : g[i] = f[i + 1]
    PROVE  Sorted(g, n - 1, c) /\ \A i \in 1..(n - 1) : TurnFirst(c, f[1], g[i])
<1>1. \A i \in 1..(n - 1) : i + 1 \in 1..n /\ 1 < i + 1 /\ 1 \in 1..n
  OBVIOUS
<1>2. \A i, k \in 1..(n - 1) : i < k => i + 1 < k + 1
  OBVIOUS
<1>3. ASSUME NEW i \in 1..(n - 1), NEW k \in 1..(n - 1), i < k PROVE TurnFirst(c, g[i], g[k])
  <2>1. g[i] = f[i + 1] /\ g[k] = f[k + 1] /\ i + 1 \in 1..n /\ k + 1 \in 1..n /\ i + 1 < k + 1
    BY <1>1, <1>2, <1>3
  <2> QED
    BY <2>1 DEF Sorted
<1>4. ASSUME NEW i \in 1..(n - 1) PROVE TurnFirst(c, f[1], g[i])
  <2>1. g[i] = f[i + 1] /\ i + 1 \in 1..n /\ 1 < i + 1 /\ 1 \in 1..n
    BY <1>1
  <2> QED
    BY <2>1 DEF Sorted
<1> QED
  BY <1>3, <1>4 DEF Sorted

\* One who goes after all of them can be put at the end.
LEMMA SortedMore ==
    ASSUME NEW n \in Nat, NEW f, NEW g, NEW c, Sorted(f, n, c),
           \A i \in 1..n : g[i] = f[i] /\ TurnFirst(c, f[i], g[n + 1])
    PROVE  Sorted(g, n + 1, c)
<1>1. 1..(n + 1) = 1..n \cup {n + 1} /\ \A i \in 1..n : i < n + 1 /\ ~(n + 1 < i)
  OBVIOUS
<1>2. ~(n + 1 < n + 1)
  OBVIOUS
<1> QED
  BY <1>1, <1>2 DEF Sorted

\* Whoever was first goes last after its turn.
LEMMA SortedTurn ==
    ASSUME NEW S, S \subseteq Nat, NEW n \in Nat, NEW f, NEW c \in [S -> Nat], NEW t \in S,
           \A i \in 1..n : f[i] \in S, Sorted(f, n, c),
           \A i \in 1..n : TurnFirst(c, t, f[i]),
           NEW d, d = [c EXCEPT ![t] = @ + 1]
    PROVE  Sorted(f, n, d) /\ \A i \in 1..n : TurnFirst(d, f[i], t)
<1>1. ASSUME NEW u \in S, TurnFirst(c, t, u) PROVE u # t /\ d[u] = c[u] /\ TurnFirst(d, u, t)
  <2>1. u \in Nat /\ t \in Nat /\ c[u] \in Nat /\ c[t] \in Nat
    OBVIOUS
  <2>2. u # t
    BY <1>1, <2>1 DEF TurnFirst
  <2>3. d[u] = c[u] /\ d[t] = c[t] + 1
    BY <2>2
  <2>4. \/ d[t] = d[u] + 1 /\ t < u
        \/ d[t] = d[u] /\ u < t
    BY <1>1, <2>1, <2>3 DEF TurnFirst
  <2> QED
    BY <2>2, <2>3, <2>4 DEF TurnFirst
<1>2. \A i \in 1..n : d[f[i]] = c[f[i]] /\ TurnFirst(d, f[i], t)
  BY <1>1
<1>3. Sorted(f, n, d)
  BY <1>2 DEF Sorted, TurnFirst
<1> QED
  BY <1>2, <1>3

\* What is sorted has come equally far, give or take one turn.
LEMMA SortedFair ==
    ASSUME NEW c, NEW t \in Nat, NEW u \in Nat, c[t] \in Nat, c[u] \in Nat, t < u,
           TurnFirst(c, t, u) \/ TurnFirst(c, u, t)
    PROVE  c[t] - c[u] \in {0, 1}
BY DEF TurnFirst

LEMMA SortedPair ==
    ASSUME NEW n \in Nat, NEW f, NEW c, Sorted(f, n, c), NEW i \in 1..n, NEW k \in 1..n, i # k
    PROVE  TurnFirst(c, f[i], f[k]) \/ TurnFirst(c, f[k], f[i])
<1>1. i < k \/ k < i
  OBVIOUS
<1> QED
  BY <1>1 DEF Sorted

\* The list: while main() calls the tasks they come to their first co_await one
\* after the other.
ListTurns == /\ Sorted(tasks, Len(tasks), passed)
             /\ called < NumTasks => \A i \in 1..Len(tasks) : passed[tasks[i]] = 1

LEMMA ListTurnsCall == ASSUME ListOrdered, ListTurns, Listed!Call PROVE ListTurns'
<1>1. PICK t : t = called + 1
  OBVIOUS
<1>2. called < NumTasks /\ called' = t /\ Listed!RunsTo(t, tasks, frames \cup {t})
  BY <1>1 DEF Listed!Call
<1>3. NumTasks \in Nat /\ called \in Nat /\ t \in Listed!Tasks /\ t \in Nat
  BY <1>1, <1>2, OwningAssumption DEF ListOrdered, ListTypes, Owning!BoundsAssumption, Listed!Tasks
<1>4. /\ Len(tasks) \in Nat /\ passed[t] = 0 /\ passed \in [Listed!Tasks -> Nat]
      /\ \A i \in 1..Len(tasks) : tasks[i] \in Listed!Tasks /\ tasks[i] < t /\ passed[tasks[i]] = 1
  <2>1. passed[t] = 0 /\ passed \in [Listed!Tasks -> Nat] /\ tasks \in Seq(Listed!Tasks)
    BY <1>1, <1>3 DEF ListOrdered, ListTypes, ListFilled
  <2>2. \A i \in 1..Len(tasks) : tasks[i] \in 1..called
    BY DEF ListOrdered, ListTypes, ListOnce, Listed!InList
  <2>3. \A u \in 1..called : u < t
    BY <1>1, <1>3
  <2> QED
    BY <1>2, <2>1, <2>2, <2>3 DEF ListTurns
<1>5. CASE passed[t] < suspends[t]
  <2>1. tasks' = Append(tasks, t) /\ passed' = [passed EXCEPT ![t] = @ + 1]
    BY <1>2, <1>5 DEF Listed!RunsTo
  <2>2. /\ Len(tasks') = Len(tasks) + 1 /\ tasks'[Len(tasks) + 1] = t
        /\ \A i \in 1..Len(tasks) : tasks'[i] = tasks[i]
    BY <1>4, <2>1 DEF ListOrdered, ListTypes
  <2>3. passed'[t] = 1 /\ \A u \in Listed!Tasks : u # t => passed'[u] = passed[u]
    BY <1>3, <1>4, <2>1
  <2>4. \A i \in 1..Len(tasks) : tasks[i] # t /\ passed'[tasks[i]] = 1
    BY <1>3, <1>4, <2>3 DEF Listed!Tasks
  <2>5. Sorted(tasks, Len(tasks), passed')
    BY <1>4, <2>4 DEF ListTurns, Sorted, TurnFirst
  <2>6. \A i \in 1..Len(tasks) : TurnFirst(passed', tasks[i], t)
    BY <1>4, <2>3, <2>4 DEF TurnFirst
  <2>7. Sorted(tasks', Len(tasks) + 1, passed')
    BY <1>4, <2>2, <2>5, <2>6, SortedMore
  <2>8. \A i \in 1..Len(tasks') : passed'[tasks'[i]] = 1
    <3>1. 1..Len(tasks') = 1..Len(tasks) \cup {Len(tasks) + 1}
      BY <1>4, <2>2
    <3> QED
      BY <2>2, <2>3, <2>4, <3>1
  <2> QED
    BY <2>2, <2>7, <2>8 DEF ListTurns
<1>6. CASE ~(passed[t] < suspends[t])
  <2>1. tasks' = tasks /\ passed' = passed
    BY <1>2, <1>6 DEF Listed!RunsTo
  <2> QED
    BY <1>4, <2>1 DEF ListTurns
<1> QED
  BY <1>5, <1>6

LEMMA ListTurnsSchedule == ASSUME ListOrdered, ListTurns, Listed!schedule PROVE ListTurns'
<1>1. PICK t, s : t = Head(tasks) /\ s = Tail(tasks)
  OBVIOUS
<1>2. called = NumTasks /\ called' = NumTasks /\ Listed!RunsTo(t, s, frames) /\ tasks # <<>>
  BY <1>1 DEF Listed!schedule, ListOrdered, ListFilled, Listed!FrontExists
<1>3. /\ Len(tasks) \in Nat \ {0} /\ Len(s) = Len(tasks) - 1 /\ Len(s) \in Nat /\ t = tasks[1]
      /\ s \in Seq(Listed!Tasks) /\ t \in Listed!Tasks
      /\ \A i \in 1..(Len(tasks) - 1) : s[i] = tasks[i + 1]
  BY <1>1, <1>2 DEF ListOrdered, ListTypes
<1>4. Sorted(s, Len(s), passed) /\ \A i \in 1..Len(s) : TurnFirst(passed, t, s[i])
  BY <1>3, SortedRest DEF ListTurns
<1>5. ~(NumTasks < NumTasks)
  BY OwningAssumption DEF Owning!BoundsAssumption
<1>6. CASE passed[t] < suspends[t]
  <2>1. tasks' = Append(s, t) /\ passed' = [passed EXCEPT ![t] = @ + 1]
    BY <1>2, <1>6 DEF Listed!RunsTo
  <2>2. Listed!Tasks \subseteq Nat /\ passed \in [Listed!Tasks -> Nat]
    BY DEF ListOrdered, ListTypes, Listed!Tasks
  <2>3. Sorted(s, Len(s), passed') /\ \A i \in 1..Len(s) : TurnFirst(passed', s[i], t)
    <3>1. \A i \in 1..Len(s) : s[i] \in Listed!Tasks
      BY <1>3
    <3> QED
      BY <1>3, <1>4, <2>1, <2>2, <3>1, SortedTurn
  <2>4. /\ Len(tasks') = Len(s) + 1 /\ tasks'[Len(s) + 1] = t
        /\ \A i \in 1..Len(s) : tasks'[i] = s[i]
    BY <1>3, <2>1
  <2>5. Sorted(tasks', Len(tasks'), passed')
    BY <1>3, <2>3, <2>4, SortedMore
  <2> QED
    BY <1>2, <1>5, <2>5 DEF ListTurns
<1>7. CASE ~(passed[t] < suspends[t])
  <2>1. tasks' = s /\ passed' = passed
    BY <1>2, <1>7 DEF Listed!RunsTo
  <2> QED
    BY <1>2, <1>4, <1>5, <2>1 DEF ListTurns
<1> QED
  BY <1>6, <1>7

ListedTurns == program = "listed" => ListTurns

LEMMA ListedTurnsInvariance == Spec => []ListedTurns
<1>1. Init => ListedTurns
  BY DEF Init, ListedTurns, ListTurns, Listed!Init, Sorted
<1>2. ListedInv /\ ListedTurns /\ [Next]_variables => ListedTurns'
  <2> SUFFICES ASSUME ListedInv, ListedTurns, [Next]_variables, program' = "listed"
               PROVE  ListTurns'
    BY DEF ListedTurns
  <2>1. program = "listed" /\ ListOrdered /\ ListTurns
    BY DEF ListedInv, ListedTurns, Next, OwningNext, ListedNext, DetachedNext, NestedNext,
       OwningOthers, DetachedOthers, NestedOthers, variables
  <2>2. CASE Listed!Call \/ Listed!schedule
    BY <2>1, <2>2, ListTurnsCall, ListTurnsSchedule
  <2>3. CASE UNCHANGED <<suspends, called, tasks, passed, frames, again>>
    BY <2>1, <2>3 DEF ListTurns, Sorted, TurnFirst
  <2>4. CASE UNCHANGED variables
    BY <2>3, <2>4 DEF variables, listed
  <2> QED
    BY <2>1, <2>2, <2>3, <2>4 DEF Next, OwningNext, ListedNext, DetachedNext, NestedNext,
       Listed!Next, Listed!vars
<1> QED
  BY <1>1, <1>2, ListedInvariance, PTL DEF Spec

LEMMA ListIsFair == ASSUME ListOrdered, ListTurns PROVE Listed!RoundRobin
<1> SUFFICES ASSUME NEW t \in frames, NEW u \in frames, t < u
             PROVE  passed[t] - passed[u] \in {0, 1}
  BY DEF Listed!RoundRobin
<1>1. PICK i \in 1..Len(tasks), k \in 1..Len(tasks) : t = tasks[i] /\ u = tasks[k]
  BY DEF ListOrdered, ListOnce, Listed!InList
<1>2. /\ Len(tasks) \in Nat /\ t \in Nat /\ u \in Nat /\ passed[t] \in Nat /\ passed[u] \in Nat
  <2>1. t \in Listed!Tasks /\ u \in Listed!Tasks /\ Len(tasks) \in Nat
    BY <1>1 DEF ListOrdered, ListTypes
  <2> QED
    BY <2>1 DEF ListOrdered, ListTypes, Listed!Tasks
<1>3. i # k
  BY <1>1, <1>2
<1>4. TurnFirst(passed, t, u) \/ TurnFirst(passed, u, t)
  BY <1>1, <1>2, <1>3, SortedPair DEF ListTurns
<1> QED
  BY <1>2, <1>4, SortedFair

\* The handles of a container of pairs, in order.
Owners(s) == [i \in 1..Len(s) |-> s[i][2]]

\* The list of detached tasks: no body runs before run(), and the active one has
\* had its turn, whether it is in the list again or done.
MomentTurns == ~timed =>
    /\ Sorted(Owners(pending), Len(pending), awaited)
    /\ \A t \in active, i \in 1..Len(pending) :
          pending[i][2] # t => TurnFirst(awaited, pending[i][2], t)
    /\ main # "run" => \A t \in Detached!Tasks : awaited[t] = 0

\* A task that is detached goes after those detached before it.
LEMMA MomentTurnsDetach == ASSUME DetachedOrdered, MomentTurns, ~timed, Detached!Detach
                           PROVE  MomentTurns'
<1>1. /\ main = "detach" /\ main' = "drop" /\ pending' = Append(pending, <<clock, task>>)
      /\ UNCHANGED <<timed, active, awaited>> /\ handle = {task} /\ active = {}
  BY DEF Detached!Detach, Detached!choices, DetachedOrdered, TaskHolds
<1>2. /\ Len(pending) \in Nat /\ Len(pending') = Len(pending) + 1
      /\ pending'[Len(pending) + 1] = <<clock, task>>
      /\ \A i \in 1..Len(pending) : pending'[i] = pending[i]
  BY <1>1 DEF DetachedOrdered, DetachedTypes
<1>3. /\ \A i \in 1..Len(pending) : pending[i][2] \in Detached!Tasks /\ pending[i][2] < task
      /\ task \in Detached!Tasks /\ task \in Nat /\ Detached!Tasks \subseteq Nat
  <2>1. task \in Detached!Tasks /\ task \in Nat /\ Detached!Tasks \subseteq Nat
    BY DEF DetachedOrdered, DetachedTypes, Detached!Tasks
  <2>2. ASSUME NEW i \in 1..Len(pending) PROVE pending[i][2] \in 1..task /\ pending[i][2] # task
    BY <1>1 DEF DetachedOrdered, DetachedTypes, DetachedOwned, Detached!Queued
  <2>3. ASSUME NEW i \in 1..Len(pending) PROVE pending[i][2] \in Detached!Tasks
    BY DEF DetachedOrdered, DetachedTypes, Moments
  <2>4. \A u \in 1..task : u # task => u < task
    BY <2>1
  <2> QED
    BY <2>1, <2>2, <2>3, <2>4
<1>4. \A t \in Detached!Tasks : awaited[t] = 0
  BY <1>1 DEF MomentTurns
<1> DEFINE f == Owners(pending)
           g == Owners(pending')
<1>5. /\ g[Len(pending) + 1] = task
      /\ \A i \in 1..Len(pending) : g[i] = f[i] /\ f[i] = pending[i][2]
  <2>1. Len(pending) + 1 \in 1..Len(pending') /\ \A i \in 1..Len(pending) : i \in 1..Len(pending')
    BY <1>2
  <2>2. pending'[Len(pending) + 1][2] = task
    BY <1>2
  <2> QED
    BY <1>2, <2>1, <2>2 DEF Owners
<1> HIDE DEF f, g
<1>6. \A i \in 1..Len(pending) : TurnFirst(awaited, f[i], g[Len(pending) + 1])
  BY <1>3, <1>4, <1>5 DEF TurnFirst
<1>7. Sorted(f, Len(pending), awaited)
  BY DEF f, MomentTurns
<1>8. Sorted(g, Len(pending) + 1, awaited)
  BY <1>2, <1>5, <1>6, <1>7, SortedMore
<1> QED
  BY <1>1, <1>2, <1>4, <1>8 DEF g, MomentTurns

\* run() takes the first of the list, whose body puts itself back at its end.
LEMMA MomentTurnsResume == ASSUME DetachedOrdered, MomentTurns, ~timed, Detached!Resume
                           PROVE  MomentTurns'
<1>1. PICK t, s : t = pending[1][2] /\ s = Detached!RemoveAt(pending, 1)
  OBVIOUS
<1>2. /\ main = "run" /\ main' = "run" /\ active' = {t} /\ Detached!RunsTo(t, s) /\ pending # <<>>
      /\ timed' = timed
  BY <1>1 DEF Detached!Resume, Detached!choices, Detached!Top
<1>3. /\ Len(pending) \in Nat \ {0} /\ 1 \in 1..Len(pending) /\ t \in Detached!Tasks
      /\ Detached!Tasks \subseteq Nat /\ awaited \in [Detached!Tasks -> Nat]
  <2>1. Len(pending) \in Nat \ {0} /\ 1 \in 1..Len(pending)
    BY <1>2 DEF DetachedOrdered, DetachedTypes
  <2>2. t \in Detached!Tasks
    BY <1>1, <2>1 DEF DetachedOrdered, DetachedTypes, Moments
  <2> QED
    BY <2>1, <2>2 DEF DetachedOrdered, DetachedTypes, Detached!Tasks
<1>4. /\ s \in Seq(Moments) /\ Len(s) = Len(pending) - 1 /\ Len(s) \in Nat
      /\ \A i \in 1..(Len(pending) - 1) : s[i] = pending[i + 1]
  <2>1. pending \in Seq(Moments) /\ HandledOnce(pending)
    BY DEF DetachedOrdered, DetachedTypes, DetachedOwned
  <2>2. PICK n \in 1..Len(pending) : n = 1
    BY <1>3
  <2>3. s = Detached!RemoveAt(pending, n)
    BY <1>1, <2>2
  <2>4. /\ s \in Seq(Moments) /\ Len(s) = Len(pending) - 1
        /\ \A k \in 1..(Len(pending) - 1) : s[k] = IF k < n THEN pending[k] ELSE pending[k + 1]
    BY <2>1, <2>3, RemoveMoment
  <2> QED
    BY <1>3, <2>2, <2>4
<1> DEFINE f == Owners(pending)
           h == Owners(s)
<1>5. f[1] = t /\ \A i \in 1..Len(s) : h[i] = f[i + 1] /\ h[i] = s[i][2] /\ h[i] \in Detached!Tasks
  <2>1. \A i \in 1..Len(s) : i + 1 \in 1..Len(pending) /\ s[i] \in Moments
    BY <1>3, <1>4
  <2>2. \A i \in 1..Len(s) : s[i][2] \in Detached!Tasks
    BY <2>1 DEF Moments
  <2> QED
    BY <1>1, <1>3, <1>4, <2>1, <2>2 DEF Owners
<1>6. Sorted(f, Len(pending), awaited)
  BY DEF MomentTurns
<1> HIDE DEF f, h
<1>7. Sorted(h, Len(s), awaited) /\ \A i \in 1..Len(s) : TurnFirst(awaited, t, h[i])
  BY <1>3, <1>4, <1>5, <1>6, SortedRest
<1>8. awaited' = [awaited EXCEPT ![t] = @ + 1]
  BY <1>2 DEF Detached!RunsTo
<1>9. Sorted(h, Len(s), awaited') /\ \A i \in 1..Len(s) : TurnFirst(awaited', h[i], t)
  BY <1>3, <1>4, <1>5, <1>7, <1>8, SortedTurn
<1>10. CASE awaited[t] < Len(waits[t])
  <2>1. pending' = Append(s, <<waits[t][awaited[t] + 1], t>>)
    BY <1>2, <1>10 DEF Detached!RunsTo
  <2>2. /\ Len(pending') = Len(s) + 1 /\ pending'[Len(s) + 1][2] = t
        /\ \A i \in 1..Len(s) : pending'[i] = s[i]
    BY <1>4, <2>1
  <2> DEFINE g == Owners(pending')
  <2>3. g[Len(s) + 1] = t /\ \A i \in 1..Len(s) : g[i] = h[i]
    <3>1. Len(s) + 1 \in 1..Len(pending') /\ \A i \in 1..Len(s) : i \in 1..Len(pending')
      BY <1>4, <2>2
    <3> QED
      BY <1>5, <2>2, <3>1 DEF Owners
  <2> HIDE DEF g
  <2>4. Sorted(g, Len(s) + 1, awaited')
    BY <1>4, <1>9, <2>3, SortedMore
  <2>5. ASSUME NEW i \in 1..Len(pending'), pending'[i][2] # t
        PROVE  TurnFirst(awaited', pending'[i][2], t)
    <3>1. i \in 1..Len(s)
      BY <1>4, <2>2, <2>5
    <3> QED
      BY <1>5, <1>9, <2>2, <3>1
  <2> QED
    BY <1>2, <2>2, <2>4, <2>5 DEF g, MomentTurns
<1>11. CASE ~(awaited[t] < Len(waits[t]))
  <2>1. pending' = s
    BY <1>2, <1>11 DEF Detached!RunsTo
  <2> QED
    BY <1>2, <1>5, <1>9, <2>1 DEF h, MomentTurns
<1> QED
  BY <1>10, <1>11

DetachedTurns == program = "detached" => MomentTurns

LEMMA DetachedTurnsInvariance == Spec => []DetachedTurns
<1>1. Init => DetachedTurns
  BY DEF Init, DetachedTurns, MomentTurns, Detached!Init, Sorted
<1>2. DetachedInv /\ DetachedTurns /\ [Next]_variables => DetachedTurns'
  <2> SUFFICES ASSUME DetachedInv, DetachedTurns, [Next]_variables, program' = "detached"
               PROVE  MomentTurns'
    BY DEF DetachedTurns
  <2>1. program = "detached" /\ DetachedOrdered /\ MomentTurns
    BY DEF DetachedInv, DetachedTurns, Next, OwningNext, ListedNext, DetachedNext, NestedNext,
       OwningOthers, ListedOthers, NestedOthers, variables
  <2>2. timed' = timed
    BY <2>1 DEF Next, OwningNext, ListedNext, DetachedNext, NestedNext, Detached!Next,
       Detached!Step, Detached!Create, Detached!Detach, Detached!DropTask, Detached!Resume,
       Detached!CheckDone, Detached!Tick, Detached!choices, Detached!vars, variables, detached
  <2>3. CASE Detached!Detach \/ Detached!Resume
    BY <2>1, <2>2, <2>3, MomentTurnsDetach, MomentTurnsResume DEF MomentTurns
  <2>4. CASE /\ UNCHANGED <<timed, pending, awaited>> /\ active' \subseteq active
             /\ main' # "run" => main # "run"
    BY <2>1, <2>4 DEF MomentTurns
  <2>5. CASE Detached!Create \/ Detached!DropTask \/ Detached!CheckDone \/ Detached!Tick
    BY <2>4, <2>5 DEF Detached!Create, Detached!DropTask, Detached!CheckDone, Detached!Tick,
       Detached!choices
  <2>6. CASE UNCHANGED Detached!vars \/ UNCHANGED variables
    BY <2>4, <2>6 DEF Detached!vars, variables, detached
  <2> QED
    BY <2>1, <2>3, <2>5, <2>6 DEF Next, OwningNext, ListedNext, DetachedNext, NestedNext,
       Detached!Next, Detached!Step
<1> QED
  BY <1>1, <1>2, DetachedInvariance, PTL DEF Spec

LEMMA DetachedIsFair == ASSUME DetachedOrdered, MomentTurns PROVE Detached!RoundRobin
<1> SUFFICES ASSUME NEW t \in frames, NEW u \in frames, ~timed, main = "run", t < u
             PROVE  awaited[t] - awaited[u] \in {0, 1}
  BY DEF Detached!RoundRobin
<1>1. /\ t \in Nat /\ u \in Nat /\ awaited[t] \in Nat /\ awaited[u] \in Nat /\ t # u
  <2>1. frames \subseteq Detached!Tasks
    BY OwningAssumption
       DEF DetachedOrdered, DetachedTypes, Detached!Tasks, Owning!BoundsAssumption
  <2>2. t \in Nat /\ u \in Nat
    BY <2>1 DEF Detached!Tasks
  <2> QED
    BY <2>1, <2>2 DEF DetachedOrdered, DetachedTypes
<1>2. frames = {pending[i][2] : i \in 1..Len(pending)} \cup active
  BY DEF DetachedOrdered, DetachedOwned, TaskHolds, Detached!Queued
<1>3. ASSUME NEW i \in 1..Len(pending), NEW k \in 1..Len(pending), t = pending[i][2], u = pending[k][2]
      PROVE  TurnFirst(awaited, t, u) \/ TurnFirst(awaited, u, t)
  <2>1. Owners(pending)[i] = t /\ Owners(pending)[k] = u /\ i # k /\ Len(pending) \in Nat
    BY <1>1, <1>3 DEF Owners, DetachedOrdered, DetachedTypes
  <2> QED
    BY <2>1, SortedPair DEF MomentTurns
<1>4. TurnFirst(awaited, t, u) \/ TurnFirst(awaited, u, t)
  <2>1. CASE t \in active
    <3>1. u \notin active
      BY <1>1, <2>1 DEF DetachedOrdered, DetachedOwned
    <3> QED
      BY <1>1, <1>2, <2>1, <3>1 DEF MomentTurns
  <2>2. CASE t \notin active
    BY <1>1, <1>2, <1>3, <2>2 DEF MomentTurns
  <2> QED
    BY <2>1, <2>2
<1> QED
  BY <1>1, <1>4, SortedFair

\* Whichever program runs it resumes its coroutines in the order its container
\* promises: for any number of tasks, bodies of any length and any priorities.
THEOREM TurnsInOrder == Spec => []TurnOrder
<1>1. OwningInv => (program = "owning" => Owning!TurnOrder)
  BY SameProperties, SameBounds, OwningAssumption, OwningProofs!TurnOrderNow DEF OwningInv
<1>2. ListedInv /\ ListedTurns => (program = "listed" => Listed!RoundRobin)
  BY ListIsFair DEF ListedInv, ListedTurns
<1>3. DetachedInv /\ DetachedTurns => (program = "detached" => Detached!RoundRobin)
  BY DetachedIsFair DEF DetachedInv, DetachedTurns
<1>4. OwningInv /\ ListedInv /\ ListedTurns /\ DetachedInv /\ DetachedTurns => TurnOrder
  BY <1>1, <1>2, <1>3 DEF TurnOrder
<1> QED
  BY <1>4, OwningInvariance, ListedInvariance, ListedTurnsInvariance, DetachedInvariance,
     DetachedTurnsInvariance, PTL

\* In the timed program only the resumption of a coroutine lets its body run, the
\* clock has then reached the time it waits for, and nobody waits for an earlier one.
THEOREM WakesUpInOrder == Spec => WakesInOrder
<1>1. DetachedInv /\ [Next]_variables => [program = "detached" => Detached!WakeUp]_variables
  <2> SUFFICES ASSUME DetachedInv, [Next]_variables, program = "detached",
                      NEW t \in Detached!Tasks, timed, awaited'[t] > awaited[t]
               PROVE  \E i \in 1..Len(pending) :
                         /\ pending[i][2] = t
                         /\ pending[i][1] <= clock
                         /\ \A k \in 1..Len(pending) : pending[i][1] <= pending[k][1]
    BY DEF Detached!WakeUp
  <2>1. DetachedOrdered /\ awaited \in [Detached!Tasks -> Nat] /\ awaited[t] \in Nat
    BY DEF DetachedInv, DetachedOrdered, DetachedTypes
  <2>2. awaited' # awaited
    BY <2>1
  <2>3. Detached!Resume
    BY <2>2 DEF Next, OwningNext, ListedNext, DetachedNext, NestedNext, Detached!Next,
       Detached!Step, Detached!Create, Detached!Detach, Detached!DropTask, Detached!CheckDone,
       Detached!Tick, Detached!vars, variables, detached
  <2>4. PICK n \in 1..Len(pending) :
           n = Detached!Top /\ \A k \in 1..Len(pending) : ~Detached!Before(pending[k], pending[n])
    BY <2>1, <2>3, FirstMoment DEF Detached!Resume, DetachedOrdered
  <2>5. pending[n][1] <= clock /\ awaited' = [awaited EXCEPT ![pending[n][2]] = @ + 1]
    BY <2>3, <2>4 DEF Detached!Resume, Detached!RunsTo
  <2>6. pending[n][2] = t
    BY <2>1, <2>5
  <2>7. \A k \in 1..Len(pending) : pending[k][1] \in Nat
    <3>1. \A k \in 1..Len(pending) : pending[k] \in Nat \X Detached!Tasks
      BY <2>1 DEF DetachedOrdered, DetachedTypes, Moments
    <3> QED
      BY <3>1
  <2>8. ASSUME NEW k \in 1..Len(pending) PROVE pending[n][1] <= pending[k][1]
    BY <2>4, <2>7 DEF Detached!Before
  <2> QED
    BY <2>5, <2>6, <2>8
<1> QED
  BY <1>1, DetachedInvariance, PTL DEF Spec, WakesInOrder
=============================================================================
