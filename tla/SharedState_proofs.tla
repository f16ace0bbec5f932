------------------------- MODULE SharedState_proofs -------------------------
(***************************************************************************)
(* Programs that lock, start, join, wait and initialize as Discipline says *)
(* have no race, and construct once what they construct once: for every    *)
(* program, every interleaving and every choice of what a load reads.  The *)
(* invariant Ordered says, for each of these means, what a thread knows of *)
(* the others when it has come to a point of its code; a race would be an  *)
(* access it should know of and does not.                                  *)
(***************************************************************************)
EXTENDS SharedState, TLAPS

-----------------------------------------------------------------------------
(* What threads know *)

\* What a thread knows has happened, and the oldest values it may still read.
Knowledge(p) == [happened : [DOMAIN p.code -> Nat], seen : [DOMAIN p.mem -> Nat]]

\* The larger of two times.
LEMMA LargerOf == ASSUME NEW a \in Nat, NEW b \in Nat
                  PROVE  /\ Larger(a, b) \in Nat /\ Larger(a, b) >= a /\ Larger(a, b) >= b
                         /\ Larger(a, b) = a \/ Larger(a, b) = b
<1>1. \E x \in {a, b} : \A y \in {a, b} : x >= y
  OBVIOUS
<1>2. Max({a, b}) \in {a, b} /\ \A y \in {a, b} : Max({a, b}) >= y
  BY <1>1 DEF Max
<1> DEFINE m == Max({a, b})
<1>3. m \in {a, b} /\ m >= a /\ m >= b
  BY <1>2
<1> HIDE DEF m
<1> QED
  BY <1>3 DEF Larger, m

\* What is known by either of two.
LEMMA BothKnown ==
    ASSUME NEW p, NEW k \in Knowledge(p), NEW l \in Knowledge(p)
    PROVE  /\ Both(k, l) \in Knowledge(p)
           /\ \A v \in DOMAIN p.code :
                 /\ Both(k, l).happened[v] >= k.happened[v] /\ Both(k, l).happened[v] >= l.happened[v]
                 /\ Both(k, l).happened[v] \in {k.happened[v], l.happened[v]}
           /\ \A x \in DOMAIN p.mem :
                 Both(k, l).seen[x] >= k.seen[x] /\ Both(k, l).seen[x] >= l.seen[x]
<1>1. /\ k.happened \in [DOMAIN p.code -> Nat] /\ l.happened \in [DOMAIN p.code -> Nat]
      /\ k.seen \in [DOMAIN p.mem -> Nat] /\ l.seen \in [DOMAIN p.mem -> Nat]
  BY DEF Knowledge
<1>2. Both(k, l) = [happened |-> [v \in DOMAIN p.code |-> Larger(k.happened[v], l.happened[v])],
                    seen     |-> [x \in DOMAIN p.mem |-> Larger(k.seen[x], l.seen[x])]]
  BY <1>1 DEF Both, Pointwise
<1>3. /\ \A v \in DOMAIN p.code : k.happened[v] \in Nat /\ l.happened[v] \in Nat
      /\ \A x \in DOMAIN p.mem : k.seen[x] \in Nat /\ l.seen[x] \in Nat
  BY <1>1
<1>4. /\ \A v \in DOMAIN p.code :
            LET m == Larger(k.happened[v], l.happened[v])
            IN  m \in Nat /\ m >= k.happened[v] /\ m >= l.happened[v] /\ m \in {k.happened[v], l.happened[v]}
      /\ \A x \in DOMAIN p.mem :
            LET m == Larger(k.seen[x], l.seen[x]) IN m \in Nat /\ m >= k.seen[x] /\ m >= l.seen[x]
  BY <1>3, LargerOf
<1> QED
  BY <1>2, <1>4 DEF Knowledge

\* What a write leaves in an object, and what is known of a mutex.
Entries(p)    == [value : Int, know : Knowledge(p)]
LockStates(p) == [writer : SUBSET DOMAIN p.code, readers : SUBSET DOMAIN p.code,
                  written : Knowledge(p), read : Knowledge(p)]

\* The state of a machine that runs p.
Runs(p) == /\ program = p
           /\ pc \in [DOMAIN p.code -> Nat] /\ reg \in [DOMAIN p.code -> Int]
           /\ know \in [DOMAIN p.code -> Knowledge(p)]
           /\ mem \in [DOMAIN p.mem -> Seq(Entries(p))]
           /\ \A x \in DOMAIN p.mem : Len(mem[x]) > 0
           /\ mutex \in [p.locks -> LockStates(p)]
           /\ accesses \in [DOMAIN p.mem -> SUBSET [by : DOMAIN p.code, at : Nat,
                                kind : {"read", "write", "free"}, plain : BOOLEAN]]

\* What a well-formed program's instructions are.
LEMMA InstructionTypes ==
    ASSUME NEW p, WellFormed(p)
    PROVE  \A t \in DOMAIN p.code :
              /\ Len(p.code[t]) \in Nat
              /\ \A i \in Points(p, t) : Ins(p, t, i) \in Instructions /\ Permitted(p, t, i)
<1>1. p.code \in Seq(Seq(Instructions))
  BY DEF WellFormed
<1>2. \A t \in DOMAIN p.code : p.code[t] \in Seq(Instructions)
  BY <1>1
<1>3. \A t \in DOMAIN p.code : Len(p.code[t]) \in Nat /\ \A i \in 1..Len(p.code[t]) : p.code[t][i] \in Instructions
  BY <1>2
<1> QED
  BY <1>3 DEF Ins, Points, WellFormed

\* The instruction that t is at.
LEMMA AtPoint ==
    ASSUME NEW p, WellFormed(p), Runs(p), NEW t \in DOMAIN p.code, NEW op, At(t, op)
    PROVE  /\ pc[t] \in Points(p, t) /\ Here(t) = Ins(p, t, pc[t]) /\ Here(t).op = op
           /\ Here(t) \in Instructions /\ Permitted(p, t, pc[t])
           /\ Threads = DOMAIN p.code /\ Objects = DOMAIN p.mem /\ Mutexes = p.locks
<1>1. pc[t] \in Nat /\ pc[t] > 0 /\ ~(pc[t] > Len(p.code[t])) /\ Here(t).op = op
  BY DEF At, Runs, Finished, Code
<1>2. Len(p.code[t]) \in Nat
  BY InstructionTypes
<1>3. pc[t] \in Points(p, t)
  BY <1>1, <1>2 DEF Points
<1> QED
  BY <1>1, <1>3, InstructionTypes DEF Here, Code, Ins, Runs, Threads, Objects, Mutexes

\* Who takes over what happened before, and its own part.
LEMMA OwnKnown ==
    ASSUME NEW p, Runs(p), NEW t \in DOMAIN p.code
    PROVE  /\ Own(t) \in Knowledge(p) /\ Own(t).seen = know[t].seen
           /\ Own(t).happened = [know[t].happened EXCEPT ![t] = pc[t]]
<1>1. know[t] \in Knowledge(p) /\ pc[t] \in Nat
  BY DEF Runs
<1>2. Own(t) = [happened |-> [know[t].happened EXCEPT ![t] = pc[t]], seen |-> know[t].seen]
  BY <1>1 DEF Own, Knowledge
<1> QED
  BY <1>1, <1>2 DEF Knowledge

-----------------------------------------------------------------------------
(* What a step does *)

\* t goes on to an instruction n that follows; a load may branch.
Goes(p, t) == /\ \E n \in {pc[t] + 1, pc[t] + 1 + Ins(p, t, pc[t]).skip} :
                    /\ pc' = [pc EXCEPT ![t] = n]
                    /\ n # pc[t] + 1 => Ins(p, t, pc[t]).op = "load"

\* k includes what l says has happened.
AtLeast(p, k, l) == \A v \in DOMAIN p.code : k.happened[v] >= l.happened[v]

\* t does not look behind a value that it has seen.
Sees(p, t) == \A x \in DOMAIN p.mem : know'[t].seen[x] >= know[t].seen[x] \/ know'[t].seen[x] >= Len(mem'[x])

\* t, and nobody else, may learn something.
Learns(p, t) == /\ \A u \in DOMAIN p.code \ {t} : know'[u] = know[u]
                /\ \A v \in DOMAIN p.code : know'[t].happened[v] >= know[t].happened[v]
                /\ Sees(p, t)

\* Only t learns.
LEMMA LearnsMore ==
    ASSUME NEW p, Runs(p), NEW t \in DOMAIN p.code, NEW k \in Knowledge(p),
           know' = [know EXCEPT ![t] = k],
           \A v \in DOMAIN p.code : k.happened[v] >= know[t].happened[v],
           \A x \in DOMAIN p.mem : k.seen[x] >= know[t].seen[x] \/ k.seen[x] >= Len(mem'[x])
    PROVE  Learns(p, t) /\ know' \in [DOMAIN p.code -> Knowledge(p)]
BY DEF Learns, Runs, Sees

\* What all steps of one thread have in common.
LEMMA GoesOn ==
    ASSUME NEW p, WellFormed(p), Runs(p), NEW t \in DOMAIN p.code,
           pc[t] \in Points(p, t), Ins(p, t, pc[t]) \in Instructions
    PROVE  /\ Advance(t, 0) => Goes(p, t) /\ pc' = [pc EXCEPT ![t] = pc[t] + 1]
                               /\ pc' \in [DOMAIN p.code -> Nat]
           /\ Ins(p, t, pc[t]).op = "load" /\ Advance(t, Ins(p, t, pc[t]).skip) =>
                  Goes(p, t) /\ pc' \in [DOMAIN p.code -> Nat]
<1>1. pc[t] \in Nat /\ Ins(p, t, pc[t]).skip \in Nat /\ pc \in [DOMAIN p.code -> Nat]
  BY DEF Runs, Instructions
<1>2. ASSUME Advance(t, 0)
      PROVE  pc' = [pc EXCEPT ![t] = pc[t] + 1]
  <2>1. pc' = [pc EXCEPT ![t] = pc[t] + 1 + 0]
    BY <1>2 DEF Advance
  <2>2. pc[t] + 1 + 0 = pc[t] + 1
    BY <1>1
  <2> QED
    BY <2>1, <2>2
<1>3. ASSUME Advance(t, Ins(p, t, pc[t]).skip)
      PROVE  pc' = [pc EXCEPT ![t] = pc[t] + 1 + Ins(p, t, pc[t]).skip]
  BY <1>1, <1>3 DEF Advance
<1> QED
  BY <1>1, <1>2, <1>3 DEF Goes

\* A read takes over what was published with the value.
LEMMA Takes ==
    ASSUME NEW p, WellFormed(p), Runs(p), NEW t \in DOMAIN p.code,
           Here(t) = Ins(p, t, pc[t]), Here(t).loc \in DOMAIN p.mem,
           NEW n \in 1..Len(mem[Here(t).loc])
    PROVE  /\ AfterReading(t, n) \in Knowledge(p)
           /\ \A v \in DOMAIN p.code : AfterReading(t, n).happened[v] >= know[t].happened[v]
           /\ Acquires(Here(t).order) => AtLeast(p, AfterReading(t, n), mem[Here(t).loc][n].know)
           /\ AfterReading(t, n).seen[Here(t).loc] = n
           /\ \A y \in DOMAIN p.mem \ {Here(t).loc} : AfterReading(t, n).seen[y] >= know[t].seen[y]
<1> DEFINE x == Here(t).loc
           e == mem[x][n]
           k == IF Acquires(Here(t).order) THEN Both(know[t], e.know) ELSE know[t]
<1>1. know[t] \in Knowledge(p) /\ mem[x] \in Seq(Entries(p)) /\ n \in Nat
  BY DEF Runs
<1>2. e \in Entries(p)
  BY <1>1
<1>3. e.know \in Knowledge(p)
  BY <1>2 DEF Entries
<1>4. /\ know[t].happened \in [DOMAIN p.code -> Nat] /\ e.know.happened \in [DOMAIN p.code -> Nat]
      /\ know[t].seen \in [DOMAIN p.mem -> Nat]
  BY <1>1, <1>3 DEF Knowledge
<1> HIDE DEF e
<1>5. /\ k \in Knowledge(p)
      /\ \A v \in DOMAIN p.code : k.happened[v] >= know[t].happened[v]
      /\ Acquires(Here(t).order) => AtLeast(p, k, e.know)
      /\ \A y \in DOMAIN p.mem : k.seen[y] >= know[t].seen[y]
  <2>1. CASE Acquires(Here(t).order)
    <3>1. k = Both(know[t], e.know)
      BY <2>1
    <3> HIDE DEF k
    <3> QED
      BY <1>1, <1>3, <3>1, BothKnown DEF AtLeast
  <2>2. CASE ~Acquires(Here(t).order)
    <3>1. /\ k = know[t] /\ \A v \in DOMAIN p.code : know[t].happened[v] >= know[t].happened[v]
          /\ \A y \in DOMAIN p.mem : know[t].seen[y] >= know[t].seen[y]
      BY <1>4, <2>2
    <3> HIDE DEF k
    <3> QED
      BY <1>1, <2>2, <3>1
  <2> HIDE DEF k
  <2> QED
    BY <2>1, <2>2
<1>6. AfterReading(t, n) = [k EXCEPT !.seen = [@ EXCEPT ![x] = n]]
  BY DEF AfterReading, e
<1> HIDE DEF k
<1>7. [k EXCEPT !.seen = [@ EXCEPT ![x] = n]] = [happened |-> k.happened, seen |-> [k.seen EXCEPT ![x] = n]]
  <2>1. k = [happened |-> k.happened, seen |-> k.seen]
    BY <1>5 DEF Knowledge
  <2> QED
    BY <2>1
<1>8. k.seen \in [DOMAIN p.mem -> Nat] /\ k.happened \in [DOMAIN p.code -> Nat]
  BY <1>5 DEF Knowledge
<1>9. AfterReading(t, n) = [happened |-> k.happened, seen |-> [k.seen EXCEPT ![x] = n]]
  BY <1>6, <1>7
<1>10. [k.seen EXCEPT ![x] = n] \in [DOMAIN p.mem -> Nat]
  BY <1>1, <1>8
<1>11. /\ AfterReading(t, n) \in Knowledge(p) /\ AfterReading(t, n).happened = k.happened
       /\ AfterReading(t, n).seen = [k.seen EXCEPT ![x] = n]
  BY <1>8, <1>9, <1>10 DEF Knowledge
<1>12. /\ AfterReading(t, n).seen[x] = n
       /\ \A y \in DOMAIN p.mem \ {x} : AfterReading(t, n).seen[y] = k.seen[y]
  BY <1>8, <1>11
<1> QED
  BY <1>5, <1>11, <1>12 DEF e, AtLeast

\* Accesses are remembered.
LEMMA Remembers ==
    ASSUME NEW p, Runs(p), NEW t \in DOMAIN p.code, NEW kind \in {"read", "write", "free"},
           Here(t).loc \in DOMAIN p.mem, Access(t, kind)
    PROVE  /\ accesses' \in [DOMAIN p.mem -> SUBSET [by : DOMAIN p.code, at : Nat,
                                 kind : {"read", "write", "free"}, plain : BOOLEAN]]
           /\ \A x \in DOMAIN p.mem : \A a \in accesses'[x] :
                 \/ a \in accesses[x]
                 \/ x = Here(t).loc /\ a = [by |-> t, at |-> pc[t], kind |-> kind,
                                           plain |-> Here(t).order = "plain"]
<1> DEFINE b == [by |-> t, at |-> pc[t], kind |-> kind, plain |-> Here(t).order = "plain"]
           R == [by : DOMAIN p.code, at : Nat, kind : {"read", "write", "free"}, plain : BOOLEAN]
<1>1. pc[t] \in Nat /\ accesses \in [DOMAIN p.mem -> SUBSET R]
  BY DEF Runs
<1>2. b \in R
  BY <1>1
<1>3. accesses' = [accesses EXCEPT ![Here(t).loc] = accesses[Here(t).loc] \union {b}]
  BY <1>1 DEF Access
<1> HIDE DEF b, R
<1>4. /\ accesses' \in [DOMAIN p.mem -> SUBSET R]
      /\ \A x \in DOMAIN p.mem : accesses'[x] = IF x = Here(t).loc THEN accesses[x] \union {b} ELSE accesses[x]
  BY <1>1, <1>2, <1>3
<1> QED
  BY <1>4 DEF b, R

\* t reads the n-th value of its object, which decides where it goes on.
ReadsValue(p, t, n) ==
    LET c == Ins(p, t, pc[t])
        e == mem[c.loc][n]
    IN  /\ n \in 1..Len(mem[c.loc]) /\ n >= know[t].seen[c.loc]
        /\ Acquires(c.order) => AtLeast(p, know'[t], e.know)
        /\ c.op = "await" => e.value \notin c.values
        /\ c.op = "load" =>
              pc'[t] = IF c.values = {} \/ e.value \in c.values THEN pc[t] + 1 ELSE pc[t] + 1 + c.skip

\* A read: t goes on with what was published with the value it reads.
LEMMA Reads ==
    ASSUME NEW p, WellFormed(p), Runs(p), NEW t \in DOMAIN p.code, Loads(t) \/ Awaits(t)
    PROVE  LET c == Ins(p, t, pc[t])
           IN  /\ pc[t] \in Points(p, t) /\ c.op \in ReadOps /\ Permitted(p, t, pc[t])
               /\ Runs(p)' /\ Goes(p, t) /\ Learns(p, t) /\ UNCHANGED <<mem, mutex>>
               /\ Here(t) = c /\ Access(t, "read")
               /\ c.op = "await" => pc' = [pc EXCEPT ![t] = pc[t] + 1]
               /\ \E n : ReadsValue(p, t, n)
<1> DEFINE c == Ins(p, t, pc[t])
<1>1. /\ pc[t] \in Points(p, t) /\ Here(t) = c /\ c \in Instructions /\ Permitted(p, t, pc[t])
      /\ c.op \in ReadOps /\ program = p
      /\ c.op = "load" <=> Loads(t)
      /\ c.op = "await" <=> Awaits(t)
  <2>1. Loads(t) => At(t, "load")
    BY DEF Loads
  <2>2. Awaits(t) => At(t, "await")
    BY DEF Awaits
  <2> QED
    BY <2>1, <2>2, AtPoint DEF ReadOps, Runs
<1>2. c.loc \in DOMAIN p.mem
  BY <1>1 DEF Permitted, AccessOps
<1>3. PICK n \in 1..Len(mem[c.loc]) :
         /\ Read(t, n)
         /\ c.op = "load" => Advance(t, IF c.values = {} \/ mem[c.loc][n].value \in c.values THEN 0 ELSE c.skip)
         /\ c.op = "await" => Advance(t, 0) /\ mem[c.loc][n].value \notin c.values
  <2>1. mem[c.loc] \in Seq(Entries(p))
    BY <1>2 DEF Runs
  <2>2. DOMAIN mem[c.loc] = 1..Len(mem[c.loc])
    BY <2>1
  <2>3. CASE Loads(t)
    <3>1. PICK n \in DOMAIN mem[c.loc] :
             Read(t, n) /\ Advance(t, IF c.values = {} \/ mem[c.loc][n].value \in c.values THEN 0 ELSE c.skip)
      BY <1>1, <2>3 DEF Loads
    <3> QED
      BY <1>1, <2>2, <2>3, <3>1
  <2>4. CASE Awaits(t)
    BY <1>1, <2>2, <2>4 DEF Awaits
  <2> QED
    BY <1>1, <2>3, <2>4 DEF ReadOps
<1> HIDE DEF c
<1>4. /\ know' = [know EXCEPT ![t] = AfterReading(t, n)] /\ Access(t, "read")
      /\ reg' = [reg EXCEPT ![t] = c.keep * reg[t] + mem[c.loc][n].value]
      /\ UNCHANGED <<program, mem, mutex>>
  BY <1>1, <1>3 DEF Read
<1>5. /\ AfterReading(t, n) \in Knowledge(p)
      /\ \A v \in DOMAIN p.code : AfterReading(t, n).happened[v] >= know[t].happened[v]
      /\ Acquires(c.order) => AtLeast(p, AfterReading(t, n), mem[c.loc][n].know)
      /\ AfterReading(t, n).seen[c.loc] = n
      /\ \A y \in DOMAIN p.mem \ {c.loc} : AfterReading(t, n).seen[y] >= know[t].seen[y]
  BY <1>1, <1>2, <1>3, Takes DEF c
<1>6. Learns(p, t) /\ know' \in [DOMAIN p.code -> Knowledge(p)] /\ know'[t] = AfterReading(t, n)
  <2>1. n >= know[t].seen[c.loc]
    BY <1>1, <1>3 DEF Read, Readable
  <2>2. \A x \in DOMAIN p.mem : AfterReading(t, n).seen[x] >= know[t].seen[x]
    BY <1>5, <2>1
  <2> QED
    BY <1>4, <1>5, <2>2, LearnsMore DEF Runs
<1>7. /\ Goes(p, t) /\ pc' \in [DOMAIN p.code -> Nat]
      /\ c.op = "await" => pc' = [pc EXCEPT ![t] = pc[t] + 1]
  <2>1. Advance(t, 0) \/ (c.op = "load" /\ Advance(t, c.skip))
    BY <1>1, <1>3 DEF ReadOps
  <2> QED
    BY <1>1, <1>3, <2>1, GoesOn DEF c
<1>8. reg' \in [DOMAIN p.code -> Int]
  <2>1. mem[c.loc] \in Seq(Entries(p)) /\ reg \in [DOMAIN p.code -> Int] /\ c.keep \in Int
    BY <1>1, <1>2 DEF Runs, Instructions
  <2>2. mem[c.loc][n] \in Entries(p)
    BY <2>1
  <2>3. mem[c.loc][n].value \in Int /\ reg[t] \in Int
    BY <2>1, <2>2 DEF Entries
  <2>4. c.keep * reg[t] + mem[c.loc][n].value \in Int
    BY <2>1, <2>3
  <2> QED
    BY <1>4, <2>1, <2>4
<1>9. accesses' \in [DOMAIN p.mem -> SUBSET [by : DOMAIN p.code, at : Nat,
                        kind : {"read", "write", "free"}, plain : BOOLEAN]]
  BY <1>1, <1>2, <1>4, Remembers
<1>10. Runs(p)'
  <2>1. program' = p /\ mem' = mem /\ mutex' = mutex
    BY <1>1, <1>4
  <2>2. pc' \in [DOMAIN p.code -> Nat] /\ know' \in [DOMAIN p.code -> Knowledge(p)]
    BY <1>6, <1>7
  <2> QED
    BY <2>1, <2>2, <1>8, <1>9 DEF Runs
<1>11. ReadsValue(p, t, n)
  <2>1. n >= know[t].seen[c.loc]
    BY <1>1, <1>3 DEF Read, Readable
  <2>2. ASSUME c.op = "load"
        PROVE  pc'[t] = IF c.values = {} \/ mem[c.loc][n].value \in c.values THEN pc[t] + 1
                                                                          ELSE pc[t] + 1 + c.skip
    <3>1. pc \in [DOMAIN p.code -> Nat] /\ pc[t] \in Nat /\ c.skip \in Nat
      BY <1>1 DEF Runs, Instructions
    <3>2. CASE c.values = {} \/ mem[c.loc][n].value \in c.values
      <4>1. Advance(t, 0)
        BY <1>3, <2>2, <3>2
      <4>2. pc' = [pc EXCEPT ![t] = pc[t] + 1]
        BY <1>1, <4>1, GoesOn DEF c
      <4> QED
        BY <3>1, <3>2, <4>2
    <3>3. CASE ~(c.values = {} \/ mem[c.loc][n].value \in c.values)
      <4>1. Advance(t, c.skip)
        BY <1>3, <2>2, <3>3
      <4>2. pc'[t] = pc[t] + 1 + c.skip
        BY <3>1, <4>1 DEF Advance
      <4> QED
        BY <3>3, <4>2
    <3> QED
      BY <3>2, <3>3
  <2> QED
    BY <1>3, <1>5, <1>6, <2>1, <2>2 DEF ReadsValue, c
<1> QED
  BY <1>1, <1>4, <1>6, <1>7, <1>10, <1>11 DEF c

\* t writes e: a release store publishes what happened before it, and a
\* read-modify-write hands on what was published with the last value.
WritesEntry(p, t, e) ==
    LET c    == Ins(p, t, pc[t])
        last == mem[c.loc][Len(mem[c.loc])]
    IN  /\ e \in Entries(p) /\ mem' = [mem EXCEPT ![c.loc] = Append(mem[c.loc], e)]
        /\ know'[t].seen[c.loc] >= Len(mem'[c.loc])
        /\ Releases(c.order) =>
              /\ e.know.happened[t] >= pc[t]
              /\ \A v \in DOMAIN p.code \ {t} : e.know.happened[v] >= know[t].happened[v]
        /\ c.times = 0 => e.value = c.plus
        /\ c.op = "modify" =>
              /\ last.value \notin c.values /\ AtLeast(p, e.know, last.know)
              /\ Acquires(c.order) => \A v \in DOMAIN p.code \ {t} : know'[t].happened[v] >= e.know.happened[v]

\* A write.
LEMMA Writes ==
    ASSUME NEW p, WellFormed(p), Runs(p), NEW t \in DOMAIN p.code, Stores(t) \/ Modifies(t)
    PROVE  LET c == Ins(p, t, pc[t])
           IN  /\ pc[t] \in Points(p, t) /\ c.op \in WriteOps /\ Permitted(p, t, pc[t])
               /\ Runs(p)' /\ pc' = [pc EXCEPT ![t] = pc[t] + 1] /\ Learns(p, t) /\ UNCHANGED mutex
               /\ Here(t) = c /\ Access(t, "write")
               /\ \E e : WritesEntry(p, t, e)
<1> DEFINE c == Ins(p, t, pc[t])
           x == c.loc
<1>1. /\ pc[t] \in Points(p, t) /\ Here(t) = c /\ c \in Instructions /\ Permitted(p, t, pc[t])
      /\ c.op \in WriteOps /\ program = p /\ Threads = DOMAIN p.code /\ Objects = DOMAIN p.mem
      /\ c.op = "store" <=> Stores(t)
      /\ c.op = "modify" <=> Modifies(t)
  <2>1. Stores(t) => At(t, "store")
    BY DEF Stores
  <2>2. Modifies(t) => At(t, "modify")
    BY DEF Modifies
  <2> QED
    BY <2>1, <2>2, AtPoint DEF WriteOps, Runs
<1>2. x \in DOMAIN p.mem
  BY <1>1 DEF Permitted, AccessOps
<1>3. /\ mem[x] \in Seq(Entries(p)) /\ Len(mem[x]) \in 1..Len(mem[x]) /\ Len(mem[x]) \in Nat
      /\ know[t] \in Knowledge(p) /\ pc[t] \in Nat /\ reg[t] \in Int /\ reg \in [DOMAIN p.code -> Int]
  BY <1>2 DEF Runs
<1> DEFINE last == mem[x][Len(mem[x])]
<1>4. last \in Entries(p)
  BY <1>3
<1>5. Nothing \in Knowledge(p)
  BY <1>1 DEF Nothing, Knowledge
<1>6. PICK value \in Int, published \in Knowledge(p), k \in Knowledge(p) :
         /\ WriteNew(t, value, published, k)
         /\ \A v \in DOMAIN p.code : k.happened[v] >= know[t].happened[v]
         /\ \A y \in DOMAIN p.mem \ {x} : k.seen[y] >= know[t].seen[y]
         /\ reg' \in [DOMAIN p.code -> Int]
         /\ c.times = 0 => value = c.plus
         /\ c.op = "modify" => /\ last.value \notin c.values /\ published = last.know
                               /\ Acquires(c.order) => AtLeast(p, k, published)
  <2>1. CASE Stores(t)
    <3>1. c.times * reg[t] + c.plus \in Int
      BY <1>1, <1>3 DEF Instructions
    <3>2. WriteNew(t, c.times * reg[t] + c.plus, Nothing, know[t]) /\ reg' = reg
      BY <1>1, <2>1 DEF Stores
    <3>3. /\ \A v \in DOMAIN p.code : know[t].happened[v] >= know[t].happened[v]
          /\ \A y \in DOMAIN p.mem : know[t].seen[y] >= know[t].seen[y]
      BY <1>3 DEF Knowledge
    <3>4. c.times = 0 => c.times * reg[t] + c.plus = c.plus
      BY <1>1, <1>3 DEF Instructions
    <3>5. c.op # "modify"
      <4>1. c.op = "store"
        BY <1>1, <2>1
      <4> QED
        BY <4>1
    <3> QED
      BY <1>3, <1>5, <3>1, <3>2, <3>3, <3>4, <3>5
  <2>2. CASE Modifies(t)
    <3>1. c.times * last.value + c.plus \in Int /\ last.value \in Int /\ last.know \in Knowledge(p)
      BY <1>1, <1>4 DEF Instructions, Entries
    <3>2. /\ WriteNew(t, c.times * last.value + c.plus, last.know, AfterReading(t, Len(mem[x])))
          /\ reg' = [reg EXCEPT ![t] = last.value] /\ last.value \notin c.values
      BY <1>1, <2>2 DEF Modifies
    <3>3. /\ AfterReading(t, Len(mem[x])) \in Knowledge(p)
          /\ \A v \in DOMAIN p.code : AfterReading(t, Len(mem[x])).happened[v] >= know[t].happened[v]
          /\ \A y \in DOMAIN p.mem \ {x} : AfterReading(t, Len(mem[x])).seen[y] >= know[t].seen[y]
          /\ Acquires(c.order) => AtLeast(p, AfterReading(t, Len(mem[x])), last.know)
      BY <1>1, <1>2, <1>3, Takes
    <3>4. reg' \in [DOMAIN p.code -> Int]
      BY <1>3, <3>1, <3>2
    <3>5. c.times = 0 => c.times * last.value + c.plus = c.plus
      BY <1>1, <3>1 DEF Instructions
    <3> QED
      BY <3>1, <3>2, <3>3, <3>4, <3>5
  <2> QED
    BY <1>1, <2>1, <2>2 DEF WriteOps
<1> DEFINE n   == Len(mem[x]) + 1
           own == [happened |-> [k.happened EXCEPT ![t] = pc[t]], seen |-> [k.seen EXCEPT ![x] = n]]
           new == [happened |-> k.happened, seen |-> [k.seen EXCEPT ![x] = n]]
           e   == [value |-> value, know |-> IF Releases(c.order) THEN Both(published, own) ELSE published]
<1>7. /\ own \in Knowledge(p) /\ new \in Knowledge(p) /\ own.happened[t] = pc[t]
      /\ own = [new EXCEPT !.happened[t] = pc[t]]
      /\ new = [k EXCEPT !.seen[x] = n]
  <2>1. /\ k.happened \in [DOMAIN p.code -> Nat] /\ k.seen \in [DOMAIN p.mem -> Nat] /\ n \in Nat
        /\ k = [happened |-> k.happened, seen |-> k.seen]
    BY <1>3 DEF Knowledge
  <2>2. own \in Knowledge(p) /\ new \in Knowledge(p) /\ own.happened[t] = pc[t]
    BY <1>2, <1>3, <2>1 DEF Knowledge
  <2>3. own = [new EXCEPT !.happened[t] = pc[t]]
    <3>1. /\ new = [happened |-> new.happened, seen |-> new.seen]
          /\ own = [happened |-> [new.happened EXCEPT ![t] = pc[t]], seen |-> new.seen]
      OBVIOUS
    <3> HIDE DEF new, own
    <3> QED
      BY <3>1
  <2>4. new = [k EXCEPT !.seen[x] = n]
    BY <2>1
  <2> QED
    BY <2>2, <2>3, <2>4
<1>8. /\ mem' = [mem EXCEPT ![x] = Append(mem[x], e)]
      /\ know' = [know EXCEPT ![t] = new]
      /\ Access(t, "write") /\ Advance(t, 0) /\ UNCHANGED <<program, mutex>>
  BY <1>1, <1>6, <1>7 DEF WriteNew
<1>9. /\ e \in Entries(p) /\ e.value = value
      /\ Releases(c.order) => e.know.happened[t] >= pc[t] /\ AtLeast(p, e.know, own)
      /\ AtLeast(p, e.know, published)
      /\ \A v \in DOMAIN p.code : e.know.happened[v] \in {published.happened[v], own.happened[v]}
  <2> HIDE DEF own, c
  <2>1. /\ Both(published, own) \in Knowledge(p)
        /\ \A v \in DOMAIN p.code : /\ Both(published, own).happened[v] >= own.happened[v]
                                    /\ Both(published, own).happened[v] >= published.happened[v]
                                    /\ Both(published, own).happened[v] \in {published.happened[v], own.happened[v]}
    BY <1>7, BothKnown
  <2>2. \A v \in DOMAIN p.code : published.happened[v] >= published.happened[v]
    BY DEF Knowledge
  <2> QED
    BY <1>7, <2>1, <2>2 DEF Entries, AtLeast
<1>10. \A v \in DOMAIN p.code : /\ own.happened[v] \in Nat /\ know[t].happened[v] \in Nat
                                /\ k.happened[v] \in Nat /\ e.know.happened[v] \in Nat
                                /\ v # t => own.happened[v] = k.happened[v]
  <2>1. e.know \in Knowledge(p)
    BY <1>9 DEF Entries
  <2> HIDE DEF e
  <2> QED
    BY <1>3, <1>7, <2>1 DEF Knowledge
<1> HIDE DEF c, own, e
<1>11. Learns(p, t) /\ know' \in [DOMAIN p.code -> Knowledge(p)]
  <2>1. \A v \in DOMAIN p.code : new.happened[v] >= know[t].happened[v]
    BY <1>6
  <2>2. \A y \in DOMAIN p.mem : new.seen[y] >= know[t].seen[y] \/ new.seen[y] >= Len(mem'[y])
    <3>1. \A y \in DOMAIN p.mem \ {x} : new.seen[y] = k.seen[y]
      BY DEF Knowledge
    <3>2. new.seen[x] = n /\ Len(mem'[x]) = n /\ n \in Nat
      BY <1>2, <1>3, <1>8, <1>9 DEF Knowledge, Runs
    <3> QED
      BY <1>6, <3>1, <3>2
  <2> HIDE DEF new
  <2> QED
    BY <1>7, <1>8, <2>1, <2>2, LearnsMore
<1>12. pc' = [pc EXCEPT ![t] = pc[t] + 1] /\ pc' \in [DOMAIN p.code -> Nat]
  BY <1>1, <1>8, GoesOn DEF c
<1>13. accesses' \in [DOMAIN p.mem -> SUBSET [by : DOMAIN p.code, at : Nat,
                        kind : {"read", "write", "free"}, plain : BOOLEAN]]
  BY <1>1, <1>2, <1>8, Remembers
<1>14. mem' \in [DOMAIN p.mem -> Seq(Entries(p))] /\ \A y \in DOMAIN p.mem : Len(mem'[y]) > 0
  <2>1. Append(mem[x], e) \in Seq(Entries(p)) /\ Len(Append(mem[x], e)) > 0
    BY <1>3, <1>9
  <2>2. mem \in [DOMAIN p.mem -> Seq(Entries(p))] /\ \A y \in DOMAIN p.mem : Len(mem[y]) > 0
    BY DEF Runs
  <2> QED
    BY <1>2, <1>8, <2>1, <2>2
<1>15. Runs(p)'
  BY <1>1, <1>6, <1>8, <1>11, <1>12, <1>13, <1>14 DEF Runs
<1>16. WritesEntry(p, t, e)
  <2>1. know'[t].seen[x] >= Len(mem'[x])
    <3>1. know'[t].seen[x] = n
      BY <1>2, <1>3, <1>8 DEF Runs, Knowledge
    <3>2. Len(mem'[x]) = n /\ n \in Nat
      BY <1>2, <1>3, <1>8, <1>9 DEF Runs
    <3> QED
      BY <3>1, <3>2
  <2>2. Releases(c.order) =>
           /\ e.know.happened[t] >= pc[t]
           /\ \A v \in DOMAIN p.code \ {t} : e.know.happened[v] >= know[t].happened[v]
    <3> SUFFICES ASSUME Releases(c.order), NEW v \in DOMAIN p.code \ {t}
                 PROVE  e.know.happened[v] >= know[t].happened[v]
      BY <1>9
    <3>1. e.know.happened[v] >= own.happened[v] /\ own.happened[v] = k.happened[v]
      BY <1>9, <1>10 DEF AtLeast
    <3>2. k.happened[v] >= know[t].happened[v]
      BY <1>6
    <3> QED
      BY <1>10, <3>1, <3>2
  <2>3. c.op = "modify" /\ Acquires(c.order) =>
           \A v \in DOMAIN p.code \ {t} : know'[t].happened[v] >= e.know.happened[v]
    <3> SUFFICES ASSUME c.op = "modify", Acquires(c.order), NEW v \in DOMAIN p.code \ {t}
                 PROVE  know'[t].happened[v] >= e.know.happened[v]
      OBVIOUS
    <3>1. know'[t].happened = k.happened
      BY <1>3, <1>8 DEF Runs
    <3>2. k.happened[v] >= published.happened[v]
      BY <1>6 DEF AtLeast
    <3>3. k.happened[v] >= k.happened[v]
      BY <1>10
    <3> QED
      BY <1>9, <1>10, <3>1, <3>2, <3>3
  <2> QED
    BY <1>6, <1>8, <1>9, <2>1, <2>2, <2>3 DEF WritesEntry, c
<1> QED
  BY <1>1, <1>8, <1>11, <1>12, <1>15, <1>16 DEF c

\* Nothing but the end of a lifetime is remembered of these.
LEMMA Others ==
    ASSUME NEW p, WellFormed(p), Runs(p), NEW t \in DOMAIN p.code,
           Says(t) \/ Frees(t) \/ Detaches(t) \/ Drops(t)
    PROVE  LET c == Ins(p, t, pc[t])
           IN  /\ pc[t] \in Points(p, t) /\ c.op \in {"say", "free", "detach", "drop"}
               /\ Permitted(p, t, pc[t]) /\ Here(t) = c
               /\ Runs(p)' /\ pc' = [pc EXCEPT ![t] = pc[t] + 1] /\ UNCHANGED <<know, mem, mutex>>
               /\ IF c.op = "free" THEN Access(t, "free") ELSE UNCHANGED <<accesses, undefined>>
<1> DEFINE c == Ins(p, t, pc[t])
<1>1. /\ pc[t] \in Points(p, t) /\ Here(t) = c /\ c \in Instructions /\ Permitted(p, t, pc[t])
      /\ c.op \in {"say", "free", "detach", "drop"}
      /\ c.op = "free" <=> Frees(t)
  <2>1. /\ Says(t) => At(t, "say")
        /\ Frees(t) => At(t, "free")
        /\ Detaches(t) => At(t, "detach")
        /\ Drops(t) => At(t, "drop")
    BY DEF Says, Frees, Detaches, Drops
  <2>2. /\ Says(t) => Here(t).op = "say" /\ Here(t) = c
        /\ Frees(t) => Here(t).op = "free" /\ Here(t) = c
        /\ Detaches(t) => Here(t).op = "detach" /\ Here(t) = c
        /\ Drops(t) => Here(t).op = "drop" /\ Here(t) = c
    BY <2>1, AtPoint
  <2>3. pc[t] \in Points(p, t) /\ c \in Instructions /\ Permitted(p, t, pc[t])
    BY <2>1, AtPoint
  <2> HIDE DEF c
  <2> QED
    BY <2>2, <2>3
<1>2. /\ Advance(t, 0) /\ UNCHANGED <<program, reg, know, mem, mutex>>
      /\ IF c.op = "free" THEN Access(t, "free") ELSE UNCHANGED <<accesses, undefined>>
  BY <1>1 DEF Says, Frees, Detaches, Drops, OnOther
<1> HIDE DEF c
<1>3. pc' = [pc EXCEPT ![t] = pc[t] + 1] /\ pc' \in [DOMAIN p.code -> Nat]
  BY <1>1, <1>2, GoesOn DEF c
<1>4. accesses' \in [DOMAIN p.mem -> SUBSET [by : DOMAIN p.code, at : Nat,
                        kind : {"read", "write", "free"}, plain : BOOLEAN]]
  <2>1. CASE c.op = "free"
    <3>1. c.loc \in DOMAIN p.mem
      BY <1>1, <2>1 DEF Permitted, AccessOps, c
    <3> QED
      BY <1>1, <1>2, <2>1, <3>1, Remembers
  <2>2. CASE c.op # "free"
    BY <1>2, <2>2 DEF Runs
  <2> QED
    BY <2>1, <2>2
<1>5. Runs(p)'
  BY <1>2, <1>3, <1>4 DEF Runs
<1> QED
  BY <1>1, <1>2, <1>3, <1>5 DEF c

\* The other mutexes stay as they are.
OnlyOn(p, m) == \A l \in p.locks \ {m} : mutex'[l] = mutex[l]

\* What may happen to a mutex.
MutexStays(p, t, m) ==
    LET c == Ins(p, t, pc[t])
    IN  /\ mutex'[m] = mutex[m]
        /\ pc'[t] # pc[t] => ~(c.op \in {"lock", "unlock", "lockShared", "unlockShared"} /\ c.loc = m)

MutexTaken(p, t, m) ==
    /\ Ins(p, t, pc[t]).op = "lock" /\ Ins(p, t, pc[t]).loc = m
    /\ mutex[m].writer = {} /\ mutex[m].readers = {} /\ accesses' = accesses
    /\ mutex'[m].writer = {t} /\ mutex'[m].readers = {}
    /\ mutex'[m].written = mutex[m].written /\ mutex'[m].read = mutex[m].read
    /\ AtLeast(p, know'[t], mutex[m].written) /\ AtLeast(p, know'[t], mutex[m].read)
    /\ \A x \in DOMAIN p.mem : know'[t].seen[x] >= mutex[m].written.seen[x]

MutexGiven(p, t, m) ==
    /\ Ins(p, t, pc[t]).op = "unlock" /\ Ins(p, t, pc[t]).loc = m /\ pc'[t] # pc[t]
    /\ Alone(p, t, pc[t], m) /\ know' = know /\ accesses' = accesses
    /\ mutex'[m].writer = {} /\ mutex'[m].readers = mutex[m].readers /\ mutex'[m].read = mutex[m].read
    /\ mutex'[m].written.happened = [know[t].happened EXCEPT ![t] = pc[t]]
    /\ mutex'[m].written.seen = know[t].seen

MutexJoined(p, t, m) ==
    /\ Ins(p, t, pc[t]).op = "lockShared" /\ Ins(p, t, pc[t]).loc = m
    /\ mutex[m].writer = {} /\ accesses' = accesses
    /\ mutex'[m].writer = {} /\ mutex'[m].readers = mutex[m].readers \union {t}
    /\ mutex'[m].written = mutex[m].written /\ mutex'[m].read = mutex[m].read
    /\ AtLeast(p, know'[t], mutex[m].written)

MutexLeft(p, t, m) ==
    /\ Ins(p, t, pc[t]).op = "unlockShared" /\ Ins(p, t, pc[t]).loc = m /\ pc'[t] # pc[t]
    /\ Sharing(p, t, pc[t], m) /\ know' = know /\ accesses' = accesses
    /\ mutex'[m].writer = mutex[m].writer /\ mutex'[m].readers = mutex[m].readers \ {t}
    /\ mutex'[m].written = mutex[m].written
    /\ mutex'[m].read.happened[t] >= pc[t]
    /\ \A v \in DOMAIN p.code : mutex'[m].read.happened[v] >= mutex[m].read.happened[v]

\* What an operation on a mutex finds.
LEMMA AtMutex ==
    ASSUME NEW p, WellFormed(p), Runs(p), NEW t \in DOMAIN p.code,
           NEW op \in {"lock", "unlock", "lockShared", "unlockShared"}, At(t, op), OnMutex(t)
    PROVE  LET c == Ins(p, t, pc[t])
           IN  /\ pc[t] \in Points(p, t) /\ c.op = op /\ c.loc \in p.locks /\ Permitted(p, t, pc[t])
               /\ Here(t) = c /\ program' = p /\ pc' = [pc EXCEPT ![t] = pc[t] + 1]
               /\ UNCHANGED <<reg, mem, accesses, undefined>> /\ pc' \in [DOMAIN p.code -> Nat]
               /\ know[t] \in Knowledge(p) /\ mutex[c.loc] \in LockStates(p)
<1> DEFINE c == Ins(p, t, pc[t])
<1>1. /\ pc[t] \in Points(p, t) /\ c.op = op /\ Permitted(p, t, pc[t]) /\ Here(t) = c /\ c \in Instructions
  BY AtPoint
<1>2. c.loc \in p.locks
  BY <1>1 DEF Permitted
<1>3. pc' = [pc EXCEPT ![t] = pc[t] + 1] /\ pc' \in [DOMAIN p.code -> Nat]
  BY <1>1, GoesOn DEF OnMutex
<1> HIDE DEF c
<1>4. know[t] \in Knowledge(p) /\ mutex[c.loc] \in LockStates(p)
  BY <1>2 DEF Runs
<1>5. program' = p /\ UNCHANGED <<reg, mem, accesses, undefined>>
  BY DEF OnMutex, Runs
<1> QED
  BY <1>1, <1>2, <1>3, <1>4, <1>5 DEF c

\* Who locks a mutex takes over what was published with it.
LEMMA TakesLock ==
    ASSUME NEW p, WellFormed(p), Runs(p), NEW t \in DOMAIN p.code, LocksExclusive(t)
    PROVE  LET c == Ins(p, t, pc[t])
               m == c.loc
           IN  /\ pc[t] \in Points(p, t) /\ c.op = "lock" /\ m \in p.locks /\ Runs(p)'
               /\ pc' = [pc EXCEPT ![t] = pc[t] + 1] /\ UNCHANGED <<mem, accesses, undefined>>
               /\ Learns(p, t) /\ OnlyOn(p, m) /\ MutexTaken(p, t, m)
<1> DEFINE c == Ins(p, t, pc[t])
           m == c.loc
<1>1. /\ pc[t] \in Points(p, t) /\ c.op = "lock" /\ c.loc \in p.locks
      /\ Here(t) = c /\ program' = p /\ pc' = [pc EXCEPT ![t] = pc[t] + 1]
      /\ UNCHANGED <<reg, mem, accesses, undefined>> /\ pc' \in [DOMAIN p.code -> Nat]
      /\ know[t] \in Knowledge(p) /\ mutex[c.loc] \in LockStates(p)
  BY AtMutex DEF LocksExclusive
<1> DEFINE l == mutex[m]
           k == Both(know[t], Both(l.written, l.read))
<1>2. /\ l.writer = {} /\ l.readers = {}
      /\ know' = [know EXCEPT ![t] = k] /\ mutex' = [mutex EXCEPT ![m].writer = {t}]
  BY <1>1 DEF LocksExclusive
<1> HIDE DEF c
<1>3. l.written \in Knowledge(p) /\ l.read \in Knowledge(p)
  BY <1>1 DEF LockStates
<1>4. /\ k \in Knowledge(p)
      /\ \A v \in DOMAIN p.code : k.happened[v] >= know[t].happened[v]
      /\ \A v \in DOMAIN p.code : k.happened[v] >= l.written.happened[v] /\ k.happened[v] >= l.read.happened[v]
      /\ \A x \in DOMAIN p.mem : k.seen[x] >= know[t].seen[x] /\ k.seen[x] >= l.written.seen[x]
  <2> DEFINE b == Both(l.written, l.read)
  <2>1. /\ b \in Knowledge(p)
        /\ \A v \in DOMAIN p.code : b.happened[v] >= l.written.happened[v] /\ b.happened[v] >= l.read.happened[v]
        /\ \A x \in DOMAIN p.mem : b.seen[x] >= l.written.seen[x]
    BY <1>3, BothKnown
  <2> HIDE DEF b
  <2>2. /\ Both(know[t], b) \in Knowledge(p)
        /\ \A v \in DOMAIN p.code : /\ Both(know[t], b).happened[v] >= know[t].happened[v]
                                    /\ Both(know[t], b).happened[v] >= b.happened[v]
        /\ \A x \in DOMAIN p.mem : /\ Both(know[t], b).seen[x] >= know[t].seen[x]
                                   /\ Both(know[t], b).seen[x] >= b.seen[x]
    BY <1>1, <2>1, BothKnown
  <2>3. k = Both(know[t], b)
    BY DEF b
  <2> HIDE DEF k, l
  <2>4. \A v \in DOMAIN p.code : /\ k.happened[v] \in Nat /\ b.happened[v] \in Nat
                                 /\ l.written.happened[v] \in Nat /\ l.read.happened[v] \in Nat
    BY <1>3, <2>1, <2>2, <2>3 DEF Knowledge
  <2>5. \A x \in DOMAIN p.mem : k.seen[x] \in Nat /\ b.seen[x] \in Nat /\ l.written.seen[x] \in Nat
    BY <1>3, <2>1, <2>2, <2>3 DEF Knowledge
  <2> QED
    BY <2>1, <2>2, <2>3, <2>4, <2>5
<1> HIDE DEF k
<1>5. Learns(p, t) /\ know' \in [DOMAIN p.code -> Knowledge(p)] /\ know'[t] = k
  BY <1>2, <1>4, LearnsMore DEF Runs
<1>6. /\ mutex' \in [p.locks -> LockStates(p)] /\ OnlyOn(p, m)
      /\ mutex'[m].writer = {t} /\ mutex'[m].readers = {}
      /\ mutex'[m].written = l.written /\ mutex'[m].read = l.read
  <2>1. mutex \in [p.locks -> LockStates(p)]
    BY DEF Runs
  <2>2. [l EXCEPT !.writer = {t}] = [writer |-> {t}, readers |-> {}, written |-> l.written, read |-> l.read]
    <3>1. l = [writer |-> l.writer, readers |-> l.readers, written |-> l.written, read |-> l.read]
      BY <1>1 DEF LockStates
    <3> QED
      BY <1>2, <3>1
  <2>3. mutex' = [mutex EXCEPT ![m] = [l EXCEPT !.writer = {t}]]
    BY <1>2
  <2>4. mutex' = [mutex EXCEPT ![m] = [writer |-> {t}, readers |-> {}, written |-> l.written, read |-> l.read]]
    BY <2>2, <2>3
  <2>5. [writer |-> {t}, readers |-> {}, written |-> l.written, read |-> l.read] \in LockStates(p)
    BY <1>3 DEF LockStates
  <2> QED
    BY <1>1, <2>1, <2>4, <2>5 DEF OnlyOn
<1>7. Runs(p)'
  BY <1>1, <1>5, <1>6 DEF Runs
<1>8. MutexTaken(p, t, m)
  BY <1>1, <1>2, <1>4, <1>5, <1>6 DEF MutexTaken, AtLeast, c
<1> QED
  BY <1>1, <1>5, <1>6, <1>7, <1>8 DEF c

\* Who unlocks it publishes what it knows.
LEMMA GivesLock ==
    ASSUME NEW p, WellFormed(p), Runs(p), NEW t \in DOMAIN p.code, UnlocksExclusive(t)
    PROVE  LET c == Ins(p, t, pc[t])
               m == c.loc
           IN  /\ pc[t] \in Points(p, t) /\ c.op = "unlock" /\ m \in p.locks /\ Runs(p)'
               /\ pc' = [pc EXCEPT ![t] = pc[t] + 1] /\ UNCHANGED <<know, mem, accesses, undefined>>
               /\ OnlyOn(p, m) /\ MutexGiven(p, t, m)
<1> DEFINE c == Ins(p, t, pc[t])
           m == c.loc
<1>1. /\ pc[t] \in Points(p, t) /\ c.op = "unlock" /\ c.loc \in p.locks
      /\ Here(t) = c /\ program' = p /\ pc' = [pc EXCEPT ![t] = pc[t] + 1]
      /\ UNCHANGED <<reg, mem, accesses, undefined>> /\ pc' \in [DOMAIN p.code -> Nat]
      /\ know[t] \in Knowledge(p) /\ mutex[c.loc] \in LockStates(p) /\ Permitted(p, t, pc[t])
  BY AtMutex DEF UnlocksExclusive
<1> DEFINE l == mutex[m]
<1>2. know' = know /\ mutex' = [mutex EXCEPT ![m].writer = {}, ![m].written = Own(t)]
  BY <1>1 DEF UnlocksExclusive
<1>3. Alone(p, t, pc[t], m)
  BY <1>1 DEF Permitted
<1> HIDE DEF c
<1>4. l.read \in Knowledge(p) /\ l.readers \in SUBSET DOMAIN p.code
  BY <1>1 DEF LockStates
<1>5. /\ Own(t) \in Knowledge(p) /\ Own(t).seen = know[t].seen
      /\ Own(t).happened = [know[t].happened EXCEPT ![t] = pc[t]]
  BY OwnKnown
<1>6. /\ mutex' \in [p.locks -> LockStates(p)] /\ OnlyOn(p, m)
      /\ mutex'[m].writer = {} /\ mutex'[m].readers = l.readers
      /\ mutex'[m].written = Own(t) /\ mutex'[m].read = l.read
  <2>1. mutex \in [p.locks -> LockStates(p)]
    BY DEF Runs
  <2> DEFINE f == [writer |-> {}, readers |-> l.readers, written |-> Own(t), read |-> l.read]
  <2>2. mutex' = [mutex EXCEPT ![m] = f]
    <3> DEFINE g == [writer |-> {}, readers |-> l.readers, written |-> l.written, read |-> l.read]
               freed == [mutex EXCEPT ![m].writer = {}]
    <3>1. l = [writer |-> l.writer, readers |-> l.readers, written |-> l.written, read |-> l.read]
      BY <1>1 DEF LockStates
    <3>2. [l EXCEPT !.writer = {}] = g /\ [g EXCEPT !.written = Own(t)] = f
      BY <3>1
    <3>3. mutex' = [freed EXCEPT ![m].written = Own(t)]
      BY <1>2, <2>1
    <3>4. freed = [mutex EXCEPT ![m] = g]
      BY <3>2
    <3> HIDE DEF g, f, freed
    <3>5. mutex' = [freed EXCEPT ![m] = [g EXCEPT !.written = Own(t)]]
      BY <1>1, <2>1, <3>3, <3>4
    <3>6. mutex' = [freed EXCEPT ![m] = f]
      BY <3>2, <3>5
    <3> QED
      BY <1>1, <2>1, <3>4, <3>6
  <2>3. f \in LockStates(p)
    BY <1>4, <1>5 DEF LockStates
  <2> QED
    BY <1>1, <2>1, <2>2, <2>3 DEF OnlyOn
<1>7. Runs(p)'
  BY <1>1, <1>2, <1>6 DEF Runs
<1>8. MutexGiven(p, t, m)
  <2>1. pc'[t] # pc[t]
    BY <1>1 DEF Runs
  <2> QED
    BY <1>1, <1>2, <1>3, <1>5, <1>6, <2>1 DEF MutexGiven, c
<1> QED
  BY <1>1, <1>2, <1>6, <1>7, <1>8 DEF c

\* Who shares a mutex takes over what the writers published.
LEMMA JoinsReaders ==
    ASSUME NEW p, WellFormed(p), Runs(p), NEW t \in DOMAIN p.code, LocksShared(t)
    PROVE  LET c == Ins(p, t, pc[t])
               m == c.loc
           IN  /\ pc[t] \in Points(p, t) /\ c.op = "lockShared" /\ m \in p.locks /\ Runs(p)'
               /\ pc' = [pc EXCEPT ![t] = pc[t] + 1] /\ UNCHANGED <<mem, accesses, undefined>>
               /\ Learns(p, t) /\ OnlyOn(p, m) /\ MutexJoined(p, t, m)
<1> DEFINE c == Ins(p, t, pc[t])
           m == c.loc
<1>1. /\ pc[t] \in Points(p, t) /\ c.op = "lockShared" /\ c.loc \in p.locks
      /\ Here(t) = c /\ program' = p /\ pc' = [pc EXCEPT ![t] = pc[t] + 1]
      /\ UNCHANGED <<reg, mem, accesses, undefined>> /\ pc' \in [DOMAIN p.code -> Nat]
      /\ know[t] \in Knowledge(p) /\ mutex[c.loc] \in LockStates(p)
  BY AtMutex DEF LocksShared
<1> DEFINE l == mutex[m]
           k == Both(know[t], l.written)
<1>2. /\ l.writer = {} /\ know' = [know EXCEPT ![t] = k]
      /\ mutex' = [mutex EXCEPT ![m].readers = l.readers \union {t}]
  BY <1>1 DEF LocksShared
<1> HIDE DEF c
<1>3. l.written \in Knowledge(p) /\ l.read \in Knowledge(p) /\ l.readers \in SUBSET DOMAIN p.code
  BY <1>1 DEF LockStates
<1>4. /\ k \in Knowledge(p)
      /\ \A v \in DOMAIN p.code : k.happened[v] >= know[t].happened[v]
      /\ \A v \in DOMAIN p.code : k.happened[v] >= l.written.happened[v]
      /\ \A x \in DOMAIN p.mem : k.seen[x] >= know[t].seen[x]
  BY <1>1, <1>3, BothKnown
<1> HIDE DEF k
<1>5. Learns(p, t) /\ know' \in [DOMAIN p.code -> Knowledge(p)] /\ know'[t] = k
  BY <1>2, <1>4, LearnsMore DEF Runs
<1>6. /\ mutex' \in [p.locks -> LockStates(p)] /\ OnlyOn(p, m)
      /\ mutex'[m].writer = {} /\ mutex'[m].readers = l.readers \union {t}
      /\ mutex'[m].written = l.written /\ mutex'[m].read = l.read
  <2>1. mutex \in [p.locks -> LockStates(p)]
    BY DEF Runs
  <2> DEFINE f == [writer |-> {}, readers |-> l.readers \union {t}, written |-> l.written, read |-> l.read]
  <2>2. [l EXCEPT !.readers = l.readers \union {t}] = f
    <3>1. l = [writer |-> l.writer, readers |-> l.readers, written |-> l.written, read |-> l.read]
      BY <1>1 DEF LockStates
    <3> QED
      BY <1>2, <3>1
  <2>3. mutex' = [mutex EXCEPT ![m] = [l EXCEPT !.readers = l.readers \union {t}]]
    BY <1>2
  <2>4. mutex' = [mutex EXCEPT ![m] = f]
    BY <2>2, <2>3
  <2>5. f \in LockStates(p)
    BY <1>3 DEF LockStates
  <2> QED
    BY <1>1, <2>1, <2>4, <2>5 DEF OnlyOn
<1>7. Runs(p)'
  BY <1>1, <1>5, <1>6 DEF Runs
<1>8. MutexJoined(p, t, m)
  BY <1>1, <1>2, <1>4, <1>5, <1>6 DEF MutexJoined, AtLeast, c
<1> QED
  BY <1>1, <1>5, <1>6, <1>7, <1>8 DEF c

\* Who ends sharing it publishes for the writers.
LEMMA LeavesReaders ==
    ASSUME NEW p, WellFormed(p), Runs(p), NEW t \in DOMAIN p.code, UnlocksShared(t)
    PROVE  LET c == Ins(p, t, pc[t])
               m == c.loc
           IN  /\ pc[t] \in Points(p, t) /\ c.op = "unlockShared" /\ m \in p.locks /\ Runs(p)'
               /\ pc' = [pc EXCEPT ![t] = pc[t] + 1] /\ UNCHANGED <<know, mem, accesses, undefined>>
               /\ OnlyOn(p, m) /\ MutexLeft(p, t, m)
<1> DEFINE c == Ins(p, t, pc[t])
           m == c.loc
<1>1. /\ pc[t] \in Points(p, t) /\ c.op = "unlockShared" /\ c.loc \in p.locks
      /\ Here(t) = c /\ program' = p /\ pc' = [pc EXCEPT ![t] = pc[t] + 1]
      /\ UNCHANGED <<reg, mem, accesses, undefined>> /\ pc' \in [DOMAIN p.code -> Nat]
      /\ know[t] \in Knowledge(p) /\ mutex[c.loc] \in LockStates(p) /\ Permitted(p, t, pc[t])
  BY AtMutex DEF UnlocksShared
<1> DEFINE l == mutex[m]
           k == Both(l.read, Own(t))
<1>2. know' = know /\ mutex' = [mutex EXCEPT ![m].readers = l.readers \ {t}, ![m].read = k]
  BY <1>1 DEF UnlocksShared
<1>3. Sharing(p, t, pc[t], m)
  BY <1>1 DEF Permitted
<1> HIDE DEF c
<1>4. /\ l.written \in Knowledge(p) /\ l.read \in Knowledge(p)
      /\ l.writer \in SUBSET DOMAIN p.code /\ l.readers \in SUBSET DOMAIN p.code
  BY <1>1 DEF LockStates
<1>5. Own(t) \in Knowledge(p) /\ Own(t).happened[t] = pc[t]
  <2>1. know[t].happened \in [DOMAIN p.code -> Nat]
    BY <1>1 DEF Knowledge
  <2>2. Own(t) \in Knowledge(p) /\ Own(t).happened = [know[t].happened EXCEPT ![t] = pc[t]]
    BY OwnKnown
  <2> QED
    BY <2>1, <2>2
<1>6. /\ k \in Knowledge(p) /\ k.happened[t] >= pc[t]
      /\ \A v \in DOMAIN p.code : k.happened[v] >= l.read.happened[v]
  BY <1>4, <1>5, BothKnown
<1> HIDE DEF k
<1>7. /\ mutex' \in [p.locks -> LockStates(p)] /\ OnlyOn(p, m)
      /\ mutex'[m].writer = l.writer /\ mutex'[m].readers = l.readers \ {t}
      /\ mutex'[m].written = l.written /\ mutex'[m].read = k
  <2>1. mutex \in [p.locks -> LockStates(p)]
    BY DEF Runs
  <2> DEFINE f == [writer |-> l.writer, readers |-> l.readers \ {t}, written |-> l.written, read |-> k]
  <2>2. mutex' = [mutex EXCEPT ![m] = f]
    <3> DEFINE g == [writer |-> l.writer, readers |-> l.readers \ {t}, written |-> l.written, read |-> l.read]
               left == [mutex EXCEPT ![m].readers = l.readers \ {t}]
    <3>1. l = [writer |-> l.writer, readers |-> l.readers, written |-> l.written, read |-> l.read]
      BY <1>1 DEF LockStates
    <3>2. [l EXCEPT !.readers = l.readers \ {t}] = g /\ [g EXCEPT !.read = k] = f
      <4> HIDE DEF l
      <4>1. [l EXCEPT !.readers = l.readers \ {t}] = g
        BY <3>1
      <4>2. [g EXCEPT !.read = k] = f
        OBVIOUS
      <4> QED
        BY <4>1, <4>2
    <3>3. mutex' = [left EXCEPT ![m].read = k]
      BY <1>2, <2>1
    <3>4. left = [mutex EXCEPT ![m] = g]
      BY <3>2
    <3> HIDE DEF g, f, left
    <3>5. mutex' = [left EXCEPT ![m] = [g EXCEPT !.read = k]]
      BY <1>1, <2>1, <3>3, <3>4
    <3>6. mutex' = [left EXCEPT ![m] = f]
      BY <3>2, <3>5
    <3> QED
      BY <1>1, <2>1, <3>4, <3>6
  <2>3. f \in LockStates(p)
    BY <1>4, <1>6 DEF LockStates
  <2> QED
    BY <1>1, <2>1, <2>2, <2>3 DEF OnlyOn
<1>8. Runs(p)'
  BY <1>1, <1>2, <1>7 DEF Runs
<1>9. MutexLeft(p, t, m)
  <2>1. pc'[t] # pc[t]
    BY <1>1 DEF Runs
  <2> QED
    BY <1>1, <1>2, <1>3, <1>6, <1>7, <2>1 DEF MutexLeft, c
<1> QED
  BY <1>1, <1>2, <1>7, <1>8, <1>9 DEF c

\* A thread that is started knows what the one that starts it does.
LEMMA StartsThread ==
    ASSUME NEW p, WellFormed(p), Runs(p), NEW t \in DOMAIN p.code, Starts(t)
    PROVE  LET c == Ins(p, t, pc[t])
               u == c.thread
           IN  /\ pc[t] \in Points(p, t) /\ c.op = "start" /\ u \in DOMAIN p.code /\ Runs(p)'
               /\ t = Main /\ u # Main
               /\ \A j \in Points(p, t) : Ins(p, t, j).op = "start" /\ Ins(p, t, j).thread = u => j = pc[t]
               /\ pc' = [v \in DOMAIN p.code |-> IF v = u THEN 1 ELSE IF v = t THEN pc[t] + 1 ELSE pc[v]]
               /\ know'[u].happened = [know[t].happened EXCEPT ![t] = pc[t]]
               /\ \A v \in DOMAIN p.code \ {u} : know'[v] = know[v]
               /\ UNCHANGED <<mem, mutex, accesses, undefined>>
<1> DEFINE c == Ins(p, t, pc[t])
           u == c.thread
<1>1. /\ pc[t] \in Points(p, t) /\ c.op = "start" /\ Here(t) = c /\ c \in Instructions
      /\ Permitted(p, t, pc[t]) /\ Threads = DOMAIN p.code
  BY AtPoint DEF Starts
<1>2. /\ t = Main /\ u # Main
      /\ \A j \in Points(p, t) : Ins(p, t, j).op = "start" /\ Ins(p, t, j).thread = u => j = pc[t]
  BY <1>1 DEF Permitted
<1>3. /\ u \in DOMAIN p.code /\ UNCHANGED <<program, reg, mem, mutex, accesses, undefined>>
      /\ pc' = [pc EXCEPT ![t] = pc[t] + 1, ![u] = 1] /\ know' = [know EXCEPT ![u] = Own(t)]
  BY <1>1 DEF Starts, OnOther
<1> HIDE DEF c
<1>4. pc \in [DOMAIN p.code -> Nat] /\ know \in [DOMAIN p.code -> Knowledge(p)] /\ program = p
  BY DEF Runs
<1>5. pc' = [v \in DOMAIN p.code |-> IF v = u THEN 1 ELSE IF v = t THEN pc[t] + 1 ELSE pc[v]]
  BY <1>3, <1>4
<1>6. Own(t) \in Knowledge(p) /\ Own(t).happened = [know[t].happened EXCEPT ![t] = pc[t]]
  BY OwnKnown
<1>7. /\ know' \in [DOMAIN p.code -> Knowledge(p)] /\ know'[u] = Own(t)
      /\ \A v \in DOMAIN p.code \ {u} : know'[v] = know[v]
  BY <1>3, <1>4, <1>6
<1>8. pc' \in [DOMAIN p.code -> Nat]
  BY <1>4, <1>5
<1>9. Runs(p)'
  BY <1>3, <1>4, <1>7, <1>8 DEF Runs
<1> QED
  BY <1>1, <1>2, <1>3, <1>5, <1>6, <1>7, <1>9 DEF c

\* The one that joins it knows what the thread has done.
LEMMA JoinsThread ==
    ASSUME NEW p, WellFormed(p), Runs(p), NEW t \in DOMAIN p.code, Joins(t)
    PROVE  LET c == Ins(p, t, pc[t])
               u == c.thread
           IN  /\ pc[t] \in Points(p, t) /\ c.op = "join" /\ u \in DOMAIN p.code /\ Runs(p)'
               /\ pc[u] > Len(p.code[u])
               /\ pc' = [pc EXCEPT ![t] = pc[t] + 1]
               /\ Learns(p, t) /\ know'[t].happened[u] >= pc[u]
               /\ UNCHANGED <<mem, mutex, accesses, undefined>>
<1> DEFINE c == Ins(p, t, pc[t])
           u == c.thread
<1>1. /\ pc[t] \in Points(p, t) /\ c.op = "join" /\ Here(t) = c /\ c \in Instructions
      /\ Threads = DOMAIN p.code /\ program = p
  BY AtPoint DEF Joins, Runs
<1>2. /\ u \in DOMAIN p.code /\ UNCHANGED <<program, reg, mem, mutex, accesses, undefined>>
      /\ Advance(t, 0) /\ know' = [know EXCEPT ![t] = Both(know[t], Own(u))] /\ pc[u] > Len(p.code[u])
  BY <1>1 DEF Joins, OnOther, Finished, Code
<1>3. pc' = [pc EXCEPT ![t] = pc[t] + 1] /\ pc' \in [DOMAIN p.code -> Nat]
  BY <1>1, <1>2, GoesOn
<1> HIDE DEF c
<1>4. /\ know[t] \in Knowledge(p) /\ Own(u) \in Knowledge(p) /\ Own(u).happened[u] = pc[u]
  <2>1. know[t] \in Knowledge(p) /\ know[u] \in Knowledge(p)
    BY <1>2 DEF Runs
  <2>2. know[u].happened \in [DOMAIN p.code -> Nat]
    BY <2>1 DEF Knowledge
  <2>3. Own(u) \in Knowledge(p) /\ Own(u).happened = [know[u].happened EXCEPT ![u] = pc[u]]
    BY <1>2, OwnKnown
  <2> QED
    BY <1>2, <2>1, <2>2, <2>3
<1>5. /\ Both(know[t], Own(u)) \in Knowledge(p)
      /\ \A v \in DOMAIN p.code : Both(know[t], Own(u)).happened[v] >= know[t].happened[v]
      /\ Both(know[t], Own(u)).happened[u] >= pc[u]
      /\ \A x \in DOMAIN p.mem : Both(know[t], Own(u)).seen[x] >= know[t].seen[x]
  BY <1>2, <1>4, BothKnown
<1>6. Learns(p, t) /\ know' \in [DOMAIN p.code -> Knowledge(p)]
  BY <1>2, <1>5, LearnsMore
<1>7. know'[t].happened[u] >= pc[u]
  BY <1>2, <1>5 DEF Runs
<1>8. Runs(p)'
  BY <1>1, <1>2, <1>3, <1>6 DEF Runs
<1> QED
  BY <1>1, <1>2, <1>3, <1>6, <1>7, <1>8 DEF c

-----------------------------------------------------------------------------
(* The invariant *)

\* What the machine remembers of an access.
KindOf(op) == IF op \in ReadOps THEN "read" ELSE IF op = "free" THEN "free" ELSE "write"

\* What is remembered of an object are instructions that have been executed.
Accessed(p) ==
    \A x \in DOMAIN p.mem : \A a \in accesses[x] :
       LET c == Ins(p, a.by, a.at)
       IN  /\ a.at \in Points(p, a.by) /\ a.at < pc[a.by]
           /\ c.loc = x /\ c.op \in AccessOps
           /\ a.kind = KindOf(c.op) /\ a.plain = (c.order = "plain")

\* A thread that runs was started by main(), after what main() did before.
Started(p) ==
    \A u \in DOMAIN p.code \ {Main} :
       IF pc[u] = 0
       THEN \A v \in DOMAIN p.code : know[u].happened[v] = 0
       ELSE \E j \in Points(p, Main) :
               /\ Ins(p, Main, j).op = "start" /\ Ins(p, Main, j).thread = u
               /\ pc[Main] > j /\ know[u].happened[Main] >= j

\* main() knows all that the threads have done that it has joined.
Joined(p) ==
    \A u \in DOMAIN p.code : \A j \in Points(p, Main) :
       /\ Ins(p, Main, j).op = "join" /\ Ins(p, Main, j).thread = u /\ Passed(p, Main, j)
       /\ pc[Main] > j
       => pc[u] > Len(p.code[u]) /\ know[Main].happened[u] > Len(p.code[u])

\* Who reads another value than the first one of a flag knows what was done
\* before it was stored.
FlagStored(p) ==
    \A f \in DOMAIN p.mem : \A t \in DOMAIN p.code : \A j \in Points(p, t) :
       Publishes(p, t, j, f) =>
          \A n \in 1..Len(mem[f]) :
             \/ mem[f][n].value = p.mem[f]
             \/ mem[f][n].know.happened[t] >= j /\ pc[t] > j

\* So does who has awaited it.
FlagSeen(p) ==
    \A f \in DOMAIN p.mem : \A t, u \in DOMAIN p.code : \A j \in Points(p, t), n \in Points(p, u) :
       Publishes(p, t, j, f) /\ AwaitsFlag(p, u, n, f) /\ pc[u] > n =>
          know[u].happened[t] >= j /\ pc[t] > j

\* A thread in a critical section holds the lock, alone or with other readers.
HoldsLock(p) ==
    \A m \in p.locks :
       /\ mutex[m].writer = {} \/ mutex[m].readers = {}
       /\ \A t, u \in mutex[m].writer : t = u
       /\ \A t \in DOMAIN p.code : /\ Alone(p, t, pc[t], m) => t \in mutex[m].writer
                                   /\ Sharing(p, t, pc[t], m) => t \in mutex[m].readers

\* Who holds it knows what others did before him.
HolderKnows(p) ==
    \A m \in p.locks :
       /\ \A t \in mutex[m].writer  : AtLeast(p, know[t], mutex[m].written) /\ AtLeast(p, know[t], mutex[m].read)
       /\ \A t \in mutex[m].readers : AtLeast(p, know[t], mutex[m].written)

\* An access under the lock is by the one who holds it, or was published.
Published(p) ==
    \A x \in DOMAIN p.mem : \A a \in accesses[x] : \A m \in p.locks :
       /\ Alone(p, a.by, a.at, m) =>
             a.by \in mutex[m].writer \/ a.at <= mutex[m].written.happened[a.by]
       /\ Sharing(p, a.by, a.at, m) =>
             \/ a.by \in mutex[m].readers
             \/ a.at <= mutex[m].written.happened[a.by] \/ a.at <= mutex[m].read.happened[a.by]

\* No use of a protected object is undefined.
RaceFree(p) == /\ undefined \subseteq DOMAIN p.mem
               /\ \A x \in DOMAIN p.mem : Protected(p, x) => x \notin undefined

\* A spin lock is taken while a thread is between exchanging and storing it, and
\* who is knows what was published with it.
SpinsAlone(p) ==
    \A f \in DOMAIN p.mem : SpinLock(p, f) =>
       LET last == mem[f][Len(mem[f])]
       IN  /\ last.value \in {0, 1}
           /\ \A t, u \in DOMAIN p.code : Spins(p, t, pc[t], f) /\ Spins(p, u, pc[u], f) => t = u
           /\ \A t \in DOMAIN p.code : Spins(p, t, pc[t], f) =>
                 /\ last.value = 1
                 /\ \A v \in DOMAIN p.code \ {t} : know[t].happened[v] >= last.know.happened[v]

\* An access under it is by the one who holds it, or was published.
SpinPublished(p) ==
    \A f, x \in DOMAIN p.mem : \A a \in accesses[x] :
       SpinLock(p, f) /\ Spins(p, a.by, a.at, f) =>
          Spins(p, a.by, pc[a.by], f) \/ a.at <= mem[f][Len(mem[f])].know.happened[a.by]

\* What is published carries what its writer has awaited.
RelayStored(p) ==
    \A g \in DOMAIN p.mem : \A t, w \in DOMAIN p.code :
       \A j \in Points(p, t), a, b \in Points(p, w) :
          HandsOver(p, t, j, w, a) /\ a < b /\ Publishes(p, w, b, g) =>
             \A n \in 1..Len(mem[g]) : mem[g][n].value = p.mem[g] \/ mem[g][n].know.happened[t] >= j

\* So does who awaits it in turn.
RelaySeen(p) ==
    \A t, w, u \in DOMAIN p.code :
       \A j \in Points(p, t), a, b \in Points(p, w), n \in Points(p, u) :
          HandsOver(p, t, j, w, a) /\ a < b /\ HandsOver(p, w, b, u, n) /\ pc[u] > n =>
             know[u].happened[t] >= j

\* t is about to set g, having found that it is not set.
Setting(p, t, g, m) == \E j, s \in Points(p, t) : Sets(p, t, j, s, g, m) /\ j < pc[t] /\ pc[t] <= s

\* Who is alone reads the last value of what is set once, which is the second one.
SetOnly(p) ==
    \A g \in DOMAIN p.mem : \A m \in p.locks : SetOnce(p, g, m) =>
       /\ Len(mem[g]) <= 2 /\ mem[g][1].value = p.mem[g]
       /\ Len(mem[g]) = 2 => mem[g][2].value # p.mem[g]
       /\ mutex[m].writer = {} =>
             mutex[m].written.seen[g] >= Len(mem[g]) \/ \E t \in DOMAIN p.code : DOMAIN p.code = {t}
       /\ \A t \in DOMAIN p.code : Sole(p, t, pc[t], m) => know[t].seen[g] >= Len(mem[g])
       /\ \A t \in DOMAIN p.code : Setting(p, t, g, m) => Len(mem[g]) = 1

\* t has written x and not set g yet.
Filling(p, t, i, x, g, m) ==
    \E j, s \in Points(p, t) : Fills(p, t, i, j, s, x, g, m) /\ i < pc[t] /\ pc[t] <= s

\* What is filled before that is written once.
FilledOnly(p) ==
    \A x, g \in DOMAIN p.mem : \A m \in p.locks : FilledOnce(p, x, g, m) =>
       /\ Len(mem[x]) <= 2
       /\ Len(mem[x]) = 2 /\ Len(mem[g]) = 1 =>
             \E t \in DOMAIN p.code : \E i \in Points(p, t) : Filling(p, t, i, x, g, m)

\* It is written by the one who sets g, and published with g.
FillPublished(p) ==
    \A x, g \in DOMAIN p.mem : \A m \in p.locks : FilledOnce(p, x, g, m) =>
       \A a \in accesses[x] : a.kind = "write" =>
          IF Len(mem[g]) = 1
          THEN Filling(p, a.by, a.at, x, g, m)
          ELSE PublishedBySetting(p, g) => mem[g][2].know.happened[a.by] >= a.at

\* Who has come past the check knows who has written x.
CheckedKnows(p) ==
    \A x, g \in DOMAIN p.mem : \A m \in p.locks : \A u \in DOMAIN p.code : \A n, j, s \in Points(p, u) :
       FilledOnce(p, x, g, m) /\ PublishedBySetting(p, g) /\ Checks(p, u, n, j, s, g, m) /\ pc[u] > s =>
          /\ Len(mem[g]) = 2
          /\ \A a \in accesses[x] : a.kind = "write" /\ a.by # u => know[u].happened[a.by] >= a.at

\* The invariant.
Ordered(p) == /\ Runs(p) /\ Accessed(p) /\ Started(p) /\ Joined(p) /\ FlagStored(p) /\ FlagSeen(p)
              /\ RelayStored(p) /\ RelaySeen(p) /\ HoldsLock(p) /\ HolderKnows(p) /\ Published(p)
              /\ SpinsAlone(p) /\ SpinPublished(p)
              /\ SetOnly(p) /\ FilledOnly(p) /\ FillPublished(p) /\ CheckedKnows(p) /\ RaceFree(p)

-----------------------------------------------------------------------------
(* What the steps have in common *)

\* t goes on, or main() starts a thread; nobody knows less than before.
Moves(p, t) ==
    LET c == Ins(p, t, pc[t])
    IN  /\ \/ pc'[t] = pc[t] /\ know'[t] = know[t]
           \/ pc[t] \in Points(p, t) /\ pc'[t] = pc[t] + 1
           \/ pc[t] \in Points(p, t) /\ c.op = "load" /\ pc'[t] = pc[t] + 1 + c.skip
        /\ \A v \in DOMAIN p.code \ {t} :
              \/ pc'[v] = pc[v] /\ know'[v] = know[v]
              \/ /\ t = Main /\ c.op = "start" /\ c.thread = v /\ pc'[Main] = pc[Main] + 1
                 /\ pc[v] = 0 /\ pc'[v] = 1 /\ know'[v].happened[Main] >= pc[Main]
        /\ \A v \in DOMAIN p.code : AtLeast(p, know'[v], know[v])

\* An access is remembered.
AccessesAs(p, t) ==
    LET c == Ins(p, t, pc[t])
    IN  \/ UNCHANGED <<accesses, undefined>>
        \/ /\ pc[t] \in Points(p, t) /\ c.op \in AccessOps /\ Permitted(p, t, pc[t]) /\ Here(t) = c
           /\ pc'[t] > pc[t] /\ mutex' = mutex /\ Access(t, KindOf(c.op))

\* What the instruction that is executed does to the knowledge and the memory.
Executes(p, t) ==
    LET c == Ins(p, t, pc[t])
    IN  /\ \/ mem' = mem /\ (c.op \notin WriteOps \/ pc'[t] = pc[t])
           \/ /\ pc[t] \in Points(p, t) /\ c.op \in WriteOps /\ c.loc \in DOMAIN p.mem
              /\ pc'[t] = pc[t] + 1 /\ \E e : WritesEntry(p, t, e)
        /\ c.op \in ReadOps /\ pc'[t] # pc[t] => \E n : ReadsValue(p, t, n)
        /\ c.op = "join" /\ pc'[t] # pc[t] =>
              pc[c.thread] > Len(p.code[c.thread]) /\ know'[t].happened[c.thread] >= pc[c.thread]
        /\ Sees(p, t)

\* A mutex is locked or unlocked, or all stay as they are.
LocksAs(p, t) ==
    \/ LocksExclusive(t) \/ UnlocksExclusive(t) \/ LocksShared(t) \/ UnlocksShared(t)
    \/ mutex' = mutex /\ (pc'[t] = pc[t] \/ Ins(p, t, pc[t]).op \notin {"lock", "unlock", "lockShared", "unlockShared"})

\* Nobody forgets.
LEMMA KnowsNoLess ==
    ASSUME NEW p, Runs(p), NEW v \in DOMAIN p.code, know'[v] = know[v]
    PROVE  AtLeast(p, know'[v], know[v])
<1>1. know[v] \in Knowledge(p)
  BY DEF Runs
<1>2. know[v].happened \in [DOMAIN p.code -> Nat]
  BY <1>1 DEF Knowledge
<1> QED
  BY <1>2 DEF AtLeast

\* Nor does it look behind what it has seen.
LEMMA SeesNoLess ==
    ASSUME NEW p, Runs(p), NEW t \in DOMAIN p.code, know'[t] = know[t]
    PROVE  Sees(p, t)
<1>1. know[t] \in Knowledge(p)
  BY DEF Runs
<1>2. know[t].seen \in [DOMAIN p.mem -> Nat]
  BY <1>1 DEF Knowledge
<1> QED
  BY <1>2 DEF Sees

\* A step moves one thread, and perhaps starts another one.
LEMMA MovesAlone ==
    ASSUME NEW p, Runs(p), NEW t \in DOMAIN p.code, pc[t] \in Points(p, t), Goes(p, t),
           Learns(p, t) \/ know' = know
    PROVE  Moves(p, t)
<1> DEFINE c == Ins(p, t, pc[t])
<1> HIDE DEF c
<1>1. PICK n \in {pc[t] + 1, pc[t] + 1 + c.skip} :
         pc' = [pc EXCEPT ![t] = n] /\ (n # pc[t] + 1 => c.op = "load")
  BY DEF Goes, c
<1>2. pc \in [DOMAIN p.code -> Nat] /\ know \in [DOMAIN p.code -> Knowledge(p)]
  BY DEF Runs
<1>3. pc'[t] = n /\ \A v \in DOMAIN p.code \ {t} : pc'[v] = pc[v]
  BY <1>1, <1>2
<1>4. \A v \in DOMAIN p.code \ {t} : know'[v] = know[v]
  BY DEF Learns
<1>5. ASSUME NEW v \in DOMAIN p.code
      PROVE  AtLeast(p, know'[v], know[v])
  <2>1. CASE know'[v] = know[v]
    BY <2>1, KnowsNoLess
  <2>2. CASE know'[v] # know[v]
    BY <1>4, <2>2 DEF Learns, AtLeast
  <2> QED
    BY <2>1, <2>2
<1> QED
  BY <1>1, <1>3, <1>4, <1>5 DEF Moves, c

\* A thread that is at no branch goes to the next instruction.
LEMMA GoesOne ==
    ASSUME NEW p, NEW t \in DOMAIN p.code, pc' = [pc EXCEPT ![t] = pc[t] + 1]
    PROVE  Goes(p, t)
BY DEF Goes

\* Every step moves one thread, remembers its access, executes its instruction and
\* does to the mutexes what the instruction says.
LEMMA StepEffects ==
    ASSUME NEW p, WellFormed(p), Runs(p), Started(p), NEW t \in DOMAIN p.code, Step(t)
    PROVE  Runs(p)' /\ Moves(p, t) /\ AccessesAs(p, t) /\ Executes(p, t) /\ LocksAs(p, t)
<1> DEFINE c == Ins(p, t, pc[t])
<1>0. pc \in [DOMAIN p.code -> Nat] /\ pc[t] \in Nat
  BY DEF Runs
<1>1. CASE Loads(t) \/ Awaits(t)
  <2>1. /\ pc[t] \in Points(p, t) /\ c.op \in ReadOps /\ Permitted(p, t, pc[t])
        /\ Runs(p)' /\ Goes(p, t) /\ Learns(p, t) /\ mem' = mem /\ mutex' = mutex
        /\ Here(t) = c /\ Access(t, "read") /\ \E n : ReadsValue(p, t, n)
    BY <1>1, Reads
  <2>2. Moves(p, t)
    BY <2>1, MovesAlone
  <2>3. pc'[t] > pc[t]
    <3>1. pc' = [pc EXCEPT ![t] = pc[t] + 1] \/ pc' = [pc EXCEPT ![t] = pc[t] + 1 + c.skip]
      BY <2>1 DEF Goes
    <3>2. c.skip \in Nat
      BY <2>1, InstructionTypes DEF Instructions
    <3> QED
      BY <1>0, <3>1, <3>2
  <2> HIDE DEF c
  <2>4. KindOf(c.op) = "read" /\ c.op \in AccessOps
    BY <2>1 DEF KindOf, AccessOps
  <2>5. AccessesAs(p, t)
    BY <2>1, <2>3, <2>4 DEF AccessesAs, c
  <2>6. c.op \notin {"store", "modify", "join", "lock", "unlock", "lockShared", "unlockShared"}
    BY <2>1 DEF ReadOps
  <2> QED
    BY <2>1, <2>2, <2>5, <2>6 DEF Executes, LocksAs, WriteOps, Learns, c
<1>2. CASE Stores(t) \/ Modifies(t)
  <2>1. /\ pc[t] \in Points(p, t) /\ c.op \in WriteOps /\ Permitted(p, t, pc[t])
        /\ Runs(p)' /\ pc' = [pc EXCEPT ![t] = pc[t] + 1] /\ Learns(p, t) /\ mutex' = mutex
        /\ Here(t) = c /\ Access(t, "write") /\ \E e : WritesEntry(p, t, e)
    BY <1>2, Writes
  <2>2. Moves(p, t)
    BY <2>1, MovesAlone, GoesOne
  <2>3. pc'[t] > pc[t] /\ pc'[t] = pc[t] + 1
    BY <1>0, <2>1
  <2> HIDE DEF c
  <2>4. KindOf(c.op) = "write" /\ c.op \in AccessOps
    BY <2>1 DEF KindOf, AccessOps, ReadOps, WriteOps
  <2>5. AccessesAs(p, t)
    BY <2>1, <2>3, <2>4 DEF AccessesAs, c
  <2>6. c.op \notin {"join", "load", "await", "lock", "unlock", "lockShared", "unlockShared"}
    BY <2>1 DEF WriteOps
  <2>7. c.loc \in DOMAIN p.mem
    BY <2>1, <2>4 DEF Permitted, c
  <2> QED
    BY <2>1, <2>2, <2>3, <2>5, <2>6, <2>7 DEF Executes, LocksAs, ReadOps, Learns, c
<1>3. CASE Says(t) \/ Frees(t) \/ Detaches(t) \/ Drops(t)
  <2>1. /\ pc[t] \in Points(p, t) /\ c.op \in {"say", "free", "detach", "drop"}
        /\ Permitted(p, t, pc[t]) /\ Here(t) = c
        /\ Runs(p)' /\ pc' = [pc EXCEPT ![t] = pc[t] + 1] /\ know' = know /\ mem' = mem /\ mutex' = mutex
        /\ IF c.op = "free" THEN Access(t, "free") ELSE UNCHANGED <<accesses, undefined>>
    BY <1>3, Others
  <2>2. Moves(p, t)
    BY <2>1, MovesAlone, GoesOne
  <2>3. pc'[t] > pc[t]
    BY <1>0, <2>1
  <2> HIDE DEF c
  <2>4. KindOf("free") = "free" /\ "free" \in AccessOps
    BY DEF KindOf, AccessOps, ReadOps, WriteOps
  <2>5. AccessesAs(p, t)
    BY <2>1, <2>3, <2>4 DEF AccessesAs, c
  <2>6. c.op \notin {"join", "load", "await", "store", "modify", "lock", "unlock", "lockShared", "unlockShared"}
    BY <2>1
  <2>7. Sees(p, t)
    BY <2>1, SeesNoLess
  <2> QED
    BY <2>1, <2>2, <2>5, <2>6, <2>7 DEF Executes, LocksAs, ReadOps, WriteOps, c
<1>4. CASE LocksExclusive(t) \/ LocksShared(t)
  <2>1. /\ pc[t] \in Points(p, t) /\ c.op \in {"lock", "lockShared"} /\ Runs(p)'
        /\ pc' = [pc EXCEPT ![t] = pc[t] + 1] /\ mem' = mem /\ UNCHANGED <<accesses, undefined>>
        /\ Learns(p, t)
    <3>1. CASE LocksExclusive(t)
      BY <3>1, TakesLock
    <3>2. CASE LocksShared(t)
      BY <3>2, JoinsReaders
    <3> QED
      BY <1>4, <3>1, <3>2
  <2>2. Moves(p, t)
    BY <2>1, MovesAlone, GoesOne
  <2> HIDE DEF c
  <2>3. c.op \notin {"join", "load", "await", "store", "modify"}
    BY <2>1
  <2> QED
    BY <1>4, <2>1, <2>2, <2>3 DEF Executes, LocksAs, AccessesAs, ReadOps, WriteOps, Learns, c
<1>5. CASE UnlocksExclusive(t) \/ UnlocksShared(t)
  <2>1. /\ pc[t] \in Points(p, t) /\ c.op \in {"unlock", "unlockShared"} /\ Runs(p)'
        /\ pc' = [pc EXCEPT ![t] = pc[t] + 1] /\ mem' = mem /\ UNCHANGED <<accesses, undefined>>
        /\ know' = know
    <3>1. CASE UnlocksExclusive(t)
      <4>1. pc[t] \in Points(p, t) /\ c.op = "unlock" /\ Runs(p)'
        BY <3>1, GivesLock
      <4>2. /\ pc' = [pc EXCEPT ![t] = pc[t] + 1] /\ mem' = mem /\ UNCHANGED <<accesses, undefined>>
            /\ know' = know
        BY <3>1, GivesLock
      <4> QED
        BY <4>1, <4>2
    <3>2. CASE UnlocksShared(t)
      BY <3>2, LeavesReaders
    <3> QED
      BY <1>5, <3>1, <3>2
  <2>2. Moves(p, t)
    BY <2>1, MovesAlone, GoesOne
  <2> HIDE DEF c
  <2>3. c.op \notin {"join", "load", "await", "store", "modify"}
    BY <2>1
  <2>4. Sees(p, t)
    BY <2>1, SeesNoLess
  <2> QED
    BY <1>5, <2>1, <2>2, <2>3, <2>4 DEF Executes, LocksAs, AccessesAs, ReadOps, WriteOps, c
<1>6. CASE Starts(t)
  <2> DEFINE u == c.thread
  <2>1. /\ pc[t] \in Points(p, t) /\ c.op = "start" /\ u \in DOMAIN p.code /\ Runs(p)'
        /\ t = Main /\ u # Main
        /\ \A j \in Points(p, t) : Ins(p, t, j).op = "start" /\ Ins(p, t, j).thread = u => j = pc[t]
        /\ pc' = [v \in DOMAIN p.code |-> IF v = u THEN 1 ELSE IF v = t THEN pc[t] + 1 ELSE pc[v]]
        /\ know'[u].happened = [know[t].happened EXCEPT ![t] = pc[t]]
        /\ \A v \in DOMAIN p.code \ {u} : know'[v] = know[v]
        /\ mem' = mem /\ mutex' = mutex /\ UNCHANGED <<accesses, undefined>>
    BY <1>6, StartsThread
  <2> HIDE DEF c
  <2>2. pc[u] = 0 /\ \A v \in DOMAIN p.code : know[u].happened[v] = 0
    <3>1. ASSUME pc[u] # 0
          PROVE  FALSE
      <4>1. PICK j \in Points(p, Main) : /\ Ins(p, Main, j).op = "start" /\ Ins(p, Main, j).thread = u
                                         /\ pc[Main] > j
        BY <2>1, <3>1 DEF Started
      <4>2. j = pc[Main]
        BY <2>1, <4>1
      <4> QED
        BY <1>0, <2>1, <4>1, <4>2
    <3> QED
      BY <2>1, <3>1 DEF Started
  <2>3. know[t] \in Knowledge(p)
    BY DEF Runs
  <2>4. know[t].happened \in [DOMAIN p.code -> Nat]
    BY <2>3 DEF Knowledge
  <2>5. \A v \in DOMAIN p.code : know'[u].happened[v] \in Nat
    BY <1>0, <2>1, <2>4
  <2>6. AtLeast(p, know'[u], know[u]) /\ know'[u].happened[Main] >= pc[Main]
    BY <1>0, <2>1, <2>2, <2>4, <2>5 DEF AtLeast
  <2>7. Moves(p, t)
    <3>1. /\ pc'[t] = pc[t] + 1 /\ pc'[u] = 1
          /\ \A v \in DOMAIN p.code \ {t, u} : pc'[v] = pc[v] /\ know'[v] = know[v]
      BY <2>1
    <3>2. \A v \in DOMAIN p.code : AtLeast(p, know'[v], know[v])
      BY <2>1, <2>6, KnowsNoLess
    <3> HIDE DEF u
    <3>3. \A v \in DOMAIN p.code \ {t} :
             \/ pc'[v] = pc[v] /\ know'[v] = know[v]
             \/ /\ t = Main /\ c.op = "start" /\ c.thread = v /\ pc'[Main] = pc[Main] + 1
                /\ pc[v] = 0 /\ pc'[v] = 1 /\ know'[v].happened[Main] >= pc[Main]
      BY <2>1, <2>2, <2>6, <3>1 DEF u
    <3> QED
      BY <2>1, <3>1, <3>2, <3>3 DEF Moves, c
  <2>8. c.op \notin {"join", "load", "await", "store", "modify", "lock", "unlock", "lockShared", "unlockShared"}
    BY <2>1
  <2>9. Sees(p, t)
    <3>1. know'[t] = know[t]
      BY <2>1
    <3> QED
      BY <3>1, SeesNoLess
  <2> QED
    BY <2>1, <2>7, <2>8, <2>9 DEF Executes, LocksAs, AccessesAs, ReadOps, WriteOps, c
<1>7. CASE Joins(t)
  <2>1. /\ pc[t] \in Points(p, t) /\ c.op = "join" /\ Runs(p)'
        /\ pc[c.thread] > Len(p.code[c.thread])
        /\ pc' = [pc EXCEPT ![t] = pc[t] + 1]
        /\ Learns(p, t) /\ know'[t].happened[c.thread] >= pc[c.thread]
        /\ mem' = mem /\ mutex' = mutex /\ UNCHANGED <<accesses, undefined>>
    BY <1>7, JoinsThread
  <2>2. Moves(p, t)
    BY <2>1, MovesAlone, GoesOne
  <2> HIDE DEF c
  <2>3. c.op \notin {"load", "await", "store", "modify", "lock", "unlock", "lockShared", "unlockShared"}
    BY <2>1
  <2> QED
    BY <2>1, <2>2, <2>3 DEF Executes, LocksAs, AccessesAs, ReadOps, WriteOps, Learns, c
<1>8. CASE Throws(t)
  <2>1. /\ program' = program /\ pc' = pc /\ reg' = reg /\ know' = know /\ mem' = mem /\ mutex' = mutex
        /\ accesses' = accesses /\ UNCHANGED <<accesses, undefined>>
    BY <1>8 DEF Throws
  <2>2. Runs(p)'
    BY <2>1 DEF Runs
  <2>3. Moves(p, t)
    BY <2>1, KnowsNoLess DEF Moves
  <2>4. Sees(p, t)
    BY <2>1, SeesNoLess
  <2> QED
    BY <2>1, <2>2, <2>3, <2>4 DEF Executes, LocksAs, AccessesAs
<1> QED
  BY <1>1, <1>2, <1>3, <1>4, <1>5, <1>6, <1>7, <1>8 DEF Step

-----------------------------------------------------------------------------
(* The invariant is preserved *)

\* Instructions are executed one after the other, and time goes on.
LEMMA Later ==
    ASSUME NEW p, WellFormed(p), Runs(p), NEW t \in DOMAIN p.code, Moves(p, t), NEW v \in DOMAIN p.code
    PROVE  pc[v] \in Nat /\ pc'[v] \in Nat /\ pc'[v] >= pc[v]
<1>1. pc[v] \in Nat /\ pc[t] \in Nat
  BY DEF Runs
<1>2. pc[t] \in Points(p, t) => Ins(p, t, pc[t]).skip \in Nat
  BY InstructionTypes DEF Instructions
<1>3. pc'[t] \in Nat /\ pc'[t] >= pc[t]
  BY <1>1, <1>2 DEF Moves
<1>4. v # t => pc'[v] \in Nat /\ pc'[v] >= pc[v]
  BY <1>1 DEF Moves
<1> QED
  BY <1>1, <1>3, <1>4

\* What is remembered has been executed.
LEMMA AccessedKept ==
    ASSUME NEW p, WellFormed(p), Runs(p), NEW t \in DOMAIN p.code,
           Moves(p, t), AccessesAs(p, t), Accessed(p)
    PROVE  Accessed(p)'
<1> DEFINE c == Ins(p, t, pc[t])
           Good(x, a, q) == LET d == Ins(p, a.by, a.at)
                            IN  /\ a.at \in Points(p, a.by) /\ a.at < q
                                /\ d.loc = x /\ d.op \in AccessOps
                                /\ a.kind = KindOf(d.op) /\ a.plain = (d.order = "plain")
<1>1. ASSUME NEW x \in DOMAIN p.mem, NEW a \in accesses[x]
      PROVE  Good(x, a, pc'[a.by])
  <2>1. a.by \in DOMAIN p.code /\ a.at \in Nat
    BY DEF Runs
  <2>2. Good(x, a, pc[a.by])
    BY DEF Accessed
  <2>3. pc[a.by] \in Nat /\ pc'[a.by] \in Nat /\ pc'[a.by] >= pc[a.by]
    BY <2>1, Later
  <2> QED
    BY <2>1, <2>2, <2>3
<1>2. CASE accesses' = accesses
  BY <1>1, <1>2 DEF Accessed
<1>3. CASE accesses' # accesses
  <2>1. /\ pc[t] \in Points(p, t) /\ c.op \in AccessOps /\ Permitted(p, t, pc[t]) /\ Here(t) = c
        /\ pc'[t] > pc[t] /\ Access(t, KindOf(c.op))
    BY <1>3 DEF AccessesAs
  <2>2. c.loc \in DOMAIN p.mem
    BY <2>1 DEF Permitted
  <2>3. KindOf(c.op) \in {"read", "write", "free"}
    BY DEF KindOf
  <2> DEFINE b == [by |-> t, at |-> pc[t], kind |-> KindOf(c.op), plain |-> c.order = "plain"]
  <2>4. \A x \in DOMAIN p.mem : \A a \in accesses'[x] : a \in accesses[x] \/ (x = c.loc /\ a = b)
    BY <2>1, <2>2, <2>3, Remembers
  <2>5. Good(c.loc, b, pc'[b.by])
    BY <2>1
  <2>6. ASSUME NEW x \in DOMAIN p.mem, NEW a \in accesses'[x]
        PROVE  Good(x, a, pc'[a.by])
    <3> HIDE DEF Good, b, c
    <3> QED
      BY <1>1, <2>4, <2>5
  <2> QED
    BY <2>6 DEF Accessed
<1> QED
  BY <1>2, <1>3

\* Starting a thread orders it after what main() did.
LEMMA StartedKept ==
    ASSUME NEW p, WellFormed(p), Runs(p), Runs(p)', NEW t \in DOMAIN p.code, Moves(p, t), Started(p)
    PROVE  Started(p)'
<1> SUFFICES ASSUME NEW u \in DOMAIN p.code \ {Main}
             PROVE  IF pc'[u] = 0
                    THEN \A v \in DOMAIN p.code : know'[u].happened[v] = 0
                    ELSE \E j \in Points(p, Main) :
                            /\ Ins(p, Main, j).op = "start" /\ Ins(p, Main, j).thread = u
                            /\ pc'[Main] > j /\ know'[u].happened[Main] >= j
  BY DEF Started
<1>1. pc[u] \in Nat /\ pc'[u] \in Nat /\ pc'[u] >= pc[u]
  BY Later
<1>2. CASE pc[u] = 0 /\ pc'[u] = 0
  <2>1. pc'[u] = pc[u] /\ know'[u] = know[u]
    <3>1. CASE u = t
      <4>1. pc[t] \in Points(p, t) => Ins(p, t, pc[t]).skip \in Nat
        BY InstructionTypes DEF Instructions
      <4> QED
        BY <1>2, <3>1, <4>1 DEF Moves
    <3>2. CASE u # t
      BY <1>2, <3>2 DEF Moves
    <3> QED
      BY <3>1, <3>2
  <2> QED
    BY <1>2, <2>1 DEF Started
<1>3. CASE pc[u] = 0 /\ pc'[u] # 0
  <2>1. u # t
    <3>1. ASSUME u = t
          PROVE  pc'[u] = pc[u]
      <4>1. pc[u] \notin Points(p, u)
        BY <1>3, InstructionTypes DEF Points
      <4> QED
        BY <3>1, <4>1 DEF Moves
    <3> QED
      BY <1>3, <3>1
  <2>2. /\ t = Main /\ Ins(p, t, pc[t]).op = "start" /\ Ins(p, t, pc[t]).thread = u
        /\ pc'[Main] = pc[Main] + 1 /\ know'[u].happened[Main] >= pc[Main]
    BY <1>3, <2>1 DEF Moves
  <2>3. pc[Main] \in Nat /\ pc[Main] \in Points(p, Main)
    <3>1. pc[t] \in Nat
      BY DEF Runs
    <3>2. pc[t] \in Points(p, t)
      BY <2>2, <3>1 DEF Moves
    <3> QED
      BY <2>2, <3>1, <3>2
  <2> QED
    BY <1>3, <2>2, <2>3
<1>4. CASE pc[u] # 0
  <2>1. PICK j \in Points(p, Main) :
           /\ Ins(p, Main, j).op = "start" /\ Ins(p, Main, j).thread = u
           /\ pc[Main] > j /\ know[u].happened[Main] >= j
    BY <1>4 DEF Started
  <2>2. Main \in DOMAIN p.code
    <3>1. CASE Main \in DOMAIN p.code
      BY <3>1
    <3>2. CASE Main \notin DOMAIN p.code
      <4>1. p.code \in Seq(Seq(Instructions))
        BY DEF WellFormed
      <4>2. DOMAIN p.code = 1..Len(p.code) /\ Len(p.code) \in Nat
        BY <4>1
      <4>3. DOMAIN p.code = {}
        BY <3>2, <4>2 DEF Main
      <4> QED
        BY <4>3
    <3> QED
      BY <3>1, <3>2
  <2>3. pc[Main] \in Nat /\ pc'[Main] \in Nat /\ pc'[Main] >= pc[Main]
    BY <2>2, Later
  <2>4. know'[u] \in Knowledge(p) /\ know[u] \in Knowledge(p)
    BY DEF Runs
  <2>5. know'[u].happened[Main] \in Nat /\ know[u].happened[Main] \in Nat
    BY <2>2, <2>4 DEF Knowledge
  <2>6. know'[u].happened[Main] >= know[u].happened[Main]
    BY <2>2 DEF Moves, AtLeast
  <2>7. pc'[Main] > j /\ know'[u].happened[Main] >= j
    BY <2>1, <2>3, <2>5, <2>6 DEF Points
  <2> QED
    BY <1>1, <1>4, <2>1, <2>7
<1> QED
  BY <1>2, <1>3, <1>4

\* Joining a thread orders it before what main() does next.
LEMMA JoinedKept ==
    ASSUME NEW p, WellFormed(p), Runs(p), Runs(p)', NEW t \in DOMAIN p.code,
           Moves(p, t), Executes(p, t), Joined(p)
    PROVE  Joined(p)'
<1> SUFFICES ASSUME NEW u \in DOMAIN p.code, NEW j \in Points(p, Main),
                    Ins(p, Main, j).op = "join", Ins(p, Main, j).thread = u, Passed(p, Main, j),
                    pc'[Main] > j
             PROVE  pc'[u] > Len(p.code[u]) /\ know'[Main].happened[u] > Len(p.code[u])
  BY DEF Joined
<1>1. Len(p.code[u]) \in Nat /\ pc[u] \in Nat /\ pc'[u] \in Nat /\ pc'[u] >= pc[u] /\ j \in Nat
  BY Later, InstructionTypes DEF Points
<1>2. Main \in DOMAIN p.code
  BY DEF Points, WellFormed, Main
<1>3. pc[Main] \in Nat /\ pc'[Main] \in Nat
  BY <1>2, Later
<1>4. know'[Main] \in Knowledge(p) /\ know[Main] \in Knowledge(p)
  BY <1>2 DEF Runs
<1>5. know'[Main].happened[u] \in Nat /\ know[Main].happened[u] \in Nat
  BY <1>4 DEF Knowledge
<1>6. CASE pc[Main] > j
  <2>1. pc[u] > Len(p.code[u]) /\ know[Main].happened[u] > Len(p.code[u])
    BY <1>6 DEF Joined
  <2>2. know'[Main].happened[u] >= know[Main].happened[u]
    BY <1>2 DEF Moves, AtLeast
  <2> QED
    BY <1>1, <1>5, <2>1, <2>2
<1>7. CASE pc[Main] <= j
  <2>1. t = Main
    <3>1. CASE t # Main
      BY <1>1, <1>2, <1>3, <1>7, <3>1 DEF Moves
    <3> QED
      BY <3>1
  <2>2. pc[Main] = j
    <3>1. CASE pc'[Main] = pc[Main] \/ pc'[Main] = pc[Main] + 1
      BY <1>1, <1>3, <1>7, <3>1
    <3>2. CASE pc[Main] \in Points(p, Main) /\ Ins(p, Main, pc[Main]).op = "load"
               /\ pc'[Main] = pc[Main] + 1 + Ins(p, Main, pc[Main]).skip
      <4>1. Ins(p, Main, pc[Main]).skip \in Nat
        BY <1>2, <3>2, InstructionTypes DEF Instructions
      <4>2. j <= pc[Main] + Ins(p, Main, pc[Main]).skip
        BY <1>1, <1>3, <3>2, <4>1
      <4>3. ~(pc[Main] < j)
        BY <3>2, <4>2 DEF Passed
      <4> QED
        BY <1>1, <1>3, <1>7, <4>3
    <3> QED
      BY <2>1, <3>1, <3>2 DEF Moves
  <2>3. pc[u] > Len(p.code[u]) /\ know'[Main].happened[u] >= pc[u]
    BY <1>3, <2>1, <2>2 DEF Executes
  <2> QED
    BY <1>1, <1>5, <2>3
<1> QED
  BY <1>1, <1>3, <1>6, <1>7

\* A flag is stored once, with what its writer knows.
LEMMA FlagStoredKept ==
    ASSUME NEW p, WellFormed(p), Runs(p), Runs(p)', NEW v \in DOMAIN p.code,
           Moves(p, v), Executes(p, v), FlagStored(p)
    PROVE  FlagStored(p)'
<1> SUFFICES ASSUME NEW f \in DOMAIN p.mem, NEW t \in DOMAIN p.code, NEW j \in Points(p, t),
                    Publishes(p, t, j, f), NEW n \in 1..Len(mem'[f])
             PROVE  \/ mem'[f][n].value = p.mem[f]
                    \/ mem'[f][n].know.happened[t] >= j /\ pc'[t] > j
  BY DEF FlagStored
<1> DEFINE c == Ins(p, v, pc[v])
<1>1. pc[t] \in Nat /\ pc'[t] \in Nat /\ pc'[t] >= pc[t] /\ j \in Nat /\ pc[v] \in Nat
  BY Later DEF Points
<1>2. mem[f] \in Seq(Entries(p)) /\ mem \in [DOMAIN p.mem -> Seq(Entries(p))]
  BY DEF Runs
<1>3. CASE n \in 1..Len(mem[f]) /\ mem'[f][n] = mem[f][n]
  <2>1. \/ mem[f][n].value = p.mem[f]
        \/ mem[f][n].know.happened[t] >= j /\ pc[t] > j
    BY <1>3 DEF FlagStored
  <2> QED
    BY <1>1, <1>3, <2>1
<1>4. CASE ~(n \in 1..Len(mem[f]) /\ mem'[f][n] = mem[f][n])
  <2>1. /\ pc[v] \in Points(p, v) /\ c.op \in WriteOps /\ c.loc \in DOMAIN p.mem /\ pc'[v] = pc[v] + 1
        /\ \E e : WritesEntry(p, v, e)
    BY <1>4 DEF Executes
  <2>2. PICK e \in Entries(p) :
           /\ mem' = [mem EXCEPT ![c.loc] = Append(mem[c.loc], e)]
           /\ Releases(c.order) => e.know.happened[v] >= pc[v]
    BY <2>1 DEF WritesEntry
  <2> HIDE DEF c
  <2>3. c.loc = f /\ mem'[f] = Append(mem[f], e)
    BY <1>2, <1>4, <2>2
  <2>4. mem'[f][n] = e
    BY <1>2, <1>4, <2>3
  <2>5. v = t /\ pc[v] = j /\ Releases(c.order)
    <3>1. v = t /\ pc[v] = j
      BY <2>1, <2>3 DEF Publishes, c
    <3> QED
      BY <3>1 DEF Publishes, c
  <2> QED
    BY <1>1, <2>1, <2>2, <2>4, <2>5
<1> QED
  BY <1>3, <1>4

\* t only passes an instruction that no branch leads past when it executes it.
LEMMA Passes ==
    ASSUME NEW p, WellFormed(p), Runs(p), NEW t \in DOMAIN p.code, Moves(p, t),
           NEW u \in DOMAIN p.code, NEW n \in Points(p, u), Passed(p, u, n),
           pc[u] <= n, pc'[u] > n
    PROVE  u = t /\ pc[u] = n /\ pc'[t] # pc[t]
<1>1. pc[u] \in Nat /\ n \in Nat /\ n > 0
  BY DEF Runs, Points
<1>2. u = t
  <2>1. CASE u # t
    BY <1>1, <2>1 DEF Moves
  <2> QED
    BY <2>1
<1>3. pc[u] = n
  <2>1. CASE pc'[u] = pc[u] \/ pc'[u] = pc[u] + 1
    BY <1>1, <2>1
  <2>2. CASE pc[u] \in Points(p, u) /\ Ins(p, u, pc[u]).op = "load"
             /\ pc'[u] = pc[u] + 1 + Ins(p, u, pc[u]).skip
    <3>1. Ins(p, u, pc[u]).skip \in Nat
      BY <2>2, InstructionTypes DEF Instructions
    <3>2. n <= pc[u] + Ins(p, u, pc[u]).skip
      BY <1>1, <2>2, <3>1
    <3>3. ~(pc[u] < n)
      BY <2>2, <3>2 DEF Passed
    <3> QED
      BY <1>1, <3>3
  <2> QED
    BY <1>2, <2>1, <2>2 DEF Moves
<1> QED
  BY <1>1, <1>2, <1>3

\* Awaiting a flag orders it after what its writer did.
LEMMA FlagSeenKept ==
    ASSUME NEW p, WellFormed(p), Runs(p), Runs(p)', NEW v \in DOMAIN p.code,
           Moves(p, v), Executes(p, v), FlagStored(p), FlagSeen(p)
    PROVE  FlagSeen(p)'
<1> SUFFICES ASSUME NEW f \in DOMAIN p.mem, NEW t \in DOMAIN p.code, NEW u \in DOMAIN p.code,
                    NEW j \in Points(p, t), NEW n \in Points(p, u),
                    Publishes(p, t, j, f), AwaitsFlag(p, u, n, f), pc'[u] > n
             PROVE  know'[u].happened[t] >= j /\ pc'[t] > j
  BY DEF FlagSeen
<1>1. /\ pc[t] \in Nat /\ pc'[t] \in Nat /\ pc'[t] >= pc[t] /\ j \in Nat
      /\ pc[u] \in Nat /\ n \in Nat
  BY Later DEF Points
<1>2. know'[u] \in Knowledge(p) /\ know[u] \in Knowledge(p)
  BY DEF Runs
<1>3. know'[u].happened[t] \in Nat /\ know[u].happened[t] \in Nat
  BY <1>2 DEF Knowledge
<1>4. CASE pc[u] > n
  <2>1. know[u].happened[t] >= j /\ pc[t] > j
    BY <1>4 DEF FlagSeen
  <2>2. know'[u].happened[t] >= know[u].happened[t]
    BY DEF Moves, AtLeast
  <2> QED
    BY <1>1, <1>3, <2>1, <2>2
<1>5. CASE pc[u] <= n
  <2>1. u = v /\ pc[u] = n /\ pc'[v] # pc[v]
    BY <1>5, Passes DEF AwaitsFlag
  <2>2. PICK i \in 1..Len(mem[f]) : /\ mem[f][i].value \notin Ins(p, u, n).values
                                    /\ AtLeast(p, know'[u], mem[f][i].know)
    BY <2>1 DEF Executes, AwaitsFlag, ReadsValue, ReadOps
  <2>3. mem[f][i].value # p.mem[f]
    BY <2>2 DEF AwaitsFlag
  <2>4. mem[f][i].know.happened[t] >= j /\ pc[t] > j
    BY <2>3 DEF FlagStored
  <2>5. know'[u].happened[t] >= mem[f][i].know.happened[t]
    BY <2>2 DEF AtLeast
  <2>6. mem[f][i].know.happened[t] \in Nat
    <3>1. mem[f] \in Seq(Entries(p))
      BY DEF Runs
    <3>2. mem[f][i] \in Entries(p)
      BY <3>1
    <3>3. mem[f][i].know \in Knowledge(p)
      BY <3>2 DEF Entries
    <3> QED
      BY <3>3 DEF Knowledge
  <2> QED
    BY <1>1, <1>3, <2>4, <2>5, <2>6
<1> QED
  BY <1>1, <1>4, <1>5

-----------------------------------------------------------------------------
(* Locks *)

\* Who is between the two after an instruction was before, or it is the first.
LEMMA Entered ==
    ASSUME NEW p, WellFormed(p), NEW t \in DOMAIN p.code, NEW i \in Points(p, t),
           NEW m, NEW lock, NEW unlock, Between(p, t, i + 1, m, lock, unlock)
    PROVE  \/ Ins(p, t, i).op = lock /\ Ins(p, t, i).loc = m
           \/ /\ Between(p, t, i, m, lock, unlock)
              /\ ~(Ins(p, t, i).op = unlock /\ Ins(p, t, i).loc = m)
<1>1. \A k \in Points(p, t) : k \in Nat
  BY DEF Points
<1>2. PICK j \in Points(p, t) :
         /\ j < i + 1 /\ Ins(p, t, j).op = lock /\ Ins(p, t, j).loc = m
         /\ \A k \in Points(p, t) : j < k /\ k < i + 1 => ~(Ins(p, t, k).op = unlock /\ Ins(p, t, k).loc = m)
  BY DEF Between
<1>3. CASE j = i
  BY <1>2, <1>3
<1>4. CASE j # i
  <2>1. j < i
    BY <1>1, <1>2, <1>4
  <2>2. ~(Ins(p, t, i).op = unlock /\ Ins(p, t, i).loc = m)
    BY <1>1, <1>2, <2>1
  <2>3. \A k \in Points(p, t) : j < k /\ k < i => ~(Ins(p, t, k).op = unlock /\ Ins(p, t, k).loc = m)
    BY <1>1, <1>2
  <2> QED
    BY <1>2, <2>1, <2>2, <2>3 DEF Between
<1> QED
  BY <1>3, <1>4

\* A critical section is entered by locking, and left by unlocking.
LEMMA Enters ==
    ASSUME NEW p, WellFormed(p), Runs(p), NEW t \in DOMAIN p.code, Moves(p, t),
           NEW v \in DOMAIN p.code, NEW m \in p.locks
    PROVE  LET c == Ins(p, t, pc[t])
               Does(op) == v = t /\ pc'[t] # pc[t] /\ c.op = op /\ c.loc = m
           IN  /\ Alone(p, v, pc'[v], m) =>
                     Does("lock") \/ (Alone(p, v, pc[v], m) /\ ~Does("unlock"))
               /\ Sharing(p, v, pc'[v], m) =>
                     Does("lockShared") \/ (Sharing(p, v, pc[v], m) /\ ~Does("unlockShared"))
<1> DEFINE c == Ins(p, t, pc[t])
<1>1. pc[v] \in Nat /\ pc[t] \in Nat
  BY DEF Runs
<1>2. CASE v # t
  <2>1. CASE pc'[v] = pc[v]
    BY <1>2, <2>1
  <2>2. CASE pc'[v] = 1
    BY <2>2 DEF Alone, Sharing, Between, Points
  <2> QED
    BY <1>2, <2>1, <2>2 DEF Moves
<1>3. CASE v = t
  <2>1. CASE pc'[t] = pc[t]
    BY <1>3, <2>1
  <2>2. CASE pc[t] \in Points(p, t) /\ pc'[t] = pc[t] + 1
    <3>1. Alone(p, t, pc[t] + 1, m) =>
             \/ c.op = "lock" /\ c.loc = m
             \/ Alone(p, t, pc[t], m) /\ ~(c.op = "unlock" /\ c.loc = m)
      BY <2>2, Entered DEF Alone
    <3>2. Sharing(p, t, pc[t] + 1, m) =>
             \/ c.op = "lockShared" /\ c.loc = m
             \/ Sharing(p, t, pc[t], m) /\ ~(c.op = "unlockShared" /\ c.loc = m)
      BY <2>2, Entered DEF Sharing
    <3> HIDE DEF c
    <3> QED
      BY <1>1, <1>3, <2>2, <3>1, <3>2 DEF c
  <2>3. CASE pc[t] \in Points(p, t) /\ c.op = "load" /\ pc'[t] = pc[t] + 1 + c.skip
    <3>1. Permitted(p, t, pc[t])
      BY <2>3, InstructionTypes
    <3>2. /\ Alone(p, t, pc[t] + 1 + c.skip, m) => Alone(p, t, pc[t], m)
          /\ Sharing(p, t, pc[t] + 1 + c.skip, m) => Sharing(p, t, pc[t], m)
      BY <2>3, <3>1 DEF Permitted
    <3> HIDE DEF c
    <3> QED
      BY <1>3, <2>3, <3>2 DEF c
  <2> QED
    BY <2>1, <2>2, <2>3 DEF Moves
<1> QED
  BY <1>2, <1>3

\* What a step does to one mutex.
LEMMA MutexEffects ==
    ASSUME NEW p, WellFormed(p), Runs(p), NEW t \in DOMAIN p.code, LocksAs(p, t), NEW m \in p.locks
    PROVE  \/ MutexStays(p, t, m) \/ MutexTaken(p, t, m) \/ MutexGiven(p, t, m)
           \/ MutexJoined(p, t, m) \/ MutexLeft(p, t, m)
<1> DEFINE l == Ins(p, t, pc[t]).loc
<1>1. CASE l # m /\ OnlyOn(p, l)
  BY <1>1 DEF OnlyOn, MutexStays
<1>2. CASE LocksExclusive(t)
  <2>1. OnlyOn(p, l) /\ MutexTaken(p, t, l)
    BY <1>2, TakesLock
  <2> HIDE DEF l
  <2> QED
    BY <1>1, <2>1
<1>3. CASE UnlocksExclusive(t)
  <2>1. OnlyOn(p, l) /\ MutexGiven(p, t, l)
    BY <1>3, GivesLock
  <2> HIDE DEF l
  <2> QED
    BY <1>1, <2>1
<1>4. CASE LocksShared(t)
  <2>1. OnlyOn(p, l) /\ MutexJoined(p, t, l)
    BY <1>4, JoinsReaders
  <2> HIDE DEF l
  <2> QED
    BY <1>1, <2>1
<1>5. CASE UnlocksShared(t)
  <2>1. OnlyOn(p, l) /\ MutexLeft(p, t, l)
    BY <1>5, LeavesReaders
  <2> HIDE DEF l
  <2> QED
    BY <1>1, <2>1
<1>6. CASE /\ mutex' = mutex
           /\ pc'[t] = pc[t] \/ Ins(p, t, pc[t]).op \notin {"lock", "unlock", "lockShared", "unlockShared"}
  BY <1>6 DEF MutexStays
<1> QED
  BY <1>2, <1>3, <1>4, <1>5, <1>6 DEF LocksAs

\* Who is in a critical section holds its lock.
LEMMA HoldsLockKept ==
    ASSUME NEW p, WellFormed(p), Runs(p), NEW t \in DOMAIN p.code,
           Moves(p, t), LocksAs(p, t), HoldsLock(p)
    PROVE  HoldsLock(p)'
<1> DEFINE Holds(l, v, alone, sharing) == (alone => v \in l.writer) /\ (sharing => v \in l.readers)
           c == Ins(p, t, pc[t])
           Does(v, m, op) == v = t /\ pc'[t] # pc[t] /\ c.op = op /\ c.loc = m
<1> SUFFICES ASSUME NEW m \in p.locks
             PROVE  /\ mutex'[m].writer = {} \/ mutex'[m].readers = {}
                    /\ \A v, u \in mutex'[m].writer : v = u
                    /\ \A v \in DOMAIN p.code :
                          Holds(mutex'[m], v, Alone(p, v, pc'[v], m), Sharing(p, v, pc'[v], m))
  BY DEF HoldsLock
<1>1. /\ mutex[m].writer = {} \/ mutex[m].readers = {}
      /\ \A v, u \in mutex[m].writer : v = u
      /\ \A v \in DOMAIN p.code : /\ Alone(p, v, pc[v], m) => v \in mutex[m].writer
                                  /\ Sharing(p, v, pc[v], m) => v \in mutex[m].readers
  BY DEF HoldsLock
<1>2. ASSUME NEW v \in DOMAIN p.code
      PROVE  /\ Alone(p, v, pc'[v], m) =>
                    Does(v, m, "lock") \/ (Alone(p, v, pc[v], m) /\ ~Does(v, m, "unlock"))
             /\ Sharing(p, v, pc'[v], m) =>
                    Does(v, m, "lockShared") \/ (Sharing(p, v, pc[v], m) /\ ~Does(v, m, "unlockShared"))
  BY Enters
<1> HIDE DEF c
<1>3. CASE MutexStays(p, t, m)
  BY <1>1, <1>2, <1>3 DEF MutexStays, c
<1>4. CASE MutexTaken(p, t, m)
  <2>1. ASSUME NEW v \in DOMAIN p.code
        PROVE  ~Alone(p, v, pc[v], m) /\ ~Sharing(p, v, pc[v], m)
    BY <1>1, <1>4 DEF MutexTaken
  <2> QED
    BY <1>2, <1>4, <2>1 DEF MutexTaken, c
<1>5. CASE MutexGiven(p, t, m)
  BY <1>1, <1>2, <1>5 DEF MutexGiven, c
<1>6. CASE MutexJoined(p, t, m)
  BY <1>1, <1>2, <1>6 DEF MutexJoined, c
<1>7. CASE MutexLeft(p, t, m)
  BY <1>1, <1>2, <1>7 DEF MutexLeft, c
<1> QED
  BY <1>3, <1>4, <1>5, <1>6, <1>7, MutexEffects

\* One who knows more than another one knows more than what that one knows.
LEMMA AtLeastTrans ==
    ASSUME NEW p, NEW k \in Knowledge(p), NEW l \in Knowledge(p), NEW n \in Knowledge(p),
           AtLeast(p, k, l), AtLeast(p, l, n)
    PROVE  AtLeast(p, k, n)
<1>1. /\ k.happened \in [DOMAIN p.code -> Nat] /\ l.happened \in [DOMAIN p.code -> Nat]
      /\ n.happened \in [DOMAIN p.code -> Nat]
  BY DEF Knowledge
<1>2. ASSUME NEW v \in DOMAIN p.code PROVE k.happened[v] >= n.happened[v]
  <2>1. k.happened[v] \in Nat /\ l.happened[v] \in Nat /\ n.happened[v] \in Nat
    BY <1>1
  <2>2. k.happened[v] >= l.happened[v] /\ l.happened[v] >= n.happened[v]
    BY DEF AtLeast
  <2> QED
    BY <2>1, <2>2
<1> QED
  BY <1>2 DEF AtLeast

\* Who holds a lock knows what was published with it.
LEMMA HolderKnowsKept ==
    ASSUME NEW p, WellFormed(p), Runs(p), Runs(p)', NEW t \in DOMAIN p.code,
           Moves(p, t), LocksAs(p, t), HoldsLock(p), HolderKnows(p)
    PROVE  HolderKnows(p)'
<1> SUFFICES ASSUME NEW m \in p.locks
             PROVE  /\ \A v \in mutex'[m].writer  : /\ AtLeast(p, know'[v], mutex'[m].written)
                                                    /\ AtLeast(p, know'[v], mutex'[m].read)
                    /\ \A v \in mutex'[m].readers : AtLeast(p, know'[v], mutex'[m].written)
  BY DEF HolderKnows
<1>1. mutex[m] \in LockStates(p) /\ mutex'[m] \in LockStates(p)
  BY DEF Runs
<1>2. /\ mutex[m].writer \in SUBSET DOMAIN p.code /\ mutex[m].readers \in SUBSET DOMAIN p.code
      /\ mutex[m].written \in Knowledge(p) /\ mutex[m].read \in Knowledge(p)
      /\ mutex'[m].written \in Knowledge(p) /\ mutex'[m].read \in Knowledge(p)
  BY <1>1 DEF LockStates
<1>3. /\ mutex[m].writer = {} \/ mutex[m].readers = {}
      /\ \A v, u \in mutex[m].writer : v = u
      /\ Alone(p, t, pc[t], m) => t \in mutex[m].writer
      /\ Sharing(p, t, pc[t], m) => t \in mutex[m].readers
  BY DEF HoldsLock
<1>4. /\ \A v \in mutex[m].writer  : AtLeast(p, know'[v], mutex[m].written) /\ AtLeast(p, know'[v], mutex[m].read)
      /\ \A v \in mutex[m].readers : AtLeast(p, know'[v], mutex[m].written)
  <2>1. \A v \in DOMAIN p.code : /\ know[v] \in Knowledge(p) /\ know'[v] \in Knowledge(p)
                                 /\ AtLeast(p, know'[v], know[v])
    BY DEF Runs, Moves
  <2>2. /\ \A v \in mutex[m].writer  : AtLeast(p, know[v], mutex[m].written) /\ AtLeast(p, know[v], mutex[m].read)
        /\ \A v \in mutex[m].readers : AtLeast(p, know[v], mutex[m].written)
    BY DEF HolderKnows
  <2> QED
    BY <1>2, <2>1, <2>2, AtLeastTrans
<1>5. CASE MutexStays(p, t, m)
  BY <1>4, <1>5 DEF MutexStays
<1>6. CASE MutexTaken(p, t, m)
  BY <1>6 DEF MutexTaken
<1>7. CASE MutexGiven(p, t, m)
  BY <1>3, <1>7 DEF MutexGiven
<1>8. CASE MutexJoined(p, t, m)
  BY <1>4, <1>8 DEF MutexJoined
<1>9. CASE MutexLeft(p, t, m)
  BY <1>3, <1>4, <1>9 DEF MutexLeft
<1> QED
  BY <1>5, <1>6, <1>7, <1>8, <1>9, MutexEffects

\* An access made under a lock is published when the lock is given back.
LEMMA PublishedKept ==
    ASSUME NEW p, WellFormed(p), Runs(p), Runs(p)', NEW t \in DOMAIN p.code,
           Moves(p, t), LocksAs(p, t), AccessesAs(p, t), Accessed(p),
           HoldsLock(p), HolderKnows(p), Published(p)
    PROVE  Published(p)'
<1> SUFFICES ASSUME NEW x \in DOMAIN p.mem, NEW a \in accesses'[x], NEW m \in p.locks
             PROVE  /\ Alone(p, a.by, a.at, m) =>
                          a.by \in mutex'[m].writer \/ a.at <= mutex'[m].written.happened[a.by]
                    /\ Sharing(p, a.by, a.at, m) =>
                          \/ a.by \in mutex'[m].readers
                          \/ a.at <= mutex'[m].written.happened[a.by]
                          \/ a.at <= mutex'[m].read.happened[a.by]
  BY DEF Published
<1> DEFINE c == Ins(p, t, pc[t])
           v == a.by
<1>1. mutex[m] \in LockStates(p) /\ mutex'[m] \in LockStates(p)
  BY DEF Runs
<1>2. /\ mutex[m].writer \in SUBSET DOMAIN p.code /\ mutex[m].readers \in SUBSET DOMAIN p.code
      /\ mutex[m].written \in Knowledge(p) /\ mutex[m].read \in Knowledge(p)
      /\ mutex'[m].written \in Knowledge(p) /\ mutex'[m].read \in Knowledge(p)
  BY <1>1 DEF LockStates
<1>3. /\ mutex[m].writer = {} \/ mutex[m].readers = {}
      /\ \A u, w \in mutex[m].writer : u = w
      /\ Alone(p, t, pc[t], m) => t \in mutex[m].writer
      /\ Sharing(p, t, pc[t], m) => t \in mutex[m].readers
  BY DEF HoldsLock
<1>4. CASE a \notin accesses[x]
  <2>1. /\ c.op \in AccessOps /\ Permitted(p, t, pc[t]) /\ Here(t) = c
        /\ mutex' = mutex /\ Access(t, KindOf(c.op))
    BY <1>4 DEF AccessesAs
  <2>2. c.loc \in DOMAIN p.mem
    BY <2>1 DEF Permitted
  <2>3. KindOf(c.op) \in {"read", "write", "free"}
    BY DEF KindOf
  <2>4. a.by = t /\ a.at = pc[t]
    BY <1>4, <2>1, <2>2, <2>3, Remembers
  <2> QED
    BY <1>3, <2>1, <2>4
<1>5. CASE a \in accesses[x]
  <2>1. a.by \in DOMAIN p.code /\ a.at \in Nat
    BY <1>5 DEF Runs
  <2>2. /\ mutex[m].written.happened[v] \in Nat /\ mutex[m].read.happened[v] \in Nat
        /\ mutex'[m].written.happened[v] \in Nat /\ mutex'[m].read.happened[v] \in Nat
    BY <1>2, <2>1 DEF Knowledge
  <2>3. /\ Alone(p, v, a.at, m) =>
              v \in mutex[m].writer \/ a.at <= mutex[m].written.happened[v]
        /\ Sharing(p, v, a.at, m) =>
              \/ v \in mutex[m].readers
              \/ a.at <= mutex[m].written.happened[v] \/ a.at <= mutex[m].read.happened[v]
    BY <1>5 DEF Published
  <2>4. a.at < pc[v] /\ pc[v] \in Nat
    BY <1>5, <2>1 DEF Accessed, Runs
  <2>5. CASE MutexStays(p, t, m)
    BY <2>3, <2>5 DEF MutexStays
  <2>6. CASE MutexTaken(p, t, m)
    BY <2>3, <2>6 DEF MutexTaken
  <2>7. CASE MutexGiven(p, t, m)
    <3>1. t \in mutex[m].writer
      BY <1>3, <2>7 DEF MutexGiven
    <3>2. know[t].happened[v] >= mutex[m].written.happened[v]
      BY <2>1, <3>1 DEF HolderKnows, AtLeast
    <3>3. know[t] \in Knowledge(p)
      BY DEF Runs
    <3>4. know[t].happened \in [DOMAIN p.code -> Nat]
      BY <3>3 DEF Knowledge
    <3>5. mutex'[m].written.happened[v] = IF v = t THEN pc[t] ELSE know[t].happened[v]
      BY <2>1, <2>7, <3>4 DEF MutexGiven
    <3>6. v \in mutex[m].writer => v = t
      BY <1>3, <3>1
    <3>7. mutex'[m].readers = mutex[m].readers /\ mutex'[m].read = mutex[m].read
      BY <2>7 DEF MutexGiven
    <3>8. know[t].happened[v] \in Nat
      BY <2>1, <3>4
    <3> HIDE DEF v
    <3>9. v = t \/ a.at <= mutex[m].written.happened[v] => a.at <= mutex'[m].written.happened[v]
      BY <2>1, <2>2, <2>4, <3>2, <3>5, <3>8
    <3> QED
      BY <2>3, <3>6, <3>7, <3>9 DEF v
  <2>8. CASE MutexJoined(p, t, m)
    BY <2>3, <2>8 DEF MutexJoined
  <2>9. CASE MutexLeft(p, t, m)
    <3>1. /\ mutex'[m].writer = mutex[m].writer /\ mutex'[m].written = mutex[m].written
          /\ v # t /\ v \in mutex[m].readers => v \in mutex'[m].readers
      BY <2>9 DEF MutexLeft
    <3>2. v = t => a.at <= mutex'[m].read.happened[v]
      BY <2>1, <2>2, <2>4, <2>9 DEF MutexLeft
    <3>3. mutex'[m].read.happened[v] >= mutex[m].read.happened[v]
      BY <2>1, <2>9 DEF MutexLeft
    <3> HIDE DEF v
    <3>4. a.at <= mutex[m].read.happened[v] => a.at <= mutex'[m].read.happened[v]
      BY <2>1, <2>2, <3>3
    <3> QED
      BY <2>3, <3>1, <3>2, <3>4 DEF v
  <2> QED
    BY <2>5, <2>6, <2>7, <2>8, <2>9, MutexEffects
<1> QED
  BY <1>4, <1>5

-----------------------------------------------------------------------------
(* Spin locks *)

\* An object stays as it is, or gets a new last value.
Unwritten(p, t, x) ==
    LET c == Ins(p, t, pc[t])
    IN  mem'[x] = mem[x] /\ ~(c.op \in WriteOps /\ c.loc = x /\ pc'[t] # pc[t])

Written(p, t, x, e) ==
    LET c == Ins(p, t, pc[t])
    IN  /\ pc[t] \in Points(p, t) /\ c.op \in WriteOps /\ c.loc = x /\ pc'[t] = pc[t] + 1
        /\ WritesEntry(p, t, e) /\ mem'[x] = Append(mem[x], e)
        /\ Len(mem'[x]) = Len(mem[x]) + 1 /\ mem'[x][Len(mem'[x])] = e
        /\ \A n \in 1..Len(mem[x]) : mem'[x][n] = mem[x][n]

LEMMA ObjectWritten ==
    ASSUME NEW p, Runs(p), NEW t \in DOMAIN p.code, Executes(p, t), NEW x \in DOMAIN p.mem
    PROVE  Unwritten(p, t, x) \/ \E e : Written(p, t, x, e)
<1> DEFINE c == Ins(p, t, pc[t])
<1>1. mem[x] \in Seq(Entries(p)) /\ mem \in [DOMAIN p.mem -> Seq(Entries(p))] /\ pc[t] \in Nat
  BY DEF Runs
<1>2. CASE mem' = mem /\ (c.op \notin WriteOps \/ pc'[t] = pc[t])
  BY <1>2 DEF Unwritten
<1>3. CASE /\ pc[t] \in Points(p, t) /\ c.op \in WriteOps /\ c.loc \in DOMAIN p.mem
           /\ pc'[t] = pc[t] + 1 /\ \E e : WritesEntry(p, t, e)
  <2>1. PICK e : WritesEntry(p, t, e)
    BY <1>3
  <2>2. e \in Entries(p) /\ mem' = [mem EXCEPT ![c.loc] = Append(mem[c.loc], e)]
    BY <2>1 DEF WritesEntry
  <2> HIDE DEF c
  <2>3. CASE c.loc = x
    <3>1. mem'[x] = Append(mem[x], e)
      BY <1>1, <1>3, <2>2, <2>3
    <3>2. /\ Len(mem'[x]) = Len(mem[x]) + 1 /\ mem'[x][Len(mem[x]) + 1] = e
          /\ \A n \in 1..Len(mem[x]) : mem'[x][n] = mem[x][n]
      BY <1>1, <2>2, <3>1
    <3> QED
      BY <1>3, <2>1, <2>3, <3>1, <3>2 DEF Written, c
  <2>4. CASE c.loc # x
    BY <1>1, <1>3, <2>2, <2>4 DEF Unwritten, c
  <2> QED
    BY <2>3, <2>4
<1> QED
  BY <1>2, <1>3 DEF Executes

\* What was last written to an object.
LEMMA LastEntry ==
    ASSUME NEW p, Runs(p), NEW x \in DOMAIN p.mem, NEW n \in 1..Len(mem[x])
    PROVE  /\ Len(mem[x]) \in Nat /\ Len(mem[x]) > 0
           /\ mem[x][n] \in Entries(p) /\ mem[x][n].know \in Knowledge(p)
           /\ \A v \in DOMAIN p.code : mem[x][n].know.happened[v] \in Nat
<1>1. mem[x] \in Seq(Entries(p)) /\ Len(mem[x]) > 0
  BY DEF Runs
<1>2. mem[x][n] \in Entries(p)
  BY <1>1
<1>3. mem[x][n].know \in Knowledge(p)
  BY <1>2 DEF Entries
<1> QED
  BY <1>1, <1>2, <1>3 DEF Knowledge

\* What a thread knows has happened are times.
LEMMA KnownTimes ==
    ASSUME NEW p, Runs(p), NEW t \in DOMAIN p.code
    PROVE  /\ \A v \in DOMAIN p.code : know[t].happened[v] \in Nat
           /\ \A x \in DOMAIN p.mem : know[t].seen[x] \in Nat
<1>1. know[t] \in Knowledge(p)
  BY DEF Runs
<1> QED
  BY <1>1 DEF Knowledge

\* Who is between the two stays there until the second one.
LEMMA StaysBetween ==
    ASSUME NEW p, WellFormed(p), NEW t \in DOMAIN p.code, NEW i \in Points(p, t),
           NEW m, NEW lock, NEW unlock, Between(p, t, i, m, lock, unlock),
           ~(Ins(p, t, i).op = unlock /\ Ins(p, t, i).loc = m)
    PROVE  Between(p, t, i + 1, m, lock, unlock)
<1>1. \A k \in Points(p, t) : k \in Nat
  BY DEF Points
<1>2. PICK j \in Points(p, t) :
         /\ j < i /\ Ins(p, t, j).op = lock /\ Ins(p, t, j).loc = m
         /\ \A k \in Points(p, t) : j < k /\ k < i => ~(Ins(p, t, k).op = unlock /\ Ins(p, t, k).loc = m)
  BY DEF Between
<1>3. \A k \in Points(p, t) : j < k /\ k < i + 1 => ~(Ins(p, t, k).op = unlock /\ Ins(p, t, k).loc = m)
  <2> SUFFICES ASSUME NEW k \in Points(p, t), j < k, k < i + 1
               PROVE  ~(Ins(p, t, k).op = unlock /\ Ins(p, t, k).loc = m)
    OBVIOUS
  <2>1. k < i \/ k = i
    BY <1>1
  <2> QED
    BY <1>2, <2>1
<1>4. j < i + 1
  BY <1>1, <1>2
<1> QED
  BY <1>2, <1>3, <1>4 DEF Between

\* A spin lock is taken by exchanging it, and given back by storing it.
LEMMA SpinsFrom ==
    ASSUME NEW p, WellFormed(p), Runs(p), NEW t \in DOMAIN p.code, Moves(p, t),
           NEW v \in DOMAIN p.code, NEW f \in DOMAIN p.mem, SpinLock(p, f)
    PROVE  LET c == Ins(p, t, pc[t])
               Does(op) == v = t /\ pc'[t] # pc[t] /\ c.op = op /\ c.loc = f
           IN  /\ Spins(p, v, pc'[v], f) => Does("modify") \/ (Spins(p, v, pc[v], f) /\ ~Does("store"))
               /\ Spins(p, v, pc[v], f) => Spins(p, v, pc'[v], f) \/ Does("store")
<1> DEFINE c == Ins(p, t, pc[t])
<1>1. pc[v] \in Nat /\ pc[t] \in Nat
  BY DEF Runs
<1>2. CASE v # t
  <2>1. CASE pc'[v] = pc[v]
    BY <1>2, <2>1
  <2>2. CASE pc[v] = 0 /\ pc'[v] = 1
    BY <2>2 DEF Spins, Between, Points
  <2> QED
    BY <1>2, <2>1, <2>2 DEF Moves
<1>3. CASE v = t
  <2>1. CASE pc'[t] = pc[t]
    BY <1>3, <2>1
  <2>2. CASE pc[t] \in Points(p, t) /\ pc'[t] = pc[t] + 1
    <3>1. Spins(p, t, pc[t] + 1, f) =>
             \/ c.op = "modify" /\ c.loc = f
             \/ Spins(p, t, pc[t], f) /\ ~(c.op = "store" /\ c.loc = f)
      BY <2>2, Entered DEF Spins
    <3>2. Spins(p, t, pc[t], f) => Spins(p, t, pc[t] + 1, f) \/ (c.op = "store" /\ c.loc = f)
      BY <2>2, StaysBetween DEF Spins
    <3> HIDE DEF c
    <3> QED
      BY <1>1, <1>3, <2>2, <3>1, <3>2 DEF c
  <2>3. CASE pc[t] \in Points(p, t) /\ c.op = "load" /\ pc'[t] = pc[t] + 1 + c.skip
    <3>1. Spins(p, t, pc[t] + 1 + c.skip, f) <=> Spins(p, t, pc[t], f)
      BY <2>3 DEF SpinLock
    <3> HIDE DEF c
    <3> QED
      BY <1>3, <2>3, <3>1 DEF c
  <2> QED
    BY <2>1, <2>2, <2>3 DEF Moves
<1> QED
  BY <1>2, <1>3

\* Who writes a spin lock takes it when it is free, or has it and gives it back.
LEMMA SpinWritten ==
    ASSUME NEW p, WellFormed(p), Runs(p), NEW t \in DOMAIN p.code, NEW f \in DOMAIN p.mem,
           SpinLock(p, f), SpinsAlone(p), NEW e, Written(p, t, f, e)
    PROVE  LET c    == Ins(p, t, pc[t])
               last == mem[f][Len(mem[f])]
           IN  \/ /\ c.op = "modify" /\ e.value = 1 /\ AtLeast(p, e.know, last.know)
                  /\ \A v \in DOMAIN p.code : ~Spins(p, v, pc[v], f)
                  /\ \A v \in DOMAIN p.code \ {t} : know'[t].happened[v] >= e.know.happened[v]
               \/ /\ c.op = "store" /\ e.value = 0 /\ Spins(p, t, pc[t], f)
                  /\ \A v \in DOMAIN p.code : Spins(p, v, pc[v], f) => v = t
                  /\ e.know.happened[t] >= pc[t]
                  /\ \A v \in DOMAIN p.code \ {t} : e.know.happened[v] >= last.know.happened[v]
<1> DEFINE c    == Ins(p, t, pc[t])
           last == mem[f][Len(mem[f])]
<1>1. pc[t] \in Points(p, t) /\ c.op \in WriteOps /\ c.loc = f /\ WritesEntry(p, t, e)
  BY DEF Written
<1>2. /\ last.value \in {0, 1}
      /\ \A v, u \in DOMAIN p.code : Spins(p, v, pc[v], f) /\ Spins(p, u, pc[u], f) => v = u
      /\ \A v \in DOMAIN p.code : Spins(p, v, pc[v], f) =>
            /\ last.value = 1
            /\ \A u \in DOMAIN p.code \ {v} : know[v].happened[u] >= last.know.happened[u]
  BY DEF SpinsAlone
<1>3. CASE c.op = "modify" /\ c.values = {1} /\ c.times = 0 /\ c.plus = 1 /\ Acquires(c.order)
  <2>1. last.value # 1
    BY <1>1, <1>3 DEF WritesEntry
  <2> QED
    BY <1>1, <1>2, <1>3, <2>1 DEF WritesEntry
<1>4. CASE c.op = "store" /\ c.times = 0 /\ c.plus = 0 /\ Releases(c.order) /\ Spins(p, t, pc[t], f)
  <2>1. /\ e.value = 0 /\ e.know.happened[t] >= pc[t] /\ e \in Entries(p)
        /\ \A v \in DOMAIN p.code \ {t} : e.know.happened[v] >= know[t].happened[v]
    BY <1>1, <1>4 DEF WritesEntry
  <2>2. \A v \in DOMAIN p.code \ {t} : know[t].happened[v] >= last.know.happened[v]
    BY <1>2, <1>4
  <2>3. \A v \in DOMAIN p.code : /\ know[t].happened[v] \in Nat /\ last.know.happened[v] \in Nat
                                /\ e.know.happened[v] \in Nat
    <3>1. Len(mem[f]) \in 1..Len(mem[f])
      BY DEF Runs
    <3>2. e.know \in Knowledge(p)
      BY <2>1 DEF Entries
    <3> QED
      BY <3>1, <3>2, LastEntry, KnownTimes DEF Knowledge
  <2>4. \A v \in DOMAIN p.code \ {t} : e.know.happened[v] >= last.know.happened[v]
    <3> HIDE DEF last
    <3> QED
      BY <2>1, <2>2, <2>3
  <2> QED
    BY <1>2, <1>4, <2>1, <2>4
<1> QED
  BY <1>1, <1>3, <1>4 DEF SpinLock

\* A spin lock is held by one thread.
LEMMA SpinsAloneKept ==
    ASSUME NEW p, WellFormed(p), Runs(p), Runs(p)', NEW t \in DOMAIN p.code,
           Moves(p, t), Executes(p, t), SpinsAlone(p)
    PROVE  SpinsAlone(p)'
<1> SUFFICES ASSUME NEW f \in DOMAIN p.mem, SpinLock(p, f)
             PROVE  LET last == mem'[f][Len(mem'[f])]
                    IN  /\ last.value \in {0, 1}
                        /\ \A v, u \in DOMAIN p.code : Spins(p, v, pc'[v], f) /\ Spins(p, u, pc'[u], f) => v = u
                        /\ \A v \in DOMAIN p.code : Spins(p, v, pc'[v], f) =>
                              /\ last.value = 1
                              /\ \A u \in DOMAIN p.code \ {v} : know'[v].happened[u] >= last.know.happened[u]
  BY DEF SpinsAlone
<1> DEFINE c    == Ins(p, t, pc[t])
           last == mem[f][Len(mem[f])]
           Does(v, op) == v = t /\ pc'[t] # pc[t] /\ c.op = op /\ c.loc = f
<1>1. /\ last.value \in {0, 1}
      /\ \A v, u \in DOMAIN p.code : Spins(p, v, pc[v], f) /\ Spins(p, u, pc[u], f) => v = u
      /\ \A v \in DOMAIN p.code : Spins(p, v, pc[v], f) =>
            /\ last.value = 1
            /\ \A u \in DOMAIN p.code \ {v} : know[v].happened[u] >= last.know.happened[u]
  BY DEF SpinsAlone
<1>2. \A v \in DOMAIN p.code :
         Spins(p, v, pc'[v], f) => Does(v, "modify") \/ (Spins(p, v, pc[v], f) /\ ~Does(v, "store"))
  BY SpinsFrom
<1>3. CASE Unwritten(p, t, f)
  <2>1. mem'[f] = mem[f] /\ \A v \in DOMAIN p.code : Spins(p, v, pc'[v], f) => Spins(p, v, pc[v], f)
    BY <1>2, <1>3 DEF Unwritten, WriteOps
  <2>2. ASSUME NEW v \in DOMAIN p.code, NEW u \in DOMAIN p.code, know[v].happened[u] >= last.know.happened[u]
        PROVE  know'[v].happened[u] >= last.know.happened[u]
    <3>1. know'[v].happened[u] >= know[v].happened[u]
      BY DEF Moves, AtLeast
    <3>2. last.know.happened[u] \in Nat
      <4>1. Len(mem[f]) \in 1..Len(mem[f])
        BY DEF Runs
      <4> QED
        BY <4>1, LastEntry
    <3>3. know[v].happened[u] \in Nat
      BY KnownTimes
    <3>4. know'[v].happened[u] \in Nat
      <4>1. know'[v] \in Knowledge(p)
        BY DEF Runs
      <4> QED
        BY <4>1 DEF Knowledge
    <3> HIDE DEF last
    <3> QED
      BY <2>2, <3>1, <3>2, <3>3, <3>4
  <2> QED
    BY <1>1, <2>1, <2>2
<1>4. ASSUME NEW e, Written(p, t, f, e)
      PROVE  LET new == mem'[f][Len(mem'[f])]
             IN  /\ new.value \in {0, 1}
                 /\ \A v, u \in DOMAIN p.code : Spins(p, v, pc'[v], f) /\ Spins(p, u, pc'[u], f) => v = u
                 /\ \A v \in DOMAIN p.code : Spins(p, v, pc'[v], f) =>
                       /\ new.value = 1
                       /\ \A u \in DOMAIN p.code \ {v} : know'[v].happened[u] >= new.know.happened[u]
  <2>1. mem'[f][Len(mem'[f])] = e /\ c.loc = f /\ pc'[t] # pc[t]
    <3>1. pc[t] \in Nat /\ pc'[t] = pc[t] + 1
      BY <1>4 DEF Written, Runs
    <3> QED
      BY <1>4, <3>1 DEF Written
  <2>2. CASE /\ c.op = "modify" /\ e.value = 1
             /\ \A v \in DOMAIN p.code : ~Spins(p, v, pc[v], f)
             /\ \A v \in DOMAIN p.code \ {t} : know'[t].happened[v] >= e.know.happened[v]
    <3>1. \A v \in DOMAIN p.code : Spins(p, v, pc'[v], f) => v = t
      BY <1>2, <2>2
    <3> QED
      BY <2>1, <2>2, <3>1
  <2>3. CASE /\ c.op = "store" /\ e.value = 0
             /\ \A v \in DOMAIN p.code : Spins(p, v, pc[v], f) => v = t
    <3>1. \A v \in DOMAIN p.code : ~Spins(p, v, pc'[v], f)
      BY <1>2, <2>1, <2>3
    <3> QED
      BY <2>1, <2>3, <3>1
  <2> QED
    BY <1>4, <2>2, <2>3, SpinWritten
<1> QED
  BY <1>3, <1>4, ObjectWritten

\* An access under a spin lock is published when the lock is given back.
LEMMA SpinPublishedKept ==
    ASSUME NEW p, WellFormed(p), Runs(p), Runs(p)', NEW t \in DOMAIN p.code,
           Moves(p, t), AccessesAs(p, t), Executes(p, t), Accessed(p), SpinsAlone(p), SpinPublished(p)
    PROVE  SpinPublished(p)'
<1> SUFFICES ASSUME NEW f \in DOMAIN p.mem, NEW x \in DOMAIN p.mem, NEW a \in accesses'[x],
                    SpinLock(p, f), Spins(p, a.by, a.at, f), ~Spins(p, a.by, pc'[a.by], f)
             PROVE  a.at <= mem'[f][Len(mem'[f])].know.happened[a.by]
  BY DEF SpinPublished
<1> DEFINE c    == Ins(p, t, pc[t])
           last == mem[f][Len(mem[f])]
           v    == a.by
<1>0. v \in DOMAIN p.code /\ a.at \in Nat /\ pc[v] \in Nat /\ pc[t] \in Nat
  BY DEF Runs
<1>1. /\ a.at <= pc[v]
      /\ Spins(p, v, pc[v], f) \/ a.at <= last.know.happened[v]
  <2>1. CASE a \in accesses[x]
    BY <1>0, <2>1 DEF Accessed, SpinPublished
  <2>2. CASE a \notin accesses[x]
    <3>1. /\ c.op \in AccessOps /\ Permitted(p, t, pc[t]) /\ Here(t) = c /\ Access(t, KindOf(c.op))
      BY <2>2 DEF AccessesAs
    <3>2. c.loc \in DOMAIN p.mem /\ KindOf(c.op) \in {"read", "write", "free"}
      BY <3>1 DEF Permitted, KindOf
    <3>3. a.by = t /\ a.at = pc[t]
      BY <2>2, <3>1, <3>2, Remembers
    <3> QED
      BY <1>0, <3>3
  <2> QED
    BY <2>1, <2>2
<1>2. Spins(p, v, pc[v], f) => v = t /\ pc'[t] # pc[t] /\ c.op = "store" /\ c.loc = f
  BY <1>0, SpinsFrom
<1>3. Len(mem[f]) \in 1..Len(mem[f]) /\ last.know.happened[v] \in Nat
  <2>1. Len(mem[f]) \in 1..Len(mem[f])
    BY DEF Runs
  <2> QED
    BY <1>0, <2>1, LastEntry
<1>4. CASE Unwritten(p, t, f)
  BY <1>1, <1>2, <1>4 DEF Unwritten, WriteOps
<1>5. ASSUME NEW e, Written(p, t, f, e)
      PROVE  a.at <= mem'[f][Len(mem'[f])].know.happened[a.by]
  <2>1. mem'[f][Len(mem'[f])] = e /\ e \in Entries(p)
    BY <1>5 DEF Written, WritesEntry
  <2>2. e.know.happened[v] \in Nat
    <3>1. e.know \in Knowledge(p)
      BY <2>1 DEF Entries
    <3> QED
      BY <1>0, <3>1 DEF Knowledge
  <2>3. CASE /\ c.op = "modify" /\ AtLeast(p, e.know, last.know)
    <3>1. ~Spins(p, v, pc[v], f)
      BY <1>2, <2>3
    <3>2. e.know.happened[v] >= last.know.happened[v]
      BY <1>0, <2>3 DEF AtLeast
    <3> HIDE DEF v, last
    <3> QED
      BY <1>0, <1>1, <1>3, <2>1, <2>2, <3>1, <3>2 DEF v
  <2>4. CASE /\ c.op = "store" /\ Spins(p, t, pc[t], f)
             /\ e.know.happened[t] >= pc[t]
             /\ \A u \in DOMAIN p.code \ {t} : e.know.happened[u] >= last.know.happened[u]
    <3>1. v = t => a.at <= e.know.happened[v]
      BY <1>0, <1>1, <2>2, <2>4
    <3>2. v # t => a.at <= e.know.happened[v]
      <4>1. ASSUME v # t
            PROVE  e.know.happened[v] >= last.know.happened[v] /\ a.at <= last.know.happened[v]
        BY <1>0, <1>1, <1>2, <2>4, <4>1
      <4> HIDE DEF v, last
      <4> QED
        BY <1>0, <1>3, <2>2, <4>1
    <3> QED
      BY <2>1, <3>1, <3>2
  <2> QED
    BY <1>5, <2>3, <2>4, SpinWritten
<1> QED
  BY <1>4, <1>5, ObjectWritten

-----------------------------------------------------------------------------
(* Flags that hand on what was awaited *)

\* What its writer has awaited is stored with a flag.
LEMMA RelayStoredKept ==
    ASSUME NEW p, WellFormed(p), Runs(p), Runs(p)', NEW v \in DOMAIN p.code,
           Moves(p, v), Executes(p, v), FlagSeen(p), RelayStored(p)
    PROVE  RelayStored(p)'
<1> SUFFICES ASSUME NEW g \in DOMAIN p.mem, NEW t \in DOMAIN p.code, NEW w \in DOMAIN p.code,
                    NEW j \in Points(p, t), NEW a \in Points(p, w), NEW b \in Points(p, w),
                    HandsOver(p, t, j, w, a), a < b, Publishes(p, w, b, g), NEW n \in 1..Len(mem'[g])
             PROVE  mem'[g][n].value = p.mem[g] \/ mem'[g][n].know.happened[t] >= j
  BY DEF RelayStored
<1> DEFINE c == Ins(p, v, pc[v])
<1>1. pc[w] \in Nat /\ pc[t] \in Nat /\ j \in Nat /\ a \in Nat /\ b \in Nat
  BY DEF Runs, Points
<1>2. mem[g] \in Seq(Entries(p)) /\ mem \in [DOMAIN p.mem -> Seq(Entries(p))]
  BY DEF Runs
<1>3. CASE n \in 1..Len(mem[g]) /\ mem'[g][n] = mem[g][n]
  BY <1>3 DEF RelayStored
<1>4. CASE ~(n \in 1..Len(mem[g]) /\ mem'[g][n] = mem[g][n])
  <2>1. /\ pc[v] \in Points(p, v) /\ c.op \in WriteOps /\ c.loc \in DOMAIN p.mem
        /\ \E e : WritesEntry(p, v, e)
    BY <1>4 DEF Executes
  <2>2. PICK e \in Entries(p) :
           /\ mem' = [mem EXCEPT ![c.loc] = Append(mem[c.loc], e)]
           /\ Releases(c.order) =>
                 /\ e.know.happened[v] >= pc[v]
                 /\ \A u \in DOMAIN p.code \ {v} : e.know.happened[u] >= know[v].happened[u]
    BY <2>1 DEF WritesEntry
  <2> HIDE DEF c
  <2>3. c.loc = g /\ mem'[g] = Append(mem[g], e)
    BY <1>2, <1>4, <2>2
  <2>4. mem'[g][n] = e
    BY <1>2, <1>4, <2>3
  <2>5. v = w /\ pc[v] = b /\ Releases(c.order)
    <3>1. v = w /\ pc[v] = b
      BY <2>1, <2>3 DEF Publishes, c
    <3> QED
      BY <3>1 DEF Publishes, c
  <2>6. know[w].happened[t] >= j /\ pc[t] > j
    BY <1>1, <2>5 DEF FlagSeen, HandsOver
  <2>7. know[w].happened[t] \in Nat /\ e.know.happened[t] \in Nat
    <3>1. e.know \in Knowledge(p)
      BY <2>2 DEF Entries
    <3> QED
      BY <3>1, KnownTimes DEF Knowledge
  <2>8. e.know.happened[t] >= j
    <3>1. CASE t = v
      BY <1>1, <2>2, <2>5, <2>6, <2>7, <3>1
    <3>2. CASE t # v
      <4>1. e.know.happened[t] >= know[w].happened[t]
        BY <2>2, <2>5, <3>2
      <4> QED
        BY <1>1, <2>6, <2>7, <4>1
    <3> QED
      BY <3>1, <3>2
  <2> QED
    BY <2>4, <2>8
<1> QED
  BY <1>3, <1>4

\* Awaiting a flag orders it after what its writer has awaited.
LEMMA RelaySeenKept ==
    ASSUME NEW p, WellFormed(p), Runs(p), Runs(p)', NEW v \in DOMAIN p.code,
           Moves(p, v), Executes(p, v), RelayStored(p), RelaySeen(p)
    PROVE  RelaySeen(p)'
<1> SUFFICES ASSUME NEW t \in DOMAIN p.code, NEW w \in DOMAIN p.code, NEW u \in DOMAIN p.code,
                    NEW j \in Points(p, t), NEW a \in Points(p, w), NEW b \in Points(p, w),
                    NEW n \in Points(p, u), HandsOver(p, t, j, w, a), a < b, HandsOver(p, w, b, u, n),
                    pc'[u] > n
             PROVE  know'[u].happened[t] >= j
  BY DEF RelaySeen
<1>1. pc[u] \in Nat /\ j \in Nat /\ n \in Nat
  BY DEF Runs, Points
<1>2. know[u].happened[t] \in Nat /\ know'[u].happened[t] \in Nat
  <2>1. know'[u] \in Knowledge(p)
    BY DEF Runs
  <2> QED
    BY <2>1, KnownTimes DEF Knowledge
<1>3. CASE pc[u] > n
  <2>1. know[u].happened[t] >= j
    BY <1>3 DEF RelaySeen
  <2>2. know'[u].happened[t] >= know[u].happened[t]
    BY DEF Moves, AtLeast
  <2> QED
    BY <1>1, <1>2, <2>1, <2>2
<1>4. CASE pc[u] <= n
  <2>1. PICK g \in DOMAIN p.mem : Publishes(p, w, b, g) /\ AwaitsFlag(p, u, n, g)
    BY DEF HandsOver
  <2>2. u = v /\ pc[u] = n /\ pc'[v] # pc[v]
    BY <1>4, <2>1, Passes DEF AwaitsFlag
  <2>3. PICK i \in 1..Len(mem[g]) : /\ mem[g][i].value \notin Ins(p, u, n).values
                                    /\ AtLeast(p, know'[u], mem[g][i].know)
    BY <2>1, <2>2 DEF Executes, AwaitsFlag, ReadsValue, ReadOps
  <2>4. mem[g][i].value # p.mem[g]
    BY <2>1, <2>3 DEF AwaitsFlag
  <2>5. mem[g][i].know.happened[t] >= j
    BY <2>1, <2>4 DEF RelayStored
  <2>6. know'[u].happened[t] >= mem[g][i].know.happened[t]
    BY <2>3 DEF AtLeast
  <2>7. mem[g][i].know.happened[t] \in Nat
    BY LastEntry
  <2> DEFINE stored == mem[g][i].know.happened[t]
             seen   == know'[u].happened[t]
  <2>8. /\ stored \in Nat /\ seen \in Nat /\ j \in Nat
        /\ stored >= j /\ seen >= stored
    BY <1>1, <1>2, <2>5, <2>6, <2>7
  <2> HIDE DEF stored, seen
  <2>9. seen >= j
    BY <2>8
  <2> QED
    BY <2>9 DEF seen
<1> QED
  BY <1>1, <1>3, <1>4

-----------------------------------------------------------------------------
(* What happens before *)

\* When u has come to its k-th instruction, it knows of what always comes before.
LEMMA KnownBefore ==
    ASSUME NEW p, WellFormed(p), Runs(p), Started(p), Joined(p), FlagSeen(p), RelaySeen(p),
           NEW t \in DOMAIN p.code, NEW u \in DOMAIN p.code,
           NEW i \in Points(p, t), NEW k \in Points(p, u), Before(p, t, i, u, k), pc[u] >= k
    PROVE  i <= know[u].happened[t] /\ i < pc[t]
<1>0. pc[u] \in Nat /\ pc[t] \in Nat /\ i \in Nat /\ k \in Nat /\ k > 0 /\ know[u] \in Knowledge(p)
  BY DEF Runs, Points
<1>1. know[u].happened[t] \in Nat
  BY <1>0 DEF Knowledge
<1>2. CASE t = Main /\ StartedAfter(p, i, u)
  <2>1. PICK j \in Points(p, Main) :
           i < j /\ Ins(p, Main, j).op = "start" /\ Ins(p, Main, j).thread = u
    BY <1>2 DEF StartedAfter
  <2>2. /\ u # Main
        /\ \A n \in Points(p, Main) : Ins(p, Main, n).op = "start" /\ Ins(p, Main, n).thread = u => n = j
    BY <1>2, <2>1, InstructionTypes DEF Permitted
  <2>3. pc[u] # 0
    BY <1>0
  <2>4. PICK n \in Points(p, Main) :
           /\ Ins(p, Main, n).op = "start" /\ Ins(p, Main, n).thread = u
           /\ pc[Main] > n /\ know[u].happened[Main] >= n
    BY <2>2, <2>3 DEF Started
  <2>5. n = j /\ n \in Nat
    BY <2>2, <2>4 DEF Points
  <2> QED
    BY <1>0, <1>1, <1>2, <2>1, <2>4, <2>5
<1>3. CASE u = Main /\ JoinedBefore(p, t, k)
  <2>1. PICK j \in Points(p, Main) :
           j < k /\ Ins(p, Main, j).op = "join" /\ Ins(p, Main, j).thread = t /\ Passed(p, Main, j)
    BY <1>3 DEF JoinedBefore
  <2>2. j \in Nat /\ pc[Main] > j
    BY <1>0, <1>3, <2>1 DEF Points
  <2>3. pc[t] > Len(p.code[t]) /\ know[u].happened[t] > Len(p.code[t])
    BY <1>3, <2>1, <2>2 DEF Joined
  <2>4. i <= Len(p.code[t]) /\ Len(p.code[t]) \in Nat
    BY InstructionTypes DEF Points
  <2> QED
    BY <1>0, <1>1, <2>3, <2>4
<1>4. CASE AwaitedBefore(p, t, i, u, k)
  <2>1. PICK f \in DOMAIN p.mem, j \in Points(p, t), n \in Points(p, u) :
           i < j /\ n < k /\ Publishes(p, t, j, f) /\ AwaitsFlag(p, u, n, f)
    BY <1>4 DEF AwaitedBefore
  <2>2. j \in Nat /\ n \in Nat /\ pc[u] > n
    BY <1>0, <2>1 DEF Points
  <2>3. know[u].happened[t] >= j /\ pc[t] > j
    BY <2>1, <2>2 DEF FlagSeen
  <2> QED
    BY <1>0, <1>1, <2>1, <2>2, <2>3
<1>5. CASE RelayedBefore(p, t, i, u, k)
  <2>1. PICK w \in DOMAIN p.code : \E a, b \in Points(p, w) :
           /\ a < b
           /\ \E j \in Points(p, t) : i < j /\ HandsOver(p, t, j, w, a)
           /\ \E n \in Points(p, u) : n < k /\ HandsOver(p, w, b, u, n)
    BY <1>5 DEF RelayedBefore
  <2>2. PICK a \in Points(p, w), b \in Points(p, w), j \in Points(p, t), n \in Points(p, u) :
           a < b /\ i < j /\ HandsOver(p, t, j, w, a) /\ n < k /\ HandsOver(p, w, b, u, n)
    BY <2>1
  <2>3. a \in Nat /\ b \in Nat /\ j \in Nat /\ n \in Nat /\ pc[u] > n /\ pc[w] \in Nat
    BY <1>0, <2>2 DEF Points, Runs
  <2>4. know[u].happened[t] >= j
    BY <2>2, <2>3 DEF RelaySeen
  <2>5. pc[w] > b
    BY <2>2, <2>3 DEF FlagSeen, HandsOver
  <2>6. pc[w] > a
    BY <2>2, <2>3, <2>5
  <2>7. pc[t] > j
    BY <2>2, <2>6 DEF FlagSeen, HandsOver
  <2> QED
    BY <1>0, <1>1, <2>2, <2>3, <2>4, <2>7
<1> QED
  BY <1>2, <1>3, <1>4, <1>5 DEF Before

\* Who is about to access an object under a mutex knows of the accesses that
\* the mutex excludes.
LEMMA KnownExcluded ==
    ASSUME NEW p, WellFormed(p), Runs(p), HoldsLock(p), HolderKnows(p), Published(p),
           NEW t \in DOMAIN p.code, NEW x \in DOMAIN p.mem, NEW a \in accesses[x], a.by # t,
           Excluded(p, a.by, a.at, t, pc[t])
    PROVE  a.at <= know[t].happened[a.by]
<1> DEFINE v == a.by
<1>1. PICK m \in p.locks :
         \/ Alone(p, v, a.at, m) /\ Alone(p, t, pc[t], m)
         \/ Alone(p, v, a.at, m) /\ Sharing(p, t, pc[t], m)
         \/ Sharing(p, v, a.at, m) /\ Alone(p, t, pc[t], m)
  BY DEF Excluded
<1>2. /\ mutex[m].writer = {} \/ mutex[m].readers = {}
      /\ \A w, u \in mutex[m].writer : w = u
      /\ Alone(p, t, pc[t], m) => t \in mutex[m].writer
      /\ Sharing(p, t, pc[t], m) => t \in mutex[m].readers
  BY DEF HoldsLock
<1>3. /\ Alone(p, v, a.at, m) => v \in mutex[m].writer \/ a.at <= mutex[m].written.happened[v]
      /\ Sharing(p, v, a.at, m) => \/ v \in mutex[m].readers
                                   \/ a.at <= mutex[m].written.happened[v]
                                   \/ a.at <= mutex[m].read.happened[v]
  BY DEF Published
<1>4. v \in DOMAIN p.code /\ a.at \in Nat /\ mutex[m] \in LockStates(p) /\ know[t] \in Knowledge(p)
  BY DEF Runs
<1>5. mutex[m].written \in Knowledge(p) /\ mutex[m].read \in Knowledge(p)
  BY <1>4 DEF LockStates
<1>6. /\ know[t].happened[v] \in Nat /\ mutex[m].written.happened[v] \in Nat
      /\ mutex[m].read.happened[v] \in Nat
  BY <1>4, <1>5 DEF Knowledge
<1>7. /\ t \in mutex[m].writer => /\ know[t].happened[v] >= mutex[m].written.happened[v]
                                  /\ know[t].happened[v] >= mutex[m].read.happened[v]
      /\ t \in mutex[m].readers => know[t].happened[v] >= mutex[m].written.happened[v]
  BY <1>4 DEF HolderKnows, AtLeast
<1> HIDE DEF v
<1>8. v # t
  BY DEF v
<1>9. a.at <= know[t].happened[v]
  <2>1. CASE Alone(p, v, a.at, m) /\ Alone(p, t, pc[t], m)
    BY <1>2, <1>3, <1>4, <1>6, <1>7, <1>8, <2>1
  <2>2. CASE Alone(p, v, a.at, m) /\ Sharing(p, t, pc[t], m)
    BY <1>2, <1>3, <1>4, <1>6, <1>7, <1>8, <2>2
  <2>3. CASE Sharing(p, v, a.at, m) /\ Alone(p, t, pc[t], m)
    BY <1>2, <1>3, <1>4, <1>6, <1>7, <1>8, <2>3
  <2> QED
    BY <1>1, <2>1, <2>2, <2>3 DEF v
<1> QED
  BY <1>9 DEF v

\* So does who is about to access it under a spin lock.
LEMMA KnownSpinning ==
    ASSUME NEW p, Runs(p), SpinsAlone(p), SpinPublished(p),
           NEW t \in DOMAIN p.code, NEW x \in DOMAIN p.mem, NEW a \in accesses[x], a.by # t,
           ExcludedBySpin(p, a.by, a.at, t, pc[t])
    PROVE  a.at <= know[t].happened[a.by]
<1>1. PICK f \in DOMAIN p.mem : Spins(p, a.by, a.at, f) /\ Spins(p, t, pc[t], f) /\ SpinLock(p, f)
  BY DEF ExcludedBySpin
<1>2. a.by \in DOMAIN p.code /\ a.at \in Nat
  BY DEF Runs
<1> DEFINE last == mem[f][Len(mem[f])]
<1>3. know[t].happened[a.by] \in Nat /\ last.know.happened[a.by] \in Nat
  <2>1. Len(mem[f]) \in 1..Len(mem[f])
    BY DEF Runs
  <2> QED
    BY <1>2, <2>1, LastEntry, KnownTimes
<1>4. ~Spins(p, a.by, pc[a.by], f) /\ know[t].happened[a.by] >= last.know.happened[a.by]
  BY <1>1, <1>2 DEF SpinsAlone
<1>5. a.at <= last.know.happened[a.by]
  BY <1>1, <1>4 DEF SpinPublished
<1> HIDE DEF last
<1> QED
  BY <1>2, <1>3, <1>4, <1>5

-----------------------------------------------------------------------------
(* Initialization *)

\* Where branches lead.
LEMMA Branches ==
    ASSUME NEW p, WellFormed(p), Runs(p), NEW v \in DOMAIN p.code, Moves(p, v), NEW t \in DOMAIN p.code
    PROVE  /\ pc[t] \in Nat /\ pc'[t] \in Nat
           /\ \/ pc'[t] = pc[t]
              \/ pc[t] = 0 /\ pc'[t] = 1 /\ t # v
              \/ t = v /\ pc[t] \in Points(p, t) /\ pc'[t] = pc[t] + 1
              \/ /\ t = v /\ pc[t] \in Points(p, t) /\ Ins(p, t, pc[t]).op = "load"
                 /\ pc'[t] = pc[t] + 1 + Ins(p, t, pc[t]).skip /\ Ins(p, t, pc[t]).skip \in Nat
<1>1. pc[t] \in Nat /\ pc'[t] \in Nat
  BY Later
<1>2. pc[t] \in Points(p, t) => Ins(p, t, pc[t]).skip \in Nat
  BY InstructionTypes DEF Instructions
<1> QED
  BY <1>1, <1>2 DEF Moves

\* Who gets between the test and the setting has come from the test.
LEMMA BlockEntered ==
    ASSUME NEW p, WellFormed(p), Runs(p), NEW v \in DOMAIN p.code, Moves(p, v), NEW t \in DOMAIN p.code,
           NEW j \in Points(p, t), NEW s \in Points(p, t), NEW g, NEW m, Sets(p, t, j, s, g, m),
           j < pc'[t], pc'[t] <= s
    PROVE  \/ j < pc[t] /\ pc[t] <= s
           \/ t = v /\ pc[t] = j /\ pc'[t] = j + 1
<1>1. /\ j \in Nat /\ s \in Nat /\ j > 0 /\ j < s /\ Ins(p, t, j).skip = s - j
      /\ \A i \in Points(p, t) : Ins(p, t, i).op = "load" =>
            /\ i < j => i + 1 + Ins(p, t, i).skip <= j \/ i + 1 + Ins(p, t, i).skip > s
            /\ j < i /\ i < s => i + 1 + Ins(p, t, i).skip <= s
  BY DEF Sets, Points
<1>2. pc[t] \in Nat /\ pc'[t] \in Nat
  BY Branches
<1>3. CASE pc'[t] = pc[t] \/ (pc[t] = 0 /\ pc'[t] = 1)
  BY <1>1, <1>2, <1>3
<1>4. CASE t = v /\ pc[t] \in Points(p, t) /\ pc'[t] = pc[t] + 1
  BY <1>1, <1>2, <1>4
<1>5. CASE /\ pc[t] \in Points(p, t) /\ Ins(p, t, pc[t]).op = "load"
           /\ pc'[t] = pc[t] + 1 + Ins(p, t, pc[t]).skip /\ Ins(p, t, pc[t]).skip \in Nat
  <2>1. ~(pc[t] < j)
    BY <1>1, <1>2, <1>5
  <2>2. pc[t] # j
    BY <1>1, <1>2, <1>5
  <2> QED
    BY <1>1, <1>2, <1>5, <2>1, <2>2
<1> QED
  BY <1>3, <1>4, <1>5, Branches

\* Who is between them gets away by setting it.
LEMMA BlockLeft ==
    ASSUME NEW p, WellFormed(p), Runs(p), NEW v \in DOMAIN p.code, Moves(p, v), NEW t \in DOMAIN p.code,
           NEW j \in Points(p, t), NEW s \in Points(p, t), NEW g, NEW m, Sets(p, t, j, s, g, m),
           j < pc[t], pc[t] <= s, pc'[t] > s
    PROVE  t = v /\ pc[t] = s /\ pc'[t] = s + 1
<1>1. /\ j \in Nat /\ s \in Nat /\ j > 0 /\ j < s /\ Ins(p, t, s).op = "store"
      /\ \A i \in Points(p, t) : Ins(p, t, i).op = "load" /\ j < i /\ i < s => i + 1 + Ins(p, t, i).skip <= s
  BY DEF Sets, Points
<1>2. pc[t] \in Nat /\ pc'[t] \in Nat
  BY Branches
<1>3. CASE pc'[t] = pc[t] \/ (pc[t] = 0 /\ pc'[t] = 1)
  BY <1>1, <1>2, <1>3
<1>4. CASE t = v /\ pc[t] \in Points(p, t) /\ pc'[t] = pc[t] + 1
  BY <1>1, <1>2, <1>4
<1>5. CASE /\ pc[t] \in Points(p, t) /\ Ins(p, t, pc[t]).op = "load"
           /\ pc'[t] = pc[t] + 1 + Ins(p, t, pc[t]).skip /\ Ins(p, t, pc[t]).skip \in Nat
  <2>1. pc[t] < s
    BY <1>1, <1>2, <1>5
  <2>2. pc'[t] <= s
    BY <1>1, <1>5, <2>1
  <2> QED
    BY <1>1, <1>2, <2>2
<1> QED
  BY <1>3, <1>4, <1>5, Branches

\* Who comes past the setting has found that it is set, once or twice, or sets it.
LEMMA CheckPassed ==
    ASSUME NEW p, WellFormed(p), Runs(p), NEW v \in DOMAIN p.code, Moves(p, v), NEW u \in DOMAIN p.code,
           NEW n \in Points(p, u), NEW j \in Points(p, u), NEW s \in Points(p, u), NEW g, NEW m,
           Checks(p, u, n, j, s, g, m), pc[u] <= s, pc'[u] > s
    PROVE  /\ u = v /\ pc'[v] # pc[v]
           /\ \/ pc[u] \in {n, j} /\ pc'[u] # pc[u] + 1
              \/ pc[u] = s
<1>1. /\ n \in Nat /\ j \in Nat /\ s \in Nat /\ n > 0 /\ n < j /\ j < s
      /\ Passed(p, u, n) /\ Sets(p, u, j, s, g, m)
      /\ \A i \in Points(p, u) : n < i /\ i < j /\ Ins(p, u, i).op = "load" => i + Ins(p, u, i).skip < j
  BY DEF Checks, Sets, Points
<1>2. pc[u] \in Nat /\ pc'[u] \in Nat
  BY Branches
<1>3. u = v /\ pc'[v] # pc[v]
  BY <1>1, <1>2, Branches
<1>4. CASE pc[u] <= n
  <2>1. pc[u] = n
    BY <1>1, <1>2, <1>4, Passes
  <2> QED
    BY <1>1, <1>2, <1>3, <2>1
<1>5. CASE n < pc[u] /\ pc[u] < j
  <2>1. CASE pc'[u] = pc[u] + 1
    BY <1>1, <1>2, <1>5, <2>1
  <2>2. CASE /\ pc[u] \in Points(p, u) /\ Ins(p, u, pc[u]).op = "load"
             /\ pc'[u] = pc[u] + 1 + Ins(p, u, pc[u]).skip /\ Ins(p, u, pc[u]).skip \in Nat
    BY <1>1, <1>2, <1>5, <2>2
  <2> QED
    BY <1>1, <1>2, <1>3, <1>5, <2>1, <2>2, Branches
<1>6. CASE pc[u] = j
  BY <1>1, <1>2, <1>3, <1>6
<1>7. CASE pc[u] > j
  BY <1>1, <1>2, <1>3, <1>7, BlockLeft
<1> QED
  BY <1>1, <1>2, <1>4, <1>5, <1>6, <1>7

\* Only one thread writes what is written under m.
LEMMA SoleOne ==
    ASSUME NEW p, HoldsLock(p), NEW m \in p.locks, NEW t \in DOMAIN p.code, NEW u \in DOMAIN p.code,
           Sole(p, t, pc[t], m), Sole(p, u, pc[u], m)
    PROVE  t = u
BY DEF Sole, HoldsLock

\* It is the one who sets something.
LEMMA SettingSole ==
    ASSUME NEW p, Runs(p), NEW m, NEW g, NEW t \in DOMAIN p.code, Setting(p, t, g, m)
    PROVE  Sole(p, t, pc[t], m)
<1>1. PICK j \in Points(p, t), s \in Points(p, t) : Sets(p, t, j, s, g, m) /\ j < pc[t] /\ pc[t] <= s
  BY DEF Setting
<1>2. pc[t] \in Points(p, t) /\ j <= pc[t]
  BY <1>1 DEF Runs, Points
<1> QED
  BY <1>1, <1>2 DEF Sets

\* Who fills an object sets something, too.
LEMMA FillingSets ==
    ASSUME NEW p, Runs(p), NEW m, NEW g, NEW x, NEW t \in DOMAIN p.code, NEW i \in Points(p, t),
           Filling(p, t, i, x, g, m)
    PROVE  Setting(p, t, g, m) /\ i < pc[t]
<1>1. PICK j \in Points(p, t), s \in Points(p, t) :
         Fills(p, t, i, j, s, x, g, m) /\ i < pc[t] /\ pc[t] <= s
  BY DEF Filling
<1>2. j < pc[t]
  BY <1>1 DEF Runs, Points, Fills
<1> QED
  BY <1>1, <1>2 DEF Setting, Fills

\* So does who is about to fill it, which is nothing that is tested.
LEMMA FillerSets ==
    ASSUME NEW p, Runs(p), NEW m, NEW g, NEW x, FilledOnce(p, x, g, m), NEW t \in DOMAIN p.code,
           NEW i \in Points(p, t), Ins(p, t, i).op \in WriteOps, Ins(p, t, i).loc = x
    PROVE  /\ x # g /\ Sole(p, t, i, m)
           /\ pc[t] = i => Setting(p, t, g, m)
           /\ \E j, s \in Points(p, t) : Fills(p, t, i, j, s, x, g, m)
<1>1. PICK j \in Points(p, t), s \in Points(p, t) : Fills(p, t, i, j, s, x, g, m)
  BY DEF FilledOnce
<1>2. j < i /\ i < s /\ i <= s /\ j <= i /\ Sets(p, t, j, s, g, m)
  BY <1>1 DEF Fills, Points
<1> QED
  BY <1>1, <1>2 DEF Sets, Setting

\* Who becomes the only one has locked the mutex.
LEMMA BecomesSole ==
    ASSUME NEW p, WellFormed(p), Runs(p), NEW v \in DOMAIN p.code, Moves(p, v), LocksAs(p, v),
           NEW t \in DOMAIN p.code, NEW m \in p.locks, Sole(p, t, pc'[t], m)
    PROVE  Sole(p, t, pc[t], m) \/ (t = v /\ MutexTaken(p, v, m))
<1> DEFINE c == Ins(p, v, pc[v])
<1>1. CASE DOMAIN p.code = {t}
  BY <1>1 DEF Sole
<1>2. CASE Alone(p, t, pc'[t], m)
  <2>1. Alone(p, t, pc[t], m) \/ (t = v /\ pc'[v] # pc[v] /\ c.op = "lock" /\ c.loc = m)
    BY <1>2, Enters
  <2>2. c.op = "lock" /\ c.loc = m /\ pc'[v] # pc[v] => MutexTaken(p, v, m)
    <3>1. MutexStays(p, v, m) => ~(c.op = "lock" /\ c.loc = m /\ pc'[v] # pc[v])
      BY DEF MutexStays
    <3>2. MutexGiven(p, v, m) \/ MutexJoined(p, v, m) \/ MutexLeft(p, v, m) => c.op # "lock"
      BY DEF MutexGiven, MutexJoined, MutexLeft
    <3> QED
      BY <3>1, <3>2, MutexEffects
  <2> QED
    BY <2>1, <2>2 DEF Sole
<1> QED
  BY <1>1, <1>2 DEF Sole

\* Who is alone has seen the last value, since the mutex hands it on.
LEMMA SetOnlyKept ==
    ASSUME NEW p, WellFormed(p), Runs(p), Runs(p)', NEW v \in DOMAIN p.code,
           Moves(p, v), Executes(p, v), LocksAs(p, v), HoldsLock(p), SetOnly(p)
    PROVE  SetOnly(p)'
<1> SUFFICES ASSUME NEW g \in DOMAIN p.mem, NEW m \in p.locks, SetOnce(p, g, m)
             PROVE  /\ Len(mem'[g]) <= 2 /\ mem'[g][1].value = p.mem[g]
                    /\ Len(mem'[g]) = 2 => mem'[g][2].value # p.mem[g]
                    /\ mutex'[m].writer = {} =>
                          mutex'[m].written.seen[g] >= Len(mem'[g]) \/ \E t \in DOMAIN p.code : DOMAIN p.code = {t}
                    /\ \A t \in DOMAIN p.code : Sole(p, t, pc'[t], m) => know'[t].seen[g] >= Len(mem'[g])
                    /\ \A t \in DOMAIN p.code : Setting(p, t, g, m)' => Len(mem'[g]) = 1
  BY DEF SetOnly
<1> DEFINE c == Ins(p, v, pc[v])
           Single == \E t \in DOMAIN p.code : DOMAIN p.code = {t}
<1>1. /\ Len(mem[g]) <= 2 /\ mem[g][1].value = p.mem[g]
      /\ Len(mem[g]) = 2 => mem[g][2].value # p.mem[g]
      /\ mutex[m].writer = {} => mutex[m].written.seen[g] >= Len(mem[g]) \/ Single
      /\ \A t \in DOMAIN p.code : Sole(p, t, pc[t], m) => know[t].seen[g] >= Len(mem[g])
      /\ \A t \in DOMAIN p.code : Setting(p, t, g, m) => Len(mem[g]) = 1
  BY DEF SetOnly
<1>2. Len(mem[g]) \in Nat /\ Len(mem[g]) > 0 /\ pc[v] \in Nat
  BY DEF Runs
<1>3. ASSUME NEW t \in DOMAIN p.code
      PROVE  know[t].seen[g] \in Nat /\ know'[t].seen[g] \in Nat
  <2>1. know'[t] \in Knowledge(p)
    BY DEF Runs
  <2> QED
    BY <2>1, KnownTimes DEF Knowledge
<1>4. mutex[m].written.seen[g] \in Nat
  <2>1. mutex[m] \in LockStates(p)
    BY DEF Runs
  <2>2. mutex[m].written \in Knowledge(p)
    BY <2>1 DEF LockStates
  <2> QED
    BY <2>2 DEF Knowledge
<1> HIDE DEF Single
<1>5. CASE Unwritten(p, v, g)
  <2>1. mem'[g] = mem[g]
    BY <1>5 DEF Unwritten
  <2>2. mutex'[m].writer = {} => mutex'[m].written.seen[g] >= Len(mem[g]) \/ Single
    <3>1. CASE MutexStays(p, v, m)
      BY <1>1, <3>1 DEF MutexStays
    <3>2. CASE MutexTaken(p, v, m)
      BY <3>2 DEF MutexTaken
    <3>3. CASE MutexGiven(p, v, m)
      <4>1. know[v].seen[g] >= Len(mem[g]) /\ mutex'[m].written.seen = know[v].seen
        BY <1>1, <3>3 DEF MutexGiven, Sole
      <4> QED
        BY <4>1
    <3>4. CASE MutexJoined(p, v, m)
      BY <1>1, <3>4 DEF MutexJoined
    <3>5. CASE MutexLeft(p, v, m)
      BY <1>1, <3>5 DEF MutexLeft
    <3> QED
      BY <3>1, <3>2, <3>3, <3>4, <3>5, MutexEffects
  <2>3. ASSUME NEW t \in DOMAIN p.code, Sole(p, t, pc'[t], m)
        PROVE  know'[t].seen[g] >= Len(mem[g])
    <3>1. CASE Sole(p, t, pc[t], m)
      <4>1. know[t].seen[g] >= Len(mem[g])
        BY <1>1, <3>1
      <4>2. know'[t].seen[g] >= know[t].seen[g] \/ know'[t].seen[g] >= Len(mem[g])
        <5>1. CASE t = v
          BY <2>1, <5>1 DEF Executes, Sees
        <5>2. CASE t # v
          <6>1. pc[t] # 0
            <7>1. ~(DOMAIN p.code = {t})
              BY <5>2
            <7>2. Alone(p, t, pc[t], m)
              BY <3>1, <7>1 DEF Sole
            <7> QED
              BY <7>2 DEF Alone, Between, Points
          <6>2. know'[t] = know[t]
            BY <5>2, <6>1 DEF Moves
          <6> QED
            BY <1>3, <6>2
        <5> QED
          BY <5>1, <5>2
      <4> QED
        BY <1>2, <1>3, <4>1, <4>2
    <3>2. CASE ~Sole(p, t, pc[t], m)
      <4>1. t = v /\ MutexTaken(p, v, m)
        BY <2>3, <3>2, BecomesSole
      <4>2. know'[t].seen[g] >= mutex[m].written.seen[g] /\ mutex[m].writer = {}
        BY <4>1 DEF MutexTaken
      <4>3. ~Single
        BY <3>2 DEF Single, Sole
      <4> QED
        BY <1>1, <1>2, <1>3, <1>4, <4>2, <4>3
    <3> QED
      BY <3>1, <3>2
  <2>4. ASSUME NEW t \in DOMAIN p.code, Setting(p, t, g, m)'
        PROVE  Len(mem[g]) = 1
    <3>1. PICK j \in Points(p, t), s \in Points(p, t) : Sets(p, t, j, s, g, m) /\ j < pc'[t] /\ pc'[t] <= s
      BY <2>4 DEF Setting
    <3>2. CASE j < pc[t] /\ pc[t] <= s
      BY <1>1, <3>1, <3>2 DEF Setting
    <3>3. CASE t = v /\ pc[t] = j /\ pc'[t] = j + 1
      <4>1. /\ c.op = "load" /\ c.loc = g /\ c.values = {p.mem[g]} /\ c.skip = s - j /\ j < s
            /\ Sole(p, v, j, m) /\ j \in Nat /\ s \in Nat
        <5>1. j \in Nat /\ s \in Nat /\ j < s /\ j <= j /\ j <= s
          BY <3>1 DEF Points, Sets
        <5> QED
          BY <3>1, <3>3, <5>1 DEF Sets
      <4>2. PICK n : ReadsValue(p, v, n)
        BY <1>2, <3>3, <4>1 DEF Executes, ReadOps
      <4>3. n \in 1..Len(mem[g]) /\ n >= know[v].seen[g]
        BY <4>1, <4>2 DEF ReadsValue
      <4>4. mem[g][n].value = p.mem[g]
        <5>1. pc'[v] = IF mem[g][n].value \in {p.mem[g]} THEN j + 1 ELSE j + 1 + (s - j)
          BY <3>3, <4>1, <4>2 DEF ReadsValue
        <5> QED
          BY <3>3, <4>1, <5>1
      <4>5. know[v].seen[g] >= Len(mem[g])
        BY <1>1, <3>3, <4>1
      <4>6. n = Len(mem[g])
        BY <1>2, <1>3, <4>3, <4>5
      <4> DEFINE l == Len(mem[g])
      <4>7. l \in Nat /\ l > 0 /\ l # 2 /\ l <= 2
        BY <1>1, <1>2, <4>4, <4>6
      <4> HIDE DEF l
      <4>8. l = 1
        BY <4>7
      <4> QED
        BY <4>8 DEF l
    <3> QED
      BY <3>1, <3>2, <3>3, BlockEntered
  <2> QED
    BY <1>1, <2>1, <2>2, <2>3, <2>4 DEF Single
<1>6. ASSUME NEW e, Written(p, v, g, e)
      PROVE  /\ Len(mem'[g]) <= 2 /\ mem'[g][1].value = p.mem[g]
             /\ Len(mem'[g]) = 2 => mem'[g][2].value # p.mem[g]
             /\ mutex'[m].writer = {} => Single
             /\ \A t \in DOMAIN p.code : Sole(p, t, pc'[t], m) => know'[t].seen[g] >= Len(mem'[g])
             /\ \A t \in DOMAIN p.code : ~Setting(p, t, g, m)'
  <2>1. /\ pc[v] \in Points(p, v) /\ c.op \in WriteOps /\ c.loc = g /\ pc'[v] = pc[v] + 1
        /\ WritesEntry(p, v, e) /\ Len(mem'[g]) = Len(mem[g]) + 1 /\ mem'[g][Len(mem'[g])] = e
        /\ \A n \in 1..Len(mem[g]) : mem'[g][n] = mem[g][n]
    BY <1>6 DEF Written
  <2>2. PICK j \in Points(p, v) : Sets(p, v, j, pc[v], g, m)
    BY <2>1 DEF SetOnce
  <2>3. c.op = "store" /\ c.times = 0 /\ c.plus # p.mem[g] /\ j < pc[v]
    BY <2>2 DEF Sets
  <2>4. Setting(p, v, g, m)
    <3>1. pc[v] <= pc[v]
      BY <1>2
    <3> QED
      BY <2>1, <2>2, <2>3, <3>1 DEF Setting
  <2>5. Sole(p, v, pc[v], m)
    BY <2>4, SettingSole
  <2>6. Len(mem[g]) = 1
    BY <1>1, <2>4
  <2>7. e.value = c.plus
    BY <2>1, <2>3 DEF WritesEntry
  <2>8. Len(mem'[g]) = 2 /\ mem'[g][2] = e /\ mem'[g][1] = mem[g][1]
    BY <2>1, <2>6
  <2>9. mutex'[m].writer = {} => Single
    <3>1. ASSUME Alone(p, v, pc[v], m)
          PROVE  mutex'[m].writer # {}
      <4>1. mutex[m].writer # {}
        BY <3>1 DEF HoldsLock
      <4>2. MutexStays(p, v, m)
        BY <2>3, MutexEffects DEF MutexTaken, MutexGiven, MutexJoined, MutexLeft
      <4> QED
        BY <4>1, <4>2 DEF MutexStays
    <3> QED
      BY <2>5, <3>1 DEF Sole, Single
  <2>10. ASSUME NEW t \in DOMAIN p.code, Sole(p, t, pc'[t], m)
         PROVE  t = v
    <3>1. ~MutexTaken(p, v, m)
      BY <2>3 DEF MutexTaken
    <3> QED
      BY <2>5, <2>10, <3>1, BecomesSole, SoleOne
  <2>11. know'[v].seen[g] >= Len(mem'[g])
    BY <2>1 DEF WritesEntry
  <2>12. ASSUME NEW t \in DOMAIN p.code, Setting(p, t, g, m)'
         PROVE  FALSE
    <3>1. PICK i \in Points(p, t), s \in Points(p, t) : Sets(p, t, i, s, g, m) /\ i < pc'[t] /\ pc'[t] <= s
      BY <2>12 DEF Setting
    <3>2. ~(t = v /\ pc[t] = i)
      BY <2>3, <3>1 DEF Sets
    <3>3. i < pc[t] /\ pc[t] <= s
      BY <3>1, <3>2, BlockEntered
    <3>4. t = v
      <4>1. Setting(p, t, g, m)
        BY <3>1, <3>3 DEF Setting
      <4> QED
        BY <2>5, <4>1, SettingSole, SoleOne
    <3>5. pc[v] < s
      <4>1. s \in Nat
        BY DEF Points
      <4> QED
        BY <1>2, <2>1, <3>1, <3>4, <4>1
    <3> QED
      BY <2>1, <3>1, <3>3, <3>4, <3>5 DEF Sets
  <2> QED
    BY <1>1, <2>7, <2>8, <2>3, <2>9, <2>10, <2>11, <2>12
<1> QED
  BY <1>5, <1>6, ObjectWritten DEF Single

\* Who fills an object goes on with that until it sets what is tested.
LEMMA FillingStays ==
    ASSUME NEW p, WellFormed(p), Runs(p), NEW v \in DOMAIN p.code, Moves(p, v),
           NEW x, NEW g, NEW m, NEW t \in DOMAIN p.code, NEW i \in Points(p, t),
           Filling(p, t, i, x, g, m), Unwritten(p, v, g)
    PROVE  Filling(p, t, i, x, g, m)'
<1>1. PICK j \in Points(p, t), s \in Points(p, t) : Fills(p, t, i, j, s, x, g, m) /\ i < pc[t] /\ pc[t] <= s
  BY DEF Filling
<1>2. /\ pc[t] \in Nat /\ pc'[t] \in Nat /\ pc'[t] >= pc[t] /\ i \in Nat /\ j \in Nat /\ s \in Nat
      /\ Sets(p, t, j, s, g, m) /\ j < i
  BY <1>1, Later DEF Points, Fills
<1>3. i < pc'[t] /\ j < pc[t]
  BY <1>1, <1>2
<1>4. pc'[t] <= s
  <2>1. ASSUME pc'[t] > s
        PROVE  t = v /\ pc[t] = s /\ pc'[t] = s + 1
    BY <1>1, <1>2, <1>3, <2>1, BlockLeft
  <2>2. Ins(p, t, s).op \in WriteOps /\ Ins(p, t, s).loc = g
    BY <1>2 DEF Sets, WriteOps
  <2>3. ~(t = v /\ pc[t] = s /\ pc'[t] = s + 1)
    BY <1>2, <2>2 DEF Unwritten
  <2> QED
    BY <1>2, <2>1, <2>3
<1> QED
  BY <1>1, <1>3, <1>4 DEF Filling

\* Who writes what is tested sets it, and is the only one who writes.
LEMMA SetterSets ==
    ASSUME NEW p, Runs(p), NEW m \in p.locks, NEW g \in DOMAIN p.mem, SetOnce(p, g, m), SetOnly(p),
           NEW v \in DOMAIN p.code, NEW e, Written(p, v, g, e)
    PROVE  /\ Setting(p, v, g, m) /\ Sole(p, v, pc[v], m) /\ Ins(p, v, pc[v]).op = "store"
           /\ Len(mem[g]) = 1 /\ Len(mem'[g]) = 2 /\ mem'[g][2] = e
<1>1. /\ pc[v] \in Points(p, v) /\ Ins(p, v, pc[v]).op \in WriteOps /\ Ins(p, v, pc[v]).loc = g
      /\ Len(mem'[g]) = Len(mem[g]) + 1 /\ mem'[g][Len(mem'[g])] = e
  BY DEF Written
<1>2. PICK j \in Points(p, v) : Sets(p, v, j, pc[v], g, m)
  BY <1>1 DEF SetOnce
<1>3. pc[v] <= pc[v]
  BY DEF Runs
<1>4. j < pc[v] /\ Ins(p, v, pc[v]).op = "store"
  BY <1>2 DEF Sets
<1>5. Setting(p, v, g, m)
  BY <1>1, <1>2, <1>3, <1>4 DEF Setting
<1>6. Len(mem[g]) = 1
  BY <1>5 DEF SetOnly
<1>7. Len(mem'[g]) = 2
  BY <1>1, <1>6
<1> QED
  BY <1>1, <1>4, <1>5, <1>6, <1>7, SettingSole

\* The one who fills an object does so once.
LEMMA FilledOnlyKept ==
    ASSUME NEW p, WellFormed(p), Runs(p), Runs(p)', NEW v \in DOMAIN p.code,
           Moves(p, v), Executes(p, v), HoldsLock(p), SetOnly(p), FilledOnly(p)
    PROVE  FilledOnly(p)'
<1> SUFFICES ASSUME NEW x \in DOMAIN p.mem, NEW g \in DOMAIN p.mem, NEW m \in p.locks, FilledOnce(p, x, g, m)
             PROVE  /\ Len(mem'[x]) <= 2
                    /\ Len(mem'[x]) = 2 /\ Len(mem'[g]) = 1 =>
                          \E t \in DOMAIN p.code : \E i \in Points(p, t) : Filling(p, t, i, x, g, m)'
  BY DEF FilledOnly
<1> DEFINE c == Ins(p, v, pc[v])
<1>1. /\ Len(mem[x]) <= 2
      /\ Len(mem[x]) = 2 /\ Len(mem[g]) = 1 =>
            \E t \in DOMAIN p.code : \E i \in Points(p, t) : Filling(p, t, i, x, g, m)
  BY DEF FilledOnly
<1>2. SetOnce(p, g, m)
  BY DEF FilledOnce
<1>3. CASE Unwritten(p, v, x) /\ Unwritten(p, v, g)
  <2>1. mem'[x] = mem[x] /\ mem'[g] = mem[g]
    BY <1>3 DEF Unwritten
  <2>2. ASSUME Len(mem[x]) = 2, Len(mem[g]) = 1
        PROVE  \E t \in DOMAIN p.code : \E i \in Points(p, t) : Filling(p, t, i, x, g, m)'
    <3>0. PICK t \in DOMAIN p.code : \E i \in Points(p, t) : Filling(p, t, i, x, g, m)
      BY <1>1, <2>2
    <3>1. PICK i \in Points(p, t) : Filling(p, t, i, x, g, m)
      BY <3>0
    <3>2. Filling(p, t, i, x, g, m)'
      BY <1>3, <3>1, FillingStays
    <3> QED
      BY <3>2
  <2> QED
    BY <1>1, <2>1, <2>2
<1>4. CASE Unwritten(p, v, x) /\ \E e : Written(p, v, g, e)
  <2>1. mem'[x] = mem[x] /\ Len(mem'[g]) = 2
    BY <1>2, <1>4, SetterSets DEF Unwritten
  <2> QED
    BY <1>1, <2>1
<1>5. ASSUME NEW e, Written(p, v, x, e)
      PROVE  /\ Len(mem'[x]) <= 2
             /\ \E t \in DOMAIN p.code : \E i \in Points(p, t) : Filling(p, t, i, x, g, m)'
  <2>1. /\ pc[v] \in Points(p, v) /\ c.op \in WriteOps /\ c.loc = x /\ pc'[v] = pc[v] + 1
        /\ Len(mem'[x]) = Len(mem[x]) + 1
    BY <1>5 DEF Written
  <2>2. x # g /\ Sole(p, v, pc[v], m) /\ Setting(p, v, g, m)
    BY <2>1, FillerSets
  <2>3. PICK n \in Points(p, v) : n = pc[v]
    BY <2>1
  <2>4. PICK j \in Points(p, v), s \in Points(p, v) : Fills(p, v, n, j, s, x, g, m)
    BY <2>3, <2>1, FillerSets
  <2>5. n \in Nat /\ j \in Nat /\ s \in Nat /\ j < n /\ n < s
    BY <2>4 DEF Points, Fills
  <2>6. Filling(p, v, n, x, g, m)'
    <3>1. n < pc'[v] /\ pc'[v] <= s
      BY <2>3, <2>1, <2>5
    <3> QED
      BY <2>4, <3>1 DEF Filling
  <2>7. Len(mem[g]) = 1
    BY <1>2, <2>2 DEF SetOnly
  <2>8. Len(mem[x]) # 2
    <3>1. SUFFICES ASSUME Len(mem[x]) = 2
                   PROVE  FALSE
      OBVIOUS
    <3>2. PICK t \in DOMAIN p.code : \E i \in Points(p, t) : Filling(p, t, i, x, g, m)
      BY <1>1, <2>7, <3>1
    <3>3. PICK i \in Points(p, t) : Filling(p, t, i, x, g, m)
      BY <3>2
    <3>4. PICK a \in Points(p, t), b \in Points(p, t) : Fills(p, t, i, a, b, x, g, m) /\ i < pc[t] /\ pc[t] <= b
      BY <3>3 DEF Filling
    <3>5. t = v
      BY <2>2, <3>3, FillingSets, SettingSole, SoleOne
    <3>6. a < n /\ i # n /\ n <= b /\ Sets(p, v, a, b, g, m)
      BY <2>3, <2>5, <3>4, <3>5 DEF Fills, Points
    <3>7. n # b
      BY <2>3, <2>1, <2>2, <3>6 DEF Sets
    <3>8. n < b
      BY <2>5, <3>5, <3>6, <3>7 DEF Points
    <3> QED
      BY <2>3, <2>1, <3>4, <3>5, <3>6, <3>8 DEF Fills
  <2> DEFINE l == Len(mem[x])
  <2>9. l \in Nat /\ l # 2 /\ l <= 2 /\ Len(mem'[x]) = l + 1
    BY <1>1, <2>1, <2>8 DEF Runs
  <2> HIDE DEF l
  <2>10. Len(mem'[x]) <= 2
    BY <2>9
  <2> QED
    BY <2>6, <2>10
<1> QED
  BY <1>3, <1>4, <1>5, ObjectWritten

\* What is remembered anew is what the thread has just done.
LEMMA NewAccess ==
    ASSUME NEW p, WellFormed(p), Runs(p), NEW v \in DOMAIN p.code, AccessesAs(p, v),
           NEW x \in DOMAIN p.mem, NEW a \in accesses'[x], a \notin accesses[x]
    PROVE  LET c == Ins(p, v, pc[v])
           IN  /\ a.by = v /\ a.at = pc[v] /\ a.kind = KindOf(c.op) /\ c.loc = x
               /\ c.op \in AccessOps /\ pc[v] \in Points(p, v) /\ pc'[v] > pc[v]
<1> DEFINE c == Ins(p, v, pc[v])
<1>1. /\ pc[v] \in Points(p, v) /\ c.op \in AccessOps /\ Permitted(p, v, pc[v]) /\ Here(v) = c
      /\ pc'[v] > pc[v] /\ Access(v, KindOf(c.op))
  BY DEF AccessesAs
<1>2. c.loc \in DOMAIN p.mem /\ KindOf(c.op) \in {"read", "write", "free"}
  BY <1>1 DEF Permitted, KindOf
<1>3. a = [by |-> v, at |-> pc[v], kind |-> KindOf(c.op), plain |-> c.order = "plain"] /\ x = c.loc
  BY <1>1, <1>2, Remembers
<1> QED
  BY <1>1, <1>3

\* What is remembered as a write is one.
LEMMA IsWrite == ASSUME NEW op \in AccessOps, KindOf(op) = "write" PROVE op \in WriteOps
BY DEF KindOf, AccessOps

\* Who sets what is tested publishes what it has filled.
LEMMA FillPublishedKept ==
    ASSUME NEW p, WellFormed(p), Runs(p), Runs(p)', NEW v \in DOMAIN p.code,
           Moves(p, v), AccessesAs(p, v), Executes(p, v), Accessed(p), HoldsLock(p), SetOnly(p),
           FillPublished(p)
    PROVE  FillPublished(p)'
<1> SUFFICES ASSUME NEW x \in DOMAIN p.mem, NEW g \in DOMAIN p.mem, NEW m \in p.locks, FilledOnce(p, x, g, m),
                    NEW a \in accesses'[x], a.kind = "write"
             PROVE  IF Len(mem'[g]) = 1
                    THEN Filling(p, a.by, a.at, x, g, m)'
                    ELSE PublishedBySetting(p, g) => mem'[g][2].know.happened[a.by] >= a.at
  BY DEF FillPublished
<1> DEFINE c == Ins(p, v, pc[v])
<1>1. SetOnce(p, g, m)
  BY DEF FilledOnce
<1>2. CASE a \notin accesses[x]
  <2>0. PICK n \in Points(p, v) : a.by = v /\ a.at = n /\ n = pc[v]
    BY <1>2, NewAccess
  <2>1. /\ a.by = v /\ a.at = pc[v] /\ c.op \in WriteOps /\ c.loc = x /\ pc[v] \in Points(p, v) /\ pc'[v] > pc[v]
    BY <1>2, NewAccess, IsWrite
  <2>2. x # g /\ Setting(p, v, g, m)
    BY <2>1, FillerSets
  <2>3. PICK j \in Points(p, v), s \in Points(p, v) : Fills(p, v, n, j, s, x, g, m)
    BY <2>0, <2>1, FillerSets
  <2>4. Len(mem[g]) = 1
    BY <1>1, <2>2 DEF SetOnly
  <2>5. Unwritten(p, v, g)
    <3>1. \A e : ~Written(p, v, g, e)
      BY <2>1, <2>2 DEF Written
    <3> QED
      BY <3>1, ObjectWritten
  <2>6. /\ pc[v] \in Nat /\ pc'[v] \in Nat /\ j \in Nat /\ s \in Nat /\ j < pc[v] /\ pc[v] < s
        /\ Sets(p, v, j, s, g, m)
    BY <2>0, <2>3, Later DEF Points, Fills
  <2>7. pc'[v] <= s
    <3>1. pc'[v] > s => pc[v] = s
      BY <2>6, BlockLeft
    <3> QED
      BY <2>6, <3>1
  <2>8. Filling(p, v, n, x, g, m)'
    BY <2>0, <2>1, <2>3, <2>7 DEF Filling
  <2> QED
    BY <2>0, <2>4, <2>5, <2>8 DEF Unwritten
<1>3. CASE a \in accesses[x] /\ Len(mem[g]) = 1
  <2>1. a.by \in DOMAIN p.code
    BY <1>3 DEF Runs
  <2>2. Filling(p, a.by, a.at, x, g, m)
    BY <1>3 DEF FillPublished
  <2>3. a.at \in Points(p, a.by)
    BY <1>3 DEF Accessed
  <2>4. CASE Unwritten(p, v, g)
    BY <1>3, <2>1, <2>2, <2>3, <2>4, FillingStays DEF Unwritten
  <2>5. ASSUME NEW e, Written(p, v, g, e), PublishedBySetting(p, g)
        PROVE  e.know.happened[a.by] >= a.at
    <3>1. Sole(p, v, pc[v], m) /\ c.op = "store"
      BY <1>1, <2>5, SetterSets
    <3>2. a.by = v /\ a.at < pc[v]
      BY <2>1, <2>2, <2>3, <3>1, FillingSets, SettingSole, SoleOne
    <3>3. Releases(c.order)
      BY <2>5, <3>1 DEF Written, PublishedBySetting
    <3>4. e.know.happened[v] >= pc[v] /\ e \in Entries(p)
      BY <2>5, <3>3 DEF Written, WritesEntry
    <3>5. e.know.happened[v] \in Nat
      BY <3>4 DEF Entries, Knowledge
    <3>6. pc[v] \in Nat /\ a.at \in Nat
      BY <2>3 DEF Runs, Points
    <3> QED
      BY <3>2, <3>4, <3>5, <3>6
  <2>6. ASSUME NEW e, Written(p, v, g, e)
        PROVE  Len(mem'[g]) = 2 /\ mem'[g][2] = e
    BY <1>1, <2>6, SetterSets
  <2> QED
    BY <2>4, <2>5, <2>6, ObjectWritten
<1>4. CASE a \in accesses[x] /\ Len(mem[g]) # 1
  <2>1. \A e : ~Written(p, v, g, e)
    BY <1>1, <1>4, SetterSets
  <2>2. mem'[g] = mem[g]
    BY <2>1, ObjectWritten DEF Unwritten
  <2> QED
    BY <1>4, <2>2 DEF FillPublished
<1> QED
  BY <1>2, <1>3, <1>4

\* Who reads another value of what is tested than the first one reads the last one.
LEMMA FoundSet ==
    ASSUME NEW p, WellFormed(p), Runs(p), NEW v \in DOMAIN p.code, Moves(p, v), Executes(p, v),
           NEW g \in DOMAIN p.mem, NEW m \in p.locks, SetOnce(p, g, m), SetOnly(p),
           Ins(p, v, pc[v]).op = "load", Ins(p, v, pc[v]).loc = g, Ins(p, v, pc[v]).values = {p.mem[g]},
           pc'[v] # pc[v], pc'[v] # pc[v] + 1
    PROVE  /\ Len(mem[g]) = 2 /\ mem' = mem
           /\ Acquires(Ins(p, v, pc[v]).order) => AtLeast(p, know'[v], mem[g][2].know)
<1> DEFINE c == Ins(p, v, pc[v])
<1>1. PICK n : ReadsValue(p, v, n)
  BY DEF Executes, ReadOps
<1>2. /\ n \in 1..Len(mem[g]) /\ mem[g][n].value # p.mem[g]
      /\ Acquires(c.order) => AtLeast(p, know'[v], mem[g][n].know)
  BY <1>1 DEF ReadsValue
<1>3. Len(mem[g]) \in Nat /\ Len(mem[g]) <= 2 /\ mem[g][1].value = p.mem[g]
  BY DEF SetOnly, Runs
<1> DEFINE l == Len(mem[g])
<1>4. n \in 1..l /\ l \in Nat /\ l <= 2 /\ n # 1
  BY <1>2, <1>3
<1> HIDE DEF l
<1>5. l = 2 /\ n = 2
  BY <1>4
<1>6. mem' = mem
  BY DEF Executes, WriteOps
<1> QED
  BY <1>2, <1>5, <1>6 DEF l

\* Who comes past the check has read what is published with the object, or under
\* the lock, or has filled it himself.
LEMMA CheckedKnowsKept ==
    ASSUME NEW p, WellFormed(p), Runs(p), Runs(p)', NEW v \in DOMAIN p.code,
           Moves(p, v), AccessesAs(p, v), Executes(p, v), LocksAs(p, v), Accessed(p),
           HoldsLock(p), HolderKnows(p), Published(p), SetOnly(p), FillPublished(p), CheckedKnows(p)
    PROVE  CheckedKnows(p)'
<1> SUFFICES ASSUME NEW x \in DOMAIN p.mem, NEW g \in DOMAIN p.mem, NEW m \in p.locks, NEW u \in DOMAIN p.code,
                    NEW n \in Points(p, u), NEW j \in Points(p, u), NEW s \in Points(p, u),
                    FilledOnce(p, x, g, m), PublishedBySetting(p, g), Checks(p, u, n, j, s, g, m), pc'[u] > s
             PROVE  /\ Len(mem'[g]) = 2
                    /\ \A a \in accesses'[x] : a.kind = "write" /\ a.by # u => know'[u].happened[a.by] >= a.at
  BY DEF CheckedKnows
<1> DEFINE c == Ins(p, v, pc[v])
<1>1. SetOnce(p, g, m) /\ Sets(p, u, j, s, g, m)
  BY DEF FilledOnce, Checks
<1>2. pc[u] \in Nat /\ s \in Nat /\ pc[v] \in Nat
  BY DEF Runs, Points
<1>3. ASSUME NEW a \in accesses[x]
      PROVE  /\ a.by \in DOMAIN p.code /\ a.at \in Points(p, a.by) /\ a.at \in Nat
             /\ a.kind = "write" => Ins(p, a.by, a.at).op \in WriteOps /\ Ins(p, a.by, a.at).loc = x
  BY IsWrite DEF Runs, Accessed
<1>4. ASSUME NEW w \in DOMAIN p.code
      PROVE  /\ know[u].happened[w] \in Nat /\ know'[u].happened[w] \in Nat
             /\ know'[u].happened[w] >= know[u].happened[w]
  <2>1. know'[u] \in Knowledge(p)
    BY DEF Runs
  <2> QED
    BY <2>1, KnownTimes DEF Knowledge, Moves, AtLeast
<1>5. ASSUME NEW a \in accesses'[x], a \notin accesses[x], a.kind = "write"
      PROVE  a.by = v /\ Len(mem[g]) = 1
  <2>1. /\ a.by = v /\ c.op \in WriteOps /\ c.loc = x /\ pc[v] \in Points(p, v)
    BY <1>5, NewAccess, IsWrite
  <2>2. Setting(p, v, g, m)
    BY <2>1, FillerSets
  <2> QED
    BY <1>1, <2>1, <2>2 DEF SetOnly
<1>6. CASE pc[u] > s
  <2>1. Len(mem[g]) = 2 /\ \A a \in accesses[x] : a.kind = "write" /\ a.by # u => know[u].happened[a.by] >= a.at
    BY <1>6 DEF CheckedKnows
  <2>2. mem'[g] = mem[g]
    <3>1. \A e : ~Written(p, v, g, e)
      BY <1>1, <2>1, SetterSets
    <3> QED
      BY <3>1, ObjectWritten DEF Unwritten
  <2>3. ASSUME NEW a \in accesses'[x], a.kind = "write", a.by # u
        PROVE  know'[u].happened[a.by] >= a.at
    <3>1. a \in accesses[x]
      BY <1>5, <2>1, <2>3
    <3>2. know[u].happened[a.by] >= a.at /\ a.by \in DOMAIN p.code /\ a.at \in Nat
      BY <1>3, <2>1, <2>3, <3>1
    <3> QED
      BY <1>4, <3>2
  <2> QED
    BY <2>1, <2>2, <2>3
<1>7. CASE ~(pc[u] > s)
  <2>1. /\ u = v /\ pc'[v] # pc[v]
        /\ \/ pc[u] \in {n, j} /\ pc'[u] # pc[u] + 1
           \/ pc[u] = s
    BY <1>2, <1>7, CheckPassed
  <2>2. ASSUME NEW a \in accesses'[x], a.kind = "write", a.by # u
        PROVE  a \in accesses[x]
    BY <1>5, <2>1, <2>2
  <2>3. CASE pc[u] = n /\ pc'[u] # pc[u] + 1
    <3>1. c.op = "load" /\ c.loc = g /\ c.values = {p.mem[g]} /\ Acquires(c.order)
      BY <2>1, <2>3 DEF Checks
    <3>2. Len(mem[g]) = 2 /\ mem' = mem /\ AtLeast(p, know'[v], mem[g][2].know)
      BY <1>1, <2>1, <2>3, <3>1, FoundSet
    <3>3. ASSUME NEW a \in accesses[x], a.kind = "write"
          PROVE  know'[u].happened[a.by] >= a.at
      <4>1. a.by \in DOMAIN p.code /\ a.at \in Nat
        BY <1>3
      <4>2. mem[g][2].know.happened[a.by] >= a.at
        BY <3>2, <3>3 DEF FillPublished
      <4>3. know'[u].happened[a.by] >= mem[g][2].know.happened[a.by]
        BY <2>1, <3>2, <4>1 DEF AtLeast
      <4>4. mem[g][2].know.happened[a.by] \in Nat
        BY <3>2, <4>1, LastEntry
      <4> QED
        BY <1>4, <4>1, <4>2, <4>3, <4>4
    <3> QED
      BY <2>2, <3>2, <3>3
  <2>4. CASE pc[u] = j /\ pc'[u] # pc[u] + 1
    <3>1. c.op = "load" /\ c.loc = g /\ c.values = {p.mem[g]}
      BY <1>1, <2>1, <2>4 DEF Sets
    <3>2. Len(mem[g]) = 2 /\ mem' = mem
      BY <1>1, <2>1, <2>4, <3>1, FoundSet
    <3>3. Sole(p, u, pc[u], m)
      <4>1. j <= j /\ j <= s
        BY <1>1 DEF Sets, Points
      <4> QED
        BY <1>1, <2>4, <4>1 DEF Sets
    <3>4. ASSUME NEW a \in accesses[x], a.kind = "write", a.by # u
          PROVE  know'[u].happened[a.by] >= a.at
      <4>1. a.by \in DOMAIN p.code /\ a.at \in Nat
        BY <1>3
      <4>2. Sole(p, a.by, a.at, m)
        BY <1>3, <3>4, FillerSets
      <4>3. Alone(p, a.by, a.at, m) /\ Alone(p, u, pc[u], m)
        BY <3>3, <3>4, <4>1, <4>2 DEF Sole
      <4>4. Excluded(p, a.by, a.at, u, pc[u])
        BY <4>3 DEF Excluded
      <4>5. a.at <= know[u].happened[a.by]
        BY <3>4, <4>4, KnownExcluded
      <4> QED
        BY <1>4, <4>1, <4>5
    <3> QED
      BY <2>2, <3>2, <3>4
  <2>5. CASE pc[u] = s
    <3>1. c.op \in WriteOps /\ c.loc = g
      BY <1>1, <2>1, <2>5 DEF Sets, WriteOps
    <3>2. PICK e : Written(p, v, g, e)
      BY <2>1, <3>1, ObjectWritten DEF Unwritten
    <3>3. Len(mem[g]) = 1 /\ Len(mem'[g]) = 2 /\ Sole(p, v, pc[v], m)
      BY <1>1, <3>2, SetterSets
    <3>4. ASSUME NEW a \in accesses[x], a.kind = "write"
          PROVE  a.by = u
      <4>1. Filling(p, a.by, a.at, x, g, m)
        BY <3>3, <3>4 DEF FillPublished
      <4> QED
        BY <1>3, <2>1, <3>3, <4>1, FillingSets, SettingSole, SoleOne
    <3> QED
      BY <2>2, <3>3, <3>4
  <2> QED
    BY <2>1, <2>3, <2>4, <2>5
<1> QED
  BY <1>6, <1>7

\* Who is about to use an object that others fill knows them, and nobody fills it
\* after that.
LEMMA KnownInitialized ==
    ASSUME NEW p, Runs(p), Accessed(p), SetOnly(p), CheckedKnows(p),
           NEW t \in DOMAIN p.code, pc[t] \in Points(p, t), NEW x \in DOMAIN p.mem, Ins(p, t, pc[t]).loc = x,
           NEW a \in accesses[x], a.by # t
    PROVE  /\ Initialized(p, a.by, a.at, t, pc[t]) => a.at <= know[t].happened[a.by]
           /\ ~Initialized(p, t, pc[t], a.by, a.at)
<1>1. /\ a.by \in DOMAIN p.code /\ a.at \in Points(p, a.by) /\ a.at \in Nat /\ a.at < pc[a.by]
      /\ pc[a.by] \in Nat /\ pc[t] \in Nat /\ know[t].happened[a.by] \in Nat
      /\ Ins(p, a.by, a.at).loc = x /\ a.kind = KindOf(Ins(p, a.by, a.at).op)
  BY KnownTimes DEF Runs, Accessed
<1>2. ASSUME Initialized(p, a.by, a.at, t, pc[t])
      PROVE  a.at <= know[t].happened[a.by]
  <2>1. a.kind = "write"
    BY <1>1, <1>2 DEF Initialized, KindOf, WriteOps, ReadOps
  <2>2. PICK g \in DOMAIN p.mem, m \in p.locks, s \in Points(p, t), n \in Points(p, t), j \in Points(p, t) :
           /\ s < pc[t] /\ Checks(p, t, n, j, s, g, m)
           /\ PublishedBySetting(p, g) /\ FilledOnce(p, x, g, m)
    BY <1>1, <1>2 DEF Initialized
  <2>3. pc[t] > s
    BY <1>1, <2>2 DEF Points
  <2>4. know[t].happened[a.by] >= a.at
    BY <2>1, <2>2, <2>3 DEF CheckedKnows
  <2> QED
    BY <1>1, <2>4
<1>3. ASSUME Initialized(p, t, pc[t], a.by, a.at)
      PROVE  FALSE
  <2> DEFINE u == a.by
  <2>1. PICK g \in DOMAIN p.mem, m \in p.locks, s \in Points(p, u), n \in Points(p, u), j \in Points(p, u) :
           /\ s < a.at /\ Checks(p, u, n, j, s, g, m)
           /\ PublishedBySetting(p, g) /\ FilledOnce(p, x, g, m)
    BY <1>1, <1>3 DEF Initialized
  <2>2. pc[u] > s
    BY <1>1, <2>1 DEF Points
  <2>3. Len(mem[g]) = 2
    BY <1>1, <2>1, <2>2 DEF CheckedKnows
  <2>4. Setting(p, t, g, m)
    BY <1>3, <2>1, FillerSets DEF Initialized
  <2>5. Len(mem[g]) = 1
    BY <2>1, <2>4 DEF SetOnly, FilledOnce
  <2> QED
    BY <2>3, <2>5
<1> QED
  BY <1>2, <1>3

-----------------------------------------------------------------------------
(* No races *)

\* An access to a protected object is no race, since the thread knows of all the
\* accesses it conflicts with, and comes before the end of the lifetime.
LEMMA RaceFreeKept ==
    ASSUME NEW p, WellFormed(p), Ordered(p), NEW t \in DOMAIN p.code, AccessesAs(p, t)
    PROVE  RaceFree(p)'
<1> DEFINE c == Ins(p, t, pc[t])
           x == c.loc
<1>0. /\ Runs(p) /\ Accessed(p) /\ Started(p) /\ Joined(p) /\ FlagSeen(p) /\ RelaySeen(p)
      /\ HoldsLock(p) /\ HolderKnows(p) /\ Published(p) /\ SpinsAlone(p) /\ SpinPublished(p)
      /\ SetOnly(p) /\ CheckedKnows(p) /\ RaceFree(p)
  BY DEF Ordered
<1>1. CASE UNCHANGED <<accesses, undefined>>
  BY <1>0, <1>1 DEF RaceFree
<1>2. CASE /\ pc[t] \in Points(p, t) /\ c.op \in AccessOps /\ Permitted(p, t, pc[t]) /\ Here(t) = c
           /\ Access(t, KindOf(c.op))
  <2>1. x \in DOMAIN p.mem
    BY <1>2 DEF Permitted
  <2>2. undefined' = undefined \union (IF Undefined(t, KindOf(c.op)) THEN {x} ELSE {})
    BY <1>2 DEF Access
  <2>3. ASSUME Undefined(t, KindOf(c.op)), Protected(p, x)
        PROVE  FALSE
    <3>1. PICK a \in accesses[x] :
             \/ a.kind = "free"
             \/ /\ a.by # t /\ a.at > know[t].happened[a.by]
                /\ {a.kind, KindOf(c.op)} # {"read"}
                /\ a.plain \/ c.order = "plain"
      BY <1>2, <2>3 DEF Undefined
    <3> DEFINE v == a.by
               d == Ins(p, v, a.at)
    <3>2. /\ v \in DOMAIN p.code /\ a.at \in Nat /\ pc[t] \in Nat /\ pc[v] \in Nat
          /\ know[t] \in Knowledge(p)
      BY <1>0, <2>1 DEF Runs
    <3>3. know[t].happened[v] \in Nat
      BY <3>2 DEF Knowledge
    <3>4. /\ a.at \in Points(p, v) /\ a.at < pc[v] /\ d.loc = x /\ d.op \in AccessOps
          /\ a.kind = KindOf(d.op) /\ a.plain = (d.order = "plain")
      BY <1>0, <2>1 DEF Accessed
    <3>5. CASE a.kind = "free"
      <4>1. d.op = "free"
        BY <3>4, <3>5 DEF KindOf
      <4>2. IF t = v THEN pc[t] <= a.at ELSE Before(p, t, pc[t], v, a.at)
        BY <1>2, <2>3, <3>2, <3>4, <4>1 DEF Protected
      <4>3. CASE t = v
        BY <3>2, <3>4, <4>2, <4>3
      <4>4. CASE t # v
        <5>1. pc[v] >= a.at
          BY <3>2, <3>4
        <5>2. pc[t] < pc[t]
          BY <1>0, <1>2, <3>2, <3>4, <4>2, <4>4, <5>1, KnownBefore
        <5> QED
          BY <3>2, <5>2
      <4> QED
        BY <4>3, <4>4
    <3>6. CASE /\ v # t /\ a.at > know[t].happened[v]
               /\ {a.kind, KindOf(c.op)} # {"read"}
               /\ a.plain \/ c.order = "plain"
      <4>1. Conflict(d, c)
        <5>1. ~({d.op, c.op} \subseteq ReadOps)
          <6>1. ASSUME d.op \in ReadOps, c.op \in ReadOps
                PROVE  FALSE
            BY <3>4, <3>6, <6>1 DEF KindOf
          <6> QED
            BY <6>1
        <5>2. d.order = "plain" \/ c.order = "plain"
          BY <3>4, <3>6
        <5> QED
          BY <1>2, <3>4, <5>1, <5>2 DEF Conflict
      <4>2. \/ Before(p, v, a.at, t, pc[t]) \/ Before(p, t, pc[t], v, a.at)
            \/ Excluded(p, v, a.at, t, pc[t]) \/ ExcludedBySpin(p, v, a.at, t, pc[t])
            \/ Initialized(p, v, a.at, t, pc[t]) \/ Initialized(p, t, pc[t], v, a.at)
        BY <1>2, <2>3, <3>2, <3>4, <3>6, <4>1 DEF Protected
      <4>3. CASE Before(p, v, a.at, t, pc[t])
        <5>1. pc[t] >= pc[t]
          BY <3>2
        <5>2. a.at <= know[t].happened[v]
          BY <1>0, <1>2, <3>2, <3>4, <4>3, <5>1, KnownBefore
        <5> QED
          BY <3>2, <3>3, <3>6, <5>2
      <4>4. CASE Before(p, t, pc[t], v, a.at)
        <5>1. pc[v] >= a.at
          BY <3>2, <3>4
        <5>2. pc[t] < pc[t]
          BY <1>0, <1>2, <3>2, <3>4, <4>4, <5>1, KnownBefore
        <5> QED
          BY <3>2, <5>2
      <4>5. CASE Excluded(p, v, a.at, t, pc[t])
        <5>1. a.at <= know[t].happened[v]
          BY <1>0, <2>1, <3>6, <4>5, KnownExcluded
        <5> QED
          BY <3>2, <3>3, <3>6, <5>1
      <4>6. CASE ExcludedBySpin(p, v, a.at, t, pc[t])
        <5>1. a.at <= know[t].happened[v]
          BY <1>0, <2>1, <3>6, <4>6, KnownSpinning
        <5> QED
          BY <3>2, <3>3, <3>6, <5>1
      <4>7. CASE Initialized(p, v, a.at, t, pc[t])
        <5>1. a.at <= know[t].happened[v]
          BY <1>0, <1>2, <2>1, <3>6, <4>7, KnownInitialized
        <5> QED
          BY <3>2, <3>3, <3>6, <5>1
      <4>8. ~Initialized(p, t, pc[t], v, a.at)
        BY <1>0, <1>2, <2>1, <3>6, KnownInitialized
      <4> QED
        BY <4>2, <4>3, <4>4, <4>5, <4>6, <4>7, <4>8
    <3> QED
      BY <3>1, <3>5, <3>6
  <2> HIDE DEF c, x
  <2> QED
    BY <1>0, <2>1, <2>2, <2>3 DEF RaceFree
<1> QED
  BY <1>1, <1>2 DEF AccessesAs

-----------------------------------------------------------------------------
(* The theorems *)

\* Nobody knows anything at first.
LEMMA NothingKnown ==
    ASSUME NEW p, program = p
    PROVE  /\ Nothing \in Knowledge(p) /\ \A v \in DOMAIN p.code : Nothing.happened[v] = 0
BY DEF Nothing, Knowledge, Threads, Objects, Code

\* The invariant holds at first.
LEMMA InitOrdered == ASSUME NEW p, program = p, WellFormed(p), Init PROVE Ordered(p)
<1>1. /\ pc = [t \in DOMAIN p.code |-> IF t = Main THEN 1 ELSE 0]
      /\ reg = [t \in DOMAIN p.code |-> 0]
      /\ know = [t \in DOMAIN p.code |-> Nothing]
      /\ mem = [x \in DOMAIN p.mem |-> <<[value |-> p.mem[x], know |-> Nothing]>>]
      /\ mutex = [m \in p.locks |-> [writer |-> {}, readers |-> {}, written |-> Nothing, read |-> Nothing]]
      /\ accesses = [x \in DOMAIN p.mem |-> {}]
      /\ undefined = {}
  BY DEF Init, Threads, Objects, Mutexes, Code
<1>2. Nothing \in Knowledge(p) /\ \A v \in DOMAIN p.code : Nothing.happened[v] = 0
  BY NothingKnown
<1>3. \A t \in DOMAIN p.code : pc[t] \in {0, 1} /\ (t # Main => pc[t] = 0)
  BY <1>1
<1>4. Runs(p)
  <2>1. mem \in [DOMAIN p.mem -> Seq(Entries(p))] /\ \A x \in DOMAIN p.mem : Len(mem[x]) > 0
    <3>1. ASSUME NEW x \in DOMAIN p.mem
          PROVE  mem[x] \in Seq(Entries(p)) /\ Len(mem[x]) > 0
      <4>1. p.mem[x] \in Int
        BY DEF WellFormed
      <4> DEFINE e == [value |-> p.mem[x], know |-> Nothing]
      <4>2. e \in Entries(p) /\ mem[x] = <<e>>
        BY <1>1, <1>2, <4>1 DEF Entries
      <4> HIDE DEF e
      <4> QED
        BY <4>2
    <3> QED
      BY <1>1, <3>1
  <2>2. mutex \in [p.locks -> LockStates(p)]
    BY <1>1, <1>2 DEF LockStates
  <2>3. /\ pc \in [DOMAIN p.code -> Nat] /\ reg \in [DOMAIN p.code -> Int]
        /\ know \in [DOMAIN p.code -> Knowledge(p)]
        /\ accesses \in [DOMAIN p.mem -> SUBSET [by : DOMAIN p.code, at : Nat,
                             kind : {"read", "write", "free"}, plain : BOOLEAN]]
    BY <1>1, <1>2
  <2> QED
    BY <2>1, <2>2, <2>3 DEF Runs
<1>5. Accessed(p) /\ Published(p) /\ RaceFree(p)
  BY <1>1 DEF Accessed, Published, RaceFree
<1>6. Started(p)
  BY <1>1, <1>2, <1>3 DEF Started
<1>7. Joined(p)
  <2>1. ASSUME NEW u \in DOMAIN p.code, NEW j \in Points(p, Main)
        PROVE  ~(pc[Main] > j)
    <3>1. Main \in DOMAIN p.code /\ j \in Nat /\ j > 0
      BY DEF Points, WellFormed, Main
    <3> QED
      BY <1>3, <3>1
  <2> QED
    BY <2>1 DEF Joined
<1>8. FlagStored(p)
  <2>1. \A f \in DOMAIN p.mem : \A n \in 1..Len(mem[f]) : mem[f][n].value = p.mem[f]
    BY <1>1
  <2> QED
    BY <2>1 DEF FlagStored
<1>9. FlagSeen(p)
  <2>1. ASSUME NEW u \in DOMAIN p.code, NEW n \in Points(p, u) PROVE ~(pc[u] > n)
    BY <1>3 DEF Points
  <2> QED
    BY <2>1 DEF FlagSeen
<1>10. HoldsLock(p)
  <2>1. ASSUME NEW t \in DOMAIN p.code, NEW m
        PROVE  ~Alone(p, t, pc[t], m) /\ ~Sharing(p, t, pc[t], m)
    <3>1. \A j \in Points(p, t) : ~(j < pc[t])
      BY <1>3 DEF Points
    <3> QED
      BY <3>1 DEF Alone, Sharing, Between
  <2>2. \A m \in p.locks : mutex[m].writer = {} /\ mutex[m].readers = {}
    BY <1>1
  <2> QED
    BY <2>1, <2>2 DEF HoldsLock
<1>11. HolderKnows(p)
  <2>1. \A m \in p.locks : mutex[m].writer = {} /\ mutex[m].readers = {}
    BY <1>1
  <2> QED
    BY <2>1 DEF HolderKnows
<1>12. \A x \in DOMAIN p.mem : mem[x] = <<[value |-> p.mem[x], know |-> Nothing]>> /\ accesses[x] = {}
  BY <1>1
<1>13. /\ \A x \in DOMAIN p.mem : Len(mem[x]) = 1 /\ mem[x][Len(mem[x])].value = p.mem[x] /\ accesses[x] = {}
       /\ \A x \in DOMAIN p.mem : \A n \in 1..Len(mem[x]) : mem[x][n].value = p.mem[x]
  <2>1. ASSUME NEW x \in DOMAIN p.mem
        PROVE  Len(mem[x]) = 1 /\ mem[x][1].value = p.mem[x] /\ accesses[x] = {}
    <3> DEFINE e == [value |-> p.mem[x], know |-> Nothing]
    <3>1. mem[x] = <<e>> /\ e.value = p.mem[x] /\ accesses[x] = {}
      BY <1>12
    <3> HIDE DEF e
    <3> QED
      BY <3>1
  <2>2. \A x \in DOMAIN p.mem : \A n \in 1..Len(mem[x]) : n = 1
    <3>1. \A n \in 1..1 : n = 1
      OBVIOUS
    <3> QED
      BY <2>1, <3>1
  <2> QED
    BY <2>1, <2>2
<1>14. ASSUME NEW t \in DOMAIN p.code, NEW n \in Points(p, t)
       PROVE  ~(n < pc[t])
  BY <1>3 DEF Points
<1>15. RelayStored(p) /\ RelaySeen(p)
  <2>1. RelayStored(p)
    BY <1>13 DEF RelayStored
  <2>2. \A u \in DOMAIN p.code : \A n \in Points(p, u) : ~(pc[u] > n)
    BY <1>3 DEF Points
  <2> QED
    BY <2>1, <2>2 DEF RelaySeen
<1>16. SpinsAlone(p) /\ SpinPublished(p)
  <2>1. \A t \in DOMAIN p.code : \A f : ~Spins(p, t, pc[t], f)
    BY <1>14 DEF Spins, Between
  <2>2. \A f \in DOMAIN p.mem : SpinLock(p, f) => mem[f][Len(mem[f])].value = 0
    BY <1>13 DEF SpinLock
  <2> QED
    BY <1>13, <2>1, <2>2 DEF SpinsAlone, SpinPublished
<1>17. SetOnly(p)
  <2>1. \A t \in DOMAIN p.code : \A g, m : ~Setting(p, t, g, m)
    BY <1>14 DEF Setting
  <2>2. \A g \in DOMAIN p.mem : /\ Len(mem[g]) = 1 /\ mem[g][1].value = p.mem[g] /\ Nothing.seen[g] = 1
                                /\ \A t \in DOMAIN p.code : know[t] = Nothing
                                /\ \A m \in p.locks : mutex[m].written = Nothing
    BY <1>1, <1>13 DEF Nothing, Objects
  <2> QED
    BY <2>1, <2>2 DEF SetOnly
<1>18. FilledOnly(p) /\ FillPublished(p)
  <2>1. \A x \in DOMAIN p.mem : Len(mem[x]) <= 2 /\ Len(mem[x]) # 2 /\ accesses[x] = {}
    BY <1>13
  <2> QED
    BY <2>1 DEF FilledOnly, FillPublished
<1>19. CheckedKnows(p)
  <2>1. \A u \in DOMAIN p.code : \A s \in Points(p, u) : ~(pc[u] > s)
    BY <1>3 DEF Points
  <2> QED
    BY <2>1 DEF CheckedKnows
<1> QED
  BY <1>4, <1>5, <1>6, <1>7, <1>8, <1>9, <1>10, <1>11, <1>15, <1>16, <1>17, <1>18, <1>19 DEF Ordered

\* Every step of a well-formed program preserves it.
LEMMA OrderedKept ==
    ASSUME NEW p, WellFormed(p), Ordered(p), NEW t \in DOMAIN p.code, Step(t)
    PROVE  Ordered(p)'
<1>1. /\ Runs(p) /\ Accessed(p) /\ Started(p) /\ Joined(p) /\ FlagStored(p) /\ FlagSeen(p)
      /\ RelayStored(p) /\ RelaySeen(p) /\ HoldsLock(p) /\ HolderKnows(p) /\ Published(p)
      /\ SpinsAlone(p) /\ SpinPublished(p)
      /\ SetOnly(p) /\ FilledOnly(p) /\ FillPublished(p) /\ CheckedKnows(p)
  BY DEF Ordered
<1>2. Runs(p)' /\ Moves(p, t) /\ AccessesAs(p, t) /\ Executes(p, t) /\ LocksAs(p, t)
  BY <1>1, StepEffects
<1>3. Accessed(p)' /\ Started(p)' /\ Joined(p)'
  BY <1>1, <1>2, AccessedKept, StartedKept, JoinedKept
<1>4. FlagStored(p)' /\ FlagSeen(p)'
  BY <1>1, <1>2, FlagStoredKept, FlagSeenKept
<1>5. RelayStored(p)' /\ RelaySeen(p)'
  BY <1>1, <1>2, RelayStoredKept, RelaySeenKept
<1>6. HoldsLock(p)' /\ HolderKnows(p)' /\ Published(p)'
  BY <1>1, <1>2, HoldsLockKept, HolderKnowsKept, PublishedKept
<1>7. SpinsAlone(p)' /\ SpinPublished(p)'
  BY <1>1, <1>2, SpinsAloneKept, SpinPublishedKept
<1>8. SetOnly(p)' /\ FilledOnly(p)'
  BY <1>1, <1>2, SetOnlyKept, FilledOnlyKept
<1>9. FillPublished(p)' /\ CheckedKnows(p)'
  BY <1>1, <1>2, FillPublishedKept, CheckedKnowsKept
<1>10. RaceFree(p)'
  BY <1>2, RaceFreeKept
<1> QED
  BY <1>2, <1>3, <1>4, <1>5, <1>6, <1>7, <1>8, <1>9, <1>10 DEF Ordered

\* The program that runs is chosen once.
LEMMA ProgramStays == ASSUME NEW t, Step(t) PROVE program' = program
<1>1. CASE Loads(t) \/ Awaits(t)
  BY <1>1 DEF Loads, Awaits, Read
<1>2. CASE Stores(t) \/ Modifies(t)
  BY <1>2 DEF Stores, Modifies, WriteNew
<1>3. CASE LocksExclusive(t) \/ UnlocksExclusive(t) \/ LocksShared(t) \/ UnlocksShared(t)
  BY <1>3 DEF LocksExclusive, UnlocksExclusive, LocksShared, UnlocksShared, OnMutex
<1>4. CASE Starts(t) \/ Joins(t) \/ Detaches(t) \/ Drops(t)
  BY <1>4 DEF Starts, Joins, Detaches, Drops, OnOther
<1>5. CASE Says(t) \/ Frees(t) \/ Throws(t)
  BY <1>5 DEF Says, Frees, Throws
<1> QED
  BY <1>1, <1>2, <1>3, <1>4, <1>5 DEF Step

\* The invariant of every program whose threads use locks and each other as they
\* should.
OrderInv == \A p : program = p /\ WellFormed(p) => Ordered(p)

\* So it holds in every state.
LEMMA OrderInvariant == Spec => []OrderInv
<1>1. Init => OrderInv
  BY InitOrdered DEF OrderInv
<1>2. OrderInv /\ [Next]_vars => OrderInv'
  <2> SUFFICES ASSUME OrderInv, [Next]_vars, NEW p, program' = p, WellFormed(p)
               PROVE  Ordered(p)'
    BY DEF OrderInv
  <2>1. CASE UNCHANGED vars
    <3>1. program = p /\ Ordered(p)
      BY <2>1 DEF OrderInv, vars
    <3>2. /\ program' = program /\ pc' = pc /\ reg' = reg /\ know' = know /\ mem' = mem
          /\ mutex' = mutex /\ accesses' = accesses /\ undefined' = undefined
      BY <2>1 DEF vars
    <3>3. /\ Runs(p) /\ Accessed(p) /\ Started(p) /\ Joined(p) /\ FlagStored(p) /\ FlagSeen(p)
          /\ RelayStored(p) /\ RelaySeen(p) /\ HoldsLock(p) /\ HolderKnows(p) /\ Published(p)
          /\ SpinsAlone(p) /\ SpinPublished(p)
          /\ SetOnly(p) /\ FilledOnly(p) /\ FillPublished(p) /\ CheckedKnows(p) /\ RaceFree(p)
      BY <3>1 DEF Ordered
    <3>4. Runs(p)' /\ Accessed(p)' /\ Started(p)' /\ Joined(p)'
      BY <3>1, <3>2, <3>3 DEF Runs, Accessed, Started, Joined
    <3>5. FlagStored(p)' /\ FlagSeen(p)' /\ HoldsLock(p)' /\ HolderKnows(p)'
      BY <3>2, <3>3 DEF FlagStored, FlagSeen, HoldsLock, HolderKnows
    <3>6. Published(p)' /\ RaceFree(p)' /\ RelayStored(p)' /\ RelaySeen(p)'
      BY <3>2, <3>3 DEF Published, RaceFree, RelayStored, RelaySeen
    <3>7. SpinsAlone(p)' /\ SpinPublished(p)'
      BY <3>2, <3>3 DEF SpinsAlone, SpinPublished
    <3>8. SetOnly(p)' /\ FilledOnly(p)'
      BY <3>2, <3>3 DEF SetOnly, FilledOnly, Setting, Filling
    <3>9. FillPublished(p)' /\ CheckedKnows(p)'
      BY <3>2, <3>3 DEF FillPublished, CheckedKnows, Filling
    <3> QED
      BY <3>4, <3>5, <3>6, <3>7, <3>8, <3>9 DEF Ordered
  <2>2. CASE Next
    <3>1. PICK t \in Threads : Step(t)
      BY <2>2 DEF Next
    <3>2. program' = program
      BY <3>1, ProgramStays
    <3>3. program = p /\ Ordered(p) /\ t \in DOMAIN p.code
      BY <3>1, <3>2 DEF OrderInv, Threads, Code
    <3> QED
      BY <3>1, <3>3, OrderedKept
  <2> QED
    BY <2>1, <2>2
<1> QED
  BY <1>1, <1>2, PTL DEF Spec

\* The critical sections of a mutex exclude each other: nobody is in one together
\* with a thread that holds the mutex alone, whatever the program does in between.
CriticalSectionsExclude ==
    WellFormed(program) =>
       \A m \in Mutexes : \A t, u \in Threads :
          t # u /\ Alone(program, t, pc[t], m) =>
             ~Alone(program, u, pc[u], m) /\ ~Sharing(program, u, pc[u], m)

\* A mutex is held by one thread, or by readers, at any point of any program.
THEOREM LocksExclude == Spec => []CriticalSectionsExclude
<1>1. OrderInv => CriticalSectionsExclude
  <2> SUFFICES ASSUME OrderInv, WellFormed(program), NEW m \in Mutexes,
                      NEW t \in Threads, NEW u \in Threads, t # u, Alone(program, t, pc[t], m)
               PROVE  ~Alone(program, u, pc[u], m) /\ ~Sharing(program, u, pc[u], m)
    BY DEF CriticalSectionsExclude
  <2>1. HoldsLock(program)
    BY DEF OrderInv, Ordered
  <2>2. /\ t \in DOMAIN program.code /\ u \in DOMAIN program.code /\ m \in program.locks
    BY DEF Threads, Code, Mutexes
  <2> QED
    BY <2>1, <2>2 DEF HoldsLock
<1> QED
  BY <1>1, OrderInvariant, PTL

\* Every use of an object that the program's locks, threads and flags protect is
\* defined: there is no interleaving, and no choice of what a load reads, that lets
\* two threads access it at once or one access it after its lifetime.
THEOREM NoRaceIfDisciplined ==
    Spec => [](Disciplined(program) => undefined \subseteq program.unsafe)
<1>1. OrderInv => (Disciplined(program) => undefined \subseteq program.unsafe)
  <2> SUFFICES ASSUME OrderInv, Disciplined(program)
               PROVE  undefined \subseteq program.unsafe
    OBVIOUS
  <2>1. RaceFree(program)
    BY DEF OrderInv, Ordered, Disciplined
  <2> QED
    BY <2>1 DEF RaceFree, Disciplined
<1> QED
  BY <1>1, OrderInvariant, PTL

\* The program is one of the catalogue.
InCatalogue == \E i \in DOMAIN Programs : program = Programs[i]

\* So it is in every state.
LEMMA CatalogueRuns == ASSUME Catalogue = Programs PROVE Spec => []InCatalogue
<1>1. Init => InCatalogue
  BY DEF Init, InCatalogue
<1>2. InCatalogue /\ [Next]_vars => InCatalogue'
  <2>1. [Next]_vars => program' = program
    BY ProgramStays DEF Next, vars
  <2> QED
    BY <2>1 DEF InCatalogue
<1> QED
  BY <1>1, <1>2, PTL DEF Spec

\* For all programs of the catalogue but the two of DecidedByValues, accesses to all
\* objects but those the program is wrong about are ordered in every state; which is
\* the run's property for all that are not wrong in every execution.
THEOREM CatalogueOrdered ==
    ASSUME Catalogue = Programs
    PROVE  Spec => [](program \notin DecidedByValues =>
                         /\ undefined \subseteq program.unsafe
                         /\ program.always = {} => AccessesOrdered)
<1> DEFINE Orders == program \notin DecidedByValues =>
                        /\ undefined \subseteq program.unsafe
                        /\ program.always = {} => AccessesOrdered
           Defined == Disciplined(program) => undefined \subseteq program.unsafe
<1>1. Spec => []InCatalogue
  BY CatalogueRuns
<1>2. Spec => []Defined
  BY NoRaceIfDisciplined
<1>3. InCatalogue /\ Defined => Orders
  BY ProgramsDisciplined DEF InCatalogue, AccessesOrdered
<1> HIDE DEF Orders, Defined
<1>4. Spec => []Orders
  BY <1>1, <1>2, <1>3, PTL
<1> QED
  BY <1>4 DEF Orders

\* What is filled under a lock, or by one thread, before something says that it is,
\* and only if nothing says so, is constructed once: by whoever comes first, whatever
\* the others see without the lock.
THEOREM OnceIfFilled == Spec => [](WellFormed(program) /\ ConstructsOnce(program) => ConstructedOnce)
<1>1. OrderInv => (WellFormed(program) /\ ConstructsOnce(program) => ConstructedOnce)
  <2> SUFFICES ASSUME OrderInv, WellFormed(program), ConstructsOnce(program), NEW x \in program.once
               PROVE  Len(mem[x]) <= 2
    BY DEF ConstructedOnce
  <2>1. FilledOnly(program)
    BY DEF OrderInv, Ordered
  <2>2. x \in DOMAIN program.mem /\ \E g \in DOMAIN program.mem : \E m \in program.locks : FilledOnce(program, x, g, m)
    BY DEF ConstructsOnce
  <2> QED
    BY <2>1, <2>2 DEF FilledOnly
<1> QED
  BY <1>1, OrderInvariant, PTL

\* So are the singletons of all programs of the catalogue, and all it says is done
\* once, but for the stop callback.
THEOREM CatalogueConstructed ==
    ASSUME Catalogue = Programs
    PROVE  Spec => [](program \notin DecidedByValues => ConstructedOnce)
<1> DEFINE Constructs == program \notin DecidedByValues => ConstructedOnce
           Once == WellFormed(program) /\ ConstructsOnce(program) => ConstructedOnce
<1>1. Spec => []InCatalogue
  BY CatalogueRuns
<1>2. Spec => []Once
  BY OnceIfFilled
<1>3. InCatalogue /\ Once => Constructs
  BY ProgramsDisciplined DEF InCatalogue
<1> HIDE DEF Constructs, Once
<1>4. Spec => []Constructs
  BY <1>1, <1>2, <1>3, PTL
<1> QED
  BY <1>4 DEF Constructs
=============================================================================
