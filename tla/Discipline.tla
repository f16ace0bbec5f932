----------------------------- MODULE Discipline -----------------------------
(***************************************************************************)
(* What a program does to keep the accesses of its threads in order: it    *)
(* locks a mutex around them, it starts a thread after them, joins the     *)
(* thread before them, or waits for a value that is stored after them.     *)
(* Whether it does is a property of its code; that this is enough is a     *)
(* theorem about the machine.                                              *)
(***************************************************************************)
EXTENDS SharedMemory

Instructions == [op : STRING, loc : STRING, order : STRING, values : SUBSET Int, skip : Nat,
                 keep : Int, print : BOOLEAN, times : Int, plus : Int, thread : Nat]

ReadOps   == {"load", "await"}
WriteOps   == {"store", "modify"}
AccessOps == ReadOps \union WriteOps \union {"free"}

Ins(p, t, i) == p.code[t][i]
Points(p, t) == 1..Len(p.code[t])

-----------------------------------------------------------------------------
(* Locks *)

\* Before its i-th instruction t has locked m and not unlocked it since.
Between(p, t, i, m, lock, unlock) ==
    \E j \in Points(p, t) :
       /\ j < i /\ Ins(p, t, j).op = lock /\ Ins(p, t, j).loc = m
       /\ \A k \in Points(p, t) : j < k /\ k < i => ~(Ins(p, t, k).op = unlock /\ Ins(p, t, k).loc = m)

Alone(p, t, i, m)   == Between(p, t, i, m, "lock", "unlock")
Sharing(p, t, i, m) == Between(p, t, i, m, "lockShared", "unlockShared")

\* Of two accesses under one mutex, at most readers share it.
Excluded(p, t, i, u, k) ==
    \E m \in p.locks : \/ Alone(p, t, i, m) /\ (Alone(p, u, k, m) \/ Sharing(p, u, k, m))
                       \/ Sharing(p, t, i, m) /\ Alone(p, u, k, m)

-----------------------------------------------------------------------------
(* Threads and flags *)

\* No branch leads past the j-th instruction.
Passed(p, t, j) == \A i \in Points(p, t) : Ins(p, t, i).op = "load" => ~(i < j /\ j <= i + Ins(p, t, i).skip)

\* main() executes its i-th instruction and starts u afterwards.
StartedAfter(p, i, u) ==
    \E j \in Points(p, Main) : i < j /\ Ins(p, Main, j).op = "start" /\ Ins(p, Main, j).thread = u

\* main() joins t before its k-th instruction.
JoinedBefore(p, t, k) ==
    \E j \in Points(p, Main) :
       j < k /\ Ins(p, Main, j).op = "join" /\ Ins(p, Main, j).thread = t /\ Passed(p, Main, j)

\* Nothing but the j-th instruction of t writes f, and it publishes.
Publishes(p, t, j, f) ==
    /\ Ins(p, t, j).op = "store" /\ Ins(p, t, j).loc = f /\ Releases(Ins(p, t, j).order)
    /\ \A u \in DOMAIN p.code : \A k \in Points(p, u) :
          Ins(p, u, k).op \in WriteOps /\ Ins(p, u, k).loc = f => u = t /\ k = j

\* The n-th instruction of u waits for what is published.
AwaitsFlag(p, u, n, f) ==
    /\ Ins(p, u, n).op = "await" /\ Ins(p, u, n).loc = f /\ Acquires(Ins(p, u, n).order)
    /\ p.mem[f] \in Ins(p, u, n).values /\ Passed(p, u, n)

\* t publishes something after its i-th instruction that u awaits before its k-th.
AwaitedBefore(p, t, i, u, k) ==
    \E f \in DOMAIN p.mem : \E j \in Points(p, t), n \in Points(p, u) :
       i < j /\ n < k /\ Publishes(p, t, j, f) /\ AwaitsFlag(p, u, n, f)

\* The n-th instruction of u waits for what t has published with its j-th one.
HandsOver(p, t, j, u, n) == \E f \in DOMAIN p.mem : Publishes(p, t, j, f) /\ AwaitsFlag(p, u, n, f)

\* A third thread waits for t before it publishes what u awaits.
RelayedBefore(p, t, i, u, k) ==
    \E w \in DOMAIN p.code : \E a, b \in Points(p, w) :
       /\ a < b
       /\ \E j \in Points(p, t) : i < j /\ HandsOver(p, t, j, w, a)
       /\ \E n \in Points(p, u) : n < k /\ HandsOver(p, w, b, u, n)

\* The i-th instruction of t always comes before the k-th one of u.
Before(p, t, i, u, k) ==
    \/ t = Main /\ StartedAfter(p, i, u)
    \/ u = Main /\ JoinedBefore(p, t, k)
    \/ AwaitedBefore(p, t, i, u, k) \/ RelayedBefore(p, t, i, u, k)

-----------------------------------------------------------------------------
(* Spin locks *)

\* Before its i-th instruction t has exchanged f and not stored it since.
Spins(p, t, i, f) == Between(p, t, i, f, "modify", "store")

\* f is 0 unless a thread is between exchanging and storing it.
SpinLock(p, f) ==
    /\ p.mem[f] = 0
    /\ \A t \in DOMAIN p.code : \A i \in Points(p, t) :
          LET c == Ins(p, t, i)
          IN  /\ c.op \in WriteOps /\ c.loc = f =>
                    \/ c.op = "modify" /\ c.values = {1} /\ c.times = 0 /\ c.plus = 1 /\ Acquires(c.order)
                    \/ c.op = "store" /\ c.times = 0 /\ c.plus = 0 /\ Releases(c.order) /\ Spins(p, t, i, f)
              /\ c.op = "load" => (Spins(p, t, i + 1 + c.skip, f) <=> Spins(p, t, i, f))

\* Both accesses are made under one spin lock.
ExcludedBySpin(p, t, i, u, k) ==
    \E f \in DOMAIN p.mem : Spins(p, t, i, f) /\ Spins(p, u, k, f) /\ SpinLock(p, f)

-----------------------------------------------------------------------------
(* Initialization *)

\* Nobody but t writes what is written under m.
Sole(p, t, i, m) == Alone(p, t, i, m) \/ DOMAIN p.code = {t}

\* If t finds at its j-th instruction that g is not set yet, it goes on to the s-th,
\* which sets g; it cannot come there, or get away, otherwise.
Sets(p, t, j, s, g, m) ==
    LET test == Ins(p, t, j)
        set  == Ins(p, t, s)
    IN  /\ j < s /\ test.op = "load" /\ test.loc = g /\ test.values = {p.mem[g]} /\ test.skip = s - j
        /\ set.op = "store" /\ set.loc = g /\ set.times = 0 /\ set.plus # p.mem[g]
        /\ \A i \in Points(p, t) :
              /\ j <= i /\ i <= s => Sole(p, t, i, m)
              /\ j < i /\ i < s => ~(Ins(p, t, i).op \in WriteOps /\ Ins(p, t, i).loc = g)
              /\ Ins(p, t, i).op = "load" =>
                    LET n == i + 1 + Ins(p, t, i).skip
                    IN  /\ i < j => n <= j \/ n > s
                        /\ j < i /\ i < s => n <= s

\* g is only set by those who find that it is not.
SetOnce(p, g, m) ==
    \A t \in DOMAIN p.code : \A s \in Points(p, t) :
       Ins(p, t, s).op \in WriteOps /\ Ins(p, t, s).loc = g => \E j \in Points(p, t) : Sets(p, t, j, s, g, m)

\* The i-th instruction of t is the only one that writes x until g is set.
Fills(p, t, i, j, s, x, g, m) ==
    /\ Sets(p, t, j, s, g, m) /\ j < i /\ i < s
    /\ \A k \in Points(p, t) : j < k /\ k < s /\ Ins(p, t, k).op \in WriteOps /\ Ins(p, t, k).loc = x => k = i

\* x is only written by those who set g then.
FilledOnce(p, x, g, m) ==
    /\ SetOnce(p, g, m)
    /\ \A t \in DOMAIN p.code : \A i \in Points(p, t) :
          Ins(p, t, i).op \in WriteOps /\ Ins(p, t, i).loc = x =>
             \E j, s \in Points(p, t) : Fills(p, t, i, j, s, x, g, m)

\* u finds at its n-th instruction that g is set, or tests it again under m and
\* sets it.
Checks(p, u, n, j, s, g, m) ==
    LET test == Ins(p, u, n)
    IN  /\ n < j /\ test.op = "load" /\ test.loc = g /\ test.values = {p.mem[g]} /\ Acquires(test.order)
        /\ n + test.skip >= s /\ Passed(p, u, n) /\ Sets(p, u, j, s, g, m)
        /\ \A i \in Points(p, u) : n < i /\ i < j /\ Ins(p, u, i).op = "load" => i + Ins(p, u, i).skip < j

\* Who has set g has published it.
PublishedBySetting(p, g) ==
    \A t \in DOMAIN p.code : \A s \in Points(p, t) :
       Ins(p, t, s).op = "store" /\ Ins(p, t, s).loc = g => Releases(Ins(p, t, s).order)

\* t fills x, and u uses it when it knows that x is filled.
Initialized(p, t, i, u, k) ==
    /\ Ins(p, t, i).op \in WriteOps /\ Ins(p, u, k).op \in ReadOps
    /\ \E g \in DOMAIN p.mem : \E m \in p.locks :
          /\ \E s \in Points(p, u) : s < k /\ \E n, j \in Points(p, u) : Checks(p, u, n, j, s, g, m)
          /\ PublishedBySetting(p, g) /\ FilledOnce(p, Ins(p, t, i).loc, g, m)

-----------------------------------------------------------------------------
(* Programs *)

\* Threads unlock what they have locked, do not branch into a critical section,
\* and are started once, by main().
Permitted(p, t, i) ==
    LET c == Ins(p, t, i)
    IN  /\ c.op \in AccessOps => c.loc \in DOMAIN p.mem
        /\ c.op \in {"lock", "unlock", "lockShared", "unlockShared"} => c.loc \in p.locks
        /\ c.op = "unlock" => Alone(p, t, i, c.loc)
        /\ c.op = "unlockShared" => Sharing(p, t, i, c.loc)
        /\ c.op = "load" =>
              \A m \in p.locks : /\ Alone(p, t, i + 1 + c.skip, m) => Alone(p, t, i, m)
                                 /\ Sharing(p, t, i + 1 + c.skip, m) => Sharing(p, t, i, m)
        /\ c.op = "start" =>
              /\ t = Main /\ c.thread # Main
              /\ \A j \in Points(p, t) : Ins(p, t, j).op = "start" /\ Ins(p, t, j).thread = c.thread => j = i

WellFormed(p) ==
    /\ p.code \in Seq(Seq(Instructions)) /\ p.mem \in [DOMAIN p.mem -> Int]
    /\ \A t \in DOMAIN p.code : \A i \in Points(p, t) : Permitted(p, t, i)

\* Two accesses that would be a race.
Conflict(c, d) == /\ c.op \in AccessOps /\ d.op \in AccessOps /\ c.loc = d.loc
                  /\ ~({c.op, d.op} \subseteq ReadOps)
                  /\ c.order = "plain" \/ d.order = "plain"

\* Accesses to x that conflict are ordered or exclude each other, and its lifetime
\* ends after the last one.
Protected(p, x) ==
    \A t, u \in DOMAIN p.code : \A i \in Points(p, t), k \in Points(p, u) :
       Ins(p, t, i).loc = x /\ Ins(p, u, k).loc = x =>
         /\ t # u /\ Conflict(Ins(p, t, i), Ins(p, u, k)) =>
               \/ Before(p, t, i, u, k) \/ Before(p, u, k, t, i)
               \/ Excluded(p, t, i, u, k) \/ ExcludedBySpin(p, t, i, u, k)
               \/ Initialized(p, t, i, u, k) \/ Initialized(p, u, k, t, i)
         /\ Ins(p, t, i).op \in AccessOps /\ Ins(p, u, k).op = "free" =>
               IF t = u THEN i <= k ELSE Before(p, t, i, u, k)

\* What is to be constructed once is filled before something says that it is.
ConstructsOnce(p) ==
    /\ p.once \subseteq DOMAIN p.mem
    /\ \A x \in p.once : \E g \in DOMAIN p.mem : \E m \in p.locks : FilledOnce(p, x, g, m)

\* All objects are protected but those whose use the program gets wrong.
Disciplined(p) == WellFormed(p) /\ \A x \in DOMAIN p.mem \ p.unsafe : Protected(p, x)
=============================================================================
