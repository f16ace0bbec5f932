----------------------------- MODULE ThreadCode -----------------------------
(***************************************************************************)
(* The vocabulary in which the programs about threads and memory are       *)
(* written down: what a thread does to the memory, the mutexes and the     *)
(* other threads, as instructions for the machine of module SharedMemory.  *)
(* A program is a record:                                                  *)
(*                                                                         *)
(*   code     the instructions of every thread; the first one is main()    *)
(*   mem      the initial value of every object in memory                  *)
(*   locks    its mutexes                                                  *)
(*   unsafe   objects whose use is undefined behaviour in some executions, *)
(*   always   and in every execution that returns from main()              *)
(*   prints   for every thread that prints, what it may have printed when  *)
(*            main() returns                                               *)
(*   once     objects that are to be constructed once                      *)
(*   ends     how it may end: "returns", "hangs" or "terminates"           *)
(*                                                                         *)
(* A thread computes in one register.  A text is the number whose decimal  *)
(* digits stand for its parts.                                             *)
(***************************************************************************)
EXTENDS Integers, Sequences, FiniteSetsExt, SequencesExt, TLC

Program == [code |-> <<>>, mem |-> <<>>, locks |-> {}, unsafe |-> {}, always |-> {},
            prints |-> <<>>, once |-> {}, ends |-> {"returns"}]

-----------------------------------------------------------------------------
(* Memory.  The order is "plain" for an object that is not atomic, or one  *)
(* of the memory orders.                                                   *)

Instruction == [op |-> "load", loc |-> "none", order |-> "plain", values |-> {}, skip |-> 0,
                keep |-> 0, print |-> FALSE, times |-> 0, plus |-> 0, thread |-> 0]

\* The register becomes the value read; Plus adds it, Show prints the result.
Load(x, order) == [Instruction EXCEPT !.loc = x, !.order = order]
Plus(i)        == [i EXCEPT !.keep = 1]
Show(i)        == [i EXCEPT !.print = TRUE]

\* if (the value read is one of values) { body }
If(x, order, values, body) ==
    <<[Load(x, order) EXCEPT !.values = values, !.skip = Len(body)]>> \o body

\* while (the value read is one of values);
Await(x, order, values) == [Load(x, order) EXCEPT !.op = "await", !.values = values]

\* Writes the register times a number plus a number.
Write(x, order, times, plus) ==
    [Instruction EXCEPT !.op = "store", !.loc = x, !.order = order, !.times = times, !.plus = plus]

Store(x, order, value) == Write(x, order, 0, value)

\* x += amount on an object that is not atomic, and on one that is.
Add(x, amount)             == <<Load(x, "plain"), Write(x, "plain", 1, amount)>>
FetchAdd(x, order, amount) == [Write(x, order, 1, amount) EXCEPT !.op = "modify"]

\* while (flag.test_and_set());
TestAndSet(x, order) == [Store(x, order, 1) EXCEPT !.op = "modify", !.values = {1}]

Exchange(x, order, value) == [Store(x, order, value) EXCEPT !.op = "modify"]

\* The output of a constant.
Say(value) == [Instruction EXCEPT !.op = "say", !.plus = value]

\* The end of an object's lifetime; of static ones, before the process ends.
Free(x) == [Instruction EXCEPT !.op = "free", !.loc = x]
Exit    == Free("statics")

-----------------------------------------------------------------------------
(* Mutexes, threads, and the end of the program *)

OnLock(op, m)   == [Instruction EXCEPT !.op = op, !.loc = m]
Lock(m)         == OnLock("lock", m)
Unlock(m)       == OnLock("unlock", m)
LockShared(m)   == OnLock("lockShared", m)
UnlockShared(m) == OnLock("unlockShared", m)

\* { std::lock_guard lock(m); body }
Guarded(m, body) == <<Lock(m)>> \o body \o <<Unlock(m)>>

OnThread(op, t) == [Instruction EXCEPT !.op = op, !.thread = t]
Start(t)        == OnThread("start", t)
Join(t)         == OnThread("join", t)
Detach(t)       == OnThread("detach", t)
Drop(t)         == OnThread("drop", t)      \* ~thread, or another one moved in

\* An exception that nobody catches.
Throw == [Instruction EXCEPT !.op = "throw"]

-----------------------------------------------------------------------------
(* Programs built from these *)

Times(n, body) == FlattenSeq([i \in 1..n |-> body])

StartAll(workers) == [i \in DOMAIN workers |-> Start(i + 1)]
JoinAll(workers)  == [i \in DOMAIN workers |-> Join(i + 1)]

\* main() starts the workers and joins them in the same order.
ForkJoin(before, workers, after) ==
    <<before \o StartAll(workers) \o JoinAll(workers) \o after>> \o workers

\* The first caller runs body, the others wait until it is done: call_once,
\* and the initialization of a static local.
CallOnce(flag, body) ==
    If(flag, "acquire", {0},
       Guarded("once", If(flag, "relaxed", {0}, body \o <<Store(flag, "release", 1)>>)))

\* A promise of a value other than 0, and the future of it.
SetValue(f, value) == Store(f, "release", value)
Get(f)             == Await(f, "acquire", {0})
=============================================================================
