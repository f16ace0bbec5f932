---------------------------- MODULE SharedMemory ----------------------------
(***************************************************************************)
(* A machine for programs whose threads share memory, by the rules of the  *)
(* C++ memory model.  An object holds all values it ever had, in its       *)
(* modification order.  A thread knows, for every object, a value it can   *)
(* no longer look behind, and, for every thread, up to which instruction   *)
(* that thread's actions happen before its own; a release store publishes  *)
(* what a thread knows, an acquire load that reads it takes it over, and   *)
(* so do mutexes, and the start and the join of a thread.  Two actions on  *)
(* the same object of which one is a write, one is not atomic, and neither *)
(* happens before the other, are a data race.                              *)
(*                                                                         *)
(* Memory order consume is treated as acquire, as compilers do.  A store   *)
(* comes last in the modification order, and no load reads a later store:  *)
(* the executions of C++ without these two are executions of the machine.  *)
(***************************************************************************)
EXTENDS Integers, Sequences, FiniteSetsExt, Functions

CONSTANT Catalogue     \* the programs, records of module ThreadCode

VARIABLES program,     \* the one that runs
          pc,          \* every thread's next instruction; 0 before it is started
          reg,         \* every thread's register
          know,        \* what every thread knows
          mem,         \* the values of every object in modification order
          sc,          \* the last value a seq_cst access has read or written
          mutex,       \* who holds a mutex, and what was published under it
          accesses,    \* who has accessed an object, where and how
          undefined,   \* objects whose use was a race or after their lifetime
          joinable,    \* threads that were started and neither joined nor detached
          output,      \* what every thread has printed
          terminated   \* std::terminate() was called

vars == <<program, pc, reg, know, mem, sc, mutex, accesses, undefined, joinable, output, terminated>>

Code    == program.code
Threads == DOMAIN Code
Objects == DOMAIN program.mem
Mutexes == program.locks
Main    == 1

Finished(t) == pc[t] > Len(Code[t])

\* The process ends when main() returns, whatever other threads do.
Ended == terminated \/ Finished(Main)

Here(t) == Code[t][pc[t]]

At(t, op) == ~Ended /\ pc[t] > 0 /\ ~Finished(t) /\ Here(t).op = op

-----------------------------------------------------------------------------
(* What threads know *)

Nothing == [happened |-> [t \in Threads |-> 0], seen |-> [x \in Objects |-> 1]]

Larger(a, b) == Max({a, b})

Both(k, l) == [happened |-> Pointwise(k.happened, l.happened, Larger),
               seen     |-> Pointwise(k.seen, l.seen, Larger)]

\* What t knows when it has executed the next instruction.
Own(t) == [know[t] EXCEPT !.happened[t] = pc[t]]

Acquires(order) == order \in {"acquire", "consume", "acq_rel", "seq_cst"}
Releases(order) == order \in {"release", "acq_rel", "seq_cst"}

\* The access of t to its object, and whether it is undefined: a race with an
\* earlier one, or the object is gone.
Undefined(t, kind) ==
    LET i == Here(t)
    IN  \E a \in accesses[i.loc] :
           \/ a.kind = "free"
           \/ /\ a.by # t /\ a.at > know[t].happened[a.by]
              /\ {a.kind, kind} # {"read"}
              /\ a.plain \/ i.order = "plain"

Access(t, kind) ==
    /\ accesses' = [accesses EXCEPT ![Here(t).loc] =
                       @ \union {[by |-> t, at |-> pc[t], kind |-> kind,
                                  plain |-> Here(t).order = "plain"]}]
    /\ undefined' = undefined \union (IF Undefined(t, kind) THEN {Here(t).loc} ELSE {})

-----------------------------------------------------------------------------
Init == /\ \E i \in DOMAIN Catalogue : program = Catalogue[i]
        /\ pc = [t \in Threads |-> IF t = Main THEN 1 ELSE 0]
        /\ reg = [t \in Threads |-> 0]
        /\ know = [t \in Threads |-> Nothing]
        /\ mem = [x \in Objects |-> <<[value |-> program.mem[x], know |-> Nothing]>>]
        /\ sc = [x \in Objects |-> 1]
        /\ mutex = [m \in Mutexes |-> [writer |-> {}, readers |-> {},
                                     written |-> Nothing, read |-> Nothing]]
        /\ accesses = [x \in Objects |-> {}]
        /\ undefined = {} /\ joinable = {} /\ terminated = FALSE
        /\ output = [t \in Threads |-> <<>>]

Advance(t, skip) == pc' = [pc EXCEPT ![t] = @ + 1 + skip]

\* The n-th value of its object is one that t can read.
Readable(t, n) == /\ n >= know[t].seen[Here(t).loc]
                  /\ Here(t).order = "seq_cst" => n >= sc[Here(t).loc]

\* What t knows when it has read the n-th value.
AfterReading(t, n) ==
    LET i == Here(t)
    IN  [(IF Acquires(i.order) THEN Both(know[t], mem[i.loc][n].know) ELSE know[t])
            EXCEPT !.seen[i.loc] = n]

Order(t, n) == sc' = IF Here(t).order = "seq_cst" THEN [sc EXCEPT ![Here(t).loc] = n] ELSE sc

Read(t, n) ==
    LET result == Here(t).keep * reg[t] + mem[Here(t).loc][n].value
    IN  /\ Readable(t, n)
        /\ know' = [know EXCEPT ![t] = AfterReading(t, n)]
        /\ Order(t, n) /\ Access(t, "read")
        /\ reg' = [reg EXCEPT ![t] = result]
        /\ output' = IF Here(t).print THEN [output EXCEPT ![t] = Append(@, result)] ELSE output
        /\ UNCHANGED <<program, mem, mutex, joinable, terminated>>

\* The value read decides whether the body of an if is executed.
Loads(t) ==
    /\ At(t, "load")
    /\ \E n \in DOMAIN mem[Here(t).loc] :
          /\ Read(t, n)
          /\ Advance(t, IF Here(t).values = {} \/ mem[Here(t).loc][n].value \in Here(t).values
                        THEN 0 ELSE Here(t).skip)

\* A loop or a blocking call that waits as long as it reads certain values.
Awaits(t) ==
    /\ At(t, "await")
    /\ \E n \in DOMAIN mem[Here(t).loc] :
          mem[Here(t).loc][n].value \notin Here(t).values /\ Read(t, n)
    /\ Advance(t, 0)

\* t writes a value, publishing what it knows with a release store.
WriteNew(t, value, published, k) ==
    LET x == Here(t).loc
        n == Len(mem[x]) + 1
        new == [k EXCEPT !.seen[x] = n]
        own == [new EXCEPT !.happened[t] = pc[t]]
    IN  /\ mem' = [mem EXCEPT ![x] = Append(@, [value |-> value,
                      know |-> IF Releases(Here(t).order) THEN Both(published, own) ELSE published])]
        /\ know' = [know EXCEPT ![t] = new]
        /\ Order(t, n) /\ Access(t, "write") /\ Advance(t, 0)
        /\ UNCHANGED <<program, mutex, joinable, output, terminated>>

Stores(t) ==
    /\ At(t, "store")
    /\ WriteNew(t, Here(t).times * reg[t] + Here(t).plus, Nothing, know[t])
    /\ UNCHANGED reg

\* An atomic read-modify-write reads the last value, and hands on what was
\* published with it.  A spin lock repeats it as long as it reads 1.
Modifies(t) ==
    /\ At(t, "modify")
    /\ LET x    == Here(t).loc
           last == mem[x][Len(mem[x])]
       IN  /\ last.value \notin Here(t).values
           /\ WriteNew(t, Here(t).times * last.value + Here(t).plus, last.know,
                       AfterReading(t, Len(mem[x])))
           /\ reg' = [reg EXCEPT ![t] = last.value]

Says(t) ==
    /\ At(t, "say")
    /\ output' = [output EXCEPT ![t] = Append(@, Here(t).plus)]
    /\ Advance(t, 0)
    /\ UNCHANGED <<program, reg, know, mem, sc, mutex, accesses, undefined, joinable, terminated>>

Frees(t) ==
    /\ At(t, "free")
    /\ Access(t, "free") /\ Advance(t, 0)
    /\ UNCHANGED <<program, reg, know, mem, sc, mutex, joinable, output, terminated>>

-----------------------------------------------------------------------------
(* Mutexes: a writer sees what writers and readers did before, a reader    *)
(* what writers did.                                                       *)

OnMutex(t) == /\ Advance(t, 0)
              /\ UNCHANGED <<program, reg, mem, sc, accesses, undefined, joinable, output, terminated>>

LocksExclusive(t) ==
    /\ At(t, "lock")
    /\ LET m == mutex[Here(t).loc]
       IN  /\ m.writer \union m.readers = {}
           /\ know' = [know EXCEPT ![t] = Both(@, Both(m.written, m.read))]
    /\ mutex' = [mutex EXCEPT ![Here(t).loc].writer = {t}]
    /\ OnMutex(t)

UnlocksExclusive(t) ==
    /\ At(t, "unlock")
    /\ mutex' = [mutex EXCEPT ![Here(t).loc].writer = {}, ![Here(t).loc].written = Own(t)]
    /\ OnMutex(t) /\ UNCHANGED know

LocksShared(t) ==
    /\ At(t, "lockShared")
    /\ LET m == mutex[Here(t).loc]
       IN  /\ m.writer = {}
           /\ know' = [know EXCEPT ![t] = Both(@, m.written)]
    /\ mutex' = [mutex EXCEPT ![Here(t).loc].readers = @ \union {t}]
    /\ OnMutex(t)

UnlocksShared(t) ==
    /\ At(t, "unlockShared")
    /\ mutex' = [mutex EXCEPT ![Here(t).loc].readers = @ \ {t}, ![Here(t).loc].read = Both(@, Own(t))]
    /\ OnMutex(t) /\ UNCHANGED know

-----------------------------------------------------------------------------
(* Threads *)

OnOther(t) == /\ Here(t).thread \in Threads
              /\ UNCHANGED <<program, reg, mem, sc, mutex, accesses, undefined, output>>

Starts(t) ==
    /\ At(t, "start") /\ OnOther(t)
    /\ pc' = [pc EXCEPT ![t] = @ + 1, ![Here(t).thread] = 1]
    /\ know' = [know EXCEPT ![Here(t).thread] = Own(t)]
    /\ joinable' = joinable \union {Here(t).thread}
    /\ UNCHANGED terminated

Joins(t) ==
    /\ At(t, "join") /\ OnOther(t)
    /\ Finished(Here(t).thread)
    /\ know' = [know EXCEPT ![t] = Both(@, Own(Here(t).thread))]
    /\ joinable' = joinable \ {Here(t).thread}
    /\ Advance(t, 0) /\ UNCHANGED terminated

Detaches(t) ==
    /\ At(t, "detach") /\ OnOther(t)
    /\ joinable' = joinable \ {Here(t).thread}
    /\ Advance(t, 0) /\ UNCHANGED <<know, terminated>>

\* The destructor of a thread that is joinable, or one moved over it, ends the
\* program.
Drops(t) ==
    /\ At(t, "drop") /\ OnOther(t)
    /\ terminated' = (Here(t).thread \in joinable)
    /\ Advance(t, 0) /\ UNCHANGED <<know, joinable>>

Throws(t) ==
    /\ At(t, "throw")
    /\ terminated' = TRUE
    /\ UNCHANGED <<program, pc, reg, know, mem, sc, mutex, accesses, undefined, joinable, output>>

-----------------------------------------------------------------------------
Step(t) == \/ Loads(t) \/ Awaits(t) \/ Stores(t) \/ Modifies(t) \/ Says(t) \/ Frees(t)
           \/ LocksExclusive(t) \/ UnlocksExclusive(t) \/ LocksShared(t) \/ UnlocksShared(t)
           \/ Starts(t) \/ Joins(t) \/ Detaches(t) \/ Drops(t) \/ Throws(t)

Next == \E t \in Threads : Step(t)

\* As long as a thread can go on, one does.  Every step takes a thread forward,
\* so in the end all have gone as far as they can; a loop that waits is no step
\* until the value that it waits for becomes visible.
Spec == Init /\ [][Next]_vars /\ WF_vars(Next)
-----------------------------------------------------------------------------
\* A program that neither returns nor terminates, and never does, hangs.
Ending == IF terminated THEN "terminates" ELSE IF Finished(Main) THEN "returns" ELSE "hangs"
=============================================================================
