-------------------------- MODULE CoroutinePrograms --------------------------
(***************************************************************************)
(* The coroutine examples in one state space: the programs with one        *)
(* coroutine of module Generators, those whose coroutines await each other *)
(* (CoroutineStack), a generator over generators, a producer resumed by    *)
(* its consumer, the parser of a data stream, and tasks that own their     *)
(* frames.  The initial state chooses the example; the variables the       *)
(* others have keep the value Absent.                                      *)
(***************************************************************************)
EXTENDS Integers, Sequences, SequencesExt

CONSTANTS MaxValues,     \* of Generators
          Nums,          \* of CoroutineStack
          MaxLength,     \* of InterleavedGenerator
          NumData,       \* of ProducerConsumer
          MaxBytes,      \* of DatastreamParser
          Tasks, Frames, Null, Unborn   \* of UniqueHandles

VARIABLES example,       \* the module that runs, by a short name
          program, body, rounds, frame, pos, values, result, sent, heard, todo, seen, got,
          kind, frames, running, trace,
          lengths, next, turn, value, finished, output,
          produced, data, dataReady, producer, consumer, received, main,
          wait, assembled, mValue, bytes, bytesRead, stream, handled,
          handle, live

single   == <<program, body, rounds, frame, pos, values, result, sent, heard, todo, seen, got>>
stacked  == <<kind, frames, running, trace>>
woven    == <<lengths, next, turn, value, finished, output>>
exchange == <<produced, data, dataReady, producer, consumer, received, main>>
parser   == <<wait, assembled, mValue, bytes, bytesRead, stream, handled>>
owners   == <<handle, live>>

variables == <<example, single, stacked, woven, exchange, parser, owners>>

One   == INSTANCE Generators
Many  == INSTANCE CoroutineStack
Weave == INSTANCE InterleavedGenerator
Pass  == INSTANCE ProducerConsumer
Parse == INSTANCE DatastreamParser
           WITH frame <- assembled, sent <- bytes, received <- bytesRead
Own   == INSTANCE UniqueHandles

ASSUME BoundsAssumption ==
    /\ MaxValues \in Nat /\ Nums \subseteq Int /\ MaxLength \in Nat /\ NumData \in Nat
ASSUME HandlesAssumption == Own!HandlesDistinct

\* The value of a variable in the examples that do not have it.
Absent == "absent"

NoSingle == /\ program = Absent /\ body = Absent /\ rounds = Absent /\ frame = Absent
            /\ pos = Absent /\ values = Absent /\ result = Absent /\ sent = Absent
            /\ heard = Absent /\ todo = Absent /\ seen = Absent /\ got = Absent

NoStacked == kind = Absent /\ frames = Absent /\ running = Absent /\ trace = Absent

NoWoven == /\ lengths = Absent /\ next = Absent /\ turn = Absent /\ value = Absent
           /\ finished = Absent /\ output = Absent

NoExchange == /\ produced = Absent /\ data = Absent /\ dataReady = Absent
              /\ producer = Absent /\ consumer = Absent /\ received = Absent /\ main = Absent

NoParser == /\ wait = Absent /\ assembled = Absent /\ mValue = Absent /\ bytes = Absent
            /\ bytesRead = Absent /\ stream = Absent /\ handled = Absent

NoOwners == handle = Absent /\ live = Absent

Init ==
    \/ /\ example = "one" /\ One!Init
       /\ NoStacked /\ NoWoven /\ NoExchange /\ NoParser /\ NoOwners
    \/ /\ example = "many" /\ Many!Init
       /\ NoSingle /\ NoWoven /\ NoExchange /\ NoParser /\ NoOwners
    \/ /\ example = "weave" /\ Weave!Init
       /\ NoSingle /\ NoStacked /\ NoExchange /\ NoParser /\ NoOwners
    \/ /\ example = "pass" /\ Pass!Init
       /\ NoSingle /\ NoStacked /\ NoWoven /\ NoParser /\ NoOwners
    \/ /\ example = "parse" /\ Parse!Init
       /\ NoSingle /\ NoStacked /\ NoWoven /\ NoExchange /\ NoOwners
    \/ /\ example = "own" /\ Own!Init
       /\ NoSingle /\ NoStacked /\ NoWoven /\ NoExchange /\ NoParser

In(name, step, others) == example = name /\ step /\ UNCHANGED <<example, others>>

Next == \/ In("one", One!Next, <<stacked, woven, exchange, parser, owners>>)
        \/ In("many", Many!Next, <<single, woven, exchange, parser, owners>>)
        \/ In("weave", Weave!Next, <<single, stacked, exchange, parser, owners>>)
        \/ In("pass", Pass!Next, <<single, stacked, woven, parser, owners>>)
        \/ In("parse", Parse!Next, <<single, stacked, woven, exchange, owners>>)
        \/ In("own", Own!Next, <<single, stacked, woven, exchange, parser>>)

\* In every example one thread can go on at any time, and it does.
Spec == Init /\ [][Next]_variables /\ WF_variables(Next)
-----------------------------------------------------------------------------
(* Properties *)

\* main() touches no frame that is gone and resumes none that waits finally; in
\* the end every frame is freed, but for two examples that leave it.  Tasks that
\* are moved, also onto themselves, own one frame each and leak none.
FrameLifetimes == /\ example = "one" => One!FrameInUse /\ One!NoFrameLeft
                  /\ example = "own" => Own!OneOwner

\* Values are read in the order they are yielded, each one once, and all that
\* main() asked for.
ValuesInOrder == example = "one" => One!ReadInOrder /\ One!AllRead

\* A result is read only when it is set, and a coroutine that waits for a
\* message reads the one that was sent.
NothingReadEarly == example = "one" => One!ResultIsSet /\ One!HearsMessage

\* Where coroutines await each other, their frames come and go like a stack, and
\* nobody follows a handle of a freed frame or resumes a finished coroutine.
HandlesAlive == example = "many" => Many!HandlesAlive /\ Many!FramesNested

\* Awaiting a coroutine is like calling a function.
AwaitsAreCalls == example = "many" => Many!AwaitsAreCalls

\* interleaved() takes turns between its generators, and loses no value.
Interleaves == example = "weave" => Weave!Interleaves

\* The consumer gets all data, though data_ready_ is never reset, and never
\* waits in await_suspend().
ReceivesAll == example = "pass" => Pass!ReceivesAll /\ Pass!NeverSpins

\* Parse yields only what was sent as a frame.
YieldsFramesSent == example = "parse" => Parse!YieldsFramesSent

\* Frames with a byte before each, whatever it is, are all handled, once and in
\* order.  Checked for up to two frames of up to two bytes, as far as MaxBytes
\* lets them be sent.
ShortStreams == {s \in Parse!Streams(BoundedSeq(Parse!Pieces(BoundedSeq(Parse!Bytes, 2)), 2)) :
                     Len(s.bytes) <= MaxBytes}
FramesHandled == example = "parse" => Parse!Handles(ShortStreams)

\* Every example comes to the end of its main(); the moves of tasks have none.
Ends == <>(CASE example = "one"   -> One!Left
             [] example = "many"  -> Many!MachineLeft
             [] example = "weave" -> Weave!Exhausted
             [] example = "pass"  -> Pass!Joined
             [] example = "parse" -> Parse!Closed
             [] example = "own"   -> TRUE)
=============================================================================
