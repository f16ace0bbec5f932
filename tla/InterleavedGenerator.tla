------------------------ MODULE InterleavedGenerator ------------------------
(***************************************************************************)
(* generator_2/main.cpp: the generator interleaved() drives two generators *)
(* over the vectors a and b and yields their values in turn; main() reads  *)
(* and resumes until it is finished.  All three start eagerly, so value()  *)
(* comes before resume() everywhere.  The i-th value of a is <<"a", i>>.   *)
(***************************************************************************)
EXTENDS Naturals, Sequences

CONSTANT MaxLength    \* bound: length of the vectors

VARIABLES lengths,    \* the lengths of the vectors a and b
          next,       \* the index of the value x or y holds; past the length
                      \* when it is finished
          turn,       \* which of x and y was yielded from, or "none"
          value,      \* the promise's _val, <<>> at first
          finished,   \* interleaved() is done
          output      \* what main() has read

ivars == <<lengths, next, turn, value, finished, output>>

Vectors == {"a", "b"}

Init == /\ lengths \in [Vectors -> 0..MaxLength]
        /\ next = [c \in Vectors |-> 1]
        /\ turn = "uncalled"
        /\ value = <<>>
        /\ finished = FALSE
        /\ output = <<>>

\* x or y is finished, when n are their positions.
Finished(n, c) == n[c] > lengths[c]

\* The loop goes on at x, or at y after x has had its turn: to the first of the
\* two that is not finished, or else to its end.
NextTurn(n, last) ==
    LET order == IF last = "a" THEN <<"b", "a">> ELSE <<"a", "b">>
    IN  IF ~Finished(n, order[1]) THEN order[1]
        ELSE IF ~Finished(n, order[2]) THEN order[2]
        ELSE "none"

\* The coroutine runs to the co_yield of the one whose turn it is, or ends.
YieldFrom(n, last) ==
    /\ turn' = NextTurn(n, last)
    /\ finished' = (turn' = "none")
    /\ value' = IF finished' THEN value ELSE <<turn', n[turn']>>

\* The call of interleaved(), which runs to its first co_yield.
Call == /\ turn = "uncalled"
        /\ YieldFrom(next, "none")
        /\ UNCHANGED <<lengths, next, output>>

\* main() has read the present value.
WasRead == output # <<>> /\ output[Len(output)] = value

\* while (not g.finished()) reads value(); the loop over begin() and end()
\* does the same.
Read == /\ turn \in Vectors
        /\ ~WasRead
        /\ output' = Append(output, value)
        /\ UNCHANGED <<lengths, next, turn, value, finished>>

\* Mutant: after y has had its turn, y has it again.
ResumeSame == /\ turn \in Vectors
              /\ WasRead
              /\ next' = [next EXCEPT ![turn] = @ + 1]
              /\ YieldFrom(next', "a")
              /\ UNCHANGED <<lengths, output>>

\* g.resume(): x or y goes on to its next value, then the loop goes on.
Resume == /\ turn \in Vectors
          /\ WasRead
          /\ next' = [next EXCEPT ![turn] = @ + 1]
          /\ YieldFrom(next', turn)
          /\ UNCHANGED <<lengths, output>>

Next == Call \/ Read \/ Resume

\* main() goes on.
Spec == Init /\ [][Next]_ivars /\ WF_ivars(Next)
-----------------------------------------------------------------------------
(* Properties *)

Shorter(i, n) == IF i < n THEN i ELSE n

\* Where value i of a vector belongs: before it come all that precede it, and as
\* many of the other vector as had their turn.
Place(c, i) == i + IF c = "a" THEN Shorter(i - 1, lengths["b"]) ELSE Shorter(i, lengths["a"])

\* Every value read is in its place, also when one vector is longer than the
\* other, and in the end every value was read once.
Interleaves ==
    /\ \A c \in Vectors : \A i \in 1..lengths[c] :
          Place(c, i) <= Len(output) => output[Place(c, i)] = <<c, i>>
    /\ finished => Len(output) = lengths["a"] + lengths["b"]

\* What main() must come to.
Exhausted == finished
=============================================================================
