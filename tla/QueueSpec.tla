------------------------------ MODULE QueueSpec ------------------------------
(***************************************************************************)
(* What the blocking queues of the repository promise their callers: a     *)
(* FIFO queue to which every producer adds one element and from which      *)
(* every consumer takes one, add and get being indivisible.  Locks,        *)
(* condition variables and wake-ups do not appear at this level.           *)
(***************************************************************************)
EXTENDS Naturals, Sequences

CONSTANTS Adders,    \* threads that call add once
          Getters,   \* threads that call get once
          NoValue    \* the value of a get that has not returned

VARIABLES items,     \* the elements in the queue; an element is its adder
          put,       \* the adders whose element has entered the queue
          taken      \* what each getter has taken, or NoValue

qvars == <<items, put, taken>>

Init == /\ items = <<>>
        /\ put = {}
        /\ taken = [g \in Getters |-> NoValue]

\* add(val): the element enters at the back.
Put(a) == /\ a \notin put
          /\ items' = Append(items, a)
          /\ put' = put \cup {a}
          /\ UNCHANGED taken

\* get(): blocks while the queue is empty, then removes the front element.
Take(g) == /\ taken[g] = NoValue
           /\ items # <<>>
           /\ taken' = [taken EXCEPT ![g] = Head(items)]
           /\ items' = Tail(items)
           /\ UNCHANGED put

Next == (\E a \in Adders : Put(a)) \/ (\E g \in Getters : Take(g))

\* Every add completes, and a get that is never out of elements completes.
Fairness == /\ \A a \in Adders : WF_qvars(Put(a))
            /\ \A g \in Getters : WF_qvars(Take(g))

Safe == Init /\ [][Next]_qvars

Spec == Safe /\ Fairness
-----------------------------------------------------------------------------
(* Properties *)

TypeOK == /\ items \in Seq(Adders)
          /\ put \subseteq Adders
          /\ taken \in [Getters -> Adders \cup {NoValue}]

\* Nothing is delivered twice: an element is at one place of the queue or with
\* one getter, never at two.
NeverTwice ==
    /\ \A i, j \in 1..Len(items) : items[i] = items[j] => i = j
    /\ \A g \in Getters : \A i \in 1..Len(items) : taken[g] # items[i]
    /\ \A g, h \in Getters : taken[g] = taken[h] /\ taken[g] # NoValue => g = h

\* Nothing is lost and nothing is made up: what was put is what is in the queue
\* or with a getter.
NothingLost ==
    put = {items[i] : i \in 1..Len(items)}
          \cup {taken[g] : g \in {h \in Getters : taken[h] # NoValue}}
=============================================================================
