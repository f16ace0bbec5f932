------------------------- MODULE PingPongAtomicFlags -------------------------
(***************************************************************************)
(* concurrency/ping_pong_performance_test/pingPongAtomicFlags.cpp: one     *)
(* atomic_flag per direction.  A thread waits until its flag is set,       *)
(* clears it, and sets the other one; a set flag stays set for a thread    *)
(* that has not come to wait yet.  atomic_flag::wait is modelled as in     *)
(* PingPongAtomicBool.                                                     *)
(***************************************************************************)
EXTENDS Naturals

CONSTANT countlimit

Players == {"ping", "pong"}

VARIABLES flag,      \* condAtomicFlag1 is flag["ping"], condAtomicFlag2 flag["pong"]
          counter,   \* rounds played
          pc         \* where ping and pong are

vars == <<flag, counter, pc>>

Init == /\ flag = [t \in Players |-> t = "ping"]
        /\ counter = 0
        /\ pc = [t \in Players |-> "loop"]

Goto(t, from, to) == pc[t] = from /\ pc' = [pc EXCEPT ![t] = to]

Other(t) == IF t = "ping" THEN "pong" ELSE "ping"

Loop(t) == /\ \/ counter <= countlimit /\ Goto(t, "loop", "wait")
              \/ counter > countlimit /\ Goto(t, "loop", "done")
           /\ UNCHANGED <<flag, counter>>

WaitPasses(t) == /\ flag[t]
                 /\ Goto(t, "wait", "clear")
                 /\ UNCHANGED <<flag, counter>>

WaitBlocks(t) == /\ ~flag[t]
                 /\ Goto(t, "wait", "blocked")
                 /\ UNCHANGED <<flag, counter>>

WakesUnnotified(t) == Goto(t, "blocked", "wait") /\ UNCHANGED <<flag, counter>>

\* Mutant: the flag is not cleared after the wait.
KeepFlag(t) == /\ Goto(t, "clear", IF t = "ping" THEN "count" ELSE "set")
               /\ UNCHANGED <<flag, counter>>

Clear(t) == /\ Goto(t, "clear", IF t = "ping" THEN "count" ELSE "set")
            /\ flag' = [flag EXCEPT ![t] = FALSE]
            /\ UNCHANGED counter

Count == /\ Goto("ping", "count", "set")
         /\ counter' = counter + 1
         /\ UNCHANGED flag

Set(t) == /\ Goto(t, "set", "notify")
          /\ flag' = [flag EXCEPT ![Other(t)] = TRUE]
          /\ UNCHANGED counter

Notify(t) == /\ pc[t] = "notify"
             /\ pc' = [pc EXCEPT ![t] = "loop",
                                 ![Other(t)] = IF @ = "blocked" THEN "wait" ELSE @]
             /\ UNCHANGED <<flag, counter>>

PlayerStep(t) == \/ Loop(t) \/ WaitPasses(t) \/ WaitBlocks(t)
                 \/ Clear(t) \/ Set(t) \/ Notify(t)
                 \/ t = "ping" /\ Count

Joined == (\A t \in Players : pc[t] = "done") /\ UNCHANGED vars

Next == (\E t \in Players : PlayerStep(t) \/ WakesUnnotified(t)) \/ Joined

\* The scheduler runs both threads; unnotified wake-ups are not owed.
Spec == Init /\ [][Next]_vars /\ \A t \in Players : WF_vars(PlayerStep(t))
-----------------------------------------------------------------------------
(* Properties *)

\* The ball is in one place: one flag is set, or one thread is between clearing
\* its own flag and setting the other's.  Two balls, or none, would let both
\* threads play at once, or neither.
OneBall ==
    LET holders == {t \in Players : flag[t]}
        hands   == {t \in Players : pc[t] \in {"count", "set"}}
    IN  \/ hands = {} /\ \E t \in Players : holders = {t}
        \/ holders = {} /\ \E t \in Players : hands = {t}

\* The game as PingPong sees it.
Turn == IF flag["ping"] \/ pc["pong"] = "set" THEN "ping" ELSE "pong"
Hits == counter + IF pc["ping"] = "count" THEN 1 ELSE 0

\* main() joins both threads: unlike with one flag, pong always returns, because
\* ping counts the round before it sets the flag pong waits for.
BothReturn == <>(\A t \in Players : pc[t] = "done")
=============================================================================
