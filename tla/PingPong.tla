------------------------------ MODULE PingPong ------------------------------
(***************************************************************************)
(* What the programs of concurrency/ping_pong_performance_test measure:    *)
(* two threads take turns, and the turn passes countlimit + 1 times from   *)
(* ping to pong.  How a thread waits for its turn is left to the modules   *)
(* that implement this one.                                                *)
(***************************************************************************)
EXTENDS Naturals

CONSTANT countlimit

VARIABLES turn,   \* whose turn it is
          hits    \* how often ping has played

gvars == <<turn, hits>>

\* Some of the programs let pong play first.
Init == turn \in {"ping", "pong"} /\ hits = 0

Ping == /\ turn = "ping"
        /\ hits <= countlimit
        /\ turn' = "pong"
        /\ hits' = hits + 1

Pong == /\ turn = "pong"
        /\ turn' = "ping"
        /\ UNCHANGED hits

Next == Ping \/ Pong

Safe == Init /\ [][Next]_gvars

\* The game goes on until the limit is reached; either thread may see the limit
\* and leave before the last round is played or answered.
Spec == /\ Safe
        /\ WF_gvars(Ping /\ hits < countlimit)
        /\ WF_gvars(Pong /\ hits < countlimit)
=============================================================================
