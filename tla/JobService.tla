----------------------------- MODULE JobService -----------------------------
(***************************************************************************)
(* What a pool of worker processes (utils/ipc/pool.py, module WorkerPool)  *)
(* promises to whom asks it to run jobs: a job gets at most one answer,    *)
(* and only if somebody asked for it.  The answer is its result unless the *)
(* pool has failed, after which no job gets a result any more.             *)
(***************************************************************************)
CONSTANT Jobs

VARIABLES answer,  \* answer[j]: "unasked", "none", "result" or "lost"
          broken   \* a terminal failure occurred

vars == <<answer, broken>>

Init == answer = [j \in Jobs |-> "unasked"] /\ broken = FALSE

Ask(j) == /\ answer[j] = "unasked"
          /\ answer' = [answer EXCEPT ![j] = "none"]
          /\ UNCHANGED broken

Answer(j) == /\ ~broken
             /\ answer[j] = "none"
             /\ answer' = [answer EXCEPT ![j] = "result"]
             /\ UNCHANGED broken

Break == ~broken /\ broken' = TRUE /\ UNCHANGED answer

\* The jobs S are given up.
GiveUp(S) == /\ broken
             /\ \A j \in S : answer[j] = "none"
             /\ answer' = [j \in Jobs |-> IF j \in S THEN "lost" ELSE answer[j]]
             /\ UNCHANGED broken

Next == \/ \E j \in Jobs : Ask(j) \/ Answer(j)
        \/ Break
        \/ \E S \in SUBSET Jobs : GiveUp(S)

Spec == Init /\ [][Next]_vars
=============================================================================
