---------------------------- MODULE MCThreadPool ----------------------------
(* Instances of ThreadPool for TLC: two workers and two callers, one with  *)
(* two tasks, so that workers compete for a task, a caller for the mutex,  *)
(* and the pool can be destroyed at any point of both calls.               *)
EXTENDS ThreadPool, TLC

CONSTANTS w1, w2, c1, c2, t1, t2, t3

MCWorkers == {w1, w2}
MCCallers == {c1, c2}
MCTasks == {t1, t2, t3}
MCPlan == c1 :> <<t1, t2>> @@ c2 :> <<t3>>

=============================================================================
