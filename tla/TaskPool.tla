------------------------------ MODULE TaskPool ------------------------------
(***************************************************************************)
(* What first_scan relies on from the thread pool: tasks are started in    *)
(* the order they were accepted, each once, at most Capacity at a time;    *)
(* every accepted task gets an outcome even when the pool is closed        *)
(* meanwhile; a task offered to a closed pool is refused, which breaks the *)
(* promise of its future.                                                  *)
(***************************************************************************)
EXTENDS Naturals, Sequences, FiniteSets

CONSTANTS
  Tasks,     (* Everything that is ever enqueued.      *)
  Capacity   (* How many tasks can run at once.        *)

VARIABLES
  queue,     (* Accepted, not started, oldest first.   *)
  running,   (* Started, not finished.                 *)
  outcome,   (* What get() on the task's future finds. *)
  open       (* Does the pool still accept tasks?      *)

poolVars == <<queue, running, outcome, open>>

Outcomes == {"none", "value", "exception", "broken"}

Init ==
  /\ queue = << >>
  /\ running = {}
  /\ outcome = [t \in Tasks |-> "none"]
  /\ open = TRUE

Fresh(t) == outcome[t] = "none" /\ t \notin running /\ \A i \in DOMAIN queue : queue[i] # t

Accept(t) ==
  /\ open
  /\ Fresh(t)
  /\ queue' = Append(queue, t)
  /\ UNCHANGED <<running, outcome, open>>

Refuse(t) ==
  /\ ~ open
  /\ Fresh(t)
  /\ outcome' = [outcome EXCEPT ![t] = "broken"]
  /\ UNCHANGED <<queue, running, open>>

Start ==
  /\ queue # << >>
  /\ Cardinality(running) < Capacity
  /\ running' = running \cup {Head(queue)}
  /\ queue' = Tail(queue)
  /\ UNCHANGED <<outcome, open>>

Finish(t) ==
  /\ t \in running
  /\ running' = running \ {t}
  /\ \E o \in {"value", "exception"} : outcome' = [outcome EXCEPT ![t] = o]
  /\ UNCHANGED <<queue, open>>

Close ==
  /\ open
  /\ open' = FALSE
  /\ UNCHANGED <<queue, running, outcome>>

Next ==
  \/ \E t \in Tasks : Accept(t) \/ Refuse(t) \/ Finish(t)
  \/ Start
  \/ Close

Spec == Init /\ [][Next]_poolVars

(* Every accepted task has an outcome in the end.                          *)
Served ==
  \A t \in Tasks : (\E i \in DOMAIN queue : queue[i] = t) ~> outcome[t] # "none"

=============================================================================
