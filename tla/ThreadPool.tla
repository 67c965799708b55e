----------------------------- MODULE ThreadPool -----------------------------
(***************************************************************************)
(* class thread_pool (thread_pool.hpp) with its threads: the workers, the  *)
(* callers of first_scan (src/slow_scanner.cpp), each of which enqueues    *)
(* one task per region and then waits for the futures in order, and the    *)
(* thread that destroys the pool, which for the scanner singleton is the   *)
(* one that leaves main().                                                 *)
(*                                                                         *)
(* One action is what a thread does between two points where another can   *)
(* interfere: acquiring queue_mutex, the steps under it, falling asleep on *)
(* the condition variable, notifying it, running a task, get().            *)
(***************************************************************************)
EXTENDS Naturals, Sequences, FiniteSets

CONSTANTS
  Workers,     (* The threads of the pool.                                 *)
  Callers,     (* The threads in first_scan.                               *)
  Tasks,       (* The packaged tasks.                                      *)
  Plan,        (* The tasks each caller enqueues, in order.                *)
  MaxSpurious  (* Bound on the wakeups the system makes up.                *)

ASSUME WorkersAssumption == IsFiniteSet(Workers) /\ Workers # {}
ASSUME CallersAssumption == IsFiniteSet(Callers)
ASSUME ThreadsAssumption == Workers \cap Callers = {}
ASSUME PlanAssumption == Plan \in [Callers -> Seq(Tasks)]
(* Every call of enqueue() makes a packaged_task of its own.                *)
ASSUME OnceAssumption ==
  \A c, d \in Callers : \A i \in 1 .. Len(Plan[c]), j \in 1 .. Len(Plan[d]) :
    Plan[c][i] = Plan[d][j] => c = d /\ i = j
ASSUME SpuriousAssumption == MaxSpurious \in Nat

Destroyer == "destroyer"
Nobody == "nobody"
NoTask == "noTask"
ASSUME NamesAssumption == Destroyer \notin Workers \cup Callers
                            /\ Nobody \notin Workers \cup Callers \cup {Destroyer}
                            /\ NoTask \notin Tasks

VARIABLES
  tasks,     (* tasks, the queue.                                          *)
  stop,      (* stop                                                       *)
  mutex,     (* Who holds queue_mutex.                                     *)
  worker,    (* Where each worker is in its loop.                          *)
  task,      (* The local variable task of each worker.                    *)
  caller,    (* Where each caller of first_scan is.                        *)
  sent,      (* How many tasks it has enqueued.                            *)
  future,    (* What is known of the future of each task.                  *)
  destroyer, (* How far ~thread_pool is.                                   *)
  spurious   (* Wakeups made up so far.                                    *)

vars == <<tasks, stop, mutex, worker, task, caller, sent, future, destroyer, spurious>>

WorkerPC == {"locking", "testing", "parking", "asleep", "taking", "running", "exited"}
CallerPC == {"locking", "pushing", "notifying", "getting", "returned", "thrown", "undefined"}
DestroyerPC == {"none", "locking", "stopping", "notifying", "joining", "destroyed"}

Asleep == {w \in Workers : worker[w] = "asleep"}

(* Where a caller goes when it has dealt with n of its tasks.              *)
Enqueuing(c, n) == IF n < Len(Plan[c]) THEN "locking" ELSE "getting"

Init ==
  /\ tasks = << >>
  /\ stop = FALSE
  /\ mutex = Nobody
  /\ worker = [w \in Workers |-> "locking"]
  /\ task = [w \in Workers |-> NoTask]
  /\ caller = [c \in Callers |-> Enqueuing(c, 0)]
  /\ sent = [c \in Callers |-> 0]
  /\ future = [t \in Tasks |-> "none"]
  /\ destroyer = "none"
  /\ spurious = 0

-----------------------------------------------------------------------------
(* The loop of a worker (the lambda in the constructor).                   *)

WorkerLock(w) ==
  /\ worker[w] = "locking"
  /\ mutex = Nobody
  /\ mutex' = w
  /\ worker' = [worker EXCEPT ![w] = "testing"]
  /\ UNCHANGED <<tasks, stop, task, caller, sent, future, destroyer, spurious>>

(* The predicate of condition.wait().                                      *)
Test(w) ==
  /\ worker[w] = "testing"
  /\ worker' = [worker EXCEPT ![w] = IF stop \/ tasks # << >> THEN "taking" ELSE "parking"]
  /\ UNCHANGED <<tasks, stop, mutex, task, caller, sent, future, destroyer, spurious>>

(* wait() releases the mutex and falls asleep in one step.                 *)
Park(w) ==
  /\ worker[w] = "parking"
  /\ mutex' = Nobody
  /\ worker' = [worker EXCEPT ![w] = "asleep"]
  /\ UNCHANGED <<tasks, stop, task, caller, sent, future, destroyer, spurious>>

(* A wakeup nobody asked for.                                              *)
SpuriousWakeup(w) ==
  /\ worker[w] = "asleep"
  /\ spurious < MaxSpurious
  /\ spurious' = spurious + 1
  /\ worker' = [worker EXCEPT ![w] = "locking"]
  /\ UNCHANGED <<tasks, stop, mutex, task, caller, sent, future, destroyer>>

(* Mutant: a worker leaves as soon as stop is set.                         *)
Take_LeaveOnStop(w) ==
  /\ worker[w] = "taking"
  /\ mutex' = Nobody
  /\ IF stop
     THEN /\ worker' = [worker EXCEPT ![w] = "exited"]
          /\ UNCHANGED <<tasks, task>>
     ELSE /\ worker' = [worker EXCEPT ![w] = "running"]
          /\ task' = [task EXCEPT ![w] = Head(tasks)]
          /\ tasks' = Tail(tasks)
  /\ UNCHANGED <<stop, caller, sent, future, destroyer, spurious>>

(* Mutant: the youngest task is taken first.                               *)
Take_Youngest(w) ==
  /\ worker[w] = "taking"
  /\ mutex' = Nobody
  /\ IF stop /\ tasks = << >>
     THEN /\ worker' = [worker EXCEPT ![w] = "exited"]
          /\ UNCHANGED <<tasks, task>>
     ELSE /\ worker' = [worker EXCEPT ![w] = "running"]
          /\ task' = [task EXCEPT ![w] = tasks[Len(tasks)]]
          /\ tasks' = SubSeq(tasks, 1, Len(tasks) - 1)
  /\ UNCHANGED <<stop, caller, sent, future, destroyer, spurious>>

(* The rest of the block under the mutex.                                  *)
Take(w) ==
  /\ worker[w] = "taking"
  /\ mutex' = Nobody
  /\ IF stop /\ tasks = << >>
     THEN /\ worker' = [worker EXCEPT ![w] = "exited"]
          /\ UNCHANGED <<tasks, task>>
     ELSE /\ worker' = [worker EXCEPT ![w] = "running"]
          /\ task' = [task EXCEPT ![w] = Head(tasks)]
          /\ tasks' = Tail(tasks)
  /\ UNCHANGED <<stop, caller, sent, future, destroyer, spurious>>

(* Mutant: the function called is not a packaged_task, what it throws does *)
(* not reach the future.                                                   *)
Run_LoseException(w) ==
  /\ worker[w] = "running"
  /\ \E outcome \in {"value", "pending"} : future' = [future EXCEPT ![task[w]] = outcome]
  /\ task' = [task EXCEPT ![w] = NoTask]
  /\ worker' = [worker EXCEPT ![w] = "locking"]
  /\ UNCHANGED <<tasks, stop, mutex, caller, sent, destroyer, spurious>>

(* Mutant: the task is declared outside of the loop.                       *)
Run_KeepTask(w) ==
  /\ worker[w] = "running"
  /\ \E outcome \in {"value", "exception"} : future' = [future EXCEPT ![task[w]] = outcome]
  /\ worker' = [worker EXCEPT ![w] = "locking"]
  /\ UNCHANGED <<tasks, stop, mutex, task, caller, sent, destroyer, spurious>>

(* task(): a packaged_task stores what the function returns or throws.     *)
Run(w) ==
  /\ worker[w] = "running"
  /\ \E outcome \in {"value", "exception"} : future' = [future EXCEPT ![task[w]] = outcome]
  /\ task' = [task EXCEPT ![w] = NoTask]
  /\ worker' = [worker EXCEPT ![w] = "locking"]
  /\ UNCHANGED <<tasks, stop, mutex, caller, sent, destroyer, spurious>>

-----------------------------------------------------------------------------
(* A caller of first_scan.  What it does with a pool that is gone is not   *)
(* defined: the mutex and the condition variable do not exist any more.    *)

CallerLock(c) ==
  /\ caller[c] = "locking"
  /\ destroyer # "destroyed"
  /\ mutex = Nobody
  /\ mutex' = c
  /\ caller' = [caller EXCEPT ![c] = "pushing"]
  /\ UNCHANGED <<tasks, stop, worker, task, sent, future, destroyer, spurious>>

(* Mutant: no notification when the queue was not empty.                   *)
Push_NotifyIfEmpty(c) ==
  LET t == Plan[c][sent[c] + 1] IN
  /\ caller[c] = "pushing"
  /\ mutex' = Nobody
  /\ IF stop
     THEN /\ future' = [future EXCEPT ![t] = "broken"]
          /\ sent' = [sent EXCEPT ![c] = @ + 1]
          /\ caller' = [caller EXCEPT ![c] = Enqueuing(c, sent'[c])]
          /\ UNCHANGED tasks
     ELSE /\ future' = [future EXCEPT ![t] = "pending"]
          /\ tasks' = Append(tasks, t)
          /\ sent' = [sent EXCEPT ![c] = @ + 1]
          /\ caller' = [caller EXCEPT ![c] = IF tasks = << >> THEN "notifying"
                                             ELSE Enqueuing(c, sent'[c])]
  /\ UNCHANGED <<stop, worker, task, destroyer, spurious>>

(* The block of enqueue() under the mutex.  Once stop is set the task is   *)
(* destroyed with its promise when enqueue() returns.                      *)
Push(c) ==
  LET t == Plan[c][sent[c] + 1] IN
  /\ caller[c] = "pushing"
  /\ mutex' = Nobody
  /\ sent' = [sent EXCEPT ![c] = @ + 1]
  /\ IF stop
     THEN /\ future' = [future EXCEPT ![t] = "broken"]
          /\ caller' = [caller EXCEPT ![c] = Enqueuing(c, sent'[c])]
          /\ UNCHANGED tasks
     ELSE /\ future' = [future EXCEPT ![t] = "pending"]
          /\ caller' = [caller EXCEPT ![c] = "notifying"]
          /\ tasks' = Append(tasks, t)
  /\ UNCHANGED <<stop, worker, task, destroyer, spurious>>

(* condition.notify_one(), after the mutex was released.                   *)
NotifyOne(c) ==
  /\ caller[c] = "notifying"
  /\ destroyer # "destroyed"
  /\ caller' = [caller EXCEPT ![c] = Enqueuing(c, sent[c])]
  /\ IF Asleep = {}
     THEN UNCHANGED worker
     ELSE \E w \in Asleep : worker' = [worker EXCEPT ![w] = "locking"]
  /\ UNCHANGED <<tasks, stop, mutex, task, sent, future, destroyer, spurious>>

(* The caller is still inside enqueue(), or enters it, and the pool is not *)
(* there any more.                                                         *)
TouchDestroyed(c) ==
  /\ destroyer = "destroyed"
  /\ caller[c] \in {"locking", "notifying"}
  /\ caller' = [caller EXCEPT ![c] = "undefined"]
  /\ UNCHANGED <<tasks, stop, mutex, worker, task, sent, future, destroyer, spurious>>

(* fut.get() for all futures in order: first_scan returns when all have a  *)
(* value, and the first exception or broken promise leaves the loop.       *)
Get(c) ==
  /\ caller[c] = "getting"
  /\ \/ /\ \A i \in 1 .. Len(Plan[c]) : future[Plan[c][i]] = "value"
        /\ caller' = [caller EXCEPT ![c] = "returned"]
     \/ \E i \in 1 .. Len(Plan[c]) :
          /\ future[Plan[c][i]] \in {"exception", "broken"}
          /\ \A j \in 1 .. i - 1 : future[Plan[c][j]] = "value"
          /\ caller' = [caller EXCEPT ![c] = "thrown"]
  /\ UNCHANGED <<tasks, stop, mutex, worker, task, sent, future, destroyer, spurious>>

-----------------------------------------------------------------------------
(* ~thread_pool.                                                           *)

Destroy ==
  /\ destroyer = "none"
  /\ destroyer' = "locking"
  /\ UNCHANGED <<tasks, stop, mutex, worker, task, caller, sent, future, spurious>>

(* Mutant: stop is atomic, so it is set without the mutex.                 *)
DestroyerLock_StopUnlocked ==
  /\ destroyer = "locking"
  /\ stop' = TRUE
  /\ destroyer' = "notifying"
  /\ UNCHANGED <<tasks, mutex, worker, task, caller, sent, future, spurious>>

DestroyerLock ==
  /\ destroyer = "locking"
  /\ mutex = Nobody
  /\ mutex' = Destroyer
  /\ destroyer' = "stopping"
  /\ UNCHANGED <<tasks, stop, worker, task, caller, sent, future, spurious>>

SetStop ==
  /\ destroyer = "stopping"
  /\ stop' = TRUE
  /\ mutex' = Nobody
  /\ destroyer' = "notifying"
  /\ UNCHANGED <<tasks, worker, task, caller, sent, future, spurious>>

(* Mutant: notify_one() instead of notify_all().                           *)
NotifyAll_One ==
  /\ destroyer = "notifying"
  /\ destroyer' = "joining"
  /\ IF Asleep = {}
     THEN UNCHANGED worker
     ELSE \E w \in Asleep : worker' = [worker EXCEPT ![w] = "locking"]
  /\ UNCHANGED <<tasks, stop, mutex, task, caller, sent, future, spurious>>

NotifyAll ==
  /\ destroyer = "notifying"
  /\ destroyer' = "joining"
  /\ worker' = [w \in Workers |-> IF w \in Asleep THEN "locking" ELSE worker[w]]
  /\ UNCHANGED <<tasks, stop, mutex, task, caller, sent, future, spurious>>

(* join() of every worker, then the members are destroyed.                 *)
Join ==
  /\ destroyer = "joining"
  /\ \A w \in Workers : worker[w] = "exited"
  /\ destroyer' = "destroyed"
  /\ UNCHANGED <<tasks, stop, mutex, worker, task, caller, sent, future, spurious>>

-----------------------------------------------------------------------------

WorkerStep(w) == WorkerLock(w) \/ Test(w) \/ Park(w) \/ Take(w) \/ Run(w)

CallerStep(c) == CallerLock(c) \/ Push(c) \/ NotifyOne(c) \/ TouchDestroyed(c) \/ Get(c)

DestroyerStep == DestroyerLock \/ SetStop \/ NotifyAll \/ Join

(* The program has ended.                                                  *)
Ended ==
  /\ destroyer = "destroyed"
  /\ \A c \in Callers : caller[c] \in {"returned", "thrown", "undefined"}
  /\ UNCHANGED vars

Next ==
  \/ \E w \in Workers : WorkerStep(w) \/ SpuriousWakeup(w)
  \/ \E c \in Callers : CallerStep(c)
  \/ Destroy
  \/ DestroyerStep
  \/ Ended

Spec == Init /\ [][Next]_vars

(* The system schedules every thread; nothing makes the program end or a   *)
(* thread wake up without a reason.                                        *)
FairSpec ==
  /\ Spec
  /\ \A w \in Workers : WF_vars(WorkerStep(w))
  /\ \A c \in Callers : WF_vars(CallerStep(c))
  /\ WF_vars(DestroyerStep)

-----------------------------------------------------------------------------

Futures == {"none", "pending", "value", "exception", "broken"}

SentOK(c) ==
  /\ sent[c] <= Len(Plan[c])
  /\ caller[c] \in {"locking", "pushing"} => sent[c] < Len(Plan[c])

(* The types of the variables; a worker has a task exactly while it runs   *)
(* one (the local variable of its loop is emptied by every iteration).     *)
TypeOK ==
  /\ tasks \in Seq(Tasks)
  /\ stop \in BOOLEAN
  /\ mutex \in Workers \cup Callers \cup {Destroyer, Nobody}
  /\ worker \in [Workers -> WorkerPC]
  /\ task \in [Workers -> Tasks \cup {NoTask}]
  /\ \A w \in Workers : task[w] # NoTask <=> worker[w] = "running"
  /\ caller \in [Callers -> CallerPC]
  /\ sent \in [Callers -> Nat]
  /\ \A c \in Callers : SentOK(c)
  /\ future \in [Tasks -> Futures]
  /\ destroyer \in DestroyerPC
  /\ spurious \in 0 .. MaxSpurious

(* queue_mutex is held by exactly the thread that is inside one of the     *)
(* blocks under it.                                                        *)
MutexInv ==
  /\ \A w \in Workers : mutex = w <=> worker[w] \in {"testing", "parking", "taking"}
  /\ \A c \in Callers : mutex = c <=> caller[c] = "pushing"
  /\ mutex = Destroyer <=> destroyer = "stopping"

(* A worker that decided under the mutex to sleep, or to go on, still has  *)
(* the reason it decided on when it does (condition.wait in the worker's   *)
(* loop).                                                                  *)
ReasonInv ==
  \A w \in Workers :
    /\ worker[w] = "parking" => tasks = << >> /\ ~ stop
    /\ worker[w] = "taking" => tasks # << >> \/ stop

(* How far ~thread_pool is, and whether stop is set.                       *)
StopInv == stop <=> destroyer \in {"notifying", "joining", "destroyed"}

(* After notify_all() no worker sleeps or is about to: the joins of        *)
(* ~thread_pool wait for nobody who waits for a notification.              *)
StopHeard ==
  destroyer \in {"joining", "destroyed"} =>
    \A w \in Workers : worker[w] \notin {"parking", "asleep"}

(* enqueue() notifies after it released the mutex, and a worker that is    *)
(* awake may take the task first: as long as a worker sleeps there is, for *)
(* every task in the queue, a worker on its way to the queue or a caller   *)
(* about to notify one.                                                    *)
OnTheWay ==
  {w \in Workers : worker[w] \in {"locking", "testing", "taking"}}
    \cup {c \in Callers : caller[c] = "notifying"}
NoLostWakeup == Asleep # {} => Len(tasks) <= Cardinality(OnTheWay)

(* A worker leaves only a pool that is stopped and empty, and a task whose *)
(* future is waited for is in the queue or in the hands of a worker.       *)
LeaveInv == \A w \in Workers : worker[w] = "exited" => stop /\ tasks = << >>
PendingInv ==
  \A t \in Tasks : future[t] = "pending" =>
    (\E i \in DOMAIN tasks : tasks[i] = t) \/ (\E w \in Workers : task[w] = t)

(* When the pool is gone, every task it accepted has run: no future of     *)
(* first_scan is left without an outcome.                                  *)
DrainedBeforeGone ==
  destroyer = "destroyed" => tasks = << >> /\ \A t \in Tasks : future[t] # "pending"

(* The inductive invariant of the pool and its threads.                    *)
PoolInv ==
  /\ TypeOK
  /\ MutexInv
  /\ ReasonInv
  /\ StopInv
  /\ StopHeard
  /\ NoLostWakeup
  /\ LeaveInv
  /\ PendingInv
  /\ DrainedBeforeGone

(* The pool implements the abstract one: tasks start in the order they     *)
(* were accepted, each once, and none is accepted after stop.              *)
Pool == INSTANCE TaskPool WITH
  Capacity <- Cardinality(Workers),
  queue <- tasks,
  running <- {task[w] : w \in {v \in Workers : worker[v] = "running"}},
  outcome <- [t \in Tasks |-> IF future[t] = "pending" THEN "none" ELSE future[t]],
  open <- ~ stop
PoolImplemented == Pool!Spec

(* An accepted task gets an outcome, whatever is enqueued after it and     *)
(* even if the pool is destroyed meanwhile.                                *)
TasksServed == Pool!Served

(* get() on the futures of a first_scan returns or throws.                 *)
GetsReturn ==
  \A c \in Callers : caller[c] = "getting" ~> caller[c] \in {"returned", "thrown"}

(* ~thread_pool returns: it gets the mutex, and every worker it joins      *)
(* leaves its loop.                                                        *)
DestructorReturns == destroyer = "locking" ~> destroyer = "destroyed"

=============================================================================
