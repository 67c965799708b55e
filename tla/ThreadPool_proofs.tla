------------------------- MODULE ThreadPool_proofs -------------------------
(***************************************************************************)
(* Proofs about ThreadPool, for any number of workers, callers and tasks:  *)
(* no wakeup is lost, the destructor joins only workers that will leave,   *)
(* and a pool that is gone has run every task it accepted.                 *)
(***************************************************************************)
EXTENDS ThreadPool, FiniteSetTheorems, SequenceTheorems, TLAPS

(* The part of the invariant that counts nothing.                          *)
LockInv == TypeOK /\ MutexInv /\ ReasonInv /\ StopInv /\ StopHeard /\ LeaveInv

(* Every step of every thread keeps it.                                    *)
LEMMA LockStep == LockInv /\ [Next]_vars => LockInv'
<1> SUFFICES ASSUME LockInv, [Next]_vars PROVE LockInv'
  OBVIOUS
<1>1. ASSUME NEW w \in Workers, WorkerLock(w) PROVE LockInv'
  <2>1. TypeOK'
    BY <1>1 DEF SentOK, LockInv, TypeOK, WorkerPC, WorkerLock
  <2>2. MutexInv'
    BY <1>1, NamesAssumption, ThreadsAssumption DEF LockInv, TypeOK, MutexInv, WorkerLock
  <2>3. ReasonInv'
    BY <1>1 DEF LockInv, TypeOK, ReasonInv, WorkerLock
  <2>4. StopInv'
    BY <1>1 DEF LockInv, TypeOK, StopInv, WorkerLock
  <2>5. StopHeard'
    BY <1>1 DEF LockInv, TypeOK, StopHeard, WorkerLock
  <2>6. LeaveInv'
    BY <1>1 DEF LockInv, TypeOK, LeaveInv, WorkerLock
  <2>7. QED
    BY <2>1, <2>2, <2>3, <2>4, <2>5, <2>6 DEF LockInv
<1>2. ASSUME NEW w \in Workers, Test(w) PROVE LockInv'
  <2>1. TypeOK'
    BY <1>2 DEF SentOK, LockInv, TypeOK, WorkerPC, Test
  <2>2. MutexInv'
    BY <1>2 DEF LockInv, TypeOK, MutexInv, Test
  <2>3. ReasonInv'
    BY <1>2 DEF LockInv, TypeOK, ReasonInv, Test
  <2>4. StopInv'
    BY <1>2 DEF LockInv, TypeOK, StopInv, Test
  <2>5. StopHeard'
    BY <1>2 DEF LockInv, TypeOK, StopInv, StopHeard, Test
  <2>6. LeaveInv'
    BY <1>2 DEF LockInv, TypeOK, LeaveInv, Test
  <2>7. QED
    BY <2>1, <2>2, <2>3, <2>4, <2>5, <2>6 DEF LockInv
<1>3. ASSUME NEW w \in Workers, Park(w) PROVE LockInv'
  <2>1. TypeOK'
    BY <1>3 DEF SentOK, LockInv, TypeOK, WorkerPC, Park
  <2>2. MutexInv'
    BY <1>3, NamesAssumption, ThreadsAssumption DEF LockInv, TypeOK, MutexInv, Park
  <2>3. ReasonInv'
    BY <1>3 DEF LockInv, TypeOK, ReasonInv, Park
  <2>4. StopInv'
    BY <1>3 DEF LockInv, TypeOK, StopInv, Park
  <2>5. StopHeard'
    BY <1>3 DEF LockInv, TypeOK, StopHeard, Park
  <2>6. LeaveInv'
    BY <1>3 DEF LockInv, TypeOK, LeaveInv, Park
  <2>7. QED
    BY <2>1, <2>2, <2>3, <2>4, <2>5, <2>6 DEF LockInv
<1>4. ASSUME NEW w \in Workers, SpuriousWakeup(w) PROVE LockInv'
  <2>1. TypeOK'
    BY <1>4, SpuriousAssumption DEF SentOK, LockInv, TypeOK, WorkerPC, SpuriousWakeup
  <2>2. MutexInv'
    BY <1>4 DEF LockInv, TypeOK, MutexInv, SpuriousWakeup
  <2>3. ReasonInv'
    BY <1>4 DEF LockInv, TypeOK, ReasonInv, SpuriousWakeup
  <2>4. StopInv'
    BY <1>4 DEF LockInv, TypeOK, StopInv, SpuriousWakeup
  <2>5. StopHeard'
    BY <1>4 DEF LockInv, TypeOK, StopHeard, SpuriousWakeup
  <2>6. LeaveInv'
    BY <1>4 DEF LockInv, TypeOK, LeaveInv, SpuriousWakeup
  <2>7. QED
    BY <2>1, <2>2, <2>3, <2>4, <2>5, <2>6 DEF LockInv
<1>5. ASSUME NEW w \in Workers, Take(w) PROVE LockInv'
  <2>1. TypeOK'
    <3>1. CASE stop /\ tasks = << >>
      BY <1>5, <3>1 DEF Take, LockInv, TypeOK, SentOK, WorkerPC
    <3>2. CASE ~ (stop /\ tasks = << >>)
      <4>1. tasks \in Seq(Tasks) /\ tasks # << >>
        BY <1>5, <3>2 DEF Take, LockInv, TypeOK, ReasonInv
      <4>2. Head(tasks) \in Tasks /\ Tail(tasks) \in Seq(Tasks)
        BY <4>1
      <4>3. /\ worker' = [worker EXCEPT ![w] = "running"]
            /\ task' = [task EXCEPT ![w] = Head(tasks)]
            /\ tasks' = Tail(tasks) /\ mutex' = Nobody
            /\ UNCHANGED <<stop, caller, sent, future, destroyer, spurious>>
        BY <1>5, <3>2 DEF Take
      <4>4. QED
        BY <4>2, <4>3, NamesAssumption DEF LockInv, TypeOK, SentOK, WorkerPC
    <3>3. QED
      BY <3>1, <3>2
  <2>2. MutexInv'
    BY <1>5, NamesAssumption, ThreadsAssumption DEF LockInv, TypeOK, MutexInv, Take
  <2>3. ReasonInv'
    BY <1>5 DEF LockInv, TypeOK, MutexInv, ReasonInv, Take
  <2>4. StopInv'
    BY <1>5 DEF LockInv, TypeOK, StopInv, Take
  <2>5. StopHeard'
    BY <1>5 DEF LockInv, TypeOK, StopHeard, Take
  <2>6. LeaveInv'
    BY <1>5 DEF LockInv, TypeOK, LeaveInv, Take
  <2>7. QED
    BY <2>1, <2>2, <2>3, <2>4, <2>5, <2>6 DEF LockInv
<1>6. ASSUME NEW w \in Workers, Run(w) PROVE LockInv'
  <2>1. TypeOK'
    BY <1>6 DEF SentOK, LockInv, TypeOK, WorkerPC, Futures, Run
  <2>2. MutexInv'
    BY <1>6 DEF LockInv, TypeOK, MutexInv, Run
  <2>3. ReasonInv'
    BY <1>6 DEF LockInv, TypeOK, ReasonInv, Run
  <2>4. StopInv'
    BY <1>6 DEF LockInv, TypeOK, StopInv, Run
  <2>5. StopHeard'
    BY <1>6 DEF LockInv, TypeOK, StopHeard, Run
  <2>6. LeaveInv'
    BY <1>6 DEF LockInv, TypeOK, LeaveInv, Run
  <2>7. QED
    BY <2>1, <2>2, <2>3, <2>4, <2>5, <2>6 DEF LockInv
<1>7. ASSUME NEW c \in Callers, CallerLock(c) PROVE LockInv'
  <2>1. TypeOK'
    BY <1>7 DEF SentOK, LockInv, TypeOK, CallerPC, CallerLock
  <2>2. MutexInv'
    BY <1>7, NamesAssumption, ThreadsAssumption DEF LockInv, TypeOK, MutexInv, CallerLock
  <2>3. ReasonInv'
    BY <1>7 DEF LockInv, TypeOK, ReasonInv, CallerLock
  <2>4. StopInv'
    BY <1>7 DEF LockInv, TypeOK, StopInv, CallerLock
  <2>5. StopHeard'
    BY <1>7 DEF LockInv, TypeOK, StopHeard, CallerLock
  <2>6. LeaveInv'
    BY <1>7 DEF LockInv, TypeOK, LeaveInv, CallerLock
  <2>7. QED
    BY <2>1, <2>2, <2>3, <2>4, <2>5, <2>6 DEF LockInv
<1>8. ASSUME NEW c \in Callers, Push(c) PROVE LockInv'
  <2>1. TypeOK'
    <3> DEFINE t == Plan[c][sent[c] + 1]
    <3>1. /\ caller[c] = "pushing" /\ sent[c] \in Nat /\ sent[c] < Len(Plan[c])
          /\ Plan[c] \in Seq(Tasks)
      <4>1. caller[c] = "pushing"
        BY <1>8 DEF Push
      <4>2. sent[c] < Len(Plan[c])
        <5>1. SentOK(c)
          BY DEF LockInv, TypeOK
        <5>2. QED
          BY <4>1, <5>1 DEF SentOK
      <4>3. sent[c] \in Nat /\ Plan[c] \in Seq(Tasks)
        BY PlanAssumption DEF LockInv, TypeOK
      <4>4. QED
        BY <4>1, <4>2, <4>3
    <3>2. t \in Tasks
      BY <3>1
    <3> HIDE DEF t
    <3>3. /\ mutex' = Nobody /\ sent' = [sent EXCEPT ![c] = @ + 1]
          /\ UNCHANGED <<stop, worker, task, destroyer, spurious>>
      BY <1>8 DEF Push
    <3>4. /\ sent' \in [Callers -> Nat] /\ sent'[c] = sent[c] + 1
          /\ sent'[c] <= Len(Plan[c])
          /\ \A d \in Callers \ {c} : sent'[d] = sent[d]
      BY <3>1, <3>3 DEF LockInv, TypeOK
    <3>5. CASE stop
      <4>1. /\ future' = [future EXCEPT ![t] = "broken"] /\ tasks' = tasks
            /\ caller' = [caller EXCEPT ![c] = Enqueuing(c, sent'[c])]
        BY <1>8, <3>5 DEF Push, t
      <4>2. future' \in [Tasks -> Futures] /\ tasks' \in Seq(Tasks)
        BY <3>2, <4>1 DEF LockInv, TypeOK, Futures
      <4>3. /\ caller' \in [Callers -> CallerPC]
            /\ \A d \in Callers : SentOK(d)'
        <5>1. caller \in [Callers -> CallerPC]
          BY DEF LockInv, TypeOK
        <5>2. ASSUME NEW d \in Callers, d # c, caller[d] \in {"locking", "pushing"}
              PROVE  sent'[d] < Len(Plan[d])
          <6>1. SentOK(d)
            BY DEF LockInv, TypeOK
          <6>2. sent[d] < Len(Plan[d])
            BY <5>2, <6>1 DEF SentOK
          <6>3. QED
            BY <3>4, <5>2, <6>2
        <5>3. caller'[c] \in {"locking", "pushing"} => sent'[c] < Len(Plan[c])
          BY <4>1, <5>1 DEF Enqueuing
        <5>4. caller' \in [Callers -> CallerPC] /\ \A d \in Callers \ {c} : caller'[d] = caller[d]
          BY <4>1, <5>1 DEF CallerPC, Enqueuing
        <5>5. ASSUME NEW d \in Callers PROVE SentOK(d)'
          <6>1. sent'[d] <= Len(Plan[d])
            <7>1. SentOK(d)
              BY DEF LockInv, TypeOK
            <7>2. QED
              BY <3>4, <7>1 DEF SentOK
          <6>2. QED
            BY <5>2, <5>3, <5>4, <6>1 DEF SentOK
        <5>6. QED
          BY <5>4, <5>5
      <4>4. QED
        BY <3>3, <3>4, <4>2, <4>3 DEF LockInv, TypeOK
    <3>6. CASE ~ stop
      <4>1. /\ future' = [future EXCEPT ![t] = "pending"] /\ tasks' = Append(tasks, t)
            /\ caller' = [caller EXCEPT ![c] = "notifying"]
        BY <1>8, <3>6 DEF Push, t
      <4>2. future' \in [Tasks -> Futures] /\ tasks' \in Seq(Tasks)
        BY <3>2, <4>1 DEF LockInv, TypeOK, Futures
      <4>3. /\ caller' \in [Callers -> CallerPC]
            /\ \A d \in Callers : SentOK(d)'
        <5>1. caller \in [Callers -> CallerPC]
          BY DEF LockInv, TypeOK
        <5>2. ASSUME NEW d \in Callers, d # c, caller[d] \in {"locking", "pushing"}
              PROVE  sent'[d] < Len(Plan[d])
          <6>1. SentOK(d)
            BY DEF LockInv, TypeOK
          <6>2. sent[d] < Len(Plan[d])
            BY <5>2, <6>1 DEF SentOK
          <6>3. QED
            BY <3>4, <5>2, <6>2
        <5>3. caller'[c] \in {"locking", "pushing"} => sent'[c] < Len(Plan[c])
          BY <4>1, <5>1
        <5>4. caller' \in [Callers -> CallerPC] /\ \A d \in Callers \ {c} : caller'[d] = caller[d]
          BY <4>1, <5>1 DEF CallerPC
        <5>5. ASSUME NEW d \in Callers PROVE SentOK(d)'
          <6>1. sent'[d] <= Len(Plan[d])
            <7>1. SentOK(d)
              BY DEF LockInv, TypeOK
            <7>2. QED
              BY <3>4, <7>1 DEF SentOK
          <6>2. QED
            BY <5>2, <5>3, <5>4, <6>1 DEF SentOK
        <5>6. QED
          BY <5>4, <5>5
      <4>4. QED
        BY <3>3, <3>4, <4>2, <4>3 DEF LockInv, TypeOK
    <3>7. QED
      BY <3>5, <3>6
  <2>2. MutexInv'
    BY <1>8, NamesAssumption, ThreadsAssumption DEF LockInv, TypeOK, MutexInv, Enqueuing, Push
  <2>3. ReasonInv'
    BY <1>8, ThreadsAssumption DEF LockInv, TypeOK, MutexInv, ReasonInv, Push
  <2>4. StopInv'
    BY <1>8 DEF LockInv, TypeOK, StopInv, Push
  <2>5. StopHeard'
    BY <1>8 DEF LockInv, TypeOK, StopHeard, Push
  <2>6. LeaveInv'
    BY <1>8 DEF LockInv, TypeOK, LeaveInv, Push
  <2>7. QED
    BY <2>1, <2>2, <2>3, <2>4, <2>5, <2>6 DEF LockInv
<1>9. ASSUME NEW c \in Callers, NotifyOne(c) PROVE LockInv'
  <2>1. TypeOK'
    BY <1>9 DEF SentOK, LockInv, TypeOK, Asleep, Enqueuing, WorkerPC, CallerPC, NotifyOne
  <2>2. MutexInv'
    BY <1>9 DEF LockInv, TypeOK, MutexInv, Asleep, Enqueuing, NotifyOne
  <2>3. ReasonInv'
    BY <1>9 DEF LockInv, TypeOK, ReasonInv, NotifyOne
  <2>4. StopInv'
    BY <1>9 DEF LockInv, TypeOK, StopInv, NotifyOne
  <2>5. StopHeard'
    BY <1>9 DEF LockInv, TypeOK, StopHeard, NotifyOne
  <2>6. LeaveInv'
    BY <1>9 DEF LockInv, TypeOK, LeaveInv, NotifyOne
  <2>7. QED
    BY <2>1, <2>2, <2>3, <2>4, <2>5, <2>6 DEF LockInv
<1>10. ASSUME NEW c \in Callers, TouchDestroyed(c) PROVE LockInv'
  <2>1. TypeOK'
    BY <1>10 DEF SentOK, LockInv, TypeOK, CallerPC, TouchDestroyed
  <2>2. MutexInv'
    BY <1>10 DEF LockInv, TypeOK, MutexInv, TouchDestroyed
  <2>3. ReasonInv'
    BY <1>10 DEF LockInv, TypeOK, ReasonInv, TouchDestroyed
  <2>4. StopInv'
    BY <1>10 DEF LockInv, TypeOK, StopInv, TouchDestroyed
  <2>5. StopHeard'
    BY <1>10 DEF LockInv, TypeOK, StopHeard, TouchDestroyed
  <2>6. LeaveInv'
    BY <1>10 DEF LockInv, TypeOK, LeaveInv, TouchDestroyed
  <2>7. QED
    BY <2>1, <2>2, <2>3, <2>4, <2>5, <2>6 DEF LockInv
<1>11. ASSUME NEW c \in Callers, Get(c) PROVE LockInv'
  <2>1. TypeOK'
    BY <1>11 DEF SentOK, LockInv, TypeOK, CallerPC, Get
  <2>2. MutexInv'
    BY <1>11 DEF LockInv, TypeOK, MutexInv, Get
  <2>3. ReasonInv'
    BY <1>11 DEF LockInv, TypeOK, ReasonInv, Get
  <2>4. StopInv'
    BY <1>11 DEF LockInv, TypeOK, StopInv, Get
  <2>5. StopHeard'
    BY <1>11 DEF LockInv, TypeOK, StopHeard, Get
  <2>6. LeaveInv'
    BY <1>11 DEF LockInv, TypeOK, LeaveInv, Get
  <2>7. QED
    BY <2>1, <2>2, <2>3, <2>4, <2>5, <2>6 DEF LockInv
<1>12. CASE Destroy
  <2>1. TypeOK'
    BY <1>12 DEF SentOK, LockInv, TypeOK, DestroyerPC, Destroy
  <2>2. MutexInv'
    BY <1>12 DEF LockInv, TypeOK, MutexInv, Destroy
  <2>3. ReasonInv'
    BY <1>12 DEF LockInv, TypeOK, ReasonInv, Destroy
  <2>4. StopInv'
    BY <1>12 DEF LockInv, TypeOK, StopInv, Destroy
  <2>5. StopHeard'
    BY <1>12 DEF LockInv, TypeOK, StopHeard, Destroy
  <2>6. LeaveInv'
    BY <1>12 DEF LockInv, TypeOK, LeaveInv, Destroy
  <2>7. QED
    BY <2>1, <2>2, <2>3, <2>4, <2>5, <2>6 DEF LockInv
<1>13. CASE DestroyerLock
  <2>1. TypeOK'
    BY <1>13 DEF SentOK, LockInv, TypeOK, DestroyerPC, DestroyerLock
  <2>2. MutexInv'
    BY <1>13, NamesAssumption DEF LockInv, TypeOK, MutexInv, DestroyerLock
  <2>3. ReasonInv'
    BY <1>13 DEF LockInv, TypeOK, ReasonInv, DestroyerLock
  <2>4. StopInv'
    BY <1>13 DEF LockInv, TypeOK, StopInv, DestroyerLock
  <2>5. StopHeard'
    BY <1>13 DEF LockInv, TypeOK, StopHeard, DestroyerLock
  <2>6. LeaveInv'
    BY <1>13 DEF LockInv, TypeOK, LeaveInv, DestroyerLock
  <2>7. QED
    BY <2>1, <2>2, <2>3, <2>4, <2>5, <2>6 DEF LockInv
<1>14. CASE SetStop
  <2>1. TypeOK'
    BY <1>14 DEF SentOK, LockInv, TypeOK, DestroyerPC, SetStop
  <2>2. MutexInv'
    BY <1>14, NamesAssumption DEF LockInv, TypeOK, MutexInv, SetStop
  <2>3. ReasonInv'
    BY <1>14, NamesAssumption DEF LockInv, TypeOK, MutexInv, ReasonInv, SetStop
  <2>4. StopInv'
    BY <1>14 DEF LockInv, TypeOK, StopInv, SetStop
  <2>5. StopHeard'
    BY <1>14 DEF LockInv, TypeOK, StopHeard, SetStop
  <2>6. LeaveInv'
    BY <1>14 DEF LockInv, TypeOK, LeaveInv, SetStop
  <2>7. QED
    BY <2>1, <2>2, <2>3, <2>4, <2>5, <2>6 DEF LockInv
<1>15. CASE NotifyAll
  <2>1. TypeOK'
    BY <1>15 DEF SentOK, LockInv, TypeOK, Asleep, WorkerPC, DestroyerPC, NotifyAll
  <2>2. MutexInv'
    BY <1>15 DEF LockInv, TypeOK, MutexInv, Asleep, NotifyAll
  <2>3. ReasonInv'
    BY <1>15 DEF LockInv, TypeOK, ReasonInv, NotifyAll
  <2>4. StopInv'
    BY <1>15 DEF LockInv, TypeOK, StopInv, NotifyAll
  <2>5. StopHeard'
    BY <1>15 DEF LockInv, TypeOK, ReasonInv, StopInv, StopHeard, Asleep, NotifyAll
  <2>6. LeaveInv'
    BY <1>15 DEF LockInv, TypeOK, LeaveInv, NotifyAll
  <2>7. QED
    BY <2>1, <2>2, <2>3, <2>4, <2>5, <2>6 DEF LockInv
<1>16. CASE Join
  <2>1. TypeOK'
    BY <1>16 DEF SentOK, LockInv, TypeOK, DestroyerPC, Join
  <2>2. MutexInv'
    BY <1>16 DEF LockInv, TypeOK, MutexInv, Join
  <2>3. ReasonInv'
    BY <1>16 DEF LockInv, TypeOK, ReasonInv, Join
  <2>4. StopInv'
    BY <1>16 DEF LockInv, TypeOK, StopInv, Join
  <2>5. StopHeard'
    BY <1>16 DEF LockInv, TypeOK, StopHeard, Join
  <2>6. LeaveInv'
    BY <1>16 DEF LockInv, TypeOK, LeaveInv, Join
  <2>7. QED
    BY <2>1, <2>2, <2>3, <2>4, <2>5, <2>6 DEF LockInv
<1>17. CASE UNCHANGED vars
  BY <1>17 DEF vars, LockInv, TypeOK, SentOK, MutexInv, ReasonInv, StopInv, StopHeard, LeaveInv
<1>18. QED
  BY <1>1, <1>2, <1>3, <1>4, <1>5, <1>6, <1>7, <1>8, <1>9, <1>10, <1>11, <1>12,
     <1>13, <1>14, <1>15, <1>16, <1>17
  DEF Next, WorkerStep, CallerStep, DestroyerStep, Ended

-----------------------------------------------------------------------------

(* Those on their way to the queue are threads, of which there are finitely *)
(* many, whoever comes and goes.                                           *)
LEMMA OnTheWayFinite ==
  /\ IsFiniteSet(OnTheWay) /\ Cardinality(OnTheWay) \in Nat
  /\ \A S : S \subseteq OnTheWay => Cardinality(S) <= Cardinality(OnTheWay)
<1>1. IsFiniteSet(Workers \cup Callers)
  BY WorkersAssumption, CallersAssumption, FS_Union
<1>2. OnTheWay \in SUBSET (Workers \cup Callers)
  BY DEF OnTheWay
<1>3. IsFiniteSet(OnTheWay)
  BY <1>1, <1>2, FS_Subset
<1>4. QED
  BY <1>3, FS_Subset, FS_CardinalityType

(* The ways in which a step keeps the count: nobody sleeps, the queue is   *)
(* empty, or the queue is as it was and nobody turned back.                *)
LEMMA CountKept ==
  ASSUME LockInv, LockInv', NoLostWakeup,
         \/ Asleep' = {}
         \/ tasks' = << >>
         \/ /\ tasks' = tasks /\ Asleep' \subseteq Asleep
            /\ OnTheWay \subseteq OnTheWay'
  PROVE  NoLostWakeup'
<1>1. IsFiniteSet(OnTheWay)' /\ (Cardinality(OnTheWay) \in Nat)'
      /\ (\A S : S \subseteq OnTheWay => Cardinality(S) <= Cardinality(OnTheWay))'
  BY OnTheWayFinite, PTL
<1>2. CASE Asleep' = {}
  BY <1>2 DEF NoLostWakeup
<1>3. CASE tasks' = << >>
  BY <1>1, <1>3 DEF NoLostWakeup
<1>4. CASE tasks' = tasks /\ Asleep' \subseteq Asleep /\ OnTheWay \subseteq OnTheWay'
  <2>1. Cardinality(OnTheWay) <= Cardinality(OnTheWay')
    BY <1>1, <1>4
  <2>2. Cardinality(OnTheWay) \in Nat /\ Cardinality(OnTheWay') \in Nat /\ Len(tasks) \in Nat
    BY <1>1, OnTheWayFinite DEF LockInv, TypeOK
  <2>3. ASSUME Asleep' # {} PROVE Len(tasks') <= Cardinality(OnTheWay')
    <3>1. Len(tasks) <= Cardinality(OnTheWay)
      BY <1>4, <2>3 DEF NoLostWakeup
    <3>2. QED
      BY <1>4, <2>1, <2>2, <3>1
  <2>4. QED
    BY <2>3 DEF NoLostWakeup
<1>5. QED
  BY <1>2, <1>3, <1>4

(* No step loses a wakeup.                                                 *)
LEMMA WakeupStep == LockInv /\ LockInv' /\ NoLostWakeup /\ [Next]_vars => NoLostWakeup'
<1> SUFFICES ASSUME LockInv, LockInv', NoLostWakeup, [Next]_vars PROVE NoLostWakeup'
  OBVIOUS
<1>0. /\ worker \in [Workers -> WorkerPC] /\ caller \in [Callers -> CallerPC]
      /\ tasks \in Seq(Tasks)
  BY DEF LockInv, TypeOK
<1>1. ASSUME NEW w \in Workers, WorkerLock(w) PROVE NoLostWakeup'
  BY <1>0, <1>1, CountKept DEF WorkerLock, OnTheWay, Asleep
<1>2. ASSUME NEW w \in Workers, Test(w) PROVE NoLostWakeup'
  <2>1. CASE stop \/ tasks # << >>
    BY <1>0, <1>2, <2>1, CountKept DEF Test, OnTheWay, Asleep
  <2>2. CASE ~ (stop \/ tasks # << >>)
    BY <1>2, <2>2, CountKept DEF Test
  <2>3. QED
    BY <2>1, <2>2
<1>3. ASSUME NEW w \in Workers, Park(w) PROVE NoLostWakeup'
  BY <1>3, CountKept DEF Park, LockInv, ReasonInv
<1>4. ASSUME NEW w \in Workers, SpuriousWakeup(w) PROVE NoLostWakeup'
  BY <1>0, <1>4, CountKept DEF SpuriousWakeup, OnTheWay, Asleep
<1>5. ASSUME NEW w \in Workers, Take(w) PROVE NoLostWakeup'
  <2>1. CASE stop /\ tasks = << >>
    BY <1>5, <2>1, CountKept DEF Take
  <2>2. CASE ~ (stop /\ tasks = << >>)
    <3>1. /\ worker[w] = "taking" /\ worker' = [worker EXCEPT ![w] = "running"]
          /\ tasks' = Tail(tasks) /\ caller' = caller /\ tasks # << >>
      BY <1>5, <2>2 DEF Take, LockInv, ReasonInv
    <3>2. Len(tasks') = Len(tasks) - 1 /\ Len(tasks) \in Nat
      BY <1>0, <3>1
    <3>3. OnTheWay' = OnTheWay \ {w} /\ w \in OnTheWay /\ Asleep' = Asleep
      BY <1>0, <3>1, ThreadsAssumption DEF OnTheWay, Asleep
    <3>4. Cardinality(OnTheWay') = Cardinality(OnTheWay) - 1 /\ Cardinality(OnTheWay) \in Nat
      BY <3>3, OnTheWayFinite, FS_RemoveElement
    <3>5. ASSUME Asleep' # {} PROVE Len(tasks') <= Cardinality(OnTheWay')
      <4>1. Len(tasks) <= Cardinality(OnTheWay)
        BY <3>3, <3>5 DEF NoLostWakeup
      <4>2. QED
        BY <3>2, <3>4, <4>1
    <3>6. QED
      BY <3>5 DEF NoLostWakeup
  <2>3. QED
    BY <2>1, <2>2
<1>6. ASSUME NEW w \in Workers, Run(w) PROVE NoLostWakeup'
  BY <1>0, <1>6, CountKept DEF Run, OnTheWay, Asleep
<1>7. ASSUME NEW c \in Callers, CallerLock(c) PROVE NoLostWakeup'
  BY <1>0, <1>7, CountKept DEF CallerLock, OnTheWay, Asleep
<1>8. ASSUME NEW c \in Callers, Push(c) PROVE NoLostWakeup'
  <2>1. caller[c] = "pushing" /\ worker' = worker
    BY <1>8 DEF Push
  <2>2. CASE stop
    BY <1>0, <1>8, <2>2, CountKept DEF Push, OnTheWay, Asleep
  <2>3. CASE ~ stop
    <3>1. /\ caller' = [caller EXCEPT ![c] = "notifying"]
          /\ tasks' = Append(tasks, Plan[c][sent[c] + 1])
      BY <1>8, <2>3 DEF Push
    <3>2. Len(tasks') = Len(tasks) + 1 /\ Len(tasks) \in Nat
      BY <1>0, <3>1
    <3>3. OnTheWay' = OnTheWay \cup {c} /\ c \notin OnTheWay /\ Asleep' = Asleep
      BY <1>0, <2>1, <3>1, ThreadsAssumption DEF OnTheWay, Asleep
    <3>4. Cardinality(OnTheWay') = Cardinality(OnTheWay) + 1 /\ Cardinality(OnTheWay) \in Nat
      BY <3>3, OnTheWayFinite, FS_AddElement
    <3>5. ASSUME Asleep' # {} PROVE Len(tasks') <= Cardinality(OnTheWay')
      <4>1. Len(tasks) <= Cardinality(OnTheWay)
        BY <3>3, <3>5 DEF NoLostWakeup
      <4>2. QED
        BY <3>2, <3>4, <4>1
    <3>6. QED
      BY <3>5 DEF NoLostWakeup
  <2>4. QED
    BY <2>2, <2>3
<1>9. ASSUME NEW c \in Callers, NotifyOne(c) PROVE NoLostWakeup'
  <2>1. /\ caller[c] = "notifying" /\ caller' = [caller EXCEPT ![c] = Enqueuing(c, sent[c])]
        /\ tasks' = tasks
    BY <1>9 DEF NotifyOne
  <2>2. CASE Asleep = {}
    BY <1>9, <2>2, CountKept DEF NotifyOne, Asleep
  <2>3. CASE Asleep # {}
    <3>1. PICK w \in Asleep : worker' = [worker EXCEPT ![w] = "locking"]
      BY <1>9, <2>3 DEF NotifyOne
    <3>2. w \in Workers /\ worker[w] = "asleep"
      BY <3>1 DEF Asleep
    <3> DEFINE others == OnTheWay \ {c}
    <3>3. /\ OnTheWay' = others \cup {w} /\ c \in OnTheWay /\ w \notin others
      <4>1. c \in OnTheWay /\ w \notin OnTheWay
        BY <1>0, <2>1, <3>2, ThreadsAssumption DEF OnTheWay
      <4>2. caller'[c] # "notifying" /\ \A d \in Callers \ {c} : caller'[d] = caller[d]
        BY <1>0, <2>1 DEF Enqueuing
      <4>3. worker'[w] = "locking" /\ \A v \in Workers \ {w} : worker'[v] = worker[v]
        BY <1>0, <3>1, <3>2
      <4>4. OnTheWay' = (OnTheWay \ {c}) \cup {w}
        <5> DEFINE pcs == {"locking", "testing", "taking"}
                   going == {v \in Workers : worker[v] \in pcs}
                   notifying == {d \in Callers : caller[d] = "notifying"}
        <5>1. {v \in Workers : worker'[v] \in pcs} = going \cup {w}
          BY <3>2, <4>3
        <5>2. {d \in Callers : caller'[d] = "notifying"} = notifying \ {c}
          BY <4>2
        <5>3. OnTheWay = going \cup notifying /\ OnTheWay' = (going \cup {w}) \cup (notifying \ {c})
          BY <5>1, <5>2 DEF OnTheWay
        <5>4. c \notin going /\ w # c
          BY <3>2, ThreadsAssumption
        <5> HIDE DEF going, notifying
        <5>5. (going \cup {w}) \cup (notifying \ {c}) = ((going \cup notifying) \ {c}) \cup {w}
          BY <5>4
        <5>6. QED
          BY <5>3, <5>5
      <4>5. QED
        BY <4>1, <4>4
    <3>4. /\ IsFiniteSet(others) /\ Cardinality(others) = Cardinality(OnTheWay) - 1
          /\ Cardinality(OnTheWay) \in Nat
      BY <3>3, OnTheWayFinite, FS_RemoveElement
    <3> HIDE DEF others
    <3>5. Cardinality(OnTheWay') = Cardinality(OnTheWay)
      <4>1. Cardinality(others \cup {w}) = Cardinality(others) + 1
        BY <3>3, <3>4, FS_AddElement, Zenon
      <4>2. QED
        BY <3>3, <3>4, <4>1
    <3>6. QED
      BY <2>1, <2>3, <3>5 DEF NoLostWakeup
  <2>4. QED
    BY <2>2, <2>3
<1>10. ASSUME NEW c \in Callers, TouchDestroyed(c) PROVE NoLostWakeup'
  BY <1>10, CountKept DEF TouchDestroyed, LockInv, StopHeard, Asleep
<1>11. ASSUME NEW c \in Callers, Get(c) PROVE NoLostWakeup'
  BY <1>0, <1>11, CountKept DEF Get, OnTheWay, Asleep
<1>12. ASSUME Destroy \/ DestroyerLock \/ SetStop \/ Join PROVE NoLostWakeup'
  BY <1>12, CountKept DEF Destroy, DestroyerLock, SetStop, Join, OnTheWay, Asleep
<1>13. CASE NotifyAll
  BY <1>0, <1>13, CountKept DEF NotifyAll, Asleep
<1>14. CASE UNCHANGED vars
  BY <1>14, CountKept DEF vars, OnTheWay, Asleep
<1>15. QED
  BY <1>1, <1>2, <1>3, <1>4, <1>5, <1>6, <1>7, <1>8, <1>9, <1>10, <1>11, <1>12, <1>13, <1>14
     DEF Next, WorkerStep, CallerStep, DestroyerStep, Ended

-----------------------------------------------------------------------------

(* A task whose outcome is waited for stays in the queue or with a worker. *)
LEMMA PendingStep == LockInv /\ PendingInv /\ [Next]_vars => PendingInv'
<1> SUFFICES ASSUME LockInv, PendingInv, [Next]_vars, NEW t \in Tasks, future'[t] = "pending"
             PROVE  \/ \E i \in DOMAIN tasks' : tasks'[i] = t
                    \/ \E w \in Workers : task'[w] = t
  BY DEF PendingInv
<1> DEFINE Held == \/ \E i \in DOMAIN tasks' : tasks'[i] = t
                   \/ \E w \in Workers : task'[w] = t
<1>0. /\ tasks \in Seq(Tasks) /\ task \in [Workers -> Tasks \cup {NoTask}]
      /\ future \in [Tasks -> Futures]
  BY DEF LockInv, TypeOK
<1>1. ASSUME UNCHANGED <<tasks, task, future>> PROVE Held
  BY <1>1 DEF PendingInv
<1>2. ASSUME NEW w \in Workers, Take(w), ~ (stop /\ tasks = << >>) PROVE Held
  <2>1. /\ tasks # << >> /\ task' = [task EXCEPT ![w] = Head(tasks)]
        /\ tasks' = Tail(tasks) /\ future' = future
        /\ worker[w] = "taking"
    BY <1>2 DEF Take, LockInv, ReasonInv
  <2>2. task[w] = NoTask
    BY <2>1 DEF LockInv, TypeOK
  <2>3. CASE \E i \in DOMAIN tasks : tasks[i] = t
    <3>1. PICK i \in 1 .. Len(tasks) : tasks[i] = t
      BY <1>0, <2>3
    <3>2. CASE i = 1
      BY <1>0, <2>1, <3>1, <3>2
    <3>3. CASE i # 1
      <4>1. i - 1 \in DOMAIN Tail(tasks) /\ Tail(tasks)[i - 1] = t
        BY <1>0, <2>1, <3>1, <3>3
      <4>2. QED
        BY <2>1, <4>1
    <3>4. QED
      BY <3>2, <3>3
  <2>4. CASE \E v \in Workers : task[v] = t
    <3>1. PICK v \in Workers : task[v] = t
      BY <2>4
    <3>2. v # w
      BY <2>2, <3>1, NamesAssumption
    <3>3. QED
      BY <1>0, <2>1, <3>1, <3>2
  <2>5. QED
    BY <2>1, <2>3, <2>4 DEF PendingInv
<1>3. ASSUME NEW w \in Workers, Run(w) PROVE Held
  <2>1. PICK outcome \in {"value", "exception"} : future' = [future EXCEPT ![task[w]] = outcome]
    BY <1>3 DEF Run
  <2>2. task' = [task EXCEPT ![w] = NoTask] /\ tasks' = tasks /\ worker[w] = "running"
    BY <1>3 DEF Run
  <2>3. t # task[w]
    BY <1>0, <2>1
  <2>4. future[t] = "pending"
    BY <1>0, <2>1, <2>3
  <2>5. (\E i \in DOMAIN tasks : tasks[i] = t) \/ (\E v \in Workers : task[v] = t)
    BY <2>4 DEF PendingInv
  <2>6. QED
    BY <1>0, <2>2, <2>3, <2>5
<1>4. ASSUME NEW c \in Callers, Push(c) PROVE Held
  <2> DEFINE new == Plan[c][sent[c] + 1]
  <2>1. task' = task
    BY <1>4 DEF Push
  <2>2. CASE stop
    <3>1. future' = [future EXCEPT ![new] = "broken"] /\ tasks' = tasks
      BY <1>4, <2>2 DEF Push
    <3>2. future[t] = "pending"
      BY <1>0, <3>1
    <3>3. QED
      BY <2>1, <3>1, <3>2 DEF PendingInv
  <2>3. CASE ~ stop
    <3>1. future' = [future EXCEPT ![new] = "pending"] /\ tasks' = Append(tasks, new)
      BY <1>4, <2>3 DEF Push
    <3> HIDE DEF new
    <3>2. CASE t = new
      <4>1. Len(tasks) + 1 \in DOMAIN tasks' /\ tasks'[Len(tasks) + 1] = t
        BY <1>0, <3>1, <3>2
      <4>2. QED
        BY <4>1
    <3>3. CASE t # new
      <4>1. future[t] = "pending"
        BY <1>0, <3>1, <3>3
      <4>2. CASE \E i \in DOMAIN tasks : tasks[i] = t
        <5>1. PICK i \in 1 .. Len(tasks) : tasks[i] = t
          BY <1>0, <4>2
        <5>2. i \in DOMAIN tasks' /\ tasks'[i] = t
          BY <1>0, <3>1, <5>1
        <5>3. QED
          BY <5>2
      <4>3. QED
        BY <2>1, <4>1, <4>2 DEF PendingInv
    <3>4. QED
      BY <3>2, <3>3
  <2>4. QED
    BY <2>2, <2>3
<1>5. ASSUME NEW w \in Workers,
             \/ WorkerLock(w) \/ Test(w) \/ Park(w) \/ SpuriousWakeup(w)
             \/ Take(w) /\ stop /\ tasks = << >>
      PROVE  Held
  BY <1>1, <1>5 DEF WorkerLock, Test, Park, SpuriousWakeup, Take
<1>6. ASSUME NEW c \in Callers, CallerLock(c) \/ NotifyOne(c) \/ TouchDestroyed(c) \/ Get(c)
      PROVE  Held
  BY <1>1, <1>6 DEF CallerLock, NotifyOne, TouchDestroyed, Get
<1>7. ASSUME Destroy \/ DestroyerLock \/ SetStop \/ NotifyAll \/ Join \/ UNCHANGED vars
      PROVE  Held
  BY <1>1, <1>7 DEF Destroy, DestroyerLock, SetStop, NotifyAll, Join, vars
<1>8. QED
  BY <1>2, <1>3, <1>4, <1>5, <1>6, <1>7 DEF Next, WorkerStep, CallerStep, DestroyerStep, Ended

(* The destructor only joins its last worker when the queue is empty and   *)
(* no worker has a task, and nothing is accepted afterwards.               *)
LEMMA DrainedStep ==
  LockInv /\ LockInv' /\ PendingInv' /\ DrainedBeforeGone /\ [Next]_vars => DrainedBeforeGone'
<1> SUFFICES ASSUME LockInv, LockInv', PendingInv', DrainedBeforeGone, [Next]_vars,
                    destroyer' = "destroyed"
             PROVE  tasks' = << >> /\ \A t \in Tasks : future'[t] # "pending"
  BY DEF DrainedBeforeGone
<1>1. ASSUME \A w \in Workers : worker'[w] = "exited"
      PROVE  tasks' = << >> /\ \A t \in Tasks : future'[t] # "pending"
  <2>1. tasks' = << >>
    BY <1>1, WorkersAssumption DEF LockInv, LeaveInv
  <2>2. \A w \in Workers : task'[w] = NoTask
    BY <1>1 DEF LockInv, TypeOK
  <2>3. ASSUME NEW t \in Tasks, future'[t] = "pending" PROVE FALSE
    <3>1. \/ \E i \in DOMAIN tasks' : tasks'[i] = t
          \/ \E w \in Workers : task'[w] = t
      BY <2>3 DEF PendingInv
    <3>2. ~ \E i \in DOMAIN tasks' : tasks'[i] = t
      BY <2>1
    <3>3. QED
      BY <2>2, <3>1, <3>2, NamesAssumption
  <2>4. QED
    BY <2>1, <2>3
<1>2. CASE Join
  BY <1>1, <1>2 DEF Join
<1>3. CASE destroyer = "destroyed"
  <2>1. tasks = << >> /\ \A t \in Tasks : future[t] # "pending"
    BY <1>3 DEF DrainedBeforeGone
  <2>2. stop
    BY <1>3 DEF LockInv, StopInv
  <2>3. ASSUME NEW w \in Workers, WorkerStep(w) \/ SpuriousWakeup(w)
        PROVE  tasks' = << >> /\ \A t \in Tasks : future'[t] # "pending"
    <3>1. CASE UNCHANGED <<tasks, future>>
      BY <2>1, <3>1
    <3>2. CASE Run(w)
      <4>1. PICK outcome \in {"value", "exception"} : future' = [future EXCEPT ![task[w]] = outcome]
        BY <3>2 DEF Run
      <4>2. tasks' = tasks
        BY <3>2 DEF Run
      <4>3. \A t \in Tasks : future'[t] # "pending"
        BY <2>1, <4>1 DEF LockInv, TypeOK
      <4>4. QED
        BY <2>1, <4>2, <4>3
    <3>3. QED
      BY <2>1, <2>2, <2>3, <3>1, <3>2
         DEF WorkerStep, WorkerLock, Test, Park, Take, SpuriousWakeup
  <2>4. ASSUME NEW c \in Callers, CallerStep(c)
        PROVE  tasks' = << >> /\ \A t \in Tasks : future'[t] # "pending"
    <3>1. CASE UNCHANGED <<tasks, future>>
      BY <2>1, <3>1
    <3>2. CASE Push(c)
      <4>1. tasks' = tasks /\ future' = [future EXCEPT ![Plan[c][sent[c] + 1]] = "broken"]
        BY <2>2, <3>2 DEF Push
      <4>2. \A t \in Tasks : future'[t] # "pending"
        BY <2>1, <4>1 DEF LockInv, TypeOK
      <4>3. QED
        BY <2>1, <4>1, <4>2
    <3>3. QED
      BY <2>4, <3>1, <3>2 DEF CallerStep, CallerLock, NotifyOne, TouchDestroyed, Get
  <2>5. CASE Destroy \/ DestroyerStep
    BY <1>3, <2>5 DEF Destroy, DestroyerStep, DestroyerLock, SetStop, NotifyAll, Join
  <2>6. CASE UNCHANGED vars
    BY <2>1, <2>6 DEF vars
  <2>7. QED
    BY <2>3, <2>4, <2>5, <2>6 DEF Next, Ended
<1>4. CASE destroyer # "destroyed" /\ ~ Join
  <2>1. destroyer' = destroyer \/ destroyer' \in {"locking", "stopping", "notifying", "joining"}
    BY <1>4 DEF Next, WorkerStep, CallerStep, DestroyerStep, Ended, vars, WorkerLock, Test, Park,
                Take, Run, SpuriousWakeup, CallerLock, Push, NotifyOne, TouchDestroyed, Get,
                Destroy, DestroyerLock, SetStop, NotifyAll
  <2>2. QED
    BY <1>4, <2>1
<1>5. QED
  BY <1>2, <1>3, <1>4

-----------------------------------------------------------------------------

(* The inductive invariant of the pool.                                    *)
THEOREM PoolInvariant == Spec => []PoolInv
<1>1. Init => PoolInv
  <2> SUFFICES ASSUME Init PROVE PoolInv
    OBVIOUS
  <2>1. TypeOK
    <3>1. ASSUME NEW c \in Callers PROVE SentOK(c) /\ caller[c] \in CallerPC
      <4>1. Len(Plan[c]) \in Nat
        BY PlanAssumption
      <4>2. sent[c] = 0 /\ caller[c] = IF 0 < Len(Plan[c]) THEN "locking" ELSE "getting"
        BY DEF Init, Enqueuing
      <4>3. QED
        BY <4>1, <4>2 DEF SentOK, CallerPC
    <3>2. QED
      <4>1. /\ tasks \in Seq(Tasks) /\ stop \in BOOLEAN
            /\ mutex \in Workers \cup Callers \cup {Destroyer, Nobody}
        <5>1. tasks = << >> /\ stop = FALSE /\ mutex = Nobody
          BY Zenon DEF Init
        <5>2. << >> \in Seq(Tasks)
          OBVIOUS
        <5>3. QED
          BY <5>1, <5>2, Zenon
      <4>2. /\ worker \in [Workers -> WorkerPC] /\ task \in [Workers -> Tasks \cup {NoTask}]
            /\ \A w \in Workers : task[w] # NoTask <=> worker[w] = "running"
        BY DEF Init, WorkerPC
      <4>3. caller \in [Callers -> CallerPC] /\ sent \in [Callers -> Nat]
        BY <3>1 DEF Init
      <4>4. future \in [Tasks -> Futures] /\ destroyer \in DestroyerPC
        BY DEF Init, Futures, DestroyerPC
      <4>5. spurious \in 0 .. MaxSpurious
        BY SpuriousAssumption DEF Init
      <4>6. QED
        BY <3>1, <4>1, <4>2, <4>3, <4>4, <4>5 DEF TypeOK
  <2>2. MutexInv
    BY NamesAssumption DEF Init, MutexInv, Enqueuing
  <2>3. ReasonInv /\ StopInv /\ StopHeard /\ LeaveInv /\ PendingInv /\ DrainedBeforeGone
    BY DEF Init, ReasonInv, StopInv, StopHeard, LeaveInv, PendingInv, DrainedBeforeGone
  <2>4. NoLostWakeup
    BY DEF Init, NoLostWakeup, Asleep
  <2>5. QED
    BY <2>1, <2>2, <2>3, <2>4 DEF PoolInv
<1>2. PoolInv /\ [Next]_vars => PoolInv'
  BY LockStep, WakeupStep, PendingStep, DrainedStep DEF PoolInv, LockInv
<1>3. QED
  BY <1>1, <1>2, PTL DEF Spec

(* Type correctness of the model of thread_pool and its callers.           *)
THEOREM TypesCorrect == Spec => []TypeOK
<1>1. PoolInv => TypeOK
  BY DEF PoolInv
<1>2. QED
  BY <1>1, PoolInvariant, PTL

(* Once ~thread_pool has notified, no worker sleeps or is about to: every  *)
(* thread it joins is one that will see stop.                              *)
THEOREM NobodySleepsThroughStop == Spec => []StopHeard
<1>1. PoolInv => StopHeard
  BY DEF PoolInv
<1>2. QED
  BY <1>1, PoolInvariant, PTL

(* Notifying after the mutex was released loses no wakeup, however many    *)
(* workers, callers and spurious wakeups there are.                        *)
THEOREM NoWakeupLost == Spec => []NoLostWakeup
<1>1. PoolInv => NoLostWakeup
  BY DEF PoolInv
<1>2. QED
  BY <1>1, PoolInvariant, PTL

(* A pool that is gone has run every task it accepted.                     *)
THEOREM GoneIsDrained == Spec => []DrainedBeforeGone
<1>1. PoolInv => DrainedBeforeGone
  BY DEF PoolInv
<1>2. QED
  BY <1>1, PoolInvariant, PTL

-----------------------------------------------------------------------------

(* A task is in one place at a time: not enqueued yet, once in the queue,  *)
(* with one worker, or done.                                               *)
OnceInv ==
  /\ \A c \in Callers : \A i \in 1 .. Len(Plan[c]) : i > sent[c] => future[Plan[c][i]] = "none"
  /\ \A i \in 1 .. Len(tasks) : future[tasks[i]] = "pending"
  /\ \A i, j \in 1 .. Len(tasks) : tasks[i] = tasks[j] => i = j
  /\ \A w \in Workers : task[w] # NoTask =>
       future[task[w]] = "pending" /\ \A i \in 1 .. Len(tasks) : tasks[i] # task[w]
  /\ \A v, w \in Workers : task[v] = task[w] /\ task[v] # NoTask => v = w

(* What the block of Take does when it takes a task.                       *)
LEMMA TakesHead ==
  ASSUME LockInv, NEW w \in Workers, Take(w), ~ (stop /\ tasks = << >>)
  PROVE  /\ tasks \in Seq(Tasks) /\ tasks # << >>
         /\ tasks' = Tail(tasks) /\ task' = [task EXCEPT ![w] = Head(tasks)]
         /\ worker' = [worker EXCEPT ![w] = "running"]
         /\ task[w] = NoTask /\ worker[w] = "taking"
         /\ UNCHANGED <<future, sent, stop>>
<1>1. worker[w] = "taking" /\ tasks # << >>
  BY DEF Take, LockInv, ReasonInv
<1>2. task[w] = NoTask /\ tasks \in Seq(Tasks)
  BY <1>1 DEF LockInv, TypeOK
<1>3. QED
  BY <1>1, <1>2 DEF Take

(* The task of Push is one of the plan that was not enqueued before.       *)
LEMMA PushesNext ==
  ASSUME LockInv, OnceInv, NEW c \in Callers, Push(c)
  PROVE  /\ sent[c] + 1 \in 1 .. Len(Plan[c])
         /\ Plan[c][sent[c] + 1] \in Tasks
         /\ future[Plan[c][sent[c] + 1]] = "none"
         /\ sent' = [sent EXCEPT ![c] = sent[c] + 1]
<1>1. SentOK(c) /\ caller[c] = "pushing" /\ sent[c] \in Nat /\ Plan[c] \in Seq(Tasks)
  BY PlanAssumption DEF LockInv, TypeOK, Push
<1>2. sent[c] + 1 \in 1 .. Len(Plan[c]) /\ sent[c] + 1 > sent[c]
  BY <1>1 DEF SentOK
<1>3. future[Plan[c][sent[c] + 1]] = "none"
  BY <1>2 DEF OnceInv
<1>4. Plan[c][sent[c] + 1] \in Tasks
  BY <1>1, <1>2
<1>5. QED
  BY <1>2, <1>3, <1>4 DEF Push

(* Every step of every thread keeps each task in one place.                *)
LEMMA OnceStep == LockInv /\ OnceInv /\ [Next]_vars => OnceInv'
<1> SUFFICES ASSUME LockInv, OnceInv, [Next]_vars PROVE OnceInv'
  OBVIOUS
<1>0. /\ tasks \in Seq(Tasks) /\ task \in [Workers -> Tasks \cup {NoTask}]
      /\ future \in [Tasks -> Futures] /\ sent \in [Callers -> Nat]
  BY DEF LockInv, TypeOK
<1>1. ASSUME UNCHANGED <<tasks, task, future, sent>> PROVE OnceInv'
  BY <1>1 DEF OnceInv
<1>2. ASSUME NEW w \in Workers, Take(w), ~ (stop /\ tasks = << >>) PROVE OnceInv'
  <2> DEFINE t == Head(tasks)
  <2>1. /\ tasks # << >> /\ tasks' = Tail(tasks) /\ task' = [task EXCEPT ![w] = t]
        /\ task[w] = NoTask /\ future' = future /\ sent' = sent
    BY <1>2, TakesHead
  <2>2. /\ Len(tasks') = Len(tasks) - 1 /\ Len(tasks) \in Nat
        /\ \A i \in 1 .. Len(tasks') : i + 1 \in 1 .. Len(tasks) /\ tasks'[i] = tasks[i + 1]
        /\ 1 \in 1 .. Len(tasks) /\ t = tasks[1] /\ t \in Tasks
    BY <1>0, <2>1
  <2>3. /\ task'[w] = t
        /\ \A v \in Workers \ {w} : task'[v] = task[v]
    BY <1>0, <2>1
  <2> HIDE DEF t
  <2>4. future[t] = "pending" /\ \A i \in 1 .. Len(tasks') : tasks'[i] # t
    <3>1. future[t] = "pending"
      BY <2>2 DEF OnceInv
    <3>2. ASSUME NEW i \in 1 .. Len(tasks'), tasks'[i] = t PROVE FALSE
      <4>1. tasks[i + 1] = tasks[1] /\ i + 1 \in 1 .. Len(tasks) /\ i \in Nat /\ i >= 1
        BY <2>2, <3>2
      <4>2. i + 1 = 1
        BY <2>2, <4>1 DEF OnceInv
      <4>3. QED
        BY <4>1, <4>2
    <3>3. QED
      BY <3>1, <3>2
  <2>5. \A v \in Workers : task[v] # t
    BY <2>2, NamesAssumption DEF OnceInv
  <2>6. \A i \in 1 .. Len(tasks') : future'[tasks'[i]] = "pending"
    BY <2>1, <2>2 DEF OnceInv
  <2>7. ASSUME NEW i \in 1 .. Len(tasks'), NEW j \in 1 .. Len(tasks'), tasks'[i] = tasks'[j]
        PROVE  i = j
    <3>1. /\ i + 1 \in 1 .. Len(tasks) /\ j + 1 \in 1 .. Len(tasks)
          /\ tasks[i + 1] = tasks[j + 1]
      BY <2>2, <2>7
    <3>2. i + 1 = j + 1
      BY <3>1 DEF OnceInv
    <3>3. QED
      BY <2>2, <3>2
  <2>8. ASSUME NEW v \in Workers, task'[v] # NoTask
        PROVE  future'[task'[v]] = "pending" /\ \A i \in 1 .. Len(tasks') : tasks'[i] # task'[v]
    <3>1. CASE v = w
      BY <2>1, <2>3, <2>4, <3>1
    <3>2. CASE v # w
      <4>1. task'[v] = task[v] /\ task[v] # NoTask
        BY <2>3, <2>8, <3>2
      <4>2. future[task[v]] = "pending" /\ \A i \in 1 .. Len(tasks) : tasks[i] # task[v]
        BY <4>1 DEF OnceInv
      <4>3. QED
        BY <2>1, <2>2, <4>1, <4>2
    <3>3. QED
      BY <3>1, <3>2
  <2>9. \A u, v \in Workers : task'[u] = task'[v] /\ task'[u] # NoTask => u = v
    BY <2>3, <2>5 DEF OnceInv
  <2>10. \A c \in Callers : \A i \in 1 .. Len(Plan[c]) :
           i > sent'[c] => future'[Plan[c][i]] = "none"
    BY <2>1 DEF OnceInv
  <2>11. QED
    BY <2>6, <2>7, <2>8, <2>9, <2>10 DEF OnceInv
<1>3. ASSUME NEW w \in Workers, Run(w) PROVE OnceInv'
  <2>1. PICK outcome \in {"value", "exception"} : future' = [future EXCEPT ![task[w]] = outcome]
    BY <1>3 DEF Run
  <2>2. /\ task' = [task EXCEPT ![w] = NoTask] /\ tasks' = tasks /\ sent' = sent
        /\ task[w] # NoTask
    BY <1>3 DEF Run, LockInv, TypeOK
  <2>3. /\ task'[w] = NoTask /\ \A v \in Workers \ {w} : task'[v] = task[v]
        /\ \A t \in Tasks \ {task[w]} : future'[t] = future[t]
    BY <1>0, <2>1, <2>2
  <2>4. future[task[w]] = "pending" /\ \A i \in 1 .. Len(tasks) : tasks[i] # task[w]
    BY <2>2 DEF OnceInv
  <2>5. \A i \in 1 .. Len(tasks) : tasks[i] \in Tasks
    BY <1>0
  <2>6. \A i \in 1 .. Len(tasks') : future'[tasks'[i]] = "pending"
    BY <2>2, <2>3, <2>4, <2>5 DEF OnceInv
  <2>7. ASSUME NEW v \in Workers, task'[v] # NoTask
        PROVE  future'[task'[v]] = "pending" /\ \A i \in 1 .. Len(tasks') : tasks'[i] # task'[v]
    <3>1. v # w /\ task'[v] = task[v] /\ task[v] # NoTask /\ task[v] \in Tasks
      BY <1>0, <2>3, <2>7
    <3>2. task[v] # task[w]
      BY <3>1 DEF OnceInv
    <3>3. QED
      BY <2>2, <2>3, <3>1, <3>2 DEF OnceInv
  <2>8. \A u, v \in Workers : task'[u] = task'[v] /\ task'[u] # NoTask => u = v
    BY <2>3 DEF OnceInv
  <2>9. ASSUME NEW c \in Callers, NEW i \in 1 .. Len(Plan[c]), i > sent'[c]
        PROVE  future'[Plan[c][i]] = "none"
    <3>1. future[Plan[c][i]] = "none"
      BY <2>2, <2>9 DEF OnceInv
    <3>2. Plan[c][i] \in Tasks
      BY PlanAssumption
    <3>3. QED
      BY <2>3, <2>4, <3>1, <3>2
  <2>10. \A i, j \in 1 .. Len(tasks') : tasks'[i] = tasks'[j] => i = j
    BY <2>2 DEF OnceInv
  <2>11. QED
    BY <2>6, <2>7, <2>8, <2>9, <2>10 DEF OnceInv
<1>4. ASSUME NEW c \in Callers, Push(c) PROVE OnceInv'
  <2> DEFINE new == Plan[c][sent[c] + 1]
  <2>1. /\ sent[c] + 1 \in 1 .. Len(Plan[c]) /\ new \in Tasks /\ future[new] = "none"
        /\ sent' = [sent EXCEPT ![c] = sent[c] + 1] /\ task' = task
    BY <1>4, PushesNext DEF Push
  <2>2. ASSUME NEW d \in Callers, NEW i \in 1 .. Len(Plan[d]), i > sent'[d]
        PROVE  /\ Plan[d][i] # new /\ Plan[d][i] \in Tasks
               /\ future[Plan[d][i]] = "none"
    <3>1. i > sent[d] /\ ~ (d = c /\ i = sent[c] + 1)
      BY <1>0, <2>1, <2>2
    <3>2. Plan[d][i] # new
      BY <2>1, <3>1, OnceAssumption
    <3>3. QED
      BY <3>1, <3>2, PlanAssumption DEF OnceInv
  <2>3. /\ \A i \in 1 .. Len(tasks) : tasks[i] # new /\ tasks[i] \in Tasks
        /\ \A w \in Workers : task[w] # NoTask => task[w] # new
    BY <1>0, <2>1 DEF OnceInv
  <2>4. CASE stop
    <3>1. future' = [future EXCEPT ![new] = "broken"] /\ tasks' = tasks
      BY <1>4, <2>4 DEF Push
    <3> HIDE DEF new
    <3>2. \A t \in Tasks \ {new} : future'[t] = future[t]
      BY <1>0, <3>1
    <3>3. \A d \in Callers : \A i \in 1 .. Len(Plan[d]) :
            i > sent'[d] => future'[Plan[d][i]] = "none"
      BY <2>2, <3>2
    <3>4. \A i \in 1 .. Len(tasks') : future'[tasks'[i]] = "pending"
      BY <2>3, <3>1, <3>2 DEF OnceInv
    <3>5. \A w \in Workers : task'[w] # NoTask =>
            future'[task'[w]] = "pending" /\ \A i \in 1 .. Len(tasks') : tasks'[i] # task'[w]
      BY <1>0, <2>1, <2>3, <3>1, <3>2 DEF OnceInv
    <3>6. QED
      BY <2>1, <3>1, <3>3, <3>4, <3>5 DEF OnceInv
  <2>5. CASE ~ stop
    <3>1. future' = [future EXCEPT ![new] = "pending"] /\ tasks' = Append(tasks, new)
      BY <1>4, <2>5 DEF Push
    <3> HIDE DEF new
    <3>2. future'[new] = "pending" /\ \A t \in Tasks \ {new} : future'[t] = future[t]
      BY <1>0, <2>1, <3>1
    <3>3. /\ Len(tasks') = Len(tasks) + 1 /\ Len(tasks) \in Nat /\ tasks'[Len(tasks) + 1] = new
          /\ \A i \in 1 .. Len(tasks) : tasks'[i] = tasks[i]
      BY <1>0, <2>1, <3>1
    <3>4. \A d \in Callers : \A i \in 1 .. Len(Plan[d]) :
            i > sent'[d] => future'[Plan[d][i]] = "none"
      BY <2>2, <3>2
    <3>5. \A i \in 1 .. Len(tasks') : i \in 1 .. Len(tasks) \/ i = Len(tasks) + 1
      BY <3>3
    <3>6. \A i \in 1 .. Len(tasks') : future'[tasks'[i]] = "pending"
      BY <2>3, <3>2, <3>3, <3>5 DEF OnceInv
    <3>7. \A i, j \in 1 .. Len(tasks') : tasks'[i] = tasks'[j] => i = j
      BY <2>3, <3>3, <3>5 DEF OnceInv
    <3>8. \A w \in Workers : task'[w] # NoTask =>
            future'[task'[w]] = "pending" /\ \A i \in 1 .. Len(tasks') : tasks'[i] # task'[w]
      BY <1>0, <2>1, <2>3, <3>2, <3>3, <3>5 DEF OnceInv
    <3>9. QED
      BY <2>1, <3>4, <3>6, <3>7, <3>8 DEF OnceInv
  <2>6. QED
    BY <2>4, <2>5
<1>5. ASSUME NEW w \in Workers,
             \/ WorkerLock(w) \/ Test(w) \/ Park(w) \/ SpuriousWakeup(w)
             \/ Take(w) /\ stop /\ tasks = << >>
      PROVE  OnceInv'
  BY <1>1, <1>5 DEF WorkerLock, Test, Park, SpuriousWakeup, Take
<1>6. ASSUME NEW c \in Callers, CallerLock(c) \/ NotifyOne(c) \/ TouchDestroyed(c) \/ Get(c)
      PROVE  OnceInv'
  BY <1>1, <1>6 DEF CallerLock, NotifyOne, TouchDestroyed, Get
<1>7. ASSUME Destroy \/ DestroyerLock \/ SetStop \/ NotifyAll \/ Join \/ UNCHANGED vars
      PROVE  OnceInv'
  BY <1>1, <1>7 DEF Destroy, DestroyerLock, SetStop, NotifyAll, Join, vars
<1>8. QED
  BY <1>2, <1>3, <1>4, <1>5, <1>6, <1>7 DEF Next, WorkerStep, CallerStep, DestroyerStep, Ended

-----------------------------------------------------------------------------

(* What TaskPool sees of the pool.                                         *)
Running == {task[w] : w \in {v \in Workers : worker[v] = "running"}}
Outcome == [t \in Tasks |-> IF future[t] = "pending" THEN "none" ELSE future[t]]

(* The tasks running are those the workers have.                           *)
LEMMA RunningIs == TypeOK => Running = {task[w] : w \in {v \in Workers : task[v] # NoTask}}
BY DEF TypeOK, Running

(* While one worker has no task, fewer tasks run than there are workers.   *)
LEMMA RoomForOne ==
  ASSUME TypeOK, NEW w \in Workers, task[w] = NoTask
  PROVE  Cardinality(Running) < Cardinality(Workers)
<1> DEFINE Busy == {v \in Workers : task[v] # NoTask}
           f == [v \in Busy |-> task[v]]
<1>1. f \in Surjection(Busy, Running)
  <2>1. \A v \in Busy : f[v] \in Running
    BY RunningIs
  <2>2. \A t \in Running : \E v \in Busy : f[v] = t
    BY RunningIs
  <2>3. f \in [Busy -> Running]
    BY <2>1
  <2>4. QED
    BY <2>2, <2>3 DEF Surjection
<1>2. IsFiniteSet(Workers \ {w}) /\ Cardinality(Workers \ {w}) = Cardinality(Workers) - 1
  BY WorkersAssumption, FS_RemoveElement
<1>3. Busy \in SUBSET (Workers \ {w})
  OBVIOUS
<1>4. IsFiniteSet(Busy) /\ Cardinality(Busy) <= Cardinality(Workers \ {w})
  BY <1>2, <1>3, FS_Subset
<1>5. IsFiniteSet(Running) /\ Cardinality(Running) <= Cardinality(Busy)
  BY <1>1, <1>4, FS_Surjection
<1>6. /\ Cardinality(Workers) \in Nat /\ Cardinality(Busy) \in Nat
      /\ Cardinality(Running) \in Nat
  BY <1>4, <1>5, WorkersAssumption, FS_CardinalityType
<1>7. QED
  BY <1>2, <1>4, <1>5, <1>6

(* A task is Fresh for TaskPool until it is pushed.                        *)
LEMMA FreshTask ==
  ASSUME LockInv, OnceInv, NEW t \in Tasks, future[t] = "none"
  PROVE  Outcome[t] = "none" /\ t \notin Running /\ \A i \in DOMAIN tasks : tasks[i] # t
<1>1. Outcome[t] = "none"
  BY DEF Outcome
<1>2. t \notin Running
  BY RunningIs DEF OnceInv, LockInv
<1>3. ASSUME NEW i \in DOMAIN tasks, tasks[i] = t PROVE FALSE
  <2>1. i \in 1 .. Len(tasks)
    BY DEF LockInv, TypeOK
  <2>2. QED
    BY <1>3, <2>1 DEF OnceInv
<1>4. QED
  BY <1>1, <1>2, <1>3

(* Every step of the threads is a step of the abstract pool or none.       *)
LEMMA PoolStep ==
  LockInv /\ LockInv' /\ OnceInv /\ [Next]_vars
    => [Pool!Next]_<<tasks, Running, Outcome, ~ stop>>
<1> SUFFICES ASSUME LockInv, LockInv', OnceInv, [Next]_vars
             PROVE  \/ Pool!Next
                    \/ UNCHANGED <<tasks, Running, Outcome, ~ stop>>
  OBVIOUS
<1>0. /\ tasks \in Seq(Tasks) /\ task \in [Workers -> Tasks \cup {NoTask}]
      /\ future \in [Tasks -> Futures] /\ stop \in BOOLEAN
      /\ Running = {task[w] : w \in {v \in Workers : task[v] # NoTask}}
      /\ Running' = {task'[w] : w \in {v \in Workers : task'[v] # NoTask}}
  BY RunningIs DEF LockInv, TypeOK, Running
<1>1. ASSUME UNCHANGED <<tasks, task, future, stop>>
      PROVE  UNCHANGED <<tasks, Running, Outcome, ~ stop>>
  BY <1>0, <1>1 DEF Outcome
<1>2. ASSUME NEW w \in Workers, Take(w), ~ (stop /\ tasks = << >>) PROVE Pool!Next
  <2>1. /\ tasks # << >> /\ tasks' = Tail(tasks) /\ task' = [task EXCEPT ![w] = Head(tasks)]
        /\ task[w] = NoTask /\ future' = future /\ stop' = stop
    BY <1>2, TakesHead
  <2>2. Pool!Cardinality(Running) < Cardinality(Workers)
    <3>1. Pool!Cardinality(Running) = Cardinality(Running)
      BY DEF Pool!Cardinality, Cardinality
    <3>2. QED
      BY <2>1, <3>1, RoomForOne DEF LockInv
  <2>3. Head(tasks) # NoTask
    BY <1>0, <2>1, NamesAssumption
  <2>4. Running' = Running \cup {Head(tasks)}
    BY <1>0, <2>1, <2>3
  <2>5. Outcome' = Outcome
    BY <2>1 DEF Outcome
  <2>6. QED
    BY <2>1, <2>2, <2>4, <2>5 DEF Pool!Next, Pool!Start, Running, Outcome
<1>3. ASSUME NEW w \in Workers, Run(w) PROVE Pool!Next
  <2>1. PICK outcome \in {"value", "exception"} : future' = [future EXCEPT ![task[w]] = outcome]
    BY <1>3 DEF Run
  <2>2. /\ task' = [task EXCEPT ![w] = NoTask] /\ tasks' = tasks /\ stop' = stop
        /\ task[w] # NoTask /\ task[w] \in Tasks
    BY <1>0, <1>3 DEF Run, LockInv, TypeOK
  <2>3. task[w] \in Running
    BY <1>0, <2>2
  <2>4. \A v \in Workers : task[v] = task[w] => v = w
    BY <2>2 DEF OnceInv
  <2>5. Running' = Running \ {task[w]}
    BY <1>0, <2>2, <2>4
  <2>6. Outcome' = [Outcome EXCEPT ![task[w]] = outcome]
    BY <1>0, <2>1, <2>2 DEF Outcome
  <2>7. QED
    BY <2>1, <2>2, <2>3, <2>5, <2>6 DEF Pool!Next, Pool!Finish, Running, Outcome
<1>4. ASSUME NEW c \in Callers, Push(c) PROVE Pool!Next
  <2> DEFINE new == Plan[c][sent[c] + 1]
  <2>1. new \in Tasks /\ future[new] = "none"
    BY <1>4, PushesNext
  <2>2. task' = task /\ stop' = stop
    BY <1>4 DEF Push
  <2>3. Running' = Running
    BY <1>0, <2>2
  <2>4. Pool!Fresh(new)
    BY <2>1, FreshTask DEF Pool!Fresh, Running, Outcome
  <2>5. CASE stop
    <3>1. future' = [future EXCEPT ![new] = "broken"] /\ tasks' = tasks
      BY <1>4, <2>5 DEF Push
    <3> HIDE DEF new
    <3>2. Outcome' = [Outcome EXCEPT ![new] = "broken"]
      BY <1>0, <2>1, <3>1 DEF Outcome
    <3>3. QED
      BY <2>1, <2>2, <2>3, <2>4, <2>5, <3>1, <3>2 DEF Pool!Next, Pool!Refuse, Running, Outcome
  <2>6. CASE ~ stop
    <3>1. future' = [future EXCEPT ![new] = "pending"] /\ tasks' = Append(tasks, new)
      BY <1>4, <2>6 DEF Push
    <3> HIDE DEF new
    <3>2. Outcome' = Outcome
      BY <1>0, <2>1, <3>1 DEF Outcome
    <3>3. QED
      BY <2>1, <2>2, <2>3, <2>4, <2>6, <3>1, <3>2 DEF Pool!Next, Pool!Accept, Running, Outcome
  <2>7. QED
    BY <2>5, <2>6
<1>5. CASE SetStop
  <2>1. ~ stop /\ stop' /\ UNCHANGED <<tasks, task, future>>
    BY <1>5 DEF SetStop, LockInv, StopInv
  <2>2. Running' = Running /\ Outcome' = Outcome
    BY <1>0, <2>1 DEF Outcome
  <2>3. QED
    BY <1>0, <2>1, <2>2 DEF Pool!Next, Pool!Close, Running, Outcome
<1>6. ASSUME NEW w \in Workers,
             \/ WorkerLock(w) \/ Test(w) \/ Park(w) \/ SpuriousWakeup(w)
             \/ Take(w) /\ stop /\ tasks = << >>
      PROVE  UNCHANGED <<tasks, Running, Outcome, ~ stop>>
  BY <1>1, <1>6 DEF WorkerLock, Test, Park, SpuriousWakeup, Take
<1>7. ASSUME NEW c \in Callers, CallerLock(c) \/ NotifyOne(c) \/ TouchDestroyed(c) \/ Get(c)
      PROVE  UNCHANGED <<tasks, Running, Outcome, ~ stop>>
  BY <1>1, <1>7 DEF CallerLock, NotifyOne, TouchDestroyed, Get
<1>8. ASSUME Destroy \/ DestroyerLock \/ NotifyAll \/ Join \/ UNCHANGED vars
      PROVE  UNCHANGED <<tasks, Running, Outcome, ~ stop>>
  BY <1>1, <1>8 DEF Destroy, DestroyerLock, NotifyAll, Join, vars
<1>9. QED
  BY <1>2, <1>3, <1>4, <1>5, <1>6, <1>7, <1>8
     DEF Next, WorkerStep, CallerStep, DestroyerStep, Ended

(* thread_pool is the pool first_scan relies on: each accepted task starts *)
(* once, in the order of the queue, and nothing is accepted after stop,    *)
(* for any number of workers, callers and tasks.                           *)
THEOREM ImplementsTaskPool == Spec => PoolImplemented
<1>1. Init => OnceInv
  BY PlanAssumption DEF Init, OnceInv
<1>2. Init => Pool!Init
  <2> SUFFICES ASSUME Init PROVE Pool!Init
    OBVIOUS
  <2>1. tasks = << >> /\ stop = FALSE /\ future = [t \in Tasks |-> "none"]
    BY Zenon DEF Init
  <2>2. Running = {}
    BY DEF Init, Running
  <2>3. Outcome = [t \in Tasks |-> "none"]
    BY <2>1 DEF Outcome
  <2>4. QED
    BY <2>1, <2>2, <2>3 DEF Pool!Init, Running, Outcome
<1>3. PoolInv => LockInv
  BY DEF PoolInv, LockInv
<1>4. LockInv /\ LockInv' /\ OnceInv /\ [Next]_vars => OnceInv' /\ [Pool!Next]_(Pool!poolVars)
  BY OnceStep, PoolStep DEF Pool!poolVars, Running, Outcome
<1>5. QED
  BY <1>1, <1>2, <1>3, <1>4, PoolInvariant, PTL DEF Spec, PoolImplemented, Pool!Spec

=============================================================================
