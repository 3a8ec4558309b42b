------------------------ MODULE ProbeSchedulerProofs ------------------------
(***************************************************************************)
(* Proofs about ProbeScheduler, for any numbers of jobs, workers, closers  *)
(* and priorities, with or without Task.cancelling, with operations that   *)
(* suppress cancellation and closers that are cancelled.                   *)
(*                                                                         *)
(* The bound on concurrent operations and the refinement of                *)
(* PriorityService are for close() calls that do not overlap: there is at  *)
(* most one closer, which may close again and again.  With two the bound   *)
(* is wrong: the second forgets the pool that was started after the first  *)
(* (a third can be started beside it).                                     *)
(***************************************************************************)
EXTENDS ProbeScheduler, FiniteSetTheorems, TLAPS

USE DEF Outcome, TaskOver, LiveTask, Ended

\* The type invariant holds before the first submit().
LEMMA TypeInit == Init => TypeOK
<1> SUFFICES ASSUME Init PROVE TypeOK
  OBVIOUS
<1>1. /\ started \in BOOLEAN /\ workers \subseteq Worker /\ workers = {}
      /\ alive \subseteq Worker /\ wcancel \subseteq alive /\ wthrow \subseteq alive
      /\ queue \subseteq Job /\ begun \subseteq Job /\ tcancel \subseteq Job
      /\ ccancel \subseteq Job /\ interrupted = {}
  BY DEF Init
<1>2. /\ wjob \in [Worker -> Job \cup {NoJob}]
      /\ gathered \in [Closer -> SUBSET Worker]
  BY DEF Init
<1>3. sequence \in Nat /\ prio \in [Job -> Nat] /\ seq \in [Job -> Nat]
  BY DEF Init
<1>4. /\ fut \in [Job -> {"none", "pending"} \cup Outcome]
      /\ task \in [Job -> {"none"} \cup LiveTask \cup TaskOver]
      /\ coro \in [Job -> {"factory", "open", "consumed", "closed"}]
      /\ caller \in [Job -> {"idle", "waiting"} \cup Ended]
  BY DEF Init
<1> QED
  BY <1>1, <1>2, <1>3, <1>4 DEF TypeOK

\* Every step of callers, tasks, workers and close() keeps it; start() makes a
\* pool of Concurrency workers or leaves the one there is.
LEMMA TypeStep == TypeOK /\ [Next]_vars => TypeOK'
<1> SUFFICES ASSUME TypeOK, [Next]_vars PROVE TypeOK'
  OBVIOUS
<1> USE DEF TypeOK
<1>1. ASSUME NEW j \in Job, NEW p \in Priority, NEW l \in Legacy, Submit(j, p, l)
      PROVE  TypeOK'
  <2>1. /\ started' \in BOOLEAN /\ workers' \subseteq Worker
        /\ workers' = {} \/ Cardinality(workers') = Concurrency
        /\ alive' \subseteq Worker /\ alive \subseteq alive'
    <3>1. CASE started
      BY <1>1, <3>1 DEF Submit, Start
    <3>2. CASE ~started
      <4>1. PICK W \in SUBSET Fresh : /\ Cardinality(W) = Concurrency
                                      /\ workers' = W /\ alive' = alive \cup W
        BY <1>1, <3>2 DEF Submit, Start
      <4>2. W \subseteq Worker
        BY DEF Fresh
      <4>3. started' = TRUE
        BY <1>1, <3>2 DEF Submit, Start
      <4> QED
        BY <4>1, <4>2, <4>3
    <3> QED
      BY <3>1, <3>2
  <2>2. p \in Nat
    BY PriorityAssumption
  <2>3. /\ sequence' \in Nat /\ prio' \in [Job -> Nat] /\ seq' \in [Job -> Nat]
        /\ fut' \in [Job -> {"none", "pending"} \cup Outcome]
        /\ coro' \in [Job -> {"factory", "open", "consumed", "closed"}]
        /\ caller' \in [Job -> {"idle", "waiting"} \cup Ended]
        /\ queue' \subseteq Job
    BY <1>1, <2>2 DEF Submit
  <2> QED
    BY <1>1, <2>1, <2>3 DEF Submit
<1>2. ASSUME NEW j \in Job, CallerCancel(j) PROVE TypeOK'
  BY <1>2 DEF CallerCancel, pool
<1>3. ASSUME NEW j \in Job, CallerReturns(j) PROVE TypeOK'
  BY <1>3 DEF CallerReturns, pool, jobs
<1>4. ASSUME NEW j \in Job, CallerHandles(j) PROVE TypeOK'
  BY <1>4 DEF CallerHandles, pool
<1>5. ASSUME NEW j \in Job, TaskStep(j) PROVE TypeOK'
  BY <1>5 DEF TaskStep, TaskBegins, TaskEnds, pool, clients
<1>6. ASSUME NEW w \in Worker, NEW b \in Job \cup {NoJob}, WorkerTakes(w, b)
      PROVE  TypeOK'
  BY <1>6 DEF WorkerTakes, Take, IsNext, Waiting, clients
<1>7. ASSUME NEW w \in Worker, NEW b \in Job \cup {NoJob}, WorkerContinues(w, b)
      PROVE  TypeOK'
  <2>1. Received(w) \in Outcome
    BY <1>7 DEF WorkerContinues, AwaitsDoneTask, Received
  <2> QED
    BY <1>7, <2>1 DEF WorkerContinues, Settle, Take, IsNext, Waiting, clients
<1>8. ASSUME NEW w \in Worker, WorkerDies(w) PROVE TypeOK'
  BY <1>8 DEF WorkerDies, Dies, Settle, clients
<1>9. ASSUME NEW w \in Worker, IdleWorkerDies(w) PROVE TypeOK'
  BY <1>9 DEF IdleWorkerDies, clients, jobs
<1>10. ASSUME NEW c \in Closer, CloseBegins(c) PROVE TypeOK'
  BY <1>10 DEF CloseBegins, CancelWorkers
<1>11. ASSUME NEW c \in Closer, CloseEnds(c) PROVE TypeOK'
  BY <1>11 DEF CloseEnds, ForgetPool
<1>12. ASSUME NEW c \in Closer, CloseInterrupted(c) PROVE TypeOK'
  BY <1>12 DEF CloseInterrupted, CancelWorkers
<1>13. ASSUME NEW c \in Closer, CloseAborts(c) PROVE TypeOK'
  BY <1>13 DEF CloseAborts, pool, jobs
<1>14. ASSUME UNCHANGED vars PROVE TypeOK'
  BY <1>14 DEF vars, pool, jobs, clients
<1> QED
  BY <1>1, <1>2, <1>3, <1>4, <1>5, <1>6, <1>7, <1>8, <1>9, <1>10, <1>11, <1>12, <1>13, <1>14
     DEF Next, ClientStep, WorkerStep, CloserStep, Finished

\* The scheduler's variables have their types in every state.
THEOREM TypeCorrect == Spec => []TypeOK
BY TypeInit, TypeStep, PTL DEF Spec

----------------------------------------------------------------------------
(* The inductive invariant.                                                *)

\* The scheduler is created with no jobs and no workers.
LEMMA InvInit == Init => IInv
BY TypeInit, JobAssumption
   DEF Init, IInv, Ownership, Queueing, Stages, NoOrphanWork, ClosedNeverAwaited

\* Each step keeps the ties between jobs, futures, tasks, workers and queue:
\* submit() and its CancelledError handler (1-4), execute() (5-6), _worker()
\* (7-10), close() (11-13).
LEMMA InvStep == IInv /\ [Next]_vars => IInv'
<1> SUFFICES ASSUME IInv, [Next]_vars PROVE IInv'
  OBVIOUS
<1> USE JobAssumption
<1>0. TypeOK /\ TypeOK'
  BY TypeStep DEF IInv
<1>1. ASSUME NEW j \in Job, NEW p \in Priority, NEW l \in Legacy, Submit(j, p, l)
      PROVE  IInv'
  <2>1. Ownership'
    BY <1>1 DEF IInv, Ownership, Submit, Start
  <2>2. Queueing'
    BY <1>1 DEF IInv, TypeOK, Queueing, Stages, Submit
  <2>3. Stages'
    BY <1>1 DEF IInv, TypeOK, Stages, Submit
  <2>4. NoOrphanWork'
    BY <1>1 DEF IInv, NoOrphanWork, Submit
  <2>5. ClosedNeverAwaited'
    BY <1>1 DEF IInv, Stages, ClosedNeverAwaited, Submit
  <2> QED
    BY <1>0, <2>1, <2>2, <2>3, <2>4, <2>5 DEF IInv
<1>2. ASSUME NEW j \in Job, CallerCancel(j)
      PROVE  IInv'
  <2>1. Ownership'
    BY <1>2 DEF IInv, Ownership, CallerCancel, pool
  <2>2. Queueing'
    BY <1>2 DEF IInv, TypeOK, Queueing, CallerCancel, pool
  <2>3. Stages'
    BY <1>2 DEF IInv, TypeOK, Stages, CallerCancel
  <2>4. NoOrphanWork'
    BY <1>2 DEF IInv, TypeOK, NoOrphanWork, CallerCancel
  <2>5. ClosedNeverAwaited'
    BY <1>2 DEF IInv, TypeOK, ClosedNeverAwaited, CallerCancel
  <2> QED
    BY <1>0, <2>1, <2>2, <2>3, <2>4, <2>5 DEF IInv
<1>3. ASSUME NEW j \in Job, CallerReturns(j)
      PROVE  IInv'
  <2>1. Ownership'
    BY <1>3 DEF IInv, Ownership, CallerReturns, pool, jobs
  <2>2. Queueing'
    BY <1>3 DEF IInv, Queueing, CallerReturns, pool, jobs
  <2>3. Stages'
    BY <1>3 DEF IInv, Stages, CallerReturns, CallerWoken, jobs
  <2>4. NoOrphanWork'
    BY <1>3 DEF IInv, NoOrphanWork, CallerReturns, jobs
  <2>5. ClosedNeverAwaited'
    BY <1>3 DEF IInv, ClosedNeverAwaited, CallerReturns, jobs
  <2> QED
    BY <1>0, <2>1, <2>2, <2>3, <2>4, <2>5 DEF IInv
<1>4. ASSUME NEW j \in Job, CallerHandles(j)
      PROVE  IInv'
  <2>1. Ownership'
    BY <1>4 DEF IInv, Ownership, CallerHandles, pool
  <2>2. Queueing'
    BY <1>4 DEF IInv, Queueing, CallerHandles, pool
  <2>3. Stages'
    BY <1>4 DEF IInv, Stages, CallerHandles
  <2>4. NoOrphanWork'
    BY <1>4 DEF IInv, Queueing, NoOrphanWork, CallerHandles, CallerWoken, TaskIsLive
  <2>5. ClosedNeverAwaited'
    BY <1>4 DEF IInv, Stages, ClosedNeverAwaited, CallerHandles, LegacyToClose
  <2> QED
    BY <1>0, <2>1, <2>2, <2>3, <2>4, <2>5 DEF IInv
<1>5. ASSUME NEW j \in Job, TaskBegins(j)
      PROVE  IInv'
  <2>1. Ownership'
    BY <1>5 DEF IInv, TypeOK, Ownership, TaskBegins, pool
  <2>2. Queueing'
    BY <1>5 DEF IInv, Queueing, TaskBegins, pool
  <2>3. Stages'
    BY <1>5 DEF IInv, TypeOK, Stages, TaskBegins, clients
  <2>4. NoOrphanWork'
    BY <1>5 DEF IInv, TypeOK, NoOrphanWork, TaskBegins, clients
  <2>5. ClosedNeverAwaited'
    BY <1>5 DEF IInv, TypeOK, ClosedNeverAwaited, TaskBegins
  <2> QED
    BY <1>0, <2>1, <2>2, <2>3, <2>4, <2>5 DEF IInv
<1>6. ASSUME NEW j \in Job, NEW o \in TaskOver, TaskEnds(j, o)
      PROVE  IInv'
  <2>1. Ownership'
    BY <1>6 DEF IInv, Ownership, TaskEnds, pool
  <2>2. Queueing'
    BY <1>6 DEF IInv, Queueing, TaskEnds, pool
  <2>3. Stages'
    BY <1>6 DEF IInv, Stages, TaskEnds, clients
  <2>4. NoOrphanWork'
    BY <1>6 DEF IInv, TypeOK, NoOrphanWork, TaskEnds, clients
  <2>5. ClosedNeverAwaited'
    BY <1>6 DEF IInv, ClosedNeverAwaited, TaskEnds
  <2> QED
    BY <1>0, <2>1, <2>2, <2>3, <2>4, <2>5 DEF IInv
<1>7. ASSUME NEW w \in Worker, NEW b \in Job \cup {NoJob}, WorkerTakes(w, b)
      PROVE  IInv'
  <2>1. Ownership'
    BY <1>7
       DEF IInv, TypeOK, Ownership, Queueing, Stages, WorkerTakes, InGet, Take,
           IsNext, Waiting
  <2>2. Queueing'
    BY <1>7
       DEF IInv, TypeOK, Queueing, WorkerTakes, InGet, Take, IsNext, Passed,
           Waiting, Before
  <2>3. Stages'
    BY <1>7 DEF IInv, Queueing, Stages, WorkerTakes, Take, IsNext, Waiting, clients
  <2>4. NoOrphanWork'
    BY <1>7 DEF IInv, NoOrphanWork, WorkerTakes, Take, IsNext, Waiting, clients
  <2>5. ClosedNeverAwaited'
    BY <1>7 DEF IInv, ClosedNeverAwaited, WorkerTakes, Take, IsNext, Waiting
  <2> QED
    BY <1>0, <2>1, <2>2, <2>3, <2>4, <2>5 DEF IInv
<1>8. ASSUME NEW w \in Worker, NEW b \in Job \cup {NoJob}, WorkerContinues(w, b)
      PROVE  IInv'
  <2>1. Ownership'
    BY <1>0, <1>8
       DEF IInv, TypeOK, Ownership, Queueing, Stages, WorkerContinues, Settle,
           Take, IsNext, Waiting
  <2>2. Queueing'
    BY <1>8
       DEF IInv, TypeOK, Queueing, Stages, WorkerContinues, AwaitsDoneTask,
           Received, Settle, Take, IsNext, Passed, Waiting, Before
  <2>3. Stages'
    BY <1>8
       DEF IInv, Queueing, Stages, WorkerContinues, AwaitsDoneTask, Received,
           Settle, Take, IsNext, Waiting, clients
  <2>4. NoOrphanWork'
    BY <1>8
       DEF IInv, NoOrphanWork, WorkerContinues, Settle, Take, IsNext, Waiting,
           clients
  <2>5. ClosedNeverAwaited'
    BY <1>8
       DEF IInv, ClosedNeverAwaited, WorkerContinues, Settle, Take, IsNext, Waiting
  <2> QED
    BY <1>0, <2>1, <2>2, <2>3, <2>4, <2>5 DEF IInv
<1>9. ASSUME NEW w \in Worker, WorkerDies(w)
      PROVE  IInv'
  <2>1. Ownership'
    BY <1>9 DEF IInv, TypeOK, Ownership, WorkerDies
  <2>2. Queueing'
    BY <1>9 DEF IInv, TypeOK, Queueing, WorkerDies, Dies, Settle
  <2>3. Stages'
    BY <1>9 DEF IInv, Stages, WorkerDies, Dies, Settle, clients
  <2>4. NoOrphanWork'
    BY <1>9 DEF IInv, NoOrphanWork, WorkerDies, Settle, clients
  <2>5. ClosedNeverAwaited'
    BY <1>9 DEF IInv, ClosedNeverAwaited, WorkerDies, Settle
  <2> QED
    BY <1>0, <2>1, <2>2, <2>3, <2>4, <2>5 DEF IInv
<1>10. ASSUME NEW w \in Worker, IdleWorkerDies(w)
      PROVE  IInv'
  <2>1. Ownership'
    BY <1>10 DEF IInv, Ownership, IdleWorkerDies, InGet, jobs
  <2>2. Queueing'
    BY <1>10 DEF IInv, Queueing, IdleWorkerDies, jobs
  <2>3. Stages'
    BY <1>10 DEF IInv, Stages, IdleWorkerDies, jobs, clients
  <2>4. NoOrphanWork'
    BY <1>10 DEF IInv, NoOrphanWork, IdleWorkerDies, jobs, clients
  <2>5. ClosedNeverAwaited'
    BY <1>10 DEF IInv, ClosedNeverAwaited, IdleWorkerDies, jobs
  <2> QED
    BY <1>0, <2>1, <2>2, <2>3, <2>4, <2>5 DEF IInv
<1>11. ASSUME NEW c \in Closer, CloseBegins(c)
      PROVE  IInv'
  <2>1. Ownership'
    BY <1>11 DEF IInv, Ownership, CloseBegins
  <2>2. Queueing'
    BY <1>11 DEF IInv, Queueing, CloseBegins
  <2>3. Stages'
    BY <1>11 DEF IInv, Stages, CloseBegins
  <2>4. NoOrphanWork'
    BY <1>11 DEF IInv, NoOrphanWork, CloseBegins, CancelWorkers
  <2>5. ClosedNeverAwaited'
    BY <1>11 DEF IInv, ClosedNeverAwaited, CloseBegins
  <2> QED
    BY <1>0, <2>1, <2>2, <2>3, <2>4, <2>5 DEF IInv
<1>12. ASSUME NEW c \in Closer, CloseEnds(c)
      PROVE  IInv'
  <2>1. Ownership'
    BY <1>12 DEF IInv, Ownership, CloseEnds
  <2>2. Queueing'
    BY <1>12 DEF IInv, Queueing, CloseEnds, Drained
  <2>3. Stages'
    BY <1>12 DEF IInv, TypeOK, Stages, CloseEnds, Drained
  <2>4. NoOrphanWork'
    BY <1>12 DEF IInv, NoOrphanWork, CloseEnds
  <2>5. ClosedNeverAwaited'
    BY <1>12
       DEF IInv, Queueing, Stages, ClosedNeverAwaited, CloseEnds, Drained,
           LegacyToClose
  <2> QED
    BY <1>0, <2>1, <2>2, <2>3, <2>4, <2>5 DEF IInv
<1>13. ASSUME NEW c \in Closer, CloseInterrupted(c)
      PROVE  IInv'
  <2>1. Ownership'
    BY <1>13 DEF IInv, Ownership, CloseInterrupted
  <2>2. Queueing'
    BY <1>13 DEF IInv, Queueing, CloseInterrupted
  <2>3. Stages'
    BY <1>13 DEF IInv, Stages, CloseInterrupted
  <2>4. NoOrphanWork'
    BY <1>13 DEF IInv, NoOrphanWork, CloseInterrupted, CancelWorkers
  <2>5. ClosedNeverAwaited'
    BY <1>13 DEF IInv, ClosedNeverAwaited, CloseInterrupted
  <2> QED
    BY <1>0, <2>1, <2>2, <2>3, <2>4, <2>5 DEF IInv
<1>14. ASSUME NEW c \in Closer, CloseAborts(c)
      PROVE  IInv'
  BY <1>0, <1>14 DEF IInv, Ownership, Queueing, Stages, NoOrphanWork, ClosedNeverAwaited,
                     CloseAborts, pool, jobs
<1>15. CASE UNCHANGED vars
  BY <1>0, <1>15 DEF IInv, Ownership, Queueing, Stages, NoOrphanWork, ClosedNeverAwaited,
                     vars, pool, jobs, clients
<1> QED
  BY <1>1, <1>2, <1>3, <1>4, <1>5, <1>6, <1>7, <1>8, <1>9, <1>10, <1>11, <1>12, <1>13, <1>14,
     <1>15
     DEF Next, ClientStep, TaskStep, WorkerStep, CloserStep, Finished

\* The ownership of jobs by workers, the contents of the queue, the stages of a
\* submission and the two rules of cancellation hold together, in every state.
THEOREM Invariant == Spec => []IInv
BY InvInit, InvStep, PTL DEF Spec

----------------------------------------------------------------------------
(* What follows from it.                                                   *)

\* A pending job is in the queue or with a worker.
LEMMA NothingIsForgotten == IInv => NothingForgotten
BY JobAssumption DEF IInv, TypeOK, Ownership, Queueing, NothingForgotten, Holders

\* No submission is forgotten, in any state.
THEOREM NothingForgottenHolds == Spec => []NothingForgotten
BY NothingIsForgotten, Invariant, PTL

\* A worker that holds a job whose task exists is the only one.
LEMMA TasksHaveOneOwner == IInv => OneOwner
<1> SUFFICES ASSUME IInv, NEW j \in Job
             PROVE  /\ task[j] # "none" => \E w \in Worker : Holders(j) = {w}
                    /\ task[j] = "none" => Holders(j) = {}
                    /\ j \in queue => task[j] = "none" /\ j \notin begun
  BY DEF OneOwner
<1>1. ASSUME task[j] # "none" PROVE \E w \in Worker : Holders(j) = {w}
  <2>1. PICK w \in Worker : wjob[w] = j
    BY <1>1 DEF IInv, Ownership
  <2>2. w \in Holders(j)
    BY <2>1, JobAssumption DEF IInv, Ownership, Holders
  <2>3. \A v \in Holders(j) : v = w
    BY <2>1, JobAssumption DEF IInv, TypeOK, Ownership, Holders
  <2> QED
    BY <2>2, <2>3
<1>2. task[j] = "none" => Holders(j) = {}
  BY JobAssumption DEF IInv, TypeOK, Ownership, Holders
<1>3. j \in queue => task[j] = "none" /\ j \notin begun
  BY DEF IInv, Queueing, Stages
<1> QED
  BY <1>1, <1>2, <1>3

\* Every job task is awaited by exactly one worker, in every state.
THEOREM OneOwnerHolds == Spec => []OneOwner
BY TasksHaveOneOwner, Invariant, PTL

\* A cancelled caller leaves no work that nobody stops, and a closed awaitable
\* is never awaited.
THEOREM CancellationIsClean == Spec => [](NoOrphanWork /\ ClosedNeverAwaited)
<1>1. IInv => NoOrphanWork /\ ClosedNeverAwaited
  BY DEF IInv
<1> QED
  BY <1>1, Invariant, PTL

----------------------------------------------------------------------------
(* Steps.                                                                  *)

\* Only a worker that takes a job sets job.started.
LEMMA BegunSteps ==
    ASSUME [Next]_vars
    PROVE  \/ begun' = begun
           \/ \E w \in Worker, b \in Job \cup {NoJob} :
                 WorkerTakes(w, b) \/ WorkerContinues(w, b)
<1>1. ASSUME NEW j \in Job, ClientStep(j) \/ TaskStep(j) PROVE begun' = begun
  BY <1>1 DEF ClientStep, TaskStep, Submit, CallerCancel, CallerReturns, CallerHandles,
              TaskBegins, TaskEnds, jobs
<1>2. ASSUME NEW w \in Worker, WorkerDies(w) \/ IdleWorkerDies(w) PROVE begun' = begun
  BY <1>2 DEF WorkerDies, IdleWorkerDies, jobs
<1>3. ASSUME NEW c \in Closer, CloserStep(c) PROVE begun' = begun
  BY <1>3 DEF CloserStep, CloseBegins, CloseEnds, CloseInterrupted, CloseAborts, jobs
<1>4. CASE UNCHANGED vars
  BY <1>4 DEF vars, jobs
<1> QED
  BY <1>1, <1>2, <1>3, <1>4 DEF Next, WorkerStep, Finished

\* Such a worker changes begun, the queue and the futures in this way only.
LEMMA TakingStep ==
    ASSUME IInv, NEW w \in Worker, NEW b \in Job \cup {NoJob},
           WorkerTakes(w, b) \/ WorkerContinues(w, b)
    PROVE  /\ IsNext(b)
           /\ begun' = begun \cup ({b} \ {NoJob})
           /\ queue' = queue \ Passed(b)
           /\ UNCHANGED <<prio, seq>>
           /\ \A k \in Job : fut'[k] = "pending" => fut[k] = "pending"
<1>1. Take(w, b) /\ UNCHANGED <<prio, seq>>
  BY DEF WorkerTakes, WorkerContinues
<1>2. CASE WorkerTakes(w, b)
  BY <1>1, <1>2 DEF WorkerTakes, Take
<1>3. CASE WorkerContinues(w, b)
  <2>1. Received(w) # "pending"
    BY <1>3 DEF WorkerContinues, AwaitsDoneTask, Received
  <2>2. \A k \in Job : fut'[k] = "pending" => fut[k] = "pending"
    BY <1>3, <2>1 DEF WorkerContinues, Settle, IInv, TypeOK
  <2> QED
    BY <1>1, <2>2 DEF Take
<1> QED
  BY <1>2, <1>3

\* A worker takes no job whose future is cancelled.
LEMMA CancelledNeverStartsStep ==
    IInv /\ [Next]_vars =>
        [\A j \in Job \ begun : fut[j] = "cancelled" => j \notin begun']_vars
<1> SUFFICES ASSUME IInv, [Next]_vars, NEW j \in Job \ begun, fut[j] = "cancelled"
             PROVE  j \notin begun'
  OBVIOUS
<1>1. ASSUME NEW w \in Worker, NEW b \in Job \cup {NoJob},
             WorkerTakes(w, b) \/ WorkerContinues(w, b)
      PROVE  j \notin begun'
  <2>1. IsNext(b) /\ begun' = begun \cup ({b} \ {NoJob})
    BY <1>1, TakingStep
  <2> QED
    BY <2>1 DEF IsNext, Waiting
<1> QED
  BY <1>1, BegunSteps

\* A job cancelled in the queue never starts.
THEOREM CancelledNeverStartsHolds == Spec => CancelledNeverStarts
BY CancelledNeverStartsStep, Invariant, PTL DEF Spec, CancelledNeverStarts

\* What a worker takes comes before all that is left with a caller.
LEMMA PriorityRespectedStep ==
    IInv /\ [Next]_vars =>
        [\A j \in begun' \ begun : \A k \in queue' : fut'[k] = "pending" =>
            prio[j] < prio[k] \/ (prio[j] = prio[k] /\ seq[j] < seq[k])]_vars
<1> SUFFICES ASSUME IInv, [Next]_vars,
                    NEW j \in begun' \ begun, NEW k \in queue', fut'[k] = "pending"
             PROVE  Before(j, k)
  BY DEF Before
<1>1. PICK w \in Worker, b \in Job \cup {NoJob} : WorkerTakes(w, b) \/ WorkerContinues(w, b)
  BY BegunSteps
<1>2. /\ IsNext(b) /\ begun' = begun \cup ({b} \ {NoJob})
      /\ queue' = queue \ Passed(b)
      /\ \A i \in Job : fut'[i] = "pending" => fut[i] = "pending"
  BY <1>1, TakingStep
<1>3. j = b /\ b # NoJob
  BY <1>2
<1>4. k \in Waiting \ {b}
  BY <1>2, <1>3 DEF Passed, Waiting, IInv, TypeOK
<1> QED
  BY <1>2, <1>3, <1>4 DEF IsNext

\* A worker starts nothing while a better submission waits with its caller.
THEOREM PriorityRespectedHolds == Spec => PriorityRespected
BY PriorityRespectedStep, Invariant, PTL DEF Spec, PriorityRespected

\* Callers, workers and close() check that a future is pending before they settle it.
LEMMA SettledOnceStep ==
    IInv /\ [Next]_vars => [\A j \in Job : fut[j] \in Outcome => fut'[j] = fut[j]]_vars
<1> SUFFICES ASSUME IInv, [Next]_vars, NEW i \in Job, fut[i] \in Outcome
             PROVE  fut'[i] = fut[i]
  OBVIOUS
<1> USE DEF IInv, TypeOK
<1>1. ASSUME NEW j \in Job, ClientStep(j) PROVE fut'[i] = fut[i]
  BY <1>1 DEF ClientStep, Submit, CallerCancel, CallerReturns, CallerHandles, jobs, Stages
<1>2. ASSUME NEW j \in Job, TaskStep(j) PROVE fut'[i] = fut[i]
  BY <1>2 DEF TaskStep, TaskBegins, TaskEnds
<1>3. ASSUME NEW w \in Worker, WorkerStep(w) PROVE fut'[i] = fut[i]
  BY <1>3 DEF WorkerStep, WorkerTakes, WorkerContinues, WorkerDies, IdleWorkerDies, Settle, jobs
<1>4. ASSUME NEW c \in Closer, CloserStep(c) PROVE fut'[i] = fut[i]
  BY <1>4 DEF CloserStep, CloseBegins, CloseEnds, CloseInterrupted, CloseAborts,
              Drained, jobs
<1>5. CASE UNCHANGED vars
  BY <1>5 DEF vars, jobs
<1> QED
  BY <1>1, <1>2, <1>3, <1>4, <1>5 DEF Next, Finished

\* A future is settled once.
THEOREM SettledOnceHolds == Spec => SettledOnce
BY SettledOnceStep, Invariant, PTL DEF Spec, SettledOnce

----------------------------------------------------------------------------
(* Who may cancel.                                                         *)

\* Only a live task is about to be cancelled, a cancelled worker belongs to a
\* close() under way, interrupted or not, and a job task that is being cancelled
\* or was, with its future still pending, is in the hands of a cancelled worker:
\* the handler of submit() only cancels tasks whose future is settled.
OnlyCloseCancels ==
    /\ \A j \in tcancel : task[j] \in LiveTask
    /\ wthrow \subseteq wcancel
    /\ \A w \in wcancel : \E c \in Closer : w \in gathered[c]
    /\ \A w \in Worker :
          /\ wjob[w] # NoJob /\ fut[wjob[w]] = "pending"
          /\ wjob[w] \in tcancel \/ task[wjob[w]] = "cancelled"
          => w \in wcancel

\* At first nothing has been cancelled.
LEMMA OnlyCloseCancelsInit == Init => OnlyCloseCancels
BY DEF Init, OnlyCloseCancels

\* Only close() cancels a worker, and it stays until that worker has ended.
LEMMA OnlyCloseCancelsStep ==
    ASSUME IInv, OnlyCloseCancels, [Next]_vars
    PROVE  OnlyCloseCancels'
<1> USE JobAssumption DEF OnlyCloseCancels, IInv, TypeOK
<1>1. ASSUME NEW j \in Job, NEW p \in Priority, NEW l \in Legacy, Submit(j, p, l)
      PROVE  OnlyCloseCancels'
  <2>1. \A w \in Worker : wjob[w] # j
    BY <1>1 DEF Submit, Ownership, Stages
  <2> QED
    BY <1>1, <2>1 DEF Submit
<1>2. ASSUME NEW j \in Job, CallerCancel(j) \/ CallerReturns(j) PROVE OnlyCloseCancels'
  BY <1>2 DEF CallerCancel, CallerReturns, pool, jobs
<1>3. ASSUME NEW j \in Job, CallerHandles(j) PROVE OnlyCloseCancels'
  <2>1. /\ UNCHANGED <<wjob, wcancel, wthrow, fut, task, gathered>>
        /\ fut[j] # "pending" /\ tcancel' \subseteq tcancel \cup {j}
    BY <1>3 DEF CallerHandles, CallerWoken, pool
  <2>2. \A k \in tcancel' : task'[k] \in LiveTask
    BY <1>3, <2>1 DEF CallerHandles, TaskIsLive
  <2> QED
    BY <2>1, <2>2
<1>4. ASSUME NEW j \in Job, TaskStep(j) PROVE OnlyCloseCancels'
  <2>1. UNCHANGED <<wjob, wcancel, wthrow, fut, gathered>> /\ tcancel' \subseteq tcancel
    BY <1>4 DEF TaskStep, TaskBegins, TaskEnds, pool, clients
  <2>2. \A k \in tcancel' : task'[k] \in LiveTask
    BY <1>4 DEF TaskStep, TaskBegins, TaskEnds
  <2>3. \A k \in Job : task'[k] = "cancelled" => task[k] = "cancelled" \/ k \in tcancel
    BY <1>4 DEF TaskStep, TaskBegins, TaskEnds
  <2> QED
    BY <2>1, <2>2, <2>3
<1>5. ASSUME NEW w \in Worker, NEW b \in Job \cup {NoJob},
             WorkerTakes(w, b) \/ WorkerContinues(w, b)
      PROVE  OnlyCloseCancels'
  <2>1. IsNext(b) /\ wjob' = [wjob EXCEPT ![w] = b] /\ UNCHANGED <<wcancel, wthrow, tcancel, gathered>>
    BY <1>5 DEF WorkerTakes, WorkerContinues, Take, clients
  <2>2. b # NoJob => task'[b] = "created" /\ b \notin tcancel
    BY <1>5, <2>1 DEF WorkerTakes, WorkerContinues, IsNext, Waiting, Queueing, Stages
  <2>3. \A k \in Job : fut'[k] = "pending" => fut[k] = "pending"
    BY <1>5, TakingStep
  <2>4. \A k \in Job : task'[k] = "cancelled" => task[k] = "cancelled"
    BY <1>5 DEF WorkerTakes, WorkerContinues
  <2>5. \A k \in tcancel' : task'[k] \in LiveTask
    BY <1>5, <2>1 DEF WorkerTakes, WorkerContinues, AwaitsDoneTask
  <2>6. ASSUME NEW v \in Worker, wjob'[v] # NoJob, fut'[wjob'[v]] = "pending",
               wjob'[v] \in tcancel' \/ task'[wjob'[v]] = "cancelled"
        PROVE  v \in wcancel'
    <3>1. CASE v = w
      BY <2>1, <2>2, <2>6, <3>1
    <3>2. CASE v # w
      BY <2>1, <2>3, <2>4, <2>6, <3>2
    <3> QED
      BY <3>1, <3>2
  <2> QED
    BY <2>1, <2>5, <2>6
<1>6. ASSUME NEW w \in Worker, WorkerDies(w) PROVE OnlyCloseCancels'
  <2>1. \A k \in Job : fut'[k] = "pending" => fut[k] = "pending"
    BY <1>6 DEF WorkerDies, Settle, Dies
  <2>2. \A k \in tcancel' : task'[k] \in LiveTask
    BY <1>6 DEF WorkerDies, AwaitsDoneTask
  <2>3. \A k \in Job : task'[k] = "cancelled" => task[k] = "cancelled"
    BY <1>6 DEF WorkerDies
  <2> QED
    BY <1>6, <2>1, <2>2, <2>3 DEF WorkerDies, clients
<1>7. ASSUME NEW w \in Worker, IdleWorkerDies(w) PROVE OnlyCloseCancels'
  BY <1>7 DEF IdleWorkerDies, InGet, jobs, clients
<1>8. ASSUME NEW c \in Closer, CloseBegins(c) PROVE OnlyCloseCancels'
  <2>1. wthrow' \subseteq wcancel'
    BY <1>8 DEF CloseBegins, CancelWorkers
  <2>2. \A w \in wcancel' : \E d \in Closer : w \in gathered'[d]
    BY <1>8 DEF CloseBegins, CancelWorkers
  <2>3. UNCHANGED <<wjob, fut, task>> /\ wcancel \subseteq wcancel'
    BY <1>8 DEF CloseBegins, CancelWorkers
  <2>4. \A k \in tcancel' \ tcancel :
           task[k] \in LiveTask /\ \E v \in workers \cap alive : wjob[v] = k
    BY <1>8 DEF CloseBegins, CancelWorkers, TaskIsLive
  <2>5. workers \cap alive \subseteq wcancel'
    BY <1>8 DEF CloseBegins, CancelWorkers
  <2>6. ASSUME NEW w \in Worker, wjob'[w] # NoJob, fut'[wjob'[w]] = "pending",
               wjob'[w] \in tcancel' \/ task'[wjob'[w]] = "cancelled"
        PROVE  w \in wcancel'
    <3>1. CASE wjob[w] \in tcancel' \ tcancel
      BY <2>3, <2>4, <2>5, <2>6, <3>1 DEF Ownership
    <3> QED
      BY <2>3, <2>6, <3>1
  <2>7. \A k \in tcancel' : task'[k] \in LiveTask
    BY <2>3, <2>4
  <2> QED
    BY <2>1, <2>2, <2>6, <2>7
<1>9. ASSUME NEW c \in Closer, CloseEnds(c) PROVE OnlyCloseCancels'
  BY <1>9 DEF CloseEnds, PoolGone
<1>10. ASSUME NEW c \in Closer, CloseInterrupted(c) PROVE OnlyCloseCancels'
  <2>1. wthrow' \subseteq wcancel'
    BY <1>10 DEF CloseInterrupted, CancelWorkers
  <2>2. \A w \in wcancel' : \E d \in Closer : w \in gathered'[d]
    BY <1>10 DEF CloseInterrupted, CancelWorkers
  <2>3. UNCHANGED <<wjob, fut, task>> /\ wcancel \subseteq wcancel'
    BY <1>10 DEF CloseInterrupted, CancelWorkers
  <2>4. \A k \in tcancel' \ tcancel :
           task[k] \in LiveTask /\ \E v \in gathered[c] \cap alive : wjob[v] = k
    BY <1>10 DEF CloseInterrupted, CancelWorkers, TaskIsLive
  <2>5. gathered[c] \cap alive \subseteq wcancel'
    BY <1>10 DEF CloseInterrupted, CancelWorkers
  <2>6. ASSUME NEW w \in Worker, wjob'[w] # NoJob, fut'[wjob'[w]] = "pending",
               wjob'[w] \in tcancel' \/ task'[wjob'[w]] = "cancelled"
        PROVE  w \in wcancel'
    <3>1. CASE wjob[w] \in tcancel' \ tcancel
      BY <2>3, <2>4, <2>5, <2>6, <3>1 DEF Ownership
    <3> QED
      BY <2>3, <2>6, <3>1
  <2>7. \A k \in tcancel' : task'[k] \in LiveTask
    BY <2>3, <2>4
  <2> QED
    BY <2>1, <2>2, <2>6, <2>7
<1>11. ASSUME NEW c \in Closer, CloseAborts(c) PROVE OnlyCloseCancels'
  BY <1>11 DEF CloseAborts, PoolGone, pool, jobs
<1>12. CASE UNCHANGED vars
  BY <1>12 DEF vars, pool, jobs, clients
<1> QED
  BY <1>1, <1>2, <1>3, <1>4, <1>5, <1>6, <1>7, <1>8, <1>9, <1>10, <1>11, <1>12
     DEF Next, ClientStep, WorkerStep, CloserStep, Finished

\* A submission is cancelled by its own caller, by a close() under way or by its
\* own operation, whatever else is cancelled around it and however many closes
\* overlap and are interrupted.
THEOREM CancelledOnRequestHolds == Spec => CancelledOnRequest
<1>1. IInv /\ OnlyCloseCancels /\ [Next]_vars => OnlyCloseCancels'
  BY OnlyCloseCancelsStep
<1>2. IInv /\ OnlyCloseCancels /\ [Next]_vars =>
        [\A j \in Job : fut[j] = "pending" /\ fut'[j] = "cancelled" =>
            CallerCancel(j) \/ task[j] = "aborted" \/ \E c \in Closer : gathered[c] # {}]_vars
  <2> SUFFICES ASSUME IInv, OnlyCloseCancels, [Next]_vars, NEW i \in Job,
                      fut[i] = "pending", fut'[i] = "cancelled", ~CallerCancel(i),
                      task[i] # "aborted"
               PROVE  \E c \in Closer : gathered[c] # {}
    OBVIOUS
  <2> USE DEF IInv, TypeOK
  <2>1. ASSUME NEW j \in Job, ClientStep(j) \/ TaskStep(j) PROVE FALSE
    BY <2>1 DEF ClientStep, TaskStep, Submit, CallerCancel, CallerReturns, CallerHandles,
                TaskBegins, TaskEnds, jobs
  <2>2. ASSUME NEW w \in Worker, NEW b \in Job \cup {NoJob}, WorkerTakes(w, b) PROVE FALSE
    BY <2>2 DEF WorkerTakes
  <2>3. ASSUME NEW w \in Worker, AwaitsDoneTask(w), Settle(wjob[w], Received(w))
        PROVE  w \in wcancel
    <3>1. wjob[w] = i /\ Received(w) = "cancelled"
      BY <2>3 DEF Settle, AwaitsDoneTask
    <3> QED
      BY <3>1, JobAssumption DEF Received, OnlyCloseCancels
  <2>4. ASSUME NEW w \in wcancel PROVE \E c \in Closer : gathered[c] # {}
    BY <2>4 DEF OnlyCloseCancels
  <2>5. ASSUME NEW w \in Worker, NEW b \in Job \cup {NoJob}, WorkerContinues(w, b) \/ WorkerDies(w)
        PROVE  \E c \in Closer : gathered[c] # {}
    BY <2>3, <2>4, <2>5 DEF WorkerContinues, WorkerDies
  <2>6. ASSUME NEW w \in Worker, IdleWorkerDies(w) PROVE FALSE
    BY <2>6 DEF IdleWorkerDies, jobs
  <2>7. ASSUME NEW c \in Closer, CloserStep(c) PROVE gathered[c] # {}
    BY <2>7 DEF CloserStep, CloseBegins, CloseEnds, CloseInterrupted, CloseAborts, jobs
  <2>8. CASE UNCHANGED vars
    BY <2>8 DEF vars, jobs
  <2> QED
    BY <2>1, <2>2, <2>5, <2>6, <2>7, <2>8 DEF Next, WorkerStep, Finished
<1> QED
  BY <1>1, <1>2, OnlyCloseCancelsInit, Invariant, PTL DEF Spec, CancelledOnRequest

----------------------------------------------------------------------------
(* The bound on concurrent operations, and the refinement of               *)
(* PriorityService, both for close() calls that do not overlap: there is   *)
(* at most one closer, which may close again and again.  With two the      *)
(* bound is wrong: the second forgets the pool that was started after the  *)
(* first (a third can be started beside it).                               *)

AtMostOneCloser == \A c, d \in Closer : c = d

\* The jobs that occupy a worker.
Held == {j \in Job : task[j] # "none"}

\* A new ProbeScheduler has an empty list of workers, and none lives.
LEMMA PoolInit == Init => PoolTracked
BY DEF Init, PoolTracked

\* start() makes a pool only when there is none, and the only close() forgets it
\* only when its workers have ended.
LEMMA PoolStep ==
    ASSUME AtMostOneCloser, TypeOK, PoolTracked, [Next]_vars
    PROVE  PoolTracked'
<1> USE DEF PoolTracked, TypeOK
<1>1. ASSUME NEW j \in Job, NEW p \in Priority, NEW l \in Legacy, Submit(j, p, l)
      PROVE  PoolTracked'
  BY <1>1 DEF Submit, Start
<1>2. ASSUME NEW j \in Job, CallerCancel(j) \/ CallerReturns(j) \/ CallerHandles(j)
      PROVE  PoolTracked'
  BY <1>2 DEF CallerCancel, CallerReturns, CallerHandles, pool
<1>3. ASSUME NEW j \in Job, TaskStep(j) PROVE PoolTracked'
  BY <1>3 DEF TaskStep, TaskBegins, TaskEnds, pool, clients
<1>4. ASSUME NEW w \in Worker, WorkerStep(w) PROVE PoolTracked'
  BY <1>4 DEF WorkerStep, WorkerTakes, WorkerContinues, WorkerDies, IdleWorkerDies, clients
<1>5. ASSUME NEW c \in Closer, CloseBegins(c) PROVE PoolTracked'
  BY <1>5 DEF CloseBegins, AtMostOneCloser
<1>6. ASSUME NEW c \in Closer, CloseEnds(c) PROVE PoolTracked'
  <2>1. alive = {}
    BY <1>6 DEF CloseEnds, PoolGone
  <2> QED
    BY <1>6, <2>1 DEF CloseEnds, ForgetPool, AtMostOneCloser
<1>7. ASSUME NEW c \in Closer, CloseInterrupted(c) PROVE PoolTracked'
  BY <1>7 DEF CloseInterrupted
<1>8. ASSUME NEW c \in Closer, CloseAborts(c) PROVE PoolTracked'
  BY <1>8 DEF CloseAborts, AtMostOneCloser, pool
<1>9. CASE UNCHANGED vars
  BY <1>9 DEF vars, pool, clients
<1> QED
  BY <1>1, <1>2, <1>3, <1>4, <1>5, <1>6, <1>7, <1>8, <1>9
     DEF Next, ClientStep, CloserStep, Finished

\* While closes do not overlap, the list of workers is the pool.
THEOREM PoolTrackedHolds == ASSUME AtMostOneCloser PROVE Spec => []PoolTracked
<1>1. TypeOK /\ PoolTracked /\ [Next]_vars => PoolTracked'
  BY PoolStep
<1> QED
  BY <1>1, PoolInit, TypeCorrect, PTL DEF Spec

\* Each job under way has a worker to itself, and the pool is no larger than
\* Concurrency.
LEMMA HeldBound ==
    ASSUME IInv, PoolTracked
    PROVE  IsFiniteSet(Held) /\ Cardinality(Held) <= Concurrency
<1> DEFINE holder == [j \in Held |-> CHOOSE w \in Worker : wjob[w] = j]
<1>1. \A j \in Held : holder[j] \in Worker /\ wjob[holder[j]] = j
  BY DEF Held, IInv, Ownership
<1>2. holder \in Injection(Held, alive)
  <2>1. \A j \in Held : holder[j] \in alive
    BY <1>1, JobAssumption DEF Held, IInv, Ownership
  <2>2. \A i, j \in Held : holder[i] = holder[j] => i = j
    BY <1>1
  <2> QED
    BY <2>1, <2>2 DEF Injection, IsInjective
<1>3. IsFiniteSet(workers) /\ alive \in SUBSET workers
  BY WorkerAssumption, FS_Subset DEF IInv, TypeOK, PoolTracked
<1>4. IsFiniteSet(alive) /\ Cardinality(alive) <= Cardinality(workers)
  BY <1>3, FS_Subset
<1>5. IsFiniteSet(Held) /\ Cardinality(Held) <= Cardinality(alive)
  <2> HIDE DEF holder
  <2> QED
    BY <1>2, <1>4, FS_Injection
<1>6. Cardinality(workers) <= Concurrency
  <2>1. CASE workers = {}
    BY <2>1, FS_EmptySet, ConcurrencyAssumption
  <2>2. CASE Cardinality(workers) = Concurrency
    BY <2>2, ConcurrencyAssumption
  <2> QED
    BY <2>1, <2>2 DEF IInv, TypeOK
<1> QED
  BY <1>3, <1>4, <1>5, <1>6, FS_CardinalityType, ConcurrencyAssumption

\* A job under way is held by a worker.
LEMMA RunningBound == IInv /\ PoolTracked => ConcurrencyBound
<1> SUFFICES ASSUME IInv, PoolTracked PROVE ConcurrencyBound
  OBVIOUS
<1>1. Running \in SUBSET Held
  BY DEF Running, Held, LiveTask
<1> QED
  BY <1>1, HeldBound, FS_Subset, FS_CardinalityType, ConcurrencyAssumption
     DEF ConcurrencyBound

\* At most Concurrency operations are under way.
THEOREM ConcurrencyBoundHolds == ASSUME AtMostOneCloser PROVE Spec => []ConcurrencyBound
BY RunningBound, Invariant, PoolTrackedHolds, PTL

\* The places that are taken.
PlacesBound == Cardinality(Held) <= Concurrency

\* A job takes a place from when it is taken until its worker collects it, and
\* there are Concurrency places.
LEMMA PlacesAreBounded == IInv /\ PoolTracked => PlacesBound
BY HeldBound DEF PlacesBound

----------------------------------------------------------------------------
(* The refinement.                                                         *)

\* The cardinality of the instance is the one of FiniteSets.
LEMMA SameCardinality == \A S : Service!Cardinality(S) = Cardinality(S)
BY DEF Service!Cardinality, Cardinality

\* A new scheduler is a service that has accepted nothing.
LEMMA ServiceInit == Init => Service!SvcInit
BY DEF Init, Service!SvcInit, Waiting

\* submit() accepts; its sequence number is larger than any before it.
LEMMA SubmitAccepts ==
    ASSUME IInv, NEW j \in Job, NEW p \in Priority, NEW l \in Legacy, Submit(j, p, l)
    PROVE  Service!Accept(j)
<1> DEFINE r == [i \in Job |-> <<prio[i], seq[i]>>]
<1> USE DEF IInv, TypeOK
<1>1. fut[j] = "none" /\ fut' = [fut EXCEPT ![j] = "pending"]
  BY DEF Submit, Stages
<1>2. Waiting' = Waiting \cup {j}
  BY <1>1 DEF Submit, Waiting
<1>3. r'[j] = <<p, sequence>> /\ r'[j] \in Nat \X Nat
  BY PriorityAssumption DEF Submit
<1>4. r' = [r EXCEPT ![j] = r'[j]]
  BY <1>3 DEF Submit
<1>5. \A k \in Job : fut[k] # "none" => r[k][2] < r'[j][2]
  BY <1>3 DEF Stages
<1>6. {i \in Job : task'[i] # "none"} = {i \in Job : task[i] # "none"}
  BY DEF Submit
<1> QED
  BY <1>1, <1>2, <1>3, <1>4, <1>5, <1>6 DEF Service!Accept

\* Taking b from the queue takes it, and nothing else, from those that wait:
\* what the worker passes on its way was cancelled.
LEMMA WaitingAfterTake ==
    ASSUME TypeOK, NEW b \in Job \cup {NoJob}, IsNext(b),
           queue' = queue \ Passed(b), \A k \in queue : fut'[k] = fut[k]
    PROVE  Waiting' = Waiting \ ({b} \ {NoJob})
<1> USE DEF TypeOK
<1>1. CASE b = NoJob
  BY <1>1, JobAssumption DEF Waiting, Passed, IsNext
<1>2. CASE b \in Job
  <2>1. b \in Waiting /\ \A k \in Waiting \ {b} : Before(b, k)
    BY <1>2, JobAssumption DEF IsNext
  <2>2. \A k \in Waiting \ {b} : ~Before(k, b)
    BY <1>2, <2>1 DEF Before, Waiting
  <2>3. Waiting \cap Passed(b) = {b}
    BY <1>2, <2>1, <2>2, JobAssumption DEF Passed, Waiting
  <2>4. Waiting' = Waiting \ Passed(b)
    BY DEF Waiting
  <2> QED
    BY <1>2, <2>3, <2>4, JobAssumption
<1> QED
  BY <1>1, <1>2

\* What a worker's step has to do to be an Advance: end the jobs of done with
\* outcome o, and take b, the next of those that wait.
LEMMA AdvanceIs ==
    ASSUME IInv, NEW done \in SUBSET Held, NEW o \in Outcome,
           NEW b \in Job \cup {NoJob}, IsNext(b),
           queue' = queue \ Passed(b), UNCHANGED <<prio, seq>>,
           fut' = [j \in Job |-> IF j \in done /\ fut[j] = "pending" THEN o ELSE fut[j]],
           Held' = (Held \ done) \cup ({b} \ {NoJob}),
           Cardinality(Held') <= Concurrency
    PROVE  Service!Advance(done, {b} \ {NoJob})
<1>1. {b} \ {NoJob} \subseteq Waiting /\ Waiting \subseteq Job
  BY DEF IsNext, Waiting, IInv, TypeOK
<1>2. \A k \in queue : k \notin Held
  BY DEF IInv, Queueing, Stages, TypeOK, Held
<1>3. Waiting' = Waiting \ ({b} \ {NoJob})
  <2>1. \A k \in queue : fut'[k] = fut[k]
    BY <1>2 DEF IInv, TypeOK
  <2> QED
    BY <2>1, WaitingAfterTake DEF IInv
<1>4. \A j \in {b} \ {NoJob} : \A k \in Waiting \ ({b} \ {NoJob}) : Service!Better(j, k)
  BY <1>1 DEF IsNext, Before, Service!Better
<1> QED
  BY <1>1, <1>3, <1>4, SameCardinality DEF Service!Advance, Held, Outcome

\* A worker that takes a job moves it from the waiting to the running; one
\* that finds nothing to run moves none.
LEMMA TakeAdvances ==
    ASSUME IInv, Cardinality(Held') <= Concurrency,
           NEW w \in Worker, NEW b \in Job \cup {NoJob}, WorkerTakes(w, b)
    PROVE  Service!Advance({}, {b} \ {NoJob})
<1>1. fut' = [j \in Job |-> IF j \in {} /\ fut[j] = "pending" THEN "result" ELSE fut[j]]
  BY DEF WorkerTakes, IInv, TypeOK
<1>2. Held' = (Held \ {}) \cup ({b} \ {NoJob})
  BY JobAssumption DEF WorkerTakes, Held, IInv, TypeOK
<1> QED
  BY <1>1, <1>2, AdvanceIs DEF WorkerTakes, Take, Outcome

\* A worker that goes on with b ends its job and takes b in the same step.
LEMMA ContinueAdvances ==
    ASSUME IInv, Cardinality(Held') <= Concurrency,
           NEW w \in Worker, NEW b \in Job \cup {NoJob}, WorkerContinues(w, b)
    PROVE  wjob[w] \in Held /\ Service!Advance({wjob[w]}, {b} \ {NoJob})
<1>1. wjob[w] \in Held /\ Received(w) \in Outcome
  BY DEF WorkerContinues, AwaitsDoneTask, Received, Held, Outcome, IInv, TypeOK
<1>2. fut' = [j \in Job |-> IF j \in {wjob[w]} /\ fut[j] = "pending"
                            THEN Received(w) ELSE fut[j]]
  BY <1>1 DEF WorkerContinues, Settle, IInv, TypeOK, Held
<1>3. b \in queue \/ b = NoJob
  BY DEF WorkerContinues, Take, IsNext, Waiting
<1>4. Held' = (Held \ {wjob[w]}) \cup ({b} \ {NoJob})
  BY <1>1, <1>3, JobAssumption DEF WorkerContinues, Held, IInv, TypeOK, Queueing, Stages
<1> QED
  BY <1>1, <1>2, <1>4, AdvanceIs DEF WorkerContinues, Take

\* A worker that ends with its job gives the place up and takes none.
LEMMA DiesAdvances ==
    ASSUME IInv, Cardinality(Held') <= Concurrency, NEW w \in Worker, WorkerDies(w)
    PROVE  wjob[w] \in Held /\ Service!Advance({wjob[w]}, {})
<1>1. wjob[w] \in Held /\ Received(w) \in Outcome
  BY DEF WorkerDies, AwaitsDoneTask, Received, Held, Outcome, IInv, TypeOK
<1>2. fut' = [j \in Job |-> IF j \in {wjob[w]} /\ fut[j] = "pending"
                            THEN Received(w) ELSE fut[j]]
  BY <1>1 DEF WorkerDies, Settle, IInv, TypeOK, Held
<1>3. Held' = Held \ {wjob[w]}
  BY <1>1 DEF WorkerDies, Held, IInv, TypeOK
<1>4. Waiting' = Waiting
  BY <1>1, <1>2 DEF WorkerDies, Waiting, Held, IInv, TypeOK, Queueing, Stages
<1>5. Waiting' = Waiting \ {} /\ Held' = (Held \ {wjob[w]}) \cup {}
  BY <1>3, <1>4
<1> QED
  BY <1>1, <1>2, <1>5, SameCardinality DEF Service!Advance, WorkerDies, Held, Outcome

\* A caller that gives up withdraws its submission, unless it has an outcome.
LEMMA CancelWithdraws ==
    ASSUME IInv, NEW j \in Job, CallerCancel(j)
    PROVE  Service!Withdraw({j}) \/ UNCHANGED Service!svcVars
<1> USE DEF IInv, TypeOK
<1>1. CASE fut[j] = "pending"
  <2>1. fut' = [i \in Job |-> IF i \in {j} THEN "cancelled" ELSE fut[i]]
    BY <1>1 DEF CallerCancel
  <2>2. Waiting' = Waiting \ {j}
    BY <2>1 DEF CallerCancel, Waiting
  <2> QED
    BY <1>1, <2>1, <2>2 DEF CallerCancel, Service!Withdraw, jobs
<1>2. CASE fut[j] # "pending"
  BY <1>2 DEF CallerCancel, Service!svcVars, Waiting
<1> QED
  BY <1>1, <1>2

\* The end of close() withdraws all that is left in the queue.
LEMMA CloseWithdraws ==
    ASSUME IInv, NEW c \in Closer, CloseEnds(c)
    PROVE  Drained \in SUBSET Job /\ Service!Withdraw(Drained)
<1> USE DEF IInv, TypeOK
<1>1. Waiting = Drained
  BY DEF Waiting, Drained, Queueing
<1>2. Waiting' = Waiting \ Drained
  BY <1>1 DEF CloseEnds, Waiting
<1> QED
  BY <1>2 DEF CloseEnds, Service!Withdraw, Drained

\* Every step of the scheduler is a step of the service or none at all.
LEMMA ServiceStep ==
    ASSUME IInv, PlacesBound', [Next]_vars
    PROVE  [Service!SvcNext]_(Service!svcVars)
<1>1. Cardinality(Held') <= Concurrency
  BY DEF PlacesBound
<1>2. ASSUME NEW j \in Job, NEW p \in Priority, NEW l \in Legacy, Submit(j, p, l)
      PROVE  Service!SvcNext
  BY <1>2, SubmitAccepts DEF Service!SvcNext
<1>3. ASSUME NEW j \in Job, CallerCancel(j) PROVE [Service!SvcNext]_(Service!svcVars)
  BY <1>3, CancelWithdraws DEF Service!SvcNext
<1>4. ASSUME NEW w \in Worker, NEW b \in Job \cup {NoJob}, WorkerTakes(w, b)
      PROVE  Service!SvcNext
  <2>1. {b} \ {NoJob} \in Service!Singles(Waiting)
    BY <1>4 DEF WorkerTakes, Take, IsNext, Service!Singles
  <2>2. {} \in Service!Singles(Held)
    BY DEF Service!Singles
  <2> QED
    BY <1>1, <1>4, <2>1, <2>2, TakeAdvances DEF Service!SvcNext, Held
<1>5. ASSUME NEW w \in Worker, NEW b \in Job \cup {NoJob}, WorkerContinues(w, b)
      PROVE  Service!SvcNext
  <2>1. {b} \ {NoJob} \in Service!Singles(Waiting)
    BY <1>5 DEF WorkerContinues, Take, IsNext, Service!Singles
  <2>2. wjob[w] \in Held /\ Service!Advance({wjob[w]}, {b} \ {NoJob})
    BY <1>1, <1>5, ContinueAdvances
  <2>3. {wjob[w]} \in Service!Singles(Held)
    BY <2>2 DEF Service!Singles
  <2> QED
    BY <2>1, <2>2, <2>3 DEF Service!SvcNext, Held
<1>6. ASSUME NEW w \in Worker, WorkerDies(w) PROVE Service!SvcNext
  <2>1. wjob[w] \in Held /\ Service!Advance({wjob[w]}, {})
    BY <1>1, <1>6, DiesAdvances
  <2>2. {wjob[w]} \in Service!Singles(Held) /\ {} \in Service!Singles(Waiting)
    BY <2>1 DEF Service!Singles
  <2> QED
    BY <2>1, <2>2 DEF Service!SvcNext, Held
<1>7. ASSUME NEW c \in Closer, CloseEnds(c) PROVE Service!SvcNext
  BY <1>7, CloseWithdraws DEF Service!SvcNext
<1>8. ASSUME NEW j \in Job, CallerReturns(j) \/ CallerHandles(j)
      PROVE  UNCHANGED Service!svcVars
  BY <1>8 DEF CallerReturns, CallerHandles, jobs, Service!svcVars, Waiting
<1>9. ASSUME NEW j \in Job, TaskStep(j) PROVE UNCHANGED Service!svcVars
  BY <1>9 DEF TaskStep, TaskBegins, TaskEnds, Outcome, Service!svcVars, Waiting, IInv, TypeOK
<1>10. ASSUME NEW w \in Worker, IdleWorkerDies(w) PROVE UNCHANGED Service!svcVars
  BY <1>10 DEF IdleWorkerDies, jobs, Service!svcVars, Waiting
<1>11. ASSUME NEW c \in Closer, CloseBegins(c) \/ CloseInterrupted(c) \/ CloseAborts(c)
       PROVE  UNCHANGED Service!svcVars
  BY <1>11 DEF CloseBegins, CloseInterrupted, CloseAborts, jobs, Service!svcVars, Waiting
<1>12. CASE UNCHANGED vars
  BY <1>12 DEF vars, jobs, Service!svcVars, Waiting
<1> QED
  BY <1>2, <1>3, <1>4, <1>5, <1>6, <1>7, <1>8, <1>9, <1>10, <1>11, <1>12
     DEF Next, ClientStep, WorkerStep, CloserStep, Finished

\* While close() calls do not overlap, the scheduler keeps the promises of
\* PriorityService.
THEOREM ServiceRefinementHolds == ASSUME AtMostOneCloser PROVE Spec => ServiceRefinement
<1>1. IInv /\ PlacesBound' /\ [Next]_vars => [Service!SvcNext]_(Service!svcVars)
  BY ServiceStep
<1> QED
  BY <1>1, ServiceInit, Invariant, PoolTrackedHolds, PlacesAreBounded, PTL
     DEF Spec, ServiceRefinement, Service!SvcSpec
============================================================================
