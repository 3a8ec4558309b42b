-------------------------- MODULE EventLoopsProofs --------------------------
(***************************************************************************)
(* Proofs about EventLoops: what the scheduler keeps across the event      *)
(* loops of one process, for any number of loops, jobs, workers and        *)
(* closers, and why a submission of a later loop need not be answered.     *)
(*                                                                         *)
(* A step of the program is a step of the scheduler, the cancellation of   *)
(* all the tasks of a loop, the end of the loop, or a worker that leaves   *)
(* queue.get() with RuntimeError.  The scheduler's own invariant survives  *)
(* them all.                                                               *)
(***************************************************************************)
EXTENDS EventLoops, ProbeSchedulerProofs

\* What a step of LoopNext is to the scheduler.
LEMMA StepsOfALoop ==
    ASSUME [LoopNext]_allVars
    PROVE  [Next]_vars \/ LoopShutdown \/ \E w \in Worker : GetRaises(w)
<1>1. CASE LoopExits
  BY <1>1 DEF LoopExits
<1>2. CASE InLoop
  BY <1>2 DEF InLoop, Next
<1>3. CASE InExit
  BY <1>3 DEF InExit, Next, ClientStep, CloserStep
<1>4. CASE UNCHANGED allVars
  BY <1>4 DEF allVars
<1> QED
  BY <1>1, <1>2, <1>3, <1>4 DEF LoopNext

----------------------------------------------------------------------------
(* The scheduler's invariant.                                              *)

\* The cancellation of every task settles each pending future, passes on to
\* each live job task, and takes no job from its worker.
LEMMA ShutdownKeepsInv ==
    ASSUME IInv, LoopShutdown
    PROVE  IInv'
<1> USE DEF LoopShutdown
<1>1. TypeOK'
  BY DEF IInv, TypeOK, Outcome
<1>2. Ownership'
  BY DEF IInv, Ownership
<1>3. Queueing'
  BY DEF IInv, TypeOK, Queueing
<1>4. Stages'
  BY DEF IInv, TypeOK, Stages
<1>5. NoOrphanWork'
  BY DEF IInv, TypeOK, NoOrphanWork, TaskIsLive
<1>6. ClosedNeverAwaited'
  BY DEF IInv, TypeOK, ClosedNeverAwaited
<1> QED
  BY <1>1, <1>2, <1>3, <1>4, <1>5, <1>6 DEF IInv

\* The worker that leaves queue.get() held no job.
LEMMA RaiseKeepsInv ==
    ASSUME IInv, NEW w \in Worker, GetRaises(w)
    PROVE  IInv'
<1> USE DEF GetRaises, MustRaise, WaitsInGet, InGet, jobs, clients
<1>0. wjob[w] = NoJob /\ w \notin wthrow
  OBVIOUS
<1>1. TypeOK'
  BY DEF IInv, TypeOK
<1>2. Ownership'
  BY DEF IInv, Ownership
<1>3. Queueing' /\ Stages'
  BY DEF IInv, Queueing, Stages
<1>4. NoOrphanWork' /\ ClosedNeverAwaited'
  BY DEF IInv, NoOrphanWork, ClosedNeverAwaited
<1> QED
  BY <1>1, <1>2, <1>3, <1>4 DEF IInv

\* The ties between jobs, futures, tasks, workers and queue hold in every loop.
THEOREM LoopInvariant == LoopSpec => []IInv
<1>1. LoopInit => IInv
  BY InvInit DEF LoopInit
<1>2. IInv /\ [LoopNext]_allVars => IInv'
  BY InvStep, ShutdownKeepsInv, RaiseKeepsInv, StepsOfALoop
<1> QED
  BY <1>1, <1>2, PTL DEF LoopSpec

\* No submission is forgotten, each task has one worker and no cancelled caller
\* leaves work behind, however many loops have come and gone.
THEOREM LoopsForgetNothing ==
    LoopSpec => [](NothingForgotten /\ OneOwner /\ NoOrphanWork /\ ClosedNeverAwaited)
<1>1. IInv => NothingForgotten /\ OneOwner /\ NoOrphanWork /\ ClosedNeverAwaited
  BY NothingIsForgotten, TasksHaveOneOwner DEF IInv
<1> QED
  BY <1>1, LoopInvariant, PTL

----------------------------------------------------------------------------
(* The scheduler's steps.                                                  *)

\* Shutdown and the RuntimeError of get() start no job and settle only futures
\* that are pending.
LEMMA EndsStartNothing ==
    ASSUME IInv, LoopShutdown \/ \E w \in Worker : GetRaises(w)
    PROVE  begun' = begun /\ \A j \in Job : fut[j] # "pending" => fut'[j] = fut[j]
BY DEF LoopShutdown, GetRaises, jobs, IInv, TypeOK

\* The promises about single steps hold in every loop and between two loops:
\* the best submission starts first, a cancelled one never starts, and a future
\* is settled once.
THEOREM LoopsKeepTheOrder ==
    LoopSpec => PriorityRespected /\ CancelledNeverStarts /\ SettledOnce
<1>1. IInv /\ [LoopNext]_allVars =>
        [\A j \in begun' \ begun : \A k \in queue' : fut'[k] = "pending" =>
            prio[j] < prio[k] \/ (prio[j] = prio[k] /\ seq[j] < seq[k])]_vars
  BY PriorityRespectedStep, EndsStartNothing, StepsOfALoop
<1>2. IInv /\ [LoopNext]_allVars =>
        [\A j \in Job \ begun : fut[j] = "cancelled" => j \notin begun']_vars
  BY CancelledNeverStartsStep, EndsStartNothing, StepsOfALoop
<1>3. IInv /\ [LoopNext]_allVars =>
        [\A j \in Job : fut[j] \in Outcome => fut'[j] = fut[j]]_vars
  BY SettledOnceStep, EndsStartNothing, StepsOfALoop DEF Outcome
<1> QED
  BY <1>1, <1>2, <1>3, LoopInvariant, PTL
     DEF LoopSpec, PriorityRespected, CancelledNeverStarts, SettledOnce

----------------------------------------------------------------------------
(* The bound and the service, while close() calls do not overlap.          *)

\* A loop ends with the pool still listed, so that the scheduler of the next
\* loop does not start a second one beside it.
THEOREM LoopPoolTracked == ASSUME AtMostOneCloser PROVE LoopSpec => []PoolTracked
<1>1. LoopInit => PoolTracked
  BY PoolInit DEF LoopInit
<1>2. IInv /\ PoolTracked /\ [LoopNext]_allVars => PoolTracked'
  <2> SUFFICES ASSUME IInv, PoolTracked, [LoopNext]_allVars PROVE PoolTracked'
    OBVIOUS
  <2>1. CASE [Next]_vars
    BY <2>1, PoolStep DEF IInv
  <2>2. CASE LoopShutdown
    BY <2>2 DEF LoopShutdown, PoolTracked
  <2>3. ASSUME NEW w \in Worker, GetRaises(w) PROVE PoolTracked'
    BY <2>3 DEF GetRaises, clients, PoolTracked
  <2> QED
    BY <2>1, <2>2, <2>3, StepsOfALoop
<1> QED
  BY <1>1, <1>2, LoopInvariant, PTL DEF LoopSpec

\* At most Concurrency operations are under way, in one loop after another.
THEOREM LoopConcurrencyBound ==
    ASSUME AtMostOneCloser PROVE LoopSpec => []ConcurrencyBound
BY RunningBound, LoopInvariant, LoopPoolTracked, PTL

\* The cancellation of all tasks withdraws every submission that is pending.
LEMMA ShutdownWithdraws ==
    ASSUME IInv, LoopShutdown
    PROVE  Service!SvcNext
<1> DEFINE J == {j \in Job : fut[j] = "pending"}
<1>1. fut' = [j \in Job |-> IF j \in J THEN "cancelled" ELSE fut[j]]
  BY DEF LoopShutdown
<1>2. Waiting' = Waiting \ J
  BY <1>1 DEF LoopShutdown, Waiting, IInv, TypeOK, Queueing
<1>3. Service!Withdraw(J)
  BY <1>1, <1>2 DEF LoopShutdown, Service!Withdraw
<1> QED
  BY <1>3 DEF Service!SvcNext

\* Over all its loops the scheduler keeps the promises of PriorityService: to
\* its callers the end of a loop is one more withdrawal.
THEOREM LoopServiceRefinement ==
    ASSUME AtMostOneCloser PROVE LoopSpec => ServiceRefinement
<1>1. LoopInit => Service!SvcInit
  BY ServiceInit DEF LoopInit
<1>2. IInv /\ PlacesBound' /\ [LoopNext]_allVars => [Service!SvcNext]_(Service!svcVars)
  <2> SUFFICES ASSUME IInv, PlacesBound', [LoopNext]_allVars
               PROVE  [Service!SvcNext]_(Service!svcVars)
    OBVIOUS
  <2>1. CASE [Next]_vars
    BY <2>1, ServiceStep
  <2>2. CASE LoopShutdown
    BY <2>2, ShutdownWithdraws
  <2>3. ASSUME NEW w \in Worker, GetRaises(w) PROVE UNCHANGED Service!svcVars
    BY <2>3 DEF GetRaises, jobs, Service!svcVars, Waiting
  <2> QED
    BY <2>1, <2>2, <2>3, StepsOfALoop
<1> QED
  BY <1>1, <1>2, LoopInvariant, LoopPoolTracked, PlacesAreBounded, PTL
     DEF LoopSpec, ServiceRefinement, Service!SvcSpec

----------------------------------------------------------------------------
(* The end of a loop.                                                      *)

\* From the moment asyncio.run() cancels the tasks, no future is pending.
ExitSettles == exiting => \A j \in Job : fut[j] # "pending"

\* Only submit() makes a future pending, and the callers have been cancelled.
LEMMA ExitStep == IInv /\ ExitSettles /\ [LoopNext]_allVars => ExitSettles'
<1> SUFFICES ASSUME IInv, ExitSettles, [LoopNext]_allVars, exiting',
                    NEW j \in Job
             PROVE  fut'[j] # "pending"
  BY DEF ExitSettles
<1> USE DEF ExitSettles, IInv, TypeOK
<1>1. CASE LoopShutdown
  BY <1>1 DEF LoopShutdown
<1>2. CASE LoopExits \/ InLoop
  BY <1>2 DEF LoopExits, InLoop
<1>3. CASE InExit
  <2>1. ASSUME NEW i \in Job, CallerReturns(i) \/ CallerHandles(i) \/ TaskStep(i)
        PROVE  fut' = fut
    BY <2>1 DEF CallerReturns, CallerHandles, TaskStep, TaskBegins, TaskEnds, jobs
  <2>2. ASSUME NEW w \in Worker, WorkerStep(w) PROVE fut'[j] # "pending"
    BY <1>3, <2>2
       DEF InExit, WorkerStep, WorkerTakes, WorkerContinues, WorkerDies,
           IdleWorkerDies, AwaitsDoneTask, Received, Settle, jobs, Outcome
  <2>3. ASSUME NEW c \in Closer, CloseAborts(c) PROVE fut' = fut
    BY <2>3 DEF CloseAborts, jobs
  <2> QED
    BY <1>3, <2>1, <2>2, <2>3 DEF InExit
<1>4. ASSUME NEW w \in Worker, GetRaises(w) PROVE fut'[j] # "pending"
  BY <1>4 DEF GetRaises, jobs, loopVars
<1>5. CASE UNCHANGED allVars
  BY <1>5 DEF allVars, vars, jobs, loopVars
<1> QED
  BY <1>1, <1>2, <1>3, <1>4, <1>5 DEF LoopNext

\* No submission is carried from one loop to the next: what is left in the queue
\* of a loop that exits is cancelled, and no job starts while it exits, not even
\* on a worker whose operation suppressed its cancellation.
THEOREM NothingStartsInExit ==
    LoopSpec => [](exiting => Waiting = {}) /\ [][exiting => begun' = begun]_allVars
<1>1. LoopInit => ExitSettles
  BY DEF LoopInit, ExitSettles
<1>2. IInv /\ ExitSettles => (exiting => Waiting = {})
  BY DEF IInv, Queueing, ExitSettles, Waiting, TypeOK
<1>3. IInv /\ ExitSettles /\ [LoopNext]_allVars => [exiting => begun' = begun]_allVars
  <2> SUFFICES ASSUME IInv, Waiting = {}, [LoopNext]_allVars PROVE begun' = begun
    BY <1>2
  <2>1. ASSUME NEW w \in Worker, NEW b \in Job \cup {NoJob},
               WorkerTakes(w, b) \/ WorkerContinues(w, b)
        PROVE  begun' = begun
    BY <2>1, TakingStep DEF IsNext
  <2> QED
    BY <2>1, BegunSteps, EndsStartNothing, StepsOfALoop
<1> QED
  BY <1>1, <1>2, <1>3, ExitStep, LoopInvariant, PTL DEF LoopSpec

----------------------------------------------------------------------------
(* The scheduler after its loop.                                           *)

\* start() and the end of close() move the flag and the list together.
PoolAndFlag == started <=> workers # {}

\* The workers of a closed loop are still listed, and all of them are over.
ForeignIdle == foreign => workers # {} /\ alive = {}

\* The queue belongs to no loop, to the current one or to one that has ended.
HomeKnown == home = {} \/ \E h \in 0 .. loops : home = {h}

AfterLoop == loops \in Nat /\ foreign \in BOOLEAN /\ PoolAndFlag /\ ForeignIdle /\ HomeKnown

LEMMA PoolIsNotEmpty == Cardinality({}) # Concurrency
BY FS_EmptySet, ConcurrencyAssumption

\* Only start() fills the list, from empty, and only the end of close() empties it.
LEMMA PoolAndFlagStep ==
    ASSUME IInv, PoolAndFlag, [Next]_vars
    PROVE  PoolAndFlag' /\ (workers # {} => alive' \subseteq alive)
<1> USE DEF PoolAndFlag
<1>1. ASSUME NEW j \in Job, NEW p \in Priority, NEW l \in Legacy, Submit(j, p, l)
      PROVE  PoolAndFlag' /\ (workers # {} => alive' \subseteq alive)
  BY <1>1, PoolIsNotEmpty DEF Submit, Start
<1>2. ASSUME NEW j \in Job, \/ CallerCancel(j) \/ CallerReturns(j) \/ CallerHandles(j)
                            \/ TaskStep(j)
      PROVE  UNCHANGED <<started, workers, alive>>
  BY <1>2 DEF CallerCancel, CallerReturns, CallerHandles, TaskStep, TaskBegins, TaskEnds, pool
<1>3. ASSUME NEW w \in Worker, WorkerStep(w)
      PROVE  UNCHANGED <<started, workers>> /\ alive' \subseteq alive
  BY <1>3 DEF WorkerStep, WorkerTakes, WorkerContinues, WorkerDies, IdleWorkerDies
<1>4. ASSUME NEW c \in Closer, CloserStep(c)
      PROVE  PoolAndFlag' /\ alive' \subseteq alive
  BY <1>4 DEF CloserStep, CloseBegins, CloseEnds, CloseInterrupted, CloseAborts, pool,
              ForgetPool
<1>5. CASE UNCHANGED vars
  BY <1>5 DEF vars, pool
<1> QED
  BY <1>1, <1>2, <1>3, <1>4, <1>5 DEF Next, ClientStep, Finished

\* A loop that ends leaves its pool behind; a later one adds nothing to it.
LEMMA AfterLoopStep == IInv /\ AfterLoop /\ [LoopNext]_allVars => AfterLoop'
<1> SUFFICES ASSUME IInv, AfterLoop, [LoopNext]_allVars PROVE AfterLoop'
  OBVIOUS
<1> USE DEF AfterLoop
<1>1. CASE LoopShutdown
  BY <1>1 DEF LoopShutdown, PoolAndFlag, ForeignIdle, HomeKnown
<1>2. CASE LoopExits
  <2>1. UNCHANGED <<started, workers, alive, home>> /\ alive = {} /\ loops' = loops + 1
    BY <1>2 DEF LoopExits, vars, pool
  <2>2. HomeKnown'
    BY <2>1 DEF HomeKnown
  <2> QED
    BY <1>2, <2>1, <2>2 DEF LoopExits, PoolAndFlag, ForeignIdle
<1>3. CASE InLoop
  <2>1. PoolAndFlag' /\ (workers # {} => alive' \subseteq alive)
    BY <1>3, PoolAndFlagStep DEF InLoop, Next
  <2>2. HomeKnown' /\ loops' \in Nat
    BY <1>3 DEF InLoop, HomeKnown
  <2> QED
    BY <1>3, <2>1, <2>2 DEF InLoop, ForeignIdle
<1>4. CASE InExit
  <2>1. PoolAndFlag' /\ (workers # {} => alive' \subseteq alive)
    BY <1>4, PoolAndFlagStep DEF InExit, Next, ClientStep, CloserStep
  <2>2. workers' = workers /\ UNCHANGED loopVars
    BY <1>4 DEF InExit, CallerReturns, CallerHandles, TaskStep, TaskBegins, TaskEnds,
                WorkerStep, WorkerTakes, WorkerContinues, WorkerDies, IdleWorkerDies, CloseAborts, pool
  <2> QED
    BY <2>1, <2>2 DEF loopVars, ForeignIdle, HomeKnown
<1>5. ASSUME NEW w \in Worker, GetRaises(w) PROVE AfterLoop'
  BY <1>5 DEF GetRaises, loopVars, PoolAndFlag, ForeignIdle, HomeKnown
<1>6. CASE UNCHANGED allVars
  BY <1>6 DEF allVars, vars, pool, loopVars, PoolAndFlag, ForeignIdle, HomeKnown
<1> QED
  BY <1>1, <1>2, <1>3, <1>4, <1>5, <1>6 DEF LoopNext

\* What the scheduler keeps of a loop that has ended.
THEOREM AfterLoopHolds == LoopSpec => []AfterLoop
<1>1. LoopInit => AfterLoop
  <2> SUFFICES ASSUME LoopInit PROVE AfterLoop
    OBVIOUS
  <2>1. /\ started = FALSE /\ workers = {}
        /\ loops = 0 /\ foreign = FALSE /\ home = {}
    BY DEF LoopInit, Init
  <2>2. PoolAndFlag
    BY <2>1 DEF PoolAndFlag
  <2> QED
    BY <2>1, <2>2 DEF AfterLoop, ForeignIdle, HomeKnown
<1> QED
  BY <1>1, AfterLoopStep, LoopInvariant, PTL DEF LoopSpec

\* While the listed workers are those of a closed loop, start() returns at once
\* and nothing runs: no job starts and no submission gets a result.
THEOREM ForeignPoolRunsNothing ==
    LoopSpec => [][foreign =>
                      /\ begun' = begun
                      /\ \A j \in Job : fut'[j] \in {"result", "exception"} =>
                                           fut'[j] = fut[j]]_allVars
<1>1. IInv /\ AfterLoop /\ [LoopNext]_allVars =>
        [foreign => /\ begun' = begun
                    /\ \A j \in Job : fut'[j] \in {"result", "exception"} =>
                                         fut'[j] = fut[j]]_allVars
  <2> SUFFICES ASSUME IInv, alive = {}, [LoopNext]_allVars
               PROVE  /\ begun' = begun
                      /\ \A j \in Job : fut'[j] \in {"result", "exception"} =>
                                           fut'[j] = fut[j]
    BY DEF AfterLoop, ForeignIdle
  <2> USE DEF IInv, TypeOK
  <2>1. ASSUME NEW j \in Job, ClientStep(j) \/ TaskStep(j)
        PROVE  /\ begun' = begun
               /\ \A i \in Job : fut'[i] # fut[i] => fut'[i] \in {"pending", "cancelled"}
    BY <2>1 DEF ClientStep, TaskStep, Submit, CallerCancel, CallerReturns, CallerHandles,
                TaskBegins, TaskEnds, jobs
  <2>2. ASSUME NEW w \in Worker, WorkerStep(w) PROVE FALSE
    BY <2>2 DEF WorkerStep, WorkerTakes, WorkerContinues, WorkerDies, IdleWorkerDies,
                InGet, AwaitsDoneTask
  <2>3. ASSUME NEW c \in Closer, CloserStep(c)
        PROVE  /\ begun' = begun
               /\ \A i \in Job : fut'[i] # fut[i] => fut'[i] \in {"pending", "cancelled"}
    BY <2>3 DEF CloserStep, CloseBegins, CloseEnds, CloseInterrupted, CloseAborts, jobs
  <2>4. CASE UNCHANGED vars
    BY <2>4 DEF vars, jobs
  <2>5. CASE LoopShutdown \/ \E w \in Worker : GetRaises(w)
    BY <2>5 DEF LoopShutdown, GetRaises, jobs
  <2> QED
    BY <2>1, <2>2, <2>3, <2>4, <2>5, StepsOfALoop DEF Next, Finished
<1> QED
  BY <1>1, LoopInvariant, AfterLoopHolds, PTL DEF LoopSpec

\* A queue that belongs to a loop that has ended never serves another: close()
\* does not give the scheduler a new one.
THEOREM QueueNeverComesHome == LoopSpec => [][~AtHome => ~AtHome']_allVars
<1>1. AfterLoop /\ [LoopNext]_allVars => [~AtHome => ~AtHome']_allVars
  <2> SUFFICES ASSUME AfterLoop, [LoopNext]_allVars, ~AtHome PROVE ~AtHome'
    OBVIOUS
  <2>1. PICK h \in 0 .. loops : home = {h} /\ h # loops
    BY DEF AfterLoop, HomeKnown, AtHome
  <2>2. home' = home /\ (loops' = loops \/ loops' = loops + 1)
    BY <2>1 DEF LoopNext, LoopShutdown, LoopExits, InLoop, InExit, GetRaises, allVars, loopVars
  <2> QED
    BY <2>1, <2>2 DEF AfterLoop, AtHome
<1> QED
  BY <1>1, AfterLoopHolds, PTL DEF LoopSpec

============================================================================
