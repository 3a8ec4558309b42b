--------------------------- MODULE ProbeScheduler ---------------------------
(***************************************************************************)
(* The bounded priority scheduler of                                       *)
(* application/services/probe_scheduler.py.                                *)
(*                                                                         *)
(* Callers await submit(); a pool of Concurrency workers takes jobs from a *)
(* priority queue and runs each one in a task of its own; close() cancels  *)
(* the pool and cancels what is left in the queue.                         *)
(*                                                                         *)
(* asyncio runs one coroutine at a time, so an action is the code between  *)
(* two points where a coroutine really suspends.  queue.put() never        *)
(* suspends (the queue has no bound) and queue.get() does not suspend      *)
(* while the queue is not empty: a worker that finishes one job and takes  *)
(* the next does so in one action.                                         *)
(***************************************************************************)
EXTENDS Integers, FiniteSets

CONSTANTS
    Job,            \* the submissions, each made at most once
    Worker,         \* identities for worker tasks, reused once a worker is gone
    Closer,         \* the callers of close()
    Impatient,      \* the closers that may be cancelled while they wait
    Concurrency,    \* ProbeScheduler(concurrency)
    Priority,       \* the values of ProbePriority that are used
    Legacy,         \* whether submit() may be given an awaitable, a factory or both
    HasCancelling,  \* asyncio.Task.cancelling exists (Python 3.11 and later)
    MaySuppress,    \* an operation may complete although it was cancelled
    NoJob           \* what an idle worker holds

ASSUME ConcurrencyAssumption == Concurrency \in Nat \ {0}
ASSUME PriorityAssumption == Priority \subseteq Nat
ASSUME LegacyAssumption == Legacy \subseteq BOOLEAN
ASSUME JobAssumption == NoJob \notin Job
ASSUME WorkerAssumption == IsFiniteSet(Worker)
ASSUME CloserAssumption == Impatient \subseteq Closer
ASSUME SwitchAssumption == HasCancelling \in BOOLEAN /\ MaySuppress \in BOOLEAN

VARIABLES
    started,    \* self._started
    workers,    \* self._workers
    alive,      \* the worker tasks that have not ended
    wjob,       \* the job a worker awaits, or NoJob
    wcancel,    \* the workers whose cancelling() count is not zero
    wthrow,     \* the workers that get CancelledError at their next step
    queue,      \* the jobs in self._queue
    sequence,   \* self._sequence
    prio, seq,  \* job.priority, job.sequence
    begun,      \* the jobs with job.started set
    fut,        \* job.future
    task,       \* job.task
    tcancel,    \* the job tasks with a cancellation on its way
    coro,       \* job.legacy_awaitable
    caller,     \* the coroutine that awaits submit()
    ccancel,    \* the callers that get CancelledError at their next step
    gathered,   \* the worker tasks a close() call waits for
    interrupted \* the close() calls cancelled in that wait

pool    == <<started, workers, alive, wjob, wcancel, wthrow>>
jobs    == <<queue, sequence, prio, seq, begun, fut, task, tcancel, coro>>
clients == <<caller, ccancel, gathered, interrupted>>
vars    == <<pool, jobs, clients>>

Outcome   == {"result", "exception", "cancelled"}
TaskOver  == Outcome \cup {"aborted"}   \* ended in a CancelledError nobody asked for
LiveTask  == {"created", "running"}
Ended     == {"returned", "raised", "cancelled"}

Init ==
    /\ started = FALSE /\ workers = {} /\ alive = {}
    /\ wjob = [w \in Worker |-> NoJob] /\ wcancel = {} /\ wthrow = {}
    /\ queue = {} /\ sequence = 0
    /\ prio = [j \in Job |-> 0] /\ seq = [j \in Job |-> 0]
    /\ begun = {}
    /\ fut = [j \in Job |-> "none"] /\ task = [j \in Job |-> "none"]
    /\ tcancel = {}
    /\ coro = [j \in Job |-> "factory"]
    /\ caller = [j \in Job |-> "idle"] /\ ccancel = {}
    /\ gathered = [c \in Closer |-> {}] /\ interrupted = {}

----------------------------------------------------------------------------
(* The order of the priority queue: the entries are (priority, sequence).  *)

LargerFirst(j, k) ==
    \/ prio[j] > prio[k]
    \/ prio[j] = prio[k] /\ seq[j] < seq[k]

Before(j, k) ==
    \/ prio[j] < prio[k]
    \/ prio[j] = prio[k] /\ seq[j] < seq[k]

\* The entries a worker runs: it skips those cancelled while they waited.
Waiting == {j \in queue : fut[j] # "cancelled"}

\* b is what the worker loop runs next: the first entry of the queue whose
\* future is not cancelled, or nothing.
IsNext(b) ==
    \/ b = NoJob /\ Waiting = {}
    \/ b \in Waiting /\ \A k \in Waiting \ {b} : Before(b, k)

\* What leaves the queue on the way to b.
PeeksOnly(b) == {k \in queue : b = NoJob \/ (k # b /\ Before(k, b))}
Passed(b) == {k \in queue : b = NoJob \/ k = b \/ Before(k, b)}

----------------------------------------------------------------------------
(* submit()                                                                *)

\* The identities of worker tasks that nothing refers to any more.
Fresh == Worker \ (alive \cup workers \cup UNION {gathered[c] : c \in Closer})

\* start()
Start ==
    \/ /\ started
       /\ UNCHANGED <<started, workers, alive>>
    \/ /\ ~started
       /\ \E W \in SUBSET Fresh :
             /\ Cardinality(W) = Concurrency
             /\ workers' = W
             /\ alive' = alive \cup W
       /\ started' = TRUE

\* submit() up to the point where the caller suspends in "await future".
Submit(j, p, legacy) ==
    /\ caller[j] = "idle"
    /\ Start
    /\ prio' = [prio EXCEPT ![j] = p]
    /\ seq' = [seq EXCEPT ![j] = sequence]
    /\ sequence' = sequence + 1
    /\ fut' = [fut EXCEPT ![j] = "pending"]
    /\ coro' = [coro EXCEPT ![j] = IF legacy THEN "open" ELSE "factory"]
    /\ queue' = queue \cup {j}
    /\ caller' = [caller EXCEPT ![j] = "waiting"]
    /\ UNCHANGED <<wjob, wcancel, wthrow, begun, task, tcancel, ccancel, gathered,
                   interrupted>>

\* The caller's task is cancelled while it awaits the future.  A pending
\* future is cancelled at once; one that is done already is not, and the
\* caller gets CancelledError in place of the outcome.
CallerCancel(j) ==
    /\ caller[j] = "waiting"
    /\ \/ /\ fut[j] = "pending"
          /\ fut' = [fut EXCEPT ![j] = "cancelled"]
          /\ UNCHANGED ccancel
       \/ /\ fut[j] \in {"result", "exception"}
          /\ j \notin ccancel
          /\ ccancel' = ccancel \cup {j}
          /\ UNCHANGED fut
    /\ UNCHANGED <<pool, queue, sequence, prio, seq, begun, task, tcancel, coro,
                   caller, gathered, interrupted>>

\* A task's first step is in the loop's FIFO run queue from the moment the
\* worker creates it, ahead of any wake-up of a caller cancelled after that.
CallerWoken(j) == caller[j] = "waiting" /\ fut[j] \in Outcome /\ task[j] # "created"

CallerReturns(j) ==
    /\ CallerWoken(j)
    /\ j \notin ccancel /\ fut[j] # "cancelled"
    /\ caller' = [caller EXCEPT
                     ![j] = IF fut[j] = "result" THEN "returned" ELSE "raised"]
    /\ UNCHANGED <<pool, jobs, ccancel, gathered, interrupted>>

\* job.task is not None and not job.task.done()
TaskIsDone(j) == task[j] \in TaskOver
TaskIsLive(j) == task[j] \in LiveTask

\* The legacy awaitable of a job that never started is closed.
LegacyToClose(J) == {j \in J : coro[j] = "open" /\ j \notin begun}

\* The CancelledError handler of submit().
CallerHandles(j) ==
    /\ CallerWoken(j)
    /\ j \in ccancel \/ fut[j] = "cancelled"
    /\ caller' = [caller EXCEPT ![j] = "cancelled"]
    /\ ccancel' = ccancel \ {j}
    /\ \/ /\ TaskIsLive(j)
          /\ tcancel' = tcancel \cup {j}
          /\ UNCHANGED coro
       \/ /\ ~TaskIsLive(j)
          /\ coro' = [k \in Job |->
                         IF k \in LegacyToClose({j}) THEN "closed" ELSE coro[k]]
          /\ UNCHANGED tcancel
    /\ UNCHANGED <<pool, queue, sequence, prio, seq, begun, fut, task, gathered,
                   interrupted>>

----------------------------------------------------------------------------
(* The task of a job: execute()                                            *)

\* The first step.  A task cancelled before it never calls the factory.
TaskBegins(j) ==
    /\ task[j] = "created"
    /\ \/ /\ j \in tcancel
          /\ task' = [task EXCEPT ![j] = "cancelled"]
          /\ tcancel' = tcancel \ {j}
          /\ UNCHANGED coro
       \/ /\ j \notin tcancel
          /\ task' = [task EXCEPT ![j] = "running"]
          /\ coro' = [coro EXCEPT ![j] = IF @ = "open" THEN "consumed" ELSE @]
          /\ UNCHANGED tcancel
    /\ UNCHANGED <<pool, queue, sequence, prio, seq, begun, fut, clients>>

\* The operation ends, asked to or of its own accord: with CancelledError too,
\* if something under it was cancelled.  Asked to, it may still end otherwise
\* if it may suppress the cancellation.
TaskEnds(j, o) ==
    /\ task[j] = "running"
    /\ \/ o = "cancelled" /\ j \in tcancel
       \/ o = "aborted" /\ j \notin tcancel
       \/ o \in {"result", "exception"} /\ (j \notin tcancel \/ MaySuppress)
    /\ task' = [task EXCEPT ![j] = o]
    /\ tcancel' = tcancel \ {j}
    /\ UNCHANGED <<pool, queue, sequence, prio, seq, begun, fut, coro, clients>>

----------------------------------------------------------------------------
(* _worker()                                                               *)

\* queue.get(), the check of the future and the creation of the task of b.
Take(w, b) ==
    /\ IsNext(b)
    /\ queue' = queue \ Passed(b)
    /\ wjob' = [wjob EXCEPT ![w] = b]
    /\ begun' = begun \cup ({b} \ {NoJob})

\* The worker is suspended in queue.get(), or has not run yet.
NotAwaitingItsTask(w) == w \in alive
InGet(w) == w \in alive /\ wjob[w] = NoJob

\* A worker suspended in queue.get() is woken.
WorkerTakes(w, b) ==
    /\ InGet(w)
    /\ w \notin wthrow
    /\ queue # {}
    /\ Take(w, b)
    /\ task' = [j \in Job |-> IF j = b THEN "created" ELSE task[j]]
    /\ UNCHANGED <<started, workers, alive, wcancel, wthrow, sequence, prio, seq,
                   fut, tcancel, coro, clients>>

\* What "await job.task" gives the worker.
Received(w) ==
    IF w \in wthrow \/ task[wjob[w]] = "aborted" THEN "cancelled" ELSE task[wjob[w]]

\* The outcome goes to the future unless that is done already.
Settle(j, o) == fut' = [fut EXCEPT ![j] = IF @ = "pending" THEN o ELSE @]

\* CancelledError leaves the worker when the worker itself was cancelled;
\* without Task.cancelling the check raises AttributeError, and that leaves it.
SwallowsCancellation(w) == Received(w) = "cancelled" /\ ~HasCancelling
Dies(w) ==
    /\ Received(w) = "cancelled"
    /\ w \in wcancel \/ ~HasCancelling

AwaitsDoneTask(w) == w \in alive /\ wjob[w] # NoJob /\ task[wjob[w]] \in TaskOver

\* The job is over and the worker goes on with b.
WorkerContinues(w, b) ==
    /\ AwaitsDoneTask(w)
    /\ ~Dies(w)
    /\ Settle(wjob[w], Received(w))
    /\ Take(w, b)
    /\ task' = [j \in Job |-> IF j = b THEN "created"
                              ELSE IF j = wjob[w] THEN "none" ELSE task[j]]
    /\ UNCHANGED <<started, workers, alive, wcancel, wthrow, sequence, prio, seq,
                   tcancel, coro, clients>>

\* The job is over and so is the worker.
WorkerDies(w) ==
    /\ AwaitsDoneTask(w)
    /\ Dies(w)
    /\ Settle(wjob[w], Received(w))
    /\ task' = [task EXCEPT ![wjob[w]] = "none"]
    /\ alive' = alive \ {w}
    /\ wjob' = [wjob EXCEPT ![w] = NoJob]
    /\ wcancel' = wcancel \ {w}
    /\ wthrow' = wthrow \ {w}
    /\ UNCHANGED <<started, workers, queue, sequence, prio, seq, begun, tcancel,
                   coro, clients>>

\* CancelledError reaches a worker in queue.get(), or one that never ran.
IdleWorkerDies(w) ==
    /\ InGet(w)
    /\ w \in wthrow
    /\ alive' = alive \ {w}
    /\ wcancel' = wcancel \ {w}
    /\ wthrow' = wthrow \ {w}
    /\ UNCHANGED <<started, workers, wjob, jobs, clients>>

----------------------------------------------------------------------------
(* close()                                                                 *)

\* worker.cancel() for each worker of W: a worker that awaits a live task
\* passes the cancellation on to it, any other gets CancelledError itself.
CancelBusyWorkers(W) ==
    /\ wcancel' = wcancel \cup (W \cap alive)
    /\ tcancel' = tcancel \cup {j \in Job : TaskIsLive(j) /\ \E w \in W \cap alive : wjob[w] = j}
    /\ UNCHANGED wthrow
CancelWorkers(W) ==
    LET passing == {w \in W \cap alive : wjob[w] # NoJob /\ TaskIsLive(wjob[w])}
    IN  /\ wcancel' = wcancel \cup (W \cap alive)
        /\ wthrow' = wthrow \cup ((W \cap alive) \ passing)
        /\ tcancel' = tcancel \cup {wjob[w] : w \in passing}

\* Up to "await gather(...)".  With no workers the call has nothing to wait
\* for, nothing to drain and changes nothing.
CloseBegins(c) ==
    /\ gathered[c] = {}
    /\ workers # {}
    /\ CancelWorkers(workers)
    /\ gathered' = [gathered EXCEPT ![c] = workers]
    /\ UNCHANGED <<started, workers, alive, wjob, queue, sequence, prio, seq, begun,
                   fut, task, coro, caller, ccancel, interrupted>>

\* gather() has seen every worker end.
DoesNotWait(c) == TRUE
PoolGone(c) == gathered[c] \cap alive = {}

\* Whose future the drain cancels.
DrainsSilently == {}
Drained == {j \in queue : fut[j] = "pending"}

KeepsStarted == workers' = {} /\ UNCHANGED started
ForgetPool == workers' = {} /\ started' = FALSE

\* After it: drain the queue and forget the pool.
CloseEnds(c) ==
    /\ gathered[c] # {} /\ c \notin interrupted
    /\ PoolGone(c)
    /\ fut' = [j \in Job |-> IF j \in Drained THEN "cancelled" ELSE fut[j]]
    /\ coro' = [j \in Job |-> IF j \in LegacyToClose(queue) THEN "closed" ELSE coro[j]]
    /\ queue' = {}
    /\ ForgetPool
    /\ gathered' = [gathered EXCEPT ![c] = {}]
    /\ UNCHANGED <<alive, wjob, wcancel, wthrow, sequence, prio, seq, begun, task,
                   tcancel, caller, ccancel, interrupted>>

\* The caller of close() is cancelled, once or again: gather() cancels the
\* workers once more and goes on waiting for them.
CloseInterrupted(c) ==
    /\ c \in Impatient
    /\ gathered[c] # {}
    /\ CancelWorkers(gathered[c])
    /\ interrupted' = interrupted \cup {c}
    /\ UNCHANGED <<started, workers, alive, wjob, queue, sequence, prio, seq, begun,
                   fut, task, coro, caller, ccancel, gathered>>

\* Then it raises, and the rest of close() does not run.
CloseAborts(c) ==
    /\ c \in interrupted
    /\ PoolGone(c)
    /\ gathered' = [gathered EXCEPT ![c] = {}]
    /\ interrupted' = interrupted \ {c}
    /\ UNCHANGED <<pool, jobs, caller, ccancel>>

----------------------------------------------------------------------------
ClientStep(j) ==
    \/ \E p \in Priority, legacy \in Legacy : Submit(j, p, legacy)
    \/ CallerCancel(j)
    \/ CallerReturns(j)
    \/ CallerHandles(j)

TaskStep(j) == TaskBegins(j) \/ \E o \in TaskOver : TaskEnds(j, o)

WorkerStep(w) ==
    \/ \E b \in Job \cup {NoJob} : WorkerTakes(w, b) \/ WorkerContinues(w, b)
    \/ WorkerDies(w)
    \/ IdleWorkerDies(w)

CloserStep(c) == CloseBegins(c) \/ CloseEnds(c) \/ CloseInterrupted(c) \/ CloseAborts(c)

\* Every submission is answered and nobody closes: the program may stop here.
Finished ==
    /\ \A j \in Job : caller[j] \in Ended
    /\ \A c \in Closer : gathered[c] = {}
    /\ UNCHANGED vars

Next ==
    \/ \E j \in Job : ClientStep(j) \/ TaskStep(j)
    \/ \E w \in Worker : WorkerStep(w)
    \/ \E c \in Closer : CloserStep(c)
    \/ Finished

Spec == Init /\ [][Next]_vars

\* The event loop runs every callback that is ready, and every operation
\* ends: each network call under it has a timeout.  Nobody has to submit,
\* to cancel or to close.
Fairness ==
    /\ \A j \in Job : WF_vars(CallerReturns(j) \/ CallerHandles(j)) /\ WF_vars(TaskStep(j))
    /\ \A w \in Worker : WF_vars(WorkerStep(w))
    /\ \A c \in Closer : WF_vars(CloseEnds(c) \/ CloseAborts(c))

FairSpec == Spec /\ Fairness

----------------------------------------------------------------------------
(* Safety                                                                  *)

\* The type invariant.  The pool is empty or has Concurrency workers, as
\* start() creates it (_workers, line 41).
TypeOK ==
    /\ started \in BOOLEAN
    /\ workers \subseteq Worker
    /\ workers = {} \/ Cardinality(workers) = Concurrency
    /\ alive \subseteq Worker
    /\ wjob \in [Worker -> Job \cup {NoJob}]
    /\ wcancel \subseteq alive /\ wthrow \subseteq alive
    /\ queue \subseteq Job
    /\ sequence \in Nat
    /\ prio \in [Job -> Nat]
    /\ seq \in [Job -> Nat]
    /\ begun \subseteq Job
    /\ fut \in [Job -> {"none", "pending"} \cup Outcome]
    /\ task \in [Job -> {"none"} \cup LiveTask \cup TaskOver]
    /\ tcancel \subseteq Job
    /\ coro \in [Job -> {"factory", "open", "consumed", "closed"}]
    /\ caller \in [Job -> {"idle", "waiting"} \cup Ended]
    /\ ccancel \subseteq Job
    /\ gathered \in [Closer -> SUBSET Worker]
    /\ interrupted \subseteq {c \in Closer : gathered[c] # {}}

Holders(j) == {w \in alive : wjob[w] = j}

\* No submission is forgotten: while a caller waits for a pending future, its
\* job is in the queue or in the hands of a worker that has not ended, through
\* every cancellation, close() and crash of a worker (lines 86-98, 100-148).
NothingForgotten ==
    \A j \in Job : fut[j] = "pending" => j \in queue \/ Holders(j) # {}

\* Every job task is awaited by exactly one worker, and a job in a worker's
\* hands is out of the queue: its outcome is collected once, and a worker
\* never ends while the task it created is still running (lines 111-130).
OneOwner ==
    \A j \in Job :
        /\ task[j] # "none" => \E w \in Worker : Holders(j) = {w}
        /\ task[j] = "none" => Holders(j) = {}
        /\ j \in queue => task[j] = "none" /\ j \notin begun

\* A caller that has been told of its cancellation leaves no work behind that
\* nobody stops: the job's task is over or has the cancellation on its way,
\* and the job is not going to start (lines 87-98).
NoOrphanWork ==
    \A j \in Job : caller[j] = "cancelled" =>
        /\ task[j] \in LiveTask => j \in tcancel
        /\ j \in queue => fut[j] = "cancelled"

\* A legacy awaitable that was closed is never awaited afterwards (that would
\* be a RuntimeError): its job has no task and none will be created.
ClosedNeverAwaited ==
    \A j \in Job : coro[j] = "closed" =>
        task[j] = "none" /\ j \notin begun /\ fut[j] = "cancelled"

\* At most Concurrency operations are under way (the class docstring,
\* line 24: "Bounded priority scheduler").
Running == {j \in Job : task[j] \in LiveTask}
ConcurrencyBound == Cardinality(Running) <= Concurrency

----------------------------------------------------------------------------
(* Steps                                                                   *)

\* A worker starts nothing while a submission that comes before it, by
\* priority and then by order of submission, waits with its caller.
PriorityRespected ==
    [][\A j \in begun' \ begun : \A k \in queue' :
          fut'[k] = "pending" =>
              prio[j] < prio[k] \/ (prio[j] = prio[k] /\ seq[j] < seq[k])]_vars

\* A job cancelled in the queue never starts.
CancelledNeverStarts ==
    [][\A j \in Job \ begun : fut[j] = "cancelled" => j \notin begun']_vars

\* A future is settled once (a second set_result would raise InvalidStateError
\* in the worker and end it).
SettledOnce == [][\A j \in Job : fut[j] \in Outcome => fut'[j] = fut[j]]_vars

\* A submission is cancelled by its own caller, by a close() under way or by a
\* CancelledError of its own operation; no caller's cancellation, and no such
\* operation, reaches the job of another through the worker they share or
\* otherwise (lines 87-98, 115-122).
CancelledOnRequest ==
    [][\A j \in Job : fut[j] = "pending" /\ fut'[j] = "cancelled" =>
          CallerCancel(j) \/ task[j] = "aborted" \/ \E c \in Closer : gathered[c] # {}]_vars

----------------------------------------------------------------------------
(* Liveness                                                                *)

\* Every submission is answered.
EverySubmissionAnswered == \A j \in Job : caller[j] = "waiting" ~> caller[j] \in Ended

\* Every close() returns.
CloseReturns == \A c \in Closer : gathered[c] # {} ~> gathered[c] = {}

----------------------------------------------------------------------------
(* The inductive invariant behind the safety properties.                   *)

\* Workers and tasks: a worker that holds a job is alive, no two hold the same
\* one, and a job is held exactly as long as its task has not been collected.
Ownership ==
    /\ \A w \in Worker : wjob[w] # NoJob => w \in alive /\ task[wjob[w]] # "none"
    /\ \A v, w \in Worker : wjob[v] = wjob[w] /\ wjob[v] # NoJob => v = w
    /\ \A j \in Job : task[j] # "none" => \E w \in Worker : wjob[w] = j

\* The queue holds jobs that have not started and are pending or cancelled; a
\* pending job that is not there is held.
Queueing ==
    /\ \A j \in queue : j \notin begun /\ fut[j] \in {"pending", "cancelled"}
    /\ \A j \in Job : fut[j] = "pending" => j \in queue \/ \E w \in Worker : wjob[w] = j

\* What the stages of a submission say of each other.
Stages ==
    /\ \A j \in Job : caller[j] = "idle" <=> fut[j] = "none"
    /\ \A j \in begun : fut[j] # "none"
    /\ \A j \in Job : task[j] # "none" => j \in begun
    /\ \A j \in Job : fut[j] \in {"result", "exception"} => j \in begun
    /\ \A j \in ccancel : fut[j] \in {"result", "exception"}
    /\ \A j \in Job : fut[j] # "none" => seq[j] < sequence

IInv ==
    /\ TypeOK
    /\ Ownership
    /\ Queueing
    /\ Stages
    /\ NoOrphanWork
    /\ ClosedNeverAwaited

\* While close() calls do not overlap, every live worker is in _workers, the
\* list is empty when the flag says so, and a close() under way waits for the
\* whole of it: start() cannot put a second pool beside the first.
PoolTracked ==
    /\ alive \subseteq workers
    /\ ~started => workers = {}
    /\ \A c \in Closer : gathered[c] # {} => started /\ gathered[c] = workers

----------------------------------------------------------------------------
(* Refinement                                                              *)

\* The scheduler keeps the promises of PriorityService: its waiting
\* submissions are the live entries of the queue, its running ones are those
\* whose task a worker holds.
Service == INSTANCE PriorityService WITH
    Bound   <- Concurrency,
    waiting <- Waiting,
    running <- {j \in Job : task[j] # "none"},
    rank    <- [j \in Job |-> <<prio[j], seq[j]>>],
    outcome <- fut

ServiceRefinement == Service!SvcSpec

============================================================================
