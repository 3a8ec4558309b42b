----------------------------- MODULE EventLoops -----------------------------
(***************************************************************************)
(* The scheduler in a program that runs one event loop after another.      *)
(*                                                                         *)
(* api.py builds one application graph when it is imported and bootstrap/  *)
(* probe.py puts one ProbeScheduler in it; nothing in the package calls    *)
(* close().  Each asyncio.run() brings a loop of its own and ends by       *)
(* cancelling every task of that loop.  The scheduler object, its          *)
(* _started flag, its list of workers and its queue outlive the loop; and  *)
(* an asyncio queue belongs to the loop in which a get() first waited.     *)
(***************************************************************************)
EXTENDS ProbeScheduler

CONSTANT MaxLoops      \* bound: how many loops end

ASSUME LoopsAssumption == MaxLoops \in Nat

VARIABLES
    loops,     \* the loops that have ended
    exiting,   \* asyncio.run() is cancelling the tasks of the current loop
    foreign,   \* self._workers are tasks of a loop that is closed
    home       \* the loop that self._queue belongs to, if any

loopVars == <<loops, exiting, foreign, home>>
allVars  == <<vars, loopVars>>

LoopInit == Init /\ loops = 0 /\ exiting = FALSE /\ foreign = FALSE /\ home = {}

\* queue.get() of an empty queue waits, and binds the queue to the loop; in any
\* other loop it raises RuntimeError, which ends the worker.
WaitsInGet == {w \in alive : InGet(w) /\ w \notin wthrow /\ queue = {}}
AtHome     == home \subseteq {loops}
MustRaise  == IF AtHome THEN {} ELSE WaitsInGet

GetRaises(w) ==
    /\ w \in MustRaise
    /\ alive' = alive \ {w}
    /\ wcancel' = wcancel \ {w}
    /\ UNCHANGED <<started, workers, wjob, wthrow, jobs, clients, loopVars>>

\* The coroutine given to asyncio.run() is over: every task of the loop is
\* cancelled, workers, job tasks, callers and closers alike.
LoopShutdown ==
    /\ ~exiting /\ MustRaise = {}
    /\ loops < MaxLoops
    /\ exiting' = TRUE
    /\ wcancel' = alive
    /\ wthrow' = wthrow \cup {w \in alive : wjob[w] = NoJob \/ ~TaskIsLive(wjob[w])}
    /\ tcancel' = {j \in Job : TaskIsLive(j)}
    /\ fut' = [j \in Job |-> IF fut[j] = "pending" THEN "cancelled" ELSE fut[j]]
    /\ ccancel' = ccancel \cup {j \in Job : /\ caller[j] = "waiting"
                                         /\ fut[j] \in {"result", "exception"}}
    /\ interrupted' = {c \in Closer : gathered[c] # {}}
    /\ UNCHANGED <<started, workers, alive, wjob, queue, sequence, prio, seq, begun,
                   task, coro, caller, gathered, loops, foreign, home>>

\* All of them have ended and the loop is closed.
LoopExits ==
    /\ exiting
    /\ alive = {} /\ interrupted = {}
    /\ \A j \in Job : caller[j] # "waiting" /\ task[j] = "none"
    /\ exiting' = FALSE
    /\ loops' = loops + 1
    /\ foreign' = (workers # {})
    /\ UNCHANGED <<vars, home>>

\* While the loop runs.  close() on the workers of a closed loop forgets them
\* (they are done); before Python 3.12 gather() fails there instead, "Event
\* loop is closed", and nothing has changed.
InLoop ==
    /\ ~exiting /\ MustRaise = {}
    /\ \/ \E j \in Job : ClientStep(j) \/ TaskStep(j)
       \/ \E w \in Worker : WorkerStep(w)
       \/ \E c \in Closer : CloserStep(c)
       \/ Finished
    /\ foreign' = (foreign /\ workers' # {})
    /\ home' = IF home = {} /\ WaitsInGet' # {} THEN {loops} ELSE home
    /\ UNCHANGED <<loops, exiting>>

\* While it exits.
InExit ==
    /\ exiting
    /\ \/ \E j \in Job : CallerReturns(j) \/ CallerHandles(j) \/ TaskStep(j)
       \/ \E w \in Worker : WorkerStep(w)
       \/ \E c \in Closer : CloseAborts(c)
    /\ UNCHANGED loopVars

LoopNext ==
    LoopShutdown \/ LoopExits \/ InLoop \/ InExit \/ \E w \in Worker : GetRaises(w)

LoopFairness ==
    /\ \A j \in Job :
         /\ WF_allVars((CallerReturns(j) \/ CallerHandles(j)) /\ (InLoop \/ InExit))
         /\ WF_allVars(TaskStep(j) /\ (InLoop \/ InExit))
    /\ \A w \in Worker :
         WF_allVars((WorkerStep(w) /\ (InLoop \/ InExit)) \/ GetRaises(w))
    /\ \A c \in Closer : WF_allVars((CloseEnds(c) \/ CloseAborts(c)) /\ (InLoop \/ InExit))
    /\ WF_allVars(LoopExits)

LoopSpec == LoopInit /\ [][LoopNext]_allVars /\ LoopFairness

----------------------------------------------------------------------------
\* asyncio.run() returns: no worker and no job outlives the cancellation of
\* its task.
ExitCompletes == exiting ~> ~exiting

\* A submission is answered in the loop that the pool and the queue belong to
\* (lines 38-44, 102).  Of the pool alone that would be false: a close() before
\* the end of a loop frees the scheduler of its workers, but not of its queue.
AnsweredInOwnLoop ==
    \A j \in Job : (caller[j] = "waiting" /\ ~foreign /\ AtHome) ~> caller[j] \in Ended

\* A submission is answered in any event loop (README, "Process-wide
\* concurrency budget" and "Защита от гонок": the graph is shared by all of
\* them).
AnsweredInAnyLoop == \A j \in Job : caller[j] = "waiting" ~> caller[j] \in Ended

============================================================================
