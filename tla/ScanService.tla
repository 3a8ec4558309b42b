----------------------------- MODULE ScanService ----------------------------
(***************************************************************************)
(* The CIDR scanner of application/services/scan_service.py.               *)
(*                                                                         *)
(* scan() is an asynchronous generator: it starts concurrency workers that *)
(* take addresses from one iterator, probe them and put the results in a   *)
(* bounded queue, and it yields what a task of its own, get_result, takes  *)
(* from that queue.  An action is the code between two suspensions.        *)
(*                                                                         *)
(* A yield hands control to the consumer.  A consumer that awaits nothing  *)
(* before it asks for the next result leaves no other task a chance to     *)
(* run; one that awaits lets workers and get_result go on while the        *)
(* generator stands at the yield.                                          *)
(***************************************************************************)
EXTENDS Integers, Sequences, FiniteSets

CONSTANTS
    Worker,            \* the worker tasks, one per unit of request.concurrency
    NHosts,            \* the size of the network
    NoHost

Host == 1 .. NHosts
Concurrency == Cardinality(Worker)
Capacity == 2 * Concurrency

ASSUME WorkerAssumption == IsFiniteSet(Worker) /\ Worker # {}
ASSUME HostAssumption == NHosts \in Nat /\ NoHost \notin Host

VARIABLES
    next,       \* the address the iterator gives next
    wstate,     \* where a worker task stands
    whost,      \* its address
    kill,       \* the workers with a cancellation on its way
    rqueue,     \* result_queue
    get, item,  \* the state of the task get_result, and its result
    mstate,     \* where the generator stands
    mworkers,   \* the generator's list "workers"
    waitset,    \* the workers in wait_set
    seen,       \* the workers in "done"
    out,        \* how often an address has been yielded
    broken,     \* the generator left its loop by an exception
    suspends    \* the consumer awaits something between two results

workerVars == <<next, wstate, whost, kill>>
getVars    == <<get, item>>
mainVars   == <<mstate, mworkers, waitset, seen, out, broken>>
vars       == <<workerVars, rqueue, getVars, mainVars, suspends>>

Over    == {"returned", "cancelled"}   \* task.done()
AtYield == {"yielded", "draining"}
Final   == {"ended", "interrupted"}    \* of the generator

Init ==
    /\ next = 1
    /\ wstate = [w \in Worker |-> "new"]
    /\ whost = [w \in Worker |-> NoHost]
    /\ kill = {}
    /\ rqueue = <<>>
    /\ get = "getting" /\ item = NoHost
    /\ mstate = "idle" /\ mworkers = Worker /\ waitset = {} /\ seen = {}
    /\ out = [h \in Host |-> 0] /\ broken = FALSE
    /\ suspends \in BOOLEAN

\* Another task can run: the generator has started, and a consumer that does
\* not suspend is not in control.
OthersRun == mstate # "idle" /\ (suspends \/ mstate \notin AtYield)

----------------------------------------------------------------------------
(* worker()                                                                *)

\* next_ip().  Its lock is never held across a suspension.
Fetch(w) ==
    \/ /\ next <= NHosts
       /\ whost' = [whost EXCEPT ![w] = next]
       /\ wstate' = [wstate EXCEPT ![w] = "probing"]
       /\ next' = next + 1
    \/ /\ next > NHosts
       /\ whost' = [whost EXCEPT ![w] = NoHost]
       /\ wstate' = [wstate EXCEPT ![w] = "returned"]
       /\ UNCHANGED next

\* result_queue.put(): without room the worker waits there.
HasRoomUnbounded == TRUE
HasRoom == Len(rqueue) < Capacity

Put(w) ==
    \/ /\ HasRoom
       /\ rqueue' = Append(rqueue, whost[w])
       /\ Fetch(w)
    \/ /\ ~HasRoom
       /\ wstate' = [wstate EXCEPT ![w] = "putting"]
       /\ UNCHANGED <<rqueue, next, whost>>

Starts(w) ==
    /\ OthersRun
    /\ wstate[w] = "new" /\ w \notin kill
    /\ Fetch(w)
    /\ UNCHANGED <<kill, rqueue, getVars, mainVars, suspends>>

\* The probe returned a result or raised (the exception becomes a result), and
\* the callback, if there is one, is over (its exceptions are ignored): a
\* worker that waits for either is "probing".
ProbeEnds(w) ==
    /\ OthersRun
    /\ wstate[w] = "probing" /\ w \notin kill
    /\ Put(w)
    /\ UNCHANGED <<kill, getVars, mainVars, suspends>>

PutResumes(w) ==
    /\ OthersRun
    /\ wstate[w] = "putting" /\ w \notin kill
    /\ HasRoom
    /\ Put(w)
    /\ UNCHANGED <<kill, getVars, mainVars, suspends>>

\* CancelledError: sent by the teardown, or coming out of the probe when its
\* scheduler was closed.
WorkerCancelled(w) ==
    /\ OthersRun
    /\ \/ wstate[w] \notin Over /\ w \in kill
       \/ wstate[w] = "probing"
    /\ wstate' = [wstate EXCEPT ![w] = "cancelled"]
    /\ whost' = [whost EXCEPT ![w] = NoHost]
    /\ kill' = kill \ {w}
    /\ UNCHANGED <<next, rqueue, getVars, mainVars, suspends>>

----------------------------------------------------------------------------
(* get_result                                                              *)

\* A get_result that the teardown has cancelled takes nothing any more.
GetTakes ==
    /\ OthersRun /\ mstate # "closing"
    /\ get = "getting" /\ rqueue # <<>>
    /\ item' = Head(rqueue)
    /\ rqueue' = Tail(rqueue)
    /\ get' = "done"
    /\ UNCHANGED <<workerVars, mainVars, suspends>>

----------------------------------------------------------------------------
(* The generator                                                           *)

Yield(h) == out' = [out EXCEPT ![h] = @ + 1]

Begins ==
    /\ mstate = "idle"
    /\ mstate' = "waiting"
    /\ waitset' = Worker
    /\ UNCHANGED <<workerVars, rqueue, getVars, mworkers, seen, out, broken, suspends>>

\* Results that no get_result took are left when the last worker has gone.
NothingIsLeft == FALSE
ResultsAreLeft == rqueue # <<>>

\* From line 108 to the next suspension, with the workers D in "done".
Turn(D) ==
    LET left == mworkers \ D
    IN  /\ mworkers' = left
        /\ \/ /\ \E w \in D : wstate[w] = "cancelled"  \* task.result() raises
              /\ mstate' = "closing" /\ broken' = TRUE
              /\ UNCHANGED <<rqueue, out, waitset>>
           \/ /\ \A w \in D : wstate[w] # "cancelled"
              /\ UNCHANGED broken
              /\ \/ /\ left = {} /\ ResultsAreLeft
                    /\ Yield(Head(rqueue))
                    /\ rqueue' = Tail(rqueue)
                    /\ mstate' = "draining"
                    /\ UNCHANGED waitset
                 \/ /\ left = {} /\ ~ResultsAreLeft
                    /\ mstate' = "closing"
                    /\ UNCHANGED <<rqueue, out, waitset>>
                 \/ /\ left # {}
                    /\ mstate' = "waiting"
                    /\ waitset' = {w \in left : wstate[w] \notin Over}
                    /\ UNCHANGED <<rqueue, out>>

\* asyncio.wait() returns.
DoneInOrder == {w \in waitset : wstate[w] = "returned"}
Done == {w \in waitset : wstate[w] \in Over}

WaitReturnsResult ==
    /\ mstate = "waiting"
    /\ get = "done"
    /\ Yield(item)
    /\ seen' = Done
    /\ mstate' = "yielded"
    /\ UNCHANGED <<workerVars, rqueue, getVars, mworkers, waitset, broken, suspends>>

WaitReturnsWorkers ==
    /\ mstate = "waiting"
    /\ get # "done" /\ Done # {}
    /\ Turn(Done)
    /\ UNCHANGED <<workerVars, getVars, seen, suspends>>

\* The consumer asks for the next result while the generator is at line 105.
SameGet == UNCHANGED getVars
NewGet == get' = "getting" /\ item' = NoHost

ResumesLoop ==
    /\ mstate = "yielded"
    /\ NewGet
    /\ Turn(seen)
    /\ seen' = {}
    /\ UNCHANGED <<workerVars, suspends>>

\* ... at line 115.
ResumesDrain ==
    /\ mstate = "draining"
    /\ \/ /\ rqueue # <<>>
          /\ Yield(Head(rqueue))
          /\ rqueue' = Tail(rqueue)
          /\ UNCHANGED mstate
       \/ /\ rqueue = <<>>
          /\ mstate' = "closing"
          /\ UNCHANGED <<rqueue, out>>
    /\ UNCHANGED <<workerVars, getVars, mworkers, waitset, seen, broken, suspends>>

\* The consumer closes the generator at a yield, or is cancelled in its wait.
Abandons ==
    /\ mstate \in AtYield \cup {"waiting"}
    /\ mstate' = "closing" /\ broken' = TRUE
    /\ UNCHANGED <<workerVars, rqueue, getVars, mworkers, waitset, seen, out, suspends>>

\* The workers the teardown cancels, and the end of its gather().
ForgetsBlocked == {w \in mworkers : wstate[w] \in {"new", "probing"}}
ToStop == {w \in mworkers : wstate[w] \notin Over}

DoesNotGather == TRUE
WorkersGathered == \A w \in mworkers : wstate[w] \in Over

\* The finally block.  "closing": the generator waits at line 122 for the
\* get_result it has cancelled (or, without workers, at line 117, from where a
\* cancellation leads to line 122 as well).  Then it cancels the workers.
CancelsGet == get' = IF get = "getting" THEN "cancelled" ELSE get

ClosesGet ==
    /\ mstate = "closing"
    /\ CancelsGet
    /\ kill' = kill \cup ToStop
    /\ mstate' = "gathering"
    /\ UNCHANGED <<next, wstate, whost, rqueue, item, mworkers, waitset, seen, out,
                   broken, suspends>>

\* A cancellation, of the consumer or of its aclose(), that arrives at line 122
\* is raised there: lines 123-126 are skipped.
Interrupted ==
    /\ mstate = "closing"
    /\ CancelsGet
    /\ mstate' = "interrupted" /\ broken' = TRUE
    /\ UNCHANGED <<workerVars, rqueue, item, mworkers, waitset, seen, out, suspends>>

\* One that arrives at line 126 is passed on to the workers, whose end gather()
\* waits for all the same.
Ends ==
    /\ mstate = "gathering"
    /\ WorkersGathered
    /\ mstate' = "ended"
    /\ UNCHANGED <<workerVars, rqueue, getVars, mworkers, waitset, seen, out, broken, suspends>>

----------------------------------------------------------------------------
WorkerStep(w) ==
    Starts(w) \/ ProbeEnds(w) \/ PutResumes(w) \/ WorkerCancelled(w)

MainStep == WaitReturnsResult \/ WaitReturnsWorkers \/ ClosesGet \/ Ends

Consumes == ResumesLoop \/ ResumesDrain

Finished == mstate \in Final /\ UNCHANGED vars

Next ==
    \/ \E w \in Worker : WorkerStep(w)
    \/ GetTakes \/ Begins \/ MainStep \/ Consumes \/ Abandons \/ Interrupted
    \/ Finished

Spec == Init /\ [][Next]_vars

\* The event loop runs every task that is ready, every probe and callback
\* ends, and the consumer comes back for the next result.
Fairness ==
    /\ \A w \in Worker : WF_vars(WorkerStep(w))
    /\ WF_vars(GetTakes) /\ WF_vars(MainStep) /\ WF_vars(Consumes)

FairSpec == Spec /\ Fairness

----------------------------------------------------------------------------
(* Properties                                                              *)

\* The type invariant, with the bound of result_queue (line 42).
TypeOK ==
    /\ next \in 1 .. NHosts + 1
    /\ wstate \in [Worker -> {"new", "probing", "putting"} \cup Over]
    /\ whost \in [Worker -> Host \cup {NoHost}]
    /\ kill \subseteq Worker
    /\ rqueue \in Seq(Host) /\ Len(rqueue) <= Capacity
    /\ get \in {"getting", "done", "cancelled"} /\ item \in Host \cup {NoHost}
    /\ mstate \in {"idle", "waiting", "closing", "gathering"} \cup AtYield \cup Final
    /\ mworkers \subseteq Worker /\ waitset \subseteq Worker /\ seen \subseteq Worker
    /\ out \in [Host -> Nat]
    /\ broken \in BOOLEAN /\ suspends \in BOOLEAN

InQueue == {rqueue[i] : i \in DOMAIN rqueue}
Yielded == {h \in Host : out[h] > 0}
InGet   == IF mstate \in {"waiting", "draining"} THEN {item} \ {NoHost} ELSE {}
InHand  == {whost[w] : w \in Worker} \ {NoHost}

\* No address is yielded twice, and none is at two places on its way from a
\* worker through the queue and get_result to the consumer (lines 88, 94-118).
AtMostOnce ==
    /\ \A h \in Host : out[h] <= 1
    /\ Cardinality(InQueue) = Len(rqueue)
    /\ InQueue \cap Yielded = {} /\ InHand \cap (InQueue \cup Yielded) = {}
    /\ InGet \cap (InHand \cup InQueue \cup Yielded) = {}
    /\ \A v, w \in Worker : v # w /\ whost[v] # NoHost => whost[v] # whost[w]

\* Back-pressure (line 22, "Output is back-pressured"): however slow the
\* consumer, at most 3 * concurrency + 1 addresses have been taken from the
\* iterator and not been yielded, as long as no worker was cancelled.
BackPressure ==
    ~broken /\ (\A w \in Worker : wstate[w] # "cancelled") =>
        (next - 1) - Cardinality(Yielded) <= 3 * Concurrency + 1

\* A scan that nobody interrupted yields every address of the network, those
\* of failed probes included (lines 21-24, 68-75, 113-115).  With a consumer
\* that suspends it may lose one, the one in the hands of get_result.
Complete == mstate = "ended" /\ ~broken
AllButOneReturned ==
    Complete => Host \ Yielded \subseteq (IF suspends THEN {item} ELSE {})

\* The generator that comes to the end of its finally block leaves no task of
\* its own behind, and one that is interrupted there at most workers that had
\* not ended, never get_result (lines 119-126).
NothingLeftRunning ==
    /\ mstate = "ended" => \A w \in Worker : wstate[w] \in Over
    /\ mstate \in Final => get # "getting"
    /\ mstate = "interrupted" => \A w \in Worker : wstate[w] \in Over \/ w \in mworkers

\* "cancellation always tears down workers" (lines 22-24): once the generator
\* is over, a worker has ended or been cancelled, whenever the consumer was.
CancellationTearsDown ==
    mstate \in Final => \A w \in Worker : wstate[w] \in Over \/ w \in kill

\* A scan ends (lines 97-118), whatever the consumer does between two results.
ScanEnds == mstate = "waiting" ~> mstate \in Final

\* It does if the consumer does not suspend there.
PromptScanEnds == mstate = "waiting" /\ ~suspends ~> mstate \in Final

\* Once it is abandoned or broken it is torn down (lines 119-126).
TearsDown == mstate = "closing" ~> mstate \in Final
============================================================================
