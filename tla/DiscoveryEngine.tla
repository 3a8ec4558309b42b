--------------------------- MODULE DiscoveryEngine --------------------------
(***************************************************************************)
(* DiscoveryEngine.detect of infrastructure/discovery/engine.py with the   *)
(* process-wide DiscoveryBudget of budget.py.                              *)
(*                                                                         *)
(* A detection takes a slot "total" and, under one deadline, probes TCP    *)
(* ports, then runs RTSP OPTIONS and HTTP probes at once, then, if those   *)
(* do not identify the device, RTSP DESCRIBE and ONVIF.  Each probe is a   *)
(* task that holds a slot of its class.  A task without a slot polls the   *)
(* semaphore every 5 ms; the semaphores know no queue.                     *)
(*                                                                         *)
(* The semaphores are shared by every engine, event loop and thread of the *)
(* process, so steps of any two detections interleave.                     *)
(***************************************************************************)
EXTENDS Integers, FiniteSets

CONSTANTS
    Detection,     \* the calls of detect()
    Port,          \* the TCP ports that are probed
    RtspPort,      \* those of RTSP_PORTS; the others are HTTP_PORTS
    OnvifPort,     \* the HTTP ports that are in ONVIF_PORTS
    Limit          \* the limits of the budget

Class == {"total", "tcp", "rtsp", "http", "onvif"}

ASSUME DetectionAssumption == IsFiniteSet(Detection) /\ IsFiniteSet(Port)
ASSUME PortAssumption ==
    /\ RtspPort \subseteq Port /\ OnvifPort \subseteq Port \ RtspPort
    /\ Port \cap {"options", "http_auth", "describe", "onvif_probe"} = {}
ASSUME LimitAssumption == Limit \in [Class -> Nat \ {0}]

\* The probe tasks of a detection, by the class of the slot they hold, for the
\* engine that bootstrap/probe.py builds: RTSP OPTIONS goes to one port only,
\* and both fallbacks are enabled.
Probes(c) ==
    [total |-> {},
     tcp   |-> Port,
     rtsp  |-> {"options", "describe"},
     http  |-> {"http_auth"},
     onvif |-> {"onvif_probe"}][c]
Probe == UNION {Probes(c) : c \in Class}

VARIABLES
    avail,     \* the values of the semaphores
    phase,     \* where a call of detect() stands
    probe,     \* its probe tasks
    open,      \* open_ports
    evidence,  \* the detections with some evidence of the vendor
    ending,    \* why a detection is torn down, or that its teardown was cut off
    status,    \* DetectResult.status, or "cancelled" for CancelledError
    asked,     \* the detections cancelled by the caller before the result was there
    threads,   \* the detections with an HTTP request in an executor thread
    inTask     \* asyncio.wait_for runs its coroutine in a task (before 3.12)

vars == <<avail, phase, probe, open, evidence, ending, status, asked, threads, inTask>>

Working == {"tcp", "first", "fallback", "finished"}   \* holds a slot "total"
Active  == {"polling", "inside"}
Unwinding == {"timeout", "cancelled"}
Reason  == {"no", "interrupted"} \cup Unwinding

Init ==
    /\ avail = Limit
    /\ phase = [d \in Detection |-> "idle"]
    /\ probe = [d \in Detection |-> [o \in Probe |-> "none"]]
    /\ open = [d \in Detection |-> {}]
    /\ evidence = {}
    /\ ending = [d \in Detection |-> "no"]
    /\ status = [d \in Detection |-> "none"]
    /\ asked = {} /\ threads = {}
    /\ inTask \in BOOLEAN

----------------------------------------------------------------------------
(* DiscoveryBudget.slot()                                                  *)

TakesTwo(c) == avail[c] > 0 /\ avail' = [avail EXCEPT ![c] = @ - 2]
Acquire(c) == avail[c] > 0 /\ avail' = [avail EXCEPT ![c] = @ - 1]
Release(c) == avail' = [avail EXCEPT ![c] = @ + 1]

----------------------------------------------------------------------------
(* A probe task                                                            *)

\* It leaves the polling loop with a slot; an HTTP probe sends its requests
\* from executor threads.
ProbeEnters(d, c, o) ==
    /\ probe[d][o] = "polling"
    /\ Acquire(c)
    /\ probe' = [probe EXCEPT ![d][o] = "inside"]
    /\ threads' = IF c = "http" THEN threads \cup {d} ELSE threads
    /\ UNCHANGED <<phase, open, evidence, ending, status, asked, inTask>>

\* It returns or raises, by a timeout at the latest, and gives the slot back.
ProbeEnds(d, c, o) ==
    /\ probe[d][o] = "inside"
    /\ Release(c)
    /\ probe' = [probe EXCEPT ![d][o] = "ended"]
    /\ \/ /\ c = "tcp"
          /\ open' = [open EXCEPT ![d] = @ \cup {o}]
          /\ UNCHANGED evidence
       \/ /\ c # "tcp"
          /\ evidence' = evidence \cup {d}
          /\ UNCHANGED open
       \/ UNCHANGED <<open, evidence>>
    /\ threads' = IF c = "http" THEN threads \ {d} ELSE threads
    /\ UNCHANGED <<phase, ending, status, asked, inTask>>

\* CancelledError in a probe task.  It does not stop a request that a thread
\* has begun.
KeepsSlot(d, c, o) == UNCHANGED avail
GivesBack(d, c, o) == IF probe[d][o] = "inside" THEN Release(c) ELSE UNCHANGED avail

ProbeCancelled(d, c, o) ==
    /\ ending[d] # "no"
    /\ probe[d][o] \in Active
    /\ GivesBack(d, c, o)
    /\ probe' = [probe EXCEPT ![d][o] = "cancelled"]
    /\ UNCHANGED <<phase, open, evidence, ending, status, asked, threads, inTask>>

\* The request in the thread has its answer, or its own timeout.
ThreadEnds(d) ==
    /\ d \in threads
    /\ probe[d]["http_auth"] # "inside"
    /\ threads' = threads \ {d}
    /\ UNCHANGED <<avail, phase, probe, open, evidence, ending, status, asked, inTask>>

----------------------------------------------------------------------------
(* detect() and _detect_internal()                                         *)

StartProbes(d, S) ==
    probe' = [probe EXCEPT ![d] = [o \in Probe |-> IF o \in S THEN "polling" ELSE @[o]]]

FirstProbes(d) ==
    (IF open[d] \cap RtspPort # {} THEN {"options"} ELSE {}) \cup
    (IF open[d] \ RtspPort # {} THEN {"http_auth"} ELSE {})

FallbackProbes(d) ==
    (IF open[d] \cap RtspPort # {} THEN {"describe"} ELSE {}) \cup
    (IF open[d] \cap OnvifPort # {} THEN {"onvif_probe"} ELSE {})

Detect(d) ==
    /\ phase[d] = "idle"
    /\ phase' = [phase EXCEPT ![d] = "waiting"]
    /\ UNCHANGED <<avail, probe, open, evidence, ending, status, asked, threads,
                   inTask>>

\* The slot "total"; the deadline starts here.
TakesTotal(d) ==
    /\ phase[d] = "waiting"
    /\ Acquire("total")
    /\ phase' = [phase EXCEPT ![d] = "tcp"]
    /\ StartProbes(d, Port)
    /\ UNCHANGED <<open, evidence, ending, status, asked, threads, inTask>>

\* gather() over the probes of the phase has returned.
AllEnded(d) == \A o \in Probe : probe[d][o] \notin Active

Finish(d, s) ==
    /\ phase' = [phase EXCEPT ![d] = "finished"]
    /\ status' = [status EXCEPT ![d] = s]
    /\ UNCHANGED probe

GoOn(d, ph, S) ==
    /\ phase' = [phase EXCEPT ![d] = ph]
    /\ StartProbes(d, S)
    /\ UNCHANGED status

\* _result_from_evidence() identifies the vendor, or raises.
Identifies(d) == d \in evidence /\ Finish(d, "ok")
Raises(d) == Finish(d, "error")

PhaseEnds(d) ==
    /\ ending[d] = "no" /\ AllEnded(d)
    /\ \/ /\ phase[d] = "tcp"
          /\ \/ open[d] = {} /\ Finish(d, "no_services")
             \/ open[d] # {} /\ GoOn(d, "first", FirstProbes(d))
       \/ /\ phase[d] = "first"
          /\ \/ Identifies(d) \/ Raises(d)
             \/ FallbackProbes(d) # {} /\ GoOn(d, "fallback", FallbackProbes(d))
             \/ FallbackProbes(d) = {} /\ Finish(d, "unknown")
       \/ /\ phase[d] = "fallback"
          /\ Identifies(d) \/ Raises(d) \/ Finish(d, "unknown")
    /\ UNCHANGED <<avail, open, evidence, ending, asked, threads, inTask>>

\* detect() resumes and returns what _detect_internal() did.
Returns(d) ==
    /\ phase[d] = "finished" /\ ending[d] = "no"
    /\ Release("total")
    /\ phase' = [phase EXCEPT ![d] = "over"]
    /\ UNCHANGED <<probe, open, evidence, ending, status, asked, threads, inTask>>

\* max_total_timeout.  With a task of its own a result that is there wins.
Interruptible(d) == phase[d] \in Working /\ (phase[d] = "finished" => ~inTask)

Deadline(d) ==
    /\ Interruptible(d)
    /\ ending[d] = "no"
    /\ ending' = [ending EXCEPT ![d] = "timeout"]
    /\ UNCHANGED <<avail, phase, probe, open, evidence, status, asked, threads, inTask>>

\* The exception leaves _detect_internal() when gather() has: with
\* return_exceptions that is when each probe has ended; the gather() of
\* tcp_probe_ports is left with the first one cancelled.
LeavesAtOnce(d) == TRUE
Unwound(d) ==
    \/ AllEnded(d)
    \/ phase[d] = "tcp" /\ \E p \in Port : probe[d][p] = "cancelled"

ForgetsTotal(d, s) ==
    /\ UNCHANGED avail
    /\ phase' = [phase EXCEPT ![d] = "over"]
    /\ status' = [status EXCEPT ![d] = s]
AlwaysTimeout(d, s) ==
    /\ Release("total")
    /\ phase' = [phase EXCEPT ![d] = "over"]
    /\ status' = [status EXCEPT ![d] = "timeout"]
Leaves(d, s) ==
    /\ Release("total")
    /\ phase' = [phase EXCEPT ![d] = "over"]
    /\ status' = [status EXCEPT ![d] = s]

TornDown(d) ==
    /\ phase[d] \in Working
    /\ ending[d] \in Unwinding
    /\ Unwound(d)
    /\ Leaves(d, ending[d])
    /\ UNCHANGED <<probe, open, evidence, ending, asked, threads, inTask>>

\* The caller of detect() is cancelled, any number of times: while it polls
\* for a slot; ...
CancelWaiting(d) ==
    /\ phase[d] = "waiting"
    /\ phase' = [phase EXCEPT ![d] = "over"]
    /\ status' = [status EXCEPT ![d] = "cancelled"]
    /\ UNCHANGED <<avail, ending>>

\* ... while the probes are torn down, for the deadline or for an earlier
\* cancellation: a wait_for with a task of its own then leaves that task to
\* itself and raises at once; ...
CancelTeardown(d) ==
    /\ phase[d] \in Working /\ ending[d] \in Unwinding /\ inTask
    /\ Leaves(d, "cancelled")
    /\ ending' = [ending EXCEPT ![d] = "interrupted"]

\* ... while it waits for the probes, or, from Python 3.12 on, for their end or
\* with the result at hand; ...
CancelWorking(d) ==
    /\ Interruptible(d)
    /\ ending[d] = "no" \/ ~inTask
    /\ ending' = [ending EXCEPT ![d] = "cancelled"]
    /\ UNCHANGED <<avail, phase, status>>

\* ... when the result is there, which a wait_for with a task of its own
\* returns: the cancellation is lost.
CancelIgnored(d) ==
    /\ phase[d] = "finished" /\ inTask
    /\ UNCHANGED <<avail, phase, ending, status, asked>>

Cancel(d) ==
    /\ \/ /\ CancelWaiting(d) \/ CancelTeardown(d) \/ CancelWorking(d)
          /\ asked' = asked \cup {d}
       \/ CancelIgnored(d)
    /\ UNCHANGED <<probe, open, evidence, threads, inTask>>

----------------------------------------------------------------------------
ProbeStep(d, c, o) ==
    ProbeEnters(d, c, o) \/ ProbeEnds(d, c, o) \/ ProbeCancelled(d, c, o)

CallStep(d) == TakesTotal(d) \/ PhaseEnds(d) \/ Returns(d) \/ TornDown(d)

Finished == (\A d \in Detection : phase[d] = "over") /\ UNCHANGED vars

Next ==
    \/ \E d \in Detection :
          \/ \E c \in Class : \E o \in Probes(c) : ProbeStep(d, c, o)
          \/ CallStep(d) \/ Detect(d) \/ Deadline(d) \/ Cancel(d) \/ ThreadEnds(d)
    \/ Finished

Spec == Init /\ [][Next]_vars

\* Event loops run what is ready; a task that polls comes back; a probe has
\* a timeout.  The deadline itself need not come.
Fairness ==
    \A d \in Detection :
        /\ \A c \in Class : \A o \in Probes(c) : WF_vars(ProbeStep(d, c, o))
        /\ WF_vars(CallStep(d)) /\ WF_vars(ThreadEnds(d))

FairSpec == Spec /\ Fairness

----------------------------------------------------------------------------
(* Properties                                                              *)

\* The type invariant.
TypeOK ==
    /\ avail \in [Class -> Nat]
    /\ phase \in [Detection -> {"idle", "waiting", "over"} \cup Working]
    /\ probe \in [Detection -> [Probe -> {"none", "ended", "cancelled"} \cup Active]]
    /\ open \in [Detection -> SUBSET Port]
    /\ evidence \subseteq Detection
    /\ ending \in [Detection -> Reason]
    /\ status \in [Detection -> {"none", "ok", "unknown", "no_services", "error",
                                 "timeout", "cancelled"}]
    /\ asked \subseteq Detection /\ threads \subseteq Detection
    /\ inTask \in BOOLEAN

\* Who holds a slot of class c.
Holders(c) ==
    IF c = "total" THEN {d \in Detection : phase[d] \in Working}
    ELSE {x \in Detection \X Probes(c) : probe[x[1]][x[2]] = "inside"}

\* Slots are neither lost nor made (a release too many is a ValueError of
\* BoundedSemaphore), whatever the deadline and the callers interrupt; so a
\* class never has more holders than its limit (budget.py, lines 43-51).
SlotsConserved == \A c \in Class : avail[c] + Cardinality(Holders(c)) = Limit[c]

\* A protocol probe works under the slot "total" of its detection: it does not
\* outlive the call, so the limit on detections limits the load of probes
\* (engine.py, lines 43-44, 68, 80).  Before Python 3.12 it may, but only if a
\* teardown is cut off by a further cancellation: then "total" is given back
\* under the probes.
ProbesUnderTotal ==
    /\ \A d \in Detection : phase[d] = "over" /\ ending[d] # "interrupted" =>
          \A o \in Probe \ Port : probe[d][o] # "inside"
    /\ ~inTask => \A d \in Detection : ending[d] # "interrupted"

\* A caller that is cancelled before the result of its call is there gets
\* CancelledError, never a DetectResult, whatever the deadline and further
\* cancellations do (README, line 206; engine.py, lines 47-48).
CancelledIsTold ==
    \A d \in asked : phase[d] = "over" => status[d] = "cancelled"

\* Every call of detect() ends, whatever the limits: nothing that holds a slot
\* waits for ever for one of another class (engine.py, lines 43-86).
EveryCallEnds == \A d \in Detection : phase[d] = "waiting" ~> phase[d] = "over"

============================================================================
