# camera-probe in TLA+

A verification development for the Python package `camera_probe`
(`src/src/camera_probe/`): TLA+ modules of the scheduler, the scanner, discovery,
the protocol probes, the HTTP client and the probe service, TLC configurations that
check them on small instances, and proofs that TLAPS checks for every value of the
constants. Paths below are relative to `src/src/camera_probe/` unless they begin
with `src/`.

## 1. Inventory

| Component | State it keeps | Operations | Hard behaviour |
|---|---|---|---|
| Priority scheduler, `application/services/probe_scheduler.py` | `_started`, `_workers`, `_queue`, `_sequence`; per job: future, task, `started`, legacy awaitable | `start`, `submit`, `_worker`, `close` | a caller, a job task and a worker may each be cancelled at any suspension; `close` against `submit`, `close` against `close` |
| CIDR scanner, `application/services/scan_service.py` | address iterator, bounded result queue, worker tasks, a `get_result` task, the generator's own lists | `scan` (an asynchronous generator) | a consumer that is slow, leaves, or is cancelled; a probe that ends in `CancelledError` |
| Event loops and application graph, `api.py`, `bootstrap/` | one scheduler, engine and service for the process | `probe`, `scan` | state that outlives the event loop it was made in |
| Discovery engine and budget, `infrastructure/discovery/engine.py`, `budget.py`, `tcp.py` | five semaphores for the process; per call: phase, probe tasks, evidence, deadline | `detect`, `slot`, `tcp_probe_ports` | deadline and cancellation while probes run; slots of four classes taken under a fifth; threads that do not stop |
| Protocol probes, `infrastructure/discovery/{http,onvif,onvif_device,rtsp,rtsp_describe}.py` | sockets and retries of one call | HTTP, RTSP OPTIONS and DESCRIBE, ONVIF multicast and unicast | answers that are lost, cut or read one request late; fallbacks after an error or a timeout |
| SDP parser, `infrastructure/sdp/` | none | parsing, vendor markers | lines before and after the first media line |
| Fingerprints and heuristics, `infrastructure/fingerprints/` | an ordered list of fingerprints | matching, scoring | the first match wins, whatever its confidence |
| HTTP client, `infrastructure/http/client.py` | base URL with two lifetimes, an asyncio lock, a session under a threading lock | `get_base_url`, `request`, `set_auth`, `close` | concurrent callers of a cache; a request in a thread that outlives its caller |
| Probe service, `application/services/probe_service.py` | none of its own | `probe`: force first, discovery, adapter, force again | one step of several fails |
| Adapters and force probe, `infrastructure/adapters/` | a registry; per probe a client and what was fetched | `probe` of each vendor, of all in turn | a request or an extractor raises half way |
| Vendor clients, `clients/` | the HTTP client and its base URL | vendor requests | endpoints tried in turn |
| Device and network extractors, `infrastructure/{device,network,extractor}/` | registries filled at import | extraction | which of several interfaces is meant |
| CLI, logging, serialisation, domain models | none | formatting, data classes | none |

How they interact: `api.probe` awaits `ProbeService.probe`, which hands the work
to the scheduler; the scheduler's workers run discoveries of the engine, each
under a slot of the budget, and adapters that use the clients. `api.scan`
iterates over the scanner, whose workers call the same service. All of that runs
in whatever event loop the program has at the time; the semaphores of the budget
are `threading` semaphores and are shared by all loops and threads. HTTP requests
run in executor threads.

What makes each one correct:

* Scheduler: a submission gets exactly one outcome and always gets one; the
  order is (priority, arrival); no more than `concurrency` operations run; a
  cancelled caller leaves no work behind; nobody else's cancellation reaches a
  submission; a legacy awaitable is awaited or closed, never both; `close` returns.
* Scanner: every address once, bounded memory, a scan ends, nothing is left
  running, whenever the consumer is cancelled.
* Engine: slots are conserved, a probe runs under its detection's slot, every
  call ends, a cancellation reaches the caller.
* Protocol probes and fingerprints: no vendor is invented; credentials go where they
  are asked for; the answer does not depend on the order in which probes end; the
  fallbacks find what the first probes miss.
* HTTP client: one search serves all callers; a search is exhaustive; "not found"
  is said only of a device that was searched for in vain; `close` is not held up.
* Probe service: the answer is the best result there is; a confidence is earned;
  a part that fails takes nothing with it; every client is closed.

## 2. What is modelled

| Module | Models | Used by |
|---|---|---|
| `ProbeScheduler` | the whole of `probe_scheduler.py` | `EventLoops`, the scheduler's runs and proofs |
| `PriorityService` | what a caller of the scheduler may rely on: the abstract specification | `ProbeScheduler` (`Service == INSTANCE ...`) |
| `EventLoops` | the scheduler of the process in one `asyncio.run` after another; extends `ProbeScheduler` | `Loops*` |
| `ScanService` | the whole of `scan_service.py` | `Scan*` |
| `DiscoveryEngine` | `detect`, `_detect_internal`, the budget, the port scan and the probe tasks: slots, deadline, cancellation | `Detect` |
| `ProtocolProbes` | the same stages with what each probe sends, receives and finds: OPTIONS, DESCRIBE, both HTTP waves, ONVIF | `Identify` |
| `Sdp` | `parse_sdp.py` and both functions that collect vendor markers | `ProtocolProbes` |
| `Fingerprints` | all fingerprints, the registry, the heuristic score, `_result_from_evidence` | `ProtocolProbes` |
| `HttpClient` | one `HttpClient` as the vendor clients use it: cache, lock, search, request thread, `close` | `Http` |
| `Extractors` | aliases, the device and network extractors, the choice of an interface | `ProbeService` |
| `ProbeService` | `ProbeService.probe` with both vendor adapters and the force probe | `Probe`, `ProbePartial` |
| `MC*` | model values and constants for TLC | the runs |
| `*Proofs` | the theorems, see 4 | |

**Grain.** asyncio runs one coroutine at a time, so an action is the code between
two points where a coroutine really suspends. `queue.put` of the scheduler never
suspends (the queue is unbounded) and `queue.get` does not while something is in
the queue; so a worker that finishes a job and takes the next does both in one
action (`WorkerContinues`), the entries it skips included (`Passed`).

**`ProbeScheduler`.** `started`, `workers`, `queue`, `sequence` are the fields of
the class; `prio`, `seq`, `begun`, `fut`, `task`, `coro` those of a `_Job`. The
rest is asyncio's: `alive` and `wjob` are worker tasks and what they await,
`wcancel` is `Task.cancelling() > 0`, `wthrow`, `tcancel` and `ccancel` are
cancellations that have been requested and will be delivered at the next step.
`worker.cancel()` follows asyncio: a worker that awaits a live task passes the
cancellation on to it, any other is interrupted itself (`CancelWorkers`). A task may
end `"aborted"`: in a CancelledError that nobody asked for, the third of the reasons
in the comment at lines 117-122; its caller gets `cancelled` like the others. A caller
of `close` that is cancelled in its `gather` (`CloseInterrupted`, any number of times)
cancels the workers once more and still waits for them (`interrupted`); only then it
leaves with its cleanup undone (`CloseAborts`). The queue is a set of jobs ordered by
`Before`. Four facts of the environment are
constants: `HasCancelling` (Python 3.11 and later), `MaySuppress` (an operation
may complete although it was cancelled; `asyncio.wait_for` before Python 3.12
does), `Impatient` (callers of `close` that may be cancelled), `Legacy` (which of
factory and awaitable `submit` is given). `queue.task_done()` is left out: nothing
joins the queue.

**`PriorityService`** knows a set that waits, a set that runs and an outcome per
submission: accept, advance (end some, take the best that waits), withdraw. The
refinement mapping is in `ProbeScheduler`: waiting = queued and not cancelled,
running = has a task.

**`EventLoops`** adds four variables: whether the loop is ending, how many have
ended (bounded by `MaxLoops`), whether the workers in the list belong to a closed
loop, and the loop that the queue is bound to. The end of a loop cancels all tasks,
waits for them and closes; a `close` under way is such a task and aborts. A worker
whose `get` would wait in a loop that is not the queue's own ends with RuntimeError;
as that happens in the step that brings it to `get`, no other step comes in between
(`MustRaise = {}` in their guards). The module has one loop at a time; loops of
several threads at once are not modelled.

**`ScanService`.** The iterator is a counter, the queue a sequence of addresses.
The generator's position (`mstate`) distinguishes the yield in the loop from the
yield in the final drain. `suspends`, chosen in `Init`, says whether the consumer
awaits something between two results: without it no other task runs while the
generator stands at a yield (`OthersRun`). A result stands for a success or a
failed probe: both are yielded. A worker is `"probing"` until its callback, which
it awaits after the probe and whose exceptions it ignores, is over. `broken` records
that the generator left its loop by an exception: such a scan need not be complete.
The teardown is three awaits long and can be cancelled like any other wait. At line 122
(`mstate = "closing"`) a cancellation leaves the `finally` block there and then
(`Interrupted`), with the workers as they are; at line 126 (`"gathering"`) it is passed on
to the workers, all cancelled already, for whose end `gather` waits all the same.
Whether `gather` of a `get_result` that is already done suspends at line 122 depends on
the version of Python; the model lets it.

**`DiscoveryEngine`.** `avail` holds the semaphores' values, `phase` the position
of a call, `probe` its tasks. A task without a slot is `"polling"`; taking a slot
is a step that needs `avail > 0`. What a probe found is one of: an open port,
evidence of the vendor, or nothing. `inTask`, chosen in `Init`, says which
`asyncio.wait_for` runs: that of Python 3.10/3.11 runs its coroutine in a task, that
of 3.12 does not: they differ when a caller is cancelled during the teardown or when
the result is already there. A caller may be cancelled any number of times (its own
caller, then `close`); `ending` says why a call is being torn down, `"interrupted"` that
a cancellation cut the teardown itself off, and `asked` which callers were cancelled
before the result was there. The engine is the one `bootstrap/probe.py` builds: one
port gets RTSP OPTIONS, and both fallbacks are enabled. The limits of the
executor's own thread pool and of `requests` are not modelled.

**`ProtocolProbes`** is the same call seen from the evidence. A device is a record
of what it would answer; every wait may end in an error or a timeout instead, and
`lost` remembers that it did. A TCP read returns any beginning of what was sent
(`rtsp_describe.py` takes one read for the whole answer; the rest is read as the
answer to the next request), and the first datagram of the multicast may be
another camera's (`stranger`). `timeout` decides, in tenths of a second, whether
the engine's own `wait_for` or the probe's 2.0 s ends a silent multicast. Slots,
cancellation and the teardown are `DiscoveryEngine`'s; the two modules share the
stages and the conditions between them, and neither needs the other's data: the
promise `ProtocolProbes` relies on is that a probe runs at most once per stage and
that the stage waits for all of its probes. The contents of digests and of SOAP
bodies are not modelled: good credentials convince, bad ones do not.

**`Sdp` and `Fingerprints`** are functions. A text is what the code can tell apart
in it: of a line its key and what its value is about; of a header or a model name
the set of words that some test looks for. `ParseSdp` is a recursive function of the
number of lines, and `SdpSays` reads the same description at once.

**`HttpClient`.** `lock` is `_base_lock`: its holder and behind it the waiters in
order, as asyncio serves them. A search goes through every scheme, path and method
(`Test`), one suspension each. The request runs in a thread (`Request_sync`) whose
steps are the attempts the code makes: anonymous, under the session lock with
Digest, Basic. A caller that is cancelled leaves its thread running. The clock is a
bounded counter; the device may change which tests it passes (`MaxChanges`).
`steady` is a history variable: the tests passed since the search began.

**`Extractors` and `ProbeService`.** An answer of a device is the set of fields that
an extractor can find in it; an interface says how its address, mask and gateway
relate to the address that is probed. A probe is one sequence of steps with every
outcome of every request: any text, none, an exception outside the adapter's `try`
(`FetchRaises`), a cancellation. A Hikvision list of interfaces has a default
namespace or not (`namespaced`): without one `findall` of a prefixed name raises
(`network/hikvision.py:47`), as an interface without a gateway does at line 120.
`tried` is a history variable: what each adapter came to in each mode. The order of
the force probe is that of the imports. Facts that the model takes over as they are:
no caller passes `allow_anonymous`; `bootstrap/probe.py` sets the minimum to 0.5
where the class has 0.7, so both are chosen in `Init`; only the lower-case spelling
of a resold brand is an alias; a policy of `STRICT` ignores the fallback extractor;
the Dahua adapter takes the firmware from the version answer only. `Extractor` and
`SelectAny` are translated for completeness: neither adapter lets them decide
anything (`select_interface.py` is called by nothing), so no run depends on them.

## 3. The runs

All runs are exhaustive. Runs marked † are expected to end in a violation: they
check a statement of the documentation or a test that the code does not keep.

| Run | Question | Instance |
|---|---|---|
| `Scheduler` | the inductive invariant, nothing forgotten, one owner, no work left over, the bound, the order, cancelled only on request; refinement of `PriorityService` | 3 jobs of 2 priorities, a pool of 2, one impatient closer, operations that resist a cancellation or end in one of their own |
| `LoopsClosed` | the same invariant when closes overlap and loops end; each loop ends, each `close` returns, answers in the loop that pool and queue belong to | 2 jobs, 3 loops, pools of 1 (two may live), 2 closers |
| `Scan` | no duplicates, nothing missing, bounds, teardown; termination with a prompt consumer | 8 addresses, 2 workers, queue of 4, every kind of consumer |
| `Detect` | slots, probes under `total`, cancellation, termination | 2 detections, an RTSP and an HTTP (and ONVIF) port, one slot per protocol, both `wait_for` |
| `Identify` | what is said of the vendor, where credentials go, independence of the order, the unicast fallback | 294 devices, three kinds of credentials, timeouts 1.5, 2.0 and 3.0 s |
| `Http` | one search for all, exhaustive and honest; who can block `close`; every call ends | 2 calls, one path (4 tests), lifetimes of one tick, one change of the device |
| `Probe` | the answer and its confidence; clients closed; termination | 8 results of discovery, 4 device answers, 33 network answers, every request |
| `SchedulerPython310` † | answers on Python 3.10 | 2 jobs, one worker |
| `LoopsShared` † | answers in any loop | 2 jobs, 2 loops |
| `ScanSlowConsumer` † | a scan ends with a slow consumer | 2 addresses, 2 workers |
| `ScanCancelled` † | cancellation always tears down the workers | 2 addresses, 2 workers |
| `ProbePartial` † | what a device told survives a part that fails | as `Probe` |

Some properties are exact about an exception, so that they say that nothing else
goes wrong: `AllButOneReturned` (the address in the hands of `get_result`),
`NothingLeftRunning` (a teardown cut off at line 122, which `ScanCancelled` holds
against the docstring), `ProbesUnderTotal` (a teardown cut off before Python 3.12),
`HonestNo` (a host that has just booted), `OnlyOrphansBlock` (the thread of a
cancelled caller). `CancelledIsTold` speaks of callers cancelled before there was a
result and `UnicastOnly` of waits for multicast that end in time; the other half of
each is a disagreement with a document, see 5.

**Why the bounds are enough.** Three jobs let one run, one wait and one overtake;
two priorities show every way two entries compare. `Worker` is a pool of identities:
`start` needs `Concurrency` of them that nothing refers to any more (`Fresh`), so
the size of the set bounds how many pools overlap, not how many are made: two in
`LoopsClosed`, where closes overlap, one in `Scheduler`. Each job is submitted once,
closers close again and again. With two workers and a queue of four, seven addresses
fill the queue, both workers' hands and `get_result` at once (3 * 2 + 1); the eighth
is the one that must not be fetched. In `Detect` each protocol has one slot, so that
two calls contend for it, and `total` has two, so that they overlap (the wait for
`total` itself is therefore never contended there; a third call multiplies the
states beyond reach); the two ports open or not give every combination of first
probes and of both fallbacks. Three loops are one that makes the pool, one that
inherits what it left, and one after a `close` in either. In `Http` two calls are
the one that searches and the one that waits; after a cancellation the second
searches itself. A lifetime of one tick and three values of the clock give an answer
that is fresh, one that has just run out, and the time before the first lifetime has
passed. `PreferHttps` only turns the order of the tests round. The devices of
`Identify` combine seven RTSP sides (silent, open, challenging with Digest or Basic,
markers before and after the first media line, contradictory headers), seven HTTP
sides and six ONVIF sides; three timeouts lie on both sides of and at the probe's
own 2.0 s. In `Probe` lists of one and two interfaces show every choice
`_select_interface` makes. Symmetry is used where only safety, action properties and
the refinement without fairness are checked, over jobs and workers that nothing
distinguishes.

**Deadlock** is checked wherever the program cannot stop by itself: `Finished` is
the stutter of a program that is done. It is switched off in `LoopsClosed` and
`LoopsShared`, because a caller in a loop that is not the pool's waits for ever,
which is what `LoopsShared` shows, and in `Http`, `Probe` and `ProbePartial`, where
the program stops when the calls or the probe have ended; there `CallsReturn` and
`EveryProbeEnds` say that it stops nowhere else. In the scanner a generator that
waits for ever is no deadlock of the model, because its consumer may still be
cancelled (`Abandons`).

**Fairness.** An event loop runs every callback that is ready, so each step of a
task that can run is weakly fair. That a job, a probe, a request or a callback ends
is the operations' own duty: each has a timeout in the code (`max_total_timeout`,
the timeouts of the sockets, of `requests` and of `ScanRequest`). The consumer of a
scan is assumed to come back. A task that polls a semaphore is weakly fair in its
attempt to enter (`budget.py` polls every 5 ms); as the number of calls is finite
that suffices, while under an endless stream of them the code promises nothing.
Deadlines, cancellations, `submit`, `close`, the clock and the changes of a device
have no fairness: they need not come. A cancelled `close` leaves when its workers
have ended (`CloseAborts`), which is as fair as their end is. In `EventLoops` a loop
may end at any time, also before a `close` that has begun is over. `Identify` states
safety only; that a detection ends is `EveryCallEnds` of `Detect`.

## 4. What is proved

The proofs hold for any sets of jobs, workers, closers, addresses, ports, calls and
devices, any concurrency, lifetimes and limits, under the assumptions stated beside
the constants. Each invariant of a run that is proved is also checked by that run.

| Module | Proves | Inductive invariant |
|---|---|---|
| `ProbeSchedulerProofs` | types, `NothingForgotten`, `OneOwner`, `NoOrphanWork`, `PriorityRespected`, `CancelledNeverStarts`, `SettledOnce`; `CancelledOnRequest`; `ConcurrencyBound`, `ServiceRefinement` | `IInv` (in `ProbeScheduler`, checked by `Scheduler` and `LoopsClosed`); `OnlyCloseCancels`; `PoolTracked` |
| `EventLoopsProofs` | all of these but `CancelledOnRequest` over any number of event loops; `NothingStartsInExit`, `ForeignPoolRunsNothing`, `QueueNeverComesHome` | `IInv`, `PoolTracked`, `ExitSettles`, `AfterLoop` |
| `DiscoveryEngineProofs` | types, `SlotsConserved`, `ProbesUnderTotal`, `CancelledIsTold` | `SlotInv`, `CallInv` |
| `ScanServiceProofs` | types, `AtMostOnce`, `BackPressure`, `AllButOneReturned`, `NothingLeftRunning` | `TypeOK`, `Hands`, `OnePlace`, `Getter`, `Workers`, `Covered`, `Drained` |
| `HttpClientProofs` | types, `OnlyOrphansBlock`, `NoNeedlessSearch`, `SearchIsExhaustive`, `HonestNo` | `TypeOK`, `Remembers`, `Ahead`, `Threads` |
| `ProbeServiceProofs` | types, `AnswerIsBest`, `EarnedConfidence` | `TypeOK`, `Reads`, `Modes`, `Kept`, `AnswerIsBest`, `Honest(result)` |
| `EvidenceProofs` | of the functions of `Sdp` and `Fingerprints`: the parser finds what a description says, a result rests on evidence, less evidence makes nothing up | (none: they have no state) |
| `ProtocolProbesProofs` | types, `NothingInvented`, `CredentialsAreAsked`, `SameAnswer`, `UnicastOnly`; `UnicastCutShort` | `IInv` (`Where`, `Decided`, `Sent`), `Typed`, `Heard`, `Whole` |

*Scheduler.* `IInv` says who owns which job task; what may be in the queue; the
stages of a submission, which tie caller, future, task and cancellation together;
and the two rules of cancellation. Neither `NothingForgotten` nor `OneOwner` is
inductive alone: that a pending submission is with a live worker needs that a worker
ends only with its job settled. None of this assumes anything of `close`: any number
of calls may overlap and be cancelled. `CancelledOnRequest` needs one more invariant,
`OnlyCloseCancels`: a cancelled worker belongs to a close under way, and a task that
is being cancelled with its future still pending is in the hands of such a worker. It
holds for impatient closers too, because a cancelled `gather` waits for its workers.

*Bound and refinement.* With at most one closer (`AtMostOneCloser`; it may close
as often as it likes, and be cancelled) every live worker is in the list
(`PoolTracked`), hence at most `Concurrency` operations run, by an injection of
the held jobs into the list of workers, and each step of the scheduler is a step
of `PriorityService` or a stutter. The hypothesis cannot be dropped, see 5.

*Engine.* `SlotsConserved` is proved by counting holders: each step adds one
holder and takes one slot, removes one and gives one back, or does neither. It
needs one more fact, that a call that has no `total` yet has started no probe
(`NotStarted`). `ProbesUnderTotal` and `CancelledIsTold` follow from an invariant
of each call (`CallInv`): where it stands, which of its probes can be active there,
why it is being torn down, and whether its caller was cancelled (`Asked`). The
proofs make no assumption on `inTask`, and none on how often a caller is cancelled:
they hold under either `wait_for`, with the exception that `ProbesUnderTotal` states.

*Scanner.* An address that the iterator has given is in exactly one place: in a
worker's hand, in the queue, in the hand of `get_result` or of the generator, or
yielded (`OnePlace`); `BackPressure` counts the places. `Covered` says that none is
lost unless a worker was cancelled or the generator broke off, and `Drained` that
the end of an undisturbed scan finds the queue empty, which gives
`AllButOneReturned`. `NothingLeftRunning` covers every way the generator can end: a
worker that has not ended when its teardown was cut off is one of those it was
waiting for.

*HTTP client.* `Remembers` ties the cache to the history of the searches, `Ahead`
says that a test the device has passed all the while has not been reached yet, and
`Threads` which request can be in a thread at which stage of its call. The three
action properties follow step by step.

*Probe service.* `Kept` says what the force probe holds between its adapters,
`Modes` how a probe may have come to where it is, `Reads` what the adapter at work
may have fetched, and `Honest` what a result says of the answers it was made from.

*Event loops.* A step of the program is a step of the scheduler, the cancellation of
every task of a loop, the end of a loop, or a worker that leaves `get` with RuntimeError
(`StepsOfALoop`). `IInv` is kept by the last three as well, so all that follows from it
holds over any number of loops; for the service the cancellation of a loop's tasks is a
withdrawal of everything that is pending, and the refinement carries over.
`NothingStartsInExit` is what keeps two loops apart: nothing pending is left in the queue
when a loop ends. `AfterLoop` says what is left: the flag, a list of workers that are all
over, and a queue of a known loop. From it follow the two reasons why a submission in a
later loop may wait for ever, which `LoopsShared` shows on one instance: as long as the
list is that of a closed loop nothing starts and nobody gets a result
(`ForeignPoolRunsNothing`), and a `close` that frees the scheduler of it leaves the queue
where it is (`QueueNeverComesHome`).

*Evidence.* `ParserFindsWhatItSays` compares the loop of `parse_sdp`, which carries its
state from line to line, with a reading of the whole description, for descriptions of any
length. It is an induction over the number of lines, made without the library's
induction theorems (they take an operator): the set of numbers of lines for which the
claim fails has a least element (`WFMin` of `WellFoundedInduction`), and `ParseLine` leads
to it from the one before. `ResultRestsOnEvidence` goes through the registry's order, and
`LessEvidenceInventsNothing` through every fingerprint and score.

*Protocol probes.* `Where` places the probes in their stages, `Decided` says that a
fingerprint decided from the evidence that is there now, `Sent` what the credentials
answered. `Typed` are the types and which sockets are open. `Heard` says of each
part of the evidence that it is what the device could have said or nothing at all,
cut and late answers of RTSP included (`Reads` takes any beginning of the stream);
with `LessEvidenceInventsNothing` it gives `NothingInvented`. `Whole` is the other
direction: while nothing is lost each probe that is over has found all of its part
(`FirstWhole` for the first probes, `DescribeWhole`, `OnvifWhole`), and what no
probe has written yet is still empty (`Unheard`, `Undecided`). It gives
`SameAnswer`, `UnicastOnly` and its counterpart `UnicastCutShort` (with a timeout
under 2.0 s such a device stays unknown), for any number of ports, descriptions of
any length and any device the assumptions admit.

Only model-checked: everything temporal under fairness (TLAPS does not treat `ENABLED`),
that is `ExitCompletes`, `AnsweredInOwnLoop`, `CloseReturns`, `PromptScanEnds`, `TearsDown`,
`EveryCallEnds`, `CallsReturn`, `EveryProbeEnds`, and the violations. Every invariant and
every other action property of the runs is a theorem.

## 5. What the checks found

1. Python 3.10 has no `Task.cancelling`; a worker ends with its first cancelled
   job and later submissions wait for ever (`SchedulerPython310`).
2. The scheduler of the process belongs to the first event loop; in the next one
   nothing takes a submission (`LoopsShared`). A `close` before the end of a loop
   does not help: the queue stays bound to the first loop in which a worker waited,
   and each worker of the next pool ends with RuntimeError as soon as it finds the
   queue empty (`GetRaises`; `AnsweredInOwnLoop` fails without its conjunct `AtHome`).
3. A worker of the scanner that ends while the generator stands at a yield is
   never removed from its list: the scan may wait for ever (`ScanSlowConsumer`).
4. A Hikvision interface with an address and a mask but no gateway makes the network
   extractor raise UnboundLocalError (line 120), and a list without a default namespace
   SyntaxError (line 47); the device information that was already read is
   lost with it and the probe fails (`ProbePartial`).
5. A consumer of a scan that is cancelled once more while the generator waits at
   `scan_service.py:122` ends it there: lines 123-126 do not run and the workers go on
   probing with nobody to stop them (`ScanCancelled`).

Each is quoted against the document or test it contradicts in `PROJECT.json`.

Disagreements with documents for which no run is kept, either because what the code
does is one line to read or because a theorem already states it:

* README.md:206 says «`asyncio.CancelledError` не превращается в успешный результат и
  передаётся вызывающему коду», README.md:298 «отмена задачи должна распространяться
  наружу», for Python 3.10 to 3.12 (:29). The `asyncio.wait_for` of 3.10 and 3.11, which
  `engine.py:44` calls, returns a result that is there already to a caller that is
  cancelled in that moment, and the cancellation is lost (`CancelIgnored` of
  `DiscoveryEngine`). `CancelledIsTold` says that this is the only case.
* README.md:15 and :164-172 describe unicast and HTTPS probing after a multicast that
  found nothing. With the default timeout of 1.5 s the `wait_for` at `engine.py:126`
  ends the whole probe before its 2.0 s of multicast are over, so that a device that is silent to
  multicast never gets it: theorem `UnicastCutShort`. `UnicastOnly` is the promise where
  the code keeps it.
* `fingerprints/registry.py:22` says "Order matters: strongest → weakest"; Uniview (0.95)
  stands before Xiongmai (0.96), and a model that begins with IPC, which both match, is
  Uniview's.
* docs/CONFIDENCE.md:97 and docs/VENDORS.md:127 give Dahua "Fingerprint + Network"
  ~0.60, under the documented minimum and so a reason for the fallback
  (VENDORS.md:130). The code gives 0.72, which passes and ends the force probe.
  `EarnedConfidence` therefore only bounds a confidence from below.
* docs/VENDORS.md:192-201 says that of several Hikvision interfaces the first
  `<NetworkInterface>` is used, deliberately. `_select_interface` takes the one with
  the address that was probed, else the one whose network contains it, and of several
  none otherwise (`network/hikvision.py:203`). No property speaks of the choice.

Further facts that the models show and that contradict no document; the properties
above state them as exceptions or assumptions:

* Two `close` calls that overlap, with a submission between their ends: the later one
  forgets the new pool, and the next submission starts another beside it, so more than
  `concurrency` operations run. Hence `AtMostOneCloser` in the theorems on the bound.
* A `close` that is cancelled while it waits leaves the flag and the list of a pool that is
  gone; a later submission has no worker until somebody closes again. Hence
  `Impatient = {}` in `LoopsClosed`.
* An operation that completes in spite of its cancellation uses up the only one its
  worker gets from `close`, which then waits for ever. Hence `MaySuppress = FALSE` there.
* In the final drain `get_result` may take one result that is never yielded.
* A teardown of a detection that is cut off before Python 3.12 gives `total` back while
  its probes still run (`ProbesUnderTotal`).
* A request in a thread outlives the slot of its probe: `threads` of `DiscoveryEngine`
  is not bounded by the budget.
* `_base_not_found_ts` starts at 0.0: in the first lifetime after boot every device
  is "not found" without a search (`HonestNo`).
* With a user or a password but not both the service goes on, the client has no
  session, and no confidence of 70 or more can come of it (`EarnedConfidence`).
* A force probe goes on after a result below 70 and answers the best of all.

## 6. Not modelled, and the plan

Left out for good: the CLI, logging and serialisation (formatting); the domain data
classes (the records of the modules hold the fields that properties tell apart);
`from_env` (it reads the limits of the budget from the environment: the constant
`Limit`), the statistics of the engine and the flags that switch its fallbacks off
(`bootstrap/probe.py` leaves them on); digests and SOAP bodies;
`rtsp_options_auth`, `onvif_https_auth_probe`, `infrastructure/net/tcp.py`,
`EvidenceAnalyzer`, `PatternMatcher`, `discovery/budget_context.py` and
`clients/hikvision/old.client.py`, which nothing calls or which cannot be imported;
registration at import, which happens once and in a fixed order.

What could follow: several event loops of several threads at once (the semaphores
are shared, the scheduler is not made for it); the executor's pool of threads as a
sixth budget; the scheduler's starvation of low priorities under an endless stream of
submissions, which an unbounded set of jobs would need; `ProtocolProbes` as a
refinement of the stages of `DiscoveryEngine`.

## 7. Running it

```
tlc -config Scheduler.cfg      MCProbeScheduler.tla      # SchedulerPython310
tlc -config LoopsClosed.cfg    MCEventLoops.tla          # LoopsShared
tlc -config Scan.cfg           MCScanService.tla         # ScanSlowConsumer, ScanCancelled
tlc -config Detect.cfg         MCDiscoveryEngine.tla
tlc -config Identify.cfg       MCProtocolProbes.tla
tlc -config Http.cfg           MCHttpClient.tla
tlc -config Probe.cfg          MCProbeService.tla        # ProbePartial
for m in ProbeScheduler EventLoops DiscoveryEngine ScanService HttpClient \
         ProbeService Evidence ProtocolProbes; do tlapm ${m}Proofs.tla; done
```
