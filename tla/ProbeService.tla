---------------------------- MODULE ProbeService ----------------------------
(***************************************************************************)
(* ProbeService.probe of application/services/probe_service.py with the    *)
(* adapters it creates: infrastructure/adapters/dahua/adapter.py,          *)
(* infrastructure/adapters/hikvision/adapter.py and force.py.              *)
(*                                                                         *)
(* A probe asks discovery for the vendor, lets the adapter of that vendor  *)
(* fetch and read what the device tells, and may fall back to all adapters *)
(* in turn.  The device may answer each request with any text or none, a   *)
(* request may raise (urljoin of a malformed address), and the caller may  *)
(* be cancelled at any await.  A confidence is in percent.                 *)
(***************************************************************************)
EXTENDS Extractors, FiniteSetsExt

CONSTANTS
    DetectResult,    \* what discovery may say
    DeviceTexts,     \* the device answers of either vendor
    NetworkTexts     \* their network answers

ASSUME DeviceTextsAssumption == DeviceTexts \subseteq DeviceText
ASSUME DetectAssumption ==
    \A d \in DetectResult : d.confidence \in 0 .. 100 /\ (d.vendor = None => d.confidence = 0)
\* What Dahua tells of the network stands in one entry, as a bond does.
ASSUME NetworkAssumption ==
    \A t \in NetworkTexts :
        /\ t.root \in {"malformed", "bond", "list"} /\ t.list \in Seq(Interface) /\ t.list # <<>>
        /\ t.root = "bond" => Len(t.list) = 1
ASSUME NoneAssumption == None \notin Interface \cup Vendor \cup NetworkTexts

\* The keys of AdapterRegistry in the order of the imports.
Registered == <<"dahua", "hikvision">>

VARIABLES
    request,         \* the ProbeRequest
    minConfidence,
    pc,              \* where the probe stands
    detect,          \* the answer of discovery
    mode,            \* which adapter probes: that of the vendor, or "force"
    todo,            \* the adapters the force probe has still to try
    adapter,         \* the adapter at work and what it has fetched
    clients,         \* how many HTTP clients are not closed
    best,            \* best_result of the force probe
    result,          \* the ProbeResult
    tried            \* history: what each adapter came to in each mode

vars == <<request, minConfidence, pc, detect, mode, todo, adapter, clients, best, result, tried>>

Mode == {"vendor", "force"}
NoAdapter ==
    [vendor |-> None, device |-> None, network |-> None, version |-> None, failed |-> FALSE]

\* A ProbeResult: whose, how sure, and what of it is there.
Result(v, confidence, device, network, version) ==
    [vendor |-> v, confidence |-> confidence, device |-> device, network |-> network,
     version |-> version]
Failure == Result(None, 0, {}, NoInfo, {})
Raised  == -1
Untried == -2
\* No result (None): an adapter that raised, or that the vendor has none.
NoResult == Result(None, Raised, {}, NoInfo, {})

HasCredentials(r) == r.user \/ r.password
IsProbeSuccess(confidence) == confidence >= minConfidence
Fallback(r) == r.preferForce /\ HasCredentials(r)

-----------------------------------------------------------------------------
(* The adapters                                                            *)

\* The clients have a session only with both a user and a password, and
\* without one `get` answers None.
AnyCredential(r) == r.user \/ r.password
Session(r) == r.user /\ r.password
Answers(r, texts) == {None} \cup (IF Session(r) THEN texts ELSE {})

\* DahuaCgiClient.get_device_info: the first path that has an answer, whatever
\* the extractor makes of it; the last two are joined.
DahuaDeviceRaw(a) ==
    IF a[1] # None THEN a[1]
    ELSE IF a[2] # None THEN a[2]
    ELSE IF a[3] = None \/ a[4] = None THEN (IF a[3] = None THEN a[4] ELSE a[3])
    ELSE [a[3] EXCEPT !.keys = @ \cup a[4].keys, !.labels = @ \cup a[4].labels]

\* The answers that get_device_info, get_device_info_raw may come to.
DeviceRaws(v, r) ==
    IF v = "dahua" THEN {DahuaDeviceRaw(a) : a \in [1 .. 4 -> Answers(r, DeviceTexts)]}
                   ELSE Answers(r, DeviceTexts)

ExtractDevice(v, t) == IF v = "dahua" THEN DahuaDevice(t) ELSE HikvisionDevice(t)
ExtractNetwork(v, t) == IF v = "dahua" THEN DahuaNetwork(t) ELSE HikvisionNetwork(t, TRUE)

\* _resolve_confidence of either adapter; only Dahua asks for the version.
Confidence(device, network, version) ==
    IF device # {}
    THEN IF device \cap {"model", "serial", "mac"} # {} THEN 95 ELSE 80
    ELSE CASE version # {} /\ network = "info" -> 80
           [] (version # {}) # (network = "info") -> 72
           [] OTHER -> 60

ProbeResult(a) ==
    LET device  == ExtractDevice(a.vendor, a.device)
        network == ExtractNetwork(a.vendor, a.network)
        version == IF a.vendor = "dahua" THEN DahuaDevice(a.version) ELSE {}
    IN  Result(a.vendor, Confidence(device, network.kind, version), device, network, version)

StartAdapter(m, v) ==
    /\ mode' = m
    /\ adapter' = [NoAdapter EXCEPT !.vendor = v]
    /\ clients' = clients + 1
    /\ pc' = "device"

StartForce ==
    /\ StartAdapter("force", Head(Registered))
    /\ todo' = Tail(Registered)
    /\ best' = NoResult

-----------------------------------------------------------------------------
(* The probe                                                               *)

Reject ==
    /\ pc = "start" /\ ~request.valid
    /\ pc' = "rejected"
    /\ UNCHANGED <<request, minConfidence, detect, mode, todo, adapter, clients, best, result, tried>>

Accept ==
    /\ pc = "start" /\ request.valid
    /\ IF request.force /\ HasCredentials(request)
       THEN StartForce
       ELSE pc' = "discover" /\ UNCHANGED <<mode, todo, adapter, clients, best>>
    /\ UNCHANGED <<request, minConfidence, detect, result, tried>>

\* After discovery or the vendor adapter there is no result.
FallBack ==
    IF Fallback(request)
    THEN StartForce /\ UNCHANGED result
    ELSE pc' = "answered" /\ result' = Failure /\ UNCHANGED <<mode, todo, adapter, clients, best>>

\* DefaultAdapterFactory.create raises for a vendor without an adapter, which
\* _try_vendor_probe takes for a failed probe.
Discovered(d) ==
    /\ pc = "discover"
    /\ detect' = d
    /\ IF d.vendor # None /\ IsProbeSuccess(d.confidence) /\ Normalize(d.vendor) \in Vendor
       THEN /\ StartAdapter("vendor", Normalize(d.vendor))
            /\ UNCHANGED <<todo, best, result>>
       ELSE FallBack
    /\ UNCHANGED <<request, minConfidence, tried>>

FetchDevice(t) ==
    /\ pc = "device" /\ t \in DeviceRaws(adapter.vendor, request)
    /\ adapter' = [adapter EXCEPT !.device = t]
    /\ pc' = "network"
    /\ UNCHANGED <<request, minConfidence, detect, mode, todo, clients, best, result, tried>>

\* After its last request the adapter closes its client: the finally.
ClosesIfDone == clients' = IF adapter'.failed THEN clients ELSE clients - 1
CloseClient  == clients' = clients - 1

FetchNetwork(t) ==
    /\ pc = "network" /\ t \in Answers(request, NetworkTexts)
    /\ adapter' = [adapter EXCEPT !.network = t]
    /\ IF adapter.vendor = "dahua"
       THEN pc' = "version" /\ UNCHANGED clients
       ELSE pc' = "extract" /\ CloseClient
    /\ UNCHANGED <<request, minConfidence, detect, mode, todo, best, result, tried>>

FetchVersion(t) ==
    /\ pc = "version" /\ t \in Answers(request, DeviceTexts)
    /\ adapter' = [adapter EXCEPT !.version = t]
    /\ pc' = "extract" /\ CloseClient
    /\ UNCHANGED <<request, minConfidence, detect, mode, todo, best, result, tried>>

\* The adapter is through, with a result or an exception (NoResult).  The vendor's
\* result must be sure enough; the force probe keeps the best and goes on
\* until one is sure.
BetterOf(r) == IF best = NoResult \/ r.confidence > best.confidence THEN r ELSE best
AsSureAsTheService(r) == IsProbeSuccess(r.confidence)
SureEnough(r) == r.confidence >= 70
TriesAgain == todo
Remaining  == Tail(todo)

AfterVendor(r) ==
    IF r # NoResult /\ IsProbeSuccess(r.confidence)
    THEN pc' = "answered" /\ result' = r /\ UNCHANGED <<mode, todo, adapter, clients, best>>
    ELSE FallBack

AfterForced(r) ==
    /\ best' = IF r = NoResult THEN best ELSE BetterOf(r)
    /\ IF r # NoResult /\ SureEnough(r)
       THEN pc' = "answered" /\ result' = r /\ UNCHANGED <<mode, todo, adapter, clients>>
       ELSE IF todo = <<>>
       THEN /\ pc' = "answered"
            /\ result' = IF best' = NoResult THEN Failure ELSE best'
            /\ UNCHANGED <<mode, todo, adapter, clients>>
       ELSE StartAdapter("force", Head(todo)) /\ todo' = Remaining /\ UNCHANGED result

Through(r) ==
    /\ tried' = [tried EXCEPT ![mode][adapter.vendor] = r.confidence]
    /\ IF mode = "vendor" THEN AfterVendor(r) ELSE AfterForced(r)
    /\ UNCHANGED <<request, minConfidence, detect>>

Extract ==
    /\ pc = "extract"
    /\ LET r == ProbeResult(adapter)
       IN  Through(IF adapter.failed \/ r.network.kind = "raises" THEN NoResult ELSE r)

\* A request raises: get_base_url joins the address and a path outside its try.
FetchRaises ==
    /\ pc = "device"
    /\ adapter' = [adapter EXCEPT !.failed = TRUE]
    /\ pc' = "extract" /\ CloseClient
    /\ UNCHANGED <<request, minConfidence, detect, mode, todo, best, result, tried>>

\* The caller is cancelled; CancelledError is no Exception, so it passes
\* every handler, and the finally of the adapter.
Cancel ==
    /\ pc \in {"discover", "device", "network", "version"}
    /\ pc' = "cancelled"
    /\ clients' = IF pc = "discover" THEN clients ELSE clients - 1
    /\ UNCHANGED <<request, minConfidence, detect, mode, todo, adapter, best, result, tried>>

Init ==
    /\ request \in [valid : BOOLEAN, user : BOOLEAN, password : BOOLEAN,
                    force : BOOLEAN, preferForce : BOOLEAN]
    /\ minConfidence \in {50, 70}      \* of build_probe_service and of ProbeService
    /\ pc = "start" /\ detect = [vendor |-> None, confidence |-> 0]
    /\ mode = "vendor" /\ todo = <<>> /\ adapter = NoAdapter /\ clients = 0
    /\ best = NoResult /\ result = NoResult
    /\ tried = [m \in Mode |-> [v \in Vendor |-> Untried]]

Step ==
    \/ Reject \/ Accept
    \/ \E d \in DetectResult : Discovered(d)
    \/ \E t \in DeviceRaws(adapter.vendor, request) : FetchDevice(t)
    \/ \E t \in {None} \cup NetworkTexts : FetchNetwork(t)
    \/ \E t \in {None} \cup DeviceTexts : FetchVersion(t)
    \/ FetchRaises
    \/ Extract

Next == Step \/ Cancel

Spec == Init /\ [][Next]_vars

\* Discovery has a deadline, every request a timeout.
FairSpec == Spec /\ WF_vars(Step)

-----------------------------------------------------------------------------
Ended == {"rejected", "answered", "cancelled"}
Outcome == {Untried, Raised, 60, 72, 80, 95}

\* The types of the variables; a client is open while its adapter fetches and
\* at no other time, however the adapter ends (the finally of both adapters).
TypeOK ==
    /\ pc \in {"start", "discover", "device", "network", "version", "extract"} \cup Ended
    /\ mode \in Mode /\ todo \in {<<>>, Registered, Tail(Registered)}
    /\ adapter.vendor \in Vendor \cup {None}
    /\ clients = IF pc \in {"device", "network", "version"} THEN 1 ELSE 0
    /\ tried \in [Mode -> [Vendor -> Outcome]]
    /\ pc = "answered" <=> result # NoResult

\* What is answered is the best that was found: the vendor adapter's result
\* when it is sure enough, else, if the request allows it and has credentials,
\* the best result of all adapters, where one is left out only behind a sure
\* one.  Confidence 0 means that no adapter that may be tried came to a
\* result.  No exception of an adapter reaches the caller.
AnswerIsBest ==
    pc = "answered" =>
        LET own    == {tried["vendor"][v] : v \in Vendor}
            forced == {tried["force"][v] : v \in Vendor}
            sure   == {c \in own : c >= minConfidence}
        IN  IF sure # {} /\ ~(request.force /\ HasCredentials(request))
            THEN result.confidence \in sure /\ forced = {Untried}
            ELSE IF Fallback(request) \/ (request.force /\ HasCredentials(request))
            THEN /\ result.confidence = Max(forced \cup {0})
                 /\ Untried \in forced => result.confidence >= 70
            ELSE result = Failure /\ forced = {Untried}

\* A confidence has to be earned: 70 and more, which ends the force probe, only
\* with both a user and a password, although _has_credentials is content with
\* one (line 98), and with something that the extractors of that vendor
\* understand; 95 only with a model, a serial number or a MAC address.
EarnedConfidence ==
    pc = "answered" =>
        /\ result.confidence >= 70 =>
              /\ request.user /\ request.password
              /\ result.device # {} \/ result.version # {} \/ result.network.kind = "info"
        /\ result.confidence = 95 => result.device \cap {"model", "serial", "mac"} # {}

\* Every probe comes to an end.
EveryProbeEnds == <>(pc \in Ended)

\* "не ломать пайплайн из-за частичного ответа" (docs/CONFIDENCE.md): what an
\* adapter has read of the device is not lost because another answer of the
\* device is incomplete.
PartialAnswerKept ==
    pc = "answered" /\ ~adapter.failed /\ ExtractDevice(adapter.vendor, adapter.device) # {} =>
        result # Failure
=============================================================================
