------------------------- MODULE ProbeServiceProofs -------------------------
(***************************************************************************)
(* Proofs about ProbeService, for any answers of discovery and any texts   *)
(* of the device.                                                          *)
(***************************************************************************)
EXTENDS ProbeService, TLAPS

-----------------------------------------------------------------------------
(* The inductive invariant                                                 *)

Forced   == request.force /\ HasCredentials(request)
Fetches  == pc \in {"device", "network", "version"}
AtWork   == Fetches \/ pc = "extract"
Identity == {"model", "serial", "mac"}

Untouched(m) == \A v \in Vendor : tried[m][v] = Untried
NoneIsSure   == \A v \in Vendor : tried["vendor"][v] < minConfidence

\* A result that is what its device told, and nothing more.
Honest(r) ==
    /\ r.confidence >= 70 <=> r.device # {} \/ r.version # {} \/ r.network.kind = "info"
    /\ r.confidence >= 70 => request.user /\ request.password
    /\ r.confidence = 95 => r.device \cap Identity # {}
Found(r) == r.confidence \in {60, 72, 80, 95} /\ Honest(r)

\* The request and the adapter: without a session it has nothing to read.
Reads ==
    /\ request.valid \in BOOLEAN /\ request.user \in BOOLEAN /\ request.password \in BOOLEAN
    /\ request.force \in BOOLEAN /\ request.preferForce \in BOOLEAN
    /\ minConfidence \in {50, 70}
    /\ adapter = [vendor |-> adapter.vendor, device |-> adapter.device,
                  network |-> adapter.network, version |-> adapter.version,
                  failed |-> adapter.failed]
    /\ adapter.failed \in BOOLEAN
    /\ adapter.network \in {None} \cup NetworkTexts
    /\ ~Session(request) =>
          adapter.device = None /\ adapter.network = None /\ adapter.version = None

\* The order of the modes: the vendor's adapter first, and only if that gave
\* nothing sure, and the request allows it, all of them.
Modes ==
    /\ pc \in {"start", "discover"} => mode = "vendor"
    /\ pc = "discover" => ~Forced
    /\ AtWork => adapter.vendor \in Vendor
    /\ mode = "vendor" =>
          /\ Untouched("force")
          /\ pc # "answered" => Untouched("vendor")
          /\ AtWork => ~Forced
    /\ mode = "force" => (Forced \/ Fallback(request)) /\ NoneIsSure

\* Where the force probe is, and what it has kept.
Kept ==
    mode = "force" /\ AtWork =>
        \/ /\ adapter.vendor = "dahua" /\ todo = <<"hikvision">>
           /\ Untouched("force") /\ best = NoResult
        \/ /\ adapter.vendor = "hikvision" /\ todo = <<>>
           /\ tried["force"]["hikvision"] = Untried
           /\ \/ tried["force"]["dahua"] = Raised /\ best = NoResult
              \/ /\ tried["force"]["dahua"] = best.confidence
                 /\ Found(best) /\ best.confidence < 70

IInv == TypeOK /\ Reads /\ Modes /\ Kept /\ AnswerIsBest /\ Honest(result)

-----------------------------------------------------------------------------
(* Lemmas about the operators                                              *)

LEMMA ExactMax ==
    ASSUME NEW S \in SUBSET Int, NEW c \in S, \A y \in S : y <= c
    PROVE  Max(S) = c
  <1>1. \A x \in S : (\A y \in S : x >= y) => x = c
    OBVIOUS
  <1>2. \A y \in S : c >= y
    OBVIOUS
  <1> QED
    BY <1>1, <1>2 DEF Max

LEMMA Order ==
    /\ Head(Registered) = "dahua" /\ Tail(Registered) = <<"hikvision">>
    /\ Head(<<"hikvision">>) = "hikvision" /\ Tail(<<"hikvision">>) = <<>>
    /\ <<"hikvision">> # <<>>
  BY DEF Registered

\* A result has one of four confidences, and which is settled by what is there.
LEMMA ConfidenceEarned ==
    ASSUME NEW device, NEW network, NEW version
    PROVE  LET c == Confidence(device, network, version)
           IN  /\ c \in {60, 72, 80, 95}
               /\ c >= 70 <=> device # {} \/ version # {} \/ network = "info"
               /\ c = 95 => device \cap Identity # {}
  BY DEF Confidence, Identity

LEMMA SilenceReadsAsNothing ==
    ASSUME NEW v
    PROVE  /\ ExtractDevice(v, None) = {} /\ DahuaDevice(None) = {}
           /\ ExtractNetwork(v, None).kind # "info"
  BY DEF ExtractDevice, ExtractNetwork, DahuaDevice, HikvisionDevice, DahuaNetwork,
         HikvisionNetwork, NoInfo

LEMMA NoResultIsNone ==
    /\ NoResult.confidence = -1 /\ Failure.confidence = 0 /\ Failure # NoResult
    /\ \A r : r.confidence \in {60, 72, 80, 95} => r # NoResult
  BY DEF NoResult, Failure, Result, Raised

LEMMA NothingIsHonest == Honest(NoResult) /\ Honest(Failure)
  BY DEF Honest, NoResult, Failure, Result, Raised, NoInfo

\* What an adapter comes to is an exception or an honest result.
LEMMA AdapterIsHonest ==
    ASSUME Reads
    PROVE  Found(ProbeResult(adapter))
  <1> DEFINE device  == ExtractDevice(adapter.vendor, adapter.device)
             network == ExtractNetwork(adapter.vendor, adapter.network)
             version == IF adapter.vendor = "dahua" THEN DahuaDevice(adapter.version) ELSE {}
             r       == ProbeResult(adapter)
  <1>1. /\ r.confidence = Confidence(device, network.kind, version)
        /\ r.device = device /\ r.network = network /\ r.version = version
    BY DEF ProbeResult, Result
  <1>2. ~Session(request) => device = {} /\ version = {} /\ network.kind # "info"
    BY SilenceReadsAsNothing DEF Reads
  <1>3. LET c == Confidence(device, network.kind, version)
        IN  /\ c \in {60, 72, 80, 95}
            /\ c >= 70 <=> device # {} \/ version # {} \/ network.kind = "info"
            /\ c = 95 => device \cap Identity # {}
    BY ConfidenceEarned
  <1> QED
    BY <1>1, <1>2, <1>3 DEF Found, Honest, Session

\* Without a session the client answers nothing, on whichever path.
LEMMA NoSessionNoText ==
    ASSUME NEW v, ~Session(request), NEW t \in DeviceRaws(v, request)
    PROVE  t = None
  <1>1. \A texts : Answers(request, texts) = {None}
    BY DEF Answers
  <1>2. \A a \in [1 .. 4 -> {None}] : DahuaDeviceRaw(a) = None
    BY DEF DahuaDeviceRaw
  <1> QED
    BY <1>1, <1>2 DEF DeviceRaws

-----------------------------------------------------------------------------
(* Each step keeps the invariant                                           *)

LEMMA InitHolds == Init => IInv
  <1> SUFFICES ASSUME Init PROVE IInv
    OBVIOUS
  <1>1. tried \in [Mode -> [Vendor -> Outcome]] /\ \A m \in Mode : Untouched(m)
    BY DEF Init, Outcome, Untouched
  <1>2. TypeOK
    BY <1>1 DEF Init, TypeOK, Mode, NoAdapter, Ended
  <1>3. Reads
    BY DEF Init, Reads, NoAdapter
  <1>4. Modes /\ Kept
    BY <1>1 DEF Init, Modes, Kept, AtWork, Fetches, Mode
  <1>5. AnswerIsBest /\ Honest(result)
    BY NothingIsHonest DEF Init, AnswerIsBest
  <1> QED
    BY <1>2, <1>3, <1>4, <1>5 DEF IInv

\* The steps of an adapter before its end.
Fetched ==
    /\ UNCHANGED <<request, minConfidence, mode, todo, best, result, tried>>
    /\ adapter'.vendor = adapter.vendor
    /\ pc' \in {"network", "version", "extract"}
    /\ clients' = IF pc' = "extract" THEN clients - 1 ELSE clients

LEMMA FetchStep ==
    ASSUME IInv, Fetches, Fetched, Reads'
    PROVE  IInv'
  <1>1. TypeOK'
    BY DEF IInv, Fetches, Fetched, TypeOK, Ended
  <1>2. Modes' /\ Kept'
    BY DEF IInv, Fetches, Fetched, Modes, Kept, AtWork, Forced, Fallback, HasCredentials,
           Untouched, NoneIsSure, Found, Honest
  <1>3. AnswerIsBest' /\ Honest(result)'
    BY DEF IInv, Fetched, AnswerIsBest, Honest
  <1> QED
    BY <1>1, <1>2, <1>3 DEF IInv

LEMMA FetchSteps ==
    ASSUME IInv,
           \/ \E t \in DeviceRaws(adapter.vendor, request) : FetchDevice(t)
           \/ \E t \in {None} \cup NetworkTexts : FetchNetwork(t)
           \/ \E t \in {None} \cup DeviceTexts : FetchVersion(t)
           \/ FetchRaises
    PROVE  IInv'
  <1>1. Reads /\ request' = request /\ minConfidence' = minConfidence
    BY DEF IInv, FetchDevice, FetchNetwork, FetchVersion, FetchRaises
  <1>2. CASE \E t \in DeviceRaws(adapter.vendor, request) : FetchDevice(t)
    <2>1. PICK t \in DeviceRaws(adapter.vendor, request) : FetchDevice(t)
      BY <1>2
    <2>2. ~Session(request) => t = None
      BY NoSessionNoText
    <2>3. Reads'
      BY <1>1, <2>1, <2>2 DEF FetchDevice, Reads, Session
    <2> QED
      BY <2>1, <2>3, FetchStep DEF Fetched, FetchDevice, Fetches, Reads
  <1>3. CASE \E t \in {None} \cup NetworkTexts : FetchNetwork(t)
    <2>1. PICK t \in {None} \cup NetworkTexts : FetchNetwork(t)
      BY <1>3
    <2>2. ~Session(request) => t = None
      BY <2>1 DEF FetchNetwork, Answers
    <2>3. Reads'
      BY <1>1, <2>1, <2>2 DEF FetchNetwork, Reads, Session
    <2> QED
      BY <2>1, <2>3, FetchStep DEF Fetched, FetchNetwork, Fetches, Reads, CloseClient
  <1>4. CASE \E t \in {None} \cup DeviceTexts : FetchVersion(t)
    <2>1. PICK t \in {None} \cup DeviceTexts : FetchVersion(t)
      BY <1>4
    <2>2. ~Session(request) => t = None
      BY <2>1 DEF FetchVersion, Answers
    <2>3. Reads'
      BY <1>1, <2>1, <2>2 DEF FetchVersion, Reads, Session
    <2> QED
      BY <2>1, <2>3, FetchStep DEF Fetched, FetchVersion, Fetches, Reads, CloseClient
  <1>5. CASE FetchRaises
    <2>1. Reads'
      BY <1>1, <1>5 DEF FetchRaises, Reads, Session
    <2> QED
      BY <1>1, <1>5, <2>1, FetchStep DEF Fetched, FetchRaises, Fetches, Reads, CloseClient
  <1> QED
    BY <1>2, <1>3, <1>4, <1>5

LEMMA RejectStep == ASSUME IInv, Reject PROVE IInv'
  <1>1. TypeOK'
    BY DEF IInv, Reject, TypeOK, Ended
  <1>2. Reads'
    BY DEF IInv, Reject, Reads, Session
  <1>3. Modes' /\ Kept'
    BY DEF IInv, Reject, Modes, Kept, AtWork, Fetches, Forced, Fallback, HasCredentials,
           Untouched, NoneIsSure
  <1>4. AnswerIsBest' /\ Honest(result)'
    BY DEF IInv, Reject, AnswerIsBest, Honest
  <1> QED
    BY <1>1, <1>2, <1>3, <1>4 DEF IInv

LEMMA CancelStep == ASSUME IInv, Cancel PROVE IInv'
  <1>1. TypeOK'
    BY DEF IInv, Cancel, TypeOK, Ended
  <1>2. Reads'
    BY DEF IInv, Cancel, Reads, Session
  <1>3. Modes' /\ Kept'
    BY DEF IInv, Cancel, Modes, Kept, AtWork, Fetches, Forced, Fallback, HasCredentials,
           Untouched, NoneIsSure
  <1>4. AnswerIsBest' /\ Honest(result)'
    BY DEF IInv, Cancel, AnswerIsBest, Honest
  <1> QED
    BY <1>1, <1>2, <1>3, <1>4 DEF IInv

\* The force probe begins, at once or after the vendor's adapter.
LEMMA StartForceStep ==
    ASSUME IInv, pc \in {"start", "discover", "extract"}, mode = "vendor", StartForce,
           UNCHANGED <<request, minConfidence, result>>,
           Forced \/ Fallback(request),
           tried' \in [Mode -> [Vendor -> Outcome]],
           Untouched("force")', NoneIsSure'
    PROVE  IInv'
  <1>1. /\ mode' = "force" /\ adapter' = [NoAdapter EXCEPT !.vendor = "dahua"]
        /\ todo' = <<"hikvision">> /\ best' = NoResult /\ pc' = "device"
        /\ clients' = clients + 1
    BY Order DEF StartForce, StartAdapter
  <1>2. adapter'.vendor = "dahua" /\ adapter'.vendor \in Vendor
    BY <1>1 DEF NoAdapter, Vendor
  <1>3. TypeOK'
    <2>1. todo' \in {<<>>, Registered, Tail(Registered)} /\ mode' \in Mode
      BY <1>1, Order DEF Mode
    <2>2. clients' = 1 /\ result' = NoResult
      BY <1>1 DEF IInv, TypeOK, Ended
    <2> QED
      BY <1>1, <1>2, <2>1, <2>2 DEF TypeOK, Ended
  <1>4. Reads'
    BY <1>1 DEF IInv, Reads, NoAdapter, Session
  <1>5. Modes' /\ Kept'
    BY <1>1, <1>2 DEF Modes, Kept, AtWork, Fetches, Forced, Fallback, HasCredentials
  <1>6. AnswerIsBest' /\ Honest(result)'
    BY <1>1 DEF IInv, AnswerIsBest, Honest
  <1> QED
    BY <1>3, <1>4, <1>5, <1>6 DEF IInv

\* Neither discovery nor the vendor's adapter has given anything sure.
LEMMA FallBackStep ==
    ASSUME IInv, pc \in {"discover", "extract"}, mode = "vendor", FallBack, ~Forced,
           UNCHANGED <<request, minConfidence>>,
           tried' \in [Mode -> [Vendor -> Outcome]],
           Untouched("force")', NoneIsSure'
    PROVE  IInv'
  <1>1. CASE Fallback(request)
    BY <1>1, StartForceStep DEF FallBack
  <1>2. CASE ~Fallback(request)
    <2>1. /\ pc' = "answered" /\ result' = Failure
          /\ UNCHANGED <<mode, todo, adapter, clients, best>>
      BY <1>2 DEF FallBack
    <2>2. TypeOK'
      BY <2>1, NoResultIsNone DEF IInv, TypeOK, Ended
    <2>3. Reads'
      BY <2>1 DEF IInv, Reads, Session
    <2>4. Modes' /\ Kept'
      BY <2>1 DEF Modes, Kept, AtWork, Fetches
    <2>5. AnswerIsBest'
      <3>1. {c \in {tried'["vendor"][v] : v \in Vendor} : c >= minConfidence'} = {}
        BY DEF NoneIsSure, IInv, TypeOK, Reads, Outcome, Mode, Raised, Untried
      <3>2. {tried'["force"][v] : v \in Vendor} = {Untried}
        BY DEF Untouched, Vendor
      <3> QED
        BY <1>2, <2>1, <3>1, <3>2 DEF AnswerIsBest, Forced, Fallback, HasCredentials
    <2>6. Honest(result)'
      BY <2>1, NothingIsHonest DEF Honest
    <2> QED
      BY <2>2, <2>3, <2>4, <2>5, <2>6 DEF IInv
  <1> QED
    BY <1>1, <1>2

LEMMA AcceptStep == ASSUME IInv, Accept PROVE IInv'
  <1>1. /\ pc = "start" /\ mode = "vendor" /\ Untouched("vendor") /\ Untouched("force")
        /\ minConfidence \in {50, 70} /\ tried \in [Mode -> [Vendor -> Outcome]]
    BY DEF IInv, Accept, Modes, Reads, TypeOK
  <1>2. UNCHANGED <<request, minConfidence, result, tried>>
    BY DEF Accept
  <1>3. Untouched("force")' /\ Untouched("vendor")' /\ NoneIsSure'
    BY <1>1, <1>2 DEF Untouched, NoneIsSure, Untried
  <1>4. CASE Forced
    BY <1>1, <1>2, <1>3, <1>4, StartForceStep DEF Accept, Forced
  <1>5. CASE ~Forced
    <2>1. pc' = "discover" /\ UNCHANGED <<mode, todo, adapter, clients, best>>
      BY <1>5 DEF Accept, Forced
    <2>2. TypeOK'
      BY <1>1, <1>2, <2>1 DEF IInv, TypeOK, Ended
    <2>3. Reads'
      BY <1>2, <2>1 DEF IInv, Reads, Session
    <2>4. Modes' /\ Kept'
      BY <1>1, <1>2, <1>3, <1>5, <2>1 DEF Modes, Kept, AtWork, Fetches, Forced, HasCredentials
    <2>5. AnswerIsBest' /\ Honest(result)'
      BY <1>2, <2>1 DEF IInv, AnswerIsBest, Honest
    <2> QED
      BY <2>2, <2>3, <2>4, <2>5 DEF IInv
  <1> QED
    BY <1>4, <1>5

LEMMA DiscoveredStep == ASSUME IInv, NEW d \in DetectResult, Discovered(d) PROVE IInv'
  <1>1. /\ pc = "discover" /\ mode = "vendor" /\ ~Forced
        /\ Untouched("vendor") /\ Untouched("force")
        /\ minConfidence \in {50, 70} /\ tried \in [Mode -> [Vendor -> Outcome]]
    BY DEF IInv, Discovered, Modes, Reads, TypeOK
  <1>2. UNCHANGED <<request, minConfidence, tried>>
    BY DEF Discovered
  <1>3. Untouched("force")' /\ Untouched("vendor")' /\ NoneIsSure'
    BY <1>1, <1>2 DEF Untouched, NoneIsSure, Untried
  <1>4. CASE FallBack
    BY <1>1, <1>2, <1>3, <1>4, FallBackStep
  <1>5. CASE /\ Normalize(d.vendor) \in Vendor /\ StartAdapter("vendor", Normalize(d.vendor))
             /\ UNCHANGED <<todo, best, result>>
    <2>1. /\ mode' = "vendor" /\ adapter' = [NoAdapter EXCEPT !.vendor = Normalize(d.vendor)]
          /\ pc' = "device" /\ clients' = clients + 1
      BY <1>5 DEF StartAdapter
    <2>2. adapter'.vendor \in Vendor
      BY <1>5, <2>1 DEF NoAdapter
    <2>3. TypeOK'
      BY <1>1, <1>2, <1>5, <2>1, <2>2 DEF IInv, TypeOK, Mode, Ended
    <2>4. Reads'
      BY <1>2, <2>1 DEF IInv, Reads, NoAdapter, Session
    <2>5. Modes' /\ Kept'
      BY <1>1, <1>2, <1>3, <2>1, <2>2 DEF Modes, Kept, AtWork, Fetches, Forced, HasCredentials
    <2>6. AnswerIsBest' /\ Honest(result)'
      BY <1>2, <1>5, <2>1 DEF IInv, AnswerIsBest, Honest
    <2> QED
      BY <2>3, <2>4, <2>5, <2>6 DEF IInv
  <1> QED
    BY <1>4, <1>5 DEF Discovered

\* The vendor's adapter is through.
LEMMA VendorStep ==
    ASSUME IInv, pc = "extract", mode = "vendor", NEW r, r = NoResult \/ Found(r), Through(r)
    PROVE  IInv'
  <1>1. /\ ~Forced /\ Untouched("vendor") /\ Untouched("force") /\ adapter.vendor \in Vendor
        /\ minConfidence \in {50, 70} /\ tried \in [Mode -> [Vendor -> Outcome]]
    BY DEF IInv, Modes, AtWork, Reads, TypeOK
  <1>2. /\ UNCHANGED <<request, minConfidence>>
        /\ tried' = [tried EXCEPT !["vendor"][adapter.vendor] = r.confidence]
    BY DEF Through
  <1>3. r.confidence \in Outcome \ {Untried}
    BY NoResultIsNone DEF Found, Outcome, Raised, Untried
  <1>4. tried' \in [Mode -> [Vendor -> Outcome]]
    BY <1>1, <1>2, <1>3 DEF Mode
  <1>5. /\ tried'["force"] = tried["force"]
        /\ \A v \in Vendor : tried'["vendor"][v] =
              IF v = adapter.vendor THEN r.confidence ELSE tried["vendor"][v]
    BY <1>1, <1>2 DEF Mode
  <1>6. Untouched("force")'
    BY <1>1, <1>5 DEF Untouched
  <1>7. CASE r # NoResult /\ IsProbeSuccess(r.confidence)
    <2>1. pc' = "answered" /\ result' = r /\ UNCHANGED <<mode, todo, adapter, clients, best>>
      BY <1>7 DEF Through, AfterVendor
    <2>2. TypeOK'
      BY <1>4, <1>7, <2>1 DEF IInv, TypeOK, Ended
    <2>3. Reads'
      BY <1>2, <2>1 DEF IInv, Reads, Session
    <2>4. Modes' /\ Kept'
      BY <1>6, <2>1 DEF Modes, Kept, AtWork, Fetches
    <2>5. AnswerIsBest'
      <3> DEFINE sure == {c \in {tried'["vendor"][v] : v \in Vendor} : c >= minConfidence'}
      <3>1. r.confidence \in sure
        BY <1>1, <1>2, <1>5, <1>7 DEF IsProbeSuccess
      <3>2. {tried'["force"][v] : v \in Vendor} = {Untried}
        BY <1>6 DEF Untouched, Vendor
      <3> QED
        BY <1>1, <1>2, <2>1, <3>1, <3>2 DEF AnswerIsBest, Forced, HasCredentials
    <2>6. Honest(result)'
      BY <1>2, <1>7, <2>1 DEF Found, Honest
    <2> QED
      BY <2>2, <2>3, <2>4, <2>5, <2>6 DEF IInv
  <1>8. CASE ~(r # NoResult /\ IsProbeSuccess(r.confidence))
    <2>1. r.confidence < minConfidence
      BY <1>1, <1>8, NoResultIsNone DEF Found, IsProbeSuccess
    <2>2. NoneIsSure'
      BY <1>1, <1>2, <1>5, <2>1 DEF NoneIsSure, Untouched, Untried
    <2>3. FallBack
      BY <1>8 DEF Through, AfterVendor
    <2> QED
      BY <1>1, <1>2, <1>4, <1>6, <2>2, <2>3, FallBackStep
  <1> QED
    BY <1>7, <1>8

\* The force probe answers: with the adapter that was sure, or at the end with
\* the best it has kept.
LEMMA ForcedAnswer ==
    ASSUME IInv, pc = "extract", mode = "force", pc' = "answered",
           UNCHANGED <<request, minConfidence, mode, todo, adapter, clients>>,
           tried' \in [Mode -> [Vendor -> Outcome]], NoneIsSure', Honest(result)',
           result' # NoResult, result'.confidence \in Int,
           \A v \in Vendor : tried'["force"][v] <= result'.confidence,
           result'.confidence \in {tried'["force"][v] : v \in Vendor} \cup {0},
           result'.confidence >= 0,
           Untried \in {tried'["force"][v] : v \in Vendor} => result'.confidence >= 70
    PROVE  IInv'
  <1>1. Forced \/ Fallback(request)
    BY DEF IInv, Modes
  <1>2. TypeOK'
    BY DEF IInv, TypeOK, Ended
  <1>3. Reads'
    BY DEF IInv, Reads, Session
  <1>4. Modes' /\ Kept'
    BY <1>1 DEF Modes, Kept, AtWork, Fetches, Forced, Fallback, HasCredentials
  <1>5. AnswerIsBest'
    <2> DEFINE forced == {tried'["force"][v] : v \in Vendor}
               own    == {tried'["vendor"][v] : v \in Vendor}
    <2>1. forced \subseteq Int /\ own \subseteq Int
      BY DEF Outcome, Mode, Raised, Untried
    <2>2. result'.confidence = Max(forced \cup {0})
      <3>1. /\ forced \cup {0} \in SUBSET Int /\ result'.confidence \in forced \cup {0}
            /\ \A y \in forced \cup {0} : y <= result'.confidence
        BY <2>1
      <3> HIDE DEF forced
      <3> QED
        BY <3>1, ExactMax
    <2>3. {c \in own : c >= minConfidence'} = {}
      <3>1. minConfidence' \in Int
        BY DEF IInv, Reads
      <3>2. \A c \in own : c \in Int /\ c < minConfidence'
        <4>1. \A v \in Vendor : tried'["vendor"][v] < minConfidence'
          BY DEF NoneIsSure
        <4> QED
          BY <2>1, <4>1
      <3> HIDE DEF own
      <3>3. \A c \in own : ~(c >= minConfidence')
        BY <3>1, <3>2
      <3> QED
        BY <3>3
    <2> QED
      BY <1>1, <2>2, <2>3 DEF AnswerIsBest, Forced, Fallback, HasCredentials
  <1> QED
    BY <1>2, <1>3, <1>4, <1>5 DEF IInv

LEMMA ForcedStep ==
    ASSUME IInv, pc = "extract", mode = "force", NEW r, r = NoResult \/ Found(r), Through(r)
    PROVE  IInv'
  <1>1. /\ (Forced \/ Fallback(request)) /\ NoneIsSure /\ adapter.vendor \in Vendor
        /\ minConfidence \in {50, 70} /\ tried \in [Mode -> [Vendor -> Outcome]]
    BY DEF IInv, Modes, AtWork, Reads, TypeOK
  <1>2. /\ UNCHANGED <<request, minConfidence>>
        /\ tried' = [tried EXCEPT !["force"][adapter.vendor] = r.confidence]
        /\ AfterForced(r)
    BY DEF Through
  <1>3. r.confidence \in {Raised, 60, 72, 80, 95} /\ (r = NoResult <=> r.confidence = Raised)
    BY NoResultIsNone DEF Found, Raised
  <1>4. tried' \in [Mode -> [Vendor -> Outcome]]
    BY <1>1, <1>2, <1>3 DEF Mode, Outcome
  <1>5. /\ tried'["vendor"] = tried["vendor"]
        /\ \A v \in Vendor : tried'["force"][v] =
              IF v = adapter.vendor THEN r.confidence ELSE tried["force"][v]
    BY <1>1, <1>2 DEF Mode
  <1>6. NoneIsSure'
    BY <1>1, <1>2, <1>5 DEF NoneIsSure
  <1>7. Kept /\ Honest(NoResult)' /\ Honest(Failure)' /\ (Found(r) => Honest(r)')
    BY <1>2, NothingIsHonest DEF IInv, Honest, Found
  <1>8. CASE adapter.vendor = "dahua"
    <2>1. todo = <<"hikvision">> /\ best = NoResult /\ tried["force"]["hikvision"] = Untried
      BY <1>7, <1>8, Order DEF Kept, AtWork, Untouched, Vendor
    <2>2. tried'["force"]["dahua"] = r.confidence /\ tried'["force"]["hikvision"] = Untried
      BY <1>5, <1>8, <2>1 DEF Vendor
    <2>3. CASE r # NoResult /\ SureEnough(r)
      <3>1. /\ pc' = "answered" /\ result' = r
            /\ UNCHANGED <<mode, todo, adapter, clients>>
        BY <1>2, <2>3 DEF AfterForced
      <3>2. r.confidence >= 70 /\ Honest(result)'
        BY <1>7, <2>3, <3>1 DEF SureEnough, Honest
      <3>3. \A v \in Vendor : tried'["force"][v] <= result'.confidence
        BY <1>3, <2>2, <3>1, <3>2 DEF Vendor, Untried, Raised
      <3>4. result'.confidence \in {tried'["force"][v] : v \in Vendor} \cup {0}
        BY <2>2, <3>1 DEF Vendor
      <3> QED
        BY <1>2, <1>3, <1>4, <1>6, <2>3, <3>1, <3>2, <3>3, <3>4, ForcedAnswer DEF Raised
    <2>4. CASE ~(r # NoResult /\ SureEnough(r))
      <3>1. StartAdapter("force", Head(todo)) /\ todo' = Remaining /\ UNCHANGED result
        BY <1>2, <2>1, <2>4, Order DEF AfterForced
      <3>2. /\ mode' = "force" /\ adapter' = [NoAdapter EXCEPT !.vendor = "hikvision"]
            /\ todo' = <<>> /\ pc' = "device" /\ clients' = clients + 1
        BY <2>1, <3>1, Order DEF StartAdapter, Remaining
      <3>3. adapter'.vendor = "hikvision" /\ adapter'.vendor \in Vendor
        BY <3>2 DEF NoAdapter, Vendor
      <3>4. best' = r /\ (r = NoResult \/ (Found(r) /\ r.confidence < 70))
        BY <1>2, <1>3, <2>1, <2>4 DEF AfterForced, BetterOf, SureEnough, Found
      <3>5. TypeOK'
        <4>1. clients' = 1 /\ result' = NoResult
          BY <3>1, <3>2 DEF IInv, TypeOK, Ended
        <4> QED
          BY <1>4, <3>2, <3>3, <4>1 DEF TypeOK, Ended, Mode
      <3>6. Reads'
        BY <1>2, <3>2 DEF IInv, Reads, NoAdapter, Session
      <3>7. Modes'
        BY <1>1, <1>2, <1>6, <3>2, <3>3
        DEF Modes, AtWork, Fetches, Forced, Fallback, HasCredentials
      <3>8. Kept'
        BY <1>2, <1>3, <2>2, <3>2, <3>3, <3>4 DEF Kept, Found, Honest
      <3>9. AnswerIsBest' /\ Honest(result)'
        BY <1>2, <3>1, <3>2 DEF IInv, AnswerIsBest, Honest
      <3> QED
        BY <3>5, <3>6, <3>7, <3>8, <3>9 DEF IInv
    <2> QED
      BY <2>3, <2>4
  <1>9. CASE adapter.vendor = "hikvision"
    <2>1. /\ todo = <<>>
          /\ \/ tried["force"]["dahua"] = Raised /\ best = NoResult
             \/ /\ tried["force"]["dahua"] = best.confidence
                /\ Found(best) /\ best.confidence < 70
      BY <1>7, <1>9 DEF Kept, AtWork
    <2>2. /\ tried'["force"]["hikvision"] = r.confidence
          /\ tried'["force"]["dahua"] = tried["force"]["dahua"]
      BY <1>5, <1>9 DEF Vendor
    <2>3. /\ best.confidence \in {Raised, 60} /\ tried["force"]["dahua"] = best.confidence
          /\ best = NoResult <=> best.confidence = Raised
      BY <2>1, NoResultIsNone DEF Found, Raised
    <2>4. /\ pc' = "answered" /\ UNCHANGED <<mode, todo, adapter, clients>>
          /\ result' = IF r # NoResult /\ SureEnough(r) THEN r
                       ELSE IF best' = NoResult THEN Failure ELSE best'
      BY <1>2, <2>1 DEF AfterForced
    <2>5. best' \in {best, r}
          /\ best'.confidence = IF r.confidence > best.confidence THEN r.confidence
                                ELSE best.confidence
      BY <1>2, <1>3, <2>1, <2>3, NoResultIsNone DEF AfterForced, BetterOf, Raised
    <2>6. result' = Failure \/ (result' \in {best, r} /\ Found(result'))
      BY <1>3, <2>1, <2>3, <2>4, <2>5, NoResultIsNone DEF Raised, Found
    <2>7. Honest(result)' /\ result' # NoResult
      BY <1>2, <1>7, <2>6, NoResultIsNone DEF Honest, Found
    <2>8. /\ result'.confidence \in {0, r.confidence, best.confidence}
          /\ result'.confidence >= 0 /\ result'.confidence \in Int
          /\ r.confidence <= result'.confidence /\ best.confidence <= result'.confidence
      <3>1. CASE r # NoResult /\ SureEnough(r)
        BY <1>3, <2>3, <2>4, <3>1 DEF Raised, SureEnough
      <3>2. CASE ~(r # NoResult /\ SureEnough(r)) /\ best' = NoResult
        <4>1. result'.confidence = 0
          BY <2>4, <3>2, NoResultIsNone
        <4>2. best'.confidence = -1
          BY <3>2, NoResultIsNone
        <4> QED
          BY <1>3, <2>3, <2>5, <4>1, <4>2 DEF Raised
      <3>3. CASE ~(r # NoResult /\ SureEnough(r)) /\ best' # NoResult
        <4>1. result' = best' /\ best'.confidence # Raised
          BY <1>3, <2>3, <2>4, <2>5, <3>3
        <4> QED
          BY <1>3, <2>3, <2>5, <4>1 DEF Raised
      <3> QED
        BY <3>1, <3>2, <3>3
    <2>9. \A v \in Vendor : tried'["force"][v] <= result'.confidence
      BY <2>2, <2>3, <2>8 DEF Vendor
    <2>10. result'.confidence \in {tried'["force"][v] : v \in Vendor} \cup {0}
      BY <2>2, <2>3, <2>8 DEF Vendor
    <2>11. Untried \notin {tried'["force"][v] : v \in Vendor}
      BY <1>3, <2>2, <2>3 DEF Vendor, Untried, Raised
    <2> QED
      BY <1>2, <1>4, <1>6, <2>4, <2>7, <2>8, <2>9, <2>10, <2>11, ForcedAnswer
  <1> QED
    BY <1>1, <1>8, <1>9 DEF Vendor

LEMMA ExtractStep == ASSUME IInv, Extract PROVE IInv'
  <1>1. PICK r : (r = NoResult \/ Found(r)) /\ Through(r)
    BY AdapterIsHonest DEF Extract, IInv
  <1>2. pc = "extract" /\ mode \in Mode
    BY DEF Extract, IInv, TypeOK
  <1> QED
    BY <1>1, <1>2, VendorStep, ForcedStep DEF Mode

LEMMA StutterStep == ASSUME IInv, UNCHANGED vars PROVE IInv'
  <1>1. TypeOK' /\ Reads'
    BY DEF IInv, vars, TypeOK, Reads, Session
  <1>2. Modes' /\ Kept'
    BY DEF IInv, vars, Modes, Kept, AtWork, Fetches, Forced, Fallback, HasCredentials,
           Untouched, NoneIsSure, Found, Honest
  <1>3. AnswerIsBest' /\ Honest(result)'
    BY DEF IInv, vars, AnswerIsBest, Honest
  <1> QED
    BY <1>1, <1>2, <1>3 DEF IInv

LEMMA Inductive == ASSUME IInv, [Next]_vars PROVE IInv'
  BY RejectStep, AcceptStep, DiscoveredStep, FetchSteps, ExtractStep, CancelStep, StutterStep
  DEF Next, Step

-----------------------------------------------------------------------------
(* The theorems                                                            *)

\* The inductive invariant: what an adapter can have read, which mode may be at
\* work, and what the force probe has kept.
THEOREM Invariant == Spec => []IInv
  <1>1. Init => IInv
    BY InitHolds
  <1>2. IInv /\ [Next]_vars => IInv'
    BY Inductive
  <1> QED
    BY <1>1, <1>2, PTL DEF Spec

\* The variables keep their types, and a client is open only while its adapter
\* fetches, whatever the device answers and whoever raises or is cancelled.
THEOREM TypeCorrect == Spec => []TypeOK
  <1>1. IInv => TypeOK
    BY DEF IInv
  <1> QED
    BY <1>1, Invariant, PTL

\* The answer is the best that was found: a sure one of the vendor's adapter,
\* else the best of all, and no adapter's exception reaches the caller.
THEOREM AnswerIsBestHolds == Spec => []AnswerIsBest
  <1>1. IInv => AnswerIsBest
    BY DEF IInv
  <1> QED
    BY <1>1, Invariant, PTL

\* A confidence is earned by what the device has told to a client with a user
\* and a password.
THEOREM EarnedConfidenceHolds == Spec => []EarnedConfidence
  <1>1. IInv => EarnedConfidence
    BY DEF IInv, Honest, EarnedConfidence, Identity
  <1> QED
    BY <1>1, Invariant, PTL
=============================================================================
