--------------------------- MODULE ProtocolProbes ---------------------------
(***************************************************************************)
(* DiscoveryEngine._detect_internal with what its probes do and find:      *)
(* RTSP OPTIONS and DESCRIBE, the HTTP fingerprint and the ONVIF fallback  *)
(* of infrastructure/discovery.  The slots, the deadline's teardown and    *)
(* cancellation are in DiscoveryEngine; here is the evidence.              *)
(*                                                                         *)
(* A device is a record of what it would answer.  Every wait may end in a  *)
(* timeout or an error instead, a TCP read returns any beginning of what   *)
(* was sent, and the datagram of another camera may come first.            *)
(***************************************************************************)
EXTENDS Integers, Sequences, Sdp, Fingerprints

CONSTANTS
    Device,      \* the devices, see DeviceAssumption
    Credentials, \* among "none", "good", "bad"
    Timeout      \* values of timeout_per_port, in tenths of a second

\* The vendor endpoints of one port in the order of VENDOR_HTTP_MARKERS.
Endpoints == << [brand |-> "hikvision", url |-> {}], [brand |-> "hikvision", url |-> {}],
                [brand |-> "dahua", url |-> {"magicbox.cgi"}], [brand |-> "dahua", url |-> {}],
                [brand |-> "uniview", url |-> {}], [brand |-> "xiongmai", url |-> {}] >>

HttpPort == [answers : SUBSET DOMAIN Endpoints,   \* with status 200, 401 or 403
             page : {"none", "open", "challenge", "forbidden"},   \* DEFAULT_PATHS
             realm : SUBSET RealmWord, server : SUBSET ServerWord,
             onvif : BOOLEAN]                     \* it is one of ONVIF_PORTS

Url == {"advertised", "http", "https"}

ASSUME DeviceAssumption == \A d \in Device :
    /\ d.rtsp \in BOOLEAN /\ d.server \subseteq ServerWord
    /\ d.demand \in {"none", "digest", "basic"}   \* of a DESCRIBE
    /\ d.sdp \in Seq(Line)
    /\ d.http \in Seq(HttpPort)                   \* the open ports as _sort_ports has them
    /\ d.multicast \in {"silent", "bare", "xaddr"}
    /\ d.services \subseteq {"http", "https"}     \* /onvif/device_service answers 200 or 401
    /\ d.talks \subseteq Url                      \* GetDeviceInformation is served there
    /\ d.info \in {"open", "protected", "none"}
    /\ d.maker \subseteq MakerWord /\ d.model \subseteq ModelWord
ASSUME OptionsAssumption ==
    Credentials \subseteq {"none", "good", "bad"} /\ Timeout \subseteq Nat

MulticastTimeout == 20      \* onvif_probe(ip) waits 2.0 s

VARIABLES
    device, creds, timeout,   \* fixed at the start
    stage,     \* of _detect_internal
    open,      \* open_ports, those of HTTP by their place in device.http
    pc,        \* where each probe stands
    sockets,   \* the RTSP connections that are open
    stream,    \* what the device has sent on the DESCRIBE connection, unread
    ev,        \* evidence
    sdp, info, \* what DESCRIBE and ONVIF are going to return
    xaddrs,
    result,
    \* of the environment and of what went out:
    lost,      \* some answer was lost or came in parts
    stranger,  \* another camera's datagram came first, or the probe was not sent
    used       \* where the credentials have gone

vars == <<device, creds, timeout, stage, open, pc, sockets, stream, ev, sdp, info,
          xaddrs, result, lost, stranger, used>>
fixed == <<device, creds, timeout>>

Probe == {"options", "http", "describe", "onvif"}
Head_(x) == [key |-> "head", about |-> x]   \* a line that is no part of a description
NoSdp == <<Head_("none")>>
NoInfo == [maker |-> {}, model |-> {}]
NotYet == [vendor |-> NoVendor, confidence |-> 0, method |-> "pending"]
NoServices == By("no_services", NoVendor, 0)
TimedOut == By("timeout", NoVendor, 0)

Init ==
    /\ device \in Device /\ creds \in Credentials /\ timeout \in Timeout
    /\ stage = "tcp"
    /\ open = [rtsp |-> FALSE, http |-> {}]
    /\ pc = [p \in Probe |-> "off"]
    /\ sockets = {} /\ stream = <<>>
    /\ ev = NoEvidence /\ sdp = NoSdp /\ info = NoInfo /\ xaddrs = <<>>
    /\ result = NotYet
    /\ lost = FALSE /\ stranger = FALSE /\ used = {}

Over(p) == pc[p] \in {"off", "done"}
HttpPorts == DOMAIN device.http

----------------------------------------------------------------------------
(* The stages                                                              *)

\* tcp_probe_ports, and what it opens the way for.
TcpProbed ==
    /\ stage = "tcp"
    /\ \E r \in {FALSE, device.rtsp}, ports \in SUBSET HttpPorts :
          /\ open' = [rtsp |-> r, http |-> ports]
          /\ lost' = (r # device.rtsp \/ ports # HttpPorts)
    /\ IF open'.rtsp \/ open'.http # {}
       THEN /\ stage' = "first"
            /\ pc' = [pc EXCEPT !.options = IF open'.rtsp THEN "connect" ELSE @,
                                !.http = IF open'.http # {} THEN "vendors" ELSE @]
            /\ UNCHANGED result
       ELSE stage' = "done" /\ result' = NoServices /\ UNCHANGED pc
    /\ UNCHANGED <<fixed, sockets, stream, ev, sdp, info, xaddrs, stranger, used>>

\* Both first probes are over: a result, or the fallback.
FirstOver ==
    /\ stage = "first" /\ Over("options") /\ Over("http")
    /\ IF ResultFrom(ev) # Unknown
       THEN stage' = "done" /\ result' = ResultFrom(ev) /\ UNCHANGED pc
       ELSE /\ stage' = "fallback"
            /\ pc' = [pc EXCEPT
                  !.describe = IF open.rtsp THEN "connect" ELSE @,
                  !.onvif = IF \E i \in open.http : device.http[i].onvif
                            THEN "multicast" ELSE @]
            /\ UNCHANGED result
    /\ UNCHANGED <<fixed, open, sockets, stream, ev, sdp, info, xaddrs, lost, stranger, used>>

Has(lines, about) == \E i \in DOMAIN lines : lines[i].about = about
RawOf(lines) ==
    {x \in {"packetization-supported:dh", "mediainfo"} :
        \/ x = "mediainfo" /\ Has(lines, "mediainfo")
        \/ x # "mediainfo" /\ Has(lines, "packetization:dh")}

\* A version that leaves the markers to DESCRIBE, which adds them beside a
\* video section only.
WithVideo(e, lines) ==
    IF lines = NoSdp THEN e
    ELSE [e EXCEPT !.raw = RawOf(lines), !.parsed = TRUE,
                   !.markers = IF Has(lines, "video") THEN Markers(ParseSdp(lines)) ELSE {}]
\* The evidence with what DESCRIBE and ONVIF returned.
WithSdp(e, lines) ==
    IF lines = NoSdp THEN e
    ELSE [e EXCEPT !.raw = RawOf(lines), !.parsed = TRUE, !.markers = Markers(ParseSdp(lines))]
WithInfo(e, i) == [e EXCEPT !.maker = i.maker, !.model = i.model]

FallbackOver ==
    /\ stage = "fallback" /\ Over("describe") /\ Over("onvif")
    /\ ev' = WithInfo(WithSdp(ev, sdp), info)
    /\ result' = ResultFrom(ev')
    /\ stage' = "done"
    /\ UNCHANGED <<fixed, open, pc, sockets, stream, sdp, info, xaddrs, lost, stranger, used>>

\* The total deadline cancels whatever runs; RTSP closes its sockets.
Deadline ==
    /\ stage # "done"
    /\ stage' = "done" /\ result' = TimedOut
    /\ pc' = [p \in Probe |-> IF Over(p) THEN pc[p] ELSE "done"]
    /\ sockets' = {}
    /\ UNCHANGED <<fixed, open, stream, ev, sdp, info, xaddrs, lost, stranger, used>>

----------------------------------------------------------------------------
(* RTSP OPTIONS: rtsp.py                                                   *)

\* A version that closes the socket on the way of a good answer only.
ClosesOnAnswer(p) == sockets' = IF lost' THEN sockets ELSE sockets \ {p}
Close(p) == sockets' = sockets \ {p}
Done(p) == pc' = [pc EXCEPT ![p] = "done"]
\* The variables that the two RTSP probes and the HTTP probe leave alone.
others == <<fixed, stage, open, info, xaddrs, result, stranger>>

OptionsConnects ==
    /\ pc.options = "connect"
    /\ pc' = [pc EXCEPT !.options = "read"]
    /\ sockets' = sockets \cup {"options"}
    /\ UNCHANGED <<others, stream, ev, sdp, lost, used>>

\* One read of 2048 bytes: the Server line is in it or not.
OptionsAnswered ==
    /\ pc.options = "read"
    /\ \E whole \in BOOLEAN :
          /\ ev' = IF whole THEN [ev EXCEPT !.rtspServer = device.server] ELSE ev
          /\ lost' = (lost \/ ~whole)
    /\ Close("options") /\ Done("options")
    /\ UNCHANGED <<others, stream, sdp, used>>

\* A connection, a write or a read times out or fails: a probe returns what
\* it has.
RtspFails(p) ==
    /\ pc[p] \in {"connect", "read", "first", "second"}
    /\ lost' = TRUE
    /\ Close(p) /\ Done(p)
    /\ UNCHANGED <<others, stream, ev, sdp, used>>

----------------------------------------------------------------------------
(* RTSP DESCRIBE: rtsp_describe.py                                         *)

Described == <<Head_("application/sdp"), Head_("blank")>> \o device.sdp
Refused == <<Head_("401"), Head_(device.demand), Head_("blank"), Head_("body")>>

DescribeConnects ==
    /\ pc.describe = "connect"
    /\ pc' = [pc EXCEPT !.describe = "first"]
    /\ sockets' = sockets \cup {"describe"}
    /\ stream' = IF device.demand = "none" THEN Described ELSE Refused
    /\ UNCHANGED <<others, ev, sdp, lost, used>>

\* read(16384) returns at least one byte and not always the whole answer.
Reads(n) ==
    /\ n \in 1..Len(stream)
    /\ lost' = (lost \/ n < Len(stream))

\* The description in a response: all that follows the first blank line.
SdpIn(response) ==
    IF Has(response, "application/sdp") /\ Has(response, "blank")
    THEN LET b == CHOOSE i \in DOMAIN response :
                    response[i] = Head_("blank") /\ \A k \in 1..(i-1) : response[k] # Head_("blank")
         IN  SubSeq(response, b + 1, Len(response))
    ELSE NoSdp

\* A version that sends the credentials of its own accord.
WithoutChallenge(response) == creds # "none"
Challenged(response) ==
    Has(response, "401") /\ Has(response, "digest") /\ creds # "none"

\* The second request is sent on the same connection behind whatever of the
\* first answer is still unread.
DescribeFirst ==
    /\ pc.describe = "first"
    /\ \E n \in 1..Len(stream) :
          LET got == SubSeq(stream, 1, n)
              rest == SubSeq(stream, n + 1, Len(stream))
          IN  /\ Reads(n)
              /\ \/ /\ Challenged(got)
                    /\ used' = used \cup {"digest"}
                    /\ pc' = [pc EXCEPT !.describe = "second"]
                    /\ stream' = rest \o (IF creds = "good" THEN Described ELSE Refused)
                    /\ UNCHANGED <<sockets, sdp>>
                 \/ /\ ~Challenged(got)
                    /\ sdp' = SdpIn(got)
                    /\ stream' = rest
                    /\ Close("describe") /\ Done("describe")
                    /\ UNCHANGED used
    /\ UNCHANGED <<others, ev>>

DescribeSecond ==
    /\ pc.describe = "second"
    /\ \E n \in 1..Len(stream) :
          /\ Reads(n)
          /\ sdp' = SdpIn(SubSeq(stream, 1, n))
          /\ stream' = SubSeq(stream, n + 1, Len(stream))
    /\ Close("describe") /\ Done("describe")
    /\ UNCHANGED <<others, ev, used>>

----------------------------------------------------------------------------
(* The HTTP fingerprint: http.py                                           *)

\* The vendor requests of all ports in order, and those that are answered.
\* A version that takes any status for an answer.
AnyStatus(i) == DOMAIN Endpoints
Answers(i) == device.http[i].answers
Wave == open.http \X DOMAIN Endpoints
Answered == {a \in Wave : a[2] \in Answers(a[1])}
Earlier(a, b) == a[1] < b[1] \/ (a[1] = b[1] /\ a[2] < b[2])

\* The first answer in the order of the requests decides; those before it were
\* lost.
VendorAnswer(a) ==
    /\ ev' = [ev EXCEPT !.httpMarkers = {Endpoints[a[2]].brand},
                        !.url = Endpoints[a[2]].url,
                        !.realm = device.http[a[1]].realm]
    /\ lost' = (lost \/ \E b \in Answered : Earlier(b, a))
    /\ Done("http")

HttpVendors ==
    /\ pc.http = "vendors"
    /\ \/ \E a \in Answered : VendorAnswer(a)
       \/ /\ pc' = [pc EXCEPT !.http = "generic"]
          /\ lost' = (lost \/ Answered # {})
          /\ UNCHANGED ev
    /\ UNCHANGED <<others, sockets, stream, sdp, used>>

\* The pages are read in order up to the first that asks for a login; Server
\* is kept from the first one that has it, unless it comes with a challenge.
Pages(ports) == {i \in ports : device.http[i].page # "none"}
AsksLogin(i) == device.http[i].page \in {"challenge", "forbidden"}
UpToLogin(pages) == {i \in pages : \A k \in pages : k < i => ~AsksLogin(k)}
Challenges(pages) == {i \in pages : device.http[i].page = "challenge"}
Named(pages) == {i \in pages \ Challenges(pages) : device.http[i].server # {}}

GenericServer(pages) ==
    IF Named(pages) = {} THEN {}
    ELSE device.http[CHOOSE i \in Named(pages) : \A k \in Named(pages) : i <= k].server
GenericRealm(pages) == UNION {device.http[i].realm : i \in Challenges(pages)}

HttpGeneric ==
    /\ pc.http = "generic"
    /\ \E heard \in SUBSET Pages(open.http) :
          /\ ev' = [ev EXCEPT !.httpServer = GenericServer(UpToLogin(heard)),
                              !.realm = GenericRealm(UpToLogin(heard))]
          /\ lost' = (lost \/ heard # Pages(open.http))
    /\ Done("http")
    /\ UNCHANGED <<others, sockets, stream, sdp, used>>

----------------------------------------------------------------------------
(* The ONVIF fallback: engine.py, onvif.py, onvif_device.py                *)

rtspVars == <<fixed, stage, open, sockets, stream, ev, sdp, result>>
OnvifTo(s) == pc' = [pc EXCEPT !.onvif = s]

\* The device's own datagram is the first.
MulticastHeard ==
    /\ pc.onvif = "multicast"
    /\ device.multicast # "silent"
    /\ IF device.multicast = "xaddr"
       THEN xaddrs' = <<"advertised">> /\ OnvifTo("anonymous")
       ELSE xaddrs' = <<>> /\ OnvifTo("unicast")
    /\ UNCHANGED <<rtspVars, info, lost, stranger, used>>

\* Another camera's is, or sendto() fails: the probe returns at once.
MulticastForeign ==
    /\ pc.onvif = "multicast"
    /\ stranger' = TRUE
    /\ OnvifTo("unicast")
    /\ UNCHANGED <<rtspVars, info, xaddrs, lost, used>>

\* Nothing comes.  Its own 2.0 s let the probe go on, the engine's wait_for
\* ends it with TimeoutError; if both are due at once, either.
\* A version in which silence is always an error.
SilenceIsAnError == TRUE
OuterIsFirst == timeout <= MulticastTimeout
InnerIsFirst == timeout >= MulticastTimeout
MulticastSilent ==
    /\ pc.onvif = "multicast"
    /\ lost' = (lost \/ device.multicast # "silent")
    /\ \/ OuterIsFirst /\ OnvifTo("done")
       \/ InnerIsFirst /\ OnvifTo("unicast")
    /\ UNCHANGED <<rtspVars, info, xaddrs, stranger, used>>

\* onvif_unicast_probe and onvif_https_unicast_probe; HTTP goes first.
Unicast ==
    /\ pc.onvif = "unicast"
    /\ \E heard \in SUBSET device.services :
          /\ xaddrs' = (IF "http" \in heard THEN <<"http">> ELSE <<>>)
                        \o (IF "https" \in heard THEN <<"https">> ELSE <<>>)
          /\ lost' = (lost \/ heard # device.services)
    /\ OnvifTo(IF xaddrs' = <<>> THEN "done" ELSE "anonymous")
    /\ UNCHANGED <<rtspVars, info, stranger, used>>

Told == [maker |-> device.maker, model |-> device.model]
Serves(u) == u \in device.talks /\ device.info # "none"

\* GetDeviceInformation of the first XAddr, without credentials and, if that
\* gave nothing for any reason, with them.
Informed ==
    /\ info' = Told /\ OnvifTo("done")
    /\ UNCHANGED <<rtspVars, xaddrs, stranger, lost, used>>

TellsAnyone == Serves(xaddrs[1]) /\ device.info = "open"

AnonymousInformed ==
    /\ pc.onvif = "anonymous"
    /\ TellsAnyone
    /\ Informed

AnonymousInVain ==
    /\ pc.onvif = "anonymous"
    /\ lost' = (lost \/ TellsAnyone)
    /\ OnvifTo(IF creds = "none" THEN "done" ELSE "wsse")
    /\ used' = IF creds = "none" THEN used ELSE used \cup {"wsse"}
    /\ UNCHANGED <<rtspVars, info, xaddrs, stranger>>

WsseInformed ==
    /\ pc.onvif = "wsse"
    /\ Serves(xaddrs[1]) /\ creds = "good"
    /\ Informed

WsseInVain ==
    /\ pc.onvif = "wsse"
    /\ lost' = (lost \/ (Serves(xaddrs[1]) /\ creds = "good"))
    /\ OnvifTo("done")
    /\ UNCHANGED <<rtspVars, info, xaddrs, stranger, used>>

----------------------------------------------------------------------------
Options == OptionsConnects \/ OptionsAnswered \/ RtspFails("options")
Describe == DescribeConnects \/ DescribeFirst \/ DescribeSecond \/ RtspFails("describe")
Http == HttpVendors \/ HttpGeneric
Onvif ==
    \/ MulticastHeard \/ MulticastForeign \/ MulticastSilent
    \/ Unicast
    \/ AnonymousInformed \/ AnonymousInVain \/ WsseInformed \/ WsseInVain
Finished == stage = "done" /\ UNCHANGED vars

Next ==
    \/ TcpProbed \/ FirstOver \/ FallbackOver \/ Deadline
    \/ Options \/ Describe \/ Http \/ Onvif
    \/ Finished

Spec == Init /\ [][Next]_vars

----------------------------------------------------------------------------
(* Properties                                                              *)

\* The type invariant.  A socket belongs to a probe that is between its
\* connection and its end, so none is left when the detection is over.
TypeOK ==
    /\ stage \in {"tcp", "first", "fallback", "done"}
    /\ open.rtsp \in BOOLEAN /\ open.http \subseteq HttpPorts
    /\ pc.options \in {"off", "connect", "read", "done"}
    /\ pc.http \in {"off", "vendors", "generic", "done"}
    /\ pc.describe \in {"off", "connect", "first", "second", "done"}
    /\ pc.onvif \in {"off", "multicast", "unicast", "anonymous", "wsse", "done"}
    /\ sockets = {p \in {"options", "describe"} : pc[p] \in {"read", "first", "second"}}
    /\ ev \in Evidence
    /\ info \in {NoInfo, Told}
    /\ xaddrs \in {<<>>, <<"advertised">>, <<"http">>, <<"https">>, <<"http", "https">>}
    /\ result.vendor \in Vendor \cup {NoVendor} /\ result.confidence \in 0..97
    /\ lost \in BOOLEAN /\ stranger \in BOOLEAN /\ used \subseteq {"digest", "wsse"}

\* All that the device could say, if every request were answered in full.
SaysAll ==
    [markers |-> Markers(ParseSdp(device.sdp)), raw |-> RawOf(device.sdp), parsed |-> TRUE,
     rtspServer |-> device.server,
     httpServer |-> UNION {device.http[i].server : i \in DOMAIN device.http},
     httpMarkers |-> UNION {{Endpoints[k].brand : k \in device.http[i].answers} :
                               i \in DOMAIN device.http},
     url |-> UNION {UNION {Endpoints[k].url : k \in device.http[i].answers} :
                               i \in DOMAIN device.http},
     realm |-> UNION {device.http[i].realm : i \in DOMAIN device.http},
     maker |-> device.maker, model |-> device.model]

\* A vendor is named only if something that the device says speaks for it: lost
\* answers, answers cut at any point and answers read one request late take
\* evidence away and never make any up (rtsp_describe.py:75-89, http.py:72-94).
NothingInvented ==
    result.vendor # NoVendor =>
        \/ Matches(result.vendor, SaysAll)
        \/ \E a \in Scores(SaysAll) : a[1] = result.vendor

\* Credentials go out only where a request without them was turned away: in RTSP
\* only as the answer to a Digest challenge, in ONVIF not when the device tells
\* anyone who asks and its answer came (rtsp_describe.py:89-113,
\* onvif_device.py:44-110).
CredentialsAreAsked ==
    /\ used # {} => creds # "none"
    /\ "digest" \in used => device.demand = "digest"
    /\ "wsse" \in used => ~TellsAnyone \/ lost

\* What the device says, for a reader who sees all of it at once.
HttpSays ==
    LET answered == {a \in HttpPorts \X DOMAIN Endpoints : a[2] \in device.http[a[1]].answers}
        first == CHOOSE a \in answered : \A b \in answered \ {a} : Earlier(a, b)
        pages == UpToLogin(Pages(HttpPorts))
    IN  IF answered # {}
        THEN [NoEvidence EXCEPT !.httpMarkers = {Endpoints[first[2]].brand},
                                !.url = Endpoints[first[2]].url,
                                !.realm = device.http[first[1]].realm]
        ELSE [NoEvidence EXCEPT !.httpServer = GenericServer(pages), !.realm = GenericRealm(pages)]

FirstSays == [HttpSays EXCEPT !.rtspServer = IF device.rtsp THEN device.server ELSE {}]

CanDescribe == device.rtsp /\ (device.demand = "none" \/ (device.demand = "digest" /\ creds = "good"))
HasOnvif == \E i \in DOMAIN device.http : device.http[i].onvif
UnicastXaddr == IF "http" \in device.services THEN {"http"} ELSE device.services
FirstXaddr ==
    IF device.multicast = "xaddr" THEN {"advertised"}
    ELSE IF device.multicast = "silent" /\ timeout < MulticastTimeout THEN {}
    ELSE UnicastXaddr
InfoFrom(urls) ==
    HasOnvif /\ (\E u \in urls : Serves(u)) /\ (device.info = "open" \/ creds = "good")

AllSays ==
    [FirstSays EXCEPT
        !.parsed = CanDescribe,
        !.markers = IF CanDescribe THEN SdpSays(device.sdp) ELSE {},
        !.raw = IF CanDescribe THEN RawOf(device.sdp) ELSE {},
        !.maker = IF InfoFrom(FirstXaddr) THEN device.maker ELSE {},
        !.model = IF InfoFrom(FirstXaddr) THEN device.model ELSE {}]

Sound == stage = "done" /\ result.method # "timeout" /\ ~lost /\ timeout # MulticastTimeout

\* If nothing is lost, the answer is a function of the device, the credentials
\* and the timeout, whatever the order in which the probes, which share the
\* evidence, come to their ends: that of the first probes, and only if they
\* name nobody that of everything (engine.py:55-86).
SameAnswer ==
    Sound /\ ~stranger /\ (device.rtsp \/ device.http # <<>>) =>
        result = IF ResultFrom(FirstSays) # Unknown THEN ResultFrom(FirstSays)
                 ELSE ResultFrom(AllSays)

\* A device that does not answer multicast and that only its device information
\* would identify is what the unicast fallback is for: it is found, once the wait
\* for multicast is over before wait_for at engine.py:126 gives up (a timeout of
\* more than 2.0 s, another camera's datagram or an error of sendto();
\* onvif.py:76).
UnicastDevice ==
    /\ device.multicast = "silent"
    /\ InfoFrom({u \in {"http", "https"} : u \in device.services})
    /\ device.services \subseteq device.talks
    /\ ResultFrom([ev EXCEPT !.maker = {}, !.model = {}]) = Unknown
    /\ ResultFrom(WithInfo(ev, Told)) # Unknown

UnicastOnly ==
    Sound /\ UnicastDevice /\ (timeout > MulticastTimeout \/ stranger) => result # Unknown

=============================================================================
