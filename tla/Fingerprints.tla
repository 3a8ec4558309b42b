---------------------------- MODULE Fingerprints ----------------------------
(***************************************************************************)
(* From evidence to a vendor: infrastructure/fingerprints and              *)
(* DiscoveryEngine._result_from_evidence with its heuristic score.         *)
(*                                                                         *)
(* Evidence is a record of the keys that are read.  A text is the set of   *)
(* the words that a test looks for in it; "^p" says that it starts with p. *)
(* Confidence is in hundredths.                                            *)
(***************************************************************************)
EXTENDS Integers, Sequences

Brands == <<"dahua", "hikvision", "axis", "xiongmai", "uniview">>
Brand == {Brands[i] : i \in DOMAIN Brands}
Vendor == Brand \cup {"generic"}
NoVendor == "unknown"

ServerWord == {"dahua", "hikvision", "axis", "live555", "gstreamer", "vlc"}
RealmWord == {"hikvision", "xmeye"}
MakerWord == {"hikvision", "dahua", "axis", "uniview", "unv", "xiongmai"}
ModelWord == {"ds-", "dh-", "ipc-h", "^ipc", "^p", "^q", "^m", "xm", "xmeye"}

Evidence ==
    [markers : SUBSET Brand,              \* rtsp_vendor_markers
     raw : SUBSET {"packetization-supported:dh", "mediainfo"},   \* rtsp_sdp_raw
     parsed : BOOLEAN,                    \* rtsp_sdp_parsed is there
     rtspServer : SUBSET ServerWord,
     httpServer : SUBSET ServerWord,
     httpMarkers : SUBSET (Brand \ {"axis"}),
     url : SUBSET {"magicbox.cgi"},       \* url_tried
     realm : SUBSET RealmWord,
     maker : SUBSET MakerWord,            \* onvif_manufacturer
     model : SUBSET ModelWord]            \* onvif_model

NoEvidence ==
    [markers |-> {}, raw |-> {}, parsed |-> FALSE, rtspServer |-> {}, httpServer |-> {},
     httpMarkers |-> {}, url |-> {}, realm |-> {}, maker |-> {}, model |-> {}]

Meets(S, T) == S \cap T # {}

----------------------------------------------------------------------------
(* The fingerprints                                                        *)

IsDahua(ev) ==
    \/ "dahua" \in ev.markers
    \/ "dahua" \in ev.httpMarkers
    \/ "packetization-supported:dh" \in ev.raw
    \/ "magicbox.cgi" \in ev.url
    \/ "dahua" \in ev.maker

IsHikvision(ev) ==
    \/ "hikvision" \in ev.markers
    \/ "hikvision" \in ev.httpMarkers
    \/ "mediainfo" \in ev.raw
    \/ "hikvision" \in ev.realm
    \/ "hikvision" \in ev.maker

IsAxis(ev) ==
    \/ "axis" \in ev.markers
    \/ "axis" \in ev.rtspServer
    \/ "axis" \in ev.maker
    \/ Meets(ev.model, {"^p", "^q", "^m"})

IsUniview(ev) ==
    \/ "uniview" \in ev.markers
    \/ Meets(ev.maker, {"uniview", "unv"})
    \/ "^ipc" \in ev.model

IsXiongmai(ev) ==
    \/ "xiongmai" \in ev.markers
    \/ "xmeye" \in ev.realm
    \/ Meets(ev.model, {"xm", "xmeye"})

IsGeneric(ev) == Meets(ev.rtspServer, {"live555", "gstreamer", "vlc"})

Matches(fp, ev) ==
    \/ fp = "dahua" /\ IsDahua(ev)
    \/ fp = "hikvision" /\ IsHikvision(ev)
    \/ fp = "axis" /\ IsAxis(ev)
    \/ fp = "uniview" /\ IsUniview(ev)
    \/ fp = "xiongmai" /\ IsXiongmai(ev)
    \/ fp = "generic" /\ IsGeneric(ev)

Sureness == [dahua |-> 97, hikvision |-> 97, axis |-> 96, uniview |-> 95,
             xiongmai |-> 96, generic |-> 60]

\* FingerprintRegistry._fingerprints
Registry == <<"dahua", "hikvision", "axis", "uniview", "xiongmai", "generic">>

Unknown == [vendor |-> NoVendor, confidence |-> 0, method |-> "none"]
By(method, vendor, confidence) ==
    [vendor |-> vendor, confidence |-> confidence, method |-> method]

\* FingerprintRegistry.match: the first in the list.
Fingerprint(ev) ==
    LET hits == {i \in DOMAIN Registry : Matches(Registry[i], ev)}
    IN  IF hits = {} THEN Unknown
        ELSE LET i == CHOOSE i \in hits : \A k \in hits : i <= k
             IN  By("fingerprint", Registry[i], Sureness[Registry[i]])

----------------------------------------------------------------------------
(* The heuristic score                                                     *)

VendorFromOnvif(ev) ==
    IF "hikvision" \in ev.maker \/ "ds-" \in ev.model THEN {"hikvision"}
    ELSE IF "dahua" \in ev.maker \/ Meets(ev.model, {"dh-", "ipc-h"}) THEN {"dahua"}
    ELSE IF "axis" \in ev.maker THEN {"axis"}
    ELSE IF Meets(ev.maker, {"uniview", "unv"}) THEN {"uniview"}
    ELSE IF "xiongmai" \in ev.maker \/ "xm" \in ev.model THEN {"xiongmai"}
    ELSE {}

\* What add() is called with.
Scores(ev) ==
    (ev.markers \X {95}) \cup (ev.httpMarkers \X {90})
    \cup ((ev.rtspServer \cap {"dahua", "hikvision", "axis"}) \X {70})
    \cup ((ev.httpServer \cap {"dahua", "hikvision", "axis"}) \X {45})
    \cup (VendorFromOnvif(ev) \X {85})

\* Of two vendors with the same best score max() takes the one that add() had
\* first: the sources one after the other, in each the vendors in its order.
HttpBrands == <<"dahua", "hikvision", "uniview", "xiongmai">>
Sources == <<95, 90, 70, 45, 85>>
SourceRank(n) == CHOOSE i \in DOMAIN Sources : Sources[i] = n
BrandRank(a) ==
    IF a[2] = 90 THEN CHOOSE i \in DOMAIN HttpBrands : HttpBrands[i] = a[1]
    ELSE CHOOSE i \in DOMAIN Brands : Brands[i] = a[1]
AddedBefore(a, b) ==
    \/ SourceRank(a[2]) < SourceRank(b[2])
    \/ a[2] = b[2] /\ BrandRank(a) <= BrandRank(b)
FirstAdded(ev, v) ==
    CHOOSE a \in Scores(ev) : a[1] = v /\
        \A b \in Scores(ev) : b[1] = v => AddedBefore(a, b)

Heuristic(ev) ==
    IF Scores(ev) = {} THEN Unknown
    ELSE LET top == CHOOSE n \in {a[2] : a \in Scores(ev)} :
                        \A b \in Scores(ev) : b[2] <= n
             best == {a[1] : a \in {b \in Scores(ev) : b[2] = top}}
             v == CHOOSE v \in best : \A u \in best :
                        AddedBefore(FirstAdded(ev, v), FirstAdded(ev, u))
         IN  By("heuristic", v, top)

\* _result_from_evidence: a weak score counts only beside a parsed SDP.
ResultFrom(ev) ==
    LET h == Heuristic(ev)
    IN  IF Fingerprint(ev) # Unknown THEN Fingerprint(ev)
        ELSE IF h.confidence >= 85 \/ ev.parsed THEN h
        ELSE Unknown

=============================================================================
