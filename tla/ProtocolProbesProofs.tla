------------------------ MODULE ProtocolProbesProofs ------------------------
(***************************************************************************)
(* Proofs about ProtocolProbes, for any devices, any descriptions and any  *)
(* timeouts: the order of the fingerprints, and where credentials go.      *)
(***************************************************************************)
EXTENDS ProtocolProbes, EvidenceProofs

-----------------------------------------------------------------------------
(* The descriptions                                                        *)

\* Only the refusal of a device that demands Digest asks for it.
LEMMA OnlyDemandChallenges ==
    ASSUME NEW d \in Device, d = device, NEW n \in Nat,
           NEW s, s = (IF device.demand = "none" THEN Described ELSE Refused),
           n \in 1 .. Len(s), Challenged(SubSeq(s, 1, n))
    PROVE  device.demand = "digest" /\ creds # "none"
  <1>1. /\ device.sdp \in Seq(Line) /\ device.demand \in {"none", "digest", "basic"}
    BY DeviceAssumption
  <1>2. PICK i \in DOMAIN SubSeq(s, 1, n) : SubSeq(s, 1, n)[i].about = "digest"
    BY DEF Challenged, Has
  <1>3. ASSUME NEW t \in Seq(Line \cup {Head_(x) : x \in {"application/sdp", "blank"}}), s = t
        PROVE  FALSE
    <2>1. i \in DOMAIN t /\ t[i].about = "digest"
      <3>1. \A S : \A q \in Seq(S) : n \in 1 .. Len(q) =>
               /\ DOMAIN SubSeq(q, 1, n) = 1 .. n /\ 1 .. n \subseteq DOMAIN q
               /\ \A k \in 1 .. n : SubSeq(q, 1, n)[k] = q[k]
        OBVIOUS
      <3>2. /\ DOMAIN SubSeq(t, 1, n) = 1 .. n /\ 1 .. n \subseteq DOMAIN t
            /\ \A k \in 1 .. n : SubSeq(t, 1, n)[k] = t[k]
        BY <1>3, <3>1, Zenon
      <3> QED
        BY <1>2, <1>3, <3>2, Zenon
    <2>2. \A line \in Line : line.about # "digest"
      BY DEF Line, AboutA, AboutM
    <2> QED
      BY <2>1, <2>2 DEF Head_
  <1>4. device.demand # "none"
    <2> SUFFICES ASSUME device.demand = "none" PROVE FALSE
      OBVIOUS
    <2>1. Described \in Seq(Line \cup {Head_(x) : x \in {"application/sdp", "blank"}})
      BY <1>1 DEF Described
    <2> QED
      BY <1>3, <2>1
  <1>5. device.demand # "basic"
    <2> SUFFICES ASSUME device.demand = "basic" PROVE FALSE
      OBVIOUS
    <2>1. Refused = <<Head_("401"), Head_("basic"), Head_("blank"), Head_("body")>>
      BY DEF Refused
    <2>2. i \in 1 .. 4 /\ Refused[i].about = "digest"
      BY <1>2, <2>1
    <2> QED
      BY <2>1, <2>2 DEF Head_
  <1> QED
    BY <1>1, <1>4, <1>5 DEF Challenged

-----------------------------------------------------------------------------
(* The inductive invariant                                                 *)

Place == {"off", "connect", "read", "vendors", "generic", "first", "second",
          "multicast", "unicast", "anonymous", "wsse", "done"}
Ends == {"off", "done"}

\* Which probe may be under way at which stage.
Where ==
    /\ pc \in [Probe -> Place]
    /\ stage \in {"tcp", "first", "fallback", "done"}
    /\ stage = "tcp" => \A p \in Probe : pc[p] = "off"
    /\ stage = "first" => pc["describe"] = "off" /\ pc["onvif"] = "off"
    /\ stage = "fallback" => pc["options"] \in Ends /\ pc["http"] \in Ends
    /\ stage = "done" => \A p \in Probe : pc[p] \in Ends

\* A fingerprint decides once, from the evidence that stays.
Decided ==
    result.method = "fingerprint" =>
        stage = "done" /\ result = Fingerprint(ev) /\ Fingerprint(ev) # Unknown

\* The first read of DESCRIBE is of the answer to a request without
\* credentials; WS-Security is the last that ONVIF tries.
Sent ==
    /\ device \in Device /\ used \subseteq {"digest", "wsse"}
    /\ used # {} => creds # "none"
    /\ "digest" \in used => device.demand = "digest"
    /\ pc["describe"] = "first" =>
          stream = IF device.demand = "none" THEN Described ELSE Refused
    /\ "wsse" \in used => pc["onvif"] \in {"wsse", "done"} /\ (~TellsAnyone \/ lost)

IInv == Where /\ Decided /\ Sent

-----------------------------------------------------------------------------
(* Each step keeps the invariant                                           *)

LEMMA InitHolds == Init => IInv
  BY DEF Init, IInv, Where, Decided, Sent, Place, Probe, NotYet, By

\* What a step of one probe leaves to the others.
OnlyProbe(p) ==
    /\ pc[p] \notin Ends
    /\ UNCHANGED <<device, creds, stage, result>>
    /\ \E s \in Place : pc' = [pc EXCEPT ![p] = s]

LEMMA ProbeWhere ==
    ASSUME IInv, NEW p \in Probe, OnlyProbe(p)
    PROVE  Where' /\ stage # "done" /\ \A q \in Probe \ {p} : pc'[q] = pc[q]
  BY DEF IInv, Where, OnlyProbe, Probe, Ends

LEMMA StillUndecided ==
    ASSUME IInv, NEW p \in Probe, OnlyProbe(p)
    PROVE  Decided'
  BY ProbeWhere DEF IInv, Decided, OnlyProbe

LEMMA StillSent ==
    ASSUME IInv, NEW p \in Probe, OnlyProbe(p), used' = used, lost => lost',
           p = "describe" => pc'["describe"] # "first",
           p # "describe" => stream' = stream,
           p = "onvif" => pc["onvif"] # "wsse" \/ (pc'["onvif"] = "done" /\ xaddrs' = xaddrs),
           p # "onvif" => xaddrs' = xaddrs
    PROVE  Sent'
  <1>1. \A q \in Probe \ {p} : pc'[q] = pc[q]
    BY ProbeWhere
  <1>2. device' = device /\ creds' = creds /\ pc[p] \notin Ends
    BY DEF OnlyProbe
  <1>3. /\ device' \in Device /\ used' \subseteq {"digest", "wsse"}
        /\ used' # {} => creds' # "none"
        /\ "digest" \in used' => device'.demand = "digest"
    BY <1>2 DEF IInv, Sent
  <1>4. pc'["describe"] = "first" =>
          stream' = IF device'.demand = "none" THEN Described' ELSE Refused'
    BY <1>1, <1>2 DEF IInv, Sent, Described, Refused, Probe
  <1>5. ASSUME "wsse" \in used'
        PROVE  pc'["onvif"] \in {"wsse", "done"} /\ (~TellsAnyone' \/ lost')
    <2>1. "wsse" \in used /\ pc["onvif"] \in {"wsse", "done"} /\ (~TellsAnyone \/ lost)
      BY <1>5 DEF IInv, Sent
    <2>2. pc'["onvif"] \in {"wsse", "done"} /\ xaddrs' = xaddrs
      BY <1>1, <1>2, <2>1 DEF Probe, Ends
    <2>3. TellsAnyone' <=> TellsAnyone
      BY <1>2, <2>2 DEF TellsAnyone, Serves
    <2> QED
      BY <2>1, <2>2, <2>3
  <1> QED
    BY <1>3, <1>4, <1>5 DEF Sent

LEMMA ProbeKeeps ==
    ASSUME IInv, NEW p \in Probe, OnlyProbe(p), Sent'
    PROVE  IInv'
  BY ProbeWhere, StillUndecided DEF IInv

\* Where a probe may go from where it is.
LEMMA Moves ==
    ASSUME IInv, NEW p \in Probe, pc[p] \notin Ends, UNCHANGED <<device, creds, stage, result>>,
           NEW s \in Place, pc' = [pc EXCEPT ![p] = s]
    PROVE  OnlyProbe(p) /\ pc'[p] = s
  BY DEF OnlyProbe, IInv, Where

LEMMA OptionsStep == ASSUME IInv, Options PROVE IInv'
  <1>1. CASE OptionsConnects
    <2>1. OnlyProbe("options")
      BY <1>1, Moves DEF OptionsConnects, Probe, Place, Ends, others, fixed
    <2> QED
      BY <1>1, <2>1, StillSent, ProbeKeeps DEF OptionsConnects, Probe, others
  <1>2. CASE OptionsAnswered
    <2>1. OnlyProbe("options")
      BY <1>2, Moves DEF OptionsAnswered, Done, Probe, Place, Ends, others, fixed
    <2>2. lost => lost'
      BY <1>2 DEF OptionsAnswered
    <2> QED
      BY <1>2, <2>1, <2>2, StillSent, ProbeKeeps DEF OptionsAnswered, Probe, others
  <1>3. CASE RtspFails("options")
    <2>1. OnlyProbe("options")
      BY <1>3, Moves DEF RtspFails, Done, Probe, Place, Ends, others, fixed
    <2> QED
      BY <1>3, <2>1, StillSent, ProbeKeeps DEF RtspFails, Probe, others
  <1> QED
    BY <1>1, <1>2, <1>3 DEF Options

LEMMA HttpStep == ASSUME IInv, Http PROVE IInv'
  <1>1. OnlyProbe("http")
    BY Moves DEF Http, HttpVendors, HttpGeneric, VendorAnswer, Done, Probe, Place, Ends, others, fixed
  <1>2. lost => lost'
    BY DEF Http, HttpVendors, HttpGeneric, VendorAnswer
  <1>3. UNCHANGED <<stream, xaddrs, used>>
    BY DEF Http, HttpVendors, HttpGeneric, others
  <1> QED
    BY <1>1, <1>2, <1>3, StillSent, ProbeKeeps DEF Probe

LEMMA DescribeStep == ASSUME IInv, Describe PROVE IInv'
  <1>1. CASE DescribeConnects
    <2>1. OnlyProbe("describe") /\ pc'["describe"] = "first" /\ device' = device
      BY <1>1, Moves DEF DescribeConnects, Probe, Place, Ends, others, fixed
    <2>2. \A q \in Probe \ {"describe"} : pc'[q] = pc[q]
      BY <2>1, ProbeWhere DEF Probe
    <2>3. UNCHANGED <<device, creds, xaddrs, used, lost>>
      BY <1>1 DEF DescribeConnects, others, fixed
    <2>4. stream' = IF device'.demand = "none" THEN Described' ELSE Refused'
      BY <1>1, <2>3 DEF DescribeConnects, Described, Refused
    <2>5. TellsAnyone' <=> TellsAnyone
      BY <2>3 DEF TellsAnyone, Serves
    <2>6. Sent'
      BY <2>2, <2>3, <2>4, <2>5 DEF IInv, Sent, Probe
    <2> QED
      BY <2>1, <2>6, ProbeKeeps DEF Probe
  <1>2. CASE DescribeFirst
    <2>1. /\ pc["describe"] = "first" /\ UNCHANGED others
          /\ stream = IF device.demand = "none" THEN Described ELSE Refused
      BY <1>2 DEF DescribeFirst, IInv, Sent
    <2>2. PICK n \in 1 .. Len(stream) :
             /\ Reads(n)
             /\ \/ /\ Challenged(SubSeq(stream, 1, n))
                   /\ used' = used \cup {"digest"}
                   /\ pc' = [pc EXCEPT !.describe = "second"]
                \/ used' = used /\ Done("describe")
      BY <1>2 DEF DescribeFirst
    <2>3. lost => lost'
      BY <2>2 DEF Reads
    <2>4. UNCHANGED <<device, creds, stage, result, xaddrs>>
      BY <2>1 DEF others, fixed
    <2>5. CASE used' = used /\ Done("describe")
      <3>1. OnlyProbe("describe") /\ pc'["describe"] # "first"
        BY <2>1, <2>4, <2>5, Moves DEF Done, Probe, Place, Ends
      <3> QED
        BY <2>3, <2>4, <2>5, <3>1, StillSent, ProbeKeeps DEF Probe
    <2>6. CASE /\ Challenged(SubSeq(stream, 1, n)) /\ used' = used \cup {"digest"}
               /\ pc' = [pc EXCEPT !.describe = "second"]
      <3>1. OnlyProbe("describe") /\ pc'["describe"] = "second"
        BY <2>1, <2>4, <2>6, Moves DEF Probe, Place, Ends
      <3>2. \A q \in Probe \ {"describe"} : pc'[q] = pc[q]
        BY <3>1, ProbeWhere DEF Probe
      <3>3. device.demand = "digest" /\ creds # "none"
        BY <2>1, <2>6, OnlyDemandChallenges DEF IInv, Sent
      <3>4. TellsAnyone' <=> TellsAnyone
        BY <2>4 DEF TellsAnyone, Serves
      <3>5. "wsse" \in used' => pc'["onvif"] \in {"wsse", "done"} /\ (~TellsAnyone' \/ lost')
        BY <2>3, <2>6, <3>2, <3>4 DEF IInv, Sent, Probe
      <3>6. Sent'
        BY <2>4, <2>6, <3>1, <3>3, <3>5 DEF IInv, Sent
      <3> QED
        BY <3>1, <3>6, ProbeKeeps DEF Probe
    <2> QED
      BY <2>2, <2>5, <2>6
  <1>3. CASE DescribeSecond
    <2>1. OnlyProbe("describe") /\ pc'["describe"] # "first"
      BY <1>3, Moves DEF DescribeSecond, Done, Probe, Place, Ends, others, fixed
    <2>2. lost => lost'
      BY <1>3 DEF DescribeSecond, Reads
    <2>3. UNCHANGED <<xaddrs, used>>
      BY <1>3 DEF DescribeSecond, others
    <2> QED
      BY <2>1, <2>2, <2>3, StillSent, ProbeKeeps DEF Probe
  <1>4. CASE RtspFails("describe")
    <2>1. OnlyProbe("describe") /\ pc'["describe"] # "first"
      BY <1>4, Moves DEF RtspFails, Done, Probe, Place, Ends, others, fixed
    <2> QED
      BY <1>4, <2>1, StillSent, ProbeKeeps DEF RtspFails, Probe, others
  <1> QED
    BY <1>1, <1>2, <1>3, <1>4 DEF Describe

LEMMA OnvifStep == ASSUME IInv, Onvif PROVE IInv'
  <1>1. CASE MulticastHeard \/ MulticastForeign \/ MulticastSilent \/ Unicast
    <2>1. pc["onvif"] \in {"multicast", "unicast"} /\ UNCHANGED rtspVars /\ used' = used
      BY <1>1 DEF MulticastHeard, MulticastForeign, MulticastSilent, Unicast
    <2>2. \E s \in Place : OnvifTo(s)
      BY <1>1 DEF MulticastHeard, MulticastForeign, MulticastSilent, Unicast, Place
    <2>3. OnlyProbe("onvif")
      BY <2>1, <2>2, Moves DEF rtspVars, fixed, OnvifTo, Probe, Ends
    <2>4. lost => lost'
      BY <1>1 DEF MulticastHeard, MulticastForeign, MulticastSilent, Unicast
    <2> QED
      BY <2>1, <2>3, <2>4, StillSent, ProbeKeeps DEF rtspVars, Probe
  <1>2. CASE AnonymousInformed \/ WsseInformed \/ WsseInVain
    <2>1. /\ pc["onvif"] \in {"anonymous", "wsse"} /\ OnvifTo("done") /\ UNCHANGED rtspVars
          /\ used' = used /\ xaddrs' = xaddrs
      BY <1>2 DEF AnonymousInformed, WsseInformed, WsseInVain, Informed
    <2>2. OnlyProbe("onvif") /\ pc'["onvif"] = "done"
      BY <2>1, Moves DEF rtspVars, fixed, OnvifTo, Probe, Place, Ends
    <2>3. lost => lost'
      BY <1>2 DEF AnonymousInformed, WsseInformed, WsseInVain, Informed
    <2> QED
      BY <2>1, <2>2, <2>3, StillSent, ProbeKeeps DEF rtspVars, Probe
  <1>3. CASE AnonymousInVain
    <2>1. /\ pc["onvif"] = "anonymous" /\ UNCHANGED rtspVars /\ xaddrs' = xaddrs
          /\ OnvifTo(IF creds = "none" THEN "done" ELSE "wsse")
      BY <1>3 DEF AnonymousInVain
    <2>2. OnlyProbe("onvif") /\ pc'["onvif"] = IF creds = "none" THEN "done" ELSE "wsse"
      BY <2>1, Moves DEF rtspVars, fixed, OnvifTo, Probe, Place, Ends
    <2>3. lost' = (lost \/ TellsAnyone)
      BY <1>3 DEF AnonymousInVain
    <2>4. CASE creds = "none"
      <3>1. used' = used
        BY <1>3, <2>4 DEF AnonymousInVain
      <3> QED
        BY <2>1, <2>2, <2>3, <3>1, StillSent, ProbeKeeps DEF rtspVars, Probe
    <2>5. CASE creds # "none"
      <3>1. used' = used \cup {"wsse"} /\ pc'["onvif"] = "wsse"
        BY <1>3, <2>2, <2>5 DEF AnonymousInVain
      <3>2. UNCHANGED <<device, creds, stream>>
        BY <2>1 DEF rtspVars, fixed
      <3>3. TellsAnyone' <=> TellsAnyone
        BY <2>1, <3>2 DEF TellsAnyone, Serves
      <3>4. ~TellsAnyone' \/ lost'
        BY <2>3, <3>3
      <3>5. pc'["describe"] = pc["describe"]
        BY <2>2, ProbeWhere DEF Probe
      <3>6. pc'["describe"] = "first" =>
               stream' = IF device'.demand = "none" THEN Described' ELSE Refused'
        BY <3>2, <3>5 DEF IInv, Sent, Described, Refused
      <3>7. Sent'
        BY <2>5, <3>1, <3>2, <3>4, <3>6 DEF IInv, Sent
      <3> QED
        BY <2>2, <3>7, ProbeKeeps DEF Probe
    <2> QED
      BY <2>4, <2>5
  <1> QED
    BY <1>1, <1>2, <1>3 DEF Onvif

\* The steps of the stages: no probe is in the middle of anything that the
\* evidence or the credentials depend on.
LEMMA TcpStep == ASSUME IInv, TcpProbed PROVE IInv'
  <1>1. /\ stage = "tcp" /\ UNCHANGED <<device, creds, ev, stream, xaddrs, used>>
        /\ \A p \in Probe : pc[p] = "off"
    BY DEF IInv, Where, TcpProbed, fixed
  <1>2. /\ pc' \in [Probe -> Place] /\ pc'["describe"] = "off" /\ pc'["onvif"] = "off"
        /\ \/ stage' = "first" /\ result' = result
           \/ stage' = "done" /\ result' = NoServices /\ pc' = pc
    BY <1>1 DEF IInv, Where, TcpProbed, Probe, Place
  <1>3. Where'
    BY <1>1, <1>2 DEF Where, Ends
  <1>4. Decided'
    BY <1>1, <1>2 DEF IInv, Decided, NoServices, By
  <1>5. "wsse" \notin used
    BY <1>1 DEF IInv, Sent, Probe
  <1>6. Sent'
    BY <1>1, <1>2, <1>5 DEF IInv, Sent
  <1> QED
    BY <1>3, <1>4, <1>6 DEF IInv

LEMMA FirstStep == ASSUME IInv, FirstOver PROVE IInv'
  <1>1. /\ stage = "first" /\ UNCHANGED <<device, creds, ev, stream, xaddrs, used, lost>>
        /\ pc["options"] \in Ends /\ pc["http"] \in Ends
        /\ pc["describe"] = "off" /\ pc["onvif"] = "off"
    BY DEF IInv, Where, FirstOver, fixed, Over, Ends
  <1>2. "wsse" \notin used
    BY <1>1 DEF IInv, Sent
  <1>3. CASE ResultFrom(ev) # Unknown
    <2>1. stage' = "done" /\ result' = ResultFrom(ev) /\ pc' = pc
      BY <1>3 DEF FirstOver
    <2>2. Where'
      BY <1>1, <2>1 DEF IInv, Where, Probe, Ends
    <2>3. Decided'
      BY <1>1, <2>1, ByFingerprint DEF Decided
    <2>4. Sent'
      BY <1>1, <1>2, <2>1 DEF IInv, Sent
    <2> QED
      BY <2>2, <2>3, <2>4 DEF IInv
  <1>4. CASE ResultFrom(ev) = Unknown
    <2>1. /\ stage' = "fallback" /\ result' = result
          /\ pc' \in [Probe -> Place] /\ pc'["options"] = pc["options"] /\ pc'["http"] = pc["http"]
          /\ pc'["describe"] \in {"off", "connect"}
      BY <1>1, <1>4 DEF FirstOver, IInv, Where, Probe, Place
    <2>2. Where'
      BY <1>1, <2>1 DEF Where
    <2>3. Decided'
      BY <1>1, <2>1 DEF IInv, Decided
    <2>4. Sent'
      BY <1>1, <1>2, <2>1 DEF IInv, Sent
    <2> QED
      BY <2>2, <2>3, <2>4 DEF IInv
  <1> QED
    BY <1>3, <1>4

LEMMA FallbackStep == ASSUME IInv, FallbackOver PROVE IInv'
  <1>1. /\ stage = "fallback" /\ stage' = "done" /\ result' = ResultFrom(ev') /\ pc' = pc
        /\ pc["describe"] \in Ends /\ pc["onvif"] \in Ends
        /\ UNCHANGED <<device, creds, stream, xaddrs, used, lost>>
    BY DEF FallbackOver, fixed, Over, Ends
  <1>2. Where'
    BY <1>1 DEF IInv, Where, Probe
  <1>3. Decided'
    BY <1>1, ByFingerprint DEF Decided
  <1>4. TellsAnyone' <=> TellsAnyone
    BY <1>1 DEF TellsAnyone, Serves
  <1>5. Sent'
    BY <1>1, <1>4 DEF IInv, Sent, Ends
  <1> QED
    BY <1>2, <1>3, <1>5 DEF IInv

LEMMA DeadlineStep == ASSUME IInv, Deadline PROVE IInv'
  <1>1. /\ stage' = "done" /\ result' = TimedOut
        /\ pc' = [p \in Probe |-> IF Over(p) THEN pc[p] ELSE "done"]
        /\ UNCHANGED <<device, creds, stream, xaddrs, used, lost>>
    BY DEF Deadline, fixed
  <1>2. pc' \in [Probe -> Place] /\ \A p \in Probe : pc'[p] \in Ends
    BY <1>1 DEF IInv, Where, Over, Ends, Place
  <1>3. Where' /\ Decided'
    BY <1>1, <1>2 DEF Where, Decided, TimedOut, By
  <1>4. TellsAnyone' <=> TellsAnyone
    BY <1>1 DEF TellsAnyone, Serves
  <1>5. "wsse" \in used => pc'["onvif"] \in {"wsse", "done"}
    BY <1>1 DEF IInv, Sent, Probe, Over
  <1>6. pc'["describe"] # "first"
    BY <1>2 DEF Probe, Ends
  <1>7. Sent'
    BY <1>1, <1>4, <1>5, <1>6 DEF IInv, Sent
  <1> QED
    BY <1>3, <1>7 DEF IInv

LEMMA StutterStep == ASSUME IInv, UNCHANGED vars PROVE IInv'
  <1>1. UNCHANGED <<device, creds, stage, pc, stream, ev, xaddrs, result, used, lost>>
    BY DEF vars
  <1>2. TellsAnyone' <=> TellsAnyone
    BY <1>1 DEF TellsAnyone, Serves
  <1>3. Described' = Described /\ Refused' = Refused
    BY <1>1 DEF Described, Refused
  <1>4. Sent'
    BY <1>1, <1>2, <1>3 DEF IInv, Sent
  <1>5. Where' /\ Decided'
    BY <1>1 DEF IInv, Where, Decided
  <1> QED
    BY <1>4, <1>5 DEF IInv

LEMMA Inductive == ASSUME IInv, [Next]_vars PROVE IInv'
  BY TcpStep, FirstStep, FallbackStep, DeadlineStep, OptionsStep, DescribeStep, HttpStep,
     OnvifStep, StutterStep
  DEF Next, Finished

-----------------------------------------------------------------------------
(* The theorems                                                            *)

\* The inductive invariant: which probe is under way at which stage, what a
\* result by fingerprint rests on, and what goes out when.
THEOREM Invariant == Spec => []IInv
  <1>1. Init => IInv
    BY InitHolds
  <1>2. IInv /\ [Next]_vars => IInv'
    BY Inductive
  <1> QED
    BY <1>1, <1>2, PTL DEF Spec

\* Credentials go only to a device that has turned a request without them away,
\* or whose answer was lost, whatever it describes and however it is cut.
THEOREM CredentialsAreAskedHolds == Spec => []CredentialsAreAsked
  <1>1. IInv => CredentialsAreAsked
    BY DEF IInv, Sent, CredentialsAreAsked
  <1> QED
    BY <1>1, Invariant, PTL
-----------------------------------------------------------------------------
(* What the probes hear                                                    *)

Heads == {Head_(x) : x \in HeadWord \ {"none"}}

\* Lines of an answer and then, from the line behind off, of the description.
PartFrom(s, off) ==
    /\ s \in Seq(Text)
    /\ \A i \in DOMAIN s : IF i <= off THEN s[i] \in Heads
                           ELSE i - off \in DOMAIN device.sdp /\ s[i] = device.sdp[i - off]

Typed ==
    /\ TypeOK
    /\ sdp \in Seq(Text)
    /\ pc["describe"] = "second" => \E off \in Nat : PartFrom(stream, off)

\* The evidence and what is going to be added to it say nothing that the device
\* does not.
Heard ==
    /\ Within(ev, SaysAll)
    /\ SdpSays(sdp) \subseteq SdpSays(device.sdp) /\ RawOf(sdp) \subseteq RawOf(device.sdp)
    /\ NothingInvented

\* What the first two probes have found while nothing is lost.
FirstWhole ==
    stage \in {"first", "fallback"} /\ ~lost =>
        /\ open = [rtsp |-> device.rtsp, http |-> HttpPorts]
        /\ pc["options"] = "off" <=> ~device.rtsp
        /\ pc["http"] = "off" <=> HttpPorts = {}
        /\ pc["http"] = "generic" => Answered = {}
        /\ ev = [IF pc["http"] = "done" THEN HttpSays ELSE NoEvidence
                    EXCEPT !.rtspServer = IF pc["options"] = "done" THEN device.server ELSE {}]

DescribeWhole ==
    stage = "fallback" /\ ~lost =>
        /\ pc["describe"] = "off" <=> ~device.rtsp
        /\ pc["describe"] = "second" =>
              /\ device.demand = "digest" /\ creds # "none"
              /\ stream = IF creds = "good" THEN Described ELSE Refused
        /\ sdp = IF pc["describe"] = "done" /\ CanDescribe THEN device.sdp ELSE NoSdp

Reached == IF stranger THEN UnicastXaddr ELSE FirstXaddr

OnvifWhole ==
    stage = "fallback" /\ ~lost /\ timeout # MulticastTimeout =>
        /\ pc["onvif"] = "off" <=> ~HasOnvif
        /\ pc["onvif"] = "multicast" => ~stranger /\ xaddrs = <<>>
        /\ pc["onvif"] = "unicast" => xaddrs = <<>> /\ Reached = UnicastXaddr
        /\ pc["onvif"] \in {"anonymous", "wsse"} => xaddrs # <<>> /\ Reached = {xaddrs[1]}
        /\ pc["onvif"] = "wsse" => creds # "none" /\ ~TellsAnyone
        /\ info = IF pc["onvif"] = "done" /\ InfoFrom(Reached) THEN Told ELSE NoInfo

Unheard ==
    /\ stage \in {"tcp", "first"} => sdp = NoSdp /\ info = NoInfo /\ xaddrs = <<>> /\ ~stranger
    /\ stage = "tcp" => ev = NoEvidence /\ ~lost

\* The fallback is for what the first probes do not identify.
Undecided == stage = "fallback" => ResultFrom(ev) = Unknown

\* The exact reach of the unicast fallback.
UnicastExactly ==
    Sound /\ UnicastDevice =>
        (result # Unknown <=> timeout > MulticastTimeout \/ stranger)

Whole ==
    /\ FirstWhole /\ DescribeWhole /\ OnvifWhole /\ Unheard /\ Undecided
    /\ timeout \in Timeout
    /\ SameAnswer /\ UnicastExactly

-----------------------------------------------------------------------------
(* Answers and the descriptions in them                                    *)

LEMMA LinesAreText == Line \subseteq Text /\ Heads \subseteq Text /\ NoSdp \in Seq(Text)
  <1>1. Line \subseteq Text
    BY DEF Line, AboutA, AboutM, Text, About
  <1>2. Heads \subseteq Text
    BY DEF Heads, Head_, Text, About, HeadWord
  <1>3. NoSdp \in Seq(Text)
    BY DEF NoSdp, Head_, Text, About, HeadWord
  <1> QED
    BY <1>1, <1>2, <1>3

LEMMA DeviceIs ==
    ASSUME IInv
    PROVE  /\ device \in Device
           /\ device.rtsp \in BOOLEAN /\ device.server \subseteq ServerWord
           /\ device.demand \in {"none", "digest", "basic"}
           /\ device.sdp \in Seq(Line) /\ device.sdp \in Seq(Text)
           /\ device.http \in Seq(HttpPort)
           /\ device.multicast \in {"silent", "bare", "xaddr"}
           /\ device.services \subseteq {"http", "https"}
           /\ device.info \in {"open", "protected", "none"}
           /\ device.maker \subseteq MakerWord /\ device.model \subseteq ModelWord
  <1>1. device \in Device
    BY DEF IInv, Sent
  <1>2. \A q \in Seq(Line) : q \in Seq(Text)
    BY LinesAreText
  <1> QED
    BY <1>1, <1>2, DeviceAssumption

LEMMA Concatenation ==
    ASSUME NEW S, NEW s \in Seq(S), NEW t \in Seq(S)
    PROVE  /\ s \o t \in Seq(S) /\ Len(s) \in Nat /\ Len(t) \in Nat
           /\ DOMAIN (s \o t) = 1 .. (Len(s) + Len(t))
           /\ \A i \in 1 .. (Len(s) + Len(t)) :
                 /\ i <= Len(s) => i \in DOMAIN s /\ (s \o t)[i] = s[i]
                 /\ i > Len(s) => i - Len(s) \in DOMAIN t /\ (s \o t)[i] = t[i - Len(s)]
  OBVIOUS

LEMMA Pair ==
    ASSUME NEW S, NEW a \in S, NEW b \in S
    PROVE  <<a>> \o <<b>> = <<a, b>>
  <1>1. <<a>> \in Seq(S) /\ <<b>> \in Seq(S)
    OBVIOUS
  <1>2. Len(<<a>>) = 1 /\ Len(<<b>>) = 1
    OBVIOUS
  <1>3. /\ <<a>> \o <<b>> \in Seq(S) /\ Len(<<a>> \o <<b>>) = 2
        /\ (<<a>> \o <<b>>)[1] = a /\ (<<a>> \o <<b>>)[2] = b
    BY <1>1, <1>2
  <1>4. \A s \in Seq(S) : Len(s) = 2 /\ s[1] = a /\ s[2] = b => s = <<a, b>>
    OBVIOUS
  <1> QED
    BY <1>3, <1>4

\* Lines of an answer before what is a part already.
LEMMA HeadsBeforePart ==
    ASSUME NEW h \in Seq(Heads), NEW s, NEW off \in Nat, PartFrom(s, off)
    PROVE  \E n \in Nat : PartFrom(h \o s, n)
  <1>1. h \in Seq(Text) /\ s \in Seq(Text) /\ DOMAIN h = 1 .. Len(h)
    BY LinesAreText DEF PartFrom
  <1>2. \A i \in DOMAIN h : h[i] \in Heads
    OBVIOUS
  <1>3. ASSUME NEW t, NEW n \in Nat, NEW m \in Nat, t \in Seq(Text), DOMAIN t = 1 .. m,
               \A i \in 1 .. m : /\ i <= n => t[i] \in Heads
                                 /\ i > n => i - n \in DOMAIN s /\ t[i] = s[i - n]
        PROVE  PartFrom(t, n + off)
    <2>1. ASSUME NEW i \in 1 .. m
          PROVE  IF i <= n + off THEN t[i] \in Heads
                 ELSE i - (n + off) \in DOMAIN device.sdp /\ t[i] = device.sdp[i - (n + off)]
      <3>1. CASE i <= n
        BY <1>3, <3>1
      <3>2. CASE i > n
        <4>1. i - n \in DOMAIN s /\ t[i] = s[i - n]
          BY <1>3, <3>2
        <4>2. (i - n <= off <=> i <= n + off) /\ (i - n) - off = i - (n + off)
          OBVIOUS
        <4> QED
          BY <4>1, <4>2 DEF PartFrom
      <3> QED
        BY <3>1, <3>2
    <2> QED
      BY <1>3, <2>1 DEF PartFrom
  <1>4. PartFrom(h \o s, Len(h) + off) /\ Len(h) \in Nat
    <2>1. /\ h \o s \in Seq(Text) /\ Len(h) \in Nat /\ Len(h) + Len(s) \in Nat
          /\ DOMAIN (h \o s) = 1 .. (Len(h) + Len(s))
          /\ \A i \in 1 .. (Len(h) + Len(s)) :
                /\ i <= Len(h) => (h \o s)[i] \in Heads
                /\ i > Len(h) => i - Len(h) \in DOMAIN s /\ (h \o s)[i] = s[i - Len(h)]
      BY <1>1, <1>2, Concatenation
    <2> DEFINE t == h \o s
               n == Len(h)
               m == Len(h) + Len(s)
    <2>2. /\ t \in Seq(Text) /\ n \in Nat /\ m \in Nat /\ DOMAIN t = 1 .. m
          /\ \A i \in 1 .. m : /\ i <= n => t[i] \in Heads
                               /\ i > n => i - n \in DOMAIN s /\ t[i] = s[i - n]
      BY <2>1
    <2>3. PartFrom(t, n + off)
      <3> HIDE DEF t, n, m
      <3> QED
        BY <1>3, <2>2
    <2> QED
      BY <2>1, <2>3
  <1> QED
    BY <1>4

LEMMA PartOfDescribed ==
    ASSUME IInv, NEW h \in Seq(Heads)
    PROVE  /\ \E off \in Nat : PartFrom(h \o Described, off)
           /\ device.demand # "none" => \E off \in Nat : PartFrom(h \o Refused, off)
  <1>1. PartFrom(device.sdp, 0)
    BY DeviceIs DEF PartFrom
  <1>2. \E off \in Nat : PartFrom(Described, off)
    <2>1. <<Head_("application/sdp"), Head_("blank")>> \in Seq(Heads)
      BY DEF Heads, HeadWord
    <2> QED
      BY <1>1, <2>1, HeadsBeforePart DEF Described
  <1>3. ASSUME device.demand # "none" PROVE PartFrom(Refused, 4)
    <2>1. device.demand \in {"digest", "basic"}
      BY <1>3, DeviceIs
    <2>2. /\ Head_("401") \in Heads /\ Head_(device.demand) \in Heads
          /\ Head_("blank") \in Heads /\ Head_("body") \in Heads
      BY <2>1 DEF Heads, HeadWord
    <2>3. Refused \in Seq(Heads) /\ Len(Refused) = 4
      BY <2>2 DEF Refused
    <2>4. Refused \in Seq(Text)
      BY <2>3, LinesAreText
    <2>5. DOMAIN Refused = 1 .. 4 /\ \A i \in 1 .. 4 : Refused[i] \in Heads
      BY <2>2 DEF Refused
    <2> QED
      BY <2>4, <2>5 DEF PartFrom
  <1> QED
    BY <1>2, <1>3, HeadsBeforePart

LEMMA PrefixIsPart ==
    ASSUME NEW s, NEW off \in Nat, PartFrom(s, off), NEW n \in 0 .. Len(s)
    PROVE  PartFrom(SubSeq(s, 1, n), off)
  <1>1. s \in Seq(Text)
    BY DEF PartFrom
  <1>2. /\ SubSeq(s, 1, n) \in Seq(Text) /\ DOMAIN SubSeq(s, 1, n) = 1 .. n
        /\ 1 .. n \subseteq DOMAIN s
        /\ \A i \in 1 .. n : SubSeq(s, 1, n)[i] = s[i]
    BY <1>1
  <1> QED
    BY <1>2 DEF PartFrom

LEMMA PartSays ==
    ASSUME IInv, NEW s, NEW off \in Nat, PartFrom(s, off)
    PROVE  SdpSays(s) \subseteq SdpSays(device.sdp) /\ RawOf(s) \subseteq RawOf(device.sdp)
  <1>1. s \in Seq(Text) /\ device.sdp \in Seq(Text)
    BY DeviceIs DEF PartFrom
  <1>2. \A x \in Heads : x.key = "head" /\ x.about \notin {"mediainfo", "packetization:dh"}
    BY DEF Heads, Head_, HeadWord
  <1>3. SdpSays(s) \subseteq SdpSays(device.sdp)
    BY <1>1, <1>2, PartSaysNoMore DEF PartFrom
  <1>4. ASSUME NEW a \in {"mediainfo", "packetization:dh"}, Has(s, a) PROVE Has(device.sdp, a)
    BY <1>2, <1>4 DEF Has, PartFrom
  <1> QED
    BY <1>3, <1>4 DEF RawOf

LEMMA NoSdpSays == SdpSays(NoSdp) = {} /\ RawOf(NoSdp) = {}
  <1>1. DOMAIN NoSdp = {1} /\ NoSdp[1].key = "head" /\ NoSdp[1].about = "none"
    BY DEF NoSdp, Head_
  <1> QED
    BY <1>1 DEF SdpSays, RawOf, Has

\* What DESCRIBE makes of a part of an answer.
LEMMA SdpInSays ==
    ASSUME IInv, NEW s, NEW off \in Nat, PartFrom(s, off)
    PROVE  /\ SdpIn(s) \in Seq(Text)
           /\ SdpSays(SdpIn(s)) \subseteq SdpSays(device.sdp)
           /\ RawOf(SdpIn(s)) \subseteq RawOf(device.sdp)
  <1>1. CASE SdpIn(s) = NoSdp
    BY <1>1, NoSdpSays, LinesAreText
  <1>2. CASE SdpIn(s) # NoSdp
    <2> DEFINE B == {i \in DOMAIN s : s[i].about = "blank"}
               First(i) == s[i] = Head_("blank") /\ \A k \in 1 .. (i-1) : s[k] # Head_("blank")
               b == CHOOSE i \in DOMAIN s : First(i)
    <2>0. s \in Seq(Text) /\ device.sdp \in Seq(Text) /\ device.sdp \in Seq(Line)
      BY DeviceIs DEF PartFrom
    <2>1. Has(s, "blank") /\ SdpIn(s) = SubSeq(s, b + 1, Len(s))
      BY <1>2 DEF SdpIn
    <2>2. \A i \in B : i <= off /\ s[i] = Head_("blank")
      <3>1. \A x \in Line : x.about # "blank"
        BY DEF Line, AboutA, AboutM
      <3>2. \A x \in Heads : x.about = "blank" => x = Head_("blank")
        BY DEF Heads, Head_, HeadWord
      <3> QED
        BY <2>0, <3>1, <3>2 DEF PartFrom
    <2>3. \E i \in DOMAIN s : First(i)
      <3>1. B # {} /\ B \subseteq Nat
        BY <2>0, <2>1 DEF Has
      <3>2. PICK i \in B : \A k \in B : i <= k
        <4> HIDE DEF B
        <4> QED
          BY <3>1, Least
      <3>3. \A k \in 1 .. (i - 1) : s[k] # Head_("blank")
        BY <2>0, <3>1, <3>2 DEF Head_
      <3> QED
        BY <2>2, <3>2, <3>3
    <2>4. b \in DOMAIN s /\ s[b] = Head_("blank")
      BY <2>3
    <2> HIDE DEF b
    <2>5. b \in 1 .. Len(s) /\ b <= off
      BY <2>0, <2>2, <2>4 DEF Head_
    <2> DEFINE t == SubSeq(s, b + 1, Len(s))
    <2>6. /\ t \in Seq(Text) /\ DOMAIN t = 1 .. (Len(s) - b)
          /\ \A i \in 1 .. (Len(s) - b) : t[i] = s[i + b]
      BY <2>0, <2>5
    <2> HIDE DEF t
    <2>7. PartFrom(t, off - b) /\ off - b \in Nat
      <3>1. \A i \in DOMAIN t : i + b \in DOMAIN s /\ t[i] = s[i + b]
        BY <2>0, <2>5, <2>6
      <3>2. \A i \in DOMAIN t : /\ i <= off - b <=> i + b <= off
                               /\ i - (off - b) = (i + b) - off
        BY <2>5, <2>6
      <3> QED
        BY <2>5, <2>6, <3>1, <3>2 DEF PartFrom
    <2> QED
      BY <2>1, <2>6, <2>7, PartSays DEF t
  <1> QED
    BY <1>1, <1>2

-----------------------------------------------------------------------------
(* Types                                                                   *)

PlacesOK ==
    /\ pc.options \in {"off", "connect", "read", "done"}
    /\ pc.http \in {"off", "vendors", "generic", "done"}
    /\ pc.describe \in {"off", "connect", "first", "second", "done"}
    /\ pc.onvif \in {"off", "multicast", "unicast", "anonymous", "wsse", "done"}
    /\ sockets = {p \in {"options", "describe"} : pc[p] \in {"read", "first", "second"}}

FoundOK ==
    /\ open.rtsp \in BOOLEAN /\ open.http \subseteq HttpPorts
    /\ ev \in Evidence
    /\ info \in {NoInfo, Told}
    /\ xaddrs \in {<<>>, <<"advertised">>, <<"http">>, <<"https">>, <<"http", "https">>}
    /\ lost \in BOOLEAN /\ stranger \in BOOLEAN

ResultOK ==
    result.vendor \in Vendor \cup {NoVendor} /\ result.confidence \in 0..97

SdpOK ==
    /\ sdp \in Seq(Text)
    /\ pc["describe"] = "second" => \E off \in Nat : PartFrom(stream, off)

LEMMA TypedInParts ==
    /\ IInv => (Typed <=> PlacesOK /\ FoundOK /\ ResultOK /\ SdpOK)
    /\ IInv' => (Typed' <=> PlacesOK' /\ FoundOK' /\ ResultOK' /\ SdpOK')
  BY DEF IInv, Where, Sent, Typed, TypeOK, PlacesOK, FoundOK, ResultOK, SdpOK

LEMMA ResultIs ==
    ASSUME NEW e \in Evidence
    PROVE  /\ ResultFrom(e).vendor \in Vendor \cup {NoVendor}
           /\ ResultFrom(e).confidence \in 0..97
  <1>1. CASE ResultFrom(e) = Unknown
    BY <1>1 DEF Unknown
  <1>2. ASSUME NEW v \in Vendor, ResultFrom(e) = By("fingerprint", v, Sureness[v])
        PROVE  ResultFrom(e).vendor \in Vendor /\ ResultFrom(e).confidence \in 0..97
    <2>1. Sureness[v] \in 0..97
      <3>1. v \in {"dahua", "hikvision", "axis", "uniview", "xiongmai", "generic"}
        BY Listed
      <3> QED
        BY <3>1, HowSure
    <2> QED
      BY <1>2, <2>1 DEF By
  <1>3. ASSUME NEW a \in Scores(e), ResultFrom(e) = By("heuristic", a[1], a[2])
        PROVE  ResultFrom(e).vendor \in Vendor /\ ResultFrom(e).confidence \in 0..97
    <2>1. a[1] \in Brand /\ a[2] \in Score
      BY ScoresAreAdded DEF Added
    <2>2. a[1] \in Vendor /\ a[2] \in 0..97
      BY <2>1 DEF Vendor, Score
    <2> QED
      BY <1>3, <2>2 DEF By
  <1> QED
    BY <1>1, <1>2, <1>3, ResultRestsOnEvidence

LEMMA InitTyped == Init => Typed
  <1> SUFFICES ASSUME Init PROVE Typed
    OBVIOUS
  <1>1. IInv
    BY InitHolds
  <1>2. PlacesOK /\ SdpOK
    BY LinesAreText DEF Init, Probe, PlacesOK, SdpOK
  <1>3. FoundOK
    BY DEF Init, FoundOK, NoEvidence, Evidence
  <1>4. ResultOK
    BY DEF Init, ResultOK, NotYet
  <1> QED
    BY <1>1, <1>2, <1>3, <1>4, TypedInParts

LEMMA OptionsTyped == ASSUME IInv, Typed, Options PROVE Typed'
  <1>1. IInv' /\ PlacesOK /\ FoundOK /\ ResultOK /\ SdpOK
    BY OptionsStep, TypedInParts
  <1>2. PlacesOK'
    BY <1>1 DEF Options, OptionsConnects, OptionsAnswered, RtspFails, Done, Close, IInv, Where,
                Probe, PlacesOK
  <1>3. UNCHANGED <<device, open, info, xaddrs, stranger, result, sdp>>
    BY DEF Options, OptionsConnects, OptionsAnswered, RtspFails, others, fixed
  <1>4. ev' \in Evidence /\ lost' \in BOOLEAN
    <2>1. device.server \subseteq ServerWord
      BY DeviceIs
    <2>2. [ev EXCEPT !.rtspServer = device.server] \in Evidence
      BY <1>1, <2>1 DEF FoundOK, Evidence
    <2> QED
      BY <1>1, <2>2 DEF Options, OptionsConnects, OptionsAnswered, RtspFails, FoundOK
  <1>5. FoundOK' /\ ResultOK'
    BY <1>1, <1>3, <1>4 DEF FoundOK, ResultOK, HttpPorts, Told
  <1>6. SdpOK'
    <2>1. pc'["describe"] = pc["describe"] /\ stream' = stream
      BY <1>1 DEF Options, OptionsConnects, OptionsAnswered, RtspFails, Done, IInv, Where, Probe
    <2> QED
      BY <1>1, <1>3, <2>1 DEF SdpOK, PartFrom
  <1> QED
    BY <1>1, <1>2, <1>5, <1>6, TypedInParts

LEMMA BrandsOfEndpoints ==
    /\ DOMAIN Endpoints = 1 .. 6
    /\ \A k \in 1 .. 6 : /\ Endpoints[k].brand \in Brand \ {"axis"}
                         /\ Endpoints[k].url \subseteq {"magicbox.cgi"}
  <1>1. DOMAIN Endpoints = 1 .. 6
    BY DEF Endpoints
  <1>2. /\ Endpoints[1].brand = "hikvision" /\ Endpoints[2].brand = "hikvision"
        /\ Endpoints[3].brand = "dahua" /\ Endpoints[4].brand = "dahua"
        /\ Endpoints[5].brand = "uniview" /\ Endpoints[6].brand = "xiongmai"
        /\ Endpoints[1].url = {} /\ Endpoints[2].url = {} /\ Endpoints[3].url = {"magicbox.cgi"}
        /\ Endpoints[4].url = {} /\ Endpoints[5].url = {} /\ Endpoints[6].url = {}
    BY DEF Endpoints
  <1>3. \A k \in 1 .. 6 : k = 1 \/ k = 2 \/ k = 3 \/ k = 4 \/ k = 5 \/ k = 6
    OBVIOUS
  <1> QED
    BY <1>1, <1>2, <1>3, BrandsAre

LEMMA PortIs ==
    ASSUME IInv, NEW i \in HttpPorts
    PROVE  /\ HttpPorts \subseteq Nat
           /\ device.http[i].answers \subseteq 1 .. 6
           /\ device.http[i].realm \subseteq RealmWord /\ device.http[i].server \subseteq ServerWord
  <1>1. device.http \in Seq(HttpPort)
    BY DeviceIs
  <1>2. device.http[i] \in HttpPort
    BY <1>1 DEF HttpPorts
  <1> QED
    BY <1>1, <1>2, BrandsOfEndpoints DEF HttpPorts, HttpPort

LEMMA GenericIs ==
    ASSUME IInv, NEW pages, pages \subseteq HttpPorts
    PROVE  /\ GenericServer(pages) \subseteq UNION {device.http[i].server : i \in pages}
           /\ GenericRealm(pages) \subseteq UNION {device.http[i].realm : i \in pages}
  <1>1. CASE Named(pages) # {}
    <2> DEFINE IsFirst(i) == \A k \in Named(pages) : i <= k
    <2>1. Named(pages) \subseteq pages /\ pages \subseteq Nat
      BY PortIs DEF Named
    <2>2. \E i \in Named(pages) : IsFirst(i)
      BY <1>1, <2>1, Least
    <2>3. (CHOOSE i \in Named(pages) : IsFirst(i)) \in pages
      <3> HIDE DEF IsFirst
      <3> QED
        BY <2>1, <2>2
    <2> QED
      BY <1>1, <2>3 DEF GenericServer, GenericRealm, Challenges
  <1>2. CASE Named(pages) = {}
    BY <1>2 DEF GenericServer, GenericRealm, Challenges
  <1> QED
    BY <1>1, <1>2

\* What the two steps of the HTTP probe change of the evidence.
LEMMA HttpFinds ==
    ASSUME IInv, Typed, Http
    PROVE  \/ ev' = ev
           \/ \E a \in Answered :
                 /\ a \in HttpPorts \X (1 .. 6)
                 /\ ev' = [ev EXCEPT !.httpMarkers = {Endpoints[a[2]].brand},
                                     !.url = Endpoints[a[2]].url,
                                     !.realm = device.http[a[1]].realm]
           \/ \E pages \in SUBSET HttpPorts :
                 ev' = [ev EXCEPT !.httpServer = GenericServer(pages), !.realm = GenericRealm(pages)]
  <1>1. open.http \subseteq HttpPorts
    BY DEF Typed, TypeOK
  <1>2. Answered \subseteq HttpPorts \X (1 .. 6)
    BY <1>1, BrandsOfEndpoints DEF Answered, Wave
  <1>3. CASE HttpVendors
    BY <1>2, <1>3 DEF HttpVendors, VendorAnswer
  <1>4. CASE HttpGeneric
    <2>1. PICK heard \in SUBSET Pages(open.http) :
             ev' = [ev EXCEPT !.httpServer = GenericServer(UpToLogin(heard)),
                              !.realm = GenericRealm(UpToLogin(heard))]
      BY <1>4 DEF HttpGeneric
    <2>2. UpToLogin(heard) \subseteq HttpPorts
      BY <1>1 DEF UpToLogin, Pages
    <2> QED
      BY <2>1, <2>2
  <1> QED
    BY <1>3, <1>4 DEF Http

LEMMA HttpTyped == ASSUME IInv, Typed, Http PROVE Typed'
  <1>1. IInv' /\ PlacesOK /\ FoundOK /\ ResultOK /\ SdpOK
    BY HttpStep, TypedInParts
  <1>2. PlacesOK' /\ pc'["describe"] = pc["describe"]
    BY <1>1 DEF Http, HttpVendors, VendorAnswer, HttpGeneric, Done, IInv, Where, Probe, PlacesOK
  <1>3. UNCHANGED <<device, open, info, xaddrs, stranger, result, sdp, stream>>
    BY DEF Http, HttpVendors, HttpGeneric, others, fixed
  <1>4. ev' \in Evidence
    <2>1. ASSUME NEW a \in HttpPorts \X (1 .. 6)
          PROVE  [ev EXCEPT !.httpMarkers = {Endpoints[a[2]].brand}, !.url = Endpoints[a[2]].url,
                            !.realm = device.http[a[1]].realm] \in Evidence
      <3>1. /\ {Endpoints[a[2]].brand} \subseteq Brand \ {"axis"}
            /\ Endpoints[a[2]].url \subseteq {"magicbox.cgi"}
            /\ device.http[a[1]].realm \subseteq RealmWord
        BY BrandsOfEndpoints, PortIs
      <3> QED
        BY <1>1, <3>1 DEF FoundOK, Evidence
    <2>2. ASSUME NEW pages \in SUBSET HttpPorts
          PROVE  [ev EXCEPT !.httpServer = GenericServer(pages),
                            !.realm = GenericRealm(pages)] \in Evidence
      <3>1. GenericServer(pages) \subseteq ServerWord /\ GenericRealm(pages) \subseteq RealmWord
        BY GenericIs, PortIs
      <3> QED
        BY <1>1, <3>1 DEF FoundOK, Evidence
    <2> QED
      BY <1>1, <2>1, <2>2, HttpFinds DEF FoundOK
  <1>5. lost' \in BOOLEAN
    BY <1>1 DEF Http, HttpVendors, VendorAnswer, HttpGeneric, FoundOK
  <1>6. FoundOK' /\ ResultOK' /\ SdpOK'
    BY <1>1, <1>2, <1>3, <1>4, <1>5 DEF FoundOK, ResultOK, HttpPorts, Told, SdpOK, PartFrom
  <1> QED
    BY <1>1, <1>2, <1>6, TypedInParts

\* What a description in an answer may say.
Says(lines) ==
    /\ lines \in Seq(Text)
    /\ SdpSays(lines) \subseteq SdpSays(device.sdp) /\ RawOf(lines) \subseteq RawOf(device.sdp)

\* What is on the connection when DESCRIBE reads for the first time.
LEMMA FirstStreamIsPart ==
    ASSUME IInv, pc["describe"] = "first"
    PROVE  \E off \in Nat : PartFrom(stream, off)
  <1>1. stream = IF device.demand = "none" THEN Described ELSE Refused
    BY DEF IInv, Sent
  <1>2. /\ \E off \in Nat : PartFrom(<<>> \o Described, off)
        /\ device.demand # "none" => \E off \in Nat : PartFrom(<<>> \o Refused, off)
    <2>1. <<>> \in Seq(Heads)
      OBVIOUS
    <2> QED
      BY <2>1, PartOfDescribed
  <1>3. <<>> \o Described = Described /\ <<>> \o Refused = Refused
    BY DeviceIs DEF Described, Refused
  <1> QED
    BY <1>1, <1>2, <1>3

\* The first read: what it finds says no more than the device, and neither does
\* what it leaves to the second.
LEMMA FirstReadSays ==
    ASSUME IInv, DescribeFirst
    PROVE  /\ Says(sdp') \/ sdp' = sdp
           /\ pc'["describe"] = "second" => \E off \in Nat : PartFrom(stream', off)
  <1>1. PICK n \in 1 .. Len(stream) :
           \/ /\ Challenged(SubSeq(stream, 1, n))
              /\ stream' = SubSeq(stream, n + 1, Len(stream))
                             \o (IF creds = "good" THEN Described ELSE Refused)
              /\ sdp' = sdp
           \/ /\ pc' = [pc EXCEPT !.describe = "done"]
              /\ sdp' = SdpIn(SubSeq(stream, 1, n))
    BY DEF DescribeFirst, Done
  <1>2. PICK off \in Nat : PartFrom(stream, off)
    BY FirstStreamIsPart DEF DescribeFirst
  <1>3. n \in 0 .. Len(stream) /\ n \in Nat
    BY <1>2 DEF PartFrom
  <1>4. CASE /\ pc' = [pc EXCEPT !.describe = "done"]
             /\ sdp' = SdpIn(SubSeq(stream, 1, n))
    <2>1. Says(sdp')
      BY <1>2, <1>3, <1>4, PrefixIsPart, SdpInSays DEF Says
    <2>2. pc'["describe"] = "done"
      BY <1>4 DEF IInv, Where, Probe
    <2> QED
      BY <2>1, <2>2
  <1>5. CASE /\ Challenged(SubSeq(stream, 1, n))
             /\ stream' = SubSeq(stream, n + 1, Len(stream))
                            \o (IF creds = "good" THEN Described ELSE Refused)
             /\ sdp' = sdp
    <2>1. stream = IF device.demand = "none" THEN Described ELSE Refused
      BY DEF DescribeFirst, IInv, Sent
    <2>2. device.demand = "digest"
      BY <1>3, <1>5, <2>1, OnlyDemandChallenges DEF IInv, Sent
    <2>3. stream \in Seq(Heads)
      BY <2>1, <2>2, LinesAreText DEF Refused, Heads, HeadWord
    <2>4. SubSeq(stream, n + 1, Len(stream)) \in Seq(Heads)
      BY <1>3, <2>3
    <2> QED
      BY <1>5, <2>2, <2>4, PartOfDescribed
  <1> QED
    BY <1>1, <1>4, <1>5

LEMMA SecondReadSays ==
    ASSUME IInv, SdpOK, DescribeSecond
    PROVE  Says(sdp') /\ pc'["describe"] = "done"
  <1>1. PICK off \in Nat : PartFrom(stream, off)
    BY DEF SdpOK, DescribeSecond
  <1>2. PICK n \in 1 .. Len(stream) : sdp' = SdpIn(SubSeq(stream, 1, n))
    BY DEF DescribeSecond
  <1>3. n \in 0 .. Len(stream)
    BY <1>1 DEF PartFrom
  <1>4. Says(sdp')
    BY <1>1, <1>2, <1>3, PrefixIsPart, SdpInSays DEF Says
  <1> QED
    BY <1>4 DEF DescribeSecond, Done, IInv, Where, Probe

LEMMA DescribeTyped == ASSUME IInv, Typed, Describe PROVE Typed'
  <1>1. IInv' /\ PlacesOK /\ FoundOK /\ ResultOK /\ SdpOK
    BY DescribeStep, TypedInParts
  <1>2. PlacesOK'
    <2>1. CASE DescribeConnects \/ RtspFails("describe")
      BY <1>1, <2>1 DEF DescribeConnects, RtspFails, Done, Close, IInv, Where, Probe, PlacesOK
    <2>2. CASE DescribeFirst
      <3>1. /\ pc["describe"] = "first"
            /\ \/ pc' = [pc EXCEPT !.describe = "second"] /\ sockets' = sockets
               \/ pc' = [pc EXCEPT !.describe = "done"] /\ sockets' = sockets \ {"describe"}
        BY <2>2 DEF DescribeFirst, Done, Close
      <3> QED
        BY <1>1, <3>1 DEF IInv, Where, Probe, PlacesOK
    <2>3. CASE DescribeSecond
      BY <1>1, <2>3 DEF DescribeSecond, Done, Close, IInv, Where, Probe, PlacesOK
    <2> QED
      BY <2>1, <2>2, <2>3 DEF Describe
  <1>3. UNCHANGED <<device, creds, open, info, xaddrs, stranger, result, ev>>
    BY DEF Describe, DescribeConnects, DescribeFirst, DescribeSecond, RtspFails, others, fixed
  <1>4. lost' \in BOOLEAN
    BY <1>1 DEF Describe, DescribeConnects, DescribeFirst, DescribeSecond, Reads, RtspFails, FoundOK
  <1>5. FoundOK' /\ ResultOK'
    BY <1>1, <1>3, <1>4 DEF FoundOK, ResultOK, HttpPorts, Told
  <1>6. SdpOK'
    <2>1. CASE DescribeConnects \/ RtspFails("describe")
      <3>1. sdp' = sdp /\ pc'["describe"] # "second"
        BY <1>1, <2>1 DEF DescribeConnects, RtspFails, Done, IInv, Where, Probe
      <3> QED
        BY <1>1, <3>1 DEF SdpOK
    <2>2. CASE DescribeFirst
      BY <1>1, <1>3, <2>2, FirstReadSays DEF SdpOK, PartFrom, Says
    <2>3. CASE DescribeSecond
      BY <1>1, <2>3, SecondReadSays DEF SdpOK, Says
    <2> QED
      BY <2>1, <2>2, <2>3 DEF Describe
  <1> QED
    BY <1>1, <1>2, <1>5, <1>6, TypedInParts

LEMMA OnvifTyped == ASSUME IInv, Typed, Onvif PROVE Typed'
  <1>1. IInv' /\ PlacesOK /\ FoundOK /\ ResultOK /\ SdpOK
    BY OnvifStep, TypedInParts
  <1>2. UNCHANGED <<rtspVars, device, open, sockets, stream, ev, sdp, result>>
    BY DEF Onvif, MulticastHeard, MulticastForeign, MulticastSilent, Unicast, AnonymousInformed,
           WsseInformed, Informed, AnonymousInVain, WsseInVain, rtspVars, fixed
  <1>3. PlacesOK' /\ pc'["describe"] = pc["describe"]
    <2>1. \E x \in {"unicast", "anonymous", "wsse", "done"} : pc' = [pc EXCEPT !.onvif = x]
      BY DEF Onvif, MulticastHeard, MulticastForeign, MulticastSilent, Unicast, AnonymousInformed,
             WsseInformed, Informed, AnonymousInVain, WsseInVain, OnvifTo
    <2> QED
      BY <1>1, <1>2, <2>1 DEF IInv, Where, Probe, PlacesOK
  <1>4. /\ info' \in {NoInfo, Told}
        /\ xaddrs' \in {<<>>, <<"advertised">>, <<"http">>, <<"https">>, <<"http", "https">>}
        /\ lost' \in BOOLEAN /\ stranger' \in BOOLEAN
    <2>1. CASE MulticastHeard \/ MulticastForeign \/ MulticastSilent
      BY <1>1, <2>1 DEF MulticastHeard, MulticastForeign, MulticastSilent, FoundOK
    <2>2. CASE Unicast
      <3>1. xaddrs' \in {<<>>, <<"http">>, <<"https">>, <<"http", "https">>}
        <4>1. PICK heard \in SUBSET device.services :
                 xaddrs' = (IF "http" \in heard THEN <<"http">> ELSE <<>>)
                              \o (IF "https" \in heard THEN <<"https">> ELSE <<>>)
          BY <2>2 DEF Unicast
        <4>2. /\ <<>> \o <<>> = <<>> /\ <<"http">> \o <<>> = <<"http">>
              /\ <<>> \o <<"https">> = <<"https">>
              /\ <<"http">> \o <<"https">> = <<"http", "https">>
          <5>1. \A S : \A q \in Seq(S) : <<>> \o q = q /\ q \o <<>> = q
            OBVIOUS
          <5>2. <<>> \in Seq(Url) /\ <<"http">> \in Seq(Url) /\ <<"https">> \in Seq(Url)
            BY DEF Url
          <5>3. <<"http">> \o <<"https">> = <<"http", "https">>
            <6>1. "http" \in Url /\ "https" \in Url
              BY DEF Url
            <6> QED
              BY <6>1, Pair, Zenon
          <5> QED
            BY <5>1, <5>2, <5>3
        <4> QED
          BY <4>1, <4>2
      <3> QED
        BY <1>1, <2>2, <3>1 DEF Unicast, FoundOK
    <2>3. CASE AnonymousInformed \/ WsseInformed \/ AnonymousInVain \/ WsseInVain
      BY <1>1, <2>3 DEF AnonymousInformed, WsseInformed, Informed, AnonymousInVain, WsseInVain, FoundOK
    <2> QED
      BY <2>1, <2>2, <2>3 DEF Onvif
  <1>5. FoundOK' /\ ResultOK' /\ SdpOK'
    BY <1>1, <1>2, <1>3, <1>4 DEF FoundOK, ResultOK, HttpPorts, Told, SdpOK, PartFrom
  <1> QED
    BY <1>1, <1>3, <1>5, TypedInParts

\* What the last stage adds to the evidence.
LEMMA AllIsEvidence ==
    ASSUME IInv, Typed
    PROVE  WithSdp(ev, sdp) \in Evidence /\ WithInfo(WithSdp(ev, sdp), info) \in Evidence
  <1>1. ev \in Evidence /\ info \in {NoInfo, Told} /\ sdp \in Seq(Text)
    BY DEF Typed, TypeOK
  <1>2. /\ info.maker \subseteq MakerWord /\ info.model \subseteq ModelWord
    BY <1>1, DeviceIs DEF NoInfo, Told
  <1>3. /\ Markers(ParseSdp(sdp)) \subseteq Brand
        /\ RawOf(sdp) \subseteq {"packetization-supported:dh", "mediainfo"}
    BY <1>1, ParserFindsWhatItSays, BrandsAre DEF SdpSays, RawOf
  <1>4. WithSdp(ev, sdp) \in Evidence
    BY <1>1, <1>3 DEF WithSdp, Evidence
  <1> QED
    BY <1>2, <1>4 DEF WithInfo, Evidence

LEMMA StagesTyped ==
    ASSUME IInv, Typed, TcpProbed \/ FirstOver \/ FallbackOver \/ Deadline \/ UNCHANGED vars
    PROVE  Typed'
  <1>1. IInv' /\ PlacesOK /\ FoundOK /\ ResultOK /\ SdpOK
    BY TcpStep, FirstStep, FallbackStep, DeadlineStep, StutterStep, TypedInParts
  <1>2. CASE TcpProbed
    <2>1. UNCHANGED <<device, sockets, stream, ev, sdp, info, xaddrs, stranger>>
      BY <1>2 DEF TcpProbed, fixed
    <2>2. PlacesOK' /\ pc'["describe"] = pc["describe"]
      <3>1. \/ pc' = pc
            \/ \E x \in {"off", "connect"}, y \in {"off", "vendors"} :
                  pc' = [pc EXCEPT !.options = x, !.http = y]
        <4>1. pc["options"] = "off" /\ pc["http"] = "off"
          BY <1>2 DEF TcpProbed, IInv, Where, Probe
        <4> QED
          BY <1>2, <4>1 DEF TcpProbed
      <3>2. pc["options"] = "off"
        BY <1>2 DEF TcpProbed, IInv, Where, Probe
      <3> QED
        BY <1>1, <2>1, <3>1, <3>2 DEF IInv, Where, Probe, PlacesOK
    <2>3. open'.rtsp \in BOOLEAN /\ open'.http \subseteq HttpPorts /\ lost' \in BOOLEAN
      <3>1. PICK r \in {FALSE, device.rtsp}, ports \in SUBSET HttpPorts :
               /\ open' = [rtsp |-> r, http |-> ports]
               /\ lost' = (r # device.rtsp \/ ports # HttpPorts)
        BY <1>2 DEF TcpProbed
      <3>2. r \in BOOLEAN
        BY DeviceIs
      <3> QED
        BY <3>1, <3>2
    <2>4. ResultOK'
      BY <1>1, <1>2 DEF TcpProbed, ResultOK, NoServices, By
    <2>5. FoundOK' /\ SdpOK'
      BY <1>1, <2>1, <2>2, <2>3 DEF FoundOK, HttpPorts, Told, SdpOK, PartFrom
    <2> QED
      BY <1>1, <2>2, <2>4, <2>5, TypedInParts
  <1>3. CASE FirstOver
    <2>1. UNCHANGED <<device, open, sockets, stream, ev, sdp, info, xaddrs, lost, stranger>>
      BY <1>3 DEF FirstOver, fixed
    <2>2. PlacesOK' /\ pc'["describe"] # "second"
      <3>1. /\ pc["describe"] = "off" /\ pc["onvif"] = "off"
        BY <1>3 DEF FirstOver, IInv, Where, Probe
      <3>2. \/ pc' = pc
            \/ \E x \in {"off", "connect"}, y \in {"off", "multicast"} :
                  pc' = [pc EXCEPT !.describe = x, !.onvif = y]
        BY <1>3, <3>1 DEF FirstOver
      <3> QED
        BY <1>1, <2>1, <3>1, <3>2 DEF IInv, Where, Probe, PlacesOK
    <2>3. ResultOK'
      BY <1>1, <1>3, ResultIs DEF FirstOver, ResultOK, FoundOK
    <2>4. FoundOK' /\ SdpOK'
      BY <1>1, <2>1, <2>2 DEF FoundOK, HttpPorts, Told, SdpOK
    <2> QED
      BY <1>1, <2>2, <2>3, <2>4, TypedInParts
  <1>4. CASE FallbackOver
    <2>1. UNCHANGED <<device, open, pc, sockets, stream, sdp, info, xaddrs, lost, stranger>>
      BY <1>4 DEF FallbackOver, fixed
    <2>2. ev' \in Evidence /\ result' = ResultFrom(ev')
      BY <1>4, AllIsEvidence DEF FallbackOver
    <2>3. ResultOK'
      BY <2>2, ResultIs DEF ResultOK
    <2>4. PlacesOK' /\ FoundOK' /\ SdpOK'
      BY <1>1, <2>1, <2>2 DEF PlacesOK, FoundOK, HttpPorts, Told, SdpOK, PartFrom
    <2> QED
      BY <1>1, <2>3, <2>4, TypedInParts
  <1>5. CASE Deadline
    <2>1. UNCHANGED <<device, open, stream, ev, sdp, info, xaddrs, lost, stranger>>
      BY <1>5 DEF Deadline, fixed
    <2>2. PlacesOK' /\ pc'["describe"] # "second"
      <3>1. pc' = [p \in Probe |-> IF Over(p) THEN pc[p] ELSE "done"] /\ sockets' = {}
        BY <1>5 DEF Deadline
      <3>2. \A p \in Probe : pc'[p] \in {"off", "done"}
        BY <3>1 DEF Over
      <3> QED
        BY <3>1, <3>2 DEF Probe, PlacesOK
    <2>3. ResultOK'
      BY <1>5 DEF Deadline, ResultOK, TimedOut, By
    <2>4. FoundOK' /\ SdpOK'
      BY <1>1, <2>1, <2>2 DEF FoundOK, HttpPorts, Told, SdpOK
    <2> QED
      BY <1>1, <2>2, <2>3, <2>4, TypedInParts
  <1>6. CASE UNCHANGED vars
    <2>1. UNCHANGED <<device, open, pc, sockets, stream, ev, sdp, info, xaddrs, result, lost, stranger>>
      BY <1>6 DEF vars
    <2>2. PlacesOK' /\ FoundOK' /\ ResultOK' /\ SdpOK'
      BY <1>1, <2>1 DEF PlacesOK, FoundOK, ResultOK, HttpPorts, Told, SdpOK, PartFrom
    <2> QED
      BY <1>1, <2>2, TypedInParts
  <1> QED
    BY <1>2, <1>3, <1>4, <1>5, <1>6

LEMMA TypedStep == ASSUME IInv, Typed, [Next]_vars PROVE Typed'
  BY StagesTyped, OptionsTyped, DescribeTyped, HttpTyped, OnvifTyped DEF Next, Finished

\* The values of every variable, and which sockets are open.
THEOREM TypeOKHolds == Spec => []TypeOK
  <1>1. IInv /\ Typed /\ [Next]_vars => Typed'
    BY TypedStep
  <1>2. Typed => TypeOK
    BY DEF Typed
  <1> QED
    BY <1>1, <1>2, InitTyped, Invariant, PTL DEF Spec

-----------------------------------------------------------------------------
(* Nothing is invented                                                     *)

EvHeard == Within(ev, SaysAll)
SdpHeard == SdpSays(sdp) \subseteq SdpSays(device.sdp) /\ RawOf(sdp) \subseteq RawOf(device.sdp)

LEMMA SameDevice ==
    ASSUME device' = device
    PROVE  /\ SaysAll' = SaysAll /\ HttpPorts' = HttpPorts
           /\ result' = result /\ NothingInvented => NothingInvented'
           /\ ev' = ev /\ EvHeard => EvHeard'
           /\ sdp' = sdp /\ SdpHeard => SdpHeard'
  <1>1. SaysAll' = SaysAll /\ HttpPorts' = HttpPorts
    BY DEF SaysAll, HttpPorts
  <1> QED
    BY <1>1 DEF NothingInvented, EvHeard, SdpHeard

\* One answer of the HTTP wave, and the pages, as parts of what the device says.
LEMMA PortSays ==
    ASSUME NEW i \in HttpPorts
    PROVE  /\ device.http[i].server \subseteq SaysAll.httpServer
           /\ device.http[i].realm \subseteq SaysAll.realm
           /\ \A k \in device.http[i].answers : /\ Endpoints[k].brand \in SaysAll.httpMarkers
                                                /\ Endpoints[k].url \subseteq SaysAll.url
  BY DEF HttpPorts, SaysAll

LEMMA HttpHeard == ASSUME IInv, Typed, EvHeard, Http PROVE Within(ev', SaysAll)
  <1>1. ASSUME NEW a \in Answered, a \in HttpPorts \X (1 .. 6),
               ev' = [ev EXCEPT !.httpMarkers = {Endpoints[a[2]].brand},
                                !.url = Endpoints[a[2]].url, !.realm = device.http[a[1]].realm]
        PROVE  Within(ev', SaysAll)
    <2>1. a[1] \in HttpPorts /\ a[2] \in device.http[a[1]].answers
      BY <1>1 DEF Answered, Answers
    <2>2. /\ {Endpoints[a[2]].brand} \subseteq SaysAll.httpMarkers
          /\ Endpoints[a[2]].url \subseteq SaysAll.url
          /\ device.http[a[1]].realm \subseteq SaysAll.realm
      BY <2>1, PortSays
    <2> QED
      BY <1>1, <2>2 DEF EvHeard, Within, Typed, TypeOK, Evidence
  <1>2. ASSUME NEW pages \in SUBSET HttpPorts,
               ev' = [ev EXCEPT !.httpServer = GenericServer(pages), !.realm = GenericRealm(pages)]
        PROVE  Within(ev', SaysAll)
    <2>1. /\ GenericServer(pages) \subseteq SaysAll.httpServer
          /\ GenericRealm(pages) \subseteq SaysAll.realm
      BY GenericIs, PortSays
    <2> QED
      BY <1>2, <2>1 DEF EvHeard, Within, Typed, TypeOK, Evidence
  <1> QED
    BY <1>1, <1>2, HttpFinds DEF EvHeard

LEMMA ProbesHear ==
    ASSUME IInv, Typed, Heard, Options \/ Http \/ Describe \/ Onvif
    PROVE  Heard'
  <1>1. EvHeard /\ SdpHeard /\ NothingInvented /\ device' = device /\ result' = result
    BY DEF Heard, EvHeard, SdpHeard, Options, OptionsConnects, OptionsAnswered, RtspFails, Http,
           HttpVendors, HttpGeneric, Describe, DescribeConnects, DescribeFirst, DescribeSecond, Onvif,
           MulticastHeard, MulticastForeign, MulticastSilent, Unicast, AnonymousInformed,
           AnonymousInVain, WsseInformed, WsseInVain, Informed, others, rtspVars, fixed
  <1>2. EvHeard'
    <2>1. CASE Options
      <3>1. Within([ev EXCEPT !.rtspServer = device.server], SaysAll)
        <4>1. SaysAll.rtspServer = device.server
          BY DEF SaysAll
        <4> QED
          BY <1>1, <4>1 DEF EvHeard, Within, Typed, TypeOK, Evidence
      <3>2. Within(ev', SaysAll)
        BY <1>1, <2>1, <3>1 DEF Options, OptionsConnects, OptionsAnswered, RtspFails, EvHeard
      <3> QED
        BY <1>1, <3>2, SameDevice DEF EvHeard
    <2>2. CASE Http
      BY <1>1, <2>2, HttpHeard, SameDevice DEF EvHeard
    <2>3. CASE Describe \/ Onvif
      <3>1. ev' = ev
        BY <2>3 DEF Describe, DescribeConnects, DescribeFirst, DescribeSecond, RtspFails, Onvif,
               MulticastHeard, MulticastForeign, MulticastSilent, Unicast, AnonymousInformed,
               AnonymousInVain, WsseInformed, WsseInVain, Informed, rtspVars
      <3> QED
        BY <1>1, <3>1, SameDevice
    <2> QED
      BY <2>1, <2>2, <2>3
  <1>3. SdpHeard'
    <2>1. Says(sdp') \/ sdp' = sdp
      <3>1. CASE DescribeFirst
        BY <3>1, FirstReadSays
      <3>2. CASE DescribeSecond
        BY <3>2, SecondReadSays, TypedInParts
      <3>3. CASE Options \/ Http \/ DescribeConnects \/ RtspFails("describe") \/ Onvif
        BY <3>3 DEF Options, OptionsConnects, OptionsAnswered, RtspFails, Http, HttpVendors,
               HttpGeneric, DescribeConnects, Onvif, MulticastHeard, MulticastForeign,
               MulticastSilent, Unicast, AnonymousInformed, AnonymousInVain, WsseInformed,
               WsseInVain, Informed, rtspVars
      <3> QED
        BY <3>1, <3>2, <3>3 DEF Describe
    <2>2. CASE sdp' = sdp
      BY <1>1, <2>2, SameDevice
    <2>3. CASE Says(sdp')
      BY <1>1, <2>3 DEF Says, SdpHeard
    <2> QED
      BY <2>1, <2>2, <2>3
  <1> QED
    BY <1>1, <1>2, <1>3, SameDevice DEF Heard, EvHeard, SdpHeard

\* A result from evidence that the device gave.
LEMMA ResultInventsNothing ==
    ASSUME NEW e \in Evidence, Within(e, SaysAll), result' = ResultFrom(e), device' = device
    PROVE  NothingInvented'
  <1>1. CASE ResultFrom(e) = Unknown
    BY <1>1 DEF Unknown, NothingInvented
  <1>2. CASE ResultFrom(e) # Unknown
    BY <1>2, SameDevice, LessEvidenceInventsNothing DEF NothingInvented
  <1> QED
    BY <1>1, <1>2

LEMMA AllIsHeard ==
    ASSUME IInv, Typed, Heard
    PROVE  Within(WithInfo(WithSdp(ev, sdp), info), SaysAll)
  <1>1. ev \in Evidence /\ info \in {NoInfo, Told} /\ sdp \in Seq(Text) /\ device.sdp \in Seq(Text)
    BY DeviceIs DEF Typed, TypeOK
  <1>2. /\ Markers(ParseSdp(sdp)) = SdpSays(sdp)
        /\ Markers(ParseSdp(device.sdp)) = SdpSays(device.sdp)
    BY <1>1, ParserFindsWhatItSays
  <1>3. /\ Markers(ParseSdp(sdp)) \subseteq SaysAll.markers /\ RawOf(sdp) \subseteq SaysAll.raw
        /\ Within(ev, SaysAll)
    BY <1>2 DEF Heard, SaysAll
  <1>4. /\ SaysAll.maker = device.maker /\ SaysAll.model = device.model
    BY DEF SaysAll
  <1>5. WithSdp(ev, sdp) \in Evidence
    BY AllIsEvidence
  <1>6. Within(WithSdp(ev, sdp), SaysAll)
    BY <1>1, <1>3 DEF WithSdp, Within, Evidence
  <1> QED
    BY <1>1, <1>4, <1>5, <1>6 DEF WithInfo, NoInfo, Told, Within, Evidence

LEMMA StagesHear ==
    ASSUME IInv, Typed, Heard, TcpProbed \/ FirstOver \/ FallbackOver \/ Deadline \/ UNCHANGED vars
    PROVE  Heard'
  <1>1. EvHeard /\ SdpHeard /\ NothingInvented /\ device' = device /\ sdp' = sdp
    BY DEF Heard, EvHeard, SdpHeard, TcpProbed, FirstOver, FallbackOver, Deadline, fixed, vars
  <1>2. ev \in Evidence
    BY DEF Typed, TypeOK
  <1>3. EvHeard'
    <2>1. CASE FallbackOver
      BY <1>1, <2>1, AllIsHeard, SameDevice DEF FallbackOver, EvHeard
    <2>2. CASE TcpProbed \/ FirstOver \/ Deadline \/ UNCHANGED vars
      BY <1>1, <2>2, SameDevice DEF TcpProbed, FirstOver, Deadline, vars
    <2> QED
      BY <2>1, <2>2
  <1>4. NothingInvented'
    <2>1. CASE FallbackOver
      BY <1>1, <2>1, AllIsHeard, AllIsEvidence, ResultInventsNothing DEF FallbackOver
    <2>2. CASE FirstOver
      BY <1>1, <1>2, <2>2, ResultInventsNothing, SameDevice DEF FirstOver, EvHeard
    <2>3. CASE TcpProbed
      BY <1>1, <2>3, SameDevice DEF TcpProbed, NothingInvented, NoServices, By
    <2>4. CASE Deadline
      BY <2>4 DEF Deadline, NothingInvented, TimedOut, By
    <2>5. CASE UNCHANGED vars
      BY <1>1, <2>5, SameDevice DEF vars
    <2> QED
      BY <2>1, <2>2, <2>3, <2>4, <2>5
  <1> QED
    BY <1>1, <1>3, <1>4, SameDevice DEF Heard, EvHeard, SdpHeard

LEMMA InitHeard == Init => Heard
  <1> SUFFICES ASSUME Init PROVE Heard
    OBVIOUS
  <1>1. sdp = NoSdp /\ ev = NoEvidence /\ result = NotYet
    BY DEF Init
  <1>2. Within(ev, SaysAll)
    BY <1>1 DEF Within, NoEvidence
  <1> QED
    BY <1>1, <1>2, NoSdpSays DEF Heard, NothingInvented, NotYet

\* A vendor is named only on evidence that the device gave, whatever is lost, cut
\* or read one request late: for any description of any length, any number of
\* ports and any answers.
THEOREM NothingInventedHolds == Spec => []NothingInvented
  <1>1. IInv /\ Typed /\ Heard /\ [Next]_vars => Heard'
    BY ProbesHear, StagesHear DEF Next, Finished
  <1>2. Heard => NothingInvented
    BY DEF Heard
  <1>3. IInv /\ Typed /\ [Next]_vars => Typed'
    BY TypedStep
  <1> QED
    BY <1>1, <1>2, <1>3, InitTyped, InitHeard, Invariant, PTL DEF Spec

-----------------------------------------------------------------------------
(* The same answer: the HTTP probe                                         *)

\* What the HTTP probe does not find.
LEMMA HttpSaysNo ==
    /\ HttpSays.markers = {} /\ HttpSays.raw = {} /\ HttpSays.parsed = FALSE
    /\ HttpSays.rtspServer = {} /\ HttpSays.maker = {} /\ HttpSays.model = {}
  <1> DEFINE answered == {a \in HttpPorts \X DOMAIN Endpoints : a[2] \in device.http[a[1]].answers}
             first == CHOOSE a \in answered : \A b \in answered \ {a} : Earlier(a, b)
             pages == UpToLogin(Pages(HttpPorts))
  <1>1. HttpSays = IF answered # {}
                   THEN [NoEvidence EXCEPT !.httpMarkers = {Endpoints[first[2]].brand},
                                           !.url = Endpoints[first[2]].url,
                                           !.realm = device.http[first[1]].realm]
                   ELSE [NoEvidence EXCEPT !.httpServer = GenericServer(pages),
                                           !.realm = GenericRealm(pages)]
    BY DEF HttpSays
  <1> HIDE DEF answered, first, pages
  <1> QED
    BY <1>1 DEF NoEvidence

\* The first of all the answers is the one that HttpSays has.
LEMMA FirstAnswerSays ==
    ASSUME IInv, open.http = HttpPorts, NEW a \in Answered, ~\E b \in Answered : Earlier(b, a)
    PROVE  HttpSays = [NoEvidence EXCEPT !.httpMarkers = {Endpoints[a[2]].brand},
                                         !.url = Endpoints[a[2]].url,
                                         !.realm = device.http[a[1]].realm]
  <1> DEFINE IsFirst(x) == \A b \in Answered \ {x} : Earlier(x, b)
             first == CHOOSE x \in Answered : IsFirst(x)
  <1>1. Answered = {x \in HttpPorts \X DOMAIN Endpoints : x[2] \in device.http[x[1]].answers}
    BY DEF Answered, Wave, Answers
  <1>2. Answered \subseteq Nat \X Nat
    <2>1. HttpPorts \subseteq Nat
      BY DeviceIs DEF HttpPorts
    <2>2. DOMAIN Endpoints \subseteq Nat
      BY BrandsOfEndpoints
    <2> QED
      BY <1>1, <2>1, <2>2
  <1>3. \A x, y \in Nat \X Nat : x # y => Earlier(x, y) \/ Earlier(y, x)
    BY DEF Earlier
  <1>4. IsFirst(a)
    BY <1>2, <1>3
  <1>5. \A x \in Answered : IsFirst(x) => x = a
    OBVIOUS
  <1>6. first = a
    <2> HIDE DEF IsFirst
    <2> QED
      BY <1>4, <1>5
  <1>7. HttpSays = [NoEvidence EXCEPT !.httpMarkers = {Endpoints[first[2]].brand},
                                      !.url = Endpoints[first[2]].url,
                                      !.realm = device.http[first[1]].realm]
    BY <1>1 DEF HttpSays
  <1> QED
    BY <1>6, <1>7

LEMMA NoAnswerSays ==
    ASSUME open.http = HttpPorts, Answered = {}
    PROVE  HttpSays = [NoEvidence EXCEPT !.httpServer = GenericServer(UpToLogin(Pages(HttpPorts))),
                                         !.realm = GenericRealm(UpToLogin(Pages(HttpPorts)))]
  <1>1. Answered = {x \in HttpPorts \X DOMAIN Endpoints : x[2] \in device.http[x[1]].answers}
    BY DEF Answered, Wave, Answers
  <1> QED
    BY <1>1 DEF HttpSays

LEMMA NoPortSays == ASSUME HttpPorts = {} PROVE HttpSays = NoEvidence
  <1>1. UpToLogin(Pages(HttpPorts)) = {}
    BY DEF UpToLogin, Pages
  <1>2. GenericServer({}) = {} /\ GenericRealm({}) = {}
    BY DEF GenericServer, GenericRealm, Named, Challenges
  <1>3. {x \in HttpPorts \X DOMAIN Endpoints : x[2] \in device.http[x[1]].answers} = {}
    OBVIOUS
  <1> QED
    BY <1>1, <1>2, <1>3 DEF HttpSays, NoEvidence

\* When the first probes are over.
LEMMA FirstIsWhole ==
    ASSUME IInv, Typed, FirstWhole, ~lost, stage \in {"first", "fallback"},
           pc["options"] \in Ends, pc["http"] \in Ends
    PROVE  ev = FirstSays
  <1>1. /\ pc["options"] = "off" <=> ~device.rtsp
        /\ pc["http"] = "off" <=> HttpPorts = {}
        /\ ev = [IF pc["http"] = "done" THEN HttpSays ELSE NoEvidence
                    EXCEPT !.rtspServer = IF pc["options"] = "done" THEN device.server ELSE {}]
    BY DEF FirstWhole
  <1>2. (IF pc["http"] = "done" THEN HttpSays ELSE NoEvidence) = HttpSays
    BY <1>1, NoPortSays DEF Ends
  <1>3. (IF pc["options"] = "done" THEN device.server ELSE {})
            = (IF device.rtsp THEN device.server ELSE {})
    BY <1>1 DEF Ends
  <1> QED
    BY <1>1, <1>2, <1>3 DEF FirstSays

-----------------------------------------------------------------------------
(* The same answer: each step keeps what is whole                          *)

LEMMA SameSays ==
    ASSUME UNCHANGED fixed
    PROVE  /\ HttpSays' = HttpSays /\ HttpPorts' = HttpPorts /\ FirstSays' = FirstSays
           /\ (open' = open => Answered' = Answered) /\ CanDescribe' = CanDescribe
           /\ HasOnvif' = HasOnvif /\ UnicastXaddr' = UnicastXaddr /\ FirstXaddr' = FirstXaddr
           /\ AllSays' = AllSays /\ Told' = Told /\ Described' = Described /\ Refused' = Refused
  <1>1. device' = device /\ creds' = creds /\ timeout' = timeout
    BY DEF fixed
  <1>2. HttpPorts' = HttpPorts /\ HasOnvif' = HasOnvif /\ UnicastXaddr' = UnicastXaddr
    BY <1>1 DEF HttpPorts, HasOnvif, UnicastXaddr
  <1>3. HttpSays' = HttpSays
    BY <1>1, <1>2 DEF HttpSays, GenericServer, GenericRealm, Named, Challenges, UpToLogin, Pages, AsksLogin
  <1>4. FirstSays' = FirstSays /\ CanDescribe' = CanDescribe /\ FirstXaddr' = FirstXaddr
    BY <1>1, <1>2, <1>3 DEF FirstSays, CanDescribe, FirstXaddr
  <1>5. InfoFrom(FirstXaddr)' = InfoFrom(FirstXaddr)
    BY <1>1, <1>2, <1>4 DEF InfoFrom, Serves
  <1>6. AllSays' = AllSays
    BY <1>1, <1>4, <1>5 DEF AllSays
  <1> QED
    BY <1>1, <1>2, <1>3, <1>4, <1>6 DEF Answered, Wave, Answers, Told, Described, Refused

LEMMA FirstWholeOptions ==
    ASSUME IInv, Typed, FirstWhole, Options
    PROVE  FirstWhole'
  <1> SUFFICES ASSUME stage' \in {"first", "fallback"}, ~lost'
               PROVE  /\ open' = [rtsp |-> device'.rtsp, http |-> HttpPorts']
                      /\ pc'["options"] = "off" <=> ~device'.rtsp
                      /\ pc'["http"] = "off" <=> HttpPorts' = {}
                      /\ pc'["http"] = "generic" => Answered' = {}
                      /\ ev' = [IF pc'["http"] = "done" THEN HttpSays' ELSE NoEvidence
                                  EXCEPT !.rtspServer = IF pc'["options"] = "done"
                                                        THEN device'.server ELSE {}]
    BY DEF FirstWhole
  <1>1. UNCHANGED fixed /\ stage' = stage /\ open' = open /\ ~lost
    <2>1. UNCHANGED <<fixed, stage, open>>
      BY DEF Options, OptionsConnects, OptionsAnswered, RtspFails, others, fixed
    <2>2. ~lost
      BY DEF Options, OptionsConnects, OptionsAnswered, RtspFails, Typed, TypeOK
    <2> QED
      BY <2>1, <2>2
  <1>2. /\ open = [rtsp |-> device.rtsp, http |-> HttpPorts]
        /\ pc["options"] = "off" <=> ~device.rtsp
        /\ pc["http"] = "off" <=> HttpPorts = {}
        /\ pc["http"] = "generic" => Answered = {}
        /\ ev = [IF pc["http"] = "done" THEN HttpSays ELSE NoEvidence
                    EXCEPT !.rtspServer = IF pc["options"] = "done" THEN device.server ELSE {}]
    BY <1>1 DEF FirstWhole
  <1>3. /\ HttpSays' = HttpSays /\ HttpPorts' = HttpPorts /\ Answered' = Answered
        /\ device' = device
    BY <1>1, SameSays DEF fixed
  <1>4. CASE OptionsConnects
    <2>1. pc["options"] = "connect" /\ pc'["options"] = "read" /\ pc'["http"] = pc["http"] /\ ev' = ev
      BY <1>4 DEF OptionsConnects, IInv, Where, Probe
    <2> QED
      BY <1>1, <1>2, <1>3, <2>1
  <1>5. CASE OptionsAnswered
    <2>1. /\ pc["options"] = "read" /\ pc'["options"] = "done" /\ pc'["http"] = pc["http"]
          /\ ev' = [ev EXCEPT !.rtspServer = device.server]
      BY <1>5 DEF OptionsAnswered, Done, IInv, Where, Probe
    <2>2. \A x, a, b : [[x EXCEPT !.rtspServer = a] EXCEPT !.rtspServer = b]
                          = [x EXCEPT !.rtspServer = b]
      OBVIOUS
    <2>3. ev' = [IF pc["http"] = "done" THEN HttpSays ELSE NoEvidence
                    EXCEPT !.rtspServer = device.server]
      BY <1>2, <2>1, <2>2
    <2> QED
      BY <1>1, <1>2, <1>3, <2>1, <2>3
  <1>6. CASE RtspFails("options")
    BY <1>6 DEF RtspFails
  <1> QED
    BY <1>4, <1>5, <1>6 DEF Options

LEMMA FirstWholeHttp ==
    ASSUME IInv, Typed, FirstWhole, Http
    PROVE  FirstWhole'
  <1> SUFFICES ASSUME stage' \in {"first", "fallback"}, ~lost'
               PROVE  /\ open' = [rtsp |-> device'.rtsp, http |-> HttpPorts']
                      /\ pc'["options"] = "off" <=> ~device'.rtsp
                      /\ pc'["http"] = "off" <=> HttpPorts' = {}
                      /\ pc'["http"] = "generic" => Answered' = {}
                      /\ ev' = [IF pc'["http"] = "done" THEN HttpSays' ELSE NoEvidence
                                  EXCEPT !.rtspServer = IF pc'["options"] = "done"
                                                        THEN device'.server ELSE {}]
    BY DEF FirstWhole
  <1>1. UNCHANGED fixed /\ stage' = stage /\ open' = open /\ ~lost
    <2>1. UNCHANGED <<fixed, stage, open>>
      BY DEF Http, HttpVendors, HttpGeneric, others, fixed
    <2>2. ~lost
      BY DEF Http, HttpVendors, HttpGeneric, VendorAnswer, Typed, TypeOK
    <2> QED
      BY <2>1, <2>2
  <1> DEFINE server == IF pc["options"] = "done" THEN device.server ELSE {}
  <1>2. /\ open = [rtsp |-> device.rtsp, http |-> HttpPorts]
        /\ pc["options"] = "off" <=> ~device.rtsp
        /\ pc["http"] = "off" <=> HttpPorts = {}
        /\ pc["http"] = "generic" => Answered = {}
        /\ ev = [IF pc["http"] = "done" THEN HttpSays ELSE NoEvidence EXCEPT !.rtspServer = server]
    BY <1>1 DEF FirstWhole
  <1>3. /\ HttpSays' = HttpSays /\ HttpPorts' = HttpPorts /\ Answered' = Answered
        /\ device' = device
    BY <1>1, SameSays DEF fixed
  <1>4. pc["http"] \in {"vendors", "generic"} /\ pc'["options"] = pc["options"]
    BY DEF Http, HttpVendors, HttpGeneric, VendorAnswer, Done, IInv, Where, Probe
  <1> HIDE DEF server
  <1>5. ev = [NoEvidence EXCEPT !.rtspServer = server]
    BY <1>2, <1>4
  <1>6. SUFFICES pc'["http"] \in {"generic", "done"} /\ (pc'["http"] = "generic" => Answered = {})
                 /\ ev' = [IF pc'["http"] = "done" THEN HttpSays ELSE NoEvidence
                              EXCEPT !.rtspServer = server]
    BY <1>1, <1>2, <1>3, <1>4 DEF server
  <1>7. CASE \E a \in Answered : VendorAnswer(a)
    <2>1. PICK a \in Answered : VendorAnswer(a)
      BY <1>7
    <2>2. ~\E b \in Answered : Earlier(b, a)
      BY <2>1 DEF VendorAnswer
    <2>3. pc'["http"] = "done"
      BY <2>1 DEF VendorAnswer, Done, IInv, Where, Probe
    <2>4. HttpSays = [NoEvidence EXCEPT !.httpMarkers = {Endpoints[a[2]].brand},
                                        !.url = Endpoints[a[2]].url,
                                        !.realm = device.http[a[1]].realm]
      BY <1>2, <2>2, FirstAnswerSays
    <2>5. ev' = [ev EXCEPT !.httpMarkers = {Endpoints[a[2]].brand}, !.url = Endpoints[a[2]].url,
                           !.realm = device.http[a[1]].realm]
      BY <2>1 DEF VendorAnswer
    <2>6. \A m, u, r : [[NoEvidence EXCEPT !.rtspServer = server]
                           EXCEPT !.httpMarkers = m, !.url = u, !.realm = r]
                     = [[NoEvidence EXCEPT !.httpMarkers = m, !.url = u, !.realm = r]
                           EXCEPT !.rtspServer = server]
      BY DEF NoEvidence
    <2> QED
      BY <1>5, <2>3, <2>4, <2>5, <2>6
  <1>8. CASE /\ pc' = [pc EXCEPT !.http = "generic"]
             /\ lost' = (lost \/ Answered # {}) /\ ev' = ev
    <2>1. pc'["http"] = "generic" /\ Answered = {}
      BY <1>8 DEF IInv, Where, Probe
    <2> QED
      BY <1>5, <1>8, <2>1
  <1>9. CASE HttpGeneric
    <2> DEFINE pages == UpToLogin(Pages(HttpPorts))
    <2>1. /\ pc'["http"] = "done" /\ Answered = {}
          /\ ev' = [ev EXCEPT !.httpServer = GenericServer(pages), !.realm = GenericRealm(pages)]
      BY <1>2, <1>9 DEF HttpGeneric, Done, IInv, Where, Probe
    <2>2. HttpSays = [NoEvidence EXCEPT !.httpServer = GenericServer(pages),
                                        !.realm = GenericRealm(pages)]
      BY <1>2, <2>1, NoAnswerSays
    <2>3. \A s, r : [[NoEvidence EXCEPT !.rtspServer = server] EXCEPT !.httpServer = s, !.realm = r]
                  = [[NoEvidence EXCEPT !.httpServer = s, !.realm = r] EXCEPT !.rtspServer = server]
      BY DEF NoEvidence
    <2> HIDE DEF pages
    <2> QED
      BY <1>5, <2>1, <2>2, <2>3
  <1> QED
    BY <1>7, <1>8, <1>9 DEF Http, HttpVendors

LEMMA FirstWholeTcp ==
    ASSUME IInv, Typed, Unheard, TcpProbed
    PROVE  FirstWhole'
  <1> SUFFICES ASSUME stage' \in {"first", "fallback"}, ~lost'
               PROVE  /\ open' = [rtsp |-> device'.rtsp, http |-> HttpPorts']
                      /\ pc'["options"] = "off" <=> ~device'.rtsp
                      /\ pc'["http"] = "off" <=> HttpPorts' = {}
                      /\ pc'["http"] = "generic" => Answered' = {}
                      /\ ev' = [IF pc'["http"] = "done" THEN HttpSays' ELSE NoEvidence
                                  EXCEPT !.rtspServer = IF pc'["options"] = "done"
                                                        THEN device'.server ELSE {}]
    BY DEF FirstWhole
  <1>1. device' = device /\ HttpPorts' = HttpPorts /\ ev' = NoEvidence
    BY DEF TcpProbed, Unheard, fixed, HttpPorts
  <1>2. open' = [rtsp |-> device.rtsp, http |-> HttpPorts]
    BY DEF TcpProbed
  <1>3. /\ pc' = [pc EXCEPT !.options = IF device.rtsp THEN "connect" ELSE pc["options"],
                            !.http = IF HttpPorts # {} THEN "vendors" ELSE pc["http"]]
        /\ pc["options"] = "off" /\ pc["http"] = "off"
    BY <1>2 DEF TcpProbed, IInv, Where, Probe
  <1>4. /\ pc'["options"] = IF device.rtsp THEN "connect" ELSE "off"
        /\ pc'["http"] = IF HttpPorts # {} THEN "vendors" ELSE "off"
    BY <1>3 DEF IInv, Where, Probe
  <1>5. NoEvidence = [NoEvidence EXCEPT !.rtspServer = {}]
    BY DEF NoEvidence
  <1> QED
    BY <1>1, <1>2, <1>4, <1>5

\* A step that has nothing to do with the first probes.
LEMMA FirstWholeOthers ==
    ASSUME FirstWhole, UNCHANGED <<fixed, open, ev>>,
           stage' \in {"first", "fallback"} /\ ~lost' => stage \in {"first", "fallback"} /\ ~lost,
           pc'["options"] = pc["options"], pc'["http"] = pc["http"]
    PROVE  FirstWhole'
  <1>1. /\ HttpSays' = HttpSays /\ HttpPorts' = HttpPorts /\ Answered' = Answered
        /\ device' = device
    BY SameSays DEF fixed
  <1> QED
    BY <1>1 DEF FirstWhole

LEMMA FirstWholeStep ==
    ASSUME IInv, Typed, FirstWhole, Unheard, [Next]_vars
    PROVE  FirstWhole'
  <1>1. CASE Describe \/ Onvif
    <2>1. /\ UNCHANGED <<fixed, open, ev, stage>> /\ (~lost' => ~lost)
          /\ pc'["options"] = pc["options"] /\ pc'["http"] = pc["http"]
      <3>1. CASE Describe
        BY <3>1 DEF Describe, DescribeConnects, DescribeFirst, DescribeSecond, RtspFails, Reads,
               Done, others, fixed, Typed, TypeOK, IInv, Where, Probe
      <3>2. CASE Onvif
        <4>1. UNCHANGED <<fixed, open, ev, stage>>
          BY <3>2 DEF Onvif, MulticastHeard, MulticastForeign, MulticastSilent, Unicast,
               AnonymousInformed, AnonymousInVain, WsseInformed, WsseInVain, Informed, rtspVars, fixed
        <4>2. ~lost' => ~lost
          BY <3>2 DEF Onvif, MulticastHeard, MulticastForeign, MulticastSilent, Unicast,
               AnonymousInformed, AnonymousInVain, WsseInformed, WsseInVain, Informed, Typed, TypeOK
        <4>3. \E x \in Place : OnvifTo(x)
          BY <3>2 DEF Onvif, MulticastHeard, MulticastForeign, MulticastSilent, Unicast,
               AnonymousInformed, AnonymousInVain, WsseInformed, WsseInVain, Informed, Place
        <4> QED
          BY <4>1, <4>2, <4>3 DEF OnvifTo, IInv, Where, Probe
      <3> QED
        BY <1>1, <3>1, <3>2
    <2> QED
      BY <2>1, FirstWholeOthers
  <1>2. CASE FirstOver
    <2>1. UNCHANGED <<fixed, open, ev, lost>> /\ stage = "first"
      BY <1>2 DEF FirstOver, fixed
    <2>2. pc'["options"] = pc["options"] /\ pc'["http"] = pc["http"]
      BY <1>2 DEF FirstOver, IInv, Where, Probe
    <2> QED
      BY <2>1, <2>2, FirstWholeOthers
  <1>3. CASE FallbackOver \/ Deadline
    BY <1>3 DEF FallbackOver, Deadline, FirstWhole
  <1>4. CASE UNCHANGED vars
    BY <1>4, FirstWholeOthers DEF vars, fixed
  <1> QED
    BY <1>1, <1>2, <1>3, <1>4, FirstWholeOptions, FirstWholeHttp, FirstWholeTcp DEF Next, Finished

-----------------------------------------------------------------------------
(* The same answer: DESCRIBE                                               *)

LEMMA NotNothing == ASSUME IInv PROVE device.sdp # NoSdp
  <1>1. \A x \in Line : x.key # "head"
    BY DEF Line
  <1>2. NoSdp[1].key = "head" /\ 1 \in DOMAIN NoSdp
    BY DEF NoSdp, Head_
  <1>3. \A i \in DOMAIN device.sdp : device.sdp[i] \in Line
    BY DeviceIs
  <1> QED
    BY <1>1, <1>2, <1>3

\* A description that is read as a whole.
LEMMA WholeDescription == ASSUME IInv PROVE SdpIn(Described) = device.sdp
  <1> DEFINE s == Described
             First(i) == s[i] = Head_("blank") /\ \A k \in 1 .. (i-1) : s[k] # Head_("blank")
             b == CHOOSE i \in DOMAIN s : First(i)
  <1>1. device.sdp \in Seq(Text) /\ Len(device.sdp) \in Nat
    BY DeviceIs
  <1>2. /\ s \in Seq(Text) /\ Len(s) = Len(device.sdp) + 2 /\ DOMAIN s = 1 .. Len(s)
        /\ s[1] = Head_("application/sdp") /\ s[2] = Head_("blank")
        /\ \A i \in 1 .. Len(device.sdp) : s[i + 2] = device.sdp[i]
    <2> DEFINE h == <<Head_("application/sdp"), Head_("blank")>>
    <2>1. Head_("application/sdp") \in Text /\ Head_("blank") \in Text
      BY DEF Head_, Text, About, HeadWord
    <2>2. h \in Seq(Text) /\ Len(h) = 2
      BY <2>1
    <2>3. s = h \o device.sdp
      BY DEF Described
    <2>4. h[1] = Head_("application/sdp") /\ h[2] = Head_("blank")
      OBVIOUS
    <2> HIDE DEF h, s
    <2>5. /\ s \in Seq(Text) /\ DOMAIN s = 1 .. (2 + Len(device.sdp))
          /\ \A i \in 1 .. (2 + Len(device.sdp)) :
                /\ i <= 2 => s[i] = h[i]
                /\ i > 2 => s[i] = device.sdp[i - 2]
      <3>1. /\ h \o device.sdp \in Seq(Text)
            /\ DOMAIN (h \o device.sdp) = 1 .. (Len(h) + Len(device.sdp))
            /\ \A i \in 1 .. (Len(h) + Len(device.sdp)) :
                  /\ i <= Len(h) => (h \o device.sdp)[i] = h[i]
                  /\ i > Len(h) => (h \o device.sdp)[i] = device.sdp[i - Len(h)]
        <4>1. h \in Seq(Text) /\ device.sdp \in Seq(Text)
          BY <1>1, <2>2
        <4>2. \A u, v \in Seq(Text) :
                 /\ u \o v \in Seq(Text)
                 /\ DOMAIN (u \o v) = 1 .. (Len(u) + Len(v))
                 /\ \A i \in 1 .. (Len(u) + Len(v)) :
                       /\ i <= Len(u) => (u \o v)[i] = u[i]
                       /\ i > Len(u) => (u \o v)[i] = v[i - Len(u)]
          BY Concatenation
        <4> QED
          BY <4>1, <4>2, Zenon
      <3> QED
        BY <2>2, <2>3, <3>1
    <2>6. /\ Len(s) = Len(device.sdp) + 2 /\ DOMAIN s = 1 .. Len(s)
          /\ s[1] = h[1] /\ s[2] = h[2]
      <3>1. 1 \in 1 .. (2 + Len(device.sdp)) /\ 2 \in 1 .. (2 + Len(device.sdp))
        BY <1>1
      <3>2. Len(s) = 2 + Len(device.sdp)
        BY <1>1, <2>5
      <3> QED
        BY <1>1, <2>5, <3>1, <3>2
    <2>7. ASSUME NEW i \in 1 .. Len(device.sdp) PROVE s[i + 2] = device.sdp[i]
      <3>1. i + 2 \in 1 .. (2 + Len(device.sdp)) /\ i + 2 > 2 /\ (i + 2) - 2 = i
        BY <1>1
      <3> QED
        BY <2>5, <3>1
    <2> QED
      BY <2>4, <2>5, <2>6, <2>7
  <1> HIDE DEF s
  <1>3. First(2) /\ 2 \in DOMAIN s /\ 1 \in DOMAIN s
    <2>1. \A k \in 1 .. (2 - 1) : k = 1
      OBVIOUS
    <2> QED
      BY <1>1, <1>2, <2>1 DEF Head_
  <1>4. \A i \in DOMAIN s : First(i) => i = 2
    <2> SUFFICES ASSUME NEW i \in DOMAIN s, First(i), i # 2 PROVE FALSE
      OBVIOUS
    <2>1. i \in 1 .. Len(s) /\ Len(s) \in Nat
      BY <1>1, <1>2
    <2>2. CASE i = 1
      BY <1>2, <2>2 DEF Head_
    <2>3. CASE i > 2
      <3>1. 2 \in 1 .. (i - 1)
        BY <2>1, <2>3
      <3> QED
        BY <1>2, <3>1
    <2> QED
      BY <2>1, <2>2, <2>3
  <1>5. b = 2
    <2> HIDE DEF First
    <2> QED
      BY <1>3, <1>4
  <1>6. SdpIn(s) = SubSeq(s, b + 1, Len(s))
    <2>1. Has(s, "application/sdp") /\ Has(s, "blank")
      BY <1>2, <1>3 DEF Has, Head_
    <2> QED
      BY <2>1 DEF SdpIn
  <1> HIDE DEF b
  <1>7. SubSeq(s, 3, Len(s)) = device.sdp
    <2>1. /\ SubSeq(s, 3, Len(s)) \in Seq(Text) /\ Len(SubSeq(s, 3, Len(s))) = Len(device.sdp)
          /\ \A i \in 1 .. Len(device.sdp) : SubSeq(s, 3, Len(s))[i] = s[i + 2]
      BY <1>1, <1>2
    <2>2. \A t \in Seq(Text) : /\ Len(t) = Len(device.sdp)
                               /\ \A i \in 1 .. Len(device.sdp) : t[i] = device.sdp[i]
                               => t = device.sdp
      BY <1>1
    <2> QED
      BY <1>2, <2>1, <2>2
  <1> QED
    BY <1>5, <1>6, <1>7 DEF s

LEMMA RefusalSays ==
    ASSUME IInv, device.demand # "none"
    PROVE  /\ SdpIn(Refused) = NoSdp
           /\ Challenged(Refused) <=> device.demand = "digest" /\ creds # "none"
  <1>1. /\ Refused = <<Head_("401"), Head_(device.demand), Head_("blank"), Head_("body")>>
        /\ device.demand \in {"digest", "basic"}
    BY DeviceIs DEF Refused
  <1>2. /\ DOMAIN Refused = {1, 2, 3, 4}
        /\ Refused[1].about = "401" /\ Refused[2].about = device.demand
        /\ Refused[3].about = "blank" /\ Refused[4].about = "body"
    BY <1>1 DEF Head_
  <1>3. ~Has(Refused, "application/sdp") /\ Has(Refused, "401")
        /\ (Has(Refused, "digest") <=> device.demand = "digest")
    BY <1>1, <1>2 DEF Has
  <1> QED
    BY <1>3 DEF SdpIn, Challenged

\* A read that loses nothing.
LEMMA WholeRead ==
    ASSUME NEW S, stream \in Seq(S), NEW n \in 1 .. Len(stream), Reads(n), ~lost'
    PROVE  /\ SubSeq(stream, 1, n) = stream
           /\ \A t \in Seq(S) : SubSeq(stream, n + 1, Len(stream)) \o t = t
  <1>1. n = Len(stream)
    <2>1. Len(stream) \in Nat
      OBVIOUS
    <2>2. ~(n < Len(stream))
      BY DEF Reads
    <2> QED
      BY <2>1, <2>2
  <1>2. SubSeq(stream, 1, Len(stream)) = stream
    OBVIOUS
  <1>3. SubSeq(stream, Len(stream) + 1, Len(stream)) = <<>>
    OBVIOUS
  <1>4. \A t \in Seq(S) : <<>> \o t = t
    OBVIOUS
  <1> QED
    BY <1>1, <1>2, <1>3, <1>4

LEMMA AnswersAreText ==
    ASSUME IInv
    PROVE  Described \in Seq(Text) /\ (device.demand # "none" => Refused \in Seq(Text))
  <1>1. Head_("application/sdp") \in Text /\ Head_("blank") \in Text
    BY DEF Head_, Text, About, HeadWord
  <1>2. Described \in Seq(Text)
    BY <1>1, DeviceIs DEF Described
  <1>3. ASSUME device.demand # "none" PROVE Refused \in Seq(Text)
    <2>1. device.demand \in {"digest", "basic"}
      BY <1>3, DeviceIs
    <2>2. Head_("401") \in Text /\ Head_(device.demand) \in Text /\ Head_("body") \in Text
      BY <2>1 DEF Head_, Text, About, HeadWord
    <2> QED
      BY <1>1, <2>2 DEF Refused
  <1> QED
    BY <1>2, <1>3

LEMMA DescribeWholeFirstRead ==
    ASSUME IInv, Typed, FirstWhole, DescribeWhole, DescribeFirst, stage = "fallback", ~lost'
    PROVE  \/ /\ pc'["describe"] = "second" /\ sdp' = NoSdp
              /\ device.demand = "digest" /\ creds # "none"
              /\ stream' = IF creds = "good" THEN Described ELSE Refused
           \/ /\ pc'["describe"] = "done"
              /\ sdp' = IF CanDescribe THEN device.sdp ELSE NoSdp
  <1>1. PICK n \in 1 .. Len(stream) :
           /\ Reads(n)
           /\ \/ /\ Challenged(SubSeq(stream, 1, n))
                 /\ pc' = [pc EXCEPT !.describe = "second"]
                 /\ stream' = SubSeq(stream, n + 1, Len(stream))
                                \o (IF creds = "good" THEN Described ELSE Refused)
                 /\ sdp' = sdp
              \/ /\ ~Challenged(SubSeq(stream, 1, n))
                 /\ pc' = [pc EXCEPT !.describe = "done"]
                 /\ sdp' = SdpIn(SubSeq(stream, 1, n))
    BY DEF DescribeFirst, Done
  <1>2. stream = (IF device.demand = "none" THEN Described ELSE Refused) /\ stream \in Seq(Text)
    BY AnswersAreText DEF DescribeFirst, IInv, Sent
  <1>3. /\ SubSeq(stream, 1, n) = stream
        /\ \A t \in Seq(Text) : SubSeq(stream, n + 1, Len(stream)) \o t = t
    BY <1>1, <1>2, WholeRead
  <1>4. ~lost
    BY <1>1 DEF Reads, Typed, TypeOK
  <1>5. sdp = NoSdp /\ device.rtsp
    BY <1>4 DEF DescribeWhole, DescribeFirst
  <1>6. CASE /\ Challenged(SubSeq(stream, 1, n))
             /\ pc' = [pc EXCEPT !.describe = "second"]
             /\ stream' = SubSeq(stream, n + 1, Len(stream))
                            \o (IF creds = "good" THEN Described ELSE Refused)
             /\ sdp' = sdp
    <2>1. device.demand = "digest" /\ creds # "none"
      <3>1. n \in Nat
        BY <1>2
      <3> QED
        BY <1>2, <1>6, <3>1, OnlyDemandChallenges DEF IInv, Sent
    <2>2. stream' = IF creds = "good" THEN Described ELSE Refused
      BY <1>3, <1>6, <2>1, AnswersAreText
    <2>3. pc'["describe"] = "second"
      BY <1>6 DEF IInv, Where, Probe
    <2> QED
      BY <1>5, <1>6, <2>1, <2>2, <2>3
  <1>7. CASE /\ ~Challenged(SubSeq(stream, 1, n))
             /\ pc' = [pc EXCEPT !.describe = "done"]
             /\ sdp' = SdpIn(SubSeq(stream, 1, n))
    <2>1. pc'["describe"] = "done" /\ sdp' = SdpIn(stream)
      BY <1>3, <1>7 DEF IInv, Where, Probe
    <2>2. CASE device.demand = "none"
      BY <1>2, <1>5, <2>1, <2>2, WholeDescription DEF CanDescribe
    <2>3. CASE device.demand # "none"
      <3>1. ~(device.demand = "digest" /\ creds # "none")
        BY <1>2, <1>3, <1>7, <2>3, RefusalSays
      <3>2. ~CanDescribe /\ SdpIn(stream) = NoSdp
        BY <1>2, <2>3, <3>1, RefusalSays DEF CanDescribe
      <3> QED
        BY <2>1, <3>2
    <2> QED
      BY <2>1, <2>2, <2>3
  <1> QED
    BY <1>1, <1>6, <1>7

LEMMA DescribeWholeSecondRead ==
    ASSUME IInv, Typed, DescribeWhole, DescribeSecond, stage = "fallback", ~lost'
    PROVE  /\ pc'["describe"] = "done"
           /\ sdp' = IF CanDescribe THEN device.sdp ELSE NoSdp
  <1>1. PICK n \in 1 .. Len(stream) : Reads(n) /\ sdp' = SdpIn(SubSeq(stream, 1, n))
    BY DEF DescribeSecond
  <1>2. ~lost
    BY <1>1 DEF Reads, Typed, TypeOK
  <1>3. /\ device.demand = "digest" /\ creds # "none" /\ device.rtsp
        /\ stream = IF creds = "good" THEN Described ELSE Refused
    BY <1>2 DEF DescribeWhole, DescribeSecond
  <1>4. stream \in Seq(Text)
    BY <1>3, AnswersAreText
  <1>5. sdp' = SdpIn(stream)
    BY <1>1, <1>4, WholeRead
  <1>6. pc'["describe"] = "done"
    BY DEF DescribeSecond, Done, IInv, Where, Probe
  <1> QED
    BY <1>3, <1>5, <1>6, WholeDescription, RefusalSays DEF CanDescribe

\* A step that has nothing to do with DESCRIBE.
LEMMA DescribeWholeOthers ==
    ASSUME DescribeWhole, UNCHANGED <<fixed, stream, sdp>>,
           stage' = "fallback" /\ ~lost' => stage = "fallback" /\ ~lost,
           pc'["describe"] = pc["describe"]
    PROVE  DescribeWhole'
  <1>1. device' = device /\ creds' = creds /\ CanDescribe' = CanDescribe
        /\ Described' = Described /\ Refused' = Refused
    BY SameSays DEF fixed
  <1> QED
    BY <1>1 DEF DescribeWhole

LEMMA DescribeWholeStep ==
    ASSUME IInv, Typed, FirstWhole, DescribeWhole, Unheard, [Next]_vars
    PROVE  DescribeWhole'
  <1>1. CASE Describe
    <2> SUFFICES ASSUME stage' = "fallback", ~lost'
                 PROVE  /\ pc'["describe"] = "off" <=> ~device'.rtsp
                        /\ pc'["describe"] = "second" =>
                              /\ device'.demand = "digest" /\ creds' # "none"
                              /\ stream' = IF creds' = "good" THEN Described' ELSE Refused'
                        /\ sdp' = IF pc'["describe"] = "done" /\ CanDescribe'
                                  THEN device'.sdp ELSE NoSdp
      BY DEF DescribeWhole
    <2>1. UNCHANGED fixed /\ stage = "fallback"
      BY <1>1 DEF Describe, DescribeConnects, DescribeFirst, DescribeSecond, RtspFails, others, fixed
    <2>2. /\ device' = device /\ creds' = creds /\ CanDescribe' = CanDescribe
          /\ Described' = Described /\ Refused' = Refused
      BY <2>1, SameSays DEF fixed
    <2>3. ~lost
      BY <1>1 DEF Describe, DescribeConnects, DescribeFirst, DescribeSecond, RtspFails, Reads,
             Typed, TypeOK
    <2>4. device.rtsp /\ (pc["describe"] # "done" => sdp = NoSdp)
      <3>1. pc["describe"] # "off"
        BY <1>1 DEF Describe, DescribeConnects, DescribeFirst, DescribeSecond, RtspFails
      <3> QED
        BY <2>1, <2>3, <3>1 DEF DescribeWhole
    <2>5. CASE DescribeConnects
      BY <2>2, <2>4, <2>5 DEF DescribeConnects, IInv, Where, Probe
    <2>6. CASE DescribeFirst
      BY <2>1, <2>2, <2>4, <2>6, DescribeWholeFirstRead
    <2>7. CASE DescribeSecond
      BY <2>1, <2>2, <2>4, <2>7, DescribeWholeSecondRead
    <2>8. CASE RtspFails("describe")
      BY <2>8 DEF RtspFails
    <2> QED
      BY <1>1, <2>5, <2>6, <2>7, <2>8 DEF Describe
  <1>2. CASE Onvif
    <2>1. UNCHANGED <<fixed, stage, stream, sdp>>
      BY <1>2 DEF Onvif, MulticastHeard, MulticastForeign, MulticastSilent, Unicast,
           AnonymousInformed, AnonymousInVain, WsseInformed, WsseInVain, Informed, rtspVars, fixed
    <2>2. ~lost' => ~lost
      BY <1>2 DEF Onvif, MulticastHeard, MulticastForeign, MulticastSilent, Unicast,
           AnonymousInformed, AnonymousInVain, WsseInformed, WsseInVain, Informed, Typed, TypeOK
    <2>3. \E x \in Place : OnvifTo(x)
      BY <1>2 DEF Onvif, MulticastHeard, MulticastForeign, MulticastSilent, Unicast,
           AnonymousInformed, AnonymousInVain, WsseInformed, WsseInVain, Informed, Place
    <2>4. pc'["describe"] = pc["describe"]
      BY <2>3 DEF OnvifTo, IInv, Where, Probe
    <2> QED
      BY <2>1, <2>2, <2>4, DescribeWholeOthers
  <1>3. CASE Options \/ Http
    <2>1. stage = "first" /\ stage' = stage
      <3>1. /\ pc["options"] \notin Ends \/ pc["http"] \notin Ends
            /\ stage' = stage
        BY <1>3 DEF Options, OptionsConnects, OptionsAnswered, RtspFails, Http, HttpVendors,
               HttpGeneric, others, Ends
      <3> QED
        BY <3>1 DEF IInv, Where, Probe, Ends
    <2> QED
      BY <2>1 DEF DescribeWhole
  <1>4. CASE FirstOver
    <2> SUFFICES ASSUME stage' = "fallback", ~lost' PROVE DescribeWhole'
      BY DEF DescribeWhole
    <2>1. /\ device' = device /\ sdp' = NoSdp /\ open.rtsp = device.rtsp
      BY <1>4 DEF FirstOver, fixed, Unheard, FirstWhole
    <2>2. pc'["describe"] = IF device.rtsp THEN "connect" ELSE "off"
      BY <1>4, <2>1 DEF FirstOver, IInv, Where, Probe
    <2> QED
      BY <2>1, <2>2 DEF DescribeWhole
  <1>5. CASE TcpProbed \/ FallbackOver \/ Deadline
    BY <1>5 DEF TcpProbed, FallbackOver, Deadline, DescribeWhole
  <1>6. CASE UNCHANGED vars
    BY <1>6, DescribeWholeOthers DEF vars, fixed
  <1> QED
    BY <1>1, <1>2, <1>3, <1>4, <1>5, <1>6 DEF Next, Finished

-----------------------------------------------------------------------------
(* The same answer: ONVIF                                                  *)

\* Two services, of which that of HTTP is asked first.
LEMMA UnicastFinds ==
    ASSUME IInv, NEW x,
           x = (IF "http" \in device.services THEN <<"http">> ELSE <<>>)
                  \o (IF "https" \in device.services THEN <<"https">> ELSE <<>>)
    PROVE  /\ x = <<>> => UnicastXaddr = {}
           /\ x # <<>> => UnicastXaddr = {x[1]}
  <1>1. /\ <<>> \o <<>> = <<>> /\ <<"http">> \o <<>> = <<"http">>
        /\ <<>> \o <<"https">> = <<"https">>
        /\ <<"http">> \o <<"https">> = <<"http", "https">>
    <2>1. \A S : \A q \in Seq(S) : <<>> \o q = q /\ q \o <<>> = q
      OBVIOUS
    <2>2. <<>> \in Seq(Url) /\ <<"http">> \in Seq(Url) /\ <<"https">> \in Seq(Url)
      BY DEF Url
    <2>3. "http" \in Url /\ "https" \in Url
      BY DEF Url
    <2>4. <<"http">> \o <<"https">> = <<"http", "https">>
      BY <2>3, Pair, Zenon
    <2> QED
      BY <2>1, <2>2, <2>4
  <1>2. device.services \subseteq {"http", "https"}
    BY DeviceIs
  <1>3. CASE "http" \in device.services
    <2>1. x = <<"http">> \/ x = <<"http", "https">>
      BY <1>1, <1>3
    <2>2. x # <<>> /\ x[1] = "http"
      <3>1. <<"http">> # <<>> /\ <<"http">>[1] = "http"
        OBVIOUS
      <3>2. <<"http", "https">> # <<>> /\ <<"http", "https">>[1] = "http"
        OBVIOUS
      <3> QED
        BY <2>1, <3>1, <3>2, Zenon
    <2> QED
      BY <1>3, <2>2 DEF UnicastXaddr
  <1>4. CASE "http" \notin device.services /\ "https" \in device.services
    <2>1. x = <<"https">>
      BY <1>1, <1>4
    <2>2. x # <<>> /\ x[1] = "https" /\ device.services = {"https"}
      BY <1>2, <1>4, <2>1
    <2> QED
      BY <1>4, <2>2 DEF UnicastXaddr
  <1>5. CASE "http" \notin device.services /\ "https" \notin device.services
    <2>1. x = <<>> /\ device.services = {}
      BY <1>1, <1>2, <1>5
    <2> QED
      BY <1>5, <2>1 DEF UnicastXaddr
  <1> QED
    BY <1>3, <1>4, <1>5

\* What OnvifWhole says of one state.
OnvifIs ==
    /\ pc["onvif"] = "off" <=> ~HasOnvif
    /\ pc["onvif"] = "multicast" => ~stranger /\ xaddrs = <<>>
    /\ pc["onvif"] = "unicast" => xaddrs = <<>> /\ Reached = UnicastXaddr
    /\ pc["onvif"] \in {"anonymous", "wsse"} => xaddrs # <<>> /\ Reached = {xaddrs[1]}
    /\ pc["onvif"] = "wsse" => creds # "none" /\ ~TellsAnyone
    /\ info = IF pc["onvif"] = "done" /\ InfoFrom(Reached) THEN Told ELSE NoInfo

LEMMA OnvifWholeIs ==
    /\ OnvifWhole <=> (stage = "fallback" /\ ~lost /\ timeout # MulticastTimeout => OnvifIs)
    /\ OnvifWhole' <=> (stage' = "fallback" /\ ~lost' /\ timeout' # MulticastTimeout => OnvifIs')
  BY DEF OnvifWhole, OnvifIs

LEMMA SameOnvif ==
    ASSUME UNCHANGED fixed
    PROVE  /\ HasOnvif' = HasOnvif /\ Told' = Told /\ UnicastXaddr' = UnicastXaddr
           /\ FirstXaddr' = FirstXaddr
           /\ stranger' = stranger => Reached' = Reached
           /\ \A u : Serves(u)' = Serves(u)
           /\ \A urls : InfoFrom(urls)' = InfoFrom(urls)
           /\ xaddrs' = xaddrs => TellsAnyone' = TellsAnyone
  <1>1. device' = device /\ creds' = creds /\ timeout' = timeout
    BY DEF fixed
  <1>2. /\ HasOnvif' = HasOnvif /\ Told' = Told /\ UnicastXaddr' = UnicastXaddr
        /\ FirstXaddr' = FirstXaddr
    BY <1>1, SameSays
  <1> QED
    BY <1>1, <1>2 DEF Reached, Serves, InfoFrom, TellsAnyone, HasOnvif

LEMMA OnvifWholeProbe ==
    ASSUME IInv, Typed, OnvifWhole, timeout \in Nat, Onvif
    PROVE  OnvifWhole'
  <1>1. UNCHANGED fixed /\ stage' = stage /\ timeout' = timeout /\ creds' = creds
    BY DEF Onvif, MulticastHeard, MulticastForeign, MulticastSilent, Unicast,
           AnonymousInformed, AnonymousInVain, WsseInformed, WsseInVain, Informed, rtspVars, fixed
  <1>2. lost => lost'
    BY DEF Onvif, MulticastHeard, MulticastForeign, MulticastSilent, Unicast,
           AnonymousInformed, AnonymousInVain, WsseInformed, WsseInVain, Informed
  <1> SUFFICES ASSUME stage = "fallback", ~lost, ~lost', timeout # MulticastTimeout, OnvifIs
               PROVE  OnvifIs'
    BY <1>1, <1>2, OnvifWholeIs DEF Typed, TypeOK
  <1>3. /\ HasOnvif' = HasOnvif /\ Told' = Told /\ UnicastXaddr' = UnicastXaddr
        /\ FirstXaddr' = FirstXaddr
        /\ stranger' = stranger => Reached' = Reached
        /\ \A u : Serves(u)' = Serves(u)
        /\ \A urls : InfoFrom(urls)' = InfoFrom(urls)
        /\ xaddrs' = xaddrs => TellsAnyone' = TellsAnyone
        /\ device' = device
    BY <1>1, SameOnvif DEF fixed
  <1>4. pc["onvif"] \notin {"off", "done"} /\ HasOnvif /\ info = NoInfo
    <2>1. pc["onvif"] \notin {"off", "done"}
      BY DEF Onvif, MulticastHeard, MulticastForeign, MulticastSilent, Unicast,
             AnonymousInformed, AnonymousInVain, WsseInformed, WsseInVain
    <2> QED
      BY <2>1 DEF OnvifIs
  <1>5. \A x : OnvifTo(x) => pc'["onvif"] = x
    BY DEF OnvifTo, IInv, Where, Probe
  <1>6. ~InfoFrom({})
    BY DEF InfoFrom
  <1>7. CASE MulticastHeard
    <2>1. /\ pc["onvif"] = "multicast" /\ ~stranger /\ info' = info /\ stranger' = stranger
          /\ device.multicast # "silent"
          /\ \/ device.multicast = "xaddr" /\ xaddrs' = <<"advertised">> /\ OnvifTo("anonymous")
             \/ device.multicast # "xaddr" /\ xaddrs' = <<>> /\ OnvifTo("unicast")
      BY <1>7 DEF MulticastHeard, OnvifIs
    <2>2. Reached' = FirstXaddr
      BY <1>3, <2>1 DEF Reached
    <2>3. CASE device.multicast = "xaddr"
      <3>1. pc'["onvif"] = "anonymous" /\ xaddrs' = <<"advertised">> /\ Reached' = {"advertised"}
        BY <1>5, <2>1, <2>2, <2>3 DEF FirstXaddr
      <3>2. xaddrs' # <<>> /\ xaddrs'[1] = "advertised"
        BY <3>1
      <3> QED
        BY <1>3, <1>4, <2>1, <3>1, <3>2 DEF OnvifIs
    <2>4. CASE device.multicast # "xaddr"
      <3>1. pc'["onvif"] = "unicast" /\ xaddrs' = <<>> /\ Reached' = UnicastXaddr'
        BY <1>3, <1>5, <2>1, <2>2, <2>4 DEF FirstXaddr
      <3> QED
        BY <1>3, <1>4, <2>1, <3>1 DEF OnvifIs
    <2> QED
      BY <2>3, <2>4
  <1>8. CASE MulticastForeign
    <2>1. /\ pc'["onvif"] = "unicast" /\ xaddrs' = <<>> /\ stranger' /\ info' = info
      BY <1>5, <1>8 DEF MulticastForeign, OnvifIs
    <2>2. Reached' = UnicastXaddr'
      BY <2>1 DEF Reached
    <2> QED
      BY <1>3, <1>4, <2>1, <2>2 DEF OnvifIs
  <1>9. CASE MulticastSilent
    <2>1. /\ pc["onvif"] = "multicast" /\ ~stranger /\ info' = info /\ stranger' = stranger
          /\ xaddrs' = <<>> /\ device.multicast = "silent"
          /\ \/ timeout <= 20 /\ pc'["onvif"] = "done"
             \/ timeout >= 20 /\ pc'["onvif"] = "unicast"
      BY <1>5, <1>9 DEF MulticastSilent, OnvifIs, OuterIsFirst, InnerIsFirst, MulticastTimeout
    <2>2. Reached' = FirstXaddr
      BY <1>3, <2>1 DEF Reached
    <2>3. CASE timeout <= 20 /\ pc'["onvif"] = "done"
      <3>1. timeout < 20
        BY <2>3 DEF MulticastTimeout
      <3>2. Reached' = {}
        BY <2>1, <2>2, <3>1 DEF FirstXaddr, MulticastTimeout
      <3> QED
        BY <1>3, <1>4, <1>6, <2>1, <2>3, <3>2 DEF OnvifIs
    <2>4. CASE timeout >= 20 /\ pc'["onvif"] = "unicast"
      <3>1. ~(timeout < 20)
        BY <2>4
      <3>2. Reached' = UnicastXaddr'
        BY <1>3, <2>1, <2>2, <3>1 DEF FirstXaddr, MulticastTimeout
      <3> QED
        BY <1>3, <1>4, <2>1, <2>4, <3>2 DEF OnvifIs
    <2> QED
      BY <2>1, <2>3, <2>4
  <1>10. CASE Unicast
    <2>1. PICK heard \in SUBSET device.services :
             /\ xaddrs' = (IF "http" \in heard THEN <<"http">> ELSE <<>>)
                            \o (IF "https" \in heard THEN <<"https">> ELSE <<>>)
             /\ lost' = (lost \/ heard # device.services)
      BY <1>10 DEF Unicast
    <2>2. heard = device.services
      BY <2>1
    <2>3. /\ pc["onvif"] = "unicast" /\ info' = info /\ stranger' = stranger
          /\ pc'["onvif"] = IF xaddrs' = <<>> THEN "done" ELSE "anonymous"
      BY <1>5, <1>10 DEF Unicast
    <2>4. Reached' = UnicastXaddr
      BY <1>3, <2>3 DEF OnvifIs
    <2>5. /\ xaddrs' = <<>> => UnicastXaddr = {}
          /\ xaddrs' # <<>> => UnicastXaddr = {xaddrs'[1]}
      BY <2>1, <2>2, UnicastFinds
    <2> QED
      BY <1>3, <1>4, <1>6, <2>3, <2>4, <2>5 DEF OnvifIs
  <1>11. CASE AnonymousInformed \/ AnonymousInVain \/ WsseInformed \/ WsseInVain
    <2>1. /\ pc["onvif"] \in {"anonymous", "wsse"}
          /\ xaddrs' = xaddrs /\ stranger' = stranger
      BY <1>11 DEF AnonymousInformed, AnonymousInVain, WsseInformed, WsseInVain, Informed
    <2>2. /\ xaddrs # <<>> /\ Reached = {xaddrs[1]}
          /\ pc["onvif"] = "wsse" => creds # "none" /\ ~TellsAnyone
      BY <2>1 DEF OnvifIs
    <2>3. Reached' = Reached /\ TellsAnyone' = TellsAnyone
      BY <1>3, <2>1
    <2>4. InfoFrom(Reached) <=> Serves(xaddrs[1]) /\ (device.info = "open" \/ creds = "good")
      BY <1>4, <2>2 DEF InfoFrom
    <2>5. InfoFrom(Reached)' <=> InfoFrom(Reached)
      BY <1>1, <1>3, <2>3 DEF InfoFrom
    <2>6. CASE AnonymousInformed \/ WsseInformed
      <3>1. pc'["onvif"] = "done" /\ info' = Told
        BY <1>5, <2>6 DEF AnonymousInformed, WsseInformed, Informed
      <3>2. InfoFrom(Reached)
        BY <2>4, <2>6 DEF AnonymousInformed, WsseInformed, TellsAnyone
      <3> QED
        BY <1>3, <1>4, <2>3, <2>5, <3>1, <3>2 DEF OnvifIs
    <2>7. CASE AnonymousInVain
      <3>1. ~TellsAnyone /\ info' = info
        BY <2>7 DEF AnonymousInVain, Typed, TypeOK
      <3>2. pc'["onvif"] = IF creds = "none" THEN "done" ELSE "wsse"
        BY <1>5, <2>7 DEF AnonymousInVain
      <3>3. creds = "none" => ~InfoFrom(Reached)
        BY <2>4, <3>1 DEF TellsAnyone
      <3> QED
        BY <1>1, <1>3, <1>4, <2>1, <2>2, <2>3, <2>5, <3>1, <3>2, <3>3 DEF OnvifIs
    <2>8. CASE WsseInVain
      <3>1. ~TellsAnyone /\ ~(Serves(xaddrs[1]) /\ creds = "good") /\ info' = info
        BY <2>2, <2>8 DEF WsseInVain
      <3>2. pc'["onvif"] = "done"
        BY <1>5, <2>8 DEF WsseInVain
      <3>3. ~InfoFrom(Reached)
        BY <2>4, <3>1 DEF TellsAnyone
      <3> QED
        BY <1>3, <1>4, <2>3, <2>5, <3>1, <3>2, <3>3 DEF OnvifIs
    <2> QED
      BY <1>11, <2>6, <2>7, <2>8
  <1> QED
    BY <1>7, <1>8, <1>9, <1>10, <1>11 DEF Onvif

\* A step that has nothing to do with ONVIF.
LEMMA OnvifWholeOthers ==
    ASSUME OnvifWhole, UNCHANGED <<fixed, xaddrs, info, stranger>>,
           stage' = "fallback" /\ ~lost' => stage = "fallback" /\ ~lost,
           pc'["onvif"] = pc["onvif"]
    PROVE  OnvifWhole'
  <1>1. /\ HasOnvif' = HasOnvif /\ Told' = Told /\ UnicastXaddr' = UnicastXaddr
        /\ Reached' = Reached /\ TellsAnyone' = TellsAnyone
        /\ creds' = creds /\ timeout' = timeout
    BY SameOnvif DEF fixed
  <1>2. InfoFrom(Reached)' = InfoFrom(Reached)
    BY <1>1 DEF InfoFrom, Serves, fixed
  <1>3. OnvifIs => OnvifIs'
    BY <1>1, <1>2 DEF OnvifIs
  <1> QED
    BY <1>1, <1>3, OnvifWholeIs

LEMMA OnvifWholeStep ==
    ASSUME IInv, Typed, FirstWhole, OnvifWhole, Unheard, timeout \in Nat, [Next]_vars
    PROVE  OnvifWhole'
  <1>1. CASE Options \/ Http
    <2>1. stage = "first" /\ stage' = stage
      <3>1. /\ pc["options"] \notin Ends \/ pc["http"] \notin Ends
            /\ stage' = stage
        BY <1>1 DEF Options, OptionsConnects, OptionsAnswered, RtspFails, Http, HttpVendors,
               HttpGeneric, others, Ends
      <3> QED
        BY <3>1 DEF IInv, Where, Probe, Ends
    <2> QED
      BY <2>1 DEF OnvifWhole
  <1>2. CASE Describe
    <2>1. /\ UNCHANGED <<fixed, stage, xaddrs, info, stranger>> /\ (~lost' => ~lost)
          /\ pc'["onvif"] = pc["onvif"]
      BY <1>2 DEF Describe, DescribeConnects, DescribeFirst, DescribeSecond, RtspFails, Reads,
             Done, others, fixed, Typed, TypeOK, IInv, Where, Probe
    <2> QED
      BY <2>1, OnvifWholeOthers
  <1>3. CASE FirstOver
    <2> SUFFICES ASSUME stage' = "fallback", ~lost' PROVE OnvifIs'
      BY OnvifWholeIs
    <2>1. /\ UNCHANGED fixed /\ device' = device /\ info' = NoInfo /\ xaddrs' = <<>> /\ ~stranger'
          /\ open.http = HttpPorts
      BY <1>3 DEF FirstOver, fixed, Unheard, FirstWhole
    <2>2. (\E i \in open.http : device.http[i].onvif) <=> HasOnvif
      BY <2>1 DEF HasOnvif, HttpPorts
    <2>3. pc["onvif"] = "off"
      BY <1>3 DEF FirstOver, IInv, Where
    <2>4. pc'["onvif"] = IF HasOnvif THEN "multicast" ELSE "off"
      BY <1>3, <2>2, <2>3 DEF FirstOver, IInv, Where, Probe
    <2> QED
      BY <2>1, <2>4, SameOnvif DEF OnvifIs
  <1>4. CASE TcpProbed \/ FallbackOver \/ Deadline
    BY <1>4 DEF TcpProbed, FallbackOver, Deadline, OnvifWhole
  <1>5. CASE UNCHANGED vars
    BY <1>5, OnvifWholeOthers DEF vars, fixed
  <1> QED
    BY <1>1, <1>2, <1>3, <1>4, <1>5, OnvifWholeProbe DEF Next, Finished

-----------------------------------------------------------------------------
(* The same answer: the results                                            *)

LEMMA UnheardStep ==
    ASSUME IInv, Unheard, [Next]_vars
    PROVE  Unheard'
  <1>1. CASE Describe \/ Onvif
    <2>1. stage' = stage /\ (pc["describe"] \notin Ends \/ pc["onvif"] \notin Ends)
      BY <1>1 DEF Describe, DescribeConnects, DescribeFirst, DescribeSecond, RtspFails, others,
             Onvif, MulticastHeard, MulticastForeign, MulticastSilent, Unicast, AnonymousInformed,
             AnonymousInVain, WsseInformed, WsseInVain, Informed, rtspVars, Ends
    <2>2. stage \notin {"tcp", "first"}
      BY <2>1 DEF IInv, Where, Ends, Probe
    <2> QED
      BY <2>1, <2>2 DEF Unheard
  <1>2. CASE Options \/ Http
    <2>1. /\ UNCHANGED <<stage, info, xaddrs, stranger, sdp>>
          /\ pc["options"] \notin Ends \/ pc["http"] \notin Ends
      BY <1>2 DEF Options, OptionsConnects, OptionsAnswered, RtspFails, Http, HttpVendors,
             HttpGeneric, others, Ends
    <2>2. stage # "tcp"
      BY <2>1 DEF IInv, Where, Ends, Probe
    <2> QED
      BY <2>1, <2>2 DEF Unheard
  <1>3. CASE TcpProbed
    BY <1>3 DEF TcpProbed, Unheard
  <1>4. CASE FirstOver \/ FallbackOver \/ Deadline
    BY <1>4 DEF FirstOver, FallbackOver, Deadline, Unheard
  <1>5. CASE UNCHANGED vars
    BY <1>5 DEF vars, Unheard
  <1> QED
    BY <1>1, <1>2, <1>3, <1>4, <1>5 DEF Next, Finished

LEMMA UndecidedStep ==
    ASSUME IInv, Undecided, [Next]_vars
    PROVE  Undecided'
  <1>1. CASE Options \/ Http
    <2>1. stage' = stage /\ (pc["options"] \notin Ends \/ pc["http"] \notin Ends)
      BY <1>1 DEF Options, OptionsConnects, OptionsAnswered, RtspFails, Http, HttpVendors,
             HttpGeneric, others, Ends
    <2>2. stage # "fallback"
      BY <2>1 DEF IInv, Where
    <2> QED
      BY <2>1, <2>2 DEF Undecided
  <1>2. CASE Describe \/ Onvif
    <2>1. ev' = ev /\ stage' = stage
      BY <1>2 DEF Describe, DescribeConnects, DescribeFirst, DescribeSecond, RtspFails, others,
             Onvif, MulticastHeard, MulticastForeign, MulticastSilent, Unicast, AnonymousInformed,
             AnonymousInVain, WsseInformed, WsseInVain, Informed, rtspVars
    <2> QED
      BY <2>1 DEF Undecided
  <1>3. CASE FirstOver
    BY <1>3 DEF FirstOver, Undecided
  <1>4. CASE TcpProbed \/ FallbackOver \/ Deadline
    BY <1>4 DEF TcpProbed, FallbackOver, Deadline, Undecided
  <1>5. CASE UNCHANGED vars
    BY <1>5 DEF vars, Undecided
  <1> QED
    BY <1>1, <1>2, <1>3, <1>4, <1>5 DEF Next, Finished

LEMMA FirstSaysNo ==
    /\ FirstSays.markers = {} /\ FirstSays.raw = {} /\ FirstSays.parsed = FALSE
    /\ FirstSays.maker = {} /\ FirstSays.model = {}
  BY HttpSaysNo DEF FirstSays

\* What the fallback has found when it is over and nothing was lost.
LEMMA FallbackIsWhole ==
    ASSUME IInv, Typed, FirstWhole, DescribeWhole, OnvifWhole, FallbackOver, ~lost,
           timeout # MulticastTimeout
    PROVE  /\ ev = FirstSays
           /\ sdp = IF CanDescribe THEN device.sdp ELSE NoSdp
           /\ info = IF InfoFrom(Reached) THEN Told ELSE NoInfo
  <1>1. /\ stage = "fallback" /\ pc["describe"] \in Ends /\ pc["onvif"] \in Ends
        /\ pc["options"] \in Ends /\ pc["http"] \in Ends
    BY DEF FallbackOver, Over, Ends, IInv, Where
  <1>2. ev = FirstSays
    BY <1>1, FirstIsWhole
  <1>3. CanDescribe => pc["describe"] = "done"
    BY <1>1 DEF CanDescribe, DescribeWhole, Ends
  <1>4. InfoFrom(Reached) => pc["onvif"] = "done"
    BY <1>1 DEF InfoFrom, OnvifWhole, Ends
  <1> QED
    BY <1>1, <1>2, <1>3, <1>4 DEF DescribeWhole, OnvifWhole

\* The evidence of everything, put together by the last stage.
LEMMA AllIsWhole ==
    ASSUME IInv, Typed, FirstWhole, DescribeWhole, OnvifWhole, FallbackOver, ~lost,
           timeout # MulticastTimeout, ~stranger
    PROVE  WithInfo(WithSdp(ev, sdp), info) = AllSays
  <1>1. /\ ev = FirstSays /\ ev \in Evidence
        /\ sdp = IF CanDescribe THEN device.sdp ELSE NoSdp
        /\ info = IF InfoFrom(FirstXaddr) THEN Told ELSE NoInfo
    BY FallbackIsWhole DEF Reached, Typed, TypeOK
  <1>2. /\ ev.markers = {} /\ ev.raw = {} /\ ev.parsed = FALSE /\ ev.maker = {} /\ ev.model = {}
    BY <1>1, FirstSaysNo
  <1> DEFINE marks == IF CanDescribe THEN SdpSays(device.sdp) ELSE {}
             raws == IF CanDescribe THEN RawOf(device.sdp) ELSE {}
  <1>3. WithSdp(ev, sdp) = [ev EXCEPT !.raw = raws, !.parsed = CanDescribe, !.markers = marks]
    <2>1. CASE CanDescribe
      <3>1. sdp # NoSdp /\ sdp = device.sdp /\ Markers(ParseSdp(sdp)) = SdpSays(device.sdp)
        BY <1>1, <2>1, NotNothing, DeviceIs, ParserFindsWhatItSays
      <3> QED
        BY <2>1, <3>1 DEF WithSdp
    <2>2. CASE ~CanDescribe
      <3>1. WithSdp(ev, sdp) = ev
        BY <1>1, <2>2 DEF WithSdp
      <3>2. ev = [ev EXCEPT !.raw = {}, !.parsed = FALSE, !.markers = {}]
        BY <1>1, <1>2 DEF Evidence
      <3>3. CanDescribe = FALSE
        BY <2>2 DEF CanDescribe
      <3> QED
        BY <3>1, <3>2, <3>3
    <2> QED
      BY <2>1, <2>2
  <1> DEFINE maker == IF InfoFrom(FirstXaddr) THEN device.maker ELSE {}
             model == IF InfoFrom(FirstXaddr) THEN device.model ELSE {}
  <1>4. info.maker = maker /\ info.model = model
    BY <1>1 DEF Told, NoInfo
  <1>5. AllSays = [ev EXCEPT !.parsed = CanDescribe, !.markers = marks, !.raw = raws,
                             !.maker = maker, !.model = model]
    BY <1>1 DEF AllSays
  <1> HIDE DEF marks, raws, maker, model
  <1>6. WithInfo(WithSdp(ev, sdp), info)
           = [[ev EXCEPT !.raw = raws, !.parsed = CanDescribe, !.markers = marks]
                 EXCEPT !.maker = maker, !.model = model]
    BY <1>3, <1>4 DEF WithInfo
  <1>7. \A c : [[ev EXCEPT !.raw = raws, !.parsed = c, !.markers = marks]
                   EXCEPT !.maker = maker, !.model = model]
                = [ev EXCEPT !.parsed = c, !.markers = marks, !.raw = raws,
                             !.maker = maker, !.model = model]
    BY <1>1 DEF Evidence
  <1> QED
    BY <1>5, <1>6, <1>7

LEMMA NoPlaces == ASSUME NEW S, NEW q \in Seq(S), DOMAIN q = {} PROVE q = <<>>
  <1>1. DOMAIN q = 1 .. Len(q) /\ Len(q) \in Nat
    OBVIOUS
  <1>2. Len(q) = 0
    <2> SUFFICES ASSUME Len(q) # 0 PROVE FALSE
      OBVIOUS
    <2>1. \A n \in Nat : n # 0 => 1 \in 1 .. n
      OBVIOUS
    <2>2. 1 \in DOMAIN q
      BY <1>1, <2>1
    <2> QED
      BY <2>2, Zenon
  <1> QED
    BY <1>2

LEMMA SameAnswerStep ==
    ASSUME IInv, Typed, Whole, [Next]_vars
    PROVE  SameAnswer'
  <1> SUFFICES ASSUME stage' = "done", result'.method # "timeout", ~lost',
                      timeout' # MulticastTimeout, ~stranger', device'.rtsp \/ device'.http # <<>>
               PROVE  result' = IF ResultFrom(FirstSays') # Unknown THEN ResultFrom(FirstSays')
                                ELSE ResultFrom(AllSays')
    BY DEF SameAnswer, Sound
  <1>1. CASE UNCHANGED vars
    <2>1. UNCHANGED <<fixed, stage, result, lost, stranger>> /\ device' = device /\ timeout' = timeout
      BY <1>1 DEF vars, fixed
    <2>2. AllSays' = AllSays /\ FirstSays' = FirstSays
      BY <2>1, SameSays
    <2> QED
      BY <2>1, <2>2 DEF Whole, SameAnswer, Sound
  <1>2. CASE TcpProbed
    <2>1. PICK r \in {FALSE, device.rtsp}, ports \in SUBSET HttpPorts :
             /\ open' = [rtsp |-> r, http |-> ports]
             /\ lost' = (r # device.rtsp \/ ports # HttpPorts)
      BY <1>2 DEF TcpProbed
    <2>2. /\ open'.rtsp = device.rtsp /\ open'.http = HttpPorts
      BY <2>1
    <2>3. ~device.rtsp /\ HttpPorts = {}
      BY <1>2, <2>2 DEF TcpProbed
    <2>4. device.http = <<>>
      <3>1. device.http \in Seq(HttpPort) /\ DOMAIN device.http = {}
        BY <2>3, DeviceIs DEF HttpPorts
      <3> QED
        BY <3>1, NoPlaces
    <2> QED
      BY <1>2, <2>3, <2>4 DEF TcpProbed, fixed
  <1>3. CASE FirstOver
    <2>1. /\ UNCHANGED fixed /\ ~lost /\ stage = "first"
          /\ pc["options"] \in Ends /\ pc["http"] \in Ends
          /\ ResultFrom(ev) # Unknown /\ result' = ResultFrom(ev)
      BY <1>3 DEF FirstOver, Over, Ends
    <2>2. ev = FirstSays /\ FirstSays' = FirstSays
      BY <2>1, FirstIsWhole, SameSays DEF Whole
    <2> QED
      BY <2>1, <2>2
  <1>4. CASE FallbackOver
    <2>1. /\ UNCHANGED fixed /\ ~lost /\ ~stranger /\ timeout # MulticastTimeout
          /\ stage = "fallback"
          /\ result' = ResultFrom(WithInfo(WithSdp(ev, sdp), info))
      BY <1>4 DEF FallbackOver, fixed
    <2>2. ev = FirstSays /\ WithInfo(WithSdp(ev, sdp), info) = AllSays
      BY <1>4, <2>1, FallbackIsWhole, AllIsWhole DEF Whole
    <2>3. ResultFrom(FirstSays) = Unknown
      BY <2>1, <2>2 DEF Whole, Undecided
    <2> QED
      BY <2>1, <2>2, <2>3, SameSays
  <1>5. CASE Deadline
    BY <1>5 DEF Deadline, TimedOut, By
  <1>6. CASE Options \/ Http \/ Describe \/ Onvif
    <2>1. /\ stage' = stage
          /\ \E p \in Probe : pc[p] \notin Ends
      BY <1>6 DEF Options, OptionsConnects, OptionsAnswered, RtspFails, Http, HttpVendors,
             HttpGeneric, Describe, DescribeConnects, DescribeFirst, DescribeSecond, others,
             Onvif, MulticastHeard, MulticastForeign, MulticastSilent, Unicast, AnonymousInformed,
             AnonymousInVain, WsseInformed, WsseInVain, Informed, rtspVars, Ends, Probe
    <2> QED
      BY <2>1 DEF IInv, Where
  <1> QED
    BY <1>1, <1>2, <1>3, <1>4, <1>5, <1>6 DEF Next, Finished

\* Taking away what ONVIF told, and telling it, forget what was told before.
LEMMA ToldOnce ==
    ASSUME NEW e \in Evidence, NEW i, NEW j,
           \/ i.maker = {} /\ i.model = {}
           \/ i = j
    PROVE  /\ e.maker = {} /\ e.model = {} => [e EXCEPT !.maker = {}, !.model = {}] = e
           /\ e.maker = {} /\ e.model = {} =>
                 [WithInfo(e, i) EXCEPT !.maker = {}, !.model = {}] = e
           /\ WithInfo(WithInfo(e, i), j) = WithInfo(e, j)
           /\ e.maker = {} /\ e.model = {} /\ i.maker = {} /\ i.model = {} => WithInfo(e, i) = e
  BY DEF WithInfo, Evidence

\* A device with services that talks there: what it tells is had unless the
\* fallback was cut short.
LEMMA UnicastReaches ==
    ASSUME IInv, timeout \in Nat, timeout # MulticastTimeout,
           device.multicast = "silent", device.services \subseteq device.talks,
           InfoFrom({u \in {"http", "https"} : u \in device.services})
    PROVE  InfoFrom(Reached) <=> timeout > MulticastTimeout \/ stranger
  <1>1. /\ device.multicast = "silent" /\ device.services \subseteq device.talks
        /\ HasOnvif /\ device.info # "none" /\ (device.info = "open" \/ creds = "good")
        /\ device.services # {} /\ device.services \subseteq {"http", "https"}
    BY DeviceIs DEF InfoFrom, Serves
  <1>2. UnicastXaddr \subseteq device.talks /\ UnicastXaddr # {}
    BY <1>1 DEF UnicastXaddr
  <1>3. InfoFrom(UnicastXaddr)
    BY <1>1, <1>2 DEF InfoFrom, Serves
  <1>4. ~InfoFrom({})
    BY DEF InfoFrom
  <1>5. CASE stranger
    BY <1>3, <1>5 DEF Reached
  <1>6. CASE ~stranger /\ timeout < MulticastTimeout
    <2>1. Reached = {}
      BY <1>1, <1>6 DEF Reached, FirstXaddr
    <2>2. ~(timeout > MulticastTimeout)
      BY <1>6 DEF MulticastTimeout
    <2> QED
      BY <1>4, <1>6, <2>1, <2>2
  <1>7. CASE ~stranger /\ ~(timeout < MulticastTimeout)
    <2>1. Reached = UnicastXaddr
      BY <1>1, <1>7 DEF Reached, FirstXaddr
    <2>2. timeout > MulticastTimeout
      BY <1>7 DEF MulticastTimeout
    <2> QED
      BY <1>3, <2>1, <2>2
  <1> QED
    BY <1>5, <1>6, <1>7

LEMMA UnicastExactlyStep ==
    ASSUME IInv, Typed, Whole, [Next]_vars
    PROVE  UnicastExactly'
  <1> SUFFICES ASSUME stage' = "done", result'.method # "timeout", ~lost',
                      timeout' # MulticastTimeout, UnicastDevice'
               PROVE  result' # Unknown <=> timeout' > MulticastTimeout \/ stranger'
    BY DEF UnicastExactly, Sound
  <1>1. CASE UNCHANGED vars
    <2>1. UNCHANGED <<device, creds, timeout, stage, ev, result, lost, stranger>>
      BY <1>1 DEF vars
    <2>2. UnicastDevice' => UnicastDevice
      BY <2>1 DEF UnicastDevice, InfoFrom, HasOnvif, Serves, Told
    <2> QED
      BY <2>1, <2>2 DEF Whole, UnicastExactly, Sound
  <1>2. CASE TcpProbed
    <2>1. PICK r \in {FALSE, device.rtsp}, ports \in SUBSET HttpPorts :
             /\ open' = [rtsp |-> r, http |-> ports]
             /\ lost' = (r # device.rtsp \/ ports # HttpPorts)
      BY <1>2 DEF TcpProbed
    <2>2. HttpPorts = {}
      BY <1>2, <2>1 DEF TcpProbed
    <2>3. ~HasOnvif /\ device' = device
      BY <1>2, <2>2 DEF HasOnvif, HttpPorts, TcpProbed, fixed
    <2>4. HasOnvif'
      BY DEF UnicastDevice, InfoFrom
    <2> QED
      BY <2>3, <2>4 DEF HasOnvif
  <1>3. CASE FirstOver
    <2>1. /\ ~lost /\ stage = "first" /\ ev' = ev
          /\ pc["options"] \in Ends /\ pc["http"] \in Ends /\ ResultFrom(ev) # Unknown
      BY <1>3 DEF FirstOver, Over, Ends
    <2>2. ev \in Evidence /\ ev.maker = {} /\ ev.model = {}
      BY <2>1, FirstIsWhole, FirstSaysNo DEF Whole, Typed, TypeOK
    <2>3. [ev EXCEPT !.maker = {}, !.model = {}] = ev
      BY <2>2, ToldOnce
    <2>4. ResultFrom([ev EXCEPT !.maker = {}, !.model = {}]) = Unknown
      BY <2>1 DEF UnicastDevice
    <2> QED
      BY <2>1, <2>3, <2>4
  <1>4. CASE FallbackOver
    <2>1. /\ UNCHANGED fixed /\ timeout' = timeout /\ device' = device /\ creds' = creds /\ ~lost
          /\ timeout # MulticastTimeout /\ stranger' = stranger
          /\ ev' = WithInfo(WithSdp(ev, sdp), info) /\ result' = ResultFrom(ev')
      BY <1>4 DEF FallbackOver, fixed
    <2>2. ev = FirstSays /\ info = IF InfoFrom(Reached) THEN Told ELSE NoInfo
      BY <1>4, <2>1, FallbackIsWhole DEF Whole
    <2>3. /\ WithSdp(ev, sdp) \in Evidence
          /\ WithSdp(ev, sdp).maker = {} /\ WithSdp(ev, sdp).model = {}
      BY <2>2, FirstSaysNo, AllIsEvidence DEF WithSdp, Typed, TypeOK, Evidence
    <2> DEFINE seen == WithSdp(ev, sdp)
    <2>4. [ev' EXCEPT !.maker = {}, !.model = {}] = seen /\ WithInfo(ev', Told') = WithInfo(seen, Told)
      <3>1. Told' = Told /\ (info = Told \/ (info.maker = {} /\ info.model = {}))
        BY <2>1, <2>2, SameSays DEF NoInfo
      <3> HIDE DEF seen
      <3> QED
        BY <2>1, <2>3, <3>1, ToldOnce DEF seen
    <2>5. ResultFrom(seen) = Unknown /\ ResultFrom(WithInfo(seen, Told)) # Unknown
      BY <2>4 DEF UnicastDevice
    <2>6. result' # Unknown <=> InfoFrom(Reached)
      <3>1. CASE InfoFrom(Reached)
        BY <2>1, <2>2, <2>5, <3>1
      <3>2. CASE ~InfoFrom(Reached)
        <4>1. WithInfo(seen, info) = seen
          BY <2>2, <2>3, <3>2, ToldOnce DEF NoInfo
        <4> QED
          BY <2>1, <2>5, <3>2, <4>1
      <3> QED
        BY <3>1, <3>2
    <2>7. InfoFrom(Reached) <=> timeout > MulticastTimeout \/ stranger
      <3>1. timeout \in Nat
        BY OptionsAssumption DEF Whole
      <3>2. /\ device.multicast = "silent" /\ device.services \subseteq device.talks
            /\ InfoFrom({u \in {"http", "https"} : u \in device.services})
        BY <2>1 DEF UnicastDevice, InfoFrom, HasOnvif, Serves
      <3> QED
        BY <2>1, <3>1, <3>2, UnicastReaches
    <2> QED
      BY <2>1, <2>6, <2>7
  <1>5. CASE Deadline
    BY <1>5 DEF Deadline, TimedOut, By
  <1>6. CASE Options \/ Http \/ Describe \/ Onvif
    <2>1. /\ stage' = stage
          /\ \E p \in Probe : pc[p] \notin Ends
      BY <1>6 DEF Options, OptionsConnects, OptionsAnswered, RtspFails, Http, HttpVendors,
             HttpGeneric, Describe, DescribeConnects, DescribeFirst, DescribeSecond, others,
             Onvif, MulticastHeard, MulticastForeign, MulticastSilent, Unicast, AnonymousInformed,
             AnonymousInVain, WsseInformed, WsseInVain, Informed, rtspVars, Ends, Probe
    <2> QED
      BY <2>1 DEF IInv, Where
  <1> QED
    BY <1>1, <1>2, <1>3, <1>4, <1>5, <1>6 DEF Next, Finished

LEMMA InitWhole == Init => Whole
  <1> SUFFICES ASSUME Init PROVE Whole
    OBVIOUS
  <1>1. stage = "tcp" /\ timeout \in Timeout /\ ~lost /\ ev = NoEvidence
        /\ sdp = NoSdp /\ info = NoInfo /\ xaddrs = <<>> /\ ~stranger
    BY DEF Init
  <1> QED
    BY <1>1 DEF Whole, FirstWhole, DescribeWhole, OnvifWhole, Unheard, Undecided, SameAnswer,
                UnicastExactly, Sound

LEMMA WholeStep == ASSUME IInv, Typed, Whole, [Next]_vars PROVE Whole'
  <1>1. timeout \in Nat
    BY OptionsAssumption DEF Whole
  <1>2. timeout' = timeout
    BY DEF Next, Finished, vars, TcpProbed, FirstOver, FallbackOver, Deadline, Options,
           OptionsConnects, OptionsAnswered, RtspFails, Http, HttpVendors, HttpGeneric, Describe,
           DescribeConnects, DescribeFirst, DescribeSecond, Onvif, MulticastHeard,
           MulticastForeign, MulticastSilent, Unicast, AnonymousInformed, AnonymousInVain,
           WsseInformed, WsseInVain, Informed, others, rtspVars, fixed
  <1>3. FirstWhole' /\ DescribeWhole' /\ OnvifWhole' /\ Unheard' /\ Undecided'
    BY <1>1, FirstWholeStep, DescribeWholeStep, OnvifWholeStep, UnheardStep, UndecidedStep DEF Whole
  <1> QED
    BY <1>2, <1>3, SameAnswerStep, UnicastExactlyStep DEF Whole

\* While nothing is lost, every probe has found what the device says: the
\* invariant behind the two theorems that follow.
THEOREM WholeHolds == Spec => []Whole
  <1>1. IInv /\ Typed /\ Whole /\ [Next]_vars => Whole'
    BY WholeStep
  <1>2. IInv /\ Typed /\ [Next]_vars => Typed'
    BY TypedStep
  <1> QED
    BY <1>1, <1>2, InitTyped, InitWhole, Invariant, PTL DEF Spec

\* If nothing is lost, the answer is a function of the device, the credentials
\* and the timeout, in whatever order the probes come to their ends.
THEOREM SameAnswerHolds == Spec => []SameAnswer
  <1>1. Whole => SameAnswer
    BY DEF Whole
  <1> QED
    BY <1>1, WholeHolds, PTL

\* The unicast fallback finds the device it is for, whatever its ports and its
\* description, when the wait for multicast ends before the timeout.
THEOREM UnicastOnlyHolds == Spec => []UnicastOnly
  <1>1. Whole => UnicastOnly
    BY DEF Whole, UnicastExactly, UnicastOnly
  <1> QED
    BY <1>1, WholeHolds, PTL

\* And it never does otherwise: with a timeout below 2.0 s, the default of 1.5 s
\* included, wait_for at engine.py:126 ends the ONVIF probe in its wait for
\* multicast, although README.md:164-172 has unicast follow for such a device.
THEOREM UnicastCutShort ==
    Spec => [](Sound /\ UnicastDevice /\ timeout < MulticastTimeout /\ ~stranger
                  => result = Unknown)
  <1>1. Whole => (Sound /\ UnicastDevice /\ timeout < MulticastTimeout /\ ~stranger
                     => result = Unknown)
    <2> SUFFICES ASSUME Whole, Sound, UnicastDevice, timeout < MulticastTimeout, ~stranger
                 PROVE  result = Unknown
      OBVIOUS
    <2>1. timeout \in Nat /\ ~(timeout > MulticastTimeout)
      BY OptionsAssumption DEF Whole, MulticastTimeout
    <2> QED
      BY <2>1 DEF Whole, UnicastExactly
  <1> QED
    BY <1>1, WholeHolds, PTL

=============================================================================
