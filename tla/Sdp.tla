-------------------------------- MODULE Sdp ---------------------------------
(***************************************************************************)
(* infrastructure/sdp/parse_sdp.py: what a session description says of the *)
(* vendor of a device.                                                     *)
(*                                                                         *)
(* A description is a sequence of lines, a line a record of its key and of *)
(* what the parser tells apart in its value.                               *)
(***************************************************************************)
EXTENDS Integers, Sequences

\* What the value of an "a=" line is about.
AboutA == {"packetization:dh",   \* packetization-supported:DH
           "rtppayload:dh",      \* rtppayload-supported:DH
           "mediainfo",          \* any value with MEDIAINFO in it
           "tool", "control", "rtpmap",
           "dimensions",         \* fmtp: with x-dimensions=<int>,<int>
           "fmtp"}               \* any other fmtp:
AboutM == {"video", "audio", "short"}   \* "short" has fewer than four parts

Line == [key : {"a"}, about : AboutA] \cup [key : {"m"}, about : AboutM]
        \cup [key : {"s", "o", "other"}, about : {"any"}]

Attr(x) == [key |-> "a", about |-> x]
MediaLine(x) == [key |-> "m", about |-> x]

Outside == [s |-> FALSE, o |-> FALSE, tool |-> FALSE, hints |-> {}]
NewMedia(type) == [type |-> type, control |-> FALSE, codec |-> FALSE,
                   resolution |-> FALSE, hints |-> {}]

SessionHints(line) ==
    CASE line.about \in {"packetization:dh", "rtppayload:dh"} -> {"dahua"}
      [] line.about = "mediainfo" -> {"hikvision"}
      [] OTHER -> {}

MediaHints(line) ==
    CASE line.about = "dimensions" -> {"dahua"}
      [] line.about = "mediainfo" -> {"hikvision"}
      [] OTHER -> {}

\* A line before the first media section.
InSession(parsed, line) ==
    CASE line.key = "s" -> [parsed EXCEPT !.session.s = TRUE]
      [] line.key = "o" -> [parsed EXCEPT !.session.o = TRUE]
      [] line.key = "a" ->
            [parsed EXCEPT !.session.tool = @ \/ line.about = "tool",
                           !.session.hints = @ \cup SessionHints(line)]
      [] OTHER -> parsed

\* An attribute of the last media section.
InMedia(parsed, line) ==
    LET n == Len(parsed.media)
        section == [parsed.media[n] EXCEPT
                       !.control = @ \/ line.about = "control",
                       !.codec = @ \/ line.about = "rtpmap",
                       !.resolution = @ \/ line.about = "dimensions",
                       !.hints = @ \cup MediaHints(line)]
    IN  [parsed EXCEPT !.media[n] = section]

\* The loop's body: a well-formed "m=" opens a section at either level.
ParseLine(parsed, line) ==
    CASE line.key = "m" ->
            IF line.about = "short" THEN parsed
            ELSE [parsed EXCEPT !.media = Append(@, NewMedia(line.about))]
      [] line.key # "m" /\ parsed.media = <<>> -> InSession(parsed, line)
      [] line.key = "a" /\ parsed.media # <<>> -> InMedia(parsed, line)
      [] OTHER -> parsed

Nothing == [session |-> Outside, media |-> <<>>]

\* after[i] is what the first i lines make of it.
ParseSdp(lines) ==
    LET after[i \in 0..Len(lines)] ==
            IF i = 0 THEN Nothing ELSE ParseLine(after[i-1], lines[i])
    IN  after[Len(lines)]

\* aggregate_rtsp_vendor_markers, and extract_rtsp_vendor_markers as well.
Markers(parsed) ==
    parsed.session.hints \cup UNION {parsed.media[i].hints : i \in DOMAIN parsed.media}

----------------------------------------------------------------------------
\* The markers of a description, for a reader who sees all of it at once: those of
\* an attribute depend on whether a media section has begun before it.
GoodM(line) == line.key = "m" /\ line.about # "short"
InSection(lines, i) == \E k \in 1..(i-1) : GoodM(lines[k])
SdpSays(lines) ==
    {b \in {"dahua", "hikvision"} :
        \E i \in DOMAIN lines :
            /\ lines[i].key = "a"
            /\ \/ b = "hikvision" /\ lines[i].about = "mediainfo"
               \/ b = "dahua" /\ InSection(lines, i) /\ lines[i].about = "dimensions"
               \/ b = "dahua" /\ ~InSection(lines, i)
                   /\ lines[i].about \in {"packetization:dh", "rtppayload:dh"}}

=============================================================================
