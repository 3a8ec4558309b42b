-------------------------- MODULE MCProtocolProbes --------------------------
EXTENDS ProtocolProbes, TLC

\* A device says something by RTSP, by HTTP and by ONVIF: any of the first with
\* any of the second and any of the third.
RtspSide == {
    [rtsp |-> FALSE, server |-> {}, demand |-> "none", sdp |-> <<>>],
    [rtsp |-> TRUE, server |-> {}, demand |-> "digest",
     sdp |-> <<Attr("packetization:dh"), MediaLine("video"), Attr("control")>>],
    [rtsp |-> TRUE, server |-> {}, demand |-> "none",
     sdp |-> <<[key |-> "s", about |-> "any"], Attr("rtppayload:dh")>>],
    [rtsp |-> TRUE, server |-> {}, demand |-> "none",
     sdp |-> <<MediaLine("short"), Attr("dimensions"), MediaLine("audio"), Attr("dimensions")>>],
    [rtsp |-> TRUE, server |-> {"hikvision"}, demand |-> "digest",
     sdp |-> <<MediaLine("video"), Attr("rtppayload:dh"), Attr("mediainfo")>>],
    [rtsp |-> TRUE, server |-> {"dahua", "hikvision"}, demand |-> "basic",
     sdp |-> <<MediaLine("video")>>],
    [rtsp |-> TRUE, server |-> {"live555"}, demand |-> "none",
     sdp |-> <<Attr("mediainfo"), MediaLine("video")>>]}

Port80 == [answers |-> {}, page |-> "none", realm |-> {}, server |-> {}, onvif |-> TRUE]
Port8888 == [Port80 EXCEPT !.onvif = FALSE]

\* The last but one answers 401 to everything.
HttpSide == {
    <<>>,
    <<Port80>>,
    <<[Port80 EXCEPT !.answers = {3, 4}]>>,
    <<[Port80 EXCEPT !.answers = {6}], [Port8888 EXCEPT !.answers = {5}]>>,
    <<[Port80 EXCEPT !.page = "open", !.server = {"axis"}],
      [Port8888 EXCEPT !.page = "challenge", !.realm = {"xmeye"}]>>,
    <<[Port80 EXCEPT !.answers = DOMAIN Endpoints, !.page = "challenge"]>>,
    <<[Port80 EXCEPT !.page = "forbidden", !.server = {"dahua"}]>>}

NoOnvif == [multicast |-> "silent", services |-> {}, talks |-> {}, info |-> "none",
            maker |-> {}, model |-> {}]
OnvifSide == {
    NoOnvif,
    [NoOnvif EXCEPT !.services = {"http", "https"}, !.talks = {"http", "https"},
                    !.info = "open", !.maker = {"uniview"}],
    [NoOnvif EXCEPT !.services = {"https"}, !.talks = {"https"}, !.info = "protected",
                    !.maker = {"xiongmai"}],
    [NoOnvif EXCEPT !.multicast = "xaddr", !.talks = {"advertised"}, !.info = "open",
                    !.model = {"^ipc", "xm"}],
    [NoOnvif EXCEPT !.multicast = "xaddr", !.talks = {"http"}, !.services = {"http"},
                    !.info = "open", !.maker = {"axis"}],
    [NoOnvif EXCEPT !.multicast = "bare", !.talks = {"http"}, !.services = {"http"},
                    !.info = "protected", !.model = {"ds-"}]}

Devices == {r @@ [http |-> h] @@ o : r \in RtspSide, h \in HttpSide, o \in OnvifSide}

=============================================================================
