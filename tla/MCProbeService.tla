--------------------------- MODULE MCProbeService ---------------------------
(* ProbeService for TLC. *)
EXTENDS ProbeService, TLC

\* Either vendor, sure or not, one without an adapter, and nothing.
SomeResults ==
    {[vendor |-> v, confidence |-> c] : v \in {"Dahua", "Hikvision"}, c \in {97, 60, 45}}
        \cup {[vendor |-> "Axis", confidence |-> 96], [vendor |-> None, confidence |-> 0]}

\* A page that says nothing, an answer with an identity, the firmware alone,
\* and a page with labels.
SomeDeviceTexts ==
    {[keys |-> k, labels |-> {}, wellFormed |-> TRUE] : k \in {{}, {"model", "serial"}, {"firmware"}}}
        \cup {[keys |-> {}, labels |-> {"serial"}, wellFormed |-> FALSE]}

Iface(ip, mask, gateway) == [ip |-> ip, mask |-> mask, gateway |-> gateway, mac |-> TRUE]
Text(root, list) == [root |-> root, enabled |-> TRUE, namespaced |-> TRUE, list |-> list]

Ifaces ==
    {Iface("target", "24", "inside"), Iface("near", "24", None), Iface("far", "24", "outside"),
     Iface("near", "bad", "inside"), Iface(None, None, None)}

\* Lists of up to two interfaces, a list and a bond without a namespace, a bond,
\* a bond that is off, and no network answer at all.
SomeNetworkTexts ==
    {Text("list", <<i>>) : i \in Ifaces}
        \cup {Text("list", <<i, j>>) : i, j \in Ifaces}
        \cup {Text("bond", <<Iface("target", "24", None)>>),
              [Text("bond", <<Iface("target", "24", None)>>) EXCEPT !.enabled = FALSE],
              [Text("list", <<Iface("target", "24", "inside")>>) EXCEPT !.namespaced = FALSE],
              [Text("bond", <<Iface("target", "24", "inside")>>) EXCEPT !.namespaced = FALSE],
              Text("malformed", <<Iface(None, None, None)>>)}
=============================================================================
