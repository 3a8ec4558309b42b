----------------------------- MODULE Extractors -----------------------------
(***************************************************************************)
(* What the adapters read out of the answers of a device:                  *)
(* infrastructure/device, infrastructure/network and extractor/factory.py. *)
(*                                                                         *)
(* An answer is a text.  Of a text only what the extractors can tell apart *)
(* is kept: which fields it has, and how an address, a mask and a gateway  *)
(* relate to the address that is probed.  None stands for a field that is  *)
(* missing or empty, and for an answer that is missing or empty.           *)
(***************************************************************************)
EXTENDS Integers, Sequences, SequencesExt

CONSTANT None

Vendor == {"dahua", "hikvision"}

-----------------------------------------------------------------------------
(* Vendor names and factories                                              *)

\* normalize_vendor over VENDOR_ALIASES.  Of the brands that are sold under
\* another name only the lower-case spelling is an alias; any other name is
\* its own lower case.
Normalize(name) ==
    CASE name \in {"Dahua", "dahua", "imou"} -> "dahua"
      [] name \in {"Hikvision", "hikvision", "hiwatch", "ezviz"} -> "hikvision"
      [] name \in {None, " "} -> None
      [] OTHER -> name

\* ExtractorFactory.create: STRICT raises where OPTIONAL takes the fallback.
Extractor(name, policy, registered) ==
    LET v == Normalize(name)
    IN  IF v # None /\ v \in registered THEN v
        ELSE IF policy = "strict" THEN "raises" ELSE "fallback"

-----------------------------------------------------------------------------
(* Device information                                                      *)

\* A device answer: the fields found by a key or an XML tag, and those found
\* as labels in a web page.
Field == {"model", "serial", "mac", "firmware"}
DeviceText == [keys : SUBSET (Field \cup {"subSerial"}), labels : SUBSET Field,
               wellFormed : BOOLEAN]

\* DahuaDeviceExtractor.extract: labels count only if there is no key at all;
\* a page has no MAC.  The result is the set of fields, {} for None.
DahuaDevice(t) ==
    IF t = None THEN {}
    ELSE IF t.keys \cap Field # {} THEN t.keys \cap Field
    ELSE t.labels \ {"mac"}

\* HikvisionDeviceExtractor: subSerialNumber stands in for serialNumber, and
\* the firmware alone is no result.
NormalizedSerial(keys) == IF {"serial", "subSerial"} \cap keys # {} THEN {"serial"} ELSE {}
HikvisionDevice(t) ==
    IF t = None \/ ~t.wellFormed THEN {}
    ELSE LET found == (t.keys \cap (Field \ {"serial"})) \cup NormalizedSerial(t.keys)
         IN  IF found \subseteq {"firmware"} THEN {} ELSE found

-----------------------------------------------------------------------------
(* Network information                                                     *)

\* An entry of the list of interfaces.  An ip is the one that is probed,
\* another one in its subnet, one elsewhere, or no IPv4 address; a mask is
\* /24, 0.0.0.0 or no mask.
Interface == [ip      : {None, "target", "near", "far", "bad"},
              mask    : {None, "24", "0", "bad"},
              gateway : {None, "0.0.0.0", "inside", "outside", "bad"},
              mac     : BOOLEAN]

\* IPv4Network(f"{ip}/{mask}", strict=False) raises no ValueError.
IsNetwork(i) == i.ip \in {"target", "near", "far"} /\ i.mask \in {"24", "0"}
HasTarget(i) == IsNetwork(i) /\ (i.mask = "0" \/ i.ip \in {"target", "near"})
HasGateway(i) == i.mask = "0" \/ i.gateway = "inside"
Empty(i) == i = [ip |-> None, mask |-> None, gateway |-> None, mac |-> FALSE]

\* NetworkInfo, or the exception of the extractor.
Info(i, cidr, inSubnet, subnet) ==
    [kind |-> "info", of |-> i, cidr |-> cidr, inSubnet |-> inSubnet, subnet |-> subnet]
NoInfo == [kind |-> "none"]
Raises == [kind |-> "raises"]

\* The body of the try: the network, and the gateway in it.  A ValueError of
\* either resets all three values.
ReadsNetwork(i) == IsNetwork(i) /\ i.gateway # "bad"
GatewayIn(i) == IF i.gateway = None THEN None ELSE HasGateway(i)

\* _extract_bond: the three values are None before the try.
BondInfo(i) ==
    IF Empty(i) THEN NoInfo
    ELSE IF ReadsNetwork(i) THEN Info(i, i.mask, GatewayIn(i), i.ip)
    ELSE Info(i, None, None, None)

\* HikvisionNetworkExtractor.extract: subnet is bound only in the branch with
\* a gateway and in the handler of ValueError; else its use raises
\* UnboundLocalError.
SubnetBound(i) == i.ip # None /\ i.mask # None /\ (IsNetwork(i) => i.gateway # None)
InterfaceInfo(i) == IF Empty(i) \/ SubnetBound(i) THEN BondInfo(i) ELSE Raises

First(s, Test(_)) == s[SelectInSeq(s, Test)]
Some(s, Test(_)) == \E k \in DOMAIN s : Test(s[k])

\* _select_interface, for an extractor that knows the target or does not.
SelectInterface(s, known) ==
    LET IsTarget(i)  == i.ip = "target"
        Routes(i)    == i.gateway \notin {None, "0.0.0.0"}
    IN  IF known
        THEN IF Some(s, IsTarget) THEN First(s, IsTarget)
             ELSE IF Some(s, HasTarget) THEN First(s, HasTarget)
             ELSE IF Len(s) > 1 THEN None ELSE s[1]
        ELSE IF Some(s, Routes) THEN First(s, Routes) ELSE s[1]

\* A Hikvision answer: malformed, a bond or a list of interfaces.  To look for
\* the interfaces in an answer without a default namespace, NS = {}, raises
\* SyntaxError; _extract_bond looks there without the prefix.
HikvisionNetwork(t, known) ==
    IF t = None \/ t.root = "malformed" THEN NoInfo
    ELSE IF t.root = "bond" THEN (IF t.enabled THEN BondInfo(t.list[1]) ELSE NoInfo)
    ELSE IF ~t.namespaced THEN Raises
    ELSE IF t.list = <<>> THEN NoInfo
    ELSE LET i == SelectInterface(t.list, known)
         IN  IF i = None THEN NoInfo ELSE InterfaceInfo(i)

\* DahuaNetworkExtractor.extract with network/utils.py.  A mask that is none
\* and an address that is none reach subnet_address_cidr, which raises;
\* gateway_in_subnet takes a prefix of length 0 for a missing one.
MaskToCidr(mask) == IF mask \in {"24", "0"} THEN mask ELSE None
GatewayInSubnet(i, cidr) ==
    IF cidr \in {None, "0"} \/ i.gateway \in {None, "bad"} THEN None ELSE HasGateway(i)
DahuaNetwork(t) ==
    IF t = None THEN NoInfo
    ELSE LET i == t.list[1]
             cidr == MaskToCidr(i.mask)
         IN  IF i.ip = None \/ i.mask = None THEN NoInfo
             ELSE IF ~IsNetwork(i) THEN Raises
             ELSE Info(i, cidr, GatewayInSubnet(i, cidr), i.ip)

\* select_interface.py, which nothing calls: it never refuses to choose.
SelectAny(s) ==
    LET IsTarget(i) == i.ip = "target"
        Routes(i)   == i.gateway \notin {None, "0.0.0.0"}
    IN  IF s = <<>> THEN None
        ELSE IF Some(s, IsTarget) THEN First(s, IsTarget)
        ELSE IF Some(s, HasTarget) THEN First(s, HasTarget)
        ELSE IF Some(s, Routes) THEN First(s, Routes) ELSE s[1]
=============================================================================
