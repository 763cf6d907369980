------------------------------- MODULE LinkInfo -------------------------------
(***************************************************************************)
(* IFLA_LINKINFO: the one attribute list of a link message whose members   *)
(* depend on each other.  The bytes of IFLA_INFO_DATA mean something only  *)
(* under the IFLA_INFO_KIND in front of them, those of IFLA_INFO_PORT_DATA *)
(* only under an IFLA_INFO_PORT_KIND, so VecLinkInfo::parse carries both   *)
(* along in local variables.  Emitting writes the members as they come and *)
(* looks at none of this.                                                  *)
(*                                                                         *)
(* On the wire a member is [tag, is]: the kind's name for a kind, and for  *)
(* data the driver in whose layout the bytes are ("broken" if in none).    *)
(* As a Rust value it is [tag, is, raw]: the enum variant for a kind, the  *)
(* variant of the data, and in raw the layout of bytes kept undecoded.     *)
(***************************************************************************)
EXTENDS Integers, Sequences, SequencesExt

CONSTANTS
  Names,       \* link kinds that occur, as strings
  PortNames,   \* port kinds that occur
  MaxInfos     \* most members of a list

(* impl Display for InfoKind.                                              *)
KindName ==
  [Dummy |-> "dummy", Ifb |-> "ifb", Bridge |-> "bridge", Tun |-> "tun",
   Nlmon |-> "nlmon", Vlan |-> "vlan", Veth |-> "veth", Vxlan |-> "vxlan",
   Bond |-> "bond", IpVlan |-> "ipvlan", IpVtap |-> "ipvtap",
   MacVlan |-> "macvlan", MacVtap |-> "macvtap", GreTap |-> "gretap",
   GreTap6 |-> "ip6gretap", IpTun |-> "ipip", SitTun |-> "sit", GreTun |-> "gre",
   GreTun6 |-> "ip6gre", Vti |-> "vti", Vrf |-> "vrf", Gtp |-> "gtp",
   Ipoib |-> "ipoib", Wireguard |-> "wireguard", Xfrm |-> "xfrm",
   MacSec |-> "macsec", Hsr |-> "hsr"]

(* The match in InfoKind::parse.                                           *)
KindOfName ==
  [dummy |-> "Dummy", ifb |-> "Ifb", bridge |-> "Bridge", tun |-> "Tun",
   nlmon |-> "Nlmon", vlan |-> "Vlan", veth |-> "Veth", vxlan |-> "Vxlan",
   bond |-> "Bond", ipvlan |-> "IpVlan", ipvtap |-> "IpVtap",
   macvlan |-> "MacVlan", macvtap |-> "MacVtap", gretap |-> "GreTap",
   ip6gretap |-> "GreTap6", ipip |-> "IpTun", sit |-> "SitTun", gre |-> "GreTun",
   ip6gre |-> "GreTun6", vti |-> "Vti", vrf |-> "Vrf", gtp |-> "Gtp",
   ipoib |-> "Ipoib", wireguard |-> "Wireguard", macsec |-> "MacSec",
   xfrm |-> "Xfrm", hsr |-> "Hsr"]

(* Other(String) is represented by the string.                             *)
ParseKind(name) == IF name \in DOMAIN KindOfName THEN KindOfName[name] ELSE name

(* Faulty: one name for both gre tunnels (Stable).                         *)
EmitKindGre(kind) ==
  CASE kind = "GreTun6" -> KindName["GreTun"]
    [] kind \in DOMAIN KindName \ {"GreTun6"} -> KindName[kind]
    [] OTHER -> kind

EmitKind(kind) == IF kind \in DOMAIN KindName THEN KindName[kind] ELSE kind

(* The match in InfoData::parse_with_param: the InfoData variant a kind's  *)
(* data is decoded into.  Dummy, Ifb, Nlmon, IpTun, Wireguard and Other    *)
(* fall through to InfoData::Other.                                        *)
DataVariant(kind) ==
  IF kind \in {"Bridge", "Vlan", "Tun", "Veth", "Vxlan", "Bond", "IpVlan", "IpVtap",
               "MacVlan", "MacVtap", "GreTap", "GreTap6", "SitTun", "GreTun",
               "GreTun6", "Vti", "Vrf", "Gtp", "Ipoib", "Xfrm", "MacSec", "Hsr"}
  THEN kind
  ELSE "Other"

PortKindName == [Bond |-> "bond", Bridge |-> "bridge", Vrf |-> "vrf"]

PortKindOfName == [bond |-> "Bond", bridge |-> "Bridge", vrf |-> "Vrf"]

ParsePortKind(name) ==
  IF name \in DOMAIN PortKindOfName THEN PortKindOfName[name] ELSE name

EmitPortKind(kind) ==
  IF kind \in DOMAIN PortKindName THEN PortKindName[kind] ELSE kind

PortVariant(kind) ==
  CASE kind = "Bond" -> "BondPort"
    [] kind = "Bridge" -> "BridgePort"
    [] kind = "Vrf" -> "VrfPort"
    [] OTHER -> "Other"
-----------------------------------------------------------------------------
VARIABLES
  wire,                  \* the members on the wire
  idx,                   \* the NlasIterator: next member to read
  link_info_kind,        \* Option<InfoKind>, NoKind for None
  link_info_port_kind,   \* Option<InfoPortKind>
  nlas,                  \* the Vec<LinkInfo>
  built,                 \* the list a caller started from, if any
  seen,                  \* what the first decoding returned, if it did
  status                 \* "parsing", "value" or "err"

vars == <<wire, idx, link_info_kind, link_info_port_kind, nlas, built, seen, status>>

NoKind == "None"

Layouts == {DataVariant(ParseKind(n)) : n \in Names} \cup {"broken"}
PortLayouts == {PortVariant(ParsePortKind(n)) : n \in PortNames} \cup {"broken"}

Item(tag, is) == [tag |-> tag, is |-> is]
Value(tag, is, raw) == [tag |-> tag, is |-> is, raw |-> raw]

(* No list.                                                                *)
None == <<Value("None", "", "")>>

WireItems ==
  {Item("Kind", n) : n \in Names} \cup {Item("Data", l) : l \in Layouts \ {"Other"}}
    \cup {Item("PortKind", n) : n \in PortNames}
    \cup {Item("PortData", l) : l \in PortLayouts \ {"Other"}}
    \cup {Item("Xstats", "broken"), Item("Other", "broken"), Item("Malformed", "")}

Values ==
  {Value("Kind", ParseKind(n), "") : n \in Names}
    \cup {Value("Data", l, "") : l \in Layouts \ {"Other", "broken"}}
    \cup {Value("Data", "Other", "broken")}
    \cup {Value("PortKind", ParsePortKind(n), "") : n \in PortNames}
    \cup {Value("PortData", l, "") : l \in PortLayouts \ {"Other", "broken"}}
    \cup {Value("PortData", "Other", "broken")}
    \cup {Value("Xstats", "Other", "broken"), Value("Other", "Other", "broken")}

Lists(S) == UNION {[1 .. n -> S] : n \in 0 .. MaxInfos}

Init ==
  /\ \/ wire \in Lists(WireItems) /\ nlas = <<>> /\ built = None /\ status = "parsing"
     \/ nlas \in Lists(Values) /\ built = nlas /\ wire = <<>> /\ status = "value"
  /\ idx = 1
  /\ link_info_kind = NoKind
  /\ link_info_port_kind = NoKind
  /\ seen = None

(* The iterator yields a member with the given tag.                        *)
Reads(tag) ==
  /\ status = "parsing"
  /\ idx <= Len(wire)
  /\ wire[idx].tag = tag
  /\ idx' = idx + 1
  /\ UNCHANGED <<wire, built, seen>>

Fail ==
  /\ status' = "err"
  /\ UNCHANGED <<link_info_kind, link_info_port_kind, nlas>>

Pushed(value) == nlas' = Append(nlas, value) /\ UNCHANGED status

(* What decoding bytes of some layout into a variant can return: the bytes *)
(* themselves for Other; for the others, attributes if the layout is       *)
(* theirs, and otherwise an error or, when the foreign bytes happen to     *)
(* parse, attributes nobody meant.                                         *)
Decodings(tag, variant, layout) ==
  IF variant = "Other" THEN {Value(tag, "Other", layout)}
  ELSE IF layout = "broken" THEN {}
  ELSE {Value(tag, variant, "")}

DecodeMayFail(variant, layout) == variant # "Other" /\ layout # variant

(* Faulty: remembers the name instead of the parsed kind (TypeOK).         *)
ReadKindName ==
  /\ Reads("Kind")
  /\ link_info_kind' = wire[idx].is
  /\ Pushed(Value("Kind", ParseKind(wire[idx].is), ""))
  /\ UNCHANGED link_info_port_kind

ReadKind ==
  /\ Reads("Kind")
  /\ link_info_kind' = ParseKind(wire[idx].is)
  /\ Pushed(Value("Kind", ParseKind(wire[idx].is), ""))
  /\ UNCHANGED link_info_port_kind

(* Faulty: uses the kind up, as ReadPortData does (RoundTrip).             *)
ReadDataOnce ==
  /\ Reads("Data")
  /\ link_info_kind # NoKind
  /\ \E v \in Decodings("Data", DataVariant(link_info_kind), wire[idx].is) : Pushed(v)
  /\ link_info_kind' = NoKind
  /\ UNCHANGED link_info_port_kind

(* The kind stays for data further on.                                     *)
ReadData ==
  /\ Reads("Data")
  /\ link_info_kind # NoKind
  /\ \E v \in Decodings("Data", DataVariant(link_info_kind), wire[idx].is) : Pushed(v)
  /\ UNCHANGED <<link_info_kind, link_info_port_kind>>

RefuseData ==
  /\ Reads("Data")
  /\ \/ link_info_kind = NoKind
     \/ DecodeMayFail(DataVariant(link_info_kind), wire[idx].is)
  /\ Fail

ReadXstats ==
  /\ Reads("Xstats")
  /\ link_info_kind # NoKind
  /\ Pushed(Value("Xstats", "Other", wire[idx].is))
  /\ UNCHANGED <<link_info_kind, link_info_port_kind>>

RefuseXstats == Reads("Xstats") /\ link_info_kind = NoKind /\ Fail

ReadPortKind ==
  /\ Reads("PortKind")
  /\ link_info_port_kind' = ParsePortKind(wire[idx].is)
  /\ Pushed(Value("PortKind", ParsePortKind(wire[idx].is), ""))
  /\ UNCHANGED link_info_kind

(* Faulty: keeps the port kind, as ReadData does (UnderKind).              *)
ReadPortDataAgain ==
  /\ Reads("PortData")
  /\ link_info_port_kind # NoKind
  /\ \E v \in Decodings("PortData", PortVariant(link_info_port_kind), wire[idx].is) :
       Pushed(v)
  /\ UNCHANGED <<link_info_kind, link_info_port_kind>>

(* The port kind is used up.                                               *)
ReadPortData ==
  /\ Reads("PortData")
  /\ link_info_port_kind # NoKind
  /\ \E v \in Decodings("PortData", PortVariant(link_info_port_kind), wire[idx].is) :
       Pushed(v)
  /\ link_info_port_kind' = NoKind
  /\ UNCHANGED link_info_kind

RefusePortData ==
  /\ Reads("PortData")
  /\ \/ link_info_port_kind = NoKind
     \/ DecodeMayFail(PortVariant(link_info_port_kind), wire[idx].is)
  /\ Fail

ReadOther ==
  /\ Reads("Other")
  /\ Pushed(Value("Other", "Other", wire[idx].is))
  /\ UNCHANGED <<link_info_kind, link_info_port_kind>>

RefuseMalformed == Reads("Malformed") /\ Fail

Return ==
  /\ status = "parsing"
  /\ idx > Len(wire)
  /\ status' = "value"
  /\ seen' = IF seen = None THEN nlas ELSE seen
  /\ UNCHANGED <<wire, idx, link_info_kind, link_info_port_kind, nlas, built>>

(* Faulty: leaves undecoded bytes out (Stable).                            *)
EmittedDecoded(value) ==
  IF value.tag = "Kind" THEN Item("Kind", EmitKind(value.is))
  ELSE IF value.tag = "PortKind" THEN Item("PortKind", EmitPortKind(value.is))
  ELSE Item(value.tag, IF value.is = "Other" THEN "" ELSE value.is)

(* One member as emit_value writes it.                                     *)
Emitted(value) ==
  IF value.tag = "Kind" THEN Item("Kind", EmitKind(value.is))
  ELSE IF value.tag = "PortKind" THEN Item("PortKind", EmitPortKind(value.is))
  ELSE Item(value.tag, IF value.is = "Other" THEN value.raw ELSE value.is)

(* The list is emitted, and decoding starts over on the emitted bytes.     *)
Emit ==
  /\ status = "value"
  /\ wire' = [i \in 1 .. Len(nlas) |-> Emitted(nlas[i])]
  /\ idx' = 1
  /\ link_info_kind' = NoKind
  /\ link_info_port_kind' = NoKind
  /\ nlas' = <<>>
  /\ status' = "parsing"
  /\ UNCHANGED <<built, seen>>

Next ==
  \/ ReadKind
  \/ ReadData \/ RefuseData
  \/ ReadXstats \/ RefuseXstats
  \/ ReadPortKind
  \/ ReadPortData \/ RefusePortData
  \/ ReadOther
  \/ RefuseMalformed
  \/ Return
  \/ Emit

Spec == Init /\ [][Next]_vars
-----------------------------------------------------------------------------
Kinds == {ParseKind(n) : n \in Names} \cup {NoKind}
PortKinds == {ParsePortKind(n) : n \in PortNames} \cup {NoKind}

Tags == {"Kind", "Data", "Xstats", "PortKind", "PortData", "Other", "Malformed"}
Words == Names \cup PortNames \cup Kinds \cup PortKinds \cup Layouts \cup PortLayouts
           \cup {"Other", ""}

IsList(list) == Range(list) \subseteq [tag : Tags, is : Words, raw : Words]

(* The iterator stays within the list, and what the loop remembers are     *)
(* parsed kinds, never names.                                              *)
TypeOK ==
  /\ Range(wire) \subseteq [tag : Tags, is : Words]
  /\ idx \in 1 .. Len(wire) + 1
  /\ link_info_kind \in Kinds
  /\ link_info_port_kind \in PortKinds
  /\ IsList(nlas)
  /\ built = None \/ IsList(built)
  /\ seen = None \/ IsList(seen)
  /\ status \in {"parsing", "value", "err"}

(* Members i of a list with the given tag that no member tagged as one of  *)
(* spent separates from member n.                                          *)
LastBefore(list, n, tag, spent) ==
  {i \in 1 .. n - 1 :
     /\ list[i].tag = tag
     /\ \A j \in i + 1 .. n - 1 : list[j].tag \notin {tag} \cup spent}

(* Data has been decoded by the parser of the nearest kind in front of it, *)
(* and port data by that of a port kind of its own.                        *)
Paired(list) ==
  \A n \in 1 .. Len(list) :
    /\ list[n].tag = "Data" =>
         \E i \in LastBefore(list, n, "Kind", {}) :
           list[n].is = DataVariant(list[i].is)
    /\ list[n].tag = "Xstats" => LastBefore(list, n, "Kind", {}) # {}
    /\ list[n].tag = "PortData" =>
         \E i \in LastBefore(list, n, "PortKind", {"PortData"}) :
           list[n].is = PortVariant(list[i].is)

(* In any list that decoding returns, whatever order the members came in,  *)
(* data carries the variant of the kind it stands under.                   *)
UnderKind == seen # None => Paired(seen)

(* A caller's list whose data matches its kinds is never refused, and      *)
(* comes back as it was: order, kinds and data.                            *)
RoundTrip ==
  (built # None /\ Paired(built)) =>
    /\ status # "err"
    /\ status = "value" => nlas = built

(* What has been decoded once is emitted to bytes that decode to the same. *)
Stable ==
  seen # None =>
    /\ status # "err"
    /\ status = "value" => nlas = seen
=============================================================================
