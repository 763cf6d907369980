---------------------------- MODULE RouteTables ----------------------------
(***************************************************************************)
(* The attributes of address, neighbour, neighbour table, route, rule,     *)
(* next hop, netns id and multicast database messages, one table per       *)
(* attribute enum, in the form of LinkTables.                              *)
(***************************************************************************)
EXTENDS CodecTable

(* address/attribute.rs                                                    *)
AddressAttribute_kind ==
  [Address |-> 1, Local |-> 2, Label |-> 3, Broadcast |-> 4, Anycast |-> 5,
   CacheInfo |-> 6, Multicast |-> 7, Flags |-> 8]

AddressAttribute_emit_value ==
  [u32 |-> {"Flags"},
   ipv4 |-> {"Broadcast", "Address", "Local"},
   ipv6 |-> {"Anycast", "Multicast", "Address", "Local"},
   s16 |-> {"CacheInfo"},
   text |-> {"Label"}]

AddressAttribute_parse ==
  [u32 |-> [Flags |-> 8],
   ipv4 |-> [Broadcast |-> 4, Address |-> 1, Local |-> 2],
   ipv6 |-> [Anycast |-> 5, Multicast |-> 7, Address |-> 1, Local |-> 2],
   r16 |-> [CacheInfo |-> 6],
   text |-> [Label |-> 3]]

AddressAttribute == Codec(AddressAttribute_kind, AddressAttribute_emit_value, AddressAttribute_parse)

(* neighbour/attribute.rs                                                  *)
NeighbourAttribute_kind ==
  [Destination |-> 1, TunnelEndpoint |-> 1, LinkLocalAddress |-> 2, CacheInfo |-> 3,
   Probes |-> 4, Vlan |-> 5, Port |-> 6, Vni |-> 7, IfIndex |-> 8, Controller |-> 9,
   LinkNetNsId |-> 10, SourceVni |-> 11, Protocol |-> 12, NhId |-> 13,
   FdbExtAttrs |-> NLA_F_NESTED + 14]

NeighbourAttribute_emit_value ==
  [u8 |-> {"Protocol"},
   u16 |-> {"Vlan"},
   u32 |-> {"Probes", "LinkNetNsId", "Controller", "Vni", "IfIndex", "SourceVni", "NhId"},
   be16 |-> {"Port"},
   ipv4 |-> {"TunnelEndpoint", "Destination"},
   ipv6 |-> {"TunnelEndpoint", "Destination"},
   s16 |-> {"CacheInfo"},
   bytes |-> {"LinkLocalAddress", "TunnelEndpoint", "Destination"},
   nlas |-> {"FdbExtAttrs"}]

NeighbourAttribute_parse(family) ==
  LET tunnel == [ipv4 |-> [TunnelEndpoint |-> 1], ipv6 |-> [TunnelEndpoint |-> 1],
                 bytes |-> [TunnelEndpoint |-> 1]]
      ip == [f \in {AddressFormat(family)} |-> [Destination |-> 1]]
  IN Join(IF family = "bridge" THEN tunnel ELSE ip,
  [u8 |-> [Protocol |-> 12],
   u16 |-> [Vlan |-> 5],
   u32 |-> [Probes |-> 4, Vni |-> 7, IfIndex |-> 8, Controller |-> 9, LinkNetNsId |-> 10,
            SourceVni |-> 11, NhId |-> 13],
   be16 |-> [Port |-> 6],
   s16 |-> [CacheInfo |-> 3],
   bytes |-> [LinkLocalAddress |-> 2],
   nlas |-> [FdbExtAttrs |-> 14]])

NeighbourAttribute ==
  LET Families == {"inet", "inet6", "bridge", "other"}
      Foreign(family) ==
        IF family = "bridge" THEN {"ipv4", "ipv6", "bytes"} \X {"Destination"}
        ELSE ({"ipv4", "ipv6", "bytes"} \X {"TunnelEndpoint"})
             \cup (({"ipv4", "ipv6", "bytes"} \ {AddressFormat(family)}) \X {"Destination"})
  IN [kind |-> NeighbourAttribute_kind,
      emit |-> [family \in Families |-> Without(NeighbourAttribute_emit_value, Foreign(family))],
      parse |-> [family \in Families |-> NeighbourAttribute_parse(family)]]

(* neighbour/attribute.rs                                                  *)
FdbExtAttr == Codec(
  [ActivityNotify |-> 1, DontRefresh |-> 2],
  [u8 |-> {"ActivityNotify"},
   flag |-> {"DontRefresh"}],
  [u8 |-> [ActivityNotify |-> 1],
   flag |-> [DontRefresh |-> 2]])

(* neighbour_table/attribute.rs                                            *)
NeighbourTableAttribute == Codec(
  [Name |-> 1, Threshold1 |-> 2, Threshold2 |-> 3, Threshold3 |-> 4, Config |-> 5,
   Parms |-> 6, Stats |-> 7, GcInterval |-> 8],
  [u32 |-> {"Threshold1", "Threshold2", "Threshold3"},
   u64 |-> {"GcInterval"},
   s32 |-> {"Config"},
   s88 |-> {"Stats"},
   text |-> {"Name"},
   nlas |-> {"Parms"}],
  [u32 |-> [Threshold1 |-> 2, Threshold2 |-> 3, Threshold3 |-> 4],
   u64 |-> [GcInterval |-> 8],
   s32 |-> [Config |-> 5],
   s88 |-> [Stats |-> 7],
   text |-> [Name |-> 1],
   nlas |-> [Parms |-> 6]])

(* neighbour_table/param.rs                                                *)
NeighbourTableParameter_kind ==
  [Ifindex |-> 1, ReferenceCount |-> 2, ReachableTime |-> 3, BaseReachableTime |-> 4,
   RetransTime |-> 5, GcStaletime |-> 6, DelayProbeTime |-> 7, QueueLen |-> 8,
   AppProbes |-> 9, UcastProbes |-> 10, McastProbes |-> 11, AnycastDelay |-> 12,
   ProxyDelay |-> 13, ProxyQlen |-> 14, Locktime |-> 15, QueueLenbytes |-> 16,
   McastReprobes |-> 17, IntervalProbeTimeMs |-> 19]

NeighbourTableParameter_emit_value ==
  [u32 |-> {"Ifindex", "ReferenceCount", "QueueLen", "AppProbes", "UcastProbes", "McastProbes",
            "ProxyQlen", "QueueLenbytes", "McastReprobes"},
   u64 |-> {"ReachableTime", "BaseReachableTime", "RetransTime", "GcStaletime", "DelayProbeTime",
            "AnycastDelay", "ProxyDelay", "Locktime", "IntervalProbeTimeMs"}]

NeighbourTableParameter_parse ==
  [u32 |-> [Ifindex |-> 1, ReferenceCount |-> 2, QueueLen |-> 8, AppProbes |-> 9,
            UcastProbes |-> 10, McastProbes |-> 11, ProxyQlen |-> 14,
            QueueLenbytes |-> 16, McastReprobes |-> 17],
   u64 |-> [ReachableTime |-> 3, BaseReachableTime |-> 4, RetransTime |-> 5, GcStaletime |-> 6,
            DelayProbeTime |-> 7, AnycastDelay |-> 12, ProxyDelay |-> 13,
            Locktime |-> 15, IntervalProbeTimeMs |-> 19]]

NeighbourTableParameter == Codec(NeighbourTableParameter_kind, NeighbourTableParameter_emit_value, NeighbourTableParameter_parse)

(* route/attribute.rs                                                      *)
RouteAttribute_kind ==
  [Destination |-> 1, Source |-> 2, Iif |-> 3, Oif |-> 4, Gateway |-> 5, Priority |-> 6,
   PrefSource |-> 7, Metrics |-> 8, MultiPath |-> 9, Realm |-> 11, CacheInfo |-> 12,
   Table |-> 15, Mark |-> 16, MfcStats |-> 17, Via |-> 18, NewDestination |-> 19,
   Preference |-> 20, EncapType |-> 21, Encap |-> 22, Expires |-> 23,
   MulticastExpires |-> 23, Uid |-> 25, TtlPropagate |-> 26, Nhid |-> 30]

RouteAttribute_emit_value ==
  [u8 |-> {"TtlPropagate", "Preference"},
   u16 |-> {"EncapType"},
   u32 |-> {"Realm", "Uid", "Expires", "Iif", "Oif", "Priority", "Table", "Mark", "Nhid"},
   u64 |-> {"MulticastExpires"},
   be32 |-> {"Destination", "PrefSource", "Gateway", "Source"},
   ipv4 |-> {"Destination", "PrefSource", "Gateway", "Source"},
   ipv6 |-> {"Destination", "PrefSource", "Gateway", "Source"},
   s24 |-> {"MfcStats"},
   s32 |-> {"CacheInfo"},
   bytes |-> {"Destination", "PrefSource", "Gateway", "Source"},
   nlas |-> {"Encap", "Metrics"},
   via |-> {"Via"},
   list4 |-> {"NewDestination"},
   hops |-> {"MultiPath"}]

RouteAttribute_parse(context) ==
  LET address == [f \in {AddressFormat(context)} |->
                    [Destination |-> 1, Source |-> 2, Gateway |-> 5, PrefSource |-> 7]]
      expires == IF context = "multicast" THEN [u64 |-> [MulticastExpires |-> 23]]
                                          ELSE [u32 |-> [Expires |-> 23]]
  IN Join(Join(address, expires),
  [u8 |-> [Preference |-> 20, TtlPropagate |-> 26],
   u16 |-> [EncapType |-> 21],
   u32 |-> [Uid |-> 25, Iif |-> 3, Oif |-> 4, Priority |-> 6, Table |-> 15, Mark |-> 16],
   s24 |-> [MfcStats |-> 17],
   s32 |-> [CacheInfo |-> 12],
   nlas |-> [Encap |-> 22, Metrics |-> 8],
   via |-> [Via |-> 18],
   list4 |-> [NewDestination |-> 19],
   realm |-> [Realm |-> 11],
   hops |-> [MultiPath |-> 9]])

(* A route message is of one family and either a multicast route or not.   *)
RouteAttribute ==
  LET Contexts == {"inet", "inet6", "mpls", "multicast", "other"}
      Address == {"Destination", "Source", "Gateway", "PrefSource"}
      Foreign(context) ==
        (({"ipv4", "ipv6", "be32", "bytes"} \ {AddressFormat(context)}) \X Address)
        \cup (IF context = "multicast" THEN {<<"u32", "Expires">>}
                                      ELSE {<<"u64", "MulticastExpires">>})
  IN [kind |-> RouteAttribute_kind,
      emit |-> [context \in Contexts |-> Without(RouteAttribute_emit_value, Foreign(context))],
      parse |-> [context \in Contexts |-> RouteAttribute_parse(context)]]

(* route/metrics.rs                                                        *)
RouteMetric == Codec(
  [Lock |-> 1, Mtu |-> 2, Window |-> 3, Rtt |-> 4, RttVar |-> 5, SsThresh |-> 6,
   Cwnd |-> 7, Advmss |-> 8, Reordering |-> 9, Hoplimit |-> 10, InitCwnd |-> 11,
   Features |-> 12, RtoMin |-> 13, InitRwnd |-> 14, QuickAck |-> 15, CcAlgo |-> 16,
   FastopenNoCookie |-> 17],
  [u32 |-> {"Lock", "Mtu", "Window", "Rtt", "RttVar", "SsThresh", "Cwnd", "Advmss", "Reordering",
            "Hoplimit", "InitCwnd", "Features", "RtoMin", "InitRwnd", "QuickAck",
            "CcAlgo", "FastopenNoCookie"}],
  [u32 |-> [Lock |-> 1, Mtu |-> 2, Window |-> 3, Rtt |-> 4, RttVar |-> 5, SsThresh |-> 6,
            Cwnd |-> 7, Advmss |-> 8, Reordering |-> 9, Hoplimit |-> 10,
            InitCwnd |-> 11, Features |-> 12, RtoMin |-> 13, InitRwnd |-> 14,
            QuickAck |-> 15, CcAlgo |-> 16, FastopenNoCookie |-> 17]])

(* route/mpls.rs                                                           *)
RouteMplsIpTunnel == Codec(
  [Destination |-> 1, Ttl |-> 2],
  [u8 |-> {"Ttl"},
   list4 |-> {"Destination"}],
  [u8 |-> [Ttl |-> 2],
   list4 |-> [Destination |-> 1]])

(* route/seg6local.rs                                                      *)
Seg6LocalCounters == Codec(
  [Unspec |-> 0, Padding |-> 1, Packets |-> 2, Bytes |-> 3, Errors |-> 4],
  [u64 |-> {"Packets", "Bytes", "Errors"},
   flag |-> {"Unspec"},
   hole |-> {"Padding"}],
  [u64 |-> [Packets |-> 2, Bytes |-> 3, Errors |-> 4],
   flag |-> [Unspec |-> 0],
   hole |-> [Padding |-> 1]])

(* route/seg6local.rs                                                      *)
Seg6LocalFlavors == Codec(
  [Operation |-> 1, Lblen |-> 2, Nflen |-> 3],
  [u8 |-> {"Lblen", "Nflen"},
   u32 |-> {"Operation"}],
  [u8 |-> [Lblen |-> 2, Nflen |-> 3],
   u32 |-> [Operation |-> 1]])

(* route/seg6local.rs                                                      *)
RouteSeg6LocalIpTunnel == Codec(
  [Action |-> 1, Srh |-> 2, Table |-> 3, Nh4 |-> 4, Nh6 |-> 5, Iif |-> 6, Oif |-> 7,
   VrfTable |-> 9, Counters |-> 10 + NLA_F_NESTED, Flavors |-> 11 + NLA_F_NESTED],
  [u32 |-> {"Action", "Table", "Iif", "Oif", "VrfTable"},
   ipv4 |-> {"Nh4"},
   ipv6 |-> {"Nh6"},
   srh |-> {"Srh"},
   nlas |-> {"Counters", "Flavors"}],
  [u32 |-> [Action |-> 1, Table |-> 3, Iif |-> 6, Oif |-> 7, VrfTable |-> 9],
   ipv4 |-> [Nh4 |-> 4],
   ipv6 |-> [Nh6 |-> 5],
   srh |-> [Srh |-> 2],
   nlas |-> [Counters |-> 10, Flavors |-> 11]])

(* rule/attribute.rs                                                       *)
RuleAttribute_kind ==
  [Destination |-> 1, Source |-> 2, Iifname |-> 3, Goto |-> 4, Priority |-> 6,
   FwMark |-> 10, Realm |-> 11, TunId |-> 12, SuppressIfGroup |-> 13,
   SuppressPrefixLen |-> 14, Table |-> 15, FwMask |-> 16, Oifname |-> 17, L3MDev |-> 19,
   UidRange |-> 20, Protocol |-> 21, IpProtocol |-> 22, SourcePortRange |-> 23,
   DestinationPortRange |-> 24]

RuleAttribute_emit_value ==
  [u8 |-> {"L3MDev", "Protocol", "IpProtocol"},
   u32 |-> {"Priority", "FwMark", "FwMask", "TunId", "Goto", "SuppressIfGroup",
            "SuppressPrefixLen", "Table", "Realm"},
   ipv4 |-> {"Destination", "Source"},
   ipv6 |-> {"Destination", "Source"},
   s4 |-> {"SourcePortRange", "DestinationPortRange"},
   s8 |-> {"UidRange"},
   textOpen |-> {"Iifname", "Oifname"}]

RuleAttribute_parse ==
  [u8 |-> [L3MDev |-> 19, Protocol |-> 21, IpProtocol |-> 22],
   u32 |-> [Goto |-> 4, Priority |-> 6, FwMark |-> 10, TunId |-> 12, SuppressIfGroup |-> 13,
            SuppressPrefixLen |-> 14, Table |-> 15, FwMask |-> 16],
   ipv4 |-> [Destination |-> 1, Source |-> 2],
   ipv6 |-> [Destination |-> 1, Source |-> 2],
   x4 |-> [SourcePortRange |-> 23, DestinationPortRange |-> 24],
   x8 |-> [UidRange |-> 20],
   text |-> [Iifname |-> 3, Oifname |-> 17],
   realm |-> [Realm |-> 11]]

RuleAttribute == Codec(RuleAttribute_kind, RuleAttribute_emit_value, RuleAttribute_parse)

(* nexthop/attribute.rs                                                    *)
NexthopAttribute_kind ==
  [Id |-> 1, Group |-> 2, GroupType |-> 3, Blackhole |-> 4, Oif |-> 5, Gateway |-> 6,
   EncapType |-> 7, Encap |-> NLA_F_NESTED + 8, Groups |-> 9, Master |-> 10, Fdb |-> 11]

NexthopAttribute_emit_value ==
  [u16 |-> {"GroupType", "EncapType"},
   u32 |-> {"Id", "Oif", "Master"},
   be32 |-> {"Gateway"},
   ipv4 |-> {"Gateway"},
   ipv6 |-> {"Gateway"},
   bytes |-> {"Gateway"},
   flag |-> {"Blackhole", "Groups", "Fdb"},
   nlas |-> {"Encap"},
   list8 |-> {"Group"}]

NexthopAttribute_parse(family) ==
  Join([f \in {AddressFormat(family)} |-> [Gateway |-> 6]],
  [u16 |-> [GroupType |-> 3, EncapType |-> 7],
   u32 |-> [Id |-> 1, Oif |-> 5, Master |-> 10],
   flag |-> [Blackhole |-> 4, Groups |-> 9, Fdb |-> 11],
   list8 |-> [Group |-> 2]])

NexthopAttribute ==
  LET Families == {"inet", "inet6", "mpls", "other"}
      Foreign(family) ==
        ({"ipv4", "ipv6", "be32", "bytes"} \ {AddressFormat(family)}) \X {"Gateway"}
  IN [kind |-> NexthopAttribute_kind,
      emit |-> [family \in Families |-> Without(NexthopAttribute_emit_value, Foreign(family))],
      parse |-> [family \in Families |-> NexthopAttribute_parse(family)]]

(* Faulty: the arms of NETNSA_PID and NETNSA_FD exchanged.                 *)
NsidAttributeExchanged == Codec(
  [Id |-> 1, Pid |-> 2, Fd |-> 3, TargetNsid |-> 4, CurrentNsid |-> 5],
  [u32 |-> {"Id", "Pid", "Fd", "TargetNsid", "CurrentNsid"}],
  [u32 |-> [Id |-> 1, Pid |-> 3, Fd |-> 2, TargetNsid |-> 4, CurrentNsid |-> 5]])

(* nsid/attribute.rs                                                       *)
NsidAttribute == Codec(
  [Id |-> 1, Pid |-> 2, Fd |-> 3, TargetNsid |-> 4, CurrentNsid |-> 5],
  [u32 |-> {"Id", "Pid", "Fd", "TargetNsid", "CurrentNsid"}],
  [u32 |-> [Id |-> 1, Pid |-> 2, Fd |-> 3, TargetNsid |-> 4, CurrentNsid |-> 5]])

(* mdb/attribute.rs                                                        *)
MdbAttribute == Codec(
  [MdbEntry |-> 1, MrouteEntry |-> 2, MdbExtAttrs |-> 3],
  [bytes |-> {"MdbEntry", "MrouteEntry", "MdbExtAttrs"}],
  [bytes |-> [MdbEntry |-> 1, MrouteEntry |-> 2, MdbExtAttrs |-> 3]])

(* prefix/attribute.rs                                                     *)
PrefixAttribute == Codec(
  [Address |-> 1, CacheInfo |-> 2],
  [ipv6 |-> {"Address"},
   s8 |-> {"CacheInfo"}],
  [ipv6 |-> [Address |-> 1],
   r8 |-> [CacheInfo |-> 2]])

RouteCodecs ==
  [AddressAttribute |-> AddressAttribute, NeighbourAttribute |-> NeighbourAttribute,
   FdbExtAttr |-> FdbExtAttr, NeighbourTableAttribute |-> NeighbourTableAttribute,
   NeighbourTableParameter |-> NeighbourTableParameter,
   RouteAttribute |-> RouteAttribute, RouteMetric |-> RouteMetric,
   RouteMplsIpTunnel |-> RouteMplsIpTunnel, Seg6LocalCounters |-> Seg6LocalCounters,
   Seg6LocalFlavors |-> Seg6LocalFlavors,
   RouteSeg6LocalIpTunnel |-> RouteSeg6LocalIpTunnel, RuleAttribute |-> RuleAttribute,
   NsidAttribute |-> NsidAttribute, MdbAttribute |-> MdbAttribute,
   NexthopAttribute |-> NexthopAttribute, PrefixAttribute |-> PrefixAttribute]
=============================================================================
