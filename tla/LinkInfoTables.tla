-------------------------- MODULE LinkInfoTables --------------------------
(***************************************************************************)
(* The attributes inside IFLA_INFO_DATA and IFLA_INFO_PORT_DATA, one table *)
(* per attribute enum, in the form of LinkTables.                          *)
(***************************************************************************)
EXTENDS CodecTable

(* link/link_info/bridge.rs                                                *)
InfoBridge_kind ==
  [ForwardDelay |-> 1, HelloTime |-> 2, MaxAge |-> 3, AgeingTime |-> 4, StpState |-> 5,
   Priority |-> 6, VlanFiltering |-> 7, VlanProtocol |-> 8, GroupFwdMask |-> 9,
   RootId |-> 10, BridgeId |-> 11, RootPort |-> 12, RootPathCost |-> 13,
   TopologyChange |-> 14, TopologyChangeDetected |-> 15, HelloTimer |-> 16,
   TcnTimer |-> 17, TopologyChangeTimer |-> 18, GcTimer |-> 19, GroupAddr |-> 20,
   FdbFlush |-> 21, MulticastRouter |-> 22, MulticastSnooping |-> 23,
   MulticastQueryUseIfaddr |-> 24, MulticastQuerier |-> 25,
   MulticastHashElasticity |-> 26, MulticastHashMax |-> 27,
   MulticastLastMemberCount |-> 28, MulticastStartupQueryCount |-> 29,
   MulticastLastMemberInterval |-> 30, MulticastMembershipInterval |-> 31,
   MulticastQuerierInterval |-> 32, MulticastQueryInterval |-> 33,
   MulticastQueryResponseInterval |-> 34, MulticastStartupQueryInterval |-> 35,
   NfCallIpTables |-> 36, NfCallIp6Tables |-> 37, NfCallArpTables |-> 38,
   VlanDefaultPvid |-> 39, VlanStatsEnabled |-> 41, MulticastStatsEnabled |-> 42,
   MulticastIgmpVersion |-> 43, MulticastMldVersion |-> 44, VlanStatsPerHost |-> 45,
   MultiBoolOpt |-> 46, MulticastQuerierState |-> NLA_F_NESTED + 47]

InfoBridge_emit_value ==
  [u8 |-> {"VlanFiltering", "TopologyChange", "TopologyChangeDetected", "MulticastRouter",
           "MulticastSnooping", "MulticastQueryUseIfaddr", "MulticastQuerier",
           "NfCallIpTables", "NfCallIp6Tables", "NfCallArpTables", "VlanStatsEnabled",
           "MulticastStatsEnabled", "MulticastIgmpVersion", "MulticastMldVersion",
           "VlanStatsPerHost"},
   u16 |-> {"Priority", "GroupFwdMask", "RootPort", "VlanDefaultPvid"},
   u32 |-> {"ForwardDelay", "HelloTime", "MaxAge", "AgeingTime", "StpState",
            "MulticastHashElasticity", "MulticastHashMax", "MulticastLastMemberCount",
            "MulticastStartupQueryCount", "RootPathCost"},
   u64 |-> {"HelloTimer", "TcnTimer", "TopologyChangeTimer", "GcTimer",
            "MulticastMembershipInterval", "MulticastQuerierInterval",
            "MulticastQueryInterval", "MulticastQueryResponseInterval",
            "MulticastLastMemberInterval", "MulticastStartupQueryInterval",
            "MultiBoolOpt"},
   be16 |-> {"VlanProtocol"},
   mac |-> {"GroupAddr"},
   s8 |-> {"RootId", "BridgeId"},
   flag |-> {"FdbFlush"},
   nlas |-> {"MulticastQuerierState"}]

InfoBridge_parse_first ==
  [u16 |-> [Priority |-> 6],
   u32 |-> [ForwardDelay |-> 1, HelloTime |-> 2, MaxAge |-> 3, AgeingTime |-> 4,
            StpState |-> 5, MulticastHashElasticity |-> 26, MulticastHashMax |-> 27,
            MulticastLastMemberCount |-> 28, MulticastStartupQueryCount |-> 29,
            RootPathCost |-> 13],
   u64 |-> [HelloTimer |-> 16, TcnTimer |-> 17, TopologyChangeTimer |-> 18, GcTimer |-> 19,
            MulticastLastMemberInterval |-> 30, MulticastMembershipInterval |-> 31,
            MulticastQuerierInterval |-> 32, MulticastQueryInterval |-> 33,
            MulticastQueryResponseInterval |-> 34, MulticastStartupQueryInterval |-> 35],
   be16 |-> [VlanProtocol |-> 8],
   flag |-> [FdbFlush |-> 21]]

InfoBridge_parse_rest ==
  [u8 |-> [VlanFiltering |-> 7, TopologyChange |-> 14, TopologyChangeDetected |-> 15,
           MulticastRouter |-> 22, MulticastSnooping |-> 23,
           MulticastQueryUseIfaddr |-> 24, MulticastQuerier |-> 25, NfCallIpTables |-> 36,
           NfCallIp6Tables |-> 37, NfCallArpTables |-> 38, VlanStatsEnabled |-> 41,
           MulticastStatsEnabled |-> 42, MulticastIgmpVersion |-> 43,
           MulticastMldVersion |-> 44, VlanStatsPerHost |-> 45],
   u16 |-> [GroupFwdMask |-> 9, RootPort |-> 12, VlanDefaultPvid |-> 39],
   u64 |-> [MultiBoolOpt |-> 46],
   mac |-> [GroupAddr |-> 20],
   r8 |-> [RootId |-> 10, BridgeId |-> 11],
   nlas |-> [MulticastQuerierState |-> 47]]

InfoBridge ==
  Codec(InfoBridge_kind, InfoBridge_emit_value,
        Join(InfoBridge_parse_first, InfoBridge_parse_rest))

(* link/link_info/bridge.rs                                                *)
BridgeQuerierState == Codec(
  [Ipv4Address |-> 1, Ipv4Port |-> 2, Ipv4OtherTimer |-> 3, Ipv6Address |-> 5,
   Ipv6Port |-> 6, Ipv6OtherTimer |-> 7],
  [u32 |-> {"Ipv4Port", "Ipv6Port"},
   u64 |-> {"Ipv4OtherTimer", "Ipv6OtherTimer"},
   ipv4 |-> {"Ipv4Address"},
   ipv6 |-> {"Ipv6Address"}],
  [u32 |-> [Ipv4Port |-> 2, Ipv6Port |-> 6],
   u64 |-> [Ipv4OtherTimer |-> 3, Ipv6OtherTimer |-> 7],
   ipv4 |-> [Ipv4Address |-> 1],
   ipv6 |-> [Ipv6Address |-> 5]])

(* link/link_info/bridge_port.rs                                           *)
InfoBridgePort_kind ==
  [State |-> 1, Priority |-> 2, Cost |-> 3, HairpinMode |-> 4, Guard |-> 5, Protect |-> 6,
   FastLeave |-> 7, Learning |-> 8, UnicastFlood |-> 9, ProxyARP |-> 10,
   ProxyARPWifi |-> 12, RootId |-> 13, BridgeId |-> 14, DesignatedPort |-> 15,
   DesignatedCost |-> 16, PortId |-> 17, PortNumber |-> 18, TopologyChangeAck |-> 19,
   ConfigPending |-> 20, MessageAgeTimer |-> 21, ForwardDelayTimer |-> 22,
   HoldTimer |-> 23, Flush |-> 24, MulticastRouter |-> 25, MulticastFlood |-> 27,
   MulticastToUnicast |-> 28, VlanTunnel |-> 29, BroadcastFlood |-> 30,
   GroupFwdMask |-> 31, NeighSupress |-> 32, Isolated |-> 33, BackupPort |-> 34,
   MrpRingOpen |-> 35, MrpInOpen |-> 36, MulticastEhtHostsLimit |-> 37,
   MulticastEhtHostsCnt |-> 38, Locked |-> 39, Mab |-> 40, MulticastNGroups |-> 41,
   MulticastMaxGroups |-> 42, NeighVlanSupress |-> 43, BackupNextHopId |-> 44]

InfoBridgePort_emit_value ==
  [u8 |-> {"State", "HairpinMode", "Guard", "Protect", "FastLeave", "Learning", "UnicastFlood",
           "ProxyARP", "ProxyARPWifi", "TopologyChangeAck", "ConfigPending",
           "MulticastRouter", "MulticastFlood", "MulticastToUnicast", "VlanTunnel",
           "BroadcastFlood", "NeighSupress", "Isolated", "MrpRingOpen", "MrpInOpen",
           "Locked", "Mab", "NeighVlanSupress"},
   u16 |-> {"Priority", "DesignatedPort", "DesignatedCost", "PortId", "PortNumber", "GroupFwdMask"},
   u32 |-> {"Cost", "BackupPort", "MulticastEhtHostsLimit", "MulticastEhtHostsCnt",
            "MulticastNGroups", "MulticastMaxGroups", "BackupNextHopId"},
   u64 |-> {"MessageAgeTimer", "ForwardDelayTimer", "HoldTimer"},
   s8 |-> {"RootId", "BridgeId"},
   flag |-> {"Flush"}]

InfoBridgePort_parse_first ==
  [r8 |-> [RootId |-> 13, BridgeId |-> 14]]

InfoBridgePort_parse_rest ==
  [u8 |-> [State |-> 1, HairpinMode |-> 4, Guard |-> 5, Protect |-> 6, FastLeave |-> 7,
           Learning |-> 8, UnicastFlood |-> 9, ProxyARP |-> 10, ProxyARPWifi |-> 12,
           TopologyChangeAck |-> 19, ConfigPending |-> 20, MulticastRouter |-> 25,
           MulticastFlood |-> 27, MulticastToUnicast |-> 28, VlanTunnel |-> 29,
           BroadcastFlood |-> 30, NeighSupress |-> 32, Isolated |-> 33, MrpRingOpen |-> 35,
           MrpInOpen |-> 36, Locked |-> 39, Mab |-> 40, NeighVlanSupress |-> 43],
   u16 |-> [Priority |-> 2, DesignatedPort |-> 15, DesignatedCost |-> 16, PortId |-> 17,
            PortNumber |-> 18, GroupFwdMask |-> 31],
   u32 |-> [Cost |-> 3, BackupPort |-> 34, MulticastEhtHostsLimit |-> 37,
            MulticastEhtHostsCnt |-> 38, MulticastNGroups |-> 41,
            MulticastMaxGroups |-> 42, BackupNextHopId |-> 44],
   u64 |-> [MessageAgeTimer |-> 21, ForwardDelayTimer |-> 22, HoldTimer |-> 23],
   flag |-> [Flush |-> 24]]

InfoBridgePort ==
  Codec(InfoBridgePort_kind, InfoBridgePort_emit_value,
        Join(InfoBridgePort_parse_first, InfoBridgePort_parse_rest))

(* link/link_info/bond.rs                                                  *)
InfoBond_kind ==
  [Mode |-> 1, ActivePort |-> 2, MiiMon |-> 3, UpDelay |-> 4, DownDelay |-> 5,
   UseCarrier |-> 6, ArpInterval |-> 7, ArpIpTarget |-> 8, ArpValidate |-> 9,
   ArpAllTargets |-> 10, Primary |-> 11, PrimaryReselect |-> 12, FailOverMac |-> 13,
   XmitHashPolicy |-> 14, ResendIgmp |-> 15, NumPeerNotif |-> 16, AllPortsActive |-> 17,
   MinLinks |-> 18, LpInterval |-> 19, PacketsPerPort |-> 20, AdLacpRate |-> 21,
   AdSelect |-> 22, AdInfo |-> 23, AdActorSysPrio |-> 24, AdUserPortKey |-> 25,
   AdActorSystem |-> 26, TlbDynamicLb |-> 27, PeerNotifDelay |-> 28,
   AdLacpActive |-> 29, MissedMax |-> 30, NsIp6Target |-> 31]

InfoBond_emit_value ==
  [u8 |-> {"Mode", "UseCarrier", "PrimaryReselect", "FailOverMac", "XmitHashPolicy",
           "NumPeerNotif", "AllPortsActive", "AdLacpActive", "AdLacpRate", "AdSelect",
           "TlbDynamicLb", "MissedMax"},
   u16 |-> {"AdActorSysPrio", "AdUserPortKey"},
   u32 |-> {"ActivePort", "MiiMon", "UpDelay", "DownDelay", "ArpInterval", "ArpValidate",
            "ArpAllTargets", "Primary", "ResendIgmp", "MinLinks", "LpInterval",
            "PacketsPerPort", "PeerNotifDelay"},
   mac |-> {"AdActorSystem"},
   nlas |-> {"ArpIpTarget", "NsIp6Target", "AdInfo"}]

InfoBond_parse ==
  [u8 |-> [Mode |-> 1, UseCarrier |-> 6, PrimaryReselect |-> 12, FailOverMac |-> 13,
           XmitHashPolicy |-> 14, NumPeerNotif |-> 16, AllPortsActive |-> 17,
           AdLacpRate |-> 21, AdSelect |-> 22, TlbDynamicLb |-> 27, AdLacpActive |-> 29,
           MissedMax |-> 30],
   u16 |-> [AdActorSysPrio |-> 24, AdUserPortKey |-> 25],
   u32 |-> [ActivePort |-> 2, MiiMon |-> 3, UpDelay |-> 4, DownDelay |-> 5, ArpInterval |-> 7,
            ArpValidate |-> 9, ArpAllTargets |-> 10, Primary |-> 11, ResendIgmp |-> 15,
            MinLinks |-> 18, LpInterval |-> 19, PacketsPerPort |-> 20,
            PeerNotifDelay |-> 28],
   mac |-> [AdActorSystem |-> 26],
   nlas |-> [ArpIpTarget |-> 8, AdInfo |-> 23, NsIp6Target |-> 31]]

InfoBond == Codec(InfoBond_kind, InfoBond_emit_value, InfoBond_parse)

(* link/link_info/bond.rs                                                  *)
BondAdInfo == Codec(
  [Aggregator |-> 1, NumPorts |-> 2, ActorKey |-> 3, PartnerKey |-> 4, PartnerMac |-> 5],
  [u16 |-> {"Aggregator", "NumPorts", "ActorKey", "PartnerKey"},
   mac |-> {"PartnerMac"}],
  [u16 |-> [Aggregator |-> 1, NumPorts |-> 2, ActorKey |-> 3, PartnerKey |-> 4],
   mac |-> [PartnerMac |-> 5]])

(* link/link_info/bond_port.rs                                             *)
InfoBondPort == Codec(
  [BondPortState |-> 1, MiiStatus |-> 2, LinkFailureCount |-> 3, PermHwaddr |-> 4,
   QueueId |-> 5, Prio |-> 9],
  [u8 |-> {"MiiStatus", "BondPortState"},
   u16 |-> {"QueueId"},
   u32 |-> {"LinkFailureCount", "Prio"},
   bytes |-> {"PermHwaddr"}],
  [u8 |-> [MiiStatus |-> 2, BondPortState |-> 1],
   u16 |-> [QueueId |-> 5],
   u32 |-> [LinkFailureCount |-> 3, Prio |-> 9],
   bytes |-> [PermHwaddr |-> 4]])

(* link/link_info/hsr.rs                                                   *)
InfoHsr == Codec(
  [Port1 |-> 1, Port2 |-> 2, MulticastSpec |-> 3, SupervisionAddr |-> 4, SeqNr |-> 5,
   Version |-> 6, Protocol |-> 7],
  [u8 |-> {"MulticastSpec", "Version", "Protocol"},
   u16 |-> {"SeqNr"},
   u32 |-> {"Port1", "Port2"},
   mac |-> {"SupervisionAddr"}],
  [u8 |-> [MulticastSpec |-> 3, Version |-> 6, Protocol |-> 7],
   u16 |-> [SeqNr |-> 5],
   u32 |-> [Port1 |-> 1, Port2 |-> 2],
   mac |-> [SupervisionAddr |-> 4]])

(* link/link_info/ipoib.rs                                                 *)
InfoIpoib == Codec(
  [Pkey |-> 1, Mode |-> 2, UmCast |-> 3],
  [u16 |-> {"Pkey", "Mode", "UmCast"}],
  [u16 |-> [Pkey |-> 1, Mode |-> 2, UmCast |-> 3]])

(* link/link_info/ipvlan.rs                                                *)
InfoIpVlan == Codec(
  [Mode |-> 1, Flags |-> 2],
  [u16 |-> {"Mode", "Flags"}],
  [u16 |-> [Mode |-> 1, Flags |-> 2]])

(* link/link_info/ipvlan.rs                                                *)
InfoIpVtap == Codec(
  [Mode |-> 1, Flags |-> 2],
  [u16 |-> {"Mode", "Flags"}],
  [u16 |-> [Mode |-> 1, Flags |-> 2]])

(* link/link_info/mac_vlan.rs                                              *)
InfoMacVlan == Codec(
  [Mode |-> 1, Flags |-> 2, MacAddrMode |-> 3, MacAddr |-> 4, MacAddrData |-> 5,
   MacAddrCount |-> 6, BcQueueLen |-> 7, BcQueueLenUsed |-> 8, BcCutoff |-> 9],
  [u16 |-> {"Flags"},
   u32 |-> {"Mode", "MacAddrMode", "MacAddrCount", "BcQueueLen", "BcQueueLenUsed", "BcCutoff"},
   mac |-> {"MacAddr"},
   nlas |-> {"MacAddrData"}],
  [u16 |-> [Flags |-> 2],
   u32 |-> [Mode |-> 1, MacAddrMode |-> 3, MacAddrCount |-> 6, BcQueueLen |-> 7,
            BcQueueLenUsed |-> 8, BcCutoff |-> 9],
   mac |-> [MacAddr |-> 4],
   nlas |-> [MacAddrData |-> 5]])

(* link/link_info/mac_vlan.rs                                              *)
InfoMacVtap == Codec(
  [Mode |-> 1, Flags |-> 2, MacAddrMode |-> 3, MacAddr |-> 4, MacAddrData |-> 5,
   MacAddrCount |-> 6, BcQueueLen |-> 7, BcQueueLenUsed |-> 8, BcCutoff |-> 9],
  [u16 |-> {"Flags"},
   u32 |-> {"Mode", "MacAddrMode", "MacAddrCount", "BcQueueLen", "BcQueueLenUsed", "BcCutoff"},
   mac |-> {"MacAddr"},
   nlas |-> {"MacAddrData"}],
  [u16 |-> [Flags |-> 2],
   u32 |-> [Mode |-> 1, MacAddrMode |-> 3, MacAddrCount |-> 6, BcQueueLen |-> 7,
            BcQueueLenUsed |-> 8, BcCutoff |-> 9],
   mac |-> [MacAddr |-> 4],
   nlas |-> [MacAddrData |-> 5]])

(* link/link_info/macsec.rs                                                *)
InfoMacSec == Codec(
  [Sci |-> 1, Port |-> 2, IcvLen |-> 3, CipherSuite |-> 4, Window |-> 5, EncodingSa |-> 6,
   Encrypt |-> 7, Protect |-> 8, IncSci |-> 9, Es |-> 10, Scb |-> 11,
   ReplayProtect |-> 12, Validation |-> 13, Offload |-> 15],
  [u8 |-> {"IcvLen", "EncodingSa", "Encrypt", "Protect", "IncSci", "Es", "Scb", "ReplayProtect",
           "Validation", "Offload"},
   u16 |-> {"Port"},
   u32 |-> {"Window"},
   u64 |-> {"Sci", "CipherSuite"}],
  [u8 |-> [IcvLen |-> 3, EncodingSa |-> 6, Encrypt |-> 7, Protect |-> 8, IncSci |-> 9, Es |-> 10,
           Scb |-> 11, ReplayProtect |-> 12, Validation |-> 13, Offload |-> 15],
   u16 |-> [Port |-> 2],
   u32 |-> [Window |-> 5],
   u64 |-> [Sci |-> 1, CipherSuite |-> 4]])

(* link/link_info/veth.rs                                                  *)
InfoVeth == Codec(
  [Peer |-> 1],
  [link |-> {"Peer"}],
  [link |-> [Peer |-> 1]])

(* Faulty: the VLAN protocol read in the byte order of the host.           *)
InfoVlanNative == Codec(
  [Id |-> 1, Flags |-> 2, EgressQos |-> 3, IngressQos |-> 4, Protocol |-> 5],
  [u16 |-> {"Id"},
   be16 |-> {"Protocol"},
   s8 |-> {"Flags"},
   nlas |-> {"EgressQos", "IngressQos"}],
  [u16 |-> [Id |-> 1, Protocol |-> 5],
   x8 |-> [Flags |-> 2],
   nlas |-> [EgressQos |-> 3, IngressQos |-> 4]])

(* link/link_info/vlan.rs                                                  *)
InfoVlan == Codec(
  [Id |-> 1, Flags |-> 2, EgressQos |-> 3, IngressQos |-> 4, Protocol |-> 5],
  [u16 |-> {"Id"},
   be16 |-> {"Protocol"},
   s8 |-> {"Flags"},
   nlas |-> {"EgressQos", "IngressQos"}],
  [u16 |-> [Id |-> 1],
   be16 |-> [Protocol |-> 5],
   x8 |-> [Flags |-> 2],
   nlas |-> [EgressQos |-> 3, IngressQos |-> 4]])

(* link/link_info/vlan.rs                                                  *)
VlanQosMapping == Codec(
  [Mapping |-> 1],
  [s8 |-> {"Mapping"}],
  [x8 |-> [Mapping |-> 1]])

(* link/link_info/vrf.rs                                                   *)
InfoVrf == Codec(
  [TableId |-> 1],
  [u32 |-> {"TableId"}],
  [u32 |-> [TableId |-> 1]])

(* link/link_info/vxlan.rs                                                 *)
InfoVxlan_kind ==
  [Id |-> 1, Group |-> 2, Link |-> 3, Local |-> 4, Ttl |-> 5, Tos |-> 6, Learning |-> 7,
   Ageing |-> 8, Limit |-> 9, PortRange |-> 10, Proxy |-> 11, Rsc |-> 12, L2Miss |-> 13,
   L3Miss |-> 14, Port |-> 15, Group6 |-> 16, Local6 |-> 17, UDPCsum |-> 18,
   UDPZeroCsumTX |-> 19, UDPZeroCsumRX |-> 20, RemCsumTX |-> 21, RemCsumRX |-> 22,
   Gbp |-> 23, RemCsumNoPartial |-> 24, CollectMetadata |-> 25, Label |-> 26,
   Gpe |-> 27, TtlInherit |-> 28, Df |-> 29, Vnifilter |-> 30, Localbypass |-> 31]

InfoVxlan_emit_value ==
  [u8 |-> {"Tos", "Ttl", "Learning", "Proxy", "Rsc", "L2Miss", "L3Miss", "CollectMetadata",
           "UDPCsum", "UDPZeroCsumTX", "UDPZeroCsumRX", "RemCsumTX", "RemCsumRX",
           "TtlInherit", "Df", "Vnifilter", "Localbypass"},
   u32 |-> {"Id", "Label", "Link", "Ageing", "Limit"},
   be16 |-> {"Port"},
   s4 |-> {"PortRange"},
   bytes |-> {"Local", "Local6", "Group", "Group6"},
   flag |-> {"Gbp", "Gpe", "RemCsumNoPartial"},
   off |-> {"Gbp", "RemCsumNoPartial", "Gpe"}]

InfoVxlan_parse ==
  [u8 |-> [Tos |-> 6, Ttl |-> 5, Learning |-> 7, Proxy |-> 11, Rsc |-> 12, L2Miss |-> 13,
           L3Miss |-> 14, CollectMetadata |-> 25, UDPCsum |-> 18, UDPZeroCsumTX |-> 19,
           UDPZeroCsumRX |-> 20, RemCsumTX |-> 21, RemCsumRX |-> 22, Df |-> 29,
           TtlInherit |-> 28, Vnifilter |-> 30, Localbypass |-> 31],
   u32 |-> [Id |-> 1, Link |-> 3, Label |-> 26, Ageing |-> 8, Limit |-> 9],
   be16 |-> [Port |-> 15],
   x4 |-> [PortRange |-> 10],
   bytes |-> [Group |-> 2, Group6 |-> 16, Local |-> 4, Local6 |-> 17],
   flag |-> [Gbp |-> 23, Gpe |-> 27, RemCsumNoPartial |-> 24]]

InfoVxlan == Codec(InfoVxlan_kind, InfoVxlan_emit_value, InfoVxlan_parse)

(* link/link_info/xfrm.rs                                                  *)
InfoXfrm == Codec(
  [Link |-> 1, IfId |-> 2],
  [u32 |-> {"Link", "IfId"}],
  [u32 |-> [Link |-> 1, IfId |-> 2]])

(* link/link_info/gre_tap.rs                                               *)
InfoGreTap == Opaque

(* link/link_info/gre_tap6.rs                                              *)
InfoGreTap6 == Opaque

(* link/link_info/gre.rs                                                   *)
InfoGreTun == Opaque

(* link/link_info/gre6.rs                                                  *)
InfoGreTun6 == Opaque

(* link/link_info/gtp.rs                                                   *)
InfoGtp == Opaque

(* link/link_info/sit.rs                                                   *)
InfoSitTun == Opaque

(* link/link_info/tun.rs                                                   *)
InfoTun == Opaque

(* link/link_info/vti.rs                                                   *)
InfoVti == Opaque

LinkInfoCodecs ==
  [InfoBridge |-> InfoBridge, BridgeQuerierState |-> BridgeQuerierState,
   InfoBridgePort |-> InfoBridgePort, InfoBond |-> InfoBond, BondAdInfo |-> BondAdInfo,
   InfoBondPort |-> InfoBondPort, InfoHsr |-> InfoHsr, InfoIpoib |-> InfoIpoib,
   InfoIpVlan |-> InfoIpVlan, InfoIpVtap |-> InfoIpVtap, InfoMacVlan |-> InfoMacVlan,
   InfoMacVtap |-> InfoMacVtap, InfoMacSec |-> InfoMacSec, InfoVeth |-> InfoVeth,
   InfoVlan |-> InfoVlan, VlanQosMapping |-> VlanQosMapping, InfoVrf |-> InfoVrf,
   InfoVxlan |-> InfoVxlan, InfoXfrm |-> InfoXfrm,
   InfoGreTap |-> InfoGreTap, InfoGreTap6 |-> InfoGreTap6, InfoGreTun |-> InfoGreTun,
   InfoGreTun6 |-> InfoGreTun6, InfoGtp |-> InfoGtp, InfoSitTun |-> InfoSitTun,
   InfoTun |-> InfoTun, InfoVti |-> InfoVti]
=============================================================================
