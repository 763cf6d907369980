---------------------------- MODULE NumberTables ----------------------------
(***************************************************************************)
(* The enumerations that stand for a number of a message.  Every one has   *)
(* two match expressions that are written apart: the arms of From<number>, *)
(* tried in the order of the code, as <name>_from; and the arms of         *)
(* From<enum> for the number, as <name>_into.  What no arm matches is the  *)
(* business of NumberCodec.                                                *)
(***************************************************************************)
EXTENDS Integers, Sequences

(* address/addr_scope.rs                                                   *)
AddressScope_from ==
  <<<<0, "Universe">>, <<200, "Site">>, <<253, "Link">>, <<254, "Host">>,
    <<255, "Nowhere">>>>

AddressScope_into ==
  [Universe |-> 0, Site |-> 200, Link |-> 253, Host |-> 254, Nowhere |-> 255]

(* address_family_linux.rs                                                 *)
(* Faulty: the arm of Local comes before the one of Unix.                  *)
AddressFamily_fromLocal ==
  <<<<0, "Unspec">>, <<1, "Local">>, <<1, "Unix">>, <<2, "Inet">>,
    <<3, "Ax25">>, <<4, "Ipx">>, <<5, "Appletalk">>, <<6, "Netrom">>,
    <<7, "Bridge">>, <<8, "Atmpvc">>, <<9, "X25">>, <<10, "Inet6">>,
    <<11, "Rose">>, <<12, "Decnet">>, <<13, "Netbeui">>, <<14, "Security">>,
    <<15, "Key">>, <<16, "Netlink">>, <<16, "Route">>, <<17, "Packet">>,
    <<18, "Ash">>, <<19, "Econet">>, <<20, "Atmsvc">>, <<21, "Rds">>,
    <<22, "Sna">>, <<23, "Irda">>, <<24, "Pppox">>, <<25, "Wanpipe">>,
    <<26, "Llc">>, <<27, "Ib">>, <<28, "Mpls">>, <<29, "Can">>,
    <<30, "Tipc">>, <<31, "Bluetooth">>, <<32, "Iucv">>, <<33, "Rxrpc">>,
    <<34, "Isdn">>, <<35, "Phonet">>, <<36, "Ieee802154">>, <<37, "Caif">>,
    <<38, "Alg">>, <<39, "Nfc">>, <<40, "Vsock">>, <<41, "Kcm">>,
    <<42, "Qipcrtr">>, <<43, "Smc">>, <<44, "Xdp">>, <<45, "Mctp">>>>

AddressFamily_from ==
  <<<<0, "Unspec">>, <<1, "Unix">>, <<1, "Local">>, <<2, "Inet">>,
    <<3, "Ax25">>, <<4, "Ipx">>, <<5, "Appletalk">>, <<6, "Netrom">>,
    <<7, "Bridge">>, <<8, "Atmpvc">>, <<9, "X25">>, <<10, "Inet6">>,
    <<11, "Rose">>, <<12, "Decnet">>, <<13, "Netbeui">>, <<14, "Security">>,
    <<15, "Key">>, <<16, "Netlink">>, <<16, "Route">>, <<17, "Packet">>,
    <<18, "Ash">>, <<19, "Econet">>, <<20, "Atmsvc">>, <<21, "Rds">>,
    <<22, "Sna">>, <<23, "Irda">>, <<24, "Pppox">>, <<25, "Wanpipe">>,
    <<26, "Llc">>, <<27, "Ib">>, <<28, "Mpls">>, <<29, "Can">>,
    <<30, "Tipc">>, <<31, "Bluetooth">>, <<32, "Iucv">>, <<33, "Rxrpc">>,
    <<34, "Isdn">>, <<35, "Phonet">>, <<36, "Ieee802154">>, <<37, "Caif">>,
    <<38, "Alg">>, <<39, "Nfc">>, <<40, "Vsock">>, <<41, "Kcm">>,
    <<42, "Qipcrtr">>, <<43, "Smc">>, <<44, "Xdp">>, <<45, "Mctp">>>>

AddressFamily_into ==
  [Unspec |-> 0, Local |-> 1, Unix |-> 1, Inet |-> 2, Ax25 |-> 3, Ipx |-> 4,
   Appletalk |-> 5, Netrom |-> 6, Bridge |-> 7, Atmpvc |-> 8, X25 |-> 9,
   Inet6 |-> 10, Rose |-> 11, Decnet |-> 12, Netbeui |-> 13, Security |-> 14,
   Key |-> 15, Route |-> 16, Netlink |-> 16, Packet |-> 17, Ash |-> 18,
   Econet |-> 19, Atmsvc |-> 20, Rds |-> 21, Sna |-> 22, Irda |-> 23,
   Pppox |-> 24, Wanpipe |-> 25, Llc |-> 26, Ib |-> 27, Mpls |-> 28,
   Can |-> 29, Tipc |-> 30, Bluetooth |-> 31, Iucv |-> 32, Rxrpc |-> 33,
   Isdn |-> 34, Phonet |-> 35, Ieee802154 |-> 36, Caif |-> 37, Alg |-> 38,
   Nfc |-> 39, Vsock |-> 40, Kcm |-> 41, Qipcrtr |-> 42, Smc |-> 43,
   Xdp |-> 44, Mctp |-> 45]

(* ip.rs                                                                   *)
IpProtocol_from ==
  <<<<0, "Hopopts">>, <<1, "Icmp">>, <<2, "Igmp">>, <<4, "Ipip">>,
    <<6, "Tcp">>, <<8, "Egp">>, <<12, "Pup">>, <<17, "Udp">>, <<22, "Idp">>,
    <<29, "Tp">>, <<33, "Dccp">>, <<41, "Ipv6">>, <<46, "Rsvp">>,
    <<47, "Gre">>, <<50, "Esp">>, <<51, "Ah">>, <<92, "Mtp">>,
    <<94, "Beetph">>, <<98, "Encap">>, <<103, "Pim">>, <<108, "Comp">>,
    <<115, "L2tp">>, <<132, "Sctp">>, <<136, "Udplite">>, <<137, "Mpls">>,
    <<143, "Ethernet">>, <<255, "Raw">>, <<262, "Mptcp">>>>

IpProtocol_into ==
  [Hopopts |-> 0, Icmp |-> 1, Igmp |-> 2, Ipip |-> 4, Tcp |-> 6, Egp |-> 8,
   Pup |-> 12, Udp |-> 17, Idp |-> 22, Tp |-> 29, Dccp |-> 33, Ipv6 |-> 41,
   Rsvp |-> 46, Gre |-> 47, Esp |-> 50, Ah |-> 51, Mtp |-> 92, Beetph |-> 94,
   Encap |-> 98, Pim |-> 103, Comp |-> 108, L2tp |-> 115, Sctp |-> 132,
   Udplite |-> 136, Mpls |-> 137, Ethernet |-> 143, Raw |-> 255,
   Mptcp |-> 262]

(* link/event.rs                                                           *)
LinkEvent_from ==
  <<<<0, "None">>, <<1, "Reboot">>, <<2, "Features">>,
    <<3, "BondingFailover">>, <<4, "NotifyPeers">>, <<5, "IgmpResend">>,
    <<6, "BondingOptions">>>>

LinkEvent_into ==
  [None |-> 0, Reboot |-> 1, Features |-> 2, BondingFailover |-> 3,
   NotifyPeers |-> 4, IgmpResend |-> 5, BondingOptions |-> 6]

(* link/ext_mask.rs                                                        *)
LinkExtentMask_from ==
  <<<<1, "Vf">>, <<2, "Brvlan">>, <<4, "BrvlanCompressed">>,
    <<8, "SkipStats">>, <<16, "Mrp">>, <<32, "CfmConfig">>,
    <<64, "CfmStatus">>, <<128, "Mst">>>>

LinkExtentMask_into ==
  [Vf |-> 1, Brvlan |-> 2, BrvlanCompressed |-> 4, SkipStats |-> 8,
   Mrp |-> 16, CfmConfig |-> 32, CfmStatus |-> 64, Mst |-> 128]

(* link/link_info/bond.rs                                                  *)
BondMode_from ==
  <<<<0, "BalanceRr">>, <<1, "ActiveBackup">>, <<2, "BalanceXor">>,
    <<3, "Broadcast">>, <<4, "Ieee8023Ad">>, <<5, "BalanceTlb">>,
    <<6, "BalanceAlb">>>>

BondMode_into ==
  [BalanceRr |-> 0, ActiveBackup |-> 1, BalanceXor |-> 2, Broadcast |-> 3,
   Ieee8023Ad |-> 4, BalanceTlb |-> 5, BalanceAlb |-> 6]

(* link/link_info/bond_port.rs                                             *)
BondPortState_from ==
  <<<<0, "Active">>, <<1, "Backup">>>>

BondPortState_into ==
  [Active |-> 0, Backup |-> 1]

(* link/link_info/bond_port.rs                                             *)
MiiStatus_from ==
  <<<<0, "Up">>, <<1, "GoingDown">>, <<2, "Down">>, <<3, "GoingBack">>>>

MiiStatus_into ==
  [Up |-> 0, GoingDown |-> 1, Down |-> 2, GoingBack |-> 3]

(* link/link_info/bridge_port.rs                                           *)
BridgePortState_from ==
  <<<<0, "Disabled">>, <<1, "Listening">>, <<2, "Learning">>,
    <<3, "Forwarding">>, <<4, "Blocking">>>>

BridgePortState_into ==
  [Disabled |-> 0, Listening |-> 1, Learning |-> 2, Forwarding |-> 3,
   Blocking |-> 4]

(* link/link_info/bridge_port.rs                                           *)
BridgePortMulticastRouter_from ==
  <<<<0, "Disabled">>, <<1, "TempQuery">>, <<2, "Perm">>, <<3, "Temp">>>>

BridgePortMulticastRouter_into ==
  [Disabled |-> 0, TempQuery |-> 1, Perm |-> 2, Temp |-> 3]

(* link/link_info/hsr.rs                                                   *)
HsrProtocol_from ==
  <<<<0, "Hsr">>, <<1, "Prp">>>>

HsrProtocol_into ==
  [Hsr |-> 0, Prp |-> 1]

(* link/link_info/ipvlan.rs                                                *)
IpVlanMode_from ==
  <<<<0, "L2">>, <<1, "L3">>, <<2, "L3S">>>>

IpVlanMode_into ==
  [L2 |-> 0, L3 |-> 1, L3S |-> 2]

(* link/link_info/mac_vlan.rs                                              *)
MacVlanMode_from ==
  <<<<1, "Private">>, <<2, "Vepa">>, <<4, "Bridge">>, <<8, "Passthrough">>,
    <<16, "Source">>>>

MacVlanMode_into ==
  [Private |-> 1, Vepa |-> 2, Bridge |-> 4, Passthrough |-> 8, Source |-> 16]

(* link/link_info/macsec.rs                                                *)
MacSecValidate_from ==
  <<<<0, "Disabled">>, <<1, "Check">>, <<2, "Strict">>>>

MacSecValidate_into ==
  [Disabled |-> 0, Check |-> 1, Strict |-> 2]

(* link/link_info/macsec.rs                                                *)
MacSecOffload_from ==
  <<<<0, "Off">>, <<1, "Phy">>, <<2, "Mac">>>>

MacSecOffload_into ==
  [Off |-> 0, Phy |-> 1, Mac |-> 2]

(* link/link_layer_type.rs                                                 *)
LinkLayerType_from ==
  <<<<0, "Netrom">>, <<1, "Ether">>, <<2, "Eether">>, <<3, "Ax25">>,
    <<4, "Pronet">>, <<5, "Chaos">>, <<6, "Ieee802">>, <<7, "Arcnet">>,
    <<8, "Appletlk">>, <<15, "Dlci">>, <<19, "Atm">>, <<23, "Metricom">>,
    <<24, "Ieee1394">>, <<27, "Eui64">>, <<32, "Infiniband">>,
    <<256, "Slip">>, <<257, "Cslip">>, <<258, "Slip6">>, <<259, "Cslip6">>,
    <<260, "Rsrvd">>, <<264, "Adapt">>, <<270, "Rose">>, <<271, "X25">>,
    <<272, "Hwx25">>, <<280, "Can">>, <<512, "Ppp">>, <<513, "Hdlc">>,
    <<516, "Lapb">>, <<517, "Ddcmp">>, <<518, "Rawhdlc">>, <<519, "Rawip">>,
    <<768, "Tunnel">>, <<769, "Tunnel6">>, <<770, "Frad">>, <<771, "Skip">>,
    <<772, "Loopback">>, <<773, "Localtlk">>, <<774, "Fddi">>, <<775, "Bif">>,
    <<776, "Sit">>, <<777, "Ipddp">>, <<778, "Ipgre">>, <<779, "Pimreg">>,
    <<780, "Hippi">>, <<781, "Ash">>, <<782, "Econet">>, <<783, "Irda">>,
    <<784, "Fcpp">>, <<785, "Fcal">>, <<786, "Fcpl">>, <<787, "Fcfabric">>,
    <<800, "Ieee802Tr">>, <<801, "Ieee80211">>, <<802, "Ieee80211Prism">>,
    <<803, "Ieee80211Radiotap">>, <<804, "Ieee802154">>,
    <<805, "Ieee802154Monitor">>, <<820, "Phonet">>, <<821, "PhonetPipe">>,
    <<822, "Caif">>, <<823, "Ip6gre">>, <<824, "Netlink">>,
    <<825, "Sixlowpan">>, <<826, "Vsockmon">>, <<65535, "Void">>,
    <<65534, "None">>>>

LinkLayerType_into ==
  [Netrom |-> 0, Ether |-> 1, Eether |-> 2, Ax25 |-> 3, Pronet |-> 4,
   Chaos |-> 5, Ieee802 |-> 6, Arcnet |-> 7, Appletlk |-> 8, Dlci |-> 15,
   Atm |-> 19, Metricom |-> 23, Ieee1394 |-> 24, Eui64 |-> 27,
   Infiniband |-> 32, Slip |-> 256, Cslip |-> 257, Slip6 |-> 258,
   Cslip6 |-> 259, Rsrvd |-> 260, Adapt |-> 264, Rose |-> 270, X25 |-> 271,
   Hwx25 |-> 272, Can |-> 280, Ppp |-> 512, Hdlc |-> 513, Lapb |-> 516,
   Ddcmp |-> 517, Rawhdlc |-> 518, Rawip |-> 519, Tunnel |-> 768,
   Tunnel6 |-> 769, Frad |-> 770, Skip |-> 771, Loopback |-> 772,
   Localtlk |-> 773, Fddi |-> 774, Bif |-> 775, Sit |-> 776, Ipddp |-> 777,
   Ipgre |-> 778, Pimreg |-> 779, Hippi |-> 780, Ash |-> 781, Econet |-> 782,
   Irda |-> 783, Fcpp |-> 784, Fcal |-> 785, Fcpl |-> 786, Fcfabric |-> 787,
   Ieee802Tr |-> 800, Ieee80211 |-> 801, Ieee80211Prism |-> 802,
   Ieee80211Radiotap |-> 803, Ieee802154 |-> 804, Ieee802154Monitor |-> 805,
   Phonet |-> 820, PhonetPipe |-> 821, Caif |-> 822, Ip6gre |-> 823,
   Netlink |-> 824, Sixlowpan |-> 825, Vsockmon |-> 826, Void |-> 65535,
   None |-> 65534]

(* link/link_state.rs                                                      *)
State_from ==
  <<<<0, "Unknown">>, <<1, "NotPresent">>, <<2, "Down">>,
    <<3, "LowerLayerDown">>, <<4, "Testing">>, <<5, "Dormant">>, <<6, "Up">>>>

State_into ==
  [Unknown |-> 0, NotPresent |-> 1, Down |-> 2, LowerLayerDown |-> 3,
   Testing |-> 4, Dormant |-> 5, Up |-> 6]

(* link/sriov/link_state.rs                                                *)
VfLinkState_from ==
  <<<<0, "Auto">>, <<1, "Enable">>, <<2, "Disable">>>>

VfLinkState_into ==
  [Auto |-> 0, Enable |-> 1, Disable |-> 2]

(* link/vlan_protocol.rs                                                   *)
VlanProtocol_from ==
  <<<<33024, "Ieee8021Q">>, <<34984, "Ieee8021Ad">>>>

VlanProtocol_into ==
  [Ieee8021Q |-> 33024, Ieee8021Ad |-> 34984]

(* link/xdp.rs                                                             *)
XdpAttached_from ==
  <<<<0, "None">>, <<1, "Driver">>, <<2, "SocketBuffer">>, <<3, "Hardware">>,
    <<4, "Multiple">>>>

XdpAttached_into ==
  [None |-> 0, Driver |-> 1, SocketBuffer |-> 2, Hardware |-> 3,
   Multiple |-> 4]

(* neighbour/state.rs                                                      *)
NeighbourState_from ==
  <<<<1, "Incomplete">>, <<2, "Reachable">>, <<4, "Stale">>, <<8, "Delay">>,
    <<16, "Probe">>, <<32, "Failed">>, <<64, "Noarp">>, <<128, "Permanent">>,
    <<0, "None">>>>

NeighbourState_into ==
  [Incomplete |-> 1, Reachable |-> 2, Stale |-> 4, Delay |-> 8, Probe |-> 16,
   Failed |-> 32, Noarp |-> 64, Permanent |-> 128, None |-> 0]

(* route/header.rs                                                         *)
RouteProtocol_from ==
  <<<<0, "Unspec">>, <<1, "IcmpRedirect">>, <<2, "Kernel">>, <<3, "Boot">>,
    <<4, "Static">>, <<8, "Gated">>, <<9, "Ra">>, <<10, "Mrt">>,
    <<11, "Zebra">>, <<12, "Bird">>, <<13, "DnRouted">>, <<14, "Xorp">>,
    <<15, "Ntk">>, <<16, "Dhcp">>, <<17, "Mrouted">>, <<18, "KeepAlived">>,
    <<42, "Babel">>, <<186, "Bgp">>, <<187, "Isis">>, <<188, "Ospf">>,
    <<189, "Rip">>, <<192, "Eigrp">>>>

(* Faulty: two neighbouring routing daemons change places.                 *)
RouteProtocol_intoSwapped ==
  [Unspec |-> 0, IcmpRedirect |-> 1, Kernel |-> 2, Boot |-> 3, Static |-> 4,
   Gated |-> 8, Ra |-> 9, Mrt |-> 10, Zebra |-> 11, Bird |-> 12,
   DnRouted |-> 13, Xorp |-> 14, Ntk |-> 15, Dhcp |-> 16, Mrouted |-> 17,
   KeepAlived |-> 18, Babel |-> 42, Bgp |-> 186, Isis |-> 188, Ospf |-> 187,
   Rip |-> 189, Eigrp |-> 192]

RouteProtocol_into ==
  [Unspec |-> 0, IcmpRedirect |-> 1, Kernel |-> 2, Boot |-> 3, Static |-> 4,
   Gated |-> 8, Ra |-> 9, Mrt |-> 10, Zebra |-> 11, Bird |-> 12,
   DnRouted |-> 13, Xorp |-> 14, Ntk |-> 15, Dhcp |-> 16, Mrouted |-> 17,
   KeepAlived |-> 18, Babel |-> 42, Bgp |-> 186, Isis |-> 187, Ospf |-> 188,
   Rip |-> 189, Eigrp |-> 192]

(* route/header.rs                                                         *)
RouteScope_from ==
  <<<<0, "Universe">>, <<200, "Site">>, <<253, "Link">>, <<254, "Host">>,
    <<255, "NoWhere">>>>

RouteScope_into ==
  [Universe |-> 0, Site |-> 200, Link |-> 253, Host |-> 254, NoWhere |-> 255]

(* route/header.rs                                                         *)
RouteType_from ==
  <<<<0, "Unspec">>, <<1, "Unicast">>, <<2, "Local">>, <<3, "Broadcast">>,
    <<4, "Anycast">>, <<5, "Multicast">>, <<6, "BlackHole">>,
    <<7, "Unreachable">>, <<8, "Prohibit">>, <<9, "Throw">>, <<10, "Nat">>,
    <<11, "ExternalResolve">>>>

RouteType_into ==
  [Unspec |-> 0, Unicast |-> 1, Local |-> 2, Broadcast |-> 3, Anycast |-> 4,
   Multicast |-> 5, BlackHole |-> 6, Unreachable |-> 7, Prohibit |-> 8,
   Throw |-> 9, Nat |-> 10, ExternalResolve |-> 11]

(* route/lwtunnel.rs                                                       *)
RouteLwEnCapType_from ==
  <<<<0, "None">>, <<1, "Mpls">>, <<2, "Ip">>, <<3, "Ila">>, <<4, "Ip6">>,
    <<5, "Seg6">>, <<6, "Bpf">>, <<7, "Seg6Local">>, <<8, "Rpl">>,
    <<9, "Ioam6">>, <<10, "Xfrm">>>>

RouteLwEnCapType_into ==
  [None |-> 0, Mpls |-> 1, Ip |-> 2, Ila |-> 3, Ip6 |-> 4, Seg6 |-> 5,
   Bpf |-> 6, Seg6Local |-> 7, Rpl |-> 8, Ioam6 |-> 9, Xfrm |-> 10]

(* route/mpls.rs                                                           *)
RouteMplsTtlPropagation_from ==
  <<<<0, "Default">>, <<1, "Enabled">>, <<2, "Disabled">>>>

RouteMplsTtlPropagation_into ==
  [Default |-> 0, Enabled |-> 1, Disabled |-> 2]

(* route/preference.rs                                                     *)
RoutePreference_from ==
  <<<<3, "Low">>, <<0, "Medium">>, <<1, "High">>, <<2, "Invalid">>>>

RoutePreference_into ==
  [Low |-> 3, Medium |-> 0, High |-> 1, Invalid |-> 2]

(* route/seg6.rs                                                           *)
Seg6IpTunnelMode_from ==
  <<<<0, "Inline">>, <<1, "Encap">>, <<2, "L2Encap">>, <<3, "EncapRed">>,
    <<4, "L2EncapRed">>>>

Seg6IpTunnelMode_into ==
  [Inline |-> 0, Encap |-> 1, L2Encap |-> 2, EncapRed |-> 3, L2EncapRed |-> 4]

(* route/seg6local.rs                                                      *)
Seg6LocalAction_from ==
  <<<<0, "Unspec">>, <<1, "End">>, <<2, "EndX">>, <<3, "EndT">>,
    <<4, "EndDx2">>, <<5, "EndDx6">>, <<6, "EndDx4">>, <<7, "EndDt6">>,
    <<8, "EndDt4">>, <<9, "EndB6">>, <<10, "EndB6Encap">>, <<11, "EndBm">>,
    <<12, "EndS">>, <<13, "EndAs">>, <<14, "EndAm">>, <<15, "EndBpf">>,
    <<16, "EndDt46">>>>

Seg6LocalAction_into ==
  [Unspec |-> 0, End |-> 1, EndX |-> 2, EndT |-> 3, EndDx2 |-> 4,
   EndDx6 |-> 5, EndDx4 |-> 6, EndDt6 |-> 7, EndDt4 |-> 8, EndB6 |-> 9,
   EndB6Encap |-> 10, EndBm |-> 11, EndS |-> 12, EndAs |-> 13, EndAm |-> 14,
   EndBpf |-> 15, EndDt46 |-> 16]

(* route/seg6local.rs                                                      *)
Seg6LocalFlavorOps_from ==
  <<<<1, "Unspec">>, <<2, "Psp">>, <<4, "Usp">>, <<8, "Usd">>,
    <<16, "NextCsid">>>>

Seg6LocalFlavorOps_into ==
  [Unspec |-> 1, Psp |-> 2, Usp |-> 4, Usd |-> 8, NextCsid |-> 16]

(* rule/action.rs                                                          *)
RuleAction_from ==
  <<<<0, "Unspec">>, <<1, "ToTable">>, <<2, "Goto">>, <<3, "Nop">>,
    <<6, "Blackhole">>, <<7, "Unreachable">>, <<8, "Prohibit">>>>

RuleAction_into ==
  [Unspec |-> 0, ToTable |-> 1, Goto |-> 2, Nop |-> 3, Blackhole |-> 6,
   Unreachable |-> 7, Prohibit |-> 8]

(* tc/actions/action.rs                                                    *)
TcActionType_from ==
  <<<<-1, "Unspec">>, <<0, "Ok">>, <<1, "Reclassify">>, <<2, "Shot">>,
    <<3, "Pipe">>, <<4, "Stolen">>, <<5, "Queued">>, <<6, "Repeat">>,
    <<7, "Redirect">>, <<8, "Trap">>>>

TcActionType_into ==
  [Unspec |-> -1, Ok |-> 0, Reclassify |-> 1, Shot |-> 2, Pipe |-> 3,
   Stolen |-> 4, Queued |-> 5, Repeat |-> 6, Redirect |-> 7, Trap |-> 8]

(* tc/actions/mirror.rs                                                    *)
TcMirrorActionType_from ==
  <<<<1, "EgressRedir">>, <<2, "EgressMirror">>, <<3, "IngressRedir">>,
    <<4, "IngressMirror">>>>

TcMirrorActionType_into ==
  [EgressRedir |-> 1, EgressMirror |-> 2, IngressRedir |-> 3,
   IngressMirror |-> 4]

=============================================================================
