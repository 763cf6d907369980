---------------------------- MODULE LinkTables ----------------------------
(***************************************************************************)
(* The attributes of link messages, one table per attribute enum: kind is  *)
(* the enum's kind(), emit_value its value_len() and emit_value(), parse   *)
(* its parse().  The format names are those of AttributeCodec.             *)
(***************************************************************************)
EXTENDS CodecTable

(* link/attribute.rs                                                       *)
LinkAttribute_kind ==
  [Address |-> 1, Broadcast |-> 2, IfName |-> 3, Mtu |-> 4, Link |-> 5, Qdisc |-> 6,
   Stats |-> 7, Controller |-> 10, Wireless |-> 11, ProtoInfoBridge |-> 12,
   ProtoInfoInet6 |-> 12, ProtoInfoUnknown |-> 12, TxQueueLen |-> 13, Map |-> 14, OperState |-> 16, Mode |-> 17,
   LinkInfo |-> 18, NetNsPid |-> 19, IfAlias |-> 20, NumVf |-> 21, VfInfoList |-> 22,
   Stats64 |-> 23, VfPorts |-> 24, PortSelf |-> 25, AfSpecUnknown |-> 26,
   AfSpecUnspec |-> 26, AfSpecBridge |-> 26, Group |-> 27, NetNsFd |-> 28,
   ExtMask |-> 29, Promiscuity |-> 30, NumTxQueues |-> 31, NumRxQueues |-> 32,
   Carrier |-> 33, PhysPortId |-> 34, CarrierChanges |-> 35, PhysSwitchId |-> 36,
   LinkNetNsId |-> 37, PhysPortName |-> 38, ProtoDown |-> 39, GsoMaxSegs |-> 40,
   GsoMaxSize |-> 41, Xdp |-> 43, Event |-> 44, NewNetnsId |-> 45, IfNetnsId |-> 46,
   CarrierUpCount |-> 47, CarrierDownCount |-> 48, NewIfIndex |-> 49, MinMtu |-> 50,
   MaxMtu |-> 51, PropList |-> NLA_F_NESTED + 52, PermAddress |-> 54,
   ProtoDownReason |-> 55]

LinkAttribute_emit_value ==
  [u8 |-> {"Mode", "Carrier", "ProtoDown", "OperState"},
   u32 |-> {"Event", "Mtu", "NewNetnsId", "IfNetnsId", "Link", "Controller", "TxQueueLen",
            "NetNsPid", "NumVf", "Group", "NetNsFd", "ExtMask", "Promiscuity",
            "NumTxQueues", "NumRxQueues", "CarrierChanges", "GsoMaxSegs", "GsoMaxSize",
            "LinkNetNsId", "MinMtu", "CarrierUpCount", "CarrierDownCount", "NewIfIndex",
            "MaxMtu"},
   bytes |-> {"Wireless", "Address", "Broadcast", "PermAddress", "AfSpecUnknown"},
   text |-> {"IfName", "Qdisc", "IfAlias", "PhysPortName"},
   nlas |-> {"VfInfoList", "VfPorts", "ProtoInfoBridge", "ProtoInfoInet6", "ProtoDownReason",
             "LinkInfo", "Xdp", "PropList", "AfSpecUnspec", "AfSpecBridge"},
   raw |-> {"ProtoInfoUnknown"},
   port |-> {"PortSelf"},
   phys |-> {"PhysPortId", "PhysSwitchId"},
   s96 |-> {"Stats"},
   s200 |-> {"Stats64"},
   map |-> {"Map"}]

LinkAttribute_parse_list(family) ==
  LET protoInfo == CASE family = "inet6" -> [nlasRaw |-> [ProtoInfoInet6 |-> 12]]
                     [] family = "bridge" -> [nlasRaw |-> [ProtoInfoBridge |-> 12]]
                     [] OTHER -> [raw |-> [ProtoInfoUnknown |-> 12]]
  IN Join(protoInfo,
  [u8 |-> [Mode |-> 17, Carrier |-> 33, ProtoDown |-> 39],
   u32 |-> [Event |-> 44, NewNetnsId |-> 45, IfNetnsId |-> 46, CarrierUpCount |-> 47,
            CarrierDownCount |-> 48, NewIfIndex |-> 49, Mtu |-> 4, Link |-> 5,
            Controller |-> 10, TxQueueLen |-> 13],
   bytes |-> [Wireless |-> 11, Address |-> 1, Broadcast |-> 2, PermAddress |-> 54],
   text |-> [IfName |-> 3, Qdisc |-> 6, IfAlias |-> 20, PhysPortName |-> 38],
   nlas |-> [PropList |-> 52, ProtoDownReason |-> 55],
   nlasRaw |-> [VfInfoList |-> 22, VfPorts |-> 24, PortSelf |-> 25],
   phys |-> [PhysPortId |-> 34, PhysSwitchId |-> 36]])

LinkAttribute_parse_value(family) ==
  LET afSpec == CASE family = "unspec" -> [nlas |-> [AfSpecUnspec |-> 26]]
                  [] family = "bridge" -> [nlas |-> [AfSpecBridge |-> 26]]
                  [] OTHER -> [bytes |-> [AfSpecUnknown |-> 26]]
  IN Join(afSpec,
  [u8 |-> [OperState |-> 16],
   u32 |-> [NetNsPid |-> 19, NumVf |-> 21, Group |-> 27, NetNsFd |-> 28, ExtMask |-> 29,
            Promiscuity |-> 30, NumTxQueues |-> 31, NumRxQueues |-> 32,
            CarrierChanges |-> 35, GsoMaxSegs |-> 40, GsoMaxSize |-> 41, MinMtu |-> 50,
            MaxMtu |-> 51, LinkNetNsId |-> 37],
   r28 |-> [Map |-> 14],
   nlas |-> [LinkInfo |-> 18],
   nlasSome |-> [Xdp |-> 43],
   p96 |-> [Stats |-> 7],
   p200 |-> [Stats64 |-> 23]])

(* The variants that the interface family of the link header leaves to     *)
(* messages of another family.                                             *)
LinkAttribute_foreign(family) ==
  {"ProtoInfoInet6", "ProtoInfoBridge", "ProtoInfoUnknown",
   "AfSpecUnspec", "AfSpecBridge", "AfSpecUnknown"}
  \ CASE family = "inet6" -> {"ProtoInfoInet6", "AfSpecUnknown"}
       [] family = "bridge" -> {"ProtoInfoBridge", "AfSpecBridge"}
       [] family = "unspec" -> {"ProtoInfoUnknown", "AfSpecUnspec"}
       [] OTHER -> {"ProtoInfoUnknown", "AfSpecUnknown"}

LinkAttribute ==
  LET Families == {"unspec", "inet6", "bridge", "inet"}
  IN [kind |-> LinkAttribute_kind,
      emit |-> [family \in Families |->
                  Without(LinkAttribute_emit_value,
                          (DOMAIN LinkAttribute_emit_value)
                            \X LinkAttribute_foreign(family))],
      parse |-> [family \in Families |->
                   Join(LinkAttribute_parse_list(family), LinkAttribute_parse_value(family))]]

(* link/xdp.rs                                                             *)
LinkXdp == Codec(
  [Fd |-> 1, Attached |-> 2, Flags |-> 3, ProgId |-> 4, DrvProgId |-> 5, SkbProgId |-> 6,
   HwProgId |-> 7, ExpectedFd |-> 8],
  [u8 |-> {"Attached"},
   u32 |-> {"Fd", "Flags", "ProgId", "DrvProgId", "SkbProgId", "HwProgId", "ExpectedFd"}],
  [u8 |-> [Attached |-> 2],
   u32 |-> [Fd |-> 1, Flags |-> 3, ProgId |-> 4, DrvProgId |-> 5, SkbProgId |-> 6, HwProgId |-> 7,
            ExpectedFd |-> 8]])

(* link/down_reason.rs                                                     *)
LinkProtocolDownReason == Codec(
  [Mask |-> 1, Value |-> 2],
  [u32 |-> {"Value", "Mask"}],
  [u32 |-> [Mask |-> 1, Value |-> 2]])

(* link/prop_list.rs                                                       *)
Prop == Codec(
  [AltIfName |-> 53],
  [text |-> {"AltIfName"}],
  [text |-> [AltIfName |-> 53]])

(* link/af_spec/inet6.rs                                                   *)
AfSpecInet6 == Codec(
  [Flags |-> 1, DevConf |-> 2, Stats |-> 3, CacheInfo |-> 5, Icmp6Stats |-> 6,
   Token |-> 7, AddrGenMode |-> 8, RaMtu |-> 9],
  [u8 |-> {"AddrGenMode"},
   u32 |-> {"Flags", "RaMtu"},
   ipv6 |-> {"Token"},
   s16 |-> {"CacheInfo"},
   devconf6 |-> {"DevConf"},
   inet6 |-> {"Stats"},
   icmp6 |-> {"Icmp6Stats"}],
  [u8 |-> [AddrGenMode |-> 8],
   u32 |-> [Flags |-> 1, RaMtu |-> 9],
   ipv6 |-> [Token |-> 7],
   r16 |-> [CacheInfo |-> 5],
   devconf6 |-> [DevConf |-> 2],
   p304 |-> [Stats |-> 3],
   p56 |-> [Icmp6Stats |-> 6]])

(* link/af_spec/inet.rs                                                    *)
AfSpecInet == Codec(
  [DevConf |-> 1],
  [devconf4 |-> {"DevConf"}],
  [devconf4 |-> [DevConf |-> 1]])

(* link/af_spec/unspec.rs: the kind is an AddressFamily.                   *)
AfSpecUnspec == Codec(
  [Inet |-> 2, Inet6 |-> 10],
  [nlas |-> {"Inet", "Inet6"}],
  [nlas |-> [Inet |-> 2, Inet6 |-> 10]])

(* link/af_spec/bridge.rs                                                  *)
AfSpecBridge == Codec(
  [Flags |-> 0, VlanInfo |-> 2],
  [u16 |-> {"Flags"},
   s4 |-> {"VlanInfo"}],
  [u16 |-> [Flags |-> 0],
   x4 |-> [VlanInfo |-> 2]])

(* link/proto_info/bridge.rs                                               *)
LinkProtoInfoBridge == Opaque

(* link/proto_info/inet6.rs                                                *)
LinkProtoInfoInet6 == Opaque

(* link/sriov/vf_list.rs: the items of IFLA_VFINFO_LIST.                   *)
LinkVfInfo == Codec(
  [LinkVfInfo |-> 1],
  [nlas |-> {"LinkVfInfo"}],
  [nlasRaw |-> [LinkVfInfo |-> 1]])

(* link/sriov/vf_port.rs: the items of IFLA_VF_PORTS.                      *)
LinkVfPort == Codec(
  [LinkVfPort |-> 1],
  [nlas |-> {"LinkVfPort"}],
  [nlasRaw |-> [LinkVfPort |-> 1]])

(* link/sriov/vf_port.rs                                                   *)
VfPort == Opaque

(* link/sriov/vf_list.rs                                                   *)
VfInfo == Codec(
  [Mac |-> 1, Vlan |-> 2, TxRate |-> 3, SpoofCheck |-> 4, LinkState |-> 5, Rate |-> 6,
   RssQueryEn |-> 7, Stats |-> 8, Trust |-> 9, IbNodeGuid |-> 10, IbPortGuid |-> 11,
   VlanList |-> 12, Broadcast |-> 13],
  [s8 |-> {"TxRate", "SpoofCheck", "LinkState", "RssQueryEn", "Trust"},
   s32 |-> {"Broadcast"},
   s36 |-> {"Mac"},
   nlas |-> {"VlanList", "Stats"},
   s12 |-> {"Vlan", "Rate", "IbNodeGuid", "IbPortGuid"}],
  [r8 |-> [TxRate |-> 3, SpoofCheck |-> 4, LinkState |-> 5, RssQueryEn |-> 7, Trust |-> 9],
   r12 |-> [Vlan |-> 2, Rate |-> 6, IbNodeGuid |-> 10, IbPortGuid |-> 11],
   r36 |-> [Mac |-> 1],
   nlas |-> [VlanList |-> 12, Stats |-> 8],
   r32 |-> [Broadcast |-> 13]])

(* link/sriov/vf_vlan.rs                                                   *)
VfVlan == Codec(
  [Info |-> 1],
  [vlanInfo |-> {"Info"}],
  [r14 |-> [Info |-> 1]])

(* link/sriov/stats.rs                                                     *)
VfStats == Codec(
  [RxPackets |-> 0, TxPackets |-> 1, RxBytes |-> 2, TxBytes |-> 3, Broadcast |-> 4,
   Multicast |-> 5, RxDropped |-> 7, TxDropped |-> 8],
  [u64 |-> {"RxPackets", "TxPackets", "RxBytes", "TxBytes", "Broadcast", "Multicast", "RxDropped",
            "TxDropped"}],
  [u64 |-> [RxPackets |-> 0, TxPackets |-> 1, RxBytes |-> 2, TxBytes |-> 3, Broadcast |-> 4,
            Multicast |-> 5, RxDropped |-> 7, TxDropped |-> 8]])

LinkCodecs ==
  [LinkAttribute |-> LinkAttribute, LinkXdp |-> LinkXdp,
   LinkProtocolDownReason |-> LinkProtocolDownReason, Prop |-> Prop,
   AfSpecInet6 |-> AfSpecInet6, AfSpecInet |-> AfSpecInet,
   AfSpecUnspec |-> AfSpecUnspec, AfSpecBridge |-> AfSpecBridge,
   LinkProtoInfoBridge |-> LinkProtoInfoBridge,
   LinkProtoInfoInet6 |-> LinkProtoInfoInet6, LinkVfInfo |-> LinkVfInfo,
   LinkVfPort |-> LinkVfPort, VfPort |-> VfPort, VfInfo |-> VfInfo,
   VfVlan |-> VfVlan, VfStats |-> VfStats]
=============================================================================
