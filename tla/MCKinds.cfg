SPECIFICATION Spec
CONSTANTS
  LinkNames = {"bridge", "ipip", "vxlan"}
  PortNames = {"bond", "team"}
  MaxInfos = 4
  AllNames = {"dummy", "ifb", "bridge", "tun", "nlmon", "vlan", "veth", "vxlan", "bond",
              "ipvlan", "ipvtap", "macvlan", "macvtap", "gretap", "ip6gretap", "ipip",
              "sit", "gre", "ip6gre", "vti", "vrf", "gtp", "ipoib", "wireguard", "xfrm",
              "macsec", "hsr", "can"}
  AllPortNames = {"bond", "bridge", "vrf", "team"}
  MaxOfAll = 2
  Types = {"None", "Mpls", "Ip", "Seg6"}
  MaxRouteAttrs = 3
  MaxInHop = 1
  TcNames = {"fq_codel", "u32", "sfq"}
  MaxTcAttrs = 3
  ActionKinds = {"mirred", "nat", "gact"}
  Tabs = {1, 32769}
  MaxAttrs = 3
  MaxInPair = 2
  MaxTrips = 2
INVARIANTS TypeOK UnderKind OneKind RoundTrip Stable
CHECK_DEADLOCK FALSE
