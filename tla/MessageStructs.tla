-------------------------- MODULE MessageStructs --------------------------
(***************************************************************************)
(* The headers and structs of fixed layout in messages other than link     *)
(* messages, one definition per struct, in the form of StructTable.        *)
(***************************************************************************)
EXTENDS StructTable

(* address/cache_info.rs                                                   *)
AddressCacheInfo == Struct(16,
  Words(4, <<"ifa_preferred", "ifa_valid", "cstamp", "tstamp">>),
  <<"ifa_preferred", "ifa_valid", "cstamp", "tstamp">>,
  <<"ifa_preferred", "ifa_valid", "cstamp", "tstamp">>)

(* address/message.rs                                                      *)
AddressHeader_buffer ==
  [family |-> <<0, 1>>, prefix_len |-> <<1, 2>>, flags |-> <<2, 3>>, scope |-> <<3, 4>>,
   index |-> <<4, 8>>]

AddressHeader_emit ==
  <<"family", "prefix_len", "flags", "scope", "index">>

AddressHeader_parse ==
  <<"family", "prefix_len", "flags", "scope", "index">>

AddressHeader == Struct(8, AddressHeader_buffer, AddressHeader_emit, AddressHeader_parse)

(* mdb/header.rs                                                           *)
MdbHeader_buffer ==
  [family |-> <<0, 1>>, pad |-> <<1, 2>>, pad2 |-> <<2, 4>>, index |-> <<4, 8>>]

MdbHeader_emit ==
  <<"family", "index">>

MdbHeader_parse ==
  <<"family", "index">>

MdbHeader == Struct(8, MdbHeader_buffer, MdbHeader_emit, MdbHeader_parse)

(* Faulty: the reserved bytes are left alone.                              *)
MdbMessageUnzeroed == Struct(8,
  [family |-> <<0, 1>>, zeros |-> <<1, 4>>, index |-> <<4, 8>>],
  <<"family", "index">>,
  <<"family", "index">>)

(* mdb/message.rs: MdbMessage::emit does not call MdbHeader::emit.         *)
MdbMessage == Struct(8,
  [family |-> <<0, 1>>, zeros |-> <<1, 4>>, index |-> <<4, 8>>],
  <<"family", "zeros", "index">>,
  <<"family", "index">>)

(* neighbour/cache_info.rs                                                 *)
NeighbourCacheInfo == Struct(16,
  Words(4, <<"confirmed", "used", "updated", "refcnt">>),
  <<"confirmed", "used", "updated", "refcnt">>,
  <<"confirmed", "used", "updated", "refcnt">>)

(* neighbour/header.rs                                                     *)
NeighbourHeader_buffer ==
  [family |-> <<0, 1>>, ifindex |-> <<4, 8>>, state |-> <<8, 10>>, flags |-> <<10, 11>>,
   kind |-> <<11, 12>>]

NeighbourHeader_emit ==
  <<"family", "ifindex", "state", "flags", "kind">>

NeighbourHeader_parse ==
  <<"family", "ifindex", "state", "flags", "kind">>

NeighbourHeader == Struct(12, NeighbourHeader_buffer, NeighbourHeader_emit, NeighbourHeader_parse)

(* neighbour_table/config.rs                                               *)
NeighbourTableConfig == Struct(32,
  [key_len |-> <<0, 2>>, entry_size |-> <<2, 4>>, entries |-> <<4, 8>>,
   last_flush |-> <<8, 12>>, last_rand |-> <<12, 16>>, hash_rand |-> <<16, 20>>,
   hash_mask |-> <<20, 24>>, hash_chain_gc |-> <<24, 28>>, proxy_qlen |-> <<28, 32>>],
  <<"key_len", "entry_size", "entries", "last_flush", "last_rand", "hash_rand",
    "hash_mask", "hash_chain_gc", "proxy_qlen">>,
  <<"key_len", "entry_size", "entries", "last_flush", "last_rand", "hash_rand",
    "hash_mask", "hash_chain_gc", "proxy_qlen">>)

(* neighbour_table/header.rs                                               *)
NeighbourTableHeader == Struct(4,
  [family |-> <<0, 1>>],
  <<"family">>,
  <<"family">>)

(* neighbour_table/stats.rs                                                *)
NeighbourTableStats == Struct(88,
  Words(8, <<"allocs", "destroys", "hash_grows", "res_failed", "lookups", "hits",
             "multicast_probes_received", "unicast_probes_received", "periodic_gc_runs",
             "forced_gc_runs", "table_fulls">>),
  <<"allocs", "destroys", "hash_grows", "res_failed", "lookups", "hits",
    "multicast_probes_received", "unicast_probes_received", "periodic_gc_runs",
    "forced_gc_runs", "table_fulls">>,
  <<"allocs", "destroys", "hash_grows", "res_failed", "lookups", "hits",
    "multicast_probes_received", "unicast_probes_received", "periodic_gc_runs",
    "forced_gc_runs", "table_fulls">>)

(* nexthop/header.rs                                                       *)
NexthopHeader_buffer ==
  [address_family |-> <<0, 1>>, scope |-> <<1, 2>>, protocol |-> <<2, 3>>,
   resvd |-> <<3, 4>>, flags |-> <<4, 8>>]

NexthopHeader_emit ==
  <<"address_family", "scope", "protocol", "resvd", "flags">>

NexthopHeader_parse ==
  <<"address_family", "protocol", "scope", "resvd", "flags">>

NexthopHeader == Struct(8, NexthopHeader_buffer, NexthopHeader_emit, NexthopHeader_parse)

(* nsid/header.rs                                                          *)
NsidHeader == Struct(4,
  [family |-> <<0, 1>>],
  <<"family">>,
  <<"family">>)

(* prefix/cache_info.rs                                                    *)
PrefixCacheInfo == Struct(8,
  Words(4, <<"preferred_time", "valid_time">>),
  <<"preferred_time", "valid_time">>,
  <<"preferred_time", "valid_time">>)

(* prefix/header.rs                                                        *)
PrefixHeader_buffer ==
  [prefix_family |-> <<0, 1>>, pad1 |-> <<1, 2>>, pad2 |-> <<2, 4>>, ifindex |-> <<4, 8>>,
   prefix_type |-> <<8, 9>>, prefix_len |-> <<9, 10>>, flags |-> <<10, 11>>,
   pad3 |-> <<11, 12>>]

PrefixHeader_emit ==
  <<"prefix_family", "ifindex", "prefix_type", "prefix_len", "flags">>

PrefixHeader_parse ==
  <<"prefix_family", "ifindex", "prefix_type", "prefix_len", "flags">>

PrefixHeader == Struct(12, PrefixHeader_buffer, PrefixHeader_emit, PrefixHeader_parse)

(* route/cache_info.rs                                                     *)
RouteCacheInfo == Struct(32,
  Words(4, <<"clntref", "last_use", "expires", "error", "used", "id", "ts", "ts_age">>),
  <<"clntref", "last_use", "expires", "error", "used", "id", "ts", "ts_age">>,
  <<"clntref", "last_use", "expires", "error", "used", "id", "ts", "ts_age">>)

(* route/header.rs                                                         *)
(* Faulty: two accessors declared for one byte.                            *)
RouteHeader_bufferOverlap ==
  [address_family |-> <<0, 1>>, destination_prefix_length |-> <<1, 2>>,
   source_prefix_length |-> <<2, 3>>, tos |-> <<3, 4>>, table |-> <<4, 5>>,
   protocol |-> <<5, 6>>, scope |-> <<6, 7>>, kind |-> <<6, 7>>, flags |-> <<8, 12>>]

RouteHeader_buffer ==
  [address_family |-> <<0, 1>>, destination_prefix_length |-> <<1, 2>>,
   source_prefix_length |-> <<2, 3>>, tos |-> <<3, 4>>, table |-> <<4, 5>>,
   protocol |-> <<5, 6>>, scope |-> <<6, 7>>, kind |-> <<7, 8>>, flags |-> <<8, 12>>]

RouteHeader_emit ==
  <<"address_family", "destination_prefix_length", "source_prefix_length", "tos", "table",
    "protocol", "scope", "kind", "flags">>

RouteHeader_parse ==
  <<"address_family", "destination_prefix_length", "source_prefix_length", "tos", "table",
    "protocol", "scope", "kind", "flags">>

RouteHeader == Struct(12, RouteHeader_buffer, RouteHeader_emit, RouteHeader_parse)

(* route/mfc_stats.rs                                                      *)
RouteMfcStats == Struct(24,
  Words(8, <<"packets", "bytes", "wrong_if">>),
  <<"packets", "bytes", "wrong_if">>,
  <<"packets", "bytes", "wrong_if">>)

(* rule/header.rs                                                          *)
RuleHeader_buffer ==
  [family |-> <<0, 1>>, dst_len |-> <<1, 2>>, src_len |-> <<2, 3>>, tos |-> <<3, 4>>,
   table |-> <<4, 5>>, reserve_1 |-> <<5, 6>>, reserve_2 |-> <<6, 7>>,
   action |-> <<7, 8>>, flags |-> <<8, 12>>]

RuleHeader_emit ==
  <<"family", "dst_len", "src_len", "table", "tos", "action", "flags">>

RuleHeader_parse ==
  <<"family", "dst_len", "src_len", "tos", "table", "action", "flags">>

RuleHeader == Struct(12, RuleHeader_buffer, RuleHeader_emit, RuleHeader_parse)

(* tc/actions/action.rs                                                    *)
TcActionGeneric == Struct(20,
  Words(4, <<"index", "capab", "action", "refcnt", "bindcnt">>),
  <<"index", "capab", "action", "refcnt", "bindcnt">>,
  <<"index", "capab", "action", "refcnt", "bindcnt">>)

(* tc/actions/header.rs                                                    *)
TcActionMessageHeader == Struct(4,
  [family |-> <<0, 1>>, pad1 |-> <<1, 2>>, pad2 |-> <<2, 4>>],
  <<"family">>,
  <<"family">>)

(* tc/actions/mirror.rs                                                    *)
TcMirror == Struct(28,
  [generic |-> <<0, 20>>, eaction |-> <<20, 24>>, ifindex |-> <<24, 28>>],
  <<"generic", "eaction", "ifindex">>,
  <<"generic", "eaction", "ifindex">>)

(* tc/actions/nat.rs                                                       *)
TcNat == Struct(36,
  [generic |-> <<0, 20>>, old_addr |-> <<20, 24>>, new_addr |-> <<24, 28>>,
   mask |-> <<28, 32>>, flags |-> <<32, 36>>],
  <<"generic", "old_addr", "new_addr", "mask", "flags">>,
  <<"generic", "old_addr", "new_addr", "mask", "flags">>)

(* tc/filters/cls_u32.rs                                                   *)
TcU32Selector == Struct(16,
  [flags |-> <<0, 1>>, offshift |-> <<1, 2>>, nkeys |-> <<2, 3>>, pad |-> <<3, 4>>,
   offmask |-> <<4, 6>>, off |-> <<6, 8>>, offoff |-> <<8, 10>>, hoff |-> <<10, 12>>,
   hmask |-> <<12, 16>>],
  <<"flags", "offshift", "offmask", "off", "offoff", "hoff", "hmask", "nkeys">>,
  <<"nkeys", "flags", "offshift", "offmask", "off", "offoff", "hoff", "hmask">>)

(* tc/filters/cls_u32.rs                                                   *)
TcU32Key == Struct(16,
  Words(4, <<"mask", "val", "off", "offmask">>),
  <<"mask", "val", "off", "offmask">>,
  <<"mask", "val", "off", "offmask">>)

(* tc/header.rs                                                            *)
TcHeader_buffer ==
  [family |-> <<0, 1>>, pad1 |-> <<1, 2>>, pad2 |-> <<2, 4>>, index |-> <<4, 8>>,
   handle |-> <<8, 12>>, parent |-> <<12, 16>>, info |-> <<16, 20>>]

TcHeader_emit ==
  <<"family", "index", "handle", "parent", "info">>

TcHeader_parse ==
  <<"family", "index", "handle", "parent", "info">>

TcHeader == Struct(20, TcHeader_buffer, TcHeader_emit, TcHeader_parse)

(* tc/qdiscs/fq_codel.rs                                                   *)
TcFqCodelQdStats == Struct(40,
  Words(4, <<"maxpacket", "drop_overlimit", "ecn_mark", "new_flow_count", "new_flows_len",
             "old_flows_len", "ce_mark", "memory_usage", "drop_overmemory">>),
  <<"maxpacket", "drop_overlimit", "ecn_mark", "new_flow_count", "new_flows_len",
    "old_flows_len", "ce_mark", "memory_usage", "drop_overmemory">>,
  <<"maxpacket", "drop_overlimit", "ecn_mark", "new_flow_count", "new_flows_len",
    "old_flows_len", "ce_mark", "memory_usage", "drop_overmemory">>)

(* tc/qdiscs/fq_codel.rs                                                   *)
TcFqCodelClStats == Struct(28,
  Words(4, <<"deficit", "ldelay", "count", "lastcount", "dropping", "drop_next">>),
  <<"deficit", "ldelay", "count", "lastcount", "dropping", "drop_next">>,
  <<"deficit", "ldelay", "count", "lastcount", "dropping", "drop_next">>)

(* tc/stats/basic.rs                                                       *)
TcStatsBasic == Struct(16,
  [bytes |-> <<0, 8>>, packets |-> <<8, 12>>],
  <<"bytes", "packets">>,
  <<"bytes", "packets">>)

(* tc/stats/compat.rs                                                      *)
TcStats == Struct(40,
  [bytes |-> <<0, 8>>, packets |-> <<8, 12>>, drops |-> <<12, 16>>,
   overlimits |-> <<16, 20>>, bps |-> <<20, 24>>, pps |-> <<24, 28>>, qlen |-> <<28, 32>>,
   backlog |-> <<32, 36>>],
  <<"bytes", "packets", "drops", "overlimits", "bps", "pps", "qlen", "backlog">>,
  <<"bytes", "packets", "drops", "overlimits", "bps", "pps", "qlen", "backlog">>)

(* tc/stats/queue.rs                                                       *)
TcStatsQueue == Struct(20,
  Words(4, <<"qlen", "backlog", "drops", "requeues", "overlimits">>),
  <<"qlen", "backlog", "drops", "requeues", "overlimits">>,
  <<"qlen", "backlog", "drops", "requeues", "overlimits">>)

(* tunnel/header.rs                                                        *)
TunnelHeader_buffer ==
  [family |-> <<0, 1>>, flags |-> <<1, 2>>, reserved2 |-> <<2, 4>>, index |-> <<4, 8>>]

TunnelHeader_emit ==
  <<"family", "flags", "index">>

TunnelHeader_parse ==
  <<"family", "flags", "index">>

TunnelHeader == Struct(8, TunnelHeader_buffer, TunnelHeader_emit, TunnelHeader_parse)

MessageStructs_all ==
  [AddressCacheInfo |-> AddressCacheInfo, AddressHeader |-> AddressHeader,
   MdbHeader |-> MdbHeader, NeighbourCacheInfo |-> NeighbourCacheInfo,
   NeighbourHeader |-> NeighbourHeader, NeighbourTableConfig |-> NeighbourTableConfig,
   NeighbourTableHeader |-> NeighbourTableHeader,
   NeighbourTableStats |-> NeighbourTableStats, NexthopHeader |-> NexthopHeader,
   NsidHeader |-> NsidHeader, PrefixCacheInfo |-> PrefixCacheInfo,
   PrefixHeader |-> PrefixHeader, RouteCacheInfo |-> RouteCacheInfo,
   RouteHeader |-> RouteHeader, RouteMfcStats |-> RouteMfcStats,
   RuleHeader |-> RuleHeader, TcActionGeneric |-> TcActionGeneric,
   TcActionMessageHeader |-> TcActionMessageHeader, TcMirror |-> TcMirror,
   TcNat |-> TcNat, TcU32Selector |-> TcU32Selector, TcU32Key |-> TcU32Key,
   TcHeader |-> TcHeader, TcFqCodelQdStats |-> TcFqCodelQdStats,
   TcFqCodelClStats |-> TcFqCodelClStats, TcStatsBasic |-> TcStatsBasic,
   TcStats |-> TcStats, TcStatsQueue |-> TcStatsQueue, TunnelHeader |-> TunnelHeader,
   MdbMessage |-> MdbMessage]
=============================================================================
