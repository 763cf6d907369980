---------------------------- MODULE LinkStructs ----------------------------
(***************************************************************************)
(* The structs of fixed layout in link messages, one definition per        *)
(* struct, in the form of StructTable.                                     *)
(***************************************************************************)
EXTENDS StructTable

(* The setting of a virtual function, a u32 that the struct keeps as a     *)
(* bool.  Its numbers are 0, 1, u32::MAX and the others.                   *)
(* Faulty: u32::MAX, "not supported", is taken for a setting.              *)
Setting_fromAny == [zero |-> "disabled", one |-> "enabled", max |-> "enabled",
                    other |-> "enabled"]

Setting_from == [zero |-> "disabled", one |-> "enabled", max |-> "disabled",
                 other |-> "enabled"]

Setting_into == [disabled |-> "zero", enabled |-> "one"]

(* An enumeration without Other: a number that no variant has is read as   *)
(* the variant of another, here that of `rest`.                            *)
Closed_from == [named |-> "Variant", rest |-> "Rest", unnamed |-> "Rest"]

Closed_into == [Variant |-> "named", Rest |-> "rest"]

(* link/af_spec/inet.rs                                                    *)
InetDevConf_buffer ==
  Words(4, <<"forwarding", "mc_forwarding", "proxy_arp", "accept_redirects",
             "secure_redirects", "send_redirects", "shared_media", "rp_filter",
             "accept_source_route", "bootp_relay", "log_martians", "tag", "arpfilter",
             "medium_id", "noxfrm", "nopolicy", "force_igmp_version", "arp_announce",
             "arp_ignore", "promote_secondaries", "arp_accept", "arp_notify",
             "accept_local", "src_vmark", "proxy_arp_pvlan", "route_localnet",
             "igmpv2_unsolicited_report_interval", "igmpv3_unsolicited_report_interval",
             "ignore_routes_with_linkdown", "drop_unicast_in_l2_multicast",
             "drop_gratuitous_arp", "bc_forwarding", "arp_evict_nocarrier">>)

InetDevConf_emit ==
  <<"forwarding", "mc_forwarding", "proxy_arp", "accept_redirects", "secure_redirects",
    "send_redirects", "shared_media", "rp_filter", "accept_source_route", "bootp_relay",
    "log_martians", "tag", "arpfilter", "medium_id", "noxfrm", "nopolicy",
    "force_igmp_version", "arp_announce", "arp_ignore", "promote_secondaries",
    "arp_accept", "arp_notify", "accept_local", "src_vmark", "proxy_arp_pvlan",
    "route_localnet", "igmpv2_unsolicited_report_interval",
    "igmpv3_unsolicited_report_interval", "ignore_routes_with_linkdown",
    "drop_unicast_in_l2_multicast", "drop_gratuitous_arp", "bc_forwarding",
    "arp_evict_nocarrier">>

InetDevConf_parse ==
  <<"forwarding", "mc_forwarding", "proxy_arp", "accept_redirects", "secure_redirects",
    "send_redirects", "shared_media", "rp_filter", "accept_source_route", "bootp_relay",
    "log_martians", "tag", "arpfilter", "medium_id", "noxfrm", "nopolicy",
    "force_igmp_version", "arp_announce", "arp_ignore", "promote_secondaries",
    "arp_accept", "arp_notify", "accept_local", "src_vmark", "proxy_arp_pvlan",
    "route_localnet", "igmpv2_unsolicited_report_interval",
    "igmpv3_unsolicited_report_interval", "ignore_routes_with_linkdown",
    "drop_unicast_in_l2_multicast", "drop_gratuitous_arp", "bc_forwarding",
    "arp_evict_nocarrier">>

InetDevConf == Struct(132, InetDevConf_buffer, InetDevConf_emit, InetDevConf_parse)

(* link/af_spec/inet6_cache.rs                                             *)
Inet6CacheInfo == Struct(16,
  Words(4, <<"max_reasm_len", "tstamp", "reachable_time", "retrans_time">>),
  <<"max_reasm_len", "tstamp", "reachable_time", "retrans_time">>,
  <<"max_reasm_len", "tstamp", "reachable_time", "retrans_time">>)

(* link/af_spec/inet6_devconf.rs                                           *)
Inet6DevConf_buffer ==
  Words(4, <<"forwarding", "hoplimit", "mtu6", "accept_ra", "accept_redirects",
             "autoconf", "dad_transmits", "rtr_solicits", "rtr_solicit_interval",
             "rtr_solicit_delay", "use_tempaddr", "temp_valid_lft", "temp_prefered_lft",
             "regen_max_retry", "max_desync_factor", "max_addresses", "force_mld_version",
             "accept_ra_defrtr", "accept_ra_pinfo", "accept_ra_rtr_pref",
             "rtr_probe_interval", "accept_ra_rt_info_max_plen", "proxy_ndp",
             "optimistic_dad", "accept_source_route", "mc_forwarding", "disable_ipv6",
             "accept_dad", "force_tllao", "ndisc_notify",
             "mldv1_unsolicited_report_interval", "mldv2_unsolicited_report_interval",
             "suppress_frag_ndisc", "accept_ra_from_local", "use_optimistic",
             "accept_ra_mtu", "stable_secret", "use_oif_addrs_only",
             "accept_ra_min_hop_limit", "ignore_routes_with_linkdown",
             "drop_unicast_in_l2_multicast", "drop_unsolicited_na", "keep_addr_on_down",
             "rtr_solicit_max_interval", "seg6_enabled", "seg6_require_hmac",
             "enhanced_dad", "addr_gen_mode", "disable_policy",
             "accept_ra_rt_info_min_plen", "ndisc_tclass", "rpl_seg_enabled",
             "ra_defrtr_metric", "ioam6_enabled", "ioam6_id", "ioam6_id_wide",
             "ndisc_evict_nocarrier", "accept_untracked_na", "accept_ra_min_lft",
             "force_forwarding">>)

Inet6DevConf_emit ==
  <<"forwarding", "hoplimit", "mtu6", "accept_ra", "accept_redirects", "autoconf",
    "dad_transmits", "rtr_solicits", "rtr_solicit_interval", "rtr_solicit_delay",
    "use_tempaddr", "temp_valid_lft", "temp_prefered_lft", "regen_max_retry",
    "max_desync_factor", "max_addresses", "force_mld_version", "accept_ra_defrtr",
    "accept_ra_pinfo", "accept_ra_rtr_pref", "rtr_probe_interval",
    "accept_ra_rt_info_max_plen", "proxy_ndp", "optimistic_dad", "accept_source_route",
    "mc_forwarding", "disable_ipv6", "accept_dad", "force_tllao", "ndisc_notify",
    "mldv1_unsolicited_report_interval", "mldv2_unsolicited_report_interval",
    "suppress_frag_ndisc", "accept_ra_from_local", "use_optimistic", "accept_ra_mtu",
    "stable_secret", "use_oif_addrs_only", "accept_ra_min_hop_limit",
    "ignore_routes_with_linkdown", "drop_unicast_in_l2_multicast", "drop_unsolicited_na",
    "keep_addr_on_down", "rtr_solicit_max_interval", "seg6_enabled", "seg6_require_hmac",
    "enhanced_dad", "addr_gen_mode", "disable_policy", "accept_ra_rt_info_min_plen",
    "ndisc_tclass", "ndisc_tclass", "rpl_seg_enabled", "ra_defrtr_metric",
    "ioam6_enabled", "ioam6_id", "ioam6_id_wide", "ndisc_evict_nocarrier",
    "accept_untracked_na", "accept_ra_min_lft", "force_forwarding">>

(* Faulty: parse() was not extended along with emit().                     *)
Inet6DevConf_parseShort ==
  <<"forwarding", "hoplimit", "mtu6", "accept_ra", "accept_redirects", "autoconf",
    "dad_transmits", "rtr_solicits", "rtr_solicit_interval", "rtr_solicit_delay",
    "use_tempaddr", "temp_valid_lft", "temp_prefered_lft", "regen_max_retry",
    "max_desync_factor", "max_addresses", "force_mld_version", "accept_ra_defrtr",
    "accept_ra_pinfo", "accept_ra_rtr_pref", "rtr_probe_interval",
    "accept_ra_rt_info_max_plen", "proxy_ndp", "optimistic_dad", "accept_source_route",
    "mc_forwarding", "accept_dad", "force_tllao", "ndisc_notify",
    "mldv1_unsolicited_report_interval", "mldv2_unsolicited_report_interval",
    "suppress_frag_ndisc", "accept_ra_from_local", "use_optimistic", "accept_ra_mtu",
    "stable_secret", "use_oif_addrs_only", "accept_ra_min_hop_limit",
    "ignore_routes_with_linkdown", "drop_unicast_in_l2_multicast", "drop_unsolicited_na",
    "keep_addr_on_down", "rtr_solicit_max_interval", "seg6_enabled", "seg6_require_hmac",
    "enhanced_dad", "addr_gen_mode", "disable_policy", "accept_ra_rt_info_min_plen",
    "ndisc_tclass", "rpl_seg_enabled", "ra_defrtr_metric", "ioam6_enabled", "ioam6_id",
    "ioam6_id_wide", "ndisc_evict_nocarrier", "accept_untracked_na", "accept_ra_min_lft",
    "force_forwarding">>

Inet6DevConf_parse ==
  <<"forwarding", "hoplimit", "mtu6", "accept_ra", "accept_redirects", "autoconf",
    "dad_transmits", "rtr_solicits", "rtr_solicit_interval", "rtr_solicit_delay",
    "use_tempaddr", "temp_valid_lft", "temp_prefered_lft", "regen_max_retry",
    "max_desync_factor", "max_addresses", "force_mld_version", "accept_ra_defrtr",
    "accept_ra_pinfo", "accept_ra_rtr_pref", "rtr_probe_interval",
    "accept_ra_rt_info_max_plen", "proxy_ndp", "optimistic_dad", "accept_source_route",
    "mc_forwarding", "disable_ipv6", "accept_dad", "force_tllao", "ndisc_notify",
    "mldv1_unsolicited_report_interval", "mldv2_unsolicited_report_interval",
    "suppress_frag_ndisc", "accept_ra_from_local", "use_optimistic", "accept_ra_mtu",
    "stable_secret", "use_oif_addrs_only", "accept_ra_min_hop_limit",
    "ignore_routes_with_linkdown", "drop_unicast_in_l2_multicast", "drop_unsolicited_na",
    "keep_addr_on_down", "rtr_solicit_max_interval", "seg6_enabled", "seg6_require_hmac",
    "enhanced_dad", "addr_gen_mode", "disable_policy", "accept_ra_rt_info_min_plen",
    "ndisc_tclass", "rpl_seg_enabled", "ra_defrtr_metric", "ioam6_enabled", "ioam6_id",
    "ioam6_id_wide", "ndisc_evict_nocarrier", "accept_untracked_na", "accept_ra_min_lft",
    "force_forwarding">>

Inet6DevConf == Struct(240, Inet6DevConf_buffer, Inet6DevConf_emit, Inet6DevConf_parse)

(* Faulty: the ICMP statistics of an older kernel were five numbers.       *)
Icmp6StatsShort == Struct(40,
  Words(8, <<"num", "in_msgs", "in_errors", "out_msgs", "out_errors", "csum_errors">>),
  <<"num", "in_msgs", "in_errors", "out_msgs", "out_errors", "csum_errors">>,
  <<"num", "in_msgs", "in_errors", "out_msgs", "out_errors", "csum_errors">>)

(* link/af_spec/inet6_icmp.rs                                              *)
Icmp6Stats == Struct(56,
  Words(8, <<"num", "in_msgs", "in_errors", "out_msgs", "out_errors", "csum_errors">>),
  <<"num", "in_msgs", "in_errors", "out_msgs", "out_errors", "csum_errors">>,
  <<"num", "in_msgs", "in_errors", "out_msgs", "out_errors", "csum_errors">>)

(* link/af_spec/inet6_stats.rs                                             *)
Inet6Stats_buffer ==
  Words(8, <<"num", "in_pkts", "in_octets", "in_delivers", "out_forw_datagrams",
             "out_pkts", "out_octets", "in_hdr_errors", "in_too_big_errors",
             "in_no_routes", "in_addr_errors", "in_unknown_protos", "in_truncated_pkts",
             "in_discards", "out_discards", "out_no_routes", "reasm_timeout",
             "reasm_reqds", "reasm_oks", "reasm_fails", "frag_oks", "frag_fails",
             "frag_creates", "in_mcast_pkts", "out_mcast_pkts", "in_bcast_pkts",
             "out_bcast_pkts", "in_mcast_octets", "out_mcast_octets", "in_bcast_octets",
             "out_bcast_octets", "in_csum_errors", "in_no_ect_pkts", "in_ect1_pkts",
             "in_ect0_pkts", "in_ce_pkts">>)

Inet6Stats_emit ==
  <<"num", "in_pkts", "in_octets", "in_delivers", "out_forw_datagrams", "out_pkts",
    "out_octets", "in_hdr_errors", "in_too_big_errors", "in_no_routes", "in_addr_errors",
    "in_unknown_protos", "in_truncated_pkts", "in_discards", "out_discards",
    "out_no_routes", "reasm_timeout", "reasm_reqds", "reasm_oks", "reasm_fails",
    "frag_oks", "frag_fails", "frag_creates", "in_mcast_pkts", "out_mcast_pkts",
    "in_bcast_pkts", "out_bcast_pkts", "in_mcast_octets", "out_mcast_octets",
    "in_bcast_octets", "out_bcast_octets", "in_csum_errors", "in_no_ect_pkts",
    "in_ect1_pkts", "in_ect0_pkts", "in_ce_pkts">>

Inet6Stats_parse ==
  <<"num", "in_pkts", "in_octets", "in_delivers", "out_forw_datagrams", "out_pkts",
    "out_octets", "in_hdr_errors", "in_too_big_errors", "in_no_routes", "in_addr_errors",
    "in_unknown_protos", "in_truncated_pkts", "in_discards", "out_discards",
    "out_no_routes", "reasm_timeout", "reasm_reqds", "reasm_oks", "reasm_fails",
    "frag_oks", "frag_fails", "frag_creates", "in_mcast_pkts", "out_mcast_pkts",
    "in_bcast_pkts", "out_bcast_pkts", "in_mcast_octets", "out_mcast_octets",
    "in_bcast_octets", "out_bcast_octets", "in_csum_errors", "in_no_ect_pkts",
    "in_ect1_pkts", "in_ect0_pkts", "in_ce_pkts">>

Inet6Stats == Struct(304, Inet6Stats_buffer, Inet6Stats_emit, Inet6Stats_parse)

(* link/header.rs                                                          *)
LinkHeader_buffer ==
  [interface_family |-> <<0, 1>>, reserved_1 |-> <<1, 2>>, link_layer_type |-> <<2, 4>>,
   link_index |-> <<4, 8>>, flags |-> <<8, 12>>, change_mask |-> <<12, 16>>]

LinkHeader_emit ==
  <<"interface_family", "link_index", "change_mask", "link_layer_type", "flags">>

LinkHeader_parse ==
  <<"interface_family", "link_layer_type", "link_index", "change_mask", "flags">>

LinkHeader ==
  Converting(Struct(16, LinkHeader_buffer, LinkHeader_emit, LinkHeader_parse),
             "link_layer_type", Closed_from, Closed_into)

(* link/link_info/bridge.rs                                                *)
BridgeId == Struct(8,
  [priority |-> <<0, 2>>, address |-> <<2, 8>>],
  <<"priority", "address">>,
  <<"priority", "address">>)

(* link/map.rs                                                             *)
Map == Struct(32,
  [memory_start |-> <<0, 8>>, memory_end |-> <<8, 16>>, base_address |-> <<16, 24>>,
   irq |-> <<24, 26>>, dma |-> <<26, 27>>, port |-> <<27, 28>>],
  <<"memory_start", "memory_end", "base_address", "irq", "dma", "port">>,
  <<"memory_start", "memory_end", "base_address", "irq", "dma", "port">>)

(* link/sriov/broadcast.rs                                                 *)
VfInfoBroadcast == Struct(32,
  [addr |-> <<0, 32>>],
  <<"addr">>,
  <<"addr">>)

(* link/sriov/guid.rs                                                      *)
VfInfoGuid == Struct(12,
  [vf_id |-> <<0, 4>>, guid |-> <<4, 12>>],
  <<"vf_id", "guid">>,
  <<"vf_id", "guid">>)

(* link/sriov/link_state.rs                                                *)
VfInfoLinkState == Struct(8,
  Words(4, <<"vf_id", "state">>),
  <<"vf_id", "state">>,
  <<"vf_id", "state">>)

(* link/sriov/mac.rs                                                       *)
VfInfoMac == Struct(36,
  [vf_id |-> <<0, 4>>, mac |-> <<4, 36>>],
  <<"vf_id", "mac">>,
  <<"vf_id", "mac">>)

(* link/sriov/rate.rs                                                      *)
VfInfoRate == Struct(12,
  Words(4, <<"vf_id", "min_tx_rate", "max_tx_rate">>),
  <<"vf_id", "min_tx_rate", "max_tx_rate">>,
  <<"vf_id", "min_tx_rate", "max_tx_rate">>)

(* link/sriov/rss_query.rs                                                 *)
VfInfoRssQueryEn ==
  Converting(Struct(8, Words(4, <<"vf_id", "setting">>),
                    <<"vf_id", "setting">>, <<"vf_id", "setting">>),
             "setting", Setting_from, Setting_into)

(* link/sriov/spoofchk.rs                                                  *)
VfInfoSpoofCheck ==
  Converting(Struct(8, Words(4, <<"vf_id", "setting">>),
                    <<"vf_id", "setting">>, <<"vf_id", "setting">>),
             "setting", Setting_from, Setting_into)

(* link/sriov/trust.rs                                                     *)
VfInfoTrust ==
  Converting(Struct(8, Words(4, <<"vf_id", "setting">>),
                    <<"vf_id", "setting">>, <<"vf_id", "setting">>),
             "setting", Setting_from, Setting_into)

(* link/sriov/tx_rate.rs                                                   *)
VfInfoTxRate == Struct(8,
  Words(4, <<"vf_id", "rate">>),
  <<"vf_id", "rate">>,
  <<"vf_id", "rate">>)

(* link/sriov/vf_vlan.rs                                                   *)
VfVlanInfo ==
  Converting(
    Struct(16,
      [vf_id |-> <<0, 4>>, vlan_id |-> <<4, 8>>, qos |-> <<8, 12>>, protocol |-> <<12, 14>>],
      <<"vf_id", "vlan_id", "qos", "protocol">>,
      <<"vf_id", "vlan_id", "qos", "protocol">>),
    "protocol", Closed_from, Closed_into)

(* link/sriov/vlan.rs                                                      *)
VfInfoVlan == Struct(12,
  Words(4, <<"vf_id", "vlan_id", "qos">>),
  <<"vf_id", "vlan_id", "qos">>,
  <<"vf_id", "vlan_id", "qos">>)

(* link/stats.rs                                                           *)
LinkStats == Struct(96,
  Words(4, <<"rx_packets", "tx_packets", "rx_bytes", "tx_bytes", "rx_errors", "tx_errors",
             "rx_dropped", "tx_dropped", "multicast", "collisions", "rx_length_errors",
             "rx_over_errors", "rx_crc_errors", "rx_frame_errors", "rx_fifo_errors",
             "rx_missed_errors", "tx_aborted_errors", "tx_carrier_errors",
             "tx_fifo_errors", "tx_heartbeat_errors", "tx_window_errors", "rx_compressed",
             "tx_compressed", "rx_nohandler">>),
  <<"rx_packets", "tx_packets", "rx_bytes", "tx_bytes", "rx_errors", "tx_errors",
    "rx_dropped", "tx_dropped", "multicast", "collisions", "rx_length_errors",
    "rx_over_errors", "rx_crc_errors", "rx_frame_errors", "rx_fifo_errors",
    "rx_missed_errors", "tx_aborted_errors", "tx_carrier_errors", "tx_fifo_errors",
    "tx_heartbeat_errors", "tx_window_errors", "rx_compressed", "tx_compressed",
    "rx_nohandler">>,
  <<"rx_packets", "tx_packets", "rx_bytes", "tx_bytes", "rx_errors", "tx_errors",
    "rx_dropped", "tx_dropped", "multicast", "collisions", "rx_length_errors",
    "rx_over_errors", "rx_crc_errors", "rx_frame_errors", "rx_fifo_errors",
    "rx_missed_errors", "tx_aborted_errors", "tx_carrier_errors", "tx_fifo_errors",
    "tx_heartbeat_errors", "tx_window_errors", "rx_compressed", "tx_compressed",
    "rx_nohandler">>)

(* link/stats64.rs                                                         *)
LinkStats64_buffer ==
  Words(8, <<"rx_packets", "tx_packets", "rx_bytes", "tx_bytes", "rx_errors", "tx_errors",
             "rx_dropped", "tx_dropped", "multicast", "collisions", "rx_length_errors",
             "rx_over_errors", "rx_crc_errors", "rx_frame_errors", "rx_fifo_errors",
             "rx_missed_errors", "tx_aborted_errors", "tx_carrier_errors",
             "tx_fifo_errors", "tx_heartbeat_errors", "tx_window_errors", "rx_compressed",
             "tx_compressed", "rx_nohandler", "rx_otherhost_dropped">>)

LinkStats64_emit ==
  <<"rx_packets", "tx_packets", "rx_bytes", "tx_bytes", "rx_errors", "tx_errors",
    "rx_dropped", "tx_dropped", "multicast", "collisions", "rx_length_errors",
    "rx_over_errors", "rx_crc_errors", "rx_frame_errors", "rx_fifo_errors",
    "rx_missed_errors", "tx_aborted_errors", "tx_carrier_errors", "tx_fifo_errors",
    "tx_heartbeat_errors", "tx_window_errors", "rx_compressed", "tx_compressed",
    "rx_nohandler", "rx_otherhost_dropped">>

LinkStats64_parse ==
  <<"rx_packets", "tx_packets", "rx_bytes", "tx_bytes", "rx_errors", "tx_errors",
    "rx_dropped", "tx_dropped", "multicast", "collisions", "rx_length_errors",
    "rx_over_errors", "rx_crc_errors", "rx_frame_errors", "rx_fifo_errors",
    "rx_missed_errors", "tx_aborted_errors", "tx_carrier_errors", "tx_fifo_errors",
    "tx_heartbeat_errors", "tx_window_errors", "rx_compressed", "tx_compressed",
    "rx_nohandler", "rx_otherhost_dropped">>

LinkStats64 == Struct(200, LinkStats64_buffer, LinkStats64_emit, LinkStats64_parse)

LinkStructs_all ==
  [InetDevConf |-> InetDevConf, Inet6CacheInfo |-> Inet6CacheInfo,
   Inet6DevConf |-> Inet6DevConf, Icmp6Stats |-> Icmp6Stats, Inet6Stats |-> Inet6Stats,
   LinkHeader |-> LinkHeader, BridgeId |-> BridgeId, Map |-> Map,
   VfInfoBroadcast |-> VfInfoBroadcast, VfInfoGuid |-> VfInfoGuid,
   VfInfoLinkState |-> VfInfoLinkState, VfInfoMac |-> VfInfoMac,
   VfInfoRate |-> VfInfoRate, VfInfoRssQueryEn |-> VfInfoRssQueryEn,
   VfInfoSpoofCheck |-> VfInfoSpoofCheck, VfInfoTrust |-> VfInfoTrust,
   VfInfoTxRate |-> VfInfoTxRate, VfVlanInfo |-> VfVlanInfo, VfInfoVlan |-> VfInfoVlan,
   LinkStats |-> LinkStats, LinkStats64 |-> LinkStats64]
=============================================================================
