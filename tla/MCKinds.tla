------------------------------- MODULE MCKinds -------------------------------
(***************************************************************************)
(* The four decoders in which the meaning of one attribute depends on      *)
(* another one of the same list, side by side: IFLA_LINKINFO, route        *)
(* encapsulations, traffic control messages and actions.  They share the   *)
(* question asked of them, whether a value is decoded under the right kind *)
(* wherever the kind stands, and no state: `part` says whose behaviour     *)
(* this is, and the variables that decoder does not have stay Unset.       *)
(* Those with a proof module are instantiated together with it, so that    *)
(* MCKinds_proofs can cite what it establishes.                            *)
(***************************************************************************)
EXTENDS Integers

CONSTANTS
  LinkNames, PortNames, MaxInfos,          \* LinkInfo, long lists
  AllNames, AllPortNames, MaxOfAll,        \* LinkInfo, every kind
  Types, MaxRouteAttrs, MaxInHop,          \* RouteEncap
  TcNames, MaxTcAttrs,                     \* TcMessage
  ActionKinds, Tabs, MaxAttrs, MaxInPair,  \* TcAction
  MaxTrips                                 \* emissions of one list

ASSUME BoundsAssumption ==
  {MaxInfos, MaxOfAll, MaxRouteAttrs, MaxInHop, MaxTcAttrs, MaxAttrs, MaxInPair,
   MaxTrips} \subseteq Nat

VARIABLES
  part, wire, idx, link_info_kind, link_info_port_kind, nlas, encap_type, kind, kinds,
  attributes, actions, built, received, seen, trips, status

Info == INSTANCE LinkInfo_proofs WITH Names <- LinkNames
All == INSTANCE LinkInfo_proofs WITH
         Names <- AllNames, PortNames <- AllPortNames, MaxInfos <- MaxOfAll
Encap == INSTANCE RouteEncap WITH MaxAttrs <- MaxRouteAttrs
Tc == INSTANCE TcMessage_proofs WITH Names <- TcNames, MaxAttrs <- MaxTcAttrs
Action == INSTANCE TcAction_proofs WITH Kinds <- ActionKinds

(* What the proofs ask of the constants: the kinds the model gives names   *)
(* to are none of the words it uses for something else, and table ids are  *)
(* those an attribute type can carry.                                      *)
ASSUME NamesAssumption ==
  /\ Info!NamesGiven /\ All!NamesGiven /\ Action!KindsGiven
  /\ Types \cap {"short", "broken", "Other"} = {}
ASSUME TabsAssumption == Tabs \subseteq Action!TabIds

Unset == "unset"

NoInfo == link_info_kind = Unset /\ link_info_port_kind = Unset /\ nlas = Unset
NoTrips == trips = Unset
NoActions == kinds = Unset /\ actions = Unset /\ received = Unset

infoVars == <<link_info_kind, link_info_port_kind, nlas>>
actionVars == <<kinds, actions, received>>

Init ==
  \/ /\ part = "link info" /\ Info!Init
     /\ encap_type = Unset /\ kind = Unset /\ attributes = Unset /\ NoTrips /\ NoActions
  \/ /\ part = "all kinds" /\ All!Init
     /\ encap_type = Unset /\ kind = Unset /\ attributes = Unset /\ NoTrips /\ NoActions
  \/ /\ part = "encap" /\ Encap!Init
     /\ kind = Unset /\ NoInfo /\ NoTrips /\ NoActions
  \/ /\ part = "tc" /\ Tc!Init
     /\ encap_type = Unset /\ NoInfo /\ NoActions
  \/ /\ part = "action" /\ Action!Init
     /\ encap_type = Unset /\ kind = Unset /\ NoInfo

Next ==
  \/ /\ part = "link info" /\ Info!Next
     /\ UNCHANGED <<part, encap_type, kind, attributes, trips, actionVars>>
  \/ /\ part = "all kinds" /\ All!Next
     /\ UNCHANGED <<part, encap_type, kind, attributes, trips, actionVars>>
  \/ /\ part = "encap" /\ Encap!Next
     /\ UNCHANGED <<part, kind, infoVars, trips, actionVars>>
  \/ /\ part = "tc" /\ Tc!Next
     /\ UNCHANGED <<part, encap_type, infoVars, actionVars>>
  \/ /\ part = "action" /\ Action!Next
     /\ UNCHANGED <<part, encap_type, kind, infoVars>>

Spec ==
  Init /\ [][Next]_<<part, wire, idx, infoVars, encap_type, kind, attributes, actionVars,
                     built, seen, trips, status>>
-----------------------------------------------------------------------------
(* Every iterator stays within its list, and only kinds that parsed are    *)
(* remembered.                                                             *)
TypeOK ==
  /\ part = "link info" => Info!TypeOK
  /\ part = "all kinds" => All!TypeOK
  /\ part = "encap" => Encap!TypeOK
  /\ part = "tc" => Tc!TypeOK
  /\ part = "action" => Action!TypeOK

(* What depends on a kind has been decoded under the right one:            *)
(* IFLA_INFO_DATA under the nearest kind in front of it and port data      *)
(* under a port kind of its own (VecLinkInfo::parse); RTA_ENCAP under the  *)
(* type the message declares, wherever in it the type stands, that of a    *)
(* next hop too (RouteMessage::parse); TCA_OPTIONS and statistics under the kind in     *)
(* front of them (TcMessage::parse); the options of an action under the    *)
(* kind of the same action (TcAction::parse).                              *)
UnderKind ==
  /\ part = "link info" => Info!UnderKind
  /\ part = "all kinds" => All!UnderKind
  /\ part = "encap" => Encap!UnderKind
  /\ part = "tc" => Tc!UnderKind
  /\ part = "action" => Action!UnderKind

(* An action with no kind, or with two, is never returned, nor the message *)
(* it is in (TcAction::parse).                                             *)
OneKind == part = "action" => Action!OneKind

(* A list whose payloads go with the kinds it names is never refused and   *)
(* comes back as the caller built it, but for a TCA_DUMP_INVISIBLE that is *)
(* false and for TCA_OPTIONS under a kind without a parser, which come     *)
(* back inside one more TCA_OPTIONS with every trip.                       *)
RoundTrip ==
  /\ part = "link info" => Info!RoundTrip
  /\ part = "all kinds" => All!RoundTrip
  /\ part = "encap" => Encap!RoundTrip
  /\ part = "tc" => Tc!RoundTrip
  /\ part = "action" => Action!RoundTrip

(* What has been decoded once, out of any order of attributes and from any *)
(* mixture of kinds, is emitted to bytes that decode to the same, but for  *)
(* TCA_OPTIONS left undecoded: every trip wraps these once more.           *)
Stable ==
  /\ part = "link info" => Info!Stable
  /\ part = "all kinds" => All!Stable
  /\ part = "encap" => Encap!Stable
  /\ part = "tc" => Tc!Stable
  /\ part = "action" => Action!Stable
=============================================================================
