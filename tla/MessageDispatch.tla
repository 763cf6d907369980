--------------------------- MODULE MessageDispatch ---------------------------
(***************************************************************************)
(* RouteNetlinkMessage: from the type in the netlink header and the bytes  *)
(* behind it to one of 49 enum variants, and back.                         *)
(*                                                                         *)
(* Deserialisation is one match on the message type; each arm checks the   *)
(* length of its header, reads the header, runs the attribute loop and     *)
(* picks the variant.  Serialisation is two independent matches on the     *)
(* variant: message_type() for the netlink header and emit() for the       *)
(* bytes.  Nothing but these tables ties the two directions together.      *)
(*                                                                         *)
(* iproute2 sends dump requests with a truncated header; three arms accept *)
(* those.  A message is abstracted to its variant, the family byte that    *)
(* every header starts with, whether the other header fields were read or  *)
(* are the defaults, and whether it carries attributes.                    *)
(***************************************************************************)
EXTENDS Naturals, FiniteSets, Functions

CONSTANTS
  MaxLen,     \* longest message body considered, in bytes
  Families,   \* address family bytes
  MaxTrips    \* how often a message goes over the wire

ASSUME MaxLenAssumption == MaxLen \in Nat
ASSUME MaxTripsAssumption == MaxTrips \in Nat

RTM ==
  [NEWLINK |-> 16, DELLINK |-> 17, GETLINK |-> 18, SETLINK |-> 19,
   NEWADDR |-> 20, DELADDR |-> 21, GETADDR |-> 22,
   NEWROUTE |-> 24, DELROUTE |-> 25, GETROUTE |-> 26,
   NEWNEIGH |-> 28, DELNEIGH |-> 29, GETNEIGH |-> 30,
   NEWRULE |-> 32, DELRULE |-> 33, GETRULE |-> 34,
   NEWQDISC |-> 36, DELQDISC |-> 37, GETQDISC |-> 38,
   NEWTCLASS |-> 40, DELTCLASS |-> 41, GETTCLASS |-> 42,
   NEWTFILTER |-> 44, DELTFILTER |-> 45, GETTFILTER |-> 46,
   NEWACTION |-> 48, DELACTION |-> 49, GETACTION |-> 50,
   NEWPREFIX |-> 52,
   NEWNEIGHTBL |-> 64, GETNEIGHTBL |-> 66, SETNEIGHTBL |-> 67,
   NEWMDB |-> 84, DELMDB |-> 85, GETMDB |-> 86,
   NEWTUNNEL |-> 120, DELTUNNEL |-> 121, GETTUNNEL |-> 122,
   NEWNSID |-> 88, DELNSID |-> 89, GETNSID |-> 90,
   NEWCHAIN |-> 100, DELCHAIN |-> 101, GETCHAIN |-> 102,
   NEWNEXTHOP |-> 104, DELNEXTHOP |-> 105, GETNEXTHOP |-> 106,
   NEWLINKPROP |-> 108, DELLINKPROP |-> 109]

(* fn message_type: what goes into the netlink header for a variant.       *)
MessageType ==
  [NewLink |-> RTM.NEWLINK, DelLink |-> RTM.DELLINK,
   GetLink |-> RTM.GETLINK, SetLink |-> RTM.SETLINK,
   NewLinkProp |-> RTM.NEWLINKPROP, DelLinkProp |-> RTM.DELLINKPROP,
   NewAddress |-> RTM.NEWADDR, DelAddress |-> RTM.DELADDR,
   GetAddress |-> RTM.GETADDR,
   GetNeighbour |-> RTM.GETNEIGH, NewNeighbour |-> RTM.NEWNEIGH,
   DelNeighbour |-> RTM.DELNEIGH,
   GetNeighbourTable |-> RTM.GETNEIGHTBL,
   NewNeighbourTable |-> RTM.NEWNEIGHTBL,
   SetNeighbourTable |-> RTM.SETNEIGHTBL,
   NewRoute |-> RTM.NEWROUTE, DelRoute |-> RTM.DELROUTE,
   GetRoute |-> RTM.GETROUTE,
   NewPrefix |-> RTM.NEWPREFIX,
   NewQueueDiscipline |-> RTM.NEWQDISC, DelQueueDiscipline |-> RTM.DELQDISC,
   GetQueueDiscipline |-> RTM.GETQDISC,
   NewTrafficClass |-> RTM.NEWTCLASS, DelTrafficClass |-> RTM.DELTCLASS,
   GetTrafficClass |-> RTM.GETTCLASS,
   NewTrafficFilter |-> RTM.NEWTFILTER, DelTrafficFilter |-> RTM.DELTFILTER,
   GetTrafficFilter |-> RTM.GETTFILTER,
   NewTrafficAction |-> RTM.NEWACTION, DelTrafficAction |-> RTM.DELACTION,
   GetTrafficAction |-> RTM.GETACTION,
   NewTrafficChain |-> RTM.NEWCHAIN, DelTrafficChain |-> RTM.DELCHAIN,
   GetTrafficChain |-> RTM.GETCHAIN,
   GetNsId |-> RTM.GETNSID, NewNsId |-> RTM.NEWNSID, DelNsId |-> RTM.DELNSID,
   GetRule |-> RTM.GETRULE, NewRule |-> RTM.NEWRULE, DelRule |-> RTM.DELRULE,
   NewNexthop |-> RTM.NEWNEXTHOP, DelNexthop |-> RTM.DELNEXTHOP,
   GetNexthop |-> RTM.GETNEXTHOP,
   NewMdb |-> RTM.NEWMDB, DelMdb |-> RTM.DELMDB, GetMdb |-> RTM.GETMDB,
   NewTunnel |-> RTM.NEWTUNNEL, DelTunnel |-> RTM.DELTUNNEL,
   GetTunnel |-> RTM.GETTUNNEL]

Variants == DOMAIN MessageType
-----------------------------------------------------------------------------
(* The arms of the match in parse_with_param.  An arm is the length its    *)
(* buffer type asks for, the message lengths its iproute2 fallback takes   *)
(* and the one type it takes them for, and the inner match from types to   *)
(* variants.                                                               *)
NoFallback == [lens |-> {}, type |-> 0]

Arm(header, fallback, inner) ==
  [header |-> header, fallback |-> fallback, inner |-> inner]

LinkArm ==
  Arm(16, [lens |-> {4}, type |-> RTM.GETLINK],
      [NewLink |-> RTM.NEWLINK, GetLink |-> RTM.GETLINK,
       DelLink |-> RTM.DELLINK, SetLink |-> RTM.SETLINK])

AddressArm ==
  Arm(8, [lens |-> {4}, type |-> RTM.GETADDR],
      [NewAddress |-> RTM.NEWADDR, GetAddress |-> RTM.GETADDR,
       DelAddress |-> RTM.DELADDR])

NeighbourArm ==
  Arm(12, NoFallback,
      [GetNeighbour |-> RTM.GETNEIGH, NewNeighbour |-> RTM.NEWNEIGH,
       DelNeighbour |-> RTM.DELNEIGH])

NeighbourTableArm ==
  Arm(4, NoFallback,
      [GetNeighbourTable |-> RTM.GETNEIGHTBL,
       NewNeighbourTable |-> RTM.NEWNEIGHTBL,
       SetNeighbourTable |-> RTM.SETNEIGHTBL])

RouteArm ==
  Arm(12, [lens |-> {1, 4}, type |-> RTM.GETROUTE],
      [NewRoute |-> RTM.NEWROUTE, GetRoute |-> RTM.GETROUTE,
       DelRoute |-> RTM.DELROUTE])

PrefixArm == Arm(12, NoFallback, [NewPrefix |-> RTM.NEWPREFIX])

RuleArm ==
  Arm(12, NoFallback,
      [NewRule |-> RTM.NEWRULE, DelRule |-> RTM.DELRULE, GetRule |-> RTM.GETRULE])

TcArm ==
  Arm(20, NoFallback,
      [NewQueueDiscipline |-> RTM.NEWQDISC, DelQueueDiscipline |-> RTM.DELQDISC,
       GetQueueDiscipline |-> RTM.GETQDISC,
       NewTrafficClass |-> RTM.NEWTCLASS, DelTrafficClass |-> RTM.DELTCLASS,
       GetTrafficClass |-> RTM.GETTCLASS,
       NewTrafficFilter |-> RTM.NEWTFILTER, DelTrafficFilter |-> RTM.DELTFILTER,
       GetTrafficFilter |-> RTM.GETTFILTER,
       NewTrafficChain |-> RTM.NEWCHAIN, DelTrafficChain |-> RTM.DELCHAIN,
       GetTrafficChain |-> RTM.GETCHAIN])

TcActionArm ==
  Arm(4, NoFallback,
      [NewTrafficAction |-> RTM.NEWACTION, DelTrafficAction |-> RTM.DELACTION,
       GetTrafficAction |-> RTM.GETACTION])

(* Faulty: two variants of the inner match exchanged (RoundTrip).          *)
NsidArmExchanged ==
  Arm(4, NoFallback,
      [NewNsId |-> RTM.DELNSID, DelNsId |-> RTM.NEWNSID, GetNsId |-> RTM.GETNSID])

NsidArm ==
  Arm(4, NoFallback,
      [NewNsId |-> RTM.NEWNSID, DelNsId |-> RTM.DELNSID, GetNsId |-> RTM.GETNSID])

NexthopArm ==
  Arm(8, NoFallback,
      [NewNexthop |-> RTM.NEWNEXTHOP, DelNexthop |-> RTM.DELNEXTHOP,
       GetNexthop |-> RTM.GETNEXTHOP])

MdbArm ==
  Arm(8, NoFallback,
      [NewMdb |-> RTM.NEWMDB, DelMdb |-> RTM.DELMDB, GetMdb |-> RTM.GETMDB])

TunnelArm ==
  Arm(8, NoFallback,
      [NewTunnel |-> RTM.NEWTUNNEL, DelTunnel |-> RTM.DELTUNNEL,
       GetTunnel |-> RTM.GETTUNNEL])

Arms ==
  {LinkArm, AddressArm, NeighbourArm, NeighbourTableArm, RouteArm, PrefixArm,
   RuleArm, TcArm, TcActionArm, NsidArm, NexthopArm, MdbArm, TunnelArm}

Handled(type) == \E arm \in Arms : type \in Range(arm.inner)

ArmOf(type) == CHOOSE arm \in Arms : type \in Range(arm.inner)

(* Faulty: a type of the outer match that the inner one forgets (TypeOK).  *)
VariantOfForgetful(type) ==
  LET inner == ArmOf(type).inner
  IN  IF type = RTM.SETLINK THEN "unreachable" ELSE CHOOSE v \in DOMAIN inner : inner[v] = type

(* The arms' own match on the type.                                        *)
VariantOf(type) ==
  LET inner == ArmOf(type).inner IN CHOOSE v \in DOMAIN inner : inner[v] = type

(* Faulty: emit() forgets the change mask of a link header (Stable).       *)
HeaderLenTruncated(variant) ==
  IF variant \in {"NewLinkProp", "DelLinkProp", "NewLink", "GetLink"}
  THEN 12
  ELSE (CHOOSE arm \in Arms : variant \in DOMAIN arm.inner).header

(* The header behind each variant's emit(): the LinkMessage, AddressMessage,*)
(* ... a variant wraps, as the enum declares it.                           *)
HeaderLen(variant) ==
  IF variant \in {"NewLinkProp", "DelLinkProp"}
  THEN LinkArm.header
  ELSE (CHOOSE arm \in Arms : variant \in DOMAIN arm.inner).header
-----------------------------------------------------------------------------
VARIABLES
  wire,    \* what is on the wire, or NoBytes: [type, len, family, attrsOk]
  msg,     \* the Rust value, or NoMessage: [variant, family, fields, attrs]
  built,   \* the value a caller started from, or NoMessage
  seen,    \* the value the first deserialisation returned, or NoMessage
  trips,   \* serialisations so far
  status   \* "wire", "message" or "err"

vars == <<wire, msg, built, seen, trips, status>>

NoBytes == [type |-> 0, len |-> 0, family |-> 0, attrsOk |-> FALSE]
NoMessage == [variant |-> "None", family |-> 0, fields |-> "None", attrs |-> FALSE]

(* fields: "set" for header fields that carry information, "default" for   *)
(* those of X::default().                                                  *)
UnusedTypes == {0, 23, 110}
Bytes ==
  [type : Range(RTM) \cup UnusedTypes, len : 0 .. MaxLen, family : Families,
   attrsOk : BOOLEAN]
Messages ==
  [variant : Variants, family : Families, fields : {"set", "default"},
   attrs : BOOLEAN]

Init ==
  /\ \/ wire \in Bytes /\ msg = NoMessage /\ built = NoMessage /\ status = "wire"
     \/ msg \in Messages /\ built = msg /\ wire = NoBytes /\ status = "message"
  /\ seen = NoMessage
  /\ trips = 0

Returned(m) ==
  /\ msg' = m
  /\ seen' = IF seen = NoMessage THEN m ELSE seen
  /\ status' = "message"
  /\ UNCHANGED <<wire, built, trips>>

Failed ==
  /\ status' = "err"
  /\ UNCHANGED <<wire, msg, built, seen, trips>>

(* TunnelMessage::parse skips what is not an entry it can read, where the  *)
(* loops of all other messages return Err on an attribute they cannot read.*)
Lenient(type) == ArmOf(type) = TunnelArm

(* X::parse on a buffer new_checked accepted: header, then attributes.     *)
(* Header fields and attributes that were serialised are read back as they *)
(* were written.                                                           *)
ParseFull ==
  /\ status = "wire"
  /\ Handled(wire.type)
  /\ wire.len >= ArmOf(wire.type).header
  /\ wire.attrsOk \/ wire.len = ArmOf(wire.type).header \/ Lenient(wire.type)
  /\ \E fields \in {"set", "default"}, attrs \in BOOLEAN :
       /\ trips > 0 => fields = msg.fields
       /\ attrs => wire.len > ArmOf(wire.type).header
       /\ (trips > 0 \/ ~Lenient(wire.type)) =>
            (wire.len > ArmOf(wire.type).header => attrs)
       /\ Returned([variant |-> VariantOf(wire.type), family |-> wire.family,
                    fields |-> fields, attrs |-> attrs])

(* The attribute loop returned Err.                                        *)
RefuseAttributes ==
  /\ status = "wire"
  /\ Handled(wire.type)
  /\ ~Lenient(wire.type)
  /\ wire.len > ArmOf(wire.type).header
  /\ ~wire.attrsOk
  /\ Failed

(* Faulty: the fallback for any type of the arm (ShortIsBareGet).          *)
ParseShortAny ==
  /\ status = "wire"
  /\ Handled(wire.type)
  /\ wire.len < ArmOf(wire.type).header
  /\ wire.len \in ArmOf(wire.type).fallback.lens
  /\ Returned([variant |-> VariantOf(wire.type), family |-> wire.family,
               fields |-> "default", attrs |-> FALSE])

(* The HACK: X::default() with the family from the first byte.             *)
ParseShort ==
  /\ status = "wire"
  /\ Handled(wire.type)
  /\ wire.len < ArmOf(wire.type).header
  /\ wire.len \in ArmOf(wire.type).fallback.lens
  /\ wire.type = ArmOf(wire.type).fallback.type
  /\ Returned([variant |-> VariantOf(wire.type), family |-> wire.family,
               fields |-> "default", attrs |-> FALSE])

RefuseShort ==
  /\ status = "wire"
  /\ Handled(wire.type)
  /\ wire.len < ArmOf(wire.type).header
  /\ ~ /\ wire.len \in ArmOf(wire.type).fallback.lens
       /\ wire.type = ArmOf(wire.type).fallback.type
  /\ Failed

UnknownType ==
  /\ status = "wire"
  /\ ~Handled(wire.type)
  /\ Failed

(* serialize(): header and attributes in full, under message_type().       *)
Serialize ==
  /\ status = "message"
  /\ trips < MaxTrips
  /\ \E attrBytes \in IF msg.attrs THEN {4, 8} ELSE {0} :
       wire' = [type |-> MessageType[msg.variant],
                len |-> HeaderLen(msg.variant) + attrBytes,
                family |-> msg.family, attrsOk |-> TRUE]
  /\ status' = "wire"
  /\ trips' = trips + 1
  /\ UNCHANGED <<msg, built, seen>>

Next ==
  \/ ParseFull
  \/ RefuseAttributes
  \/ ParseShort
  \/ RefuseShort
  \/ UnknownType
  \/ Serialize

Spec == Init /\ [][Next]_vars
-----------------------------------------------------------------------------
(* Every message is one of the 49 variants with a family its header holds: *)
(* the arm that took a type has a variant for it in its own match (the     *)
(* code ends these in unreachable!()).                                     *)
TypeOK ==
  /\ wire \in [type : Nat, len : Nat, family : Families \cup {0}, attrsOk : BOOLEAN]
  /\ msg \in Messages \cup {NoMessage}
  /\ built \in Messages \cup {NoMessage}
  /\ seen \in Messages \cup {NoMessage}
  /\ trips \in 0 .. MaxTrips
  /\ status \in {"wire", "message", "err"}

(* The two variants message_type() and emit() know and parse_with_param    *)
(* has no arm for.                                                         *)
WriteOnly == {"NewLinkProp", "DelLinkProp"}

(* What a caller serialises comes back as the same value: the type table,  *)
(* the arms, their inner matches and the header lengths agree.  The only   *)
(* values that do not come back are the RTM_{NEW,DEL}LINKPROP ones.        *)
RoundTrip ==
  (built # NoMessage /\ trips > 0) =>
    /\ status = "message" => msg = built
    /\ status = "err" => built.variant \in WriteOnly

(* Whatever was accepted once, truncated requests included, serialises to  *)
(* bytes that are accepted again and mean the same.                        *)
Stable ==
  (seen # NoMessage) => (status # "err" /\ msg = seen)

(* A message shorter than its header is only ever taken for a dump         *)
(* request, and nothing beyond its first byte is made up from the bytes    *)
(* that are missing.                                                       *)
ShortIsBareGet ==
  (status = "message" /\ trips = 0 /\ wire # NoBytes) =>
    (wire.len < HeaderLen(msg.variant) =>
       /\ msg.variant \in {"GetLink", "GetAddress", "GetRoute"}
       /\ msg.fields = "default" /\ ~msg.attrs
       /\ msg.family = wire.family)
=============================================================================
