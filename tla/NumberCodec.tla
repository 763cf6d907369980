---------------------------- MODULE NumberCodec ----------------------------
(***************************************************************************)
(* A number of a message that the crate shows as an enumeration: read from *)
(* the kernel or chosen by the application, emitted, read back, emitted    *)
(* again.  A value is <<variant>> or <<"Other", number>>.                  *)
(***************************************************************************)
EXTENDS NumberTables, FiniteSets, TLC

CONSTANT MaxTrips   \* emissions of one value

VARIABLES
  enum,     \* the enumeration, or the field that carries one
  origin,   \* <<"kernel", number>> or <<"application", value>>
  wire,     \* the number in the message
  value,    \* the value of the enumeration
  trips,    \* emissions so far
  phase     \* "received" (wire is new) or "built" (value is new)

vars == <<enum, origin, wire, value, trips, phase>>

(* The numbers of an integer type.  TLC has no integer above 2^31 - 1, so  *)
(* u32 ends there as well.                                                 *)
u8 == 0 .. 255
u16 == 0 .. 65535
u32 == 0 .. 2147483647
i32 == -2 .. 2147483647

(* An enumeration: the arms of both directions, the variant for a number   *)
(* without an arm, the numbers it is made of, the numbers of its field.    *)
Number(from, into, rest, numbers, field) ==
  [from |-> from, into |-> into, rest |-> rest, numbers |-> numbers, field |-> field]

Open(from, into, numbers) == Number(from, into, "Other", numbers, numbers)

Numbers_u8 ==
  [AddressScope |-> Open(AddressScope_from, AddressScope_into, u8),
   AddressFamily |-> Open(AddressFamily_from, AddressFamily_into, u8),
   BondMode |-> Open(BondMode_from, BondMode_into, u8),
   BondPortState |-> Open(BondPortState_from, BondPortState_into, u8),
   MiiStatus |-> Open(MiiStatus_from, MiiStatus_into, u8),
   BridgePortState |-> Open(BridgePortState_from, BridgePortState_into, u8),
   BridgePortMulticastRouter |->
     Open(BridgePortMulticastRouter_from, BridgePortMulticastRouter_into, u8),
   HsrProtocol |-> Open(HsrProtocol_from, HsrProtocol_into, u8),
   MacSecValidate |-> Open(MacSecValidate_from, MacSecValidate_into, u8),
   MacSecOffload |-> Open(MacSecOffload_from, MacSecOffload_into, u8),
   State |-> Open(State_from, State_into, u8),
   XdpAttached |-> Open(XdpAttached_from, XdpAttached_into, u8),
   RouteProtocol |-> Open(RouteProtocol_from, RouteProtocol_into, u8),
   RouteScope |-> Open(RouteScope_from, RouteScope_into, u8),
   RouteType |-> Open(RouteType_from, RouteType_into, u8),
   RouteMplsTtlPropagation |->
     Open(RouteMplsTtlPropagation_from, RouteMplsTtlPropagation_into, u8),
   RoutePreference |-> Open(RoutePreference_from, RoutePreference_into, u8),
   RuleAction |-> Open(RuleAction_from, RuleAction_into, u8)]

Numbers_wider ==
  [IpVlanMode |-> Open(IpVlanMode_from, IpVlanMode_into, u16),
   NeighbourState |-> Open(NeighbourState_from, NeighbourState_into, u16),
   RouteLwEnCapType |-> Open(RouteLwEnCapType_from, RouteLwEnCapType_into, u16),
   LinkEvent |-> Open(LinkEvent_from, LinkEvent_into, u32),
   LinkExtentMask |-> Open(LinkExtentMask_from, LinkExtentMask_into, u32),
   MacVlanMode |-> Open(MacVlanMode_from, MacVlanMode_into, u32),
   VfLinkState |-> Open(VfLinkState_from, VfLinkState_into, u32),
   Seg6IpTunnelMode |-> Open(Seg6IpTunnelMode_from, Seg6IpTunnelMode_into, u32),
   Seg6LocalAction |-> Open(Seg6LocalAction_from, Seg6LocalAction_into, u32),
   Seg6LocalFlavorOps |-> Open(Seg6LocalFlavorOps_from, Seg6LocalFlavorOps_into, u32),
   TcActionType |-> Open(TcActionType_from, TcActionType_into, i32),
   TcMirrorActionType |-> Open(TcMirrorActionType_from, TcMirrorActionType_into, i32)]

(* The enumerations without Other.                                         *)
LinkLayerType == Number(LinkLayerType_from, LinkLayerType_into, "Void", u16, u16)

VlanProtocol == Number(VlanProtocol_from, VlanProtocol_into, "Ieee8021Q", u16, u16)

(* FRA_IP_PROTO of a rule: one byte for an enumeration of i32.             *)
IpProtocol == Number(IpProtocol_from, IpProtocol_into, "Other", i32, u8)

(* The family of RTA_VIA: two bytes for an enumeration of u8.              *)
RouteVia == Number(AddressFamily_from, AddressFamily_into, "Other", u8, u16)

Numbers ==
  Numbers_u8 @@ Numbers_wider
    @@ [LinkLayerType |-> LinkLayerType, VlanProtocol |-> VlanProtocol,
        IpProtocol |-> IpProtocol, RouteVia |-> RouteVia]

-----------------------------------------------------------------------------
(* The number in the type of another width: "as u8" keeps the low byte,    *)
(* any other conversion here widens.                                       *)
Convert(n, to) == IF n \in to THEN n ELSE n % 256

(* The value for a number: the first arm that matches, or what stands for  *)
(* the rest.                                                               *)
FromNumber(e, n) ==
  LET arms == {k \in DOMAIN e.from : e.from[k][1] = n}
  IN IF arms # {} THEN <<e.from[CHOOSE k \in arms : \A j \in arms : k <= j][2]>>
     ELSE IF e.rest = "Other" THEN <<"Other", n>>
     ELSE <<e.rest>>

(* The number for a value.                                                 *)
ToNumber(e, v) == IF v[1] = "Other" THEN v[2] ELSE e.into[v[1]]

(* What to try: every number of a byte, every number with a name and the   *)
(* one after it, one below 0 and the largest, and 256 more than a named    *)
(* number where it fits.                                                   *)
Named(e) == {e.from[k][1] : k \in DOMAIN e.from} \union {e.into[v] : v \in DOMAIN e.into}

Tried(e, numbers) ==
  {n \in Named(e) \union {n + 1 : n \in Named(e)} \union {n + 256 : n \in Named(e)}
           \union u8 \union {-2, 65535, 2147483647} : n \in numbers}

Init ==
  /\ enum \in DOMAIN Numbers
  /\ trips = 0
  /\ LET e == Numbers[enum]
     IN \/ \E n \in Tried(e, e.field) :
             /\ origin = <<"kernel", n>>
             /\ wire = n
             /\ value = <<>>
             /\ phase = "received"
        \/ \E v \in {<<name>> : name \in DOMAIN e.into}
                 \union (IF e.rest = "Other" THEN {<<"Other", n>> : n \in Tried(e, e.numbers)}
                                             ELSE {}) :
             /\ origin = <<"application", v>>
             /\ value = v
             /\ wire = 0
             /\ phase = "built"

Parse ==
  /\ phase = "received"
  /\ value' = LET e == Numbers[enum] IN FromNumber(e, Convert(wire, e.numbers))
  /\ phase' = "built"
  /\ UNCHANGED <<enum, origin, wire, trips>>

Emit ==
  /\ phase = "built"
  /\ trips < MaxTrips
  /\ wire' = LET e == Numbers[enum] IN Convert(ToNumber(e, value), e.field)
  /\ trips' = trips + 1
  /\ phase' = "received"
  /\ UNCHANGED <<enum, origin, value>>

Next == Parse \/ Emit

Spec == Init /\ [][Next]_vars

-----------------------------------------------------------------------------
(* A value is a variant of its enumeration and a number fits its field.    *)
TypeOK ==
  /\ enum \in DOMAIN Numbers
  /\ wire \in Numbers[enum].field
  /\ \/ value = <<>> /\ phase = "received" /\ trips = 0
     \/ Len(value) = 1 /\ value[1] \in DOMAIN Numbers[enum].into
     \/ Len(value) = 2 /\ value[1] = "Other" /\ Numbers[enum].rest = "Other"
        /\ value[2] \in Numbers[enum].numbers
  /\ trips \in 0 .. MaxTrips

(* The numbers that the crate does not send back as they came.             *)
SentBack(n) ==
  IF enum = "LinkLayerType" /\ n \notin Named(Numbers[enum]) THEN 65535
  ELSE IF enum = "VlanProtocol" /\ n \notin Named(Numbers[enum]) THEN 33024
  ELSE IF enum = "RouteVia" THEN n % 256
  ELSE n

(* A number of the kernel is sent back as it came, on every trip, with a   *)
(* name or without: the two match expressions of an enumeration agree.  A  *)
(* link layer type or a VLAN protocol without a name becomes Void and      *)
(* 802.1Q, and the high byte of the family in RTA_VIA is lost.             *)
Resent ==
  (origin[1] = "kernel" /\ trips > 0) => wire = SentBack(origin[2])

(* The families that share their number with one of an earlier arm.        *)
Aliases == IF enum \in {"AddressFamily", "RouteVia"} THEN {"Local", "Route"} ELSE {}

(* The names that the two match expressions give to a number.              *)
NamesOf(e, n) == {v \in DOMAIN e.into : e.into[v] = n} \ Aliases

ReadBack(v) ==
  LET e == Numbers[enum]
      n == IF enum = "IpProtocol" THEN ToNumber(e, v) % 256 ELSE ToNumber(e, v)
  IN IF v[1] # "Other" /\ v[1] \notin Aliases /\ n = ToNumber(e, v) THEN v
     ELSE IF NamesOf(e, n) # {} THEN <<CHOOSE name \in NamesOf(e, n) : TRUE>>
     ELSE <<"Other", n>>

(* A variant that the application chose is the one its message is read     *)
(* back as, on every trip.  The exceptions: Local is read back as Unix and *)
(* Route as Netlink, an Other with the number of a name as that name, and  *)
(* a protocol above 255 as the one of its low byte: Mptcp, 262, as Tcp.    *)
RoundTrip ==
  (origin[1] = "application" /\ phase = "built" /\ trips > 0) =>
    value = ReadBack(origin[2])
=============================================================================
