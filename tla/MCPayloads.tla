------------------------------ MODULE MCPayloads ------------------------------
(***************************************************************************)
(* The payloads that the crate takes apart by hand, with loops, offsets    *)
(* and counts of its own, side by side: SRv6 headers, MPLS label stacks,   *)
(* the keys of a u32 selector, MDB entries, tunnel VNIs and the targets of *)
(* a bond.  They share no state: `part` says whose behaviour this is, and  *)
(* the variables that codec does not have stay Unset.                      *)
(***************************************************************************)
EXTENDS Integers

CONSTANTS
  Lefts, MaxWords, MaxSegments, ManySegments, MaxHeaders,   \* Seg6
  LabelBits, TcBits, ClassBits, TtlBits, MaxStack,          \* MplsLabel
  Keys, Stale, MaxKeys,                                     \* U32Selector
  Vals, MaxEattrs, MaxInfos, MaxAttrs,                      \* MdbEntries
  Vnis, MaxVnis, MaxEntries, MaxInner,                      \* TunnelMessage
  Addresses, Indexes, MaxTargets,                           \* BondTargets
  MaxTrips                                                  \* emissions of one value

ASSUME BoundsAssumption ==
  /\ {MaxWords, MaxSegments, ManySegments, MaxHeaders, MaxStack, MaxEattrs, MaxInfos,
      MaxAttrs, MaxVnis, MaxEntries, MaxInner, MaxTargets} \subseteq Nat
  /\ MaxInfos > 0
ASSUME MaxTripsAssumption == MaxTrips \in Nat \ {0}
ASSUME LeftsAssumption == Lefts \subseteq 0 .. 255 /\ Lefts # {}
ASSUME WidthAssumption ==
  {LabelBits, TcBits, ClassBits, TtlBits} \subseteq Nat /\ TcBits <= ClassBits
ASSUME KeysAssumption == Stale \notin Keys /\ MaxKeys \in 1 .. 255
ASSUME ValsAssumption == "wrong" \notin Vals /\ "None" \notin Vals /\ Vals # {}
ASSUME TargetsAssumption == Indexes \subseteq Nat /\ Addresses # {}

VARIABLES
  part,
  at, built, first, origin, status, tail, trips, wire, words,   \* of several codecs
  form, build, hdrs, tailTlv, emitted,                          \* of Seg6
  labels, i,                                                    \* of MplsLabel
  nkeys, keys, count, slots,                                    \* of U32Selector
  msg, level, source, dst, vni, out,                            \* of MdbEntries
  vnis, received, off, in, seen,                                \* of TunnelMessage
  family, addrs                                                 \* of BondTargets

Srv6 == INSTANCE Seg6
Mpls == INSTANCE MplsLabel
U32 == INSTANCE U32Selector
Mdb == INSTANCE MdbEntries
Tunnel == INSTANCE TunnelMessage
Bond == INSTANCE BondTargets

seg6Vars == <<form, build, hdrs, tailTlv, emitted>>
mplsVars == <<labels, i>>
u32Vars == <<nkeys, keys, count, slots>>
mdbVars == <<msg, level, source, dst, vni, out>>
tunnelVars == <<vnis, received, off, in, seen>>
bondVars == <<family, addrs>>
vars == <<part, at, built, first, origin, status, tail, trips, wire, words, seg6Vars,
          mplsVars, u32Vars, mdbVars, tunnelVars, bondVars>>

Unset == "unset"

NoSeg6 ==
  form = Unset /\ build = Unset /\ hdrs = Unset /\ tailTlv = Unset /\ emitted = Unset
NoMpls == labels = Unset /\ i = Unset
NoU32 == nkeys = Unset /\ keys = Unset /\ count = Unset /\ slots = Unset
NoMdb ==
  /\ msg = Unset /\ level = Unset /\ source = Unset /\ dst = Unset /\ vni = Unset
  /\ out = Unset
NoTunnel ==
  vnis = Unset /\ received = Unset /\ off = Unset /\ in = Unset /\ seen = Unset
NoBond == family = Unset /\ addrs = Unset
NoWords == origin = Unset /\ tail = Unset /\ words = Unset

Init ==
  \/ /\ part = "seg6" /\ Srv6!Init
     /\ at = Unset /\ built = Unset /\ wire = Unset
     /\ NoMpls /\ NoU32 /\ NoMdb /\ NoTunnel /\ NoBond
  \/ /\ part = "mpls" /\ Mpls!Init
     /\ at = Unset /\ first = Unset /\ trips = Unset /\ wire = Unset
     /\ NoSeg6 /\ NoU32 /\ NoMdb /\ NoTunnel /\ NoBond
  \/ /\ part = "u32" /\ U32!Init
     /\ built = Unset /\ wire = Unset /\ NoWords
     /\ NoSeg6 /\ NoMpls /\ NoMdb /\ NoTunnel /\ NoBond
  \/ /\ part = "mdb" /\ Mdb!Init
     /\ built = Unset /\ first = Unset /\ status = Unset /\ trips = Unset /\ wire = Unset
     /\ NoWords /\ NoSeg6 /\ NoMpls /\ NoU32 /\ NoTunnel /\ NoBond
  \/ /\ part = "tunnel" /\ Tunnel!Init
     /\ first = Unset /\ NoWords
     /\ NoSeg6 /\ NoMpls /\ NoU32 /\ NoMdb /\ NoBond
  \/ /\ part = "bond" /\ Bond!Init
     /\ built = Unset /\ NoWords
     /\ NoSeg6 /\ NoMpls /\ NoU32 /\ NoMdb /\ NoTunnel

Next ==
  \/ /\ part = "seg6" /\ Srv6!Next
     /\ UNCHANGED <<part, at, built, wire>>
     /\ UNCHANGED <<mplsVars, u32Vars, mdbVars, tunnelVars, bondVars>>
  \/ /\ part = "mpls" /\ Mpls!Next
     /\ UNCHANGED <<part, at, first, trips, wire>>
     /\ UNCHANGED <<seg6Vars, u32Vars, mdbVars, tunnelVars, bondVars>>
  \/ /\ part = "u32" /\ U32!Next
     /\ UNCHANGED <<part, built, origin, tail, wire, words>>
     /\ UNCHANGED <<seg6Vars, mplsVars, mdbVars, tunnelVars, bondVars>>
  \/ /\ part = "mdb" /\ Mdb!Next
     /\ UNCHANGED <<part, built, first, origin, status, tail, trips, wire, words>>
     /\ UNCHANGED <<seg6Vars, mplsVars, u32Vars, tunnelVars, bondVars>>
  \/ /\ part = "tunnel" /\ Tunnel!Next
     /\ UNCHANGED <<part, first, origin, tail, words>>
     /\ UNCHANGED <<seg6Vars, mplsVars, u32Vars, mdbVars, bondVars>>
  \/ /\ part = "bond" /\ Bond!Next
     /\ UNCHANGED <<part, built, origin, tail, words>>
     /\ UNCHANGED <<seg6Vars, mplsVars, u32Vars, mdbVars, tunnelVars>>

(* One thread and no call that blocks: a loop that can go on does.         *)
FairSpec == Init /\ [][Next]_vars /\ WF_vars(Next)
-----------------------------------------------------------------------------
(* Loops stay inside their lists and offsets inside their buffers, and     *)
(* every field has the width of its Rust type.                             *)
TypeOK ==
  /\ part = "seg6" => Srv6!TypeOK
  /\ part = "mpls" => Mpls!TypeOK
  /\ part = "u32" => U32!TypeOK
  /\ part = "mdb" => Mdb!TypeOK
  /\ part = "tunnel" => Tunnel!TypeOK
  /\ part = "bond" => Bond!TypeOK

(* What a caller built comes back as it was: an SRv6 header whose segments *)
(* are as many as it says, an MPLS label in range, a list of VNIs, the     *)
(* targets of a bond.                                                      *)
RoundTrip ==
  /\ part = "seg6" => Srv6!RoundTrip
  /\ part = "mpls" => Mpls!RoundTrip
  /\ part = "tunnel" => Tunnel!RoundTrip
  /\ part = "bond" => Bond!RoundTrip

(* The loops return what can be said without loops of the message they     *)
(* read: the announced segments, unless u8 has wrapped; the keys a         *)
(* selector counts; an entry for every readable MDB info, from its own     *)
(* attributes; every start VNI in front of anything malformed; the targets *)
(* of the right family, in order.                                          *)
ReadAsSent ==
  /\ part = "seg6" => Srv6!ReadAsSent
  /\ part = "u32" => U32!ReadAsSent
  /\ part = "mdb" => Mdb!ReadAsSent
  /\ part = "tunnel" => Tunnel!ReadAsSent
  /\ part = "bond" => Bond!ReadAsSent

(* What the kernel sent is sent on as it came, but for the losses named    *)
(* here: an SRv6 header loses its HMAC and nothing else, on any trip; a    *)
(* label stack no bit; a tunnel message says the same VNIs; the index of a *)
(* bond's target survives exactly in a list without gaps and without       *)
(* foreign members.                                                        *)
Resent ==
  /\ part = "seg6" => Srv6!Resent
  /\ part = "mpls" => Mpls!Resent
  /\ part = "tunnel" => Tunnel!Resent
  /\ part = "bond" => Bond!Resent

(* What a caller should not have built does bounded damage: of several     *)
(* SRv6 headers in a tunnel the decoder refuses an even number and makes   *)
(* one of an odd; a label or a traffic class that does not fit its bits    *)
(* spoils the label of its own stack entry.                                *)
DamageBounded ==
  /\ part = "seg6" => Srv6!DamageBounded
  /\ part = "mpls" => Mpls!DamageBounded

(* seg6.rs and cls_u32.rs panic where these modules say, and nowhere else: *)
(* not on what a careful caller built, and never on a second trip.         *)
PanicsKnown ==
  /\ part = "seg6" => Srv6!PanicsKnown
  /\ part = "u32" => U32!PanicsKnown

(* The three nested loops of parse_mdb_entries return, whatever the        *)
(* lengths in the message say.                                             *)
Ends == part = "mdb" => Mdb!Ends
=============================================================================
