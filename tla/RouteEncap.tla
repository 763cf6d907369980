------------------------------ MODULE RouteEncap ------------------------------
(***************************************************************************)
(* The attributes of a route message, as far as they depend on each other. *)
(* The bytes of RTA_ENCAP can only be decoded once RTA_ENCAP_TYPE is       *)
(* known, and the kernel sends the type after the encapsulation.  The      *)
(* decoder therefore walks the attributes twice: a first pass, which       *)
(* ignores errors, looks for the type; a second, strict one decodes every  *)
(* attribute under it.  The next hops of RTA_MULTIPATH carry attribute     *)
(* lists of their own, which are decoded under the same type.              *)
(*                                                                         *)
(* On the wire an attribute is [tag, is, hops]: for EncapType the type (or *)
(* "short", a value that is not two bytes long), for Encap the tunnel in   *)
(* whose layout its bytes are, for MultiPath the attribute lists of the    *)
(* next hops.  Decoded, Encap's `is` is the RouteLwTunnelEncap variant and *)
(* raw the layout of members that were kept as Other(DefaultNla).          *)
(***************************************************************************)
EXTENDS Integers, Sequences, SequencesExt

CONSTANTS
  Types,      \* RouteLwEnCapType values that occur
  MaxAttrs,   \* most attributes of a message
  MaxInHop    \* most attributes of a next hop

(* The tunnels RouteLwTunnelEncap::parse_with_param has a parser for.      *)
Decodable == {"Mpls", "Seg6", "Seg6Local"}

LwVariant(type) == IF type \in Decodable THEN type ELSE "Other"

VARIABLES
  wire,         \* the attributes on the wire
  idx,          \* the NlasIterator of the pass: next attribute to read
  encap_type,   \* the type found by the first pass, "None" until then
  attributes,   \* the Vec<RouteAttribute>
  built,        \* the list a caller started from, if any
  seen,         \* [wire, attributes] of the first decoding that returned
  status        \* "finding", "parsing", "value" or "err"

vars == <<wire, idx, encap_type, attributes, built, seen, status>>

Attr(tag, is) == [tag |-> tag, is |-> is, raw |-> "", hops |-> <<>>]
OtherEncap(layout) == [Attr("Encap", "Other") EXCEPT !.raw = layout]
MultiPath(hops) == [Attr("MultiPath", "") EXCEPT !.hops = hops]

NoList == <<Attr("None", "")>>
NotSeen == [wire |-> NoList, attributes |-> NoList]

Lists(S, n) == UNION {[1 .. k -> S] : k \in 0 .. n}

Layouts == Types \ {"None"}

(* What a next hop can hold; a next hop with no encapsulation at all is    *)
(* one of these lists.                                                     *)
HopItems ==
  {Attr("EncapType", t) : t \in Types} \cup {Attr("Encap", l) : l \in Layouts}
    \cup {Attr("Plain", "")}

WireItems ==
  HopItems
    \cup {Attr("EncapType", "short"), Attr("Encap", "broken"), Attr("Malformed", "")}
    \cup {MultiPath(<<hop>>) : hop \in Lists(HopItems, MaxInHop)}

(* Values a caller can build: typed encapsulations, and undecoded ones for *)
(* tunnels without a parser.                                               *)
Encaps ==
  {Attr("Encap", t) : t \in Types \cap Decodable}
    \cup {OtherEncap(t) : t \in Layouts \ Decodable}

HopValues ==
  {Attr("EncapType", t) : t \in Types} \cup Encaps \cup {Attr("Plain", "")}

Values == HopValues \cup {MultiPath(<<hop>>) : hop \in Lists(HopValues, MaxInHop)}

Init ==
  /\ \/ /\ wire \in Lists(WireItems, MaxAttrs) /\ attributes = <<>>
        /\ built = NoList /\ status = "finding"
     \/ /\ attributes \in Lists(Values, MaxAttrs) /\ built = attributes
        /\ wire = <<>> /\ status = "value"
  /\ idx = 1
  /\ encap_type = "None"
  /\ seen = NotSeen
-----------------------------------------------------------------------------
(* The first pass reads attribute idx and moves on; Err is skipped.  A     *)
(* malformed header also spends the iterator.                              *)
Skip ==
  /\ status = "finding"
  /\ idx <= Len(wire)
  /\ ~(wire[idx].tag = "EncapType" /\ wire[idx].is \in Types)
  /\ idx' = IF wire[idx].tag = "Malformed" THEN Len(wire) + 1 ELSE idx + 1
  /\ UNCHANGED <<wire, encap_type, attributes, built, seen, status>>

(* Faulty: forgets to break, so that the last type wins (UnderKind).       *)
FindLast ==
  /\ status = "finding"
  /\ idx <= Len(wire)
  /\ wire[idx].tag = "EncapType" /\ wire[idx].is \in Types
  /\ encap_type' = wire[idx].is
  /\ idx' = idx + 1
  /\ UNCHANGED <<wire, attributes, built, seen, status>>

(* It finds a type that parses, and breaks.                                *)
Find ==
  /\ status = "finding"
  /\ idx <= Len(wire)
  /\ wire[idx].tag = "EncapType" /\ wire[idx].is \in Types
  /\ encap_type' = wire[idx].is
  /\ status' = "parsing"
  /\ idx' = 1
  /\ UNCHANGED <<wire, attributes, built, seen>>

(* It runs off the end.                                                    *)
NotFound ==
  /\ status = "finding"
  /\ idx > Len(wire)
  /\ status' = "parsing"
  /\ idx' = 1
  /\ UNCHANGED <<wire, encap_type, attributes, built, seen>>
-----------------------------------------------------------------------------
(* RouteAttribute::parse_with_param on an attribute that is no MultiPath:  *)
(* the values it can return under a type.  A type without a parser keeps   *)
(* the members of an RTA_ENCAP undecoded.  A parser that meets the layout  *)
(* of another tunnel may return members nobody meant.                      *)
Decodings(attr, type) ==
  IF \/ attr.tag = "Encap" /\ attr.is = "broken"
     \/ attr.tag = "EncapType" /\ attr.is = "short"
     \/ attr.tag = "Malformed"
  THEN {}
  ELSE IF attr.tag # "Encap" THEN {attr}
  ELSE IF LwVariant(type) = "Other" THEN {OtherEncap(attr.is)}
  ELSE {Attr("Encap", type)}

(* It can return Err.                                                      *)
MayFail(attr, type) ==
  \/ Decodings(attr, type) = {}
  \/ attr.tag = "Encap" /\ LwVariant(type) \notin {"Other", attr.is}

(* The attribute list of a next hop, decoded in one strict pass.           *)
HopDecoded(hop, type) == [i \in 1 .. Len(hop) |-> CHOOSE v \in Decodings(hop[i], type) : TRUE]

Reading == status = "parsing" /\ idx <= Len(wire)

Read ==
  /\ Reading
  /\ wire[idx].tag # "MultiPath"
  /\ \E v \in Decodings(wire[idx], encap_type) : attributes' = Append(attributes, v)
  /\ idx' = idx + 1
  /\ UNCHANGED <<wire, encap_type, built, seen, status>>

Refuse ==
  /\ Reading
  /\ wire[idx].tag # "MultiPath"
  /\ MayFail(wire[idx], encap_type)
  /\ status' = "err"
  /\ UNCHANGED <<wire, idx, encap_type, attributes, built, seen>>

(* Faulty: drops the attributes of the last next hop (RoundTrip).          *)
ReadMultiPathShort ==
  /\ Reading
  /\ wire[idx].tag = "MultiPath"
  /\ attributes' =
       Append(attributes,
              MultiPath([h \in 1 .. Len(wire[idx].hops) |->
                           IF h = Len(wire[idx].hops) THEN <<>>
                           ELSE HopDecoded(wire[idx].hops[h], encap_type)]))
  /\ idx' = idx + 1
  /\ UNCHANGED <<wire, encap_type, built, seen, status>>

(* Every next hop is decoded under the message's type.                     *)
ReadMultiPath ==
  /\ Reading
  /\ wire[idx].tag = "MultiPath"
  /\ attributes' =
       Append(attributes,
              MultiPath([h \in 1 .. Len(wire[idx].hops) |->
                           HopDecoded(wire[idx].hops[h], encap_type)]))
  /\ idx' = idx + 1
  /\ UNCHANGED <<wire, encap_type, built, seen, status>>

RefuseMultiPath ==
  /\ Reading
  /\ wire[idx].tag = "MultiPath"
  /\ \E hop \in Range(wire[idx].hops) :
       \E attr \in Range(hop) : MayFail(attr, encap_type)
  /\ status' = "err"
  /\ UNCHANGED <<wire, idx, encap_type, attributes, built, seen>>

Return ==
  /\ status = "parsing"
  /\ idx > Len(wire)
  /\ status' = "value"
  /\ seen' = IF seen = NotSeen THEN [wire |-> wire, attributes |-> attributes] ELSE seen
  /\ UNCHANGED <<wire, idx, encap_type, attributes, built>>
-----------------------------------------------------------------------------
(* One attribute outside MultiPath as emit_value writes it.                *)
EmitOne(value) ==
  IF value.tag = "Encap" /\ value.is = "Other" THEN Attr("Encap", value.raw) ELSE value

Emitted(value) ==
  IF value.tag = "MultiPath"
  THEN MultiPath([h \in 1 .. Len(value.hops) |->
                    [i \in 1 .. Len(value.hops[h]) |-> EmitOne(value.hops[h][i])]])
  ELSE EmitOne(value)

(* Faulty: goes straight to the second pass (Stable).                      *)
EmitOnePass ==
  /\ status = "value"
  /\ wire' = [i \in 1 .. Len(attributes) |-> Emitted(attributes[i])]
  /\ idx' = 1
  /\ encap_type' = "None"
  /\ attributes' = <<>>
  /\ status' = "parsing"
  /\ UNCHANGED <<built, seen>>

(* The list is emitted, and decoding starts over on the emitted bytes.     *)
Emit ==
  /\ status = "value"
  /\ wire' = [i \in 1 .. Len(attributes) |-> Emitted(attributes[i])]
  /\ idx' = 1
  /\ encap_type' = "None"
  /\ attributes' = <<>>
  /\ status' = "finding"
  /\ UNCHANGED <<built, seen>>

Next ==
  \/ Skip \/ Find \/ NotFound
  \/ Read \/ Refuse
  \/ ReadMultiPath \/ RefuseMultiPath
  \/ Return
  \/ Emit

Spec == Init /\ [][Next]_vars
-----------------------------------------------------------------------------
(* The iterator of either pass stays within the list, and only a type that *)
(* parsed is ever remembered.                                              *)
TypeOK ==
  /\ idx \in 1 .. Len(wire) + 1
  /\ encap_type \in Types \cup {"None"}
  /\ Len(attributes) <= MaxAttrs /\ Len(wire) <= MaxAttrs
  /\ status \in {"finding", "parsing", "value", "err"}

(* The type a list declares: its first RTA_ENCAP_TYPE.                     *)
DeclaredType(list) ==
  LET at == {i \in 1 .. Len(list) : list[i].tag = "EncapType"}
  IN  IF at = {} THEN "None"
      ELSE list[CHOOSE i \in at : \A j \in at : i <= j].is

(* Every encapsulation of a list is decoded as, and only as, its type      *)
(* says.                                                                   *)
Typed(list, type) ==
  \A i \in 1 .. Len(list) : list[i].tag = "Encap" => list[i].is = LwVariant(type)

(* In a decoded message RTA_ENCAP has been decoded under the type the      *)
(* message declares, wherever in the message the type stands: in front of  *)
(* the encapsulation, behind it, or behind a next-hop list.  So has that   *)
(* of every next hop, whatever type the next hop itself declares.          *)
UnderKind ==
  seen # NotSeen =>
    LET type == DeclaredType(seen.wire)
    IN  /\ Typed(seen.attributes, type)
        /\ \A i \in 1 .. Len(seen.attributes) :
             \A h \in 1 .. Len(seen.attributes[i].hops) :
               Typed(seen.attributes[i].hops[h], type)

(* A message a caller built with encapsulations of the type it declares is *)
(* never refused and comes back as it was.                                 *)
RoundTrip ==
  LET type == DeclaredType(built)
      ok == /\ built # NoList
            /\ Typed(built, type)
            /\ \A i \in 1 .. Len(built) :
                 \A h \in 1 .. Len(built[i].hops) : Typed(built[i].hops[h], type)
  IN  ok => /\ status # "err"
            /\ status = "value" => attributes = built

(* What has been decoded once is emitted to bytes that decode to the same. *)
Stable ==
  seen # NotSeen =>
    /\ status # "err"
    /\ status = "value" => attributes = seen.attributes
=============================================================================
