---------------------------- MODULE MCKinds_proofs ----------------------------
(***************************************************************************)
(* The four decoders whose attributes depend on a kind, together: what the *)
(* proof modules of link infos, traffic control messages and actions       *)
(* establish for each of them, and the proofs about route encapsulations   *)
(* that come first here, for any behaviour of MCKinds.                     *)
(***************************************************************************)
EXTENDS MCKinds, TLAPS, Sequences

-----------------------------------------------------------------------------
(* Route encapsulations (route/message.rs and route/lwtunnel.rs): the two  *)
(* passes over the attributes, and a third one over those of a next hop.   *)

(* "short" and "broken" are no types, "Other" no tunnel.                   *)
TypesGiven == Types \cap {"short", "broken", "Other"} = {}

(* The attributes that occur on the wire, next hops of any number.         *)
Readable ==
  Encap!HopItems
    \cup {Encap!Attr("EncapType", "short"), Encap!Attr("Encap", "broken")}
    \cup {Encap!Attr("Malformed", "")}
    \cup {Encap!MultiPath(hops) : hops \in Seq(Seq(Encap!HopItems))}

(* The values decoding can return.                                         *)
HopProper ==
  {Encap!Attr("EncapType", t) : t \in Types}
    \cup {Encap!Attr("Encap", t) : t \in Types \cap Encap!Decodable}
    \cup {Encap!OtherEncap(l) : l \in Encap!Layouts}
    \cup {Encap!Attr("Plain", "")}

Proper == HopProper \cup {Encap!MultiPath(hops) : hops \in Seq(Seq(HopProper))}

(* Attributes the strict pass never accepts, though the first pass skips   *)
(* them.                                                                   *)
Bad(attr) ==
  \/ attr.tag = "EncapType" /\ attr.is = "short"
  \/ attr.tag = "Malformed"

(* The encapsulations of value v are of the given type.                    *)
Suits(v, type) ==
  /\ v.tag = "Encap" => v.is = Encap!LwVariant(type)
  /\ \A h \in 1 .. Len(v.hops) : Encap!Typed(v.hops[h], type)

AllSuit(list, type) == \A i \in 1 .. Len(list) : Suits(list[i], type)

(* type is that of the first EncapType of the list, "None" if it has none. *)
Declares(list, type) ==
  \/ type = "None" /\ \A i \in 1 .. Len(list) : list[i].tag # "EncapType"
  \/ \E i \in 1 .. Len(list) :
       /\ list[i].tag = "EncapType" /\ list[i].is = type
       /\ \A j \in 1 .. i - 1 : list[j].tag # "EncapType"

(* The first pass has met no type, unless the message is refused anyway.   *)
FindInv ==
  status = "finding" =>
    /\ encap_type = "None"
    /\ attributes = <<>>
    /\ \/ \E j \in 1 .. Len(wire) : Bad(wire[j])
       \/ \A j \in 1 .. idx - 1 : wire[j].tag # "EncapType"

(* The second pass has decoded everything in front of idx under the type   *)
(* the message declares, unless it is still to meet what it refuses.       *)
ParseInv ==
  status = "parsing" =>
    /\ Len(attributes) = idx - 1
    /\ \/ \E j \in idx .. Len(wire) : Bad(wire[j])
       \/ Declares(wire, encap_type)
    /\ AllSuit(attributes, encap_type)
    /\ \A j \in 1 .. Len(attributes) :
         /\ attributes[j].tag = wire[j].tag
         /\ attributes[j].tag = "EncapType" => attributes[j].is = wire[j].is

(* A list is emitted, or decoded again from its emission under the type it *)
(* declares.                                                               *)
Echoes(list) ==
  /\ status # "err"
  /\ status = "value" => attributes = list
  /\ status \in {"finding", "parsing"} =>
       wire = [i \in 1 .. Len(list) |-> Encap!Emitted(list[i])]
  /\ status = "parsing" =>
       /\ encap_type = Encap!DeclaredType(list)
       /\ \A j \in 1 .. Len(attributes) : attributes[j] = list[j]

ListsInv ==
  /\ wire \in Seq(Readable)
  /\ Len(wire) <= MaxRouteAttrs
  /\ idx \in 1 .. Len(wire) + 1
  /\ encap_type \in Types \cup {"None"}
  /\ attributes \in Seq(Proper)
  /\ Len(attributes) <= MaxRouteAttrs
  /\ built \in Seq(Proper) \cup {Encap!NoList}
  /\ seen = Encap!NotSeen \/ seen.attributes \in Seq(Proper)
  /\ status \in {"finding", "parsing", "value", "err"}

Coherent(list) == AllSuit(list, Encap!DeclaredType(list))

EchoInv ==
  /\ (built # Encap!NoList /\ Coherent(built)) => Echoes(built)
  /\ seen # Encap!NotSeen => Echoes(seen.attributes) /\ Coherent(seen.attributes)

EncapIInv == ListsInv /\ FindInv /\ ParseInv /\ Encap!UnderKind /\ EchoInv
-----------------------------------------------------------------------------
(* What an attribute that is not refused is decoded into.                  *)
Dec(attr, type) ==
  IF attr.tag # "Encap" THEN attr
  ELSE IF Encap!LwVariant(type) = "Other" THEN Encap!OtherEncap(attr.is)
  ELSE Encap!Attr("Encap", type)

(* Only a tunnel with a parser is a variant of its own.                    *)
LEMMA VariantOfType ==
  ASSUME NEW type \in Types \cup {"None"}, Encap!LwVariant(type) # "Other"
  PROVE  /\ Encap!LwVariant(type) = type
         /\ type \in Types \cap Encap!Decodable /\ type \in Encap!Layouts
BY DEF Encap!LwVariant, Encap!Decodable, Encap!Layouts

(* The fields of an attribute without next hops.                           *)
LEMMA AttrFields ==
  /\ \A tag, is : /\ Encap!Attr(tag, is).tag = tag /\ Encap!Attr(tag, is).is = is
                  /\ Encap!Attr(tag, is).hops = <<>>
  /\ \A l : /\ Encap!OtherEncap(l).tag = "Encap" /\ Encap!OtherEncap(l).is = "Other"
            /\ Encap!OtherEncap(l).raw = l /\ Encap!OtherEncap(l).hops = <<>>
BY DEF Encap!Attr, Encap!OtherEncap

(* The attributes of a next hop on the wire.                               *)
ItemFields(w) ==
  /\ w.tag \in {"EncapType", "Encap", "Plain"}
  /\ w = Encap!Attr(w.tag, w.is)
  /\ w.hops = <<>>
  /\ w.tag = "EncapType" => w.is \in Types
  /\ w.tag = "Encap" => w.is \in Encap!Layouts /\ w.is # "broken"
  /\ w.tag = "Plain" => w.is = ""
  /\ ~Bad(w)

(* They are what the constants make them.                                  *)
LEMMA HopItemFields == ASSUME TypesGiven, NEW w \in Encap!HopItems PROVE ItemFields(w)
<1> USE DEF ItemFields
<1>1. CASE w = Encap!Attr("Plain", "")
  <2>1. w.tag = "Plain" /\ w.is = "" /\ w.hops = <<>> BY <1>1, AttrFields
  <2>2. ~Bad(w) BY <2>1 DEF Bad
  <2> QED BY <1>1, <2>1, <2>2
<1>2. ASSUME NEW t \in Types, w = Encap!Attr("EncapType", t) PROVE ItemFields(w)
  <2>1. w.tag = "EncapType" /\ w.is = t /\ w.hops = <<>> BY <1>2, AttrFields
  <2>2. ~Bad(w) BY <2>1, TypesGiven DEF Bad, TypesGiven
  <2> QED BY <1>2, <2>1, <2>2
<1>3. ASSUME NEW l \in Encap!Layouts, w = Encap!Attr("Encap", l) PROVE ItemFields(w)
  BY <1>3, AttrFields DEF Bad, Encap!Layouts, TypesGiven
<1> QED BY <1>1, <1>2, <1>3 DEF Encap!HopItems

(* The attributes of a next hop as values.                                 *)
ValueFields(r) ==
  /\ r.hops = <<>>
  /\ \/ r.tag = "EncapType" /\ r.is \in Types /\ r = Encap!Attr("EncapType", r.is)
     \/ r.tag = "Plain" /\ r = Encap!Attr("Plain", "")
     \/ r.tag = "Encap" /\ r.is \in Types \cap Encap!Decodable /\ r = Encap!Attr("Encap", r.is)
     \/ r.tag = "Encap" /\ r.is = "Other" /\ r.raw \in Encap!Layouts /\ r = Encap!OtherEncap(r.raw)

(* They are what decoding makes them.                                      *)
LEMMA HopProperFields == ASSUME NEW r \in HopProper PROVE ValueFields(r)
<1> USE AttrFields DEF ValueFields
<1>1. CASE r = Encap!Attr("Plain", "") BY <1>1
<1>2. ASSUME NEW t \in Types, r = Encap!Attr("EncapType", t) PROVE ValueFields(r) BY <1>2
<1>3. ASSUME NEW t \in Types \cap Encap!Decodable, r = Encap!Attr("Encap", t) PROVE ValueFields(r)
  BY <1>3
<1>4. ASSUME NEW l \in Encap!Layouts, r = Encap!OtherEncap(l) PROVE ValueFields(r) BY <1>4
<1> QED BY <1>1, <1>2, <1>3, <1>4 DEF HopProper

(* Decoding an attribute of a next hop has one result, of the right type.  *)
LEMMA DecodeOne ==
  ASSUME TypesGiven, NEW w \in Encap!HopItems, NEW type \in Types \cup {"None"}
  PROVE  /\ Encap!Decodings(w, type) = {Dec(w, type)}
         /\ Dec(w, type) \in HopProper
         /\ Dec(w, type).tag = w.tag
         /\ w.tag = "EncapType" => Dec(w, type).is = w.is
         /\ Suits(Dec(w, type), type)
<1>1. /\ ~Bad(w) /\ ~(w.tag = "Encap" /\ w.is = "broken")
  BY HopItemFields DEF ItemFields
<1>2. Encap!Decodings(w, type) = {Dec(w, type)} BY <1>1 DEF Encap!Decodings, Dec, Bad
<1>3. Dec(w, type) \in HopProper /\ Dec(w, type).tag = w.tag /\ Dec(w, type).hops = <<>>
      /\ (w.tag = "EncapType" => Dec(w, type).is = w.is)
      /\ (w.tag = "Encap" => Dec(w, type).is = Encap!LwVariant(type))
  <2>1. CASE w.tag = "Plain"
    <3>1. Dec(w, type) = w BY <2>1 DEF Dec
    <3>2. w \in HopProper BY <2>1, HopItemFields DEF ItemFields, HopProper
    <3> QED BY <2>1, <3>1, <3>2, HopItemFields DEF ItemFields
  <2>2. CASE w.tag = "EncapType"
    <3>1. Dec(w, type) = w BY <2>2 DEF Dec
    <3>2. w \in HopProper
      <4>1. w = Encap!Attr("EncapType", w.is) /\ w.is \in Types
        BY <2>2, HopItemFields DEF ItemFields
      <4> QED BY <4>1 DEF HopProper
    <3> QED BY <2>2, <3>1, <3>2, HopItemFields DEF ItemFields
  <2>3. CASE w.tag = "Encap" /\ Encap!LwVariant(type) = "Other"
    <3>1. Dec(w, type) = Encap!OtherEncap(w.is) /\ w.is \in Encap!Layouts
      BY <2>3, HopItemFields DEF ItemFields, Dec
    <3>2. Encap!OtherEncap(w.is) \in HopProper BY <3>1 DEF HopProper
    <3> QED BY <2>3, <3>1, <3>2, AttrFields
  <2>4. CASE w.tag = "Encap" /\ Encap!LwVariant(type) # "Other"
    <3>1. Dec(w, type) = Encap!Attr("Encap", type) BY <2>4 DEF Dec
    <3>2. Encap!Attr("Encap", type) \in HopProper /\ Encap!LwVariant(type) = type
      BY <2>4, VariantOfType DEF HopProper
    <3> QED BY <2>4, <3>1, <3>2, AttrFields
  <2> QED BY <2>1, <2>2, <2>3, <2>4, HopItemFields DEF ItemFields
<1>4. Suits(Dec(w, type), type)
  <2>1. Len(<<>>) = 0 OBVIOUS
  <2>2. Dec(w, type).tag = "Encap" => Dec(w, type).is = Encap!LwVariant(type) BY <1>3
  <2>3. \A h \in 1 .. Len(Dec(w, type).hops) : FALSE BY <1>3, <2>1
  <2> QED BY <2>2, <2>3 DEF Suits
<1> QED BY <1>2, <1>3, <1>4

(* A value is emitted as an attribute a next hop can hold.                 *)
LEMMA EmitOneItem ==
  ASSUME NEW r \in HopProper
  PROVE  /\ Encap!EmitOne(r) \in Encap!HopItems
         /\ Encap!EmitOne(r).tag = r.tag
         /\ r.tag = "EncapType" => Encap!EmitOne(r).is = r.is
<1>1. CASE r.tag # "Encap"
  BY <1>1, HopProperFields DEF ValueFields, Encap!HopItems, Encap!EmitOne
<1>2. CASE r.tag = "Encap" /\ r.is # "Other"
  <2>1. r = Encap!Attr("Encap", r.is) /\ r.is \in Types \cap Encap!Decodable
    BY <1>2, HopProperFields DEF ValueFields
  <2>2. r.is \in Encap!Layouts BY <2>1 DEF Encap!Layouts, Encap!Decodable
  <2>3. r \in Encap!HopItems BY <2>1, <2>2 DEF Encap!HopItems
  <2> QED BY <1>2, <2>3 DEF Encap!EmitOne
<1>3. CASE r.tag = "Encap" /\ r.is = "Other"
  <2>1. r.raw \in Encap!Layouts BY <1>3, HopProperFields DEF ValueFields, Encap!Decodable
  <2>2. Encap!Attr("Encap", r.raw) \in Encap!HopItems BY <2>1 DEF Encap!HopItems
  <2> QED BY <1>3, <2>2, AttrFields DEF Encap!EmitOne
<1> QED BY <1>1, <1>2, <1>3

(* A value of the right type comes back from its emission.                 *)
LEMMA EchoOne ==
  ASSUME TypesGiven, NEW r \in HopProper, NEW type \in Types \cup {"None"},
         r.tag = "Encap" => r.is = Encap!LwVariant(type)
  PROVE  /\ Dec(Encap!EmitOne(r), type) = r
         /\ ~Encap!MayFail(Encap!EmitOne(r), type)
<1>0. Encap!Decodings(Encap!EmitOne(r), type) # {} BY EmitOneItem, DecodeOne
<1>1. CASE r.tag # "Encap"
  BY <1>0, <1>1 DEF Encap!EmitOne, Dec, Encap!MayFail
<1>2. CASE r.tag = "Encap" /\ r.is # "Other"
  <2>1. r = Encap!Attr("Encap", type) /\ Encap!LwVariant(type) = type
    BY <1>2, HopProperFields, VariantOfType DEF ValueFields
  <2>2. Encap!EmitOne(r) = r BY <1>2 DEF Encap!EmitOne
  <2> QED BY <1>0, <1>2, <2>1, <2>2 DEF Dec, Encap!MayFail
<1>3. CASE r.tag = "Encap" /\ r.is = "Other"
  <2>1. r = Encap!OtherEncap(r.raw) BY <1>3, HopProperFields DEF ValueFields, Encap!Decodable
  <2>2. Encap!EmitOne(r) = Encap!Attr("Encap", r.raw) BY <1>3 DEF Encap!EmitOne
  <2>3. Encap!EmitOne(r).tag = "Encap" /\ Encap!EmitOne(r).is = r.raw BY <2>2, AttrFields
  <2> QED BY <1>0, <1>3, <2>1, <2>3 DEF Dec, Encap!MayFail
<1> QED BY <1>1, <1>2, <1>3
-----------------------------------------------------------------------------
(* The fields of an RTA_MULTIPATH.                                         *)
LEMMA MultiPathFields ==
  \A hops : /\ Encap!MultiPath(hops).tag = "MultiPath" /\ Encap!MultiPath(hops).is = ""
            /\ Encap!MultiPath(hops).hops = hops
BY DEF Encap!MultiPath, Encap!Attr

(* An attribute on the wire is an RTA_MULTIPATH, refused for sure, or one  *)
(* a next hop could hold.                                                  *)
LEMMA ReadableCases ==
  ASSUME TypesGiven, NEW w \in Readable
  PROVE  \/ w \in Encap!HopItems /\ w.tag # "MultiPath"
         \/ w.tag # "MultiPath" /\ \A type : Encap!Decodings(w, type) = {}
         \/ w.tag = "MultiPath" /\ w.hops \in Seq(Seq(Encap!HopItems)) /\ ~Bad(w)
<1>1. CASE w \in Encap!HopItems BY <1>1, HopItemFields DEF ItemFields
<1>2. CASE w \in {Encap!Attr("EncapType", "short"), Encap!Attr("Encap", "broken"),
                  Encap!Attr("Malformed", "")}
  <2>1. \/ w.tag = "EncapType" /\ w.is = "short"
        \/ w.tag = "Encap" /\ w.is = "broken"
        \/ w.tag = "Malformed"
    <3>1. CASE w = Encap!Attr("EncapType", "short") BY <3>1 DEF Encap!Attr
    <3>2. CASE w = Encap!Attr("Encap", "broken") BY <3>2 DEF Encap!Attr
    <3>3. CASE w = Encap!Attr("Malformed", "") BY <3>3 DEF Encap!Attr
    <3> QED BY <1>2, <3>1, <3>2, <3>3
  <2>2. w.tag # "MultiPath" BY <2>1
  <2> QED BY <2>1, <2>2 DEF Encap!Decodings
<1>3. ASSUME NEW hops \in Seq(Seq(Encap!HopItems)), w = Encap!MultiPath(hops)
      PROVE  w.tag = "MultiPath" /\ w.hops \in Seq(Seq(Encap!HopItems)) /\ ~Bad(w)
  BY <1>3, MultiPathFields DEF Bad
<1> QED BY <1>1, <1>2, <1>3 DEF Readable

(* Every next hop is decoded into one of the message's type.               *)
LEMMA DecodeHop ==
  ASSUME TypesGiven, NEW hop \in Seq(Encap!HopItems), NEW type \in Types \cup {"None"}
  PROVE  /\ Encap!HopDecoded(hop, type) = [i \in 1 .. Len(hop) |-> Dec(hop[i], type)]
         /\ Encap!HopDecoded(hop, type) \in Seq(HopProper)
         /\ Encap!Typed(Encap!HopDecoded(hop, type), type)
<1>1. \A i \in 1 .. Len(hop) : hop[i] \in Encap!HopItems OBVIOUS
<1>2. \A i \in 1 .. Len(hop) :
        (CHOOSE v \in Encap!Decodings(hop[i], type) : TRUE) = Dec(hop[i], type)
  <2> TAKE i \in 1 .. Len(hop)
  <2>1. Encap!Decodings(hop[i], type) = {Dec(hop[i], type)} BY <1>1, DecodeOne
  <2> QED BY <2>1
<1>3. Encap!HopDecoded(hop, type) = [i \in 1 .. Len(hop) |-> Dec(hop[i], type)]
  BY <1>2 DEF Encap!HopDecoded
<1>4. \A i \in 1 .. Len(hop) : Dec(hop[i], type) \in HopProper
                                /\ (Dec(hop[i], type).tag = "Encap" =>
                                      Dec(hop[i], type).is = Encap!LwVariant(type))
  BY <1>1, DecodeOne DEF Suits
<1>5. Len(hop) \in Nat OBVIOUS
<1>6. Encap!HopDecoded(hop, type) \in Seq(HopProper) /\ Len(Encap!HopDecoded(hop, type)) = Len(hop)
  BY <1>3, <1>4, <1>5
<1>7. Encap!Typed(Encap!HopDecoded(hop, type), type) BY <1>3, <1>4, <1>5, <1>6 DEF Encap!Typed
<1> QED BY <1>3, <1>6, <1>7

EmittedHop(hop) == [i \in 1 .. Len(hop) |-> Encap!EmitOne(hop[i])]

(* A next hop of the message's type comes back from its emission.          *)
LEMMA EchoHop ==
  ASSUME TypesGiven, NEW hop \in Seq(HopProper), NEW type \in Types \cup {"None"},
         Encap!Typed(hop, type)
  PROVE  /\ Encap!HopDecoded(EmittedHop(hop), type) = hop
         /\ \A attr \in Encap!Range(EmittedHop(hop)) : ~Encap!MayFail(attr, type)
<1> DEFINE e == EmittedHop(hop)
<1>1. \A i \in 1 .. Len(hop) : /\ hop[i] \in HopProper
                               /\ hop[i].tag = "Encap" => hop[i].is = Encap!LwVariant(type)
  BY DEF Encap!Typed
<1>2. \A i \in 1 .. Len(hop) : /\ Encap!EmitOne(hop[i]) \in Encap!HopItems
                               /\ Dec(Encap!EmitOne(hop[i]), type) = hop[i]
                               /\ ~Encap!MayFail(Encap!EmitOne(hop[i]), type)
  BY <1>1, EmitOneItem, EchoOne
<1>3. Len(hop) \in Nat OBVIOUS
<1>4. e \in Seq(Encap!HopItems) /\ Len(e) = Len(hop) BY <1>2, <1>3 DEF EmittedHop
<1>5. Encap!HopDecoded(e, type) = [i \in 1 .. Len(e) |-> Dec(e[i], type)] BY <1>4, DecodeHop
<1>6. \A i \in 1 .. Len(hop) : e[i] = Encap!EmitOne(hop[i]) BY DEF EmittedHop
<1>7. Encap!HopDecoded(e, type) = [i \in 1 .. Len(hop) |-> hop[i]]
  BY <1>2, <1>4, <1>5, <1>6
<1>8. hop = [i \in 1 .. Len(hop) |-> hop[i]] OBVIOUS
<1>9. \A attr \in Encap!Range(e) : ~Encap!MayFail(attr, type)
  BY <1>2, <1>4, <1>6 DEF Encap!Range
<1> QED BY <1>7, <1>8, <1>9
-----------------------------------------------------------------------------
(* A step of the second pass that pushes value v.                          *)
Pushes(v) ==
  /\ status = "parsing" /\ idx <= Len(wire)
  /\ attributes' = Append(attributes, v)
  /\ idx' = idx + 1
  /\ UNCHANGED <<wire, encap_type, built, seen, status>>

(* v keeps the tag of attribute w, and its type if it is one.              *)
Mirrors(v, w) == v.tag = w.tag /\ (v.tag = "EncapType" => v.is = w.is)

(* v is the only value that wire[idx] could have been emitted from.        *)
OnlySource(v) ==
  \A r \in Proper : (wire[idx] = Encap!Emitted(r) /\ Suits(r, encap_type)) => v = r

(* The attribute the iterator is at.                                       *)
LEMMA AttrRead ==
  ASSUME ListsInv, idx <= Len(wire)
  PROVE  idx \in 1 .. Len(wire) /\ wire[idx] \in Readable
<1>1. wire \in Seq(Readable) /\ idx \in 1 .. Len(wire) BY DEF ListsInv
<1> QED BY <1>1

(* A value is an RTA_MULTIPATH or one a next hop could hold.               *)
LEMMA ProperCases ==
  ASSUME NEW r \in Proper
  PROVE  \/ r \in HopProper /\ r.tag # "MultiPath" /\ Encap!Emitted(r) = Encap!EmitOne(r)
         \/ /\ r.tag = "MultiPath" /\ r.hops \in Seq(Seq(HopProper)) /\ r = Encap!MultiPath(r.hops)
            /\ Encap!Emitted(r) =
                 Encap!MultiPath([h \in 1 .. Len(r.hops) |-> EmittedHop(r.hops[h])])
<1>1. ASSUME r \in HopProper
      PROVE  r.tag # "MultiPath" /\ Encap!Emitted(r) = Encap!EmitOne(r)
  BY <1>1, HopProperFields DEF ValueFields, Encap!Emitted
<1>2. ASSUME NEW hops \in Seq(Seq(HopProper)), r = Encap!MultiPath(hops)
      PROVE  /\ r.tag = "MultiPath" /\ r.hops \in Seq(Seq(HopProper)) /\ r = Encap!MultiPath(r.hops)
             /\ Encap!Emitted(r) =
                 Encap!MultiPath([h \in 1 .. Len(r.hops) |-> EmittedHop(r.hops[h])])
  BY <1>2, MultiPathFields DEF Encap!Emitted, EmittedHop
<1> QED BY <1>1, <1>2 DEF Proper

(* Emission keeps tags and types, and writes nothing that is refused for   *)
(* sure.                                                                   *)
LEMMA EmittedReadable ==
  ASSUME TypesGiven, NEW r \in Proper
  PROVE  Encap!Emitted(r) \in Readable /\ Mirrors(Encap!Emitted(r), r) /\ ~Bad(Encap!Emitted(r))
<1>1. CASE r \in HopProper /\ r.tag # "MultiPath" /\ Encap!Emitted(r) = Encap!EmitOne(r)
  <2>1. Encap!EmitOne(r) \in Encap!HopItems BY <1>1, EmitOneItem
  <2>2. ~Bad(Encap!EmitOne(r)) BY <2>1, HopItemFields DEF ItemFields
  <2>3. Encap!EmitOne(r) \in Readable BY <2>1 DEF Readable
  <2> QED BY <1>1, <2>2, <2>3, EmitOneItem DEF Mirrors
<1>2. CASE /\ r.tag = "MultiPath" /\ r.hops \in Seq(Seq(HopProper)) /\ r = Encap!MultiPath(r.hops)
           /\ Encap!Emitted(r) = Encap!MultiPath([h \in 1 .. Len(r.hops) |-> EmittedHop(r.hops[h])])
  <2> DEFINE hops == [h \in 1 .. Len(r.hops) |-> EmittedHop(r.hops[h])]
  <2>1. ASSUME NEW hop \in Seq(HopProper) PROVE EmittedHop(hop) \in Seq(Encap!HopItems)
    <3>1. \A i \in 1 .. Len(hop) : Encap!EmitOne(hop[i]) \in Encap!HopItems BY EmitOneItem
    <3>2. Len(hop) \in Nat OBVIOUS
    <3> QED BY <3>1, <3>2 DEF EmittedHop
  <2>2. Len(r.hops) \in Nat /\ \A h \in 1 .. Len(r.hops) : r.hops[h] \in Seq(HopProper)
    BY <1>2
  <2>3. \A h \in 1 .. Len(r.hops) : EmittedHop(r.hops[h]) \in Seq(Encap!HopItems)
    BY <2>1, <2>2
  <2>4. hops \in Seq(Seq(Encap!HopItems)) BY <2>2, <2>3
  <2> HIDE DEF hops
  <2>5. Encap!MultiPath(hops) \in Readable BY <2>4 DEF Readable
  <2>6. Mirrors(Encap!MultiPath(hops), r) /\ ~Bad(Encap!MultiPath(hops))
    BY <1>2, MultiPathFields DEF Mirrors, Bad
  <2> QED BY <1>2, <2>5, <2>6 DEF hops
<1> QED BY <1>1, <1>2, ProperCases

(* A step that reads an attribute pushes what it decodes to under the      *)
(* remembered type.                                                        *)
LEMMA ReadPushes ==
  ASSUME TypesGiven, ListsInv, Encap!Read
  PROVE  \E v \in Proper : /\ Pushes(v) /\ OnlySource(v) /\ Suits(v, encap_type)
                           /\ Mirrors(v, wire[idx]) /\ ~Bad(wire[idx])
<1> DEFINE w == wire[idx]
<1>1. /\ w \in Readable /\ w.tag # "MultiPath" /\ encap_type \in Types \cup {"None"}
      /\ status = "parsing" /\ idx <= Len(wire)
  BY AttrRead DEF Encap!Read, Encap!Reading, ListsInv
<1>2. PICK v \in Encap!Decodings(w, encap_type) : attributes' = Append(attributes, v)
  BY DEF Encap!Read
<1>3. w \in Encap!HopItems BY <1>1, <1>2, ReadableCases
<1>4. v = Dec(w, encap_type) BY <1>1, <1>2, <1>3, DecodeOne
<1>5. v \in HopProper /\ Suits(v, encap_type) /\ Mirrors(v, w)
  BY <1>1, <1>3, <1>4, DecodeOne DEF Mirrors
<1>6. ~Bad(w) BY <1>3, HopItemFields DEF ItemFields
<1>7. Pushes(v) BY <1>1, <1>2 DEF Encap!Read, Pushes
<1>8. OnlySource(v)
  <2> SUFFICES ASSUME NEW r \in Proper, w = Encap!Emitted(r), Suits(r, encap_type) PROVE v = r
    BY DEF OnlySource
  <2>1. r.tag # "MultiPath" BY <1>1, EmittedReadable DEF Mirrors
  <2>2. r \in HopProper /\ w = Encap!EmitOne(r) BY <2>1, ProperCases
  <2>3. r.tag = "Encap" => r.is = Encap!LwVariant(encap_type) BY DEF Suits
  <2> QED BY <1>1, <1>4, <2>2, <2>3, EchoOne
<1> QED BY <1>5, <1>6, <1>7, <1>8 DEF Proper

(* A step that reads an RTA_MULTIPATH pushes its next hops, every one      *)
(* decoded under the remembered type.                                      *)
LEMMA ReadMultiPathPushes ==
  ASSUME TypesGiven, ListsInv, Encap!ReadMultiPath
  PROVE  \E v \in Proper : /\ Pushes(v) /\ OnlySource(v) /\ Suits(v, encap_type)
                           /\ Mirrors(v, wire[idx]) /\ ~Bad(wire[idx])
<1> DEFINE w == wire[idx]
           hops == [h \in 1 .. Len(w.hops) |-> Encap!HopDecoded(w.hops[h], encap_type)]
           v == Encap!MultiPath(hops)
<1>1. /\ w \in Readable /\ w.tag = "MultiPath" /\ encap_type \in Types \cup {"None"}
  BY AttrRead DEF Encap!ReadMultiPath, Encap!Reading, ListsInv
<1>2. w.hops \in Seq(Seq(Encap!HopItems)) /\ ~Bad(w) BY <1>1, ReadableCases
<1>3. Len(w.hops) \in Nat /\ \A h \in 1 .. Len(w.hops) : w.hops[h] \in Seq(Encap!HopItems)
  BY <1>2
<1>4. \A h \in 1 .. Len(w.hops) : /\ Encap!HopDecoded(w.hops[h], encap_type) \in Seq(HopProper)
                                  /\ Encap!Typed(Encap!HopDecoded(w.hops[h], encap_type), encap_type)
  BY <1>1, <1>3, DecodeHop
<1>5. hops \in Seq(Seq(HopProper)) /\ Len(hops) = Len(w.hops) BY <1>3, <1>4
<1>6. \A h \in 1 .. Len(hops) : Encap!Typed(hops[h], encap_type) BY <1>4, <1>5
<1>7. Pushes(v) BY DEF Encap!ReadMultiPath, Encap!Reading, Pushes
<1>8. OnlySource(v)
  <2> SUFFICES ASSUME NEW r \in Proper, w = Encap!Emitted(r), Suits(r, encap_type) PROVE v = r
    BY DEF OnlySource
  <2>1. r.tag = "MultiPath" BY <1>1, EmittedReadable DEF Mirrors
  <2>2. /\ r.hops \in Seq(Seq(HopProper)) /\ r = Encap!MultiPath(r.hops)
        /\ w = Encap!MultiPath([h \in 1 .. Len(r.hops) |-> EmittedHop(r.hops[h])])
    BY <2>1, ProperCases
  <2>3. w.hops = [h \in 1 .. Len(r.hops) |-> EmittedHop(r.hops[h])]
    BY <2>2, MultiPathFields
  <2>4. Len(r.hops) \in Nat /\ \A h \in 1 .. Len(r.hops) : r.hops[h] \in Seq(HopProper)
    BY <2>2
  <2>5. \A h \in 1 .. Len(r.hops) : Encap!Typed(r.hops[h], encap_type) BY DEF Suits
  <2>6. \A h \in 1 .. Len(r.hops) :
          Encap!HopDecoded(EmittedHop(r.hops[h]), encap_type) = r.hops[h]
    BY <1>1, <2>4, <2>5, EchoHop
  <2>7. Len(w.hops) = Len(r.hops) BY <2>3, <2>4
  <2>8. hops = [h \in 1 .. Len(r.hops) |-> r.hops[h]] BY <2>3, <2>6, <2>7
  <2>9. r.hops = [h \in 1 .. Len(r.hops) |-> r.hops[h]] BY <2>2
  <2> QED BY <2>2, <2>8, <2>9
<1> HIDE DEF hops
<1>9. v \in Proper /\ Suits(v, encap_type) /\ Mirrors(v, w)
  BY <1>1, <1>5, <1>6, MultiPathFields DEF Proper, Suits, Mirrors
<1> QED BY <1>2, <1>7, <1>8, <1>9

(* An attribute of the remembered type is not refused.                     *)
LEMMA NotRefused ==
  ASSUME TypesGiven, ListsInv, NEW r \in Proper, wire[idx] = Encap!Emitted(r),
         Suits(r, encap_type)
  PROVE  ~Encap!Refuse /\ ~Encap!RefuseMultiPath
<1> DEFINE w == wire[idx]
<1>0. encap_type \in Types \cup {"None"} BY DEF ListsInv
<1>1. CASE r \in HopProper /\ r.tag # "MultiPath" /\ Encap!Emitted(r) = Encap!EmitOne(r)
  <2>1. w.tag # "MultiPath" BY <1>1, EmittedReadable DEF Mirrors
  <2>2. r.tag = "Encap" => r.is = Encap!LwVariant(encap_type) BY DEF Suits
  <2>3. ~Encap!MayFail(w, encap_type) BY <1>0, <1>1, <2>2, EchoOne
  <2> QED BY <2>1, <2>3 DEF Encap!Refuse, Encap!RefuseMultiPath
<1>2. CASE /\ r.tag = "MultiPath" /\ r.hops \in Seq(Seq(HopProper)) /\ r = Encap!MultiPath(r.hops)
           /\ Encap!Emitted(r) = Encap!MultiPath([h \in 1 .. Len(r.hops) |-> EmittedHop(r.hops[h])])
  <2>1. w.tag = "MultiPath" /\ w.hops = [h \in 1 .. Len(r.hops) |-> EmittedHop(r.hops[h])]
    BY <1>2, MultiPathFields
  <2>2. Len(r.hops) \in Nat /\ \A h \in 1 .. Len(r.hops) : r.hops[h] \in Seq(HopProper)
    BY <1>2
  <2>3. \A h \in 1 .. Len(r.hops) : Encap!Typed(r.hops[h], encap_type) BY DEF Suits
  <2>4. \A h \in 1 .. Len(r.hops) :
          \A attr \in Encap!Range(EmittedHop(r.hops[h])) : ~Encap!MayFail(attr, encap_type)
    BY <1>0, <2>2, <2>3, EchoHop
  <2>5. \A hop \in Encap!Range(w.hops) : \E h \in 1 .. Len(r.hops) : hop = EmittedHop(r.hops[h])
    BY <2>1, <2>2 DEF Encap!Range
  <2> QED BY <2>1, <2>4, <2>5 DEF Encap!Refuse, Encap!RefuseMultiPath
<1> QED BY <1>1, <1>2, ProperCases
-----------------------------------------------------------------------------
(* What a list declares is its DeclaredType.                               *)
LEMMA DeclaresType ==
  ASSUME NEW list, Len(list) \in Nat, NEW type, Declares(list, type)
  PROVE  Encap!DeclaredType(list) = type
<1> DEFINE at == {i \in 1 .. Len(list) : list[i].tag = "EncapType"}
<1>1. CASE at = {}
  BY <1>1 DEF Declares, Encap!DeclaredType
<1>2. CASE at # {}
  <2>1. PICK i \in 1 .. Len(list) : /\ list[i].tag = "EncapType" /\ list[i].is = type
                                   /\ \A j \in 1 .. i - 1 : list[j].tag # "EncapType"
    BY <1>2 DEF Declares
  <2>2. i \in at /\ \A j \in at : i <= j BY <2>1
  <2>3. \A k \in at : (\A j \in at : k <= j) => k = i BY <2>2
  <2>4. (CHOOSE k \in at : \A j \in at : k <= j) = i BY <2>2, <2>3
  <2> QED BY <1>2, <2>1, <2>4 DEF Encap!DeclaredType
<1> QED BY <1>1, <1>2

(* Lists with the same types at the same places declare the same.          *)
LEMMA DeclaresSame ==
  ASSUME NEW a, NEW b, Len(a) \in Nat, Len(b) = Len(a), NEW type, Declares(a, type),
         \A i \in 1 .. Len(a) :
           a[i].tag = b[i].tag /\ (a[i].tag = "EncapType" => a[i].is = b[i].is)
  PROVE  Declares(b, type)
<1>1. CASE type = "None" /\ \A i \in 1 .. Len(a) : a[i].tag # "EncapType"
  BY <1>1 DEF Declares
<1>2. CASE \E i \in 1 .. Len(a) : /\ a[i].tag = "EncapType" /\ a[i].is = type
                                  /\ \A j \in 1 .. i - 1 : a[j].tag # "EncapType"
  <2>1. PICK i \in 1 .. Len(a) : /\ a[i].tag = "EncapType" /\ a[i].is = type
                                /\ \A j \in 1 .. i - 1 : a[j].tag # "EncapType"
    BY <1>2
  <2>2. \A j \in 1 .. i - 1 : j \in 1 .. Len(a) BY <2>1
  <2>3. /\ b[i].tag = "EncapType" /\ b[i].is = type
        /\ \A j \in 1 .. i - 1 : b[j].tag # "EncapType"
    BY <2>1, <2>2
  <2> QED BY <2>1, <2>3 DEF Declares
<1> QED BY <1>1, <1>2 DEF Declares

(* The emission of a list that is being echoed.                            *)
LEMMA EchoWire ==
  ASSUME TypesGiven, NEW list \in Seq(Proper),
         wire = [i \in 1 .. Len(list) |-> Encap!Emitted(list[i])]
  PROVE  /\ Len(wire) = Len(list) /\ Len(list) \in Nat
         /\ \A i \in 1 .. Len(wire) : /\ list[i] \in Proper /\ wire[i] = Encap!Emitted(list[i])
                                      /\ Mirrors(wire[i], list[i]) /\ ~Bad(wire[i])
<1>1. Len(wire) = Len(list) /\ Len(list) \in Nat OBVIOUS
<1>2. \A i \in 1 .. Len(wire) : list[i] \in Proper /\ wire[i] = Encap!Emitted(list[i]) BY <1>1
<1> QED BY <1>1, <1>2, EmittedReadable

(* The first pass over the emission of a list finds the type it declares.  *)
LEMMA EchoFound ==
  ASSUME TypesGiven, NEW list \in Seq(Proper), NEW type, Declares(wire, type),
         wire = [i \in 1 .. Len(list) |-> Encap!Emitted(list[i])]
  PROVE  type = Encap!DeclaredType(list)
<1>1. /\ Len(wire) = Len(list) /\ Len(list) \in Nat
      /\ \A i \in 1 .. Len(wire) : Mirrors(wire[i], list[i])
  BY EchoWire
<1>2. Declares(list, type) BY <1>1, DeclaresSame DEF Mirrors
<1> QED BY <1>1, <1>2, DeclaresType

(* Every step carries on the echo of a coherent list.                      *)
LEMMA EchoStep ==
  ASSUME TypesGiven, ListsInv, FindInv, ParseInv, NEW list \in Seq(Proper),
         Coherent(list), Echoes(list)
  PROVE  /\ Encap!Skip => Echoes(list)'
         /\ Encap!Find \/ Encap!NotFound => Echoes(list)'
         /\ \A v \in Proper : (Pushes(v) /\ OnlySource(v)) => Echoes(list)'
         /\ ~Encap!Refuse /\ ~Encap!RefuseMultiPath
         /\ Encap!Return => Echoes(list)'
         /\ Encap!Emit => Echoes(list)'
<1>0. /\ attributes \in Seq(Proper) /\ Len(attributes) \in Nat /\ Len(list) \in Nat
      /\ wire \in Seq(Readable) /\ Len(wire) \in Nat /\ idx \in 1 .. Len(wire) + 1
  BY DEF ListsInv
<1>1. ASSUME Encap!Skip PROVE Echoes(list)'
  BY <1>1 DEF Encap!Skip, Echoes
<1>2. ASSUME Encap!Find \/ Encap!NotFound PROVE Echoes(list)'
  <2>1. /\ status = "finding" /\ status' = "parsing"
        /\ UNCHANGED <<wire, attributes>>
        /\ attributes = <<>>
    BY <1>2 DEF Encap!Find, Encap!NotFound, FindInv
  <2>2. wire = [i \in 1 .. Len(list) |-> Encap!Emitted(list[i])] BY <2>1 DEF Echoes
  <2>3. \A i \in 1 .. Len(wire) : ~Bad(wire[i]) BY <2>2, EchoWire
  <2>4. \A j \in 1 .. idx - 1 : wire[j].tag # "EncapType" BY <2>1, <2>3 DEF FindInv
  <2>5. Declares(wire, encap_type')
    <3>1. CASE Encap!Find
      <4>1. idx \in 1 .. Len(wire) /\ wire[idx].tag = "EncapType" /\ wire[idx].is = encap_type'
        BY <1>0, <3>1 DEF Encap!Find
      <4> QED BY <2>4, <4>1 DEF Declares
    <3>2. CASE Encap!NotFound
      <4>1. idx > Len(wire) /\ encap_type' = "None" BY <2>1, <3>2 DEF Encap!NotFound, FindInv
      <4> QED BY <1>0, <2>4, <4>1 DEF Declares
    <3> QED BY <1>2, <3>1, <3>2
  <2>6. encap_type' = Encap!DeclaredType(list) BY <2>2, <2>5, EchoFound
  <2>7. \A j \in 1 .. Len(attributes') : FALSE BY <2>1
  <2> QED BY <2>1, <2>2, <2>6, <2>7 DEF Echoes
<1>3. ASSUME status = "parsing"
      PROVE  /\ wire = [i \in 1 .. Len(list) |-> Encap!Emitted(list[i])]
             /\ Len(wire) = Len(list) /\ Len(attributes) = idx - 1
             /\ \A j \in 1 .. Len(attributes) : attributes[j] = list[j]
             /\ encap_type = Encap!DeclaredType(list)
             /\ idx <= Len(wire) => /\ list[idx] \in Proper /\ Suits(list[idx], encap_type)
                                    /\ wire[idx] = Encap!Emitted(list[idx])
  <2>1. wire = [i \in 1 .. Len(list) |-> Encap!Emitted(list[i])] BY <1>3 DEF Echoes
  <2>2. Len(wire) = Len(list) BY <2>1, EchoWire
  <2>3. /\ Len(attributes) = idx - 1 /\ encap_type = Encap!DeclaredType(list)
        /\ \A j \in 1 .. Len(attributes) : attributes[j] = list[j]
    BY <1>3 DEF ParseInv, Echoes
  <2>4. ASSUME idx <= Len(wire)
        PROVE  /\ list[idx] \in Proper /\ Suits(list[idx], encap_type)
               /\ wire[idx] = Encap!Emitted(list[idx])
    <3>1. idx \in 1 .. Len(wire) BY <1>0, <2>4
    <3>2. Suits(list[idx], encap_type) BY <2>2, <2>3, <3>1 DEF Coherent, AllSuit
    <3> QED BY <2>1, <3>1, <3>2, EchoWire
  <2> QED BY <2>1, <2>2, <2>3, <2>4
<1>4. ASSUME NEW v \in Proper, Pushes(v), OnlySource(v) PROVE Echoes(list)'
  <2>1. /\ status = "parsing" /\ idx <= Len(wire) /\ attributes' = Append(attributes, v)
        /\ UNCHANGED <<wire, encap_type, status>>
    BY <1>4 DEF Pushes
  <2>2. v = list[idx] BY <1>3, <1>4, <2>1 DEF OnlySource
  <2>3. Len(attributes') = Len(attributes) + 1 /\ attributes'[Len(attributes) + 1] = v
        /\ \A j \in 1 .. Len(attributes) : attributes'[j] = attributes[j]
    BY <1>0, <2>1
  <2>4. \A j \in 1 .. Len(attributes') : attributes'[j] = list[j]
    BY <1>0, <1>3, <2>1, <2>2, <2>3
  <2> QED BY <1>3, <2>1, <2>4 DEF Echoes
<1>5. ~Encap!Refuse /\ ~Encap!RefuseMultiPath
  <2>1. Encap!Refuse \/ Encap!RefuseMultiPath => status = "parsing" /\ idx <= Len(wire)
    BY DEF Encap!Refuse, Encap!RefuseMultiPath, Encap!Reading
  <2> QED BY <1>3, <2>1, NotRefused
<1>6. ASSUME Encap!Return PROVE Echoes(list)'
  <2>1. status = "parsing" /\ idx > Len(wire) /\ status' = "value" /\ attributes' = attributes
    BY <1>6 DEF Encap!Return
  <2>2. Len(attributes) = Len(list) BY <1>0, <1>3, <2>1
  <2>3. attributes = list BY <1>0, <1>3, <2>1, <2>2
  <2> QED BY <2>1, <2>3 DEF Echoes
<1>7. ASSUME Encap!Emit PROVE Echoes(list)'
  <2>1. attributes = list BY <1>7 DEF Encap!Emit, Echoes
  <2> QED BY <1>7, <2>1 DEF Encap!Emit, Echoes
<1> QED BY <1>1, <1>2, <1>4, <1>5, <1>6, <1>7
-----------------------------------------------------------------------------
(* The lists the constants allow.                                          *)
LEMMA ListsGiven ==
  ASSUME MaxRouteAttrs \in Nat, MaxInHop \in Nat
  PROVE  /\ Encap!Lists(Encap!WireItems, MaxRouteAttrs)
              \subseteq {l \in Seq(Readable) : Len(l) <= MaxRouteAttrs}
         /\ Encap!Lists(Encap!Values, MaxRouteAttrs)
              \subseteq {l \in Seq(Proper) : Len(l) <= MaxRouteAttrs}
<1>1. ASSUME NEW S, NEW T, S \subseteq T, NEW n \in Nat
      PROVE  Encap!Lists(S, n) \subseteq {l \in Seq(T) : Len(l) <= n}
  <2> SUFFICES ASSUME NEW l \in Encap!Lists(S, n) PROVE l \in Seq(T) /\ Len(l) <= n OBVIOUS
  <2>1. PICK k \in 0 .. n : l \in [1 .. k -> S] BY DEF Encap!Lists
  <2>2. k \in Nat /\ k <= n BY <2>1
  <2>3. l \in [1 .. k -> T] BY <1>1, <2>1
  <2> QED BY <2>2, <2>3
<1>2. ASSUME NEW S, NEW T, S \subseteq T, NEW hop \in Encap!Lists(S, MaxInHop)
      PROVE  <<hop>> \in Seq(Seq(T))
  <2>1. hop \in Seq(T) BY <1>1, <1>2
  <2> QED BY <2>1
<1>3. Encap!WireItems \subseteq Readable
  <2>1. \A hop \in Encap!Lists(Encap!HopItems, MaxInHop) : Encap!MultiPath(<<hop>>) \in Readable
    BY <1>2 DEF Readable
  <2> QED BY <2>1 DEF Encap!WireItems, Readable
<1>4. Encap!HopValues \subseteq HopProper
  BY DEF Encap!HopValues, Encap!Encaps, HopProper
<1>5. Encap!Values \subseteq Proper
  <2>1. \A hop \in Encap!Lists(Encap!HopValues, MaxInHop) : Encap!MultiPath(<<hop>>) \in Proper
    BY <1>2, <1>4 DEF Proper
  <2> QED BY <1>4, <2>1 DEF Encap!Values, Proper
<1> QED BY <1>1, <1>3, <1>5

(* Initially nothing has been read, or the caller's list is at hand.       *)
LEMMA EncapInitIInv ==
  ASSUME MaxRouteAttrs \in Nat, MaxInHop \in Nat
  PROVE  Encap!Init => EncapIInv
<1> SUFFICES ASSUME Encap!Init PROVE EncapIInv OBVIOUS
<1>1. ListsInv
  <2>1. <<>> \in Seq(Readable) /\ <<>> \in Seq(Proper) /\ Len(<<>>) = 0 OBVIOUS
  <2>2. /\ wire \in Seq(Readable) /\ attributes \in Seq(Proper)
        /\ built \in Seq(Proper) \cup {Encap!NoList}
        /\ Len(wire) <= MaxRouteAttrs /\ Len(attributes) <= MaxRouteAttrs
    <3>1. CASE /\ wire \in Encap!Lists(Encap!WireItems, MaxRouteAttrs) /\ attributes = <<>>
               /\ built = Encap!NoList
      BY <2>1, <3>1, ListsGiven
    <3>2. CASE /\ attributes \in Encap!Lists(Encap!Values, MaxRouteAttrs) /\ built = attributes
               /\ wire = <<>>
      BY <2>1, <3>2, ListsGiven
    <3> QED BY <3>1, <3>2 DEF Encap!Init
  <2>3. Len(wire) \in Nat /\ idx = 1 BY <2>2 DEF Encap!Init
  <2>4. idx \in 1 .. Len(wire) + 1 BY <2>3
  <2> QED BY <2>2, <2>4 DEF Encap!Init, ListsInv
<1>2. FindInv BY DEF Encap!Init, FindInv
<1>3. ParseInv /\ Encap!UnderKind BY DEF Encap!Init, ParseInv, Encap!UnderKind
<1>4. EchoInv BY DEF Encap!Init, EchoInv, Echoes
<1> QED BY <1>1, <1>2, <1>3, <1>4 DEF EncapIInv

(* Every step preserves the invariant.                                     *)
LEMMA EncapNextIInv ==
  ASSUME TypesGiven, MaxRouteAttrs \in Nat
  PROVE  EncapIInv /\ [Encap!Next]_(Encap!vars) => EncapIInv'
<1> SUFFICES ASSUME EncapIInv, [Encap!Next]_(Encap!vars) PROVE EncapIInv' OBVIOUS
<1> USE DEF EncapIInv
<1>0. /\ wire \in Seq(Readable) /\ attributes \in Seq(Proper) /\ idx \in 1 .. Len(wire) + 1
      /\ Len(wire) \in Nat /\ Len(attributes) \in Nat /\ Len(wire) <= MaxRouteAttrs
      /\ encap_type \in Types \cup {"None"}
  BY DEF ListsInv
<1>1. /\ built # Encap!NoList => built \in Seq(Proper)
      /\ seen # Encap!NotSeen => /\ seen.attributes \in Seq(Proper)
                                 /\ Coherent(seen.attributes) /\ Echoes(seen.attributes)
      /\ (built # Encap!NoList /\ Coherent(built)) => Echoes(built)
  BY DEF ListsInv, EchoInv
<1>2. ASSUME UNCHANGED <<built, seen>>,
             \A list \in Seq(Proper) : (Coherent(list) /\ Echoes(list)) => Echoes(list)'
      PROVE  Encap!UnderKind' /\ EchoInv'
  <2>1. Encap!UnderKind' BY <1>2 DEF Encap!UnderKind
  <2>2. (built # Encap!NoList /\ Coherent(built)) => Echoes(built)' BY <1>1, <1>2
  <2>3. seen # Encap!NotSeen => Echoes(seen.attributes)' BY <1>1, <1>2
  <2> QED BY <1>1, <1>2, <2>1, <2>2, <2>3 DEF EchoInv
<1>3. ASSUME Encap!Skip PROVE EncapIInv'
  <2>1. /\ status = "finding" /\ idx <= Len(wire)
        /\ ~(wire[idx].tag = "EncapType" /\ wire[idx].is \in Types)
        /\ idx' = IF wire[idx].tag = "Malformed" THEN Len(wire) + 1 ELSE idx + 1
        /\ UNCHANGED <<wire, encap_type, attributes, built, seen, status>>
    BY <1>3 DEF Encap!Skip
  <2>2. idx' \in 1 .. Len(wire') + 1 BY <1>0, <2>1
  <2>3. ListsInv' BY <2>1, <2>2 DEF ListsInv
  <2>4. ParseInv' BY <2>1 DEF ParseInv
  <2>5. FindInv'
    <3>1. idx \in 1 .. Len(wire) /\ wire[idx] \in Readable BY <2>1, AttrRead
    <3>2. wire[idx].tag # "EncapType" \/ Bad(wire[idx])
      <4>1. CASE wire[idx] \in Encap!HopItems BY <2>1, <4>1, HopItemFields DEF ItemFields
      <4>2. CASE wire[idx] \in {Encap!Attr("EncapType", "short"), Encap!Attr("Encap", "broken"),
                                Encap!Attr("Malformed", "")}
        <5>1. CASE wire[idx] = Encap!Attr("EncapType", "short") BY <5>1, AttrFields DEF Bad
        <5>2. CASE wire[idx] = Encap!Attr("Encap", "broken") BY <5>2, AttrFields
        <5>3. CASE wire[idx] = Encap!Attr("Malformed", "")
          <6>1. wire[idx].tag = "Malformed" BY <5>3, AttrFields, Zenon
          <6> QED BY <6>1
        <5> QED BY <4>2, <5>1, <5>2, <5>3
      <4>3. CASE \E hops : wire[idx] = Encap!MultiPath(hops) BY <4>3, MultiPathFields
      <4> QED BY <3>1, <4>1, <4>2, <4>3 DEF Readable
    <3>3. CASE \E j \in 1 .. Len(wire) : Bad(wire[j]) BY <2>1, <3>3 DEF FindInv
    <3>4. CASE ~\E j \in 1 .. Len(wire) : Bad(wire[j])
      <4>1. wire[idx].tag # "EncapType" /\ idx' = idx + 1
        BY <2>1, <3>1, <3>2, <3>4 DEF Bad
      <4>2. \A j \in 1 .. idx - 1 : wire[j].tag # "EncapType" BY <2>1, <3>4 DEF FindInv
      <4>3. \A j \in 1 .. idx' - 1 : wire[j].tag # "EncapType" BY <1>0, <4>1, <4>2
      <4> QED BY <2>1, <4>3 DEF FindInv
    <3> QED BY <3>3, <3>4
  <2>6. \A list \in Seq(Proper) : (Coherent(list) /\ Echoes(list)) => Echoes(list)'
    BY <1>3, EchoStep
  <2> QED BY <1>2, <2>1, <2>3, <2>4, <2>5, <2>6
<1>4. ASSUME Encap!Find \/ Encap!NotFound PROVE EncapIInv'
  <2>1. /\ status = "finding" /\ status' = "parsing" /\ idx' = 1
        /\ encap_type = "None" /\ attributes = <<>>
        /\ UNCHANGED <<wire, attributes, built, seen>>
    BY <1>4 DEF Encap!Find, Encap!NotFound, FindInv
  <2>2. encap_type' \in Types \cup {"None"} BY <1>4, <2>1 DEF Encap!Find, Encap!NotFound
  <2>3. idx' \in 1 .. Len(wire') + 1 BY <1>0, <2>1
  <2>4. ListsInv' BY <2>1, <2>2, <2>3 DEF ListsInv
  <2>5. FindInv' BY <2>1 DEF FindInv
  <2>6. (\E j \in 1 .. Len(wire) : Bad(wire[j])) \/ Declares(wire, encap_type')
    <3> SUFFICES ASSUME ~\E j \in 1 .. Len(wire) : Bad(wire[j])
                 PROVE  Declares(wire, encap_type')
      OBVIOUS
    <3>1. \A j \in 1 .. idx - 1 : wire[j].tag # "EncapType" BY <2>1 DEF FindInv
    <3>2. CASE Encap!Find
      <4>1. idx \in 1 .. Len(wire) /\ wire[idx].tag = "EncapType" /\ wire[idx].is = encap_type'
        BY <1>0, <3>2 DEF Encap!Find
      <4> QED BY <3>1, <4>1 DEF Declares
    <3>3. CASE Encap!NotFound
      <4>1. idx > Len(wire) /\ encap_type' = "None" BY <2>1, <3>3 DEF Encap!NotFound
      <4> QED BY <1>0, <3>1, <4>1 DEF Declares
    <3> QED BY <1>4, <3>2, <3>3
  <2>7. ParseInv'
    <3>1. Len(attributes') = 0 /\ wire' = wire BY <2>1
    <3> QED BY <2>1, <2>6, <3>1 DEF ParseInv, AllSuit
  <2>8. \A list \in Seq(Proper) : (Coherent(list) /\ Echoes(list)) => Echoes(list)'
    BY <1>4, EchoStep
  <2> QED BY <1>2, <2>1, <2>4, <2>5, <2>7, <2>8
<1>5. ASSUME NEW v \in Proper, Pushes(v), OnlySource(v), Suits(v, encap_type),
             Mirrors(v, wire[idx]), ~Bad(wire[idx])
      PROVE  EncapIInv'
  <2>1. /\ status = "parsing" /\ idx <= Len(wire) /\ attributes' = Append(attributes, v)
        /\ idx' = idx + 1 /\ UNCHANGED <<wire, encap_type, built, seen, status>>
    BY <1>5 DEF Pushes
  <2>2. /\ Len(attributes) = idx - 1
        /\ (\E j \in idx .. Len(wire) : Bad(wire[j])) \/ Declares(wire, encap_type)
        /\ \A j \in 1 .. Len(attributes) :
             Suits(attributes[j], encap_type) /\ Mirrors(attributes[j], wire[j])
    BY <2>1 DEF ParseInv, AllSuit, Mirrors
  <2>3. /\ attributes' \in Seq(Proper) /\ Len(attributes') = idx
        /\ attributes'[idx] = v
        /\ \A j \in 1 .. Len(attributes) : attributes'[j] = attributes[j]
    BY <1>0, <2>1, <2>2
  <2>4. idx' \in 1 .. Len(wire') + 1 /\ Len(attributes') <= MaxRouteAttrs
    BY <1>0, <2>1, <2>3
  <2>5. ListsInv' BY <2>1, <2>3, <2>4 DEF ListsInv
  <2>6. FindInv' BY <2>1 DEF FindInv
  <2>7. ParseInv'
    <3>1. \A j \in 1 .. Len(attributes') : j \in 1 .. Len(attributes) \/ j = idx
      BY <1>0, <2>2, <2>3
    <3>2. \A j \in 1 .. Len(attributes') :
            Suits(attributes'[j], encap_type) /\ Mirrors(attributes'[j], wire[j])
      BY <1>5, <2>2, <2>3, <3>1
    <3>3. (\E j \in idx' .. Len(wire) : Bad(wire[j])) \/ Declares(wire, encap_type)
      BY <1>0, <1>5, <2>1, <2>2
    <3>4. Len(attributes') = idx' - 1 BY <1>0, <2>1, <2>3
    <3>5. AllSuit(attributes', encap_type) BY <3>2 DEF AllSuit
    <3> QED BY <2>1, <3>2, <3>3, <3>4, <3>5 DEF ParseInv, Mirrors
  <2>8. \A list \in Seq(Proper) : (Coherent(list) /\ Echoes(list)) => Echoes(list)'
    BY <1>5, EchoStep
  <2> QED BY <1>2, <2>1, <2>5, <2>6, <2>7, <2>8
<1>6. ASSUME Encap!Refuse \/ Encap!RefuseMultiPath PROVE EncapIInv'
  <2>1. /\ status' = "err" /\ UNCHANGED <<wire, idx, encap_type, attributes, built, seen>>
    BY <1>6 DEF Encap!Refuse, Encap!RefuseMultiPath
  <2>2. ListsInv' BY <2>1 DEF ListsInv
  <2>3. \A list \in Seq(Proper) : ~(Coherent(list) /\ Echoes(list)) BY <1>6, EchoStep
  <2>4. Encap!UnderKind' /\ EchoInv' BY <1>2, <2>1, <2>3
  <2> QED BY <2>1, <2>2, <2>4 DEF FindInv, ParseInv
<1>7. ASSUME Encap!Return PROVE EncapIInv'
  <2>1. /\ status = "parsing" /\ idx > Len(wire) /\ status' = "value"
        /\ seen' = IF seen = Encap!NotSeen THEN [wire |-> wire, attributes |-> attributes] ELSE seen
        /\ UNCHANGED <<wire, idx, encap_type, attributes, built>>
    BY <1>7 DEF Encap!Return
  <2>2. ListsInv' BY <2>1 DEF ListsInv
  <2>3. FindInv' /\ ParseInv' BY <2>1 DEF FindInv, ParseInv
  <2>4. /\ Len(attributes) = Len(wire)
        /\ Declares(wire, encap_type)
        /\ AllSuit(attributes, encap_type)
        /\ \A j \in 1 .. Len(wire) : Mirrors(wire[j], attributes[j])
    BY <1>0, <2>1 DEF ParseInv, Mirrors
  <2>5. Declares(attributes, encap_type) BY <1>0, <2>4, DeclaresSame DEF Mirrors
  <2>6. Encap!DeclaredType(wire) = encap_type /\ Encap!DeclaredType(attributes) = encap_type
    BY <1>0, <2>4, <2>5, DeclaresType
  <2>7. /\ Encap!Typed(attributes, encap_type)
        /\ \A i \in 1 .. Len(attributes) :
             \A h \in 1 .. Len(attributes[i].hops) :
               Encap!Typed(attributes[i].hops[h], encap_type)
        /\ Coherent(attributes)
    BY <2>4, <2>6 DEF AllSuit, Suits, Encap!Typed, Coherent
  <2>8. \A list \in Seq(Proper) : (Coherent(list) /\ Echoes(list)) => Echoes(list)'
    BY <1>7, EchoStep
  <2>9. CASE seen # Encap!NotSeen BY <1>2, <2>1, <2>2, <2>3, <2>8, <2>9
  <2>10. CASE seen = Encap!NotSeen
    <3>1. seen'.wire = wire /\ seen'.attributes = attributes BY <2>1, <2>10
    <3>2. Encap!UnderKind' BY <2>1, <2>6, <2>7, <3>1 DEF Encap!UnderKind
    <3>3. (built # Encap!NoList /\ Coherent(built)) => Echoes(built)' BY <1>1, <2>1, <2>8
    <3>4. Coherent(attributes') BY <2>1, <2>7
    <3>5. Echoes(attributes)' BY <2>1 DEF Echoes
    <3>6. EchoInv' BY <2>1, <3>1, <3>3, <3>4, <3>5 DEF EchoInv
    <3> QED BY <2>2, <2>3, <3>2, <3>6
  <2> QED BY <2>9, <2>10
<1>8. ASSUME Encap!Emit PROVE EncapIInv'
  <2>1. /\ status = "value" /\ status' = "finding" /\ idx' = 1
        /\ wire' = [i \in 1 .. Len(attributes) |-> Encap!Emitted(attributes[i])]
        /\ encap_type' = "None" /\ attributes' = <<>> /\ UNCHANGED <<built, seen>>
    BY <1>8 DEF Encap!Emit
  <2>2. wire' \in Seq(Readable) /\ Len(wire') = Len(attributes)
    <3>1. \A i \in 1 .. Len(attributes) : Encap!Emitted(attributes[i]) \in Readable
      BY <1>0, EmittedReadable
    <3> QED BY <1>0, <2>1, <3>1
  <2>3. ListsInv'
    <3>1. Len(attributes) <= MaxRouteAttrs BY DEF ListsInv
    <3>2. idx' \in 1 .. Len(wire') + 1 BY <1>0, <2>1, <2>2
    <3>3. attributes' \in Seq(Proper) /\ Len(attributes') <= MaxRouteAttrs BY <2>1
    <3> QED BY <2>1, <2>2, <3>1, <3>2, <3>3 DEF ListsInv
  <2>4. FindInv' BY <2>1 DEF FindInv
  <2>5. ParseInv' BY <2>1 DEF ParseInv
  <2>6. \A list \in Seq(Proper) : (Coherent(list) /\ Echoes(list)) => Echoes(list)'
    BY <1>8, EchoStep
  <2> QED BY <1>2, <2>1, <2>3, <2>4, <2>5, <2>6
<1>9. ASSUME UNCHANGED Encap!vars PROVE EncapIInv'
  <2>1. ListsInv' BY <1>9 DEF ListsInv, Encap!vars
  <2>2. FindInv' /\ ParseInv' /\ Encap!UnderKind'
    BY <1>9 DEF FindInv, ParseInv, Encap!UnderKind, Encap!vars
  <2>3. EchoInv' BY <1>9 DEF EchoInv, Echoes, Encap!vars
  <2> QED BY <2>1, <2>2, <2>3
<1>10. ASSUME NEW v \in Proper, /\ Pushes(v) /\ OnlySource(v) /\ Suits(v, encap_type)
                                /\ Mirrors(v, wire[idx]) /\ ~Bad(wire[idx])
       PROVE  EncapIInv'
  BY <1>5, <1>10
<1> QED
  BY <1>3, <1>4, <1>6, <1>7, <1>8, <1>9, <1>10, ReadPushes, ReadMultiPathPushes DEF Encap!Next

(* The invariant gives the properties.                                     *)
LEMMA EncapIInvGives ==
  EncapIInv => Encap!TypeOK /\ Encap!UnderKind /\ Encap!RoundTrip /\ Encap!Stable
<1> SUFFICES ASSUME EncapIInv
             PROVE  Encap!TypeOK /\ Encap!UnderKind /\ Encap!RoundTrip /\ Encap!Stable
  OBVIOUS
<1>1. Encap!TypeOK BY DEF EncapIInv, ListsInv, Encap!TypeOK
<1>2. Encap!RoundTrip
  <2>1. ASSUME Encap!Typed(built, Encap!DeclaredType(built)),
               \A i \in 1 .. Len(built) : \A h \in 1 .. Len(built[i].hops) :
                 Encap!Typed(built[i].hops[h], Encap!DeclaredType(built))
        PROVE  Coherent(built)
    BY <2>1 DEF Coherent, AllSuit, Suits, Encap!Typed
  <2> QED BY <2>1 DEF EncapIInv, EchoInv, Echoes, Encap!RoundTrip
<1>3. Encap!UnderKind /\ Encap!Stable BY DEF EncapIInv, EchoInv, Echoes, Encap!Stable
<1> QED BY <1>1, <1>2, <1>3
-----------------------------------------------------------------------------
(* All the variables there are.                                            *)
vars ==
  <<part, wire, idx, infoVars, encap_type, kind, attributes, actionVars, built, seen,
    trips, status>>

(* The inductive invariant of the decoder whose behaviour this is.         *)
IInv ==
  /\ part = "link info" => Info!IInv
  /\ part = "all kinds" => All!IInv
  /\ part = "encap" => EncapIInv
  /\ part = "tc" => Tc!IInv
  /\ part = "action" => Action!IInv

(* Every decoder's own hypotheses follow from the assumptions on the       *)
(* constants.                                                              *)
LEMMA PartsGiven ==
  /\ Info!NamesGiven /\ MaxInfos \in Nat
  /\ All!NamesGiven /\ MaxOfAll \in Nat
  /\ TypesGiven /\ MaxRouteAttrs \in Nat /\ MaxInHop \in Nat
  /\ Tc!BoundsGiven
  /\ Action!Given
<1>1. /\ MaxInfos \in Nat /\ MaxOfAll \in Nat /\ MaxRouteAttrs \in Nat /\ MaxInHop \in Nat
      /\ MaxTcAttrs \in Nat /\ MaxAttrs \in Nat /\ MaxInPair \in Nat /\ MaxTrips \in Nat
  BY BoundsAssumption
<1>2. Tc!BoundsGiven BY <1>1 DEF Tc!BoundsGiven
<1>3. Action!Given BY <1>1, NamesAssumption, TabsAssumption DEF Action!Given
<1>4. TypesGiven BY NamesAssumption DEF TypesGiven
<1> QED BY <1>1, <1>2, <1>3, <1>4, NamesAssumption

(* Whichever decoder starts does so within its invariant.                  *)
LEMMA InitIInv == Init => IInv
<1>1. Info!Init => Info!IInv BY PartsGiven, Info!InitIInv
<1>2. All!Init => All!IInv BY PartsGiven, All!InitIInv
<1>3. Encap!Init => EncapIInv BY PartsGiven, EncapInitIInv
<1>4. Tc!Init => Tc!IInv BY PartsGiven, Tc!InitIInv
<1>5. Action!Init => Action!IInv BY PartsGiven, Action!InitIInv
<1> QED BY <1>1, <1>2, <1>3, <1>4, <1>5 DEF Init, IInv

(* A step of one decoder keeps its invariant and leaves it the one whose   *)
(* behaviour this is.                                                      *)
LEMMA NextIInv == IInv /\ [Next]_vars => IInv'
<1> SUFFICES ASSUME IInv, [Next]_vars PROVE IInv' OBVIOUS
<1>1. ASSUME part = "link info", [Info!Next]_(Info!vars), UNCHANGED part PROVE IInv'
  <2>1. Info!IInv' BY <1>1, PartsGiven, Info!NextIInv DEF IInv
  <2> QED BY <1>1, <2>1 DEF IInv
<1>2. ASSUME part = "all kinds", [All!Next]_(All!vars), UNCHANGED part PROVE IInv'
  <2>1. All!IInv' BY <1>2, PartsGiven, All!NextIInv DEF IInv
  <2> QED BY <1>2, <2>1 DEF IInv
<1>3. ASSUME part = "encap", [Encap!Next]_(Encap!vars), UNCHANGED part PROVE IInv'
  <2>1. EncapIInv' BY <1>3, PartsGiven, EncapNextIInv DEF IInv
  <2> QED BY <1>3, <2>1 DEF IInv
<1>4. ASSUME part = "tc", [Tc!Next]_(Tc!vars), UNCHANGED part PROVE IInv'
  <2>1. Tc!IInv' BY <1>4, PartsGiven, Tc!NextIInv DEF IInv
  <2> QED BY <1>4, <2>1 DEF IInv
<1>5. ASSUME part = "action", [Action!Next]_(Action!vars), UNCHANGED part PROVE IInv'
  <2>1. Action!IInv' BY <1>5, PartsGiven, Action!NextIInv DEF IInv
  <2> QED BY <1>5, <2>1 DEF IInv
<1>6. CASE Next BY <1>6, <1>1, <1>2, <1>3, <1>4, <1>5 DEF Next
<1>7. CASE UNCHANGED vars
  <2>1. /\ UNCHANGED <<part, wire, idx, encap_type, kind, attributes, built, seen, trips>>
        /\ UNCHANGED <<status, link_info_kind, link_info_port_kind, nlas>>
        /\ UNCHANGED <<kinds, actions, received>>
    BY <1>7 DEF vars, infoVars, actionVars
  <2>2. UNCHANGED Info!vars BY <2>1 DEF Info!vars
  <2>3. UNCHANGED All!vars BY <2>1 DEF All!vars
  <2>4. UNCHANGED Encap!vars BY <2>1 DEF Encap!vars
  <2>5. UNCHANGED Tc!vars BY <2>1 DEF Tc!vars
  <2>6. UNCHANGED Action!vars BY <2>1 DEF Action!vars
  <2>7. CASE part \notin {"link info", "all kinds", "encap", "tc", "action"}
    BY <2>1, <2>7 DEF IInv
  <2> QED BY <2>1, <2>2, <2>3, <2>4, <2>5, <2>6, <2>7, <1>1, <1>2, <1>3, <1>4, <1>5
<1> QED BY <1>6, <1>7

(* Each decoder's invariant gives its part of the five properties.         *)
LEMMA IInvGives == IInv => TypeOK /\ UnderKind /\ OneKind /\ RoundTrip /\ Stable
<1>1. /\ Info!IInv => Info!TypeOK /\ Info!UnderKind /\ Info!RoundTrip /\ Info!Stable
      /\ All!IInv => All!TypeOK /\ All!UnderKind /\ All!RoundTrip /\ All!Stable
      /\ EncapIInv => Encap!TypeOK /\ Encap!UnderKind /\ Encap!RoundTrip /\ Encap!Stable
  BY Info!IInvGives, All!IInvGives, EncapIInvGives
<1>2. /\ Tc!IInv => Tc!TypeOK /\ Tc!UnderKind /\ Tc!RoundTrip /\ Tc!Stable
      /\ Action!IInv => /\ Action!TypeOK /\ Action!UnderKind /\ Action!OneKind
                        /\ Action!RoundTrip /\ Action!Stable
  BY PartsGiven, Tc!IInvGives, Action!IInvGives
<1> QED BY <1>1, <1>2 DEF IInv, TypeOK, UnderKind, OneKind, RoundTrip, Stable

(* The iterators of VecLinkInfo::parse, RouteMessage::parse,               *)
(* TcMessage::parse and TcAction::parse stay within their lists, and only  *)
(* kinds that parsed are remembered.                                       *)
THEOREM TypeOKHolds == Spec => []TypeOK
BY InitIInv, NextIInv, IInvGives, PTL DEF Spec, vars

(* What depends on a kind is decoded under the right one by all four,      *)
(* whatever the list and wherever in it the kind stands.                   *)
THEOREM UnderKindHolds == Spec => []UnderKind
BY InitIInv, NextIInv, IInvGives, PTL DEF Spec, vars

(* TcAction::parse returns no action without a kind and none with two.     *)
THEOREM OneKindHolds == Spec => []OneKind
BY InitIInv, NextIInv, IInvGives, PTL DEF Spec, vars

(* What a caller builds with payloads that go with its kinds, and emits,   *)
(* is never refused and decodes to the same, by all four, but for a false  *)
(* TCA_DUMP_INVISIBLE and for undecoded TCA_OPTIONS, which every trip      *)
(* wraps into one more TCA_OPTIONS.                                        *)
THEOREM RoundTripHolds == Spec => []RoundTrip
BY InitIInv, NextIInv, IInvGives, PTL DEF Spec, vars

(* What has been decoded once is emitted to bytes that decode to the same, *)
(* by all four, but for TCA_OPTIONS left undecoded, which each trip wraps  *)
(* once more.                                                              *)
THEOREM StableHolds == Spec => []Stable
BY InitIInv, NextIInv, IInvGives, PTL DEF Spec, vars
-----------------------------------------------------------------------------
(* Neither pass ever leaves the list, and RouteMessage::parse remembers a  *)
(* type that parsed.                                                       *)
THEOREM EncapTypeOKHolds == Encap!Spec => []Encap!TypeOK
<1>1. Encap!Init => EncapIInv BY PartsGiven, EncapInitIInv
<1>2. EncapIInv /\ [Encap!Next]_(Encap!vars) => EncapIInv'
  BY PartsGiven, EncapNextIInv
<1> QED BY <1>1, <1>2, EncapIInvGives, PTL DEF Encap!Spec

(* In every message that is decoded, RTA_ENCAP has the variant of the type *)
(* the message declares, wherever the type stands.                         *)
THEOREM EncapUnderKindHolds == Encap!Spec => []Encap!UnderKind
<1>1. Encap!Init => EncapIInv BY PartsGiven, EncapInitIInv
<1>2. EncapIInv /\ [Encap!Next]_(Encap!vars) => EncapIInv'
  BY PartsGiven, EncapNextIInv
<1> QED BY <1>1, <1>2, EncapIInvGives, PTL DEF Encap!Spec

(* A message built with encapsulations of the type it declares, in its     *)
(* next hops too, is never refused and comes back as it was.               *)
THEOREM EncapRoundTripHolds == Encap!Spec => []Encap!RoundTrip
<1>1. Encap!Init => EncapIInv BY PartsGiven, EncapInitIInv
<1>2. EncapIInv /\ [Encap!Next]_(Encap!vars) => EncapIInv'
  BY PartsGiven, EncapNextIInv
<1> QED BY <1>1, <1>2, EncapIInvGives, PTL DEF Encap!Spec

(* Whatever was decoded once is decoded again from the emission of it.     *)
THEOREM EncapStableHolds == Encap!Spec => []Encap!Stable
<1>1. Encap!Init => EncapIInv BY PartsGiven, EncapInitIInv
<1>2. EncapIInv /\ [Encap!Next]_(Encap!vars) => EncapIInv'
  BY PartsGiven, EncapNextIInv
<1> QED BY <1>1, <1>2, EncapIInvGives, PTL DEF Encap!Spec
===============================================================================
