------------------------ MODULE MessageDispatch_proofs ------------------------
(***************************************************************************)
(* RouteNetlinkMessage, for bodies of any length, any families and any     *)
(* number of trips.  The first half is about the tables alone: every arm   *)
(* of parse_with_param gives its variants the types that message_type()    *)
(* writes for them, no type has two arms, and only the two LinkProp        *)
(* variants have none.  The second half is the inductive invariant that    *)
(* these facts carry from trip to trip.                                    *)
(***************************************************************************)
EXTENDS MessageDispatch, TLAPS

(* An arm whose inner match gives each of its variants the type that       *)
(* message_type() writes for it.                                           *)
Agrees(arm) ==
  \A v \in DOMAIN arm.inner : v \in Variants \ WriteOnly /\ arm.inner[v] = MessageType[v]

(* An arm whose inner match gives no two variants the same type.           *)
OneToOne(arm) ==
  \A v, w \in DOMAIN arm.inner : arm.inner[w] = arm.inner[v] => w = v

(* The inner match of every arm of parse_with_param agrees with            *)
(* message_type().                                                         *)
LEMMA ArmsAgree == \A arm \in Arms : Agrees(arm)
<1> USE DEF Agrees, Arm, Variants, MessageType, WriteOnly
<1>1. Agrees(LinkArm) BY DEF LinkArm
<1>2. Agrees(AddressArm) BY DEF AddressArm
<1>3. Agrees(NeighbourArm) BY DEF NeighbourArm
<1>4. Agrees(NeighbourTableArm) BY DEF NeighbourTableArm
<1>5. Agrees(RouteArm) BY DEF RouteArm
<1>6. Agrees(PrefixArm) BY DEF PrefixArm
<1>7. Agrees(RuleArm) BY DEF RuleArm
<1>8. Agrees(TcArm) BY DEF TcArm
<1>9. Agrees(TcActionArm) BY DEF TcActionArm
<1>10. Agrees(NsidArm) BY DEF NsidArm
<1>11. Agrees(NexthopArm) BY DEF NexthopArm
<1>12. Agrees(MdbArm) BY DEF MdbArm
<1>13. Agrees(TunnelArm) BY DEF TunnelArm
<1> HIDE DEF Agrees, Arm, Variants, MessageType, WriteOnly
<1> QED
  BY <1>1, <1>2, <1>3, <1>4, <1>5, <1>6, <1>7, <1>8, <1>9, <1>10, <1>11, <1>12, <1>13 DEF Arms

(* No inner match lists a type twice.                                      *)
LEMMA ArmsOneToOne == \A arm \in Arms : OneToOne(arm)
<1> USE DEF OneToOne, Arm, RTM
<1>1. OneToOne(LinkArm) BY DEF LinkArm
<1>2. OneToOne(AddressArm) BY DEF AddressArm
<1>3. OneToOne(NeighbourArm) BY DEF NeighbourArm
<1>4. OneToOne(NeighbourTableArm) BY DEF NeighbourTableArm
<1>5. OneToOne(RouteArm) BY DEF RouteArm
<1>6. OneToOne(PrefixArm) BY DEF PrefixArm
<1>7. OneToOne(RuleArm) BY DEF RuleArm
<1>8. OneToOne(TcArm) BY DEF TcArm
<1>9. OneToOne(TcActionArm) BY DEF TcActionArm
<1>10. OneToOne(NsidArm) BY DEF NsidArm
<1>11. OneToOne(NexthopArm) BY DEF NexthopArm
<1>12. OneToOne(MdbArm) BY DEF MdbArm
<1>13. OneToOne(TunnelArm) BY DEF TunnelArm
<1> HIDE DEF OneToOne, Arm, RTM
<1> QED
  BY <1>1, <1>2, <1>3, <1>4, <1>5, <1>6, <1>7, <1>8, <1>9, <1>10, <1>11, <1>12, <1>13 DEF Arms

(* The types each arm takes, up to gaps.                                   *)
LEMMA ArmTypes ==
  /\ Range(LinkArm.inner) \subseteq 16 .. 19
  /\ Range(AddressArm.inner) \subseteq 20 .. 22
  /\ Range(NeighbourArm.inner) \subseteq 28 .. 30
  /\ Range(NeighbourTableArm.inner) \subseteq 64 .. 67
  /\ Range(RouteArm.inner) \subseteq 24 .. 26
  /\ Range(PrefixArm.inner) \subseteq {52}
  /\ Range(RuleArm.inner) \subseteq 32 .. 34
  /\ Range(TcArm.inner) \subseteq (36 .. 46) \cup (100 .. 102)
  /\ Range(TcActionArm.inner) \subseteq 48 .. 50
  /\ Range(NsidArm.inner) \subseteq 88 .. 90
  /\ Range(NexthopArm.inner) \subseteq 104 .. 106
  /\ Range(MdbArm.inner) \subseteq 84 .. 86
  /\ Range(TunnelArm.inner) \subseteq 120 .. 122
<1> USE DEF Range, Arm, RTM
<1>1. Range(LinkArm.inner) \subseteq 16 .. 19 BY DEF LinkArm
<1>2. Range(AddressArm.inner) \subseteq 20 .. 22 BY DEF AddressArm
<1>3. Range(NeighbourArm.inner) \subseteq 28 .. 30 BY DEF NeighbourArm
<1>4. Range(NeighbourTableArm.inner) \subseteq 64 .. 67 BY DEF NeighbourTableArm
<1>5. Range(RouteArm.inner) \subseteq 24 .. 26 BY DEF RouteArm
<1>6. Range(PrefixArm.inner) \subseteq {52} BY DEF PrefixArm
<1>7. Range(RuleArm.inner) \subseteq 32 .. 34 BY DEF RuleArm
<1>8. Range(TcArm.inner) \subseteq (36 .. 46) \cup (100 .. 102) BY DEF TcArm
<1>9. Range(TcActionArm.inner) \subseteq 48 .. 50 BY DEF TcActionArm
<1>10. Range(NsidArm.inner) \subseteq 88 .. 90 BY DEF NsidArm
<1>11. Range(NexthopArm.inner) \subseteq 104 .. 106 BY DEF NexthopArm
<1>12. Range(MdbArm.inner) \subseteq 84 .. 86 BY DEF MdbArm
<1>13. Range(TunnelArm.inner) \subseteq 120 .. 122 BY DEF TunnelArm
<1> QED BY <1>1, <1>2, <1>3, <1>4, <1>5, <1>6, <1>7, <1>8, <1>9, <1>10, <1>11, <1>12, <1>13

(* No message type is taken by two arms of the outer match.                *)
LEMMA OneArm ==
  ASSUME NEW type, NEW a \in Arms, NEW b \in Arms,
         type \in Range(a.inner), type \in Range(b.inner)
  PROVE  a = b
BY ArmTypes DEF Arms

(* Every variant but the two LinkProp ones is in the inner match of some   *)
(* arm.                                                                    *)
LEMMA VariantHasArm ==
  \A v \in Variants \ WriteOnly : \E arm \in Arms : v \in DOMAIN arm.inner
BY DEF Variants, MessageType, WriteOnly, Arms, Arm, LinkArm, AddressArm, NeighbourArm,
       NeighbourTableArm, RouteArm, PrefixArm, RuleArm, TcArm, TcActionArm, NsidArm,
       NexthopArm, MdbArm, TunnelArm

(* Every arm asks for a header of so many bytes.                           *)
LEMMA ArmHeaders ==
  \A arm \in Arms : arm.header \in Nat
BY DEF Arms, Arm, LinkArm, AddressArm, NeighbourArm, NeighbourTableArm, RouteArm, PrefixArm,
       RuleArm, TcArm, TcActionArm, NsidArm, NexthopArm, MdbArm, TunnelArm

(* A type that some arm takes reaches a variant, never the unreachable!()  *)
(* of the inner match; the variant is written under that type again, and   *)
(* emits as long a header as the arm asks for.                             *)
LEMMA Dispatch ==
  ASSUME NEW type, Handled(type)
  PROVE  /\ ArmOf(type) \in Arms /\ VariantOf(type) \in DOMAIN ArmOf(type).inner
         /\ VariantOf(type) \in Variants \ WriteOnly /\ MessageType[VariantOf(type)] = type
         /\ ArmOf(type).header = HeaderLen(VariantOf(type))
<1>1. ArmOf(type) \in Arms /\ type \in Range(ArmOf(type).inner) BY DEF Handled, ArmOf
<1>2. PICK v \in DOMAIN ArmOf(type).inner : ArmOf(type).inner[v] = type BY <1>1 DEF Range
<1>3. VariantOf(type) \in DOMAIN ArmOf(type).inner /\ ArmOf(type).inner[VariantOf(type)] = type
  BY <1>2 DEF VariantOf
<1>4. VariantOf(type) \in Variants \ WriteOnly /\ MessageType[VariantOf(type)] = type
  BY <1>1, <1>3, ArmsAgree DEF Agrees
<1>5. ASSUME NEW arm \in Arms, VariantOf(type) \in DOMAIN arm.inner PROVE arm = ArmOf(type)
  <2>1. arm.inner[VariantOf(type)] = type BY <1>4, <1>5, ArmsAgree DEF Agrees
  <2>2. type \in Range(arm.inner) BY <2>1, <1>5 DEF Range
  <2> QED BY <1>1, <2>2, OneArm
<1>6. (CHOOSE arm \in Arms : VariantOf(type) \in DOMAIN arm.inner) = ArmOf(type)
  <2>1. \E arm \in Arms : VariantOf(type) \in DOMAIN arm.inner BY <1>1, <1>3
  <2> QED BY <2>1, <1>5
<1>7. HeaderLen(VariantOf(type)) = ArmOf(type).header
  BY <1>4, <1>6 DEF HeaderLen, WriteOnly
<1> QED BY <1>1, <1>3, <1>4, <1>7

(* The type message_type() writes for a variant leads parse_with_param     *)
(* back to this variant, unless it is one of the LinkProp ones.            *)
LEMMA Answered ==
  ASSUME NEW v \in Variants \ WriteOnly
  PROVE  Handled(MessageType[v]) /\ VariantOf(MessageType[v]) = v
<1>1. PICK arm \in Arms : v \in DOMAIN arm.inner BY VariantHasArm
<1>2. arm.inner[v] = MessageType[v] BY <1>1, ArmsAgree DEF Agrees
<1>3. MessageType[v] \in Range(arm.inner) BY <1>1, <1>2 DEF Range
<1>4. Handled(MessageType[v]) BY <1>3 DEF Handled
<1>5. /\ ArmOf(MessageType[v]) \in Arms
      /\ MessageType[v] \in Range(ArmOf(MessageType[v]).inner)
  BY <1>4 DEF Handled, ArmOf
<1>6. ArmOf(MessageType[v]) = arm BY <1>3, <1>5, OneArm
<1>7. VariantOf(MessageType[v]) \in DOMAIN arm.inner
  BY <1>4, <1>6, Dispatch
<1>8. arm.inner[VariantOf(MessageType[v])] = MessageType[v]
  BY <1>4, <1>7, Dispatch, ArmsAgree DEF Agrees
<1>9. VariantOf(MessageType[v]) = v BY <1>1, <1>2, <1>7, <1>8, ArmsOneToOne DEF OneToOne
<1> QED BY <1>4, <1>9

(* No arm takes the types of the two LinkProp variants.                    *)
LEMMA WriteOnlyUnanswered == \A v \in WriteOnly : ~Handled(MessageType[v])
<1>1. \A v \in WriteOnly : MessageType[v] \in {108, 109} BY DEF WriteOnly, MessageType, RTM
<1> QED BY <1>1, ArmTypes DEF Handled, Arms

(* Every variant has a header to emit.                                     *)
LEMMA Headers == \A v \in Variants : HeaderLen(v) \in Nat
<1>1. \A v \in WriteOnly : HeaderLen(v) \in Nat
  BY DEF WriteOnly, HeaderLen, LinkArm, Arm
<1>2. \A v \in Variants \ WriteOnly : HeaderLen(v) \in Nat
  BY Answered, Dispatch, ArmHeaders
<1> QED BY <1>1, <1>2

(* The fallbacks for truncated headers only ever make requests.            *)
LEMMA FallbackIsGet ==
  ASSUME NEW type, Handled(type), type = ArmOf(type).fallback.type,
         NEW len \in ArmOf(type).fallback.lens
  PROVE  VariantOf(type) \in {"GetLink", "GetAddress", "GetRoute"}
<1>1. /\ ArmOf(type) \in Arms /\ VariantOf(type) \in DOMAIN ArmOf(type).inner
      /\ MessageType[VariantOf(type)] = type
  BY Dispatch
<1>2. ArmOf(type) \in {LinkArm, AddressArm, RouteArm}
  BY <1>1 DEF Arms, Arm, NoFallback, NeighbourArm, NeighbourTableArm, PrefixArm,
       RuleArm, TcArm, TcActionArm, NsidArm, NexthopArm, MdbArm, TunnelArm
<1>3. CASE ArmOf(type) = LinkArm
  BY <1>1, <1>3 DEF LinkArm, Arm, MessageType, RTM
<1>4. CASE ArmOf(type) = AddressArm
  BY <1>1, <1>4 DEF AddressArm, Arm, MessageType, RTM
<1>5. CASE ArmOf(type) = RouteArm
  BY <1>1, <1>5 DEF RouteArm, Arm, MessageType, RTM
<1> QED BY <1>2, <1>3, <1>4, <1>5
-----------------------------------------------------------------------------
(* What the bytes of the last serialisation say of the message.            *)
Serialized ==
  /\ msg \in Messages /\ wire.type = MessageType[msg.variant]
  /\ wire.family = msg.family /\ wire.attrsOk
  /\ wire.len >= HeaderLen(msg.variant)
  /\ msg.attrs = (wire.len > HeaderLen(msg.variant))

(* Where a message that is there comes from: a caller, or the wire, and    *)
(* then it is one of those parse_with_param has an arm for.  An error      *)
(* comes of bytes nobody serialised, or of a variant without an arm.       *)
SourceInv ==
  /\ status = "message" => msg \in Messages
  /\ (status = "message" /\ built = NoMessage) => seen # NoMessage
  /\ (status = "wire" /\ trips > 0) => Serialized
  /\ (status = "wire" /\ trips = 0) => 
       (wire.family \in Families /\ built = NoMessage /\ seen = NoMessage)
  /\ (built # NoMessage \/ seen # NoMessage) => msg \in Messages

(* Nothing is lost on the way: the message is still the caller's and the   *)
(* first one that was read.                                                *)
KeptInv ==
  /\ built # NoMessage => /\ msg = built
                          /\ status = "err" => built.variant \in WriteOnly
  /\ seen # NoMessage => /\ msg = seen /\ status # "err"
                         /\ seen.variant \notin WriteOnly

(* The inductive invariant.                                                *)
IInv == TypeOK /\ SourceInv /\ KeptInv /\ ShortIsBareGet

(* Message types are numbers.                                              *)
LEMMA NumbersGiven ==
  /\ Range(RTM) \subseteq Nat /\ UnusedTypes \subseteq Nat
  /\ \A v \in Variants : MessageType[v] \in Nat
<1>1. Range(RTM) \subseteq Nat BY DEF Range, RTM
<1>2. UnusedTypes \subseteq Nat BY DEF UnusedTypes
<1>3. \A v \in WriteOnly : MessageType[v] \in Nat BY DEF WriteOnly, MessageType, RTM
<1>4. ASSUME NEW v \in Variants \ WriteOnly PROVE MessageType[v] \in Nat
  <2>1. PICK arm \in Arms : v \in DOMAIN arm.inner BY VariantHasArm
  <2>2. MessageType[v] \in Range(arm.inner) BY <2>1, ArmsAgree DEF Agrees, Range
  <2>3. Range(arm.inner) \subseteq Nat BY ArmTypes DEF Arms
  <2> QED BY <2>2, <2>3
<1> QED BY <1>1, <1>2, <1>3, <1>4

(* No message is taken for the absent one.                                 *)
LEMMA NoMessageIsNone == NoMessage \notin Messages
<1>1. "None" \notin Variants BY DEF Variants, MessageType
<1> QED BY <1>1 DEF NoMessage, Messages

(* A message built by a caller and arbitrary bytes both start within the   *)
(* invariant.                                                              *)
LEMMA InitIInv == Init => IInv
<1> SUFFICES ASSUME Init PROVE IInv OBVIOUS
<1>1. trips = 0 /\ 0 \in 0 .. MaxTrips /\ seen = NoMessage
  BY MaxTripsAssumption DEF Init
<1>2. CASE wire \in Bytes /\ msg = NoMessage /\ built = NoMessage /\ status = "wire"
  <2>1. wire \in [type : Nat, len : Nat, family : Families \cup {0}, attrsOk : BOOLEAN]
    <3>1. Range(RTM) \cup UnusedTypes \subseteq Nat BY NumbersGiven
    <3>2. 0 .. MaxLen \subseteq Nat BY MaxLenAssumption
    <3> QED BY <1>2, <3>1, <3>2 DEF Bytes
  <2>2. wire.family \in Families BY <1>2 DEF Bytes
  <2> QED BY <1>1, <1>2, <2>1, <2>2
       DEF IInv, TypeOK, SourceInv, KeptInv, ShortIsBareGet
<1>3. CASE msg \in Messages /\ built = msg /\ wire = NoBytes /\ status = "message"
  <2>1. wire \in [type : Nat, len : Nat, family : Families \cup {0}, attrsOk : BOOLEAN]
    BY <1>3 DEF NoBytes
  <2> QED BY <1>1, <1>3, <2>1, NoMessageIsNone
       DEF IInv, TypeOK, SourceInv, KeptInv, ShortIsBareGet
<1> QED BY <1>2, <1>3 DEF Init

(* Bytes that were serialised are answered by the message they came from.  *)
LEMMA SerializedAnswered ==
  ASSUME IInv, Serialized, status = "wire"
  PROVE  /\ msg.variant \in WriteOnly => ~Handled(wire.type)
         /\ msg.variant \notin WriteOnly =>
              /\ Handled(wire.type) /\ VariantOf(wire.type) = msg.variant
              /\ ArmOf(wire.type).header = HeaderLen(msg.variant)
<1>1. msg.variant \in Variants BY DEF Serialized, Messages
<1>2. CASE msg.variant \in WriteOnly BY <1>2, WriteOnlyUnanswered DEF Serialized
<1>3. CASE msg.variant \notin WriteOnly
  <2>1. Handled(wire.type) /\ VariantOf(wire.type) = msg.variant
    BY <1>1, <1>3, Answered DEF Serialized
  <2> QED BY <1>3, <2>1, Dispatch
<1> QED BY <1>2, <1>3

(* A message is read off the bytes of a caller, or off bytes nobody        *)
(* serialised, and either way it keeps the invariant.                      *)
LEMMA ReturnedStep ==
  ASSUME IInv, status = "wire", Handled(wire.type),
         NEW m \in [variant : {VariantOf(wire.type)}, family : {wire.family},
                    fields : {"set", "default"}, attrs : BOOLEAN],
         trips > 0 => m = msg,
         wire.len < ArmOf(wire.type).header =>
           /\ m.variant \in {"GetLink", "GetAddress", "GetRoute"}
           /\ m.fields = "default" /\ ~m.attrs,
         Returned(m)
  PROVE  IInv'
<1>1. TypeOK /\ SourceInv /\ KeptInv BY DEF IInv
<1>2. /\ VariantOf(wire.type) \in Variants \ WriteOnly
      /\ ArmOf(wire.type).header = HeaderLen(VariantOf(wire.type))
  BY Dispatch
<1>3. trips \in Nat BY <1>1 DEF TypeOK
<1>4. m \in Messages
  <2>1. CASE trips > 0 BY <2>1, <1>1 DEF SourceInv, Serialized
  <2>2. CASE trips = 0 BY <2>2, <1>1, <1>2 DEF SourceInv, Messages
  <2> QED BY <2>1, <2>2, <1>3
<1>5. /\ msg' = m /\ seen' = (IF seen = NoMessage THEN m ELSE seen) /\ status' = "message"
      /\ wire' = wire /\ built' = built /\ trips' = trips
  BY DEF Returned
<1>6. m # NoMessage BY <1>4, NoMessageIsNone
<1>7. seen' # NoMessage /\ seen' \in Messages \cup {NoMessage}
  BY <1>1, <1>4, <1>5, <1>6 DEF TypeOK
<1>8. TypeOK' BY <1>1, <1>4, <1>5, <1>7 DEF TypeOK
<1>9. SourceInv' BY <1>1, <1>4, <1>5, <1>7 DEF SourceInv
<1>10. KeptInv'
  <2>1. built # NoMessage \/ seen # NoMessage => trips > 0 BY <1>1, <1>3 DEF SourceInv
  <2>2. built # NoMessage => m = built BY <2>1, <1>1 DEF KeptInv
  <2>3. seen' = m BY <2>1, <1>1, <1>5 DEF KeptInv
  <2> QED BY <1>2, <1>5, <2>2, <2>3 DEF KeptInv
<1>11. ShortIsBareGet' BY <1>2, <1>5 DEF ShortIsBareGet
<1> QED BY <1>8, <1>9, <1>10, <1>11 DEF IInv

(* A refusal leaves the invariant when nothing that was read or that has   *)
(* an arm is refused.                                                      *)
LEMMA FailedStep ==
  ASSUME IInv, status = "wire", Failed,
         trips > 0 => msg.variant \in WriteOnly
  PROVE  IInv'
<1>1. TypeOK /\ SourceInv /\ KeptInv BY DEF IInv
<1>2. /\ status' = "err" /\ wire' = wire /\ msg' = msg /\ built' = built /\ seen' = seen
      /\ trips' = trips
  BY DEF Failed
<1>3. trips \in Nat BY <1>1 DEF TypeOK
<1>4. built # NoMessage \/ seen # NoMessage => msg.variant \in WriteOnly
  BY <1>1, <1>3 DEF SourceInv
<1>5. seen = NoMessage BY <1>1, <1>4 DEF KeptInv
<1>6. TypeOK' BY <1>1, <1>2 DEF TypeOK
<1>7. SourceInv' BY <1>1, <1>2 DEF SourceInv
<1>8. KeptInv' BY <1>1, <1>2, <1>4, <1>5 DEF KeptInv
<1>9. ShortIsBareGet' BY <1>2 DEF ShortIsBareGet
<1> QED BY <1>6, <1>7, <1>8, <1>9 DEF IInv

(* Every action of RouteNetlinkMessage keeps the invariant.                *)
LEMMA NextIInv == IInv /\ [Next]_vars => IInv'
<1> SUFFICES ASSUME IInv, [Next]_vars PROVE IInv' OBVIOUS
<1>1. TypeOK /\ SourceInv /\ KeptInv /\ ShortIsBareGet BY DEF IInv
<1>2. /\ trips \in Nat /\ wire.len \in Nat /\ wire.attrsOk \in BOOLEAN BY <1>1 DEF TypeOK
<1>3. Handled(wire.type) => ArmOf(wire.type).header \in Nat BY Dispatch, ArmHeaders
<1>4. (status = "wire" /\ trips > 0) => Serialized BY <1>1 DEF SourceInv
<1>5. ASSUME ParseFull PROVE IInv'
  <2>1. status = "wire" /\ Handled(wire.type) /\ wire.len >= ArmOf(wire.type).header
    BY <1>5 DEF ParseFull
  <2>2. PICK fields \in {"set", "default"}, attrs \in BOOLEAN :
          /\ trips > 0 => fields = msg.fields
          /\ trips > 0 => attrs = (wire.len > ArmOf(wire.type).header)
          /\ Returned([variant |-> VariantOf(wire.type), family |-> wire.family,
                       fields |-> fields, attrs |-> attrs])
    BY <1>5 DEF ParseFull
  <2> DEFINE m == [variant |-> VariantOf(wire.type), family |-> wire.family,
                   fields |-> fields, attrs |-> attrs]
  <2>3. ASSUME trips > 0 PROVE m = msg
    <3>1. Serialized BY <1>4, <2>1, <2>3
    <3>2. VariantOf(wire.type) = msg.variant
          /\ ArmOf(wire.type).header = HeaderLen(msg.variant)
      BY <3>1, <2>1, SerializedAnswered
    <3>3. /\ msg \in Messages /\ wire.family = msg.family /\ fields = msg.fields
          /\ msg.attrs = attrs
      BY <3>1, <3>2, <2>2, <2>3 DEF Serialized
    <3>4. msg = [variant |-> msg.variant, family |-> msg.family, fields |-> msg.fields,
                 attrs |-> msg.attrs]
      BY <3>3 DEF Messages
    <3> QED BY <3>2, <3>3, <3>4
  <2>4. m \in [variant : {VariantOf(wire.type)}, family : {wire.family},
               fields : {"set", "default"}, attrs : BOOLEAN]
    OBVIOUS
  <2>5. ~(wire.len < ArmOf(wire.type).header) BY <1>2, <1>3, <2>1
  <2>6. Returned(m) BY <2>2
  <2> HIDE DEF m
  <2> QED BY <2>1, <2>3, <2>4, <2>5, <2>6, ReturnedStep
<1>6. ASSUME RefuseAttributes PROVE IInv'
  <2>1. ~(trips > 0) BY <1>4, <1>6 DEF RefuseAttributes, Serialized
  <2> QED BY <1>6, <2>1, FailedStep DEF RefuseAttributes
<1>7. ASSUME ParseShort PROVE IInv'
  <2>1. /\ status = "wire" /\ Handled(wire.type) /\ wire.len < ArmOf(wire.type).header
        /\ wire.type = ArmOf(wire.type).fallback.type
        /\ wire.len \in ArmOf(wire.type).fallback.lens
    BY <1>7 DEF ParseShort
  <2> DEFINE m == [variant |-> VariantOf(wire.type), family |-> wire.family,
                   fields |-> "default", attrs |-> FALSE]
  <2>2. ~(trips > 0)
    <3>1. ASSUME Serialized PROVE FALSE
      <4>1. wire.len >= ArmOf(wire.type).header
        BY <2>1, <3>1, SerializedAnswered DEF Serialized
      <4> QED BY <4>1, <2>1, <1>2, <1>3
    <3> QED BY <3>1, <1>4, <2>1
  <2>3. VariantOf(wire.type) \in {"GetLink", "GetAddress", "GetRoute"}
    BY <2>1, FallbackIsGet
  <2>4. m \in [variant : {VariantOf(wire.type)}, family : {wire.family},
               fields : {"set", "default"}, attrs : BOOLEAN]
    OBVIOUS
  <2>5. Returned(m) BY <1>7 DEF ParseShort
  <2>6. m.variant \in {"GetLink", "GetAddress", "GetRoute"} /\ m.fields = "default" /\ ~m.attrs
    BY <2>3
  <2> HIDE DEF m
  <2> QED BY <2>1, <2>2, <2>4, <2>5, <2>6, ReturnedStep
<1>8. ASSUME RefuseShort PROVE IInv'
  <2>1. status = "wire" /\ Handled(wire.type) /\ wire.len < ArmOf(wire.type).header /\ Failed
    BY <1>8 DEF RefuseShort
  <2>2. ~(trips > 0)
    <3>1. ASSUME Serialized PROVE FALSE
      <4>1. wire.len >= ArmOf(wire.type).header
        BY <2>1, <3>1, SerializedAnswered DEF Serialized
      <4> QED BY <4>1, <2>1, <1>2, <1>3
    <3> QED BY <3>1, <1>4, <2>1
  <2> QED BY <2>1, <2>2, FailedStep
<1>9. ASSUME UnknownType PROVE IInv'
  <2>1. status = "wire" /\ ~Handled(wire.type) /\ Failed BY <1>9 DEF UnknownType
  <2>2. trips > 0 => msg.variant \in WriteOnly BY <2>1, <1>4, SerializedAnswered
  <2> QED BY <2>1, <2>2, FailedStep
<1>10. ASSUME Serialize PROVE IInv'
  <2>1. PICK attrBytes \in IF msg.attrs THEN {4, 8} ELSE {0} :
          wire' = [type |-> MessageType[msg.variant],
                   len |-> HeaderLen(msg.variant) + attrBytes,
                   family |-> msg.family, attrsOk |-> TRUE]
    BY <1>10 DEF Serialize
  <2>2. /\ status = "message" /\ trips < MaxTrips /\ status' = "wire" /\ trips' = trips + 1
        /\ msg' = msg /\ built' = built /\ seen' = seen
    BY <1>10 DEF Serialize
  <2>3. msg \in Messages BY <2>2, <1>1 DEF SourceInv
  <2>4. /\ msg.variant \in Variants /\ msg.family \in Families /\ msg.attrs \in BOOLEAN
    BY <2>3 DEF Messages
  <2>5. /\ MessageType[msg.variant] \in Nat /\ HeaderLen(msg.variant) \in Nat
    BY <2>4, NumbersGiven, Headers
  <2>6. /\ attrBytes \in Nat /\ msg.attrs = (attrBytes > 0) BY <2>1, <2>4
  <2>7. /\ wire'.type = MessageType[msg.variant] /\ wire'.family = msg.family /\ wire'.attrsOk
        /\ wire'.len = HeaderLen(msg.variant) + attrBytes
    BY <2>1
  <2>8. Serialized' BY <2>2, <2>3, <2>5, <2>6, <2>7 DEF Serialized
  <2>9. TypeOK'
    <3>1. wire' \in [type : Nat, len : Nat, family : Families \cup {0}, attrsOk : BOOLEAN]
      BY <2>1, <2>4, <2>5, <2>6
    <3>2. trips' \in 0 .. MaxTrips BY <1>2, <2>2, MaxTripsAssumption
    <3> QED BY <3>1, <3>2, <2>2, <1>1 DEF TypeOK
  <2>10. SourceInv' BY <1>1, <1>2, <2>2, <2>3, <2>8 DEF SourceInv
  <2>11. KeptInv' BY <1>1, <2>2 DEF KeptInv
  <2>12. ShortIsBareGet' BY <2>2 DEF ShortIsBareGet
  <2> QED BY <2>9, <2>10, <2>11, <2>12 DEF IInv
<1>11. ASSUME UNCHANGED vars PROVE IInv'
  BY <1>1, <1>11 DEF vars, IInv, TypeOK, SourceInv, KeptInv, ShortIsBareGet, Serialized
<1> QED BY <1>5, <1>6, <1>7, <1>8, <1>9, <1>10, <1>11 DEF Next

(* The invariant gives the four properties.                                *)
LEMMA IInvGives == IInv => TypeOK /\ RoundTrip /\ Stable /\ ShortIsBareGet
BY DEF IInv, KeptInv, RoundTrip, Stable

(* parse_with_param returns one of the 49 variants with a family its       *)
(* header holds, and never reaches the unreachable!() of an inner match.   *)
THEOREM TypeOKHolds == Spec => []TypeOK
BY InitIInv, NextIInv, IInvGives, PTL DEF Spec

(* What a caller serialises is deserialised to the same value, for every   *)
(* variant but RTM_{NEW,DEL}LINKPROP, which parse_with_param refuses.      *)
THEOREM RoundTripHolds == Spec => []RoundTrip
BY InitIInv, NextIInv, IInvGives, PTL DEF Spec

(* What parse_with_param has accepted once, truncated requests included,   *)
(* is serialised to bytes it accepts again, and to the same value.         *)
THEOREM StableHolds == Spec => []Stable
BY InitIInv, NextIInv, IInvGives, PTL DEF Spec

(* A body shorter than its header is only ever taken for a dump request    *)
(* with default fields and no attributes.                                  *)
THEOREM ShortIsBareGetHolds == Spec => []ShortIsBareGet
BY InitIInv, NextIInv, IInvGives, PTL DEF Spec
===============================================================================
