---------------------------- MODULE TcAction_proofs ----------------------------
(***************************************************************************)
(* Proofs about the two passes over the attributes of an action, for       *)
(* messages of any number of actions, every set of kinds and any number of *)
(* trips: an action has exactly one kind, its options are decoded under    *)
(* it, and what was decoded survives its emission.                         *)
(***************************************************************************)
EXTENDS TcAction, FiniteSetTheorems, TLAPS

USE DEF Empty

KindsGiven == Kinds \cap {"broken", Empty} = {}

Given ==
  /\ KindsGiven /\ Tabs \subseteq TabIds
  /\ MaxAttrs \in Nat /\ MaxInPair \in Nat /\ MaxTrips \in Nat

Tags == {"Kind", "Options", "Plain", "Malformed"}

(* The attributes that can be on the wire.                                 *)
Readable ==
  {w \in [tag : Tags, is : Kinds \cup {Empty, "ok", "broken"}, raw : {Empty}] :
     /\ w.tag = "Kind" => w.is \in Kinds \cup {Empty}
     /\ w.tag = "Options" => w.is \in Kinds \cup {"broken"}
     /\ w.tag = "Plain" => w.is \in {"ok", "broken"}
     /\ w.tag = "Malformed" => w.is = Empty}

(* The values decoding can return or a caller can build.                   *)
Proper ==
  {v \in [tag : Tags, is : Kinds \cup {"Other", "Mirror", "Nat", "ok"},
          raw : Kinds \cup {Empty}] :
     \/ v.tag = "Kind" /\ v.is \in Kinds /\ v.raw = Empty
     \/ v.tag = "Plain" /\ v.is = "ok" /\ v.raw = Empty
     \/ v.tag = "Options" /\ v.is = "Other" /\ v.raw \in Kinds
     \/ v.tag = "Options" /\ v.is = "Mirror" /\ v.raw = Empty /\ "mirred" \in Kinds
     \/ v.tag = "Options" /\ v.is = "Nat" /\ v.raw = Empty /\ "nat" \in Kinds}

WireAction == [tab : TabIds, nlas : Seq(Readable)]
ProperAction == [tab : TabIds, nlas : Seq(Proper)]

Single(action) == \E k : KindsIn(action) = {k}

(* Action a is what TcAction::parse returns of w.                          *)
DecodedFrom(w, a) ==
  /\ Single(w)
  /\ a.tab = w.tab % KindMask
  /\ Len(a.nlas) = Len(w.nlas)
  /\ \A j \in 1 .. Len(w.nlas) : a.nlas[j] \in Decodings(w.nlas[j], TheKind(w))
  /\ TheKind(w) \in Kinds

(* Action w is an emission of a, the flags of the table id aside.          *)
EchoOf(w, a) ==
  /\ w.tab % KindMask = a.tab % KindMask
  /\ Len(w.nlas) = Len(a.nlas)
  /\ \A j \in 1 .. Len(a.nlas) : w.nlas[j] = Emitted(a.nlas[j])

Echoed(list) ==
  Len(wire) = Len(list) /\ \A a \in 1 .. Len(list) : EchoOf(wire[a], list[a])

(* Coherent, without counting.                                             *)
Fits(a) ==
  /\ Single(a)
  /\ \A k \in 1 .. Len(a.nlas) :
       a.nlas[k].tag = "Options" => a.nlas[k].is = OptionVariant(TheKind(a))

AllFit(list) == \A a \in 1 .. Len(list) : Fits(list[a])
AllSingle(list) == \A a \in 1 .. Len(list) : Single(list[a])

(* The kinds in front of attribute n.                                      *)
KindsBefore(list, n) == {k \in 1 .. n - 1 : list[k].tag = "Kind"}

ListsInv ==
  /\ wire \in Seq(WireAction) /\ actions \in Seq(ProperAction)
  /\ built \in Seq(ProperAction) \cup {None} /\ received \in Seq(WireAction) \cup {None}
  /\ seen \in Seq(ProperAction) \cup {None}
  /\ kinds \in Seq(Kinds) /\ attributes \in Seq(Proper)
  /\ idx \in Nat \ {0}
  /\ trips \in 0 .. MaxTrips
  /\ status \in {"collecting", "parsing", "value", "err"}
  /\ received = None <=> built # None

(* The two passes over the action at hand.                                 *)
PassInv ==
  /\ status = "value" => idx = 1 /\ kinds = <<>> /\ attributes = <<>>
  /\ status = "collecting" =>
       /\ Len(actions) <= Len(wire) /\ attributes = <<>>
       /\ ~More => idx = 1 /\ kinds = <<>>
       /\ More => /\ idx <= Len(Here) + 1
                  /\ Len(kinds) = Cardinality(KindsBefore(Here, idx))
                  /\ Len(kinds) = 1 => \A k \in KindsBefore(Here, idx) : kinds[1] = Here[k].is
  /\ status = "parsing" =>
       /\ More
       /\ Len(kinds) = 1 /\ Single(wire[Len(actions) + 1])
       /\ kinds[1] = TheKind(wire[Len(actions) + 1])
       /\ idx <= Len(Here) + 1 /\ Len(attributes) = idx - 1
       /\ \A j \in 1 .. idx - 1 : attributes[j] \in Decodings(Here[j], kinds[1])

(* What has been decoded of the message so far.                            *)
DecodedInv ==
  (status # "value" \/ trips > 0 \/ built = None) =>
    /\ \A a \in 1 .. Len(actions) : DecodedFrom(wire[a], actions[a])
    /\ status = "value" => Len(actions) = Len(wire)
    /\ Len(actions) <= Len(wire)

CallerInv ==
  built # None =>
    /\ seen = built
    /\ trips = 0 => status = "value" /\ actions = built
    /\ (trips > 0 /\ AllFit(built)) => status # "err" /\ Echoed(built)
    /\ (trips > 0 /\ ~AllSingle(built)) => status # "value" /\ Echoed(built)

ReceivedInv ==
  received # None =>
    /\ trips = 0 => wire = received
    /\ seen = None => trips = 0 /\ status # "value"
    /\ seen # None =>
         /\ Len(seen) = Len(received) /\ status # "err"
         /\ \A a \in 1 .. Len(received) : DecodedFrom(received[a], seen[a])
         /\ trips = 0 => status = "value" /\ actions = seen
         /\ trips > 0 => Echoed(seen)

IInv == ListsInv /\ PassInv /\ DecodedInv /\ CallerInv /\ ReceivedInv
-----------------------------------------------------------------------------
(* The kinds of an action, and those in front of an attribute, are counted *)
(* as sets of positions.                                                   *)
LEMMA KindsFinite ==
  ASSUME NEW list, Len(list) \in Nat, NEW n \in Nat \ {0}, n <= Len(list) + 1
  PROVE  /\ IsFiniteSet(KindsBefore(list, n)) /\ Cardinality(KindsBefore(list, n)) \in Nat
         /\ Cardinality(KindsBefore(list, n)) <= Cardinality(KindsBefore(list, Len(list) + 1))
<1> DEFINE all == KindsBefore(list, Len(list) + 1)
<1>1. IsFiniteSet(all)
  <2>1. IsFiniteSet(1 .. Len(list)) BY FS_Interval
  <2>2. all \in SUBSET (1 .. Len(list)) BY DEF KindsBefore
  <2> HIDE DEF all
  <2> QED BY <2>1, <2>2, FS_Subset
<1>2. KindsBefore(list, n) \in SUBSET all BY DEF KindsBefore
<1> HIDE DEF all
<1>3. IsFiniteSet(KindsBefore(list, n)) /\ Cardinality(KindsBefore(list, n)) <= Cardinality(all)
  BY <1>1, <1>2, FS_Subset
<1>4. Cardinality(KindsBefore(list, n)) \in Nat BY <1>3, FS_CardinalityType
<1> QED BY <1>3, <1>4 DEF all

(* They are the kinds in front of the end.                                 *)
LEMMA KindsFront ==
  ASSUME NEW a, Len(a.nlas) \in Nat
  PROVE  KindsIn(a) = KindsBefore(a.nlas, Len(a.nlas) + 1)
BY DEF KindsIn, KindsBefore

(* A kind is one more for what follows it, anything else makes no          *)
(* difference.                                                             *)
LEMMA FrontNext ==
  ASSUME NEW list, Len(list) \in Nat, NEW n \in 1 .. Len(list)
  PROVE  /\ list[n].tag = "Kind" =>
              /\ KindsBefore(list, n + 1) = KindsBefore(list, n) \cup {n}
              /\ Cardinality(KindsBefore(list, n + 1)) = Cardinality(KindsBefore(list, n)) + 1
         /\ list[n].tag # "Kind" => KindsBefore(list, n + 1) = KindsBefore(list, n)
<1>1. n \in Nat \ {0} /\ n <= Len(list) + 1 OBVIOUS
<1>2. IsFiniteSet(KindsBefore(list, n)) BY <1>1, KindsFinite
<1>3. n \notin KindsBefore(list, n) BY DEF KindsBefore
<1>4. \A i \in 1 .. (n + 1) - 1 : i \in 1 .. n - 1 \/ i = n OBVIOUS
<1>5. \A i \in 1 .. n - 1 : i \in 1 .. (n + 1) - 1 OBVIOUS
<1>6. n \in 1 .. (n + 1) - 1 OBVIOUS
<1>7. list[n].tag = "Kind" => KindsBefore(list, n + 1) = KindsBefore(list, n) \cup {n}
  BY <1>4, <1>5, <1>6 DEF KindsBefore
<1>8. list[n].tag # "Kind" => KindsBefore(list, n + 1) = KindsBefore(list, n)
  BY <1>4, <1>5 DEF KindsBefore
<1>9. Cardinality(KindsBefore(list, n) \cup {n}) = Cardinality(KindsBefore(list, n)) + 1
  BY <1>2, <1>3, FS_AddElement
<1> QED BY <1>7, <1>8, <1>9

(* Nothing is in front of the first attribute.                             *)
LEMMA FrontFirst ==
  \A list : KindsBefore(list, 1) = {} /\ Cardinality(KindsBefore(list, 1)) = 0
<1>1. \A list : KindsBefore(list, 1) = {} BY DEF KindsBefore
<1> QED BY <1>1, FS_EmptySet

(* An action has one kind when it has just one position of it.             *)
LEMMA SingleCount ==
  ASSUME NEW a, Len(a.nlas) \in Nat
  PROVE  Cardinality(KindsIn(a)) = 1 <=> Single(a)
<1>1. IsFiniteSet(KindsIn(a)) BY KindsFinite, KindsFront
<1> QED BY <1>1, FS_Singleton DEF Single

(* Then that is the kind of the action.                                    *)
LEMMA SingleKind ==
  ASSUME NEW a, Single(a)
  PROVE  \E k \in 1 .. Len(a.nlas) :
           /\ a.nlas[k].tag = "Kind" /\ TheKind(a) = a.nlas[k].is
           /\ \A j \in 1 .. Len(a.nlas) : a.nlas[j].tag = "Kind" => j = k
<1>1. PICK k : KindsIn(a) = {k} BY DEF Single
<1>2. TheKind(a) = a.nlas[k].is BY <1>1 DEF TheKind
<1>3. k \in KindsIn(a) /\ \A j \in KindsIn(a) : j = k BY <1>1
<1> QED BY <1>2, <1>3 DEF KindsIn

(* Whether it is so depends on the tags, and which kind it is on the kinds *)
(* only.                                                                   *)
LEMMA SingleSame ==
  ASSUME NEW a, NEW b, Len(a.nlas) = Len(b.nlas),
         \A j \in 1 .. Len(a.nlas) :
           /\ a.nlas[j].tag = b.nlas[j].tag
           /\ a.nlas[j].tag = "Kind" => a.nlas[j].is = b.nlas[j].is
  PROVE  /\ KindsIn(a) = KindsIn(b) /\ (Single(a) <=> Single(b))
         /\ Single(a) => TheKind(a) = TheKind(b)
<1>1. KindsIn(a) = KindsIn(b) BY DEF KindsIn
<1>2. Single(a) <=> Single(b) BY <1>1 DEF Single
<1>3. ASSUME Single(a) PROVE TheKind(a) = TheKind(b)
  <2>1. PICK k : KindsIn(a) = {k} BY <1>3 DEF Single
  <2>2. TheKind(a) = a.nlas[k].is /\ TheKind(b) = b.nlas[k].is
    BY <1>1, <2>1 DEF TheKind
  <2>3. k \in 1 .. Len(a.nlas) /\ a.nlas[k].tag = "Kind" BY <2>1 DEF KindsIn
  <2> QED BY <2>2, <2>3
<1> QED BY <1>1, <1>2, <1>3
-----------------------------------------------------------------------------
(* The fields of attributes.                                               *)
LEMMA AttrFields ==
  /\ \A tag, is : /\ Attr(tag, is).tag = tag /\ Attr(tag, is).is = is
                  /\ Attr(tag, is).raw = Empty
  /\ \A l : /\ OtherOptions(l).tag = "Options" /\ OtherOptions(l).is = "Other"
            /\ OtherOptions(l).raw = l
BY DEF Attr, OtherOptions

(* The variants of kinds.                                                  *)
LEMMA Variants ==
  /\ \A k : OptionVariant(k) \in {"Mirror", "Nat", "Other"}
  /\ \A k : OptionVariant(k) = "Mirror" => k = "mirred"
  /\ \A k : OptionVariant(k) = "Nat" => k = "nat"
BY DEF OptionVariant

(* An attribute is decoded under a kind to a value of that kind.           *)
LEMMA DecodeValue ==
  ASSUME KindsGiven, NEW w \in Readable, NEW k \in Kinds, NEW v \in Decodings(w, k),
         w.tag = "Kind" => w.is \in Kinds
  PROVE  /\ v \in Proper /\ v.tag = w.tag /\ w.tag # "Malformed"
         /\ w.tag = "Kind" => v = w
         /\ w.tag = "Options" => v.is = OptionVariant(k)
<1>1. /\ w \in [tag : Tags, is : Kinds \cup {Empty, "ok", "broken"}, raw : {Empty}]
      /\ w.tag = "Options" => w.is \in Kinds \cup {"broken"}
      /\ w.tag = "Plain" => w.is \in {"ok", "broken"}
  BY DEF Readable
<1>2. w.is # "broken" /\ w.tag # "Malformed" BY DEF Decodings
<1>3. CASE w.tag = "Options"
  <2>1. w.is \in Kinds BY <1>1, <1>2, <1>3
  <2>2. v = IF OptionVariant(k) = "Other" THEN OtherOptions(w.is)
            ELSE Attr("Options", OptionVariant(k))
    BY <1>2, <1>3 DEF Decodings
  <2>3. "Options" \in Tags BY DEF Tags
  <2>4. CASE OptionVariant(k) = "Other"
    <3>1. v = [tag |-> "Options", is |-> "Other", raw |-> w.is]
      BY <2>2, <2>4 DEF OtherOptions
    <3>2. v \in Proper BY <2>1, <2>3, <3>1 DEF Proper
    <3> QED BY <1>2, <1>3, <2>4, <3>1, <3>2
  <2>5. CASE OptionVariant(k) = "Mirror"
    <3>1. "mirred" \in Kinds BY <2>5, Variants
    <3>2. v = Attr("Options", "Mirror") BY <2>2, <2>5
    <3> QED BY <1>2, <1>3, <2>3, <2>5, <3>1, <3>2 DEF Proper, Attr
  <2>6. CASE OptionVariant(k) = "Nat"
    <3>1. "nat" \in Kinds BY <2>6, Variants
    <3>2. v = Attr("Options", "Nat") BY <2>2, <2>6
    <3> QED BY <1>2, <1>3, <2>3, <2>6, <3>1, <3>2 DEF Proper, Attr
  <2> QED BY <2>4, <2>5, <2>6, Variants
<1>4. CASE w.tag # "Options"
  <2>1. v = w BY <1>2, <1>4 DEF Decodings
  <2>2. (w.tag = "Kind" /\ w.is \in Kinds) \/ (w.tag = "Plain" /\ w.is = "ok")
    BY <1>1, <1>2, <1>4 DEF Tags
  <2>3. w \in [tag : Tags, is : Kinds \cup {"Other", "Mirror", "Nat", "ok"},
               raw : Kinds \cup {Empty}]
    BY <1>1, <2>2
  <2>4. w \in Proper BY <1>1, <2>2, <2>3 DEF Proper
  <2> QED BY <1>2, <1>4, <2>1, <2>4
<1> QED BY <1>3, <1>4

(* A value is emitted to an attribute that decodes to it, under the kind   *)
(* it goes with.                                                           *)
LEMMA EchoValue ==
  ASSUME KindsGiven, NEW v \in Proper
  PROVE  /\ Emitted(v) \in Readable /\ Emitted(v).tag = v.tag
         /\ v.tag = "Kind" => Emitted(v) = v /\ v.is \in Kinds
         /\ Emitted(v).is # "broken" /\ v.tag # "Malformed"
         /\ Emitted(v) \notin {Attr("Kind", Empty), Attr("Malformed", Empty)}
         /\ \A k : (v.tag = "Options" => v.is = OptionVariant(k)) =>
              Decodings(Emitted(v), k) = {v} /\ ~MayFail(Emitted(v), k)
<1>1. /\ v \in [tag : Tags, is : Kinds \cup {"Other", "Mirror", "Nat", "ok"},
                raw : Kinds \cup {Empty}]
      /\ v = [tag |-> v.tag, is |-> v.is, raw |-> v.raw]
  BY DEF Proper
<1>2. "Options" \in Tags BY DEF Tags
<1>3. CASE v.tag = "Options"
  <2> DEFINE l == IF v.is = "Other" THEN v.raw ELSE IF v.is = "Mirror" THEN "mirred" ELSE "nat"
  <2>1. l \in Kinds BY <1>3 DEF Proper
  <2>2. Emitted(v) = Attr("Options", l) BY <1>3 DEF Emitted
  <2>3. l # "broken" BY <2>1 DEF KindsGiven
  <2>4. Emitted(v) \in Readable BY <1>2, <2>1, <2>2 DEF Readable, Attr
  <2>5. Emitted(v).tag = "Options" /\ Emitted(v).is = l BY <2>2, AttrFields
  <2>6. ASSUME NEW k, v.is = OptionVariant(k)
        PROVE  Decodings(Emitted(v), k) = {v} /\ ~MayFail(Emitted(v), k)
    <3>1. CASE v.is = "Other"
      <4>1. v = OtherOptions(l) BY <1>1, <1>3, <3>1 DEF OtherOptions
      <4>2. Decodings(Emitted(v), k) = {v}
        BY <2>3, <2>5, <2>6, <3>1, <4>1 DEF Decodings
      <4> QED BY <2>6, <3>1, <4>2 DEF MayFail
    <3>2. CASE v.is # "Other"
      <4>1. v.raw = Empty /\ v.is \in {"Mirror", "Nat"} BY <1>3, <3>2 DEF Proper
      <4>2. v = Attr("Options", v.is) BY <1>1, <1>3, <4>1 DEF Attr
      <4>3. Decodings(Emitted(v), k) = {v}
        BY <2>3, <2>5, <2>6, <3>2, <4>2 DEF Decodings
      <4>4. l = k BY <2>6, <4>1, Variants
      <4> QED BY <2>5, <4>3, <4>4 DEF MayFail
    <3> QED BY <3>1, <3>2
  <2>7. Emitted(v) \notin {Attr("Kind", Empty), Attr("Malformed", Empty)}
    BY <2>5, AttrFields
  <2> HIDE DEF l
  <2> QED BY <1>3, <2>3, <2>4, <2>5, <2>6, <2>7
<1>4. CASE v.tag # "Options"
  <2>1. Emitted(v) = v BY <1>4 DEF Emitted
  <2>2. /\ (v.tag = "Kind" /\ v.is \in Kinds) \/ (v.tag = "Plain" /\ v.is = "ok")
        /\ v.raw = Empty
    BY <1>4 DEF Proper
  <2>3. v.is # "broken" /\ (v.tag = "Kind" => v.is # Empty) BY <2>2 DEF KindsGiven
  <2>4. v \in Readable BY <1>1, <2>2 DEF Readable
  <2>5. \A k : Decodings(v, k) = {v} /\ ~MayFail(v, k)
    <3>1. \A k : Decodings(v, k) = {v} BY <1>4, <2>2, <2>3 DEF Decodings
    <3> QED BY <1>4, <3>1 DEF MayFail
  <2>6. v \notin {Attr("Kind", Empty), Attr("Malformed", Empty)}
    BY <2>2, <2>3, AttrFields
  <2> QED BY <1>4, <2>1, <2>2, <2>3, <2>4, <2>5, <2>6
<1> QED BY <1>3, <1>4
-----------------------------------------------------------------------------
(* Dropping the flags of a table id leaves one without flags.              *)
LEMMA Mask ==
  ASSUME NEW t \in TabIds
  PROVE  t % KindMask \in TabIds /\ (t % KindMask) % KindMask = t % KindMask
<1>1. t \in Int /\ KindMask \in Nat \ {0} BY DEF TabIds, KindMask
<1>2. t % KindMask \in 0 .. KindMask - 1 BY <1>1
<1>3. \A n \in 0 .. KindMask - 1 : n % KindMask = n BY <1>1
<1>4. \A n \in 0 .. KindMask - 1 : n \in TabIds BY DEF TabIds, KindMask
<1> QED BY <1>2, <1>3, <1>4

(* In an action of one kind that is known, every kind is that one.         *)
LEMMA KindKnown ==
  ASSUME NEW w, Single(w), TheKind(w) \in Kinds
  PROVE  \A j \in 1 .. Len(w.nlas) : w.nlas[j].tag = "Kind" => w.nlas[j].is \in Kinds
BY SingleKind

(* A decoded action has the kind of what it was decoded from, and options  *)
(* that go with it.                                                        *)
LEMMA DecodedFits ==
  ASSUME KindsGiven, NEW w \in WireAction, NEW a, DecodedFrom(w, a)
  PROVE  /\ Fits(a) /\ KindsIn(a) = KindsIn(w) /\ TheKind(a) = TheKind(w)
         /\ \A j \in 1 .. Len(w.nlas) : w.nlas[j].tag # "Malformed"
<1>1. /\ Single(w) /\ TheKind(w) \in Kinds /\ Len(a.nlas) = Len(w.nlas)
      /\ \A j \in 1 .. Len(w.nlas) : a.nlas[j] \in Decodings(w.nlas[j], TheKind(w))
  BY DEF DecodedFrom
<1>2. w.nlas \in Seq(Readable) BY DEF WireAction
<1>3. ASSUME NEW j \in 1 .. Len(w.nlas)
      PROVE  /\ a.nlas[j].tag = w.nlas[j].tag /\ w.nlas[j].tag # "Malformed"
             /\ w.nlas[j].tag = "Kind" => a.nlas[j] = w.nlas[j]
             /\ w.nlas[j].tag = "Options" => a.nlas[j].is = OptionVariant(TheKind(w))
  <2>1. w.nlas[j] \in Readable BY <1>2
  <2>2. w.nlas[j].tag = "Kind" => w.nlas[j].is \in Kinds BY <1>1, KindKnown
  <2>3. a.nlas[j] \in Decodings(w.nlas[j], TheKind(w)) BY <1>1
  <2> QED BY <1>1, <2>1, <2>2, <2>3, DecodeValue
<1>4. KindsIn(w) = KindsIn(a) /\ (Single(w) <=> Single(a)) /\ TheKind(w) = TheKind(a)
  <2>1. \A j \in 1 .. Len(w.nlas) :
          /\ w.nlas[j].tag = a.nlas[j].tag
          /\ w.nlas[j].tag = "Kind" => w.nlas[j].is = a.nlas[j].is
    BY <1>3
  <2> QED BY <1>1, <2>1, SingleSame
<1>5. Fits(a) BY <1>1, <1>3, <1>4 DEF Fits
<1> QED BY <1>3, <1>4, <1>5

(* The emission of an action has its kinds.                                *)
LEMMA EchoKinds ==
  ASSUME KindsGiven, NEW r \in ProperAction, NEW w, EchoOf(w, r)
  PROVE  /\ KindsIn(w) = KindsIn(r) /\ (Single(w) <=> Single(r))
         /\ Single(r) => TheKind(w) = TheKind(r) /\ TheKind(r) \in Kinds
<1>1. r.nlas \in Seq(Proper) BY DEF ProperAction
<1>2. \A j \in 1 .. Len(r.nlas) : r.nlas[j] \in Proper /\ w.nlas[j] = Emitted(r.nlas[j])
  BY <1>1 DEF EchoOf
<1>3. \A j \in 1 .. Len(r.nlas) :
        /\ r.nlas[j].tag = w.nlas[j].tag
        /\ r.nlas[j].tag = "Kind" => r.nlas[j].is = w.nlas[j].is /\ r.nlas[j].is \in Kinds
  <2> SUFFICES ASSUME NEW j \in 1 .. Len(r.nlas)
               PROVE  /\ r.nlas[j].tag = w.nlas[j].tag
                      /\ r.nlas[j].tag = "Kind" =>
                           r.nlas[j].is = w.nlas[j].is /\ r.nlas[j].is \in Kinds
    OBVIOUS
  <2> QED BY <1>2, EchoValue
<1>4. Len(r.nlas) = Len(w.nlas) BY DEF EchoOf
<1>5. /\ KindsIn(r) = KindsIn(w) /\ (Single(r) <=> Single(w))
      /\ Single(r) => TheKind(r) = TheKind(w)
  BY <1>3, <1>4, SingleSame
<1>6. Single(r) => TheKind(r) \in Kinds BY <1>3, SingleKind
<1> QED BY <1>5, <1>6

(* An attribute of the emission of an action that fits.                    *)
LEMMA EchoAttr ==
  ASSUME KindsGiven, NEW r \in ProperAction, Fits(r), NEW w, EchoOf(w, r),
         NEW j \in 1 .. Len(w.nlas)
  PROVE  /\ Decodings(w.nlas[j], TheKind(w)) = {r.nlas[j]}
         /\ ~MayFail(w.nlas[j], TheKind(w))
<1>1. r.nlas \in Seq(Proper) /\ j \in 1 .. Len(r.nlas) BY DEF ProperAction, EchoOf
<1>2. r.nlas[j] \in Proper /\ w.nlas[j] = Emitted(r.nlas[j]) BY <1>1 DEF EchoOf
<1>3. TheKind(w) = TheKind(r) BY EchoKinds DEF Fits
<1>4. r.nlas[j].tag = "Options" => r.nlas[j].is = OptionVariant(TheKind(w))
  BY <1>1, <1>3 DEF Fits
<1> QED BY <1>2, <1>4, EchoValue

(* What is decoded from it is the action, the flags of its table id aside. *)
LEMMA EchoDecoded ==
  ASSUME KindsGiven, NEW r \in ProperAction, Fits(r), NEW w, EchoOf(w, r),
         NEW a \in ProperAction, DecodedFrom(w, a)
  PROVE  a = Action(r.tab % KindMask, r.nlas)
<1>1. Len(a.nlas) = Len(w.nlas) /\ Len(w.nlas) = Len(r.nlas) /\ a.tab = r.tab % KindMask
  BY DEF DecodedFrom, EchoOf
<1>2. \A j \in 1 .. Len(r.nlas) : a.nlas[j] = r.nlas[j]
  <2> SUFFICES ASSUME NEW j \in 1 .. Len(r.nlas) PROVE a.nlas[j] = r.nlas[j] OBVIOUS
  <2>1. a.nlas[j] \in Decodings(w.nlas[j], TheKind(w)) BY <1>1 DEF DecodedFrom
  <2>2. Decodings(w.nlas[j], TheKind(w)) = {r.nlas[j]} BY <1>1, EchoAttr
  <2> QED BY <2>1, <2>2
<1>3. a.nlas \in Seq(Proper) /\ r.nlas \in Seq(Proper) BY DEF ProperAction
<1>4. a.nlas = r.nlas BY <1>1, <1>2, <1>3
<1>5. a = [tab |-> a.tab, nlas |-> a.nlas] BY DEF ProperAction
<1> QED BY <1>1, <1>4, <1>5 DEF Action

(* An action is emitted to what can be on the wire.                        *)
LEMMA EmittedAction ==
  ASSUME KindsGiven, NEW r \in ProperAction
  PROVE  LET w == Action(r.tab, [k \in 1 .. Len(r.nlas) |-> Emitted(r.nlas[k])])
         IN  w \in WireAction /\ EchoOf(w, r)
<1> DEFINE s == [k \in 1 .. Len(r.nlas) |-> Emitted(r.nlas[k])]
           w == Action(r.tab, s)
<1>1. r.nlas \in Seq(Proper) /\ r.tab \in TabIds /\ Len(r.nlas) \in Nat
  BY DEF ProperAction
<1>2. \A k \in 1 .. Len(r.nlas) : Emitted(r.nlas[k]) \in Readable
  <2>1. \A k \in 1 .. Len(r.nlas) : r.nlas[k] \in Proper BY <1>1
  <2> QED BY <2>1, EchoValue
<1>3. s \in Seq(Readable) /\ Len(s) = Len(r.nlas) BY <1>1, <1>2
<1>4. \A k \in 1 .. Len(r.nlas) : s[k] = Emitted(r.nlas[k]) OBVIOUS
<1> HIDE DEF s
<1>5. w.tab = r.tab /\ w.nlas = s BY DEF Action
<1>6. w \in WireAction BY <1>1, <1>3 DEF WireAction, Action
<1>7. EchoOf(w, r) BY <1>3, <1>4, <1>5 DEF EchoOf
<1> QED BY <1>6, <1>7 DEF s
-----------------------------------------------------------------------------
(* A list is not the mark for no list.                                     *)
LEMMA NotNone == None \notin Seq(WireAction) /\ None \notin Seq(ProperAction)
<1>0. \A x : Len(<<x>>) = 1 /\ <<x>>[1] = x OBVIOUS
<1>1. Len(None) = 1 /\ None[1] = Action(-1, <<>>) BY <1>0, Zenon DEF None
<1>2. Action(-1, <<>>).tab = -1 BY DEF Action
<1>3. -1 \notin TabIds BY DEF TabIds
<1>4. \A a \in WireAction : a.tab \in TabIds BY DEF WireAction
<1>5. \A a \in ProperAction : a.tab \in TabIds BY DEF ProperAction
<1>6. \A S : \A l \in Seq(S) : Len(l) = 1 => l[1] \in S OBVIOUS
<1>7. ASSUME None \in Seq(WireAction) PROVE FALSE
  <2>1. None[1] \in WireAction BY <1>1, <1>6, <1>7, Zenon
  <2> QED BY <1>1, <1>2, <1>3, <1>4, <2>1, Zenon
<1>8. ASSUME None \in Seq(ProperAction) PROVE FALSE
  <2>1. None[1] \in ProperAction BY <1>1, <1>6, <1>8, Zenon
  <2> QED BY <1>1, <1>2, <1>3, <1>5, <2>1, Zenon
<1> QED BY <1>7, <1>8

(* The action at hand.                                                     *)
LEMMA AtHand ==
  ASSUME ListsInv, More
  PROVE  /\ wire[Len(actions) + 1] \in WireAction
         /\ Here = wire[Len(actions) + 1].nlas
         /\ Here \in Seq(Readable) /\ Len(Here) \in Nat
         /\ Len(actions) + 1 \in 1 .. Len(wire)
<1>1. wire \in Seq(WireAction) /\ Len(actions) \in Nat /\ Len(wire) \in Nat
  BY DEF ListsInv
<1>2. Len(actions) + 1 \in 1 .. Len(wire) BY <1>1 DEF More
<1>3. wire[Len(actions) + 1] \in WireAction BY <1>1, <1>2
<1>4. Here \in Seq(Readable) BY <1>3 DEF Here, WireAction
<1> QED BY <1>2, <1>3, <1>4 DEF Here

Errors == CollectErr \/ MissingOrDuplicate \/ Refuse

(* The emission of actions that fit is not refused.                        *)
LEMMA NoError ==
  ASSUME KindsGiven, ListsInv, PassInv, NEW list \in Seq(ProperAction), AllFit(list),
         Echoed(list)
  PROVE  ~Errors
<1> SUFFICES ASSUME Errors PROVE FALSE OBVIOUS
<1>1. (status = "collecting" /\ More) \/ status = "parsing"
  BY DEF Errors, CollectErr, MissingOrDuplicate, Refuse, Collecting, Collected, Parsing
<1>2. More BY <1>1 DEF PassInv
<1> DEFINE n == Len(actions) + 1
           w == wire[n]
           r == list[n]
<1>3. n \in 1 .. Len(list) BY <1>2, AtHand DEF Echoed
<1>4. r \in ProperAction /\ Fits(r) /\ EchoOf(w, r) BY <1>3 DEF AllFit, Echoed
<1>5. Here = w.nlas /\ Len(Here) \in Nat /\ Here \in Seq(Readable) BY <1>2, AtHand
<1> HIDE DEF n, w, r
<1>6. ASSUME CollectErr PROVE FALSE
  <2>1. /\ idx \in 1 .. Len(Here)
        /\ Here[idx] \in {Attr("Kind", Empty), Attr("Malformed", Empty)}
    BY <1>5, <1>6 DEF CollectErr, Collecting, ListsInv
  <2>2. r.nlas \in Seq(Proper) /\ idx \in 1 .. Len(r.nlas)
    BY <1>4, <1>5, <2>1 DEF ProperAction, EchoOf
  <2>3. r.nlas[idx] \in Proper /\ Here[idx] = Emitted(r.nlas[idx])
    BY <1>4, <1>5, <2>2 DEF EchoOf
  <2> QED BY <2>1, <2>3, EchoValue
<1>7. ASSUME MissingOrDuplicate PROVE FALSE
  <2>1. status = "collecting" /\ idx > Len(Here) /\ Len(kinds) # 1
    BY <1>7 DEF MissingOrDuplicate, Collected
  <2>2. idx = Len(Here) + 1 /\ Len(kinds) = Cardinality(KindsBefore(Here, idx))
    BY <1>2, <1>5, <2>1 DEF PassInv, ListsInv
  <2>3. Len(kinds) = Cardinality(KindsIn(w)) BY <1>5, <2>2, KindsFront
  <2>4. Single(w) BY <1>4, EchoKinds DEF Fits
  <2>5. Cardinality(KindsIn(w)) = 1 BY <1>5, <2>4, SingleCount
  <2> QED BY <2>1, <2>3, <2>5
<1>8. ASSUME Refuse PROVE FALSE
  <2>1. status = "parsing" /\ idx \in 1 .. Len(Here) /\ MayFail(Here[idx], kinds[1])
    BY <1>5, <1>8 DEF Refuse, Parsing, ListsInv
  <2>2. kinds[1] = TheKind(w) BY <2>1 DEF PassInv, w, n
  <2> QED BY <1>4, <1>5, <2>1, <2>2, EchoAttr
<1> QED BY <1>6, <1>7, <1>8 DEF Errors

(* What has been decoded from the emission of actions that fit.            *)
LEMMA DecodedEcho ==
  ASSUME KindsGiven, ListsInv, DecodedInv, status = "value", trips > 0 \/ built = None,
         NEW list \in Seq(ProperAction), AllFit(list), Echoed(list)
  PROVE  /\ Len(actions) = Len(list)
         /\ \A a \in 1 .. Len(list) :
              actions[a] = Action(list[a].tab % KindMask, list[a].nlas)
<1>1. /\ \A a \in 1 .. Len(actions) : DecodedFrom(wire[a], actions[a])
      /\ Len(actions) = Len(wire) /\ Len(wire) = Len(list)
      /\ actions \in Seq(ProperAction)
  BY DEF DecodedInv, Echoed, ListsInv
<1>2. ASSUME NEW a \in 1 .. Len(list)
      PROVE  actions[a] = Action(list[a].tab % KindMask, list[a].nlas)
  <2>1. list[a] \in ProperAction /\ Fits(list[a]) /\ EchoOf(wire[a], list[a])
    BY DEF AllFit, Echoed
  <2>2. actions[a] \in ProperAction /\ DecodedFrom(wire[a], actions[a]) BY <1>1
  <2> QED BY <2>1, <2>2, EchoDecoded
<1> QED BY <1>1, <1>2

(* Emitting a list that differs in the flags of table ids only.            *)
LEMMA EmitEcho ==
  ASSUME KindsGiven, ListsInv, Emit, NEW list \in Seq(ProperAction),
         Len(actions) = Len(list),
         \A a \in 1 .. Len(list) : /\ actions[a].tab % KindMask = list[a].tab % KindMask
                                   /\ actions[a].nlas = list[a].nlas
  PROVE  Echoed(list)'
<1>1. /\ wire' = [a \in 1 .. Len(actions) |->
                    Action(actions[a].tab,
                           [k \in 1 .. Len(actions[a].nlas) |-> Emitted(actions[a].nlas[k])])]
      /\ actions \in Seq(ProperAction) /\ Len(actions) \in Nat
  BY DEF Emit, ListsInv
<1>2. Len(wire') = Len(list) BY <1>1
<1>3. ASSUME NEW a \in 1 .. Len(list) PROVE EchoOf(wire'[a], list[a])
  <2>1. actions[a] \in ProperAction BY <1>1
  <2>2. wire'[a] = Action(actions[a].tab,
                     [k \in 1 .. Len(actions[a].nlas) |-> Emitted(actions[a].nlas[k])])
    BY <1>1
  <2>3. EchoOf(wire'[a], actions[a]) BY <2>1, <2>2, EmittedAction
  <2> QED BY <2>3 DEF EchoOf
<1> QED BY <1>2, <1>3 DEF Echoed
-----------------------------------------------------------------------------
(* The actions the constants allow.                                        *)
LEMMA ListsGiven ==
  ASSUME Given
  PROVE  /\ Messages(WireItems) \subseteq Seq(WireAction)
         /\ Messages(Values) \subseteq Seq(ProperAction)
<1>1. WireItems \subseteq Readable
  <2>1. /\ Tags = {"Kind", "Options", "Plain", "Malformed"}
        /\ \A k \in Kinds : k \in Kinds \cup {Empty, "ok", "broken"}
    BY DEF Tags
  <2>2. \A k \in Kinds \cup {Empty} : Attr("Kind", k) \in Readable
    BY <2>1 DEF Readable, Attr
  <2>3. \A k \in Kinds \cup {"broken"} : Attr("Options", k) \in Readable
    BY <2>1 DEF Readable, Attr
  <2>4. /\ Attr("Plain", "ok") \in Readable /\ Attr("Plain", "broken") \in Readable
        /\ Attr("Malformed", Empty) \in Readable
    BY <2>1 DEF Readable, Attr
  <2> QED BY <2>2, <2>3, <2>4 DEF WireItems
<1>2. Values \subseteq Proper
  <2>1. Tags = {"Kind", "Options", "Plain", "Malformed"} BY DEF Tags
  <2>2. \A k \in Kinds : Attr("Kind", k) \in Proper BY <2>1 DEF Proper, Attr
  <2>3. Attr("Plain", "ok") \in Proper BY <2>1 DEF Proper, Attr
  <2>4. ASSUME NEW k \in Kinds PROVE OptionsOf(k) \in Proper
    <3>1. CASE OptionVariant(k) = "Other"
      BY <2>1, <3>1 DEF OptionsOf, Proper, OtherOptions
    <3>2. CASE OptionVariant(k) = "Mirror"
      <4>1. "mirred" \in Kinds /\ OptionsOf(k) = Attr("Options", "Mirror")
        BY <3>2, Variants DEF OptionsOf
      <4> QED BY <2>1, <4>1 DEF Proper, Attr
    <3>3. CASE OptionVariant(k) = "Nat"
      <4>1. "nat" \in Kinds /\ OptionsOf(k) = Attr("Options", "Nat")
        BY <3>3, Variants DEF OptionsOf
      <4> QED BY <2>1, <4>1 DEF Proper, Attr
    <3> QED BY <3>1, <3>2, <3>3, Variants
  <2> QED BY <2>2, <2>3, <2>4 DEF Values
<1>3. \A S, T : S \subseteq T => \A n \in Nat : Lists(S, n) \subseteq Seq(T) BY DEF Lists
<1>4. Tabs \subseteq TabIds BY DEF Given
<1>5. ASSUME NEW n \in Nat
      PROVE  /\ ActionLists(WireItems, n) \subseteq WireAction
             /\ ActionLists(Values, n) \subseteq ProperAction
  <2>1. Lists(WireItems, n) \subseteq Seq(Readable) /\ Lists(Values, n) \subseteq Seq(Proper)
    BY <1>1, <1>2, <1>3
  <2>2. \A tab \in TabIds, s \in Seq(Readable) : Action(tab, s) \in WireAction
    BY DEF Action, WireAction
  <2>3. \A tab \in TabIds, s \in Seq(Proper) : Action(tab, s) \in ProperAction
    BY DEF Action, ProperAction
  <2> QED BY <1>4, <2>1, <2>2, <2>3 DEF ActionLists
<1>6. /\ ActionLists(WireItems, MaxAttrs) \subseteq WireAction
      /\ ActionLists(WireItems, MaxInPair) \subseteq WireAction
      /\ ActionLists(Values, MaxAttrs) \subseteq ProperAction
      /\ ActionLists(Values, MaxInPair) \subseteq ProperAction
  BY <1>5 DEF Given
<1>7. /\ Lists(ActionLists(WireItems, MaxInPair), 2) \subseteq Seq(WireAction)
      /\ Lists(ActionLists(Values, MaxInPair), 2) \subseteq Seq(ProperAction)
  BY <1>3, <1>6
<1>8. \A S, a : a \in S => <<a>> \in Seq(S) OBVIOUS
<1>9. Messages(WireItems) \subseteq Seq(WireAction) BY <1>6, <1>7, <1>8 DEF Messages
<1>10. Messages(Values) \subseteq Seq(ProperAction) BY <1>6, <1>7, <1>8 DEF Messages
<1> QED BY <1>9, <1>10

(* Initially nothing has been read, or the caller's list is at hand.       *)
LEMMA InitIInv == ASSUME Given PROVE Init => IInv
<1> SUFFICES ASSUME Init PROVE IInv OBVIOUS
<1>1. /\ idx = 1 /\ kinds = <<>> /\ attributes = <<>> /\ seen = built /\ trips = 0
      /\ \/ /\ status = "collecting" /\ wire \in Seq(WireAction) /\ actions = <<>>
            /\ built = None /\ received = wire
         \/ /\ status = "value" /\ actions \in Seq(ProperAction) /\ built = actions
            /\ wire = <<>> /\ received = None
  BY ListsGiven DEF Init
<1>2. CASE status = "collecting"
  <2>1. /\ wire \in Seq(WireAction) /\ actions = <<>> /\ built = None /\ received = wire
        /\ Len(wire) \in Nat /\ Len(actions) = 0 /\ received # None /\ seen = None
    BY <1>1, <1>2, NotNone
  <2>2. ListsInv BY <1>1, <1>2, <2>1 DEF ListsInv, Given
  <2>3. PassInv
    <3>1. More => Len(Here) \in Nat BY <2>2, AtHand
    <3>2. KindsBefore(Here, idx) = {} /\ Cardinality(KindsBefore(Here, idx)) = 0 BY <1>1, FrontFirst
    <3>3. Len(kinds) = 0 BY <1>1
    <3> QED BY <1>1, <1>2, <2>1, <3>1, <3>2, <3>3 DEF PassInv
  <2>4. DecodedInv BY <1>2, <2>1 DEF DecodedInv
  <2>5. CallerInv /\ ReceivedInv BY <1>1, <1>2, <2>1 DEF CallerInv, ReceivedInv
  <2> QED BY <2>2, <2>3, <2>4, <2>5 DEF IInv
<1>3. CASE status = "value"
  <2>1. /\ actions \in Seq(ProperAction) /\ built = actions /\ wire = <<>>
        /\ received = None /\ built # None
    BY <1>1, <1>3, NotNone
  <2>2. ListsInv BY <1>1, <1>3, <2>1 DEF ListsInv, Given
  <2>3. PassInv BY <1>1, <1>3 DEF PassInv
  <2>4. DecodedInv BY <1>1, <1>3, <2>1 DEF DecodedInv
  <2>5. CallerInv /\ ReceivedInv BY <1>1, <1>3, <2>1 DEF CallerInv, ReceivedInv
  <2> QED BY <2>2, <2>3, <2>4, <2>5 DEF IInv
<1> QED BY <1>1, <1>2, <1>3
-----------------------------------------------------------------------------
(* The first pass remembers the kinds it has met.                          *)
LEMMA CollectStep ==
  ASSUME IInv, CollectKind \/ Pass
  PROVE  ListsInv' /\ PassInv'
<1>1. /\ ListsInv /\ status = "collecting" /\ More /\ idx <= Len(Here) /\ idx' = idx + 1
      /\ UNCHANGED <<wire, actions, attributes, built, received, seen, trips, status>>
  BY DEF IInv, CollectKind, Pass, Collecting
<1>2. /\ Len(Here) \in Nat /\ Here \in Seq(Readable) /\ idx \in 1 .. Len(Here)
      /\ kinds \in Seq(Kinds) /\ Len(kinds) \in Nat
  BY <1>1, AtHand DEF ListsInv
<1>3. /\ Len(kinds) = Cardinality(KindsBefore(Here, idx))
      /\ Len(kinds) = 1 => \A k \in KindsBefore(Here, idx) : kinds[1] = Here[k].is
      /\ Len(actions) <= Len(wire) /\ attributes = <<>>
  BY <1>1 DEF IInv, PassInv
<1>4. Here' = Here /\ More' BY <1>1 DEF Here, More
<1>5. /\ kinds' \in Seq(Kinds) /\ Len(kinds') = Cardinality(KindsBefore(Here, idx + 1))
      /\ Len(kinds') = 1 => \A k \in KindsBefore(Here, idx + 1) : kinds'[1] = Here[k].is
  <2>1. CASE CollectKind
    <3>1. Here[idx].tag = "Kind" /\ Here[idx].is # Empty /\ kinds' = Append(kinds, Here[idx].is)
      BY <2>1 DEF CollectKind
    <3>2. Here[idx].is \in Kinds
      <4>1. Here[idx] \in Readable BY <1>2
      <4> QED BY <3>1, <4>1 DEF Readable
    <3>3. kinds' \in Seq(Kinds) /\ Len(kinds') = Len(kinds) + 1 BY <1>2, <3>1, <3>2
    <3>4. /\ KindsBefore(Here, idx + 1) = KindsBefore(Here, idx) \cup {idx}
          /\ Cardinality(KindsBefore(Here, idx + 1)) = Cardinality(KindsBefore(Here, idx)) + 1
      BY <1>2, <3>1, FrontNext
    <3>5. ASSUME Len(kinds') = 1 PROVE \A k \in KindsBefore(Here, idx + 1) : kinds'[1] = Here[k].is
      <4>1. Len(kinds) = 0 BY <1>2, <3>3, <3>5
      <4>2. IsFiniteSet(KindsBefore(Here, idx)) BY <1>2, KindsFinite
      <4>3. KindsBefore(Here, idx) = {} BY <1>3, <4>1, <4>2, FS_EmptySet
      <4>4. kinds'[1] = Here[idx].is BY <1>2, <3>1, <4>1
      <4> QED BY <3>4, <4>3, <4>4
    <3> QED BY <1>3, <3>3, <3>4, <3>5
  <2>2. CASE Pass
    <3>1. Here[idx].tag # "Kind" /\ kinds' = kinds BY <2>2 DEF Pass
    <3>2. KindsBefore(Here, idx + 1) = KindsBefore(Here, idx) BY <1>2, <3>1, FrontNext
    <3> QED BY <1>2, <1>3, <3>1, <3>2
  <2> QED BY <2>1, <2>2
<1>6. idx' \in Nat \ {0} /\ idx' <= Len(Here) + 1 BY <1>1, <1>2
<1>7. ListsInv' BY <1>1, <1>5, <1>6 DEF ListsInv
<1>8. PassInv' BY <1>1, <1>3, <1>4, <1>5, <1>6 DEF PassInv
<1> QED BY <1>7, <1>8

(* The first pass ends with the kind of the action.                        *)
LEMMA FoundStep ==
  ASSUME IInv, FoundKind
  PROVE  ListsInv' /\ PassInv'
<1>1. /\ ListsInv /\ status = "collecting" /\ More /\ idx > Len(Here) /\ Len(kinds) = 1
      /\ status' = "parsing" /\ idx' = 1
      /\ UNCHANGED <<wire, actions, kinds, attributes, built, received, seen, trips>>
  BY DEF IInv, FoundKind, Collected
<1> DEFINE w == wire[Len(actions) + 1]
<1>2. Len(Here) \in Nat /\ Here = w.nlas /\ idx \in Nat BY <1>1, AtHand DEF ListsInv
<1>3. /\ idx <= Len(Here) + 1 /\ Len(kinds) = Cardinality(KindsBefore(Here, idx))
      /\ \A k \in KindsBefore(Here, idx) : kinds[1] = Here[k].is
      /\ attributes = <<>>
  BY <1>1 DEF IInv, PassInv
<1>4. KindsBefore(Here, idx) = KindsIn(w) /\ idx = Len(Here) + 1 BY <1>1, <1>2, <1>3, KindsFront
<1>5. Here' = Here /\ More' /\ wire'[Len(actions') + 1] = w BY <1>1 DEF Here, More
<1> HIDE DEF w
<1>6. Single(w) BY <1>1, <1>2, <1>3, <1>4, SingleCount
<1>7. kinds[1] = TheKind(w)
  <2>1. PICK k : KindsIn(w) = {k} BY <1>6 DEF Single
  <2>2. TheKind(w) = w.nlas[k].is BY <2>1 DEF TheKind
  <2> QED BY <1>2, <1>3, <1>4, <2>1, <2>2
<1>8. ListsInv' BY <1>1 DEF ListsInv
<1>9. PassInv' BY <1>1, <1>2, <1>3, <1>5, <1>6, <1>7 DEF PassInv
<1> QED BY <1>8, <1>9

(* A kind that has been found is known.                                    *)
LEMMA FirstKind == \A s \in Seq(Kinds) : Len(s) = 1 => s[1] \in Kinds
OBVIOUS

(* The second pass decodes every attribute under that kind.                *)
LEMMA DecodeStep ==
  ASSUME Given, IInv, Decode
  PROVE  ListsInv' /\ PassInv'
<1> DEFINE w == wire[Len(actions) + 1]
<1>1. /\ ListsInv /\ status = "parsing" /\ idx <= Len(Here) /\ idx' = idx + 1
      /\ UNCHANGED <<wire, actions, kinds, built, received, seen, trips, status>>
  BY DEF IInv, Decode, Parsing
<1>2. PICK v \in Decodings(Here[idx], kinds[1]) : attributes' = Append(attributes, v)
  BY DEF Decode
<1>3. /\ More /\ Len(kinds) = 1 /\ Single(w) /\ kinds[1] = TheKind(w)
      /\ Len(attributes) = idx - 1
      /\ \A j \in 1 .. idx - 1 : attributes[j] \in Decodings(Here[j], kinds[1])
  BY <1>1 DEF IInv, PassInv
<1>4. /\ Len(Here) \in Nat /\ Here \in Seq(Readable) /\ Here = w.nlas
      /\ idx \in 1 .. Len(Here) /\ attributes \in Seq(Proper) /\ kinds \in Seq(Kinds)
  BY <1>1, <1>3, AtHand DEF ListsInv
<1>5. kinds[1] \in Kinds BY <1>3, <1>4, FirstKind
<1>6. Here' = Here /\ More' /\ wire'[Len(actions') + 1] = w BY <1>1, <1>3 DEF Here, More
<1> HIDE DEF w
<1>7. v \in Proper
  <2>1. Here[idx] \in Readable BY <1>4
  <2>2. Here[idx].tag = "Kind" => Here[idx].is \in Kinds BY <1>3, <1>4, <1>5, KindKnown
  <2> QED BY <1>5, <2>1, <2>2, DecodeValue DEF Given
<1>8. /\ attributes' \in Seq(Proper) /\ Len(attributes') = idx' - 1 /\ idx' \in Nat \ {0}
      /\ idx' <= Len(Here) + 1
  BY <1>1, <1>2, <1>3, <1>4, <1>7
<1>9. \A j \in 1 .. idx' - 1 : attributes'[j] \in Decodings(Here[j], kinds[1])
  <2>1. \A j \in 1 .. idx' - 1 : j \in 1 .. idx - 1 \/ j = idx BY <1>1, <1>4
  <2>2. attributes'[idx] = v /\ \A j \in 1 .. idx - 1 : attributes'[j] = attributes[j]
    BY <1>2, <1>3, <1>4
  <2> QED BY <1>2, <1>3, <2>1, <2>2
<1>10. ListsInv' BY <1>1, <1>8 DEF ListsInv
<1>11. PassInv' BY <1>1, <1>3, <1>6, <1>8, <1>9 DEF PassInv
<1> QED BY <1>10, <1>11

(* The attributes decoded in the second pass are the action.               *)
LEMMA PushStep ==
  ASSUME Given, IInv, PushAction
  PROVE  ListsInv' /\ PassInv' /\ DecodedInv'
<1> DEFINE w == wire[Len(actions) + 1]
           new == Action(w.tab % KindMask, attributes)
<1>1. /\ ListsInv /\ status = "parsing" /\ idx > Len(Here)
      /\ actions' = Append(actions, new)
      /\ idx' = 1 /\ kinds' = <<>> /\ attributes' = <<>> /\ status' = "collecting"
      /\ UNCHANGED <<wire, built, received, seen, trips>>
  BY DEF IInv, PushAction
<1>2. /\ More /\ Len(kinds) = 1 /\ Single(w) /\ kinds[1] = TheKind(w)
      /\ idx <= Len(Here) + 1 /\ Len(attributes) = idx - 1
      /\ \A j \in 1 .. idx - 1 : attributes[j] \in Decodings(Here[j], kinds[1])
  BY <1>1 DEF IInv, PassInv
<1>3. /\ Len(Here) \in Nat /\ Here = w.nlas /\ w \in WireAction
      /\ attributes \in Seq(Proper) /\ kinds \in Seq(Kinds) /\ idx \in Nat
      /\ actions \in Seq(ProperAction) /\ wire \in Seq(WireAction)
      /\ Len(actions) + 1 \in 1 .. Len(wire)
  BY <1>1, <1>2, AtHand DEF ListsInv
<1>4. kinds[1] \in Kinds BY <1>2, <1>3, FirstKind
<1>5. Len(attributes) = Len(Here) BY <1>1, <1>2, <1>3
<1>6. new.tab = w.tab % KindMask /\ new.nlas = attributes BY DEF Action
<1>7. new \in ProperAction
  <2>1. w.tab \in TabIds BY <1>3 DEF WireAction
  <2>2. w.tab % KindMask \in TabIds BY <2>1, Mask
  <2> QED BY <1>3, <2>2 DEF ProperAction, Action
<1>8. DecodedFrom(w, new)
  <2>1. \A j \in 1 .. Len(w.nlas) : attributes[j] \in Decodings(w.nlas[j], TheKind(w))
    BY <1>1, <1>2, <1>3
  <2> HIDE DEF w, new
  <2> QED BY <1>2, <1>3, <1>4, <1>5, <1>6, <2>1 DEF DecodedFrom
<1>9. DecodedInv
  BY DEF IInv
<1> HIDE DEF new
<1>10. /\ actions' \in Seq(ProperAction) /\ Len(actions') = Len(actions) + 1
       /\ actions'[Len(actions) + 1] = new /\ Len(actions) \in Nat /\ Len(wire) \in Nat
       /\ \A a \in 1 .. Len(actions) : actions'[a] = actions[a]
  BY <1>1, <1>3, <1>7
<1>11. ListsInv' BY <1>1, <1>10 DEF ListsInv
<1>12. PassInv'
  <2>1. More' => Len(Here') \in Nat
    <3> SUFFICES ASSUME More' PROVE Len(Here') \in Nat OBVIOUS
    <3>1. Len(actions') + 1 \in 1 .. Len(wire) BY <1>1, <1>10 DEF More
    <3>2. wire[Len(actions') + 1] \in WireAction BY <1>3, <3>1
    <3>3. Here' = wire[Len(actions') + 1].nlas BY <1>1 DEF Here
    <3>4. Here' \in Seq(Readable) BY <3>2, <3>3 DEF WireAction
    <3> QED BY <3>4
  <2>2. KindsBefore(Here', idx') = {} /\ Cardinality(KindsBefore(Here', idx')) = 0
    BY <1>1, FrontFirst
  <2>3. Len(kinds') = 0 BY <1>1
  <2>4. Len(actions') <= Len(wire') BY <1>1, <1>3, <1>10
  <2> QED BY <1>1, <2>1, <2>2, <2>3, <2>4 DEF PassInv
<1>13. DecodedInv'
  <2>1. \A a \in 1 .. Len(actions) : DecodedFrom(wire[a], actions[a])
    BY <1>1, <1>9 DEF DecodedInv
  <2>2. \A a \in 1 .. Len(actions') : DecodedFrom(wire[a], actions'[a])
    <3> SUFFICES ASSUME NEW a \in 1 .. Len(actions') PROVE DecodedFrom(wire[a], actions'[a])
      OBVIOUS
    <3>1. CASE a = Len(actions) + 1 BY <1>8, <1>10, <3>1
    <3>2. CASE a # Len(actions) + 1
      <4>1. a \in 1 .. Len(actions) BY <1>10, <3>2
      <4> QED BY <1>10, <2>1, <4>1
    <3> QED BY <3>1, <3>2
  <2>3. Len(actions') <= Len(wire') BY <1>1, <1>3, <1>10
  <2> QED BY <1>1, <2>2, <2>3 DEF DecodedInv
<1> QED BY <1>11, <1>12, <1>13

(* Whatever was decoded first fits.                                        *)
LEMMA SeenFits ==
  ASSUME Given, IInv, received # None, seen # None
  PROVE  AllFit(seen) /\ seen \in Seq(ProperAction)
<1>1. /\ received \in Seq(WireAction) /\ seen \in Seq(ProperAction)
      /\ Len(seen) = Len(received)
      /\ \A a \in 1 .. Len(received) : DecodedFrom(received[a], seen[a])
  BY DEF IInv, ListsInv, ReceivedInv
<1>2. ASSUME NEW a \in 1 .. Len(seen) PROVE Fits(seen[a])
  <2>1. received[a] \in WireAction /\ DecodedFrom(received[a], seen[a]) BY <1>1
  <2> QED BY <2>1, DecodedFits DEF Given
<1> QED BY <1>1, <1>2 DEF AllFit

(* The message is returned when every action has been decoded.             *)
LEMMA ReturnStep ==
  ASSUME Given, IInv, Return
  PROVE  IInv'
<1>1. /\ ListsInv /\ PassInv /\ DecodedInv /\ CallerInv /\ ReceivedInv
      /\ status = "collecting" /\ ~More /\ status' = "value"
      /\ seen' = IF seen = None THEN actions ELSE seen
      /\ UNCHANGED <<wire, actions, idx, kinds, attributes, built, received, trips>>
  BY DEF IInv, Return
<1>2. /\ actions \in Seq(ProperAction) /\ wire \in Seq(WireAction) /\ actions # None
      /\ seen \in Seq(ProperAction) \cup {None} /\ trips \in Nat
      /\ built \in Seq(ProperAction) \cup {None}
  BY <1>1, NotNone DEF ListsInv, Given
<1>3. Len(actions) = Len(wire)
  <2>1. Len(actions) <= Len(wire) /\ ~(Len(actions) < Len(wire)) BY <1>1 DEF PassInv, More
  <2>2. Len(actions) \in Nat /\ Len(wire) \in Nat BY <1>2
  <2> QED BY <2>1, <2>2
<1>4. \A a \in 1 .. Len(wire) : DecodedFrom(wire[a], actions[a])
  BY <1>1, <1>3 DEF DecodedInv
<1>5. seen' # None /\ seen' \in Seq(ProperAction) BY <1>1, <1>2
<1>6. ListsInv' BY <1>1, <1>5 DEF ListsInv
<1>7. PassInv' BY <1>1 DEF PassInv
<1>8. DecodedInv' BY <1>1, <1>3, <1>4, <1>2 DEF DecodedInv
<1>9. CallerInv'
  <2> SUFFICES ASSUME built # None PROVE CallerInv' BY <1>1 DEF CallerInv
  <2>1. seen = built /\ trips # 0 /\ trips > 0 BY <1>1, <1>2 DEF CallerInv
  <2>2. seen' = built BY <1>1, <2>1
  <2>3. AllSingle(built)
    <3> SUFFICES ASSUME ~AllSingle(built) PROVE FALSE OBVIOUS
    <3>1. Echoed(built) BY <1>1, <2>1 DEF CallerInv
    <3>2. PICK a \in 1 .. Len(built) : ~Single(built[a]) BY DEF AllSingle
    <3>3. built[a] \in ProperAction BY <1>2
    <3>4. EchoOf(wire[a], built[a]) /\ Single(wire[a])
      BY <1>4, <3>1 DEF Echoed, DecodedFrom
    <3> QED BY <3>2, <3>3, <3>4, EchoKinds DEF Given
  <2>4. AllFit(built) => Echoed(built)' BY <1>1, <2>1 DEF CallerInv, Echoed
  <2> QED BY <1>1, <2>1, <2>2, <2>3, <2>4 DEF CallerInv
<1>10. ReceivedInv'
  <2> SUFFICES ASSUME received # None PROVE ReceivedInv' BY <1>1 DEF ReceivedInv
  <2>1. CASE seen = None
    <3>1. trips = 0 /\ wire = received /\ seen' = actions BY <1>1, <2>1 DEF ReceivedInv
    <3> QED BY <1>1, <1>3, <1>4, <1>5, <3>1 DEF ReceivedInv
  <2>2. CASE seen # None
    <3>1. seen' = seen /\ trips > 0 BY <1>1, <1>2, <2>2 DEF ReceivedInv
    <3>2. Echoed(seen)' BY <1>1, <2>2, <3>1 DEF ReceivedInv, Echoed
    <3> QED BY <1>1, <1>2, <2>2, <3>1, <3>2 DEF ReceivedInv
  <2> QED BY <2>1, <2>2
<1> QED BY <1>6, <1>7, <1>8, <1>9, <1>10 DEF IInv

(* The list is emitted.                                                    *)
LEMMA EmitStep ==
  ASSUME Given, IInv, Emit
  PROVE  IInv'
<1>1. /\ ListsInv /\ PassInv /\ DecodedInv /\ CallerInv /\ ReceivedInv
      /\ status = "value" /\ trips < MaxTrips /\ status' = "collecting"
      /\ wire' = [a \in 1 .. Len(actions) |->
                    Action(actions[a].tab,
                           [k \in 1 .. Len(actions[a].nlas) |-> Emitted(actions[a].nlas[k])])]
      /\ actions' = <<>> /\ idx' = 1 /\ trips' = trips + 1
      /\ UNCHANGED <<kinds, attributes, built, received, seen>>
  BY DEF IInv, Emit
<1>2. /\ actions \in Seq(ProperAction) /\ Len(actions) \in Nat /\ trips \in Nat
      /\ built \in Seq(ProperAction) \cup {None} /\ trips' \in 0 .. MaxTrips /\ trips' > 0
      /\ trips' # 0
  BY <1>1 DEF ListsInv, Given
<1>3. kinds = <<>> /\ attributes = <<>> BY <1>1 DEF PassInv
<1>4. wire' \in Seq(WireAction) /\ Len(wire') \in Nat /\ Len(actions') = 0
  <2>1. \A a \in 1 .. Len(actions) :
          Action(actions[a].tab,
                 [k \in 1 .. Len(actions[a].nlas) |-> Emitted(actions[a].nlas[k])])
            \in WireAction
    <3>1. \A a \in 1 .. Len(actions) : actions[a] \in ProperAction BY <1>2
    <3> QED BY <3>1, EmittedAction DEF Given
  <2>2. wire' \in Seq(WireAction) BY <1>1, <1>2, <2>1
  <2> QED BY <1>1, <2>2
<1>5. ListsInv' BY <1>1, <1>2, <1>4 DEF ListsInv
<1>6. PassInv'
  <2>1. More' => Len(Here') \in Nat
    <3> SUFFICES ASSUME More' PROVE Len(Here') \in Nat OBVIOUS
    <3>1. 1 \in 1 .. Len(wire') BY <1>4 DEF More
    <3>2. wire'[1] \in WireAction BY <1>4, <3>1
    <3>3. Here' = wire'[1].nlas BY <1>4 DEF Here
    <3>4. Here' \in Seq(Readable) BY <3>2, <3>3 DEF WireAction
    <3> QED BY <3>4
  <2>2. KindsBefore(Here', idx') = {} /\ Cardinality(KindsBefore(Here', idx')) = 0
    BY <1>1, FrontFirst
  <2>3. Len(kinds') = 0 /\ Len(actions') <= Len(wire') BY <1>1, <1>3, <1>4
  <2> QED BY <1>1, <1>3, <2>1, <2>2, <2>3 DEF PassInv
<1>7. DecodedInv' BY <1>1, <1>4 DEF DecodedInv
<1>8. ASSUME NEW list \in Seq(ProperAction), AllFit(list), Echoed(list),
             trips > 0 \/ built = None
      PROVE  Echoed(list)'
  <2>1. /\ Len(actions) = Len(list)
        /\ \A a \in 1 .. Len(list) :
             actions[a] = Action(list[a].tab % KindMask, list[a].nlas)
    BY <1>1, <1>8, DecodedEcho DEF Given
  <2>2. \A a \in 1 .. Len(list) : /\ actions[a].tab % KindMask = list[a].tab % KindMask
                                  /\ actions[a].nlas = list[a].nlas
    <3> SUFFICES ASSUME NEW a \in 1 .. Len(list)
                 PROVE  /\ actions[a].tab % KindMask = list[a].tab % KindMask
                        /\ actions[a].nlas = list[a].nlas
      OBVIOUS
    <3>1. actions[a] = Action(list[a].tab % KindMask, list[a].nlas) BY <2>1
    <3>2. actions[a].tab = list[a].tab % KindMask /\ actions[a].nlas = list[a].nlas
      BY <3>1 DEF Action
    <3>3. list[a] \in ProperAction BY <1>8
    <3>4. list[a].tab \in TabIds BY <3>3 DEF ProperAction
    <3> QED BY <3>2, <3>4, Mask
  <2> QED BY <1>1, <2>1, <2>2, EmitEcho DEF Given
<1>9. ASSUME NEW list \in Seq(ProperAction), actions = list PROVE Echoed(list)'
  BY <1>1, <1>9, EmitEcho DEF Given
<1>10. CallerInv'
  <2> SUFFICES ASSUME built # None PROVE CallerInv' BY <1>1 DEF CallerInv
  <2>1. built \in Seq(ProperAction) /\ seen' = built' /\ built' = built
    BY <1>1, <1>2 DEF CallerInv
  <2>2. CASE trips = 0
    <3>1. Echoed(built)' BY <1>1, <1>9, <2>1, <2>2 DEF CallerInv
    <3> QED BY <1>1, <1>2, <2>1, <3>1 DEF CallerInv
  <2>3. CASE trips > 0
    <3>1. AllFit(built) => Echoed(built)' BY <1>1, <1>8, <2>1, <2>3 DEF CallerInv
    <3>2. AllSingle(built) BY <1>1, <2>3 DEF CallerInv
    <3> QED BY <1>1, <1>2, <2>1, <3>1, <3>2 DEF CallerInv
  <2> QED BY <1>2, <2>2, <2>3
<1>11. ReceivedInv'
  <2> SUFFICES ASSUME received # None PROVE ReceivedInv' BY <1>1 DEF ReceivedInv
  <2>1. seen # None BY <1>1 DEF ReceivedInv
  <2>2. AllFit(seen) /\ seen \in Seq(ProperAction) BY <2>1, SeenFits
  <2>3. built = None BY <1>1 DEF ListsInv
  <2>4. Echoed(seen)'
    <3>1. CASE trips = 0 BY <1>1, <1>9, <2>1, <2>2, <3>1 DEF ReceivedInv
    <3>2. CASE trips > 0 BY <1>1, <1>8, <2>1, <2>2, <3>2 DEF ReceivedInv
    <3> QED BY <1>2, <3>1, <3>2
  <2> QED BY <1>1, <1>2, <2>1, <2>4 DEF ReceivedInv
<1> QED BY <1>5, <1>6, <1>7, <1>10, <1>11 DEF IInv
-----------------------------------------------------------------------------
(* Every step preserves the invariant.                                     *)
LEMMA NextIInv == ASSUME Given PROVE IInv /\ [Next]_vars => IInv'
<1> SUFFICES ASSUME IInv, [Next]_vars PROVE IInv' OBVIOUS
<1>0. /\ ListsInv /\ PassInv /\ DecodedInv /\ CallerInv /\ ReceivedInv BY DEF IInv
<1>1. ASSUME UNCHANGED <<wire, actions, built, received, seen, trips, status>>
      PROVE  DecodedInv' /\ CallerInv' /\ ReceivedInv'
  <2>1. DecodedInv' BY <1>0, <1>1 DEF DecodedInv
  <2>2. CallerInv' BY <1>0, <1>1 DEF CallerInv, Echoed
  <2>3. ReceivedInv' BY <1>0, <1>1 DEF ReceivedInv, Echoed
  <2> QED BY <2>1, <2>2, <2>3
<1>2. ASSUME status \in {"collecting", "parsing"}, status' \in {"collecting", "parsing"},
             UNCHANGED <<wire, built, received, seen, trips>>
      PROVE  CallerInv' /\ ReceivedInv'
  <2>1. CallerInv' BY <1>0, <1>2 DEF CallerInv, Echoed
  <2>2. ReceivedInv' BY <1>0, <1>2 DEF ReceivedInv, Echoed
  <2> QED BY <2>1, <2>2
<1>3. CASE CollectKind \/ Pass
  <2>1. UNCHANGED <<wire, actions, built, received, seen, trips, status>>
    BY <1>3 DEF CollectKind, Pass
  <2> QED BY <1>1, <1>3, <2>1, CollectStep DEF IInv
<1>4. CASE Errors
  <2>1. /\ status \in {"collecting", "parsing"} /\ status' = "err"
        /\ UNCHANGED <<wire, actions, idx, kinds, attributes, built, received, seen, trips>>
    BY <1>4 DEF Errors, CollectErr, MissingOrDuplicate, Refuse, Collecting, Collected,
                Parsing
  <2>2. ListsInv' BY <1>0, <2>1 DEF ListsInv
  <2>3. PassInv' BY <2>1 DEF PassInv
  <2>4. DecodedInv' BY <1>0, <2>1 DEF DecodedInv
  <2>5. CallerInv'
    <3> SUFFICES ASSUME built # None PROVE CallerInv' BY <2>1 DEF CallerInv
    <3>1. trips # 0 /\ built \in Seq(ProperAction) /\ trips > 0
      BY <1>0, <2>1 DEF CallerInv, ListsInv, Given
    <3>2. ~AllFit(built) BY <1>0, <1>4, <3>1, NoError DEF CallerInv, Given
    <3> QED BY <1>0, <2>1, <3>1, <3>2 DEF CallerInv, Echoed
  <2>6. ReceivedInv'
    <3> SUFFICES ASSUME received # None PROVE ReceivedInv' BY <2>1 DEF ReceivedInv
    <3>1. seen = None
      <4> SUFFICES ASSUME seen # None PROVE FALSE OBVIOUS
      <4>1. trips # 0 /\ trips > 0 BY <1>0, <2>1 DEF ReceivedInv, ListsInv, Given
      <4>2. Echoed(seen) BY <1>0, <4>1 DEF ReceivedInv
      <4> QED BY <1>0, <1>4, <4>2, NoError, SeenFits DEF Given
    <3> QED BY <1>0, <2>1, <3>1 DEF ReceivedInv
  <2> QED BY <2>2, <2>3, <2>4, <2>5, <2>6 DEF IInv
<1>5. CASE FoundKind
  <2>1. /\ status = "collecting" /\ status' = "parsing"
        /\ UNCHANGED <<wire, actions, built, received, seen, trips>>
    BY <1>5 DEF FoundKind, Collected
  <2>2. DecodedInv' BY <1>0, <2>1 DEF DecodedInv
  <2> QED BY <1>2, <1>5, <2>1, <2>2, FoundStep DEF IInv
<1>6. CASE Decode
  <2>1. UNCHANGED <<wire, actions, built, received, seen, trips, status>>
    BY <1>6 DEF Decode
  <2> QED BY <1>1, <1>6, <2>1, DecodeStep DEF IInv
<1>7. CASE PushAction
  <2>1. /\ status = "parsing" /\ status' = "collecting"
        /\ UNCHANGED <<wire, built, received, seen, trips>>
    BY <1>7 DEF PushAction
  <2> QED BY <1>2, <1>7, <2>1, PushStep DEF IInv
<1>8. CASE Return BY <1>8, ReturnStep
<1>9. CASE Emit BY <1>9, EmitStep
<1>10. CASE UNCHANGED vars
  <2>1. UNCHANGED <<wire, actions, built, received, seen, trips, status>>
    BY <1>10 DEF vars
  <2>2. ListsInv' BY <1>0, <1>10 DEF ListsInv, vars
  <2>3. PassInv' BY <1>0, <1>10 DEF PassInv, More, Here, vars
  <2> QED BY <1>1, <2>1, <2>2, <2>3 DEF IInv
<1> QED
  BY <1>3, <1>4, <1>5, <1>6, <1>7, <1>8, <1>9, <1>10 DEF Next, Errors

(* The invariant gives the properties.                                     *)
LEMMA IInvGives ==
  ASSUME Given
  PROVE  IInv => TypeOK /\ UnderKind /\ OneKind /\ RoundTrip /\ Stable
<1> SUFFICES ASSUME IInv PROVE TypeOK /\ UnderKind /\ OneKind /\ RoundTrip /\ Stable
  OBVIOUS
<1>0. /\ ListsInv /\ PassInv /\ DecodedInv /\ CallerInv /\ ReceivedInv /\ KindsGiven
  BY DEF IInv, Given
<1>1. /\ wire \in Seq(WireAction) /\ actions \in Seq(ProperAction) /\ trips \in Nat
      /\ built # None => built \in Seq(ProperAction)
      /\ received # None => received \in Seq(WireAction)
      /\ seen # None => seen \in Seq(ProperAction)
  BY <1>0 DEF ListsInv, Given
<1>2. \A w \in WireAction : Len(w.nlas) \in Nat BY DEF WireAction
<1>3. \A a \in ProperAction : Len(a.nlas) \in Nat /\ a.tab \in TabIds BY DEF ProperAction
<1>4. ASSUME NEW w \in WireAction, NEW a \in ProperAction, DecodedFrom(w, a)
      PROVE  /\ Cardinality(KindsIn(a)) = 1 /\ Cardinality(KindsIn(w)) = 1
             /\ \A k \in 1 .. Len(w.nlas) : w.nlas[k].tag # "Malformed"
             /\ \A k \in 1 .. Len(a.nlas) :
                  a.nlas[k].tag = "Options" => a.nlas[k].is = OptionVariant(TheKind(w))
  <2>1. /\ Fits(a) /\ KindsIn(a) = KindsIn(w) /\ TheKind(a) = TheKind(w)
        /\ \A k \in 1 .. Len(w.nlas) : w.nlas[k].tag # "Malformed"
    BY <1>0, <1>4, DecodedFits
  <2>2. Cardinality(KindsIn(a)) = 1 BY <1>3, <2>1, SingleCount DEF Fits
  <2> QED BY <2>1, <2>2 DEF Fits
<1>5. TypeOK
  <2>1. (status \in {"collecting", "parsing"} /\ More) =>
          /\ idx <= Len(Here) + 1
          /\ Len(kinds) <= Cardinality(KindsIn(wire[Len(actions) + 1]))
          /\ Len(attributes) <= Len(Here)
    <3> DEFINE w == wire[Len(actions) + 1]
    <3> SUFFICES ASSUME status \in {"collecting", "parsing"}, More
                 PROVE  /\ idx <= Len(Here) + 1
                        /\ Len(kinds) <= Cardinality(KindsIn(w))
                        /\ Len(attributes) <= Len(Here)
      OBVIOUS
    <3>1. Len(Here) \in Nat /\ Here = w.nlas /\ idx \in Nat \ {0}
      BY <1>0, AtHand DEF ListsInv
    <3>2. idx <= Len(Here) + 1 BY <1>0 DEF PassInv
    <3>3. KindsIn(w) = KindsBefore(Here, Len(Here) + 1) BY <3>1, KindsFront
    <3>4. CASE status = "collecting"
      <4>1. Len(kinds) = Cardinality(KindsBefore(Here, idx)) /\ attributes = <<>>
        BY <1>0, <3>4 DEF PassInv
      <4>2. Len(kinds) <= Cardinality(KindsIn(w))
        BY <3>1, <3>2, <3>3, <4>1, KindsFinite
      <4> QED BY <3>1, <3>2, <4>1, <4>2
    <3>5. CASE status = "parsing"
      <4>1. Len(kinds) = 1 /\ Single(w) /\ Len(attributes) = idx - 1
        BY <1>0, <3>5 DEF PassInv
      <4> HIDE DEF w
      <4>2. Cardinality(KindsIn(w)) = 1 BY <3>1, <4>1, SingleCount
      <4> QED BY <3>1, <3>2, <4>1, <4>2
    <3> QED BY <3>4, <3>5
  <2>2. \A a \in 1 .. Len(actions) : actions[a].tab \in TabIds
    <3>1. \A a \in 1 .. Len(actions) : actions[a] \in ProperAction BY <1>1
    <3> QED BY <1>3, <3>1
  <2>3. /\ status \in {"collecting", "parsing", "value", "err"} /\ trips \in 0 .. MaxTrips
        /\ idx \in Nat \ {0}
    BY <1>0 DEF ListsInv
  <2> QED BY <2>1, <2>2, <2>3 DEF TypeOK
<1>6. ASSUME status # "value" \/ trips > 0 \/ built = None, NEW a \in 1 .. Len(actions)
      PROVE  /\ wire[a] \in WireAction /\ actions[a] \in ProperAction
             /\ DecodedFrom(wire[a], actions[a])
  <2>1. DecodedFrom(wire[a], actions[a]) /\ Len(actions) <= Len(wire)
    BY <1>0, <1>6 DEF DecodedInv
  <2>2. a \in 1 .. Len(wire) BY <1>1, <2>1
  <2> QED BY <1>1, <2>1, <2>2
<1>7. UnderKind
  <2> SUFFICES ASSUME received # None, trips = 0, NEW a \in 1 .. Len(actions),
                      NEW k \in 1 .. Len(actions[a].nlas),
                      actions[a].nlas[k].tag = "Options"
               PROVE  actions[a].nlas[k].is = OptionVariant(TheKind(received[a]))
    BY DEF UnderKind
  <2>1. wire = received /\ built = None BY <1>0 DEF ReceivedInv, ListsInv
  <2> QED BY <1>4, <1>6, <2>1
<1>8. OneKind
  <2>1. ASSUME status # "value" \/ trips > 0 \/ built = None
        PROVE  \A a \in 1 .. Len(actions) : Cardinality(KindsIn(actions[a])) = 1
    BY <1>4, <1>6, <2>1
  <2>2. ASSUME status = "value", received # None
        PROVE  /\ Len(seen) = Len(received)
               /\ \A a \in 1 .. Len(received) :
                    /\ Cardinality(KindsIn(received[a])) = 1
                    /\ \A k \in 1 .. Len(received[a].nlas) :
                         received[a].nlas[k].tag # "Malformed"
    <3>1. seen # None BY <1>0, <2>2 DEF ReceivedInv
    <3>2. /\ Len(seen) = Len(received)
          /\ \A a \in 1 .. Len(received) : DecodedFrom(received[a], seen[a])
      BY <1>0, <2>2, <3>1 DEF ReceivedInv
    <3>3. \A a \in 1 .. Len(received) : received[a] \in WireAction /\ seen[a] \in ProperAction
      BY <1>1, <2>2, <3>1, <3>2
    <3> QED BY <1>4, <3>2, <3>3
  <2> QED BY <2>1, <2>2 DEF OneKind
<1>9. RoundTrip
  <2> SUFFICES ASSUME built # None, trips > 0 PROVE RoundTrip BY DEF RoundTrip
  <2>1. \A a \in 1 .. Len(built) :
          /\ built[a] \in ProperAction
          /\ Cardinality(KindsIn(built[a])) = 1 <=> Single(built[a])
    <3>1. \A a \in 1 .. Len(built) : built[a] \in ProperAction BY <1>1
    <3> QED BY <1>3, <3>1, SingleCount
  <2>2. (\A a \in 1 .. Len(built) : Coherent(built[a])) => AllFit(built)
    BY <2>1 DEF AllFit, Fits, Coherent
  <2>3. ASSUME AllFit(built)
        PROVE  /\ status # "err"
               /\ status = "value" =>
                    actions = [a \in 1 .. Len(built) |->
                                 Action(built[a].tab % KindMask, built[a].nlas)]
    <3>1. status # "err" /\ Echoed(built) BY <1>0, <2>3 DEF CallerInv
    <3>2. ASSUME status = "value"
          PROVE  actions = [a \in 1 .. Len(built) |->
                              Action(built[a].tab % KindMask, built[a].nlas)]
      <4>1. /\ Len(actions) = Len(built)
            /\ \A a \in 1 .. Len(built) :
                 actions[a] = Action(built[a].tab % KindMask, built[a].nlas)
        BY <1>0, <1>1, <2>3, <3>1, <3>2, DecodedEcho
      <4> QED BY <1>1, <4>1
    <3> QED BY <3>1, <3>2
  <2>4. (\E a \in 1 .. Len(built) : Cardinality(KindsIn(built[a])) # 1) => status # "value"
    <3>1. (\E a \in 1 .. Len(built) : Cardinality(KindsIn(built[a])) # 1) => ~AllSingle(built)
      BY <2>1 DEF AllSingle
    <3> QED BY <1>0, <3>1 DEF CallerInv
  <2> QED BY <2>2, <2>3, <2>4 DEF RoundTrip
<1>10. Stable
  <2> SUFFICES ASSUME received # None, seen # None
               PROVE  status # "err" /\ (status = "value" => actions = seen)
    BY DEF Stable
  <2>1. /\ status # "err" /\ Len(seen) = Len(received)
        /\ \A a \in 1 .. Len(received) : DecodedFrom(received[a], seen[a])
        /\ trips = 0 => actions = seen
        /\ trips > 0 => Echoed(seen)
    BY <1>0 DEF ReceivedInv
  <2>2. ASSUME status = "value", trips > 0 PROVE actions = seen
    <3>1. /\ Len(actions) = Len(seen)
          /\ \A a \in 1 .. Len(seen) :
               actions[a] = Action(seen[a].tab % KindMask, seen[a].nlas)
      BY <1>0, <2>1, <2>2, SeenFits, DecodedEcho
    <3>2. ASSUME NEW a \in 1 .. Len(seen) PROVE actions[a] = seen[a]
      <4>1. seen[a] \in ProperAction /\ received[a] \in WireAction BY <1>1, <2>1
      <4>2. seen[a].tab = received[a].tab % KindMask BY <2>1 DEF DecodedFrom
      <4>3. received[a].tab \in TabIds BY <4>1 DEF WireAction
      <4>4. seen[a].tab % KindMask = seen[a].tab BY <4>2, <4>3, Mask
      <4>5. seen[a] = [tab |-> seen[a].tab, nlas |-> seen[a].nlas]
        BY <4>1 DEF ProperAction
      <4> QED BY <3>1, <4>4, <4>5 DEF Action
    <3> QED BY <1>1, <3>1, <3>2
  <2> QED BY <1>1, <2>1, <2>2
<1> QED BY <1>5, <1>7, <1>8, <1>9, <1>10
-----------------------------------------------------------------------------
(* The iterators of both passes stay within the action at hand, the first  *)
(* pass collects no more kinds than the action has, and table ids stay     *)
(* u16.                                                                    *)
THEOREM TypeOKHolds == ASSUME Given PROVE Spec => []TypeOK
<1>1. Init => IInv BY InitIInv
<1>2. IInv /\ [Next]_vars => IInv' BY NextIInv
<1> QED BY <1>1, <1>2, IInvGives, PTL DEF Spec

(* The options of an action are decoded by the parser of the kind of the   *)
(* same action, wherever in it the kind stands.                            *)
THEOREM UnderKindHolds == ASSUME Given PROVE Spec => []UnderKind
<1>1. Init => IInv BY InitIInv
<1>2. IInv /\ [Next]_vars => IInv' BY NextIInv
<1> QED BY <1>1, <1>2, IInvGives, PTL DEF Spec

(* TcAction::parse returns an action only if it has exactly one            *)
(* TCA_ACT_KIND, and a message only if all of its actions do and none has  *)
(* a malformed attribute.                                                  *)
THEOREM OneKindHolds == ASSUME Given PROVE Spec => []OneKind
<1>1. Init => IInv BY InitIInv
<1>2. IInv /\ [Next]_vars => IInv' BY NextIInv
<1> QED BY <1>1, <1>2, IInvGives, PTL DEF Spec

(* A caller's list in which each action has one kind, and options that go  *)
(* with it, is never refused and comes back as it was, the flags of the    *)
(* table ids aside; a list in which an action has no kind or two never     *)
(* comes back.                                                             *)
THEOREM RoundTripHolds == ASSUME Given PROVE Spec => []RoundTrip
<1>1. Init => IInv BY InitIInv
<1>2. IInv /\ [Next]_vars => IInv' BY NextIInv
<1> QED BY <1>1, <1>2, IInvGives, PTL DEF Spec

(* What was decoded from the wire once is emitted to something that is     *)
(* decoded to the same, on every trip.                                     *)
THEOREM StableHolds == ASSUME Given PROVE Spec => []Stable
<1>1. Init => IInv BY InitIInv
<1>2. IInv /\ [Next]_vars => IInv' BY NextIInv
<1> QED BY <1>1, <1>2, IInvGives, PTL DEF Spec
===============================================================================
