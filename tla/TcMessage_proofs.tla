--------------------------- MODULE TcMessage_proofs ---------------------------
(***************************************************************************)
(* Proofs about traffic control messages, for lists of every length, every *)
(* set of kinds and any number of trips: options and statistics are        *)
(* decoded under the kind they stand under, and a message survives its     *)
(* emission, one more TCA_OPTIONS around undecoded options excepted.       *)
(***************************************************************************)
EXTENDS TcMessage, TLAPS

USE DEF Empty

BoundsGiven == MaxAttrs \in Nat /\ MaxTrips \in Nat

Words == Names \cup {Empty, "Other", "true", "false"}

(* The attributes on the wire, with at most d headers inside.              *)
Readable(d) ==
  {w \in [tag : Tags, is : Words, raw : {Empty}, depth : 0 .. d] :
     /\ w.tag \in {"Kind", "Options", "Xstats"} => w.is \in Names
     /\ w.tag \in {"DumpInvisible", "Chain", "Malformed"} => w.is = Empty
     /\ w.tag # "Options" => w.depth = 0}

(* The values decoding can return or a caller can build, with at most d    *)
(* headers inside undecoded options.                                       *)
Proper(d) ==
  {v \in [tag : Tags, is : Words, raw : Words, depth : 0 .. d] :
     \/ v.tag = "Options" /\ v.is = "Other" /\ v.raw \in Names
     \/ v.tag = "Xstats" /\ v.is = "Other" /\ v.raw \in Names /\ v.depth = 0
     \/ /\ v.raw = Empty /\ v.depth = 0
        /\ \/ v.tag = "Kind" /\ v.is \in Names
           \/ v.tag = "Options" /\ v.is \in Names \cap OptionKinds
           \/ v.tag = "Xstats" /\ v.is \in Names \cap {"fq_codel"}
           \/ v.tag = "DumpInvisible" /\ v.is \in {"true", "false"}
           \/ v.tag = "Chain" /\ v.is = Empty}

(* The headers inside an option on the wire, which only trips after the    *)
(* first decoding put there.                                               *)
Bound == IF seen = NoList THEN 0 ELSE trips

(* The nearest kind in front of attribute n of a list is k.                *)
Met(list, n, k) ==
  \/ k = Empty /\ \A i \in 1 .. n - 1 : list[i].tag # "Kind"
  \/ \E i \in 1 .. n - 1 :
       /\ list[i].tag = "Kind" /\ list[i].is = k
       /\ \A j \in i + 1 .. n - 1 : list[j].tag # "Kind"

(* Value v has been decoded under kind k.                                  *)
Suits(v, k) ==
  /\ v.tag = "Options" => v.is = OptionVariant(k)
  /\ v.tag = "Xstats" => v.is = XstatsVariant(k)

Sendable(v) == v # Attr("DumpInvisible", "false")

(* Every value of a list has been decoded under the kind it stands under.  *)
AllSuit(list) ==
  \A n \in 1 .. Len(list) :
    Sendable(list[n]) /\ \E k : Met(list, n, k) /\ Suits(list[n], k)

ParseInv ==
  status = "parsing" =>
    /\ Len(attributes) = idx - 1
    /\ Met(attributes, idx, kind)
    /\ AllSuit(attributes)

(* Value v after t more trips, and as it is sent for the last of them.     *)
Aged(v, t) ==
  IF v.tag = "Options" /\ v.is = "Other" THEN [v EXCEPT !.depth = @ + t] ELSE v

Sent(v, t) ==
  IF v.tag = "Options" /\ v.is = "Other"
  THEN [Attr("Options", v.raw) EXCEPT !.depth = v.depth + t - 1]
  ELSE Emitted(v)

(* A list is emitted, or decoded again from its emission.                  *)
Echoes(list, t) ==
  /\ status # "err"
  /\ status = "value" => attributes = [i \in 1 .. Len(list) |-> Aged(list[i], t)]
  /\ status = "parsing" =>
       /\ wire = [i \in 1 .. Len(list) |-> Sent(list[i], t)]
       /\ \A j \in 1 .. Len(attributes) : attributes[j] = Aged(list[j], t)

ListsInv ==
  /\ trips \in 0 .. MaxTrips
  /\ wire \in Seq(Readable(Bound))
  /\ idx \in 1 .. Len(wire) + 1
  /\ kind \in Names \cup {Empty}
  /\ attributes \in Seq(Proper(Bound + 1))
  /\ built \in Seq(Values) \cup {NoList}
  /\ seen \in Seq(Proper(1)) \cup {NoList}
  /\ status \in {"parsing", "value", "err"}
  /\ (status = "value" /\ seen = NoList) => attributes = built /\ built # NoList
  /\ seen = NoList => /\ status = "value" => trips = 0
                      /\ (status = "parsing" /\ built # NoList) => trips = 1

Coherent(list) ==
  Kinded(list) /\ \A i \in 1 .. Len(list) : Sendable(list[i])

EchoInv ==
  /\ (built # NoList /\ Coherent(built)) => Echoes(built, Emissions)
  /\ seen # NoList => Coherent(seen) /\ Echoes(seen, trips)

IInv == ListsInv /\ ParseInv /\ EchoInv
-----------------------------------------------------------------------------
(* The nearest kind in front of an attribute is what KindAt chooses.       *)
LEMMA MetKind ==
  ASSUME NEW list, NEW n \in Nat, NEW k, Met(list, n, k)
  PROVE  KindAt(list, n) = k
<1> DEFINE at == {i \in 1 .. n - 1 : list[i].tag = "Kind"}
<1>1. CASE at = {} BY <1>1 DEF Met, KindAt
<1>2. CASE at # {}
  <2>1. PICK i \in 1 .. n - 1 : /\ list[i].tag = "Kind" /\ list[i].is = k
                               /\ \A j \in i + 1 .. n - 1 : list[j].tag # "Kind"
    BY <1>2 DEF Met
  <2>2. i \in at /\ \A j \in at : j <= i BY <2>1
  <2>3. \A m \in at : (\A j \in at : j <= m) => m = i BY <2>2
  <2>4. (CHOOSE m \in at : \A j \in at : j <= m) = i BY <2>2, <2>3
  <2> QED BY <1>2, <2>1, <2>4 DEF KindAt
<1> QED BY <1>1, <1>2

(* It depends on the kinds in front of the attribute only.                 *)
LEMMA MetSame ==
  ASSUME NEW a, NEW b, NEW n \in Nat, NEW k, Met(a, n, k),
         \A j \in 1 .. n - 1 : a[j].tag = b[j].tag /\ (a[j].tag = "Kind" => a[j].is = b[j].is)
  PROVE  Met(b, n, k)
<1>1. CASE k = Empty /\ \A i \in 1 .. n - 1 : a[i].tag # "Kind" BY <1>1 DEF Met
<1>2. CASE \E i \in 1 .. n - 1 : /\ a[i].tag = "Kind" /\ a[i].is = k
                                 /\ \A j \in i + 1 .. n - 1 : a[j].tag # "Kind"
  <2>1. PICK i \in 1 .. n - 1 : /\ a[i].tag = "Kind" /\ a[i].is = k
                               /\ \A j \in i + 1 .. n - 1 : a[j].tag # "Kind"
    BY <1>2
  <2>2. \A j \in i + 1 .. n - 1 : j \in 1 .. n - 1 BY <2>1
  <2>3. /\ b[i].tag = "Kind" /\ b[i].is = k
        /\ \A j \in i + 1 .. n - 1 : b[j].tag # "Kind"
    BY <2>1, <2>2
  <2> QED BY <2>1, <2>3 DEF Met
<1> QED BY <1>1, <1>2 DEF Met

(* A kind is the nearest for what follows it, until the next one.          *)
LEMMA MetNext ==
  ASSUME NEW list, NEW n \in Nat \ {0}, NEW k, Met(list, n, k)
  PROVE  Met(list, n + 1, IF list[n].tag = "Kind" THEN list[n].is ELSE k)
<1>1. CASE list[n].tag = "Kind"
  <2>1. n \in 1 .. (n + 1) - 1 /\ \A j \in n + 1 .. (n + 1) - 1 : FALSE OBVIOUS
  <2> QED BY <1>1, <2>1 DEF Met
<1>2. CASE list[n].tag # "Kind"
  <2>1. \A i \in 1 .. (n + 1) - 1 : i \in 1 .. n - 1 \/ i = n OBVIOUS
  <2>2. CASE k = Empty /\ \A i \in 1 .. n - 1 : list[i].tag # "Kind"
    BY <1>2, <2>1, <2>2 DEF Met
  <2>3. ASSUME NEW i \in 1 .. n - 1, list[i].tag = "Kind", list[i].is = k,
               \A j \in i + 1 .. n - 1 : list[j].tag # "Kind"
        PROVE  Met(list, n + 1, k)
    <3>1. i \in 1 .. (n + 1) - 1 OBVIOUS
    <3>2. \A j \in i + 1 .. (n + 1) - 1 : j \in i + 1 .. n - 1 \/ j = n OBVIOUS
    <3>3. \A j \in i + 1 .. (n + 1) - 1 : list[j].tag # "Kind" BY <1>2, <2>3, <3>2
    <3> QED BY <2>3, <3>1, <3>3 DEF Met
  <2> QED BY <1>2, <2>2, <2>3 DEF Met
<1> QED BY <1>1, <1>2
-----------------------------------------------------------------------------
(* A step of the loop that pushes value v.                                 *)
Pushes(v) ==
  /\ status = "parsing" /\ idx <= Len(wire)
  /\ attributes' = Append(attributes, v)
  /\ kind' = IF v.tag = "Kind" THEN v.is ELSE kind
  /\ idx' = idx + 1
  /\ UNCHANGED <<wire, built, seen, trips, status>>

(* v is the only value that wire[idx] could have been sent from.           *)
OnlySource(v) ==
  \A r \in Proper(1), t \in Nat :
    (wire[idx] = Sent(r, t) /\ Suits(r, kind) /\ Sendable(r)) => v = Aged(r, t)

(* The fields of attributes.                                               *)
LEMMA AttrFields ==
  /\ \A tag, is : /\ Attr(tag, is).tag = tag /\ Attr(tag, is).is = is
                  /\ Attr(tag, is).raw = Empty /\ Attr(tag, is).depth = 0
  /\ \A tag, l, d : /\ Undecoded(tag, l, d).tag = tag /\ Undecoded(tag, l, d).is = "Other"
                    /\ Undecoded(tag, l, d).raw = l /\ Undecoded(tag, l, d).depth = d
BY DEF Attr, Undecoded

(* A value is its fields.                                                  *)
LEMMA ProperShape ==
  ASSUME NEW d, NEW v \in Proper(d)
  PROVE  /\ v.is = "Other" /\ v.tag \in {"Options", "Xstats"} =>
              v = Undecoded(v.tag, v.raw, v.depth) /\ v.raw \in Names
         /\ ~(v.is = "Other" /\ v.tag \in {"Options", "Xstats"}) =>
              v = Attr(v.tag, v.is) /\ v.depth = 0 /\ v.raw = Empty
         /\ v.tag = "Xstats" => v.depth = 0
         /\ v.tag # "Malformed"
<1>1. v \in [tag : Tags, is : Words, raw : Words, depth : 0 .. d] BY DEF Proper
<1>2. v = [tag |-> v.tag, is |-> v.is, raw |-> v.raw, depth |-> v.depth] BY <1>1
<1>3. "Other" \notin OptionKinds /\ "Other" # "fq_codel" BY DEF OptionKinds
<1> QED BY <1>2, <1>3 DEF Proper, Attr, Undecoded

(* What is sent for a value, by its fields.                                *)
LEMMA SentFields ==
  ASSUME NEW r \in Proper(1), NEW t \in Nat
  PROVE  /\ Sent(r, t).tag = r.tag
         /\ (r.tag = "Options" /\ r.is = "Other") =>
              Sent(r, t).is = r.raw /\ Sent(r, t).depth = r.depth + t - 1
         /\ (r.tag = "Xstats" /\ r.is = "Other") =>
              Sent(r, t).is = r.raw /\ Sent(r, t).depth = 0
         /\ (r.tag # "DumpInvisible" /\ ~(r.tag \in {"Options", "Xstats"} /\ r.is = "Other")) =>
              Sent(r, t) = r /\ Sent(r, t).depth = 0
<1>1. CASE r.tag = "Options" /\ r.is = "Other" BY <1>1 DEF Sent, Attr
<1>2. CASE r.tag = "Xstats" /\ r.is = "Other" BY <1>2 DEF Sent, Emitted, Attr
<1>3. CASE r.tag = "DumpInvisible" BY <1>3 DEF Sent, Emitted, Attr
<1>4. CASE r.tag # "DumpInvisible" /\ ~(r.tag \in {"Options", "Xstats"} /\ r.is = "Other")
  <2>1. Sent(r, t) = r BY <1>4 DEF Sent, Emitted
  <2> QED BY <1>4, <2>1, ProperShape
<1> QED BY <1>1, <1>2, <1>3, <1>4

(* What a parser of no kind gives is "Other", which is no kind's name.     *)
LEMMA Variants ==
  /\ \A k : OptionVariant(k) \in {"Other", k} /\ XstatsVariant(k) \in {"Other", k}
  /\ \A k : OptionVariant(k) # "Other" => k \in OptionKinds
  /\ \A k : XstatsVariant(k) # "Other" => k = "fq_codel"
  /\ \A k : OptionVariant(k) = "Other" => k \notin OptionKinds
  /\ \A k : XstatsVariant(k) = "Other" => k # "fq_codel"
  /\ Empty \notin OptionKinds /\ "Other" \notin OptionKinds
BY DEF OptionVariant, XstatsVariant, OptionKinds

(* The attribute the iterator is at.                                       *)
LEMMA AttrRead ==
  ASSUME ListsInv, idx <= Len(wire)
  PROVE  /\ idx \in 1 .. Len(wire) /\ wire[idx] \in Readable(Bound) /\ Bound \in Nat
         /\ kind \in Names \cup {Empty}
<1>1. wire \in Seq(Readable(Bound)) /\ idx \in 1 .. Len(wire) BY DEF ListsInv
<1>2. Bound \in Nat /\ kind \in Names \cup {Empty} BY DEF ListsInv, Bound
<1> QED BY <1>1, <1>2

(* An attribute that is read as it is.                                     *)
LEMMA ReadPlain ==
  ASSUME ListsInv, idx <= Len(wire), wire[idx].tag \in {"Kind", "Chain"}
  PROVE  LET v == wire[idx]
         IN  v \in Proper(Bound + 1) /\ Suits(v, kind) /\ Sendable(v) /\ OnlySource(v)
<1> DEFINE v == wire[idx]
<1>1. v \in Readable(Bound) BY AttrRead
<1>2. /\ v \in [tag : Tags, is : Words, raw : {Empty}, depth : 0 .. Bound]
      /\ v.depth = 0 /\ v.raw = Empty
      /\ v.tag = "Kind" => v.is \in Names
      /\ v.tag = "Chain" => v.is = Empty
  BY <1>1 DEF Readable
<1>3. Empty \in Words /\ 0 \in 0 .. Bound + 1 BY AttrRead DEF Words
<1>4. v \in Proper(Bound + 1)
  <2>1. v \in [tag : Tags, is : Words, raw : Words, depth : 0 .. Bound + 1]
    BY <1>2, <1>3
  <2> QED BY <1>2, <2>1 DEF Proper
<1>5. Suits(v, kind) BY DEF Suits
<1>6. Sendable(v) BY AttrFields DEF Sendable
<1>7. OnlySource(v)
  <2> SUFFICES ASSUME NEW r \in Proper(1), NEW t \in Nat, wire[idx] = Sent(r, t)
               PROVE  v = Aged(r, t)
    BY DEF OnlySource
  <2>1. r.tag \in {"Kind", "Chain"} BY SentFields
  <2> QED BY <2>1, SentFields DEF Aged
<1> QED BY <1>4, <1>5, <1>6, <1>7

(* Options or statistics of a kind without a parser are kept undecoded.    *)
LEMMA ReadUndecoded ==
  ASSUME ListsInv, idx <= Len(wire), wire[idx].tag \in {"Options", "Xstats"},
         wire[idx].tag = "Options" => OptionVariant(kind) = "Other",
         wire[idx].tag = "Xstats" => XstatsVariant(kind) = "Other"
  PROVE  LET v == Undecoded(wire[idx].tag, wire[idx].is,
                            IF wire[idx].tag = "Options" THEN wire[idx].depth + 1 ELSE 0)
         IN  v \in Proper(Bound + 1) /\ Suits(v, kind) /\ Sendable(v) /\ OnlySource(v)
<1> DEFINE w == wire[idx]
           more == IF w.tag = "Options" THEN w.depth + 1 ELSE 0
           v == Undecoded(w.tag, w.is, more)
<1>1. w \in Readable(Bound) BY AttrRead
<1>2. /\ w.is \in Names /\ w.is \in Words /\ w.tag \in Tags /\ w.depth \in 0 .. Bound
      /\ w.tag = "Xstats" => w.depth = 0
  BY <1>1 DEF Readable
<1>3. "Other" \in Words /\ more \in 0 .. Bound + 1 BY <1>2, AttrRead DEF Words
<1>4. v.tag = w.tag /\ v.is = "Other" /\ v.raw = w.is /\ v.depth = more BY AttrFields
<1>5. v \in Proper(Bound + 1)
  <2>1. v \in [tag : Tags, is : Words, raw : Words, depth : 0 .. Bound + 1]
    BY <1>2, <1>3 DEF Undecoded
  <2> QED BY <1>2, <1>4, <2>1 DEF Proper
<1>6. Suits(v, kind) BY <1>4 DEF Suits
<1>7. Sendable(v) BY <1>4, AttrFields DEF Sendable
<1>8. OnlySource(v)
  <2> SUFFICES ASSUME NEW r \in Proper(1), NEW t \in Nat, w = Sent(r, t), Suits(r, kind)
               PROVE  v = Aged(r, t)
    BY DEF OnlySource
  <2>1. r.tag = w.tag BY SentFields
  <2>2. r.is = "Other" BY <2>1 DEF Suits
  <2>3. r = Undecoded(r.tag, r.raw, r.depth) BY <2>1, <2>2, ProperShape
  <2>4. CASE w.tag = "Options"
    <3>1. w.is = r.raw /\ w.depth = r.depth + t - 1 BY <2>1, <2>2, <2>4, SentFields
    <3>0. r.depth \in Int /\ more = r.depth + t BY <2>4, <3>1 DEF Proper
    <3>2. Aged(r, t) = [r EXCEPT !.depth = @ + t] BY <2>1, <2>2, <2>4 DEF Aged
    <3>3. [r EXCEPT !.depth = @ + t] = Undecoded(r.tag, r.raw, r.depth + t)
      BY <2>3 DEF Undecoded
    <3> QED BY <2>1, <3>0, <3>1, <3>2, <3>3
  <2>5. CASE w.tag = "Xstats"
    <3>1. w.is = r.raw /\ w.depth = 0 BY <2>1, <2>2, <2>5, SentFields
    <3>2. Aged(r, t) = r /\ r.depth = 0 BY <2>1, <2>5, ProperShape DEF Aged
    <3> QED BY <2>1, <2>3, <2>5, <3>1, <3>2
  <2> QED BY <2>4, <2>5
<1> QED BY <1>5, <1>6, <1>7, <1>8

(* Options or statistics of a kind with a parser are that parser's.        *)
LEMMA ReadDecoded ==
  ASSUME ListsInv, idx <= Len(wire), wire[idx].tag \in {"Options", "Xstats"},
         wire[idx].tag = "Options" => OptionVariant(kind) # "Other",
         wire[idx].tag = "Xstats" => XstatsVariant(kind) # "Other"
  PROVE  LET v == Attr(wire[idx].tag, kind)
         IN  v \in Proper(Bound + 1) /\ Suits(v, kind) /\ Sendable(v) /\ OnlySource(v)
<1> DEFINE w == wire[idx]
           v == Attr(w.tag, kind)
<1>1. /\ kind \in Names /\ kind # "Other" /\ 0 \in 0 .. Bound + 1
      /\ w.tag = "Options" => kind \in OptionKinds /\ OptionVariant(kind) = kind
      /\ w.tag = "Xstats" => kind = "fq_codel" /\ XstatsVariant(kind) = kind
  <2>1. kind # "Other"
    BY Variants
  <2>2. kind # Empty BY Variants
  <2> QED BY <2>1, <2>2, AttrRead, Variants
<1>2. w.tag \in Tags /\ Empty \in Words /\ kind \in Words BY <1>1 DEF Tags, Words
<1>3. v.tag = w.tag /\ v.is = kind /\ v.raw = Empty /\ v.depth = 0 BY AttrFields
<1>4. v \in Proper(Bound + 1)
  <2>1. v \in [tag : Tags, is : Words, raw : Words, depth : 0 .. Bound + 1]
    BY <1>1, <1>2 DEF Attr
  <2> QED BY <1>1, <1>3, <2>1 DEF Proper
<1>5. Suits(v, kind) BY <1>1, <1>3 DEF Suits
<1>6. Sendable(v) BY <1>3, AttrFields DEF Sendable
<1>7. OnlySource(v)
  <2> SUFFICES ASSUME NEW r \in Proper(1), NEW t \in Nat, w = Sent(r, t), Suits(r, kind)
               PROVE  v = Aged(r, t)
    BY DEF OnlySource
  <2>1. r.tag = w.tag BY SentFields
  <2>2. r.is = kind BY <1>1, <2>1 DEF Suits
  <2>3. r = Attr(r.tag, r.is) BY <1>1, <2>2, ProperShape
  <2> QED BY <1>1, <2>1, <2>2, <2>3 DEF Aged
<1> QED BY <1>4, <1>5, <1>6, <1>7

(* An attribute that only has to be there.                                 *)
LEMMA ReadFlag ==
  ASSUME ListsInv, idx <= Len(wire), wire[idx].tag = "DumpInvisible"
  PROVE  LET v == Attr("DumpInvisible", "true")
         IN  v \in Proper(Bound + 1) /\ Suits(v, kind) /\ Sendable(v) /\ OnlySource(v)
<1> DEFINE v == Attr("DumpInvisible", "true")
<1>1. "DumpInvisible" \in Tags /\ "true" \in Words /\ Empty \in Words /\ 0 \in 0 .. Bound + 1
  BY AttrRead DEF Tags, Words
<1>2. v.tag = "DumpInvisible" /\ v.is = "true" /\ v.raw = Empty /\ v.depth = 0 BY AttrFields
<1>3. v \in Proper(Bound + 1)
  <2>1. v \in [tag : Tags, is : Words, raw : Words, depth : 0 .. Bound + 1]
    BY <1>1 DEF Attr
  <2> QED BY <1>2, <2>1 DEF Proper
<1>4. Suits(v, kind) BY <1>2 DEF Suits
<1>5. Sendable(v)
  <2>1. Attr("DumpInvisible", "false").is = "false" BY AttrFields
  <2>2. "true" # "false" OBVIOUS
  <2> QED BY <1>2, <2>1, <2>2 DEF Sendable
<1>6. OnlySource(v)
  <2> SUFFICES ASSUME NEW r \in Proper(1), NEW t \in Nat, wire[idx] = Sent(r, t),
                      Sendable(r)
               PROVE  v = Aged(r, t)
    BY DEF OnlySource
  <2>1. r.tag = "DumpInvisible" BY SentFields
  <2>2. r = Attr("DumpInvisible", r.is) BY <2>1, ProperShape
  <2>3. r.is \in {"true", "false"} BY <2>1 DEF Proper
  <2>4. r = v BY <2>2, <2>3 DEF Sendable
  <2> QED BY <2>1, <2>4 DEF Aged
<1> QED BY <1>3, <1>4, <1>5, <1>6

(* A step of the loop pushes a value that suits the kind it stands under.  *)
LEMMA ReadPushes ==
  ASSUME ListsInv, Read
  PROVE  \E v \in Proper(Bound + 1) :
           Pushes(v) /\ Suits(v, kind) /\ Sendable(v) /\ OnlySource(v)
<1> DEFINE w == wire[idx]
<1>1. PICK v \in Decodings(w) : Pushes(v) BY DEF Read, Pushes
<1>2. idx <= Len(wire) BY DEF Read
<1>3. w.tag \in Tags BY <1>2, AttrRead DEF Readable
<1> SUFFICES v \in Proper(Bound + 1) /\ Suits(v, kind) /\ Sendable(v) /\ OnlySource(v) BY <1>1
<1>4. CASE w.tag = "Malformed" BY <1>1, <1>4 DEF Decodings
<1>5. CASE w.tag \in {"Kind", "Chain"}
  <2>1. v = w BY <1>1, <1>5 DEF Decodings
  <2> QED BY <1>2, <1>5, <2>1, ReadPlain
<1>6. CASE w.tag = "DumpInvisible"
  <2>1. v = Attr("DumpInvisible", "true") BY <1>1, <1>6 DEF Decodings
  <2> QED BY <1>2, <1>6, <2>1, ReadFlag
<1>7. CASE w.tag = "Options"
  <2>1. v = IF OptionVariant(kind) = "Other" THEN Undecoded(w.tag, w.is, w.depth + 1)
            ELSE Attr(w.tag, kind)
    BY <1>1, <1>7 DEF Decodings
  <2>2. CASE OptionVariant(kind) = "Other" BY <1>2, <1>7, <2>1, <2>2, ReadUndecoded
  <2>3. CASE OptionVariant(kind) # "Other" BY <1>2, <1>7, <2>1, <2>3, ReadDecoded
  <2> QED BY <2>2, <2>3
<1>8. CASE w.tag = "Xstats"
  <2>1. v = IF XstatsVariant(kind) = "Other" THEN Undecoded(w.tag, w.is, 0)
            ELSE Attr(w.tag, kind)
    BY <1>1, <1>8 DEF Decodings
  <2>2. CASE XstatsVariant(kind) = "Other" BY <1>2, <1>8, <2>1, <2>2, ReadUndecoded
  <2>3. CASE XstatsVariant(kind) # "Other" BY <1>2, <1>8, <2>1, <2>3, ReadDecoded
  <2> QED BY <2>2, <2>3
<1> QED BY <1>3, <1>4, <1>5, <1>6, <1>7, <1>8 DEF Tags

(* What was sent from a value that suits the kind is not refused.          *)
LEMMA NotRefused ==
  ASSUME NEW r \in Proper(1), NEW t \in Nat, wire[idx] = Sent(r, t), Suits(r, kind)
  PROVE  ~Refuse
<1> SUFFICES ASSUME MayFail(wire[idx]) PROVE FALSE BY DEF Refuse
<1>1. wire[idx].tag = r.tag /\ r.tag # "Malformed" BY SentFields, ProperShape
<1>2. CASE r.tag = "Options" /\ OptionVariant(kind) # "Other"
  <2>1. r.is = kind /\ r.is # "Other" BY <1>2, Variants DEF Suits
  <2>2. wire[idx] = r /\ wire[idx].depth = 0 BY <1>2, <2>1, SentFields
  <2> QED BY <1>1, <1>2, <2>1, <2>2 DEF MayFail
<1>3. CASE r.tag = "Xstats" /\ XstatsVariant(kind) # "Other"
  <2>1. r.is = kind /\ r.is # "Other" /\ XstatsVariant(kind) = r.is
    BY <1>3, Variants DEF Suits
  <2>2. wire[idx] = r BY <1>3, <2>1, SentFields
  <2> QED BY <1>1, <1>3, <2>1, <2>2 DEF MayFail
<1> QED BY <1>1, <1>2, <1>3 DEF MayFail
-----------------------------------------------------------------------------
(* A kind that is met in a list is met in the list that is decoded from    *)
(* the emission of it.                                                     *)
LEMMA MetEcho ==
  ASSUME NEW list \in Seq(Proper(1)), NEW t \in Nat, NEW n \in 1 .. Len(list), NEW k,
         NEW a, Met(a, n, k), \A j \in 1 .. n - 1 : a[j] = Aged(list[j], t)
  PROVE  KindAt(list, n) = k
<1>1. \A j \in 1 .. n - 1 : list[j] \in Proper(1) OBVIOUS
<1>2. \A v \in Proper(1) : Aged(v, t).tag = v.tag /\ Aged(v, t).is = v.is
  <2> SUFFICES ASSUME NEW v \in Proper(1)
               PROVE  Aged(v, t).tag = v.tag /\ Aged(v, t).is = v.is
    OBVIOUS
  <2>1. v \in [tag : Tags, is : Words, raw : Words, depth : 0 .. 1] BY DEF Proper
  <2> QED BY <2>1 DEF Aged
<1>3. \A j \in 1 .. n - 1 :
        a[j].tag = list[j].tag /\ (a[j].tag = "Kind" => a[j].is = list[j].is)
  BY <1>1, <1>2
<1>4. n \in Nat OBVIOUS
<1>5. Met(list, n, k) BY <1>3, <1>4, MetSame
<1> QED BY <1>4, <1>5, MetKind

(* The attribute the iterator is at, when a coherent list is being echoed. *)
LEMMA EchoAttr ==
  ASSUME ListsInv, ParseInv, NEW list \in Seq(Proper(1)), NEW t \in Nat,
         Coherent(list), Echoes(list, t), status = "parsing", idx <= Len(wire)
  PROVE  /\ idx \in 1 .. Len(list)
         /\ list[idx] \in Proper(1)
         /\ wire[idx] = Sent(list[idx], t)
         /\ Suits(list[idx], kind) /\ Sendable(list[idx])
<1>1. /\ wire = [i \in 1 .. Len(list) |-> Sent(list[i], t)]
      /\ \A j \in 1 .. Len(attributes) : attributes[j] = Aged(list[j], t)
  BY DEF Echoes
<1>2. Len(list) \in Nat /\ Len(wire) = Len(list) BY <1>1
<1>3. idx \in 1 .. Len(list) BY <1>2, AttrRead
<1>4. list[idx] \in Proper(1) /\ wire[idx] = Sent(list[idx], t) BY <1>1, <1>3
<1>5. Len(attributes) = idx - 1 /\ Met(attributes, idx, kind) BY DEF ParseInv
<1>6. KindAt(list, idx) = kind BY <1>1, <1>3, <1>5, MetEcho
<1>7. Suits(list[idx], kind) /\ Sendable(list[idx])
  BY <1>3, <1>6 DEF Coherent, Kinded, Suits
<1> QED BY <1>3, <1>4, <1>7

(* What is emitted for an aged value is what is sent for it on the trip.   *)
LEMMA EmitAged ==
  ASSUME NEW r \in Proper(1), NEW t \in Nat
  PROVE  Emitted(Aged(r, t)) = Sent(r, t + 1)
<1>1. CASE r.tag = "Options" /\ r.is = "Other"
  <2>1. r \in [tag : Tags, is : Words, raw : Words, depth : 0 .. 1] BY DEF Proper
  <2>2. Aged(r, t) = [r EXCEPT !.depth = @ + t] BY <1>1 DEF Aged
  <2>3. /\ Aged(r, t).tag = "Options" /\ Aged(r, t).is = "Other"
        /\ Aged(r, t).raw = r.raw /\ Aged(r, t).depth = r.depth + t
    BY <1>1, <2>1, <2>2
  <2>4. Emitted(Aged(r, t)) = [Attr("Options", r.raw) EXCEPT !.depth = r.depth + t]
    BY <2>3 DEF Emitted
  <2>5. r.depth + t = r.depth + (t + 1) - 1 BY <2>1
  <2> QED BY <1>1, <2>4, <2>5 DEF Sent
<1>2. CASE ~(r.tag = "Options" /\ r.is = "Other") BY <1>2 DEF Sent, Aged
<1> QED BY <1>1, <1>2

(* Every step carries on the echo of a coherent list.                      *)
LEMMA EchoStep ==
  ASSUME ListsInv, ParseInv, NEW list \in Seq(Proper(1)), NEW t \in Nat,
         Coherent(list), Echoes(list, t)
  PROVE  /\ \A v : (Pushes(v) /\ OnlySource(v)) => Echoes(list, t)'
         /\ ~Refuse
         /\ Return => Echoes(list, t)'
         /\ Emit => Echoes(list, t + 1)'
<1>0. attributes \in Seq(Proper(Bound + 1)) /\ Len(attributes) \in Nat /\ Len(list) \in Nat
  BY DEF ListsInv
<1>1. ASSUME NEW v, Pushes(v), OnlySource(v) PROVE Echoes(list, t)'
  <2>1. status = "parsing" /\ idx <= Len(wire) BY <1>1 DEF Pushes
  <2>2. v = Aged(list[idx], t) BY <1>1, <2>1, EchoAttr DEF OnlySource
  <2>3. /\ wire = [i \in 1 .. Len(list) |-> Sent(list[i], t)]
        /\ Len(attributes) = idx - 1
        /\ \A j \in 1 .. Len(attributes) : attributes[j] = Aged(list[j], t)
    BY <2>1 DEF Echoes, ParseInv
  <2>4. attributes' = Append(attributes, v) /\ wire' = wire /\ status' = status
    BY <1>1 DEF Pushes
  <2>5. Len(attributes') = Len(attributes) + 1 /\ attributes'[Len(attributes) + 1] = v
    BY <1>0, <2>4
  <2>6. \A j \in 1 .. Len(attributes) : attributes'[j] = Aged(list[j], t)
    BY <1>0, <2>3, <2>4
  <2>7. idx = Len(attributes) + 1 BY <1>0, <2>1, <2>3, AttrRead
  <2>8. \A j \in 1 .. Len(attributes') : attributes'[j] = Aged(list[j], t)
    BY <1>0, <2>2, <2>5, <2>6, <2>7
  <2> QED BY <2>1, <2>3, <2>4, <2>8 DEF Echoes
<1>2. ~Refuse
  <2>1. Refuse => status = "parsing" /\ idx <= Len(wire) BY DEF Refuse
  <2> QED BY <2>1, EchoAttr, NotRefused
<1>3. ASSUME Return PROVE Echoes(list, t)'
  <2>1. /\ status = "parsing" /\ idx > Len(wire) /\ status' = "value"
        /\ attributes' = attributes
    BY <1>3 DEF Return
  <2>2. /\ wire = [i \in 1 .. Len(list) |-> Sent(list[i], t)]
        /\ Len(attributes) = idx - 1
        /\ \A j \in 1 .. Len(attributes) : attributes[j] = Aged(list[j], t)
    BY <2>1 DEF Echoes, ParseInv
  <2>3. idx \in 1 .. Len(wire) + 1 BY DEF ListsInv
  <2>4. Len(wire) = Len(list) BY <1>0, <2>2
  <2>5. Len(attributes) = Len(list) BY <1>0, <2>1, <2>2, <2>3, <2>4
  <2>6. attributes = [i \in 1 .. Len(list) |-> Aged(list[i], t)] BY <1>0, <2>2, <2>5
  <2> QED BY <2>1, <2>6 DEF Echoes
<1>4. ASSUME Emit PROVE Echoes(list, t + 1)'
  <2>1. attributes = [i \in 1 .. Len(list) |-> Aged(list[i], t)] BY <1>4 DEF Emit, Echoes
  <2>2. /\ wire' = [i \in 1 .. Len(attributes) |-> Emitted(attributes[i])]
        /\ attributes' = <<>> /\ status' = "parsing"
    BY <1>4 DEF Emit
  <2>3. Len(attributes) = Len(list) BY <1>0, <2>1
  <2>4. \A i \in 1 .. Len(list) : Emitted(attributes[i]) = Sent(list[i], t + 1)
    <3>1. \A i \in 1 .. Len(list) : list[i] \in Proper(1) OBVIOUS
    <3> QED BY <2>1, <3>1, EmitAged
  <2>5. wire' = [i \in 1 .. Len(list) |-> Sent(list[i], t + 1)] BY <2>2, <2>3, <2>4
  <2> QED BY <2>2, <2>5 DEF Echoes
<1> QED BY <1>1, <1>2, <1>3, <1>4

(* A caller's values are proper, and hold no header.                       *)
LEMMA CallersValues == ASSUME NEW v \in Values PROVE v \in Proper(0)
<1>1. /\ Names \cup {Empty, "Other", "true", "false"} = Words /\ 0 \in 0 .. 0
      /\ Tags = {"Kind", "Options", "Xstats", "DumpInvisible", "Chain", "Malformed"}
  BY DEF Words, Tags
<1>2. \/ \E n \in Names : v = Attr("Kind", n)
      \/ \E n \in Names \cap OptionKinds : v = Attr("Options", n)
      \/ \E n \in Names \cap {"fq_codel"} : v = Attr("Xstats", n)
      \/ \E n \in Names : v \in {Undecoded("Options", n, 0), Undecoded("Xstats", n, 0)}
      \/ \E b \in {"true", "false"} : v = Attr("DumpInvisible", b)
      \/ v = Attr("Chain", Empty)
  BY DEF Values
<1>3. ASSUME NEW n \in Names, v = Attr("Kind", n) PROVE v \in Proper(0)
  BY <1>1, <1>3 DEF Proper, Attr
<1>4. ASSUME NEW n \in Names \cap OptionKinds, v = Attr("Options", n) PROVE v \in Proper(0)
  BY <1>1, <1>4 DEF Proper, Attr
<1>5. ASSUME NEW n \in Names \cap {"fq_codel"}, v = Attr("Xstats", n) PROVE v \in Proper(0)
  BY <1>1, <1>5 DEF Proper, Attr
<1>6. ASSUME NEW n \in Names, v \in {Undecoded("Options", n, 0), Undecoded("Xstats", n, 0)}
      PROVE  v \in Proper(0)
  BY <1>1, <1>6 DEF Proper, Undecoded
<1>7. ASSUME NEW b \in {"true", "false"}, v = Attr("DumpInvisible", b) PROVE v \in Proper(0)
  BY <1>1, <1>7 DEF Proper, Attr
<1>8. CASE v = Attr("Chain", Empty) BY <1>1, <1>8 DEF Proper, Attr
<1> QED BY <1>2, <1>3, <1>4, <1>5, <1>6, <1>7, <1>8

(* Values that hold no more than d headers hold no more than d + 1.        *)
LEMMA ProperMore == ASSUME NEW d \in Nat PROVE Proper(d) \subseteq Proper(d + 1)
<1> SUFFICES ASSUME NEW v \in Proper(d) PROVE v \in Proper(d + 1) OBVIOUS
<1>1. v \in [tag : Tags, is : Words, raw : Words, depth : 0 .. d] BY DEF Proper
<1>2. v \in [tag : Tags, is : Words, raw : Words, depth : 0 .. d + 1] BY <1>1
<1> QED BY <1>2 DEF Proper

(* A list is not the mark for no list.                                     *)
LEMMA NotNoList == \A d : NoList \notin Seq(Proper(d))
<1> SUFFICES ASSUME NEW d, NoList \in Seq(Proper(d)) PROVE FALSE OBVIOUS
<1>1. Len(NoList) = 1 /\ NoList[1] = Attr("None", Empty) BY DEF NoList
<1>2. NoList[1] \in Proper(d) BY <1>1
<1>3. NoList[1].tag \in Tags BY <1>2 DEF Proper
<1>4. "None" \notin Tags BY DEF Tags
<1> QED BY <1>1, <1>3, <1>4, AttrFields

(* A value is emitted as an attribute decoding can read, which has inside  *)
(* the headers that the value holds.                                       *)
LEMMA EmittedReadable ==
  ASSUME NEW d \in Nat, NEW v \in Proper(d)
  PROVE  Emitted(v) \in Readable(d)
<1>1. v \in [tag : Tags, is : Words, raw : Words, depth : 0 .. d] BY DEF Proper
<1>2. v.tag # "Malformed" /\ Empty \in Words /\ 0 \in 0 .. d /\ Names \subseteq Words
  BY DEF Proper, Words
<1>3. CASE v.tag = "Options" /\ v.is = "Other"
  <2>1. v.raw \in Names BY <1>3 DEF Proper, OptionKinds
  <2>2. Emitted(v) = [tag |-> "Options", is |-> v.raw, raw |-> Empty, depth |-> v.depth]
    BY <1>3 DEF Emitted, Attr
  <2>3. v.depth \in 0 .. d BY <1>1
  <2>4. "Options" \in Tags BY DEF Tags
  <2> QED BY <1>2, <2>1, <2>2, <2>3, <2>4 DEF Readable
<1>4. CASE v.tag = "Xstats" /\ v.is = "Other"
  <2>1. v.raw \in Names BY <1>4 DEF Proper
  <2>2. Emitted(v) = Attr("Xstats", v.raw) BY <1>4 DEF Emitted
  <2>3. "Xstats" \in Tags BY DEF Tags
  <2> QED BY <1>2, <2>1, <2>2, <2>3 DEF Readable, Attr
<1>5. CASE v.tag = "DumpInvisible"
  <2>1. Emitted(v) = Attr("DumpInvisible", Empty) BY <1>5 DEF Emitted
  <2>2. "DumpInvisible" \in Tags BY DEF Tags
  <2> QED BY <1>2, <2>1, <2>2 DEF Readable, Attr
<1>6. CASE v.tag # "DumpInvisible" /\ ~(v.tag \in {"Options", "Xstats"} /\ v.is = "Other")
  <2>1. Emitted(v) = v BY <1>6 DEF Emitted
  <2>2. v.raw = Empty /\ v.depth = 0 /\ v = Attr(v.tag, v.is) BY <1>6, ProperShape
  <2>3. /\ v.tag \in {"Kind", "Options", "Xstats"} => v.is \in Names
        /\ v.tag \in {"DumpInvisible", "Chain", "Malformed"} => v.is = Empty
    BY <1>6 DEF Proper
  <2>4. v \in [tag : Tags, is : Words, raw : {Empty}, depth : 0 .. d]
    BY <1>1, <1>2, <2>2 DEF Attr
  <2> QED BY <2>1, <2>2, <2>3, <2>4 DEF Readable
<1> QED BY <1>3, <1>4, <1>5, <1>6
-----------------------------------------------------------------------------
(* A list stays decoded under its kinds when a value that suits the last   *)
(* of them is pushed.                                                      *)
LEMMA SuitAppend ==
  ASSUME NEW d, NEW list \in Seq(Proper(d)), NEW v \in Proper(d), NEW k,
         Met(list, Len(list) + 1, k), AllSuit(list), Suits(v, k), Sendable(v)
  PROVE  /\ AllSuit(Append(list, v))
         /\ Met(Append(list, v), Len(list) + 2, IF v.tag = "Kind" THEN v.is ELSE k)
<1> DEFINE more == Append(list, v)
           n == Len(list) + 1
<1>1. /\ Len(list) \in Nat /\ n \in Nat \ {0} /\ Len(more) = n /\ more[n] = v
      /\ \A j \in 1 .. n - 1 : more[j] = list[j]
  OBVIOUS
<1>2. ASSUME NEW m \in 1 .. n, NEW l, Met(list, m, l) PROVE Met(more, m, l)
  <2>1. \A j \in 1 .. m - 1 :
          list[j].tag = more[j].tag /\ (list[j].tag = "Kind" => list[j].is = more[j].is)
    BY <1>1
  <2>2. m \in Nat BY <1>1
  <2> HIDE DEF more, n
  <2> QED BY <1>2, <2>1, <2>2, MetSame
<1>3. Met(more, n, k) BY <1>1, <1>2
<1>4. Met(more, n + 1, IF more[n].tag = "Kind" THEN more[n].is ELSE k)
  <2> HIDE DEF more, n
  <2> QED BY <1>1, <1>3, MetNext
<1>5. AllSuit(more)
  <2> SUFFICES ASSUME NEW m \in 1 .. n
               PROVE  Sendable(more[m]) /\ \E l : Met(more, m, l) /\ Suits(more[m], l)
    BY <1>1 DEF AllSuit
  <2>1. CASE m = n BY <1>1, <1>3, <2>1
  <2>2. CASE m # n
    <3>1. m \in 1 .. Len(list) /\ more[m] = list[m] BY <1>1, <2>2
    <3>2. PICK l : Met(list, m, l) /\ Suits(list[m], l) BY <3>1 DEF AllSuit
    <3>3. Met(more, m, l) BY <1>2, <3>2
    <3> QED BY <3>1, <3>2, <3>3 DEF AllSuit
  <2> QED BY <2>1, <2>2
<1>6. n + 1 = Len(list) + 2 BY <1>1
<1> QED BY <1>1, <1>4, <1>5, <1>6

(* A list that has been decoded under its kinds is coherent.               *)
LEMMA SuitCoherent ==
  ASSUME NEW d, NEW list \in Seq(Proper(d)), AllSuit(list)
  PROVE  Coherent(list)
<1>1. ASSUME NEW n \in 1 .. Len(list)
      PROVE  Suits(list[n], KindAt(list, n)) /\ Sendable(list[n])
  <2>1. PICK k : Met(list, n, k) /\ Suits(list[n], k) BY DEF AllSuit
  <2>2. KindAt(list, n) = k BY <2>1, MetKind
  <2> QED BY <2>1, <2>2 DEF AllSuit
<1> QED BY <1>1 DEF Coherent, Kinded, Suits
-----------------------------------------------------------------------------
(* The lists the constants allow consist of attributes decoding can read   *)
(* and of values a caller can build.                                       *)
LEMMA ListsGiven ==
  ASSUME BoundsGiven
  PROVE  /\ Lists(WireItems) \subseteq Seq(Readable(0))
         /\ Lists(Values) \subseteq Seq(Values) /\ Lists(Values) \subseteq Seq(Proper(1))
<1>1. WireItems \subseteq Readable(0)
  <2> SUFFICES ASSUME NEW w \in WireItems PROVE w \in Readable(0) OBVIOUS
  <2>1. /\ Names \cup {Empty, "Other", "true", "false"} = Words /\ 0 \in 0 .. 0
        /\ Tags = {"Kind", "Options", "Xstats", "DumpInvisible", "Chain", "Malformed"}
    BY DEF Words, Tags
  <2>2. \/ \E n \in Names :
             w \in {Attr("Kind", n), Attr("Options", n), Attr("Xstats", n)}
        \/ w \in {Attr("DumpInvisible", Empty), Attr("Chain", Empty), Attr("Malformed", Empty)}
    BY DEF WireItems
  <2>3. \A n \in Names :
          {Attr("Kind", n), Attr("Options", n), Attr("Xstats", n)} \subseteq Readable(0)
    BY <2>1 DEF Readable, Attr
  <2>4. {Attr("DumpInvisible", Empty), Attr("Chain", Empty), Attr("Malformed", Empty)}
          \subseteq Readable(0)
    BY <2>1 DEF Readable, Attr
  <2> QED BY <2>2, <2>3, <2>4
<1>2. Values \subseteq Proper(0) /\ Proper(0) \subseteq Proper(0 + 1)
  BY CallersValues, ProperMore
<1>3. \A S, T : S \subseteq T => Lists(S) \subseteq Seq(T) BY DEF Lists, BoundsGiven
<1> QED BY <1>1, <1>2, <1>3

(* No trip has aged a value that was just built or decoded.                *)
LEMMA NotAged ==
  ASSUME NEW list \in Seq(Proper(1))
  PROVE  [i \in 1 .. Len(list) |-> Aged(list[i], 0)] = list
<1>1. \A i \in 1 .. Len(list) : list[i] \in Proper(1) OBVIOUS
<1>2. \A v \in Proper(1) : Aged(v, 0) = v
  <2> SUFFICES ASSUME NEW v \in Proper(1) PROVE Aged(v, 0) = v OBVIOUS
  <2>1. v \in [tag : Tags, is : Words, raw : Words, depth : 0 .. 1] BY DEF Proper
  <2>2. [v EXCEPT !.depth = @ + 0] = v BY <2>1
  <2> QED BY <2>2 DEF Aged
<1>3. \A i \in 1 .. Len(list) : Aged(list[i], 0) = list[i] BY <1>1, <1>2
<1> QED BY <1>3

(* Initially nothing has been read, or the caller's list is at hand.       *)
LEMMA InitIInv ==
  ASSUME BoundsGiven
  PROVE  Init => IInv
<1> SUFFICES ASSUME Init PROVE IInv OBVIOUS
<1>1. Bound = 0 /\ Bound + 1 = 1 /\ 0 \in 0 .. MaxTrips BY DEF Init, Bound, BoundsGiven
<1>2. ListsInv
  <2>1. <<>> \in Seq(Readable(0)) /\ <<>> \in Seq(Proper(1)) OBVIOUS
  <2>2. /\ wire \in Seq(Readable(0)) /\ attributes \in Seq(Proper(1))
        /\ built \in Seq(Values) \cup {NoList}
    BY <2>1, ListsGiven DEF Init
  <2>3. Len(wire) \in Nat /\ idx = 1 BY <2>2 DEF Init
  <2>4. idx \in 1 .. Len(wire) + 1 BY <2>3
  <2>5. status = "value" => attributes = built /\ built # NoList
    BY <2>2, NotNoList DEF Init
  <2> QED BY <1>1, <2>2, <2>4, <2>5 DEF Init, ListsInv
<1>3. ParseInv
  <2> SUFFICES ASSUME status = "parsing" PROVE ParseInv BY DEF ParseInv
  <2>1. attributes = <<>> /\ idx = 1 /\ kind = Empty BY DEF Init
  <2>2. Met(<<>>, 1, Empty) BY DEF Met
  <2> QED BY <2>1, <2>2 DEF ParseInv, AllSuit
<1>4. EchoInv
  <2>1. seen = NoList /\ Emissions = 0 BY DEF Init, Emissions
  <2>2. built # NoList => Echoes(built, 0)
    <3> SUFFICES ASSUME built # NoList PROVE Echoes(built, 0) OBVIOUS
    <3>1. status = "value" /\ attributes = built /\ built \in Seq(Proper(1))
      BY <1>1, <1>2 DEF Init, ListsInv
    <3> QED BY <3>1, NotAged DEF Echoes
  <2> QED BY <2>1, <2>2 DEF EchoInv
<1> QED BY <1>2, <1>3, <1>4 DEF IInv

(* Every step preserves the invariant.                                     *)
LEMMA NextIInv ==
  ASSUME BoundsGiven
  PROVE  IInv /\ [Next]_vars => IInv'
<1> SUFFICES ASSUME IInv, [Next]_vars PROVE IInv' OBVIOUS
<1> USE DEF IInv
<1>0. /\ wire \in Seq(Readable(Bound)) /\ attributes \in Seq(Proper(Bound + 1))
      /\ idx \in 1 .. Len(wire) + 1 /\ Len(wire) \in Nat /\ Len(attributes) \in Nat
      /\ trips \in Nat /\ Bound \in Nat /\ Emissions \in Nat
  BY DEF ListsInv, Bound, Emissions, BoundsGiven
<1>1. /\ built # NoList => built \in Seq(Values) /\ built \in Seq(Proper(1))
      /\ seen # NoList => seen \in Seq(Proper(1)) /\ Coherent(seen)
  <2>1. \A l \in Seq(Values) : l \in Seq(Proper(1))
    <3>1. Values \subseteq Proper(0 + 1) BY CallersValues, ProperMore
    <3> QED BY <3>1
  <2> QED BY <2>1 DEF ListsInv, EchoInv
<1>2. ASSUME NEW v \in Proper(Bound + 1),
             Pushes(v), Suits(v, kind), Sendable(v), OnlySource(v)
      PROVE  IInv'
  <2>1. /\ status = "parsing" /\ idx <= Len(wire) /\ idx' = idx + 1
        /\ attributes' = Append(attributes, v)
        /\ UNCHANGED <<wire, built, seen, trips, status>>
        /\ kind' = IF v.tag = "Kind" THEN v.is ELSE kind
    BY <1>2 DEF Pushes
  <2>2. Bound' = Bound /\ Emissions' = Emissions BY <2>1 DEF Bound, Emissions
  <2>3. attributes' \in Seq(Proper(Bound + 1)) /\ idx' \in 1 .. Len(wire') + 1 BY <1>0, <2>1
  <2>4. kind' \in Names \cup {Empty} BY <2>1 DEF ListsInv, Proper
  <2>5. ListsInv' BY <2>1, <2>2, <2>3, <2>4 DEF ListsInv
  <2>6. ParseInv'
    <3>1. Len(attributes) = idx - 1 /\ Met(attributes, idx, kind) /\ AllSuit(attributes)
      BY <2>1 DEF ParseInv
    <3>2. idx = Len(attributes) + 1 /\ idx' = Len(attributes) + 2 BY <1>0, <2>1, <3>1
    <3>3. AllSuit(attributes') /\ Met(attributes', idx', kind')
      BY <1>0, <1>2, <2>1, <3>1, <3>2, SuitAppend
    <3>4. Len(attributes') = idx' - 1 BY <1>0, <2>1, <3>2
    <3> QED BY <3>3, <3>4 DEF ParseInv
  <2>7. EchoInv'
    <3>1. (built # NoList /\ Coherent(built)) => Echoes(built, Emissions)'
      BY <1>0, <1>1, <1>2, <2>1, <2>2, EchoStep DEF EchoInv
    <3>2. seen # NoList => Echoes(seen, trips)'
      BY <1>0, <1>1, <1>2, <2>1, EchoStep DEF EchoInv
    <3> QED BY <1>1, <2>1, <3>1, <3>2 DEF EchoInv
  <2> QED BY <2>5, <2>6, <2>7
<1>3. ASSUME Refuse PROVE IInv'
  <2>1. /\ status = "parsing" /\ status' = "err"
        /\ UNCHANGED <<wire, idx, kind, attributes, built, seen, trips>>
    BY <1>3 DEF Refuse
  <2>2. Bound' = Bound BY <2>1 DEF Bound
  <2>3. ListsInv' BY <2>1, <2>2 DEF ListsInv
  <2>4. seen = NoList /\ ~(built # NoList /\ Coherent(built))
    BY <1>0, <1>1, <1>3, EchoStep DEF EchoInv
  <2> QED BY <2>1, <2>3, <2>4 DEF ParseInv, EchoInv
<1>4. ASSUME Return PROVE IInv'
  <2>1. /\ status = "parsing" /\ status' = "value"
        /\ seen' = IF seen = NoList THEN attributes ELSE seen
        /\ trips' = IF seen = NoList THEN 0 ELSE trips
        /\ UNCHANGED <<wire, idx, kind, attributes, built>>
    BY <1>4 DEF Return
  <2>2. attributes # NoList BY <1>0, NotNoList
  <2>3. Bound' = Bound BY <2>1, <2>2 DEF Bound
  <2>4. seen' # NoList /\ seen' \in Seq(Proper(1)) /\ trips' \in 0 .. MaxTrips
    BY <1>0, <1>1, <2>1, <2>2 DEF ListsInv, Bound, BoundsGiven
  <2>5. ListsInv' BY <2>1, <2>3, <2>4 DEF ListsInv
  <2>6. ParseInv' BY <2>1 DEF ParseInv
  <2>7. Coherent(attributes) BY <1>0, <2>1, SuitCoherent DEF ParseInv
  <2>8. (built # NoList /\ Coherent(built)) => Echoes(built, Emissions)'
    <3> SUFFICES ASSUME built # NoList, Coherent(built) PROVE Echoes(built, Emissions)' OBVIOUS
    <3>1. Emissions' = Emissions BY <2>1, <2>4 DEF Emissions, ListsInv
    <3> QED BY <1>0, <1>1, <1>4, <2>1, <3>1, EchoStep DEF EchoInv
  <2>9. Coherent(seen') /\ Echoes(seen, trips)'
    <3>1. CASE seen = NoList
      <4>1. /\ seen' = attributes /\ trips' = 0 /\ status' = "value"
            /\ attributes' = attributes
        BY <2>1, <3>1
      <4>2. attributes \in Seq(Proper(1)) BY <1>0, <3>1 DEF Bound
      <4>3. [i \in 1 .. Len(attributes) |-> Aged(attributes[i], 0)] = attributes
        BY <4>2, NotAged
      <4>4. Echoes(seen, trips)' BY <4>1, <4>3 DEF Echoes
      <4> QED BY <2>7, <4>1, <4>4
    <3>2. CASE seen # NoList
      <4>1. seen' = seen /\ trips' = trips BY <2>1, <3>2
      <4>2. Echoes(seen, trips)' BY <1>0, <1>1, <1>4, <3>2, <4>1, EchoStep DEF EchoInv
      <4> QED BY <1>1, <3>2, <4>1, <4>2
    <3> QED BY <3>1, <3>2
  <2>10. EchoInv' BY <2>1, <2>8, <2>9 DEF EchoInv
  <2> QED BY <2>5, <2>6, <2>10
<1>5. ASSUME Emit PROVE IInv'
  <2>1. /\ status = "value" /\ trips < MaxTrips /\ status' = "parsing"
        /\ wire' = [i \in 1 .. Len(attributes) |-> Emitted(attributes[i])]
        /\ idx' = 1 /\ kind' = Empty /\ attributes' = <<>> /\ trips' = trips + 1
        /\ UNCHANGED <<built, seen>>
    BY <1>5 DEF Emit
  <2>2. trips' \in 0 .. MaxTrips BY <1>0, <2>1 DEF BoundsGiven
  <2>3. wire' \in Seq(Readable(Bound'))
    <3>1. CASE seen = NoList
      <4>1. Bound' = 0 BY <2>1, <3>1 DEF Bound
      <4>2. attributes \in Seq(Values) BY <1>1, <2>1, <3>1 DEF ListsInv
      <4>3. \A i \in 1 .. Len(attributes) : Emitted(attributes[i]) \in Readable(0)
        <5>1. \A i \in 1 .. Len(attributes) : attributes[i] \in Values BY <4>2
        <5> QED BY <5>1, CallersValues, EmittedReadable
      <4>4. wire' \in Seq(Readable(0)) BY <1>0, <2>1, <4>3
      <4> QED BY <4>1, <4>4
    <3>2. CASE seen # NoList
      <4>1. Bound' = Bound + 1 BY <2>1, <3>2 DEF Bound
      <4>2. \A i \in 1 .. Len(attributes) : Emitted(attributes[i]) \in Readable(Bound + 1)
        <5>1. \A i \in 1 .. Len(attributes) : attributes[i] \in Proper(Bound + 1) BY <1>0
        <5> QED BY <1>0, <5>1, EmittedReadable
      <4>3. wire' \in Seq(Readable(Bound + 1)) BY <1>0, <2>1, <4>2
      <4> QED BY <4>1, <4>3
    <3> QED BY <3>1, <3>2
  <2>4. ListsInv'
    <3>1. Len(wire') \in Nat BY <1>0, <2>1
    <3>2. idx' \in 1 .. Len(wire') + 1 BY <2>1, <3>1
    <3>3. attributes' \in Seq(Proper(Bound' + 1)) BY <2>1
    <3>4. (seen' = NoList /\ built' # NoList) => trips' = 1 BY <2>1 DEF ListsInv
    <3> QED BY <2>1, <2>2, <2>3, <3>2, <3>3, <3>4 DEF ListsInv
  <2>5. ParseInv'
    <3>1. Met(<<>>, 1, Empty) BY DEF Met
    <3> QED BY <2>1, <3>1 DEF ParseInv, AllSuit
  <2>6. EchoInv'
    <3>1. (built # NoList /\ Coherent(built)) => Echoes(built, Emissions)'
      <4>1. Emissions' = Emissions + 1 BY <1>0, <2>1 DEF Emissions
      <4> QED BY <1>0, <1>1, <1>5, <2>1, <4>1, EchoStep DEF EchoInv
    <3>2. seen # NoList => Echoes(seen, trips)'
      BY <1>0, <1>1, <1>5, <2>1, EchoStep DEF EchoInv
    <3> QED BY <1>1, <2>1, <3>1, <3>2 DEF EchoInv
  <2> QED BY <2>4, <2>5, <2>6
<1>6. ASSUME UNCHANGED vars PROVE IInv'
  <2>1. Bound' = Bound /\ Emissions' = Emissions BY <1>6 DEF Bound, Emissions, vars
  <2>2. ListsInv' BY <1>6, <2>1 DEF ListsInv, vars
  <2>3. ParseInv' BY <1>6 DEF ParseInv, vars
  <2>4. EchoInv' BY <1>6, <2>1 DEF EchoInv, Echoes, vars
  <2> QED BY <2>2, <2>3, <2>4
<1>7. ASSUME NEW v \in Proper(Bound + 1),
             Pushes(v) /\ Suits(v, kind) /\ Sendable(v) /\ OnlySource(v)
      PROVE  IInv'
  BY <1>2, <1>7
<1> QED BY <1>3, <1>4, <1>5, <1>6, <1>7, ReadPushes DEF Next

(* The invariant gives the properties.                                     *)
LEMMA IInvGives ==
  ASSUME BoundsGiven
  PROVE  IInv => TypeOK /\ UnderKind /\ RoundTrip /\ Stable
<1> SUFFICES ASSUME IInv PROVE TypeOK /\ UnderKind /\ RoundTrip /\ Stable OBVIOUS
<1>1. Bound \in 0 .. MaxTrips BY DEF IInv, ListsInv, Bound, BoundsGiven
<1>2. ASSUME NEW d \in 0 .. MaxTrips + 1, NEW list \in Seq(Proper(d)) PROVE IsList(list)
  <2>1. \A i \in 1 .. Len(list) : list[i] \in Proper(d) OBVIOUS
  <2>2. \A v \in Proper(d) : v.tag \in Tags /\ v.depth \in 0 .. d BY DEF Proper
  <2>3. \A n \in 0 .. d : n \in 0 .. MaxTrips + 1 BY DEF BoundsGiven
  <2>4. \A i \in 1 .. Len(list) : list[i].depth \in 0 .. MaxTrips + 1 /\ list[i].tag \in Tags
    BY <2>1, <2>2, <2>3
  <2> QED BY <2>4 DEF IsList
<1>3. IsList(wire)
  <2>1. \A i \in 1 .. Len(wire) : wire[i] \in Readable(Bound) BY DEF IInv, ListsInv
  <2>2. \A w \in Readable(Bound) : w.tag \in Tags /\ w.depth \in 0 .. Bound BY DEF Readable
  <2>3. \A n \in 0 .. Bound : n \in 0 .. MaxTrips + 1 BY <1>1 DEF BoundsGiven
  <2>4. \A i \in 1 .. Len(wire) : wire[i].depth \in 0 .. MaxTrips + 1 /\ wire[i].tag \in Tags
    BY <2>1, <2>2, <2>3
  <2> QED BY <2>4 DEF IsList
<1>4. /\ 1 \in 0 .. MaxTrips + 1 /\ Bound + 1 \in 0 .. MaxTrips + 1
      /\ built # NoList => built \in Seq(Proper(1))
  <2>1. Values \subseteq Proper(0 + 1) BY CallersValues, ProperMore
  <2> QED BY <1>1, <2>1 DEF IInv, ListsInv, BoundsGiven
<1>5. IsList(attributes) /\ IsList(built) /\ IsList(seen)
  <2>1. IsList(attributes) BY <1>2, <1>4 DEF IInv, ListsInv
  <2>2. IsList(built)
    <3>1. CASE built = NoList BY <3>1 DEF IsList
    <3>2. CASE built # NoList BY <1>2, <1>4, <3>2
    <3> QED BY <3>1, <3>2
  <2>3. IsList(seen)
    <3>1. CASE seen = NoList BY <3>1 DEF IsList
    <3>2. CASE seen # NoList BY <1>2, <1>4, <3>2 DEF IInv, ListsInv
    <3> QED BY <3>1, <3>2
  <2> QED BY <2>1, <2>2, <2>3
<1>6. TypeOK BY <1>3, <1>5 DEF IInv, ListsInv, TypeOK
<1>7. UnderKind BY DEF IInv, EchoInv, Coherent, UnderKind
<1>8. RoundTrip
  <2> SUFFICES ASSUME built # NoList, Coherent(built)
               PROVE  /\ status # "err"
                      /\ status = "value" => attributes = Wrapped(built, Emissions)
    BY DEF RoundTrip, Coherent, Sendable
  <2>1. Echoes(built, Emissions) BY DEF IInv, EchoInv
  <2> QED BY <2>1 DEF Echoes, Aged, Wrapped
<1>9. Stable
  <2> SUFFICES ASSUME seen # NoList PROVE Stable BY DEF Stable
  <2>1. Echoes(seen, trips) BY DEF IInv, EchoInv
  <2> QED BY <2>1 DEF Echoes, Aged, Wrapped, Stable
<1> QED BY <1>6, <1>7, <1>8, <1>9
-----------------------------------------------------------------------------
(* The iterator never leaves the list, VecTcAttribute remembers a kind     *)
(* that was on the wire or none, and undecoded options are wrapped at most *)
(* once per trip.                                                          *)
THEOREM TypeOKHolds == ASSUME BoundsGiven PROVE Spec => []TypeOK
<1>1. Init => IInv BY InitIInv
<1>2. IInv /\ [Next]_vars => IInv' BY NextIInv
<1> QED BY <1>1, <1>2, IInvGives, PTL DEF Spec

(* In every message that decoding returns, TCA_OPTIONS and TCA_XSTATS have *)
(* been decoded by the parser of the nearest TCA_KIND in front of them,    *)
(* and by none if that kind has no parser or there is none.                *)
THEOREM UnderKindHolds == ASSUME BoundsGiven PROVE Spec => []UnderKind
<1>1. Init => IInv BY InitIInv
<1>2. IInv /\ [Next]_vars => IInv' BY NextIInv
<1> QED BY <1>1, <1>2, IInvGives, PTL DEF Spec

(* A caller's message whose options match its kinds is never refused and   *)
(* comes back as it was, but for a DumpInvisible(false) and for options    *)
(* under a kind without a parser: TcOption::Other comes back inside one    *)
(* more TCA_OPTIONS with every trip.                                       *)
THEOREM RoundTripHolds == ASSUME BoundsGiven PROVE Spec => []RoundTrip
<1>1. Init => IInv BY InitIInv
<1>2. IInv /\ [Next]_vars => IInv' BY NextIInv
<1> QED BY <1>1, <1>2, IInvGives, PTL DEF Spec

(* What was decoded once decodes the same from every later emission, but   *)
(* for undecoded options: every trip wraps them into one more TCA_OPTIONS. *)
THEOREM StableHolds == ASSUME BoundsGiven PROVE Spec => []Stable
<1>1. Init => IInv BY InitIInv
<1>2. IInv /\ [Next]_vars => IInv' BY NextIInv
<1> QED BY <1>1, <1>2, IInvGives, PTL DEF Spec
=============================================================================
