-------------------------- MODULE MCPayloads_proofs --------------------------
(***************************************************************************)
(* Proofs about the payloads that are taken apart by hand: each of the six *)
(* codecs has an inductive invariant of its own, and together they give    *)
(* the six invariants of MCPayloads, whatever the widths, the bounds and   *)
(* the values are.                                                         *)
(*                                                                         *)
(* Three of the codecs push into a list what a loop finds in another, and  *)
(* their properties say by rank which element is which: the value of a     *)
(* position is at the place that is the number of positions up to it.      *)
(* `Selected` says so of the positions a loop is through with.             *)
(***************************************************************************)
EXTENDS MCPayloads, TLAPS, Sequences, FiniteSets, FiniteSetTheorems

(* The lists of a bounded length that Init takes its inputs from.          *)
LEMMA ListsSeq ==
  ASSUME NEW S, NEW T, S \subseteq T, NEW n \in Int,
         NEW s \in UNION {[1 .. k -> S] : k \in 0 .. n}
  PROVE  s \in Seq(T) /\ Len(s) \in 0 .. n
<1>1. PICK k \in 0 .. n : s \in [1 .. k -> S] BY Zenon
<1> QED BY <1>1

(* A list holds the values of the positions in S, in the order in which    *)
(* upto counts them.                                                       *)
Selected(list, S, upto, value) ==
  /\ IsFiniteSet(S) /\ Len(list) = Cardinality(S)
  /\ \A q \in S : upto[q] \subseteq S /\ q \in upto[q] /\ list[Cardinality(upto[q])] = value[q]

(* It still does when the value of the next position is appended.          *)
LEMMA SelectNext ==
  ASSUME NEW list, NEW S, NEW upto, NEW value, Selected(list, S, upto, value),
         NEW p, p \notin S, upto[p] = S \cup {p},
         NEW T, list \in Seq(T), value[p] \in T
  PROVE  Selected(Append(list, value[p]), S \cup {p}, upto, value)
<1> USE DEF Selected
<1>1. /\ IsFiniteSet(S \cup {p}) /\ Cardinality(S \cup {p}) = Cardinality(S) + 1
      /\ Cardinality(S) \in Nat
  BY FS_AddElement, FS_CardinalityType
<1>2. ASSUME NEW q \in S
      PROVE  Cardinality(upto[q]) \in 1 .. Len(list)
  <2>1. IsFiniteSet(upto[q]) /\ Cardinality(upto[q]) <= Cardinality(S) BY FS_Subset
  <2>2. Cardinality(upto[q]) \in Nat /\ Cardinality(upto[q]) # 0
    BY <2>1, FS_EmptySet, FS_CardinalityType
  <2> QED BY <2>1, <2>2, <1>1
<1>3. ASSUME NEW q \in S PROVE Append(list, value[p])[Cardinality(upto[q])] = value[q]
  BY <1>2
<1>4. Append(list, value[p])[Cardinality(upto[p])] = value[p] BY <1>1
<1>5. Len(Append(list, value[p])) = Cardinality(S \cup {p}) BY <1>1
<1> QED BY <1>1, <1>3, <1>4, <1>5
-----------------------------------------------------------------------------
(* The SRv6 segment routing header (route/seg6.rs).                        *)

(* Segments a release build reads, by the field that announces them.       *)
SegCount(left) == Srv6!SegLenU8(left) \div 16

(* A header that Ipv6SrHdr::parse gives back.                              *)
SegStable(h) ==
  form = "srh" => /\ Len(h.segments) = SegCount(h.fixed.left)
                  /\ h.fixed.left >= 15 => build = "release"

(* The values that come back from any trip: what was decoded from the      *)
(* wire, and what a careful caller built.                                  *)
SegSound ==
  \/ origin = "wire" /\ first # Srv6!NoValue
  \/ origin = "caller" /\ Len(first) = 1 /\ (form = "srh" => Srv6!Countable(first[1]))

(* What the first value says of the state: a caller's headers have no TLV, *)
(* a SEG6_LOCAL_SRH is one header, and a value is on its first trip until  *)
(* it has been emitted.                                                    *)
SegFirst ==
  /\ origin = "caller" => \A k \in 1 .. Len(first) : first[k].tlvs = <<>>
  /\ (origin = "caller" /\ form = "srh") => Len(first) = 1
  /\ (origin = "wire" /\ first = Srv6!NoValue) => trips = 0 /\ status \in {"wire", "err", "panic"}
  /\ (origin = "caller" /\ trips = 0) => status = "value" /\ hdrs = first
  /\ (origin = "caller" /\ trips = 1 /\ status \in {"emitting", "wire"}) => hdrs = first
  /\ status = "emitting" => trips > 0

(* A sound value is never refused and never panics, and no trip changes    *)
(* its fixed part or its segments.                                         *)
SegKept ==
  SegSound =>
    /\ status \notin {"err", "panic"}
    /\ Len(first) = 1 /\ Len(hdrs) = 1
    /\ hdrs[1].fixed = first[1].fixed /\ hdrs[1].segments = first[1].segments
    /\ SegStable(hdrs[1])
    /\ status = "wire" => trips > 0
    /\ (origin = "caller" \/ (trips > 0 /\ status = "value")) => hdrs[1].tlvs = <<>>

(* What emit has written, and with it the message on the wire.             *)
SegSent ==
  (status \in {"emitting", "wire"} /\ trips > 0) =>
    /\ tail = 0
    /\ Len(words) = emitted + 2 * Cardinality(Srv6!FirstSegments(hdrs, emitted))
    /\ emitted > 0 => words[1] = hdrs[1].fixed
    /\ (Len(hdrs) = 1 /\ emitted = 1) => words = Srv6!EmitHdrWords(hdrs[1])
    /\ status = "wire" => emitted = Len(hdrs)

(* The inductive invariant of seg6.rs.                                     *)
SegInv ==
  /\ Srv6!TypeOK
  /\ SegFirst /\ SegKept /\ SegSent
  /\ Srv6!DamageBounded /\ Srv6!ReadAsSent /\ Srv6!PanicsKnown

(* The instance counts as the theorems about finite sets do.               *)
LEMMA SegCardinality == \A S : Srv6!Cardinality(S) = Cardinality(S)
BY Zenon DEF Srv6!Cardinality, Cardinality

(* `(segments_left + 1) * 16` in u8: 16 bytes a segment, all of them       *)
(* unless it has wrapped.                                                  *)
LEMMA SegCounts ==
  ASSUME NEW left \in 0 .. 255
  PROVE  /\ SegCount(left) \in 0 .. 15 /\ SegCount(left) <= left + 1
         /\ Srv6!SegLenU8(left) = 16 * SegCount(left)
         /\ Srv6!SegLenU8(left) \div 8 = 2 * SegCount(left)
         /\ Srv6!SegLenU8(left) \div 16 = SegCount(left)
         /\ left < 15 <=> SegCount(left) = left + 1
         /\ Srv6!SegLen(left) > 255 <=> left >= 15
<1>1. Srv6!SegLenU8(left) = ((left + 1) * 16) % 256 BY DEF Srv6!SegLenU8, Srv6!SegLen
<1>2. PICK n \in 0 .. 16, r \in 0 .. 15 : left + 1 = 16 * n + r
  <2>1. (left + 1) \div 16 \in 0 .. 16 /\ (left + 1) % 16 \in 0 .. 15
        /\ left + 1 = 16 * ((left + 1) \div 16) + ((left + 1) % 16)
    OBVIOUS
  <2> QED BY <2>1
<1>3. ((left + 1) * 16) % 256 = 16 * r
  <2>1. (left + 1) * 16 = 256 * n + 16 * r BY <1>2
  <2>2. \A a \in 0 .. 16, b \in 0 .. 255 : (256 * a + b) % 256 = b OBVIOUS
  <2>3. 16 * r \in 0 .. 255 OBVIOUS
  <2> QED BY <2>1, <2>2, <2>3
<1>4. SegCount(left) = r BY <1>1, <1>3 DEF SegCount
<1>5. Srv6!SegLenU8(left) \div 8 = 2 * r /\ Srv6!SegLenU8(left) \div 16 = r BY <1>1, <1>3
<1>6. (left < 15 <=> r = left + 1) /\ r <= left + 1 BY <1>2
<1>7. Srv6!SegLen(left) > 255 <=> left >= 15 BY DEF Srv6!SegLen
<1> QED BY <1>1, <1>3, <1>4, <1>5, <1>6, <1>7

(* The fields of a header.                                                 *)
LEMMA SegHdrTypes ==
  ASSUME NEW h \in Srv6!Hdrs
  PROVE  /\ h.fixed \in Srv6!Words /\ h.fixed.left \in 0 .. 255
         /\ h.segments \in Seq(Srv6!Segments) /\ Len(h.segments) \in Nat
         /\ h.tlvs \in Seq(Seq(Srv6!Words))
         /\ h = [fixed |-> h.fixed, segments |-> h.segments, tlvs |-> h.tlvs]
<1>1. h.fixed \in Srv6!Words /\ h.segments \in Seq(Srv6!Segments) /\ h.tlvs \in Seq(Seq(Srv6!Words))
      /\ h = [fixed |-> h.fixed, segments |-> h.segments, tlvs |-> h.tlvs]
  BY DEF Srv6!Hdrs
<1>2. h.fixed.left \in 0 .. 255 BY <1>1 DEF Srv6!Words
<1> QED BY <1>1, <1>2

(* Ipv6SrHdr::emit writes the fixed part and two words for each segment.   *)
LEMMA SegEmitted ==
  ASSUME NEW h \in Srv6!Hdrs
  PROVE  LET w == Srv6!EmitHdrWords(h)
         IN /\ w \in Seq(Srv6!Words) /\ Len(w) = 1 + 2 * Len(h.segments) /\ w[1] = h.fixed
            /\ \A k \in 1 .. Len(h.segments) :
                 w[2 * k] = h.segments[k][1] /\ w[2 * k + 1] = h.segments[k][2]
<1> DEFINE n == Len(h.segments)
           t == [k \in 1 .. 2 * n |-> h.segments[(k + 1) \div 2][IF k % 2 = 1 THEN 1 ELSE 2]]
           w == <<h.fixed>> \o t
<1>1. h.fixed \in Srv6!Words /\ h.segments \in Seq(Srv6!Segments) /\ n \in Nat BY SegHdrTypes
<1> HIDE DEF n
<1>2. ASSUME NEW k \in 1 .. 2 * n PROVE (k + 1) \div 2 \in 1 .. n BY <1>1
<1>3. ASSUME NEW k \in 1 .. 2 * n
      PROVE  h.segments[(k + 1) \div 2][IF k % 2 = 1 THEN 1 ELSE 2] \in Srv6!Words
  <2>1. h.segments[(k + 1) \div 2] \in Srv6!Segments BY <1>1, <1>2 DEF n
  <2> QED BY <2>1 DEF Srv6!Segments
<1>4. t \in Seq(Srv6!Words) /\ Len(t) = 2 * n BY <1>1, <1>3
<1>5. ASSUME NEW k \in 1 .. n PROVE t[2 * k - 1] = h.segments[k][1] /\ t[2 * k] = h.segments[k][2]
  <2>1. 2 * k - 1 \in 1 .. 2 * n /\ 2 * k \in 1 .. 2 * n BY <1>1
  <2>2. (2 * k - 1 + 1) \div 2 = k /\ (2 * k - 1) % 2 = 1 BY <1>1
  <2>3. (2 * k + 1) \div 2 = k /\ (2 * k) % 2 # 1 BY <1>1
  <2>4. t[2 * k - 1] = h.segments[k][1] BY <2>1, <2>2
  <2>5. t[2 * k] = h.segments[k][2] BY <2>1, <2>3
  <2> QED BY <2>4, <2>5
<1> HIDE DEF t
<1>6. w \in Seq(Srv6!Words) /\ Len(w) = 1 + 2 * n /\ w[1] = h.fixed BY <1>1, <1>4
<1>7. ASSUME NEW k \in 1 .. 2 * n PROVE w[k + 1] = t[k] BY <1>1, <1>4
<1>8. ASSUME NEW k \in 1 .. n
      PROVE  w[2 * k] = h.segments[k][1] /\ w[2 * k + 1] = h.segments[k][2]
  <2>1. 2 * k - 1 \in 1 .. 2 * n /\ 2 * k \in 1 .. 2 * n /\ 2 * k - 1 + 1 = 2 * k BY <1>1
  <2> HIDE DEF w
  <2>2. w[2 * k] = t[2 * k - 1] /\ w[2 * k + 1] = t[2 * k] BY <1>7, <2>1
  <2> QED BY <1>5, <2>2
<1>9. w = Srv6!EmitHdrWords(h) BY DEF Srv6!EmitHdrWords, t, n
<1> HIDE DEF w
<1> QED BY <1>6, <1>8, <1>9 DEF n

(* What SegSent needs: the pairs are finitely many.                        *)
LEMMA SegTotalFinite ==
  ASSUME NEW v \in Seq(Srv6!Hdrs), NEW n \in 0 .. Len(v)
  PROVE  IsFiniteSet(Srv6!FirstSegments(v, n)) /\ Cardinality(Srv6!FirstSegments(v, n)) \in Nat
<1> DEFINE P(k) == {k} \X (1 .. Len(v[k].segments))
           f == [k \in 1 .. n |-> P(k)]
<1>1. ASSUME NEW k \in 1 .. n PROVE IsFiniteSet(P(k))
  <2>1. v[k] \in Srv6!Hdrs OBVIOUS
  <2>2. Len(v[k].segments) \in Nat BY <2>1, SegHdrTypes
  <2> DEFINE l == Len(v[k].segments)
  <2> HIDE DEF l
  <2>3a. l \in Nat BY <2>2 DEF l
  <2>3. IsFiniteSet(1 .. l) BY <2>3a, FS_Interval
  <2>4. IsFiniteSet({k}) BY FS_Singleton
  <2> QED BY <2>3, <2>4, FS_Product DEF l
<1> HIDE DEF P
<1>2. IsFiniteSet({P(k) : k \in 1 .. n})
  <2>1. IsFiniteSet(1 .. n) BY FS_Interval
  <2>2. f \in Surjection(1 .. n, {P(k) : k \in 1 .. n}) BY DEF Surjection
  <2> HIDE DEF f
  <2> QED BY <2>1, <2>2, FS_Surjection
<1>3. Srv6!FirstSegments(v, n) = UNION {P(k) : k \in 1 .. n} BY DEF Srv6!FirstSegments, P
<1>4. \A T \in {P(k) : k \in 1 .. n} : IsFiniteSet(T) BY <1>1
<1>5. IsFiniteSet(Srv6!FirstSegments(v, n)) BY <1>2, <1>3, <1>4, FS_UNION
<1> QED BY <1>5, FS_CardinalityType

(* One more header is as many more pairs as it has segments.               *)
LEMMA SegTotals ==
  ASSUME NEW v \in Seq(Srv6!Hdrs), NEW n \in 0 .. Len(v)
  PROVE  /\ Srv6!FirstSegments(v, 0) = {}
         /\ n < Len(v) =>
              Cardinality(Srv6!FirstSegments(v, n + 1)) =
                Cardinality(Srv6!FirstSegments(v, n)) + Len(v[n + 1].segments)
<1>1. Srv6!FirstSegments(v, 0) = {} BY DEF Srv6!FirstSegments
<1>2. ASSUME n < Len(v)
      PROVE  Cardinality(Srv6!FirstSegments(v, n + 1)) =
               Cardinality(Srv6!FirstSegments(v, n)) + Len(v[n + 1].segments)
  <2> DEFINE S == Srv6!FirstSegments(v, n)
             l == Len(v[n + 1].segments)
             N == {n + 1} \X (1 .. l)
  <2>1. l \in Nat
    <3>1. v[n + 1] \in Srv6!Hdrs BY <1>2
    <3> QED BY <3>1, SegHdrTypes
  <2>2. Srv6!FirstSegments(v, n + 1) = S \cup N
    <3>1. \A k : k \in 1 .. n + 1 <=> (k \in 1 .. n \/ k = n + 1) OBVIOUS
    <3> QED BY <3>1 DEF Srv6!FirstSegments
  <2>3. S \cap N = {}
    <3>1. ASSUME NEW p \in S, p \in N PROVE FALSE
      <4>1. PICK k \in 1 .. n : p \in {k} \X (1 .. Len(v[k].segments))
        BY Zenon DEF Srv6!FirstSegments
      <4>2. p[1] = k /\ p[1] = n + 1 BY <3>1, <4>1
      <4> QED BY <4>2
    <3> QED BY <3>1
  <2> HIDE DEF l
  <2>4. IsFiniteSet(1 .. l) /\ Cardinality(1 .. l) = l BY <2>1, FS_Interval
  <2>5. IsFiniteSet({n + 1}) /\ Cardinality({n + 1}) = 1 BY FS_Singleton
  <2>6. IsFiniteSet(N) /\ Cardinality(N) = 1 * l
    <3> DEFINE A == {n + 1}
               B == 1 .. l
    <3> HIDE DEF A, B
    <3>1. IsFiniteSet(A) /\ IsFiniteSet(B) /\ Cardinality(A) = 1 /\ Cardinality(B) = l
      BY <2>4, <2>5 DEF A, B
    <3>2. IsFiniteSet(A \X B) /\ Cardinality(A \X B) = Cardinality(A) * Cardinality(B)
      BY <3>1, FS_Product
    <3> QED BY <3>1, <3>2 DEF A, B
  <2> HIDE DEF S, N
  <2>7. IsFiniteSet(S) /\ Cardinality(S) \in Nat BY SegTotalFinite DEF S
  <2>8. /\ IsFiniteSet(S \cup N)
        /\ Cardinality(S \cup N) = Cardinality(S) + Cardinality(N) - Cardinality(S \cap N)
    BY <2>6, <2>7, FS_Union
  <2>9. Cardinality(S \cap N) = 0 BY <2>3, FS_EmptySet
  <2>10. Cardinality(S \cup N) = Cardinality(S) + l BY <2>1, <2>6, <2>7, <2>8, <2>9
  <2> QED BY <2>2, <2>10 DEF S, l
<1> QED BY <1>1, <1>2

(* A payload from the wire is words.                                       *)
LEMMA SegPayload ==
  ASSUME NEW n \in 0 .. MaxWords, NEW left \in Lefts, NEW tlv \in Srv6!TlvChoices
  PROVE  Srv6!Payload(n, left, tlv) \in Seq(Srv6!Words)
<1>0. MaxWords \in Nat /\ Lefts \subseteq 0 .. 255 BY BoundsAssumption, LeftsAssumption
<1> DEFINE Word(k) == IF k = 1 THEN Srv6!Plain(left)
                      ELSE [left |-> k % 3, tlv |-> IF k % 2 = 0 THEN tlv[k] ELSE "other"]
<1>1. ASSUME NEW k \in 1 .. n PROVE Word(k) \in Srv6!Words
  <2>1. Srv6!Plain(left) \in Srv6!Words BY <1>0 DEF Srv6!Plain, Srv6!Words, Srv6!TlvTypes
  <2>2. ASSUME k # 1
        PROVE  [left |-> k % 3, tlv |-> IF k % 2 = 0 THEN tlv[k] ELSE "other"] \in Srv6!Words
    <3>1. k % 3 \in 0 .. 255 OBVIOUS
    <3>2. k % 2 = 0 => tlv[k] \in Srv6!TlvTypes BY <1>0, <2>2 DEF Srv6!TlvChoices
    <3>3. "other" \in Srv6!TlvTypes BY DEF Srv6!TlvTypes
    <3> QED BY <3>1, <3>2, <3>3 DEF Srv6!Words
  <2> QED BY <2>1, <2>2
<1>2. Srv6!Payload(n, left, tlv) = [k \in 1 .. n |-> Word(k)] BY DEF Srv6!Payload
<1> HIDE DEF Word
<1>3. n \in Nat BY <1>0
<1> QED BY <1>1, <1>2, <1>3

(* What Init's lists are.                                                  *)
LEMMA SegListed ==
  ASSUME NEW S, NEW T, S \subseteq T, NEW n \in Int, NEW s \in Srv6!Lists(S, n)
  PROVE  s \in Seq(T) /\ Len(s) \in 0 .. n
BY ListsSeq DEF Srv6!Lists

(* The headers of a caller are headers, without a TLV.                     *)
LEMMA SegCallerHdrs ==
  ASSUME NEW h \in Srv6!CallerHdrs PROVE h \in Srv6!Hdrs /\ h.tlvs = <<>>
<1>0. /\ MaxSegments \in Int /\ ManySegments \in Nat /\ Lefts \subseteq 0 .. 255
  BY BoundsAssumption, LeftsAssumption
<1>1. \A left \in 0 .. 255 : Srv6!Plain(left) \in Srv6!Words
  BY DEF Srv6!Plain, Srv6!Words, Srv6!TlvTypes
<1>2. h.fixed \in Srv6!Words
  <2>1. h.fixed \in {Srv6!Plain(left) : left \in Lefts} BY DEF Srv6!CallerHdrs
  <2> QED BY <1>0, <1>1, <2>1
<1>3. Srv6!SomeSegments \subseteq Srv6!Segments
  <2>1. ASSUME NEW t \in {"other", "hmac"}
        PROVE  <<[left |-> 0, tlv |-> t], Srv6!Plain(1)>> \in Srv6!Segments
    <3>1. [left |-> 0, tlv |-> t] \in Srv6!Words BY DEF Srv6!Words, Srv6!TlvTypes
    <3>2. Srv6!Plain(1) \in Srv6!Words BY <1>1
    <3> QED BY <3>1, <3>2 DEF Srv6!Segments
  <2> QED BY <2>1 DEF Srv6!SomeSegments
<1>4. Srv6!LongSegments \in Seq(Srv6!Segments)
  <2> DEFINE c == CHOOSE s \in Srv6!SomeSegments : TRUE
  <2>1. \E s \in Srv6!SomeSegments : TRUE BY DEF Srv6!SomeSegments
  <2>2. c \in Srv6!SomeSegments BY <2>1
  <2> HIDE DEF c
  <2>3. c \in Srv6!Segments BY <1>3, <2>2
  <2>4. Srv6!LongSegments = [k \in 1 .. ManySegments |-> c] BY DEF Srv6!LongSegments, c
  <2> QED BY <1>0, <2>3, <2>4
<1>5. h.segments \in Srv6!Lists(Srv6!SomeSegments, MaxSegments) \cup {Srv6!LongSegments}
  BY DEF Srv6!CallerHdrs
<1>6. h.segments \in Seq(Srv6!Segments) BY <1>0, <1>3, <1>4, <1>5, SegListed
<1>7. h.tlvs = <<>> /\ <<>> \in Seq(Seq(Srv6!Words)) BY DEF Srv6!CallerHdrs
<1>8. h = [fixed |-> h.fixed, segments |-> h.segments, tlvs |-> h.tlvs] BY DEF Srv6!CallerHdrs
<1>9. [fixed |-> h.fixed, segments |-> h.segments, tlvs |-> h.tlvs] \in Srv6!Hdrs
  BY <1>2, <1>6, <1>7 DEF Srv6!Hdrs
<1> QED BY <1>7, <1>8, <1>9

(* The invariant holds of a payload from the wire and of any headers a     *)
(* caller built.                                                           *)
LEMMA SegInit == Srv6!Init => SegInv
<1> SUFFICES ASSUME Srv6!Init PROVE SegInv OBVIOUS
<1>0. /\ form \in {"srh", "tunnel"} /\ build \in {"debug", "release"}
      /\ first = hdrs /\ emitted = 0 /\ trips = 0
      /\ origin \in {"wire", "caller"}
  BY DEF Srv6!Init
<1>00. 0 \in 0 .. MaxTrips BY MaxTripsAssumption
<1>1. CASE origin = "wire"
  <2>1. /\ status = "wire" /\ hdrs = <<>>
        /\ \E n \in 0 .. MaxWords, left \in Lefts, tlv \in Srv6!TlvChoices :
             words = Srv6!Payload(n, left, tlv)
        /\ tail \in {0, 3, 4, 7} /\ tailTlv \in Srv6!TlvTypes
    BY <1>1 DEF Srv6!Init, Srv6!NoValue, Srv6!TlvTypes
  <2>2. words \in Seq(Srv6!Words) BY <2>1, SegPayload
  <2>3. Srv6!TypeOK BY <1>0, <1>00, <2>1, <2>2 DEF Srv6!TypeOK
  <2>4. SegFirst BY <1>0, <1>1, <2>1 DEF SegFirst
  <2>5. SegKept BY <1>0, <1>1, <2>1 DEF SegKept, SegSound, Srv6!NoValue
  <2>6. SegSent BY <1>0 DEF SegSent
  <2> QED BY <1>0, <1>1, <2>1, <2>3, <2>4, <2>5, <2>6
      DEF SegInv, Srv6!DamageBounded, Srv6!ReadAsSent, Srv6!PanicsKnown
<1>2. CASE origin = "caller"
  <2>1. /\ status = "value" /\ words = <<>> /\ tail = 0 /\ tailTlv = "other"
        /\ \/ hdrs \in {<<h>> : h \in Srv6!CallerHdrs}
           \/ form = "tunnel" /\ hdrs \in Srv6!Lists(Srv6!ShortHdrs, MaxHeaders)
    BY <1>2 DEF Srv6!Init
  <2>2. /\ hdrs \in Seq(Srv6!CallerHdrs) /\ (form = "srh" => Len(hdrs) = 1)
    <3>1. CASE hdrs \in {<<h>> : h \in Srv6!CallerHdrs}
      <4>1. PICK h \in Srv6!CallerHdrs : hdrs = <<h>> BY <3>1
      <4>2. <<h>> \in Seq(Srv6!CallerHdrs) /\ Len(<<h>>) = 1 OBVIOUS
      <4> QED BY <4>1, <4>2
    <3>2. CASE form = "tunnel" /\ hdrs \in Srv6!Lists(Srv6!ShortHdrs, MaxHeaders)
      <4>1. Srv6!ShortHdrs \subseteq Srv6!CallerHdrs BY DEF Srv6!ShortHdrs
      <4>2. MaxHeaders \in Int BY BoundsAssumption
      <4> QED BY <3>2, <4>1, <4>2, SegListed
    <3> QED BY <2>1, <3>1, <3>2
  <2>3. hdrs \in Seq(Srv6!Hdrs) /\ \A k \in 1 .. Len(hdrs) : hdrs[k].tlvs = <<>>
    <3>1. \A h \in Srv6!CallerHdrs : h \in Srv6!Hdrs /\ h.tlvs = <<>> BY SegCallerHdrs
    <3> QED BY <2>2, <3>1
  <2>4. Srv6!TypeOK BY <1>0, <1>00, <1>2, <2>1, <2>3 DEF Srv6!TypeOK, Srv6!TlvTypes
  <2>5. SegFirst BY <1>0, <1>2, <2>1, <2>2, <2>3 DEF SegFirst
  <2>6. SegKept
    <3> SUFFICES ASSUME SegSound PROVE Len(first) = 1 /\ SegStable(hdrs[1]) /\ hdrs[1].tlvs = <<>>
      BY <1>0, <2>1 DEF SegKept
    <3>1. Len(first) = 1 /\ (form = "srh" => Srv6!Countable(first[1])) BY <1>2 DEF SegSound
    <3>1a. 1 \in 1 .. Len(hdrs) BY <1>0, <3>1
    <3>2. hdrs[1] \in Srv6!Hdrs /\ hdrs[1].tlvs = <<>> BY <2>3, <3>1a
    <3>3. SegStable(hdrs[1])
      <4> SUFFICES ASSUME form = "srh"
                   PROVE  /\ Len(hdrs[1].segments) = SegCount(hdrs[1].fixed.left)
                          /\ ~(hdrs[1].fixed.left >= 15)
        BY DEF SegStable
      <4>1. hdrs[1].fixed.left \in 0 .. 255 BY <3>2, SegHdrTypes
      <4>2. hdrs[1].fixed.left < 15 /\ Len(hdrs[1].segments) = hdrs[1].fixed.left + 1
        BY <1>0, <3>1 DEF Srv6!Countable
      <4>3. SegCount(hdrs[1].fixed.left) = hdrs[1].fixed.left + 1 BY <4>1, <4>2, SegCounts
      <4>4. ~(hdrs[1].fixed.left >= 15)
        <5>1. \A l \in 0 .. 255 : l < 15 => ~(l >= 15) OBVIOUS
        <5> QED BY <4>1, <4>2, <5>1
      <4> QED BY <4>2, <4>3, <4>4
    <3> QED BY <3>1, <3>2, <3>3
  <2>7. SegSent BY <1>0 DEF SegSent
  <2> QED BY <1>0, <1>2, <2>1, <2>4, <2>5, <2>6, <2>7
      DEF SegInv, Srv6!DamageBounded, Srv6!ReadAsSent, Srv6!PanicsKnown
<1> QED BY <1>0, <1>1, <1>2

(* Where Ipv6SrHdr::parse finds things: the segments and then the TLV.     *)
LEMMA SegPlaces ==
  ASSUME Srv6!TypeOK, words # <<>>
  PROVE  LET c == SegCount(words[1].left)
         IN /\ words[1] \in Srv6!Words /\ words[1].left \in 0 .. 255 /\ Len(words) \in Nat \ {0}
            /\ c \in 0 .. 15
            /\ Srv6!SegLenU8(words[1].left) \div 16 = c
            /\ Srv6!TlvAt = 2 + 2 * c
            /\ Srv6!Leftover = 8 * (Len(words) - 1) + tail - 16 * c
<1>1. words \in Seq(Srv6!Words) BY DEF Srv6!TypeOK
<1>2. Len(words) \in Nat \ {0} /\ words[1] \in Srv6!Words BY <1>1
<1>3. words[1].left \in 0 .. 255 BY <1>2 DEF Srv6!Words
<1> DEFINE l == words[1].left
<1>4. /\ SegCount(l) \in 0 .. 15 /\ Srv6!SegLenU8(l) = 16 * SegCount(l)
      /\ Srv6!SegLenU8(l) \div 8 = 2 * SegCount(l) /\ Srv6!SegLenU8(l) \div 16 = SegCount(l)
  BY <1>3, SegCounts
<1>5. Srv6!TlvAt = 2 + 2 * SegCount(l) BY <1>4 DEF Srv6!TlvAt
<1>6. Srv6!Leftover = 8 * (Len(words) - 1) + tail - 16 * SegCount(l) BY <1>4 DEF Srv6!Leftover
<1> QED BY <1>2, <1>3, <1>4, <1>5, <1>6

(* split_at(16), n times, gives n segments where there are words enough.   *)
LEMMA SegSplit ==
  ASSUME Srv6!TypeOK, NEW n \in Nat, 2 * n + 1 <= Len(words)
  PROVE  Srv6!SegmentsOf(n) \in Seq(Srv6!Segments) /\ Len(Srv6!SegmentsOf(n)) = n
<1>1. words \in Seq(Srv6!Words) BY DEF Srv6!TypeOK
<1>2. ASSUME NEW k \in 1 .. n PROVE <<words[2 * k], words[2 * k + 1]>> \in Srv6!Segments
  <2>1. 2 * k \in 1 .. Len(words) /\ 2 * k + 1 \in 1 .. Len(words) BY <1>1
  <2>2. words[2 * k] \in Srv6!Words /\ words[2 * k + 1] \in Srv6!Words BY <1>1, <2>1
  <2> QED BY <2>2 DEF Srv6!Segments
<1> QED BY <1>2 DEF Srv6!SegmentsOf

(* The headers of a sound value are one, and typed.                        *)
LEMMA SegOnly ==
  ASSUME SegInv, SegSound
  PROVE  /\ Len(hdrs) = 1 /\ hdrs[1] \in Srv6!Hdrs
         /\ hdrs[1].fixed \in Srv6!Words /\ hdrs[1].fixed.left \in 0 .. 255
         /\ hdrs[1].segments \in Seq(Srv6!Segments) /\ Len(hdrs[1].segments) \in Nat
<1>1. Len(hdrs) = 1 /\ hdrs \in Seq(Srv6!Hdrs) BY DEF SegInv, SegKept, Srv6!TypeOK
<1>2. 1 \in 1 .. Len(hdrs) BY <1>1
<1>3. hdrs[1] \in Srv6!Hdrs BY <1>1, <1>2
<1> QED BY <1>1, <1>3, SegHdrTypes

(* The message of a sound value is read as what was written: neither       *)
(* parser refuses it, panics or leaves a rest.                             *)
LEMMA SegOwn ==
  ASSUME SegInv, SegSound, status = "wire"
  PROVE  LET n == Len(hdrs[1].segments)
         IN /\ words # <<>> /\ tail = 0 /\ Len(words) = 1 + 2 * n /\ words[1] = hdrs[1].fixed
            /\ Srv6!SegmentsOf(n) = hdrs[1].segments
            /\ Srv6!TunnelOk
            /\ form = "srh" => /\ SegCount(words[1].left) = n
                               /\ Srv6!Computed /\ Srv6!Leftover = 0
                               /\ words[1].left >= 15 => build = "release"
<1> DEFINE n == Len(hdrs[1].segments)
<1>1. /\ Len(hdrs) = 1 /\ hdrs[1] \in Srv6!Hdrs /\ hdrs[1].fixed.left \in 0 .. 255
      /\ hdrs[1].segments \in Seq(Srv6!Segments) /\ n \in Nat
  BY SegOnly
<1>2. trips > 0 /\ SegStable(hdrs[1]) BY DEF SegInv, SegKept
<1>3. tail = 0 /\ words = Srv6!EmitHdrWords(hdrs[1]) BY <1>1, <1>2 DEF SegInv, SegSent
<1>4. /\ words \in Seq(Srv6!Words) /\ Len(words) = 1 + 2 * n /\ words[1] = hdrs[1].fixed
      /\ \A k \in 1 .. n :
           words[2 * k] = hdrs[1].segments[k][1] /\ words[2 * k + 1] = hdrs[1].segments[k][2]
  BY <1>1, <1>3, SegEmitted
<1>5. words # <<>> BY <1>1, <1>4
<1>6. Srv6!SegmentsOf(n) = hdrs[1].segments
  <2>1. Srv6!SegmentsOf(n) = [k \in 1 .. n |-> <<words[2 * k], words[2 * k + 1]>>]
    BY DEF Srv6!SegmentsOf
  <2>2. ASSUME NEW k \in 1 .. n
        PROVE  hdrs[1].segments[k] = <<words[2 * k], words[2 * k + 1]>>
    <3> DEFINE s == hdrs[1].segments[k]
    <3>1. s \in Srv6!Segments BY <1>1
    <3>2. s[1] = words[2 * k] /\ s[2] = words[2 * k + 1] BY <1>4
    <3> HIDE DEF s
    <3>3. s = <<s[1], s[2]>> BY <3>1 DEF Srv6!Segments
    <3> QED BY <3>2, <3>3 DEF s
  <2>3. hdrs[1].segments = [k \in 1 .. n |-> hdrs[1].segments[k]] BY <1>1
  <2> HIDE DEF n
  <2> QED BY <2>1, <2>2, <2>3
<1>7. Srv6!TunnelOk
  <2>0. \A k \in Nat : (1 + 2 * k) % 2 = 1 OBVIOUS
  <2>1. (1 + 2 * n) % 2 = 1 BY <1>1, <2>0
  <2> QED BY <1>3, <1>4, <1>5, <2>1 DEF Srv6!TunnelOk
<1>8. ASSUME form = "srh"
      PROVE  /\ SegCount(words[1].left) = n
             /\ Srv6!Computed /\ Srv6!Leftover = 0
             /\ words[1].left >= 15 => build = "release"
  <2>1. SegCount(words[1].left) = n BY <1>2, <1>4, <1>8 DEF SegStable
  <2>2. words[1].left >= 15 => build = "release" BY <1>2, <1>4, <1>8 DEF SegStable
  <2>3. Srv6!SegLen(words[1].left) > 255 <=> words[1].left >= 15
    BY <1>1, <1>4, SegCounts
  <2>3a. Srv6!SegLen(words[1].left) \in Int
    <3>1. \A l \in 0 .. 255 : (l + 1) * 16 \in Int OBVIOUS
    <3> QED BY <1>1, <1>4, <3>1 DEF Srv6!SegLen
  <2>4. Srv6!Computed BY <1>5, <2>2, <2>3, <2>3a DEF Srv6!Computed
  <2>5. Srv6!TypeOK BY DEF SegInv
  <2>6. Srv6!Leftover = 8 * (Len(words) - 1) + tail - 16 * SegCount(words[1].left)
    BY <1>5, <2>5, SegPlaces
  <2>7. Srv6!Leftover = 8 * (1 + 2 * n - 1) + 0 - 16 * n BY <1>3, <1>4, <2>1, <2>6
  <2> HIDE DEF n
  <2>8. 8 * (1 + 2 * n - 1) + 0 - 16 * n = 0 BY <1>1
  <2> QED BY <2>1, <2>2, <2>4, <2>7, <2>8
<1> QED BY <1>3, <1>4, <1>5, <1>6, <1>7, <1>8

(* A caller's value on the wire has been emitted.                          *)
LEMMA SegCallerSent ==
  ASSUME SegInv, origin = "caller", status \in {"emitting", "wire"}
  PROVE  trips > 0
BY DEF SegInv, SegFirst, Srv6!TypeOK

(* Ipv6SrHdr::emit and Seg6IpTunnelEncap::emit begin.                      *)
LEMMA SegStartEmit == SegInv /\ Srv6!StartEmit => SegInv'
<1> SUFFICES ASSUME SegInv, Srv6!StartEmit PROVE SegInv' OBVIOUS
<1>0. /\ status = "value" /\ status' = "emitting" /\ trips < MaxTrips /\ trips' = trips + 1
      /\ emitted' = 0 /\ words' = <<>> /\ tail' = 0 /\ tailTlv' = "other"
      /\ form' = form /\ build' = build /\ origin' = origin /\ hdrs' = hdrs /\ first' = first
  BY DEF Srv6!StartEmit
<1>1. Srv6!TypeOK BY DEF SegInv
<1>2. trips \in Nat /\ trips' > 0 BY <1>0, <1>1 DEF Srv6!TypeOK
<1>3. Srv6!TypeOK'
  <2>1. trips' \in 0 .. MaxTrips BY <1>0, <1>1, MaxTripsAssumption DEF Srv6!TypeOK
  <2>2. 0 <= Len(hdrs) BY <1>1 DEF Srv6!TypeOK
  <2>3. <<>> \in Seq(Srv6!Words) OBVIOUS
  <2> QED BY <1>0, <1>1, <2>1, <2>2, <2>3 DEF Srv6!TypeOK, Srv6!TlvTypes
<1>4. SegFirst'
  <2>1. trips' = 1 => trips = 0 BY <1>0, <1>2
  <2>2. trips' # 0 BY <1>0, <1>2
  <2> QED BY <1>0, <1>2, <2>1, <2>2 DEF SegInv, SegFirst, Srv6!NoValue
<1>5. SegKept' BY <1>0, <1>2 DEF SegInv, SegKept, SegSound, SegStable, Srv6!Countable, Srv6!NoValue
<1>6. SegSent'
  <2>1. 0 \in 0 .. Len(hdrs) /\ hdrs \in Seq(Srv6!Hdrs) BY <1>1 DEF Srv6!TypeOK
  <2>2. Srv6!FirstSegments(hdrs, 0) = {} BY <2>1, SegTotals
  <2>3. Cardinality({}) = 0 BY FS_EmptySet
  <2>4. Len(<<>>) = 0 + 2 * Cardinality(Srv6!FirstSegments(hdrs, 0)) BY <2>2, <2>3
  <2>5. Srv6!FirstSegments(hdrs', emitted') = Srv6!FirstSegments(hdrs, 0) BY <1>0
  <2>6. Len(words') = emitted' + 2 * Cardinality(Srv6!FirstSegments(hdrs', emitted'))
    BY <1>0, <2>4, <2>5
  <2> QED BY <1>0, <2>6 DEF SegSent
<1> QED BY <1>0, <1>3, <1>4, <1>5, <1>6
    DEF SegInv, Srv6!DamageBounded, Srv6!ReadAsSent, Srv6!PanicsKnown

(* One header more of the emit loop.                                       *)
LEMMA SegEmitHdr == SegInv /\ Srv6!EmitHdr => SegInv'
<1> SUFFICES ASSUME SegInv, Srv6!EmitHdr PROVE SegInv' OBVIOUS
<1> DEFINE h == hdrs[emitted + 1]
           e == Srv6!EmitHdrWords(h)
<1>0. /\ status = "emitting" /\ status' = "emitting" /\ emitted < Len(hdrs) /\ trips' = trips
      /\ emitted' = emitted + 1 /\ words' = words \o e /\ tail' = tail /\ tailTlv' = tailTlv
      /\ form' = form /\ build' = build /\ origin' = origin /\ hdrs' = hdrs /\ first' = first
  BY DEF Srv6!EmitHdr
<1>1. Srv6!TypeOK BY DEF SegInv
<1>2. /\ hdrs \in Seq(Srv6!Hdrs) /\ emitted \in Nat /\ words \in Seq(Srv6!Words)
      /\ Len(hdrs) \in Nat /\ Len(words) \in Nat
  BY <1>1 DEF Srv6!TypeOK
<1>3. h \in Srv6!Hdrs
  <2>1. emitted + 1 \in 1 .. Len(hdrs) BY <1>0, <1>2
  <2> QED BY <1>2, <2>1
<1>4. Len(h.segments) \in Nat BY <1>3, SegHdrTypes
<1>5. e \in Seq(Srv6!Words) /\ Len(e) = 1 + 2 * Len(h.segments) /\ e[1] = h.fixed
  BY <1>3, SegEmitted
<1> HIDE DEF e
<1>6. words' \in Seq(Srv6!Words) /\ Len(words') = Len(words) + Len(e)
  <2>1. ASSUME NEW a \in Seq(Srv6!Words), NEW b \in Seq(Srv6!Words)
        PROVE  a \o b \in Seq(Srv6!Words) /\ Len(a \o b) = Len(a) + Len(b)
    OBVIOUS
  <2> QED BY <1>0, <1>2, <1>5, <2>1
<1>7. Srv6!TypeOK'
  <2>1. emitted' \in Nat /\ emitted' <= Len(hdrs') BY <1>0, <1>2
  <2> QED BY <1>0, <1>1, <1>6, <2>1 DEF Srv6!TypeOK
<1>8. SegFirst' BY <1>0 DEF SegInv, SegFirst
<1>9. SegKept' BY <1>0 DEF SegInv, SegKept, SegSound, SegStable, Srv6!Countable, Srv6!NoValue
<1>10. SegSent'
  <2> DEFINE C(n) == Cardinality(Srv6!FirstSegments(hdrs, n))
  <2>0. trips > 0 BY <1>0 DEF SegInv, SegFirst
  <2>1. /\ tail = 0 /\ Len(words) = emitted + 2 * C(emitted)
        /\ emitted > 0 => words[1] = hdrs[1].fixed
    BY <1>0, <2>0 DEF SegInv, SegSent
  <2>2. emitted \in 0 .. Len(hdrs) BY <1>0, <1>2
  <2>3. C(emitted) \in Nat BY <1>2, <2>2, SegTotalFinite
  <2>4. C(emitted + 1) = C(emitted) + Len(h.segments) BY <1>0, <1>2, <2>2, SegTotals
  <2>4a. emitted = 0 => C(emitted) = 0 BY <1>2, <2>2, SegTotals, FS_EmptySet
  <2>5. Len(words') = emitted' + 2 * Cardinality(Srv6!FirstSegments(hdrs', emitted'))
    <3>1. Len(words') = emitted + 2 * C(emitted) + (1 + 2 * Len(h.segments)) BY <1>5, <1>6, <2>1
    <3> HIDE DEF C
    <3>2. emitted + 2 * C(emitted) + (1 + 2 * Len(h.segments)) = (emitted + 1) + 2 * C(emitted + 1)
      <4>1. \A a, b, c, d \in Nat : d = b + c => a + 2 * b + (1 + 2 * c) = (a + 1) + 2 * d
        OBVIOUS
      <4>2. C(emitted + 1) \in Nat BY <1>4, <2>3, <2>4
      <4> DEFINE l == Len(h.segments)
                 c == C(emitted)
                 d == C(emitted + 1)
      <4>3. l \in Nat /\ c \in Nat /\ d \in Nat /\ d = c + l BY <1>4, <2>3, <2>4, <4>2
      <4> HIDE DEF l, c, d
      <4>4. emitted + 2 * c + (1 + 2 * l) = (emitted + 1) + 2 * d BY <1>2, <4>1, <4>3
      <4> QED BY <4>4 DEF l, c, d
    <3>3. Len(words') = (emitted + 1) + 2 * C(emitted + 1) BY <3>1, <3>2
    <3> QED BY <1>0, <3>3 DEF C
  <2> HIDE DEF C
  <2>6. CASE emitted = 0
    <3>1. Len(words) = 0 BY <1>2, <2>1, <2>3, <2>4a, <2>6
    <3>2. words = <<>> BY <1>2, <3>1
    <3>3. words' = e BY <1>0, <1>5, <3>2
    <3>4. h = hdrs[1] BY <2>6
    <3>5. words'[1] = hdrs[1].fixed /\ words' = Srv6!EmitHdrWords(hdrs[1])
      BY <1>5, <3>3, <3>4 DEF e
    <3> QED BY <1>0, <2>1, <2>5, <3>5 DEF SegSent
  <2>7. CASE emitted # 0
    <3>1. emitted > 0 /\ emitted + 1 # 1 BY <1>2, <2>7
    <3>2. 1 \in 1 .. Len(words) BY <1>2, <2>1, <2>3, <3>1
    <3>3. words'[1] = words[1] BY <1>0, <1>2, <1>5, <3>2
    <3> QED BY <1>0, <2>1, <2>5, <3>1, <3>3 DEF SegSent
  <2> QED BY <2>6, <2>7
<1> QED BY <1>0, <1>7, <1>8, <1>9, <1>10
    DEF SegInv, Srv6!DamageBounded, Srv6!ReadAsSent, Srv6!PanicsKnown

(* The message is complete.                                                *)
LEMMA SegDeliver == SegInv /\ Srv6!Deliver => SegInv'
<1> SUFFICES ASSUME SegInv, Srv6!Deliver PROVE SegInv' OBVIOUS
<1>0. /\ status = "emitting" /\ status' = "wire" /\ emitted = Len(hdrs) /\ trips' = trips
      /\ emitted' = emitted /\ words' = words /\ tail' = tail /\ tailTlv' = tailTlv
      /\ form' = form /\ build' = build /\ origin' = origin /\ hdrs' = hdrs /\ first' = first
  BY DEF Srv6!Deliver
<1>1. trips > 0 BY <1>0 DEF SegInv, SegFirst
<1>2. Srv6!TypeOK' BY <1>0 DEF SegInv, Srv6!TypeOK
<1>3. SegFirst' BY <1>0 DEF SegInv, SegFirst
<1>4. SegKept'
  BY <1>0, <1>1 DEF SegInv, SegKept, SegSound, SegStable, Srv6!Countable, Srv6!NoValue
<1>5. SegSent' BY <1>0 DEF SegInv, SegSent
<1> QED BY <1>0, <1>2, <1>3, <1>4, <1>5
    DEF SegInv, Srv6!DamageBounded, Srv6!ReadAsSent, Srv6!PanicsKnown

(* A parser fails: on what is not sound.                                   *)
LEMMA SegFails ==
  ASSUME SegInv, status = "wire", ~SegSound, NEW how \in {"err", "panic"}, Srv6!Fails(how)
  PROVE  /\ Srv6!TypeOK' /\ SegFirst' /\ SegKept' /\ SegSent' /\ Srv6!ReadAsSent'
         /\ status' = how /\ trips' = trips /\ words' = words /\ tail' = tail /\ tailTlv' = tailTlv
         /\ form' = form /\ build' = build /\ origin' = origin /\ hdrs' = hdrs /\ first' = first
<1>0. /\ status' = how /\ emitted' = emitted /\ trips' = trips
      /\ words' = words /\ tail' = tail /\ tailTlv' = tailTlv
      /\ form' = form /\ build' = build /\ origin' = origin /\ hdrs' = hdrs /\ first' = first
  BY DEF Srv6!Fails
<1>1. status' \in {"err", "panic"} BY <1>0
<1>2. Srv6!TypeOK' BY <1>0, <1>1 DEF SegInv, Srv6!TypeOK
<1>3. SegFirst'
  <2>1. origin = "caller" => trips > 0 BY SegCallerSent
  <2>2. origin = "caller" => trips # 0 BY <2>1 DEF SegInv, Srv6!TypeOK
  <2> QED BY <1>0, <1>1, <2>2 DEF SegInv, SegFirst
<1>4. ~SegSound' BY <1>0 DEF SegSound, Srv6!Countable, Srv6!NoValue
<1>5. SegKept' BY <1>4 DEF SegKept
<1>6. SegSent' /\ Srv6!ReadAsSent' BY <1>1 DEF SegSent, Srv6!ReadAsSent
<1> QED BY <1>0, <1>2, <1>3, <1>5, <1>6

(* A parser returns one header: the one it was, if the value was sound.    *)
LEMMA SegParsed ==
  ASSUME SegInv, status = "wire", NEW h \in Srv6!Hdrs, Srv6!Parsed(<<h>>), SegStable(h),
         SegSound => /\ h.fixed = hdrs[1].fixed /\ h.segments = hdrs[1].segments
                     /\ h.tlvs = <<>>
  PROVE  /\ Srv6!TypeOK' /\ SegFirst' /\ SegKept' /\ SegSent' /\ Srv6!PanicsKnown'
         /\ Len(hdrs') = 1 /\ hdrs'[1] = h /\ status' = "value"
         /\ form' = form /\ build' = build /\ origin' = origin /\ trips' = trips
         /\ origin = "caller" => first' = first
<1>0. /\ hdrs' = <<h>> /\ status' = "value" /\ emitted' = 0 /\ trips' = trips
      /\ words' = words /\ tail' = tail /\ tailTlv' = tailTlv
      /\ form' = form /\ build' = build /\ origin' = origin
      /\ first' = IF first = <<>> /\ origin = "wire" THEN <<h>> ELSE first
  BY DEF Srv6!Parsed, Srv6!NoValue
<1>1. Srv6!TypeOK BY DEF SegInv
<1>2. <<h>> \in Seq(Srv6!Hdrs) /\ Len(<<h>>) = 1 /\ <<h>>[1] = h /\ <<h>> # <<>> OBVIOUS
<1>3. Srv6!TypeOK'
  <2>1. first' \in Seq(Srv6!Hdrs) BY <1>0, <1>1, <1>2 DEF Srv6!TypeOK
  <2>2. hdrs' \in Seq(Srv6!Hdrs) /\ emitted' \in Nat /\ emitted' <= Len(hdrs') BY <1>0, <1>2
  <2> QED BY <1>0, <1>1, <2>1, <2>2 DEF Srv6!TypeOK
<1>4. origin = "caller" => first' = first BY <1>0
<1>5. origin = "wire" => first' # <<>> BY <1>0, <1>2
<1>6. SegFirst'
  <2>1. origin = "caller" => trips > 0 BY SegCallerSent
  <2>2. origin = "caller" => trips # 0 BY <1>1, <2>1 DEF Srv6!TypeOK
  <2> QED BY <1>0, <1>4, <1>5, <2>2 DEF SegInv, SegFirst, Srv6!NoValue
<1>7. SegStable(h)' BY <1>0 DEF SegStable
<1>8. SegKept'
  <2>1. CASE first = <<>> /\ origin = "wire"
    <3>1. first' = <<h>> BY <1>0, <2>1
    <3>2. trips' = 0 BY <1>0, <2>1 DEF SegInv, SegFirst, Srv6!NoValue
    <3>3. ~(trips' > 0) BY <3>2
    <3>4. hdrs'[1] = h /\ first'[1] = h /\ Len(hdrs') = 1 /\ Len(first') = 1 BY <1>0, <1>2, <3>1
    <3>5. SegStable(hdrs[1])' BY <1>7, <3>4
    <3> QED BY <1>0, <2>1, <3>3, <3>4, <3>5 DEF SegKept
  <2>2. CASE ~(first = <<>> /\ origin = "wire")
    <3>1. first' = first BY <1>0, <2>2
    <3> SUFFICES ASSUME SegSound' PROVE SegKept' BY DEF SegKept
    <3>2. SegSound BY <1>0, <3>1 DEF SegSound, Srv6!Countable, Srv6!NoValue
    <3>3. Len(first) = 1 /\ hdrs[1].fixed = first[1].fixed /\ hdrs[1].segments = first[1].segments
      BY <3>2 DEF SegInv, SegKept
    <3>4. hdrs'[1] = h /\ Len(hdrs') = 1 BY <1>0, <1>2
    <3>5. hdrs'[1].fixed = first[1].fixed /\ hdrs'[1].segments = first[1].segments
          /\ hdrs'[1].tlvs = <<>>
      BY <3>2, <3>3, <3>4
    <3>6. SegStable(hdrs[1])' BY <1>7, <3>4
    <3> QED BY <1>0, <3>1, <3>3, <3>4, <3>5, <3>6 DEF SegKept
  <2> QED BY <2>1, <2>2
<1>9. SegSent' /\ Srv6!PanicsKnown' BY <1>0 DEF SegSent, Srv6!PanicsKnown
<1> QED BY <1>0, <1>2, <1>3, <1>4, <1>6, <1>8, <1>9

(* What a tunnel that is not a single header is as long as.                *)
LEMMA SegDamage ==
  ASSUME SegInv, status = "wire", origin = "caller", trips = 1
  PROVE  /\ hdrs = first /\ tail = 0 /\ Len(first) \in Nat
         /\ Srv6!Total(first) \in Nat
         /\ Len(words) = Len(first) + 2 * Srv6!Total(first)
         /\ Len(first) > 0 => words[1] = first[1].fixed
<1>1. hdrs = first BY DEF SegInv, SegFirst
<1>2. trips > 0 /\ Len(first) \in Nat /\ first \in Seq(Srv6!Hdrs) BY DEF SegInv, Srv6!TypeOK
<1>3. Srv6!Total(first) = Cardinality(Srv6!FirstSegments(first, Len(first)))
  BY SegCardinality DEF Srv6!Total
<1>4. Srv6!Total(first) \in Nat
  <2>1. Len(first) \in 0 .. Len(first) BY <1>2
  <2> QED BY <1>2, <1>3, <2>1, SegTotalFinite
<1>5. /\ tail = 0 /\ Len(words) = emitted + 2 * Cardinality(Srv6!FirstSegments(hdrs, emitted))
      /\ emitted > 0 => words[1] = hdrs[1].fixed
      /\ emitted = Len(hdrs)
  BY <1>2 DEF SegInv, SegSent
<1> QED BY <1>1, <1>2, <1>3, <1>4, <1>5

(* Seg6IpTunnelEncap::parse refuses: none or an even number of headers.    *)
LEMMA SegRefuseTunnel == SegInv /\ Srv6!RefuseTunnel => SegInv'
<1> SUFFICES ASSUME SegInv, Srv6!RefuseTunnel PROVE SegInv' OBVIOUS
<1>0. status = "wire" /\ form = "tunnel" /\ ~Srv6!TunnelOk /\ Srv6!Fails("err")
  BY DEF Srv6!RefuseTunnel, Srv6!Parsing
<1>1. ~SegSound BY <1>0, SegOwn
<1>2. /\ Srv6!TypeOK' /\ SegFirst' /\ SegKept' /\ SegSent' /\ Srv6!ReadAsSent'
      /\ status' = "err" /\ trips' = trips /\ form' = form /\ origin' = origin /\ first' = first
  BY <1>0, <1>1, SegFails
<1>3. Srv6!DamageBounded'
  <2> SUFFICES ASSUME origin = "caller", trips = 1 PROVE Len(first) % 2 = 0
    BY <1>2 DEF Srv6!DamageBounded
  <2>1. /\ tail = 0 /\ Len(first) \in Nat /\ Srv6!Total(first) \in Nat
        /\ Len(words) = Len(first) + 2 * Srv6!Total(first)
    BY <1>0, SegDamage
  <2>2. words = <<>> \/ Len(words) % 2 # 1 BY <1>0, <2>1 DEF Srv6!TunnelOk
  <2>3. Len(words) % 2 # 1
    <3>1. Len(<<>>) = 0 /\ 0 % 2 # 1 OBVIOUS
    <3> QED BY <2>2, <3>1
  <2>4. \A a, b \in Nat : (a + 2 * b) % 2 # 1 => a % 2 = 0 OBVIOUS
  <2> QED BY <2>1, <2>3, <2>4
<1> QED BY <1>2, <1>3 DEF SegInv, Srv6!PanicsKnown

(* Seg6IpTunnelEncap::parse makes one header of all there is.              *)
LEMMA SegParseTunnel == SegInv /\ Srv6!ParseTunnel => SegInv'
<1> SUFFICES ASSUME SegInv, Srv6!ParseTunnel PROVE SegInv' OBVIOUS
<1> DEFINE n == (Len(words) - 1) \div 2
           h == [fixed |-> words[1], segments |-> Srv6!SegmentsOf(n), tlvs |-> <<>>]
<1>0. status = "wire" /\ form = "tunnel" /\ Srv6!TunnelOk /\ Srv6!Parsed(<<h>>)
  BY DEF Srv6!ParseTunnel, Srv6!Parsing, Srv6!Hdr
<1>1. Srv6!TypeOK BY DEF SegInv
<1>2. words # <<>> /\ Len(words) % 2 = 1 /\ tail = 0 BY <1>0 DEF Srv6!TunnelOk
<1>3. words[1] \in Srv6!Words /\ Len(words) \in Nat BY <1>1, <1>2, SegPlaces
<1>4. n \in Nat /\ Len(words) = 2 * n + 1
  <2>1. \A k \in Nat : k % 2 = 1 => (k - 1) \div 2 \in Nat /\ k = 2 * ((k - 1) \div 2) + 1 OBVIOUS
  <2> QED BY <1>2, <1>3, <2>1
<1> HIDE DEF n
<1>5. Srv6!SegmentsOf(n) \in Seq(Srv6!Segments) /\ Len(Srv6!SegmentsOf(n)) = n
  <2>1. 2 * n + 1 <= Len(words) BY <1>4
  <2> QED BY <1>1, <1>4, <2>1, SegSplit
<1>6. h \in Srv6!Hdrs /\ h.fixed = words[1] /\ h.segments = Srv6!SegmentsOf(n) /\ h.tlvs = <<>>
  <2>1. <<>> \in Seq(Seq(Srv6!Words)) OBVIOUS
  <2> QED BY <1>3, <1>5, <2>1 DEF Srv6!Hdrs
<1> HIDE DEF h
<1>7. SegStable(h) BY <1>0 DEF SegStable
<1>8. ASSUME SegSound PROVE h.fixed = hdrs[1].fixed /\ h.segments = hdrs[1].segments
  <2>1. /\ Len(words) = 1 + 2 * Len(hdrs[1].segments) /\ words[1] = hdrs[1].fixed
        /\ Srv6!SegmentsOf(Len(hdrs[1].segments)) = hdrs[1].segments
    BY <1>0, <1>8, SegOwn
  <2>2. Len(hdrs[1].segments) \in Nat BY <1>8, SegOnly
  <2>3. \A a, b \in Nat : 2 * a + 1 = 1 + 2 * b => a = b OBVIOUS
  <2>4. n = Len(hdrs[1].segments) BY <1>4, <2>1, <2>2, <2>3
  <2> QED BY <1>6, <2>1, <2>4
<1>9. /\ Srv6!TypeOK' /\ SegFirst' /\ SegKept' /\ SegSent' /\ Srv6!PanicsKnown'
      /\ Len(hdrs') = 1 /\ hdrs'[1] = h /\ status' = "value"
      /\ form' = form /\ build' = build /\ origin' = origin /\ trips' = trips
      /\ origin = "caller" => first' = first
  BY <1>0, <1>6, <1>7, <1>8, SegParsed
<1>10. Srv6!DamageBounded'
  <2> SUFFICES ASSUME origin = "caller", trips = 1
               PROVE  /\ Len(first) % 2 = 1 /\ h.fixed = first[1].fixed
                      /\ Len(h.segments) = Srv6!Total(first) + (Len(first) - 1) \div 2
    BY <1>9 DEF Srv6!DamageBounded, Srv6!Total, Srv6!FirstSegments
  <2>1. /\ Len(first) \in Nat /\ Srv6!Total(first) \in Nat
        /\ Len(words) = Len(first) + 2 * Srv6!Total(first)
        /\ Len(first) > 0 => words[1] = first[1].fixed
    BY <1>0, SegDamage
  <2>2. \A a, b, k \in Nat :
          a + 2 * b = 2 * k + 1 => a % 2 = 1 /\ a > 0 /\ k = b + (a - 1) \div 2
    OBVIOUS
  <2>3. Len(first) % 2 = 1 /\ Len(first) > 0 /\ n = Srv6!Total(first) + (Len(first) - 1) \div 2
    BY <1>4, <2>1, <2>2
  <2> QED BY <1>5, <1>6, <2>1, <2>3
<1> QED BY <1>0, <1>9, <1>10 DEF SegInv, Srv6!ReadAsSent

(* The debug build overflows: 15 segments left or more.                    *)
LEMMA SegOverflowSrh == SegInv /\ Srv6!OverflowSrh => SegInv'
<1> SUFFICES ASSUME SegInv, Srv6!OverflowSrh PROVE SegInv' OBVIOUS
<1>0. /\ status = "wire" /\ form = "srh" /\ words # <<>> /\ build = "debug"
      /\ Srv6!SegLen(words[1].left) > 255 /\ Srv6!Fails("panic")
  BY DEF Srv6!OverflowSrh, Srv6!Parsing
<1>1. words[1].left \in 0 .. 255 BY <1>0, SegPlaces DEF SegInv
<1>2. words[1].left >= 15 BY <1>0, <1>1, SegCounts
<1>3. ~SegSound BY <1>0, <1>2, SegOwn
<1>4. /\ Srv6!TypeOK' /\ SegFirst' /\ SegKept' /\ SegSent' /\ Srv6!ReadAsSent'
      /\ status' = "panic" /\ words' = words /\ form' = form /\ build' = build
      /\ origin' = origin /\ first' = first
  BY <1>0, <1>3, SegFails
<1>5. origin = "caller" => ~Srv6!Countable(first[1])
  BY <1>0, <1>3 DEF SegInv, SegFirst, SegSound
<1>6. Srv6!PanicsKnown'
  BY <1>0, <1>2, <1>4, <1>5 DEF Srv6!PanicsKnown, Srv6!Countable
<1>7. Srv6!DamageBounded' BY <1>0, <1>4 DEF Srv6!DamageBounded
<1> QED BY <1>4, <1>6, <1>7 DEF SegInv

(* Ipv6SrHdr::parse refuses.                                               *)
LEMMA SegRefuseSrh == SegInv /\ Srv6!RefuseSrh => SegInv'
<1> SUFFICES ASSUME SegInv, Srv6!RefuseSrh PROVE SegInv' OBVIOUS
<1>0. /\ status = "wire" /\ form = "srh" /\ Srv6!Fails("err")
      /\ words = <<>> \/ Srv6!Leftover < 0 \/ Srv6!Leftover \in 1 .. 3 \/ Srv6!Leftover > 3
  BY DEF Srv6!RefuseSrh, Srv6!Parsing
<1>1. ~SegSound
  <2>1. SUFFICES ASSUME SegSound PROVE FALSE OBVIOUS
  <2>2. words # <<>> /\ Srv6!Leftover = 0 BY <1>0, <2>1, SegOwn
  <2> QED BY <1>0, <2>2
<1>2. /\ Srv6!TypeOK' /\ SegFirst' /\ SegKept' /\ SegSent' /\ Srv6!ReadAsSent'
      /\ status' = "err" /\ form' = form
  BY <1>0, <1>1, SegFails
<1> QED BY <1>0, <1>2 DEF SegInv, Srv6!PanicsKnown, Srv6!DamageBounded

(* The HMAC is sliced from too short a rest.                               *)
LEMMA SegHmacCut == SegInv /\ Srv6!HmacCut => SegInv'
<1> SUFFICES ASSUME SegInv, Srv6!HmacCut PROVE SegInv' OBVIOUS
<1>0. /\ status = "wire" /\ form = "srh" /\ Srv6!Fails("panic")
      /\ Srv6!Leftover \in 4 .. 39 /\ Srv6!TlvHere = "hmac"
  <2>1. 8 * Srv6!HMAC_WORDS - 1 = 39 BY DEF Srv6!HMAC_WORDS
  <2> QED BY <2>1 DEF Srv6!HmacCut, Srv6!Parsing
<1>1. ~SegSound
  <2>1. SUFFICES ASSUME SegSound PROVE FALSE OBVIOUS
  <2>2. Srv6!Leftover = 0 BY <1>0, <2>1, SegOwn
  <2> QED BY <1>0, <2>2
<1>2. /\ Srv6!TypeOK' /\ SegFirst' /\ SegKept' /\ SegSent' /\ Srv6!ReadAsSent'
      /\ status' = "panic" /\ words' = words /\ tail' = tail /\ tailTlv' = tailTlv
      /\ form' = form /\ build' = build /\ origin' = origin /\ first' = first
  BY <1>0, <1>1, SegFails
<1>3. origin = "caller" => ~Srv6!Countable(first[1])
  BY <1>0, <1>1 DEF SegInv, SegFirst, SegSound
<1>4. Srv6!Leftover' \in 4 .. 39 /\ Srv6!TlvHere' = "hmac"
  BY <1>0, <1>2 DEF Srv6!Leftover, Srv6!TlvHere, Srv6!TlvAt
<1>5. Srv6!PanicsKnown'
  BY <1>0, <1>2, <1>3, <1>4 DEF Srv6!PanicsKnown, Srv6!Countable
<1>6. Srv6!DamageBounded' BY <1>0, <1>2 DEF Srv6!DamageBounded
<1> QED BY <1>2, <1>5, <1>6 DEF SegInv

(* Ipv6SrHdr::parse returns the announced segments, modulo 16, and the     *)
(* HMAC it finds behind them.                                              *)
LEMMA SegParseSrh == SegInv /\ Srv6!ParseSrh => SegInv'
<1> SUFFICES ASSUME SegInv, Srv6!ParseSrh PROVE SegInv' OBVIOUS
<1> DEFINE c == SegCount(words[1].left)
           t == IF Srv6!Leftover > 0 /\ Srv6!TlvHere = "hmac"
                THEN <<SubSeq(words, Srv6!TlvAt, Srv6!TlvAt + Srv6!HMAC_WORDS - 1)>>
                ELSE <<>>
           h == [fixed |-> words[1], segments |-> Srv6!SegmentsOf(c), tlvs |-> t]
<1>1. Srv6!TypeOK BY DEF SegInv
<1>2. /\ status = "wire" /\ form = "srh" /\ Srv6!Computed /\ words # <<>>
      /\ \/ Srv6!Leftover = 0 \/ (Srv6!Leftover > 3 /\ Srv6!TlvHere = "other")
         \/ Srv6!Leftover >= 8 * Srv6!HMAC_WORDS /\ Srv6!TlvHere = "hmac"
  BY DEF Srv6!ParseSrh, Srv6!Parsing, Srv6!Computed
<1>3. /\ words[1] \in Srv6!Words /\ words[1].left \in 0 .. 255 /\ Len(words) \in Nat \ {0}
      /\ c \in 0 .. 15 /\ Srv6!SegLenU8(words[1].left) \div 16 = c
      /\ Srv6!TlvAt = 2 + 2 * c
      /\ Srv6!Leftover = 8 * (Len(words) - 1) + tail - 16 * c
  BY <1>1, <1>2, SegPlaces
<1>4. Srv6!Parsed(<<h>>) BY <1>3 DEF Srv6!ParseSrh, Srv6!Hdr
<1> HIDE DEF c
<1>5. tail \in 0 .. 7 /\ words \in Seq(Srv6!Words) BY <1>1 DEF Srv6!TypeOK
<1>6. Srv6!SegmentsOf(c) \in Seq(Srv6!Segments) /\ Len(Srv6!SegmentsOf(c)) = c
  <2>1. Srv6!Leftover >= 0 BY <1>2, <1>3, <1>5 DEF Srv6!HMAC_WORDS
  <2>2. 2 * c + 1 <= Len(words) BY <1>3, <1>5, <2>1
  <2>3. c \in Nat BY <1>3
  <2> QED BY <1>1, <2>2, <2>3, SegSplit
<1>7. t \in Seq(Seq(Srv6!Words)) /\ (Srv6!Leftover = 0 => t = <<>>)
  <2>1. CASE Srv6!Leftover > 0 /\ Srv6!TlvHere = "hmac"
    <3>1. Srv6!Leftover >= 40 BY <1>2, <2>1 DEF Srv6!HMAC_WORDS
    <3>2. 2 * c + 6 <= Len(words) BY <1>3, <1>5, <3>1
    <3>3. /\ Srv6!TlvAt \in 1 .. Len(words)
          /\ Srv6!TlvAt + Srv6!HMAC_WORDS - 1 \in 1 .. Len(words)
      BY <1>3, <3>2 DEF Srv6!HMAC_WORDS
    <3>4. ASSUME NEW a \in 1 .. Len(words), NEW b \in 1 .. Len(words)
          PROVE  SubSeq(words, a, b) \in Seq(Srv6!Words)
      BY <1>5
    <3> DEFINE u == SubSeq(words, Srv6!TlvAt, Srv6!TlvAt + Srv6!HMAC_WORDS - 1)
    <3>5. u \in Seq(Srv6!Words) BY <3>3, <3>4
    <3>6. t = <<u>> BY <2>1
    <3> HIDE DEF u, t
    <3>7. <<u>> \in Seq(Seq(Srv6!Words)) BY <3>5
    <3>8. Srv6!Leftover # 0 BY <3>1
    <3> QED BY <3>6, <3>7, <3>8
  <2>2. CASE ~(Srv6!Leftover > 0 /\ Srv6!TlvHere = "hmac")
    <3>1. t = <<>> BY <2>2
    <3> HIDE DEF t
    <3> QED BY <3>1
  <2> QED BY <2>1, <2>2
<1> HIDE DEF t
<1>8. h \in Srv6!Hdrs /\ h.fixed = words[1] /\ h.segments = Srv6!SegmentsOf(c) /\ h.tlvs = t
  BY <1>3, <1>6, <1>7 DEF Srv6!Hdrs
<1> HIDE DEF h
<1>9. words[1].left >= 15 => build = "release"
  <2>1. Srv6!SegLen(words[1].left) > 255 <=> words[1].left >= 15 BY <1>3, SegCounts
  <2>2. Srv6!SegLen(words[1].left) \in Int
    <3>1. \A l \in 0 .. 255 : (l + 1) * 16 \in Int OBVIOUS
    <3> QED BY <1>3, <3>1 DEF Srv6!SegLen
  <2> QED BY <1>2, <2>1, <2>2 DEF Srv6!Computed
<1>10. SegStable(h) BY <1>6, <1>8, <1>9 DEF SegStable, c
<1>11. ASSUME SegSound
       PROVE  h.fixed = hdrs[1].fixed /\ h.segments = hdrs[1].segments /\ h.tlvs = <<>>
  <2>1. /\ words[1] = hdrs[1].fixed /\ c = Len(hdrs[1].segments)
        /\ Srv6!SegmentsOf(Len(hdrs[1].segments)) = hdrs[1].segments
        /\ Srv6!Leftover = 0
    BY <1>2, <1>11, SegOwn DEF c
  <2> QED BY <1>7, <1>8, <2>1
<1>12. /\ Srv6!TypeOK' /\ SegFirst' /\ SegKept' /\ SegSent' /\ Srv6!PanicsKnown'
       /\ Len(hdrs') = 1 /\ hdrs'[1] = h /\ status' = "value"
       /\ form' = form /\ build' = build
  BY <1>2, <1>4, <1>8, <1>10, <1>11, SegParsed
<1>13. Srv6!ReadAsSent'
  <2>1. /\ c <= words[1].left + 1 /\ (words[1].left < 15 <=> c = words[1].left + 1)
    BY <1>3, SegCounts DEF c
  <2>2. c < words[1].left + 1 <=> words[1].left >= 15
    <3>1. \A l \in 0 .. 255, k \in 0 .. 15 :
            k <= l + 1 /\ (l < 15 <=> k = l + 1) => (k < l + 1 <=> l >= 15)
      OBVIOUS
    <3> QED BY <1>3, <2>1, <3>1
  <2>3. Len(hdrs'[1].segments) = c /\ hdrs'[1].fixed = words[1] BY <1>6, <1>8, <1>12
  <2> QED BY <1>9, <1>12, <2>1, <2>2, <2>3 DEF Srv6!ReadAsSent
<1>14. Srv6!DamageBounded' BY <1>2, <1>12 DEF Srv6!DamageBounded
<1> QED BY <1>12, <1>13, <1>14 DEF SegInv

(* Every step of the SRv6 codec, and none, keeps the invariant.            *)
LEMMA SegNext == SegInv /\ [Srv6!Next]_(Srv6!vars) => SegInv'
<1> SUFFICES ASSUME SegInv, [Srv6!Next]_(Srv6!vars) PROVE SegInv' OBVIOUS
<1>1. CASE Srv6!Next
  BY <1>1, SegStartEmit, SegEmitHdr, SegDeliver, SegRefuseTunnel, SegParseTunnel,
     SegOverflowSrh, SegRefuseSrh, SegHmacCut, SegParseSrh
  DEF Srv6!Next
<1>2. CASE UNCHANGED Srv6!vars
  <2>0. /\ form' = form /\ build' = build /\ origin' = origin /\ hdrs' = hdrs /\ first' = first
        /\ words' = words /\ tail' = tail /\ tailTlv' = tailTlv /\ emitted' = emitted
        /\ trips' = trips /\ status' = status
    BY <1>2 DEF Srv6!vars
  <2>1. Srv6!TypeOK' BY <2>0 DEF SegInv, Srv6!TypeOK
  <2>2. SegFirst' BY <2>0 DEF SegInv, SegFirst
  <2>3. SegKept' BY <2>0 DEF SegInv, SegKept, SegSound, SegStable, Srv6!Countable, Srv6!NoValue
  <2>4. SegSent' BY <2>0 DEF SegInv, SegSent
  <2>5. Srv6!DamageBounded'
    BY <2>0 DEF SegInv, Srv6!DamageBounded, Srv6!Total, Srv6!FirstSegments
  <2>6. Srv6!ReadAsSent' BY <2>0 DEF SegInv, Srv6!ReadAsSent
  <2>7. Srv6!PanicsKnown'
    BY <2>0 DEF SegInv, Srv6!PanicsKnown, Srv6!Leftover, Srv6!TlvHere, Srv6!TlvAt, Srv6!Countable
  <2> QED BY <2>1, <2>2, <2>3, <2>4, <2>5, <2>6, <2>7 DEF SegInv
<1> QED BY <1>1, <1>2

(* And the invariant says what the run checks of the SRv6 codec.           *)
LEMMA SegGives ==
  ASSUME SegInv
  PROVE  /\ Srv6!TypeOK /\ Srv6!RoundTrip /\ Srv6!ReadAsSent /\ Srv6!Resent
         /\ Srv6!DamageBounded /\ Srv6!PanicsKnown
<1>1. Srv6!TypeOK /\ Srv6!ReadAsSent /\ Srv6!DamageBounded /\ Srv6!PanicsKnown BY DEF SegInv
<1>2. Srv6!RoundTrip
  <2> SUFFICES ASSUME SegSound, origin = "caller"
               PROVE  status \notin {"err", "panic"} /\ hdrs = first
    BY DEF Srv6!RoundTrip, SegSound
  <2>1. /\ status \notin {"err", "panic"} /\ Len(first) = 1 /\ Len(hdrs) = 1
        /\ hdrs[1].fixed = first[1].fixed /\ hdrs[1].segments = first[1].segments
        /\ hdrs[1].tlvs = <<>>
    BY DEF SegInv, SegKept
  <2>2. hdrs \in Seq(Srv6!Hdrs) /\ first \in Seq(Srv6!Hdrs) BY <1>1 DEF Srv6!TypeOK
  <2>3. 1 \in 1 .. Len(first) /\ 1 \in 1 .. Len(hdrs) BY <2>1
  <2>4. first[1].tlvs = <<>> BY <2>3 DEF SegInv, SegFirst
  <2>5. hdrs[1] \in Srv6!Hdrs /\ first[1] \in Srv6!Hdrs BY <2>2, <2>3
  <2>6. hdrs[1] = first[1]
    <3>1. /\ hdrs[1] = [fixed |-> hdrs[1].fixed, segments |-> hdrs[1].segments,
                        tlvs |-> hdrs[1].tlvs]
          /\ first[1] = [fixed |-> first[1].fixed, segments |-> first[1].segments,
                         tlvs |-> first[1].tlvs]
      BY <2>5, SegHdrTypes
    <3> QED BY <2>1, <2>4, <3>1
  <2>7. hdrs = first BY <2>1, <2>2, <2>6
  <2> QED BY <2>1, <2>7
<1>3. Srv6!Resent BY DEF SegInv, SegKept, SegSound, Srv6!Resent
<1> QED BY <1>1, <1>2, <1>3
-----------------------------------------------------------------------------
(* MPLS label stacks (route/mpls.rs).                                      *)

(* The entries in front of the loop are done: written as words, or read    *)
(* from them.                                                              *)
MplsInv ==
  /\ Mpls!TypeOK
  /\ status = "emitting" =>
       /\ origin = "caller" /\ labels = built
       /\ Len(words) = i /\ i <= Len(labels)
       /\ \A k \in 1 .. i : words[k] = Mpls!ToWord(built[k])
  /\ status # "emitting" =>
       /\ Len(labels) = i /\ i <= Len(words)
       /\ \A k \in 1 .. i : labels[k] = Mpls!FromWord(words[k])
       /\ status = "value" => i = Len(words)
       /\ origin = "caller" =>
            /\ Len(words) = Len(built)
            /\ \A k \in 1 .. Len(words) : words[k] = Mpls!ToWord(built[k])

(* The widths are naturals, and a class has room for the bits of its own.  *)
LEMMA MplsGiven ==
  /\ LabelBits \in Nat /\ TcBits \in Nat /\ ClassBits \in Nat /\ TtlBits \in Nat
  /\ TcBits <= ClassBits
BY WidthAssumption

(* A label emitted is a word.                                              *)
LEMMA ToWordType == \A v \in Mpls!Labels : Mpls!ToWord(v) \in SUBSET Mpls!Bits
BY MplsGiven DEF Mpls!ToWord, Mpls!Shl, Mpls!Labels, Mpls!Bits, Mpls!MPLS_LS_TTL_MASK,
   Mpls!WordBits

(* A word decoded is a label.                                              *)
LEMMA FromWordType == \A d \in SUBSET Mpls!Bits : Mpls!FromWord(d) \in Mpls!Labels
<1> TAKE d \in SUBSET Mpls!Bits
<1>1. Mpls!FromWord(d).label \in SUBSET Mpls!Bits BY DEF Mpls!FromWord, Mpls!Shr
<1>2. Mpls!FromWord(d).traffic_class \in SUBSET (0 .. ClassBits - 1)
  BY MplsGiven DEF Mpls!FromWord, Mpls!Shr, Mpls!MPLS_LS_TC_MASK, Mpls!MPLS_LS_TC_SHIFT,
     Mpls!MPLS_LS_LABEL_SHIFT, Mpls!Bits, Mpls!WordBits
<1>3. Mpls!FromWord(d).ttl \in SUBSET Mpls!MPLS_LS_TTL_MASK BY DEF Mpls!FromWord
<1> QED BY <1>1, <1>2, <1>3 DEF Mpls!FromWord, Mpls!Labels

(* A word decoded is in range, and would be emitted as the same word.      *)
LEMMA WordKept ==
  ASSUME NEW d \in SUBSET Mpls!Bits
  PROVE  Mpls!InRange(Mpls!FromWord(d)) /\ Mpls!ToWord(Mpls!FromWord(d)) = d
<1> DEFINE v == Mpls!FromWord(d)
<1> USE MplsGiven DEF Mpls!Bits, Mpls!WordBits, Mpls!MPLS_LS_LABEL_SHIFT, Mpls!MPLS_LS_TC_SHIFT,
      Mpls!MPLS_LS_S_SHIFT
<1>0. \A b \in d : b \in Nat /\ b < Mpls!WordBits OBVIOUS
<1>1. \A b : b \in v.label <=> b \in Mpls!Bits /\ b + Mpls!MPLS_LS_LABEL_SHIFT \in d
  BY <1>0 DEF Mpls!FromWord, Mpls!Shr, Mpls!MPLS_LS_LABEL_MASK
<1>2. \A b : b \in v.traffic_class
          <=> b \in Mpls!Bits /\ b < TcBits /\ b + Mpls!MPLS_LS_TC_SHIFT \in d
  BY <1>0 DEF Mpls!FromWord, Mpls!Shr, Mpls!MPLS_LS_TC_MASK
<1>3. v.bottom_of_stack <=> TtlBits \in d BY DEF Mpls!FromWord, Mpls!MPLS_LS_S_MASK
<1>4. \A b \in Int : b \in v.ttl <=> b \in d /\ b < TtlBits
  BY <1>0 DEF Mpls!FromWord, Mpls!MPLS_LS_TTL_MASK
<1> HIDE DEF v
<1>5. Mpls!InRange(v) BY <1>0, <1>1, <1>2 DEF Mpls!InRange
<1>6. \A b \in Int : b \in Mpls!Shl(v.label, Mpls!MPLS_LS_LABEL_SHIFT)
          <=> b \in d /\ b >= Mpls!MPLS_LS_LABEL_SHIFT
  BY <1>0, <1>1 DEF Mpls!Shl
<1>7. \A b \in Int : b \in Mpls!Shl(v.traffic_class, Mpls!MPLS_LS_TC_SHIFT)
          <=> b \in d /\ b > TtlBits /\ b < Mpls!MPLS_LS_LABEL_SHIFT
  BY <1>0, <1>2 DEF Mpls!Shl
<1>8. \A b \in Int : b \in Mpls!Shl(IF v.bottom_of_stack THEN {0} ELSE {}, Mpls!MPLS_LS_S_SHIFT)
          <=> b \in d /\ b = TtlBits
  BY <1>0, <1>3 DEF Mpls!Shl
<1>9. \A b \in Mpls!Bits : b \in Mpls!ToWord(v) <=> b \in d
  <2> TAKE b \in Mpls!Bits
  <2>1. b \in Mpls!ToWord(v) <=>
          \/ b \in Mpls!Shl(v.label, Mpls!MPLS_LS_LABEL_SHIFT)
          \/ b \in Mpls!Shl(v.traffic_class, Mpls!MPLS_LS_TC_SHIFT)
          \/ b \in Mpls!Shl(IF v.bottom_of_stack THEN {0} ELSE {}, Mpls!MPLS_LS_S_SHIFT)
          \/ b \in v.ttl
    BY DEF Mpls!ToWord
  <2>2. b < TtlBits \/ b = TtlBits \/ (b > TtlBits /\ b < Mpls!MPLS_LS_LABEL_SHIFT)
          \/ b >= Mpls!MPLS_LS_LABEL_SHIFT
    OBVIOUS
  <2> QED BY <2>1, <2>2, <1>4, <1>6, <1>7, <1>8
<1>10. Mpls!ToWord(v) \in SUBSET Mpls!Bits BY FromWordType, ToWordType DEF v
<1>11. Mpls!ToWord(v) = d
  <2> HIDE DEF Mpls!Bits
  <2> QED BY <1>9, <1>10
<1> QED BY <1>5, <1>11 DEF v

(* A label decoded from the word it was emitted to: all that is not in     *)
(* range ends up in its label, or nowhere.                                 *)
LEMMA LabelDamage ==
  ASSUME NEW v \in Mpls!Labels
  PROVE  LET w == Mpls!FromWord(Mpls!ToWord(v))
         IN  /\ w.ttl = v.ttl
             /\ w.bottom_of_stack = v.bottom_of_stack
             /\ w.traffic_class = v.traffic_class \cap 0 .. TcBits - 1
             /\ w.label = (v.label \cap 0 .. LabelBits - 1)
                            \cup {b \in 0 .. LabelBits - 1 : b + TcBits \in v.traffic_class}
<1> DEFINE d == Mpls!ToWord(v)
           w == Mpls!FromWord(d)
<1> USE MplsGiven DEF Mpls!Bits, Mpls!WordBits, Mpls!MPLS_LS_LABEL_SHIFT, Mpls!MPLS_LS_TC_SHIFT,
      Mpls!MPLS_LS_S_SHIFT
<1>0. /\ v.label \subseteq Mpls!Bits /\ v.traffic_class \subseteq 0 .. ClassBits - 1
      /\ v.ttl \subseteq 0 .. TtlBits - 1 /\ v.bottom_of_stack \in BOOLEAN
  BY DEF Mpls!Labels, Mpls!MPLS_LS_TTL_MASK
<1>1. \A b \in Mpls!Bits : b \in d <=>
        \/ b - (TtlBits + 1 + TcBits) \in v.label
        \/ b - (TtlBits + 1) \in v.traffic_class
        \/ b = TtlBits /\ v.bottom_of_stack
        \/ b \in v.ttl
  BY <1>0 DEF Mpls!ToWord, Mpls!Shl
<1>2. d \subseteq Mpls!Bits BY ToWordType
<1> HIDE DEF d
<1>3. w.ttl = v.ttl
  BY <1>0, <1>1, <1>2 DEF Mpls!FromWord, Mpls!MPLS_LS_TTL_MASK
<1>4. w.bottom_of_stack = v.bottom_of_stack
  <2>1. TtlBits \in d <=> v.bottom_of_stack BY <1>0, <1>1
  <2>2. w.bottom_of_stack = (d \cap {TtlBits} # {}) BY DEF Mpls!FromWord, Mpls!MPLS_LS_S_MASK
  <2> QED BY <2>1, <2>2, <1>0
<1>5. w.traffic_class = v.traffic_class \cap 0 .. TcBits - 1
  <2>1. w.traffic_class = {b \in Mpls!Bits : b < TcBits /\ b + TtlBits + 1 \in d}
    BY DEF Mpls!FromWord, Mpls!Shr, Mpls!MPLS_LS_TC_MASK
  <2>2. \A b \in 0 .. TcBits - 1 : b + TtlBits + 1 \in d <=> b \in v.traffic_class
    BY <1>0, <1>1
  <2> QED BY <1>0, <2>1, <2>2
<1>6. w.label = (v.label \cap 0 .. LabelBits - 1)
                  \cup {b \in 0 .. LabelBits - 1 : b + TcBits \in v.traffic_class}
  <2>1. \A b : b \in w.label <=> b \in Mpls!Bits /\ b + TtlBits + 1 + TcBits \in d
    BY <1>2 DEF Mpls!FromWord, Mpls!Shr, Mpls!MPLS_LS_LABEL_MASK
  <2>2. \A b : b \in w.label <=> b \in 0 .. LabelBits - 1 /\ b + TtlBits + 1 + TcBits \in d
    BY <2>1, <1>2
  <2>3. \A b \in 0 .. LabelBits - 1 :
          b + TtlBits + 1 + TcBits \in d <=> b \in v.label \/ b + TcBits \in v.traffic_class
    BY <1>0, <1>1
  <2> QED BY <2>2, <2>3
<1> QED BY <1>3, <1>4, <1>5, <1>6 DEF d

(* A label in range survives.                                              *)
LEMMA LabelKept ==
  ASSUME NEW v \in Mpls!Labels, Mpls!InRange(v)
  PROVE  Mpls!FromWord(Mpls!ToWord(v)) = v
<1> DEFINE w == Mpls!FromWord(Mpls!ToWord(v))
<1>1. /\ w.ttl = v.ttl /\ w.bottom_of_stack = v.bottom_of_stack
      /\ w.traffic_class = v.traffic_class \cap 0 .. TcBits - 1
      /\ w.label = (v.label \cap 0 .. LabelBits - 1)
                     \cup {b \in 0 .. LabelBits - 1 : b + TcBits \in v.traffic_class}
  BY LabelDamage
<1>2. w \in Mpls!Labels BY ToWordType, FromWordType
<1> HIDE DEF w
<1>3. w.traffic_class = v.traffic_class BY <1>1 DEF Mpls!InRange
<1>4. \A b \in 0 .. LabelBits - 1 : b + TcBits \notin v.traffic_class
  BY MplsGiven DEF Mpls!InRange
<1>5. w.label = v.label BY <1>1, <1>4 DEF Mpls!InRange
<1>6. w = v BY <1>1, <1>2, <1>3, <1>5 DEF Mpls!Labels
<1> QED BY <1>6 DEF w

(* It holds of a stack from the wire and of one a caller built.            *)
LEMMA MplsInit == Mpls!Init => MplsInv
<1> SUFFICES ASSUME Mpls!Init PROVE MplsInv OBVIOUS
<1>1. CASE origin = "caller"
  <2>1. /\ built # <<>> => \E v \in Mpls!Labels, rest \in Mpls!Lists(Mpls!Proper, MaxStack - 1) :
                            built = <<v>> \o rest
        /\ labels = built /\ words = <<>> /\ tail = 0 /\ i = 0 /\ status = "emitting"
    BY <1>1 DEF Mpls!Init
  <2>2. built \in Seq(Mpls!Labels)
    <3>0. <<>> \in Seq(Mpls!Labels) OBVIOUS
    <3> SUFFICES ASSUME built # <<>> PROVE built \in Seq(Mpls!Labels) BY <3>0
    <3>2. PICK v \in Mpls!Labels, rest \in Mpls!Lists(Mpls!Proper, MaxStack - 1) :
            built = <<v>> \o rest
      BY <2>1
    <3>3. rest \in Seq(Mpls!Labels)
      <4>1. Mpls!Proper \subseteq Mpls!Labels /\ MaxStack - 1 \in Int
        BY BoundsAssumption DEF Mpls!Proper
      <4> QED BY <4>1, ListsSeq DEF Mpls!Lists
    <3> QED BY <3>2, <3>3
  <2> QED BY <1>1, <2>1, <2>2 DEF MplsInv, Mpls!TypeOK
<1>2. CASE origin = "wire"
  <2>1. /\ words \in Mpls!Lists(SUBSET Mpls!Bits, MaxStack) /\ tail \in 0 .. 3
        /\ built = <<>> /\ labels = <<>> /\ i = 0 /\ status = "parsing"
    BY <1>2 DEF Mpls!Init
  <2>2. words \in Seq(SUBSET Mpls!Bits)
    <3>1. MaxStack \in Int BY BoundsAssumption
    <3>2. words \in UNION {[1 .. k -> SUBSET Mpls!Bits] : k \in 0 .. MaxStack}
      BY <2>1 DEF Mpls!Lists
    <3> QED BY <3>1, <3>2, ListsSeq
  <2> QED BY <1>2, <2>1, <2>2 DEF MplsInv, Mpls!TypeOK
<1> QED BY <1>1, <1>2 DEF Mpls!Init

(* Every step of the loops over label stacks keeps the invariant.          *)
LEMMA MplsNext == MplsInv /\ [Mpls!Next]_(Mpls!vars) => MplsInv'
<1> SUFFICES ASSUME MplsInv, [Mpls!Next]_(Mpls!vars) PROVE MplsInv' OBVIOUS
<1> USE DEF MplsInv, Mpls!TypeOK
<1>1. CASE Mpls!EmitLabel
  <2>1. Mpls!ToWord(labels[i + 1]) \in SUBSET Mpls!Bits
    BY <1>1, ToWordType DEF Mpls!EmitLabel
  <2> QED BY <1>1, <2>1 DEF Mpls!EmitLabel
<1>2. CASE Mpls!Deliver BY <1>2 DEF Mpls!Deliver
<1>3. CASE Mpls!ParseLabel
  <2>1. Mpls!FromWord(words[i + 1]) \in Mpls!Labels
    BY <1>3, FromWordType DEF Mpls!ParseLabel
  <2> QED BY <1>3, <2>1 DEF Mpls!ParseLabel
<1>4. CASE Mpls!Return BY <1>4 DEF Mpls!Return
<1>5. CASE UNCHANGED Mpls!vars BY <1>5 DEF Mpls!vars
<1> QED BY <1>1, <1>2, <1>3, <1>4, <1>5 DEF Mpls!Next

(* And it says what is checked of mpls.rs.                                 *)
LEMMA MplsGives ==
  MplsInv => Mpls!TypeOK /\ Mpls!RoundTrip /\ Mpls!DamageBounded /\ Mpls!Resent
<1> SUFFICES ASSUME MplsInv
             PROVE  Mpls!TypeOK /\ Mpls!RoundTrip /\ Mpls!DamageBounded /\ Mpls!Resent
  OBVIOUS
<1>1. ASSUME status = "value", origin = "caller", NEW k \in 1 .. Len(built)
      PROVE  /\ built[k] \in Mpls!Labels
             /\ labels[k] = Mpls!FromWord(Mpls!ToWord(built[k]))
  BY <1>1 DEF MplsInv, Mpls!TypeOK
<1>2. Mpls!RoundTrip
  BY <1>1, LabelKept DEF Mpls!RoundTrip, MplsInv, Mpls!TypeOK
<1>3. Mpls!DamageBounded BY <1>1, LabelDamage DEF Mpls!DamageBounded
<1>4. Mpls!Resent
  <2> SUFFICES ASSUME NEW k \in 1 .. Len(labels), origin = "wire" \/ status # "emitting"
               PROVE  Mpls!InRange(labels[k]) /\ Mpls!ToWord(labels[k]) = words[k]
    BY DEF Mpls!Resent
  <2>1. words[k] \in SUBSET Mpls!Bits /\ labels[k] = Mpls!FromWord(words[k])
    BY DEF MplsInv, Mpls!TypeOK
  <2> QED BY <2>1, WordKept
<1> QED BY <1>2, <1>3, <1>4 DEF MplsInv
-----------------------------------------------------------------------------
(* The keys of a u32 selector (tc/filters/cls_u32.rs).                     *)

(* The key number k that the selector it began with stands for.            *)
MeantKey(k) == IF k <= Len(first.keys) THEN first.keys[k] ELSE Stale

(* The selector is still the one of the message, or the message was not of *)
(* this crate.                                                             *)
U32Inv ==
  /\ U32!TypeOK
  /\ first \in [by : {"application", "kernel"}, nkeys : 0 .. MaxKeys, keys : Seq(Keys)]
  /\ Len(first.keys) <= MaxKeys
  /\ nkeys = first.nkeys /\ count = first.nkeys
  /\ first.by = "application" => trips > 0
  /\ status = "emitting" =>
       /\ Len(slots) = nkeys
       /\ at <= Len(keys) /\ at <= Len(slots) /\ trips > 0
       /\ \A k \in 1 .. at : slots[k] = keys[k]
       /\ \A k \in at + 1 .. Len(slots) : slots[k] = Stale
       /\ IF first.by = "application" /\ trips = 1
          THEN keys = first.keys
          ELSE Len(keys) = nkeys /\ \A k \in 1 .. nkeys : keys[k] = MeantKey(k)
  /\ status = "parsing" =>
       /\ at = Len(keys) /\ at <= count
       /\ \A k \in 1 .. Len(slots) : slots[k] = MeantKey(k)
       /\ \A k \in 1 .. at : keys[k] = MeantKey(k)
       /\ IF first.by = "kernel" /\ trips = 0
          THEN slots = first.keys
          ELSE Len(slots) = count
  /\ status = "ok" =>
       Len(keys) = nkeys /\ \A k \in 1 .. nkeys : keys[k] = MeantKey(k)
  /\ U32!PanicsKnown

(* It holds of the selectors of the kernel and of an application.          *)
LEMMA U32Init == U32!Init => U32Inv
<1> SUFFICES ASSUME U32!Init PROVE U32Inv OBVIOUS
<1>0. MaxKeys \in Nat /\ MaxTrips \in Nat /\ MaxTrips > 0 BY KeysAssumption, MaxTripsAssumption
<1>1. \A s \in U32!KeyLists :
        s \in Seq(Keys) /\ s \in Seq(Keys \union {Stale}) /\ Len(s) \in 0 .. MaxKeys
  BY <1>0, ListsSeq DEF U32!KeyLists
<1>2. CASE status = "emitting"
  <2>1. /\ nkeys \in 0 .. MaxKeys /\ keys \in U32!KeyLists /\ count = nkeys
        /\ slots = [k \in 1 .. nkeys |-> Stale] /\ trips = 1 /\ at = 0
        /\ first = [by |-> "application", nkeys |-> nkeys, keys |-> keys]
    BY <1>2 DEF U32!Init, U32!BufferLen
  <2>2. slots \in Seq(Keys \union {Stale}) /\ Len(slots) = nkeys BY <2>1
  <2> QED BY <1>0, <1>1, <1>2, <2>1, <2>2 DEF U32Inv, U32!TypeOK, U32!PanicsKnown
<1>3. CASE status = "parsing"
  BY <1>0, <1>1, <1>3 DEF U32!Init, U32Inv, U32!TypeOK, U32!PanicsKnown, MeantKey
<1> QED BY <1>2, <1>3 DEF U32!Init

(* Every step of the loops over keys keeps the invariant.                  *)
LEMMA U32Next == U32Inv /\ [U32!Next]_(U32!vars) => U32Inv'
<1> SUFFICES ASSUME U32Inv, [U32!Next]_(U32!vars) PROVE U32Inv' OBVIOUS
<1>0. MaxKeys \in Nat /\ MaxTrips \in Nat /\ MaxTrips > 0 BY KeysAssumption, MaxTripsAssumption
<1> USE <1>0 DEF U32Inv, U32!TypeOK
<1>1. CASE U32!EmitKey
  <2>1. CASE at + 1 \in DOMAIN slots
    <3>1. keys[at + 1] \in Keys \union {Stale} BY <1>1 DEF U32!EmitKey
    <3>2. /\ status = "emitting" /\ at < Len(keys) /\ at + 1 \in 1 .. Len(slots)
          /\ slots' = [slots EXCEPT ![at + 1] = keys[at + 1]] /\ at' = at + 1
          /\ UNCHANGED <<nkeys, keys, count, trips, first, status>>
      BY <1>1, <2>1 DEF U32!EmitKey
    <3>3. slots' \in Seq(Keys \union {Stale}) /\ Len(slots') = Len(slots) BY <3>1, <3>2
    <3>4. /\ \A k \in 1 .. at' : slots'[k] = keys[k]
          /\ \A k \in at' + 1 .. Len(slots) : slots'[k] = Stale
      <4>1. \A k \in 1 .. Len(slots) :
              slots'[k] = IF k = at + 1 THEN keys[at + 1] ELSE slots[k]
        BY <3>2
      <4>2. \A k \in 1 .. at : slots[k] = keys[k] BY <3>2
      <4>3. \A k \in at + 1 .. Len(slots) : slots[k] = Stale BY <3>2
      <4>4. at \in Nat /\ Len(slots) \in Nat /\ at' = at + 1 /\ at < Len(slots) BY <3>2
      <4> HIDE DEF U32Inv, U32!TypeOK
      <4>5. \A k \in 1 .. at' : slots'[k] = keys[k] BY <4>1, <4>2, <4>4
      <4>6. \A k \in at' + 1 .. Len(slots) : slots'[k] = Stale BY <4>1, <4>3, <4>4
      <4> QED BY <4>5, <4>6
    <3> QED BY <3>2, <3>3, <3>4 DEF MeantKey, U32!PanicsKnown
  <2>2. CASE at + 1 \notin DOMAIN slots
    <3>1. Len(keys) > nkeys BY <1>1, <2>2 DEF U32!EmitKey
    <3>2. first.by = "application" /\ trips = 1 /\ Len(first.keys) > first.nkeys
      BY <1>1, <3>1 DEF U32!EmitKey
    <3> QED BY <1>1, <2>2, <3>2 DEF U32!EmitKey, MeantKey, U32!PanicsKnown
  <2> QED BY <2>1, <2>2
<1>2. CASE U32!Sent
  <2>1. /\ status' = "parsing" /\ at' = 0 /\ keys' = <<>> /\ at = Len(keys)
        /\ UNCHANGED <<nkeys, count, slots, trips, first>> /\ status = "emitting"
    BY <1>2 DEF U32!Sent
  <2>2. \A k \in 1 .. Len(slots) : slots[k] = MeantKey(k) BY <2>1 DEF MeantKey
  <2> QED BY <2>1, <2>2 DEF MeantKey, U32!PanicsKnown
<1>3. CASE U32!ParseKey
  <2>1. /\ status = "parsing" /\ at < count
        /\ UNCHANGED <<nkeys, count, slots, trips, first>>
    BY <1>3 DEF U32!ParseKey, U32!ParseEnd
  <2>2. CASE at + 1 \in DOMAIN slots
    <3>1. keys' = Append(keys, slots[at + 1]) /\ at' = at + 1 /\ status' = status
      BY <1>3, <2>2 DEF U32!ParseKey, U32!KeyAt
    <3>0. at + 1 \in 1 .. Len(slots) BY <2>2
    <3>2. slots[at + 1] \in Keys \union {Stale} /\ slots[at + 1] = MeantKey(at + 1)
      BY <2>1, <3>0
    <3> QED BY <2>1, <3>1, <3>2 DEF MeantKey, U32!PanicsKnown
  <2>3. CASE at + 1 \notin DOMAIN slots
    <3>1. UNCHANGED <<keys, at>> /\ status' = "panic"
      BY <1>3, <2>3 DEF U32!ParseKey, U32!KeyAt
    <3>2. Len(slots) < count BY <2>1, <2>3
    <3> QED BY <2>1, <3>1, <3>2 DEF U32!PanicsKnown
  <2> QED BY <2>2, <2>3
<1>4. CASE U32!ParseDone
  BY <1>4 DEF U32!ParseDone, U32!ParseEnd, MeantKey, U32!PanicsKnown
<1>5. CASE U32!EmitAgain
  <2>1. /\ status = "ok" /\ status' = "emitting" /\ trips < MaxTrips /\ trips' = trips + 1
        /\ count' = nkeys /\ slots' = [k \in 1 .. nkeys |-> Stale] /\ at' = 0
        /\ UNCHANGED <<nkeys, keys, first>>
    BY <1>5 DEF U32!EmitAgain, U32!BufferLen
  <2>2. slots' \in Seq(Keys \union {Stale}) /\ Len(slots') = nkeys BY <2>1
  <2> QED BY <2>1, <2>2 DEF MeantKey, U32!PanicsKnown
<1>6. CASE UNCHANGED U32!vars BY <1>6 DEF U32!vars, MeantKey, U32!PanicsKnown
<1> QED BY <1>1, <1>2, <1>3, <1>4, <1>5, <1>6 DEF U32!Next

(* And it says what is checked of cls_u32.rs.                              *)
LEMMA U32Gives == U32Inv => U32!TypeOK /\ U32!ReadAsSent /\ U32!PanicsKnown
BY DEF U32Inv, U32!TypeOK, U32!ReadAsSent, MeantKey
-----------------------------------------------------------------------------
(* MDB entries (mdb/entry.rs).                                             *)

(* The messages of any size that have the shape of Init's.                 *)
MdbInfos ==
  [tag : {"Info", "Other", "Malformed"}, size : Nat, proto : Nat, fixed : {1, 2},
   eattrs : Seq(Mdb!Eattrs)]

(* A nested MDBA_MDB_ENTRY with its infos.                                 *)
MdbNested == [tag : {"Entry", "Other", "Malformed"}, infos : Seq(MdbInfos)]

(* An attribute of the message with its nested entries.                    *)
MdbAttrs == [tag : {"MdbEntry", "Other"}, entries : Seq(MdbNested)]

(* A message: lists of any length outside, of a bounded one inside.        *)
MdbMessage ==
  /\ msg \in Seq(MdbAttrs)
  /\ \A a \in 1 .. Len(msg) :
       /\ Len(msg[a].entries) <= MaxInfos
       /\ \A e \in 1 .. Len(msg[a].entries) : Len(msg[a].entries[e].infos) <= MaxInfos

(* Where the four loops stand.                                             *)
MdbAts == [attributes : Nat \ {0}, entries : Nat \ {0}, infos : Nat \ {0}, eattrs : Nat \ {0}]

(* What parse_mdb_entries returns of an info.                              *)
MdbOuts ==
  [fixed : {1, 2}, group : {"V4", "V6", "Mac"}, source : Mdb!Maybe, dst : Mdb!Maybe,
   vni : Mdb!Maybe]

(* The lists that the loops walk over.                                     *)
EntriesHere == msg[at.attributes].entries

(* The infos of the entry the loop is at.                                  *)
InfosHere == EntriesHere[at.entries].infos

(* The extra attributes of the info the loop is at.                        *)
EattrsHere == InfosHere[at.infos].eattrs

(* Types: the message, the places, and the variables of the innermost      *)
(* loop.                                                                   *)
MdbTypes ==
  /\ MdbMessage
  /\ at \in MdbAts
  /\ level \in {"attributes", "entries", "infos", "eattrs", "done"}
  /\ source \in Mdb!Maybe /\ dst \in Mdb!Maybe /\ vni \in Mdb!Maybe
  /\ out \in Seq(MdbOuts)

(* A loop stands in its list or just behind it, has met nothing malformed  *)
(* unless it is spent, and is inside of what the outer loops wanted.       *)
Standing(list, n) ==
  /\ n <= Len(list) + 1
  /\ n <= Len(list) => \A k \in 1 .. n - 1 : list[k].tag # "Malformed"

(* The outermost loop is inside of an attribute.                           *)
InEntries == level \in {"entries", "infos", "eattrs"}

(* The second loop is inside of an entry.                                  *)
InInfos == level \in {"infos", "eattrs"}

(* Where the loops stand, one inside of the other.                         *)
MdbPlaces ==
  /\ at.attributes <= Len(msg) + 1
  /\ level = "done" => at.attributes > Len(msg)
  /\ InEntries =>
       /\ at.attributes <= Len(msg) /\ msg[at.attributes].tag = "MdbEntry"
       /\ Standing(EntriesHere, at.entries)
  /\ InInfos =>
       /\ at.entries <= Len(EntriesHere) /\ EntriesHere[at.entries].tag = "Entry"
       /\ Standing(InfosHere, at.infos)
  /\ level = "eattrs" =>
       /\ at.infos <= Len(InfosHere) /\ InfosHere[at.infos].tag = "Info"
       /\ InfosHere[at.infos].size >= 28
       /\ Standing(EattrsHere, at.eattrs)

(* v is what the last of the eattrs in front of place n assigns that are   *)
(* among some.                                                             *)
FoundIn(list, some, n) == {k \in Mdb!Front(list) : list[k] \in some /\ k < n}

(* v is the last value found, or None where none was.                      *)
IsLast(v, list, some, n) ==
  \/ FoundIn(list, some, n) = {} /\ v = "None"
  \/ \E k \in FoundIn(list, some, n) :
       /\ \A j \in FoundIn(list, some, n) : j <= k
       /\ v = Mdb!IpFromNla(list[k].val)

(* The eattrs that assign the source.                                      *)
MdbSources == Mdb!Tagged({"SOURCE"})

(* The eattrs that assign the remote destination.                          *)
MdbDsts == Mdb!Tagged({"DST"})

(* The eattrs that assign the VNI: of either type, if four bytes long.     *)
MdbVnis == Mdb!Right({"VNI", "SRC_VNI"})

(* The variables of parse_entry_info hold what the eattrs read so far have *)
(* assigned last.                                                          *)
MdbLocals ==
  level = "eattrs" =>
    /\ IsLast(source, EattrsHere, MdbSources, at.eattrs)
    /\ IsLast(dst, EattrsHere, MdbDsts, at.eattrs)
    /\ IsLast(vni, EattrsHere, MdbVnis, at.eattrs)

(* The infos that the loops are through with.                              *)
MdbPassed(p) ==
  \/ p[1] < at.attributes
  \/ /\ InEntries /\ p[1] = at.attributes
     /\ p[2] < at.entries \/ (InInfos /\ p[2] = at.entries /\ p[3] < at.infos)

(* All the infos the loops have passed.                                    *)
MdbDone == {p \in Mdb!InfosOf : MdbPassed(p)}

(* The infos up to each of them.                                           *)
MdbUpTo == [p \in Mdb!InfosOf |-> Mdb!UpTo(p)]

(* What each should give.                                                  *)
MdbValue == [p \in Mdb!InfosOf |-> Mdb!Expected(Mdb!InfoAt(p))]

(* The inductive invariant of mdb/entry.rs: what is returned so far is     *)
(* what the infos passed so far should give, in their order.               *)
MdbInv ==
  MdbTypes /\ MdbPlaces /\ MdbLocals /\ Selected(out, MdbDone, MdbUpTo, MdbValue)

(* The instance counts as the theorems about finite sets do.               *)
LEMMA MdbCardinality == \A S : Mdb!Cardinality(S) = Cardinality(S)
BY Zenon DEF Mdb!Cardinality, Cardinality

(* What is counted depends on the message only.                            *)
LEMMA MdbSame ==
  ASSUME UNCHANGED msg
  PROVE  Mdb!InfosOf' = Mdb!InfosOf /\ MdbUpTo' = MdbUpTo /\ MdbValue' = MdbValue
<1>1. \A p : Mdb!InfoAt(p)' = Mdb!InfoAt(p) BY DEF Mdb!InfoAt
<1>2. Mdb!InfosOf' = Mdb!InfosOf BY <1>1 DEF Mdb!InfosOf
<1>3. \A p : Mdb!UpTo(p)' = Mdb!UpTo(p) BY <1>2 DEF Mdb!UpTo
<1>4. \A p : Mdb!Expected(Mdb!InfoAt(p))' = Mdb!Expected(Mdb!InfoAt(p)) BY <1>1 DEF Mdb!Expected
<1> QED BY <1>2, <1>3, <1>4 DEF MdbUpTo, MdbValue

(* The lists of a message and what is in them.                             *)
LEMMA MdbTyped ==
  ASSUME MdbMessage
  PROVE  /\ msg \in Seq(MdbAttrs)
         /\ \A a \in 1 .. Len(msg) :
              /\ msg[a].entries \in Seq(MdbNested) /\ Len(msg[a].entries) <= MaxInfos
              /\ \A e \in 1 .. Len(msg[a].entries) :
                   /\ msg[a].entries[e].infos \in Seq(MdbInfos)
                   /\ Len(msg[a].entries[e].infos) <= MaxInfos
                   /\ \A n \in 1 .. Len(msg[a].entries[e].infos) :
                        msg[a].entries[e].infos[n] \in MdbInfos
<1>1. msg \in Seq(MdbAttrs) BY DEF MdbMessage
<1>2. ASSUME NEW a \in 1 .. Len(msg)
      PROVE  msg[a].entries \in Seq(MdbNested) /\ Len(msg[a].entries) <= MaxInfos
  <2>1. msg[a] \in MdbAttrs BY <1>1
  <2> QED BY <2>1 DEF MdbAttrs, MdbMessage
<1>3. ASSUME NEW a \in 1 .. Len(msg), NEW e \in 1 .. Len(msg[a].entries)
      PROVE  /\ msg[a].entries[e].infos \in Seq(MdbInfos)
             /\ Len(msg[a].entries[e].infos) <= MaxInfos
  <2>1. msg[a].entries[e] \in MdbNested BY <1>2
  <2>2. msg[a].entries[e].infos \in Seq(MdbInfos) BY <2>1 DEF MdbNested
  <2>3. Len(msg[a].entries[e].infos) <= MaxInfos BY DEF MdbMessage
  <2> QED BY <2>2, <2>3
<1>4. ASSUME NEW a \in 1 .. Len(msg), NEW e \in 1 .. Len(msg[a].entries),
             NEW n \in 1 .. Len(msg[a].entries[e].infos)
      PROVE  msg[a].entries[e].infos[n] \in MdbInfos
  BY <1>3
<1> QED BY <1>1, <1>2, <1>3, <1>4

(* Where an info that counts stands.                                       *)
LEMMA InfoPlace ==
  ASSUME MdbMessage, NEW p \in Mdb!InfosOf
  PROVE  /\ p = <<p[1], p[2], p[3]>>
         /\ p[1] \in 1 .. Len(msg)
         /\ p[2] \in Mdb!Front(msg[p[1]].entries) /\ p[2] \in 1 .. Len(msg[p[1]].entries)
         /\ msg[p[1]].entries[p[2]].tag = "Entry" /\ msg[p[1]].tag = "MdbEntry"
         /\ p[3] \in Mdb!Front(msg[p[1]].entries[p[2]].infos)
         /\ p[3] \in 1 .. Len(msg[p[1]].entries[p[2]].infos)
         /\ msg[p[1]].entries[p[2]].infos[p[3]].tag = "Info"
         /\ msg[p[1]].entries[p[2]].infos[p[3]].size >= 28
         /\ p[1] \in Nat /\ p[2] \in Nat /\ p[3] \in Nat /\ p[3] > 0 /\ p[2] > 0
<1>1. p \in (1 .. Len(msg)) \X (1 .. MaxInfos) \X (1 .. MaxInfos) BY DEF Mdb!InfosOf
<1>2. /\ msg[p[1]].tag = "MdbEntry"
      /\ p[2] \in Mdb!Front(msg[p[1]].entries)
      /\ msg[p[1]].entries[p[2]].tag = "Entry"
      /\ p[3] \in Mdb!Front(msg[p[1]].entries[p[2]].infos)
      /\ msg[p[1]].entries[p[2]].infos[p[3]].tag = "Info"
      /\ msg[p[1]].entries[p[2]].infos[p[3]].size >= 28
  BY DEF Mdb!InfosOf, Mdb!InfoAt
<1>3. p = <<p[1], p[2], p[3]>> /\ p[1] \in 1 .. Len(msg) BY <1>1
<1>4. /\ p[2] \in 1 .. Len(msg[p[1]].entries)
      /\ p[3] \in 1 .. Len(msg[p[1]].entries[p[2]].infos)
  BY <1>2 DEF Mdb!Front
<1>5. p[1] \in Nat /\ p[2] \in Nat /\ p[3] \in Nat /\ p[3] > 0 /\ p[2] > 0
  BY <1>3, <1>4, MdbTyped
<1> QED BY <1>2, <1>3, <1>4, <1>5

(* One eattr more: the variable is assigned, or keeps its value.           *)
LEMMA LastStep ==
  ASSUME NEW list \in Seq(Mdb!Eattrs), NEW n \in 1 .. Len(list), Standing(list, n),
         NEW some, \A x \in some : x.tag # "Malformed",
         NEW v, IsLast(v, list, some, n),
         NEW m, m = IF list[n].tag = "Malformed" THEN Len(list) + 1 ELSE n + 1,
         NEW w, w = IF list[n] \in some THEN Mdb!IpFromNla(list[n].val) ELSE v
  PROVE  IsLast(w, list, some, m)
<1>1. \A k \in 1 .. n - 1 : list[k].tag # "Malformed" BY DEF Standing
<1>2. n \in Nat /\ m \in Nat /\ n < m /\ Len(list) \in Nat BY DEF Standing
<1>3. CASE list[n] \in some
  <2>1. list[n].tag # "Malformed" /\ m = n + 1 BY <1>3
  <2>2. n \in Mdb!Front(list)
    <3>1. \A j \in 1 .. n : j \in 1 .. n - 1 \/ j = n OBVIOUS
    <3> QED BY <1>1, <2>1, <3>1 DEF Mdb!Front
  <2>3. n \in FoundIn(list, some, m) BY <1>2, <1>3, <2>2 DEF FoundIn
  <2>4. \A j \in FoundIn(list, some, m) : j <= n BY <1>2, <2>1 DEF FoundIn, Mdb!Front
  <2> QED BY <1>3, <2>3, <2>4 DEF IsLast
<1>4. CASE list[n] \notin some
  <2>1. FoundIn(list, some, m) = FoundIn(list, some, n)
    <3>1. ASSUME NEW k \in Mdb!Front(list), list[k] \in some
          PROVE  k < m <=> k < n
      <4>1. k \in 1 .. Len(list) /\ \A j \in 1 .. k : list[j].tag # "Malformed"
        BY DEF Mdb!Front
      <4>2. k # n BY <1>4, <3>1
      <4>3. CASE list[n].tag = "Malformed"
        <5>1. n \notin 1 .. k BY <4>1, <4>3
        <5> QED BY <1>2, <4>1, <4>3, <5>1
      <4>4. CASE list[n].tag # "Malformed" BY <1>2, <4>1, <4>2, <4>4
      <4> QED BY <4>3, <4>4
    <3> QED BY <3>1 DEF FoundIn
  <2> QED BY <1>4, <2>1 DEF IsLast
<1> QED BY <1>3, <1>4

(* At the end of the list it is what ReadAsSent expects.                   *)
LEMMA LastIs ==
  ASSUME NEW list \in Seq(Mdb!Eattrs), NEW some, NEW v, IsLast(v, list, some, Len(list) + 1)
  PROVE  v = Mdb!IpFromNla(Mdb!LastVal(list, some))
<1> DEFINE found == {k \in Mdb!Front(list) : list[k] \in some}
<1>1. found = FoundIn(list, some, Len(list) + 1) BY DEF FoundIn, Mdb!Front
<1>2. Mdb!LastVal(list, some) =
        IF found = {} THEN "None" ELSE list[CHOOSE k \in found : \A j \in found : j <= k].val
  BY DEF Mdb!LastVal
<1>3. \A k \in found : k \in Nat BY DEF Mdb!Front
<1> HIDE DEF found
<1>4. CASE found = {} BY <1>1, <1>2, <1>4 DEF IsLast, Mdb!IpFromNla
<1>5. CASE found # {}
  <2>1. PICK k \in found : (\A j \in found : j <= k) /\ v = Mdb!IpFromNla(list[k].val)
    BY <1>1, <1>5 DEF IsLast
  <2> DEFINE c == CHOOSE x \in found : \A j \in found : j <= x
  <2>2. c \in found /\ \A j \in found : j <= c BY <2>1
  <2>3. c = k BY <1>3, <2>1, <2>2
  <2> QED BY <1>2, <1>5, <2>1, <2>3
<1> QED BY <1>4, <1>5

(* What Init's lists are.                                                  *)
LEMMA MdbListed ==
  ASSUME NEW S, NEW T, S \subseteq T, NEW n \in Int, NEW s \in Mdb!Lists(S, n)
  PROVE  s \in Seq(T) /\ Len(s) \in 0 .. n
BY ListsSeq DEF Mdb!Lists

(* Every message of Init has the shape.                                    *)
LEMMA MdbOneInfo == ASSUME msg \in Mdb!OneInfo PROVE MdbMessage
<1>0. MaxEattrs \in Nat /\ MaxInfos \in Nat /\ MaxInfos >= 1 BY BoundsAssumption
<1>1. PICK x \in [tag : {"Info"}, size : {28}, proto : {Mdb!ETH_P_IP, Mdb!ETH_P_IPV6, 0},
                  fixed : {1}, eattrs : Mdb!Lists(Mdb!Eattrs, MaxEattrs)] :
        msg = <<[tag |-> "MdbEntry", entries |-> <<[tag |-> "Entry", infos |-> <<x>>]>>]>>
  BY Zenon DEF Mdb!OneInfo
<1>2. x.eattrs \in Seq(Mdb!Eattrs) BY <1>0, MdbListed
<1>3. x \in MdbInfos BY <1>1, <1>2 DEF MdbInfos, Mdb!ETH_P_IP, Mdb!ETH_P_IPV6
<1> DEFINE e == [tag |-> "Entry", infos |-> <<x>>]
           a == [tag |-> "MdbEntry", entries |-> <<e>>]
<1>4. <<x>> \in Seq(MdbInfos) /\ Len(<<x>>) = 1 BY <1>3
<1>5. e \in MdbNested /\ e.infos = <<x>> BY <1>4 DEF MdbNested
<1> HIDE DEF e
<1>6. <<e>> \in Seq(MdbNested) /\ Len(<<e>>) = 1 /\ <<e>>[1] = e BY <1>5
<1>7. a \in MdbAttrs /\ a.entries = <<e>> BY <1>6 DEF MdbAttrs
<1> HIDE DEF a
<1>8. msg = <<a>> BY <1>1 DEF a, e
<1>9. msg \in Seq(MdbAttrs) /\ Len(msg) = 1 /\ msg[1] = a BY <1>7, <1>8
<1>10. ASSUME NEW k \in 1 .. Len(msg)
       PROVE  /\ Len(msg[k].entries) <= MaxInfos
              /\ \A j \in 1 .. Len(msg[k].entries) : Len(msg[k].entries[j].infos) <= MaxInfos
  <2>1. msg[k].entries = <<e>> BY <1>7, <1>9
  <2>2. ASSUME NEW j \in 1 .. Len(<<e>>) PROVE Len(<<e>>[j].infos) = 1
    <3>1. <<e>>[j] = e BY <1>6
    <3> QED BY <1>4, <1>5, <3>1
  <2> QED BY <1>0, <1>6, <2>1, <2>2
<1> QED BY <1>9, <1>10 DEF MdbMessage

(* So does a message of several attributes.                                *)
LEMMA MdbShapes ==
  ASSUME NEW h \in Mdb!FirstAttrs, NEW rest \in Mdb!Lists(Mdb!LaterAttrs, MaxAttrs - 1),
         msg = <<h>> \o rest
  PROVE  MdbMessage
<1>0. MaxInfos \in Nat /\ MaxInfos >= 1 /\ MaxAttrs \in Nat BY BoundsAssumption
<1> DEFINE Short(e) == e \in MdbNested /\ Len(e.infos) <= MaxInfos
           Good(a) == /\ a \in MdbAttrs /\ Len(a.entries) <= MaxInfos
                      /\ \A j \in 1 .. Len(a.entries) : Len(a.entries[j].infos) <= MaxInfos
<1>3. Mdb!SomeSource \in Seq(Mdb!Eattrs)
  <2> DEFINE v0 == CHOOSE v \in Vals : TRUE
  <2>1. v0 \in Vals BY ValsAssumption
  <2> HIDE DEF v0
  <2>2. [tag |-> "SOURCE", val |-> v0] \in Mdb!Eattrs BY <2>1 DEF Mdb!Eattrs
  <2>3. Mdb!SomeSource = <<[tag |-> "SOURCE", val |-> v0]>> BY DEF Mdb!SomeSource, v0
  <2> QED BY <2>2, <2>3
<1>4. Mdb!SomeInfos \subseteq MdbInfos
  BY <1>3 DEF Mdb!SomeInfos, MdbInfos, Mdb!Whole, Mdb!Info, Mdb!ETH_P_IP
<1>5. Mdb!Whole(1, Mdb!SomeSource) \in Mdb!SomeInfos /\ Mdb!Whole(2, <<>>) \in Mdb!SomeInfos
  BY DEF Mdb!SomeInfos
<1>6. ASSUME NEW w \in Mdb!SomeInfos
      PROVE  <<w>> \in Seq(MdbInfos) /\ Len(<<w>>) = 1
  BY <1>4
<1>7. ASSUME NEW e \in Mdb!SomeEntries PROVE Short(e)
  <2>1. CASE e \in [tag : {"Entry"}, infos : Mdb!Lists(Mdb!SomeInfos, MaxInfos)]
    <3>1. e.infos \in Mdb!Lists(Mdb!SomeInfos, MaxInfos) BY <2>1
    <3>2. e.infos \in Seq(MdbInfos) /\ Len(e.infos) \in 0 .. MaxInfos
      <4> HIDE DEF Short, Good
      <4>1. MaxInfos \in Int BY <1>0
      <4> QED BY <1>4, <3>1, <4>1, MdbListed
    <3> QED BY <2>1, <3>2 DEF MdbNested
  <2>2. CASE e \in [tag : {"Other", "Malformed"}, infos : {<<Mdb!Whole(1, Mdb!SomeSource)>>}]
    <3>1. e.infos = <<Mdb!Whole(1, Mdb!SomeSource)>> BY <2>2
    <3>2. e.infos \in Seq(MdbInfos) /\ Len(e.infos) = 1 BY <1>5, <1>6, <3>1
    <3> QED BY <1>0, <2>2, <3>2 DEF MdbNested
  <2> QED BY <2>1, <2>2 DEF Mdb!SomeEntries
<1>8. Good(h)
  <2>1. h.entries \in Mdb!Lists(Mdb!SomeEntries, MaxInfos) BY DEF Mdb!FirstAttrs
  <2>2. Mdb!SomeEntries \subseteq MdbNested BY <1>7
  <2>3. /\ h.entries \in Seq(MdbNested) /\ h.entries \in Seq(Mdb!SomeEntries)
        /\ Len(h.entries) <= MaxInfos
    <3> HIDE DEF Short, Good
    <3>1. MaxInfos \in Int BY <1>0
    <3>2. h.entries \in Seq(MdbNested) /\ Len(h.entries) \in 0 .. MaxInfos
      BY <2>1, <2>2, <3>1, MdbListed
    <3>3. h.entries \in Seq(Mdb!SomeEntries) BY <2>1, <3>1, MdbListed
    <3> QED BY <3>2, <3>3
  <2>4. \A j \in 1 .. Len(h.entries) : h.entries[j] \in Mdb!SomeEntries BY <2>3
  <2>5. \A j \in 1 .. Len(h.entries) : Len(h.entries[j].infos) <= MaxInfos BY <1>7, <2>4
  <2>6. h \in MdbAttrs BY <2>3 DEF Mdb!FirstAttrs, MdbAttrs
  <2> QED BY <2>3, <2>5, <2>6
<1>9. ASSUME NEW a \in Mdb!LaterAttrs PROVE Good(a)
  <2>1. ASSUME a.entries \in Seq(MdbNested), Len(a.entries) <= 1,
               \A j \in 1 .. Len(a.entries) : Len(a.entries[j].infos) <= 1
        PROVE  Good(a)
    <3>1. a \in MdbAttrs BY <2>1 DEF Mdb!LaterAttrs, MdbAttrs
    <3>2. ASSUME NEW j \in 1 .. Len(a.entries) PROVE Len(a.entries[j].infos) <= MaxInfos
      <4>1. a.entries[j] \in MdbNested BY <2>1
      <4>2. Len(a.entries[j].infos) \in Nat BY <4>1 DEF MdbNested
      <4> QED BY <1>0, <2>1, <4>2
    <3> QED BY <1>0, <2>1, <3>1, <3>2
  <2>2. CASE a.entries = <<>> BY <2>1, <2>2
  <2>3. ASSUME NEW e \in MdbNested, Len(e.infos) <= 1, a.entries = <<e>> PROVE Good(a)
    BY <2>1, <2>3
  <2>4. CASE a.entries = <<[tag |-> "Malformed", infos |-> <<>>]>>
    <3>1. [tag |-> "Malformed", infos |-> <<>>] \in MdbNested BY DEF MdbNested
    <3> QED BY <2>3, <2>4, <3>1
  <2>5. CASE a.entries = <<[tag |-> "Entry", infos |-> <<Mdb!Whole(2, <<>>)>>]>>
    <3> DEFINE w == Mdb!Whole(2, <<>>)
    <3>1. w \in Mdb!SomeInfos BY <1>5
    <3> HIDE DEF w
    <3>2. <<w>> \in Seq(MdbInfos) /\ Len(<<w>>) = 1 BY <1>6, <3>1
    <3> DEFINE e == [tag |-> "Entry", infos |-> <<w>>]
    <3>3. e \in MdbNested /\ e.infos = <<w>> BY <3>2 DEF MdbNested
    <3>4. a.entries = <<e>> BY <2>5 DEF w
    <3> HIDE DEF Good, e
    <3>5. Len(e.infos) <= 1 BY <3>2, <3>3
    <3> QED BY <2>3, <3>3, <3>4, <3>5
  <2>6. a.entries \in Mdb!FewEntries BY DEF Mdb!LaterAttrs
  <2> QED BY <2>2, <2>4, <2>5, <2>6 DEF Mdb!FewEntries
<1> HIDE DEF Good, Short
<1>12. rest \in Seq(Mdb!LaterAttrs) /\ h \in MdbAttrs /\ Good(h)
  <2>1. MaxAttrs - 1 \in Int BY <1>0
  <2>2. rest \in Seq(Mdb!LaterAttrs) BY <2>1, MdbListed
  <2>3. Good(h) BY <1>8
  <2> QED BY <2>2, <2>3 DEF Good
<1>13. rest \in Seq(MdbAttrs) /\ \A k \in 1 .. Len(rest) : Good(rest[k])
  <2>1. \A a \in Mdb!LaterAttrs : a \in MdbAttrs BY <1>9 DEF Good
  <2> QED BY <1>9, <1>12, <2>1
<1>14. /\ msg \in Seq(MdbAttrs)
       /\ \A k \in 1 .. Len(msg) :
            (k = 1 /\ msg[k] = h) \/ (k - 1 \in 1 .. Len(rest) /\ msg[k] = rest[k - 1])
  <2>1. <<h>> \in Seq(MdbAttrs) /\ Len(<<h>>) = 1 /\ <<h>>[1] = h BY <1>12
  <2>2. /\ msg \in Seq(MdbAttrs) /\ Len(msg) = 1 + Len(rest) /\ Len(rest) \in Nat
        /\ \A k \in 1 .. Len(msg) : msg[k] = IF k <= 1 THEN <<h>>[k] ELSE rest[k - 1]
    BY <1>13, <2>1
  <2> QED BY <2>1, <2>2
<1>15. \A k \in 1 .. Len(msg) : Good(msg[k]) BY <1>12, <1>13, <1>14
<1> QED BY <1>14, <1>15 DEF MdbMessage, Good

(* Before the first attribute nothing is passed and nothing returned.      *)
LEMMA MdbInit == Mdb!Init => MdbInv
<1> SUFFICES ASSUME Mdb!Init PROVE MdbInv OBVIOUS
<1>1. /\ level = "attributes" /\ out = <<>> /\ source = "None" /\ dst = "None" /\ vni = "None"
      /\ at = [attributes |-> 1, entries |-> 1, infos |-> 1, eattrs |-> 1]
  BY DEF Mdb!Init
<1>2. MdbMessage BY MdbOneInfo, MdbShapes DEF Mdb!Init
<1>3. at \in MdbAts /\ at.attributes = 1 BY <1>1 DEF MdbAts
<1>4. MdbTypes BY <1>1, <1>2, <1>3 DEF MdbTypes, Mdb!Maybe
<1>5. MdbPlaces /\ MdbLocals
  BY <1>1, <1>2, <1>3 DEF MdbPlaces, MdbLocals, MdbMessage, InEntries, InInfos
<1>6. MdbDone = {}
  <2>1. \A p \in Mdb!InfosOf : p[1] \in 1 .. Len(msg) BY <1>2, InfoPlace
  <2> QED BY <1>1, <1>3, <2>1 DEF MdbDone, MdbPassed, InEntries
<1>7. Selected(out, MdbDone, MdbUpTo, MdbValue) BY <1>1, <1>6, FS_EmptySet DEF Selected
<1> QED BY <1>4, <1>5, <1>7 DEF MdbInv

(* Where the loops stand, their lists are lists.                           *)
LEMMA MdbHere ==
  ASSUME MdbTypes, MdbPlaces
  PROVE  /\ at.attributes \in Nat \ {0} /\ at.entries \in Nat \ {0}
         /\ at.infos \in Nat \ {0} /\ at.eattrs \in Nat \ {0}
         /\ msg \in Seq(MdbAttrs) /\ Len(msg) \in Nat /\ MaxInfos \in Nat
         /\ InEntries => /\ at.attributes \in 1 .. Len(msg) /\ EntriesHere \in Seq(MdbNested)
                         /\ Len(EntriesHere) \in Nat /\ Len(EntriesHere) <= MaxInfos
         /\ InInfos => /\ at.entries \in 1 .. Len(EntriesHere) /\ InfosHere \in Seq(MdbInfos)
                       /\ Len(InfosHere) \in Nat /\ Len(InfosHere) <= MaxInfos
         /\ level = "eattrs" => /\ at.infos \in 1 .. Len(InfosHere)
                                /\ InfosHere[at.infos] \in MdbInfos
                                /\ EattrsHere \in Seq(Mdb!Eattrs) /\ Len(EattrsHere) \in Nat
<1>1. /\ at.attributes \in Nat \ {0} /\ at.entries \in Nat \ {0}
      /\ at.infos \in Nat \ {0} /\ at.eattrs \in Nat \ {0}
  BY DEF MdbTypes, MdbAts
<1>2. MdbMessage BY DEF MdbTypes
<1>3. msg \in Seq(MdbAttrs) /\ Len(msg) \in Nat /\ MaxInfos \in Nat
  BY <1>2, MdbTyped, BoundsAssumption
<1>4. InEntries => /\ at.attributes \in 1 .. Len(msg) /\ EntriesHere \in Seq(MdbNested)
                   /\ Len(EntriesHere) \in Nat /\ Len(EntriesHere) <= MaxInfos
  <2> SUFFICES ASSUME InEntries
               PROVE  /\ at.attributes \in 1 .. Len(msg) /\ EntriesHere \in Seq(MdbNested)
                      /\ Len(EntriesHere) \in Nat /\ Len(EntriesHere) <= MaxInfos
    OBVIOUS
  <2>1. at.attributes \in 1 .. Len(msg) BY <1>1, <1>3 DEF MdbPlaces
  <2>2. EntriesHere \in Seq(MdbNested) /\ Len(EntriesHere) <= MaxInfos
    BY <1>2, <2>1, MdbTyped DEF EntriesHere
  <2> QED BY <2>1, <2>2
<1>5. InInfos => /\ at.entries \in 1 .. Len(EntriesHere) /\ InfosHere \in Seq(MdbInfos)
                 /\ Len(InfosHere) \in Nat /\ Len(InfosHere) <= MaxInfos
  <2> SUFFICES ASSUME InInfos
               PROVE  /\ at.entries \in 1 .. Len(EntriesHere) /\ InfosHere \in Seq(MdbInfos)
                      /\ Len(InfosHere) \in Nat /\ Len(InfosHere) <= MaxInfos
    OBVIOUS
  <2>1. at.attributes \in 1 .. Len(msg) /\ Len(EntriesHere) \in Nat
    BY <1>4 DEF InEntries, InInfos
  <2>2. at.entries \in 1 .. Len(EntriesHere) BY <1>1, <2>1 DEF MdbPlaces
  <2>3. InfosHere \in Seq(MdbInfos) /\ Len(InfosHere) <= MaxInfos
    BY <1>2, <2>1, <2>2, MdbTyped DEF InfosHere, EntriesHere
  <2> QED BY <2>2, <2>3
<1>6. level = "eattrs" => /\ at.infos \in 1 .. Len(InfosHere)
                          /\ InfosHere[at.infos] \in MdbInfos
                          /\ EattrsHere \in Seq(Mdb!Eattrs) /\ Len(EattrsHere) \in Nat
  <2> SUFFICES ASSUME level = "eattrs"
               PROVE  /\ at.infos \in 1 .. Len(InfosHere) /\ InfosHere[at.infos] \in MdbInfos
                      /\ EattrsHere \in Seq(Mdb!Eattrs) /\ Len(EattrsHere) \in Nat
    OBVIOUS
  <2>1. InfosHere \in Seq(MdbInfos) /\ Len(InfosHere) \in Nat BY <1>5 DEF InInfos
  <2>2. at.infos \in 1 .. Len(InfosHere) BY <1>1, <2>1 DEF MdbPlaces
  <2>3. InfosHere[at.infos] \in MdbInfos BY <2>1, <2>2
  <2>4. EattrsHere \in Seq(Mdb!Eattrs) BY <2>3 DEF EattrsHere, MdbInfos
  <2> QED BY <2>2, <2>3, <2>4
<1> QED BY <1>1, <1>3, <1>4, <1>5, <1>6

(* NlasIterator::next: one place on, or to the end behind something        *)
(* malformed, where nothing counts.                                        *)
LEMMA IteratorStep ==
  ASSUME NEW T, NEW list \in Seq(T), NEW n \in 1 .. Len(list), Standing(list, n),
         NEW m, m = IF list[n].tag = "Malformed" THEN Len(list) + 1 ELSE n + 1
  PROVE  /\ Standing(list, m) /\ m \in Nat \ {0}
         /\ \A k \in Mdb!Front(list) : k # n => (k < m <=> k < n)
<1>1. n \in Nat /\ Len(list) \in Nat /\ n <= Len(list) OBVIOUS
<1>2. \A k \in 1 .. n - 1 : list[k].tag # "Malformed" BY <1>1 DEF Standing
<1>3. CASE list[n].tag = "Malformed"
  <2>1. m = Len(list) + 1 BY <1>3
  <2>2. ASSUME NEW k \in Mdb!Front(list) PROVE k < m /\ k < n
    <3>1. k \in 1 .. Len(list) /\ \A j \in 1 .. k : list[j].tag # "Malformed" BY DEF Mdb!Front
    <3>2. n \notin 1 .. k BY <1>3, <3>1
    <3> QED BY <1>1, <2>1, <3>1, <3>2
  <2> QED BY <1>1, <2>1, <2>2 DEF Standing
<1>4. CASE list[n].tag # "Malformed"
  <2>1. m = n + 1 BY <1>4
  <2>2. \A k \in 1 .. m - 1 : k \in 1 .. n - 1 \/ k = n BY <1>1, <2>1
  <2>3. Standing(list, m) BY <1>1, <1>2, <1>4, <2>1, <2>2 DEF Standing
  <2>4. \A k \in Mdb!Front(list) : k \in Nat BY DEF Mdb!Front
  <2> QED BY <1>1, <2>1, <2>3, <2>4
<1> QED BY <1>3, <1>4

(* The loops move on without an entry: no info was passed.                 *)
LEMMA MdbMoves ==
  ASSUME MdbInv, UNCHANGED <<msg, out>>,
         \A p \in Mdb!InfosOf : MdbPassed(p)' <=> MdbPassed(p)
  PROVE  Selected(out, MdbDone, MdbUpTo, MdbValue)'
<1>1. Mdb!InfosOf' = Mdb!InfosOf /\ MdbUpTo' = MdbUpTo /\ MdbValue' = MdbValue BY MdbSame
<1>2. MdbDone' = MdbDone BY <1>1 DEF MdbDone
<1>3. Selected(out, MdbDone, MdbUpTo, MdbValue) BY DEF MdbInv
<1> QED BY <1>1, <1>2, <1>3 DEF Selected

(* The variables of the loops keep their types.                            *)
LEMMA MdbTypesKept ==
  ASSUME MdbTypes, UNCHANGED <<msg, out>>, at' \in MdbAts,
         level' \in {"attributes", "entries", "infos", "eattrs", "done"},
         UNCHANGED <<source, dst, vni>>
  PROVE  MdbTypes'
BY DEF MdbTypes, MdbMessage

(* A loop that skips an attribute, an entry or an info passes no info that *)
(* should give an entry; a malformed one spends the loop.                  *)
LEMMA MdbSkips == ASSUME MdbInv, Mdb!Skip PROVE MdbInv'
<1> USE DEF MdbInv
<1>0. /\ UNCHANGED <<msg, level, source, dst, vni, out>> /\ MdbMessage /\ at \in MdbAts
      /\ level \in {"attributes", "entries", "infos"}
  BY DEF Mdb!Skip, MdbTypes
<1>1. CASE level = "attributes"
  <2>1. /\ at.attributes <= Len(msg) /\ msg[at.attributes].tag # "MdbEntry"
        /\ at' = [at EXCEPT !.attributes =
                    IF msg[at.attributes].tag = "Malformed" THEN Len(msg) + 1 ELSE @ + 1]
    BY <1>0, <1>1 DEF Mdb!Skip, Mdb!Step, Mdb!Here, Mdb!More, Mdb!Wanted, Mdb!Listed, MdbAts
  <2>2. at.attributes \in 1 .. Len(msg) /\ msg \in Seq(MdbAttrs) BY <2>1, MdbHere
  <2>3. msg[at.attributes].tag # "Malformed"
    <3>1. msg[at.attributes] \in MdbAttrs BY <2>2
    <3> QED BY <3>1 DEF MdbAttrs
  <2>4. at'.attributes = at.attributes + 1 /\ at' \in MdbAts
    BY <1>0, <2>1, <2>3 DEF MdbAts
  <2>5. MdbTypes' BY <1>0, <2>4, MdbTypesKept
  <2>6. MdbPlaces' /\ MdbLocals'
    BY <1>0, <1>1, <2>2, <2>4 DEF MdbPlaces, MdbLocals, InEntries, InInfos
  <2>7. ASSUME NEW p \in Mdb!InfosOf PROVE MdbPassed(p)' <=> MdbPassed(p)
    <3>1. p[1] \in Nat /\ msg[p[1]].tag = "MdbEntry" BY <1>0, InfoPlace
    <3>2. p[1] # at.attributes BY <2>1, <3>1
    <3> QED BY <1>0, <1>1, <2>2, <2>4, <3>1, <3>2 DEF MdbPassed, InEntries
  <2>8. Selected(out, MdbDone, MdbUpTo, MdbValue)' BY <1>0, <2>7, MdbMoves
  <2> QED BY <2>5, <2>6, <2>8
<1>2. CASE level = "entries"
  <2> DEFINE m == IF EntriesHere[at.entries].tag = "Malformed" THEN Len(EntriesHere) + 1
                  ELSE at.entries + 1
  <2>1. /\ at.entries <= Len(EntriesHere) /\ EntriesHere[at.entries].tag # "Entry"
        /\ at' = [at EXCEPT !.entries = m]
    BY <1>0, <1>2
    DEF Mdb!Skip, Mdb!Step, Mdb!Here, Mdb!More, Mdb!Wanted, Mdb!Listed, MdbAts, EntriesHere
  <2>2. /\ at.entries \in 1 .. Len(EntriesHere) /\ EntriesHere \in Seq(MdbNested)
        /\ at.attributes \in 1 .. Len(msg)
    BY <1>2, <2>1, MdbHere DEF InEntries
  <2>3. Standing(EntriesHere, at.entries) BY <1>2 DEF MdbPlaces, InEntries
  <2>4. /\ Standing(EntriesHere, m) /\ m \in Nat \ {0}
        /\ \A k \in Mdb!Front(EntriesHere) : k # at.entries => (k < m <=> k < at.entries)
    BY <2>2, <2>3, IteratorStep
  <2> HIDE DEF m
  <2>5. at' \in MdbAts /\ at'.attributes = at.attributes /\ at'.entries = m
    BY <1>0, <2>1, <2>4 DEF MdbAts
  <2>6. MdbTypes' BY <1>0, <2>5, MdbTypesKept
  <2>7. EntriesHere' = EntriesHere BY <1>0, <2>5 DEF EntriesHere
  <2>8. MdbPlaces'
    BY <1>0, <1>2, <2>4, <2>5, <2>7 DEF MdbPlaces, InEntries, InInfos, Standing
  <2>9. MdbLocals' BY <1>0, <1>2 DEF MdbLocals
  <2>10. ASSUME NEW p \in Mdb!InfosOf PROVE MdbPassed(p)' <=> MdbPassed(p)
    <3>1. /\ p[1] \in Nat /\ p[2] \in Nat /\ p[2] \in Mdb!Front(msg[p[1]].entries)
          /\ msg[p[1]].entries[p[2]].tag = "Entry"
      BY <1>0, InfoPlace
    <3>2. p[1] = at.attributes => (p[2] < m <=> p[2] < at.entries)
      BY <2>1, <2>4, <3>1 DEF EntriesHere
    <3> QED BY <1>0, <1>2, <2>5, <3>2 DEF MdbPassed, InEntries, InInfos
  <2>11. Selected(out, MdbDone, MdbUpTo, MdbValue)' BY <1>0, <2>10, MdbMoves
  <2> QED BY <2>6, <2>8, <2>9, <2>11
<1>3. CASE level = "infos"
  <2> DEFINE m == IF InfosHere[at.infos].tag = "Malformed" THEN Len(InfosHere) + 1
                  ELSE at.infos + 1
  <2>1. /\ at.infos <= Len(InfosHere)
        /\ ~(InfosHere[at.infos].tag = "Info" /\ InfosHere[at.infos].size >= 28)
        /\ at' = [at EXCEPT !.infos = m]
    BY <1>0, <1>3
    DEF Mdb!Skip, Mdb!Step, Mdb!Here, Mdb!More, Mdb!Wanted, Mdb!Listed, MdbAts, InfosHere,
        EntriesHere
  <2>2. /\ at.infos \in 1 .. Len(InfosHere) /\ InfosHere \in Seq(MdbInfos)
        /\ at.attributes \in 1 .. Len(msg) /\ at.entries \in 1 .. Len(EntriesHere)
    BY <1>3, <2>1, MdbHere DEF InEntries, InInfos
  <2>3. Standing(InfosHere, at.infos) BY <1>3 DEF MdbPlaces, InInfos
  <2>4. /\ Standing(InfosHere, m) /\ m \in Nat \ {0}
        /\ \A k \in Mdb!Front(InfosHere) : k # at.infos => (k < m <=> k < at.infos)
    BY <2>2, <2>3, IteratorStep
  <2> HIDE DEF m
  <2>5. /\ at' \in MdbAts /\ at'.attributes = at.attributes /\ at'.entries = at.entries
        /\ at'.infos = m
    BY <1>0, <2>1, <2>4 DEF MdbAts
  <2>6. MdbTypes' BY <1>0, <2>5, MdbTypesKept
  <2>7. EntriesHere' = EntriesHere /\ InfosHere' = InfosHere
    BY <1>0, <2>5 DEF EntriesHere, InfosHere
  <2>8. MdbPlaces'
    BY <1>0, <1>3, <2>4, <2>5, <2>7 DEF MdbPlaces, InEntries, InInfos, Standing
  <2>9. MdbLocals' BY <1>0, <1>3 DEF MdbLocals
  <2>10. ASSUME NEW p \in Mdb!InfosOf PROVE MdbPassed(p)' <=> MdbPassed(p)
    <3>1. /\ p[3] \in Mdb!Front(msg[p[1]].entries[p[2]].infos)
          /\ msg[p[1]].entries[p[2]].infos[p[3]].tag = "Info"
          /\ msg[p[1]].entries[p[2]].infos[p[3]].size >= 28
      BY <1>0, InfoPlace
    <3>2. (p[1] = at.attributes /\ p[2] = at.entries) => (p[3] < m <=> p[3] < at.infos)
      BY <2>1, <2>4, <3>1 DEF EntriesHere, InfosHere
    <3> QED BY <1>0, <1>3, <2>5, <3>2 DEF MdbPassed, InEntries, InInfos
  <2>11. Selected(out, MdbDone, MdbUpTo, MdbValue)' BY <1>0, <2>10, MdbMoves
  <2> QED BY <2>6, <2>8, <2>9, <2>11
<1> QED BY <1>0, <1>1, <1>2, <1>3

(* A loop is entered at its first element, where nothing has been passed.  *)
LEMMA MdbEnters ==
  ASSUME MdbInv, Mdb!EnterAttribute \/ Mdb!EnterEntry \/ Mdb!EnterInfo PROVE MdbInv'
<1> USE DEF MdbInv
<1>0. UNCHANGED <<msg, out>> /\ MdbMessage /\ at \in MdbAts /\ MdbTypes
  BY DEF Mdb!EnterAttribute, Mdb!EnterEntry, Mdb!EnterInfo, MdbTypes
<1>1. CASE Mdb!EnterAttribute
  <2>1. /\ level = "attributes" /\ level' = "entries" /\ UNCHANGED <<source, dst, vni>>
        /\ at.attributes <= Len(msg) /\ msg[at.attributes].tag = "MdbEntry"
        /\ at' = [at EXCEPT !.entries = 1]
    BY <1>0, <1>1
    DEF Mdb!EnterAttribute, Mdb!Here, Mdb!More, Mdb!Wanted, Mdb!Listed, MdbAts
  <2>2. at' \in MdbAts /\ at'.attributes = at.attributes /\ at'.entries = 1
    BY <1>0, <2>1 DEF MdbAts
  <2>3. MdbTypes' BY <1>0, <2>1, <2>2, MdbTypesKept
  <2>4. Len(EntriesHere') \in Nat
    <3>1. at.attributes \in 1 .. Len(msg) BY <2>1, MdbHere
    <3>2. EntriesHere \in Seq(MdbNested) BY <1>0, <3>1, MdbTyped DEF EntriesHere
    <3>3. EntriesHere' = EntriesHere BY <1>0, <2>2 DEF EntriesHere
    <3> QED BY <3>2, <3>3
  <2>5. MdbPlaces' /\ MdbLocals'
    BY <1>0, <2>1, <2>2, <2>4 DEF MdbPlaces, MdbLocals, InEntries, InInfos, Standing
  <2>6. ASSUME NEW p \in Mdb!InfosOf PROVE MdbPassed(p)' <=> MdbPassed(p)
    <3>1. p[2] \in Nat /\ p[2] > 0 BY <1>0, InfoPlace
    <3> QED BY <1>0, <2>1, <2>2, <3>1 DEF MdbPassed, InEntries, InInfos
  <2>7. Selected(out, MdbDone, MdbUpTo, MdbValue)' BY <1>0, <2>6, MdbMoves
  <2> QED BY <2>3, <2>5, <2>7
<1>2. CASE Mdb!EnterEntry
  <2>1. /\ level = "entries" /\ level' = "infos" /\ UNCHANGED <<source, dst, vni>>
        /\ at.entries <= Len(EntriesHere) /\ EntriesHere[at.entries].tag = "Entry"
        /\ at' = [at EXCEPT !.infos = 1]
    BY <1>0, <1>2
    DEF Mdb!EnterEntry, Mdb!Here, Mdb!More, Mdb!Wanted, Mdb!Listed, MdbAts, EntriesHere
  <2>2. /\ at' \in MdbAts /\ at'.attributes = at.attributes /\ at'.entries = at.entries
        /\ at'.infos = 1
    BY <1>0, <2>1 DEF MdbAts
  <2>3. MdbTypes' BY <1>0, <2>1, <2>2, MdbTypesKept
  <2>4. EntriesHere' = EntriesHere /\ InfosHere' = InfosHere
    BY <1>0, <2>2 DEF EntriesHere, InfosHere
  <2>5. Len(InfosHere) \in Nat
    <3>1. at.entries \in 1 .. Len(EntriesHere) /\ at.attributes \in 1 .. Len(msg)
      BY <2>1, MdbHere DEF InEntries
    <3>2. InfosHere \in Seq(MdbInfos) BY <1>0, <3>1, MdbTyped DEF EntriesHere, InfosHere
    <3> QED BY <3>2
  <2>6. MdbPlaces' /\ MdbLocals'
    BY <1>0, <2>1, <2>2, <2>4, <2>5 DEF MdbPlaces, MdbLocals, InEntries, InInfos, Standing
  <2>7. ASSUME NEW p \in Mdb!InfosOf PROVE MdbPassed(p)' <=> MdbPassed(p)
    <3>1. p[3] \in Nat /\ p[3] > 0 BY <1>0, InfoPlace
    <3> QED BY <1>0, <2>1, <2>2, <3>1 DEF MdbPassed, InEntries, InInfos
  <2>8. Selected(out, MdbDone, MdbUpTo, MdbValue)' BY <1>0, <2>7, MdbMoves
  <2> QED BY <2>3, <2>6, <2>8
<1>3. CASE Mdb!EnterInfo
  <2>1. /\ level = "infos" /\ level' = "eattrs"
        /\ source' = "None" /\ dst' = "None" /\ vni' = "None"
        /\ at.infos <= Len(InfosHere) /\ InfosHere[at.infos].tag = "Info"
        /\ InfosHere[at.infos].size >= 28
        /\ at' = [at EXCEPT !.eattrs = 1]
    BY <1>0, <1>3
    DEF Mdb!EnterInfo, Mdb!Here, Mdb!More, Mdb!Wanted, Mdb!Listed, MdbAts, EntriesHere,
        InfosHere
  <2>2. /\ at' \in MdbAts /\ at'.attributes = at.attributes /\ at'.entries = at.entries
        /\ at'.infos = at.infos /\ at'.eattrs = 1
    BY <1>0, <2>1 DEF MdbAts
  <2>3. MdbTypes' BY <1>0, <2>1, <2>2 DEF MdbTypes, MdbMessage, Mdb!Maybe
  <2>4. /\ EntriesHere' = EntriesHere /\ InfosHere' = InfosHere /\ EattrsHere' = EattrsHere
    BY <1>0, <2>2 DEF EntriesHere, InfosHere, EattrsHere
  <2>5. EattrsHere \in Seq(Mdb!Eattrs) /\ Len(EattrsHere) \in Nat
    <3>1. at.infos \in 1 .. Len(InfosHere) /\ InfosHere \in Seq(MdbInfos)
      BY <2>1, MdbHere DEF InInfos
    <3>2. InfosHere[at.infos] \in MdbInfos BY <3>1
    <3> QED BY <3>2 DEF EattrsHere, MdbInfos
  <2>6. MdbPlaces'
    BY <1>0, <2>1, <2>2, <2>4, <2>5 DEF MdbPlaces, InEntries, InInfos, Standing
  <2>7. MdbLocals'
    <3>1. \A some : FoundIn(EattrsHere, some, 1) = {} BY DEF FoundIn, Mdb!Front
    <3> QED BY <2>1, <2>2, <2>4, <3>1 DEF MdbLocals, IsLast
  <2>8. ASSUME NEW p \in Mdb!InfosOf PROVE MdbPassed(p)' <=> MdbPassed(p)
    BY <1>0, <2>1, <2>2 DEF MdbPassed, InEntries, InInfos
  <2>9. Selected(out, MdbDone, MdbUpTo, MdbValue)' BY <1>0, <2>8, MdbMoves
  <2> QED BY <2>3, <2>6, <2>7, <2>9
<1> QED BY <1>1, <1>2, <1>3

(* An inner loop is left behind its last element.                          *)
LEMMA MdbLeaves == ASSUME MdbInv, Mdb!Leave PROVE MdbInv'
<1> USE DEF MdbInv
<1>0. /\ UNCHANGED <<msg, source, dst, vni, out>> /\ MdbMessage /\ at \in MdbAts /\ MdbTypes
      /\ level \in {"entries", "infos"}
  BY DEF Mdb!Leave, MdbTypes
<1>1. CASE level = "entries"
  <2>1. /\ level' = "attributes" /\ ~(at.entries <= Len(EntriesHere))
        /\ at' = [at EXCEPT !.attributes = @ + 1]
    BY <1>0, <1>1 DEF Mdb!Leave, Mdb!More, Mdb!Listed, Mdb!Outer, EntriesHere, MdbAts
  <2>2. at.attributes \in 1 .. Len(msg) /\ Len(EntriesHere) \in Nat /\ at.entries \in Nat
    BY <1>1, MdbHere DEF InEntries
  <2>3. at' \in MdbAts /\ at'.attributes = at.attributes + 1 BY <1>0, <2>1, <2>2 DEF MdbAts
  <2>4. MdbTypes' BY <1>0, <2>1, <2>3, MdbTypesKept
  <2>5. MdbPlaces' /\ MdbLocals'
    BY <1>0, <2>1, <2>2, <2>3 DEF MdbPlaces, MdbLocals, InEntries, InInfos
  <2>6. ASSUME NEW p \in Mdb!InfosOf PROVE MdbPassed(p)' <=> MdbPassed(p)
    <3>1. p[1] \in Nat /\ p[2] \in Nat /\ p[2] \in 1 .. Len(msg[p[1]].entries)
      BY <1>0, InfoPlace
    <3>2. p[1] = at.attributes => p[2] < at.entries BY <2>1, <2>2, <3>1 DEF EntriesHere
    <3> QED BY <1>0, <1>1, <2>1, <2>2, <2>3, <3>1, <3>2 DEF MdbPassed, InEntries
  <2>7. Selected(out, MdbDone, MdbUpTo, MdbValue)' BY <1>0, <2>6, MdbMoves
  <2> QED BY <2>4, <2>5, <2>7
<1>2. CASE level = "infos"
  <2>1. /\ level' = "entries" /\ ~(at.infos <= Len(InfosHere))
        /\ at' = [at EXCEPT !.entries = @ + 1]
    BY <1>0, <1>2
    DEF Mdb!Leave, Mdb!More, Mdb!Listed, Mdb!Outer, EntriesHere, InfosHere, MdbAts
  <2>2. /\ at.entries \in 1 .. Len(EntriesHere) /\ Len(InfosHere) \in Nat
        /\ at.attributes \in 1 .. Len(msg) /\ at.infos \in Nat /\ EntriesHere \in Seq(MdbNested)
    BY <1>2, MdbHere DEF InInfos, InEntries
  <2>3. at' \in MdbAts /\ at'.attributes = at.attributes /\ at'.entries = at.entries + 1
    BY <1>0, <2>1, <2>2 DEF MdbAts
  <2>4. MdbTypes' BY <1>0, <2>1, <2>3, MdbTypesKept
  <2>5. EntriesHere' = EntriesHere BY <1>0, <2>3 DEF EntriesHere
  <2>6. Standing(EntriesHere, at.entries) /\ EntriesHere[at.entries].tag = "Entry"
    BY <1>2 DEF MdbPlaces, InEntries, InInfos
  <2>7. Standing(EntriesHere, at.entries + 1) BY <2>2, <2>6, IteratorStep
  <2>8. MdbPlaces' /\ MdbLocals'
    BY <1>0, <1>2, <2>1, <2>2, <2>3, <2>5, <2>7
    DEF MdbPlaces, MdbLocals, InEntries, InInfos, Standing
  <2>9. ASSUME NEW p \in Mdb!InfosOf PROVE MdbPassed(p)' <=> MdbPassed(p)
    <3>1. /\ p[1] \in Nat /\ p[2] \in Nat /\ p[3] \in Nat
          /\ p[3] \in 1 .. Len(msg[p[1]].entries[p[2]].infos)
      BY <1>0, InfoPlace
    <3>2. ASSUME p[1] = at.attributes, p[2] = at.entries PROVE p[3] < at.infos
      <4>1. msg[p[1]].entries[p[2]].infos = InfosHere BY <3>2 DEF EntriesHere, InfosHere
      <4> QED BY <2>1, <2>2, <3>1, <4>1
    <3> QED BY <1>0, <1>2, <2>1, <2>2, <2>3, <3>1, <3>2 DEF MdbPassed, InEntries, InInfos
  <2>10. Selected(out, MdbDone, MdbUpTo, MdbValue)' BY <1>0, <2>9, MdbMoves
  <2> QED BY <2>4, <2>8, <2>10
<1> QED BY <1>0, <1>1, <1>2

(* A value of the right length is a value.                                 *)
LEMMA MdbEattrTypes ==
  \A x \in Mdb!Eattrs : x.val # "wrong" => x.val \in Vals
BY DEF Mdb!Eattrs

(* An eattr assigns its variable, or none.                                 *)
LEMMA MdbReads == ASSUME MdbInv, Mdb!ReadEattr PROVE MdbInv'
<1> USE DEF MdbInv
<1> DEFINE x == EattrsHere[at.eattrs]
           m == IF x.tag = "Malformed" THEN Len(EattrsHere) + 1 ELSE at.eattrs + 1
<1>0. /\ UNCHANGED <<msg, level, out>> /\ MdbMessage /\ at \in MdbAts /\ MdbTypes
      /\ level = "eattrs"
  BY DEF Mdb!ReadEattr, MdbTypes
<1>1. /\ at.eattrs <= Len(EattrsHere)
      /\ source' = IF x.tag = "SOURCE" THEN Mdb!IpFromNla(x.val) ELSE source
      /\ dst' = IF x.tag = "DST" THEN Mdb!IpFromNla(x.val) ELSE dst
      /\ vni' = IF x.tag \in {"VNI", "SRC_VNI"} /\ x.val # "wrong" THEN x.val ELSE vni
      /\ at' = [at EXCEPT !.eattrs = m]
  BY <1>0 DEF Mdb!ReadEattr, Mdb!Step, Mdb!Here, Mdb!More, Mdb!Listed, EattrsHere, InfosHere,
     EntriesHere, MdbAts
<1>2. /\ at.eattrs \in 1 .. Len(EattrsHere) /\ EattrsHere \in Seq(Mdb!Eattrs)
  BY <1>0, <1>1, MdbHere
<1>3. x \in Mdb!Eattrs BY <1>2
<1>4. Standing(EattrsHere, at.eattrs) BY <1>0 DEF MdbPlaces
<1>5. Standing(EattrsHere, m) /\ m \in Nat \ {0} BY <1>2, <1>4, IteratorStep
<1>6. /\ IsLast(source', EattrsHere, MdbSources, m)
      /\ IsLast(dst', EattrsHere, MdbDsts, m)
      /\ IsLast(vni', EattrsHere, MdbVnis, m)
  <2>1. /\ IsLast(source, EattrsHere, MdbSources, at.eattrs)
        /\ IsLast(dst, EattrsHere, MdbDsts, at.eattrs)
        /\ IsLast(vni, EattrsHere, MdbVnis, at.eattrs)
    BY <1>0 DEF MdbLocals
  <2>2. /\ \A y \in MdbSources : y.tag # "Malformed"
        /\ \A y \in MdbDsts : y.tag # "Malformed"
        /\ \A y \in MdbVnis : y.tag # "Malformed"
    BY DEF MdbSources, MdbDsts, MdbVnis, Mdb!Tagged, Mdb!Right
  <2>3. x \in MdbSources <=> x.tag = "SOURCE" BY <1>3 DEF MdbSources, Mdb!Tagged
  <2>4. x \in MdbDsts <=> x.tag = "DST" BY <1>3 DEF MdbDsts, Mdb!Tagged
  <2>5. x \in MdbVnis <=> (x.tag \in {"VNI", "SRC_VNI"} /\ x.val # "wrong")
    BY <1>3 DEF MdbVnis, Mdb!Tagged, Mdb!Right
  <2>6. vni' = IF x \in MdbVnis THEN Mdb!IpFromNla(x.val) ELSE vni
    BY <1>1, <2>5 DEF Mdb!IpFromNla
  <2>7. IsLast(source', EattrsHere, MdbSources, m)
    BY <1>1, <1>2, <1>4, <2>1, <2>2, <2>3, LastStep
  <2>8. IsLast(dst', EattrsHere, MdbDsts, m)
    BY <1>1, <1>2, <1>4, <2>1, <2>2, <2>4, LastStep
  <2>9. IsLast(vni', EattrsHere, MdbVnis, m)
    BY <1>2, <1>4, <2>1, <2>2, <2>6, LastStep
  <2> QED BY <2>7, <2>8, <2>9
<1> HIDE DEF m
<1>7. /\ at' \in MdbAts /\ at'.attributes = at.attributes /\ at'.entries = at.entries
      /\ at'.infos = at.infos /\ at'.eattrs = m
  BY <1>0, <1>1, <1>5 DEF MdbAts
<1>8. /\ EntriesHere' = EntriesHere /\ InfosHere' = InfosHere /\ EattrsHere' = EattrsHere
  BY <1>0, <1>7 DEF EntriesHere, InfosHere, EattrsHere
<1>9. MdbTypes'
  <2>1. Mdb!IpFromNla(x.val) \in Mdb!Maybe /\ (x.val # "wrong" => x.val \in Mdb!Maybe)
    BY <1>3, MdbEattrTypes DEF Mdb!IpFromNla, Mdb!Maybe
  <2> HIDE DEF x
  <2>2. source' \in Mdb!Maybe /\ dst' \in Mdb!Maybe /\ vni' \in Mdb!Maybe
    BY <1>0, <1>1, <2>1 DEF MdbTypes
  <2> QED BY <1>0, <1>7, <2>2 DEF MdbTypes, MdbMessage
<1>10. MdbPlaces'
  BY <1>0, <1>5, <1>7, <1>8 DEF MdbPlaces, InEntries, InInfos, Standing
<1>11. MdbLocals' BY <1>6, <1>7, <1>8 DEF MdbLocals
<1>12. ASSUME NEW p \in Mdb!InfosOf PROVE MdbPassed(p)' <=> MdbPassed(p)
  BY <1>0, <1>7 DEF MdbPassed, InEntries, InInfos
<1>13. Selected(out, MdbDone, MdbUpTo, MdbValue)' BY <1>0, <1>12, MdbMoves
<1> QED BY <1>9, <1>10, <1>11, <1>13

(* The end of the eattrs: the info that the loops stand at counts, and its *)
(* entry is the one expected of it.                                        *)
LEMMA MdbPushes == ASSUME MdbInv, Mdb!PushEntry PROVE MdbInv'
<1> USE DEF MdbInv
<1> DEFINE info == InfosHere[at.infos]
           p == <<at.attributes, at.entries, at.infos>>
           new == [fixed |-> info.fixed, group |-> Mdb!MdbGroup(info.proto),
                   source |-> source, dst |-> dst, vni |-> vni]
<1>0. /\ UNCHANGED <<msg, source, dst, vni>> /\ MdbMessage /\ at \in MdbAts /\ MdbTypes
      /\ level = "eattrs" /\ level' = "infos"
  BY DEF Mdb!PushEntry, MdbTypes
<1>1. /\ ~(at.eattrs <= Len(EattrsHere)) /\ out' = Append(out, new)
      /\ at' = [at EXCEPT !.infos = @ + 1]
  BY <1>0 DEF Mdb!PushEntry, Mdb!More, Mdb!Listed, EattrsHere, InfosHere, EntriesHere, MdbAts
<1>2. /\ at.attributes \in 1 .. Len(msg) /\ at.entries \in 1 .. Len(EntriesHere)
      /\ at.infos \in 1 .. Len(InfosHere) /\ info \in MdbInfos
      /\ EattrsHere \in Seq(Mdb!Eattrs) /\ Len(EattrsHere) \in Nat /\ at.eattrs \in Nat
      /\ Len(EntriesHere) \in Nat /\ Len(EntriesHere) <= MaxInfos
      /\ Len(InfosHere) \in Nat /\ Len(InfosHere) <= MaxInfos /\ MaxInfos \in Nat
      /\ InfosHere \in Seq(MdbInfos)
  BY <1>0, MdbHere DEF InEntries, InInfos
<1>3. /\ msg[at.attributes].tag = "MdbEntry"
      /\ Standing(EntriesHere, at.entries) /\ EntriesHere[at.entries].tag = "Entry"
      /\ Standing(InfosHere, at.infos) /\ info.tag = "Info" /\ info.size >= 28
      /\ Standing(EattrsHere, at.eattrs)
  BY <1>0 DEF MdbPlaces, InEntries, InInfos
<1>4. at.eattrs = Len(EattrsHere) + 1 BY <1>1, <1>2, <1>3 DEF Standing
<1>5. new = Mdb!Expected(info)
  <2>1. /\ source = Mdb!IpFromNla(Mdb!LastVal(EattrsHere, MdbSources))
        /\ dst = Mdb!IpFromNla(Mdb!LastVal(EattrsHere, MdbDsts))
        /\ vni = Mdb!IpFromNla(Mdb!LastVal(EattrsHere, MdbVnis))
    BY <1>0, <1>2, <1>4, LastIs DEF MdbLocals
  <2>2. Mdb!LastVal(EattrsHere, MdbVnis) # "wrong"
    <3> DEFINE found == {k \in Mdb!Front(EattrsHere) : EattrsHere[k] \in MdbVnis}
               c == CHOOSE k \in found : \A j \in found : j <= k
    <3>1. Mdb!LastVal(EattrsHere, MdbVnis) = IF found = {} THEN "None" ELSE EattrsHere[c].val
      BY DEF Mdb!LastVal
    <3>2. CASE found = {} BY <3>1, <3>2
    <3>3. CASE found # {}
      <4>1. IsLast(vni, EattrsHere, MdbVnis, at.eattrs) BY <1>0 DEF MdbLocals
      <4>2. found = FoundIn(EattrsHere, MdbVnis, at.eattrs)
        BY <1>2, <1>4 DEF FoundIn, Mdb!Front
      <4> HIDE DEF found
      <4>3. \E k \in found : \A j \in found : j <= k BY <3>3, <4>1, <4>2 DEF IsLast
      <4>4. c \in found BY <4>3
      <4> HIDE DEF c
      <4>5. EattrsHere[c] \in MdbVnis BY <4>4 DEF found
      <4> QED BY <3>1, <3>3, <4>5 DEF MdbVnis, Mdb!Right
    <3> QED BY <3>2, <3>3
  <2>3. vni = Mdb!LastVal(EattrsHere, MdbVnis) BY <2>1, <2>2 DEF Mdb!IpFromNla
  <2> QED BY <2>1, <2>3 DEF Mdb!Expected, EattrsHere, MdbSources, MdbDsts, MdbVnis
<1>6. p \in Mdb!InfosOf
  <2>1. p \in (1 .. Len(msg)) \X (1 .. MaxInfos) \X (1 .. MaxInfos) BY <1>2
  <2>2. at.entries \in Mdb!Front(EntriesHere)
    <3>1. \A k \in 1 .. at.entries : k \in 1 .. at.entries - 1 \/ k = at.entries BY <1>2
    <3>2. \A k \in 1 .. at.entries - 1 : EntriesHere[k].tag # "Malformed"
      BY <1>2, <1>3 DEF Standing
    <3>3. \A k \in 1 .. at.entries : EntriesHere[k].tag # "Malformed" BY <1>2, <1>3, <3>1, <3>2
    <3>4. at.entries \in 1 .. Len(EntriesHere) BY <1>2, <1>3
    <3> HIDE DEF EntriesHere
    <3> QED BY <3>3, <3>4 DEF Mdb!Front
  <2>3. at.infos \in Mdb!Front(InfosHere)
    <3>1. \A k \in 1 .. at.infos : k \in 1 .. at.infos - 1 \/ k = at.infos BY <1>2
    <3> QED BY <1>2, <1>3, <3>1 DEF Mdb!Front, Standing
  <2>4. p[1] = at.attributes /\ p[2] = at.entries /\ p[3] = at.infos OBVIOUS
  <2> HIDE DEF p
  <2>5. Mdb!InfoAt(p) = info BY <2>4 DEF Mdb!InfoAt, InfosHere, EntriesHere
  <2> QED BY <1>3, <2>1, <2>2, <2>3, <2>4, <2>5 DEF Mdb!InfosOf, InfosHere, EntriesHere
<1>7. MdbValue[p] = new
  <2>1. Mdb!InfoAt(p) = info BY DEF Mdb!InfoAt, InfosHere, EntriesHere
  <2> HIDE DEF p, new, info
  <2> QED BY <1>5, <1>6, <2>1 DEF MdbValue
<1>8. new \in MdbOuts
  <2>1. info.fixed \in {1, 2} BY <1>2 DEF MdbInfos
  <2>2. Mdb!MdbGroup(info.proto) \in {"V4", "V6", "Mac"} BY DEF Mdb!MdbGroup
  <2> QED BY <1>0, <2>1, <2>2 DEF MdbTypes, MdbOuts
<1>9. /\ at' \in MdbAts /\ at'.attributes = at.attributes /\ at'.entries = at.entries
      /\ at'.infos = at.infos + 1
  <2>1. at.infos + 1 \in Nat \ {0} BY <1>2
  <2>2. at' = [at EXCEPT !.infos = at.infos + 1] BY <1>0, <1>1 DEF MdbAts
  <2> QED BY <1>0, <2>1, <2>2 DEF MdbAts
<1>10. p[1] = at.attributes /\ p[2] = at.entries /\ p[3] = at.infos OBVIOUS
<1>11. \A q \in Mdb!InfosOf : /\ q = <<q[1], q[2], q[3]>> /\ q[1] \in Nat /\ q[2] \in Nat
                              /\ q[3] \in Nat
  BY <1>0, InfoPlace
<1> HIDE DEF new, info
<1>12. p \notin MdbDone
  BY <1>0, <1>2, <1>10 DEF MdbDone, MdbPassed
<1>13. ASSUME NEW q \in Mdb!InfosOf
       PROVE  MdbPassed(q)' <=> (MdbPassed(q) \/ q = p)
  <2>1. q = <<q[1], q[2], q[3]>> /\ q[1] \in Nat /\ q[2] \in Nat /\ q[3] \in Nat BY <1>11
  <2>2. q = p <=> (q[1] = at.attributes /\ q[2] = at.entries /\ q[3] = at.infos) BY <2>1
  <2>3. q[3] < at.infos + 1 <=> (q[3] < at.infos \/ q[3] = at.infos)
    <3>1. \A k, l \in Nat : k < l + 1 <=> (k < l \/ k = l) OBVIOUS
    <3>2. at.infos \in Nat BY <1>2
    <3> QED BY <2>1, <3>1, <3>2
  <2> HIDE DEF p
  <2>4. MdbPassed(q) <=> \/ q[1] < at.attributes
                         \/ /\ q[1] = at.attributes
                            /\ q[2] < at.entries \/ (q[2] = at.entries /\ q[3] < at.infos)
    BY <1>0 DEF MdbPassed, InEntries, InInfos
  <2>5. MdbPassed(q)' <=> \/ q[1] < at.attributes
                          \/ /\ q[1] = at.attributes
                             /\ q[2] < at.entries \/ (q[2] = at.entries /\ q[3] < at.infos + 1)
    BY <1>0, <1>9 DEF MdbPassed, InEntries, InInfos
  <2> QED BY <2>2, <2>3, <2>4, <2>5
<1>14. ASSUME NEW q \in Mdb!InfosOf
       PROVE  q \in MdbUpTo[p] <=> (MdbPassed(q) \/ q = p)
  <2>1. q = <<q[1], q[2], q[3]>> /\ q[1] \in Nat /\ q[2] \in Nat /\ q[3] \in Nat BY <1>11
  <2>2. q = p <=> (q[1] = at.attributes /\ q[2] = at.entries /\ q[3] = at.infos) BY <2>1
  <2>3. q[3] <= at.infos <=> (q[3] < at.infos \/ q[3] = at.infos) BY <1>2, <2>1
  <2> HIDE DEF p
  <2>4. MdbPassed(q) <=> \/ q[1] < at.attributes
                         \/ /\ q[1] = at.attributes
                            /\ q[2] < at.entries \/ (q[2] = at.entries /\ q[3] < at.infos)
    BY <1>0 DEF MdbPassed, InEntries, InInfos
  <2>5. q \in MdbUpTo[p] <=> \/ q[1] < at.attributes
                             \/ /\ q[1] = at.attributes
                                /\ q[2] < at.entries \/ (q[2] = at.entries /\ q[3] <= at.infos)
    BY <1>6, <1>10 DEF MdbUpTo, Mdb!UpTo
  <2> QED BY <2>2, <2>3, <2>4, <2>5
<1> HIDE DEF p
<1>15. MdbUpTo[p] = MdbDone \cup {p}
  <2>1. MdbUpTo[p] \subseteq Mdb!InfosOf BY <1>6 DEF MdbUpTo, Mdb!UpTo
  <2> QED BY <1>6, <1>14, <2>1 DEF MdbDone
<1>16. /\ Mdb!InfosOf' = Mdb!InfosOf /\ MdbUpTo' = MdbUpTo /\ MdbValue' = MdbValue
  BY <1>0, MdbSame
<1>17. MdbDone' = MdbDone \cup {p} BY <1>6, <1>13, <1>16 DEF MdbDone
<1>18. Selected(out, MdbDone, MdbUpTo, MdbValue)'
  <2>1. Selected(Append(out, MdbValue[p]), MdbDone \cup {p}, MdbUpTo, MdbValue)
    <3>1. out \in Seq(MdbOuts) /\ MdbValue[p] \in MdbOuts BY <1>0, <1>7, <1>8 DEF MdbTypes
    <3> QED BY <1>12, <1>15, <3>1, SelectNext
  <2>2. Selected(out', MdbDone', MdbUpTo', MdbValue') BY <1>1, <1>7, <1>16, <1>17, <2>1
  <2> QED BY <2>2 DEF Selected
<1>19. MdbTypes' BY <1>0, <1>1, <1>8, <1>9 DEF MdbTypes, MdbMessage
<1>20. EntriesHere' = EntriesHere /\ InfosHere' = InfosHere
  BY <1>0, <1>9 DEF EntriesHere, InfosHere
<1>21. Standing(InfosHere, at.infos + 1)
  <2>1. InfosHere[at.infos].tag # "Malformed" BY <1>3 DEF info
  <2>2. Standing(InfosHere, at.infos) /\ InfosHere \in Seq(MdbInfos) BY <1>2, <1>3
  <2> QED BY <1>2, <2>1, <2>2, IteratorStep
<1>22. MdbPlaces' /\ MdbLocals'
  BY <1>0, <1>9, <1>20, <1>21 DEF MdbPlaces, MdbLocals, InEntries, InInfos, Standing
<1> QED BY <1>18, <1>19, <1>22

(* The loops are through with the message.                                 *)
LEMMA MdbReturns == ASSUME MdbInv, Mdb!Return PROVE MdbInv'
<1> USE DEF MdbInv
<1>1. /\ level = "attributes" /\ level' = "done" /\ ~(at.attributes <= Len(msg))
      /\ UNCHANGED <<msg, at, source, dst, vni, out>>
  BY DEF Mdb!Return, Mdb!More, Mdb!Listed
<1>2. at \in MdbAts /\ at.attributes \in Nat /\ Len(msg) \in Nat /\ MdbMessage
  BY MdbHere DEF MdbTypes
<1>3. MdbTypes' BY <1>1, <1>2, MdbTypesKept
<1>4. MdbPlaces' /\ MdbLocals' BY <1>1, <1>2 DEF MdbPlaces, MdbLocals, InEntries, InInfos
<1>5. ASSUME NEW p \in Mdb!InfosOf PROVE MdbPassed(p)' <=> MdbPassed(p)
  BY <1>1 DEF MdbPassed, InEntries
<1>6. Selected(out, MdbDone, MdbUpTo, MdbValue)' BY <1>1, <1>5, MdbMoves
<1> QED BY <1>3, <1>4, <1>6

(* Every step of parse_mdb_entries keeps the invariant.                    *)
LEMMA MdbNext == MdbInv /\ [Mdb!Next]_(Mdb!vars) => MdbInv'
<1> SUFFICES ASSUME MdbInv, [Mdb!Next]_(Mdb!vars) PROVE MdbInv' OBVIOUS
<1>1. CASE UNCHANGED Mdb!vars
  <2>1. UNCHANGED <<msg, level, at, source, dst, vni, out>> BY <1>1 DEF Mdb!vars
  <2>2. \A p \in Mdb!InfosOf : MdbPassed(p)' <=> MdbPassed(p)
    BY <2>1 DEF MdbPassed, InEntries, InInfos
  <2>3. Selected(out, MdbDone, MdbUpTo, MdbValue)' BY <2>1, <2>2, MdbMoves
  <2>4. MdbTypes' BY <2>1 DEF MdbInv, MdbTypes, MdbMessage
  <2>5. EntriesHere' = EntriesHere /\ InfosHere' = InfosHere /\ EattrsHere' = EattrsHere
    BY <2>1 DEF EntriesHere, InfosHere, EattrsHere
  <2>6. MdbPlaces' BY <2>1, <2>5 DEF MdbInv, MdbPlaces, InEntries, InInfos, Standing
  <2>7. MdbLocals' BY <2>1, <2>5 DEF MdbInv, MdbLocals
  <2> QED BY <2>3, <2>4, <2>6, <2>7 DEF MdbInv
<1> QED BY <1>1, MdbSkips, MdbEnters, MdbLeaves, MdbReads, MdbPushes, MdbReturns DEF Mdb!Next

(* There are finitely many infos.                                          *)
LEMMA InfosFinite == ASSUME MdbMessage PROVE IsFiniteSet(Mdb!InfosOf)
<1> DEFINE A == 1 .. Len(msg)
           B == 1 .. MaxInfos
           f == [q \in A \X (B \X B) |-> <<q[1], q[2][1], q[2][2]>>]
<1>1. Len(msg) \in Nat /\ MaxInfos \in Nat BY MdbTyped, BoundsAssumption
<1>2. IsFiniteSet(A) /\ IsFiniteSet(B) BY <1>1, FS_Interval
<1>3. IsFiniteSet(A \X (B \X B))
  <2> HIDE DEF A, B
  <2>1. IsFiniteSet(B \X B) BY <1>2, FS_Product
  <2> QED BY <1>2, <2>1, FS_Product
<1>4. f \in Surjection(A \X (B \X B), A \X B \X B)
  <2> HIDE DEF A, B
  <2>1. f \in [A \X (B \X B) -> A \X B \X B] OBVIOUS
  <2>2. ASSUME NEW t \in A \X B \X B PROVE \E q \in A \X (B \X B) : f[q] = t
    <3>1. <<t[1], <<t[2], t[3]>>>> \in A \X (B \X B) /\ f[<<t[1], <<t[2], t[3]>>>>] = t OBVIOUS
    <3> QED BY <3>1
  <2> QED BY <2>1, <2>2 DEF Surjection
<1>5. IsFiniteSet(A \X B \X B)
  <2> HIDE DEF A, B, f
  <2> QED BY <1>3, <1>4, FS_Surjection
<1>6. Mdb!InfosOf \subseteq A \X B \X B BY DEF Mdb!InfosOf
<1> HIDE DEF A, B
<1> QED BY <1>5, <1>6, FS_Subset

(* At the end everything is passed: the entries are those of all readable  *)
(* infos, each from its own attributes.                                    *)
LEMMA MdbGives == MdbInv => Mdb!TypeOK /\ Mdb!ReadAsSent
<1> SUFFICES ASSUME MdbInv PROVE Mdb!TypeOK /\ Mdb!ReadAsSent OBVIOUS
<1> USE DEF MdbInv
<1>0. MdbTypes /\ MdbMessage /\ out \in Seq(MdbOuts) /\ at \in MdbAts BY DEF MdbTypes
<1>1. Mdb!TypeOK
  <2>1. level # "done" => at[level] \in 1 .. Len(Mdb!Listed(level)) + 1
    <3>1. CASE level = "attributes"
      BY <3>1, <1>0, MdbHere DEF MdbPlaces, Mdb!Listed, MdbAts
    <3>2. CASE level = "entries"
      <4>1. Mdb!Listed(level) = EntriesHere /\ at[level] = at.entries
        BY <3>2, <1>0 DEF Mdb!Listed, EntriesHere, MdbAts
      <4>2. Standing(EntriesHere, at.entries) BY <3>2 DEF MdbPlaces, InEntries
      <4>3. Len(EntriesHere) \in Nat /\ at.entries \in Nat \ {0}
        BY <3>2, MdbHere DEF InEntries
      <4> QED BY <4>1, <4>2, <4>3 DEF Standing
    <3>3. CASE level = "infos"
      <4>1. Mdb!Listed(level) = InfosHere /\ at[level] = at.infos
        BY <3>3, <1>0 DEF Mdb!Listed, EntriesHere, InfosHere, MdbAts
      <4>2. Standing(InfosHere, at.infos) BY <3>3 DEF MdbPlaces, InInfos
      <4>3. Len(InfosHere) \in Nat /\ at.infos \in Nat \ {0} BY <3>3, MdbHere DEF InInfos
      <4> QED BY <4>1, <4>2, <4>3 DEF Standing
    <3>4. CASE level = "eattrs"
      <4>1. Mdb!Listed(level) = EattrsHere /\ at[level] = at.eattrs
        BY <3>4, <1>0 DEF Mdb!Listed, EntriesHere, InfosHere, EattrsHere, MdbAts
      <4>2. Standing(EattrsHere, at.eattrs) BY <3>4 DEF MdbPlaces
      <4>3. Len(EattrsHere) \in Nat /\ at.eattrs \in Nat \ {0} BY <3>4, MdbHere
      <4> QED BY <4>1, <4>2, <4>3 DEF Standing
    <3> QED BY <3>1, <3>2, <3>3, <3>4 DEF MdbTypes
  <2>2. \A k \in 1 .. Len(out) : out[k] \in MdbOuts BY <1>0
  <2> QED BY <2>1, <2>2 DEF Mdb!TypeOK, MdbTypes, MdbOuts
<1>2. Selected(out, MdbDone, MdbUpTo, MdbValue) OBVIOUS
<1>3. MdbDone \subseteq Mdb!InfosOf BY DEF MdbDone
<1>4. IsFiniteSet(Mdb!InfosOf) BY <1>0, InfosFinite
<1>5. Len(out) = Cardinality(MdbDone) BY <1>2 DEF Selected
<1>6. Len(out) <= Cardinality(Mdb!InfosOf) BY <1>3, <1>4, <1>5, FS_Subset
<1>7. ASSUME NEW p \in Mdb!InfosOf, Cardinality(Mdb!UpTo(p)) <= Len(out)
      PROVE  out[Cardinality(Mdb!UpTo(p))] = Mdb!Expected(Mdb!InfoAt(p))
  <2>1. CASE p \in MdbDone BY <1>2, <2>1 DEF Selected, MdbUpTo, MdbValue
  <2>2. CASE p \notin MdbDone
    <3>1. MdbDone \cup {p} \subseteq Mdb!UpTo(p)
      <4>1. p[1] \in Nat /\ p[2] \in Nat /\ p[3] \in Nat BY <1>0, InfoPlace
      <4>2. p \in Mdb!UpTo(p) BY <4>1 DEF Mdb!UpTo
      <4>3. ASSUME NEW q \in MdbDone PROVE q \in Mdb!UpTo(p)
        <5>1. q \in Mdb!InfosOf /\ MdbPassed(q) /\ ~MdbPassed(p) BY <2>2 DEF MdbDone
        <5>2. q[1] \in Nat /\ q[2] \in Nat /\ q[3] \in Nat BY <1>0, <5>1, InfoPlace
        <5>3. at.attributes \in Nat /\ at.entries \in Nat /\ at.infos \in Nat BY MdbHere
        <5> QED BY <4>1, <5>1, <5>2, <5>3 DEF MdbPassed, Mdb!UpTo
      <4> QED BY <4>2, <4>3
    <3>2. IsFiniteSet(Mdb!UpTo(p)) BY <1>4, FS_Subset DEF Mdb!UpTo
    <3>3. IsFiniteSet(MdbDone) BY <1>3, <1>4, FS_Subset
    <3>4. Cardinality(MdbDone \cup {p}) = Cardinality(MdbDone) + 1 /\ Cardinality(MdbDone) \in Nat
      BY <2>2, <3>3, FS_AddElement, FS_CardinalityType
    <3>5. Cardinality(MdbDone \cup {p}) <= Cardinality(Mdb!UpTo(p)) BY <3>1, <3>2, FS_Subset
    <3>6. Cardinality(Mdb!UpTo(p)) \in Nat BY <3>2, FS_CardinalityType
    <3> QED BY <1>5, <1>7, <3>4, <3>5, <3>6
  <2> QED BY <2>1, <2>2
<1>8. ASSUME level = "done" PROVE Len(out) = Cardinality(Mdb!InfosOf)
  <2>1. at.attributes > Len(msg) /\ at.attributes \in Nat /\ Len(msg) \in Nat
    BY <1>8, MdbHere DEF MdbPlaces
  <2>2. \A p \in Mdb!InfosOf : p[1] \in 1 .. Len(msg) BY <1>0, InfoPlace
  <2>3. MdbDone = Mdb!InfosOf BY <2>1, <2>2 DEF MdbDone, MdbPassed
  <2> QED BY <1>5, <2>3
<1>9. Mdb!ReadAsSent BY <1>6, <1>7, <1>8, MdbCardinality DEF Mdb!ReadAsSent
<1> QED BY <1>1, <1>9
-----------------------------------------------------------------------------
(* VNI lists of tunnel messages (tunnel/message.rs).                       *)

(* An entry is as long as what is in it.                                   *)
TunnelEntries ==
  {e \in [tag : {"ENTRY", "Other", "Malformed"}, room : Nat, inner : Seq(Tunnel!InnerItems)] :
     e.room = 8 * Len(e.inner)}

(* The entry that emit writes for a VNI.                                   *)
OwnItem(v) == [tag |-> "START", len |-> 8, vni |-> v]

(* A VNI is in an entry of its own.                                        *)
OwnEntry(v) == [tag |-> "ENTRY", room |-> 8, inner |-> <<OwnItem(v)>>]

(* What the two loops are through with, of the message from the wire.      *)
TunnelDone == {p \in Tunnel!Starts : p[1] < at \/ (p[1] = at /\ p[2] < in)}

(* The start VNIs of the message up to each of them.                       *)
TunnelUpTo == [p \in Tunnel!Starts |-> Tunnel!UpTo(p)]

(* The VNI each of them says.                                              *)
TunnelVni == [p \in Tunnel!Starts |-> received[p[1]].inner[p[2]].vni]

(* Types, and where the message came from.                                 *)
TunnelTypes ==
  /\ vnis \in Seq(Vnis) /\ seen \in Seq(Vnis) /\ built \in Seq(Vnis)
  /\ wire \in Seq(TunnelEntries)
  /\ \/ received = Tunnel!NoMessage /\ seen = built
     \/ /\ received \in Seq(TunnelEntries)
        /\ \A k \in 1 .. Len(received) : Len(received[k].inner) <= MaxInner
  /\ off \in Nat /\ at \in Nat /\ at > 0 /\ in \in Nat /\ trips \in Nat
  /\ status \in {"value", "emitting", "parsing"}
  /\ status # "parsing" => in = 0

(* emit has written an entry for each of the VNIs so far, and no byte      *)
(* beside.                                                                 *)
TunnelEmitting ==
  status = "emitting" =>
    /\ trips > 0 /\ vnis = seen /\ Len(wire) <= Len(vnis) /\ off = 12 * Len(wire)
    /\ \A k \in 1 .. Len(wire) : wire[k] = OwnEntry(vnis[k])

(* The VNIs are those of the first value; right after the first reading    *)
(* they are the start VNIs of the message.                                 *)
TunnelValue ==
  status = "value" =>
    /\ vnis = seen
    /\ (received # Tunnel!NoMessage /\ trips = 0) =>
         Selected(vnis, Tunnel!Starts, TunnelUpTo, TunnelVni)

(* The first reading: nothing malformed has been passed but the one that   *)
(* has spent the loop.                                                     *)
TunnelFirst ==
  (status = "parsing" /\ trips = 0) =>
    /\ received # Tunnel!NoMessage /\ wire = received
    /\ at <= Len(wire) + 1
    /\ at <= Len(wire) => \A k \in 1 .. at - 1 : wire[k].tag # "Malformed"
    /\ in > 0 =>
         /\ at <= Len(wire) /\ wire[at].tag = "ENTRY" /\ in <= Len(wire[at].inner) + 1
         /\ in <= Len(wire[at].inner) =>
              \A k \in 1 .. in - 1 :
                wire[at].inner[k].len <= 8 * (Len(wire[at].inner) - k + 1)
    /\ Selected(vnis, TunnelDone, TunnelUpTo, TunnelVni)

(* Every other reading is one of what the crate wrote.                     *)
TunnelLater ==
  (status = "parsing" /\ trips > 0) =>
    /\ Len(wire) = Len(seen)
    /\ \A k \in 1 .. Len(wire) : wire[k] = OwnEntry(seen[k])
    /\ at <= Len(wire) + 1 /\ in <= 2 /\ (in > 0 => at <= Len(wire))
    /\ Len(vnis) = IF in = 2 THEN at ELSE at - 1
    /\ \A k \in 1 .. Len(vnis) : vnis[k] = seen[k]

(* The inductive invariant of tunnel/message.rs.                           *)
TunnelInv == TunnelTypes /\ TunnelEmitting /\ TunnelValue /\ TunnelFirst /\ TunnelLater

(* The instance counts as the theorems about finite sets do.               *)
LEMMA TunnelCardinality == \A S : Tunnel!Cardinality(S) = Cardinality(S)
BY Zenon DEF Tunnel!Cardinality, Cardinality

(* Where the loops stand and what is counted depends on the message only.  *)
LEMMA TunnelSame ==
  ASSUME UNCHANGED received
  PROVE  /\ Tunnel!Starts' = Tunnel!Starts /\ TunnelUpTo' = TunnelUpTo
         /\ TunnelVni' = TunnelVni
<1>1. Tunnel!Starts' = Tunnel!Starts BY DEF Tunnel!Starts
<1>2. \A p : Tunnel!UpTo(p)' = Tunnel!UpTo(p) BY <1>1 DEF Tunnel!UpTo
<1> QED BY <1>1, <1>2 DEF TunnelUpTo, TunnelVni

(* STARTs are at places of the message.                                    *)
LEMMA StartPlace ==
  ASSUME TunnelTypes, received # Tunnel!NoMessage, NEW p \in Tunnel!Starts
  PROVE  /\ p = <<p[1], p[2]>> /\ p[1] \in 1 .. Len(received) /\ p[2] \in 1 .. MaxInner
         /\ p[2] \in 1 .. Len(received[p[1]].inner)
         /\ received[p[1]].tag = "ENTRY"
         /\ received[p[1]].inner \in Seq(Tunnel!InnerItems)
<1>0. MaxInner \in Nat BY BoundsAssumption
<1>1. /\ p \in (1 .. Len(received)) \X (1 .. MaxInner) /\ p[2] <= Len(received[p[1]].inner)
      /\ received[p[1]].tag = "ENTRY"
  BY DEF Tunnel!Starts
<1>2. received \in Seq(TunnelEntries) BY DEF TunnelTypes
<1>3. received[p[1]] \in TunnelEntries BY <1>1, <1>2
<1>4. received[p[1]].inner \in Seq(Tunnel!InnerItems) BY <1>3 DEF TunnelEntries
<1> QED BY <1>0, <1>1, <1>4

(* The STARTs passed are closed under what stands in front.                *)
LEMMA DoneClosed ==
  ASSUME TunnelTypes, received # Tunnel!NoMessage, NEW p \in TunnelDone
  PROVE  TunnelUpTo[p] \subseteq TunnelDone /\ p \in TunnelUpTo[p]
<1>1. p \in Tunnel!Starts /\ (p[1] < at \/ (p[1] = at /\ p[2] < in)) BY DEF TunnelDone
<1>2. p[1] \in Nat /\ p[2] \in Nat BY <1>1, StartPlace
<1>3. TunnelUpTo[p] = {q \in Tunnel!Starts : q[1] < p[1] \/ (q[1] = p[1] /\ q[2] <= p[2])}
  BY <1>1 DEF TunnelUpTo, Tunnel!UpTo
<1>4. p \in TunnelUpTo[p] BY <1>1, <1>2, <1>3
<1>5. ASSUME NEW q \in TunnelUpTo[p] PROVE q \in TunnelDone
  <2>1. q \in Tunnel!Starts /\ (q[1] < p[1] \/ (q[1] = p[1] /\ q[2] <= p[2])) BY <1>3
  <2>2. q[1] \in Nat /\ q[2] \in Nat BY <2>1, StartPlace
  <2>3. at \in Nat /\ in \in Nat BY DEF TunnelTypes
  <2> QED BY <1>1, <1>2, <2>1, <2>2, <2>3 DEF TunnelDone
<1> QED BY <1>4, <1>5

(* Sizes of what is inside of an entry, ours and others'.                  *)
LEMMA TunnelItems ==
  /\ \A v \in Vnis : OwnEntry(v) \in TunnelEntries
  /\ \A x \in Tunnel!InnerItems : x.len \in Nat /\ x.len >= 4
       /\ (x.tag = "START" /\ x.len = 8 => x.vni \in Vnis \/ x.vni = 0)
<1>1. ASSUME NEW v \in Vnis PROVE OwnEntry(v) \in TunnelEntries
  <2>1. OwnItem(v) \in Tunnel!InnerItems BY DEF OwnItem, Tunnel!InnerItems
  <2>2. <<OwnItem(v)>> \in Seq(Tunnel!InnerItems) /\ Len(<<OwnItem(v)>>) = 1 BY <2>1
  <2>3. /\ OwnEntry(v) = [tag |-> "ENTRY", room |-> 8, inner |-> <<OwnItem(v)>>]
        /\ OwnEntry(v).room = 8 * Len(OwnEntry(v).inner)
    BY <2>2 DEF OwnEntry
  <2>4. OwnEntry(v) \in [tag : {"ENTRY", "Other", "Malformed"}, room : Nat,
                         inner : Seq(Tunnel!InnerItems)]
    BY <2>2, <2>3
  <2> QED BY <2>3, <2>4 DEF TunnelEntries
<1>2. \A x \in Tunnel!InnerItems : x.len \in Nat /\ x.len >= 4 BY DEF Tunnel!InnerItems
<1>3. \A x \in Tunnel!InnerItems : x.tag = "START" /\ x.len = 8 => x.vni \in Vnis
  BY DEF Tunnel!InnerItems
<1> QED BY <1>1, <1>2, <1>3

(* It holds of a message from the wire and of a list a caller built.       *)
LEMMA TunnelInit == Tunnel!Init => TunnelInv
<1> SUFFICES ASSUME Tunnel!Init PROVE TunnelInv OBVIOUS
<1>0. /\ MaxVnis \in Nat /\ MaxEntries \in Nat /\ MaxInner \in Nat
  BY BoundsAssumption
<1>1. off = 0 /\ at = 1 /\ in = 0 /\ trips = 0 BY DEF Tunnel!Init
<1>2. CASE status = "value"
  <2>1. /\ vnis \in Tunnel!Lists(Vnis, MaxVnis) /\ built = vnis /\ seen = vnis /\ wire = <<>>
        /\ received = Tunnel!NoMessage
    BY <1>2 DEF Tunnel!Init
  <2>2. vnis \in Seq(Vnis) BY <1>0, <2>1, ListsSeq DEF Tunnel!Lists
  <2>3. TunnelTypes BY <1>1, <1>2, <2>1, <2>2 DEF TunnelTypes
  <2> QED BY <1>1, <1>2, <2>1, <2>3
      DEF TunnelInv, TunnelEmitting, TunnelValue, TunnelFirst, TunnelLater
<1>3. CASE status = "parsing"
  <2>1. /\ wire \in Tunnel!Lists(Tunnel!WireEntries, MaxEntries) /\ received = wire
        /\ vnis = <<>> /\ built = <<>> /\ seen = <<>>
    BY <1>3 DEF Tunnel!Init
  <2>2. ASSUME NEW e \in Tunnel!WireEntries
        PROVE  e \in TunnelEntries /\ Len(e.inner) <= MaxInner /\ e.tag # "None"
    <3>1. CASE e = [tag |-> "Malformed", room |-> 0, inner |-> <<>>]
      BY <1>0, <3>1 DEF TunnelEntries
    <3>2. ASSUME NEW t \in {"ENTRY", "Other"}, NEW l \in Tunnel!Lists(Tunnel!InnerItems, MaxInner),
                 e = Tunnel!Entry(t, l)
          PROVE  e \in TunnelEntries /\ Len(e.inner) <= MaxInner /\ e.tag # "None"
      <4>1. l \in Seq(Tunnel!InnerItems) /\ Len(l) <= MaxInner /\ Len(l) \in Nat
        BY <1>0, ListsSeq DEF Tunnel!Lists
      <4>2. /\ e.tag = t /\ e.room = 8 * Len(l) /\ e.inner = l
            /\ e = [tag |-> t, room |-> 8 * Len(l), inner |-> l]
        BY <3>2 DEF Tunnel!Entry
      <4>3. 8 * Len(l) \in Nat BY <4>1
      <4> QED BY <4>1, <4>2, <4>3 DEF TunnelEntries
    <3>3. e = [tag |-> "Malformed", room |-> 0, inner |-> <<>>] \/
          \E t \in {"ENTRY", "Other"}, l \in Tunnel!Lists(Tunnel!InnerItems, MaxInner) :
            e = Tunnel!Entry(t, l)
      BY DEF Tunnel!WireEntries
    <3> QED BY <3>1, <3>2, <3>3
  <2>3. wire \in Seq(Tunnel!WireEntries) /\ wire \in Seq(TunnelEntries)
    BY <1>0, <2>1, <2>2, ListsSeq DEF Tunnel!Lists
  <2>4. \A k \in 1 .. Len(wire) : Len(wire[k].inner) <= MaxInner /\ wire[k].tag # "None"
    BY <2>2, <2>3
  <2>5. received # Tunnel!NoMessage
    <3> SUFFICES ASSUME received = Tunnel!NoMessage PROVE FALSE OBVIOUS
    <3>1. Len(wire) = 1 /\ wire[1].tag = "None" BY <2>1 DEF Tunnel!NoMessage
    <3> QED BY <2>4, <3>1
  <2>6. TunnelTypes BY <1>1, <1>3, <2>1, <2>3, <2>4 DEF TunnelTypes
  <2>7. TunnelDone = {}
    <3>1. \A p \in Tunnel!Starts : p[1] \in Nat /\ p[1] >= 1 /\ p[2] \in Nat
      BY <2>5, <2>6, StartPlace
    <3> QED BY <1>1, <3>1 DEF TunnelDone
  <2>8. Selected(vnis, TunnelDone, TunnelUpTo, TunnelVni)
    BY <2>1, <2>7, FS_EmptySet DEF Selected
  <2>9. TunnelFirst BY <1>1, <1>3, <2>1, <2>3, <2>5, <2>8 DEF TunnelFirst
  <2> QED BY <1>1, <1>3, <2>6, <2>9
      DEF TunnelInv, TunnelEmitting, TunnelValue, TunnelLater
<1> QED BY <1>2, <1>3 DEF Tunnel!Init

(* Sending: the VNIs are those of the first value.                         *)
LEMMA TunnelSends ==
  ASSUME TunnelInv, Tunnel!StartEmit \/ Tunnel!EmitEntry \/ Tunnel!Deliver PROVE TunnelInv'
<1>1. CASE Tunnel!StartEmit
  <2>1. /\ status = "value" /\ status' = "emitting" /\ trips' = trips + 1 /\ off' = 0
        /\ wire' = <<>> /\ UNCHANGED <<vnis, built, received, at, in, seen>>
    BY <1>1 DEF Tunnel!StartEmit
  <2>2. TunnelTypes' BY <2>1 DEF TunnelInv, TunnelTypes
  <2>3. TunnelEmitting' BY <2>1 DEF TunnelInv, TunnelTypes, TunnelValue, TunnelEmitting
  <2> QED BY <2>1, <2>2, <2>3 DEF TunnelInv, TunnelValue, TunnelFirst, TunnelLater
<1>2. CASE Tunnel!EmitEntry
  <2>1. /\ status = "emitting" /\ Len(wire) < Len(vnis)
        /\ wire' = Append(wire, OwnEntry(vnis[Len(wire) + 1])) /\ off' = off + 12
        /\ UNCHANGED <<vnis, built, received, at, in, seen, trips, status>>
    BY <1>2 DEF Tunnel!EmitEntry, Tunnel!ENTRY_LEN, Tunnel!NLA_HEADER_SIZE, OwnEntry, OwnItem
  <2>2. /\ vnis \in Seq(Vnis) /\ wire \in Seq(TunnelEntries) /\ off \in Nat
        /\ off = 12 * Len(wire) /\ \A k \in 1 .. Len(wire) : wire[k] = OwnEntry(vnis[k])
    BY <2>1 DEF TunnelInv, TunnelTypes, TunnelEmitting
  <2>3. vnis[Len(wire) + 1] \in Vnis BY <2>1, <2>2
  <2>4. OwnEntry(vnis[Len(wire) + 1]) \in TunnelEntries BY <2>3, TunnelItems
  <2>5. /\ wire' \in Seq(TunnelEntries) /\ Len(wire') = Len(wire) + 1
        /\ \A k \in 1 .. Len(wire) + 1 : wire'[k] = OwnEntry(vnis[k])
    BY <2>1, <2>2, <2>4
  <2>6. TunnelTypes' BY <2>1, <2>2, <2>5 DEF TunnelInv, TunnelTypes
  <2>7. TunnelEmitting' BY <2>1, <2>2, <2>5 DEF TunnelInv, TunnelEmitting
  <2> QED BY <2>1, <2>6, <2>7 DEF TunnelInv, TunnelValue, TunnelFirst, TunnelLater
<1>3. CASE Tunnel!Deliver
  <2>1. /\ status = "emitting" /\ Len(wire) = Len(vnis) /\ status' = "parsing"
        /\ vnis' = <<>> /\ at' = 1 /\ in' = 0
        /\ UNCHANGED <<built, received, wire, off, seen, trips>>
    BY <1>3 DEF Tunnel!Deliver
  <2>2. TunnelTypes' BY <2>1 DEF TunnelInv, TunnelTypes
  <2>3. trips > 0 /\ trips \in Nat BY <2>1 DEF TunnelInv, TunnelEmitting, TunnelTypes
  <2>4. TunnelLater' BY <2>1 DEF TunnelInv, TunnelEmitting, TunnelLater, TunnelTypes
  <2> QED BY <2>1, <2>2, <2>3, <2>4 DEF TunnelInv, TunnelEmitting, TunnelValue, TunnelFirst
<1> QED BY <1>1, <1>2, <1>3

(* A reading of a message of the crate.                                    *)
LEMMA TunnelReadsOwn ==
  ASSUME TunnelInv, status = "parsing", trips > 0,
         Tunnel!SkipEntry \/ Tunnel!EnterEntry \/ Tunnel!ReadInner \/ Tunnel!LeaveEntry
  PROVE  TunnelInv'
<1>0. /\ at \in Nat /\ at > 0 /\ in \in Nat /\ seen \in Seq(Vnis) /\ vnis \in Seq(Vnis)
      /\ Len(wire) = Len(seen) /\ Len(wire) \in Nat
      /\ \A k \in 1 .. Len(wire) : wire[k] = OwnEntry(seen[k])
      /\ at <= Len(wire) + 1 /\ in <= 2 /\ (in > 0 => at <= Len(wire))
      /\ Len(vnis) = IF in = 2 THEN at ELSE at - 1
      /\ \A k \in 1 .. Len(vnis) : vnis[k] = seen[k]
  BY DEF TunnelInv, TunnelTypes, TunnelLater
<1>1. ASSUME at <= Len(wire)
      PROVE  /\ wire[at].tag = "ENTRY" /\ wire[at].room = 8
             /\ wire[at].inner = <<OwnItem(seen[at])>>
             /\ Len(wire[at].inner) = 1 /\ wire[at].inner[1] = OwnItem(seen[at])
  <2>1. wire[at] = OwnEntry(seen[at]) BY <1>0, <1>1
  <2>2. wire[at] = [tag |-> "ENTRY", room |-> 8, inner |-> <<OwnItem(seen[at])>>]
    BY <2>1 DEF OwnEntry
  <2>3. wire[at].inner = <<OwnItem(seen[at])>> BY <2>2
  <2> QED BY <2>2, <2>3
<1>2. ASSUME UNCHANGED <<built, received, wire, off, seen, trips, status>>,
             vnis' \in Seq(Vnis), at' \in Nat, at' > 0, in' \in Nat
      PROVE  TunnelTypes' /\ TunnelEmitting' /\ TunnelValue' /\ TunnelFirst'
  <2>1. TunnelTypes' BY <1>2 DEF TunnelInv, TunnelTypes
  <2>2. status' = "parsing" /\ trips' > 0 /\ trips \in Nat BY <1>2 DEF TunnelInv, TunnelTypes
  <2> QED BY <2>1, <2>2 DEF TunnelEmitting, TunnelValue, TunnelFirst
<1>3. CASE Tunnel!SkipEntry BY <1>1, <1>3 DEF Tunnel!SkipEntry, Tunnel!Outer
<1>4. CASE Tunnel!EnterEntry
  <2>1. /\ in = 0 /\ at <= Len(wire) /\ in' = 1
        /\ UNCHANGED <<vnis, built, received, wire, off, at, seen, trips, status>>
    BY <1>4 DEF Tunnel!EnterEntry, Tunnel!Outer
  <2>2. TunnelLater' BY <1>0, <2>1 DEF TunnelLater
  <2> QED BY <1>0, <1>2, <2>1, <2>2 DEF TunnelInv
<1>5. CASE Tunnel!ReadInner
  <2>1. /\ in = 1 /\ at <= Len(wire)
        /\ UNCHANGED <<built, received, wire, off, at, seen, trips, status>>
    <3>1. /\ in > 0 /\ in <= Len(wire[at].inner)
          /\ UNCHANGED <<built, received, wire, off, at, seen, trips, status>>
      BY <1>5 DEF Tunnel!ReadInner, Tunnel!Inner, Tunnel!InnerMore
    <3>2. at <= Len(wire) BY <1>0, <3>1
    <3>3. Len(wire[at].inner) = 1 BY <1>1, <3>2
    <3>4. in = 1 BY <1>0, <3>1, <3>3
    <3> QED BY <3>1, <3>2, <3>4
  <2>2. Tunnel!InnerHere = OwnItem(seen[at]) BY <1>1, <2>1 DEF Tunnel!InnerHere
  <2>3. Tunnel!InnerOk
    BY <1>1, <2>1, <2>2
    DEF Tunnel!InnerOk, Tunnel!HeaderOk, OwnItem, Tunnel!NLA_HEADER_SIZE
  <2>4. vnis' = Append(vnis, seen[at]) /\ in' = 2
    BY <1>5, <2>1, <2>2, <2>3 DEF Tunnel!ReadInner, OwnItem
  <2>5. seen[at] \in Vnis BY <1>0, <2>1
  <2>6. TunnelLater' BY <1>0, <2>1, <2>4, <2>5 DEF TunnelLater
  <2> QED BY <1>0, <1>2, <2>1, <2>4, <2>5, <2>6 DEF TunnelInv
<1>6. CASE Tunnel!LeaveEntry
  <2>1. /\ in > 0 /\ in > 1 /\ in' = 0 /\ at' = at + 1
        /\ UNCHANGED <<vnis, built, received, wire, off, seen, trips, status>>
    <3>1. /\ in > 0 /\ ~(in <= Len(wire[at].inner)) /\ in' = 0 /\ at' = at + 1
          /\ UNCHANGED <<vnis, built, received, wire, off, seen, trips, status>>
      BY <1>6 DEF Tunnel!LeaveEntry, Tunnel!Inner, Tunnel!InnerMore
    <3>2. Len(wire[at].inner) = 1 BY <1>0, <1>1, <3>1
    <3> QED BY <1>0, <3>1, <3>2
  <2>2. TunnelLater' BY <1>0, <2>1 DEF TunnelLater
  <2> QED BY <1>0, <1>2, <2>1, <2>2 DEF TunnelInv
<1> QED BY <1>3, <1>4, <1>5, <1>6

(* What a step of the loops over a message from the wire must show.        *)
LEMMA TunnelFirstStep ==
  ASSUME TunnelInv, status = "parsing", trips = 0,
         UNCHANGED <<built, received, wire, off, seen, trips, status>>,
         vnis' \in Seq(Vnis), at' \in Nat, at' > 0, in' \in Nat, TunnelFirst'
  PROVE  TunnelInv'
<1>1. TunnelTypes' BY DEF TunnelInv, TunnelTypes
<1> QED BY <1>1 DEF TunnelInv, TunnelEmitting, TunnelValue, TunnelLater

(* The loops move on without a VNI: none was passed.                       *)
LEMMA TunnelPassed ==
  ASSUME TunnelInv, status = "parsing", trips = 0, UNCHANGED <<vnis, received>>,
         \A p \in Tunnel!Starts :
           (p[1] < at' \/ (p[1] = at' /\ p[2] < in'))
                   <=> (p[1] < at \/ (p[1] = at /\ p[2] < in))
  PROVE  Selected(vnis, TunnelDone, TunnelUpTo, TunnelVni)'
<1>1. /\ Tunnel!Starts' = Tunnel!Starts /\ TunnelUpTo' = TunnelUpTo /\ TunnelVni' = TunnelVni
  BY TunnelSame
<1>2. TunnelDone' = TunnelDone BY <1>1 DEF TunnelDone
<1>3. Selected(vnis, TunnelDone, TunnelUpTo, TunnelVni) BY DEF TunnelInv, TunnelFirst
<1> QED BY <1>1, <1>2, <1>3 DEF Selected

(* The first reading skips what is no entry: it has no start VNI; a        *)
(* malformed one spends the loop.                                          *)
LEMMA TunnelSkips ==
  ASSUME TunnelInv, status = "parsing", trips = 0, Tunnel!SkipEntry PROVE TunnelInv'
<1>1. /\ in = 0 /\ at <= Len(wire) /\ wire[at].tag # "ENTRY"
      /\ at' = IF wire[at].tag = "Malformed" THEN Len(wire) + 1 ELSE at + 1
      /\ UNCHANGED <<vnis, built, received, wire, off, in, seen, trips, status>>
  BY DEF Tunnel!SkipEntry, Tunnel!Outer
<1>2. /\ at \in Nat /\ at > 0 /\ wire = received /\ received # Tunnel!NoMessage
      /\ wire \in Seq(TunnelEntries) /\ TunnelTypes /\ vnis \in Seq(Vnis)
      /\ \A k \in 1 .. at - 1 : wire[k].tag # "Malformed"
  BY <1>1 DEF TunnelInv, TunnelTypes, TunnelFirst
<1>3. ASSUME NEW p \in Tunnel!Starts
      PROVE  (p[1] < at' \/ (p[1] = at' /\ p[2] < in'))
                   <=> (p[1] < at \/ (p[1] = at /\ p[2] < in))
  <2>1. p[1] \in 1 .. Len(received) /\ p[2] \in Nat /\ p[2] > 0 /\ received[p[1]].tag = "ENTRY"
    BY <1>2, StartPlace
  <2>2. p[1] # at BY <1>1, <1>2, <2>1
  <2>3. CASE wire[at].tag # "Malformed" BY <1>1, <1>2, <2>1, <2>2, <2>3
  <2>4. CASE wire[at].tag = "Malformed"
    <3>1. \A k \in 1 .. p[1] : received[k].tag # "Malformed" BY DEF Tunnel!Starts
    <3>2. p[1] < at BY <1>2, <2>1, <2>4, <3>1
    <3> QED BY <1>1, <1>2, <2>1, <2>4, <3>2
  <2> QED BY <2>3, <2>4
<1>4. Selected(vnis, TunnelDone, TunnelUpTo, TunnelVni)' BY <1>1, <1>3, TunnelPassed
<1>5. at' \in Nat /\ at' > 0 /\ at' <= Len(wire) + 1 BY <1>1, <1>2
<1>6. at' <= Len(wire) => \A k \in 1 .. at' - 1 : wire[k].tag # "Malformed" BY <1>1, <1>2
<1>7. TunnelFirst' BY <1>1, <1>2, <1>4, <1>5, <1>6 DEF TunnelFirst
<1>8. in' \in Nat BY <1>1
<1> QED BY <1>1, <1>2, <1>5, <1>7, <1>8, TunnelFirstStep

(* It enters an entry: nothing is passed yet.                              *)
LEMMA TunnelEnters ==
  ASSUME TunnelInv, status = "parsing", trips = 0, Tunnel!EnterEntry PROVE TunnelInv'
<1>1. /\ in = 0 /\ at <= Len(wire) /\ wire[at].tag = "ENTRY" /\ in' = 1
      /\ UNCHANGED <<vnis, built, received, wire, off, at, seen, trips, status>>
  BY DEF Tunnel!EnterEntry, Tunnel!Outer
<1>2. /\ at \in Nat /\ at > 0 /\ wire = received /\ received # Tunnel!NoMessage
      /\ wire \in Seq(TunnelEntries) /\ TunnelTypes /\ vnis \in Seq(Vnis)
  BY <1>1 DEF TunnelInv, TunnelTypes, TunnelFirst
<1>3. ASSUME NEW p \in Tunnel!Starts
      PROVE  (p[1] < at' \/ (p[1] = at' /\ p[2] < in'))
                   <=> (p[1] < at \/ (p[1] = at /\ p[2] < in))
  <2>1. p[1] \in Nat /\ p[2] \in Nat /\ p[2] > 0 BY <1>2, StartPlace
  <2> QED BY <1>1, <1>2, <2>1
<1>4. Selected(vnis, TunnelDone, TunnelUpTo, TunnelVni)' BY <1>1, <1>3, TunnelPassed
<1>5. wire[at] \in TunnelEntries /\ Len(wire[at].inner) \in Nat BY <1>1, <1>2 DEF TunnelEntries
<1>6. TunnelFirst' BY <1>1, <1>2, <1>4, <1>5 DEF TunnelInv, TunnelFirst
<1> QED BY <1>1, <1>2, <1>6, TunnelFirstStep

(* It leaves an entry: everything in it is passed.                         *)
LEMMA TunnelLeaves ==
  ASSUME TunnelInv, status = "parsing", trips = 0, Tunnel!LeaveEntry PROVE TunnelInv'
<1>1. /\ in > 0 /\ in > Len(wire[at].inner) /\ in' = 0 /\ at' = at + 1
      /\ UNCHANGED <<vnis, built, received, wire, off, seen, trips, status>>
  <2>1. in \in Nat /\ at <= Len(wire) /\ at \in 1 .. Len(wire) /\ wire \in Seq(TunnelEntries)
    BY DEF Tunnel!LeaveEntry, Tunnel!Inner, TunnelInv, TunnelTypes, TunnelFirst
  <2>2. wire[at] \in TunnelEntries BY <2>1
  <2>3. Len(wire[at].inner) \in Nat BY <2>2 DEF TunnelEntries
  <2> QED BY <2>1, <2>3 DEF Tunnel!LeaveEntry, Tunnel!Inner, Tunnel!InnerMore
<1>2. /\ at \in Nat /\ at > 0 /\ in \in Nat /\ wire = received /\ received # Tunnel!NoMessage
      /\ wire \in Seq(TunnelEntries) /\ TunnelTypes /\ vnis \in Seq(Vnis)
      /\ at <= Len(wire) /\ wire[at].tag = "ENTRY"
      /\ \A k \in 1 .. at - 1 : wire[k].tag # "Malformed"
  BY <1>1 DEF TunnelInv, TunnelTypes, TunnelFirst
<1>3. ASSUME NEW p \in Tunnel!Starts
      PROVE  (p[1] < at' \/ (p[1] = at' /\ p[2] < in'))
                   <=> (p[1] < at \/ (p[1] = at /\ p[2] < in))
  <2>1. p[1] \in Nat /\ p[2] \in Nat /\ p[2] > 0 /\ p[2] <= Len(received[p[1]].inner)
        /\ Len(received[p[1]].inner) \in Nat
    BY <1>2, StartPlace
  <2>2. p[1] = at => p[2] < in BY <1>1, <1>2, <2>1
  <2> QED BY <1>1, <1>2, <2>1, <2>2
<1>4. Selected(vnis, TunnelDone, TunnelUpTo, TunnelVni)' BY <1>1, <1>3, TunnelPassed
<1>5. TunnelFirst' BY <1>1, <1>2, <1>4 DEF TunnelFirst
<1> QED BY <1>1, <1>2, <1>5, TunnelFirstStep

(* It reads an attribute inside of an entry: a start VNI is pushed,        *)
(* another is skipped, and one that is longer than the rest spends the     *)
(* inner loop.                                                             *)
LEMMA TunnelReads ==
  ASSUME TunnelInv, status = "parsing", trips = 0, Tunnel!ReadInner PROVE TunnelInv'
<1> DEFINE inner == wire[at].inner
           x == inner[in]
           fits == x.len <= 8 * (Len(inner) - in + 1)
<1>1. /\ at \in 1 .. Len(wire) /\ in \in 1 .. Len(inner) /\ wire = received
      /\ received # Tunnel!NoMessage /\ wire \in Seq(TunnelEntries) /\ TunnelTypes
      /\ vnis \in Seq(Vnis) /\ wire[at].tag = "ENTRY"
      /\ wire[at] \in TunnelEntries
      /\ \A k \in 1 .. at - 1 : wire[k].tag # "Malformed"
  <2>1. /\ in > 0 /\ in <= Len(inner) /\ at <= Len(wire) /\ at \in Nat /\ at > 0 /\ in \in Nat
        /\ wire \in Seq(TunnelEntries) /\ vnis \in Seq(Vnis) /\ wire = received
        /\ received # Tunnel!NoMessage /\ TunnelTypes /\ wire[at].tag = "ENTRY"
        /\ \A k \in 1 .. at - 1 : wire[k].tag # "Malformed"
    BY DEF Tunnel!ReadInner, Tunnel!Inner, Tunnel!InnerMore, TunnelInv, TunnelTypes, TunnelFirst
  <2>2. wire[at] \in TunnelEntries BY <2>1
  <2>3. Len(inner) \in Nat BY <2>2 DEF TunnelEntries
  <2> QED BY <2>1, <2>2, <2>3
<1>2. /\ inner \in Seq(Tunnel!InnerItems) /\ wire[at].room = 8 * Len(inner) /\ Len(inner) \in Nat
      /\ Len(inner) <= MaxInner /\ MaxInner \in Nat
  <2>1. inner \in Seq(Tunnel!InnerItems) /\ wire[at].room = 8 * Len(inner)
    BY <1>1 DEF TunnelEntries
  <2>2. \A k \in 1 .. Len(received) : Len(received[k].inner) <= MaxInner
    BY <1>1 DEF TunnelTypes
  <2>3. Len(inner) <= MaxInner BY <1>1, <2>2
  <2>4. MaxInner \in Nat BY BoundsAssumption
  <2> QED BY <2>1, <2>3, <2>4
<1>3. x \in Tunnel!InnerItems BY <1>1, <1>2
<1>4. x.len \in Nat /\ x.len >= 4 /\ (x.tag = "START" /\ x.len = 8 => x.vni \in Vnis)
  BY <1>3 DEF Tunnel!InnerItems
<1>5. \A k \in 1 .. in - 1 : inner[k].len <= 8 * (Len(inner) - k + 1)
  <2>1. TunnelFirst /\ in > 0 /\ in <= Len(inner) BY <1>1, <1>2 DEF TunnelInv
  <2> QED BY <2>1 DEF TunnelFirst
<1>6. /\ vnis' = IF fits /\ x.tag = "START" /\ x.len = 8 THEN Append(vnis, x.vni) ELSE vnis
      /\ in' = IF fits THEN in + 1 ELSE Len(inner) + 1
      /\ UNCHANGED <<built, received, wire, off, at, seen, trips, status>>
  <2>1. Tunnel!InnerHere = x BY DEF Tunnel!InnerHere
  <2>2. wire[at].room - 8 * (in - 1) = 8 * (Len(inner) - in + 1) /\ Len(inner) - in + 1 >= 1
        /\ Len(inner) - in + 1 \in Int
    <3>1. \A l, j \in Int : 8 * l - 8 * (j - 1) = 8 * (l - j + 1) OBVIOUS
    <3>2. Len(inner) \in Nat /\ in \in Nat /\ in <= Len(inner) /\ wire[at].room = 8 * Len(inner)
      BY <1>1, <1>2
    <3> HIDE DEF inner
    <3> QED BY <3>1, <3>2
  <2>3. Tunnel!InnerOk <=> fits
    BY <1>4, <2>1, <2>2 DEF Tunnel!InnerOk, Tunnel!HeaderOk, Tunnel!NLA_HEADER_SIZE
  <2> HIDE DEF x, fits, inner
  <2> QED BY <2>1, <2>3 DEF Tunnel!ReadInner, inner
<1>7. vnis' \in Seq(Vnis) /\ in' \in Nat /\ in' > 0 /\ in' <= Len(inner) + 1
  <2> HIDE DEF inner, x, fits
  <2>1. in' \in Nat /\ in' > 0 /\ in' <= Len(inner) + 1 BY <1>1, <1>2, <1>6
  <2>2. CASE fits /\ x.tag = "START" /\ x.len = 8
    <3>1. x.vni \in Vnis /\ vnis' = Append(vnis, x.vni) BY <1>4, <1>6, <2>2
    <3>2. \A v \in Vnis : Append(vnis, v) \in Seq(Vnis) BY <1>1
    <3> QED BY <2>1, <3>1, <3>2
  <2>3. CASE ~(fits /\ x.tag = "START" /\ x.len = 8) BY <1>1, <1>6, <2>1, <2>3
  <2> QED BY <2>2, <2>3
<1>8. in' <= Len(inner) => \A k \in 1 .. in' - 1 : inner[k].len <= 8 * (Len(inner) - k + 1)
  <2> SUFFICES ASSUME in' <= Len(inner), NEW k \in 1 .. in' - 1
               PROVE  inner[k].len <= 8 * (Len(inner) - k + 1)
    OBVIOUS
  <2>1. fits /\ in' = in + 1 BY <1>2, <1>6
  <2>2. k \in 1 .. in - 1 \/ k = in BY <1>1, <2>1
  <2> QED BY <1>5, <2>1, <2>2
<1>9. \A p \in Tunnel!Starts : /\ p = <<p[1], p[2]>> /\ p[1] \in Nat /\ p[2] \in Nat
                               /\ p[1] = at => p[2] <= Len(inner)
  BY <1>1, StartPlace
<1>10. <<at, in>> \in Tunnel!Starts <=> (fits /\ x.tag = "START" /\ x.len = 8)
  <2>1. <<at, in>> \in (1 .. Len(received)) \X (1 .. MaxInner) BY <1>1, <1>2
  <2>2. \A k \in 1 .. at : received[k].tag # "Malformed" BY <1>1
  <2>3. (\A k \in 1 .. in : inner[k].len <= 8 * (Len(inner) - k + 1)) <=> fits
    <3>1. \A k \in 1 .. in : k \in 1 .. in - 1 \/ k = in BY <1>1
    <3>2. in \in 1 .. in BY <1>1
    <3> QED BY <1>5, <3>1, <3>2
  <2> QED BY <1>1, <1>2, <2>1, <2>2, <2>3 DEF Tunnel!Starts
<1>11. Selected(vnis, TunnelDone, TunnelUpTo, TunnelVni)'
  <2>1. CASE fits /\ x.tag = "START" /\ x.len = 8
    <3> DEFINE p == <<at, in>>
    <3>1. p \in Tunnel!Starts /\ p[1] = at /\ p[2] = in BY <1>10, <2>1
    <3>2. in' = in + 1 /\ vnis' = Append(vnis, TunnelVni[p]) /\ TunnelVni[p] \in Vnis
      BY <1>1, <1>4, <1>6, <2>1, <3>1 DEF TunnelVni
    <3>3. p \notin TunnelDone BY <1>1, <3>1 DEF TunnelDone
    <3>4. TunnelUpTo[p] = TunnelDone \cup {p}
      <4>1. TunnelUpTo[p] = {q \in Tunnel!Starts : q[1] < at \/ (q[1] = at /\ q[2] <= in)}
        BY <3>1 DEF TunnelUpTo, Tunnel!UpTo
      <4>2. ASSUME NEW q \in Tunnel!Starts
            PROVE  (q[1] = at /\ q[2] <= in) <=> (q = p \/ (q[1] = at /\ q[2] < in))
        BY <1>1, <1>9
      <4> QED BY <3>1, <4>1, <4>2 DEF TunnelDone
    <3>5. TunnelDone' = TunnelDone \cup {p}
      <4>1. Tunnel!Starts' = Tunnel!Starts BY <1>6, TunnelSame
      <4>2. TunnelDone' = {q \in Tunnel!Starts : q[1] < at \/ (q[1] = at /\ q[2] < in + 1)}
        BY <1>6, <3>2, <4>1 DEF TunnelDone
      <4>3. ASSUME NEW q \in Tunnel!Starts
            PROVE  (q[1] = at /\ q[2] < in + 1) <=> (q = p \/ (q[1] = at /\ q[2] < in))
        BY <1>1, <1>9
      <4> QED BY <3>1, <4>2, <4>3 DEF TunnelDone
    <3>6. Selected(vnis, TunnelDone, TunnelUpTo, TunnelVni) BY DEF TunnelInv, TunnelFirst
    <3> HIDE DEF p
    <3>7. Selected(vnis', TunnelDone', TunnelUpTo, TunnelVni)
      BY <1>1, <3>2, <3>3, <3>4, <3>5, <3>6, SelectNext
    <3>8. TunnelUpTo' = TunnelUpTo /\ TunnelVni' = TunnelVni BY <1>6, TunnelSame
    <3> QED BY <3>7, <3>8 DEF Selected
  <2>2. CASE ~(fits /\ x.tag = "START" /\ x.len = 8)
    <3>1. ASSUME NEW p \in Tunnel!Starts
          PROVE  (p[1] < at' \/ (p[1] = at' /\ p[2] < in'))
                   <=> (p[1] < at \/ (p[1] = at /\ p[2] < in))
      <4>1. p = <<p[1], p[2]>> /\ p[1] \in Nat /\ p[2] \in Nat /\ (p[1] = at => p[2] <= Len(inner))
        BY <1>9
      <4>2. p # <<at, in>> BY <1>10, <2>2
      <4>3. CASE fits
        <5>1. at' = at /\ in' = in + 1 /\ at \in Nat /\ in \in Nat BY <1>1, <1>6, <4>3
        <5>2. p[1] # at \/ p[2] # in BY <4>1, <4>2
        <5> HIDE DEF inner, fits
        <5>3. p[1] \in Nat /\ p[2] \in Nat BY <4>1
        <5>4. \A q \in Nat : q # in => (q < in + 1 <=> q < in) BY <5>1
        <5> QED BY <5>1, <5>2, <5>3, <5>4
      <4>4. CASE ~fits
        <5>1. p[1] = at => \A k \in 1 .. p[2] : inner[k].len <= 8 * (Len(inner) - k + 1)
          BY <1>1 DEF Tunnel!Starts
        <5>2. p[1] = at => p[2] < in BY <1>1, <4>1, <4>4, <5>1
        <5>3. at' = at /\ in' = Len(inner) + 1 BY <1>6, <4>4
        <5> HIDE DEF inner, fits
        <5>4. \A q, l \in Nat : q <= l => q < l + 1 OBVIOUS
        <5>5. p[1] = at => p[2] < in' BY <1>2, <4>1, <5>3, <5>4
        <5> QED BY <5>2, <5>3, <5>5
      <4> QED BY <4>3, <4>4
    <3>2. UNCHANGED <<vnis, received>> BY <1>6, <2>2
    <3> QED BY <3>1, <3>2, TunnelPassed
  <2> QED BY <2>1, <2>2
<1>12. TunnelFirst' BY <1>1, <1>6, <1>7, <1>8, <1>11 DEF TunnelFirst
<1>13. at' \in Nat /\ at' > 0 BY <1>1, <1>6
<1> QED BY <1>6, <1>7, <1>12, <1>13, TunnelFirstStep

(* parse returns: both loops are through with everything.                  *)
LEMMA TunnelReturns == ASSUME TunnelInv, Tunnel!Return PROVE TunnelInv'
<1>1. /\ status = "parsing" /\ in = 0 /\ at > Len(wire) /\ status' = "value"
      /\ seen' = IF trips = 0 THEN vnis ELSE seen
      /\ UNCHANGED <<vnis, built, received, wire, off, at, in, trips>>
  BY DEF Tunnel!Return
<1>2. TunnelTypes /\ at \in Nat /\ trips \in Nat BY DEF TunnelInv, TunnelTypes
<1>3. CASE trips = 0
  <2>1. received # Tunnel!NoMessage /\ wire = received BY <1>1, <1>3 DEF TunnelInv, TunnelFirst
  <2>2. \A p \in Tunnel!Starts : p[1] \in 1 .. Len(received) BY <1>2, <2>1, StartPlace
  <2>3. Len(received) \in Nat BY <1>2, <2>1 DEF TunnelTypes
  <2>4. TunnelDone = Tunnel!Starts BY <1>1, <1>2, <2>1, <2>2, <2>3 DEF TunnelDone
  <2>5. Selected(vnis, Tunnel!Starts, TunnelUpTo, TunnelVni)
    BY <1>1, <1>3, <2>4 DEF TunnelInv, TunnelFirst
  <2>6. Selected(vnis', Tunnel!Starts', TunnelUpTo', TunnelVni') BY <1>1, <2>5, TunnelSame
  <2>7. TunnelValue' BY <1>1, <1>3, <2>6 DEF TunnelValue, Selected
  <2>8. TunnelTypes' BY <1>1, <1>2, <1>3, <2>1 DEF TunnelTypes
  <2> QED BY <1>1, <2>7, <2>8 DEF TunnelInv, TunnelEmitting, TunnelFirst, TunnelLater
<1>4. CASE trips > 0
  <2>1. /\ Len(vnis) = at - 1 /\ at <= Len(wire) + 1 /\ Len(wire) = Len(seen)
        /\ \A k \in 1 .. Len(vnis) : vnis[k] = seen[k]
    BY <1>1, <1>4 DEF TunnelInv, TunnelLater
  <2>2. vnis \in Seq(Vnis) /\ seen \in Seq(Vnis) BY <1>2 DEF TunnelTypes
  <2>3. vnis = seen
    <3>1. Len(vnis) = Len(seen) BY <1>1, <1>2, <2>1, <2>2
    <3> QED BY <2>1, <2>2, <3>1
  <2>4. TunnelValue' BY <1>1, <1>4, <2>3 DEF TunnelValue
  <2>5. TunnelTypes' BY <1>1, <1>2, <1>4 DEF TunnelTypes
  <2> QED BY <1>1, <2>4, <2>5 DEF TunnelInv, TunnelEmitting, TunnelFirst, TunnelLater
<1> QED BY <1>2, <1>3, <1>4

(* Every step of emit and of the two loops keeps the invariant.            *)
LEMMA TunnelNext == TunnelInv /\ [Tunnel!Next]_(Tunnel!vars) => TunnelInv'
<1> SUFFICES ASSUME TunnelInv, [Tunnel!Next]_(Tunnel!vars) PROVE TunnelInv' OBVIOUS
<1>1. CASE Tunnel!SkipEntry \/ Tunnel!EnterEntry \/ Tunnel!ReadInner \/ Tunnel!LeaveEntry
  <2>1. status = "parsing" /\ trips \in Nat
    BY <1>1 DEF Tunnel!SkipEntry, Tunnel!EnterEntry, Tunnel!ReadInner, Tunnel!LeaveEntry,
       Tunnel!Outer, Tunnel!Inner, TunnelInv, TunnelTypes
  <2>2. CASE trips = 0
    BY <1>1, <2>1, <2>2, TunnelSkips, TunnelEnters, TunnelReads, TunnelLeaves
  <2>3. CASE trips > 0 BY <1>1, <2>1, <2>3, TunnelReadsOwn
  <2> QED BY <2>1, <2>2, <2>3
<1>2. CASE UNCHANGED Tunnel!vars
  <2>1. UNCHANGED <<vnis, built, received, wire, off, at, in, seen, trips, status>>
    BY <1>2 DEF Tunnel!vars
  <2>2. /\ Tunnel!Starts' = Tunnel!Starts /\ TunnelUpTo' = TunnelUpTo /\ TunnelVni' = TunnelVni
    BY <2>1, TunnelSame
  <2>3. TunnelDone' = TunnelDone BY <2>1, <2>2 DEF TunnelDone
  <2>4. TunnelTypes' BY <2>1 DEF TunnelInv, TunnelTypes
  <2>5. TunnelFirst' BY <2>1, <2>2, <2>3 DEF TunnelInv, TunnelFirst, Selected
  <2>6. TunnelValue' BY <2>1, <2>2 DEF TunnelInv, TunnelValue, Selected
  <2> QED BY <2>1, <2>4, <2>5, <2>6 DEF TunnelInv, TunnelEmitting, TunnelLater
<1> QED BY <1>1, <1>2, TunnelSends, TunnelReturns DEF Tunnel!Next

(* And it says what is checked of tunnel/message.rs.                       *)
LEMMA TunnelGives ==
  TunnelInv => Tunnel!TypeOK /\ Tunnel!RoundTrip /\ Tunnel!ReadAsSent /\ Tunnel!Resent
<1> SUFFICES ASSUME TunnelInv
             PROVE  Tunnel!TypeOK /\ Tunnel!RoundTrip /\ Tunnel!ReadAsSent /\ Tunnel!Resent
  OBVIOUS
<1>0. TunnelTypes BY DEF TunnelInv
<1>1. Tunnel!TypeOK
  <2>1. /\ vnis \in Seq(Vnis) /\ wire \in Seq(TunnelEntries)
        /\ trips \in Nat /\ at \in Nat /\ in \in Nat
    BY <1>0 DEF TunnelTypes
  <2>2. status = "parsing" => at \in 1 .. Len(wire) + 1
    BY <1>0, <2>1 DEF TunnelTypes, TunnelInv, TunnelFirst, TunnelLater
  <2>3. ASSUME in > 0 PROVE in <= Len(wire[at].inner) + 1
    <3>1. status = "parsing" BY <1>0, <2>3 DEF TunnelTypes
    <3>2. CASE trips = 0 BY <2>3, <3>1, <3>2 DEF TunnelInv, TunnelFirst
    <3>3. CASE trips > 0
      <4>1. at \in 1 .. Len(wire) /\ in <= 2 /\ wire[at] = OwnEntry(seen[at])
        BY <1>0, <2>1, <2>3, <3>1, <3>3 DEF TunnelTypes, TunnelInv, TunnelLater
      <4>2. Len(wire[at].inner) = 1 BY <4>1 DEF OwnEntry
      <4> QED BY <2>1, <4>1, <4>2
    <3> QED BY <2>1, <3>2, <3>3
  <2>4. status = "emitting" =>
          off <= Tunnel!BufferLen /\ (Len(wire) = Len(vnis) => off = Tunnel!BufferLen)
    <3> SUFFICES ASSUME status = "emitting"
                 PROVE  off <= Tunnel!BufferLen /\ (Len(wire) = Len(vnis) => off = Tunnel!BufferLen)
      OBVIOUS
    <3>1. off = 12 * Len(wire) /\ Len(wire) <= Len(vnis) BY DEF TunnelInv, TunnelEmitting
    <3>2. Tunnel!BufferLen = 12 * Len(vnis) BY <2>1 DEF Tunnel!BufferLen, Tunnel!ENTRY_LEN
    <3>3. Len(wire) \in Nat /\ Len(vnis) \in Nat BY <2>1
    <3> QED BY <3>1, <3>2, <3>3
  <2>5. \A k \in 1 .. Len(vnis) : vnis[k] \in Vnis BY <2>1
  <2>6. status \in {"value", "emitting", "parsing"} BY <1>0 DEF TunnelTypes
  <2> QED BY <2>2, <2>3, <2>4, <2>5, <2>6 DEF Tunnel!TypeOK
<1>2. Tunnel!RoundTrip
  <2> SUFFICES ASSUME received = Tunnel!NoMessage, status = "value" PROVE vnis = built
    BY DEF Tunnel!RoundTrip
  <2>1. seen = built
    <3> SUFFICES ASSUME received \in Seq(TunnelEntries) PROVE FALSE BY <1>0 DEF TunnelTypes
    <3>1. Len(received) = 1 /\ received[1].tag = "None" BY DEF Tunnel!NoMessage
    <3>2. received[1] \in TunnelEntries BY <3>1
    <3> QED BY <3>1, <3>2 DEF TunnelEntries
  <2> QED BY <2>1 DEF TunnelInv, TunnelValue
<1>3. Tunnel!ReadAsSent
  <2> SUFFICES ASSUME received # Tunnel!NoMessage, status = "value", trips = 0
               PROVE  /\ Len(vnis) = Cardinality(Tunnel!Starts)
                      /\ \A p \in Tunnel!Starts :
                           vnis[Cardinality(Tunnel!UpTo(p))] = received[p[1]].inner[p[2]].vni
    BY TunnelCardinality DEF Tunnel!ReadAsSent
  <2>1. Selected(vnis, Tunnel!Starts, TunnelUpTo, TunnelVni) BY DEF TunnelInv, TunnelValue
  <2> QED BY <2>1 DEF Selected, TunnelUpTo, TunnelVni
<1>4. Tunnel!Resent BY DEF Tunnel!Resent, TunnelInv, TunnelValue
<1> QED BY <1>1, <1>2, <1>3, <1>4
-----------------------------------------------------------------------------
(* ARP and NS targets of a bond (link/link_info/bond.rs).                  *)

(* The members a kernel's list can have: of any index, of either family,   *)
(* or malformed.                                                           *)
BondMembers ==
  [index : Nat, family : Bond!Families \union {"malformed"}, addr : Addresses]

(* A list of addresses is the one that the list it began with stands for.  *)
MeantTargets(list) ==
  IF first[1] = "kernel"
  THEN /\ Len(list) = Cardinality(Bond!Own)
       /\ \A k \in Bond!Own : list[Cardinality(Bond!Own \cap 1 .. k)] = first[2][k].addr
  ELSE list = first[2]

(* The targets on the wire.                                                *)
Targets == [k \in 1 .. Len(wire) |-> wire[k].addr]

(* The first reading has kept its own of the members read; after it, the   *)
(* wire is the list as the crate numbers it.                               *)
BondFirst ==
  /\ (trips = 0 /\ first[1] = "kernel") =>
       /\ wire = first[2]
       /\ Len(addrs) = Cardinality(Bond!Own \cap 1 .. at)
       /\ \A k \in Bond!Own \cap 1 .. at :
            addrs[Cardinality(Bond!Own \cap 1 .. k)] = first[2][k].addr
       /\ status = "value" => at = Len(wire)
  /\ (trips = 0 /\ first[1] = "application") => status = "value" /\ addrs = first[2]

(* Every later reading is one of a list that the crate has numbered        *)
(* itself, which stands for the same targets.                              *)
BondLater ==
  trips > 0 =>
    /\ status # "err" /\ Len(addrs) = at
    /\ \A k \in 1 .. Len(wire) : wire[k] = Bond!Member(k - 1, family, wire[k].addr)
    /\ \A k \in 1 .. at : addrs[k] = wire[k].addr
    /\ status = "value" => at = Len(wire)
    /\ MeantTargets(Targets)

(* The inductive invariant of bond.rs.                                     *)
BondInv ==
  /\ Bond!TypeOK /\ BondFirst /\ BondLater
  /\ first \in ({"kernel"} \X Seq(BondMembers)) \cup ({"application"} \X Seq(Addresses))

(* What a list stands for does not change while it is in use.              *)
LEMMA TargetsStay ==
  ASSUME UNCHANGED <<family, first>>, MeantTargets(Targets')
  PROVE  MeantTargets(Targets)' /\ Bond!Own' = Bond!Own
<1>1. Bond!Own' = Bond!Own BY DEF Bond!Own
<1> QED BY <1>1 DEF MeantTargets

(* The instance counts as the theorems about finite sets do.               *)
LEMMA BondCardinality == \A S : Bond!Cardinality(S) = Cardinality(S)
BY Zenon DEF Bond!Cardinality, Cardinality

(* It holds of what the kernel sent and of what a caller built.            *)
LEMMA BondInit == Bond!Init => BondInv
<1> SUFFICES ASSUME Bond!Init PROVE BondInv OBVIOUS
<1>0. MaxTargets \in Nat /\ MaxTrips \in Nat BY BoundsAssumption, MaxTripsAssumption
<1>1. Bond!Members \union {Bond!Malformed} \subseteq BondMembers
  <2>1. (CHOOSE a \in Addresses : TRUE) \in Addresses BY TargetsAssumption
  <2>2. Bond!Malformed \in BondMembers BY <2>1 DEF Bond!Malformed, Bond!Member, BondMembers
  <2>3. Bond!Members \subseteq BondMembers BY TargetsAssumption DEF Bond!Members, BondMembers
  <2> QED BY <2>2, <2>3
<1>2. CASE status = "wire"
  <2>1. wire \in Seq(BondMembers) BY <1>0, <1>1, <1>2, ListsSeq DEF Bond!Init, Bond!Lists
  <2>2. /\ family \in {"V4", "V6"} /\ at = 0 /\ trips = 0 /\ addrs = <<>>
        /\ first = <<"kernel", wire>>
    BY <1>2 DEF Bond!Init
  <2>3. Bond!Own \cap 1 .. at = {} BY <2>2
  <2> QED BY <1>0, <1>2, <2>1, <2>2, <2>3, FS_EmptySet
      DEF BondInv, BondFirst, BondLater, Bond!TypeOK, BondMembers
<1>3. CASE status = "value"
  <2>1. addrs \in Seq(Addresses) BY <1>0, <1>3, ListsSeq DEF Bond!Init, Bond!Lists
  <2> QED BY <1>0, <1>3, <2>1 DEF Bond!Init, BondInv, BondFirst, BondLater, Bond!TypeOK
<1> QED BY <1>2, <1>3 DEF Bond!Init

(* What is counted up to the n-th member.                                  *)
LEMMA OwnCounted ==
  ASSUME BondInv, first[1] = "kernel", NEW n \in 0 .. Len(first[2])
  PROVE  IsFiniteSet(Bond!Own \cap 1 .. n) /\ Cardinality(Bond!Own \cap 1 .. n) \in 0 .. n
<1>1. n \in Nat BY DEF BondInv, BondFirst, BondLater
<1>2. IsFiniteSet(1 .. n) /\ Cardinality(1 .. n) = n BY <1>1, FS_Interval
<1>3. /\ IsFiniteSet(Bond!Own \cap 1 .. n) /\ Cardinality(Bond!Own \cap 1 .. n) <= n
  BY <1>2, FS_Intersection
<1> QED BY <1>1, <1>3, FS_CardinalityType

(* A value is the list it began with.                                      *)
LEMMA BondValue == ASSUME BondInv, status = "value" PROVE MeantTargets(addrs)
<1>1. CASE trips = 0 /\ first[1] = "kernel"
  <2>1. /\ first[2] \in Seq(BondMembers) /\ at = Len(first[2])
    BY <1>1 DEF BondInv, BondFirst, BondLater
  <2>2. Bond!Own \cap 1 .. at = Bond!Own BY <2>1 DEF Bond!Own
  <2> QED BY <1>1, <2>2 DEF BondInv, BondFirst, BondLater, MeantTargets
<1>2. CASE trips = 0 /\ first[1] = "application"
  BY <1>2 DEF BondInv, BondFirst, BondLater, MeantTargets
<1>3. CASE trips > 0
  <2>1. addrs = Targets BY <1>3 DEF BondInv, BondLater, Bond!TypeOK, Targets
  <2> QED BY <1>3, <2>1 DEF BondInv, BondFirst, BondLater
<1> QED BY <1>1, <1>2, <1>3 DEF BondInv, BondFirst, BondLater, Bond!TypeOK

(* BondIpAddrNlaList numbers the targets from 0, so nothing of them is     *)
(* lost.                                                                   *)
LEMMA BondEmit == ASSUME BondInv, Bond!Emit PROVE BondInv'
<1>1. /\ status = "value" /\ trips < MaxTrips /\ at' = 0 /\ addrs' = <<>> /\ trips' = trips + 1
      /\ status' = "wire" /\ UNCHANGED <<family, first>>
      /\ wire' = [k \in DOMAIN addrs |-> Bond!Member(k - 1, family, addrs[k])]
  BY DEF Bond!Emit, Bond!BondIpAddrNlaList
<1>2. addrs \in Seq(Addresses) /\ family \in {"V4", "V6"} /\ trips \in Nat
  BY DEF BondInv, BondFirst, BondLater, Bond!TypeOK
<1>3. wire' \in Seq(BondMembers) /\ Len(wire') = Len(addrs)
  <2>1. ASSUME NEW k \in 1 .. Len(addrs)
        PROVE  Bond!Member(k - 1, family, addrs[k]) \in BondMembers
    <3>1. k - 1 \in Nat /\ addrs[k] \in Addresses BY <1>2
    <3> QED BY <1>2, <3>1 DEF Bond!Member, BondMembers, Bond!Families
  <2>2. DOMAIN addrs = 1 .. Len(addrs) /\ Len(addrs) \in Nat BY <1>2
  <2> QED BY <1>1, <2>1, <2>2
<1>4. \A k \in 1 .. Len(wire') :
        wire'[k] = Bond!Member(k - 1, family, addrs[k]) /\ wire'[k].addr = addrs[k]
  BY <1>1, <1>2, <1>3 DEF Bond!Member
<1>5. Targets' = addrs BY <1>2, <1>3, <1>4 DEF Targets
<1>6. MeantTargets(Targets)' BY <1>1, <1>5, BondValue, TargetsStay
<1>7. Bond!TypeOK' BY <1>1, <1>2, <1>3, MaxTripsAssumption DEF Bond!TypeOK, BondMembers
<1>8. BondLater' BY <1>1, <1>4, <1>6 DEF BondLater
<1>9. BondFirst' BY <1>1, <1>2 DEF BondFirst
<1> QED BY <1>1, <1>7, <1>8, <1>9 DEF BondInv

(* A member of the right family is pushed: it is the next of the kernel's  *)
(* own, or the next that the crate wrote.                                  *)
LEMMA BondTake == ASSUME BondInv, Bond!Take PROVE BondInv'
<1>1. /\ status = "wire" /\ at < Len(wire) /\ wire[at + 1].family = family
      /\ addrs' = Append(addrs, wire[at + 1].addr) /\ at' = at + 1
      /\ UNCHANGED <<family, wire, first, trips, status>>
  BY DEF Bond!Take, Bond!More, Bond!Here
<1>2. /\ wire \in Seq(BondMembers) /\ at \in 0 .. Len(wire) /\ addrs \in Seq(Addresses)
      /\ Len(addrs) <= at /\ trips \in Nat
  BY <1>1 DEF BondInv, BondFirst, BondLater, Bond!TypeOK, BondMembers
<1>3. wire[at + 1].addr \in Addresses
  <2>1. wire[at + 1] \in BondMembers BY <1>1, <1>2
  <2> QED BY <2>1 DEF BondMembers
<1>4. Bond!TypeOK' BY <1>1, <1>2, <1>3 DEF Bond!TypeOK, BondInv
<1>5. CASE trips = 0
  <2>1. first[1] = "kernel" /\ wire = first[2] BY <1>1, <1>5 DEF BondInv, BondFirst, BondLater
  <2> DEFINE S == Bond!Own \cap 1 .. at
             upto == [k \in 1 .. Len(wire) |-> Bond!Own \cap 1 .. k]
             value == [k \in 1 .. Len(wire) |-> wire[k].addr]
  <2>2. Selected(addrs, S, upto, value) /\ at + 1 \notin S
    <3>1. IsFiniteSet(S) BY <1>2, <2>1, OwnCounted
    <3>2. at + 1 \notin S BY <1>2
    <3>3. Len(addrs) = Cardinality(S) BY <1>5, <2>1 DEF BondInv, BondFirst, BondLater
    <3>4. ASSUME NEW q \in S
          PROVE  /\ upto[q] \subseteq S /\ q \in upto[q]
                 /\ addrs[Cardinality(upto[q])] = value[q]
      <4>1. q \in 1 .. Len(wire) /\ q <= at /\ upto[q] = Bond!Own \cap 1 .. q BY <1>2
      <4>2. addrs[Cardinality(Bond!Own \cap 1 .. q)] = first[2][q].addr
        BY <1>5, <2>1 DEF BondInv, BondFirst, BondLater
      <4> QED BY <4>1, <4>2, <1>2, <2>1
    <3> QED BY <3>1, <3>2, <3>3, <3>4 DEF Selected
  <2>3. /\ upto[at + 1] = S \cup {at + 1} /\ wire[at + 1].addr = value[at + 1]
        /\ S \cup {at + 1} = Bond!Own \cap 1 .. at + 1
    BY <1>1, <1>2, <2>1 DEF Bond!Own
  <2> HIDE DEF S, upto, value
  <2>4. /\ Len(addrs') = Cardinality(S \cup {at + 1})
        /\ \A q \in S \cup {at + 1} : addrs'[Cardinality(upto[q])] = value[q]
    <3>1. value[at + 1] \in Addresses BY <1>3, <2>3
    <3>2. addrs' = Append(addrs, value[at + 1]) BY <1>1, <2>3
    <3>3. addrs \in Seq(Addresses) /\ upto[at + 1] = S \cup {at + 1} BY <1>2, <2>3
    <3>4. Selected(addrs', S \cup {at + 1}, upto, value)
      BY <2>2, <3>1, <3>2, <3>3, SelectNext
    <3> QED BY <3>4 DEF Selected
  <2>5. \A q \in Bond!Own \cap 1 .. at + 1 :
          upto[q] = Bond!Own \cap 1 .. q /\ value[q] = first[2][q].addr
    BY <1>1, <1>2, <2>1 DEF upto, value
  <2>6. Bond!Own' = Bond!Own BY <1>1 DEF Bond!Own
  <2>7. BondFirst' BY <1>1, <1>5, <2>1, <2>3, <2>4, <2>5, <2>6 DEF BondFirst
  <2>8. BondLater' BY <1>1, <1>5 DEF BondLater
  <2> QED BY <1>1, <1>4, <2>7, <2>8 DEF BondInv
<1>6. CASE trips > 0
  <2>1. \A k \in 1 .. at + 1 : addrs'[k] = wire[k].addr /\ Len(addrs') = at + 1
    BY <1>1, <1>2, <1>3, <1>6 DEF BondInv, BondFirst, BondLater
  <2>2. Targets' = Targets /\ MeantTargets(Targets)
    BY <1>1, <1>6 DEF BondInv, BondLater, Targets
  <2>3. MeantTargets(Targets)' BY <1>1, <2>2, TargetsStay
  <2>4. BondLater' BY <1>1, <1>6, <2>1, <2>3 DEF BondInv, BondLater
  <2>5. BondFirst' BY <1>1, <1>6 DEF BondFirst
  <2> QED BY <1>1, <1>4, <2>4, <2>5 DEF BondInv
<1> QED BY <1>2, <1>5, <1>6

(* A member of the other family, or of none, is dropped; what the crate    *)
(* wrote has no such member.                                               *)
LEMMA BondDrop == ASSUME BondInv, Bond!Drop PROVE BondInv'
<1>1. /\ status = "wire" /\ at < Len(wire) /\ wire[at + 1].family # family
      /\ at' = at + 1 /\ UNCHANGED <<family, wire, addrs, first, trips, status>>
  BY DEF Bond!Drop, Bond!More, Bond!Here
<1>2. at \in 0 .. Len(wire) /\ trips \in Nat /\ wire \in Seq(BondMembers) /\ Len(addrs) \in Nat
  BY DEF BondInv, BondFirst, BondLater, Bond!TypeOK, BondMembers
<1>3. ~(trips > 0)
  <2> SUFFICES ASSUME trips > 0 PROVE FALSE OBVIOUS
  <2>1. wire[at + 1] = Bond!Member(at + 1 - 1, family, wire[at + 1].addr)
    BY <1>1, <1>2 DEF BondInv, BondFirst, BondLater
  <2> QED BY <1>1, <2>1 DEF Bond!Member
<1>4. first[1] = "kernel" /\ wire = first[2] /\ trips = 0
  BY <1>1, <1>2, <1>3 DEF BondInv, BondFirst, BondLater
<1>5. Bond!Own \cap 1 .. at + 1 = Bond!Own \cap 1 .. at BY <1>1, <1>2, <1>4 DEF Bond!Own
<1>6. Bond!Own' = Bond!Own BY <1>1 DEF Bond!Own
<1>7. Bond!TypeOK' BY <1>1, <1>2 DEF BondInv, BondFirst, BondLater, Bond!TypeOK
<1>8. BondFirst' BY <1>1, <1>4, <1>5, <1>6 DEF BondInv, BondFirst
<1>9. BondLater' BY <1>1, <1>4 DEF BondLater
<1> QED BY <1>1, <1>7, <1>8, <1>9 DEF BondInv

(* Only the status changes, and it does at the end.                        *)
LEMMA BondStays ==
  ASSUME BondInv, Bond!TypeOK', UNCHANGED <<family, wire, at, addrs, first, trips>>,
         status' # status => at = Len(wire) /\ status' = "value"
  PROVE  BondInv'
<1>1. Targets' = Targets /\ Bond!Own' = Bond!Own BY DEF Targets, Bond!Own
<1>2. MeantTargets(Targets) => MeantTargets(Targets)' BY <1>1, TargetsStay
<1>3. BondLater' BY <1>2 DEF BondInv, BondLater
<1>4. BondFirst' BY <1>1 DEF BondInv, BondFirst
<1> QED BY <1>3, <1>4 DEF BondInv

(* Every step of the loops over bond targets keeps the invariant.          *)
LEMMA BondNext == BondInv /\ [Bond!Next]_(Bond!vars) => BondInv'
<1> SUFFICES ASSUME BondInv, [Bond!Next]_(Bond!vars) PROVE BondInv' OBVIOUS
<1>1. CASE Bond!Refuse
  <2>1. /\ status = "wire" /\ at < Len(wire) /\ wire[at + 1].family = "malformed"
        /\ status' = "err" /\ UNCHANGED <<family, wire, at, addrs, first, trips>>
    BY <1>1 DEF Bond!Refuse, Bond!More, Bond!Here
  <2>2. trips = 0
    <3>1. trips \in Nat /\ at \in 0 .. Len(wire) /\ family # "malformed"
      BY DEF BondInv, BondFirst, BondLater, Bond!TypeOK
    <3> SUFFICES ASSUME trips > 0 PROVE FALSE BY <3>1
    <3>2. wire[at + 1] = Bond!Member(at + 1 - 1, family, wire[at + 1].addr)
      BY <2>1, <3>1 DEF BondInv, BondFirst, BondLater
    <3> QED BY <2>1, <3>1, <3>2 DEF Bond!Member
  <2> QED BY <2>1, <2>2 DEF BondInv, BondFirst, BondLater, Bond!TypeOK, Bond!Own
<1>2. CASE Bond!Return
  <2>1. /\ status = "wire" /\ at = Len(wire) /\ status' = "value"
        /\ UNCHANGED <<family, wire, at, addrs, first, trips>>
    BY <1>2 DEF Bond!Return
  <2>2. Bond!TypeOK' BY <2>1 DEF BondInv, Bond!TypeOK
  <2> QED BY <2>1, <2>2, BondStays
<1>3. CASE UNCHANGED Bond!vars
  <2>1. UNCHANGED <<family, wire, at, addrs, first, trips, status>> BY <1>3 DEF Bond!vars
  <2>2. Bond!TypeOK' BY <2>1 DEF BondInv, Bond!TypeOK
  <2> QED BY <2>1, <2>2, BondStays
<1> QED BY <1>1, <1>2, <1>3, BondEmit, BondTake, BondDrop DEF Bond!Next

(* And it says what is checked of bond.rs.                                 *)
LEMMA BondGives == BondInv => Bond!TypeOK /\ Bond!RoundTrip /\ Bond!ReadAsSent /\ Bond!Resent
<1> SUFFICES ASSUME BondInv
             PROVE  Bond!TypeOK /\ Bond!RoundTrip /\ Bond!ReadAsSent /\ Bond!Resent
  OBVIOUS
<1>1. Bond!TypeOK BY DEF BondInv, BondFirst, BondLater
<1>2. Bond!RoundTrip
  <2>1. ASSUME first[1] = "application" PROVE status # "err"
    BY <2>1 DEF BondInv, BondFirst, BondLater, Bond!TypeOK
  <2> QED BY <2>1, BondValue DEF Bond!RoundTrip, MeantTargets
<1>3. Bond!ReadAsSent
  <2> SUFFICES ASSUME first[1] = "kernel", status = "value"
               PROVE  /\ Len(addrs) = Cardinality(Bond!Own)
                      /\ \A k \in Bond!Own :
                           addrs[Cardinality(Bond!Own \cap 1 .. k)] = first[2][k].addr
    BY BondCardinality DEF Bond!ReadAsSent
  <2> QED BY BondValue DEF MeantTargets
<1>4. Bond!Resent
  <2> SUFFICES ASSUME first[1] = "kernel", trips > 0, status # "err"
               PROVE  wire = first[2] <=>
                        \A k \in DOMAIN first[2] :
                          first[2][k].family = family /\ first[2][k].index = k - 1
    BY DEF Bond!Resent
  <2>1. first[2] \in Seq(BondMembers) /\ wire \in Seq(BondMembers)
    BY DEF BondInv, BondFirst, BondLater, Bond!TypeOK, BondMembers
  <2>2. \A k \in 1 .. Len(wire) : wire[k].family = family /\ wire[k].index = k - 1
    <3> SUFFICES ASSUME NEW k \in 1 .. Len(wire)
                 PROVE  wire[k].family = family /\ wire[k].index = k - 1
      OBVIOUS
    <3>1. wire[k] = Bond!Member(k - 1, family, wire[k].addr) BY DEF BondInv, BondLater
    <3> QED BY <3>1 DEF Bond!Member
  <2>3. ASSUME \A k \in DOMAIN first[2] :
                 first[2][k].family = family /\ first[2][k].index = k - 1
        PROVE  wire = first[2]
    <3>1. Bond!Own = 1 .. Len(first[2]) BY <2>1, <2>3 DEF Bond!Own
    <3>2. \A k \in 0 .. Len(first[2]) : Cardinality(1 .. k) = k BY <2>1, FS_Interval
    <3>3. /\ Len(Targets) = Cardinality(Bond!Own)
          /\ \A k \in Bond!Own : Targets[Cardinality(Bond!Own \cap 1 .. k)] = first[2][k].addr
      BY DEF BondInv, BondLater, MeantTargets
    <3>4. Len(wire) = Len(first[2]) BY <2>1, <3>1, <3>2, <3>3 DEF Targets
    <3>5. ASSUME NEW k \in 1 .. Len(wire) PROVE wire[k].addr = first[2][k].addr
      <4>1. Bond!Own \cap 1 .. k = 1 .. k /\ k \in Bond!Own /\ k \in 0 .. Len(first[2])
        BY <2>1, <3>1, <3>4
      <4>2. Targets[k] = first[2][k].addr BY <3>2, <3>3, <4>1
      <4> QED BY <4>2 DEF Targets
    <3>6. ASSUME NEW k \in 1 .. Len(wire) PROVE wire[k] = first[2][k]
      <4>1. wire[k] \in BondMembers /\ first[2][k] \in BondMembers BY <2>1, <3>4
      <4>2. /\ wire[k].family = first[2][k].family /\ wire[k].index = first[2][k].index
            /\ wire[k].addr = first[2][k].addr
        <5>1. k \in DOMAIN first[2] BY <2>1, <3>4
        <5> QED BY <5>1, <2>2, <2>3, <3>5
      <4> QED BY <4>1, <4>2 DEF BondMembers
    <3> QED BY <2>1, <3>4, <3>6
  <2> QED BY <2>1, <2>2, <2>3
<1> QED BY <1>1, <1>2, <1>3, <1>4
-----------------------------------------------------------------------------
(* The inductive invariant of the codec whose behaviour this is.           *)
IInv ==
  /\ part = "seg6" => SegInv
  /\ part = "mpls" => MplsInv
  /\ part = "u32" => U32Inv
  /\ part = "mdb" => MdbInv
  /\ part = "tunnel" => TunnelInv
  /\ part = "bond" => BondInv

(* Whichever codec starts does so within its invariant.                    *)
LEMMA InitIInv == Init => IInv
BY SegInit, MplsInit, U32Init, MdbInit, TunnelInit, BondInit DEF Init, IInv

(* A step of one codec keeps its invariant and leaves it the one whose     *)
(* behaviour this is.                                                      *)
LEMMA NextIInv == IInv /\ [Next]_vars => IInv'
<1> SUFFICES ASSUME IInv, [Next]_vars PROVE IInv' OBVIOUS
<1>1. ASSUME part = "seg6", [Srv6!Next]_(Srv6!vars), UNCHANGED part PROVE IInv'
  <2>1. SegInv' BY <1>1, SegNext DEF IInv
  <2> QED BY <1>1, <2>1 DEF IInv
<1>2. ASSUME part = "mpls", [Mpls!Next]_(Mpls!vars), UNCHANGED part PROVE IInv'
  <2>1. MplsInv' BY <1>2, MplsNext DEF IInv
  <2> QED BY <1>2, <2>1 DEF IInv
<1>3. ASSUME part = "u32", [U32!Next]_(U32!vars), UNCHANGED part PROVE IInv'
  <2>1. U32Inv' BY <1>3, U32Next DEF IInv
  <2> QED BY <1>3, <2>1 DEF IInv
<1>4. ASSUME part = "mdb", [Mdb!Next]_(Mdb!vars), UNCHANGED part PROVE IInv'
  <2>1. MdbInv' BY <1>4, MdbNext DEF IInv
  <2> QED BY <1>4, <2>1 DEF IInv
<1>5. ASSUME part = "tunnel", [Tunnel!Next]_(Tunnel!vars), UNCHANGED part PROVE IInv'
  <2>1. TunnelInv' BY <1>5, TunnelNext DEF IInv
  <2> QED BY <1>5, <2>1 DEF IInv
<1>6. ASSUME part = "bond", [Bond!Next]_(Bond!vars), UNCHANGED part PROVE IInv'
  <2>1. BondInv' BY <1>6, BondNext DEF IInv
  <2> QED BY <1>6, <2>1 DEF IInv
<1>7. CASE Next BY <1>7, <1>1, <1>2, <1>3, <1>4, <1>5, <1>6 DEF Next
<1>8. CASE UNCHANGED vars
  <2>1. /\ UNCHANGED <<part, at, built, first, origin, status, tail, trips, wire, words>>
        /\ UNCHANGED <<form, build, hdrs, tailTlv, emitted>>
        /\ UNCHANGED <<labels, i>> /\ UNCHANGED <<nkeys, keys, count, slots>>
        /\ UNCHANGED <<msg, level, source, dst, vni, out>>
        /\ UNCHANGED <<vnis, received, off, in, seen>> /\ UNCHANGED <<family, addrs>>
    BY <1>8 DEF vars, seg6Vars, mplsVars, u32Vars, mdbVars, tunnelVars, bondVars
  <2>2. UNCHANGED Srv6!vars BY <2>1 DEF Srv6!vars
  <2>3. UNCHANGED Mpls!vars BY <2>1 DEF Mpls!vars
  <2>4. UNCHANGED U32!vars BY <2>1 DEF U32!vars
  <2>5. UNCHANGED Mdb!vars BY <2>1 DEF Mdb!vars
  <2>6. UNCHANGED Tunnel!vars BY <2>1 DEF Tunnel!vars
  <2>7. UNCHANGED Bond!vars BY <2>1 DEF Bond!vars
  <2>8. CASE part \notin {"seg6", "mpls", "u32", "mdb", "tunnel", "bond"}
    BY <2>1, <2>8 DEF IInv
  <2> QED BY <2>1, <2>2, <2>3, <2>4, <2>5, <2>6, <2>7, <2>8, <1>1, <1>2, <1>3, <1>4, <1>5, <1>6
<1> QED BY <1>7, <1>8

(* Each codec's invariant gives its part of the six properties.            *)
LEMMA IInvGives ==
  IInv => TypeOK /\ RoundTrip /\ ReadAsSent /\ Resent /\ DamageBounded /\ PanicsKnown
BY SegGives, MplsGives, U32Gives, MdbGives, TunnelGives, BondGives
DEF IInv, TypeOK, RoundTrip, ReadAsSent, Resent, DamageBounded, PanicsKnown

(* The loops of Ipv6SrHdr, of MPLS stacks, of u32 keys, of                 *)
(* parse_mdb_entries, of tunnel VNIs and of bond targets stay inside their *)
(* lists and their offsets inside their buffers, whatever the lengths and  *)
(* counts in the message say.                                              *)
THEOREM TypeOKHolds == FairSpec => []TypeOK
BY InitIInv, NextIInv, IInvGives, PTL DEF FairSpec

(* What a caller builds within the limits of the format comes back as it   *)
(* was, from seg6.rs, mpls.rs, tunnel/message.rs and bond.rs, on any       *)
(* number of trips.                                                        *)
THEOREM RoundTripHolds == FairSpec => []RoundTrip
BY InitIInv, NextIInv, IInvGives, PTL DEF FairSpec

(* The loops of seg6.rs, cls_u32.rs, mdb/entry.rs, tunnel/message.rs and   *)
(* bond.rs return what can be said without loops of the message they read, *)
(* whatever is in it: every element that counts, once, in its order and    *)
(* from its own attributes.                                                *)
THEOREM ReadAsSentHolds == FairSpec => []ReadAsSent
BY InitIInv, NextIInv, IInvGives, PTL DEF FairSpec

(* What the kernel sent and the crate decoded is sent on as it came, but   *)
(* for the HMAC of an SRv6 header and the indexes of bond targets, however *)
(* often (Ipv6SrHdr::emit, TunnelMessage::emit, BondIpAddrNlaList::from).  *)
THEOREM ResentHolds == FairSpec => []Resent
BY InitIInv, NextIInv, IInvGives, PTL DEF FairSpec

(* Several SRv6 headers in one tunnel are refused if their number is even  *)
(* and become one header, with no byte lost, if it is odd                  *)
(* (Seg6IpTunnelEncap::emit and ::parse); a value too wide for its bits in *)
(* an MPLS stack entry spoils the label of that entry (From<MplsLabel>).   *)
THEOREM DamageBoundedHolds == FairSpec => []DamageBounded
BY InitIInv, NextIInv, IInvGives, PTL DEF FairSpec

(* Ipv6SrHdr::parse and TcU32Selector panic in the named cases only, and   *)
(* never on what came back from them before.                               *)
THEOREM PanicsKnownHolds == FairSpec => []PanicsKnown
BY InitIInv, NextIInv, IInvGives, PTL DEF FairSpec
=============================================================================
