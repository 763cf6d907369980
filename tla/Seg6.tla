-------------------------------- MODULE Seg6 --------------------------------
(***************************************************************************)
(* The SRv6 segment routing header (route/seg6.rs).  It is decoded in two  *)
(* places by two parsers: Ipv6SrHdr::parse, for SEG6_LOCAL_SRH, believes   *)
(* the segments_left field and takes what is behind the segments for a     *)
(* TLV; Seg6IpTunnelEncap::parse, for SEG6_IPTUNNEL_SRH, ignores the field *)
(* and takes all of the rest for segments.  Both are emitted by            *)
(* Ipv6SrHdr::emit, a tunnel with a mode in front and one header after the *)
(* other.                                                                  *)
(*                                                                         *)
(* Everything is a multiple of 8 bytes: the fixed part of a header is one  *)
(* word, a segment two, an HMAC TLV five.  Of a word we keep what a parser *)
(* can take it for: byte 3 (segments_left of a fixed part) and bytes 0 and *)
(* 1 (type and length of a TLV).  A payload from the wire ends anywhere,   *)
(* in a tail of less than a word.                                          *)
(***************************************************************************)
EXTENDS Integers, Sequences, FiniteSets

CONSTANTS
  Lefts,         \* values of byte 3 of a word that occur
  MaxWords,      \* longest payload from the wire, in words
  MaxSegments,   \* longest segment list a caller builds
  ManySegments,  \* a longer list, at the limit of u8 arithmetic
  MaxHeaders,    \* most headers a caller puts into a tunnel
  MaxTrips       \* emissions of one value

(* What bytes 0 and 1 say as a TLV: SR6_TLV_HMAC with length 38, with      *)
(* another length, or another type.                                        *)
TlvTypes == {"hmac", "shortHmac", "other"}

Words == [left : 0 .. 255, tlv : TlvTypes]
Segments == Words \X Words
HMAC_WORDS == 5

(* An Ipv6SrHdr.  tlvs holds the words of the HMAC TLV, if there is one.   *)
Hdr(fixed, segments, tlvs) == [fixed |-> fixed, segments |-> segments, tlvs |-> tlvs]

Hdrs == [fixed : Words, segments : Seq(Segments), tlvs : Seq(Seq(Words))]

VARIABLES
  form,     \* the parser: "srh" or "tunnel"
  build,    \* "debug": overflow panics, or "release": it wraps
  origin,   \* "caller" or "wire"
  hdrs,     \* the headers of the value
  first,    \* the first value there was
  words,    \* the payload behind the mode of a tunnel
  tail,     \* bytes behind the last word
  tailTlv,  \* what they say as a TLV
  emitted,  \* headers emit has written
  trips,    \* emissions begun
  status    \* "value", "emitting", "wire", "err" or "panic"

vars == <<form, build, origin, hdrs, first, words, tail, tailTlv, emitted, trips, status>>

NoValue == <<>>
-----------------------------------------------------------------------------
Lists(S, n) == UNION {[1 .. k -> S] : k \in 0 .. n}

(* A payload from the wire: a fixed part and more words, of which the ones *)
(* that can stand where a TLV is looked for say anything.                  *)
Plain(left) == [left |-> left, tlv |-> "other"]
Payload(n, left, tlv) ==
  [i \in 1 .. n |->
     IF i = 1 THEN Plain(left)
     ELSE [left |-> i % 3, tlv |-> IF i % 2 = 0 THEN tlv[i] ELSE "other"]]
TlvChoices == [{i \in 2 .. MaxWords : i % 2 = 0} -> TlvTypes]

(* The segments and headers of a caller.                                   *)
SomeSegments == {<<[left |-> 0, tlv |-> t], Plain(1)>> : t \in {"other", "hmac"}}

LongSegments == [i \in 1 .. ManySegments |-> CHOOSE s \in SomeSegments : TRUE]

CallerHdrs ==
  [fixed : {Plain(left) : left \in Lefts},
   segments : Lists(SomeSegments, MaxSegments) \cup {LongSegments}, tlvs : {<<>>}]

(* Headers of a list of several: which ones matters less than how many.    *)
ShortHdrs == {h \in CallerHdrs : h.fixed.left = 0 /\ Len(h.segments) <= 1}

Init ==
  /\ form \in {"srh", "tunnel"}
  /\ build \in {"debug", "release"}
  /\ \/ /\ origin = "wire" /\ status = "wire"
        /\ hdrs = NoValue
        /\ \E n \in 0 .. MaxWords, left \in Lefts, tlv \in TlvChoices : words = Payload(n, left, tlv)
        /\ tail \in {0, 3, 4, 7}
        /\ tailTlv \in IF tail = 0 THEN {"other"} ELSE TlvTypes
     \/ /\ origin = "caller" /\ status = "value"
        /\ hdrs \in {<<h>> : h \in CallerHdrs}
             \cup (IF form = "tunnel" THEN Lists(ShortHdrs, MaxHeaders) ELSE {})
        /\ words = <<>> /\ tail = 0 /\ tailTlv = "other"
  /\ first = hdrs
  /\ emitted = 0
  /\ trips = 0
-----------------------------------------------------------------------------
(* Ipv6SrHdr::emit: the fixed part and the segments.  The TLVs are not     *)
(* written, and nothing looks at segments_left.                            *)
EmitHdrWords(h) ==
  <<h.fixed>> \o [k \in 1 .. 2 * Len(h.segments) |->
                    h.segments[(k + 1) \div 2][IF k % 2 = 1 THEN 1 ELSE 2]]

StartEmit ==
  /\ status = "value"
  /\ trips < MaxTrips
  /\ trips' = trips + 1
  /\ emitted' = 0
  /\ words' = <<>> /\ tail' = 0 /\ tailTlv' = "other"
  /\ status' = "emitting"
  /\ UNCHANGED <<form, build, origin, hdrs, first>>

(* Faulty: every header is written to the same place (DamageBounded).      *)
EmitHdrInPlace ==
  /\ status = "emitting"
  /\ emitted < Len(hdrs)
  /\ words' = EmitHdrWords(hdrs[emitted + 1])
  /\ emitted' = emitted + 1
  /\ UNCHANGED <<form, build, origin, hdrs, first, tail, tailTlv, trips, status>>

(* One header of the loop in Seg6IpTunnelEncap::emit; the only one of a    *)
(* SEG6_LOCAL_SRH.                                                         *)
EmitHdr ==
  /\ status = "emitting"
  /\ emitted < Len(hdrs)
  /\ words' = words \o EmitHdrWords(hdrs[emitted + 1])
  /\ emitted' = emitted + 1
  /\ UNCHANGED <<form, build, origin, hdrs, first, tail, tailTlv, trips, status>>

Deliver ==
  /\ status = "emitting"
  /\ emitted = Len(hdrs)
  /\ status' = "wire"
  /\ UNCHANGED <<form, build, origin, hdrs, first, words, tail, tailTlv, emitted, trips>>
-----------------------------------------------------------------------------
(* split_at(16), n times over, behind the fixed part.                      *)
SegmentsOf(n) == [i \in 1 .. n |-> <<words[2 * i], words[2 * i + 1]>>]

(* A parser returns.                                                       *)
Parsed(value) ==
  /\ hdrs' = value
  /\ first' = IF first = NoValue /\ origin = "wire" THEN value ELSE first
  /\ status' = "value"
  /\ emitted' = 0
  /\ UNCHANGED <<form, build, origin, words, tail, tailTlv, trips>>

Fails(how) ==
  /\ status' = how
  /\ UNCHANGED <<form, build, origin, hdrs, first, words, tail, tailTlv, emitted, trips>>

Parsing(f) == status = "wire" /\ form = f

(* Seg6IpTunnelEncap::parse: a fixed part, and whole segments behind it.   *)
TunnelOk == words # <<>> /\ Len(words) % 2 = 1 /\ tail = 0

RefuseTunnel ==
  /\ Parsing("tunnel")
  /\ ~TunnelOk
  /\ Fails("err")

(* Whatever is left makes the segments of one header.                      *)
ParseTunnel ==
  /\ Parsing("tunnel")
  /\ TunnelOk
  /\ Parsed(<<Hdr(words[1], SegmentsOf((Len(words) - 1) \div 2), <<>>)>>)
-----------------------------------------------------------------------------
(* Faulty: one segment fewer than there are (RoundTrip, ReadAsSent).       *)
SegLenShort(left) == left * 16

(* `(segments_left + 1) * 16`, on its way to u8.                           *)
SegLen(left) == (left + 1) * 16

(* What the release build makes of it.                                     *)
SegLenU8(left) == SegLen(left) % 256

(* The debug build panics over what the release build lets pass.           *)
OverflowSrh ==
  /\ Parsing("srh")
  /\ words # <<>>
  /\ build = "debug"
  /\ SegLen(words[1].left) > 255
  /\ Fails("panic")

(* The computation of seglen is passed.                                    *)
Computed == words # <<>> /\ (build = "release" \/ SegLen(words[1].left) <= 255)

(* Bytes behind the fixed part and the segments.                           *)
Leftover == 8 * (Len(words) - 1) + tail - SegLenU8(words[1].left)

(* The first word behind the segments, and what it says as a TLV.          *)
TlvAt == 2 + SegLenU8(words[1].left) \div 8
TlvHere == IF TlvAt <= Len(words) THEN words[TlvAt].tlv ELSE tailTlv

(* Too short for the fixed part, for the segments or for the header of a   *)
(* TLV, or an HMAC of the wrong length.                                    *)
RefuseSrh ==
  /\ Parsing("srh")
  /\ \/ words = <<>>
     \/ /\ Computed
        /\ \/ Leftover < 0
           \/ Leftover \in 1 .. 3
           \/ Leftover > 3 /\ TlvHere = "shortHmac"
  /\ Fails("err")

(* Faulty: looks for an HMAC in the rest without a length check            *)
(* (PanicsKnown).                                                          *)
HmacCutUnchecked ==
  /\ Parsing("srh")
  /\ Computed
  /\ Leftover \in 1 .. 8 * HMAC_WORDS - 1
  /\ TlvHere = "hmac"
  /\ Fails("panic")

(* The HMAC's 40 bytes are sliced from a rest that only has been checked   *)
(* for 4.                                                                  *)
HmacCut ==
  /\ Parsing("srh")
  /\ Computed
  /\ Leftover \in 4 .. 8 * HMAC_WORDS - 1
  /\ TlvHere = "hmac"
  /\ Fails("panic")

(* Faulty: segments and TLV at the same place (Resent).                    *)
ParseSrhTlvFirst ==
  /\ Parsing("srh")
  /\ Computed
  /\ \/ Leftover = 0 \/ (Leftover > 3 /\ TlvHere = "other")
     \/ Leftover >= 8 * HMAC_WORDS /\ TlvHere = "hmac"
  /\ LET tlvs == IF Leftover > 0 /\ TlvHere = "hmac"
                 THEN <<SubSeq(words, TlvAt, TlvAt + HMAC_WORDS - 1)>>
                 ELSE <<>>
     IN Parsed(<<Hdr(words[1], IF tlvs = <<>> THEN SegmentsOf(SegLenU8(words[1].left) \div 16)
                               ELSE <<>>, tlvs)>>)

(* One TLV is looked at and the rest dropped; other TLVs are dropped, too. *)
ParseSrh ==
  /\ Parsing("srh")
  /\ Computed
  /\ \/ Leftover = 0 \/ (Leftover > 3 /\ TlvHere = "other")
     \/ Leftover >= 8 * HMAC_WORDS /\ TlvHere = "hmac"
  /\ LET tlvs == IF Leftover > 0 /\ TlvHere = "hmac"
                 THEN <<SubSeq(words, TlvAt, TlvAt + HMAC_WORDS - 1)>>
                 ELSE <<>>
     IN Parsed(<<Hdr(words[1], SegmentsOf(SegLenU8(words[1].left) \div 16), tlvs)>>)

Next ==
  \/ StartEmit \/ EmitHdr \/ Deliver
  \/ RefuseTunnel \/ ParseTunnel
  \/ OverflowSrh \/ RefuseSrh \/ HmacCut \/ ParseSrh

Spec == Init /\ [][Next]_vars
-----------------------------------------------------------------------------
(* The variables hold what their Rust types say, and the payload is the    *)
(* bytes that the parsers may index.                                       *)
TypeOK ==
  /\ form \in {"srh", "tunnel"}
  /\ build \in {"debug", "release"}
  /\ origin \in {"caller", "wire"}
  /\ hdrs \in Seq(Hdrs) /\ first \in Seq(Hdrs)
  /\ words \in Seq(Words)
  /\ tail \in 0 .. 7
  /\ tailTlv \in TlvTypes
  /\ emitted \in Nat /\ emitted <= Len(hdrs)
  /\ trips \in 0 .. MaxTrips
  /\ status \in {"value", "emitting", "wire", "err", "panic"}

(* A value that Ipv6SrHdr::parse gives back: its segments are as many as   *)
(* segments_left says, few enough for u8, and there is no TLV.             *)
Countable(h) == Len(h.segments) = h.fixed.left + 1 /\ h.fixed.left < 15 /\ h.tlvs = <<>>

(* Emitting and decoding inverts: a countable header as SEG6_LOCAL_SRH,    *)
(* and one header of any number of segments as SEG6_IPTUNNEL_SRH, never    *)
(* fail and come back as they were built.                                  *)
RoundTrip ==
  (origin = "caller" /\ Len(first) = 1 /\ (form = "srh" => Countable(first[1]))) =>
    /\ status \notin {"err", "panic"}
    /\ hdrs = first

(* Segments of the first n headers, each by its header and its place.     *)
FirstSegments(value, n) == UNION {{k} \X (1 .. Len(value[k].segments)) : k \in 1 .. n}
Total(value) == Cardinality(FirstSegments(value, Len(value)))

(* The fate of a tunnel that is not a single header: none and an even      *)
(* number are emitted to what the decoder refuses; of an odd number it     *)
(* makes one header, the fixed parts of the others taken, by two, for the  *)
(* halves of segments.  No byte is lost.                                   *)
DamageBounded ==
  (form = "tunnel" /\ origin = "caller" /\ trips = 1 /\ Len(first) # 1) =>
    /\ status # "panic"
    /\ status = "err" => Len(first) % 2 = 0
    /\ status = "value" =>
         /\ Len(first) % 2 = 1
         /\ Len(hdrs) = 1
         /\ hdrs[1].fixed = first[1].fixed
         /\ Len(hdrs[1].segments) = Total(first) + (Len(first) - 1) \div 2

(* What came from the wire loses its TLV when it is sent on, and nothing   *)
(* else, ever: neither the segments nor the fixed part change on any trip, *)
(* and what was decoded once is not refused and does not panic later.      *)
Resent ==
  (origin = "wire" /\ first # NoValue) =>
    /\ status \notin {"err", "panic"}
    /\ hdrs[1].fixed = first[1].fixed
    /\ hdrs[1].segments = first[1].segments
    /\ (trips > 0 /\ status = "value") => hdrs[1].tlvs = <<>>

(* A release build decodes as many segments as segments_left announces,    *)
(* unless u8 has wrapped: it then reads fewer, and takes the rest for a    *)
(* TLV.  No segment is made up.                                            *)
ReadAsSent ==
  (form = "srh" /\ status = "value" /\ (origin = "wire" \/ trips > 0)) =>
    LET h == hdrs[1]
    IN /\ Len(h.segments) <= h.fixed.left + 1
       /\ Len(h.segments) < h.fixed.left + 1 <=> h.fixed.left >= 15
       /\ h.fixed.left >= 15 => build = "release"

(* Panics are confined to SEG6_LOCAL_SRH: to 15 segments left and more in  *)
(* a debug build, and to what looks like an HMAC in a payload that is not  *)
(* that of a countable header.                                             *)
PanicsKnown ==
  status = "panic" =>
    /\ form = "srh"
    /\ \/ build = "debug" /\ words[1].left >= 15
       \/ Leftover \in 4 .. 39 /\ TlvHere = "hmac"
    /\ origin = "caller" => ~Countable(first[1])
=============================================================================
