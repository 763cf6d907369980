-------------------------- MODULE Multipath_proofs --------------------------
(***************************************************************************)
(* Proofs about RTA_MULTIPATH, for attributes of every length, every       *)
(* rtnh_len and lists of every number of next hops.                        *)
(***************************************************************************)
EXTENDS Multipath, TLAPS

(* No two next hops of a list start at the same offset.                    *)
Ordered(s) ==
  \A i, j \in 1 .. Len(s) : i < j => s[i].off + s[i].len <= s[j].off

(* The list ends where its last next hop does.                             *)
EndsLast(s) ==
  \A i \in 1 .. Len(s) : s[i].off + s[i].len <= End(s)

(* The hops measured are a prefix of the caller's list, and all of it once *)
(* measuring is over; the emitter stays inside the value it was given.     *)
SentInv ==
  /\ LaidOut(sent)
  /\ Ordered(sent)
  /\ EndsLast(sent)
  /\ Len(sent) <= Len(built)
  /\ \A i \in 1 .. Len(sent) : sent[i].len = BufferLen(built[i])
  /\ status = "measuring" => at = End(sent)
  /\ status \in {"measuring", "emitting"} => hops = <<>>
  /\ status = "emitting" => at <= payload
  /\ (origin = "caller" /\ status # "measuring") => Len(sent) = Len(built)

(* Where the decoder stands.                                               *)
WalkInv ==
  /\ HopsTile
  /\ OkIsWhole
  /\ status = "running" => at = End(hops)

(* The value a caller's list that fits is emitted into has its length, and *)
(* what the decoder has read is a prefix of it.  One that does not fit has *)
(* less room than it needs and gets no further than the emitter.           *)
PrefixInv ==
  (origin = "caller" /\ status # "measuring" /\ built # <<>>) =>
    IF Fits
    THEN /\ payload = End(sent)
         /\ status \in {"emitting", "running", "ok"}
         /\ Len(hops) <= Len(sent)
         /\ \A i \in 1 .. Len(hops) : hops[i] = sent[i]
         /\ status = "running" => Len(hops) < Len(sent)
         /\ status = "ok" => Len(hops) = Len(sent)
    ELSE /\ payload < End(sent)
         /\ status \in {"emitting", "panic"}

IInv == TypeOK /\ SentInv /\ WalkInv /\ PrefixInv
-----------------------------------------------------------------------------
(* The fields of a next hop of a list.                                     *)
LEMMA HopFields ==
  ASSUME NEW s \in Seq(Hops), NEW i \in 1 .. Len(s)
  PROVE  s[i] \in Hops /\ s[i].off \in Nat /\ s[i].len \in Nat
<1>1. s[i] \in Hops OBVIOUS
<1> QED BY <1>1 DEF Hops

(* A list of next hops ends at a natural offset.                           *)
LEMMA EndType ==
  ASSUME NEW s \in Seq(Hops)
  PROVE  End(s) \in Nat
<1>1. CASE s = <<>> BY <1>1 DEF End
<1>2. CASE s # <<>>
  <2>1. s[Len(s)] \in Hops BY <1>2
  <2> QED BY <1>2, <2>1 DEF End, Hops
<1> QED BY <1>1, <1>2

(* Appending a next hop at the end of a list keeps the list laid out.      *)
LEMMA AppendHop ==
  ASSUME NEW s \in Seq(Hops), NEW len \in Nat, len >= PAYLOAD_OFFSET,
         LaidOut(s)
  PROVE  LET t == Append(s, [off |-> End(s), len |-> len])
         IN  /\ t \in Seq(Hops)
             /\ Len(t) = Len(s) + 1
             /\ t # <<>>
             /\ \A i \in 1 .. Len(s) : t[i] = s[i]
             /\ t[Len(t)] = [off |-> End(s), len |-> len]
             /\ LaidOut(t)
             /\ End(t) = End(s) + len
<1> DEFINE h == [off |-> End(s), len |-> len]
           t == Append(s, h)
<1>1. End(s) \in Nat BY EndType
<1>2. h \in Hops BY <1>1 DEF Hops
<1>3. /\ t \in Seq(Hops) /\ Len(t) = Len(s) + 1 /\ Len(s) \in Nat /\ t # <<>>
      /\ \A i \in 1 .. Len(s) : t[i] = s[i]
      /\ t[Len(t)] = h
  BY <1>2
<1>4. End(t) = End(s) + len
  BY <1>3 DEF End
<1>5. t[1].off = 0
  <2>1. CASE s = <<>>
    BY <2>1, <1>3 DEF End
  <2>2. CASE s # <<>>
    <3>1. 1 \in 1 .. Len(s) BY <2>2
    <3> QED BY <2>2, <3>1, <1>3 DEF LaidOut
  <2> QED BY <2>1, <2>2
<1>6. ASSUME NEW i \in 1 .. Len(t) PROVE t[i].len >= PAYLOAD_OFFSET
  <2>1. CASE i \in 1 .. Len(s) BY <2>1, <1>3 DEF LaidOut
  <2>2. CASE i = Len(t) BY <2>2, <1>3
  <2> QED BY <2>1, <2>2, <1>3
<1>7. ASSUME NEW i \in 1 .. Len(t) - 1 PROVE t[i + 1].off = t[i].off + t[i].len
  <2>1. CASE i \in 1 .. Len(s) - 1
    <3>1. i \in 1 .. Len(s) /\ i + 1 \in 1 .. Len(s) BY <2>1, <1>3
    <3> QED BY <2>1, <3>1, <1>3 DEF LaidOut
  <2>2. CASE i = Len(s)
    <3>1. i \in 1 .. Len(s) /\ i + 1 = Len(t) /\ s # <<>> BY <2>2, <1>3
    <3> QED BY <2>2, <3>1, <1>3 DEF End
  <2> QED BY <2>1, <2>2, <1>3
<1>8. LaidOut(t) BY <1>5, <1>6, <1>7 DEF LaidOut
<1> QED BY <1>3, <1>4, <1>8

(* ... and ordered.                                                        *)
LEMMA AppendOrdered ==
  ASSUME NEW s \in Seq(Hops), NEW len \in Nat, len >= PAYLOAD_OFFSET,
         LaidOut(s), Ordered(s), EndsLast(s)
  PROVE  LET t == Append(s, [off |-> End(s), len |-> len])
         IN  Ordered(t) /\ EndsLast(t)
<1> DEFINE h == [off |-> End(s), len |-> len]
           t == Append(s, h)
<1>1. End(s) \in Nat BY EndType
<1>2. /\ t \in Seq(Hops) /\ Len(t) = Len(s) + 1 /\ Len(s) \in Nat
      /\ \A i \in 1 .. Len(s) : t[i] = s[i]
      /\ t[Len(t)] = h /\ h.off = End(s) /\ h.len = len
      /\ End(t) = End(s) + len
  BY AppendHop
<1> HIDE DEF t, h
<1>3. ASSUME NEW i \in 1 .. Len(t), NEW j \in 1 .. Len(t), i < j
      PROVE  t[i].off + t[i].len <= t[j].off
  <2>1. CASE j \in 1 .. Len(s)
    BY <2>1, <1>2, <1>3 DEF Ordered
  <2>2. CASE j = Len(t)
    <3>1. i \in 1 .. Len(s) BY <2>2, <1>2, <1>3
    <3> QED BY <2>2, <3>1, <1>2 DEF EndsLast
  <2> QED BY <2>1, <2>2, <1>2
<1>4. ASSUME NEW i \in 1 .. Len(t)
      PROVE  t[i].off + t[i].len <= End(t)
  <2>1. CASE i \in 1 .. Len(s)
    <3>1. s[i].off + s[i].len <= End(s) BY <2>1 DEF EndsLast
    <3>2. s[i].off \in Nat /\ s[i].len \in Nat BY <2>1, HopFields
    <3> QED BY <2>1, <3>1, <3>2, <1>1, <1>2
  <2>2. CASE i = Len(t)
    BY <2>2, <1>1, <1>2
  <2> QED BY <2>1, <2>2, <1>2
<1> QED BY <1>3, <1>4 DEF Ordered, EndsLast, t, h

(* The invariant holds where emitting or decoding starts.                  *)
LEMMA InitIInv == Init => IInv
<1> SUFFICES ASSUME Init PROVE IInv
  OBVIOUS
<1>1. built \in Seq(AttrBytes)
  <2>1. ASSUME NEW n \in 0 .. MaxHops, built \in [1 .. n -> AttrBytes]
        PROVE  built \in Seq(AttrBytes)
    BY <2>1, MaxHopsAssumption
  <2>2. <<>> \in Seq(AttrBytes) OBVIOUS
  <2>3. CASE built \in UNION {[1 .. n -> AttrBytes] : n \in 0 .. MaxHops}
    <3>1. PICK n \in 0 .. MaxHops : built \in [1 .. n -> AttrBytes] BY <2>3
    <3> QED BY <3>1, <2>1
  <2> QED BY <2>2, <2>3 DEF Init
<1>2. TypeOK
  BY <1>1, MaxPayloadAssumption DEF Init, TypeOK
<1>3. SentInv
  BY <1>1 DEF Init, SentInv, LaidOut, Ordered, EndsLast, End
<1>4. WalkInv /\ PrefixInv
  BY DEF Init, WalkInv, HopsTile, LaidOut, OkIsWhole, End, PrefixInv
<1> QED BY <1>2, <1>3, <1>4 DEF IInv

(* Measuring one more next hop keeps the invariant.                        *)
LEMMA MeasureHopIInv == IInv /\ MeasureHop => IInv'
<1> SUFFICES ASSUME IInv, MeasureHop PROVE IInv'
  OBVIOUS
<1> DEFINE n == Len(sent) + 1
           len == BufferLen(built[n])
<1>1. /\ status = "measuring" /\ status' = status /\ built' = built /\ hops' = hops
      /\ origin' = origin /\ payload' = payload
      /\ sent' = Append(sent, [off |-> End(sent), len |-> len])
      /\ at' = at + len /\ at = End(sent) /\ hops = <<>>
      /\ Len(sent) < Len(built)
  BY DEF MeasureHop, IInv, SentInv
<1>2. built \in Seq(AttrBytes) /\ sent \in Seq(Hops) /\ LaidOut(sent) /\ at \in Nat
      /\ Len(sent) \in Nat /\ Len(built) \in Nat
  BY DEF IInv, TypeOK, SentInv
<1>3. built[n] \in Nat
  <2>1. n \in 1 .. Len(built) BY <1>1, <1>2
  <2>2. built[n] \in AttrBytes BY <2>1, <1>2
  <2> QED BY <2>2, AttrBytesAssumption
<1>4. len \in Nat /\ len >= PAYLOAD_OFFSET
  BY <1>3 DEF BufferLen, PAYLOAD_OFFSET
<1>5. /\ sent' \in Seq(Hops) /\ Len(sent') = Len(sent) + 1
      /\ \A i \in 1 .. Len(sent) : sent'[i] = sent[i]
      /\ sent'[Len(sent')].len = len
      /\ LaidOut(sent') /\ End(sent') = End(sent) + len
  BY <1>1, <1>2, <1>4, AppendHop
<1>6. Ordered(sent') /\ EndsLast(sent')
  BY <1>1, <1>2, <1>4, AppendOrdered DEF IInv, SentInv
<1>7. ASSUME NEW i \in 1 .. Len(sent')
      PROVE  sent'[i].len = BufferLen(built[i])
  <2>1. CASE i \in 1 .. Len(sent) BY <2>1, <1>5 DEF IInv, SentInv
  <2>2. CASE i = Len(sent') BY <2>2, <1>2, <1>5
  <2> QED BY <2>1, <2>2, <1>2, <1>5
<1>8. TypeOK'
  <2>1. at' \in Nat BY <1>1, <1>2, <1>4
  <2> QED BY <2>1, <1>1, <1>5 DEF IInv, TypeOK
<1>9. SentInv'
  <2>1. LaidOut(sent)' /\ Ordered(sent)' /\ EndsLast(sent)'
    BY <1>5, <1>6 DEF LaidOut, Ordered, EndsLast, End
  <2>2. Len(sent') <= Len(built') BY <1>1, <1>2, <1>5
  <2>3. at' = End(sent)' BY <1>1, <1>5 DEF End
  <2>4. \A i \in 1 .. Len(sent') : sent'[i].len = BufferLen(built'[i])
    BY <1>1, <1>7
  <2> QED BY <1>1, <2>1, <2>2, <2>3, <2>4 DEF SentInv, BufferLen
<1>10. WalkInv' /\ PrefixInv'
  BY <1>1 DEF IInv, WalkInv, HopsTile, LaidOut, OkIsWhole, PrefixInv
<1> QED BY <1>8, <1>9, <1>10 DEF IInv

(* Opening the value of the attribute keeps the invariant.                 *)
LEMMA OpenValueIInv == IInv /\ OpenValue => IInv'
<1> SUFFICES ASSUME IInv, OpenValue PROVE IInv'
  OBVIOUS
<1> DEFINE nlaLen == (at + NLA_HEADER_SIZE) % U16
<1>1. /\ status = "measuring" /\ status' \in {"emitting", "panic"} /\ at' = 0
      /\ built' = built /\ origin' = origin /\ sent' = sent /\ hops' = hops
      /\ hops = <<>> /\ at = End(sent) /\ Len(sent) = Len(built) /\ at \in Nat
  BY DEF OpenValue, IInv, TypeOK, SentInv
<1>2. /\ nlaLen \in Nat /\ nlaLen < U16
      /\ at + NLA_HEADER_SIZE < U16 => nlaLen = at + NLA_HEADER_SIZE
  BY <1>1 DEF U16, NLA_HEADER_SIZE
<1>3. payload' \in Nat
  BY <1>1, <1>2 DEF OpenValue, NLA_HEADER_SIZE
<1>4. TypeOK'
  BY <1>1, <1>3 DEF IInv, TypeOK
<1>5. SentInv'
  BY <1>1, <1>3 DEF IInv, SentInv, LaidOut, Ordered, EndsLast, End, BufferLen
<1>6. WalkInv'
  BY <1>1 DEF WalkInv, HopsTile, LaidOut, OkIsWhole, End
<1>7. CASE Fits
  <2>1. nlaLen = at + NLA_HEADER_SIZE
    BY <1>1, <1>2, <1>7 DEF Fits
  <2>2. payload' = at /\ status' = "emitting"
    BY <1>1, <2>1 DEF OpenValue, NLA_HEADER_SIZE
  <2>3. sent \in Seq(Hops) /\ Len(hops) = 0 /\ Len(sent) \in Nat
    BY <1>1 DEF IInv, TypeOK
  <2>4. Len(hops') <= Len(sent') /\ \A i \in 1 .. Len(hops') : hops'[i] = sent'[i]
    BY <1>1, <2>3
  <2>5. Fits' /\ payload' = End(sent)'
    BY <1>1, <1>7, <2>2 DEF Fits, End
  <2>6. PrefixInv'
    BY <2>2, <2>4, <2>5 DEF PrefixInv
  <2> QED BY <1>4, <1>5, <1>6, <2>6 DEF IInv
<1>8. CASE ~Fits
  <2>1. payload' < at
    BY <1>1, <1>2, <1>8 DEF Fits, OpenValue, NLA_HEADER_SIZE, U16
  <2>2. ~Fits' /\ payload' < End(sent)'
    BY <1>1, <1>8, <2>1 DEF Fits, End
  <2>3. PrefixInv'
    BY <1>1, <2>2 DEF PrefixInv
  <2> QED BY <1>4, <1>5, <1>6, <2>3 DEF IInv
<1> QED BY <1>7, <1>8

(* Writing a next hop into the value keeps the invariant.                  *)
LEMMA EmitHopIInv == IInv /\ EmitHop => IInv'
<1> SUFFICES ASSUME IInv, EmitHop PROVE IInv'
  OBVIOUS
<1>1. PICK i \in 1 .. Len(sent) :
        at + sent[i].len <= payload /\ at' = at + sent[i].len
  BY DEF EmitHop, Here
<1>2. /\ status = "emitting" /\ status' = status /\ built' = built /\ hops' = hops
      /\ origin' = origin /\ payload' = payload /\ sent' = sent
      /\ at \in Nat /\ sent \in Seq(Hops)
  BY DEF EmitHop, IInv, TypeOK
<1>3. at' \in Nat /\ at' <= payload'
  <2>1. sent[i].len \in Nat BY <1>2, HopFields
  <2> QED BY <1>1, <1>2, <2>1
<1>4. TypeOK'
  BY <1>2, <1>3 DEF IInv, TypeOK
<1>5. SentInv'
  BY <1>2, <1>3 DEF IInv, SentInv, LaidOut, Ordered, EndsLast, End, BufferLen
<1>6. WalkInv' /\ PrefixInv'
  BY <1>2 DEF IInv, WalkInv, HopsTile, LaidOut, OkIsWhole, PrefixInv, Fits, End
<1> QED BY <1>4, <1>5, <1>6 DEF IInv

(* The emitter leaves its slice only for a list that does not fit.         *)
LEMMA EmitBeyondIInv == IInv /\ EmitBeyond => IInv'
<1> SUFFICES ASSUME IInv, EmitBeyond PROVE IInv'
  OBVIOUS
<1>1. PICK i \in 1 .. Len(sent) :
        sent[i].off = at /\ at + sent[i].len > payload
  BY DEF EmitBeyond, Here
<1>2. /\ status = "emitting" /\ status' = "panic" /\ built' = built /\ hops' = hops
      /\ origin' = origin /\ payload' = payload /\ sent' = sent /\ at' = at
      /\ at \in Nat /\ payload \in Nat /\ sent \in Seq(Hops) /\ EndsLast(sent)
  BY DEF EmitBeyond, IInv, TypeOK, SentInv
<1>3. payload # End(sent)
  <2>1. sent[i].len \in Nat /\ End(sent) \in Nat BY <1>2, HopFields, EndType
  <2>2. sent[i].off + sent[i].len <= End(sent) BY <1>2 DEF EndsLast
  <2> QED BY <1>1, <1>2, <2>1, <2>2
<1>4. TypeOK' BY <1>2 DEF IInv, TypeOK
<1>5. SentInv'
  BY <1>2 DEF IInv, SentInv, LaidOut, Ordered, EndsLast, End, BufferLen
<1>6. WalkInv'
  BY <1>2 DEF IInv, WalkInv, HopsTile, LaidOut, OkIsWhole
<1>7. PrefixInv'
  BY <1>2, <1>3 DEF IInv, PrefixInv, Fits, End
<1> QED BY <1>4, <1>5, <1>6, <1>7 DEF IInv

(* A list that has been written whole is one that fits.                    *)
LEMMA DeliverIInv == IInv /\ Deliver => IInv'
<1> SUFFICES ASSUME IInv, Deliver PROVE IInv'
  OBVIOUS
<1>1. /\ status = "emitting" /\ status' = "running" /\ at' = 0
      /\ built' = built /\ origin' = origin /\ sent' = sent /\ hops' = hops
      /\ payload' = payload /\ hops = <<>> /\ at = End(sent) /\ at \in Nat
      /\ payload \in Nat /\ at <= payload
      /\ built \in Seq(AttrBytes) /\ sent \in Seq(Hops)
      /\ origin = "caller" => Len(sent) = Len(built)
  BY DEF Deliver, IInv, TypeOK, SentInv
<1>2. TypeOK'
  BY <1>1 DEF IInv, TypeOK
<1>3. SentInv'
  BY <1>1 DEF IInv, SentInv, LaidOut, Ordered, EndsLast, End, BufferLen
<1>4. WalkInv'
  BY <1>1 DEF WalkInv, HopsTile, LaidOut, OkIsWhole, End
<1>5. PrefixInv'
  <2> SUFFICES ASSUME origin = "caller", built # <<>>
               PROVE  Fits /\ payload = End(sent) /\ Len(hops) < Len(sent)
    BY <1>1 DEF PrefixInv, Fits, End
  <2>1. Fits /\ payload = End(sent)
    BY <1>1 DEF IInv, PrefixInv
  <2>2. Len(built) \in Nat /\ Len(built) # 0
    BY <1>1
  <2> QED BY <1>1, <2>1, <2>2
<1> QED BY <1>2, <1>3, <1>4, <1>5 DEF IInv

(* The length field of the next hop a prefix stops at is the one the       *)
(* emitter wrote there.                                                    *)
LEMMA ReadsWhatWasSent ==
  ASSUME IInv, status = "running", origin = "caller", built # <<>>, Fits
  PROVE  LET n == Len(hops) + 1
         IN  /\ n \in 1 .. Len(sent)
             /\ at = sent[n].off
             /\ RtnhLen(at) = {sent[n].len}
             /\ sent[n].len \in Nat
             /\ sent[n].len >= PAYLOAD_OFFSET
             /\ sent[n].len < U16
             /\ sent[n].off + sent[n].len <= payload
             /\ (n = Len(sent)) <=> (payload - at = sent[n].len)
<1> DEFINE n == Len(hops) + 1
<1>1. /\ sent \in Seq(Hops) /\ hops \in Seq(Hops) /\ Len(hops) \in Nat
      /\ Len(sent) \in Nat /\ Len(hops) < Len(sent) /\ payload = End(sent)
      /\ \A i \in 1 .. Len(hops) : hops[i] = sent[i]
      /\ at = End(hops) /\ LaidOut(sent) /\ Ordered(sent) /\ EndsLast(sent)
  BY DEF IInv, TypeOK, PrefixInv, WalkInv, SentInv
<1>2. n \in 1 .. Len(sent)
  BY <1>1
<1>3. at = sent[n].off
  <2>1. CASE hops = <<>>
    BY <2>1, <1>1, <1>2 DEF End, LaidOut
  <2>2. CASE hops # <<>>
    <3>1. Len(hops) \in 1 .. Len(hops) /\ Len(hops) \in 1 .. Len(sent) - 1
      BY <2>2, <1>1
    <3> QED BY <2>2, <3>1, <1>1 DEF End, LaidOut
  <2> QED BY <2>1, <2>2
<1>4. /\ sent[n].off \in Nat /\ sent[n].len \in Nat /\ sent[n].len >= PAYLOAD_OFFSET
      /\ sent[n].off + sent[n].len <= End(sent) /\ End(sent) \in Nat
  BY <1>1, <1>2, EndType, HopFields DEF LaidOut, EndsLast
<1>5. sent[n].len < U16
  BY <1>4 DEF Fits, NLA_HEADER_SIZE, U16
<1>6. ASSUME NEW i \in 1 .. Len(sent), sent[i].off = at PROVE i = n
  <2>1. sent[i].off \in Nat /\ sent[i].len \in Nat /\ sent[i].len >= PAYLOAD_OFFSET
    BY <1>1, <1>6, HopFields DEF LaidOut
  <2>2. ~(i < n) BY <2>1, <1>1, <1>2, <1>3, <1>4, <1>6 DEF Ordered, PAYLOAD_OFFSET
  <2>3. ~(n < i) BY <2>1, <1>1, <1>2, <1>3, <1>4, <1>6 DEF Ordered, PAYLOAD_OFFSET
  <2> QED BY <2>2, <2>3, <1>1, <1>2
<1>7. RtnhLen(at) = {sent[n].len}
  <2>1. Here(at) = {n}
    BY <1>2, <1>3, <1>6 DEF Here
  <2>2. sent[n].len % U16 = sent[n].len BY <1>4, <1>5 DEF U16
  <2> QED BY <2>1, <2>2 DEF RtnhLen
<1>8. (n = Len(sent)) <=> (payload - at = sent[n].len)
  <2>1. CASE n = Len(sent)
    BY <2>1, <1>1, <1>2, <1>3, <1>4 DEF End
  <2>2. CASE n < Len(sent)
    <3>1. n + 1 \in 1 .. Len(sent) /\ n \in 1 .. Len(sent) - 1 BY <2>2, <1>1, <1>2
    <3>2. /\ sent[n + 1].off = sent[n].off + sent[n].len
          /\ sent[n + 1].len \in Nat /\ sent[n + 1].len >= PAYLOAD_OFFSET
          /\ sent[n + 1].off \in Nat
          /\ sent[n + 1].off + sent[n + 1].len <= End(sent)
      BY <3>1, <1>1, HopFields DEF LaidOut, EndsLast
    <3> QED BY <2>2, <3>2, <1>1, <1>3, <1>4 DEF PAYLOAD_OFFSET
  <2> QED BY <2>1, <2>2, <1>1, <1>2
<1> QED BY <1>1, <1>2, <1>3, <1>4, <1>5, <1>7, <1>8

(* The four ways a decoder gives up.                                       *)
GivesUp == TooShort \/ MessageOverflow \/ Underflow \/ RefuseHop

(* A caller's list is never refused once it has been emitted.              *)
LEMMA NeverRefused ==
  ASSUME IInv, origin = "caller", built # <<>>
  PROVE  ~GivesUp
<1> SUFFICES ASSUME status = "running" PROVE ~GivesUp
  BY DEF GivesUp, TooShort, MessageOverflow, Underflow, RefuseHop
<1> Fits
  BY DEF IInv, PrefixInv
<1> DEFINE n == Len(hops) + 1
<1>1. /\ n \in 1 .. Len(sent) /\ at = sent[n].off /\ RtnhLen(at) = {sent[n].len}
      /\ sent[n].len \in Nat /\ sent[n].len >= PAYLOAD_OFFSET /\ sent[n].len < U16
      /\ sent[n].off + sent[n].len <= payload
  BY ReadsWhatWasSent
<1>2. at \in Nat /\ payload \in Nat
  BY DEF IInv, TypeOK
<1>3. Checked(sent[n].len)
  BY <1>1, <1>2 DEF Checked, Rest, PAYLOAD_OFFSET
<1>4. ~MessageOverflow
  BY <1>1, <1>2 DEF MessageOverflow, Rest, PAYLOAD_OFFSET
<1>5. ~RefuseHop
  BY <1>1 DEF RefuseHop, Here
<1> QED
  BY <1>1, <1>3, <1>4, <1>5 DEF GivesUp, TooShort, Underflow, PAYLOAD_OFFSET

(* Giving up leaves everything but the status alone.                       *)
LEMMA RefusalIInv == IInv /\ GivesUp => IInv'
<1> SUFFICES ASSUME IInv, GivesUp PROVE IInv'
  OBVIOUS
<1>1. /\ status = "running" /\ status' \in {"err", "panic"} /\ at' = at
      /\ built' = built /\ origin' = origin /\ sent' = sent /\ hops' = hops
      /\ payload' = payload
  BY DEF GivesUp, TooShort, MessageOverflow, Underflow, RefuseHop
<1>2. TypeOK' BY <1>1 DEF IInv, TypeOK
<1>3. SentInv'
  BY <1>1 DEF IInv, SentInv, LaidOut, Ordered, EndsLast, End, BufferLen
<1>4. WalkInv'
  BY <1>1 DEF IInv, WalkInv, HopsTile, LaidOut, OkIsWhole
<1>5. ~(origin = "caller" /\ built # <<>>)
  BY NeverRefused
<1>6. PrefixInv'
  BY <1>1, <1>5 DEF PrefixInv
<1> QED BY <1>2, <1>3, <1>4, <1>6 DEF IInv

(* Taking a next hop off the payload keeps the invariant.                  *)
LEMMA TakeHopIInv == IInv /\ TakeHop => IInv'
<1> SUFFICES ASSUME IInv, TakeHop PROVE IInv'
  OBVIOUS
<1>1. PICK len \in RtnhLen(at) :
        /\ Checked(len) /\ len >= PAYLOAD_OFFSET
        /\ hops' = Append(hops, [off |-> at, len |-> len])
        /\ IF Rest = len
           THEN status' = "ok" /\ UNCHANGED at
           ELSE at' = at + len /\ UNCHANGED status
  BY DEF TakeHop
<1>2. /\ status = "running" /\ at = End(hops) /\ hops \in Seq(Hops) /\ at \in Nat
      /\ built' = built /\ origin' = origin /\ sent' = sent /\ payload' = payload
      /\ payload \in Nat /\ sent \in Seq(Hops) /\ LaidOut(hops)
      /\ Len(hops) \in Nat
  BY DEF TakeHop, IInv, TypeOK, WalkInv, HopsTile
<1>3. len \in Nat
  <2>1. \A i \in 1 .. Len(sent) : sent[i].len % U16 \in Nat
    <3> SUFFICES ASSUME NEW i \in 1 .. Len(sent) PROVE sent[i].len % U16 \in Nat
      OBVIOUS
    <3>1. sent[i].len \in Nat BY <1>2, HopFields
    <3> QED BY <3>1 DEF U16
  <2> QED BY <2>1, WireLengthsAssumption DEF RtnhLen, Here
<1>4. at + len <= payload /\ (Rest = len <=> at + len = payload)
  BY <1>1, <1>2, <1>3 DEF Checked, Rest
<1>5. /\ hops' \in Seq(Hops) /\ Len(hops') = Len(hops) + 1 /\ hops' # <<>>
      /\ \A i \in 1 .. Len(hops) : hops'[i] = hops[i]
      /\ hops'[Len(hops')] = [off |-> at, len |-> len]
      /\ LaidOut(hops') /\ End(hops') = at + len
  BY <1>1, <1>2, <1>3, AppendHop
<1>6. TypeOK'
  BY <1>1, <1>2, <1>3, <1>5 DEF IInv, TypeOK
<1>7. SentInv'
  BY <1>1, <1>2 DEF IInv, SentInv, LaidOut, Ordered, EndsLast, End, BufferLen
<1>8. WalkInv'
  <2>1. LaidOut(hops)' BY <1>5 DEF LaidOut
  <2>2. ASSUME NEW i \in 1 .. Len(hops')
        PROVE  hops'[i].off + hops'[i].len <= payload'
    <3>1. CASE i \in 1 .. Len(hops)
      BY <3>1, <1>2, <1>5 DEF IInv, WalkInv, HopsTile
    <3>2. CASE i = Len(hops')
      BY <3>2, <1>2, <1>4, <1>5
    <3> QED BY <3>1, <3>2, <1>2, <1>5
  <2>3. HopsTile' BY <2>1, <2>2 DEF HopsTile
  <2>4. OkIsWhole' BY <1>1, <1>2, <1>4, <1>5 DEF OkIsWhole
  <2>5. (status = "running" => at = End(hops))'
    BY <1>1, <1>2, <1>5 DEF End
  <2> QED BY <2>3, <2>4, <2>5 DEF WalkInv
<1>9. PrefixInv'
  <2> SUFFICES ASSUME origin = "caller", built # <<>>
               PROVE  /\ Fits
                      /\ payload = End(sent)
                      /\ status' \in {"running", "ok"}
                      /\ Len(hops') <= Len(sent)
                      /\ \A i \in 1 .. Len(hops') : hops'[i] = sent[i]
                      /\ status' = "running" => Len(hops') < Len(sent)
                      /\ status' = "ok" => Len(hops') = Len(sent)
    BY <1>2 DEF PrefixInv, Fits, End
  <2> Fits
    BY <1>2 DEF IInv, PrefixInv
  <2> DEFINE n == Len(hops) + 1
  <2>1. /\ n \in 1 .. Len(sent) /\ at = sent[n].off /\ RtnhLen(at) = {sent[n].len}
        /\ (n = Len(sent)) <=> (payload - at = sent[n].len)
    BY <1>2, ReadsWhatWasSent
  <2>2. len = sent[n].len /\ hops'[n] = sent[n]
    <3>1. sent[n] \in Hops BY <1>2, <2>1
    <3>2. sent[n] = [off |-> sent[n].off, len |-> sent[n].len] BY <3>1 DEF Hops
    <3> QED BY <2>1, <3>2, <1>5
  <2>3. ASSUME NEW i \in 1 .. Len(hops') PROVE hops'[i] = sent[i]
    <3>1. CASE i \in 1 .. Len(hops)
      BY <3>1, <1>2, <1>5 DEF IInv, PrefixInv
    <3>2. CASE i = n BY <3>2, <2>2
    <3> QED BY <3>1, <3>2, <1>2, <1>5
  <2>4. payload = End(sent) BY <1>2 DEF IInv, PrefixInv
  <2>5. /\ status' \in {"running", "ok"}
        /\ status' = "ok" <=> n = Len(sent)
    BY <1>1, <1>2, <2>1, <2>2 DEF Rest
  <2> QED BY <1>2, <1>5, <2>1, <2>3, <2>4, <2>5
<1> QED BY <1>6, <1>7, <1>8, <1>9 DEF IInv

(* Every step keeps the invariant.                                         *)
LEMMA NextIInv == IInv /\ [Next]_vars => IInv'
<1>1. IInv /\ UNCHANGED vars => IInv'
  BY DEF vars, IInv, TypeOK, SentInv, LaidOut, Ordered, EndsLast, End, BufferLen,
         WalkInv, HopsTile, OkIsWhole, PrefixInv, Fits
<1> QED
  BY <1>1, MeasureHopIInv, OpenValueIInv, EmitHopIInv, EmitBeyondIInv, DeliverIInv,
     RefusalIInv, TakeHopIInv DEF Next, GivesUp

(* Encoder and decoder keep the inductive invariant.                       *)
THEOREM Invariance == Spec => []IInv
<1> QED BY InitIInv, NextIInv, PTL DEF Spec
-----------------------------------------------------------------------------
(* What encoder and decoder of RTA_MULTIPATH keep has its type.            *)
THEOREM TypeCorrect == Spec => []TypeOK
<1>1. IInv => TypeOK BY DEF IInv
<1> QED BY <1>1, Invariance, PTL

(* Whatever rtnh_len says, the decoder stays inside the attribute.         *)
THEOREM HopsTileAttribute == Spec => []HopsTile
<1>1. IInv => HopsTile BY DEF IInv, WalkInv
<1> QED BY <1>1, Invariance, PTL

(* An accepted attribute has been read to its last byte.                   *)
THEOREM OkReadsAll == Spec => []OkIsWhole
<1>1. IInv => OkIsWhole BY DEF IInv, WalkInv
<1> QED BY <1>1, Invariance, PTL

(* Every list of next hops that fits into an attribute survives the trip,  *)
(* and one that does not is never sent.                                    *)
THEOREM ListsRoundTrip == Spec => []RoundTrip
<1>1. IInv => RoundTrip
  BY DEF IInv, PrefixInv, SentInv, RoundTrip
<1> QED BY <1>1, Invariance, PTL
=============================================================================
