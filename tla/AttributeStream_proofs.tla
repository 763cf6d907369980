----------------------- MODULE AttributeStream_proofs -----------------------
(***************************************************************************)
(* Proofs about the attribute loop, for payloads of every length and every *)
(* set of declared lengths.                                                *)
(***************************************************************************)
EXTENDS MCAttributeStream, TLAPS

(* The offset just behind an attribute and its padding.                    *)
PaddedEnd(nla) == nla.off + Align(nla.len)

(* What the safety invariants need to be inductive.  The iterator stands   *)
(* on a word boundary as long as there is something left to read, behind   *)
(* everything it has yielded; and a strict loop that has not failed has    *)
(* pushed all of it, and has left no byte before the iterator uncovered.   *)
Aligned == pos < payload.len => pos % 4 = 0

Behind == \A i \in 1 .. Len(nlas) : nlas[i].off + nlas[i].len <= pos

StrictCovers ==
  (mode = "strict" /\ status # "err") =>
    /\ attrs = nlas
    /\ \A o \in 0 .. pos - 1 :
         \E i \in 1 .. Len(nlas) : nlas[i].off <= o /\ o < PaddedEnd(nlas[i])

OkIsAtEnd == status = "ok" => pos >= payload.len

IInv ==
  /\ TypeOK
  /\ Aligned
  /\ Behind
  /\ InBounds
  /\ Disjoint
  /\ Tiled
  /\ StrictCovers
  /\ OkIsAtEnd
-----------------------------------------------------------------------------
(* nla_align! rounds up to the next multiple of the word size.             *)
LEMMA AlignFacts ==
  ASSUME NEW n \in Nat
  PROVE  /\ Align(n) \in Nat
         /\ n <= Align(n)
         /\ Align(n) < n + 4
         /\ Align(n) % 4 = 0
BY DEF Align

(* Word offsets stay word offsets.                                         *)
LEMMA WordSum ==
  ASSUME NEW a \in Nat, NEW b \in Nat, a % 4 = 0, b % 4 = 0
  PROVE  (a + b) % 4 = 0
OBVIOUS

(* While there is something left to read, the iterator stands where a      *)
(* header can be read.                                                     *)
LEMMA HereFacts ==
  ASSUME TypeOK, Aligned, pos < payload.len
  PROVE  /\ pos \in Starts
         /\ payload.declared[pos] \in Nat
         /\ Here \in Nlas
         /\ Here.off = pos
         /\ Here.len = payload.declared[pos]
<1>0. payload.len \in 0 .. MaxPayload /\ pos \in Nat
  BY DEF TypeOK, Payloads
<1>1. pos \in Starts
  <2>1. pos % 4 = 0 BY DEF Aligned
  <2>2. pos \in 0 .. MaxPayload BY <1>0, MaxPayloadAssumption
  <2> QED BY <2>1, <2>2 DEF Starts
<1>2. payload.declared[pos] \in Nat
  BY <1>1, LengthsAssumption DEF TypeOK, Payloads
<1> QED
  BY <1>1, <1>2 DEF Here, Nlas, TypeOK

(* The invariant holds where decoding starts.                              *)
LEMMA InitIInv == Init => IInv
BY DEF Init, IInv, TypeOK, Aligned, Behind, InBounds, Disjoint, Tiled,
       StrictCovers, OkIsAtEnd, Payloads, Modes

(* The part of an iteration that Push and Refuse share.                    *)
LEMMA AdvanceIInv ==
  ASSUME IInv, Advance, status' \in {"running", "ok", "err"}, attrs' \in Seq(Nlas),
         status' # "ok",
         (mode = "strict" /\ status' # "err") => attrs' = Append(attrs, Here)
  PROVE  IInv' /\ pos' > pos
<1> DEFINE d == payload.declared[pos]
<1>1. /\ pos \in Starts /\ d \in Nat /\ pos \in Nat
      /\ Here \in Nlas /\ Here.off = pos /\ Here.len = d
      /\ nlas \in Seq(Nlas)
  BY HereFacts DEF IInv, TypeOK, Advance
<1>2. /\ payload' = payload /\ mode' = mode
      /\ pos' = pos + Align(d) /\ nlas' = Append(nlas, Here)
      /\ status = "running" /\ pos < payload.len
      /\ d >= 4 /\ pos + d <= payload.len
  BY <1>1 DEF Advance, HereIsWellFormed, HeaderOk, NLA_HEADER_SIZE, IInv, TypeOK,
              Payloads
<1>3. Align(d) \in Nat /\ d <= Align(d) /\ Align(d) % 4 = 0
  BY <1>1, AlignFacts
<1>4. pos' \in Nat /\ pos' > pos /\ pos + d <= pos'
  BY <1>1, <1>2, <1>3
<1>5. /\ nlas' \in Seq(Nlas) /\ Len(nlas') = Len(nlas) + 1 /\ Len(nlas) \in Nat
      /\ \A i \in 1 .. Len(nlas) : nlas'[i] = nlas[i] /\ nlas[i] \in Nlas
      /\ nlas'[Len(nlas')] = Here
  BY <1>1, <1>2
<1>6. TypeOK'
  BY <1>2, <1>4, <1>5 DEF IInv, TypeOK
<1>7. Aligned'
  <2>1. pos % 4 = 0
    BY <1>1 DEF Starts
  <2> QED
    BY <2>1, <1>1, <1>2, <1>3, WordSum DEF Aligned
<1>8. Behind'
  <2> SUFFICES ASSUME NEW i \in 1 .. Len(nlas')
               PROVE  nlas'[i].off + nlas'[i].len <= pos'
    BY DEF Behind
  <2>1. CASE i \in 1 .. Len(nlas)
    <3>1. nlas[i].off + nlas[i].len <= pos BY <2>1 DEF IInv, Behind
    <3>2. nlas[i].off \in Nat /\ nlas[i].len \in Nat BY <2>1, <1>5 DEF Nlas
    <3>3. nlas[i].off + nlas[i].len <= pos' BY <3>1, <3>2, <1>1, <1>4
    <3> QED BY <2>1, <3>3, <1>5
  <2>2. CASE i = Len(nlas')
    BY <2>2, <1>1, <1>4, <1>5
  <2> QED BY <2>1, <2>2, <1>5
<1>9. InBounds'
  <2> SUFFICES ASSUME NEW i \in 1 .. Len(nlas')
               PROVE  /\ nlas'[i].len >= NLA_HEADER_SIZE
                      /\ nlas'[i].off + nlas'[i].len <= payload'.len
    BY DEF InBounds
  <2>1. CASE i \in 1 .. Len(nlas)
    BY <2>1, <1>2, <1>5 DEF IInv, InBounds
  <2>2. CASE i = Len(nlas')
    BY <2>2, <1>1, <1>2, <1>5 DEF NLA_HEADER_SIZE
  <2> QED BY <2>1, <2>2, <1>5
<1>10. Disjoint'
  <2> SUFFICES ASSUME NEW i \in 1 .. Len(nlas'), NEW j \in 1 .. Len(nlas'), i < j
               PROVE  nlas'[i].off + nlas'[i].len <= nlas'[j].off
    BY DEF Disjoint
  <2>1. CASE j \in 1 .. Len(nlas)
    BY <2>1, <1>5 DEF IInv, Disjoint
  <2>2. CASE j = Len(nlas')
    BY <2>2, <1>1, <1>5 DEF IInv, Behind
  <2> QED BY <2>1, <2>2, <1>5
<1>11. Tiled'
  <2>1. nlas'[1].off = 0
    <3>1. CASE nlas = <<>>
      BY <3>1, <1>1, <1>2, <1>5 DEF IInv, Tiled
    <3>2. CASE nlas # <<>>
      <4>1. 1 \in 1 .. Len(nlas) BY <3>2, <1>1
      <4> QED BY <3>2, <4>1, <1>5 DEF IInv, Tiled
    <3> QED BY <3>1, <3>2
  <2>2. ASSUME NEW i \in 1 .. Len(nlas') - 1
        PROVE  nlas'[i + 1].off = nlas'[i].off + Align(nlas'[i].len)
    <3>1. CASE i \in 1 .. Len(nlas) - 1
      <4>1. i \in 1 .. Len(nlas) /\ i + 1 \in 1 .. Len(nlas) BY <3>1, <1>5
      <4> QED BY <3>1, <4>1, <1>5 DEF IInv, Tiled
    <3>2. CASE i = Len(nlas)
      <4>1. i \in 1 .. Len(nlas) /\ i + 1 = Len(nlas') /\ nlas # <<>>
        BY <3>2, <1>1, <1>5
      <4>2. pos = nlas[Len(nlas)].off + Align(nlas[Len(nlas)].len)
        BY <4>1, <1>1, <1>2 DEF IInv, Tiled, TypeOK, Payloads
      <4> QED BY <3>2, <4>1, <4>2, <1>1, <1>5
    <3> QED BY <3>1, <3>2, <1>5
  <2>3. /\ nlas' # <<>>
        /\ pos' = nlas'[Len(nlas')].off + Align(nlas'[Len(nlas')].len)
    BY <1>1, <1>2, <1>5
  <2> QED BY <2>1, <2>2, <2>3 DEF Tiled
<1>12. StrictCovers'
  <2> SUFFICES ASSUME mode = "strict", status' # "err"
               PROVE  /\ attrs' = nlas'
                      /\ \A o \in 0 .. pos' - 1 :
                           \E i \in 1 .. Len(nlas') :
                             nlas'[i].off <= o /\ o < PaddedEnd(nlas'[i])
    BY <1>2 DEF StrictCovers, PaddedEnd
  <2>1. attrs' = nlas'
    BY <1>2 DEF IInv, StrictCovers
  <2>2. ASSUME NEW o \in 0 .. pos' - 1
        PROVE  \E i \in 1 .. Len(nlas') :
                 nlas'[i].off <= o /\ o < PaddedEnd(nlas'[i])
    <3>1. CASE o < pos
      <4>1. o \in 0 .. pos - 1 BY <3>1, <1>1
      <4>2. PICK i \in 1 .. Len(nlas) :
                   nlas[i].off <= o /\ o < PaddedEnd(nlas[i])
        BY <4>1, <1>2 DEF IInv, StrictCovers
      <4> QED BY <4>2, <1>5
    <3>2. CASE o >= pos
      <4>1. /\ nlas'[Len(nlas')].off <= o
            /\ o < PaddedEnd(nlas'[Len(nlas')])
            /\ Len(nlas') \in 1 .. Len(nlas')
        BY <3>2, <1>1, <1>2, <1>5 DEF PaddedEnd
      <4> QED BY <4>1
    <3> QED BY <3>1, <3>2, <1>1
  <2> QED BY <2>1, <2>2
<1>13. OkIsAtEnd'
  BY DEF OkIsAtEnd
<1> QED
  BY <1>4, <1>6, <1>7, <1>8, <1>9, <1>10, <1>11, <1>12, <1>13 DEF IInv

(* Returning at the end of the payload keeps the invariant.                *)
LEMMA ReturnIInv == IInv /\ Return => IInv'
BY DEF Return, IInv, TypeOK, Aligned, Behind, InBounds, Disjoint, Tiled,
       StrictCovers, OkIsAtEnd

(* A bad header keeps the invariant and spends the iterator.               *)
LEMMA MalformedIInv == IInv /\ Malformed => IInv' /\ pos' > pos
<1> SUFFICES ASSUME IInv, Malformed PROVE IInv' /\ pos' > pos
  OBVIOUS
<1>1. /\ payload' = payload /\ mode' = mode /\ nlas' = nlas /\ attrs' = attrs
      /\ pos' = payload.len /\ pos' > pos /\ pos \in Nat /\ payload.len \in Nat
      /\ status' = IF mode = "strict" THEN "err" ELSE "running"
  BY DEF Malformed, IInv, TypeOK, Payloads
<1>2. TypeOK'
  BY <1>1 DEF IInv, TypeOK
<1>3. Behind'
  <2> SUFFICES ASSUME NEW i \in 1 .. Len(nlas)
               PROVE  nlas[i].off + nlas[i].len <= payload.len
    BY <1>1 DEF Behind
  <2> QED BY DEF IInv, InBounds
<1>4. Aligned' /\ InBounds' /\ Disjoint' /\ Tiled' /\ StrictCovers' /\ OkIsAtEnd'
  BY <1>1 DEF IInv, Aligned, InBounds, Disjoint, Tiled, StrictCovers, OkIsAtEnd
<1> QED
  BY <1>1, <1>2, <1>3, <1>4 DEF IInv

(* Pushing an attribute keeps the invariant and moves on.                  *)
LEMMA PushIInv == IInv /\ Push => IInv' /\ pos' > pos
<1> SUFFICES ASSUME IInv, Push PROVE IInv' /\ pos' > pos
  OBVIOUS
<1>1. Advance /\ status' = "running" /\ attrs' = Append(attrs, Here)
  BY DEF Push, Advance
<1>2. attrs' \in Seq(Nlas)
  BY <1>1, HereFacts DEF IInv, TypeOK, Advance
<1> QED
  BY <1>1, <1>2, AdvanceIInv

(* Refusing an attribute keeps the invariant and moves on.                 *)
LEMMA RefuseIInv == IInv /\ Refuse => IInv' /\ pos' > pos
<1> SUFFICES ASSUME IInv, Refuse PROVE IInv' /\ pos' > pos
  OBVIOUS
<1>1. /\ Advance /\ attrs' = attrs
      /\ status' = IF mode = "strict" THEN "err" ELSE "running"
  BY DEF Refuse
<1>2. attrs' \in Seq(Nlas)
  BY <1>1 DEF IInv, TypeOK
<1> QED
  BY <1>1, <1>2, AdvanceIInv

(* Every iteration of the loop keeps the invariant.                        *)
LEMMA NextIInv == IInv /\ [Next]_vars => IInv'
<1>1. IInv /\ UNCHANGED vars => IInv'
  BY DEF vars, IInv, TypeOK, Aligned, Behind, InBounds, Disjoint, Tiled,
         StrictCovers, OkIsAtEnd
<1> QED
  BY <1>1, ReturnIInv, MalformedIInv, PushIInv, RefuseIInv DEF Next

(* The loop keeps the inductive invariant, whatever bytes it is given.     *)
THEOREM Invariance == Spec => []IInv
<1> QED BY InitIInv, NextIInv, PTL DEF Spec
-----------------------------------------------------------------------------
(* The values the loop keeps have their types.                             *)
THEOREM TypeCorrect == Spec => []TypeOK
<1>1. IInv => TypeOK BY DEF IInv
<1> QED BY <1>1, Invariance, PTL

(* Whatever the length fields of a message say, no attribute handed to a   *)
(* parser reaches beyond the payload.                                      *)
THEOREM AttributesInBounds == Spec => []InBounds
<1>1. IInv => InBounds BY DEF IInv
<1> QED BY <1>1, Invariance, PTL

(* ... and no two of the attributes handed out share a byte.               *)
THEOREM AttributesDisjoint == Spec => []Disjoint
<1>1. IInv => Disjoint BY DEF IInv
<1> QED BY <1>1, Invariance, PTL

(* The iterator skips nothing but padding.                                 *)
THEOREM AttributesTiled == Spec => []Tiled
<1>1. IInv => Tiled BY DEF IInv
<1> QED BY <1>1, Invariance, PTL

(* A strict decoder that returns Ok has consumed and kept every byte.      *)
THEOREM StrictOkComplete == Spec => []StrictOkIsComplete
<1>1. IInv => StrictOkIsComplete
  <2> SUFFICES ASSUME IInv, mode = "strict", status = "ok"
               PROVE  /\ attrs = nlas
                      /\ \A o \in 0 .. payload.len - 1 :
                           \E i \in 1 .. Len(attrs) :
                             attrs[i].off <= o /\ o < attrs[i].off + Align(attrs[i].len)
    BY DEF StrictOkIsComplete
  <2>1. 0 .. payload.len - 1 \subseteq 0 .. pos - 1
    BY DEF IInv, OkIsAtEnd, TypeOK, Payloads
  <2> QED BY <2>1 DEF IInv, StrictCovers, PaddedEnd
<1> QED BY <1>1, Invariance, PTL

(* No header can stall the loop: every step moves the iterator or returns. *)
THEOREM AlwaysProgress == Spec => Progress
<1>1. IInv /\ [Next]_vars => [pos' > pos \/ status' # status]_vars
  BY MalformedIInv, PushIInv, RefuseIInv DEF Next, Return
<1> QED BY <1>1, Invariance, PTL DEF Spec, Progress
-----------------------------------------------------------------------------
(* The attribute at an offset passes the header check, and the offset      *)
(* behind it and its padding.                                              *)
WellFormed(o) == HeaderOk(payload.len - o, payload.declared[o])
NextOf(o) == o + Align(payload.declared[o])

(* AttributeDecode speaks of the same headers and the same alignment.      *)
LEMMA SameWire ==
  /\ \A o : Abstract!WellFormedAt(o) <=> WellFormed(o)
  /\ \A S : Abstract!ChainClosed(S) <=>
             /\ payload.len > 0 => 0 \in S
             /\ \A o \in S : (WellFormed(o) /\ NextOf(o) < payload.len) => NextOf(o) \in S
  /\ Abstract!Closed = {S \in SUBSET Starts : Abstract!ChainClosed(S)}
<1>1. \A n : Abstract!Align(n) = Align(n) BY DEF Abstract!Align, Align
<1>2. \A o : Abstract!WellFormedAt(o) <=> WellFormed(o)
  BY DEF Abstract!WellFormedAt, WellFormed, Abstract!HeaderOk, HeaderOk,
         Abstract!NLA_HEADER_SIZE, NLA_HEADER_SIZE
<1>3. \A S : Abstract!ChainClosed(S) <=>
             /\ payload.len > 0 => 0 \in S
             /\ \A o \in S : (WellFormed(o) /\ NextOf(o) < payload.len) => NextOf(o) \in S
  BY <1>1, <1>2 DEF Abstract!ChainClosed, NextOf
<1>4. Abstract!Closed = {S \in SUBSET Starts : Abstract!ChainClosed(S)}
  BY DEF Abstract!Closed, Starts
<1> QED BY <1>2, <1>3, <1>4

(* Behind an attribute there is a place for the next one.                  *)
LEMMA NextFacts ==
  ASSUME TypeOK, NEW o \in Starts
  PROVE  /\ o \in Nat /\ payload.declared[o] \in Nat /\ NextOf(o) \in Nat
         /\ o + payload.declared[o] <= NextOf(o)
         /\ NextOf(o) < payload.len => NextOf(o) \in Starts
<1>1. o \in Nat /\ o % 4 = 0 BY DEF Starts
<1>2. payload.declared[o] \in Nat /\ payload.len \in 0 .. MaxPayload
  BY LengthsAssumption DEF TypeOK, Payloads
<1>3. /\ Align(payload.declared[o]) \in Nat /\ Align(payload.declared[o]) % 4 = 0
      /\ payload.declared[o] <= Align(payload.declared[o])
  BY <1>2, AlignFacts
<1>4. NextOf(o) % 4 = 0 BY <1>1, <1>3, WordSum DEF NextOf
<1>5. NextOf(o) \in Nat /\ o + payload.declared[o] <= NextOf(o) BY <1>1, <1>2, <1>3 DEF NextOf
<1>6. NextOf(o) < payload.len => NextOf(o) \in 0 .. MaxPayload
  BY <1>2, <1>5, MaxPayloadAssumption
<1> QED BY <1>1, <1>2, <1>4, <1>5, <1>6 DEF Starts

(* The chain of headers that AttributeDecode speaks of exists: closed sets *)
(* of offsets are closed under intersection, so there is a least one.      *)
LEMMA ChainLeast ==
  ASSUME TypeOK
  PROVE  /\ Abstract!Chain \in Abstract!Closed
         /\ \A T \in Abstract!Closed : Abstract!Chain \subseteq T
<1> DEFINE Least == {o \in Starts : \A T \in Abstract!Closed : o \in T}
<1>1. ASSUME payload.len > 0 PROVE 0 \in Least
  <2>1. 0 \in Starts BY MaxPayloadAssumption DEF Starts
  <2> QED BY <2>1, <1>1, SameWire
<1>2. ASSUME NEW o \in Least, WellFormed(o), NextOf(o) < payload.len
      PROVE  NextOf(o) \in Least
  <2>1. ASSUME NEW T \in Abstract!Closed PROVE NextOf(o) \in T
    <3>1. o \in T /\ Abstract!ChainClosed(T) BY SameWire
    <3> QED BY <3>1, <1>2, SameWire
  <2>2. NextOf(o) \in Starts BY <1>2, NextFacts
  <2> QED BY <2>1, <2>2
<1>3. Least \in SUBSET Starts /\ \A T \in Abstract!Closed : Least \subseteq T OBVIOUS
<1> HIDE DEF Least
<1>4. Least \in Abstract!Closed BY <1>1, <1>2, <1>3, SameWire
<1> QED BY <1>3, <1>4 DEF Abstract!Chain
-----------------------------------------------------------------------------
(* The offsets of the attributes the iterator has yielded.                 *)
Visited == {nlas[i].off : i \in 1 .. Len(nlas)}

(* As long as the loop runs it follows the chain: it has yielded members   *)
(* of the chain, stands on one or at the end, and has passed none but, in  *)
(* the lenient loop, the malformed one that spent the iterator.            *)
WalkInv ==
  /\ \A i \in 1 .. Len(nlas) :
       /\ nlas[i].off \in Starts /\ nlas[i].len = payload.declared[nlas[i].off]
       /\ WellFormed(nlas[i].off) /\ NextOf(nlas[i].off) <= pos
  /\ Visited \subseteq Abstract!Chain
  /\ pos < payload.len => pos \in Abstract!Chain
  /\ \A o \in Abstract!Chain :
       o \in Visited \/ o >= pos \/ (mode = "lenient" /\ ~WellFormed(o))

(* What has been pushed are the accepted ones of these, in order.          *)
PushedInv ==
  /\ \A i \in 1 .. Len(attrs) :
       attrs[i].len = payload.declared[attrs[i].off] /\ attrs[i].off < pos
  /\ {attrs[i].off : i \in 1 .. Len(attrs)} = {o \in Visited : payload.accepts[o]}
  /\ \A i, j \in 1 .. Len(attrs) : i < j => attrs[i].off < attrs[j].off
  /\ mode = "strict" => \A o \in Visited : payload.accepts[o]

RefInv == status = "running" => WalkInv /\ PushedInv

(* Between the iterator and the attribute behind the one it stands on, the *)
(* chain has no member.                                                    *)
LEMMA ChainStep ==
  ASSUME IInv, WalkInv, pos < payload.len
  PROVE  /\ \A o \in Abstract!Chain :
              \/ o \in Visited \/ o = pos \/ (mode = "lenient" /\ ~WellFormed(o))
              \/ WellFormed(pos) /\ o >= NextOf(pos)
         /\ (WellFormed(pos) /\ NextOf(pos) < payload.len) => NextOf(pos) \in Abstract!Chain
<1> DEFINE T == {o \in Abstract!Chain : o <= pos \/ (WellFormed(pos) /\ o >= NextOf(pos))}
<1>1. TypeOK /\ Aligned BY DEF IInv
<1>2. /\ Abstract!Chain \subseteq Starts
      /\ payload.len > 0 => 0 \in Abstract!Chain
      /\ \A o \in Abstract!Chain :
           (WellFormed(o) /\ NextOf(o) < payload.len) => NextOf(o) \in Abstract!Chain
      /\ \A S \in Abstract!Closed : Abstract!Chain \subseteq S
  BY <1>1, ChainLeast, SameWire
<1>3. \A o \in Abstract!Chain :
        /\ o \in Nat /\ NextOf(o) \in Nat /\ o <= NextOf(o)
  <2> SUFFICES ASSUME NEW o \in Abstract!Chain
               PROVE  o \in Nat /\ NextOf(o) \in Nat /\ o <= NextOf(o)
    OBVIOUS
  <2>1. o \in Starts BY <1>2
  <2>2. /\ o \in Nat /\ payload.declared[o] \in Nat /\ NextOf(o) \in Nat
        /\ o + payload.declared[o] <= NextOf(o)
    BY <1>1, <2>1, NextFacts
  <2> QED BY <2>2
<1>4. pos \in Abstract!Chain /\ pos \in Nat /\ payload.len \in Nat
  BY <1>1 DEF WalkInv, TypeOK, Payloads
<1>5. \A o \in Visited : NextOf(o) <= pos BY DEF Visited, WalkInv
<1>6. ASSUME NEW o \in T, WellFormed(o), NextOf(o) < payload.len
      PROVE  NextOf(o) \in T
  <2>1. o \in Abstract!Chain /\ NextOf(o) \in Abstract!Chain BY <1>2, <1>6
  <2>2. CASE o \in Visited BY <2>1, <2>2, <1>5
  <2>3. CASE o >= pos
    <3>1. CASE o = pos BY <3>1, <2>1, <1>3, <1>6
    <3>2. CASE o # pos
      <4>1. WellFormed(pos) /\ o >= NextOf(pos) BY <3>2, <2>1, <2>3, <1>3, <1>4, <1>6
      <4>2. NextOf(o) >= NextOf(pos) BY <4>1, <2>1, <1>3, <1>4
      <4> QED BY <4>1, <4>2, <2>1
    <3> QED BY <3>1, <3>2
  <2> QED BY <2>1, <2>2, <2>3, <1>6 DEF WalkInv
<1>7. payload.len > 0 => 0 \in T BY <1>2, <1>4
<1>8. T \subseteq Starts BY <1>2
<1>9. T \in Abstract!Closed
  <2> HIDE DEF T
  <2> QED BY <1>6, <1>7, <1>8, SameWire
<1>10. Abstract!Chain \subseteq T BY <1>2, <1>9
<1>11. ASSUME NEW o \in Abstract!Chain
       PROVE  \/ o \in Visited \/ o = pos \/ (mode = "lenient" /\ ~WellFormed(o))
              \/ WellFormed(pos) /\ o >= NextOf(pos)
  <2>1. o <= pos \/ (WellFormed(pos) /\ o >= NextOf(pos)) BY <1>10
  <2>2. o \in Visited \/ o >= pos \/ (mode = "lenient" /\ ~WellFormed(o)) BY DEF WalkInv
  <2>3. o \in Nat BY <1>3
  <2> QED BY <2>1, <2>2, <2>3, <1>4
<1> QED BY <1>2, <1>4, <1>11

(* Nothing changes the payload, so the chain stays what it is.             *)
LEMMA ChainKept == payload' = payload => Abstract!Chain' = Abstract!Chain
BY DEF Abstract!Chain, Abstract!Closed, Abstract!ChainClosed, Abstract!WellFormedAt,
       Abstract!HeaderOk, Abstract!Align, Abstract!NLA_HEADER_SIZE

(* The part of an iteration that Push and Refuse share follows the chain.  *)
LEMMA AdvanceWalk ==
  ASSUME IInv, WalkInv, Advance
  PROVE  WalkInv' /\ Visited' = Visited \cup {pos} /\ pos \in Abstract!Chain /\ pos < pos'
<1>1. TypeOK /\ Aligned BY DEF IInv
<1>2. /\ pos < payload.len /\ payload' = payload /\ mode' = mode
      /\ pos' = NextOf(pos) /\ nlas' = Append(nlas, Here) /\ WellFormed(pos)
  BY DEF Advance, NextOf, WellFormed, HereIsWellFormed
<1>3. /\ pos \in Starts /\ Here \in Nlas /\ Here.off = pos
      /\ Here.len = payload.declared[pos]
  BY <1>1, <1>2, HereFacts
<1>4. /\ pos \in Nat /\ pos' \in Nat /\ payload.declared[pos] \in Nat
      /\ pos + payload.declared[pos] <= pos'
  BY <1>1, <1>2, <1>3, NextFacts
<1>5. pos < pos'
  BY <1>2, <1>4 DEF WellFormed, HeaderOk, NLA_HEADER_SIZE
<1>6. /\ nlas \in Seq(Nlas) /\ Len(nlas') = Len(nlas) + 1 /\ Len(nlas) \in Nat
      /\ \A i \in 1 .. Len(nlas) : nlas'[i] = nlas[i]
      /\ nlas'[Len(nlas')] = Here
  BY <1>1, <1>2, <1>3 DEF TypeOK
<1>7. Visited' = Visited \cup {pos}
  <2>1. 1 .. Len(nlas') = (1 .. Len(nlas)) \cup {Len(nlas')} BY <1>6
  <2> QED BY <2>1, <1>3, <1>6 DEF Visited
<1>8. Abstract!Chain' = Abstract!Chain BY <1>2, ChainKept
<1>9. \A o : (WellFormed(o)' <=> WellFormed(o)) /\ NextOf(o)' = NextOf(o)
  BY <1>2 DEF WellFormed, NextOf
<1>10. pos \in Abstract!Chain BY <1>2 DEF WalkInv
<1>11. ASSUME NEW i \in 1 .. Len(nlas')
       PROVE  /\ nlas'[i].off \in Starts /\ nlas'[i].len = payload.declared[nlas'[i].off]
              /\ WellFormed(nlas'[i].off) /\ NextOf(nlas'[i].off) <= pos'
  <2>1. CASE i \in 1 .. Len(nlas)
    <3>1. /\ nlas[i].off \in Starts /\ nlas[i].len = payload.declared[nlas[i].off]
          /\ WellFormed(nlas[i].off) /\ NextOf(nlas[i].off) <= pos
      BY <2>1 DEF WalkInv
    <3>2. NextOf(nlas[i].off) \in Nat BY <3>1, <1>1, NextFacts
    <3>3. NextOf(nlas[i].off) <= pos' BY <3>1, <3>2, <1>4, <1>5
    <3> QED BY <2>1, <3>1, <3>3, <1>6
  <2>2. CASE i = Len(nlas') BY <2>2, <1>2, <1>3, <1>4, <1>6
  <2> QED BY <2>1, <2>2, <1>6
<1>12. ASSUME NEW o \in Abstract!Chain
       PROVE  o \in Visited' \/ o >= pos' \/ (mode = "lenient" /\ ~WellFormed(o))
  BY <1>2, <1>7, ChainStep
<1>13. pos' < payload.len => pos' \in Abstract!Chain BY <1>2, ChainStep
<1>14. Visited' \subseteq Abstract!Chain BY <1>7, <1>10 DEF WalkInv
<1>15. WalkInv'
  BY <1>2, <1>8, <1>9, <1>11, <1>12, <1>13, <1>14 DEF WalkInv
<1> QED BY <1>5, <1>7, <1>10, <1>15

(* Decoding starts at the start of the chain, with nothing pushed.         *)
LEMMA InitRefInv == Init => RefInv
<1> SUFFICES ASSUME Init PROVE WalkInv /\ PushedInv BY DEF RefInv
<1>1. TypeOK BY InitIInv DEF IInv
<1>2. /\ Abstract!Chain \subseteq Starts /\ (payload.len > 0 => 0 \in Abstract!Chain)
  BY <1>1, ChainLeast, SameWire
<1>3. \A o \in Abstract!Chain : o >= 0 BY <1>2 DEF Starts
<1>4. nlas = <<>> /\ attrs = <<>> /\ pos = 0 /\ Visited = {} BY DEF Init, Visited
<1> QED BY <1>2, <1>3, <1>4 DEF WalkInv, PushedInv

(* What is in the Vec has an offset.                                       *)
LEMMA PushedTyped == TypeOK => \A i \in 1 .. Len(attrs) : attrs[i].off \in Nat
<1> SUFFICES ASSUME TypeOK, NEW i \in 1 .. Len(attrs) PROVE attrs[i].off \in Nat OBVIOUS
<1>1. attrs \in Seq(Nlas) BY DEF TypeOK
<1>2. attrs[i] \in Nlas BY <1>1
<1> QED BY <1>2 DEF Nlas

(* Pushing an accepted attribute appends it to the wanted ones before it.  *)
LEMMA PushRefInv == IInv /\ RefInv /\ Push => RefInv'
<1> SUFFICES ASSUME IInv, RefInv, Push PROVE WalkInv' /\ PushedInv' BY DEF RefInv
<1>1. /\ TypeOK /\ Aligned /\ WalkInv /\ PushedInv /\ Advance /\ pos < payload.len
      /\ payload' = payload /\ mode' = mode /\ payload.accepts[pos]
      /\ attrs' = Append(attrs, Here)
  BY DEF IInv, RefInv, Push, Advance
<1>2. WalkInv' /\ Visited' = Visited \cup {pos} /\ pos < pos' BY <1>1, AdvanceWalk
<1>3. Here \in Nlas /\ Here.off = pos /\ Here.len = payload.declared[pos]
  BY <1>1, HereFacts
<1>4. /\ Len(attrs') = Len(attrs) + 1 /\ Len(attrs) \in Nat /\ attrs'[Len(attrs')] = Here
      /\ \A i \in 1 .. Len(attrs) : attrs'[i] = attrs[i] /\ attrs[i].off \in Nat
  <2>1. attrs \in Seq(Nlas) BY <1>1 DEF TypeOK
  <2> QED BY <2>1, <1>1, <1>3, PushedTyped
<1>5. 1 .. Len(attrs') = (1 .. Len(attrs)) \cup {Len(attrs')} BY <1>4
<1>6. pos \in Nat /\ pos' \in Nat BY <1>1, PushIInv DEF IInv, TypeOK
<1>7. {attrs'[i].off : i \in 1 .. Len(attrs')} = {o \in Visited' : payload.accepts[o]}
  <2>1. {attrs'[i].off : i \in 1 .. Len(attrs')}
          = {attrs[i].off : i \in 1 .. Len(attrs)} \cup {pos}
    BY <1>3, <1>4, <1>5
  <2> QED BY <2>1, <1>1, <1>2 DEF PushedInv
<1>8. ASSUME NEW i \in 1 .. Len(attrs')
      PROVE  attrs'[i].len = payload.declared[attrs'[i].off] /\ attrs'[i].off < pos'
  <2>1. CASE i \in 1 .. Len(attrs)
    <3>1. attrs[i].len = payload.declared[attrs[i].off] /\ attrs[i].off < pos
      BY <2>1, <1>1 DEF PushedInv
    <3> QED BY <2>1, <3>1, <1>2, <1>4, <1>6
  <2>2. CASE i = Len(attrs') BY <2>2, <1>2, <1>3, <1>4
  <2> QED BY <2>1, <2>2, <1>5
<1>9. ASSUME NEW i \in 1 .. Len(attrs'), NEW j \in 1 .. Len(attrs'), i < j
      PROVE  attrs'[i].off < attrs'[j].off
  <2>1. i \in 1 .. Len(attrs) BY <1>4, <1>9
  <2>2. CASE j \in 1 .. Len(attrs) BY <2>1, <2>2, <1>1, <1>4, <1>9 DEF PushedInv
  <2>3. CASE j = Len(attrs') BY <2>1, <2>3, <1>1, <1>3, <1>4 DEF PushedInv
  <2> QED BY <2>2, <2>3, <1>5
<1>10. mode = "strict" => \A o \in Visited' : payload.accepts[o]
  BY <1>1, <1>2 DEF PushedInv
<1> QED BY <1>1, <1>2, <1>7, <1>8, <1>9, <1>10 DEF PushedInv

(* A lenient loop that skips an attribute follows the chain all the same.  *)
LEMMA RefuseRefInv == IInv /\ RefInv /\ Refuse => RefInv'
<1> SUFFICES ASSUME IInv, RefInv, Refuse, status' = "running" PROVE WalkInv' /\ PushedInv'
  BY DEF RefInv
<1>1. /\ TypeOK /\ WalkInv /\ PushedInv /\ Advance /\ payload' = payload /\ mode' = mode
      /\ ~payload.accepts[pos] /\ attrs' = attrs /\ mode # "strict"
  BY DEF IInv, RefInv, Refuse, Advance
<1>2. WalkInv' /\ Visited' = Visited \cup {pos} /\ pos < pos' BY <1>1, AdvanceWalk
<1>3. {o \in Visited' : payload.accepts[o]} = {o \in Visited : payload.accepts[o]}
  BY <1>1, <1>2
<1>4. pos \in Nat /\ pos' \in Nat BY <1>1, RefuseIInv DEF IInv, TypeOK
<1>5. \A i \in 1 .. Len(attrs) : attrs[i].off \in Nat BY <1>1, PushedTyped
<1>6. \A i \in 1 .. Len(attrs) :
        attrs[i].len = payload.declared[attrs[i].off] /\ attrs[i].off < pos'
  BY <1>1, <1>2, <1>4, <1>5 DEF PushedInv
<1> QED BY <1>1, <1>2, <1>3, <1>6 DEF PushedInv

(* The malformed attribute that spends the iterator of a lenient loop is   *)
(* the last of the chain.                                                  *)
LEMMA MalformedRefInv == IInv /\ RefInv /\ Malformed => RefInv'
<1> SUFFICES ASSUME IInv, RefInv, Malformed, status' = "running" PROVE WalkInv' /\ PushedInv'
  BY DEF RefInv
<1>1. /\ TypeOK /\ WalkInv /\ PushedInv /\ pos < payload.len /\ ~WellFormed(pos)
      /\ payload' = payload /\ mode' = mode /\ pos' = payload.len /\ nlas' = nlas
      /\ attrs' = attrs /\ mode = "lenient"
  BY DEF IInv, RefInv, Malformed, WellFormed, HereIsWellFormed, TypeOK, Modes
<1>2. Abstract!Chain' = Abstract!Chain /\ Visited' = Visited
  BY <1>1, ChainKept DEF Visited
<1>3. \A o : (WellFormed(o)' <=> WellFormed(o)) /\ NextOf(o)' = NextOf(o)
  BY <1>1 DEF WellFormed, NextOf
<1>4. pos \in Nat /\ payload.len \in Nat BY <1>1 DEF TypeOK, Payloads
<1>5. \A o \in Abstract!Chain : o \in Visited \/ ~WellFormed(o) BY <1>1, ChainStep
<1>6. ASSUME NEW i \in 1 .. Len(nlas) PROVE NextOf(nlas[i].off) <= pos'
  <2>1. nlas[i].off \in Starts /\ NextOf(nlas[i].off) <= pos BY <1>1 DEF WalkInv
  <2>2. NextOf(nlas[i].off) \in Nat BY <2>1, <1>1, NextFacts
  <2> QED BY <2>1, <2>2, <1>1, <1>4
<1>7. ~(pos' < payload'.len) BY <1>1, <1>4
<1>8. WalkInv' BY <1>1, <1>2, <1>3, <1>5, <1>6, <1>7 DEF WalkInv
<1>9. \A i \in 1 .. Len(attrs) : attrs[i].off \in Nat BY <1>1, PushedTyped
<1>10. \A i \in 1 .. Len(attrs) : attrs[i].off < pos' BY <1>1, <1>4, <1>9 DEF PushedInv
<1>11. PushedInv' BY <1>1, <1>2, <1>10 DEF PushedInv
<1> QED BY <1>8, <1>11

(* Every iteration of the loop keeps to the chain.                         *)
LEMMA NextRefInv == IInv /\ RefInv /\ [Next]_vars => RefInv'
<1> SUFFICES ASSUME IInv, RefInv, [Next]_vars PROVE RefInv' OBVIOUS
<1>1. CASE Return BY <1>1 DEF Return, RefInv
<1>2. CASE UNCHANGED vars
  <2>1. /\ payload' = payload /\ mode' = mode /\ pos' = pos /\ nlas' = nlas
        /\ attrs' = attrs /\ status' = status
    BY <1>2 DEF vars
  <2>2. Abstract!Chain' = Abstract!Chain /\ Visited' = Visited
    BY <2>1, ChainKept DEF Visited
  <2>3. \A o : (WellFormed(o)' <=> WellFormed(o)) /\ NextOf(o)' = NextOf(o)
    BY <2>1 DEF WellFormed, NextOf
  <2>4. WalkInv => WalkInv' BY <2>1, <2>2, <2>3 DEF WalkInv
  <2>5. PushedInv => PushedInv' BY <2>1, <2>2 DEF PushedInv
  <2> QED BY <2>1, <2>4, <2>5 DEF RefInv
<1> QED BY <1>1, <1>2, PushRefInv, RefuseRefInv, MalformedRefInv DEF Next

(* What the loop returns at its end is what AttributeDecode decodes.       *)
LEMMA ReturnDecodes ==
  ASSUME IInv, RefInv, status = "running", pos >= payload.len
  PROVE  /\ Abstract!IsDecoded(attrs)
         /\ mode = "lenient" \/ Abstract!Wanted = Abstract!Chain
<1>1. TypeOK /\ WalkInv /\ PushedInv BY DEF IInv, RefInv
<1>2. /\ Abstract!Chain \subseteq Starts
      /\ \A o \in Abstract!Chain : o < payload.len
  <2> DEFINE T == {o \in Abstract!Chain : o < payload.len}
  <2>1. /\ Abstract!Chain \subseteq Starts
        /\ payload.len > 0 => 0 \in Abstract!Chain
        /\ \A o \in Abstract!Chain :
             (WellFormed(o) /\ NextOf(o) < payload.len) => NextOf(o) \in Abstract!Chain
        /\ \A S \in Abstract!Closed : Abstract!Chain \subseteq S
    BY <1>1, ChainLeast, SameWire
  <2>2. /\ T \subseteq Starts /\ (payload.len > 0 => 0 \in T)
        /\ \A o \in T : (WellFormed(o) /\ NextOf(o) < payload.len) => NextOf(o) \in T
    BY <2>1
  <2>3. T \in Abstract!Closed
    <3> HIDE DEF T
    <3> QED BY <2>2, SameWire
  <2> QED BY <2>1, <2>3
<1>3. \A o \in Abstract!Chain : o \in Visited \/ (mode = "lenient" /\ ~WellFormed(o))
  <2>1. \A o \in Abstract!Chain : ~(o >= pos)
    <3>1. \A o \in Starts : o \in Nat BY DEF Starts
    <3>2. pos \in Nat /\ payload.len \in Nat BY <1>1 DEF TypeOK, Payloads
    <3> QED BY <1>2, <3>1, <3>2
  <2> QED BY <2>1, <1>1 DEF WalkInv
<1>4. Visited \subseteq Abstract!Chain /\ \A o \in Visited : WellFormed(o)
  BY <1>1 DEF WalkInv, Visited
<1>5. Abstract!Wanted = {o \in Visited : payload.accepts[o]}
  BY <1>3, <1>4, SameWire DEF Abstract!Wanted
<1>6. attrs \in Seq([off : Nat, len : Nat]) BY <1>1 DEF TypeOK, Nlas
<1>7. Abstract!IsDecoded(attrs)
  BY <1>1, <1>5, <1>6 DEF Abstract!IsDecoded, PushedInv
<1>8. mode = "strict" => Abstract!Wanted = Abstract!Chain
  BY <1>1, <1>3, <1>4, <1>5 DEF PushedInv
<1>9. mode \in {"strict", "lenient"} BY <1>1 DEF TypeOK, Modes
<1> QED BY <1>7, <1>8, <1>9

(* A strict loop that fails has met a member of the chain that is not      *)
(* wanted.                                                                 *)
LEMMA FailureDecodes ==
  ASSUME IInv, RefInv, status = "running", pos < payload.len,
         ~WellFormed(pos) \/ ~payload.accepts[pos]
  PROVE  Abstract!Wanted # Abstract!Chain
<1>1. pos \in Abstract!Chain BY DEF RefInv, WalkInv
<1>2. pos \notin Abstract!Wanted BY SameWire DEF Abstract!Wanted
<1> QED BY <1>1, <1>2

(* The loop with its iterator implements the decoder without one: the      *)
(* steps before the last change nothing a caller can see, and the last one *)
(* returns what the chain of headers determines.                           *)
THEOREM LoopImplementsDecode == Spec => ImplementsDecode
<1>1. Init => Abstract!Init
  BY DEF Init, Abstract!Init, Abstract!Pending, Outcome
<1>2. IInv /\ RefInv /\ [Next]_vars => [Abstract!Decode]_<<payload, mode, Outcome>>
  <2> SUFFICES ASSUME IInv, RefInv, [Next]_vars
               PROVE  Abstract!Decode \/ UNCHANGED <<payload, mode, Outcome>>
    OBVIOUS
  <2>1. CASE Return
    <3>1. /\ status = "running" /\ pos >= payload.len /\ status' = "ok" /\ attrs' = attrs
          /\ payload' = payload /\ mode' = mode
      BY <2>1 DEF Return
    <3>2. /\ Outcome = Abstract!Pending /\ Outcome' = [status |-> "ok", attrs |-> attrs]
      BY <3>1 DEF Outcome, Abstract!Pending
    <3>3. Outcome'.attrs = attrs BY <3>2
    <3>4. /\ Abstract!IsDecoded(attrs)
          /\ mode = "lenient" \/ Abstract!Wanted = Abstract!Chain
      BY <3>1, ReturnDecodes
    <3> QED BY <3>1, <3>2, <3>3, <3>4 DEF Abstract!Decode
  <2>2. ASSUME status = "running", status' = "running", payload' = payload, mode' = mode
        PROVE  UNCHANGED <<payload, mode, Outcome>>
    BY <2>2 DEF Outcome
  <2>3. ASSUME status = "running", status' = "err", mode = "strict", payload' = payload,
               mode' = mode, Abstract!Wanted # Abstract!Chain
        PROVE  Abstract!Decode
    <3>1. /\ Outcome = Abstract!Pending /\ Outcome' = [status |-> "err", attrs |-> <<>>]
      BY <2>3 DEF Outcome, Abstract!Pending
    <3> QED BY <2>3, <3>1 DEF Abstract!Decode
  <2>4. CASE Malformed
    <3>1. /\ status = "running" /\ pos < payload.len /\ ~WellFormed(pos)
          /\ payload' = payload /\ mode' = mode
          /\ status' = IF mode = "strict" THEN "err" ELSE "running"
      BY <2>4 DEF Malformed, WellFormed, HereIsWellFormed
    <3>2. Abstract!Wanted # Abstract!Chain BY <3>1, FailureDecodes
    <3> QED BY <3>1, <3>2, <2>2, <2>3
  <2>5. CASE Push
    BY <2>5, <2>2 DEF Push, Advance
  <2>6. CASE Refuse
    <3>1. /\ status = "running" /\ pos < payload.len /\ ~payload.accepts[pos]
          /\ payload' = payload /\ mode' = mode
          /\ status' = IF mode = "strict" THEN "err" ELSE "running"
      BY <2>6 DEF Refuse, Advance
    <3>2. Abstract!Wanted # Abstract!Chain BY <3>1, FailureDecodes
    <3> QED BY <3>1, <3>2, <2>2, <2>3
  <2>7. CASE UNCHANGED vars BY <2>7 DEF vars, Outcome
  <2> QED BY <2>1, <2>4, <2>5, <2>6, <2>7 DEF Next
<1>3. Spec => []RefInv
  BY Invariance, InitRefInv, NextRefInv, PTL DEF Spec
<1> QED BY <1>1, <1>2, <1>3, Invariance, PTL DEF Spec, ImplementsDecode, Abstract!Spec
===============================================================================
