------------------------------ MODULE Multipath ------------------------------
(***************************************************************************)
(* RTA_MULTIPATH: a list of next hops inside one attribute.  Unlike an     *)
(* attribute, a next hop has an 8-byte header whose rtnh_len counts the    *)
(* header, and the list is walked by hand:                                 *)
(*                                                                         *)
(*     loop {                                                              *)
(*         let nh_buf = RouteNextHopBuffer::new_checked(&buf)?;            *)
(*         let len = nh_buf.length() as usize;                             *)
(*         next_hops.push(RouteNextHop::parse_with_param(&nh_buf, ..)?);   *)
(*         if buf.len() == len { break; }                                  *)
(*         buf = &buf[len..];                                              *)
(*     }                                                                   *)
(*                                                                         *)
(* The list comes from a caller, who has it measured (value_len) and       *)
(* emitted first, or from the wire, where rtnh_len can be anything.        *)
(***************************************************************************)
EXTENDS Wire

CONSTANTS
  MaxPayload,    \* longest attribute value that comes from the wire, in bytes
  WireLengths,   \* what rtnh_len may hold in such a value
  AttrBytes,     \* bytes of the attributes of a caller's next hop
  MaxHops        \* longest list a caller builds

ASSUME MaxPayloadAssumption == MaxPayload \in Nat
ASSUME WireLengthsAssumption == WireLengths \subseteq Nat
ASSUME AttrBytesAssumption == AttrBytes \subseteq Nat
ASSUME MaxHopsAssumption == MaxHops \in Nat

(* Lengths are u16, in the attribute header and in rtnh_len.               *)
U16 == 65536

PAYLOAD_OFFSET == 8

VARIABLES
  built,     \* the caller's list, a sequence of attribute sizes
  origin,    \* "caller" or "wire"
  sent,      \* next hops measured so far, [off, len]
  payload,   \* length of the attribute value, for emitter and decoder
  at,        \* where value_len's sum, the emitter, the decoder's buf stands
  hops,      \* next hops decoded so far, [off, len]
  status     \* "measuring", "emitting", "running", "ok", "err" or "panic"

vars == <<built, origin, sent, payload, at, hops, status>>

Init ==
  /\ \/ /\ origin = "caller" /\ status = "measuring"
        /\ built \in UNION {[1 .. n -> AttrBytes] : n \in 0 .. MaxHops}
        /\ payload = 0
     \/ /\ origin = "wire" /\ status = "running"
        /\ built = <<>>
        /\ payload \in 0 .. MaxPayload
  /\ sent = <<>>
  /\ at = 0
  /\ hops = <<>>

(* Faulty: forgets the header (RoundTrip).                                 *)
BufferLenBare(attrBytes) == attrBytes

(* RouteNextHop::buffer_len.                                               *)
BufferLen(attrBytes) == PAYLOAD_OFFSET + attrBytes

(* One round of the sum in value_len, which is where the hop will lie.     *)
MeasureHop ==
  /\ status = "measuring"
  /\ Len(sent) < Len(built)
  /\ LET len == BufferLen(built[Len(sent) + 1])
     IN  /\ sent' = Append(sent, [off |-> at, len |-> len])
         /\ at' = at + len
  /\ UNCHANGED <<built, origin, payload, hops, status>>

(* Faulty: takes the sum for a length in any case (TypeOK).                *)
OpenValueAnyway ==
  /\ status = "measuring"
  /\ Len(sent) = Len(built)
  /\ payload' = ((at + NLA_HEADER_SIZE) % U16) - NLA_HEADER_SIZE
  /\ status' = "emitting"
  /\ at' = 0
  /\ UNCHANGED <<built, origin, sent, hops>>

(* Nla::emit writes the length of the attribute, a u16, and hands          *)
(* emit_value the slice that this length leaves.  A sum that overflows the *)
(* addition of the header panics there, or at the slice.                   *)
OpenValue ==
  /\ status = "measuring"
  /\ Len(sent) = Len(built)
  /\ LET nlaLen == (at + NLA_HEADER_SIZE) % U16
     IN  IF nlaLen >= NLA_HEADER_SIZE
         THEN payload' = nlaLen - NLA_HEADER_SIZE /\ status' = "emitting"
         ELSE payload' = 0 /\ status' = "panic"
  /\ at' = 0
  /\ UNCHANGED <<built, origin, sent, hops>>

(* The next hop of the caller's list that lies at an offset, if one does.  *)
Here(o) == {i \in 1 .. Len(sent) : sent[i].off = o}

(* One round of the emitter's loop: write the hop at offset, step over it. *)
EmitHop ==
  /\ status = "emitting"
  /\ \E i \in Here(at) :
       /\ at + sent[i].len <= payload
       /\ at' = at + sent[i].len
  /\ UNCHANGED <<built, origin, sent, payload, hops, status>>

(* buffer[offset..offset + len] reaches beyond the slice, because the      *)
(* length of the list did not fit into the attribute's u16.                *)
EmitBeyond ==
  /\ status = "emitting"
  /\ \E i \in Here(at) : at + sent[i].len > payload
  /\ status' = "panic"
  /\ UNCHANGED <<built, origin, sent, payload, at, hops>>

(* The offset behind the last next hop of a list.                          *)
End(s) == IF s = <<>> THEN 0 ELSE s[Len(s)].off + s[Len(s)].len

(* Every hop is written and the attribute reaches the decoder.             *)
Deliver ==
  /\ status = "emitting"
  /\ at = End(sent)
  /\ status' = "running"
  /\ at' = 0
  /\ UNCHANGED <<built, origin, sent, payload, hops>>
-----------------------------------------------------------------------------
(* What rtnh_len reads at an offset: what was emitted there, as a u16, and *)
(* anything where no next hop was emitted.                                 *)
RtnhLen(o) ==
  IF Here(o) = {} THEN WireLengths ELSE {sent[i].len % U16 : i \in Here(o)}

Rest == payload - at

(* check_buffer_length.                                                    *)
Checked(len) == Rest >= PAYLOAD_OFFSET /\ Rest >= len

(* Faulty: goes on after an error, with the same buf (Ends).               *)
TooShortContinue ==
  /\ status = "running"
  /\ \E len \in RtnhLen(at) : ~Checked(len)
  /\ UNCHANGED vars

(* new_checked returns Err.                                                *)
TooShort ==
  /\ status = "running"
  /\ \E len \in RtnhLen(at) : ~Checked(len)
  /\ status' = "err"
  /\ UNCHANGED <<built, origin, sent, payload, at, hops>>

(* The message of that Err adds the header to rtnh_len as a u16, which     *)
(* panics in a debug build when it overflows; a release build has the Err. *)
MessageOverflow ==
  /\ status = "running"
  /\ \E len \in RtnhLen(at) :
       /\ Rest >= PAYLOAD_OFFSET
       /\ Rest < len
       /\ PAYLOAD_OFFSET + len >= U16
  /\ status' = "panic"
  /\ UNCHANGED <<built, origin, sent, payload, at, hops>>

(* attributes() subtracts the header from an rtnh_len that does not cover  *)
(* it.  The subtraction panics in a debug build; in a release build it     *)
(* wraps, and the slice up to the wrapped value panics.                    *)
Underflow ==
  /\ status = "running"
  /\ \E len \in RtnhLen(at) : Checked(len) /\ len < PAYLOAD_OFFSET
  /\ status' = "panic"
  /\ UNCHANGED <<built, origin, sent, payload, at, hops>>

(* The attribute loop inside the next hop returns Err.  A hop the emitter  *)
(* wrote holds attributes that decode.                                     *)
RefuseHop ==
  /\ status = "running"
  /\ \E len \in RtnhLen(at) : Checked(len) /\ len >= PAYLOAD_OFFSET
  /\ Here(at) = {}
  /\ status' = "err"
  /\ UNCHANGED <<built, origin, sent, payload, at, hops>>

(* Faulty: leaves the loop when less than a header is left (OkIsWhole).    *)
TakeHopSloppy ==
  /\ status = "running"
  /\ \E len \in RtnhLen(at) :
       /\ Checked(len)
       /\ len >= PAYLOAD_OFFSET
       /\ hops' = Append(hops, [off |-> at, len |-> len])
       /\ IF Rest - len < PAYLOAD_OFFSET
          THEN status' = "ok" /\ UNCHANGED at
          ELSE at' = at + len /\ UNCHANGED status
  /\ UNCHANGED <<built, origin, sent, payload>>

(* Faulty: steps over the attributes only (HopsTile).                      *)
TakeHopOverlapping ==
  /\ status = "running"
  /\ \E len \in RtnhLen(at) :
       /\ Checked(len)
       /\ len >= PAYLOAD_OFFSET
       /\ hops' = Append(hops, [off |-> at, len |-> len])
       /\ IF Rest = len
          THEN status' = "ok" /\ UNCHANGED at
          ELSE at' = at + len - PAYLOAD_OFFSET /\ UNCHANGED status
  /\ UNCHANGED <<built, origin, sent, payload>>

(* A next hop is pushed; the loop ends when it was exactly the rest.       *)
TakeHop ==
  /\ status = "running"
  /\ \E len \in RtnhLen(at) :
       /\ Checked(len)
       /\ len >= PAYLOAD_OFFSET
       /\ hops' = Append(hops, [off |-> at, len |-> len])
       /\ IF Rest = len
          THEN status' = "ok" /\ UNCHANGED at
          ELSE at' = at + len /\ UNCHANGED status
  /\ UNCHANGED <<built, origin, sent, payload>>

Next ==
  \/ MeasureHop
  \/ OpenValue
  \/ EmitHop
  \/ EmitBeyond
  \/ Deliver
  \/ TooShort
  \/ MessageOverflow
  \/ Underflow
  \/ RefuseHop
  \/ TakeHop

Spec == Init /\ [][Next]_vars

(* Emitter and decoder are loops of one thread.                            *)
FairSpec == Spec /\ WF_vars(Next)
-----------------------------------------------------------------------------
Hops == [off : Nat, len : Nat]

(* The emitter's and the decoder's variables hold what their Rust types    *)
(* say; the length of an attribute value is never negative.                *)
TypeOK ==
  /\ built \in Seq(AttrBytes)
  /\ origin \in {"caller", "wire"}
  /\ sent \in Seq(Hops)
  /\ payload \in Nat
  /\ at \in Nat
  /\ hops \in Seq(Hops)
  /\ status \in {"measuring", "emitting", "running", "ok", "err", "panic"}

(* s is laid out from offset 0 on, each next hop right behind the one      *)
(* before it and with room for its header.                                 *)
LaidOut(s) ==
  /\ s # <<>> => s[1].off = 0
  /\ \A i \in 1 .. Len(s) : s[i].len >= PAYLOAD_OFFSET
  /\ \A i \in 1 .. Len(s) - 1 : s[i + 1].off = s[i].off + s[i].len

(* Whatever the rtnh_len fields say, the decoder reads next hops that are  *)
(* contiguous and inside the attribute.                                    *)
HopsTile ==
  /\ LaidOut(hops)
  /\ \A i \in 1 .. Len(hops) : hops[i].off + hops[i].len <= payload

(* A decoded RTA_MULTIPATH accounts for every byte of the attribute.       *)
OkIsWhole ==
  status = "ok" =>
    /\ hops # <<>>
    /\ hops[Len(hops)].off + hops[Len(hops)].len = payload

(* The caller's list fits into an attribute, header included.              *)
Fits == End(sent) + NLA_HEADER_SIZE < U16

(* A list that fits into an attribute is decoded to what was emitted, and  *)
(* neither emitting nor decoding fails on it.  The empty list is the       *)
(* exception: it is emitted as an empty attribute, which the decoder       *)
(* refuses.  A list that does not fit is never sent with a wrapped length: *)
(* emitting it panics.                                                     *)
RoundTrip ==
  (origin = "caller" /\ status # "measuring" /\ built # <<>>) =>
    /\ status \in IF Fits THEN {"emitting", "running", "ok"}
                            ELSE {"emitting", "panic"}
    /\ status = "ok" =>
         /\ Len(hops) = Len(built)
         /\ \A i \in 1 .. Len(hops) : hops[i].len = BufferLen(built[i])

(* No rtnh_len, 0 included, keeps the decoder in its loop.                 *)
Ends == <>(status \in {"ok", "err", "panic"})

(* README.md: "No panic is allowed, please use Result<> instead".          *)
NoPanic == status # "panic"
=============================================================================
