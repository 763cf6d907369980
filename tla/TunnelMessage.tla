---------------------------- MODULE TunnelMessage ----------------------------
(***************************************************************************)
(* The VNI filter messages (tunnel/message.rs).  Each VNI is a nested      *)
(* VXLAN_VNIFILTER_ENTRY with one VXLAN_VNIFILTER_ENTRY_START in it, both  *)
(* written by hand with the lengths ENTRY_LEN and 8; they are read by two  *)
(* nested loops that pass over everything they do not know.                *)
(*                                                                         *)
(* On the wire an entry is [tag, room, inner]: room is the bytes of value  *)
(* that its length leaves, inner the attributes in it, each [tag, len,     *)
(* vni] with len the declared length.  A caller's VNIs are emitted into    *)
(* buffers of buffer_len() bytes.                                          *)
(***************************************************************************)
EXTENDS Wire, FiniteSets

CONSTANTS
  Vnis,        \* VNIs that occur
  MaxVnis,     \* most VNIs of a caller's message
  MaxEntries,  \* most entries of a message from the wire
  MaxInner,    \* most attributes of such an entry
  MaxTrips     \* emissions of one message

VARIABLES
  vnis,      \* the Vec<u32> filled or emitted
  built,     \* the VNIs of the caller
  received,  \* the message that was on the wire first
  wire,      \* the entries of the message
  off,       \* where emit writes, behind the header
  at, in,    \* where the two loops stand
  seen,      \* the first VNIs decoded, or the caller's
  trips,     \* emissions so far
  status     \* "value", "emitting", "parsing" (in = 0: in the outer loop)

vars == <<vnis, built, received, wire, off, at, in, seen, trips, status>>

Lists(S, n) == UNION {[1 .. k -> S] : k \in 0 .. n}

(* START and END of a range, START in the wrong length, something else,    *)
(* and an attribute longer than the room for it.                           *)
InnerItems ==
  [tag : {"START"}, len : {8}, vni : Vnis]
    \cup [tag : {"START"}, len : {6, 400}, vni : {0}]
    \cup [tag : {"END", "Other"}, len : {8}, vni : {0}]

Entry(tag, inner) == [tag |-> tag, room |-> 8 * Len(inner), inner |-> inner]
WireEntries ==
  {Entry(tag, inner) : tag \in {"ENTRY", "Other"}, inner \in Lists(InnerItems, MaxInner)}
    \cup {[tag |-> "Malformed", room |-> 0, inner |-> <<>>]}

NoMessage == <<[tag |-> "None", room |-> 0, inner |-> <<>>]>>

Init ==
  /\ \/ /\ status = "value"
        /\ vnis \in Lists(Vnis, MaxVnis) /\ built = vnis /\ seen = vnis
        /\ wire = <<>> /\ received = NoMessage
     \/ /\ status = "parsing"
        /\ wire \in Lists(WireEntries, MaxEntries) /\ received = wire
        /\ vnis = <<>> /\ built = <<>> /\ seen = <<>>
  /\ off = 0
  /\ at = 1 /\ in = 0
  /\ trips = 0
-----------------------------------------------------------------------------
(* Faulty: leaves out the header of the inner attribute (RoundTrip).       *)
EntryLenShort == 4 + 4

ENTRY_LEN == 4 + 4 + 4

(* Faulty: counts one header per VNI (TypeOK).                             *)
BufferLenFlat == Len(vnis) * 8

(* buffer_len() without the message header.                                *)
BufferLen == Len(vnis) * ENTRY_LEN

StartEmit ==
  /\ status = "value"
  /\ trips < MaxTrips
  /\ status' = "emitting"
  /\ trips' = trips + 1
  /\ off' = 0 /\ wire' = <<>>
  /\ UNCHANGED <<vnis, built, received, at, in, seen>>

(* Faulty: the first VNI in every entry (Resent).                          *)
EmitEntryFirst ==
  /\ status = "emitting"
  /\ Len(wire) < Len(vnis)
  /\ wire' = Append(wire, [tag |-> "ENTRY", room |-> ENTRY_LEN - NLA_HEADER_SIZE,
                           inner |-> <<[tag |-> "START", len |-> 8, vni |-> vnis[1]]>>])
  /\ off' = off + ENTRY_LEN
  /\ UNCHANGED <<vnis, built, received, at, in, seen, trips, status>>

(* One round of the loop in emit.                                          *)
EmitEntry ==
  /\ status = "emitting"
  /\ Len(wire) < Len(vnis)
  /\ wire' = Append(wire, [tag |-> "ENTRY", room |-> ENTRY_LEN - NLA_HEADER_SIZE,
                           inner |-> <<[tag |-> "START", len |-> 8,
                                        vni |-> vnis[Len(wire) + 1]]>>])
  /\ off' = off + ENTRY_LEN
  /\ UNCHANGED <<vnis, built, received, at, in, seen, trips, status>>

Deliver ==
  /\ status = "emitting"
  /\ Len(wire) = Len(vnis)
  /\ status' = "parsing"
  /\ vnis' = <<>>
  /\ at' = 1 /\ in' = 0
  /\ UNCHANGED <<built, received, wire, off, seen, trips>>
-----------------------------------------------------------------------------
Outer == status = "parsing" /\ in = 0 /\ at <= Len(wire)
Inner == status = "parsing" /\ in > 0
InnerHere == wire[at].inner[in]
InnerMore == in <= Len(wire[at].inner)

(* The header of the inner attribute fits into what is left of the entry.  *)
(* The ones in front of it were 8 bytes, the last of them padded.          *)
InnerOk == HeaderOk(wire[at].room - 8 * (in - 1), InnerHere.len)

(* An entry of another kind; behind a malformed one the iterator is spent. *)
SkipEntry ==
  /\ Outer
  /\ wire[at].tag # "ENTRY"
  /\ at' = IF wire[at].tag = "Malformed" THEN Len(wire) + 1 ELSE at + 1
  /\ UNCHANGED <<vnis, built, received, wire, off, in, seen, trips, status>>

EnterEntry ==
  /\ Outer
  /\ wire[at].tag = "ENTRY"
  /\ in' = 1
  /\ UNCHANGED <<vnis, built, received, wire, off, at, seen, trips, status>>

(* Faulty: the end of a range is a VNI, too (ReadAsSent).                  *)
ReadInnerRange ==
  /\ Inner /\ InnerMore
  /\ vnis' = IF InnerOk /\ InnerHere.tag \in {"START", "END"} /\ InnerHere.len = 8
             THEN Append(vnis, InnerHere.vni) ELSE vnis
  /\ in' = IF InnerOk THEN in + 1 ELSE Len(wire[at].inner) + 1
  /\ UNCHANGED <<built, received, wire, off, at, seen, trips, status>>

(* Only a START of four bytes is taken.                                    *)
ReadInner ==
  /\ Inner /\ InnerMore
  /\ vnis' = IF InnerOk /\ InnerHere.tag = "START" /\ InnerHere.len = 8
             THEN Append(vnis, InnerHere.vni) ELSE vnis
  /\ in' = IF InnerOk THEN in + 1 ELSE Len(wire[at].inner) + 1
  /\ UNCHANGED <<built, received, wire, off, at, seen, trips, status>>

LeaveEntry ==
  /\ Inner /\ ~InnerMore
  /\ in' = 0
  /\ at' = at + 1
  /\ UNCHANGED <<vnis, built, received, wire, off, seen, trips, status>>

(* TunnelMessage::parse returns; it cannot fail.                           *)
Return ==
  /\ status = "parsing" /\ in = 0 /\ at > Len(wire)
  /\ status' = "value"
  /\ seen' = IF trips = 0 THEN vnis ELSE seen
  /\ UNCHANGED <<vnis, built, received, wire, off, at, in, trips>>

Next ==
  \/ StartEmit \/ EmitEntry \/ Deliver
  \/ SkipEntry \/ EnterEntry \/ ReadInner \/ LeaveEntry \/ Return

Spec == Init /\ [][Next]_vars
-----------------------------------------------------------------------------
(* The loops stand inside their lists, and emit inside its buffer, which   *)
(* it fills.                                                               *)
TypeOK ==
  /\ status \in {"value", "emitting", "parsing"}
  /\ at \in 1 .. Len(wire) + 1 \/ status # "parsing"
  /\ in > 0 => in <= Len(wire[at].inner) + 1
  /\ \A k \in 1 .. Len(vnis) : vnis[k] \in Vnis
  /\ status = "emitting" =>
       off <= BufferLen /\ (Len(wire) = Len(vnis) => off = BufferLen)

(* Every list of VNIs, with repetitions and empty, comes back in order.    *)
RoundTrip ==
  (received = NoMessage /\ status = "value") => vnis = built

(* The STARTs of the message from the wire, by entry and place in it, that *)
(* stand in front of anything malformed.                                   *)
Starts ==
  {p \in (1 .. Len(received)) \X (1 .. MaxInner) :
     LET inner == received[p[1]].inner
     IN /\ received[p[1]].tag = "ENTRY"
        /\ \A k \in 1 .. p[1] : received[k].tag # "Malformed"
        /\ p[2] <= Len(inner)
        /\ \A k \in 1 .. p[2] : inner[k].len <= 8 * (Len(inner) - k + 1)
        /\ inner[p[2]].tag = "START" /\ inner[p[2]].len = 8}

(* Those that stand no further back than p.                                *)
UpTo(p) == {q \in Starts : q[1] < p[1] \/ (q[1] = p[1] /\ q[2] <= p[2])}

(* What the message from the wire means to the crate: the VNI of each      *)
(* START in front of anything malformed, in order.  A range is its first   *)
(* VNI; two STARTs in one entry are two VNIs.                              *)
ReadAsSent ==
  (received # NoMessage /\ status = "value" /\ trips = 0) =>
    /\ Len(vnis) = Cardinality(Starts)
    /\ \A p \in Starts : vnis[Cardinality(UpTo(p))] = received[p[1]].inner[p[2]].vni

(* A message sent on says the same VNIs to the next reader, although each  *)
(* of them is now an entry of its own.                                     *)
Resent ==
  (trips > 0 /\ status = "value") => vnis = seen
=============================================================================
