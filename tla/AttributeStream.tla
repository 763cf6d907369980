--------------------------- MODULE AttributeStream ---------------------------
(***************************************************************************)
(* The loop every message of the crate runs over its attributes:           *)
(*                                                                         *)
(*     for nla_buf in buf.attributes() {                                   *)
(*         attributes.push(XAttribute::parse(&nla_buf?)?);                 *)
(*     }                                                                   *)
(*                                                                         *)
(* in its two variants.  The strict one (link, address, route, rule,       *)
(* neighbour, tc, ... messages) leaves with Err at the first attribute     *)
(* that is malformed or that its parser refuses.  The lenient one (tunnel  *)
(* and MDB entries: `let Ok(nla) = nla else { continue }`) skips both.     *)
(*                                                                         *)
(* A payload is abstracted to its length, to what the two length bytes     *)
(* declare at every offset, and to whether the attribute parser accepts    *)
(* the attribute that starts there.                                        *)
(***************************************************************************)
EXTENDS Wire

CONSTANTS
  MaxPayload,   \* longest payload considered, in bytes
  Lengths       \* values the length field of an attribute may hold

ASSUME MaxPayloadAssumption == MaxPayload \in Nat
ASSUME LengthsAssumption == Lengths \subseteq Nat

VARIABLES
  payload,   \* the input: [len, declared, accepts], never written
  mode,      \* which of the two loops is running
  pos,       \* NlasIterator::position
  nlas,      \* attributes the iterator has yielded, [off, len]
  attrs,     \* the Vec the loop builds: the ones that were pushed
  status     \* "running", or what the function returned: "ok" or "err"

vars == <<payload, mode, pos, nlas, attrs, status>>

(* Where an attribute can start.                                           *)
Starts == {o \in 0 .. MaxPayload : o % 4 = 0}

Payloads ==
  [len : 0 .. MaxPayload, declared : [Starts -> Lengths], accepts : [Starts -> BOOLEAN]]

Modes == {"strict", "lenient"}

Init ==
  /\ payload \in Payloads
  /\ mode \in Modes
  /\ pos = 0
  /\ nlas = <<>>
  /\ attrs = <<>>
  /\ status = "running"

(* Faulty: takes the offset of a value for that of its header (TypeOK).    *)
HereBeforeHeader == [off |-> pos - NLA_HEADER_SIZE, len |-> payload.declared[pos]]

(* The attribute that starts at the iterator's position.                   *)
Here == [off |-> pos, len |-> payload.declared[pos]]

(* Faulty: does not compare the length with what is left (InBounds).       *)
HereHasHeader ==
  payload.len - pos >= NLA_HEADER_SIZE /\ payload.declared[pos] >= NLA_HEADER_SIZE

HereIsWellFormed == HeaderOk(payload.len - pos, payload.declared[pos])

(* NlasIterator::next returned None: the function returns its Vec.         *)
Return ==
  /\ status = "running"
  /\ pos >= payload.len
  /\ status' = "ok"
  /\ UNCHANGED <<payload, mode, pos, nlas, attrs>>

(* Faulty: a bad header does not spend the iterator (Returns).             *)
MalformedInPlace ==
  /\ status = "running"
  /\ pos < payload.len
  /\ ~HereIsWellFormed
  /\ status' = IF mode = "strict" THEN "err" ELSE "running"
  /\ UNCHANGED <<payload, mode, pos, nlas, attrs>>

(* NlasIterator::next returned Some(Err): the iterator is spent, and the   *)
(* strict loop returns the error.                                          *)
Malformed ==
  /\ status = "running"
  /\ pos < payload.len
  /\ ~HereIsWellFormed
  /\ pos' = payload.len
  /\ status' = IF mode = "strict" THEN "err" ELSE "running"
  /\ UNCHANGED <<payload, mode, nlas, attrs>>

(* Faulty: steps over the header only (Disjoint).                          *)
AdvanceOverHeader ==
  /\ status = "running"
  /\ pos < payload.len
  /\ HereIsWellFormed
  /\ pos' = pos + NLA_HEADER_SIZE
  /\ nlas' = Append(nlas, Here)
  /\ UNCHANGED <<payload, mode>>

(* Faulty: counts the header twice (Tiled).                                *)
AdvanceTooFar ==
  /\ status = "running"
  /\ pos < payload.len
  /\ HereIsWellFormed
  /\ pos' = pos + Align(payload.declared[pos] + NLA_HEADER_SIZE)
  /\ nlas' = Append(nlas, Here)
  /\ UNCHANGED <<payload, mode>>

(* Faulty: steps over the value only (Progress).                           *)
AdvanceOverValue ==
  /\ status = "running"
  /\ pos < payload.len
  /\ HereIsWellFormed
  /\ pos' = pos + Align(payload.declared[pos] - NLA_HEADER_SIZE)
  /\ nlas' = Append(nlas, Here)
  /\ UNCHANGED <<payload, mode>>

(* What NlasIterator::next does when it returns Some(Ok).                  *)
Advance ==
  /\ status = "running"
  /\ pos < payload.len
  /\ HereIsWellFormed
  /\ pos' = pos + Align(payload.declared[pos])
  /\ nlas' = Append(nlas, Here)
  /\ UNCHANGED <<payload, mode>>

(* Faulty: collects the attributes in reverse (ImplementsDecode).          *)
PushInFront ==
  /\ Advance
  /\ payload.accepts[pos]
  /\ attrs' = <<Here>> \o attrs
  /\ UNCHANGED status

(* The attribute's own parser accepts it.                                  *)
Push ==
  /\ Advance
  /\ payload.accepts[pos]
  /\ attrs' = Append(attrs, Here)
  /\ UNCHANGED status

(* Faulty: skips what the parser refuses in both loops (StrictOkIsComplete). *)
RefuseQuietly ==
  /\ Advance
  /\ ~payload.accepts[pos]
  /\ UNCHANGED <<attrs, status>>

(* The attribute's own parser refuses it.                                  *)
Refuse ==
  /\ Advance
  /\ ~payload.accepts[pos]
  /\ status' = IF mode = "strict" THEN "err" ELSE "running"
  /\ UNCHANGED attrs

Next == Return \/ Malformed \/ Push \/ Refuse

Spec == Init /\ [][Next]_vars

(* The loop is sequential code that nothing preempts: an enabled step is   *)
(* eventually taken.                                                       *)
FairSpec == Spec /\ WF_vars(Next)
-----------------------------------------------------------------------------
Nlas == [off : Nat, len : Nat]

(* The loop's variables hold what their Rust types say; offsets are never  *)
(* negative.                                                               *)
TypeOK ==
  /\ payload \in Payloads
  /\ mode \in Modes
  /\ pos \in Nat
  /\ nlas \in Seq(Nlas)
  /\ attrs \in Seq(Nlas)
  /\ status \in {"running", "ok", "err"}

(* No attribute handed to a parser reaches beyond the message: whatever    *)
(* the length fields say, header and value lie inside the payload.         *)
InBounds ==
  \A i \in 1 .. Len(nlas) :
    /\ nlas[i].len >= NLA_HEADER_SIZE
    /\ nlas[i].off + nlas[i].len <= payload.len

(* No byte is decoded twice: attributes are handed out left to right and   *)
(* without overlap.                                                        *)
Disjoint ==
  \A i, j \in 1 .. Len(nlas) :
    i < j => nlas[i].off + nlas[i].len <= nlas[j].off

(* No byte is skipped: the attributes yielded so far start at offset 0 and *)
(* follow one another with nothing but alignment padding in between, and,  *)
(* unless a malformed header spent the iterator, it stands right behind    *)
(* the last of them.                                                       *)
Tiled ==
  /\ nlas # <<>> => nlas[1].off = 0
  /\ \A i \in 1 .. Len(nlas) - 1 :
       nlas[i + 1].off = nlas[i].off + Align(nlas[i].len)
  /\ \/ nlas = <<>> /\ pos = 0
     \/ nlas # <<>> /\ pos = nlas[Len(nlas)].off + Align(nlas[Len(nlas)].len)
     \/ pos = payload.len

(* A strict loop that returns Ok has decoded the whole message: every      *)
(* attribute was pushed, and what is left over is less than a word.        *)
StrictOkIsComplete ==
  (mode = "strict" /\ status = "ok") =>
    /\ attrs = nlas
    /\ \A o \in 0 .. payload.len - 1 :
         \E i \in 1 .. Len(attrs) :
           attrs[i].off <= o /\ o < attrs[i].off + Align(attrs[i].len)

(* Every iteration makes progress: no header, however short a length it    *)
(* declares, can stall the iterator.                                       *)
Progress == [][pos' > pos \/ status' # status]_vars

(* Decoding any payload returns.                                           *)
Returns == <>(status # "running")
=============================================================================
