--------------------------- MODULE AttributeDecode ---------------------------
(***************************************************************************)
(* What decoding an attribute list promises, without an iterator: in one   *)
(* step the payload becomes an outcome that is determined by the chain of  *)
(* attribute headers in it.  AttributeStream implements this.              *)
(***************************************************************************)
EXTENDS Wire

CONSTANTS MaxPayload

VARIABLES payload, mode, outcome

Pending == [status |-> "running", attrs |-> <<>>]

WellFormedAt(o) == HeaderOk(payload.len - o, payload.declared[o])

(* A set of offsets that holds the first attribute and, with every         *)
(* well-formed attribute, the one behind its padding.                      *)
ChainClosed(S) ==
  /\ payload.len > 0 => 0 \in S
  /\ \A o \in S :
       WellFormedAt(o) =>
         LET next == o + Align(payload.declared[o])
         IN  next < payload.len => next \in S

(* The offsets the headers chain together: the least closed set.           *)
Closed == {S \in SUBSET {o \in 0 .. MaxPayload : o % 4 = 0} : ChainClosed(S)}

Chain == CHOOSE S \in Closed : \A T \in Closed : S \subseteq T

Wanted == {o \in Chain : WellFormedAt(o) /\ payload.accepts[o]}

(* The wanted attributes, each with its length, in wire order; no other    *)
(* list is.                                                                *)
IsDecoded(list) ==
  /\ list \in Seq([off : Nat, len : Nat])
  /\ {list[i].off : i \in 1 .. Len(list)} = Wanted
  /\ \A i \in 1 .. Len(list) : list[i].len = payload.declared[list[i].off]
  /\ \A i, j \in 1 .. Len(list) : i < j => list[i].off < list[j].off

(* A strict decoder refuses a payload with any bad attribute in the chain; *)
(* otherwise the good ones are returned, in wire order.                    *)
Decode ==
  /\ outcome = Pending
  /\ \/ /\ mode = "strict" /\ Wanted # Chain
        /\ outcome' = [status |-> "err", attrs |-> <<>>]
     \/ /\ mode = "lenient" \/ Wanted = Chain
        /\ outcome' = [status |-> "ok", attrs |-> outcome'.attrs]
        /\ IsDecoded(outcome'.attrs)
  /\ UNCHANGED <<payload, mode>>

Init == outcome = Pending

Spec == Init /\ [][Decode]_<<payload, mode, outcome>>
=============================================================================
