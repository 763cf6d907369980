---------------------------- MODULE CodecTable ----------------------------
(***************************************************************************)
(* The shape of the attribute tables.  An attribute enum of the crate is a *)
(* codec: the kind of each variant, and for each context a message can     *)
(* put the attribute in, the formats its variants are emitted in           *)
(* (format -> variants) and the arms of its parser (format -> variant ->   *)
(* kind).                                                                  *)
(***************************************************************************)
EXTENDS Integers, TLC

(* The flag bits of a kind; kind() of a received attribute masks them.     *)
NLA_F_NESTED == 32768
KindMask == 16384

(* A codec that does not look at the message around it.                    *)
Codec(kind, emit, parse) ==
  [kind |-> kind,
   emit |-> [c \in {"any"} |-> emit],
   parse |-> [c \in {"any"} |-> parse]]

(* An enum that knows no attribute: each is Other.                         *)
Opaque == Codec(<<>>, <<>>, <<>>)

(* The arms of two halves of a parser.                                     *)
Join(p, q) ==
  LET Rows(t, f) == IF f \in DOMAIN t THEN t[f] ELSE <<>>
  IN [f \in DOMAIN p \cup DOMAIN q |-> Rows(p, f) @@ Rows(q, f)]

(* An emit table without some of its <<format, variant>> rows.             *)
Without(emit, rows) ==
  [f \in DOMAIN emit |-> {v \in emit[f] : <<f, v>> \notin rows}]

(* RouteAddress::parse and NeighbourAddress::parse_with_param: the header  *)
(* of the message says what an address is.  A multicast route is one of    *)
(* the inet family.  Neighbours have no MPLS addresses.                    *)
AddressFormat(context) ==
  CASE context \in {"inet", "multicast"} -> "ipv4"
    [] context = "inet6" -> "ipv6"
    [] context = "mpls" -> "be32"
    [] OTHER -> "bytes"
=============================================================================
