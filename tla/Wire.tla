-------------------------------- MODULE Wire --------------------------------
(***************************************************************************)
(* What the codecs of netlink-packet-route use of netlink-packet-utils:    *)
(* the geometry of a netlink attribute (NLA) and the check an attribute    *)
(* header has to pass.  Nothing here is code of this repository; it is the *)
(* library as src/ calls it.                                               *)
(***************************************************************************)
EXTENDS Integers, Sequences

(* Bytes of the length and type fields in front of every attribute value.  *)
NLA_HEADER_SIZE == 4

(* nla_align!: attributes start on 4-byte boundaries.                      *)
Align(n) == ((n + 3) \div 4) * 4

(* NlaBuffer::new_checked on what is left of a buffer: rest bytes, the     *)
(* first two of which declare an attribute of len bytes.                   *)
HeaderOk(rest, len) ==
  /\ rest >= NLA_HEADER_SIZE
  /\ rest >= len
  /\ len >= NLA_HEADER_SIZE
=============================================================================
