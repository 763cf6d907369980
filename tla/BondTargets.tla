---------------------------- MODULE BondTargets ----------------------------
(***************************************************************************)
(* IFLA_BOND_ARP_IP_TARGET and IFLA_BOND_NS_IP6_TARGET                     *)
(* (link/link_info/bond.rs): a list of attributes, each of which has the   *)
(* index of a target for its kind and its address for its value.  The      *)
(* crate keeps a Vec of addresses: the index is dropped when the list is   *)
(* read, and counted anew when it is written.                              *)
(***************************************************************************)
EXTENDS Integers, Sequences, FiniteSets

CONSTANTS
  Addresses,   \* addresses of a family
  Indexes,     \* kinds that the members of a list may have
  MaxTargets,  \* longest list
  MaxTrips     \* emissions of one list

VARIABLES
  family,  \* of the attribute: "V4" or "V6"
  wire,    \* the members of the attribute
  at,      \* members read
  addrs,   \* the Vec
  first,   \* where the list is from, and what it was
  trips,   \* emissions
  status   \* "wire", "value" or "err"

vars == <<family, wire, at, addrs, first, trips, status>>

(* The value of a member is an address of four or of sixteen bytes, or     *)
(* something else that parse_ip refuses.                                   *)
Families == {"V4", "V6", "neither"}
Member(index, f, a) == [index |-> index, family |-> f, addr |-> a]
Members == [index : Indexes, family : Families, addr : Addresses]

(* A member whose length field is wrong.                                   *)
Malformed == Member(0, "malformed", CHOOSE a \in Addresses : TRUE)

Lists(S) == UNION {[1 .. n -> S] : n \in 0 .. MaxTargets}

Init ==
  /\ family \in {"V4", "V6"}
  /\ at = 0
  /\ trips = 0
  /\ \/ /\ wire \in Lists(Members \union {Malformed})
        /\ addrs = <<>>
        /\ first = <<"kernel", wire>>
        /\ status = "wire"
     \/ /\ wire = <<>>
        /\ addrs \in Lists(Addresses)
        /\ first = <<"application", addrs>>
        /\ status = "value"

(* Faulty: counts from one (Resent).                                       *)
BondIpAddrNlaListFromOne(v) == [i \in DOMAIN v |-> Member(i, family, v[i])]

(* From<&Vec<Ipv4Addr>> and From<&Vec<Ipv6Addr>> for BondIpAddrNlaList.    *)
BondIpAddrNlaList(v) == [i \in DOMAIN v |-> Member(i - 1, family, v[i])]

Emit ==
  /\ status = "value"
  /\ trips < MaxTrips
  /\ wire' = BondIpAddrNlaList(addrs)
  /\ at' = 0
  /\ addrs' = <<>>
  /\ trips' = trips + 1
  /\ status' = "wire"
  /\ UNCHANGED <<family, first>>

More == status = "wire" /\ at < Len(wire)
Here == wire[at + 1]

(* Faulty: addresses of both families are pushed (ReadAsSent).             *)
TakeBoth ==
  /\ More
  /\ Here.family \in {"V4", "V6"}
  /\ addrs' = Append(addrs, Here.addr)
  /\ at' = at + 1
  /\ UNCHANGED <<family, wire, first, trips, status>>

(* Faulty: the last member comes first (RoundTrip).                        *)
TakeInFront ==
  /\ More
  /\ Here.family = family
  /\ addrs' = <<Here.addr>> \o addrs
  /\ at' = at + 1
  /\ UNCHANGED <<family, wire, first, trips, status>>

(* An address of the family of the attribute.                              *)
Take ==
  /\ More
  /\ Here.family = family
  /\ addrs' = Append(addrs, Here.addr)
  /\ at' = at + 1
  /\ UNCHANGED <<family, wire, first, trips, status>>

(* What parse_ip refuses, and an address of the other family.              *)
Drop ==
  /\ More
  /\ Here.family \in Families \ {family}
  /\ at' = at + 1
  /\ UNCHANGED <<family, wire, addrs, first, trips, status>>

Refuse ==
  /\ More
  /\ Here.family = "malformed"
  /\ status' = "err"
  /\ UNCHANGED <<family, wire, at, addrs, first, trips>>

Return ==
  /\ status = "wire"
  /\ at = Len(wire)
  /\ status' = "value"
  /\ UNCHANGED <<family, wire, at, addrs, first, trips>>

Next == Emit \/ Take \/ Drop \/ Refuse \/ Return

Spec == Init /\ [][Next]_vars

-----------------------------------------------------------------------------
(* The Vec never holds more than the members read, nor a member without    *)
(* an index.                                                               *)
TypeOK ==
  /\ family \in {"V4", "V6"}
  /\ wire \in Seq([index : Nat, family : Families \union {"malformed"}, addr : Addresses])
  /\ at \in 0 .. Len(wire)
  /\ addrs \in Seq(Addresses)
  /\ status = "wire" => Len(addrs) <= at
  /\ trips \in 0 .. MaxTrips
  /\ status \in {"wire", "value", "err"}

(* The targets of an application are read back as they were listed, in     *)
(* order and with repetitions, on every trip, and are never refused.       *)
RoundTrip ==
  (first[1] = "application") =>
    status # "err" /\ (status = "value" => addrs = first[2])

(* The members of a list from the kernel that are of the right family.     *)
Own == {k \in DOMAIN first[2] : first[2][k].family = family}

(* Of what the kernel sent, the addresses of the family are kept, in the   *)
(* order in which they stood, whatever their index and whatever stood in   *)
(* between; none is made up and none is lost later.                        *)
ReadAsSent ==
  (first[1] = "kernel" /\ status = "value") =>
    /\ Len(addrs) = Cardinality(Own)
    /\ \A k \in Own : addrs[Cardinality(Own \cap 1 .. k)] = first[2][k].addr

(* A list is sent back with the indexes it came with if and only if these  *)
(* are 0, 1, ... and nothing was dropped: the kernel's slots survive only  *)
(* when they were full and in order.                                       *)
Resent ==
  (first[1] = "kernel" /\ trips > 0 /\ status # "err") =>
    LET sent == first[2]
        Dense == \A i \in DOMAIN sent : sent[i].family = family /\ sent[i].index = i - 1
    IN wire = sent <=> Dense
=============================================================================
