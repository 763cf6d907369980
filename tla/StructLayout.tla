---------------------------- MODULE StructLayout ----------------------------
(***************************************************************************)
(* A struct of fixed layout on its way through the crate: emitted into a   *)
(* buffer that its caller has used before, parsed out of it, emitted       *)
(* again.  One step moves one field.  A byte is known by where it comes    *)
(* from, <<source, position>>: a field of the value the application built, *)
(* the message of the kernel, what the caller's buffer held, or a field    *)
(* that parse() left at its default.  Where a field does not keep its      *)
(* number, the source is the number in the buffer and the value in the     *)
(* struct.                                                                 *)
(***************************************************************************)
EXTENDS LinkStructs, MessageStructs, TLC

CONSTANT MaxTrips   \* emissions of one value

VARIABLES
  struct,   \* the struct
  origin,   \* who made the first value: "application" or "kernel"
  bytes,    \* the buffer
  fields,   \* the value: the bytes of each field
  start,    \* what it began with: bytes of the kernel or fields
  moved,    \* accessors that the running emit() or parse() is through with
  trips,    \* emissions begun
  phase     \* "emit" or "parse"

vars == <<struct, origin, bytes, fields, start, moved, trips, phase>>

Structs == LinkStructs_all @@ MessageStructs_all

Layout == Structs[struct]

Places(n) == 0 .. n - 1

(* The bytes of an accessor, all from one source.                          *)
From(source, at) == [k \in Places(at[2] - at[1]) |-> <<source, k>>]

(* The buffer that a caller hands to emit().                               *)
Used(n) == [k \in Places(n) |-> <<"caller", k>>]

(* The fields of a value that none of parse() has set yet: those of        *)
(* Default.  The reserved bytes have no field.                             *)
Unset(s) ==
  [a \in {s.emit[k] : k \in DOMAIN s.emit} |-> From("default", s.buffer[a])]

(* What a struct's converted fields hold at first (a field without a       *)
(* conversion is known by its own name): numbers of the kernel, values of  *)
(* the application.                                                        *)
Numbers(s) ==
  IF DOMAIN s.convert = {} THEN {"kernel"}
  ELSE UNION {DOMAIN s.convert[a].from : a \in DOMAIN s.convert}

Values(s) ==
  IF DOMAIN s.convert = {} THEN {"application"}
  ELSE UNION {DOMAIN s.convert[a].into : a \in DOMAIN s.convert}

FromKernel(s, number) ==
  [k \in Places(s.len) |->
     IF \E a \in DOMAIN s.convert : k \in s.buffer[a][1] .. s.buffer[a][2] - 1
     THEN <<number, k>> ELSE <<"kernel", k>>]

FromApplication(s, value) ==
  [a \in DOMAIN Unset(s) |->
     From(IF a \in DOMAIN s.convert THEN value ELSE a, s.buffer[a])]

(* What parse() makes of the bytes of a converted field, and emit() of its *)
(* value.                                                                  *)
Mapped(map, piece) ==
  [k \in DOMAIN piece |->
     IF piece[k][1] \in DOMAIN map THEN <<map[piece[k][1]], piece[k][2]>> ELSE piece[k]]

Read(s, a, piece) ==
  IF a \in DOMAIN s.convert THEN Mapped(s.convert[a].from, piece) ELSE piece

Written(s, a, piece) ==
  IF a \in DOMAIN s.convert THEN Mapped(s.convert[a].into, piece) ELSE piece

Init ==
  /\ struct \in DOMAIN Structs
  /\ moved = 0
  /\ \/ /\ origin = "application"
        /\ phase = "emit"
        /\ trips = 1
        /\ bytes = Used(Layout.len)
        /\ \E value \in Values(Layout) : fields = FromApplication(Layout, value)
        /\ start = fields
     \/ /\ origin = "kernel"
        /\ phase = "parse"
        /\ trips = 0
        /\ \E number \in Numbers(Layout) : bytes = FromKernel(Layout, number)
        /\ fields = Unset(Layout)
        /\ start = bytes

(* set_<accessor>(), or copy_from_slice to <accessor>_mut().               *)
SetField ==
  /\ phase = "emit"
  /\ moved < Len(Layout.emit)
  /\ LET a == Layout.emit[moved + 1]
         at == Layout.buffer[a]
         piece == Written(Layout, a, fields[a])
     IN bytes' = [k \in DOMAIN bytes |->
                    IF k \in at[1] .. at[2] - 1 THEN piece[k - at[1]] ELSE bytes[k]]
  /\ moved' = moved + 1
  /\ UNCHANGED <<struct, origin, fields, start, trips, phase>>

(* <accessor>().                                                           *)
GetField ==
  /\ phase = "parse"
  /\ moved < Len(Layout.parse)
  /\ LET a == Layout.parse[moved + 1]
         at == Layout.buffer[a]
         piece == [k \in Places(at[2] - at[1]) |-> bytes[at[1] + k]]
     IN fields' = (a :> Read(Layout, a, piece)) @@ fields
  /\ moved' = moved + 1
  /\ UNCHANGED <<struct, origin, bytes, start, trips, phase>>

StartParse ==
  /\ phase = "emit"
  /\ moved = Len(Layout.emit)
  /\ phase' = "parse"
  /\ moved' = 0
  /\ fields' = Unset(Layout)
  /\ UNCHANGED <<struct, origin, bytes, start, trips>>

StartEmit ==
  /\ phase = "parse"
  /\ moved = Len(Layout.parse)
  /\ trips < MaxTrips
  /\ phase' = "emit"
  /\ moved' = 0
  /\ trips' = trips + 1
  /\ bytes' = Used(Layout.len)
  /\ UNCHANGED <<struct, origin, fields, start>>

Next == SetField \/ GetField \/ StartParse \/ StartEmit

Spec == Init /\ [][Next]_vars

-----------------------------------------------------------------------------
(* The bytes that buffer_len() counts and emit() leaves to the caller.     *)
Holes ==
  [LinkHeader |-> {1}, Map |-> 28 .. 31, VfVlanInfo |-> {14, 15},
   Icmp6Stats |-> 48 .. 55, Inet6Stats |-> 288 .. 303,
   MdbHeader |-> 1 .. 3, NeighbourHeader |-> 1 .. 3, NeighbourTableHeader |-> 1 .. 3,
   NsidHeader |-> 1 .. 3, PrefixHeader |-> {1, 2, 3, 11}, RuleHeader |-> {5, 6},
   TunnelHeader |-> {2, 3}, TcHeader |-> 1 .. 3, TcActionMessageHeader |-> 1 .. 3,
   TcU32Selector |-> {3}, TcStatsBasic |-> 12 .. 15, TcStats |-> 36 .. 39,
   TcFqCodelQdStats |-> 36 .. 39, TcFqCodelClStats |-> 24 .. 27]

HolesOf(s) == IF s \in DOMAIN Holes THEN Holes[s] ELSE {}

(* What emit() sets without a field to take it from.                       *)
Constants == {<<"MdbMessage", "zeros">>}

Emitted == phase = "emit" /\ moved = Len(Layout.emit)
Parsed == phase = "parse" /\ moved = Len(Layout.parse)

(* A value has the fields of its struct, a buffer its buffer_len(), and no *)
(* accessor reaches out of it.                                             *)
TypeOK ==
  /\ struct \in DOMAIN Structs
  /\ \A a \in DOMAIN Layout.buffer :
       LET at == Layout.buffer[a] IN 0 <= at[1] /\ at[1] < at[2] /\ at[2] <= Layout.len
  /\ DOMAIN bytes = Places(Layout.len)
  /\ \A a \in DOMAIN fields :
       DOMAIN fields[a] = Places(Layout.buffer[a][2] - Layout.buffer[a][1])
  /\ trips \in 0 .. MaxTrips

(* parse() finds every field that emit() was given, unmixed with another   *)
(* and with what the caller's buffer held, on every trip: no two accessors *)
(* overlap, and none is declared, set or got apart from the others.        *)
RoundTrip ==
  (Parsed /\ origin = "application") =>
    \A a \in DOMAIN Unset(Layout) :
      <<struct, a>> \in Constants \/ fields[a] = start[a]

(* The numbers that parse() and emit() do not give back as they came: a    *)
(* setting of u32::MAX becomes 0 and any above 1 becomes 1; a link layer   *)
(* type without a name becomes Void, a VLAN protocol 802.1Q.               *)
SentBack(byte) ==
  LET to == [max |-> "zero", other |-> "one", unnamed |-> "rest"]
  IN IF byte[1] \in DOMAIN to THEN <<to[byte[1]], byte[2]>> ELSE byte

(* What the kernel sent is sent back as it was on every trip, but for the  *)
(* holes and the numbers that SentBack names.                              *)
Resent ==
  (Emitted /\ origin = "kernel") =>
    \A k \in DOMAIN bytes \ HolesOf(struct) :
      \/ bytes[k] = SentBack(start[k])
      \/ \E c \in Constants : c[1] = struct /\ bytes[k][1] = "default"

(* The bytes of the caller's buffer that go out with an emitted struct are *)
(* those Holes lists, no more and no fewer.                                *)
CallerBytes ==
  Emitted => {k \in DOMAIN bytes : bytes[k][1] = "caller"} = HolesOf(struct)
=============================================================================
