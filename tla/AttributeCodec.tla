--------------------------- MODULE AttributeCodec ---------------------------
(***************************************************************************)
(* One attribute on its way through the crate.  It starts as a value an    *)
(* application built or as the bytes the kernel sent, and is emitted into  *)
(* a buffer and parsed back in turn, each time by the arms the tables give *)
(* for its enum.  The contents of a value are abstracted to the layout     *)
(* they are in (as) and the bytes they take (size); the bytes of a buffer  *)
(* that emit_value leaves as it found them are kept track of (stale).      *)
(***************************************************************************)
EXTENDS Wire, LinkTables, LinkInfoTables, RouteTables, TcTables, FiniteSets

CONSTANTS
  MaxTrips,   \* emissions of one attribute
  OtherKind   \* a kind that no enum knows

ASSUME MaxTripsAssumption == MaxTrips \in Nat \ {0}
ASSUME OtherKindAssumption == OtherKind \in 100 .. KindMask - 1

VARIABLES
  codec,    \* the attribute enum
  context,  \* what its parser is told about the message
  buffer,   \* what the buffers given to emit held before: "zeroed" or "stale"
  seen,     \* the values built or parsed, oldest first
  sent,     \* the attributes received or emitted, oldest first
  status    \* "value", "wire": whose turn it is; "err", "panic", "dropped": how it ended

vars == <<codec, context, buffer, seen, sent, status>>

Codecs == LinkCodecs @@ LinkInfoCodecs @@ RouteCodecs @@ TcCodecs

-----------------------------------------------------------------------------
(* Formats.  A number is N bytes (be: big endian), sN a struct of N bytes. *)

(* Parsers that insist on the length of the payload.                       *)
Exact == [u8 |-> 1, u16 |-> 2, u32 |-> 4, u64 |-> 8, be16 |-> 2, be32 |-> 4,
          mac |-> 6, ipv4 |-> 4, ipv6 |-> 16, x4 |-> 4, x8 |-> 8, bits8 |-> 8]

(* Buffer::new_checked: the payload is at least as long as the struct.     *)
AtLeast == [s16 |-> 16, s24 |-> 24, s28 |-> 28, s32 |-> 32, s36 |-> 36, s88 |-> 88,
            compat |-> 40]

(* Buffer::new: the accessors slice the payload without looking at it.     *)
Unchecked == [r8 |-> 8, r12 |-> 12, rBasic |-> 12, r14 |-> 14, r16 |-> 16,
              r20 |-> 20, r28 |-> 28, r32 |-> 32, r36 |-> 36]

(* expand_buffer_if_small: a short payload is filled up with zeros.        *)
Padded == [p56 |-> 56, p96 |-> 96, p200 |-> 200, p304 |-> 304, devconf4 |-> 33 * 4,
           devconf6 |-> 60 * 4]

(* The layout a parser of structs leaves a value in.                       *)
LayoutOf(f) ==
  LET Structs == [x4 |-> "s4", x8 |-> "s8", r8 |-> "s8", r12 |-> "s12", rBasic |-> "basic",
                  r14 |-> "vlanInfo", r16 |-> "s16", r20 |-> "s20", r28 |-> "map",
                  r32 |-> "s32", r36 |-> "s36", p56 |-> "icmp6", p96 |-> "s96",
                  p200 |-> "s200", p304 |-> "inet6", realm |-> "u32",
                  nlasSome |-> "nlas", nlasRaw |-> "nlas", port |-> "nlas",
                  textOpen |-> "text", raw |-> "bytes"]
  IN IF f \in DOMAIN Structs THEN Structs[f] ELSE f

(* The layouts of the values that are emitted in a format.  An application *)
(* can fill in a segment routing header whose segments_left is 15 or more, *)
(* or does not fit its segments (srhLeft), and as TcFqCodelXstats::Other   *)
(* bytes that begin with the tag of a Qdisc or a Class (xstatsTagged).     *)
(* Its u32 selectors count their keys: U32Selector has those that do not.  *)
Layouts(f) ==
  {LayoutOf(f)} \cup CASE f = "srh" -> {"srhLeft"}
                       [] f = "xstats" -> {"xstatsTagged"}
                       [] OTHER -> {}

(* value_len() of a value in a layout: of several sizes where the value    *)
(* has a length of its own.  A text takes one byte for its NUL.  Lists of  *)
(* attributes are well-formed ones.  Bytes are never as long as an         *)
(* address: NDA_DST of a bridge would not tell them from one.              *)
Sizes(as) ==
  LET Fixed == [u8 |-> 1, u16 |-> 2, u32 |-> 4, u64 |-> 8, be16 |-> 2, be32 |-> 4,
                mac |-> 6, ipv4 |-> 4, ipv6 |-> 16, bits8 |-> 8, flag |-> 0, off |-> 0,
                s4 |-> 4, s8 |-> 8, s12 |-> 12, s16 |-> 16, s20 |-> 20, s24 |-> 24,
                s28 |-> 28, s32 |-> 32, s36 |-> 36, icmp6 |-> 56, s88 |-> 88, s96 |-> 96,
                s200 |-> 200, inet6 |-> 304, map |-> 32, basic |-> 16, vlanInfo |-> 16,
                compat |-> 40, devconf4 |-> 33 * 4, devconf6 |-> 60 * 4]
      Varying == [bytes |-> {0, 5}, text |-> {1, 7}, textRaw |-> {0, 6}, nlas |-> {0, 8},
                  phys |-> {0, 20, 32}, via |-> {2, 6, 18}, list4 |-> {0, 4, 8},
                  list8 |-> {0, 8, 16}, hops |-> {0, 16}, link |-> {16, 24},
                  selector |-> {16, 32}, srh |-> {24, 40}, hole |-> {0, 8},
                  xstats |-> {0, 5, 28, 40}, srhLeft |-> {8, 24, 40, 264},
                  xstatsTagged |-> {4, 27, 28, 39, 40}]
  IN IF as \in DOMAIN Fixed THEN {Fixed[as]} ELSE Varying[as]

(* Faulty: the emitters of 32-byte structs forget a field.                 *)
HoleyCacheInfo == {"map", "vlanInfo", "basic", "selector", "link", "hole", "icmp6", "inet6",
                   "compat", "s32"}

(* The layouts with bytes that value_len() counts and emit_value() never   *)
(* writes: the end of a Map, of a VfVlanInfo and of a TcStatsBasic, the    *)
(* pad byte of a TcU32Selector, the reserved byte of a LinkHeader and the  *)
(* whole of a Padding.  TcStats, Icmp6Stats and Inet6Stats count words     *)
(* behind their last field.                                                *)
Holey == {"map", "vlanInfo", "basic", "selector", "link", "hole", "icmp6", "inet6", "compat"}

-----------------------------------------------------------------------------
(* Emitting: the row of the emit table that the value is in.  Other and    *)
(* what was parsed in a foreign layout have none and are copied.           *)
EmitFormat(value) ==
  LET emit == Codecs[codec].emit[context]
      rows == {f \in DOMAIN emit : value.variant \in emit[f] /\ value.as \in Layouts(f)}
  IN IF rows = {} THEN "bytes" ELSE CHOOSE f \in rows : TRUE

(* The attribute that Nla::emit writes.  The IFLA_PORT_SELF emitter writes *)
(* a whole attribute, header included, where its parser expects the value; *)
(* a false vxlan flag is written like a true one.                          *)
Emitted(value) ==
  LET f == EmitFormat(value)
  IN [kind |-> value.kind,
      as |-> IF f = "off" THEN "flag" ELSE value.as,
      len |-> IF f = "port" THEN value.size + 4 ELSE value.size,
      stale |-> /\ buffer = "stale"
                /\ f \in Holey \cup {"textOpen"}
                /\ value.size > 0]

-----------------------------------------------------------------------------
(* Parsing.  A parser of format f turns an attribute into a value of some  *)
(* size, or refuses it (Err), or panics.                                   *)
Err == -1
Panic == -2

(* Faulty: Buffer::new where the code has Buffer::new_checked.             *)
ReadStructUnchecked(f, len) ==
  LET size == Sizes(LayoutOf(f))
  IN CASE f \in DOMAIN Exact -> IF len = Exact[f] THEN size ELSE {Err}
       [] f \in DOMAIN AtLeast -> IF len >= AtLeast[f] THEN size ELSE {Panic}
       [] f \in DOMAIN Unchecked -> IF len >= Unchecked[f] THEN size ELSE {Panic}
       [] f \in DOMAIN Padded -> size

(* The sizes of the value that a parser of numbers and structs reads.      *)
ReadStruct(f, len) ==
  LET size == Sizes(LayoutOf(f))
  IN CASE f \in DOMAIN Exact -> IF len = Exact[f] THEN size ELSE {Err}
       [] f \in DOMAIN AtLeast -> IF len >= AtLeast[f] THEN size ELSE {Err}
       [] f \in DOMAIN Unchecked -> IF len >= Unchecked[f] THEN size ELSE {Panic}
       [] f \in DOMAIN Padded -> size

(* RouteRealm::parse looks at four bytes before it checks the length.      *)
ReadRealm(len) == IF len < 4 THEN {Panic} ELSE IF len = 4 THEN {4} ELSE {Err}

(* TcU32Selector::parse believes the key count in front of the keys.       *)
ReadSelector(wire) ==
  CASE wire.len < 16 -> {Err}
    [] wire.as = "junk" -> {Panic}
    [] OTHER -> {wire.len - (wire.len % 16)}

(* TcFqCodelXstats::parse: the first word says which statistics follow,    *)
(* which are read unchecked; of an unknown one all is kept.                *)
ReadXstats(wire) ==
  LET tagged == {IF wire.len < 40 THEN Panic ELSE 40, IF wire.len < 28 THEN Panic ELSE 28}
  IN CASE wire.len < 4 -> {Err}
       [] wire.as = "xstats" -> {wire.len}
       [] wire.as = "xstatsTagged" -> tagged
       [] OTHER -> {wire.len} \cup tagged

(* Ipv6SrHdr::parse, which Seg6 looks into: the segments that              *)
(* segments_left, plus one, counts lie behind eight bytes.  Where it does  *)
(* not fit, it is too high, or leaves bytes over that may look like an     *)
(* HMAC; 15 and more overflows in a debug build and wraps to fewer in a    *)
(* release build, whose later trips read the same again.                   *)
ReadSrh(wire) ==
  CASE wire.len < 8 -> {Err}
    [] wire.as = "srh" -> IF wire.len % 16 = 8 THEN {wire.len} ELSE {Err}
    [] OTHER -> {Err, Panic} \cup {n \in Sizes("srhLeft") : n <= wire.len}

(* parse_string strips one NUL; text without one is kept whole, and its    *)
(* value takes one byte more.  A byte that rule attributes never wrote is  *)
(* a NUL by chance, or one more character, or not UTF-8.                   *)
ReadText(wire) ==
  CASE wire.as = "junk" -> {Err}
    [] wire.as = "unterminated" -> {wire.len + 1}
    [] wire.stale -> {wire.len, wire.len + 1, Err}
    [] OTHER -> {IF wire.len = 0 THEN 1 ELSE wire.len}

(* A list of attributes, an RTA_VIA, a veth peer: refused when malformed.  *)
(* The last attribute of a list need not be padded, but is when emitted.   *)
(* The VF lists format the first attribute of the list for a message they  *)
(* seldom need, and next hops subtract before they compare.                *)
ReadNested(f, wire) ==
  CASE wire.as = "junk" /\ f \in {"nlasRaw", "hops"} /\ wire.len > 0 -> {Err, Panic}
    [] wire.as = "junk" /\ wire.len > 0 -> {Err}
    [] wire.len = 0 /\ f \in {"nlasSome", "hops"} -> {Err}
    [] wire.len < 2 /\ f = "via" -> {Err}
    [] wire.len < 16 /\ f = "link" -> {Err}
    [] OTHER -> {IF f = "via" THEN wire.len ELSE Align(wire.len)}

(* Lists of labels and of next hop groups drop what is left of a last      *)
(* entry; LinkPhysId keeps the length modulo its room.                     *)
ReadFree(f, len) ==
  CASE f = "flag" -> {0}
    [] f = "list4" -> {len - (len % 4)}
    [] f = "list8" -> {len - (len % 8)}
    [] f = "phys" -> {len % 32}
    [] f \in {"bytes", "raw", "hole"} -> {len}

(* Everything that a parser of format f can make of an attribute.          *)
Read(f, wire) ==
  CASE f \in DOMAIN Exact \cup DOMAIN AtLeast \cup DOMAIN Unchecked \cup DOMAIN Padded ->
         IF f = "bits8" /\ wire.as = "junk" THEN {Err} ELSE ReadStruct(f, wire.len)
    [] f = "realm" -> ReadRealm(wire.len)
    [] f = "selector" -> ReadSelector(wire)
    [] f = "xstats" -> ReadXstats(wire)
    [] f = "srh" -> ReadSrh(wire)
    [] f = "text" -> ReadText(wire)
    [] f = "textRaw" -> IF wire.as = "junk" THEN {Err} ELSE {wire.len}
    [] f \in {"nlas", "nlasSome", "nlasRaw", "hops", "via", "link"} -> ReadNested(f, wire)
    [] OTHER -> ReadFree(f, wire.len)

(* The layout the contents are taken to be in: wrong bytes make another    *)
(* value of the right layout, a number in the wrong order a wrong number.  *)
ReadAs(f, wire) ==
  IF wire.as \in Layouts(f) \cup {"junk", "unterminated"} THEN LayoutOf(f) ELSE "garbled"

(* The arms <<format, variant>> for an attribute's kind, without its flags.*)
Arms(wire) ==
  LET parse == Codecs[codec].parse[context]
  IN {<<f, v>> \in UNION {{f} \X DOMAIN parse[f] : f \in DOMAIN parse} :
        parse[f][v] = wire.kind % KindMask}

(* The arm taken: addresses of several families are told apart by length.  *)
Arm(wire) ==
  LET fits == {a \in Arms(wire) : a[1] \in DOMAIN Exact /\ wire.len = Exact[a[1]]}
      rest == {a \in Arms(wire) : a[1] \notin DOMAIN Exact}
  IN CHOOSE a \in Arms(wire) :
       IF fits # {} THEN a \in fits ELSE (rest # {} => a \in rest)

(* Faulty: every enum builds its DefaultNla from the masked kind.          *)
UnparsedMasked(wire) ==
  [variant |-> "Other", kind |-> wire.kind % KindMask, as |-> wire.as, size |-> wire.len]

(* Other(DefaultNla): kind and contents as they came.  MdbAttribute builds *)
(* the DefaultNla from the masked kind.                                    *)
Unparsed(wire) ==
  [variant |-> "Other",
   kind |-> IF codec = "MdbAttribute" THEN wire.kind % KindMask ELSE wire.kind,
   as |-> wire.as,
   size |-> wire.len]

(* VecLinkVfInfo and VecLinkVfPort log an attribute of another kind than   *)
(* their own and leave it out of the list.                                 *)
Dropping == {"LinkVfInfo", "LinkVfPort"}

(* The value of an arm.  ProtoInfoUnknown is a DefaultNla, too.            *)
Parsed(arm, wire, size) ==
  [variant |-> arm[2],
   kind |-> IF arm[1] = "raw" THEN wire.kind ELSE Codecs[codec].kind[arm[2]],
   as |-> ReadAs(arm[1], wire),
   size |-> size]

-----------------------------------------------------------------------------
(* The values an application can build for a message of this context.      *)
Values(name, c) ==
  LET emit == Codecs[name].emit[c]
      rows == UNION {{f} \X emit[f] : f \in DOMAIN emit}
  IN UNION {UNION {[variant : {row[2]}, kind : {Codecs[name].kind[row[2]]},
                    as : {as}, size : Sizes(as)] : as \in Layouts(row[1])} : row \in rows}
     \cup [variant : IF name \in Dropping THEN {} ELSE {"Other"},
           kind : {OtherKind, NLA_F_NESTED + OtherKind},
           as : {"bytes"}, size : Sizes("bytes")]

(* The lengths at which a parser of format f changes its mind.             *)
Lengths(f) ==
  LET Bounds == Exact @@ AtLeast @@ Unchecked @@ Padded
      Around(n) == {0, n - 1, n, n + 1}
  IN IF f \in DOMAIN Bounds THEN Around(Bounds[f])
     ELSE CASE f = "realm" -> Around(4)
            [] f = "selector" -> Around(16) \cup {33}
            [] f = "flag" -> {0, 1}
            [] f = "link" -> Around(16)
            [] f = "hops" -> {0, 16}
            [] f = "xstats" -> {0, 3, 27, 28, 39, 40}
            [] LayoutOf(f) = "nlas" -> {0, 8, 9}
            [] OTHER -> {0, 1} \cup Sizes(LayoutOf(f)) \cup {n + 1 : n \in Sizes(LayoutOf(f))}

(* The attributes a kernel of another version, or another program, sends.  *)
Wires(name, c) ==
  LET parse == Codecs[name].parse[c]
      rows == UNION {{f} \X DOMAIN parse[f] : f \in DOMAIN parse}
      Of(kind, f, len) ==
        {[kind |-> kind + flag, as |-> as, len |-> len, stale |-> FALSE] :
           flag \in {0, NLA_F_NESTED},
           as \in {"junk"}
                    \cup (IF f \in DOMAIN Exact /\ len # Exact[f] THEN {} ELSE {LayoutOf(f)})
                    \cup (IF f = "text" THEN {"unterminated"} ELSE {})}
  IN UNION {UNION {Of(parse[row[1]][row[2]], row[1], len) :
                     len \in Lengths(row[1])} : row \in rows}
     \cup UNION {Of(OtherKind, "bytes", len) : len \in Lengths("bytes")}

Init ==
  /\ codec \in DOMAIN Codecs
  /\ context \in DOMAIN Codecs[codec].parse
  /\ buffer \in {"zeroed", "stale"}
  /\ \/ /\ status = "value"
        /\ seen \in {<<value>> : value \in Values(codec, context)}
        /\ sent = <<>>
     \/ /\ status = "wire"
        /\ seen = <<>>
        /\ sent \in {<<wire>> : wire \in Wires(codec, context)}

Emit ==
  /\ status = "value"
  /\ Len(sent) < MaxTrips
  /\ sent' = Append(sent, Emitted(seen[Len(seen)]))
  /\ status' = "wire"
  /\ UNCHANGED <<codec, context, buffer, seen>>

ParseUnknown ==
  LET wire == sent[Len(sent)]
  IN /\ status = "wire"
     /\ Arms(wire) = {}
     /\ codec \notin Dropping
     /\ seen' = Append(seen, Unparsed(wire))
     /\ status' = "value"
     /\ UNCHANGED <<codec, context, buffer, sent>>

DropUnknown ==
  /\ status = "wire"
  /\ Arms(sent[Len(sent)]) = {}
  /\ codec \in Dropping
  /\ status' = "dropped"
  /\ UNCHANGED <<codec, context, buffer, seen, sent>>

ParseKnown ==
  LET wire == sent[Len(sent)]
  IN /\ status = "wire"
     /\ Arms(wire) # {}
     /\ \E size \in Read(Arm(wire)[1], wire) :
          CASE size = Err -> status' = "err" /\ UNCHANGED seen
            [] size = Panic -> status' = "panic" /\ UNCHANGED seen
            [] OTHER -> /\ seen' = Append(seen, Parsed(Arm(wire), wire, size))
                        /\ status' = "value"
     /\ UNCHANGED <<codec, context, buffer, sent>>

Next == Emit \/ ParseUnknown \/ DropUnknown \/ ParseKnown

Spec == Init /\ [][Next]_vars

-----------------------------------------------------------------------------
(* What goes wrong, by name. *)

(* Variants that kind() and emit_value() know and no arm of the parser.    *)
NotReadBack == {<<"RouteAttribute", "Nhid">>, <<"NexthopAttribute", "Encap">>}

(* Values that do not survive: IFLA_PORT_SELF gains a header on each trip, *)
(* a false vxlan or dump flag comes back true, an empty IFLA_XDP or        *)
(* RTA_MULTIPATH is refused, a physical id as long as its room comes back  *)
(* empty, an unknown attribute of an MDB message loses its flags, fq_codel *)
(* statistics shorter than their type are refused, Other ones with a tag   *)
(* are read as what the tag says, and a segment routing header as having   *)
(* the segments that segments_left counts.                                 *)
Lossy(value) ==
  \/ codec = "LinkAttribute" /\ value.variant = "PortSelf"
  \/ codec = "LinkAttribute" /\ value.variant = "Xdp" /\ value.size = 0
  \/ codec = "RouteAttribute" /\ value.variant = "MultiPath" /\ value.size = 0
  \/ codec = "MdbAttribute" /\ value.variant = "Other" /\ value.kind >= KindMask
  \/ value.as = "xstats" /\ value.size < 4
  \/ value.as \in {"off", "srhLeft", "xstatsTagged"}
  \/ value.as = "phys" /\ value.size = 32

(* Variants whose emitted bytes are partly the caller's.                   *)
Leaky ==
  {<<"LinkAttribute", "Map">>, <<"VfVlan", "Info">>, <<"InfoVeth", "Peer">>,
   <<"Seg6LocalCounters", "Padding">>, <<"RuleAttribute", "Iifname">>,
   <<"RuleAttribute", "Oifname">>, <<"TcFilterU32Option", "Selector">>,
   <<"TcStats2", "Basic">>, <<"TcStats2", "BasicHw">>, <<"TcAttribute", "Stats">>,
   <<"AfSpecInet6", "Stats">>, <<"AfSpecInet6", "Icmp6Stats">>}

(* Variants whose parsers can panic.                                       *)
Panicky ==
  ({"LinkAttribute"} \X {"Map", "VfInfoList", "VfPorts", "PortSelf", "ProtoInfoInet6",
                             "ProtoInfoBridge"})
  \cup ({"InfoBridge", "InfoBridgePort"} \X {"RootId", "BridgeId"})
  \cup ({"VfInfo"} \X (DOMAIN VfInfo.kind \ {"VlanList", "Stats"}))
  \cup ({"TcStats2"} \X {"Basic", "BasicHw", "Queue", "App"})
  \cup {<<"LinkVfInfo", "LinkVfInfo">>, <<"LinkVfPort", "LinkVfPort">>,
        <<"TcAttribute", "Xstats">>, <<"PrefixAttribute", "CacheInfo">>,
        <<"VfVlan", "Info">>, <<"AfSpecInet6", "CacheInfo">>,
        <<"RouteSeg6LocalIpTunnel", "Srh">>,
        <<"AddressAttribute", "CacheInfo">>, <<"RouteAttribute", "MultiPath">>,
        <<"RouteAttribute", "Realm">>, <<"RuleAttribute", "Realm">>,
        <<"TcFilterU32Option", "Selector">>}

-----------------------------------------------------------------------------
(* Properties *)

(* Every value is one of its enum, in a layout that emit_value writes it   *)
(* in: no parser reads a number in another width or byte order, and a      *)
(* struct is as long as value_len() says.                                  *)
TypeOK ==
  /\ codec \in DOMAIN Codecs
  /\ context \in DOMAIN Codecs[codec].parse
  /\ buffer \in {"zeroed", "stale"}
  /\ status \in {"value", "wire", "err", "panic", "dropped"}
  /\ \A k \in 1 .. Len(sent) : sent[k].kind \in 0 .. 65535 /\ sent[k].len \in Nat
  /\ \A k \in 1 .. Len(seen) :
       LET value == seen[k] IN
       value.variant # "Other" =>
         LET emit == Codecs[codec].emit[context]
             rows == {f \in DOMAIN emit :
                        value.variant \in emit[f] /\ value.as \in Layouts(f)}
         IN rows # {} /\ (Cardinality(Sizes(value.as)) = 1 => value.size \in Sizes(value.as))

(* emit_value and parse of one enum are inverse: an attribute emitted into *)
(* a clean buffer parses, and to the value that was emitted, whether that  *)
(* was built or parsed itself.  What NotReadBack names comes back as       *)
(* Other, with the bytes emitted.                                          *)
RoundTrip ==
  buffer = "zeroed" =>
    /\ status \in {"err", "panic"} /\ seen # <<>> => Lossy(seen[Len(seen)])
    /\ \A k \in 1 .. Len(seen) - 1 :
         \/ Lossy(seen[k])
         \/ seen[k + 1] = IF <<codec, seen[k].variant>> \in NotReadBack
                          THEN [seen[k] EXCEPT !.variant = "Other"]
                          ELSE seen[k]

(* What an attribute was emitted over shows in no byte of it, but for the  *)
(* variants that Leaky names.                                              *)
OwnBytes ==
  \A k \in 1 .. Len(sent) :
    sent[k].stale =>
      \E j \in 1 .. Len(seen) :
        seen[j].kind = sent[k].kind /\ <<codec, seen[j].variant>> \in Leaky

(* Every parser that keeps an attribute of an unknown kind as Other keeps  *)
(* it through every trip: it is neither refused nor changed, flags         *)
(* included, but for MdbAttribute, which drops the flags.                  *)
UnknownKept ==
  (codec \notin Dropping /\ sent # <<>> /\ sent[1].kind % KindMask = OtherKind) =>
    /\ status \in {"value", "wire"}
    /\ \A k \in 1 .. Len(sent) :
         sent[k] = IF codec = "MdbAttribute" /\ k > 1
                   THEN [sent[1] EXCEPT !.kind = OtherKind]
                   ELSE sent[1]

(* README.md: "Unknown netlink attribute should be stored into             *)
(* `Other(DefaultNla)` instead of breaking decoding."                      *)
UnknownStored == status # "dropped"

(* Parsing panics only where Panicky says, and of what this crate emitted  *)
(* only for two things an application can build and no parser returns: a   *)
(* segment routing header with a segments_left of 15 and more, or that     *)
(* does not fit its segments, and fq_codel statistics with a tag that they *)
(* are too short for.                                                      *)
PanicsKnown ==
  status = "panic" =>
    /\ seen = <<>> \/ (Len(seen) = 1 /\ seen[1].as \in {"srhLeft", "xstatsTagged"})
    /\ \E v \in DOMAIN Codecs[codec].kind :
         /\ <<codec, v>> \in Panicky
         /\ Codecs[codec].kind[v] % KindMask = sent[1].kind % KindMask

(* README.md: "No panic is allowed, please use Result<> instead of         *)
(* unwrap() or expect()."                                                  *)
NoPanic == status # "panic"
=============================================================================
