# A verification of netlink-packet-route

`netlink-packet-route` converts between the bytes of rtnetlink messages and
Rust values: `parse` turns a buffer into a message with a vector of attributes,
`emit` turns the message back into bytes. The crate opens no socket, starts no
thread and keeps nothing between two calls. What makes it hard is the input:
every length in a message comes from another program, the meaning of an
attribute depends on others that stand before it, behind it or around it, and
each of several hundred variants is described three times (`kind()`,
`value_len()`/`emit_value()`, `parse()`) with nothing in the language that ties
the three together.

The modules here model the decoders that carry state from one attribute to the
next, the loops that trust a length, the layouts and the tables; TLC checks
them on small instances, and TLAPS proves the two length-driven loops, the
dispatch, the four decoders whose attributes depend on a kind and the six
payload codecs written by hand for every instance.

## The system

| Part | Source | State while it runs | Operations | What must be right |
|---|---|---|---|---|
| attribute lists | `*/message.rs` over the `NlasIterator` of `netlink-packet-utils` | position, the `Vec` built so far | next, push, `?` or `continue` | terminates, stays in the buffer, reads nothing twice, skips nothing |
| message dispatch | `message.rs` | none; type and buffer | `deserialize`, `serialize`, `message_type` | type numbers, arms and header lengths agree for all variants |
| next hop lists | `route/next_hops.rs`, `route/attribute.rs` | the rest of the buffer, the `Vec` | the RTA_MULTIPATH loop and its emitter | as for attribute lists, with a length format of its own |
| route encapsulation | `route/message.rs`, `route/lwtunnel.rs` | the RTA_ENCAP_TYPE found by a first pass | two passes | RTA_ENCAP is decoded under the right type |
| link info | `link/link_info/infos.rs`, `info_data.rs`, `info_port.rs` | the last kind, the last unused port kind | one pass | data is decoded under the kind in front of it |
| traffic control | `tc/message.rs`, `tc/attribute.rs`, `tc/options.rs` | the last kind | one pass | options and statistics are decoded under the kind in front of them |
| attribute enums | `*/attribute.rs`, `link/link_info/*.rs`, `tc/**` | none | `kind`, `value_len`, `emit_value`, `parse` | the three descriptions of a variant agree; nothing panics; unknown attributes survive |
| tc actions | `tc/actions/action.rs` | the kinds found by a first pass | two passes per action, in a strict list | exactly one kind; options are decoded under it |
| u32 selector | `tc/filters/cls_u32.rs` | a key count next to the keys | `parse`, `emit` | count and keys agree |
| SRv6 header | `route/seg6.rs` | an offset into the segments | two parsers, one emitter | u8 arithmetic on lengths; what one side writes the other reads |
| MPLS labels | `route/mpls.rs` | none | shifts and masks | fields stay in their bits |
| MDB entries | `mdb/entry.rs` | the entry filled so far, three iterators | lenient nested loops | entries do not mix; bad members are skipped |
| tunnel messages | `tunnel/message.rs` | an offset counted by hand | emitter, two lenient loops | the buffer is filled exactly; only start VNIs are read |
| bond targets | `link/link_info/bond.rs` | a `Vec` of addresses | read without, written with an index | order is kept |
| headers, struct payloads | `*/header.rs`, `link/stats.rs`, ... | none | field copies | three descriptions of one layout agree |
| flags and enums | `route/header.rs`, `address_family_linux.rs`, `link/ext_mask.rs`, ... | none | two `match` tables, sums of flags | numbers and names are kept |

The parts interact by calls only. A message decoder gets the header first, and
passes the family and the route type to the attribute parser; the route decoder
passes the encapsulation type down to the next hops; a list attribute calls the
same iterator again on its value.

There is no concurrency, no timer and no persistent state, so the hazards are
those of sequential decoders of untrusted input: lengths at a boundary, state
carried from one attribute to the next, an order that nobody expected, one
member of a list that fails, and two descriptions of one thing that drift
apart. `PROJECT.json` lists them line by line.

## Modules

| Module | Models |
|---|---|
| `Wire` | attribute header size, alignment and the length check of the library (external) |
| `AttributeStream` | the strict and the lenient attribute loop |
| `AttributeDecode` | what such a loop promises, without a loop |
| `MCAttributeStream` | the instance for TLC, and the refinement mapping from the loop to the promise |
| `AttributeStream_proofs` | proofs about the loop, and that it implements the promise |
| `MessageDispatch` | `RouteNetlinkMessage`: types, arms, truncated requests, serialising |
| `MessageDispatch_proofs` | proofs about its tables and its trips |
| `Multipath` | RTA_MULTIPATH, emitted and decoded |
| `Multipath_proofs` | proofs about it |
| `LinkInfo` | IFLA_LINKINFO |
| `RouteEncap` | RTA_ENCAP, RTA_ENCAP_TYPE and RTA_MULTIPATH of a route |
| `TcMessage` | kind, options and statistics of a tc message |
| `CodecTable` | the shape of an attribute table |
| `LinkTables`, `LinkInfoTables`, `RouteTables`, `TcTables` | the attribute enums: for every variant its kind, the format it is emitted in and the arm that parses it |
| `AttributeCodec` | an attribute of any of these enums going back and forth |
| `Seg6` | SEG6_IPTUNNEL_SRH and SEG6_LOCAL_SRH |
| `MplsLabel` | a stack of MPLS labels, bit by bit |
| `TcAction` | a list of tc actions |
| `U32Selector` | the keys of a u32 filter |
| `MdbEntries` | `MdbMessage::entries()` |
| `TunnelMessage` | the VNIs of a tunnel message |
| `BondTargets` | the ARP and neighbour discovery targets of a bond |
| `StructTable` | the shape of a struct's row: length, accessors, what `emit()` and `parse()` do |
| `LinkStructs`, `MessageStructs` | the message headers and struct payloads |
| `StructLayout` | one of them emitted into a used buffer and parsed, field by field |
| `NumberTables` | both `match` tables of 33 enums |
| `NumberCodec` | a number or a variant of one of them going back and forth |
| `LinkExtMask` | the flags of IFLA_EXT_MASK |
| `MCKinds` | the instance for TLC of `LinkInfo`, `RouteEncap`, `TcMessage` and `TcAction` |
| `LinkInfo_proofs`, `TcMessage_proofs`, `TcAction_proofs` | proofs about three of these |
| `MCKinds_proofs` | proofs about `RouteEncap`, and about the four together |
| `MCPayloads` | the instance for TLC of `Seg6`, `MplsLabel`, `U32Selector`, `MdbEntries`, `TunnelMessage` and `BondTargets` |
| `MCPayloads_proofs` | proofs about each of these and about the six together |
| `MCLayouts` | the instance for TLC of `StructLayout`, `NumberCodec` and `LinkExtMask` |

`MCKinds`, `MCPayloads` and `MCLayouts` put components side by side that share a
question and no state. A behaviour of such a module is a behaviour of one of its components: the
variable `part` says of which, and variables the component does not have stay
`Unset`. A property of the same name in several components (`TypeOK`,
`RoundTrip`, `Stable`, `PanicsKnown`) is checked as their conjunction. The
assumptions on the constants are stated in these modules. `MCKinds`
instantiates the proof modules of those components that have one, which extend
them by definitions and theorems only, so that `MCKinds_proofs` can cite them;
what is proved about `RouteEncap` stands in `MCKinds_proofs` itself.

A value that is not there (an `Option` that is `None`, a list not yet built) is
a word or a list that no such value can equal: `NoKind`, `Empty`, `NoMessage`,
and in `TcAction` a list of one action with the table id -1.

How state and actions correspond to the code:

* `AttributeStream`: `pos` is `NlasIterator::position`, `attrs` the `Vec`.
  `Advance` is `NlasIterator::next` returning `Some(Ok)`; `Push` and `Refuse`
  are the two results of the attribute's parser; `Malformed` is `Some(Err)`;
  `Return` is `None`. Whether a parser accepts is part of the input, so the
  module stands for all the message decoders that have this loop.
* `MessageDispatch`: `wire` is type, length, first byte and "the attribute loop
  succeeds"; `msg` is the variant with its family and whether its other header
  fields carry information. `ParseFull`, `RefuseAttributes`, `ParseShort`,
  `RefuseShort` and `UnknownType` are the outcomes of an arm, `Serialize` is
  `serialize`. Each arm of the `match` has an operator of its own. Tunnel
  messages are `Lenient`: their loop skips what it cannot read, so bad
  attributes make them no error and may leave them without attributes.
* `Multipath`: `value_len` (`MeasureHop`), the library's part of emitting
  (`OpenValue`: a u16 length and a slice cut to it), the emitter (`EmitHop`,
  `EmitBeyond`, `Deliver`) and the decoder (`TooShort`, `MessageOverflow`,
  `Underflow`, `RefuseHop`, `TakeHop`). A list is a caller's, or comes from the
  wire, where every `rtnh_len` is possible. `EmitBeyond` is the slice out of
  range that a list over 64 KiB ends in; `MessageOverflow` is the `8 +
  self.length()` of an error message, in a debug build.
* `LinkInfo`, `RouteEncap`, `TcMessage`: one action per arm of the loop's
  `match` (and per pass), with the local variables of the function as state.
  Bytes are abstracted to the layout they are in. A parser that meets bytes in
  another layout than its own may accept or refuse them. `Emit` writes the
  decoded list and decoding starts again on what was written.
* `AttributeCodec`: `Emit` is `Nla::emit`, `ParseKnown` and `ParseUnknown` are
  the arms of the parser. A value is its variant, its layout and its
  `value_len()`. `buffer` says what was in the buffer before: bytes that
  `value_len()` counts and `emit_value()` does not write stay what they were.
  `DropUnknown` is the arm of the VF lists that keeps nothing. `Layouts` adds
  two values that an application can build and that are not read as what they
  are: a segment routing header with a `segments_left` of 15 or more, or that
  does not fit its segments, and fq_codel statistics kept as bytes that begin
  with the tag of another variant.
* `Seg6`: a payload is a sequence of words of 8 bytes and a tail. `build` says
  whether overflow panics. `EmitHdr` is one round of the loop over the headers
  of a tunnel; `RefuseTunnel` and `ParseTunnel` are `Seg6IpTunnelEncap::parse`,
  `OverflowSrh`, `RefuseSrh`, `HmacCut` and `ParseSrh` the ways
  `Ipv6SrHdr::parse` ends.
* `MplsLabel`: `EmitLabel` and `ParseLabel` are rounds of the two loops;
  `ToWord` and `FromWord` are the shifts and masks, on a word whose field widths
  are constants. `ClassBits` is the width of the field in the struct, which is
  wider than the one on the wire.
* `TcAction`: `Pass`, `CollectKind`, `CollectErr` and `MissingOrDuplicate` are
  the first pass, `Decode` and `Refuse` the second; `PushAction` and `Return`
  belong to the list of actions.
* `MdbEntries`: `at` holds the positions of the three iterators, `level` the
  innermost one; `source`, `dst` and `vni` are the local variables of
  `parse_entry_info`.
* `TunnelMessage`: `EmitEntry` writes one entry at the offset counted so far,
  into a buffer of `BufferLen` bytes; `EnterEntry`, `ReadInner` and `LeaveEntry`
  are the two loops of the decoder.
* `U32Selector`: `nkeys` is the field, `keys` the `Vec`. `BufferLen` believes
  the one and `EmitKey` goes by the other.
* `BondTargets`: `Take`, `Drop` and `Refuse` are what a round of the parser can
  do with a member, `Emit` numbers the addresses anew.
* `StructLayout`: a byte is where it came from: a byte of a field, of the
  kernel, or of the caller's buffer. `SetField` and `GetField` are single
  accessor calls of `emit()` and `parse()`, in the order of the code. A field
  that is not copied (the u32 settings of three VF structs that become a bool,
  link layer types, VLAN protocols) has the two tables of its conversion in its
  row, and starts from every kind of number that the tables tell apart.
* `NumberCodec`: `Parse` and `Emit` are the two `From` implementations, with
  the width of the field they are read from and written to.
* `LinkExtMask`: `Parse` and `Emit` are the two conversions, on a narrower word.

Definitions marked *Faulty* are plausible mistakes in the operator that follows
them. They are not part of any specification; replacing the operator by its
faulty form makes the property named in the comment fail, which shows that the
property depends on the code.

## Runs

| Run | Question | Bounds |
|---|---|---|
| `attribute_stream` | Do both loops terminate, stay inside the payload, read it without overlap or gap, and return what `AttributeDecode` says? | payloads up to 10 bytes: two full attributes and a tail shorter than a header; length fields 0, below the header, header only, unaligned, exact, one too long, 65535 |
| `message_dispatch` | Do `message_type`, `emit`, and the arms agree for all variants, and are short dump requests told from broken messages? | all type numbers and three without an arm; bodies up to 24 bytes (the longest header is 20); two trips |
| `multipath` | Does the next hop loop terminate, tile the attribute, and give back what was emitted? | wire values up to 34 bytes (four hops and a tail), `rtnh_len` on both sides of 8 and of the rest; callers' lists of up to three hops, some on both sides of the 64 KiB limit |
| `multipath_no_panic` | Can decoding panic? *Yes.* | as above, no length near the limit of u16 |
| `kinds` | Is a payload decoded under the kind its list declares, wherever that stands, and does the list survive? | `LinkInfo`: up to four members in any order (kind, data, second kind, second data), two kinds with a parser and one without; and every kind of the crate and an unknown one, two members. `RouteEncap`: three attributes, next hops with one (two, of which one is a type of the hop's own, is left to the proof, which is for any number). `TcMessage`: three attributes, two trips. `TcAction`: an action of up to three attributes, or two of up to two; a kind for each of the two parsers and one without; two trips |
| `tc_dump_invisible` | Is `DumpInvisible(false)` read back as such? *No.* | one attribute |
| `attribute_codec` | Do kind, emitter and parser of every variant in the tables agree? Which variants lose data, leak buffer contents or panic? | every variant in every context, every length at which its parser changes its mind, with and without NLA_F_NESTED; three trips, since a difference between trips 2 and 3 is the first that repeats |
| `attribute_codec_no_panic` | Can the parsers panic? *Yes.* | one trip |
| `attribute_codec_unknown` | Is every attribute of an unknown kind stored? *No.* | one trip |
| `payloads` | Which values come back from the hand-written codecs, what is lost, how far does damage go, where do they panic, and do the nested loops end? | `Seg6`: wire payloads up to 9 words (a fixed part, a segment and more than an HMAC) and a tail on both sides of a TLV header; segments left 0, 1, and 14 to 16 and 255 around the limits of u8; up to 3 headers, 3 or 15 segments. `MplsLabel`: stacks of two, every value of a word of five bits and a traffic class of three bits for one on the wire; shifts and masks do not depend on the width. `U32Selector`: up to four keys against a count up to four. `MdbEntries`: up to three attributes per entry in any order (an address, a wrong one and the one after), two entries on each of two levels, a malformed header in every loop. `TunnelMessage`: three VNIs; wire messages of two entries with two inner attributes, good, foreign, short and malformed. `BondTargets`: three members of each family, index and malformed. Two trips |
| `mdb_entries_skipped` | Is a malformed address skipped? *No.* | one entry, two attributes |
| `layouts` | Do `buffer!`, `emit()` and `parse()` of every struct agree, and which bytes are the caller's? Do both `match` tables of every enum? Which masks and lists of flags survive? | all headers and structs of the crate; all 256 numbers of 8-bit enums, every named number and its neighbours of wider ones, every variant; all masks of 10 bits (eight flags and two unknown), lists of three; two trips |

The specifications of `attribute_stream`, `multipath` and `payloads` state
fairness; the others check safety only. Deadlock checking is off everywhere,
because decoding ends, in a result or an error, and so do the behaviours.

**Fairness.** `Returns` (in `AttributeStream`) and `Ends` (in `Multipath` and
`MdbEntries`) assume `WF_vars(Next)`. These loops are sequential code in one
thread with no call that blocks: as long as a step is
possible, the processor takes it. No stronger fairness, and none on single
actions, is assumed.

The properties are stated over several steps, and a name means the same in
every module. `RoundTrip` compares what a caller built with what comes back
after emitting and decoding; `Stable` does the same for what came from the wire,
which need not be anything a caller would build; `Resent` compares the bytes
that were received with those that are sent on; `ReadAsSent` compares the result
of a loop with a description of the message that has no loop in it; `UnderKind`
relates the decoded list to the order of the list on the wire. Exceptions are
stated by name, so that a new one fails the run: `NotReadBack`, `Lossy`,
`Leaky` and `Panicky` in `AttributeCodec`, `Holes` and `SentBack` in
`StructLayout`, `SentBack` and `Aliases` in `NumberCodec`, `Wrapped` in
`TcMessage`, and the properties called `PanicsKnown`.
`DamageBounded`, `RepeatedCarries` and some of `Resent` describe damage the code
does to what it is given, and bound it: they say what is lost, that nothing else
is, and that it is lost once and not more on each trip.

## Proofs

TLAPS checks the following for every value of the constants, that is for
payloads and lists of any length, any values in length fields, any sets of kinds
and any number of trips. In each module the argument is the same: an inductive
invariant `IInv`, checked by TLC before it was proved, a lemma that `Init`
implies it, a lemma that each action keeps it, and a lemma that it gives the
properties.

**`AttributeStream_proofs`**, from `MaxPayload \in Nat` and
`Lengths \subseteq Nat`: `TypeCorrect`, `AttributesInBounds`,
`AttributesDisjoint`, `AttributesTiled`, `StrictOkComplete` and the action
property `AlwaysProgress`. None of the invariants is inductive alone: that the
next attribute does not overlap the ones before depends on where the iterator
stands, and that it is read at a place where a header can be depends on
alignment. `IInv` adds that the iterator stands on a word boundary while there
is anything left to read (`Aligned`), behind everything it has yielded
(`Behind`); that a strict loop that has not failed has pushed all of that and
left no byte before the iterator uncovered (`StrictCovers`); and that `Ok` is
only returned at the end (`OkIsAtEnd`).

`LoopImplementsDecode` in the same module is the refinement: `Spec` implies
`ImplementsDecode`. `AttributeDecode` says what is returned by way of a least
fixed point, the chain of headers. It exists because sets of offsets closed
under "the one behind" are closed under intersection (`ChainLeast`; no induction
is needed). `RefInv` says that a running loop has yielded only members of the
chain and passed none but the malformed one that spends a lenient iterator
(`WalkInv`), and has pushed the accepted ones in order (`PushedInv`). The step
that could go wrong is `ChainStep`: that the chain has no member between the
iterator and the next attribute. Otherwise, removing these members would leave a
smaller closed set. `Return` and the failures of the strict loop are then the
abstract step, everything else is invisible.

**`MessageDispatch_proofs`**, from `MaxLen \in Nat` and `MaxTrips \in Nat`:
`TypeOKHolds`, `RoundTripHolds`, `StableHolds`, `ShortIsBareGetHolds`. The first
half is about the tables of `message.rs` alone: every arm gives its variants the
types that `message_type()` writes (`ArmsAgree`), no type has two arms
(`OneArm`), every variant but the two LinkProp ones has one (`VariantHasArm`,
`WriteOnlyUnanswered`), emitted headers are as long as the arm asks for
(`Dispatch`), and the fallbacks for truncated headers only make requests
(`FallbackIsGet`). The invariant says that bytes which were serialised describe
the message they came from (`Serialized`), and that the message is still the
caller's and the first one read (`KeptInv`). A tunnel message may lose bad
attributes when it is first read, and none after that.

**`Multipath_proofs`**, from naturals for the bounds and sets of naturals for
the sizes: `TypeCorrect`, `HopsTileAttribute`, `OkReadsAll` and
`ListsRoundTrip`. The round trip needs the most: `SentInv` says that a prefix of
the caller's list has been laid out with strictly increasing offsets, so that an
offset determines the next hop emitted there, and that the emitter stays inside
its slice; `WalkInv` that the decoder stands behind the last hop read;
`PrefixInv` that, for a list that fits, `payload` is the end of the list and the
hops read are a prefix of the hops sent, and that one that does not fit has less
room than it needs. The emitter that has written such a list whole would have
left its slice, so it is never delivered (`DeliverIInv`). `ReadsWhatWasSent`
then shows that the `rtnh_len` at the decoder's position is the length of the
next hop in the list, and `NeverRefused` that no error branch is enabled.

**`LinkInfo_proofs`, `TcMessage_proofs`, `TcAction_proofs`** and the first part
of **`MCKinds_proofs`** (about `RouteEncap`; names begin with `Encap`) prove `TypeOK`, `UnderKind`, `RoundTrip`, `Stable` and, for actions, `OneKind`.
Their hypotheses are that the bounds are naturals, and that the names of kinds
are none of the words the model uses for something else (`NamesGiven`,
`TypesGiven`, `KindsGiven`: a real kind is never called `"broken"`); table ids
are those of a u16 (`TabIds`). `UnderKind` speaks of a list that has been read,
the code decides while it reads; what relates the two is what the local
variables of the function mean, and the invariants say that:

* `LinkInfo`: `ParseInv` says that `link_info_kind` is the last kind pushed, and
  `link_info_port_kind` the last port kind that no port data has taken since
  (`Remembers`).
* `RouteEncap`: `FindInv` says that the first pass has met no RTA_ENCAP_TYPE
  yet, `ParseInv` that the second one decodes under the type that the message
  declares. A malformed attribute ends the first pass silently, so both hold
  only unless something bad is still in front of the second pass, which then
  returns an error.
* `TcMessage`: `ParseInv` says that `kind` is the nearest one in front (`Met`).
  Options under a kind without a parser are wrapped on each trip, those a caller
  built from the first one on, so the invariant compares with the list a caller
  built, and with the first one read, aged by the number of emissions since
  (`Aged`, `Emissions`); `Sent` is what such an attribute is on the wire.
* `TcAction`: `PassInv` says that the first pass has collected as many kinds as
  there are in front of it, and that the second one decodes under the only one.
  Two actions are never mixed because `DecodedInv` relates each decoded action
  to the one in its place on the wire.

`RoundTrip` and `Stable` follow from a part that all four have in some form
(`Echoes`, `Echoed`): a list is either still there, or on the wire as it was
emitted and decoded up to a prefix of itself. That no error branch is enabled
meanwhile is a lemma in each module.

The rest of **`MCKinds_proofs`** states the five properties of the run `kinds`. Its
invariant is that of the component that `part` names; the hypotheses of the
components follow from the assumptions of `MCKinds` (`PartsGiven`), which TLC
evaluates in that run.

**`MCPayloads_proofs`** states the six properties of the run `payloads`:
`TypeOKHolds`, `RoundTripHolds`, `ReadAsSentHolds`, `ResentHolds`,
`DamageBoundedHolds`, `PanicsKnownHolds`. It uses the assumptions of `MCPayloads`:
bounds are naturals (`MaxInfos`, `MaxKeys` and `MaxTrips` at least 1); segments
left are a u8; the traffic class field of the struct is at least as wide as the
one on the wire; a stale slot is told from a key, and a count of keys fits a u8;
`"None"` and `"wrong"`, which the model uses for other things, are not
addresses of an MDB entry; the sets of values left and of addresses are not
empty. `IInv` is the invariant of the codec that `part` names:

* `Seg6` (`SegInv`). `RoundTrip` and `Resent` say that what has been read from
  the wire, and what a careful caller built, comes back (`SegSound` names these
  values). `SegKept` adds that such a value is never refused and never panics:
  its own message is long enough for the count that is in it (`SegOwn`), where
  `(segments_left + 1) * 16` is computed modulo 256, so that 15 segments left
  stand for none (`SegCounts`). `SegSent` counts the words that `emit` has
  written so far, one for each header and two for each segment of the headers
  done. `DamageBounded` follows from this count: its parity is that of
  the number of headers, and the decoder takes what is behind the first header
  for segments, by two words.
* `MplsLabel` (`MplsInv`). The loops are simple; the content is in three lemmas
  about shifts and masks: `WordKept` (a word decoded is emitted as the same
  word), `LabelDamage` (which bits of a label and a class out of range end up
  where) and `LabelKept`. A word is the set of its bits, so that a shift adds a
  constant to the members and no powers of two are needed.
* `U32Selector` (`U32Inv`). `MeantKey` is the key a selector stands for at a
  place: the caller's, or a stale one where the count promises more. The
  invariant says that slots and keys agree with it in each phase; a selector
  that was parsed has as many keys as it counts, hence no panic.
* `MdbEntries` (`MdbInv`). `MdbPlaces` says where three nested loops can stand,
  with a malformed header ending one of them only; `MdbLocals` that `source`,
  `dst` and `vni` are what the attributes of this entry read so far have
  assigned last, so that nothing of the entry before is seen.
* `TunnelMessage` (`TunnelInv`). `TunnelEmitting` says that entry k begins at
  byte 12 (k - 1), so that the entries fill the buffer; `TunnelFirst` is about
  the reading of a foreign message, `TunnelLater` about one that the crate wrote.
* `BondTargets` (`BondInv`). `MeantTargets` says which addresses a list stands
  for; the first reading keeps the members of its own family in order
  (`BondFirst`), later ones lose nothing (`BondLater`).

In the last three, a loop returns some of the items on the wire, in their order.
What it should return is stated without recursion: the item at place p is the
n-th of the list, where n is the number of such items up to p. In
`TunnelMessage` and `MdbEntries`, whose loops are nested, these are `UpTo(p)`;
`Selected` is the statement for the items passed so far, and `SelectNext` says
that it holds again when the value of the next place is appended.

Checked by TLC only:

* liveness (`Returns`, `Ends`): fairness and `ENABLED` are beyond the prover.
* `AttributeCodec`, `StructLayout` and `NumberCodec`, which are about the tables
  of the crate: their properties hold because of what is in some hundred rows,
  and the runs go through every row. A proof would be the same enumeration.
* `LinkExtMask`, whose sums of flags are folds: what a fold computes for every
  input needs induction over data.

## Findings

* `Multipath`: an `rtnh_len` below 8 passes `check_buffer_length` and makes
  `attributes()` subtract below zero. README.md of the crate: "No panic is
  allowed". In a debug build the text of the length check's own error overflows
  u16 from an `rtnh_len` of 65528 on.
* `AttributeCodec`: the parsers in `Panicky` slice or index before they check
  the length; same rule.
  The same holds for `(segments_left + 1) * 16` in `route/seg6.rs`, which
  overflows u8 from 15 segments left on (a debug build panics, a release build
  reads too few segments), and for the HMAC TLV sliced there; `PanicsKnown` in
  `Seg6` says when.
* `AttributeCodec`: the VF lists log an attribute of an unexpected kind and drop
  it. README.md of the crate: "Unknown netlink attribute should be stored into
  `Other(DefaultNla)` instead of breaking decoding".
* `MdbEntries`: a malformed source or destination address erases the one before
  it, where the comment on the function says that malformed sub-attributes are
  skipped.
* `TcMessage`: `DumpInvisible(false)` is emitted and comes back as `true`,
  where the comment next to it says that the existence of the attribute means
  true.

Exceptions that no document of the crate contradicts are part of the passing
properties: RTA_NH_ID and a next hop object's NHA_ENCAP are written but not
read; IFLA_PORT_SELF gains a header per trip; false vxlan flags come back true;
undecoded tc options are wrapped once per trip, a caller's from the first one
on; next hops are decoded under the encapsulation type of the message, and an
RTA_ENCAP_TYPE inside one has no effect; unknown MDB attributes lose
NLA_F_NESTED; an empty next hop list is refused, and one over 64 KiB panics when
emitted; the VF settings that are read as a bool come back as 0 or 1, and
u32::MAX as 0; fq_codel statistics kept as bytes are read as what their first
word says; a rule's interface name is
emitted with one byte of the caller's buffer; RTM_NEWLINKPROP and
RTM_DELLINKPROP are written but not read; an HMAC of an SRv6 header is read but
not written; a tunnel of several SRv6 headers is read as one or refused; a
traffic class or label that is too large spills into or out of the label; the
reserved bytes of most headers are the caller's; unknown link layer types and
VLAN protocols are replaced; IPPROTO_MPTCP in a rule is sent as TCP; a flag
listed twice in IFLA_EXT_MASK turns into the next one; a u32 selector with more
keys than it counts panics when emitted; bond targets are renumbered.

## Not modelled

* Contents of integers that are only copied. Byte order is modelled, as a
  difference in layout. In `AttributeCodec` a u8 that is read as a bool (`> 0`)
  and written as 0 or 1 is such an integer: that 2 comes back as 1 is not seen.
* The bitflags types: all of them keep unknown bits (`from_bits_retain`), so a
  mask is a number that is copied.
* `MacSecCipherId`, whose numbers have 64 bits, beyond the integers of TLC;
  `address_family_freebsd.rs` and `address_family_fallback.rs`, which other
  builds use; `neighbour/kind.rs`, which no module includes.
* The `Display` and `From` implementations that no property needs, and the
  `is_*` predicates of `RouteNetlinkMessage`.
* `netlink-packet-utils` and `netlink-packet-core`: external, modelled by what
  the crate relies on (header check, iterator, masking of kinds, the numeric
  parsers, the accessors of `buffer!`). The u16 length of an attribute is
  computed there: a value over 65531 bytes is a hazard of theirs, and modelled
  where this crate writes a u16 length of its own, in `Multipath` (`OpenValue`).

## Plan

Done, in this order: the attribute loops (everything else runs on them), the
dispatch, the next hop loop, the three decoders with state across attributes,
the tables and the proofs of the two loops; then the SRv6 header and MPLS
labels, tc actions and u32 selectors, MDB entries and tunnel messages, the
layouts of headers and structs, the enums, and the attribute enums that were
missing from the tables.

Then the proofs: the refinement of the attribute loop, the dispatch, and the
four decoders with a kind, one by one and together; then the six payload codecs
of `MCPayloads`. What is left to the model checker is listed above, with the
reasons.
