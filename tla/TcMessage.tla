------------------------------ MODULE TcMessage ------------------------------
(***************************************************************************)
(* The attributes of a traffic control message.  TCA_KIND names a queueing *)
(* discipline or filter; TCA_OPTIONS and TCA_XSTATS are decoded by its     *)
(* parser.  The decoder walks the attributes once, with the last kind it   *)
(* has met in a local variable that starts out empty: options in front of  *)
(* the kind, and those of a kind without a parser, are kept undecoded.     *)
(*                                                                         *)
(* On the wire an attribute is [tag, is, depth]: for Kind the name, for    *)
(* Options and Xstats the kind in whose layout the bytes are, and in depth *)
(* how many TCA_OPTIONS headers a TCA_OPTIONS has inside.  Decoded, `is`   *)
(* is the variant, raw the layout of undecoded bytes and depth how many    *)
(* TCA_OPTIONS headers they hold: none in the options a caller builds as   *)
(* TcOption::Other, and one more than the attribute had inside in those    *)
(* that were read, since the attribute itself is kept.                     *)
(***************************************************************************)
EXTENDS Integers, Sequences, SequencesExt

CONSTANTS
  Names,      \* kinds that occur
  MaxAttrs,   \* most attributes of a message
  MaxTrips    \* how often a message is emitted

(* Stands for the empty string, and for a field that is not there.         *)
Empty == "None"

(* The kinds VecTcOption has a parser for: X::KIND.                        *)
OptionKinds == {"u32", "matchall", "ingress", "fq_codel"}

OptionVariant(kind) == IF kind \in OptionKinds THEN kind ELSE "Other"

XstatsVariant(kind) == IF kind = "fq_codel" THEN kind ELSE "Other"

VARIABLES
  wire,         \* the attributes on the wire
  idx,          \* the NlasIterator: next attribute to read
  kind,         \* the local variable of the loop
  attributes,   \* the Vec<TcAttribute>
  built,        \* the list a caller started from, if any
  seen,         \* what the first decoding returned, if it did
  trips,        \* times the list has been emitted since then
  status        \* "parsing", "value" or "err"

vars == <<wire, idx, kind, attributes, built, seen, trips, status>>

Attr(tag, is) == [tag |-> tag, is |-> is, raw |-> Empty, depth |-> 0]
Undecoded(tag, layout, depth) ==
  [tag |-> tag, is |-> "Other", raw |-> layout, depth |-> depth]

NoList == <<Attr("None", Empty)>>

Lists(S) == UNION {[1 .. n -> S] : n \in 0 .. MaxAttrs}

WireItems ==
  {Attr("Kind", n) : n \in Names} \cup {Attr("Options", n) : n \in Names}
    \cup {Attr("Xstats", n) : n \in Names}
    \cup {Attr("DumpInvisible", Empty), Attr("Chain", Empty), Attr("Malformed", Empty)}

Values ==
  {Attr("Kind", n) : n \in Names}
    \cup {Attr("Options", n) : n \in Names \cap OptionKinds}
    \cup {Attr("Xstats", n) : n \in Names \cap {"fq_codel"}}
    \cup {Undecoded("Options", n, 0) : n \in Names}
    \cup {Undecoded("Xstats", n, 0) : n \in Names}
    \cup {Attr("DumpInvisible", b) : b \in {"true", "false"}}
    \cup {Attr("Chain", Empty)}

Init ==
  /\ \/ wire \in Lists(WireItems) /\ attributes = <<>> /\ built = NoList /\ status = "parsing"
     \/ attributes \in Lists(Values) /\ built = attributes /\ wire = <<>> /\ status = "value"
  /\ idx = 1
  /\ kind = Empty
  /\ seen = NoList
  /\ trips = 0
-----------------------------------------------------------------------------
(* The values an attribute can be decoded into.  A parser that meets the   *)
(* layout of another kind may return options nobody meant.                 *)
Decodings(attr) ==
  CASE attr.tag = "Malformed" -> {}
    [] attr.tag = "Options" ->
         {IF OptionVariant(kind) = "Other" THEN Undecoded("Options", attr.is, attr.depth + 1)
          ELSE Attr("Options", kind)}
    [] attr.tag = "Xstats" ->
         {IF XstatsVariant(kind) = "Other" THEN Undecoded("Xstats", attr.is, 0)
          ELSE Attr("Xstats", kind)}
    [] attr.tag = "DumpInvisible" -> {Attr("DumpInvisible", "true")}
    [] OTHER -> {attr}

MayFail(attr) ==
  \/ attr.tag = "Malformed"
  \/ /\ attr.tag = "Options" /\ OptionVariant(kind) # "Other"
     /\ attr.is # kind \/ attr.depth > 0
  \/ attr.tag = "Xstats" /\ XstatsVariant(kind) \notin {"Other", attr.is}

(* Faulty: takes the first kind for good (UnderKind).                      *)
ReadFirstKind ==
  /\ status = "parsing"
  /\ idx <= Len(wire)
  /\ \E v \in Decodings(wire[idx]) :
       /\ attributes' = Append(attributes, v)
       /\ kind' = IF v.tag = "Kind" /\ kind = Empty THEN v.is ELSE kind
  /\ idx' = idx + 1
  /\ UNCHANGED <<wire, built, seen, trips, status>>

(* Faulty: drops the kind at every attribute that is none (RoundTrip).     *)
ReadForgetful ==
  /\ status = "parsing"
  /\ idx <= Len(wire)
  /\ \E v \in Decodings(wire[idx]) :
       /\ attributes' = Append(attributes, v)
       /\ kind' = IF v.tag = "Kind" THEN v.is ELSE Empty
  /\ idx' = idx + 1
  /\ UNCHANGED <<wire, built, seen, trips, status>>

Read ==
  /\ status = "parsing"
  /\ idx <= Len(wire)
  /\ \E v \in Decodings(wire[idx]) :
       /\ attributes' = Append(attributes, v)
       /\ kind' = IF v.tag = "Kind" THEN v.is ELSE kind
  /\ idx' = idx + 1
  /\ UNCHANGED <<wire, built, seen, trips, status>>

Refuse ==
  /\ status = "parsing"
  /\ idx <= Len(wire)
  /\ MayFail(wire[idx])
  /\ status' = "err"
  /\ UNCHANGED <<wire, idx, kind, attributes, built, seen, trips>>

Return ==
  /\ status = "parsing"
  /\ idx > Len(wire)
  /\ status' = "value"
  /\ seen' = IF seen = NoList THEN attributes ELSE seen
  /\ trips' = IF seen = NoList THEN 0 ELSE trips
  /\ UNCHANGED <<wire, idx, kind, attributes, built>>

(* Faulty: writes the TCA_OPTIONS that undecoded options came as, and no   *)
(* other around it (Stable).                                               *)
EmittedFlat(value) ==
  IF value.is = "Other" THEN [Attr(value.tag, value.raw) EXCEPT !.depth = value.depth - 1]
  ELSE value

(* One attribute as it is emitted.  Undecoded options are what a new       *)
(* TCA_OPTIONS has inside: those that were read, the TCA_OPTIONS they came *)
(* as.  DumpInvisible is emitted whatever its value is, and without it.    *)
Emitted(value) ==
  CASE value.tag = "Options" /\ value.is = "Other" ->
         [Attr("Options", value.raw) EXCEPT !.depth = value.depth]
    [] value.tag = "Xstats" /\ value.is = "Other" -> Attr("Xstats", value.raw)
    [] value.tag = "DumpInvisible" -> Attr("DumpInvisible", Empty)
    [] OTHER -> value

(* The list is emitted, and decoding starts over on the emitted bytes.     *)
Emit ==
  /\ status = "value"
  /\ trips < MaxTrips
  /\ wire' = [i \in 1 .. Len(attributes) |-> Emitted(attributes[i])]
  /\ idx' = 1
  /\ kind' = Empty
  /\ attributes' = <<>>
  /\ trips' = trips + 1
  /\ status' = "parsing"
  /\ UNCHANGED <<built, seen>>

Next == Read \/ Refuse \/ Return \/ Emit

Spec == Init /\ [][Next]_vars
-----------------------------------------------------------------------------
Tags == {"Kind", "Options", "Xstats", "DumpInvisible", "Chain", "Malformed"}

IsList(list) ==
  list # NoList =>
    \A i \in 1 .. Len(list) : list[i].depth \in 0 .. MaxTrips + 1 /\ list[i].tag \in Tags

(* The iterator stays within the list, the remembered kind is one that was *)
(* on the wire, and undecoded options are wrapped at most once per trip.   *)
TypeOK ==
  /\ IsList(wire) /\ IsList(attributes) /\ IsList(built) /\ IsList(seen)
  /\ idx \in 1 .. Len(wire) + 1
  /\ kind \in Names \cup {Empty}
  /\ trips \in 0 .. MaxTrips
  /\ status \in {"parsing", "value", "err"}

(* The kind an attribute of a list stands under: the nearest in front.     *)
KindAt(list, n) ==
  LET at == {i \in 1 .. n - 1 : list[i].tag = "Kind"}
  IN  IF at = {} THEN Empty ELSE list[CHOOSE i \in at : \A j \in at : j <= i].is

Kinded(list) ==
  \A n \in 1 .. Len(list) :
    /\ list[n].tag = "Options" => list[n].is = OptionVariant(KindAt(list, n))
    /\ list[n].tag = "Xstats" => list[n].is = XstatsVariant(KindAt(list, n))

(* In any message that decoding returns, options and statistics have been  *)
(* decoded by the parser of the kind they stand under, and by none if they *)
(* stand under none.                                                       *)
UnderKind == seen # NoList => Kinded(seen)

(* A list after n trips: each has wrapped the undecoded options into one   *)
(* more TCA_OPTIONS.                                                       *)
Wrapped(list, n) ==
  [i \in 1 .. Len(list) |->
     IF list[i].tag = "Options" /\ list[i].is = "Other"
     THEN [list[i] EXCEPT !.depth = @ + n]
     ELSE list[i]]

(* The emissions of a caller's list; `trips` leaves out the first.         *)
Emissions == IF seen = NoList THEN trips ELSE trips + 1

(* A caller's list whose options match its kinds is never refused and      *)
(* comes back as it was on every trip, with two exceptions: a              *)
(* DumpInvisible(false), and options under a kind without a parser, which  *)
(* come back inside one more TCA_OPTIONS with every trip, the first too    *)
(* (TcOption::Other in VecTcOption::parse_with_param).                     *)
RoundTrip ==
  ( /\ built # NoList
    /\ Kinded(built)
    /\ \A i \in 1 .. Len(built) : built[i] # Attr("DumpInvisible", "false") ) =>
    /\ status # "err"
    /\ status = "value" => attributes = Wrapped(built, Emissions)

(* What was decoded once is emitted to bytes that decode to the same, but  *)
(* for options that were left undecoded: every trip wraps these into one   *)
(* more TCA_OPTIONS.                                                       *)
Stable ==
  seen # NoList =>
    /\ status # "err"
    /\ status = "value" => attributes = Wrapped(seen, trips)

(* tc/attribute.rs: "The existence of NLA means true".  What a caller      *)
(* builds with DumpInvisible(false) is therefore not read back as true.    *)
FalseIsNotSent ==
  (built # NoList /\ seen # NoList /\ status = "value") =>
    \A i \in 1 .. Len(built) :
      built[i] = Attr("DumpInvisible", "false") =>
        Attr("DumpInvisible", "true") \notin Range(attributes)
=============================================================================
