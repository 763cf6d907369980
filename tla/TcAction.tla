------------------------------ MODULE TcAction ------------------------------
(***************************************************************************)
(* The actions of a TcActionMessage (tc/actions/action.rs).  The options   *)
(* of an action are decoded under its TCA_ACT_KIND, which can stand        *)
(* anywhere among its attributes, so TcAction::parse walks them twice: the *)
(* first pass collects the kinds and insists on exactly one, the second    *)
(* decodes every attribute under it.  The list of actions around them is   *)
(* strict: one action that fails fails the message.                        *)
(*                                                                         *)
(* On the wire an action is [tab, nlas]; an attribute [tag, is], with `is` *)
(* the name of a Kind (Empty if it is not UTF-8) or the kind of action in  *)
(* whose layout the members of Options are.  Decoded Options carry the     *)
(* TcActionOption variant instead, and raw for members kept as Other.      *)
(***************************************************************************)
EXTENDS Integers, Sequences, SequencesExt, FiniteSetsExt

CONSTANTS
  Kinds,      \* kinds of action that occur
  Tabs,       \* nla_types of actions that occur
  MaxAttrs,   \* most attributes of a lone action
  MaxInPair,  \* most attributes of each of two actions
  MaxTrips    \* emissions of one list

(* NlaBuffer::kind() drops NLA_F_NESTED and NLA_F_NET_BYTEORDER.           *)
KindMask == 16384

VARIABLES
  wire,        \* the actions on the wire
  actions,     \* the Vec<TcAction> decoded so far, or being emitted
  idx,         \* the NlasIterator of the pass: next attribute of the action
  kinds,       \* what the first pass has collected
  attributes,  \* the Vec<TcActionAttribute> of the second pass
  built,       \* the caller's list
  received,    \* the list that was on the wire first
  seen,        \* the first list decoded
  trips,       \* emissions so far
  status       \* "collecting", "parsing", "value" or "err"

vars == <<wire, actions, idx, kinds, attributes, built, received, seen, trips, status>>

(* Stands for a string that is not there.                                  *)
Empty == "None"

Attr(tag, is) == [tag |-> tag, is |-> is, raw |-> Empty]
OtherOptions(layout) == [tag |-> "Options", is |-> "Other", raw |-> layout]
Action(tab, nlas) == [tab |-> tab, nlas |-> nlas]

None == <<Action(-1, <<>>)>>

(* TcActionOption::parse_with_param: the kinds with a parser.              *)
OptionVariant(kind) ==
  CASE kind = "mirred" -> "Mirror" [] kind = "nat" -> "Nat" [] OTHER -> "Other"

Lists(S, n) == UNION {[1 .. k -> S] : k \in 0 .. n}

(* Plain stands for Index, InHwCount, Cookie, Stats and Other.             *)
WireItems ==
  {Attr("Kind", k) : k \in Kinds \cup {Empty}}
    \cup {Attr("Options", k) : k \in Kinds \cup {"broken"}}
    \cup {Attr("Plain", "ok"), Attr("Plain", "broken"), Attr("Malformed", Empty)}

(* The options that go with a kind, as a caller builds them.               *)
OptionsOf(kind) ==
  IF OptionVariant(kind) = "Other" THEN OtherOptions(kind)
  ELSE Attr("Options", OptionVariant(kind))

Values ==
  {Attr("Kind", k) : k \in Kinds} \cup {OptionsOf(k) : k \in Kinds}
    \cup {Attr("Plain", "ok")}

ActionLists(S, n) == {Action(tab, nlas) : tab \in Tabs, nlas \in Lists(S, n)}

(* One action with many attributes, or two with few.                       *)
Messages(S) ==
  {<<a>> : a \in ActionLists(S, MaxAttrs)} \cup Lists(ActionLists(S, MaxInPair), 2)

Init ==
  /\ \/ /\ status = "collecting" /\ wire \in Messages(WireItems)
        /\ actions = <<>> /\ built = None /\ received = wire
     \/ /\ status = "value" /\ actions \in Messages(Values)
        /\ built = actions /\ wire = <<>> /\ received = None
  /\ idx = 1
  /\ kinds = <<>>
  /\ attributes = <<>>
  /\ seen = built
  /\ trips = 0
-----------------------------------------------------------------------------
Here == wire[Len(actions) + 1].nlas
More == Len(actions) < Len(wire)

(* First pass. *)

Collecting == status = "collecting" /\ More /\ idx <= Len(Here)

CollectKind ==
  /\ Collecting
  /\ Here[idx].tag = "Kind" /\ Here[idx].is # Empty
  /\ kinds' = Append(kinds, Here[idx].is)
  /\ idx' = idx + 1
  /\ UNCHANGED <<wire, actions, attributes, built, received, seen, trips, status>>

Pass ==
  /\ Collecting
  /\ Here[idx].tag \notin {"Kind", "Malformed"}
  /\ idx' = idx + 1
  /\ UNCHANGED <<wire, actions, kinds, attributes, built, received, seen, trips, status>>

(* Faulty: skips what it cannot read (OneKind).                            *)
CollectErrSkips ==
  /\ Collecting
  /\ Here[idx] \in {Attr("Kind", Empty), Attr("Malformed", Empty)}
  /\ idx' = idx + 1
  /\ UNCHANGED <<wire, actions, kinds, attributes, built, received, seen, trips, status>>

(* collect::<Result<..>>() stops at the first Err.                         *)
CollectErr ==
  /\ Collecting
  /\ Here[idx] \in {Attr("Kind", Empty), Attr("Malformed", Empty)}
  /\ status' = "err"
  /\ UNCHANGED <<wire, actions, idx, kinds, attributes, built, received, seen, trips>>

Collected == status = "collecting" /\ More /\ idx > Len(Here)

MissingOrDuplicate ==
  /\ Collected
  /\ Len(kinds) # 1
  /\ status' = "err"
  /\ UNCHANGED <<wire, actions, idx, kinds, attributes, built, received, seen, trips>>

(* Faulty: the first kind will do (OneKind, RoundTrip).                    *)
FoundKindFirst ==
  /\ Collected
  /\ kinds # <<>>
  /\ status' = "parsing"
  /\ idx' = 1
  /\ UNCHANGED <<wire, actions, kinds, attributes, built, received, seen, trips>>

FoundKind ==
  /\ Collected
  /\ Len(kinds) = 1
  /\ status' = "parsing"
  /\ idx' = 1
  /\ UNCHANGED <<wire, actions, kinds, attributes, built, received, seen, trips>>
-----------------------------------------------------------------------------
(* Second pass. *)

(* The values TcActionAttribute::parse_with_param can return.  A parser    *)
(* that meets the options of another kind of action may accept them.       *)
Decodings(attr, kind) ==
  IF attr.is = "broken" \/ attr.tag = "Malformed" THEN {}
  ELSE {IF attr.tag # "Options" THEN attr
        ELSE IF OptionVariant(kind) = "Other" THEN OtherOptions(attr.is)
        ELSE Attr("Options", OptionVariant(kind))}

(* It can return Err.                                                      *)
MayFail(attr, kind) ==
  \/ Decodings(attr, kind) = {}
  \/ attr.tag = "Options" /\ OptionVariant(kind) # "Other" /\ attr.is # kind

Parsing == status = "parsing" /\ idx <= Len(Here)

(* Faulty: the kind met last in front of the options (UnderKind).          *)
DecodeOnTheWay ==
  /\ Parsing
  /\ LET before == {j \in 1 .. idx : Here[j].tag = "Kind"}
         kind == IF before = {} THEN Empty ELSE Here[Max(before)].is
     IN \E v \in Decodings(Here[idx], kind) : attributes' = Append(attributes, v)
  /\ idx' = idx + 1
  /\ UNCHANGED <<wire, actions, kinds, built, received, seen, trips, status>>

Decode ==
  /\ Parsing
  /\ \E v \in Decodings(Here[idx], kinds[1]) : attributes' = Append(attributes, v)
  /\ idx' = idx + 1
  /\ UNCHANGED <<wire, actions, kinds, built, received, seen, trips, status>>

Refuse ==
  /\ Parsing
  /\ MayFail(Here[idx], kinds[1])
  /\ status' = "err"
  /\ UNCHANGED <<wire, actions, idx, kinds, attributes, built, received, seen, trips>>

(* TcAction::parse returns, and the list around it goes on.                *)
PushAction ==
  /\ status = "parsing"
  /\ idx > Len(Here)
  /\ actions' = Append(actions, Action(wire[Len(actions) + 1].tab % KindMask, attributes))
  /\ idx' = 1 /\ kinds' = <<>> /\ attributes' = <<>>
  /\ status' = "collecting"
  /\ UNCHANGED <<wire, built, received, seen, trips>>

Return ==
  /\ status = "collecting"
  /\ ~More
  /\ status' = "value"
  /\ seen' = IF seen = None THEN actions ELSE seen
  /\ UNCHANGED <<wire, actions, idx, kinds, attributes, built, received, trips>>
-----------------------------------------------------------------------------
(* Faulty: one arm for both variants (Stable).                             *)
EmittedMirror(attr) ==
  IF attr.tag # "Options" THEN attr
  ELSE IF attr.is = "Other" THEN Attr("Options", attr.raw)
  ELSE Attr("Options", "mirred")

(* An attribute as emit_value writes it: options in the layout of their    *)
(* variant.                                                                *)
Emitted(attr) ==
  IF attr.tag # "Options" THEN attr
  ELSE IF attr.is = "Other" THEN Attr("Options", attr.raw)
  ELSE Attr("Options", IF attr.is = "Mirror" THEN "mirred" ELSE "nat")

Emit ==
  /\ status = "value"
  /\ trips < MaxTrips
  /\ wire' = [a \in 1 .. Len(actions) |->
                Action(actions[a].tab,
                       [k \in 1 .. Len(actions[a].nlas) |-> Emitted(actions[a].nlas[k])])]
  /\ actions' = <<>>
  /\ idx' = 1
  /\ trips' = trips + 1
  /\ status' = "collecting"
  /\ UNCHANGED <<kinds, attributes, built, received, seen>>

Next ==
  \/ CollectKind \/ Pass \/ CollectErr \/ MissingOrDuplicate \/ FoundKind
  \/ Decode \/ Refuse \/ PushAction \/ Return
  \/ Emit

Spec == Init /\ [][Next]_vars
-----------------------------------------------------------------------------
KindsIn(action) == {k \in 1 .. Len(action.nlas) : action.nlas[k].tag = "Kind"}
TheKind(action) == action.nlas[CHOOSE k \in KindsIn(action) : TRUE].is

TabIds == {t \in Nat : t < 65536}

(* The iterator is at most one behind the end of the action it walks, and  *)
(* no more kinds are collected than the action has.                        *)
TypeOK ==
  /\ status \in {"collecting", "parsing", "value", "err"}
  /\ trips \in 0 .. MaxTrips
  /\ idx \in Nat \ {0}
  /\ (status \in {"collecting", "parsing"} /\ More) =>
       /\ idx <= Len(Here) + 1
       /\ Len(kinds) <= Cardinality(KindsIn(wire[Len(actions) + 1]))
       /\ Len(attributes) <= Len(Here)
  /\ \A a \in 1 .. Len(actions) : actions[a].tab \in TabIds

(* action.rs: "Messages of this type which do not specify [`Kind`], or     *)
(* which specify `Kind` more than once are malformed and should be         *)
(* rejected."  Every action decoded has one kind, also when the list       *)
(* around it fails later, and a message is returned only when all have.    *)
OneKind ==
  LET Decoded == status # "value" \/ trips > 0 \/ built = None
  IN /\ Decoded => \A a \in 1 .. Len(actions) : Cardinality(KindsIn(actions[a])) = 1
     /\ (status = "value" /\ received # None) =>
          /\ Len(seen) = Len(received)
          /\ \A a \in 1 .. Len(received) :
               /\ Cardinality(KindsIn(received[a])) = 1
               /\ \A k \in 1 .. Len(received[a].nlas) :
                    received[a].nlas[k].tag # "Malformed"

(* The options of an action are decoded by the parser of the kind of the   *)
(* same action, wherever in the action it stands.                          *)
UnderKind ==
  (received # None /\ trips = 0) =>
    \A a \in 1 .. Len(actions) : \A k \in 1 .. Len(actions[a].nlas) :
      actions[a].nlas[k].tag = "Options" =>
        actions[a].nlas[k].is = OptionVariant(TheKind(received[a]))

(* The caller gave each action one kind, and options that go with it.      *)
Coherent(action) ==
  /\ Cardinality(KindsIn(action)) = 1
  /\ \A k \in 1 .. Len(action.nlas) :
       action.nlas[k].tag = "Options" =>
         action.nlas[k].is = OptionVariant(TheKind(action))

(* A list of actions nothing is wrong with comes back as it was built, the *)
(* flags of the table ids aside; one with a missing or second kind never   *)
(* comes back.                                                             *)
RoundTrip ==
  (built # None /\ trips > 0) =>
    /\ (\A a \in 1 .. Len(built) : Coherent(built[a])) =>
         /\ status # "err"
         /\ status = "value" =>
              actions = [a \in 1 .. Len(built) |->
                           Action(built[a].tab % KindMask, built[a].nlas)]
    /\ (\E a \in 1 .. Len(built) : Cardinality(KindsIn(built[a])) # 1) =>
         status # "value"

(* What has been decoded from the wire is emitted to something that is     *)
(* decoded to the same, on every trip.                                     *)
Stable ==
  (received # None /\ seen # None) =>
    /\ status # "err"
    /\ status = "value" => actions = seen
=============================================================================
