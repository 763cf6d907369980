--------------------------- MODULE LinkInfo_proofs ---------------------------
(***************************************************************************)
(* Proofs about IFLA_LINKINFO, for lists of every length and every set of  *)
(* kind names: data is decoded under the kind it stands under, and a list  *)
(* that was decoded, or built to match its kinds, survives emission.       *)
(***************************************************************************)
EXTENDS LinkInfo, TLAPS

(* "None" stands for Option::None and the name of a variant for the        *)
(* variant, so no kind on the wire is called that.                         *)
NamesGiven ==
  /\ NoKind \notin Names \cup PortNames
  /\ Names \cap DOMAIN KindName = {}
  /\ PortNames \cap DOMAIN PortKindName = {}

(* Members whose kind, if they are one, is a kind that occurs.             *)
Readable ==
  {w \in [tag : Tags, is : Words] :
     /\ w.tag = "Kind" => w.is \in Names
     /\ w.tag = "PortKind" => w.is \in PortNames}

(* The values decoding can return: undecoded bytes only under Other.       *)
Proper ==
  {v \in [tag : Tags, is : Words, raw : Words] :
     \/ v.tag = "Kind" /\ v.is \in Kinds \ {NoKind} /\ v.raw = ""
     \/ v.tag = "PortKind" /\ v.is \in PortKinds \ {NoKind} /\ v.raw = ""
     \/ v.tag \in {"Data", "PortData"} /\ (v.is # "Other" => v.raw = "")
     \/ v.tag \in {"Xstats", "Other"} /\ v.is = "Other"}

(* The kind remembered at member n of a list: that of the last member with *)
(* the tag, or none when there is none or it is used up.                   *)
Remembers(list, tag, spent, kind) ==
  LET last == LastBefore(list, Len(list) + 1, tag, spent)
  IN  /\ kind = NoKind <=> last = {}
      /\ \A i \in last : list[i].is = kind

(* While it parses, what has been decoded stands under the right kinds,    *)
(* and the two local variables are what the list read so far says.         *)
ParseInv ==
  status = "parsing" =>
    /\ Paired(nlas)
    /\ Remembers(nlas, "Kind", {}, link_info_kind)
    /\ Remembers(nlas, "PortKind", {"PortData"}, link_info_port_kind)

(* The list is emitted, or decoded again from its emission, and what has   *)
(* been decoded so far is the beginning of it.                             *)
Echoes(list) ==
  /\ status # "err"
  /\ status = "value" => nlas = list
  /\ status = "parsing" =>
       /\ wire = [i \in 1 .. Len(list) |-> Emitted(list[i])]
       /\ idx = Len(nlas) + 1
       /\ \A j \in 1 .. Len(nlas) : nlas[j] = list[j]

ListsInv ==
  /\ wire \in Seq(Readable)
  /\ idx \in 1 .. Len(wire) + 1
  /\ link_info_kind \in Kinds
  /\ link_info_port_kind \in PortKinds
  /\ nlas \in Seq(Proper)
  /\ built \in Seq(Proper) \cup {None}
  /\ seen \in Seq(Proper) \cup {None}
  /\ status \in {"parsing", "value", "err"}

EchoInv ==
  /\ (built # None /\ Paired(built)) => Echoes(built)
  /\ seen # None => Echoes(seen)

IInv == ListsInv /\ ParseInv /\ UnderKind /\ EchoInv
-----------------------------------------------------------------------------
(* InfoKind::parse and Display undo each other, and so do those of         *)
(* InfoPortKind.                                                           *)
LEMMA KindEcho ==
  ASSUME NamesGiven
  PROVE  /\ \A n \in Names : EmitKind(ParseKind(n)) = n
         /\ \A n \in PortNames : EmitPortKind(ParsePortKind(n)) = n
<1>1. ASSUME NEW n \in Names PROVE EmitKind(ParseKind(n)) = n
  <2>1. CASE n \in DOMAIN KindOfName
    BY <2>1 DEF KindOfName, KindName, ParseKind, EmitKind
  <2>2. CASE n \notin DOMAIN KindOfName
    BY <2>2 DEF NamesGiven, ParseKind, EmitKind
  <2> QED BY <2>1, <2>2
<1>2. ASSUME NEW n \in PortNames PROVE EmitPortKind(ParsePortKind(n)) = n
  <2>1. CASE n \in DOMAIN PortKindOfName
    BY <2>1 DEF PortKindOfName, PortKindName, ParsePortKind, EmitPortKind
  <2>2. CASE n \notin DOMAIN PortKindOfName
    BY <2>2 DEF NamesGiven, ParsePortKind, EmitPortKind
  <2> QED BY <2>1, <2>2
<1> QED BY <1>1, <1>2

(* No name parses to None.                                                 *)
LEMMA KindsGiven ==
  ASSUME NamesGiven
  PROVE  /\ \A n \in Names : ParseKind(n) \in Kinds \ {NoKind}
         /\ \A n \in PortNames : ParsePortKind(n) \in PortKinds \ {NoKind}
<1>1. ASSUME NEW n \in Names PROVE ParseKind(n) # NoKind
  <2>1. CASE n \in DOMAIN KindOfName
    BY <2>1 DEF KindOfName, ParseKind, NoKind
  <2>2. CASE n \notin DOMAIN KindOfName
    BY <2>2 DEF NamesGiven, ParseKind
  <2> QED BY <2>1, <2>2
<1>2. ASSUME NEW n \in PortNames PROVE ParsePortKind(n) # NoKind
  BY DEF NamesGiven, PortKindOfName, ParsePortKind, NoKind
<1> QED BY <1>1, <1>2 DEF Kinds, PortKinds

(* What stands before member n depends on the members before it only.      *)
LEMMA LastSame ==
  ASSUME NEW a, NEW b, NEW n \in Nat, NEW tag, NEW spent,
         \A j \in 1 .. n - 1 : a[j] = b[j]
  PROVE  LastBefore(a, n, tag, spent) = LastBefore(b, n, tag, spent)
BY DEF LastBefore

(* The member appended to a list is the last, and may use one up.          *)
LEMMA LastAppend ==
  ASSUME NEW l, NEW t, NEW n \in Nat, NEW tag, NEW spent,
         \A j \in 1 .. n : t[j] = l[j]
  PROVE  /\ t[n + 1].tag = tag => LastBefore(t, n + 2, tag, spent) = {n + 1}
         /\ (t[n + 1].tag # tag /\ t[n + 1].tag \in spent) =>
              LastBefore(t, n + 2, tag, spent) = {}
         /\ (t[n + 1].tag # tag /\ t[n + 1].tag \notin spent) =>
              LastBefore(t, n + 2, tag, spent) = LastBefore(l, n + 1, tag, spent)
<1> DEFINE v == t[n + 1]
<1>1. n \in Nat /\ t[n + 1] = v /\ \A j \in 1 .. n : t[j] = l[j]
  OBVIOUS
<1> HIDE DEF v
<1>2. \A i : i \in LastBefore(t, n + 2, tag, spent) <=>
               /\ i \in 1 .. n + 1 /\ t[i].tag = tag
               /\ \A j \in i + 1 .. n + 1 : t[j].tag \notin {tag} \cup spent
  BY <1>1 DEF LastBefore
<1>3. \A i : i \in LastBefore(l, n + 1, tag, spent) <=>
               /\ i \in 1 .. n /\ l[i].tag = tag
               /\ \A j \in i + 1 .. n : l[j].tag \notin {tag} \cup spent
  BY <1>1 DEF LastBefore
<1>4. CASE v.tag = tag
  <2>1. \A i \in 1 .. n : n + 1 \in i + 1 .. n + 1 BY <1>1
  <2>2. \A i \in 1 .. n : i \notin LastBefore(t, n + 2, tag, spent)
    BY <1>1, <1>2, <1>4, <2>1
  <2>3. n + 1 \in LastBefore(t, n + 2, tag, spent)
    BY <1>1, <1>2, <1>4
  <2>4. \A i \in LastBefore(t, n + 2, tag, spent) : i \in 1 .. n \/ i = n + 1
    BY <1>1, <1>2
  <2>5. LastBefore(t, n + 2, tag, spent) = {n + 1}
    BY <2>2, <2>3, <2>4
  <2> QED BY <1>1, <1>4, <2>5
<1>5. CASE v.tag # tag /\ v.tag \in spent
  <2>1. \A i \in 1 .. n : n + 1 \in i + 1 .. n + 1 BY <1>1
  <2>2. \A i : i \notin LastBefore(t, n + 2, tag, spent)
    BY <1>1, <1>2, <1>5, <2>1
  <2> QED BY <1>1, <1>5, <2>2
<1>6. CASE v.tag # tag /\ v.tag \notin spent
  <2>1. \A i \in 1 .. n : \A j \in i + 1 .. n + 1 : j \in i + 1 .. n \/ j = n + 1
    BY <1>1
  <2>2. \A i \in 1 .. n : \A j \in i + 1 .. n : j \in 1 .. n /\ j \in i + 1 .. n + 1
    BY <1>1
  <2>3. \A i \in 1 .. n + 1 : i \in 1 .. n \/ i = n + 1 BY <1>1
  <2>4. \A i : i \in LastBefore(t, n + 2, tag, spent)
                <=> i \in LastBefore(l, n + 1, tag, spent)
    BY <1>1, <1>2, <1>3, <1>6, <2>1, <2>2, <2>3
  <2>5. LastBefore(t, n + 2, tag, spent) = LastBefore(l, n + 1, tag, spent)
    BY <2>4
  <2> QED BY <1>1, <1>6, <2>5
<1> QED BY <1>1, <1>4, <1>5, <1>6

(* What the loop remembers follows the list.                               *)
LEMMA RemembersAppend ==
  ASSUME NEW l \in Seq(Proper), NEW v \in Proper, NEW tag, NEW spent, NEW kind,
         Remembers(l, tag, spent, kind),
         v.tag = tag => v.is # NoKind
  PROVE  Remembers(Append(l, v), tag, spent,
                   IF v.tag = tag THEN v.is ELSE IF v.tag \in spent THEN NoKind ELSE kind)
<1> DEFINE t == Append(l, v)
           n == Len(l)
<1>1. /\ Len(t) = n + 1 /\ n \in Nat /\ t[n + 1] = v
      /\ \A j \in 1 .. n : t[j] = l[j]
  OBVIOUS
<1>2. Len(t) + 1 = n + 2 /\ Len(l) = n BY <1>1
<1> HIDE DEF t, n
<1>3. /\ v.tag = tag => LastBefore(t, n + 2, tag, spent) = {n + 1}
      /\ (v.tag # tag /\ v.tag \in spent) => LastBefore(t, n + 2, tag, spent) = {}
      /\ (v.tag # tag /\ v.tag \notin spent) =>
           LastBefore(t, n + 2, tag, spent) = LastBefore(l, n + 1, tag, spent)
  BY <1>1, LastAppend
<1>4. \A i \in LastBefore(l, n + 1, tag, spent) : i \in 1 .. n
  BY <1>1 DEF LastBefore
<1>5. Remembers(t, tag, spent,
                IF v.tag = tag THEN v.is ELSE IF v.tag \in spent THEN NoKind ELSE kind)
  BY <1>1, <1>2, <1>3, <1>4 DEF Remembers
<1> QED BY <1>5 DEF t

(* Value v goes with the kinds of the list it is appended to.              *)
Suits(l, v) ==
  /\ v.tag = "Data" =>
       \E i \in LastBefore(l, Len(l) + 1, "Kind", {}) : v.is = DataVariant(l[i].is)
  /\ v.tag = "Xstats" => LastBefore(l, Len(l) + 1, "Kind", {}) # {}
  /\ v.tag = "PortData" =>
       \E i \in LastBefore(l, Len(l) + 1, "PortKind", {"PortData"}) :
         v.is = PortVariant(l[i].is)

(* A list stays paired by a value that suits it.                           *)
LEMMA PairedAppend ==
  ASSUME NEW l \in Seq(Proper), NEW v \in Proper, Paired(l), Suits(l, v)
  PROVE  Paired(Append(l, v))
<1> DEFINE t == Append(l, v)
<1>1. /\ Len(t) = Len(l) + 1 /\ Len(l) \in Nat /\ t[Len(l) + 1] = v
      /\ \A j \in 1 .. Len(l) : t[j] = l[j]
  OBVIOUS
<1> HIDE DEF t
<1>2. \A n \in 1 .. Len(l) + 1 : \A tag, spent :
        LastBefore(t, n, tag, spent) = LastBefore(l, n, tag, spent)
  <2> TAKE n \in 1 .. Len(l) + 1
  <2> TAKE tag, spent
  <2>1. n \in Nat /\ \A j \in 1 .. n - 1 : t[j] = l[j] BY <1>1
  <2> QED BY <2>1, LastSame
<1>3. \A n \in 1 .. Len(l) + 1 : \A tag, spent :
        \A i \in LastBefore(l, n, tag, spent) : i \in 1 .. Len(l)
  BY <1>1 DEF LastBefore
<1>4. ASSUME NEW n \in 1 .. Len(t)
      PROVE  /\ t[n].tag = "Data" =>
                  \E i \in LastBefore(t, n, "Kind", {}) : t[n].is = DataVariant(t[i].is)
             /\ t[n].tag = "Xstats" => LastBefore(t, n, "Kind", {}) # {}
             /\ t[n].tag = "PortData" =>
                  \E i \in LastBefore(t, n, "PortKind", {"PortData"}) :
                    t[n].is = PortVariant(t[i].is)
  <2>1. n \in 1 .. Len(l) + 1 BY <1>1
  <2>2. CASE n \in 1 .. Len(l)
    <3>1. t[n] = l[n] BY <1>1, <2>2
    <3> QED BY <1>1, <1>2, <1>3, <2>1, <2>2, <3>1 DEF Paired
  <2>3. CASE n = Len(l) + 1
    <3>1. t[n] = v BY <1>1, <2>3
    <3> QED BY <1>1, <1>2, <1>3, <2>1, <2>3, <3>1 DEF Suits
  <2> QED BY <1>1, <2>2, <2>3
<1>5. Paired(t) BY <1>4 DEF Paired
<1> QED BY <1>5 DEF t
-----------------------------------------------------------------------------
(* A step of the loop that pushes value v.                                 *)
Pushes(v) ==
  /\ status = "parsing" /\ idx <= Len(wire)
  /\ nlas' = Append(nlas, v)
  /\ idx' = idx + 1
  /\ link_info_kind' = IF v.tag = "Kind" THEN v.is ELSE link_info_kind
  /\ link_info_port_kind' =
       IF v.tag = "PortKind" THEN v.is
       ELSE IF v.tag \in {"PortData"} THEN NoKind ELSE link_info_port_kind
  /\ UNCHANGED <<wire, built, seen, status>>

(* v is the only value that wire[idx] could have been emitted from.        *)
OnlySource(v) ==
  \A r \in Proper : (wire[idx] = Emitted(r) /\ Suits(nlas, r)) => v = r

(* Remembered kinds occur, and data under them has a layout that occurs.   *)
LEMMA VariantsKnown ==
  ASSUME NamesGiven
  PROVE  /\ \A k \in Kinds \ {NoKind} : DataVariant(k) \in Words
         /\ \A k \in PortKinds \ {NoKind} : PortVariant(k) \in Words
BY DEF Kinds, PortKinds, Words, Layouts, PortLayouts

(* A value is emitted as a member decoding can read.                       *)
LEMMA EmittedReadable ==
  ASSUME NamesGiven, NEW r \in Proper
  PROVE  Emitted(r) \in Readable
<1>1. r \in [tag : Tags, is : Words, raw : Words] BY DEF Proper
<1>2. CASE r.tag = "Kind"
  <2>1. PICK n \in Names : r.is = ParseKind(n)
    BY <1>2 DEF Proper, Kinds
  <2>2. Emitted(r) = Item("Kind", n) BY <1>2, <2>1, KindEcho DEF Emitted
  <2>3. n \in Words BY DEF Words
  <2>4. "Kind" \in Tags BY DEF Tags
  <2> QED BY <2>2, <2>3, <2>4 DEF Readable, Item
<1>3. CASE r.tag = "PortKind"
  <2>1. PICK n \in PortNames : r.is = ParsePortKind(n)
    BY <1>3 DEF Proper, PortKinds
  <2>2. Emitted(r) = Item("PortKind", n) BY <1>3, <2>1, KindEcho DEF Emitted
  <2>3. n \in Words BY DEF Words
  <2>4. "PortKind" \in Tags BY DEF Tags
  <2> QED BY <2>2, <2>3, <2>4 DEF Readable, Item
<1>4. CASE r.tag \notin {"Kind", "PortKind"}
  BY <1>1, <1>4 DEF Emitted, Readable, Item
<1> QED BY <1>2, <1>3, <1>4

(* The fields of a value and of its emission.                              *)
LEMMA EmittedFields ==
  ASSUME NEW r \in Proper
  PROVE  /\ Emitted(r).tag = r.tag
         /\ r = Value(r.tag, r.is, r.raw)
         /\ r.tag \notin {"Kind", "PortKind"} =>
              Emitted(r).is = IF r.is = "Other" THEN r.raw ELSE r.is
         /\ r.tag = "Kind" => Emitted(r).is = EmitKind(r.is)
         /\ r.tag = "PortKind" => Emitted(r).is = EmitPortKind(r.is)
<1>1. r \in [tag : Tags, is : Words, raw : Words] BY DEF Proper
<1>2. r = Value(r.tag, r.is, r.raw) BY <1>1 DEF Value
<1> QED BY <1>2 DEF Emitted, Item

(* The member the iterator is at.                                          *)
LEMMA MemberRead ==
  ASSUME ListsInv, idx <= Len(wire)
  PROVE  idx \in 1 .. Len(wire) /\ wire[idx] \in Readable
<1>1. wire \in Seq(Readable) /\ idx \in 1 .. Len(wire) BY DEF ListsInv
<1> QED BY <1>1

(* A step that reads a kind pushes it.                                     *)
LEMMA ReadKindPushes ==
  ASSUME NamesGiven, ListsInv, ReadKind
  PROVE  \E v \in Proper : Pushes(v) /\ Suits(nlas, v) /\ OnlySource(v)
<1> DEFINE w == wire[idx]
           v == Value("Kind", ParseKind(w.is), "")
<1>1. w \in Readable /\ w.tag = "Kind" BY MemberRead DEF ReadKind, Reads
<1>2. w.is \in Names BY <1>1 DEF Readable
<1>3. /\ ParseKind(w.is) \in Kinds \ {NoKind} /\ ParseKind(w.is) \in Words
      /\ "Kind" \in Tags /\ "" \in Words
  BY <1>2, KindsGiven DEF Words, Tags
<1>4. v \in Proper BY <1>3 DEF Proper, Value
<1>5. Pushes(v) BY DEF ReadKind, Reads, Pushed, Pushes, Value
<1>6. Suits(nlas, v) BY DEF Suits, Value
<1>7. OnlySource(v)
  <2> SUFFICES ASSUME NEW r \in Proper, w = Emitted(r) PROVE v = r
    BY DEF OnlySource
  <2>1. r.tag = "Kind" /\ w.is = EmitKind(r.is) BY <1>1, EmittedFields
  <2>2. r.raw = "" /\ r.is \in Kinds \ {NoKind} BY <2>1 DEF Proper
  <2>3. PICK n \in Names : r.is = ParseKind(n) BY <2>2 DEF Kinds
  <2>4. w.is = n BY <2>1, <2>3, KindEcho
  <2> QED BY <2>1, <2>2, <2>3, <2>4, EmittedFields
<1> QED BY <1>4, <1>5, <1>6, <1>7

(* A step that reads a port kind pushes it.                                *)
LEMMA ReadPortKindPushes ==
  ASSUME NamesGiven, ListsInv, ReadPortKind
  PROVE  \E v \in Proper : Pushes(v) /\ Suits(nlas, v) /\ OnlySource(v)
<1> DEFINE w == wire[idx]
           v == Value("PortKind", ParsePortKind(w.is), "")
<1>1. w \in Readable /\ w.tag = "PortKind" BY MemberRead DEF ReadPortKind, Reads
<1>2. w.is \in PortNames BY <1>1 DEF Readable
<1>3. /\ ParsePortKind(w.is) \in PortKinds \ {NoKind} /\ ParsePortKind(w.is) \in Words
      /\ "PortKind" \in Tags /\ "" \in Words
  BY <1>2, KindsGiven DEF Words, Tags
<1>4. v \in Proper BY <1>3 DEF Proper, Value
<1>5. Pushes(v) BY DEF ReadPortKind, Reads, Pushed, Pushes, Value
<1>6. Suits(nlas, v) BY DEF Suits, Value
<1>7. OnlySource(v)
  <2> SUFFICES ASSUME NEW r \in Proper, w = Emitted(r) PROVE v = r
    BY DEF OnlySource
  <2>1. r.tag = "PortKind" /\ w.is = EmitPortKind(r.is) BY <1>1, EmittedFields
  <2>2. r.raw = "" /\ r.is \in PortKinds \ {NoKind} BY <2>1 DEF Proper
  <2>3. PICK n \in PortNames : r.is = ParsePortKind(n) BY <2>2 DEF PortKinds
  <2>4. w.is = n BY <2>1, <2>3, KindEcho
  <2> QED BY <2>1, <2>2, <2>3, <2>4, EmittedFields
<1> QED BY <1>4, <1>5, <1>6, <1>7

(* Data that stands under a kind is of that kind's variant.                *)
LEMMA DataUnder ==
  ASSUME ParseInv, status = "parsing"
  PROVE  /\ \A v : (v.tag = "Data" /\ Suits(nlas, v)) =>
              link_info_kind # NoKind /\ v.is = DataVariant(link_info_kind)
         /\ \A v : (v.tag = "Xstats" /\ Suits(nlas, v)) => link_info_kind # NoKind
         /\ \A v : (v.tag = "PortData" /\ Suits(nlas, v)) =>
              link_info_port_kind # NoKind /\ v.is = PortVariant(link_info_port_kind)
BY DEF ParseInv, Remembers, Suits

(* ... and the other way round.                                            *)
LEMMA UnderData ==
  ASSUME ParseInv, status = "parsing"
  PROVE  /\ \A v : (v.tag = "Data" /\ link_info_kind # NoKind
                     /\ v.is = DataVariant(link_info_kind)) => Suits(nlas, v)
         /\ \A v : (v.tag = "Xstats" /\ link_info_kind # NoKind) => Suits(nlas, v)
         /\ \A v : (v.tag = "PortData" /\ link_info_port_kind # NoKind
                     /\ v.is = PortVariant(link_info_port_kind)) => Suits(nlas, v)
BY DEF ParseInv, Remembers, Suits

(* A step that reads data pushes the variant of the kind it stands under.  *)
LEMMA ReadDataPushes ==
  ASSUME NamesGiven, ListsInv, ParseInv, ReadData
  PROVE  \E v \in Proper : Pushes(v) /\ Suits(nlas, v) /\ OnlySource(v)
<1> DEFINE w == wire[idx]
           k == DataVariant(link_info_kind)
<1>1. PICK v \in Decodings("Data", k, w.is) : Pushed(v) BY DEF ReadData
<1>2. /\ w \in Readable /\ w.tag = "Data" /\ link_info_kind \in Kinds \ {NoKind}
      /\ status = "parsing"
  BY DEF ListsInv, ReadData, Reads
<1>3. k \in Words /\ w.is \in Words /\ "" \in Words /\ "Data" \in Tags
  BY <1>2, VariantsKnown DEF Readable, Words, Tags
<1>4. v = IF k = "Other" THEN Value("Data", k, w.is) ELSE Value("Data", k, "")
  BY <1>1 DEF Decodings
<1>5. v.tag = "Data" /\ v.is = k BY <1>4 DEF Value
<1>6. v \in Proper BY <1>3, <1>4 DEF Proper, Value
<1>7. Pushes(v) BY <1>1, <1>5 DEF ReadData, Reads, Pushed, Pushes
<1>8. Suits(nlas, v) BY <1>2, <1>5, UnderData
<1>9. OnlySource(v)
  <2> SUFFICES ASSUME NEW r \in Proper, w = Emitted(r), Suits(nlas, r) PROVE v = r
    BY DEF OnlySource
  <2>1. r.tag = "Data" /\ w.is = IF r.is = "Other" THEN r.raw ELSE r.is
    BY <1>2, EmittedFields
  <2>2. r.is = k BY <1>2, <2>1, DataUnder
  <2>3. r.is # "Other" => r.raw = "" BY <2>1 DEF Proper
  <2> QED BY <1>4, <2>1, <2>2, <2>3, EmittedFields
<1> QED BY <1>6, <1>7, <1>8, <1>9

(* A step that reads port data pushes the variant of its port kind.        *)
LEMMA ReadPortDataPushes ==
  ASSUME NamesGiven, ListsInv, ParseInv, ReadPortData
  PROVE  \E v \in Proper : Pushes(v) /\ Suits(nlas, v) /\ OnlySource(v)
<1> DEFINE w == wire[idx]
           k == PortVariant(link_info_port_kind)
<1>1. PICK v \in Decodings("PortData", k, w.is) : Pushed(v) BY DEF ReadPortData
<1>2. /\ w \in Readable /\ w.tag = "PortData"
      /\ link_info_port_kind \in PortKinds \ {NoKind} /\ status = "parsing"
  BY DEF ListsInv, ReadPortData, Reads
<1>3. k \in Words /\ w.is \in Words /\ "" \in Words /\ "PortData" \in Tags
  BY <1>2, VariantsKnown DEF Readable, Words, Tags
<1>4. v = IF k = "Other" THEN Value("PortData", k, w.is) ELSE Value("PortData", k, "")
  BY <1>1 DEF Decodings
<1>5. v.tag = "PortData" /\ v.is = k BY <1>4 DEF Value
<1>6. v \in Proper BY <1>3, <1>4 DEF Proper, Value
<1>7. Pushes(v) BY <1>1, <1>5 DEF ReadPortData, Reads, Pushed, Pushes
<1>8. Suits(nlas, v) BY <1>2, <1>5, UnderData
<1>9. OnlySource(v)
  <2> SUFFICES ASSUME NEW r \in Proper, w = Emitted(r), Suits(nlas, r) PROVE v = r
    BY DEF OnlySource
  <2>1. r.tag = "PortData" /\ w.is = IF r.is = "Other" THEN r.raw ELSE r.is
    BY <1>2, EmittedFields
  <2>2. r.is = k BY <1>2, <2>1, DataUnder
  <2>3. r.is # "Other" => r.raw = "" BY <2>1 DEF Proper
  <2> QED BY <1>4, <2>1, <2>2, <2>3, EmittedFields
<1> QED BY <1>6, <1>7, <1>8, <1>9

(* A step that reads statistics or an unknown member keeps its bytes.      *)
LEMMA ReadBytesPushes ==
  ASSUME NamesGiven, ListsInv, ParseInv, ReadXstats \/ ReadOther
  PROVE  \E v \in Proper : Pushes(v) /\ Suits(nlas, v) /\ OnlySource(v)
<1> DEFINE w == wire[idx]
           v == Value(w.tag, "Other", w.is)
<1>1. /\ w \in Readable /\ w.tag \in {"Xstats", "Other"} /\ status = "parsing"
      /\ w.tag = "Xstats" => link_info_kind # NoKind
  BY DEF ListsInv, ReadXstats, ReadOther, Reads
<1>2. "Other" \in Words /\ w.is \in Words /\ w.tag \in Tags
  BY <1>1 DEF Readable, Words
<1>3. v \in Proper BY <1>1, <1>2 DEF Proper, Value
<1>4. Pushes(v)
  BY <1>1 DEF ReadXstats, ReadOther, Reads, Pushed, Pushes, Value
<1>5. Suits(nlas, v)
  <2>1. CASE w.tag = "Xstats" BY <1>1, <2>1, UnderData DEF Value
  <2>2. CASE w.tag = "Other" BY <2>2 DEF Suits, Value
  <2> QED BY <1>1, <2>1, <2>2
<1>6. OnlySource(v)
  <2> SUFFICES ASSUME NEW r \in Proper, w = Emitted(r) PROVE v = r
    BY DEF OnlySource
  <2>1. r.tag = w.tag /\ w.is = IF r.is = "Other" THEN r.raw ELSE r.is
    BY <1>1, EmittedFields
  <2>2. r.is = "Other" BY <1>1, <2>1 DEF Proper
  <2> QED BY <2>1, <2>2, EmittedFields
<1> QED BY <1>3, <1>4, <1>5, <1>6
-----------------------------------------------------------------------------
Refuses == RefuseData \/ RefuseXstats \/ RefusePortData \/ RefuseMalformed

(* The member the iterator is at, when a paired list is being echoed.      *)
LEMMA EchoMember ==
  ASSUME ListsInv, NEW list \in Seq(Proper), Paired(list), Echoes(list),
         status = "parsing", idx <= Len(wire)
  PROVE  /\ idx \in 1 .. Len(list)
         /\ list[idx] \in Proper
         /\ wire[idx] = Emitted(list[idx])
         /\ Suits(nlas, list[idx])
<1>1. /\ wire = [i \in 1 .. Len(list) |-> Emitted(list[i])]
      /\ idx = Len(nlas) + 1
      /\ \A j \in 1 .. Len(nlas) : nlas[j] = list[j]
  BY DEF Echoes
<1>2. Len(list) \in Nat /\ Len(wire) = Len(list) BY <1>1
<1>3. idx \in 1 .. Len(list) BY <1>2, MemberRead
<1>4. list[idx] \in Proper /\ wire[idx] = Emitted(list[idx]) BY <1>1, <1>3
<1>5. Len(nlas) \in Nat BY DEF ListsInv
<1>6. \A tag, spent :
        LastBefore(nlas, Len(nlas) + 1, tag, spent) = LastBefore(list, idx, tag, spent)
  <2>1. idx \in Nat /\ \A j \in 1 .. idx - 1 : nlas[j] = list[j] BY <1>1, <1>5
  <2> QED BY <1>1, <2>1, LastSame
<1>7. \A tag, spent : \A i \in LastBefore(list, idx, tag, spent) : nlas[i] = list[i]
  BY <1>1, <1>5 DEF LastBefore
<1>8. Suits(nlas, list[idx]) BY <1>3, <1>6, <1>7 DEF Paired, Suits
<1> QED BY <1>3, <1>4, <1>8

(* A member that goes with what was read before it is not refused.         *)
LEMMA NotRefused ==
  ASSUME ParseInv, NEW r \in Proper, wire[idx] = Emitted(r), Suits(nlas, r)
  PROVE  ~Refuses
<1>1. /\ wire[idx].tag = r.tag
      /\ r.tag \notin {"Kind", "PortKind"} =>
           wire[idx].is = IF r.is = "Other" THEN r.raw ELSE r.is
  BY EmittedFields
<1>2. ~RefuseData
  <2> SUFFICES ASSUME RefuseData PROVE FALSE OBVIOUS
  <2>1. r.tag = "Data" /\ status = "parsing" BY <1>1 DEF RefuseData, Reads
  <2>2. link_info_kind # NoKind /\ r.is = DataVariant(link_info_kind) BY <2>1, DataUnder
  <2> QED BY <1>1, <2>1, <2>2 DEF RefuseData, DecodeMayFail
<1>3. ~RefuseXstats
  <2> SUFFICES ASSUME RefuseXstats PROVE FALSE OBVIOUS
  <2>1. r.tag = "Xstats" /\ status = "parsing" BY <1>1 DEF RefuseXstats, Reads
  <2> QED BY <2>1, DataUnder DEF RefuseXstats
<1>4. ~RefusePortData
  <2> SUFFICES ASSUME RefusePortData PROVE FALSE OBVIOUS
  <2>1. r.tag = "PortData" /\ status = "parsing" BY <1>1 DEF RefusePortData, Reads
  <2>2. link_info_port_kind # NoKind /\ r.is = PortVariant(link_info_port_kind)
    BY <2>1, DataUnder
  <2> QED BY <1>1, <2>1, <2>2 DEF RefusePortData, DecodeMayFail
<1>5. ~RefuseMalformed BY <1>1 DEF RefuseMalformed, Reads, Proper
<1> QED BY <1>2, <1>3, <1>4, <1>5 DEF Refuses

(* Every step carries on the echo of a paired list.                        *)
LEMMA EchoStep ==
  ASSUME ListsInv, ParseInv, NEW list \in Seq(Proper), Paired(list), Echoes(list)
  PROVE  /\ \A v \in Proper : (Pushes(v) /\ OnlySource(v)) => Echoes(list)'
         /\ ~Refuses
         /\ Return => Echoes(list)'
         /\ Emit => Echoes(list)'
<1>0. nlas \in Seq(Proper) /\ Len(nlas) \in Nat /\ Len(list) \in Nat BY DEF ListsInv
<1>1. ASSUME NEW v \in Proper, Pushes(v), OnlySource(v) PROVE Echoes(list)'
  <2>1. status = "parsing" /\ idx <= Len(wire) BY <1>1 DEF Pushes
  <2>2. v = list[idx] BY <1>1, <2>1, EchoMember DEF OnlySource
  <2>3. /\ wire = [i \in 1 .. Len(list) |-> Emitted(list[i])]
        /\ idx = Len(nlas) + 1
        /\ \A j \in 1 .. Len(nlas) : nlas[j] = list[j]
    BY <2>1 DEF Echoes
  <2>4. nlas' = Append(nlas, v) /\ idx' = idx + 1 /\ wire' = wire /\ status' = status
    BY <1>1 DEF Pushes
  <2>5. Len(nlas') = Len(nlas) + 1 /\ nlas'[Len(nlas) + 1] = v BY <1>0, <2>4
  <2>6. \A j \in 1 .. Len(nlas) : nlas'[j] = list[j] BY <1>0, <2>3, <2>4
  <2>7. \A j \in 1 .. Len(nlas') : nlas'[j] = list[j]
    BY <1>0, <2>2, <2>3, <2>5, <2>6
  <2> QED BY <1>0, <2>1, <2>3, <2>4, <2>5, <2>7 DEF Echoes
<1>2. ~Refuses
  <2>1. Refuses => status = "parsing" /\ idx <= Len(wire)
    BY DEF Refuses, RefuseData, RefuseXstats, RefusePortData, RefuseMalformed, Reads
  <2> QED BY <2>1, EchoMember, NotRefused
<1>3. ASSUME Return PROVE Echoes(list)'
  <2>1. /\ status = "parsing" /\ idx > Len(wire) /\ status' = "value" /\ nlas' = nlas
    BY <1>3 DEF Return
  <2>2. /\ wire = [i \in 1 .. Len(list) |-> Emitted(list[i])]
        /\ idx = Len(nlas) + 1
        /\ \A j \in 1 .. Len(nlas) : nlas[j] = list[j]
    BY <2>1 DEF Echoes
  <2>3. idx \in 1 .. Len(wire) + 1 BY DEF ListsInv
  <2>4. Len(wire) = Len(list) BY <1>0, <2>2
  <2>5. Len(nlas) = Len(list) BY <1>0, <2>1, <2>2, <2>3, <2>4
  <2>6. nlas = list BY <1>0, <2>2, <2>5
  <2> QED BY <2>1, <2>6 DEF Echoes
<1>4. ASSUME Emit PROVE Echoes(list)'
  <2>1. nlas = list BY <1>4 DEF Emit, Echoes
  <2>2. /\ wire' = [i \in 1 .. Len(list) |-> Emitted(list[i])]
        /\ idx' = 1 /\ nlas' = <<>> /\ status' = "parsing"
    BY <1>4, <2>1 DEF Emit
  <2> QED BY <2>2 DEF Echoes
<1> QED BY <1>1, <1>2, <1>3, <1>4
-----------------------------------------------------------------------------
(* The lists the constants allow consist of readable members and of values *)
(* decoding could return.                                                  *)
LEMMA ListsGiven ==
  ASSUME NamesGiven, MaxInfos \in Nat
  PROVE  Lists(WireItems) \subseteq Seq(Readable) /\ Lists(Values) \subseteq Seq(Proper)
<1>1. WireItems \subseteq Readable
  <2> SUFFICES ASSUME NEW w \in WireItems PROVE w \in Readable OBVIOUS
  <2>1. /\ {"Other", "", "broken"} \cup Names \cup PortNames \cup Layouts \cup PortLayouts
             \subseteq Words
        /\ Tags = {"Kind", "Data", "Xstats", "PortKind", "PortData", "Other", "Malformed"}
    BY DEF Words, Layouts, Tags
  <2>2. \/ \E n \in Names : w = Item("Kind", n)
        \/ \E l \in Layouts : w = Item("Data", l)
        \/ \E n \in PortNames : w = Item("PortKind", n)
        \/ \E l \in PortLayouts : w = Item("PortData", l)
        \/ w \in {Item("Xstats", "broken"), Item("Other", "broken"), Item("Malformed", "")}
    BY DEF WireItems
  <2>3. \A n \in Names : Item("Kind", n) \in Readable BY <2>1 DEF Readable, Item
  <2>4. \A n \in PortNames : Item("PortKind", n) \in Readable BY <2>1 DEF Readable, Item
  <2>5. \A l \in Layouts : Item("Data", l) \in Readable BY <2>1 DEF Readable, Item
  <2>6. \A l \in PortLayouts : Item("PortData", l) \in Readable BY <2>1 DEF Readable, Item
  <2>7. /\ Item("Xstats", "broken") \in Readable /\ Item("Other", "broken") \in Readable
        /\ Item("Malformed", "") \in Readable
    BY <2>1 DEF Readable, Item
  <2> QED BY <2>2, <2>3, <2>4, <2>5, <2>6, <2>7
<1>2. Values \subseteq Proper
  <2> SUFFICES ASSUME NEW v \in Values PROVE v \in Proper OBVIOUS
  <2>1. /\ {"Other", "", "broken"} \cup Kinds \cup PortKinds \cup Layouts \cup PortLayouts
             \subseteq Words
        /\ Tags = {"Kind", "Data", "Xstats", "PortKind", "PortData", "Other", "Malformed"}
    BY DEF Words, Layouts, Tags
  <2>2. \/ \E k \in Kinds \ {NoKind} : v = Value("Kind", k, "")
        \/ \E k \in PortKinds \ {NoKind} : v = Value("PortKind", k, "")
        \/ \E l \in Layouts : v = Value("Data", l, "") /\ l # "Other"
        \/ \E l \in PortLayouts : v = Value("PortData", l, "") /\ l # "Other"
        \/ v \in {Value("Data", "Other", "broken"), Value("PortData", "Other", "broken"),
                  Value("Xstats", "Other", "broken"), Value("Other", "Other", "broken")}
    BY KindsGiven DEF Values
  <2>3. \A k \in Kinds \ {NoKind} : Value("Kind", k, "") \in Proper
    BY <2>1 DEF Proper, Value
  <2>4. \A k \in PortKinds \ {NoKind} : Value("PortKind", k, "") \in Proper
    BY <2>1 DEF Proper, Value
  <2>5. \A l \in Layouts : l # "Other" => Value("Data", l, "") \in Proper
    BY <2>1 DEF Proper, Value
  <2>6. \A l \in PortLayouts : l # "Other" => Value("PortData", l, "") \in Proper
    BY <2>1 DEF Proper, Value
  <2>7. /\ Value("Data", "Other", "broken") \in Proper
        /\ Value("PortData", "Other", "broken") \in Proper
        /\ Value("Xstats", "Other", "broken") \in Proper
        /\ Value("Other", "Other", "broken") \in Proper
    BY <2>1 DEF Proper, Value
  <2> QED BY <2>2, <2>3, <2>4, <2>5, <2>6, <2>7
<1>3. \A S, T : S \subseteq T => Lists(S) \subseteq Seq(T)
  BY DEF Lists
<1> QED BY <1>1, <1>2, <1>3

(* Initially nothing has been read, or the caller's list is at hand.       *)
LEMMA InitIInv ==
  ASSUME NamesGiven, MaxInfos \in Nat
  PROVE  Init => IInv
<1> SUFFICES ASSUME Init PROVE IInv OBVIOUS
<1>1. NoKind \in Kinds /\ NoKind \in PortKinds BY DEF Kinds, PortKinds
<1>2. ListsInv
  <2>1. <<>> \in Seq(Readable) /\ <<>> \in Seq(Proper) /\ Len(<<>>) = 0 OBVIOUS
  <2>2. wire \in Seq(Readable) /\ nlas \in Seq(Proper) /\ built \in Seq(Proper) \cup {None}
    BY <2>1, ListsGiven DEF Init
  <2>3. Len(wire) \in Nat /\ idx = 1 BY <2>2 DEF Init
  <2>4. idx \in 1 .. Len(wire) + 1 BY <2>3
  <2> QED BY <1>1, <2>2, <2>4 DEF Init, ListsInv
<1>3. ParseInv
  <2>1. \A tag, spent : LastBefore(<<>>, 1, tag, spent) = {} BY DEF LastBefore
  <2>2. status = "parsing" => nlas = <<>> BY DEF Init
  <2> QED BY <2>1, <2>2 DEF Init, ParseInv, Paired, Remembers
<1>4. UnderKind BY DEF Init, UnderKind
<1>5. EchoInv BY DEF Init, EchoInv, Echoes
<1> QED BY <1>2, <1>3, <1>4, <1>5 DEF IInv

(* Every step preserves the invariant.                                     *)
LEMMA NextIInv ==
  ASSUME NamesGiven
  PROVE  IInv /\ [Next]_vars => IInv'
<1> SUFFICES ASSUME IInv, [Next]_vars PROVE IInv' OBVIOUS
<1> USE DEF IInv
<1>0. /\ wire \in Seq(Readable) /\ nlas \in Seq(Proper) /\ idx \in 1 .. Len(wire) + 1
      /\ Len(wire) \in Nat /\ Len(nlas) \in Nat
  BY DEF ListsInv
<1>1. /\ built # None => built \in Seq(Proper)
      /\ seen # None => seen \in Seq(Proper) /\ Paired(seen)
  BY DEF ListsInv, UnderKind
<1>2. ASSUME NEW v \in Proper, Pushes(v), Suits(nlas, v), OnlySource(v) PROVE IInv'
  <2>1. /\ status = "parsing" /\ idx <= Len(wire) /\ idx' = idx + 1
        /\ nlas' = Append(nlas, v) /\ UNCHANGED <<wire, built, seen, status>>
    BY <1>2 DEF Pushes
  <2>2. /\ v.tag = "Kind" => v.is \in Kinds \ {NoKind}
        /\ v.tag = "PortKind" => v.is \in PortKinds \ {NoKind}
        /\ NoKind \in PortKinds
    BY DEF Proper, PortKinds
  <2>3. nlas' \in Seq(Proper) /\ idx' \in 1 .. Len(wire') + 1 BY <1>0, <2>1
  <2>4. link_info_kind' \in Kinds /\ link_info_port_kind' \in PortKinds
    BY <1>2, <2>2 DEF ListsInv, Pushes
  <2>5. ListsInv' BY <2>1, <2>3, <2>4 DEF ListsInv
  <2>6. ParseInv'
    <3>1. Paired(nlas') BY <1>0, <1>2, <2>1, PairedAppend DEF ParseInv
    <3>2. Remembers(nlas', "Kind", {}, link_info_kind')
      <4>1. Remembers(Append(nlas, v), "Kind", {},
                      IF v.tag = "Kind" THEN v.is
                      ELSE IF v.tag \in {} THEN NoKind ELSE link_info_kind)
        BY <1>0, <2>1, <2>2, RemembersAppend DEF ParseInv
      <4>2. link_info_kind' = IF v.tag = "Kind" THEN v.is ELSE link_info_kind
        BY <1>2 DEF Pushes
      <4> QED BY <2>1, <4>1, <4>2
    <3>3. Remembers(nlas', "PortKind", {"PortData"}, link_info_port_kind')
      <4>1. Remembers(Append(nlas, v), "PortKind", {"PortData"},
                      IF v.tag = "PortKind" THEN v.is
                      ELSE IF v.tag \in {"PortData"} THEN NoKind ELSE link_info_port_kind)
        BY <1>0, <2>1, <2>2, RemembersAppend DEF ParseInv
      <4>2. link_info_port_kind' =
              IF v.tag = "PortKind" THEN v.is
              ELSE IF v.tag \in {"PortData"} THEN NoKind ELSE link_info_port_kind
        BY <1>2 DEF Pushes
      <4> QED BY <2>1, <4>1, <4>2
    <3> QED BY <3>1, <3>2, <3>3 DEF ParseInv
  <2>7. UnderKind' BY <2>1 DEF UnderKind
  <2>8. EchoInv'
    <3>1. (built # None /\ Paired(built)) => Echoes(built)'
      BY <1>1, <1>2, <2>1, EchoStep DEF EchoInv
    <3>2. seen # None => Echoes(seen)'
      BY <1>1, <1>2, <2>1, EchoStep DEF EchoInv
    <3> QED BY <2>1, <3>1, <3>2 DEF EchoInv
  <2> QED BY <2>5, <2>6, <2>7, <2>8
<1>3. ASSUME Refuses PROVE IInv'
  <2>1. /\ status = "parsing" /\ idx <= Len(wire) /\ idx' = idx + 1 /\ status' = "err"
        /\ UNCHANGED <<wire, built, seen, link_info_kind, link_info_port_kind, nlas>>
    BY <1>3 DEF Refuses, RefuseData, RefuseXstats, RefusePortData, RefuseMalformed, Reads,
                Fail
  <2>2. idx' \in 1 .. Len(wire') + 1 BY <1>0, <2>1
  <2>3. ListsInv' BY <2>1, <2>2 DEF ListsInv
  <2>4. seen = None /\ ~(built # None /\ Paired(built))
    BY <1>1, <1>3, EchoStep DEF EchoInv
  <2> QED BY <2>1, <2>3, <2>4 DEF ParseInv, UnderKind, EchoInv
<1>4. ASSUME Return PROVE IInv'
  <2>1. /\ status = "parsing" /\ status' = "value"
        /\ seen' = IF seen = None THEN nlas ELSE seen
        /\ UNCHANGED <<wire, idx, link_info_kind, link_info_port_kind, nlas, built>>
    BY <1>4 DEF Return
  <2>2. ListsInv' BY <2>1 DEF ListsInv
  <2>3. ParseInv' BY <2>1 DEF ParseInv
  <2>4. Paired(nlas) BY <2>1 DEF ParseInv
  <2>5. UnderKind' BY <2>1, <2>4 DEF UnderKind
  <2>6. (built # None /\ Paired(built)) => Echoes(built)'
    BY <1>1, <1>4, EchoStep, <2>1 DEF EchoInv
  <2>7. Echoes(seen)'
    <3>1. CASE seen = None BY <2>1, <3>1 DEF Echoes
    <3>2. CASE seen # None
      <4>1. seen' = seen BY <2>1, <3>2
      <4>2. Echoes(seen)' BY <1>1, <1>4, <3>2, <4>1, EchoStep DEF EchoInv
      <4> QED BY <4>2
    <3> QED BY <3>1, <3>2
  <2>8. EchoInv' BY <2>1, <2>6, <2>7 DEF EchoInv
  <2> QED BY <2>2, <2>3, <2>5, <2>8
<1>5. ASSUME Emit PROVE IInv'
  <2>1. /\ status = "value" /\ status' = "parsing"
        /\ wire' = [i \in 1 .. Len(nlas) |-> Emitted(nlas[i])]
        /\ idx' = 1 /\ nlas' = <<>>
        /\ link_info_kind' = NoKind /\ link_info_port_kind' = NoKind
        /\ UNCHANGED <<built, seen>>
    BY <1>5 DEF Emit
  <2>2. wire' \in Seq(Readable) /\ Len(wire') \in Nat
    <3>1. \A i \in 1 .. Len(nlas) : Emitted(nlas[i]) \in Readable
      BY <1>0, EmittedReadable
    <3> QED BY <1>0, <2>1, <3>1
  <2>3. ListsInv'
    <3>1. idx' \in 1 .. Len(wire') + 1 BY <2>1, <2>2
    <3>2. nlas' \in Seq(Proper) BY <2>1
    <3>3. NoKind \in Kinds /\ NoKind \in PortKinds BY DEF Kinds, PortKinds
    <3> QED BY <2>1, <2>2, <3>1, <3>2, <3>3 DEF ListsInv
  <2>4. ParseInv'
    <3>1. \A tag, spent : LastBefore(<<>>, 1, tag, spent) = {} BY DEF LastBefore
    <3> QED BY <2>1, <3>1 DEF ParseInv, Paired, Remembers
  <2>5. UnderKind' BY <2>1 DEF UnderKind
  <2>6. EchoInv'
    <3>1. (built # None /\ Paired(built)) => Echoes(built)'
      BY <1>1, <1>5, <2>1, EchoStep DEF EchoInv
    <3>2. seen # None => Echoes(seen)'
      BY <1>1, <1>5, <2>1, EchoStep DEF EchoInv
    <3> QED BY <2>1, <3>1, <3>2 DEF EchoInv
  <2> QED BY <2>3, <2>4, <2>5, <2>6
<1>6. ASSUME UNCHANGED vars PROVE IInv'
  <2>1. ListsInv' BY <1>6 DEF ListsInv, vars
  <2>2. ParseInv' /\ UnderKind' BY <1>6 DEF ParseInv, UnderKind, vars
  <2>3. EchoInv' BY <1>6 DEF EchoInv, Echoes, vars
  <2> QED BY <2>1, <2>2, <2>3
<1>7. ASSUME NEW v \in Proper, Pushes(v) /\ Suits(nlas, v) /\ OnlySource(v) PROVE IInv'
  BY <1>2, <1>7
<1> QED
  BY <1>3, <1>4, <1>5, <1>6, <1>7, ReadKindPushes, ReadDataPushes, ReadBytesPushes,
     ReadPortKindPushes, ReadPortDataPushes
     DEF Next, Refuses

(* The invariant gives the properties.                                     *)
LEMMA IInvGives == IInv => TypeOK /\ UnderKind /\ RoundTrip /\ Stable
<1> SUFFICES ASSUME IInv PROVE TypeOK /\ UnderKind /\ RoundTrip /\ Stable OBVIOUS
<1>1. \A S, T : S \subseteq T => \A l \in Seq(S) : Range(l) \subseteq T BY DEF Range
<1>2. /\ \A l \in Seq(Proper) : IsList(l)
      /\ \A l \in Seq(Readable) : Range(l) \subseteq [tag : Tags, is : Words]
  BY <1>1 DEF IsList, Proper, Readable
<1>3. TypeOK BY <1>2 DEF IInv, ListsInv, TypeOK
<1>4. UnderKind /\ RoundTrip /\ Stable
  BY DEF IInv, UnderKind, RoundTrip, Stable, EchoInv, Echoes
<1> QED BY <1>3, <1>4
-----------------------------------------------------------------------------
(* The iterator never leaves the list, and VecLinkInfo::parse remembers    *)
(* kinds that were parsed, never names.                                    *)
THEOREM TypeOKHolds == ASSUME NamesGiven, MaxInfos \in Nat PROVE Spec => []TypeOK
<1>1. Init => IInv BY InitIInv
<1>2. IInv /\ [Next]_vars => IInv' BY NextIInv
<1> QED BY <1>1, <1>2, IInvGives, PTL DEF Spec

(* In every list VecLinkInfo::parse returns, IFLA_INFO_DATA has the        *)
(* variant of the nearest kind in front of it, and IFLA_INFO_PORT_DATA     *)
(* that of a port kind of its own.                                         *)
THEOREM UnderKindHolds == ASSUME NamesGiven, MaxInfos \in Nat PROVE Spec => []UnderKind
<1>1. Init => IInv BY InitIInv
<1>2. IInv /\ [Next]_vars => IInv' BY NextIInv
<1> QED BY <1>1, <1>2, IInvGives, PTL DEF Spec

(* A caller's list whose data goes with its kinds is never refused, and    *)
(* what VecLinkInfo::parse returns is the list that was emitted.           *)
THEOREM RoundTripHolds == ASSUME NamesGiven, MaxInfos \in Nat PROVE Spec => []RoundTrip
<1>1. Init => IInv BY InitIInv
<1>2. IInv /\ [Next]_vars => IInv' BY NextIInv
<1> QED BY <1>1, <1>2, IInvGives, PTL DEF Spec

(* Whatever VecLinkInfo::parse once returned, foreign data decoded by      *)
(* mistake included, it returns again from the emission of it.             *)
THEOREM StableHolds == ASSUME NamesGiven, MaxInfos \in Nat PROVE Spec => []Stable
<1>1. Init => IInv BY InitIInv
<1>2. IInv /\ [Next]_vars => IInv' BY NextIInv
<1> QED BY <1>1, <1>2, IInvGives, PTL DEF Spec
=============================================================================
