----------------------------- MODULE MdbEntries -----------------------------
(***************************************************************************)
(* MdbMessage::entries (mdb/message.rs, mdb/entry.rs): the entries of the  *)
(* multicast database, read on demand from the MDBA_MDB attributes that    *)
(* the decoder of the message has kept as bytes.  Three nested iterators,  *)
(* all of them lenient: a sub-attribute that is malformed or too short is  *)
(* passed over, and an iterator that meets a malformed header is spent.    *)
(*                                                                         *)
(* A message is a sequence of [tag, entries] (tag "MdbEntry" or "Other"),  *)
(* an entry is [tag, infos], an info [tag, size, proto, fixed, eattrs] and *)
(* an eattr [tag, val].  The tag "Malformed" is a header that fails        *)
(* NlaBuffer::new_checked.  A val is a value or "wrong" for one of the     *)
(* wrong length; fixed stands for the port, state, flags and VLAN.         *)
(***************************************************************************)
EXTENDS Integers, Sequences, FiniteSets

CONSTANTS
  Vals,       \* addresses and VNIs that occur
  MaxEattrs,  \* most eattrs of an info
  MaxInfos,   \* most infos of an entry, and entries of an attribute
  MaxAttrs    \* most attributes of a message

ETH_P_IP == 2048
ETH_P_IPV6 == 34525

VARIABLES
  msg,     \* the attributes of the message
  level,   \* the innermost loop: "attributes", "entries", "infos", "eattrs", "done"
  at,      \* where each of the loops stands
  source, dst, vni,   \* local variables of parse_entry_info
  out      \* the Vec<MdbEntry>

vars == <<msg, level, at, source, dst, vni, out>>

Lists(S, n) == UNION {[1 .. k -> S] : k \in 0 .. n}

Eattrs ==
  [tag : {"SOURCE", "DST", "VNI", "SRC_VNI"}, val : Vals \cup {"wrong"}]
    \cup [tag : {"Other", "Malformed"}, val : {"wrong"}]

Info(tag, size, proto, fixed, eattrs) ==
  [tag |-> tag, size |-> size, proto |-> proto, fixed |-> fixed, eattrs |-> eattrs]
Whole(fixed, eattrs) == Info("Info", 28, ETH_P_IP, fixed, eattrs)

(* Messages with one info of any contents, and messages of any shape.      *)
OneInfo ==
  {<<[tag |-> "MdbEntry", entries |-> <<[tag |-> "Entry", infos |-> <<info>>]>>]>> :
     info \in [tag : {"Info"}, size : {28}, proto : {ETH_P_IP, ETH_P_IPV6, 0}, fixed : {1},
               eattrs : Lists(Eattrs, MaxEattrs)]}

SomeSource == <<[tag |-> "SOURCE", val |-> CHOOSE v \in Vals : TRUE]>>
SomeInfos ==
  {Whole(1, SomeSource), Whole(2, <<>>), Info("Info", 27, ETH_P_IP, 1, <<>>),
   Info("Other", 28, 0, 1, SomeSource), Info("Malformed", 0, 0, 1, <<>>)}
SomeEntries ==
  [tag : {"Entry"}, infos : Lists(SomeInfos, MaxInfos)]
    \cup [tag : {"Other", "Malformed"}, infos : {<<Whole(1, SomeSource)>>}]
FewEntries ==
  {<<>>, <<[tag |-> "Malformed", infos |-> <<>>]>>,
   <<[tag |-> "Entry", infos |-> <<Whole(2, <<>>)>>]>>}
FirstAttrs == [tag : {"MdbEntry", "Other"}, entries : Lists(SomeEntries, MaxInfos)]
LaterAttrs == [tag : {"MdbEntry"}, entries : FewEntries]

Init ==
  /\ \/ msg \in OneInfo
     \/ \E a \in FirstAttrs, rest \in Lists(LaterAttrs, MaxAttrs - 1) : msg = <<a>> \o rest
  /\ level = "attributes"
  /\ at = [attributes |-> 1, entries |-> 1, infos |-> 1, eattrs |-> 1]
  /\ source = "None" /\ dst = "None" /\ vni = "None"
  /\ out = <<>>
-----------------------------------------------------------------------------
Outer == [entries |-> "attributes", infos |-> "entries", eattrs |-> "infos"]

(* What the loop of a level walks over.                                    *)
Listed(lv) ==
  LET attr == msg[at.attributes]
      entry == attr.entries[at.entries]
      info == entry.infos[at.infos]
  IN CASE lv = "attributes" -> msg
       [] lv = "entries" -> attr.entries
       [] lv = "infos" -> entry.infos
       [] lv = "eattrs" -> info.eattrs

Here == Listed(level)[at[level]]
More == at[level] <= Len(Listed(level))

(* Faulty: a malformed header is met again and again (Ends).               *)
StepStuck == [at EXCEPT ![level] = IF Here.tag = "Malformed" THEN @ ELSE @ + 1]

(* NlasIterator::next: behind a malformed header the iterator is spent.    *)
Step ==
  [at EXCEPT ![level] = IF Here.tag = "Malformed" THEN Len(Listed(level)) + 1 ELSE @ + 1]

(* An element that is passed over: not the kind the loop is looking for,   *)
(* malformed, or an info shorter than its fixed part.                      *)
Wanted ==
  CASE level = "attributes" -> Here.tag = "MdbEntry"
    [] level = "entries" -> Here.tag = "Entry"
    [] level = "infos" -> Here.tag = "Info" /\ Here.size >= 28

Skip ==
  /\ level \in {"attributes", "entries", "infos"} /\ More
  /\ ~Wanted
  /\ at' = Step
  /\ UNCHANGED <<msg, level, source, dst, vni, out>>

EnterAttribute ==
  /\ level = "attributes" /\ More /\ Wanted
  /\ level' = "entries"
  /\ at' = [at EXCEPT !.entries = 1]
  /\ UNCHANGED <<msg, source, dst, vni, out>>

EnterEntry ==
  /\ level = "entries" /\ More /\ Wanted
  /\ level' = "infos"
  /\ at' = [at EXCEPT !.infos = 1]
  /\ UNCHANGED <<msg, source, dst, vni, out>>

(* Faulty: the variables outlive the info (ReadAsSent).                    *)
EnterInfoStale ==
  /\ level = "infos" /\ More /\ Wanted
  /\ level' = "eattrs"
  /\ at' = [at EXCEPT !.eattrs = 1]
  /\ UNCHANGED <<msg, source, dst, vni, out>>

(* parse_entry_info: the fixed part is read and the variables are None.    *)
EnterInfo ==
  /\ level = "infos" /\ More /\ Wanted
  /\ level' = "eattrs"
  /\ at' = [at EXCEPT !.eattrs = 1]
  /\ source' = "None" /\ dst' = "None" /\ vni' = "None"
  /\ UNCHANGED <<msg, out>>

(* The end of an inner list of attributes.                                 *)
Leave ==
  /\ level \in {"entries", "infos"}
  /\ ~More
  /\ level' = Outer[level]
  /\ at' = [at EXCEPT ![Outer[level]] = @ + 1]
  /\ UNCHANGED <<msg, source, dst, vni, out>>

(* ip_from_nla: None for a wrong length.                                   *)
IpFromNla(val) == IF val = "wrong" THEN "None" ELSE val

(* SOURCE and DST are assigned whatever ip_from_nla returns; VNI and       *)
(* SRC_VNI share a variable, and one of the wrong length leaves it alone.  *)
ReadEattr ==
  /\ level = "eattrs" /\ More
  /\ source' = IF Here.tag = "SOURCE" THEN IpFromNla(Here.val) ELSE source
  /\ dst' = IF Here.tag = "DST" THEN IpFromNla(Here.val) ELSE dst
  /\ vni' = IF Here.tag \in {"VNI", "SRC_VNI"} /\ Here.val # "wrong" THEN Here.val ELSE vni
  /\ at' = Step
  /\ UNCHANGED <<msg, level, out>>

(* The group is an IPv4 or IPv6 address, or a MAC, as proto says.          *)
MdbGroup(proto) ==
  CASE proto = ETH_P_IP -> "V4" [] proto = ETH_P_IPV6 -> "V6" [] OTHER -> "Mac"

PushEntry ==
  /\ level = "eattrs" /\ ~More
  /\ LET info == Listed("infos")[at.infos]
     IN out' = Append(out, [fixed |-> info.fixed, group |-> MdbGroup(info.proto),
                            source |-> source, dst |-> dst, vni |-> vni])
  /\ level' = "infos"
  /\ at' = [at EXCEPT !.infos = @ + 1]
  /\ UNCHANGED <<msg, source, dst, vni>>

Return ==
  /\ level = "attributes" /\ ~More
  /\ level' = "done"
  /\ UNCHANGED <<msg, at, source, dst, vni, out>>

Next ==
  \/ Skip \/ EnterAttribute \/ EnterEntry \/ EnterInfo \/ Leave
  \/ ReadEattr \/ PushEntry \/ Return

Spec == Init /\ [][Next]_vars

(* One thread and no call that blocks.                                     *)
FairSpec == Spec /\ WF_vars(Next)
-----------------------------------------------------------------------------
Maybe == Vals \cup {"None"}

(* Loops stand inside their lists or just behind them.                     *)
TypeOK ==
  /\ level \in {"attributes", "entries", "infos", "eattrs", "done"}
  /\ source \in Maybe /\ dst \in Maybe /\ vni \in Maybe
  /\ level # "done" => at[level] \in 1 .. Len(Listed(level)) + 1
  /\ \A k \in 1 .. Len(out) :
       out[k] \in [fixed : {1, 2}, group : {"V4", "V6", "Mac"},
                   source : Maybe, dst : Maybe, vni : Maybe]

(* The places of a list in front of the first malformed header.            *)
Front(list) == {k \in 1 .. Len(list) : \A j \in 1 .. k : list[j].tag # "Malformed"}

InfoAt(p) == msg[p[1]].entries[p[2]].infos[p[3]]

(* The infos of a message, by attribute, entry and place in the entry.     *)
InfosOf ==
  {p \in (1 .. Len(msg)) \X (1 .. MaxInfos) \X (1 .. MaxInfos) :
     /\ msg[p[1]].tag = "MdbEntry"
     /\ p[2] \in Front(msg[p[1]].entries)
     /\ msg[p[1]].entries[p[2]].tag = "Entry"
     /\ p[3] \in Front(msg[p[1]].entries[p[2]].infos)
     /\ InfoAt(p).tag = "Info" /\ InfoAt(p).size >= 28}

(* Those that stand no further back on the wire than p.                    *)
UpTo(p) ==
  {q \in InfosOf : \/ q[1] < p[1]
                   \/ q[1] = p[1] /\ (q[2] < p[2] \/ (q[2] = p[2] /\ q[3] <= p[3]))}

(* The eattrs that assign source, dst and vni, and the ones that would if  *)
(* a wrong length were skipped.                                            *)
Tagged(tags) == {x \in Eattrs : x.tag \in tags}
Right(tags) == {x \in Tagged(tags) : x.val # "wrong"}

(* The last eattr in front of anything malformed that is one of some.      *)
LastVal(list, some) ==
  LET found == {k \in Front(list) : list[k] \in some}
  IN IF found = {} THEN "None"
     ELSE list[CHOOSE k \in found : \A j \in found : j <= k].val

Expected(info) ==
  [fixed |-> info.fixed, group |-> MdbGroup(info.proto),
   source |-> IpFromNla(LastVal(info.eattrs, Tagged({"SOURCE"}))),
   dst |-> IpFromNla(LastVal(info.eattrs, Tagged({"DST"}))),
   vni |-> LastVal(info.eattrs, Right({"VNI", "SRC_VNI"}))]

(* The three loops compute what can be said without loops: one entry for   *)
(* every info that is long enough and that no malformed header hides, in   *)
(* the order of the wire, each from its own eattrs only.  At any time the  *)
(* entries so far are the first of these.                                  *)
ReadAsSent ==
  /\ Len(out) <= Cardinality(InfosOf)
  /\ \A p \in InfosOf :
       LET rank == Cardinality(UpTo(p))
       IN rank <= Len(out) => out[rank] = Expected(InfoAt(p))
  /\ level = "done" => Len(out) = Cardinality(InfosOf)

(* All three iterators come to an end.                                     *)
Ends == <>(level = "done")

(* entry.rs: "Malformed sub-attributes are skipped rather than failing the *)
(* whole decode".  Skipped, a source or destination of the wrong length    *)
(* would leave the one in front of it alone.                               *)
MalformedSkipped ==
  \A p \in InfosOf :
    LET rank == Cardinality(UpTo(p))
    IN rank <= Len(out) =>
         /\ out[rank].source = LastVal(InfoAt(p).eattrs, Right({"SOURCE"}))
         /\ out[rank].dst = LastVal(InfoAt(p).eattrs, Right({"DST"}))
=============================================================================
