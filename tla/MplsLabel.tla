----------------------------- MODULE MplsLabel -----------------------------
(***************************************************************************)
(* MPLS label stack entries (route/mpls.rs): four fields packed into one   *)
(* word by shifts that nothing masks,                                      *)
(*                                                                         *)
(*     v.label << LABEL_SHIFT | (v.traffic_class as u32) << TC_SHIFT       *)
(*       | (v.bottom_of_stack as u32) << S_SHIFT | v.ttl as u32            *)
(*                                                                         *)
(* and unpacked by masks and shifts back.  A word is the set of its bits   *)
(* that are one, so that | is union, & intersection and a shift a          *)
(* translation.  The widths are parameters; in the code the label has 20   *)
(* bits, the class 3 in a u8, and the time to live 8.                      *)
(***************************************************************************)
EXTENDS Integers, Sequences

CONSTANTS
  LabelBits,   \* bits of the label in the word
  TcBits,      \* bits of the traffic class in the word
  ClassBits,   \* bits of the Rust type of traffic_class
  TtlBits,     \* bits of the time to live, in the word and in Rust
  MaxStack     \* longest stack, from a caller or the wire

MPLS_LS_S_SHIFT == TtlBits
MPLS_LS_TC_SHIFT == TtlBits + 1
MPLS_LS_LABEL_SHIFT == TtlBits + 1 + TcBits
WordBits == TtlBits + 1 + TcBits + LabelBits

Bits == 0 .. WordBits - 1
MPLS_LS_LABEL_MASK == MPLS_LS_LABEL_SHIFT .. WordBits - 1
MPLS_LS_TC_MASK == MPLS_LS_TC_SHIFT .. MPLS_LS_LABEL_SHIFT - 1
MPLS_LS_S_MASK == {MPLS_LS_S_SHIFT}
MPLS_LS_TTL_MASK == 0 .. TtlBits - 1

(* u32 << n and u32 >> n.                                                  *)
Shl(word, n) == {b \in Bits : b - n \in word}
Shr(word, n) == {b \in Bits : b + n \in word}

(* MplsLabel: label is a u32, traffic_class a u8.                          *)
Labels ==
  [label : SUBSET Bits, traffic_class : SUBSET (0 .. ClassBits - 1),
   bottom_of_stack : BOOLEAN, ttl : SUBSET MPLS_LS_TTL_MASK]

(* The fields fit into the word.                                           *)
InRange(v) ==
  /\ v.label \subseteq 0 .. LabelBits - 1
  /\ v.traffic_class \subseteq 0 .. TcBits - 1

VARIABLES
  built,    \* the stack of a caller, <<>> if it came from the wire
  origin,   \* "caller" or "wire"
  labels,   \* the Vec<MplsLabel> being emitted or filled
  words,    \* the payload, in words
  tail,     \* bytes of an incomplete word behind them
  i,        \* entries the loop has done
  status    \* "emitting", "parsing" or "value"

vars == <<built, origin, labels, words, tail, i, status>>

Lists(S, n) == UNION {[1 .. k -> S] : k \in 0 .. n}

Proper == {v \in Labels : InRange(v)}

(* A caller's stack is of any values, one on top of entries in range.      *)
Init ==
  /\ \/ /\ origin = "caller" /\ status = "emitting"
        /\ \/ built = <<>>
           \/ \E v \in Labels, rest \in Lists(Proper, MaxStack - 1) : built = <<v>> \o rest
        /\ labels = built
        /\ words = <<>> /\ tail = 0
     \/ /\ origin = "wire" /\ status = "parsing"
        /\ built = <<>> /\ labels = <<>>
        /\ words \in Lists(SUBSET Bits, MaxStack)
        /\ tail \in 0 .. 3
  /\ i = 0
-----------------------------------------------------------------------------
(* Faulty: the class is shifted to where the bottom of stack is            *)
(* (DamageBounded).                                                        *)
ToWordLowClass(v) ==
  Shl(v.label, MPLS_LS_LABEL_SHIFT)
    \cup Shl(v.traffic_class, MPLS_LS_S_SHIFT)
    \cup Shl(IF v.bottom_of_stack THEN {0} ELSE {}, MPLS_LS_S_SHIFT)
    \cup v.ttl

(* From<MplsLabel> for u32.                                                *)
ToWord(v) ==
  Shl(v.label, MPLS_LS_LABEL_SHIFT)
    \cup Shl(v.traffic_class, MPLS_LS_TC_SHIFT)
    \cup Shl(IF v.bottom_of_stack THEN {0} ELSE {}, MPLS_LS_S_SHIFT)
    \cup v.ttl

(* Faulty: the mask of the class is one bit short (RoundTrip).             *)
FromWordNarrow(d) ==
  [label |-> Shr(d \cap MPLS_LS_LABEL_MASK, MPLS_LS_LABEL_SHIFT),
   traffic_class |->
     Shr(d \cap (MPLS_LS_TC_MASK \ {MPLS_LS_LABEL_SHIFT - 1}), MPLS_LS_TC_SHIFT),
   bottom_of_stack |-> d \cap MPLS_LS_S_MASK # {},
   ttl |-> d \cap MPLS_LS_TTL_MASK]

(* Faulty: the label keeps what is below it (TypeOK, Resent).              *)
FromWordUnmasked(d) ==
  [label |-> d,
   traffic_class |-> Shr(d, MPLS_LS_TC_SHIFT),
   bottom_of_stack |-> d \cap MPLS_LS_S_MASK # {},
   ttl |-> d \cap MPLS_LS_TTL_MASK]

(* From<u32> for MplsLabel.                                                *)
FromWord(d) ==
  [label |-> Shr(d \cap MPLS_LS_LABEL_MASK, MPLS_LS_LABEL_SHIFT),
   traffic_class |-> Shr(d \cap MPLS_LS_TC_MASK, MPLS_LS_TC_SHIFT),
   bottom_of_stack |-> d \cap MPLS_LS_S_MASK # {},
   ttl |-> d \cap MPLS_LS_TTL_MASK]
-----------------------------------------------------------------------------
(* VecMplsLabel::emit, one entry.                                          *)
EmitLabel ==
  /\ status = "emitting"
  /\ i < Len(labels)
  /\ words' = Append(words, ToWord(labels[i + 1]))
  /\ i' = i + 1
  /\ UNCHANGED <<built, origin, labels, tail, status>>

Deliver ==
  /\ status = "emitting"
  /\ i = Len(labels)
  /\ status' = "parsing"
  /\ labels' = <<>>
  /\ i' = 0
  /\ UNCHANGED <<built, origin, words, tail>>

(* VecMplsLabel::parse, one round of `while i + 4 <= payload.len()`.       *)
ParseLabel ==
  /\ status = "parsing"
  /\ i < Len(words)
  /\ labels' = Append(labels, FromWord(words[i + 1]))
  /\ i' = i + 1
  /\ UNCHANGED <<built, origin, words, tail, status>>

(* Less than a word is left; it is dropped.                                *)
Return ==
  /\ status = "parsing"
  /\ i = Len(words)
  /\ status' = "value"
  /\ UNCHANGED <<built, origin, labels, words, tail, i>>

Next == EmitLabel \/ Deliver \/ ParseLabel \/ Return

Spec == Init /\ [][Next]_vars
-----------------------------------------------------------------------------
(* Labels and words have the width of their Rust types.                    *)
TypeOK ==
  /\ built \in Seq(Labels)
  /\ origin \in {"caller", "wire"}
  /\ labels \in Seq(Labels)
  /\ words \in Seq(SUBSET Bits)
  /\ tail \in 0 .. 3
  /\ i \in Nat
  /\ status \in {"emitting", "parsing", "value"}

(* Every entry whose fields fit comes back as it was built, whatever the   *)
(* other entries of the stack are.                                         *)
RoundTrip ==
  (status = "value" /\ origin = "caller") =>
    /\ Len(labels) = Len(built)
    /\ \A k \in 1 .. Len(built) : InRange(built[k]) => labels[k] = built[k]

(* What a class or a label that does not fit does to an entry: the high    *)
(* bits of the label are lost and the high bits of the class are ORed into *)
(* the label.  The rest of the class, the bottom of stack and the time to  *)
(* live survive, so that damage stays in the one field.                    *)
DamageBounded ==
  (status = "value" /\ origin = "caller") =>
    \A k \in 1 .. Len(built) :
      LET v == built[k]
          w == labels[k]
      IN /\ w.ttl = v.ttl
         /\ w.bottom_of_stack = v.bottom_of_stack
         /\ w.traffic_class = v.traffic_class \cap 0 .. TcBits - 1
         /\ w.label = (v.label \cap 0 .. LabelBits - 1)
                        \cup {b \in 0 .. LabelBits - 1 : b + TcBits \in v.traffic_class}

(* Decoding loses no bit: the entries decoded from the wire are in range   *)
(* and would be emitted as the words they came from.                       *)
Resent ==
  \A k \in 1 .. Len(labels) :
    (origin = "wire" \/ status # "emitting") =>
      InRange(labels[k]) /\ ToWord(labels[k]) = words[k]
=============================================================================
