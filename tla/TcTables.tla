----------------------------- MODULE TcTables -----------------------------
(***************************************************************************)
(* The attributes of traffic control messages below the options of a       *)
(* message, one table per attribute enum, in the form of LinkTables.       *)
(***************************************************************************)
EXTENDS CodecTable

(* tc/qdiscs/fq_codel.rs                                                   *)
TcQdiscFqCodelOption == Codec(
  [Target |-> 1, Limit |-> 2, Interval |-> 3, Ecn |-> 4, Flows |-> 5, Quantum |-> 6,
   CeThreshold |-> 7, DropBatchSize |-> 8, MemoryLimit |-> 9,
   CeThresholdSelector |-> 10, CeThresholdMask |-> 11],
  [u8 |-> {"CeThresholdSelector", "CeThresholdMask"},
   u32 |-> {"Target", "Limit", "Interval", "Ecn", "Flows", "Quantum", "CeThreshold",
            "DropBatchSize", "MemoryLimit"}],
  [u8 |-> [CeThresholdSelector |-> 10, CeThresholdMask |-> 11],
   u32 |-> [Target |-> 1, Limit |-> 2, Interval |-> 3, Ecn |-> 4, Flows |-> 5, Quantum |-> 6,
            CeThreshold |-> 7, DropBatchSize |-> 8, MemoryLimit |-> 9]])

(* tc/filters/cls_u32.rs                                                   *)
TcFilterU32Option == Codec(
  [ClassId |-> 1, Hash |-> 2, Link |-> 3, Divisor |-> 4, Selector |-> 5, Police |-> 6,
   Action |-> 7, Indev |-> 8, Pnct |-> 9, Mark |-> 10, Flags |-> 11],
  [u32 |-> {"Hash", "Link", "Divisor", "Flags", "ClassId"},
   bytes |-> {"Police", "Indev", "Pnct", "Mark"},
   nlas |-> {"Action"},
   selector |-> {"Selector"}],
  [u32 |-> [ClassId |-> 1, Hash |-> 2, Link |-> 3, Divisor |-> 4, Flags |-> 11],
   bytes |-> [Police |-> 6, Indev |-> 8, Pnct |-> 9, Mark |-> 10],
   nlas |-> [Action |-> 7],
   selector |-> [Selector |-> 5]])

(* tc/filters/matchall.rs                                                  *)
TcFilterMatchAllOption == Codec(
  [ClassId |-> 1, Action |-> 2, Flags |-> 3, Pnct |-> 4],
  [u32 |-> {"ClassId", "Flags"},
   bytes |-> {"Pnct"},
   nlas |-> {"Action"}],
  [u32 |-> [ClassId |-> 1, Flags |-> 3],
   bytes |-> [Pnct |-> 4],
   nlas |-> [Action |-> 2]])

(* tc/actions/message.rs                                                   *)
TcActionMessageAttribute == Codec(
  [Actions |-> 1, Flags |-> 2, RootCount |-> 3, RootTimeDelta |-> 4, RootExtWarnMsg |-> 5],
  [u32 |-> {"RootCount"},
   be32 |-> {"RootTimeDelta"},
   bits8 |-> {"Flags"},
   textRaw |-> {"RootExtWarnMsg"},
   nlas |-> {"Actions"}],
  [u32 |-> [RootCount |-> 3],
   be32 |-> [RootTimeDelta |-> 4],
   bits8 |-> [Flags |-> 2],
   textRaw |-> [RootExtWarnMsg |-> 5],
   nlas |-> [Actions |-> 1]])

(* tc/actions/action.rs                                                    *)
TcActionAttribute == Codec(
  [Kind |-> 1, Options |-> NLA_F_NESTED + 2, Index |-> 3, Stats |-> 4, Cookie |-> 6,
   InHwCount |-> 10],
  [u32 |-> {"Index", "InHwCount"},
   bytes |-> {"Cookie"},
   text |-> {"Kind"},
   nlas |-> {"Options", "Stats"}],
  [u32 |-> [Index |-> 3, InHwCount |-> 10],
   bytes |-> [Cookie |-> 6],
   text |-> [Kind |-> 1],
   nlas |-> [Options |-> 2, Stats |-> 4]])

(* tc/actions/mirror.rs                                                    *)
TcActionMirrorOption == Codec(
  [Tm |-> 1, Parms |-> 2],
  [s28 |-> {"Parms"},
   bytes |-> {"Tm"}],
  [s28 |-> [Parms |-> 2],
   bytes |-> [Tm |-> 1]])

(* tc/actions/nat.rs                                                       *)
TcActionNatOption == Codec(
  [Parms |-> 1, Tm |-> 2],
  [s36 |-> {"Parms"},
   bytes |-> {"Tm"}],
  [s36 |-> [Parms |-> 1],
   bytes |-> [Tm |-> 2]])

(* tc/stats/xstats.rs: the layout of TcXstats under a kind.                *)
XstatsFormat(kind) == IF kind = "fq_codel" THEN "xstats" ELSE "bytes"

(* A codec of statistics: one variant is a TcXstats.                       *)
WithXstats(variant, codec) ==
  LET Kinds == {"fq_codel", "other"}
      any == codec.emit["any"]
      arms == codec.parse["any"]
      format(kind) == XstatsFormat(kind)
      Emits(kind) == IF format(kind) \in DOMAIN any
                     THEN [any EXCEPT ![format(kind)] = @ \cup {variant}]
                     ELSE any @@ (format(kind) :> {variant})
      arm == variant :> codec.kind[variant]
  IN [kind |-> codec.kind,
      emit |-> [kind \in Kinds |-> Emits(kind)],
      parse |-> [kind \in Kinds |-> Join(format(kind) :> arm, arms)]]

(* tc/stats/stats2.rs                                                      *)
TcStats2 == WithXstats("App", Codec(
  [Basic |-> 1, Queue |-> 3, App |-> 4, BasicHw |-> 7],
  [s20 |-> {"Queue"},
   basic |-> {"Basic", "BasicHw"}],
  [rBasic |-> [Basic |-> 1, BasicHw |-> 7],
   r20 |-> [Queue |-> 3]]))

(* tc/attribute.rs: an attribute on its own.  What the options are decoded *)
(* as, and how they are wrapped, is TcMessage's subject.                   *)
TcAttribute == WithXstats("Xstats", Codec(
  [Kind |-> 1, Stats |-> 3, Xstats |-> 4, Rate |-> 5, Fcnt |-> 6, Stats2 |-> 7,
   Stab |-> 8, DumpInvisible |-> 10, Chain |-> 11, HwOffload |-> 12],
  [u8 |-> {"HwOffload"},
   u32 |-> {"Chain"},
   bytes |-> {"Rate", "Fcnt", "Stab"},
   text |-> {"Kind"},
   nlas |-> {"Stats2"},
   compat |-> {"Stats"},
   flag |-> {"DumpInvisible"},
   off |-> {"DumpInvisible"}],
  [u8 |-> [HwOffload |-> 12],
   u32 |-> [Chain |-> 11],
   bytes |-> [Rate |-> 5, Fcnt |-> 6, Stab |-> 8],
   text |-> [Kind |-> 1],
   nlas |-> [Stats2 |-> 7],
   compat |-> [Stats |-> 3],
   flag |-> [DumpInvisible |-> 10]]))

(* tc/qdiscs/ingress.rs                                                    *)
TcQdiscIngressOption == Opaque

TcCodecs ==
  [TcQdiscFqCodelOption |-> TcQdiscFqCodelOption,
   TcFilterU32Option |-> TcFilterU32Option,
   TcFilterMatchAllOption |-> TcFilterMatchAllOption,
   TcActionMessageAttribute |-> TcActionMessageAttribute,
   TcActionAttribute |-> TcActionAttribute,
   TcActionMirrorOption |-> TcActionMirrorOption,
   TcActionNatOption |-> TcActionNatOption, TcStats2 |-> TcStats2,
   TcAttribute |-> TcAttribute, TcQdiscIngressOption |-> TcQdiscIngressOption]
=============================================================================
