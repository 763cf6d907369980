---------------------------- MODULE LinkExtMask ----------------------------
(***************************************************************************)
(* IFLA_EXT_MASK: the number of the message, a mask of bits, is a list of  *)
(* flags for the application.  The way there takes the mask apart flag by  *)
(* flag; the way back ADDS the flags up, so that a flag the application    *)
(* lists twice carries into the next bit.                                  *)
(* A flag is the number of its bit, and Other(n) the number n.             *)
(***************************************************************************)
EXTENDS Integers, Sequences, FiniteSets, FiniteSetsExt, SequencesExt

CONSTANTS
  Bits,       \* width of the number; 32 in the code
  Others,     \* numbers to try for Other
  MaxFlags,   \* longest list that an application builds
  MaxTrips    \* conversions of one value

VARIABLES
  mask,     \* the number
  list,     \* the list of flags
  first,    \* what it began with: <<"kernel", mask>> or <<"application", list>>
  trips,    \* conversions of the list to a number
  status    \* "mask" (mask is new), "list" (list is new) or "overflow"

vars == <<mask, list, first, trips, status>>

(* Vf, Brvlan, BrvlanCompressed, SkipStats, Mrp, CfmConfig, CfmStatus, Mst *)
ALL_LINK_FLAGS == <<1, 2, 4, 8, 16, 32, 64, 128>>

Flags == ToSet(ALL_LINK_FLAGS)

Has(n, flag) == (n \div flag) % 2 = 1

(* Faulty: what no flag accounts for is dropped.                           *)
FromMaskKnown(d) == SelectSeq(ALL_LINK_FLAGS, LAMBDA flag : Has(d, flag))

FromMask(d) ==
  LET ret == SelectSeq(ALL_LINK_FLAGS, LAMBDA flag : Has(d, flag))
      got == FoldSeq(+, 0, ret)
  IN IF got # d THEN Append(ret, d - got) ELSE ret

(* Faulty: a flag that is there already is taken away again.               *)
SumToggles(v) == FoldSeq(LAMBDA flag, d : IF Has(d, flag) THEN d - flag ELSE d + flag, 0, v)

(* Faulty: the list is summed up without its last flag.                    *)
SumShort(v) == IF v = <<>> THEN 0 ELSE FoldSeq(+, 0, Front(v))

Sum(v) == FoldSeq(+, 0, v)

Init ==
  /\ trips = 0
  /\ \/ /\ mask \in 0 .. 2^Bits - 1
        /\ list = <<>>
        /\ first = <<"kernel", mask>>
        /\ status = "mask"
     \/ /\ list \in SeqOf(Flags \union Others, MaxFlags)
        /\ mask = 0
        /\ first = <<"application", list>>
        /\ status = "list"

Parse ==
  /\ status = "mask"
  /\ list' = FromMask(mask)
  /\ status' = "list"
  /\ UNCHANGED <<mask, first, trips>>

(* A sum that does not fit stops a build with overflow checks and wraps in *)
(* one without.                                                            *)
Emit ==
  /\ status = "list"
  /\ trips < MaxTrips
  /\ trips' = trips + 1
  /\ \/ /\ mask' = Sum(list) % 2^Bits
        /\ status' = "mask"
     \/ /\ Sum(list) >= 2^Bits
        /\ status' = "overflow"
        /\ UNCHANGED mask
  /\ UNCHANGED <<list, first>>

Next == Parse \/ Emit

Spec == Init /\ [][Next]_vars

-----------------------------------------------------------------------------
(* A mask has its width, and a list ends with the one Other it may hold.   *)
TypeOK ==
  /\ mask \in 0 .. 2^Bits - 1
  /\ trips \in 0 .. MaxTrips
  /\ status \in {"mask", "list", "overflow"}
  /\ (status = "list" /\ (trips > 0 \/ first[1] = "kernel")) =>
       \A k \in DOMAIN list : list[k] \in Flags \/ (k = Len(list) /\ list[k] % 256 = 0)

(* The bits of a number.                                                   *)
BitsOf(n) == {k \in 0 .. Bits - 1 : Has(n, 2^k)}

(* No bit is in two members of the list.                                   *)
NoBitTwice(v) == \A j, k \in DOMAIN v : j # k => BitsOf(v[j]) \intersect BitsOf(v[k]) = {}

(* The mask that the list stands for: every bit that a member names.       *)
Asked(v) == UNION {BitsOf(v[k]) : k \in DOMAIN v}

(* Every member counted as often as it is listed.                          *)
Total(v) == MapThenSumSet(LAMBDA k : v[k], DOMAIN v)

(* The mask of the kernel is sent back as it came, bits without a name     *)
(* included, on every trip.                                                *)
Resent ==
  (first[1] = "kernel" /\ status = "mask") => mask = first[2]

(* The message asks for the flags that the application listed, in whatever *)
(* order, as long as no bit is listed twice.  The sum overflows only for a *)
(* list that repeats a bit.                                                *)
RoundTrip ==
  (first[1] = "application" /\ NoBitTwice(first[2])) =>
    /\ status # "overflow"
    /\ (trips > 0 /\ status = "mask") => BitsOf(mask) = Asked(first[2])

(* A bit listed twice: the mask that goes out is never the one asked for,  *)
(* unless the sum wraps.  Once out, it is kept: the damage is done by the  *)
(* first sum alone.                                                        *)
RepeatedCarries ==
  (first[1] = "application" /\ ~NoBitTwice(first[2]) /\ trips > 0 /\ status = "mask") =>
    /\ Total(first[2]) < 2^Bits => BitsOf(mask) # Asked(first[2])
    /\ mask = Total(first[2]) % 2^Bits
=============================================================================
