------------------------------- MODULE MCLayouts -------------------------------
(***************************************************************************)
(* The codecs that are tables, side by side: the fields of headers and     *)
(* structs, the numbers of enumerations, and the flags of IFLA_EXT_MASK.   *)
(* They share no state: `part` says whose behaviour this is, and the       *)
(* variables that codec does not have stay Unset.                          *)
(***************************************************************************)
EXTENDS Integers

CONSTANTS
  Bits, Others, MaxFlags,   \* LinkExtMask
  MaxTrips                  \* emissions of one value

ASSUME MaxTripsAssumption == MaxTrips \in Nat \ {0}
ASSUME ExtMaskAssumption ==
  /\ Bits \in 8 .. 30
  /\ Others \subseteq 1 .. 2^Bits - 1
  /\ MaxFlags \in Nat \ {0}

VARIABLES
  part,
  origin, phase, trips,          \* of several codecs
  struct, bytes, fields, start, moved,  \* of StructLayout
  enum, wire, value,             \* of NumberCodec
  mask, list, first, status      \* of LinkExtMask

Struct == INSTANCE StructLayout
Number == INSTANCE NumberCodec
Mask == INSTANCE LinkExtMask

structVars == <<struct, bytes, fields, start, moved>>
numberVars == <<enum, wire, value>>
maskVars == <<mask, list, first, status>>
vars == <<part, origin, phase, trips, structVars, numberVars, maskVars>>

Unset == "unset"

NoStruct ==
  struct = Unset /\ bytes = Unset /\ fields = Unset /\ start = Unset /\ moved = Unset
NoNumber == enum = Unset /\ wire = Unset /\ value = Unset
NoMask == mask = Unset /\ list = Unset /\ first = Unset /\ status = Unset

Init ==
  \/ part = "struct" /\ Struct!Init /\ NoNumber /\ NoMask
  \/ part = "number" /\ Number!Init /\ NoStruct /\ NoMask
  \/ part = "mask" /\ Mask!Init /\ NoStruct /\ NoNumber /\ origin = Unset /\ phase = Unset

Next ==
  \/ part = "struct" /\ Struct!Next /\ UNCHANGED <<part, numberVars, maskVars>>
  \/ part = "number" /\ Number!Next /\ UNCHANGED <<part, structVars, maskVars>>
  \/ part = "mask" /\ Mask!Next /\ UNCHANGED <<part, origin, phase, structVars, numberVars>>

Spec == Init /\ [][Next]_vars
-----------------------------------------------------------------------------
(* No accessor reaches out of its buffer, and no number out of its field.  *)
TypeOK ==
  /\ part = "struct" => Struct!TypeOK
  /\ part = "number" => Number!TypeOK
  /\ part = "mask" => Mask!TypeOK

(* What an application built is read back as it was: every field that      *)
(* emit() was given, the accessors of buffer!, emit() and parse() being    *)
(* the same and apart; the variant of an enumeration, but for the aliases  *)
(* that NumberCodec names; the flags of a list that repeats no bit.        *)
RoundTrip ==
  /\ part = "struct" => Struct!RoundTrip
  /\ part = "number" => Number!RoundTrip
  /\ part = "mask" => Mask!RoundTrip

(* What the kernel sent is sent back as it came: a struct but for the      *)
(* bytes that no accessor names and the numbers that its fields do not     *)
(* keep (the settings of a virtual function above 1), a number with a name *)
(* or without, but for the collapses that NumberCodec names, a mask with   *)
(* every bit.                                                              *)
Resent ==
  /\ part = "struct" => Struct!Resent
  /\ part = "number" => Number!Resent
  /\ part = "mask" => Mask!Resent

(* The bytes of the caller's buffer that go out with an emitted header or  *)
(* struct are those StructLayout lists, no more and no fewer.              *)
CallerBytes == part = "struct" => Struct!CallerBytes

(* Flags are added: a list that repeats a bit asks for other flags than it *)
(* lists, and the sum is what goes out on every later trip.                *)
RepeatedCarries == part = "mask" => Mask!RepeatedCarries
=============================================================================
