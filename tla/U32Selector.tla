---------------------------- MODULE U32Selector ----------------------------
(***************************************************************************)
(* The selector of a u32 filter: a header with a count, nkeys, and the     *)
(* keys behind it.  In the struct the count and the list of keys are two   *)
(* public fields that nothing ties together: buffer_len() goes by the      *)
(* count, emit() by the list, parse() by the count of the message.         *)
(* A key is a model value; the fields of header and key are the business   *)
(* of StructLayout.                                                        *)
(***************************************************************************)
EXTENDS Integers, Sequences

CONSTANTS
  Keys,      \* what a key can hold
  Stale,     \* what the caller's buffer holds where a key goes
  MaxKeys,   \* largest count and longest list
  MaxTrips   \* emissions of one selector

VARIABLES
  nkeys,    \* the count in the struct
  keys,     \* the list in the struct
  count,    \* the count in the message
  slots,    \* the room for keys in the message
  at,       \* keys that the running loop is through with
  status,   \* "emitting", "parsing", "ok" or "panic"
  trips,    \* emissions begun
  first     \* the struct or the message it began with

vars == <<nkeys, keys, count, slots, at, status, trips, first>>

KeyLists == UNION {[1 .. n -> Keys] : n \in 0 .. MaxKeys}

(* Faulty: the header is taken out of the room for the keys.               *)
BufferLenShort(n) == IF n = 0 THEN 0 ELSE n - 1

(* The buffer that the caller allocates for buffer_len() bytes.            *)
BufferLen(n) == n

Init ==
  /\ at = 0
  /\ \/ /\ nkeys \in 0 .. MaxKeys
        /\ keys \in KeyLists
        /\ count = nkeys
        /\ slots = [k \in 1 .. BufferLen(nkeys) |-> Stale]
        /\ status = "emitting"
        /\ trips = 1
        /\ first = [by |-> "application", nkeys |-> nkeys, keys |-> keys]
     \/ /\ count \in 0 .. MaxKeys
        /\ slots \in KeyLists
        /\ nkeys = count
        /\ keys = <<>>
        /\ status = "parsing"
        /\ trips = 0
        /\ first = [by |-> "kernel", nkeys |-> count, keys |-> slots]

(* k.emit() into the slice of key number at; the slice is out of range     *)
(* where the buffer has no room for the key.                               *)
EmitKey ==
  /\ status = "emitting"
  /\ at < Len(keys)
  /\ IF at + 1 \in DOMAIN slots
     THEN /\ slots' = [slots EXCEPT ![at + 1] = keys[at + 1]]
          /\ at' = at + 1
          /\ UNCHANGED status
     ELSE /\ status' = "panic"
          /\ UNCHANGED <<slots, at>>
  /\ UNCHANGED <<nkeys, keys, count, trips, first>>

Sent ==
  /\ status = "emitting"
  /\ at = Len(keys)
  /\ status' = "parsing"
  /\ at' = 0
  /\ keys' = <<>>
  /\ UNCHANGED <<nkeys, count, slots, trips, first>>

(* Faulty: the last key is not read.                                       *)
ParseEndEarly(n) == n - 1

(* The loop runs over the count, 0..nkeys.                                 *)
ParseEnd(n) == n

(* Faulty: every round reads the first slice.                              *)
KeyAtFirst(i) == 1

(* The slice of key number i, of 16 bytes.                                 *)
KeyAt(i) == i + 1

(* One round of the loop: the slice of key number at, which nobody has     *)
(* compared with the length of the payload.                                *)
ParseKey ==
  /\ status = "parsing"
  /\ at < ParseEnd(count)
  /\ IF KeyAt(at) \in DOMAIN slots
     THEN /\ keys' = Append(keys, slots[KeyAt(at)])
          /\ at' = at + 1
          /\ UNCHANGED status
     ELSE /\ status' = "panic"
          /\ UNCHANGED <<keys, at>>
  /\ UNCHANGED <<nkeys, count, slots, trips, first>>

ParseDone ==
  /\ status = "parsing"
  /\ at >= ParseEnd(count)
  /\ nkeys' = count
  /\ status' = "ok"
  /\ UNCHANGED <<keys, count, slots, at, trips, first>>

EmitAgain ==
  /\ status = "ok"
  /\ trips < MaxTrips
  /\ status' = "emitting"
  /\ trips' = trips + 1
  /\ count' = nkeys
  /\ slots' = [k \in 1 .. BufferLen(nkeys) |-> Stale]
  /\ at' = 0
  /\ UNCHANGED <<nkeys, keys, first>>

Next == EmitKey \/ Sent \/ ParseKey \/ ParseDone \/ EmitAgain

Spec == Init /\ [][Next]_vars

-----------------------------------------------------------------------------
(* The loops stay within the list and the count.                           *)
TypeOK ==
  /\ {nkeys, count} \subseteq 0 .. MaxKeys
  /\ keys \in Seq(Keys \union {Stale}) /\ Len(keys) <= MaxKeys
  /\ slots \in Seq(Keys \union {Stale}) /\ Len(slots) <= MaxKeys
  /\ at \in 0 .. MaxKeys
  /\ trips \in 0 .. MaxTrips
  /\ status \in {"emitting", "parsing", "ok", "panic"}

(* What is read is what was built or received, on every trip, with as many *)
(* keys as it counts, so that the next emission of it neither panics nor   *)
(* lets stale bytes out.  Keys that were counted and not listed are read   *)
(* as what the buffer held; bytes behind the last key that the kernel      *)
(* counted are dropped.                                                    *)
ReadAsSent ==
  status = "ok" =>
    /\ nkeys = Len(keys) /\ nkeys = first.nkeys
    /\ \A k \in 1 .. Len(keys) :
         keys[k] = IF k <= Len(first.keys) THEN first.keys[k] ELSE Stale

(* emit() panics for a list longer than its count, parse() for a message   *)
(* that counts more keys than it has, and nothing else panics: never a     *)
(* second trip.                                                            *)
PanicsKnown ==
  status = "panic" =>
    \/ first.by = "application" /\ trips = 1 /\ Len(first.keys) > first.nkeys
    \/ first.by = "kernel" /\ trips = 0 /\ Len(first.keys) < first.nkeys
=============================================================================
