---------------------------- MODULE StructTable ----------------------------
(***************************************************************************)
(* The shape of the struct tables.  A struct of fixed layout has a         *)
(* buffer_len(), the accessors that its buffer! declaration defines, each  *)
(* for the bytes from the first number up to the second, and two lists     *)
(* that the code keeps apart from the declaration and from each other: the *)
(* accessors that emit() sets and those that parse() gets, in the order of *)
(* the code.  An accessor stands for the field of the struct that is moved *)
(* through it as well.  A field that does not keep its number has, under   *)
(* `convert`, what parse() makes of a number and emit() of a value.        *)
(***************************************************************************)
EXTENDS Integers, Sequences

Struct(len, buffer, emit, parse) ==
  [len |-> len, buffer |-> buffer, emit |-> emit, parse |-> parse,
   convert |-> [a \in {} |-> {}]]

Converting(s, accessor, from, into) ==
  [s EXCEPT !.convert = [a \in {accessor} |-> [from |-> from, into |-> into]]]

(* The declaration of accessors of one width, one behind the other.        *)
Words(width, names) ==
  [n \in {names[k] : k \in DOMAIN names} |->
     LET k == CHOOSE j \in DOMAIN names : names[j] = n
     IN <<width * (k - 1), width * k>>]
=============================================================================
