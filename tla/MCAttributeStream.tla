-------------------------- MODULE MCAttributeStream --------------------------
(* Model-checking instance of AttributeStream, with its refinement.        *)
EXTENDS AttributeStream

(* The Vec is returned with the last step: until then nothing is decided,  *)
(* and an Err carries no attributes.                                       *)
Outcome ==
  [status |-> status, attrs |-> IF status = "ok" THEN attrs ELSE <<>>]

Abstract == INSTANCE AttributeDecode WITH outcome <- Outcome

(* The loop with its iterator implements the one-step decoder.             *)
ImplementsDecode == Abstract!Spec
=============================================================================
