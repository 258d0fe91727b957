--------------------------- MODULE MCAbiRoundTrip ---------------------------
(***************************************************************************)
(* The definitions of MCAbis compiled, converted back and compiled again.  *)
(***************************************************************************)
EXTENDS AbiRoundTrip, MCAbis

ASSUME BackAssumption == EachOnce /\ DeepEnough

RoundTripQueries == {"A?[]", "B[]$"}
=============================================================================
